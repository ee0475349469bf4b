SPECIFICATION FairSpec
CONSTANTS
  Request = {r1, r2, r3}
  Operation = {"upload", "removeAttachment", "removeProject", "restoreProject", "importCsv", "restoreTicket", "createComment"}
  SeedUser = {root}
  SeedProject = {p0}
  SeedFile = {f0}
  SeedToken = {k0}
  Name = {"root", "dev", "new"}
  Email = {"root@", "dev@", "new@"}
  Text = {"old"}
  Ticket = {1, 2}
  LiveTicket = {1}
  Referenced = {root}
  CreateUserDtos <- Nothing
  UpdateUserDtos <- Nothing
  UpdateProjectDtos <- Nothing
  InitUsers <- OneUser
  MaxInFlight = 3
  MaxCrashes = 1
  NoRow = NoRow
  NoBody = NoBody
  NoId = NoId
  Absent = Absent
  Elsewhere = Elsewhere
  root = root
  dev = dev
  r1 = r1
  r2 = r2
  r3 = r3
  p0 = p0
  f0 = f0
  k0 = k0
INVARIANT FilesMatchRows
INVARIANT ChangesLogged
PROPERTY SideEffectsSettle
CHECK_DEADLOCK FALSE
