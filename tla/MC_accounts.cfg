SPECIFICATION Spec
CONSTANTS
  Request = {r1, r2, r3}
  Operation = {"createUser", "updateUser", "removeUser", "createProject", "updateProject", "removeProject", "restoreProject", "login", "logout", "addDependency"}
  SeedUser = {root, dev}
  SeedProject = {p0}
  SeedFile = {}
  SeedToken = {k0}
  Name = {"root", "dev", "new"}
  Email = {"root@", "dev@", "new@"}
  Text = {"old", "new"}
  Ticket = {1}
  LiveTicket = {1}
  Referenced = {root}
  CreateUserDtos <- Registrations
  UpdateUserDtos <- UserEdits
  UpdateProjectDtos <- ProjectEdits
  InitUsers <- TwoUsers
  MaxInFlight = 3
  MaxCrashes = 1
  NoRow = NoRow
  NoBody = NoBody
  NoId = NoId
  Absent = Absent
  Elsewhere = Elsewhere
  root = root
  dev = dev
  r1 = r1
  r2 = r2
  r3 = r3
  p0 = p0
  k0 = k0
SYMMETRY RequestSymmetry
INVARIANT TypeOK
INVARIANT DirectorySound
PROPERTY PatchesExact
CHECK_DEADLOCK FALSE
