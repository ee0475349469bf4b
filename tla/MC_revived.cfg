SPECIFICATION Spec
CONSTANTS
  Ticket = {1}
  Project = {1, 2}
  User = {1, 2}
  Developer = {1, 2}
  Title = {"old", "new"}
  Request = {r1, r2}
  Run = {k1}
  Operation = {"update", "remove"}
  UpdateDtos <- Untouched
  CreateDtos <- None
  InitTickets <- OverlapTickets
  InitDeps <- NoLinks
  MaxNow = 1
  MaxInFlight = 3
  MaxCrashes = 0
  NoRow = NoRow
  NoTicket = NoTicket
  NoUser = NoUser
  NoDate = NoDate
  NoDep = NoDep
  NoBody = NoBody
  Absent = Absent
  Seed = Seed
  r1 = r1
  r2 = r2
  k1 = k1
SYMMETRY RequestSymmetry
PROPERTY OnlyRestoreRevives
