SPECIFICATION Spec
CONSTANTS
  Ticket = {1, 2, 3}
  Project = {1, 2}
  User = {1, 2}
  Developer = {1, 2}
  Title = {"old", "new"}
  Request = {r1, r2, r3}
  Run = {k1}
  Operation = {"create", "update", "remove", "restore", "addDependency", "removeDependency", "getDependencies"}
  UpdateDtos <- SerialUpdates
  CreateDtos <- SerialCreates
  InitTickets <- SerialTickets
  InitDeps <- SerialLinks
  MaxNow = 1
  MaxInFlight = 1
  MaxCrashes = 1
  NoRow = NoRow
  NoTicket = NoTicket
  NoUser = NoUser
  NoDate = NoDate
  NoDep = NoDep
  NoBody = NoBody
  Absent = Absent
  Seed = Seed
  r1 = r1
  r2 = r2
  r3 = r3
  k1 = k1
SYMMETRY RequestSymmetry
INVARIANT TypeOK
INVARIANT OverdueIsCritical
PROPERTY ImplementsBoard
PROPERTY AssignsLeastLoaded
PROPERTY CyclesStayOpen
