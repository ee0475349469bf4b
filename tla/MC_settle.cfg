SPECIFICATION FairSpec
CONSTANTS
  Ticket = {1}
  Project = {1, 2}
  User = {1, 2}
  Developer = {1, 2}
  Title = {"old", "new"}
  Request = {r1}
  Run = {k1, k2}
  Operation = {"update", "remove"}
  UpdateDtos <- OverlapUpdates
  CreateDtos <- None
  InitTickets <- OverlapTickets
  InitDeps <- NoLinks
  MaxNow = 1
  MaxInFlight = 4
  MaxCrashes = 1
  NoRow = NoRow
  NoTicket = NoTicket
  NoUser = NoUser
  NoDate = NoDate
  NoDep = NoDep
  NoBody = NoBody
  Absent = Absent
  Seed = Seed
  r1 = r1
  k1 = k1
  k2 = k2
PROPERTY LateTicketsSettle
