SPECIFICATION ImportSpec
CONSTANTS
  Ticket = {1, 2, 3, 4}
  Project = {1}
  User = {1, 2, 3}
  Developer = {1, 2}
  Title = {"old", "new", "a", "b"}
  Request = {r1, r2, r3}
  Run = {k1}
  Operation = {"create", "remove"}
  UpdateDtos <- None
  CreateDtos <- Creates
  ClientDtos <- Clients
  CsvFiles <- Files
  InitTickets <- LateTicket
  InitDeps <- NoLinks
  MaxNow = 1
  MaxInFlight = 3
  MaxCrashes = 1
  NoRow = NoRow
  NoTicket = NoTicket
  NoUser = NoUser
  NoDate = NoDate
  NoDep = NoDep
  NoBody = NoBody
  NoCall = NoCall
  Absent = Absent
  Seed = Seed
  Bad = Bad
  r1 = r1
  r2 = r2
  r3 = r3
  k1 = k1
SYMMETRY RequestSymmetry
INVARIANT EscalationsLogged
INVARIANT AssignmentsLogged
INVARIANT ImportsPrefix
INVARIANT ImportSpreads
