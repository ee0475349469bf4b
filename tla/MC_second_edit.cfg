SPECIFICATION Spec
CONSTANTS
  Ticket = {1, 2}
  Existing = {1}
  User = {"ann", "bob"}
  Content = {"ann", "plain", "bob", "both"}
  Named <- NamedIn
  Request = {r1, r2}
  Seeded = {c0}
  UpdateDtos <- RivalEdits
  InitContents <- SeedContents
  MaxInFlight = 2
  MaxCrashes = 0
  NoRow = NoRow
  NoBody = NoBody
  NoId = NoId
  Absent = Absent
  Seed = Seed
  c0 = c0
  r1 = r1
  r2 = r2
SYMMETRY RequestSymmetry
PROPERTY SecondEditConflicts
CHECK_DEADLOCK FALSE
