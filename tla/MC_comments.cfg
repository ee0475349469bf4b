SPECIFICATION Spec
CONSTANTS
  Ticket = {1, 2}
  Existing = {1}
  User = {"ann", "bob"}
  Content = {"ann", "plain", "bob", "both"}
  Named <- NamedIn
  Request = {r1, r2, r3}
  Seeded = {c0}
  UpdateDtos <- Edits
  InitContents <- SeedContents
  MaxInFlight = 3
  MaxCrashes = 1
  NoRow = NoRow
  NoBody = NoBody
  NoId = NoId
  Absent = Absent
  Seed = Seed
  c0 = c0
  r1 = r1
  r2 = r2
  r3 = r3
SYMMETRY RequestSymmetry
INVARIANT TypeOK
INVARIANT MentionsSound
PROPERTY LoneHandlersConsistent
CHECK_DEADLOCK FALSE
