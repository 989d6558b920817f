SPECIFICATION Spec
SYMMETRY Symmetry
CONSTANTS
  Requests = {r1, r2, r3, r4}
  Users = {u1}
  Names = {n1}
  Threads = 2
  Connections = 2
  Nobody = Nobody
  Assigned = {"admin", "customer"}
  Lifetime = 1
  MaxTime = 3
  MaxTokens = 1
  MaxReleases = 1
INVARIANTS
  StallNeedsManyCalls
  OnlyAdminsCreate
  OneCreatorPerName
