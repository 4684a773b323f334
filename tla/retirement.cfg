SPECIFICATION FencingSpec
CONSTANTS
  Customers = {u1, u2}
  Licenses = {l1, l2, l3}
  Keys = {k1, k2}
  Bindings = {b1, b2}
  Attempts = {a1, a2}
  Challenges = {c1, c2, c3}
  OpIds = {o1}
  Requests = {r1, r2, r3}
  Consents = {s1}
  Retires = {t1}
  Trials = {l2, l3}
  IssueTrials = {l3}
  OnePerDevice = {l2, l3}
  TrialSeconds = 2
  AttemptTTL = 9
  ChallengeTTL = 9
  CodeTTL = 9
  LeaseMax = 2
  Allowance = 1
  RecoveryTTL = 9
  DenialWindow = 9
  Limits = {1, 2}
  Starts = {0}
  Ends = {2, 20}
  LeaseTerms = {1}
  Generations = {1}
  MaxRevision = 3
  MaxTime = 3
  CleanupRows = 1
  None = None
INVARIANTS
  WithinCapacity
  TrialStartsOnce
  LiveDevicesWithinLimit
  RetirementFencesLeases
  RetirementPromiseKept
  RevisionStandsForAuthority
SYMMETRY Symmetric
CHECK_DEADLOCK FALSE
