SPECIFICATION WholeSpec
CONSTANTS
  Customers = {u1}
  Licenses = {l1}
  Keys = {k1}
  Bindings = {b1}
  Attempts = {a1}
  Challenges = {c1}
  OpIds = {o1}
  Requests = {r1}
  Consents = {s1}
  Retires = {t1}
  Trials = {}
  IssueTrials = {}
  OnePerDevice = {}
  TrialSeconds = 2
  AttemptTTL = 1
  ChallengeTTL = 1
  CodeTTL = 1
  LeaseMax = 2
  Allowance = 1
  RecoveryTTL = 1
  DenialWindow = 9
  Limits = {1}
  Starts = {}
  Ends = {9}
  LeaseTerms = {}
  Generations = {1}
  MaxRevision = 2
  MaxTime = 2
  CleanupRows = 1
  None = None
PROPERTIES
  ImplementsLedger
SYMMETRY Symmetric
CHECK_DEADLOCK FALSE
