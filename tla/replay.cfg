SPECIFICATION RepeatSpec
CONSTANTS
  Customers = {u1, u2}
  Licenses = {l1}
  Keys = {k1}
  Bindings = {b1}
  Attempts = {a1}
  Challenges = {c1, c2, c3}
  OpIds = {o1, o2}
  Requests = {r1, r2, r3}
  Consents = {s1, s2}
  Retires = {t1}
  Trials = {}
  IssueTrials = {}
  OnePerDevice = {}
  TrialSeconds = 2
  AttemptTTL = 2
  ChallengeTTL = 3
  CodeTTL = 2
  LeaseMax = 2
  Allowance = 1
  RecoveryTTL = 2
  DenialWindow = 9
  Limits = {1}
  Starts = {}
  Ends = {20}
  LeaseTerms = {}
  Generations = {1}
  MaxRevision = 3
  MaxTime = 3
  CleanupRows = 1
  None = None
PROPERTIES
  NoFalseDenial
INVARIANTS
  OneAnswerPerOperation
  ApprovalSpentOnce
  RecoverableWhileRetained
  ReturnedCodeIsCommitted
  DenialIsFinal
SYMMETRY Symmetric
CHECK_DEADLOCK FALSE
