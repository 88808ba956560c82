SPECIFICATION Spec
CONSTANTS
  Templates = {t1, t2}
  Params = {p1, p2}
  TTLs = {NoTTL}
  NoTTL = NoTTL
  Limits = {0, 1}
  MaxCollisions = 3
  Names <- MCNames
  NameOf <- MCNameOf
  SpecHash <- MCSpecHash
  Slack = 1
  NoJob = NoJob
  NoProfile = NoProfile
  NoRun = NoRun
  PatchedInVain = {}
  Invalid = {}
  Unpatchable <- MCUnpatchable
  Rejected <- MCRejected
  MinRuntime = 0
  MaxUid = 3
  MaxTime = 1
  MaxLag = 2
  Edits = 1
  Removals = 0
  Faults = 1
  Crashes = 1
  CachedReads = TRUE
INVARIANTS Converged HistorySettled GeneratesFirst
PROPERTIES NeverDeletesRunning CollisionCountKept AvailableIsCurrent
SYMMETRY MCSymmetry
CHECK_DEADLOCK FALSE
