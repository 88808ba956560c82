SPECIFICATION Spec
CONSTANTS
  Templates = {t1}
  Params = {p1}
  TTLs = {0}
  NoTTL = NoTTL
  Limits = {1}
  MaxCollisions = 3
  Names <- MCNames
  NameOf <- MCNameOf
  SpecHash <- MCSpecHash
  Slack = 1
  NoJob = NoJob
  NoProfile = NoProfile
  NoRun = NoRun
  PatchedInVain = {}
  Invalid = {}
  Unpatchable <- MCUnpatchable
  Rejected <- MCRejected
  MinRuntime = 1
  MaxUid = 4
  MaxTime = 3
  MaxLag = 1
  Edits = 1
  Removals = 1
  Faults = 0
  Crashes = 0
  CachedReads = FALSE
INVARIANTS GeneratesFirst
CHECK_DEADLOCK FALSE
