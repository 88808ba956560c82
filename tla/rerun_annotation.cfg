SPECIFICATION Spec
CONSTANTS
  Templates = {t1}
  Params = {p1, p2}
  TTLs = {1}
  NoTTL = NoTTL
  Limits = {2}
  MaxCollisions = 3
  Names <- MCNames
  NameOf <- MCNameOf
  SpecHash <- MCSpecHash
  Slack = 1
  NoJob = NoJob
  NoProfile = NoProfile
  NoRun = NoRun
  PatchedInVain = {}
  Invalid = {}
  Unpatchable <- MCUnpatchable
  Rejected <- MCRejected
  MinRuntime = 1
  MaxUid = 4
  MaxTime = 4
  MaxLag = 1
  Edits = 1
  Removals = 0
  Faults = 1
  Crashes = 0
  CachedReads = FALSE
PROPERTIES KeepsPromise
CHECK_DEADLOCK FALSE
