SPECIFICATION Spec
CONSTANTS
  Templates = {t1}
  Params = {p1, p2}
  TTLs = {NoTTL}
  NoTTL = NoTTL
  Limits = {1}
  MaxCollisions = 3
  Names <- MCNames
  NameOf <- MCNameOf
  SpecHash <- MCSpecHash
  Slack = 1
  NoJob = NoJob
  NoProfile = NoProfile
  NoRun = NoRun
  PatchedInVain = {}
  Invalid = {}
  Unpatchable <- MCUnpatchable
  Rejected <- MCRejected
  MinRuntime = 1
  MaxUid = 3
  MaxTime = 2
  MaxLag = 1
  Edits = 1
  Removals = 0
  Faults = 1
  Crashes = 0
  CachedReads = FALSE
PROPERTIES AvailableMeansApplied
CHECK_DEADLOCK FALSE
