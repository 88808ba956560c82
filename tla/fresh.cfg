SPECIFICATION FairSpec
CONSTANTS
  Templates = {t1}
  Params = {p1, p2, p3, p4}
  TTLs = {1}
  NoTTL = NoTTL
  Limits = {1}
  MaxCollisions = 3
  Names <- MCNames
  NameOf <- MCNameOf
  SpecHash <- MCSpecHash
  Slack = 1
  NoJob = NoJob
  NoProfile = NoProfile
  NoRun = NoRun
  PatchedInVain = {p3}
  Invalid = {p4}
  Unpatchable <- MCUnpatchable
  Rejected <- MCRejected
  MinRuntime = 1
  MaxUid = 4
  MaxTime = 3
  MaxLag = 1
  Edits = 1
  Removals = 0
  Faults = 1
  Crashes = 1
  CachedReads = FALSE
INVARIANTS TypeOK NoConcurrentRuns OneRemains TTLSettled ExpiryJustified
PROPERTIES KeepsPromise EventuallyGenerated ComesToRest
CHECK_DEADLOCK FALSE
