SPECIFICATION FairSpec
CONSTANTS
  CronFields = {timeZone}
  PodFields = {}
  Values = {v1, v2, v3}
  Unset = Unset
  Profiles = {a}
  PatchedInVain = {v3}
  Invalid = {v2}
  Unpatchable <- MCUnpatchable
  Rejected <- MCRejected
  NoCron = NoCron
  NoProfile = NoProfile
  NoBatch = NoBatch
  MaxUid = 2
  MaxTime = 1
  MaxLag = 1
  Edits = 1
  Removals = 1
  Faults = 1
  Crashes = 0
PROPERTIES AvailableIsEarned EventuallyApplied EventuallyGone ComesToRest
CHECK_DEADLOCK FALSE
