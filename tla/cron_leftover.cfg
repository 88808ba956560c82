SPECIFICATION Spec
CONSTANTS
  CronFields = {timeZone}
  PodFields = {command}
  Values = {v1}
  Unset = Unset
  Profiles = {a}
  PatchedInVain = {}
  Invalid = {}
  Unpatchable <- MCUnpatchable
  Rejected <- MCRejected
  NoCron = NoCron
  NoProfile = NoProfile
  NoBatch = NoBatch
  MaxUid = 2
  MaxTime = 1
  MaxLag = 1
  Edits = 1
  Removals = 1
  Faults = 0
  Crashes = 0
INVARIANTS NothingLeftOver
CHECK_DEADLOCK FALSE
