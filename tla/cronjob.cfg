SPECIFICATION Spec
CONSTANTS
  CronFields = {}
  PodFields = {command}
  Values = {v1, v2}
  Unset = Unset
  Profiles = {a, b}
  PatchedInVain = {}
  Invalid = {}
  Unpatchable <- MCUnpatchable
  Rejected <- MCRejected
  NoCron = NoCron
  NoProfile = NoProfile
  NoBatch = NoBatch
  MaxUid = 2
  MaxTime = 2
  MaxLag = 1
  Edits = 2
  Removals = 0
  Faults = 0
  Crashes = 1
INVARIANTS TypeOK Converged ApplyLeavesNothing
SYMMETRY MCSymmetry
CHECK_DEADLOCK FALSE
