SPECIFICATION FairSpec
CONSTANTS
  v1 = v1
  v2 = v2
  v3 = v3
  job = job
  cron = cron
  None = None
  Failed = Failed
  Values = {v1, v2, v3}
  Keys <- MCKeys
  PodFields <- MCPodFields
  ParamFields <- MCParamFields
  Workers = {job, cron}
  Requests <- MCRequests
  Dirs = {d1, d2, d3}
  Cap = 1
  Outputs <- MCOutputs
  Complaints <- MCComplaints
  Ops = {"add", "remove"}
  Faults = 1
INVARIANTS TypeOK PatchedAsWritten ChildReaped CleansUp
PROPERTIES Returns ServesPatches
