SPECIFICATION FairSpec
CONSTANTS
  Jobs = {j1}
  Reindex = {j1}
  Procs = {api, worker}
  Workers = {w1, w2}
  api = api
  worker = worker
  w1 = w1
  w2 = w2
  NoJob = NoJob
  ProcOf <- MCProcOf
  MaxAttempts = 2
  AgeCap = 3
  Overdue = 2
  MaxBackoff = 1
  Timeout = 1
  Slack = 1
  Lease = 2
  RetainDone = 1
  RetainFailed = 2
  MaxStops = 2
  HonourDeadline = TRUE
PROPERTIES EveryJobSettles ShutdownCompletes
