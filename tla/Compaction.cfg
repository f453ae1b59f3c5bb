\* Compaction at every place, hooks that fail with failing diagnostics, cancel().
\* The session may stop for good once a diagnostic has poisoned the runtime.
SPECIFICATION Spec
CONSTANTS
  r1 = r1
  r2 = r2
  r3 = r3
  c1 = c1
  c2 = c2
  c3 = c3
  NoRequest = norequest
  Requests = {r1, r2}
  Mode <- FollowupCompact
  CallIds = {c1, c2}
  Replies <- TwoCalls
  JobCalls = {}
  BadCalls = {}
  MaxSteps = 2
  MaxActions = 1
  KeepTurns = 1
  Capacity = 2
  JobLimit = 1
  May = {"guard", "model", "diagnostic", "timeout", "compact", "oversize"}
  MaxFaults = 0
  MaxCancels = 1
INVARIANTS PairedAtRequest NoTicketForgotten
CHECK_DEADLOCK FALSE
