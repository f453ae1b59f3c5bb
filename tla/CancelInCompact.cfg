\* cancel() during a compaction outside a turn, with another input queued.
SPECIFICATION Spec
CONSTANTS
  r1 = r1
  r2 = r2
  r3 = r3
  c1 = c1
  c2 = c2
  c3 = c3
  NoRequest = norequest
  Requests = {r1, r2}
  Mode <- FollowupCompact
  CallIds = {c1}
  Replies <- TextOnly
  JobCalls = {}
  BadCalls = {}
  MaxSteps = 2
  MaxActions = 2
  KeepTurns = 1
  Capacity = 2
  JobLimit = 1
  May = {}
  MaxFaults = 0
  MaxCancels = 1
INVARIANT NoStrandedInput
