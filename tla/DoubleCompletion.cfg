\* A failing post_action hook whose diagnostic callback fails too.
SPECIFICATION Spec
CONSTANTS
  r1 = r1
  r2 = r2
  r3 = r3
  c1 = c1
  c2 = c2
  c3 = c3
  NoRequest = norequest
  Requests = {r1}
  Mode <- OneFollowup
  CallIds = {c1}
  Replies <- OneCall
  JobCalls = {}
  BadCalls = {}
  MaxSteps = 2
  MaxActions = 2
  KeepTurns = 1
  Capacity = 2
  JobLimit = 1
  May = {"diagnostic"}
  MaxFaults = 0
  MaxCancels = 0
INVARIANT LogReplays
