\* One turn with up to three calls, a background job among them; cancel(), a turn
\* timeout, close(), crashes and failed writes.
SPECIFICATION Spec
CONSTANTS
  r1 = r1
  r2 = r2
  r3 = r3
  c1 = c1
  c2 = c2
  c3 = c3
  NoRequest = norequest
  Requests = {r1}
  Mode <- OneFollowup
  CallIds = {c1, c2, c3}
  Replies <- ThreeCalls
  JobCalls = {c2}
  BadCalls = {c1}
  MaxSteps = 2
  MaxActions = 3
  KeepTurns = 1
  Capacity = 2
  JobLimit = 1
  May = {"guard", "model", "crash", "write", "close", "timeout"}
  MaxFaults = 2
  MaxCancels = 1
INVARIANTS PairedAtRequest ResultsAreOwn EffectsAccountedFor LogReplays AtMostOneLateStart AcknowledgedJobsRun
