\* Two turns, one of which starts a background job and has one refused, a crash and
\* close(), under fairness.
SPECIFICATION FairSpec
CONSTANTS
  r1 = r1
  r2 = r2
  r3 = r3
  c1 = c1
  c2 = c2
  c3 = c3
  NoRequest = norequest
  Requests = {r1, r2}
  Mode <- TwoFollowups
  CallIds = {c1, c2}
  Replies <- TwoCalls
  JobCalls = {c1, c2}
  BadCalls = {}
  MaxSteps = 2
  MaxActions = 2
  KeepTurns = 1
  Capacity = 2
  JobLimit = 1
  May = {"crash", "close"}
  MaxFaults = 1
  MaxCancels = 0
PROPERTIES JobsEndOnce EverythingSettles CloseEnds
