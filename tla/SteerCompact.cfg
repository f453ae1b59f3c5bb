\* A follow-up, a steer and a compaction; guards, a failed write or crash, close().
SPECIFICATION Spec
CONSTANTS
  r1 = r1
  r2 = r2
  r3 = r3
  c1 = c1
  c2 = c2
  c3 = c3
  NoRequest = norequest
  Requests = {r1, r2, r3}
  Mode <- FollowupSteerCompact
  CallIds = {c1}
  Replies <- TextOnly
  JobCalls = {}
  BadCalls = {}
  MaxSteps = 2
  MaxActions = 2
  KeepTurns = 1
  Capacity = 2
  JobLimit = 1
  May = {"guard", "model", "crash", "write", "close"}
  MaxFaults = 1
  MaxCancels = 0
INVARIANTS RequestsConsistent CompletedTurnMissesNothing NoStrandedInput NoTicketForgotten
PROPERTIES LedgerSpec OldestFirst
