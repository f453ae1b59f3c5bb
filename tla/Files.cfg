\* Four calls of two sessions; failing system calls, crashes, cancellations, and
\* programs that ignore the lock.
\* The session ends when every call has been made.
SPECIFICATION Spec
CONSTANTS
  s1 = s1
  s2 = s2
  c1 = c1
  c2 = c2
  c3 = c3
  c4 = c4
  a = a
  b = b
  NoCall = nocall
  NoText = notext
  Sessions = {s1, s2}
  Calls = {c1, c2, c3, c4}
  Owner <- Owners
  Texts = {a, b}
  LockOf <- OneLock
  Args <- Mixed
  May = {"crash", "fault", "outside"}
  MaxOutside = 1
  MaxFaults = 1
  MaxCancels = 1
CHECK_DEADLOCK FALSE
INVARIANTS ReportsAreHonest ThreadsAreAwaited
PROPERTIES RegisterSpec SnapshotsAreWhole CreateNeverReplaces
