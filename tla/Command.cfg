\* A shell with two descendants, cancellation, a kill that is denied; fairness.
\* The call ends, and with it everything.
SPECIFICATION FairSpec
CONSTANTS
  c1 = c1
  c2 = c2
  out = out
  err = err
  Shell = shell
  Children = {c1, c2}
  Streams = {out, err}
  OutputLimit = 1
  MaxChunks = 2
  May = {"leave", "cancel", "denied", "fault", "spawn"}
INVARIANTS NothingLeftBehind ReportIsTrue
PROPERTIES CallEnds
CHECK_DEADLOCK FALSE
