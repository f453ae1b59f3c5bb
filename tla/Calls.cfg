\* One call with a retry, streamed or not, all protocols, failures at any point.
\* The call ends, and with it everything.
SPECIFICATION Spec
CONSTANTS
  i1 = i1
  i2 = i2
  a = a
  b = b
  Protocols <- AllProtocols
  Modes = {TRUE, FALSE}
  MaxRetries = 1
  Indices = {i1, i2}
  CallIds = {a, b}
  MaxEvents = 6
  May = {"cancel"}
SYMMETRY Interchangeable
INVARIANTS AnswerIsWhole OneVoice  
CHECK_DEADLOCK FALSE
