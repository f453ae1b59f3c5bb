\* Pairs and named hooks around one scope; diagnostics that fail, cancellation.
\* The session ends when all calls and dispatches are used up.
SPECIFICATION Spec
CONSTANTS
  n = n
  Names = {n}
  Priorities = {0, 1}
  NoPair = nopair
  May = {"diagnostic", "cancel"}
  MaxCalls = 3
  MaxDispatches = 1
INVARIANTS UnwindsWhatItEntered PairsNest FailedChangesDoNotLeak
PROPERTIES FrozenStays
CHECK_DEADLOCK FALSE
