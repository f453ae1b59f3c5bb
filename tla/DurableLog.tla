------------------------------- MODULE DurableLog -------------------------------
(***************************************************************************)
(* What the session store promises to whoever owns a session, and what     *)
(* Runtime assumes of it: events are added one at a time and by one owner; *)
(* an acknowledged event stays; of an append that failed the event may be  *)
(* there or not, and that is settled before the log is opened again.       *)
(***************************************************************************)
EXTENDS Naturals, Sequences

VARIABLES
  log,     \* the events a reader would find, each with an id
  kept,    \* how many of them have been acknowledged
  owned,   \* somebody has the log open and may append
  late     \* an append has failed whose event may still land

durable == <<log, kept, owned, late>>

Init == log = <<>> /\ kept = 0 /\ owned = FALSE /\ late = FALSE

\* One more event, which the log does not have.
Grows ==
  LET e == log'[Len(log')] IN
  /\ log' # <<>> /\ log' = Append(log, e)
  /\ \A i \in DOMAIN log : log[i].id # e.id

\* The log is opened when nobody has it and nothing can land in it any more.
Open ==
  /\ ~owned /\ ~late
  /\ owned' = TRUE
  /\ UNCHANGED <<log, kept, late>>

Write == owned /\ Grows /\ UNCHANGED <<kept, owned, late>>

Acknowledge ==
  /\ owned
  /\ kept' = Len(log)
  /\ UNCHANGED <<log, owned, late>>

\* The owner closes the log, dies, or has an append fail.
GiveUp ==
  /\ owned /\ owned' = FALSE
  /\ late' \in BOOLEAN
  /\ UNCHANGED <<log, kept>>

\* The event of a failed append lands after all, or never will.
Settle ==
  /\ late /\ late' = FALSE
  /\ Grows \/ UNCHANGED log
  /\ UNCHANGED <<kept, owned>>

\* The machine dies and takes events that were not acknowledged.
Lose ==
  /\ \E n \in kept .. Len(log) : log' = SubSeq(log, 1, n)
  /\ owned' = FALSE /\ late' = FALSE
  /\ UNCHANGED kept

Next == Open \/ Write \/ Acknowledge \/ GiveUp \/ Settle \/ Lose

Spec == Init /\ [][Next]_durable
===============================================================================
