----------------------------- MODULE RequestLedger -----------------------------
(***************************************************************************)
(* What a session promises about each user input, whatever happens to the  *)
(* process: it is queued once, accepted into at most one turn, ends with   *)
(* one outcome that never changes, and whoever waits for the answer is     *)
(* told that outcome or nothing.                                           *)
(***************************************************************************)
CONSTANTS Requests, Outcomes

VARIABLES
  status,  \* per request: absent, queued, accepted or its outcome
  told     \* per request: what its ticket answered in this process, or "none"

ledger == <<status, told>>

Init ==
  /\ status = [r \in Requests |-> "absent"]
  /\ told = [r \in Requests |-> "none"]

Enqueue(r) ==
  /\ status[r] = "absent"
  /\ status' = [status EXCEPT ![r] = "queued"]
  /\ UNCHANGED told

Accept(r) ==
  /\ status[r] = "queued"
  /\ status' = [status EXCEPT ![r] = "accepted"]
  /\ UNCHANGED told

\* Everything a turn accepted ends with it, with one outcome.
EndTurn(outcome) ==
  /\ status' = [r \in Requests |->
                  IF status[r] = "accepted" THEN outcome ELSE status[r]]
  /\ UNCHANGED told

\* An input that never enters a turn: refused, or a compaction that is done.
Settle(r, outcome) ==
  /\ status[r] = "queued"
  /\ status' = [status EXCEPT ![r] = outcome]
  /\ told' \in {told, [told EXCEPT ![r] = outcome]}

\* Tickets are answered, each with the recorded outcome and at most once.
Tell ==
  /\ \A r \in Requests :
       \/ told'[r] = told[r]
       \/ told[r] = "none" /\ status[r] \in Outcomes /\ told'[r] = status[r]
  /\ DOMAIN told' = Requests
  /\ UNCHANGED status

\* The process ends: its tickets are gone, the ledger is not.
Forget ==
  /\ told' = [r \in Requests |-> "none"]
  /\ UNCHANGED status

Next ==
  \/ \E r \in Requests : Enqueue(r) \/ Accept(r)
  \/ \E outcome \in Outcomes :
       EndTurn(outcome) \/ \E r \in Requests : Settle(r, outcome)
  \/ Tell
  \/ Forget

Spec == Init /\ [][Next]_ledger

===============================================================================
