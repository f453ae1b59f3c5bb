----------------------------- MODULE FileRegister -----------------------------
(***************************************************************************)
(* What the file tools promise to processes that all use them: the file is *)
(* a register with compare-and-swap.  A call takes effect at most once, in *)
(* one indivisible step and on exactly the text it was computed from, or   *)
(* it has no effect at all.  Nothing is promised any more once a program   *)
(* has written to the file that does not use them.                         *)
(***************************************************************************)
CONSTANTS
  Calls,     \* the calls of write and edit
  Replaces,  \* Replaces[c]: the content that call c expects to find
  Writes     \* Writes[c]: the content it leaves

VARIABLES
  private,   \* all writers so far have used the tools
  value,     \* the content of the file; that it does not exist is one of them
  effect     \* "pending", "applied" or "none", for each call

Init == private = TRUE /\ effect = [c \in Calls |-> "pending"]

\* The call finds what it expects and replaces it.
Apply(c) ==
  /\ effect[c] = "pending"
  /\ value = Replaces[c]
  /\ value' = Writes[c]
  /\ effect' = [effect EXCEPT ![c] = "applied"]

\* The call is refused, fails, or its process dies: the file is as it was.
GiveUp(c) ==
  /\ effect[c] = "pending"
  /\ effect' = [effect EXCEPT ![c] = "none"]
  /\ UNCHANGED value

Next ==
  \/ /\ private /\ UNCHANGED private
     /\ \E c \in Calls : Apply(c) \/ GiveUp(c)
  \/ private' = FALSE

Spec == Init /\ [][Next]_<<private, value, effect>>
===============================================================================
