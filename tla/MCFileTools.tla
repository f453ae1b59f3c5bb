------------------------------ MODULE MCFileTools ------------------------------
(* Small instances of the file tools: two sessions, two calls each.          *)
EXTENDS FileTools, TLC

CONSTANTS s1, s2, c1, c2, c3, c4, a, b

Read(expected) ==
  [tool |-> "read", expected |-> expected, createOnly |-> FALSE, content |-> NoText]
Write(expected, createOnly, content) ==
  [tool |-> "write", expected |-> expected, createOnly |-> createOnly, content |-> content]
Edit(expected, content) ==
  [tool |-> "edit", expected |-> expected, createOnly |-> FALSE, content |-> content]

Owners == [c \in Calls |-> IF c \in {c1, c2} THEN s1 ELSE s2]

OneLock == [s \in Sessions |-> "lock"]
LockPerProcess == [s \in Sessions |-> IF s = s1 THEN "lock1" ELSE "lock2"]

\* Two edits of the same text, a read and a creation.
Mixed ==
  (c1 :> Edit(a, b)) @@ (c2 :> Read(NoText)) @@ (c3 :> Edit(a, b)) @@ (c4 :> Write(NoText, FALSE, a))

TwoEdits == (c1 :> Edit(a, b)) @@ (c3 :> Edit(a, b))
===============================================================================
