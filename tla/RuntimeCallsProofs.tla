--------------------------- MODULE RuntimeCallsProofs ---------------------------
(***************************************************************************)
(* Calls, turns, jobs, tickets and the queue, for every script of the      *)
(* model and every bound: the context is paired whenever it is sent, the   *)
(* log can be replayed, an effect is reported as what it was, cancel()     *)
(* lets at most one more action start, a completed turn has missed         *)
(* nothing, jobs end once, every waiting client is answered, no input is   *)
(* stranded, and the oldest input is served first.                         *)
(*                                                                         *)
(* CallsInv is inductive alone, and the others rest on it.  Traced adds    *)
(* which action served which call, as long as the provider's call ids are  *)
(* new.  Moves is what nearly every step does to the counters that         *)
(* AtMostOneLateStart and the properties of jobs are about; Quiet is what  *)
(* nearly every step does to the queue and the tickets.  Thereby the       *)
(* proofs of LateOnce, JobsInv, TicketsInv and QueueInv only look at the   *)
(* other steps.                                                            *)
(***************************************************************************)
EXTENDS RuntimeProofs, FiniteSetTheorems

-------------------------------------------------------------------------------
(* The inductive invariant.                                                *)

\* Where the worker is while a batch of calls waits for its results.
BatchPCs == {"postAssistant", "batch", "preAction", "tool", "postAction"}

\* The last message asks for calls that no message answers yet.
HasBatch(ms) == ms # <<>> /\ ms[Len(ms)].calls # <<>>

LastOf(ms) == ms[Len(ms)]

\* The messages right behind message i answer its calls one by one.
Answered(ms, i) ==
  \A k \in 1 .. Len(ms[i].calls) :
    /\ ms[i + k].role = "tool" /\ ms[i + k].call = ms[i].calls[k]
    /\ ms[i + k].turn = ms[i].turn

\* The first n messages are paired.
PairedUpTo(ms, n) ==
  /\ \A i \in 1 .. n : i + Len(ms[i].calls) <= n /\ Answered(ms, i)
  /\ \A j \in 1 .. n : ms[j].role = "tool" =>
       /\ ms[j].calls = <<>>
       /\ \E i \in 1 .. (j - 1) : j <= i + Len(ms[i].calls)

Distinct(ms) ==
  \A i, j \in 1 .. Len(ms) :
    \A k \in 1 .. Len(ms[i].calls), l \in 1 .. Len(ms[j].calls) :
      ms[i].calls[k] = ms[j].calls[l] => i = j /\ k = l

\* The context is paired, but for a batch at its end.
Paired(ms) ==
  /\ PairedUpTo(ms, IF HasBatch(ms) THEN Len(ms) - 1 ELSE Len(ms))
  /\ Distinct(ms)
  /\ HasBatch(ms) => LastOf(ms).role = "assistant"

\* "Never started" is said of the actions that never started, and of no other.
Honest(actions) ==
  \A a \in 1 .. Len(actions) : actions[a].started <=> actions[a].result # "skipped"

\* What holds of the log's state, whatever the worker does.
Sane(s) ==
  /\ s \in States
  /\ Len(s.notifications) = Len(s.jobs)
  /\ Paired(s.messages)
  /\ HasBatch(s.messages) =>
       /\ s.currentTurn # 0 /\ LastOf(s.messages).turn = s.currentTurn
       /\ LastOf(s.messages).number <= Len(s.actions)
  /\ Honest(s.actions)
  /\ "diagnostic" \notin May => s.replayable

\* The worker's variables fit its place.
Shaped(v) ==
  /\ v.pc = "preTurn" => v.site = "turn"
  /\ v.pc \in {"preUser", "postUser"} => v.site \in {"turn", "head", "tail"}
  /\ v.pc \in {"boundary", "arrivals"} => v.site \in {"head", "tail"}
  /\ v.pc \in CompactPCs => v.site \in {"head", "tail", "budget", "top"}
  /\ v.pc \in {"preUser", "postUser"} \cup CompactPCs /\ v.site \in {"head", "tail"} =>
       v.arrivals # {} /\ First(v.arrivals).kind = "input"
  /\ IF v.pc \in {"none", "ready", "drain", "postTurn"} THEN v.timer = "off"
                                                        ELSE v.entry \in Requests

\* The k-th call of the batch is served by the k-th action since.
AtCall(s, pc) ==
  LET b == LastOf(s.messages)
      n == Len(s.actions) - b.number
  IN  /\ n \in 0 .. Len(b.calls)
      /\ \A k \in 1 .. n : s.actions[b.number + k].call = b.calls[k]
      /\ \A k \in 1 .. n : s.actions[b.number + k].result = "none" <=> pc = "tool" /\ k = n
      /\ pc = "preAction" => n < Len(b.calls)
      /\ pc \in {"tool", "postAction"} => n # 0

Placed(s, v) ==
  /\ InTurn(v) /\ v.pc \notin {"unwind", "closeBatch"} => s.currentTurn # 0
  /\ v.pc \notin BatchPCs \cup {"none", "unwind", "closeBatch"} => ~HasBatch(s.messages)
  /\ v.pc \in BatchPCs => HasBatch(s.messages) /\ AtCall(s, v.pc)

Lifecycle ==
  /\ life = "down" => ~poisoned /\ w = NoWorker
  /\ life = "recovering" => ~poisoned /\ w = Recoverer
  /\ life \in {"open", "closing"} => Shaped(w) /\ Placed(state, w)
  /\ Up /\ w.pc = "none" => ~HasBatch(state.messages)

CallsInv == TypeOK /\ Sane(state) /\ Lifecycle

-------------------------------------------------------------------------------
(* Effects.                                                                *)

ActedOn(s) == {s.actions[a].call : a \in 1 .. Len(s.actions)}

\* The provider does not use a call id again that an action was recorded for.
IdsAreNew ==
  (SeenCalls(state'.messages) \ SeenCalls(state.messages)) \cap ActedOn(state) = {}

Own(s) ==
  \A i \in 1 .. Len(s.messages) : \A k \in 1 .. Len(s.messages[i].calls) :
    i + k <= Len(s.messages) =>
      LET m == s.messages[i + k]
      IN  /\ m.number \in 1 .. Len(s.actions)
          /\ m.number > s.messages[i].number
          /\ s.actions[m.number].call = m.call
          /\ s.actions[m.number].result # "none"

\* Each call of an open batch has its own action, or none yet.
Traced(s) ==
  /\ Own(s)
  /\ \A a \in 1 .. Len(s.actions) : s.actions[a].result = "none" =>
       /\ HasBatch(s.messages)
       /\ a = Len(s.actions) /\ a > LastOf(s.messages).number
  /\ HasBatch(s.messages) =>
       LET b == LastOf(s.messages)
           n == Len(s.actions) - b.number
       IN  /\ n <= Len(b.calls)
           /\ \A k \in 1 .. n : s.actions[b.number + k].call = b.calls[k]
           /\ \A a \in 1 .. b.number, k \in 1 .. Len(b.calls) : s.actions[a].call # b.calls[k]
-------------------------------------------------------------------------------
(* Sequences of messages.                                                  *)

\* What is at the places of a longer sequence.
LEMMA AppendIs ==
  ASSUME NEW S, NEW s \in Seq(S), NEW x \in S
  PROVE  /\ Append(s, x) \in Seq(S) /\ Len(Append(s, x)) = Len(s) + 1
         /\ \A i \in 1 .. Len(s) : Append(s, x)[i] = s[i]
         /\ Append(s, x)[Len(s) + 1] = x
  BY AppendProperties

LEMMA ConcatIs ==
  ASSUME NEW S, NEW s \in Seq(S), NEW t \in Seq(S)
  PROVE  /\ s \o t \in Seq(S) /\ Len(s \o t) = Len(s) + Len(t)
         /\ \A i \in 1 .. Len(s) : (s \o t)[i] = s[i]
         /\ \A i \in 1 .. Len(t) : (s \o t)[Len(s) + i] = t[i]
  BY ConcatProperties

\* What a message has.
LEMMA MessageHas ==
  ASSUME NEW ms \in Seq(Message)
  PROVE  /\ Len(ms) \in Nat /\ DOMAIN ms = 1 .. Len(ms)
         /\ \A i \in 1 .. Len(ms) :
              /\ ms[i] \in Message
              /\ ms[i].calls \in Seq(CallIds) /\ Len(ms[i].calls) \in Nat
              /\ DOMAIN ms[i].calls = 1 .. Len(ms[i].calls)
              /\ ms[i].turn \in Nat /\ ms[i].number \in Nat
         /\ ms # <<>> <=> Len(ms) # 0
<1>1. Len(ms) \in Nat /\ DOMAIN ms = 1 .. Len(ms) /\ \A i \in 1 .. Len(ms) : ms[i] \in Message
  BY LenProperties, ElementOfSeq
<1>2. ms # <<>> <=> Len(ms) # 0
  BY EmptySeq, <1>1
<1>3. \A m \in Message : m.calls \in Seq(CallIds) /\ m.turn \in Nat /\ m.number \in Nat
  BY DEF Message
<1>4. \A m \in Message : Len(m.calls) \in Nat /\ DOMAIN m.calls = 1 .. Len(m.calls)
  BY <1>3, LenProperties
<1> QED
  BY <1>1, <1>2, <1>3, <1>4

\* A context that is paired and has no open batch passes validate_pairing.
LEMMA PairedIsValid ==
  ASSUME NEW ms \in Seq(Message), Paired(ms), ~HasBatch(ms)
  PROVE  ValidPairing(ms)
<1>1. PairedUpTo(ms, Len(ms)) /\ Distinct(ms)
  BY DEF Paired
<1>2. /\ DOMAIN ms = 1 .. Len(ms) /\ Len(ms) \in Nat
      /\ \A i \in 1 .. Len(ms) : /\ Len(ms[i].calls) \in Nat
                                 /\ DOMAIN ms[i].calls = 1 .. Len(ms[i].calls)
  BY MessageHas
<1>3. ASSUME NEW i \in DOMAIN ms
      PROVE  /\ Answers(ms, i) \subseteq DOMAIN ms
             /\ \A j \in Answers(ms, i) : ms[j].role = "tool"
             /\ {ms[j].call : j \in Answers(ms, i)} =
                  {ms[i].calls[k] : k \in DOMAIN ms[i].calls}
  <2>1. i + Len(ms[i].calls) <= Len(ms) /\ Answered(ms, i)
    BY <1>1, <1>2 DEF PairedUpTo
  <2>2. Answers(ms, i) = (i + 1) .. (i + Len(ms[i].calls))
    BY DEF Answers
  <2>3. \A j \in Answers(ms, i) :
          /\ j - i \in 1 .. Len(ms[i].calls) /\ i + (j - i) = j
    BY <1>2, <2>2
  <2>4. \A j \in Answers(ms, i) :
          /\ j \in 1 .. Len(ms)
          /\ ms[j].role = "tool" /\ ms[j].call = ms[i].calls[j - i]
    BY <1>2, <2>1, <2>2, <2>3 DEF Answered
  <2>5. \A k \in 1 .. Len(ms[i].calls) :
          i + k \in Answers(ms, i) /\ ms[i + k].call = ms[i].calls[k]
    BY <1>2, <2>1, <2>2 DEF Answered
  <2>6. ASSUME NEW c
        PROVE  c \in {ms[j].call : j \in Answers(ms, i)} <=>
                 c \in {ms[i].calls[k] : k \in 1 .. Len(ms[i].calls)}
    <3>1. ASSUME NEW j \in Answers(ms, i), c = ms[j].call
          PROVE  \E k \in 1 .. Len(ms[i].calls) : c = ms[i].calls[k]
      BY <2>3, <2>4, <3>1
    <3>2. ASSUME NEW k \in 1 .. Len(ms[i].calls), c = ms[i].calls[k]
          PROVE  \E j \in Answers(ms, i) : c = ms[j].call
      BY <2>5, <3>2
    <3> QED
      BY <3>1, <3>2
  <2>7. {ms[j].call : j \in Answers(ms, i)} = {ms[i].calls[k] : k \in 1 .. Len(ms[i].calls)}
    BY <2>6, Zenon
  <2>8. Answers(ms, i) \subseteq DOMAIN ms /\ \A j \in Answers(ms, i) : ms[j].role = "tool"
    BY <1>2, <2>4
  <2> QED
    BY <1>2, <2>7, <2>8
<1>4. ASSUME NEW j \in DOMAIN ms, ms[j].role = "tool"
      PROVE  \E i \in 1 .. (j - 1) : j \in Answers(ms, i)
  <2>1. PICK i \in 1 .. (j - 1) : j <= i + Len(ms[i].calls)
    BY <1>1, <1>2, <1>4 DEF PairedUpTo
  <2> QED
    BY <1>2, <2>1 DEF Answers
<1>5. \A i, j \in DOMAIN ms : \A k \in DOMAIN ms[i].calls, l \in DOMAIN ms[j].calls :
        ms[i].calls[k] = ms[j].calls[l] => <<i, k>> = <<j, l>>
  BY <1>1, <1>2 DEF Distinct
<1> QED
  BY <1>3, <1>4, <1>5 DEF ValidPairing

\* An empty context is paired.
LEMMA EmptyIsPaired == Paired(<<>>) /\ ~HasBatch(<<>>)
  BY DEF Paired, PairedUpTo, Distinct, HasBatch

\* A paired context without an open batch stays paired with another user message
\* or answer of the model.
LEMMA PairedAppend ==
  ASSUME NEW ms \in Seq(Message), Paired(ms), ~HasBatch(ms), NEW m \in Message,
         m.role # "tool", m.calls # <<>> => m.role = "assistant",
         \A k, l \in 1 .. Len(m.calls) : m.calls[k] = m.calls[l] => k = l,
         \A i \in 1 .. Len(ms) : \A k \in 1 .. Len(ms[i].calls), l \in 1 .. Len(m.calls) :
           ms[i].calls[k] # m.calls[l]
  PROVE  /\ Paired(Append(ms, m)) /\ Append(ms, m) \in Seq(Message)
         /\ HasBatch(Append(ms, m)) <=> m.calls # <<>>
         /\ LastOf(Append(ms, m)) = m
<1> DEFINE t == Append(ms, m)
           n == Len(ms)
<1>1. /\ t \in Seq(Message) /\ Len(t) = n + 1 /\ t[n + 1] = m
      /\ \A i \in 1 .. n : t[i] = ms[i]
  BY AppendIs
<1>2. /\ n \in Nat
      /\ \A i \in 1 .. n : Len(ms[i].calls) \in Nat
      /\ PairedUpTo(ms, n) /\ Distinct(ms)
  BY MessageHas DEF Paired
<1>3. Len(m.calls) \in Nat /\ (m.calls = <<>> <=> Len(m.calls) = 0)
  <2>1. m.calls \in Seq(CallIds)
    BY DEF Message
  <2> QED
    BY <2>1, EmptySeq, LenProperties
<1>4. HasBatch(t) <=> m.calls # <<>>
  <2> HIDE DEF t, n
  <2>1. t # <<>>
    BY <1>1, <1>2, EmptySeq
  <2> QED
    BY <1>1, <2>1 DEF HasBatch
<1>5. LastOf(t) = m
  BY <1>1 DEF LastOf
<1>6. Distinct(t)
  <2> SUFFICES ASSUME NEW i \in 1 .. (n + 1), NEW j \in 1 .. (n + 1),
                      NEW k \in 1 .. Len(t[i].calls), NEW l \in 1 .. Len(t[j].calls),
                      t[i].calls[k] = t[j].calls[l]
               PROVE  i = j /\ k = l
    BY <1>1 DEF Distinct
  <2> HIDE DEF t
  <2>1. CASE i \in 1 .. n /\ j \in 1 .. n
    BY <1>1, <1>2, <2>1 DEF Distinct
  <2>2. CASE i \in 1 .. n /\ j = n + 1
    BY <1>1, <1>2, <2>2
  <2>3. CASE i = n + 1 /\ j \in 1 .. n
    BY <1>1, <1>2, <2>3
  <2>4. CASE i = n + 1 /\ j = n + 1
    BY <1>1, <1>2, <2>4
  <2> QED
    BY <1>2, <2>1, <2>2, <2>3, <2>4
<1> HIDE DEF t, n
<1>7. ASSUME NEW i \in 1 .. n
      PROVE  i + Len(t[i].calls) <= n /\ Answered(t, i)
  <2>1. t[i] = ms[i] /\ i + Len(ms[i].calls) <= n /\ Answered(ms, i)
    BY <1>1, <1>2 DEF PairedUpTo
  <2>2. ASSUME NEW k \in 1 .. Len(ms[i].calls)
        PROVE  t[i + k] = ms[i + k]
    BY <1>1, <1>2, <2>1
  <2> QED
    BY <2>1, <2>2 DEF Answered
<1>8. ASSUME NEW j \in 1 .. n, t[j].role = "tool"
      PROVE  t[j].calls = <<>> /\ \E i \in 1 .. (j - 1) : j <= i + Len(t[i].calls)
  <2>1. t[j] = ms[j]
    BY <1>1
  <2>2. PICK i \in 1 .. (j - 1) : j <= i + Len(ms[i].calls)
    BY <1>2, <1>8, <2>1 DEF PairedUpTo
  <2>3. i \in 1 .. n /\ t[i] = ms[i]
    BY <1>1, <1>2, <2>2
  <2> QED
    BY <1>2, <1>8, <2>1, <2>2, <2>3 DEF PairedUpTo
<1>9. PairedUpTo(t, n)
  BY <1>7, <1>8 DEF PairedUpTo
<1>10. CASE m.calls = <<>>
  <2>1. Len(t[n + 1].calls) = 0 /\ t[n + 1].role # "tool"
    BY <1>1, <1>3, <1>10
  <2>2. \A i \in 1 .. (n + 1) : i \in 1 .. n \/ i = n + 1
    BY <1>2
  <2>3. ASSUME NEW i \in 1 .. (n + 1)
        PROVE  i + Len(t[i].calls) <= n + 1 /\ Answered(t, i)
    <3>1. CASE i \in 1 .. n
      BY <1>1, <1>2, <1>7, <3>1
    <3>2. CASE i = n + 1
      <4>1. Len(t[i].calls) = 0
        BY <2>1, <3>2, Zenon
      <4>2. Answered(t, i)
        BY <4>1 DEF Answered
      <4> QED
        BY <1>2, <3>2, <4>1, <4>2
    <3> QED
      BY <2>2, <3>1, <3>2
  <2>4. PairedUpTo(t, n + 1)
    BY <1>8, <2>1, <2>2, <2>3 DEF PairedUpTo
  <2> QED
    BY <1>1, <1>4, <1>5, <1>6, <1>10, <2>4 DEF Paired, t
<1>11. CASE m.calls # <<>>
  <2>1. Len(t) - 1 = n
    BY <1>1, <1>2
  <2>2. Paired(t)
    BY <1>4, <1>5, <1>6, <1>9, <1>11, <2>1 DEF Paired
  <2> QED
    BY <1>1, <1>4, <1>5, <2>2 DEF t
<1> QED
  BY <1>10, <1>11

\* A batch that gets its results, one for each call, leaves a paired context.
LEMMA PairedAnswered ==
  ASSUME NEW ms \in Seq(Message), Paired(ms), HasBatch(ms),
         NEW answers \in Seq(Message), Len(answers) = Len(LastOf(ms).calls),
         \A k \in 1 .. Len(answers) :
           /\ answers[k].role = "tool" /\ answers[k].calls = <<>>
           /\ answers[k].call = LastOf(ms).calls[k] /\ answers[k].turn = LastOf(ms).turn
  PROVE  /\ Paired(ms \o answers) /\ ms \o answers \in Seq(Message)
         /\ ~HasBatch(ms \o answers)
<1> DEFINE t == ms \o answers
           n == Len(ms)
           a == Len(answers)
<1>1. /\ t \in Seq(Message) /\ Len(t) = n + a
      /\ \A i \in 1 .. n : t[i] = ms[i]
      /\ \A k \in 1 .. a : t[n + k] = answers[k]
  <2>1. \A s, u \in Seq(Message) :
          /\ s \o u \in Seq(Message) /\ Len(s \o u) = Len(s) + Len(u)
          /\ \A i \in 1 .. Len(s) : (s \o u)[i] = s[i]
          /\ \A i \in 1 .. Len(u) : (s \o u)[Len(s) + i] = u[i]
    BY ConcatIs
  <2> QED
    BY <2>1, Zenon
<1>2. /\ n \in Nat /\ a \in Nat /\ n # 0
      /\ \A i \in 1 .. n : Len(ms[i].calls) \in Nat
      /\ PairedUpTo(ms, n - 1) /\ Distinct(ms) /\ ms[n].role = "assistant"
      /\ Len(ms[n].calls) = a /\ a # 0
  <2>1. n \in Nat /\ a \in Nat /\ n # 0
    BY MessageHas DEF HasBatch
  <2>2. ms[n].calls \in Seq(CallIds) /\ ms[n].calls # <<>>
    BY <2>1, MessageHas DEF HasBatch
  <2> QED
    BY <2>1, <2>2, MessageHas, EmptySeq DEF Paired, HasBatch, LastOf
<1> HIDE DEF t
<1>3. \A j \in 1 .. (n + a) : j \in 1 .. n \/ (j - n \in 1 .. a /\ j = n + (j - n))
  BY <1>2
<1>4. \A j \in 1 .. (n + a) : j \notin 1 .. n =>
        t[j].role = "tool" /\ t[j].calls = <<>> /\ Len(t[j].calls) = 0
  <2> SUFFICES ASSUME NEW j \in 1 .. (n + a), j \notin 1 .. n
               PROVE  t[j].role = "tool" /\ t[j].calls = <<>>
    BY EmptySeq
  <2>1. PICK k \in 1 .. a : j = n + k
    BY <1>3
  <2> HIDE DEF n, a
  <2>2. t[j] = answers[k]
    BY <1>1, <2>1
  <2> QED
    BY <2>2 DEF a
<1> HIDE DEF n, a
<1>5. ~HasBatch(t)
  BY <1>1, <1>2, <1>4 DEF HasBatch
<1>6. Distinct(t)
  <2> SUFFICES ASSUME NEW i \in 1 .. (n + a), NEW j \in 1 .. (n + a),
                      NEW k \in 1 .. Len(t[i].calls), NEW l \in 1 .. Len(t[j].calls),
                      t[i].calls[k] = t[j].calls[l]
               PROVE  i = j /\ k = l
    BY <1>1 DEF Distinct
  <2>1. i \in 1 .. n /\ j \in 1 .. n
    BY <1>4
  <2>2. t[i] = ms[i] /\ t[j] = ms[j]
    BY <1>1, <2>1
  <2>3. i \in 1 .. Len(ms) /\ j \in 1 .. Len(ms)
    BY <2>1 DEF n
  <2> QED
    BY <1>2, <2>2, <2>3 DEF Distinct
<1>7. ASSUME NEW i \in 1 .. (n + a)
      PROVE  i + Len(t[i].calls) <= n + a /\ Answered(t, i)
  <2>1. CASE i \in 1 .. (n - 1)
    <3>1. t[i] = ms[i] /\ i + Len(ms[i].calls) <= n - 1 /\ Answered(ms, i)
      BY <1>1, <1>2, <2>1 DEF PairedUpTo
    <3>2. ASSUME NEW k \in 1 .. Len(ms[i].calls)
          PROVE  t[i + k] = ms[i + k]
      <4>1. Len(ms[i].calls) \in Nat
        BY <1>2, <2>1
      <4>2. i + k \in 1 .. n
        BY <1>2, <2>1, <3>1, <4>1
      <4> QED
        BY <1>1, <4>2
    <3>3. Answered(t, i)
      BY <3>1, <3>2 DEF Answered
    <3>4. Len(ms[i].calls) \in Nat
      BY <1>2, <2>1
    <3> QED
      BY <1>2, <2>1, <3>1, <3>3, <3>4
  <2>2. CASE i = n
    <3>1. t[i] = ms[n] /\ Len(t[i].calls) = a
      BY <1>1, <1>2, <2>2
    <3>2. ms[n] = LastOf(ms)
      BY DEF LastOf, n
    <3>3. ASSUME NEW k \in 1 .. a
          PROVE  /\ t[i + k].role = "tool" /\ t[i + k].call = t[i].calls[k]
                 /\ t[i + k].turn = t[i].turn
      BY <1>1, <2>2, <3>1, <3>2 DEF a
    <3> QED
      BY <1>2, <2>2, <3>1, <3>3 DEF Answered
  <2>3. CASE i \notin 1 .. n
    <3>1. Len(t[i].calls) = 0
      BY <1>4, <2>3
    <3>2. Answered(t, i)
      BY <3>1 DEF Answered
    <3> QED
      BY <1>2, <3>1, <3>2
  <2> QED
    BY <1>2, <2>1, <2>2, <2>3
<1>8. ASSUME NEW j \in 1 .. (n + a), t[j].role = "tool"
      PROVE  t[j].calls = <<>> /\ \E i \in 1 .. (j - 1) : j <= i + Len(t[i].calls)
  <2>0. n \in Nat
    BY <1>2
  <2>1. CASE j \in 1 .. (n - 1)
    <3>1. t[j] = ms[j]
      <4>1. j \in 1 .. n
        BY <2>0, <2>1
      <4> QED
        BY <1>1, <4>1, Zenon
    <3>2. PICK i \in 1 .. (j - 1) : j <= i + Len(ms[i].calls)
      BY <1>2, <1>8, <2>1, <3>1 DEF PairedUpTo
    <3>3. i \in 1 .. n /\ t[i] = ms[i]
      BY <1>1, <1>2, <2>1, <3>2
    <3> QED
      BY <1>2, <1>8, <2>1, <3>1, <3>2, <3>3 DEF PairedUpTo
  <2>2. CASE j = n
    BY <1>1, <1>2, <1>8, <2>2
  <2>3. CASE j \notin 1 .. n
    <3>1. t[n] = ms[n] /\ Len(t[n].calls) = a /\ n \in 1 .. (j - 1) /\ j <= n + a
      BY <1>1, <1>2, <2>3
    <3> QED
      BY <1>4, <2>3, <3>1
  <2>4. j \in 1 .. (n - 1) \/ j = n \/ j \notin 1 .. n
    BY <2>0
  <2> QED
    BY <2>1, <2>2, <2>3, <2>4, Zenon
<1>9. PairedUpTo(t, n + a)
  BY <1>7, <1>8 DEF PairedUpTo
<1> QED
  BY <1>1, <1>5, <1>6, <1>9 DEF Paired, t

\* Places before and after a cut.
LEMMA SplitLength ==
  ASSUME NEW length \in Nat, NEW split \in 1 .. length
  PROVE  IF split + 1 <= length THEN length - (split + 1) + 1 = length - split
                                ELSE length - split = 0
  OBVIOUS

LEMMA ShiftedPlace ==
  \A split, n, l \in Nat : \A i \in 1 .. (n + 1), k \in 1 .. l :
    split + (i - 1) + l <= split + n =>
      /\ i - 1 + k \in 1 .. n /\ 1 + (i - 1 + k) = i + k
      /\ split + (i - 1 + k) = split + (i - 1) + k
  OBVIOUS

LEMMA ShiftedBound ==
  \A split, n, l \in Nat : \A j, q \in Int :
    split + (j - 1) <= q + l => j <= q - split + 1 + l
  OBVIOUS

\* What is at the places of a suffix behind a new first message.
LEMMA SuffixIs ==
  ASSUME NEW ms \in Seq(Message), NEW split \in 1 .. Len(ms), NEW m \in Message
  PROVE  LET t == <<m>> \o SubSeq(ms, split + 1, Len(ms))
         IN  /\ Len(ms) - split \in Nat /\ t \in Seq(Message)
             /\ Len(t) = Len(ms) - split + 1 /\ t[1] = m
             /\ \A i \in 1 .. (Len(ms) - split) :
                  split + i \in 1 .. Len(ms) /\ t[1 + i] = ms[split + i]
<1> DEFINE t == <<m>> \o SubSeq(ms, split + 1, Len(ms))
           n == Len(ms) - split
<1>1. Len(ms) \in Nat /\ n \in Nat /\ Len(ms) = split + n
  BY MessageHas
<1>2. /\ SubSeq(ms, split + 1, Len(ms)) \in Seq(Message)
      /\ Len(SubSeq(ms, split + 1, Len(ms))) = n
      /\ \A i \in 1 .. n : SubSeq(ms, split + 1, Len(ms))[i] = ms[split + i]
  <2> DEFINE u == SubSeq(ms, split + 1, Len(ms))
             lo == split + 1
  <2>1. /\ lo \in Int /\ Len(ms) \in Int /\ \A i \in lo .. Len(ms) : ms[i] \in Message
    BY <1>1, ElementOfSeq
  <2>2. /\ u \in Seq(Message)
        /\ Len(u) = IF lo <= Len(ms) THEN Len(ms) - lo + 1 ELSE 0
        /\ \A i \in 1 .. Len(ms) - lo + 1 : u[i] = ms[lo + i - 1]
    <3> HIDE DEF lo
    <3> QED
      BY <2>1, SubSeqProperties DEF lo
  <2>3. Len(ms) - lo + 1 = n /\ \A i \in 1 .. n : lo + i - 1 = split + i
    BY <1>1
  <2>4. IF lo <= Len(ms) THEN Len(ms) - lo + 1 = n ELSE n = 0
    BY <1>1, SplitLength
  <2>5. Len(u) = n
    BY <1>1, <2>2, <2>3, <2>4
  <2> QED
    BY <2>2, <2>3, <2>5
<1>3. <<m>> \in Seq(Message) /\ Len(<<m>>) = 1 /\ <<m>>[1] = m
  OBVIOUS
<1>4. \A i \in 1 .. n : split + i \in 1 .. Len(ms)
  BY <1>1
<1> HIDE DEF n
<1>5. /\ t \in Seq(Message) /\ Len(t) = n + 1 /\ t[1] = m
      /\ \A i \in 1 .. n : t[1 + i] = ms[split + i]
  <2> DEFINE u == SubSeq(ms, split + 1, Len(ms))
             f == <<m>>
  <2>1. f \in Seq(Message) /\ u \in Seq(Message)
    BY <1>2, <1>3
  <2>2. Len(f) = 1 /\ f[1] = m /\ Len(u) = n /\ \A i \in 1 .. n : u[i] = ms[split + i]
    BY <1>2, <1>3
  <2> HIDE DEF u, f
  <2>3. /\ f \o u \in Seq(Message) /\ Len(f \o u) = Len(f) + Len(u)
        /\ \A i \in 1 .. Len(f) : (f \o u)[i] = f[i]
        /\ \A i \in 1 .. Len(u) : (f \o u)[Len(f) + i] = u[i]
    BY <2>1, ConcatIs
  <2>4. t = f \o u
    BY DEF f, u
  <2>5. \A i \in 1 .. n : (f \o u)[1 + i] = ms[split + i]
    BY <2>2, <2>3, Zenon
  <2>6. (f \o u)[1] = m
    <3>1. 1 \in 1 .. 1
      OBVIOUS
    <3> QED
      BY <2>2, <2>3, <3>1, Zenon
  <2>7. Len(f \o u) = n + 1
    BY <1>1, <2>2, <2>3
  <2> QED
    BY <2>3, <2>4, <2>5, <2>6, <2>7, Zenon
<1> QED
  BY <1>1, <1>4, <1>5 DEF n

\* A suffix that begins behind no batch of its own, after a summary message, is
\* paired.
LEMMA PairedSuffix ==
  ASSUME NEW ms \in Seq(Message), Paired(ms), ~HasBatch(ms),
         NEW split \in 1 .. Len(ms), NEW m \in Message, m.role = "user", m.calls = <<>>,
         \A i \in 1 .. split : i + Len(ms[i].calls) <= split
  PROVE  /\ Paired(<<m>> \o SubSeq(ms, split + 1, Len(ms)))
         /\ <<m>> \o SubSeq(ms, split + 1, Len(ms)) \in Seq(Message)
         /\ ~HasBatch(<<m>> \o SubSeq(ms, split + 1, Len(ms)))
<1> DEFINE t == <<m>> \o SubSeq(ms, split + 1, Len(ms))
           n == Len(ms) - split
<1>1. /\ Len(ms) \in Nat /\ n \in Nat /\ Len(ms) = split + n
      /\ \A i \in 1 .. Len(ms) : Len(ms[i].calls) \in Nat
      /\ PairedUpTo(ms, Len(ms)) /\ Distinct(ms)
  BY MessageHas DEF Paired
<1>4. /\ t \in Seq(Message) /\ Len(t) = n + 1 /\ t[1] = m
      /\ \A i \in 1 .. n : t[1 + i] = ms[split + i]
  BY <1>1, SuffixIs, Zenon
<1> HIDE DEF n
<1> HIDE DEF t
<1>5. \A j \in 1 .. (n + 1) : j = 1 \/ (/\ j - 1 \in 1 .. n /\ j = 1 + (j - 1)
                                        /\ split + (j - 1) \in 1 .. Len(ms)
                                        /\ t[j] = ms[split + (j - 1)])
  <2> SUFFICES ASSUME NEW j \in 1 .. (n + 1), j # 1
               PROVE  /\ j - 1 \in 1 .. n /\ j = 1 + (j - 1)
                      /\ split + (j - 1) \in 1 .. Len(ms)
                      /\ t[j] = ms[split + (j - 1)]
    OBVIOUS
  <2>1. j - 1 \in 1 .. n /\ j = 1 + (j - 1) /\ split + (j - 1) \in 1 .. Len(ms)
    BY <1>1
  <2>2. t[1 + (j - 1)] = ms[split + (j - 1)]
    BY <1>4, <2>1
  <2> QED
    BY <2>1, <2>2
<1>6. Len(m.calls) = 0
  BY EmptySeq
<1>7. ~HasBatch(t)
  <2>1. CASE n = 0
    BY <1>4, <2>1 DEF HasBatch
  <2>2. CASE n # 0
    <3>1. t[n + 1] = ms[Len(ms)]
      <4>1. n \in 1 .. n /\ 1 + n = n + 1 /\ split + n = Len(ms)
        BY <1>1, <2>2
      <4>2. t[1 + n] = ms[split + n]
        BY <1>4, <4>1, Zenon
      <4> QED
        BY <4>1, <4>2, Zenon
    <3>2. ms # <<>>
      BY <1>1, EmptySeq
    <3> QED
      BY <1>4, <3>1, <3>2 DEF HasBatch
  <2> QED
    BY <2>1, <2>2
<1>8. Distinct(t)
  <2> SUFFICES ASSUME NEW i \in 1 .. (n + 1), NEW j \in 1 .. (n + 1),
                      NEW k \in 1 .. Len(t[i].calls), NEW l \in 1 .. Len(t[j].calls),
                      t[i].calls[k] = t[j].calls[l]
               PROVE  i = j /\ k = l
    BY <1>4 DEF Distinct
  <2>1. i # 1 /\ j # 1
    BY <1>4, <1>6
  <2>2. split + (i - 1) = split + (j - 1) /\ k = l
    <3> DEFINE p == split + (i - 1)
               q == split + (j - 1)
    <3>1. p \in 1 .. Len(ms) /\ q \in 1 .. Len(ms) /\ t[i] = ms[p] /\ t[j] = ms[q]
      BY <1>5, <2>1
    <3>2. DOMAIN ms = 1 .. Len(ms)
      BY MessageHas
    <3> HIDE DEF p, q
    <3>3. p = q /\ k = l
      BY <1>1, <3>1, <3>2 DEF Distinct
    <3> QED
      BY <3>3 DEF p, q
  <2> QED
    BY <1>1, <2>2
<1>9. ASSUME NEW i \in 1 .. (n + 1)
      PROVE  i + Len(t[i].calls) <= n + 1 /\ Answered(t, i)
  <2>1. CASE i = 1
    <3>1. Len(t[i].calls) = 0
      BY <1>4, <1>6, <2>1
    <3> QED
      BY <1>1, <2>1, <3>1 DEF Answered
  <2>2. CASE i # 1
    <3> DEFINE p == split + (i - 1)
    <3>1. p \in 1 .. Len(ms) /\ t[i] = ms[p]
      BY <1>5, <2>2
    <3>2. p + Len(ms[p].calls) <= Len(ms) /\ Answered(ms, p)
      BY <1>1, <3>1 DEF PairedUpTo
    <3>3. Len(ms[p].calls) \in Nat
      BY <1>1, <3>1
    <3>4. ASSUME NEW k \in 1 .. Len(ms[p].calls)
          PROVE  t[i + k] = ms[p + k]
      <4>0. n \in Nat /\ split \in Nat /\ Len(ms) = split + n
        BY <1>1
      <4>1. PICK l \in Nat : l = Len(ms[p].calls)
        BY <3>3
      <4>2. k \in 1 .. l /\ p + l <= Len(ms) /\ i \in 1 .. (n + 1)
        BY <3>2, <4>1, Zenon
      <4>3. split + (i - 1) + l <= split + n
        BY <4>0, <4>2
      <4>4. i - 1 + k \in 1 .. n /\ 1 + (i - 1 + k) = i + k /\ split + (i - 1 + k) = p + k
        BY <4>0, <4>2, <4>3, ShiftedPlace
      <4> QED
        BY <1>4, <4>4
    <3>5. i + Len(ms[p].calls) <= n + 1
      <4>1. PICK l \in Nat : l = Len(ms[p].calls)
        BY <3>3
      <4>2. split + (i - 1) + l <= split + n
        BY <1>1, <3>2, <4>1, Zenon
      <4>3. split \in Nat /\ n \in Nat /\ i \in 1 .. (n + 1)
        BY <1>1
      <4>4. i + l <= n + 1
        BY <4>2, <4>3
      <4> QED
        BY <4>1, <4>4, Zenon
    <3> HIDE DEF p
    <3> QED
      BY <3>1, <3>2, <3>4, <3>5 DEF Answered
  <2> QED
    BY <2>1, <2>2
<1>10. ASSUME NEW j \in 1 .. (n + 1), t[j].role = "tool"
       PROVE  t[j].calls = <<>> /\ \E i \in 1 .. (j - 1) : j <= i + Len(t[i].calls)
  <2> DEFINE p == split + (j - 1)
  <2>1. j # 1 /\ p \in 1 .. Len(ms) /\ t[j] = ms[p]
    BY <1>4, <1>5, <1>10
  <2>2. PICK q \in 1 .. (p - 1) : p <= q + Len(ms[q].calls)
    BY <1>1, <1>10, <2>1 DEF PairedUpTo
  <2>3. q \notin 1 .. split
    <3>1. p > split
      BY <1>1, <2>1
    <3>2. q \in 1 .. Len(ms) /\ Len(ms[q].calls) \in Nat
      BY <1>1, <2>1, <2>2
    <3> QED
      BY <1>1, <2>1, <2>2, <3>1, <3>2
  <2> DEFINE i == q - split + 1
  <2>4. i \in 1 .. (j - 1) /\ i # 1 /\ split + (i - 1) = q /\ i \in 1 .. (n + 1)
    BY <1>1, <2>1, <2>2, <2>3
  <2>5. t[i] = ms[q]
    BY <1>5, <2>4
  <2>6. Len(ms[q].calls) \in Nat
    BY <1>1, <2>1, <2>2
  <2>7. j <= i + Len(ms[q].calls)
    <3>1. split \in Nat /\ q \in Int /\ n \in Nat /\ j \in Int
      BY <1>1, <2>1, <2>2
    <3>2. PICK l \in Nat : l = Len(ms[q].calls)
      BY <2>6
    <3>3. split + (j - 1) <= q + l
      BY <2>2, <3>2, Zenon
    <3> QED
      BY <3>1, <3>2, <3>3, ShiftedBound, Zenon
  <2>8. ms[p].calls = <<>>
    BY <1>1, <1>10, <2>1 DEF PairedUpTo
  <2> HIDE DEF i
  <2> QED
    BY <2>1, <2>4, <2>5, <2>7, <2>8
<1>11. PairedUpTo(t, n + 1)
  BY <1>9, <1>10 DEF PairedUpTo
<1> QED
  BY <1>4, <1>7, <1>8, <1>11 DEF Paired, t

-------------------------------------------------------------------------------
(* The open batch.                                                         *)

\* The members at all places are the sequence; those at no place, none.
LEMMA SelectedAll ==
  ASSUME NEW S, NEW s \in Seq(S)
  PROVE  Selected(s, 1 .. Len(s)) = s
<1> DEFINE n == Len(s)
           Place(j) == CHOOSE k \in 1 .. n : Cardinality({l \in 1 .. n : l <= k}) = j
<1>1. n \in Nat /\ Cardinality(1 .. n) = n
  BY FS_Interval, LenProperties
<1>2. ASSUME NEW k \in 1 .. n
      PROVE  Cardinality({l \in 1 .. n : l <= k}) = k
  <2> HIDE DEF n
  <2>1. {l \in 1 .. n : l <= k} = 1 .. k
    BY <1>1
  <2>2. Cardinality(1 .. k) = k
    BY <1>1, FS_Interval
  <2> QED
    BY <2>1, <2>2
<1>3. ASSUME NEW j \in 1 .. n
      PROVE  Place(j) = j
  <2> HIDE DEF n
  <2>1. Cardinality({l \in 1 .. n : l <= j}) = j
    BY <1>2
  <2>2. Cardinality({l \in 1 .. n : l <= Place(j)}) = j /\ Place(j) \in 1 .. n
    BY <2>1
  <2> HIDE DEF Place
  <2> QED
    BY <1>2, <2>2
<1>4. Selected(s, 1 .. n) = [j \in 1 .. Cardinality(1 .. n) |-> s[Place(j)]]
  BY DEF Selected
<1> HIDE DEF Place
<1>5. Selected(s, 1 .. n) = [j \in 1 .. n |-> s[j]]
  BY <1>1, <1>3, <1>4
<1> QED
  BY <1>5, LenProperties

LEMMA SelectedNone ==
  ASSUME NEW s
  PROVE  Selected(s, {}) = <<>>
<1>1. Cardinality({}) = 0
  BY FS_EmptySet
<1> QED
  BY <1>1 DEF Selected

\* A set of numbers up to a bound that is not empty has a greatest element.
LEMMA GreatestNumber ==
  ASSUME NEW n \in Nat, NEW S, S \subseteq 0 .. n, S # {}
  PROVE  \E k \in S : \A l \in S : l <= k
<1> DEFINE T == {n - k : k \in S}
<1>0. \A k \in S : n - k \in Nat
  <2> SUFFICES ASSUME NEW k \in 0 .. n
               PROVE  n - k \in Nat
    OBVIOUS
  <2> QED
    OBVIOUS
<1>1. T \subseteq Nat /\ T # {}
  BY <1>0
<1>2. PICK m \in T : \A l \in T : m <= l
  BY <1>1, LeastNumber
<1>3. PICK k \in S : m = n - k
  OBVIOUS
<1>4. \A l \in S : n - l \in T
  OBVIOUS
<1>5. \A l \in S : n - k <= n - l
  BY <1>2, <1>3, <1>4
<1> QED
  BY <1>3, <1>5

\* The open batch, if there is one, is the last message.
LEMMA OpenIsLast ==
  ASSUME NEW ms \in Seq(Message), HasBatch(ms)
  PROVE  OpenCalls(ms) = LastOf(ms).calls /\ OpenCalls(ms) # <<>>
<1> DEFINE n == Len(ms)
           u == {k \in DOMAIN ms[n].calls : \A j \in DOMAIN ms : j > n => ms[j].call # ms[n].calls[k]}
<1>1. /\ n \in Nat /\ n # 0 /\ DOMAIN ms = 1 .. n /\ ms[n].calls # <<>>
      /\ ms[n].calls \in Seq(CallIds) /\ DOMAIN ms[n].calls = 1 .. Len(ms[n].calls)
  BY MessageHas DEF HasBatch
<1> HIDE DEF n
<1>2. LastBatch(ms) = n
  <2> DEFINE P(i) == /\ i # 0 => ms[i].calls # <<>>
                     /\ \A j \in DOMAIN ms : j > i => ms[j].calls = <<>>
  <2>1. P(n) /\ n \in DOMAIN ms \cup {0}
    BY <1>1
  <2>2. \A i \in DOMAIN ms \cup {0} : P(i) => i = n
    BY <1>1
  <2>3. LastBatch(ms) = CHOOSE i \in DOMAIN ms \cup {0} : P(i)
    BY DEF LastBatch
  <2> HIDE DEF P
  <2> QED
    BY <2>1, <2>2, <2>3
<1>3. u = 1 .. Len(ms[n].calls)
  BY <1>1
<1>4. OpenCalls(ms) = Selected(ms[n].calls, u)
  BY <1>1, <1>2 DEF OpenCalls
<1>5. OpenCalls(ms) = ms[n].calls
  BY <1>1, <1>3, <1>4, SelectedAll, Zenon
<1> QED
  BY <1>1, <1>5 DEF LastOf, n

\* The place of an answer.
LEMMA PlaceOfAnswer ==
  \A n, l \in Nat : \A i \in 1 .. n, k \in 1 .. l :
    i + l <= n => i + k \in 1 .. n /\ i + k > i
  OBVIOUS

\* A paired context without an open batch has no open calls.
LEMMA NoBatchNoneOpen ==
  ASSUME NEW ms \in Seq(Message), Paired(ms), ~HasBatch(ms)
  PROVE  OpenCalls(ms) = <<>>
<1> DEFINE n == Len(ms)
           last == LastBatch(ms)
           u == {k \in DOMAIN ms[last].calls :
                   \A j \in DOMAIN ms : j > last => ms[j].call # ms[last].calls[k]}
           P(i) == /\ i # 0 => ms[i].calls # <<>>
                   /\ \A j \in DOMAIN ms : j > i => ms[j].calls = <<>>
<1>1. n \in Nat /\ DOMAIN ms = 1 .. n /\ PairedUpTo(ms, n)
  BY MessageHas DEF Paired
<1>2. \E i \in DOMAIN ms \cup {0} : P(i)
  <2> DEFINE S == {0} \cup {i \in 1 .. n : ms[i].calls # <<>>}
  <2>1. S \subseteq 0 .. n /\ S # {}
    BY <1>1
  <2>2. PICK i \in S : \A l \in S : l <= i
    <3> HIDE DEF S
    <3> QED
      BY <1>1, <2>1, GreatestNumber
  <2>3. i \in 0 .. n /\ (i # 0 => ms[i].calls # <<>>)
    BY <1>1
  <2>4. ASSUME NEW j \in DOMAIN ms, j > i
        PROVE  ms[j].calls = <<>>
    <3>1. j \notin S
      BY <1>1, <2>2, <2>3, <2>4
    <3> QED
      BY <1>1, <3>1
  <2>5. i \in DOMAIN ms \cup {0}
    BY <1>1, <2>3
  <2> QED
    BY <2>3, <2>4, <2>5
<1>3. last = CHOOSE i \in DOMAIN ms \cup {0} : P(i)
  BY DEF LastBatch
<1>4. last \in DOMAIN ms \cup {0} /\ P(last)
  <2> HIDE DEF P, last
  <2> QED
    BY <1>2, <1>3
<1>5. CASE last = 0
  BY <1>5 DEF OpenCalls
<1>6. CASE last # 0
  <2> HIDE DEF last, n
  <2>1. last \in 1 .. n
    BY <1>1, <1>4, <1>6
  <2>2. /\ last + Len(ms[last].calls) <= n /\ Answered(ms, last)
        /\ Len(ms[last].calls) \in Nat
        /\ DOMAIN ms[last].calls = 1 .. Len(ms[last].calls)
    BY <1>1, <2>1, MessageHas DEF PairedUpTo, n
  <2>3. ASSUME NEW k \in DOMAIN ms[last].calls
        PROVE  last + k \in DOMAIN ms /\ last + k > last
               /\ ms[last + k].call = ms[last].calls[k]
    <3>1. last + k \in 1 .. n /\ last + k > last
      BY <2>1, <2>2, PlaceOfAnswer, <1>1
    <3> QED
      BY <1>1, <2>2, <3>1 DEF Answered
  <2>4. u = {}
    BY <2>3
  <2>5. OpenCalls(ms) = Selected(ms[last].calls, u)
    BY <1>6 DEF OpenCalls, last
  <2> QED
    BY <2>4, <2>5, SelectedNone
<1> QED
  BY <1>5, <1>6

-------------------------------------------------------------------------------
(* What the events do to messages, actions and jobs.                       *)

\* Nothing about tool calls or jobs differs, and t is a state.
SameCalls(s, t) ==
  /\ t \in States
  /\ t.messages = s.messages /\ t.actions = s.actions
  /\ t.jobs = s.jobs /\ t.notifications = s.notifications
  /\ t.replayable = s.replayable

\* A state with the calls of a sane one is sane if an open batch still has its turn.
LEMMA SameCallsSane ==
  ASSUME NEW s, NEW t, Sane(s), SameCalls(s, t),
         HasBatch(s.messages) => t.currentTurn = s.currentTurn
  PROVE  Sane(t)
  BY DEF Sane, SameCalls

\* States, spelled out.
LEMMA StateHas ==
  ASSUME NEW s \in States
  PROVE  /\ s.clock \in Nat /\ s.queue \in [Requests -> Entry]
         /\ s.requests \in [Requests -> Statuses] /\ s.messages \in Seq(Message)
         /\ s.actions \in Seq(Action) /\ s.jobs \in Seq(JobStatuses)
         /\ s.notifications \in Seq(Nat) /\ s.currentTurn \in Nat
         /\ s.turnRequests \in SUBSET Requests /\ s.turns \in Nat
         /\ s.replayable \in BOOLEAN
         /\ Typed(s)
  BY DEF States, Typed, Fields

\* Events about requests and turns.
LEMMA RequestEvents ==
  ASSUME NEW s, Sane(s), NEW r \in Requests, NEW o \in Outcomes, NEW target \in Nat
  PROVE  /\ SameCalls(s, InputEnqueued(s, r, target)) /\ Sane(InputEnqueued(s, r, target))
         /\ SameCalls(s, InputFinished(s, r, o)) /\ Sane(InputFinished(s, r, o))
         /\ ~HasBatch(s.messages) =>
              /\ SameCalls(s, TurnStarted(s)) /\ Sane(TurnStarted(s))
              /\ SameCalls(s, TurnEnded(s, o)) /\ Sane(TurnEnded(s, o))
<1>1. s \in States
  BY DEF Sane
<1>2. [seq |-> s.clock + 1, target |-> target] \in Entry /\ NotThere \in Entry
      /\ "queued" \in Statuses /\ o \in Statuses /\ s.clock + 1 \in Nat
      /\ s.turns + 1 \in Nat
  BY <1>1 DEF States, Entry, NotThere, Statuses
<1>3. SameCalls(s, InputEnqueued(s, r, target)) /\ InputEnqueued(s, r, target).currentTurn = s.currentTurn
  <2>1. [s.queue EXCEPT ![r] = [seq |-> s.clock + 1, target |-> target]] \in [Requests -> Entry]
        /\ [s.requests EXCEPT ![r] = "queued"] \in [Requests -> Statuses]
    BY <1>1, <1>2 DEF States
  <2> QED
    BY <1>1, <1>2, <2>1 DEF SameCalls, InputEnqueued, States
<1>4. SameCalls(s, InputFinished(s, r, o)) /\ InputFinished(s, r, o).currentTurn = s.currentTurn
  <2>1. [s.queue EXCEPT ![r] = NotThere] \in [Requests -> Entry]
        /\ [s.requests EXCEPT ![r] = o] \in [Requests -> Statuses]
    BY <1>1, <1>2 DEF States
  <2> QED
    BY <1>1, <2>1 DEF SameCalls, InputFinished, States
<1>5. SameCalls(s, TurnStarted(s))
  BY <1>1, <1>2 DEF SameCalls, TurnStarted, States
<1>6. SameCalls(s, TurnEnded(s, o))
  <2>1. [q \in Requests |-> IF q \in s.turnRequests THEN o ELSE s.requests[q]]
          \in [Requests -> Statuses]
    BY <1>1, <1>2 DEF States
  <2> QED
    BY <1>1, <2>1 DEF SameCalls, TurnEnded, States
<1> QED
  BY <1>3, <1>4, <1>5, <1>6, SameCallsSane

\* The messages that runtime.py builds.
LEMMA UserMessageIs ==
  ASSUME NEW turn \in Nat
  PROVE  /\ UserMessage(turn) \in Message
         /\ UserMessage(turn).role = "user" /\ UserMessage(turn).calls = <<>>
<1>1. <<>> \in Seq(CallIds)
  OBVIOUS
<1> QED
  BY <1>1 DEF UserMessage, Message

LEMMA AssistantMessageIs ==
  ASSUME NEW turn \in Nat, NEW calls \in Seq(CallIds), NEW number \in Nat
  PROVE  LET m == AssistantMessage(turn, calls, number)
         IN  m \in Message /\ m.role = "assistant" /\ m.calls = calls
             /\ m.turn = turn /\ m.number = number
  BY DEF AssistantMessage, Message

LEMMA ToolMessageIs ==
  ASSUME NEW turn \in Nat, NEW call \in CallIds, NEW action \in Nat
  PROVE  LET m == ToolMessage(turn, call, action)
         IN  m \in Message /\ m.role = "tool" /\ m.calls = <<>> /\ m.call = call
             /\ m.turn = turn /\ m.number = action
<1>1. <<>> \in Seq(CallIds)
  OBVIOUS
<1> QED
  BY <1>1 DEF ToolMessage, Message

\* Events that put a message of the user at the end.
LEMMA UserEvents ==
  ASSUME NEW s, Sane(s), ~HasBatch(s.messages), NEW r \in Requests, NEW j \in Nat
  PROVE  /\ \A t \in {UserAccepted(s, r), NotificationAccepted(s, j)} :
              /\ Sane(t) /\ ~HasBatch(t.messages)
              /\ t.messages = Append(s.messages, UserMessage(s.currentTurn))
              /\ t.actions = s.actions /\ t.jobs = s.jobs
         /\ UserAccepted(s, r).notifications = s.notifications
         /\ NotificationAccepted(s, j).notifications = [s.notifications EXCEPT ![j] = 0]
<1> DEFINE m == UserMessage(s.currentTurn)
           n == [s.notifications EXCEPT ![j] = 0]
           a == UserAccepted(s, r)
           b == NotificationAccepted(s, j)
<1>1. s \in States /\ Paired(s.messages)
  BY DEF Sane
<1>2. s.messages \in Seq(Message) /\ m \in Message /\ m.role = "user" /\ m.calls = <<>>
  BY <1>1, StateHas, UserMessageIs
<1>3. Len(m.calls) = 0
  BY <1>2, EmptySeq
<1> DEFINE ms == Append(s.messages, m)
<1>4. Paired(ms) /\ ms \in Seq(Message) /\ ~HasBatch(ms)
  <2> HIDE DEF m
  <2> QED
    BY <1>1, <1>2, <1>3, PairedAppend
<1>5. n \in Seq(Nat) /\ Len(n) = Len(s.notifications)
  <2>1. s.notifications \in Seq(Nat) /\ 0 \in Nat
    BY <1>1, StateHas
  <2>2. n \in Seq(Nat)
    BY <2>1, ExceptIsSeq, Zenon
  <2> QED
    BY <2>1, <2>2, LenProperties
<1> HIDE DEF ms, n
<1>6. /\ a \in States /\ a.messages = ms /\ a.actions = s.actions /\ a.jobs = s.jobs
      /\ a.notifications = s.notifications /\ a.replayable = s.replayable
  <2>1. [s.queue EXCEPT ![r] = NotThere] \in [Requests -> Entry]
        /\ [s.requests EXCEPT ![r] = "accepted"] \in [Requests -> Statuses]
    BY <1>1 DEF States, Entry, NotThere, Statuses
  <2> QED
    BY <1>1, <1>4, <2>1 DEF UserAccepted, States, ms
<1>7. /\ b \in States /\ b.messages = ms /\ b.actions = s.actions /\ b.jobs = s.jobs
      /\ b.notifications = n /\ b.replayable = s.replayable
  BY <1>1, <1>4, <1>5 DEF NotificationAccepted, States, ms, n
<1> HIDE DEF a, b
<1>8. Sane(a) /\ Sane(b)
  BY <1>4, <1>5, <1>6, <1>7 DEF Sane
<1> QED
  BY <1>4, <1>6, <1>7, <1>8 DEF a, b, ms, n

\* A job ends.
LEMMA JobEvent ==
  ASSUME NEW s, Sane(s), NEW j \in Nat, NEW status \in JobStatuses
  PROVE  /\ Sane(JobCompleted(s, j, status))
         /\ JobCompleted(s, j, status).messages = s.messages
         /\ JobCompleted(s, j, status).actions = s.actions
         /\ JobCompleted(s, j, status).jobs = [s.jobs EXCEPT ![j] = status]
         /\ JobCompleted(s, j, status).notifications = [s.notifications EXCEPT ![j] = s.clock + 1]
<1> DEFINE n == [s.notifications EXCEPT ![j] = s.clock + 1]
           o == [s.jobs EXCEPT ![j] = status]
           t == JobCompleted(s, j, status)
<1>1. s \in States
  BY DEF Sane
<1>2. n \in Seq(Nat) /\ Len(n) = Len(s.notifications)
  <2>1. s.notifications \in Seq(Nat) /\ s.clock + 1 \in Nat
    BY <1>1, StateHas
  <2>2. n \in Seq(Nat)
    BY <2>1, ExceptIsSeq, Zenon
  <2> QED
    BY <2>1, <2>2, LenProperties
<1>3. o \in Seq(JobStatuses) /\ Len(o) = Len(s.jobs)
  <2>1. s.jobs \in Seq(JobStatuses)
    BY <1>1, StateHas
  <2>2. o \in Seq(JobStatuses)
    BY <2>1, ExceptIsSeq, Zenon
  <2> QED
    BY <2>1, <2>2, LenProperties
<1>4. t = [s EXCEPT !.clock = s.clock + 1, !.jobs = o, !.notifications = n]
      /\ s.clock + 1 \in Nat
  BY <1>1 DEF JobCompleted, States
<1> HIDE DEF n, o, t
<1>5. /\ t \in States /\ t.messages = s.messages /\ t.actions = s.actions
      /\ t.jobs = o /\ t.notifications = n /\ t.replayable = s.replayable
      /\ t.currentTurn = s.currentTurn
  BY <1>1, <1>2, <1>3, <1>4 DEF States
<1>6. Sane(t)
  BY <1>2, <1>3, <1>5 DEF Sane
<1> QED
  BY <1>5, <1>6 DEF n, o, t

\* The model's answer joins the context.
LEMMA AssistantEvent ==
  ASSUME NEW s, Sane(s), ~HasBatch(s.messages), s.currentTurn # 0,
         NEW calls \in Seq(CallIds),
         \A k, l \in DOMAIN calls : calls[k] = calls[l] => k = l,
         \A k \in DOMAIN calls : calls[k] \notin SeenCalls(s.messages)
  PROVE  LET t == AssistantCommitted(s, calls)
             m == AssistantMessage(s.currentTurn, calls, Len(s.actions))
         IN  /\ Sane(t) /\ t.messages = Append(s.messages, m) /\ m \in Message
             /\ m.calls = calls /\ m.number = Len(s.actions)
             /\ t.actions = s.actions /\ t.jobs = s.jobs
             /\ t.notifications = s.notifications /\ t.currentTurn = s.currentTurn
             /\ HasBatch(t.messages) <=> calls # <<>>
             /\ LastOf(t.messages) = m
<1> DEFINE t == AssistantCommitted(s, calls)
           m == AssistantMessage(s.currentTurn, calls, Len(s.actions))
           ms == Append(s.messages, m)
<1>1. s \in States /\ Paired(s.messages) /\ s.messages \in Seq(Message)
      /\ Len(s.actions) \in Nat /\ s.currentTurn \in Nat
  BY StateHas, LenProperties DEF Sane
<1>2. /\ m \in Message /\ m.role = "assistant" /\ m.calls = calls
      /\ m.turn = s.currentTurn /\ m.number = Len(s.actions)
  BY <1>1, AssistantMessageIs
<1>3. DOMAIN calls = 1 .. Len(calls)
  BY LenProperties
<1>4. ASSUME NEW i \in 1 .. Len(s.messages), NEW k \in 1 .. Len(s.messages[i].calls),
             NEW l \in 1 .. Len(calls)
      PROVE  s.messages[i].calls[k] # calls[l]
  <2>1. i \in DOMAIN s.messages /\ k \in DOMAIN s.messages[i].calls
    BY <1>1, MessageHas
  <2>2. s.messages[i].calls[k] \in SeenCalls(s.messages)
    BY <2>1 DEF SeenCalls
  <2> QED
    BY <1>3, <2>2
<1> HIDE DEF m
<1>5. /\ Paired(ms) /\ ms \in Seq(Message) /\ (HasBatch(ms) <=> calls # <<>>)
      /\ LastOf(ms) = m
  BY <1>1, <1>2, <1>3, <1>4, PairedAppend
<1> HIDE DEF ms
<1>6. t = [s EXCEPT !.messages = ms]
  BY DEF AssistantCommitted, ms, m
<1> HIDE DEF t
<1>7. /\ t \in States /\ t.messages = ms /\ t.actions = s.actions
      /\ t.jobs = s.jobs /\ t.notifications = s.notifications /\ t.replayable = s.replayable
      /\ t.currentTurn = s.currentTurn
  BY <1>1, <1>5, <1>6 DEF States
<1>8. Sane(t)
  BY <1>1, <1>2, <1>5, <1>7 DEF Sane
<1> QED
  BY <1>2, <1>5, <1>7, <1>8 DEF t, m, ms

\* What is not beyond the shorter sequence is not beyond the longer.
LEMMA NotBeyond == \A i, j, k \in Nat : i <= j /\ k >= j => i <= k
  OBVIOUS

\* A state whose actions are replaced.
Acting(s, as) == [s EXCEPT !.actions = as]

LEMMA ActionsReplaced ==
  ASSUME NEW s, Sane(s), NEW as \in Seq(Action), Len(as) >= Len(s.actions),
         Honest(as)
  PROVE  /\ Sane(Acting(s, as))
         /\ Acting(s, as).actions = as /\ Acting(s, as).messages = s.messages
         /\ Acting(s, as).jobs = s.jobs /\ Acting(s, as).notifications = s.notifications
         /\ Acting(s, as).currentTurn = s.currentTurn
<1> DEFINE t == Acting(s, as)
<1>1. s \in States
  BY DEF Sane
<1>2. /\ t \in States /\ t.actions = as /\ t.messages = s.messages
      /\ t.jobs = s.jobs /\ t.notifications = s.notifications
      /\ t.currentTurn = s.currentTurn /\ t.replayable = s.replayable
  BY <1>1 DEF States, Acting
<1> HIDE DEF t
<1>3. HasBatch(s.messages) => LastOf(s.messages).number <= Len(as)
  <2> SUFFICES ASSUME HasBatch(s.messages)
               PROVE  LastOf(s.messages).number <= Len(as)
    OBVIOUS
  <2>1. s.messages \in Seq(Message) /\ s.messages # <<>>
    BY <1>1, StateHas DEF HasBatch
  <2>2. LastOf(s.messages).number \in Nat
    <3>1. Len(s.messages) \in 1 .. Len(s.messages)
      BY <2>1, MessageHas
    <3> QED
      BY <2>1, <3>1, MessageHas DEF LastOf
  <2>3. Len(as) \in Nat /\ Len(s.actions) \in Nat
    BY <1>1, StateHas, LenProperties
  <2>4. LastOf(s.messages).number <= Len(s.actions)
    BY DEF Sane
  <2> QED
    BY <2>2, <2>3, <2>4, NotBeyond, Zenon
<1>4. Sane(t)
  BY <1>2, <1>3 DEF Sane
<1> QED
  BY <1>2, <1>4 DEF t

\* The sequence of actions gets one more.
LEMMA NewActionEvents ==
  ASSUME NEW s, Sane(s), NEW call \in CallIds
  PROVE  /\ LET t == ActionStarted(s, call)
            IN  /\ Sane(t) /\ t.messages = s.messages
                /\ t.actions = Append(s.actions, [call |-> call, started |-> TRUE,
                                                  result |-> "none"])
                /\ t.jobs = s.jobs /\ t.notifications = s.notifications
                /\ t.currentTurn = s.currentTurn
         /\ LET t == ActionCompleted(s, Len(s.actions) + 1, call, "skipped")
            IN  /\ Sane(t) /\ t.messages = s.messages
                /\ t.actions = Append(s.actions, [call |-> call, started |-> FALSE,
                                                  result |-> "skipped"])
                /\ t.jobs = s.jobs /\ t.notifications = s.notifications
                /\ t.currentTurn = s.currentTurn
<1> DEFINE x == [call |-> call, started |-> TRUE, result |-> "none"]
           y == [call |-> call, started |-> FALSE, result |-> "skipped"]
           u == ActionStarted(s, call)
           v == ActionCompleted(s, Len(s.actions) + 1, call, "skipped")
<1>1. s.actions \in Seq(Action) /\ Len(s.actions) \in Nat /\ DOMAIN s.actions = 1 .. Len(s.actions)
  BY StateHas, LenProperties DEF Sane
<1>2. x \in Action /\ y \in Action
  BY DEF Action, Results
<1>3. u = Acting(s, Append(s.actions, x))
  BY DEF ActionStarted, Acting
<1>4. v = Acting(s, Append(s.actions, y))
  <2>1. Len(s.actions) + 1 \notin DOMAIN s.actions
    BY <1>1
  <2> QED
    BY <2>1 DEF ActionCompleted, Acting
<1>5. ASSUME NEW z \in {x, y}
      PROVE  /\ Append(s.actions, z) \in Seq(Action)
             /\ Len(Append(s.actions, z)) >= Len(s.actions)
             /\ Honest(Append(s.actions, z))
  <2>1. /\ Append(s.actions, z) \in Seq(Action)
        /\ Len(Append(s.actions, z)) = Len(s.actions) + 1
        /\ \A a \in 1 .. Len(s.actions) : Append(s.actions, z)[a] = s.actions[a]
        /\ Append(s.actions, z)[Len(s.actions) + 1] = z
    <3>1. z \in Action
      BY <1>2
    <3> HIDE DEF x, y
    <3> QED
      BY <1>1, <3>1, AppendIs
  <2>2. z.started <=> z.result # "skipped"
    OBVIOUS
  <2>3. \A a \in 1 .. Len(s.actions) : s.actions[a].started <=> s.actions[a].result # "skipped"
    BY DEF Sane, Honest
  <2>4. \A a \in 1 .. (Len(s.actions) + 1) : a \in 1 .. Len(s.actions) \/ a = Len(s.actions) + 1
    BY <1>1
  <2> HIDE DEF x, y
  <2> QED
    BY <1>1, <2>1, <2>2, <2>3, <2>4 DEF Honest
<1> HIDE DEF u, v
<1>6. /\ Sane(u) /\ u.actions = Append(s.actions, x) /\ u.messages = s.messages
      /\ u.jobs = s.jobs /\ u.notifications = s.notifications
      /\ u.currentTurn = s.currentTurn
  <2> HIDE DEF x, y
  <2> QED
    BY <1>3, <1>5, ActionsReplaced, Zenon
<1>7. /\ Sane(v) /\ v.actions = Append(s.actions, y) /\ v.messages = s.messages
      /\ v.jobs = s.jobs /\ v.notifications = s.notifications
      /\ v.currentTurn = s.currentTurn
  <2> HIDE DEF x, y
  <2> QED
    BY <1>4, <1>5, ActionsReplaced, Zenon
<1> QED
  BY <1>6, <1>7 DEF u, v

\* The actions with a result for one of them.
Ended(actions, a, r) == [actions EXCEPT ![a] = [actions[a] EXCEPT !.result = r]]

\* An action that has no result yet gets one; with a job, that is queued.
LEMMA FinishedEvents ==
  ASSUME NEW s, Sane(s), NEW a \in 1 .. Len(s.actions), s.actions[a].result = "none",
         NEW call, NEW result \in {"returned", "unknown"}
  PROVE  LET t == ActionCompleted(s, a, call, result)
             u == JobAccepted(s, a, call)
         IN  /\ Sane(t) /\ t.messages = s.messages /\ t.actions = Ended(s.actions, a, result)
             /\ t.jobs = s.jobs /\ t.notifications = s.notifications
             /\ t.currentTurn = s.currentTurn
             /\ Sane(u) /\ u.messages = s.messages /\ u.actions = Ended(s.actions, a, "returned")
             /\ u.jobs = Append(s.jobs, "queued")
             /\ u.notifications = Append(s.notifications, 0)
             /\ u.currentTurn = s.currentTurn
<1> DEFINE x(r) == [s.actions[a] EXCEPT !.result = r]
           as(r) == [s.actions EXCEPT ![a] = x(r)]
<1>1. /\ s.actions \in Seq(Action) /\ Len(s.actions) \in Nat
      /\ DOMAIN s.actions = 1 .. Len(s.actions) /\ s.actions[a] \in Action
      /\ s \in States /\ Honest(s.actions)
  BY StateHas, LenProperties, ElementOfSeq DEF Sane
<1>2. s.actions[a].started
  BY <1>1 DEF Honest
<1>3. ASSUME NEW r \in {"returned", "unknown"}
      PROVE  /\ as(r) \in Seq(Action) /\ Len(as(r)) = Len(s.actions) /\ Honest(as(r))
             /\ Acting(s, as(r)) = [s EXCEPT !.actions[a].result = r]
  <2>1. x(r) \in Action /\ x(r).started = s.actions[a].started /\ x(r).result = r
    BY <1>1 DEF Action, Results
  <2> HIDE DEF x
  <2>2. as(r) \in Seq(Action)
    BY <1>1, <2>1, ExceptIsSeq, Zenon
  <2>3. DOMAIN as(r) = 1 .. Len(s.actions)
    BY <1>1
  <2>4. Len(as(r)) = Len(s.actions)
    BY <1>1, <2>2, <2>3, LenProperties
  <2>5. \A b \in 1 .. Len(s.actions) : as(r)[b] = IF b = a THEN x(r) ELSE s.actions[b]
    BY <1>1
  <2>6. Honest(as(r))
    <3> HIDE DEF as
    <3>1. r # "skipped"
      OBVIOUS
    <3>2. x(r).started <=> x(r).result # "skipped"
      BY <1>2, <2>1, <3>1, Zenon
    <3>3. ASSUME NEW b \in 1 .. Len(s.actions)
          PROVE  as(r)[b].started <=> as(r)[b].result # "skipped"
      BY <1>1, <2>5, <3>2 DEF Honest
    <3> QED
      BY <2>4, <3>3 DEF Honest
  <2>7. Acting(s, as(r)) = [s EXCEPT !.actions[a].result = r]
    BY DEF Acting, x
  <2> QED
    BY <2>2, <2>4, <2>6, <2>7
<1>4. ASSUME NEW r \in {"returned", "unknown"}
      PROVE  LET t == ActionCompleted(s, a, call, r)
             IN  /\ t = Acting(s, as(r))
                 /\ Sane(t) /\ t.messages = s.messages /\ t.actions = as(r)
                 /\ t.jobs = s.jobs /\ t.notifications = s.notifications
                 /\ t.currentTurn = s.currentTurn
  <2>1. ActionCompleted(s, a, call, r) = Acting(s, as(r))
    BY <1>1, <1>3 DEF ActionCompleted
  <2> HIDE DEF x, as
  <2>2. as(r) \in Seq(Action) /\ Honest(as(r)) /\ Len(as(r)) = Len(s.actions)
    BY <1>3
  <2>3. Len(as(r)) >= Len(s.actions)
    BY <1>1, <2>2
  <2>4. /\ Sane(Acting(s, as(r))) /\ Acting(s, as(r)).actions = as(r)
        /\ Acting(s, as(r)).messages = s.messages
        /\ Acting(s, as(r)).jobs = s.jobs /\ Acting(s, as(r)).notifications = s.notifications
        /\ Acting(s, as(r)).currentTurn = s.currentTurn
    BY <2>2, <2>3, ActionsReplaced
  <2> QED
    BY <2>1, <2>4, Zenon
<1> DEFINE t == ActionCompleted(s, a, call, "returned")
           u == JobAccepted(s, a, call)
           o == Append(s.jobs, "queued")
           n == Append(s.notifications, 0)
<1>5. u = [t EXCEPT !.jobs = o, !.notifications = n]
  BY <1>4 DEF JobAccepted
<1>6. /\ Sane(t) /\ t.messages = s.messages /\ t.actions = as("returned")
      /\ t.jobs = s.jobs /\ t.notifications = s.notifications
      /\ t.currentTurn = s.currentTurn
  BY <1>4
<1>7. o \in Seq(JobStatuses) /\ n \in Seq(Nat) /\ Len(o) = Len(n)
  <2>1. s.jobs \in Seq(JobStatuses) /\ s.notifications \in Seq(Nat)
        /\ Len(s.notifications) = Len(s.jobs)
    BY StateHas DEF Sane
  <2>2. "queued" \in JobStatuses /\ 0 \in Nat
    BY DEF JobStatuses
  <2>3. o \in Seq(JobStatuses) /\ Len(o) = Len(s.jobs) + 1
    BY <2>1, <2>2, AppendIs
  <2>4. n \in Seq(Nat) /\ Len(n) = Len(s.notifications) + 1
    BY <2>1, <2>2, AppendIs
  <2> QED
    BY <2>1, <2>3, <2>4
<1> HIDE DEF as, x, t, u, o, n
<1>8. /\ u \in States /\ u.messages = t.messages /\ u.actions = t.actions
      /\ u.jobs = o /\ u.notifications = n /\ u.currentTurn = t.currentTurn
      /\ u.replayable = t.replayable
  <2>1. t \in States
    BY <1>6 DEF Sane
  <2> QED
    BY <1>5, <1>7, <2>1 DEF States
<1>9. Sane(u)
  BY <1>6, <1>7, <1>8 DEF Sane
<1>10. \A r : as(r) = Ended(s.actions, a, r)
  BY DEF as, x, Ended
<1> QED
  BY <1>4, <1>6, <1>8, <1>9, <1>10 DEF u, o, n

\* The open batch gets its results.
LEMMA ToolsEvent ==
  ASSUME NEW s, Sane(s), HasBatch(s.messages),
         NEW actions \in [DOMAIN LastOf(s.messages).calls -> Nat]
  PROVE  LET calls == LastOf(s.messages).calls
             t == ToolsCommitted(s, calls, actions)
             answers == [k \in DOMAIN calls |-> ToolMessage(s.currentTurn, calls[k], actions[k])]
         IN  /\ Sane(t) /\ ~HasBatch(t.messages) /\ t.messages = s.messages \o answers
             /\ answers \in Seq(Message) /\ Len(answers) = Len(calls)
             /\ t.actions = s.actions /\ t.jobs = s.jobs
             /\ t.notifications = s.notifications /\ t.currentTurn = s.currentTurn
<1> DEFINE calls == LastOf(s.messages).calls
           t == ToolsCommitted(s, calls, actions)
           answers == [k \in DOMAIN calls |-> ToolMessage(s.currentTurn, calls[k], actions[k])]
           ms == s.messages \o answers
<1>1. s \in States /\ Paired(s.messages) /\ s.messages \in Seq(Message)
      /\ s.currentTurn \in Nat /\ LastOf(s.messages).turn = s.currentTurn
  BY StateHas DEF Sane
<1>2. /\ calls \in Seq(CallIds) /\ Len(calls) \in Nat /\ DOMAIN calls = 1 .. Len(calls)
      /\ \A k \in 1 .. Len(calls) : calls[k] \in CallIds
  <2>1. Len(s.messages) \in 1 .. Len(s.messages)
    BY <1>1, MessageHas DEF HasBatch
  <2>2. calls \in Seq(CallIds)
    BY <1>1, <2>1, MessageHas DEF LastOf
  <2> HIDE DEF calls
  <2> QED
    BY <2>2, LenProperties, ElementOfSeq
<1>3. \A k \in 1 .. Len(calls) :
        /\ answers[k] \in Message /\ answers[k].role = "tool" /\ answers[k].calls = <<>>
        /\ answers[k].call = calls[k] /\ answers[k].turn = s.currentTurn
  <2> SUFFICES ASSUME NEW k \in 1 .. Len(calls)
               PROVE  /\ answers[k] \in Message /\ answers[k].role = "tool"
                      /\ answers[k].calls = <<>>
                      /\ answers[k].call = calls[k] /\ answers[k].turn = s.currentTurn
    OBVIOUS
  <2>1. calls[k] \in CallIds /\ actions[k] \in Nat /\ k \in DOMAIN calls
    BY <1>2
  <2>2. answers[k] = ToolMessage(s.currentTurn, calls[k], actions[k])
    BY <2>1
  <2> QED
    BY <1>1, <2>1, <2>2, ToolMessageIs
<1>4. answers \in Seq(Message) /\ Len(answers) = Len(calls)
  <2>1. answers = [k \in 1 .. Len(calls) |-> ToolMessage(s.currentTurn, calls[k], actions[k])]
    BY <1>2
  <2>2. \A k \in 1 .. Len(calls) : ToolMessage(s.currentTurn, calls[k], actions[k]) \in Message
    BY <1>1, <1>2, ToolMessageIs
  <2> HIDE DEF calls, answers
  <2> QED
    BY <1>2, <2>1, <2>2, IsASeq
<1> HIDE DEF answers
<1>5. Paired(ms) /\ ms \in Seq(Message) /\ ~HasBatch(ms)
  BY <1>1, <1>3, <1>4, PairedAnswered
<1> HIDE DEF ms
<1>6. t = [s EXCEPT !.messages = ms]
  BY DEF ToolsCommitted, ms, answers
<1> HIDE DEF t, calls
<1>7. /\ t \in States /\ t.messages = ms /\ t.actions = s.actions
      /\ t.jobs = s.jobs /\ t.notifications = s.notifications /\ t.replayable = s.replayable
      /\ t.currentTurn = s.currentTurn
  BY <1>1, <1>5, <1>6 DEF States
<1>8. Sane(t)
  BY <1>5, <1>7 DEF Sane
<1> QED
  BY <1>4, <1>5, <1>7, <1>8 DEF t, calls, ms, answers

\* A batch before the cut that reaches beyond it has an answer right behind the cut.
LEMMA CutPlace ==
  \A split, l \in Nat : \A i \in 1 .. split :
    ~ (i + l <= split) => \E k \in 1 .. l : i + k = split + 1
<1> SUFFICES ASSUME NEW split \in Nat, NEW l \in Nat, NEW i \in 1 .. split, i + l > split
             PROVE  \E k \in 1 .. l : i + k = split + 1
  OBVIOUS
<1>1. split + 1 - i \in 1 .. l /\ i + (split + 1 - i) = split + 1
  OBVIOUS
<1> QED
  BY <1>1

\* A compaction keeps a suffix that cuts no batch from its results.
LEMMA CompactEvent ==
  ASSUME Sane(state), ~HasBatch(state.messages), NEW split \in Splits
  PROVE  LET t == CompactCommitted(state, split)
         IN  /\ Sane(t) /\ ~HasBatch(t.messages) /\ split \in 0 .. Len(state.messages)
             /\ split = 0 => state.messages = <<>>
             /\ t.messages = <<UserMessage(0)>>
                               \o SubSeq(state.messages, split + 1, Len(state.messages))
             /\ t.actions = state.actions /\ t.jobs = state.jobs
             /\ t.notifications = state.notifications /\ t.currentTurn = state.currentTurn
<1> DEFINE ms == state.messages
           m == UserMessage(0)
           u == <<m>> \o SubSeq(ms, split + 1, Len(ms))
           t == CompactCommitted(state, split)
<1>1. /\ state \in States /\ Paired(ms) /\ ms \in Seq(Message) /\ Len(ms) \in Nat
      /\ DOMAIN ms = 1 .. Len(ms) /\ PairedUpTo(ms, Len(ms))
      /\ Len(ms) = 0 => ms = <<>>
      /\ \A i \in 1 .. Len(ms) : Len(ms[i].calls) \in Nat
  BY StateHas, MessageHas DEF Sane, Paired
<1>2. split \in 0 .. Len(ms) /\ (split = 0 => ms = <<>>)
  BY <1>1 DEF Splits
<1>3. ASSUME NEW i \in 1 .. split
      PROVE  i + Len(ms[i].calls) <= split
  <2>1. /\ i \in 1 .. Len(ms) /\ i + Len(ms[i].calls) <= Len(ms) /\ Answered(ms, i)
        /\ Len(ms[i].calls) \in Nat
    BY <1>1, <1>2 DEF PairedUpTo
  <2>2. CASE split = Len(ms)
    BY <2>1, <2>2
  <2>3. CASE split # Len(ms)
    <3>1. /\ ms[split + 1].turn \in Kept
          /\ \A j \in 1 .. split : ms[j].turn \notin Kept
      BY <2>3 DEF Splits
    <3> SUFFICES ASSUME ~ (i + Len(ms[i].calls) <= split)
                 PROVE  FALSE
      OBVIOUS
    <3>2. PICK k \in 1 .. Len(ms[i].calls) : i + k = split + 1
      BY <1>1, <1>2, <2>1, CutPlace
    <3>3. ms[split + 1].turn = ms[i].turn
      BY <2>1, <3>2 DEF Answered
    <3> QED
      BY <3>1, <3>3
  <2> QED
    BY <2>2, <2>3
<1>4. m \in Message /\ m.role = "user" /\ m.calls = <<>>
  BY UserMessageIs
<1> HIDE DEF m
<1>5. Paired(u) /\ u \in Seq(Message) /\ ~HasBatch(u)
  <2>1. CASE split = 0
    <3> DEFINE none == SubSeq(ms, split + 1, Len(ms))
    <3>1. none = <<>>
      BY <1>2, <2>1
    <3>2. <<m>> \o <<>> = Append(<<>>, m)
      BY SMT
    <3>3. u = Append(<<>>, m)
      BY <3>1, <3>2
    <3>4. Len(m.calls) = 0 /\ m.role # "tool" /\ (m.calls # <<>> => m.role = "assistant")
      BY <1>4, EmptySeq
    <3>5. <<>> \in Seq(Message) /\ Len(<<>>) = 0
      BY SMT
    <3>6. /\ \A k, l \in 1 .. Len(m.calls) : m.calls[k] = m.calls[l] => k = l
          /\ \A i \in 1 .. Len(<<>>) : FALSE
      BY <3>4, <3>5
    <3>7. Paired(Append(<<>>, m)) /\ Append(<<>>, m) \in Seq(Message) /\ ~HasBatch(Append(<<>>, m))
      BY <1>4, <3>4, <3>5, <3>6, EmptyIsPaired, PairedAppend, Zenon
    <3> HIDE DEF u
    <3> QED
      BY <3>3, <3>7, Zenon
  <2>2. CASE split # 0
    <3>1. split \in 1 .. Len(ms) /\ Len(ms) # 0
      BY <1>1, <1>2, <2>2
    <3> HIDE DEF ms
    <3> QED
      BY <1>1, <1>3, <1>4, <3>1, PairedSuffix DEF ms
  <2> QED
    BY <2>1, <2>2
<1> HIDE DEF u
<1>6. t = [state EXCEPT !.messages = u]
  BY DEF CompactCommitted, u, m
<1> HIDE DEF t, ms
<1>7. /\ t \in States /\ t.messages = u /\ t.actions = state.actions
      /\ t.jobs = state.jobs /\ t.notifications = state.notifications
      /\ t.replayable = state.replayable /\ t.currentTurn = state.currentTurn
  BY <1>1, <1>5, <1>6 DEF States
<1>8. Sane(t)
  BY <1>5, <1>7 DEF Sane
<1> QED
  BY <1>2, <1>5, <1>7, <1>8 DEF t, u, ms, m

-------------------------------------------------------------------------------
(* Steps in general.                                                       *)

\* The worker fits the state that it is in.
Fitting(s, v) ==
  /\ Shaped(v) /\ Placed(s, v)
  /\ v.pc = "none" => ~HasBatch(s.messages)

\* What the other variables may hold after a step.
OthersTyped ==
  /\ cancel' \in BOOLEAN /\ tasks' \in SUBSET Nat /\ cancels' \in Nat /\ lateStarts' \in Nat

LEMMA OthersKeepType ==
  ASSUME TypeOK, UNCHANGED Others
  PROVE  OthersTyped
  BY DEF TypeOK, Others, OthersTyped

LEMMA TicketsTyped ==
  ASSUME TypeOK, NEW rs, NEW outcome \in Outcomes
  PROVE  /\ Resolve(rs, outcome) \in [Requests -> TicketStates]
         /\ Broken \in [Requests -> TicketStates] /\ tickets \in [Requests -> TicketStates]
  BY DEF TypeOK, Resolve, Broken, TicketStates

\* No worker, and start() as one, fit where there is no open batch.
LEMMA IdleFits ==
  ASSUME NEW s
  PROVE  /\ Shaped(NoWorker) /\ Placed(s, NoWorker)
         /\ NoWorker.pc = "none" /\ Recoverer.pc = "closeBatch"
  BY DEF NoWorker, Recoverer, Shaped, Placed, CompactPCs, BatchPCs, InTurn, TurnPCs

\* A record.
LEMMA RecordOnlyStep ==
  ASSUME CallsInv, ~poisoned, life # "down",
         NEW next, NEW v \in Workers, NEW told \in [Requests -> TicketStates],
         RecordOnly(next, v, told), OthersTyped, Sane(next),
         life = "recovering" => v = Recoverer,
         life \in {"open", "closing"} => Fitting(next, v)
  PROVE  CallsInv' /\ state' \in {state, next}
<1>1. TypeOK /\ Sane(state) /\ Lifecycle
  BY DEF CallsInv
<1>2. life \in {"recovering", "open", "closing"} /\ faults \in Nat
  BY <1>1 DEF TypeOK
<1>3. next \in States /\ state \in States
  BY <1>1 DEF Sane
<1>4. CASE /\ state' = next /\ w' = v /\ tickets' = told
           /\ UNCHANGED <<life, poisoned, faults>>
  <2>1. TypeOK'
    BY <1>1, <1>2, <1>3, <1>4 DEF TypeOK, OthersTyped
  <2>2. Sane(state')
    BY <1>4
  <2>3. Lifecycle'
    BY <1>2, <1>4 DEF Lifecycle, Fitting, Up
  <2> QED
    BY <1>4, <2>1, <2>2, <2>3 DEF CallsInv
<1>5. CASE RecordFails(next)
  <2>1. /\ state' \in {state, next} /\ w' = NoWorker /\ tickets' = Broken /\ faults' = faults + 1
        /\ life' \in {"down", "open", "closing"} /\ poisoned' \in BOOLEAN
        /\ life' = "down" => ~poisoned'
        /\ ~Up'
    BY <1>1, <1>2, <1>5 DEF RecordFails, TypeOK, Up
  <2>2. TypeOK'
    <3>1. Broken \in [Requests -> TicketStates]
      BY <1>1, BrokenAnswersNone DEF TypeOK
    <3>2. state' \in States /\ w' \in Workers /\ faults' \in Nat
      BY <1>2, <1>3, <2>1, NoWorkerIsWorker
    <3> QED
      BY <2>1, <3>1, <3>2 DEF TypeOK, OthersTyped
  <2>3. Sane(state')
    BY <1>1, <2>1
  <2>4. Lifecycle'
    BY <2>1, IdleFits DEF Lifecycle
  <2> QED
    BY <2>1, <2>2, <2>3, <2>4 DEF CallsInv
<1> QED
  BY <1>4, <1>5 DEF RecordOnly

\* A record that leaves the flags and the job tasks alone.
LEMMA RecordStep ==
  ASSUME CallsInv, ~poisoned, life # "down",
         NEW next, NEW v \in Workers, NEW told \in [Requests -> TicketStates],
         RecordAndTell(next, v, told), Sane(next),
         life = "recovering" => v = Recoverer,
         life \in {"open", "closing"} => Fitting(next, v)
  PROVE  CallsInv' /\ state' \in {state, next}
<1>1. RecordOnly(next, v, told) /\ OthersTyped
  BY OthersKeepType DEF RecordAndTell, CallsInv
<1> QED
  BY <1>1, RecordOnlyStep

\* A step that records nothing.
LEMMA PlainCallsStep ==
  ASSUME CallsInv, life \in {"open", "closing"}, NEW v \in Workers, Fitting(state, v), Step(v)
  PROVE  CallsInv' /\ state' = state
<1>1. TypeOK'
  BY DEF Step, Others, CallsInv, TypeOK
<1>2. Lifecycle'
  BY DEF Step, Lifecycle, Fitting, Up
<1> QED
  BY <1>1, <1>2 DEF Step, CallsInv

\* Where a worker is that takes a step other than closing a batch.
LEMMA Working ==
  ASSUME CallsInv, ~poisoned, w.pc \notin {"none", "closeBatch"}
  PROVE  /\ life \in {"open", "closing"} /\ life # "down" /\ life # "recovering"
         /\ Shaped(w) /\ Placed(state, w)
         /\ w \in Workers /\ Sane(state) /\ TypeOK /\ state \in States
  BY IdleFits DEF CallsInv, TypeOK, Lifecycle, Sane

\* A worker outside a batch fits wherever there is no open batch.
LEMMA OutsideFits ==
  ASSUME NEW s, NEW v, Shaped(v), ~HasBatch(s.messages), v.pc \notin BatchPCs,
         InTurn(v) => s.currentTurn # 0
  PROVE  Fitting(s, v)
  BY DEF Fitting, Placed

\* An exception leaves the step.
LEMMA ThrowCallsStep ==
  ASSUME CallsInv, ~poisoned, InTurn(w), w.pc # "closeBatch", NEW outcome \in Outcomes
  PROVE  /\ Throw(outcome) => CallsInv' /\ state' = state
         /\ Thrown(outcome) \in Workers /\ Fitting(state, Thrown(outcome))
         /\ life \in {"open", "closing"}
<1> DEFINE v == Thrown(outcome)
<1>1. w.pc # "none" /\ w.pc \notin {"ready", "drain", "postTurn"}
  BY DEF InTurn, TurnPCs, CompactPCs
<1>2. /\ life \in {"open", "closing"} /\ Shaped(w) /\ Placed(state, w) /\ w \in Workers
  BY <1>1, Working
<1>3. v \in Workers /\ v.pc = "unwind" /\ v.entry = w.entry
  BY <1>2 DEF Thrown, Workers, PCs, Awaits
<1> HIDE DEF v
<1>4. Shaped(v)
  BY <1>1, <1>2, <1>3 DEF Shaped, CompactPCs
<1>5. Placed(state, v)
  BY <1>2, <1>3 DEF Placed, BatchPCs
<1>6. Fitting(state, v)
  BY <1>3, <1>4, <1>5 DEF Fitting
<1>7. Throw(outcome) => Step(v)
  BY DEF Throw, v
<1> QED
  BY <1>2, <1>3, <1>6, <1>7, PlainCallsStep DEF v

-------------------------------------------------------------------------------
(* What a step may do to the messages and the actions.                     *)

\* The action that the k-th call of the open batch has, if it has one.
Place(k) == LastOf(state.messages).number + k
BatchCalls == LastOf(state.messages).calls
ActionsInBatch == Len(state.actions) - LastOf(state.messages).number

Untouched == state'.messages = state.messages /\ state'.actions = state.actions

UserJoins ==
  /\ ~HasBatch(state.messages) /\ state'.actions = state.actions
  /\ state'.messages = Append(state.messages, UserMessage(state.currentTurn))

ModelAnswers ==
  /\ ~HasBatch(state.messages) /\ state'.actions = state.actions
  /\ \E calls \in Seq(CallIds) :
       /\ \A k \in DOMAIN calls : calls[k] \notin SeenCalls(state.messages)
       /\ state'.messages = Append(state.messages,
            AssistantMessage(state.currentTurn, calls, Len(state.actions)))

\* A new action for the next call, of which the tool or nobody gives the result.
ActionJoins ==
  /\ HasBatch(state.messages) /\ state'.messages = state.messages
  /\ \A k \in 1 .. ActionsInBatch : state.actions[Place(k)].result # "none"
  /\ ActionsInBatch < Len(BatchCalls)
  /\ \E x \in Action :
       /\ x.call = BatchCalls[ActionsInBatch + 1]
       /\ state'.actions = Append(state.actions, x)

ActionEnds ==
  /\ HasBatch(state.messages) /\ state'.messages = state.messages
  /\ Len(state.actions) # 0
  /\ \E r \in Results \ {"none"} :
       state'.actions = Ended(state.actions, Len(state.actions), r)

CallCloses ==
  /\ HasBatch(state.messages) /\ state'.messages = state.messages
  /\ Unsettled # {}
  /\ LET call == Open[CHOOSE k \in Unsettled : \A l \in Unsettled : k <= l]
     IN  IF ActionOf(call) = 0
           THEN state'.actions = Append(state.actions, [call |-> call, started |-> FALSE,
                                                        result |-> "skipped"])
           ELSE state'.actions = Ended(state.actions, ActionOf(call), "unknown")

\* The results join, in order, or as the log has them.
ResultsJoin ==
  /\ HasBatch(state.messages) /\ state'.actions = state.actions
  /\ \E shown \in [DOMAIN BatchCalls -> Nat] :
       /\ \/ /\ \A k \in DOMAIN BatchCalls : shown[k] = Place(k)
             /\ ActionsInBatch = Len(BatchCalls)
             /\ \A k \in 1 .. ActionsInBatch : state.actions[Place(k)].result # "none"
          \/ /\ \A k \in DOMAIN BatchCalls : shown[k] = ActionOf(BatchCalls[k])
             /\ \A k \in DOMAIN BatchCalls : Settled(BatchCalls[k])
       /\ state'.messages = state.messages \o
            [k \in DOMAIN BatchCalls |-> ToolMessage(state.currentTurn, BatchCalls[k], shown[k])]

Compacts ==
  /\ w.pc = "summary"
  /\ ~HasBatch(state.messages) /\ state'.actions = state.actions
  /\ \E split \in 0 .. Len(state.messages) :
       /\ split = 0 => state.messages = <<>>
       /\ state'.messages = <<UserMessage(0)>>
                              \o SubSeq(state.messages, split + 1, Len(state.messages))

CallsChange ==
  \/ Untouched \/ UserJoins \/ ModelAnswers \/ ActionJoins \/ ActionEnds
  \/ CallCloses \/ ResultsJoin \/ Compacts

\* A step does what it should to the calls.
Sound == CallsInv' /\ CallsChange

\* Steps that change neither messages nor actions are sound.
LEMMA UntouchedSound ==
  ASSUME NEW next, next.messages = state.messages, next.actions = state.actions,
         CallsInv', state' \in {state, next}
  PROVE  Sound
  BY DEF Sound, CallsChange, Untouched

\* Outside a batch.
LEMMA QuietMove ==
  ASSUME CallsInv, ~poisoned, w.pc \notin BatchPCs \cup {"none", "closeBatch", "unwind"},
         NEW v \in Workers, Shaped(v), v.pc \notin BatchPCs,
         InTurn(v) => state.currentTurn # 0, Step(v)
  PROVE  Sound
<1>1. life \in {"open", "closing"} /\ ~HasBatch(state.messages)
  BY Working DEF Placed
<1>2. Fitting(state, v)
  BY <1>1, OutsideFits
<1> QED
  BY <1>1, <1>2, PlainCallsStep, UntouchedSound

LEMMA QuietTelling ==
  ASSUME CallsInv, ~poisoned, w.pc \notin BatchPCs \cup {"none", "closeBatch", "unwind"},
         NEW next, SameCalls(state, next), Sane(next),
         NEW v \in Workers, Shaped(v), v.pc \notin BatchPCs,
         InTurn(v) => next.currentTurn # 0,
         NEW told \in [Requests -> TicketStates], RecordAndTell(next, v, told)
  PROVE  Sound
<1>1. life \in {"open", "closing"} /\ ~HasBatch(state.messages) /\ life # "down"
      /\ life # "recovering"
  BY Working DEF Placed
<1>2. Fitting(next, v)
  BY <1>1, OutsideFits DEF SameCalls
<1> QED
  BY <1>1, <1>2, RecordStep, UntouchedSound DEF SameCalls

\* An event that state.apply ignores.
LEMMA QuietLog ==
  ASSUME CallsInv, ~poisoned, w.pc \notin BatchPCs \cup {"none", "closeBatch", "unwind"},
         NEW v \in Workers, Shaped(v), v.pc \notin BatchPCs,
         InTurn(v) => state.currentTurn # 0, Log(v)
  PROVE  Sound
<1>1. SameCalls(state, state) /\ Sane(state)
  BY DEF CallsInv, Sane, SameCalls
<1>2. RecordAndTell(state, v, tickets) /\ tickets \in [Requests -> TicketStates]
  BY DEF Log, Record, CallsInv, TypeOK
<1> QED
  BY <1>1, <1>2, QuietTelling

LEMMA ThrowSound ==
  ASSUME CallsInv, ~poisoned, InTurn(w), w.pc # "closeBatch", NEW outcome \in Outcomes,
         Throw(outcome)
  PROVE  Sound
  BY ThrowCallsStep, UntouchedSound

\* The worker dies outside a batch, or because the runtime is poisoned.
LEMMA DieSound ==
  ASSUME CallsInv, Die, poisoned \/ ~HasBatch(state.messages), life # "recovering"
  PROVE  Sound
<1>1. TypeOK'
  BY BrokenAnswersNone, NoWorkerIsWorker DEF CallsInv, TypeOK, Die, Others
<1>2. Lifecycle'
  BY IdleFits DEF CallsInv, Die, Others, Lifecycle, Up
<1>3. state' = state /\ Sane(state')
  BY DEF Die, CallsInv
<1> QED
  BY <1>1, <1>2, <1>3, UntouchedSound DEF CallsInv

-------------------------------------------------------------------------------
(* _drain, _accept, _safe_boundary.                                        *)

LEMMA DrainCalls ==
  ASSUME CallsInv, Drained \/ DrainCompact \/ StartTurn
  PROVE  Sound
<1>1. ~poisoned /\ w.pc \in {"ready", "drain"}
  BY DEF Drained, DrainCompact, StartTurn, Draining
<1>2. /\ life \in {"open", "closing"} /\ life # "down" /\ life # "recovering"
      /\ ~HasBatch(state.messages) /\ Sane(state) /\ TypeOK /\ Typed(state)
  BY <1>1, Working, StateHas DEF Placed, BatchPCs
<1>3. CASE Drained
  <2>1. NoWorker \in Workers /\ Shaped(NoWorker) /\ NoWorker.pc \notin BatchPCs /\ ~InTurn(NoWorker)
    BY NoWorkerIsWorker, IdleFits DEF BatchPCs, InTurn, TurnPCs, CompactPCs, NoWorker
  <2>2. Step(NoWorker)
    BY <1>3 DEF Drained
  <2> QED
    BY <1>1, <2>1, <2>2, QuietMove DEF BatchPCs
<1>4. CASE DrainCompact
  <2> DEFINE v == [NoWorker EXCEPT !.pc = "compact", !.entry = QueueHead]
  <2>1. QueueHead \in Requests
    BY <1>2, <1>4, HeadIsIn DEF DrainCompact, Queue
  <2>2. v \in Workers /\ v.pc = "compact" /\ v.site = "top" /\ v.entry \in Requests
    BY <2>1, NoWorkerIsWorker DEF NoWorker, Workers, PCs
  <2>3. Step(v)
    BY <1>4 DEF DrainCompact
  <2> HIDE DEF v
  <2>4. Shaped(v) /\ v.pc \notin BatchPCs /\ ~InTurn(v)
    BY <2>2 DEF Shaped, BatchPCs, InTurn, TurnPCs, CompactPCs
  <2> QED
    BY <1>1, <2>2, <2>3, <2>4, QuietMove DEF BatchPCs
<1>5. CASE StartTurn
  <2> DEFINE v == [NoWorker EXCEPT !.pc = "preTurn", !.site = "turn", !.entry = QueueHead]
             next == TurnStarted(state)
  <2>1. QueueHead \in Requests
    BY <1>2, <1>5, HeadIsIn DEF StartTurn, Queue
  <2>2. v \in Workers /\ v.pc = "preTurn" /\ v.site = "turn" /\ v.entry \in Requests
    BY <2>1, NoWorkerIsWorker DEF NoWorker, Workers, PCs, Awaits, Sites
  <2>3. RecordOnly(next, v, tickets) /\ OthersTyped
    BY <1>2, <1>5 DEF StartTurn, OthersTyped, TypeOK
  <2>4. SameCalls(state, next) /\ Sane(next) /\ next.currentTurn # 0
    <3>1. \E r \in Requests, o \in Outcomes, t \in Nat : TRUE
      BY <2>1 DEF Outcomes
    <3>2. SameCalls(state, next) /\ Sane(next)
      BY <1>2, <3>1, RequestEvents
    <3>3. next.currentTurn # 0
      BY <1>2 DEF TurnStarted, Typed, Fields
    <3> QED
      BY <3>2, <3>3
  <2> HIDE DEF v, next
  <2>5. Shaped(v) /\ v.pc \notin BatchPCs
    BY <2>2 DEF Shaped, BatchPCs, CompactPCs
  <2>6. Fitting(next, v)
    BY <1>2, <2>4, <2>5, OutsideFits DEF SameCalls
  <2>7. tickets \in [Requests -> TicketStates]
    BY <1>2 DEF TypeOK
  <2> QED
    BY <1>1, <1>2, <2>2, <2>3, <2>4, <2>6, <2>7, RecordOnlyStep, UntouchedSound DEF SameCalls
<1> QED
  BY <1>3, <1>4, <1>5

LEMMA PreTurnCalls ==
  ASSUME CallsInv, PreTurn
  PROVE  Sound
<1>1. ~poisoned /\ w.pc = "preTurn" /\ InTurn(w)
  BY DEF PreTurn, At, InTurn, TurnPCs
<1>2. Shaped(w) /\ Placed(state, w) /\ w \in Workers
  BY <1>1, Working
<1>3. CASE Step([w EXCEPT !.pc = "preUser", !.entered = TRUE])
  <2> DEFINE v == [w EXCEPT !.pc = "preUser", !.entered = TRUE]
  <2>1. v \in Workers /\ v.pc = "preUser" /\ v.site = w.site /\ v.entry = w.entry
    BY <1>2 DEF Workers, PCs, Awaits
  <2> HIDE DEF v
  <2>2. Shaped(v) /\ v.pc \notin BatchPCs
    BY <1>1, <1>2, <2>1 DEF Shaped, BatchPCs, CompactPCs
  <2>3. Step(v)
    BY <1>3 DEF v
  <2>4. state.currentTurn # 0
    BY <1>1, <1>2 DEF Placed
  <2>5. w.pc \notin BatchPCs \cup {"none", "closeBatch", "unwind"}
    BY <1>1 DEF BatchPCs
  <2> QED
    BY <1>1, <2>1, <2>2, <2>3, <2>4, <2>5, QuietMove
<1>4. CASE Throw("failed")
  BY <1>1, <1>4, ThrowSound DEF Outcomes
<1> QED
  BY <1>3, <1>4 DEF PreTurn

\* The input at hand is a request.
LEMMA CurrentIsRequest ==
  ASSUME CallsInv, ~poisoned,
         w.pc \in {"preUser", "postUser"} \/ (w.pc \in CompactPCs /\ w.site # "budget")
  PROVE  /\ Current \in Requests
         /\ NextArrival \in Workers /\ NextArrival.pc = "arrivals"
         /\ NextArrival.site = w.site /\ NextArrival.entry = w.entry
         /\ w.site \in {"turn", "head", "tail", "top"}
         /\ w.entry \in Requests
<1>1. w.pc \notin {"none", "closeBatch", "ready", "drain", "postTurn"}
  BY DEF CompactPCs
<1>2. Shaped(w) /\ w \in Workers /\ w.entry \in Requests
  BY <1>1, Working DEF Shaped
<1>3. w.site \in {"turn", "head", "tail", "top"}
  BY <1>2 DEF Shaped, Workers, Sites
<1>4. CASE w.site \in {"head", "tail"}
  <2>1. w.arrivals # {} /\ First(w.arrivals).kind = "input" /\ w.arrivals \subseteq Item
    BY <1>2, <1>4 DEF Shaped, Workers
  <2>2. First(w.arrivals) \in Item
    BY <2>1, FirstIsIn
  <2>3. First(w.arrivals).id \in Requests
    BY <2>1, <2>2 DEF Item
  <2> QED
    BY <1>2, <1>3, <1>4, <2>3, NextArrivalIsWorker DEF Current, NextArrival, Workers
<1>5. CASE w.site \in {"turn", "top"}
  BY <1>2, <1>3, <1>5, NextArrivalIsWorker DEF Current, NextArrival, Workers
<1> QED
  BY <1>3, <1>4, <1>5

\* Places in a turn, outside a batch.
QuietPCs == TurnPCs \ (BatchPCs \cup {"unwind", "closeBatch"})

LEMMA AtQuietPlace ==
  ASSUME CallsInv, ~poisoned, w.pc \in QuietPCs
  PROVE  /\ w.pc \notin BatchPCs \cup {"none", "closeBatch", "unwind"}
         /\ InTurn(w) /\ state.currentTurn # 0
         /\ Shaped(w) /\ w \in Workers /\ w.entry \in Requests
         /\ ~HasBatch(state.messages) /\ Sane(state) /\ TypeOK /\ state \in States
         /\ life \in {"open", "closing"} /\ life # "down" /\ life # "recovering"
<1>1. InTurn(w) /\ w.pc \notin BatchPCs \cup {"none", "closeBatch", "unwind"}
      /\ w.pc \notin {"ready", "drain", "postTurn"}
  BY DEF QuietPCs, TurnPCs, InTurn, BatchPCs
<1> QED
  BY <1>1, Working DEF Placed, Shaped

\* From one such place to another, or on to the next arrival.
LEMMA TurnMove ==
  ASSUME CallsInv, ~poisoned, w.pc \in QuietPCs, NEW v \in Workers,
         v.pc \in QuietPCs \cup {"closeBatch"} \cup CompactPCs, Shaped(v), Step(v)
  PROVE  Sound
<1>1. v.pc \notin BatchPCs
  BY DEF QuietPCs, BatchPCs, CompactPCs
<1> QED
  BY <1>1, AtQuietPlace, QuietMove

\* An input is refused, or a compaction asked for ends, in a turn.
LEMMA RefuseCalls ==
  ASSUME CallsInv, ~poisoned, w.site \in {"head", "tail"}, w.pc # "budget",
         w.pc \in {"preUser", "postUser"} \cup CompactPCs, NEW outcome \in Outcomes,
         RecordAndTell(InputFinished(state, Current, outcome), NextArrival,
                       Resolve({Current}, outcome))
  PROVE  Sound
<1> DEFINE next == InputFinished(state, Current, outcome)
           told == Resolve({Current}, outcome)
           v == NextArrival
<1>1. /\ Current \in Requests /\ v \in Workers /\ v.pc = "arrivals" /\ v.site = w.site
      /\ v.entry = w.entry /\ w.entry \in Requests
  BY CurrentIsRequest
<1>2. w.pc \notin BatchPCs \cup {"none", "closeBatch", "unwind"} /\ InTurn(w)
  BY DEF BatchPCs, CompactPCs, InTurn, TurnPCs
<1>3. Sane(state) /\ TypeOK /\ state.currentTurn # 0 /\ state \in States
  BY <1>2, Working DEF Placed
<1>4. SameCalls(state, next) /\ Sane(next)
  BY <1>1, <1>3, RequestEvents
<1>5. next.currentTurn = state.currentTurn
  BY <1>3 DEF InputFinished, States
<1>6. told \in [Requests -> TicketStates]
  BY <1>3, TicketsTyped
<1>7. RecordAndTell(next, v, told)
  OBVIOUS
<1> HIDE DEF next, told, v
<1>8. Shaped(v) /\ v.pc \notin BatchPCs
  BY <1>1 DEF Shaped, BatchPCs, CompactPCs
<1> QED
  BY <1>1, <1>2, <1>3, <1>4, <1>5, <1>6, <1>7, <1>8, QuietTelling

LEMMA AcceptCalls ==
  ASSUME CallsInv, AcceptUser \/ RefuseUser \/ PostUser \/ PostUserFails
  PROVE  Sound
<1>1. ~poisoned /\ w.pc \in {"preUser", "postUser"} /\ w.pc \in QuietPCs
  BY DEF AcceptUser, RefuseUser, PostUser, PostUserFails, At, QuietPCs, TurnPCs, BatchPCs
<1>2. /\ Current \in Requests /\ NextArrival \in Workers /\ NextArrival.pc = "arrivals"
      /\ NextArrival.site = w.site /\ NextArrival.entry = w.entry /\ w.entry \in Requests
  BY <1>1, CurrentIsRequest
<1>3. w.site \in {"turn", "head", "tail"}
  BY <1>1, AtQuietPlace DEF Shaped
<1>4. CASE AcceptUser
  <2> DEFINE v == [w EXCEPT !.pc = "postUser"]
             next == UserAccepted(state, Current)
  <2>1. v \in Workers /\ v.pc = "postUser" /\ v.site = w.site /\ v.entry = w.entry
        /\ v.arrivals = w.arrivals
    BY <1>1, AtQuietPlace DEF Workers, PCs, Awaits
  <2>2. w.pc = "preUser" /\ RecordAndTell(next, v, tickets)
    BY <1>4 DEF AcceptUser, At, Record
  <2>3. /\ Sane(next) /\ ~HasBatch(next.messages) /\ next.actions = state.actions
        /\ next.messages = Append(state.messages, UserMessage(state.currentTurn))
    <3>1. \E j \in Nat : TRUE
      OBVIOUS
    <3> QED
      BY <1>1, <1>2, <3>1, AtQuietPlace, UserEvents
  <2>4. next.currentTurn = state.currentTurn
    BY <1>1, AtQuietPlace DEF UserAccepted, States
  <2> HIDE DEF v, next
  <2>5. Shaped(v) /\ v.pc \notin BatchPCs
    BY <1>1, <2>1, <2>2, AtQuietPlace DEF Shaped, BatchPCs, CompactPCs
  <2>6. Fitting(next, v)
    BY <1>1, <2>3, <2>4, <2>5, AtQuietPlace, OutsideFits
  <2>7. tickets \in [Requests -> TicketStates]
    BY DEF CallsInv, TypeOK
  <2>8. CallsInv' /\ state' \in {state, next}
    BY <1>1, <2>1, <2>2, <2>3, <2>6, <2>7, AtQuietPlace, RecordStep
  <2>9. CASE state' = state
    BY <2>8, <2>9, UntouchedSound
  <2>10. CASE state' = next
    <3>1. UserJoins
      BY <1>1, <2>3, <2>10, AtQuietPlace DEF UserJoins
    <3> QED
      BY <2>8, <3>1 DEF Sound, CallsChange
  <2> QED
    BY <2>8, <2>9, <2>10
<1>5. ASSUME RefuseUser \/ PostUserFails
      PROVE  Sound
  <2>1. CASE w.site = "turn"
    <3>1. Throw("failed")
      BY <1>5, <2>1 DEF RefuseUser, PostUserFails
    <3> QED
      BY <1>1, <3>1, AtQuietPlace, ThrowSound DEF Outcomes
  <2>2. CASE w.site # "turn"
    <3>1. Refuse
      BY <1>5, <2>2 DEF RefuseUser, PostUserFails
    <3>2. "failed" \in Outcomes /\ w.pc # "budget" /\ w.site \in {"head", "tail"}
          /\ w.pc \in {"preUser", "postUser"} \cup CompactPCs
      BY <1>1, <1>3, <2>2 DEF Outcomes
    <3> QED
      BY <1>1, <3>1, <3>2, RefuseCalls DEF Refuse
  <2> QED
    BY <2>1, <2>2
<1>6. CASE PostUser
  <2> DEFINE a == [w EXCEPT !.pc = "boundary", !.site = "head", !.timer = "on"]
             b == [NextArrival EXCEPT !.steered = TRUE]
  <2>1. CASE w.site = "turn"
    <3>1. a \in Workers /\ a.pc = "boundary" /\ a.site = "head" /\ a.entry = w.entry
      BY <1>1, AtQuietPlace DEF Workers, PCs, Sites
    <3>2. Step(a)
      BY <1>6, <2>1 DEF PostUser
    <3> HIDE DEF a
    <3>3. Shaped(a) /\ a.pc \in QuietPCs
      BY <1>2, <3>1 DEF Shaped, CompactPCs, QuietPCs, TurnPCs, BatchPCs
    <3> QED
      BY <1>1, <3>1, <3>2, <3>3, TurnMove
  <2>2. CASE w.site # "turn"
    <3>1. b \in Workers /\ b.pc = "arrivals" /\ b.site = w.site /\ b.entry = w.entry
      BY <1>2 DEF Workers
    <3>2. Step(b)
      BY <1>6, <2>2 DEF PostUser
    <3> HIDE DEF b
    <3>3. Shaped(b) /\ b.pc \in QuietPCs
      BY <1>2, <1>3, <2>2, <3>1 DEF Shaped, CompactPCs, QuietPCs, TurnPCs, BatchPCs
    <3> QED
      BY <1>1, <3>1, <3>2, <3>3, TurnMove
  <2> QED
    BY <2>1, <2>2
<1> QED
  BY <1>4, <1>5, <1>6

LEMMA BoundaryCalls ==
  ASSUME CallsInv, EnterBoundary \/ TakeNotification \/ TakeInput \/ LeaveHead \/ LeaveTail
  PROVE  Sound
<1>1. ~poisoned /\ w.pc \in {"boundary", "arrivals"} /\ w.pc \in QuietPCs
  BY DEF EnterBoundary, TakeNotification, TakeInput, LeaveHead, LeaveTail, At, QuietPCs,
         TurnPCs, BatchPCs
<1>2. /\ w.site \in {"head", "tail"} /\ w \in Workers /\ w.entry \in Requests
      /\ Typed(state) /\ w.arrivals \subseteq Item
  BY <1>1, AtQuietPlace, StateHas DEF Shaped, Workers
<1>3. ASSUME NEW v \in Workers, v.pc \in {"boundary", "arrivals", "budget", "closeBatch"},
             v.site \in {"head", "tail"}, v.entry = w.entry, Step(v)
      PROVE  Sound
  <2>1. Shaped(v) /\ v.pc \in QuietPCs \cup {"closeBatch"} \cup CompactPCs
    BY <1>2, <1>3 DEF Shaped, CompactPCs, QuietPCs, TurnPCs, BatchPCs
  <2> QED
    BY <1>1, <1>3, <2>1, TurnMove
<1>4. CASE EnterBoundary
  <2> DEFINE v == [w EXCEPT !.pc = "arrivals", !.arrivals = Arrivals, !.steered = FALSE]
  <2>1. v \in Workers /\ v.pc = "arrivals" /\ v.site = w.site /\ v.entry = w.entry
    BY <1>2, ArrivalsAreQueued DEF Workers, PCs
  <2>2. Step(v)
    BY <1>4 DEF EnterBoundary
  <2> HIDE DEF v
  <2> QED
    BY <1>2, <1>3, <2>1, <2>2
<1>5. CASE TakeNotification
  <2> DEFINE v == [NextArrival EXCEPT !.steered = TRUE]
             j == First(w.arrivals).id
             next == NotificationAccepted(state, j)
  <2>1. v \in Workers /\ v.pc = "arrivals" /\ v.site = w.site /\ v.entry = w.entry
    BY <1>2 DEF NextArrival, Workers, PCs
  <2>2. j \in Nat
    BY <1>2, <1>5, FirstIsIn DEF TakeNotification, Item
  <2>3. RecordAndTell(next, v, tickets)
    BY <1>5 DEF TakeNotification, Record
  <2>4. /\ Sane(next) /\ ~HasBatch(next.messages) /\ next.actions = state.actions
        /\ next.messages = Append(state.messages, UserMessage(state.currentTurn))
    <3> HIDE DEF j
    <3> QED
      BY <1>1, <1>2, <2>2, AtQuietPlace, UserEvents
  <2>5. next.currentTurn = state.currentTurn
    BY <1>1, AtQuietPlace DEF NotificationAccepted, States
  <2> HIDE DEF v, next
  <2>6. Shaped(v) /\ v.pc \notin BatchPCs
    BY <1>2, <2>1 DEF Shaped, BatchPCs, CompactPCs
  <2>7. Fitting(next, v)
    BY <1>1, <2>4, <2>5, <2>6, AtQuietPlace, OutsideFits
  <2>8. tickets \in [Requests -> TicketStates]
    BY DEF CallsInv, TypeOK
  <2>9. CallsInv' /\ state' \in {state, next}
    BY <1>1, <2>1, <2>3, <2>4, <2>7, <2>8, AtQuietPlace, RecordStep
  <2>10. CASE state' = state
    BY <2>9, <2>10, UntouchedSound
  <2>11. CASE state' = next
    <3>1. UserJoins
      BY <1>1, <2>4, <2>11, AtQuietPlace DEF UserJoins
    <3> QED
      BY <2>9, <3>1 DEF Sound, CallsChange
  <2> QED
    BY <2>9, <2>10, <2>11
<1>6. CASE TakeInput
  <2> DEFINE pc == IF Mode[First(w.arrivals).id] = "compact" THEN "compact" ELSE "preUser"
             v == [w EXCEPT !.pc = pc]
  <2>1. pc \in {"compact", "preUser"}
    OBVIOUS
  <2>2. Step(v) /\ w.arrivals # {} /\ First(w.arrivals).kind = "input"
    BY <1>6 DEF TakeInput
  <2> HIDE DEF pc
  <2>3. v \in Workers /\ v.pc = pc /\ v.site = w.site /\ v.entry = w.entry
        /\ v.arrivals = w.arrivals
    BY <1>2, <2>1 DEF Workers, PCs, Awaits
  <2> HIDE DEF v
  <2>4. Shaped(v) /\ v.pc \in QuietPCs \cup CompactPCs
    BY <1>2, <2>1, <2>2, <2>3 DEF Shaped, CompactPCs, QuietPCs, TurnPCs, BatchPCs
  <2> QED
    BY <1>1, <2>2, <2>3, <2>4, TurnMove
<1>7. CASE LeaveHead
  <2> DEFINE v == [w EXCEPT !.pc = "budget", !.steered = FALSE]
  <2>1. v \in Workers /\ v.pc = "budget" /\ v.site = w.site /\ v.entry = w.entry
    BY <1>2 DEF Workers, PCs
  <2>2. Step(v) \/ Throw("cancelled")
    BY <1>7 DEF LeaveHead
  <2> HIDE DEF v
  <2> QED
    BY <1>1, <1>2, <1>3, <2>1, <2>2, AtQuietPlace, ThrowSound DEF Outcomes
<1>8. CASE LeaveTail
  <2> DEFINE a == [w EXCEPT !.pc = "closeBatch", !.timer = "off"]
             b == [w EXCEPT !.pc = "boundary", !.site = "head"]
             c == [w EXCEPT !.pc = "closeBatch", !.timer = "off", !.status = "limited",
                            !.steered = FALSE]
  <2>1. Step(a) \/ Step(b) \/ Step(c)
    BY <1>8 DEF LeaveTail
  <2>2. /\ a \in Workers /\ a.pc = "closeBatch" /\ a.site = w.site /\ a.entry = w.entry
        /\ b \in Workers /\ b.pc = "boundary" /\ b.site = "head" /\ b.entry = w.entry
        /\ c \in Workers /\ c.pc = "closeBatch" /\ c.site = w.site /\ c.entry = w.entry
    BY <1>2 DEF Workers, PCs, Sites, Outcomes
  <2> HIDE DEF a, b, c
  <2> QED
    BY <1>2, <1>3, <2>1, <2>2
<1> QED
  BY <1>4, <1>5, <1>6, <1>7, <1>8

LEMMA BudgetCalls ==
  ASSUME CallsInv, Fits \/ Outgrown \/ DoesNotFit
  PROVE  Sound
<1>1. ~poisoned /\ w.pc \in {"budget", "fit"} /\ w.pc \in QuietPCs
  BY DEF Fits, Outgrown, DoesNotFit, At, QuietPCs, TurnPCs, BatchPCs
<1>2. w \in Workers /\ w.entry \in Requests
  BY <1>1, AtQuietPlace
<1>3. CASE Fits
  <2> DEFINE v == [w EXCEPT !.pc = "preStep", !.steps = @ + 1, !.called = FALSE]
  <2>0. w.steps + 1 \in Nat
    BY <1>2 DEF Workers
  <2>1. v \in Workers /\ v.pc = "preStep" /\ v.entry = w.entry
    BY <1>2, <2>0 DEF Workers, PCs, Awaits
  <2>2. Log(v)
    BY <1>3 DEF Fits
  <2> HIDE DEF v
  <2>3. Shaped(v) /\ v.pc \notin BatchPCs
    BY <1>2, <2>1 DEF Shaped, BatchPCs, CompactPCs
  <2> QED
    BY <1>1, <2>1, <2>2, <2>3, AtQuietPlace, QuietLog
<1>4. CASE Outgrown
  <2> DEFINE v == [w EXCEPT !.pc = "compact", !.site = "budget"]
  <2>1. v \in Workers /\ v.pc = "compact" /\ v.site = "budget" /\ v.entry = w.entry
    BY <1>2 DEF Workers, PCs, Sites
  <2>2. Step(v)
    BY <1>4 DEF Outgrown
  <2> HIDE DEF v
  <2>3. Shaped(v) /\ v.pc \in CompactPCs
    BY <1>2, <2>1 DEF Shaped, CompactPCs
  <2> QED
    BY <1>1, <2>1, <2>2, <2>3, TurnMove
<1>5. CASE DoesNotFit
  BY <1>1, <1>5, AtQuietPlace, ThrowSound DEF DoesNotFit, Outcomes
<1> QED
  BY <1>3, <1>4, <1>5

-------------------------------------------------------------------------------
(* _run_step, _generate, _execute_batch.                                   *)

\* The model is called and answers.
LEMMA ModelCalls ==
  ASSUME CallsInv,
         \/ CallModel \/ StepRefused \/ ModelFails \/ ModelInterrupted \/ PostStep
         \/ \E calls \in Replies : ModelReplies(calls)
  PROVE  Sound
<1>1. ~poisoned /\ w.pc \in {"preStep", "model", "postStep"} /\ w.pc \in QuietPCs
  BY DEF CallModel, StepRefused, ModelFails, ModelInterrupted, PostStep, ModelReplies, At,
         QuietPCs, TurnPCs, BatchPCs
<1>2. /\ w \in Workers /\ w.entry \in Requests /\ InTurn(w) /\ Sane(state)
      /\ state.currentTurn # 0 /\ ~HasBatch(state.messages) /\ w.pc # "closeBatch"
      /\ life \in {"open", "closing"} /\ life # "down" /\ life # "recovering"
  BY <1>1, AtQuietPlace
<1>3. ASSUME NEW outcome \in Outcomes, Throw(outcome)
      PROVE  Sound
  BY <1>1, <1>2, <1>3, ThrowSound
<1>4. "failed" \in Outcomes /\ Interruption \in Outcomes
  BY InterruptionIsOutcome DEF Outcomes
<1>5. CASE CallModel
  <2> DEFINE v == [w EXCEPT !.pc = "model"]
  <2>1. v \in Workers /\ v.pc = "model" /\ v.entry = w.entry
    BY <1>2 DEF Workers, PCs, Awaits, Active
  <2>2. Log(v) \/ Throw("failed")
    BY <1>5 DEF CallModel
  <2> HIDE DEF v
  <2>3. Shaped(v) /\ v.pc \notin BatchPCs
    BY <1>2, <2>1 DEF Shaped, BatchPCs, CompactPCs
  <2> QED
    BY <1>1, <1>3, <1>4, <2>1, <2>2, <2>3, AtQuietPlace, QuietLog
<1>6. CASE StepRefused \/ ModelFails \/ ModelInterrupted
  BY <1>3, <1>4, <1>6 DEF StepRefused, ModelFails, ModelInterrupted
<1>7. CASE PostStep
  <2> DEFINE v == [w EXCEPT !.pc = "boundary", !.site = "tail"]
  <2>1. v \in Workers /\ v.pc = "boundary" /\ v.site = "tail" /\ v.entry = w.entry
    BY <1>2 DEF Workers, PCs, Sites
  <2>2. Step(v) \/ Throw("failed")
    BY <1>7 DEF PostStep
  <2> HIDE DEF v
  <2>3. Shaped(v) /\ v.pc \in QuietPCs
    BY <1>2, <2>1 DEF Shaped, QuietPCs, TurnPCs, BatchPCs, CompactPCs
  <2> QED
    BY <1>1, <1>3, <1>4, <2>1, <2>2, <2>3, TurnMove
<1>8. CASE \E calls \in Replies : ModelReplies(calls)
  <2>1. PICK calls \in Replies : ModelReplies(calls)
    BY <1>8
  <2>2. CASE ~FreshCalls(calls)
    BY <1>3, <1>4, <2>1, <2>2 DEF ModelReplies
  <2>3. CASE FreshCalls(calls)
    <3> DEFINE next == AssistantCommitted(state, calls)
               m == AssistantMessage(state.currentTurn, calls, Len(state.actions))
               v == [w EXCEPT !.pc = IF calls = <<>> THEN "postStep" ELSE "postAssistant",
                              !.called = calls # <<>>]
    <3>1. RecordAndTell(next, v, tickets)
      BY <2>1, <2>3 DEF ModelReplies, Record
    <3>2. /\ calls \in Seq(CallIds)
          /\ \A k, l \in DOMAIN calls : calls[k] = calls[l] => k = l
          /\ \A k \in DOMAIN calls : calls[k] \notin SeenCalls(state.messages)
      BY <2>3, RepliesAssumption DEF FreshCalls
    <3>3. /\ Sane(next) /\ next.messages = Append(state.messages, m)
          /\ m.calls = calls /\ m.number = Len(state.actions)
          /\ next.actions = state.actions /\ next.currentTurn = state.currentTurn
          /\ HasBatch(next.messages) <=> calls # <<>>
          /\ LastOf(next.messages) = m
      BY <1>2, <3>2, AssistantEvent
    <3>4. /\ v \in Workers /\ v.entry = w.entry
          /\ v.pc = IF calls = <<>> THEN "postStep" ELSE "postAssistant"
      BY <1>2 DEF Workers, PCs, Awaits
    <3> HIDE DEF next, v
    <3>5. Shaped(v) /\ v.pc # "none" /\ v.pc \in TurnPCs
      BY <1>2, <3>4 DEF Shaped, CompactPCs, TurnPCs
    <3>6. calls # <<>> => AtCall(next, "postAssistant")
      <4>1. Len(next.actions) - m.number = 0 /\ Len(m.calls) \in Nat
        <5>1. Len(state.actions) \in Nat /\ Len(calls) \in Nat
          BY <1>2, <3>2, StateHas, LenProperties DEF Sane
        <5> HIDE DEF m
        <5> QED
          BY <3>3, <5>1
      <4> HIDE DEF m
      <4>2. 0 \in 0 .. Len(m.calls)
        BY <4>1
      <4> QED
        BY <3>3, <4>1, <4>2 DEF AtCall
    <3>7. Fitting(next, v)
      <4>1. CASE calls = <<>>
        BY <1>2, <3>3, <3>4, <3>5, <4>1, OutsideFits DEF BatchPCs
      <4>2. CASE calls # <<>>
        BY <1>2, <3>3, <3>4, <3>5, <3>6, <4>2 DEF Fitting, Placed, BatchPCs
      <4> QED
        BY <4>1, <4>2
    <3>8. tickets \in [Requests -> TicketStates]
      BY DEF CallsInv, TypeOK
    <3>9. CallsInv' /\ state' \in {state, next}
      BY <1>1, <1>2, <3>1, <3>3, <3>4, <3>7, <3>8, RecordStep
    <3>10. CASE state' = state
      BY <3>9, <3>10, UntouchedSound
    <3>11. CASE state' = next
      <4>1. ModelAnswers
        BY <1>2, <3>2, <3>3, <3>11 DEF ModelAnswers
      <4> QED
        BY <3>9, <4>1 DEF Sound, CallsChange
    <3> QED
      BY <3>9, <3>10, <3>11
  <2> QED
    BY <2>2, <2>3
<1> QED
  BY <1>5, <1>6, <1>7, <1>8

\* Where the worker is in an open batch.
LEMMA InOpenBatch ==
  ASSUME CallsInv, ~poisoned, w.pc \in BatchPCs
  PROVE  /\ life \in {"open", "closing"} /\ life # "down" /\ life # "recovering"
         /\ InTurn(w) /\ w.pc # "closeBatch" /\ state.currentTurn # 0
         /\ w \in Workers /\ Shaped(w) /\ w.entry \in Requests
         /\ Sane(state) /\ HasBatch(state.messages) /\ AtCall(state, w.pc)
         /\ Batch = LastOf(state.messages)
         /\ tickets \in [Requests -> TicketStates]
<1>1. InTurn(w) /\ w.pc \notin {"none", "unwind", "closeBatch", "ready", "drain", "postTurn"}
  BY DEF BatchPCs, InTurn, TurnPCs
<1> QED
  BY <1>1, Working DEF Placed, Shaped, Batch, LastOf, TypeOK

LEMMA BatchNumbers ==
  ASSUME Sane(state), HasBatch(state.messages), NEW pc, AtCall(state, pc)
  PROVE  /\ Len(state.actions) \in Nat /\ LastOf(state.messages).number \in Nat
         /\ BatchCalls \in Seq(CallIds) /\ Len(BatchCalls) \in Nat
         /\ DOMAIN BatchCalls = 1 .. Len(BatchCalls)
         /\ ActionsInBatch \in 0 .. Len(BatchCalls)
         /\ Len(state.actions) = LastOf(state.messages).number + ActionsInBatch
         /\ state.actions \in Seq(Action) /\ DOMAIN state.actions = 1 .. Len(state.actions)
         /\ \A k \in 1 .. ActionsInBatch : Place(k) \in 1 .. Len(state.actions)
<1>1. /\ state.messages \in Seq(Message) /\ state.actions \in Seq(Action)
      /\ Len(state.messages) \in 1 .. Len(state.messages)
  BY StateHas, MessageHas DEF Sane, HasBatch
<1>2. LastOf(state.messages).number \in Nat /\ BatchCalls \in Seq(CallIds)
  BY <1>1, MessageHas DEF LastOf, BatchCalls
<1>3. /\ Len(state.actions) \in Nat /\ DOMAIN state.actions = 1 .. Len(state.actions)
      /\ Len(BatchCalls) \in Nat /\ DOMAIN BatchCalls = 1 .. Len(BatchCalls)
  BY <1>1, <1>2, LenProperties
<1>4. ActionsInBatch \in 0 .. Len(BatchCalls)
  BY DEF AtCall, ActionsInBatch, BatchCalls
<1>5. Len(state.actions) = LastOf(state.messages).number + ActionsInBatch
  BY <1>2, <1>3 DEF ActionsInBatch
<1>6. \A k \in 1 .. ActionsInBatch : Place(k) \in 1 .. Len(state.actions)
  BY <1>2, <1>4, <1>5 DEF Place
<1> QED
  BY <1>1, <1>2, <1>3, <1>4, <1>5, <1>6

\* What AtCall says, in the terms of the steps.
LEMMA AtCallIs ==
  ASSUME NEW pc
  PROVE  AtCall(state, pc) <=>
           /\ ActionsInBatch \in 0 .. Len(BatchCalls)
           /\ \A k \in 1 .. ActionsInBatch : state.actions[Place(k)].call = BatchCalls[k]
           /\ \A k \in 1 .. ActionsInBatch :
                state.actions[Place(k)].result = "none" <=> pc = "tool" /\ k = ActionsInBatch
           /\ pc = "preAction" => ActionsInBatch < Len(BatchCalls)
           /\ pc \in {"tool", "postAction"} => ActionsInBatch # 0
  BY DEF AtCall, ActionsInBatch, BatchCalls, Place

LEMMA OneMore ==
  \A number, n, calls, old, new \in Nat :
    /\ old = number + n /\ n < calls /\ new = old + 1
    => /\ new - number = n + 1 /\ n + 1 \in 0 .. calls /\ n + 1 # 0
       /\ \A k \in 1 .. (n + 1) : k \in 1 .. n \/ k = n + 1
  OBVIOUS

\* The next call gets its action.
LEMMA ActionAdded ==
  ASSUME Sane(state), HasBatch(state.messages), NEW pc \in {"batch", "preAction"},
         AtCall(state, pc), ActionsInBatch < Len(BatchCalls),
         NEW x \in Action, x.call = BatchCalls[ActionsInBatch + 1],
         NEW next, next.messages = state.messages, next.actions = Append(state.actions, x),
         NEW pc2 \in {"tool", "postAction"}, x.result = "none" <=> pc2 = "tool"
  PROVE  AtCall(next, pc2) /\ \A k \in 1 .. ActionsInBatch : state.actions[Place(k)].result # "none"
<1> DEFINE n == ActionsInBatch
           b == LastOf(state.messages)
<1>1. /\ Len(state.actions) = b.number + n /\ b.number \in Nat
      /\ n \in 0 .. Len(b.calls) /\ Len(b.calls) \in Nat /\ n < Len(b.calls)
      /\ \A k \in 1 .. n : b.number + k \in 1 .. Len(state.actions)
      /\ state.actions \in Seq(Action) /\ Len(state.actions) \in Nat /\ n \in Nat
  BY BatchNumbers DEF Place, BatchCalls
<1>2. /\ \A k \in 1 .. n : state.actions[b.number + k].call = b.calls[k]
      /\ \A k \in 1 .. n : state.actions[b.number + k].result # "none"
      /\ x.call = b.calls[n + 1]
  BY AtCallIs DEF Place, BatchCalls
<1> HIDE DEF n
<1>3. /\ Len(next.actions) = Len(state.actions) + 1 /\ Len(next.actions) \in Nat
      /\ \A a \in 1 .. Len(state.actions) : next.actions[a] = state.actions[a]
      /\ next.actions[Len(state.actions) + 1] = x
  BY <1>1, AppendIs
<1>4. LastOf(next.messages) = b
  OBVIOUS
<1> HIDE DEF b
<1>5. /\ Len(next.actions) - b.number = n + 1 /\ n + 1 \in 0 .. Len(b.calls) /\ n + 1 # 0
      /\ \A k \in 1 .. (n + 1) : k \in 1 .. n \/ k = n + 1
  BY <1>1, <1>3, OneMore, Zenon
<1>6. ASSUME NEW k \in 1 .. n
      PROVE  next.actions[b.number + k] = state.actions[b.number + k] /\ k # n + 1
  BY <1>1, <1>3
<1>7. next.actions[b.number + (n + 1)] = x
  BY <1>1, <1>3
<1>8. ASSUME NEW k \in 1 .. (n + 1)
      PROVE  /\ next.actions[b.number + k].call = b.calls[k]
             /\ next.actions[b.number + k].result = "none" <=> pc2 = "tool" /\ k = n + 1
  <2>1. CASE k \in 1 .. n
    BY <1>2, <1>6, <2>1
  <2>2. CASE k = n + 1
    BY <1>2, <1>7, <2>2
  <2> QED
    BY <1>5, <2>1, <2>2
<1>9. AtCall(next, pc2)
  BY <1>4, <1>5, <1>8 DEF AtCall
<1> QED
  BY <1>2, <1>9 DEF Place, n, b

\* The running action ends.
LEMMA ActionFinished ==
  ASSUME Sane(state), HasBatch(state.messages), AtCall(state, "tool"),
         NEW next, next.messages = state.messages, NEW r \in Results \ {"none"},
         next.actions = Ended(state.actions, Len(state.actions), r)
  PROVE  AtCall(next, "postAction")
<1> DEFINE n == ActionsInBatch
           b == LastOf(state.messages)
           last == Len(state.actions)
           x == [state.actions[last] EXCEPT !.result = r]
<1>1. /\ last = b.number + n /\ b.number \in Nat
      /\ n \in 0 .. Len(b.calls) /\ Len(b.calls) \in Nat
      /\ \A k \in 1 .. n : b.number + k \in 1 .. last
      /\ state.actions \in Seq(Action) /\ last \in Nat /\ DOMAIN state.actions = 1 .. last
  BY BatchNumbers DEF Place, BatchCalls
<1>2. /\ n # 0
      /\ \A k \in 1 .. n : state.actions[b.number + k].call = b.calls[k]
      /\ \A k \in 1 .. n : state.actions[b.number + k].result = "none" <=> k = n
  BY AtCallIs DEF Place, BatchCalls
<1> HIDE DEF n, last
<1>3. state.actions[last] \in Action
  BY <1>1, <1>2, ElementOfSeq DEF last
<1>4. x.call = state.actions[last].call /\ x.result = r
  BY <1>3 DEF Action
<1> HIDE DEF x
<1>5. next.actions = [state.actions EXCEPT ![last] = x]
  BY DEF last, x, Ended
<1>6. /\ Len(next.actions) = last
      /\ \A a \in 1 .. last : next.actions[a] = IF a = last THEN x ELSE state.actions[a]
  <2>1. x \in Action
    BY <1>3 DEF x, Action
  <2>2. next.actions \in Seq(Action)
    <3>1. [state.actions EXCEPT ![last] = x] \in Seq(Action)
      BY <1>1, <2>1, ExceptIsSeq, Zenon
    <3> QED
      BY <1>5, <3>1, Zenon
  <2>3. DOMAIN next.actions = 1 .. last
    BY <1>1, <1>5
  <2>4. Len(next.actions) = last
    BY <1>1, <2>2, <2>3, LenProperties
  <2> QED
    BY <1>1, <1>5, <2>4
<1>7. LastOf(next.messages) = b
  OBVIOUS
<1> HIDE DEF b
<1>8. ASSUME NEW k \in 1 .. n
      PROVE  /\ next.actions[b.number + k].call = b.calls[k]
             /\ next.actions[b.number + k].result # "none"
  <2>1. CASE k = n
    BY <1>1, <1>2, <1>4, <1>6, <2>1
  <2>2. CASE k # n
    <3>1. b.number + k # last /\ b.number + k \in 1 .. last
      BY <1>1, <2>2
    <3> QED
      BY <1>2, <1>6, <2>2, <3>1
  <2> QED
    BY <2>1, <2>2
<1>9. Len(next.actions) - b.number = n
  BY <1>1, <1>6
<1> QED
  BY <1>1, <1>2, <1>7, <1>8, <1>9 DEF AtCall

\* From one place in a batch to another.
LEMMA BatchFits ==
  ASSUME CallsInv, ~poisoned, w.pc \in BatchPCs,
         NEW next, next.messages = state.messages, next.currentTurn = state.currentTurn,
         NEW v, v.pc \in BatchPCs, v.entry = w.entry, AtCall(next, v.pc)
  PROVE  Fitting(next, v)
<1>1. HasBatch(next.messages) /\ v.entry \in Requests /\ next.currentTurn # 0
  BY InOpenBatch
<1>2. Shaped(v)
  BY <1>1 DEF Shaped, BatchPCs, CompactPCs
<1> QED
  BY <1>1, <1>2 DEF Fitting, Placed, BatchPCs

LEMMA BatchRecord ==
  ASSUME CallsInv, ~poisoned, w.pc \in BatchPCs,
         NEW next, Sane(next), next.messages = state.messages,
         next.currentTurn = state.currentTurn,
         NEW v \in Workers, v.pc \in BatchPCs, v.entry = w.entry, AtCall(next, v.pc),
         RecordOnly(next, v, tickets), OthersTyped
  PROVE  CallsInv' /\ state' \in {state, next}
  BY InOpenBatch, BatchFits, RecordOnlyStep

LEMMA BatchMove ==
  ASSUME CallsInv, ~poisoned, w.pc \in BatchPCs,
         NEW v \in Workers, v.pc \in BatchPCs, v.entry = w.entry, AtCall(state, v.pc), Step(v)
  PROVE  Sound
<1>1. Fitting(state, v)
  BY BatchFits
<1> QED
  BY <1>1, InOpenBatch, PlainCallsStep, UntouchedSound

\* The next call.
LEMMA NextCallIs ==
  ASSUME CallsInv, ~poisoned, w.pc \in BatchPCs, ActionsInBatch < Len(BatchCalls)
  PROVE  NextCall = BatchCalls[ActionsInBatch + 1] /\ NextCall \in CallIds
<1>1. NextCall = BatchCalls[ActionsInBatch + 1]
  BY InOpenBatch DEF NextCall, NextIndex, BatchCalls, ActionsInBatch
<1>2. /\ BatchCalls \in Seq(CallIds) /\ Len(BatchCalls) \in Nat
      /\ ActionsInBatch \in 0 .. Len(BatchCalls)
  BY InOpenBatch, BatchNumbers
<1>3. ActionsInBatch + 1 \in 1 .. Len(BatchCalls)
  BY <1>2
<1> QED
  BY <1>1, <1>2, <1>3, ElementOfSeq

LEMMA InBatchIs ==
  ASSUME CallsInv, ~poisoned, w.pc \in BatchPCs
  PROVE  InBatch <=> ActionsInBatch < Len(BatchCalls)
<1>1. InBatch <=> ActionsInBatch + 1 <= Len(BatchCalls)
  BY InOpenBatch DEF InBatch, NextIndex, BatchCalls, ActionsInBatch
<1>2. Len(BatchCalls) \in Nat /\ ActionsInBatch \in 0 .. Len(BatchCalls)
  BY InOpenBatch, BatchNumbers
<1> QED
  BY <1>1, <1>2

\* A call gets an action: started, or said to be never started.
LEMMA ActionJoinsSound ==
  ASSUME CallsInv, ~poisoned, w.pc \in {"batch", "preAction"},
         ActionsInBatch < Len(BatchCalls),
         NEW pc \in {"tool", "postAction"}, NEW next,
         next = IF pc = "tool" THEN ActionStarted(state, NextCall)
                               ELSE ActionCompleted(state, Running + 1, NextCall, "skipped"),
         RecordOnly(next, [w EXCEPT !.pc = pc], tickets), OthersTyped
  PROVE  Sound
<1> DEFINE v == [w EXCEPT !.pc = pc]
           x == [call |-> NextCall, started |-> TRUE, result |-> "none"]
           y == [call |-> NextCall, started |-> FALSE, result |-> "skipped"]
           z == IF pc = "tool" THEN x ELSE y
<1>1. w.pc \in BatchPCs
  BY DEF BatchPCs
<1>2. NextCall \in CallIds /\ NextCall = BatchCalls[ActionsInBatch + 1]
  BY <1>1, NextCallIs
<1>3. Sane(state) /\ HasBatch(state.messages) /\ AtCall(state, w.pc) /\ w \in Workers
  BY <1>1, InOpenBatch
<1>4. /\ Sane(next) /\ next.messages = state.messages
      /\ next.actions = Append(state.actions, z) /\ next.currentTurn = state.currentTurn
  BY <1>2, <1>3, NewActionEvents DEF Running
<1>5. z \in Action /\ z.call = NextCall /\ (z.result = "none" <=> pc = "tool")
  BY <1>2 DEF Action, Results
<1>6. v \in Workers /\ v.pc = pc /\ v.entry = w.entry /\ pc \in BatchPCs
  BY <1>3 DEF Workers, PCs, Awaits, Active, BatchPCs
<1> HIDE DEF v, z
<1>7. /\ AtCall(next, pc)
      /\ \A k \in 1 .. ActionsInBatch : state.actions[Place(k)].result # "none"
  BY <1>2, <1>3, <1>4, <1>5, ActionAdded
<1>8. RecordOnly(next, v, tickets)
  BY DEF v
<1>9. CallsInv' /\ state' \in {state, next}
  BY <1>1, <1>4, <1>6, <1>7, <1>8, BatchRecord
<1>10. CASE state' = state
  BY <1>9, <1>10, UntouchedSound
<1>11. CASE state' = next
  <2>1. ActionJoins
    BY <1>2, <1>3, <1>4, <1>5, <1>7, <1>11 DEF ActionJoins
  <2> QED
    BY <1>9, <2>1 DEF Sound, CallsChange
<1> QED
  BY <1>9, <1>10, <1>11

LEMMA OfferCalls ==
  ASSUME CallsInv, SkipCall \/ OfferCall \/ StartAction \/ RefuseAction
  PROVE  Sound
<1>1. ~poisoned /\ w.pc \in {"batch", "preAction"} /\ w.pc \in BatchPCs
  BY DEF SkipCall, OfferCall, StartAction, RefuseAction, At, BatchPCs
<1>2. ActionsInBatch < Len(BatchCalls)
  <2>1. CASE w.pc = "batch"
    <3>1. InBatch
      BY <2>1 DEF SkipCall, OfferCall, StartAction, RefuseAction, At
    <3> QED
      BY <1>1, <3>1, InBatchIs
  <2>2. CASE w.pc = "preAction"
    <3>1. AtCall(state, "preAction")
      BY <1>1, <2>2, InOpenBatch
    <3> QED
      BY <3>1, AtCallIs
  <2> QED
    BY <1>1, <2>1, <2>2
<1>3. CASE SkipCall \/ RefuseAction
  <2>1. RecordOnly(ActionCompleted(state, Running + 1, NextCall, "skipped"),
                   [w EXCEPT !.pc = "postAction"], tickets) /\ OthersTyped
    BY <1>3, OthersKeepType DEF SkipCall, RefuseAction, Record, RecordAndTell, CallsInv
  <2> QED
    BY <1>1, <1>2, <2>1, ActionJoinsSound
<1>4. CASE StartAction
  <2>1. RecordOnly(ActionStarted(state, NextCall), [w EXCEPT !.pc = "tool"], tickets)
    BY <1>4 DEF StartAction
  <2>2. OthersTyped
    BY <1>4 DEF StartAction, OthersTyped, CallsInv, TypeOK
  <2> QED
    BY <1>1, <1>2, <2>1, <2>2, ActionJoinsSound
<1>5. CASE OfferCall
  <2> DEFINE v == [w EXCEPT !.pc = "preAction"]
  <2>1. w \in Workers /\ w.pc = "batch" /\ AtCall(state, "batch")
    BY <1>1, <1>5, InOpenBatch DEF OfferCall, At
  <2>2. v \in Workers /\ v.pc = "preAction" /\ v.entry = w.entry
    BY <2>1 DEF Workers, PCs, Awaits
  <2>3. AtCall(state, "preAction")
    <3> "batch" # "tool" /\ "preAction" # "tool" /\ "preAction" \notin {"tool", "postAction"}
      OBVIOUS
    <3> QED
      BY <1>2, <2>1, AtCallIs
  <2>4. Step(v)
    BY <1>5 DEF OfferCall
  <2> HIDE DEF v
  <2>5. v.pc \in BatchPCs
    BY <2>2 DEF BatchPCs
  <2> QED
    BY <1>1, <2>2, <2>3, <2>4, <2>5, BatchMove
<1> QED
  BY <1>3, <1>4, <1>5

\* The tool returns, or is interrupted.
LEMMA ToolCalls ==
  ASSUME CallsInv, ToolReturns \/ ToolInterrupted
  PROVE  Sound
<1> DEFINE last == Len(state.actions)
<1>1. ~poisoned /\ w.pc = "tool" /\ w.pc \in BatchPCs
  BY DEF ToolReturns, ToolInterrupted, At, BatchPCs
<1>2. Sane(state) /\ HasBatch(state.messages) /\ AtCall(state, "tool") /\ w \in Workers
      /\ tickets \in [Requests -> TicketStates]
  BY <1>1, InOpenBatch
<1>3. last \in 1 .. Len(state.actions) /\ state.actions[last].result = "none" /\ Running = last
      /\ last # 0
  <2>1. ActionsInBatch \in 1 .. ActionsInBatch /\ Place(ActionsInBatch) = last
    BY <1>2, BatchNumbers, AtCallIs DEF Place
  <2>2. state.actions[Place(ActionsInBatch)].result = "none"
    BY <1>2, <2>1, AtCallIs
  <2>3. Place(ActionsInBatch) \in 1 .. Len(state.actions)
    BY <1>2, <2>1, BatchNumbers
  <2> QED
    BY <2>1, <2>2, <2>3 DEF Running
<1>4. ASSUME NEW next, NEW r \in {"returned", "unknown"}, NEW v \in Workers,
             \/ next = ActionCompleted(state, Running, RunningCall, r)
             \/ next = JobAccepted(state, Running, RunningCall) /\ r = "returned",
             v.pc = "postAction", v.entry = w.entry,
             RecordOnly(next, v, tickets), OthersTyped
      PROVE  Sound
  <2>1. /\ Sane(next) /\ next.messages = state.messages /\ next.actions = Ended(state.actions, last, r)
        /\ next.currentTurn = state.currentTurn
    <3>1. CASE next = ActionCompleted(state, Running, RunningCall, r)
      <4>1. next = ActionCompleted(state, last, RunningCall, r)
        BY <1>3, <3>1
      <4> QED
        BY <1>2, <1>3, <4>1, FinishedEvents, Zenon
    <3>2. CASE next = JobAccepted(state, Running, RunningCall) /\ r = "returned"
      <4>1. next = JobAccepted(state, last, RunningCall) /\ "returned" \in {"returned", "unknown"}
        BY <1>3, <3>2
      <4>2. /\ Sane(next) /\ next.messages = state.messages
            /\ next.actions = Ended(state.actions, last, "returned")
            /\ next.currentTurn = state.currentTurn
        BY <1>2, <1>3, <4>1, FinishedEvents, Zenon
      <4> QED
        BY <3>2, <4>2, Zenon
    <3> QED
      BY <1>4, <3>1, <3>2
  <2>2. r \in Results \ {"none"}
    BY DEF Results
  <2>3. AtCall(next, "postAction")
    BY <1>2, <2>1, <2>2, ActionFinished
  <2>4. v.pc \in BatchPCs
    BY <1>4 DEF BatchPCs
  <2>5. CallsInv' /\ state' \in {state, next}
    BY <1>1, <1>4, <2>1, <2>3, <2>4, BatchRecord
  <2>6. CASE state' = state
    BY <2>5, <2>6, UntouchedSound
  <2>7. CASE state' = next
    <3>1. ActionEnds
      BY <1>2, <1>3, <2>1, <2>2, <2>7 DEF ActionEnds
    <3> QED
      BY <2>5, <3>1 DEF Sound, CallsChange
  <2> QED
    BY <2>5, <2>6, <2>7
<1> DEFINE v == [w EXCEPT !.pc = "postAction"]
           u == [w EXCEPT !.pc = "postAction", !.hit = FALSE]
<1>5. /\ v \in Workers /\ v.pc = "postAction" /\ v.entry = w.entry
      /\ u \in Workers /\ u.pc = "postAction" /\ u.entry = w.entry
  BY <1>2 DEF Workers, PCs, Awaits
<1>6. CASE ToolReturns
  <2>1. OthersTyped
    <3>1. Len(state.jobs) + 1 \in Nat
      BY <1>2, StateHas, LenProperties DEF Sane
    <3> QED
      BY <1>6, <3>1 DEF ToolReturns, OthersTyped, Dispatch, CallsInv, TypeOK
  <2>2. \/ RecordOnly(JobAccepted(state, Running, RunningCall), v, tickets)
        \/ RecordOnly(ActionCompleted(state, Running, RunningCall, "returned"), v, tickets)
    BY <1>6 DEF ToolReturns
  <2> HIDE DEF v, last
  <2> QED
    BY <1>4, <1>5, <2>1, <2>2
<1>7. CASE ToolInterrupted
  <2>1. OthersTyped
    BY <1>7 DEF ToolInterrupted, OthersTyped, CallsInv, TypeOK
  <2>2. RecordOnly(ActionCompleted(state, Running, RunningCall, "unknown"), u, tickets)
    BY <1>7 DEF ToolInterrupted
  <2> HIDE DEF u, last
  <2> QED
    BY <1>4, <1>5, <2>1, <2>2
<1> QED
  BY <1>6, <1>7

\* Between the calls.
LEMMA BetweenCalls ==
  ASSUME CallsInv, PostAssistant \/ PostAction
  PROVE  Sound
<1> DEFINE v == [w EXCEPT !.pc = "batch"]
<1>1. ~poisoned /\ w.pc \in {"postAssistant", "postAction"} /\ w.pc \in BatchPCs
  BY DEF PostAssistant, PostAction, At, BatchPCs
<1>2. AtCall(state, w.pc) /\ w \in Workers /\ InTurn(w) /\ w.pc # "closeBatch"
  BY <1>1, InOpenBatch
<1>3. CASE Step(v)
  <2>1. v \in Workers /\ v.pc = "batch" /\ v.entry = w.entry
    BY <1>2 DEF Workers, PCs
  <2>2. AtCall(state, "batch")
    BY <1>1, <1>2, AtCallIs
  <2> HIDE DEF v
  <2>3. v.pc \in BatchPCs
    BY <2>1 DEF BatchPCs
  <2> QED
    BY <1>1, <1>3, <2>1, <2>2, <2>3, BatchMove
<1>4. CASE Throw("failed")
  BY <1>1, <1>2, <1>4, ThrowSound DEF Outcomes
<1> QED
  BY <1>3, <1>4 DEF PostAssistant, PostAction

\* The post hook fails and the diagnostic too: the log is broken, and poisoned.
LEMMA PostActionFailsCalls ==
  ASSUME CallsInv, PostActionFails
  PROVE  Sound
<1>1. /\ ~poisoned /\ w.pc = "postAction" /\ w.pc \in BatchPCs /\ "diagnostic" \in May
      /\ state' = ActionCompleted(state, Running, RunningCall, "skipped")
      /\ poisoned' = TRUE /\ w' = NoWorker /\ tickets' = Broken
      /\ UNCHANGED <<life, faults, Others>>
  BY DEF PostActionFails, At, BatchPCs
<1>2. /\ Sane(state) /\ HasBatch(state.messages) /\ AtCall(state, "postAction")
      /\ life \in {"open", "closing"} /\ state \in States
  BY <1>1, InOpenBatch DEF Sane
<1>3. Running \in DOMAIN state.actions /\ state.actions[Running].result # "none"
  <2>1. /\ ActionsInBatch \in 1 .. ActionsInBatch /\ Place(ActionsInBatch) = Running
        /\ Place(ActionsInBatch) \in DOMAIN state.actions
    BY <1>2, BatchNumbers, AtCallIs DEF Place, Running
  <2>2. state.actions[Place(ActionsInBatch)].result # "none"
    <3> "postAction" # "tool"
      OBVIOUS
    <3> QED
      BY <1>2, <2>1, AtCallIs
  <2> QED
    BY <2>1, <2>2
<1>4. state' = [state EXCEPT !.replayable = FALSE]
  BY <1>1, <1>3 DEF ActionCompleted
<1>5. /\ state' \in States /\ state'.messages = state.messages
      /\ state'.actions = state.actions /\ state'.jobs = state.jobs
      /\ state'.notifications = state.notifications
      /\ state'.currentTurn = state.currentTurn
  BY <1>2, <1>4 DEF States
<1>6. Sane(state')
  BY <1>1, <1>2, <1>5 DEF Sane
<1>7. TypeOK'
  BY <1>1, <1>5, BrokenAnswersNone, NoWorkerIsWorker DEF CallsInv, TypeOK, Others
<1>8. Lifecycle'
  BY <1>1, <1>2, IdleFits DEF Lifecycle, Up
<1>9. Untouched
  BY <1>5 DEF Untouched
<1> QED
  BY <1>6, <1>7, <1>8, <1>9 DEF CallsInv, Sound, CallsChange

\* The batch gets its results.
LEMMA CommitCalls ==
  ASSUME CallsInv, CommitBatch
  PROVE  Sound
<1> DEFINE shown == [k \in DOMAIN BatchCalls |-> LastOf(state.messages).number + k]
           next == ToolsCommitted(state, BatchCalls, shown)
           v == IF cancel THEN Thrown(Interruption) ELSE [w EXCEPT !.pc = "postStep"]
<1>1. ~poisoned /\ w.pc = "batch" /\ w.pc \in BatchPCs /\ ~InBatch
  BY DEF CommitBatch, At, BatchPCs
<1>2. /\ Sane(state) /\ HasBatch(state.messages) /\ AtCall(state, "batch") /\ w \in Workers
      /\ InTurn(w) /\ w.entry \in Requests /\ w.pc # "closeBatch" /\ state.currentTurn # 0
      /\ Batch = LastOf(state.messages) /\ tickets \in [Requests -> TicketStates]
      /\ life # "down" /\ life # "recovering"
  BY <1>1, InOpenBatch
<1>3. /\ ActionsInBatch = Len(BatchCalls)
      /\ \A k \in 1 .. ActionsInBatch : state.actions[Place(k)].result # "none"
  <2>1. ActionsInBatch \in 0 .. Len(BatchCalls) /\ Len(BatchCalls) \in Nat
    BY <1>2, BatchNumbers
  <2>2. ~(ActionsInBatch < Len(BatchCalls))
    BY <1>1, InBatchIs
  <2>3. \A k \in 1 .. ActionsInBatch : state.actions[Place(k)].result # "none"
    <3> "batch" # "tool"
      OBVIOUS
    <3> QED
      BY <1>2, AtCallIs
  <2> QED
    BY <2>1, <2>2, <2>3
<1>4. shown \in [DOMAIN BatchCalls -> Nat]
  BY <1>2, BatchNumbers
<1>5. \A k \in DOMAIN BatchCalls : shown[k] = Place(k)
  BY DEF Place
<1>6. RecordAndTell(next, v, tickets)
  BY <1>2 DEF CommitBatch, Record, BatchCalls
<1> HIDE DEF shown
<1>7. /\ Sane(next) /\ ~HasBatch(next.messages)
      /\ next.messages = state.messages \o
           [k \in DOMAIN BatchCalls |-> ToolMessage(state.currentTurn, BatchCalls[k], shown[k])]
      /\ next.actions = state.actions /\ next.currentTurn = state.currentTurn
  BY <1>2, <1>4, ToolsEvent DEF BatchCalls
<1>8. v \in Workers /\ v.entry = w.entry /\ v.pc \in {"unwind", "postStep"}
  <2>1. Thrown(Interruption) \in Workers /\ Thrown(Interruption).entry = w.entry
        /\ Thrown(Interruption).pc = "unwind"
    BY <1>1, <1>2, ThrowCallsStep, InterruptionIsOutcome DEF Thrown, Workers
  <2>2. [w EXCEPT !.pc = "postStep"] \in Workers /\ [w EXCEPT !.pc = "postStep"].entry = w.entry
        /\ [w EXCEPT !.pc = "postStep"].pc = "postStep"
    BY <1>2 DEF Workers, PCs, Awaits
  <2> QED
    BY <2>1, <2>2
<1> HIDE DEF next, v
<1>9. Fitting(next, v)
  <2>1. Shaped(v) /\ v.pc \notin BatchPCs
    BY <1>2, <1>8 DEF Shaped, BatchPCs, CompactPCs
  <2> QED
    BY <1>2, <1>7, <2>1, OutsideFits
<1>10. CallsInv' /\ state' \in {state, next}
  BY <1>1, <1>2, <1>6, <1>7, <1>8, <1>9, RecordStep
<1>11. CASE state' = state
  BY <1>10, <1>11, UntouchedSound
<1>12. CASE state' = next
  <2>1. ResultsJoin
    BY <1>2, <1>3, <1>4, <1>5, <1>7, <1>12 DEF ResultsJoin
  <2> QED
    BY <1>10, <2>1 DEF Sound, CallsChange
<1> QED
  BY <1>10, <1>11, <1>12

-------------------------------------------------------------------------------
(* _manual_compact and _compact_now.                                       *)

\* Where the worker is while it compacts.
LEMMA AtCompaction ==
  ASSUME CallsInv, ~poisoned, w.pc \in CompactPCs
  PROVE  /\ w.pc \notin BatchPCs \cup {"none", "closeBatch", "unwind"}
         /\ w \in Workers /\ Shaped(w) /\ w.entry \in Requests
         /\ w.site \in {"head", "tail", "budget", "top"}
         /\ w.site # "top" => InTurn(w) /\ state.currentTurn # 0
         /\ ~HasBatch(state.messages) /\ Sane(state)
         /\ life \in {"open", "closing"} /\ life # "down" /\ life # "recovering"
<1>1. w.pc \notin BatchPCs \cup {"none", "closeBatch", "unwind"}
      /\ w.pc \notin {"none", "closeBatch", "ready", "drain", "postTurn"}
  BY DEF CompactPCs, BatchPCs
<1>2. Shaped(w) /\ Placed(state, w) /\ w \in Workers /\ Sane(state)
      /\ life \in {"open", "closing"} /\ life # "down" /\ life # "recovering"
  BY <1>1, Working
<1>3. w.site \in {"head", "tail", "budget", "top"} /\ w.entry \in Requests
  BY <1>1, <1>2 DEF Shaped
<1>4. w.site # "top" => InTurn(w)
  BY DEF InTurn
<1> QED
  BY <1>1, <1>2, <1>3, <1>4 DEF Placed

\* From one place of a compaction to another.
LEMMA CompactionMoves ==
  ASSUME CallsInv, ~poisoned, w.pc \in CompactPCs, NEW pc \in CompactPCs
  PROVE  LET v == [w EXCEPT !.pc = pc]
         IN  /\ v \in Workers /\ Shaped(v) /\ v.pc \notin BatchPCs
             /\ InTurn(v) => state.currentTurn # 0
<1> DEFINE v == [w EXCEPT !.pc = pc]
<1>1. w \in Workers /\ Shaped(w) /\ w.site # "top" => state.currentTurn # 0
  BY AtCompaction
<1>2. /\ w \in Workers /\ Shaped(w) /\ w.entry \in Requests
      /\ w.site \in {"head", "tail", "budget", "top"}
  BY AtCompaction
<1>3. pc \in PCs
  BY DEF CompactPCs, PCs, Awaits, Active
<1>4. /\ v \in Workers /\ v.pc = pc /\ v.site = w.site /\ v.entry = w.entry
      /\ v.arrivals = w.arrivals
  BY <1>2, <1>3 DEF Workers
<1> HIDE DEF v
<1>5. pc \notin TurnPCs /\ pc \notin BatchPCs
      /\ pc \notin {"preTurn", "preUser", "postUser", "boundary", "arrivals"}
      /\ pc \notin {"none", "ready", "drain", "postTurn"}
  BY DEF CompactPCs, TurnPCs, BatchPCs
<1>6. Shaped(v)
  BY <1>2, <1>4, <1>5 DEF Shaped
<1>7. InTurn(v) => state.currentTurn # 0
  BY <1>4, <1>5, AtCompaction DEF InTurn
<1> QED
  BY <1>4, <1>5, <1>6, <1>7 DEF v

\* The compaction that a client asked for gets its outcome.
LEMMA FinishCompactCalls ==
  ASSUME CallsInv, ~poisoned, w.pc \in CompactPCs, w.site # "budget",
         NEW outcome \in Outcomes, FinishCompact(outcome)
  PROVE  Sound
<1>1. CASE w.site = "top"
  <2> DEFINE next == InputFinished(state, Current, outcome)
             told == Resolve({Current}, outcome)
             v == [NoWorker EXCEPT !.pc = "drain"]
  <2>1. RecordAndTell(next, v, told)
    BY <1>1 DEF FinishCompact
  <2>2. Current \in Requests
    BY CurrentIsRequest
  <2>3. Sane(state) /\ TypeOK
    BY AtCompaction DEF CallsInv
  <2>4. SameCalls(state, next) /\ Sane(next)
    <3>1. 0 \in Nat
      OBVIOUS
    <3> QED
      BY <2>2, <2>3, <3>1, RequestEvents
  <2>5. told \in [Requests -> TicketStates]
    BY <2>3, TicketsTyped
  <2>6. v \in Workers /\ v.pc = "drain" /\ v.timer = "off"
    BY NoWorkerIsWorker DEF NoWorker, Workers, PCs
  <2> HIDE DEF next, told, v
  <2>7. Shaped(v) /\ v.pc \notin BatchPCs /\ ~InTurn(v)
    BY <2>6 DEF Shaped, BatchPCs, CompactPCs, InTurn, TurnPCs
  <2> QED
    BY <2>1, <2>4, <2>5, <2>6, <2>7, AtCompaction, QuietTelling
<1>2. CASE w.site # "top"
  <2>1. w.site \in {"head", "tail"} /\ w.pc # "budget"
    BY <1>2, AtCompaction DEF CompactPCs
  <2>2. RecordAndTell(InputFinished(state, Current, outcome), NextArrival,
                      Resolve({Current}, outcome))
    BY <1>2 DEF FinishCompact
  <2> QED
    BY <2>1, <2>2, RefuseCalls
<1> QED
  BY <1>1, <1>2

LEMMA CompactEndsCalls ==
  ASSUME CallsInv, ~poisoned, w.pc \in CompactPCs, NEW outcome \in Outcomes,
         CompactReturns \/ CompactRaises(outcome)
  PROVE  Sound
<1>1. "completed" \in Outcomes /\ "failed" \in Outcomes
  BY DEF Outcomes
<1>2. CASE w.site # "budget"
  BY <1>1, <1>2, FinishCompactCalls DEF CompactReturns, CompactRaises
<1>3. CASE w.site = "budget" /\ CompactReturns
  <2> DEFINE v == [w EXCEPT !.pc = "fit", !.site = "head"]
  <2>1. Step(v)
    BY <1>3 DEF CompactReturns
  <2>2. w \in Workers /\ w.entry \in Requests /\ state.currentTurn # 0
    BY <1>3, AtCompaction
  <2>3. v \in Workers /\ v.pc = "fit" /\ v.entry = w.entry
    BY <2>2 DEF Workers, PCs, Sites
  <2> HIDE DEF v
  <2>4. Shaped(v) /\ v.pc \notin BatchPCs
    BY <2>2, <2>3 DEF Shaped, BatchPCs, CompactPCs
  <2> QED
    BY <2>1, <2>2, <2>3, <2>4, AtCompaction, QuietMove
<1>4. CASE w.site = "budget" /\ CompactRaises(outcome)
  <2>1. Throw(outcome) /\ InTurn(w) /\ w.pc # "closeBatch"
    BY <1>4, AtCompaction DEF CompactRaises
  <2> QED
    BY <2>1, ThrowSound
<1> QED
  BY <1>2, <1>3, <1>4

LEMMA CompactCalls ==
  ASSUME CallsInv, CompactStep
  PROVE  Sound
<1>1. ~poisoned /\ w.pc \in CompactPCs
  BY DEF CompactStep, StartCompact, CallCompactor, CommitSummary, SummaryFails,
         SummaryInterrupted, PostCompact, At, CompactPCs
<1>2. /\ w.pc \notin BatchPCs \cup {"none", "closeBatch", "unwind"}
      /\ w \in Workers /\ w.site \in {"head", "tail", "budget", "top"}
      /\ w.site # "top" => InTurn(w)
      /\ ~HasBatch(state.messages) /\ Sane(state)
      /\ life \in {"open", "closing"} /\ life # "down" /\ life # "recovering"
  BY <1>1, AtCompaction
<1>3. "limited" \in Outcomes /\ "failed" \in Outcomes /\ Interruption \in Outcomes
  BY InterruptionIsOutcome DEF Outcomes
<1>4. \A o \in Outcomes : CompactReturns \/ CompactRaises(o) => Sound
  BY <1>1, CompactEndsCalls
<1>5. ASSUME NEW pc \in CompactPCs, Log([w EXCEPT !.pc = pc])
      PROVE  Sound
  BY <1>1, <1>2, <1>5, CompactionMoves, QuietLog
<1>6. CASE StartCompact
  <2>1. \/ CompactReturns \/ CompactRaises("limited") \/ Log([w EXCEPT !.pc = "preCompact"])
    BY <1>6 DEF StartCompact
  <2> QED
    BY <1>3, <1>4, <1>5, <2>1 DEF CompactPCs
<1>7. CASE CallCompactor
  <2>1. CompactRaises("failed") \/ Log([w EXCEPT !.pc = "summary"])
    BY <1>7 DEF CallCompactor
  <2> QED
    BY <1>3, <1>4, <1>5, <2>1 DEF CompactPCs
<1>8. CASE SummaryFails \/ PostCompact
  <2>1. CompactReturns \/ CompactRaises("failed")
    BY <1>8 DEF SummaryFails, PostCompact
  <2> QED
    BY <1>3, <1>4, <2>1
<1>9. CASE SummaryInterrupted
  <2>1. CASE w.site = "top"
    <3>1. Die
      BY <1>9, <2>1 DEF SummaryInterrupted
    <3> QED
      BY <1>2, <3>1, DieSound
  <2>2. CASE w.site # "top"
    <3>1. Throw(Interruption) /\ InTurn(w) /\ w.pc # "closeBatch"
      BY <1>2, <1>9, <2>2 DEF SummaryInterrupted
    <3> QED
      BY <1>1, <1>3, <3>1, ThrowSound
  <2> QED
    BY <2>1, <2>2
<1>10. CASE CommitSummary
  <2>1. PICK split \in Splits :
          Record(CompactCommitted(state, split), [w EXCEPT !.pc = "postCompact"])
    BY <1>10 DEF CommitSummary
  <2> DEFINE next == CompactCommitted(state, split)
             v == [w EXCEPT !.pc = "postCompact"]
  <2>2. /\ Sane(next) /\ ~HasBatch(next.messages) /\ split \in 0 .. Len(state.messages)
        /\ split = 0 => state.messages = <<>>
        /\ next.messages = <<UserMessage(0)>>
                             \o SubSeq(state.messages, split + 1, Len(state.messages))
        /\ next.actions = state.actions /\ next.currentTurn = state.currentTurn
    BY <1>2, CompactEvent
  <2>3. /\ v \in Workers /\ Shaped(v) /\ v.pc \notin BatchPCs
        /\ InTurn(v) => state.currentTurn # 0
    <3>1. "postCompact" \in CompactPCs
      BY DEF CompactPCs
    <3> QED
      BY <1>1, <3>1, CompactionMoves
  <2>4. RecordAndTell(next, v, tickets) /\ tickets \in [Requests -> TicketStates]
    BY <2>1 DEF Record, CallsInv, TypeOK
  <2> HIDE DEF next, v
  <2>5. Fitting(next, v)
    BY <2>2, <2>3, OutsideFits
  <2>6. CallsInv' /\ state' \in {state, next}
    BY <1>1, <1>2, <2>2, <2>3, <2>4, <2>5, RecordStep
  <2>7. CASE state' = state
    BY <2>6, <2>7, UntouchedSound
  <2>8. CASE state' = next
    <3>1. Compacts
      BY <1>2, <1>10, <2>2, <2>8 DEF Compacts, CommitSummary, At
    <3> QED
      BY <2>6, <3>1 DEF Sound, CallsChange
  <2> QED
    BY <2>6, <2>7, <2>8
<1> QED
  BY <1>6, <1>7, <1>8, <1>9, <1>10 DEF CompactStep

-------------------------------------------------------------------------------
(* The end of _run_turn, and _recover.                                     *)

\* Where the worker is when it closes a batch.
LEMMA AtClose ==
  ASSUME CallsInv, At("closeBatch")
  PROVE  /\ ~poisoned /\ w.pc = "closeBatch" /\ life # "down" /\ w \in Workers
         /\ Sane(state) /\ TypeOK /\ state \in States
         /\ life = "recovering" => w = Recoverer
         /\ life \in {"open", "closing"} => Shaped(w) /\ w.entry \in Requests
         /\ HasBatch(state.messages) => Open = BatchCalls /\ Open # <<>>
         /\ ~HasBatch(state.messages) => Open = <<>>
<1>1. ~poisoned /\ w.pc = "closeBatch" /\ TypeOK /\ Sane(state) /\ Lifecycle
  BY DEF At, CallsInv
<1>2. life # "down"
  BY <1>1, IdleFits DEF Lifecycle
<1>3. state \in States /\ state.messages \in Seq(Message) /\ Paired(state.messages)
  BY <1>1, StateHas DEF Sane
<1>4. /\ HasBatch(state.messages) => Open = BatchCalls /\ Open # <<>>
      /\ ~HasBatch(state.messages) => Open = <<>>
  BY <1>3, OpenIsLast, NoBatchNoneOpen DEF Open, BatchCalls
<1>5. w \in Workers /\ (life = "recovering" => w = Recoverer)
      /\ (life \in {"open", "closing"} => Shaped(w))
  BY <1>1 DEF TypeOK, Lifecycle
<1>6. life \in {"open", "closing"} => w.entry \in Requests
  BY <1>1, <1>5 DEF Shaped
<1> QED
  BY <1>1, <1>2, <1>3, <1>4, <1>5, <1>6

\* A record that leaves the worker, or start(), where it is.
LEMMA CloseRecord ==
  ASSUME CallsInv, At("closeBatch"), NEW next, Sane(next), Record(next, w)
  PROVE  CallsInv' /\ state' \in {state, next}
<1>1. /\ ~poisoned /\ w.pc = "closeBatch" /\ life # "down" /\ w \in Workers
      /\ life = "recovering" => w = Recoverer
      /\ life \in {"open", "closing"} => Shaped(w)
      /\ RecordAndTell(next, w, tickets) /\ tickets \in [Requests -> TicketStates]
  BY AtClose DEF Record, TypeOK
<1>2. Placed(next, w) /\ w.pc # "none"
  BY <1>1 DEF Placed, BatchPCs
<1> QED
  BY <1>1, <1>2, RecordStep DEF Fitting

\* The first action of a call.
LEMMA FirstAction ==
  ASSUME state.actions \in Seq(Action), NEW call
  PROVE  LET mine == {a \in 1 .. Len(state.actions) : state.actions[a].call = call}
         IN  IF mine = {} THEN ActionOf(call) = 0
                          ELSE /\ ActionOf(call) \in mine /\ ActionOf(call) # 0
                               /\ \A a \in mine : ActionOf(call) <= a
<1> DEFINE mine == {a \in 1 .. Len(state.actions) : state.actions[a].call = call}
<1>1. DOMAIN state.actions = 1 .. Len(state.actions) /\ Len(state.actions) \in Nat
  BY LenProperties
<1>2. ActionOf(call) = IF mine = {} THEN 0 ELSE CHOOSE a \in mine : \A b \in mine : a <= b
  BY <1>1 DEF ActionOf
<1>3. mine # {} => \E a \in mine : \A b \in mine : a <= b
  <2>1. mine \subseteq Nat
    BY <1>1
  <2> HIDE DEF mine
  <2> QED
    BY <2>1, LeastNumber
<1>4. 0 \notin mine
  BY <1>1
<1> HIDE DEF mine
<1>5. mine # {} => ActionOf(call) \in mine /\ \A a \in mine : ActionOf(call) <= a
  BY <1>2, <1>3
<1> QED
  BY <1>2, <1>4, <1>5 DEF mine

LEMMA CloseCallSound ==
  ASSUME CallsInv, CloseCall
  PROVE  Sound
<1> DEFINE first == CHOOSE k \in Unsettled : \A l \in Unsettled : k <= l
           call == Open[first]
           a == ActionOf(call)
           skipped == ActionCompleted(state, Running + 1, call, "skipped")
           unknown == ActionCompleted(state, a, call, "unknown")
<1>1. At("closeBatch") /\ Unsettled # {}
      /\ IF a = 0 THEN Record(skipped, w) ELSE Record(unknown, w)
  BY DEF CloseCall
<1>2. Sane(state) /\ state.actions \in Seq(Action) /\ state.messages \in Seq(Message)
  BY <1>1, AtClose, StateHas
<1>3. HasBatch(state.messages) /\ Open = BatchCalls
  <2>1. CASE ~HasBatch(state.messages)
    <3>1. Open = <<>>
      BY <1>1, <2>1, AtClose
    <3> QED
      BY <1>1, <3>1 DEF Unsettled
  <2> QED
    BY <1>1, <2>1, AtClose
<1>4. first \in Unsettled /\ first \in DOMAIN Open /\ call \in CallIds
  <2>1. BatchCalls \in Seq(CallIds)
    <3>1. Len(state.messages) \in 1 .. Len(state.messages)
      BY <1>2, <1>3, MessageHas DEF HasBatch
    <3> QED
      BY <1>2, <3>1, MessageHas DEF BatchCalls, LastOf
  <2>2. Unsettled \subseteq DOMAIN Open /\ DOMAIN Open = 1 .. Len(Open) /\ Len(Open) \in Nat
    BY <1>3, <2>1, LenProperties DEF Unsettled
  <2>3. Unsettled \subseteq Nat
    BY <2>2
  <2>4. \E k \in Unsettled : \A l \in Unsettled : k <= l
    BY <1>1, <2>3, LeastNumber
  <2>5. first \in Unsettled
    BY <2>4
  <2> HIDE DEF first
  <2> QED
    BY <1>3, <2>1, <2>2, <2>5, ElementOfSeq
<1>5. ~Settled(call)
  BY <1>4 DEF Unsettled
<1> HIDE DEF first
<1>6. CASE a = 0
  <2>1. /\ Sane(skipped) /\ skipped.messages = state.messages
        /\ skipped.actions = Append(state.actions, [call |-> call, started |-> FALSE,
                                                    result |-> "skipped"])
    <3> HIDE DEF call
    <3> QED
      BY <1>2, <1>4, NewActionEvents DEF Running
  <2> HIDE DEF skipped
  <2>2. CallsInv' /\ state' \in {state, skipped}
    BY <1>1, <1>6, <2>1, CloseRecord
  <2>3. CASE state' = state
    BY <2>2, <2>3, UntouchedSound
  <2>4. CASE state' = skipped
    <3>1. CallCloses
      BY <1>1, <1>3, <1>6, <2>1, <2>4 DEF CallCloses, first
    <3> QED
      BY <2>2, <3>1 DEF Sound, CallsChange
  <2> QED
    BY <2>2, <2>3, <2>4
<1>7. CASE a # 0
  <2>1. a \in 1 .. Len(state.actions)
    <3> HIDE DEF call
    <3> QED
      BY <1>2, <1>7, FirstAction
  <2>2. state.actions[a].result = "none"
    BY <1>5, <1>7 DEF Settled
  <2>3. /\ Sane(unknown) /\ unknown.messages = state.messages
        /\ unknown.actions = Ended(state.actions, a, "unknown")
    <3>1. "unknown" \in {"returned", "unknown"}
      OBVIOUS
    <3> HIDE DEF a, call
    <3> QED
      BY <1>2, <2>1, <2>2, <3>1, FinishedEvents, Zenon
  <2> HIDE DEF unknown
  <2>4. CallsInv' /\ state' \in {state, unknown}
    BY <1>1, <1>7, <2>3, CloseRecord
  <2>5. CASE state' = state
    BY <2>4, <2>5, UntouchedSound
  <2>6. CASE state' = unknown
    <3>1. CallCloses
      BY <1>1, <1>3, <1>7, <2>3, <2>6 DEF CallCloses, first
    <3> QED
      BY <2>4, <3>1 DEF Sound, CallsChange
  <2> QED
    BY <2>4, <2>5, <2>6
<1> QED
  BY <1>6, <1>7

LEMMA CommitClosedSound ==
  ASSUME CallsInv, CommitClosed
  PROVE  Sound
<1> DEFINE shown == [k \in DOMAIN BatchCalls |-> ActionOf(BatchCalls[k])]
           next == ToolsCommitted(state, BatchCalls, shown)
<1>1. At("closeBatch") /\ Open # <<>> /\ Unsettled = {}
  BY DEF CommitClosed
<1>2. Sane(state) /\ HasBatch(state.messages) /\ Open = BatchCalls
      /\ state.actions \in Seq(Action)
  BY <1>1, AtClose, StateHas
<1>3. Record(next, w)
  BY <1>2 DEF CommitClosed
<1>4. shown \in [DOMAIN BatchCalls -> Nat]
  <2>1. Len(state.actions) \in Nat
    BY <1>2, LenProperties
  <2>2. ASSUME NEW call
        PROVE  ActionOf(call) \in Nat
    <3>1. ActionOf(call) = 0 \/ ActionOf(call) \in 1 .. Len(state.actions)
      BY <1>2, FirstAction
    <3> QED
      BY <2>1, <3>1
  <2> QED
    BY <2>2
<1>5. \A k \in DOMAIN BatchCalls : Settled(BatchCalls[k])
  BY <1>1, <1>2 DEF Unsettled
<1>6. \A k \in DOMAIN BatchCalls : shown[k] = ActionOf(BatchCalls[k])
  OBVIOUS
<1> HIDE DEF shown
<1>7. /\ Sane(next) /\ next.actions = state.actions
      /\ next.messages = state.messages \o
           [k \in DOMAIN BatchCalls |-> ToolMessage(state.currentTurn, BatchCalls[k], shown[k])]
  BY <1>2, <1>4, ToolsEvent DEF BatchCalls
<1> HIDE DEF next
<1>8. CallsInv' /\ state' \in {state, next}
  BY <1>1, <1>3, <1>7, CloseRecord
<1>9. CASE state' = state
  BY <1>8, <1>9, UntouchedSound
<1>10. CASE state' = next
  <2>1. ResultsJoin
    BY <1>2, <1>4, <1>5, <1>6, <1>7, <1>10 DEF ResultsJoin
  <2> QED
    BY <1>8, <2>1 DEF Sound, CallsChange
<1> QED
  BY <1>8, <1>9, <1>10

LEMMA EndCalls ==
  ASSUME CallsInv, RejectEntry \/ EndTurn \/ RecoverTurn \/ RecoverJob
  PROVE  Sound
<1>1. At("closeBatch") /\ Open = <<>>
  BY DEF RejectEntry, EndTurn, RecoverTurn, RecoverJob, Recovered
<1>2. /\ ~poisoned /\ w.pc = "closeBatch" /\ life # "down" /\ w \in Workers /\ Sane(state)
      /\ TypeOK /\ state \in States /\ ~HasBatch(state.messages)
      /\ life \in {"open", "closing"} => w.entry \in Requests
      /\ w.status \in Outcomes
  BY <1>1, AtClose DEF Workers
<1>3. ASSUME NEW next, SameCalls(state, next), Sane(next), Record(next, w)
      PROVE  Sound
  BY <1>1, <1>3, CloseRecord, UntouchedSound DEF SameCalls
<1>4. CASE RejectEntry
  <2>1. w.entry \in Requests /\ 0 \in Nat
    BY <1>4 DEF RejectEntry, Queue
  <2>2. Record(InputFinished(state, w.entry, w.status), w)
    BY <1>4 DEF RejectEntry
  <2> QED
    BY <1>2, <1>3, <2>1, <2>2, RequestEvents
<1>5. CASE RecoverTurn
  <2> DEFINE next == TurnEnded(state, "interrupted")
  <2>1. Record(next, w)
    BY <1>5 DEF RecoverTurn
  <2>2. SameCalls(state, next) /\ Sane(next)
    <3>1. /\ next.messages = state.messages /\ next.actions = state.actions
          /\ next.jobs = state.jobs /\ next.notifications = state.notifications
          /\ next.replayable = state.replayable /\ next \in States
      <4>1. [q \in Requests |-> IF q \in state.turnRequests THEN "interrupted"
                                                            ELSE state.requests[q]]
              \in [Requests -> Statuses]
        BY <1>2 DEF States, Statuses, Outcomes
      <4> QED
        BY <1>2, <4>1 DEF TurnEnded, States
    <3>2. SameCalls(state, next)
      BY <3>1 DEF SameCalls
    <3> HIDE DEF next
    <3> QED
      BY <1>2, <3>2, SameCallsSane
  <2> QED
    BY <1>3, <2>1, <2>2
<1>6. CASE RecoverJob
  <2> DEFINE job == CHOOSE j \in LostJobs : \A k \in LostJobs : j <= k
             next == JobCompleted(state, job, "unknown")
  <2>1. Record(next, w) /\ LostJobs # {}
    BY <1>6 DEF RecoverJob
  <2>2. job \in LostJobs /\ job \in Nat
    <3>1. state.jobs \in Seq(JobStatuses)
      BY <1>2, StateHas
    <3>2. LostJobs \subseteq Nat
      BY <3>1, LenProperties DEF LostJobs
    <3>3. \E j \in LostJobs : \A k \in LostJobs : j <= k
      BY <2>1, <3>2, LeastNumber
    <3> QED
      BY <3>2, <3>3
  <2> HIDE DEF job
  <2>3. Sane(next) /\ next.messages = state.messages /\ next.actions = state.actions
    BY <1>2, <2>2, JobEvent DEF JobStatuses
  <2> HIDE DEF next
  <2> QED
    BY <1>1, <2>1, <2>3, CloseRecord, UntouchedSound
<1>7. CASE EndTurn
  <2> DEFINE next == TurnEnded(state, w.status)
             owed == {w.entry} \cup state.turnRequests
             ready == [NoWorker EXCEPT !.pc = "ready"]
             post == [NoWorker EXCEPT !.pc = "postTurn", !.status = w.status, !.owed = owed]
  <2>1. life # "recovering" /\ life \in {"open", "closing"}
    BY <1>2, <1>7 DEF EndTurn, TypeOK
  <2>2. owed \subseteq Requests
    BY <1>2, <2>1, StateHas
  <2>3. \/ RecordAndTell(next, post, tickets)
        \/ RecordAndTell(next, ready, Resolve(owed, w.status))
    BY <1>7 DEF EndTurn, Record
  <2>4. SameCalls(state, next) /\ Sane(next)
    BY <1>2, <2>1, RequestEvents
  <2>5. ready \in Workers /\ ready.pc = "ready" /\ ready.timer = "off"
    BY NoWorkerIsWorker DEF NoWorker, Workers, PCs, Awaits
  <2>6. post \in Workers /\ post.pc = "postTurn" /\ post.timer = "off"
    BY <1>2, <2>2, NoWorkerIsWorker DEF NoWorker, Workers, PCs, Awaits
  <2>7. tickets \in [Requests -> TicketStates]
        /\ Resolve(owed, w.status) \in [Requests -> TicketStates]
    BY <1>2, TicketsTyped
  <2> HIDE DEF next, owed, ready, post
  <2>8. \A v \in {ready, post} : Shaped(v) /\ v.pc \notin BatchPCs /\ ~InTurn(v)
    BY <2>5, <2>6 DEF Shaped, BatchPCs, CompactPCs, InTurn, TurnPCs
  <2>9. \A v \in {ready, post} : Fitting(next, v)
    BY <1>2, <2>4, <2>8, OutsideFits DEF SameCalls
  <2>10. CallsInv' /\ state' \in {state, next}
    BY <1>2, <2>1, <2>3, <2>4, <2>5, <2>6, <2>7, <2>9, RecordStep
  <2> QED
    BY <2>4, <2>10, UntouchedSound DEF SameCalls
<1> QED
  BY <1>4, <1>5, <1>6, <1>7

LEMMA UnwindCalls ==
  ASSUME CallsInv, Unwind
  PROVE  Sound
<1>1. ~poisoned /\ w.pc = "unwind"
  BY DEF Unwind, At
<1>2. w \in Workers /\ Shaped(w) /\ life \in {"open", "closing"}
  BY <1>1, Working
<1>3. PICK v \in {[w EXCEPT !.pc = "closeBatch", !.timer = "off"],
                  [w EXCEPT !.pc = "closeBatch", !.timer = "off", !.status = "failed"]} : Step(v)
  BY DEF Unwind
<1>4. v \in Workers /\ v.pc = "closeBatch" /\ v.entry = w.entry
  BY <1>2 DEF Workers, PCs, Outcomes
<1>5. w.entry \in Requests
  BY <1>1, <1>2 DEF Shaped
<1>6. Fitting(state, v)
  BY <1>4, <1>5 DEF Fitting, Shaped, Placed, BatchPCs, CompactPCs
<1> QED
  BY <1>2, <1>3, <1>4, <1>6, PlainCallsStep, UntouchedSound

\* The flags and tickets change, and the worker moves to a place that fits.
LEMMA IdleMove ==
  ASSUME CallsInv, NEW v \in Workers, w' = v, tickets' \in [Requests -> TicketStates],
         UNCHANGED <<state, poisoned, faults>>, OthersTyped,
         life \in {"open", "closing"}, life' \in {"open", "closing"}, Fitting(state, v)
  PROVE  Sound
<1>1. TypeOK'
  BY DEF CallsInv, TypeOK, OthersTyped
<1>2. Lifecycle'
  BY DEF Lifecycle, Fitting, Up
<1>3. Sane(state') /\ state' = state
  BY DEF CallsInv
<1> QED
  BY <1>1, <1>2, <1>3, UntouchedSound DEF CallsInv

\* The end of a turn, a worker that dies, a timeout.
LEMMA LeaveCalls ==
  ASSUME CallsInv, PostTurn \/ PostTurnFails \/ StopPoisoned \/ TurnTimesOut
  PROVE  Sound
<1>1. TypeOK /\ Lifecycle /\ w \in Workers /\ state \in States
  BY DEF CallsInv, TypeOK
<1>2. w.pc \notin {"none", "closeBatch"} => life \in {"open", "closing"}
  BY <1>1, IdleFits DEF Lifecycle, TypeOK
<1>3. life \in {"open", "closing"} => Shaped(w) /\ Placed(state, w)
  BY <1>1 DEF Lifecycle
<1>4. CASE PostTurn
  <2> DEFINE v == [NoWorker EXCEPT !.pc = "ready"]
  <2>1. w.pc = "postTurn" /\ w' = v /\ tickets' = Resolve(w.owed, w.status)
        /\ UNCHANGED <<state, life, poisoned, faults, Others>>
    BY <1>4 DEF PostTurn
  <2>2. v \in Workers /\ v.pc = "ready" /\ v.timer = "off"
    BY NoWorkerIsWorker DEF NoWorker, Workers, PCs, Awaits
  <2>3. tickets' \in [Requests -> TicketStates]
    <3>1. w.status \in Outcomes
      BY <1>1 DEF Workers
    <3> QED
      BY <1>1, <2>1, <3>1, TicketsTyped
  <2>4. OthersTyped
    BY <1>1, <2>1, OthersKeepType
  <2> HIDE DEF v
  <2>5. Shaped(v) /\ v.pc \notin BatchPCs /\ ~InTurn(v)
    BY <2>2 DEF Shaped, BatchPCs, CompactPCs, InTurn, TurnPCs
  <2>6. ~HasBatch(state.messages)
    BY <1>2, <1>3, <2>1 DEF Placed, BatchPCs
  <2>7. Fitting(state, v)
    BY <2>5, <2>6, OutsideFits
  <2> QED
    BY <1>2, <2>1, <2>2, <2>3, <2>4, <2>7, IdleMove
<1>5. CASE PostTurnFails
  <2>1. w.pc = "postTurn" /\ Die
    BY <1>5 DEF PostTurnFails, At
  <2>2. ~HasBatch(state.messages) /\ life # "recovering"
    BY <1>2, <1>3, <2>1 DEF Placed, BatchPCs
  <2> QED
    BY <2>1, <2>2, DieSound
<1>6. CASE StopPoisoned
  <2>1. poisoned /\ Die /\ life # "recovering"
    BY <1>1, <1>6 DEF StopPoisoned, Lifecycle
  <2> QED
    BY <2>1, DieSound
<1>7. CASE TurnTimesOut
  <2>1. ~poisoned /\ w.timer = "on" /\ w.pc \in Awaits
        /\ IF w.pc \in Active THEN Step([w EXCEPT !.timer = "fired", !.hit = TRUE])
                              ELSE Step([Thrown("limited") EXCEPT !.timer = "fired"])
    BY <1>7 DEF TurnTimesOut
  <2>2. w.pc \notin {"none", "closeBatch"} /\ life \in {"open", "closing"}
    BY <1>2, <2>1 DEF Awaits, Active
  <2>3. w.entry \in Requests /\ w.pc \notin {"none", "ready", "drain", "postTurn"}
    BY <1>3, <2>1, <2>2 DEF Shaped
  <2>4. CASE w.pc \in Active
    <3> DEFINE v == [w EXCEPT !.timer = "fired", !.hit = TRUE]
    <3>1. Step(v)
      BY <2>1, <2>4
    <3>2. /\ v \in Workers /\ v.pc = w.pc /\ v.site = w.site /\ v.entry = w.entry
          /\ v.arrivals = w.arrivals
      BY <1>1 DEF Workers
    <3> HIDE DEF v
    <3>3. Shaped(v)
      BY <1>3, <2>2, <2>3, <3>2 DEF Shaped
    <3>4. Placed(state, v)
      BY <1>3, <2>2, <3>2 DEF Placed, InTurn
    <3> QED
      BY <2>2, <3>1, <3>2, <3>3, <3>4, PlainCallsStep, UntouchedSound DEF Fitting
  <2>5. CASE w.pc \notin Active
    <3> DEFINE v == [Thrown("limited") EXCEPT !.timer = "fired"]
    <3>1. Step(v)
      BY <2>1, <2>5
    <3>2. v \in Workers /\ v.pc = "unwind" /\ v.entry = w.entry
      BY <1>1 DEF Workers, Thrown, PCs, Awaits, Outcomes
    <3> HIDE DEF v
    <3>3. Fitting(state, v)
      BY <2>3, <3>2 DEF Fitting, Shaped, Placed, BatchPCs, CompactPCs
    <3> QED
      BY <2>2, <3>1, <3>2, <3>3, PlainCallsStep, UntouchedSound
  <2> QED
    BY <2>4, <2>5
<1> QED
  BY <1>4, <1>5, <1>6, <1>7

-------------------------------------------------------------------------------
(* Ingress, jobs, the start and the end of the process.                    *)

LEMMA EnsuredFits ==
  ASSUME NEW s, NEW v \in Workers, Fitting(s, v)
  PROVE  EnsureWorker(v, s) \in Workers /\ Fitting(s, EnsureWorker(v, s))
<1> DEFINE e == [NoWorker EXCEPT !.pc = "ready"]
<1>1. CASE v.pc = "none"
  <2>1. ~HasBatch(s.messages)
    BY <1>1 DEF Fitting
  <2>2. e \in Workers /\ e.pc = "ready" /\ e.timer = "off"
    <3>1. "ready" \in PCs
      BY DEF PCs, Awaits
    <3>2. e.pc = "ready" /\ e.timer = "off"
      BY DEF NoWorker
    <3> QED
      BY <3>1, <3>2, NoWorkerIsWorker DEF Workers
  <2>3. EnsureWorker(v, s) \in {v, e}
    BY DEF EnsureWorker
  <2> HIDE DEF e
  <2>4. Shaped(e) /\ e.pc \notin BatchPCs /\ ~InTurn(e)
    BY <2>2 DEF Shaped, BatchPCs, CompactPCs, InTurn, TurnPCs
  <2> QED
    BY <2>1, <2>2, <2>3, <2>4, OutsideFits
<1>2. CASE v.pc # "none"
  BY <1>2 DEF EnsureWorker
<1> QED
  BY <1>1, <1>2

\* Where the worker may be when the caller is let in.
LEMMA WorkerFits ==
  ASSUME CallsInv, life \in {"open", "closing"}, ~poisoned
  PROVE  Fitting(state, w) /\ w \in Workers /\ Sane(state) /\ TypeOK
  BY DEF CallsInv, TypeOK, Lifecycle, Fitting, Up

\* Events about requests and jobs do not move what the worker relies on.
LEMMA StillFits ==
  ASSUME NEW s, NEW t, NEW v, Fitting(s, v), t.messages = s.messages,
         t.actions = s.actions, t.currentTurn = s.currentTurn
  PROVE  Fitting(t, v)
  BY DEF Fitting, Placed, AtCall

\* Another task's record, which may fail and poison the runtime.
LEMMA PoisonedCalls ==
  ASSUME CallsInv, life \in {"open", "closing"}, UNCHANGED <<life, w, tickets>>,
         NEW next, Sane(next), next.messages = state.messages, next.actions = state.actions,
         next.currentTurn = state.currentTurn,
         state' \in {state, next}, poisoned' \in BOOLEAN, faults' \in Nat, OthersTyped,
         poisoned => poisoned'
  PROVE  Sound
<1>1. TypeOK /\ Sane(state) /\ Lifecycle
  BY DEF CallsInv
<1>2. Sane(state') /\ state' \in States
  BY <1>1 DEF Sane
<1>3. TypeOK'
  BY <1>1, <1>2 DEF TypeOK, OthersTyped
<1>4. /\ state'.messages = state.messages /\ state'.actions = state.actions
      /\ state'.currentTurn = state.currentTurn
  OBVIOUS
<1>5. Shaped(w') /\ Placed(state', w')
  <2>1. Shaped(w) /\ Placed(state, w)
    BY <1>1 DEF Lifecycle
  <2> QED
    BY <1>4, <2>1 DEF Placed, AtCall
<1>6. Up' /\ w'.pc = "none" => ~HasBatch(state'.messages)
  BY <1>1, <1>4 DEF Lifecycle, Up
<1>7. Lifecycle'
  BY <1>5, <1>6 DEF Lifecycle
<1> QED
  BY <1>2, <1>3, <1>4, <1>7 DEF Sound, CallsInv, CallsChange, Untouched

LEMMA SubmitCalls ==
  ASSUME CallsInv, NEW r \in Requests, Submit(r)
  PROVE  Sound
<1> DEFINE target == IF Mode[r] = "steer" THEN state.currentTurn ELSE 0
           next == InputEnqueued(state, r, target)
<1>1. life = "open" /\ ~poisoned
  BY DEF Submit, Admitted
<1>2. Fitting(state, w) /\ w \in Workers /\ Sane(state) /\ TypeOK
  BY <1>1, WorkerFits
<1>3. target \in Nat
  BY <1>2, StateHas DEF Sane
<1>4. SameCalls(state, next) /\ Sane(next) /\ next.currentTurn = state.currentTurn
  <2>1. \E o : o \in Outcomes
    BY DEF Outcomes
  <2>2. SameCalls(state, next) /\ Sane(next)
    <3> HIDE DEF target
    <3> QED
      BY <1>2, <1>3, <2>1, RequestEvents
  <2>3. next.currentTurn = state.currentTurn
    BY <1>2, StateHas DEF InputEnqueued, Typed, Fields, Sane
  <2> QED
    BY <2>2, <2>3
<1>5. OthersTyped
  BY <1>2, OthersKeepType DEF Submit
<1>6. CASE /\ state' = next /\ tickets' = [tickets EXCEPT ![r] = "pending"]
           /\ w' = EnsureWorker(w, next) /\ UNCHANGED <<life, poisoned, faults>>
  <2> HIDE DEF next
  <2>1. EnsureWorker(w, next) \in Workers /\ Fitting(next, EnsureWorker(w, next))
    BY <1>2, <1>4, StillFits, EnsuredFits DEF SameCalls
  <2>2. tickets' \in [Requests -> TicketStates]
    BY <1>2, <1>6 DEF TypeOK, TicketStates
  <2>3. TypeOK'
    BY <1>2, <1>4, <1>5, <1>6, <2>1, <2>2 DEF TypeOK, OthersTyped, Sane
  <2>4. Lifecycle'
    BY <1>1, <1>6, <2>1 DEF Lifecycle, Fitting, Up
  <2>5. CallsInv'
    BY <1>4, <1>6, <2>3, <2>4 DEF CallsInv
  <2> QED
    BY <1>4, <1>6, <2>5, UntouchedSound DEF SameCalls
<1>7. CASE /\ faults' = faults + 1 /\ poisoned' = TRUE /\ state' \in {state, next}
           /\ UNCHANGED <<life, w, tickets>>
  <2> HIDE DEF next
  <2>1. faults' \in Nat
    BY <1>2, <1>7 DEF TypeOK
  <2> QED
    BY <1>1, <1>4, <1>5, <1>7, <2>1, PoisonedCalls DEF SameCalls
<1> QED
  BY <1>6, <1>7 DEF Submit

LEMMA ResubmitCalls ==
  ASSUME CallsInv, NEW r \in Requests, Resubmit(r)
  PROVE  Sound
<1>1. life = "open" /\ ~poisoned /\ w' = EnsureWorker(w, state)
      /\ UNCHANGED <<state, life, poisoned, faults, Others>>
      /\ tickets' = [tickets EXCEPT ![r] =
           IF @ # "none" THEN @
           ELSE IF state.requests[r] \in Outcomes THEN state.requests[r] ELSE "pending"]
  BY DEF Resubmit, Admitted
<1>2. Fitting(state, w) /\ w \in Workers /\ Sane(state) /\ TypeOK
  BY <1>1, WorkerFits
<1>3. EnsureWorker(w, state) \in Workers /\ Fitting(state, EnsureWorker(w, state))
  BY <1>2, EnsuredFits
<1>4. tickets' \in [Requests -> TicketStates]
  BY <1>1, <1>2 DEF TypeOK, TicketStates
<1>5. OthersTyped
  BY <1>1, <1>2, OthersKeepType
<1> QED
  BY <1>1, <1>3, <1>4, <1>5, IdleMove

LEMMA CancelCalls ==
  ASSUME CallsInv, Cancel
  PROVE  Sound
<1>1. life = "open" /\ ~poisoned /\ cancels' = cancels + 1
      /\ UNCHANGED <<state, life, tickets, tasks, lateStarts>>
  BY DEF Cancel, Admitted
<1>2. Fitting(state, w) /\ w \in Workers /\ Sane(state) /\ TypeOK
  BY <1>1, WorkerFits
<1>3. CASE /\ cancel' = TRUE /\ UNCHANGED <<poisoned, faults>>
           /\ w' \in IF w.pc \in Active THEN {w, [w EXCEPT !.hit = TRUE]} ELSE {w}
  <2>1. PICK v \in {w, [w EXCEPT !.hit = TRUE]} : w' = v
    BY <1>3
  <2>2. /\ v \in Workers /\ v.pc = w.pc /\ v.site = w.site /\ v.entry = w.entry
        /\ v.arrivals = w.arrivals /\ v.timer = w.timer
    BY <1>2 DEF Workers
  <2>3. Fitting(state, v)
    BY <1>2, <2>2 DEF Fitting, Shaped, Placed, InTurn
  <2>4. OthersTyped /\ tickets' \in [Requests -> TicketStates]
    BY <1>1, <1>2, <1>3 DEF OthersTyped, TypeOK
  <2> QED
    BY <1>1, <1>3, <2>1, <2>2, <2>3, <2>4, IdleMove
<1>4. CASE faults' = faults + 1 /\ poisoned' = TRUE /\ UNCHANGED <<w, cancel>>
  <2>1. OthersTyped /\ faults' \in Nat
    BY <1>1, <1>2, <1>4 DEF OthersTyped, TypeOK
  <2> QED
    BY <1>1, <1>2, <1>4, <2>1, PoisonedCalls
<1> QED
  BY <1>3, <1>4 DEF Cancel

LEMMA JobEndsCalls ==
  ASSUME CallsInv, NEW j \in tasks, JobEnds(j)
  PROVE  Sound
<1>1. /\ life \in {"open", "closing"} /\ tasks' = tasks \ {j} /\ j \in Nat
      /\ UNCHANGED <<life, w, tickets, cancel, cancels, lateStarts>>
      /\ TypeOK /\ Sane(state)
  BY DEF JobEnds, CallsInv, TypeOK
<1>2. OthersTyped
  BY <1>1 DEF OthersTyped, TypeOK
<1>3. CASE poisoned
  <2>1. UNCHANGED <<state, poisoned, faults>>
    BY <1>3 DEF JobEnds
  <2>2. poisoned' \in BOOLEAN /\ faults' \in Nat
    BY <1>1, <2>1 DEF TypeOK
  <2> QED
    BY <1>1, <1>2, <2>1, <2>2, PoisonedCalls
<1>4. CASE ~poisoned
  <2>1. PICK status \in {"finished", "unknown"} :
          LET next == JobCompleted(state, j, status)
          IN  \/ state' = next /\ UNCHANGED <<poisoned, faults>>
              \/ /\ faults' = faults + 1 /\ poisoned' = TRUE
                 /\ state' \in {state, next}
    BY <1>4 DEF JobEnds
  <2> DEFINE next == JobCompleted(state, j, status)
  <2>2. state' \in {state, next} /\ poisoned' \in BOOLEAN /\ faults' \in Nat
    <3>1. \/ state' = next /\ UNCHANGED <<poisoned, faults>>
          \/ faults' = faults + 1 /\ poisoned' = TRUE /\ state' \in {state, next}
      BY <2>1
    <3> HIDE DEF next
    <3>2. faults \in Nat /\ poisoned \in BOOLEAN
      BY <1>1 DEF TypeOK
    <3>3. state' \in {state, next}
      BY <3>1, Zenon
    <3>4. faults' \in Nat
      BY <3>1, <3>2
    <3>5. poisoned' = poisoned \/ poisoned' = TRUE
      BY <3>1, Zenon
    <3> QED
      BY <3>2, <3>3, <3>4, <3>5
  <2>3. /\ Sane(next) /\ next.messages = state.messages /\ next.actions = state.actions
        /\ next.currentTurn = state.currentTurn
    <3>1. status \in JobStatuses
      BY DEF JobStatuses
    <3>2. next.currentTurn = state.currentTurn
      BY <1>1, StateHas DEF JobCompleted, Typed, Fields, Sane
    <3> HIDE DEF next
    <3>3. Sane(state) /\ j \in Nat
      BY <1>1
    <3>4. /\ Sane(JobCompleted(state, j, status))
          /\ JobCompleted(state, j, status).messages = state.messages
          /\ JobCompleted(state, j, status).actions = state.actions
      BY <3>1, <3>3, JobEvent
    <3> QED
      BY <3>2, <3>4, Zenon DEF next
  <2> HIDE DEF next
  <2> QED
    BY <1>1, <1>2, <1>4, <2>2, <2>3, PoisonedCalls
<1> QED
  BY <1>3, <1>4

LEMMA LifeCalls ==
  ASSUME CallsInv, Start \/ Close \/ Closed \/ Crash
  PROVE  Sound
<1>1. TypeOK /\ Sane(state) /\ Lifecycle
  BY DEF CallsInv
<1>2. CASE Start
  <2>1. /\ life = "down" /\ life' = "recovering" /\ w' = Recoverer
        /\ UNCHANGED <<state, poisoned, tickets, faults, Others>>
    BY <1>2 DEF Start, Recoverer
  <2>2. Recoverer \in Workers /\ Recoverer.pc = "closeBatch"
    BY NoWorkerIsWorker DEF Recoverer, NoWorker, Workers, PCs
  <2>3. TypeOK'
    BY <1>1, <2>1, <2>2 DEF TypeOK, Others
  <2>4. Lifecycle'
    BY <1>1, <2>1, <2>2 DEF Lifecycle, Up
  <2> QED
    BY <1>1, <2>1, <2>3, <2>4, UntouchedSound DEF CallsInv
<1>3. CASE Close
  <2>1. /\ life = "open" /\ life' = "closing"
        /\ UNCHANGED <<state, poisoned, w, tickets, faults, Others>>
    BY <1>3 DEF Close
  <2>2. TypeOK'
    BY <1>1, <2>1 DEF TypeOK, Others
  <2>3. Lifecycle'
    BY <1>1, <2>1 DEF Lifecycle, Up
  <2> QED
    BY <1>1, <2>1, <2>2, <2>3, UntouchedSound DEF CallsInv
<1>4. CASE Closed \/ Crash
  <2>1. Down /\ faults' \in Nat
    BY <1>1, <1>4 DEF Closed, Crash, TypeOK
  <2>2. TypeOK'
    BY <1>1, <2>1, NoWorkerIsWorker DEF TypeOK, Down, TicketStates
  <2>3. Lifecycle' /\ state' = state
    BY <2>1 DEF Down, Lifecycle, Up
  <2> QED
    BY <1>1, <2>2, <2>3, UntouchedSound DEF CallsInv
<1> QED
  BY <1>2, <1>3, <1>4

LEMMA ResumeCalls ==
  ASSUME CallsInv, Resume
  PROVE  Sound
<1>1. At("closeBatch") /\ Open = <<>> /\ life = "recovering" /\ UNCHANGED Others
  BY DEF Resume, Recovered
<1>2. /\ TypeOK /\ Sane(state) /\ ~HasBatch(state.messages) /\ w \in Workers /\ ~poisoned
      /\ tickets \in [Requests -> TicketStates]
  BY <1>1, AtClose DEF TypeOK
<1>3. CASE /\ life' = "open" /\ w' = EnsureWorker(NoWorker, state)
           /\ UNCHANGED <<state, poisoned, tickets, faults>>
  <2>1. Fitting(state, NoWorker)
    BY <1>2, IdleFits DEF Fitting
  <2>2. EnsureWorker(NoWorker, state) \in Workers
        /\ Fitting(state, EnsureWorker(NoWorker, state))
    BY <2>1, EnsuredFits, NoWorkerIsWorker
  <2>3. TypeOK'
    BY <1>1, <1>2, <1>3, <2>2 DEF TypeOK, Others
  <2>4. Lifecycle'
    BY <1>3, <2>2 DEF Lifecycle, Fitting, Up
  <2> QED
    BY <1>2, <1>3, <2>3, <2>4, UntouchedSound DEF CallsInv
<1>4. CASE RecordFails(state)
  <2>1. Record(state, w)
    BY <1>1, <1>4 DEF Record, RecordAndTell, RecordOnly
  <2> QED
    BY <1>1, <1>2, <2>1, CloseRecord, UntouchedSound
<1> QED
  BY <1>3, <1>4 DEF Resume

-------------------------------------------------------------------------------
(* Every step.                                                             *)

LEMMA CallsInit ==
  Init => CallsInv /\ state.messages = <<>> /\ state.actions = <<>>
<1> SUFFICES ASSUME Init
             PROVE  CallsInv /\ state.messages = <<>> /\ state.actions = <<>>
  OBVIOUS
<1> USE DEF Init
<1>1. /\ state.messages = <<>> /\ state.actions = <<>> /\ state.jobs = <<>>
      /\ state.notifications = <<>> /\ state.replayable = TRUE
  BY DEF InitialState
<1>2. state \in States
  <2>1. /\ <<>> \in Seq(Message) /\ <<>> \in Seq(Action) /\ <<>> \in Seq(JobStatuses)
        /\ <<>> \in Seq(Nat)
    OBVIOUS
  <2>2. /\ [r \in Requests |-> NotThere] \in [Requests -> Entry]
        /\ [r \in Requests |-> "absent"] \in [Requests -> Statuses]
    BY DEF NotThere, Entry, Statuses
  <2> QED
    BY <2>1, <2>2 DEF InitialState, States
<1>3. Honest(<<>>)
  BY DEF Honest
<1>4. Sane(state)
  BY <1>1, <1>2, <1>3, EmptyIsPaired DEF Sane
<1>5. TypeOK
  BY <1>2, NoWorkerIsWorker DEF TypeOK, TicketStates
<1>6. Lifecycle
  BY DEF Lifecycle, Up
<1> QED
  BY <1>1, <1>4, <1>5, <1>6 DEF CallsInv

LEMMA TurnCalls ==
  ASSUME CallsInv, TurnStep
  PROVE  Sound
<1>1. CASE StartTurn \/ PreTurn
  BY <1>1, DrainCalls, PreTurnCalls
<1>2. CASE AcceptUser \/ RefuseUser \/ PostUser \/ PostUserFails
  BY <1>2, AcceptCalls
<1>3. CASE EnterBoundary \/ TakeNotification \/ TakeInput \/ LeaveHead \/ LeaveTail
  BY <1>3, BoundaryCalls
<1>4. CASE Fits \/ Outgrown \/ DoesNotFit
  BY <1>4, BudgetCalls
<1>5. CASE Unwind \/ CloseCall \/ CommitClosed
  BY <1>5, UnwindCalls, CloseCallSound, CommitClosedSound
<1>6. CASE RejectEntry \/ EndTurn
  BY <1>6, EndCalls
<1>7. CASE PostTurn \/ PostTurnFails
  BY <1>7, LeaveCalls
<1> QED
  BY <1>1, <1>2, <1>3, <1>4, <1>5, <1>6, <1>7 DEF TurnStep

LEMMA StepCalls ==
  ASSUME CallsInv, StepStep
  PROVE  Sound
<1>1. CASE \/ CallModel \/ StepRefused \/ ModelFails \/ ModelInterrupted \/ PostStep
           \/ \E calls \in Replies : ModelReplies(calls)
  BY <1>1, ModelCalls
<1>2. CASE PostAssistant \/ PostAction
  BY <1>2, BetweenCalls
<1>3. CASE SkipCall \/ OfferCall \/ StartAction \/ RefuseAction
  BY <1>3, OfferCalls
<1>4. CASE ToolReturns \/ ToolInterrupted
  BY <1>4, ToolCalls
<1>5. CASE PostActionFails \/ CommitBatch
  BY <1>5, PostActionFailsCalls, CommitCalls
<1> QED
  BY <1>1, <1>2, <1>3, <1>4, <1>5 DEF StepStep

LEMMA NextCalls ==
  ASSUME CallsInv, [Next]_vars
  PROVE  Sound
<1>1. CASE WorkerStep
  <2>1. CASE Drained \/ DrainCompact
    BY <2>1, DrainCalls
  <2>2. CASE TurnStep
    BY <2>2, TurnCalls
  <2>3. CASE StepStep
    BY <2>3, StepCalls
  <2>4. CASE CompactStep
    BY <2>4, CompactCalls
  <2>5. CASE StopPoisoned
    BY <2>5, LeaveCalls
  <2> QED
    BY <1>1, <2>1, <2>2, <2>3, <2>4, <2>5 DEF WorkerStep
<1>2. CASE StartStep
  BY <1>2, LifeCalls, EndCalls, ResumeCalls DEF StartStep
<1>3. CASE TurnTimesOut
  BY <1>3, LeaveCalls
<1>4. CASE \E r \in Requests : Submit(r) \/ Resubmit(r)
  BY <1>4, SubmitCalls, ResubmitCalls
<1>5. CASE Cancel
  BY <1>5, CancelCalls
<1>6. CASE \E j \in tasks : JobEnds(j)
  BY <1>6, JobEndsCalls
<1>7. CASE Close \/ Closed \/ Crash
  BY <1>7, LifeCalls
<1>8. CASE UNCHANGED vars
  <2>1. CallsInv'
    BY <1>8 DEF vars, CallsInv, TypeOK, Lifecycle, Up
  <2>2. Untouched
    BY <1>8 DEF vars, Untouched
  <2> QED
    BY <2>1, <2>2 DEF Sound, CallsChange
<1> QED
  BY <1>1, <1>2, <1>3, <1>4, <1>5, <1>6, <1>7, <1>8 DEF Next

\* Whatever hooks, the model, tools, clients, timeouts, failing writes and crashes
\* do: the context is paired up to the batch being served, the batch's actions are
\* the last of the log, and the worker is where they say (runtime.py).
THEOREM CallsInductive == Spec => []CallsInv
<1>1. Init => CallsInv
  BY CallsInit
<1>2. CallsInv /\ [Next]_vars => CallsInv'
  BY NextCalls DEF Sound
<1> QED
  BY <1>1, <1>2, PTL DEF Spec

\* The state of the session owner has its type, for all values of the constants.
THEOREM RuntimeTyped == Spec => []TypeOK
<1>1. CallsInv => TypeOK
  BY DEF CallsInv
<1> QED
  BY <1>1, CallsInductive, PTL

\* validate_pairing never finds a fault with the context that is sent to the model
\* or about to be compacted (runtime.py: _run_step, _compact_now).
THEOREM AlwaysPairedAtRequest == Spec => []PairedAtRequest
<1>1. CallsInv => PairedAtRequest
  <2> SUFFICES ASSUME CallsInv, w.pc \in {"preStep", "model", "compact"}
               PROVE  ValidPairing(state.messages)
    BY DEF PairedAtRequest
  <2>1. Sane(state) /\ TypeOK /\ Lifecycle /\ w.pc \notin {"none", "closeBatch"}
    BY DEF CallsInv
  <2>2. life \in {"open", "closing"}
    BY <2>1, IdleFits DEF Lifecycle, TypeOK
  <2>3. ~HasBatch(state.messages)
    BY <2>1, <2>2 DEF Lifecycle, Placed, BatchPCs
  <2>4. state.messages \in Seq(Message) /\ Paired(state.messages)
    BY <2>1, StateHas DEF Sane
  <2> QED
    BY <2>3, <2>4, PairedIsValid
<1> QED
  BY <1>1, CallsInductive, PTL

\* Every log can be replayed when the session is opened again, unless a post hook
\* and the diagnostic about it both raise (state.py:61; run
\* DoubleCompletion shows that it does happen then).
THEOREM AlwaysReplayable ==
  ASSUME "diagnostic" \notin May
  PROVE  Spec => []LogReplays
<1>1. CallsInv => LogReplays
  BY DEF CallsInv, Sane, LogReplays
<1> QED
  BY <1>1, CallsInductive, PTL

-------------------------------------------------------------------------------
(* Each call has its own action, if call ids are not used again.           *)

\* What Traced says of an open batch, in the terms of the steps.
LEMMA TracedBatch ==
  ASSUME Sane(state), HasBatch(state.messages), Traced(state)
  PROVE  /\ state.actions \in Seq(Action) /\ Len(state.actions) \in Nat
         /\ BatchCalls \in Seq(CallIds) /\ Len(BatchCalls) \in Nat /\ Len(BatchCalls) # 0
         /\ DOMAIN BatchCalls = 1 .. Len(BatchCalls)
         /\ LastOf(state.messages).number \in Nat /\ ActionsInBatch \in Nat
         /\ ActionsInBatch <= Len(BatchCalls)
         /\ Len(state.actions) = LastOf(state.messages).number + ActionsInBatch
         /\ \A k \in 1 .. ActionsInBatch :
              Place(k) \in 1 .. Len(state.actions) /\ state.actions[Place(k)].call = BatchCalls[k]
         /\ \A a \in 1 .. LastOf(state.messages).number, k \in 1 .. Len(BatchCalls) :
              state.actions[a].call # BatchCalls[k]
         /\ \A k, l \in 1 .. Len(BatchCalls) : BatchCalls[k] = BatchCalls[l] => k = l
<1>1. /\ state.messages \in Seq(Message) /\ state.actions \in Seq(Action)
      /\ Len(state.messages) \in 1 .. Len(state.messages) /\ Distinct(state.messages)
      /\ LastOf(state.messages).number <= Len(state.actions)
  BY StateHas, MessageHas DEF Sane, HasBatch, Paired
<1>2. /\ LastOf(state.messages).number \in Nat /\ BatchCalls \in Seq(CallIds)
      /\ BatchCalls # <<>>
  BY <1>1, MessageHas DEF LastOf, BatchCalls, HasBatch
<1>3. /\ Len(state.actions) \in Nat
      /\ Len(BatchCalls) \in Nat /\ DOMAIN BatchCalls = 1 .. Len(BatchCalls)
      /\ Len(BatchCalls) # 0
  BY <1>1, <1>2, LenProperties, EmptySeq
<1>4. /\ ActionsInBatch \in Nat
      /\ Len(state.actions) = LastOf(state.messages).number + ActionsInBatch
  BY <1>1, <1>2, <1>3 DEF ActionsInBatch
<1>5. /\ ActionsInBatch <= Len(BatchCalls)
      /\ \A k \in 1 .. ActionsInBatch : state.actions[Place(k)].call = BatchCalls[k]
      /\ \A a \in 1 .. LastOf(state.messages).number, k \in 1 .. Len(BatchCalls) :
           state.actions[a].call # BatchCalls[k]
  BY DEF Traced, ActionsInBatch, BatchCalls, Place
<1>6. \A k \in 1 .. ActionsInBatch : Place(k) \in 1 .. Len(state.actions)
  BY <1>2, <1>4 DEF Place
<1>7. \A k, l \in 1 .. Len(BatchCalls) : BatchCalls[k] = BatchCalls[l] => k = l
  BY <1>1 DEF Distinct, BatchCalls, LastOf
<1> QED
  BY <1>1, <1>2, <1>3, <1>4, <1>5, <1>6, <1>7

\* An action is one of the batch's, or older.
LEMMA WhichAction ==
  \A number, n \in Nat : \A a \in 1 .. (number + n) :
    a \in 1 .. number \/ \E k \in 1 .. n : a = number + k
<1> SUFFICES ASSUME NEW number \in Nat, NEW n \in Nat, NEW a \in 1 .. (number + n),
                    a \notin 1 .. number
             PROVE  \E k \in 1 .. n : a = number + k
  OBVIOUS
<1>1. a - number \in 1 .. n /\ a = number + (a - number)
  OBVIOUS
<1> QED
  BY <1>1

\* _close_open_batch finds the action that served the call.
LEMMA ServedBy ==
  ASSUME Sane(state), HasBatch(state.messages), Traced(state), NEW k \in 1 .. Len(BatchCalls)
  PROVE  /\ k \in 1 .. ActionsInBatch => ActionOf(BatchCalls[k]) = Place(k)
         /\ k \notin 1 .. ActionsInBatch => ActionOf(BatchCalls[k]) = 0
<1> DEFINE n == ActionsInBatch
           number == LastOf(state.messages).number
           mine == {a \in 1 .. Len(state.actions) : state.actions[a].call = BatchCalls[k]}
<1>1. /\ state.actions \in Seq(Action) /\ Len(state.actions) = number + n
      /\ number \in Nat /\ n \in Nat /\ n <= Len(BatchCalls) /\ Len(BatchCalls) \in Nat
      /\ \A l \in 1 .. n : Place(l) \in 1 .. Len(state.actions)
      /\ \A l \in 1 .. n : state.actions[Place(l)].call = BatchCalls[l]
      /\ \A a \in 1 .. number : state.actions[a].call # BatchCalls[k]
      /\ \A l \in 1 .. Len(BatchCalls) : BatchCalls[l] = BatchCalls[k] => l = k
  BY TracedBatch
<1>2. ASSUME NEW a \in mine
      PROVE  k \in 1 .. n /\ a = Place(k)
  <2>1. a \notin 1 .. number /\ a \in 1 .. (number + n) /\ state.actions[a].call = BatchCalls[k]
    BY <1>1
  <2> HIDE DEF n, number
  <2>2. PICK l \in 1 .. n : a = number + l
    BY <1>1, <2>1, WhichAction
  <2>3. a = Place(l) /\ BatchCalls[l] = BatchCalls[k]
    BY <1>1, <2>1, <2>2 DEF Place, number
  <2>4. l \in 1 .. Len(BatchCalls)
    BY <1>1, <2>2
  <2> QED
    BY <1>1, <2>2, <2>3, <2>4
<1>3. k \in 1 .. n => Place(k) \in mine
  BY <1>1
<1>4. /\ mine = {} => ActionOf(BatchCalls[k]) = 0
      /\ mine # {} => ActionOf(BatchCalls[k]) \in mine
  BY <1>1, FirstAction
<1> HIDE DEF mine, n
<1> QED
  BY <1>2, <1>3, <1>4 DEF n

\* No action but the last, and only if it serves the open batch, has no result.
LEMMA WithoutResult ==
  ASSUME Sane(state), HasBatch(state.messages), Traced(state),
         NEW k \in 1 .. ActionsInBatch, state.actions[Place(k)].result = "none"
  PROVE  Place(k) = Len(state.actions) /\ k = ActionsInBatch
<1>1. /\ Len(state.actions) = LastOf(state.messages).number + ActionsInBatch
      /\ Place(k) \in 1 .. Len(state.actions)
      /\ LastOf(state.messages).number \in Nat /\ ActionsInBatch \in Nat
  BY TracedBatch
<1>2. Place(k) = Len(state.actions)
  BY <1>1 DEF Traced
<1> QED
  BY <1>1, <1>2 DEF Place

\* Closing a call is to add the next action, or to end the last.
LEMMA ClosingIs ==
  ASSUME Sane(state), Traced(state), CallCloses
  PROVE  ActionJoins \/ ActionEnds
<1> DEFINE n == ActionsInBatch
           first == CHOOSE k \in Unsettled : \A l \in Unsettled : k <= l
           call == Open[first]
<1>1. /\ HasBatch(state.messages) /\ state'.messages = state.messages /\ Unsettled # {}
      /\ IF ActionOf(call) = 0
           THEN state'.actions = Append(state.actions, [call |-> call, started |-> FALSE,
                                                        result |-> "skipped"])
           ELSE state'.actions = Ended(state.actions, ActionOf(call), "unknown")
  BY DEF CallCloses
<1>2. Open = BatchCalls
  BY <1>1, OpenIsLast, StateHas DEF Sane, Open, BatchCalls
<1>3. /\ DOMAIN BatchCalls = 1 .. Len(BatchCalls) /\ Len(BatchCalls) \in Nat
      /\ n \in Nat /\ n <= Len(BatchCalls) /\ Len(state.actions) \in Nat
      /\ BatchCalls \in Seq(CallIds)
      /\ Len(state.actions) = LastOf(state.messages).number + n
      /\ LastOf(state.messages).number \in Nat
  BY <1>1, TracedBatch
<1>4. first \in Unsettled /\ \A l \in Unsettled : first <= l
  <2>1. Unsettled \subseteq Nat
    BY <1>2, <1>3 DEF Unsettled
  <2>2. \E k \in Unsettled : \A l \in Unsettled : k <= l
    BY <1>1, <2>1, LeastNumber
  <2> QED
    BY <2>2
<1> HIDE DEF first
<1>5. first \in 1 .. Len(BatchCalls) /\ call = BatchCalls[first] /\ ~Settled(call)
  BY <1>2, <1>3, <1>4 DEF Unsettled
<1>6. call \in CallIds
  BY <1>3, <1>5, ElementOfSeq
<1>7. CASE first \in 1 .. n
  <2>1. ActionOf(call) = Place(first) /\ Place(first) # 0
    <3>1. ActionOf(call) = Place(first)
      BY <1>1, <1>5, <1>7, ServedBy
    <3>2. Place(first) # 0
      BY <1>3, <1>7 DEF Place
    <3> QED
      BY <3>1, <3>2
  <2>2. state.actions[Place(first)].result = "none"
    BY <1>5, <2>1 DEF Settled
  <2>3. Place(first) = Len(state.actions)
    BY <1>1, <1>7, <2>2, WithoutResult
  <2>4. state'.actions = Ended(state.actions, Len(state.actions), "unknown")
        /\ Len(state.actions) # 0
    BY <1>1, <2>1, <2>3
  <2> QED
    BY <1>1, <2>4 DEF ActionEnds, Results
<1>8. CASE first \notin 1 .. n
  <2>1. ActionOf(call) = 0
    BY <1>1, <1>5, <1>8, ServedBy
  <2>2. n + 1 \in 1 .. Len(BatchCalls) /\ n + 1 \notin 1 .. n /\ first >= n + 1
        /\ n < Len(BatchCalls)
    BY <1>3, <1>5, <1>8
  <2>3. n + 1 \in Unsettled
    <3>1. ActionOf(BatchCalls[n + 1]) = 0
      <4> HIDE DEF n
      <4> QED
        BY <1>1, <2>2, ServedBy DEF n
    <3>2. ~Settled(BatchCalls[n + 1])
      BY <3>1 DEF Settled
    <3> QED
      BY <1>2, <1>3, <2>2, <3>2 DEF Unsettled
  <2>4. first = n + 1
    BY <1>3, <1>4, <1>5, <2>2, <2>3
  <2>5. ASSUME NEW k \in 1 .. n
        PROVE  state.actions[Place(k)].result # "none"
    <3>1. k \in 1 .. Len(BatchCalls) /\ ~(first <= k)
      BY <1>3, <2>4
    <3>2. k \notin Unsettled
      BY <1>4, <3>1
    <3>3. Settled(BatchCalls[k])
      BY <1>2, <1>3, <3>1, <3>2 DEF Unsettled
    <3>4. ActionOf(BatchCalls[k]) = Place(k)
      BY <1>1, <3>1, ServedBy
    <3> QED
      BY <3>3, <3>4 DEF Settled
  <2>6. [call |-> call, started |-> FALSE, result |-> "skipped"] \in Action
    BY <1>6 DEF Action, Results
  <2>7. call = BatchCalls[n + 1]
    BY <1>5, <2>4
  <2> QED
    BY <1>1, <2>1, <2>2, <2>5, <2>6, <2>7 DEF ActionJoins
<1> QED
  BY <1>7, <1>8

LEMMA LastIsIn ==
  /\ \A n \in Nat : n # 0 => n \in 1 .. n
  /\ \A n, l \in Nat : n <= l /\ l \in 1 .. n => n = l
  OBVIOUS

\* The results that join a batch are those of its actions.
LEMMA JoiningIs ==
  ASSUME Sane(state), Traced(state), HasBatch(state.messages),
         NEW shown \in [DOMAIN BatchCalls -> Nat],
         \/ /\ \A k \in DOMAIN BatchCalls : shown[k] = Place(k)
            /\ ActionsInBatch = Len(BatchCalls)
            /\ \A k \in 1 .. ActionsInBatch : state.actions[Place(k)].result # "none"
         \/ /\ \A k \in DOMAIN BatchCalls : shown[k] = ActionOf(BatchCalls[k])
            /\ \A k \in DOMAIN BatchCalls : Settled(BatchCalls[k])
  PROVE  /\ \A k \in 1 .. Len(BatchCalls) :
              /\ shown[k] = Place(k) /\ state.actions[Place(k)].result # "none"
              /\ k \in 1 .. ActionsInBatch
         /\ ActionsInBatch = Len(BatchCalls)
<1>1. /\ DOMAIN BatchCalls = 1 .. Len(BatchCalls) /\ Len(BatchCalls) \in Nat
      /\ ActionsInBatch \in Nat /\ ActionsInBatch <= Len(BatchCalls)
      /\ Len(BatchCalls) # 0
  BY TracedBatch
<1>2. CASE /\ \A k \in DOMAIN BatchCalls : shown[k] = Place(k)
           /\ ActionsInBatch = Len(BatchCalls)
           /\ \A k \in 1 .. ActionsInBatch : state.actions[Place(k)].result # "none"
  BY <1>1, <1>2
<1>3. CASE /\ \A k \in DOMAIN BatchCalls : shown[k] = ActionOf(BatchCalls[k])
           /\ \A k \in DOMAIN BatchCalls : Settled(BatchCalls[k])
  <2>1. ASSUME NEW k \in 1 .. Len(BatchCalls)
        PROVE  /\ shown[k] = Place(k) /\ state.actions[Place(k)].result # "none"
               /\ k \in 1 .. ActionsInBatch
    <3>1. shown[k] = ActionOf(BatchCalls[k]) /\ ActionOf(BatchCalls[k]) # 0
          /\ state.actions[ActionOf(BatchCalls[k])].result # "none"
      BY <1>1, <1>3 DEF Settled
    <3>2. k \in 1 .. ActionsInBatch
      BY <3>1, ServedBy
    <3>3. ActionOf(BatchCalls[k]) = Place(k)
      BY <3>2, ServedBy
    <3> QED
      BY <3>1, <3>2, <3>3
  <2>2. Len(BatchCalls) \in 1 .. ActionsInBatch
    <3>1. Len(BatchCalls) \in 1 .. Len(BatchCalls)
      BY <1>1, LastIsIn, Zenon
    <3> QED
      BY <2>1, <3>1
  <2>3. ActionsInBatch = Len(BatchCalls)
    BY <1>1, <2>2, LastIsIn, Zenon
  <2> QED
    BY <2>1, <2>3
<1> QED
  BY <1>2, <1>3

\* What Own promises of message i and its k-th call.
OwnAt(ms, as, i, k) ==
  LET m == ms[i + k]
  IN  /\ m.number \in 1 .. Len(as) /\ m.number > ms[i].number
      /\ as[m.number].call = m.call /\ as[m.number].result # "none"

LEMMA OwnIs ==
  ASSUME NEW s
  PROVE  Own(s) <=> \A i \in 1 .. Len(s.messages) : \A k \in 1 .. Len(s.messages[i].calls) :
                      i + k <= Len(s.messages) => OwnAt(s.messages, s.actions, i, k)
  BY DEF Own, OwnAt

\* The actions stay, and their results.
KeepsActions(as, bs) ==
  \A a \in 1 .. Len(as) :
    /\ a \in 1 .. Len(bs) /\ bs[a].call = as[a].call
    /\ as[a].result # "none" => bs[a].result # "none"

LEMMA OwnKept ==
  ASSUME NEW s, NEW t, Own(s), t.messages = s.messages, KeepsActions(s.actions, t.actions)
  PROVE  Own(t)
<1> SUFFICES ASSUME NEW i \in 1 .. Len(s.messages), NEW k \in 1 .. Len(s.messages[i].calls),
                    i + k <= Len(s.messages)
             PROVE  OwnAt(s.messages, t.actions, i, k)
  BY OwnIs
<1>1. OwnAt(s.messages, s.actions, i, k)
  BY OwnIs
<1> QED
  BY <1>1 DEF OwnAt, KeepsActions

\* Where i + k is, when it is not beyond the end.
LEMMA WithinOld ==
  \A n, l \in Nat : \A i \in 1 .. (n + 1), k \in 1 .. l :
    i + k <= n + 1 =>
      /\ i \in 1 .. n
      /\ i + l <= n => i + k \in 1 .. n /\ i + k <= n
  OBVIOUS

LEMMA OwnAppend ==
  ASSUME NEW s, NEW t, Sane(s), Own(s), ~HasBatch(s.messages), NEW m \in Message,
         t.messages = Append(s.messages, m), t.actions = s.actions
  PROVE  Own(t)
<1> DEFINE ms == s.messages
           n == Len(ms)
           u == Append(ms, m)
<1>1. /\ ms \in Seq(Message) /\ n \in Nat /\ PairedUpTo(ms, n)
      /\ Len(u) = n + 1 /\ u[n + 1] = m /\ \A i \in 1 .. n : u[i] = ms[i]
  BY StateHas, MessageHas, AppendIs DEF Sane, Paired
<1>2. \A i \in 1 .. n : Len(ms[i].calls) \in Nat /\ i + Len(ms[i].calls) <= n
  BY <1>1, MessageHas DEF PairedUpTo
<1>3. Len(m.calls) \in Nat
  BY LenProperties DEF Message
<1> HIDE DEF n, u
<1> SUFFICES ASSUME NEW i \in 1 .. (n + 1), NEW k \in 1 .. Len(u[i].calls), i + k <= n + 1
             PROVE  OwnAt(u, s.actions, i, k)
  BY <1>1, OwnIs DEF u
<1>4. Len(u[i].calls) \in Nat
  BY <1>1, <1>2, <1>3
<1>5. i \in 1 .. n
  BY <1>1, <1>4, WithinOld
<1>6. k \in 1 .. Len(ms[i].calls) /\ Len(ms[i].calls) \in Nat /\ i + Len(ms[i].calls) <= n
  BY <1>1, <1>2, <1>5
<1>7. i + k \in 1 .. n /\ i + k <= n
  BY <1>1, <1>6, WithinOld
<1>8. OwnAt(ms, s.actions, i, k)
  BY <1>5, <1>6, <1>7, OwnIs DEF n
<1> QED
  BY <1>1, <1>5, <1>7, <1>8 DEF OwnAt

\* Without an open batch, every action has its result.
LEMMA NoneWithout ==
  ASSUME NEW s, Traced(s), ~HasBatch(s.messages)
  PROVE  \A a \in 1 .. Len(s.actions) : s.actions[a].result # "none"
  BY DEF Traced

LEMMA TracedUser ==
  ASSUME Sane(state), Traced(state), UserJoins
  PROVE  Traced(state')
<1> DEFINE m == UserMessage(state.currentTurn)
<1>1. /\ ~HasBatch(state.messages) /\ state'.messages = Append(state.messages, m)
      /\ state'.actions = state.actions
  BY DEF UserJoins
<1>2. m \in Message /\ m.calls = <<>> /\ state.messages \in Seq(Message)
  BY StateHas, UserMessageIs DEF Sane
<1> HIDE DEF m
<1>3. Own(state')
  BY <1>1, <1>2, OwnAppend DEF Traced
<1>4. ~HasBatch(state'.messages)
  BY <1>1, <1>2, AppendIs DEF HasBatch
<1> QED
  BY <1>1, <1>3, <1>4, NoneWithout DEF Traced

LEMMA TracedAnswer ==
  ASSUME Sane(state), Traced(state), ModelAnswers, IdsAreNew
  PROVE  Traced(state')
<1>1. PICK calls \in Seq(CallIds) :
        /\ \A k \in DOMAIN calls : calls[k] \notin SeenCalls(state.messages)
        /\ state'.messages = Append(state.messages,
             AssistantMessage(state.currentTurn, calls, Len(state.actions)))
  BY DEF ModelAnswers
<1> DEFINE m == AssistantMessage(state.currentTurn, calls, Len(state.actions))
           n == Len(state.messages)
<1>2. /\ ~HasBatch(state.messages) /\ state'.actions = state.actions
      /\ state'.messages = Append(state.messages, m)
  BY <1>1 DEF ModelAnswers
<1>3. /\ state.messages \in Seq(Message) /\ Len(state.actions) \in Nat /\ n \in Nat
      /\ m \in Message /\ m.calls = calls /\ m.number = Len(state.actions)
  BY StateHas, AssistantMessageIs, LenProperties DEF Sane
<1> HIDE DEF m
<1>4. /\ Len(state'.messages) = n + 1 /\ state'.messages[n + 1] = m
      /\ DOMAIN state'.messages = 1 .. (n + 1) /\ LastOf(state'.messages) = m
  BY <1>2, <1>3, AppendIs, LenProperties DEF LastOf
<1>5. Own(state')
  BY <1>2, <1>3, OwnAppend DEF Traced
<1>6. ASSUME NEW a \in 1 .. Len(state.actions), NEW k \in 1 .. Len(calls)
      PROVE  state.actions[a].call # calls[k]
  <2>1. k \in DOMAIN calls
    BY LenProperties
  <2>2. calls[k] \in SeenCalls(state'.messages)
    <3>1. n + 1 \in DOMAIN state'.messages
      BY <1>3, <1>4
    <3>2. k \in DOMAIN state'.messages[n + 1].calls /\ calls[k] = state'.messages[n + 1].calls[k]
      BY <1>3, <1>4, <2>1
    <3> QED
      BY <3>1, <3>2 DEF SeenCalls
  <2>3. calls[k] \notin SeenCalls(state.messages)
    BY <1>1, <2>1
  <2>4. state.actions[a].call \in ActedOn(state)
    BY DEF ActedOn
  <2> QED
    BY <2>2, <2>3, <2>4 DEF IdsAreNew
<1>7. Len(state'.actions) - m.number = 0 /\ Len(calls) \in Nat
  <2>1. Len(state'.actions) = Len(state.actions) /\ m.number = Len(state.actions)
    BY <1>2, <1>3
  <2> QED
    BY <1>3, <2>1, LenProperties
<1>8. 0 <= Len(m.calls) /\ \A k \in 1 .. 0 : FALSE
  BY <1>3, <1>7
<1>9. HasBatch(state'.messages) =>
        /\ Len(state'.actions) - m.number <= Len(m.calls)
        /\ \A k \in 1 .. (Len(state'.actions) - m.number) :
             state'.actions[m.number + k].call = m.calls[k]
        /\ \A a \in 1 .. m.number, k \in 1 .. Len(m.calls) :
             state'.actions[a].call # m.calls[k]
  <2>1. \A k \in 1 .. (Len(state'.actions) - m.number) : FALSE
    BY <1>7, <1>8
  <2>2. Len(state'.actions) - m.number <= Len(m.calls)
    BY <1>7, <1>8
  <2>3. \A a \in 1 .. m.number, k \in 1 .. Len(m.calls) : state'.actions[a].call # m.calls[k]
    BY <1>2, <1>3, <1>6
  <2> QED
    BY <2>1, <2>2, <2>3
<1>10. \A a \in 1 .. Len(state'.actions) : state'.actions[a].result # "none"
  BY <1>2, NoneWithout
<1> QED
  BY <1>4, <1>5, <1>9, <1>10 DEF Traced

\* The parts of Traced that an open batch that stays open needs.
LEMMA StillTraced ==
  ASSUME NEW n \in Nat, Own(state'), state'.messages = state.messages,
         HasBatch(state.messages),
         Len(state'.actions) = LastOf(state.messages).number + n,
         LastOf(state.messages).number \in Nat, n <= Len(BatchCalls),
         \A k \in 1 .. n : state'.actions[Place(k)].call = BatchCalls[k],
         \A a \in 1 .. LastOf(state.messages).number, k \in 1 .. Len(BatchCalls) :
           state'.actions[a].call # BatchCalls[k],
         \A a \in 1 .. Len(state'.actions) : state'.actions[a].result = "none" =>
           a = Len(state'.actions) /\ a > LastOf(state.messages).number
  PROVE  Traced(state')
<1> DEFINE b == LastOf(state.messages)
<1>1. LastOf(state'.messages) = b /\ HasBatch(state'.messages)
  OBVIOUS
<1>2. Len(state'.actions) - b.number = n
  OBVIOUS
<1> QED
  BY <1>1, <1>2 DEF Traced, Place, BatchCalls

LEMMA TracedJoined ==
  ASSUME Sane(state), Traced(state), ActionJoins
  PROVE  Traced(state')
<1> DEFINE n == ActionsInBatch
           number == LastOf(state.messages).number
           old == Len(state.actions)
<1>1. PICK x \in Action : /\ x.call = BatchCalls[n + 1]
                          /\ state'.actions = Append(state.actions, x)
  BY DEF ActionJoins
<1>2. /\ HasBatch(state.messages) /\ state'.messages = state.messages
      /\ \A k \in 1 .. n : state.actions[Place(k)].result # "none"
      /\ n < Len(BatchCalls)
  BY DEF ActionJoins
<1>3. /\ state.actions \in Seq(Action) /\ old \in Nat /\ Len(BatchCalls) \in Nat
      /\ number \in Nat /\ n \in Nat /\ old = number + n
      /\ \A k \in 1 .. n : Place(k) \in 1 .. old /\ state.actions[Place(k)].call = BatchCalls[k]
      /\ \A a \in 1 .. number, k \in 1 .. Len(BatchCalls) : state.actions[a].call # BatchCalls[k]
  BY <1>2, TracedBatch
<1> HIDE DEF n, number, old
<1>4. /\ Len(state'.actions) = old + 1 /\ state'.actions[old + 1] = x
      /\ \A a \in 1 .. old : state'.actions[a] = state.actions[a]
  <2>1. LET as == Append(state.actions, x)
        IN  /\ Len(as) = old + 1 /\ as[old + 1] = x
            /\ \A a \in 1 .. old : as[a] = state.actions[a]
    BY <1>3, AppendIs DEF old
  <2> QED
    BY <1>1, <2>1, Zenon
<1>5. \A a \in 1 .. old : state.actions[a].result # "none"
  <2> SUFFICES ASSUME NEW a \in 1 .. old, state.actions[a].result = "none"
               PROVE  FALSE
    OBVIOUS
  <2>1. a > number
    BY DEF Traced, old, number
  <2>2. a \notin 1 .. number /\ a \in 1 .. (number + n)
    BY <1>3, <2>1
  <2>3. PICK k \in 1 .. n : a = number + k
    BY <1>3, <2>2, WhichAction
  <2> QED
    BY <1>2, <2>3 DEF Place, number
<1>6. /\ Len(state'.actions) = number + (n + 1) /\ n + 1 \in Nat /\ n + 1 <= Len(BatchCalls)
      /\ old + 1 = number + (n + 1) /\ old + 1 > number
  BY <1>2, <1>3, <1>4
<1>7. ASSUME NEW k \in 1 .. (n + 1)
      PROVE  state'.actions[Place(k)].call = BatchCalls[k]
  <2>1. CASE k \in 1 .. n
    BY <1>3, <1>4, <2>1
  <2>2. CASE k = n + 1
    <3>1. Place(k) = old + 1
      BY <1>6, <2>2 DEF Place, number
    <3> QED
      BY <1>1, <1>4, <2>2, <3>1
  <2> QED
    BY <1>3, <2>1, <2>2
<1>8. \A a \in 1 .. number, k \in 1 .. Len(BatchCalls) : state'.actions[a].call # BatchCalls[k]
  <2>1. \A a \in 1 .. number : a \in 1 .. old
    BY <1>3
  <2> QED
    BY <1>3, <1>4, <2>1
<1>9. \A a \in 1 .. Len(state'.actions) : state'.actions[a].result = "none" =>
        a = Len(state'.actions) /\ a > number
  <2>1. \A a \in 1 .. (old + 1) : a \in 1 .. old \/ a = old + 1
    BY <1>3
  <2> QED
    BY <1>3, <1>4, <1>5, <1>6, <2>1
<1>10. KeepsActions(state.actions, state'.actions)
  <2>1. \A a \in 1 .. old : a \in 1 .. (old + 1)
    BY <1>3
  <2> QED
    BY <1>4, <2>1 DEF KeepsActions, old
<1>11. Own(state')
  BY <1>2, <1>10, OwnKept DEF Traced
<1> QED
  BY <1>2, <1>3, <1>6, <1>7, <1>8, <1>9, <1>11, StillTraced DEF number

LEMMA TracedEnded ==
  ASSUME Sane(state), Traced(state), ActionEnds
  PROVE  Traced(state')
<1> DEFINE n == ActionsInBatch
           number == LastOf(state.messages).number
           last == Len(state.actions)
<1>1. PICK r \in Results \ {"none"} : state'.actions = Ended(state.actions, last, r)
  BY DEF ActionEnds
<1>2. HasBatch(state.messages) /\ state'.messages = state.messages /\ last # 0
  BY DEF ActionEnds
<1>3. /\ state.actions \in Seq(Action) /\ last \in Nat /\ Len(BatchCalls) \in Nat
      /\ number \in Nat /\ n \in Nat /\ last = number + n /\ n <= Len(BatchCalls)
      /\ \A k \in 1 .. n : Place(k) \in 1 .. last /\ state.actions[Place(k)].call = BatchCalls[k]
      /\ \A a \in 1 .. number, k \in 1 .. Len(BatchCalls) : state.actions[a].call # BatchCalls[k]
  BY <1>2, TracedBatch
<1> HIDE DEF n, number
<1> DEFINE x == [state.actions[last] EXCEPT !.result = r]
<1>4. last \in 1 .. last /\ state.actions[last] \in Action /\ DOMAIN state.actions = 1 .. last
  <2>1. last \in 1 .. last
    BY <1>2, <1>3, LastIsIn, Zenon
  <2> QED
    BY <1>3, <2>1, ElementOfSeq, LenProperties
<1>5. x \in Action /\ x.call = state.actions[last].call /\ x.result # "none"
  <2>1. r \in Results /\ r # "none"
    OBVIOUS
  <2> QED
    BY <1>4, <2>1 DEF Action
<1>6. state'.actions = [state.actions EXCEPT ![last] = x]
  BY <1>1 DEF Ended
<1> HIDE DEF x, last
<1>7. /\ Len(state'.actions) = last
      /\ \A a \in 1 .. last : state'.actions[a] = IF a = last THEN x ELSE state.actions[a]
  <2>1. [state.actions EXCEPT ![last] = x] \in Seq(Action)
    BY <1>3, <1>5, ExceptIsSeq, Zenon
  <2>2. state'.actions \in Seq(Action) /\ DOMAIN state'.actions = 1 .. last
    BY <1>4, <1>6, <2>1
  <2>3. Len(state'.actions) = last
    <3>1. last \in Nat
      BY <1>3
    <3> QED
      BY <2>2, <3>1, LenProperties
  <2> QED
    BY <1>4, <1>6, <2>3
<1>8. \A a \in 1 .. last : state'.actions[a].call = state.actions[a].call
  BY <1>5, <1>7
<1>9. \A a \in 1 .. last : state.actions[a].result = "none" => a = last
  BY DEF Traced, last
<1>10. \A a \in 1 .. last : state'.actions[a].result # "none"
  BY <1>5, <1>7, <1>9
<1>11. KeepsActions(state.actions, state'.actions)
  BY <1>7, <1>8, <1>10 DEF KeepsActions, last
<1>12. Own(state')
  BY <1>2, <1>11, OwnKept DEF Traced
<1>13. \A a \in 1 .. number : a \in 1 .. last
  BY <1>3
<1>14. \A a \in 1 .. number, k \in 1 .. Len(BatchCalls) : state'.actions[a].call # BatchCalls[k]
  BY <1>3, <1>8, <1>13
<1>15. \A k \in 1 .. n : state'.actions[Place(k)].call = BatchCalls[k]
  BY <1>3, <1>8
<1>16. \A a \in 1 .. Len(state'.actions) : state'.actions[a].result = "none" =>
         a = Len(state'.actions) /\ a > number
  BY <1>7, <1>10
<1> QED
  BY <1>2, <1>3, <1>7, <1>12, <1>14, <1>15, <1>16, StillTraced DEF number

\* Where the answers of a batch at the end are.
LEMMA BehindBatch ==
  \A n, l \in Nat : \A i \in 1 .. (n + l), j \in Nat :
    /\ n # 0 /\ j <= l
    => /\ i \in 1 .. (n - 1) \/ i = n \/ (i - n \in 1 .. l /\ i = n + (i - n))
       /\ i \in 1 .. (n - 1) => i \in 1 .. n
  OBVIOUS

LEMMA InFront ==
  \A n, l, c \in Nat : \A i \in 1 .. (n - 1), k \in 1 .. c :
    i + c <= n - 1 => i + k \in 1 .. n /\ i + k <= n
  OBVIOUS

LEMMA TracedResults ==
  ASSUME Sane(state), Traced(state), ResultsJoin
  PROVE  Traced(state')
<1> DEFINE ms == state.messages
           n == Len(ms)
           l == Len(BatchCalls)
           as == state.actions
           t == state'.messages
<1>1. PICK shown \in [DOMAIN BatchCalls -> Nat] :
       /\ \/ /\ \A k \in DOMAIN BatchCalls : shown[k] = Place(k)
             /\ ActionsInBatch = Len(BatchCalls)
             /\ \A k \in 1 .. ActionsInBatch : state.actions[Place(k)].result # "none"
          \/ /\ \A k \in DOMAIN BatchCalls : shown[k] = ActionOf(BatchCalls[k])
             /\ \A k \in DOMAIN BatchCalls : Settled(BatchCalls[k])
       /\ state'.messages = state.messages \o
            [k \in DOMAIN BatchCalls |-> ToolMessage(state.currentTurn, BatchCalls[k], shown[k])]
  BY DEF ResultsJoin
<1>2. HasBatch(ms) /\ state'.actions = as
  BY DEF ResultsJoin
<1>3. /\ \A k \in 1 .. l : /\ shown[k] = Place(k) /\ as[Place(k)].result # "none"
                           /\ k \in 1 .. ActionsInBatch
      /\ ActionsInBatch = l
  <2>1. \/ /\ \A k \in DOMAIN BatchCalls : shown[k] = Place(k)
           /\ ActionsInBatch = Len(BatchCalls)
           /\ \A k \in 1 .. ActionsInBatch : state.actions[Place(k)].result # "none"
        \/ /\ \A k \in DOMAIN BatchCalls : shown[k] = ActionOf(BatchCalls[k])
           /\ \A k \in DOMAIN BatchCalls : Settled(BatchCalls[k])
    BY <1>1
  <2> QED
    BY <1>2, <2>1, JoiningIs
<1> DEFINE m(k) == ToolMessage(state.currentTurn, BatchCalls[k], shown[k])
           answers == [k \in 1 .. l |-> m(k)]
<1>4. /\ DOMAIN BatchCalls = 1 .. l /\ l \in Nat /\ l # 0 /\ BatchCalls \in Seq(CallIds)
      /\ \A k \in 1 .. l : Place(k) \in 1 .. Len(as) /\ as[Place(k)].call = BatchCalls[k]
      /\ LastOf(ms).number \in Nat /\ Len(as) = LastOf(ms).number + ActionsInBatch
      /\ Len(as) \in Nat
  BY <1>2, <1>3, TracedBatch
<1>5. /\ ms \in Seq(Message) /\ n \in Nat /\ n # 0 /\ PairedUpTo(ms, n - 1)
      /\ state.currentTurn \in Nat
      /\ \A i \in 1 .. n : Len(ms[i].calls) \in Nat
  BY <1>2, StateHas, MessageHas DEF Sane, Paired, HasBatch
<1>6. ASSUME NEW k \in 1 .. l
      PROVE  /\ m(k) \in Message /\ m(k).calls = <<>> /\ m(k).call = BatchCalls[k]
             /\ m(k).number = Place(k)
  <2>1. BatchCalls[k] \in CallIds /\ shown[k] \in Nat /\ shown[k] = Place(k)
    BY <1>3, <1>4, ElementOfSeq
  <2> QED
    BY <1>5, <2>1, ToolMessageIs
<1> HIDE DEF m
<1>7. answers \in Seq(Message) /\ Len(answers) = l /\ \A k \in 1 .. l : answers[k] = m(k)
  <2>1. \A k \in 1 .. l : m(k) \in Message
    BY <1>6
  <2> HIDE DEF l
  <2> QED
    BY <1>4, <2>1, IsASeq
<1>8. t = ms \o answers
  BY <1>1, <1>4 DEF m
<1> HIDE DEF answers, ms, l, t
<1>9. /\ Len(t) = n + l /\ t \in Seq(Message)
      /\ \A i \in 1 .. n : t[i] = ms[i]
      /\ \A k \in 1 .. l : t[n + k] = m(k)
  <2>1. LET u == ms \o answers
        IN  /\ u \in Seq(Message) /\ Len(u) = n + Len(answers)
            /\ \A i \in 1 .. n : u[i] = ms[i]
            /\ \A k \in 1 .. Len(answers) : u[n + k] = answers[k]
    <3>1. ms \in Seq(Message) /\ answers \in Seq(Message)
      BY <1>5, <1>7
    <3> QED
      BY <3>1, ConcatIs
  <2> QED
    BY <1>7, <1>8, <2>1
<1> HIDE DEF n
<1>10. ASSUME NEW i \in 1 .. (n + l), NEW k \in 1 .. Len(t[i].calls)
       PROVE  OwnAt(t, as, i, k)
  <2>1. /\ i \in 1 .. (n - 1) \/ i = n \/ (i - n \in 1 .. l /\ i = n + (i - n))
        /\ i \in 1 .. (n - 1) => i \in 1 .. n
    BY <1>4, <1>5, BehindBatch
  <2>2. CASE i \in 1 .. (n - 1)
    <3>1. /\ i \in 1 .. n /\ t[i] = ms[i] /\ k \in 1 .. Len(ms[i].calls)
          /\ Len(ms[i].calls) \in Nat /\ i + Len(ms[i].calls) <= n - 1
      BY <1>5, <1>9, <2>1, <2>2 DEF PairedUpTo
    <3>2. i + k \in 1 .. n /\ i + k <= n
      BY <1>5, <2>2, <3>1, InFront
    <3>3. OwnAt(ms, as, i, k)
      BY <3>1, <3>2, OwnIs DEF ms, n, Traced
    <3> QED
      BY <1>9, <3>1, <3>2, <3>3 DEF OwnAt
  <2>3. CASE i = n
    <3>1. n \in 1 .. n
      BY <1>5, LastIsIn, Zenon
    <3>2. t[i] = LastOf(ms) /\ k \in 1 .. l
      BY <1>9, <2>3, <3>1 DEF LastOf, n, BatchCalls, l, ms
    <3>3. t[i + k] = m(k) /\ m(k).number = Place(k) /\ m(k).call = BatchCalls[k]
      BY <1>6, <1>9, <2>3, <3>2
    <3>4. Place(k) > LastOf(ms).number
      BY <1>4, <3>2 DEF Place, ms
    <3> QED
      BY <1>3, <1>4, <3>2, <3>3, <3>4 DEF OwnAt
  <2>4. CASE i - n \in 1 .. l /\ i = n + (i - n)
    <3>1. t[i].calls = <<>>
      BY <1>6, <1>9, <2>4
    <3>2. Len(t[i].calls) = 0
      BY <3>1, EmptySeq
    <3> QED
      BY <3>2
  <2> QED
    BY <2>1, <2>2, <2>3, <2>4
<1>11. Own(state')
  BY <1>2, <1>9, <1>10, OwnIs DEF t
<1>12. ~HasBatch(t)
  <2>1. t[n + l].calls = <<>>
    <3>1. l \in 1 .. l
      BY <1>4, LastIsIn, Zenon
    <3> QED
      BY <1>6, <1>9, <3>1
  <2> QED
    BY <1>9, <2>1 DEF HasBatch
<1>13. \A a \in 1 .. Len(as) : as[a].result # "none"
  <2> SUFFICES ASSUME NEW a \in 1 .. Len(as), as[a].result = "none"
               PROVE  FALSE
    OBVIOUS
  <2>1. a > LastOf(ms).number
    BY DEF Traced, ms
  <2>2. a \notin 1 .. LastOf(ms).number /\ a \in 1 .. (LastOf(ms).number + l)
    BY <1>3, <1>4, <2>1
  <2>3. PICK k \in 1 .. l : a = LastOf(ms).number + k
    BY <1>4, <2>2, WhichAction
  <2> QED
    BY <1>3, <2>3 DEF Place, ms
<1> QED
  BY <1>2, <1>11, <1>12, <1>13 DEF Traced, t

\* Places behind the summary message.
LEMMA ShiftBack ==
  \A split, n, l \in Nat : \A i \in 1 .. (n + 1), k \in 1 .. l :
    /\ i = 1 \/ (i - 1 \in 1 .. n /\ i = 1 + (i - 1))
    /\ i # 1 /\ i + k <= n + 1 =>
         /\ i - 1 + k \in 1 .. n /\ 1 + (i - 1 + k) = i + k
         /\ split + (i - 1 + k) = split + (i - 1) + k
         /\ split + (i - 1) + k <= split + n
  OBVIOUS

LEMMA OwnSuffix ==
  ASSUME NEW s, NEW t, s.messages \in Seq(Message), Own(s), NEW split \in 1 .. Len(s.messages),
         NEW m \in Message, m.calls = <<>>, t.actions = s.actions,
         t.messages = <<m>> \o SubSeq(s.messages, split + 1, Len(s.messages))
  PROVE  Own(t)
<1> DEFINE ms == s.messages
           n == Len(ms) - split
           u == t.messages
<1>1. /\ n \in Nat /\ u \in Seq(Message) /\ Len(u) = n + 1 /\ u[1] = m
      /\ \A i \in 1 .. n : split + i \in 1 .. Len(ms) /\ u[1 + i] = ms[split + i]
  BY SuffixIs
<1>2. /\ split \in Nat /\ Len(ms) = split + n /\ Len(m.calls) = 0
      /\ \A i \in 1 .. Len(ms) : Len(ms[i].calls) \in Nat
  BY MessageHas, EmptySeq
<1> HIDE DEF n, u
<1> SUFFICES ASSUME NEW i \in 1 .. (n + 1), NEW k \in 1 .. Len(u[i].calls), i + k <= n + 1
             PROVE  OwnAt(u, s.actions, i, k)
  BY <1>1, OwnIs DEF u
<1>3. i # 1
  BY <1>1, <1>2
<1>4. i - 1 \in 1 .. n /\ i = 1 + (i - 1)
  BY <1>1, <1>3
<1> DEFINE p == split + (i - 1)
<1>5. p \in 1 .. Len(ms) /\ u[i] = ms[p]
  <2>1. u[1 + (i - 1)] = ms[p]
    BY <1>1, <1>4
  <2> QED
    BY <1>1, <1>4, <2>1
<1>6. PICK l \in Nat : l = Len(u[i].calls)
  BY <1>2, <1>5
<1>7. k \in 1 .. l
  BY <1>6
<1>8. /\ i - 1 + k \in 1 .. n /\ 1 + (i - 1 + k) = i + k
      /\ split + (i - 1 + k) = p + k /\ p + k <= split + n
  BY <1>1, <1>2, <1>3, <1>7, ShiftBack, Zenon
<1>9. u[i + k] = ms[p + k]
  <2>1. u[1 + (i - 1 + k)] = ms[split + (i - 1 + k)]
    BY <1>1, <1>8
  <2> QED
    BY <1>8, <2>1, Zenon
<1> HIDE DEF p
<1>10. OwnAt(ms, s.actions, p, k)
  BY <1>2, <1>5, <1>8, OwnIs
<1> QED
  BY <1>5, <1>9, <1>10 DEF OwnAt

LEMMA TracedCompacts ==
  ASSUME Sane(state), Traced(state), Compacts
  PROVE  Traced(state')
<1> DEFINE ms == state.messages
           m == UserMessage(0)
           t == state'.messages
<1>1. PICK split \in 0 .. Len(ms) :
        (split = 0 => ms = <<>>) /\ t = <<m>> \o SubSeq(ms, split + 1, Len(ms))
  BY DEF Compacts
<1>2. ~HasBatch(ms) /\ state'.actions = state.actions
  BY DEF Compacts
<1>3. /\ m \in Message /\ m.calls = <<>> /\ ms \in Seq(Message) /\ Len(ms) \in Nat
      /\ ms # <<>> <=> Len(ms) # 0
  BY StateHas, UserMessageIs, MessageHas DEF Sane
<1> HIDE DEF m, t
<1>4. Own(state') /\ ~HasBatch(t)
  <2>1. CASE split = 0
    <3>1. SubSeq(ms, split + 1, Len(ms)) = <<>>
      BY <1>1, <2>1
    <3>2. <<m>> \o <<>> = Append(<<>>, m)
      BY SMT
    <3>3. t = Append(<<>>, m) /\ <<>> = ms
      BY <1>1, <2>1, <3>1, <3>2
    <3>4. t = Append(ms, m)
      BY <3>3, Zenon
    <3>5. Own(state')
      BY <1>2, <1>3, <3>4, OwnAppend DEF Traced, t
    <3>6. ~HasBatch(t)
      BY <1>3, <3>4, AppendIs DEF HasBatch
    <3> QED
      BY <3>5, <3>6
  <2>2. CASE split # 0
    <3>1. split \in 1 .. Len(ms)
      BY <1>3, <2>2
    <3>2. Own(state')
      BY <1>1, <1>2, <1>3, <3>1, OwnSuffix DEF Traced, t
    <3>3. PICK n \in Nat : /\ n = Len(ms) - split /\ Len(t) = n + 1 /\ t[1] = m
                           /\ \A i \in 1 .. n : t[1 + i] = ms[split + i]
      <4>1. /\ Len(ms) - split \in Nat /\ Len(t) = Len(ms) - split + 1 /\ t[1] = m
            /\ \A i \in 1 .. (Len(ms) - split) : t[1 + i] = ms[split + i]
        BY <1>1, <1>3, <3>1, SuffixIs
      <4> QED
        BY <4>1
    <3>4. CASE n = 0
      <4>1. t[Len(t)] = m
        <5>1. Len(t) = 1
          BY <3>3, <3>4
        <5> QED
          BY <3>3, <5>1, Zenon
      <4> QED
        BY <1>3, <3>2, <4>1 DEF HasBatch
    <3>5. CASE n # 0
      <4>1. n \in 1 .. n /\ 1 + n = n + 1 /\ split + n = Len(ms)
        <5>1. split \in Nat /\ n \in Nat /\ n # 0 /\ n = Len(ms) - split /\ Len(ms) \in Nat
          BY <1>3, <3>3, <3>5
        <5> HIDE DEF ms
        <5> QED
          BY <5>1
      <4>2. t[n + 1] = ms[Len(ms)]
        BY <3>3, <4>1, Zenon
      <4>3. t[Len(t)] = ms[Len(ms)] /\ ms # <<>>
        <5>1. Len(ms) # 0
          BY <1>3, <3>1
        <5> QED
          BY <1>3, <3>3, <4>2, <5>1, Zenon
      <4> QED
        BY <1>2, <3>2, <4>3 DEF HasBatch
    <3> QED
      BY <3>2, <3>4, <3>5
  <2> QED
    BY <1>1, <2>1, <2>2
<1> QED
  BY <1>2, <1>4, NoneWithout DEF Traced, t

\* A step of which the provider chooses new ids keeps every call with its action.
LEMMA TracedStep ==
  ASSUME CallsInv, Traced(state), [Next]_vars, IdsAreNew
  PROVE  Traced(state')
<1>1. Sane(state) /\ CallsChange
  BY NextCalls DEF Sound, CallsInv
<1>2. CASE Untouched
  BY <1>2 DEF Untouched, Traced, Own
<1>3. CASE UserJoins \/ ModelAnswers
  BY <1>1, <1>3, TracedUser, TracedAnswer
<1>4. CASE ActionJoins \/ ActionEnds
  BY <1>1, <1>4, TracedJoined, TracedEnded
<1>5. CASE CallCloses
  BY <1>1, <1>5, ClosingIs, TracedJoined, TracedEnded
<1>6. CASE ResultsJoin \/ Compacts
  BY <1>1, <1>6, TracedResults, TracedCompacts
<1> QED
  BY <1>1, <1>2, <1>3, <1>4, <1>5, <1>6 DEF CallsChange

LEMMA TracedInit ==
  Init => CallsInv /\ Traced(state)
<1> SUFFICES ASSUME Init
             PROVE  CallsInv /\ Traced(state)
  OBVIOUS
<1>1. CallsInv /\ state.messages = <<>> /\ state.actions = <<>>
  BY CallsInit
<1>2. \A i \in 1 .. Len(<<>>) : FALSE
  OBVIOUS
<1> QED
  BY <1>1, <1>2 DEF Traced, Own, HasBatch

\* What Traced says of what is shown and of what is left open.
LEMMA TracedShows ==
  ASSUME CallsInv, Traced(state)
  PROVE  ResultsAreOwn /\ EffectsAccountedFor
<1>1. /\ Sane(state) /\ state.messages \in Seq(Message) /\ state.actions \in Seq(Action)
      /\ DOMAIN state.messages = 1 .. Len(state.messages) /\ Len(state.messages) \in Nat
      /\ DOMAIN state.actions = 1 .. Len(state.actions)
      /\ \A i \in 1 .. Len(state.messages) : Len(state.messages[i].calls) \in Nat
  BY StateHas, MessageHas, LenProperties DEF CallsInv, Sane
<1>2. ResultsAreOwn
  <2> SUFFICES ASSUME NEW i \in DOMAIN state.messages,
                      NEW j \in Answers(state.messages, i) \cap DOMAIN state.messages
               PROVE  LET m == state.messages[j]
                      IN  /\ m.number \in DOMAIN state.actions
                          /\ m.number > state.messages[i].number
                          /\ state.actions[m.number].call = m.call
                          /\ state.actions[m.number].result # "none"
    BY DEF ResultsAreOwn
  <2>1. i \in 1 .. Len(state.messages) /\ j \in 1 .. Len(state.messages)
    BY <1>1
  <2>2. PICK l \in Nat : l = Len(state.messages[i].calls)
    BY <1>1, <2>1
  <2>3. j \in (i + 1) .. (i + l)
    BY <2>2 DEF Answers
  <2>4. j - i \in 1 .. l /\ i + (j - i) = j /\ i + (j - i) <= Len(state.messages)
    BY <1>1, <2>1, <2>2, <2>3
  <2>5. OwnAt(state.messages, state.actions, i, j - i)
    BY <2>1, <2>2, <2>4, OwnIs DEF Traced
  <2>6. OwnAt(state.messages, state.actions, i, j - i) =>
          LET m == state.messages[i + (j - i)]
          IN  /\ m.number \in 1 .. Len(state.actions)
              /\ m.number > state.messages[i].number
              /\ state.actions[m.number].call = m.call
              /\ state.actions[m.number].result # "none"
    BY DEF OwnAt
  <2> QED
    BY <1>1, <2>4, <2>5, <2>6, Zenon
<1>3. EffectsAccountedFor
  <2>1. \A a \in DOMAIN state.actions :
          /\ state.actions[a].result = "skipped" => ~state.actions[a].started
          /\ state.actions[a].result \in {"none", "returned", "unknown"} =>
               state.actions[a].started
    BY <1>1 DEF Sane, Honest
  <2>2. state.currentTurn = 0 => ~HasBatch(state.messages)
    BY <1>1 DEF Sane
  <2>3. ~HasBatch(state.messages) => OpenCalls(state.messages) = <<>>
    BY <1>1, NoBatchNoneOpen DEF Sane
  <2>4. ~HasBatch(state.messages) =>
          \A a \in DOMAIN state.actions : state.actions[a].result # "none"
    BY <1>1, NoneWithout
  <2> QED
    BY <2>1, <2>2, <2>3, <2>4 DEF EffectsAccountedFor
<1> QED
  BY <1>2, <1>3

\* If the provider does not use a call id again that an action was recorded for,
\* whatever the model sees as a call's result is the result of the action that
\* served this very call, through compactions, crashes and the closing of batches
\* that were cut off (runtime.py: _execute_batch, _close_open_batch).
THEOREM AlwaysOwnResults == Spec /\ [][IdsAreNew]_vars => []ResultsAreOwn
<1>1. Init => CallsInv /\ Traced(state)
  BY TracedInit
<1>2. CallsInv /\ Traced(state) /\ [Next]_vars /\ [IdsAreNew]_vars =>
        (CallsInv /\ Traced(state))'
  <2> SUFFICES ASSUME CallsInv, Traced(state), [Next]_vars, [IdsAreNew]_vars
               PROVE  CallsInv' /\ Traced(state')
    OBVIOUS
  <2>1. CallsInv'
    BY NextCalls DEF Sound
  <2>2. IdsAreNew \/ state' = state
    BY DEF vars
  <2> QED
    BY <2>1, <2>2, TracedStep
<1>3. CallsInv /\ Traced(state) => ResultsAreOwn
  BY TracedShows
<1> QED
  BY <1>1, <1>2, <1>3, PTL DEF Spec

\* On the same condition, "never started" is said of no action that started, and
\* outside a turn a healthy session has no call and no action left open.
THEOREM EffectsAlwaysAccountedFor == Spec /\ [][IdsAreNew]_vars => []EffectsAccountedFor
<1>1. Init => CallsInv /\ Traced(state)
  BY TracedInit
<1>2. CallsInv /\ Traced(state) /\ [Next]_vars /\ [IdsAreNew]_vars =>
        (CallsInv /\ Traced(state))'
  <2> SUFFICES ASSUME CallsInv, Traced(state), [Next]_vars, [IdsAreNew]_vars
               PROVE  CallsInv' /\ Traced(state')
    OBVIOUS
  <2>1. CallsInv'
    BY NextCalls DEF Sound
  <2>2. IdsAreNew \/ state' = state
    BY DEF vars
  <2> QED
    BY <2>1, <2>2, TracedStep
<1>3. CallsInv /\ Traced(state) => EffectsAccountedFor
  BY TracedShows
<1> QED
  BY <1>1, <1>2, <1>3, PTL DEF Spec

-------------------------------------------------------------------------------
(* What most steps do to the worker's place, to jobs and to the cancel     *)
(* flag: the steps that do more are named in AllMove.                      *)

\* The configuration in which nothing is ever compacted.
NoCompaction == "compact" \notin May /\ \A r \in Requests : Mode[r] # "compact"

\* Places a worker gets to under a condition only.
Guarded == {"preAction", "unwind", "closeBatch"} \cup CompactPCs

GoesTo(v) ==
  \/ v.pc \notin Guarded
  \/ v.pc = w.pc /\ v.status = w.status
  \/ v.pc = "preAction" /\ ~cancel
  \/ v.pc = "unwind" /\ v.status # "completed"
  \/ /\ v.pc = "closeBatch"
     /\ v.status = "completed" => \/ w.pc = "unwind" /\ w.status = "completed"
                                  \/ w.pc = "arrivals" /\ Arrivals = {}
  \/ v.pc \in CompactPCs /\ (NoCompaction => w.pc \in CompactPCs)

\* Nothing new has come that a boundary would take.
Fewer(s) ==
  /\ s.notifications = state.notifications /\ s.currentTurn = state.currentTurn
  /\ \A r \in Requests : s.queue[r] \in {state.queue[r], NotThere}

KeepsJobs(s) == s.jobs = state.jobs /\ Waiting(s) \subseteq Waiting(state)

Moves ==
  /\ GoesTo(w')
  /\ w.pc = "closeBatch" /\ w'.pc = "closeBatch" /\ life # "recovering" => Fewer(state')
  /\ w.pc = "arrivals" /\ w'.pc = "closeBatch" => state' = state
  /\ w.pc = "unwind" /\ w'.pc = "closeBatch" => state' = state
  /\ KeepsJobs(state') /\ tasks' = tasks
  /\ life' = "recovering" => life = "recovering"
  /\ \/ life' = life
     \/ life' = "closing" /\ life = "open"
     \/ life' = "down" /\ life = "recovering"
  /\ poisoned => poisoned'
  /\ lateStarts' = lateStarts /\ (cancel => cancel')

LEMMA StepMoves ==
  ASSUME NEW v, Step(v), GoesTo(v)
  PROVE  Moves
<1>1. w' = v /\ UNCHANGED <<state, life, poisoned, tasks, cancel, lateStarts>>
  BY DEF Step, Others
<1>2. GoesTo(w')
  BY <1>1
<1> QED
  BY <1>1, <1>2 DEF Moves, Fewer, KeepsJobs

LEMMA RecordOnlyMoves ==
  ASSUME NEW next, NEW v, NEW told, RecordOnly(next, v, told), GoesTo(v), KeepsJobs(next),
         tasks' = tasks, lateStarts' = lateStarts, cancel => cancel',
         w.pc = "closeBatch" /\ life # "recovering" => v.pc # "closeBatch" \/ Fewer(next),
         w.pc \in {"arrivals", "unwind"} => v.pc # "closeBatch"
  PROVE  Moves
<1>1. CASE w' = v /\ state' = next /\ UNCHANGED <<life, poisoned>>
  <2>1. GoesTo(w') /\ KeepsJobs(state')
    BY <1>1
  <2> QED
    BY <1>1, <2>1 DEF Moves
<1>2. CASE RecordFails(next)
  <2>1. /\ state' \in {state, next} /\ w' = NoWorker /\ NoWorker.pc = "none"
        /\ life' = life \/ (life' = "down" /\ life = "recovering")
        /\ poisoned => poisoned'
    BY <1>2 DEF RecordFails, NoWorker
  <2>2. GoesTo(w')
    BY <2>1 DEF GoesTo, Guarded, CompactPCs
  <2>3. KeepsJobs(state')
    BY <2>1 DEF KeepsJobs
  <2>4. w'.pc # "closeBatch"
    BY <2>1
  <2>5. life' = "recovering" => life = "recovering"
    BY <2>1
  <2> QED
    BY <2>1, <2>2, <2>3, <2>4, <2>5 DEF Moves
<1> QED
  BY <1>1, <1>2 DEF RecordOnly

LEMMA RecordMoves ==
  ASSUME NEW next, NEW v, NEW told, RecordAndTell(next, v, told), GoesTo(v), KeepsJobs(next),
         w.pc = "closeBatch" /\ life # "recovering" => v.pc # "closeBatch" \/ Fewer(next),
         w.pc \in {"arrivals", "unwind"} => v.pc # "closeBatch"
  PROVE  Moves
<1>1. /\ RecordOnly(next, v, told) /\ tasks' = tasks /\ lateStarts' = lateStarts
      /\ cancel' = cancel
  BY DEF RecordAndTell, Others
<1> QED
  BY <1>1, RecordOnlyMoves

\* Events that are not about jobs.
LEMMA EventsKeepJobs ==
  ASSUME state \in States
  PROVE  /\ KeepsJobs(state) /\ KeepsJobs(TurnStarted(state))
         /\ \A r \in Requests, outcome \in Outcomes :
              KeepsJobs(UserAccepted(state, r)) /\ KeepsJobs(InputFinished(state, r, outcome))
         /\ \A r \in Requests, target \in Nat : KeepsJobs(InputEnqueued(state, r, target))
         /\ \A calls, shown : /\ KeepsJobs(AssistantCommitted(state, calls))
                              /\ KeepsJobs(ToolsCommitted(state, calls, shown))
         /\ \A a, call, result : /\ KeepsJobs(ActionStarted(state, call))
                                 /\ KeepsJobs(ActionCompleted(state, a, call, result))
         /\ \A split : KeepsJobs(CompactCommitted(state, split))
         /\ \A j : KeepsJobs(NotificationAccepted(state, j))
<1> DEFINE Same(t) == t.jobs = state.jobs /\ t.notifications = state.notifications
<1>1. \A t : Same(t) => KeepsJobs(t)
  BY DEF KeepsJobs, Waiting
<1>2. Same(state) /\ Same(TurnStarted(state))
  BY DEF States, TurnStarted
<1>3. \A r \in Requests, outcome \in Outcomes :
        Same(UserAccepted(state, r)) /\ Same(InputFinished(state, r, outcome))
  BY DEF States, UserAccepted, InputFinished
<1>4. \A r \in Requests, target \in Nat : Same(InputEnqueued(state, r, target))
  BY DEF States, InputEnqueued
<1>5. \A calls, shown : Same(AssistantCommitted(state, calls))
                        /\ Same(ToolsCommitted(state, calls, shown))
  BY DEF States, AssistantCommitted, ToolsCommitted
<1>6. \A a, call, result : Same(ActionStarted(state, call))
                           /\ Same(ActionCompleted(state, a, call, result))
  BY DEF States, ActionStarted, ActionCompleted
<1>7. \A split : Same(CompactCommitted(state, split))
  BY DEF States, CompactCommitted
<1>8. ASSUME NEW j
      PROVE  KeepsJobs(NotificationAccepted(state, j))
  <2> DEFINE t == NotificationAccepted(state, j)
  <2>1. t.jobs = state.jobs /\ t.notifications = [state.notifications EXCEPT ![j] = 0]
    BY DEF States, NotificationAccepted
  <2> HIDE DEF t
  <2>2. Waiting(t) \subseteq Waiting(state)
    BY <2>1 DEF Waiting
  <2> QED
    BY <2>1, <2>2 DEF KeepsJobs, t
<1> HIDE DEF Same
<1> QED
  BY <1>1, <1>2, <1>3, <1>4, <1>5, <1>6, <1>7, <1>8

LEMMA TurnEndKeepsJobs ==
  ASSUME state \in States
  PROVE  \A outcome \in Outcomes : KeepsJobs(TurnEnded(state, outcome))
<1> SUFFICES ASSUME NEW outcome \in Outcomes
             PROVE  KeepsJobs(TurnEnded(state, outcome))
  OBVIOUS
<1> DEFINE t == TurnEnded(state, outcome)
<1>1. t.jobs = state.jobs /\ t.notifications = state.notifications
  BY DEF States, TurnEnded
<1> HIDE DEF t
<1> QED
  BY <1>1 DEF KeepsJobs, Waiting, t

\* A thrown outcome is not "completed".
LEMMA ThrowMoves ==
  ASSUME w \in Workers, NEW outcome \in {"failed", "limited", Interruption}
  PROVE  /\ GoesTo(Thrown(outcome)) /\ Thrown(outcome).pc = "unwind"
         /\ Throw(outcome) => Moves
<1>1. outcome # "completed"
  BY DEF Interruption
<1>2. /\ Thrown(outcome).pc = "unwind" /\ Thrown(outcome).status = outcome
      /\ [Thrown(outcome) EXCEPT !.timer = "fired"].pc = "unwind"
      /\ [Thrown(outcome) EXCEPT !.timer = "fired"].status = outcome
  BY DEF Thrown, Workers
<1>3. GoesTo(Thrown(outcome))
  BY <1>1, <1>2 DEF GoesTo
<1> QED
  BY <1>2, <1>3, StepMoves DEF Throw

\* What changes only the worker's place, to one that needs no condition.
LEMMA FreeMoves ==
  ASSUME w \in Workers, NEW pc, pc \notin Guarded, NEW v, v.pc = pc
  PROVE  GoesTo(v) /\ (Step(v) => Moves)
<1>1. GoesTo(v)
  BY DEF GoesTo
<1> QED
  BY <1>1, StepMoves

\* A record after which the worker goes to a place that needs no condition.
LEMMA FreeRecord ==
  ASSUME NEW next, NEW v, NEW told, RecordAndTell(next, v, told), v.pc \notin Guarded,
         KeepsJobs(next)
  PROVE  Moves
<1>1. GoesTo(v) /\ v.pc # "closeBatch"
  BY DEF GoesTo, Guarded
<1> QED
  BY <1>1, RecordMoves

LEMMA TypedParts ==
  ASSUME CallsInv
  PROVE  /\ TypeOK /\ w \in Workers /\ state \in States /\ NextArrival.pc = "arrivals"
         /\ [NextArrival EXCEPT !.steered = TRUE].pc = "arrivals"
         /\ "arrivals" \notin Guarded
  BY NextArrivalIsWorker DEF CallsInv, TypeOK, Sane, Guarded, CompactPCs

LEMMA DrainMoves ==
  ASSUME CallsInv, Drained \/ DrainCompact
  PROVE  Moves
<1>1. CASE Drained
  BY <1>1, FreeMoves, TypedParts DEF Drained, NoWorker, Guarded, CompactPCs
<1>2. CASE DrainCompact
  <2> DEFINE v == [NoWorker EXCEPT !.pc = "compact", !.entry = QueueHead]
  <2>1. v.pc = "compact" /\ Step(v) /\ Mode[QueueHead] = "compact" /\ Queue(state) # {}
    BY <1>2 DEF DrainCompact, NoWorker
  <2>2. QueueHead \in Requests
    <3>1. Typed(state)
      BY TypedParts, StateHas
    <3> QED
      BY <2>1, <3>1, HeadIsIn DEF Queue
  <2> HIDE DEF v
  <2>3. GoesTo(v)
    BY <2>1, <2>2 DEF GoesTo, NoCompaction, CompactPCs
  <2> QED
    BY <2>1, <2>3, StepMoves
<1> QED
  BY <1>1, <1>2

LEMMA TurnStepMoves ==
  ASSUME CallsInv,
         \/ PreTurn \/ AcceptUser \/ RefuseUser \/ PostUser \/ PostUserFails
         \/ EnterBoundary \/ TakeNotification \/ TakeInput
         \/ Fits \/ Outgrown \/ DoesNotFit \/ PostTurn \/ PostTurnFails
  PROVE  Moves
<1> USE TypedParts DEF Guarded
<1>1. CASE PreTurn
  <2>1. [w EXCEPT !.pc = "preUser", !.entered = TRUE].pc = "preUser"
    BY DEF Workers
  <2>2. CASE Step([w EXCEPT !.pc = "preUser", !.entered = TRUE])
    BY <2>1, <2>2, FreeMoves DEF CompactPCs
  <2> QED
    BY <1>1, <2>2, ThrowMoves DEF PreTurn
<1>2. CASE AcceptUser
  <2>1. [w EXCEPT !.pc = "postUser"].pc = "postUser"
    BY DEF Workers
  <2>2. Record(UserAccepted(state, Current), [w EXCEPT !.pc = "postUser"])
        /\ w.pc = "preUser" /\ ~poisoned
    BY <1>2 DEF AcceptUser, At
  <2>3. Current \in Requests
    BY <2>2, CurrentIsRequest
  <2>4. KeepsJobs(UserAccepted(state, Current))
    BY <2>3, EventsKeepJobs DEF Outcomes
  <2>5. "postUser" \notin Guarded
    BY DEF CompactPCs
  <2> QED
    BY <2>1, <2>2, <2>4, <2>5, FreeRecord DEF Record
<1>3. ASSUME Refuse, w.pc \in {"preUser", "postUser"}, ~poisoned
      PROVE  Moves
  <2>1. Current \in Requests
    BY <1>3, CurrentIsRequest
  <2> QED
    BY <1>3, <2>1, EventsKeepJobs, FreeRecord DEF Refuse, Outcomes
<1>4. CASE RefuseUser \/ PostUserFails
  BY <1>3, <1>4, ThrowMoves DEF RefuseUser, PostUserFails, At
<1>5. CASE PostUser
  <2>1. [w EXCEPT !.pc = "boundary", !.site = "head", !.timer = "on"].pc = "boundary"
    BY DEF Workers
  <2>2. "boundary" \notin Guarded
    BY DEF CompactPCs
  <2> QED
    BY <1>5, <2>1, <2>2, FreeMoves DEF PostUser
<1>6. CASE EnterBoundary
  <2>1. [w EXCEPT !.pc = "arrivals", !.arrivals = Arrivals, !.steered = FALSE].pc = "arrivals"
    BY DEF Workers
  <2> QED
    BY <1>6, <2>1, FreeMoves DEF EnterBoundary
<1>7. CASE TakeNotification
  BY <1>7, EventsKeepJobs, FreeRecord DEF TakeNotification, Record
<1>8. CASE TakeInput
  <2> DEFINE item == First(w.arrivals)
             pc == IF Mode[item.id] = "compact" THEN "compact" ELSE "preUser"
             v == [w EXCEPT !.pc = pc]
  <2>1. Step(v) /\ w.arrivals # {} /\ item.kind = "input"
    BY <1>8 DEF TakeInput
  <2>2. item.id \in Requests
    <3>1. w.arrivals \subseteq Item
      BY DEF Workers
    <3>2. item \in Item
      BY <2>1, <3>1, FirstIsIn
    <3> QED
      BY <2>1, <3>2 DEF Item
  <2>3. v.pc = pc
    BY DEF Workers
  <2> HIDE DEF v, item
  <2>4. GoesTo(v)
    BY <2>2, <2>3 DEF GoesTo, NoCompaction, CompactPCs
  <2> QED
    BY <2>1, <2>4, StepMoves
<1>9. CASE Fits
  <2> DEFINE v == [w EXCEPT !.pc = "preStep", !.steps = @ + 1, !.called = FALSE]
  <2>1. v.pc = "preStep" /\ RecordAndTell(state, v, tickets)
    BY <1>9 DEF Workers, Fits, Log, Record
  <2> QED
    BY <2>1, EventsKeepJobs, FreeRecord DEF CompactPCs
<1>10. CASE Outgrown
  <2> DEFINE v == [w EXCEPT !.pc = "compact", !.site = "budget"]
  <2>1. v.pc = "compact" /\ Step(v) /\ "compact" \in May
    BY <1>10 DEF Workers, Outgrown
  <2> HIDE DEF v
  <2>2. GoesTo(v)
    BY <2>1 DEF GoesTo, NoCompaction, CompactPCs
  <2> QED
    BY <2>1, <2>2, StepMoves
<1>11. CASE DoesNotFit
  BY <1>11, ThrowMoves DEF DoesNotFit
<1>12. CASE PostTurn
  <2>1. /\ w' = [NoWorker EXCEPT !.pc = "ready"] /\ w.pc = "postTurn"
        /\ UNCHANGED <<state, life, poisoned, tasks, cancel, lateStarts>>
    BY <1>12 DEF PostTurn, Others
  <2>2. w'.pc = "ready"
    BY <2>1 DEF NoWorker
  <2>3. GoesTo(w')
    BY <2>2 DEF GoesTo, CompactPCs
  <2> QED
    BY <2>1, <2>2, <2>3 DEF Moves, KeepsJobs
<1>13. CASE PostTurnFails
  <2>1. /\ w' = NoWorker /\ UNCHANGED <<state, life, poisoned, tasks, cancel, lateStarts>>
    BY <1>13 DEF PostTurnFails, Die, Others
  <2>2. w'.pc = "none"
    BY <2>1 DEF NoWorker
  <2>3. GoesTo(w')
    BY <2>2 DEF GoesTo, CompactPCs
  <2> QED
    BY <2>1, <2>2, <2>3 DEF Moves, KeepsJobs
<1> QED
  BY <1>1, <1>2, <1>4, <1>5, <1>6, <1>7, <1>8, <1>9, <1>10, <1>11, <1>12, <1>13

LEMMA LeaveMoves ==
  ASSUME CallsInv, LeaveHead \/ LeaveTail
  PROVE  Moves
<1>1. w \in Workers
  BY TypedParts
<1>2. CASE LeaveHead
  <2> DEFINE v == [w EXCEPT !.pc = "budget", !.steered = FALSE]
  <2>1. v.pc = "budget" /\ "budget" \notin Guarded
    BY <1>1 DEF Workers, Guarded, CompactPCs
  <2>2. Throw("cancelled") \/ Step(v)
    BY <1>2 DEF LeaveHead
  <2>3. CASE Throw("cancelled")
    <3>1. Thrown("cancelled").pc = "unwind" /\ Thrown("cancelled").status = "cancelled"
      BY <1>1 DEF Thrown, Workers
    <3>2. GoesTo(Thrown("cancelled"))
      BY <3>1 DEF GoesTo
    <3> QED
      BY <2>3, <3>2, StepMoves DEF Throw
  <2> HIDE DEF v
  <2> QED
    BY <1>1, <2>1, <2>2, <2>3, FreeMoves
<1>3. CASE LeaveTail
  <2> DEFINE a == [w EXCEPT !.pc = "closeBatch", !.timer = "off"]
             b == [w EXCEPT !.pc = "boundary", !.site = "head"]
             c == [w EXCEPT !.pc = "closeBatch", !.timer = "off", !.status = "limited",
                            !.steered = FALSE]
  <2>1. a.pc = "closeBatch" /\ b.pc = "boundary" /\ c.pc = "closeBatch" /\ c.status = "limited"
    BY <1>1 DEF Workers
  <2>2. w.pc = "arrivals" /\ ((Step(a) /\ Arrivals = {}) \/ Step(b) \/ Step(c))
    BY <1>3 DEF LeaveTail, At, AnotherPass
  <2> HIDE DEF a, b, c
  <2>3. GoesTo(c) /\ GoesTo(b) /\ (Arrivals = {} => GoesTo(a))
    BY <2>1, <2>2 DEF GoesTo, Guarded, CompactPCs
  <2> QED
    BY <2>2, <2>3, StepMoves
<1> QED
  BY <1>2, <1>3

LEMMA CloseMoves ==
  ASSUME CallsInv, Unwind \/ CloseCall \/ CommitClosed \/ RejectEntry \/ EndTurn
  PROVE  Moves
<1>1. w \in Workers /\ state \in States
  BY TypedParts
<1>2. CASE Unwind
  <2> DEFINE a == [w EXCEPT !.pc = "closeBatch", !.timer = "off"]
             b == [w EXCEPT !.pc = "closeBatch", !.timer = "off", !.status = "failed"]
  <2>1. a.pc = "closeBatch" /\ a.status = w.status /\ b.pc = "closeBatch" /\ b.status = "failed"
    BY <1>1 DEF Workers
  <2>2. w.pc = "unwind" /\ (Step(a) \/ Step(b))
    BY <1>2 DEF Unwind, At
  <2> HIDE DEF a, b
  <2>3. GoesTo(a) /\ GoesTo(b)
    BY <2>1, <2>2 DEF GoesTo
  <2> QED
    BY <2>2, <2>3, StepMoves
<1>3. ASSUME NEW next, Record(next, w), w.pc = "closeBatch", KeepsJobs(next), Fewer(next)
      PROVE  Moves
  <2>1. GoesTo(w)
    BY DEF GoesTo
  <2> QED
    BY <1>3, <2>1, RecordMoves DEF Record
<1>4. CASE CloseCall
  <2>1. /\ w.pc = "closeBatch"
        /\ \E a, call, result : Record(ActionCompleted(state, a, call, result), w)
    BY <1>4 DEF CloseCall, At
  <2>2. PICK a, call, result : Record(ActionCompleted(state, a, call, result), w)
    BY <2>1
  <2> DEFINE next == ActionCompleted(state, a, call, result)
  <2>3. KeepsJobs(next)
    BY <1>1, EventsKeepJobs
  <2>4. Fewer(next)
    BY <1>1 DEF States, ActionCompleted, Fewer
  <2> HIDE DEF next
  <2>5. Record(next, w)
    BY <2>2 DEF next
  <2> QED
    BY <1>3, <2>1, <2>3, <2>4, <2>5
<1>5. CASE CommitClosed
  <2> DEFINE next == ToolsCommitted(state, Open, [k \in DOMAIN Open |-> ActionOf(Open[k])])
  <2>1. w.pc = "closeBatch" /\ Record(next, w)
    BY <1>5 DEF CommitClosed, At
  <2>2. KeepsJobs(next)
    BY <1>1, EventsKeepJobs
  <2>3. Fewer(next)
    BY <1>1 DEF States, ToolsCommitted, Fewer
  <2> HIDE DEF next
  <2> QED
    BY <1>3, <2>1, <2>2, <2>3
<1>6. CASE RejectEntry
  <2> DEFINE next == InputFinished(state, w.entry, w.status)
  <2>1. w.pc = "closeBatch" /\ Record(next, w) /\ w.entry \in Requests
    BY <1>6 DEF RejectEntry, At, Queue
  <2>2. w.status \in Outcomes
    BY <1>1 DEF Workers
  <2>3. KeepsJobs(next)
    BY <1>1, <2>1, <2>2, EventsKeepJobs
  <2>4. Fewer(next)
    BY <1>1, <2>1 DEF States, InputFinished, Fewer
  <2> HIDE DEF next
  <2> QED
    BY <1>3, <2>1, <2>3, <2>4
<1>7. CASE EndTurn
  <2> DEFINE owed == {w.entry} \cup state.turnRequests
             next == TurnEnded(state, w.status)
             a == [NoWorker EXCEPT !.pc = "postTurn", !.status = w.status, !.owed = owed]
             b == [NoWorker EXCEPT !.pc = "ready"]
  <2>1. a.pc = "postTurn" /\ b.pc = "ready"
    BY DEF NoWorker
  <2>2. RecordAndTell(next, a, tickets) \/ RecordAndTell(next, b, Resolve(owed, w.status))
    BY <1>7 DEF EndTurn, Record
  <2>3. w.status \in Outcomes
    BY <1>1 DEF Workers
  <2>4. KeepsJobs(next)
    <3> DEFINE outcome == w.status
    <3>1. outcome \in Outcomes
      BY <2>3
    <3> HIDE DEF outcome
    <3>2. \A o \in Outcomes : KeepsJobs(TurnEnded(state, o))
      BY <1>1, TurnEndKeepsJobs
    <3> QED
      BY <3>1, <3>2 DEF outcome
  <2> HIDE DEF a, b, next, owed
  <2>5. a.pc \notin Guarded /\ b.pc \notin Guarded
    BY <2>1 DEF Guarded, CompactPCs
  <2> QED
    BY <2>2, <2>4, <2>5, FreeRecord
<1> QED
  BY <1>2, <1>4, <1>5, <1>6, <1>7

LEMMA StepStepMoves ==
  ASSUME CallsInv,
         \/ CallModel \/ StepRefused \/ ModelFails \/ ModelInterrupted
         \/ \E calls \in Replies : ModelReplies(calls)
         \/ PostAssistant \/ PostStep \/ PostAction \/ PostActionFails
  PROVE  Moves
<1>1. w \in Workers /\ state \in States
  BY TypedParts
<1>2. /\ [w EXCEPT !.pc = "model"].pc = "model" /\ "model" \notin Guarded
      /\ [w EXCEPT !.pc = "batch"].pc = "batch" /\ "batch" \notin Guarded
      /\ [w EXCEPT !.pc = "boundary", !.site = "tail"].pc = "boundary"
      /\ "boundary" \notin Guarded
  BY <1>1 DEF Workers, Guarded, CompactPCs
<1>3. KeepsJobs(state)
  BY <1>1, EventsKeepJobs
<1>4. CASE CallModel
  BY <1>1, <1>2, <1>3, <1>4, ThrowMoves, FreeRecord DEF CallModel, Log, Record
<1>5. CASE StepRefused \/ ModelFails \/ ModelInterrupted
  BY <1>1, <1>5, ThrowMoves DEF StepRefused, ModelFails, ModelInterrupted
<1>6. ASSUME NEW calls \in Replies, ModelReplies(calls)
      PROVE  Moves
  <2> DEFINE v == [w EXCEPT !.pc = IF calls = <<>> THEN "postStep" ELSE "postAssistant",
                            !.called = calls # <<>>]
             next == AssistantCommitted(state, calls)
  <2>1. v.pc \in {"postStep", "postAssistant"}
    BY <1>1 DEF Workers
  <2>2. RecordAndTell(next, v, tickets) \/ Throw("failed")
    BY <1>6 DEF ModelReplies, Record
  <2>3. KeepsJobs(next)
    BY <1>1, EventsKeepJobs
  <2> HIDE DEF v, next
  <2>4. v.pc \notin Guarded
    BY <2>1 DEF Guarded, CompactPCs
  <2> QED
    BY <1>1, <2>2, <2>3, <2>4, ThrowMoves, FreeRecord
<1>7. CASE PostAssistant
  BY <1>1, <1>2, <1>7, ThrowMoves, FreeMoves DEF PostAssistant
<1>8. CASE PostStep
  BY <1>1, <1>2, <1>8, ThrowMoves, FreeMoves DEF PostStep
<1>9. CASE PostAction
  BY <1>1, <1>2, <1>9, FreeMoves DEF PostAction
<1>10. CASE PostActionFails
  <2>1. /\ state' = ActionCompleted(state, Running, RunningCall, "skipped")
        /\ poisoned' = TRUE /\ w' = NoWorker /\ ~poisoned
        /\ UNCHANGED <<life, tasks, cancel, lateStarts>>
    BY <1>10 DEF PostActionFails, At, Others
  <2>2. KeepsJobs(state')
    BY <1>1, <2>1, EventsKeepJobs
  <2>3. w'.pc = "none"
    BY <2>1 DEF NoWorker
  <2>4. GoesTo(w')
    BY <2>3 DEF GoesTo, Guarded, CompactPCs
  <2> QED
    BY <2>1, <2>2, <2>3, <2>4 DEF Moves
<1> QED
  BY <1>4, <1>5, <1>6, <1>7, <1>8, <1>9, <1>10

LEMMA BatchMoves ==
  ASSUME CallsInv, SkipCall \/ OfferCall \/ RefuseAction \/ ToolInterrupted \/ CommitBatch
  PROVE  Moves
<1>1. w \in Workers /\ state \in States
  BY TypedParts
<1>2. CASE SkipCall \/ RefuseAction
  <2> DEFINE v == [w EXCEPT !.pc = "postAction"]
             next == ActionCompleted(state, Running + 1, NextCall, "skipped")
  <2>1. v.pc = "postAction" /\ RecordAndTell(next, v, tickets)
    BY <1>1, <1>2 DEF SkipCall, RefuseAction, Record, Workers
  <2>2. KeepsJobs(next)
    BY <1>1, EventsKeepJobs
  <2> HIDE DEF v, next
  <2>3. v.pc \notin Guarded
    BY <2>1 DEF Guarded, CompactPCs
  <2> QED
    BY <2>1, <2>2, <2>3, FreeRecord
<1>3. CASE OfferCall
  <2> DEFINE v == [w EXCEPT !.pc = "preAction"]
  <2>1. v.pc = "preAction" /\ Step(v) /\ ~cancel
    BY <1>1, <1>3 DEF OfferCall, NotStarted, Workers
  <2> HIDE DEF v
  <2>2. GoesTo(v)
    BY <2>1 DEF GoesTo
  <2> QED
    BY <2>1, <2>2, StepMoves
<1>4. CASE ToolInterrupted
  <2> DEFINE v == [w EXCEPT !.pc = "postAction", !.hit = FALSE]
             next == ActionCompleted(state, Running, RunningCall, "unknown")
  <2>1. /\ v.pc = "postAction" /\ RecordOnly(next, v, tickets)
        /\ cancel' = TRUE /\ tasks' = tasks /\ lateStarts' = lateStarts
    BY <1>1, <1>4 DEF ToolInterrupted, Workers
  <2>2. KeepsJobs(next)
    BY <1>1, EventsKeepJobs
  <2> HIDE DEF v, next
  <2>3. GoesTo(v) /\ v.pc # "closeBatch"
    BY <2>1 DEF GoesTo, Guarded, CompactPCs
  <2> QED
    BY <2>1, <2>2, <2>3, RecordOnlyMoves
<1>5. CASE CommitBatch
  <2> DEFINE v == IF cancel THEN Thrown(Interruption) ELSE [w EXCEPT !.pc = "postStep"]
             next == ToolsCommitted(state, Batch.calls,
                                    [k \in DOMAIN Batch.calls |-> Batch.number + k])
  <2>1. [w EXCEPT !.pc = "postStep"].pc = "postStep"
    BY <1>1 DEF Workers
  <2>2. GoesTo([w EXCEPT !.pc = "postStep"])
    BY <2>1 DEF GoesTo, Guarded, CompactPCs
  <2>3. GoesTo(v) /\ v.pc # "closeBatch"
    BY <1>1, <2>1, <2>2, ThrowMoves
  <2>4. RecordAndTell(next, v, tickets)
    BY <1>5 DEF CommitBatch, Record
  <2>5. KeepsJobs(next)
    BY <1>1, EventsKeepJobs
  <2> HIDE DEF v, next
  <2> QED
    BY <2>3, <2>4, <2>5, RecordMoves
<1> QED
  BY <1>2, <1>3, <1>4, <1>5

LEMMA FinishCompactMoves ==
  ASSUME CallsInv, ~poisoned, w.pc \in CompactPCs, NEW outcome \in {"completed", "failed"}
  PROVE  /\ FinishCompact(outcome) /\ w.site # "budget" => Moves
         /\ outcome = "completed" /\ CompactReturns => Moves
         /\ \A o \in {"failed", "limited"} : outcome = "failed" /\ CompactRaises(o) => Moves
<1>1. w \in Workers /\ state \in States /\ NextArrival.pc = "arrivals"
      /\ "arrivals" \notin Guarded
  BY TypedParts
<1>2. ASSUME FinishCompact(outcome), w.site # "budget"
      PROVE  Moves
  <2> DEFINE a == [NoWorker EXCEPT !.pc = "drain"]
             next == InputFinished(state, Current, outcome)
             told == Resolve({Current}, outcome)
  <2>1. a.pc = "drain" /\ (RecordAndTell(next, a, told) \/ RecordAndTell(next, NextArrival, told))
    BY <1>2 DEF FinishCompact, NoWorker
  <2>2. Current \in Requests
    BY <1>2, CurrentIsRequest
  <2>3. KeepsJobs(next)
    BY <1>1, <2>2, EventsKeepJobs DEF Outcomes
  <2> HIDE DEF a, next, told
  <2>4. a.pc \notin Guarded
    BY <2>1 DEF Guarded, CompactPCs
  <2> QED
    BY <1>1, <2>1, <2>3, <2>4, FreeRecord
<1>3. ASSUME outcome = "completed", CompactReturns
      PROVE  Moves
  <2> DEFINE v == [w EXCEPT !.pc = "fit", !.site = "head"]
  <2>1. v.pc = "fit" /\ "fit" \notin Guarded
    BY <1>1 DEF Workers, Guarded, CompactPCs
  <2> HIDE DEF v
  <2> QED
    BY <1>1, <1>2, <1>3, <2>1, FreeMoves DEF CompactReturns, v
<1>4. ASSUME NEW o \in {"failed", "limited"}, outcome = "failed", CompactRaises(o)
      PROVE  Moves
  BY <1>1, <1>2, <1>4, ThrowMoves DEF CompactRaises
<1> QED
  BY <1>2, <1>3, <1>4

LEMMA CompactMoves ==
  ASSUME CallsInv, CompactStep
  PROVE  Moves
<1>1. w \in Workers /\ state \in States /\ KeepsJobs(state)
  BY TypedParts, EventsKeepJobs
<1>2. ~poisoned /\ w.pc \in CompactPCs
  BY DEF CompactStep, StartCompact, CallCompactor, CommitSummary, SummaryFails,
         SummaryInterrupted, PostCompact, At, CompactPCs
<1>3. ASSUME NEW next, KeepsJobs(next), NEW pc \in CompactPCs, Record(next, [w EXCEPT !.pc = pc])
      PROVE  Moves
  <2> DEFINE v == [w EXCEPT !.pc = pc]
  <2>1. v.pc = pc
    BY <1>1 DEF Workers
  <2>2. RecordAndTell(next, v, tickets)
    BY <1>3 DEF Record
  <2> HIDE DEF v
  <2>3. GoesTo(v) /\ v.pc # "closeBatch"
    BY <1>2, <2>1 DEF GoesTo, CompactPCs
  <2>4. w.pc # "closeBatch" /\ w.pc \notin {"arrivals", "unwind"}
    BY <1>2 DEF CompactPCs
  <2> QED
    BY <1>3, <2>2, <2>3, <2>4, RecordMoves
<1>4. CompactReturns => Moves
  BY <1>2, FinishCompactMoves
<1>5. \A o \in {"failed", "limited"} : CompactRaises(o) => Moves
  BY <1>2, FinishCompactMoves
<1>6. "preCompact" \in CompactPCs /\ "summary" \in CompactPCs /\ "postCompact" \in CompactPCs
  BY DEF CompactPCs
<1>7. CASE StartCompact \/ CallCompactor \/ SummaryFails \/ PostCompact
  BY <1>1, <1>3, <1>4, <1>5, <1>6, <1>7
     DEF StartCompact, CallCompactor, SummaryFails, PostCompact, Log
<1>8. CASE CommitSummary
  <2>1. PICK split \in Splits : Record(CompactCommitted(state, split),
                                       [w EXCEPT !.pc = "postCompact"])
    BY <1>8 DEF CommitSummary
  <2>2. KeepsJobs(CompactCommitted(state, split))
    BY <1>1, EventsKeepJobs
  <2> QED
    BY <1>3, <1>6, <2>1, <2>2
<1>9. CASE SummaryInterrupted
  <2>1. CASE Die
    <3>1. /\ w' = NoWorker /\ UNCHANGED <<state, life, poisoned, tasks, cancel, lateStarts>>
      BY <2>1 DEF Die, Others
    <3>2. w'.pc = "none"
      BY <3>1 DEF NoWorker
    <3>3. GoesTo(w')
      BY <3>2 DEF GoesTo, Guarded, CompactPCs
    <3> QED
      BY <3>1, <3>2, <3>3 DEF Moves, KeepsJobs
  <2> QED
    BY <1>1, <1>9, <2>1, ThrowMoves DEF SummaryInterrupted
<1> QED
  BY <1>7, <1>8, <1>9 DEF CompactStep

LEMMA OtherMoves ==
  ASSUME CallsInv,
         \/ StopPoisoned \/ TurnTimesOut \/ RecoverTurn \/ Cancel \/ Close
         \/ \E r \in Requests : Submit(r) \/ Resubmit(r)
  PROVE  Moves
<1>1. w \in Workers /\ state \in States /\ state.currentTurn \in Nat
  BY TypedParts DEF States
<1>2. NoWorker.pc = "none" /\ "none" \notin Guarded /\ "ready" \notin Guarded
  BY DEF NoWorker, Guarded, CompactPCs
<1>3. ASSUME NEW s
      PROVE  GoesTo(EnsureWorker(w, s)) /\ (EnsureWorker(w, s).pc = "closeBatch" => w.pc = "closeBatch")
  <2>1. [NoWorker EXCEPT !.pc = "ready"].pc = "ready"
    BY DEF NoWorker
  <2>2. EnsureWorker(w, s) = w \/ EnsureWorker(w, s).pc = "ready"
    BY <2>1 DEF EnsureWorker
  <2> QED
    BY <1>2, <2>2 DEF GoesTo
<1>4. CASE StopPoisoned
  <2>1. /\ w' = NoWorker /\ UNCHANGED <<state, life, poisoned, tasks, cancel, lateStarts>>
    BY <1>4 DEF StopPoisoned, Die, Others
  <2>2. GoesTo(w')
    BY <1>2, <2>1 DEF GoesTo
  <2> QED
    BY <1>2, <2>1, <2>2 DEF Moves, KeepsJobs
<1>5. CASE TurnTimesOut
  <2> DEFINE a == [w EXCEPT !.timer = "fired", !.hit = TRUE]
             b == [Thrown("limited") EXCEPT !.timer = "fired"]
  <2>1. Step(a) \/ Step(b)
    BY <1>5 DEF TurnTimesOut
  <2>2. a.pc = w.pc /\ a.status = w.status /\ b.pc = "unwind" /\ b.status = "limited"
    BY <1>1 DEF Workers, Thrown
  <2> HIDE DEF a, b
  <2>3. GoesTo(a) /\ GoesTo(b)
    BY <2>2 DEF GoesTo
  <2> QED
    BY <2>1, <2>3, StepMoves
<1>6. CASE RecoverTurn
  <2> DEFINE next == TurnEnded(state, "interrupted")
  <2>1. RecordAndTell(next, w, tickets) /\ life = "recovering" /\ w.pc = "closeBatch"
    BY <1>6 DEF RecoverTurn, Recovered, Record, At
  <2>2. KeepsJobs(next)
    BY <1>1, TurnEndKeepsJobs DEF Outcomes
  <2> HIDE DEF next
  <2>3. GoesTo(w)
    BY DEF GoesTo
  <2> QED
    BY <2>1, <2>2, <2>3, RecordMoves
<1>7. CASE Cancel
  <2>1. /\ w' = w \/ w' = [w EXCEPT !.hit = TRUE]
        /\ UNCHANGED <<state, life, tasks, lateStarts>>
        /\ cancel => cancel'
        /\ ~poisoned
        /\ w.pc # "closeBatch" /\ w.pc # "arrivals"
    BY <1>7 DEF Cancel, Admitted, Awaits, Active
  <2>2. w'.pc = w.pc /\ w'.status = w.status
    BY <1>1, <2>1 DEF Workers
  <2>3. GoesTo(w')
    BY <2>2 DEF GoesTo
  <2> QED
    BY <2>1, <2>2, <2>3 DEF Moves, KeepsJobs
<1>8. CASE Close
  <2>1. /\ w' = w /\ UNCHANGED <<state, poisoned, tasks, cancel, lateStarts>>
        /\ life = "open" /\ life' = "closing"
    BY <1>8 DEF Close, Others
  <2>2. GoesTo(w')
    BY <2>1 DEF GoesTo
  <2> QED
    BY <2>1, <2>2 DEF Moves, KeepsJobs, Fewer
<1>9. ASSUME NEW r \in Requests, Resubmit(r)
      PROVE  Moves
  <2>1. /\ w' = EnsureWorker(w, state)
        /\ UNCHANGED <<state, life, poisoned, tasks, cancel, lateStarts>>
    BY <1>9 DEF Resubmit, Others
  <2>2. GoesTo(w')
    BY <1>3, <2>1
  <2> QED
    BY <1>3, <2>1, <2>2 DEF Moves, KeepsJobs, Fewer
<1>10. ASSUME NEW r \in Requests, Submit(r)
       PROVE  Moves
  <2> DEFINE target == IF Mode[r] = "steer" THEN state.currentTurn ELSE 0
             next == InputEnqueued(state, r, target)
  <2>1. /\ state' \in {state, next} /\ w' \in {w, EnsureWorker(w, next)}
        /\ life' = life /\ tasks' = tasks /\ cancel' = cancel /\ lateStarts' = lateStarts
        /\ ~poisoned /\ w.pc \in Awaits \cup {"none"}
    BY <1>10 DEF Submit, Admitted, Others
  <2>2. target \in Nat
    BY <1>1
  <2>3. KeepsJobs(next) /\ KeepsJobs(state)
    BY <1>1, <2>2, EventsKeepJobs
  <2> HIDE DEF next
  <2>4. KeepsJobs(state')
    BY <2>1, <2>3
  <2>5. GoesTo(w') /\ (w'.pc = "closeBatch" => w.pc = "closeBatch")
    <3>1. GoesTo(w)
      BY DEF GoesTo
    <3> QED
      BY <1>3, <2>1, <3>1
  <2>6. w.pc \notin {"closeBatch", "arrivals"}
    BY <2>1 DEF Awaits, Active
  <2> QED
    BY <2>1, <2>4, <2>5, <2>6 DEF Moves
<1> QED
  BY <1>4, <1>5, <1>6, <1>7, <1>8, <1>9, <1>10

\* All steps but these are Moves.
LEMMA AllMove ==
  ASSUME CallsInv, [Next]_vars
  PROVE  \/ Moves
         \/ StartTurn \/ StartAction \/ ToolReturns \/ Start \/ RecoverJob \/ Resume
         \/ (\E j \in tasks : JobEnds(j)) \/ Closed \/ Crash
<1>1. CASE UNCHANGED vars
  <2>1. UNCHANGED <<state, life, poisoned, w, cancel, tasks, lateStarts>>
    BY <1>1 DEF vars
  <2>2. GoesTo(w')
    BY <2>1 DEF GoesTo
  <2> QED
    BY <2>1, <2>2 DEF Moves, KeepsJobs, Fewer
<1>2. CASE WorkerStep
  BY <1>2, DrainMoves, TurnStepMoves, LeaveMoves, CloseMoves, StepStepMoves, BatchMoves,
     CompactMoves, OtherMoves DEF WorkerStep, TurnStep, StepStep
<1>3. CASE StartStep
  BY <1>3, OtherMoves DEF StartStep
<1> QED
  BY <1>1, <1>2, <1>3, OtherMoves DEF Next

-------------------------------------------------------------------------------
(* Cancellation.                                                           *)

\* An action that started late leaves the cancel flag set and the worker behind it.
LateOnce == lateStarts # 0 => lateStarts = 1 /\ cancel /\ w.pc # "preAction"

LEMMA NotLater ==
  ASSUME LateOnce, lateStarts' = lateStarts, cancel => cancel',
         w'.pc = "preAction" => w.pc = "preAction" \/ ~cancel
  PROVE  LateOnce'
  BY DEF LateOnce

\* Where a record leaves the worker.
LEMMA RecordedWorker ==
  ASSUME NEW next, NEW v, NEW told, RecordOnly(next, v, told)
  PROVE  w' = v \/ (w' = NoWorker /\ NoWorker.pc = "none")
  BY DEF RecordOnly, RecordFails, NoWorker

\* Where the steps that AllMove excepts leave the worker.
LEMMA OthersGo ==
  ASSUME CallsInv
  PROVE  /\ StartTurn => w'.pc \in {"none", "preTurn"}
         /\ StartAction => w'.pc \in {"none", "tool"}
         /\ ToolReturns => w'.pc \in {"none", "postAction"}
         /\ Start => w'.pc = "closeBatch" /\ life' = "recovering"
         /\ RecoverJob => w' = w \/ w'.pc = "none"
         /\ Resume => w'.pc \in {"none", "ready"}
         /\ (\E j \in tasks : JobEnds(j)) => w' = w /\ w.pc \in Awaits \cup {"none"}
         /\ Closed \/ Crash => w'.pc = "none"
<1>1. w \in Workers /\ state \in States
  BY TypedParts
<1>2. ASSUME StartTurn
      PROVE  w'.pc \in {"none", "preTurn"}
  <2> DEFINE v == [NoWorker EXCEPT !.pc = "preTurn", !.site = "turn", !.entry = QueueHead]
  <2>1. v.pc = "preTurn" /\ RecordOnly(TurnStarted(state), v, tickets)
    BY <1>2 DEF StartTurn, NoWorker
  <2> HIDE DEF v
  <2> QED
    BY <2>1, RecordedWorker
<1>3. ASSUME StartAction
      PROVE  w'.pc \in {"none", "tool"}
  <2> DEFINE v == [w EXCEPT !.pc = "tool"]
  <2>1. v.pc = "tool" /\ RecordOnly(ActionStarted(state, NextCall), v, tickets)
    BY <1>1, <1>3 DEF StartAction, Workers
  <2> HIDE DEF v
  <2> QED
    BY <2>1, RecordedWorker
<1>4. ASSUME ToolReturns
      PROVE  w'.pc \in {"none", "postAction"}
  <2> DEFINE v == [w EXCEPT !.pc = "postAction"]
  <2>1. /\ v.pc = "postAction"
        /\ \/ RecordOnly(JobAccepted(state, Running, RunningCall), v, tickets)
           \/ RecordOnly(ActionCompleted(state, Running, RunningCall, "returned"), v, tickets)
    BY <1>1, <1>4 DEF ToolReturns, Workers
  <2> HIDE DEF v
  <2> QED
    BY <2>1, RecordedWorker
<1>5. Start => w'.pc = "closeBatch" /\ life' = "recovering"
  BY DEF Start, NoWorker
<1>6. ASSUME RecoverJob
      PROVE  w' = w \/ w'.pc = "none"
  <2>1. \E next : RecordOnly(next, w, tickets)
    BY <1>6 DEF RecoverJob, Record, RecordAndTell
  <2> QED
    BY <2>1, RecordedWorker
<1>7. Resume => w'.pc \in {"none", "ready"}
  BY DEF Resume, RecordFails, EnsureWorker, NoWorker
<1>8. (\E j \in tasks : JobEnds(j)) => w' = w /\ w.pc \in Awaits \cup {"none"}
  BY DEF JobEnds
<1>9. Closed \/ Crash => w'.pc = "none"
  BY DEF Closed, Crash, Down, NoWorker
<1> QED
  BY <1>2, <1>3, <1>4, <1>5, <1>6, <1>7, <1>8, <1>9

LEMMA LateStep ==
  ASSUME CallsInv, LateOnce, [Next]_vars
  PROVE  LateOnce'
<1>1. CASE Moves
  BY <1>1, NotLater DEF Moves, GoesTo, Guarded, CompactPCs
<1>2. CASE StartTurn \/ Closed \/ Crash
  BY <1>2 DEF StartTurn, Closed, Crash, Down, LateOnce
<1>3. CASE StartAction
  <2>1. w.pc = "preAction" /\ cancel' = cancel /\ lateStarts' = lateStarts + (IF cancel THEN 1 ELSE 0)
    BY <1>3 DEF StartAction, At
  <2>2. lateStarts = 0
    BY <2>1 DEF LateOnce
  <2>3. w'.pc # "preAction"
    BY <1>3, OthersGo
  <2>4. CASE cancel
    BY <2>1, <2>2, <2>3, <2>4 DEF LateOnce
  <2>5. CASE ~cancel
    BY <2>1, <2>2, <2>5 DEF LateOnce
  <2> QED
    BY <2>4, <2>5
<1>4. CASE ToolReturns \/ Start \/ RecoverJob \/ Resume \/ \E j \in tasks : JobEnds(j)
  <2>1. lateStarts' = lateStarts /\ cancel' = cancel
    BY <1>4 DEF ToolReturns, Start, RecoverJob, Record, RecordAndTell, Resume, JobEnds, Others
  <2>2. w'.pc = "preAction" => w.pc = "preAction"
    BY <1>4, OthersGo
  <2> QED
    BY <2>1, <2>2, NotLater
<1> QED
  BY <1>1, <1>2, <1>3, <1>4, AllMove

\* After cancel() at most one more action starts in the turn, however often it is
\* called, and whenever: the one whose pre_action hooks were awaited (runtime.py).
THEOREM AtMostOneAlwaysStartsLate == Spec => []AtMostOneLateStart
<1>1. Init => CallsInv /\ LateOnce
  <2>1. Init => LateOnce
    BY DEF Init, LateOnce
  <2> QED
    BY <2>1, CallsInit
<1>2. CallsInv /\ LateOnce /\ [Next]_vars => (CallsInv /\ LateOnce)'
  BY LateStep, NextCalls DEF Sound
<1>3. CallsInv /\ LateOnce => AtMostOneLateStart
  BY DEF CallsInv, TypeOK, LateOnce, AtMostOneLateStart
<1> QED
  BY <1>1, <1>2, <1>3, PTL DEF Spec

-------------------------------------------------------------------------------
(* The end of a turn.                                                      *)

\* A turn that is left by an exception does not end as completed.
EndsAsItShould ==
  /\ w.pc = "unwind" => w.status # "completed"
  /\ CompletedTurnMissesNothing

LEMMA FewerArrivals ==
  ASSUME Fewer(state'), Arrivals = {}
  PROVE  Arrivals' = {}
<1>1. Waiting(state') = Waiting(state)
  BY DEF Fewer, Waiting
<1>2. Waiting(state) = {} /\ {q \in Queue(state) : Concerns(q)} = {}
  BY DEF Arrivals
<1>3. \A r \in Queue(state') : r \in Queue(state) /\ state'.queue[r] = state.queue[r]
  BY DEF Fewer, Queue, NotThere
<1>4. \A r \in Queue(state') : ~Concerns(r)'
  BY <1>2, <1>3 DEF Concerns, Fewer
<1> QED
  BY <1>1, <1>2, <1>4 DEF Arrivals

LEMMA EndStep ==
  ASSUME CallsInv, EndsAsItShould, [Next]_vars
  PROVE  EndsAsItShould'
<1>0. CallsInv'
  BY NextCalls DEF Sound
<1>1. CASE Moves
  <2>1. w'.pc = "unwind" => w'.status # "completed"
    BY <1>1 DEF Moves, GoesTo, Guarded, CompactPCs, EndsAsItShould
  <2>2. ASSUME w'.pc = "closeBatch", life' # "recovering", w'.status = "completed"
        PROVE  Arrivals' = {}
    <3>1. \/ w.pc = "closeBatch" /\ w.status = "completed"
          \/ w.pc = "unwind" /\ w.status = "completed"
          \/ w.pc = "arrivals" /\ Arrivals = {}
      BY <1>1, <2>2 DEF Moves, GoesTo, Guarded, CompactPCs
    <3>2. w.pc # "unwind"
      BY <3>1 DEF EndsAsItShould
    <3>3. CASE w.pc = "arrivals" /\ Arrivals = {}
      <4>1. state' = state
        BY <1>1, <2>2, <3>3 DEF Moves
      <4>2. Fewer(state')
        BY <4>1 DEF Fewer
      <4> QED
        BY <3>3, <4>2, FewerArrivals
    <3>4. CASE w.pc = "closeBatch" /\ w.status = "completed"
      <4>1. life # "recovering"
        <5>1. life' # "down"
          BY <1>0, <2>2, IdleFits DEF CallsInv, Lifecycle
        <5> QED
          BY <1>1, <2>2, <5>1 DEF Moves
      <4>2. Fewer(state') /\ Arrivals = {}
        BY <1>1, <2>2, <3>4, <4>1 DEF Moves, EndsAsItShould, CompletedTurnMissesNothing
      <4> QED
        BY <4>2, FewerArrivals
    <3> QED
      BY <3>1, <3>2, <3>3, <3>4
  <2> QED
    BY <2>1, <2>2 DEF EndsAsItShould, CompletedTurnMissesNothing
<1>2. ASSUME w'.pc \notin {"unwind", "closeBatch"} \/ (w'.pc = "closeBatch" /\ life' = "recovering")
      PROVE  EndsAsItShould'
  BY <1>2 DEF EndsAsItShould, CompletedTurnMissesNothing
<1>3. CASE \/ StartTurn \/ StartAction \/ ToolReturns \/ Start \/ Resume \/ Closed \/ Crash
  BY <1>2, <1>3, OthersGo
<1>4. CASE RecoverJob
  <2>1. life = "recovering" /\ w.pc = "closeBatch"
    BY <1>4 DEF RecoverJob, Recovered, At
  <2>2. life' = "recovering" \/ w'.pc = "none"
    BY <1>4, <2>1 DEF RecoverJob, Record, RecordAndTell, RecordOnly, RecordFails, NoWorker
  <2> QED
    BY <1>2, <1>4, <2>1, <2>2, OthersGo
<1>5. CASE \E j \in tasks : JobEnds(j)
  <2>1. w' = w /\ w.pc # "closeBatch"
    BY <1>5, OthersGo DEF Awaits, Active
  <2> QED
    BY <2>1 DEF EndsAsItShould, CompletedTurnMissesNothing
<1> QED
  BY <1>1, <1>3, <1>4, <1>5, AllMove

\* No turn ends as completed while something that was meant for it waits, whatever
\* came in during the awaits of its last boundary (runtime.py: _safe_boundary).
THEOREM CompletedTurnsMissNothing == Spec => []CompletedTurnMissesNothing
<1>1. Init => CallsInv /\ EndsAsItShould
  <2>1. Init => EndsAsItShould
    BY DEF Init, NoWorker, EndsAsItShould, CompletedTurnMissesNothing
  <2> QED
    BY <2>1, CallsInit
<1>2. CallsInv /\ EndsAsItShould /\ [Next]_vars => (CallsInv /\ EndsAsItShould)'
  BY EndStep, NextCalls DEF Sound
<1>3. CallsInv /\ EndsAsItShould => CompletedTurnMissesNothing
  BY DEF EndsAsItShould
<1> QED
  BY <1>1, <1>2, <1>3, PTL DEF Spec

-------------------------------------------------------------------------------
(* Jobs.                                                                   *)

JobsInv ==
  /\ life \in {"down", "recovering"} => tasks = {}
  /\ AcknowledgedJobsRun

\* What JobsEndOnce says of a step.
EndedStays ==
  \A j \in DOMAIN state.jobs : state.jobs[j] # "queued" =>
    /\ state'.jobs[j] = state.jobs[j]
    /\ j \notin Waiting(state) => j \notin Waiting(state')

JobsSafe == JobsInv' /\ EndedStays

LEMMA JobsHave ==
  ASSUME CallsInv
  PROVE  /\ state.jobs \in Seq(JobStatuses) /\ state.notifications \in Seq(Nat)
         /\ Len(state.jobs) \in Nat /\ Len(state.notifications) = Len(state.jobs)
         /\ DOMAIN state.jobs = 1 .. Len(state.jobs)
         /\ DOMAIN state.notifications = 1 .. Len(state.jobs)
         /\ state \in States /\ state.clock \in Nat /\ poisoned \in BOOLEAN
         /\ LostJobs \subseteq Nat
<1>1. state \in States /\ Len(state.notifications) = Len(state.jobs) /\ poisoned \in BOOLEAN
  BY DEF CallsInv, Sane, TypeOK
<1>2. /\ state.jobs \in Seq(JobStatuses) /\ state.notifications \in Seq(Nat)
      /\ state.clock \in Nat
  BY <1>1 DEF States
<1> QED
  BY <1>1, <1>2, LenProperties DEF LostJobs

\* Steps that have nothing to do with jobs.
LEMMA JobsKept ==
  ASSUME JobsInv, KeepsJobs(state'), tasks' = tasks, Up' => Up \/ LostJobs = tasks,
         life' \in {"down", "recovering"} => tasks = {}
  PROVE  JobsSafe
<1>1. LostJobs' = LostJobs
  BY DEF KeepsJobs, LostJobs
<1>2. JobsInv'
  BY <1>1 DEF JobsInv, AcknowledgedJobsRun
<1>3. EndedStays
  BY DEF KeepsJobs, EndedStays
<1> QED
  BY <1>2, <1>3 DEF JobsSafe

\* A job ends.
LEMMA JobCompletedIs ==
  ASSUME CallsInv, NEW j \in LostJobs, NEW status \in {"finished", "unknown"}
  PROVE  LET t == JobCompleted(state, j, status)
         IN  /\ t.jobs = [state.jobs EXCEPT ![j] = status]
             /\ \A k \in DOMAIN state.jobs : k # j => (k \in Waiting(t) <=> k \in Waiting(state))
             /\ DOMAIN t.jobs = DOMAIN state.jobs
<1> DEFINE t == JobCompleted(state, j, status)
<1>1. /\ t.jobs = [state.jobs EXCEPT ![j] = status]
      /\ t.notifications = [state.notifications EXCEPT ![j] = state.clock + 1]
  BY JobsHave DEF States, JobCompleted
<1> HIDE DEF t
<1>2. \A k \in DOMAIN state.jobs : k # j => (k \in Waiting(t) <=> k \in Waiting(state))
  BY <1>1, JobsHave DEF Waiting
<1> QED
  BY <1>1, <1>2 DEF t

LEMMA EndedJobs ==
  ASSUME CallsInv, NEW j \in LostJobs, NEW status \in {"finished", "unknown"},
         state' \in {state, JobCompleted(state, j, status)}
  PROVE  /\ EndedStays
         /\ state' = JobCompleted(state, j, status) => LostJobs' = LostJobs \ {j}
<1> DEFINE t == JobCompleted(state, j, status)
<1>1. /\ t.jobs = [state.jobs EXCEPT ![j] = status]
      /\ \A k \in DOMAIN state.jobs : k # j => (k \in Waiting(t) <=> k \in Waiting(state))
      /\ DOMAIN t.jobs = DOMAIN state.jobs
  BY JobCompletedIs
<1>2. j \in DOMAIN state.jobs /\ state.jobs[j] = "queued"
  BY DEF LostJobs
<1> HIDE DEF t
<1>3. CASE state' = t
  <2>1. EndedStays
    BY <1>1, <1>2, <1>3 DEF EndedStays
  <2>2. LostJobs' = LostJobs \ {j}
    BY <1>1, <1>2, <1>3 DEF LostJobs
  <2> QED
    BY <2>1, <2>2
<1>4. CASE state' = state
  <2>1. EndedStays
    BY <1>4 DEF EndedStays
  <2>2. t # state
    BY <1>1, <1>2
  <2> QED
    BY <1>4, <2>1, <2>2 DEF t
<1> QED
  BY <1>3, <1>4 DEF t

LEMMA ToolReturnsJobs ==
  ASSUME CallsInv, JobsInv, ToolReturns
  PROVE  JobsSafe
<1> DEFINE v == [w EXCEPT !.pc = "postAction"]
           accepted == JobAccepted(state, Running, RunningCall)
           returned == ActionCompleted(state, Running, RunningCall, "returned")
           new == Len(state.jobs) + 1
<1>1. w.pc = "tool" /\ ~poisoned
  BY DEF ToolReturns, At
<1>2. life \in {"open", "closing"} /\ Up
  BY <1>1, Working DEF Up
<1>3. LostJobs = tasks
  BY <1>2 DEF JobsInv, AcknowledgedJobsRun
<1>4. ASSUME NEW next, RecordOnly(next, v, tickets)
      PROVE  \/ state' = next /\ Up' /\ poisoned' = poisoned
             \/ state' \in {state, next} /\ ~Up' /\ poisoned'
  BY <1>1, <1>2, <1>4 DEF RecordOnly, RecordFails, Up
<1>5. life' \in {"open", "closing"}
  BY <1>2 DEF ToolReturns, RecordOnly, RecordFails
<1>6. CASE RecordOnly(returned, v, tickets) /\ tasks' = tasks
  <2>1. KeepsJobs(state')
    <3>1. KeepsJobs(returned) /\ KeepsJobs(state)
      BY TypedParts, EventsKeepJobs
    <3> HIDE DEF returned
    <3> QED
      BY <1>4, <1>6, <3>1
  <2> QED
    BY <1>2, <1>5, <1>6, <2>1, JobsKept
<1>7. CASE RecordOnly(accepted, v, tickets)
           /\ IF poisoned' THEN UNCHANGED tasks ELSE Dispatch(Len(state.jobs) + 1)
  <2>1. /\ accepted.jobs = Append(state.jobs, "queued")
        /\ accepted.notifications = Append(state.notifications, 0)
    <3> DEFINE s == returned
    <3>1. /\ s.jobs = state.jobs /\ s.notifications = state.notifications
          /\ DOMAIN s = DOMAIN state
      BY TypedParts DEF States, ActionCompleted
    <3>2. accepted = [s EXCEPT !.jobs = Append(@, "queued"), !.notifications = Append(@, 0)]
      BY DEF JobAccepted
    <3>3. "jobs" \in DOMAIN state /\ "notifications" \in DOMAIN state
      BY TypedParts DEF States
    <3> HIDE DEF s, accepted, returned
    <3> QED
      BY <3>1, <3>2, <3>3
  <2>2. /\ DOMAIN accepted.jobs = 1 .. new /\ accepted.jobs[new] = "queued"
        /\ \A j \in 1 .. Len(state.jobs) :
             j # new /\ accepted.jobs[j] = state.jobs[j]
             /\ accepted.notifications[j] = state.notifications[j]
        /\ DOMAIN accepted.notifications = 1 .. new
    <3>1. "queued" \in JobStatuses /\ 0 \in Nat
      BY DEF JobStatuses
    <3>2. LET js == Append(state.jobs, "queued")
              ns == Append(state.notifications, 0)
          IN  /\ Len(js) = new /\ DOMAIN js = 1 .. Len(js) /\ js[new] = "queued"
              /\ \A j \in 1 .. Len(state.jobs) : js[j] = state.jobs[j]
              /\ Len(ns) = new /\ DOMAIN ns = 1 .. Len(ns)
              /\ \A j \in 1 .. Len(state.jobs) : ns[j] = state.notifications[j]
      BY <3>1, JobsHave, AppendIs, LenProperties
    <3>3. \A j \in 1 .. Len(state.jobs) : j # new
      BY JobsHave
    <3> HIDE DEF accepted
    <3> QED
      BY <2>1, <3>2, <3>3
  <2> HIDE DEF accepted, v, returned
  <2>3. CASE state' = accepted
    <3>1. EndedStays
      <4> SUFFICES ASSUME NEW j \in DOMAIN state.jobs
                   PROVE  /\ state'.jobs[j] = state.jobs[j]
                          /\ j \notin Waiting(state) => j \notin Waiting(state')
        BY DEF EndedStays
      <4>1. j \in 1 .. Len(state.jobs)
        BY JobsHave
      <4> QED
        BY <2>2, <2>3, <4>1, JobsHave DEF Waiting
    <3>2. LostJobs' = LostJobs \cup {new}
      <4>1. \A j \in 1 .. new : j \in 1 .. Len(state.jobs) \/ j = new
        BY JobsHave
      <4>2. new \in 1 .. new /\ \A j \in 1 .. Len(state.jobs) : j \in 1 .. new
        BY JobsHave
      <4> HIDE DEF new
      <4> QED
        BY <2>2, <2>3, <4>1, <4>2, JobsHave DEF LostJobs
    <3>3. Up' => tasks' = tasks \cup {new}
      BY <1>7 DEF Dispatch, Up
    <3>4. JobsInv'
      BY <1>3, <1>5, <3>2, <3>3 DEF JobsInv, AcknowledgedJobsRun
    <3> QED
      BY <3>1, <3>4 DEF JobsSafe
  <2>4. CASE state' = state /\ ~Up'
    BY <1>5, <2>4 DEF JobsSafe, JobsInv, AcknowledgedJobsRun, EndedStays
  <2> QED
    BY <1>4, <1>7, <2>3, <2>4
<1> QED
  BY <1>6, <1>7 DEF ToolReturns

LEMMA JobEndsJobs ==
  ASSUME CallsInv, JobsInv, NEW j \in tasks, JobEnds(j)
  PROVE  JobsSafe
<1>1. life \in {"open", "closing"} /\ life' = life /\ tasks' = tasks \ {j}
  BY DEF JobEnds
<1>2. CASE poisoned
  <2>1. state' = state /\ poisoned'
    BY <1>2 DEF JobEnds
  <2> QED
    BY <1>1, <2>1 DEF JobsSafe, JobsInv, AcknowledgedJobsRun, EndedStays, Up
<1>3. CASE ~poisoned
  <2>1. LostJobs = tasks
    BY <1>1, <1>3 DEF JobsInv, AcknowledgedJobsRun, Up
  <2>2. PICK status \in {"finished", "unknown"} :
          \/ state' = JobCompleted(state, j, status)
          \/ poisoned' /\ state' \in {state, JobCompleted(state, j, status)}
    BY <1>3 DEF JobEnds
  <2>3. /\ EndedStays
        /\ state' = JobCompleted(state, j, status) => LostJobs' = LostJobs \ {j}
    BY <2>1, <2>2, EndedJobs
  <2>4. Up' => LostJobs' = LostJobs \ {j}
    BY <2>2, <2>3 DEF Up
  <2>5. JobsInv'
    BY <1>1, <2>1, <2>4 DEF JobsInv, AcknowledgedJobsRun
  <2> QED
    BY <2>3, <2>5 DEF JobsSafe
<1> QED
  BY <1>2, <1>3

LEMMA RecoverJobJobs ==
  ASSUME CallsInv, JobsInv, RecoverJob
  PROVE  JobsSafe
<1> DEFINE job == CHOOSE j \in LostJobs : \A k \in LostJobs : j <= k
<1>1. /\ life = "recovering" /\ LostJobs # {} /\ tasks' = tasks
      /\ Record(JobCompleted(state, job, "unknown"), w)
  BY DEF RecoverJob, Recovered, Record, RecordAndTell, Others
<1>2. job \in LostJobs
  <2>1. \E j \in LostJobs : \A k \in LostJobs : j <= k
    BY <1>1, JobsHave, LeastNumber
  <2> QED
    BY <2>1
<1> HIDE DEF job
<1>3. state' \in {state, JobCompleted(state, job, "unknown")}
      /\ life' \in {"recovering", "down"}
  BY <1>1 DEF Record, RecordAndTell, RecordOnly, RecordFails
<1>4. EndedStays
  BY <1>2, <1>3, EndedJobs
<1>5. tasks = {}
  BY <1>1 DEF JobsInv
<1>6. JobsInv'
  BY <1>1, <1>3, <1>5 DEF JobsInv, AcknowledgedJobsRun, Up
<1> QED
  BY <1>4, <1>6 DEF JobsSafe

LEMMA JobsStep ==
  ASSUME CallsInv, JobsInv, [Next]_vars
  PROVE  JobsSafe
<1>1. state \in States /\ KeepsJobs(state)
  BY TypedParts, EventsKeepJobs
<1>2. poisoned \in BOOLEAN /\ poisoned' \in BOOLEAN
  <2>1. CallsInv'
    BY NextCalls DEF Sound
  <2> QED
    BY <2>1 DEF CallsInv, TypeOK
<1>3. CASE Moves
  <2>1. KeepsJobs(state') /\ tasks' = tasks
    BY <1>3 DEF Moves
  <2>2. Up' => Up
    BY <1>2, <1>3 DEF Moves, Up
  <2>3. life' \in {"down", "recovering"} => tasks = {}
    BY <1>3 DEF Moves, JobsInv
  <2> QED
    BY <2>1, <2>2, <2>3, JobsKept
<1>4. CASE StartTurn \/ StartAction
  <2>1. w.pc \notin {"none", "closeBatch"} /\ ~poisoned /\ tasks' = tasks
    BY <1>4 DEF StartTurn, StartAction, Draining, At
  <2>2. life \in {"open", "closing"}
    BY <2>1, Working
  <2>3. state' \in {state, TurnStarted(state), ActionStarted(state, NextCall)} /\ life' = life
    BY <1>4, <2>2 DEF StartTurn, StartAction, RecordOnly, RecordFails
  <2>4. KeepsJobs(state')
    BY <1>1, <2>3, EventsKeepJobs
  <2>5. Up
    BY <2>1, <2>2 DEF Up
  <2> QED
    BY <2>1, <2>2, <2>3, <2>4, <2>5, JobsKept
<1>5. CASE Start
  <2>1. life = "down" /\ life' = "recovering" /\ state' = state /\ tasks' = tasks
    BY <1>5 DEF Start, Others
  <2> QED
    BY <1>1, <2>1, JobsKept DEF JobsInv, Up
<1>6. CASE Resume
  <2>1. /\ life = "recovering" /\ LostJobs = {} /\ state' = state /\ tasks' = tasks
    BY <1>6 DEF Resume, Recovered, RecordFails, Others
  <2>2. tasks = {}
    BY <2>1 DEF JobsInv
  <2> QED
    BY <1>1, <2>1, <2>2, JobsKept
<1>7. CASE Closed \/ Crash
  <2>1. life' = "down" /\ tasks' = {} /\ state' = state
    BY <1>7 DEF Closed, Crash, Down
  <2> QED
    BY <2>1 DEF JobsSafe, JobsInv, AcknowledgedJobsRun, EndedStays, Up
<1> QED
  BY <1>3, <1>4, <1>5, <1>6, <1>7, AllMove, ToolReturnsJobs, JobEndsJobs, RecoverJobJobs

LEMMA JobsInit ==
  Init => CallsInv /\ JobsInv
<1>1. Init => JobsInv
  BY DEF Init, JobsInv, AcknowledgedJobsRun, Up
<1> QED
  BY <1>1, CallsInit

\* In a healthy runtime the jobs that the log says are queued are exactly those a
\* task runs for, whatever is cancelled, closed, crashed or opened again
\* (runtime.py: _run_call, _run_job, _recover).
THEOREM AcknowledgedJobsAlwaysRun == Spec => []AcknowledgedJobsRun
<1>1. CallsInv /\ JobsInv /\ [Next]_vars => (CallsInv /\ JobsInv)'
  BY JobsStep, NextCalls DEF JobsSafe, Sound
<1>2. JobsInv => AcknowledgedJobsRun
  BY DEF JobsInv
<1> QED
  BY <1>1, <1>2, JobsInit, PTL DEF Spec

\* A job ends once: its status does not change again and its notification, once
\* delivered, does not come back, after a restart either.
THEOREM JobsAlwaysEndOnce == Spec => JobsEndOnce
<1>1. CallsInv /\ JobsInv /\ [Next]_vars => (CallsInv /\ JobsInv)'
  BY JobsStep, NextCalls DEF JobsSafe, Sound
<1>2. CallsInv /\ JobsInv /\ [Next]_vars =>
        [\A j \in DOMAIN state.jobs : state.jobs[j] # "queued" =>
           /\ state'.jobs[j] = state.jobs[j]
           /\ j \notin Waiting(state) => j \notin Waiting(state')]_vars
  BY JobsStep DEF JobsSafe, EndedStays
<1> QED
  BY <1>1, <1>2, JobsInit, PTL DEF Spec, JobsEndOnce

-------------------------------------------------------------------------------
(* Without compaction, the context still has every call an action was      *)
(* recorded for, so FreshCalls keeps the provider from using an id again.  *)

NothingForgotten ==
  w.pc \notin CompactPCs /\ ActedOn(state) \subseteq SeenCalls(state.messages)

\* The context grows at its end.
Extends(t, ms) == \A i \in DOMAIN ms : i \in DOMAIN t /\ t[i] = ms[i]

LEMMA SeenGrows ==
  ASSUME NEW ms, NEW t, Extends(t, ms)
  PROVE  SeenCalls(ms) \subseteq SeenCalls(t)
  BY DEF SeenCalls, Extends

LEMMA MessagesStay ==
  ASSUME Sane(state), UserJoins \/ ModelAnswers \/ ResultsJoin
  PROVE  state'.actions = state.actions /\ Extends(state'.messages, state.messages)
<1> DEFINE ms == state.messages
           n == Len(ms)
<1>1. /\ ms \in Seq(Message) /\ n \in Nat /\ DOMAIN ms = 1 .. n
      /\ state.currentTurn \in Nat /\ Len(state.actions) \in Nat
  BY StateHas, MessageHas, LenProperties DEF Sane
<1>2. ASSUME NEW m \in Message, state'.messages = Append(ms, m)
      PROVE  Extends(state'.messages, ms)
  <2>1. LET t == Append(ms, m)
        IN  DOMAIN t = 1 .. (n + 1) /\ \A i \in 1 .. n : t[i] = ms[i]
    BY <1>1, AppendIs, LenProperties
  <2>2. \A i \in 1 .. n : i \in 1 .. (n + 1)
    BY <1>1
  <2> QED
    BY <1>1, <1>2, <2>1, <2>2 DEF Extends
<1>3. CASE UserJoins
  <2>1. UserMessage(state.currentTurn) \in Message
    BY <1>1, UserMessageIs
  <2> QED
    BY <1>2, <1>3, <2>1 DEF UserJoins
<1>4. CASE ModelAnswers
  <2>1. PICK calls \in Seq(CallIds) :
          ms' = Append(ms, AssistantMessage(state.currentTurn, calls, Len(state.actions)))
    BY <1>4 DEF ModelAnswers
  <2>2. AssistantMessage(state.currentTurn, calls, Len(state.actions)) \in Message
    BY <1>1, AssistantMessageIs
  <2> QED
    BY <1>2, <1>4, <2>1, <2>2 DEF ModelAnswers
<1>5. CASE ResultsJoin
  <2>1. PICK shown \in [DOMAIN BatchCalls -> Nat] :
          ms' = ms \o [k \in DOMAIN BatchCalls |->
                         ToolMessage(state.currentTurn, BatchCalls[k], shown[k])]
    BY <1>5 DEF ResultsJoin
  <2> DEFINE l == Len(BatchCalls)
             m(k) == ToolMessage(state.currentTurn, BatchCalls[k], shown[k])
             answers == [k \in 1 .. l |-> m(k)]
  <2>2. BatchCalls \in Seq(CallIds) /\ l \in Nat /\ DOMAIN BatchCalls = 1 .. l
    <3>1. HasBatch(ms)
      BY <1>5 DEF ResultsJoin
    <3>2. n \in 1 .. n
      BY <1>1, <3>1, MessageHas DEF HasBatch
    <3>3. ms[n] \in Message
      BY <1>1, <3>2, ElementOfSeq
    <3>4. ms[n].calls \in Seq(CallIds)
      BY <3>3 DEF Message
    <3> QED
      BY <3>4, LenProperties DEF BatchCalls, LastOf
  <2>3. \A k \in 1 .. l : m(k) \in Message
    <3> SUFFICES ASSUME NEW k \in 1 .. l
                 PROVE  m(k) \in Message
      OBVIOUS
    <3>1. BatchCalls[k] \in CallIds /\ shown[k] \in Nat
      BY <2>2, ElementOfSeq
    <3> QED
      BY <1>1, <3>1, ToolMessageIs
  <2>4. ms' = ms \o answers
    BY <2>1, <2>2
  <2> HIDE DEF m, l
  <2>5. answers \in Seq(Message)
    BY <2>2, <2>3, IsASeq
  <2> HIDE DEF answers
  <2>6. LET t == ms \o answers
        IN  /\ t \in Seq(Message) /\ Len(t) = n + Len(answers)
            /\ \A i \in 1 .. n : t[i] = ms[i]
    BY <1>1, <2>5, ConcatIs
  <2>7. LET t == ms \o answers
        IN  DOMAIN t = 1 .. (n + Len(answers)) /\ Len(answers) \in Nat
    BY <2>5, <2>6, LenProperties
  <2>8. \A i \in 1 .. n : i \in 1 .. (n + Len(answers))
    BY <1>1, <2>7
  <2>9. Extends(ms \o answers, ms)
    BY <1>1, <2>6, <2>7, <2>8 DEF Extends
  <2> QED
    BY <1>5, <2>4, <2>9 DEF ResultsJoin
<1> QED
  BY <1>3, <1>4, <1>5 DEF UserJoins, ModelAnswers, ResultsJoin

\* A batch is served by actions for its own calls.
LEMMA ActsOnSeen ==
  ASSUME Sane(state), Traced(state), ActionJoins \/ ActionEnds
  PROVE  ActedOn(state') \subseteq ActedOn(state) \cup SeenCalls(state.messages)
<1>1. /\ HasBatch(state.messages) /\ state.actions \in Seq(Action)
      /\ Len(state.actions) \in Nat /\ ActionsInBatch \in Nat /\ Len(BatchCalls) \in Nat
      /\ DOMAIN BatchCalls = 1 .. Len(BatchCalls)
      /\ DOMAIN state.actions = 1 .. Len(state.actions)
  BY TracedBatch, LenProperties DEF ActionJoins, ActionEnds
<1>2. CASE ActionJoins
  <2>1. PICK x \in Action : /\ x.call = BatchCalls[ActionsInBatch + 1]
                            /\ state'.actions = Append(state.actions, x)
    BY <1>2 DEF ActionJoins
  <2>2. x.call \in SeenCalls(state.messages)
    <3>1. ActionsInBatch + 1 \in DOMAIN BatchCalls
      <4>1. ActionsInBatch < Len(BatchCalls)
        BY <1>2 DEF ActionJoins
      <4> QED
        BY <1>1, <4>1
    <3>2. Len(state.messages) \in DOMAIN state.messages
      BY <1>1, StateHas, MessageHas DEF Sane, HasBatch
    <3> QED
      BY <2>1, <3>1, <3>2 DEF SeenCalls, BatchCalls, LastOf
  <2>3. LET as == Append(state.actions, x)
        IN  /\ Len(as) = Len(state.actions) + 1 /\ as[Len(state.actions) + 1] = x
            /\ \A a \in 1 .. Len(state.actions) : as[a] = state.actions[a]
    BY <1>1, AppendIs
  <2>4. \A a \in 1 .. (Len(state.actions) + 1) :
          a \in 1 .. Len(state.actions) \/ a = Len(state.actions) + 1
    BY <1>1
  <2> QED
    BY <2>1, <2>2, <2>3, <2>4 DEF ActedOn
<1>3. CASE ActionEnds
  <2> DEFINE last == Len(state.actions)
  <2>1. PICK r \in Results \ {"none"} : state'.actions = Ended(state.actions, last, r)
    BY <1>3 DEF ActionEnds
  <2> DEFINE x == [state.actions[last] EXCEPT !.result = r]
             as == [state.actions EXCEPT ![last] = x]
  <2>2. last \in 1 .. last /\ state.actions[last] \in Action
    <3>1. last # 0
      BY <1>3 DEF ActionEnds
    <3>2. last \in 1 .. last
      BY <1>1, <3>1, LastIsIn, Zenon
    <3> QED
      BY <1>1, <3>2, ElementOfSeq
  <2>3. x.call = state.actions[last].call /\ x \in Action
    BY <2>2 DEF Action
  <2>4. state'.actions = as
    BY <2>1 DEF Ended
  <2> HIDE DEF x
  <2>5. as \in Seq(Action)
    BY <1>1, <2>3, ExceptIsSeq, Zenon
  <2>6. DOMAIN as = 1 .. last /\ Len(as) = last
    BY <1>1, <2>5, LenProperties
  <2>7. \A a \in 1 .. last : as[a].call = state.actions[a].call
    BY <1>1, <2>3
  <2> HIDE DEF as
  <2> QED
    BY <2>4, <2>6, <2>7 DEF ActedOn
<1> QED
  BY <1>2, <1>3

LEMMA NothingForgottenStep ==
  ASSUME NoCompaction, CallsInv, Traced(state), NothingForgotten, [Next]_vars
  PROVE  NothingForgotten' /\ IdsAreNew
<1>1. Sane(state) /\ CallsChange
  BY NextCalls DEF Sound, CallsInv
<1>2. w'.pc \notin CompactPCs
  <2>1. CASE Moves
    BY <2>1 DEF Moves, GoesTo, Guarded, NothingForgotten, CompactPCs
  <2>2. CASE \/ StartTurn \/ StartAction \/ ToolReturns \/ Start \/ RecoverJob \/ Resume
             \/ (\E j \in tasks : JobEnds(j)) \/ Closed \/ Crash
    BY <2>2, OthersGo DEF NothingForgotten, CompactPCs
  <2> QED
    BY <2>1, <2>2, AllMove
<1>3. ActedOn(state') \subseteq SeenCalls(state'.messages)
  <2>1. CASE Untouched
    BY <2>1 DEF Untouched, ActedOn, NothingForgotten
  <2>2. CASE UserJoins \/ ModelAnswers \/ ResultsJoin
    <3>1. SeenCalls(state.messages) \subseteq SeenCalls(state'.messages)
      BY <1>1, <2>2, MessagesStay, SeenGrows
    <3>2. ActedOn(state') = ActedOn(state)
      BY <1>1, <2>2, MessagesStay DEF ActedOn
    <3> QED
      BY <3>1, <3>2 DEF NothingForgotten
  <2>3. CASE ActionJoins \/ ActionEnds \/ CallCloses
    <3>1. ActionJoins \/ ActionEnds
      BY <1>1, <2>3, ClosingIs
    <3>2. state'.messages = state.messages
      BY <3>1 DEF ActionJoins, ActionEnds
    <3> QED
      BY <1>1, <3>1, <3>2, ActsOnSeen DEF NothingForgotten
  <2>4. ~Compacts
    BY DEF Compacts, NothingForgotten, CompactPCs
  <2> QED
    BY <1>1, <2>1, <2>2, <2>3, <2>4 DEF CallsChange
<1> QED
  BY <1>2, <1>3 DEF NothingForgotten, IdsAreNew

\* As long as nothing is compacted the two hold whatever the provider answers: its
\* reply is refused if it uses an id of the context again (runtime.py: _generate).
THEOREM EffectsWithoutCompaction ==
  ASSUME NoCompaction
  PROVE  Spec => [](ResultsAreOwn /\ EffectsAccountedFor)
<1> DEFINE I == CallsInv /\ Traced(state) /\ NothingForgotten
<1>1. Init => I
  <2> SUFFICES ASSUME Init
               PROVE  I
    OBVIOUS
  <2>1. CallsInv /\ Traced(state) /\ state.actions = <<>>
    BY TracedInit, CallsInit
  <2>2. \A a \in 1 .. Len(<<>>) : FALSE
    OBVIOUS
  <2>3. NothingForgotten
    BY <2>1, <2>2 DEF Init, NoWorker, NothingForgotten, ActedOn, CompactPCs
  <2> QED
    BY <2>1, <2>3
<1>2. I /\ [Next]_vars => I'
  BY NothingForgottenStep, TracedStep, NextCalls DEF Sound
<1>3. I => ResultsAreOwn /\ EffectsAccountedFor
  BY TracedShows
<1> QED
  BY <1>1, <1>2, <1>3, PTL DEF Spec

-------------------------------------------------------------------------------
(* Tickets and the queue.                                                  *)

\* Each request is where its status says, and none is accepted between turns.
Filed(s) ==
  /\ \A r \in Requests : /\ s.requests[r] = "queued" => r \in Queue(s)
                         /\ s.requests[r] = "accepted" => r \in s.turnRequests
  /\ s.currentTurn = 0 => s.turnRequests = {}

NonePending(told) == \A r \in Requests : told[r] # "pending"

\* A compaction outside a turn.
AtTop(v) == v.pc \in CompactPCs /\ v.site = "top"

\* Who will answer the ticket: the drain, the turn, or the turn that has ended.
Answerable(s, v, r) ==
  \/ v.pc # "none" /\ r \in Queue(s)
  \/ InTurn(v) /\ (r \in s.turnRequests \/ r = v.entry)
  \/ v.pc = "postTurn" /\ r \in v.owed

Covered(s, v, told) ==
  /\ s.turnRequests # {} => InTurn(v)
  /\ AtTop(v) => v.timer = "off"
  /\ \A r \in Requests : told[r] = "pending" => Answerable(s, v, r)

TicketsInv ==
  /\ Filed(state)
  /\ Up => Covered(state, w, tickets)
  /\ life \notin {"open", "closing"} => NonePending(tickets)

\* The numbers of what is in the queue and of what is to be notified.
Numbered(s) ==
  /\ \A r \in Queue(s) : /\ s.queue[r].seq <= s.clock /\ s.queue[r].target <= s.turns
                           /\ s.requests[r] # "absent"
  /\ \A r, q \in Queue(s) : s.queue[r].seq = s.queue[q].seq => r = q
  /\ \A j \in Waiting(s) : s.notifications[j] <= s.clock
  /\ \A r \in Queue(s), j \in Waiting(s) : s.queue[r].seq # s.notifications[j]
  /\ s.currentTurn <= s.turns

\* The worker has an entry of its own, from the head of the queue.
Busy(v) == v.pc \in TurnPCs \cup CompactPCs

\* The worker has a work list; the input it has just accepted is off it.
Boundary(v) ==
  \/ v.pc = "arrivals"
  \/ v.pc \in {"preUser", "postUser"} \cup CompactPCs /\ v.site \in {"head", "tail"}
Remaining(v) == IF v.pc = "postUser" THEN v.arrivals \ {First(v.arrivals)} ELSE v.arrivals

HeadFirst(s, v) ==
  /\ Busy(v) => s.requests[v.entry] # "absent"
  /\ Busy(v) /\ v.entry \in Queue(s) =>
    /\ \A q \in Queue(s) : s.queue[v.entry].seq <= s.queue[q].seq
    /\ InTurn(v) => /\ Mode[v.entry] # "compact"
                    /\ s.queue[v.entry].target # s.currentTurn

ArrivalsOf(s) ==
  {[kind |-> "input", id |-> r, seq |-> s.queue[r].seq] :
     r \in {q \in Queue(s) : \/ Mode[q] = "compact"
                             \/ Mode[q] = "steer" /\ s.queue[q].target = s.currentTurn}}
  \cup {[kind |-> "notification", id |-> j, seq |-> s.notifications[j]] : j \in Waiting(s)}

ListFirst(s, v) ==
  Boundary(v) =>
    /\ \A y \in v.arrivals : y.seq <= s.clock
    /\ \A y \in Remaining(v) : y.kind = "input" => y \in ArrivalsOf(s)
    /\ \A x \in ArrivalsOf(s), y \in v.arrivals : x \in Remaining(v) \/ y.seq < x.seq
    /\ v.pc = "postUser" => /\ First(v.arrivals).id \notin Queue(s)
                            /\ s.requests[First(v.arrivals).id] # "absent"

Served(s, v) ==
  /\ s.currentTurn # 0 => InTurn(v)
  /\ HeadFirst(s, v)
  /\ ListFirst(s, v)

QueueInv ==
  /\ Numbered(state)
  /\ Up => Served(state, w)


-------------------------------------------------------------------------------
(* What most steps do to requests, tickets and the worker: the steps that   *)
(* do more are named in AllQuiet.                                           *)

\* Nothing about requests changes, and nothing new is to be notified.
SameArrivals(s) ==
  /\ SameRequests(state, s) /\ s.clock = state.clock /\ s.turns = state.turns
  /\ \A j \in Waiting(s) : j \in Waiting(state) /\ s.notifications[j] = state.notifications[j]

\* The worker stays with its turn, its entry and its work list.
Calm(v) ==
  /\ v.pc = "none" <=> w.pc = "none"
  /\ InTurn(v) <=> InTurn(w)
  /\ Busy(v) <=> Busy(w)
  /\ Busy(v) => v.entry = w.entry
  /\ w.pc = "postTurn" => v = w
  /\ AtTop(v) => v.timer = w.timer
  /\ Boundary(v) => /\ Boundary(w) /\ Remaining(v) = Remaining(w)
                    /\ v.arrivals \subseteq w.arrivals
                    /\ v.pc = "postUser" => w.pc = "postUser" /\ v.arrivals = w.arrivals

Quiet ==
  /\ SameArrivals(state')
  /\ Up' => Up /\ Calm(w') /\ tickets' = tickets
  /\ tickets' = tickets \/ NonePending(tickets')
  /\ life \in {"open", "closing"} /\ life' \notin {"open", "closing"} => NonePending(tickets')

LEMMA BrokenPendsNone ==
  tickets' = Broken => NonePending(tickets')
  BY DEF Broken, NonePending

LEMMA CalmStep ==
  ASSUME NEW v, Step(v), Calm(v), SameArrivals(state)
  PROVE  Quiet
<1>1. w' = v /\ UNCHANGED <<state, life, poisoned, tickets>>
  BY DEF Step
<1> QED
  BY <1>1 DEF Quiet, Up

LEMMA CalmRecord ==
  ASSUME NEW next, NEW v, RecordOnly(next, v, tickets), Calm(v),
         SameArrivals(state), SameArrivals(next)
  PROVE  Quiet
<1>1. CASE state' = next /\ w' = v /\ UNCHANGED <<life, poisoned, tickets>>
  BY <1>1 DEF Quiet, Up
<1>2. CASE RecordFails(next)
  <2>1. /\ state' \in {state, next} /\ tickets' = Broken
        /\ IF life = "recovering" THEN life' = "down" ELSE poisoned' = TRUE
    BY <1>2 DEF RecordFails
  <2>2. NonePending(tickets') /\ ~Up'
    BY <2>1, BrokenPendsNone DEF Up
  <2>3. SameArrivals(state')
    BY <2>1
  <2> QED
    BY <2>2, <2>3 DEF Quiet
<1> QED
  BY <1>1, <1>2 DEF RecordOnly

\* Within a turn, away from its boundaries.
LEMMA CalmInTurn ==
  ASSUME InTurn(w), NEW v, v.pc \in TurnPCs \ {"arrivals", "preUser", "postUser"},
         v.entry = w.entry
  PROVE  Calm(v)
<1>1. w.pc \in TurnPCs \cup CompactPCs /\ w.pc # "none" /\ w.pc # "postTurn"
  BY DEF InTurn, TurnPCs, CompactPCs
<1>2. v.pc # "none" /\ InTurn(v) /\ Busy(v) /\ Busy(w) /\ ~Boundary(v) /\ ~AtTop(v)
  BY <1>1 DEF InTurn, Busy, Boundary, AtTop, TurnPCs, CompactPCs
<1> QED
  BY <1>1, <1>2 DEF Calm

LEMMA CalmThrow ==
  ASSUME w \in Workers, InTurn(w), NEW outcome
  PROVE  Calm(Thrown(outcome)) /\ Calm([Thrown(outcome) EXCEPT !.timer = "fired"])
<1> DEFINE a == Thrown(outcome)
           b == [Thrown(outcome) EXCEPT !.timer = "fired"]
<1>1. a.pc = "unwind" /\ a.entry = w.entry /\ b.pc = "unwind" /\ b.entry = w.entry
  BY DEF Thrown, Workers
<1> HIDE DEF a, b
<1>2. "unwind" \in TurnPCs \ {"arrivals", "preUser", "postUser"}
  BY DEF TurnPCs
<1>3. Calm(a) /\ Calm(b)
  BY <1>1, <1>2, CalmInTurn
<1> QED
  BY <1>3 DEF a, b

\* Within a compaction.
LEMMA CalmCompaction ==
  ASSUME w \in Workers, w.pc \in CompactPCs, NEW pc \in CompactPCs
  PROVE  Calm([w EXCEPT !.pc = pc])
<1> DEFINE v == [w EXCEPT !.pc = pc]
<1>1. v.pc = pc /\ v.site = w.site /\ v.entry = w.entry /\ v.arrivals = w.arrivals
      /\ v.timer = w.timer
  BY DEF Workers
<1> HIDE DEF v
<1>2. Calm(v)
  BY <1>1 DEF Calm, InTurn, Busy, Boundary, AtTop, Remaining, TurnPCs, CompactPCs
<1> QED
  BY <1>2 DEF v

\* Events that are not about requests.
LEMMA EventsAreQuiet ==
  ASSUME state \in States, NEW a, NEW b, NEW c
  PROVE  /\ SameArrivals(state)
         /\ SameArrivals(AssistantCommitted(state, a)) /\ SameArrivals(ActionStarted(state, a))
         /\ SameArrivals(ActionCompleted(state, a, b, c))
         /\ SameArrivals(ToolsCommitted(state, a, b)) /\ SameArrivals(CompactCommitted(state, a))
         /\ SameArrivals(JobAccepted(state, a, b)) /\ SameArrivals(NotificationAccepted(state, a))
<1> DEFINE Same(t) == /\ t.clock = state.clock /\ t.turns = state.turns
                      /\ t.notifications = state.notifications
<1>1. Typed(state) /\ state.notifications \in Seq(Nat) /\ SameRequests(state, state)
  BY StateHas DEF SameRequests, States
<1>2. \A t : Same(t) /\ SameRequests(state, t) => SameArrivals(t)
  BY DEF SameArrivals, Waiting
<1>3. /\ Same(state) /\ Same(AssistantCommitted(state, a)) /\ Same(ActionStarted(state, a))
      /\ Same(ActionCompleted(state, a, b, c)) /\ Same(ToolsCommitted(state, a, b))
      /\ Same(CompactCommitted(state, a))
  BY DEF States, AssistantCommitted, ActionStarted, ActionCompleted, ToolsCommitted,
         CompactCommitted
<1>4. SameArrivals(JobAccepted(state, a, b))
  <2> DEFINE t == JobAccepted(state, a, b)
  <2>1. /\ t.clock = state.clock /\ t.turns = state.turns
        /\ t.notifications = Append(state.notifications, 0)
    BY DEF States, JobAccepted, ActionCompleted
  <2>2. SameRequests(state, t)
    BY <1>1, JobEvents
  <2> HIDE DEF t
  <2>3. ASSUME NEW j \in Waiting(t)
        PROVE  j \in Waiting(state) /\ t.notifications[j] = state.notifications[j]
    BY <1>1, <2>1 DEF Waiting
  <2>4. SameArrivals(t)
    BY <2>1, <2>2, <2>3 DEF SameArrivals
  <2> QED
    BY <2>4 DEF t
<1>5. SameArrivals(NotificationAccepted(state, a))
  <2> DEFINE t == NotificationAccepted(state, a)
  <2>1. /\ t.clock = state.clock /\ t.turns = state.turns
        /\ t.notifications = [state.notifications EXCEPT ![a] = 0]
    BY DEF States, NotificationAccepted
  <2>2. SameRequests(state, t)
    BY <1>1, JobEvents
  <2> HIDE DEF t
  <2>3. ASSUME NEW j \in Waiting(t)
        PROVE  j \in Waiting(state) /\ t.notifications[j] = state.notifications[j]
    BY <1>1, <2>1 DEF Waiting
  <2>4. SameArrivals(t)
    BY <2>1, <2>2, <2>3 DEF SameArrivals
  <2> QED
    BY <2>4 DEF t
<1> HIDE DEF Same
<1>6. /\ SameRequests(state, AssistantCommitted(state, a))
      /\ SameRequests(state, ActionStarted(state, a))
      /\ SameRequests(state, ActionCompleted(state, a, b, c))
      /\ SameRequests(state, ToolsCommitted(state, a, b))
      /\ SameRequests(state, CompactCommitted(state, a))
  BY <1>1, MessageEvents
<1> QED
  BY <1>1, <1>2, <1>3, <1>4, <1>5, <1>6

\* Away from start() the worker is of its shape.
LEMMA AtWorkShaped ==
  ASSUME CallsInv, w.pc \notin {"none", "closeBatch"}
  PROVE  Shaped(w) /\ Placed(state, w) /\ life \in {"open", "closing"}
  BY DEF CallsInv, Lifecycle, TypeOK, NoWorker, Recoverer

LEMMA TurnQuiet ==
  ASSUME CallsInv,
         \/ PreTurn \/ PostUser \/ TakeInput \/ Fits \/ Outgrown \/ DoesNotFit
         \/ LeaveHead \/ LeaveTail \/ Unwind
         \/ ((RefuseUser \/ PostUserFails) /\ w.site = "turn")
  PROVE  Quiet
<1>1. w \in Workers /\ state \in States /\ SameArrivals(state)
  BY TypedParts, EventsAreQuiet
<1>2. /\ ~poisoned
      /\ w.pc \in {"preTurn", "postUser", "preUser", "arrivals", "budget", "fit", "unwind"}
  BY DEF PreTurn, PostUser, TakeInput, Fits, Outgrown, DoesNotFit, LeaveHead, LeaveTail,
         Unwind, RefuseUser, PostUserFails, At
<1>3. InTurn(w) /\ Shaped(w)
  BY <1>2, AtWorkShaped DEF InTurn, TurnPCs
<1>4. \A outcome : Throw(outcome) => Quiet
  BY <1>1, <1>3, CalmThrow, CalmStep DEF Throw
<1>5. ASSUME NEW v, v.pc \in TurnPCs \ {"arrivals", "preUser", "postUser"}, v.entry = w.entry
      PROVE  Calm(v) /\ (Step(v) => Quiet)
  BY <1>1, <1>3, <1>5, CalmInTurn, CalmStep
<1>6. CASE PreTurn
  <2> DEFINE v == [w EXCEPT !.pc = "preUser", !.entered = TRUE]
  <2>1. v.pc = "preUser" /\ v.entry = w.entry /\ v.site = w.site
    BY <1>1 DEF Workers
  <2>2. w.site = "turn" /\ w.pc = "preTurn" /\ (Step(v) \/ Throw("failed"))
    BY <1>3, <1>6 DEF PreTurn, At, Shaped
  <2> HIDE DEF v
  <2>3. Calm(v)
    BY <2>1, <2>2 DEF Calm, InTurn, Busy, Boundary, AtTop, TurnPCs, CompactPCs
  <2> QED
    BY <1>1, <1>4, <2>2, <2>3, CalmStep
<1>7. CASE PostUser
  <2> DEFINE a == [w EXCEPT !.pc = "boundary", !.site = "head", !.timer = "on"]
             b == [NextArrival EXCEPT !.steered = TRUE]
  <2>1. a.pc = "boundary" /\ a.entry = w.entry
    BY <1>1 DEF Workers
  <2>2. /\ b.pc = "arrivals" /\ b.entry = w.entry /\ b.site = w.site
        /\ b.arrivals = w.arrivals \ {First(w.arrivals)}
    BY <1>1 DEF Workers, NextArrival
  <2>3. /\ w.pc = "postUser" /\ w.site \in {"turn", "head", "tail"}
        /\ IF w.site = "turn" THEN Step(a) ELSE Step(b)
    BY <1>3, <1>7 DEF PostUser, At, Shaped
  <2> HIDE DEF a, b
  <2>4. w.site # "turn" => Calm(b)
    BY <2>2, <2>3 DEF Calm, InTurn, Busy, Boundary, AtTop, Remaining, TurnPCs, CompactPCs
  <2>5. Calm(a)
    BY <1>5, <2>1 DEF TurnPCs
  <2> QED
    BY <1>1, <2>3, <2>4, <2>5, CalmStep
<1>8. CASE TakeInput
  <2> DEFINE pc == IF Mode[First(w.arrivals).id] = "compact" THEN "compact" ELSE "preUser"
             v == [w EXCEPT !.pc = pc]
  <2>1. v.pc \in {"compact", "preUser"} /\ v.entry = w.entry /\ v.site = w.site
        /\ v.arrivals = w.arrivals
    BY <1>1 DEF Workers
  <2>2. Step(v) /\ w.pc = "arrivals" /\ w.site \in {"head", "tail"}
    BY <1>3, <1>8 DEF TakeInput, At, Shaped
  <2> HIDE DEF v
  <2>3. Calm(v)
    BY <2>1, <2>2 DEF Calm, InTurn, Busy, Boundary, AtTop, Remaining, TurnPCs, CompactPCs
  <2> QED
    BY <1>1, <2>2, <2>3, CalmStep
<1>9. CASE Fits
  <2> DEFINE v == [w EXCEPT !.pc = "preStep", !.steps = @ + 1, !.called = FALSE]
  <2>1. v.pc = "preStep" /\ v.entry = w.entry /\ RecordOnly(state, v, tickets)
    BY <1>1, <1>9 DEF Workers, Fits, Log, Record, RecordAndTell
  <2> HIDE DEF v
  <2>2. Calm(v)
    BY <1>5, <2>1 DEF TurnPCs
  <2> QED
    BY <1>1, <2>1, <2>2, CalmRecord
<1>10. CASE Outgrown
  <2> DEFINE v == [w EXCEPT !.pc = "compact", !.site = "budget"]
  <2>1. v.pc = "compact" /\ v.entry = w.entry /\ v.site = "budget" /\ Step(v)
        /\ w.pc = "budget"
    BY <1>1, <1>10 DEF Workers, Outgrown, At
  <2> HIDE DEF v
  <2>2. Calm(v)
    BY <2>1 DEF Calm, InTurn, Busy, Boundary, AtTop, TurnPCs, CompactPCs
  <2> QED
    BY <1>1, <2>1, <2>2, CalmStep
<1>11. CASE DoesNotFit \/ ((RefuseUser \/ PostUserFails) /\ w.site = "turn")
  BY <1>4, <1>11 DEF DoesNotFit, RefuseUser, PostUserFails
<1>12. CASE LeaveHead
  <2> DEFINE v == [w EXCEPT !.pc = "budget", !.steered = FALSE]
  <2>1. v.pc = "budget" /\ v.entry = w.entry /\ (Throw("cancelled") \/ Step(v))
    BY <1>1, <1>12 DEF Workers, LeaveHead
  <2> HIDE DEF v
  <2> QED
    BY <1>4, <1>5, <2>1 DEF TurnPCs
<1>13. CASE LeaveTail
  <2> DEFINE a == [w EXCEPT !.pc = "closeBatch", !.timer = "off"]
             b == [w EXCEPT !.pc = "boundary", !.site = "head"]
             c == [w EXCEPT !.pc = "closeBatch", !.timer = "off", !.status = "limited",
                            !.steered = FALSE]
  <2>1. /\ a.pc = "closeBatch" /\ b.pc = "boundary" /\ c.pc = "closeBatch"
        /\ a.entry = w.entry /\ b.entry = w.entry /\ c.entry = w.entry
    BY <1>1 DEF Workers
  <2>2. Step(a) \/ Step(b) \/ Step(c)
    BY <1>13 DEF LeaveTail
  <2> HIDE DEF a, b, c
  <2> QED
    BY <1>5, <2>1, <2>2 DEF TurnPCs
<1>14. CASE Unwind
  <2> DEFINE a == [w EXCEPT !.pc = "closeBatch", !.timer = "off"]
             b == [w EXCEPT !.pc = "closeBatch", !.timer = "off", !.status = "failed"]
  <2>1. /\ a.pc = "closeBatch" /\ b.pc = "closeBatch"
        /\ a.entry = w.entry /\ b.entry = w.entry
    BY <1>1 DEF Workers
  <2>2. Step(a) \/ Step(b)
    BY <1>14 DEF Unwind
  <2> HIDE DEF a, b
  <2> QED
    BY <1>5, <2>1, <2>2 DEF TurnPCs
<1> QED
  BY <1>6, <1>7, <1>8, <1>9, <1>10, <1>11, <1>12, <1>13, <1>14

\* Closing the batch, also at start().
LEMMA CloseQuiet ==
  ASSUME CallsInv, CloseCall \/ CommitClosed
  PROVE  Quiet
<1>1. w \in Workers /\ state \in States /\ SameArrivals(state) /\ Calm(w)
  BY TypedParts, EventsAreQuiet DEF Calm
<1>2. ASSUME NEW next, Record(next, w), SameArrivals(next)
      PROVE  Quiet
  BY <1>1, <1>2, CalmRecord DEF Record, RecordAndTell
<1>3. CASE CloseCall
  <2>1. PICK a, call, result : Record(ActionCompleted(state, a, call, result), w)
    BY <1>3 DEF CloseCall
  <2> QED
    BY <1>1, <1>2, <2>1, EventsAreQuiet
<1>4. CASE CommitClosed
  <2> DEFINE shown == [k \in DOMAIN Open |-> ActionOf(Open[k])]
  <2>1. Record(ToolsCommitted(state, Open, shown), w)
    BY <1>4 DEF CommitClosed
  <2> HIDE DEF shown
  <2> QED
    BY <1>1, <1>2, <2>1, EventsAreQuiet
<1> QED
  BY <1>3, <1>4

LEMMA StepQuiet ==
  ASSUME CallsInv, StepStep
  PROVE  Quiet
<1>1. w \in Workers /\ state \in States /\ SameArrivals(state)
  BY TypedParts, EventsAreQuiet
<1>2. /\ ~poisoned
      /\ w.pc \in {"preStep", "model", "postAssistant", "postStep", "batch", "preAction",
                   "tool", "postAction"}
  BY DEF StepStep, CallModel, StepRefused, ModelFails, ModelInterrupted, ModelReplies,
         PostAssistant, PostStep, SkipCall, OfferCall, StartAction, RefuseAction,
         ToolReturns, ToolInterrupted, PostAction, PostActionFails, CommitBatch, At
<1>3. InTurn(w)
  BY <1>2 DEF InTurn, TurnPCs
<1>4. \A outcome : Calm(Thrown(outcome)) /\ (Throw(outcome) => Quiet)
  BY <1>1, <1>3, CalmThrow, CalmStep DEF Throw
<1>5. ASSUME NEW v, v.pc \in TurnPCs \ {"arrivals", "preUser", "postUser"}, v.entry = w.entry
      PROVE  Calm(v) /\ (Step(v) => Quiet)
  BY <1>1, <1>3, <1>5, CalmInTurn, CalmStep
<1>6. ASSUME NEW pc \in TurnPCs \ {"arrivals", "preUser", "postUser"}
      PROVE  Calm([w EXCEPT !.pc = pc]) /\ (Step([w EXCEPT !.pc = pc]) => Quiet)
  <2> DEFINE v == [w EXCEPT !.pc = pc]
  <2>1. v.pc = pc /\ v.entry = w.entry
    BY <1>1 DEF Workers
  <2> HIDE DEF v
  <2>2. Calm(v) /\ (Step(v) => Quiet)
    BY <1>5, <2>1
  <2> QED
    BY <2>2 DEF v
<1>7. ASSUME NEW next, SameArrivals(next), NEW v, Calm(v), RecordOnly(next, v, tickets)
      PROVE  Quiet
  BY <1>1, <1>7, CalmRecord
<1>8. /\ "model" \in TurnPCs \ {"arrivals", "preUser", "postUser"}
      /\ "batch" \in TurnPCs \ {"arrivals", "preUser", "postUser"}
      /\ "tool" \in TurnPCs \ {"arrivals", "preUser", "postUser"}
      /\ "preAction" \in TurnPCs \ {"arrivals", "preUser", "postUser"}
      /\ "postAction" \in TurnPCs \ {"arrivals", "preUser", "postUser"}
      /\ "postStep" \in TurnPCs \ {"arrivals", "preUser", "postUser"}
      /\ "postAssistant" \in TurnPCs \ {"arrivals", "preUser", "postUser"}
      /\ "boundary" \in TurnPCs \ {"arrivals", "preUser", "postUser"}
  BY DEF TurnPCs
<1>9. CASE CallModel
  BY <1>1, <1>4, <1>6, <1>7, <1>8, <1>9 DEF CallModel, Log, Record, RecordAndTell
<1>10. CASE StepRefused \/ ModelFails \/ ModelInterrupted
  BY <1>4, <1>10 DEF StepRefused, ModelFails, ModelInterrupted
<1>11. ASSUME NEW calls \in Replies, ModelReplies(calls)
       PROVE  Quiet
  <2> DEFINE v == [w EXCEPT !.pc = IF calls = <<>> THEN "postStep" ELSE "postAssistant",
                            !.called = calls # <<>>]
             next == AssistantCommitted(state, calls)
  <2>1. v.pc \in {"postStep", "postAssistant"} /\ v.entry = w.entry
    BY <1>1 DEF Workers
  <2>2. RecordOnly(next, v, tickets) \/ Throw("failed")
    BY <1>11 DEF ModelReplies, Record, RecordAndTell
  <2>3. SameArrivals(next)
    BY <1>1, EventsAreQuiet
  <2> HIDE DEF v, next
  <2>4. Calm(v)
    BY <1>5, <1>8, <2>1
  <2> QED
    BY <1>4, <1>7, <2>2, <2>3, <2>4
<1>12. CASE PostAssistant \/ PostAction \/ OfferCall
  BY <1>4, <1>6, <1>8, <1>12 DEF PostAssistant, PostAction, OfferCall
<1>13. CASE PostStep
  <2> DEFINE v == [w EXCEPT !.pc = "boundary", !.site = "tail"]
  <2>1. v.pc = "boundary" /\ v.entry = w.entry /\ (Step(v) \/ Throw("failed"))
    BY <1>1, <1>13 DEF Workers, PostStep
  <2> HIDE DEF v
  <2> QED
    BY <1>4, <1>5, <1>8, <2>1
<1>14. CASE SkipCall \/ RefuseAction
  <2>1. RecordOnly(ActionCompleted(state, Running + 1, NextCall, "skipped"),
                   [w EXCEPT !.pc = "postAction"], tickets)
    BY <1>14 DEF SkipCall, RefuseAction, Record, RecordAndTell
  <2> QED
    BY <1>1, <1>6, <1>7, <1>8, <2>1, EventsAreQuiet
<1>15. CASE StartAction
  <2>1. RecordOnly(ActionStarted(state, NextCall), [w EXCEPT !.pc = "tool"], tickets)
    BY <1>15 DEF StartAction
  <2> QED
    BY <1>1, <1>6, <1>7, <1>8, <2>1, EventsAreQuiet
<1>16. CASE ToolReturns
  <2>1. \/ RecordOnly(JobAccepted(state, Running, RunningCall),
                      [w EXCEPT !.pc = "postAction"], tickets)
        \/ RecordOnly(ActionCompleted(state, Running, RunningCall, "returned"),
                      [w EXCEPT !.pc = "postAction"], tickets)
    BY <1>16 DEF ToolReturns
  <2> QED
    BY <1>1, <1>6, <1>7, <1>8, <2>1, EventsAreQuiet
<1>17. CASE ToolInterrupted
  <2> DEFINE v == [w EXCEPT !.pc = "postAction", !.hit = FALSE]
  <2>1. /\ v.pc = "postAction" /\ v.entry = w.entry
        /\ RecordOnly(ActionCompleted(state, Running, RunningCall, "unknown"), v, tickets)
    BY <1>1, <1>17 DEF Workers, ToolInterrupted
  <2> HIDE DEF v
  <2> QED
    BY <1>1, <1>5, <1>7, <1>8, <2>1, EventsAreQuiet
<1>18. CASE PostActionFails
  <2>1. /\ state' = ActionCompleted(state, Running, RunningCall, "skipped")
        /\ poisoned' = TRUE /\ tickets' = Broken /\ life' = life
    BY <1>18 DEF PostActionFails
  <2>2. SameArrivals(state') /\ NonePending(tickets') /\ ~Up'
    BY <1>1, <2>1, EventsAreQuiet, BrokenPendsNone DEF Up
  <2> QED
    BY <2>2 DEF Quiet
<1>19. CASE CommitBatch
  <2> DEFINE v == IF cancel THEN Thrown(Interruption) ELSE [w EXCEPT !.pc = "postStep"]
             shown == [k \in DOMAIN Batch.calls |-> Batch.number + k]
  <2>1. RecordOnly(ToolsCommitted(state, Batch.calls, shown), v, tickets)
    BY <1>19 DEF CommitBatch, Record, RecordAndTell
  <2>2. Calm(v)
    BY <1>4, <1>6, <1>8
  <2> HIDE DEF v, shown
  <2> QED
    BY <1>1, <1>7, <2>1, <2>2, EventsAreQuiet
<1> QED
  BY <1>9, <1>10, <1>11, <1>12, <1>13, <1>14, <1>15, <1>16, <1>17, <1>18, <1>19 DEF StepStep

\* An input is done with, by its refusal or after its compaction.
Settles ==
  /\ ~poisoned /\ life \in {"open", "closing"}
  /\ \/ /\ w.pc \in {"preUser", "postUser"} \cup CompactPCs /\ w.site \in {"head", "tail"}
        /\ \E outcome \in Outcomes :
             RecordAndTell(InputFinished(state, Current, outcome), NextArrival,
                           Resolve({Current}, outcome))
     \/ /\ w.pc \in CompactPCs /\ w.site = "top"
        /\ \E outcome \in Outcomes :
             RecordAndTell(InputFinished(state, Current, outcome),
                           [NoWorker EXCEPT !.pc = "drain"], Resolve({Current}, outcome))

\* cancel() during a compaction outside a turn, and a failing diagnostic after
\* the turn's end, are the ways to lose the worker of a healthy runtime.
LosesWorker == PostTurnFails \/ (SummaryInterrupted /\ w.site = "top")

LEMMA CompactQuiet ==
  ASSUME CallsInv, CompactStep
  PROVE  Quiet \/ Settles \/ LosesWorker
<1>1. w \in Workers /\ state \in States /\ SameArrivals(state)
  BY TypedParts, EventsAreQuiet
<1>2. ~poisoned /\ w.pc \in CompactPCs
  BY DEF CompactStep, StartCompact, CallCompactor, CommitSummary, SummaryFails,
         SummaryInterrupted, PostCompact, At, CompactPCs
<1>3. /\ Shaped(w) /\ life \in {"open", "closing"} /\ Busy(w)
      /\ w.site \in {"head", "tail", "budget", "top"}
      /\ w.site # "top" => InTurn(w)
  BY <1>2, AtWorkShaped DEF Busy, InTurn, CompactPCs, Shaped
<1>4. ASSUME NEW outcome \in {"completed", "failed"}, FinishCompact(outcome),
             w.site # "budget"
      PROVE  Settles
  BY <1>2, <1>3, <1>4 DEF FinishCompact, Settles, Outcomes
<1>5. CompactReturns => Quiet \/ Settles
  <2> SUFFICES ASSUME CompactReturns, w.site = "budget"
               PROVE  Quiet
    BY <1>4 DEF CompactReturns
  <2> DEFINE v == [w EXCEPT !.pc = "fit", !.site = "head"]
  <2>1. v.pc = "fit" /\ v.entry = w.entry /\ Step(v)
    BY <1>1 DEF Workers, CompactReturns
  <2> HIDE DEF v
  <2>2. Calm(v)
    BY <1>3, <2>1, CalmInTurn DEF TurnPCs
  <2> QED
    BY <1>1, <2>1, <2>2, CalmStep
<1>6. \A outcome : CompactRaises(outcome) => Quiet \/ Settles
  BY <1>1, <1>3, <1>4, CalmThrow, CalmStep DEF CompactRaises, Throw
<1>7. ASSUME NEW pc \in CompactPCs, NEW next, SameArrivals(next),
             Record(next, [w EXCEPT !.pc = pc])
      PROVE  Quiet
  BY <1>1, <1>2, <1>7, CalmCompaction, CalmRecord DEF Record, RecordAndTell
<1>8. "preCompact" \in CompactPCs /\ "summary" \in CompactPCs /\ "postCompact" \in CompactPCs
  BY DEF CompactPCs
<1>9. CASE StartCompact \/ CallCompactor \/ SummaryFails \/ PostCompact
  BY <1>1, <1>5, <1>6, <1>7, <1>8, <1>9
     DEF StartCompact, CallCompactor, SummaryFails, PostCompact, Log
<1>10. CASE CommitSummary
  <2>1. PICK split \in Splits : Record(CompactCommitted(state, split),
                                       [w EXCEPT !.pc = "postCompact"])
    BY <1>10 DEF CommitSummary
  <2> QED
    BY <1>1, <1>7, <1>8, <2>1, EventsAreQuiet
<1>11. CASE SummaryInterrupted
  BY <1>1, <1>3, <1>11, CalmThrow, CalmStep DEF SummaryInterrupted, Throw, LosesWorker
<1> QED
  BY <1>9, <1>10, <1>11 DEF CompactStep

LEMMA OtherQuiet ==
  ASSUME CallsInv, Up /\ AtTop(w) => w.timer = "off",
         StopPoisoned \/ TurnTimesOut \/ Cancel \/ Close \/ Closed \/ Crash \/ Start
  PROVE  Quiet
<1>1. w \in Workers /\ state \in States /\ SameArrivals(state) /\ Calm(w)
  BY TypedParts, EventsAreQuiet DEF Calm
<1>2. CASE StopPoisoned
  <2>1. state' = state /\ life' = life /\ poisoned' = poisoned /\ poisoned /\ tickets' = Broken
    BY <1>2 DEF StopPoisoned, Die
  <2> QED
    BY <1>1, <2>1, BrokenPendsNone DEF Quiet, Up
<1>3. CASE TurnTimesOut
  <2> DEFINE v == [w EXCEPT !.timer = "fired", !.hit = TRUE]
  <2>1. /\ ~poisoned /\ w.timer = "on" /\ w.pc \in Awaits
        /\ IF w.pc \in Active THEN Step(v)
                              ELSE Step([Thrown("limited") EXCEPT !.timer = "fired"])
    BY <1>3 DEF TurnTimesOut
  <2>2. w.pc \notin {"none", "closeBatch"}
    BY <2>1 DEF Awaits, Active
  <2>3. Shaped(w) /\ life \in {"open", "closing"}
    BY <2>2, AtWorkShaped
  <2>4. w.pc \notin {"ready", "postTurn"} /\ ~AtTop(w)
    BY <2>1, <2>3 DEF Shaped, Up
  <2>5. InTurn(w)
    BY <2>1, <2>4 DEF InTurn, AtTop, Awaits, Active, TurnPCs, CompactPCs
  <2>6. /\ v.pc = w.pc /\ v.site = w.site /\ v.entry = w.entry /\ v.arrivals = w.arrivals
    BY <1>1 DEF Workers
  <2> HIDE DEF v
  <2>7. Calm(v)
    BY <2>4, <2>6 DEF Calm, InTurn, Busy, Boundary, AtTop, Remaining
  <2> QED
    BY <1>1, <2>1, <2>5, <2>7, CalmThrow, CalmStep
<1>4. CASE Cancel
  <2> DEFINE v == [w EXCEPT !.hit = TRUE]
  <2>1. /\ v.pc = w.pc /\ v.site = w.site /\ v.entry = w.entry /\ v.arrivals = w.arrivals
        /\ v.timer = w.timer
    BY <1>1 DEF Workers
  <2>2. /\ w' = w \/ (w' = v /\ w.pc \in Active)
        /\ ~poisoned /\ UNCHANGED <<state, life, tickets>>
    BY <1>4 DEF Cancel, Admitted
  <2> HIDE DEF v
  <2>3. w.pc \in Active => Calm(v)
    BY <2>1 DEF Calm, InTurn, Busy, Boundary, AtTop, Remaining, Active
  <2> QED
    BY <1>1, <2>2, <2>3 DEF Quiet, Up
<1>5. CASE Close
  <2>1. w' = w /\ UNCHANGED <<state, poisoned, tickets>> /\ life = "open" /\ life' = "closing"
    BY <1>5 DEF Close
  <2> QED
    BY <1>1, <2>1 DEF Quiet, Up
<1>6. CASE Closed \/ Crash
  <2>1. state' = state /\ life' = "down" /\ tickets' = [r \in Requests |-> "none"]
    BY <1>6 DEF Closed, Crash, Down
  <2> QED
    BY <1>1, <2>1 DEF Quiet, Up, NonePending
<1>7. CASE Start
  <2>1. UNCHANGED <<state, tickets>> /\ life = "down" /\ life' = "recovering"
    BY <1>7 DEF Start
  <2> QED
    BY <1>1, <2>1 DEF Quiet, Up
<1> QED
  BY <1>2, <1>3, <1>4, <1>5, <1>6, <1>7

LEMMA SteerSettles ==
  ASSUME CallsInv, RefuseUser \/ PostUserFails, w.site # "turn"
  PROVE  Settles
<1>1. w.pc \in {"preUser", "postUser"} /\ ~poisoned /\ Refuse
  BY DEF RefuseUser, PostUserFails, At
<1>2. Shaped(w) /\ life \in {"open", "closing"}
  BY <1>1, AtWorkShaped
<1> QED
  BY <1>1, <1>2 DEF Shaped, Refuse, Settles, Outcomes

\* All steps but these are Quiet.
LEMMA AllQuiet ==
  ASSUME CallsInv, Up /\ AtTop(w) => w.timer = "off", [Next]_vars
  PROVE  \/ Quiet \/ Settles \/ LosesWorker
         \/ Drained \/ DrainCompact \/ StartTurn \/ AcceptUser \/ EnterBoundary
         \/ TakeNotification \/ RejectEntry \/ EndTurn \/ PostTurn
         \/ RecoverTurn \/ RecoverJob \/ Resume
         \/ (\E r \in Requests : Submit(r) \/ Resubmit(r))
         \/ (\E j \in tasks : JobEnds(j))
<1>1. CASE UNCHANGED vars
  <2>1. UNCHANGED <<state, life, poisoned, w, tickets>>
    BY <1>1 DEF vars
  <2>2. SameArrivals(state) /\ Calm(w)
    BY TypedParts, EventsAreQuiet DEF Calm
  <2> QED
    BY <2>1, <2>2 DEF Quiet, Up
<1>2. CASE WorkerStep
  <2>1. CASE TurnStep
    BY <2>1, TurnQuiet, CloseQuiet, SteerSettles DEF TurnStep, LosesWorker
  <2> QED
    BY <1>2, <2>1, StepQuiet, CompactQuiet, OtherQuiet DEF WorkerStep
<1>3. CASE StartStep
  BY <1>3, OtherQuiet DEF StartStep
<1> QED
  BY <1>1, <1>2, <1>3, OtherQuiet DEF Next

-------------------------------------------------------------------------------
(* Tickets.                                                                *)

LEMMA FiledEvents ==
  ASSUME NEW s \in States, Filed(s)
  PROVE  /\ \A r \in Requests : s.currentTurn # 0 => Filed(UserAccepted(s, r))
         /\ \A r \in Requests, o \in Outcomes : Filed(InputFinished(s, r, o))
         /\ s.turnRequests = {} => Filed(TurnStarted(s))
         /\ \A o \in Outcomes : Filed(TurnEnded(s, o))
         /\ \A r \in Requests, target \in Nat : Filed(InputEnqueued(s, r, target))
<1>1. /\ s.queue \in [Requests -> Entry] /\ s.requests \in [Requests -> Statuses]
      /\ s.turnRequests \in SUBSET Requests /\ s.clock \in Nat /\ s.clock + 1 # 0
  BY StateHas
<1>2. \A o \in Outcomes : o # "queued" /\ o # "accepted"
  BY DEF Outcomes
<1>3. ASSUME NEW r \in Requests, s.currentTurn # 0
      PROVE  Filed(UserAccepted(s, r))
  <2> DEFINE t == UserAccepted(s, r)
  <2>1. /\ t.requests = [s.requests EXCEPT ![r] = "accepted"]
        /\ t.queue = [s.queue EXCEPT ![r] = NotThere]
        /\ t.turnRequests = s.turnRequests \cup {r} /\ t.currentTurn = s.currentTurn
    BY DEF States, UserAccepted
  <2> HIDE DEF t
  <2>2. Filed(t)
    BY <1>1, <1>3, <2>1 DEF Filed, Queue
  <2> QED
    BY <2>2 DEF t
<1>4. ASSUME NEW r \in Requests, NEW o \in Outcomes
      PROVE  Filed(InputFinished(s, r, o))
  <2> DEFINE t == InputFinished(s, r, o)
  <2>1. /\ t.requests = [s.requests EXCEPT ![r] = o]
        /\ t.queue = [s.queue EXCEPT ![r] = NotThere]
        /\ t.turnRequests = s.turnRequests /\ t.currentTurn = s.currentTurn
    BY DEF States, InputFinished
  <2> HIDE DEF t
  <2>2. Filed(t)
    BY <1>1, <1>2, <2>1 DEF Filed, Queue
  <2> QED
    BY <2>2 DEF t
<1>5. ASSUME s.turnRequests = {}
      PROVE  Filed(TurnStarted(s))
  <2> DEFINE t == TurnStarted(s)
  <2>1. t.requests = s.requests /\ t.queue = s.queue /\ t.turnRequests = {}
    BY DEF States, TurnStarted
  <2> HIDE DEF t
  <2>2. Filed(t)
    BY <1>5, <2>1 DEF Filed, Queue
  <2> QED
    BY <2>2 DEF t
<1>6. ASSUME NEW o \in Outcomes
      PROVE  Filed(TurnEnded(s, o))
  <2> DEFINE t == TurnEnded(s, o)
  <2>1. /\ t.requests = [r \in Requests |-> IF r \in s.turnRequests THEN o ELSE s.requests[r]]
        /\ t.queue = s.queue /\ t.turnRequests = {}
    BY DEF States, TurnEnded
  <2> HIDE DEF t
  <2>2. Filed(t)
    BY <1>2, <2>1 DEF Filed, Queue
  <2> QED
    BY <2>2 DEF t
<1>7. ASSUME NEW r \in Requests, NEW target \in Nat
      PROVE  Filed(InputEnqueued(s, r, target))
  <2> DEFINE t == InputEnqueued(s, r, target)
  <2>1. /\ t.requests = [s.requests EXCEPT ![r] = "queued"]
        /\ t.queue = [s.queue EXCEPT ![r] = [seq |-> s.clock + 1, target |-> target]]
        /\ t.turnRequests = s.turnRequests /\ t.currentTurn = s.currentTurn
    BY DEF States, InputEnqueued
  <2> HIDE DEF t
  <2>2. Filed(t)
    BY <1>1, <2>1 DEF Filed, Queue
  <2> QED
    BY <2>2 DEF t
<1> QED
  BY <1>3, <1>4, <1>5, <1>6, <1>7

LEMMA FiledSame ==
  ASSUME NEW s, NEW t, Filed(s), SameRequests(s, t)
  PROVE  Filed(t)
  BY DEF Filed, SameRequests, Queue

LEMMA TicketsRecord ==
  ASSUME TicketsInv, NEW next, NEW v, NEW told, RecordOnly(next, v, told), Filed(next),
         Up => Covered(next, v, told),
         life \notin {"open", "closing"} => NonePending(told)
  PROVE  TicketsInv'
<1>1. CASE state' = next /\ w' = v /\ tickets' = told /\ UNCHANGED <<life, poisoned>>
  BY <1>1 DEF TicketsInv, Up
<1>2. CASE RecordFails(next)
  <2>1. /\ state' \in {state, next} /\ tickets' = Broken
        /\ IF life = "recovering" THEN life' = "down" ELSE poisoned' = TRUE
    BY <1>2 DEF RecordFails
  <2>2. NonePending(tickets') /\ ~Up'
    BY <2>1, BrokenPendsNone DEF Up
  <2>3. Filed(state')
    BY <2>1 DEF TicketsInv
  <2> QED
    BY <2>2, <2>3 DEF TicketsInv
<1> QED
  BY <1>1, <1>2 DEF RecordOnly

LEMMA TicketsStep ==
  ASSUME TicketsInv, NEW v, Step(v), Up => Covered(state, v, tickets)
  PROVE  TicketsInv'
<1>1. w' = v /\ UNCHANGED <<state, life, poisoned, tickets>>
  BY DEF Step
<1> QED
  BY <1>1 DEF TicketsInv, Up

LEMMA QuietTickets ==
  ASSUME TicketsInv, Quiet
  PROVE  TicketsInv'
<1>1. Filed(state')
  BY FiledSame DEF Quiet, SameArrivals, TicketsInv
<1>2. ASSUME Up'
      PROVE  Covered(state', w', tickets')
  <2>1. Up /\ Calm(w') /\ tickets' = tickets /\ Covered(state, w, tickets)
    BY <1>2 DEF Quiet, TicketsInv
  <2>2. state'.turnRequests = state.turnRequests /\ state'.queue = state.queue
    BY DEF Quiet, SameArrivals, SameRequests
  <2>3. AtTop(w') => AtTop(w)
    BY <2>1 DEF Calm, AtTop, InTurn, Busy, TurnPCs, CompactPCs
  <2>4. InTurn(w') => w'.entry = w.entry
    BY <2>1 DEF Calm, InTurn, Busy
  <2> QED
    BY <2>1, <2>2, <2>3, <2>4 DEF Covered, Answerable, Calm, Queue
<1>3. life' \notin {"open", "closing"} => NonePending(tickets')
  BY DEF Quiet, TicketsInv
<1> QED
  BY <1>1, <1>2, <1>3 DEF TicketsInv

\* A worker that takes over when there is something queued.
LEMMA Ensured ==
  ASSUME NEW v, NEW s
  PROVE  \/ EnsureWorker(v, s) = v /\ (v.pc = "none" => Queue(s) = {})
         \/ /\ v.pc = "none"
            /\ EnsureWorker(v, s).pc = "ready" /\ EnsureWorker(v, s).timer = "off"
            /\ EnsureWorker(v, s) = [NoWorker EXCEPT !.pc = "ready"]
  BY DEF EnsureWorker, NoWorker

\* The steps of the worker that answer tickets, or move requests.
LEMMA SettlesTickets ==
  ASSUME CallsInv, TicketsInv, Settles
  PROVE  TicketsInv'
<1>1. /\ w.pc \in {"preUser", "postUser"} \/ (w.pc \in CompactPCs /\ w.site # "budget")
      /\ Up /\ Covered(state, w, tickets)
  BY DEF Settles, TicketsInv, Up
<1>2. /\ Current \in Requests /\ NextArrival.pc = "arrivals" /\ NextArrival.site = w.site
      /\ NextArrival.entry = w.entry
  BY <1>1, CurrentIsRequest DEF Up
<1>3. state \in States /\ tickets \in [Requests -> TicketStates] /\ Filed(state)
  BY TypedParts DEF TypeOK, TicketsInv
<1>4. ASSUME NEW o \in Outcomes
      PROVE  /\ Filed(InputFinished(state, Current, o))
             /\ InputFinished(state, Current, o).queue = [state.queue EXCEPT ![Current] = NotThere]
             /\ InputFinished(state, Current, o).turnRequests = state.turnRequests
             /\ \A r \in Requests : Resolve({Current}, o)[r] = "pending" =>
                  r # Current /\ tickets[r] = "pending"
  <2>1. o # "pending"
    BY <1>4 DEF Outcomes
  <2> QED
    BY <1>2, <1>3, <1>4, <2>1, FiledEvents DEF States, InputFinished, Resolve
<1>5. state.queue \in [Requests -> Entry]
  BY <1>3, StateHas
<1>6. CASE /\ w.pc \in {"preUser", "postUser"} \cup CompactPCs /\ w.site \in {"head", "tail"}
           /\ \E o \in Outcomes :
                RecordAndTell(InputFinished(state, Current, o), NextArrival,
                              Resolve({Current}, o))
  <2>1. PICK o \in Outcomes : RecordOnly(InputFinished(state, Current, o), NextArrival,
                                         Resolve({Current}, o))
    BY <1>6 DEF RecordAndTell
  <2>2. InTurn(w) /\ InTurn(NextArrival) /\ w.pc # "postTurn" /\ ~AtTop(NextArrival)
    BY <1>2, <1>6 DEF InTurn, TurnPCs, CompactPCs, AtTop
  <2> DEFINE t == InputFinished(state, Current, o)
             told == Resolve({Current}, o)
             v == NextArrival
  <2> HIDE DEF t, told, v
  <2>3. /\ Filed(t) /\ t.queue = [state.queue EXCEPT ![Current] = NotThere]
        /\ t.turnRequests = state.turnRequests
        /\ \A r \in Requests : told[r] = "pending" => r # Current /\ tickets[r] = "pending"
    BY <1>4 DEF t, told
  <2>4. InTurn(v) /\ ~AtTop(v) /\ v.entry = w.entry /\ v.pc = "arrivals"
    BY <1>2, <2>2 DEF v
  <2>5. Covered(t, v, told)
    BY <1>1, <1>2, <1>5, <2>2, <2>3, <2>4 DEF Covered, Answerable, Queue
  <2>6. RecordOnly(t, v, told)
    BY <2>1 DEF t, v, told
  <2> QED
    BY <1>1, <2>3, <2>5, <2>6, TicketsRecord DEF Up
<1>7. CASE /\ w.pc \in CompactPCs /\ w.site = "top"
           /\ \E o \in Outcomes :
                RecordAndTell(InputFinished(state, Current, o),
                              [NoWorker EXCEPT !.pc = "drain"], Resolve({Current}, o))
  <2> DEFINE v == [NoWorker EXCEPT !.pc = "drain"]
  <2>1. PICK o \in Outcomes : RecordOnly(InputFinished(state, Current, o), v,
                                         Resolve({Current}, o))
    BY <1>7 DEF RecordAndTell
  <2>2. v.pc = "drain"
    BY DEF NoWorker
  <2> HIDE DEF v
  <2>3. ~InTurn(w) /\ w.pc # "postTurn" /\ ~AtTop(v)
    BY <1>7, <2>2 DEF InTurn, TurnPCs, CompactPCs, AtTop
  <2> DEFINE t == InputFinished(state, Current, o)
             told == Resolve({Current}, o)
  <2> HIDE DEF t, told
  <2>4. /\ Filed(t) /\ t.queue = [state.queue EXCEPT ![Current] = NotThere]
        /\ t.turnRequests = state.turnRequests
        /\ \A r \in Requests : told[r] = "pending" => r # Current /\ tickets[r] = "pending"
    BY <1>4 DEF t, told
  <2>5. Covered(t, v, told)
    BY <1>1, <1>2, <1>5, <2>2, <2>3, <2>4 DEF Covered, Answerable, Queue
  <2>6. RecordOnly(t, v, told)
    BY <2>1 DEF t, told
  <2> QED
    BY <1>1, <2>4, <2>5, <2>6, TicketsRecord DEF Up
<1> QED
  BY <1>6, <1>7 DEF Settles

LEMMA LosesTickets ==
  ASSUME CallsInv, TicketsInv, LosesWorker
  PROVE  TicketsInv'
<1>1. /\ ~poisoned /\ Die
      /\ w.pc = "postTurn" \/ (w.pc = "summary" /\ w.site = "top")
  BY DEF LosesWorker, PostTurnFails, SummaryInterrupted, At
<1>2. /\ Up /\ ~InTurn(w)
  BY <1>1, AtWorkShaped DEF InTurn, TurnPCs, CompactPCs, Up
<1>3. state.turnRequests = {} /\ Filed(state)
  BY <1>2 DEF TicketsInv, Covered
<1>4. /\ state' = state /\ life' = life /\ poisoned' = poisoned /\ w' = NoWorker
      /\ NonePending(tickets')
  BY <1>1, BrokenPendsNone DEF Die
<1>5. Covered(state', w', tickets')
  BY <1>3, <1>4 DEF Covered, NonePending, AtTop, NoWorker
<1> QED
  BY <1>3, <1>4, <1>5 DEF TicketsInv

LEMMA DrainTickets ==
  ASSUME CallsInv, TicketsInv, Drained \/ DrainCompact \/ StartTurn
  PROVE  TicketsInv'
<1>1. w.pc \in {"ready", "drain"} /\ ~poisoned
  BY DEF Drained, DrainCompact, StartTurn, Draining
<1>2. life \in {"open", "closing"} /\ Up /\ Covered(state, w, tickets) /\ Filed(state)
  BY <1>1, AtWorkShaped DEF Up, TicketsInv
<1>3. ~InTurn(w) /\ w.pc # "postTurn"
  BY <1>1 DEF InTurn, TurnPCs, CompactPCs
<1>4. /\ state.turnRequests = {}
      /\ \A r \in Requests : tickets[r] = "pending" => r \in Queue(state)
  BY <1>2, <1>3 DEF Covered, Answerable
<1>5. CASE Drained
  <2>1. Step(NoWorker) /\ Queue(state) = {}
    BY <1>5 DEF Drained
  <2>2. Covered(state, NoWorker, tickets)
    BY <1>4, <2>1 DEF Covered, AtTop, NoWorker
  <2> QED
    BY <2>1, <2>2, TicketsStep
<1>6. CASE DrainCompact
  <2> DEFINE v == [NoWorker EXCEPT !.pc = "compact", !.entry = QueueHead]
  <2>1. Step(v) /\ v.pc = "compact" /\ v.timer = "off"
    BY <1>6 DEF DrainCompact, NoWorker
  <2> HIDE DEF v
  <2>2. Covered(state, v, tickets)
    BY <1>4, <2>1 DEF Covered, Answerable
  <2> QED
    BY <2>1, <2>2, TicketsStep
<1>7. CASE StartTurn
  <2> DEFINE v == [NoWorker EXCEPT !.pc = "preTurn", !.site = "turn", !.entry = QueueHead]
             t == TurnStarted(state)
  <2>1. RecordOnly(t, v, tickets) /\ v.pc = "preTurn"
    BY <1>7 DEF StartTurn, NoWorker
  <2>2. Filed(t) /\ t.queue = state.queue
    BY <1>2, <1>4, TypedParts, FiledEvents DEF States, TurnStarted
  <2> HIDE DEF v, t
  <2>3. Covered(t, v, tickets)
    BY <1>4, <2>1, <2>2 DEF Covered, Answerable, InTurn, TurnPCs, AtTop, CompactPCs, Queue
  <2> QED
    BY <1>2, <2>1, <2>2, <2>3, TicketsRecord
<1> QED
  BY <1>5, <1>6, <1>7

LEMMA BoundaryTickets ==
  ASSUME CallsInv, TicketsInv, AcceptUser \/ EnterBoundary \/ TakeNotification
  PROVE  TicketsInv'
<1>1. w.pc \in {"preUser", "boundary", "arrivals"} /\ ~poisoned
  BY DEF AcceptUser, EnterBoundary, TakeNotification, At
<1>2. InTurn(w) /\ life \in {"open", "closing"} /\ Shaped(w) /\ Placed(state, w)
  BY <1>1, AtWorkShaped DEF InTurn, TurnPCs
<1>3. /\ Up /\ Covered(state, w, tickets) /\ Filed(state)
      /\ w \in Workers /\ state \in States /\ state.currentTurn # 0
  BY <1>1, <1>2, TypedParts DEF Up, TicketsInv, Placed
<1>4. CASE AcceptUser
  <2> DEFINE v == [w EXCEPT !.pc = "postUser"]
             t == UserAccepted(state, Current)
  <2>1. /\ RecordOnly(t, v, tickets) /\ v.pc = "postUser" /\ v.entry = w.entry
        /\ w.pc = "preUser"
    BY <1>3, <1>4 DEF AcceptUser, Record, RecordAndTell, At, Workers
  <2>2. Current \in Requests
    BY <1>3, <2>1, CurrentIsRequest DEF Up
  <2>3. /\ Filed(t) /\ t.turnRequests = state.turnRequests \cup {Current}
        /\ t.queue = [state.queue EXCEPT ![Current] = NotThere]
    BY <1>3, <2>2, FiledEvents DEF States, UserAccepted
  <2>4. state.queue \in [Requests -> Entry]
    BY <1>3, StateHas
  <2> HIDE DEF v, t
  <2>5. InTurn(v) /\ ~AtTop(v)
    BY <2>1 DEF InTurn, TurnPCs, AtTop, CompactPCs
  <2>6. Covered(t, v, tickets)
    BY <1>3, <2>1, <2>2, <2>3, <2>4, <2>5 DEF Covered, Answerable, Queue
  <2> QED
    BY <1>2, <2>1, <2>3, <2>6, TicketsRecord
<1>5. CASE EnterBoundary
  <2> DEFINE v == [w EXCEPT !.pc = "arrivals", !.arrivals = Arrivals, !.steered = FALSE]
  <2>1. Step(v) /\ v.pc = "arrivals" /\ v.entry = w.entry /\ w.pc = "boundary"
    BY <1>3, <1>5 DEF EnterBoundary, At, Workers
  <2> HIDE DEF v
  <2>2. InTurn(v) /\ ~AtTop(v)
    BY <2>1 DEF InTurn, TurnPCs, AtTop, CompactPCs
  <2>3. Covered(state, v, tickets)
    BY <1>2, <1>3, <2>1, <2>2 DEF Covered, Answerable
  <2> QED
    BY <2>1, <2>3, TicketsStep
<1>6. CASE TakeNotification
  <2> DEFINE v == [NextArrival EXCEPT !.steered = TRUE]
             t == NotificationAccepted(state, First(w.arrivals).id)
  <2>1. /\ RecordOnly(t, v, tickets) /\ v.pc = "arrivals" /\ v.entry = w.entry
        /\ w.pc = "arrivals"
    BY <1>3, <1>6 DEF TakeNotification, Record, RecordAndTell, At, Workers, NextArrival
  <2>2. SameRequests(state, t)
    BY <1>3, StateHas, JobEvents
  <2> HIDE DEF v, t
  <2>3. InTurn(v) /\ ~AtTop(v) /\ Filed(t)
    BY <1>3, <2>1, <2>2, FiledSame DEF InTurn, TurnPCs, AtTop, CompactPCs
  <2>4. Covered(t, v, tickets)
    BY <1>2, <1>3, <2>1, <2>2, <2>3 DEF Covered, Answerable, Queue, SameRequests
  <2> QED
    BY <1>2, <2>1, <2>3, <2>4, TicketsRecord
<1> QED
  BY <1>4, <1>5, <1>6

LEMMA EndTickets ==
  ASSUME CallsInv, TicketsInv, RejectEntry \/ EndTurn \/ PostTurn
  PROVE  TicketsInv'
<1>1. /\ state \in States /\ w \in Workers /\ Filed(state) /\ w.status \in Outcomes
      /\ tickets \in [Requests -> TicketStates] /\ "pending" \notin Outcomes
      /\ state.queue \in [Requests -> Entry] /\ state.turnRequests \subseteq Requests
  BY TypedParts, StateHas DEF TicketsInv, TypeOK, Workers, Outcomes
<1>2. CASE RejectEntry
  <2> DEFINE t == InputFinished(state, w.entry, w.status)
  <2>1. /\ RecordOnly(t, w, tickets) /\ w.entry \in Queue(state)
        /\ w.pc = "closeBatch" /\ ~poisoned
    BY <1>2 DEF RejectEntry, Record, RecordAndTell, At
  <2>2. w # Recoverer /\ w # NoWorker /\ w.entry \in Requests
    BY <2>1, NoRequestAssumption DEF Queue, Recoverer, NoWorker
  <2>3. life \in {"open", "closing"} /\ InTurn(w) /\ Up
    BY <2>1, <2>2 DEF CallsInv, Lifecycle, TypeOK, InTurn, TurnPCs, Up
  <2>4. /\ Filed(t) /\ t.queue = [state.queue EXCEPT ![w.entry] = NotThere]
        /\ t.turnRequests = state.turnRequests
    BY <1>1, <2>2, FiledEvents DEF States, InputFinished
  <2> HIDE DEF t
  <2>5. Covered(t, w, tickets)
    BY <1>1, <2>1, <2>2, <2>3, <2>4 DEF TicketsInv, Covered, Answerable, Queue
  <2> QED
    BY <2>1, <2>3, <2>4, <2>5, TicketsRecord
<1>3. CASE EndTurn
  <2> DEFINE owed == {w.entry} \cup state.turnRequests
             a == [NoWorker EXCEPT !.pc = "postTurn", !.status = w.status, !.owed = owed]
             b == [NoWorker EXCEPT !.pc = "ready"]
             t == TurnEnded(state, w.status)
  <2>1. /\ w.pc = "closeBatch" /\ ~poisoned /\ life # "recovering"
        /\ RecordOnly(t, a, tickets) \/ RecordOnly(t, b, Resolve(owed, w.status))
    BY <1>3 DEF EndTurn, Record, RecordAndTell, At
  <2>2. life \in {"open", "closing"} /\ Up
    BY <2>1 DEF CallsInv, Lifecycle, TypeOK, NoWorker, Up
  <2>3. /\ a.pc = "postTurn" /\ a.owed = owed /\ b.pc = "ready"
    BY DEF NoWorker
  <2>4. Filed(t) /\ t.queue = state.queue /\ t.turnRequests = {}
    BY <1>1, FiledEvents DEF States, TurnEnded
  <2>5. ASSUME NEW r \in Requests, tickets[r] = "pending"
        PROVE  r \in Queue(state) \/ r \in owed
    BY <2>1, <2>2, <2>5 DEF TicketsInv, Covered, Answerable
  <2>6. ASSUME NEW r \in Requests, Resolve(owed, w.status)[r] = "pending"
        PROVE  tickets[r] = "pending" /\ r \notin owed
    BY <1>1, <2>6 DEF Resolve
  <2> HIDE DEF a, b, t, owed
  <2>7. Covered(t, a, tickets)
    BY <2>3, <2>4, <2>5 DEF Covered, Answerable, AtTop, CompactPCs, Queue
  <2>8. Covered(t, b, Resolve(owed, w.status))
    BY <2>3, <2>4, <2>5, <2>6 DEF Covered, Answerable, AtTop, CompactPCs, Queue
  <2> QED
    BY <2>1, <2>2, <2>4, <2>7, <2>8, TicketsRecord
<1>4. CASE PostTurn
  <2>1. /\ w.pc = "postTurn" /\ w' = [NoWorker EXCEPT !.pc = "ready"]
        /\ tickets' = Resolve(w.owed, w.status) /\ UNCHANGED <<state, life, poisoned>>
    BY <1>4 DEF PostTurn
  <2>2. life \in {"open", "closing"} /\ ~InTurn(w) /\ w'.pc = "ready"
    BY <2>1, AtWorkShaped DEF InTurn, TurnPCs, CompactPCs, NoWorker
  <2>3. ASSUME NEW r \in Requests, tickets'[r] = "pending"
        PROVE  tickets[r] = "pending" /\ r \notin w.owed
    BY <1>1, <2>1, <2>3 DEF Resolve
  <2>4. ASSUME Up'
        PROVE  Covered(state', w', tickets')
    <3>1. Covered(state, w, tickets)
      BY <2>1, <2>4 DEF TicketsInv, Up
    <3> QED
      BY <2>1, <2>2, <2>3, <3>1 DEF Covered, Answerable, AtTop, CompactPCs
  <2> QED
    BY <1>1, <2>1, <2>2, <2>4 DEF TicketsInv
<1> QED
  BY <1>2, <1>3, <1>4

LEMMA RecoveryTickets ==
  ASSUME CallsInv, TicketsInv, RecoverTurn \/ RecoverJob \/ Resume
  PROVE  TicketsInv'
<1>1. life = "recovering" /\ ~Up /\ NonePending(tickets) /\ Filed(state) /\ state \in States
  BY TypedParts DEF RecoverTurn, RecoverJob, Resume, Recovered, Up, TicketsInv
<1>2. CASE RecoverTurn
  <2>1. RecordOnly(TurnEnded(state, "interrupted"), w, tickets)
    BY <1>2 DEF RecoverTurn, Record, RecordAndTell
  <2>2. Filed(TurnEnded(state, "interrupted"))
    BY <1>1, FiledEvents DEF Outcomes
  <2> QED
    BY <1>1, <2>1, <2>2, TicketsRecord
<1>3. CASE RecoverJob
  <2>1. PICK job : RecordOnly(JobCompleted(state, job, "unknown"), w, tickets)
    BY <1>3 DEF RecoverJob, Record, RecordAndTell
  <2>2. Filed(JobCompleted(state, job, "unknown"))
    BY <1>1, StateHas, JobEvents, FiledSame
  <2> QED
    BY <1>1, <2>1, <2>2, TicketsRecord
<1>4. CASE Resume
  <2>1. state.currentTurn = 0
    BY <1>4 DEF Resume
  <2>2. CASE RecordFails(state)
    <3>1. state' = state /\ tickets' = Broken /\ life' = "down"
      BY <1>1, <2>2 DEF RecordFails
    <3> QED
      BY <1>1, <3>1, BrokenPendsNone DEF TicketsInv, Up
  <2>3. CASE /\ life' = "open" /\ w' = EnsureWorker(NoWorker, state)
             /\ UNCHANGED <<state, poisoned, tickets, faults>>
    <3>1. w' = NoWorker \/ (w'.pc = "ready" /\ w'.timer = "off")
      BY <2>3, Ensured
    <3>2. state.turnRequests = {} /\ w'.timer = "off"
      BY <1>1, <2>1, <3>1 DEF Filed, NoWorker
    <3>3. Covered(state', w', tickets')
      BY <1>1, <2>3, <3>2 DEF Covered, NonePending
    <3> QED
      BY <1>1, <2>3, <3>3 DEF TicketsInv
  <2> QED
    BY <1>4, <2>2, <2>3 DEF Resume
<1> QED
  BY <1>2, <1>3, <1>4

LEMMA IngressTickets ==
  ASSUME CallsInv, TicketsInv, NEW r \in Requests, Submit(r) \/ Resubmit(r)
  PROVE  TicketsInv'
<1>1. /\ life = "open" /\ Up /\ Covered(state, w, tickets) /\ Filed(state)
      /\ state \in States /\ tickets \in [Requests -> TicketStates]
      /\ state.queue \in [Requests -> Entry] /\ state.requests \in [Requests -> Statuses]
      /\ state.clock + 1 # 0 /\ state.currentTurn \in Nat /\ w.pc \in Awaits \cup {"none"}
  BY TypedParts, StateHas DEF Submit, Resubmit, Admitted, Up, TicketsInv, TypeOK
\* Whoever takes over covers what is queued.
<1>2. ASSUME NEW s, NEW told, s.turnRequests = state.turnRequests,
             \A q \in Requests : told[q] = "pending" =>
               \/ q \in Queue(s)
               \/ q \in s.turnRequests
               \/ tickets[q] = "pending" /\ q \notin Queue(state)
      PROVE  Covered(s, EnsureWorker(w, s), told)
  <2> DEFINE e == EnsureWorker(w, s)
  <2>1. CASE e = w /\ (w.pc = "none" => Queue(s) = {})
    <3> HIDE DEF e
    <3>1. ASSUME NEW q \in Requests, told[q] = "pending"
          PROVE  Answerable(s, e, q)
      BY <1>1, <1>2, <2>1, <3>1 DEF Covered, Answerable
    <3>2. Covered(s, e, told)
      BY <1>1, <1>2, <2>1, <3>1 DEF Covered
    <3> QED
      BY <3>2 DEF e
  <2>2. CASE w.pc = "none" /\ e.pc = "ready" /\ e.timer = "off"
    <3> HIDE DEF e
    <3>1. ~InTurn(w)
      BY <2>2 DEF InTurn, TurnPCs, CompactPCs
    <3>2. \A q \in Requests : tickets[q] # "pending"
      BY <1>1, <2>2, <3>1 DEF Covered, Answerable
    <3>3. s.turnRequests = {}
      BY <1>1, <1>2, <3>1 DEF Covered
    <3>4. \A q \in Requests : told[q] = "pending" => Answerable(s, e, q)
      BY <1>2, <2>2, <3>2, <3>3 DEF Answerable
    <3>5. Covered(s, e, told)
      BY <2>2, <3>3, <3>4 DEF Covered, AtTop, CompactPCs
    <3> QED
      BY <3>5 DEF e
  <2> QED
    BY <2>1, <2>2, Ensured
<1>3. CASE Submit(r)
  <2>1. PICK target \in Nat :
          \/ /\ state' = InputEnqueued(state, r, target)
             /\ tickets' = [tickets EXCEPT ![r] = "pending"]
             /\ w' = EnsureWorker(w, InputEnqueued(state, r, target))
             /\ UNCHANGED <<life, poisoned, faults>>
          \/ /\ poisoned' = TRUE
             /\ state' \in {state, InputEnqueued(state, r, target)}
             /\ UNCHANGED <<life, w, tickets>>
    <3>1. (IF Mode[r] = "steer" THEN state.currentTurn ELSE 0) \in Nat
      BY <1>1
    <3> QED
      BY <1>3, <3>1 DEF Submit
  <2> DEFINE t == InputEnqueued(state, r, target)
  <2>2. /\ Filed(t) /\ t.turnRequests = state.turnRequests
        /\ t.queue = [state.queue EXCEPT ![r] = [seq |-> state.clock + 1, target |-> target]]
    BY <1>1, FiledEvents DEF States, InputEnqueued
  <2> HIDE DEF t
  <2>3. r \in Queue(t) /\ \A q \in Queue(state) : q \in Queue(t)
    BY <1>1, <2>2 DEF Queue
  <2>4. CASE /\ state' = t /\ tickets' = [tickets EXCEPT ![r] = "pending"]
             /\ w' = EnsureWorker(w, t) /\ UNCHANGED <<life, poisoned, faults>>
    <3>1. \A q \in Requests : tickets'[q] = "pending" =>
            q \in Queue(t) \/ (tickets[q] = "pending" /\ q \notin Queue(state))
      BY <1>1, <2>3, <2>4
    <3>2. Covered(t, EnsureWorker(w, t), tickets')
      BY <1>2, <2>2, <3>1
    <3>3. Covered(state', w', tickets')
      BY <2>4, <3>2
    <3> QED
      BY <1>1, <2>2, <2>4, <3>3 DEF TicketsInv
  <2>5. CASE poisoned' = TRUE /\ state' \in {state, t} /\ UNCHANGED <<life, w, tickets>>
    BY <1>1, <2>2, <2>5 DEF TicketsInv, Up
  <2> QED
    BY <2>1, <2>4, <2>5 DEF t
<1>4. CASE Resubmit(r)
  <2>1. /\ state.requests[r] # "absent"
        /\ tickets' = [tickets EXCEPT ![r] =
             IF tickets[r] # "none" THEN tickets[r]
             ELSE IF state.requests[r] \in Outcomes THEN state.requests[r] ELSE "pending"]
        /\ w' = EnsureWorker(w, state) /\ UNCHANGED <<state, life, poisoned>>
    BY <1>4 DEF Resubmit
  <2>2. state.requests[r] \notin Outcomes => r \in Queue(state) \/ r \in state.turnRequests
    BY <1>1, <2>1 DEF Filed, Statuses
  <2>3. "pending" \notin Outcomes
    BY DEF Outcomes
  <2>4. \A q \in Requests : tickets'[q] = "pending" =>
          \/ q \in Queue(state)
          \/ q \in state.turnRequests
          \/ tickets[q] = "pending" /\ q \notin Queue(state)
    BY <1>1, <2>1, <2>2, <2>3
  <2>5. Covered(state, EnsureWorker(w, state), tickets')
    BY <1>2, <2>4
  <2>6. Covered(state', w', tickets')
    BY <2>1, <2>5
  <2> QED
    BY <1>1, <2>1, <2>6 DEF TicketsInv
<1> QED
  BY <1>3, <1>4

\* A job's end is nothing to those who wait for an answer.
LEMMA JobTickets ==
  ASSUME CallsInv, TicketsInv, NEW j, JobEnds(j)
  PROVE  TicketsInv'
<1>1. /\ life' = life /\ w' = w /\ tickets' = tickets
      /\ poisoned' = poisoned \/ poisoned' = TRUE
      /\ state' = state \/ \E status : state' = JobCompleted(state, j, status)
  BY DEF JobEnds
<1>2. SameRequests(state, state')
  BY <1>1, TypedParts, StateHas, JobEvents DEF SameRequests
<1>3. Filed(state') /\ (Up' => Up)
  BY <1>1, <1>2, FiledSame DEF TicketsInv, Up
<1>4. Covered(state, w, tickets) => Covered(state', w, tickets)
  BY <1>2 DEF SameRequests, Covered, Answerable, Queue
<1> QED
  BY <1>1, <1>3, <1>4 DEF TicketsInv

LEMMA TicketsKept ==
  ASSUME CallsInv, TicketsInv, [Next]_vars
  PROVE  TicketsInv'
<1>1. Up /\ AtTop(w) => w.timer = "off"
  BY DEF TicketsInv, Covered
<1>2. \A j \in tasks : JobEnds(j) => TicketsInv'
  BY JobTickets
<1> QED
  BY <1>1, <1>2, AllQuiet, QuietTickets, SettlesTickets, LosesTickets, DrainTickets,
     BoundaryTickets, EndTickets, RecoveryTickets, IngressTickets

\* A healthy runtime without a worker owes nobody an answer.
THEOREM NoTicketIsForgotten == Spec => []NoTicketForgotten
<1>1. Init => CallsInv /\ TicketsInv
  <2>1. Init => TicketsInv
    BY DEF Init, InitialState, TicketsInv, Filed, NonePending, Up
  <2> QED
    BY <2>1, CallsInit
<1>2. CallsInv /\ TicketsInv /\ [Next]_vars => (CallsInv /\ TicketsInv)'
  BY TicketsKept, NextCalls DEF Sound
<1>3. CallsInv /\ TicketsInv => NoTicketForgotten
  BY DEF TicketsInv, Covered, Answerable, NoTicketForgotten, InTurn, TurnPCs, CompactPCs
<1> QED
  BY <1>1, <1>2, <1>3, PTL DEF Spec

-------------------------------------------------------------------------------
(* The worker and the queue.                                               *)

LEMMA BusyRecord ==
  ASSUME NEW next, NEW v, NEW told, RecordOnly(next, v, told), v.pc # "none" \/ ~Up
  PROVE  NoStrandedInput'
<1>1. CASE w' = v /\ UNCHANGED <<life, poisoned>>
  BY <1>1 DEF NoStrandedInput, Up
<1>2. CASE RecordFails(next)
  BY <1>2 DEF RecordFails, NoStrandedInput, Up
<1> QED
  BY <1>1, <1>2 DEF RecordOnly

LEMMA WorkerStrandsNone ==
  ASSUME CallsInv, Settles \/ StartTurn \/ AcceptUser \/ TakeNotification \/ RejectEntry
                   \/ EndTurn \/ RecoverTurn \/ RecoverJob
  PROVE  NoStrandedInput'
<1>1. w \in Workers /\ state \in States
  BY TypedParts
<1>2. \A next, v, told : RecordOnly(next, v, told) /\ v.pc # "none" => NoStrandedInput'
  BY BusyRecord
<1>3. CASE Settles
  <2>1. NextArrival.pc # "none" /\ [NoWorker EXCEPT !.pc = "drain"].pc # "none"
    BY TypedParts DEF NoWorker
  <2>2. PICK t, told : \/ RecordOnly(t, NextArrival, told)
                       \/ RecordOnly(t, [NoWorker EXCEPT !.pc = "drain"], told)
    BY <1>3 DEF Settles, RecordAndTell
  <2> QED
    BY <1>2, <2>1, <2>2
<1>4. CASE StartTurn
  <2> DEFINE v == [NoWorker EXCEPT !.pc = "preTurn", !.site = "turn", !.entry = QueueHead]
  <2>1. v.pc = "preTurn" /\ RecordOnly(TurnStarted(state), v, tickets)
    BY <1>4 DEF StartTurn, NoWorker
  <2> HIDE DEF v
  <2> QED
    BY <1>2, <2>1
<1>5. CASE AcceptUser
  <2> DEFINE v == [w EXCEPT !.pc = "postUser"]
  <2>1. v.pc = "postUser" /\ RecordOnly(UserAccepted(state, Current), v, tickets)
    BY <1>1, <1>5 DEF AcceptUser, Record, RecordAndTell, Workers
  <2> HIDE DEF v
  <2> QED
    BY <1>2, <2>1
<1>6. CASE TakeNotification
  <2> DEFINE v == [NextArrival EXCEPT !.steered = TRUE]
  <2>1. /\ v.pc = "arrivals"
        /\ RecordOnly(NotificationAccepted(state, First(w.arrivals).id), v, tickets)
    BY <1>6, TypedParts DEF TakeNotification, Record, RecordAndTell
  <2> HIDE DEF v
  <2> QED
    BY <1>2, <2>1
<1>7. CASE RejectEntry
  <2>1. /\ w.pc = "closeBatch"
        /\ RecordOnly(InputFinished(state, w.entry, w.status), w, tickets)
    BY <1>7 DEF RejectEntry, Record, RecordAndTell, At
  <2> QED
    BY <1>2, <2>1
<1>8. CASE EndTurn
  <2> DEFINE a == [NoWorker EXCEPT !.pc = "postTurn", !.status = w.status,
                                   !.owed = {w.entry} \cup state.turnRequests]
             b == [NoWorker EXCEPT !.pc = "ready"]
  <2>1. /\ a.pc = "postTurn" /\ b.pc = "ready"
        /\ \E told : \/ RecordOnly(TurnEnded(state, w.status), a, told)
                     \/ RecordOnly(TurnEnded(state, w.status), b, told)
    BY <1>8 DEF EndTurn, Record, RecordAndTell, NoWorker
  <2> HIDE DEF a, b
  <2> QED
    BY <1>2, <2>1
<1>9. CASE RecoverTurn \/ RecoverJob
  <2>1. ~Up /\ \E t : RecordOnly(t, w, tickets)
    BY <1>9 DEF RecoverTurn, RecoverJob, Recovered, Up, Record, RecordAndTell
  <2> QED
    BY <2>1, BusyRecord
<1> QED
  BY <1>3, <1>4, <1>5, <1>6, <1>7, <1>8, <1>9

LEMMA StrandsNone ==
  ASSUME CallsInv, TicketsInv, NoStrandedInput, [Next]_vars, ~LosesWorker
  PROVE  NoStrandedInput'
<1>1. Up /\ AtTop(w) => w.timer = "off"
  BY DEF TicketsInv, Covered
<1>2. w \in Workers /\ state \in States
  BY TypedParts
<1>3. CASE Quiet
  BY <1>3 DEF Quiet, SameArrivals, SameRequests, Calm, NoStrandedInput, Queue
<1>4. CASE Drained
  <2>1. state' = state /\ Queue(state) = {}
    BY <1>4 DEF Drained, Step
  <2> QED
    BY <2>1 DEF NoStrandedInput, Queue
<1>5. CASE DrainCompact \/ EnterBoundary \/ PostTurn
  <2> DEFINE a == [NoWorker EXCEPT !.pc = "compact", !.entry = QueueHead]
             b == [w EXCEPT !.pc = "arrivals", !.arrivals = Arrivals, !.steered = FALSE]
             c == [NoWorker EXCEPT !.pc = "ready"]
  <2>1. a.pc = "compact" /\ b.pc = "arrivals" /\ c.pc = "ready"
    BY <1>2 DEF Workers, NoWorker
  <2>2. w' \in {a, b, c}
    BY <1>5 DEF DrainCompact, EnterBoundary, PostTurn, Step
  <2> HIDE DEF a, b, c
  <2>3. w'.pc # "none"
    BY <2>1, <2>2
  <2> QED
    BY <2>3 DEF NoStrandedInput
<1>6. \A v, s : EnsureWorker(v, s).pc = "none" => Queue(s) = {}
  BY Ensured
<1>7. CASE Resume
  <2>1. \/ w' = EnsureWorker(NoWorker, state) /\ state' = state
        \/ life = "recovering" /\ RecordFails(state)
    BY <1>7 DEF Resume, Recovered
  <2> QED
    BY <1>6, <2>1 DEF NoStrandedInput, RecordFails, Up
<1>8. ASSUME NEW r \in Requests, Submit(r) \/ Resubmit(r)
      PROVE  NoStrandedInput'
  <2>1. \/ w' = EnsureWorker(w, state') \/ poisoned' = TRUE
    BY <1>8 DEF Submit, Resubmit
  <2> QED
    BY <1>6, <2>1 DEF NoStrandedInput, Up
<1>9. ASSUME NEW j \in tasks, JobEnds(j)
      PROVE  NoStrandedInput'
  <2>1. /\ life' = life /\ w' = w
        /\ poisoned' = poisoned \/ poisoned' = TRUE
        /\ state' = state \/ \E status : state' = JobCompleted(state, j, status)
    BY <1>9 DEF JobEnds
  <2>2. SameRequests(state, state')
    BY <2>1, <1>2, StateHas, JobEvents DEF SameRequests
  <2> QED
    BY <2>1, <2>2 DEF NoStrandedInput, Up, SameRequests, Queue
<1> QED
  BY <1>1, <1>3, <1>4, <1>5, <1>7, <1>8, <1>9, AllQuiet, WorkerStrandsNone

\* Unless the worker is lost to a cancel() while it compacts outside a turn, or to
\* a diagnostic that fails after the turn's end, a healthy runtime without a
\* worker has nothing queued (_ensure_worker, _drain, start).
THEOREM NoInputIsStranded == Spec /\ [][~LosesWorker]_vars => []NoStrandedInput
<1> DEFINE I == CallsInv /\ TicketsInv /\ NoStrandedInput
<1>1. Init => I
  <2>1. Init => TicketsInv /\ NoStrandedInput
    BY DEF Init, InitialState, TicketsInv, Filed, NonePending, Up, NoStrandedInput
  <2> QED
    BY <2>1, CallsInit
<1>2. I /\ [Next]_vars /\ [~LosesWorker]_vars => I'
  <2> SUFFICES ASSUME I, [Next]_vars, [~LosesWorker]_vars
               PROVE  I'
    OBVIOUS
  <2>1. CallsInv' /\ TicketsInv'
    BY NextCalls, TicketsKept DEF Sound
  <2>2. CASE ~LosesWorker
    BY <2>1, <2>2, StrandsNone
  <2>3. CASE UNCHANGED vars
    BY <2>1, <2>3 DEF vars, NoStrandedInput, Up, Queue
  <2> QED
    BY <2>2, <2>3
<1>3. I => NoStrandedInput
  OBVIOUS
<1> QED
  BY <1>1, <1>2, <1>3, PTL DEF Spec

-------------------------------------------------------------------------------
(* The order of service.                                                   *)

LEMMA FirstIsLeast ==
  ASSUME NEW items, items \subseteq Item, items # {}
  PROVE  First(items) \in items /\ \A y \in items : First(items).seq <= y.seq
<1> DEFINE S == {x.seq : x \in items}
<1>1. S \subseteq Nat /\ S # {}
  BY DEF Item
<1>2. PICK n \in S : \A m \in S : n <= m
  BY <1>1, LeastNumber
<1>3. PICK x \in items : x.seq = n
  OBVIOUS
<1>4. \A y \in items : x.seq <= y.seq
  BY <1>2, <1>3
<1> QED
  BY <1>4 DEF First

LEMMA HeadIsLeast ==
  ASSUME Typed(state), Queue(state) # {}
  PROVE  /\ QueueHead \in Queue(state)
         /\ \A q \in Queue(state) : state.queue[QueueHead].seq <= state.queue[q].seq
<1> DEFINE S == {state.queue[r].seq : r \in Queue(state)}
<1>1. S \subseteq Nat /\ S # {}
  BY DEF Typed, Entry, Queue
<1>2. PICK n \in S : \A m \in S : n <= m
  BY <1>1, LeastNumber
<1>3. PICK x \in Queue(state) : state.queue[x].seq = n
  OBVIOUS
<1>4. \A y \in Queue(state) : state.queue[x].seq <= state.queue[y].seq
  BY <1>2, <1>3
<1> QED
  BY <1>4 DEF QueueHead

\* Nothing new is queued and nothing new is to be notified.
NothingNew(s) ==
  /\ \A r \in Queue(s) : r \in Queue(state) /\ s.queue[r] = state.queue[r]
  /\ \A r \in Requests : state.requests[r] # "absent" => s.requests[r] # "absent"
  /\ \A j \in Waiting(s) : j \in Waiting(state) /\ s.notifications[j] = state.notifications[j]
  /\ s.clock = state.clock /\ s.turns = state.turns
  /\ s.currentTurn = state.currentTurn \/ s.currentTurn = 0

LEMMA NumberedKept ==
  ASSUME NEW s, Numbered(state), NothingNew(s), state.turns \in Nat
  PROVE  Numbered(s)
<1>1. s.currentTurn <= s.turns
  <2>1. 0 <= state.turns
    OBVIOUS
  <2> QED
    BY <2>1 DEF Numbered, NothingNew
<1>2. \A r \in Queue(s) : r \in Requests
  BY DEF Queue
<1> QED
  BY <1>1, <1>2 DEF Numbered, NothingNew

LEMMA ArrivalsKept ==
  ASSUME NEW s, NothingNew(s), s.currentTurn = state.currentTurn
  PROVE  /\ ArrivalsOf(s) \subseteq ArrivalsOf(state)
         /\ \A y \in ArrivalsOf(state) : y.kind = "input" /\ y.id \in Queue(s) =>
              y \in ArrivalsOf(s)
  BY DEF NothingNew, ArrivalsOf

\* What an arrival is.
LEMMA ArrivalIs ==
  ASSUME NEW s, NEW y \in ArrivalsOf(s)
  PROVE  /\ y.kind = "input" => /\ y.id \in Queue(s) /\ y.seq = s.queue[y.id].seq
                                /\ y = [kind |-> "input", id |-> y.id, seq |-> y.seq]
                                /\ \/ Mode[y.id] = "compact"
                                   \/ /\ Mode[y.id] = "steer"
                                      /\ s.queue[y.id].target = s.currentTurn
         /\ y.kind # "input" => /\ y.kind = "notification" /\ y.id \in Waiting(s)
                                /\ y.seq = s.notifications[y.id]
                                /\ y = [kind |-> "notification", id |-> y.id, seq |-> y.seq]
  BY DEF ArrivalsOf

\* The work list gets shorter with what there is to do.
LEMMA ListShrinks ==
  ASSUME NEW s, NothingNew(s), s.currentTurn = state.currentTurn, NEW v,
         Boundary(w), ListFirst(state, w), v.arrivals \subseteq w.arrivals,
         \A x \in Remaining(w) : x \in ArrivalsOf(s) => x \in Remaining(v),
         \A y \in Remaining(v) :
           y \in Remaining(w) /\ (y.kind = "input" => y.id \in Queue(s)),
         v.pc = "postUser" => /\ First(v.arrivals).id \notin Queue(s)
                              /\ s.requests[First(v.arrivals).id] # "absent"
  PROVE  ListFirst(s, v)
<1>1. /\ ArrivalsOf(s) \subseteq ArrivalsOf(state)
      /\ \A y \in ArrivalsOf(state) : y.kind = "input" /\ y.id \in Queue(s) =>
           y \in ArrivalsOf(s)
  BY ArrivalsKept
<1>2. \A y \in v.arrivals : y.seq <= s.clock
  BY DEF ListFirst, NothingNew
<1>3. \A y \in Remaining(v) : y.kind = "input" => y \in ArrivalsOf(s)
  BY <1>1 DEF ListFirst
<1>4. \A x \in ArrivalsOf(s), y \in v.arrivals : x \in Remaining(v) \/ y.seq < x.seq
  BY <1>1 DEF ListFirst
<1> QED
  BY <1>2, <1>3, <1>4 DEF ListFirst

\* An entry that stays at the head of what is left, or is no longer queued.
LEMMA HeadKept ==
  ASSUME NEW s, NothingNew(s), s.currentTurn = state.currentTurn, NEW v, HeadFirst(state, w),
         Busy(v) => /\ Busy(w) /\ v.entry = w.entry /\ v.entry \in Requests
                    /\ InTurn(v) => InTurn(w)
  PROVE  HeadFirst(s, v)
<1>1. ASSUME Busy(v)
      PROVE  s.requests[v.entry] # "absent"
  BY <1>1 DEF HeadFirst, NothingNew
<1>2. ASSUME Busy(v), v.entry \in Queue(s)
      PROVE  /\ \A q \in Queue(s) : s.queue[v.entry].seq <= s.queue[q].seq
             /\ InTurn(v) => /\ Mode[v.entry] # "compact"
                             /\ s.queue[v.entry].target # s.currentTurn
  BY <1>2 DEF HeadFirst, NothingNew
<1> QED
  BY <1>1, <1>2 DEF HeadFirst

LEMMA QueueRecord ==
  ASSUME QueueInv, NEW next, NEW v, NEW told, RecordOnly(next, v, told), Numbered(next),
         Up => Served(next, v)
  PROVE  QueueInv'
<1>1. CASE state' = next /\ w' = v /\ UNCHANGED <<life, poisoned>>
  BY <1>1 DEF QueueInv, Up
<1>2. CASE RecordFails(next)
  <2>1. /\ state' \in {state, next}
        /\ IF life = "recovering" THEN life' = "down" ELSE poisoned' = TRUE
    BY <1>2 DEF RecordFails
  <2> QED
    BY <2>1 DEF QueueInv, Up
<1> QED
  BY <1>1, <1>2 DEF RecordOnly

LEMMA QueueStep ==
  ASSUME QueueInv, NEW v, Step(v), Up => Served(state, v)
  PROVE  QueueInv'
<1>1. w' = v /\ UNCHANGED <<state, life, poisoned>>
  BY DEF Step
<1> QED
  BY <1>1 DEF QueueInv, Up

\* A worker without an entry and without a work list, outside a turn.
LEMMA IdleServed ==
  ASSUME NEW s, NEW v, s.currentTurn = 0, v.pc \in {"none", "ready", "drain", "postTurn"}
  PROVE  Served(s, v)
  BY DEF Served, HeadFirst, ListFirst, Busy, Boundary, TurnPCs, CompactPCs

LEMMA QuietQueue ==
  ASSUME CallsInv, QueueInv, Quiet
  PROVE  QueueInv'
<1>1. NothingNew(state') /\ state'.currentTurn = state.currentTurn
      /\ state'.requests = state.requests /\ Queue(state') = Queue(state)
  BY DEF Quiet, SameArrivals, SameRequests, NothingNew, Queue
<1>2. Numbered(state')
  BY <1>1, NumberedKept, TypedParts, StateHas DEF QueueInv
<1>3. ASSUME Up'
      PROVE  Served(state', w')
  <2>1. Up /\ Calm(w') /\ Served(state, w)
    BY <1>3 DEF Quiet, QueueInv
  <2>2. HeadFirst(state', w')
    BY <1>1, <2>1 DEF Served, HeadFirst, Calm, Quiet, SameArrivals, SameRequests
  <2>3. ListFirst(state', w')
    <3>1. CASE ~Boundary(w')
      BY <3>1 DEF ListFirst
    <3>2. CASE Boundary(w')
      <4>1. /\ Boundary(w) /\ Remaining(w') = Remaining(w) /\ w'.arrivals \subseteq w.arrivals
            /\ w'.pc = "postUser" => w.pc = "postUser" /\ w'.arrivals = w.arrivals
        BY <2>1, <3>2 DEF Calm
      <4>2. ListFirst(state, w)
        BY <2>1 DEF Served
      <4>3. \A y \in Remaining(w) : y.kind = "input" => y.id \in Queue(state)
        BY <4>1, <4>2, ArrivalIs DEF ListFirst
      <4>4. w'.pc = "postUser" => /\ First(w'.arrivals).id \notin Queue(state')
                                  /\ state'.requests[First(w'.arrivals).id] # "absent"
        BY <1>1, <4>1, <4>2 DEF ListFirst
      <4> QED
        BY <1>1, <4>1, <4>2, <4>3, <4>4, ListShrinks
    <3> QED
      BY <3>1, <3>2
  <2>4. state'.currentTurn # 0 => InTurn(w')
    BY <1>1, <2>1 DEF Served, Calm
  <2> QED
    BY <2>2, <2>3, <2>4 DEF Served
<1> QED
  BY <1>2, <1>3 DEF QueueInv

LEMMA KeptEvents ==
  ASSUME state \in States, NEW r \in Requests, NEW o \in Outcomes, NEW j
  PROVE  /\ NothingNew(UserAccepted(state, r)) /\ NothingNew(InputFinished(state, r, o))
         /\ NothingNew(NotificationAccepted(state, j))
         /\ Queue(UserAccepted(state, r)) = Queue(state) \ {r}
         /\ Queue(InputFinished(state, r, o)) = Queue(state) \ {r}
         /\ UserAccepted(state, r).requests[r] # "absent"
         /\ InputFinished(state, r, o).requests[r] # "absent"
         /\ UserAccepted(state, r).currentTurn = state.currentTurn
         /\ InputFinished(state, r, o).currentTurn = state.currentTurn
<1>1. /\ state.queue \in [Requests -> Entry] /\ state.requests \in [Requests -> Statuses]
      /\ state.notifications \in Seq(Nat)
  BY StateHas
<1>2. o # "absent" /\ NotThere.seq = 0
  BY DEF Outcomes, NotThere
<1>3. ASSUME NEW t, t.clock = state.clock, t.turns = state.turns,
             t.notifications = state.notifications, t.currentTurn = state.currentTurn,
             t.queue = [state.queue EXCEPT ![r] = NotThere],
             NEW status, status # "absent", t.requests = [state.requests EXCEPT ![r] = status]
      PROVE  NothingNew(t) /\ Queue(t) = Queue(state) \ {r} /\ t.requests[r] # "absent"
  <2>1. Queue(t) = Queue(state) \ {r}
    BY <1>1, <1>2, <1>3 DEF Queue
  <2> QED
    BY <1>1, <1>3, <2>1 DEF NothingNew, Queue, Waiting
<1>4. LET t == UserAccepted(state, r)
      IN  /\ NothingNew(t) /\ Queue(t) = Queue(state) \ {r} /\ t.requests[r] # "absent"
          /\ t.currentTurn = state.currentTurn
  <2> DEFINE t == UserAccepted(state, r)
  <2>1. /\ t.clock = state.clock /\ t.turns = state.turns
        /\ t.notifications = state.notifications /\ t.currentTurn = state.currentTurn
        /\ t.queue = [state.queue EXCEPT ![r] = NotThere]
        /\ t.requests = [state.requests EXCEPT ![r] = "accepted"] /\ "accepted" # "absent"
    BY DEF States, UserAccepted
  <2> HIDE DEF t
  <2>2. NothingNew(t) /\ Queue(t) = Queue(state) \ {r} /\ t.requests[r] # "absent"
    BY <1>3, <2>1, Zenon
  <2> QED
    BY <2>1, <2>2 DEF t
<1>5. LET t == InputFinished(state, r, o)
      IN  /\ NothingNew(t) /\ Queue(t) = Queue(state) \ {r} /\ t.requests[r] # "absent"
          /\ t.currentTurn = state.currentTurn
  <2> DEFINE t == InputFinished(state, r, o)
  <2>1. /\ t.clock = state.clock /\ t.turns = state.turns
        /\ t.notifications = state.notifications /\ t.currentTurn = state.currentTurn
        /\ t.queue = [state.queue EXCEPT ![r] = NotThere]
        /\ t.requests = [state.requests EXCEPT ![r] = o]
    BY DEF States, InputFinished
  <2> HIDE DEF t
  <2>2. NothingNew(t) /\ Queue(t) = Queue(state) \ {r} /\ t.requests[r] # "absent"
    BY <1>2, <1>3, <2>1
  <2> QED
    BY <2>1, <2>2 DEF t
<1>6. NothingNew(NotificationAccepted(state, j))
  <2> DEFINE t == NotificationAccepted(state, j)
  <2>1. /\ t.clock = state.clock /\ t.turns = state.turns
        /\ t.notifications = [state.notifications EXCEPT ![j] = 0]
        /\ t.currentTurn = state.currentTurn
        /\ t.queue = state.queue /\ t.requests = state.requests
    BY DEF States, NotificationAccepted
  <2> HIDE DEF t
  <2>2. \A i \in Waiting(t) : i \in Waiting(state) /\ t.notifications[i] = state.notifications[i]
    BY <1>1, <2>1 DEF Waiting
  <2>3. NothingNew(t)
    BY <2>1, <2>2 DEF NothingNew, Queue
  <2> QED
    BY <2>3 DEF t
<1> QED
  BY <1>4, <1>5, <1>6

LEMMA EndIsKept ==
  ASSUME state \in States, NEW o \in Outcomes
  PROVE  NothingNew(TurnEnded(state, o)) /\ TurnEnded(state, o).currentTurn = 0
<1> DEFINE t == TurnEnded(state, o)
<1>1. /\ t.clock = state.clock /\ t.turns = state.turns
      /\ t.notifications = state.notifications /\ t.currentTurn = 0
      /\ t.queue = state.queue
      /\ t.requests = [q \in Requests |-> IF q \in state.turnRequests THEN o
                                                           ELSE state.requests[q]]
  BY DEF States, TurnEnded
<1>2. o # "absent"
  BY DEF Outcomes
<1> HIDE DEF t
<1>3. NothingNew(t)
  BY <1>1, <1>2 DEF NothingNew, Queue, Waiting
<1> QED
  BY <1>1, <1>3 DEF t

\* Where the worker is about to take, or has just taken, the first arrival.
AtFirst == w.pc \in {"preUser", "postUser"} \cup CompactPCs /\ w.site \in {"head", "tail"}

\* What the list and the queue say of the first arrival.
LEMMA FirstOfList ==
  ASSUME CallsInv, Up, Served(state, w), AtFirst
  PROVE  /\ w.arrivals # {} /\ w.arrivals \subseteq Item
         /\ First(w.arrivals).kind = "input" /\ First(w.arrivals).id = Current
         /\ First(w.arrivals) \in w.arrivals
         /\ Boundary(w) /\ Busy(w) /\ InTurn(w) /\ w.entry \in Requests
         /\ IF w.pc = "postUser" THEN Current \notin Queue(state)
            ELSE /\ Remaining(w) = w.arrivals
                 /\ First(w.arrivals) \in ArrivalsOf(state) /\ Current \in Queue(state)
         /\ \A y \in w.arrivals : First(w.arrivals).seq <= y.seq
<1>1. w.pc \notin {"none", "closeBatch", "ready", "drain", "postTurn"}
  BY DEF AtFirst, CompactPCs
<1>2. Shaped(w) /\ w \in Workers
  BY <1>1, AtWorkShaped, TypedParts
<1>3. /\ w.arrivals # {} /\ w.arrivals \subseteq Item /\ w.entry \in Requests
      /\ First(w.arrivals).kind = "input" /\ First(w.arrivals).id = Current
  BY <1>1, <1>2 DEF Shaped, Workers, AtFirst, Current
<1>4. /\ First(w.arrivals) \in w.arrivals
      /\ \A y \in w.arrivals : First(w.arrivals).seq <= y.seq
  BY <1>3, FirstIsLeast
<1>5. Boundary(w) /\ Busy(w) /\ InTurn(w)
  BY DEF AtFirst, Boundary, Busy, InTurn, TurnPCs, CompactPCs
<1>6. CASE w.pc = "postUser"
  BY <1>3, <1>4, <1>5, <1>6 DEF Served, ListFirst
<1>7. CASE w.pc # "postUser"
  <2>1. Remaining(w) = w.arrivals
    BY <1>7 DEF Remaining
  <2>2. First(w.arrivals) \in ArrivalsOf(state)
    BY <1>3, <1>4, <1>5, <2>1 DEF Served, ListFirst
  <2>3. Current \in Queue(state)
    BY <1>3, <2>2, ArrivalIs
  <2> QED
    BY <1>3, <1>4, <1>5, <1>7, <2>1, <2>2, <2>3
<1> QED
  BY <1>6, <1>7

LEMMA TakenServed ==
  ASSUME CallsInv, Up, Served(state, w), AtFirst, NEW s, NothingNew(s),
         s.currentTurn = state.currentTurn,
         Queue(s) = Queue(state) \ {Current}, s.requests[Current] # "absent",
         NEW v, InTurn(v), Boundary(v), v.entry = w.entry,
         IF v.pc = "postUser" THEN v.arrivals = w.arrivals
                              ELSE v.arrivals = w.arrivals \ {First(w.arrivals)}
  PROVE  Served(s, v)
<1> DEFINE first == First(w.arrivals)
           rest == w.arrivals \ {first}
<1>1. /\ first.kind = "input" /\ first.id = Current /\ first \in w.arrivals
      /\ Boundary(w) /\ Busy(w) /\ InTurn(w) /\ w.entry \in Requests
      /\ IF w.pc = "postUser" THEN Current \notin Queue(state) /\ Remaining(w) = rest
                              ELSE Remaining(w) = w.arrivals /\ first \in ArrivalsOf(state)
  BY FirstOfList DEF Remaining
<1>2. /\ Remaining(v) = rest /\ v.arrivals \subseteq w.arrivals
      /\ v.pc = "postUser" => First(v.arrivals) = first
  BY DEF Remaining
<1>3. ListFirst(state, w) /\ HeadFirst(state, w)
  BY DEF Served
<1> HIDE DEF first, rest
<1>4. ASSUME NEW x \in Remaining(w), x \in ArrivalsOf(s)
      PROVE  x \in Remaining(v)
  <2>1. x # first
    BY <1>1, <1>4, ArrivalIs
  <2> QED
    BY <1>1, <1>2, <1>4, <2>1 DEF rest, first
<1>5. ASSUME NEW y \in Remaining(v)
      PROVE  y \in Remaining(w) /\ (y.kind = "input" => y.id \in Queue(s))
  <2>1. y \in Remaining(w) /\ y # first
    BY <1>1, <1>2, <1>5 DEF rest, first
  <2>2. ASSUME y.kind = "input"
        PROVE  y.id \in Queue(s)
    <3>1. y \in ArrivalsOf(state)
      BY <1>1, <1>3, <2>1, <2>2 DEF ListFirst
    <3>2. /\ y.id \in Queue(state) /\ y = [kind |-> "input", id |-> y.id, seq |-> y.seq]
          /\ y.seq = state.queue[y.id].seq
      BY <2>2, <3>1, ArrivalIs
    <3>3. CASE w.pc = "postUser"
      BY <1>1, <3>2, <3>3
    <3>4. CASE w.pc # "postUser"
      <4>1. /\ first = [kind |-> "input", id |-> first.id, seq |-> first.seq]
            /\ first.seq = state.queue[first.id].seq
        BY <1>1, <3>4, ArrivalIs
      <4>2. y.id # first.id
        BY <2>1, <3>2, <4>1
      <4> QED
        BY <1>1, <3>2, <4>2
    <3> QED
      BY <3>3, <3>4
  <2> QED
    BY <2>1, <2>2
<1>6. v.pc = "postUser" => /\ First(v.arrivals).id \notin Queue(s)
                           /\ s.requests[First(v.arrivals).id] # "absent"
  BY <1>1, <1>2
<1>7. ListFirst(s, v)
  BY <1>1, <1>2, <1>3, <1>4, <1>5, <1>6, ListShrinks
<1>8. HeadFirst(s, v)
  BY <1>1, <1>3, HeadKept
<1> QED
  BY <1>7, <1>8 DEF Served

LEMMA SettlesQueue ==
  ASSUME CallsInv, QueueInv, Settles
  PROVE  QueueInv'
<1>1. Up /\ Served(state, w) /\ state \in States /\ state.turns \in Nat
  BY TypedParts, StateHas DEF Settles, QueueInv, Up
<1>2. Current \in Requests
  <2>1. w.pc \in {"preUser", "postUser"} \/ (w.pc \in CompactPCs /\ w.site # "budget")
    BY DEF Settles
  <2> QED
    BY <1>1, <2>1, CurrentIsRequest DEF Up
<1>3. ASSUME NEW o \in Outcomes
      PROVE  LET t == InputFinished(state, Current, o)
             IN  /\ NothingNew(t) /\ Queue(t) = Queue(state) \ {Current}
                 /\ t.requests[Current] # "absent" /\ t.currentTurn = state.currentTurn
                 /\ Numbered(t)
  BY <1>1, <1>2, KeptEvents, NumberedKept DEF QueueInv
<1>4. CASE /\ w.pc \in {"preUser", "postUser"} \cup CompactPCs /\ w.site \in {"head", "tail"}
           /\ \E o \in Outcomes :
                RecordAndTell(InputFinished(state, Current, o), NextArrival,
                              Resolve({Current}, o))
  <2>1. PICK o \in Outcomes : RecordOnly(InputFinished(state, Current, o), NextArrival,
                                         Resolve({Current}, o))
    BY <1>4 DEF RecordAndTell
  <2> DEFINE t == InputFinished(state, Current, o)
             v == NextArrival
  <2>2. /\ v.pc = "arrivals" /\ v.entry = w.entry
        /\ v.arrivals = w.arrivals \ {First(w.arrivals)}
    BY TypedParts DEF NextArrival, Workers
  <2>3. InTurn(v) /\ Boundary(v) /\ AtFirst
    BY <1>4, <2>2 DEF InTurn, TurnPCs, Boundary, AtFirst
  <2>4. /\ NothingNew(t) /\ Queue(t) = Queue(state) \ {Current} /\ Numbered(t)
        /\ t.requests[Current] # "absent" /\ t.currentTurn = state.currentTurn
    BY <1>3
  <2> HIDE DEF t, v
  <2>5. Served(t, v)
    BY <1>1, <2>2, <2>3, <2>4, TakenServed
  <2>6. RecordOnly(t, v, Resolve({Current}, o))
    BY <2>1 DEF t, v
  <2> QED
    BY <2>4, <2>5, <2>6, QueueRecord
<1>5. CASE /\ w.pc \in CompactPCs /\ w.site = "top"
           /\ \E o \in Outcomes :
                RecordAndTell(InputFinished(state, Current, o),
                              [NoWorker EXCEPT !.pc = "drain"], Resolve({Current}, o))
  <2> DEFINE v == [NoWorker EXCEPT !.pc = "drain"]
  <2>1. PICK o \in Outcomes : RecordOnly(InputFinished(state, Current, o), v,
                                         Resolve({Current}, o))
    BY <1>5 DEF RecordAndTell
  <2> DEFINE t == InputFinished(state, Current, o)
  <2>2. v.pc = "drain" /\ ~InTurn(w)
    BY <1>5 DEF NoWorker, InTurn, TurnPCs, CompactPCs
  <2>3. Numbered(t) /\ t.currentTurn = 0
    BY <1>1, <1>3, <2>2 DEF Served
  <2> HIDE DEF t, v
  <2>4. Served(t, v)
    BY <2>2, <2>3, IdleServed
  <2>5. RecordOnly(t, v, Resolve({Current}, o))
    BY <2>1 DEF t
  <2> QED
    BY <2>3, <2>4, <2>5, QueueRecord
<1> QED
  BY <1>4, <1>5 DEF Settles

LEMMA LosesQueue ==
  ASSUME CallsInv, QueueInv, LosesWorker
  PROVE  QueueInv'
<1>1. /\ ~poisoned /\ Die
      /\ w.pc = "postTurn" \/ (w.pc = "summary" /\ w.site = "top")
  BY DEF LosesWorker, PostTurnFails, SummaryInterrupted, At
<1>2. Up /\ ~InTurn(w)
  BY <1>1, AtWorkShaped DEF InTurn, TurnPCs, CompactPCs, Up
<1>3. state.currentTurn = 0
  BY <1>2 DEF QueueInv, Served
<1>4. state' = state /\ w' = NoWorker /\ NoWorker.pc = "none"
  BY <1>1 DEF Die, NoWorker
<1>5. Served(state', w')
  BY <1>3, <1>4, IdleServed
<1> QED
  BY <1>4, <1>5 DEF QueueInv

LEMMA NumberedTurn ==
  ASSUME NEW s, Numbered(s), NEW t, t.clock = s.clock, t.turns = s.turns + 1,
         t.currentTurn = s.turns + 1, t.queue = s.queue, t.requests = s.requests,
         t.notifications = s.notifications, s.turns \in Nat, s.queue \in [Requests -> Entry]
  PROVE  Numbered(t) /\ \A r \in Queue(t) : t.queue[r].target # t.currentTurn
<1>1. \A r \in Queue(s) : s.queue[r].target \in Nat /\ s.queue[r].target <= s.turns
  BY DEF Numbered, Queue, Entry
<1>2. \A n \in Nat : n <= s.turns => n <= s.turns + 1 /\ n # s.turns + 1
  OBVIOUS
<1>3. Queue(t) = Queue(s) /\ Waiting(t) = Waiting(s) /\ t.currentTurn <= t.turns
  BY DEF Queue, Waiting
<1> QED
  BY <1>1, <1>2, <1>3 DEF Numbered

LEMMA DrainQueue ==
  ASSUME CallsInv, QueueInv, Drained \/ DrainCompact \/ StartTurn
  PROVE  QueueInv'
<1>1. w.pc \in {"ready", "drain"} /\ ~poisoned
  BY DEF Drained, DrainCompact, StartTurn, Draining
<1>2. Up /\ Served(state, w) /\ ~InTurn(w)
  BY <1>1, AtWorkShaped DEF Up, QueueInv, InTurn, TurnPCs, CompactPCs
<1>3. state.currentTurn = 0 /\ state \in States /\ Typed(state) /\ Numbered(state)
  BY <1>2, TypedParts, StateHas DEF Served, QueueInv
<1>4. CASE Drained
  <2>1. Step(NoWorker) /\ NoWorker.pc = "none"
    BY <1>4 DEF Drained, NoWorker
  <2> QED
    BY <1>3, <2>1, IdleServed, QueueStep
<1>5. Queue(state) # {} =>
        /\ QueueHead \in Queue(state) /\ QueueHead \in Requests
        /\ \A q \in Queue(state) : state.queue[QueueHead].seq <= state.queue[q].seq
        /\ state.requests[QueueHead] # "absent"
  BY <1>3, HeadIsLeast DEF Numbered, Queue
<1>6. CASE DrainCompact
  <2> DEFINE v == [NoWorker EXCEPT !.pc = "compact", !.entry = QueueHead]
  <2>1. Step(v) /\ v.pc = "compact" /\ v.site = "top" /\ v.entry = QueueHead /\ Queue(state) # {}
    BY <1>6 DEF DrainCompact, NoWorker
  <2> HIDE DEF v
  <2>2. ~InTurn(v) /\ ~Boundary(v)
    BY <2>1 DEF InTurn, Boundary, TurnPCs, CompactPCs
  <2>3. Served(state, v)
    BY <1>3, <1>5, <2>1, <2>2 DEF Served, HeadFirst, ListFirst
  <2> QED
    BY <2>1, <2>3, QueueStep
<1>7. CASE StartTurn
  <2> DEFINE v == [NoWorker EXCEPT !.pc = "preTurn", !.site = "turn", !.entry = QueueHead]
             t == TurnStarted(state)
  <2>1. /\ RecordOnly(t, v, tickets) /\ v.pc = "preTurn" /\ v.entry = QueueHead
        /\ Queue(state) # {} /\ Mode[QueueHead] # "compact"
    BY <1>7 DEF StartTurn, NoWorker
  <2>2. /\ t.clock = state.clock /\ t.turns = state.turns + 1
        /\ t.currentTurn = state.turns + 1 /\ t.queue = state.queue
        /\ t.requests = state.requests /\ t.notifications = state.notifications
    BY <1>3 DEF States, TurnStarted
  <2>3. state.turns \in Nat /\ state.queue \in [Requests -> Entry]
    BY <1>3, StateHas
  <2> HIDE DEF v, t
  <2>4. /\ Numbered(t) /\ \A r \in Queue(t) : t.queue[r].target # t.currentTurn
        /\ Queue(t) = Queue(state)
    BY <1>3, <2>2, <2>3, NumberedTurn DEF Queue
  <2>5. InTurn(v) /\ ~Boundary(v)
    BY <2>1 DEF InTurn, Boundary, TurnPCs, CompactPCs
  <2>6. HeadFirst(t, v)
    BY <1>5, <2>1, <2>2, <2>4 DEF HeadFirst
  <2>7. Served(t, v)
    BY <2>5, <2>6 DEF Served, ListFirst
  <2> QED
    BY <2>1, <2>4, <2>7, QueueRecord
<1> QED
  BY <1>4, <1>6, <1>7

LEMMA BoundaryQueue ==
  ASSUME CallsInv, QueueInv, AcceptUser \/ EnterBoundary \/ TakeNotification
  PROVE  QueueInv'
<1>1. w.pc \in {"preUser", "boundary", "arrivals"} /\ ~poisoned
  BY DEF AcceptUser, EnterBoundary, TakeNotification, At
<1>2. InTurn(w) /\ Busy(w) /\ Up /\ Shaped(w) /\ w.entry \in Requests
  BY <1>1, AtWorkShaped DEF InTurn, Busy, TurnPCs, Up, Shaped
<1>3. /\ Served(state, w) /\ HeadFirst(state, w) /\ Numbered(state) /\ w \in Workers
      /\ state \in States /\ state.turns \in Nat
  BY <1>2, TypedParts, StateHas DEF QueueInv, Served
<1>4. CASE AcceptUser
  <2> DEFINE v == [w EXCEPT !.pc = "postUser"]
             t == UserAccepted(state, Current)
  <2>1. /\ RecordOnly(t, v, tickets) /\ v.pc = "postUser" /\ v.entry = w.entry
        /\ v.site = w.site /\ v.arrivals = w.arrivals /\ w.pc = "preUser"
    BY <1>3, <1>4 DEF AcceptUser, Record, RecordAndTell, At, Workers
  <2>2. Current \in Requests
    BY <1>1, <2>1, CurrentIsRequest
  <2>3. /\ NothingNew(t) /\ Queue(t) = Queue(state) \ {Current}
        /\ t.requests[Current] # "absent" /\ t.currentTurn = state.currentTurn
    BY <1>3, <2>2, KeptEvents DEF Outcomes
  <2> HIDE DEF v, t
  <2>4. Numbered(t)
    BY <1>3, <2>3, NumberedKept
  <2>5. InTurn(v) /\ (Boundary(v) <=> w.site \in {"head", "tail"})
    BY <2>1 DEF InTurn, TurnPCs, Boundary
  <2>6. Served(t, v)
    <3>1. CASE w.site \in {"head", "tail"}
      <4>1. AtFirst
        BY <2>1, <3>1 DEF AtFirst
      <4> QED
        BY <1>2, <1>3, <2>1, <2>3, <2>5, <3>1, <4>1, TakenServed
    <3>2. CASE w.site \notin {"head", "tail"}
      <4>1. HeadFirst(t, v)
        BY <1>2, <1>3, <2>1, <2>3, HeadKept
      <4> QED
        BY <2>5, <3>2, <4>1 DEF Served, ListFirst
    <3> QED
      BY <3>1, <3>2
  <2> QED
    BY <2>1, <2>4, <2>6, QueueRecord
<1>5. CASE EnterBoundary
  <2> DEFINE v == [w EXCEPT !.pc = "arrivals", !.arrivals = Arrivals, !.steered = FALSE]
  <2>1. Arrivals = ArrivalsOf(state)
    BY DEF Arrivals, ArrivalsOf, Concerns
  <2>2. /\ Step(v) /\ v.pc = "arrivals" /\ v.entry = w.entry
        /\ v.arrivals = ArrivalsOf(state)
    BY <1>3, <1>5, <2>1 DEF EnterBoundary, Workers
  <2> HIDE DEF v
  <2>3. InTurn(v) /\ NothingNew(state) /\ Remaining(v) = v.arrivals
    BY <2>2 DEF InTurn, TurnPCs, NothingNew, Remaining
  <2>4. HeadFirst(state, v)
    BY <1>2, <1>3, <2>2, <2>3, HeadKept
  <2>5. \A y \in ArrivalsOf(state) : y.seq <= state.clock
    BY <1>3, ArrivalIs DEF Numbered
  <2>6. ListFirst(state, v)
    BY <2>2, <2>3, <2>5 DEF ListFirst
  <2> QED
    BY <2>2, <2>3, <2>4, <2>6, QueueStep DEF Served
<1>6. CASE TakeNotification
  <2> DEFINE first == First(w.arrivals)
             v == [NextArrival EXCEPT !.steered = TRUE]
             t == NotificationAccepted(state, first.id)
  <2>1. /\ RecordOnly(t, v, tickets) /\ v.pc = "arrivals" /\ v.entry = w.entry
        /\ v.arrivals = w.arrivals \ {first}
        /\ w.pc = "arrivals" /\ first.kind = "notification"
    BY <1>3, <1>6 DEF TakeNotification, Record, RecordAndTell, At, Workers, NextArrival
  <2>2. NothingNew(t) /\ t.currentTurn = state.currentTurn /\ Queue(t) = Queue(state)
    <3>1. NothingNew(t)
      BY <1>2, <1>3, KeptEvents DEF Outcomes
    <3>2. t.currentTurn = state.currentTurn /\ t.queue = state.queue
      BY <1>3 DEF States, NotificationAccepted
    <3> QED
      BY <3>1, <3>2 DEF Queue
  <2>3. first.id \notin Waiting(t)
    <3>1. /\ t.notifications = [state.notifications EXCEPT ![first.id] = 0]
      BY <1>3 DEF States, NotificationAccepted
    <3>2. state.notifications \in Seq(Nat)
      BY <1>3, StateHas
    <3> HIDE DEF first, t
    <3> QED
      BY <3>1, <3>2 DEF Waiting
  <2> HIDE DEF v, t, first
  <2>4. Numbered(t)
    BY <1>3, <2>2, NumberedKept
  <2>5. /\ Boundary(w) /\ Remaining(w) = w.arrivals /\ InTurn(v) /\ Boundary(v)
        /\ Remaining(v) = v.arrivals /\ v.pc # "postUser"
    BY <2>1 DEF Boundary, Remaining, InTurn, TurnPCs
  <2>6. HeadFirst(t, v)
    BY <1>2, <1>3, <2>1, <2>2, HeadKept
  <2>7. ListFirst(state, w)
    BY <1>3 DEF Served
  <2>8. ASSUME NEW x \in Remaining(w), x \in ArrivalsOf(t)
        PROVE  x \in Remaining(v)
    <3>1. x # first
      BY <2>1, <2>3, <2>8, ArrivalIs
    <3> QED
      BY <2>1, <2>5, <3>1
  <2>9. ASSUME NEW y \in Remaining(v)
        PROVE  y \in Remaining(w) /\ (y.kind = "input" => y.id \in Queue(t))
    <3>1. y \in w.arrivals
      BY <2>1, <2>5
    <3> QED
      BY <2>2, <2>5, <2>7, <3>1, ArrivalIs DEF ListFirst
  <2>10. ListFirst(t, v)
    BY <2>1, <2>2, <2>5, <2>7, <2>8, <2>9, ListShrinks
  <2>11. Served(t, v)
    BY <2>5, <2>6, <2>10 DEF Served
  <2> QED
    BY <2>1, <2>4, <2>11, QueueRecord
<1> QED
  BY <1>4, <1>5, <1>6

LEMMA EndQueue ==
  ASSUME CallsInv, QueueInv, RejectEntry \/ EndTurn \/ PostTurn
  PROVE  QueueInv'
<1>1. /\ state \in States /\ w \in Workers /\ w.status \in Outcomes
      /\ Numbered(state) /\ state.turns \in Nat
  BY TypedParts, StateHas DEF QueueInv, Workers
<1>2. CASE RejectEntry
  <2> DEFINE t == InputFinished(state, w.entry, w.status)
  <2>1. /\ RecordOnly(t, w, tickets) /\ w.entry \in Queue(state)
        /\ w.pc = "closeBatch"
    BY <1>2 DEF RejectEntry, Record, RecordAndTell, At
  <2>2. w.entry \in Requests /\ InTurn(w) /\ Busy(w) /\ ~Boundary(w)
    BY <2>1 DEF Queue, InTurn, Busy, Boundary, TurnPCs, CompactPCs
  <2>3. NothingNew(t) /\ t.currentTurn = state.currentTurn
    BY <1>1, <2>2, KeptEvents
  <2> HIDE DEF t
  <2>4. Numbered(t)
    BY <1>1, <2>3, NumberedKept
  <2>5. ASSUME Up
        PROVE  Served(t, w)
    <3>1. HeadFirst(state, w)
      BY <2>5 DEF QueueInv, Served
    <3>2. HeadFirst(t, w)
      BY <2>2, <2>3, <3>1, HeadKept
    <3> QED
      BY <2>2, <3>2 DEF Served, ListFirst
  <2> QED
    BY <2>1, <2>4, <2>5, QueueRecord
<1>3. CASE EndTurn
  <2> DEFINE a == [NoWorker EXCEPT !.pc = "postTurn", !.status = w.status,
                                   !.owed = {w.entry} \cup state.turnRequests]
             b == [NoWorker EXCEPT !.pc = "ready"]
             t == TurnEnded(state, w.status)
  <2>1. /\ a.pc = "postTurn" /\ b.pc = "ready"
        /\ \E told : RecordOnly(t, a, told) \/ RecordOnly(t, b, told)
    BY <1>3 DEF EndTurn, Record, RecordAndTell, NoWorker
  <2>2. NothingNew(t) /\ t.currentTurn = 0
    BY <1>1, EndIsKept
  <2> HIDE DEF a, b, t
  <2>3. Numbered(t)
    BY <1>1, <2>2, NumberedKept
  <2>4. Served(t, a) /\ Served(t, b)
    BY <2>1, <2>2, IdleServed
  <2> QED
    BY <2>1, <2>3, <2>4, QueueRecord
<1>4. CASE PostTurn
  <2>1. /\ w.pc = "postTurn" /\ w' = [NoWorker EXCEPT !.pc = "ready"]
        /\ UNCHANGED <<state, life, poisoned>>
    BY <1>4 DEF PostTurn
  <2>2. ~InTurn(w) /\ w'.pc = "ready"
    BY <2>1 DEF InTurn, TurnPCs, CompactPCs, NoWorker
  <2>3. Up => state.currentTurn = 0
    BY <2>2 DEF QueueInv, Served
  <2>4. Up' => Served(state', w')
    BY <2>1, <2>2, <2>3, IdleServed DEF Up
  <2> QED
    BY <1>1, <2>1, <2>4 DEF QueueInv
<1> QED
  BY <1>2, <1>3, <1>4

\* One more input is queued, or one more notification waits, with the next number.
OneNew(s) ==
  /\ s.clock = state.clock + 1 /\ s.turns = state.turns
  /\ s.currentTurn = state.currentTurn
  /\ \A r \in Queue(state) : r \in Queue(s) /\ s.queue[r] = state.queue[r]
  /\ \A r \in Queue(s) \ Queue(state) :
       /\ s.queue[r].seq = state.clock + 1 /\ s.queue[r].target <= state.turns
       /\ state.requests[r] = "absent" /\ s.requests[r] # "absent"
  /\ \A r \in Requests : state.requests[r] # "absent" => s.requests[r] # "absent"
  /\ \A j \in Waiting(s) :
       \/ j \in Waiting(state) /\ s.notifications[j] = state.notifications[j]
       \/ s.notifications[j] = state.clock + 1
  /\ \A r, q \in Queue(s) \ Queue(state) : r = q
  /\ \A r \in Queue(s) \ Queue(state), j \in Waiting(s) :
       j \in Waiting(state) /\ s.notifications[j] = state.notifications[j]

LEMMA NextNumber ==
  ASSUME NEW n \in Nat, NEW m \in Nat, m <= n
  PROVE  m <= n + 1 /\ m < n + 1 /\ m # n + 1 /\ n + 1 # m
  OBVIOUS

LEMMA NumberedMore ==
  ASSUME state \in States, Numbered(state), NEW s, OneNew(s)
  PROVE  Numbered(s)
<1>1. /\ state.clock \in Nat /\ state.queue \in [Requests -> Entry]
      /\ state.notifications \in Seq(Nat)
  BY StateHas
<1>2. \A r \in Queue(state) : state.queue[r].seq \in Nat /\ r \in Requests
  BY <1>1 DEF Queue, Entry
<1>3. \A j \in Waiting(state) : state.notifications[j] \in Nat
  BY <1>1 DEF Waiting
<1>4. \A m \in Nat : m <= state.clock => m <= state.clock + 1 /\ m # state.clock + 1
                                          /\ state.clock + 1 # m
  BY <1>1, NextNumber
<1>5. state.clock + 1 <= state.clock + 1
  BY <1>1
<1>6. /\ \A r \in Queue(state) : /\ state.queue[r].seq <= state.clock + 1
                                 /\ state.queue[r].seq # state.clock + 1
      /\ \A j \in Waiting(state) : /\ state.notifications[j] <= state.clock + 1
                                   /\ state.clock + 1 # state.notifications[j]
  BY <1>2, <1>3, <1>4 DEF Numbered
<1>7. ASSUME NEW r \in Queue(s)
      PROVE  /\ s.queue[r].seq <= s.clock /\ s.queue[r].target <= s.turns
             /\ s.requests[r] # "absent"
  <2>1. CASE r \in Queue(state)
    BY <1>2, <1>6, <2>1 DEF Numbered, OneNew
  <2>2. CASE r \notin Queue(state)
    BY <1>5, <1>7, <2>2 DEF OneNew
  <2> QED
    BY <2>1, <2>2
<1>8. ASSUME NEW r \in Queue(s), NEW q \in Queue(s), s.queue[r].seq = s.queue[q].seq
      PROVE  r = q
  <2>1. CASE r \in Queue(state) /\ q \in Queue(state)
    BY <1>8, <2>1 DEF Numbered, OneNew
  <2>2. CASE r \notin Queue(state) /\ q \notin Queue(state)
    BY <2>2 DEF OneNew
  <2>3. CASE r \in Queue(state) /\ q \notin Queue(state)
    BY <1>6, <1>8, <2>3, Zenon DEF OneNew
  <2>4. CASE r \notin Queue(state) /\ q \in Queue(state)
    BY <1>6, <1>8, <2>4, Zenon DEF OneNew
  <2> QED
    BY <2>1, <2>2, <2>3, <2>4
<1>9. \A j \in Waiting(s) : s.notifications[j] <= s.clock
  BY <1>5, <1>6, Zenon DEF OneNew
<1>10. ASSUME NEW r \in Queue(s), NEW j \in Waiting(s)
       PROVE  s.queue[r].seq # s.notifications[j]
  <2>1. CASE r \in Queue(state)
    <3>1. s.queue[r] = state.queue[r] /\ state.queue[r].seq # state.clock + 1
      BY <1>6, <2>1 DEF OneNew
    <3>2. CASE j \in Waiting(state) /\ s.notifications[j] = state.notifications[j]
      BY <2>1, <3>1, <3>2 DEF Numbered
    <3>3. CASE s.notifications[j] = state.clock + 1
      BY <3>1, <3>3
    <3> QED
      BY <3>2, <3>3 DEF OneNew
  <2>2. CASE r \notin Queue(state)
    <3>1. /\ s.queue[r].seq = state.clock + 1 /\ j \in Waiting(state)
          /\ s.notifications[j] = state.notifications[j]
      BY <2>2 DEF OneNew
    <3> QED
      BY <1>6, <3>1
  <2> QED
    BY <2>1, <2>2
<1>11. s.currentTurn <= s.turns
  BY DEF Numbered, OneNew
<1> QED
  BY <1>7, <1>8, <1>9, <1>10, <1>11 DEF Numbered

LEMMA ServedMore ==
  ASSUME CallsInv, Up, Numbered(state), Served(state, w), NEW s, OneNew(s)
  PROVE  Served(s, w)
<1>1. state.clock \in Nat /\ w.arrivals \subseteq Item /\ state.queue \in [Requests -> Entry]
  BY TypedParts, StateHas DEF Workers
<1>2. \A y \in w.arrivals : y.seq \in Nat
  BY <1>1 DEF Item
<1>3. \A m \in Nat : m <= state.clock => m <= state.clock + 1 /\ m < state.clock + 1
  BY <1>1, NextNumber
<1>4. \A r \in Queue(state) : /\ state.queue[r].seq <= state.clock + 1
                              /\ state.queue[r].seq \in Nat
  BY <1>1, <1>3 DEF Numbered, Queue, Entry
<1>5. HeadFirst(s, w)
  <2>1. Busy(w) => w.entry \in Requests
    <3>1. CASE w.pc = "closeBatch"
      BY <3>1 DEF CallsInv, Lifecycle, Shaped, Up
    <3>2. CASE w.pc # "closeBatch"
      BY <3>2, AtWorkShaped DEF Busy, TurnPCs, CompactPCs, Shaped
    <3> QED
      BY <3>1, <3>2
  <2>2. ASSUME Busy(w)
        PROVE  s.requests[w.entry] # "absent"
    BY <2>1, <2>2 DEF Served, HeadFirst, OneNew
  <2>3. ASSUME Busy(w), w.entry \in Queue(s)
        PROVE  /\ \A q \in Queue(s) : s.queue[w.entry].seq <= s.queue[q].seq
               /\ InTurn(w) => /\ Mode[w.entry] # "compact"
                               /\ s.queue[w.entry].target # s.currentTurn
    <3>1. w.entry \in Queue(state)
      BY <2>3 DEF Served, HeadFirst, OneNew
    <3>2. s.queue[w.entry] = state.queue[w.entry]
      BY <3>1 DEF OneNew
    <3>3. ASSUME NEW q \in Queue(s)
          PROVE  s.queue[w.entry].seq <= s.queue[q].seq
      <4>1. CASE q \in Queue(state)
        BY <2>3, <3>1, <3>2, <4>1 DEF Served, HeadFirst, OneNew
      <4>2. CASE q \notin Queue(state)
        <5>1. s.queue[q].seq = state.clock + 1
          BY <4>2 DEF OneNew
        <5> QED
          BY <1>4, <3>1, <3>2, <5>1
      <4> QED
        BY <4>1, <4>2
    <3> QED
      BY <2>3, <3>1, <3>2, <3>3 DEF Served, HeadFirst, OneNew
  <2> QED
    BY <2>2, <2>3 DEF HeadFirst
<1>6. ASSUME Boundary(w)
      PROVE  /\ \A y \in w.arrivals : y.seq <= s.clock
             /\ \A y \in Remaining(w) : y.kind = "input" => y \in ArrivalsOf(s)
             /\ \A x \in ArrivalsOf(s), y \in w.arrivals : x \in Remaining(w) \/ y.seq < x.seq
             /\ w.pc = "postUser" => /\ First(w.arrivals).id \notin Queue(s)
                                     /\ s.requests[First(w.arrivals).id] # "absent"
  <2>1. ListFirst(state, w) /\ s.clock = state.clock + 1
    BY DEF Served, OneNew
  <2>2. \A y \in w.arrivals : y.seq <= state.clock + 1 /\ y.seq < state.clock + 1
    BY <1>2, <1>3, <1>6, <2>1 DEF ListFirst
  <2>3. ASSUME NEW y \in ArrivalsOf(state), y.kind = "input"
        PROVE  y \in ArrivalsOf(s)
    BY <2>3 DEF ArrivalsOf, OneNew
  <2>4. ASSUME NEW x \in ArrivalsOf(s)
        PROVE  x \in ArrivalsOf(state) \/ x.seq = state.clock + 1
    <3>1. CASE x.kind = "input"
      <4>1. /\ x.id \in Queue(s) /\ x.seq = s.queue[x.id].seq
            /\ x = [kind |-> "input", id |-> x.id, seq |-> x.seq]
            /\ \/ Mode[x.id] = "compact"
               \/ Mode[x.id] = "steer" /\ s.queue[x.id].target = s.currentTurn
        BY <3>1, ArrivalIs
      <4>2. CASE x.id \in Queue(state)
        BY <4>1, <4>2 DEF ArrivalsOf, OneNew
      <4>3. CASE x.id \notin Queue(state)
        BY <4>1, <4>3 DEF OneNew
      <4> QED
        BY <4>2, <4>3
    <3>2. CASE x.kind # "input"
      <4>1. /\ x.id \in Waiting(s) /\ x.seq = s.notifications[x.id]
            /\ x = [kind |-> "notification", id |-> x.id, seq |-> x.seq]
        BY <3>2, ArrivalIs
      <4> QED
        BY <4>1 DEF ArrivalsOf, OneNew
    <3> QED
      BY <3>1, <3>2
  <2>5. \A x \in ArrivalsOf(s), y \in w.arrivals : x \in Remaining(w) \/ y.seq < x.seq
    BY <1>6, <2>1, <2>2, <2>4 DEF ListFirst
  <2>6. ASSUME w.pc = "postUser"
        PROVE  /\ First(w.arrivals).id \notin Queue(s)
               /\ s.requests[First(w.arrivals).id] # "absent"
    <3>1. /\ First(w.arrivals).id \notin Queue(state)
          /\ state.requests[First(w.arrivals).id] # "absent"
      BY <1>6, <2>1, <2>6 DEF ListFirst
    <3>2. First(w.arrivals).id \in Requests
      <4>1. Current \in Requests
        BY <2>6, CurrentIsRequest DEF Up
      <4>2. w.site \in {"head", "tail"}
        BY <1>6, <2>6 DEF Boundary
      <4> QED
        BY <4>1, <4>2 DEF Current
    <3> QED
      BY <3>1, <3>2 DEF OneNew
  <2>7. \A y \in Remaining(w) : y.kind = "input" => y \in ArrivalsOf(s)
    BY <1>6, <2>1, <2>3 DEF ListFirst
  <2> QED
    BY <2>1, <2>2, <2>5, <2>6, <2>7
<1>7. ListFirst(s, w)
  BY <1>6 DEF ListFirst
<1>8. s.currentTurn # 0 => InTurn(w)
  BY DEF Served, OneNew
<1> QED
  BY <1>5, <1>7, <1>8 DEF Served

LEMMA EnqueuedIsNew ==
  ASSUME state \in States, Numbered(state), NEW r \in Requests, NEW target \in Nat,
         state.requests[r] = "absent", target <= state.turns
  PROVE  OneNew(InputEnqueued(state, r, target))
<1> DEFINE t == InputEnqueued(state, r, target)
<1>1. /\ t.clock = state.clock + 1 /\ t.turns = state.turns
      /\ t.currentTurn = state.currentTurn /\ t.notifications = state.notifications
      /\ t.queue = [state.queue EXCEPT ![r] = [seq |-> state.clock + 1, target |-> target]]
      /\ t.requests = [state.requests EXCEPT ![r] = "queued"]
  BY DEF States, InputEnqueued
<1>2. /\ state.queue \in [Requests -> Entry] /\ state.requests \in [Requests -> Statuses]
      /\ state.clock + 1 # 0
  BY StateHas
<1> HIDE DEF t
<1>3. r \notin Queue(state)
  BY DEF Numbered
<1>4. Queue(t) = Queue(state) \cup {r} /\ \A q \in Queue(state) : t.queue[q] = state.queue[q]
  BY <1>1, <1>2, <1>3 DEF Queue
<1>5. /\ t.queue[r].seq = state.clock + 1 /\ t.queue[r].target = target
      /\ t.requests[r] # "absent"
      /\ \A q \in Requests : state.requests[q] # "absent" => t.requests[q] # "absent"
  BY <1>1, <1>2
<1>6. OneNew(t)
  BY <1>1, <1>3, <1>4, <1>5 DEF OneNew, Waiting
<1> QED
  BY <1>6 DEF t

LEMMA JobIsNew ==
  ASSUME state \in States, NEW j, NEW status
  PROVE  OneNew(JobCompleted(state, j, status))
<1> DEFINE t == JobCompleted(state, j, status)
<1>1. /\ t.clock = state.clock + 1 /\ t.turns = state.turns
      /\ t.currentTurn = state.currentTurn
      /\ t.notifications = [state.notifications EXCEPT ![j] = state.clock + 1]
      /\ t.queue = state.queue /\ t.requests = state.requests
  BY DEF States, JobCompleted
<1>2. state.notifications \in Seq(Nat)
  BY StateHas
<1> HIDE DEF t
<1>3. \A i \in Waiting(t) : \/ i \in Waiting(state) /\ t.notifications[i] = state.notifications[i]
                            \/ t.notifications[i] = state.clock + 1
  BY <1>1, <1>2 DEF Waiting
<1>4. Queue(t) = Queue(state)
  BY <1>1 DEF Queue
<1>5. OneNew(t)
  BY <1>1, <1>3, <1>4 DEF OneNew
<1> QED
  BY <1>5 DEF t

LEMMA RecoveryQueue ==
  ASSUME CallsInv, QueueInv, RecoverTurn \/ RecoverJob \/ Resume
  PROVE  QueueInv'
<1>1. /\ life = "recovering" /\ ~Up /\ Numbered(state) /\ state \in States
      /\ state.turns \in Nat
  BY TypedParts, StateHas DEF RecoverTurn, RecoverJob, Resume, Recovered, Up, QueueInv
<1>2. CASE RecoverTurn
  <2>1. RecordOnly(TurnEnded(state, "interrupted"), w, tickets)
    BY <1>2 DEF RecoverTurn, Record, RecordAndTell
  <2>2. NothingNew(TurnEnded(state, "interrupted"))
    BY <1>1, EndIsKept DEF Outcomes
  <2>3. Numbered(TurnEnded(state, "interrupted"))
    BY <1>1, <2>2, NumberedKept
  <2> QED
    BY <1>1, <2>1, <2>3, QueueRecord
<1>3. CASE RecoverJob
  <2>1. PICK job : RecordOnly(JobCompleted(state, job, "unknown"), w, tickets)
    BY <1>3 DEF RecoverJob, Record, RecordAndTell
  <2>2. Numbered(JobCompleted(state, job, "unknown"))
    BY <1>1, JobIsNew, NumberedMore
  <2> QED
    BY <1>1, <2>1, <2>2, QueueRecord
<1>4. CASE Resume
  <2>1. state.currentTurn = 0
    BY <1>4 DEF Resume
  <2>2. CASE RecordFails(state)
    <3>1. state' = state /\ life' = "down"
      BY <1>1, <2>2 DEF RecordFails
    <3> QED
      BY <1>1, <3>1 DEF QueueInv, Up
  <2>3. CASE w' = EnsureWorker(NoWorker, state) /\ state' = state
    <3>1. w'.pc \in {"none", "ready"}
      BY <2>3, Ensured DEF NoWorker
    <3>2. Served(state', w')
      BY <2>1, <2>3, <3>1, IdleServed
    <3> QED
      BY <1>1, <2>3, <3>2 DEF QueueInv
  <2> QED
    BY <1>4, <2>2, <2>3 DEF Resume
<1> QED
  BY <1>2, <1>3, <1>4

LEMMA IngressQueue ==
  ASSUME CallsInv, QueueInv, NEW r \in Requests, Submit(r) \/ Resubmit(r)
  PROVE  QueueInv'
<1>1. /\ Up /\ Numbered(state) /\ Served(state, w) /\ state \in States
      /\ state.currentTurn \in Nat /\ state.turns \in Nat
  BY TypedParts, StateHas DEF Submit, Resubmit, Admitted, Up, QueueInv
<1>2. ASSUME NEW s, Served(s, w), s.currentTurn = state.currentTurn
      PROVE  Served(s, EnsureWorker(w, s))
  <2> DEFINE e == EnsureWorker(w, s)
  <2>1. e = w \/ (w.pc = "none" /\ e.pc = "ready")
    BY Ensured
  <2> HIDE DEF e
  <2>2. CASE w.pc = "none" /\ e.pc = "ready"
    <3>1. s.currentTurn = 0
      BY <1>2, <2>2 DEF Served, InTurn, TurnPCs, CompactPCs
    <3>2. Served(s, e)
      BY <2>2, <3>1, IdleServed
    <3> QED
      BY <3>2 DEF e
  <2>3. CASE e = w
    BY <1>2, <2>3 DEF e
  <2> QED
    BY <2>1, <2>2, <2>3
<1>3. CASE Submit(r)
  <2> DEFINE target == IF Mode[r] = "steer" THEN state.currentTurn ELSE 0
             t == InputEnqueued(state, r, target)
  <2>1. target \in Nat /\ target <= state.turns
    BY <1>1 DEF Numbered
  <2>2. /\ state.requests[r] = "absent"
        /\ \/ state' = t /\ w' = EnsureWorker(w, t)
           \/ poisoned' = TRUE /\ state' \in {state, t}
    BY <1>3 DEF Submit
  <2> HIDE DEF target
  <2>3. OneNew(t)
    BY <1>1, <2>1, <2>2, EnqueuedIsNew
  <2> HIDE DEF t
  <2>4. Numbered(t) /\ Served(t, w) /\ t.currentTurn = state.currentTurn
    BY <1>1, <2>3, NumberedMore, ServedMore DEF OneNew
  <2>5. Served(t, EnsureWorker(w, t))
    BY <1>2, <2>4
  <2>6. CASE state' = t /\ w' = EnsureWorker(w, t)
    BY <2>4, <2>5, <2>6 DEF QueueInv
  <2>7. CASE poisoned' = TRUE /\ state' \in {state, t}
    BY <1>1, <2>4, <2>7 DEF QueueInv, Up
  <2> QED
    BY <2>2, <2>6, <2>7
<1>4. CASE Resubmit(r)
  <2>1. state' = state /\ w' = EnsureWorker(w, state)
    BY <1>4 DEF Resubmit
  <2>2. Served(state, EnsureWorker(w, state))
    BY <1>1, <1>2
  <2> QED
    BY <1>1, <2>1, <2>2 DEF QueueInv
<1> QED
  BY <1>3, <1>4

LEMMA JobQueue ==
  ASSUME CallsInv, QueueInv, NEW j, JobEnds(j)
  PROVE  QueueInv'
<1>1. /\ life' = life /\ w' = w
      /\ poisoned' = poisoned \/ poisoned' = TRUE
      /\ state' = state \/ \E status : state' = JobCompleted(state, j, status)
  BY DEF JobEnds
<1>2. Numbered(state) /\ state \in States /\ (Up' => Up /\ Served(state, w))
  BY <1>1, TypedParts DEF QueueInv, Up
<1>3. CASE state' = state
  BY <1>1, <1>2, <1>3 DEF QueueInv
<1>4. ASSUME NEW status, state' = JobCompleted(state, j, status)
      PROVE  QueueInv'
  <2>1. OneNew(state')
    BY <1>2, <1>4, JobIsNew
  <2>2. Numbered(state') /\ (Up' => Served(state', w))
    BY <1>2, <2>1, NumberedMore, ServedMore
  <2> QED
    BY <1>1, <2>2 DEF QueueInv
<1> QED
  BY <1>1, <1>3, <1>4

LEMMA QueueIsKept ==
  ASSUME CallsInv, TicketsInv, QueueInv, [Next]_vars
  PROVE  QueueInv'
<1>1. Up /\ AtTop(w) => w.timer = "off"
  BY DEF TicketsInv, Covered
<1>2. \A j \in tasks : JobEnds(j) => QueueInv'
  BY JobQueue
<1> QED
  BY <1>1, <1>2, AllQuiet, QuietQueue, SettlesQueue, LosesQueue, DrainQueue,
     BoundaryQueue, EndQueue, RecoveryQueue, IngressQueue

\* What OldestFirst says of an input that leaves the queue.
Oldest(r) ==
  /\ \A q \in Queue(state) :
       (Concerns(r) => Concerns(q)) => state.queue[r].seq <= state.queue[q].seq
  /\ Concerns(r) /\ state.currentTurn # 0 =>
       \A j \in Waiting(state) : state.queue[r].seq < state.notifications[j]

LEMMA EntryIsOldest ==
  ASSUME Served(state, w), Busy(w), w.entry \in Queue(state)
  PROVE  Oldest(w.entry)
<1>1. \A q \in Queue(state) : state.queue[w.entry].seq <= state.queue[q].seq
  BY DEF Served, HeadFirst
<1>2. state.currentTurn # 0 => ~Concerns(w.entry)
  BY DEF Served, HeadFirst, Concerns
<1> QED
  BY <1>1, <1>2 DEF Oldest

LEMMA CurrentIsOldest ==
  ASSUME CallsInv, Up, Numbered(state), Served(state, w), AtFirst, Current \in Queue(state)
  PROVE  Oldest(Current)
<1> DEFINE first == First(w.arrivals)
<1>1. /\ first.kind = "input" /\ first.id = Current /\ first \in w.arrivals
      /\ Remaining(w) = w.arrivals /\ first \in ArrivalsOf(state) /\ Boundary(w)
      /\ \A y \in w.arrivals : first.seq <= y.seq
      /\ w.arrivals \subseteq Item
  BY FirstOfList
<1> HIDE DEF first
<1>2. first.seq = state.queue[Current].seq /\ first.seq \in Nat
  BY <1>1, ArrivalIs DEF Item
<1>3. \A x \in ArrivalsOf(state) : x \in w.arrivals \/ first.seq < x.seq
  BY <1>1 DEF Served, ListFirst
<1>4. /\ state.queue \in [Requests -> Entry] /\ state.notifications \in Seq(Nat)
  BY TypedParts, StateHas
<1>5. \A n \in Nat, m \in Nat : (n < m => n <= m) /\ (n <= m /\ n # m => n < m)
  OBVIOUS
<1>6. ASSUME NEW q \in Queue(state), Concerns(q)
      PROVE  state.queue[Current].seq <= state.queue[q].seq
  <2> DEFINE x == [kind |-> "input", id |-> q, seq |-> state.queue[q].seq]
  <2>1. x \in ArrivalsOf(state) /\ x.seq = state.queue[q].seq
    BY <1>6 DEF ArrivalsOf, Concerns
  <2>2. x.seq \in Nat
    BY <1>4, <2>1 DEF Queue, Entry
  <2> HIDE DEF x
  <2>3. first.seq <= x.seq
    BY <1>1, <1>2, <1>3, <1>5, <2>1, <2>2
  <2> QED
    BY <1>2, <2>1, <2>3
<1>7. ASSUME NEW j \in Waiting(state)
      PROVE  state.queue[Current].seq < state.notifications[j]
  <2> DEFINE x == [kind |-> "notification", id |-> j, seq |-> state.notifications[j]]
  <2>1. x \in ArrivalsOf(state) /\ x.seq = state.notifications[j]
    BY DEF ArrivalsOf
  <2>2. x.seq \in Nat
    BY <1>4, <2>1 DEF Waiting
  <2> HIDE DEF x
  <2>3. first.seq # x.seq
    BY <1>2, <2>1 DEF Numbered
  <2>4. first.seq < x.seq
    BY <1>1, <1>2, <1>3, <1>5, <2>1, <2>2, <2>3
  <2> QED
    BY <1>2, <2>1, <2>4
<1>8. Concerns(Current)
  BY <1>1, ArrivalIs DEF Concerns
<1> QED
  BY <1>6, <1>7, <1>8 DEF Oldest

LEMMA SettlesOldest ==
  ASSUME CallsInv, QueueInv, Settles \/ AcceptUser \/ RejectEntry,
         NEW r \in Queue(state) \ Queue(state')
  PROVE  Oldest(r)
<1>1. state \in States /\ w \in Workers /\ w.status \in Outcomes /\ Numbered(state)
  BY TypedParts DEF Workers, QueueInv
<1>2. CASE Settles
  <2>1. Up /\ Served(state, w) /\ (AtFirst \/ (w.pc \in CompactPCs /\ w.site = "top"))
    BY <1>2 DEF Settles, QueueInv, Up, AtFirst
  <2>2. Current \in Requests
    BY <2>1, CurrentIsRequest DEF Up, AtFirst
  <2>3. PICK o \in Outcomes : state' = state \/ state' = InputFinished(state, Current, o)
    BY <1>2 DEF Settles, RecordAndTell, RecordOnly, RecordFails
  <2>4. r = Current
    BY <1>1, <2>2, <2>3, KeptEvents
  <2>5. CASE AtFirst
    BY <1>1, <2>1, <2>4, <2>5, CurrentIsOldest
  <2>6. CASE w.pc \in CompactPCs /\ w.site = "top"
    BY <2>1, <2>4, <2>6, EntryIsOldest DEF Current, Busy
  <2> QED
    BY <2>1, <2>5, <2>6
<1>3. CASE AcceptUser
  <2>1. w.pc = "preUser" /\ ~poisoned
    BY <1>3 DEF AcceptUser, At
  <2>2. Up /\ Served(state, w) /\ w.site \in {"turn", "head", "tail"}
    BY <2>1, AtWorkShaped DEF QueueInv, Up, Shaped
  <2>3. Current \in Requests
    BY <2>1, CurrentIsRequest
  <2>4. state' = state \/ state' = UserAccepted(state, Current)
    BY <1>3 DEF AcceptUser, Record, RecordAndTell, RecordOnly, RecordFails
  <2>5. r = Current
    BY <1>1, <2>3, <2>4, KeptEvents
  <2>6. CASE w.site = "turn"
    BY <2>1, <2>2, <2>5, <2>6, EntryIsOldest DEF Current, Busy, TurnPCs
  <2>7. CASE w.site \in {"head", "tail"}
    BY <1>1, <2>1, <2>2, <2>5, <2>7, CurrentIsOldest DEF AtFirst
  <2> QED
    BY <2>2, <2>6, <2>7
<1>4. CASE RejectEntry
  <2>1. w.pc = "closeBatch" /\ ~poisoned /\ w.entry \in Queue(state) /\ w.entry \in Requests
    BY <1>4 DEF RejectEntry, At, Queue
  <2>2. Up /\ Served(state, w)
    <3>1. w # Recoverer /\ w # NoWorker
      BY <2>1, NoRequestAssumption DEF Recoverer, NoWorker
    <3> QED
      BY <2>1, <3>1 DEF CallsInv, Lifecycle, TypeOK, QueueInv, Up
  <2>3. state' = state \/ state' = InputFinished(state, w.entry, w.status)
    BY <1>4 DEF RejectEntry, Record, RecordAndTell, RecordOnly, RecordFails
  <2>4. r = w.entry
    BY <1>1, <2>1, <2>3, KeptEvents
  <2> QED
    BY <2>1, <2>2, <2>4, EntryIsOldest DEF Busy, TurnPCs
<1> QED
  BY <1>2, <1>3, <1>4

\* No other step takes anything off the queue.
LEMMA OthersTakeNone ==
  ASSUME CallsInv, TicketsInv, [Next]_vars, ~Settles, ~AcceptUser, ~RejectEntry
  PROVE  Queue(state) \subseteq Queue(state')
<1>1. state \in States /\ Typed(state) /\ w.status \in Outcomes
      /\ state.queue \in [Requests -> Entry] /\ state.clock + 1 # 0
  BY TypedParts, StateHas DEF Workers
<1>2. state'.queue = state.queue => Queue(state) \subseteq Queue(state')
  BY DEF Queue
<1>3. CASE Quiet
  BY <1>2, <1>3 DEF Quiet, SameArrivals, SameRequests
<1>4. CASE LosesWorker \/ Drained \/ DrainCompact \/ EnterBoundary \/ PostTurn \/ Resume
  <2>1. state' = state
    BY <1>4 DEF LosesWorker, PostTurnFails, SummaryInterrupted, Die, Throw, Step, Drained,
           DrainCompact, EnterBoundary, PostTurn, Resume, RecordFails
  <2> QED
    BY <2>1
<1>5. \A next, v, told : RecordOnly(next, v, told) => state' = state \/ state' = next
  BY DEF RecordOnly, RecordFails
<1>6. CASE StartTurn
  <2>1. state' = state \/ state' = TurnStarted(state)
    BY <1>5, <1>6 DEF StartTurn
  <2>2. TurnStarted(state).queue = state.queue
    BY <1>1 DEF States, TurnStarted
  <2> QED
    BY <1>2, <2>1, <2>2
<1>7. CASE EndTurn \/ RecoverTurn
  <2>1. state' = state \/ \E o : state' = TurnEnded(state, o)
    BY <1>5, <1>7 DEF EndTurn, RecoverTurn, Record, RecordAndTell
  <2>2. \A o : TurnEnded(state, o).queue = state.queue
    BY <1>1 DEF States, TurnEnded
  <2> QED
    BY <1>2, <2>1, <2>2
<1>8. CASE TakeNotification
  <2>1. state' = state \/ \E j : state' = NotificationAccepted(state, j)
    BY <1>5, <1>8 DEF TakeNotification, Record, RecordAndTell
  <2> QED
    BY <1>1, <1>2, <2>1, JobEvents DEF SameRequests
<1>9. CASE RecoverJob
  <2>1. state' = state \/ \E j, status : state' = JobCompleted(state, j, status)
    BY <1>5, <1>9 DEF RecoverJob, Record, RecordAndTell
  <2> QED
    BY <1>1, <1>2, <2>1, JobEvents DEF SameRequests
<1>10. ASSUME NEW j \in tasks, JobEnds(j)
       PROVE  Queue(state) \subseteq Queue(state')
  <2>1. state' = state \/ \E status : state' = JobCompleted(state, j, status)
    BY <1>10 DEF JobEnds
  <2> QED
    BY <1>1, <1>2, <2>1, JobEvents DEF SameRequests
<1>11. ASSUME NEW r \in Requests, Submit(r) \/ Resubmit(r)
       PROVE  Queue(state) \subseteq Queue(state')
  <2>1. state' = state \/ \E target : state' = InputEnqueued(state, r, target)
    BY <1>11 DEF Submit, Resubmit
  <2>2. ASSUME NEW target, state' = InputEnqueued(state, r, target)
        PROVE  Queue(state) \subseteq Queue(state')
    <3>1. state'.queue = [state.queue EXCEPT ![r] = [seq |-> state.clock + 1, target |-> target]]
      BY <1>1, <2>2 DEF States, InputEnqueued
    <3> QED
      BY <1>1, <3>1 DEF Queue
  <2> QED
    BY <2>1, <2>2
<1>12. Up /\ AtTop(w) => w.timer = "off"
  BY DEF TicketsInv, Covered
<1> QED
  BY <1>3, <1>4, <1>6, <1>7, <1>8, <1>9, <1>10, <1>11, <1>12, AllQuiet

\* The queue is served oldest first, within what concerns a boundary and outside:
\* what a boundary takes was there before every input and every notification that
\* concerns it, however often its awaits let more arrive (_drain, _safe_boundary).
THEOREM OldestIsServedFirst == Spec => OldestFirst
<1> DEFINE I == CallsInv /\ TicketsInv /\ QueueInv
<1>1. Init => I
  <2>1. Init => TicketsInv /\ QueueInv
    BY DEF Init, InitialState, NotThere, TicketsInv, Filed, NonePending, Up, QueueInv,
           Numbered, Queue, Waiting
  <2> QED
    BY <2>1, CallsInit
<1>2. I /\ [Next]_vars => I'
  BY NextCalls, TicketsKept, QueueIsKept DEF Sound
<1>3. I /\ [Next]_vars =>
        [\A r \in Queue(state) \ Queue(state') :
           /\ \A q \in Queue(state) :
                (Concerns(r) => Concerns(q)) => state.queue[r].seq <= state.queue[q].seq
           /\ Concerns(r) /\ state.currentTurn # 0 =>
                \A j \in Waiting(state) : state.queue[r].seq < state.notifications[j]]_vars
  <2> SUFFICES ASSUME I, [Next]_vars, NEW r \in Queue(state) \ Queue(state')
               PROVE  Oldest(r)
    BY DEF Oldest
  <2> QED
    BY SettlesOldest, OthersTakeNone
<1> QED
  BY <1>1, <1>2, <1>3, PTL DEF Spec, OldestFirst

===============================================================================
