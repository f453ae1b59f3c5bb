-------------------------- MODULE HTTPProviderProofs --------------------------
(***************************************************************************)
(* A provider call, for any number of retries, events, blocks and calls:    *)
(* what it hands back is one attempt's answer, whole, with its usage.       *)
(***************************************************************************)
EXTENDS HTTPProvider, FiniteSetTheorems, SequenceTheorems, TLAPS

\* Any event of any protocol.
Messages ==
  [kind : {"done", "failed", "junk", "progress", "text", "usage", "call", "finish",
           "start", "stop", "block", "delta", "close", "response"},
   index : Indices \cup {0}, id : CallIds \cup {"text", "none"}, finish : Finishes \cup {"none"}]

\* The events that end a stream, that set the stop reason, that make a block.
EndKinds == {"done", "stop", "response"}
StopKinds == {"finish", "response", "start"}
BlockKinds == {"block", "delta", "close"}

Lists == failures \in Seq(Snapshots) /\ history \in Seq(Messages)

\* Where the call is, how far it has come.
Bounded ==
  /\ pc = "backoff" => attempt < MaxRetries
  /\ pc = "ended" => Len(failures) \in {attempt, attempt + 1}
  /\ pc = "stream" => Len(history) <= MaxEvents
  /\ pc = "body" => ~stream

\* What the parser holds has these fields and no others.
Record(r) ==
  r = [blocks |-> r.blocks, open |-> r.open, finish |-> r.finish,
       usage |-> r.usage, terminal |-> r.terminal]

Shaped ==
  /\ Record(response)
  /\ response.open \subseteq Indices
  /\ response.finish \in Finishes \cup {"none"}
  /\ response.usage \in 0..(MaxEvents + 1)
  /\ response.terminal \in BOOLEAN

\* The variables' types, in the strength the steps need.
Typed == TypeOK /\ Lists /\ Bounded /\ Shaped

\* Until an answer has begun there is nothing of it.
Quiet == pc \notin {"stream", "ended"} => shown = {} /\ history = <<>> /\ response = Nothing

\* The deltas that reached the UI are this attempt's.
OneSpeaks == shown \subseteq {attempt}

\* What is known of the attempts' usage, place by place.
Billed ==
  /\ \A n \in DOMAIN failures : failures[n].usage = billed[n - 1]
  /\ \A later \in 0..MaxRetries : later > attempt => billed[later] = 0
  /\ pc \in {"send", "errorbody", "body"} => billed[attempt] = 0
  /\ pc = "report" => failure.usage = billed[attempt]
  /\ pc = "stream" => response.usage = billed[attempt]

\* What the call hands back is its own usage and that of the retried attempts.
HandedBack ==
  pc = "ended" =>
    \E own \in 0..(MaxEvents + 1) :
      /\ result.counted = Counted(own, failures)
      /\ result.kind = "answer" => own = billed[attempt]
      /\ own # 0 => Len(failures) = attempt /\ billed[attempt] # 0
      /\ result.whole => own # 0 /\ \A n \in DOMAIN failures : failures[n].usage # 0

-------------------------------------------------------------------------------
(* The parser while it reads a stream.                                     *)

\* Every event so far is one that this protocol may send.
Conforms ==
  \A n \in DOMAIN history :
    /\ history[n].kind \notin {"junk", "failed"}
    /\ protocol = "openai_chat" =>
         history[n].kind \notin {"start", "stop", "response"} \cup BlockKinds
    /\ protocol = "anthropic_messages" =>
         history[n].kind \notin {"done", "response", "text", "call"}
    /\ protocol = "openai_responses" => history[n].kind \in {"response", "progress"}

\* The parser knows whether the stream has been ended, and what may follow.
Terminated ==
  IF response.terminal
  THEN \E n \in DOMAIN history :
         /\ Places(EndKinds) = n..Len(history)
         /\ protocol # "openai_chat" => n = Len(history)
  ELSE Places(EndKinds) = {}

\* A message is stopped only when its blocks are closed.
NothingOpen == protocol = "anthropic_messages" /\ response.terminal => response.open = {}

\* A block that was opened was opened once, before its pieces, and if it is not
\* open any more it was closed once, after them.
Fed ==
  /\ response.open \subseteq DOMAIN response.blocks
  /\ protocol = "anthropic_messages" =>
       \A i \in Indices :
         IF i \notin DOMAIN response.blocks THEN At(BlockKinds, i) = {}
         ELSE \E m \in DOMAIN history :
                /\ At({"block"}, i) = {m}
                /\ \A k \in At({"delta", "close"}, i) : m < k
                /\ i \in response.open => At({"close"}, i) = {}
                /\ i \notin response.open =>
                     \E n \in DOMAIN history :
                       /\ At({"close"}, i) = {n}
                       /\ m < n
                       /\ \A k \in At({"delta"}, i) : k < n

\* The stop reason is the last that was sent since the message began.
Finishing ==
  response.finish # "none" =>
    \E n \in Places(StopKinds) :
      history[n].finish = response.finish /\ \A k \in Places(StopKinds) : k <= n

Chunks == [at : Nat, id : CallIds \cup {"text", "none"}, body : BOOLEAN]

\* The events a block was put together from, and that they are in order.
Ats(block) == {block[n].at : n \in DOMAIN block}

InOrder(block) == \A m, n \in DOMAIN block : m < n => block[m].at < block[n].at

\* Each block is what was sent for it, and all that was sent is in one.
Assembled(blocks) ==
  /\ IsFiniteSet(DOMAIN blocks)
  /\ \A i \in DOMAIN blocks :
       blocks[i] \in Seq(Chunks) /\ Ats(blocks[i]) = At(Pieces, i) /\ InOrder(blocks[i])
  /\ \A n \in Places(Pieces) :
       \/ history[n].index \in DOMAIN blocks
       \/ history[n].kind = "response" /\ history[n].id = "none"

\* What holds of the parser while it reads.
Parsing ==
  pc = "stream" =>
    /\ Conforms /\ Terminated /\ NothingOpen /\ Fed /\ Finishing
    /\ Assembled(response.blocks)
    /\ stream

-------------------------------------------------------------------------------
(* Events.                                                                 *)

LEMMA Limits == MaxRetries \in Nat /\ MaxEvents \in Nat
  BY ProviderAssumption, Zenon

LEMMA Known == Protocols \subseteq {"openai_chat", "openai_responses", "anthropic_messages"}
  BY ProviderAssumption, Zenon

LEMMA BodiesAreMessages == \A e \in Bodies : e \in Messages /\ e.kind = "response"
  BY DEF Bodies, Sent, Messages, Finishes

\* What an event may be, by protocol.
OfProtocol(e) ==
  /\ protocol = "openai_chat" => e.kind \notin {"start", "stop", "response"} \cup BlockKinds
  /\ protocol = "anthropic_messages" => e.kind \notin {"response", "text", "call", "usage"}
  /\ protocol = "openai_responses" =>
       e.kind \in {"done", "failed", "junk", "progress", "response"}

LEMMA EventsAreMessages ==
  ASSUME Typed, NEW e \in Events
  PROVE  /\ e \in Messages /\ OfProtocol(e)
         /\ e.kind \in BlockKinds => e.index \in Indices
  <1>1. CASE e \in Anytime
    BY <1>1 DEF Anytime, Sent, Messages, OfProtocol, BlockKinds
  <1>2. CASE protocol = "openai_responses" /\ e \in Bodies
    BY <1>2, BodiesAreMessages DEF OfProtocol, BlockKinds
  <1>3. CASE protocol = "openai_chat" /\ e \in ChatEvents
    BY <1>3 DEF ChatEvents, Sent, Messages, OfProtocol, BlockKinds, Finishes
  <1>4. CASE protocol = "anthropic_messages" /\ e \in MessageEvents
    BY <1>4 DEF MessageEvents, Sent, Messages, OfProtocol, BlockKinds, Finishes
  <1> QED
    BY <1>1, <1>2, <1>3, <1>4, Known DEF Typed, TypeOK, Events

\* What handle() changes, field by field.
LEMMA HandledIs ==
  ASSUME Typed, NEW e \in Events, NEW at
  PROVE  Handled(e, at) =
           [blocks |-> IF e.kind \in {"text", "call", "delta", "block"}
                       THEN With(response.blocks, e.index, Chunk(at, e))
                       ELSE IF e.kind = "response" THEN Body(e).blocks
                       ELSE response.blocks,
            open |-> IF e.kind = "block" THEN response.open \cup {e.index}
                     ELSE IF e.kind = "close" THEN response.open \ {e.index}
                     ELSE IF e.kind = "response" THEN {}
                     ELSE response.open,
            finish |-> IF e.kind \in StopKinds
                       THEN IF e.kind = "start" THEN "none" ELSE e.finish
                       ELSE response.finish,
            usage |-> IF e.kind = "response" THEN Len(history) + 1
                      ELSE IF e.kind # "failed" /\ Bills(e) THEN at
                      ELSE response.usage,
            terminal |-> e.kind \in EndKinds \/ response.terminal]
  <1> USE DEF StopKinds, EndKinds
  <1>1. CASE e.kind = "response"
    BY <1>1 DEF Handled, Body, Bills
  <1>2. CASE e.kind = "block"
    BY <1>2 DEF Handled, Typed, Shaped, Record, Bills
  <1>3. CASE e.kind = "close"
    BY <1>3 DEF Handled, Typed, Shaped, Record, Bills
  <1>4. CASE e.kind \in {"text", "call", "delta"}
    BY <1>4 DEF Handled, Typed, Shaped, Record, Bills
  <1>5. CASE e.kind \in {"done", "stop"}
    BY <1>5 DEF Handled, Typed, Shaped, Record, Bills
  <1>6. CASE e.kind = "start"
    BY <1>6 DEF Handled, Typed, Shaped, Record, Bills
  <1>7. CASE e.kind = "usage"
    BY <1>7 DEF Handled, Typed, Shaped, Record, Bills
  <1>8. CASE e.kind = "finish"
    BY <1>8 DEF Handled, Typed, Shaped, Record, Bills
  <1>9. CASE e.kind \in {"failed", "junk", "progress"}
    BY <1>9 DEF Handled, Typed, Shaped, Record, Bills
  <1> QED
    BY <1>1, <1>2, <1>3, <1>4, <1>5, <1>6, <1>7, <1>8, <1>9, EventsAreMessages DEF Messages

LEMMA HandledFields ==
  ASSUME Typed, NEW e \in Events, NEW at, NEW h, h = Handled(e, at)
  PROVE  /\ Record(h)
         /\ h.blocks = IF e.kind \in {"text", "call", "delta", "block"}
                       THEN With(response.blocks, e.index, Chunk(at, e))
                       ELSE IF e.kind = "response" THEN Body(e).blocks
                       ELSE response.blocks
         /\ h.open = IF e.kind = "block" THEN response.open \cup {e.index}
                     ELSE IF e.kind = "close" THEN response.open \ {e.index}
                     ELSE IF e.kind = "response" THEN {}
                     ELSE response.open
         /\ h.finish = IF e.kind \in StopKinds
                       THEN IF e.kind = "start" THEN "none" ELSE e.finish
                       ELSE response.finish
         /\ h.usage = IF e.kind = "response" THEN Len(history) + 1
                      ELSE IF e.kind # "failed" /\ Bills(e) THEN at
                      ELSE response.usage
         /\ h.terminal = (e.kind \in EndKinds \/ response.terminal)
  <1> DEFINE bs == IF e.kind \in {"text", "call", "delta", "block"}
                   THEN With(response.blocks, e.index, Chunk(at, e))
                   ELSE IF e.kind = "response" THEN Body(e).blocks
                   ELSE response.blocks
  <1> DEFINE os == IF e.kind = "block" THEN response.open \cup {e.index}
                   ELSE IF e.kind = "close" THEN response.open \ {e.index}
                   ELSE IF e.kind = "response" THEN {}
                   ELSE response.open
  <1> DEFINE fs == IF e.kind \in StopKinds
                   THEN IF e.kind = "start" THEN "none" ELSE e.finish
                   ELSE response.finish
  <1> DEFINE us == IF e.kind = "response" THEN Len(history) + 1
                   ELSE IF e.kind # "failed" /\ Bills(e) THEN at
                   ELSE response.usage
  <1> DEFINE ts == e.kind \in EndKinds \/ response.terminal
  <1>1. h = [blocks |-> bs, open |-> os, finish |-> fs, usage |-> us, terminal |-> ts]
    BY HandledIs, Zenon
  <1> HIDE DEF bs, os, fs, us, ts
  <1>2. /\ Record(h) /\ h.blocks = bs /\ h.open = os /\ h.finish = fs
        /\ h.usage = us /\ h.terminal = ts
    BY <1>1 DEF Record
  <1> QED
    BY <1>2, Zenon DEF bs, os, fs, us, ts

LEMMA NothingIs ==
  /\ Record(Nothing)
  /\ Nothing.blocks = <<>> /\ Nothing.open = {} /\ Nothing.finish = "none"
  /\ Nothing.usage = 0 /\ Nothing.terminal = FALSE
  BY DEF Nothing, Record

LEMMA BodyIs ==
  ASSUME NEW e
  PROVE  /\ Record(Body(e)) /\ Body(e).open = {} /\ Body(e).finish = e.finish
         /\ Body(e).usage = Len(history) + 1 /\ Body(e).terminal = TRUE
  BY DEF Body, Record

-------------------------------------------------------------------------------
(* The attempts and their usage.                                           *)

Control == Typed /\ Quiet /\ OneSpeaks /\ Billed /\ HandedBack

LEMMA ControlInit == Init => Control
  <1> SUFFICES ASSUME Init PROVE Control
    OBVIOUS
  <1> USE Limits DEF Init, NoFailure, NoResult
  <1>1. TypeOK
    <2>1. failure \in [usage : 0..1, retry : BOOLEAN]
      BY DEF TypeOK
    <2> QED
      BY <2>1 DEF TypeOK
  <1>2. Lists /\ Bounded
    BY DEF Lists, Bounded
  <1>3. Shaped
    <2>1. response.usage = 0 /\ response.open = {} /\ response.finish = "none"
      BY NothingIs
    <2>2. response.terminal \in BOOLEAN
      BY NothingIs
    <2>3. Record(response)
      BY NothingIs
    <2> QED
      BY <2>1, <2>2, <2>3 DEF Shaped
  <1>4. Quiet /\ OneSpeaks /\ Billed /\ HandedBack
    BY DEF Quiet, OneSpeaks, Billed, HandedBack
  <1> QED
    BY <1>1, <1>2, <1>3, <1>4 DEF Control, Typed

\* Every way out hands back the usage the same way.
LEMMA Exits ==
  ASSUME Control, pc # "ended",
         NEW kind \in {"answer", "error", "cancelled"}, NEW blocks,
         NEW own \in 0..(MaxEvents + 1),
         Ended(kind, blocks, own, failures),
         UNCHANGED <<protocol, stream, attempt, failure, failures, response, shown>>,
         history' \in Seq(Messages),
         billed' \in [0..MaxRetries -> 0..(MaxEvents + 1)],
         \A n \in 0..MaxRetries : n # attempt => billed'[n] = billed[n],
         pc = "backoff" => billed' = billed,
         own # 0 => pc # "backoff" /\ billed'[attempt] # 0,
         kind = "answer" => own = billed'[attempt]
  PROVE  Control'
  <1> USE Limits DEF Control, Typed, Ended
  <1>1. TypeOK'
    BY DEF TypeOK
  <1>2. Lists' /\ Bounded' /\ Shaped'
    BY DEF Lists, Bounded, Shaped, TypeOK
  <1>3. Quiet' /\ OneSpeaks'
    BY DEF Quiet, OneSpeaks
  <1>4. Billed'
    BY SMTT(30) DEF Billed, TypeOK, Lists
  <1>5. HandedBack'
    BY DEF HandedBack, TypeOK, Counted, Lists
  <1> QED
    BY <1>1, <1>2, <1>3, <1>4, <1>5

\* One lemma for each way a call goes on.
LEMMA FailsControl ==
  ASSUME Control, TransportFails
  PROVE  Control'
  BY Limits, Exits DEF TransportFails, Raise, Control, Typed, TypeOK, Lists

LEMMA BreaksControl ==
  ASSUME Control, StreamBreaks
  PROVE  Control'
  BY Limits, Exits DEF StreamBreaks, Raise, Control, Typed, TypeOK, Lists, Shaped, Billed

LEMMA CancelControl ==
  ASSUME Control, Cancel
  PROVE  Control'
  BY Limits, Exits DEF Cancel, Control, Typed, TypeOK, Lists

LEMMA EndsControl ==
  ASSUME Control, StreamEnds
  PROVE  Control'
  BY Limits, Exits DEF StreamEnds, Answer, Raise, Control, Typed, TypeOK, Lists,
     Shaped, Billed

LEMMA BodyControl ==
  ASSUME Control, NEW e \in Bodies, BodyArrives(e)
  PROVE  Control'
  <1>1. history' \in Seq(Messages)
    BY BodiesAreMessages DEF BodyArrives
  <1>2. /\ pc = "body" /\ Body(e).usage = 1
        /\ billed' = [billed EXCEPT ![attempt] = 1]
    <2>1. pc = "body" /\ billed' = [billed EXCEPT ![attempt] = 1]
      BY DEF BodyArrives
    <2>2. Len(history) = 0
      BY <2>1 DEF Control, Quiet
    <2>3. Body(e).usage = Len(history) + 1
      BY BodyIs
    <2> QED
      BY <2>1, <2>2, <2>3
  <1>3. /\ billed' \in [0..MaxRetries -> 0..(MaxEvents + 1)]
        /\ \A n \in 0..MaxRetries : n # attempt => billed'[n] = billed[n]
        /\ billed'[attempt] = 1
    BY <1>2, Limits DEF Control, Typed, TypeOK
  <1>4. CASE Checked(Body(e))
    BY <1>1, <1>2, <1>3, <1>4, Exits, Limits DEF BodyArrives, Answer
  <1>5. CASE ~Checked(Body(e))
    BY <1>1, <1>2, <1>3, <1>5, Exits, Limits DEF BodyArrives, Answer, Raise
  <1> QED
    BY <1>4, <1>5

LEMMA StatusControl ==
  ASSUME Control, NEW retry \in BOOLEAN, ErrorStatus(retry)
  PROVE  Control'
  <1> USE Limits DEF ErrorStatus, Control, Typed
  <1>1. failure' \in [usage : 0..1, retry : BOOLEAN]
    <2>1. 0 \in 0..1
      OBVIOUS
    <2> QED
      BY <2>1, Zenon
  <1>2. TypeOK'
    BY <1>1 DEF TypeOK
  <1>3. Lists' /\ Bounded' /\ Shaped'
    BY DEF Lists, Bounded, Shaped
  <1>4. Quiet' /\ OneSpeaks' /\ Billed' /\ HandedBack'
    BY DEF Quiet, OneSpeaks, Billed, HandedBack, TypeOK
  <1> QED
    BY <1>2, <1>3, <1>4

LEMMA ErrorBodyControl ==
  ASSUME Control, NEW usage \in {0, 1}, ErrorBody(usage)
  PROVE  Control'
  <1> USE Limits DEF ErrorBody, Control, Typed
  <1>1. failure' \in [usage : 0..1, retry : BOOLEAN] /\ failure'.usage = usage
    BY DEF TypeOK
  <1>2. /\ billed' \in [0..MaxRetries -> 0..(MaxEvents + 1)]
        /\ \A n \in 0..MaxRetries : n # attempt => billed'[n] = billed[n]
        /\ billed'[attempt] = usage
    BY DEF TypeOK
  <1>3. TypeOK'
    BY <1>1, <1>2 DEF TypeOK
  <1>4. Lists' /\ Bounded' /\ Shaped'
    BY DEF Lists, Bounded, Shaped
  <1>5. Quiet' /\ OneSpeaks' /\ HandedBack'
    BY DEF Quiet, OneSpeaks, HandedBack, TypeOK
  <1>6. Billed'
    <2>1. \A n \in DOMAIN failures : n - 1 \in 0..MaxRetries /\ n - 1 # attempt
      BY DEF TypeOK, Lists
    <2> QED
      BY <1>1, <1>2, <2>1 DEF Billed, TypeOK, Lists
  <1> QED
    BY <1>3, <1>4, <1>5, <1>6

LEMMA ReportedControl ==
  ASSUME Control, Reported
  PROVE  Control'
  <1> USE Limits DEF Control, Typed
  <1>1. CASE failure.retry /\ attempt < MaxRetries
    <2> DEFINE last == [attempt |-> attempt, usage |-> failure.usage]
    <2>1. /\ pc = "report" /\ pc' = "backoff" /\ failures' = Append(failures, last)
          /\ UNCHANGED <<protocol, stream, attempt, failure, response, shown, result, history, billed>>
      BY <1>1, Zenon DEF Reported
    <2>2. last \in Snapshots /\ last.attempt = attempt /\ last.usage = billed[attempt]
      BY DEF Snapshots, TypeOK, Billed, Reported
    <2> HIDE DEF last
    <2>3. /\ failures' \in Seq(Snapshots) /\ Len(failures') = attempt + 1
          /\ \A n \in DOMAIN failures' :
               failures'[n] = IF n = attempt + 1 THEN last ELSE failures[n]
          /\ DOMAIN failures = 1..attempt /\ DOMAIN failures' = 1..(attempt + 1)
      BY <2>1, <2>2 DEF Lists, TypeOK
    <2>4. TypeOK'
      BY <1>1, <2>1, <2>2, <2>3 DEF TypeOK
    <2>5. Lists' /\ Bounded' /\ Shaped'
      BY <1>1, <2>1, <2>3 DEF Lists, Bounded, Shaped
    <2>6. Quiet' /\ OneSpeaks' /\ HandedBack'
      BY <2>1 DEF Quiet, OneSpeaks, HandedBack, TypeOK
    <2>7. Billed'
      <3>1. /\ \A n \in DOMAIN failures : failures[n].usage = billed[n - 1]
            /\ \A later \in 0..MaxRetries : later > attempt => billed[later] = 0
        BY DEF Billed
      <3>2. \A n \in DOMAIN failures' : failures'[n].usage = billed[n - 1]
        <4> TAKE n \in DOMAIN failures'
        <4>1. CASE n = attempt + 1
          BY <2>2, <2>3, <4>1 DEF TypeOK
        <4>2. CASE n # attempt + 1
          BY <2>3, <3>1, <4>2 DEF TypeOK
        <4> QED
          BY <4>1, <4>2
      <3> QED
        BY <2>1, <3>1, <3>2 DEF Billed
    <2> QED
      BY <2>4, <2>5, <2>6, <2>7
  <1>2. CASE ~(failure.retry /\ attempt < MaxRetries)
    BY <1>2, Exits DEF Reported, Raise, TypeOK, Lists, Billed
  <1> QED
    BY <1>1, <1>2

LEMMA SleepControl ==
  ASSUME Control, SleepEnds
  PROVE  Control'
  <1> USE Limits DEF Control, Typed, SleepEnds
  <1>1. NoFailure \in [usage : 0..1, retry : BOOLEAN]
    <2>1. 0 \in 0..1
      OBVIOUS
    <2> QED
      BY <2>1, Zenon DEF NoFailure
  <1>2. attempt' \in 0..MaxRetries /\ Len(failures) = attempt'
    BY DEF TypeOK, Bounded
  <1>3. TypeOK'
    BY <1>1, <1>2 DEF TypeOK, Quiet
  <1>4. Lists' /\ Bounded' /\ Shaped'
    BY DEF Lists, Bounded, Shaped
  <1>5. Quiet' /\ OneSpeaks' /\ Billed' /\ HandedBack'
    BY <1>2 DEF Quiet, OneSpeaks, Billed, HandedBack, TypeOK
  <1> QED
    BY <1>3, <1>4, <1>5

LEMMA AcceptedControl ==
  ASSUME Control, Accepted
  PROVE  Control'
  <1> USE Limits DEF Control, Typed, Accepted
  <1>1. TypeOK'
    BY DEF TypeOK
  <1>2. Lists' /\ Bounded' /\ Shaped'
    <2>1. history = <<>> /\ Len(history) = 0
      BY DEF Quiet
    <2> QED
      BY <2>1 DEF Lists, Bounded, Shaped
  <1>3. Quiet' /\ OneSpeaks' /\ Billed' /\ HandedBack'
    BY NothingIs DEF Quiet, OneSpeaks, Billed, HandedBack, TypeOK
  <1> QED
    BY <1>1, <1>2, <1>3

\* An event is refused, with the usage of the events before it or without.
Refuses(e) ==
  \E usage \in {0, response.usage} : Raise(usage)

\* An event is taken into the response.
Takes(e) ==
  /\ e.kind \notin {"junk", "failed"} /\ ~OutOfOrder(e)
  /\ response' = Handled(e, Len(history) + 1)
  /\ shown' = IF e.kind = "done" THEN shown ELSE shown \cup {attempt}
  /\ UNCHANGED <<protocol, stream, pc, attempt, failure, failures, result>>

LEMMA Received ==
  ASSUME Control, NEW e \in Events, Receive(e)
  PROVE  /\ pc = "stream" /\ Len(history) + 1 <= MaxEvents
         /\ history' = Append(history, e) /\ history' \in Seq(Messages)
         /\ Len(history') = Len(history) + 1
         /\ billed' \in [0..MaxRetries -> 0..(MaxEvents + 1)]
         /\ \A n \in 0..MaxRetries : n # attempt => billed'[n] = billed[n]
         /\ billed'[attempt] = IF Bills(e) THEN Len(history) + 1 ELSE billed[attempt]
         /\ Refuses(e) \/ Takes(e)
  <1> USE Limits DEF Control, Typed
  <1>1. pc = "stream" /\ Len(history) + 1 <= MaxEvents /\ history' = Append(history, e)
    BY DEF Receive
  <1>2. history' \in Seq(Messages) /\ Len(history') = Len(history) + 1
    BY <1>1, EventsAreMessages DEF Lists
  <1>3. /\ billed' \in [0..MaxRetries -> 0..(MaxEvents + 1)]
        /\ \A n \in 0..MaxRetries : n # attempt => billed'[n] = billed[n]
        /\ billed'[attempt] = IF Bills(e) THEN Len(history) + 1 ELSE billed[attempt]
    <2>1. Len(history) \in Nat
      BY DEF Lists
    <2> QED
      BY <1>1, <2>1 DEF Receive, TypeOK
  <1>4. Refuses(e) \/ Takes(e)
    BY DEF Receive, Refuses, Takes
  <1> QED
    BY <1>1, <1>2, <1>3, <1>4

LEMMA ReceiveControl ==
  ASSUME Control, NEW e \in Events, Receive(e)
  PROVE  Control'
  <1> USE Limits DEF Control, Typed
  <1>1. CASE Refuses(e)
    <2>1. PICK usage \in {0, response.usage} : Raise(usage)
      BY <1>1 DEF Refuses
    <2>2. usage \in 0..(MaxEvents + 1)
      BY DEF Shaped
    <2>3. usage # 0 => billed'[attempt] # 0
      <3>1. Len(history) \in Nat
        BY DEF Lists
      <3> QED
        BY <3>1, Received DEF Billed
    <2> QED
      BY <2>1, <2>2, <2>3, Received, Exits DEF Raise
  <1>2. CASE Takes(e)
    <2>1. Len(history) \in Nat
      BY DEF Lists
    <2>2. TypeOK'
      BY <1>2, Received DEF Takes, TypeOK
    <2>3. Lists' /\ Bounded'
      BY <1>2, Received DEF Takes, Lists, Bounded
    <2>4. e \in Messages /\ (e.kind \in BlockKinds => e.index \in Indices)
      BY EventsAreMessages
    <2> DEFINE h == response'
    <2> HIDE DEF h
    <2>5. h = Handled(e, Len(history) + 1) /\ h = response'
      BY <1>2 DEF Takes, h
    <2>6. Shaped'
      <3>1. Record(h) /\ h.terminal \in BOOLEAN
        BY <2>5, HandledFields DEF Shaped
      <3>2. h.open \subseteq Indices
        BY <2>5, <2>4, HandledFields, ZenonT(60) DEF Shaped, BlockKinds
      <3>3. h.finish \in Finishes \cup {"none"}
        <4>1. e.finish \in Finishes \cup {"none"}
          BY <2>4 DEF Messages
        <4>2. h.finish \in {"none", e.finish, response.finish}
          BY <2>5, HandledFields, Zenon
        <4> QED
          BY <4>1, <4>2, Zenon DEF Shaped
      <3>4. h.usage \in 0..(MaxEvents + 1)
        <4>1. h.usage \in {Len(history) + 1, response.usage}
          BY <2>5, HandledFields, ZenonT(60)
        <4>2. Len(history) + 1 <= MaxEvents
          BY Received
        <4>3. response.usage \in 0..(MaxEvents + 1)
          BY DEF Shaped
        <4> QED
          BY <2>1, <4>1, <4>2, <4>3
      <3> QED
        BY <2>5, <3>1, <3>2, <3>3, <3>4 DEF Shaped
    <2>7. Quiet' /\ OneSpeaks' /\ HandedBack'
      BY <1>2, Received DEF Takes, Quiet, OneSpeaks, HandedBack
    <2>8. response'.usage = billed'[attempt]
      <3>1. billed'[attempt] = IF Bills(e) THEN Len(history) + 1 ELSE billed[attempt]
        BY Received
      <3>2. h.usage = IF e.kind = "response" \/ Bills(e) THEN Len(history) + 1
                      ELSE response.usage
        <4>1. h.usage = IF e.kind = "response" THEN Len(history) + 1
                        ELSE IF e.kind # "failed" /\ Bills(e) THEN Len(history) + 1
                        ELSE response.usage
          BY <2>5, HandledFields, Zenon
        <4>2. e.kind # "failed"
          BY <1>2 DEF Takes
        <4> QED
          BY <4>1, <4>2, Zenon
      <3>3. e.kind = "response" => Bills(e)
        BY DEF Bills
      <3>4. billed[attempt] = response.usage
        BY Received DEF Billed
      <3>5. response'.usage = h.usage
        BY <2>5
      <3>6. CASE Bills(e)
        <4>1. billed'[attempt] = Len(history) + 1 /\ h.usage = Len(history) + 1
          BY <3>1, <3>2, <3>6, Zenon
        <4> QED
          BY <3>5, <4>1
      <3>7. CASE ~Bills(e)
        <4>1. billed'[attempt] = billed[attempt] /\ h.usage = response.usage
          BY <3>1, <3>2, <3>3, <3>7, Zenon
        <4> QED
          BY <3>4, <3>5, <4>1
      <3> QED
        BY <3>6, <3>7
    <2>9. Billed'
      <3>1. \A n \in DOMAIN failures : n - 1 \in 0..MaxRetries /\ n - 1 # attempt
        <4>1. Len(failures) = attempt /\ attempt \in 0..MaxRetries
          BY Received DEF TypeOK
        <4>2. DOMAIN failures = 1..attempt
          BY <4>1 DEF Lists
        <4> QED
          BY <4>1, <4>2
      <3>2. UNCHANGED <<pc, attempt, failure, failures>>
        BY <1>2 DEF Takes
      <3>3. \A n \in 0..MaxRetries : n # attempt => billed'[n] = billed[n]
        BY Received
      <3>4. \A n \in DOMAIN failures' : failures'[n].usage = billed'[n - 1]
        BY <3>1, <3>2, <3>3 DEF Billed
      <3>5. \A later \in 0..MaxRetries : later > attempt' => billed'[later] = 0
        BY <3>2, <3>3 DEF Billed, TypeOK
      <3>6. pc' = "stream" /\ attempt' = attempt
        BY <3>2, Received
      <3> QED
        BY <2>8, <3>4, <3>5, <3>6 DEF Billed
    <2> QED
      BY <2>2, <2>3, <2>6, <2>7, <2>9
  <1> QED
    BY <1>1, <1>2, Received

-------------------------------------------------------------------------------
(* The stream.                                                             *)

\* What one more event adds to the places of events of some kinds.
LEMMA Grows ==
  ASSUME history \in Seq(Messages), NEW e \in Messages, history' = Append(history, e)
  PROVE  /\ Len(history) \in Nat /\ Len(history') = Len(history) + 1
         /\ DOMAIN history = 1..Len(history)
         /\ DOMAIN history' = 1..(Len(history) + 1)
         /\ \A n \in DOMAIN history : history'[n] = history[n]
         /\ history'[Len(history) + 1] = e
         /\ \A kinds : Places(kinds) \subseteq 1..Len(history)
         /\ \A kinds : Places(kinds)' =
              IF e.kind \in kinds THEN Places(kinds) \cup {Len(history) + 1} ELSE Places(kinds)
         /\ \A kinds, i : At(kinds, i) \subseteq 1..Len(history)
         /\ \A kinds, i : At(kinds, i)' =
              IF e.kind \in kinds /\ e.index = i
              THEN At(kinds, i) \cup {Len(history) + 1} ELSE At(kinds, i)
  <1>1. /\ Len(history) \in Nat /\ Len(history') = Len(history) + 1
        /\ DOMAIN history = 1..Len(history)
        /\ DOMAIN history' = 1..(Len(history) + 1)
        /\ \A n \in DOMAIN history : history'[n] = history[n]
        /\ history'[Len(history) + 1] = e
    OBVIOUS
  <1>2. ASSUME NEW kinds
        PROVE  /\ Places(kinds) \subseteq 1..Len(history)
               /\ Places(kinds)' =
                    IF e.kind \in kinds THEN Places(kinds) \cup {Len(history) + 1} ELSE Places(kinds)
    BY <1>1 DEF Places
  <1>3. ASSUME NEW kinds, NEW i
        PROVE  /\ At(kinds, i) \subseteq 1..Len(history)
               /\ At(kinds, i)' =
                    IF e.kind \in kinds /\ e.index = i
                    THEN At(kinds, i) \cup {Len(history) + 1} ELSE At(kinds, i)
    BY <1>1, <1>2 DEF At, Places
  <1> QED
    BY <1>1, <1>2, <1>3

\* What is known when an event is taken.
LEMMA Taken ==
  ASSUME Control, Parsing, NEW e \in Events, Receive(e), Takes(e)
  PROVE  /\ e \in Messages /\ OfProtocol(e) /\ e.kind \notin {"junk", "failed"} /\ ~OutOfOrder(e)
         /\ e.kind \in BlockKinds => e.index \in Indices
         /\ history \in Seq(Messages) /\ history' = Append(history, e)
         /\ pc = "stream" /\ pc' = "stream" /\ protocol' = protocol /\ stream' = stream
         /\ response' = Handled(e, Len(history) + 1)
         /\ Conforms /\ Terminated /\ NothingOpen /\ Fed /\ Finishing
         /\ Assembled(response.blocks) /\ stream
  BY Received, EventsAreMessages DEF Takes, Parsing, Control, Typed, Lists

LEMMA ConformsStep ==
  ASSUME Control, Parsing, NEW e \in Events, Receive(e), Takes(e)
  PROVE  Conforms'
  BY Taken, Grows DEF Conforms, OfProtocol, OutOfOrder

LEMMA TerminatedStep ==
  ASSUME Control, Parsing, NEW e \in Events, Receive(e), Takes(e)
  PROVE  Terminated'
  <1> DEFINE last == Len(history) + 1
  <1>1. response'.terminal = (e.kind \in EndKinds \/ response.terminal)
    BY Taken, HandledFields DEF Control
  <1>2. Places(EndKinds)' = IF e.kind \in EndKinds THEN Places(EndKinds) \cup {last} ELSE Places(EndKinds)
    BY Taken, Grows
  <1>3. DOMAIN history' = 1..last /\ DOMAIN history = 1..Len(history) /\ Len(history) \in Nat /\ Len(history') = last
    BY Taken, Grows
  <1>4. CASE response.terminal
    <2>1. e.kind = "done" /\ protocol = "openai_chat"
      BY <1>4, Taken DEF OutOfOrder
    <2>2. PICK n \in DOMAIN history : Places(EndKinds) = n..Len(history)
      BY <1>4, Taken DEF Terminated
    <2>3. n \in DOMAIN history' /\ Places(EndKinds)' = n..last
      <3>1. Places(EndKinds)' = (n..Len(history)) \cup {last}
        BY <1>2, <2>1, <2>2 DEF EndKinds
      <3>2. n \in 1..Len(history)
        BY <1>3, <2>2
      <3>3. (n..Len(history)) \cup {last} = n..last
        BY <1>3, <3>2
      <3> QED
        BY <1>3, <3>1, <3>2, <3>3
    <2> QED
      BY <1>1, <1>3, <1>4, <2>1, <2>3, Taken DEF Terminated
  <1>5. CASE ~response.terminal /\ e.kind \in EndKinds
    <2>1. Places(EndKinds)' = last..last /\ last \in DOMAIN history'
      BY <1>2, <1>3, <1>5, Taken DEF Terminated
    <2> QED
      BY <1>1, <1>3, <1>5, <2>1 DEF Terminated
  <1>6. CASE ~response.terminal /\ e.kind \notin EndKinds
    BY <1>1, <1>2, <1>6, Taken DEF Terminated
  <1> QED
    BY <1>4, <1>5, <1>6

LEMMA NothingOpenStep ==
  ASSUME Control, Parsing, NEW e \in Events, Receive(e), Takes(e)
  PROVE  NothingOpen'
  <1>1. response'.terminal = (e.kind \in EndKinds \/ response.terminal)
    BY Taken, HandledFields DEF Control
  <1>2. e.kind \in EndKinds => response'.open = IF e.kind = "response" THEN {} ELSE response.open
    BY Taken, HandledFields DEF Control, EndKinds
  <1>3. response.terminal => e.kind = "done"
    BY Taken DEF OutOfOrder
  <1>4. e.kind = "done" => protocol = "openai_chat"
    BY Taken DEF OutOfOrder
  <1>5. e.kind = "stop" => response.open = {}
    BY Taken DEF OutOfOrder
  <1> QED
    BY <1>1, <1>2, <1>3, <1>4, <1>5, Taken DEF NothingOpen, EndKinds

LEMMA FinishingStep ==
  ASSUME Control, Parsing, NEW e \in Events, Receive(e), Takes(e)
  PROVE  Finishing'
  <1> DEFINE last == Len(history) + 1
  <1>1. response'.finish = IF e.kind \in StopKinds
                           THEN IF e.kind = "start" THEN "none" ELSE e.finish
                           ELSE response.finish
    BY Taken, HandledFields DEF Control
  <1>2. Places(StopKinds)' = IF e.kind \in StopKinds THEN Places(StopKinds) \cup {last} ELSE Places(StopKinds)
    BY Taken, Grows
  <1>3. /\ Places(StopKinds) \subseteq 1..Len(history) /\ Len(history) \in Nat
        /\ DOMAIN history = 1..Len(history)
        /\ history'[last] = e /\ \A n \in DOMAIN history : history'[n] = history[n]
    BY Taken, Grows
  <1>4. CASE e.kind \in StopKinds
    <2>1. \A k \in Places(StopKinds)' : k <= last
      BY <1>2, <1>3, <1>4
    <2> QED
      BY <1>1, <1>2, <1>3, <1>4, <2>1 DEF Finishing
  <1>5. CASE e.kind \notin StopKinds
    BY <1>1, <1>2, <1>3, <1>5, Taken DEF Finishing
  <1> QED
    BY <1>4, <1>5

LEMMA FedStep ==
  ASSUME Control, Parsing, NEW e \in Events, Receive(e), Takes(e)
  PROVE  Fed'
  <1> DEFINE last == Len(history) + 1
             bs == response'.blocks
             os == response'.open
  <1>1. /\ bs = IF e.kind \in {"text", "call", "delta", "block"}
                THEN With(response.blocks, e.index, Chunk(last, e))
                ELSE IF e.kind = "response" THEN Body(e).blocks
                ELSE response.blocks
        /\ os = IF e.kind = "block" THEN response.open \cup {e.index}
                ELSE IF e.kind = "close" THEN response.open \ {e.index}
                ELSE IF e.kind = "response" THEN {}
                ELSE response.open
    BY Taken, HandledFields DEF Control
  <1>2. e.kind # "response" =>
          DOMAIN bs = IF e.kind \in {"text", "call", "delta", "block"}
                      THEN DOMAIN response.blocks \cup {e.index} ELSE DOMAIN response.blocks
    BY <1>1 DEF With
  <1> HIDE DEF bs, os
  <1>3. os \subseteq DOMAIN bs
    BY <1>1, <1>2, Taken DEF Fed
  <1>4. ASSUME protocol' = "anthropic_messages", NEW i \in Indices
        PROVE  IF i \notin DOMAIN bs THEN At(BlockKinds, i)' = {}
               ELSE \E m \in DOMAIN history' :
                      /\ At({"block"}, i)' = {m}
                      /\ \A k \in At({"delta", "close"}, i)' : m < k
                      /\ i \in os => At({"close"}, i)' = {}
                      /\ i \notin os =>
                           \E n \in DOMAIN history' :
                             /\ At({"close"}, i)' = {n}
                             /\ m < n
                             /\ \A k \in At({"delta"}, i)' : k < n
    <2>1. /\ e.kind \notin {"response", "text", "call"}
          /\ e.kind = "block" => e.index \notin DOMAIN response.blocks
          /\ e.kind \in {"delta", "close"} => e.index \in response.open
      BY <1>4, Taken DEF OfProtocol, OutOfOrder
    <2>2. /\ At(BlockKinds, i)' = IF e.kind \in BlockKinds /\ e.index = i
                                 THEN At(BlockKinds, i) \cup {last} ELSE At(BlockKinds, i)
          /\ At({"block"}, i)' = IF e.kind = "block" /\ e.index = i
                                 THEN At({"block"}, i) \cup {last} ELSE At({"block"}, i)
          /\ At({"close"}, i)' = IF e.kind = "close" /\ e.index = i
                                 THEN At({"close"}, i) \cup {last} ELSE At({"close"}, i)
          /\ At({"delta"}, i)' = IF e.kind = "delta" /\ e.index = i
                                 THEN At({"delta"}, i) \cup {last} ELSE At({"delta"}, i)
          /\ At({"delta", "close"}, i)' =
               IF e.kind \in {"delta", "close"} /\ e.index = i
               THEN At({"delta", "close"}, i) \cup {last} ELSE At({"delta", "close"}, i)
      <3>1. \A kinds : At(kinds, i)' = IF e.kind \in kinds /\ e.index = i
                                      THEN At(kinds, i) \cup {last} ELSE At(kinds, i)
        BY Taken, Grows
      <3>2. /\ e.kind \in {"block"} <=> e.kind = "block"
            /\ e.kind \in {"close"} <=> e.kind = "close"
            /\ e.kind \in {"delta"} <=> e.kind = "delta"
        OBVIOUS
      <3> HIDE DEF last
      <3> QED
        BY <3>1, <3>2, Zenon
    <2>3. /\ At({"delta"}, i) \subseteq 1..Len(history)
          /\ At(BlockKinds, i) = At({"block"}, i) \cup At({"delta"}, i) \cup At({"close"}, i)
          /\ At({"delta", "close"}, i) = At({"delta"}, i) \cup At({"close"}, i)
      BY Taken, Grows DEF At, Places, BlockKinds
    <2>4. /\ Len(history) \in Nat /\ DOMAIN history = 1..Len(history) /\ DOMAIN history' = 1..last
      BY Taken, Grows
    <2>5. CASE i \notin DOMAIN response.blocks
      <3>1. At(BlockKinds, i) = {} /\ i \notin response.open
        BY <1>4, <2>5, Taken DEF Fed
      <3>2. CASE e.kind = "block" /\ e.index = i
        <4>1. At({"block"}, i)' = {last} /\ At({"delta", "close"}, i)' = {} /\ At({"close"}, i)' = {}
          BY <2>2, <2>3, <3>1, <3>2
        <4>2. last \in DOMAIN history' /\ i \in os /\ i \in DOMAIN bs
          BY <1>1, <1>2, <2>4, <3>2
        <4> QED
          BY <4>1, <4>2
      <3>3. CASE ~(e.kind = "block" /\ e.index = i)
        <4>1. i \notin DOMAIN bs /\ ~(e.kind \in BlockKinds /\ e.index = i)
          BY <1>2, <2>1, <2>5, <3>1, <3>3, Taken DEF BlockKinds, Fed
        <4> QED
          BY <2>2, <3>1, <4>1
      <3> QED
        BY <3>2, <3>3
    <2>6. CASE i \in DOMAIN response.blocks
      <3>1. PICK m \in DOMAIN history :
              /\ At({"block"}, i) = {m}
              /\ \A k \in At({"delta", "close"}, i) : m < k
              /\ i \in response.open => At({"close"}, i) = {}
              /\ i \notin response.open =>
                   \E n \in DOMAIN history :
                     /\ At({"close"}, i) = {n}
                     /\ m < n
                     /\ \A k \in At({"delta"}, i) : k < n
        BY <1>4, <2>6, Taken DEF Fed
      <3>2. i \in DOMAIN bs /\ ~(e.kind = "block" /\ e.index = i) /\ m \in DOMAIN history' /\ m < last
        BY <1>2, <2>1, <2>4, <2>6, <3>1
      <3>3. At({"block"}, i)' = {m}
        BY <2>2, <3>1, <3>2
      <3>4. \A k \in At({"delta", "close"}, i)' : m < k
        BY <2>2, <3>1, <3>2
      <3>5. CASE i \in os
        <4>1. i \in response.open /\ ~(e.kind = "close" /\ e.index = i)
          BY <1>1, <2>1, <3>2, <3>5
        <4> QED
          BY <2>2, <3>1, <3>2, <3>3, <3>4, <3>5, <4>1
      <3>6. CASE i \notin os /\ e.kind = "close" /\ e.index = i
        <4>1. At({"close"}, i)' = {last} /\ At({"delta"}, i)' = At({"delta"}, i)
          BY <2>1, <2>2, <3>1, <3>6
        <4>2. \A k \in At({"delta"}, i) : k < last
          BY <2>3, <2>4
        <4>3. last \in DOMAIN history'
          BY <2>4
        <4> QED
          BY <3>2, <3>3, <3>4, <3>6, <4>1, <4>2, <4>3
      <3>7. CASE i \notin os /\ ~(e.kind = "close" /\ e.index = i)
        <4>1. i \notin response.open /\ ~(e.kind = "delta" /\ e.index = i)
          BY <1>1, <2>1, <3>7
        <4>2. At({"close"}, i)' = At({"close"}, i) /\ At({"delta"}, i)' = At({"delta"}, i)
          BY <2>2, <3>7, <4>1
        <4>3. DOMAIN history \subseteq DOMAIN history'
          BY <2>4
        <4> QED
          BY <3>1, <3>2, <3>3, <3>4, <3>7, <4>1, <4>2, <4>3
      <3> QED
        BY <3>5, <3>6, <3>7
    <2> QED
      BY <2>5, <2>6
  <1> QED
    BY <1>3, <1>4 DEF Fed, bs, os

\* One more piece of a block, and the first.
LEMMA OneMore ==
  ASSUME NEW b \in Seq(Chunks), NEW c \in Chunks
  PROVE  /\ Append(b, c) \in Seq(Chunks)
         /\ Ats(Append(b, c)) = Ats(b) \cup {c.at}
         /\ InOrder(b) /\ (\A at \in Ats(b) : at < c.at) => InOrder(Append(b, c))
  <1> DEFINE d == Append(b, c)
  <1>1. /\ d \in Seq(Chunks) /\ Len(b) \in Nat /\ DOMAIN b = 1..Len(b)
        /\ DOMAIN d = 1..(Len(b) + 1) /\ d[Len(b) + 1] = c
        /\ \A n \in DOMAIN b : d[n] = b[n]
    OBVIOUS
  <1> HIDE DEF d
  <1>2. Ats(d) = Ats(b) \cup {c.at}
    BY <1>1 DEF Ats
  <1>3. InOrder(b) /\ (\A at \in Ats(b) : at < c.at) => InOrder(d)
    BY <1>1 DEF Ats, InOrder
  <1> QED
    BY <1>1, <1>2, <1>3 DEF d

LEMMA First ==
  ASSUME NEW c \in Chunks
  PROVE  <<c>> \in Seq(Chunks) /\ Ats(<<c>>) = {c.at} /\ InOrder(<<c>>)
  BY DEF Ats, InOrder

LEMMA AssembledStep ==
  ASSUME Control, Parsing, NEW e \in Events, Receive(e), Takes(e)
  PROVE  Assembled(response.blocks)'
  <1> DEFINE last == Len(history) + 1
             old == response.blocks
             bs == response'.blocks
             c == Chunk(last, e)
  <1>1. bs = IF e.kind \in {"text", "call", "delta", "block"} THEN With(old, e.index, c)
             ELSE IF e.kind = "response" THEN Body(e).blocks
             ELSE old
    BY Taken, HandledFields DEF Control
  <1>2. /\ Len(history) \in Nat /\ DOMAIN history = 1..Len(history)
        /\ \A n \in 1..Len(history) : history'[n] = history[n]
        /\ history'[last] = e
    BY Taken, Grows
  <1>3. /\ Places(Pieces) \subseteq 1..Len(history)
        /\ Places(Pieces)' = IF e.kind \in Pieces THEN Places(Pieces) \cup {last} ELSE Places(Pieces)
        /\ \A i : At(Pieces, i) \subseteq 1..Len(history)
        /\ \A i : At(Pieces, i)' = IF e.kind \in Pieces /\ e.index = i
                                  THEN At(Pieces, i) \cup {last} ELSE At(Pieces, i)
    BY Taken, Grows
  <1>4. /\ IsFiniteSet(DOMAIN old)
        /\ \A i \in DOMAIN old :
             old[i] \in Seq(Chunks) /\ Ats(old[i]) = At(Pieces, i) /\ InOrder(old[i])
        /\ \A n \in Places(Pieces) :
             \/ history[n].index \in DOMAIN old
             \/ history[n].kind = "response" /\ history[n].id = "none"
    BY Taken DEF Assembled
  <1>5. c \in Chunks /\ c.at = last
    BY <1>2, Taken DEF Chunk, Messages, Chunks
  <1> HIDE DEF c, old, bs
  <1> SUFFICES /\ IsFiniteSet(DOMAIN bs)
               /\ \A i \in DOMAIN bs :
                    bs[i] \in Seq(Chunks) /\ Ats(bs[i]) = At(Pieces, i)' /\ InOrder(bs[i])
               /\ \A n \in Places(Pieces)' :
                    \/ history'[n].index \in DOMAIN bs
                    \/ history'[n].kind = "response" /\ history'[n].id = "none"
    BY DEF Assembled, bs
  <1>6. CASE e.kind \notin Pieces
    <2>1. bs = old /\ Places(Pieces)' = Places(Pieces) /\ \A i : At(Pieces, i)' = At(Pieces, i)
      BY <1>1, <1>3, <1>6 DEF Pieces
    <2> QED
      BY <1>2, <1>3, <1>4, <2>1
  <1>7. CASE e.kind = "response"
    <2>1. Places(Pieces) = {} /\ \A i : At(Pieces, i) = {}
      <3>1. protocol = "openai_responses" /\ Places(EndKinds) = {}
        BY <1>7, Known, Taken DEF OfProtocol, OutOfOrder, Terminated, Control, Typed, TypeOK
      <3>2. Places(Pieces) \subseteq Places(EndKinds)
        BY <3>1, Taken DEF Conforms, Places, Pieces, EndKinds
      <3> QED
        BY <3>1, <3>2 DEF At
    <2>2. Places(Pieces)' = {last} /\ \A i : At(Pieces, i)' = IF e.index = i THEN {last} ELSE {}
      BY <1>3, <1>7, <2>1 DEF Pieces
    <2>3. CASE e.id = "none" /\ e.index = 0
      <3>1. bs = <<>>
        BY <1>1, <1>7, <2>3 DEF Body
      <3>2. DOMAIN bs = {}
        BY <3>1
      <3> QED
        BY <1>2, <1>7, <2>2, <2>3, <3>2, FS_EmptySet
    <2>4. CASE ~(e.id = "none" /\ e.index = 0)
      <3>1. bs = With(<<>>, e.index, c)
        BY <1>1, <1>7, <2>4 DEF Body, c
      <3>2. DOMAIN bs = {e.index} /\ bs[e.index] = <<c>>
        BY <3>1 DEF With
      <3>3. IsFiniteSet({e.index})
        BY FS_Singleton
      <3>4. <<c>> \in Seq(Chunks) /\ Ats(<<c>>) = {last} /\ InOrder(<<c>>)
        BY <1>5, First
      <3>5. \A n \in Places(Pieces)' : history'[n].index \in DOMAIN bs
        BY <1>2, <2>2, <3>2
      <3> QED
        BY <2>2, <3>2, <3>3, <3>4, <3>5
    <2> QED
      BY <2>3, <2>4
  <1>8. CASE e.kind \in {"text", "call", "delta", "block"}
    <2>1. bs = With(old, e.index, c)
      BY <1>1, <1>8
    <2>2. /\ DOMAIN bs = DOMAIN old \cup {e.index}
          /\ \A i \in DOMAIN old : i # e.index => bs[i] = old[i]
          /\ bs[e.index] = IF e.index \in DOMAIN old THEN Append(old[e.index], c) ELSE <<c>>
      BY <2>1 DEF With
    <2>3. IsFiniteSet(DOMAIN bs)
      BY <1>4, <2>2, FS_AddElement
    <2>4. /\ Places(Pieces)' = Places(Pieces) \cup {last}
          /\ \A i : At(Pieces, i)' = IF e.index = i THEN At(Pieces, i) \cup {last} ELSE At(Pieces, i)
      BY <1>3, <1>8 DEF Pieces
    <2>5. \A i \in DOMAIN bs : i # e.index =>
            bs[i] \in Seq(Chunks) /\ Ats(bs[i]) = At(Pieces, i)' /\ InOrder(bs[i])
      BY <1>4, <2>2, <2>4
    <2>6. bs[e.index] \in Seq(Chunks) /\ Ats(bs[e.index]) = At(Pieces, e.index)' /\ InOrder(bs[e.index])
      <3>1. CASE e.index \in DOMAIN old
        <4>1. \A at \in Ats(old[e.index]) : at < c.at
          BY <1>2, <1>3, <1>4, <1>5, <3>1
        <4>2. bs[e.index] = Append(old[e.index], c) /\ old[e.index] \in Seq(Chunks)
          BY <1>4, <2>2, <3>1
        <4>3. bs[e.index] \in Seq(Chunks) /\ InOrder(bs[e.index])
          BY <1>4, <1>5, <3>1, <4>1, <4>2, OneMore
        <4>4. Ats(bs[e.index]) = Ats(old[e.index]) \cup {last}
          BY <1>5, <4>2, OneMore
        <4> QED
          BY <1>4, <2>4, <3>1, <4>3, <4>4
      <3>2. CASE e.index \notin DOMAIN old
        <4>1. \A n \in Places(Pieces) : history[n].kind # "response"
          BY <1>8, Known, Taken DEF OfProtocol, Conforms, Places, Control, Typed, TypeOK
        <4>2. At(Pieces, e.index) = {}
          BY <1>4, <3>2, <4>1 DEF At
        <4>3. <<c>> \in Seq(Chunks) /\ Ats(<<c>>) = {last} /\ InOrder(<<c>>)
          BY <1>5, First
        <4> QED
          BY <2>2, <2>4, <3>2, <4>2, <4>3
      <3> QED
        BY <3>1, <3>2
    <2>7. \A n \in Places(Pieces)' :
            \/ history'[n].index \in DOMAIN bs
            \/ history'[n].kind = "response" /\ history'[n].id = "none"
      <3>1. \A n \in Places(Pieces) : history'[n] = history[n]
        BY <1>2, <1>3
      <3>2. history'[last].index \in DOMAIN bs
        BY <1>2, <2>2
      <3>3. DOMAIN old \subseteq DOMAIN bs
        BY <2>2
      <3>4. ASSUME NEW n \in Places(Pieces)
            PROVE  \/ history'[n].index \in DOMAIN bs
                   \/ history'[n].kind = "response" /\ history'[n].id = "none"
        <4>1. history'[n] = history[n]
          BY <3>1
        <4>2. \/ history[n].index \in DOMAIN old
              \/ history[n].kind = "response" /\ history[n].id = "none"
          BY <1>4
        <4> QED
          BY <3>3, <4>1, <4>2
      <3>5. ASSUME NEW n \in Places(Pieces)'
            PROVE  n = last \/ n \in Places(Pieces)
        BY <2>4
      <3> HIDE DEF last
      <3> SUFFICES ASSUME NEW n \in Places(Pieces)'
                   PROVE  \/ history'[n].index \in DOMAIN bs
                          \/ history'[n].kind = "response" /\ history'[n].id = "none"
        OBVIOUS
      <3>6. n = last \/ n \in Places(Pieces)
        BY <3>5
      <3> QED
        BY <3>2, <3>4, <3>6
    <2> QED
      BY <2>3, <2>5, <2>6, <2>7
  <1> QED
    BY <1>6, <1>7, <1>8 DEF Pieces


LEMMA ParsingStep ==
  ASSUME Control, Parsing, NEW e \in Events, Receive(e), Takes(e)
  PROVE  Parsing'
  BY ConformsStep, TerminatedStep, NothingOpenStep, FedStep, FinishingStep,
     AssembledStep, Taken DEF Parsing

\* Nothing has been received yet.
LEMMA ParsingStart ==
  ASSUME Control, Accepted
  PROVE  Parsing'
  <1> SUFFICES ASSUME pc' = "stream"
      PROVE  /\ Conforms' /\ Terminated' /\ NothingOpen' /\ Fed' /\ Finishing'
             /\ Assembled(response.blocks)' /\ stream'
    BY DEF Parsing
  <1>1. stream /\ stream' = stream /\ history' = <<>> /\ response' = Nothing
    BY DEF Accepted, Control, Quiet
  <1>2. \A n : n \notin DOMAIN history'
    BY <1>1
  <1>3. /\ \A kinds : Places(kinds)' = {}
        /\ \A kinds, i : At(kinds, i)' = {}
    BY <1>2 DEF Places, At
  <1>4. /\ response'.blocks = <<>> /\ DOMAIN response'.blocks = {}
        /\ response'.open = {} /\ response'.finish = "none" /\ response'.terminal = FALSE
    BY <1>1, NothingIs
  <1>5. Conforms' /\ Terminated' /\ NothingOpen' /\ Fed' /\ Finishing'
    BY <1>2, <1>3, <1>4 DEF Conforms, Terminated, NothingOpen, Fed, Finishing
  <1>6. Assembled(response.blocks)'
    BY <1>3, <1>4, FS_EmptySet DEF Assembled
  <1> QED
    BY <1>1, <1>5, <1>6

-------------------------------------------------------------------------------
(* The answer.                                                             *)

\* What AnswerIsWhole asks of an answer with these blocks.
Whole(blocks) ==
  /\ Complete
  /\ Stopped
  /\ Assembled(blocks)

LEMMA StreamIsWhole ==
  ASSUME Control, Parsing, pc = "stream", response.terminal, response.finish = "stop"
  PROVE  Whole(response.blocks)
  <1>1. /\ stream /\ Conforms /\ Terminated /\ NothingOpen /\ Fed /\ Finishing
        /\ Assembled(response.blocks)
    BY DEF Parsing
  <1>2. Len(history) \in Nat /\ DOMAIN history = 1..Len(history)
    BY DEF Control, Typed, Lists
  <1>3. Stopped
    BY <1>1 DEF Finishing, Stopped, StopKinds
  <1>4. Places({"junk", "failed"}) = {}
    BY <1>1 DEF Conforms, Places
  <1>5. PICK n \in DOMAIN history :
          Places(EndKinds) = n..Len(history) /\ (protocol # "openai_chat" => n = Len(history))
    BY <1>1 DEF Terminated
  <1>6. CASE protocol = "openai_chat"
    <2>1. Places({"done"}) = Places(EndKinds)
      BY <1>1, <1>6 DEF Conforms, Places, EndKinds
    <2> QED
      BY <1>1, <1>3, <1>4, <1>5, <1>6, <2>1 DEF Whole, Complete
  <1>7. CASE protocol = "openai_responses"
    <2>1. Places({"response"}) = Places(EndKinds)
      BY <1>1, <1>7 DEF Conforms, Places, EndKinds
    <2>2. Places({"response"}) = {Len(history)}
      BY <1>2, <1>5, <1>7, <2>1
    <2> QED
      BY <1>1, <1>3, <1>4, <1>7, <2>2 DEF Whole, Complete
  <1>8. CASE protocol = "anthropic_messages"
    <2>1. Places({"stop"}) = Places(EndKinds)
      BY <1>1, <1>8 DEF Conforms, Places, EndKinds
    <2>2. Places({"stop"}) = {Len(history)}
      BY <1>2, <1>5, <1>8, <2>1
    <2>3. \A i \in Indices : Bracketed(i)
      BY <1>1, <1>8 DEF NothingOpen, Fed, Bracketed, BlockKinds, At, Places
    <2> QED
      BY <1>1, <1>3, <1>4, <1>8, <2>2, <2>3 DEF Whole, Complete
  <1> QED
    BY <1>6, <1>7, <1>8, Known DEF Control, Typed, TypeOK

LEMMA NoAnswer ==
  ASSUME result'.kind # "answer"
  PROVE  AnswerIsWhole'
  BY DEF AnswerIsWhole

LEMMA AnAnswer ==
  ASSUME Whole(result.blocks)'
  PROVE  AnswerIsWhole'
  BY DEF Whole, AnswerIsWhole, Assembled, Ats, InOrder

\* What is said of the stream holds as long as nothing more is received.
LEMMA SameStream ==
  ASSUME UNCHANGED <<protocol, stream, history>>
  PROVE  /\ Complete' = Complete /\ Stopped' = Stopped
         /\ \A blocks : Assembled(blocks) => Assembled(blocks)'
  <1>1. /\ \A kinds : Places(kinds)' = Places(kinds)
        /\ \A kinds, i : At(kinds, i)' = At(kinds, i)
    BY DEF Places, At
  <1>2. \A i : Bracketed(i)' = Bracketed(i)
    BY <1>1 DEF Bracketed
  <1>3. Complete' = Complete
    BY <1>1, <1>2 DEF Complete
  <1>4. Stopped' = Stopped
    BY <1>1 DEF Stopped
  <1>5. \A blocks : Assembled(blocks) => Assembled(blocks)'
    BY <1>1 DEF Assembled
  <1> QED
    BY <1>3, <1>4, <1>5

LEMMA EndsAnswers ==
  ASSUME Control, Parsing, StreamEnds
  PROVE  AnswerIsWhole'
  <1>1. CASE response.terminal /\ Checked(response)
    <2>1. /\ result'.kind = "answer" /\ result'.blocks = response.blocks
          /\ UNCHANGED <<protocol, stream, history>>
      BY <1>1 DEF StreamEnds, Answer, Ended
    <2>2. Whole(response.blocks)
      BY <1>1, StreamIsWhole DEF Checked, StreamEnds
    <2>3. Complete' /\ Stopped' /\ Assembled(result.blocks)'
      BY <2>1, <2>2, SameStream DEF Whole
    <2> QED
      BY <2>1, <2>2, <2>3, AnAnswer DEF Whole
  <1>2. CASE ~(response.terminal /\ Checked(response))
    <2>1. result'.kind # "answer"
      BY <1>2 DEF StreamEnds, Answer, Raise, Ended
    <2> QED
      BY <2>1, NoAnswer
  <1> QED
    BY <1>1, <1>2

\* The answer in one piece.
LEMMA BodyAnswers ==
  ASSUME Control, NEW e \in Bodies, BodyArrives(e)
  PROVE  AnswerIsWhole'
  <1>1. CASE Checked(Body(e))
    <2>1. /\ result'.kind = "answer" /\ result'.blocks = Body(e).blocks
          /\ pc = "body" /\ history' = <<e>>
          /\ UNCHANGED <<protocol, stream>>
      BY <1>1 DEF BodyArrives, Answer, Ended
    <2>2. history = <<>> /\ Len(history) = 0 /\ e \in Messages /\ e.kind = "response"
      BY <2>1, BodiesAreMessages DEF Control, Quiet
    <2>3. DOMAIN history' = {1} /\ history'[1] = e /\ Len(history') = 1
      BY <2>1
    <2>4. /\ \A kinds : Places(kinds)' = IF "response" \in kinds THEN {1} ELSE {}
          /\ \A kinds, i : At(kinds, i)' =
               IF "response" \in kinds /\ e.index = i THEN {1} ELSE {}
      BY <2>2, <2>3 DEF Places, At
    <2>5. ~stream
      BY <2>1 DEF Control, Typed, Bounded
    <2>6. Complete'
      BY <2>1, <2>3, <2>4, <2>5 DEF Complete
    <2>7. e.finish = "stop"
      BY <1>1, BodyIs DEF Checked
    <2>8. Stopped'
      BY <2>3, <2>4, <2>7 DEF Stopped
    <2>9. PICK bs : bs = Body(e).blocks
      OBVIOUS
    <2>10. /\ IsFiniteSet(DOMAIN bs)
           /\ \A i \in DOMAIN bs :
                bs[i] \in Seq(Chunks) /\ Ats(bs[i]) = At(Pieces, i)' /\ InOrder(bs[i])
           /\ \A n \in Places(Pieces)' :
                \/ history'[n].index \in DOMAIN bs
                \/ history'[n].kind = "response" /\ history'[n].id = "none"
      <3>1. Places(Pieces)' = {1} /\ \A i : At(Pieces, i)' = IF e.index = i THEN {1} ELSE {}
        BY <2>4 DEF Pieces
      <3>2. CASE e.id = "none" /\ e.index = 0
        <4>1. bs = <<>>
          BY <2>9, <3>2 DEF Body
        <4>2. DOMAIN bs = {}
          BY <4>1
        <4> QED
          BY <2>2, <2>3, <3>1, <3>2, <4>2, FS_EmptySet
      <3>3. CASE ~(e.id = "none" /\ e.index = 0)
        <4> DEFINE c == Chunk(1, e)
        <4>1. bs = With(<<>>, e.index, c)
          BY <2>2, <2>9, <3>3 DEF Body
        <4>2. c \in Chunks /\ c.at = 1
          BY <2>2 DEF Chunk, Messages, Chunks
        <4> HIDE DEF c
        <4>3. DOMAIN bs = {e.index} /\ bs[e.index] = <<c>>
          BY <4>1 DEF With
        <4>4. <<c>> \in Seq(Chunks) /\ Ats(<<c>>) = {1} /\ InOrder(<<c>>)
          BY <4>2, First
        <4>5. IsFiniteSet({e.index})
          BY FS_Singleton
        <4>6. \A n \in Places(Pieces)' : history'[n].index \in DOMAIN bs
          BY <2>3, <3>1, <4>3
        <4> QED
          BY <3>1, <4>3, <4>4, <4>5, <4>6
      <3> QED
        BY <3>2, <3>3
    <2>11. Assembled(result.blocks)'
      <3>1. result'.blocks = bs
        BY <2>1, <2>9
      <3> QED
        BY <2>10, <3>1 DEF Assembled
    <2>12. Whole(result.blocks)'
      BY <2>6, <2>8, <2>11 DEF Whole
    <2> QED
      BY <2>12, AnAnswer
  <1>2. CASE ~Checked(Body(e))
    <2>1. result'.kind # "answer"
      BY <1>2 DEF BodyArrives, Answer, Raise, Ended
    <2> QED
      BY <2>1, NoAnswer
  <1> QED
    BY <1>1, <1>2

-------------------------------------------------------------------------------
(* The usage of a call that fails.                                         *)

LEMMA NoError ==
  ASSUME result'.kind # "error"
  PROVE  KnownUsageSurvives'
  BY DEF KnownUsageSurvives

\* An error that is raised with the usage that was sent, if any was.
LEMMA RaisedWithUsage ==
  ASSUME Control, NEW own, Raise(own), own = billed'[attempt] \/ billed'[attempt] = 0
  PROVE  KnownUsageSurvives'
  <1>1. result'.counted = <<[attempt |-> attempt, usage |-> own]>> \o failures
        /\ attempt' = attempt
    BY DEF Raise, Ended, Counted
  <1>2. failures \in Seq(Snapshots)
    BY DEF Control, Typed, Lists
  <1>3. /\ 1 \in DOMAIN result'.counted
        /\ result'.counted[1] = [attempt |-> attempt, usage |-> own]
    BY <1>1, <1>2
  <1> QED
    BY <1>1, <1>3 DEF KnownUsageSurvives

LEMMA FailsKeeps ==
  ASSUME Control, TransportFails
  PROVE  KnownUsageSurvives'
  BY RaisedWithUsage DEF TransportFails, Control, Billed

LEMMA BreaksKeeps ==
  ASSUME Control, StreamBreaks
  PROVE  KnownUsageSurvives'
  BY RaisedWithUsage DEF StreamBreaks, Control, Billed

LEMMA EndsKeeps ==
  ASSUME Control, StreamEnds
  PROVE  KnownUsageSurvives'
  <1>1. response.usage = billed'[attempt]
    BY DEF StreamEnds, Control, Billed
  <1>2. CASE response.terminal /\ Checked(response)
    BY <1>2, NoError DEF StreamEnds, Answer, Ended
  <1>3. CASE ~(response.terminal /\ Checked(response))
    BY <1>1, <1>3, RaisedWithUsage DEF StreamEnds, Answer
  <1> QED
    BY <1>2, <1>3

LEMMA BodyKeeps ==
  ASSUME Control, NEW e \in Bodies, BodyArrives(e)
  PROVE  KnownUsageSurvives'
  <1>1. Body(e).usage = billed'[attempt]
    <2>1. pc = "body" /\ billed' = [billed EXCEPT ![attempt] = 1]
      BY DEF BodyArrives
    <2>2. Len(history) = 0
      BY <2>1 DEF Control, Quiet
    <2>3. Body(e).usage = Len(history) + 1
      BY BodyIs
    <2> QED
      BY <2>1, <2>2, <2>3 DEF Control, Typed, TypeOK
  <1>2. CASE Checked(Body(e))
    BY <1>2, NoError DEF BodyArrives, Answer, Ended
  <1>3. CASE ~Checked(Body(e))
    BY <1>1, <1>3, RaisedWithUsage DEF BodyArrives, Answer
  <1> QED
    BY <1>2, <1>3

LEMMA ReportedKeeps ==
  ASSUME Control, Reported
  PROVE  KnownUsageSurvives'
  <1>1. failure.usage = billed'[attempt]
    BY DEF Reported, Control, Billed
  <1>2. CASE failure.retry /\ attempt < MaxRetries
    BY <1>2, NoError DEF Reported, Control, Typed, TypeOK
  <1>3. CASE ~(failure.retry /\ attempt < MaxRetries)
    BY <1>1, <1>3, RaisedWithUsage DEF Reported
  <1> QED
    BY <1>2, <1>3

\* An event that the parser refuses for its place has no place in what was sent.
LEMMA RefusedIsMisplaced ==
  ASSUME Control, Parsing, NEW e \in Events, pc = "stream", OutOfOrder(e),
         history' = Append(history, e), protocol' = protocol
  PROVE  Misplaced'
  <1> DEFINE last == Len(history) + 1
  <1>1. /\ Terminated /\ Fed /\ e \in Messages /\ OfProtocol(e)
        /\ history \in Seq(Messages) /\ response.open \subseteq Indices
        /\ e.kind \in BlockKinds => e.index \in Indices
        /\ protocol \in {"openai_chat", "openai_responses", "anthropic_messages"}
    BY EventsAreMessages, Known DEF Parsing, Control, Typed, Lists, Shaped, TypeOK
  <1>2. /\ Len(history) \in Nat /\ Len(history') = last /\ history'[last] = e
        /\ \A kinds : last \notin Places(kinds)
        /\ \A kinds : Places(kinds)' = IF e.kind \in kinds THEN Places(kinds) \cup {last} ELSE Places(kinds)
        /\ \A kinds, i : last \notin At(kinds, i)
        /\ \A kinds, i : At(kinds, i)' = IF e.kind \in kinds /\ e.index = i
                                         THEN At(kinds, i) \cup {last} ELSE At(kinds, i)
    <2>1. /\ Len(history) \in Nat /\ Len(history') = last /\ history'[last] = e
          /\ \A kinds : Places(kinds) \subseteq 1..Len(history)
          /\ \A kinds, i : At(kinds, i) \subseteq 1..Len(history)
      BY <1>1, Grows
    <2>2. last \notin 1..Len(history)
      BY <2>1
    <2> QED
      BY <1>1, <2>1, <2>2, Grows
  <1>3. /\ \A kinds : Places(kinds)' \ {last} = Places(kinds)
        /\ \A kinds, i : At(kinds, i)' \ {last} = At(kinds, i)
        /\ last # 0
    <2> HIDE DEF last
    <2>1. \A kinds : Places(kinds)' \ {last} = Places(kinds)
      BY <1>2
    <2>2. \A kinds, i : At(kinds, i)' \ {last} = At(kinds, i)
      BY <1>2
    <2>3. last # 0
      BY <1>2 DEF last
    <2> QED
      BY <2>1, <2>2, <2>3
  <1> SUFFICES
        \/ e.kind = "done" /\ protocol # "openai_chat"
        \/ e.kind # "done" /\ Places(EndKinds) # {}
        \/ e.kind = "block" /\ At({"block"}, e.index) # {}
        \/ /\ e.kind \in {"delta", "close"}
           /\ At({"block"}, e.index) = {} \/ At({"close"}, e.index) # {}
        \/ /\ e.kind = "stop"
           /\ \E i \in Indices : At({"block"}, i) # {} /\ At({"close"}, i) = {}
    <2>1. \A i : e.kind = "stop" => /\ At({"block"}, i)' = At({"block"}, i)
                                   /\ At({"close"}, i)' = At({"close"}, i)
      BY <1>2
    <2> HIDE DEF last
    <2> QED
      BY <1>2, <1>3, <2>1, SMTT(30) DEF Misplaced, EndKinds
  <1>4. response.terminal => Places(EndKinds) # {}
    <2>1. ASSUME response.terminal
          PROVE  \E n \in DOMAIN history : Places(EndKinds) = n..Len(history)
      BY <1>1, <2>1 DEF Terminated
    <2> QED
      BY <1>1, <2>1
  <1>5. CASE e.kind \in {"block", "delta", "close", "stop"}
    <2>1. protocol = "anthropic_messages"
      BY <1>1, <1>5 DEF OfProtocol, BlockKinds
    <2>2. \A i \in Indices :
            /\ i \notin DOMAIN response.blocks => At({"block"}, i) = {}
            /\ i \in DOMAIN response.blocks => At({"block"}, i) # {}
            /\ i \in response.open => At({"close"}, i) = {} /\ i \in DOMAIN response.blocks
            /\ i \in DOMAIN response.blocks /\ i \notin response.open => At({"close"}, i) # {}
      <3>1. \A i : At({"block"}, i) \subseteq At(BlockKinds, i)
        BY DEF At, Places, BlockKinds
      <3> QED
        BY <1>1, <2>1, <3>1 DEF Fed
    <2> QED
      BY <1>1, <1>5, <1>4, <2>2 DEF OutOfOrder, BlockKinds
  <1>6. CASE e.kind \notin {"block", "delta", "close", "stop"}
    BY <1>6, <1>4 DEF OutOfOrder
  <1> QED
    BY <1>5, <1>6

LEMMA ReceiveKeeps ==
  ASSUME Control, Parsing, NEW e \in Events, Receive(e)
  PROVE  KnownUsageSurvives'
  <1>1. /\ pc = "stream" /\ history' = Append(history, e) /\ history \in Seq(Messages)
        /\ e \in Messages /\ response.usage = billed[attempt]
        /\ billed'[attempt] = IF Bills(e) THEN Len(history) + 1 ELSE billed[attempt]
    BY Received, EventsAreMessages DEF Control, Typed, Lists, Billed
  <1>2. CASE e.kind \in {"junk", "failed"} /\ ~Bills(e)
    BY <1>1, <1>2, RaisedWithUsage DEF Receive
  <1>3. CASE e.kind \in {"junk", "failed"} /\ Bills(e)
    <2>1. e.kind = "failed"
      BY <1>3 DEF Bills
    <2>2. protocol' = protocol
      BY <1>3 DEF Receive, Raise
    <2>3. history' # <<>> /\ history'[Len(history')] = e
      BY <1>1
    <2>4. Bills(history[Len(history)])'
      BY <1>3, <2>2, <2>3 DEF Bills
    <2> QED
      BY <2>1, <2>3, <2>4 DEF KnownUsageSurvives
  <1>4. CASE e.kind \notin {"junk", "failed"} /\ OutOfOrder(e)
    <2>1. protocol' = protocol
      BY <1>4 DEF Receive, Raise
    <2> QED
      BY <1>1, <1>4, <2>1, RefusedIsMisplaced DEF KnownUsageSurvives
  <1>5. CASE e.kind \notin {"junk", "failed"} /\ ~OutOfOrder(e)
    BY <1>1, <1>5, NoError DEF Receive, Control, Typed, TypeOK
  <1> QED
    BY <1>2, <1>3, <1>4, <1>5

-------------------------------------------------------------------------------
(* The invariant.                                                          *)

Inv == Control /\ Parsing /\ AnswerIsWhole /\ KnownUsageSurvives

LEMMA InvInit == Init => Inv
  <1> SUFFICES ASSUME Init PROVE Inv
    OBVIOUS
  <1>1. Parsing /\ AnswerIsWhole /\ KnownUsageSurvives
    BY DEF Init, NoResult, Parsing, AnswerIsWhole, KnownUsageSurvives
  <1> QED
    BY <1>1, ControlInit DEF Inv

\* Nothing leads out of a call that has ended.
LEMMA NotYet ==
  ASSUME Control, pc # "ended"
  PROVE  result.kind = "none"
  BY DEF Control, Typed, TypeOK

LEMMA InvStep == Inv /\ [Next]_vars => Inv'
  <1> SUFFICES ASSUME Inv, [Next]_vars PROVE Inv'
    OBVIOUS
  <1> USE DEF Inv
  <1>1. CASE TransportFails
    <2>1. pc' = "ended" /\ result'.kind = "error"
      BY <1>1 DEF TransportFails, Raise, Ended
    <2> QED
      BY <1>1, <2>1, FailsControl, FailsKeeps, NoAnswer DEF Parsing
  <1>2. CASE Reported
    <2>1. pc' # "stream" /\ result'.kind # "answer"
      BY <1>2, NotYet DEF Reported, Raise, Ended
    <2> QED
      BY <1>2, <2>1, ReportedControl, ReportedKeeps, NoAnswer DEF Parsing
  <1>3. CASE SleepEnds
    <2>1. pc' # "stream" /\ result'.kind = "none"
      BY <1>3, NotYet DEF SleepEnds
    <2> QED
      BY <1>3, <2>1, SleepControl, NoAnswer, NoError DEF Parsing
  <1>4. CASE Accepted
    <2>1. result'.kind = "none"
      BY <1>4, NotYet DEF Accepted
    <2> QED
      BY <1>4, <2>1, AcceptedControl, ParsingStart, NoAnswer, NoError
  <1>5. CASE StreamBreaks
    <2>1. pc' = "ended" /\ result'.kind = "error"
      BY <1>5 DEF StreamBreaks, Raise, Ended
    <2> QED
      BY <1>5, <2>1, BreaksControl, BreaksKeeps, NoAnswer DEF Parsing
  <1>6. CASE StreamEnds
    <2>1. pc' = "ended"
      BY <1>6 DEF StreamEnds, Answer, Raise, Ended
    <2> QED
      BY <1>6, <2>1, EndsControl, EndsKeeps, EndsAnswers DEF Parsing
  <1>7. CASE Cancel
    <2>1. pc' = "ended" /\ result'.kind = "cancelled"
      BY <1>7 DEF Cancel, Ended
    <2> QED
      BY <1>7, <2>1, CancelControl, NoAnswer, NoError DEF Parsing
  <1>8. ASSUME NEW retry \in BOOLEAN, ErrorStatus(retry) PROVE Inv'
    <2>1. pc' # "stream" /\ result'.kind = "none"
      BY <1>8, NotYet DEF ErrorStatus
    <2> QED
      BY <1>8, <2>1, StatusControl, NoAnswer, NoError DEF Parsing
  <1>9. ASSUME NEW usage \in {0, 1}, ErrorBody(usage) PROVE Inv'
    <2>1. pc' # "stream" /\ result'.kind = "none"
      BY <1>9, NotYet DEF ErrorBody
    <2> QED
      BY <1>9, <2>1, ErrorBodyControl, NoAnswer, NoError DEF Parsing
  <1>10. ASSUME NEW e \in Bodies, BodyArrives(e) PROVE Inv'
    <2>1. pc' = "ended"
      BY <1>10 DEF BodyArrives, Answer, Raise, Ended
    <2> QED
      BY <1>10, <2>1, BodyControl, BodyKeeps, BodyAnswers DEF Parsing
  <1>11. ASSUME NEW e \in Events, Receive(e) PROVE Inv'
    <2>1. CASE Refuses(e)
      <3>1. pc' = "ended" /\ result'.kind = "error"
        BY <2>1 DEF Refuses, Raise, Ended
      <3> QED
        BY <1>11, <3>1, ReceiveControl, ReceiveKeeps, NoAnswer DEF Parsing
    <2>2. CASE Takes(e)
      <3>1. result'.kind # "answer"
        BY <1>11, <2>2, Received, NotYet DEF Takes
      <3> QED
        BY <1>11, <2>2, <3>1, ReceiveControl, ReceiveKeeps, ParsingStep, NoAnswer
    <2> QED
      BY <1>11, <2>1, <2>2, Received
  <1>12. CASE UNCHANGED vars
    <2> USE <1>12 DEF vars
    <2>1. Typed'
      BY DEF Control, Typed, TypeOK, Lists, Bounded, Shaped, Record
    <2>2. Quiet' /\ OneSpeaks' /\ Billed' /\ HandedBack'
      BY DEF Control, Quiet, OneSpeaks, Billed, HandedBack, Counted
    <2>3. Conforms' = Conforms /\ NothingOpen' = NothingOpen
      BY DEF Conforms, NothingOpen
    <2>4. Terminated' = Terminated /\ Finishing' = Finishing
      BY DEF Terminated, Finishing, Places
    <2>5. Fed' = Fed
      BY DEF Fed, At, Places
    <2>6. Assembled(response.blocks) => Assembled(response.blocks)'
      BY DEF Assembled, At, Places
    <2>7. Parsing'
      BY <2>3, <2>4, <2>5, <2>6 DEF Parsing
    <2>8. AnswerIsWhole' = AnswerIsWhole
      BY SameStream DEF AnswerIsWhole, At, Places
    <2>9. Misplaced' = Misplaced
      BY DEF Misplaced, At, Places
    <2>10. KnownUsageSurvives' = KnownUsageSurvives
      BY <2>9 DEF KnownUsageSurvives, Bills
    <2> QED
      BY <2>1, <2>2, <2>7, <2>8, <2>10 DEF Control
  <1> QED
    BY <1>1, <1>2, <1>3, <1>4, <1>5, <1>6, <1>7, <1>8, <1>9, <1>10, <1>11, <1>12 DEF Next

-------------------------------------------------------------------------------
(* The theorems.                                                           *)

LEMMA AlwaysInv == Spec => []Inv
  BY InvInit, InvStep, PTL DEF Spec

\* The variables keep their types: the attempts are at most max_retries + 1 and
\* each one that is retried is listed once, in order.
THEOREM TypeCorrect == Spec => []TypeOK
  <1>1. Inv => TypeOK
    BY DEF Inv, Control, Typed
  <1> QED
    BY <1>1, AlwaysInv, PTL

\* The deltas of at most one attempt reach the UI, and the answer is that
\* attempt's (the comment at http.py:443).
THEOREM AlwaysOneVoice == Spec => []OneVoice
  <1>1. Inv => OneVoice
    <2> SUFFICES ASSUME Inv PROVE OneVoice
      OBVIOUS
    <2>1. shown = {} \/ shown = {attempt}
      BY DEF Inv, Control, OneSpeaks
    <2>2. Cardinality({}) = 0 /\ Cardinality({attempt}) = 1
      BY FS_EmptySet, FS_Singleton
    <2> QED
      BY <2>1, <2>2 DEF OneVoice
  <1> QED
    BY <1>1, AlwaysInv, PTL

\* What the call says it used counts each attempt once, at what the server said
\* last, and is called whole only if nothing is unknown.
THEOREM UsageAlwaysHonest == Spec => []UsageIsHonest
  <1>1. Inv => UsageIsHonest
    <2> SUFFICES ASSUME Inv, pc = "ended" PROVE UsageIsHonest
      BY DEF UsageIsHonest
    <2>1. PICK own \in 0..(MaxEvents + 1) :
            /\ result.counted = Counted(own, failures)
            /\ result.kind = "answer" => own = billed[attempt]
            /\ own # 0 => Len(failures) = attempt /\ billed[attempt] # 0
            /\ result.whole => own # 0 /\ \A n \in DOMAIN failures : failures[n].usage # 0
      BY DEF Inv, Control, HandedBack
    <2> DEFINE counted == result.counted
    <2>2. /\ failures \in Seq(Snapshots) /\ attempt \in Nat
          /\ Len(failures) \in {attempt, attempt + 1}
          /\ \A n \in DOMAIN failures : failures[n].attempt = n - 1
          /\ \A n \in DOMAIN failures : failures[n].usage = billed[n - 1]
      BY Limits DEF Inv, Control, Typed, TypeOK, Lists, Bounded, Billed
    <2>3. /\ counted[1] = [attempt |-> attempt, usage |-> own]
          /\ DOMAIN counted = 1..(Len(failures) + 1)
          /\ Len(failures) \in Nat /\ DOMAIN failures = 1..Len(failures)
          /\ \A n \in DOMAIN failures : counted[n + 1] = failures[n]
      BY <2>1, <2>2 DEF Counted
    <2> HIDE DEF counted
    <2>4. /\ attempt \in Nat /\ Len(failures) \in Nat /\ attempt <= Len(failures)
          /\ DOMAIN failures = 1..Len(failures)
          /\ DOMAIN counted = 1..(Len(failures) + 1)
      <3>1. Len(failures) = attempt \/ Len(failures) = attempt + 1
        BY <2>2
      <3>2. attempt \in Nat /\ Len(failures) \in Nat
        BY <2>2
      <3>3. attempt <= Len(failures)
        BY <3>1, <3>2
      <3> QED
        BY <2>3, <3>2, <3>3
    <2>5. \A m, n \in DOMAIN counted :
            /\ counted[m].usage # 0 /\ counted[n].usage # 0
            /\ counted[m].attempt = counted[n].attempt
            => m = n
      <3>1. \A n \in DOMAIN counted : n # 1 =>
              n - 1 \in DOMAIN failures /\ counted[n].attempt = n - 2
        <4> SUFFICES ASSUME NEW n \in DOMAIN counted, n # 1
                     PROVE  n - 1 \in DOMAIN failures /\ counted[n].attempt = n - 2
          OBVIOUS
        <4>1. n - 1 \in DOMAIN failures /\ n \in Nat
          BY <2>4
        <4>2. counted[(n - 1) + 1] = failures[n - 1] /\ failures[n - 1].attempt = (n - 1) - 1
          BY <2>2, <2>3, <4>1
        <4> QED
          BY <4>1, <4>2
      <3>2. \A n \in DOMAIN counted :
              n # 1 /\ counted[1].usage # 0 => counted[n].attempt # counted[1].attempt
        BY <2>1, <2>2, <2>3, <3>1
      <3> QED
        BY <2>3, <3>1, <3>2
    <2>6. \A a \in 0..attempt :
            a < attempt \/ result.kind = "answer" =>
              \E n \in DOMAIN counted : counted[n] = [attempt |-> a, usage |-> billed[a]]
      <3>1. ASSUME NEW a \in 0..attempt, a < attempt
            PROVE  \E n \in DOMAIN counted : counted[n] = [attempt |-> a, usage |-> billed[a]]
        <4>1. a + 1 \in DOMAIN failures /\ a + 2 \in DOMAIN counted /\ a \in Nat
          BY <2>4, <3>1
        <4>2. failures[a + 1] \in Snapshots /\ failures[a + 1].attempt = a
              /\ failures[a + 1].usage = billed[a]
          BY <2>2, <3>1, <4>1
        <4>3. counted[(a + 1) + 1] = failures[a + 1]
          BY <2>3, <4>1
        <4>4. failures[a + 1] = [attempt |-> a, usage |-> billed[a]]
          BY <4>2 DEF Snapshots
        <4> QED
          BY <4>1, <4>3, <4>4
      <3>2. ASSUME result.kind = "answer"
            PROVE  1 \in DOMAIN counted
                   /\ counted[1] = [attempt |-> attempt, usage |-> billed[attempt]]
        BY <2>1, <2>3, <3>2
      <3>3. \A a \in 0..attempt : a < attempt \/ a = attempt
        BY <2>2
      <3> QED
        BY <3>1, <3>2, <3>3
    <2>7. result.whole => \A a \in 0..attempt : billed[a] # 0
      <3>1. ASSUME result.whole, NEW a \in 0..attempt, a < attempt
            PROVE  billed[a] # 0
        <4>1. a + 1 \in DOMAIN failures /\ a \in Nat
          BY <2>4, <3>1
        <4>2. failures[a + 1].usage # 0 /\ failures[a + 1].usage = billed[(a + 1) - 1]
          BY <2>1, <2>2, <3>1, <4>1
        <4> QED
          BY <4>1, <4>2
      <3>2. result.whole => billed[attempt] # 0
        BY <2>1
      <3> QED
        BY <2>2, <3>1, <3>2
    <2> QED
      BY <2>5, <2>6, <2>7, Zenon DEF UsageIsHonest, counted
  <1> QED
    BY <1>1, AlwaysInv, PTL

\* A stream becomes an answer only if it was whole and in protocol order, and
\* the answer has all that was sent, in the order sent (http.py:1).
THEOREM AnswersAlwaysWhole == Spec => []AnswerIsWhole
  <1>1. Inv => AnswerIsWhole
    BY DEF Inv
  <1> QED
    BY <1>1, AlwaysInv, PTL

\* However a call fails, what the server last said of its last attempt's usage is
\* handed back, unless an event came out of place or was a failure that had the usage.
THEOREM KnownUsageAlwaysSurvives == Spec => []KnownUsageSurvives
  <1>1. Inv => KnownUsageSurvives
    BY DEF Inv
  <1> QED
    BY <1>1, AlwaysInv, PTL

===============================================================================
