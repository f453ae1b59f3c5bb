---------------------------- MODULE HTTPProvider ----------------------------
(***************************************************************************)
(* One call of HTTPProvider.complete() (providers/http.py): the attempt    *)
(* loop with its retries, the error bodies, the streaming parser of the    *)
(* three wire protocols and the usage that is handed back.                 *)
(*                                                                         *)
(* What a piece of the answer says is left out: a chunk is known by the    *)
(* place of its event in the stream.  Usage is known by the event that     *)
(* carried it, 0 being "the server has not said".                          *)
(***************************************************************************)
EXTENDS Naturals, Sequences, FiniteSets

CONSTANTS
    Protocols,      \* the wire protocols to choose from
    Modes,          \* whether the answer is streamed: a subset of BOOLEAN
    MaxRetries,     \* config.max_retries
    Indices,        \* indices of content blocks and tool calls in a stream
    CallIds,        \* identifiers of tool calls
    MaxEvents,      \* bound: events of one stream
    May             \* "cancel": the task that awaits complete() is cancelled

ASSUME ProviderAssumption ==
    /\ Protocols \subseteq {"openai_chat", "openai_responses", "anthropic_messages"}
    /\ Modes \subseteq BOOLEAN
    /\ MaxRetries \in Nat
    /\ MaxEvents \in Nat
    /\ 0 \notin Indices
    /\ "text" \notin CallIds /\ "none" \notin CallIds

VARIABLES
    protocol, stream,
    pc,             \* what complete() awaits
    attempt,        \* the attempt it is in, from 0
    failure,        \* the failed attempt being reported
    failures,       \* the failed attempts that were retried
    response,       \* what the parser has put together from the stream
    history,        \* the events of this attempt's stream, as received
    billed,         \* attempt -> the last event that carried its usage
    shown,          \* the attempts whose events reached on_delta
    result          \* how the call ended

vars == <<protocol, stream, pc, attempt, failure, failures, response,
          history, billed, shown, result>>

-----------------------------------------------------------------------------
(* Events, and what the parser holds.  A field that an event does not have *)
(* is "none", or index 0.                                                  *)

Sent(kinds, indices, ids, finishes) ==
    [kind : kinds, index : indices, id : ids, finish : finishes]

Finishes == {"stop", "length"}

\* A response object: no content, a text, or one tool call.
Bodies ==
    Sent({"response"}, {0}, {"none", "text"}, Finishes)
    \cup Sent({"response"}, Indices, CallIds \cup {"none"}, Finishes)

Anytime == Sent({"done", "failed", "junk", "progress"}, {0}, {"none"}, {"none"})

ChatEvents ==
    Sent({"text"}, {0}, {"text"}, {"none"})
    \cup Sent({"call"}, Indices, CallIds \cup {"none"}, {"none"})
    \cup Sent({"usage"}, {0}, {"none"}, {"none"})
    \cup Sent({"finish"}, {0}, {"none"}, Finishes)

MessageEvents ==
    Sent({"start", "stop"}, {0}, {"none"}, {"none"})
    \cup Sent({"block"}, Indices, CallIds \cup {"text"}, {"none"})
    \cup Sent({"delta", "close"}, Indices, {"none"}, {"none"})
    \cup Sent({"finish"}, {0}, {"none"}, Finishes)

Events ==
    Anytime \cup CASE protocol = "openai_chat" -> ChatEvents
                   [] protocol = "anthropic_messages" -> MessageEvents
                   [] OTHER -> Bodies

\* The events that carry a usage snapshot.  A failed Responses stream ends
\* with response.failed or response.incomplete, whose response has one.
Bills(e) ==
    \/ e.kind \in {"usage", "start", "response"}
    \/ e.kind = "finish" /\ protocol = "anthropic_messages"
    \/ e.kind = "failed" /\ protocol = "openai_responses"

Nothing == [blocks |-> <<>>, open |-> {}, finish |-> "none", usage |-> 0, terminal |-> FALSE]

\* setdefault() and the concatenation of pieces.
With(blocks, index, chunk) ==
    [i \in DOMAIN blocks \cup {index} |->
        IF i # index THEN blocks[i]
        ELSE IF i \in DOMAIN blocks THEN Append(blocks[i], chunk) ELSE <<chunk>>]

\* body: the chunk adds to the text or to the arguments.
Chunk(at, e) == [at |-> at, id |-> e.id, body |-> e.kind # "block"]

-----------------------------------------------------------------------------
(* _parse and _checked on what was put together. *)

IsCall(block) == Head(block).id # "text"

CallId(block) == SelectSeq([n \in DOMAIN block |-> block[n].id], LAMBDA d : d # "none")

Says(blocks) ==
    \E i \in DOMAIN blocks : IsCall(blocks[i]) \/ \E n \in DOMAIN blocks[i] : blocks[i][n].body

WellFormed(blocks) ==
    LET calls == {i \in DOMAIN blocks : IsCall(blocks[i])}
    IN  \A i \in calls :
            /\ CallId(blocks[i]) # <<>>
            /\ \A j \in calls : CallId(blocks[i]) = CallId(blocks[j]) => i = j

Checked(r) == r.finish = "stop" /\ WellFormed(r.blocks) /\ Says(r.blocks)

-----------------------------------------------------------------------------
(* The ways out of complete(). *)

NoFailure == [usage |-> 0, retry |-> FALSE]

NoResult == [kind |-> "none", blocks |-> <<>>, counted |-> <<>>, whole |-> FALSE]

\* _attempt_usage: what is known is added up; 0, what is not, is marked unknown.
Counted(own, failed) == <<[attempt |-> attempt, usage |-> own]>> \o failed

Ended(kind, blocks, own, failed) ==
    /\ pc' = "ended"
    /\ result' = [kind |-> kind, blocks |-> blocks,
                  counted |-> Counted(own, failed),
                  whole |-> own # 0 /\ \A n \in DOMAIN failed : failed[n].usage # 0]

Raise(usage) ==
    /\ Ended("error", <<>>, usage, failures)
    /\ UNCHANGED <<protocol, stream, attempt, failure, failures, response, shown>>

Answer(r) ==
    IF Checked(r)
    THEN /\ Ended("answer", r.blocks, r.usage, failures)
         /\ UNCHANGED <<protocol, stream, attempt, failure, failures, response, shown>>
    ELSE Raise(r.usage)

-----------------------------------------------------------------------------
(* The attempt: send, read an error body, report it, back off. *)

\* httpx gives up: no connection, a read timeout, a body that breaks off.
TransportFails ==
    /\ pc \in {"send", "errorbody", "body"}
    /\ Raise(0)
    /\ UNCHANGED <<history, billed>>

\* A status of 400 or more; retry: one of those that may be tried again.
ErrorStatus(retry) ==
    /\ pc = "send"
    /\ failure' = [usage |-> 0, retry |-> retry]
    /\ pc' = "errorbody"
    /\ UNCHANGED <<protocol, stream, attempt, failures, response, history,
                   billed, shown, result>>

ErrorBody(usage) ==
    /\ pc = "errorbody"
    /\ failure' = [failure EXCEPT !.usage = usage]
    /\ billed' = [billed EXCEPT ![attempt] = usage]
    /\ pc' = "report"
    /\ UNCHANGED <<protocol, stream, attempt, failures, response, history,
                   shown, result>>

\* on_delta has returned.
Reported ==
    /\ pc = "report"
    /\ IF failure.retry /\ attempt < MaxRetries
       THEN /\ failures' = Append(failures, [attempt |-> attempt, usage |-> failure.usage])
            /\ pc' = "backoff"
            /\ UNCHANGED <<protocol, stream, attempt, failure, response, shown, result>>
       ELSE Raise(failure.usage)
    /\ UNCHANGED <<history, billed>>

SleepEnds ==
    /\ pc = "backoff"
    /\ attempt' = attempt + 1
    /\ failure' = NoFailure
    /\ pc' = "send"
    /\ UNCHANGED <<protocol, stream, failures, response, history, billed,
                   shown, result>>

Accepted ==
    /\ pc = "send"
    /\ pc' = IF stream THEN "stream" ELSE "body"
    /\ UNCHANGED <<protocol, stream, attempt, failure, failures, response,
                   history, billed, shown, result>>

-----------------------------------------------------------------------------
(* The answer in one piece, and as a stream of events. *)

Body(e) ==
    LET at == Len(history) + 1
    IN  [blocks |-> IF e.id = "none" /\ e.index = 0 THEN <<>>
                    ELSE With(<<>>, e.index, Chunk(at, e)),
         open |-> {}, finish |-> e.finish, usage |-> at, terminal |-> TRUE]

BodyArrives(e) ==
    /\ pc = "body"
    /\ e \in Bodies
    /\ history' = <<e>>
    /\ billed' = [billed EXCEPT ![attempt] = 1]
    /\ Answer(Body(e))

\* Faulty: a block may be fed after it was closed.
Reopened(e) ==
    \/ e.kind = "done" /\ protocol # "openai_chat"
    \/ e.kind # "done" /\ response.terminal
    \/ e.kind = "block" /\ e.index \in DOMAIN response.blocks
    \/ e.kind \in {"delta", "close"} /\ e.index \notin DOMAIN response.blocks
    \/ e.kind = "stop" /\ response.open # {}

\* Raised without the usage known so far.
OutOfOrder(e) ==
    \/ e.kind = "done" /\ protocol # "openai_chat"
    \/ e.kind # "done" /\ response.terminal
    \/ e.kind = "block" /\ e.index \in DOMAIN response.blocks
    \/ e.kind \in {"delta", "close"} /\ e.index \notin response.open
    \/ e.kind = "stop" /\ response.open # {}

\* handle() on an event it accepts; at is the event's place in the stream.
Handled(e, at) ==
    CASE e.kind = "done"  -> [response EXCEPT !.terminal = TRUE]
      [] e.kind = "stop"  -> [response EXCEPT !.terminal = TRUE]
      [] e.kind = "usage" -> [response EXCEPT !.usage = at]
      [] e.kind = "start" -> [response EXCEPT !.usage = at, !.finish = "none"]
      [] e.kind = "finish" ->
            [response EXCEPT !.finish = e.finish,
                             !.usage = IF Bills(e) THEN at ELSE @]
      [] e.kind \in {"text", "call", "delta"} ->
            [response EXCEPT !.blocks = With(@, e.index, Chunk(at, e))]
      [] e.kind = "block" ->
            [response EXCEPT !.blocks = With(@, e.index, Chunk(at, e)),
                             !.open = @ \cup {e.index}]
      [] e.kind = "close" -> [response EXCEPT !.open = @ \ {e.index}]
      [] e.kind = "response" -> Body(e)
      [] OTHER -> response

\* One event: parsed, taken into the response, passed to on_delta (which may
\* be cut short like any await; nothing is left to do after it).
Receive(e) ==
    LET at == Len(history) + 1
    IN  /\ pc = "stream"
        /\ at <= MaxEvents
        /\ history' = Append(history, e)
        /\ billed' = IF Bills(e) THEN [billed EXCEPT ![attempt] = at] ELSE billed
        /\ IF e.kind \in {"junk", "failed"} THEN Raise(response.usage)
           ELSE IF OutOfOrder(e) THEN Raise(0)
           ELSE /\ response' = Handled(e, at)
                /\ shown' = IF e.kind = "done" THEN shown ELSE shown \cup {attempt}
                /\ UNCHANGED <<protocol, stream, pc, attempt, failure, failures, result>>

\* Faulty: a stream that breaks off is asked for again.
BreakAndRetry ==
    /\ pc = "stream"
    /\ UNCHANGED <<protocol, stream, failure, billed, shown>>
    /\ IF attempt < MaxRetries
       THEN /\ attempt' = attempt + 1
            /\ pc' = "send"
            /\ failures' = Append(failures, [attempt |-> attempt, usage |-> response.usage])
            /\ response' = Nothing
            /\ history' = <<>>
            /\ UNCHANGED result
       ELSE /\ Ended("error", <<>>, response.usage, failures)
            /\ UNCHANGED <<attempt, failures, response, history>>

\* Faulty: the usage of a stream that has broken off is taken for unknown.
BreakUnbilled ==
    /\ pc = "stream"
    /\ Raise(0)
    /\ UNCHANGED <<history, billed>>

StreamBreaks ==
    /\ pc = "stream"
    /\ Raise(response.usage)
    /\ UNCHANGED <<history, billed>>

StreamEnds ==
    /\ pc = "stream"
    /\ IF response.terminal THEN Answer(response) ELSE Raise(response.usage)
    /\ UNCHANGED <<history, billed>>

\* Faulty: the retried attempts are left off the exception.
CancelBare ==
    /\ "cancel" \in May
    /\ pc # "ended"
    /\ Ended("cancelled", <<>>, 0, <<>>)
    /\ UNCHANGED <<protocol, stream, attempt, failure, failures, response,
                   history, billed, shown>>

\* CancelledError at whatever complete() awaits.
Cancel ==
    /\ "cancel" \in May
    /\ pc # "ended"
    /\ Ended("cancelled", <<>>, 0, failures)
    /\ UNCHANGED <<protocol, stream, attempt, failure, failures, response,
                   history, billed, shown>>

-----------------------------------------------------------------------------
Init ==
    /\ protocol \in Protocols
    /\ stream \in Modes
    /\ pc = "send"
    /\ attempt = 0
    /\ failure = NoFailure
    /\ failures = <<>>
    /\ response = Nothing
    /\ history = <<>>
    /\ billed = [a \in 0..MaxRetries |-> 0]
    /\ shown = {}
    /\ result = NoResult

Next ==
    \/ TransportFails \/ Reported \/ SleepEnds \/ Accepted
    \/ StreamBreaks \/ StreamEnds \/ Cancel
    \/ \E retry \in BOOLEAN : ErrorStatus(retry)
    \/ \E usage \in {0, 1} : ErrorBody(usage)
    \/ \E e \in Bodies : BodyArrives(e)
    \/ \E e \in Events : Receive(e)

Spec == Init /\ [][Next]_vars

-----------------------------------------------------------------------------
(* The stream, as a reader of the protocol would judge it. *)

Places(kinds) == {n \in DOMAIN history : history[n].kind \in kinds}

At(kinds, i) == {n \in Places(kinds) : history[n].index = i}

\* A block is opened once, fed while it is open, and closed once.
Bracketed(i) ==
    \/ At({"block", "delta", "close"}, i) = {}
    \/ \E m, n \in DOMAIN history :
           /\ At({"block"}, i) = {m}
           /\ At({"close"}, i) = {n}
           /\ m < n
           /\ \A k \in At({"delta"}, i) : m < k /\ k < n

Complete ==
    LET last == Len(history)
    IN  /\ Places({"junk", "failed"}) = {}
        /\ ~stream \/ protocol = "openai_responses" =>
               Places({"response"}) = {last}
        /\ stream /\ protocol = "openai_chat" =>
               \E n \in DOMAIN history : Places({"done"}) = n..last
        /\ stream /\ protocol = "anthropic_messages" =>
               /\ Places({"stop"}) = {last}
               /\ \A i \in Indices : Bracketed(i)

\* The stop reason that holds is the last one since the message began.
Stopped ==
    LET said == Places({"finish", "response", "start"})
    IN  \E n \in said : history[n].finish = "stop" /\ \A k \in said : k <= n

Pieces == {"text", "call", "block", "delta", "response"}

\* The last event came where the protocol has no place for it.
Misplaced ==
    LET last == Len(history)
        e == history[last]
        before(kinds, i) == At(kinds, i) \ {last}
    IN  /\ last # 0
        /\ \/ e.kind = "done" /\ protocol # "openai_chat"
           \/ e.kind # "done" /\ Places({"done", "stop", "response"}) \ {last} # {}
           \/ e.kind = "block" /\ before({"block"}, e.index) # {}
           \/ /\ e.kind \in {"delta", "close"}
              /\ before({"block"}, e.index) = {} \/ before({"close"}, e.index) # {}
           \/ /\ e.kind = "stop"
              /\ \E i \in Indices : At({"block"}, i) # {} /\ At({"close"}, i) = {}

-----------------------------------------------------------------------------
(* Properties. *)

Snapshots == [attempt : 0..MaxRetries, usage : 0..(MaxEvents + 1)]

\* Every variable keeps its type; in particular no attempt is made beyond
\* max_retries, and each retried attempt is listed once, in order.
TypeOK ==
    /\ protocol \in Protocols /\ stream \in Modes
    /\ pc \in {"send", "errorbody", "report", "backoff", "body", "stream", "ended"}
    /\ attempt \in 0..MaxRetries
    /\ failure \in [usage : 0..1, retry : BOOLEAN]
    /\ \A n \in DOMAIN failures : failures[n] \in Snapshots /\ failures[n].attempt = n - 1
    /\ Len(failures) = IF pc = "backoff" THEN attempt + 1
                       ELSE IF pc # "ended" THEN attempt ELSE Len(failures)
    /\ billed \in [0..MaxRetries -> 0..(MaxEvents + 1)]
    /\ shown \subseteq 0..MaxRetries
    /\ result.kind \in {"none", "answer", "error", "cancelled"}
    /\ (result.kind = "none") = (pc # "ended")

\* Terminal-only completions (providers/http.py:1): a stream becomes an
\* answer only if it was whole and ended in protocol order with an accepted
\* stop reason, and the answer has every piece the server sent for a block, in
\* the order sent, nothing lost, doubled or put into another block.
AnswerIsWhole ==
    result.kind = "answer" =>
        /\ Complete
        /\ Stopped
        /\ \A i \in DOMAIN result.blocks :
               LET block == result.blocks[i]
               IN  /\ {block[n].at : n \in DOMAIN block} = At(Pieces, i)
                   /\ \A m, n \in DOMAIN block : m < n => block[m].at < block[n].at
        /\ \A n \in Places(Pieces) :
               \/ history[n].index \in DOMAIN result.blocks
               \/ history[n].kind = "response" /\ history[n].id = "none"

\* Attempts are never concatenated (the comment at http.py:443): the deltas of
\* at most one attempt reach the UI, and the answer is that attempt's.
OneVoice ==
    /\ Cardinality(shown) <= 1
    /\ result.kind # "none" => shown \subseteq {attempt}

\* The usage handed back counts an attempt at most once, a retried or answering
\* one at its last snapshot and not at the sum of several, is called whole only
\* if every attempt's usage is known, and has all that is known of the attempts
\* that were retried, also when the call was cancelled or failed afterwards.
UsageIsHonest ==
    pc = "ended" =>
        /\ \A m, n \in DOMAIN result.counted :
               /\ result.counted[m].usage # 0 /\ result.counted[n].usage # 0
               /\ result.counted[m].attempt = result.counted[n].attempt
               => m = n
        /\ \A a \in 0..attempt :
               a < attempt \/ result.kind = "answer" =>
                   \E n \in DOMAIN result.counted :
                       result.counted[n] = [attempt |-> a, usage |-> billed[a]]
        /\ result.whole => \A a \in 0..attempt : billed[a] # 0

\* A call that fails hands back what the server last said of its last attempt's
\* usage, wherever in the body or the stream it fails.  Only two things lose it: an
\* event out of place (http.py:544-619) and the usage of the failure event itself
\* (http.py:549).
KnownUsageSurvives ==
    result.kind = "error" /\ billed[attempt] # 0 =>
        \/ \E n \in DOMAIN result.counted :
               result.counted[n] = [attempt |-> attempt, usage |-> billed[attempt]]
        \/ Misplaced
        \/ history # <<>> /\ history[Len(history)].kind = "failed" /\ Bills(history[Len(history)])

\* What is known of the usage of failed attempts is counted, and an exception
\* carries the usage known (README.md:134, docs/AI_DEVELOPMENT.md:32).
KnownUsageKept ==
    pc = "ended" =>
        \A a \in 0..attempt : billed[a] # 0 =>
            \E n \in DOMAIN result.counted :
                result.counted[n].attempt = a /\ result.counted[n].usage # 0

=============================================================================
