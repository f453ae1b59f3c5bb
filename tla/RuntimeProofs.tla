----------------------------- MODULE RuntimeProofs -----------------------------
(***************************************************************************)
(* For every number of inputs, every script of the model and every bound:  *)
(* the places where the reducer keeps a request agree, and the runtime     *)
(* implements the request ledger, provided that the callback for           *)
(* diagnostics does not raise ("diagnostic" \notin May).                   *)
(***************************************************************************)
EXTENDS RuntimeProperties, SequenceTheorems, WellFoundedInduction, TLAPS

-------------------------------------------------------------------------------
(* The inductive invariant.                                                *)

\* Where a turn's worker can be; a compaction is part of a turn unless _drain
\* itself called it.
TurnPCs ==
  {"preTurn", "preUser", "postUser", "boundary", "arrivals", "budget", "fit", "preStep",
   "model", "postAssistant", "batch", "preAction", "tool", "postAction", "postStep",
   "unwind", "closeBatch"}
CompactPCs == {"compact", "preCompact", "summary", "postCompact"}

InTurn(v) ==
  \/ v.pc \in TurnPCs
  \/ v.pc \in CompactPCs /\ v.site # "top"

\* What RequestsConsistent says, of any state.
Consistent(s) ==
  /\ \A r \in Requests : s.queue[r].seq # 0 <=> s.requests[r] = "queued"
  /\ s.turnRequests = {r \in Requests : s.requests[r] = "accepted"}
  /\ s.currentTurn = 0 => s.turnRequests = {}

\* The work list names entries that are still in the queue.
StillQueued(s, items) ==
  \A x \in items : x.kind = "input" =>
    x.id \in Queue(s) /\ x.seq = s.queue[x.id].seq

\* The input a worker is about to accept or to compact is still in the queue, and
\* so are those it has yet to come to.
AtOwnEntry(v) ==
  \/ v.pc = "preTurn"
  \/ v.pc = "preUser" /\ v.site = "turn"
  \/ v.pc \in CompactPCs /\ v.site = "top"
AtArrival(v) == v.pc \in {"preUser"} \cup CompactPCs /\ v.site \in {"head", "tail"}

WorkIsQueued(s, v) ==
  /\ AtOwnEntry(v) => v.entry \in Queue(s)
  /\ AtArrival(v) => v.arrivals # {} /\ First(v.arrivals).kind = "input"
  /\ v.pc = "arrivals" \/ AtArrival(v) => StillQueued(s, v.arrivals)
  /\ v.pc = "postUser" /\ v.site \in {"head", "tail"} =>
       v.arrivals # {} /\ StillQueued(s, v.arrivals \ {First(v.arrivals)})

SitesFit(v) ==
  /\ v.pc = "preTurn" => v.site = "turn"
  /\ v.pc \in {"preUser", "postUser"} => v.site \in {"turn", "head", "tail"}
  /\ v.pc \in {"boundary", "arrivals"} => v.site \in {"head", "tail"}
  /\ v.pc \in CompactPCs => v.site \in {"head", "tail", "budget", "top"}

\* The turn's own entry is queued, in the turn, or refused as the turn ends.
EntryAccountedFor(s, v) ==
  /\ v.entry \in Requests
  /\ \/ v.entry \in Queue(s) /\ (AtOwnEntry(v) \/ v.pc \in {"unwind", "closeBatch"})
     \/ v.entry \in s.turnRequests
     \/ v.pc = "closeBatch" /\ s.requests[v.entry] = v.status

Located(s, v) ==
  /\ SitesFit(v)
  /\ WorkIsQueued(s, v)
  /\ InTurn(v) <=> s.currentTurn # 0
  /\ v.timer # "off" => InTurn(v)
  /\ InTurn(v) => EntryAccountedFor(s, v)
  /\ InTurn(v) /\ ~v.entered =>
       v.pc \in {"preTurn", "unwind", "closeBatch"} /\ s.turnRequests = {}

\* Start() has no worker but itself, at one place.
Recoverer == [NoWorker EXCEPT !.pc = "closeBatch"]

\* A poisoned worker's place means nothing: it takes no step that records.
WorkerLocated ==
  /\ life = "down" => ~poisoned
  /\ life = "down" => w = NoWorker
  /\ life = "recovering" /\ ~poisoned => w = Recoverer
  /\ life \in {"open", "closing"} /\ ~poisoned => Located(state, w)

TicketsHonest ==
  /\ \A r \in Requests : tickets[r] \in Outcomes => state.requests[r] = tickets[r]
  /\ w.pc = "postTurn" => \A r \in w.owed : state.requests[r] = w.status

IInv == Consistent(state) /\ WorkerLocated /\ TicketsHonest

\* The part of the type invariant that the above needs.
Fields == {"clock", "queue", "requests", "messages", "actions", "jobs", "notifications",
           "currentTurn", "turnRequests", "turns", "replayable"}

Typed(s) ==
  /\ DOMAIN s = Fields
  /\ s.clock \in Nat
  /\ s.queue \in [Requests -> Entry]
  /\ s.requests \in [Requests -> Statuses]
  /\ s.notifications \in Seq(Nat)
  /\ s.currentTurn \in Nat
  /\ s.turnRequests \subseteq Requests
  /\ s.turns \in Nat

AllTyped ==
  /\ Typed(state)
  /\ life \in {"down", "recovering", "open", "closing"}
  /\ poisoned \in BOOLEAN
  /\ w \in Workers
  /\ tickets \in [Requests -> TicketStates]

Inv == AllTyped /\ IInv

LedgerStep == [Ledger!Next]_(Ledger!ledger)

-------------------------------------------------------------------------------
(* Least elements.                                                         *)

\* A set of natural numbers that is not empty has a least element.
LEMMA LeastNumber ==
  ASSUME NEW S, S \subseteq Nat, S # {}
  PROVE  \E n \in S : \A m \in S : n <= m
<1> DEFINE R == {ss \in Nat \X Nat : ss[1] < ss[2]}
<1>1. IsWellFoundedOn(R, Nat)
  BY ONLY NatLessThanWellFounded, Zenon DEF OpToRel
<1> HIDE DEF R
<1>2. PICK n \in S : \A m \in S : <<m, n>> \notin R
  BY <1>1, WFMin
<1>3. \A m \in S : ~ (m < n)
  BY <1>2 DEF R
<1> QED
  BY <1>3

\* The first item of a work list that is not empty is one of its items.
LEMMA FirstIsIn ==
  ASSUME NEW items, items \subseteq Item, items # {}
  PROVE  First(items) \in items
<1> DEFINE S == {x.seq : x \in items}
<1>1. S \subseteq Nat /\ S # {}
  BY DEF Item
<1>2. PICK n \in S : \A m \in S : n <= m
  BY <1>1, LeastNumber
<1>3. PICK x \in items : x.seq = n
  OBVIOUS
<1>4. \A y \in items : x.seq <= y.seq
  BY <1>2, <1>3
<1> QED
  BY <1>4 DEF First

\* The head of a queue that is not empty is in it.
LEMMA HeadIsIn ==
  ASSUME Typed(state), Queue(state) # {}
  PROVE  QueueHead \in Queue(state)
<1> DEFINE S == {state.queue[r].seq : r \in Queue(state)}
<1>1. S \subseteq Nat /\ S # {}
  BY DEF Typed, Entry, Queue
<1>2. PICK n \in S : \A m \in S : n <= m
  BY <1>1, LeastNumber
<1>3. PICK x \in Queue(state) : state.queue[x].seq = n
  OBVIOUS
<1>4. \A y \in Queue(state) : state.queue[x].seq <= state.queue[y].seq
  BY <1>2, <1>3
<1> QED
  BY <1>4 DEF QueueHead

-------------------------------------------------------------------------------
(* What the events do to requests.                                         *)

\* Two states that do not differ in anything about requests.
SameRequests(s, t) ==
  /\ t.queue = s.queue /\ t.requests = s.requests
  /\ t.turnRequests = s.turnRequests /\ t.currentTurn = s.currentTurn

\* A step that leaves the requests alone keeps what the invariant says of them.
LEMMA SameRequestsKeep ==
  ASSUME NEW s, NEW t, SameRequests(s, t)
  PROVE  /\ Consistent(s) => Consistent(t)
         /\ \A v : Located(s, v) => Located(t, v)
  BY DEF SameRequests, Consistent, Located, SitesFit, WorkIsQueued, StillQueued,
         EntryAccountedFor, Queue

\* Replacing an element of a sequence gives a sequence.
LEMMA ExceptIsSeq ==
  ASSUME NEW S, NEW s \in Seq(S), NEW i, NEW x \in S
  PROVE  [s EXCEPT ![i] = x] \in Seq(S)
<1> DEFINE e == [s EXCEPT ![i] = x]
<1>1. CASE i \in 1 .. Len(s)
  <2> HIDE DEF e
  <2>1. e = [s EXCEPT ![i] = x]
    BY DEF e
  <2> QED
    BY <1>1, <2>1, ExceptSeq, Zenon
<1>2. CASE i \notin 1 .. Len(s)
  <2>1. s = [k \in 1 .. Len(s) |-> s[k]]
    BY LenProperties
  <2>2. [s EXCEPT ![i] = x] = s
    BY <1>2, <2>1
  <2> QED
    BY <2>2
<1> QED
  BY <1>1, <1>2

\* Events about messages and actions.
LEMMA MessageEvents ==
  ASSUME NEW s, Typed(s), NEW a, NEW b, NEW c
  PROVE  /\ Typed(AssistantCommitted(s, a)) /\ SameRequests(s, AssistantCommitted(s, a))
         /\ Typed(ActionStarted(s, a)) /\ SameRequests(s, ActionStarted(s, a))
         /\ Typed(ActionCompleted(s, a, b, c)) /\ SameRequests(s, ActionCompleted(s, a, b, c))
         /\ Typed(ToolsCommitted(s, a, b)) /\ SameRequests(s, ToolsCommitted(s, a, b))
         /\ Typed(CompactCommitted(s, a)) /\ SameRequests(s, CompactCommitted(s, a))
  BY DEF Typed, Fields, SameRequests, AssistantCommitted, ActionStarted, ActionCompleted,
         ToolsCommitted, CompactCommitted

\* Events about jobs and their notifications.
LEMMA JobEvents ==
  ASSUME NEW s, Typed(s), NEW a, NEW b
  PROVE  /\ Typed(JobAccepted(s, a, b)) /\ SameRequests(s, JobAccepted(s, a, b))
         /\ Typed(JobCompleted(s, a, b)) /\ SameRequests(s, JobCompleted(s, a, b))
         /\ Typed(NotificationAccepted(s, a)) /\ SameRequests(s, NotificationAccepted(s, a))
<1>1. Typed(JobAccepted(s, a, b)) /\ SameRequests(s, JobAccepted(s, a, b))
  BY DEF Typed, Fields, SameRequests, JobAccepted, ActionCompleted
<1>2. Typed(JobCompleted(s, a, b)) /\ SameRequests(s, JobCompleted(s, a, b))
  <2>0. s.notifications \in Seq(Nat) /\ s.clock + 1 \in Nat
    BY DEF Typed
  <2>1. [s.notifications EXCEPT ![a] = s.clock + 1] \in Seq(Nat)
    BY <2>0, ExceptIsSeq, Zenon
  <2> QED
    BY <2>1 DEF Typed, Fields, SameRequests, JobCompleted
<1>3. Typed(NotificationAccepted(s, a)) /\ SameRequests(s, NotificationAccepted(s, a))
  <2>0. s.notifications \in Seq(Nat) /\ 0 \in Nat
    BY DEF Typed
  <2>1. [s.notifications EXCEPT ![a] = 0] \in Seq(Nat)
    BY <2>0, ExceptIsSeq, Zenon
  <2> QED
    BY <2>1 DEF Typed, Fields, SameRequests, NotificationAccepted
<1> QED
  BY <1>1, <1>2, <1>3

\* A new input is queued.
LEMMA InputEnqueuedIs ==
  ASSUME NEW s, NEW r, NEW target, NEW t, Typed(s), Consistent(s),
         r \in Requests, s.requests[r] = "absent", target \in Nat,
         t = InputEnqueued(s, r, target)
  PROVE  /\ Typed(t) /\ Consistent(t)
         /\ t.requests = [s.requests EXCEPT ![r] = "queued"]
         /\ t.queue = [s.queue EXCEPT ![r] = [seq |-> s.clock + 1, target |-> target]]
         /\ t.turnRequests = s.turnRequests /\ t.currentTurn = s.currentTurn
  BY DEF Typed, Fields, Consistent, InputEnqueued, Entry, Statuses

\* A queued input enters the running turn.
LEMMA UserAcceptedIs ==
  ASSUME NEW s, NEW r, NEW t, Typed(s), Consistent(s), s.currentTurn # 0, r \in Queue(s),
         t = UserAccepted(s, r)
  PROVE  /\ Typed(t) /\ Consistent(t)
         /\ t.requests = [s.requests EXCEPT ![r] = "accepted"]
         /\ t.queue = [s.queue EXCEPT ![r] = NotThere]
         /\ t.turnRequests = s.turnRequests \cup {r}
         /\ t.currentTurn = s.currentTurn
  BY DEF Typed, Fields, Consistent, UserAccepted, Queue, Entry, NotThere, Statuses

\* A queued input gets its outcome.
LEMMA InputFinishedIs ==
  ASSUME NEW s, NEW r, NEW outcome, NEW t, Typed(s), Consistent(s),
         r \in Queue(s), outcome \in Outcomes, t = InputFinished(s, r, outcome)
  PROVE  /\ Typed(t) /\ Consistent(t)
         /\ t.requests = [s.requests EXCEPT ![r] = outcome]
         /\ t.queue = [s.queue EXCEPT ![r] = NotThere]
         /\ t.turnRequests = s.turnRequests /\ t.currentTurn = s.currentTurn
  BY DEF Typed, Fields, Consistent, InputFinished, Queue, Entry, NotThere, Statuses, Outcomes

\* A turn starts when none is running.
LEMMA TurnStartedIs ==
  ASSUME NEW s, NEW t, Typed(s), Consistent(s), s.currentTurn = 0, t = TurnStarted(s)
  PROVE  /\ Typed(t) /\ Consistent(t)
         /\ t.requests = s.requests /\ t.queue = s.queue
         /\ t.turnRequests = {} /\ t.currentTurn # 0
  BY DEF Typed, Fields, Consistent, TurnStarted

\* A turn ends: what it accepted gets its outcome.
LEMMA TurnEndedIs ==
  ASSUME NEW s, NEW outcome, NEW t, Typed(s), Consistent(s), outcome \in Outcomes,
         t = TurnEnded(s, outcome)
  PROVE  /\ Typed(t) /\ Consistent(t)
         /\ t.requests = [r \in Requests |-> IF s.requests[r] = "accepted"
                                               THEN outcome ELSE s.requests[r]]
         /\ t.queue = s.queue
         /\ t.turnRequests = {} /\ t.currentTurn = 0
  BY DEF Typed, Fields, Consistent, TurnEnded, Outcomes, Statuses

-------------------------------------------------------------------------------
(* Steps in general.                                                       *)

\* A step in which no request moves and no ticket is answered is no step of the
\* ledger.
LEMMA Stutter ==
  ASSUME state'.requests = state.requests,
         \A r \in Requests :
           \/ tickets'[r] = tickets[r]
           \/ tickets'[r] \notin Outcomes /\ tickets[r] \notin Outcomes
  PROVE  LedgerStep
  BY DEF LedgerStep, Ledger!ledger

\* Breaking the pending tickets answers none.
LEMMA BrokenAnswersNone ==
  ASSUME tickets \in [Requests -> TicketStates]
  PROVE  /\ Broken \in [Requests -> TicketStates]
         /\ \A r \in Requests :
              \/ Broken[r] = tickets[r]
              \/ Broken[r] \notin Outcomes /\ tickets[r] \notin Outcomes
  BY DEF Broken, TicketStates, Outcomes

\* No worker, and start() as a worker, have the worker's type.
LEMMA NoWorkerIsWorker == NoWorker \in Workers /\ Recoverer \in Workers
  BY DEF NoWorker, Recoverer, Workers, PCs, Awaits, Active, Sites, Outcomes

\* A record that fails, of an event that keeps the recorded outcomes.
LEMMA FailedRecord ==
  ASSUME Inv, ~poisoned, life # "down", NEW next, RecordFails(next),
         Typed(next), Consistent(next),
         \A r \in Requests : state.requests[r] \in Outcomes =>
           next.requests[r] = state.requests[r]
  PROVE  Inv'
<1>1. AllTyped'
  BY BrokenAnswersNone, NoWorkerIsWorker DEF Inv, AllTyped, RecordFails
<1>2. Consistent(state)'
  BY DEF Inv, IInv, RecordFails, Consistent
<1>3. WorkerLocated'
  BY DEF Inv, AllTyped, RecordFails, WorkerLocated
<1>4. TicketsHonest'
  BY BrokenAnswersNone DEF Inv, IInv, AllTyped, RecordFails, TicketsHonest, NoWorker
<1> QED
  BY <1>1, <1>2, <1>3, <1>4 DEF Inv, IInv

\* A record of an event that is not about requests.
LEMMA QuietRecord ==
  ASSUME Inv, ~poisoned, life # "down", NEW next, NEW v \in Workers,
         RecordOnly(next, v, tickets), Typed(next), SameRequests(state, next),
         v.pc # "postTurn",
         life = "recovering" => v = w,
         life # "recovering" => Located(state, v)
  PROVE  Inv' /\ LedgerStep
<1>1. Consistent(next)
  BY SameRequestsKeep DEF Inv, IInv
<1>2. CASE RecordFails(next)
  <2>1. Inv'
    BY <1>1, <1>2, FailedRecord DEF SameRequests
  <2>2. LedgerStep
    BY <1>2, Stutter, BrokenAnswersNone DEF RecordFails, SameRequests, Inv, AllTyped
  <2> QED
    BY <2>1, <2>2
<1>3. CASE /\ state' = next /\ w' = v /\ tickets' = tickets
           /\ UNCHANGED <<life, poisoned, faults>>
  <2>1. AllTyped'
    BY <1>3 DEF Inv, AllTyped
  <2>2. Consistent(state)'
    BY <1>1, <1>3 DEF Consistent
  <2>3. WorkerLocated'
    <3>1. life # "recovering" => Located(next, v)
      BY SameRequestsKeep
    <3>2. life # "recovering" => Located(state', w')
      BY <1>3, <3>1
    <3> QED
      BY <1>3, <3>2 DEF Inv, IInv, WorkerLocated
  <2>4. TicketsHonest'
    BY <1>3 DEF Inv, IInv, TicketsHonest, SameRequests
  <2>5. LedgerStep
    BY <1>3, Stutter DEF SameRequests
  <2> QED
    BY <2>1, <2>2, <2>3, <2>4, <2>5 DEF Inv, IInv
<1> QED
  BY <1>2, <1>3 DEF RecordOnly

\* A step of the worker that records nothing.
LEMMA QuietStep ==
  ASSUME Inv, ~poisoned, life \in {"open", "closing"}, NEW v \in Workers, Step(v),
         v.pc # "postTurn", Located(state, v)
  PROVE  Inv' /\ LedgerStep
<1>1. AllTyped'
  BY DEF Inv, AllTyped, Step
<1>2. Consistent(state)'
  BY DEF Inv, IInv, Consistent, Step
<1>3. WorkerLocated'
  <2>1. Located(state', w')
    BY DEF Step
  <2> QED
    BY <2>1 DEF Inv, IInv, WorkerLocated, Step
<1>4. TicketsHonest'
  BY DEF Inv, IInv, TicketsHonest, Step
<1>5. LedgerStep
  BY Stutter DEF Step
<1> QED
  BY <1>1, <1>2, <1>3, <1>4, <1>5 DEF Inv, IInv

\* A record of an event that moves requests, seen from the runtime.
LEMMA MovingRecord ==
  ASSUME Inv, ~poisoned, life # "down", NEW next, NEW v \in Workers,
         NEW told \in [Requests -> TicketStates], RecordOnly(next, v, told),
         Typed(next), Consistent(next),
         \A r \in Requests : state.requests[r] \in Outcomes =>
           next.requests[r] = state.requests[r],
         \A r \in Requests : told[r] \in Outcomes => next.requests[r] = told[r],
         v.pc = "postTurn" => \A r \in v.owed : next.requests[r] = v.status,
         life = "recovering" => v = Recoverer,
         life # "recovering" => Located(next, v)
  PROVE  Inv'
<1>1. CASE RecordFails(next)
  BY <1>1, FailedRecord
<1>2. CASE /\ state' = next /\ w' = v /\ tickets' = told
           /\ UNCHANGED <<life, poisoned, faults>>
  <2>1. AllTyped'
    BY <1>2 DEF Inv, AllTyped
  <2>2. Consistent(state)'
    BY <1>2 DEF Consistent
  <2>3. WorkerLocated'
    <3>1. life # "recovering" => Located(state', w')
      BY <1>2
    <3> QED
      BY <1>2, <3>1 DEF Inv, IInv, WorkerLocated
  <2>4. TicketsHonest'
    BY <1>2 DEF TicketsHonest
  <2> QED
    BY <2>1, <2>2, <2>3, <2>4 DEF Inv, IInv
<1> QED
  BY <1>1, <1>2 DEF RecordOnly

-------------------------------------------------------------------------------
(* The steps of the ledger.                                                *)

\* No ticket is answered or withdrawn.
NoneAnswered ==
  \A r \in Requests :
    \/ tickets'[r] = tickets[r]
    \/ tickets'[r] \notin Outcomes /\ tickets[r] \notin Outcomes

\* ... so the ledger's second variable does not change.
LEMMA NoneAnsweredToldSame ==
  ASSUME NoneAnswered
  PROVE  [r \in Requests |-> IF tickets[r] \in Outcomes THEN tickets[r] ELSE "none"]' =
           [r \in Requests |-> IF tickets[r] \in Outcomes THEN tickets[r] ELSE "none"]
  BY DEF NoneAnswered

\* submit() queues an input.
LEMMA LedgerEnqueues ==
  ASSUME NEW r \in Requests, state.requests[r] = "absent", NoneAnswered,
         state'.requests = [state.requests EXCEPT ![r] = "queued"]
  PROVE  LedgerStep
<1>1. Ledger!Enqueue(r)
  BY NoneAnsweredToldSame DEF Ledger!Enqueue
<1> QED
  BY <1>1 DEF LedgerStep, Ledger!Next

\* user.accepted.
LEMMA LedgerAccepts ==
  ASSUME NEW r \in Requests, state.requests[r] = "queued", NoneAnswered,
         state'.requests = [state.requests EXCEPT ![r] = "accepted"]
  PROVE  LedgerStep
<1>1. Ledger!Accept(r)
  BY NoneAnsweredToldSame DEF Ledger!Accept
<1> QED
  BY <1>1 DEF LedgerStep, Ledger!Next

\* turn.ended, and the recovery of a turn.
LEMMA LedgerEndsTurn ==
  ASSUME NEW outcome \in Outcomes, NoneAnswered,
         state'.requests = [r \in Requests |-> IF state.requests[r] = "accepted"
                                                 THEN outcome ELSE state.requests[r]]
  PROVE  LedgerStep
<1>1. Ledger!EndTurn(outcome)
  BY NoneAnsweredToldSame DEF Ledger!EndTurn
<1> QED
  BY <1>1 DEF LedgerStep, Ledger!Next

\* An outcome without a turn, with or without an answer to the ticket.
LEMMA LedgerSettles ==
  ASSUME NEW r \in Requests, NEW outcome \in Outcomes, state.requests[r] = "queued",
         state'.requests = [state.requests EXCEPT ![r] = outcome],
         \/ NoneAnswered
         \/ tickets[r] \notin Outcomes /\ tickets' = [tickets EXCEPT ![r] = outcome],
         tickets \in [Requests -> TicketStates]
  PROVE  LedgerStep
<1>1. Ledger!Settle(r, outcome)
  <2>1. CASE NoneAnswered
    BY <2>1, NoneAnsweredToldSame DEF Ledger!Settle
  <2>2. CASE tickets[r] \notin Outcomes /\ tickets' = [tickets EXCEPT ![r] = outcome]
    BY <2>2 DEF Ledger!Settle
  <2> QED
    BY <2>1, <2>2
<1> QED
  BY <1>1 DEF LedgerStep, Ledger!Next

\* Tickets that are answered with what is on record.
LEMMA LedgerTells ==
  ASSUME state'.requests = state.requests,
         \A r \in Requests :
           \/ tickets'[r] = tickets[r]
           \/ tickets'[r] \notin Outcomes /\ tickets[r] \notin Outcomes
           \/ /\ tickets[r] \notin Outcomes
              /\ tickets'[r] \in Outcomes /\ tickets'[r] = state.requests[r]
  PROVE  LedgerStep
<1>1. Ledger!Tell
  BY DEF Ledger!Tell
<1> QED
  BY <1>1 DEF LedgerStep, Ledger!Next

\* The tickets go with the process.
LEMMA LedgerForgets ==
  ASSUME state' = state, tickets' = [r \in Requests |-> "none"]
  PROVE  LedgerStep
<1>1. Ledger!Forget
  BY DEF Ledger!Forget, Outcomes
<1> QED
  BY <1>1 DEF LedgerStep, Ledger!Next

-------------------------------------------------------------------------------
(* Steps of the worker.                                                    *)

Safe == Inv' /\ LedgerStep

\* A worker that has work to do is located, and its runtime is open or closing.
LEMMA AtWork ==
  ASSUME Inv, ~poisoned, w.pc \notin {"none", "closeBatch"}
  PROVE  life \in {"open", "closing"} /\ Located(state, w)
  BY DEF Inv, IInv, AllTyped, WorkerLocated, NoWorker, Recoverer

\* An exception that is thrown inside a turn leads to a proper place.
LEMMA ThrownIsLocated ==
  ASSUME w \in Workers, Located(state, w), InTurn(w), w.pc # "closeBatch",
         NEW outcome \in Outcomes
  PROVE  /\ Thrown(outcome) \in Workers /\ Located(state, Thrown(outcome))
         /\ Thrown(outcome).pc = "unwind"
<1>1. Thrown(outcome) \in Workers /\ Thrown(outcome).pc = "unwind"
  BY DEF Thrown, Workers, PCs, Awaits, Active
<1>2. Located(state, Thrown(outcome))
  BY DEF Thrown, Workers, Located, SitesFit, WorkIsQueued, AtOwnEntry, AtArrival,
         InTurn, TurnPCs, CompactPCs, EntryAccountedFor
<1> QED
  BY <1>1, <1>2

\* An exception inside a turn.
LEMMA ThrowStep ==
  ASSUME Inv, ~poisoned, w.pc \notin {"none", "closeBatch"}, InTurn(w),
         NEW outcome \in Outcomes, Throw(outcome)
  PROVE  Safe
  BY AtWork, ThrownIsLocated, QuietStep DEF Throw, Inv, AllTyped, Safe

\* The places of a worker that follow from its place alone.
LEMMA DrainSteps ==
  ASSUME Inv, Drained \/ DrainCompact
  PROVE  Safe
<1>1. /\ ~poisoned /\ life \in {"open", "closing"} /\ Located(state, w)
      /\ state.currentTurn = 0 /\ w \in Workers
  BY AtWork DEF Drained, DrainCompact, Draining, Located, InTurn, TurnPCs, CompactPCs, Inv,
                AllTyped
<1>2. CASE Drained
  <2>1. Located(state, NoWorker)
    BY <1>1 DEF NoWorker, Located, SitesFit, WorkIsQueued, AtOwnEntry, AtArrival, InTurn,
                TurnPCs, CompactPCs
  <2> QED
    BY <1>1, <1>2, <2>1, NoWorkerIsWorker, QuietStep DEF Drained, NoWorker, Safe
<1>3. CASE DrainCompact
  <2> DEFINE v == [NoWorker EXCEPT !.pc = "compact", !.entry = QueueHead]
  <2>1. QueueHead \in Queue(state)
    BY <1>3, HeadIsIn DEF DrainCompact, Inv, AllTyped
  <2>2. v \in Workers /\ v.pc = "compact"
    BY <2>1 DEF NoWorker, Workers, PCs, Sites, Outcomes, Queue
  <2>3. Located(state, v)
    BY <1>1, <2>1 DEF NoWorker, Located, SitesFit, WorkIsQueued, AtOwnEntry, AtArrival,
                      InTurn, TurnPCs, CompactPCs
  <2> QED
    BY <1>1, <1>3, <2>2, <2>3, QuietStep DEF DrainCompact, Safe
<1> QED
  BY <1>2, <1>3

\* _drain begins a turn with the head of the queue.
LEMMA StartTurnStep ==
  ASSUME Inv, StartTurn
  PROVE  Safe
<1>1. /\ ~poisoned /\ life \in {"open", "closing"} /\ Located(state, w)
      /\ state.currentTurn = 0
  BY AtWork DEF StartTurn, Draining, Located, InTurn, TurnPCs, CompactPCs
<1> DEFINE next == TurnStarted(state)
           v == [NoWorker EXCEPT !.pc = "preTurn", !.site = "turn", !.entry = QueueHead]
<1>2. QueueHead \in Queue(state)
  BY HeadIsIn DEF StartTurn, Inv, AllTyped
<1>3. v \in Workers /\ v.pc = "preTurn"
  BY <1>2 DEF NoWorker, Workers, PCs, Awaits, Sites, Outcomes, Queue
<1>4. /\ Typed(next) /\ Consistent(next)
      /\ next.requests = state.requests /\ next.queue = state.queue
      /\ next.turnRequests = {} /\ next.currentTurn # 0
  BY <1>1, TurnStartedIs DEF Inv, IInv, AllTyped
<1>5. Located(next, v)
  BY <1>2, <1>4 DEF NoWorker, Located, SitesFit, WorkIsQueued, AtOwnEntry, AtArrival,
       InTurn, TurnPCs, CompactPCs, EntryAccountedFor, Queue
<1>6. RecordOnly(next, v, tickets)
  BY DEF StartTurn
<1> HIDE DEF next, v
<1>7. Inv'
  BY <1>1, <1>3, <1>4, <1>5, <1>6, MovingRecord DEF Inv, IInv, AllTyped, TicketsHonest
<1>8. LedgerStep
  BY <1>4, <1>6, Stutter, BrokenAnswersNone DEF RecordOnly, RecordFails, Inv, AllTyped
<1> QED
  BY <1>7, <1>8 DEF Safe

\* Places inside a turn that promise nothing about the queue.
PlainPCs == {"budget", "fit", "preStep", "model", "postAssistant", "batch", "preAction",
             "tool", "postAction", "postStep"}

\* Moving between two such places.
LEMMA PlainMove ==
  ASSUME Located(state, w), w.pc \in PlainPCs, NEW v \in Workers, v.pc \in PlainPCs,
         v.entry = w.entry, v.timer = w.timer, v.entered = w.entered
  PROVE  Located(state, v)
  BY DEF PlainPCs, Located, SitesFit, WorkIsQueued, AtOwnEntry, AtArrival,
         InTurn, TurnPCs, CompactPCs, EntryAccountedFor

\* A step, or a record that is not about requests, from one such place to another.
LEMMA PlainStep ==
  ASSUME Inv, ~poisoned, w.pc \in PlainPCs, NEW v \in Workers, v.pc \in PlainPCs, Step(v),
         v.entry = w.entry, v.timer = w.timer, v.entered = w.entered
  PROVE  Safe
<1>1. life \in {"open", "closing"} /\ Located(state, w) /\ v.pc # "postTurn"
  BY AtWork DEF PlainPCs
<1> QED
  BY <1>1, PlainMove, QuietStep DEF Safe

\* ... and a record,
LEMMA PlainRecord ==
  ASSUME Inv, ~poisoned, w.pc \in PlainPCs, NEW v \in Workers, v.pc \in PlainPCs,
         NEW next, Typed(next), SameRequests(state, next), RecordOnly(next, v, tickets),
         v.entry = w.entry, v.timer = w.timer, v.entered = w.entered
  PROVE  Safe
<1>1. life \in {"open", "closing"} /\ Located(state, w) /\ v.pc # "postTurn"
  BY AtWork DEF PlainPCs
<1> QED
  BY <1>1, PlainMove, QuietRecord DEF Safe

\* ... and an exception at one of them.
LEMMA PlainThrow ==
  ASSUME Inv, ~poisoned, w.pc \in PlainPCs, NEW outcome \in Outcomes, Throw(outcome)
  PROVE  Safe
<1>1. InTurn(w) /\ w.pc \notin {"none", "closeBatch"}
  BY DEF PlainPCs, InTurn, TurnPCs
<1> QED
  BY <1>1, ThrowStep

\* What becomes of a CancelledError is an outcome.
LEMMA InterruptionIsOutcome == Interruption \in Outcomes
  BY DEF Interruption, Outcomes

\* A state that is recorded as it is.
LEMMA SameIsSame ==
  ASSUME Inv
  PROVE  Typed(state) /\ SameRequests(state, state) /\ w \in Workers
  BY DEF Inv, AllTyped, SameRequests

\* The steps of _run_step, _generate and _execute_batch.
LEMMA StepSteps ==
  ASSUME Inv, StepStep, "diagnostic" \notin May
  PROVE  Safe
<1> USE SameIsSame DEF PlainPCs, At
<1>1. CASE CallModel
  <2> DEFINE v == [w EXCEPT !.pc = "model"]
  <2>1. v \in Workers /\ v.pc = "model" /\ v.entry = w.entry /\ v.timer = w.timer
        /\ v.entered = w.entered
    BY DEF Workers, PCs, Awaits, Active
  <2>2. CASE Throw("failed")
    BY <1>1, <2>2, PlainThrow DEF CallModel, Outcomes
  <2>3. CASE Log(v)
    <3>1. RecordOnly(state, v, tickets)
      BY <2>3 DEF Log, Record, RecordAndTell
    <3> QED
      BY <1>1, <2>1, <3>1, PlainRecord DEF CallModel
  <2> QED
    BY <1>1, <2>2, <2>3 DEF CallModel
<1>2. CASE StepRefused
  BY <1>2, PlainThrow DEF StepRefused, Outcomes
<1>3. CASE ModelFails
  BY <1>3, PlainThrow DEF ModelFails, Outcomes
<1>4. CASE ModelInterrupted
  BY <1>4, PlainThrow, InterruptionIsOutcome DEF ModelInterrupted
<1>5. ASSUME NEW calls \in Replies, ModelReplies(calls)
      PROVE  Safe
  <2> DEFINE v == [w EXCEPT !.pc = IF calls = <<>> THEN "postStep" ELSE "postAssistant",
                            !.called = calls # <<>>]
  <2>1. v \in Workers /\ v.pc \in {"postStep", "postAssistant"} /\ v.entry = w.entry
        /\ v.timer = w.timer /\ v.entered = w.entered
    BY DEF Workers, PCs, Awaits, Active
  <2>2. CASE Throw("failed")
    BY <1>5, <2>2, PlainThrow DEF ModelReplies, Outcomes
  <2>3. CASE Record(AssistantCommitted(state, calls), v)
    <3>1. RecordOnly(AssistantCommitted(state, calls), v, tickets)
      BY <2>3 DEF Record, RecordAndTell
    <3> QED
      BY <1>5, <2>1, <3>1, PlainRecord, MessageEvents DEF ModelReplies
  <2> QED
    BY <1>5, <2>2, <2>3 DEF ModelReplies
<1>6. CASE PostAssistant
  <2> DEFINE v == [w EXCEPT !.pc = "batch"]
  <2>1. v \in Workers /\ v.pc = "batch" /\ v.entry = w.entry /\ v.timer = w.timer
        /\ v.entered = w.entered
    BY DEF Workers, PCs, Awaits, Active
  <2> QED
    BY <1>6, <2>1, PlainStep DEF PostAssistant
<1>7. CASE PostStep
  <2> DEFINE v == [w EXCEPT !.pc = "boundary", !.site = "tail"]
  <2>1. life \in {"open", "closing"} /\ Located(state, w)
    BY <1>7, AtWork DEF PostStep
  <2>2. v \in Workers /\ v.pc = "boundary"
    BY DEF Workers, PCs, Awaits, Active, Sites
  <2>3. Located(state, v)
    BY <1>7, <2>1 DEF PostStep, Workers, Located, SitesFit, WorkIsQueued, AtOwnEntry,
         AtArrival, InTurn, TurnPCs, CompactPCs, EntryAccountedFor
  <2> QED
    BY <1>7, <2>1, <2>2, <2>3, QuietStep DEF PostStep, Safe
<1>8. CASE SkipCall \/ RefuseAction
  <2> DEFINE v == [w EXCEPT !.pc = "postAction"]
             next == ActionCompleted(state, Running + 1, NextCall, "skipped")
  <2>1. v \in Workers /\ v.pc = "postAction" /\ v.entry = w.entry /\ v.timer = w.timer
        /\ v.entered = w.entered
    BY DEF Workers, PCs, Awaits, Active
  <2>2. RecordOnly(next, v, tickets) /\ ~poisoned /\ w.pc \in {"batch", "preAction"}
    BY <1>8 DEF SkipCall, RefuseAction, Record, RecordAndTell
  <2>3. Typed(next) /\ SameRequests(state, next)
    BY MessageEvents
  <2> HIDE DEF next, v
  <2> QED
    BY <2>1, <2>2, <2>3, PlainRecord
<1>9. CASE OfferCall
  <2> DEFINE v == [w EXCEPT !.pc = "preAction"]
  <2>1. v \in Workers /\ v.pc = "preAction" /\ v.entry = w.entry /\ v.timer = w.timer
        /\ v.entered = w.entered
    BY DEF Workers, PCs, Awaits, Active
  <2> QED
    BY <1>9, <2>1, PlainStep DEF OfferCall
<1>10. CASE StartAction
  <2> DEFINE v == [w EXCEPT !.pc = "tool"]
             next == ActionStarted(state, NextCall)
  <2>1. v \in Workers /\ v.pc = "tool" /\ v.entry = w.entry /\ v.timer = w.timer
        /\ v.entered = w.entered
    BY DEF Workers, PCs, Awaits, Active
  <2>2. RecordOnly(next, v, tickets) /\ ~poisoned /\ w.pc = "preAction"
    BY <1>10 DEF StartAction
  <2>3. Typed(next) /\ SameRequests(state, next)
    BY MessageEvents
  <2> HIDE DEF next, v
  <2> QED
    BY <2>1, <2>2, <2>3, PlainRecord
<1>11. CASE ToolReturns
  <2> DEFINE v == [w EXCEPT !.pc = "postAction"]
             job == JobAccepted(state, Running, RunningCall)
             done == ActionCompleted(state, Running, RunningCall, "returned")
  <2>1. v \in Workers /\ v.pc = "postAction" /\ v.entry = w.entry /\ v.timer = w.timer
        /\ v.entered = w.entered
    BY DEF Workers, PCs, Awaits, Active
  <2>2. /\ RecordOnly(job, v, tickets) \/ RecordOnly(done, v, tickets)
        /\ ~poisoned /\ w.pc = "tool"
    BY <1>11 DEF ToolReturns
  <2>3. /\ Typed(job) /\ SameRequests(state, job)
        /\ Typed(done) /\ SameRequests(state, done)
    BY MessageEvents, JobEvents
  <2> HIDE DEF job, done, v
  <2> QED
    BY <2>1, <2>2, <2>3, PlainRecord
<1>12. CASE ToolInterrupted
  <2> DEFINE v == [w EXCEPT !.pc = "postAction", !.hit = FALSE]
             next == ActionCompleted(state, Running, RunningCall, "unknown")
  <2>1. v \in Workers /\ v.pc = "postAction" /\ v.entry = w.entry /\ v.timer = w.timer
        /\ v.entered = w.entered
    BY DEF Workers, PCs, Awaits, Active
  <2>2. RecordOnly(next, v, tickets) /\ ~poisoned /\ w.pc = "tool"
    BY <1>12 DEF ToolInterrupted
  <2>3. Typed(next) /\ SameRequests(state, next)
    BY MessageEvents
  <2> HIDE DEF next, v
  <2> QED
    BY <2>1, <2>2, <2>3, PlainRecord
<1>13. CASE PostAction
  <2> DEFINE v == [w EXCEPT !.pc = "batch"]
  <2>1. v \in Workers /\ v.pc = "batch" /\ v.entry = w.entry /\ v.timer = w.timer
        /\ v.entered = w.entered
    BY DEF Workers, PCs, Awaits, Active
  <2> QED
    BY <1>13, <2>1, PlainStep DEF PostAction
<1>14. CASE CommitBatch
  <2> DEFINE numbers == [k \in DOMAIN Batch.calls |-> Batch.number + k]
             next == ToolsCommitted(state, Batch.calls, numbers)
             v == IF cancel THEN Thrown(Interruption) ELSE [w EXCEPT !.pc = "postStep"]
  <2>1. RecordOnly(next, v, tickets) /\ ~poisoned /\ w.pc = "batch"
    BY <1>14 DEF CommitBatch, Record, RecordAndTell
  <2>2. Typed(next) /\ SameRequests(state, next)
    BY MessageEvents
  <2>3. life \in {"open", "closing"} /\ Located(state, w) /\ InTurn(w)
    BY <2>1, AtWork DEF InTurn, TurnPCs
  <2>4. CASE cancel
    <3>1. v \in Workers /\ Located(state, v) /\ v.pc = "unwind"
      BY <2>1, <2>3, <2>4, ThrownIsLocated, InterruptionIsOutcome
    <3> HIDE DEF next, v
    <3> QED
      BY <2>1, <2>2, <2>3, <3>1, QuietRecord DEF Safe
  <2>5. CASE ~cancel
    <3>1. v \in Workers /\ v.pc = "postStep" /\ v.entry = w.entry /\ v.timer = w.timer
          /\ v.entered = w.entered
      BY <2>5 DEF Workers, PCs, Awaits, Active
    <3> HIDE DEF next, v
    <3> QED
      BY <2>1, <2>2, <3>1, PlainRecord
  <2> QED
    BY <2>4, <2>5
<1>15. CASE PostActionFails
  BY <1>15 DEF PostActionFails
<1> QED
  BY <1>1, <1>2, <1>3, <1>4, <1>5, <1>6, <1>7, <1>8, <1>9, <1>10, <1>11, <1>12, <1>13, <1>14,
     <1>15 DEF StepStep

-------------------------------------------------------------------------------
(* The boundary and its work list.                                         *)

\* The work list a boundary starts with.
LEMMA ArrivalsAreQueued ==
  ASSUME Typed(state)
  PROVE  Arrivals \subseteq Item /\ StillQueued(state, Arrivals)
<1>1. Arrivals \subseteq Item
  BY DEF Arrivals, Item, Typed, Entry, Queue, Waiting
<1>2. StillQueued(state, Arrivals)
  BY DEF Arrivals, StillQueued, Queue
<1> QED
  BY <1>1, <1>2

\* The input a worker is at is in the queue.
LEMMA CurrentIsQueued ==
  ASSUME w \in Workers, Located(state, w), AtOwnEntry(w) \/ AtArrival(w)
  PROVE  Current \in Queue(state) /\ Current \in Requests
<1>1. CASE AtOwnEntry(w)
  BY <1>1 DEF AtOwnEntry, Current, Located, SitesFit, WorkIsQueued, Queue
<1>2. CASE AtArrival(w)
  <2>1. w.arrivals # {} /\ w.arrivals \subseteq Item /\ First(w.arrivals).kind = "input"
    BY <1>2 DEF Located, WorkIsQueued, Workers
  <2>2. First(w.arrivals) \in w.arrivals
    BY <2>1, FirstIsIn
  <2>3. First(w.arrivals).id \in Queue(state)
    BY <1>2, <2>1, <2>2 DEF Located, WorkIsQueued, StillQueued
  <2> QED
    BY <1>2, <2>3 DEF Current, AtArrival, Queue
<1> QED
  BY <1>1, <1>2

\* When the first item's input leaves the queue, the others stay.
LEMMA OthersStay ==
  ASSUME w \in Workers, StillQueued(state, w.arrivals), w.arrivals # {},
         First(w.arrivals).kind = "input", Typed(state),
         NEW t, t.queue = [state.queue EXCEPT ![First(w.arrivals).id] = NotThere]
  PROVE  StillQueued(t, w.arrivals \ {First(w.arrivals)})
<1> DEFINE f == First(w.arrivals)
<1>1. f \in w.arrivals /\ w.arrivals \subseteq Item
  BY FirstIsIn DEF Workers
<1>2. SUFFICES ASSUME NEW x \in w.arrivals, x # f, x.kind = "input"
               PROVE  x.id \in Queue(t) /\ x.seq = t.queue[x.id].seq
  BY DEF StillQueued
<1>3. /\ x.id \in Queue(state) /\ x.seq = state.queue[x.id].seq
      /\ f.id \in Queue(state) /\ f.seq = state.queue[f.id].seq
  BY <1>1, <1>2 DEF StillQueued
<1>4. /\ x = [kind |-> "input", id |-> x.id, seq |-> x.seq]
      /\ f = [kind |-> "input", id |-> f.id, seq |-> f.seq]
  BY <1>1, <1>2 DEF Item
<1>5. x.id # f.id
  BY <1>2, <1>3, <1>4
<1>6. t.queue[x.id] = state.queue[x.id]
  BY <1>3, <1>5 DEF Typed, Queue
<1> QED
  BY <1>3, <1>6 DEF Queue

\* Leaving the first item behind.
LEMMA NextArrivalIsWorker ==
  ASSUME w \in Workers
  PROVE  /\ NextArrival \in Workers /\ NextArrival.pc = "arrivals"
         /\ [NextArrival EXCEPT !.steered = TRUE] \in Workers
         /\ [NextArrival EXCEPT !.steered = TRUE].pc = "arrivals"
  BY DEF NextArrival, Workers, PCs

\* ... leads to a proper place, if the others are still in the queue.
LEMMA NextArrivalIsLocated ==
  ASSUME w \in Workers, Located(state, w), w.site \in {"head", "tail"}, InTurn(w),
         w.pc \notin {"closeBatch", "unwind", "preTurn"},
         NEW t, StillQueued(t, w.arrivals \ {First(w.arrivals)}),
         t.currentTurn = state.currentTurn, state.turnRequests \subseteq t.turnRequests
  PROVE  /\ Located(t, NextArrival)
         /\ Located(t, [NextArrival EXCEPT !.steered = TRUE])
  BY DEF NextArrival, Workers, Located, SitesFit, WorkIsQueued, AtOwnEntry, AtArrival,
         InTurn, TurnPCs, CompactPCs, EntryAccountedFor

\* A queued input gets an outcome, and so may its ticket.
LEMMA SettleStep ==
  ASSUME Inv, ~poisoned, life \in {"open", "closing"}, NEW c \in Queue(state),
         NEW outcome \in Outcomes, NEW v \in Workers, v.pc # "postTurn", NEW next,
         next = InputFinished(state, c, outcome), Located(next, v),
         NEW told \in {tickets, Resolve({c}, outcome)}, RecordOnly(next, v, told)
  PROVE  Safe
<1>1. c \in Requests
  BY DEF Queue
<1>2. /\ Typed(next) /\ Consistent(next)
      /\ next.requests = [state.requests EXCEPT ![c] = outcome]
  <2>1. Typed(state) /\ Consistent(state)
    BY DEF Inv, IInv, AllTyped
  <2>2. Typed(next)
    BY <2>1, InputFinishedIs
  <2>3. Consistent(next)
    BY <2>1, InputFinishedIs
  <2>4. next.requests = [state.requests EXCEPT ![c] = outcome]
    BY <2>1 DEF InputFinished, Typed, Fields
  <2> QED
    BY <2>2, <2>3, <2>4
<1>3. state.requests[c] = "queued" /\ tickets[c] \notin Outcomes
  BY <1>1 DEF Inv, IInv, AllTyped, Typed, Consistent, Queue, TicketsHonest, Outcomes
<1>5. /\ told \in [Requests -> TicketStates]
      /\ \/ told = tickets
         \/ told = [tickets EXCEPT ![c] = outcome]
  BY <1>1 DEF Resolve, TicketStates, Outcomes, Inv, AllTyped
<1>6. \A r \in Requests : state.requests[r] \in Outcomes =>
        next.requests[r] = state.requests[r]
  BY <1>2, <1>3 DEF Outcomes, Inv, AllTyped, Typed
<1>7. \A r \in Requests : told[r] \in Outcomes => next.requests[r] = told[r]
  BY <1>1, <1>2, <1>3, <1>5 DEF Inv, IInv, AllTyped, Typed, TicketsHonest, Outcomes
<1>8. Inv'
  BY <1>2, <1>5, <1>6, <1>7, MovingRecord
<1>9. LedgerStep
  <2>1. CASE RecordFails(next)
    <3>1. NoneAnswered
      BY <2>1, BrokenAnswersNone DEF RecordFails, NoneAnswered, Inv, AllTyped
    <3>2. CASE state' = state
      BY <3>1, <3>2, Stutter DEF NoneAnswered
    <3>3. CASE state' = next
      BY <1>1, <1>2, <1>3, <3>1, <3>3, LedgerSettles DEF Inv, AllTyped
    <3> QED
      BY <2>1, <3>2, <3>3 DEF RecordFails
  <2>2. CASE state' = next /\ tickets' = told
    <3>1. NoneAnswered \/ tickets' = [tickets EXCEPT ![c] = outcome]
      BY <1>5, <2>2 DEF NoneAnswered
    <3> QED
      BY <1>1, <1>2, <1>3, <2>2, <3>1, LedgerSettles DEF Inv, AllTyped
  <2> QED
    BY <2>1, <2>2 DEF RecordOnly
<1> QED
  BY <1>8, <1>9 DEF Safe

\* A steer that a guard refuses.
LEMMA RefuseStep ==
  ASSUME Inv, At("preUser"), w.site # "turn", Refuse
  PROVE  Safe
<1> DEFINE next == InputFinished(state, Current, "failed")
           told == Resolve({Current}, "failed")
<1>1. /\ ~poisoned /\ life \in {"open", "closing"} /\ Located(state, w)
      /\ w.site \in {"head", "tail"} /\ AtArrival(w) /\ InTurn(w) /\ w \in Workers
      /\ w.pc \notin {"closeBatch", "unwind", "preTurn"}
  BY AtWork DEF At, Located, SitesFit, AtArrival, InTurn, TurnPCs, Inv, AllTyped
<1>2. Current \in Queue(state) /\ Current = First(w.arrivals).id
  BY <1>1, CurrentIsQueued DEF Current
<1>3. /\ next.queue = [state.queue EXCEPT ![Current] = NotThere]
      /\ next.turnRequests = state.turnRequests /\ next.currentTurn = state.currentTurn
  BY DEF InputFinished, Inv, AllTyped, Typed, Fields
<1>4. StillQueued(next, w.arrivals \ {First(w.arrivals)})
  BY <1>1, <1>2, <1>3, OthersStay DEF Located, WorkIsQueued, Inv, AllTyped
<1>5. Located(next, NextArrival) /\ NextArrival \in Workers /\ NextArrival.pc # "postTurn"
  BY <1>1, <1>3, <1>4, NextArrivalIsLocated, NextArrivalIsWorker
<1>6. RecordOnly(next, NextArrival, told) /\ told \in {tickets, Resolve({Current}, "failed")}
  BY DEF Refuse, RecordAndTell
<1>7. next = InputFinished(state, Current, "failed") /\ "failed" \in Outcomes
  BY DEF Outcomes
<1> HIDE DEF next, told
<1> QED
  BY <1>1, <1>2, <1>5, <1>6, <1>7, SettleStep, Zenon

\* Into a turn: pre_turn, and the acceptance of an input.
LEMMA PreTurnStep ==
  ASSUME Inv, PreTurn
  PROVE  Safe
<1> DEFINE v == [w EXCEPT !.pc = "preUser", !.entered = TRUE]
<1>1. /\ ~poisoned /\ life \in {"open", "closing"} /\ Located(state, w) /\ w \in Workers
      /\ w.pc = "preTurn" /\ InTurn(w)
  BY AtWork DEF PreTurn, At, InTurn, TurnPCs, Inv, AllTyped
<1>2. CASE Throw("failed")
  BY <1>1, <1>2, ThrowStep DEF Outcomes
<1>3. CASE Step(v)
  <2>1. v \in Workers /\ v.pc = "preUser"
    BY <1>1 DEF Workers, PCs, Awaits
  <2>2. Located(state, v)
    BY <1>1 DEF Workers, Located, SitesFit, WorkIsQueued, AtOwnEntry, AtArrival, InTurn,
                TurnPCs, CompactPCs, EntryAccountedFor
  <2> QED
    BY <1>1, <1>3, <2>1, <2>2, QuietStep DEF Safe
<1> QED
  BY <1>2, <1>3 DEF PreTurn

\* user.accepted moves the input from the queue to the turn.
LEMMA AcceptUserStep ==
  ASSUME Inv, AcceptUser
  PROVE  Safe
<1> DEFINE next == UserAccepted(state, Current)
           v == [w EXCEPT !.pc = "postUser"]
<1>1. /\ ~poisoned /\ life \in {"open", "closing"} /\ Located(state, w) /\ w \in Workers
      /\ w.pc = "preUser" /\ InTurn(w) /\ w.site \in {"turn", "head", "tail"}
      /\ state.currentTurn # 0
  BY AtWork DEF AcceptUser, At, Located, SitesFit, InTurn, TurnPCs, Inv, AllTyped
<1>2. Current \in Queue(state) /\ Current \in Requests
  BY <1>1, CurrentIsQueued DEF AtOwnEntry, AtArrival
<1>3. state.requests[Current] = "queued" /\ Typed(state) /\ Consistent(state)
  BY <1>2 DEF Inv, IInv, AllTyped, Consistent, Queue
<1>4. /\ Typed(next) /\ Consistent(next)
      /\ next.requests = [state.requests EXCEPT ![Current] = "accepted"]
      /\ next.queue = [state.queue EXCEPT ![Current] = NotThere]
      /\ next.turnRequests = state.turnRequests \cup {Current}
      /\ next.currentTurn = state.currentTurn
  BY <1>1, <1>2, <1>3, UserAcceptedIs
<1>5. v \in Workers /\ v.pc = "postUser" /\ v.site = w.site /\ v.arrivals = w.arrivals
      /\ v.entry = w.entry /\ v.timer = w.timer /\ v.entered = w.entered
  BY <1>1 DEF Workers, PCs, Awaits
<1>6. w.site \in {"head", "tail"} =>
        v.arrivals # {} /\ StillQueued(next, v.arrivals \ {First(v.arrivals)})
  <2> SUFFICES ASSUME w.site \in {"head", "tail"}
               PROVE  w.arrivals # {} /\ StillQueued(next, w.arrivals \ {First(w.arrivals)})
    BY <1>5
  <2>1. /\ StillQueued(state, w.arrivals) /\ w.arrivals # {}
        /\ First(w.arrivals).kind = "input" /\ Current = First(w.arrivals).id
    BY <1>1 DEF Located, WorkIsQueued, AtArrival, Current
  <2> HIDE DEF next, v
  <2> QED
    BY <1>1, <1>3, <1>4, <2>1, OthersStay
<1>7. EntryAccountedFor(next, v)
  <2>1. EntryAccountedFor(state, w)
    BY <1>1 DEF Located
  <2>2. w.entry \in Queue(state) => w.site = "turn"
    BY <1>1, <2>1 DEF EntryAccountedFor, AtOwnEntry, CompactPCs, Located, Consistent, Inv, IInv,
                      Queue
  <2> QED
    BY <1>1, <1>4, <1>5, <2>1 DEF EntryAccountedFor, Current, AtOwnEntry, CompactPCs
<1>8. RecordOnly(next, v, tickets)
  BY DEF AcceptUser, Record, RecordAndTell
<1> HIDE DEF next, v
<1>9. Located(next, v)
  BY <1>1, <1>4, <1>5, <1>6, <1>7 DEF Located, SitesFit, WorkIsQueued, AtOwnEntry, AtArrival,
     InTurn, TurnPCs, CompactPCs
<1>10. Inv'
  <2>1. \A r \in Requests : state.requests[r] \in Outcomes =>
          next.requests[r] = state.requests[r]
    BY <1>2, <1>3, <1>4 DEF Outcomes, Typed
  <2>2. \A r \in Requests : tickets[r] \in Outcomes => next.requests[r] = tickets[r]
    BY <2>1 DEF Inv, IInv, TicketsHonest
  <2> QED
    BY <1>1, <1>4, <1>5, <1>8, <1>9, <2>1, <2>2, MovingRecord DEF Inv, AllTyped
<1>11. LedgerStep
  <2>1. NoneAnswered /\ state' \in {state, next}
    BY <1>8, BrokenAnswersNone DEF RecordOnly, RecordFails, NoneAnswered, Inv, AllTyped
  <2>2. CASE state' = state
    BY <2>1, <2>2, Stutter DEF NoneAnswered
  <2>3. CASE state' = next
    BY <1>2, <1>3, <1>4, <2>1, <2>3, LedgerAccepts
  <2> QED
    BY <2>1, <2>2, <2>3
<1> QED
  BY <1>10, <1>11 DEF Safe

\* A guard refuses the turn's own entry or a steer.
LEMMA RefuseUserStep ==
  ASSUME Inv, RefuseUser
  PROVE  Safe
<1>1. w.pc = "preUser" /\ ~poisoned /\ InTurn(w) /\ At("preUser")
  BY DEF RefuseUser, At, InTurn, TurnPCs
<1>2. CASE Throw("failed")
  BY <1>1, <1>2, ThrowStep DEF Outcomes
<1>3. CASE w.site # "turn" /\ Refuse
  BY <1>1, <1>3, RefuseStep
<1> QED
  BY <1>2, <1>3 DEF RefuseUser

\* After the post_user hooks.
LEMMA PostUserStep ==
  ASSUME Inv, PostUser
  PROVE  Safe
<1>1. /\ ~poisoned /\ life \in {"open", "closing"} /\ Located(state, w) /\ w \in Workers
      /\ w.pc = "postUser" /\ InTurn(w) /\ w.site \in {"turn", "head", "tail"}
  BY AtWork DEF PostUser, At, Located, SitesFit, InTurn, TurnPCs, Inv, AllTyped
<1>2. CASE w.site = "turn"
  <2> DEFINE v == [w EXCEPT !.pc = "boundary", !.site = "head", !.timer = "on"]
  <2>1. v \in Workers /\ v.pc = "boundary"
    BY <1>1 DEF Workers, PCs, Sites
  <2>2. Located(state, v)
    BY <1>1 DEF Workers, Located, SitesFit, WorkIsQueued, AtOwnEntry, AtArrival, InTurn,
                TurnPCs, CompactPCs, EntryAccountedFor
  <2>3. Step(v)
    BY <1>2 DEF PostUser
  <2> QED
    BY <1>1, <2>1, <2>2, <2>3, QuietStep DEF Safe
<1>3. CASE w.site # "turn"
  <2> DEFINE v == [NextArrival EXCEPT !.steered = TRUE]
  <2>1. v \in Workers /\ v.pc # "postTurn"
    BY <1>1, NextArrivalIsWorker
  <2>2. StillQueued(state, w.arrivals \ {First(w.arrivals)})
    BY <1>1, <1>3 DEF Located, WorkIsQueued
  <2>3. Located(state, v)
    BY <1>1, <1>3, <2>2, NextArrivalIsLocated
  <2>4. Step(v)
    BY <1>3 DEF PostUser
  <2> HIDE DEF v
  <2> QED
    BY <1>1, <2>1, <2>3, <2>4, QuietStep DEF Safe
<1> QED
  BY <1>2, <1>3

\* The boundary takes its work list, and goes through it.
LEMMA EnterBoundaryStep ==
  ASSUME Inv, EnterBoundary
  PROVE  Safe
<1> DEFINE v == [w EXCEPT !.pc = "arrivals", !.arrivals = Arrivals, !.steered = FALSE]
<1>1. /\ ~poisoned /\ life \in {"open", "closing"} /\ Located(state, w) /\ w \in Workers
      /\ w.pc = "boundary" /\ InTurn(w) /\ w.site \in {"head", "tail"}
  BY AtWork DEF EnterBoundary, At, Located, SitesFit, InTurn, TurnPCs, Inv, AllTyped
<1>2. Arrivals \subseteq Item /\ StillQueued(state, Arrivals)
  BY ArrivalsAreQueued DEF Inv, AllTyped
<1>3. v \in Workers /\ v.pc = "arrivals"
  BY <1>1, <1>2 DEF Workers, PCs
<1>4. Located(state, v)
  BY <1>1, <1>2 DEF Workers, Located, SitesFit, WorkIsQueued, AtOwnEntry, AtArrival, InTurn,
                    TurnPCs, CompactPCs, EntryAccountedFor
<1>5. Step(v)
  BY DEF EnterBoundary
<1> QED
  BY <1>1, <1>3, <1>4, <1>5, QuietStep DEF Safe

\* A job's notification enters the turn.
LEMMA TakeNotificationStep ==
  ASSUME Inv, TakeNotification
  PROVE  Safe
<1> DEFINE next == NotificationAccepted(state, First(w.arrivals).id)
           v == [NextArrival EXCEPT !.steered = TRUE]
<1>1. /\ ~poisoned /\ life \in {"open", "closing"} /\ Located(state, w) /\ w \in Workers
      /\ w.pc = "arrivals" /\ InTurn(w) /\ w.site \in {"head", "tail"}
  BY AtWork DEF TakeNotification, At, Located, SitesFit, InTurn, TurnPCs, Inv, AllTyped
<1>2. v \in Workers /\ v.pc # "postTurn"
  BY <1>1, NextArrivalIsWorker
<1>3. StillQueued(state, w.arrivals \ {First(w.arrivals)})
  BY <1>1 DEF Located, WorkIsQueued, StillQueued
<1>4. Located(state, v)
  BY <1>1, <1>3, NextArrivalIsLocated
<1>5. Typed(next) /\ SameRequests(state, next)
  BY SameIsSame, JobEvents
<1>6. RecordOnly(next, v, tickets)
  BY DEF TakeNotification, Record, RecordAndTell
<1> HIDE DEF next, v
<1> QED
  BY <1>1, <1>2, <1>4, <1>5, <1>6, QuietRecord DEF Safe

\* The next item of the work list is an input.
LEMMA TakeInputStep ==
  ASSUME Inv, TakeInput
  PROVE  Safe
<1> DEFINE v == [w EXCEPT !.pc = IF Mode[First(w.arrivals).id] = "compact"
                                   THEN "compact" ELSE "preUser"]
<1>1. /\ ~poisoned /\ life \in {"open", "closing"} /\ Located(state, w) /\ w \in Workers
      /\ w.pc = "arrivals" /\ InTurn(w) /\ w.site \in {"head", "tail"}
  BY AtWork DEF TakeInput, At, Located, SitesFit, InTurn, TurnPCs, Inv, AllTyped
<1>2. v \in Workers /\ v.pc \in {"compact", "preUser"}
  BY <1>1 DEF Workers, PCs, Awaits
<1>3. Located(state, v)
  BY <1>1 DEF TakeInput, Workers, Located, SitesFit, WorkIsQueued, AtOwnEntry, AtArrival,
              InTurn, TurnPCs, CompactPCs, EntryAccountedFor
<1>4. Step(v)
  BY DEF TakeInput
<1> QED
  BY <1>1, <1>2, <1>3, <1>4, QuietStep DEF Safe

\* The work list before a step is done.
LEMMA LeaveHeadStep ==
  ASSUME Inv, LeaveHead
  PROVE  Safe
<1> DEFINE v == [w EXCEPT !.pc = "budget", !.steered = FALSE]
<1>1. /\ ~poisoned /\ life \in {"open", "closing"} /\ Located(state, w) /\ w \in Workers
      /\ w.pc = "arrivals" /\ InTurn(w)
  BY AtWork DEF LeaveHead, At, InTurn, TurnPCs, Inv, AllTyped
<1>2. CASE Throw("cancelled")
  BY <1>1, <1>2, ThrowStep DEF Outcomes
<1>3. CASE Step(v)
  <2>1. v \in Workers /\ v.pc = "budget"
    BY <1>1 DEF Workers, PCs
  <2>2. Located(state, v)
    BY <1>1 DEF Workers, Located, SitesFit, WorkIsQueued, AtOwnEntry, AtArrival,
                InTurn, TurnPCs, CompactPCs, EntryAccountedFor
  <2> QED
    BY <1>1, <1>3, <2>1, <2>2, QuietStep DEF Safe
<1> QED
  BY <1>2, <1>3 DEF LeaveHead

\* The work list after a step is done.
LEMMA LeaveTailStep ==
  ASSUME Inv, LeaveTail
  PROVE  Safe
<1>1. /\ ~poisoned /\ life \in {"open", "closing"} /\ Located(state, w) /\ w \in Workers
      /\ w.pc = "arrivals" /\ w.entered
  BY AtWork DEF LeaveTail, At, InTurn, TurnPCs, Inv, AllTyped, Located
<1>2. ASSUME NEW v \in Workers, v.pc \in {"boundary", "closeBatch"}, Step(v),
             v.site \in {"head", "tail"}, v.entry = w.entry, v.timer \in {w.timer, "off"},
             v.entered = w.entered
      PROVE  Safe
  <2>1. Located(state, v)
    BY <1>1, <1>2 DEF Located, SitesFit, WorkIsQueued, AtOwnEntry, AtArrival,
                InTurn, TurnPCs, CompactPCs, EntryAccountedFor
  <2> QED
    BY <1>1, <1>2, <2>1, QuietStep DEF Safe
<1> DEFINE a == [w EXCEPT !.pc = "closeBatch", !.timer = "off"]
           b == [w EXCEPT !.pc = "boundary", !.site = "head"]
           c == [w EXCEPT !.pc = "closeBatch", !.timer = "off", !.status = "limited",
                          !.steered = FALSE]
<1>3. a \in Workers /\ b \in Workers /\ c \in Workers
  BY <1>1 DEF Workers, PCs, Sites, Outcomes
<1>4. \A v \in {a, b, c} :
        /\ v.pc \in {"boundary", "closeBatch"} /\ v.site \in {"head", "tail"}
        /\ v.entry = w.entry /\ v.timer \in {w.timer, "off"} /\ v.entered = w.entered
  BY <1>1 DEF LeaveTail, Workers
<1>5. Step(a) \/ Step(b) \/ Step(c)
  BY DEF LeaveTail
<1> HIDE DEF a, b, c
<1> QED
  BY <1>2, <1>3, <1>4, <1>5

\* The budget check.
LEMMA BudgetSteps ==
  ASSUME Inv, Fits \/ Outgrown \/ DoesNotFit
  PROVE  Safe
<1>1. /\ ~poisoned /\ life \in {"open", "closing"} /\ Located(state, w) /\ w \in Workers
      /\ w.pc \in {"budget", "fit"} /\ w.pc \in PlainPCs /\ Typed(state)
      /\ SameRequests(state, state)
  BY AtWork, SameIsSame DEF Fits, Outgrown, DoesNotFit, At, PlainPCs
<1>2. CASE Fits
  <2> DEFINE v == [w EXCEPT !.pc = "preStep", !.steps = @ + 1, !.called = FALSE]
  <2>0. w.steps + 1 \in Nat
    BY <1>1 DEF Workers
  <2>1. v \in Workers
    BY <1>1, <2>0 DEF Workers, PCs, Awaits
  <2>3. v.pc \in PlainPCs /\ v.entry = w.entry /\ v.timer = w.timer
        /\ v.entered = w.entered
    BY <1>1 DEF Workers, PlainPCs
  <2>2. RecordOnly(state, v, tickets)
    BY <1>2 DEF Fits, Log, Record, RecordAndTell
  <2> HIDE DEF v
  <2> QED
    BY <1>1, <2>1, <2>2, <2>3, PlainRecord
<1>3. CASE Outgrown
  <2> DEFINE v == [w EXCEPT !.pc = "compact", !.site = "budget"]
  <2>1. v \in Workers /\ v.pc = "compact"
    BY <1>1 DEF Workers, PCs, Sites
  <2>2. Located(state, v)
    BY <1>1 DEF Workers, Located, SitesFit, WorkIsQueued, AtOwnEntry, AtArrival,
                InTurn, TurnPCs, CompactPCs, EntryAccountedFor
  <2>3. Step(v)
    BY <1>3 DEF Outgrown
  <2> QED
    BY <1>1, <2>1, <2>2, <2>3, QuietStep DEF Safe
<1>4. CASE DoesNotFit
  BY <1>1, <1>4, PlainThrow DEF DoesNotFit, Outcomes
<1> QED
  BY <1>2, <1>3, <1>4

\* The end of a turn.
LEMMA UnwindStep ==
  ASSUME Inv, Unwind
  PROVE  Safe
<1>1. /\ ~poisoned /\ life \in {"open", "closing"} /\ Located(state, w) /\ w \in Workers
      /\ w.pc = "unwind"
  BY AtWork DEF Unwind, At, Inv, AllTyped
<1> DEFINE a == [w EXCEPT !.pc = "closeBatch", !.timer = "off"]
           b == [w EXCEPT !.pc = "closeBatch", !.timer = "off", !.status = "failed"]
<1>2. \A v \in {a, b} :
        /\ v \in Workers /\ v.pc = "closeBatch" /\ v.timer = "off"
        /\ v.entry = w.entry /\ v.entered = w.entered
  BY <1>1 DEF Workers, PCs, Outcomes
<1>3. \A v \in {a, b} : Located(state, v)
  BY <1>1, <1>2 DEF Located, SitesFit, WorkIsQueued, AtOwnEntry, AtArrival, InTurn, TurnPCs,
                    CompactPCs, EntryAccountedFor
<1>4. Step(a) \/ Step(b)
  BY DEF Unwind
<1> HIDE DEF a, b
<1>5. ASSUME NEW v \in {a, b}, Step(v)
      PROVE  Safe
  BY <1>1, <1>2, <1>3, <1>5, QuietStep DEF Safe
<1> QED
  BY <1>4, <1>5

\* Where the batch is closed: by a worker at the end of its turn, or by start().
LEMMA AtCloseBatch ==
  ASSUME Inv, At("closeBatch")
  PROVE  /\ ~poisoned /\ w.pc = "closeBatch" /\ w \in Workers
         /\ life # "down"
         /\ life = "recovering" => w = Recoverer
         /\ life # "recovering" => life \in {"open", "closing"} /\ Located(state, w)
  BY DEF At, Inv, IInv, AllTyped, WorkerLocated, NoWorker

\* _close_open_batch says nothing about requests.
LEMMA ClosingSteps ==
  ASSUME Inv, CloseCall \/ CommitClosed
  PROVE  Safe
<1>1. /\ ~poisoned /\ w \in Workers /\ life # "down" /\ w.pc # "postTurn"
      /\ life # "recovering" => Located(state, w)
  BY AtCloseBatch DEF CloseCall, CommitClosed
<1>2. ASSUME NEW next, Typed(next), SameRequests(state, next), Record(next, w)
      PROVE  Safe
  BY <1>1, <1>2, QuietRecord DEF Safe, Record, RecordAndTell
<1>3. CASE CommitClosed
  <2> DEFINE numbers == [k \in DOMAIN Open |-> ActionOf(Open[k])]
             next == ToolsCommitted(state, Open, numbers)
  <2>1. Typed(next) /\ SameRequests(state, next)
    BY SameIsSame, MessageEvents
  <2>2. Record(next, w)
    BY <1>3 DEF CommitClosed
  <2> HIDE DEF next
  <2> QED
    BY <1>2, <2>1, <2>2
<1>4. CASE CloseCall
  <2> DEFINE call == Open[CHOOSE k \in Unsettled : \A l \in Unsettled : k <= l]
             a == ActionCompleted(state, Running + 1, call, "skipped")
             b == ActionCompleted(state, ActionOf(call), call, "unknown")
  <2>1. /\ Typed(a) /\ SameRequests(state, a)
        /\ Typed(b) /\ SameRequests(state, b)
    <3> HIDE DEF call
    <3> QED
      BY SameIsSame, MessageEvents
  <2>2. Record(a, w) \/ Record(b, w)
    BY <1>4 DEF CloseCall
  <2> HIDE DEF a, b
  <2> QED
    BY <1>2, <2>1, <2>2
<1> QED
  BY <1>3, <1>4

\* The entry of a turn that a guard rejected gets its outcome.
LEMMA RejectEntryStep ==
  ASSUME Inv, RejectEntry
  PROVE  Safe
<1> DEFINE c == w.entry
           outcome == w.status
           next == InputFinished(state, c, outcome)
<1>1. c \in Queue(state) /\ c \in Requests
  BY DEF RejectEntry, Queue
<1>2. /\ ~poisoned /\ w.pc = "closeBatch" /\ w \in Workers
      /\ life \in {"open", "closing"} /\ Located(state, w)
  BY <1>1, AtCloseBatch, NoRequestAssumption DEF RejectEntry, Recoverer, NoWorker
<1>3. outcome \in Outcomes
  BY <1>2 DEF Workers
<1>4. /\ next.turnRequests = state.turnRequests /\ next.currentTurn = state.currentTurn
      /\ next.requests[c] = outcome
  BY <1>1 DEF InputFinished, Inv, AllTyped, Typed, Fields
<1>5. RecordOnly(next, w, tickets)
  BY DEF RejectEntry, Record, RecordAndTell
<1>6. next = InputFinished(state, c, outcome)
  OBVIOUS
<1> HIDE DEF next
<1>7. Located(next, w)
  BY <1>1, <1>2, <1>4 DEF Located, SitesFit, WorkIsQueued, AtOwnEntry, AtArrival, InTurn,
     TurnPCs, CompactPCs, EntryAccountedFor
<1> HIDE DEF c, outcome
<1>8. w.pc # "postTurn" /\ tickets \in {tickets, Resolve({c}, outcome)}
  BY <1>2
<1> QED
  BY <1>1, <1>2, <1>3, <1>5, <1>6, <1>7, <1>8, SettleStep, Zenon

\* turn.ended gives everything the turn accepted its outcome; without post_turn hooks the
\* tickets are answered in the same step.
LEMMA EndTurnStep ==
  ASSUME Inv, EndTurn
  PROVE  Safe
<1> DEFINE outcome == w.status
           next == TurnEnded(state, outcome)
           owed == {w.entry} \cup state.turnRequests
<1>1. /\ ~poisoned /\ w.pc = "closeBatch" /\ w \in Workers /\ w.entry \notin Queue(state)
      /\ life \in {"open", "closing"} /\ Located(state, w) /\ outcome \in Outcomes
  BY AtCloseBatch DEF EndTurn, Workers
<1>2. Typed(state) /\ Consistent(state)
  BY DEF Inv, IInv, AllTyped
<1>3. /\ Typed(next) /\ Consistent(next)
      /\ next.requests = [r \in Requests |-> IF state.requests[r] = "accepted"
                                               THEN outcome ELSE state.requests[r]]
      /\ next.turnRequests = {} /\ next.currentTurn = 0
  <2>1. outcome \in Outcomes
    BY <1>1
  <2> HIDE DEF outcome
  <2> QED
    BY <1>2, <2>1, TurnEndedIs
<1>4. owed \subseteq Requests /\ \A r \in owed : next.requests[r] = outcome
  <2>1. EntryAccountedFor(state, w)
    BY <1>1 DEF Located, InTurn, TurnPCs
  <2>2. w.entry \in Requests /\ (w.entry \in state.turnRequests \/ state.requests[w.entry] = outcome)
    BY <1>1, <2>1 DEF EntryAccountedFor
  <2> HIDE DEF outcome, next
  <2> QED
    BY <1>2, <1>3, <2>2 DEF Consistent
<1>5. \A r \in Requests : state.requests[r] \in Outcomes =>
        next.requests[r] = state.requests[r]
  BY <1>3 DEF Outcomes
<1>6. \A r \in Requests : tickets[r] \in Outcomes => next.requests[r] = tickets[r]
  BY <1>5 DEF Inv, IInv, TicketsHonest
<1>7. ASSUME NEW v \in Workers, v.pc \in {"ready", "postTurn"}, v.timer = "off"
      PROVE  Located(next, v)
  <2> HIDE DEF next
  <2> QED
    BY <1>3, <1>7 DEF Located, SitesFit, WorkIsQueued, AtOwnEntry, AtArrival, InTurn, TurnPCs,
       CompactPCs
<1>8. CASE w.entered
  <2> DEFINE v == [NoWorker EXCEPT !.pc = "postTurn", !.status = outcome, !.owed = owed]
  <2>1. v \in Workers /\ v.pc = "postTurn" /\ v.timer = "off" /\ v.owed = owed
        /\ v.status = outcome
    BY <1>1, <1>4 DEF NoWorker, Workers, PCs, Awaits, Sites
  <2>2. Located(next, v)
    BY <1>7, <2>1
  <2>3. RecordOnly(next, v, tickets)
    BY <1>8 DEF EndTurn, Record, RecordAndTell
  <2> HIDE DEF next, v, outcome, owed
  <2>4. Inv'
    BY <1>1, <1>3, <1>4, <1>5, <1>6, <2>1, <2>2, <2>3, MovingRecord DEF Inv, AllTyped
  <2>5. NoneAnswered /\ state' \in {state, next}
    BY <2>3, BrokenAnswersNone DEF RecordOnly, RecordFails, NoneAnswered, Inv, AllTyped
  <2>6. CASE state' = state
    BY <2>4, <2>5, <2>6, Stutter DEF NoneAnswered, Safe
  <2>7. CASE state' = next
    BY <1>1, <1>3, <2>4, <2>5, <2>7, LedgerEndsTurn DEF Safe
  <2> QED
    BY <2>5, <2>6, <2>7
<1>9. CASE ~w.entered
  <2> DEFINE v == [NoWorker EXCEPT !.pc = "ready"]
             told == Resolve(owed, outcome)
  <2>1. v \in Workers /\ v.pc = "ready" /\ v.timer = "off"
    BY DEF NoWorker, Workers, PCs, Awaits, Sites, Outcomes
  <2>2. Located(next, v)
    BY <1>7, <2>1
  <2>3. RecordOnly(next, v, told)
    BY <1>9 DEF EndTurn, RecordAndTell
  <2>4. next.requests = state.requests
    <3>1. state.turnRequests = {}
      BY <1>1, <1>9 DEF Located, InTurn, TurnPCs
    <3> HIDE DEF next
    <3> QED
      BY <1>2, <1>3, <3>1 DEF Consistent, Typed
  <2>5. told \in [Requests -> TicketStates]
    BY <1>1 DEF Resolve, TicketStates, Inv, AllTyped
  <2>6. \A r \in Requests : \/ told[r] = tickets[r]
                            \/ /\ tickets[r] = "pending"
                               /\ told[r] = outcome /\ next.requests[r] = outcome
    BY <1>4 DEF Resolve
  <2> HIDE DEF next, v, outcome, owed, told
  <2>7. \A r \in Requests : told[r] \in Outcomes => next.requests[r] = told[r]
    BY <1>6, <2>6
  <2>8. Inv'
    BY <1>1, <1>3, <1>5, <2>1, <2>2, <2>3, <2>5, <2>7, MovingRecord
  <2>9. CASE RecordFails(next)
    BY <2>4, <2>8, <2>9, Stutter, BrokenAnswersNone DEF RecordFails, Safe, Inv, AllTyped
  <2>10. CASE state' = next /\ tickets' = told
    <3>1. LedgerStep
      BY <1>1, <2>4, <2>6, <2>10, LedgerTells DEF Outcomes
    <3> QED
      BY <2>8, <3>1 DEF Safe
  <2> QED
    BY <2>3, <2>9, <2>10 DEF RecordOnly
<1> QED
  BY <1>8, <1>9

\* The tickets are answered after post_turn, with the outcome that was recorded before.
LEMMA PostTurnStep ==
  ASSUME Inv, PostTurn
  PROVE  Safe
<1> DEFINE v == [NoWorker EXCEPT !.pc = "ready"]
<1>1. w.pc = "postTurn" /\ w \in Workers /\ \A r \in w.owed : state.requests[r] = w.status
  BY DEF PostTurn, Inv, IInv, AllTyped, TicketsHonest
<1>2. \A r \in Requests : \/ tickets'[r] = tickets[r]
                          \/ /\ tickets[r] = "pending" /\ r \in w.owed
                             /\ tickets'[r] = w.status
  BY DEF PostTurn, Resolve
<1>3. v \in Workers /\ v.pc = "ready" /\ v.timer = "off" /\ w' = v /\ state' = state
      /\ life' = life /\ poisoned' = poisoned
  BY DEF PostTurn, NoWorker, Workers, PCs, Awaits, Sites, Outcomes
<1>4. w.status \in Outcomes
  BY <1>1 DEF Workers
<1>5. tickets' \in [Requests -> TicketStates]
  BY <1>4 DEF PostTurn, Resolve, Inv, AllTyped, TicketStates
<1>6. life # "down" /\ ~poisoned => life \in {"open", "closing"} /\ Located(state, w)
  BY <1>1 DEF Inv, IInv, AllTyped, WorkerLocated, NoWorker, Recoverer
<1> HIDE DEF v
<1>7. ~poisoned /\ life # "down" => Located(state', w')
  BY <1>1, <1>3, <1>6 DEF Located, SitesFit, WorkIsQueued, AtOwnEntry, AtArrival, InTurn,
     TurnPCs, CompactPCs
<1>8. WorkerLocated'
  BY <1>1, <1>3, <1>6, <1>7 DEF WorkerLocated, Inv, IInv, NoWorker
<1>9. AllTyped' /\ Consistent(state)'
  BY <1>3, <1>5 DEF AllTyped, Inv, IInv, Consistent
<1>10. TicketsHonest'
  BY <1>1, <1>2, <1>3 DEF TicketsHonest, Inv, IInv
<1>11. LedgerStep
  BY <1>1, <1>2, <1>3, <1>4, LedgerTells DEF Outcomes
<1> QED
  BY <1>8, <1>9, <1>10, <1>11 DEF Safe, Inv, IInv

-------------------------------------------------------------------------------
(* Compaction.                                                             *)

\* Where a compaction is.
LEMMA AtCompact ==
  ASSUME Inv, ~poisoned, w.pc \in CompactPCs
  PROVE  /\ life \in {"open", "closing"} /\ Located(state, w) /\ w \in Workers
         /\ w.site \in {"head", "tail", "budget", "top"}
         /\ w.site # "top" => InTurn(w) /\ w.entered /\ state.currentTurn # 0
         /\ w.site = "top" => ~InTurn(w) /\ state.currentTurn = 0
         /\ w.pc \notin {"none", "closeBatch", "unwind", "preTurn", "postTurn"}
  BY AtWork DEF CompactPCs, Located, SitesFit, InTurn, TurnPCs, Inv, AllTyped

\* A compaction that is asked for ends, with or without success.
LEMMA FinishCompactStep ==
  ASSUME Inv, ~poisoned, w.pc \in CompactPCs, w.site # "budget", NEW outcome \in Outcomes,
         FinishCompact(outcome)
  PROVE  Safe
<1> DEFINE c == Current
           next == InputFinished(state, c, outcome)
           told == Resolve({c}, outcome)
<1>1. /\ life \in {"open", "closing"} /\ Located(state, w) /\ w \in Workers
      /\ w.site \in {"head", "tail", "top"}
      /\ w.site # "top" => InTurn(w) /\ AtArrival(w)
      /\ w.site = "top" => state.currentTurn = 0 /\ AtOwnEntry(w)
      /\ w.pc \notin {"none", "closeBatch", "unwind", "preTurn", "postTurn"}
  BY AtCompact DEF AtArrival, AtOwnEntry
<1>2. c \in Queue(state) /\ c \in Requests
  BY <1>1, CurrentIsQueued
<1>3. /\ next.queue = [state.queue EXCEPT ![c] = NotThere]
      /\ next.turnRequests = state.turnRequests /\ next.currentTurn = state.currentTurn
  BY DEF InputFinished, Inv, AllTyped, Typed, Fields
<1>4. /\ next = InputFinished(state, c, outcome)
      /\ told \in {tickets, Resolve({c}, outcome)}
  OBVIOUS
<1>5. CASE w.site = "top"
  <2> DEFINE v == [NoWorker EXCEPT !.pc = "drain"]
  <2>1. v \in Workers /\ v.pc = "drain" /\ v.timer = "off"
    BY DEF NoWorker, Workers, PCs, Sites, Outcomes
  <2>2. RecordOnly(next, v, told)
    BY <1>5 DEF FinishCompact, RecordAndTell
  <2> HIDE DEF next, told, c, v
  <2>3. Located(next, v)
    BY <1>1, <1>3, <1>5, <2>1 DEF Located, SitesFit, WorkIsQueued, AtOwnEntry, AtArrival,
       InTurn, TurnPCs, CompactPCs
  <2>4. v.pc # "postTurn"
    BY <2>1
  <2> QED
    BY <1>1, <1>2, <1>4, <2>1, <2>2, <2>3, <2>4, SettleStep, Zenon
<1>6. CASE w.site # "top"
  <2>1. RecordOnly(next, NextArrival, told)
    BY <1>6 DEF FinishCompact, RecordAndTell
  <2>2. c = First(w.arrivals).id
    BY <1>1, <1>6 DEF Current
  <2> HIDE DEF next, told, c
  <2>3. StillQueued(next, w.arrivals \ {First(w.arrivals)})
    BY <1>1, <1>3, <1>6, <2>2, OthersStay DEF Located, WorkIsQueued, Inv, AllTyped
  <2>4. Located(next, NextArrival) /\ NextArrival \in Workers /\ NextArrival.pc # "postTurn"
    BY <1>1, <1>3, <1>6, <2>3, NextArrivalIsLocated, NextArrivalIsWorker
  <2> QED
    BY <1>1, <1>2, <1>4, <2>1, <2>4, SettleStep, Zenon
<1> QED
  BY <1>5, <1>6

\* A compaction returns to where it was called.
LEMMA CompactReturnsStep ==
  ASSUME Inv, ~poisoned, w.pc \in CompactPCs, CompactReturns
  PROVE  Safe
<1> DEFINE v == [w EXCEPT !.pc = "fit", !.site = "head"]
<1>1. CASE w.site # "budget"
  BY <1>1, FinishCompactStep DEF CompactReturns, Outcomes
<1>2. CASE w.site = "budget"
  <2>1. /\ life \in {"open", "closing"} /\ Located(state, w) /\ w \in Workers
        /\ InTurn(w) /\ w.entered /\ state.currentTurn # 0
    BY <1>2, AtCompact
  <2>2. v \in Workers /\ v.pc = "fit" /\ v.site = "head" /\ v.timer = w.timer
        /\ v.entered /\ v.entry = w.entry
    BY <2>1 DEF Workers, PCs, Sites
  <2>3. Step(v)
    BY <1>2 DEF CompactReturns
  <2> HIDE DEF v
  <2>4. Located(state, v)
    BY <1>2, <2>1, <2>2 DEF Located, SitesFit, WorkIsQueued, AtOwnEntry, AtArrival, InTurn,
       TurnPCs, CompactPCs, EntryAccountedFor
  <2> QED
    BY <2>1, <2>2, <2>3, <2>4, QuietStep DEF Safe
<1> QED
  BY <1>1, <1>2

\* A compaction raises where it was called.
LEMMA CompactRaisesStep ==
  ASSUME Inv, ~poisoned, w.pc \in CompactPCs, NEW outcome \in Outcomes,
         CompactRaises(outcome)
  PROVE  Safe
<1>1. CASE w.site # "budget"
  BY <1>1, FinishCompactStep DEF CompactRaises, Outcomes
<1>2. CASE w.site = "budget"
  BY <1>2, AtCompact, ThrowStep DEF CompactRaises
<1> QED
  BY <1>1, <1>2

\* The worker dies of a poisoned runtime, or outside a turn.
LEMMA DieStep ==
  ASSUME Inv, Die, poisoned \/ (life \in {"open", "closing"} /\ state.currentTurn = 0)
  PROVE  Safe
<1>1. AllTyped'
  BY BrokenAnswersNone, NoWorkerIsWorker DEF Inv, AllTyped, Die
<1>2. Consistent(state)'
  BY DEF Inv, IInv, Consistent, Die
<1>3. WorkerLocated'
  <2>1. state.currentTurn = 0 => Located(state, NoWorker)
    BY DEF NoWorker, Located, SitesFit, WorkIsQueued, AtOwnEntry, AtArrival, InTurn,
           TurnPCs, CompactPCs
  <2>2. state.currentTurn = 0 => Located(state', w')
    BY <2>1 DEF Die
  <2> QED
    BY <2>2 DEF Die, WorkerLocated, Inv, IInv
<1>4. TicketsHonest'
  BY BrokenAnswersNone DEF Inv, IInv, AllTyped, Die, TicketsHonest, NoWorker
<1>5. LedgerStep
  BY Stutter, BrokenAnswersNone DEF Die, Inv, AllTyped
<1> QED
  BY <1>1, <1>2, <1>3, <1>4, <1>5 DEF Inv, IInv, Safe

\* A record inside a compaction, about something else than requests.
LEMMA CompactRecord ==
  ASSUME Inv, ~poisoned, w.pc \in CompactPCs, NEW pc \in CompactPCs,
         NEW next, Typed(next), SameRequests(state, next),
         RecordOnly(next, [w EXCEPT !.pc = pc], tickets)
  PROVE  Safe
<1> DEFINE v == [w EXCEPT !.pc = pc]
<1>1. /\ life \in {"open", "closing"} /\ Located(state, w) /\ w \in Workers
  BY AtCompact
<1>2. v \in Workers /\ v.pc # "postTurn"
  BY <1>1 DEF Workers, PCs, Awaits, Active, CompactPCs
<1>3. Located(state, v)
  BY <1>1 DEF Workers, Located, SitesFit, WorkIsQueued, AtOwnEntry, AtArrival, InTurn,
              TurnPCs, CompactPCs, EntryAccountedFor
<1>4. RecordOnly(next, v, tickets)
  OBVIOUS
<1> HIDE DEF v
<1> QED
  BY <1>1, <1>2, <1>3, <1>4, QuietRecord DEF Safe

\* The steps of _manual_compact and _compact_now.
LEMMA CompactSteps ==
  ASSUME Inv, CompactStep, "diagnostic" \notin May
  PROVE  Safe
<1>1. ~poisoned /\ w.pc \in CompactPCs
  BY DEF CompactStep, StartCompact, CallCompactor, CommitSummary, SummaryFails,
         SummaryInterrupted, PostCompact, At, CompactPCs
<1>2. ASSUME NEW pc \in CompactPCs, Log([w EXCEPT !.pc = pc])
      PROVE  Safe
  BY <1>1, <1>2, SameIsSame, CompactRecord DEF Log, Record, RecordAndTell
<1>3. "failed" \in Outcomes /\ "limited" \in Outcomes
  BY DEF Outcomes
<1>4. CASE StartCompact
  BY <1>1, <1>2, <1>3, <1>4, CompactReturnsStep, CompactRaisesStep DEF StartCompact, CompactPCs
<1>5. CASE CallCompactor
  BY <1>1, <1>2, <1>3, <1>5, CompactRaisesStep DEF CallCompactor, CompactPCs
<1>6. CASE CommitSummary
  <2>1. PICK split \in Splits :
          Record(CompactCommitted(state, split), [w EXCEPT !.pc = "postCompact"])
    BY <1>6 DEF CommitSummary
  <2>2. /\ RecordOnly(CompactCommitted(state, split), [w EXCEPT !.pc = "postCompact"], tickets)
        /\ Typed(CompactCommitted(state, split))
        /\ SameRequests(state, CompactCommitted(state, split))
        /\ "postCompact" \in CompactPCs
    BY <2>1, SameIsSame, MessageEvents DEF Record, RecordAndTell, CompactPCs
  <2> QED
    BY <1>1, <2>2, CompactRecord
<1>7. CASE SummaryFails
  BY <1>1, <1>3, <1>7, CompactRaisesStep DEF SummaryFails
<1>8. CASE SummaryInterrupted
  <2>1. CASE Die /\ w.site = "top"
    BY <1>1, <2>1, AtCompact, DieStep
  <2>2. CASE Throw(Interruption) /\ w.site # "top"
    BY <1>1, <2>2, AtCompact, ThrowStep, InterruptionIsOutcome
  <2> QED
    BY <1>8, <2>1, <2>2 DEF SummaryInterrupted
<1>9. CASE PostCompact
  BY <1>1, <1>9, CompactReturnsStep DEF PostCompact
<1> QED
  BY <1>4, <1>5, <1>6, <1>7, <1>8, <1>9 DEF CompactStep

\* The worker of a poisoned runtime stops.
LEMMA StopPoisonedStep ==
  ASSUME Inv, StopPoisoned
  PROVE  Safe
<1>1. Die /\ poisoned
  BY DEF StopPoisoned
<1> QED
  BY <1>1, DieStep, Zenon

\* turn_timeout expires in an await of the turn.
LEMMA TurnTimesOutStep ==
  ASSUME Inv, TurnTimesOut
  PROVE  Safe
<1> DEFINE a == [w EXCEPT !.timer = "fired", !.hit = TRUE]
           b == [Thrown("limited") EXCEPT !.timer = "fired"]
<1>1. w.pc \notin {"none", "closeBatch"} /\ ~poisoned /\ w.timer = "on"
  BY DEF TurnTimesOut, Awaits, Active
<1>2. life \in {"open", "closing"} /\ Located(state, w) /\ w \in Workers /\ InTurn(w)
      /\ w.pc # "postTurn"
  BY <1>1, AtWork DEF Located, Inv, AllTyped, InTurn, TurnPCs, CompactPCs
<1>3. CASE Step(a)
  <2>1. a \in Workers /\ a.pc = w.pc /\ a.entered = w.entered /\ a.entry = w.entry
        /\ a.site = w.site /\ a.arrivals = w.arrivals /\ a.status = w.status
    BY <1>2 DEF Workers
  <2> HIDE DEF a
  <2>2. Located(state, a)
    BY <1>2, <2>1 DEF Located, SitesFit, WorkIsQueued, AtOwnEntry, AtArrival, InTurn,
       TurnPCs, CompactPCs, EntryAccountedFor
  <2> QED
    BY <1>1, <1>2, <1>3, <2>1, <2>2, QuietStep DEF Safe
<1>4. CASE Step(b)
  <2>1. Thrown("limited") \in Workers /\ Located(state, Thrown("limited"))
        /\ Thrown("limited").pc = "unwind"
    BY <1>1, <1>2, ThrownIsLocated DEF Outcomes
  <2> DEFINE t == Thrown("limited")
  <2> HIDE DEF t
  <2>2. t \in Workers /\ Located(state, t) /\ t.pc = "unwind" /\ b = [t EXCEPT !.timer = "fired"]
    BY <2>1 DEF t
  <2> HIDE DEF b
  <2>3. b \in Workers /\ b.pc = "unwind" /\ b.entered = t.entered /\ b.entry = t.entry
        /\ b.site = t.site
    BY <2>2 DEF Workers
  <2>4. Located(state, b)
    BY <2>2, <2>3 DEF Located, SitesFit, WorkIsQueued, AtOwnEntry, AtArrival, InTurn,
       TurnPCs, CompactPCs, EntryAccountedFor
  <2> QED
    BY <1>1, <1>2, <1>4, <2>3, <2>4, QuietStep DEF Safe
<1> QED
  BY <1>3, <1>4 DEF TurnTimesOut

-------------------------------------------------------------------------------
(* start().                                                                *)

\* start() replays the log.
LEMMA StartItself ==
  ASSUME Inv, Start
  PROVE  Safe
<1>1. AllTyped'
  BY NoWorkerIsWorker DEF Inv, AllTyped, Start, Recoverer
<1>2. Consistent(state)'
  BY DEF Inv, IInv, Consistent, Start
<1>3. WorkerLocated' /\ TicketsHonest'
  BY DEF Inv, IInv, WorkerLocated, TicketsHonest, Start, Recoverer, NoWorker
<1>4. LedgerStep
  BY Stutter DEF Start
<1> QED
  BY <1>1, <1>2, <1>3, <1>4 DEF Inv, IInv, Safe

\* _recover ends the turn that the process left open.
LEMMA RecoverTurnStep ==
  ASSUME Inv, RecoverTurn
  PROVE  Safe
<1> DEFINE next == TurnEnded(state, "interrupted")
<1>1. ~poisoned /\ life = "recovering" /\ w = Recoverer /\ w \in Workers
  BY AtCloseBatch DEF RecoverTurn, Recovered
<1>2. /\ Typed(next) /\ Consistent(next)
      /\ next.requests = [r \in Requests |-> IF state.requests[r] = "accepted"
                                               THEN "interrupted" ELSE state.requests[r]]
  BY TurnEndedIs DEF Inv, IInv, AllTyped, Outcomes
<1>3. RecordOnly(next, w, tickets)
  BY DEF RecoverTurn, Record, RecordAndTell
<1> HIDE DEF next
<1>4. \A r \in Requests : state.requests[r] \in Outcomes =>
        next.requests[r] = state.requests[r]
  BY <1>2 DEF Outcomes
<1>5. \A r \in Requests : tickets[r] \in Outcomes => next.requests[r] = tickets[r]
  BY <1>4 DEF Inv, IInv, TicketsHonest
<1>6. w.pc # "postTurn"
  BY <1>1 DEF Recoverer, NoWorker
<1>7. Inv'
  BY <1>1, <1>2, <1>3, <1>4, <1>5, <1>6, MovingRecord DEF Inv, AllTyped
<1>8. NoneAnswered /\ state' \in {state, next}
  BY <1>3, BrokenAnswersNone DEF RecordOnly, RecordFails, NoneAnswered, Inv, AllTyped
<1>9. CASE state' = state
  BY <1>7, <1>8, <1>9, Stutter DEF NoneAnswered, Safe
<1>10. CASE state' = next
  BY <1>2, <1>7, <1>8, <1>10, LedgerEndsTurn DEF Safe, Outcomes
<1> QED
  BY <1>8, <1>9, <1>10

\* _recover ends a job that the process left running.
LEMMA RecoverJobStep ==
  ASSUME Inv, RecoverJob
  PROVE  Safe
<1> DEFINE job == CHOOSE j \in LostJobs : \A k \in LostJobs : j <= k
           next == JobCompleted(state, job, "unknown")
<1>1. ~poisoned /\ life = "recovering" /\ w \in Workers /\ w.pc # "postTurn"
  BY AtCloseBatch DEF RecoverJob, Recovered
<1>2. RecordOnly(next, w, tickets)
  BY DEF RecoverJob, Record, RecordAndTell
<1> HIDE DEF job
<1>3. Typed(next) /\ SameRequests(state, next)
  BY SameIsSame, JobEvents
<1> HIDE DEF next
<1> QED
  BY <1>1, <1>2, <1>3, QuietRecord DEF Safe

\* A worker is started when there is none.
LEMMA EnsuredWorker ==
  ASSUME NEW v \in Workers, NEW s, Located(s, v), Typed(s)
  PROVE  /\ EnsureWorker(v, s) \in Workers /\ Located(s, EnsureWorker(v, s))
         /\ EnsureWorker(v, s).pc = "postTurn" => EnsureWorker(v, s) = v
<1> DEFINE e == [NoWorker EXCEPT !.pc = "ready"]
<1>1. CASE v.pc = "none" /\ Queue(s) # {}
  <2>1. EnsureWorker(v, s) = e
    BY <1>1 DEF EnsureWorker
  <2>2. e \in Workers /\ e.pc = "ready" /\ e.timer = "off"
    BY DEF NoWorker, Workers, PCs, Awaits, Sites, Outcomes
  <2> HIDE DEF e
  <2>3. s.currentTurn = 0
    BY <1>1 DEF Located, InTurn, TurnPCs, CompactPCs
  <2>4. Located(s, e)
    BY <2>2, <2>3 DEF Located, SitesFit, WorkIsQueued, AtOwnEntry, AtArrival, InTurn,
       TurnPCs, CompactPCs
  <2> QED
    BY <2>1, <2>2, <2>4
<1>2. CASE ~ (v.pc = "none" /\ Queue(s) # {})
  <2>1. EnsureWorker(v, s) = v
    BY <1>2 DEF EnsureWorker
  <2> QED
    BY <2>1
<1> QED
  BY <1>1, <1>2

\* session.resumed, and a worker for what is queued.
LEMMA ResumeStep ==
  ASSUME Inv, Resume
  PROVE  Safe
<1>1. ~poisoned /\ life = "recovering" /\ state.currentTurn = 0
  BY DEF Resume, Recovered, At
<1>2. Typed(state) /\ Consistent(state)
  BY DEF Inv, IInv, AllTyped
<1>3. CASE RecordFails(state)
  <2>1. Inv'
    BY <1>1, <1>2, <1>3, FailedRecord
  <2>2. LedgerStep
    BY <1>3, Stutter, BrokenAnswersNone DEF RecordFails, Inv, AllTyped
  <2> QED
    BY <2>1, <2>2 DEF Safe
<1>4. CASE /\ life' = "open" /\ w' = EnsureWorker(NoWorker, state)
           /\ UNCHANGED <<state, poisoned, tickets, faults>>
  <2>1. Located(state, NoWorker)
    BY <1>1 DEF NoWorker, Located, SitesFit, WorkIsQueued, AtOwnEntry, AtArrival, InTurn,
           TurnPCs, CompactPCs
  <2>2. w' \in Workers /\ Located(state, w') /\ w'.pc # "postTurn"
    BY <1>2, <1>4, <2>1, NoWorkerIsWorker, EnsuredWorker DEF NoWorker
  <2>3. AllTyped' /\ Consistent(state)'
    BY <1>4, <2>2 DEF Inv, IInv, AllTyped, Consistent
  <2>4. WorkerLocated'
    BY <1>4, <2>2 DEF WorkerLocated
  <2>5. TicketsHonest'
    BY <1>4, <2>2 DEF Inv, IInv, TicketsHonest
  <2>6. LedgerStep
    BY <1>4, Stutter
  <2> QED
    BY <2>3, <2>4, <2>5, <2>6 DEF Inv, IInv, Safe
<1> QED
  BY <1>3, <1>4 DEF Resume

-------------------------------------------------------------------------------
(* Ingress, jobs, the end of the process.                                  *)

\* Steps of other tasks that leave the requests, the tickets and the worker's place
\* alone.
LEMMA BystanderStep ==
  ASSUME Inv, life # "down", life' = life \/ (life = "open" /\ life' = "closing"),
         life # "recovering", poisoned' \in {poisoned, TRUE},
         Typed(state'), SameRequests(state, state'), tickets' = tickets,
         w' \in Workers, NEW h \in BOOLEAN, w' \in {w, [w EXCEPT !.hit = h]}
  PROVE  Safe
<1>1. /\ w'.pc = w.pc /\ w'.site = w.site /\ w'.entry = w.entry /\ w'.arrivals = w.arrivals
      /\ w'.entered = w.entered /\ w'.timer = w.timer /\ w'.status = w.status
      /\ w'.owed = w.owed
  BY DEF Inv, AllTyped, Workers
<1>2. AllTyped'
  BY DEF Inv, AllTyped
<1>3. Consistent(state')
  BY SameRequestsKeep DEF Inv, IInv
<1>4. WorkerLocated'
  <2>1. SUFFICES ASSUME ~poisoned'
                 PROVE  Located(state', w')
    BY DEF WorkerLocated, Inv, AllTyped
  <2>2. Located(state, w)
    BY <2>1 DEF Inv, IInv, AllTyped, WorkerLocated
  <2>3. Located(state', w)
    BY <2>2, SameRequestsKeep
  <2> QED
    BY <1>1, <2>3 DEF Located, SitesFit, WorkIsQueued, AtOwnEntry, AtArrival, InTurn,
       TurnPCs, CompactPCs, EntryAccountedFor
<1>5. TicketsHonest'
  BY <1>1 DEF Inv, IInv, TicketsHonest, SameRequests
<1>6. LedgerStep
  BY Stutter DEF SameRequests
<1> QED
  BY <1>2, <1>3, <1>4, <1>5, <1>6 DEF Safe, Inv, IInv

\* A new input leaves everything a worker relies on in place.
LEMMA EnqueuedKeepsLocated ==
  ASSUME Typed(state), NEW r \in Requests, state.requests[r] = "absent", Consistent(state),
         NEW t, t.requests = [state.requests EXCEPT ![r] = "queued"],
         NEW e, e.seq # 0, t.queue = [state.queue EXCEPT ![r] = e],
         t.turnRequests = state.turnRequests, t.currentTurn = state.currentTurn,
         NEW v \in Workers, Located(state, v)
  PROVE  Located(t, v)
<1>1. \A q \in Queue(state) : q # r /\ q \in Queue(t) /\ t.queue[q] = state.queue[q]
  BY DEF Queue, Consistent, Typed
<1>2. WorkIsQueued(t, v)
  BY <1>1 DEF Located, WorkIsQueued, StillQueued
<1>3. EntryAccountedFor(state, v) => EntryAccountedFor(t, v)
  BY <1>1 DEF EntryAccountedFor, Typed, Workers, Outcomes
<1> QED
  BY <1>2, <1>3 DEF Located

\* submit() with a new request_id.
LEMMA SubmitStep ==
  ASSUME Inv, NEW r \in Requests, Submit(r)
  PROVE  Safe
<1> DEFINE target == IF Mode[r] = "steer" THEN state.currentTurn ELSE 0
           next == InputEnqueued(state, r, target)
           e == [seq |-> state.clock + 1, target |-> target]
<1>1. ~poisoned /\ life = "open" /\ state.requests[r] = "absent"
  BY DEF Submit, Admitted
<1>2. Typed(state) /\ Consistent(state) /\ Located(state, w) /\ w \in Workers
  BY <1>1 DEF Inv, IInv, AllTyped, WorkerLocated
<1>3. target \in Nat /\ e.seq # 0
  BY <1>2 DEF Typed
<1>4. /\ Typed(next) /\ Consistent(next)
      /\ next.requests = [state.requests EXCEPT ![r] = "queued"]
      /\ next.queue = [state.queue EXCEPT ![r] = e]
      /\ next.turnRequests = state.turnRequests /\ next.currentTurn = state.currentTurn
  <2> HIDE DEF target
  <2> QED
    BY <1>1, <1>2, <1>3, InputEnqueuedIs
<1> HIDE DEF e
<1>5. \/ /\ state' = next
         /\ tickets' = [tickets EXCEPT ![r] = "pending"]
         /\ w' = EnsureWorker(w, next)
         /\ UNCHANGED <<life, poisoned, faults>>
      \/ /\ poisoned' = TRUE
         /\ state' \in {state, next}
         /\ UNCHANGED <<life, w, tickets>>
  BY DEF Submit
<1> HIDE DEF next, target
<1>6. Located(next, w)
  BY <1>1, <1>2, <1>3, <1>4, EnqueuedKeepsLocated
<1>7. /\ EnsureWorker(w, next) \in Workers /\ Located(next, EnsureWorker(w, next))
      /\ EnsureWorker(w, next).pc = "postTurn" => EnsureWorker(w, next) = w
  BY <1>2, <1>4, <1>6, EnsuredWorker
<1>8. \A q \in Requests : state.requests[q] \in Outcomes =>
        next.requests[q] = state.requests[q]
  BY <1>1, <1>4 DEF Outcomes
<1>9. tickets[r] \notin Outcomes
  BY <1>1 DEF Inv, IInv, TicketsHonest, Outcomes
<1>10. AllTyped'
  BY <1>2, <1>4, <1>5, <1>7 DEF Inv, AllTyped, TicketStates
<1>11. Consistent(state)'
  <2>1. state' \in {state, next}
    BY <1>5
  <2> QED
    BY <1>2, <1>4, <2>1
<1>12. WorkerLocated'
  BY <1>1, <1>5, <1>7 DEF WorkerLocated
<1>13. TicketsHonest'
  <2>1. \A q \in Requests : tickets'[q] \in Outcomes => state'.requests[q] = tickets'[q]
    BY <1>5, <1>8 DEF Inv, IInv, AllTyped, TicketsHonest, Outcomes
  <2>2. w'.pc = "postTurn" => w' = w
    BY <1>5, <1>7
  <2>3. w'.pc = "postTurn" => \A q \in w'.owed : state'.requests[q] = w'.status
    BY <1>2, <1>5, <1>8, <2>2 DEF Inv, IInv, TicketsHonest, Workers
  <2> QED
    BY <2>1, <2>3 DEF TicketsHonest
<1>14. LedgerStep
  <2>1. NoneAnswered
    BY <1>5, <1>9 DEF NoneAnswered, Outcomes, Inv, AllTyped
  <2>2. CASE state' = state
    BY <2>1, <2>2, Stutter DEF NoneAnswered
  <2>3. CASE state' = next
    BY <1>1, <1>4, <2>1, <2>3, LedgerEnqueues
  <2> QED
    BY <1>5, <2>2, <2>3
<1> QED
  BY <1>10, <1>11, <1>12, <1>13, <1>14 DEF Safe, Inv, IInv

\* submit() with a request_id that is on record.
LEMMA ResubmitStep ==
  ASSUME Inv, NEW r \in Requests, Resubmit(r)
  PROVE  Safe
<1>1. ~poisoned /\ life = "open"
  BY DEF Resubmit, Admitted
<1>2. Typed(state) /\ Consistent(state) /\ Located(state, w) /\ w \in Workers
  BY <1>1 DEF Inv, IInv, AllTyped, WorkerLocated
<1>3. /\ w' = EnsureWorker(w, state)
      /\ UNCHANGED <<state, life, poisoned, faults, Others>>
      /\ tickets' = [tickets EXCEPT ![r] =
           IF @ # "none" THEN @
           ELSE IF state.requests[r] \in Outcomes THEN state.requests[r] ELSE "pending"]
  BY DEF Resubmit
<1>4. w' \in Workers /\ Located(state, w') /\ (w'.pc = "postTurn" => w' = w)
  BY <1>2, <1>3, EnsuredWorker
<1>5. \A q \in Requests :
        \/ tickets'[q] = tickets[q]
        \/ tickets'[q] \notin Outcomes /\ tickets[q] \notin Outcomes
        \/ /\ tickets[q] \notin Outcomes
           /\ tickets'[q] \in Outcomes /\ tickets'[q] = state.requests[q]
  BY <1>3 DEF Inv, AllTyped, Outcomes
<1>6. tickets' \in [Requests -> TicketStates]
  BY <1>3 DEF Inv, AllTyped, TicketStates
<1>7. AllTyped' /\ Consistent(state)'
  BY <1>3, <1>4, <1>6 DEF Inv, IInv, AllTyped, Consistent
<1>8. WorkerLocated'
  BY <1>1, <1>3, <1>4 DEF WorkerLocated
<1>9. TicketsHonest'
  BY <1>3, <1>4, <1>5 DEF Inv, IInv, TicketsHonest
<1>10. LedgerStep
  BY <1>3, <1>5, LedgerTells
<1> QED
  BY <1>7, <1>8, <1>9, <1>10 DEF Safe, Inv, IInv

\* cancel().
LEMMA CancelStep ==
  ASSUME Inv, Cancel
  PROVE  Safe
<1>1. /\ life = "open" /\ life' = life /\ state' = state /\ tickets' = tickets
      /\ poisoned' \in {poisoned, TRUE} /\ w' \in {w, [w EXCEPT !.hit = TRUE]}
  BY DEF Cancel, Admitted
<1>2. w' \in Workers
  BY <1>1 DEF Inv, AllTyped, Workers
<1>3. Typed(state') /\ SameRequests(state, state')
  BY <1>1, SameIsSame
<1> QED
  BY <1>1, <1>2, <1>3, BystanderStep

\* _run_job ends.
LEMMA JobEndsStep ==
  ASSUME Inv, NEW j, JobEnds(j)
  PROVE  Safe
<1>1. /\ life \in {"open", "closing"} /\ life' = life /\ w' = w /\ tickets' = tickets
      /\ poisoned' \in {poisoned, TRUE} /\ w \in Workers
  BY DEF JobEnds, Inv, AllTyped
<1>2. \/ state' = state
      \/ \E status \in {"finished", "unknown"} : state' = JobCompleted(state, j, status)
  BY DEF JobEnds
<1>3. Typed(state') /\ SameRequests(state, state')
  BY <1>2, SameIsSame, JobEvents
<1> QED
  BY <1>1, <1>3, BystanderStep

\* close() begins.
LEMMA CloseStep ==
  ASSUME Inv, Close
  PROVE  Safe
<1>1. /\ life = "open" /\ life' = "closing" /\ w' = w /\ tickets' = tickets /\ state' = state
      /\ poisoned' = poisoned /\ w \in Workers
  BY DEF Close, Inv, AllTyped
<1>2. Typed(state') /\ SameRequests(state, state')
  BY <1>1, SameIsSame
<1> QED
  BY <1>1, <1>2, BystanderStep

\* The end of the process.
LEMMA DownStep ==
  ASSUME Inv, Down
  PROVE  Safe
<1>1. AllTyped'
  BY NoWorkerIsWorker DEF Inv, AllTyped, Down, TicketStates
<1>2. Consistent(state)'
  BY DEF Inv, IInv, Consistent, Down
<1>3. WorkerLocated'
  BY DEF Down, WorkerLocated
<1>4. TicketsHonest'
  BY DEF Down, TicketsHonest, NoWorker, Outcomes
<1>5. LedgerStep
  BY LedgerForgets DEF Down
<1> QED
  BY <1>1, <1>2, <1>3, <1>4, <1>5 DEF Safe, Inv, IInv

-------------------------------------------------------------------------------
(* All together.                                                           *)

\* A session without a log.
LEMMA InvInit ==
  ASSUME Init
  PROVE  Inv /\ Ledger!Init
<1>1. Typed(state)
  BY DEF Init, InitialState, Typed, Fields, Entry, NotThere, Statuses
<1>2. AllTyped
  BY <1>1, NoWorkerIsWorker DEF Init, AllTyped, TicketStates
<1>3. Consistent(state)
  BY DEF Init, InitialState, Consistent, NotThere
<1>4. WorkerLocated /\ TicketsHonest
  BY DEF Init, WorkerLocated, TicketsHonest, NoWorker, Outcomes
<1>5. Ledger!Init
  BY DEF Init, InitialState, Ledger!Init, Outcomes
<1> QED
  BY <1>2, <1>3, <1>4, <1>5 DEF Inv, IInv

\* The steps of _drain, _run_turn, _accept and _safe_boundary.
LEMMA TurnSteps ==
  ASSUME Inv, TurnStep, "diagnostic" \notin May
  PROVE  Safe
<1>1. ~PostUserFails /\ ~PostTurnFails
  BY DEF PostUserFails, PostTurnFails
<1> QED
  BY <1>1, StartTurnStep, PreTurnStep, AcceptUserStep, RefuseUserStep, PostUserStep,
     EnterBoundaryStep, TakeNotificationStep, TakeInputStep, LeaveHeadStep, LeaveTailStep,
     BudgetSteps, UnwindStep, ClosingSteps, RejectEntryStep, EndTurnStep, PostTurnStep
  DEF TurnStep

\* Every step keeps the invariant and is a step of the ledger.
LEMMA NextStep ==
  ASSUME Inv, [Next]_vars, "diagnostic" \notin May
  PROVE  Safe
<1>1. CASE WorkerStep
  BY <1>1, DrainSteps, TurnSteps, StepSteps, CompactSteps, StopPoisonedStep DEF WorkerStep
<1>2. CASE StartStep
  BY <1>2, StartItself, RecoverTurnStep, RecoverJobStep, ResumeStep DEF StartStep
<1>3. CASE TurnTimesOut
  BY <1>3, TurnTimesOutStep
<1>4. CASE \E r \in Requests : Submit(r) \/ Resubmit(r)
  BY <1>4, SubmitStep, ResubmitStep
<1>5. CASE Cancel
  BY <1>5, CancelStep
<1>6. CASE \E j \in tasks : JobEnds(j)
  BY <1>6, JobEndsStep
<1>7. CASE Close
  BY <1>7, CloseStep
<1>8. CASE Closed \/ Crash
  BY <1>8, DownStep DEF Closed, Crash
<1>9. CASE UNCHANGED vars
  <2>1. Inv'
    BY <1>9 DEF vars, Inv, AllTyped, IInv, Consistent, WorkerLocated, TicketsHonest
  <2>2. LedgerStep
    BY <1>9, Stutter DEF vars
  <2> QED
    BY <2>1, <2>2 DEF Safe
<1> QED
  BY <1>1, <1>2, <1>3, <1>4, <1>5, <1>6, <1>7, <1>8, <1>9 DEF Next

\* A ticket that has been answered shows the outcome that is on record, and the
\* worker is where its place in the program says (runtime.py: _tickets, _run_turn).
THEOREM InductiveInvariant ==
  ASSUME "diagnostic" \notin May
  PROVE  Spec => []Inv
<1>1. Init => Inv
  BY InvInit
<1>2. Inv /\ [Next]_vars => Inv'
  BY NextStep DEF Safe
<1> QED
  BY <1>1, <1>2, PTL DEF Spec

\* The reducer's three places for a request agree, in every state of every run:
\* the queue, the status and the list of the running turn (state.py, runtime.py).
THEOREM RequestsAlwaysConsistent ==
  ASSUME "diagnostic" \notin May
  PROVE  Spec => []RequestsConsistent
<1>1. Inv => RequestsConsistent
  BY DEF Inv, AllTyped, IInv, Consistent, RequestsConsistent, Queue, Typed
<1> QED
  BY <1>1, InductiveInvariant, PTL

\* The runtime implements the request ledger: whatever is submitted, cancelled,
\* refused, interrupted or lost in a crash, a request goes through its states once
\* and whoever is told an outcome is told the recorded one.
THEOREM ImplementsLedger ==
  ASSUME "diagnostic" \notin May
  PROVE  Spec => LedgerSpec
<1>1. Init => Ledger!Init
  BY InvInit
<1>2. Inv /\ [Next]_vars => [Ledger!Next]_(Ledger!ledger)
  BY NextStep DEF Safe, LedgerStep
<1>3. Spec => []Inv
  BY InductiveInvariant
<1> QED
  BY <1>1, <1>2, <1>3, PTL DEF Spec, LedgerSpec, Ledger!Spec

===============================================================================
