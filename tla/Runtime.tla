-------------------------------- MODULE Runtime --------------------------------
(***************************************************************************)
(* The session owner of runtime.py: ingress (submit, cancel, close), the   *)
(* worker task that drains the queue turn by turn, background jobs, and    *)
(* recovery when a session is opened again.                                *)
(*                                                                         *)
(* Everything runs on one event loop.  The worker is a sequential program  *)
(* whose program counter is w.pc; it shares the loop with the other tasks  *)
(* only at the pcs in Awaits, so ingress and jobs act there and nowhere    *)
(* else.  Between two awaits the worker takes one step per event it        *)
(* records: the process may die, or a write may fail, between any two      *)
(* records even where no other task can run.                               *)
(*                                                                         *)
(* Adjacent awaits with no state change in between are one await here      *)
(* (pre_step and pre_assistant; post_action and the on_event callback; all *)
(* post hooks that run while an exception unwinds).  A hook with nothing   *)
(* registered does not suspend: the worker's next step at an await may     *)
(* follow at once, so both are covered.                                    *)
(***************************************************************************)
EXTENDS SessionState

CONSTANTS
  NoRequest,    \* no entry
  Mode,         \* the mode each request_id is submitted with (its signature)
  Replies,      \* what the model may answer: sequences of tool call ids
  JobCalls,     \* calls that start a background job (bash, background=true)
  BadCalls,     \* calls that fail the schema check of _offered_call_error
  MaxSteps,     \* config.max_steps_per_turn
  MaxActions,   \* config.max_actions_per_step
  KeepTurns,    \* config.keep_recent_turns
  Capacity,     \* config.queue_capacity
  JobLimit,     \* 16 in the code
  May,          \* what the environment may do, see below
  MaxFaults,    \* bound: failed writes and crashes
  MaxCancels    \* bound: calls of cancel()

Happenings ==
  {"crash",       \* the process dies
   "write",       \* a write of the log fails, leaving its outcome unknown
   "close",       \* the client calls close()
   "guard",       \* a guarding pre hook raises
   "diagnostic",  \* a post hook raises, and the on_error callback raises too
   "model",       \* the provider fails, or its reply is refused
   "timeout",     \* turn_timeout expires
   "compact",     \* the context outgrows the window before a step
   "oversize"}    \* ... or some request does not fit at all

ASSUME ModeAssumption == Mode \in [Requests -> {"followup", "steer", "compact"}]
ASSUME RepliesAssumption == Replies \subseteq Seq(CallIds)
ASSUME MayAssumption == May \subseteq Happenings
ASSUME NoRequestAssumption == NoRequest \notin Requests
ASSUME BoundsAssumption ==
  /\ MaxSteps \in Nat \ {0} /\ MaxActions \in Nat /\ KeepTurns \in Nat
  /\ Capacity \in Nat /\ JobLimit \in Nat
  /\ MaxFaults \in Nat /\ MaxCancels \in Nat

VARIABLES
  state,      \* what the log replays to; self.state while not poisoned
  life,       \* the Runtime object: down, recovering (start), open, closing
  poisoned,   \* self._poisoned
  w,          \* the worker task: its program counter and local variables
  cancel,     \* self._cancel
  tickets,    \* self._tickets: what each request's future holds
  tasks,      \* self._jobs: the job tasks that have not ended
  faults,     \* failed writes and crashes so far
  cancels,    \* calls of cancel() so far
  lateStarts  \* history: actions started in this turn after cancel()

vars == <<state, life, poisoned, w, cancel, tickets, tasks, faults, cancels, lateStarts>>

\* pcs at which the tool, the model or the summary call runs as self._active.
Active == {"model", "tool", "summary"}

\* pcs at which the worker is suspended in an await.
Awaits == Active \cup
  {"ready", "preTurn", "preUser", "postUser", "preStep", "postAssistant", "preAction",
   "postAction", "postStep", "preCompact", "postCompact", "unwind", "postTurn"}

PCs == Awaits \cup {"none", "drain", "boundary", "arrivals", "budget", "fit", "batch",
                    "compact", "closeBatch"}

\* Where an acceptance, a boundary or a compaction was called from: the turn's
\* own entry, the boundary before or after a step, the budget check, the drain.
Sites == {"turn", "head", "tail", "budget", "top"}

Item == [kind : {"input"}, id : Requests, seq : Nat]
          \cup [kind : {"notification"}, id : Nat, seq : Nat]

Workers == [pc : PCs, site : Sites, entry : Requests \cup {NoRequest},
            arrivals : SUBSET Item,        \* what _safe_boundary has left to do
            steered : BOOLEAN,             \* its flag
            steps : Nat,                   \* steps started in this turn
            called : BOOLEAN,              \* the last reply had tool calls
            status : Outcomes,             \* how the turn ends
            entered : BOOLEAN,             \* pre_turn passed
            timer : {"off", "on", "fired"},  \* asyncio.timeout of the turn
            hit : BOOLEAN,                 \* self._active was cancelled
            owed : SUBSET Requests]        \* tickets to resolve after post_turn

NoWorker == [pc |-> "none", site |-> "top", entry |-> NoRequest, arrivals |-> {},
             steered |-> FALSE, steps |-> 0, called |-> FALSE, status |-> "completed",
             entered |-> FALSE, timer |-> "off", hit |-> FALSE, owed |-> {}]

TicketStates == {"none", "pending", "broken"} \cup Outcomes

TypeOK ==
  /\ state \in States
  /\ life \in {"down", "recovering", "open", "closing"}
  /\ poisoned \in BOOLEAN
  /\ w \in Workers
  /\ cancel \in BOOLEAN
  /\ tickets \in [Requests -> TicketStates]
  /\ tasks \in SUBSET Nat
  /\ faults \in Nat /\ cancels \in Nat /\ lateStarts \in Nat

Init ==
  /\ state = InitialState
  /\ life = "down" /\ poisoned = FALSE
  /\ w = NoWorker /\ cancel = FALSE
  /\ tickets = [r \in Requests |-> "none"]
  /\ tasks = {} /\ faults = 0 /\ cancels = 0 /\ lateStarts = 0

-------------------------------------------------------------------------------
(* Tickets.                                                                *)

Resolve(rs, outcome) ==
  [r \in Requests |-> IF r \in rs /\ tickets[r] = "pending" THEN outcome ELSE tickets[r]]

\* Faulty: the exception handler forgets the tickets.
NotBroken == tickets

\* _drain's exception handler.
Broken == [r \in Requests |-> IF tickets[r] = "pending" THEN "broken" ELSE tickets[r]]

-------------------------------------------------------------------------------
(* One step of the worker, or of start() while it recovers.                *)

At(pc) == w.pc = pc /\ ~poisoned

\* What most steps of the worker leave alone.
Others == <<cancel, tasks, cancels, lateStarts>>

\* A step that records nothing.
Step(v) == w' = v /\ UNCHANGED <<state, life, poisoned, tickets, faults, Others>>

\* The worker ends with an exception.
Die == w' = NoWorker /\ tickets' = Broken /\ UNCHANGED <<state, life, poisoned, faults, Others>>

\* _record.  Its event may fail to be written: it is then on disk or it is not,
\* the runtime is poisoned, and the exception stops the worker (or start()).
RecordFails(next) ==
  /\ "write" \in May /\ faults < MaxFaults
  /\ faults' = faults + 1
  /\ state' \in {state, next}
  /\ w' = NoWorker
  /\ tickets' = Broken
  /\ IF life = "recovering" THEN life' = "down" /\ UNCHANGED poisoned
                            ELSE poisoned' = TRUE /\ UNCHANGED life

RecordOnly(next, v, told) ==
  \/ /\ state' = next /\ w' = v /\ tickets' = told
     /\ UNCHANGED <<life, poisoned, faults>>
  \/ RecordFails(next)

RecordAndTell(next, v, told) == RecordOnly(next, v, told) /\ UNCHANGED Others

Record(next, v) == RecordAndTell(next, v, tickets)

\* Events that state.apply ignores (step.started, assistant.started, ...).
Log(v) == Record(state, v)

\* An exception leaves the step; `outcome' is what _run_turn makes of it.
Thrown(outcome) == [w EXCEPT !.pc = "unwind", !.status = outcome, !.arrivals = {},
                             !.steered = FALSE, !.hit = FALSE]
Throw(outcome) == Step(Thrown(outcome))

\* CancelledError: asyncio.timeout turns it into TimeoutError if it caused it.
Interruption == IF w.timer = "fired" THEN "limited" ELSE "cancelled"

-------------------------------------------------------------------------------
(* The boundary's work list.                                               *)

Concerns(r) == \/ Mode[r] = "compact"
               \/ Mode[r] = "steer" /\ state.queue[r].target = state.currentTurn

Arrivals ==
  {[kind |-> "input", id |-> r, seq |-> state.queue[r].seq] :
     r \in {q \in Queue(state) : Concerns(q)}}
  \cup {[kind |-> "notification", id |-> j, seq |-> state.notifications[j]] :
          j \in Waiting(state)}

\* Faulty: newest first.
Last(items) == CHOOSE x \in items : \A y \in items : x.seq >= y.seq

First(items) == CHOOSE x \in items : \A y \in items : x.seq <= y.seq

QueueHead == CHOOSE r \in Queue(state) :
               \A q \in Queue(state) : state.queue[r].seq <= state.queue[q].seq

\* The input being accepted or compacted.
Current == IF w.site \in {"turn", "top"} THEN w.entry ELSE First(w.arrivals).id

NextArrival == [w EXCEPT !.pc = "arrivals", !.arrivals = @ \ {First(@)}]

-------------------------------------------------------------------------------
(* _drain and the start of _run_turn.                                      *)

\* Faulty: waits for the lock that close() holds.
DrainingUnlocked == w.pc \in {"ready", "drain"} /\ ~poisoned /\ life # "closing"

Draining == w.pc \in {"ready", "drain"} /\ ~poisoned

Drained ==
  /\ Draining /\ Queue(state) = {}
  /\ Step(NoWorker)

DrainCompact ==
  /\ Draining /\ Queue(state) # {}
  /\ Mode[QueueHead] = "compact"
  /\ Step([NoWorker EXCEPT !.pc = "compact", !.entry = QueueHead])

StartTurn ==
  /\ Draining /\ Queue(state) # {}
  /\ Mode[QueueHead] # "compact"
  /\ RecordOnly(TurnStarted(state),
                [NoWorker EXCEPT !.pc = "preTurn", !.site = "turn", !.entry = QueueHead],
                tickets)
  /\ cancel' = FALSE /\ lateStarts' = 0
  /\ UNCHANGED <<tasks, cancels>>

PreTurn ==
  /\ At("preTurn")
  /\ \/ Step([w EXCEPT !.pc = "preUser", !.entered = TRUE])
     \/ "guard" \in May /\ Throw("failed")

-------------------------------------------------------------------------------
(* _accept, of the turn's own entry or of a steer at a boundary.           *)

Refuse ==
  RecordAndTell(InputFinished(state, Current, "failed"), NextArrival,
                Resolve({Current}, "failed"))

AcceptUser ==
  /\ At("preUser")
  /\ Record(UserAccepted(state, Current), [w EXCEPT !.pc = "postUser"])

RefuseUser ==
  /\ At("preUser") /\ "guard" \in May
  /\ IF w.site = "turn" THEN Throw("failed") ELSE Refuse

PostUser ==
  /\ At("postUser")
  /\ Step(IF w.site = "turn"
            THEN [w EXCEPT !.pc = "boundary", !.site = "head", !.timer = "on"]
            ELSE [NextArrival EXCEPT !.steered = TRUE])

PostUserFails ==
  /\ At("postUser") /\ "diagnostic" \in May
  /\ IF w.site = "turn" THEN Throw("failed") ELSE Refuse

-------------------------------------------------------------------------------
(* _safe_boundary and the loop of _run_turn.                               *)

EnterBoundary ==
  /\ At("boundary")
  /\ Step([w EXCEPT !.pc = "arrivals", !.arrivals = Arrivals, !.steered = FALSE])

TakeNotification ==
  /\ At("arrivals") /\ w.arrivals # {}
  /\ First(w.arrivals).kind = "notification"
  /\ Record(NotificationAccepted(state, First(w.arrivals).id),
            [NextArrival EXCEPT !.steered = TRUE])

TakeInput ==
  /\ At("arrivals") /\ w.arrivals # {}
  /\ First(w.arrivals).kind = "input"
  /\ Step([w EXCEPT !.pc = IF Mode[First(w.arrivals).id] = "compact"
                             THEN "compact" ELSE "preUser"])

\* Faulty: ignores what came in while the boundary was at work.
AnotherPassIfSteered == w.steered

\* What _safe_boundary returns: the boundary took something in, or its awaits let
\* something arrive that the snapshot missed.
AnotherPass == w.steered \/ Arrivals # {}

LeaveHead ==
  /\ At("arrivals") /\ w.arrivals = {} /\ w.site = "head"
  /\ IF cancel THEN Throw("cancelled")
               ELSE Step([w EXCEPT !.pc = "budget", !.steered = FALSE])

LeaveTail ==
  /\ At("arrivals") /\ w.arrivals = {} /\ w.site = "tail"
  /\ Step(IF ~w.called /\ ~AnotherPass
            THEN [w EXCEPT !.pc = "closeBatch", !.timer = "off"]
          ELSE IF w.steps < MaxSteps
            THEN [w EXCEPT !.pc = "boundary", !.site = "head"]
          ELSE [w EXCEPT !.pc = "closeBatch", !.timer = "off", !.status = "limited",
                         !.steered = FALSE])

\* _ensure_budget, whose outcome depends on sizes that are not modelled.
Fits ==
  /\ w.pc \in {"budget", "fit"} /\ ~poisoned
  /\ Log([w EXCEPT !.pc = "preStep", !.steps = @ + 1, !.called = FALSE])

Outgrown ==
  /\ At("budget") /\ "compact" \in May
  /\ Step([w EXCEPT !.pc = "compact", !.site = "budget"])

DoesNotFit ==
  /\ w.pc \in {"budget", "fit"} /\ ~poisoned /\ "oversize" \in May
  /\ Throw("limited")

-------------------------------------------------------------------------------
(* _run_step and _generate.                                                *)

CallModel ==
  /\ At("preStep")
  /\ IF ValidPairing(state.messages) THEN Log([w EXCEPT !.pc = "model"])
                                     ELSE Throw("failed")

StepRefused ==
  /\ At("preStep") /\ "guard" \in May
  /\ Throw("failed")

\* "Missing or duplicate provider tool call ID".
FreshCalls(calls) ==
  /\ \A k, l \in DOMAIN calls : calls[k] = calls[l] => k = l
  /\ \A k \in DOMAIN calls : calls[k] \notin SeenCalls(state.messages)

ModelReplies(calls) ==
  /\ At("model") /\ ~w.hit
  /\ IF FreshCalls(calls)
       THEN Record(AssistantCommitted(state, calls),
                   [w EXCEPT !.pc = IF calls = <<>> THEN "postStep" ELSE "postAssistant",
                             !.called = calls # <<>>])
       ELSE Throw("failed")

ModelFails ==
  /\ At("model") /\ ~w.hit /\ "model" \in May
  /\ Throw("failed")

ModelInterrupted ==
  /\ At("model") /\ w.hit
  /\ Throw(Interruption)

PostAssistant ==
  /\ At("postAssistant")
  /\ \/ Step([w EXCEPT !.pc = "batch"])
     \/ "diagnostic" \in May /\ Throw("failed")

PostStep ==
  /\ At("postStep")
  /\ \/ Step([w EXCEPT !.pc = "boundary", !.site = "tail"])
     \/ "diagnostic" \in May /\ Throw("failed")

-------------------------------------------------------------------------------
(* _execute_batch.  The batch is the last message; its k-th call gets the  *)
(* action number + k.                                                      *)

Batch == state.messages[Len(state.messages)]
NextIndex == Len(state.actions) - Batch.number + 1
NextCall == Batch.calls[NextIndex]
InBatch == NextIndex <= Len(Batch.calls)
Running == Len(state.actions)   \* the action that runs at pc "tool"
RunningCall == state.actions[Running].call

\* Faulty: does not look at the cancel flag.
NotStartedUnlessLegal == NextIndex > MaxActions \/ NextCall \in BadCalls

NotStarted == cancel \/ NextIndex > MaxActions \/ NextCall \in BadCalls

SkipCall ==
  /\ At("batch") /\ InBatch
  /\ NotStarted
  /\ Record(ActionCompleted(state, Running + 1, NextCall, "skipped"),
            [w EXCEPT !.pc = "postAction"])

OfferCall ==
  /\ At("batch") /\ InBatch
  /\ ~NotStarted
  /\ Step([w EXCEPT !.pc = "preAction"])

StartAction ==
  /\ At("preAction")
  /\ RecordOnly(ActionStarted(state, NextCall), [w EXCEPT !.pc = "tool"], tickets)
  /\ lateStarts' = lateStarts + (IF cancel THEN 1 ELSE 0)
  /\ UNCHANGED <<cancel, tasks, cancels>>

RefuseAction ==
  /\ At("preAction") /\ "guard" \in May
  /\ Record(ActionCompleted(state, Running + 1, NextCall, "skipped"),
            [w EXCEPT !.pc = "postAction"])

\* Faulty: a task is created only for a turn that goes on.
DispatchUnlessCancelled(job) == tasks' = IF cancel THEN tasks ELSE tasks \cup {job}

\* The job's task is created before any other task can run (runtime.py:666).
Dispatch(job) == tasks' = tasks \cup {job}

\* The tool returns.  A background job is recorded with the action and its task
\* is created in the same step, unless JobLimit tasks are running.
ToolReturns ==
  /\ At("tool") /\ ~w.hit
  /\ IF RunningCall \in JobCalls /\ Cardinality(tasks) < JobLimit
       THEN /\ RecordOnly(JobAccepted(state, Running, RunningCall),
                          [w EXCEPT !.pc = "postAction"], tickets)
            /\ IF poisoned' THEN UNCHANGED tasks ELSE Dispatch(Len(state.jobs) + 1)
       ELSE /\ RecordOnly(ActionCompleted(state, Running, RunningCall, "returned"),
                          [w EXCEPT !.pc = "postAction"], tickets)
            /\ UNCHANGED tasks
  /\ UNCHANGED <<cancel, cancels, lateStarts>>

ToolInterrupted ==
  /\ At("tool") /\ w.hit
  /\ RecordOnly(ActionCompleted(state, Running, RunningCall, "unknown"),
                [w EXCEPT !.pc = "postAction", !.hit = FALSE], tickets)
  /\ cancel' = TRUE
  /\ UNCHANGED <<tasks, cancels, lateStarts>>

PostAction ==
  /\ At("postAction")
  /\ Step([w EXCEPT !.pc = "batch"])

\* The post hook of a started action raises and so does on_error: the except
\* clause commits the action a second time.
PostActionFails ==
  /\ At("postAction") /\ "diagnostic" \in May
  /\ state.actions[Running].started
  /\ state' = ActionCompleted(state, Running, RunningCall, "skipped")
  /\ poisoned' = TRUE
  /\ w' = NoWorker
  /\ tickets' = Broken
  /\ UNCHANGED <<life, faults, Others>>

\* Faulty: calls that fail the schema check get no result.
CommitBatchLegal ==
  /\ At("batch") /\ ~InBatch
  /\ LET legal == SelectSeq(Batch.calls, LAMBDA c : c \notin BadCalls)
     IN  Record(ToolsCommitted(state, legal, [k \in DOMAIN legal |-> Batch.number + k]),
                IF cancel THEN Thrown(Interruption) ELSE [w EXCEPT !.pc = "postStep"])

CommitBatch ==
  /\ At("batch") /\ ~InBatch
  /\ Record(ToolsCommitted(state, Batch.calls,
                           [k \in DOMAIN Batch.calls |-> Batch.number + k]),
            IF cancel THEN Thrown(Interruption) ELSE [w EXCEPT !.pc = "postStep"])

-------------------------------------------------------------------------------
(* _manual_compact and _compact_now.                                       *)

FinishCompact(outcome) ==
  RecordAndTell(InputFinished(state, Current, outcome),
                IF w.site = "top" THEN [NoWorker EXCEPT !.pc = "drain"] ELSE NextArrival,
                Resolve({Current}, outcome))

CompactReturns ==
  IF w.site = "budget" THEN Step([w EXCEPT !.pc = "fit", !.site = "head"])
                       ELSE FinishCompact("completed")

CompactRaises(outcome) ==
  IF w.site = "budget" THEN Throw(outcome) ELSE FinishCompact("failed")

StartCompact ==
  /\ At("compact")
  /\ \/ state.messages = <<>> /\ CompactReturns
     \/ state.messages # <<>> /\ Log([w EXCEPT !.pc = "preCompact"])
     \/ state.messages # <<>> /\ "oversize" \in May /\ CompactRaises("limited")

CallCompactor ==
  /\ At("preCompact")
  /\ \/ Log([w EXCEPT !.pc = "summary"])
     \/ "guard" \in May /\ CompactRaises("failed")

\* Where the retained suffix begins: with the first message of the last KeepTurns
\* turns, unless that is the whole context; or nothing is retained (too large).
TurnsInContext == {state.messages[i].turn : i \in DOMAIN state.messages} \ {0}
Kept == {t \in TurnsInContext :
           Cardinality({u \in TurnsInContext : u > t}) < KeepTurns}
\* Faulty: cuts anywhere, also between a call and its result.
SplitsAnywhere == DOMAIN state.messages

Splits ==
  {Len(state.messages)} \cup
  {i \in DOMAIN state.messages :
     /\ i < Len(state.messages)
     /\ state.messages[i + 1].turn \in Kept
     /\ \A j \in 1 .. i : state.messages[j].turn \notin Kept}

CommitSummary ==
  /\ At("summary") /\ ~w.hit
  /\ \E split \in Splits :
       Record(CompactCommitted(state, split), [w EXCEPT !.pc = "postCompact"])

SummaryFails ==
  /\ At("summary") /\ ~w.hit /\ "model" \in May
  /\ CompactRaises("failed")

\* CancelledError is not an Exception: _manual_compact lets it through, and with
\* no turn around it, it ends _drain and the worker.
SummaryInterrupted ==
  /\ At("summary") /\ w.hit
  /\ IF w.site = "top" THEN Die ELSE Throw(Interruption)

PostCompact ==
  /\ At("postCompact")
  /\ \/ CompactReturns
     \/ "diagnostic" \in May /\ CompactRaises("failed")

-------------------------------------------------------------------------------
(* The end of _run_turn; the closing of the batch is shared with _recover. *)

Unwind ==
  /\ At("unwind")
  /\ \/ Step([w EXCEPT !.pc = "closeBatch", !.timer = "off"])
     \/ /\ "diagnostic" \in May
        /\ Step([w EXCEPT !.pc = "closeBatch", !.timer = "off", !.status = "failed"])

\* The first action in the log whose provider call id is `call', or 0.
ActionOf(call) ==
  LET mine == {a \in DOMAIN state.actions : state.actions[a].call = call}
  IN  IF mine = {} THEN 0 ELSE CHOOSE a \in mine : \A b \in mine : a <= b

\* Faulty: takes an action that was started for one that has ended.
SettledIfStarted(call) == ActionOf(call) # 0

\* Faulty: only a result of the tool counts.
SettledIfReturned(call) ==
  ActionOf(call) # 0 /\ state.actions[ActionOf(call)].result = "returned"

Settled(call) == ActionOf(call) # 0 /\ state.actions[ActionOf(call)].result # "none"

Open == OpenCalls(state.messages)
Unsettled == {k \in DOMAIN Open : ~Settled(Open[k])}

\* Faulty: says of every open call that it never started.
CloseCallAsSkipped ==
  /\ At("closeBatch") /\ Unsettled # {}
  /\ LET call == Open[CHOOSE k \in Unsettled : \A l \in Unsettled : k <= l]
     IN  Record(ActionCompleted(state, IF ActionOf(call) = 0 THEN Running + 1
                                                            ELSE ActionOf(call),
                                call, "skipped"), w)

\* _close_open_batch: an unfinished action gets "outcome unknown", a call that
\* has no action gets a new one, "never started".
CloseCall ==
  /\ At("closeBatch") /\ Unsettled # {}
  /\ LET call == Open[CHOOSE k \in Unsettled : \A l \in Unsettled : k <= l]
     IN  IF ActionOf(call) = 0
           THEN Record(ActionCompleted(state, Running + 1, call, "skipped"), w)
           ELSE Record(ActionCompleted(state, ActionOf(call), call, "unknown"), w)

CommitClosed ==
  /\ At("closeBatch") /\ Open # <<>> /\ Unsettled = {}
  /\ Record(ToolsCommitted(state, Open, [k \in DOMAIN Open |-> ActionOf(Open[k])]), w)

\* A guard rejected the entry before it was accepted.
RejectEntry ==
  /\ At("closeBatch") /\ Open = <<>>
  /\ w.entry \in Queue(state)
  /\ Record(InputFinished(state, w.entry, w.status), w)

EndTurn ==
  /\ At("closeBatch") /\ Open = <<>>
  /\ life # "recovering" /\ w.entry \notin Queue(state)
  /\ LET owed == {w.entry} \cup state.turnRequests
     IN  IF w.entered
           THEN Record(TurnEnded(state, w.status),
                       [NoWorker EXCEPT !.pc = "postTurn", !.status = w.status, !.owed = owed])
           ELSE RecordAndTell(TurnEnded(state, w.status), [NoWorker EXCEPT !.pc = "ready"],
                          Resolve(owed, w.status))

\* Faulty: looks for the turn's requests after turn.ended has cleared them.
PostTurnTooLate ==
  /\ w.pc = "postTurn"
  /\ w' = [NoWorker EXCEPT !.pc = "ready"]
  /\ tickets' = Resolve(state.turnRequests, w.status)
  /\ UNCHANGED <<state, life, poisoned, faults, Others>>

\* Faulty: reports success whatever the turn came to.
PostTurnOptimistic ==
  /\ w.pc = "postTurn"
  /\ w' = [NoWorker EXCEPT !.pc = "ready"]
  /\ tickets' = Resolve(w.owed, "completed")
  /\ UNCHANGED <<state, life, poisoned, faults, Others>>

\* post_turn, then the tickets.  No record: this also happens when poisoned.
PostTurn ==
  /\ w.pc = "postTurn"
  /\ w' = [NoWorker EXCEPT !.pc = "ready"]
  /\ tickets' = Resolve(w.owed, w.status)
  /\ UNCHANGED <<state, life, poisoned, faults, Others>>

PostTurnFails ==
  /\ At("postTurn") /\ "diagnostic" \in May
  /\ Die

\* turn_timeout expires in one of the turn's awaits: CancelledError is raised
\* there, at pc "tool" inside the try that records "outcome unknown".
TurnTimesOut ==
  /\ "timeout" \in May /\ ~poisoned
  /\ w.timer = "on" /\ w.pc \in Awaits
  /\ IF w.pc \in Active THEN Step([w EXCEPT !.timer = "fired", !.hit = TRUE])
                        ELSE Step([Thrown("limited") EXCEPT !.timer = "fired"])

\* Another task's record failed: the worker's next record raises.
StopPoisoned ==
  /\ poisoned /\ w.pc \notin {"none", "postTurn"}
  /\ Die

-------------------------------------------------------------------------------
(* start(): replay, then _recover.                                         *)

EnsureWorker(v, s) ==
  IF v.pc = "none" /\ Queue(s) # {} THEN [NoWorker EXCEPT !.pc = "ready"] ELSE v

Start ==
  /\ life = "down" /\ state.replayable
  /\ life' = "recovering"
  /\ w' = [NoWorker EXCEPT !.pc = "closeBatch"]
  /\ UNCHANGED <<state, poisoned, tickets, faults, Others>>

Recovered == life = "recovering" /\ At("closeBatch") /\ Open = <<>>

RecoverTurn ==
  /\ Recovered /\ state.currentTurn # 0
  /\ Record(TurnEnded(state, "interrupted"), w)

\* Faulty: takes every job without the status unknown for lost.
LostJobsAndFinished == {j \in DOMAIN state.jobs : state.jobs[j] # "unknown"}

LostJobs == {j \in DOMAIN state.jobs : state.jobs[j] = "queued"}

RecoverJob ==
  /\ Recovered /\ state.currentTurn = 0 /\ LostJobs # {}
  /\ LET job == CHOOSE j \in LostJobs : \A k \in LostJobs : j <= k
     IN  Record(JobCompleted(state, job, "unknown"), w)

\* Faulty: leaves the queue to the next submit().
ResumeIdle ==
  /\ Recovered /\ state.currentTurn = 0 /\ LostJobs = {}
  /\ life' = "open" /\ w' = NoWorker
  /\ UNCHANGED <<state, poisoned, tickets, faults, Others>>

\* session.resumed.
Resume ==
  /\ Recovered /\ state.currentTurn = 0 /\ LostJobs = {}
  /\ \/ /\ life' = "open"
        /\ w' = EnsureWorker(NoWorker, state)
        /\ UNCHANGED <<state, poisoned, tickets, faults>>
     \/ RecordFails(state)
  /\ UNCHANGED Others

-------------------------------------------------------------------------------
(* Ingress, jobs, the end of the process.                                  *)

\* The event loop is free, and start() and _check let the caller in.
Admitted == life = "open" /\ w.pc \in Awaits \cup {"none"} /\ ~poisoned

Submit(r) ==
  /\ Admitted
  /\ state.requests[r] = "absent"
  /\ Cardinality(Queue(state)) < Capacity
  /\ LET next == InputEnqueued(state, r, IF Mode[r] = "steer" THEN state.currentTurn ELSE 0)
     IN  \/ /\ state' = next
            /\ tickets' = [tickets EXCEPT ![r] = "pending"]
            /\ w' = EnsureWorker(w, next)
            /\ UNCHANGED <<life, poisoned, faults>>
         \/ /\ "write" \in May /\ faults < MaxFaults
            /\ faults' = faults + 1 /\ poisoned' = TRUE
            /\ state' \in {state, next}
            /\ UNCHANGED <<life, w, tickets>>
  /\ UNCHANGED Others

\* The same request_id again, perhaps after a restart.
Resubmit(r) ==
  /\ Admitted
  /\ state.requests[r] # "absent"
  /\ tickets' = [tickets EXCEPT ![r] =
       IF @ # "none" THEN @
       ELSE IF state.requests[r] \in Outcomes THEN state.requests[r] ELSE "pending"]
  /\ w' = EnsureWorker(w, state)
  /\ UNCHANGED <<state, life, poisoned, faults, Others>>

\* cancel(): records cancel.requested (which may fail); a call that is still
\* running is cancelled, one that has finished but not yet resumed the worker is
\* not.
Cancel ==
  /\ Admitted /\ cancels < MaxCancels
  /\ cancels' = cancels + 1
  /\ \/ /\ cancel' = TRUE
        /\ w' \in IF w.pc \in Active THEN {w, [w EXCEPT !.hit = TRUE]} ELSE {w}
        /\ UNCHANGED <<poisoned, faults>>
     \/ /\ "write" \in May /\ faults < MaxFaults
        /\ faults' = faults + 1 /\ poisoned' = TRUE
        /\ UNCHANGED <<w, cancel>>
  /\ UNCHANGED <<state, life, tickets, tasks, lateStarts>>

\* _run_job ends: with a result, or interrupted.
JobEnds(j) ==
  /\ j \in tasks /\ life \in {"open", "closing"}
  /\ w.pc \in Awaits \cup {"none"}
  /\ tasks' = tasks \ {j}
  /\ IF poisoned THEN UNCHANGED <<state, poisoned, faults>>
     ELSE \E status \in {"finished", "unknown"} :
            LET next == JobCompleted(state, j, status)
            IN  \/ state' = next /\ UNCHANGED <<poisoned, faults>>
                \/ /\ "write" \in May /\ faults < MaxFaults
                   /\ faults' = faults + 1 /\ poisoned' = TRUE
                   /\ state' \in {state, next}
  /\ UNCHANGED <<life, w, tickets, cancel, cancels, lateStarts>>

\* close(): no more ingress; the worker finishes what is queued.
Close ==
  /\ "close" \in May /\ life = "open"
  /\ w.pc \in Awaits \cup {"none"}
  /\ life' = "closing"
  /\ UNCHANGED <<state, poisoned, w, tickets, faults, Others>>

Down ==
  /\ life' = "down" /\ poisoned' = FALSE
  /\ w' = NoWorker /\ cancel' = FALSE
  /\ tickets' = [r \in Requests |-> "none"]
  /\ tasks' = {} /\ lateStarts' = 0
  /\ UNCHANGED <<state, cancels>>

\* The worker is done and the jobs have been cancelled and awaited.
Closed ==
  /\ life = "closing" /\ w.pc = "none" /\ tasks = {}
  /\ Down /\ UNCHANGED faults

Crash ==
  /\ "crash" \in May /\ life # "down"
  /\ faults < MaxFaults /\ faults' = faults + 1
  /\ Down

-------------------------------------------------------------------------------

TurnStep ==
  \/ StartTurn \/ PreTurn \/ AcceptUser \/ RefuseUser \/ PostUser \/ PostUserFails
  \/ EnterBoundary \/ TakeNotification \/ TakeInput \/ LeaveHead \/ LeaveTail
  \/ Fits \/ Outgrown \/ DoesNotFit
  \/ Unwind \/ CloseCall \/ CommitClosed \/ RejectEntry
  \/ EndTurn \/ PostTurn \/ PostTurnFails

StepStep ==
  \/ CallModel \/ StepRefused \/ ModelFails \/ ModelInterrupted
  \/ \E calls \in Replies : ModelReplies(calls)
  \/ PostAssistant \/ PostStep
  \/ SkipCall \/ OfferCall \/ StartAction \/ RefuseAction
  \/ ToolReturns \/ ToolInterrupted \/ PostAction \/ PostActionFails \/ CommitBatch

CompactStep ==
  \/ StartCompact \/ CallCompactor \/ CommitSummary \/ SummaryFails
  \/ SummaryInterrupted \/ PostCompact

WorkerStep ==
  \/ Drained \/ DrainCompact \/ TurnStep \/ StepStep \/ CompactStep \/ StopPoisoned

StartStep == Start \/ RecoverTurn \/ RecoverJob \/ Resume

Next ==
  \/ WorkerStep
  \/ StartStep
  \/ TurnTimesOut
  \/ \E r \in Requests : Submit(r) \/ Resubmit(r)
  \/ Cancel
  \/ \E j \in tasks : JobEnds(j)
  \/ Close \/ Closed
  \/ Crash

Spec == Init /\ [][Next]_vars

===============================================================================
