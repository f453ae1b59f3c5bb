--------------------------- MODULE RuntimeProperties ---------------------------
(***************************************************************************)
(* What the session owner promises.  Each property is about several steps  *)
(* of several tasks: the worker, clients, jobs, crashes.                   *)
(***************************************************************************)
EXTENDS Runtime

Up == life \in {"open", "closing"} /\ ~poisoned

-------------------------------------------------------------------------------
(* Requests.                                                               *)

\* The three places the reducer keeps a request in agree: the queue holds what
\* has status queued, the running turn's list what has status accepted, and no
\* accepted request is left over when no turn runs (user.accepted, turn.ended).
RequestsConsistent ==
  /\ Queue(state) = {r \in Requests : state.requests[r] = "queued"}
  /\ state.turnRequests = {r \in Requests : state.requests[r] = "accepted"}
  /\ state.currentTurn = 0 => state.turnRequests = {}

\* The runtime implements the request ledger: submit is idempotent across
\* restarts, a request enters at most one turn, its outcome never changes, and a
\* ticket answers with the outcome that is in the log.
Ledger == INSTANCE RequestLedger WITH
  status <- state.requests,
  told <- [r \in Requests |-> IF tickets[r] \in Outcomes THEN tickets[r] ELSE "none"]

LedgerSpec == Ledger!Spec

\* The queue is served oldest first: a turn's own entry is older than everything
\* that is queued, and what a boundary takes is older than everything else that
\* concerns the boundary, notifications included, even after a restart and with
\* new arrivals during the boundary's awaits (_drain, _safe_boundary).
OldestFirst ==
  [][\A r \in Queue(state) \ Queue(state') :
       /\ \A q \in Queue(state) :
            (Concerns(r) => Concerns(q)) => state.queue[r].seq <= state.queue[q].seq
       /\ Concerns(r) /\ state.currentTurn # 0 =>
            \A j \in Waiting(state) : state.queue[r].seq < state.notifications[j]]_vars

\* A turn that ends as completed leaves nothing behind that was meant for it: no
\* steer aimed at it, compaction or job notification is waiting, even one that
\* came in during the awaits of its last boundary (runtime.py:402).
CompletedTurnMissesNothing ==
  w.pc = "closeBatch" /\ life # "recovering" /\ w.status = "completed" => Arrivals = {}

\* A healthy runtime without a worker has an empty queue: what was enqueued is
\* never stranded, so closing waits for it (_ensure_worker, _drain, close).
NoStrandedInput ==
  Up /\ w.pc = "none" => Queue(state) = {}

\* A healthy runtime without a worker owes nobody an answer: each ticket was
\* resolved with its turn, or broken with the worker (_run_turn, _drain).
NoTicketForgotten ==
  Up /\ w.pc = "none" => \A r \in Requests : tickets[r] # "pending"

-------------------------------------------------------------------------------
(* Tool calls.                                                             *)

\* Whenever the context is sent to the model or compacted, each tool call in it
\* has exactly one result right behind its batch (validate_pairing cannot fail).
PairedAtRequest ==
  w.pc \in {"preStep", "model", "compact"} => ValidPairing(state.messages)

\* A tool message shows the result of the action that served this very call, not
\* of another action that happened to carry the same provider call id.
ResultsAreOwn ==
  \A i \in DOMAIN state.messages :
    \A j \in Answers(state.messages, i) \cap DOMAIN state.messages :
      LET m == state.messages[j]
      IN  /\ m.number \in DOMAIN state.actions
          /\ m.number > state.messages[i].number
          /\ state.actions[m.number].call = m.call
          /\ state.actions[m.number].result # "none"

\* "Never started" is only said of actions whose start is not in the log, and a
\* result or "outcome unknown" only of started ones; and outside a turn no action
\* and no call of a healthy session is left open.
EffectsAccountedFor ==
  /\ \A a \in DOMAIN state.actions :
       /\ state.actions[a].result = "skipped" => ~state.actions[a].started
       /\ state.actions[a].result \in {"none", "returned", "unknown"} => state.actions[a].started
  /\ Up /\ state.currentTurn = 0 =>
       /\ OpenCalls(state.messages) = <<>>
       /\ \A a \in DOMAIN state.actions : state.actions[a].result # "none"

\* No action is completed twice, so every log the runtime writes can be replayed
\* when the session is opened again (state.py:61).
LogReplays == state.replayable

\* After cancel() at most one more action starts in the turn: the one whose
\* pre_action hooks were being awaited.
AtMostOneLateStart == lateStarts <= 1

\* docs/architecture/04-tool-session-runtime.md: cancel, as a control event,
\* prevents new side effects.
NoLateStart == lateStarts = 0

-------------------------------------------------------------------------------
(* Jobs.                                                                   *)

\* In a healthy runtime the jobs the log says are queued are exactly those a task
\* is running for: no acknowledged job was forgotten (runtime.py:666), and none
\* is still running that the log says has ended.
AcknowledgedJobsRun == Up => LostJobs = tasks

\* A job ends once, and its notification, once delivered, does not come back.
JobsEndOnce ==
  [][\A j \in DOMAIN state.jobs : state.jobs[j] # "queued" =>
       /\ state'.jobs[j] = state.jobs[j]
       /\ j \notin Waiting(state) => j \notin Waiting(state')]_vars

-------------------------------------------------------------------------------
(* Liveness.  The event loop runs what is ready; hooks, providers and tools *)
(* end or are timed out; a job's process ends or is killed at its timeout; *)
(* and a session that is down is opened again.                             *)

Fairness ==
  /\ WF_vars(WorkerStep)
  /\ WF_vars(StartStep)
  /\ WF_vars(Closed)
  /\ \A j \in 1 .. (Cardinality(Requests) * MaxSteps * MaxActions) : WF_vars(JobEnds(j))

FairSpec == Spec /\ Fairness

\* Every input that reached the queue gets its outcome, and every acknowledged
\* job its end, crashes or not.
EverythingSettles ==
  /\ \A r \in Requests :
       state.requests[r] = "queued" ~> state.requests[r] \in Outcomes
  /\ \A j \in 1 .. Cardinality(Requests) :
       j \in LostJobs ~> j \notin LostJobs

\* close() comes to an end, with everything that was queued settled first.
CloseEnds == life = "closing" ~> life = "down"

===============================================================================
