----------------------------- MODULE SessionState -----------------------------
(***************************************************************************)
(* The state that state.py reduces the session log to, and the reduction:  *)
(* one operator per event type, from a state to the next.                  *)
(*                                                                         *)
(* A state is what replay() computes from the log on disk.  As long as no  *)
(* write has failed it is also the runtime's self.state, because _record   *)
(* appends and applies each event in one go.  Event numbers matter only    *)
(* for the order of arrivals, so `clock' counts just the events that put   *)
(* something into the queue or among the notifications.  Identifiers drawn *)
(* at random (turns, actions, jobs) are the numbers 1, 2, ... in the order *)
(* they are drawn.  Usage, the todo list, the configuration hash and the   *)
(* text of messages and results are left out.                              *)
(***************************************************************************)
EXTENDS Naturals, Sequences, FiniteSets

CONSTANTS
  Requests,   \* request_id values of user inputs
  CallIds     \* tool call ids, as the provider chooses them

Outcomes == {"completed", "failed", "limited", "cancelled", "interrupted"}
Statuses == {"absent", "queued", "accepted"} \cup Outcomes

\* The result of an action: none yet, what the tool returned, "outcome unknown",
\* or "action was not started".
Results == {"none", "returned", "unknown", "skipped"}

\* `number' is, in an assistant message, how many actions existed when it was
\* committed (history), and in a tool message the action whose result it shows.
Message == [role : {"user", "assistant", "tool"}, turn : Nat,
            calls : Seq(CallIds), call : CallIds \cup {""}, number : Nat]

Action == [call : CallIds, started : BOOLEAN, result : Results]

JobStatuses == {"queued", "finished", "unknown"}

\* An entry of the queue: its number and, for a steer, the turn it is meant for.
\* NotThere stands for "no entry", and the number 0 for "no notification".
Entry == [seq : Nat, target : Nat]
NotThere == [seq |-> 0, target |-> 0]

States == [clock : Nat,
           queue : [Requests -> Entry],
           requests : [Requests -> Statuses],
           messages : Seq(Message),
           actions : Seq(Action),
           jobs : Seq(JobStatuses),
           notifications : Seq(Nat),           \* per job: its notification's number
           currentTurn : Nat,                  \* 0: no turn is running
           turnRequests : SUBSET Requests,
           turns : Nat,                        \* turns started so far
           replayable : BOOLEAN]               \* FALSE: replay() raises

InitialState == [clock |-> 0, queue |-> [r \in Requests |-> NotThere],
                 requests |-> [r \in Requests |-> "absent"],
                 messages |-> <<>>, actions |-> <<>>, jobs |-> <<>>,
                 notifications |-> <<>>, currentTurn |-> 0,
                 turnRequests |-> {}, turns |-> 0, replayable |-> TRUE]

-------------------------------------------------------------------------------
(* The keys of state.queue and of state.notifications.                     *)

Queue(s) == {r \in Requests : s.queue[r].seq # 0}

Waiting(s) == {j \in DOMAIN s.notifications : s.notifications[j] # 0}

-------------------------------------------------------------------------------
(* Messages.                                                               *)

UserMessage(turn) ==
  [role |-> "user", turn |-> turn, calls |-> <<>>, call |-> "", number |-> 0]

AssistantMessage(turn, calls, number) ==
  [role |-> "assistant", turn |-> turn, calls |-> calls, call |-> "",
   number |-> number]

ToolMessage(turn, call, action) ==
  [role |-> "tool", turn |-> turn, calls |-> <<>>, call |-> call,
   number |-> action]

\* Tool call ids that occur in the current context.
SeenCalls(messages) ==
  UNION {{messages[i].calls[k] : k \in DOMAIN messages[i].calls} :
           i \in DOMAIN messages}

\* validate_pairing: each assistant message with n calls is followed directly by
\* n tool messages that answer each call once; there are no other tool messages,
\* and no call id is used twice.
Answers(messages, i) == (i + 1) .. (i + Len(messages[i].calls))

ValidPairing(messages) ==
  /\ \A i \in DOMAIN messages :
       /\ Answers(messages, i) \subseteq DOMAIN messages
       /\ \A j \in Answers(messages, i) : messages[j].role = "tool"
       /\ {messages[j].call : j \in Answers(messages, i)} =
            {messages[i].calls[k] : k \in DOMAIN messages[i].calls}
  /\ \A j \in DOMAIN messages : messages[j].role = "tool" =>
       \E i \in 1 .. (j - 1) : j \in Answers(messages, i)
  /\ \A i, j \in DOMAIN messages :
       \A k \in DOMAIN messages[i].calls, l \in DOMAIN messages[j].calls :
         messages[i].calls[k] = messages[j].calls[l] => <<i, k>> = <<j, l>>

\* The calls of the last assistant message that made any, without those a later
\* tool message answers: the batch _close_open_batch has to close.
LastBatch(messages) ==
  CHOOSE i \in DOMAIN messages \cup {0} :
    /\ i # 0 => messages[i].calls # <<>>
    /\ \A j \in DOMAIN messages : j > i => messages[j].calls = <<>>

\* The members of a sequence at the given places, in their order.
Selected(s, places) ==
  LET Place(n) == CHOOSE k \in places : Cardinality({l \in places : l <= k}) = n
  IN  [n \in 1 .. Cardinality(places) |-> s[Place(n)]]

OpenCalls(messages) ==
  LET last == LastBatch(messages)
      unanswered == {k \in DOMAIN messages[last].calls :
                       \A j \in DOMAIN messages :
                         j > last => messages[j].call # messages[last].calls[k]}
  IN  IF last = 0 THEN <<>> ELSE Selected(messages[last].calls, unanswered)

-------------------------------------------------------------------------------
(* Events.                                                                 *)

InputEnqueued(s, r, target) ==
  [s EXCEPT !.clock = @ + 1,
            !.queue[r] = [seq |-> s.clock + 1, target |-> target],
            !.requests[r] = "queued"]

UserAccepted(s, r) ==
  [s EXCEPT !.queue[r] = NotThere,
            !.requests[r] = "accepted",
            !.turnRequests = @ \cup {r},
            !.messages = Append(@, UserMessage(s.currentTurn))]

\* Faulty: the entry stays in the queue.
InputFinishedButQueued(s, r, outcome) == [s EXCEPT !.requests[r] = outcome]

\* input.rejected and input.finished.
InputFinished(s, r, outcome) ==
  [s EXCEPT !.queue[r] = NotThere, !.requests[r] = outcome]

TurnStarted(s) ==
  [s EXCEPT !.turns = @ + 1, !.currentTurn = s.turns + 1, !.turnRequests = {}]

TurnEnded(s, outcome) ==
  [s EXCEPT !.requests = [r \in Requests |->
                            IF r \in s.turnRequests THEN outcome ELSE @[r]],
            !.currentTurn = 0,
            !.turnRequests = {}]

AssistantCommitted(s, calls) ==
  [s EXCEPT !.messages =
     Append(@, AssistantMessage(s.currentTurn, calls, Len(s.actions)))]

\* action.started of a new action.
ActionStarted(s, call) ==
  [s EXCEPT !.actions =
     Append(@, [call |-> call, started |-> TRUE, result |-> "none"])]

\* action.completed: of an action that never started (action = Len + 1), or of
\* one that did.  Completing an action twice makes apply() raise; the event is
\* on disk by then, so every later replay raises too.
ActionCompleted(s, action, call, result) ==
  IF action \notin DOMAIN s.actions
    THEN [s EXCEPT !.actions =
            Append(@, [call |-> call, started |-> FALSE, result |-> result])]
    ELSE IF s.actions[action].result = "none"
           THEN [s EXCEPT !.actions[action].result = result]
           ELSE [s EXCEPT !.replayable = FALSE]

\* action.completed with a job descriptor: the job, numbered next, is queued.
JobAccepted(s, action, call) ==
  [ActionCompleted(s, action, call, "returned") EXCEPT
     !.jobs = Append(@, "queued"),
     !.notifications = Append(@, 0)]

\* tools.committed: one tool message per call, showing the given actions.
ToolsCommitted(s, calls, actions) ==
  [s EXCEPT !.messages = @ \o
     [k \in DOMAIN calls |-> ToolMessage(s.currentTurn, calls[k], actions[k])]]

\* compact.committed: a summary message (of no turn) and the retained suffix.
CompactCommitted(s, split) ==
  [s EXCEPT !.messages =
     <<UserMessage(0)>> \o SubSeq(@, split + 1, Len(@))]

JobCompleted(s, job, status) ==
  [s EXCEPT !.clock = @ + 1,
            !.jobs[job] = status,
            !.notifications[job] = s.clock + 1]

NotificationAccepted(s, job) ==
  [s EXCEPT !.messages = Append(@, UserMessage(s.currentTurn)),
            !.notifications[job] = 0]

===============================================================================
