-------------------------------- MODULE BashJob --------------------------------
(***************************************************************************)
(* run_bash_job of tools/__init__.py: one shell command, in a process group *)
(* of its own, with two tasks that drain its pipes, a deadline, and a       *)
(* cleanup that kills the group within a deadline of its own.              *)
(*                                                                         *)
(* The command may start descendants that outlive the shell, keep its pipes *)
(* open, or leave its process group.  The caller may be cancelled at every  *)
(* await, more than once; from the cleanup on, a cancellation waits until   *)
(* it has ended (_settle_task).  The first await is that of the start: the  *)
(* command runs already, and a cancellation finds no cleanup there.        *)
(***************************************************************************)
EXTENDS Naturals, FiniteSets

CONSTANTS
  Shell,        \* the process that is started
  Children,     \* descendants the command may start
  Streams,      \* stdout and stderr
  OutputLimit,  \* chunks that are kept of each stream
  MaxChunks,    \* bound: chunks that are written to each stream
  May           \* what may happen: "leave" the group, "cancel", "denied" kill,
                \* "fault" of the file system, "spawn" error

ASSUME ShellIsNoChild == Shell \notin Children
ASSUME StreamsExist == Streams # {}
ASSUME BoundsAreNaturals == OutputLimit \in Nat /\ MaxChunks \in Nat

VARIABLES
  alive,       \* the processes that run
  group,       \* processes of the shell's group
  writers,     \* who has the pipes open
  written,     \* chunks written to each pipe so far
  taken,       \* chunks drained from it
  drains,      \* what each drain task is doing
  pc,          \* where run_bash_job is
  timedOut, cleanupIncomplete,   \* its flags
  cancelled,   \* a cancellation is pending or on its way out
  report       \* what the caller gets

processes == <<alive, group, writers, written>>
flags == <<timedOut, cleanupIncomplete>>
vars == <<processes, taken, drains, pc, flags, cancelled, report>>

Procs == {Shell} \cup Children

Places == {"start", "spawn", "wait", "drain", "kill", "reap", "gather", "abandon", "report", "done"}

NoReport == [ended |-> "no", effect |-> "none", ok |-> FALSE, partial |-> FALSE, truncated |-> FALSE]

Reports == [ended : {"no", "returned", "raised"}, effect : {"none", "applied", "unknown"},
            ok : BOOLEAN, partial : BOOLEAN, truncated : BOOLEAN]

TypeOK ==
  /\ alive \subseteq Procs /\ group \subseteq Procs /\ writers \subseteq alive
  /\ written \in [Streams -> 0 .. MaxChunks]
  /\ taken \in [Streams -> 0 .. MaxChunks]
  /\ drains \in [Streams -> {"none", "reading", "ended", "cancelled"}]
  /\ pc \in Places
  /\ timedOut \in BOOLEAN /\ cleanupIncomplete \in BOOLEAN /\ cancelled \in BOOLEAN
  /\ report \in Reports

-------------------------------------------------------------------------------
(* The processes of the command.                                           *)

\* A process of the command starts another, which inherits its group and its
\* pipes, unless they are redirected.
Fork(p, child) ==
  /\ p \in alive /\ child \notin group \cup alive
  /\ alive' = alive \cup {child}
  /\ group' = IF p \in group THEN group \cup {child} ELSE group
  /\ \/ UNCHANGED writers
     \/ p \in writers /\ writers' = writers \cup {child}
  /\ UNCHANGED <<written, taken, drains, pc, flags, cancelled, report>>

\* setsid(): the child is out of reach of killpg().
LeaveGroup(child) ==
  /\ "leave" \in May
  /\ child \in alive \cap group
  /\ group' = group \ {child}
  /\ UNCHANGED <<alive, writers, written, taken, drains, pc, flags, cancelled, report>>

Write(p, s) ==
  /\ p \in writers
  /\ written[s] < MaxChunks
  /\ written' = [written EXCEPT ![s] = @ + 1]
  /\ UNCHANGED <<alive, group, writers, taken, drains, pc, flags, cancelled, report>>

Exit(p) ==
  /\ p \in alive
  /\ alive' = alive \ {p}
  /\ writers' = writers \ {p}
  /\ UNCHANGED <<group, written, taken, drains, pc, flags, cancelled, report>>

-------------------------------------------------------------------------------
(* The drain tasks.                                                        *)

\* A chunk is taken from the pipe; what exceeds the limit is dropped and counted.
Read(s) ==
  /\ drains[s] = "reading"
  /\ taken[s] < written[s]
  /\ taken' = [taken EXCEPT ![s] = @ + 1]
  /\ UNCHANGED <<processes, drains, pc, flags, cancelled, report>>

\* End of file: the pipe is empty and nobody has it open.
Drained(s) ==
  /\ drains[s] = "reading"
  /\ taken[s] = written[s] /\ writers = {}
  /\ drains' = [drains EXCEPT ![s] = "ended"]
  /\ UNCHANGED <<processes, taken, pc, flags, cancelled, report>>

AllDrained == \A s \in Streams : drains[s] # "reading"

-------------------------------------------------------------------------------
(* run_bash_job.                                                           *)

Go(place) == pc' = place

\* await create_subprocess_exec(): the shell is forked, or an OSError is raised.
Spawn ==
  /\ pc = "start"
  /\ \/ /\ alive' = {Shell} /\ group' = {Shell} /\ writers' = {Shell}
        /\ Go("spawn")
        /\ UNCHANGED report
     \/ /\ "spawn" \in May
        /\ report' = [NoReport EXCEPT !.ended = "returned"]
        /\ Go("done")
        /\ UNCHANGED <<alive, group, writers>>
  /\ UNCHANGED <<written, taken, drains, flags, cancelled>>

\* The pipes have been connected and the await returns; with no other await in
\* between the drain tasks are created and the deadline begins.
Connected ==
  /\ pc = "spawn"
  /\ drains' = [s \in Streams |-> "reading"]
  /\ Go("wait")
  /\ UNCHANGED <<processes, taken, flags, cancelled, report>>

\* An exception ends the await: asyncio closes the transport, which kills the shell
\* and not its group, waits for it, and lets the exception go on.
CloseTransport ==
  /\ pc = "spawn"
  /\ alive' = alive \ {Shell}
  /\ writers' = writers \ {Shell}
  /\ Go("done")
  /\ UNCHANGED <<group, written, taken, drains, flags>>

\* A pipe cannot be connected: an OSError, which run_bash_job reports as a failure.
ConnectFails ==
  /\ "spawn" \in May
  /\ CloseTransport
  /\ report' = [NoReport EXCEPT !.ended = "returned"]
  /\ UNCHANGED cancelled

\* The caller is cancelled: only OSError is caught here, and there is no cleanup.
CancelSpawn ==
  /\ "cancel" \in May
  /\ CloseTransport
  /\ cancelled' = TRUE
  /\ report' = [NoReport EXCEPT !.ended = "raised"]

\* Faulty: the output is taken as it is when the shell ends.
WaitedEnough ==
  /\ pc = "wait" /\ Shell \notin alive
  /\ drains' = [s \in Streams |-> IF drains[s] = "reading" THEN "cancelled" ELSE drains[s]]
  /\ Go("report")
  /\ UNCHANGED <<processes, taken, flags, cancelled, report>>

\* await process.wait()
Waited ==
  /\ pc = "wait" /\ Shell \notin alive
  /\ Go("drain")
  /\ UNCHANGED <<processes, taken, drains, flags, cancelled, report>>

\* await asyncio.wait(streams)
StreamsEnded ==
  /\ pc = "drain" /\ AllDrained
  /\ Go("report")
  /\ UNCHANGED <<processes, taken, drains, flags, cancelled, report>>

\* The deadline of the command passes.
TimesOut ==
  /\ pc \in {"wait", "drain"}
  /\ timedOut' = TRUE
  /\ Go("kill")
  /\ UNCHANGED <<processes, taken, drains, cleanupIncomplete, cancelled, report>>

\* The caller is cancelled.  While the command is awaited this starts the
\* cleanup; during the cleanup it is kept until that has ended.
Cancel ==
  /\ "cancel" \in May
  /\ pc \in {"wait", "drain", "kill", "reap", "gather", "abandon"}
  /\ cancelled' = TRUE
  /\ Go(IF pc \in {"wait", "drain"} THEN "kill" ELSE pc)
  /\ UNCHANGED <<processes, taken, drains, flags, report>>

\* Faulty: kills the shell only.
KillShell ==
  /\ pc = "kill"
  /\ alive' = alive \ {Shell}
  /\ writers' = writers \ {Shell}
  /\ Go("reap")
  /\ UNCHANGED <<group, written, taken, drains, flags, cancelled, report>>

\* terminate(): killpg(), and the shell itself if it is still there.  The
\* operating system may deny it, which ends the cleanup.
Kill ==
  /\ pc = "kill"
  /\ \/ /\ alive' = alive \ (group \cup {Shell})
        /\ writers' = writers \ (group \cup {Shell})
        /\ Go("reap")
        /\ UNCHANGED cleanupIncomplete
     \/ /\ "denied" \in May
        /\ cleanupIncomplete' = TRUE
        /\ Go("abandon")
        /\ UNCHANGED <<alive, writers>>
  /\ UNCHANGED <<group, written, taken, drains, timedOut, cancelled, report>>

\* await process.wait() after the kill.
Reaped ==
  /\ pc = "reap" /\ Shell \notin alive
  /\ Go("gather")
  /\ UNCHANGED <<processes, taken, drains, flags, cancelled, report>>

\* await asyncio.gather(*streams)
Gathered ==
  /\ pc = "gather" /\ AllDrained
  /\ Go("abandon")
  /\ UNCHANGED <<processes, taken, drains, flags, cancelled, report>>

\* Faulty: the cleanup waits for the pipes without a deadline.
CleanupTimesOutInReap ==
  /\ pc = "reap"
  /\ cleanupIncomplete' = TRUE
  /\ Go("abandon")
  /\ UNCHANGED <<processes, taken, drains, timedOut, cancelled, report>>

\* CLEANUP_TIMEOUT passes.
CleanupTimesOut ==
  /\ pc \in {"reap", "gather"}
  /\ cleanupIncomplete' = TRUE
  /\ Go("abandon")
  /\ UNCHANGED <<processes, taken, drains, timedOut, cancelled, report>>

\* The `finally' of the cleanup cancels the drain tasks that are left and waits
\* for them.  Then a cancellation goes on its way.
Abandon ==
  /\ pc = "abandon"
  /\ drains' = [s \in Streams |-> IF drains[s] = "reading" THEN "cancelled" ELSE drains[s]]
  /\ IF cancelled
       THEN Go("done") /\ report' = [NoReport EXCEPT !.ended = "raised"]
       ELSE Go("report") /\ UNCHANGED report
  /\ UNCHANGED <<processes, taken, flags, cancelled>>

Truncated == \E s \in Streams : taken[s] > OutputLimit

\* The buffers become artifacts and the result is put together.
Report ==
  /\ pc = "report"
  /\ \E code \in {"zero", "other"} :
       report' = [ended |-> "returned", ok |-> ~timedOut /\ code = "zero",
                  effect |-> IF timedOut \/ code = "other" THEN "unknown" ELSE "applied",
                  partial |-> timedOut \/ cleanupIncomplete, truncated |-> Truncated]
  /\ Go("done")
  /\ UNCHANGED <<processes, taken, drains, flags, cancelled>>

\* An artifact cannot be written: the OSError passes through run_bash_job, and
\* execute() turns it into a failure without effect.
ReportFails ==
  /\ pc = "report" /\ "fault" \in May
  /\ report' = [NoReport EXCEPT !.ended = "returned"]
  /\ Go("done")
  /\ UNCHANGED <<processes, taken, drains, flags, cancelled>>

Main ==
  \/ Spawn \/ Connected \/ ConnectFails \/ Waited \/ StreamsEnded \/ Kill \/ Reaped \/ Gathered \/ Abandon
  \/ Report \/ ReportFails

Timers == TimesOut \/ CleanupTimesOut

Init ==
  /\ alive = {} /\ group = {} /\ writers = {}
  /\ written = [s \in Streams |-> 0] /\ taken = [s \in Streams |-> 0]
  /\ drains = [s \in Streams |-> "none"]
  /\ pc = "start"
  /\ timedOut = FALSE /\ cleanupIncomplete = FALSE /\ cancelled = FALSE
  /\ report = NoReport

Next ==
  \/ Main \/ Timers \/ Cancel \/ CancelSpawn
  \/ \E s \in Streams : Read(s) \/ Drained(s)
  \/ \E c \in Children : LeaveGroup(c) \/ \E p \in Procs : Fork(p, c)
  \/ \E p \in Procs : Exit(p) \/ \E s \in Streams : Write(p, s)

Spec == Init /\ [][Next]_vars

\* The event loop runs the coroutine and its timers; nothing is assumed of the
\* command's processes, which may run and write for ever, or of the drains.
FairSpec == Spec /\ WF_vars(Main) /\ WF_vars(Timers)

-------------------------------------------------------------------------------
(* Properties.                                                             *)

Ended == pc = "done"

\* The call ends whatever the command does: not even a descendant that has left
\* the group and keeps the pipes open for ever can hold it.
CallEnds == <>Ended

\* run_bash_job has got hold of the process, and with it of the cleanup.
Held == \A s \in Streams : drains[s] # "none"

\* Nobody drains a pipe after the call has ended.  After a timeout or a
\* cancellation, unless the report says, or would have said, that the cleanup is
\* incomplete, the shell is dead, and so are its whole process group and whoever
\* had the pipes open, if the call had got hold of the process.
NothingLeftBehind ==
  Ended =>
    /\ \A s \in Streams : drains[s] # "reading"
    /\ (timedOut \/ cancelled) /\ ~cleanupIncomplete =>
         /\ Shell \notin alive
         /\ Held => alive \cap group = {} /\ writers = {}

\* The same without that condition: no cancellation leaves a process of the group
\* behind.  It is not so of one that arrives while the command is being started.
GroupEndsWithCall ==
  Ended /\ (timedOut \/ cancelled) /\ ~cleanupIncomplete => alive \cap group = {}

\* The report is true: success means that the shell ended by itself, in time, and
\* output that is not reported as partial or truncated is all there ever was or
\* will be.
ReportIsTrue ==
  /\ report.ok => Shell \notin alive /\ ~timedOut /\ ~cancelled
  /\ report.ended = "returned" /\ report.effect # "none" /\ ~report.partial =>
       /\ taken = written /\ writers = {}
       /\ ~report.truncated => \A s \in Streams : written[s] <= OutputLimit

\* What the documentation says of effects: when they cannot be ruled out, the
\* result does not deny them.
EffectsNotDenied == report.ended = "returned" /\ report.effect = "none" => group = {}
===============================================================================
