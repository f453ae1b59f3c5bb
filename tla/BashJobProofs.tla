----------------------------- MODULE BashJobProofs -----------------------------
(***************************************************************************)
(* What a shell command leaves behind and what its report says, for any     *)
(* number of descendants and streams, any amount of output and anything    *)
(* that may fail.  The inductive invariant says, for each place of         *)
(* run_bash_job, what it may rely on there.                                *)
(***************************************************************************)
EXTENDS BashJob, TLAPS

\* Before the command has been started there is nothing.
NotStarted ==
  /\ alive = {} /\ group = {} /\ writers = {}
  /\ \A s \in Streams : drains[s] = "none" /\ taken[s] = written[s]

\* A drain task that has ended saw the end of its pipe, which is final.
DrainsSawTheEnd ==
  \A s \in Streams : drains[s] = "ended" => taken[s] = written[s] /\ writers = {}

NobodyDrains == \A s \in Streams : drains[s] # "reading"

AllEnded == \A s \in Streams : drains[s] = "ended"

GroupIsDead == alive \cap group = {} /\ Shell \notin alive

Undisturbed == ~timedOut /\ ~cancelled /\ ~cleanupIncomplete

\* What holds at each place, as far as the cleanup is not incomplete.
Located ==
  /\ pc = "start" => NotStarted /\ Undisturbed
  /\ pc = "spawn" => Undisturbed /\ \A s \in Streams : drains[s] = "none"
  /\ pc \in {"wait", "drain"} => Undisturbed
  /\ pc \in {"wait", "drain", "kill", "reap", "gather"} =>
       \A s \in Streams : drains[s] \in {"reading", "ended"}
  /\ pc = "drain" => Shell \notin alive
  /\ pc \in {"kill", "reap", "gather", "abandon"} => timedOut \/ cancelled
  /\ pc \in {"kill", "reap", "gather"} => ~cleanupIncomplete
  /\ pc \in {"reap", "gather", "abandon"} => cleanupIncomplete \/ GroupIsDead
  /\ pc = "abandon" => cleanupIncomplete \/ AllEnded
  /\ pc = "report" =>
       /\ NobodyDrains /\ ~cancelled
       /\ cleanupIncomplete \/ AllEnded
       /\ cleanupIncomplete \/ ~timedOut \/ GroupIsDead
       /\ timedOut \/ Shell \notin alive
  /\ pc = "done" =>
       /\ NobodyDrains
       /\ (timedOut \/ cancelled) /\ ~cleanupIncomplete =>
            /\ Shell \notin alive
            /\ Held => GroupIsDead /\ AllEnded
  /\ pc # "done" => report = NoReport

\* A report without effect, of a command that was started, needs a fault.
Denied == "fault" \notin May /\ "spawn" \notin May => EffectsNotDenied

Inv ==
  /\ TypeOK /\ DrainsSawTheEnd /\ Located
  /\ ReportIsTrue /\ Denied

-------------------------------------------------------------------------------
(* The steps.                                                              *)

LEMMA InvInit == Init => Inv
  <1> SUFFICES ASSUME Init PROVE Inv
    OBVIOUS
  <1>1. TypeOK
    <2>1. 0 \in 0 .. MaxChunks
      BY BoundsAreNaturals
    <2>2. report \in Reports
      BY DEF Init, NoReport, Reports
    <2> QED
      BY <2>1, <2>2 DEF Init, TypeOK, Places
  <1>2. DrainsSawTheEnd
    BY DEF Init, DrainsSawTheEnd
  <1>3. Located
    BY DEF Init, Located, NotStarted, Undisturbed
  <1>4. ReportIsTrue
    BY DEF Init, ReportIsTrue, NoReport
  <1>5. Denied
    BY DEF Init, Denied, EffectsNotDenied, NoReport
  <1> QED
    BY <1>1, <1>2, <1>3, <1>4, <1>5 DEF Inv

LEMMA SpawnStep ==
  ASSUME Inv, Spawn
  PROVE  Inv'
  <1>1. TypeOK'
    BY DEF Inv, Spawn, Go, flags, TypeOK, Procs, Places, Reports, Located
  <1>2. DrainsSawTheEnd'
    BY DEF Inv, Spawn, DrainsSawTheEnd, Located, NotStarted
  <1>3. Located'
    BY DEF Inv, Spawn, Go, flags, Located, NotStarted, NobodyDrains, Undisturbed
  <1>4. ReportIsTrue'
    BY DEF Inv, Spawn, ReportIsTrue, Located, NoReport
  <1>5. Denied'
    BY DEF Inv, Spawn, Denied, EffectsNotDenied, Located, NoReport, NotStarted
  <1> QED
    BY <1>1, <1>2, <1>3, <1>4, <1>5 DEF Inv

LEMMA ConnectedStep ==
  ASSUME Inv, Connected
  PROVE  Inv'
  <1>1. TypeOK'
    BY DEF Inv, Connected, Go, processes, flags, TypeOK, Places
  <1>2. Located'
    BY DEF Inv, Connected, Go, processes, flags, Located, Undisturbed
  <1>3. ReportIsTrue' /\ Denied'
    BY DEF Inv, Connected, ReportIsTrue, Denied, EffectsNotDenied, Located, NoReport
  <1>4. DrainsSawTheEnd'
    BY DEF Inv, Connected, DrainsSawTheEnd
  <1> QED
    BY <1>1, <1>2, <1>3, <1>4 DEF Inv

LEMMA ConnectFailsStep ==
  ASSUME Inv, ConnectFails
  PROVE  Inv'
  <1>1. TypeOK'
    BY DEF Inv, ConnectFails, CloseTransport, Go, flags, TypeOK, Places, Reports, NoReport
  <1>2. Located'
    BY DEF Inv, ConnectFails, CloseTransport, Go, flags, Located, NobodyDrains, Undisturbed
  <1>3. ReportIsTrue' /\ Denied'
    BY DEF ConnectFails, ReportIsTrue, Denied, EffectsNotDenied, NoReport
  <1>4. DrainsSawTheEnd'
    BY DEF Inv, ConnectFails, CloseTransport, DrainsSawTheEnd, Located
  <1> QED
    BY <1>1, <1>2, <1>3, <1>4 DEF Inv

\* The call ends without having got hold of the process.
LEMMA CancelSpawnStep ==
  ASSUME Inv, CancelSpawn
  PROVE  Inv'
  <1>1. TypeOK'
    BY DEF Inv, CancelSpawn, CloseTransport, Go, flags, TypeOK, Places, Reports, NoReport
  <1>2. Located'
    BY StreamsExist DEF Inv, CancelSpawn, CloseTransport, Go, flags, Located, NobodyDrains, Held
  <1>3. ReportIsTrue' /\ Denied'
    BY DEF CancelSpawn, ReportIsTrue, Denied, EffectsNotDenied, NoReport
  <1>4. DrainsSawTheEnd'
    BY DEF Inv, CancelSpawn, CloseTransport, DrainsSawTheEnd, Located
  <1> QED
    BY <1>1, <1>2, <1>3, <1>4 DEF Inv

LEMMA WaitedStep ==
  ASSUME Inv, Waited
  PROVE  Inv'
  <1>1. TypeOK'
    BY DEF Inv, Waited, Go, processes, flags, TypeOK, Places
  <1>2. Located'
    BY DEF Inv, Waited, Go, processes, flags, Located, Undisturbed
  <1>3. DrainsSawTheEnd' /\ ReportIsTrue' /\ Denied'
    BY DEF Inv, Waited, processes, DrainsSawTheEnd, ReportIsTrue, Denied,
       EffectsNotDenied, Located, NoReport
  <1> QED
    BY <1>1, <1>2, <1>3 DEF Inv

LEMMA StreamsEndedStep ==
  ASSUME Inv, StreamsEnded
  PROVE  Inv'
  <1>1. TypeOK'
    BY DEF Inv, StreamsEnded, Go, processes, flags, TypeOK, Places
  <1>2. Located'
    BY DEF Inv, StreamsEnded, Go, AllDrained, processes, flags, Located, NobodyDrains,
       AllEnded, Undisturbed
  <1>3. DrainsSawTheEnd' /\ ReportIsTrue' /\ Denied'
    BY DEF Inv, StreamsEnded, processes, DrainsSawTheEnd, ReportIsTrue, Denied,
       EffectsNotDenied, Located, NoReport
  <1> QED
    BY <1>1, <1>2, <1>3 DEF Inv

LEMMA TimesOutStep ==
  ASSUME Inv, TimesOut
  PROVE  Inv'
  <1>1. TypeOK'
    BY DEF Inv, TimesOut, Go, processes, TypeOK, Places
  <1>2. Located'
    BY DEF Inv, TimesOut, Go, Located, Undisturbed
  <1>3. ReportIsTrue'
    BY DEF Inv, TimesOut, ReportIsTrue, Located, NoReport
  <1>4. DrainsSawTheEnd' /\ Denied'
    BY DEF Inv, TimesOut, processes, DrainsSawTheEnd, Denied, EffectsNotDenied
  <1> QED
    BY <1>1, <1>2, <1>3, <1>4 DEF Inv

LEMMA CancelStep ==
  ASSUME Inv, Cancel
  PROVE  Inv'
  <1>1. TypeOK'
    BY DEF Inv, Cancel, Go, processes, flags, TypeOK, Places
  <1>2. Located'
    BY DEF Inv, Cancel, Go, processes, flags, Located, AllEnded, GroupIsDead,
       Undisturbed, Held
  <1>3. ReportIsTrue'
    BY DEF Inv, Cancel, ReportIsTrue, Located, NoReport
  <1>4. DrainsSawTheEnd' /\ Denied'
    BY DEF Inv, Cancel, processes, DrainsSawTheEnd, Denied, EffectsNotDenied
  <1> QED
    BY <1>1, <1>2, <1>3, <1>4 DEF Inv

LEMMA KillStep ==
  ASSUME Inv, Kill
  PROVE  Inv'
  <1>1. TypeOK'
    BY DEF Inv, Kill, Go, TypeOK, Places
  <1>2. DrainsSawTheEnd'
    BY DEF Inv, Kill, DrainsSawTheEnd
  <1>3. Located'
    BY DEF Inv, Kill, Go, Located, GroupIsDead
  <1>4. ReportIsTrue'
    BY DEF Inv, Kill, ReportIsTrue
  <1>5. Denied'
    BY DEF Inv, Kill, Denied, EffectsNotDenied
  <1> QED
    BY <1>1, <1>2, <1>3, <1>4, <1>5 DEF Inv

LEMMA ReapedStep ==
  ASSUME Inv, Reaped
  PROVE  Inv'
  <1>1. TypeOK'
    BY DEF Inv, Reaped, Go, processes, flags, TypeOK, Places
  <1>2. Located'
    BY DEF Inv, Reaped, Go, processes, flags, Located, GroupIsDead
  <1>3. DrainsSawTheEnd' /\ ReportIsTrue' /\ Denied'
    BY DEF Inv, Reaped, processes, DrainsSawTheEnd, ReportIsTrue, Denied,
       EffectsNotDenied, Located
  <1> QED
    BY <1>1, <1>2, <1>3 DEF Inv

LEMMA GatheredStep ==
  ASSUME Inv, Gathered
  PROVE  Inv'
  <1>1. TypeOK'
    BY DEF Inv, Gathered, Go, processes, flags, TypeOK, Places
  <1>2. Located'
    BY DEF Inv, Gathered, Go, AllDrained, processes, flags, Located, AllEnded,
       GroupIsDead
  <1>3. DrainsSawTheEnd' /\ ReportIsTrue' /\ Denied'
    BY DEF Inv, Gathered, processes, DrainsSawTheEnd, ReportIsTrue, Denied,
       EffectsNotDenied, Located
  <1> QED
    BY <1>1, <1>2, <1>3 DEF Inv

LEMMA CleanupTimesOutStep ==
  ASSUME Inv, CleanupTimesOut
  PROVE  Inv'
  <1>1. TypeOK'
    BY DEF Inv, CleanupTimesOut, Go, processes, TypeOK, Places
  <1>2. Located'
    BY DEF Inv, CleanupTimesOut, Go, Located
  <1>3. DrainsSawTheEnd' /\ ReportIsTrue' /\ Denied'
    BY DEF Inv, CleanupTimesOut, processes, DrainsSawTheEnd, ReportIsTrue, Denied,
       EffectsNotDenied
  <1> QED
    BY <1>1, <1>2, <1>3 DEF Inv

LEMMA AbandonStep ==
  ASSUME Inv, Abandon
  PROVE  Inv'
  <1>1. TypeOK'
    BY DEF Inv, Abandon, Go, processes, flags, TypeOK, Places, Reports, Located
  <1>2. DrainsSawTheEnd'
    BY DEF Inv, Abandon, processes, DrainsSawTheEnd
  <1>3. Located'
    BY DEF Inv, Abandon, Go, processes, flags, Located, NobodyDrains, AllEnded,
       GroupIsDead
  <1>4. ReportIsTrue'
    BY DEF Inv, Abandon, ReportIsTrue, Located, NoReport
  <1>5. Denied'
    BY DEF Inv, Abandon, Denied, EffectsNotDenied, Located, NoReport
  <1> QED
    BY <1>1, <1>2, <1>3, <1>4, <1>5 DEF Inv

LEMMA ReportStep ==
  ASSUME Inv, Report
  PROVE  Inv'
  <1>1. TypeOK'
    BY DEF Inv, Report, Go, Truncated, processes, flags, TypeOK, Places, Reports
  <1>2. Located'
    BY DEF Inv, Report, Go, processes, flags, Located, NobodyDrains, AllEnded,
       GroupIsDead
  <1>3. ReportIsTrue'
    BY BoundsAreNaturals, StreamsExist DEF Inv, Report, Truncated, processes, flags,
       ReportIsTrue, TypeOK, DrainsSawTheEnd, Located, AllEnded
  <1>4. Denied'
    BY DEF Report, Denied, EffectsNotDenied
  <1>5. DrainsSawTheEnd'
    BY DEF Inv, Report, processes, DrainsSawTheEnd
  <1> QED
    BY <1>1, <1>2, <1>3, <1>4, <1>5 DEF Inv

LEMMA ReportFailsStep ==
  ASSUME Inv, ReportFails
  PROVE  Inv'
  <1>1. TypeOK'
    BY DEF Inv, ReportFails, Go, processes, flags, TypeOK, Places, Reports, Located
  <1>2. Located'
    BY DEF Inv, ReportFails, Go, processes, flags, Located, NobodyDrains, AllEnded,
       GroupIsDead
  <1>3. ReportIsTrue'
    BY DEF ReportFails, ReportIsTrue, NoReport
  <1>4. Denied'
    BY DEF ReportFails, Denied
  <1>5. DrainsSawTheEnd'
    BY DEF Inv, ReportFails, processes, DrainsSawTheEnd
  <1> QED
    BY <1>1, <1>2, <1>3, <1>4, <1>5 DEF Inv

LEMMA ReadStep ==
  ASSUME Inv, NEW s \in Streams, Read(s)
  PROVE  Inv'
  <1>1. TypeOK'
    BY BoundsAreNaturals DEF Inv, Read, processes, flags, TypeOK
  <1>2. DrainsSawTheEnd'
    BY DEF Inv, Read, processes, DrainsSawTheEnd
  <1>3. Located'
    BY DEF Inv, Read, processes, flags, Located, NotStarted, NobodyDrains, AllEnded,
       GroupIsDead, Undisturbed, Held
  <1>4. ReportIsTrue'
    BY DEF Inv, Read, ReportIsTrue, Located, NoReport, NobodyDrains
  <1>5. Denied'
    BY DEF Inv, Read, Denied, EffectsNotDenied, Located, NoReport, NobodyDrains
  <1> QED
    BY <1>1, <1>2, <1>3, <1>4, <1>5 DEF Inv

LEMMA DrainedStep ==
  ASSUME Inv, NEW s \in Streams, Drained(s)
  PROVE  Inv'
  <1>1. TypeOK'
    BY DEF Inv, Drained, processes, flags, TypeOK
  <1>2. DrainsSawTheEnd'
    BY DEF Inv, Drained, processes, DrainsSawTheEnd
  <1>3. Located'
    BY DEF Inv, Drained, processes, flags, Located, NotStarted, NobodyDrains,
       AllEnded, GroupIsDead, Undisturbed, Held
  <1>4. ReportIsTrue' /\ Denied'
    BY DEF Inv, Drained, ReportIsTrue, Denied, EffectsNotDenied, Located, NoReport,
       NobodyDrains
  <1> QED
    BY <1>1, <1>2, <1>3, <1>4 DEF Inv

LEMMA ForkStep ==
  ASSUME Inv, NEW p \in Procs, NEW c \in Children, Fork(p, c)
  PROVE  Inv'
  <1>1. TypeOK'
    BY DEF Inv, Fork, flags, TypeOK, Procs
  <1>2. DrainsSawTheEnd'
    BY DEF Inv, Fork, DrainsSawTheEnd
  <1>3. Located'
    BY ShellIsNoChild DEF Inv, Fork, flags, Located, NotStarted, NobodyDrains,
       AllEnded, GroupIsDead, Undisturbed, Held
  <1>4. ReportIsTrue'
    BY ShellIsNoChild DEF Inv, Fork, flags, ReportIsTrue
  <1>5. Denied'
    BY DEF Inv, Fork, Denied, EffectsNotDenied
  <1> QED
    BY <1>1, <1>2, <1>3, <1>4, <1>5 DEF Inv

LEMMA LeaveGroupStep ==
  ASSUME Inv, NEW c \in Children, LeaveGroup(c)
  PROVE  Inv'
  <1>1. TypeOK'
    BY DEF Inv, LeaveGroup, flags, TypeOK
  <1>2. Located'
    BY DEF Inv, LeaveGroup, flags, Located, NotStarted, NobodyDrains, AllEnded,
       GroupIsDead, Undisturbed, Held
  <1>3. Denied'
    BY DEF Inv, LeaveGroup, Denied, EffectsNotDenied
  <1>4. DrainsSawTheEnd' /\ ReportIsTrue'
    BY DEF Inv, LeaveGroup, flags, DrainsSawTheEnd, ReportIsTrue
  <1> QED
    BY <1>1, <1>2, <1>3, <1>4 DEF Inv

LEMMA WriteStep ==
  ASSUME Inv, NEW p \in Procs, NEW s \in Streams, Write(p, s)
  PROVE  Inv'
  <1>1. TypeOK'
    BY BoundsAreNaturals DEF Inv, Write, flags, TypeOK
  <1>2. DrainsSawTheEnd'
    BY DEF Inv, Write, DrainsSawTheEnd
  <1>3. Located'
    BY DEF Inv, Write, flags, Located, NotStarted, NobodyDrains, AllEnded,
       GroupIsDead, Undisturbed, Held
  <1>4. ReportIsTrue'
    BY DEF Inv, Write, flags, ReportIsTrue
  <1>5. Denied'
    BY DEF Inv, Write, Denied, EffectsNotDenied
  <1> QED
    BY <1>1, <1>2, <1>3, <1>4, <1>5 DEF Inv

LEMMA ExitStep ==
  ASSUME Inv, NEW p \in Procs, Exit(p)
  PROVE  Inv'
  <1>1. TypeOK'
    BY DEF Inv, Exit, flags, TypeOK
  <1>2. DrainsSawTheEnd'
    BY DEF Inv, Exit, DrainsSawTheEnd
  <1>3. Located'
    BY DEF Inv, Exit, flags, Located, NotStarted, NobodyDrains, AllEnded, GroupIsDead,
       Undisturbed, Held
  <1>4. ReportIsTrue'
    BY DEF Inv, Exit, flags, ReportIsTrue
  <1>5. Denied'
    BY DEF Inv, Exit, Denied, EffectsNotDenied
  <1> QED
    BY <1>1, <1>2, <1>3, <1>4, <1>5 DEF Inv

LEMMA StutterStep ==
  ASSUME Inv, UNCHANGED vars
  PROVE  Inv'
  <1>1. TypeOK'
    BY DEF Inv, vars, processes, flags, TypeOK
  <1>2. DrainsSawTheEnd'
    BY DEF Inv, vars, processes, DrainsSawTheEnd
  <1>3. Located'
    BY DEF Inv, vars, processes, flags, Located, NotStarted, NobodyDrains, AllEnded,
       GroupIsDead, Undisturbed, Held
  <1>4. ReportIsTrue'
    BY DEF Inv, vars, processes, flags, ReportIsTrue
  <1>5. Denied'
    BY DEF Inv, vars, processes, Denied, EffectsNotDenied
  <1> QED
    BY <1>1, <1>2, <1>3, <1>4, <1>5 DEF Inv

LEMMA InvNext == Inv /\ [Next]_vars => Inv'
  <1> SUFFICES ASSUME Inv, [Next]_vars PROVE Inv'
    OBVIOUS
  <1>1. CASE UNCHANGED vars
    BY <1>1, StutterStep
  <1>2. CASE Main
    BY <1>2, SpawnStep, ConnectedStep, ConnectFailsStep, WaitedStep, StreamsEndedStep,
       KillStep, ReapedStep, GatheredStep, AbandonStep, ReportStep, ReportFailsStep
       DEF Main
  <1>3. CASE Timers \/ Cancel \/ CancelSpawn
    BY <1>3, TimesOutStep, CleanupTimesOutStep, CancelStep, CancelSpawnStep DEF Timers
  <1>4. ASSUME NEW s \in Streams, Read(s) \/ Drained(s) PROVE Inv'
    BY <1>4, ReadStep, DrainedStep
  <1>5. ASSUME NEW c \in Children, LeaveGroup(c) \/ \E p \in Procs : Fork(p, c)
        PROVE  Inv'
    BY <1>5, LeaveGroupStep, ForkStep
  <1>6. ASSUME NEW p \in Procs, Exit(p) \/ \E s \in Streams : Write(p, s)
        PROVE  Inv'
    BY <1>6, ExitStep, WriteStep
  <1> QED
    BY <1>1, <1>2, <1>3, <1>4, <1>5, <1>6 DEF Next

-------------------------------------------------------------------------------
(* The theorems.                                                           *)

LEMMA Invariance == Spec => []Inv
  BY InvInit, InvNext, PTL DEF Spec

\* The variables of run_bash_job keep their types, for every command.
THEOREM TypeCorrect == Spec => []TypeOK
  <1>1. Inv => TypeOK
    BY DEF Inv
  <1> QED
    BY <1>1, Invariance, PTL

\* When run_bash_job has ended, however it was timed out and cancelled, nothing
\* drains a pipe any more, and after a timeout or a cancellation, unless the cleanup
\* is recorded as incomplete, the shell is dead and so is its process group, except
\* where the call was cancelled before it had got hold of the process.
THEOREM NothingIsLeftBehind == Spec => []NothingLeftBehind
  <1>1. Inv => NothingLeftBehind
    BY StreamsExist DEF Inv, NothingLeftBehind, Ended, Located, NobodyDrains,
       AllEnded, GroupIsDead, DrainsSawTheEnd, Held
  <1> QED
    BY <1>1, Invariance, PTL

\* The report of a command is true of its processes and its output.
THEOREM ReportAlwaysTrue == Spec => []ReportIsTrue
  <1>1. Inv => ReportIsTrue
    BY DEF Inv
  <1> QED
    BY <1>1, Invariance, PTL

\* If the pipes can always be connected and the artifacts written, no command that
\* was started is reported as without effect.
THEOREM EffectsDeniedOnlyByFaults ==
  ASSUME "fault" \notin May, "spawn" \notin May
  PROVE  Spec => []EffectsNotDenied
  <1>1. Inv => EffectsNotDenied
    BY DEF Inv, Denied
  <1> QED
    BY <1>1, Invariance, PTL
===============================================================================
