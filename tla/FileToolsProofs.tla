---------------------------- MODULE FileToolsProofs ----------------------------
(***************************************************************************)
(* The file tools for any number of sessions, calls, texts and faults: what *)
(* a caller is told is true, and, among programs that use one lock file,   *)
(* write and edit are compare-and-swap operations on a register.           *)
(***************************************************************************)
EXTENDS FileTools, SequenceTheorems, TLAPS

\* What a call of write or edit replaces, if it replaces anything.
Replaced(c) ==
  IF Args[c].tool = "write" /\ (Args[c].createOnly \/ Args[c].expected = NoText)
    THEN NoData ELSE Whole(Args[c].expected)

OneLockFile == \A s, t \in Sessions : LockOf[s] = LockOf[t]

Holding == {"stat", "open", "rest", "restat", "temp", "publish", "release"}

\* A thread that is between taking and leaving the lock holds it.
Locked == \A c \in Calls : pc[c] \in Holding => holder[Lock(c)] = c

\* What a thread has read so far, by its place.
ReadSoFar ==
  \A c \in Calls :
    /\ pc[c] \in {"idle", "lock", "stat", "open"} => raw[c] = NoData
    /\ pc[c] \in {"temp", "publish"} => Writing(c) /\ raw[c] = Replaced(c)
    /\ pc[c] = "release" => Writing(c)
    /\ pc[c] = "keep" => ~Writing(c) /\ raw[c] \in Data

\* Publication, result and outcome follow one another.
Reported ==
  \A c \in Calls :
    /\ published[c] => pc[c] \in {"release", "done", "dead"}
    /\ pc[c] = "release" => published[c]
    /\ result[c] # "none" => pc[c] \in {"done", "dead"}
    /\ outcome[c] # "none" => pc[c] = "done" /\ current[Owner[c]] # c

\* Only the newest inode is ever changed.
NewestOnly == entry \in {0, Len(disk)}

\* As long as a file that was read is the one seen before, and not modified since,
\* what was read of it is what it holds.
Snapshots ==
  \A c \in Calls :
    /\ pc[c] \in {"open", "rest", "restat"} =>
         /\ before[c][1] \in 1 .. Len(disk)
         /\ before[c][2] <= disk[before[c][1]].mtime
    /\ pc[c] \in {"rest", "restat"} =>
         /\ handle[c] >= before[c][1]
         /\ disk[handle[c]].mtime = before[c][2] /\ handle[c] = before[c][1] =>
              /\ raw[c][1] = disk[handle[c]].data[1]
              /\ pc[c] = "restat" => raw[c][2] = disk[handle[c]].data[2]

\* Among programs that use one lock file, a version that is about to be replaced
\* is still there.
Fresh ==
  OneLockFile /\ outside = 0 =>
    \A c \in Calls : pc[c] \in {"temp", "publish"} => raw[c] = Current

Inv ==
  /\ TypeOK /\ ThreadsAreAwaited /\ ReportsAreHonest
  /\ Locked /\ ReadSoFar /\ Reported /\ NewestOnly /\ Snapshots /\ Fresh

-------------------------------------------------------------------------------
(* The steps of the threads.                                               *)

LEMMA InodeTyped ==
  ASSUME Inv, NEW i \in 1 .. Len(disk)
  PROVE  /\ disk[i] \in [data : Data, mtime : Nat]
         /\ disk[i].data \in Data /\ disk[i].mtime \in Nat
         /\ disk[i].data[1] \in Texts /\ disk[i].data[2] \in Texts
  <1>1. disk[i] \in [data : Data, mtime : Nat]
    BY ElementOfSeq DEF Inv, TypeOK
  <1>2. disk[i].data \in Data /\ disk[i].mtime \in Nat
    BY <1>1
  <1> QED
    BY <1>1, <1>2 DEF Data


LEMMA AcquireStep ==
  ASSUME Inv,
         NEW c \in Calls,
         Acquire(c)
  PROVE  Inv'
  <1>1. TypeOK'
    BY DEF Inv, Acquire, TypeOK, Places, NoData, fileVars, threadVars, sessionVars, Go
  <1>2. ThreadsAreAwaited'
    BY DEF Inv, Acquire, ThreadsAreAwaited, sessionVars, At, Go
  <1>3. Locked'
    BY OwnersAreSessions, NoCallIsNoCall DEF Inv, Acquire, Locked, TypeOK, Lock,
       Locks, fileVars, Go
  <1>4. ReadSoFar'
    BY DEF Inv, Acquire, ReadSoFar, NoData, threadVars, At, Go
  <1>5. Reported'
    BY DEF Inv, Acquire, Reported, threadVars, sessionVars, At, Go
  <1>6. Snapshots'
    BY DEF Inv, Acquire, Snapshots, fileVars, threadVars, sessionVars, Go
  <1>7. Fresh'
    BY OwnersAreSessions, NoCallIsNoCall DEF Inv, Acquire, Fresh, OneLockFile, Locked,
       Holding, Lock, Go
  <1>8. ReportsAreHonest' /\ NewestOnly'
    BY DEF Inv, Acquire, ReportsAreHonest, NewestOnly, fileVars, threadVars, sessionVars
  <1> QED
    BY <1>1, <1>2, <1>3, <1>4, <1>5, <1>6, <1>7, <1>8 DEF Inv

\* Every way for a call to end, if what it returns fits what it did.
LEMMA EndStep ==
  ASSUME Inv,
         NEW c \in Calls,
         NEW res \in Results,
         pc[c] \notin {"idle", "done", "dead"},
         End(c, res),
         UNCHANGED <<fileVars, before, handle, raw, published, sessionVars, outside>>,
         artifacts' \subseteq Data,
         faults' \in 0 .. MaxFaults,
         res \in Failures => ~published[c],
         res = "ok" /\ Writing(c) => published[c]
  PROVE  Inv'
  <1>1. TypeOK'
    BY DEF Inv, End, TypeOK, Places, NoData, fileVars, sessionVars, Go
  <1>2. ThreadsAreAwaited'
    BY DEF Inv, End, ThreadsAreAwaited, sessionVars, Go
  <1>3. ReportsAreHonest'
    BY DEF Inv, End, ReportsAreHonest, Reported, Failures, Results, sessionVars
  <1>4. Locked'
    BY OwnersAreSessions DEF Inv, End, Locked, TypeOK, Holding, Lock, Locks, fileVars,
       Go
  <1>5. ReadSoFar'
    BY DEF Inv, End, ReadSoFar, NoData, Go
  <1>6. Reported'
    BY DEF Inv, End, Reported, TypeOK, sessionVars, Go
  <1>7. Snapshots'
    BY DEF Inv, End, Snapshots, fileVars, sessionVars, Go
  <1>8. Fresh'
    BY DEF Inv, End, Fresh, Current, Holding, fileVars, Go
  <1>9. NewestOnly'
    BY DEF Inv, NewestOnly, fileVars, sessionVars
  <1> QED
    BY <1>1, <1>2, <1>3, <1>4, <1>5, <1>6, <1>7, <1>8, <1>9 DEF Inv

\* The branches of StatBefore and ReadFirst that go on.
LEMMA SeesFile ==
  ASSUME Inv,
         NEW c \in Calls,
         At(c, "stat"),
         entry # 0,
         before' = [before EXCEPT ![c] = Stat],
         Go(c, "open"),
         UNCHANGED <<fileVars, holder, handle, raw, published, artifacts, result, sessionVars, outside, faults>>
  PROVE  Inv'
  <1>1. TypeOK'
    <2>1. Stat \in Nat \X Nat
      BY InodeTyped DEF Inv, TypeOK, Stat
    <2> QED
      BY <2>1 DEF Inv, TypeOK, Places, Go, fileVars, sessionVars
  <1>2. ThreadsAreAwaited'
    BY DEF Inv, ThreadsAreAwaited, sessionVars, At, Go
  <1>3. Locked'
    BY DEF Inv, Locked, Holding, fileVars, At, Go
  <1>4. ReadSoFar'
    BY DEF Inv, ReadSoFar, NoData, At, Go
  <1>5. Reported'
    BY DEF Inv, Reported, sessionVars, At, Go
  <1>6. Snapshots'
    <2>1. entry \in 1 .. Len(disk) /\ disk[entry].mtime \in Nat
      BY InodeTyped DEF Inv, TypeOK
    <2> QED
      BY <2>1 DEF Inv, Snapshots, TypeOK, Stat, Go, fileVars
  <1>7. Fresh'
    BY OwnersAreSessions DEF Inv, Fresh, OneLockFile, Locked, Holding, Lock, At, Go
  <1>8. ReportsAreHonest' /\ NewestOnly'
    BY DEF Inv, ReportsAreHonest, NewestOnly, fileVars, sessionVars
  <1> QED
    BY <1>1, <1>2, <1>3, <1>4, <1>5, <1>6, <1>7, <1>8 DEF Inv

LEMMA SeesNoFile ==
  ASSUME Inv,
         NEW c \in Calls,
         At(c, "stat"),
         entry = 0,
         MayCreate(c),
         Go(c, "temp"),
         UNCHANGED <<fileVars, holder, threadVars, result, sessionVars, outside, faults>>
  PROVE  Inv'
  <1>1. TypeOK'
    BY DEF Inv, TypeOK, Places, NoData, fileVars, threadVars, sessionVars, Go
  <1>2. ThreadsAreAwaited'
    BY DEF Inv, ThreadsAreAwaited, sessionVars, At, Go
  <1>3. Locked'
    BY DEF Inv, Locked, Holding, fileVars, At, Go
  <1>4. ReadSoFar'
    BY DEF Inv, MayCreate, ReadSoFar, Writing, Replaced, NoData, threadVars, At, Go
  <1>5. Reported'
    BY DEF Inv, Reported, threadVars, sessionVars, At, Go
  <1>6. Snapshots'
    BY DEF Inv, Snapshots, fileVars, threadVars, sessionVars, Go
  <1>7. Fresh'
    BY DEF Inv, Fresh, ReadSoFar, Current, At, Go, fileVars, threadVars
  <1>8. ReportsAreHonest' /\ NewestOnly'
    BY DEF Inv, ReportsAreHonest, NewestOnly, fileVars, threadVars, sessionVars
  <1> QED
    BY <1>1, <1>2, <1>3, <1>4, <1>5, <1>6, <1>7, <1>8 DEF Inv

LEMMA OpensFile ==
  ASSUME Inv,
         NEW c \in Calls,
         At(c, "open"),
         entry # 0,
         handle' = [handle EXCEPT ![c] = entry],
         raw' = [raw EXCEPT ![c] = <<disk[entry].data[1], NoText>>],
         Go(c, "rest"),
         UNCHANGED <<fileVars, holder, before, published, artifacts, result, sessionVars, outside, faults>>
  PROVE  Inv'
  <1>1. TypeOK'
    <2>1. disk[entry].data[1] \in Texts
      BY InodeTyped DEF Inv, TypeOK
    <2> QED
      BY <2>1 DEF Inv, TypeOK, Places, Go, fileVars, sessionVars
  <1>2. ThreadsAreAwaited'
    BY DEF Inv, ThreadsAreAwaited, sessionVars, At, Go
  <1>3. Locked'
    BY DEF Inv, Locked, Holding, threadVars, At, Go
  <1>4. ReadSoFar'
    BY DEF Inv, ReadSoFar, TypeOK, Whole, Go
  <1>5. Reported'
    BY DEF Inv, Reported, sessionVars, At, Go
  <1>6. Snapshots'
    BY DEF Inv, Snapshots, TypeOK, NewestOnly, fileVars, At, Go
  <1>7. Fresh'
    BY OwnersAreSessions DEF Inv, Fresh, OneLockFile, Locked, Holding, Lock, At, Go
  <1>8. ReportsAreHonest' /\ NewestOnly'
    BY DEF Inv, ReportsAreHonest, NewestOnly, fileVars, sessionVars
  <1> QED
    BY <1>1, <1>2, <1>3, <1>4, <1>5, <1>6, <1>7, <1>8 DEF Inv

LEMMA StatBeforeStep ==
  ASSUME Inv, NEW c \in Calls, StatBefore(c)
  PROVE  Inv'
  <1>1. CASE entry # 0
    BY <1>1, SeesFile DEF StatBefore, threadVars
  <1>2. CASE entry = 0 /\ MayCreate(c)
    BY <1>2, SeesNoFile DEF StatBefore, threadVars
  <1>3. CASE entry = 0 /\ ~MayCreate(c)
    <2>1. ~published[c] /\ artifacts \subseteq Data /\ faults \in 0 .. MaxFaults
      BY DEF Inv, TypeOK, Reported, StatBefore, At
    <2>2. \E res \in Failures : End(c, res)
      BY <1>3 DEF StatBefore, Failures
    <2> QED
      BY <1>3, <2>1, <2>2, EndStep DEF StatBefore, At, Failures, Results, threadVars, sessionVars
  <1> QED
    BY <1>1, <1>2, <1>3

LEMMA ReadFirstStep ==
  ASSUME Inv, NEW c \in Calls, ReadFirst(c)
  PROVE  Inv'
  <1>1. CASE entry # 0
    BY <1>1, OpensFile DEF ReadFirst, threadVars
  <1>2. CASE entry = 0
    <2>1. ~published[c] /\ artifacts \subseteq Data /\ faults \in 0 .. MaxFaults
      BY DEF Inv, TypeOK, Reported, ReadFirst, At
    <2> QED
      BY <1>2, <2>1, EndStep DEF ReadFirst, At, Failures, Results, threadVars, sessionVars
  <1> QED
    BY <1>1, <1>2

LEMMA ReadRestStep ==
  ASSUME Inv,
         NEW c \in Calls,
         ReadRest(c)
  PROVE  Inv'
  <1>1. TypeOK'
    <2>1. handle[c] \in 1 .. Len(disk)
      BY DEF Inv, TypeOK, Snapshots, ReadRest, At
    <2>2. disk[handle[c]].data[2] \in Texts
      BY <2>1, InodeTyped
    <2>3. raw[c][1] \in Texts \cup {NoText}
      BY DEF Inv, TypeOK
    <2>4. raw' \in [Calls -> (Texts \cup {NoText}) \X (Texts \cup {NoText})]
      BY <2>2, <2>3 DEF Inv, TypeOK, ReadRest
    <2> QED
      BY <2>4 DEF Inv, TypeOK, ReadRest, Places, Go, fileVars, sessionVars
  <1>2. ThreadsAreAwaited'
    BY DEF Inv, ReadRest, ThreadsAreAwaited, sessionVars, At, Go
  <1>3. Locked'
    BY DEF Inv, ReadRest, Locked, Holding, fileVars, At, Go
  <1>4. ReadSoFar'
    BY DEF Inv, ReadRest, ReadSoFar, NoData, At, Go
  <1>5. Reported'
    BY DEF Inv, ReadRest, Reported, sessionVars, At, Go
  <1>6. Snapshots'
    BY DEF Inv, ReadRest, Snapshots, TypeOK, fileVars, sessionVars, At, Go
  <1>7. Fresh'
    BY OwnersAreSessions DEF Inv, ReadRest, Fresh, OneLockFile, Locked, Holding, Lock,
       At, Go
  <1>8. ReportsAreHonest' /\ NewestOnly'
    BY DEF Inv, ReadRest, ReportsAreHonest, NewestOnly, fileVars, threadVars,
       sessionVars
  <1> QED
    BY <1>1, <1>2, <1>3, <1>4, <1>5, <1>6, <1>7, <1>8 DEF Inv

\* The snapshot is whole.
LEMMA WholeSnapshot ==
  ASSUME Inv, NEW c \in Calls, At(c, "restat"), entry # 0, SameFile(c)
  PROVE  raw[c] = Current /\ raw[c] \in Data
  <1>1. /\ entry = Len(disk) /\ entry \in 1 .. Len(disk)
        /\ before[c][1] = entry /\ before[c][2] = disk[entry].mtime
    BY DEF Inv, TypeOK, NewestOnly, SameFile, Stat
  <1>2. handle[c] = entry
    BY <1>1 DEF Inv, TypeOK, Snapshots, At
  <1>3. disk[entry].data \in Data
    BY <1>1, InodeTyped
  <1>4. raw[c][1] = disk[entry].data[1] /\ raw[c][2] = disk[entry].data[2]
    BY <1>1, <1>2 DEF Inv, Snapshots, At
  <1>5. raw[c] = <<raw[c][1], raw[c][2]>>
    BY DEF Inv, TypeOK
  <1>6. disk[entry].data = <<disk[entry].data[1], disk[entry].data[2]>>
    BY <1>3 DEF Data
  <1>7. raw[c] = disk[entry].data
    BY <1>4, <1>5, <1>6
  <1> QED
    BY <1>3, <1>7 DEF Current

\* The branches of StatAfter that go on.
LEMMA GoesOnToWrite ==
  ASSUME Inv,
         NEW c \in Calls,
         At(c, "restat"),
         entry # 0,
         SameFile(c),
         Writing(c),
         Accepted(c),
         Go(c, "temp"),
         UNCHANGED <<fileVars, holder, threadVars, result, sessionVars, outside, faults>>
  PROVE  Inv'
  <1>1. TypeOK'
    BY DEF Inv, TypeOK, Places, fileVars, threadVars, sessionVars, Go
  <1>2. ThreadsAreAwaited'
    BY DEF Inv, ThreadsAreAwaited, sessionVars, At, Go
  <1>3. Locked'
    BY DEF Inv, Locked, Holding, threadVars, At, Go
  <1>4. ReadSoFar'
    BY WholeSnapshot, NoTextIsNoText DEF Inv, ReadSoFar, TypeOK, Accepted, Replaced,
       Whole, Data, Go, threadVars
  <1>5. Reported'
    BY DEF Inv, Reported, threadVars, sessionVars, At, Go
  <1>6. Snapshots'
    BY DEF Inv, Snapshots, fileVars, threadVars, At, Go
  <1>7. Fresh'
    BY WholeSnapshot DEF Inv, Fresh, Current, Go, fileVars, threadVars
  <1>8. ReportsAreHonest' /\ NewestOnly'
    BY DEF Inv, ReportsAreHonest, NewestOnly, fileVars, threadVars, sessionVars
  <1> QED
    BY <1>1, <1>2, <1>3, <1>4, <1>5, <1>6, <1>7, <1>8 DEF Inv

LEMMA LeavesLock ==
  ASSUME Inv,
         NEW c \in Calls,
         At(c, "restat"),
         entry # 0,
         SameFile(c),
         ~Writing(c),
         Go(c, "keep"),
         holder' = [holder EXCEPT ![Lock(c)] = NoCall],
         UNCHANGED <<fileVars, threadVars, result, sessionVars, outside, faults>>
  PROVE  Inv'
  <1>1. TypeOK'
    BY DEF Inv, TypeOK, Places, fileVars, threadVars, sessionVars, Go
  <1>2. ThreadsAreAwaited'
    BY DEF Inv, ThreadsAreAwaited, sessionVars, At, Go
  <1>3. Locked'
    BY DEF Inv, Locked, TypeOK, Holding, Lock, threadVars, At, Go
  <1>4. ReadSoFar'
    BY WholeSnapshot DEF Inv, ReadSoFar, Go, threadVars, Replaced
  <1>5. Reported'
    BY DEF Inv, Reported, threadVars, sessionVars, At, Go
  <1>6. Snapshots'
    BY DEF Inv, Snapshots, fileVars, threadVars, At, Go
  <1>7. Fresh'
    BY OwnersAreSessions DEF Inv, Fresh, OneLockFile, Locked, Holding, Lock, At, Go
  <1>8. ReportsAreHonest' /\ NewestOnly'
    BY DEF Inv, ReportsAreHonest, NewestOnly, fileVars, threadVars, sessionVars
  <1> QED
    BY <1>1, <1>2, <1>3, <1>4, <1>5, <1>6, <1>7, <1>8 DEF Inv

LEMMA StatAfterStep ==
  ASSUME Inv, NEW c \in Calls, StatAfter(c)
  PROVE  Inv'
  <1>1. CASE entry # 0 /\ SameFile(c) /\ Writing(c) /\ Accepted(c)
    BY <1>1, GoesOnToWrite DEF StatAfter
  <1>2. CASE entry # 0 /\ SameFile(c) /\ ~Writing(c)
    BY <1>2, LeavesLock DEF StatAfter
  <1>3. CASE entry = 0 \/ ~SameFile(c) \/ (Writing(c) /\ ~Accepted(c))
    <2>1. ~published[c] /\ artifacts \subseteq Data /\ faults \in 0 .. MaxFaults
      BY DEF Inv, TypeOK, Reported, StatAfter, At
    <2>2. \E res \in Failures : End(c, res)
      BY <1>3 DEF StatAfter, Failures
    <2> QED
      BY <1>3, <2>1, <2>2, EndStep DEF StatAfter, At, Failures, Results, threadVars, sessionVars
  <1> QED
    BY <1>1, <1>2, <1>3

LEMMA WriteTempStep ==
  ASSUME Inv,
         NEW c \in Calls,
         WriteTemp(c)
  PROVE  Inv'
  <1>1. TypeOK'
    BY DEF Inv, WriteTemp, TypeOK, Places, NoData, fileVars, threadVars, sessionVars, Go
  <1>2. ThreadsAreAwaited'
    BY DEF Inv, WriteTemp, ThreadsAreAwaited, sessionVars, At, Go
  <1>3. Locked'
    BY DEF Inv, WriteTemp, Locked, Holding, fileVars, At, Go
  <1>4. ReadSoFar'
    BY DEF Inv, WriteTemp, ReadSoFar, NoData, threadVars, At, Go
  <1>5. Reported'
    BY DEF Inv, WriteTemp, Reported, threadVars, sessionVars, At, Go
  <1>6. Snapshots'
    BY DEF Inv, WriteTemp, Snapshots, fileVars, threadVars, sessionVars, Go
  <1>7. Fresh'
    BY DEF Inv, WriteTemp, Fresh, Current, Holding, fileVars, threadVars, At, Go
  <1>8. ReportsAreHonest' /\ NewestOnly'
    BY DEF Inv, WriteTemp, ReportsAreHonest, NewestOnly, fileVars, threadVars,
       sessionVars
  <1> QED
    BY <1>1, <1>2, <1>3, <1>4, <1>5, <1>6, <1>7, <1>8 DEF Inv

\* A complete new file takes the path's place.
LEMMA PutGrows ==
  ASSUME Inv, NEW data \in Data, Put(data)
  PROVE  /\ disk' \in Seq([data : Data, mtime : Nat])
         /\ Len(disk') = Len(disk) + 1 /\ entry' = Len(disk')
         /\ \A i \in 1 .. Len(disk) : disk'[i] = disk[i]
  <1>1. [data |-> data, mtime |-> 0] \in [data : Data, mtime : Nat]
    OBVIOUS
  <1> QED
    BY <1>1 DEF Inv, TypeOK, Put

LEMMA PutStep ==
  ASSUME Inv,
         NEW c \in Calls,
         At(c, "publish"),
         Put(Whole(Args[c].content)),
         published' = [published EXCEPT ![c] = TRUE],
         Go(c, "release"),
         UNCHANGED <<holder, before, handle, raw, artifacts, result, sessionVars, outside, faults>>
  PROVE  Inv'
  <1>0. /\ disk' \in Seq([data : Data, mtime : Nat])
        /\ Len(disk') = Len(disk) + 1 /\ entry' = Len(disk')
        /\ \A i \in 1 .. Len(disk) : disk'[i] = disk[i]
    <2>1. Args[c].content \in Texts
      BY ArgsTyped DEF Inv, ReadSoFar, At, Writing, Arguments
    <2> QED
      BY <2>1, PutGrows DEF Whole, Data
  <1>1. TypeOK'
    <2>1. entry' \in 0 .. Len(disk')
      BY <1>0 DEF Inv, TypeOK
    <2>2. pc' \in [Calls -> Places] /\ published' \in [Calls -> BOOLEAN]
      BY DEF Inv, TypeOK, Places, Go
    <2> QED
      BY <1>0, <2>1, <2>2 DEF Inv, TypeOK, sessionVars
  <1>2. ThreadsAreAwaited'
    BY DEF Inv, ThreadsAreAwaited, sessionVars, At, Go
  <1>3. ReportsAreHonest'
    BY DEF Inv, ReportsAreHonest, Reported, Failures, Results, sessionVars, At
  <1>4. Locked'
    BY DEF Inv, Locked, Holding, threadVars, At, Go
  <1>5. ReadSoFar'
    BY DEF Inv, ReadSoFar, Whole, At, Go
  <1>6. Reported'
    BY DEF Inv, Reported, TypeOK, sessionVars, At, Go
  <1>7. NewestOnly'
    BY <1>0 DEF NewestOnly
  <1>8. Snapshots'
    <2> SUFFICES ASSUME NEW d \in Calls, pc'[d] \in {"open", "rest", "restat"}
                 PROVE  Snapshots!(d)'
      BY DEF Snapshots
    <2>1. pc'[d] = pc[d]
      BY DEF Inv, TypeOK, Go
    <2>2. before[d][1] \in 1 .. Len(disk) /\ Len(disk) \in Nat
      BY <2>1 DEF Inv, Snapshots, TypeOK
    <2>3. disk'[before[d][1]] = disk[before[d][1]]
      BY <2>2, <1>0
    <2>4. CASE pc[d] = "open"
      <3>1. before[d][2] <= disk[before[d][1]].mtime
        BY <2>1 DEF Inv, Snapshots
      <3> QED
        BY <2>1, <2>2, <2>3, <2>4, <3>1, <1>0
    <2>5. CASE pc[d] \in {"rest", "restat"}
      <3>1. handle[d] \in 1 .. Len(disk)
        BY <2>2, <2>5 DEF Inv, Snapshots, TypeOK
      <3>2. disk'[handle[d]] = disk[handle[d]]
        BY <3>1, <1>0
      <3>3. /\ before[d][2] <= disk[before[d][1]].mtime
            /\ handle[d] >= before[d][1]
            /\ disk[handle[d]].mtime = before[d][2] /\ handle[d] = before[d][1] =>
                 /\ raw[d][1] = disk[handle[d]].data[1]
                 /\ pc[d] = "restat" => raw[d][2] = disk[handle[d]].data[2]
        BY <2>5 DEF Inv, Snapshots
      <3> QED
        BY <2>1, <2>2, <2>3, <2>5, <3>2, <3>3, <1>0
    <2> QED
      BY <2>1, <2>4, <2>5
  <1>9. Fresh'
    <2> SUFFICES ASSUME OneLockFile, NEW d \in Calls, pc'[d] \in {"temp", "publish"} PROVE FALSE
      BY DEF Fresh
    <2>1. d # c /\ pc[d] \in {"temp", "publish"}
      BY DEF Inv, TypeOK, Go
    <2>2. holder[Lock(d)] = d /\ holder[Lock(c)] = c
      BY <2>1 DEF Inv, Locked, Holding, At
    <2>3. Lock(d) = Lock(c)
      BY OwnersAreSessions DEF OneLockFile, Lock
    <2> QED
      BY <2>1, <2>2, <2>3
  <1> QED
    BY <1>1, <1>2, <1>3, <1>4, <1>5, <1>6, <1>7, <1>8, <1>9 DEF Inv

LEMMA PublishStep ==
  ASSUME Inv, NEW c \in Calls, Publish(c)
  PROVE  Inv'
  <1>1. CASE ~(Creates(c) /\ entry # 0)
    BY <1>1, PutStep DEF Publish
  <1>2. CASE Creates(c) /\ entry # 0
    <2>1. ~published[c] /\ artifacts \subseteq Data /\ faults \in 0 .. MaxFaults
      BY DEF Inv, TypeOK, Reported, Publish, At
    <2> QED
      BY <1>2, <2>1, EndStep DEF Publish, At, Failures, Results, threadVars, sessionVars
  <1> QED
    BY <1>1, <1>2

LEMMA FailureStep ==
  ASSUME Inv, NEW c \in Calls, AcquireTimesOut(c) \/ WriteFails(c) \/ KeepFails(c)
  PROVE  Inv'
  <1>1. pc[c] \notin {"idle", "done", "dead"} /\ ~published[c] /\ artifacts \subseteq Data
    BY DEF Inv, TypeOK, Reported, AcquireTimesOut, WriteFails, KeepFails, At
  <1>2. faults' \in 0 .. MaxFaults
    BY BoundsAreNaturals DEF Inv, TypeOK, AcquireTimesOut, WriteFails, KeepFails, Fault
  <1> QED
    BY <1>1, <1>2, EndStep
    DEF AcquireTimesOut, WriteFails, KeepFails, Failures, Results, threadVars, sessionVars

LEMMA ReleaseStep ==
  ASSUME Inv, NEW c \in Calls, Release(c)
  PROVE  Inv'
  <1>1. published[c] /\ artifacts \subseteq Data /\ faults \in 0 .. MaxFaults
    BY DEF Inv, TypeOK, Reported, Release, At
  <1> QED
    BY <1>1, EndStep DEF Release, At, Failures, Results, threadVars, sessionVars

LEMMA KeepStep ==
  ASSUME Inv, NEW c \in Calls, Keep(c)
  PROVE  Inv'
  <1>1. /\ ~published[c] /\ artifacts' \subseteq Data /\ faults \in 0 .. MaxFaults
        /\ ~Writing(c)
    BY DEF Inv, TypeOK, Reported, ReadSoFar, Keep, At
  <1>2. \E res \in {"ok", "CONFLICT"} : End(c, res)
    BY DEF Keep
  <1> QED
    BY <1>1, <1>2, EndStep DEF Keep, At, Failures, Results, threadVars, sessionVars

-------------------------------------------------------------------------------
(* The steps of the sessions and of everybody else.                        *)

LEMMA StartStep ==
  ASSUME Inv,
         NEW c \in Calls,
         Start(c)
  PROVE  Inv'
  <1>1. TypeOK'
    BY DEF Inv, Start, TypeOK, Places, NoData, fileVars, threadVars, Go
  <1>2. ThreadsAreAwaited'
    <2> SUFFICES ASSUME NEW d \in Calls, pc'[d] \notin {"idle", "done", "dead"}
                 PROVE  current'[Owner[d]] = d
      BY DEF ThreadsAreAwaited
    <2>1. CASE d = c
      BY <2>1, OwnersAreSessions DEF Inv, TypeOK, Start
    <2>2. CASE d # c
      BY <2>2, OwnersAreSessions, NoCallIsNoCall DEF Inv, TypeOK, ThreadsAreAwaited, Start, Go
    <2> QED
      BY <2>1, <2>2
  <1>3. Locked'
    BY DEF Inv, Start, Locked, Holding, fileVars, Go
  <1>4. ReadSoFar'
    BY DEF Inv, Start, ReadSoFar, NoData, threadVars, At, Go
  <1>5. Reported'
    BY DEF Inv, Start, Reported, threadVars, sessionVars, At, Go
  <1>6. Snapshots'
    BY DEF Inv, Start, Snapshots, fileVars, threadVars, sessionVars, Go
  <1>7. Fresh'
    BY DEF Inv, Start, Fresh, Current, Holding, fileVars, threadVars, Go
  <1>8. ReportsAreHonest' /\ NewestOnly'
    BY DEF Inv, Start, ReportsAreHonest, NewestOnly, fileVars, threadVars
  <1> QED
    BY <1>1, <1>2, <1>3, <1>4, <1>5, <1>6, <1>7, <1>8 DEF Inv

LEMMA SettleStep ==
  ASSUME Inv,
         NEW c \in Calls,
         Settle(c)
  PROVE  Inv'
  <1>1. TypeOK'
    BY DEF Inv, Settle, TypeOK, NoData, fileVars, threadVars
  <1>2. ThreadsAreAwaited'
    BY DEF Inv, Settle, ThreadsAreAwaited, sessionVars, At
  <1>3. ReportsAreHonest'
    BY DEF Inv, Settle, ReportsAreHonest, Failures, Results, threadVars
  <1>4. Reported'
    <2>1. \A d \in Calls \ {c} : current'[Owner[d]] = current[Owner[d]] \/ current'[Owner[d]] = NoCall
      BY OwnersAreSessions DEF Inv, Settle, TypeOK
    <2>2. pc[c] = "done" /\ current'[Owner[c]] = NoCall
      BY OwnersAreSessions DEF Inv, Settle, TypeOK, At
    <2>3. \A d \in Calls \ {c} : outcome'[d] = outcome[d]
      BY DEF Inv, Settle, TypeOK
    <2> QED
      BY <2>1, <2>2, <2>3, NoCallIsNoCall DEF Inv, Settle, Reported, threadVars
  <1>5. Locked' /\ ReadSoFar' /\ NewestOnly' /\ Snapshots' /\ Fresh'
    BY DEF Inv, Settle, Locked, ReadSoFar, NewestOnly, Snapshots, Fresh, Current,
       fileVars, threadVars
  <1> QED
    BY <1>1, <1>2, <1>3, <1>4, <1>5 DEF Inv

LEMMA CrashStep ==
  ASSUME Inv,
         NEW c \in Calls,
         Crash(c)
  PROVE  Inv'
  <1>1. TypeOK'
    <2>1. faults' \in 0 .. MaxFaults
      BY BoundsAreNaturals DEF Inv, TypeOK, Crash, Fault
    <2>2. holder' \in [Locks -> Calls \cup {NoCall}]
      BY DEF Inv, TypeOK, Crash
    <2>3. current' \in [Sessions -> Calls \cup {NoCall}]
      BY OwnersAreSessions DEF Inv, TypeOK, Crash
    <2>4. pc' \in [Calls -> Places]
      BY DEF Inv, TypeOK, Crash, Places
    <2> QED
      BY <2>1, <2>2, <2>3, <2>4 DEF Inv, TypeOK, Crash, fileVars, threadVars
  <1>2. ThreadsAreAwaited'
    BY DEF Inv, Crash, ThreadsAreAwaited, TypeOK, threadVars
  <1>3. Locked'
    BY OwnersAreSessions DEF Inv, Crash, Locked, TypeOK, Holding, Lock, Locks
  <1>4. ReadSoFar'
    BY DEF Inv, Crash, ReadSoFar, Data, threadVars
  <1>5. Reported'
    BY NoCallIsNoCall DEF Inv, Crash, Reported, threadVars
  <1>6. Snapshots'
    BY DEF Inv, Crash, Snapshots, fileVars, threadVars
  <1>7. Fresh'
    BY DEF Inv, Crash, Fresh, Current, Locked, fileVars, threadVars
  <1>8. ReportsAreHonest' /\ NewestOnly'
    BY DEF Inv, Crash, ReportsAreHonest, NewestOnly, fileVars, threadVars
  <1> QED
    BY <1>1, <1>2, <1>3, <1>4, <1>5, <1>6, <1>7, <1>8 DEF Inv

LEMMA CancelStep ==
  ASSUME Inv,
         NEW s \in Sessions,
         Cancel(s)
  PROVE  Inv'
  <1>1. TypeOK'
    BY BoundsAreNaturals DEF Inv, Cancel, TypeOK, NoData, fileVars, threadVars
  <1>2. ThreadsAreAwaited' /\ ReportsAreHonest' /\ Locked' /\ ReadSoFar' /\ Reported' /\ NewestOnly' /\ Snapshots' /\ Fresh'
    BY DEF Inv, Cancel, ThreadsAreAwaited, ReportsAreHonest, Locked, ReadSoFar,
       Reported, NewestOnly, Snapshots, Fresh, Current, fileVars, threadVars
  <1> QED
    BY <1>1, <1>2 DEF Inv

LEMMA OutsideStep ==
  ASSUME Inv,
         OutsideWrites
  PROVE  Inv'
  <1> DEFINE Newer ==
        /\ disk' \in Seq([data : Data, mtime : Nat]) /\ Len(disk') >= Len(disk)
        /\ entry' \in {0, Len(disk')}
        /\ \A i \in 1 .. Len(disk) :
             disk'[i] = disk[i] \/ (i = Len(disk) /\ disk'[i].mtime = disk[i].mtime + 1)
        /\ outside' \in 0 .. MaxOutside /\ outside' # 0
  <1>0. Newer
    <2>0. outside' \in 0 .. MaxOutside /\ outside' # 0
      BY BoundsAreNaturals DEF OutsideWrites, Meddle, Inv, TypeOK
    <2>1. ASSUME entry # 0, entry' = entry, NEW i \in 1 .. 2, NEW t \in Texts,
                 disk' = [disk EXCEPT ![entry] =
                            [data |-> [@.data EXCEPT ![i] = t], mtime |-> @.mtime + 1]]
          PROVE  /\ disk' \in Seq([data : Data, mtime : Nat]) /\ Len(disk') = Len(disk)
                 /\ entry' = Len(disk')
                 /\ \A j \in 1 .. Len(disk) :
                      disk'[j] = disk[j] \/ (j = Len(disk) /\ disk'[j].mtime = disk[j].mtime + 1)
      <3>1. entry = Len(disk) /\ entry \in 1 .. Len(disk)
        BY <2>1 DEF Inv, TypeOK, NewestOnly
      <3>2. disk[entry].mtime + 1 \in Nat /\ disk[entry].data \in Data
        BY <3>1, InodeTyped
      <3>3. [disk[entry].data EXCEPT ![i] = t] \in Data
        BY <2>1, <3>2 DEF Data
      <3> DEFINE new == [data |-> [disk[entry].data EXCEPT ![i] = t], mtime |-> disk[entry].mtime + 1]
      <3>4. new \in [data : Data, mtime : Nat] /\ new.mtime = disk[entry].mtime + 1
        BY <3>2, <3>3
      <3>5. disk' = [disk EXCEPT ![entry] = new]
        BY <2>1
      <3> HIDE DEF new
      <3> QED
        <4>1. disk \in Seq([data : Data, mtime : Nat])
          BY DEF Inv, TypeOK
        <4>2. /\ disk' \in Seq([data : Data, mtime : Nat]) /\ Len(disk') = Len(disk)
              /\ \A j \in 1 .. Len(disk) : disk'[j] = IF j = entry THEN new ELSE disk[j]
          BY <3>1, <3>4, <3>5, <4>1, ExceptSeq
        <4> QED
          BY <2>1, <3>1, <3>4, <4>2
    <2>2. ASSUME NEW t \in Texts, Put(Whole(t))
          PROVE  /\ disk' \in Seq([data : Data, mtime : Nat])
                 /\ Len(disk') = Len(disk) + 1 /\ entry' = Len(disk')
                 /\ \A i \in 1 .. Len(disk) : disk'[i] = disk[i]
      BY <2>2, PutGrows DEF Whole, Data
    <2>3. ASSUME entry' = 0, UNCHANGED disk
          PROVE  /\ disk' \in Seq([data : Data, mtime : Nat]) /\ Len(disk') = Len(disk)
                 /\ \A i \in 1 .. Len(disk) : disk'[i] = disk[i]
      BY <2>3 DEF Inv, TypeOK
    <2>4. /\ \/ /\ entry # 0
                /\ \E i \in 1 .. 2, t \in Texts :
                     disk' = [disk EXCEPT ![entry] =
                                [data |-> [@.data EXCEPT ![i] = t], mtime |-> @.mtime + 1]]
                /\ UNCHANGED entry
             \/ \E t \in Texts : Put(Whole(t))
             \/ entry # 0 /\ entry' = 0 /\ UNCHANGED disk
      BY DEF OutsideWrites
    <2>5. Len(disk) \in Nat
      BY DEF Inv, TypeOK
    <2>6. CASE \E t \in Texts : Put(Whole(t))
      <3>1. PICK t \in Texts : Put(Whole(t))
        BY <2>6
      <3>2. /\ disk' \in Seq([data : Data, mtime : Nat])
            /\ Len(disk') = Len(disk) + 1 /\ entry' = Len(disk')
            /\ \A i \in 1 .. Len(disk) : disk'[i] = disk[i]
        BY <2>2, <3>1
      <3> QED
        BY <2>0, <2>5, <3>2
    <2>7. CASE entry' = 0 /\ UNCHANGED disk
      BY <2>0, <2>3, <2>5, <2>7
    <2>8. ASSUME entry # 0, entry' = entry, NEW i \in 1 .. 2, NEW t \in Texts,
                 disk' = [disk EXCEPT ![entry] =
                            [data |-> [@.data EXCEPT ![i] = t], mtime |-> @.mtime + 1]]
          PROVE  Newer
      <3>1. /\ disk' \in Seq([data : Data, mtime : Nat]) /\ Len(disk') = Len(disk)
            /\ entry' = Len(disk')
            /\ \A j \in 1 .. Len(disk) :
                 disk'[j] = disk[j] \/ (j = Len(disk) /\ disk'[j].mtime = disk[j].mtime + 1)
        BY <2>1, <2>8
      <3> QED
        BY <2>0, <2>5, <3>1
    <2> QED
      BY <2>4, <2>6, <2>7, <2>8, Zenon
  <1>1. TypeOK'
    <2>1. Len(disk) \in Nat /\ Len(disk') \in Nat
      BY <1>0 DEF Inv, TypeOK
    <2>2. handle' \in [Calls -> 0 .. Len(disk')] /\ entry' \in 0 .. Len(disk')
      BY <1>0, <2>1 DEF Inv, TypeOK, OutsideWrites, threadVars
    <2>3. disk' \in Seq([data : Data, mtime : Nat]) /\ outside' \in 0 .. MaxOutside
      BY <1>0
    <2> HIDE DEF Newer
    <2> QED
      BY <2>2, <2>3 DEF Inv, TypeOK, OutsideWrites, threadVars, sessionVars
  <1>2. NewestOnly'
    BY <1>0 DEF NewestOnly
  <1>3. Snapshots'
    <2> SUFFICES ASSUME NEW d \in Calls, pc[d] \in {"open", "rest", "restat"}
                 PROVE  Snapshots!(d)'
      BY DEF Snapshots, OutsideWrites
    <2>1. UNCHANGED <<pc, before, handle, raw>>
      BY DEF OutsideWrites, threadVars
    <2>2. before[d][1] \in 1 .. Len(disk) /\ before[d][2] \in Nat
      BY DEF Inv, Snapshots, TypeOK
    <2>3. disk[before[d][1]].mtime \in Nat
      BY <2>2, InodeTyped
    <2>4. before[d][2] <= disk'[before[d][1]].mtime
      <3>1. before[d][2] <= disk[before[d][1]].mtime
        BY DEF Inv, Snapshots
      <3>2. disk'[before[d][1]] = disk[before[d][1]]
            \/ disk'[before[d][1]].mtime = disk[before[d][1]].mtime + 1
        BY <1>0, <2>2
      <3> QED
        BY <2>2, <2>3, <3>1, <3>2
    <2>5. before[d][1] \in 1 .. Len(disk')
      BY <1>0, <2>2 DEF Inv, TypeOK
    <2>6. CASE pc[d] = "open"
      BY <2>1, <2>4, <2>5, <2>6
    <2>7. CASE pc[d] \in {"rest", "restat"}
      <3>1. handle[d] \in 1 .. Len(disk) /\ handle[d] >= before[d][1]
        BY <2>2, <2>7 DEF Inv, Snapshots, TypeOK
      <3>2. disk[handle[d]].mtime \in Nat
        BY <3>1, InodeTyped
      <3>3. \/ disk'[handle[d]] = disk[handle[d]]
            \/ disk'[handle[d]].mtime = disk[handle[d]].mtime + 1
        BY <1>0, <3>1
      <3>4. handle[d] = before[d][1] => before[d][2] <= disk[handle[d]].mtime
        BY DEF Inv, Snapshots
      <3> QED
        BY <2>1, <2>2, <2>4, <2>5, <2>7, <3>1, <3>2, <3>3, <3>4 DEF Inv, Snapshots
    <2> QED
      BY <2>6, <2>7
  <1>4. Fresh'
    BY <1>0 DEF Fresh
  <1>5. ThreadsAreAwaited' /\ ReportsAreHonest' /\ Locked' /\ ReadSoFar' /\ Reported'
    BY DEF Inv, OutsideWrites, ThreadsAreAwaited, ReportsAreHonest, Locked, ReadSoFar,
       Reported, threadVars, sessionVars
  <1> QED
    BY <1>1, <1>2, <1>3, <1>4, <1>5 DEF Inv

LEMMA StutterStep ==
  ASSUME Inv,
         UNCHANGED vars
  PROVE  Inv'
  <1>1. TypeOK' /\ ThreadsAreAwaited' /\ ReportsAreHonest' /\ Locked' /\ ReadSoFar' /\ Reported' /\ NewestOnly' /\ Snapshots' /\ Fresh'
    BY DEF Inv, vars, TypeOK, ThreadsAreAwaited, ReportsAreHonest, Locked, ReadSoFar,
       Reported, NewestOnly, Snapshots, Fresh, Current, fileVars, threadVars,
       sessionVars
  <1> QED
    BY <1>1 DEF Inv

LEMMA InvInit == Init => Inv
  <1> SUFFICES ASSUME Init PROVE Inv
    OBVIOUS
  <1>1. TypeOK
    <2>1. \A t \in Texts : [data |-> Whole(t), mtime |-> 0] \in [data : Data, mtime : Nat]
      BY DEF Whole, Data
    <2>2. disk \in Seq([data : Data, mtime : Nat]) /\ entry \in 0 .. Len(disk)
      <3>1. CASE disk = <<>> /\ entry = 0
        BY <3>1
      <3>2. CASE \E t \in Texts : disk = <<[data |-> Whole(t), mtime |-> 0]>> /\ entry = 1
        <4>1. PICK t \in Texts : disk = <<[data |-> Whole(t), mtime |-> 0]>> /\ entry = 1
          BY <3>2
        <4> DEFINE new == [data |-> Whole(t), mtime |-> 0]
        <4>2. new \in [data : Data, mtime : Nat]
          BY <2>1
        <4>3. disk = <<new>> /\ entry = 1
          BY <4>1
        <4> HIDE DEF new
        <4> QED
          BY <4>2, <4>3
      <3> QED
        BY <3>1, <3>2 DEF Init
    <2>3. /\ outside \in 0 .. MaxOutside /\ faults \in 0 .. MaxFaults
          /\ cancels \in 0 .. MaxCancels
      BY BoundsAreNaturals DEF Init
    <2>4. /\ handle \in [Calls -> 0 .. Len(disk)] /\ before \in [Calls -> Nat \X Nat]
          /\ raw \in [Calls -> (Texts \cup {NoText}) \X (Texts \cup {NoText})]
      BY <2>2 DEF Init, NoStat, NoData
    <2> QED
      BY <2>2, <2>3, <2>4 DEF Init, TypeOK, Places, Results
  <1>2. ThreadsAreAwaited /\ ReportsAreHonest /\ Locked /\ Reported
    BY DEF Init, ThreadsAreAwaited, ReportsAreHonest, Locked, Reported, Holding, Failures, Results
  <1>3. ReadSoFar /\ Snapshots /\ Fresh
    BY DEF Init, ReadSoFar, Snapshots, Fresh
  <1>4. NewestOnly
    BY DEF Init, NewestOnly
  <1> QED
    BY <1>1, <1>2, <1>3, <1>4 DEF Inv

LEMMA InvNext == Inv /\ [Next]_vars => Inv'
  <1> SUFFICES ASSUME Inv, [Next]_vars PROVE Inv'
    OBVIOUS
  <1>1. ASSUME NEW c \in Calls, Thread(c) PROVE Inv'
    BY <1>1, AcquireStep, StatBeforeStep, ReadFirstStep, ReadRestStep, StatAfterStep,
       WriteTempStep, PublishStep, ReleaseStep, KeepStep, FailureStep DEF Thread
  <1>2. ASSUME NEW c \in Calls, Start(c) \/ Settle(c) \/ Crash(c) PROVE Inv'
    BY <1>2, StartStep, SettleStep, CrashStep
  <1>3. ASSUME NEW s \in Sessions, Cancel(s) PROVE Inv'
    BY <1>3, CancelStep
  <1>4. CASE OutsideWrites
    BY <1>4, OutsideStep
  <1>5. CASE UNCHANGED vars
    BY <1>5, StutterStep
  <1> QED
    BY <1>1, <1>2, <1>3, <1>4, <1>5 DEF Next


-------------------------------------------------------------------------------
(* The theorems about every environment.                                   *)

LEMMA Invariance == Spec => []Inv
  BY InvInit, InvNext, PTL DEF Spec

\* The variables of the file tools keep their types.
THEOREM TypeCorrect == Spec => []TypeOK
  <1>1. Inv => TypeOK
    BY DEF Inv
  <1> QED
    BY <1>1, Invariance, PTL

\* No worker thread outlives the wait of the session that started it, whatever is
\* cancelled and whatever fails (_settle_task).
THEOREM ThreadsAlwaysAwaited == Spec => []ThreadsAreAwaited
  <1>1. Inv => ThreadsAreAwaited
    BY DEF Inv
  <1> QED
    BY <1>1, Invariance, PTL

\* What a call reports of its effect on the file is true, whatever fails, also
\* after the text has been published (atomic_write).
THEOREM ReportsAlwaysHonest == Spec => []ReportsAreHonest
  <1>1. Inv => ReportsAreHonest
    BY DEF Inv
  <1> QED
    BY <1>1, Invariance, PTL

\* Steps of a call change no other call's place.
LEMMA OnePlace ==
  ASSUME Inv, Next, NEW c \in Calls, pc'[c] # pc[c]
  PROVE  Thread(c) \/ Start(c) \/ Settle(c) \/ Crash(c)
  <1>1. ASSUME NEW d \in Calls, Thread(d) \/ Start(d) \/ Settle(d) \/ Crash(d)
        PROVE  pc' = [pc EXCEPT ![d] = pc'[d]]
    BY <1>1 DEF Inv, TypeOK, Thread, Acquire, AcquireTimesOut, StatBefore, ReadFirst, ReadRest,
       StatAfter, WriteTemp, WriteFails, Publish, Release, Keep, KeepFails, Start, Settle, Crash,
       End, Go
  <1>2. ASSUME NEW d \in Calls, Thread(d) \/ Start(d) \/ Settle(d) \/ Crash(d) PROVE d = c
    BY <1>1, <1>2 DEF Inv, TypeOK
  <1>3. ~OutsideWrites /\ \A s \in Sessions : ~Cancel(s)
    BY DEF OutsideWrites, Cancel
  <1> QED
    BY <1>2, <1>3 DEF Next

\* A call goes on only with the file as it is at that moment, whatever programs
\* that ignore the lock have done to it meanwhile (snapshot).
THEOREM SnapshotsAlwaysWhole == Spec => SnapshotsAreWhole
  <1>1. ASSUME Inv, [Next]_vars
        PROVE  [\A c \in Calls : At(c, "restat") /\ pc'[c] \in {"temp", "keep"}
                                   => raw[c] = Current]_vars
    <2> SUFFICES ASSUME NEW c \in Calls, At(c, "restat"), pc'[c] \in {"temp", "keep"}
                 PROVE  raw[c] = Current
      OBVIOUS
    <2>1. Thread(c) \/ Start(c) \/ Settle(c) \/ Crash(c)
      BY <1>1, OnePlace DEF At, vars
    <2>2. StatAfter(c)
      BY <1>1, <2>1 DEF Thread, Acquire, AcquireTimesOut, StatBefore, ReadFirst, ReadRest,
         WriteTemp, WriteFails, Publish, Release, Keep, KeepFails, Start, Settle, Crash,
         At, Go, Inv, TypeOK
    <2>3. entry # 0 /\ SameFile(c)
      BY <1>1, <2>2 DEF StatAfter, End, Go, Inv, TypeOK
    <2> QED
      BY <1>1, <2>3, WholeSnapshot
  <1> QED
    BY <1>1, Invariance, PTL DEF Spec, SnapshotsAreWhole

\* A write that is to create the file replaces none (os.link in atomic_write).
THEOREM CreateAlwaysCreates == Spec => CreateNeverReplaces
  <1>1. ASSUME Inv, [Next]_vars
        PROVE  [\A c \in Calls : published'[c] /\ ~published[c] /\ Creates(c)
                                   => entry = 0]_vars
    <2> SUFFICES ASSUME NEW c \in Calls, published'[c], ~published[c], Creates(c)
                 PROVE  entry = 0
      OBVIOUS
    <2>1. \E d \in Calls : Publish(d)
      BY <1>1 DEF Next, vars, threadVars, Thread, Acquire, AcquireTimesOut, StatBefore, ReadFirst,
         ReadRest, StatAfter, WriteTemp, WriteFails, Release, Keep, KeepFails, Start, Settle,
         Crash, Cancel, OutsideWrites
    <2> QED
      BY <1>1, <2>1 DEF Publish, Inv, TypeOK
  <1> QED
    BY <1>1, Invariance, PTL DEF Spec, CreateNeverReplaces

-------------------------------------------------------------------------------
(* The register.                                                           *)

Effect(c) == IF published[c] THEN "applied"
             ELSE IF pc[c] \in {"done", "dead"} THEN "none" ELSE "pending"

EffectOfEditors == [c \in Editors |-> Effect(c)]

private == outside = 0

\* A step of a call that leaves the file alone is at most a GiveUp of that call.
LEMMA QuietStep ==
  ASSUME Inv, private, NEW d \in Calls,
         UNCHANGED <<fileVars, published, outside>>,
         pc' = [pc EXCEPT ![d] = pc'[d]],
         pc[d] \in {"done", "dead"} => pc'[d] \in {"done", "dead"}
  PROVE  [Register!Next]_<<private, Current, EffectOfEditors>>
  <1>1. Current' = Current /\ private' = private
    BY DEF Current, fileVars, private
  <1>2. \A c \in Calls : c # d => Effect(c)' = Effect(c)
    BY DEF Inv, TypeOK, Effect
  <1>3. CASE d \in Editors /\ Effect(d)' # Effect(d)
    <2>1. Effect(d) = "pending" /\ Effect(d)' = "none"
      BY <1>3 DEF Effect
    <2>2. EffectOfEditors' = [EffectOfEditors EXCEPT ![d] = "none"]
      BY <1>2, <1>3, <2>1 DEF EffectOfEditors, Editors
    <2>3. EffectOfEditors[d] = "pending"
      BY <1>3, <2>1 DEF EffectOfEditors
    <2>4. Register!GiveUp(d)
      BY <1>1, <2>2, <2>3 DEF Register!GiveUp, EffectOfEditors, Effect
    <2> QED
      BY <1>1, <1>3, <2>4 DEF Register!Next, private
  <1>4. CASE d \notin Editors \/ Effect(d)' = Effect(d)
    <2>1. EffectOfEditors' = EffectOfEditors
      BY <1>2, <1>4 DEF EffectOfEditors, Editors
    <2> QED
      BY <1>1, <2>1
  <1> QED
    BY <1>3, <1>4

\* Publishing is Apply: the text that was compared is still there.
LEMMA PutApplies ==
  ASSUME Inv, OneLockFile, private, NEW d \in Calls, At(d, "publish"),
         Put(Whole(Args[d].content)), published' = [published EXCEPT ![d] = TRUE],
         Go(d, "release"), UNCHANGED outside
  PROVE  Register!Next
  <1>1. d \in Editors /\ raw[d] = Replaced(d)
    BY DEF Inv, ReadSoFar, At, Editors
  <1>2. Current = Replaced(d)
    BY <1>1 DEF Inv, Fresh, At, private
  <1>3. Current' = Whole(Args[d].content)
    BY DEF Inv, TypeOK, Put, Current
  <1>4. Effect(d) = "pending" /\ Effect(d)' = "applied"
    BY DEF Inv, TypeOK, Reported, Effect, At
  <1>5. \A c \in Calls : c # d => Effect(c)' = Effect(c)
    BY DEF Inv, TypeOK, Effect, Go
  <1>6. /\ EffectOfEditors[d] = "pending"
        /\ EffectOfEditors' = [EffectOfEditors EXCEPT ![d] = "applied"]
    BY <1>1, <1>4, <1>5 DEF EffectOfEditors, Editors
  <1>7. Register!Apply(d)
    BY <1>1, <1>2, <1>3, <1>6 DEF Register!Apply, EffectOfEditors, Effect, Replaced
  <1> QED
    BY <1>1, <1>7 DEF Register!Next, private

LEMMA RegisterInit ==
  ASSUME Init
  PROVE  Register!Init
  BY DEF Init, Register!Init, Editors

LEMMA RegisterNext ==
  ASSUME OneLockFile, Inv, [Next]_vars
  PROVE  [Register!Next]_<<private, Current, EffectOfEditors>>
  <1>1. CASE outside' # 0
    BY <1>1 DEF Register!Next, private
  <1>2. CASE outside' = 0
    <2>1. private /\ ~OutsideWrites /\ UNCHANGED outside
      BY <1>2 DEF Inv, TypeOK, private, OutsideWrites, Meddle, Next, vars, Thread, Acquire,
         AcquireTimesOut, StatBefore, ReadFirst, ReadRest, StatAfter, WriteTemp, WriteFails,
         Publish, Release, Keep, KeepFails, Start, Settle, Crash, Cancel
    <2>2. ASSUME NEW d \in Calls, Publish(d), ~(Creates(d) /\ entry # 0)
          PROVE  Register!Next
      BY <2>1, <2>2, PutApplies DEF Publish
    <2>3. ASSUME NEW d \in Calls,
                 \/ Thread(d) /\ ~(Publish(d) /\ ~(Creates(d) /\ entry # 0))
                 \/ Start(d) \/ Settle(d) \/ Crash(d)
          PROVE  [Register!Next]_<<private, Current, EffectOfEditors>>
      <3>1. UNCHANGED <<fileVars, published>>
        BY <2>3 DEF Thread, Acquire, AcquireTimesOut, StatBefore, ReadFirst, ReadRest, StatAfter,
           WriteTemp, WriteFails, Publish, Release, Keep, KeepFails, Start, Settle, Crash,
           threadVars
      <3>2. pc' = [pc EXCEPT ![d] = pc'[d]]
        BY <2>3 DEF Inv, TypeOK, Thread, Acquire, AcquireTimesOut, StatBefore, ReadFirst, ReadRest,
           StatAfter, WriteTemp, WriteFails, Publish, Release, Keep, KeepFails, Start, Settle,
           Crash, End, Go
      <3>3. pc[d] \in {"done", "dead"} => pc'[d] \in {"done", "dead"}
        BY <2>3 DEF Inv, TypeOK, Thread, Acquire, AcquireTimesOut, StatBefore, ReadFirst, ReadRest,
           StatAfter, WriteTemp, WriteFails, Publish, Release, Keep, KeepFails, Start, Settle,
           Crash, At
      <3> QED
        BY <2>1, <3>1, <3>2, <3>3, QuietStep
    <2>4. CASE UNCHANGED vars \/ \E s \in Sessions : Cancel(s)
      <3>1. UNCHANGED <<fileVars, published, pc>>
        BY <2>4 DEF vars, threadVars, Cancel
      <3> QED
        BY <2>1, <3>1 DEF private, Current, EffectOfEditors, Effect, fileVars
    <2> QED
      BY <2>1, <2>2, <2>3, <2>4 DEF Next
  <1> QED
    BY <1>1, <1>2

\* If all sessions use the same lock file for a path, write and edit implement the
\* register with compare-and-swap, across lock timeouts, failing system calls,
\* crashes and cancellations, until a program that ignores the lock writes.
THEOREM ImplementsRegister ==
  ASSUME OneLockFile
  PROVE  Spec => RegisterSpec
  <1>1. Init => Register!Init
    BY RegisterInit
  <1>2. Inv /\ [Next]_vars => [Register!Next]_<<private, Current, EffectOfEditors>>
    BY RegisterNext
  <1>3. Inv /\ [Next]_vars => [Register!Next]_<<outside = 0, Current,
          [c \in Editors |-> IF published[c] THEN "applied"
                             ELSE IF pc[c] \in {"done", "dead"} THEN "none" ELSE "pending"]>>
    BY <1>2 DEF private, EffectOfEditors, Effect
  <1> QED
    BY <1>1, <1>3, Invariance, PTL DEF Spec, RegisterSpec, Register!Spec
===============================================================================
