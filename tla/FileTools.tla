------------------------------- MODULE FileTools -------------------------------
(***************************************************************************)
(* The file tools of tools/__init__.py: read, write and edit of one path   *)
(* by the sessions of several processes, each call in a worker thread that *)
(* its session waits for.                                                  *)
(*                                                                         *)
(* A call takes the path's lock, takes a snapshot (stat, read, stat) and   *)
(* compares its digest with what the caller expects.  write and edit then  *)
(* fill a temporary file and publish it, by link if the path must not      *)
(* exist and by rename otherwise; read links its snapshot into the         *)
(* artifacts.  Cancelling a call does not stop its thread.                 *)
(*                                                                         *)
(* The path is the inode it names, and a file is read in two parts: a file *)
(* that is changed in place may be read half old and half new.  Every      *)
(* change in place is taken to alter the modification time.  Digests are   *)
(* the contents themselves.                                                *)
(***************************************************************************)
EXTENDS Naturals, Sequences, FiniteSets

CONSTANTS
  Sessions,    \* sessions, each in a process of its own
  LockOf,      \* the lock file a session's process uses for this path
  Calls,       \* tool calls
  NoCall,      \* no call: a free lock, an idle session
  Owner,       \* the session that makes a call
  Args,        \* what a call is asked to do
  Texts,       \* the texts the callers know
  NoText,      \* no expected_sha256, no content
  May,         \* what the environment may do: "crash", "fault", "outside"
  MaxOutside,  \* bound: steps of programs that ignore the lock
  MaxFaults,   \* bound: crashes and failing system calls
  MaxCancels   \* bound: cancellations

Arguments == [tool : {"read", "write", "edit"}, expected : Texts \cup {NoText},
              createOnly : BOOLEAN, content : Texts \cup {NoText}]

ASSUME OwnersAreSessions == Owner \in [Calls -> Sessions]
ASSUME ArgsTyped ==
  /\ Args \in [Calls -> Arguments]
  /\ \A c \in Calls :
       /\ Args[c].tool = "edit" => Args[c].expected # NoText
       /\ Args[c].tool # "read" => Args[c].content # NoText
ASSUME NoCallIsNoCall == NoCall \notin Calls
ASSUME NoTextIsNoText == NoText \notin Texts
ASSUME BoundsAreNaturals == MaxOutside \in Nat /\ MaxFaults \in Nat /\ MaxCancels \in Nat

VARIABLES
  disk,       \* every inode there has been: its two parts and modification time
  entry,      \* the inode the path names, 0 if the path does not exist
  holder,     \* who holds each lock file
  pc,         \* where the thread of each call is
  before,     \* the stat before the read
  handle,     \* the inode the thread has opened
  raw,        \* what it has read
  published,  \* the flag of atomic_write
  result,     \* what the thread ended with
  artifacts,  \* contents of the immutable artifacts
  current,    \* the call each session waits for
  cancelled,  \* that session has been cancelled meanwhile
  outcome,    \* what execute() gave its caller
  outside, faults, cancels  \* how often the environment interfered

fileVars == <<disk, entry>>
threadVars == <<before, handle, raw, published, artifacts>>
sessionVars == <<current, cancelled, outcome, cancels>>
vars == <<fileVars, holder, pc, threadVars, result, sessionVars, outside, faults>>

Whole(text) == <<text, text>>
Data == Texts \X Texts
NoData == <<NoText, NoText>>
NoStat == <<0, 0>>

Places == {"idle", "lock", "stat", "open", "rest", "restat", "temp", "publish",
           "release", "keep", "done", "dead"}
Failures == {"NOT_FOUND", "CONFLICT", "IO_ERROR"}
Results == Failures \cup {"ok"}

Locks == {LockOf[s] : s \in Sessions}

TypeOK ==
  /\ disk \in Seq([data : Data, mtime : Nat])
  /\ entry \in 0 .. Len(disk)
  /\ holder \in [Locks -> Calls \cup {NoCall}]
  /\ pc \in [Calls -> Places]
  /\ before \in [Calls -> Nat \X Nat]
  /\ handle \in [Calls -> 0 .. Len(disk)]
  /\ raw \in [Calls -> (Texts \cup {NoText}) \X (Texts \cup {NoText})]
  /\ published \in [Calls -> BOOLEAN]
  /\ result \in [Calls -> Results \cup {"none"}]
  /\ artifacts \subseteq Data
  /\ current \in [Sessions -> Calls \cup {NoCall}]
  /\ cancelled \in [Sessions -> BOOLEAN]
  /\ outcome \in [Calls -> Results \cup {"none", "cancelled"}]
  /\ outside \in 0 .. MaxOutside /\ faults \in 0 .. MaxFaults /\ cancels \in 0 .. MaxCancels

-------------------------------------------------------------------------------
(* The file system.                                                        *)

\* path.stat(): which file it is and when it was changed.
Stat == <<entry, disk[entry].mtime>>

Current == IF entry = 0 THEN NoData ELSE disk[entry].data

\* A complete new file takes the path's place in one step.
Put(data) ==
  /\ disk' = Append(disk, [data |-> data, mtime |-> 0])
  /\ entry' = Len(disk) + 1

Fault == faults < MaxFaults /\ faults' = faults + 1

-------------------------------------------------------------------------------
(* The thread of a call.                                                   *)

Lock(c) == LockOf[Owner[c]]

At(c, place) == pc[c] = place
Go(c, place) == pc' = [pc EXCEPT ![c] = place]

Writing(c) == Args[c].tool # "read"

\* The handler returns or raises, and with it the lock is released.
End(c, res) ==
  /\ Go(c, "done")
  /\ result' = [result EXCEPT ![c] = res]
  /\ holder' = [l \in Locks |-> IF holder[l] = c THEN NoCall ELSE holder[l]]

\* path_lock(path).__enter__().
Acquire(c) ==
  /\ At(c, "lock")
  /\ holder[Lock(c)] = NoCall
  /\ holder' = [holder EXCEPT ![Lock(c)] = c]
  /\ Go(c, "stat")
  /\ UNCHANGED <<fileVars, threadVars, result, sessionVars, outside, faults>>

\* FileLock gives up after 10 seconds; its Timeout is an OSError.
AcquireTimesOut(c) ==
  /\ At(c, "lock")
  /\ holder[Lock(c)] # NoCall
  /\ End(c, "IO_ERROR")
  /\ UNCHANGED <<fileVars, threadVars, sessionVars, outside, faults>>

\* Only write goes on without a file, and only if it expects none.
MayCreate(c) == Args[c].tool = "write" /\ Args[c].expected = NoText

\* path.exists() and the first stat().
StatBefore(c) ==
  /\ At(c, "stat")
  /\ \/ /\ entry # 0
        /\ before' = [before EXCEPT ![c] = Stat]
        /\ Go(c, "open")
        /\ UNCHANGED <<holder, result>>
     \/ /\ entry = 0 /\ MayCreate(c)
        /\ Go(c, "temp")
        /\ UNCHANGED <<before, holder, result>>
     \/ /\ entry = 0 /\ ~MayCreate(c)
        /\ End(c, IF Args[c].tool = "write" THEN "CONFLICT" ELSE "NOT_FOUND")
        /\ UNCHANGED before
  /\ UNCHANGED <<fileVars, handle, raw, published, artifacts, sessionVars, outside, faults>>

\* The path is opened, which may be another file by now, and its first part read.
ReadFirst(c) ==
  /\ At(c, "open")
  /\ \/ /\ entry # 0
        /\ handle' = [handle EXCEPT ![c] = entry]
        /\ raw' = [raw EXCEPT ![c] = <<disk[entry].data[1], NoText>>]
        /\ Go(c, "rest")
        /\ UNCHANGED <<holder, result>>
     \/ /\ entry = 0
        /\ End(c, "NOT_FOUND")
        /\ UNCHANGED <<handle, raw>>
  /\ UNCHANGED <<fileVars, before, published, artifacts, sessionVars, outside, faults>>

ReadRest(c) ==
  /\ At(c, "rest")
  /\ raw' = [raw EXCEPT ![c] = <<@[1], disk[handle[c]].data[2]>>]
  /\ Go(c, "restat")
  /\ UNCHANGED <<fileVars, holder, before, handle, published, artifacts, result, sessionVars,
                 outside, faults>>

\* What follows the snapshot in write and edit: the digest must be the expected
\* one, and a write that may only create is refused.
Accepted(c) ==
  /\ raw[c] = Whole(Args[c].expected)
  /\ Args[c].tool = "write" => ~Args[c].createOnly

\* Faulty: trusts what it has read.
Unchanged(c) == TRUE

\* The second stat() shows the file that was there before, not modified.
SameFile(c) == before[c] = Stat

\* Faulty: write and edit leave the lock after their snapshot, too.
StatAfterUnlocking(c) ==
  /\ At(c, "restat")
  /\ entry # 0 /\ SameFile(c)
  /\ Writing(c) => Accepted(c)
  /\ Go(c, IF Writing(c) THEN "temp" ELSE "keep")
  /\ holder' = [holder EXCEPT ![Lock(c)] = NoCall]
  /\ UNCHANGED <<fileVars, threadVars, result, sessionVars, outside, faults>>

\* read leaves the lock here; write and edit keep it until they have published.
StatAfter(c) ==
  /\ At(c, "restat")
  /\ \/ /\ entry = 0
        /\ End(c, "NOT_FOUND")
     \/ /\ entry # 0
        /\ ~SameFile(c) \/ (Writing(c) /\ ~Accepted(c))
        /\ End(c, "CONFLICT")
     \/ /\ entry # 0 /\ SameFile(c)
        /\ Writing(c) /\ Accepted(c)
        /\ Go(c, "temp")
        /\ UNCHANGED <<holder, result>>
     \/ /\ entry # 0 /\ SameFile(c)
        /\ ~Writing(c)
        /\ Go(c, "keep")
        /\ holder' = [holder EXCEPT ![Lock(c)] = NoCall]
        /\ UNCHANGED result
  /\ UNCHANGED <<fileVars, threadVars, sessionVars, outside, faults>>

\* atomic_write: mkstemp in the same directory, write, fsync.  The path is not
\* touched; a crash leaves the temporary file behind.
WriteTemp(c) ==
  /\ At(c, "temp")
  /\ Go(c, "publish")
  /\ UNCHANGED <<fileVars, holder, threadVars, result, sessionVars, outside, faults>>

\* Writing the temporary file, linking or renaming it raises OSError: it is
\* unlinked, and the path is as it was.
WriteFails(c) ==
  /\ pc[c] \in {"temp", "publish"}
  /\ "fault" \in May /\ Fault
  /\ End(c, "IO_ERROR")
  /\ UNCHANGED <<fileVars, threadVars, sessionVars, outside>>

Creates(c) == raw[c] = NoData

\* Faulty: renames also when the path must not exist.
PublishOver(c) ==
  /\ At(c, "publish")
  /\ Put(Whole(Args[c].content))
  /\ published' = [published EXCEPT ![c] = TRUE]
  /\ Go(c, "release")
  /\ UNCHANGED <<holder, before, handle, raw, artifacts, result, sessionVars, outside, faults>>

\* os.link() if there was no file, which raises FileExistsError when there is
\* one now, and os.replace() otherwise.
Publish(c) ==
  /\ At(c, "publish")
  /\ \/ /\ ~(Creates(c) /\ entry # 0)
        /\ Put(Whole(Args[c].content))
        /\ published' = [published EXCEPT ![c] = TRUE]
        /\ Go(c, "release")
        /\ UNCHANGED <<holder, result>>
     \/ /\ Creates(c) /\ entry # 0
        /\ End(c, "CONFLICT")
        /\ UNCHANGED <<fileVars, published>>
  /\ UNCHANGED <<before, handle, raw, artifacts, sessionVars, outside, faults>>

\* Faulty: a failing cleanup is an error of the call.
ReleaseOrFail(c) ==
  /\ At(c, "release")
  /\ \E res \in {"ok", "IO_ERROR"} : End(c, res)
  /\ UNCHANGED <<fileVars, threadVars, sessionVars, outside, faults>>

\* The temporary name is unlinked.  If that fails there is a warning only: the
\* text is published.
Release(c) ==
  /\ At(c, "release")
  /\ End(c, "ok")
  /\ UNCHANGED <<fileVars, threadVars, sessionVars, outside, faults>>

\* read: the snapshot becomes an artifact named by its digest (one that exists
\* has the same content), and only then is the expected digest compared.
Keep(c) ==
  /\ At(c, "keep")
  /\ artifacts' = artifacts \cup {raw[c]}
  /\ End(c, IF Args[c].expected = NoText \/ raw[c] = Whole(Args[c].expected)
            THEN "ok" ELSE "CONFLICT")
  /\ UNCHANGED <<fileVars, before, handle, raw, published, sessionVars, outside, faults>>

KeepFails(c) ==
  /\ At(c, "keep")
  /\ "fault" \in May /\ Fault
  /\ End(c, "IO_ERROR")
  /\ UNCHANGED <<fileVars, threadVars, sessionVars, outside>>

Thread(c) ==
  \/ Acquire(c) \/ AcquireTimesOut(c)
  \/ StatBefore(c) \/ ReadFirst(c) \/ ReadRest(c) \/ StatAfter(c)
  \/ WriteTemp(c) \/ WriteFails(c) \/ Publish(c) \/ Release(c)
  \/ Keep(c) \/ KeepFails(c)

-------------------------------------------------------------------------------
(* The sessions, and everybody else.                                       *)

\* execute() starts the handler in a thread.
Start(c) ==
  /\ At(c, "idle")
  /\ current[Owner[c]] = NoCall
  /\ current' = [current EXCEPT ![Owner[c]] = c]
  /\ cancelled' = [cancelled EXCEPT ![Owner[c]] = FALSE]
  /\ Go(c, "lock")
  /\ UNCHANGED <<fileVars, holder, threadVars, result, outcome, cancels, outside, faults>>

\* The session's task is cancelled while it waits, any number of times.
Cancel(s) ==
  /\ current[s] # NoCall
  /\ cancels < MaxCancels
  /\ cancels' = cancels + 1
  /\ cancelled' = [cancelled EXCEPT ![s] = TRUE]
  /\ UNCHANGED <<fileVars, holder, pc, threadVars, result, current, outcome, outside, faults>>

\* Faulty: passes a cancellation on at once.
SettleAtOnce(c) ==
  /\ current[Owner[c]] = c
  /\ At(c, "done") \/ cancelled[Owner[c]]
  /\ outcome' = [outcome EXCEPT ![c] = IF cancelled[Owner[c]] THEN "cancelled" ELSE result[c]]
  /\ current' = [current EXCEPT ![Owner[c]] = NoCall]
  /\ UNCHANGED <<fileVars, holder, pc, threadVars, result, cancelled, cancels, outside, faults>>

\* _settle_task: the session waits for the thread whatever happens; then a
\* cancellation prevails over the result.
Settle(c) ==
  /\ current[Owner[c]] = c
  /\ At(c, "done")
  /\ outcome' = [outcome EXCEPT ![c] = IF cancelled[Owner[c]] THEN "cancelled" ELSE result[c]]
  /\ current' = [current EXCEPT ![Owner[c]] = NoCall]
  /\ UNCHANGED <<fileVars, holder, pc, threadVars, result, cancelled, cancels, outside, faults>>

\* The process of a session dies at any step of its call; the operating system
\* drops the lock.
Crash(c) ==
  /\ current[Owner[c]] = c
  /\ "crash" \in May /\ Fault
  /\ pc' = [pc EXCEPT ![c] = "dead"]
  /\ holder' = [l \in Locks |-> IF holder[l] = c THEN NoCall ELSE holder[l]]
  /\ current' = [current EXCEPT ![Owner[c]] = NoCall]
  /\ UNCHANGED <<fileVars, threadVars, result, cancelled, outcome, cancels, outside>>

Meddle == "outside" \in May /\ outside < MaxOutside /\ outside' = outside + 1

\* Programs that do not use the lock (a shell command, an editor): one part is
\* changed in place, the file is replaced or created, or removed.
OutsideWrites ==
  /\ Meddle
  /\ \/ /\ entry # 0
        /\ \E i \in 1 .. 2, t \in Texts :
             disk' = [disk EXCEPT ![entry] =
                        [data |-> [@.data EXCEPT ![i] = t], mtime |-> @.mtime + 1]]
        /\ UNCHANGED entry
     \/ \E t \in Texts : Put(Whole(t))
     \/ entry # 0 /\ entry' = 0 /\ UNCHANGED disk
  /\ UNCHANGED <<holder, pc, threadVars, result, sessionVars, faults>>

Init ==
  /\ \/ disk = <<>> /\ entry = 0
     \/ \E t \in Texts : disk = <<[data |-> Whole(t), mtime |-> 0]>> /\ entry = 1
  /\ holder = [l \in Locks |-> NoCall]
  /\ pc = [c \in Calls |-> "idle"]
  /\ before = [c \in Calls |-> NoStat]
  /\ handle = [c \in Calls |-> 0]
  /\ raw = [c \in Calls |-> NoData]
  /\ published = [c \in Calls |-> FALSE]
  /\ result = [c \in Calls |-> "none"]
  /\ artifacts = {}
  /\ current = [s \in Sessions |-> NoCall]
  /\ cancelled = [s \in Sessions |-> FALSE]
  /\ outcome = [c \in Calls |-> "none"]
  /\ outside = 0 /\ faults = 0 /\ cancels = 0

Next ==
  \/ \E c \in Calls : Thread(c) \/ Start(c) \/ Settle(c) \/ Crash(c)
  \/ \E s \in Sessions : Cancel(s)
  \/ OutsideWrites

Spec == Init /\ [][Next]_vars

-------------------------------------------------------------------------------
(* Properties.                                                             *)

\* Nothing of the file tools happens behind a session's back: a thread is only
\* at work while its session waits for that call, cancelled or not.
ThreadsAreAwaited ==
  \A c \in Calls : pc[c] \notin {"idle", "done", "dead"} => current[Owner[c]] = c

\* A failure means that the call changed nothing, and success that it did: what
\* the caller is told of effects is never wrong, whatever failed on the way, and
\* only a cancelled or dead call leaves it open.
ReportsAreHonest ==
  \A c \in Calls :
    /\ result[c] \in Failures => ~published[c]
    /\ result[c] = "ok" /\ Writing(c) => published[c]
    /\ outcome[c] \in Results => outcome[c] = result[c]

\* Of all calls that use the tools, at most one replaces any given version of
\* the file: no update is lost.
NoLostUpdate ==
  \A c, d \in Calls : published[c] /\ published[d] /\ c # d => before[c] # before[d] \/ Creates(c)

\* What a call goes on to work with after its snapshot is the file as it is at
\* that moment, never a mixture of two versions, whoever else writes to it.
SnapshotsAreWhole ==
  [][\A c \in Calls : At(c, "restat") /\ pc'[c] \in {"temp", "keep"} => raw[c] = Current]_vars

\* A write that is to create the file never replaces one, not even a file that a
\* program outside the tools has put there since it looked.
CreateNeverReplaces ==
  [][\A c \in Calls : published'[c] /\ ~published[c] /\ Creates(c) => entry = 0]_vars

\* The calls that change the file, and the register they implement.
Editors == {c \in Calls : Writing(c)}

Register == INSTANCE FileRegister WITH
  Calls <- Editors,
  Replaces <- [c \in Editors |->
                IF Args[c].tool = "write" /\ (Args[c].createOnly \/ Args[c].expected = NoText)
                THEN NoData ELSE Whole(Args[c].expected)],
  Writes <- [c \in Editors |-> Whole(Args[c].content)],
  private <- (outside = 0),
  value <- Current,
  effect <- [c \in Editors |-> IF published[c] THEN "applied"
                               ELSE IF pc[c] \in {"done", "dead"} THEN "none" ELSE "pending"]

\* Calls of write and edit are compare-and-swap operations on one register,
\* across lost locks, failing system calls, crashes and cancellations.
RegisterSpec == Register!Spec
===============================================================================
