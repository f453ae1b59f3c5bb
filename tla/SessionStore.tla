----------------------------- MODULE SessionStore -----------------------------
(***************************************************************************)
(* The durable session log of storage.py: one append-only file of          *)
(* hash-chained events, opened by at most one handle at a time under a     *)
(* file lock.                                                              *)
(*                                                                         *)
(* An append writes a whole line and then calls fsync; only then does the  *)
(* event reach the handle's memory.  Any error in between leaves an        *)
(* unknown amount of the line on disk and poisons the handle: it refuses   *)
(* every later append until it is closed and the log is opened again.      *)
(* Opening validates the complete lines and cuts off an unterminated tail. *)
(*                                                                         *)
(* The file is modelled at the grain of lines: `file' holds the complete   *)
(* lines, `tail' the event whose line is there in part, and `synced' how   *)
(* many lines the last successful fsync covers.  The hash chain is         *)
(* modelled by the sequence number it protects.                            *)
(***************************************************************************)
EXTENDS Naturals, Sequences, FiniteSets

CONSTANTS
  Handles,      \* SessionStore objects, in any number of processes
  Inspectors,   \* the handles that were given repair=False
  EventIds,     \* event_id values that callers choose
  Payloads,     \* contents of an event
  Created,      \* the session.created event's id
  NoEvent,      \* "no event": an empty tail, an empty write buffer
  NoHandle,     \* nobody holds the lock
  MaxEvents,    \* bound: lines in the file
  MaxFaults     \* bound: failed writes, crashes and power losses

ASSUME InspectorsAreHandles == Inspectors \subseteq Handles
ASSUME BoundsAreNaturals == MaxEvents \in Nat /\ MaxFaults \in Nat
ASSUME CreatedIsNoEventId == Created \notin EventIds
ASSUME NoHandleIsNoHandle == NoHandle \notin Handles

VARIABLES
  file,      \* complete lines, as the operating system shows them to a reader
  tail,      \* the event whose line is there only in part, or NoEvent
  synced,    \* how many lines are certain to survive a power loss
  lock,      \* the handle that holds session.lock, or NoHandle
  phase,     \* what each handle is doing
  mem,       \* self.events of each handle
  poisoned,  \* self._poisoned of each handle
  buffer,    \* the event a failed flush left in the Python file buffer
  acked,     \* history: the events whose append() returned to its caller
  faults     \* failures so far

vars == <<file, tail, synced, lock, phase, mem, poisoned, buffer, acked, faults>>

Phases == {"closed", "repairing", "creating", "open", "syncing"}

CreatedEvent == [id |-> Created, body |-> Created, seq |-> 1]

Event == [id : EventIds, body : Payloads, seq : Nat \ {0}] \cup {CreatedEvent}

TypeOK ==
  /\ file \in Seq(Event)
  /\ tail \in Event \cup {NoEvent}
  /\ synced \in Nat
  /\ lock \in Handles \cup {NoHandle}
  /\ phase \in [Handles -> Phases]
  /\ mem \in [Handles -> Seq(Event)]
  /\ poisoned \in [Handles -> BOOLEAN]
  /\ buffer \in [Handles -> Event \cup {NoEvent}]
  /\ acked \in Seq(Event)
  /\ faults \in Nat

-------------------------------------------------------------------------------
(* Reading the log.                                                        *)

\* What _validate accepts: the numbers are consecutive, no event_id occurs
\* twice, and the first event creates the session.
Validate(lines) ==
  /\ \A i \in DOMAIN lines : lines[i].seq = i
  /\ \A i, j \in DOMAIN lines : lines[i].id = lines[j].id => i = j
  /\ lines # <<>> => lines[1].id = Created

\* "event_id in self._ids": the index is rebuilt from the events at open.
Known(h, id) == \E i \in DOMAIN mem[h] : mem[h][i].id = id

\* Faulty: no lock.
UnlockedAlways == TRUE

\* FileLock.acquire() with timeout 0: fails at once if anybody holds the lock.
Unlocked == lock = NoHandle

NextEvent(h, id, body) == [id |-> id, body |-> body, seq |-> Len(mem[h]) + 1]

Fault == faults < MaxFaults /\ faults' = faults + 1

Init ==
  /\ file = <<>> /\ tail = NoEvent /\ synced = 0
  /\ lock = NoHandle
  /\ phase = [h \in Handles |-> "closed"]
  /\ mem = [h \in Handles |-> <<>>]
  /\ poisoned = [h \in Handles |-> FALSE]
  /\ buffer = [h \in Handles |-> NoEvent]
  /\ acked = <<>> /\ faults = 0

\* open(): take the lock, read and validate the log, publish it to memory.
\* A tail is repaired first; a handle with repair=False refuses it.
Open(h) ==
  /\ phase[h] = "closed"
  /\ Unlocked
  /\ Validate(file)
  /\ tail # NoEvent => h \notin Inspectors
  /\ lock' = h
  /\ mem' = [mem EXCEPT ![h] = file]
  /\ poisoned' = [poisoned EXCEPT ![h] = FALSE]
  /\ phase' = [phase EXCEPT ![h] =
       IF tail # NoEvent THEN "repairing"
       ELSE IF file = <<>> THEN "creating" ELSE "open"]
  /\ UNCHANGED <<file, tail, synced, buffer, acked, faults>>

\* The repair: truncate to the last newline and fsync.
Repair(h) ==
  /\ phase[h] = "repairing"
  /\ tail' = NoEvent
  /\ synced' = Len(file)
  /\ phase' = [phase EXCEPT ![h] = IF file = <<>> THEN "creating" ELSE "open"]
  /\ UNCHANGED <<file, lock, mem, poisoned, buffer, acked, faults>>

\* The repair raises, or the process dies in it: the tail is still there, or it
\* is cut off without the fsync.  open() closes the handle again.
RepairFails(h) ==
  /\ phase[h] = "repairing"
  /\ Fault
  /\ tail' \in {tail, NoEvent}
  /\ phase' = [phase EXCEPT ![h] = "closed"]
  /\ lock' = NoHandle
  /\ UNCHANGED <<file, synced, mem, poisoned, buffer, acked>>

\* Faulty: acknowledges the event before its fsync.
WriteLineAcknowledged(h, e) ==
  /\ file' = Append(file, e)
  /\ acked' = Append(mem[h], e)
  /\ phase' = [phase EXCEPT ![h] = "syncing"]
  /\ UNCHANGED <<tail, synced, lock, mem, poisoned, buffer, faults>>

\* write() and flush() of one encoded line: it is in the file, not yet synced.
WriteLine(h, e) ==
  /\ file' = Append(file, e)
  /\ phase' = [phase EXCEPT ![h] = "syncing"]
  /\ UNCHANGED <<tail, synced, lock, mem, poisoned, buffer, acked, faults>>

\* write() or flush() raises: none of the line landed, or a part of it.  The
\* rest stays in the buffer and the handle is poisoned.
WriteLineFails(h, e) ==
  /\ Fault
  /\ tail' \in {NoEvent, e}
  /\ buffer' = [buffer EXCEPT ![h] = e]
  /\ poisoned' = [poisoned EXCEPT ![h] = TRUE]
  /\ phase' = [phase EXCEPT ![h] = "open"]
  /\ UNCHANGED <<file, synced, lock, mem, acked>>

\* open() appends session.created to an empty log.  When that fails open()
\* raises: the poisoned handle has nothing left but its close().
Create(h) ==
  /\ phase[h] = "creating"
  /\ \/ WriteLine(h, CreatedEvent)
     \/ WriteLineFails(h, CreatedEvent)

\* append() of an event whose id is new.  An id that is known returns the
\* stored event, or raises EventConflict: no state changes.
AppendEvent(h, id, body) ==
  /\ phase[h] = "open" /\ ~poisoned[h]
  /\ Len(file) < MaxEvents
  /\ ~Known(h, id)
  /\ \/ WriteLine(h, NextEvent(h, id, body))
     \/ WriteLineFails(h, NextEvent(h, id, body))

\* fsync succeeds: the event is durable, reaches memory and the caller.
Sync(h) ==
  /\ phase[h] = "syncing"
  /\ synced' = Len(file)
  /\ mem' = [mem EXCEPT ![h] = Append(@, file[Len(file)])]
  /\ acked' = Append(mem[h], file[Len(file)])
  /\ phase' = [phase EXCEPT ![h] = "open"]
  /\ UNCHANGED <<file, tail, lock, poisoned, buffer, faults>>

\* Faulty: the handle stays usable.
SyncFailsUnpoisoned(h) ==
  /\ phase[h] = "syncing"
  /\ Fault
  /\ phase' = [phase EXCEPT ![h] = "open"]
  /\ UNCHANGED <<file, tail, synced, lock, mem, poisoned, buffer, acked>>

\* fsync raises: the line may survive a power loss, or not.
SyncFails(h) ==
  /\ phase[h] = "syncing"
  /\ Fault
  /\ poisoned' = [poisoned EXCEPT ![h] = TRUE]
  /\ phase' = [phase EXCEPT ![h] = "open"]
  /\ UNCHANGED <<file, tail, synced, lock, mem, buffer, acked>>

\* close() closes the file, which flushes the buffer once more: what a failed
\* append left there may land now, in part or in full, or never.
Close(h) ==
  /\ phase[h] = "open"
  /\ IF buffer[h] = NoEvent
       THEN UNCHANGED <<file, tail>>
       ELSE \/ file' = Append(file, buffer[h]) /\ tail' = NoEvent
            \/ tail' \in {tail, buffer[h]} /\ UNCHANGED file
  /\ buffer' = [buffer EXCEPT ![h] = NoEvent]
  /\ phase' = [phase EXCEPT ![h] = "closed"]
  /\ lock' = NoHandle
  /\ UNCHANGED <<synced, mem, poisoned, acked, faults>>

\* The process of a handle dies at any point: its lock and buffer go with it.
Crash(h) ==
  /\ phase[h] # "closed"
  /\ Fault
  /\ phase' = [phase EXCEPT ![h] = "closed"]
  /\ buffer' = [buffer EXCEPT ![h] = NoEvent]
  /\ lock' = NoHandle
  /\ UNCHANGED <<file, tail, synced, mem, poisoned, acked>>

\* The machine dies: lines past the last fsync survive up to some point, which
\* may lie inside a line.
PowerLoss ==
  /\ Fault
  /\ \E n \in synced .. Len(file) :
       /\ file' = SubSeq(file, 1, n)
       /\ tail' \in {NoEvent, IF n < Len(file) THEN file[n + 1] ELSE tail}
  /\ phase' = [h \in Handles |-> "closed"]
  /\ buffer' = [h \in Handles |-> NoEvent]
  /\ lock' = NoHandle
  /\ UNCHANGED <<synced, mem, poisoned, acked>>

Next ==
  \/ \E h \in Handles :
       \/ Open(h) \/ Repair(h) \/ RepairFails(h) \/ Create(h)
       \/ \E id \in EventIds, body \in Payloads : AppendEvent(h, id, body)
       \/ Sync(h) \/ SyncFails(h) \/ Close(h) \/ Crash(h)
  \/ PowerLoss

Spec == Init /\ [][Next]_vars

-------------------------------------------------------------------------------
(* Properties.                                                             *)

\* A handle that may append: open and not poisoned.
Writer(h) == phase[h] \in {"open", "syncing"} /\ ~poisoned[h]

\* The log on disk always passes _validate, whatever failed, crashed or was
\* retried: no number is skipped, no event_id is written twice, and no line is
\* ever glued to a torn one, because a tail is only there while nobody may append.
LogIsValid ==
  /\ Validate(file)
  /\ \A h \in Handles : Writer(h) => tail = NoEvent

\* A handle that may append holds exactly the log that is on disk (plus the
\* line whose fsync is running): nobody else writes, and no failed append of
\* its own is hiding behind its back.
MemoryIsTheLog ==
  \A h \in Handles : Writer(h) =>
    /\ phase[h] = "open" => mem[h] = file
    /\ phase[h] = "syncing" => file # <<>> /\ mem[h] = SubSeq(file, 1, Len(file) - 1)

\* What append() returned to its caller survives everything: the acknowledged
\* events are a prefix of the lines that a power loss cannot take away.
AckedIsDurable ==
  /\ Len(acked) <= synced /\ synced <= Len(file)
  /\ acked = SubSeq(file, 1, Len(acked))

\* What storage.py:3 says: only a successful fsync publishes an event to memory.
\* The memory of a handle has nothing that a power loss could still take away.
OnlySyncedIsPublished ==
  \A h \in Handles : Writer(h) => Len(mem[h]) <= synced

\* Why the above holds from step to step.  The handle that is not closed is the
\* one that holds the lock; until it may append it has just read the whole log;
\* a line a failed flush left in its buffer would still fit the end of the log.
HandlesAgree ==
  /\ \A h \in Handles : lock = h <=> phase[h] # "closed"
  /\ \A h \in Handles :
       /\ phase[h] = "repairing" => mem[h] = file /\ ~poisoned[h]
       /\ phase[h] = "creating" =>
            file = <<>> /\ mem[h] = <<>> /\ tail = NoEvent /\ ~poisoned[h]
       /\ phase[h] = "syncing" => ~poisoned[h]
       /\ Writer(h) => file # <<>>
       /\ buffer[h] # NoEvent =>
            phase[h] = "open" /\ poisoned[h] /\ Validate(Append(file, buffer[h]))

\* The log the session store implements.
Log == INSTANCE DurableLog WITH
  log <- file,
  kept <- Len(acked),
  owned <- (\E h \in Handles : phase[h] # "closed" /\ ~poisoned[h]),
  late <- (\E h \in Handles : buffer[h] # NoEvent)

\* The handles together are one durable log: across failed writes, crashes, power
\* losses and late flushes of close(), it grows by one new event at a time, loses
\* nothing that was acknowledged, and a failed append changes nothing any more once
\* the log has been opened again.
LogSpec == Log!Spec
===============================================================================
