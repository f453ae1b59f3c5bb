-------------------------- MODULE SessionStoreProofs --------------------------
(***************************************************************************)
(* The session log keeps its promises for any number of handles, callers,  *)
(* failures and crashes.  The inductive invariant is the conjunction of    *)
(* what the runs of SessionStore check; the proof goes action by action.   *)
(***************************************************************************)
EXTENDS SessionStore, SequenceTheorems, TLAPS

Inv == TypeOK /\ LogIsValid /\ MemoryIsTheLog /\ AckedIsDurable /\ HandlesAgree

-------------------------------------------------------------------------------
(* Logs: what appending to one and cutting one off does.                   *)

\* A prefix of a log is a log, and holds the same events.
LEMMA Prefix ==
  ASSUME NEW s \in Seq(Event), NEW n \in 0 .. Len(s)
  PROVE  /\ SubSeq(s, 1, n) \in Seq(Event)
         /\ Len(SubSeq(s, 1, n)) = n
         /\ \A i \in 1 .. n : SubSeq(s, 1, n)[i] = s[i]
  <1>1. \A i \in 1 .. n : s[i] \in Event
    BY ElementOfSeq
  <1> QED
    BY <1>1, SubSeqProperties, LenProperties

\* Cutting twice is cutting once.
LEMMA PrefixOfPrefix ==
  ASSUME NEW s \in Seq(Event), NEW n \in 0 .. Len(s), NEW m \in 0 .. n
  PROVE  SubSeq(SubSeq(s, 1, n), 1, m) = SubSeq(s, 1, m)
  <1> DEFINE p == SubSeq(s, 1, n)
  <1>1. p \in Seq(Event) /\ Len(p) = n /\ \A i \in 1 .. n : p[i] = s[i]
    BY Prefix
  <1>2. m \in 0 .. Len(s) /\ m \in 0 .. Len(p) /\ Len(s) \in Nat
    BY <1>1, LenProperties
  <1>3. /\ SubSeq(s, 1, m) \in Seq(Event) /\ Len(SubSeq(s, 1, m)) = m
        /\ \A i \in 1 .. m : SubSeq(s, 1, m)[i] = s[i]
    BY <1>2, Prefix
  <1>4. /\ SubSeq(p, 1, m) \in Seq(Event) /\ Len(SubSeq(p, 1, m)) = m
        /\ \A i \in 1 .. m : SubSeq(p, 1, m)[i] = p[i]
    <2> HIDE DEF p
    <2> QED
      BY <1>1, <1>2, Prefix
  <1>5. \A i \in 1 .. m : SubSeq(p, 1, m)[i] = SubSeq(s, 1, m)[i]
    BY <1>1, <1>2, <1>3, <1>4
  <1> HIDE DEF p
  <1>6. SubSeq(p, 1, m) = SubSeq(s, 1, m)
    BY <1>3, <1>4, <1>5, SeqEqual
  <1> QED
    BY <1>6 DEF p

\* What was a prefix stays one when an event is appended.
LEMMA PrefixOfAppend ==
  ASSUME NEW s \in Seq(Event), NEW e \in Event, NEW n \in 0 .. Len(s)
  PROVE  SubSeq(Append(s, e), 1, n) = SubSeq(s, 1, n)
  <1> DEFINE t == Append(s, e)
  <1>1. /\ t \in Seq(Event) /\ Len(t) = Len(s) + 1
        /\ \A i \in 1 .. Len(s) : t[i] = s[i]
    BY AppendProperties
  <1>2. n \in 0 .. Len(t) /\ Len(s) \in Nat
    BY <1>1, LenProperties
  <1>3. /\ SubSeq(s, 1, n) \in Seq(Event) /\ Len(SubSeq(s, 1, n)) = n
        /\ \A i \in 1 .. n : SubSeq(s, 1, n)[i] = s[i]
    BY Prefix
  <1> HIDE DEF t
  <1>4. /\ SubSeq(t, 1, n) \in Seq(Event) /\ Len(SubSeq(t, 1, n)) = n
        /\ \A i \in 1 .. n : SubSeq(t, 1, n)[i] = t[i]
    BY <1>1, <1>2, Prefix
  <1>5. SubSeq(t, 1, n) = SubSeq(s, 1, n)
    <2>1. \A i \in 1 .. n : SubSeq(t, 1, n)[i] = SubSeq(s, 1, n)[i]
      BY <1>1, <1>2, <1>3, <1>4
    <2> QED
      BY <2>1, <1>3, <1>4, SeqEqual
  <1> QED
    BY <1>5 DEF t

\* A log without its last event, and that event behind it again.
LEMMA LastBehindRest ==
  ASSUME NEW s \in Seq(Event), s # <<>>
  PROVE  Append(SubSeq(s, 1, Len(s) - 1), s[Len(s)]) = s
  <1>1. PICK t \in Seq(Event), e \in Event : s = Append(t, e)
    BY SequenceEmptyOrAppend
  <1>2. Len(s) = Len(t) + 1 /\ s[Len(s)] = e /\ Len(t) \in Nat
    BY <1>1, AppendProperties, LenProperties
  <1>3. Len(t) \in 0 .. Len(t)
    BY <1>2
  <1>4. SubSeq(s, 1, Len(t)) = SubSeq(t, 1, Len(t))
    BY <1>1, <1>3, PrefixOfAppend
  <1>5. SubSeq(t, 1, Len(t)) = t
    BY SubSeqFull
  <1>6. Len(s) - 1 = Len(t)
    BY <1>2
  <1> QED
    BY <1>1, <1>2, <1>4, <1>5, <1>6

\* _validate accepts every prefix of what it accepts.
LEMMA ValidPrefix ==
  ASSUME NEW s \in Seq(Event), Validate(s), NEW n \in 0 .. Len(s)
  PROVE  Validate(SubSeq(s, 1, n))
  <1> DEFINE p == SubSeq(s, 1, n)
  <1>1. p \in Seq(Event) /\ Len(p) = n /\ \A i \in 1 .. n : p[i] = s[i]
    BY Prefix
  <1>2. DOMAIN p = 1 .. n /\ DOMAIN s = 1 .. Len(s) /\ Len(s) \in Nat
    BY <1>1, LenProperties
  <1>3. DOMAIN p \subseteq DOMAIN s
    BY <1>2
  <1>4. p # <<>> => 1 \in DOMAIN p /\ s # <<>>
    BY <1>1, <1>2, EmptySeq
  <1> HIDE DEF p
  <1>5. Validate(p)
    BY <1>1, <1>2, <1>3, <1>4 DEF Validate
  <1> QED
    BY <1>5 DEF p

\* ... and an event appended to it, if the event is numbered next, has an id of
\* its own, and creates the session if it is the first.
LEMMA ValidAppend ==
  ASSUME NEW s \in Seq(Event), Validate(s), NEW e \in Event,
         e.seq = Len(s) + 1,
         \A i \in DOMAIN s : s[i].id # e.id,
         s = <<>> => e.id = Created
  PROVE  Validate(Append(s, e))
  <1> DEFINE t == Append(s, e)
  <1>1. /\ t \in Seq(Event) /\ Len(t) = Len(s) + 1
        /\ \A i \in 1 .. Len(s) : t[i] = s[i]
        /\ t[Len(s) + 1] = e
    BY AppendProperties
  <1>2. DOMAIN s = 1 .. Len(s) /\ DOMAIN t = 1 .. Len(s) + 1 /\ Len(s) \in Nat
    BY <1>1, LenProperties
  <1> HIDE DEF t
  <1>3. \A i \in DOMAIN t : t[i].seq = i
    BY <1>1, <1>2 DEF Validate
  <1>4. \A i, j \in DOMAIN t : t[i].id = t[j].id => i = j
    BY <1>1, <1>2 DEF Validate
  <1>5. t[1].id = Created
    <2>1. CASE s = <<>>
      BY <2>1, <1>1, EmptySeq
    <2>2. CASE s # <<>>
      BY <2>2, <1>1, <1>2, EmptySeq DEF Validate
    <2> QED
      BY <2>1, <2>2
  <1>6. Validate(t)
    BY <1>3, <1>4, <1>5 DEF Validate
  <1> QED
    BY <1>6 DEF t

-------------------------------------------------------------------------------
(* The steps.                                                              *)

\* While one handle is not closed, all others are, with nothing buffered.
LEMMA Alone ==
  ASSUME HandlesAgree, NEW h \in Handles, phase[h] # "closed",
         NEW k \in Handles, k # h
  PROVE  phase[k] = "closed" /\ buffer[k] = NoEvent
  BY DEF HandlesAgree

\* A line that is written by a handle whose memory is the whole log.
LEMMA WriteLineStep ==
  ASSUME Inv, NEW h \in Handles, NEW e \in Event,
         phase[h] # "closed", ~poisoned[h], mem[h] = file, tail = NoEvent,
         buffer[h] = NoEvent, Validate(Append(file, e)), WriteLine(h, e)
  PROVE  Inv'
  <1> USE DEF Inv, WriteLine
  <1>1. /\ Append(file, e) \in Seq(Event) /\ Append(file, e) # <<>>
        /\ Len(Append(file, e)) = Len(file) + 1 /\ Len(file) \in Nat
    BY AppendProperties, LenProperties DEF TypeOK
  <1>2. SubSeq(Append(file, e), 1, Len(file)) = file
    <2>1. Len(file) \in 0 .. Len(file)
      BY <1>1
    <2> QED
      BY <2>1, PrefixOfAppend, SubSeqFull DEF TypeOK
  <1>3. TypeOK'
    BY <1>1 DEF TypeOK, Phases
  <1>4. \A k \in Handles : k # h => phase'[k] = "closed" /\ buffer'[k] = NoEvent
    BY Alone DEF TypeOK
  <1>5. phase'[h] = "syncing"
    BY DEF TypeOK
  <1>6. LogIsValid'
    BY <1>4 DEF LogIsValid, Writer
  <1>7. MemoryIsTheLog'
    BY <1>1, <1>2, <1>4, <1>5 DEF MemoryIsTheLog, Writer
  <1>8. AckedIsDurable'
    <2>1. Len(acked) \in 0 .. Len(file)
      BY <1>1, LenProperties DEF AckedIsDurable, TypeOK
    <2>2. SubSeq(Append(file, e), 1, Len(acked)) = SubSeq(file, 1, Len(acked))
      BY <2>1, PrefixOfAppend DEF TypeOK
    <2> QED
      BY <1>1, <2>1, <2>2 DEF AckedIsDurable, TypeOK
  <1>9. HandlesAgree'
    BY <1>1, <1>4, <1>5 DEF HandlesAgree, Writer
  <1> QED
    BY <1>3, <1>6, <1>7, <1>8, <1>9

\* ... and one whose write fails.
LEMMA WriteLineFailsStep ==
  ASSUME Inv, NEW h \in Handles, NEW e \in Event,
         phase[h] # "closed", Validate(Append(file, e)), WriteLineFails(h, e)
  PROVE  Inv'
  <1> USE DEF Inv, WriteLineFails
  <1>1. TypeOK'
    BY BoundsAreNaturals DEF TypeOK, Phases, Fault
  <1>2. \A k \in Handles : k # h => phase'[k] = "closed" /\ buffer'[k] = NoEvent
    BY Alone DEF TypeOK
  <1>3. phase'[h] = "open" /\ poisoned'[h] /\ buffer'[h] = e
    BY DEF TypeOK
  <1>4. LogIsValid'
    BY <1>2, <1>3 DEF LogIsValid, Writer
  <1>5. MemoryIsTheLog'
    BY <1>2, <1>3 DEF MemoryIsTheLog, Writer
  <1>6. AckedIsDurable'
    BY DEF AckedIsDurable
  <1>7. HandlesAgree'
    BY <1>2, <1>3 DEF HandlesAgree, Writer
  <1> QED
    BY <1>1, <1>4, <1>5, <1>6, <1>7

LEMMA OpenStep ==
  ASSUME Inv, NEW h \in Handles, Open(h)
  PROVE  Inv'
  <1> USE DEF Inv, Open
  <1>1. TypeOK'
    BY DEF TypeOK, Phases
  <1>2. \A k \in Handles :
          k # h => phase[k] = "closed" /\ phase'[k] = "closed" /\ buffer[k] = NoEvent
    BY NoHandleIsNoHandle DEF HandlesAgree, TypeOK, Unlocked
  <1>3. /\ phase'[h] = IF tail # NoEvent THEN "repairing"
                       ELSE IF file = <<>> THEN "creating" ELSE "open"
        /\ mem'[h] = file /\ ~poisoned'[h] /\ buffer[h] = NoEvent
    BY DEF TypeOK, HandlesAgree
  <1>4. LogIsValid'
    BY <1>2, <1>3 DEF LogIsValid, Writer
  <1>5. MemoryIsTheLog'
    BY <1>2, <1>3 DEF MemoryIsTheLog, Writer
  <1>6. AckedIsDurable'
    BY DEF AckedIsDurable
  <1>7. HandlesAgree'
    BY <1>2, <1>3, NoHandleIsNoHandle DEF HandlesAgree, Writer
  <1> QED
    BY <1>1, <1>4, <1>5, <1>6, <1>7

LEMMA RepairStep ==
  ASSUME Inv, NEW h \in Handles, Repair(h)
  PROVE  Inv'
  <1> USE DEF Inv, Repair
  <1>1. TypeOK'
    BY LenProperties DEF TypeOK, Phases
  <1>2. \A k \in Handles : k # h => phase'[k] = "closed" /\ buffer'[k] = NoEvent
    BY Alone DEF TypeOK
  <1>3. /\ phase'[h] = IF file = <<>> THEN "creating" ELSE "open"
        /\ mem'[h] = file /\ ~poisoned'[h] /\ buffer'[h] = NoEvent
    BY DEF TypeOK, HandlesAgree
  <1>4. LogIsValid'
    BY DEF LogIsValid
  <1>5. MemoryIsTheLog'
    BY <1>2, <1>3 DEF MemoryIsTheLog, Writer
  <1>6. AckedIsDurable'
    BY LenProperties DEF AckedIsDurable, TypeOK
  <1>7. HandlesAgree'
    BY <1>2, <1>3 DEF HandlesAgree, Writer
  <1> QED
    BY <1>1, <1>4, <1>5, <1>6, <1>7

LEMMA RepairFailsStep ==
  ASSUME Inv, NEW h \in Handles, RepairFails(h)
  PROVE  Inv'
  <1> USE DEF Inv, RepairFails
  <1>1. TypeOK'
    BY BoundsAreNaturals DEF TypeOK, Phases, Fault
  <1>2. \A k \in Handles : phase'[k] = "closed" /\ buffer'[k] = NoEvent
    BY Alone DEF TypeOK, HandlesAgree
  <1>3. LogIsValid' /\ MemoryIsTheLog' /\ AckedIsDurable'
    BY <1>2 DEF LogIsValid, MemoryIsTheLog, AckedIsDurable, Writer
  <1>4. HandlesAgree'
    BY <1>2, NoHandleIsNoHandle DEF HandlesAgree, Writer
  <1> QED
    BY <1>1, <1>3, <1>4

LEMMA CreateStep ==
  ASSUME Inv, NEW h \in Handles, Create(h)
  PROVE  Inv'
  <1>1. /\ phase[h] = "creating" /\ ~poisoned[h] /\ mem[h] = file
        /\ file = <<>> /\ tail = NoEvent /\ buffer[h] = NoEvent
    BY DEF Inv, Create, HandlesAgree
  <1>2. CreatedEvent \in Event /\ CreatedEvent.seq = 1 /\ CreatedEvent.id = Created
    BY DEF Event, CreatedEvent
  <1>3. Validate(Append(file, CreatedEvent))
    <2>1. file \in Seq(Event) /\ Validate(file) /\ Len(file) = 0 /\ DOMAIN file = {}
      BY <1>1, EmptySeq DEF Inv, TypeOK, LogIsValid
    <2>2. /\ CreatedEvent.seq = Len(file) + 1
          /\ \A i \in DOMAIN file : file[i].id # CreatedEvent.id
      BY <1>2, <2>1
    <2> QED
      BY <1>2, <2>1, <2>2, ValidAppend
  <1>4. CASE WriteLine(h, CreatedEvent)
    BY <1>1, <1>2, <1>3, <1>4, WriteLineStep
  <1>5. CASE WriteLineFails(h, CreatedEvent)
    BY <1>1, <1>2, <1>3, <1>5, WriteLineFailsStep
  <1> QED
    BY <1>4, <1>5 DEF Create

LEMMA AppendEventStep ==
  ASSUME Inv, NEW h \in Handles, NEW id \in EventIds, NEW body \in Payloads,
         AppendEvent(h, id, body)
  PROVE  Inv'
  <1> DEFINE e == NextEvent(h, id, body)
  <1>1. /\ phase[h] = "open" /\ ~poisoned[h] /\ mem[h] = file
        /\ file # <<>> /\ tail = NoEvent /\ buffer[h] = NoEvent
    BY DEF Inv, AppendEvent, HandlesAgree, MemoryIsTheLog, LogIsValid, Writer
  <1>2. file \in Seq(Event) /\ Validate(file) /\ Len(file) \in Nat
    BY LenProperties DEF Inv, TypeOK, LogIsValid
  <1>3. e \in Event /\ e.seq = Len(file) + 1 /\ e.id = id
    BY <1>1, <1>2 DEF Event, NextEvent
  <1>4. \A i \in DOMAIN file : file[i].id # id
    BY <1>1 DEF AppendEvent, Known
  <1>5. Validate(Append(file, e))
    <2> HIDE DEF e
    <2> QED
      BY <1>1, <1>2, <1>3, <1>4, ValidAppend
  <1>6. CASE WriteLine(h, e)
    <2> HIDE DEF e
    <2> QED
      BY <1>1, <1>3, <1>5, <1>6, WriteLineStep
  <1>7. CASE WriteLineFails(h, e)
    <2> HIDE DEF e
    <2> QED
      BY <1>1, <1>3, <1>5, <1>7, WriteLineFailsStep
  <1> QED
    BY <1>6, <1>7 DEF AppendEvent

LEMMA SyncStep ==
  ASSUME Inv, NEW h \in Handles, Sync(h)
  PROVE  Inv'
  <1> USE DEF Inv, Sync
  <1>1. /\ phase[h] = "syncing" /\ ~poisoned[h] /\ file # <<>> /\ tail = NoEvent
        /\ mem[h] = SubSeq(file, 1, Len(file) - 1) /\ buffer[h] = NoEvent
    BY DEF HandlesAgree, MemoryIsTheLog, LogIsValid, Writer
  <1>2. Append(mem[h], file[Len(file)]) = file
    BY <1>1, LastBehindRest DEF TypeOK
  <1>3. acked' = file /\ mem' = [mem EXCEPT ![h] = file] /\ Len(file) \in Nat
    BY <1>2, LenProperties DEF TypeOK
  <1>4. TypeOK'
    BY <1>3 DEF TypeOK, Phases
  <1>5. \A k \in Handles : k # h => phase'[k] = "closed" /\ buffer'[k] = NoEvent
    BY <1>1, Alone DEF TypeOK
  <1>6. phase'[h] = "open" /\ mem'[h] = file /\ ~poisoned'[h]
    BY <1>1, <1>3 DEF TypeOK
  <1>7. LogIsValid' /\ MemoryIsTheLog'
    BY <1>1, <1>5, <1>6 DEF LogIsValid, MemoryIsTheLog, Writer
  <1>8. AckedIsDurable'
    BY <1>3, SubSeqFull DEF AckedIsDurable, TypeOK
  <1>9. HandlesAgree'
    BY <1>1, <1>5, <1>6 DEF HandlesAgree, Writer
  <1> QED
    BY <1>4, <1>7, <1>8, <1>9

LEMMA SyncFailsStep ==
  ASSUME Inv, NEW h \in Handles, SyncFails(h)
  PROVE  Inv'
  <1> USE DEF Inv, SyncFails
  <1>1. TypeOK'
    BY BoundsAreNaturals DEF TypeOK, Phases, Fault
  <1>2. \A k \in Handles : k # h => phase'[k] = "closed" /\ buffer'[k] = NoEvent
    BY Alone DEF TypeOK
  <1>3. phase'[h] = "open" /\ poisoned'[h] /\ buffer'[h] = NoEvent
    BY DEF TypeOK, HandlesAgree
  <1>4. LogIsValid' /\ MemoryIsTheLog' /\ AckedIsDurable'
    BY <1>2, <1>3 DEF LogIsValid, MemoryIsTheLog, AckedIsDurable, Writer
  <1>5. HandlesAgree'
    BY <1>2, <1>3 DEF HandlesAgree, Writer
  <1> QED
    BY <1>1, <1>4, <1>5

LEMMA CloseStep ==
  ASSUME Inv, NEW h \in Handles, Close(h)
  PROVE  Inv'
  <1> USE DEF Inv, Close
  <1>1. \A k \in Handles : phase'[k] = "closed" /\ buffer'[k] = NoEvent
    BY Alone DEF TypeOK
  <1>2. lock' = NoHandle
    OBVIOUS
  <1>3. HandlesAgree'
    BY <1>1, <1>2, NoHandleIsNoHandle DEF HandlesAgree, Writer
  <1>4. MemoryIsTheLog'
    BY <1>1 DEF MemoryIsTheLog, Writer
  <1>5. CASE UNCHANGED file
    <2>1. TypeOK'
      BY <1>5 DEF TypeOK, Phases
    <2>2. LogIsValid' /\ AckedIsDurable'
      BY <1>1, <1>5 DEF LogIsValid, AckedIsDurable, Writer
    <2> QED
      BY <1>3, <1>4, <2>1, <2>2
  <1>6. CASE buffer[h] # NoEvent /\ file' = Append(file, buffer[h]) /\ tail' = NoEvent
    <2>1. buffer[h] \in Event /\ Validate(file')
      BY <1>6 DEF TypeOK, HandlesAgree
    <2>2. /\ file' \in Seq(Event) /\ Len(file') = Len(file) + 1
          /\ Len(file) \in Nat /\ Len(acked) \in Nat
      BY <1>6, <2>1, AppendProperties, LenProperties DEF TypeOK
    <2>3. TypeOK'
      BY <1>6, <2>2 DEF TypeOK, Phases
    <2>4. LogIsValid'
      BY <1>1, <2>1 DEF LogIsValid, Writer
    <2>5. SubSeq(file', 1, Len(acked)) = SubSeq(file, 1, Len(acked))
      <3>1. Len(acked) \in 0 .. Len(file)
        BY <2>2 DEF AckedIsDurable, TypeOK
      <3> QED
        BY <1>6, <2>1, <3>1, PrefixOfAppend DEF TypeOK
    <2>6. AckedIsDurable'
      BY <2>2, <2>5 DEF AckedIsDurable, TypeOK
    <2> QED
      BY <1>3, <1>4, <2>3, <2>4, <2>6
  <1> QED
    BY <1>5, <1>6

LEMMA CrashStep ==
  ASSUME Inv, NEW h \in Handles, Crash(h)
  PROVE  Inv'
  <1> USE DEF Inv, Crash
  <1>1. TypeOK'
    BY BoundsAreNaturals DEF TypeOK, Phases, Fault
  <1>2. \A k \in Handles : phase'[k] = "closed" /\ buffer'[k] = NoEvent
    BY Alone DEF TypeOK
  <1>3. LogIsValid' /\ MemoryIsTheLog' /\ AckedIsDurable'
    BY <1>2 DEF LogIsValid, MemoryIsTheLog, AckedIsDurable, Writer
  <1>4. HandlesAgree'
    BY <1>2, NoHandleIsNoHandle DEF HandlesAgree, Writer
  <1> QED
    BY <1>1, <1>3, <1>4

LEMMA PowerLossStep ==
  ASSUME Inv, PowerLoss
  PROVE  Inv'
  <1> USE DEF Inv
  <1>1. PICK n \in synced .. Len(file) :
          /\ file' = SubSeq(file, 1, n)
          /\ tail' \in {NoEvent, IF n < Len(file) THEN file[n + 1] ELSE tail}
    BY DEF PowerLoss
  <1>2. /\ Len(file) \in Nat /\ Len(acked) \in Nat /\ synced \in Nat
        /\ n \in 0 .. Len(file) /\ Len(acked) \in 0 .. n
    BY LenProperties DEF TypeOK, AckedIsDurable
  <1>3. file' \in Seq(Event) /\ Len(file') = n
    BY <1>1, <1>2, Prefix DEF TypeOK
  <1>4. tail' \in Event \cup {NoEvent}
    <2>1. n < Len(file) => file[n + 1] \in Event
      BY <1>2, ElementOfSeq DEF TypeOK
    <2> QED
      BY <1>1, <2>1 DEF TypeOK
  <1>5. TypeOK'
    BY <1>3, <1>4, BoundsAreNaturals DEF PowerLoss, TypeOK, Phases, Fault
  <1>6. \A k \in Handles : phase'[k] = "closed" /\ buffer'[k] = NoEvent
    BY DEF PowerLoss
  <1>7. Validate(file')
    BY <1>1, <1>2, ValidPrefix DEF TypeOK, LogIsValid
  <1>8. LogIsValid' /\ MemoryIsTheLog'
    BY <1>6, <1>7 DEF LogIsValid, MemoryIsTheLog, Writer
  <1>9. AckedIsDurable'
    <2>1. SubSeq(file', 1, Len(acked)) = SubSeq(file, 1, Len(acked))
      BY <1>1, <1>2, PrefixOfPrefix DEF TypeOK
    <2> QED
      BY <1>1, <1>2, <1>3, <2>1 DEF AckedIsDurable, PowerLoss
  <1>10. HandlesAgree'
    BY <1>6, NoHandleIsNoHandle DEF HandlesAgree, Writer, PowerLoss
  <1> QED
    BY <1>5, <1>8, <1>9, <1>10

-------------------------------------------------------------------------------
(* The theorems.                                                           *)

LEMMA InvInit == Init => Inv
  <1> SUFFICES ASSUME Init PROVE Inv
    OBVIOUS
  <1> USE DEF Init
  <1>1. TypeOK
    BY EmptySeq DEF TypeOK, Phases
  <1>2. LogIsValid
    BY EmptySeq DEF LogIsValid, Validate, Writer
  <1>3. AckedIsDurable
    BY EmptySeq, SubSeqEmpty DEF AckedIsDurable
  <1>4. MemoryIsTheLog /\ HandlesAgree
    BY NoHandleIsNoHandle DEF MemoryIsTheLog, HandlesAgree, Writer
  <1> QED
    BY <1>1, <1>2, <1>3, <1>4 DEF Inv

LEMMA InvNext == Inv /\ [Next]_vars => Inv'
  <1> SUFFICES ASSUME Inv, [Next]_vars PROVE Inv'
    OBVIOUS
  <1>1. CASE UNCHANGED vars
    BY <1>1 DEF vars, Inv, TypeOK, LogIsValid, MemoryIsTheLog, AckedIsDurable,
                HandlesAgree, Writer, Validate
  <1>2. ASSUME NEW h \in Handles, Open(h) PROVE Inv'
    BY <1>2, OpenStep
  <1>3. ASSUME NEW h \in Handles, Repair(h) PROVE Inv'
    BY <1>3, RepairStep
  <1>4. ASSUME NEW h \in Handles, RepairFails(h) PROVE Inv'
    BY <1>4, RepairFailsStep
  <1>5. ASSUME NEW h \in Handles, Create(h) PROVE Inv'
    BY <1>5, CreateStep
  <1>6. ASSUME NEW h \in Handles, NEW id \in EventIds, NEW body \in Payloads,
               AppendEvent(h, id, body)
        PROVE  Inv'
    BY <1>6, AppendEventStep
  <1>7. ASSUME NEW h \in Handles, Sync(h) PROVE Inv'
    BY <1>7, SyncStep
  <1>8. ASSUME NEW h \in Handles, SyncFails(h) PROVE Inv'
    BY <1>8, SyncFailsStep
  <1>9. ASSUME NEW h \in Handles, Close(h) PROVE Inv'
    BY <1>9, CloseStep
  <1>10. ASSUME NEW h \in Handles, Crash(h) PROVE Inv'
    BY <1>10, CrashStep
  <1>11. CASE PowerLoss
    BY <1>11, PowerLossStep
  <1> QED
    BY <1>1, <1>2, <1>3, <1>4, <1>5, <1>6, <1>7, <1>8, <1>9, <1>10, <1>11 DEF Next

LEMMA Invariance == Spec => []Inv
  BY InvInit, InvNext, PTL DEF Spec

\* The variables keep their types: sequence numbers, buffers and logs only ever
\* hold events that append() built.
THEOREM TypeCorrect == Spec => []TypeOK
  <1>1. Inv => TypeOK
    BY DEF Inv
  <1> QED
    BY <1>1, Invariance, PTL

\* The log on disk always passes _validate, for any number of handles, events,
\* failed writes, crashes and power losses.
THEOREM LogAlwaysValid == Spec => []LogIsValid
  <1>1. Inv => LogIsValid
    BY DEF Inv
  <1> QED
    BY <1>1, Invariance, PTL

\* A handle that may append has the log on disk in memory.
THEOREM MemoryAlwaysTheLog == Spec => []MemoryIsTheLog
  <1>1. Inv => MemoryIsTheLog
    BY DEF Inv
  <1> QED
    BY <1>1, Invariance, PTL

\* What append() acknowledged is never lost and never reordered.
THEOREM AckedAlwaysDurable == Spec => []AckedIsDurable
  <1>1. Inv => AckedIsDurable
    BY DEF Inv
  <1> QED
    BY <1>1, Invariance, PTL

\* One handle at most is not closed, and it holds the lock.
THEOREM HandlesAlwaysAgree == Spec => []HandlesAgree
  <1>1. Inv => HandlesAgree
    BY DEF Inv
  <1> QED
    BY <1>1, Invariance, PTL

-------------------------------------------------------------------------------
(* The store implements the durable log.                                   *)

\* What the refinement calls owned and late.
Owned == \E h \in Handles : phase[h] # "closed" /\ ~poisoned[h]
Late == \E h \in Handles : buffer[h] # NoEvent

\* Both are about the one handle that is not closed.
LEMMA OwnerIsOne ==
  ASSUME HandlesAgree, NEW h \in Handles, phase[h] # "closed"
  PROVE  (Owned <=> ~poisoned[h]) /\ (Late <=> buffer[h] # NoEvent)
  BY Alone DEF Owned, Late

\* An event behind the log is one more event.
LEMMA AppendGrows ==
  ASSUME TypeOK, NEW e \in Event, file' = Append(file, e),
         \A i \in DOMAIN file : file[i].id # e.id
  PROVE  Log!Grows
  <1>1. file' # <<>> /\ file'[Len(file')] = e
    BY AppendProperties, LenProperties, SMTT(30) DEF TypeOK
  <1> QED
    BY <1>1 DEF Log!Grows

\* An event that would fit the log is not in it.
LEMMA FittingIsNew ==
  ASSUME NEW s \in Seq(Event), NEW e \in Event, Validate(Append(s, e))
  PROVE  \A i \in DOMAIN s : s[i].id # e.id
  <1> DEFINE t == Append(s, e)
  <1>1. /\ Len(t) = Len(s) + 1 /\ t[Len(s) + 1] = e
        /\ \A i \in 1 .. Len(s) : t[i] = s[i]
        /\ t \in Seq(Event)
    BY AppendProperties
  <1>2. DOMAIN s = 1 .. Len(s) /\ DOMAIN t = 1 .. Len(s) + 1 /\ Len(s) \in Nat
    BY <1>1, LenProperties
  <1>3. Validate(t)
    OBVIOUS
  <1> HIDE DEF t
  <1> QED
    BY <1>1, <1>2, <1>3 DEF Validate

LEMMA LineIsWritten ==
  ASSUME Inv, NEW h \in Handles, NEW e \in Event, phase[h] # "closed", ~poisoned[h],
         \A i \in DOMAIN file : file[i].id # e.id, WriteLine(h, e)
  PROVE  Log!Write
  <1>1. Log!Grows
    BY AppendGrows DEF WriteLine, Inv
  <1>2. Owned
    BY DEF Owned
  <1>3. Owned'
    BY DEF Owned, WriteLine, Inv, TypeOK
  <1>4. UNCHANGED <<acked, Late>>
    BY DEF Late, WriteLine
  <1> QED
    BY <1>1, <1>2, <1>3, <1>4 DEF Log!Write, Owned, Late

\* The handle at work leaves the log as it is and may not append any more.
LEMMA OwnerGivesUp ==
  ASSUME Inv, Inv', NEW h \in Handles, phase[h] # "closed", ~poisoned[h],
         phase'[h] = "closed" \/ poisoned'[h], UNCHANGED <<file, acked>>,
         \A k \in Handles : k # h => UNCHANGED <<phase[k], poisoned[k]>>
  PROVE  Log!GiveUp
  <1>1. Owned
    BY DEF Owned
  <1>2. ~Owned'
    BY Alone DEF Owned, Inv
  <1>3. Late' \in BOOLEAN
    BY DEF Late
  <1> QED
    BY <1>1, <1>2, <1>3 DEF Log!GiveUp, Owned, Late

\* A log that was validated while everybody is closed has nothing left to land.
LEMMA LogIsOpened ==
  ASSUME Inv, NEW h \in Handles, Open(h)
  PROVE  Log!Open
  <1>1. \A k \in Handles : phase[k] = "closed" /\ buffer[k] = NoEvent
    BY NoHandleIsNoHandle DEF Inv, HandlesAgree, TypeOK, Unlocked, Open
  <1>2. ~Owned /\ ~Late
    BY <1>1 DEF Owned, Late
  <1>3. phase'[h] # "closed" /\ ~poisoned'[h]
    BY DEF Open, Inv, TypeOK
  <1>4. Owned' /\ UNCHANGED <<file, acked, Late>>
    BY <1>3 DEF Owned, Late, Open
  <1> QED
    BY <1>2, <1>4 DEF Log!Open, Owned, Late

LEMMA EventIsKept ==
  ASSUME Inv, Inv', NEW h \in Handles, Sync(h)
  PROVE  Log!Acknowledge
  <1>1. phase[h] = "syncing" /\ ~poisoned[h] /\ phase'[h] = "open" /\ ~poisoned'[h]
    BY DEF Sync, Inv, HandlesAgree, TypeOK
  <1>2. Owned /\ Owned' /\ UNCHANGED <<file, Late>>
    BY <1>1 DEF Owned, Late, Sync
  <1>3. Append(mem[h], file[Len(file)]) = file
    <2>1. file # <<>> /\ mem[h] = SubSeq(file, 1, Len(file) - 1)
      BY <1>1 DEF Inv, MemoryIsTheLog, Writer
    <2> QED
      BY <2>1, LastBehindRest DEF Inv, TypeOK
  <1>4. Len(acked') = Len(file)
    BY <1>3 DEF Sync
  <1> QED
    BY <1>2, <1>4 DEF Log!Acknowledge, Owned, Late

\* close() gives the log up, or settles the append that failed before.
LEMMA CloseImplements ==
  ASSUME Inv, Inv', NEW h \in Handles, Close(h)
  PROVE  Log!GiveUp \/ Log!Settle \/ UNCHANGED <<file, acked, Owned, Late>>
  <1>1. /\ phase[h] = "open" /\ phase'[h] = "closed" /\ buffer'[h] = NoEvent
        /\ UNCHANGED <<acked, poisoned>>
        /\ \A k \in Handles : k # h => UNCHANGED <<phase[k], buffer[k]>>
    BY DEF Close, Inv, TypeOK
  <1>2. ~Owned' /\ ~Late'
    BY <1>1, Alone DEF Owned, Late, Inv
  <1>3. CASE ~poisoned[h]
    <2>1. buffer[h] = NoEvent
      BY <1>3 DEF Inv, HandlesAgree
    <2>2. UNCHANGED file
      BY <2>1 DEF Close
    <2> QED
      BY <1>1, <1>3, <2>2, OwnerGivesUp
  <1>4. CASE poisoned[h] /\ buffer[h] = NoEvent
    <2>1. ~Owned /\ ~Late
      BY <1>1, <1>4, OwnerIsOne DEF Inv
    <2>2. UNCHANGED file
      BY <1>4 DEF Close
    <2> QED
      BY <1>1, <1>2, <2>1, <2>2 DEF Owned, Late
  <1>5. CASE poisoned[h] /\ buffer[h] # NoEvent
    <2>1. ~Owned /\ Late
      BY <1>1, <1>5, OwnerIsOne DEF Inv
    <2>2. Log!Grows \/ UNCHANGED file
      <3>1. buffer[h] \in Event /\ Validate(Append(file, buffer[h])) /\ TypeOK
        BY <1>5 DEF Inv, TypeOK, HandlesAgree
      <3>2. \A i \in DOMAIN file : file[i].id # buffer[h].id
        BY <3>1, FittingIsNew DEF TypeOK
      <3>3. file' = Append(file, buffer[h]) \/ UNCHANGED file
        BY DEF Close
      <3> QED
        BY <3>1, <3>2, <3>3, AppendGrows
    <2> QED
      BY <1>1, <1>2, <2>1, <2>2 DEF Log!Settle, Owned, Late
  <1> QED
    BY <1>3, <1>4, <1>5

\* A dying process gives the log up, or takes what might still have landed along.
LEMMA CrashImplements ==
  ASSUME Inv, Inv', NEW h \in Handles, Crash(h)
  PROVE  Log!GiveUp \/ Log!Settle \/ UNCHANGED <<file, acked, Owned, Late>>
  <1>1. /\ phase[h] # "closed" /\ phase'[h] = "closed" /\ buffer'[h] = NoEvent
        /\ UNCHANGED <<file, acked, poisoned>>
        /\ \A k \in Handles : k # h => UNCHANGED <<phase[k], buffer[k]>>
    BY DEF Crash, Inv, TypeOK
  <1>2. ~Owned' /\ ~Late'
    BY <1>1, Alone DEF Owned, Late, Inv
  <1>3. CASE ~poisoned[h]
    BY <1>1, <1>3, OwnerGivesUp
  <1>4. CASE poisoned[h]
    <2>1. ~Owned
      BY <1>1, <1>4, OwnerIsOne DEF Inv
    <2>2. CASE Late
      BY <1>1, <1>2, <2>1, <2>2 DEF Log!Settle, Owned, Late
    <2>3. CASE ~Late
      BY <1>1, <1>2, <2>1, <2>3 DEF Owned, Late
    <2> QED
      BY <2>2, <2>3
  <1> QED
    BY <1>3, <1>4

LEMMA LossIsLoss ==
  ASSUME Inv, PowerLoss
  PROVE  Log!Lose
  <1>1. PICK n \in synced .. Len(file) : file' = SubSeq(file, 1, n)
    BY DEF PowerLoss
  <1>2. n \in Len(acked) .. Len(file)
    BY <1>1, LenProperties DEF Inv, TypeOK, AckedIsDurable
  <1>3. ~Owned' /\ ~Late' /\ UNCHANGED acked
    BY DEF PowerLoss, Owned, Late
  <1> QED
    BY <1>1, <1>2, <1>3 DEF Log!Lose, Owned, Late

\* An append writes its line or fails; a failed one leaves the log to be given up.
LEMMA AppendImplements ==
  ASSUME Inv, Inv', NEW h \in Handles, NEW id \in EventIds, NEW body \in Payloads,
         AppendEvent(h, id, body)
  PROVE  Log!Write \/ Log!GiveUp
  <1> DEFINE e == NextEvent(h, id, body)
  <1>1. phase[h] = "open" /\ ~poisoned[h] /\ mem[h] = file
    BY DEF Inv, AppendEvent, MemoryIsTheLog, Writer
  <1>2. e \in Event /\ e.id = id
    BY <1>1, LenProperties DEF Inv, TypeOK, Event, NextEvent
  <1>3. \A i \in DOMAIN file : file[i].id # e.id
    BY <1>1, <1>2 DEF AppendEvent, Known
  <1>4. WriteLine(h, e) \/ WriteLineFails(h, e)
    BY DEF AppendEvent
  <1> HIDE DEF e
  <1>5. CASE WriteLine(h, e)
    BY <1>1, <1>2, <1>3, <1>5, LineIsWritten
  <1>6. CASE WriteLineFails(h, e)
    <2>1. /\ poisoned'[h] /\ UNCHANGED <<file, acked>>
          /\ \A k \in Handles : k # h => UNCHANGED <<phase[k], poisoned[k]>>
      BY <1>6 DEF WriteLineFails, Inv, TypeOK
    <2> QED
      BY <1>1, <2>1, OwnerGivesUp
  <1> QED
    BY <1>4, <1>5, <1>6

LEMMA CreateImplements ==
  ASSUME Inv, Inv', NEW h \in Handles, Create(h)
  PROVE  Log!Write \/ Log!GiveUp
  <1>1. phase[h] = "creating" /\ ~poisoned[h] /\ file = <<>>
    BY DEF Inv, Create, HandlesAgree
  <1>2. CreatedEvent \in Event /\ \A i \in DOMAIN file : file[i].id # CreatedEvent.id
    BY <1>1, EmptySeq DEF Event
  <1>3. CASE WriteLine(h, CreatedEvent)
    BY <1>1, <1>2, <1>3, LineIsWritten
  <1>4. CASE WriteLineFails(h, CreatedEvent)
    <2>1. /\ poisoned'[h] /\ UNCHANGED <<file, acked>>
          /\ \A k \in Handles : k # h => UNCHANGED <<phase[k], poisoned[k]>>
      BY <1>4 DEF WriteLineFails, Inv, TypeOK
    <2> QED
      BY <1>1, <2>1, OwnerGivesUp
  <1> QED
    BY <1>3, <1>4 DEF Create

LEMMA LogNext == Inv /\ Inv' /\ [Next]_vars => [Log!Next]_<<file, Len(acked), Owned, Late>>
  <1> SUFFICES ASSUME Inv, Inv', [Next]_vars
               PROVE  Log!Next \/ UNCHANGED <<file, acked, Owned, Late>>
    OBVIOUS
  <1>1. CASE UNCHANGED vars
    BY <1>1 DEF vars, Owned, Late
  <1>2. ASSUME NEW h \in Handles, Open(h) PROVE Log!Next
    BY <1>2, LogIsOpened DEF Log!Next
  <1>3. ASSUME NEW h \in Handles, Repair(h) PROVE UNCHANGED <<file, acked, Owned, Late>>
    <2>1. Owned /\ Owned'
      BY <1>3 DEF Owned, Repair, Inv, HandlesAgree, TypeOK
    <2> QED
      BY <1>3, <2>1 DEF Repair, Late
  <1>4. ASSUME NEW h \in Handles, RepairFails(h) PROVE Log!Next
    <2>1. /\ phase[h] = "repairing" /\ ~poisoned[h] /\ phase'[h] = "closed"
          /\ UNCHANGED <<file, acked>>
          /\ \A k \in Handles : k # h => UNCHANGED <<phase[k], poisoned[k]>>
      BY <1>4 DEF RepairFails, Inv, HandlesAgree, TypeOK
    <2> QED
      BY <2>1, OwnerGivesUp DEF Log!Next
  <1>5. ASSUME NEW h \in Handles, Create(h) PROVE Log!Next
    BY <1>5, CreateImplements DEF Log!Next
  <1>6. ASSUME NEW h \in Handles, NEW id \in EventIds, NEW body \in Payloads,
               AppendEvent(h, id, body)
        PROVE  Log!Next
    BY <1>6, AppendImplements DEF Log!Next
  <1>7. ASSUME NEW h \in Handles, Sync(h) PROVE Log!Next
    BY <1>7, EventIsKept DEF Log!Next
  <1>8. ASSUME NEW h \in Handles, SyncFails(h) PROVE Log!Next
    <2>1. /\ phase[h] = "syncing" /\ ~poisoned[h] /\ poisoned'[h]
          /\ UNCHANGED <<file, acked>>
          /\ \A k \in Handles : k # h => UNCHANGED <<phase[k], poisoned[k]>>
      BY <1>8 DEF SyncFails, Inv, HandlesAgree, TypeOK
    <2> QED
      BY <2>1, OwnerGivesUp DEF Log!Next
  <1>9. ASSUME NEW h \in Handles, Close(h)
        PROVE  Log!Next \/ UNCHANGED <<file, acked, Owned, Late>>
    BY <1>9, CloseImplements DEF Log!Next
  <1>10. ASSUME NEW h \in Handles, Crash(h)
         PROVE  Log!Next \/ UNCHANGED <<file, acked, Owned, Late>>
    BY <1>10, CrashImplements DEF Log!Next
  <1>11. CASE PowerLoss
    BY <1>11, LossIsLoss DEF Log!Next
  <1> QED
    BY <1>1, <1>2, <1>3, <1>4, <1>5, <1>6, <1>7, <1>8, <1>9, <1>10, <1>11 DEF Next

\* All handles together are one durable log: whatever is written, fails, crashes or
\* is flushed late, it grows by new events one at a time, keeps what append()
\* acknowledged, and is settled before anybody opens it again.
THEOREM ImplementsLog == Spec => LogSpec
  <1>1. Init => Log!Init
    BY EmptySeq DEF Init, Log!Init
  <1>2. Inv /\ Inv' /\ [Next]_vars => [Log!Next]_Log!durable
    BY LogNext DEF Log!durable, Owned, Late
  <1> QED
    BY <1>1, <1>2, Invariance, PTL DEF Spec, LogSpec, Log!Spec

===============================================================================
