------------------------------ MODULE HooksProofs ------------------------------
(***************************************************************************)
(* The registry of hooks and its dispatch for any names, priorities and    *)
(* number of calls: hooks always have one order, frozen positions stay as  *)
(* they are, layers that were entered are left in reverse, and a callback  *)
(* that fails leaves nothing behind.                                       *)
(*                                                                         *)
(* Inv is about the registry alone.  WellFormed says of a set of hooks,    *)
(* registered now or when the dispatch began, what its order rests on.     *)
(* Dispatched says what holds at each place of a dispatch.                 *)
(***************************************************************************)
EXTENDS Hooks, FiniteSetTheorems, SequenceTheorems, NaturalsInduction,
        WellFoundedInduction, TLAPS

\* The numbers that are given out.
Counted ==
  /\ sequence \in Nat /\ pairs \in Nat /\ calls \in 0 .. MaxCalls /\ pairs <= calls
  /\ \A h \in hooks : h.sequence \in Nat

\* A pair's name carries a number that has been given out.
PairsAreOld ==
  \A h \in hooks :
    h.name \in Names \/ \E k \in 0 .. pairs - 1, phase \in {"pre", "post"} : h.name = <<"pair", k, phase>>

Inv == Counted /\ PairsAreOld /\ OrderIsTotal

\* The halves of a new pair.
LEMMA HalvesOf ==
  ASSUME NEW phase \in {"pre", "post"}, NEW seq, NEW guard
  PROVE  /\ Half(phase, seq, guard).name = <<"pair", pairs, phase>>
         /\ Half(phase, seq, guard).sequence = seq
         /\ Half(phase, seq, guard).position = phase
  BY DEF Half, NewHook

\* Registering one more hook under a new name, with the next number.
LEMMA OneMore ==
  ASSUME Counted, OrderIsTotal, NEW new, new.sequence = sequence,
         \A h \in hooks : h.name # new.name,
         hooks' = hooks \cup {new}, sequence' = sequence + 1
  PROVE  OrderIsTotal'
  BY DEF Counted, OrderIsTotal

LEMMA RegisterStep ==
  ASSUME Inv, NEW name \in Names, NEW position, NEW priority, NEW guard, NEW builtin,
         Register(name, position, priority, guard, builtin)
  PROVE  Inv'
  <1> DEFINE new(s) == NewHook(name, position, priority, s, guard, builtin)
  <1>1. \A s : new(s).name = name /\ new(s).sequence = s
    BY DEF NewHook
  <1>2. UNCHANGED pairs /\ calls' \in 0 .. MaxCalls /\ pairs' <= calls'
    BY BoundsAreNaturals DEF Register, Call, Inv, Counted
  <1>3. CASE Named(name) = {}
    <2>1. hooks' = hooks \cup {new(sequence)} /\ sequence' = sequence + 1
      BY <1>3 DEF Register
    <2>2. \A h \in hooks : h.name # name
      BY <1>3 DEF Named
    <2> HIDE DEF new
    <2>3. OrderIsTotal'
      BY <1>1, <2>1, <2>2, OneMore DEF Inv
    <2>4. Counted' /\ PairsAreOld'
      BY <1>1, <1>2, <2>1 DEF Inv, Counted, PairsAreOld
    <2> QED
      BY <2>3, <2>4 DEF Inv
  <1>4. CASE Named(name) # {}
    <2>1. PICK h \in Named(name) : hooks' = (hooks \ {h}) \cup {new(h.sequence)}
      BY <1>4 DEF Register
    <2>2. h \in hooks /\ h.name = name /\ sequence' = sequence
      BY <1>4, <2>1 DEF Register, Named
    <2> HIDE DEF new
    <2>3. OrderIsTotal'
      BY <1>1, <2>1, <2>2 DEF Inv, OrderIsTotal
    <2>4. Counted' /\ PairsAreOld'
      BY <1>1, <1>2, <2>1, <2>2 DEF Inv, Counted, PairsAreOld
    <2> QED
      BY <2>3, <2>4 DEF Inv
  <1> QED
    BY <1>3, <1>4

LEMMA AddStep ==
  ASSUME Inv, NEW hasPre, NEW hasPost \in BOOLEAN, NEW guard, Add(hasPre, hasPost, guard)
  PROVE  Inv'
  <1> DEFINE pre == Half("pre", sequence, guard)
             post == Half("post", sequence + 1, guard)
  <1>1. /\ pre.name = <<"pair", pairs, "pre">> /\ pre.sequence = sequence
        /\ post.name = <<"pair", pairs, "post">> /\ post.sequence = sequence + 1
    BY HalvesOf
  <1>2. /\ pairs' = pairs + 1 /\ calls' = calls + 1 /\ calls' \in 0 .. MaxCalls
        /\ pairs' \in Nat /\ pairs' <= calls' /\ pairs \in 0 .. MaxCalls
    BY BoundsAreNaturals DEF Add, Call, Inv, Counted
  <1>3. \A h \in hooks, phase \in {"pre", "post"} : h.name # <<"pair", pairs, phase>>
    <2> SUFFICES ASSUME NEW h \in hooks, NEW phase \in {"pre", "post"},
                        h.name = <<"pair", pairs, phase>>
                 PROVE  FALSE
      OBVIOUS
    <2>1. h.name \notin Names
      BY <1>2, NamesAreNotPairs DEF PairNames
    <2>2. PICK k \in 0 .. pairs - 1, half \in {"pre", "post"} : h.name = <<"pair", k, half>>
      BY <2>1 DEF Inv, PairsAreOld
    <2> QED
      BY <1>2, <2>2
  <1>4. /\ hooks' = hooks \cup (IF hasPost THEN {pre, post} ELSE {pre})
        /\ sequence' = sequence + (IF hasPost THEN 2 ELSE 1)
    BY DEF Add
  <1> HIDE DEF pre, post
  <1>5. OrderIsTotal'
    BY <1>1, <1>3, <1>4 DEF Inv, Counted, OrderIsTotal
  <1>6. Counted'
    BY <1>1, <1>2, <1>4 DEF Inv, Counted
  <1>7. PairsAreOld'
    <2>1. \A h \in hooks : h.name \in Names \/ \E k \in 0 .. pairs' - 1, phase \in {"pre", "post"} :
                                                  h.name = <<"pair", k, phase>>
      BY <1>2 DEF Inv, PairsAreOld
    <2>2. pairs \in 0 .. pairs' - 1
      BY <1>2
    <2> QED
      BY <1>1, <1>4, <2>1, <2>2 DEF PairsAreOld
  <1> QED
    BY <1>5, <1>6, <1>7 DEF Inv

LEMMA OtherStep ==
  ASSUME Inv, UNCHANGED <<hooks, sequence, pairs, calls>>
  PROVE  Inv'
  BY DEF Inv, Counted, PairsAreOld, OrderIsTotal

\* A dispatch changes no registration.
LEMMA DispatchChangesNothing ==
  ASSUME Dispatch \/ UNCHANGED vars
  PROVE  UNCHANGED registry
  BY DEF Dispatch, vars, BeginScope, PreReturns, PreRaises, PreCancelled, BodyEnds,
     PostSkipped, PostRuns, PostsCut, EndScope, BeginRun, RunReturns, RunRaises, EndRun

LEMMA InvInit == Init => Inv
  BY BoundsAreNaturals DEF Init, Inv, Counted, PairsAreOld, OrderIsTotal

LEMMA InvNext == Inv /\ [Next]_vars => Inv'
  <1> SUFFICES ASSUME Inv, [Next]_vars PROVE Inv'
    OBVIOUS
  <1>1. ASSUME NEW name \in Names, NEW position, NEW priority, NEW guard, NEW builtin,
               Register(name, position, priority, guard, builtin)
        PROVE  Inv'
    BY <1>1, RegisterStep
  <1>2. ASSUME NEW hasPre, NEW hasPost \in BOOLEAN, NEW guard, Add(hasPre, hasPost, guard)
        PROVE  Inv'
    BY <1>2, AddStep
  <1>3. ASSUME NEW positions, Freeze(positions) PROVE Inv'
    BY <1>3, OtherStep DEF Freeze
  <1>4. CASE Dispatch \/ UNCHANGED vars
    BY <1>4, DispatchChangesNothing, OtherStep DEF registry
  <1> QED
    BY <1>1, <1>2, <1>3, <1>4 DEF Next, Changes

-------------------------------------------------------------------------------
(* Sets of hooks and their queues.                                         *)

\* The half of a pair: pairs are numbered, named by their numbers, and unwind.
IsHalf(h) ==
  /\ h.pair \in 0 .. MaxCalls /\ h.position \in {"pre", "post"}
  /\ h.name = <<"pair", h.pair, h.position>>
  /\ h.priority = 0 /\ h.reverse = (h.position = "post")

\* What holds of the registered hooks, now and when a dispatch began.
WellFormed(H) ==
  /\ H \subseteq Hook /\ IsFiniteSet(H)
  /\ \A h, g \in H : h # g => h.name # g.name /\ h.sequence # g.sequence
  /\ \A h \in H : IF h.pair = NoPair THEN ~h.reverse ELSE IsHalf(h)
  /\ \A g \in H : g.pair # NoPair /\ g.position = "post" =>
       \E h \in H : h.pair = g.pair /\ h.position = "pre" /\ g.sequence = h.sequence + 1

Sorted(s) == \A i, j \in DOMAIN s : i < j => Precedes(s[i], s[j])

\* A sequence is the queue of a position: all its hooks, in their order.
IsQueue(s, H, position) ==
  /\ s \in Seq({h \in H : h.position = position})
  /\ Sorted(s)
  /\ \A h \in H : h.position = position => \E i \in DOMAIN s : s[i] = h

-------------------------------------------------------------------------------
(* The dispatch.                                                           *)

ForScope(e) == IsQueue(e.pres, e.known, "pre") /\ IsQueue(e.posts, e.known, "post")

ForRun(e) == IsQueue(e.pres, e.known, "build") /\ e.posts = <<>>

Queues(e) ==
  /\ ForScope(e) \/ ForRun(e)
  /\ e.phase \in {"pres", "posts"} => ForScope(e)
  /\ e.phase = "run" => ForRun(e)

\* A hook comes before another in a dispatch: pre hooks before post hooks.
Before(h, g) ==
  \/ h.position = "pre" /\ g.position = "post"
  \/ h.position = g.position /\ Precedes(h, g)

\* The hooks before the present place of a queue.
Behind(queue, at) == {queue[k] : k \in {k \in DOMAIN queue : k < at}}

Calls(e) == {e.called[i] : i \in DOMAIN e.called}

\* The callbacks that were called are in order, and those that returned were called.
CalledInOrder(e) ==
  /\ Calls(e) \subseteq e.known /\ e.passed \subseteq Calls(e)
  /\ \A i, j \in DOMAIN e.called : i < j => Before(e.called[i], e.called[j])

\* They are in front of the present place.
Reached(e) ==
  /\ e.phase \in {"pres", "run"} => Calls(e) \subseteq Behind(e.pres, e.at)
  /\ e.phase = "posts" =>
       \A h \in Calls(e) : h.position = "pre" \/ h \in Behind(e.posts, e.at)

\* The scope got past a pre hook of the pair.
Entered(e, p) == \E h \in e.passed : h.position = "pre" /\ h.pair = p

EnteredIsKnown(e) ==
  e.phase \in {"pres", "posts"} =>
    \A p \in Nat : p \in e.entered <=> Entered(e, p)

\* Of the post hooks before a place, those ran that had to.
UnwoundUpTo(e, at) ==
  \A i \in DOMAIN e.posts : i < at =>
    (e.posts[i] \in Calls(e) <=> \/ e.posts[i].pair = NoPair
                                \/ Entered(e, e.posts[i].pair))

Unwinding(e) ==
  /\ e.phase = "pres" => ~e.cut
  /\ e.phase = "posts" /\ ~e.cut => UnwoundUpTo(e, e.at)
  /\ e.phase = "idle" /\ ~e.cut => UnwoundUpTo(e, Len(e.posts) + 1)

\* The places of the callbacks of run() that returned.
Done(e) == {i \in DOMAIN e.called : e.called[i].position = "build" /\ e.called[i] \in e.passed}

Rank(places, i) == Cardinality({j \in places : j <= i})

Shows(data, called, places) ==
  /\ Len(data) = Cardinality(places)
  /\ \A i \in places : data[Rank(places, i)] = called[i].callback

Data(e) ==
  /\ e.phase \in {"pres", "posts"} => e.data = <<>> /\ Done(e) = {}
  /\ Shows(e.data, e.called, Done(e))

Dispatched(e) ==
  /\ e \in Dispatches /\ WellFormed(e.known) /\ e.at > 0
  /\ Queues(e) /\ CalledInOrder(e) /\ Reached(e)
  /\ EnteredIsKnown(e) /\ Unwinding(e) /\ Data(e)

-------------------------------------------------------------------------------
(* Every position has a queue: a finite set of hooks can be sorted.        *)

\* A set of natural numbers that is not empty has a least element.
LEMMA LeastNumber ==
  ASSUME NEW S, S \subseteq Nat, S # {}
  PROVE  \E n \in S : \A m \in S : n <= m
<1> DEFINE R == {ss \in Nat \X Nat : ss[1] < ss[2]}
<1>1. IsWellFoundedOn(R, Nat)
  BY ONLY NatLessThanWellFounded, Zenon DEF OpToRel
<1> HIDE DEF R
<1>2. PICK n \in S : \A m \in S : <<m, n>> \notin R
  BY <1>1, WFMin
<1>3. \A m \in S : ~ (m < n)
  BY <1>2 DEF R
<1> QED
  BY <1>3

\* Place is a number, another one for every hook.
LEMMA PlacesDiffer ==
  ASSUME NEW H, WellFormed(H), NEW h \in H, NEW g \in H
  PROVE  /\ h.priority \in Int /\ Place(h) \in Int
         /\ Place(h) = Place(g) => h = g
<1>1. /\ h.priority \in Int /\ h.sequence \in Nat /\ g.sequence \in Nat
      /\ h.reverse \in BOOLEAN /\ g.reverse \in BOOLEAN
  <2>1. h \in Hook /\ g \in Hook
    BY DEF WellFormed
  <2>2. \A x \in Hook : x.priority \in Priorities \cup {0} /\ x.sequence \in Nat /\ x.reverse \in BOOLEAN
    BY DEF Hook
  <2>3. Priorities \cup {0} \subseteq Int
    BY PrioritiesAreIntegers
  <2> QED
    BY <2>1, <2>2, <2>3
<1>2. h.sequence = g.sequence => h = g
  BY DEF WellFormed
<1>3. ASSUME NEW x \in H, x.reverse PROVE x.sequence # 0
  <2>1. x.pair # NoPair /\ x.position = "post"
    BY <1>3 DEF WellFormed, IsHalf
  <2>2. PICK y \in H : x.sequence = y.sequence + 1
    BY <2>1 DEF WellFormed
  <2>3. y.sequence \in Nat
    BY DEF WellFormed, Hook
  <2> QED
    BY <2>2, <2>3
<1> QED
  BY <1>1, <1>2, <1>3 DEF Place

\* Precedes orders a set of hooks.
LEMMA PrecedesOrders ==
  ASSUME NEW H, WellFormed(H), NEW h \in H, NEW g \in H
  PROVE  /\ ~ Precedes(h, h)
         /\ h # g => Precedes(h, g) \/ Precedes(g, h)
         /\ \A k \in H : Precedes(h, g) /\ Precedes(g, k) => Precedes(h, k)
<1>1. /\ h.priority \in Int /\ Place(h) \in Int /\ g.priority \in Int /\ Place(g) \in Int
      /\ Place(h) = Place(g) => h = g
  BY PlacesDiffer
<1>2. \A k \in H : k.priority \in Int /\ Place(k) \in Int
  BY PlacesDiffer
<1> QED
  BY <1>1, <1>2 DEF Precedes

\* A hook can be put in its place in a sorted sequence of others.
LEMMA Inserted ==
  ASSUME NEW H, WellFormed(H), NEW Q, Q \subseteq H, NEW x \in H, x \notin Q,
         NEW n \in Nat, NEW s \in [1 .. n -> Q],
         \A i, j \in 1 .. n : i < j => Precedes(s[i], s[j])
  PROVE  \E t \in [1 .. (n + 1) -> Q \cup {x}] :
           \A i, j \in 1 .. (n + 1) : i < j => Precedes(t[i], t[j])
<1> DEFINE later == {i \in 1 .. n : Precedes(x, s[i])} \cup {n + 1}
<1>1. later \subseteq 1 .. (n + 1) /\ later \subseteq Nat /\ later # {}
  OBVIOUS
<1>2. PICK p \in later : \A m \in later : p <= m
  BY <1>1, LeastNumber
<1>3. p \in 1 .. (n + 1)
  BY <1>1
<1> DEFINE t == [i \in 1 .. (n + 1) |-> IF i < p THEN s[i] ELSE IF i = p THEN x ELSE s[i - 1]]
<1>4. \A i \in 1 .. (n + 1) :
        /\ i < p => i \in 1 .. n /\ t[i] = s[i]
        /\ i = p => t[i] = x
        /\ i > p => i - 1 \in 1 .. n /\ i - 1 >= p /\ t[i] = s[i - 1]
  BY <1>3
<1>5. t \in [1 .. (n + 1) -> Q \cup {x}]
  BY <1>3
<1>6. \A i \in 1 .. n : s[i] \in H /\ s[i] # x
  OBVIOUS
<1>7. \A i \in 1 .. n : i < p => Precedes(s[i], x)
  <2> SUFFICES ASSUME NEW i \in 1 .. n, i < p PROVE Precedes(s[i], x)
    OBVIOUS
  <2>1. i \notin later
    BY <1>2, <1>3
  <2>2. ~ Precedes(x, s[i])
    BY <2>1
  <2> QED
    BY <1>6, <2>2, PrecedesOrders
<1>8. \A i \in 1 .. n : i >= p => Precedes(x, s[i])
  <2> SUFFICES ASSUME NEW i \in 1 .. n, i >= p PROVE Precedes(x, s[i])
    OBVIOUS
  <2>1. p \in 1 .. n /\ Precedes(x, s[p])
    BY <1>2, <1>3
  <2>2. i # p => Precedes(s[p], s[i])
    BY <2>1
  <2>3. s[p] \in H /\ s[i] \in H
    BY <1>6, <2>1
  <2> QED
    BY <2>1, <2>2, <2>3, PrecedesOrders, Zenon
<1> HIDE DEF t
<1>9. ASSUME NEW i \in 1 .. (n + 1), NEW j \in 1 .. (n + 1), i < j
      PROVE  Precedes(t[i], t[j])
  <2>1. CASE j < p
    <3>1. i < p
      BY <1>3, <1>9, <2>1
    <3> QED
      BY <1>4, <1>9, <2>1, <3>1
  <2>2. CASE j = p
    BY <1>4, <1>7, <1>9, <2>2
  <2>3. CASE i < p /\ j > p
    <3>1. i \in 1 .. n /\ j - 1 \in 1 .. n /\ i < j - 1 /\ t[i] = s[i] /\ t[j] = s[j - 1]
      BY <1>3, <1>4, <2>3
    <3> QED
      BY <3>1
  <2>4. CASE i = p /\ j > p
    BY <1>4, <1>8, <2>4
  <2>5. CASE i > p
    <3>1. j > p
      BY <1>3, <1>9, <2>5
    <3>2. i - 1 \in 1 .. n /\ j - 1 \in 1 .. n /\ t[i] = s[i - 1] /\ t[j] = s[j - 1]
      BY <1>4, <2>5, <3>1
    <3>3. i - 1 < j - 1
      BY <1>9
    <3> QED
      BY <3>2, <3>3
  <2> QED
    BY <1>3, <1>9, <2>1, <2>2, <2>3, <2>4, <2>5
<1> QED
  BY <1>5, <1>9

\* Sorted sequences exist for every number of hooks: there is no least number
\* for which one is missing.
LEMMA SortedExists ==
  ASSUME NEW H, WellFormed(H), NEW Q, Q \subseteq H
  PROVE  \E s \in [1 .. Cardinality(Q) -> Q] :
           \A i, j \in 1 .. Cardinality(Q) : i < j => Precedes(s[i], s[j])
<1> DEFINE Sortable(T, n) ==
             \E s \in [1 .. n -> T] : \A i, j \in 1 .. n : i < j => Precedes(s[i], s[j])
           S == {n \in Nat : \E T \in SUBSET H : Cardinality(T) = n /\ ~ Sortable(T, n)}
<1> HIDE DEF Sortable
<1>1. ASSUME NEW T \in SUBSET H PROVE IsFiniteSet(T) /\ Cardinality(T) \in Nat
  BY FS_Subset, FS_CardinalityType DEF WellFormed
<1>2. CASE S # {}
  <2>1. PICK n \in S : \A m \in S : n <= m
    BY <1>2, LeastNumber
  <2>2. PICK T \in SUBSET H : Cardinality(T) = n /\ ~ Sortable(T, n)
    BY <2>1
  <2>3. CASE T = {}
    <3>1. n = 0
      BY <2>2, <2>3, FS_EmptySet
    <3>2. [i \in {} |-> i] \in [1 .. 0 -> T]
      OBVIOUS
    <3>3. Sortable(T, 0)
      BY <3>2 DEF Sortable
    <3> QED
      BY <2>2, <3>1, <3>3
  <2>4. CASE T # {}
    <3>1. PICK x \in T : TRUE
      BY <2>4
    <3>2. Cardinality(T \ {x}) = n - 1 /\ n - 1 \in Nat
      BY <1>1, <2>2, FS_RemoveElement, FS_CardinalityType
    <3>3. n - 1 \notin S
      BY <2>1, <3>2
    <3>4. Sortable(T \ {x}, n - 1)
      BY <3>2, <3>3
    <3> DEFINE R == T \ {x}
               m == n - 1
    <3>5. x \in H /\ x \notin R /\ R \subseteq H /\ R \cup {x} = T /\ m \in Nat /\ m + 1 = n
      BY <2>1, <3>2
    <3>6. PICK s \in [1 .. m -> R] : \A i, j \in 1 .. m : i < j => Precedes(s[i], s[j])
      BY <3>4 DEF Sortable
    <3> HIDE DEF R, m
    <3>7. \E t \in [1 .. (m + 1) -> R \cup {x}] :
            \A i, j \in 1 .. (m + 1) : i < j => Precedes(t[i], t[j])
      BY <3>5, <3>6, Inserted
    <3>8. Sortable(T, n)
      BY <3>5, <3>7 DEF Sortable
    <3> QED
      BY <2>2, <3>8
  <2> QED
    BY <2>3, <2>4
<1>3. CASE S = {}
  BY <1>1, <1>3 DEF Sortable
<1> QED
  BY <1>2, <1>3

\* entries() returns all hooks of its position, sorted.
LEMMA EntriesAreQueue ==
  ASSUME WellFormed(hooks), NEW position
  PROVE  IsQueue(Entries(position), hooks, position)
<1> DEFINE Q == {h \in hooks : h.position = position}
           n == Cardinality(Q)
           s == Entries(position)
           InPlace(t) == \A i, j \in 1 .. n : i < j => Precedes(t[i], t[j])
<1>1. Q \subseteq hooks /\ IsFiniteSet(Q) /\ n \in Nat
  BY FS_Subset, FS_CardinalityType DEF WellFormed
<1>2. \E t \in [1 .. n -> Q] : InPlace(t)
  BY <1>1, SortedExists
<1>3. s = CHOOSE t \in [1 .. n -> Q] : InPlace(t)
  BY DEF Entries
<1> HIDE DEF s, n, Q
<1>4. s \in [1 .. n -> Q] /\ InPlace(s)
  BY <1>2, <1>3
<1>5. s \in Seq(Q) /\ DOMAIN s = 1 .. n
  BY <1>1, <1>4
<1>6. \A i, j \in 1 .. n : s[i] = s[j] => i = j
  <2> SUFFICES ASSUME NEW i \in 1 .. n, NEW j \in 1 .. n, s[i] = s[j], i < j PROVE FALSE
    BY <1>1
  <2>1. s[i] \in hooks /\ Precedes(s[i], s[i])
    BY <1>1, <1>4
  <2> QED
    BY <2>1, PrecedesOrders
<1>7. s \in Injection(1 .. n, Q)
  BY <1>4, <1>6 DEF Injection, IsInjective
<1>8. IsFiniteSet(1 .. n) /\ Cardinality(1 .. n) = n
  BY <1>1, FS_Interval
<1>9. s \in Surjection(1 .. n, Q)
  BY <1>1, <1>7, <1>8, FS_Injection DEF n
<1>10. \A h \in Q : \E i \in 1 .. n : s[i] = h
  BY <1>9 DEF Surjection
<1> QED
  BY <1>4, <1>5, <1>10 DEF IsQueue, Sorted, Q, s

-------------------------------------------------------------------------------
(* The registry keeps its form.                                            *)

LEMMA NewHookIs ==
  ASSUME NEW name \in Names, NEW position \in Positions, NEW priority \in Priorities,
         NEW seq \in Nat, NEW guard \in BOOLEAN, NEW builtin \in BOOLEAN,
         calls + 1 \in 1 .. MaxCalls
  PROVE  LET new == NewHook(name, position, priority, seq, guard, builtin) IN
         /\ new \in Hook /\ new.name = name /\ new.sequence = seq
         /\ new.pair = NoPair /\ ~ new.reverse
  BY DEF NewHook, Hook

LEMMA NameOfHalf ==
  ASSUME WellFormed(hooks), NEW h \in hooks, h.name \in Names
  PROVE  h.pair = NoPair
<1> SUFFICES ASSUME h.pair # NoPair PROVE FALSE
  OBVIOUS
<1>1. IsHalf(h)
  BY DEF WellFormed
<1>2. h.name \in PairNames
  BY <1>1 DEF IsHalf, PairNames
<1> QED
  BY <1>2, NamesAreNotPairs

LEMMA RegisterKeepsForm ==
  ASSUME Inv, Inv', WellFormed(hooks),
         NEW name \in Names, NEW position \in Positions, NEW priority \in Priorities,
         NEW guard \in BOOLEAN, NEW builtin \in BOOLEAN,
         Register(name, position, priority, guard, builtin)
  PROVE  WellFormed(hooks')
<1> DEFINE new(s) == NewHook(name, position, priority, s, guard, builtin)
<1>1. calls + 1 \in 1 .. MaxCalls
  BY BoundsAreNaturals DEF Register, Call, Inv, Counted
<1>2. PICK gone \in SUBSET hooks, seq \in Nat :
        hooks' = (hooks \ gone) \cup {new(seq)} /\ \A h \in gone : h.name = name
  <2>1. CASE Named(name) = {}
    <3>1. hooks' = (hooks \ {}) \cup {new(sequence)} /\ sequence \in Nat
      BY <2>1 DEF Register, Inv, Counted
    <3>2. {} \in SUBSET hooks /\ \A h \in {} : h.name = name
      OBVIOUS
    <3> HIDE DEF new
    <3> QED
      BY <3>1, <3>2
  <2>2. CASE Named(name) # {}
    <3>1. PICK h \in Named(name) : hooks' = (hooks \ {h}) \cup {new(h.sequence)}
      BY <2>2 DEF Register
    <3>2. {h} \in SUBSET hooks /\ h.sequence \in Nat /\ h.name = name
      BY DEF Named, Inv, Counted
    <3> HIDE DEF new
    <3> QED
      BY <3>1, <3>2
  <2> QED
    BY <2>1, <2>2
<1>3. new(seq) \in Hook /\ new(seq).pair = NoPair /\ ~ new(seq).reverse
  BY <1>1, NewHookIs
<1> HIDE DEF new
<1>4. \A h \in gone : h.pair = NoPair
  BY <1>2, NameOfHalf
<1>5. hooks' \subseteq Hook /\ IsFiniteSet(hooks')
  <2>1. IsFiniteSet(hooks \ gone)
    BY FS_Subset DEF WellFormed
  <2>2. IsFiniteSet((hooks \ gone) \cup {new(seq)})
    BY <2>1, FS_AddElement
  <2> QED
    BY <1>2, <1>3, <2>2 DEF WellFormed
<1>6. \A h, g \in hooks' : h # g => h.name # g.name /\ h.sequence # g.sequence
  BY DEF Inv, OrderIsTotal
<1>7. \A h \in hooks' : IF h.pair = NoPair THEN ~h.reverse ELSE IsHalf(h)
  BY <1>2, <1>3 DEF WellFormed
<1>8. ASSUME NEW g \in hooks', g.pair # NoPair, g.position = "post"
      PROVE  \E h \in hooks' : h.pair = g.pair /\ h.position = "pre" /\ g.sequence = h.sequence + 1
  <2>1. g \in hooks
    BY <1>2, <1>3, <1>8
  <2>2. PICK h \in hooks : h.pair = g.pair /\ h.position = "pre" /\ g.sequence = h.sequence + 1
    BY <1>8, <2>1 DEF WellFormed
  <2>3. h \in hooks'
    BY <1>2, <1>4, <1>8, <2>2
  <2> QED
    BY <2>2, <2>3
<1> QED
  BY <1>5, <1>6, <1>7, <1>8 DEF WellFormed

LEMMA OtherPair ==
  ASSUME NEW h \in Hook, NEW p \in Nat
  PROVE  [h EXCEPT !.pair = p] \in Hook
  BY DEF Hook

LEMMA OtherReverse ==
  ASSUME NEW h \in Hook, NEW b \in BOOLEAN
  PROVE  [h EXCEPT !.reverse = b] \in Hook
  BY DEF Hook

LEMMA AddKeepsForm ==
  ASSUME Inv, Inv', WellFormed(hooks), NEW hasPre, NEW hasPost \in BOOLEAN,
         NEW guard \in BOOLEAN, Add(hasPre, hasPost, guard)
  PROVE  WellFormed(hooks')
<1> DEFINE pre == Half("pre", sequence, guard)
           post == Half("post", sequence + 1, guard)
<1>1. calls + 1 \in 1 .. MaxCalls /\ pairs \in 0 .. MaxCalls /\ sequence \in Nat
  BY BoundsAreNaturals DEF Add, Call, Inv, Counted
<1>2. <<"pair", pairs, "pre">> \in PairNames /\ <<"pair", pairs, "post">> \in PairNames
  BY <1>1 DEF PairNames
<1>3. pairs # NoPair /\ pairs \in Nat
  BY <1>1, NoneIsNoNumber
<1>4. pre \in Hook /\ post \in Hook
  <2>1. ASSUME NEW phase \in {"pre", "post"}, NEW seq \in Nat
        PROVE  Half(phase, seq, guard) \in Hook
    <3> DEFINE new == NewHook(<<"pair", pairs, phase>>, phase, 0, seq, guard, FALSE)
    <3>1. <<"pair", pairs, phase>> \in Names \cup PairNames /\ phase \in Positions
      BY <1>2 DEF Positions
    <3>2. new \in Hook
      BY <1>1, <3>1 DEF NewHook, Hook
    <3> HIDE DEF new
    <3>3. [new EXCEPT !.pair = pairs] \in Hook
      BY <1>3, <3>2, OtherPair
    <3>4. [[new EXCEPT !.pair = pairs] EXCEPT !.reverse = (phase = "post")] \in Hook
      BY <3>3, OtherReverse
    <3> QED
      BY <3>4 DEF Half, new
  <2> QED
    BY <1>1, <2>1
<1>5. /\ pre.pair = pairs /\ pre.position = "pre" /\ pre.priority = 0 /\ pre.reverse = FALSE
      /\ pre.name = <<"pair", pairs, "pre">> /\ pre.sequence = sequence
      /\ post.pair = pairs /\ post.position = "post" /\ post.priority = 0 /\ post.reverse = TRUE
      /\ post.name = <<"pair", pairs, "post">> /\ post.sequence = sequence + 1
  BY DEF Half, NewHook
<1>6. hooks' = hooks \cup {pre} \cup (IF hasPost THEN {post} ELSE {})
  BY DEF Add
<1> HIDE DEF pre, post
<1>7. IsHalf(pre) /\ IsHalf(post)
  BY <1>1, <1>5 DEF IsHalf
<1>8. hooks' \subseteq Hook /\ IsFiniteSet(hooks')
  <2>1. IsFiniteSet(hooks \cup {pre})
    BY FS_AddElement DEF WellFormed
  <2>2. IsFiniteSet((hooks \cup {pre}) \cup {post})
    BY <2>1, FS_AddElement
  <2> QED
    BY <1>4, <1>6, <2>1, <2>2 DEF WellFormed
<1>9. \A h, g \in hooks' : h # g => h.name # g.name /\ h.sequence # g.sequence
  BY DEF Inv, OrderIsTotal
<1>10. \A h \in hooks' : IF h.pair = NoPair THEN ~h.reverse ELSE IsHalf(h)
  BY <1>3, <1>5, <1>6, <1>7 DEF WellFormed
<1>11. ASSUME NEW g \in hooks', g.pair # NoPair, g.position = "post"
       PROVE  \E h \in hooks' : h.pair = g.pair /\ h.position = "pre" /\ g.sequence = h.sequence + 1
  <2>1. CASE g \in hooks
    BY <1>6, <1>11, <2>1 DEF WellFormed
  <2>2. CASE g = post
    BY <1>5, <1>6, <2>2
  <2> QED
    BY <1>5, <1>6, <1>11, <2>1, <2>2
<1> QED
  BY <1>8, <1>9, <1>10, <1>11 DEF WellFormed

-------------------------------------------------------------------------------
(* One more callback.                                                      *)

LEMMA DispatchTyped ==
  ASSUME NEW e \in Dispatches
  PROVE  /\ e.at \in Nat /\ e.pres \in Seq(Hook) /\ e.posts \in Seq(Hook)
         /\ e.entered \in SUBSET Nat /\ e.data \in Seq(1 .. MaxCalls)
         /\ e.called \in Seq(Hook) /\ e.passed \in SUBSET Hook /\ e.known \in SUBSET Hook
         /\ e.count \in Nat /\ e.raising \in BOOLEAN /\ e.cut \in BOOLEAN
  BY DEF Dispatches

\* No callback comes before itself.
LEMMA BeforeDiffers ==
  ASSUME NEW H, WellFormed(H), NEW h \in H, Before(h, h)
  PROVE  FALSE
  BY PrecedesOrders DEF Before

LEMMA CallsOfAppended ==
  ASSUME NEW e \in Dispatches, NEW f, NEW h \in Hook, f.called = Append(e.called, h)
  PROVE  /\ Calls(f) = Calls(e) \cup {h}
         /\ Len(f.called) = Len(e.called) + 1
         /\ DOMAIN e.called = 1 .. Len(e.called)
         /\ DOMAIN f.called = 1 .. (Len(e.called) + 1)
         /\ f.called[Len(e.called) + 1] = h
         /\ \A i \in DOMAIN e.called : f.called[i] = e.called[i]
<1>1. e.called \in Seq(Hook)
  BY DispatchTyped
<1>2. /\ Len(f.called) = Len(e.called) + 1
      /\ DOMAIN e.called = 1 .. Len(e.called)
      /\ DOMAIN f.called = 1 .. (Len(e.called) + 1)
      /\ f.called[Len(e.called) + 1] = h
      /\ \A i \in DOMAIN e.called : f.called[i] = e.called[i]
  BY <1>1
<1>3. Calls(f) = Calls(e) \cup {h}
  BY <1>1, <1>2 DEF Calls
<1> QED
  BY <1>2, <1>3

\* A callback that comes after those before it keeps the order.
LEMMA OneMoreCall ==
  ASSUME NEW e \in Dispatches, NEW f, WellFormed(e.known), CalledInOrder(e),
         NEW h \in e.known, \A g \in Calls(e) : Before(g, h),
         f.called = Append(e.called, h), f.known = e.known,
         f.passed = e.passed \/ f.passed = e.passed \cup {h}
  PROVE  CalledInOrder(f) /\ h \notin Calls(e)
<1>1. h \in Hook
  BY DEF WellFormed
<1>2. h \notin Calls(e)
  BY BeforeDiffers
<1>3. /\ Calls(f) = Calls(e) \cup {h}
      /\ Len(e.called) \in Nat /\ DOMAIN e.called = 1 .. Len(e.called)
      /\ DOMAIN f.called = 1 .. (Len(e.called) + 1)
      /\ f.called[Len(e.called) + 1] = h
      /\ \A i \in DOMAIN e.called : f.called[i] = e.called[i] /\ e.called[i] \in Calls(e)
  <2>1. e.called \in Seq(Hook)
    BY DispatchTyped
  <2>2. Len(e.called) \in Nat /\ \A i \in DOMAIN e.called : e.called[i] \in Calls(e)
    BY <2>1 DEF Calls
  <2> QED
    BY <1>1, <2>2, CallsOfAppended
<1>4. ASSUME NEW i \in DOMAIN f.called, NEW j \in DOMAIN f.called, i < j
      PROVE  Before(f.called[i], f.called[j])
  <2>1. i \in DOMAIN e.called
    BY <1>3, <1>4
  <2>2. CASE j \in DOMAIN e.called
    BY <1>3, <1>4, <2>1, <2>2 DEF CalledInOrder
  <2>3. CASE j = Len(e.called) + 1
    BY <1>3, <2>1, <2>3
  <2> QED
    BY <1>3, <2>2, <2>3
<1> QED
  BY <1>2, <1>3, <1>4 DEF CalledInOrder

-------------------------------------------------------------------------------
(* The data.                                                               *)

LEMMA BoundedPlaces ==
  ASSUME NEW n \in Nat, NEW S, S \subseteq 1 .. n
  PROVE  IsFiniteSet(S) /\ Cardinality(S) \in Nat
<1>1. IsFiniteSet(1 .. n)
  BY FS_Interval
<1> QED
  BY <1>1, FS_Subset, FS_CardinalityType

\* Who is ranked by a set of places is one of so many.
LEMMA RankIsBounded ==
  ASSUME NEW n \in Nat, NEW S, S \subseteq 1 .. n, NEW i \in S
  PROVE  IsFiniteSet(S) /\ Cardinality(S) \in Nat /\ Rank(S, i) \in 1 .. Cardinality(S)
<1> DEFINE T == {j \in S : j <= i}
<1>1. IsFiniteSet(S) /\ Cardinality(S) \in Nat
  BY BoundedPlaces
<1>2. IsFiniteSet(T) /\ Cardinality(T) \in Nat /\ Cardinality(T) <= Cardinality(S)
  BY <1>1, FS_Subset, FS_CardinalityType
<1>3. i \in T
  OBVIOUS
<1>4. Cardinality(T) # 0
  BY <1>2, <1>3, FS_EmptySet
<1> QED
  BY <1>1, <1>2, <1>4 DEF Rank

\* A callback that returns adds its change behind the others.
LEMMA OneMoreChange ==
  ASSUME NEW n \in Nat, NEW S, S \subseteq 1 .. n, NEW C, NEW data \in Seq(C), NEW c \in C,
         NEW called, NEW called2, Shows(data, called, S),
         \A i \in 1 .. n : called2[i] = called[i], called2[n + 1].callback = c
  PROVE  Shows(Append(data, c), called2, S \cup {n + 1})
<1> DEFINE T == S \cup {n + 1}
           more == Append(data, c)
<1>1. IsFiniteSet(S) /\ Cardinality(S) \in Nat
  BY BoundedPlaces
<1>2. n + 1 \notin S
  OBVIOUS
<1>3. Cardinality(T) = Cardinality(S) + 1
  BY <1>1, <1>2, FS_AddElement
<1>4. Len(data) = Cardinality(S)
  BY DEF Shows
<1>5. /\ Len(more) = Len(data) + 1 /\ more[Len(data) + 1] = c
      /\ \A k \in 1 .. Len(data) : more[k] = data[k]
  OBVIOUS
<1>6. ASSUME NEW i \in S PROVE more[Rank(T, i)] = called2[i].callback
  <2>1. {j \in T : j <= i} = {j \in S : j <= i}
    OBVIOUS
  <2>2. Rank(T, i) = Rank(S, i)
    BY <2>1 DEF Rank
  <2>3. Rank(S, i) \in 1 .. Len(data)
    BY <1>4, RankIsBounded
  <2>4. i \in 1 .. n /\ data[Rank(S, i)] = called[i].callback
    BY DEF Shows
  <2> HIDE DEF T, more
  <2> QED
    BY <1>5, <2>2, <2>3, <2>4
<1>7. more[Rank(T, n + 1)] = called2[n + 1].callback
  <2>1. {j \in T : j <= n + 1} = T
    <3>1. \A j \in T : j <= n + 1
      OBVIOUS
    <3> HIDE DEF T
    <3> QED
      BY <3>1
  <2>2. Rank(T, n + 1) = Len(data) + 1
    BY <1>3, <1>4, <2>1 DEF Rank
  <2> QED
    BY <1>5, <2>2
<1>8. \A i \in T : more[Rank(T, i)] = called2[i].callback
  BY <1>6, <1>7
<1>9. Len(more) = Cardinality(T)
  BY <1>3, <1>4, <1>5
<1> HIDE DEF more, T
<1>10. Shows(more, called2, T)
  BY <1>8, <1>9 DEF Shows
<1> QED
  BY <1>10 DEF more, T

-------------------------------------------------------------------------------
(* The steps of a dispatch.                                                *)

LEMMA QueueTyped ==
  ASSUME NEW H, WellFormed(H), NEW position, NEW s, IsQueue(s, H, position)
  PROVE  /\ s \in Seq(Hook) /\ Len(s) \in Nat /\ DOMAIN s = 1 .. Len(s)
         /\ \A i \in DOMAIN s : s[i] \in H /\ s[i] \in Hook /\ s[i].position = position
<1> DEFINE Q == {h \in H : h.position = position}
<1>1. s \in Seq(Q) /\ Q \subseteq Hook
  BY DEF IsQueue, WellFormed
<1>2. \A h \in Q : h \in H /\ h \in Hook /\ h.position = position
  BY <1>1
<1> HIDE DEF Q
<1> QED
  BY <1>1, <1>2

\* The hooks in front of a queue's present place are others, and precede it.
LEMMA NextOfQueue ==
  ASSUME NEW H, WellFormed(H), NEW position, NEW s, IsQueue(s, H, position),
         NEW at \in DOMAIN s
  PROVE  /\ s[at] \in H /\ s[at] \in Hook /\ s[at].position = position
         /\ \A g \in Behind(s, at) : g.position = position /\ Precedes(g, s[at]) /\ g # s[at]
         /\ Behind(s, at + 1) = Behind(s, at) \cup {s[at]}
<1>1. /\ Len(s) \in Nat /\ DOMAIN s = 1 .. Len(s)
      /\ \A i \in DOMAIN s : s[i] \in H /\ s[i] \in Hook /\ s[i].position = position
  BY QueueTyped
<1>2. ASSUME NEW g \in Behind(s, at)
      PROVE  g.position = position /\ Precedes(g, s[at]) /\ g # s[at]
  <2>1. PICK k \in DOMAIN s : k < at /\ g = s[k]
    BY DEF Behind
  <2>2. Precedes(g, s[at])
    BY <2>1 DEF IsQueue, Sorted
  <2>3. ~ Precedes(s[at], s[at])
    BY <1>1, PrecedesOrders
  <2> QED
    BY <1>1, <2>1, <2>2, <2>3
<1>3. \A k \in DOMAIN s : k < at + 1 <=> k < at \/ k = at
  BY <1>1
<1>4. Behind(s, at + 1) = Behind(s, at) \cup {s[at]}
  BY <1>3 DEF Behind
<1> QED
  BY <1>1, <1>2, <1>4

\* Both queues are there for the scope, so that every pair with a post hook has
\* a pre hook to get past.
LEMMA NoneEnteredYet ==
  ASSUME NEW H, WellFormed(H), NEW pres, NEW posts,
         IsQueue(pres, H, "pre"), IsQueue(posts, H, "post")
  PROVE  PairsOf(posts) \ PairsOf(pres) = {}
<1> SUFFICES ASSUME NEW p \in PairsOf(posts) PROVE p \in PairsOf(pres)
  OBVIOUS
<1>1. PICK i \in DOMAIN posts : posts[i].pair = p /\ p # NoPair
  BY DEF PairsOf
<1>2. posts[i] \in H /\ posts[i].position = "post"
  BY QueueTyped
<1>3. PICK h \in H : h.pair = p /\ h.position = "pre"
  BY <1>1, <1>2 DEF WellFormed
<1>4. PICK k \in DOMAIN pres : pres[k] = h
  BY <1>3 DEF IsQueue
<1> QED
  BY <1>1, <1>3, <1>4 DEF PairsOf

\* Nothing is ahead of a beginning.
LEMMA Fresh ==
  ASSUME NEW e, e \in Dispatches, e.called = <<>>, e.passed = {}, e.data = <<>>
  PROVE  CalledInOrder(e) /\ Reached(e) /\ Done(e) = {} /\ Data(e)
<1>1. Calls(e) = {} /\ DOMAIN e.called = {}
  BY DEF Calls
<1>2. Done(e) = {}
  BY <1>1 DEF Done
<1>3. Cardinality({}) = 0 /\ Len(<<>>) = 0
  BY FS_EmptySet
<1> QED
  BY <1>1, <1>2, <1>3 DEF CalledInOrder, Reached, Data, Shows

\* A dispatch that begins.
Begun(e, phase, pres, posts, known) ==
  [e EXCEPT !.phase = phase, !.at = 1, !.count = @ + 1, !.pres = pres,
            !.posts = posts, !.entered = {}, !.outcome = "succeeded", !.raising = FALSE,
            !.cut = FALSE, !.data = <<>>, !.called = <<>>, !.passed = {}, !.known = known]

LEMMA BegunIsTyped ==
  ASSUME NEW e \in Dispatches, NEW phase \in {"pres", "run"}, NEW known \in SUBSET Hook,
         NEW pres \in Seq(Hook), NEW posts \in Seq(Hook)
  PROVE  Begun(e, phase, pres, posts, known) \in Dispatches
<1>1. <<>> \in Seq(Hook) /\ <<>> \in Seq(1 .. MaxCalls)
  OBVIOUS
<1>2. e.count + 1 \in Nat
  BY DispatchTyped
<1> DEFINE f == [e EXCEPT !.phase = phase, !.at = 1, !.count = @ + 1, !.pres = pres,
             !.posts = posts]
<1>3. f \in Dispatches
  BY <1>2 DEF Dispatches
<1> DEFINE g == [f EXCEPT !.entered = {}, !.outcome = "succeeded", !.raising = FALSE, !.cut = FALSE]
<1> HIDE DEF f
<1>4. g \in Dispatches
  BY <1>3 DEF Dispatches
<1> HIDE DEF g
<1>5. [g EXCEPT !.data = <<>>, !.called = <<>>, !.passed = {}, !.known = known] \in Dispatches
  BY <1>1, <1>4 DEF Dispatches
<1> QED
  BY <1>5 DEF f, g, Begun

LEMMA BeginScopeStep ==
  ASSUME Dispatched(d), WellFormed(hooks), BeginScope
  PROVE  Dispatched(d')
<1> DEFINE pres == Entries("pre")
           posts == Entries("post")
<1>1. IsQueue(pres, hooks, "pre") /\ IsQueue(posts, hooks, "post")
  BY EntriesAreQueue
<1>2. PairsOf(posts) \ PairsOf(pres) = {}
  BY <1>1, NoneEnteredYet
<1>3. pres \in Seq(Hook) /\ posts \in Seq(Hook)
  BY <1>1, QueueTyped
<1>4. hooks \in SUBSET Hook
  BY DEF WellFormed
<1>5. d \in Dispatches
  BY DEF Dispatched
<1>6. d' = Begun(d, "pres", pres, posts, hooks)
  BY <1>2 DEF BeginScope, Begun
<1> HIDE DEF pres, posts
<1>7. d' \in Dispatches
  BY <1>3, <1>4, <1>5, <1>6, BegunIsTyped
<1>8. /\ d'.phase = "pres" /\ d'.at = 1 /\ d'.pres = pres /\ d'.posts = posts
      /\ d'.entered = {} /\ d'.cut = FALSE /\ d'.data = <<>> /\ d'.called = <<>>
      /\ d'.passed = {} /\ d'.known = hooks
  BY <1>5, <1>6 DEF Dispatches, Begun
<1>9. CalledInOrder(d') /\ Reached(d') /\ Data(d')
  BY <1>7, <1>8, Fresh
<1>10. Queues(d')
  BY <1>1, <1>8 DEF Queues, ForScope
<1>11. EnteredIsKnown(d') /\ Unwinding(d')
  BY <1>8 DEF EnteredIsKnown, Entered, Unwinding
<1> QED
  BY <1>7, <1>8, <1>9, <1>10, <1>11 DEF Dispatched

LEMMA BeginRunStep ==
  ASSUME Dispatched(d), WellFormed(hooks), BeginRun
  PROVE  Dispatched(d')
<1> DEFINE pres == Entries("build")
<1>1. IsQueue(pres, hooks, "build")
  BY EntriesAreQueue
<1>2. pres \in Seq(Hook)
  BY <1>1, QueueTyped
<1>3. hooks \in SUBSET Hook
  BY DEF WellFormed
<1>4. d \in Dispatches
  BY DEF Dispatched
<1>5. d' = Begun(d, "run", pres, <<>>, hooks)
  BY DEF BeginRun, Begun
<1> HIDE DEF pres
<1>6. d' \in Dispatches
  <2>1. <<>> \in Seq(Hook)
    OBVIOUS
  <2> QED
    BY <1>2, <1>3, <1>4, <1>5, <2>1, BegunIsTyped
<1>7. /\ d'.phase = "run" /\ d'.at = 1 /\ d'.pres = pres /\ d'.posts = <<>>
      /\ d'.data = <<>> /\ d'.called = <<>> /\ d'.passed = {} /\ d'.known = hooks
  BY <1>4, <1>5 DEF Dispatches, Begun
<1>8. CalledInOrder(d') /\ Reached(d') /\ Data(d')
  BY <1>6, <1>7, Fresh
<1>9. Queues(d') /\ EnteredIsKnown(d') /\ Unwinding(d')
  BY <1>1, <1>7 DEF Queues, ForRun, EnteredIsKnown, Unwinding
<1> QED
  BY <1>6, <1>7, <1>8, <1>9 DEF Dispatched

LEMMA NoData ==
  ASSUME NEW e, e.data = <<>>, Done(e) = {}
  PROVE  Data(e)
<1>1. Cardinality({}) = 0 /\ Len(<<>>) = 0
  BY FS_EmptySet
<1> QED
  BY <1>1 DEF Data, Shows

\* The present pre hook is called, and returns or not; the next one is present.
LEMMA PreCalled ==
  ASSUME Dispatched(d), InPres, NEW f \in Dispatches,
         f.phase = "pres", f.at = d.at + 1, f.called = Append(d.called, Pre),
         f.known = d.known, f.pres = d.pres, f.posts = d.posts, f.cut = d.cut, f.data = d.data,
         \/ f.passed = d.passed /\ f.entered = d.entered
         \/ /\ f.passed = d.passed \cup {Pre}
            /\ f.entered = IF Pre.pair = NoPair THEN d.entered ELSE d.entered \cup {Pre.pair}
  PROVE  Dispatched(f)
<1>1. /\ d \in Dispatches /\ WellFormed(d.known) /\ d.phase = "pres" /\ d.at > 0 /\ d.at \in Nat
      /\ d.pres \in Seq(Hook) /\ d.at <= Len(d.pres)
  BY DispatchTyped DEF Dispatched, InPres
<1>2. d.at \in DOMAIN d.pres
  BY <1>1
<1>3. IsQueue(d.pres, d.known, "pre") /\ IsQueue(d.posts, d.known, "post")
  BY <1>1 DEF Dispatched, Queues, ForScope
<1>4. /\ Pre \in d.known /\ Pre \in Hook /\ Pre.position = "pre"
      /\ \A g \in Behind(d.pres, d.at) : g.position = "pre" /\ Precedes(g, Pre)
      /\ Behind(d.pres, d.at + 1) = Behind(d.pres, d.at) \cup {Pre}
  BY <1>1, <1>2, <1>3, NextOfQueue DEF Pre
<1> DEFINE h == Pre
<1> HIDE DEF h
<1>5. Calls(d) \subseteq Behind(d.pres, d.at)
  BY <1>1 DEF Dispatched, Reached
<1>6. Calls(f) = Calls(d) \cup {Pre}
  BY <1>1, <1>4, CallsOfAppended
<1>7. CalledInOrder(f)
  <2>1. \A g \in Calls(d) : Before(g, Pre)
    BY <1>4, <1>5 DEF Before
  <2>2. f.passed = d.passed \/ f.passed = d.passed \cup {Pre}
    OBVIOUS
  <2>3. CalledInOrder(d)
    BY DEF Dispatched
  <2> QED
    BY <1>1, <1>4, <2>1, <2>2, <2>3, OneMoreCall
<1>8. Reached(f)
  BY <1>4, <1>5, <1>6 DEF Reached
<1>9. Done(f) = {}
  <2>1. \A g \in Calls(f) : g.position = "pre"
    BY <1>4, <1>5, <1>6
  <2> QED
    BY <2>1 DEF Done, Calls
<1>10. Data(f)
  BY <1>1, <1>9, NoData DEF Dispatched, Data
<1>11. Queues(f)
  BY <1>3 DEF Queues, ForScope
<1>12. Unwinding(f)
  BY <1>1 DEF Dispatched, Unwinding
<1>13. EnteredIsKnown(f)
  <2>1. ASSUME NEW p \in Nat PROVE p \in f.entered <=> Entered(f, p)
    <3>1. p \in d.entered <=> Entered(d, p)
      BY <1>1 DEF Dispatched, EnteredIsKnown
    <3>2. p # NoPair
      BY NoneIsNoNumber
    <3>3. CASE f.passed = d.passed /\ f.entered = d.entered
      BY <3>1, <3>3 DEF Entered
    <3>4. CASE /\ f.passed = d.passed \cup {Pre}
               /\ f.entered = IF Pre.pair = NoPair THEN d.entered ELSE d.entered \cup {Pre.pair}
      <4>1. Entered(f, p) <=> Entered(d, p) \/ Pre.pair = p
        BY <1>4, <3>4 DEF Entered
      <4>2. p \in f.entered <=> p \in d.entered \/ Pre.pair = p
        BY <3>2, <3>4
      <4> QED
        BY <3>1, <4>1, <4>2
    <3> QED
      BY <3>3, <3>4
  <2> QED
    BY <2>1 DEF EnteredIsKnown
<1>14. f.at > 0
  BY <1>1
<1> QED
  BY <1>1, <1>7, <1>8, <1>10, <1>11, <1>12, <1>13, <1>14 DEF Dispatched

\* The post hooks begin, after the body or because of an exception.
LEMMA PostsBegin ==
  ASSUME NEW e, Dispatched(e), e.phase = "pres", NEW f \in Dispatches,
         f.phase = "posts", f.at = 1, f.called = e.called, f.passed = e.passed,
         f.known = e.known, f.pres = e.pres, f.posts = e.posts, f.cut = e.cut,
         f.data = e.data, f.entered = e.entered
  PROVE  Dispatched(f)
<1>1. WellFormed(e.known) /\ IsQueue(e.pres, e.known, "pre") /\ IsQueue(e.posts, e.known, "post")
  BY DEF Dispatched, Queues, ForScope
<1>2. \A g \in Behind(e.pres, e.at) : g.position = "pre"
  BY <1>1, QueueTyped DEF Behind
<1>3. Calls(f) = Calls(e) /\ Done(f) = Done(e)
  BY DEF Calls, Done
<1>4. CalledInOrder(f) /\ Reached(f)
  BY <1>2, <1>3 DEF Dispatched, CalledInOrder, Reached
<1>5. Queues(f) /\ EnteredIsKnown(f)
  BY <1>1 DEF Queues, ForScope, Dispatched, EnteredIsKnown, Entered
<1>6. Data(f)
  BY <1>3, NoData DEF Dispatched, Data
<1>7. DOMAIN e.posts = 1 .. Len(e.posts) /\ Len(e.posts) \in Nat
  BY <1>1, QueueTyped
<1>8. UnwoundUpTo(f, 1)
  BY <1>7 DEF UnwoundUpTo
<1>9. Unwinding(f)
  BY <1>8 DEF Unwinding
<1> QED
  BY <1>1, <1>4, <1>5, <1>6, <1>9 DEF Dispatched

LEMMA FailIsTyped ==
  ASSUME NEW e \in Dispatches
  PROVE  Fail(e) \in Dispatches
  BY DEF Fail, Dispatches

LEMMA Failing ==
  ASSUME NEW e, Dispatched(e), e.phase = "pres"
  PROVE  Dispatched(Fail(e))
<1>1. e \in Dispatches
  BY DEF Dispatched
<1> DEFINE f == Fail(e)
<1>2. f \in Dispatches
  BY <1>1, FailIsTyped
<1>3. /\ f.phase = "posts" /\ f.at = 1 /\ f.called = e.called /\ f.passed = e.passed
      /\ f.known = e.known /\ f.pres = e.pres /\ f.posts = e.posts /\ f.cut = e.cut
      /\ f.data = e.data /\ f.entered = e.entered
  BY <1>1 DEF Fail, Dispatches
<1> HIDE DEF f
<1>4. Dispatched(f)
  BY <1>2, <1>3, PostsBegin
<1> QED
  BY <1>4 DEF f

\* A pre hook that is called and does not return.
Tried == [d EXCEPT !.at = @ + 1, !.called = Append(@, Pre)]

LEMMA TriedIsDispatched ==
  ASSUME Dispatched(d), InPres
  PROVE  Dispatched(Tried) /\ Tried.phase = "pres"
<1>1. d \in Dispatches /\ d.phase = "pres" /\ d.called \in Seq(Hook) /\ d.at \in Nat
  BY DispatchTyped DEF Dispatched, InPres
<1>2. Pre \in Hook
  BY <1>1, DispatchTyped DEF Pre, InPres, Dispatched
<1>3. Append(d.called, Pre) \in Seq(Hook) /\ d.at + 1 \in Nat
  BY <1>1, <1>2
<1> DEFINE f == Tried
<1>4. f \in Dispatches
  BY <1>1, <1>3 DEF Tried, Dispatches
<1>5. /\ f.phase = d.phase /\ f.at = d.at + 1 /\ f.called = Append(d.called, Pre)
      /\ f.known = d.known /\ f.pres = d.pres /\ f.posts = d.posts /\ f.cut = d.cut
      /\ f.data = d.data /\ f.passed = d.passed /\ f.entered = d.entered
  BY <1>1 DEF Tried, Dispatches
<1> HIDE DEF f
<1>6. Dispatched(f)
  BY <1>1, <1>4, <1>5, PreCalled
<1> QED
  BY <1>1, <1>5, <1>6 DEF f

LEMMA PreRaisesStep ==
  ASSUME Dispatched(d), PreRaises \/ PreCancelled
  PROVE  Dispatched(d')
<1>1. d \in Dispatches
  BY DEF Dispatched
<1>2. Dispatched(Tried) /\ Tried.phase = "pres"
  BY TriedIsDispatched DEF PreRaises, PreCancelled
<1>3. Fail([d EXCEPT !.called = Append(@, Pre)]) = Fail(Tried)
  BY <1>1 DEF Fail, Tried, Dispatches
<1>4. [[d EXCEPT !.called = Append(@, Pre)] EXCEPT !.at = @ + 1] = Tried
  BY <1>1 DEF Tried, Dispatches
<1>5. d' = Fail(Tried) \/ d' = Tried
  BY <1>3, <1>4 DEF PreRaises, PreCancelled
<1> QED
  BY <1>2, <1>5, Failing

LEMMA PreReturnsStep ==
  ASSUME Dispatched(d), PreReturns
  PROVE  Dispatched(d')
<1>1. /\ d \in Dispatches /\ d.phase = "pres" /\ d.called \in Seq(Hook) /\ d.at \in Nat
      /\ d.passed \in SUBSET Hook /\ d.entered \in SUBSET Nat
  BY DispatchTyped DEF Dispatched, PreReturns, InPres
<1>2. Pre \in Hook
  BY <1>1, DispatchTyped DEF Pre, PreReturns, InPres, Dispatched
<1> DEFINE entered == IF Pre.pair = NoPair THEN d.entered ELSE d.entered \cup {Pre.pair}
<1>3. /\ Append(d.called, Pre) \in Seq(Hook) /\ d.at + 1 \in Nat
      /\ d.passed \cup {Pre} \in SUBSET Hook
  BY <1>1, <1>2
<1>4. entered \in SUBSET Nat
  BY <1>1, <1>2 DEF Hook
<1>5. d' = [d EXCEPT !.at = @ + 1, !.called = Append(@, Pre), !.passed = @ \cup {Pre},
                     !.entered = entered]
  BY DEF PreReturns
<1> HIDE DEF entered
<1>6. d' \in Dispatches
  BY <1>1, <1>3, <1>4, <1>5 DEF Dispatches
<1>7. /\ d'.phase = d.phase /\ d'.at = d.at + 1 /\ d'.called = Append(d.called, Pre)
      /\ d'.known = d.known /\ d'.pres = d.pres /\ d'.posts = d.posts /\ d'.cut = d.cut
      /\ d'.data = d.data /\ d'.passed = d.passed \cup {Pre} /\ d'.entered = entered
  BY <1>1, <1>5 DEF Dispatches
<1>8. InPres
  BY DEF PreReturns
<1> QED
  BY <1>1, <1>6, <1>7, <1>8, PreCalled DEF entered

LEMMA BodyEndsStep ==
  ASSUME Dispatched(d), BodyEnds
  PROVE  Dispatched(d')
<1>1. d \in Dispatches /\ d.phase = "pres"
  BY DEF Dispatched, BodyEnds
<1>2. CASE d' = Fail(d)
  BY <1>1, <1>2, Failing
<1>3. CASE d' = [d EXCEPT !.phase = "posts", !.at = 1]
  <2>1. d' \in Dispatches
    BY <1>1, <1>3 DEF Dispatches
  <2>2. /\ d'.phase = "posts" /\ d'.at = 1 /\ d'.called = d.called /\ d'.passed = d.passed
        /\ d'.known = d.known /\ d'.pres = d.pres /\ d'.posts = d.posts /\ d'.cut = d.cut
        /\ d'.data = d.data /\ d'.entered = d.entered
    BY <1>1, <1>3 DEF Dispatches
  <2> QED
    BY <1>1, <2>1, <2>2, PostsBegin
<1> QED
  BY <1>2, <1>3 DEF BodyEnds

\* What is known at a post hook.
LEMMA AtPost ==
  ASSUME Dispatched(d), InPosts
  PROVE  /\ d \in Dispatches /\ WellFormed(d.known) /\ d.phase = "posts" /\ d.at > 0 /\ d.at \in Nat
         /\ d.at <= Len(d.posts) /\ Len(d.posts) \in Nat /\ DOMAIN d.posts = 1 .. Len(d.posts)
         /\ ForScope(d) /\ CalledInOrder(d)
         /\ Post = d.posts[d.at] /\ Post \in d.known /\ Post \in Hook /\ Post.position = "post"
         /\ Post \notin Calls(d) /\ \A g \in Calls(d) : Before(g, Post)
         /\ Behind(d.posts, d.at + 1) = Behind(d.posts, d.at) \cup {Post}
         /\ Behind(d.posts, d.at) \subseteq Behind(d.posts, Len(d.posts) + 1)
         /\ Post \in Behind(d.posts, Len(d.posts) + 1)
<1>1. /\ d \in Dispatches /\ WellFormed(d.known) /\ d.phase = "posts" /\ d.at > 0
      /\ d.at <= Len(d.posts) /\ ForScope(d) /\ CalledInOrder(d)
  BY DEF Dispatched, InPosts, Queues
<1>2. d.at \in Nat /\ d.posts \in Seq(Hook)
  BY <1>1, DispatchTyped
<1>3. d.at \in DOMAIN d.posts /\ Len(d.posts) \in Nat /\ DOMAIN d.posts = 1 .. Len(d.posts)
  BY <1>1, <1>2
<1>4. IsQueue(d.posts, d.known, "post")
  BY <1>1 DEF ForScope
<1>5. /\ Post \in d.known /\ Post \in Hook /\ Post.position = "post"
      /\ \A g \in Behind(d.posts, d.at) : g.position = "post" /\ Precedes(g, Post) /\ g # Post
      /\ Behind(d.posts, d.at + 1) = Behind(d.posts, d.at) \cup {Post}
  BY <1>1, <1>3, <1>4, NextOfQueue DEF Post
<1>6. \A g \in Calls(d) : g.position = "pre" \/ g \in Behind(d.posts, d.at)
  BY <1>1 DEF Dispatched, Reached
<1>7. Post \notin Calls(d) /\ \A g \in Calls(d) : Before(g, Post)
  BY <1>5, <1>6 DEF Before
<1>8. \A k \in DOMAIN d.posts : k < Len(d.posts) + 1
  BY <1>3
<1>9. /\ Behind(d.posts, d.at) \subseteq Behind(d.posts, Len(d.posts) + 1)
      /\ Post \in Behind(d.posts, Len(d.posts) + 1)
  BY <1>3, <1>8 DEF Behind, Post
<1> QED
  BY <1>1, <1>2, <1>3, <1>5, <1>7, <1>9 DEF Post

\* Which post hooks must run: those of no pair, and of the pairs that were entered.
LEMMA DueIffEntered ==
  ASSUME Dispatched(d), d.phase = "posts", NEW h \in Hook
  PROVE  (h.pair = NoPair \/ h.pair \in d.entered) <=> (h.pair = NoPair \/ Entered(d, h.pair))
<1>1. h.pair \in Nat \cup {NoPair}
  BY DEF Hook
<1> QED
  BY <1>1 DEF Dispatched, EnteredIsKnown

LEMMA PostSkippedStep ==
  ASSUME Dispatched(d), PostSkipped
  PROVE  Dispatched(d')
<1>1. /\ d \in Dispatches /\ WellFormed(d.known) /\ d.phase = "posts" /\ d.at > 0 /\ d.at \in Nat
      /\ DOMAIN d.posts = 1 .. Len(d.posts) /\ ForScope(d) /\ CalledInOrder(d)
      /\ Post = d.posts[d.at] /\ Post \in Hook /\ Post \notin Calls(d)
      /\ Behind(d.posts, d.at + 1) = Behind(d.posts, d.at) \cup {Post}
  BY AtPost DEF PostSkipped
<1>2. d' = [d EXCEPT !.at = @ + 1]
  BY DEF PostSkipped
<1>3. d' \in Dispatches
  <2>1. d \in Dispatches /\ d.at + 1 \in Nat
    BY <1>1
  <2> QED
    BY ONLY <1>2, <2>1 DEF Dispatches
<1>4. /\ d'.phase = d.phase /\ d'.at = d.at + 1 /\ d'.called = d.called /\ d'.passed = d.passed
      /\ d'.known = d.known /\ d'.pres = d.pres /\ d'.posts = d.posts /\ d'.cut = d.cut
      /\ d'.data = d.data /\ d'.entered = d.entered
  BY <1>1, <1>2 DEF Dispatches
<1>5. Calls(d') = Calls(d) /\ Done(d') = Done(d)
  BY <1>4 DEF Calls, Done
<1>6. CalledInOrder(d') /\ Reached(d')
  BY <1>1, <1>4, <1>5 DEF Dispatched, CalledInOrder, Reached
<1>7. Queues(d') /\ EnteredIsKnown(d')
  BY <1>1, <1>4 DEF Queues, ForScope, Dispatched, EnteredIsKnown, Entered
<1>8. Data(d')
  BY <1>1, <1>4, <1>5, NoData DEF Dispatched, Data
<1>9. ASSUME ~ d.cut PROVE UnwoundUpTo(d', d.at + 1)
  <2>1. ~ (Post.pair = NoPair \/ Entered(d, Post.pair))
    BY <1>1, DueIffEntered DEF PostSkipped
  <2>2. \A p : Entered(d', p) <=> Entered(d, p)
    BY <1>4 DEF Entered
  <2>3. UnwoundUpTo(d, d.at)
    BY <1>1, <1>9 DEF Dispatched, Unwinding
  <2>4. ASSUME NEW i \in DOMAIN d.posts, i < d.at + 1
        PROVE  d.posts[i] \in Calls(d) <=> d.posts[i].pair = NoPair \/ Entered(d, d.posts[i].pair)
    <3>1. i < d.at \/ i = d.at
      BY <1>1, <2>4
    <3>2. CASE i < d.at
      BY <2>3, <3>2 DEF UnwoundUpTo
    <3>3. CASE i = d.at
      BY <1>1, <2>1, <3>3
    <3> QED
      BY <3>1, <3>2, <3>3
  <2> QED
    BY <1>4, <1>5, <2>2, <2>4 DEF UnwoundUpTo
<1>10. Unwinding(d')
  BY <1>1, <1>4, <1>9 DEF Unwinding
<1>11. d'.at > 0
  BY <1>1, <1>4
<1> QED
  BY <1>1, <1>3, <1>4, <1>6, <1>7, <1>8, <1>10, <1>11 DEF Dispatched

\* A post hook is called; the next one follows, or none any more.
LEMMA PostCalled ==
  ASSUME Dispatched(d), InPosts, Post.pair = NoPair \/ Post.pair \in d.entered,
         NEW f \in Dispatches, f.phase = "posts", f.called = Append(d.called, Post),
         f.known = d.known, f.pres = d.pres, f.posts = d.posts,
         f.data = d.data, f.entered = d.entered,
         f.passed = d.passed \/ f.passed = d.passed \cup {Post},
         \/ f.at = d.at + 1 /\ f.cut = d.cut
         \/ f.at = Len(d.posts) + 1 /\ f.cut
  PROVE  Dispatched(f)
<1>1. /\ d \in Dispatches /\ WellFormed(d.known) /\ d.phase = "posts" /\ d.at > 0 /\ d.at \in Nat
      /\ Len(d.posts) \in Nat /\ DOMAIN d.posts = 1 .. Len(d.posts)
      /\ ForScope(d) /\ CalledInOrder(d)
      /\ Post = d.posts[d.at] /\ Post \in d.known /\ Post \in Hook /\ Post.position = "post"
      /\ Post \notin Calls(d) /\ \A g \in Calls(d) : Before(g, Post)
  BY AtPost
<1>2. /\ Behind(d.posts, d.at + 1) = Behind(d.posts, d.at) \cup {Post}
      /\ Behind(d.posts, d.at) \subseteq Behind(d.posts, Len(d.posts) + 1)
      /\ Post \in Behind(d.posts, Len(d.posts) + 1)
  BY AtPost
<1>3. Calls(f) = Calls(d) \cup {Post}
  BY <1>1, CallsOfAppended
<1>4. CalledInOrder(f)
  BY <1>1, OneMoreCall
<1>5. Behind(d.posts, d.at) \cup {Post} \subseteq Behind(f.posts, f.at)
  BY <1>2
<1>6. Reached(f)
  <2>1. \A h \in Calls(d) : h.position = "pre" \/ h \in Behind(d.posts, d.at)
    BY <1>1 DEF Dispatched, Reached
  <2> QED
    BY <1>3, <1>5, <2>1 DEF Reached
<1>7. Queues(f)
  BY <1>1 DEF Queues, ForScope
<1>8. \A p : Entered(f, p) <=> Entered(d, p)
  BY <1>1 DEF Entered
<1>9. EnteredIsKnown(f)
  BY <1>1, <1>8 DEF Dispatched, EnteredIsKnown
<1>10. Done(f) = {}
  <2>1. \A h \in Calls(d) : h.position # "build"
    <3>1. \A h \in Behind(d.posts, d.at) : h.position = "post"
      BY <1>1, QueueTyped DEF Behind, ForScope
    <3> QED
      BY <1>1, <3>1 DEF Dispatched, Reached
  <2>2. \A h \in Calls(f) : h.position # "build"
    BY <1>1, <1>3, <2>1
  <2> QED
    BY <2>2 DEF Done, Calls
<1>11. Data(f)
  BY <1>1, <1>10, NoData DEF Dispatched, Data
<1>12. ASSUME ~ f.cut PROVE UnwoundUpTo(f, f.at)
  <2>1. f.at = d.at + 1 /\ ~ d.cut
    BY <1>12
  <2>2. UnwoundUpTo(d, d.at)
    BY <1>1, <2>1 DEF Dispatched, Unwinding
  <2>3. Post.pair = NoPair \/ Entered(d, Post.pair)
    BY <1>1, DueIffEntered
  <2>4. ASSUME NEW i \in DOMAIN d.posts, i < d.at + 1
        PROVE  d.posts[i] \in Calls(f) <=> d.posts[i].pair = NoPair \/ Entered(d, d.posts[i].pair)
    <3>1. i < d.at \/ i = d.at
      BY <1>1, <2>4
    <3>2. CASE i < d.at
      <4>1. d.posts[i] # Post
        <5>1. IsQueue(d.posts, d.known, "post") /\ d.at \in DOMAIN d.posts
          BY <1>1, AtPost DEF ForScope
        <5>2. d.posts[i] \in Behind(d.posts, d.at)
          BY <3>2 DEF Behind
        <5> QED
          BY <1>1, <5>1, <5>2, NextOfQueue
      <4> QED
        BY <1>3, <2>2, <3>2, <4>1 DEF UnwoundUpTo
    <3>3. CASE i = d.at
      BY <1>1, <1>3, <2>3, <3>3
    <3> QED
      BY <3>1, <3>2, <3>3
  <2> QED
    BY <1>8, <2>1, <2>4 DEF UnwoundUpTo
<1>13. Unwinding(f)
  BY <1>12 DEF Unwinding
<1>14. f.at > 0
  BY <1>1
<1> QED
  BY <1>1, <1>4, <1>6, <1>7, <1>9, <1>11, <1>13, <1>14 DEF Dispatched

LEMMA PostRunsStep ==
  ASSUME Dispatched(d), PostRuns
  PROVE  Dispatched(d')
<1>1. InPosts /\ (Post.pair = NoPair \/ Post.pair \in d.entered)
  BY DEF PostRuns
<1>2. d \in Dispatches /\ d.phase = "posts" /\ d.at \in Nat /\ Post \in Hook
  BY <1>1, AtPost
<1>3. PICK returns \in BOOLEAN :
        d' = [d EXCEPT !.at = @ + 1, !.called = Append(@, Post),
                       !.passed = IF returns THEN @ \cup {Post} ELSE @]
  BY Zenon DEF PostRuns
<1> DEFINE passed == IF returns THEN d.passed \cup {Post} ELSE d.passed
<1>4. /\ Append(d.called, Post) \in Seq(Hook) /\ d.at + 1 \in Nat /\ passed \in SUBSET Hook
      /\ passed = d.passed \/ passed = d.passed \cup {Post}
  BY <1>2, DispatchTyped
<1>5. d' = [d EXCEPT !.at = @ + 1, !.called = Append(@, Post), !.passed = passed]
  BY <1>3
<1> HIDE DEF passed
<1>6. d' \in Dispatches
  BY <1>2, <1>4, <1>5 DEF Dispatches
<1>7. /\ d'.phase = d.phase /\ d'.at = d.at + 1 /\ d'.called = Append(d.called, Post)
      /\ d'.known = d.known /\ d'.pres = d.pres /\ d'.posts = d.posts /\ d'.cut = d.cut
      /\ d'.data = d.data /\ d'.passed = passed /\ d'.entered = d.entered
  BY <1>2, <1>5 DEF Dispatches
<1> QED
  BY <1>1, <1>2, <1>4, <1>6, <1>7, PostCalled

LEMMA PostsCutStep ==
  ASSUME Dispatched(d), PostsCut
  PROVE  Dispatched(d')
<1>1. InPosts /\ (Post.pair = NoPair \/ Post.pair \in d.entered)
  BY DEF PostsCut
<1>2. d \in Dispatches /\ d.phase = "posts" /\ Len(d.posts) \in Nat /\ Post \in Hook
  BY <1>1, AtPost
<1>3. d' = [d EXCEPT !.at = Len(d.posts) + 1, !.called = Append(@, Post),
                     !.cut = TRUE, !.raising = TRUE]
  BY DEF PostsCut
<1>4. Append(d.called, Post) \in Seq(Hook) /\ Len(d.posts) + 1 \in Nat
  BY <1>2, DispatchTyped
<1>5. d' \in Dispatches
  BY <1>2, <1>3, <1>4 DEF Dispatches
<1>6. /\ d'.phase = d.phase /\ d'.at = Len(d.posts) + 1 /\ d'.called = Append(d.called, Post)
      /\ d'.known = d.known /\ d'.pres = d.pres /\ d'.posts = d.posts /\ d'.cut = TRUE
      /\ d'.data = d.data /\ d'.passed = d.passed /\ d'.entered = d.entered
  BY <1>2, <1>3 DEF Dispatches
<1> QED
  BY <1>1, <1>2, <1>5, <1>6, PostCalled

LEMMA EndStep ==
  ASSUME Dispatched(d), EndScope \/ EndRun
  PROVE  Dispatched(d')
<1>1. d \in Dispatches /\ d.phase \in {"posts", "run"} /\ d.at \in Nat
  BY DispatchTyped DEF Dispatched, EndScope, EndRun
<1>2. d' = [d EXCEPT !.phase = "idle"]
  BY DEF EndScope, EndRun
<1>3. d' \in Dispatches
  BY <1>1, <1>2 DEF Dispatches
<1>4. /\ d'.phase = "idle" /\ d'.at = d.at /\ d'.called = d.called /\ d'.passed = d.passed
      /\ d'.known = d.known /\ d'.pres = d.pres /\ d'.posts = d.posts /\ d'.cut = d.cut
      /\ d'.data = d.data /\ d'.entered = d.entered
  BY <1>1, <1>2 DEF Dispatches
<1>5. Calls(d') = Calls(d) /\ Done(d') = Done(d) /\ \A p : Entered(d', p) <=> Entered(d, p)
  BY <1>4 DEF Calls, Done, Entered
<1>6. CalledInOrder(d') /\ Reached(d') /\ EnteredIsKnown(d') /\ Data(d')
  BY <1>4, <1>5 DEF Dispatched, CalledInOrder, Reached, EnteredIsKnown, Data, Shows
<1>7. Queues(d')
  BY <1>4 DEF Dispatched, Queues, ForScope, ForRun
<1>8. CASE d.phase = "run"
  <2>1. DOMAIN d.posts = {}
    BY <1>8 DEF Dispatched, Queues, ForRun
  <2> QED
    BY <1>3, <1>4, <1>6, <1>7, <2>1 DEF Dispatched, Unwinding, UnwoundUpTo
<1>9. CASE d.phase = "posts"
  <2>1. d.at > Len(d.posts) /\ Len(d.posts) \in Nat
    BY <1>1, <1>9, DispatchTyped DEF EndScope, EndRun
  <2>2. ~ d.cut => UnwoundUpTo(d', Len(d.posts) + 1)
    <3>1. \A i \in DOMAIN d.posts : i < Len(d.posts) + 1 => i < d.at
      BY <1>1, <2>1, DispatchTyped
    <3> QED
      BY <1>4, <1>5, <1>9, <3>1 DEF Dispatched, Unwinding, UnwoundUpTo
  <2> QED
    BY <1>3, <1>4, <1>6, <1>7, <2>2 DEF Dispatched, Unwinding
<1> QED
  BY <1>1, <1>8, <1>9

\* What is known at a callback of run().
LEMMA AtRun ==
  ASSUME Dispatched(d), InRun
  PROVE  /\ d \in Dispatches /\ WellFormed(d.known) /\ d.phase = "run" /\ d.at > 0 /\ d.at \in Nat
         /\ ForRun(d) /\ CalledInOrder(d)
         /\ Pre \in d.known /\ Pre \in Hook /\ Pre.position = "build"
         /\ Pre \notin Calls(d) /\ \A g \in Calls(d) : Before(g, Pre)
         /\ Calls(d) \subseteq Behind(d.pres, d.at)
         /\ Behind(d.pres, d.at + 1) = Behind(d.pres, d.at) \cup {Pre}
<1>1. /\ d \in Dispatches /\ WellFormed(d.known) /\ d.phase = "run" /\ d.at > 0
      /\ d.at <= Len(d.pres) /\ ForRun(d) /\ CalledInOrder(d)
      /\ Calls(d) \subseteq Behind(d.pres, d.at)
  BY DEF Dispatched, InRun, Queues, Reached
<1>2. d.at \in Nat /\ d.pres \in Seq(Hook)
  BY <1>1, DispatchTyped
<1>3. d.at \in DOMAIN d.pres
  BY <1>1, <1>2
<1>4. IsQueue(d.pres, d.known, "build")
  BY <1>1 DEF ForRun
<1>5. /\ Pre \in d.known /\ Pre \in Hook /\ Pre.position = "build"
      /\ \A g \in Behind(d.pres, d.at) : g.position = "build" /\ Precedes(g, Pre) /\ g # Pre
      /\ Behind(d.pres, d.at + 1) = Behind(d.pres, d.at) \cup {Pre}
  BY <1>1, <1>3, <1>4, NextOfQueue DEF Pre
<1>6. Pre \notin Calls(d) /\ \A g \in Calls(d) : Before(g, Pre)
  BY <1>1, <1>5 DEF Before
<1> QED
  BY <1>1, <1>2, <1>5, <1>6

\* A callback of run() that is called, and returns or not.
LEMMA RunCalled ==
  ASSUME Dispatched(d), InRun, NEW f \in Dispatches,
         f.phase \in {"run", "idle"}, f.phase = "run" => f.at = d.at + 1, f.at > 0,
         f.called = Append(d.called, Pre), f.known = d.known, f.pres = d.pres, f.posts = d.posts,
         \/ f.passed = d.passed /\ f.data = d.data
         \/ f.passed = d.passed \cup {Pre} /\ f.data = Append(d.data, Pre.callback)
  PROVE  Dispatched(f)
<1>1. /\ d \in Dispatches /\ WellFormed(d.known) /\ d.phase = "run" /\ d.at > 0 /\ d.at \in Nat
      /\ ForRun(d) /\ CalledInOrder(d)
      /\ Pre \in d.known /\ Pre \in Hook /\ Pre.position = "build"
      /\ Pre \notin Calls(d) /\ \A g \in Calls(d) : Before(g, Pre)
      /\ Calls(d) \subseteq Behind(d.pres, d.at)
      /\ Behind(d.pres, d.at + 1) = Behind(d.pres, d.at) \cup {Pre}
  BY AtRun
<1> DEFINE n == Len(d.called)
<1>2. /\ Calls(f) = Calls(d) \cup {Pre} /\ n \in Nat
      /\ DOMAIN d.called = 1 .. n /\ DOMAIN f.called = 1 .. (n + 1)
      /\ f.called[n + 1] = Pre /\ \A i \in 1 .. n : f.called[i] = d.called[i]
  <2>1. n \in Nat
    BY <1>1, DispatchTyped
  <2> QED
    BY <1>1, <2>1, CallsOfAppended
<1> HIDE DEF n
<1>3. CalledInOrder(f)
  <2>1. f.passed = d.passed \/ f.passed = d.passed \cup {Pre}
    OBVIOUS
  <2> QED
    BY <1>1, <2>1, OneMoreCall
<1>4. Reached(f)
  BY <1>1, <1>2 DEF Reached
<1>5. Queues(f)
  BY <1>1 DEF Queues, ForRun
<1>6. EnteredIsKnown(f)
  BY DEF EnteredIsKnown
<1>7. Unwinding(f)
  <2>1. f.posts = <<>>
    BY <1>1 DEF ForRun
  <2> QED
    BY <2>1 DEF Unwinding, UnwoundUpTo
<1>8. Shows(d.data, d.called, Done(d)) /\ Done(d) \subseteq 1 .. n
  BY <1>2 DEF Dispatched, Data, Done
<1>9. \A i \in 1 .. n : d.called[i] # Pre
  BY <1>1, <1>2 DEF Calls
<1>10. CASE f.passed = d.passed /\ f.data = d.data
  <2>1. Pre \notin d.passed
    BY <1>1 DEF CalledInOrder
  <2>2. Done(f) = Done(d)
    BY <1>2, <1>10, <2>1 DEF Done
  <2>3. \A i \in Done(d) : f.called[i] = d.called[i]
    BY <1>2, <1>8
  <2>4. Shows(f.data, f.called, Done(f))
    BY <1>8, <1>10, <2>2, <2>3 DEF Shows
  <2>5. Data(f)
    BY <2>4 DEF Data
  <2> QED
    BY <1>1, <1>3, <1>4, <1>5, <1>6, <1>7, <2>5 DEF Dispatched
<1>11. CASE f.passed = d.passed \cup {Pre} /\ f.data = Append(d.data, Pre.callback)
  <2>1. Done(f) = Done(d) \cup {n + 1}
    <3>1. \A i \in 1 .. (n + 1) : i \in 1 .. n \/ i = n + 1
      BY <1>2
    <3>2. \A i \in 1 .. n : i # n + 1 /\ i \in 1 .. (n + 1)
      BY <1>2
    <3> QED
      BY <1>1, <1>2, <1>9, <1>11, <3>1, <3>2 DEF Done
  <2>2. d.data \in Seq(1 .. MaxCalls) /\ Pre.callback \in 1 .. MaxCalls
    BY <1>1, DispatchTyped DEF Hook
  <2>3. Shows(Append(d.data, Pre.callback), f.called, Done(d) \cup {n + 1})
    BY <1>2, <1>8, <2>2, OneMoreChange
  <2>4. Data(f)
    BY <1>11, <2>1, <2>3 DEF Data
  <2> QED
    BY <1>1, <1>3, <1>4, <1>5, <1>6, <1>7, <2>4 DEF Dispatched
<1> QED
  BY <1>10, <1>11

LEMMA RunReturnsStep ==
  ASSUME Dispatched(d), RunReturns
  PROVE  Dispatched(d')
<1>1. InRun
  BY DEF RunReturns
<1>2. d \in Dispatches /\ d.phase = "run" /\ d.at \in Nat /\ Pre \in Hook
  BY <1>1, AtRun
<1>3. d' = [d EXCEPT !.at = @ + 1, !.data = Append(@, Pre.callback),
                     !.called = Append(@, Pre), !.passed = @ \cup {Pre}]
  BY DEF RunReturns
<1>4. Pre.callback \in 1 .. MaxCalls
  BY <1>2 DEF Hook
<1>5. /\ Append(d.called, Pre) \in Seq(Hook) /\ Append(d.data, Pre.callback) \in Seq(1 .. MaxCalls)
      /\ d.at + 1 \in Nat /\ d.passed \cup {Pre} \in SUBSET Hook
  BY <1>2, <1>4, DispatchTyped
<1>6. d' \in Dispatches
  BY <1>2, <1>3, <1>5 DEF Dispatches
<1>7. /\ d'.phase = d.phase /\ d'.at = d.at + 1 /\ d'.called = Append(d.called, Pre)
      /\ d'.known = d.known /\ d'.pres = d.pres /\ d'.posts = d.posts
      /\ d'.data = Append(d.data, Pre.callback) /\ d'.passed = d.passed \cup {Pre}
  BY <1>2, <1>3 DEF Dispatches
<1>8. d'.at > 0
  BY <1>2, <1>7
<1> QED
  BY <1>1, <1>2, <1>6, <1>7, <1>8, RunCalled

LEMMA RunRaisesStep ==
  ASSUME Dispatched(d), RunRaises
  PROVE  Dispatched(d')
<1>1. InRun
  BY DEF RunRaises
<1>2. d \in Dispatches /\ d.phase = "run" /\ d.at \in Nat /\ d.at > 0 /\ Pre \in Hook
  BY <1>1, AtRun
<1>3. Append(d.called, Pre) \in Seq(Hook) /\ d.at + 1 \in Nat /\ d.at + 1 > 0
  BY <1>2, DispatchTyped
<1>4. \/ d' = [[d EXCEPT !.called = Append(@, Pre)]
                 EXCEPT !.phase = "idle", !.outcome = "failed", !.raising = TRUE]
      \/ d' = [[d EXCEPT !.called = Append(@, Pre)] EXCEPT !.at = @ + 1]
  BY Zenon DEF RunRaises
<1>5. d' \in Dispatches
  <2>1. [d EXCEPT !.called = Append(@, Pre)] \in Dispatches
    BY <1>2, <1>3 DEF Dispatches
  <2>2. [d EXCEPT !.called = Append(@, Pre)].at + 1 \in Nat
    BY <1>2, <1>3 DEF Dispatches
  <2> DEFINE e == [d EXCEPT !.called = Append(@, Pre)]
  <2> HIDE DEF e
  <2>3. /\ [e EXCEPT !.phase = "idle", !.outcome = "failed", !.raising = TRUE] \in Dispatches
        /\ [e EXCEPT !.at = @ + 1] \in Dispatches
    <3>1. e \in Dispatches /\ e.at + 1 \in Nat
      BY <2>1, <2>2 DEF e
    <3> QED
      BY <3>1 DEF Dispatches
  <2> QED
    BY <1>4, <2>3 DEF e
<1>6. /\ d'.phase \in {"run", "idle"}
      /\ d'.phase = "run" => d'.at = d.at + 1
      /\ d'.at = d.at \/ d'.at = d.at + 1
      /\ d'.called = Append(d.called, Pre)
      /\ d'.known = d.known /\ d'.pres = d.pres /\ d'.posts = d.posts
      /\ d'.data = d.data /\ d'.passed = d.passed
  BY <1>2, <1>4 DEF Dispatches
<1>7. d'.at > 0
  BY <1>2, <1>3, <1>6
<1> QED
  BY <1>1, <1>2, <1>5, <1>6, <1>7, RunCalled

-------------------------------------------------------------------------------
(* The registry and the dispatch together.                                 *)

DispatchInv == Inv /\ WellFormed(hooks) /\ Dispatched(d)

LEMMA DispatchInit == Init => DispatchInv
<1> SUFFICES ASSUME Init PROVE DispatchInv
  OBVIOUS
<1>1. WellFormed({})
  BY FS_EmptySet DEF WellFormed
<1>2. /\ d.phase = "idle" /\ d.at = 1 /\ d.pres = <<>> /\ d.posts = <<>> /\ d.called = <<>>
      /\ d.passed = {} /\ d.data = <<>> /\ d.known = {} /\ d.cut = FALSE
  BY DEF Init
<1>3. d \in Dispatches
  <2>1. <<>> \in Seq(Hook) /\ <<>> \in Seq(1 .. MaxCalls)
    OBVIOUS
  <2> QED
    BY <2>1 DEF Init, Dispatches
<1>4. CalledInOrder(d) /\ Reached(d) /\ Data(d)
  BY <1>2, <1>3, Fresh
<1>5. IsQueue(<<>>, {}, "pre") /\ IsQueue(<<>>, {}, "post")
  <2>1. \A p : {h \in {} : h.position = p} = {}
    OBVIOUS
  <2>2. <<>> \in Seq({})
    OBVIOUS
  <2> QED
    BY <2>1, <2>2 DEF IsQueue, Sorted
<1>6. Queues(d) /\ EnteredIsKnown(d) /\ Unwinding(d)
  BY <1>2, <1>5 DEF Queues, ForScope, EnteredIsKnown, Unwinding, UnwoundUpTo
<1>7. Dispatched(d)
  BY <1>1, <1>2, <1>3, <1>4, <1>6 DEF Dispatched
<1> QED
  BY <1>1, <1>7, InvInit DEF DispatchInv, Init

LEMMA DispatchNext == DispatchInv /\ [Next]_vars => DispatchInv'
<1> SUFFICES ASSUME DispatchInv, [Next]_vars PROVE DispatchInv'
  OBVIOUS
<1>1. Inv /\ Inv' /\ WellFormed(hooks) /\ Dispatched(d)
  BY InvNext DEF DispatchInv
<1>2. CASE Changes
  <2>1. d' = d
    BY <1>2 DEF Changes, Register, Add, Freeze
  <2>2. Dispatched(d')
    BY <1>1, <2>1
  <2>3. ASSUME NEW name \in Names, NEW position \in Positions, NEW priority \in Priorities,
               NEW guard \in BOOLEAN, NEW builtin \in BOOLEAN,
               Register(name, position, priority, guard, builtin)
        PROVE  WellFormed(hooks')
    BY <1>1, <2>3, RegisterKeepsForm
  <2>4. ASSUME NEW hasPre \in BOOLEAN, NEW hasPost \in BOOLEAN, NEW guard \in BOOLEAN,
               Add(hasPre, hasPost, guard)
        PROVE  WellFormed(hooks')
    BY <1>1, <2>4, AddKeepsForm
  <2>5. ASSUME NEW positions, Freeze(positions) PROVE WellFormed(hooks')
    BY <1>1, <2>5 DEF Freeze
  <2>6. WellFormed(hooks')
    BY <1>2, <2>3, <2>4, <2>5 DEF Changes
  <2> QED
    BY <1>1, <2>2, <2>6 DEF DispatchInv
<1>3. CASE Dispatch
  <2>1. hooks' = hooks
    BY <1>3, DispatchChangesNothing DEF registry
  <2>2. Dispatched(d')
    BY <1>1, <1>3, BeginScopeStep, PreReturnsStep, PreRaisesStep, BodyEndsStep, PostSkippedStep,
       PostRunsStep, PostsCutStep, EndStep, BeginRunStep, RunReturnsStep, RunRaisesStep
       DEF Dispatch
  <2> QED
    BY <1>1, <2>1, <2>2 DEF DispatchInv
<1>4. CASE UNCHANGED vars
  BY <1>1, <1>4 DEF vars, registry, DispatchInv
<1> QED
  BY <1>2, <1>3, <1>4 DEF Next

LEMMA DispatchAlways == Spec => []DispatchInv
  BY DispatchInit, DispatchNext, PTL DEF Spec

FrozenKnown == frozen \subseteq Positions

LEMMA FrozenAreKnown == Spec => []FrozenKnown
<1>1. Init => FrozenKnown
  BY DEF Init, FrozenKnown
<1>2. FrozenKnown /\ [Next]_vars => FrozenKnown'
  <2> SUFFICES ASSUME FrozenKnown, [Next]_vars PROVE FrozenKnown'
    OBVIOUS
  <2>1. CASE Changes
    BY <2>1 DEF Changes, Register, Add, Freeze, FrozenKnown
  <2>2. CASE Dispatch \/ UNCHANGED vars
    BY <2>2, DispatchChangesNothing DEF registry, FrozenKnown
  <2> QED
    BY <2>1, <2>2 DEF Next
<1> QED
  BY <1>1, <1>2, PTL DEF Spec

-------------------------------------------------------------------------------
(* Pairs.                                                                  *)

LEMMA HalvesFollow ==
  ASSUME NEW H, WellFormed(H), NEW h \in H, NEW x \in H, h.pair = x.pair, h.pair # NoPair,
         h.position = "pre", x.position = "post"
  PROVE  /\ h.sequence \in Nat /\ x.sequence = h.sequence + 1
         /\ h.priority = 0 /\ ~ h.reverse /\ x.priority = 0 /\ x.reverse
<1>1. IsHalf(h) /\ IsHalf(x)
  BY DEF WellFormed
<1>2. PICK y \in H : y.pair = x.pair /\ y.position = "pre" /\ x.sequence = y.sequence + 1
  BY DEF WellFormed
<1>3. IsHalf(y)
  BY <1>2 DEF WellFormed
<1>4. y.name = h.name
  BY <1>1, <1>2, <1>3 DEF IsHalf
<1>5. y = h
  BY <1>4 DEF WellFormed
<1>6. h.sequence \in Nat
  BY DEF WellFormed, Hook
<1> QED
  BY <1>1, <1>2, <1>5, <1>6 DEF IsHalf

\* Two callbacks of one position were called in the order of their queue.
LEMMA CalledAsQueued ==
  ASSUME Dispatched(d), NEW i \in DOMAIN d.called, NEW j \in DOMAIN d.called,
         d.called[i].position = d.called[j].position
  PROVE  i < j <=> Precedes(d.called[i], d.called[j])
<1> DEFINE h == d.called[i]
           g == d.called[j]
<1>1. i \in Nat /\ j \in Nat
  BY DispatchTyped DEF Dispatched
<1>2. WellFormed(d.known) /\ h \in d.known /\ g \in d.known
  BY DEF Dispatched, CalledInOrder, Calls
<1>3. i < j => Before(h, g)
  BY DEF Dispatched, CalledInOrder
<1>4. j < i => Before(g, h)
  BY DEF Dispatched, CalledInOrder
<1>5. i = j => h = g
  OBVIOUS
<1>6. h.position = g.position
  OBVIOUS
<1> HIDE DEF h, g
<1>7. i < j => Precedes(h, g)
  BY <1>3, <1>6 DEF Before
<1>8. j < i => Precedes(g, h)
  BY <1>4, <1>6 DEF Before
<1>9. ~ Precedes(h, h) /\ ~ (Precedes(h, g) /\ Precedes(g, h))
  BY <1>2, PrecedesOrders
<1>10. i < j \/ i = j \/ j < i
  BY <1>1
<1>11. i < j <=> Precedes(h, g)
  BY <1>5, <1>7, <1>8, <1>9, <1>10
<1> QED
  BY <1>11 DEF h, g

-------------------------------------------------------------------------------
(* The theorems.                                                           *)

\* Names and sequence numbers are never given twice, so that each position has
\* exactly one order for entries() to return.
THEOREM OrderAlwaysTotal == Spec => []OrderIsTotal
  <1>1. Inv => OrderIsTotal
    BY DEF Inv
  <1> QED
    BY <1>1, InvInit, InvNext, PTL DEF Spec

\* The queue of a frozen position never changes again, whoever registers, replaces
\* or moves hooks.
THEOREM FrozenAlwaysStays == Spec => FrozenStays
  <1>1. ASSUME [Next]_vars
        PROVE  [\A p \in frozen : {h \in hooks : h.position = p}
                                    = {h \in hooks' : h.position = p}]_vars
    <2> SUFFICES ASSUME NEW p \in frozen
                 PROVE  {h \in hooks : h.position = p} = {h \in hooks' : h.position = p}
      OBVIOUS
    <2>1. ASSUME NEW name, NEW position, NEW priority, NEW guard, NEW builtin,
                 Register(name, position, priority, guard, builtin)
          PROVE  {h \in hooks : h.position = p} = {h \in hooks' : h.position = p}
      <3> DEFINE new(s) == NewHook(name, position, priority, s, guard, builtin)
      <3>1. \A s : new(s).position # p
        BY <2>1 DEF NewHook, Register, Unfrozen
      <3>2. CASE Named(name) = {}
        BY <2>1, <3>1, <3>2 DEF Register
      <3>3. CASE Named(name) # {}
        <4>1. PICK h \in Named(name) : hooks' = (hooks \ {h}) \cup {new(h.sequence)}
          BY <2>1, <3>3 DEF Register
        <4>2. h.position # p
          BY <2>1 DEF Register, Unfrozen
        <4> HIDE DEF new
        <4> QED
          BY <3>1, <4>1, <4>2
      <3> QED
        BY <3>2, <3>3
    <2>2. ASSUME NEW hasPre, NEW hasPost, NEW guard, Add(hasPre, hasPost, guard)
          PROVE  {h \in hooks : h.position = p} = {h \in hooks' : h.position = p}
      <3> DEFINE pre == Half("pre", sequence, guard)
                 post == Half("post", sequence + 1, guard)
      <3>1. p \notin {"pre", "post"}
        BY <2>2 DEF Add
      <3>2. pre.position # p /\ post.position # p
        BY <3>1, HalvesOf
      <3>3. hooks' = hooks \cup {pre} \cup (IF hasPost THEN {post} ELSE {})
        BY <2>2 DEF Add
      <3> HIDE DEF pre, post
      <3> QED
        BY <3>2, <3>3
    <2>3. ASSUME NEW positions, Freeze(positions)
          PROVE  {h \in hooks : h.position = p} = {h \in hooks' : h.position = p}
      BY <2>3 DEF Freeze
    <2>4. CASE Dispatch \/ UNCHANGED vars
      BY <2>4, DispatchChangesNothing DEF registry
    <2> QED
      BY <1>1, <2>1, <2>2, <2>3, <2>4 DEF Next, Changes
  <1> QED
    BY <1>1, PTL DEF Spec, FrozenStays


\* The registry's and the dispatch's variables keep their types.
THEOREM HooksTyped == Spec => []TypeOK
<1>1. DispatchInv /\ FrozenKnown => TypeOK
  BY DEF DispatchInv, FrozenKnown, Inv, Counted, WellFormed, Dispatched, TypeOK
<1> QED
  BY <1>1, DispatchAlways, FrozenAreKnown, PTL

\* The post hook of a pair runs if and only if the scope got past its pre hook,
\* and no hook runs twice, however the scope fails, is cancelled or is cut short of
\* its diagnostics, and whatever is registered meanwhile (hooks.py: scope).
THEOREM AlwaysUnwindsWhatItEntered == Spec => []UnwindsWhatItEntered
<1>1. DispatchInv => UnwindsWhatItEntered
  <2> SUFFICES ASSUME DispatchInv PROVE UnwindsWhatItEntered
    OBVIOUS
  <2>1. Dispatched(d) /\ WellFormed(d.known) /\ CalledInOrder(d)
    BY DEF DispatchInv, Dispatched
  <2>2. Called = Calls(d) /\ Called \subseteq d.known
    BY <2>1 DEF Called, Calls, CalledInOrder
  <2>3. ASSUME NEW i \in DOMAIN d.called, NEW j \in DOMAIN d.called, d.called[i] = d.called[j]
        PROVE  i = j
    <3>1. d.called[i] \in d.known
      BY <2>1 DEF CalledInOrder, Calls
    <3>2. ~ Precedes(d.called[i], d.called[i])
      BY <2>1, <3>1, PrecedesOrders
    <3>3. ~ (i < j) /\ ~ (j < i)
      BY <2>1, <2>3, <3>2, CalledAsQueued
    <3>4. i \in Nat /\ j \in Nat
      BY <2>1, DispatchTyped DEF Dispatched
    <3> QED
      BY <3>3, <3>4
  <2>4. ASSUME d.phase = "idle", ~ d.cut, NEW i \in DOMAIN d.posts
        PROVE  d.posts[i] \in Called <=>
                 \/ d.posts[i].pair = NoPair
                 \/ \E h \in d.passed : h.position = "pre" /\ h.pair = d.posts[i].pair
    <3>1. UnwoundUpTo(d, Len(d.posts) + 1)
      BY <2>1, <2>4 DEF Dispatched, Unwinding
    <3>2. i < Len(d.posts) + 1
      BY <2>1, DispatchTyped DEF Dispatched
    <3> QED
      BY <2>2, <3>1, <3>2 DEF UnwoundUpTo, Entered
  <2> QED
    BY <2>2, <2>3, <2>4 DEF UnwindsWhatItEntered
<1> QED
  BY <1>1, DispatchAlways, PTL

\* What was entered first is left last, for any pairs added in any order, before
\* and during the dispatch (hooks.py: add, entries).
THEOREM PairsAlwaysNest == Spec => []PairsNest
<1>1. DispatchInv => PairsNest
  <2> SUFFICES ASSUME DispatchInv,
                      NEW i \in DOMAIN d.called, NEW j \in DOMAIN d.called,
                      NEW k \in DOMAIN d.called, NEW l \in DOMAIN d.called,
                      d.called[i].pair = d.called[k].pair, d.called[i].position = "pre",
                      d.called[j].pair = d.called[l].pair, d.called[j].position = "pre",
                      NoPair \notin {d.called[i].pair, d.called[j].pair},
                      d.called[k].position = "post", d.called[l].position = "post"
               PROVE  i < j <=> l < k
    BY DEF PairsNest
  <2>1. Dispatched(d) /\ WellFormed(d.known) /\ \A m \in DOMAIN d.called : d.called[m] \in d.known
    BY DEF DispatchInv, Dispatched, CalledInOrder, Calls
  <2> DEFINE h == d.called[i]
             g == d.called[j]
             x == d.called[k]
             y == d.called[l]
  <2>2. (i < j <=> Precedes(h, g)) /\ (l < k <=> Precedes(y, x))
    BY <2>1, CalledAsQueued
  <2>3. /\ h.sequence \in Nat /\ x.sequence = h.sequence + 1
        /\ h.priority = 0 /\ ~ h.reverse /\ x.priority = 0 /\ x.reverse
    BY <2>1, HalvesFollow
  <2>4. /\ g.sequence \in Nat /\ y.sequence = g.sequence + 1
        /\ g.priority = 0 /\ ~ g.reverse /\ y.priority = 0 /\ y.reverse
    BY <2>1, HalvesFollow
  <2> HIDE DEF h, g, x, y
  <2>5. Precedes(h, g) <=> h.sequence < g.sequence
    BY <2>3, <2>4 DEF Precedes, Place
  <2>6. Precedes(y, x) <=> h.sequence < g.sequence
    BY <2>3, <2>4 DEF Precedes, Place
  <2> QED
    BY <2>2, <2>5, <2>6
<1> QED
  BY <1>1, DispatchAlways, PTL

\* The data shows the changes of exactly the callbacks that returned, in their
\* order, for any queue and whatever raises (hooks.py: run).
THEOREM NoFailedChangeLeaks == Spec => []FailedChangesDoNotLeak
<1>1. DispatchInv => FailedChangesDoNotLeak
  BY DEF DispatchInv, Dispatched, Data, Shows, Done, Rank, FailedChangesDoNotLeak
<1> QED
  BY <1>1, DispatchAlways, PTL
===============================================================================
