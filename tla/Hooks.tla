--------------------------------- MODULE Hooks ---------------------------------
(***************************************************************************)
(* The hook registry of hooks.py and the two ways to dispatch a position:  *)
(* scope(), which enters pre hooks, runs a body and unwinds post hooks, and *)
(* run(), which passes data through one queue of callbacks.                *)
(*                                                                         *)
(* Every callback is awaited, and while it is, other tasks (or the callback *)
(* itself) register, add and freeze.  A callback returns, or it raises, or *)
(* exceeds its timeout, which is the same; the diagnostic callback that is *)
(* then awaited may do so, too; and the dispatching task may be cancelled. *)
(*                                                                         *)
(* There is one scope, with the positions "pre" and "post", and one        *)
(* position "build" for run().  A callback is known by the number of the   *)
(* call that registered it.                                                *)
(***************************************************************************)
EXTENDS Integers, Sequences, FiniteSets

CONSTANTS
  Names,          \* names that register() is called with, none of them a pair's
  Priorities,     \* priorities it is given
  NoPair,         \* hook.pair is None
  May,            \* "diagnostic": on_error may raise; "cancel": the task is cancelled
  MaxCalls,       \* bound: calls that change the registry
  MaxDispatches   \* bound: dispatches

ASSUME PrioritiesAreIntegers == Priorities \subseteq Int
ASSUME NoneIsNoNumber == NoPair \notin Nat
ASSUME BoundsAreNaturals == MaxCalls \in Nat /\ MaxDispatches \in Nat

VARIABLES
  hooks,     \* the registered hooks, at most one of a name
  sequence,  \* _sequence: the next hook's place among equals
  pairs,     \* _pairs: pairs added so far
  frozen,    \* positions that are frozen
  calls,     \* calls that changed the registry
  d          \* the dispatch: see Dispatches

registry == <<hooks, sequence, pairs, frozen, calls>>
vars == <<registry, d>>

Positions == {"pre", "post", "build"}

\* What add() calls the two hooks of a pair.
PairNames == {"pair"} \X (0 .. MaxCalls) \X {"pre", "post"}

ASSUME NamesAreNotPairs == Names \cap PairNames = {}

Hook == [name : Names \cup PairNames, position : Positions, priority : Priorities \cup {0},
         sequence : Nat, guard : BOOLEAN, builtin : BOOLEAN, pair : Nat \cup {NoPair},
         reverse : BOOLEAN, callback : 1 .. MaxCalls]

\* One dispatch.  `passed' is history: the hooks whose callback returned; so is
\* `known', the hooks that were registered when the dispatch began.
Dispatches == [phase : {"idle", "pres", "posts", "run"}, at : Nat,
               pres : Seq(Hook), posts : Seq(Hook), entered : SUBSET Nat,
               outcome : {"succeeded", "failed"}, raising : BOOLEAN, cut : BOOLEAN,
               data : Seq(1 .. MaxCalls), called : Seq(Hook), passed : SUBSET Hook,
               known : SUBSET Hook, count : Nat]

TypeOK ==
  /\ hooks \subseteq Hook
  /\ sequence \in Nat /\ pairs \in Nat
  /\ frozen \subseteq Positions
  /\ calls \in 0 .. MaxCalls
  /\ d \in Dispatches

-------------------------------------------------------------------------------
(* The order of a queue.                                                   *)

\* Faulty: paired post hooks run in the order they were added.
PlaceForward(h) == h.sequence

Place(h) == IF h.reverse THEN -h.sequence ELSE h.sequence

\* Higher priority first, then first come first served; pairs unwind.
Precedes(h, g) ==
  h.priority > g.priority \/ (h.priority = g.priority /\ Place(h) < Place(g))

\* entries(): a snapshot of a position's queue.
Entries(position) ==
  LET queue == {h \in hooks : h.position = position} IN
  CHOOSE s \in [1 .. Cardinality(queue) -> queue] :
    \A i, j \in 1 .. Cardinality(queue) : i < j => Precedes(s[i], s[j])

-------------------------------------------------------------------------------
(* Changing the registry.  Each is one synchronous call; a call that raises *)
(* or returns early changes nothing.                                       *)

Named(name) == {h \in hooks : h.name = name}

Call == calls < MaxCalls /\ calls' = calls + 1

NewHook(name, position, priority, seq, guard, builtin) ==
  [name |-> name, position |-> position, priority |-> priority, sequence |-> seq,
   guard |-> guard, builtin |-> builtin, pair |-> NoPair, reverse |-> FALSE,
   callback |-> calls + 1]

\* Faulty: looks at the new position only.
UnfrozenTarget(name, position) == position \notin frozen

\* Neither the new position nor the one the name leaves may be frozen.
Unfrozen(name, position) ==
  /\ position \notin frozen
  /\ \A h \in Named(name) : h.position \notin frozen

\* register(): a name that is taken keeps its place in the order; a builtin
\* never takes the place of a custom hook.
Register(name, position, priority, guard, builtin) ==
  /\ Call
  /\ builtin => \A h \in Named(name) : h.builtin
  /\ Unfrozen(name, position)
  /\ IF Named(name) = {}
       THEN /\ sequence' = sequence + 1
            /\ hooks' = hooks \cup {NewHook(name, position, priority, sequence, guard, builtin)}
       ELSE LET h == CHOOSE h \in Named(name) : TRUE IN
            /\ hooks' = (hooks \ {h})
                 \cup {NewHook(name, position, priority, h.sequence, guard, builtin)}
            /\ UNCHANGED sequence
  /\ UNCHANGED <<pairs, frozen, d>>

Half(phase, seq, guard) ==
  [NewHook(<<"pair", pairs, phase>>, phase, 0, seq, guard, FALSE)
     EXCEPT !.pair = pairs, !.reverse = (phase = "post")]

\* Faulty: a pair without a pre callback has no entry point.
AddWithoutEntry(hasPre, hasPost, guard) ==
  /\ Call
  /\ {"pre", "post"} \cap frozen = {}
  /\ hooks' = hooks \cup (IF hasPre THEN {Half("pre", sequence, guard)} ELSE {})
               \cup (IF hasPost THEN {Half("post", sequence + 1, guard)} ELSE {})
  /\ sequence' = sequence + 2
  /\ pairs' = pairs + 1
  /\ UNCHANGED <<frozen, d>>

\* add(): both halves or neither.  A pair with a post hook always has a pre
\* hook, if only one that does nothing.
Add(hasPre, hasPost, guard) ==
  /\ Call
  /\ hasPre \/ hasPost
  /\ {"pre", "post"} \cap frozen = {}
  /\ hooks' = hooks \cup {Half("pre", sequence, guard)}
               \cup (IF hasPost THEN {Half("post", sequence + 1, guard)} ELSE {})
  /\ sequence' = sequence + (IF hasPost THEN 2 ELSE 1)
  /\ pairs' = pairs + 1
  /\ UNCHANGED <<frozen, d>>

\* freeze_positions().
Freeze(positions) ==
  /\ positions \notin SUBSET frozen
  /\ frozen' = frozen \cup positions
  /\ UNCHANGED <<hooks, sequence, pairs, calls, d>>

-------------------------------------------------------------------------------
(* scope().                                                                *)

PairsOf(queue) == {queue[i].pair : i \in DOMAIN queue} \ {NoPair}

\* Both queues are taken when the scope is entered.  A pair whose pre hook is
\* not in the queue counts as entered.
BeginScope ==
  /\ d.phase = "idle" /\ d.count < MaxDispatches
  /\ d' = [d EXCEPT !.phase = "pres", !.at = 1, !.count = @ + 1,
             !.pres = Entries("pre"), !.posts = Entries("post"),
             !.entered = PairsOf(Entries("post")) \ PairsOf(Entries("pre")),
             !.outcome = "succeeded", !.raising = FALSE, !.cut = FALSE,
             !.data = <<>>, !.called = <<>>, !.passed = {}, !.known = hooks]
  /\ UNCHANGED registry

InPres == d.phase = "pres" /\ d.at <= Len(d.pres)
Pre == d.pres[d.at]

\* An exception leaves the pre hooks or the body: the post hooks run, and learn.
Fail(e) == [e EXCEPT !.phase = "posts", !.at = 1, !.outcome = "failed", !.raising = TRUE]

PreReturns ==
  /\ InPres
  /\ d' = [d EXCEPT !.at = @ + 1, !.called = Append(@, Pre), !.passed = @ \cup {Pre},
             !.entered = IF Pre.pair = NoPair THEN @ ELSE @ \cup {Pre.pair}]
  /\ UNCHANGED registry

\* The callback raises: the diagnostic is awaited, and a guard passes it on.
PreRaises ==
  /\ InPres
  /\ \E unreported \in IF "diagnostic" \in May THEN BOOLEAN ELSE {FALSE} :
       d' = LET e == [d EXCEPT !.called = Append(@, Pre)] IN
            IF Pre.guard \/ unreported THEN Fail(e) ELSE [e EXCEPT !.at = @ + 1]
  /\ UNCHANGED registry

\* The task is cancelled while it awaits the callback: CancelledError is no
\* Exception.
PreCancelled ==
  /\ InPres /\ "cancel" \in May
  /\ d' = Fail([d EXCEPT !.called = Append(@, Pre)])
  /\ UNCHANGED registry

\* The body of the `async with' ends, in one of two ways.
BodyEnds ==
  /\ d.phase = "pres" /\ d.at > Len(d.pres)
  /\ \/ d' = [d EXCEPT !.phase = "posts", !.at = 1]
     \/ d' = Fail(d)
  /\ UNCHANGED registry

InPosts == d.phase = "posts" /\ d.at <= Len(d.posts)
Post == d.posts[d.at]

\* A post hook of a pair that was not entered is left out.
PostSkipped ==
  /\ InPosts
  /\ Post.pair # NoPair /\ Post.pair \notin d.entered
  /\ d' = [d EXCEPT !.at = @ + 1]
  /\ UNCHANGED registry

\* A post hook returns, or raises and the diagnostic is written: the next one.
PostRuns ==
  /\ InPosts
  /\ Post.pair = NoPair \/ Post.pair \in d.entered
  /\ \E returns \in BOOLEAN :
       d' = [d EXCEPT !.at = @ + 1, !.called = Append(@, Post),
               !.passed = IF returns THEN @ \cup {Post} ELSE @]
  /\ UNCHANGED registry

\* The diagnostic raises, or the task is cancelled in a post hook: the exception
\* leaves the `finally' and the rest of the post hooks are lost.
PostsCut ==
  /\ InPosts
  /\ Post.pair = NoPair \/ Post.pair \in d.entered
  /\ {"diagnostic", "cancel"} \cap May # {}
  /\ d' = [d EXCEPT !.at = Len(d.posts) + 1, !.called = Append(@, Post),
             !.cut = TRUE, !.raising = TRUE]
  /\ UNCHANGED registry

EndScope ==
  /\ d.phase = "posts" /\ d.at > Len(d.posts)
  /\ d' = [d EXCEPT !.phase = "idle"]
  /\ UNCHANGED registry

-------------------------------------------------------------------------------
(* run(): the context passes through the hooks of one position.  It is      *)
(* modelled by the callbacks whose changes it shows.                       *)

BeginRun ==
  /\ d.phase = "idle" /\ d.count < MaxDispatches
  /\ d' = [d EXCEPT !.phase = "run", !.at = 1, !.count = @ + 1, !.pres = Entries("build"),
             !.posts = <<>>, !.entered = {}, !.outcome = "succeeded", !.raising = FALSE,
             !.cut = FALSE, !.data = <<>>, !.called = <<>>, !.passed = {}, !.known = hooks]
  /\ UNCHANGED registry

InRun == d.phase = "run" /\ d.at <= Len(d.pres)

RunReturns ==
  /\ InRun
  /\ d' = [d EXCEPT !.at = @ + 1, !.data = Append(@, Pre.callback),
             !.called = Append(@, Pre), !.passed = @ \cup {Pre}]
  /\ UNCHANGED registry

\* Faulty: works on the caller's data.
RunRaisesInPlace ==
  /\ InRun
  /\ \E e \in {[d EXCEPT !.called = Append(@, Pre), !.data = Append(@, Pre.callback)]} :
       d' = IF Pre.guard THEN [e EXCEPT !.phase = "idle", !.raising = TRUE]
            ELSE [e EXCEPT !.at = @ + 1]
  /\ UNCHANGED registry

\* The callback raises, perhaps after it has changed its copy of the data; a
\* guard, a failing diagnostic and a cancellation end the run.
RunRaises ==
  /\ InRun
  /\ \E ends \in {Pre.guard} \cup (IF May = {} THEN {} ELSE {TRUE}) :
       d' = LET e == [d EXCEPT !.called = Append(@, Pre)] IN
            IF ends THEN [e EXCEPT !.phase = "idle", !.outcome = "failed", !.raising = TRUE]
            ELSE [e EXCEPT !.at = @ + 1]
  /\ UNCHANGED registry

EndRun ==
  /\ d.phase = "run" /\ d.at > Len(d.pres)
  /\ d' = [d EXCEPT !.phase = "idle"]
  /\ UNCHANGED registry

-------------------------------------------------------------------------------
Init ==
  /\ hooks = {} /\ sequence = 0 /\ pairs = 0 /\ frozen = {} /\ calls = 0
  /\ d = [phase |-> "idle", at |-> 1, pres |-> <<>>, posts |-> <<>>, entered |-> {},
          outcome |-> "succeeded", raising |-> FALSE, cut |-> FALSE, data |-> <<>>,
          called |-> <<>>, passed |-> {}, known |-> {}, count |-> 0]

Changes ==
  \/ \E name \in Names, position \in Positions, priority \in Priorities,
        guard, builtin \in BOOLEAN : Register(name, position, priority, guard, builtin)
  \/ \E hasPre, hasPost, guard \in BOOLEAN : Add(hasPre, hasPost, guard)
  \/ \E positions \in SUBSET Positions : Freeze(positions)

Dispatch ==
  \/ BeginScope \/ PreReturns \/ PreRaises \/ PreCancelled \/ BodyEnds
  \/ PostSkipped \/ PostRuns \/ PostsCut \/ EndScope
  \/ BeginRun \/ RunReturns \/ RunRaises \/ EndRun

Next == Changes \/ Dispatch

Spec == Init /\ [][Next]_vars

-------------------------------------------------------------------------------
(* Properties.                                                             *)

\* Every two hooks have an order, whatever was registered, replaced, moved or
\* refused: names and numbers are never given twice.
OrderIsTotal ==
  /\ \A h, g \in hooks : h # g => h.name # g.name /\ h.sequence # g.sequence
  /\ \A h \in hooks : h.sequence < sequence

\* The queue of a frozen position never changes again: nothing enters it, and
\* nothing is moved out of it by being registered somewhere else.
FrozenStays ==
  [][\A p \in frozen : {h \in hooks : h.position = p} = {h \in hooks' : h.position = p}]_vars

Called == {d.called[i] : i \in DOMAIN d.called}

\* The post hook of a pair runs if and only if the scope got past its pre hook,
\* and no hook runs twice: layers that were not reached are not unwound, however
\* the scope fails.  All of them were registered when the dispatch began, although
\* others are registered, replaced and moved while it waits.
UnwindsWhatItEntered ==
  /\ Called \subseteq d.known
  /\ \A i, j \in DOMAIN d.called : d.called[i] = d.called[j] => i = j
  /\ d.phase = "idle" /\ ~d.cut =>
       \A i \in DOMAIN d.posts :
         d.posts[i] \in Called <=>
           \/ d.posts[i].pair = NoPair
           \/ \E h \in d.passed : h.position = "pre" /\ h.pair = d.posts[i].pair

\* Pairs nest: what was entered first is left last.
PairsNest ==
  \A i, j, k, l \in DOMAIN d.called :
    /\ d.called[i].pair = d.called[k].pair /\ d.called[i].position = "pre"
    /\ d.called[j].pair = d.called[l].pair /\ d.called[j].position = "pre"
    /\ NoPair \notin {d.called[i].pair, d.called[j].pair}
    /\ d.called[k].position = "post" /\ d.called[l].position = "post"
    => (i < j <=> l < k)

\* The data shows the changes of exactly the callbacks that returned, in their
\* order: a callback that fails leaves nothing behind.
FailedChangesDoNotLeak ==
  LET done == {i \in DOMAIN d.called : d.called[i].position = "build" /\ d.called[i] \in d.passed}
  IN  /\ Len(d.data) = Cardinality(done)
      /\ \A i \in done : d.data[Cardinality({j \in done : j <= i})] = d.called[i].callback

\* What the documentation says of pairs: each pair that was entered is left.
EnteredPairsExit ==
  d.phase = "idle" =>
    \A h \in d.passed, i \in DOMAIN d.posts :
      h.position = "pre" /\ h.pair # NoPair /\ d.posts[i].pair = h.pair => d.posts[i] \in Called
===============================================================================
