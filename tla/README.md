# MiniHarness in TLA+

MiniHarness is a single-owner agent runtime: clients put inputs into a durable
queue, one worker task per session serves them turn by turn by calling a model
and its tools, and everything that matters is an event in an append-only log
from which the state is replayed. This directory holds TLA+ modules for the
parts where interleavings, failures and restarts decide what is right, the TLC
configurations that check them on small instances, and TLAPS proofs for every
value of the constants.

    tlc -config Store.cfg MCSessionStore.tla      # model-check one run
    tlapm FileToolsProofs.tla                     # check the proofs of one module

Paths such as `runtime.py:402` are relative to `src/miniharness/`.

## 1. Inventory

| component | state it keeps | operations | who it talks to | what makes it correct |
|---|---|---|---|---|
| SessionStore (`storage.py`) | the log file, a file lock, `events`, `_ids`, `_poisoned` | `open` (lock, validate, repair, create), `append`, `close` | called by Runtime only; the file system; other processes through the lock | the log always validates; memory equals the log; what `append` returned survives; nobody else writes |
| State (`state.py`) | queue, requests, current turn, messages, actions, jobs, notifications | `apply(event)` | fed by Runtime live and at replay | the parts agree with each other; every log that is written can be replayed |
| Runtime (`runtime.py`) | worker task, `_cancel`, `_active`, tickets, job tasks, `_poisoned` | `start`, `submit`, `cancel`, `close`, the drain loop, turns, steps, batches, boundaries, compaction, jobs, recovery | clients, store, provider, tools, hooks | requests are served once, in order; calls get their own honest result; nothing is stranded; recovery is idempotent |
| Context pairing (`context.py`) | none | `validate_pairing`, token estimate | Runtime before each model call | the context sent is well formed |
| Hooks (`hooks.py`) | registered hooks, sequence and pair counters, frozen positions | `register`, `add`, `freeze_positions`, `entries`, `scope`, `run` | called by Runtime at each position; its callbacks may call it back | layers that were entered are left, in reverse; a failing callback leaves no trace in the data; frozen queues stay |
| File tools (`tools/__init__.py`) | the file, path locks, temporary files, artifacts, a worker thread per call | `execute`, `_settle_task`, `read`, `write`, `edit`, `snapshot`, `atomic_write`, `path_lock` | the file system; the same tools in other processes; programs that use none of this | an edit replaces exactly what it was computed from; reports are true; ownership is kept until the thread ends |
| Byte ranges (`tools/__init__.py`) | none (the reader's `next_offset`) | `read` by range, `preview` | the model that asks for pages | pages join, progress and never split a character |
| Bash jobs (`tools/__init__.py`) | a process group, two drain tasks, flags | `run_bash_job`, its cleanup | processes, the file system | the call ends and leaves nothing behind of a process it got hold of; the report says what is known |
| HTTP provider (`providers/http.py`) | the attempt, the failures so far, the stream's state | `complete`, `_stream`, `_parse`, `_checked`, `_attempt_usage` | an HTTP service, `on_delta` | no answer out of an incomplete stream; no attempt's text mixed with another's; usage neither lost nor counted twice |
| Prompt, config, trace, CLI, models | – | formatting, parsing, terminal I/O | – | not modelled, see section 8 |

**How they interact.** All of Runtime runs on one asyncio event loop: `submit`,
`cancel`, `close` and the ends of jobs are other tasks that act only while the
worker is suspended in an await (hooks, provider, tool, summary). Every state
change goes through `_record`: append to the store (write, fsync), then apply
to `self.state`. A failure between the two poisons the runtime. At start the
events are replayed and `_recover` closes what was open. Tools run in threads or
in tasks that the runtime awaits; the provider's call is one awaited coroutine
that reports deltas on its way.

**What is hard.** Arrivals during the awaits of a turn's last boundary; a flag
read before an await and used after it; cancellation and `turn_timeout` at any
await; a crash or a failed write between any two records, in recovery too; a
client repeating a `request_id`; jobs ending at any time; hooks that fail and
whose diagnostics fail, or that change the registry that is dispatching them;
torn lines and late flushes in the log; two processes and a shell command on one
file; threads and descendants that outlive the one who asked for them; streams
whose pieces come in any order and may stop anywhere. `PROJECT.json` lists them
under `hazards`, each with its line and the properties aimed at it.

## 2. Modules

    DurableLog (abstract)                     RequestLedger (abstract)
         ^ refinement                              ^ refinement
    SessionStore --- SessionStoreProofs       RuntimeProperties --- MCRuntime
         |                                         |         |
    MCSessionStore      SessionState --- Runtime --'    RuntimeProofs --- RuntimeCallsProofs

    FileRegister (abstract)
         ^ refinement
    FileTools --- FileToolsProofs             Hooks --- HooksProofs
         |                                      |
    MCFileTools                               MCHooks

    BashJob --- BashJobProofs                 HTTPProvider --- HTTPProviderProofs
       |                                           |
    MCBashJob                                 MCHTTPProvider

    ByteRange --- ByteRangeProofs
       |
    MCByteRange

* **SessionStore** – `storage.py`. Several handles, in any processes, on one
  file. The file is `file` (complete lines), `tail` (an event whose line is
  there only in part) and `synced` (lines that certainly survive a power loss).
  `append` is two steps, `AppendEvent` (write and flush) and `Sync`, each of
  which may fail; `open` is `Open`, then `Repair` if there is a tail, then
  `Create` for an empty log; `Close` releases the lock after flushing whatever a
  failed append left in the Python buffer. `Crash` and `PowerLoss` strike at any
  step. An `append` of a known `event_id` returns or raises without changing
  anything, so it is no action. Inspectors are handles with `repair=False`
  (`inspect` in the CLI validates without opening a handle and changes nothing).
* **DurableLog** – the abstract promise of all handles together: a log that grows by
  one new event at a time, loses nothing that was acknowledged, and of a failed
  append holds the event or not, which is settled before the log is opened
  again. This is what Runtime assumes of a record.
* **SessionState** – `state.py`: one operator per event kind that changes what
  the control reads, from a state to a state. A request's `status`, the `queue`
  and `turnRequests` are kept separately as in the code. `replayable` becomes
  FALSE when an event reaches the log that `apply` raises on.
* **Runtime** – `runtime.py`. The worker is the record `w`: a program counter and
  the local variables of `_drain`, `_run_turn`, `_safe_boundary`,
  `_execute_batch`, `_compact_now`. `Awaits` are the counters at which it is
  suspended; all other tasks require the counter to be one of these. Each
  `_record` is one step (`Record`), which may fail: then the event is in the log
  or it is not (`state' \in {state, next}`), as DurableLog has it (`GiveUp`,
  `Settle`), and the runtime is poisoned. `state` is what the log replays to,
  so it is also what a restarted runtime starts from: `Crash` drops everything
  but `state`, and `Start`, `CloseCall`, `CommitClosed`,
  `RecoverTurn`, `RecoverJob`, `Resume` are the recovery.
* **RequestLedger** – the abstract promise of `submit`: a request is absent, then
  queued, then perhaps accepted, then has one final outcome, and a client is
  told only that outcome.
* **RuntimeProperties** – the properties of Runtime, and its refinement of
  RequestLedger (`Ledger`, `LedgerSpec`).
* **FileTools** – `read`, `write` and `edit` of one path by the sessions of several
  processes, with `execute` and `_settle_task` around them. The file system is
  `disk` (every inode there has been: two parts and a modification time) and
  `entry` (the inode that the path names). A call is its thread's program
  counter; each system call that another program can get in front of is a step
  of its own. What programs do that ignore the lock is `OutsideWrites`.
* **FileRegister** – the abstract promise of the file tools: a register with
  compare-and-swap, as long as everybody uses them.
* **ByteRange** – byte ranges and previews of a UTF-8 text as pure functions of
  sizes and character boundaries, and a reader that follows `next_offset` or
  jumps.
* **Hooks** – the registry and one dispatch at a time, by `scope` or `run`, while
  the registry is changed between any two callbacks. `copy()` makes an independent
  registry, which is another instance.
* **BashJob** – one shell command: its processes, their group and pipes, the drain
  tasks, `run_bash_job` from the awaited start to its cleanup.
* **HTTPProvider** – one call of `complete`: attempts, error bodies, back-off, and
  for each of the three wire protocols the stream parser as a state machine over
  events that arrive in any order.
* **MC…** – the instances for TLC. **…Proofs** – lemmas, inductive invariants and
  theorems.

Operators marked `Faulty:` are not used by any specification. Each is a
plausible mistake in the definition it stands before (a dropped guard, a wrong
order, a missing reset), and `PROJECT.json` names the property that TLC finds
violated once it is put in.

### What the actions correspond to

Runtime:

| code | actions |
|---|---|
| `_drain` | `Drained`, `DrainCompact`, `StartTurn`, `StopPoisoned` |
| `_run_turn` | `StartTurn`, `PreTurn`, `LeaveHead`, `LeaveTail`, `Unwind`, `RejectEntry`, `EndTurn`, `PostTurn`, `PostTurnFails`, `TurnTimesOut` |
| `_accept`, `_safe_boundary` | `AcceptUser`, `RefuseUser`, `PostUser`, `PostUserFails`, `EnterBoundary`, `TakeNotification`, `TakeInput` |
| `_ensure_budget` | `Fits`, `Outgrown`, `DoesNotFit` |
| `_run_step`, `_generate` | `CallModel`, `StepRefused`, `ModelReplies`, `ModelFails`, `ModelInterrupted`, `PostAssistant`, `PostStep` |
| `_execute_batch` | `SkipCall`, `OfferCall`, `StartAction`, `RefuseAction`, `ToolReturns`, `ToolInterrupted`, `PostAction`, `PostActionFails`, `CommitBatch` |
| `_manual_compact`, `_compact_now` | `StartCompact`, `CallCompactor`, `CommitSummary`, `SummaryFails`, `SummaryInterrupted`, `PostCompact` |
| `_close_open_batch` | `CloseCall`, `CommitClosed` |
| `_start_unlocked`, `_recover` | `Start`, `RecoverTurn`, `RecoverJob`, `Resume` |
| `submit`, `cancel`, `close`, `_run_job` | `Submit`, `Resubmit`, `Cancel`, `Close`, `Closed`, `JobEnds` |

The other components:

| code | actions |
|---|---|
| `execute`, `_settle_task` | FileTools: `Start`, `Cancel`, `Settle`, `Crash` |
| `path_lock` | `Acquire`, `AcquireTimesOut`; leaving it is part of `End` and `StatAfter` |
| `snapshot`, and the checks after it | `StatBefore`, `ReadFirst`, `ReadRest`, `StatAfter` |
| `atomic_write` | `WriteTemp`, `WriteFails`, `Publish`, `Release` |
| `read`, `artifact` | `Keep`, `KeepFails` |
| `register`, `add`, `freeze_positions` | Hooks: `Register`, `Add`, `Freeze` |
| `scope` | `BeginScope`, `PreReturns`, `PreRaises`, `PreCancelled`, `BodyEnds`, `PostSkipped`, `PostRuns`, `PostsCut`, `EndScope` |
| `run` | `BeginRun`, `RunReturns`, `RunRaises`, `EndRun` |
| `create_subprocess_exec` and its exceptions | BashJob: `Spawn`, `Connected`, `ConnectFails`, `CancelSpawn` (`CloseTransport`) |
| `run_bash_job` after it | `Waited`, `StreamsEnded`, `TimesOut`, `Cancel`, `Report`, `ReportFails` |
| its cleanup | `Kill`, `Reaped`, `Gathered`, `CleanupTimesOut`, `Abandon` |
| `drain` | `Read`, `Drained` |
| the command (external) | `Fork`, `LeaveGroup`, `Write`, `Exit` |
| `complete` | HTTPProvider: `ErrorStatus`, `ErrorBody`, `Reported`, `SleepEnds`, `Accepted`, `TransportFails`, `BodyArrives`, `Cancel` |
| `_stream`, `handle` | `Receive` (`OutOfOrder`, `Handled`), `StreamBreaks`, `StreamEnds` |
| `_parse`, `_checked` | `Body`, `WellFormed`, `Says`, `Checked`, in `Answer` |
| `_attempt_usage`, the exceptions' usage | `Counted`, in `Ended` |
| `read` by range | ByteRange: `StartOf`, `Cut`, `Page`, in `Follow` and `Jump` |
| `preview` | `Preview`, in `Page` and `ReadFull` |

### What is abstracted

* Texts, arguments, usage, todo lists, configuration hash, epoch, fingerprints:
  no control depends on them. Sizes (the token estimate) become a choice in
  `_ensure_budget` and in where a compaction splits. A todo action is a tool
  call like any other.
* "Context changed while compacting" (`runtime.py:922`) has no action: only the
  worker changes messages, and it is the one that waits.
* Random ids are numbers in the order of creation; provider call ids are model
  values the provider may choose again.
* Adjacent awaits with no state change between them are one await: `pre_step`
  and `pre_assistant`; `post_action` and the `on_event` callback; all post hooks
  that run while an exception unwinds. The callback after `job.completed` is
  left out.
* A guard that fails by its hook timeout gives the turn the outcome `limited` in
  the code and `failed` here: the two are treated alike.
* `life = "down"` says that no started Runtime object exists. A runtime that
  failed in `start()` needs a new object, as in the code.
* Runtime crashes without a power loss: what it has recorded is still there. The
  power losses are in SessionStore.
* A successful fsync is taken to make every line before it durable.
* FileTools: a file is read in two parts, enough to see one part old and one part
  new. Every change in place is taken to alter the modification time, as the code
  relies on (a file system with a coarse clock could hide one). Digests are the
  contents. A crash that leaves a temporary file behind changes nothing else.
* Hooks: a callback that exceeds its timeout raises. Names given to `register`
  differ from those `add` makes up (`NamesAreNotPairs`). The data of `run` is the
  list of the callbacks whose changes it shows.
* BashJob: output is counted in chunks. What asyncio does when the await of
  `create_subprocess_exec` ends with an exception, to close the transport, which
  kills the shell alone, and wait for it, is one step. A cancellation that arrives
  in the cleanup is kept by `_settle_task` until the cleanup has ended, so several are one.
* HTTPProvider: an event is its kind, the block it belongs to, an identifier and a
  stop reason. The code merges usage field by field over the events of a stream;
  here it is known by the last event that carried some. An `on_delta` that
  is cut short during a stream is a cancellation before the next event.
* ByteRange: the file does not change between the pages (full text is kept in an
  immutable artifact; a changed file is a different digest). Limits are 4 or more,
  as the tool's schema demands.

## 3. Runs

| run | module / cfg | what it shows | distinct states |
|---|---|---|---|
| `store` | MCSessionStore / Store | valid log, memory is the log, acknowledged events are durable; refinement of DurableLog | 62 thousand |
| `steer_compact` | MCRuntime / SteerCompact | requests: consistency of queue, statuses and turn; oldest first; nothing missed by a completed turn; nothing stranded; no ticket forgotten; refinement of RequestLedger | 96 thousand |
| `batch` | MCRuntime / Batch | tool calls: pairing, own results, honest results, replayable log, at most one late start, acknowledged jobs run | 62 thousand |
| `compaction` | MCRuntime / Compaction | pairing and tickets under compaction, failing diagnostics, timeout and cancel | 20 thousand |
| `jobs` | MCRuntime / Jobs | jobs end once; inputs and jobs settle; close ends (fairness) | 148 thousand |
| `files` | MCFileTools / Files | refinement of FileRegister, whole snapshots, creation never replaces, honest reports, threads awaited | 6.8 million |
| `layers` | MCHooks / Layers | unwinding, nesting, no leak of failed changes, frozen queues | 2.7 million |
| `command` | MCBashJob / Command | the call ends (fairness), leaves nothing behind, reports the truth | 50 thousand |
| `provider` | MCHTTPProvider / Calls | whole answers, one attempt heard, honest usage, known usage kept by failures | 7.8 million |
| `paging` | MCByteRange / Paging | pages join, are whole text, progress; previews keep their bound | 94 thousand |
| `cancel_in_compact`, `double_completion` | MCRuntime | two disagreements, section 4 | – |

Bounds, and why they are enough. *Store*: two handles exclude or replace each
other, three event ids and two payloads allow a retry with the same and with
another content, four lines and four failures allow a failed flush, a second
failure while that is being repaired, and two more appends. *SteerCompact*: one
request of each mode, so that every pair of modes meets in a queue and in a
boundary; `Capacity = 2` is smaller than the number of requests, so the queue
gets full; `MaxSteps = 2` lets a steer arrive in the last allowed step.
There are no jobs here, so the parts of `CompletedTurnMissesNothing`
and `OldestFirst` about notifications are idle in this run and rest on their
theorems (section 7).
*Batch*: three calls, one that fails the schema check, one that starts a job,
two steps. One job does not reach the job limit (run `jobs` does, and the theorem
about `AcknowledgedJobsRun` holds at any limit), and without a compaction no call id
comes again (ReusedCallId, section 4). With `MaxFaults = 2` a crash can hit the
recovery from a crash.
*Compaction*: `KeepTurns = 1` with two requests makes the split fall between
turns, at the end and nowhere; `MaxActions = 1` with two calls makes the second
one be skipped. *Jobs*: two turns, but two call ids in all, so one batch
of two job calls; with `JobLimit = 1` one of them is refused at the limit while the
other runs, possibly into the second turn. `MaxCancels = 1`
suffices for the questions asked here: a second `cancel()` finds the flag set.
*Files*: two sessions with two calls each: two edits of the same text that can
race, a read, and a write that is to create the file; one crash or failing
system call, one cancellation and one step of a program outside, each at any
point. Everything these show is also proved without bounds (section 7). *Layers*:
three calls that change the registry, before or during one dispatch, with two
priorities and one name that can be replaced and moved: two pairs that nest and a
hook between them. *Command*: a shell and two descendants, of which one may leave
the group and the other keep a pipe open, and one chunk more than is kept of each
stream. *Calls*: two blocks and two identifiers, so that pieces can go to the
wrong block or share an identifier, six events, which is a message of one block
with every kind of event, or one of five and one more out of place, and one retry;
indices and identifiers are interchangeable, so they are symmetric. *Paging*: ten bytes hold
every pattern of characters of one to four bytes on both sides of two page
borders of four and six, and the preview of seven is exceeded by the longer
texts.

The deadlock check is off where a system may stop for good: in `compaction` (a
poisoned runtime that nobody closes there), and in `files`, `layers`, `command`
and `provider`, which end when the calls are made. In the other runs `close` or
the next input is always possible.

`May` says what the environment may do in an instance (crash, failed write,
failing guard, failing diagnostic, provider failure, timeout, oversize context,
close, cancellation, programs outside). Properties are stated for the instances
in which the code keeps them; section 4 has the rest.

## 4. Disagreements between the code and its documents

Each has a configuration of its own that checks one property, which TLC finds
violated. Two of them are runs of `PROJECT.json`:

* `cancel_in_compact` – **NoStrandedInput.** `cancel()` during a compaction
  outside a turn escapes `except Exception` (`runtime.py:831`) as
  `CancelledError` and ends the worker of a healthy runtime with input queued.
* `double_completion` – **LogReplays.** A `post_action` hook that fails together
  with its diagnostic callback makes `_execute_batch` (`runtime.py:703`) commit
  the action twice; the log cannot be replayed from then on.

The others are checked by hand, `tlc -config X.cfg M.tla`:

| X.cfg, M | property | what the code does | what is said of it |
|---|---|---|---|
| LateStart, MCRuntime | `NoLateStart` | A `cancel()` during the awaited `pre_action` hooks does not stop the action: the flag was read before (`runtime.py:670`). `AtMostOneLateStart` (run `batch`) is what does hold. | docs/architecture/04-tool-session-runtime.md:59: cancel prevents new side effects |
| ReusedCallId, MCRuntime | `ResultsAreOwn` | After a compaction a provider call id may be used again (`runtime.py:591`), and `_close_open_batch` (`runtime.py:238`) then shows the old action's result for the new call. | docs/architecture/04-tool-session-runtime.md:55: duplicate ids are rejected, internal ids kept apart |
| Unsynced, MCSessionStore | `OnlySyncedIsPublished` | `open()` publishes lines that a crash or failed fsync left unsynced (`storage.py:123`), and syncs nothing unless it repairs a tail; a power loss can still take them. They were never acknowledged by `append`. | `storage.py:3`: only a successful fsync publishes an event to memory |
| TwoLockDirs, MCFileTools | `NoLostUpdate` | Lock files lie in the process's temporary directory (`tools/__init__.py:87`), which TMPDIR sets: two processes may use different ones and lose an edit. | README.md:71: path locks and version hashes prevent lost updates between cooperating processes |
| UnwindCut, MCHooks | `EnteredPairsExit` | A cancellation in a post hook, or a diagnostic that raises, ends the unwinding (`hooks.py:198-204`); the other entered pairs' post hooks never run. | README.md:113: pairs enter in order and exit in reverse |
| EffectDenied, MCBashJob | `EffectsNotDenied` | When the output cannot be stored after the command ran (`tools/__init__.py:558`), `execute` reports a failure with effect `none` (`tools/__init__.py:678`). So does an OSError while the pipes of a started command are connected (`tools/__init__.py:473`). | README.md:71: effects that cannot be confirmed are `unknown`, as the background path has it (`runtime.py:738`) |
| SpawnCancelled, MCBashJob | `GroupEndsWithCall` | A cancellation in the await of `create_subprocess_exec` (`tools/__init__.py:462-474`) comes before the cleanup exists, and only OSError is caught: asyncio kills the shell, but no `killpg` follows, and what the shell has started in its group lives on. `NothingLeftBehind` (run `command`) is what does hold. | Nothing is promised for this await in so many words; the cleanup of every later one kills the group, and tests/test_tool_edges.py:108 asks a cancelled command to clean up, with `create_subprocess_exec` patched so that the await returns at once |
| IncompleteUsage, MCHTTPProvider | `KnownUsageKept` | A Responses stream that ends with `response.incomplete` or `response.failed` carries usage that `handle` does not take over before it raises (`providers/http.py:549-552, 622-624`). Events out of place are refused without the usage known so far, too (`providers/http.py:544, 554, 590-619`). `KnownUsageSurvives` (run `provider`) is what does hold. | docs/AI_DEVELOPMENT.md:32: exceptions carry the available usage |
| CancelledReport, MCHTTPProvider | `KnownUsageKept` | A failed attempt is reported (`providers/http.py:420`) before it is listed (`providers/http.py:425`); a cancellation in between loses its usage. | README.md:134: known usage of failed attempts is counted |

The cause of `double_completion` has a second face without a configuration: with
failing diagnostics on `post_user` of a steer, `_safe_boundary`
(`runtime.py:394`) records `input.rejected` for a request that is accepted
already. Therefore `RequestsConsistent` and `LedgerSpec` are checked in a run
without failing diagnostics, and their theorems assume the same.

## 5. Properties

*Store.* `LogIsValid`, `MemoryIsTheLog`, `AckedIsDurable`, `LogSpec` (refinement).
*Requests.* `RequestsConsistent`, `LedgerSpec` (refinement), `OldestFirst` (action
property), `CompletedTurnMissesNothing`, `NoStrandedInput`, `NoTicketForgotten`.
*Tool calls.* `PairedAtRequest`, `ResultsAreOwn`, `EffectsAccountedFor`,
`LogReplays`, `AtMostOneLateStart`.
*Jobs.* `AcknowledgedJobsRun`, `JobsEndOnce` (action property).
*Files.* `RegisterSpec` (refinement), `SnapshotsAreWhole` and `CreateNeverReplaces`
(action properties), `ReportsAreHonest`, `ThreadsAreAwaited`.
*Pages.* `PagesJoin`, `PageIsText`, `PreviewIsHonest`.
*Hooks.* `UnwindsWhatItEntered`, `PairsNest`, `FailedChangesDoNotLeak`,
`FrozenStays` (action property).
*Commands.* `NothingLeftBehind`, `ReportIsTrue`.
*Provider.* `AnswerIsWhole`, `OneVoice`, `UsageIsHonest`, `KnownUsageSurvives`.
*Liveness.* `EverythingSettles`, `CloseEnds`, `CallEnds`.
Each is stated in words above its definition. Type invariants are proved in the
proof modules of SessionStore, Runtime, FileTools, BashJob, HTTPProvider and Hooks.

## 6. Fairness

`Runtime!FairSpec` (run `jobs`) is weakly fair:

* `WorkerStep`: the event loop runs a task that is ready; hooks end within their
  timeout, the provider and the tools within theirs.
* `StartStep`: somebody opens the session again. The code has no supervisor, so
  this is an assumption about the user; without it a crash would be the end.
* `Closed`: `close()` is an awaited coroutine whose waits have ended.
* `JobEnds(j)`: a job's process ends or is killed at its timeout.

Nothing is assumed of clients (`Submit`, `Cancel`, `Close`), of crashes or of
failures.

`BashJob!FairSpec` (run `command`) is weakly fair in `Main`, the steps of the
coroutine that are ready, and in `Timers`, its two deadlines, both of which the
event loop provides. Nothing is assumed of the command: its processes may run,
write and fork for ever, and the drain tasks may never be scheduled; `CallEnds`
holds because of the two deadlines alone.

The other specifications state safety only.

## 7. Proofs

Eight modules hold proofs, for every value of the constants that satisfies the
`ASSUME`s of the module they extend, and for every bound.

`SessionStoreProofs` proves the type invariant and the four store properties, the
refinement of DurableLog among them. The
assumptions are those of SessionStore: inspectors are handles, the bounds are
naturals, `Created` is no event id of a caller, and `NoHandle` is no handle.

None of the invariants is inductive alone. That the log stays valid when a line
is written needs the writer's memory to be the log; that needs nobody else to
write, hence the lock; and that needs `close()` of a poisoned handle, which
flushes a late line, to add a line that still fits. `HandlesAgree` says just
that, and `Inv`, the conjunction of the invariants, is inductive. The proof has one
lemma per action; `Alone` (the others are closed while one is not) carries the
exclusion. It rests on lemmas about logs: a prefix of a valid log is valid
(`ValidPrefix`, for power losses), an event with the next number and a new id
may be appended (`ValidAppend`), cutting twice is cutting once
(`PrefixOfPrefix`), cutting behind an append is cutting before it
(`PrefixOfAppend`). `LogSpec` follows from `Inv` action by action: the log is owned
while the handle that is not closed is not poisoned, and something may land late
while a poisoned one has a line in its buffer (`OwnerIsOne`).

`RuntimeProofs` proves two properties of Runtime for every set of requests, every
assignment of modes, every `Replies` and every bound: `RequestsConsistent`, and
`LedgerSpec`, the refinement of RequestLedger. Besides the assumptions of
Runtime it needs `"diagnostic" \notin May`: when a post_user hook and the
on_error callback both raise, the code finishes an input that it has accepted
already, and the two properties fail (section 4).

Neither is inductive. That an input may move from the queue to the turn needs it
to be in the queue when the worker gets to it, many awaits after the worker took
it from `_drain` or put it on a boundary's work list; that its ticket may be told
the outcome after `post_turn` needs the outcome that was recorded before. The
invariant, `Inv`, is the conjunction of

* `AllTyped`: the part of the type invariant that is about requests;
* `Consistent(state)`: `RequestsConsistent`, of any state, so that it can be
  stated of an event's result before the event is recorded;
* `WorkerLocated`: for each place of the worker, what it may rely on – a turn
  runs there or not, the turn's entry is queued, accepted or refused
  (`EntryAccountedFor`), the work list names entries that are still in the queue
  with the sequence numbers they had (`WorkIsQueued`), the timer is on in a turn
  only;
* `TicketsHonest`: an answered ticket shows what is on record, and a turn that has
  ended owes tickets for requests with its outcome only.

The proof first says what each event does to requests (`UserAcceptedIs`,
`TurnEndedIs`, ...), then what a record does, written or failed, of an event that
is about requests (`MovingRecord`, `FailedRecord`) or not (`QuietRecord`), then
takes the actions one by one: each keeps `Inv` and is a step or a stutter of the
ledger (`Safe`). That the first item of a work list is one of its items is a
theorem about least numbers (`LeastNumber`, from well-founded induction).

`RuntimeCallsProofs` proves Runtime's full type invariant and its other ten safety
properties, again for every script, set of requests, mode, fault and bound. What
is assumed beyond that, and why it must be:

| property | proviso |
|---|---|
| `PairedAtRequest`, `AtMostOneLateStart`, `CompletedTurnMissesNothing`, `AcknowledgedJobsRun`, `JobsEndOnce`, `NoTicketForgotten`, `OldestFirst` | none |
| `LogReplays` | `"diagnostic" \notin May`; `double_completion` is the counterexample |
| `ResultsAreOwn`, `EffectsAccountedFor` | `[][IdsAreNew]_vars`: a call id that enters the context serves no action yet. `EffectsWithoutCompaction` derives the two from `NoCompaction` instead, since a reply that reuses an id of the context is refused. `ReusedCallId.cfg` has the counterexample for the first |
| `NoStrandedInput` | `[][~LosesWorker]_vars`: no `cancel()` ends a compaction outside a turn, which `cancel_in_compact` shows to strand input, and no diagnostic fails after `post_turn` |

The invariants, each on top of the ones before:

* `CallsInv` – `TypeOK`; `Sane(state)`: the context is paired but for one batch at
  its end, which belongs to the running turn; `Lifecycle`: where the worker can be
  in each phase, what each of its places relies on (`Shaped`), and, while a batch
  is executed, that the actions behind the batch's first number are its calls in
  order and only the last of them may be open (`AtCall`). Pairing is not
  inductive without it: that `CommitBatch` appends the results of exactly the
  calls asked for needs the batch to be the last message all the time its calls
  are offered, skipped, executed and interrupted.
* `Traced` – for each tool message and each open action, the call it served.
  Closing a batch looks up actions by call id, so this needs ids to be new.
* `LateOnce` – a late start is the step from `preAction` after a cancellation, and
  afterwards the worker is never at `preAction` again in that turn.
* `EndsAsItShould` – a turn that is unwound does not end as completed, and between
  the last look at the arrivals and the turn's end nothing awaits.
* `JobsInv` – nothing runs while no runtime is up, so that recovery may close
  every queued job of the log.
* `TicketsInv` – who has a pending ticket is in the queue of a living worker, in
  the running turn, or in what `post_turn` owes (`Covered`).
* `QueueInv` – sequence numbers are those of the clock and given once
  (`Numbered`); the entry of a turn or compaction is the head of the queue until
  it is accepted (`HeadFirst`); and what is left of a boundary's work list is
  older than anything that arrived since (`ListFirst`).

Nearly every step leaves alone what the later invariants speak of. `AllMove` and
`AllQuiet` say so once, for all actions but a few, and the proofs of the later
invariants take up only those few. Work lists are sets of records ordered by
sequence number and the pairing lemmas work on positions of messages, so that
nothing needs an induction over sequences.

`FileToolsProofs` proves all five properties of the run `files` and the type
invariant for any sessions, calls, texts and interference. Only the refinement
has an assumption beyond those of FileTools: `OneLockFile`, that all processes
use one lock file for the path; `TwoLockDirs.cfg` shows that it is needed. The
argument: a thread between taking and leaving the lock holds it (`Locked`, by
which two such threads are one when there is one lock file); what it has read is
known by its place (`ReadSoFar`). `Snapshots` carries the read between the two
stats: only the newest inode is ever changed (`NewestOnly`), inodes are numbered
upwards and times grow, so an inode that is seen again with its old time has been
neither replaced nor changed since, and the parts read of it are its parts.
`Fresh` is what the lock adds: until a program outside has written, the version
that a thread is about to replace is still there. Then publication is a
compare-and-swap, and every other step a stutter, a refusal or the end of the
promise (`private`).

`BashJobProofs` proves `NothingLeftBehind`, `ReportIsTrue` and the type invariant
without an assumption of its own, and, where May has neither `"fault"` nor
`"spawn"`, `EffectsNotDenied`: the two failures of section 4 are the only ways to
deny an effect. `NothingLeftBehind` asks for the death of the group where the call
has got hold of the process (`Held`), and of the shell in any case, so a group
outlives a complete cleanup only by the cancellation of section 4. The invariant
says of each place of `run_bash_job` what it may rely on there (`Located`), and that a drain task that has ended saw the end of a pipe
that nobody can open again (`DrainsSawTheEnd`).

`HooksProofs` proves the four properties of the run `layers` and the type invariant
for any names, priorities and numbers of calls. It assumes what Hooks does: that
names given to `register` are not those `add` makes up, that priorities are
integers, and that the number of a pair is told from None (`NoneIsNoNumber`). The
invariant has two parts:

* of the registry: names and sequence numbers are given out once, so that every
  queue has one order (`OrderIsTotal`), and the names of pairs carry numbers
  already used (`PairsAreOld`);
* of a dispatch, `Dispatched`: the queues it works on are the sorted hooks of the
  registry as it was when the dispatch began (`IsQueue`), whatever callbacks have
  changed since; what was called is the part of them behind it, in order
  (`CalledInOrder`, `Reached`); while it unwinds, the post hooks so far are those
  of the layers that were passed (`UnwoundUpTo`); and the data is the changes of
  the callbacks that returned (`Shows`).

`WellFormed` says of a set of hooks, the registered ones or those of the dispatch,
what its order rests on: the halves of a pair mirror each other, which is why
pairs nest. `Entries` chooses the sorted queue, so the proof needs that there is
one; `SortedExists` shows it without an induction: of the sizes of sets that
cannot be sorted there would be a least one (`LeastNumber`), and a hook can be
inserted into the sorted rest (`Inserted`).

`ByteRangeProofs` proves the three properties of the run `paging` for files of any
size with any layout of characters, every set of limits from four on, and every
`PREVIEW_LIMIT` above six, as `RangeAssumption` has it. At its centre is
`DecodedRun`: decoding the bytes from `a` to `b` gives the run from the next
boundary after `a` (`Up`) to the last one before `b` (`Down`), which are at most
three bytes away because characters have at most four (`CharacterOf`). So a page
is a run between two boundaries (`CutIs`) that begins with the character that was
asked for (`StartIs`) and has room for it (`AskedIsRead`), and the invariant
`Reader` says that the pages joined are the run between where the reader began and
where it is. For previews, `ShowsEnds` says what a preview relies on of the bytes
it is given: that they agree with what was read for the lengths it takes from
either end. A page does so trivially; the edges of a long file do although they
may overlap, because each is at least as long as half a preview (`ShowsEdges`).

`HTTPProviderProofs` proves the four provider properties and the type invariant
for any number of retries, events, blocks and identifiers, with no assumption
beyond `ProviderAssumption`. The invariant has three parts. `Control` is about
attempts: until an answer has begun nothing of it is there (`Quiet`), only the
present attempt has been heard (`OneSpeaks`), and the usage at each place is what
was billed (`Billed`, `HandedBack`). `Parsing` relates what the parser holds to
the events received so far: whether the stream has been ended (`Terminated`),
that each block was opened once, fed while open and closed once (`Fed`), which
stop reason holds (`Finishing`), and that each block is the pieces sent for it in
order (`Assembled`). The third part is the two properties of the result itself,
`AnswerIsWhole` and `KnownUsageSurvives`; for the latter an event that the parser
refuses for its place is shown to have none in what was sent
(`RefusedIsMisplaced`).

Only model-checked: liveness (`EverythingSettles`, `CloseEnds`, `CallEnds`), since
proofs under fairness are out of the prover's reach. Every other property that a
passing run checks is proved, some of them under the provisos above.

## 8. Not modelled

* In `tools/__init__.py`: `safe_path`, the schema checks and `strict_json` (they
  validate one call's arguments and share nothing), `find`, `calc` and the todo
  tool (they read, or compute one event). In the tool registry, only the way a
  handler is run and its exceptions are turned into results is modelled.
* In `providers/http.py`: building the request (`_request`, `_strict_schema`,
  `_validate_pairs`), the arithmetic of `normalize_usage` and the repair of `null`
  arguments: pure functions of one call.
* In `state.py`: todo list, usage totals, configuration hash and epoch, which the
  control does not read.
* `prompt.py`, `config.py`, `trace.py`, `models.py`, `cli.py`: formatting, parsing
  and terminal I/O around the operations that are modelled. The limits of
  `config.py` are CONSTANTS.

## 9. Plan

1. SessionStore, its run and its proofs – done.
2. SessionState, Runtime, RequestLedger and their runs – done.
3. FileTools with the register it implements, ByteRange, Hooks, BashJob,
   HTTPProvider, and their proofs – done.
4. Proofs about Runtime: `RequestsConsistent`, the refinement of RequestLedger,
   the type invariant and the other safety properties – done.
5. Runtime over DurableLog: SessionStore is shown to implement the log; that
   Runtime's records are steps of that log is stated in its comments and could
   be a refinement of its own.
