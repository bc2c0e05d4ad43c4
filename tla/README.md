# codex-in-claude: TLA+ models, checks and proofs

codex-in-claude is an MCP server through which one coding agent consults, asks a
review of, or delegates a task to another one (the Codex CLI). Every active tool
call is paid for and takes minutes, and it can be cancelled, timed out, retried,
lost with its transport or outlived by its server. What it runs is a CLI of which
the plugin does not know the version, on a configuration it does not own. This
directory models the parts of the program that must get these things right, checks
them on small instances with TLC, and proves what matters most with TLAPS.

Contents

1. The system: components, state, operations, interactions
2. The modules and how they correspond to the code
3. The runs: what each checks, bounds, fairness
4. What is proved, from what, and how
5. Disagreements between the code and what is said of it
6. What is assumed of code outside the repository
7. What is only model-checked, and what is not modelled
8. Plan

Source paths are relative to `src/`; the package is `src/codex_in_claude/`.
`PROJECT.json` maps every definition that models code to its lines.

## 1. The system

```
   client (MCP)                     one process                       other processes
 ───────────────┐  ┌──────────────────────────────────────────┐  ┌────────────────────────┐
  tool calls ──►│  │ server.py                                │  │ _worker.py (detached)  │
  cancellations │  │  admission checks (_prepare_*)           │  │  run_consult / review  │
  lifecycle ───►│  │  job handlers (_run_sync, _start_async)  │─►│  / delegate            │
                │  │  lifecycle tools (status, result, ...)   │  │   ├ worktree           │
                │  │  transfer, status, dry runs              │  │   ├ gitdiff            │
                │  └────────┬──────────────────────┬──────────┘  │   └ codex exec ────────┼─► model
                │           ▼                      ▼             └──────────▲─────────────┘
                │   job store (files, pontonier)   codex app-server         │ SIGTERM, SIGKILL
                │           └───────────────────────────────────────────────┘
```

| Component | State it keeps | Operations | Talks to | Hard behaviour | What makes it correct |
|---|---|---|---|---|---|
| Job handlers, `server.py` | per call: start thread, run awaited, deadline; `_PENDING_START_CLEANUPS` | start, idempotent start, await, timeout, cancellation at each await, orphaned-start cleanup | job store, worker | cancellation inside a shielded spawn, waiters sharing a keyed run, status read before an await and used after it, server death, a store operation that raises | no unkeyed run without somebody who can stop or read it; keyed runs are durable and unique; `idempotency_replayed` is honest; every call ends |
| Lifecycle tools, `server.py` | none | status, list, result, consume, cancel | job store | read-then-delete over two store calls, against TTL, eviction, other consumers, client drops | a result is handed out by one consume at most, and never destroyed unread |
| Workspace resolution, `server.py` | none; the client has roots | probe the roots, resolve a directory, disclose both | every tool, job store | a probe that fails, roots that change between the start of a run and its fetch, a reconnect in another protocol era | a run works where its caller meant; who names its directory meets it again; who strays is warned |
| Job store, pontonier (external) | one directory per run, the idempotency index | start, status, cancel, discard, sweep, count cap, TTL, deadline reaping | worker processes | crash between reserve and publish; cap reached while runs are awaited | as used by the handlers (section 6) |
| Detached worker, `_worker.py` | spec, `worker.lock`, `cleanup.json`, `result.json`, SIGTERM handler | dispatch by kind, run, crash envelope, conformance guard, atomic write | store (signals, files, lock), orchestration | a stop at any instruction, before the handler is installed, after the loop closed; a server that dies and one that comes after it | no unreported checkout; `result.json` is the last act; a record whatever fails; how a run ended is told once |
| Delegate worktree, `delegate.py` | throwaway checkout | create, capture diff, remove | git | failure or stop between steps | as above |
| Paid run, `codex.py`, `orchestration.py`, `backend.py`, `cli_contract.py` | the command line, the probed version, the run's end | admission, gathering, staging, probing, spawn, finalization | the installed codex, user's and operator's configuration | codex replaced between probe and spawn; keys renamed by an upgrade; text of the model in the same streams as errors | the pins hold in every run that calls a model; the owner of a refused word is told; provenance and `pass` are honest |
| Operator passthrough, `config.py` | `ExtraArgs` | parse, ownership queries | command line, classification | spellings that normalize to a pinned key | nothing accepted reaches a pin |
| App-server calls, `appserver.py` | child, reader thread with a bounded queue, drain thread, deadline | transfer a session, read the rate limits | codex app-server, import ledger | four actors; full queue; pid reuse; deadline against late answer; live transcript | no child survives the answer; no foreign pid killed; no fact not asked for; cancelled calls return |
| Rate-limit interpretation, `appserver.py`, `rate_limit.py` | none | parse a quota block, order its windows, judge it | quota read | windows in either slot, reset, expired, out of range, missing fields | `available` only when nothing speaks against spending; slot order is irrelevant |
| Replies of `codex_transfer`, `codex_status` | none | outcome to code, quota to reading | app-server calls | a deadline against a stop, a child dying with last words | the caller is told what happened |
| Binary resolution and probes, `binpath.py`, `binresolve.py`, `preflight.py`, `codex.py` | the resolved path, for the life of the process; the help text, for five minutes | locate, probe version, login and help | the installed codex, npm, PATH | a thread of `codex_status` beside the event loop; npm that does not answer; codex installed, removed or upgraded between two probes; a help probe that outlives the memory | what the tools say of codex is what the next worker finds for itself |
| Dry runs, `server.py` | the remembered help probe | preview a review, a delegation | the checks of the paid call, git | a second copy of the checks; a probe older than codex | the paid call does what its preview said |
| Status, `server.py` | none | `codex_status` | probes, quota read | probes that learn nothing | ready is a codex and a login, of this machine as it is |
| Capabilities, models | none | read-only reports | | none | not modelled |
| Schemas, validation, rendering, event parsing, logging | none | text and shapes | | | not modelled |

`PROJECT.json` lists these at a finer grain with the status of each, and, under
`hazards`, what in this code is hard to test, at the line where it bites, with the
properties that would catch it.

The places where the components of the models meet:

* `JobServer` sees a worker as `alive` or `exited` with a stored payload. `JobWorker`
  is that process from the inside. `JobServer` is shown to implement `RunLedger`, the
  promise about the life of a run that the rest of the system relies on; what that rests on
  at the worker's end, that an ending once told stands, is `EndingsStand`. A worker is the same
  run in both: its `Told` derives the state from the files and the worker's liveness as
  `JobStore!Status` does, and a result that is `broken` is a payload of which `JobEnvelope`
  decides what its readers are told.
* `ToolReplies` puts the reading of a quota (`RateLimit`) and the codes of a transfer on top
  of `AppServer`, `FreeTools` puts the free calls in front of `PaidRun`.
* `Workspaces` decides in which directory's share of the store a call looks; `JobServer` is
  what then happens in one such share.
* `CodexProbes` is where the free calls get what they say of codex. It compares that with
  what a worker that starts now resolves and runs; from there on `PaidRun` describes it.
* `JobWorker`'s step `RunEnds` (the awaited `codex exec` ends with success, error,
  a nonconformant envelope or an exception) is what `PaidRun` describes in detail.

## 2. The modules

### Jobs: `JobStore`, `JobEnvelope`, `JobServer`, `RunLedger`

`JobStore` is the store as `server.py` uses it (external): per run `record`,
`worker`, `stored` (the kind of `result.json`), `mark` (a terminal state the store
wrote), `overdue`, and the idempotency `index` per concrete tool and key.
`Status` derives the lifecycle state; `Spawn` applies the count cap as
`store.start` does; `Poll` reaps a run past its deadline; `Sweep` drops dead index
entries. A run is named by the call that spawned it, since a call spawns at most one.

`JobEnvelope` turns a state and a payload into the caller's reply
(`_finished_job_envelope`, `_job_result_unreadable`, `_STATE_TO_ERROR`).

`JobServer` has one action for each stretch of handler code between two awaits:

| Action | Code (`server.py`) |
|---|---|
| `Issue`, `StartThread`, `IdemReserve`, `IdemAnswer`, `IdemPublish` | `_start_job` handing the start to a thread; the thread itself, which runs whether or not anyone waits |
| `Started`, `Replay`, `StartRefused`, `StartTransient` | the handler resuming with the outcome; a sync call retries a transient outcome until its wait deadline |
| `Snapshot` | `_start_async` on a replay |
| `AwaitPoll`, `AwaitExpire`, `ReadResult` | `_await_job_result`: one poll; the unkeyed timeout, which cancels on what the poll saw; the read of a finished run |
| `CancelStarting`, `CancelAwaiting`, `CancelReading` | a client cancellation landing at each await |
| `StopOrphanedStart` | the done-callback of an orphaned start |
| `JobStatus`, `JobCancel`, `FetchRead`, `Discard`, `FetchReply`, `FetchDropped` | the lifecycle tools; a consume is a read, a discard in a thread and an answer |
| `HandlerRaises`, `StopRaises` (`StoreRaises`) | a store operation raises: under a handler it becomes the guard's `internal_error`, under a done-callback or a cancel that is suppressed it is swallowed |
| `WaitExpires`, `Expire`, `SweepIndex`, `World`, `Crash` | clocks, retention, workers, the server's own death |

`RunLedger` is the abstract specification: a run ends once, keeps its outcome while
its record is there, is never dropped while it runs, and its result is taken by at
most one consume, in one step. `JobServer!ImplementsLedger` maps the two store calls
of a consume to that one step, at the discard.

### Which workspace: `Workspaces`

| Action | Code |
|---|---|
| `Ask`, `ProbeEnds` (`Settled`) | `_roots_from_ctx`, awaited by every tool, and what `_prepare_*` and `_resolve_job_workspace` make of it: the resolved directory, or a refusal. A client that advertises no roots is not asked; the probe of one that does may fail, and that of a modern connection always does |
| `Start` | `_start_async`: a start in the resolved directory, under a key or not; created, replayed or in conflict by the hash of the effective arguments |
| `WorkerEnds` | the worker writes a result whose meta it builds from the spec (`_meta_from_spec`) |
| `Fetch`, `List` | `_job_result_impl` and `codex_job_list`, with its filter and limit |
| `RootsChange`, `Reconnect` | the client opens another project, or comes back as another client, to another server process |

A directory's share of the store is `Kept`. A run carries the resolution of its start (`spec`)
and what its result says of it (`stored`); a call remembers what roots the client had when its
probe ended (`offered`, a history variable), so that "the client told it the same thing twice"
can be said. Sync calls are a start and a fetch in one handler and add nothing here.

### Worker: `JobWorker`

The process as a program counter (`spawned` to `exited`), with `pending` for a SIGTERM the
event loop has not delivered, `handler` for whether the signal is caught at all, `locked` for
the lock it holds by an open descriptor, `tree` and `manifest` for what is on disk.

| Action | Code |
|---|---|
| `Start`, `TakeLock` | the spawn (`_worker_cmd`); `_hold_job_lock`, best effort |
| `InstallHandler`, `Dispatch` | `main` and the head of `_run` |
| `MakeParent`, `Declare`, `AddCheckout` | `worktree.create` with its callback, which writes `cleanup.json`; a failure tears down what was made, and is an error envelope or an exception |
| `RunEnds`, `DeliverCancel`, `CaptureDiff`, `RemoveTree` | the run and the `finally` of `run_delegate`. A cancellation reaches the task only where it awaits; a task already resumed runs on. The removal may raise, over whatever the run returned or raised |
| `Leave`, `WriteResult` (`Guarded`) | the crash envelope, `_guard_invalid_arguments` and the atomic write. The guard turns a nonconformant envelope into an error; one it cannot navigate, or from which it cannot build that error (`broken`), goes through as it came |
| `Dies` | the process dying, or failing to write, by itself |
| `Terminate`, `Kill`, `Mark` (external) | the store stopping it: SIGTERM to a process it takes for alive (`Alive`: its own child, or whoever holds the lock), SIGKILL after the grace period, then a second look at whether the run completed, and if not the mark, and the removal or report of what `cleanup.json` names |
| `ServerDies` | the server goes, its stop unfinished; another one opens the store and knows the worker by its lock only |

`Told` is what any server tells of the run. `unsure` is a history variable: the server died
before the worker had its lock, so that the next one may take it for dead.

### App server: `AppServerWire`, `AppServer`, `OneShotCall`

`AppServerWire` has the lines a child writes and what each means to the loops
(`_relevant_to_loop`, `classify_import_error`, `_classify_read_error`).
`AppServer` has four actors per call: the loop (`Spawn`, `Turn`, `GetNothing`,
`Handshake`, `Conclude`, `Complete`, `Ignore`, `Raise`, then `Release`, `Kill`,
`Reap`, `Answer` for `_settle_and_tail`), the reader (`ReadLine`, `ReadEof`, `Put`,
`Drop`), the drain (`Drain`), the child (`Speak`, `Import`, `Report`, `Exit`), and
the world: `Edit` appends to the transcript of a live session, `OtherImport` is
another codex importing it; and `Recycle` hands the pid of a reaped child to a process
of somebody else (`strangers`), which `KillGroup` would hit if it were sent late.
A thread is named by the version of the transcript it holds, so that "the thread that
was named has the bytes of this call" can be said.

`OneShotCall` is the abstract specification: one child, one request, an answer only
when no child of the call runs, a fact only after it was asked for.

### Replies of the app-server calls: `RateLimit`, `ToolReplies`

`RateLimit` is a quota block on its way to the caller: `_parse_rate_limits` (which blocks
are an answer at all), the field bounds of `RateLimitWindowSnapshot`, `_assign_window_slots`
(the short window first, whatever the app-server's order), `_is_open` and `_status` at a
given second, and `live_read` for reads that failed. Values that are missing, of the wrong
type or out of range are `Absent`. `Conservative` is the reference it is compared with; it
speaks of the block as it was sent, not of the parsed one.

`ToolReplies` EXTENDS `AppServer`: the error code `_transfer_outcome_envelope` gives each
outcome, when the child's tail accompanies it, and what `codex_status` may show of a read.

### Paid run: `ExtraArgs`, `InstalledCodex`, `CodexExec`, `ReviewOutcome`, `PaidRun`

`ExtraArgs` is `config._parse_extra_args` on entries of a flag and a word, a word
being the sequence of its segments: normalization of odd spellings, the denied keys
and features, and the later queries about ownership. `InstalledCodex` is the external
CLI: what a build does with a command line, as the comments and probes recorded in
`cli_contract.py` and `codex.py` describe it. A refusal carries, besides what codex
prints, the field `from` that nobody prints: whose word it was. The properties compare
the envelope with it. `CodexExec` is `build_exec_command` and `classify_failure`.
`ReviewOutcome` is coverage, the verdict and their folding.

`PaidRun` is the path: `prepare` (the checks of each `_prepare_*` in their order),
`gather`, `stage`, `probe`, `spawn`, `running`, `finalize`, `answered`. The second
actor is the machine: `Upgrade` replaces or removes codex after the probes. The worker's
own help probe may fail or be cut off (`Heard`): what it did not hear of is not sent.

### Free calls: `FreeTools`

`FreeTools` EXTENDS `PaidRun` with the calls a careful caller makes first. `DryRun` is
`codex_dry_run` or `codex_delegate_dry_run`: its own list of checks, the state of the tree,
and the model override according to the help probe the server remembers (which may be
another codex's; a worker probes afresh). `PreviewIsFaithful` holds the override to that
preview when both heard the same help. The list of checks is the review's, but the size a
preview checks (`Foreseen`) is that of the extra context alone, where the review adds the
developer instructions (`OverTogether`). `Status` is `codex_status` saying ready. A step of
the run is a step of `PaidRun` in which the tree is as the preview met it (`SameTree`) and
`ready` is forgotten when codex is replaced.

### Probes: `CodexProbes`

| Action | Code |
|---|---|
| `Ask` | `codex_status` (a synchronous tool, which the framework runs in a thread of its own), `codex_transfer` up to its spawn, and a dry run with a model override: the last two probe on the event loop, so they exclude each other (`LoopIsFree`) but not a status |
| `Locate` (`Recall`, `TakeOverride`, `Search`), `AskNpm` | `binpath` and `binresolve`: the remembered resolution; the override as given, else a refusal that is not remembered; on WSL2 the candidates in order, then `npm prefix -g`, which takes time and may not answer; else PATH, else the bare name |
| `ProbeVersion`, `ProbeLogin`, `ProbeHelp` | one spawn of what the path holds at that moment; a hung one is killed at its timeout |
| `Remember` | the write of `preflight._cache`, dated by the start of its probe, in the place of any other that came in between |
| `Install`, `Remove`, `LogInOrOut`, `Tick` | the user and the clock |

The environment (`host`) is the same for the server and its workers. `basis` is a history
variable: which places had a codex when the remembered resolution was made. `sure` on a
call says that every resolution it relied on still holds, `hung` that a probe of it hung,
`steady` that the machine did not change under it. The properties are about answers for
which nothing of this kind excuses a wrong one, and then demand exactly what a new worker
finds.

### Model-checking and proof modules

`MC*` modules give the constants small values. `JobServerProofs`, `JobCustodyProofs`,
`WorkspacesProofs`, `JobWorkerProofs`, `AppServerProofs`, `ToolRepliesProofs`,
`PaidRunProofs` (also those about `FreeTools`) and `CodexProbesProofs` hold the theorems.

Definitions whose name ends in an underscore and a word (`Cancel_Unchecked`,
`Drop_Never`, ...) and whose comment begins with "Mutated" are plausible mistakes in
the definition that follows. For every property of a passing run there is one that
makes TLC find the property violated (`mutants` in `PROJECT.json`).

## 3. The runs

### What they show

| Run | Question | State it explores |
|---|---|---|
| `job_runs` | Is a paid run ever left without a holder, a keyed one stopped by a waiter, a key paid for twice at once, a replay misreported, one run told in two ways, or a run alive of which a caller was told that it is lost or timed out? | two calls, sync or async, unkeyed or on one key with equal or different arguments; cancellation at every await; eviction; index sweep; one server crash; store operations that raise |
| `job_fetch` | Can a result be consumed twice or destroyed unread, and do the handlers implement `RunLedger`? | two async runs, two fetches (consuming or not), readable and unreadable payloads, TTL, cap, client drops, a discard that fails |
| `job_live` | Does a cancelled unkeyed call stop its spend, and is every call answered, though workers may run forever? | two sync calls, one key, one run past its own deadline, one call under which the store may raise |
| `job_eviction`, `job_timeout` | Two statements of the repository that the code does not keep (section 5) | |
| `workspaces` | Does a run work where its caller meant it to, does a call that names the run's directory meet it, is one that strays warned, and do answers and listings say what they are about? | three calls - starts, keyed or not, fetches, cut listings - of clients with no roots, empty roots, one project, two, or a modern connection; one change of the client; any probe failing |
| `worker` | Does a stop at any instruction leave an unreported checkout or a result before teardown; does the process leave a record; is an ending ever taken back, by this server or the next? | one worker of every kind, SIGTERM and SIGKILL, failures of every step, the server dying at any moment |
| `calls` | Do the four actors of a transfer or a quota read keep `OneShotCall`, does the tail of every outcome that has one hold the child's last words, is the code of a transfer what happened, is what `codex_status` says of a quota never too good nor too bad, in either slot order, and is only the own child killed when its pid is reused? | one transfer or one read, a child that writes up to three lines of any meaning in any order, makes up response ids, dies or hangs, with a descendant that keeps the pipes of a read open; every block with each field below, at and above its edges, at a second before, at and after the resets |
| `call_live` | Do late or cancelled calls return, readers leave the full queue, and does the named thread hold the transcript? | one transfer, a child that fills the queue, a live session, other importers, older ledger records |
| `paid_run` | Does a paid run stay within its boundary on any build, tell the owner of a refused word, and claim only what is so? Does it do what a dry run or `codex_status` said before? | every build that differs from the known one in one flag, key, value, feature or help text; every passthrough shape; every flaw a check exists for; codex replaced mid-run; a help probe of the worker that fails or is cut off |
| `codex_probes` | Is what `codex_status`, `codex_transfer` and a dry run say of codex what the next worker finds, is "indeterminate" told only when a codex runs, and does the help memory mislead for no longer than its five minutes? | two probing calls of any kind; a plain host, WSL2, an override; codex installed, upgraded, removed or hanging; npm silent; the user logging in or out |
| `run_blame` | A statement of the repository that the code does not keep (section 5) | |

### Bounds, and why they are enough

* **Calls and fetches** (`Calls`, `Fetches`): two suffice for every race between a
  pair of handlers - two starts on a key, a consume against a consume, a waiter
  against a canceller - since nothing in the handlers involves three parties.
  `job_eviction` has three: one awaited, and two starts that evict it.
* **`Keys`, `Args`**: one key and two argument hashes; keys do not interact.
* **`MaxCount`** (the count cap) is 1 where eviction should happen as soon as it can,
  2 in `job_eviction` where it is the question.
* **`MaxCrashes`** 1 in `job_runs`, 0 elsewhere: a second crash finds no thread that the
  first did not, because a new server holds no state of the old. The type-correctness and
  custody theorems hold for any number.
* **`Workers`**: one. Workers share nothing but the server that dies, which the properties
  look at from each by itself; the theorems hold for any number.
* **`Overruns`**: the runs that may outlast their deadline, empty where a deadline adds
  only another way to end.
* **Workspaces**: three calls, because each property relates two calls and a listing that is
  cut needs two runs. Directories: the server's, a project, a part of it and an unrelated one,
  so that a named directory can be a root, lie in one, or lie outside all. One change of the
  client, because a property looks at two calls and what the client was at each. Of several
  roots a call that names none gets one, always the same. The theorems hold for any number.
* **`Flaky`**: the calls under which a store operation may raise; both in `job_runs`, one
  in `job_live`, none in `job_fetch`, where every step is a single store operation whose
  failure leaves the store as it was.
* **`QueueCap`** 1 instead of the code's 4: what matters is a queue that is full and one
  that is not, both reached with one slot. The theorems hold for every capacity.
* **`MaxLines`**: three lines suffice for a handshake, an answer and one line that should
  not have come. **`Wire`**: per call, one line of every meaning to its loop and its reader. `OneCall`
  constrains `calls` to one call at a time: what calls share - pids, the transcript, the
  ledger - `Recycle`, `Edit` and `OtherImport` disturb already; the theorems have no such
  limit.
  **`MaxVersion`** 2 where the transcript changes during a call.
* **`Escapees`**: a call whose child left a descendant holding the pipes.
* **Paid run**: one defect per build, because the classification stops at the first thing
  codex complains of; one flaw per request, because the checks are a sequence (two flaws
  are told apart only by their order), and developer instructions that take a text over the
  limit; `MaxUpgrades` 1, because a build is looked at twice
  and so can differ once. `Careful`: the flawed reviews and delegations and one plain call of
  each kind, since free calls before more of the same add nothing. `Omissions`: a diff that
  leaves out nothing, one thing of each kind, or everything, because coverage asks only
  whether there is one. The theorems hold for every request, passthrough, home and build.
* **Probes**: two calls, because a resolution or a help text has two writers at most that
  matter, the one that wrote last and the one before. Three places: one only WSL2 looks at,
  npm's, one on PATH. `TTL`, `MaxTime` and `MaxChanges` are 1, so that a probe can begin before
  an expiry and a change and end after them; the properties also held with `TTL` and
  `MaxTime` 2 (24.6 million states, too many to keep). The theorems hold for all values.
* **Quota**: `EdgeWindows` has each field absent and on both sides of every threshold that
  decides something (a quarter left, used up, beyond 100, `ShortWindowMax`, the present
  second, `MaxTime`); the theorems hold for every block and second. Reset times are not
  negative: one that is would be read as long past, like 0. Where the quota is not the question `Blocks` is
  empty.
* **Symmetry** is used only in runs without liveness: calls and fetches in the job
  runs, calls in `codex_probes` and `workspaces`.
* `CHECK_DEADLOCK FALSE` everywhere: calls, workers and runs are one-shot and the
  instances end when all of them have.

### Fairness, and why the code justifies it

* `JobServer`: the event loop resumes handlers, threads and callbacks run, and the clock
  of a wait ticks. Nothing is assumed of workers, clients, retention or crashes. A wait
  ends because its clock does, never because its run does.
* `JobWorker`: `Work(w)`, the process's own steps. Each of its library calls has a timeout,
  the paid exec included (`run_async`'s deadline). Nothing is assumed of the store.
* `AppServer`: the loop, the drain and the reader are scheduled. Neither the child nor the
  deadline nor the client is fair: `CalledOffReturns` is about calls whose deadline passed
  or whose stop was set.

## 4. What is proved

The theorems hold for every value of the constants, given the named assumptions below. Each
leaf of a proof is kept small enough to be found in a tenth of the provers' default time, so
that the proofs do not depend on the machine that checks them.

| Theorem | Says | Inductive invariant, and why it is needed |
|---|---|---|
| `JobServerProofs!TypeCorrect` | types of handlers and store | `TypeInv`: types plus `Attached` (a handler that polls or reads is attached to a run; an entry of the index names a call), since the functions are applied to those |
| `JobCustodyProofs!NoSpendIsOrphaned`, `KeyedRunsAreDurable` | an unkeyed run always has a holder; only `codex_job_cancel` stops a keyed one | `InCustody`: at every place of a call, who holds its run. The property alone is not inductive: it speaks of live workers, while the danger begins earlier, with a start still in its thread |
| `JobCustodyProofs!OneRunPerKey` | a key has one live run | `JobInv`, its part `KeyInv`: a live keyed run is the one its entry names, and who publishes holds the reservation - so no start of the key gets past the entry, and a sweep needs both dead |
| `JobCustodyProofs!ReplaysSpendNothing`, `OneStoryPerRun` | a replay started no worker; envelopes of one run agree | `JobInv`, its part `AnswerInv`: a call is attached to its own run or to an earlier one of equal arguments, and an envelope is that of a run which had ended and stays as it ended (`RunsSettle`) |
| `JobCustodyProofs!ResultsAreConsumedOnce`, `ConsumesKeepTheUnread`, `DiscardsSeeDone` | one consume takes a result, and holds it | `JobInv`, its part `FetchInv`: between its two store calls a consume holds the payload of a run that is done, and done is final |
| `JobCustodyProofs!RetriesDoNotPayTwice` | a caller told that its run is lost or timed out may start over: that run spends no more | `JobInv` and `GoneInv`: such a reply goes with a run that has exited and stays so. Needs `AnswerInv` for whose run the call is attached to, and `RunShape` for why a record that is gone has no live worker |
| `JobCustodyProofs!ReportedOutcomesStand` | what was said of a run that ended is never taken back (`OutcomesAreFinal`) | `JobInv`; from `RunsSettle`, step by step |
| `JobCustodyProofs!JobsImplementTheLedger` | the handlers implement `RunLedger` | `JobInv`; `StoreMoves` says what any step may do to runs - start one, end one, drop the record of one that ended, or nothing - and each is a step of the ledger |
| `WorkspacesProofs!RunsWorkWhereTheyWereSent`, `WhoNamesAWorkspaceMeetsItsRuns`, `WhoStraysIsWarned` | a run works where its caller meant; who names its directory meets it; of two calls that missed each other one was warned | `Inv` (`PlacesInvariant`): a call at each stage is where its request and the roots it was told put it, and is owed no run of its own unless its answer says so; a key has one run per directory (the hazard is the second run, which the properties see only afterwards) |
| `WorkspacesProofs!ProvenanceSurvivesTheStore`, `ListingsLoseNothingSilently` | a result carries the resolution of its run, any other answer its own; a listing hides nothing without saying so | `Inv`; the listing rests on facts about the cardinality of finite sets: of two runs the one begun later has fewer newer ones |
| `JobWorkerProofs!WorkersAreTyped`, `StoppedRunsLeaveNoTree`, `ResultIsTheLastAct` | types; a stop leaves no unreported checkout; `result.json` is the last act | `Teardown`: each place bounds what is on disk, and a tree worth removing has been declared |
| `JobWorkerProofs!EndingsAreToldOnce` | how a run ended is told once, by its server and by any that comes after | `Teardown` and `Watched`: a running worker that lost its server holds its lock, unless it was met before it had one. A lock that ends before its process, or a stop that does not look again, breaks it |
| `JobWorkerProofs!WorkersDoNotEndSilently` | a worker that ended left a record, or was stopped, or broke down (`NoSilentEnd`); the record is one its readers accept, or the envelope the guard itself failed on | `Teardown` and `Reasons`: a pending signal and a cancelled outcome are the store's doing, and what reaches the write is an envelope or an exception |
| `AppServerProofs!CallTypes`, `KillsStayHome` | types, the bounded queue; no process group but the call's own is killed, however pids are reused | `CallInv`: `Placed` (the child at each place of the loop), `PidsAreOwned`, `NothingGuessed` |
| `AppServerProofs!CallsAreOneShot` | `AppServer` implements `OneShotCall` | the same; each step moves the `View` of one call as a step of `OneShotCall` does, or not at all. `NothingGuessed` is what makes an answer of a read follow its request |
| `AppServerProofs!WhatWasAnsweredStands` | once a call returned, nothing of what it returned changes and no child of it runs again (`AnswersStand`) | the same; a loop writes only what is its own (`LoopKeepsReplies`), and the reader, the drain and the child none of it |
| `AppServerProofs!TransfersNameTheTranscript` | a transfer names a thread that holds the transcript as it was during the call | `CallInv` and `NamedTruly`: whatever names a thread anywhere between the child and the loop - report, pipe, reader, queue, notice - names one of the transcript since the call began (`SaidStep`) |
| `PaidRunProofs!PinsAreOutOfReach` | no accepted passthrough entry owns a pinned key or its table, in any spelling | none: a fact about the parser |
| `PaidRunProofs!NoRunOutgrowsItsBoundary` | a build that calls the model honours every pinned key and has the owned features off | `RunInv`: what is known at each place (`Path`), how the run ended (`Ended`), that a dropped `--model` is remembered (`ModelIsKnown`) |
| `PaidRunProofs!BlameIsDeserved`, `SpendIsAdmitted` | the owner of the refused word is named; "no model call was made" is true | `RunInv` and the lemma `RefusalsAreBlamed`, which goes through every refusal a build may produce and follows it through `classify_failure` |
| `PaidRunProofs!EnvelopesAreHonest`, `PassesAreEarned`, `AdmissionIsFinal` | model, version and `pass` are so; what the server admits the adapter stages | `RunInv` |
| `ToolRepliesProofs!ReadingIsConservative`, `SlotOrderDoesNotMatter`, `RepliesDoNotDependOnSlots` | a quota is never told better or worse than it was sent; slot order is irrelevant | none: facts about functions, for every block and second. `OpenIsInForce` and `SlotsHoldWhatWasSent` say that parsing and reordering lose and invent nothing |
| `ToolRepliesProofs!TransfersAreToldTruly` | the code of a transfer is what happened | `CallInv` with `Faithful`: at each place, what the verdict so far and the tail owe to the child |
| `ToolRepliesProofs!LastWordsArrive` | the tail holds what a dying child said, in every outcome but a stopped call's, which has none | the same |
| `ToolRepliesProofs!QuotasAreToldConservatively` | a quota is one that was asked for, and told conservatively | `CallInv`, and `ReadingIsConservative` |
| `PaidRunProofs!FreeCallsChangeNothing` | `FreeSpec` implies `PaidRun`'s `Spec`: all theorems about paid runs hold after free calls | none |
| `PaidRunProofs!PreviewsAreKept` | the paid call does what its preview said, the model override if both heard the same help; it may still be refused for its developer instructions or for what they add to its size | `SaidOfTheCall` (a preview in terms of the call), `BorneOut` (how far the run has got with it); `SameChecksSameOrder` says the two lists of checks agree in order, for what the preview is given |
| `PaidRunProofs!ReadinessIsKept` | ready is never followed by a missing codex or login | `StillSetUp`; `NoLoginIsAskedFor` goes through every refusal |
| `CodexProbesProofs!StatusAndTransferSpeakForWorkers` | what status and transfer say is what the next worker finds | `ProbeInv`: `BasisInv` (what the remembered path was based on, and that it is then what anyone would resolve) and `Knows` (what a call has learned at each probe). Two resolutions in flight are why the basis must be kept with the path |
| `CodexProbesProofs!IndeterminateIsToldOfARunningCodex` | "indeterminate" is told only of a codex that runs | the same; the version was probed first |
| `CodexProbesProofs!PreviewsSpeakForWorkers` | a preview goes by what the next worker reads unless the machine changed within `TTL` | `HelpInv`: a remembered text is of the machine as it was since the start of its probe, not the end, and it is that which the expiry counts from |

`RefusalsAreBlamed` depends on three facts worth knowing on their own: a build that refused
nothing honours what was pinned because `--strict-config` rides every line with an
override (`UnrefusedIsHonoured`); the keys worked out again from the envelope are those that
were pinned (`PinsAreRecomputed`); and `PinsAreOutOfReach`.

Assumptions on the constants, each named in the module that declares them and evaluated
by TLC on every run: `StoreAssumption`, `ServerAssumption`, `WorkerAssumption`,
`AppServerAssumption` (kinds of the sets, bounds at least 1 where the code says so);
`CanonicalIsNotAnAlias` (normalization leaves a canonical segment alone),
`EchoesAssumption` (an unknown key is always reported, whatever it looks like),
`RequestsAssumption` (delegate has no developer instructions), `PassthroughsAssumption`
(a word has a first segment and is not spelled like an option: the parser refuses values
with a leading dash), `SignatureAssumption` (no option or feature of the plugin's is one
of the backend's effort markers), `BuildsAssumption`, `MaxUpgradesAssumption`,
`OmissionsAssumption`, `CarefulAssumption`; `DirsAssumption`, `RequestsAssumption` and
`ClientsAssumption` of `Workspaces` (a directory lies in itself; finitely many calls; a client
that advertises no roots has none); `PlacesAssumption`, `SetupAssumption`, `TimeAssumption` (the orders
name places, "none" and the bare name are not places); `MaxTimeAssumption`, `RepliesAssumption` (the last second `datetime`
knows and the present one are natural numbers, the blocks are blocks).

## 5. Disagreements between the code and what is said of it

* **`job_eviction`** (`server.py:4104`). A sync call polls every quarter second. A run that
  finishes between two polls can lose its record to the count cap when other starts come
  in; the call is then answered "job record disappeared" although the result existed.
  `tests/test_server.py:6380` says every sync call returns its envelope under any cap.
* **`job_timeout`** (`server.py:4127`). The unkeyed timeout cancels on a status read before
  its await. A run that completes in between survives the cancel, whose return value is
  ignored, while the caller is told it is gone (`server.py:4128`).

  What holds in place of these two is `ToldGoneMeansNoSpend` (`RetriesDoNotPayTwice`): in both
  cases the run spends no more, so the caller that starts over pays again, but never for two
  runs at once.
* **`run_blame`** (`codex.py:931`). The drift phrases are looked for in all of the run's
  output, the model's text included. A run that called the model, quoted such a phrase
  and failed for another reason is `cli_contract_changed`, which `schemas.py:415` explains
  as a rejected flag or value.

Seen while modelling, without a run of their own: `codex_dry_run` says that it must not
green-light an oversize input (`server.py:4541`), but it measures the extra context alone
(`server.py:4537`) and takes no developer instructions, while the review measures both together
(`server.py:3160`): a preview may announce a call that is then refused as `input_too_large`.
`PreviewIsFaithful` allows for exactly that refusal. A cancelled delegation whose worktree
removal raises ends as a crash and leaves a record, so its stop finds it completed, and
nobody reports the tree that stayed behind. A server that comes up between the spawn of a worker and
its lock may tell it as failed and later as done (`EndingsStand` excludes it by `unsure`).
`--disable` is a flag the operator and
the plugin share, so a build without it is attributed to the operator if the operator's
passthrough holds one (`OwnerIsTold` excludes refusals that quote a word of both); and a
sync call attached to another's keyed run is told `internal_error` when the record is gone
where an `_async` call is told the replay is unavailable. The docstring of `codex_status` says
`unknown` means the live read could not complete, but an app-server that exits before it
answers is a protocol error and thus `unavailable`; `QuotaIsConservative` therefore demands
`unknown` only of reads that were late or could not start. For up to five minutes after
an upgrade a dry run may announce a model override that the call drops
(`HELP_CACHE_TTL_SECONDS`, `PreviewSpeaksForWorkers`); and since a worker's help probe may be
cut off, a call may drop an override that codex does know, which its envelope discloses. A
codex whose version probe hangs is told as not installed. A resolution is remembered for
the life of the server, also one made while npm did not answer, or of an override that was
removed afterwards: until a restart, `codex_status` then speaks of another codex than the one
a worker resolves. `ProbesSpeakForWorkers` excludes these by `sure` and `hung`. A handle's
follow-up names the directory of its run; if the client has meanwhile moved to roots that do
not enclose it, the follow-up is refused as `workspace_outside_roots` although the run is
there and is the caller's own. `NamedCallsMeet` allows for that refusal.

## 6. What is assumed of code outside the repository

* **The job store** (pontonier). Every call is atomic, except that an idempotent start
  reserves and publishes in two steps. A cancel leaves a terminal record alone. The index
  sweep removes an entry only when no worker of its key is alive (retention of an entry
  exceeds every deadline). It takes a worker for alive if it is its child or holds the run's
  lock, and for dead otherwise; it signals nobody else. A stop is one call, which looks again
  before it marks: a run that completed meanwhile stays done (`server.py:273`,
  `CHANGELOG.md:2262`). The TTL, at least a minute, does not end between two polls of
  a waiter that started the run itself.
* **The workspace** (pontonier's `resolve_workspace`): a named directory is taken if the
  client's roots, when it reported any, enclose it, and refused otherwise; else one of the
  roots, the same for the same roots; else the server's own directory, with the source `cwd`.
  A refusal carries no path and no source.
* **The codex CLI**. A `-c` override replaces the table it names and outranks the profile,
  which outranks `config.toml`; under `--strict-config` an unknown key is an error,
  otherwise it is ignored; the order of the checks is options, configuration, login,
  backend. These are the statements of `cli_contract.py` and `codex.py`, not of codex.
* **The app-server**. It may write anything in any order, except that a response carries
  the random id of a read only after the read was requested.
* **The machine around the probes**: a path runs what lies there when it is spawned; npm
  names one directory or does not answer in time; a capture with a timeout kills what
  outlives it (`run_sync_capture`); the framework runs a synchronous tool in a thread. The
  kernel hands a pid out again once the process that had it was reaped, not before.
* **Git and the worktree library**: creation, capture and removal may each fail.

## 7. What is only model-checked, and what is not modelled

Only model-checked: all liveness (`CancelStopsSpend`, `EveryCallEnds`, `LeavesARecord`,
`CalledOffReturns`, `ReadersAreReleased`), which TLAPS cannot prove. Every safety property
that a passing run checks is also the statement of a theorem, and so is each of the two
refinements.

Every module's type invariant is proved (`TypeCorrect`, `WorkersAreTyped`, `CallTypes`,
`RunsAreTyped`, `ProbesAreTyped`, a part of `PlacesInvariant`) and therefore no run's property.
Nor are `DiscardSeesDone` (what it protects is `ConsumeKeepsTheUnread`), `OutcomesAreFinal`,
`NoSilentEnd` (what of `LeavesARecord` needs no fairness) and `AnswersStand`, which are theorems.

Not modelled: the reader thread failing to start and permission errors of `killpg` in
`appserver.py`; the turning of a root's URI into a path; retention and crashes across several
workspaces (the store of `JobServer` is that of one; `param_contracts.py:47` scopes a key to
its workspace, and `Workspaces` shows when two calls mean the same); the path and workspace checks of `codex_transfer`; the paths of
`interpret` that serve a stored quota (`is_stale`, `home_unverified`), which no caller takes;
sizes and the deadline advisory of a dry run; version support and flag warnings of
`codex_status`, capabilities and the model catalogue (reports without state); argument
validation and the error middleware (shape of one request); schemas and wire snapshots;
event parsing and rendering (text in, text out); the activity observer's progress file;
integer clamps of the configuration; logging. One hazard in `PROJECT.json` has no property:
the threads that fail to start, `appserver.py:814`.

## 8. Plan

Done, in this order, because the first is where money and results are lost: the job core;
the worker behind it; the app-server calls; the paid run; the replies of transfer and
status; the free calls before a paid one; store operations that raise; the reuse of pids;
the probes and the resolution of the binary behind the free calls; the workspace a call acts
on.

Next:

1. The worker's `RunEnds` against `PaidRun`: composition instead of correspondence, so that
   a stop at any instruction meets every place of a paid run. Its theorem is that what a
   composed run leaves is what `JobWorker` says of `RunEnds`.
2. `JobServer` in every workspace of `Workspaces`, with `OneLiveRunPerKey` for a store in each.
3. The configuration clamps as functions against a reference definition.
