# RedGiant: TLA+ models of the indexing engine

RedGiant is an in-memory inverted-index search service for short-lived
"event" documents. Clients feed documents over HTTP; every document
contributes weighted postings `(term, doc) -> weight` that live until an
expiration time; queries rank the documents matching a feature vector.
Snapshots of the index can be written to disk and restored at startup.

This directory holds the TLA+ models of the parts of the service whose
correctness rests on the order in which several threads do things, the TLC
configurations that check them, and this description. `PROJECT.json` is the
machine-readable index: components, runs, the map from definitions to source
lines, the mutants that show each property can fail, findings and hazards.

## 1. Inventory

The source tree holds three implementation files and one test; the rest of
the system is known from the design text (`spec.md`) and from the calls these
files make.

| Component | Source | State | Operations | Modelled in |
|---|---|---|---|---|
| Event index (`BaseEventIndex`) | `src/main/core/impl/base_event_index-inl.h` | `expire_` (deadline per (term, doc)), `changeset_` (staged edits), the published postings of the base class, `changeset_mutex_`, `max_size_` | constructor (with loader), `update`, `batch_update`, `apply`, `dump`, `update_expire_internal`; `get_expire_table_size` only reads and is left out | `EventIndex`, `EventIndexSnapshot` |
| Expiration table (`expire_`) | not in the tree; design 4.2 | deadline per key, min-deadline view | `update`, `expire_with_limit`, `size`, `dump`/load | `ExpireTable` (operators) |
| Posting store (base index) | not in the tree; design 4.1 | published postings, changeset | `create_update_internal`, `remove_internal`, `apply_internal`, `dump_internal` | operators of `EventIndex` |
| Abstract index | design 8, properties 2-4 | accepted postings, visible postings | accept, publish | `IndexSpec` |
| Process lifecycle (`server_main`, `main`) | `src/main/main.cc` | the program counter of the main thread, the scope guards and locals constructed so far, `g_exit_signal`, the signal mask, the state of the maintenance thread, the pipeline and the server | signal handlers, each initialisation step with its error exit, the wait loop, the scope guards run on every exit | `ServerMain` |
| Update pipeline | not in the tree; design 4.5 | bounded queue, workers | `enqueue`, worker batch, `stop` (drain) | `UpdatePipeline`, composed with `EventIndex`; `JobFlow`, the same with counted jobs, which `UpdatePipeline` implements and `ServerMain` builds on |
| Document index manager | not in the tree; design 4.4 | maintenance thread | `start_maintain`, `stop_maintain`, `dump`, restore | lock around `dump`, restore and the fall-back to an empty index in `EventIndexSnapshot`; thread start/stop in `ServerMain` |
| Feature cache | `src/main/model/feature_cache.cc` | `spaces_`, `features_` | `create_or_get_feature` (by space name, by space) | `FeatureCache` |
| Query executor | not in the tree; design 4.7 | none (reads postings) | top-K merge | not modelled: nothing of it is in the tree and it changes no state |
| Snapshot codec | not in the tree; design 4.8 | bytes on disk | encode, decode | not modelled: byte layout, no control |
| HTTP server, parsers, handlers, ranking models | not in the tree | - | - | not modelled: I/O and data conversion outside the engine |
| Logger and configuration reader | `read_config_file`, `init_log_config` in `src/main/main.cc` | - | read, parse, initialise | their return paths, with the value of each, as steps of `ServerMain` |

### How the parts interact

* Ingestion handlers (server threads) hand update jobs to the pipeline; its
  workers call `batch_update`, which under `changeset_mutex_` refreshes the
  expiration table and appends an UPSERT to the changeset for every tuple.
* The maintenance thread periodically calls `apply(now)`, which under the same
  mutex pops the expiration table (due entries, then the earliest entries while
  the table is over `max_size_`), appends a DELETE per popped key to the
  changeset, publishes the changeset into the postings and clears it.
* Readers (queries) see the published postings only.
* `dump` writes the postings and then the table to one dumper; the constructor
  reads them back in the same order. `dump` is called by the `/snapshot`
  handler on a server thread and by the exit path of `server_main`, in both
  cases while the maintenance thread is running.
* `server_main` starts the maintenance thread, the pipeline and the server in
  that order and registers a scope guard after each; the guards run in reverse
  order on every return and on every exception.
* `new_handler_abort` ends the process on the spot when an allocation fails,
  on whichever thread: no guard runs and no dump is finished. The next
  process restores the snapshot if there is a whole one and starts from an
  empty index otherwise.
* `SIGTERM`/`SIGINT` set `g_exit_signal`; the main thread blocks the two
  signals, clears the flag and waits in `sigsuspend` until the flag is set.

### What is hard

* `update`/`batch_update` race with `apply`: a key can be re-upserted while its
  old deadline is being popped; a removal staged by `apply` must not undo an
  upsert staged before it for a posting that is not due, and must undo one
  that is.
* The expiration table is changed eagerly, the postings lazily: between two
  applies the two disagree, and every consumer of both (apply, dump, restore)
  has to cope.
* `dump` reads two structures in two steps and takes no lock itself; the
  constructor reads them back in the order of its initialisers, which has to
  be the order `dump` wrote them in.
* The key is `{term, doc}` for the table and `(doc, term)` for the changeset;
  both ids are 64-bit integers, so a swap compiles.
* Shutdown is a sequence of blocking stops of concurrent activities whose
  order is fixed by the order of declarations in `server_main`; there are six
  early returns and an exception path, each with a different set of guards.
* The signal flag is written by an asynchronous handler and reset by the main
  thread; the mask that protects the wait is the main thread's own, and the
  other threads are started before it is set.
* Several workers take jobs from one queue and call `batch_update`
  independently, while `stop()` closes the queue behind them.
* The process can end at any instruction, in the middle of a dump included.
* The feature cache is keyed by id alone, while callers ask by key and by
  space, and spaces can be replaced under their name.

### Properties that make each part correct

* Event index: a published posting always has a deadline in the table and is
  removed by the first apply at or after it; an accepted update is never
  dropped; after every apply the readers see exactly the last accepted weight
  of each key the table kept; the table is brought down to `max_size_`, the
  earliest deadlines going first.
* Snapshot: a snapshot is a state the index was in; a restored index expires
  what it restored; a snapshot that was not finished is never loaded.
* Pipeline: every accepted job reaches `batch_update` exactly once and is
  published, a stop notwithstanding; with one worker, in the order accepted;
  with several, the weight and the deadline of a key are those of one job.
* Lifecycle: every exit path stops what was started; nothing runs on an object
  that has been destroyed; the exit snapshot is taken after the last accepted
  update reached the index; a termination signal ends the process.
* Feature cache: one `Feature` object per id for the life of the cache; which
  key that object carries when several keys have the id.

## 2. Plan

Modules, in the order written, most important behaviour first:

1. `ExpireTable` - operators for the expiration table (design-modelled).
2. `EventIndex` - `BaseEventIndex`: update, batch_update, apply.
   `IndexSpec` - the abstract index; `EventIndex` refines it.
3. `EventIndexSnapshot` - extends `EventIndex` with dump, load and the mutex.
4. `ServerMain` - the lifecycle of `main.cc` with signals, guards and the
   background threads, and the flow of update jobs as far as shutdown decides
   their fate.
5. `FeatureCache` - `create_or_get_feature` and the identity of the features
   handed out.
6. `UpdatePipeline` - the bounded queue and its workers with named jobs,
   composed with `EventIndex`: batches of several workers against apply and
   `stop()` (queue and workers design-modelled, `batch_update` and `apply`
   from the source).
7. Crash and restart: `NewHandlerAbort` in `ServerMain`, and in
   `EventIndexSnapshot` a restart at any moment that loads a whole snapshot
   or falls back to an empty index.
8. The event index at the edge of its capacity (`MaxSize = 0`) and the
   snapshot of an index with staged updates.

9. `JobFlow` - the pipeline as `server_main` sees it, jobs counted; the
   pipeline part of `ServerMain` is built from its actions and
   `UpdatePipeline` is shown to implement it.

10. The snapshot as a stream of sections read back in the order written, a
   dump that fails and leaves the process running, the failure of
   `start_maintain`, and the signal masks of the started threads as a
   constant.

11. The construction of the pipeline and its `start()` as two steps, with a
   start that fails half way; the return paths of `read_config_file` and
   `init_log_config`; the job that wins a key when two workers feed it; the
   key of a `Feature` shared by two keys.

All of these exist and are checked. What the source tree holds is modelled;
what is left is listed under "Not modelled" with the reason.

## 3. Modules

### ExpireTable

A table is a function from the tracked keys to deadlines. `ExpireWithLimit`
is the pop loop: it yields the set of result vectors the call can return,
since the order among equal deadlines is not fixed. Everything here is written
from the design text.

### EventIndex

Variables `expire`, `changeset`, `index` stand for `expire_`, `changeset_` and
the published postings; `applied` is a history variable holding the argument of
the last apply. `Update`, `BatchUpdate` and `Apply` are the three methods; each
holds the mutex for its whole body and is one atomic action. The arguments of
every call are free: any tuple, any batch up to `MaxBatch`, any apply time,
also one earlier than the previous one. Return values (edit counts) are left
out. `Init` is the empty index of the constructor without a loader, which is
not in the tree; the loading constructor of lines 10-14 is `Restart` of
`EventIndexSnapshot`. `MaxPending` is a bound of the model and no condition
of the code: `update` and `batch_update` wait for the mutex only, and the
guard keeps the changeset finite when nothing obliges an apply to come.
`UpdatePipeline` requires `MaxJobs <= MaxPending`, so that there the guard
never holds a worker back.

### IndexSpec

Two variables, `store` (what has been accepted) and `visible` (what readers
see), and two actions: `Accept` may add or overwrite postings and leaves
`visible` alone; `Publish` removes the due postings, then the earliest ones
while more than `MaxSize` remain, and nothing else, and makes `visible` the
weights of what is left. `EventIndex` implements it under the mapping
`store <- AcceptedStore` (for each tracked key, the weight of the last staged
edit or else the published weight, with the deadline of the table),
`visible <- index`.

### EventIndexSnapshot

Extends `EventIndex` with `mutex`, `stage` (the dump in progress) and `sink`,
the snapshot: the sequence of the sections written, as the dumper is a
stream. `DumpPostings` starts a new snapshot with the postings and
`DumpTable` appends the table: the two statements of `dump`. `Acquire` is the
lock the design assigns to the caller, switched by `DumpHoldsMutex`.
`DumpFails` is the `ios_base::failure` that `main.cc:203` catches, before the
first write or between the two; the process goes on. `Restart(postings,
table)` is the constructor of a new process, which can follow every state
since the process can end at any moment: `Load` reads the first section as
the postings and the second as the table when the snapshot is whole (two
sections), `CreateEmpty` is `server_main` without `restore_on_startup` or
with a snapshot that cannot be read, the `catch` of `main.cc:185` followed by
the construction of an empty index. Either way the mutex, the changeset and
a dump under way are gone.

### UpdatePipeline

Extends `EventIndex` with the queue in front of it. A job is its number in
`log`, the history of the tuples accepted, so that two jobs with equal tuples
stay apart. `Enqueue` is an accepted `enqueue` (a rejected one changes
nothing and is no step), `Take` moves the oldest job into a worker's batch of
at most `MaxBatch`, `Hand` is the worker's call of `batch_update` with the
tuples of its batch, `Stop` closes the queue, `Exit` is a worker returning
once the pipeline is stopping and nothing is left for it, `MaintainApply` the
maintenance thread. A worker may hand over a batch that is not full: how long
it waits for more jobs is a matter of timing. `handed` records the order in
which jobs reached the index. The changeset has room for every job of a run
(`MaxJobs <= MaxPending`): `Hand` waits for nothing but the mutex, as
`batch_update` does. The queue, the workers and `stop()` are written
from section 4.5 of the design; `BatchUpdate` and `Apply` are the actions of
`EventIndex`.

### JobFlow

The promise of the pipeline, written from section 4.5 of the design: counters
`accepted`, `queued`, `taken`, `handed`, `published` and the state `pipeline`
(`running`, `closing` after `stop()` was called, `stopped` when it returned).
`Accept`, `Take(n)`, `Hand(n)`, `Publish`, `Stop`, `Join`; `Join` waits until
nothing is queued or taken. `UpdatePipeline` implements it under the mapping
`accepted <- Len(log)`, `queued <- Len(queue)`, `taken <-` the sum of the
workers' batches, `handed <- Len(handed)`, `published <- Len(handed) -
Len(changeset)` (`batch_update` stages one edit per tuple and `apply` leaves
none), `pipeline <-` running until `stop()`, stopped when every worker has
exited. `ServerMain` uses the actions of `JobFlow` for its threads and for
the two halves of `pipeline.stop()`, so what `ServerMain` shows of shutdown
holds of the pipeline with named jobs and several workers too.

### ServerMain

The main thread is a program counter over the statements of `main`
(argument check, `read_config_file`, `init_log_config`, each with its error
exit; the two functions are the records of their return paths, three and
two, with the value each returns) and `server_main` that start, stop, register a guard, return, or touch the signal
state; one action per such statement or group of statements, each with its
error exit as a second disjunct. `scope` is the stack of the locals of
`server_main` that have a destructor (`index`, `feed_index_guard`, `pipeline`,
`pipeline_guard`, `index_view`, `model`, `server`, `server_guard`); `return`
and an exception (out of the restoring constructor, `start_maintain`, the
constructor of the pipeline or its `start()`, which create threads or read
files) both move to `unwind`, where the newest local is destroyed
until the stack is empty. The three guards do what their lambdas say:
`ServerGuard` stops the server, `PipelineGuard` and `JoinPipeline` are the
call and the return of `pipeline.stop()` (`Stop` and `Join` of `JobFlow`), `FeedIndexGuard` and `StopMaintain`
are the dump (if configured; its I/O failure is caught) and `stop_maintain()`.

Signals: `Signal(sig)` is the environment sending one of the four signals the
program installs handlers for. Before the handlers are installed a signal ends
the process. After, the handler runs on the main thread unless the main
thread blocks the signal; a blocked signal is handled by another thread of the
process if one runs (the mask set at line 323 is the main thread's; the other
threads were started before), or stays pending until `sigsuspend` lets it in.
Whether the other threads take signals is the constant `ThreadsTakeSignals`:
they are created with the mask of the main thread at that moment, which
holds nothing, and keep it unless their own code, which is not in the tree,
blocks the signals. With `TRUE` both outcomes are allowed whenever another
thread runs. While the main thread sleeps in `sigsuspend` it takes every
signal itself and wakes, as Linux delivers a signal to the main thread when
that thread does not block it.

Threads of the started components: `Feed` (a server thread has a request
accepted by the pipeline), `Take` and `Hand` (workers move jobs from the
queue to `batch_update`), `MaintainApply` (the maintenance thread publishes
what is staged). Each is the action of `JobFlow` guarded by the thread being
there: the server running, the process alive, the maintenance thread
started.

`CreatePipeline` is the constructor (lines 212-232) and `StartPipeline` the
call of `start()` with the guard and the index view behind it (233-239). A
`start()` that throws may have created some of the workers: the pipeline is
then left `none` or `running` with the object in scope and no guard
registered, and `DestroyPipeline` (`~DocumentUpdatePipeline`) stops the
workers on the way out, ahead of the guard of the index and of the index.
That the destructor does so is an assumption, as it is for `~Server`.

A `server.start()` that fails may have started some of its threads: the
server is then left `ready` or `running` with no guard registered, requests
keep arriving while `server_main` returns, and `DestroyServer` (`~Server`,
the first destructor to run since `server` is the last local declared) stops
them. That `~Server` stops its threads is an assumption: the class is not in
the tree. Once the process has exited no thread takes a step.

`NewHandlerAbort` is `std::abort()` from the new-handler: from any state of a
living process to `exited`, with the scope left as it is, since no destructor
runs. `Aborted` tells such an end from a return of `main`.

### FeatureCache

`spaces_` and `features_` are functions; a `Feature` is a record of its key,
its id and `obj`, the identity of the object the shared pointer points to.
`GetBySpace` and `GetByName` are the two overloads, each a disjunction of its
returns; `IsInvalid`, `IsCached` and `Insert` are the two tests and the
assignment of `GetBySpace`, `Return` is what every return does to the state;
`asked` is a history variable, the key of the last call. A space handed out by
`create_space` stays usable by its holder after another space has taken its
name (`handles`). `calculate_feature_id` is a pair of constant functions, one
for integer spaces (a part, or none for a key that is no number) and one for
string spaces (a hash).

## 4. Runs

| Run | Module / cfg | Expect | Shows |
|---|---|---|---|
| `event_index` | `MCEventIndex` / `MCEventIndex.cfg` | pass | the invariants of the event index and the refinement of `IndexSpec` |
| `snapshot_locked` | `MCEventIndexSnapshot` / `MCEventIndexSnapshot.cfg` | pass | with the mutex held around `dump`, snapshots are atomic and restored postings expire |
| `snapshot_unlocked` | `MCEventIndexSnapshot` / `MCEventIndexUnlockedDump.cfg` | violation | `dump` as written, with no lock: a restored posting without deadline |
| `server_main` | `MCServerMain` / `MCServerMain.cfg` | pass | on every exit path what was started is stopped before what it uses is destroyed; accepted requests reach the index, and do so before the exit dump; a signal that reaches the waiting main thread ends the process |
| `signal_during_startup` | `MCServerMain` / `MCServerMainSignal.cfg` | violation | an exit signal handled during startup is erased by `g_exit_signal = 0` |
| `feature_cache` | `MCFeatureCache` / `MCFeatureCache.cfg` | pass | one `Feature` object per id, returned to every caller |
| `feature_key_alias` | `MCFeatureCache` / `MCFeatureCacheKey.cfg` | violation | the `Feature` a caller gets from the cache carries the key of the call that created it, which need not be the key asked for |
| `event_index_zero_cap` | `MCEventIndex` / `MCEventIndexZeroCap.cfg` | pass | with `max_size_ = 0` every apply sheds all that is tracked, what was staged since the last apply included, and the index still implements `IndexSpec` |
| `snapshot_of_staged_updates` | `MCEventIndexSnapshot` / `MCEventIndexStagedDump.cfg` | violation | a snapshot taken between an update and the next apply restores a key with a deadline and no posting |
| `pipeline_one_worker` | `MCUpdatePipeline` / `MCUpdatePipelineOne.cfg` | pass | with one worker the index ends up as if the jobs had been applied in the order accepted |
| `pipeline_two_workers` | `MCUpdatePipeline` / `MCUpdatePipelineTwo.cfg` | pass | two workers, apply and `stop()`: no job lost or handed twice, weight and deadline of a key always those of the job handed over last, every job published, `JobFlow` implemented (fairness of the workers included) |

Every property of a passing run has a mutant in `PROJECT.json`: a changed form
of one action or of one operator an action is built from, defined next to it
in the module, under which TLC finds the property violated.

Distinct states: `event_index` 52,132; `snapshot_locked` 2,836;
`server_main` 25,150; `feature_cache` 7,070; `event_index_zero_cap` 2,020;
`pipeline_one_worker` 8,091; `pipeline_two_workers` 51,117. Each run ends
within a minute with two workers of TLC.

### Bounds

* `event_index`: terms `{1,2}` and docs `{1,2}` (four keys, and ids shared by
  terms and docs so that a swapped key is still a key), two weights, times
  `0..2`, `MaxSize = 2`, batches up to 2 tuples, at most 2 edits staged between
  applies. Four keys over a capacity of two force shedding by capacity with
  ties; three times let a deadline be before, at and after an apply.
* `event_index_zero_cap`: as `event_index`, with `MaxSize = 0`; only the
  refinement is checked, the invariants of `event_index` say nothing new of
  an index that every apply empties.
* `snapshot_*`: two keys over a capacity of one, one weight, times `0..1`.
  A restart can follow every state, so every prefix of a dump is a snapshot
  some restart meets.
* `pipeline_*`: one key, two weights, times `0..1`, so that every two jobs
  are about the same posting and their order shows; `QueueSize = 2`,
  batches up to 2, `MaxJobs = 3`, `MaxPending = 3`: the queue can be full while a worker holds
  a batch and a third job arrives after a slot is free, and `stop()` can
  meet jobs in the queue and in both workers' hands. `MaxJobs` caps the
  jobs accepted in a run. The modules assume at least one worker and a
  queue of at least one slot: `main.cc` takes `update_thread_num` and
  `update_queue_size` from the configuration unchecked, and what the
  pipeline does with zero of either is not in the tree.
* `server_main`, `signal_during_startup`: the four signals by their numbers;
  the started threads take signals in the first and block them in the
  second;
  `QueueSize = 1` and `MaxJobs = 2`, so that the queue is full while a second
  request arrives, and a job can be in the queue and another in a worker's
  hands when shutdown begins. `MaxJobs` caps the requests accepted in a run;
  signals are not capped (a signal changes a flag, a set or nothing).
* `feature_cache`: an integer space `A` with id 1, a string space `A` with
  id 2 that replaces it, a string space `B` with id 1; keys `"7"` and `"07"`
  (one integer), `"xy"` (no integer; same hash as `"07"`). Every way two
  requests can meet in one id is present.

### Fairness

The runs of the event index, the snapshot and the feature cache check safety
only and assume no fairness.

`UpdatePipeline` assumes weak fairness of each worker and of the maintenance
thread: they are threads of a running process, a worker's next step (take,
hand over, exit) stays enabled until it takes one, and the maintenance thread
applies at every tick. Nothing is assumed of producers nor of whoever calls
`stop()`. The pipeline may stop for good, with all workers gone or simply
idle; deadlock is checked all the same, and none exists because an apply is
always possible.

`JobFlow` assumes weak fairness of its workers taken together; the run
`pipeline_two_workers` shows that the fairness of each single worker of
`UpdatePipeline`, with the maintenance thread applying, gives it.

`ServerMain` assumes weak fairness of the main thread (`MainThread`) and of the
pipeline workers (`Worker`): both are threads the operating system keeps
scheduling, and each of their steps stays enabled until taken. Nothing is
assumed of the environment (signals, requests, a failing allocation) nor of
the maintenance thread, whose apply no property waits for. An abort is an
end of the process like any other: `AcceptedJobsReachIndex` promises the
index to an accepted job unless the process was aborted. The process stops when it has exited;
`Terminated` is that final state, so that a deadlock found by TLC is a thread
waiting for something that never comes.

## 5. Findings

* `snapshot_unlocked`: `BaseEventIndex::dump` takes no lock, while the design
  says it holds the writer lock. If the caller does not hold
  `changeset_mutex_`, an apply between the two writes of `dump` produces a
  snapshot with a posting whose deadline is missing; the restored index never
  removes it.

* `feature_key_alias`: `create_or_get_feature` finds a cached `Feature` by
  id and returns it without looking at `feature_key`
  (`feature_cache.cc:32`). When two keys have one id, the second caller
  gets a `Feature` whose `get_key()` is the first key (TLC's trace: an
  integer space, `"7"`, then `"07"`). The unit tests assert `get_key()` to
  be the key asked for, in cases where every id has one key; which key a
  shared `Feature` should carry is not said anywhere. How keys come to share
  an id (`calculate_feature_id`) is outside the tree: the model takes two
  spellings of an integer, two strings of one hash and two spaces created
  with one id.

* `signal_during_startup`: `exit_on_signal` is installed at the top of
  `server_main`, `g_exit_signal` is cleared just before the wait loop. A
  `SIGTERM` or `SIGINT` handled in between (startup may be long: it restores
  the snapshot) sets the flag, the reset erases it, and the process sleeps in
  `sigsuspend` until a second signal arrives. TLC's trace: the handlers are
  installed, signal, the rest of startup, reset, sleep. The run is made with
  `ThreadsTakeSignals = FALSE`, so that this is the only way to lose a
  signal. With `TRUE` the property also fails in a second, much shorter
  window: between `sigprocmask` and `sigsuspend` the signal is blocked by
  the main thread only, and if one of the threads started earlier handles it
  the main thread is not woken. `CaughtSignalEndsProcess` is the part of the
  property that holds, and the run `server_main` checks it with `TRUE`.

* `snapshot_of_staged_updates`: `update` refreshes the expiration table at
  once and stages the posting; `dump` writes the published postings and the
  table, and not the changeset. A snapshot taken between an update and the
  next apply, with the mutex held, restores to an index that tracks a key
  it has no posting for (TLC's trace: update, the two writes of dump,
  load). Scenario S5 of the design asserts full-index equality after a
  round trip and does not say that an apply has to come before the dump;
  the exit dump of `main.cc:202` is taken without one.

### Things the design leaves open

* `expire_with_limit(now, max_size_)` is described once as "up to `max_batch`
  entries" and once as the capacity policy. The model follows the call in
  `apply` and properties 3 and 4: the earliest entry is popped while it is
  due or the table is over its capacity.
* "Re-insert wins": the removals of an apply are staged behind the upserts
  already waiting. An upsert of a key that the same apply pops is therefore
  undone. This is consistent (the table no longer tracks the key) and is
  what `IndexSpec` says; an upsert wins over a removal only when it refreshed
  the deadline so that the key is not popped.
* Order across workers: with two workers, two updates of one key can reach
  `batch_update` in the reverse of the order they were accepted in, and the
  older one wins. `InOrderAtRest` is violated with `Workers = {w1, w2}`; the
  design says ordering across workers is not guaranteed, so the property is
  checked with one worker only, and with two `LastHandedJobWins` is checked
  in its place: whichever job wins, it wins with its weight and its
  deadline. The default of `update_thread_num` is 4.
* A restore that fails starts from an empty index, and with `dump_on_exit`
  the next exit writes that index over the snapshot that could not be read.
* The exit dump is taken after the pipeline has drained
  (`ExitDumpAfterDrain`) and before a last apply.

## 6. Not modelled

The snapshot byte format, HTTP framing, JSON parsing, logging, the ranking
models, and the lock-free reader protocol of the posting store (it is not in
the tree and the event index uses it only through `apply_internal`). The
query executor: it reads the published postings and changes nothing, and no
line of it is in the tree, so a model of it would check the design text
against itself.

Of `main.cc` every statement that changes state is an action of
`ServerMain`; the lines no definition stands for are includes, comments,
log statements and configuration keys. In `UpdatePipeline`: how long a
worker waits for a batch to fill, and rejected enqueues.

In `ServerMain`: the values read from the configuration other than
`restore_on_startup` and `dump_on_exit` (a capacity of zero is the run
`event_index_zero_cap`); the `/snapshot` handler (its dump is that of
`EventIndexSnapshot`); what `~Server` and `~DocumentUpdatePipeline` do to
threads a failed `start()` left running (taken to stop them); the file
`read_config_file` leaves open when the configuration does not parse (the
process returns at once); exceptions other than an I/O failure out
of the exit dump. `PROJECT.json` lists these under `hazards` with the line
each one sits at.

In `ServerMain` too: delivery of a process-directed signal to a thread other
than the main one while the main thread does not block it. POSIX leaves the
choice of the thread open; the model gives the signal to the main thread, as
Linux does, so a signal sent while the main thread sleeps in `sigsuspend`
always wakes it.

In `FeatureCache`: concurrent callers. The class has no lock, so two threads
asking for a new id at once would race on `features_`; nothing in the tree
calls it from a second thread (`main.cc` builds its parsers on the feature
space manager), so the calls are taken one at a time, as the unit test makes
them.

Nothing more of the tree is left to model. Every statement of the three
implementation files that changes state, returns or throws stands behind a
definition; the lines behind none (about a quarter) are includes, comments,
log statements, configuration keys and `get_expire_table_size`, which only
reads. The classes these files call (the expiration
table, the posting store, the pipeline, the index manager, the server) are
present only as far as the design text and these calls determine what they
do. A model of their insides would have no code to be held against.
