# A TLA+ model of the GLM-5.3-Flash serving stack on four GB10 nodes

The repository serves one large model on four DGX Spark nodes without a switch.
Most of its own logic is a set of overlays on vLLM and on the SparkCache
connector, and a shell controller that starts and stops the cluster. This
directory models that logic in TLA+, checks it with TLC on small instances and
proves the safety properties that matter most, for every value of the
constants, with TLAPS.

`E` below stands for `src/scripts/node/experiments/e03`, `SC` for
`src/third_party/sparkcache/spark_context_cache_connector-ram-budget.py`.

## 1. Inventory

| Component (source) | State | Operations | What is hard |
| --- | --- | --- | --- |
| Bounded API admission (`E/bounded-admission/middleware.py`) | semaphore, `_active`, `_queued`, `_inflight`, `_counts`; per call: received body, `response_started` | one ASGI call: admit, queue, read body, run the application, answer or abort; four deadlines; cancellation | a slot changes hands between two runs of a task; deadlines and cancellations strike in between; error answers in the middle of a response |
| SparkCache RAM budget (`E/sparkcache-ram-budget/bounded_connector.py`, `src/third_party/sparkcache/spark_context_cache_memory_budget.py`) | `_reserved_bytes`, tickets by `id(snapshot)`, spool files, `_store_queue`, `_store_inflight`, `_store_thread` | reserve, capture, enqueue, commit, release; restore with CUDA fence; shutdown | three kinds of thread; a payload is referenced from a frame, a queue, another frame or the device; every step may fail |
| SparkCache base connector (`SC`) | held digests and the numbered states of that set, the scheduler's picture of it per rank, quorum; load queue, finished ids, load errors, publication outcomes | store claim, reports and their absorption, load workers, completion reporting, shutdown | reports are lost, late or repeated and processes start again; two sets published together, collected by another thread |
| Bounded disk streaming (`E/sparkcache-ram-budget/stream_io.py`) | object files, manifests, staging files, a root lock | publish objects, publish the manifest last, preflight and read | crash between objects and manifest, concurrent publishers, eviction under a reader |
| Scheduler overlays (`E/prefill-step-cap/scheduler.py`, with its predecessors in `E/long-prefill-cadence`, `E/queued-cadence`, `E/end-drain`) | waiting and running requests, cadence counter, capacity latch, held ids | one scheduling step with throttled prefills, short-prefill admission, end-drain holds, step cap | everything defers something: no starvation, no empty step |
| Adaptive draft length (`E/e35-runner-k/adaptive_k_scheduler.py`) | EMA and level per request, ring of the last three hand-outs, failed flag | observe, decide, size placeholders, evict | outputs come two steps after the placeholders they answer |
| Draft length on the runner (`E/e35-runner-k/model_runner.py`, `speculator.py`) | recorded drafts with events, last sequence number, host ring | record, decide on rank 0, broadcast, trim | stale confidence, a rank that leaves before the broadcast |
| Idle coalescing (`E/end-drain/core.py`) | input queue, deadline | first request after idleness opens a window | shutdown and pause arrive through the queue waited on |
| Pooled-key tail ring (`E/e31-indexer/glm_kpool.py`, `pooled_indexer.py`) | ring of un-pooled keys per request | write, pool, rewind after rejected drafts | the ring must outlive the longest rewind |
| Cluster controller (`src/scripts/tp4ctl`) | containers, flushers, cleanup flag | up, down, restart, poweroff | interruption at any point of a launch |
| Resilience tooling (`src/scripts/resilience`) | quota file, reservations, fault control | guard growth, prune, inject | locks and reservations of killed processes |
| Numerical overlays, transport, deployment, fidelity tooling | - | - | floating point, vendored code, sequential I/O: not modelled |

How they interact: a request passes the admission middleware, becomes a vLLM
request, is scheduled by the overlaid scheduler (which asks the adaptive
component for draft lengths and the connector for cached prefixes), runs on four
ranks (where the runner may shorten drafts and the indexer keeps its ring), and
at the end of a step `wait_for_save` may store its pages through the budgeted
connector, whose saver publishes them through the streaming store. Restores run
the other way on the load threads. The controller starts and stops all of it;
the resilience tooling injects faults below the store.

What makes each component correct:

* admission: slots are conserved, bounded and handed out in arrival order;
  gauges and ledger tell the truth; one response per call; every call ends;
* RAM budget: a reservation is held as long as anything may refer to its bytes
  and no longer; the counter is their sum; one store at a time; shutdown drains;
* base connector: a rank counts for an entry only if the newest state it reported
  holds it; a failed restore is never seen as finished and valid;
* streaming store: a manifest implies complete, correct objects, whatever
  crashes; a reader accepts only the bytes that were captured;
* scheduler: an eligible request is scheduled in the end, a throttled step is
  never empty while work waits, caps hold;
* draft length: every rank uses the same length, decided from current data;
* ring: every key that a pool reads is the one written for its position;
* controller: no flusher or container outlives a failed launch.

## 2. Modules

| Module | What it is |
| --- | --- |
| `Admission` | the middleware on one asyncio event loop |
| `SlotQueue` | what the middleware promises: a FIFO queue for a bounded number of slots |
| `MCAdmission`, `Admission.cfg`, `AdmissionLive.cfg` | instances for TLC |
| `AdmissionProofs` | inductive invariants of `Admission`, its safety properties as theorems; `Admission` implements `SlotQueue` |
| `CacheBudget` | the budget and the ownership of its reservations across threads |
| `MCCacheBudget`, `CacheBudget.cfg`, `CacheBudgetStartFails.cfg` | instances for TLC |
| `CacheBudgetProofs` | the inductive invariant of `CacheBudget`, its safety properties as theorems |
| `StreamStore` | publication of snapshots object by object, readers, crashes and damage |
| `AtomicStore` | what the streaming store promises: whole entries, durable once acknowledged |
| `MCStreamStore`, `StreamStore.cfg`, `StreamRead.cfg` | instances for TLC |
| `StreamStoreProofs` | what a manifest names is whole; acknowledged entries survive |
| `StreamReadProofs` | the readers' arithmetic, their reasons to reject, and that `StreamStore` implements `AtomicStore` |
| `StepScheduler` | the mounted scheduler: one pass of `schedule()` turn by turn, the ends of steps, aborts |
| `EngineCore` | the busy loop around it: queues, idle window, two steps in flight; extends `StepScheduler` |
| `MCEngineCore`, `EngineCore.cfg`, `EngineCoreLive.cfg` | instances for TLC |
| `EngineCoreProofs` | the inductive invariant of `EngineCore`, its safety properties and the order of the line as theorems |
| `RunnerK` | the draft length on the ranks: recording, decision, broadcast |
| `MCRunnerK`, `RunnerK.cfg` | an instance for TLC |
| `RunnerKProofs` | the inductive invariant of `RunnerK`, its safety properties as theorems |
| `Controller` | `tp4ctl`: up with its cleanup, down, restart, poweroff |
| `MCController`, `Controller.cfg` | an instance for TLC |
| `ControllerProofs` | the inductive invariant of `Controller`, its safety properties as theorems |
| `HeldQuorum` | how the scheduler learns which cache entries every rank holds |
| `HeldQuorumProofs` | the inductive invariants of `HeldQuorum`, its safety properties as theorems |
| `MCHeldQuorum`, `HeldQuorum.cfg`, `HeldQuorumStartup.cfg` | instances for TLC |

### Admission

One request is one ASGI call, and one action is one stretch of a task between
two awaits, or the expiry of a timer, or a cancellation. `phase` says at which
await the task is suspended: in `acquire()` (`queued`), in `receive()`
(`reading`), inside the application (`serving`), in the bounded send of a
response message (`sending`), in the two sends of `_send_error` (`error1`,
`error2`). `active`, `queued`, `inflight`, `admitted`, `counts` and `started`
are the code's variables; `slot` is `acquired`, together with whether the
`finally` clause has run; `held` is what the middleware still keeps of a body.

The event loop is modelled where the code depends on it. A timer or
`task.cancel()` only sets `pend` and cancels a pending future (`TaskCancel`); the
task sees it when it runs next. `pend` keeps the outermost of several causes,
because `asyncio.timeout` converts a cancellation only when none from further
out is under way. The semaphore is that of the pinned Python 3.12 runtime, given
as it is used: `fut`, `ticket` and `value` are the waiters' futures, their order
and the counter. `release()` resolves a future (`ReleaseSlot`); between that and
the run of the waiter the unit is in nobody's hands (`fut = "granted"`).

Left out: the texts of errors, the validation of `Content-Length` (its three
outcomes remain), logging. Body data is a count of units. A request that is not
guarded ends at once (`Bypass`). At the end of a call its locals are reset.

### CacheBudget

Four actors share the budget: the worker thread inside `wait_for_save`
(`Producer`, which holds `_cpu_store_lock` from `BeginSave` to `EndSave`), the
saver thread, the restore threads, and a caller of `shutdown()`. A reservation
is an element of `Res`; a ticket is identified with the reservation it wraps,
and `charged` is the set of those not released. A snapshot is an address and
the ticket whose spool it carries, because the code finds tickets by
`id(snapshot)`: `Capture` may choose any address that no live object has, and
`local` is the loop variable of the base `wait_for_save`, which keeps the
previous snapshot alive until it is bound again.

`MemAvailable` is read anew by every reservation, so it is a free choice from
`Readings`. `Skip` stands for both reasons to skip a plan. `SaverCommits` is the
whole of `_commit_store_snapshot`, publishing or failing: the closing of the
spool and `_finish_store`. Shutdown may overlap a call of `wait_for_save`; vLLM
calls them one after the other, so the model allows more than vLLM does.

Left out: the failure of closing a spool; which restores are verified and how
they are reported; the bytes of segments; counters nothing reads. A restore's
CUDA stream is created by the first placement (`stream`), and only then can the
fence fail.

### StreamStore

A snapshot is a sequence of units, an object is a slice of it and a file is named
by its object (the name is the SHA-256 of the bytes; that two objects never share
one is assumed). `chunks` says what the file of each name holds: nothing, the
object, something shorter, or wrong bytes of the right size. `synced` and
`msynced` are what of `chunks/` and of the manifests a stop of the machine is
sure to leave; `Crash` picks, name by name, one of the two.

A publisher takes one action per system call that others can see: the link of
the staged file (`LinkObject`), the comparison with what was there
(`LinkExists`, `Deduplicate`, `ObjectDiffers`), the replacement (`ReplaceObject`),
the sync of the directory in the `finally` clause (`SyncObjects`), the link of the
manifest and its sync (`PublishManifest`, `SyncManifest`). The root lock is shared
among publishers, so any number of them interleave; `Maintain` asks for it
exclusively and gives up when a publisher holds it. `FailCommit` stands for every
exception and for a killed process.

A reader takes no lock. It opens and checks one file per `Preflight`, then
`ReadExact` asks for a piece and `OpenObject`, `ReadPiece` and `FinishObject` are
the turns of the loop in `read_exact`. `file` says whether the open descriptor is
still the file of that name or one that lost the name, with the content it then
had (`Detach`). `index`, `offset`, `left` and `got` are `_descriptor_index`,
`_object_offset`, `size - copied` and what was delivered; the running digests are
digests of parts of `got`. After `close()` the model resets them, since nothing
reads them again.

Outside `src/` and given as it is used: `_publish_immutable` (links a synced file,
accepts an equal manifest, refuses another, syncs the directory), the base
store's `maintain` and `invalidate`, and the file system. Their removals may or
may not be durable. Damage is what `faultctl.py mutate` does to an object or a
manifest; that it puts a file back afterwards is left out.

`hurt`, `acked`, `sure` and `fault` record history for the properties: which
objects something other than the store damaged since they were last verified
and synced, which entries were acknowledged, whether the object at hand is still
as it was verified, and whether a reader has a reason to reject.

### StepScheduler and EngineCore

`StepScheduler` is `E/prefill-step-cap/scheduler.py`, the file the deployment
mounts last and which contains the changes of the other three scheduler
overlays, together with the parts of `AdaptiveKScheduler` that hand out
placeholders. One action is one turn of a loop of `schedule()`: a running
request is skipped because its step in flight surely ends it (`SkipEnding`),
held back by the end-drain hold (`HoldBack`), deferred as an unfinished prefill
on a throttled step (`DeferChunk`), left without tokens (`SkipEmpty`), scheduled
(`Grant`) or the pass preempts for it (`GiveUp`); a waiting one is
passed over (`PassOver`), set aside on a throttled step (`SetAside`) or admitted
(`Admit`). `pass` holds the locals of the call: the token and input budgets, the
decision to defer, the short prefills let through, the output under construction
and the two lists of requests set aside. `req` holds each request's counters:
`computed`, `output`, `owed` (placeholders), `spec` (placeholder drafts),
`chunk` (an unfinished prefill), `inFlight` and `stale` (tokens in flight, and
those of before a preemption), `blocks`.

`EngineCore` is `run_busy_loop` of `E/end-drain/core.py` with
`step_with_batch_queue`: `loop` says where it stands, `input` and `aborts` are its
two queues, `batch` the results in flight, `parked` the output whose sampling
waits for a grammar, `arrived` is `e29_first`. What clients and the grammar
compiler do is interleaved only where the loop looks at it (`Looking`): nothing
they change is read elsewhere, so any other moment gives the same result as the
next such one. `Retire` chooses how many drafts the model accepted and whether
a request meets its end of sequence.

The instance of the policies follows the deployment: first come first served,
one pipeline stage, tensor-parallel ranks in one batch, a table of draft lengths
per batch size, the adaptive length batch-uniform. Left out: LoRA, encoder
inputs, streaming sessions, pauses, remote loading of a prefix, failed grammar
compilation, and `max_model_len` (not binding). The allocation of blocks
is external: `Capacity` tokens in all, the whole sequence reserved at admission.
The EMA of the adaptive policy is a free choice between its two lengths at every
step, so whatever it computes is covered; its arithmetic is not modelled.

### RunnerK

Every rank runs the steps of `plan` in order and at its own pace. `pc` is where
a rank stands in a step, `ran` what it verified, `mail` what rank 0 has broadcast
and a peer has not received. The recorder lives on rank 0: `made` are
the proposals, `store` the entries a decision may read, `slots` the ring of host
slots with `next` as its cursor, `copies` the device copies still to happen. A
decision reads a slot only when its event has passed. The policy flag may be
rewritten at any time; the three places that read it do so through caches of half a
second each, so `polled` and `active` may be older than `flag`, and than each
other. A rank that fails to build its state raises and takes the engine `down`.

The margins and the EMA are a free choice of length; the ring's eviction of old
requests is a choice among the undrafted ones. The broadcast is external: an
ordered mailbox to each peer.

### Controller

`host` says of each host which launch its container belongs to and whether a
flusher runs. A visit to a host succeeds, fails with nothing, half or all of its
work done, or outlives its ssh: then it joins `late` and acts at some later moment.
A host on which such a command acted is in `touched`, and the properties do not
speak of it: the controller cannot know. `Signal` is an interrupt where `up` has
armed its trap, which runs the cleanup; `Kill` is a signal without a trap, SIGKILL
or the loss of the machine that runs the controller. Launches are numbered by
the command that made them, so that a container left by an earlier one is told
from a container of this one.

The health check may succeed whenever rank 0 has a container, which assumes
less of the engine than is true. Left out: a node that reboots, a flusher that
ends by its own deadline, the confirmation prompt of `poweroff`, hosts without
`timeout`, and the commands that only read (`status`, `logs`, `health`,
`fabric-check`).

### HeldQuorum

The workers' half is `_build_quorum_report_locked`: `held` against `observed`, the
number of the state (`sequence`), the deltas kept and the `cursor` that sends
them in turn, `cycle` and `index` of the rolling checkpoint. `Handshake` is what
`get_handshake_metadata` sends at startup. `net` holds every report ever sent: one
that is never taken was lost (the statistics of a step keep one report per rank),
one that is taken twice was repeated, and the order is free.

The scheduler's half is `_absorb_quorum`, one action per decision and one per turn of
the drain loop; `stage` says where it stands, and the workers wait meanwhile, since
nothing they have is read there. `known`, `retired`, `accepted`, `believed`,
`pending`, `partial`, `desync` and `requires` are the eight `_worker_*` maps;
`offers[r]` is the set of digests whose `_quorum` entry contains `r`. A rank is
marked out of sync by a gap (`Mark`), counts again when the gap is closed
(`EndDrain`), and is rebuilt from a whole checkpoint (`CompleteCheckpoint`).

`Hold` stands for everything that adds a digest to `_held` or removes one. With
`Settled` it waits for the first report after the handshake: section 6 says why.
Left out: malformed reports, reports in the protocol before this one, and
the branches for a chunk or a delta that contradicts an earlier one of the same
number, which a rank that runs this code never sends. Of a restore only its
admission and its end are kept: a failed one resets the quorum of its digest.

## 3. Runs

| Run | Instance | Checks |
| --- | --- | --- |
| `admission` | 4 calls, 2 slots, 1 queue place, bodies of up to 2 units with limit 1 | the invariants |
| `admission_live` | 3 calls, 1 slot, 2 places, under `FairSpec` | `ImplementsSlotQueue`, `EveryCallEnds` |
| `cache_budget` | 4 reservations with peaks 2, 1, 1, 1, cap 3, floor 1, 3 addresses, 2 restore threads, up to 3 plans per call, starting the saver does not fail, under `FairSpec` | ownership, the counter, shutdown, `SaverSurvives`, `StoreEnds`, `BudgetReturned` |
| `cache_budget_start_fails` | the same with 1 restore thread, starting the saver may fail | `SaverSurvives` is violated (section 6) |
| `stream_store` | 2 contexts, 2 snapshots of 2 and 3 units, objects of 2 units, 2 publishers, no reader, 1 damage | `ManifestBacked`, `CommitDurable` |
| `stream_read` | 1 context, the same snapshots, 1 publisher, 1 reader, 1 damage | `TypeOK`, `RejectsOnlyForCause`, `ImplementsAtomicStore` |
| `engine_core` | 4 requests (a prompt of 5, one of 4 with 2 cached, one of 1, one of 2 with a grammar), 3 running, a step of 4 tokens, a prefill step every 3, cache of 10 tokens | queues, placeholders, deferral, hold, ring and order |
| `engine_core_live` | 3 of them, 2 running, the vendor's latch instead of the cadence, under `FairSpec` | `EveryRequestEnds` |
| `runner_k` | 2 ranks, 2 requests, 4 steps, lengths 1 and 2, a ring of 2 slots, 1 change of policy, under `FairSpec` | `Agreement`, `RightConfidence`, `EveryStepRuns` |
| `controller` | 3 hosts, 3 commands in a row, 1 command at a time that outlives its ssh | `ReadyMeansWhole`, `FailureLeavesClean`, `DownMeansEmpty` |
| `held_quorum` | 2 ranks, 2 digests, one digest per chunk and delta, 2 deltas kept, 1 waiting, 1 generation remembered; rank 0 numbers 3 states in 5 checkpoint cycles, restarts and reports what it holds then | `BeliefAsReported`, `ConfirmationsCurrent`, `NeverBack` |
| `held_quorum_startup` | 1 rank, a handshake of 1 digest | `EntriesReported` is violated (section 6) |

Bounds. In `admission` three calls fill the slots and the queue place and a
fourth meets a full queue; two holders, a waiter with a resolved future beside
one without, and a free unit beside a waiter all occur. `admission_live` has the
two waiters that an order needs. `ReadTooLarge` passes the
limit with the first or with a later chunk. The calls are symmetric: no action
names one of them. `Counted` keeps only the two counters the ledger reads: no
guard reads any counter. In `cache_budget` the cap admits two or three of the
four reservations together, so refusals by the cap, by the floor and by an
unusable reading occur; three plans and three addresses are what a snapshot in
the queue, one in the frame and one reused address need. `MaxPlans` bounds the
plans of one step; calls repeat without bound.

In the stream runs one snapshot is the first object of the other, so that
publishers meet on an object and a shorter snapshot shares what a longer one
needs; the last object of the longer is short; a read of two units may start in
the first object and end in the second. `MaxHits` bounds damages; crashes,
invalidations, evictions and commits are unbounded. Readers do not touch what
publishers see, hence a run for each; contexts and publishers are symmetric in
`stream_store`. The theorems of section 4 cover them together.

In `engine_core` the long prompt does not fit one step, so it is chunked,
deferred and resumed; the cache is too small for all four, so requests are
preempted with steps in flight; the short one passes a throttled step; three
running requests take drafts by the table's three entries. The table is the
deployed one in miniature (longer drafts for small batches), and so are the
cadence (8 in the deployment), the short limit (2048) and the cap (6912): the
code compares them, it has no constants of its own. In `engine_core_live` a
long prompt, a cached one and one with a grammar compete for two places.

Four steps in `runner_k` let a slot be overwritten twice and a proposal be
answered two steps later; `MaxFlips` allows a change between any two reads of the
flag. `controller` has a first, a middle and a last host, which the loops tell
apart; three commands make `up` meet what a failed `up` and a `down` left. Its
commands run out, so it may stop; in `engine_core` all requests may have ended.

In `held_quorum` a set of two digests needs two chunks, so checkpoints of different
states mix; three states are what a delta that finds the waiting place taken
needs, from either side; `MaxSequence` and `MaxCycle` bound what each process
of a rank numbers and sends. The second rank is known by its handshake alone:
ranks meet only in `HasFullQuorum`. The restarted process of rank 0 sends its
handshake and one cycle of the set it found. When the bounds are used up nothing is sent
any more, so the run may stop.

Fairness. `Admission!FairSpec` assumes that the event loop runs a task that has
something to see, that the wall deadline of an active request passes and that
the send deadline of an error answer does: all three are armed once and not
re-armed while they wait. It assumes nothing of clients, of the application, of
the queue deadline (half an hour) or of the idle deadlines of an active request
(every message sets them anew). `CacheBudget!FairSpec` assumes that a call of
`wait_for_save` runs to its end, that the saver takes what is queued and ends
its commit (weak fairness: nothing disables these steps), and that the saver
gets `_cpu_store_lock` in the end (strong fairness: the lock is free between two
calls for a whole model step, though no single call waits for the saver).
`EngineCore!FairSpec` assumes that the
busy loop keeps running (weak fairness of its next step: it is a `while True`) and that a
grammar is compiled in the end (strong fairness, because the model counts the
compiler's work only when the loop looks). It assumes nothing of clients.
`RunnerK!FairSpec` assumes that each rank goes on with its step when it can, and
that rank 0 proposes and its device copies are made. `StreamStore`,
`Controller` and `HeldQuorum` have safety properties only.

## 4. Proofs

Everything in this section holds for any number of requests, slots, queue
places, reservations, addresses, threads, contexts, publishers, readers, ranks,
steps, hosts, commands, digests and processes, any
peaks and limits and any snapshots, object, chunk and read sizes, from the `ASSUME`s in
the modules alone (finite sets of requests, of reservations and of digests, positive
limits and sizes, snapshots that are not empty), except where a theorem names a
condition: two of `HeldQuorumProofs`, one each of `CacheBudgetProofs` and
`EngineCoreProofs`.

`AdmissionProofs`. The inductive invariant `SlotInv` is the type invariant, the
conservation of slots, the exact gauges, the bounds, the ledger, and `Coupled`,
which says what each phase means for the futures and the slot of its task (a
task is in the semaphore's deque exactly while it is queued, holds a slot from
`reading` to the end of the call, and so on). `Coupled` is needed because every
decrement in the code is guarded by the place where the task is, not by a test
of the gauge. The steps of the semaphore are lemmas about what one wake-up, a
release and a cancelled acquire do to the numbers of free and granted units. On
top of it: `ResponseStartsOnce` from the relation of `starts`, `started` and the
phase; `BodyStorageIsBounded` from the fact that only holders keep a body;
`NoWakeupIsLost`, which is inductive with `SlotInv`.

The module ends with the refinement. Under the mapping of `Admission!Queue` (a waiter has a
future nothing has touched; a holder has the slot or a resolved future) every
step is a step of `SlotQueue` or a stutter. That arrivals go behind everyone who
waits needs the order of tickets: waiting tickets are below `admitted` and
different.

What the abstract queue promises comes back as a statement about the code's own
futures: `FirstComesFirst` says that a step never resolves the future of a request
while one with an earlier ticket stays pending. No run checks it by name; the run of
`AdmissionLive.cfg` checks the refinement it follows from, with two requests waiting.

`CacheBudgetProofs`. The inductive invariant `BudgetInv` is the type invariant,
the counter as the number of charged units, and one conjunct per owner: what the
producer's position, the saver's and each restore thread's mean for who owns
which reservation, that owners are disjoint, and that a queued snapshot has its
entry unless an address was reused. `BudgetHeld`, `NothingOrphaned`,
`SpoolsOwned`, `OneStoreInFlight` and `DrainedBeforeExit` follow from it with a
further inductive conjunct each. `SaverSurvives` is a theorem where starting the
saver's thread never fails (`StartMayFail = FALSE`). `AliveInv` says that each queued
snapshot has the entry at its address: an address is used twice within a call only
after a store of that call has failed, and as long as threads start, nothing of
that call is queued by then. Section 6 shows the
opposite case violated.

`StreamStoreProofs`. `ManifestBacked` is not inductive: publishing a manifest
needs that the objects passed so far are whole and synced (`PassedBacked`), and
passing one needs that it was verified, or that a damage is on record, between
the verification and the sync of the directory (`SureInv`). Only a maintenance
pass removes objects unnoticed, and it finds no publisher busy. The count of
objects is an integer division, so the proofs start with its bounds.
`EntriesAreStable` is about steps: a commit publishes where there is nothing or the
same snapshot, removals leave nothing, and only a crash puts back what the disk
held, which for an acknowledged entry is the entry itself (`CommitDurable`). Such a
crash does happen: of an entry removed, written again and not yet synced.

`StreamReadProofs`. `ReadInv` ties the length of what was delivered to the start of
the object at hand, the offset in it and what is left of the read; hence no read
opens an object past the last, and a reader that has received everything has
finished everything. `ReadersSound` adds that, without a reason to reject, every
object of the snapshot is good, the open descriptor too, and what was delivered
is a prefix of the snapshot; so every size and checksum test succeeds.
`StoreIsAtomic` maps every step to `AtomicStore`: a crash is the one step that
needs `CommitDurable`, a finished restore the one that needs `ReadInv`.

`RunnerKProofs`. `Agreement` is about ranks that are steps apart, so it is not
inductive. The invariant says of each peer that what it has yet to receive, in
order, are rank 0's choices for the peer's next steps that take part in the
broadcast: as many messages as rank 0 is ahead, each with the length rank 0
verified. `RightConfidence` needs what every slot of the ring holds or will hold
when the copies under way are made: an entry of the store that a decision may read
still has its slot, because a slot is overwritten only after `Slots` newer
recordings, and an entry that old has left the store.

`ControllerProofs`. The invariant has one conjunct for where the command stands
(`Control`) and one per host: a host the loop has passed is in the state the loop
brings about, or was missed, or a late command touched it (`HostInv`), and a
command that has ended left it like that (`EndInv`). The three theorems read the
last one off for the outcomes they are about.

`HeldQuorumProofs`. `BeliefAsReported` rests on what a number means: process g of a rank
held one set in its state n (`Named`, unique by what the process has said). Every
delta leads from the set of a number to that of the next and every chunk is a
slice of the set of its number, wherever it is: kept by the worker, on the way,
waiting or gathered. So a delta applied to the set of the accepted number gives
that of the next, and as many chunks as a checkpoint counts are, being different
slices of one set, the whole of it (an injection between sets of one size). The
theorem assumes `FullHandshake`: no change between the handshake and the first
report, and room for every digest in it; section 6 shows what happens otherwise.
`ConfirmationsCurrent` needs no condition: an offer of a rank is within what it is
believed to hold, a rank out of sync has none, and deltas wait only for a rank
that is out of sync or at hand. `NeverBack` assumes `Enough`, that no rank has more
than `RetiredLimit` + 1 processes: the retired ones are different and not the
serving one, so none has been forgotten.

`EngineCoreProofs`. What a counter of a request may become depends on two calls that
are steps apart, `schedule()` which adds to it and `update_from_output()` which takes
back, with preemption, aborts and a second step in flight between them; so none
of the properties is inductive by itself. `Core` is:

- `LoopInv`: where the loop stands says what is in flight and what the pass has open;
- `MessageInv`: a request is new exactly as long as its "add" message may still come,
  so adding one overwrites nothing;
- `QueueInv`: the five places a live request may stand in, as sets without overlap;
- `PassInv` and `OutInv`: the pass gave tokens to running requests only, none it has
  not come to, and an output uses drafts only where it samples;
- `CountInv`: what each live request's counters say given what the pass gave it and
  what the outputs in flight hold for it (`Counted`). A chunk of a prefill owes
  nothing; a decode's position is its tokens and placeholders less one; what a pass
  gives a decode ends exactly behind its placeholders and drafts. The clause about a
  request the pass has served but whose step has not been queued yet is what the
  property of `PlaceholdersBacked` leaves out and the step needs.

`TypeOK`, `QueuedOnce`, `PlaceholdersBacked` and `ResultAwaited` follow from `Core`.
That the counters stay natural numbers is the heart of `TypeOK`: a result may take
back no more than its own step added (`LeftSums`, `AfterCount`).
`RingCoversResults` adds `RingInv`, the newest entries of the ring are the sampling
requests of the steps in flight; three entries are enough because at most two are.
`NoStepPastLengthFinish` adds `EndInv`: tokens are given, and a second step is in
flight, only for a request that even the full acceptance of its drafts leaves short
of `max_tokens`. `DeferralNeverEmpty` adds `DeferInv`: until a throttled pass
has given something away it has its whole budget and, ahead of it, the decode that
the decision to defer was made for; `HeldBefore` shows that the vendor's guard
cannot skip it. The theorem names the switch (`EndDrain`) and an input budget with
room for a draft (`DraftSlots < Configured`), without which a pass ends before its
first request. `LineKeepsOrder` is a property of steps: each is `Orderly`, of two
requests in line before and after it turns nothing round, whether it pops, sets aside,
puts preempted ones in front, appends or filters.

Two helpers are defined so that they can be reasoned about. `Without`, a filter of
a queue, says how many places down each entry goes instead of building the rest
recursively; `Total` adds over the two outputs there are at most instead of folding.

Model-checked only: the liveness properties (`EveryCallEnds`, `StoreEnds`,
`BudgetReturned`, `EveryStepRuns`, `EveryRequestEnds`), which need fairness and
`ENABLED`, and the two properties the code violates. Every invariant and every
action property of a passing run is a theorem.

## 5. Plan

Modelled and proved: admission, budget, streaming store, scheduler and busy loop,
draft length on the ranks, controller, rank quorum. Left, in this order:

1. `RestoreDelivery`: load workers, finished ids and load errors, their
   collector, shutdown. To prove: no failed restore is reported as valid.
2. `KpoolTailRing`: the ring against rewinds. To prove: the size in the code is
   enough for every draft length.
3. Shutdown and pause of the busy loop, then the quota lock of the resilience
   tooling.

## 6. Disagreements with the code

`cache_budget_start_fails`: `thread.start()` fails for one store plan of a call
and succeeds for a later one. The ticket of the first stays in
`_cpu_producer_tickets` with the address of a snapshot that is freed as soon as
the loop binds `snapshot` again; a later snapshot of the call may get that
address. The end of the call removes the entry of the first ticket by its
address (`bounded_connector.py:86`) and with it the entry of the queued one; the
saver's `pop(id(snapshot))` raises and ends the thread, which
`_ensure_store_thread` calls "background saver exited unexpectedly". With a
thread that always starts the model has no such behaviour (`cache_budget`).

`held_quorum_startup`: the docstring of `get_handshake_metadata` (`SC:6468-6471`)
says that the handshake is cut to a bounded number of entries and that "later
bounded statistics report entries outside that startup subset". The cut inventory
is sent as a complete checkpoint of the state the first report is going to
number (`SC:6478`). The scheduler accepts it as state 1; the first report numbers
the whole set 1 as well (`SC:6325`), so its delta is below the accepted state
and its checkpoints are dropped as already known, cycle after cycle. The entries
outside the subset stay unreported until the rank is resynchronized. An entry
stored or evicted between the handshake and the first report has the same fate:
it is not offered, or is still believed. `Settled` and a `Startup` above the number
of digests keep both out of `held_quorum`, where `BeliefAsReported` then holds.

Met while modelling, without a run:

* The comment on the throttled step (`E/prefill-step-cap/scheduler.py:815-818`) says
  that it defers prefills only when decode work can be scheduled, to avoid an
  empty step. The test for decode work excludes requests that the end-drain hold
  keeps back, but not those that the length guard of the vendor skips, and the
  hold leaves requests with structured output to that guard (line 191). A running
  structured request whose step in flight surely ends it counts as decode work and
  is then skipped: the step is empty. It costs one step; `DeferralNeverEmpty` says
  that without such a request, and as long as nothing is preempted, it does not
  happen.
* A failed restore removes the digest from the quorum of all ranks (`SC:6256`). The
  ranks that could load it still hold it, so they have no change to report, and
  checkpoints of an accepted state are dropped: the digest counts again only after
  a later resynchronization of each of them.
* Retired generations are remembered only if a report of theirs was accepted
  (`SC:5970`). A report of a process that was never heard of while it ran can still
  replace the serving one, which the comment above it excludes; it takes two
  restarts and a report that is older than both.
* "Sequence gaps withdraw the rank's confirmations; replayed deltas or a complete
  rolling checkpoint restore them" (docstring of `get_kv_connector_stats`,
  `SC:6403-6404`). A chunk that names a newer state withdraws them, but what was
  named is not remembered: an older report that arrives late and whose delta
  follows the accepted state makes the drain count the rank again (`SC:6017-6019`)
  while the newer state is still missing. It takes reports out of order, and
  more digests and states than `held_quorum` has; `ConfirmationsCurrent` therefore
  compares with the state that the last report taken of the rank named.

## 7. Not modelled

Weight formats, kernels and sharded arithmetic (floating point), the vendored
transport and its NCCL patches, node bootstrap and deployment (sequential shell
around ssh and docker), the allocator trim (a condition on step sizes), and the
measurement tooling. The components under the plan are not modelled yet.

The repository has far more lines than logic of its own: the overlays are whole
files of vLLM and of SparkCache with changes in places, and several scheduler
overlays are successive versions of one file, of which only the mounted one is
modelled. The model runner, the KV cache utilities and the attention indexers
are vendor code around tensors; `campaign.py` and its relatives drive
tests. What the models stand for is the changed parts and what they rest on.
