# SPDE in TLA+

TLA+ modules, TLC configurations and TLAPS proofs for SPDE, the download engine
in `src/`. The modules are translated from the Rust source; every definition that
models code is listed in `PROJECT.json` under `map` with the lines it stands for.
Paths below are relative to `src/src/`.

Contents: [inventory](#inventory) · [modules](#modules) · [runs](#runs) ·
[fairness](#fairness) · [what the runs found](#what-the-runs-found) ·
[proofs](#proofs) · [not modelled](#not-modelled) · [plan](#plan)

## Inventory

SPDE runs as an agent of a controller (PK). A main loop claims tasks over HTTP,
a WebSocket client carries signals and reports, and each task is a download with
its own scheduler, workers, sources, writer and progress reporter. Beside that
path the repository holds library parts the agent does not use yet (resume
bitmap, torrent queue, connection controller, CDN and bandwidth control) and the
former download path (strategy, source manager, mirror bus).

| Component | State it keeps | Operations | Interacts with |
|---|---|---|---|
| Agent main loop, `cli/agent.rs` | semaphore permits, running table, task-done channel | register, claim, spawn, clean up, stop | PK (HTTP), WebSocket client, downloads |
| WebSocket client, `cli/ws_client.rs` | connection, signal flags, outgoing channel | connect, receive, send, reconnect | PK, main loop, downloads |
| Download task, `cli/new_download.rs` | none of its own | set up, execute, forward frames, report | scheduler, WebSocket client, controller |
| Download controller, `service/controller.rs` | cancelled, paused | cancel, pause, bridge to a token | agent, scheduler |
| Chunk scheduler, `service/chunk_scheduler.rs` | chunk queue, counters, cancel token | plan, spawn workers, pop, retry, count, return | source pool, fetchers, writer, reporter |
| Source pool, `domain/source_pool.rs` | sources with health and statistics | add, choose, record, clean up | workers |
| Adaptive controller, `domain/adaptive.rs` | parameters and history behind two locks | update, adjust, read, set, reset | reporter, whoever holds it |
| Progress reporter | last byte count, progress channel | sample, send, stop | workers (counter), adaptive controller, forwarder |
| Fetchers, `infra/*/fetcher*`; writer, `infra/disk/*` | a connection; a file | probe, fetch a chunk; preallocate, write at | workers |
| Resume bitmap, `infra/disk/resume_bitmap.rs` | bitmap, counter, file and temporary file | load, mark, save, delete | workers (planned use) |
| Torrent queue, `infra/torrent/download_queue.rs` | queue, in progress, completed, failed | enqueue, run, retry | several callers |
| P2P download, `cli/p2p/{bt,manager}.rs` | a shared session, a polling loop, its frames | add torrent, poll, cancel, report | download task, forwarder, WebSocket client, librqbit |
| Peer discovery, `cli/p2p/discovery_backend.rs` | two caches of capabilities, the tracker list | ask, merge, refresh | BT manager, PDC |
| Service resolver, `cli/p2p/service_resolver.rs` | cache, failure records | resolve, pick, report | PK; no caller yet |
| Peer exchange, `infra/torrent/{pex,bt_connection}.rs` | addresses, what was sent | connect, build, handle | a peer |
| Metadata exchange, `infra/torrent/metadata.rs` | pieces, which peer's turn it is | handshake, request, check | peers, torrent queue |
| Connection controller, `service/adaptive.rs` | connections, backoff and throttling counters | sample, adjust, probe | library, no caller |
| CDN throttle, bandwidth scheduler, `service/*` | speeds and flags of sources; shares of tasks | sample, check; register, adjust | library, no caller |
| Source manager, `service/source_manager.rs` | weights and circuit breakers | pick, complete, fail | legacy strategy |
| Progress smoothers, `service/progress*.rs` | a counter, the percentage shown | update, add, show, reset | legacy strategy |
| Legacy path, `service/{scheduler,mirror_bus}.rs`, `service/strategy/*` | verified sources, worker tokens | discover, verify, spawn | discoverers, stubs of the chunk scheduler |
| Mirror discoverers, `infra/http/mirror/*` | what was already handed out, rules | discover, add a rule | mirror bus; never registered |
| Start-up and command line | none | parse, one-shot commands | everything |

What is hard, and what makes each part correct:

- **Workers** share one queue and no plan of who does what. A worker holds the only
  copy of its task over a fetch, a write and a backoff sleep, exits when it finds
  the queue empty, and counts in atomics. Correct: no chunk is lost, fetched twice
  at a time or counted wrongly; the last task has a worker; the verdict is true.
- **Sources** change health by results that arrive late, from other workers.
  Correct: health follows the failure count; a source is not lost for good without
  reason; the download ends.
- **Bytes** arrive in pieces, from replicas, through six fetchers with different
  offset arithmetic. Correct: the plan tiles the file and no byte lands elsewhere.
- **Locks**: the adaptive controller has two, taken in both orders and once
  re-entrantly. Correct: nobody waits for ever; the reporter ends with its download.
- **Slots** of the agent are taken in one place and given back in many; signals are
  flags set and cleared by different tasks, and messages are lost with a connection.
  A download runs before its handle is listed, and may never end.
  Correct: slots are conserved, the drain finds every live download, every waiting task
  is claimed while a slot comes free now and then, a deleted node comes back.
- **Saves and crashes** of the resume bitmap share one temporary file.
  Correct: what a later process skips was finished.
- **Collections** of the torrent queue have a lock each, and an infohash moves
  between them with none held. Correct: nothing accepted is forgotten, attempts are
  bounded, `run` returns.
- **A P2P download** polls a session it does not own and awaits a bounded channel that
  ends in another one. Correct: a success is a complete torrent, no frame says more than
  the report, a cancelled download ends, once librqbit has answered its add.
- **Counters that are reset in different cases** (connection controller, detector, circuit
  breakers): correct if a source that fails is left out and one that is left out comes back,
  and if a state of emergency is left again.
- **Caches, tables and sets that are looked at, let go of and used** (discovery, resolver,
  bandwidth shares, mirrors, peer exchange): correct if what is acted on is at most as old
  as it may be, and nothing is handed out twice or lost in between.
- **Exchanges with peers** fail at any step. Correct: but for a panic, one good peer is
  enough, and nothing of a bad one survives.

`PROJECT.json` lists the hazards that matter most, each at its line with the properties
that cover it. Smaller ones, not listed there:

- `service/chunk_scheduler.rs:131`: an early return leaves the caller's token unset,
  against line 204 (`Refuse`); `:412`: a worker holds a whole chunk in memory.
- `domain/adaptive.rs:304`: unsigned subtractions clamped too late; unreachable as long
  as `adjust` hangs.
- `cli/new_download.rs:198`: an early return after the start was announced sends no final
  report (`DownloadFailsEarly`).
- `cli/new_download.rs:384`: frames may follow the final report (`Forward` after `Return`).
- `cli/agent.rs:405`: one of several ids sent at once is dropped; `:399`: a configuration
  change whose fetch fails is forgotten. `cli/ws_client.rs:351`: a message whose write
  fails is lost, a final report included (`Disconnect`).
- `infra/disk/resume_bitmap.rs:289`: the drop after `delete` writes the files again.
- `infra/torrent/download_queue.rs:190`: two runs may both find room (`FindRoom`).
- `infra/http/fetcher/range.rs:93`: a whole body in answer to a range request is written at
  the chunk's offset, over its neighbours; the servers of the model honour the ranges
  they announce when probed.
- `service/bandwidth_scheduler.rs:139`: a table that is full refuses a known task its update;
  `:231`: a sum of priorities in eight bits.
- `infra/http/mirror/url_rewrite.rs:154`: the set of known mirrors is never cleared, so the
  same URL has mirrors once per process.
- `cli/p2p/manager.rs:121`: the tracker refresher takes an error page for a list.
- `infra/torrent/metadata.rs:121`: a piece shorter than it should be is sliced and panics, which
  ends the call before the other peers are tried (`DataPanics`).
- `service/controller.rs:39`: a pause nobody reads.

## Modules

| Module | Models | How it corresponds |
|---|---|---|
| `SourcePool` | `domain/source_pool.rs` | The map of rated sources; one operator per method. The score that orders selectable sources is abstracted: `best_source` may choose any of them. Deadlines are a flag (`CooldownExpires`). |
| `Download` | what `execute` promises | Abstract specification: plan once, settle each chunk once, deliver one verdict. |
| `ChunkScheduler` | `execute`, `spawn_worker`, with `SourcePool` | `pc[w]` is the await a worker is at; each action is the code between two of them. The queue is the `Vec` (last in, first out). Atomics are counters. `Refuse` is the early return, `Cancel` the caller's token. |
| `RwLock` | `tokio::sync::RwLock` (external) | Fair queue, not re-entrant. |
| `ProgressReporter` | reporter, forwarder, adaptive controller's locks | The reporter's awaits one by one; frames are byte counts; other users take the locks as `current_params`, `set_concurrency`, `stats` and `reset` do. |
| `WsClient` | `cli/ws_client.rs` | Flags, the bounded outgoing channel, what the server has sent; `Disconnect` loses both directions. |
| `Agent` | `cli/agent.rs`, with `WsClient` | `mpc` is the await of the main loop, `tpc[t]` the place of a task from PK's pool to its end. The spawn of a download and the insertion of its handle are two steps; in between it may run and end. PK is external: a pool shared with other agents and the node's status. |
| `P2pDownload` | `download_internal`, its callers and the P2P branch of `execute_download`, with `WsClient` | An attempt, its carrier (the task that forwards frames) and the watcher of the controller, each at one of its awaits. The session is external and outlives attempts: what an earlier one left in it is an initial state. |
| `PeerDiscovery` | `cli/p2p/discovery_backend.rs`, the trackers of `manager.rs` | Two caches with an age each; a call is the steps between its awaits. `Merged` is `merge_results`. |
| `ServiceResolver` | `cli/p2p/service_resolver.rs` | Callers side by side; a query is an await between reading the cache and filling it. |
| `PeerExchange` | `pex.rs`, `bt_connection.rs` | One connection: handshakes, then `send_pex` and `handle_pex` in any order; a message is two sets of addresses. |
| `MetadataExchange` | `infra/torrent/metadata.rs` | One call; `stage` is the message it waits for. Peers answer anything, at any step. |
| `ConnectionController` | `service/adaptive.rs` | One adjustment is one step (only one task adjusts); requests of other tasks come in between. Speeds are how their growth compares with the threshold. |
| `CdnThrottle` | `service/cdn_throttle.rs` | The check looks at the number of sources before it takes the lock; sources come and go in between. |
| `BandwidthScheduler` | `service/bandwidth_scheduler.rs` | Change of the table and adjustment are two steps, and any calls overlap, on one id too (`sharing` counts those in between); shares in whole units for the four strategies. |
| `SourceManager` | `service/source_manager.rs` | One action per method; a chunk is reported on long after its source was picked. `inRow` is a history variable: failures since the last success or reset. |
| `ProgressSmoothers` | `service/{progress,progress_smoother}.rs` | Load, compare, exchange or store, step by step; a behaviour is of one class, the storing one with or without `enforce_monotonic`. |
| `LegacyDownload` | `scheduler.rs`, `mirror_bus.rs`, `multi_source_chunked.rs` | One place per await of `download`; the stubs it is compiled with keep it in its loop. |
| `MirrorDiscovery` | `infra/http/mirror/*` | The four discoverers; a call is resolve, then look up and remember under the lock. Chains and priorities are operators. |
| `ResumeBitmap` | `infra/disk/resume_bitmap.rs` | A save is snapshot, create (truncate), write, rename; the handle a worker writes through may be to a file renamed by another. |
| `DownloadQueue` | `infra/torrent/download_queue.rs` | One action per lock held. |
| `ChunkPlan` | `probe_all_sources`, `create_chunk_tasks` | Pure operators: chunk size, tasks. |
| `ChunkTransfer` | fetchers, writer, worker's buffer, with `ChunkPlan` | Byte `p` of the source is the number `p`. A body arrives in arbitrary pieces; each kind of fetcher skips and bounds as its loop does. |
| `ChunkScheduler_proofs`, `ChunkTransfer_proofs`, `Agent_proofs` | | Theorems about the module of the same name, and in the second about `ChunkPlan`. |
| `Progress_proofs` | | Theorems about `ProgressReporter`, `ProgressSmoothers`, `ResumeBitmap`. |
| `Sources_proofs` | | Theorems about `SourceManager`, `CdnThrottle`, `ConnectionController`. |
| `Peers_proofs` | | Theorems about `MetadataExchange`, `PeerExchange`, `PeerDiscovery`. |
| `Torrents_proofs` | | Theorems about `P2pDownload`, `DownloadQueue`. |
| `Folds_proofs` | | Theorems about `MirrorDiscovery`, `LegacyDownload`, `BandwidthScheduler`, and lemmas about folds. |
| `MC*` | | Instances for TLC. `MCComponents` and `MCServices` hold the components that share no state. |

How they compose: `ChunkScheduler` extends `SourcePool` and implements `Download`;
`ChunkTransfer` refines what `ChunkScheduler` calls a fetch and a write, with the
choice of source left open; `ProgressReporter` reduces the workers to the bytes they
add; `Agent` reduces a download to the messages it hands to `WsClient` and to how it
ends; `P2pDownload` extends `WsClient`, whose bounded channel its carrier and its final
report wait for. The components of `MCComponents` and `MCServices` share no variable in
the code either: a behaviour moves one of them, chosen in the initial state, while the
others keep one fixed initial state. So the states add up instead of multiplying, and each
component is explored in full. Where a deadline only has to pass, time is an action; where
ages are compared with each other (`PeerDiscovery`, `ServiceResolver`), it is ticks.

## Runs

Bounds are named constants in the configurations.

| Run | Question | Bounds, and why they are enough |
|---|---|---|
| `scheduler` | Is any chunk lost, doubled or miscounted; does `execute` implement `Download`? | 3 workers (two holding, one exiting), 2 sources, up to 3 chunks, 1 retry. Cooldown after 2 failures and death after 3, so both are reached. |
| `returns` | Does `execute` return? | 2 workers, 2 sources, 2 chunks; no symmetry, as liveness is checked. |
| `self_healing` (violation) | Does a cooled source rejoin? | 1 worker and 1 source, what `execute_download` sets up. |
| `cancel_verdict` (violation) | Is a cancelled download a success? | 2 chunks: one left in the queue suffices. |
| `reporter` | Are frames in order; who can block the parameters for ever? | 1 chunk's bytes, channel of 2, two users with all calls: two suffice for both lock orders. |
| `reporter_ends` (violation) | Does the reporter end after the cancellation? | No users at all: it needs nobody else to hang. |
| `agent` | Slots, running table, claims, deleted nodes | 1 slot, 2 tasks, so one waits; 2 faults, so a message can be lost while another fault is being repaired. |
| `running_table` (violation) | Does a finished download leave the table? | 1 task, no fault. |
| `components` | What ten parts keep true: bitmap, detector, shares, circuits, smoothers, metadata, peer exchange, discovery, legacy path, mirrors | Below. |
| `services` | The same of four parts that also have to get somewhere: torrent queue, connection controller, P2P download, resolver | Below. |
| `transfer` | Does the plan tile the file; does each byte land in place; is success a copy? | 2 sources of any kinds, 2 workers, files of 2 or 5 mebibytes (one chunk; two, the last one short) with a byte for a mebibyte, 1 fault, 1 retry. |
| `short_chunk` (violation) | Are a counted chunk's bytes in the file? | One replica shorter than the other. |

Bounds of `components`:

- bitmap: 2 workers that save at once, plans of 2 and 3 chunks (files of another plan
  occur), saves after 2 bits, 1 crash;
- detector: 3 sources of 3 speeds (slow, usual, fast against 50 %), a limit of 2, so that the
  number of sources crosses the minimum while a check is under way; 2 checks, which overlap;
- shares: 3 tasks for 2 places, every strategy, priorities with the extremes 0 and 10, a
  total the minima exceed or not, up to 3 calls between change and adjustment;
- circuits: 2 sources, 3 failures to open, 2 chunks under way, so that reports arrive after
  a circuit has opened and closed again;
- smoothers: 2 updaters and 2 readers at every step, a counter up to 2;
- metadata: up to 3 peers, 2 pieces, claims up to one too many;
- peer exchange: 3 addresses (one is the peer's own), 1 address in a message, so that some
  are held back;
- discovery: 2 callers, times to live of 2 ticks and a timeout of 1; a capability that goes
  while an answer is under way is cached by one after the other;
- legacy path: 2 discoverers finding up to 2 sources with duplicates, the original among them;
- mirrors: 2 overlapping discoveries, 3 URLs of 2 hosts, 2 rules of each kind, 2 addresses.

Its `ASSUME`s check pure algorithms against reference definitions: `MergeKeepsTheBest`
(`merge_results`, every set of two addresses and three priorities), `ChainAllOrNothing` and
`MirrorsInOrder` (`generate_mirrors`, every list of up to three of four rules).

Bounds of `services`: 2 infohashes, 1 feeder, 2 runs, 2 attempts, room for 2, 3 acceptances,
so duplicates slip in; 1 to 6 connections, starting at 2, so that both bounds, a backoff and a
recovery are reached; 1 attempt (the next one finds what it left among the initial states), 2
units, 2 frames, an outgoing channel of 2 that other traffic fills; 2 services, 2 callers, 2
failures to suspend.

Deadlock is checked where the system cannot simply stop (`scheduler`, `returns`,
`transfer`, each with a terminal self-loop). It is not checked in `agent`,
`reporter`, `components` and `services`: the agent stops on request, a reporter hangs as
the code does, and the parts of the other two end when their input does.

Symmetry is used for safety only, except in `scheduler`, whose action properties
and refinement hold of steps and are symmetric in workers and sources.

Every property of a passing run has at least one mutant in `PROJECT.json`: a
plausible bug in a mapped definition that TLC then finds.

## Fairness

- Workers, reporters, runs and the main loop are weakly fair: the runtime polls
  every task that is ready, and locks are granted in order.
- A fetch ends: each client has a timeout. A whole download is not assumed to end in `agent`:
  `self_healing` shows one that does not. So `EveryTaskClaimed` has the premise that the
  slots are not all taken by such downloads for ever.
- The clock advances: cooldowns and backoffs pass.
- PK answers, approves nodes and reclaims unanswered claims; the connection loop
  reconnects for ever, 3 s apart. Faults are finitely many in a behaviour.
- In `services` each condition is guarded by the component that moves: the queue's runs and
  backoffs, the controller's intervals and its loop, the resolver's ticks and the end of a
  query by answer or timeout, all weak. The two senders of a P2P download that wait for room
  in the WebSocket client's channel are strongly fair, since tokio serves those who wait in
  order; that there is room again and again is the premise of `CancelledP2pEnds`, not an
  assumption.
- Not assumed of librqbit: that it answers an add (`LoopStep` is fair, `AddStep` is not), that
  a torrent gets its metadata, makes progress or ends.
- Not assumed: that a task is added, that anyone cancels, that other users of the
  adaptive controller call it, or that the forwarder's send completes; while the
  connection is down it need not.

## What the runs found

Each is a disagreement between the code and a line of the repository, with the
trace in the run named.

- `self_healing`: a source in cooldown becomes selectable only through a success
  it can no longer have. With one source, three failures in a row leave the workers
  pushing the chunk back and sleeping for ever (`domain/source_pool.rs:13`, `:296`).
- `cancel_verdict`: a cancelled `execute` returns `Ok`, with `success` if nothing had
  failed for good, although chunks are missing (`service/controller.rs:48`,
  `service/chunk_scheduler.rs:227`).
- `reporter_ends`: `update_snapshot` awaits a read of the history it holds for
  writing. Once an adjustment is due the reporter never comes back, nor does the
  forwarder (`domain/adaptive.rs:251`, `service/chunk_scheduler.rs:208`).
- `running_table`: `TaskGuard` sends its id only when `finish` has not run, so a
  download that ends normally stays in the table (`cli/agent.rs:228`, `:593`).
- `short_chunk`: a body that ends early is `Ok`, and the worker counts the chunk
  (`service/chunk_scheduler.rs:440`, `domain/chunk_fetcher.rs:9`).

Found while translating, without a run of their own:

- `SourcePool`: a success still under way when others' failures made its source `Dead` puts
  it back (`domain/source_pool.rs:347`, `:53`). With the shipped thresholds of 3 and 10 it
  takes nine fetches under way, more than the default four workers have.
- `P2pDownload`: the add of a torrent is awaited under neither the token nor the timeout, so
  a download cancelled there ends when librqbit pleases (`cli/p2p/bt.rs:355`,
  `service/controller.rs:48`, `cli/new_download.rs:172`).
- `SourceManager`: a success on a closed circuit leaves `fail_count` as it is, so a circuit
  opens on failures that are not in a row (`service/source_manager.rs:113`, `:21`, `:128`).
- `ProgressSmoothers`: of two updates at once the smaller may be stored last and take the
  counter back (`service/progress_smoother.rs:104`, `:67`, `:100`).
- `DownloadQueue`: the download is given an empty list of peers, so it always fails
  (`infra/torrent/download_queue.rs:208`).
- `PeerDiscovery`: `set_pdc_backend` drops the back end it builds (`cli/p2p/manager.rs:183`).
- `LegacyDownload`: the strategy's loop waits for stubs and never ends
  (`service/strategy/multi_source_chunked.rs:167`); discoverers are passed over for every
  https URL (`service/mirror_bus.rs:73`).
- `MirrorDiscovery`: an address put in place of the host takes the Host header with it
  (`infra/http/mirror/dns_multi_ip.rs:122`).
- `PeerExchange`: the manager of a connection learns addresses from nobody else, so it has
  none to tell but those its own peer sent (no line denies it, so it is not a finding).

The passing runs state what does hold beside these: `ReturnsUnlessStarved`,
`VerdictIsComplete` (without cancellation), `ParamsStayAvailable`,
`SuccessIsTheSource` (replicas of one length; torrents in a plan made for pieces),
`NoFailureReadmits`, `CancelledP2pEnds` (past the add), `FailingSourceIsLeftOut`,
`PercentNeverBack`.

## Proofs

Proved for all values of the constants under the assumptions the modules name. Eight
modules hold the proofs; those of small components are gathered by subject. A theorem that
states a property a run checks has in brackets the property's name.

**`ChunkScheduler_proofs`** (any sources, any finite crew, any numbers of chunks and
retries, any thresholds). The inductive invariant is

    IInv == TypeOK /\ PhaseInv /\ TaskInv /\ EachChunkInOnePlace
            /\ CountersMatchOutcomes /\ QueueIsServed /\ VerdictIsComplete

The checked invariants are not inductive alone. `PhaseInv` ties queue, workers and
result to the phase of `execute`: without it a worker could exist before the plan,
or run on after the result. `TaskInv` says that whatever is queued or held is a chunk
of the file, and that a chunk about to be counted is on disk. From `IInv` follow
`TypeCorrect`, `Conservation`, `CountersCorrect`, `QueueServed` and `VerdictCorrect`.
`Implementation` proves the refinement of `Download`: each step maps to a step of it
or to a stutter; `NothingPending` (a finished, uncancelled crew leaves no pending
chunk) is what makes `Return` a `Deliver`. The step lemmas are sorted by what a step
does to tasks: quiet, pop, push, settle.

The pool has an invariant of its own, `PoolInv`: the health of every entry is right for its
failures, and one under a cooldown is not usable. `HealthFollowsFailures` is not enough for
`EnoughSelectable` without the second part, and the second not inductive without the first:
a failure leaves the cooldown flag as it is when it makes a source `Degraded`. From it follow
`HealthFollows` and `StockIsSelectable` (`EnoughSelectable`, which is proved and in no run).

Two action properties. `FailuresReadmitNone` [`NoFailureReadmits`]: a failure never admits a
source that was withheld (it would have to be `Degraded` before, hence usable, hence not
cooling, hence selectable already). It says nothing of the end of a cooldown, which brings no
source back against the documentation (`self_healing`), nor of a success, which brings back even
a dead one. `RetriesKept` [`RetriesNeverForgotten`]: the tasks of a chunk after
a step come from those before it, popped, pushed back or with one retry more (`Follows`); since the
invariant gives a chunk one task, there is one number to speak of (`OneRetries`).

**`ChunkTransfer_proofs`**. Of the plan, `TasksTileFile`: for every file and chunk size each byte is
in exactly one task and none is empty or past the end, from `CeilingDivision`,
`ChunkBounds`, `EveryByteCovered` and `NoByteCoveredTwice`. `ChunkSizePositive`: the
size divided by is never zero.

Of the transfer, `PlansTile` and `BytesStayInPlace`, for any sources,
workers, replicas and faults. The invariant adds to `BytesInPlace` that a buffer holds
the bytes from its task's offset on (`BufferInPlace`) and that what is left of the
body continues the buffer once the bytes to skip are gone (`BodyInPlace`); the latter
is what makes each read preserve the former. All reading loops take the same kind of turn
(`Turn`), so what a read preserves is proved once.

`SuccessIsComplete` [`SuccessIsTheSource`] has two hypotheses. `OneLength`: the sources'
files are all as long; without it `short_chunk` shows the opposite. `MinChunk =< Piece`: a
chunk is never forced to be larger than a torrent's piece; `new_download.rs:322` sets 1 MiB
and a piece is 4 MiB. `CompleteInv` says that every task of the plan is waiting, in the hands
of a worker, done or given up (`NoTaskLost`); that what a fetch has and may still get is
enough for its task (`Enough`); and that a task done has its bytes in the file, from which a
later write, being in place, takes none. `Enough` is where the kinds of fetcher differ: a
torrent wants a piece, which is enough because a plan made with its answer has no longer task
(`TasksFitPieces`, from `ChunkFitsPiece`). `CompleteInv` was itself checked by TLC on the
instance of `transfer`.

**`Agent_proofs`**. `PermitsAreConserved` [`PermitsConserved`] and `LiveTasksAreListed`
[`LiveTasksListed`], for any tasks, pool size and faults. The invariant counts: permits,
downloads that hold one and the main loop's claim sum to the maximum, so each action is one
addition to, or one removal from, the set of holders. Every live download is in the table or the
one about to be listed (`unlisted`): an id in the task-done channel is always that of one that
has ended, so cleaning takes out none that runs, and the loop does nothing between a spawn and
the insertion of its handle, so the drain finds nothing unlisted.

**`Progress_proofs`**: the reports of a download and its resume state.
`FramesAreInOrder` [`FramesInOrder`], for any channel: the frames in the channel are sorted and
lie between what was shown and what the reporter read last (`ReporterInv`).
Of the two smoothers each keeps one promise, and the other's fails of it. `NoUpdateIsLost`
[`ExchangeLosesNothing`], of the one that exchanges: an exchange that is under way brings more
than it found. `PercentGoesOn` [`PercentNeverBack`], of the one that stores, with
`enforce_monotonic`: what it compares the next percentage with is what it showed last.
`NothingSkipped` [`SkipsOnlyWritten`], for any workers, plans and number of crashes: every bit
anywhere (in memory, in a snapshot about to be written, in a file under either name) stands
for a piece written for the plan of the file it is in; the file a worker's handle points to may
carry either name or none (`BackedInv`). `CountExact` [`CountIsExact`]: counter and workers
between their bit and their count sum to the bits (`CountInv`). `AllCompletedIsTrue` combines
the two: when `is_all_completed` says yes, the bits are all chunks of the plan.

**`Sources_proofs`**: what rates sources. `FailingSourcesAreLeftOut`
[`FailingSourceIsLeftOut`]: failures in a row never exceed the counter (`RowInv`), and every
entry agrees with itself, flag, counter and weight; the default entry of an unknown source does
not, and a failure repairs it (`RatedInv`). The counter may exceed the failures in a row
(see the findings). `FlagsAgree` [`ThrottledIsFlagged`]: a check that recovers one source recomputes
the flag over all of them, which is what keeps the last conjunct (`HostsInv`).
`ThrottledDoesNotGrow` [`ThrottledNeverGrows`]: while throttled, both the connections and what a
recovery goes back to lie within the bounds (`ControllerInv`); the step of a backoff is at least
one however its rounded power comes out (`BackoffIsPositive`).

**`Peers_proofs`**: peer protocols. `OnePeerSuffices` [`GoodPeerSuffices`]: while a call is
trying, the peers that failed are those before the present one (`CallInv`), so an error means
that every peer failed; the outcome `panic` is the one way a good peer further down the list is
never asked. `ToldOnce` [`ToldOnceEach`]: an address is marked exactly when it was written or lost
with its message. `NewsIsFresh` [`StalenessBounded`]: `DiscoveryInv` bounds the age of what each
cache and each caller holds by the way it came. It needs a fact about order: between putting an
answer into the second cache and noting the time nobody ticks, so that the cache may be called
fresh whichever of several callers filled it last.

**`Torrents_proofs`**. `SuccessBacked` [`SuccessIsBacked`], for any attempts, sizes and sessions:
what an attempt polled is in its session and is never taken back while it polls (`AttemptInv`).
`AcceptedIsKept` [`NothingForgotten`], for any feeders, runs and infohashes: a task is in the
queue, in the hands of a run or its infohash among the failed, through every gap between two
locks. `AttemptsAreBounded` [`AttemptsBounded`]: duplicates of an infohash may be queued and run at
once, so the invariant counts over all of them. Every attempt a queued or held task has left is a
token named by the place of the task (`QSlot`, `RSlot`); attempts made and tokens left never sum
to more than `max_retries` for each acceptance (`BudgetInv`). The places move when the queue is
popped, which the lemma `Pairing` absorbs: a set whose members can be paired with those of another
is no larger. `FirstRipeExists`, that the search `pop` makes finds the first ripe task, comes from
the least element of a set of positions (`LeastElement`, by well-foundedness).

**`Folds_proofs`**: parts whose steps fold a list or a function. The library's `FoldLeft` and
`FoldFunction` are each an entry of a table over sets of indices, chosen by its equation; a fold
means something only if there is such a table, which is shown by induction on the number of
indices (`KeptExists`, `TotalsExist`; `JoinedExists` for `FlattenSeq`). The library's induction
theorem takes an operator, so the property is written as the set of the numbers that have it
(`SetInduction`, from the least element of the rest). What the folds compute follows from the
table's equation: `FreshOnce` (exactly what is not known is let through of a list, each element
once), `FlattenIsSequence`, and `SumBound` (a bound on each value, linear in a second function,
bounds the sum).
`MirrorsAreHandedOnce` [`EachMirrorOnce`], for any rules, URLs and calls: what is new is disjoint
from what is remembered because the set is read under the lock that adds to it (`HandOutOnce`).
`StrategyIsGivenVerified` [`StrategyGetsVerified`], for any discoverers: while sources are
verified, each is once in the list found or once in the list verified (`LegacyInv`). The copy of
an original that is not of the HTTP kind is in nobody's `seen`, but no discoverer finds it either.
`SharesStayCurrent` [`SharesAreCurrent`], for any tasks, total and limits: but for "Dynamic", a
share depends only on which tasks there are and on their priorities (`ShareDependsOn`), so a report of
progress leaves it current, and what the shares exceed the total by is in the minima whatever the
strategy (`SharesFit`). Its hypothesis `PrioritiesFit` is that the priorities of as many tasks as
there is room for can be added in a `u8`; the documented priorities (0 to 10) and the default
of 4 tasks satisfy it, and so does the instance of `components`. Without it the sum may wrap, and
shares in proportion to what is left of it exceed the total.

Assumptions named for the proofs, beside types: the model values of idle workers and absent tasks
are none of the real ones (`IdleAssumption` of `ChunkTransfer`, `"none"` in `QueueAssumption`); the
powers of the backoff's denominator are positive (`ControllerAssumption`), since the provers know of
`^` only that it yields an integer. TLC evaluates all of them.

Only model-checked, and why:

- every liveness property (`ReturnsUnlessStarved`, `ParamsStayAvailable`, `ThrottlingEnds`,
  `CancelledP2pEnds`, `RunReturns` and the others that need fairness): fairness and `ENABLED` are
  out of the prover's reach;
- the `ASSUME`s of `MCComponents` (`merge_results`, `generate_mirrors`): the lemmas of
  `Folds_proofs` would carry over to them, fold by fold;
- the properties of the resolver, the WebSocket client and the main loop's claims, which are
  about what eventually happens.

## Not modelled

`PROJECT.json` lists every component with its status. In short:

- argument parsing, configuration, host facts and one-shot commands: no state that outlives a
  call;
- the HTTP clients of PK and PDC: one request per call; their answers are external actions;
- the per-protocol downloaders and sources of the legacy path: the same fetching as in
  `ChunkTransfer` behind another trait, never reached by the strategy;
- the HTTP connection pool: one map behind one mutex, no caller;
- what comes after the legacy strategy's loop, which nothing leaves;
- formatting and wire encodings (bencode, compact addresses, JSON); speeds, averages and
  scores, which are floats of the clock and abstracted to the choices they lead to;
- the values `adjust` of `domain/adaptive.rs` computes, since it never gets that far;
- panics of fetchers; `DeleteFile` and status reports of the agent; pause, which no download
  reads.

## Plan

Built, in order: `SourcePool`, `ChunkScheduler`, `Download`; reporter and locks; agent and
WebSocket client; resume bitmap; torrent queue; plan and transfer; proofs of the first and the
last; P2P download; connection controller; source manager, detector, shares; smoothers; peer
and metadata exchange; resolver and discovery; legacy path and mirrors; proofs of the pool's
health and of four of the library parts; proofs of every safety property of the runs, the action
properties of the scheduler and the smoothers included; downloads and adds that never end.

Next: the refinements below; the invariant behind the resolver's
`SuspensionEnds`.

Abstract specifications worth stating beside `Download`: a pool of slots (for `Agent`), a durable
set (for `ResumeBitmap`: what is loaded is a subset of what was finished).
