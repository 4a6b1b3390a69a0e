# SparkCache: a TLA+ verification project

SparkCache stores the KV state of finished prompts on the disk of every worker
rank and restores it for later prompts with the same prefix. It is a
KV-Connector-V1 plug-in of vLLM: one half runs in the scheduler process, one
half in every worker process. A restore must place exactly the bytes that were
captured, on all ranks or none, into blocks nobody else uses; anything else must
end as an ordinary cache miss. This directory models the parts of the code where
that depends on the order of events, checks them with TLC on small instances,
and proves the central results with TLAPS for every instance.

Short names used below: *connector* is
`src/sparkcache/spark_context_cache_connector.py`; *streaming* is
`src/sparkcache/streaming/`.

## 1. The system

| Component | State it keeps | Operations | What is hard |
|---|---|---|---|
| Quorum reporting (connector) | per worker: held set, observed set, sequence, delta history, checkpoint cursor; per rank in the scheduler: accepted generation and sequence, rebuilt set, pending deltas, checkpoint under assembly, offers | handshake, observe, report, absorb delta, absorb checkpoint, accept generation, withdraw on failed load | lost, repeated, overtaken reports; worker restarts; bounded histories |
| Restore flights and shared prefix leases (connector, vLLM patches 040/041) | flights, leaders, followers, segment, pending loads, admitted blocks, published leases | lookup, allocate, build metadata, load results, publish, attach, expire, finish, preempt | aborts and preemptions between lookup, load and promotion; limits; failures of one rank |
| Page-base read sharing (`page_base_read_flights.py`, connector) | flights by base, members, deferred loads, load queue, in-flight and cancelled sets | prepare a batch, register, defer, resolve, read, wait, release, cancel, close, shutdown | several loader threads, two locks, state read under one and used under the other |
| Streaming publication (streaming) | planner sessions, runtime contexts, tickets and ring slots, journals, writer queue, adapter sets | offer, submit gather, poll, hand over, write, commit, preempt, take finished, shutdown | GPU and writer run between any two steps; blocks are reused by vLLM; faults at each stage |
| Block lease registry (`streaming/block_lease.py`) | leases, by-request and by-block indexes | reserve, submit, cancel, poll, take finished, abort one or all | any thread may call any method; fences are asked outside the lock |
| Manifest store (`persistent_context_cache/cache_manifest.py`) | objects and manifests on disk, aliases, touch files, root lock | commit, extend, alias, lookup, restore, invalidate, maintain, clear | crashes between barriers, several processes, eviction against readers |
| Held inventory, capacity thread, store worker (connector, `held_inventory.py`) | held set, deferred withdrawals, store queue, capacity estimate, pins of publication bases | store, account, offer, evict, expire, sweep, load, invalidate, discover | background threads under two locks racing with loads and publications |
| Capture leases and manager-page capture (`capture_read_leases.py`, `streaming/manager_page_*`) | pinned sources per job, queued/submitting/pending/ready captures | reserve, acknowledge, quarantine, submit, preempt, quiesce, progress | acknowledgements of several ranks, native calls outside the lock, drains that fail |
| Native snapshot ring (`native/`) | slots, tickets, contexts | reserve, submit, poll, claim, release, abandon, drain, reap | slot reuse, sequence numbers, failed launches |
| Buddy replication (`replication/`) | transactions, generations, credits, in-flight frames | begin, put, commit, abort, acknowledge, retransmit | frames and answers lost, repeated, reordered; bounded memories |
| Page histories and restore (`spark_context_cache_hybrid.py`, `*_restore.py`, `native_placement.py`, `native/src/spark_cache_placement.cu`) | stored snapshots and deltas, arenas, kernels under way, hot snapshots | plan, prefetch, read, hash, submit, verify, finish, abort | an arena is written by readers and read by kernels and digests; damage, dead contexts |
| Row codec, tensor layouts, timing | byte buffers | encode, verify, copy | data, not control |
| Configuration, identity, telemetry, deployment, qualification, tools | settings, counters | start-up and offline | none at run time |

How they interact. A completed prefill is captured (streaming or manager-page
capture, under block leases), written by the store, and its digest enters the
rank's held set. Quorum reports carry the held sets to the scheduler, which
admits a restore for the longest prefix that every rank offers. Restore flights
share one restore among requests; on each rank a loader thread reads, verifies
and places the bytes, sharing base reads between page deltas. Results travel
back with the worker output: verified blocks become a shared prefix lease, failed
ones withdraw the quorum.

## 2. Modules

| Module | Models | Used by |
|---|---|---|
| `QuorumReports` | the reporting protocol, both sides, and admission | itself, `QuorumReportsProofs` |
| `RestoreFlights` | the scheduler side of restores, vLLM's waiting queue and block tables, loaders of every rank | `MCRestoreFlights`, `RestoreFlightsProofs` |
| `PageBaseReads` | loader lanes, base-read flights, queue and shutdown of one worker | `MCPageBaseReads`, `PageBaseReadsProofs` |
| `StreamingSnapshots` | adapter, runtime, planner, journal, ring, writer of one worker | `MCStreamingSnapshots` |
| `BlockLeases` | the registry at the granularity of its critical sections | `MCBlockLeases`, `BlockLeasesProofs` |
| `BlockGuard` | what the registry promises: holders and reads of blocks | `BlockLeases` (refinement) |
| `ManifestStore` | publishers, maintenance, clear and invalidation of one cache root, and the file system below | `MCManifestStore`, `ManifestStoreProofs` |
| `HeldInventory` | the worker's held set and every thread that changes it or the roots behind it | `MCHeldInventory`, `HeldInventoryProofs` |
| `SnapshotRing` | operators of the native slot machine | `CaptureReads` |
| `CaptureReads` | scheduler leases, capture runtime, progress thread, store and ring of every rank | `MCCaptureReads`, `CaptureReadsProofs` |
| `BuddyReplication` | sender and receiver over an unreliable carrier | `MCBuddyReplication`, `BuddyReplicationProofs` |
| `ReplicaPublication` | what replication promises | `BuddyReplication` (refinement) |
| `PageHistory` | page snapshots, deltas, composition and read plans as operators | `ArenaRestore` |
| `ArenaRestore` | one loader lane that restores histories through the placement handle's arenas | `MCArenaRestore` |

State and actions against the code (PROJECT.json `map` has every definition with
its lines):

* **QuorumReports.** `worker[r]` is the worker's half (`_held`,
  `_stats_observed_held`, `_stats_sequence`, delta history, checkpoint cursor);
  `peer[r]` the scheduler's half, with `_quorum` kept by rank. `BuildReport` is
  `get_kv_connector_stats`; `Deliver`, `DeliverCopy`, `Lose` are the channel
  (`SparkCacheStats.aggregate` keeps one report per rank and step, so losses are
  ordinary); `Restart` starts a new process generation. `meaning`, `served`,
  `streak` are history variables. `Add`/`Remove` stand for the store, eviction
  and expiry.
* **RestoreFlights.** `conn` is the connector's scheduler half as a record and
  each handler an operator on it; actions are vLLM's calls in the order of a
  scheduler step. Spans are counted in blocks. `content` remembers which entry
  every rank verified in a block.
* **PageBaseReads.** One action per critical section of a loader thread
  (`Take`, `Prepare`, `Register`, `Defer`, `Hand`, `ReadState`, `Select`,
  `Resolve`, `Read`, `Wake`, `Publish`, `Leave`, `Cleanup`), of
  `request_finished`, and of shutdown.
* **StreamingSnapshots.** Every adapter call holds `_state_lock`; `work` lists
  what the current call has left, and the GPU and the writer thread may step
  between any two items. One unit of length is one chunk.
* **BlockLeases.** `poll` is `Poll`, `Ask` per fence, `PollReleases`;
  `abort_request` is `StartAbort`, `Ask` or `Synchronize` per fence,
  `AbortReleases`; `abort_all` lists requests (`AbortAll`) and runs
  `abort_request` for each (`AbortNext`). `FenceFails` is a fence that raises.
  A submitter that raises may have enqueued its gather or not.
* **ManifestStore.** `disk` is what every name shows, `pend` what it may show after
  a power failure: a link, replace or unlink adds an outcome, `_fsync_directory`
  leaves the current one. A publication is `BeginContext`, `CommitExtension`,
  `CommitPageSnapshot`, `CommitPageExtension` or `PublishPrefixAlias`, then
  `Stage`, `Link` per file and `Barrier` per macro-batch
  (`_publish_immutable_batch`), then `Commit`, `LinkRoot`, `SyncRoot`
  (`_publish_immutable`). `maintain` has a step per phase between its barriers;
  `clear_once` one per file and directory; `invalidate` one per chunk read and
  unlinked, and takes no guard. `writer` holds what each publishing thread has done,
  `sole` the exclusive holder of `_RootGuard`. One segment holds one descriptor
  (sixteen in the code) and sizes are counted in files. Access times are
  abstracted: a pass may find any order and, with a time to live (`Ttl`), all roots
  expired. `invalidate` raises and leaves everything when a segment is missing
  (`Raises`). `promised`, `loose`, `lost` and `era` are history: receipts given, roots unlinked without a
  barrier since, objects damaged or removed on purpose, clears begun.

* **HeldInventory.** Two locks: `owner` holds `_capacity_lock` over a whole pass
  (`Begin`, `Scan`, `Probe`, `Apply`, `Release`) and over a commit from its accounting
  to its offer; reads and changes of the held set are single steps. The saver is
  `Admit`, `Protect`, `SaverCommit`, `SaverAliases`, `SaverAccounts`,
  `SaverDecides`, `SaverFinishes`; streaming receipts go `StreamCommit`, `Handoff`,
  `CapLooks`, `CapOffers`. Roots on disk have no lock in common with either, so
  loads, sweeps and passes see them at different moments: start-up discovery
  (`DiscoverBegins`, `DiscoverLooks`, `DiscoverEnds`) and the reconciliation after a pass
  that raised (`ScanFails`, `Reconcile`, `Probe`, `Apply`) look them up one by one. A
  pass may raise after it unlinked some roots, and a commit or an alias publication may
  fail after its link (`SaverFails`, `SaverAliases`), which nobody accounts or offers:
  the history `uncounted` names those roots.
* **CaptureReads.** `w[r]` is the worker of a rank: queued, submitting, pending,
  draining and ready captures, the engine thread's metadata (`inbox`), the progress
  thread `thr`, the saver. A critical section of `_cv`, and a call of the ring, is one
  step. `ring[r]` is `RingState`; gathers end at any time, and a failed launch may stay
  uncertain in both lease modes. A job plan may be delivered again at any time
  (`ReplaySave`), whether its read is queued, being submitted, pending, draining,
  uncertain or over. `waived` is history: the stores that `wait_for_save`
  skipped, or `_submit_request` gave up after a launch it could not drain, and answered
  without a look at their read. `leaked` is a busy flag that no capture stands behind.
* **BuddyReplication.** The carrier and the driver that feeds the sender are not in the
  repository: a frame once sent (`net`) can be received at any time and any number of
  times, the driver offers an entry frame by frame, may start over with other content
  and may give up. `Respond` answers a frame with an ACK and a CREDIT.
* **ArenaRestore.** The loader thread (`Restore`), the read pool (`PoolRead`), the GPU
  (`RunKernel`: a kernel reads its arena when it runs) and the environment take steps.
  Histories are sequences of small snapshots whose cells carry their origin;
  `PageHistory` computes the read plans from them as the code does. CUDA faults are
  sticky, as a broken context is. A launch may fail (`LaunchFails`) with its
  kernel queued or not: `device.stray` holds such a kernel, which no wait knows of.

## 3. Runs

Sizes are distinct states; every run ends within four minutes with two workers.

| Run | Instance | Shows |
|---|---|---|
| `quorum` | 1 rank, 2 digests (one asked for), batch 1, history 1, pending 1, 3 changes, a restart, 2 reports under way; 611 K | `ExactBelief`: the rebuilt set is one the worker had under the accepted number. `AdmissionSound`: a rank in doubt offers nothing, an offer was reported. `FollowsWorker`: two undisturbed cycles repair every gap, and a process that was left is not believed again. `NoRollback` |
| `flights` | 2 requests with a common trunk, 2 ranks, 1 pending restore, 1 follower, 1 lease, one preemption or quorum change; fairness; 419 K | `Coherent`: flight, leader, follower and lease tables agree, keep their limits, name what was verified in leases, and with one pending restore at a time strand nobody. `OnlyVerified`: nobody runs on a block some rank did not verify, and blocks under restore have no other user. `Progress`: every request ends |
| `base_reads_lanes` | 2 lanes, 2 requests of one base, a cancellation, shutdown; 992 K | `OneOwner`: no load lost or run twice; `NothingRetained`: no leaked bytes; `LoadersExit` after shutdown |
| `streaming_publish` | 2 requests, one scheduled twice, ring depth 2, pool of 4 blocks; 2.1 M | `ExactManifests`: published manifests are complete and read from clean blocks; `SourceHeld`: blocks a gather reads are leased and held; `Agreement`: the adapter's tables agree |
| `streaming_progress` | 1 request, all four faults, preemption, shutdown, fairness; 36 K | `Answered`: delayed requests, and only those, are reported, and a computed span ends; `ClosedIsQuiet` |
| `lease_registry` | 2 threads, 2 requests, 2 blocks, 2 reservations; 1.6 M | `Registry`, `ReadsLeased`, `SaidIsOver`, and the refinement `Guarded` |
| `store` | 2 publishers, 2 contexts of which one extends the other, rows and pages, passes of 3 deletions, a time to live, 1 fault, 1 invalidation or clear; fairness; 444 K | `CrashSafe`: a root that can be seen after a power failure has all its objects; `PromisesKept`: receipts survive, a visible clear marker means nothing old can return; `SurvivorsUsable`: what maintenance reports as kept is whole; `Reclaimed`: with a time to live, orphans and temporary files of dead publishers disappear for good |
| `captures` | 1 rank with 2 requests or 2 ranks with 1; 2 slots; 2 adverse events (a fault, a preemption or a replay each; in job mode `FewEvents` leaves out the pairs named below); 1.0 M | `NothingReused`: a source page is not reused while it may be read; `AcknowledgedIsOver`: what a rank acknowledged is read no more, both but for `waived` stores; `ReturnOwed`: every delayed request is still owed its return; `Accounted`: the admission belongs to the one capture under way, a closed worker owns nothing; `QuarantineHolds` |
| `inventory` | row, page and streaming deployments, a limit of one root, 2 publications, 1 load or sweep, 1 fault; 3.0 M | `OffersBacked`: an offered entry has a root, or a pass is about to settle it; `EstimateCovers`: the estimate misses no root but those of failed commits; `PinnedBaseKept`: no pass removes the base a publication is written against |
| `replication` | 2 generations of one entry, 2 chunks, a restart or fault; 453 K | `PublishesWhole`: the receiver implements `ReplicaPublication`; `Superseded`: an older generation is refused, where every transaction id fits into `recent_generations`; `CommitBelieved`: an answered COMMIT was published |
| `restore` | 4 histories (flat, two-stage and one-stage delta, row chunks), native and Python, 2 integrity levels, damage, device error, failing launch or dead context; fairness; 315 K | `LaunchedIntact`: a kernel reads what was hashed; `ResumesExact`: a verified restore placed the stored bytes; `NoLateWriter`: no reader and no recorded kernel is left writing when the blocks are handed back; `GivenUpForCause`; `RestoreReturns` |
| `base_reads_stranded` | 2 lanes, fairness | violated: `Completes` |

**Bounds.** Every bound is a constant marked "bound:". They are the smallest that
let the interesting case happen: two reports under way are what it takes to
overtake; three changes with a history of one and one pending delta overflow at once
after offers were made; `RestartCycles` lets a restart use up part of the bound on
cycles, so that long lives and restarts need not be multiplied; one follower, one
pending restore and one lease slot are each exceeded by two requests; a ring of depth
2 with batches of one chunk fills and is reused; in the store three files per pass are
fewer than a root with its objects and a temporary file, and four files are exceeded by
two contexts, so that maintenance works under pressure and ends unfinished; one root is
exceeded by two publications; a window of two frames, one staged chunk and one
remembered credit are exceeded by an entry of two chunks. One fault per behaviour
suffices for `CrashSafe`, whose statement looks at every outcome of a power failure at
every step without taking it. Faults of streaming publication are in
`streaming_progress` only. In the job mode of `captures` the constraint `FewEvents` leaves out
two pairs of adverse events, to keep the run short: with two ranks, two faults or two
events that are none (so one replay or preemption goes with one fault), and with one
rank, two events that are no faults once a second job exists. Without the constraint the instance
has 1.6 million states and holds as well. The theorems of section 4 have no such bounds.

**Symmetry.** `captures` permutes ranks and requests, which nothing tells apart; it
checks invariants only.

**Deadlock** is not checked where the model really stops: in the quorum, base read,
streaming, capture, inventory, replication and restore instances all requests may be
gone, or the bounds used up, and nothing is left to do. The lease registry, the flights
and the store always have a step.

**Fairness.**
* `RestoreFlights`: vLLM's scheduler loop reconsiders every waiting request in every
  step, worker outputs are collected each step, a running request ends, loader threads
  run, leases and pins have a time to live: weak fairness of `Serve` for each request,
  of `EngineStep`, `LoadWork` and `LeaseWork`. None for aborts, preemptions or reports.
* `PageBaseReads`: loader threads run; `request_finished` and `shutdown`, once
  begun, complete.
* `StreamingSnapshots`: a call that holds the lock goes on, the background
  progress thread and the engine's step loop keep calling, submitted gathers
  complete and the writer thread runs. `get_finished` has strong fairness: the
  lock is free infinitely often and the engine calls it every step, but no single
  moment at which the lock is free lasts.
* `ManifestStore`: publishers, clears, invalidations and passes under way proceed. That
  a new pass begins is fair only with a time to live (`Ttl`): then every wait of the
  capacity worker ends by the clock, and it starts a pass, or first retries a streaming
  commit that it could not confirm (connector 4178-4230). Without one the worker
  waits for a commit that exceeds the limit or a pass that left work over; what
  a failed unlink, which maintain skips, or a dead publisher left behind wakes nobody, and
  `Reclaimed` claims nothing. Publications and faults are bounded, so `Reclaimed` speaks
  of a store that has come to rest; it says nothing of one that is never idle.
* `ArenaRestore`: the loader thread, each reader and each kernel run on (a kernel of a
  dead context ends with its error).

## 4. Proofs

Eight modules hold theorems. Each proves, for every value of the constants its
assumptions allow, properties that a run of section 3 checks on an instance; every
inductive invariant was itself checked as an invariant of that run first.

| Module | Theorems | Assumed of the constants |
|---|---|---|
| `QuorumReportsProofs` | `TypeCorrect`, `BeliefIsExact`, `AdmissionIsSound`, `SequenceNeverRollsBack`, `SchedulerFollowsWorker` | `QuorumConstants`: finite sets of ranks and digests, positive limits |
| `BlockLeasesProofs` | `RegistryExact`, `ReadsStayLeased`, `SaidIsTrue`, `ImplementsGuard` | `LeaseConstants`: `Free` is not a request |
| `BuddyReplicationProofs` | `AnswerIsTrue`, `PublicationIsWhole`, `OlderIsRefused` | `ReplicationConstants`: sizes and limits are positive numbers |
| `HeldInventoryProofs` | `OfferIsBacked`, `BaseIsKept`, `EstimateIsSafe` | `InventoryConstants`: finitely many digests, `NoDigest` is none of them |
| `ManifestStoreProofs` | `StoreIsCrashSafe`, `PromisesHold`, `ReportIsUsable` | `StoreConstants`: prefixes are closed, the name of temporary files is no context; `AbsentIsNoFile` |
| `CaptureReadsProofs` | `AcknowledgedReadsAreOver`, `NothingIsReused`, `QuarantineIsKept`, `BooksAreRight` | `CaptureConstants`, `RingConstants`: finitely many slots, deployments of known ranks, and known lease modes |
| `RestoreFlightsProofs` | `RestoredIsVerified`, `TablesAgree` | `FlightConstants`: finitely many blocks; a prompt has a longest entry, no two of one length, and shares whatever is shorter than an entry it shares; `DistinctValues` |
| `PageBaseReadsProofs` | `BytesAreReleased`, `BytesAreAuthentic`, `EveryLoadHasOneOwner`, `LoadersAreStopped` | `BaseReadConstants`: finite sets of bases and lanes, positive sizes and limits |

**The reporting protocol.** That the scheduler's belief is
exact is not inductive: it depends on what the reports under way say. The
invariant adds that every delta under way, pending, or in a worker's history is
the true difference of two consecutive inventories, that every checkpoint chunk
is part of the inventory its number stands for and states its true size, and that
a partly assembled checkpoint consists of such chunks. The set `meaning` of
inventories reported under a number only grows, so facts about reports stay true
while they travel. Completeness of an assembled checkpoint follows by counting:
chunks inside a set of the stated size whose union has that size are the set.
Where a handshake gave one number two meanings (see 5) exactness is claimed only
for numbers with one meaning (`Unambiguous`).

`FollowsWorker` needs two more invariants. `Ordered` says of each rank that whatever is
under way or believed is older than what its worker reports next (`ReportPast`, `PeerPast`), that the
reports built since the last disturbance are consecutive chunks of the inventory the worker has, and that
what arrived before the first of them is older than it (`InOrder`). `CatchesUp` counts: after n
of these reports, the scheduler has assembled the chunks of the cycle under way, or
it is in step, which a whole cycle guarantees (`Progress`). So the bound of `Settled` is a
theorem: the reports that may still be on the wire, the rest of a cycle that was interrupted, and one whole
cycle. The arithmetic beneath is that the positions of a sorted inventory have no gap (`RankBijective`), so
that every chunk has the number of digests `_absorb_worker_checkpoint` asks for
(`ChunkWellFormed`) and the chunks together are the inventory (`ChunksCover`). Before the engine is ready the chunks
of a handshake play the same part (`Starting`). A disturbance (a change of the inventory, a loss,
a repetition, an overtaking report, a restart) takes the count back to zero
and keeps the order of what is older (`ServingReset`). `Remembered` says that a rank's record
names exactly the generations it left last, which bounds when one can return.

**The lease registry.** `ReadsLeased` is not
inductive, because a thread releases leases it asked about earlier, without the
lock. The strengthening `CallOK` says what a thread may still rely on: every lease
it collected is armed or already released, hence cannot start a gather again; the
ones it takes for complete are not read; and what a waiting abort found is
released or still on its list. Two facts carry it through every step of the other
threads (`CallKept`): states of leases only move forward, and a fenced lease is
never read anew (`Evolves`). `ReleaseKeeps` shows once that releasing unread
active leases keeps both indexes. `SaidIsTrue` joins two lemmas, `AbortIsComplete`
and `FreedIsUnread`. The refinement maps the holder of a block to the
request of its owning lease, and the reads to the blocks of unfinished gathers;
reservation implements `Acquire`, submission `StartRead`, completion `EndRead`,
every release `Release`, all other steps stutter.

**Buddy replication.** The carrier may deliver any frame that was ever sent, at any
time and again, so every fact must hold of all of `net` and `acks` at once.
`IInv` is `Typed` (a frame with the number of a COMMIT is one, so that no
other answer is mistaken for it), `RecentExact` (`_committed` names the
last publications, as many as it can hold), `AckTrue` (an answer to a COMMIT that
is not a refusal means the entry was published) and `SentOrDegraded` (an entry sent to
its end still has its COMMIT in flight, or was published, or fell back to local-only). `PublicationIsWhole` maps the
COMMITs that were sent to `sealed` and the publications to `visible`: offering a COMMIT
implements `Seal`, receiving one that publishes implements `Publish`, every other step
stutters. `OlderIsRefused` needs `Remembered`: the newest generation of an id is not forgotten.
It holds, and is proved, only while every transaction id fits into
`recent_generations` (`GenerationsFit`, which the property states as its condition).

**The held inventory.** `OffersBacked` relates what the connector believes to files that
other threads remove under other locks. The invariant says what each actor may still
believe of what it read earlier: who has `_capacity_lock` and for whom a pass runs
(`Locked`), which pins belong to the publication under way (`Pinned`), that a pass nobody
revised has the present inventory (`Snapshot`), that the saver's root is there unless its
record or its pass says otherwise (`Saved`), that the survivors about to be offered are there
(`Looked`), and that an offer without a root is one that a pass is about to withdraw
or has put off (`Backed`). Discovery and the reconciliation of a failed pass are many
lookups; what they found earlier and is gone by now was removed by the pass that goes on beside
them. `EstimateCovers` is part of the invariant: a commit adds to
the estimate before the pass that might subtract it can begin, and a root that a failed
commit left behind is `uncounted` until a pass counts the disk.

**The manifest store.** `RootsWhole` speaks of power failures; it is not inductive, since a
root is linked many steps after its objects. `IInv` adds, in this order: which values a
power failure may leave (`Plainly` for objects; `Steady`: a root comes back as it is shown or
not at all, unless it was unlinked without a barrier); that the roots shown are whole
(`RootsHold`, and `LinkedHold` while a publication waits for its last barrier); and
`Promises`, the heart of it: of every object a publication will list, either no power failure
can take it, or the publication still needs it, or it is shown and the publication will still run
the barrier of its directory for another object. The last case is real: an extension
reuses the chunks of its base without a barrier of its own and relies on the one of the chunk it adds.
For row storage that needs the order of chunks (`RowsClosed`, `BodiesClosed`). For passes,
the inventory read at the beginning still covers the roots and objects that are left
(`SeenRoots`, `SeenObjects`), so an object is collected only when no root shown lists it; for
clears, what was passed is bare (`Cleared`). The forty kinds of steps move the files that
count in eight ways (`Moves`); each part of the invariant is shown to survive the eight.

**Base reads.** `NothingRetained` relates two tables of `PageBaseReadFlights`, `_flights` and
`_request_keys`, to the bytes a flight keeps. Threads hold flights they looked up earlier, so it is not
inductive alone. The invariant adds that a flight is filed only under its own base and keeps
no other bytes than its base's (`Numbered`), that the flight a thread reads or waits for is one of the base it
seeks even when another has taken its place (`Bound`), and where a thread may carry bytes
(`Carried`). `FinishKeeps` shows once that `_finish_locked` preserves the tables for any set of
requests; readers, cancellations, failures and shutdown all go through it. That
the designated reader is a member of its cohort (`Leads`) needs a least element of a set of
requests, which comes from the library's theorem on the well-foundedness of finite sets.
`BytesAreAuthentic` states `OnlyAuthenticBase`, which is part of `OneOwner`.

`OneOwner` counts the places of a load. Its invariant `Shared` says it with sets: no request is
named twice in the queue or in the deferred table, these and what the threads hold are
disjoint, and together they are the unfinished loads; `Counted` derives the count. A step
then moves loads between the queue, the table and one thread (`Moved`), and what filtering,
ordering and queueing do to the requests named is proved of `Sorted`, `Keep` and `Loads` once
(`InOrder`, `KeepOK`, `LoadsQueued`), which are explicit functions and no recursions. While
a batch is grouped, `Split` says who runs first and who is set aside: exactly those whose base has been
registered. `OneOwner` includes the types of all tables, and with them that a flight has no more
members than its limit (`Room`), which `AcceptedFits` shows of each registration.

`LoadersExit` rests on `Ending`. Once closed, no flight is active (`Sealed`). There are as
many sentinels in the queue as threads that run, or none and all run (`Sentried`). Until they are
queued a load is in flight, and it is unfinished or a thread is cleaning up after it (`Pending`), whose
clean-up queues them. And after shutdown has emptied the deferred table, a load set aside
later is released by the thread that set it aside (`Freed`): because the coordinator is
closed, that thread reads that the flight is gone. So where all threads wait, nothing
is in flight, the sentinels were queued, and an empty queue means that all were taken.

**Restore flights.** A request is looked up, gets blocks, is loaded by every rank, promoted and
run in steps of four actors, and may be preempted or aborted between any two of them; `RunsVerified`
sees only the end. `StageOK` follows a request through its phases: which entry its blocks were
allocated for, that the flight it leads is the one its load was sent for (`Led`), and that
blocks hold the entry once every rank has verified it or the request was promoted unblamed.
`RankOK` says that what a rank has queued, finished or handed over belongs to a request that
still loads, and that a rank which failed has the request's blocks among its errors until
they are reported: an error is never later than the completion. `Apart` (blocks under
restore are in no other table and under no pin) is stronger than `OneWriter`, since an aborted request keeps
its blocks until the last rank is done. A leader publishes, and a follower attaches, blocks
under the key that the connector's books name: `Book` relates flights, leaders, followers
and segments, and `PinsOK` says that a pin holds the blocks of its entry. That a segment
taken from a leader's prompt is an entry of the follower's needs the prompts to be prefixes of
each other (`FlightConstants`). Each operation of the connector keeps `Book` and is
`Steady`: it gives no flight to another request and takes no sent flight back. So a
step is a statement about the request it is about, and `OneMoves`, `OneStops`, `OneStays` and
`BooksOnly` settle the rest once for all steps.

`Coherent` needs a second invariant, `JInv`. `Ledger` ties the connector's tables to each other:
who leads a flight and who follows it, the key a lease is published under, an order among
the leases (`newer`, from which the oldest is evicted), and the limits. The rest ties them to vLLM:
a flight is orphaned exactly when its leader has ended (`LeftAt`), a dispatched one keeps
at most the segment that its leader's load restores (`SentAt`), the flight of a loading leader
names the blocks of its table (`CoveredAt`), and a failed request leads nothing (`BadAt`); no
block is in a table or a pin twice, which bounds their length (`PinsSpread`, `RequestsAt`). Each
operation keeps the ledger and `Descends`: what it does not register it leaves as it was or
takes away. The limits are cardinalities: a subset of a finite set is no larger, one more
fits while the count is below the limit, and an eviction takes one out before. `NobodyStranded`
holds only while one restore may be pending (section 5); then a finished flight without a lease is the only
one of its kind, its leader is about to be promoted or has its fence set (`MovingAt`), and a
publication that overwrites a fence would need a second one.

**Captures.** Whether the scheduler may give blocks back is decided by answers that are
still on their way while messages to the rank, a progress thread, a saver and the GPU go on. `IInv` says
it rank by rank: `RankOK` relates a worker, its ring and its inbox to what the rank has
acknowledged (`Acks`) and reported finished (`Ends`) up to the scheduler. A slot that is being
filled belongs to a capture in the worker's tables (`ReadsOK`). An acknowledged capture is in none of them, and if its
plan comes again its sequence number is used up (`AckOK`, `InboxOK`). A view is the tenancy its
ticket names (`TicketsOK`), and a capture is in one place only (`Places`). A rank sees
the scheduler through `Books` alone: so a step of a worker is a fact about one rank
(`WorkerStep`), and a step of the scheduler changes the books or adds a message under
every rank (`BooksKeep`, `MessageKeeps`). Of the forty kinds of worker steps most start no
read; for those it is enough that the step is `Calm`, that what it gives up is not read any
more (`GivesUp`), and that what it answers is over (`Answers`).

`Accounted` adds the saver's side, `Booked`. While nothing has failed, the captures under
way are one at most, wherever they are (queue, ring, hand-over, saver), and the admission is
taken exactly then (`AsksOne`): every step keeps the captures under way (`AsksKept`), ends one and
clears the admission (`AsksLess`), or finds it free and takes it (`AsksMore`). Clearing it is right
only because the one that ends is the only one. Two facts make
this inductive: a polling round has one capture to poll and nothing ready before (`RoundOK`), and each stage
of a shutdown has left the tables of the earlier ones empty (`EndsClean`), from which a
worker that has shut down owns nothing.

A plan may come again at any moment, and `wait_for_save` answers one it skips without
asking whether the job is being read; in request mode a launch that cannot be
drained is answered in the same way. Of such a store the code promises nothing on that rank (section 5), and
no invariant could. So the worker remembers it as `waived`, `Acks` and `Vouched` leave it
out, and the three properties except it by name: what they say of all other
stores, and of the same store on other ranks, is that one early answer does no further harm.
An early answer alone frees nothing: a lease ends when every rank has answered.

**Only model-checked.** Liveness (`Progress`, `Answered`, `Reclaimed`,
`RestoreReturns`), because fairness and `ENABLED` are
outside the prover's reach. `ReturnOwed` of `CaptureReads`. Everything about
`StreamingSnapshots` and `ArenaRestore`, which nobody has proved yet.

## 5. Where the code and its documentation disagree

One disagreement is a run (PROJECT.json `findings` quotes the lines):

* `base_reads_stranded`: a reader that fails between a batch's registration and
  its deferral leaves the batch's load unqueued for good.

Further ones have a property in their module; to see the counterexample, check it
alone with the given instance.

* `WithdrawsOnlyDamaged` (RestoreFlights instance with entries dt, da and dc, `Candidates`
  `Partial`, MaxPendingRestores 2 and one rank): "retiring every admission would destroy unrelated
  healthy entries" (connector 6784). `update_connector_output` compares the
  invalid blocks of an output with block ids recorded when older restores were sent:
  `_admitted` keeps those of a preempted request, and a published flight keeps
  `restored_block_ids` after its blocks were released (6786, 6815). A load that fails on
  reused blocks then withdraws the healthy entry that was restored into them before.
* `NobodyStranded` (RestoreFlights instance with entries dt, da and dc, one rank, three blocks,
  requests q1 with `Candidates` {dt, da}, q2 with {dt, dc} and q3 with {dt}, MaxPendingRestores
  2, MaxFollowers, MaxLeases and MaxEvents 1, `Reported` {{dt, da, dc}}): "no request may continue
  waiting" (connector 2249). Two leaders publish under one lease key before the scheduler
  finalizes the first; the second overwrites the first one's pending entry (patch 041, line
  118), the first flight is never published, and its leader, once preempted, waits for good.
* `PreemptDrains` (StreamingProgress instance): preempting an already abandoned context
  returns before its gathers are done (streaming/runtime.py 901).
* `StartupSubsetCompleted` (QuorumReports instance with BatchSize 2, HistorySize 1,
  HandshakeMax 1, MaxSequence 2, MaxCycle 8, MaxInFlight 1): entries beyond the 512
  of the handshake are not offered until the inventory changes, because the first
  report reuses the handshake's number (connector 7031).
* `FullQuorumIsOffered` (the same instance with HandshakeMax 2): the
  handshake is numbered `_stats_sequence + 1` without advancing it (connector
  7032); if the inventory is empty again before the first report, its entries stay
  in the quorum.
* `RepublishedIsOffered` (QuorumReports instance): `update_connector_output` pops
  the quorum of a failed digest on all ranks (6804); ranks that still hold it skip
  the republication (5776), so it stays without a quorum.
* `DelayedReportsRejected` (QuorumReports instance with MaxGeneration 3): only generations that were
  accepted before are rejected as retired (6509).
* `QuiescentWhenDone` (BaseReadsLanes instance with MaxLoads 2): the clean-up of a
  load that was already reported hits the next load of the request (4558).
* `CancelledIsAbandoned` (StreamingProgress instance): a request that finishes
  before its span was offered leaves its context, session and journal open until
  shutdown (streaming/factory.py 684).
* `RemovalsDurable` (ManifestStore instance with one writer, MaxFaults 2, no invalidation
  or clear): "Root removals are durable before any object they authorized can
  be collected" (cache_manifest.py 3245). A pass that ends between unlinking a root
  and the barrier leaves the removal volatile; the next pass does not see the root,
  collects its objects and syncs only directories it removed something from. A
  power failure then brings the root back without its objects. `invalidate` leaves
  its unlink volatile too. A lookup that checks the chunks' sizes, or the restore,
  turns such a root into a miss.
* `HealthyKept` (ManifestStore instance): "Chunks that still verify
  are left in place" (5209). `invalidate` reads a chunk as damaged or missing, a
  publisher repairs it, `invalidate` unlinks the repaired one.
* `RepeatsWait` (CaptureReads instance): active, uncertain and draining ownership is
  checked before the watermark, "so a repeated active job cannot release its sources"
  (docs/jj-connector-read-leases.md 41-44). `submit` does check it, but a repeated plan
  of an active job does not get that far: the saver is busy with that very job, and
  `wait_for_save` acknowledges the skipped plan (connector 5784-5797). The scheduler then
  gives the blocks back while the GPU reads them. With two ranks such an answer
  also counts for a read that became uncertain there.
* `CreditsBacked` (BuddyReplication instance): "replayed CREDIT frames therefore cannot
  inflate the window" (state.py 455). A credit that was overtaken by later chunks is
  still newer than the last one applied, and gives back room that those chunks need.

Seen while modelling, without a property of their own:

* request mode: `_submit_request` marks the request completed when the ring's submit
  raises although a quarantined slot may still read (manager_page_runtime.py 427;
  excepted as `waived`);
* a plan replayed in the moment its read is given up finds the saver free and the job
  owned: `submit` returns, and the busy flag `wait_for_save` took is never cleared, which
  ends publication on that rank (5793, manager_page_runtime.py 245; `leaked` in `OneAdmission`);
* a preemption between the insertion of a pending capture and the pop of its
  submission is lost (manager_page_runtime.py 341-372);
* without a time to live, offers whose roots vanished are never withdrawn (4134);
* the saver offers an entry that a concurrent pass evicted between its commit and its
  accounting, or that a pass removed which then raised and reported nothing, as
  `_post_commit_was_evicted_locked` reads nothing back (3834-3902); and `sweep_integrity`
  re-adds at its end what was evicted during the sweep (4400). The next pass that finds the
  inventory unchanged withdraws them (`OffersBacked` excepts them as `deferred`);
* a commit that fails after its link leaves a root whose bytes no estimate counts and
  nobody offers, until a pass scans the disk (cache_manifest 983, `uncounted`);
* when `recent_generations` or `recent_commits` are exceeded, the buddy can accept a
  stale generation, or publish an entry twice (`Superseded` says so in its condition);
* a kernel launch that fails in `cudaGetLastError` or `cudaEventRecord` is not recorded
  as in flight, and neither the abort nor the next restore waits for it (spark_cache_placement.cu
  1353-1369; `NoLateWriter`, `LaunchedIntact` and `ResumesExact` except it as `stray` and `spoiled`);
* under "fast" integrity a hot snapshot is kept without a result digest, against the
  comment at cuda_hybrid_restore 1865.

## 6. Not modelled

* Inside modelled components: the old full-set report (connector 6751-6761) and
  rejection of malformed reports; exceptions of attach; asynchronous scheduling;
  truncation at `_MAX_SHAREABLE_PREFIXES_PER_FLIGHT`; malformed streaming offers
  and regressing watermarks (they end like a mapping fault); binding and building
  of the streaming runtime; status and timing records; wrong arguments of the lease
  registry (`ValueError`); in the store, restore reads and their caches,
  `touch`/`expired` as clocks, compaction of long delta chains (a page snapshot instead
  of an extension), object names with a nonce (v3 schemas), where nothing is
  deduplicated, and symbolic links or mounts found by a clear; in captures,
  `submit_transposed`; in replication, chunk sizes and staged bytes apart from their
  number; in the restore, the number of spans per
  submission, a hot budget too small for a snapshot, "none" integrity in the run, and
  the older single-purpose executors.
* Bytes, digests and authentication: a load is verified or fails; in `PageHistory` a
  cell is the name of where it was written.
* Whole components: see PROJECT.json `components`.

## 7. Plan

The remaining theorems, in this order: `ReturnOwed` of `CaptureReads`, `SourceHeld` of
`StreamingSnapshots`. The scheduler half of the connector could be composed with the inventory of its workers
(`HeldInventory` under `QuorumReports`), whose interface is the held set.
