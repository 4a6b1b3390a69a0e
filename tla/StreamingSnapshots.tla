--------------------------- MODULE StreamingSnapshots ---------------------------
(***************************************************************************)
(* The worker side of streaming publication: while a prompt is computed,   *)
(* its finished chunks are gathered by the GPU into a ring of pinned slots *)
(* and appended to an invisible journal by one writer thread; the manifest *)
(* is published last.  Modelled are the connector-facing adapter           *)
(* (factory.py), the runtime (runtime.py), the planner, the journal writer *)
(* (publisher.py), the ring's tickets and the source-block leases; vLLM's  *)
(* scheduler, the GPU and the disk are external.                           *)
(*                                                                         *)
(* Every adapter call holds _state_lock to its end.  "work" lists what the *)
(* current call has left to do; it is <<>> when the lock is free.  The GPU *)
(* and the writer thread take their steps between any two of them.         *)
(* Unit of length: one 256-token chunk.                                    *)
(***************************************************************************)
EXTENDS Integers, FiniteSets, FiniteSetsExt, Sequences, SequencesExt, Functions

CONSTANTS
    Requests,          \* requests whose prompts are streamed
    Digest,            \* [Requests -> context digests]
    Span,              \* chunks of a prompt
    BlockChunks,       \* chunks per physical block (logical_tokens_per_block)
    ChunksPerBatch,    \* chunks_per_batch
    Depth,             \* ring_depth: ring slots, leases, batches, writer credits
    MaxLeasedBlocks,   \* max_leased_blocks
    MaxSessions,       \* max_sessions
    Pool,              \* number of physical blocks of the GPU
    MaxAttempts,       \* bound: [Requests -> how often it is scheduled]
    Faults,            \* which of "mapping", "append", "manifest", "timeout" occur
    MayShutdown        \* whether the worker is shut down

ASSUME StreamingAssumptions ==
    /\ Requests # {} /\ IsFiniteSet(Requests)
    /\ {Span, BlockChunks, ChunksPerBatch, Depth, MaxLeasedBlocks, MaxSessions,
        Pool} \cup Range(MaxAttempts) \subseteq Nat \ {0}
    /\ DOMAIN Digest = Requests /\ DOMAIN MaxAttempts = Requests
    /\ Faults \subseteq {"mapping", "append", "manifest", "timeout"}
    /\ MayShutdown \in BOOLEAN

VARIABLES
    \* vLLM's scheduler (external) and its adapter
    run,        \* r -> "new", "running", "preempting", "preempted", "delayed", "gone"
    table,      \* r -> its physical blocks
    done,       \* r -> chunks computed in this attempt
    attempt,    \* r -> how often it has been scheduled
    eligible,   \* SchedulerStreamingSnapshotAdapter._eligible
    finished,   \* ids the next get_finished() call receives
    \* WorkerStreamingSnapshotAdapter
    ad,         \* its sets of request ids, and _closed
    work,       \* what the call that holds _state_lock has left to do
    \* StreamingSnapshotRuntime with its planner, leases, ring and journals
    rt,
    gpu,        \* ticket -> the blocks its gather still reads
    dirty,      \* tickets whose blocks were overwritten while being read
    \* the writer thread and the store
    queue,      \* the executor's queue; its head is being written
    published   \* manifests: [digest, chunks, clean]

vars == <<run, table, done, attempt, eligible, finished, ad, work, rt, gpu, dirty,
          queue, published>>
scheduler == <<run, table, done, attempt, eligible, finished>>

None == [absent |-> TRUE]
CeilDiv(a, b) == (a + b - 1) \div b
Without(f, S) == Restrict(f, DOMAIN f \ S)
Extended(f, x, v) == [y \in DOMAIN f \cup {x} |-> IF y = x THEN v ELSE f[y]]
Attempts == Max(Range(MaxAttempts))
Ticket == [req : Requests, seq : 1 .. Attempts, start : 0 .. Span - 1]

Live(st) == {r \in Requests : st.ctx[r] # None}
TicketOf(st, r, i) == [req |-> r, seq |-> st.ctx[r].seq, start |-> i]
StagedAt(st, r, stage) ==
    {i \in DOMAIN st.ctx[r].inflight : st.ctx[r].inflight[i].stage = stage}
Tickets(st, r, I) == {TicketOf(st, r, i) : i \in I}

-----------------------------------------------------------------------------
(* Fences, ring slots and block leases. *)

\* _RingFence.ready: the fence once saw the gather complete.  It remembers that,
\* also when the slot has since been claimed or released.
Ready(st, t) == t \in DOMAIN st.ring => st.ring[t] # "submitted"

\* _RingFence.query of the fences of T: a fence that is not ready polls the ring,
\* which moves the slot of a complete gather to READY.
Query(st, T) ==
    [st EXCEPT !.ring =
        [t \in DOMAIN @ |-> IF t \in T \ DOMAIN gpu /\ @[t] = "submitted"
                            THEN "ready" ELSE @[t]]]

LeasedBy(st, r) == {t \in DOMAIN st.leased : t.req = r}
LeasedBlocks(st) == UNION Range(st.leased)

\* BlockLeaseRegistry.try_reserve
Reservable(st, blocks) ==
    /\ Cardinality(DOMAIN st.leased) < Depth
    /\ Cardinality(LeasedBlocks(st)) + Cardinality(blocks) <= MaxLeasedBlocks
    /\ blocks \cap LeasedBlocks(st) = {}

\* Query the fences of the leases T and release the complete ones.
ReleaseComplete(st, T) ==
    LET seen == Query(st, T)
    IN  [seen EXCEPT !.leased = Without(@, {t \in T : Ready(seen, t)})]

\* BlockLeaseRegistry.poll
PollLeases(st) == ReleaseComplete(st, DOMAIN st.leased)

Poison(st) == [st EXCEPT !.poisoned = TRUE]

\* NativeSnapshotRing.release: only READY or claimed tickets can be released.
ReleaseSlots(st, T) ==
    IF \A t \in T : t \in DOMAIN st.ring /\ st.ring[t] \in {"ready", "claimed"}
    THEN [st EXCEPT !.ring = Without(@, T)]
    ELSE Poison(st)

\* Mutant: claimed tickets are retired as well.
AbandonClaimed(st, r) ==
    [st EXCEPT !.ring = Without(@, Tickets(st, r, DOMAIN st.ctx[r].inflight)),
               !.ctx[r].inflight = Without(@, StagedAt(st, r, "gather"))]

\* NativeSnapshotRing.abandon, and the runtime forgetting what it retired:
\* unclaimed tickets go, claimed ones stay with their writer.
AbandonSlots(st, r) ==
    LET unclaimed == StagedAt(st, r, "gather") IN
    [st EXCEPT !.ring = Without(@, {t \in Tickets(st, r, unclaimed) :
                                      t \in DOMAIN @ /\ @[t] = "ready"}),
               !.ctx[r].inflight = Without(@, unclaimed)]

ReleaseBatches(st, r, I) ==
    [ReleaseSlots(st, Tickets(st, r, I)) EXCEPT !.ctx[r].inflight = Without(@, I)]

-----------------------------------------------------------------------------
(* Journals and the terminal abort. *)

\* _abort_locked, _finalize_abort_locked: the journal keeps its request's place
\* until the writer has finished with the last view it was lent.
AbortJournal(j) ==
    CASE j = None          -> None
      [] j.pending = {}    -> None
      [] OTHER             -> [j EXCEPT !.state = "aborted"]

\* _retire_if_drained
RetireIfDrained(st, r) ==
    IF st.ctx[r].aborted /\ DOMAIN st.ctx[r].inflight = {}
    THEN [st EXCEPT !.ctx[r] = None] ELSE st

\* Mutant: the planner is not told.
MarkWithoutPlanner(st, r, reason) ==
    [st EXCEPT !.ctx[r].aborted = TRUE,
               !.endings = Extended(@, r, reason),
               !.journal[r] = AbortJournal(@)]

MarkAborted(st, r, reason) ==
    [st EXCEPT !.ctx[r].aborted = TRUE,
               !.endings = Extended(@, r, reason),
               !.journal[r] = AbortJournal(@),
               !.session[r] = None]

\* _abort_context(wait_for_fences=False): armed leases and unfinished gathers
\* stay for poll() to drain.
AbortDeferred(st, r) ==
    IF st.ctx[r].aborted THEN st ELSE
    LET marked == MarkAborted(st, r, "abandoned")
        leases == ReleaseComplete(marked, LeasedBy(st, r))
        asked == Query(leases, Tickets(st, r, StagedAt(st, r, "gather")))
        idle == {i \in StagedAt(st, r, "gather") : Ready(asked, TicketOf(st, r, i))}
    IN  RetireIfDrained(ReleaseBatches(asked, r, idle), r)

\* Mutant: a draining abort does not wait.
DrainsNothing(st, r) == {}

\* The armed fences _abort_context(wait_for_fences=True) synchronizes: none when
\* the context is already aborted, for then it returns at once.
MustDrain(st, r) == IF st.ctx[r].aborted THEN {} ELSE LeasedBy(st, r)

AbortDrained(st, r, reason) ==
    IF st.ctx[r].aborted THEN st ELSE
    LET marked == MarkAborted(st, r, reason)
        leases == ReleaseComplete(marked, LeasedBy(st, r))
    IN  RetireIfDrained(AbandonSlots(leases, r), r)

-----------------------------------------------------------------------------
(* The planner. *)

Pending(st) == UNION {{<<r, i>> : i \in st.session[r].pending} :
                        r \in {q \in Requests : st.session[q] # None}}
Owned(st, digest) ==
    \E r \in Requests : st.session[r] # None /\ Digest[r] = digest
Sessions(st) == Cardinality({r \in Requests : st.session[r] # None})

Required(st, r, n) == CeilDiv(n - st.session[r].next, ChunksPerBatch)
Overcommits(st, r, n) == Cardinality(Pending(st)) + Required(st, r, n) > Depth

\* The batches offer_completed emits for the chunks up to n.
Batches(st, r, n) ==
    [k \in 1 .. Required(st, r, n) |->
        LET from == st.session[r].next + (k - 1) * ChunksPerBatch
        IN  [op |-> "submit", req |-> r, start |-> from,
             stop |-> Min({from + ChunksPerBatch, n})]]

Emit(st, r, n) ==
    [st EXCEPT !.session[r] =
        [next |-> n,
         pending |-> @.pending \cup {Batches(st, r, n)[k].start :
                                        k \in 1 .. Required(st, r, n)}]]

\* blocks_for_range
MapBlocks(r, start, stop) ==
    {table[r][k] : k \in (start \div BlockChunks) + 1 .. CeilDiv(stop, BlockChunks)}

-----------------------------------------------------------------------------
Init ==
    /\ run = [r \in Requests |-> "new"]
    /\ table = [r \in Requests |-> <<>>]
    /\ done = [r \in Requests |-> 0]
    /\ attempt = [r \in Requests |-> 0]
    /\ eligible = {} /\ finished = {}
    /\ ad = [seen |-> {}, admitted |-> {}, suppressed |-> {}, terminal |-> {},
             contexts |-> {}, pendingFinished |-> {}, held |-> {}, closed |-> FALSE]
    /\ work = <<>>
    /\ rt = [ctx |-> [r \in Requests |-> None],
             session |-> [r \in Requests |-> None],
             journal |-> [r \in Requests |-> None],
             leased |-> <<>>, ring |-> <<>>,
             endings |-> <<>>, committed |-> {}, poisoned |-> FALSE]
    /\ gpu = <<>> /\ dirty = {}
    /\ queue = <<>>
    /\ published = {}

-----------------------------------------------------------------------------
(* vLLM's scheduler: external, modelled from the callbacks it makes. *)

Usable == ~rt.poisoned /\ ~ad.closed
Unlocked == work = <<>> /\ Usable

HeldBlocks == UNION {ToSet(table[r]) : r \in Requests}
Overwritten(blocks) == {t \in DOMAIN gpu : gpu[t] \cap blocks # {}}

\* A request is scheduled, or scheduled again after a preemption, with blocks of
\* its own; its forward pass overwrites them.
Schedule(r) ==
    /\ Unlocked
    /\ run[r] \in {"new", "preempted"} /\ attempt[r] < MaxAttempts[r]
    /\ LET free == (1 .. Pool) \ HeldBlocks
           blocks == SubSeq(SetToSortSeq(free, <), 1, CeilDiv(Span, BlockChunks))
       IN  /\ Cardinality(free) >= CeilDiv(Span, BlockChunks)
           /\ table' = [table EXCEPT ![r] = blocks]
           /\ dirty' = dirty \cup Overwritten(ToSet(blocks))
    /\ run' = [run EXCEPT ![r] = "running"]
    /\ done' = [done EXCEPT ![r] = 0]
    /\ attempt' = [attempt EXCEPT ![r] = @ + 1]
    /\ UNCHANGED <<eligible, finished, ad, work, rt, gpu, queue, published>>

\* A request ends, at its natural end or because its client went away.  Only one
\* the scheduler's adapter saw an offer of keeps its blocks (request_finished).
Finish(r) ==
    /\ Unlocked
    /\ run[r] = "running"
    /\ run' = [run EXCEPT ![r] = IF r \in eligible THEN "delayed" ELSE "gone"]
    /\ table' = IF r \in eligible THEN table ELSE [table EXCEPT ![r] = <<>>]
    /\ finished' = finished \cup {r}
    /\ UNCHANGED <<done, attempt, eligible, ad, work, rt, gpu, dirty, queue, published>>

-----------------------------------------------------------------------------
(* The adapter's calls.  Each takes the lock and leaves its remaining steps *)
(* in "work".                                                               *)

PollTasks == <<[op |-> "leases"], [op |-> "contexts", left |-> Requests],
               [op |-> "reap"]>>

\* begin_context: one live context per request, one session per digest, and the
\* writer must have given up the request's previous journal.
MayBegin(st, r) ==
    /\ st.ctx[r] = None
    /\ ~Owned(st, Digest[r])
    /\ Sessions(st) < MaxSessions
    /\ st.journal[r] = None

Begin(st, r) ==
    [st EXCEPT
        !.ctx[r] = [seq |-> attempt[r], aborted |-> FALSE, inflight |-> <<>>],
        !.session[r] = [next |-> 0, pending |-> {}],
        !.journal[r] = [state |-> "open", pending |-> {}, next |-> 0,
                        appended |-> 0, clean |-> TRUE]]

Suppress(a, r) ==
    [a EXCEPT !.admitted = @ \ {r}, !.suppressed = @ \cup {r}]

\* accept_completed_prefill up to the submission loop.
Accept(st, a, r, n) ==
    \/ /\ ~Overcommits(st, r, n)
       /\ rt' = Emit(st, r, n) /\ ad' = a
       /\ work' = Batches(st, r, n) \o PollTasks
    \/ /\ Overcommits(st, r, n) \/ "mapping" \in Faults
       /\ rt' = AbortDeferred(st, r) /\ ad' = Suppress(a, r)
       /\ work' = PollTasks

\* wait_for_save after a forward pass that computed the chunks up to n:
\* offer_completed, then poll.
Offer(r, n) ==
    LET a == [ad EXCEPT !.seen = @ \cup {r}]
        b == [a EXCEPT !.contexts = @ \cup {r}]
        admitted == [b EXCEPT !.admitted = @ \cup {r}, !.terminal = @ \cup {r}]
    IN
    /\ Unlocked
    /\ run[r] = "running" /\ n \in done[r] + 1 .. Span
    /\ done' = [done EXCEPT ![r] = n]
    /\ eligible' = eligible \cup {r}
    /\ \/ /\ r \in ad.suppressed
          /\ ad' = a /\ work' = PollTasks /\ UNCHANGED rt
       \/ /\ r \notin ad.suppressed \cup ad.admitted /\ ~MayBegin(rt, r)
          /\ ad' = Suppress(b, r) /\ work' = PollTasks /\ UNCHANGED rt
       \/ /\ r \notin ad.suppressed \cup ad.admitted /\ MayBegin(rt, r)
          /\ Accept(Begin(rt, r), admitted, r, n)
       \/ /\ r \in ad.admitted \ ad.suppressed
          /\ Accept(rt, b, r, n)
    /\ UNCHANGED <<run, table, attempt, finished, gpu, dirty, queue, published>>

\* handle_preemptions, called before vLLM may overwrite the request's blocks.
\* The scheduler's adapter forgets the request (observe_metadata).
Preempt(r) ==
    /\ Unlocked
    /\ run[r] = "running"
    /\ run' = [run EXCEPT ![r] = "preempting"]
    /\ eligible' = eligible \ {r}
    /\ work' = <<[op |-> "preempt", req |-> r]>> \o PollTasks
               \o <<[op |-> "retire", req |-> r]>>
    /\ UNCHANGED <<table, done, attempt, finished, ad, rt, gpu, dirty, queue, published>>

\* get_finished: adapter.take_finished
GetFinished ==
    /\ Unlocked
    /\ finished \cup ad.pendingFinished # {}
    /\ work' = PollTasks \o <<[op |-> "take", ids |-> finished]>>
    /\ finished' = {}
    /\ UNCHANGED <<run, table, done, attempt, eligible, ad, rt, gpu, dirty, queue, published>>

\* _background_progress_main, while needs_progress.
NeedsProgress ==
    \/ \E r \in Live(rt) : DOMAIN rt.ctx[r].inflight # {}
    \/ rt.committed # {} \/ DOMAIN rt.endings # {}

BackgroundPoll ==
    /\ Unlocked
    /\ NeedsProgress
    /\ work' = PollTasks
    /\ UNCHANGED <<scheduler, ad, rt, gpu, dirty, queue, published>>

\* adapter.shutdown: the progress thread is joined, then runtime.shutdown.
Shutdown ==
    /\ MayShutdown
    /\ Unlocked
    /\ ad' = [ad EXCEPT !.closed = TRUE]
    /\ work' = <<[op |-> "aborts", left |-> Live(rt)], [op |-> "close"]>>
    /\ UNCHANGED <<scheduler, rt, gpu, dirty, queue, published>>

-----------------------------------------------------------------------------
(* The steps of a call. *)

At(op) == work # <<>> /\ Head(work).op = op
Proceed == work' = Tail(work)
\* A step that poisons the runtime raises out of the call.
ProceedUnless(st, rest) == work' = IF st.poisoned THEN <<>> ELSE rest

\* _submit_batch: reserve the blocks, then submit the gather under the registry's
\* lock.  A full registry, a bad mapping or a full ring abandons the publication.
Submit ==
    /\ At("submit")
    /\ LET b == Head(work)
           t == TicketOf(rt, b.req, b.start)
           blocks == MapBlocks(b.req, b.start, b.stop)
           fits == Reservable(rt, blocks) /\ Cardinality(DOMAIN rt.ring) < Depth
       IN  \/ /\ fits
              /\ rt' = [rt EXCEPT
                          !.leased = Extended(@, t, blocks),
                          !.ring = Extended(@, t, "submitted"),
                          !.ctx[b.req].inflight =
                              Extended(@, b.start, [stop |-> b.stop, stage |-> "gather"])]
              /\ gpu' = Extended(gpu, t, blocks)
              /\ Proceed /\ UNCHANGED ad
           \/ /\ ~fits \/ "mapping" \in Faults
              /\ rt' = AbortDeferred(rt, b.req)
              /\ ad' = Suppress(ad, b.req)
              /\ ProceedUnless(rt', SelectSeq(work, LAMBDA x : x.op # "submit"))
              /\ UNCHANGED gpu
    /\ UNCHANGED <<scheduler, dirty, queue, published>>

RunLeasePoll ==
    /\ At("leases")
    /\ rt' = PollLeases(rt)
    /\ Proceed
    /\ UNCHANGED <<scheduler, ad, gpu, dirty, queue, published>>

\* poll visits every context once.
Visit ==
    /\ At("contexts")
    /\ LET left == Head(work).left \cap Live(rt)
       IN  \/ /\ left = {} /\ Proceed
           \/ \E r \in left :
                work' = <<[op |-> IF rt.ctx[r].aborted THEN "drain" ELSE "advance",
                           req |-> r],
                          [op |-> "contexts", left |-> left \ {r}]>> \o Tail(work)
    /\ UNCHANGED <<scheduler, ad, rt, gpu, dirty, queue, published>>

\* _drain_aborted
Drain ==
    /\ At("drain")
    /\ LET r == Head(work).req
           asked == Query(rt, Tickets(rt, r, StagedAt(rt, r, "gather")))
           gathered == {i \in StagedAt(rt, r, "gather") : Ready(asked, TicketOf(rt, r, i))}
           over == gathered \cup StagedAt(rt, r, "written") \cup StagedAt(rt, r, "failed")
       IN  rt' = RetireIfDrained(ReleaseBatches(asked, r, over), r)
    /\ ProceedUnless(rt', Tail(work))
    /\ UNCHANGED <<scheduler, ad, gpu, dirty, queue, published>>

-----------------------------------------------------------------------------
(* _advance_active: the oldest batch of a context, one stage at a time. *)

Oldest(r) == Min(DOMAIN rt.ctx[r].inflight)
Advancing(r, i) ==
    /\ At("advance") /\ r = Head(work).req
    /\ DOMAIN rt.ctx[r].inflight # {} /\ i = Oldest(r)

\* The views the writer has not given back: max_pending_batches bounds them.
Outstanding == UNION {Tickets(rt, r, StagedAt(rt, r, "writing")) : r \in Live(rt)}

\* submit_ready borrows the view or raises before retaining it: the journal is
\* open, the batch is its next one and the writer has a credit left.
MayBorrow(j, i) ==
    /\ j # None /\ j.state = "open"
    /\ j.next = i
    /\ Cardinality(Outstanding) < Depth

\* Nothing in flight, or the oldest gather is not known to be complete, or the
\* writer still holds the oldest view: later batches wait.
AdvanceWaits ==
    /\ At("advance")
    /\ LET r == Head(work).req
       IN  DOMAIN rt.ctx[r].inflight # {} =>
              LET i == Oldest(r)
              IN  \/ i \in StagedAt(rt, r, "gather") /\ ~Ready(rt, TicketOf(rt, r, i))
                  \/ i \in StagedAt(rt, r, "writing")
    /\ Proceed
    /\ UNCHANGED <<scheduler, ad, rt, gpu, dirty, queue, published>>

\* Claim the slot and hand its view to the writer.
HandOver(r, i) ==
    LET t == TicketOf(rt, r, i)
        stop == rt.ctx[r].inflight[i].stop
        claimed == IF t \in DOMAIN rt.ring /\ rt.ring[t] = "ready"
                   THEN [rt EXCEPT !.ring[t] = "claimed"] ELSE Poison(rt)
    IN
    /\ Advancing(r, i)
    /\ i \in StagedAt(rt, r, "gather") /\ Ready(rt, t)
    /\ IF claimed.poisoned
       THEN rt' = claimed /\ work' = <<>> /\ UNCHANGED queue
       ELSE \/ /\ MayBorrow(rt.journal[r], i)
               /\ rt' = [claimed EXCEPT !.ctx[r].inflight[i].stage = "writing",
                                        !.journal[r].pending = @ \cup {t},
                                        !.journal[r].next = stop]
               /\ queue' = Append(queue, [ticket |-> t, at |-> i, stop |-> stop])
               /\ UNCHANGED work
            \/ /\ ~MayBorrow(rt.journal[r], i)
               /\ rt' = AbortDeferred(ReleaseBatches(claimed, r, {i}), r)
               /\ ProceedUnless(rt', Tail(work))
               /\ UNCHANGED queue
    /\ UNCHANGED <<scheduler, ad, gpu, dirty, published>>

\* commit_manifest needs an open journal with exact coverage; it can still fail
\* in the store, and then the publication is abandoned.
Coverage(j) == j.pending = {} /\ j.next = Span /\ j.appended = Span

Commit(st, r) ==
    LET j == st.journal[r]
        exact == j # None /\ j.state = "open" /\ Coverage(j)
    IN
    IF DOMAIN st.ctx[r].inflight # {} THEN rt' = Poison(st) /\ UNCHANGED published
    ELSE \/ /\ exact
            /\ published' = published \cup
                 {[digest |-> Digest[r], chunks |-> j.appended, clean |-> j.clean]}
            /\ rt' = [st EXCEPT !.ctx[r] = None, !.session[r] = None,
                                !.journal[r] = None, !.committed = @ \cup {Digest[r]}]
         \/ /\ ~exact \/ "manifest" \in Faults
            /\ rt' = AbortDeferred(st, r) /\ UNCHANGED published

\* The writer is done with the oldest view: release its slot, count the batch
\* and publish after the last one.
BatchWritten(r, i) ==
    LET released == ReleaseBatches(rt, r, {i})
        counted == [released EXCEPT !.session[r].pending = @ \ {i}]
    IN
    /\ Advancing(r, i)
    /\ \/ /\ i \in StagedAt(rt, r, "failed")
          /\ rt' = AbortDeferred(released, r) /\ UNCHANGED published
          /\ ProceedUnless(rt', Tail(work))
       \/ /\ i \in StagedAt(rt, r, "written")
          /\ counted.session[r] = [next |-> Span, pending |-> {}]
          /\ Commit(counted, r) /\ ProceedUnless(rt', Tail(work))
       \/ /\ i \in StagedAt(rt, r, "written")
          /\ counted.session[r] # [next |-> Span, pending |-> {}]
          /\ rt' = counted /\ ProceedUnless(rt', work) /\ UNCHANGED published
    /\ UNCHANGED <<scheduler, ad, gpu, dirty, queue>>

-----------------------------------------------------------------------------
(* The adapter's share of a poll and the ends of its calls. *)

\* _retire_terminal_request
ForgetEvidence(a, R) == [a EXCEPT !.terminal = @ \ R, !.contexts = @ \ R]

\* take_aborted and take_committed: each context gets its one terminal record,
\* and its request is suppressed unless it was preempted.  (A digest has one
\* session at a time, so at most one request wins a committed digest.)
Reap ==
    /\ At("reap")
    /\ LET aborted == DOMAIN rt.endings
           preempted == {r \in aborted : rt.endings[r] = "preempted"}
           a == ForgetEvidence(ad, aborted)
           winners == {r \in a.terminal \cap a.contexts : Digest[r] \in rt.committed}
           b == ForgetEvidence(a, winners)
       IN  ad' = [b EXCEPT
                    !.admitted = @ \ (aborted \cup winners),
                    !.suppressed = ((@ \ preempted) \cup (aborted \ preempted)) \cup winners,
                    !.held = @ \cup rt.committed]
    /\ rt' = [rt EXCEPT !.endings = <<>>, !.committed = {}]
    /\ Proceed
    /\ UNCHANGED <<scheduler, gpu, dirty, queue, published>>

\* _retire_finished_request
ForgetRequests(a, R) ==
    [a EXCEPT !.pendingFinished = @ \ R, !.seen = @ \ R,
              !.admitted = @ \ R, !.suppressed = @ \ R,
              !.contexts = @ \ (R \ a.terminal)]

\* Mutant: requests with leases are reported as well.
ReportedEarly(a, st) == a.pendingFinished

\* The end of take_finished: of the finished requests this adapter owns, report
\* those without a lease; the scheduler then frees their blocks.
Reported(a, st) ==
    {r \in a.pendingFinished : LeasedBy(st, r) = {}}

\* Mutant: an id that cannot be reported at once is forgotten.
TakeOnce ==
    /\ At("take")
    /\ LET a == [ad EXCEPT !.pendingFinished = Head(work).ids \cap ad.seen]
           st == PollLeases(rt)
           ready == Reported(a, st)
       IN  /\ rt' = st
           /\ ad' = [ForgetRequests(a, ready) EXCEPT !.pendingFinished = {}]
           /\ run' = [r \in Requests |-> IF r \in ready THEN "gone" ELSE run[r]]
           /\ table' = [r \in Requests |-> IF r \in ready THEN <<>> ELSE table[r]]
    /\ Proceed
    /\ UNCHANGED <<done, attempt, eligible, finished, gpu, dirty, queue, published>>

Take ==
    /\ At("take")
    /\ LET a == [ad EXCEPT !.pendingFinished = @ \cup (Head(work).ids \cap ad.seen)]
           st == PollLeases(rt)
           ready == Reported(a, st)
       IN  /\ rt' = st
           /\ ad' = ForgetRequests(a, ready)
           /\ run' = [r \in Requests |-> IF r \in ready THEN "gone" ELSE run[r]]
           /\ table' = [r \in Requests |-> IF r \in ready THEN <<>> ELSE table[r]]
    /\ Proceed
    /\ UNCHANGED <<done, attempt, eligible, finished, gpu, dirty, queue, published>>

\* The fences that a wait at the head of the call synchronizes.
Waits ==
    CASE At("preempt") -> IF Head(work).req \in Live(rt)
                          THEN MustDrain(rt, Head(work).req) ELSE {}
      [] At("aborts")  -> UNION {MustDrain(rt, r) : r \in Head(work).left}
      [] At("close")   -> UNION {Tickets(rt, r, StagedAt(rt, r, "gather")) :
                                    r \in Live(rt)}
      [] OTHER         -> {}

\* A fence that does not complete within gather_abort_timeout_seconds poisons the
\* runtime; every lease stays.
WaitTimesOut ==
    /\ "timeout" \in Faults
    /\ Waits \cap DOMAIN gpu # {}
    /\ rt' = Poison(rt)
    /\ work' = <<>>
    /\ UNCHANGED <<scheduler, ad, gpu, dirty, queue, published>>

\* runtime.preempt
PreemptContext ==
    /\ At("preempt")
    /\ Waits \cap DOMAIN gpu = {}
    /\ LET r == Head(work).req
       IN  IF r \in Live(rt)
           THEN /\ rt' = AbortDrained(rt, r, "preempted")
                /\ ad' = [ad EXCEPT !.admitted = @ \ {r}, !.suppressed = @ \ {r}]
           ELSE UNCHANGED <<rt, ad>>
    /\ Proceed
    /\ UNCHANGED <<scheduler, gpu, dirty, queue, published>>

\* handle_preemptions returns: the adapter forgets the request, vLLM takes its blocks.
PreemptReturns ==
    /\ At("retire")
    /\ LET r == Head(work).req
       IN  /\ ad' = ForgetRequests(ad, {r})
           /\ run' = [run EXCEPT ![r] = "preempted"]
           /\ table' = [table EXCEPT ![r] = <<>>]
    /\ Proceed
    /\ UNCHANGED <<done, attempt, eligible, finished, rt, gpu, dirty, queue, published>>

\* runtime.shutdown: abort every context, wait for gathers and borrowed views,
\* then close the ring, which refuses while a view is claimed.
ShutdownAborts ==
    /\ At("aborts")
    /\ LET left == Head(work).left
       IN  \/ /\ left = {} /\ Proceed /\ UNCHANGED rt
           \/ \E r \in left :
                /\ MustDrain(rt, r) \cap DOMAIN gpu = {}
                /\ rt' = AbortDrained(rt, r, "shutdown")
                /\ work' = <<[op |-> "aborts", left |-> left \ {r}]>> \o Tail(work)
    /\ UNCHANGED <<scheduler, ad, gpu, dirty, queue, published>>

CloseRing ==
    /\ At("close")
    /\ Waits \cap DOMAIN gpu = {}
    /\ Outstanding = {}
    /\ LET asked == Query(rt, Waits)
           T == UNION {Tickets(rt, r, DOMAIN rt.ctx[r].inflight) : r \in Live(rt)}
           drained == ReleaseSlots(asked, T)
       IN  rt' = IF \E t \in DOMAIN drained.ring : drained.ring[t] = "claimed"
                 THEN Poison(drained)
                 ELSE [ReleaseComplete(drained, DOMAIN drained.leased) EXCEPT
                         !.ring = <<>>, !.ctx = [r \in Requests |-> None]]
    /\ work' = <<>>
    /\ UNCHANGED <<scheduler, ad, gpu, dirty, queue, published>>

-----------------------------------------------------------------------------
(* The GPU and the writer thread. *)

GatherCompletes(t) ==
    /\ t \in DOMAIN gpu
    /\ gpu' = Without(gpu, {t})
    /\ UNCHANGED <<scheduler, ad, work, rt, dirty, queue, published>>

\* The completion resolves: journal bookkeeping and the credit first, then the
\* future (ManifestWriterCompletion._resolve).
Resolve(j, t, result) ==
    LET rest == [j EXCEPT !.pending = @ \ {t}]
    IN  /\ rt' = [rt EXCEPT
                    !.journal[t.req] =
                        IF rest.state = "aborted" /\ rest.pending = {} THEN None ELSE rest,
                    !.ctx[t.req].inflight[t.start].stage = result]
        /\ queue' = Tail(queue)

\* _append_batch, one chunk at a time; an aborted journal ends it without error.
Write ==
    /\ queue # <<>>
    /\ LET job == Head(queue)
           t == job.ticket
           j == rt.journal[t.req]
       IN  \/ /\ j.state = "open" /\ job.at < job.stop
              /\ rt' = [rt EXCEPT !.journal[t.req] =
                          [j EXCEPT !.appended = job.at + 1,
                                    !.clean = @ /\ t \notin dirty]]
              /\ queue' = <<[job EXCEPT !.at = @ + 1]>> \o Tail(queue)
           \/ /\ j.state = "open" /\ job.at = job.stop
              /\ Resolve(j, t, "written")
           \/ /\ j.state = "open" /\ "append" \in Faults
              /\ Resolve([j EXCEPT !.state = "aborted"], t, "failed")
           \/ /\ j.state = "aborted"
              /\ Resolve(j, t, "written")
    /\ UNCHANGED <<scheduler, ad, work, gpu, dirty, published>>

-----------------------------------------------------------------------------
Call == \/ Submit \/ RunLeasePoll \/ Visit \/ Drain \/ AdvanceWaits
        \/ \E r \in Requests : \E i \in 0 .. Span - 1 :
              HandOver(r, i) \/ BatchWritten(r, i)
        \/ Reap \/ Take \/ PreemptContext \/ PreemptReturns
        \/ ShutdownAborts \/ CloseRing

Next ==
    \/ \E r \in Requests : Schedule(r) \/ Finish(r) \/ Preempt(r)
    \/ \E r \in Requests, n \in 1 .. Span : Offer(r, n)
    \/ GetFinished \/ BackgroundPoll \/ Shutdown
    \/ Call \/ WaitTimesOut
    \/ \E t \in Ticket : GatherCompletes(t)
    \/ Write

Spec == Init /\ [][Next]_vars

\* A call in progress continues, the progress thread and the engine's step loop
\* keep calling, gathers complete and the writer thread runs.
FairSpec ==
    /\ Spec
    /\ WF_vars(Call) /\ WF_vars(BackgroundPoll) /\ SF_vars(GetFinished)
    /\ WF_vars(Write)
    /\ \A t \in Ticket : WF_vars(GatherCompletes(t))

-----------------------------------------------------------------------------
(* Properties. *)

Context == [seq : 1 .. Attempts, aborted : BOOLEAN,
            inflight : UNION {[I -> [stop : 1 .. Span, stage : {"gather", "writing", "written", "failed"}]] :
                                 I \in SUBSET (0 .. Span - 1)}]
Journal == [state : {"open", "aborted"}, pending : SUBSET Ticket, next : 0 .. Span,
            appended : 0 .. Span, clean : BOOLEAN]

\* Every part of the state has its type and the configured bounds hold: leases,
\* leased blocks (no block twice), ring slots, planner batches and sessions, and
\* views lent to the writer.
TypeOK ==
    /\ run \in [Requests -> {"new", "running", "preempting", "preempted", "delayed",
                             "gone"}]
    /\ \A r \in Requests : table[r] \in Seq(1 .. Pool)
    /\ done \in [Requests -> 0 .. Span] /\ attempt \in [Requests -> 0 .. Attempts]
    /\ \A r \in Requests : rt.ctx[r] \in Context \cup {None}
    /\ \A r \in Requests : rt.journal[r] \in Journal \cup {None}
    /\ DOMAIN rt.ring \subseteq Ticket /\ Cardinality(DOMAIN rt.ring) <= Depth
    /\ DOMAIN rt.leased \subseteq Ticket /\ Cardinality(DOMAIN rt.leased) <= Depth
    /\ Cardinality(LeasedBlocks(rt)) <= MaxLeasedBlocks
    /\ \A t, u \in DOMAIN rt.leased : t # u => rt.leased[t] \cap rt.leased[u] = {}
    /\ Cardinality(Pending(rt)) <= Depth /\ Sessions(rt) <= MaxSessions
    /\ Cardinality(Outstanding) <= Depth

\* The blocks a gather still reads are leased and its ring slot is not reused:
\* whatever abandons a publication, a lease ends only after its fence completed
\* (block_lease.py: "blocks remain leased until the submitted completion fence
\* reports done").
Leased ==
    \A t \in DOMAIN gpu :
        /\ t \in DOMAIN rt.leased /\ rt.leased[t] = gpu[t]
        /\ t \in DOMAIN rt.ring /\ rt.ring[t] = "submitted"

\* While a context may still be published, every block its gathers read belongs
\* to its request: neither request completion nor preemption gives such a block
\* back (take_finished withholds, preempt drains).
Held ==
    \A t \in DOMAIN gpu :
        LET c == rt.ctx[t.req]
        IN  (c # None /\ c.seq = t.seq /\ ~c.aborted)
                => gpu[t] \subseteq ToSet(table[t.req])

\* A view the writer thread reads or will read keeps its ring slot, also after
\* its context was aborted or its request was freed.
ViewsOwned ==
    \A k \in DOMAIN queue :
        /\ queue[k].ticket \in DOMAIN rt.ring
        /\ rt.ring[queue[k].ticket] = "claimed"

\* Nobody writes what is being read: the block of a gather is leased, and held by its
\* request as long as the result counts, and the slot of a view is not reused.
SourceHeld == Leased /\ Held /\ ViewsOwned

\* A published manifest covers the whole span with bytes no one overwrote while
\* they were gathered.
ExactManifests == \A m \in published : m.chunks = Span /\ m.clean

\* Runtime, planner, writer and adapter agree on what is in progress: a session
\* exists exactly for a context that is not aborted, an open journal belongs to
\* one, and a request whose terminal record is owed has such a context or an
\* end that the next poll collects.  Without a fence that times out, no sequence of
\* offers, failures, preemptions and completions makes them misuse the ring, which
\* would poison the runtime.
Agreement ==
    /\ TypeOK /\ ~rt.poisoned
    /\ \A r \in Requests :
        LET active == rt.ctx[r] # None /\ ~rt.ctx[r].aborted
            ended == r \in DOMAIN rt.endings \/ Digest[r] \in rt.committed
        IN  /\ (rt.session[r] # None) <=> active
            /\ (rt.journal[r] # None /\ rt.journal[r].state = "open") => active
            /\ ~ad.closed => (active => r \in ad.terminal)
            /\ ~ad.closed => (r \in ad.terminal => active \/ ended)

\* A closed runtime left nothing behind: no gather reads GPU memory, no view is
\* lent and no lease is held when shutdown has closed the ring.
ClosedIsQuiet ==
    (ad.closed /\ work = <<>> /\ ~rt.poisoned)
        => gpu = <<>> /\ queue = <<>> /\ rt.leased = <<>> /\ rt.ring = <<>>

\* The worker reports a request as finished only while the scheduler still waits
\* for that report; an id it has already removed would break the engine.
EchoOnlyDelayed ==
    [][\A r \in ad.seen \ ad.seen' : run[r] \in {"delayed", "preempting"}]_vars

\* Delayed blocks are freed: every request that waits for its gathers is reported
\* in the end.
DelayedFreed ==
    \A r \in Requests : (run[r] = "delayed") ~> (run[r] = "gone" \/ ~Usable)

\* A fully computed prompt whose context was admitted ends in exactly one terminal
\* record, committed or aborted.
SpanResolves ==
    \A r \in Requests :
        (r \in ad.terminal /\ done[r] = Span) ~> (r \notin ad.terminal \/ ~Usable)

\* The engine hears of every request it waits for, and of no other, and every publication
\* that was offered whole has an outcome.
Answered == EchoOnlyDelayed /\ DelayedFreed /\ SpanResolves

\* When handle_preemptions has returned, no gather reads the preempted request's
\* blocks ("the runtime drains armed CUDA fences or raises without releasing
\* blocks of unknown status").
PreemptDrains == \A t \in DOMAIN gpu : run[t.req] # "preempted"

\* A request that ends before its span is complete gives up its publication
\* ("cancellation ... abandons the optional publication").
CancelledIsAbandoned ==
    \A r \in Requests : (run[r] = "gone") ~> (rt.ctx[r] = None \/ ~Usable)

================================================================================
