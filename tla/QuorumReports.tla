---------------------------- MODULE QuorumReports ----------------------------
(***************************************************************************)
(* The admission quorum of the SparkCache connector.                       *)
(*                                                                         *)
(* Every worker rank keeps the set of cache entries it can serve (_held)   *)
(* and reports it to the scheduler in bounded pieces: one delta taken from *)
(* a short history and one chunk of a rolling checkpoint per report.  The  *)
(* scheduler rebuilds each rank's set, notices gaps, withdraws a rank it   *)
(* cannot follow, and admits a restore only for a digest that every rank   *)
(* offers.  Reports are lost (SparkCacheStats.aggregate keeps one report   *)
(* per rank and step), repeated, delayed and overtaken; workers restart.   *)
(*                                                                         *)
(* worker[r] is the worker's side, peer[r] the scheduler's side; the       *)
(* scheduler's dictionary _quorum is kept by rank: digest d has rank r in  *)
(* _quorum[d] iff d \in peer[r].offered.                                   *)
(***************************************************************************)
EXTENDS Integers, FiniteSets, Sequences

CONSTANTS
    Ranks,         \* physical tensor-parallel ranks, range(tp_degree)
    Digests,       \* cache entries, integers in the order of their hex names
    BatchSize,     \* _QUORUM_REPORT_BATCH_SIZE
    HistorySize,   \* _QUORUM_DELTA_HISTORY_SIZE
    PendingLimit,  \* _QUORUM_PENDING_DELTA_LIMIT
    RetiredLimit,  \* _QUORUM_RETIRED_GENERATION_LIMIT
    HandshakeMax,  \* _STARTUP_HANDSHAKE_MAX_DIGESTS
    Requested,     \* bound: entries that requests ask for
    MaxSequence,   \* bound: observed inventory changes of one generation
    MaxCycle,      \* bound: checkpoint cycles of one rank
    RestartCycles, \* bound: cycles that a restart uses up
    MaxGeneration, \* bound: worker processes started at one rank
    MaxInFlight    \* bound: reports of one rank under way

ASSUME QuorumConstants ==
    /\ IsFiniteSet(Ranks) /\ IsFiniteSet(Digests) /\ Digests \subseteq Int
    /\ Requested \subseteq Digests
    /\ BatchSize \in Nat \ {0} /\ HistorySize \in Nat \ {0}
    /\ PendingLimit \in Nat \ {0} /\ RetiredLimit \in Nat \ {0}
    /\ HandshakeMax \in Nat \ {0}
    /\ MaxSequence \in Nat \ {0} /\ MaxCycle \in Nat \ {0} /\ RestartCycles \in Nat
    /\ MaxGeneration \in Nat \ {0} /\ MaxInFlight \in Nat \ {0}

VARIABLES
    worker,    \* per rank: inventory and report cursors of its process
    collected, \* ranks whose handshake metadata the engine has fetched
    startup,   \* per rank: handshake reports not yet absorbed
    ready,     \* the engine accepts requests
    wire,      \* per rank: reports under way, oldest first
    load,      \* per digest: its restore, "idle", "loading" or "failed"
    peer,      \* per rank: what the scheduler believes
    meaning,   \* history: the inventories reported under a sequence number
    served,    \* history: generations the scheduler accepted, in order
    streak     \* history: reports delivered in order since the last disturbance

vars == <<worker, collected, startup, ready, wire, load, peer,
          meaning, served, streak>>

Generations == 1 .. MaxGeneration
Sequences0 == 0 .. MaxSequence
NoGeneration == 0

Deltas == [seq : Sequences0, added : SUBSET Digests, removed : SUBSET Digests]
Chunks == [index : Nat, held : SUBSET Digests]
Checkpoints == [seq : Sequences0, cycle : Nat, index : Nat, count : Nat,
                size : Nat, held : SUBSET Digests]
Reports == [gen : Generations, delta : Deltas, ckpt : Checkpoints]

\* A report without a delta: sequence 0 is never newer than what is accepted.
NoDelta == [seq |-> 0, added |-> {}, removed |-> {}]
\* No checkpoint under construction: its key is below the key of any chunk.
NoCheckpoint == [seq |-> 0, cycle |-> 0, count |-> 0, size |-> 0, chunks |-> {}]

Trim(s, n) == IF Len(s) > n THEN SubSeq(s, Len(s) - n + 1, Len(s)) ELSE s
Elements(s) == {s[i] : i \in DOMAIN s}
Without(s, i) == [j \in 1 .. Len(s) - 1 |-> IF j < i THEN s[j] ELSE s[j + 1]]

(***************************************************************************)
(* Checkpoint chunks: slices of the sorted inventory.                      *)
(***************************************************************************)
ChunkCount(n) == IF n = 0 THEN 1 ELSE (n + BatchSize - 1) \div BatchSize
Rank(S, d) == Cardinality({e \in S : e < d})
Chunk(S, i) == {d \in S : i * BatchSize <= Rank(S, d) /\ Rank(S, d) < (i + 1) * BatchSize}
FirstOf(S, n) == {d \in S : Rank(S, d) < n}

CheckpointChunk(S, seq, cycle, i) ==
    [seq |-> seq, cycle |-> cycle, index |-> i,
     count |-> ChunkCount(Cardinality(S)), size |-> Cardinality(S),
     held |-> Chunk(S, i)]
-----------------------------------------------------------------------------
(***************************************************************************)
(* The worker's side: _build_quorum_report_locked.                         *)
(***************************************************************************)
Fresh(gen, held) ==
    [gen |-> gen, held |-> held, observed |-> {}, seq |-> 0,
     history |-> <<>>, cursor |-> 0, cycle |-> 1, index |-> 0]

Difference(w) ==
    [seq |-> w.seq + 1, added |-> w.held \ w.observed,
     removed |-> w.observed \ w.held]

RecordDelta(w) ==
    LET d == Difference(w)
        h == Trim(Append(w.history, d), HistorySize)
    IN  IF Cardinality(d.added) + Cardinality(d.removed) <= BatchSize
          THEN [w EXCEPT !.history = h, !.cursor = @ % Len(h)]
          ELSE w

Observe(w) ==
    IF w.held = w.observed THEN w
    ELSE [RecordDelta(w) EXCEPT !.observed = w.held, !.seq = w.seq + 1,
                                !.cycle = w.cycle + 1, !.index = 0]

NextCursor(w) == IF w.history = <<>> THEN 0 ELSE (w.cursor + 1) % Len(w.history)

Advance(w) ==
    IF w.index + 1 >= ChunkCount(Cardinality(w.observed))
      THEN [w EXCEPT !.index = 0, !.cycle = @ + 1, !.cursor = NextCursor(w)]
      ELSE [w EXCEPT !.index = @ + 1, !.cursor = NextCursor(w)]

ReportOf(w) ==
    [gen |-> w.gen,
     delta |-> IF w.history = <<>> THEN NoDelta ELSE w.history[w.cursor + 1],
     ckpt |-> CheckpointChunk(w.observed, w.seq, w.cycle, w.index)]

HandshakeSequence(w) == IF w.held = w.observed THEN w.seq ELSE w.seq + 1

HandshakeReports(w) ==
    LET S == FirstOf(w.held, HandshakeMax)
    IN  [i \in 1 .. ChunkCount(Cardinality(S)) |->
            [gen |-> w.gen, delta |-> NoDelta,
             ckpt |-> CheckpointChunk(S, HandshakeSequence(w), w.cycle, i - 1)]]
-----------------------------------------------------------------------------
(***************************************************************************)
(* The scheduler's side: one operator per helper, on one rank's record.    *)
(***************************************************************************)
Unknown ==
    [gen |-> NoGeneration, retired |-> <<>>, seq |-> 0, held |-> {},
     pending |-> {}, ckpt |-> NoCheckpoint, desync |-> FALSE, need |-> FALSE,
     offered |-> {}]

\* Mutant: a desynchronized rank keeps its confirmations.
MarkKeepingOffers(p) == [p EXCEPT !.desync = TRUE]

MarkDesynchronized(p) ==
    IF p.desync THEN p ELSE [p EXCEPT !.offered = {}, !.desync = TRUE]

RequireCheckpoint(p) == MarkDesynchronized([p EXCEPT !.need = TRUE])

\* Mutant: sequences start below the worker's first one.
BeginBelowZero(p, g) ==
    [p EXCEPT !.gen = g, !.seq = -1, !.held = {}, !.pending = {},
              !.ckpt = NoCheckpoint, !.desync = FALSE, !.need = FALSE,
              !.offered = {}]

BeginGeneration(p, g) ==
    [p EXCEPT !.gen = g, !.seq = 0, !.held = {}, !.pending = {},
              !.ckpt = NoCheckpoint, !.desync = FALSE, !.need = FALSE,
              !.offered = {}]

Rejected(p, g) == g # p.gen /\ g \in Elements(p.retired)

AcceptGeneration(p, g) ==
    IF g = p.gen THEN p
    ELSE BeginGeneration(
           [p EXCEPT !.retired = IF p.gen = NoGeneration THEN @
                                 ELSE Trim(Append(@, p.gen), RetiredLimit)], g)

Latest(Q) == CHOOSE q \in Q : \A e \in Q : e.seq <= q.seq

\* Mutant: deltas are applied across a gap.
AllPending(p) == p.pending

\* The pending deltas that extend the accepted sequence without a gap.
Contiguous(p) ==
    {q \in p.pending : /\ q.seq > p.seq
                       /\ \A j \in (p.seq + 1) .. q.seq : \E e \in p.pending : e.seq = j}

\* The set S after the deltas Q, applied in the order of their sequences.
Applied(S, Q) ==
    {d \in Digests :
        LET touching == {q \in Q : d \in q.added \cup q.removed}
        IN  IF touching = {} THEN d \in S ELSE d \in Latest(touching).added}

ApplyDeltas(p) ==
    LET Q == Contiguous(p)
    IN  IF Q = {} THEN p
        ELSE [p EXCEPT !.seq = Latest(Q).seq, !.held = Applied(@, Q),
                       !.pending = @ \ Q,
                       !.offered = IF p.desync THEN @ ELSE Applied(@, Q)]

Resume(p) ==
    IF p.pending # {} \/ p.need THEN MarkDesynchronized(p)
    ELSE IF p.desync THEN [p EXCEPT !.desync = FALSE, !.offered = @ \cup p.held]
    ELSE p

DrainDeltas(p) == Resume(ApplyDeltas(p))

MakeRoom(p) ==
    IF Cardinality(p.pending) < PendingLimit THEN p
    ELSE RequireCheckpoint([p EXCEPT !.pending = @ \ {Latest(p.pending)}])

WellFormedDelta(d) ==
    /\ Cardinality(d.added) + Cardinality(d.removed) <= BatchSize
    /\ d.added \cap d.removed = {}

AbsorbDelta(p, d) ==
    LET same == {q \in p.pending : q.seq = d.seq}
        full == Cardinality(p.pending) >= PendingLimit
        kept == [MakeRoom(p) EXCEPT !.pending = @ \cup {d}]
    IN  IF ~WellFormedDelta(d) \/ d.seq <= p.seq \/ d \in same THEN p
        ELSE IF same # {} \/ (full /\ d.seq >= Latest(p.pending).seq)
               THEN RequireCheckpoint(p)
        ELSE DrainDeltas(IF d.seq = p.seq + 1 THEN kept ELSE MarkDesynchronized(kept))

WellFormedCheckpoint(c) ==
    LET rest == c.size - c.index * BatchSize
    IN  /\ c.cycle >= 1 /\ c.index < c.count
        /\ c.count = ChunkCount(c.size)
        /\ Cardinality(c.held) = IF rest < 0 THEN 0
                                 ELSE IF rest < BatchSize THEN rest ELSE BatchSize

Before(a, b) == a.seq < b.seq \/ (a.seq = b.seq /\ a.cycle < b.cycle)

\* The checkpoint under construction that chunk c belongs to.
Assembling(p, c) ==
    IF Before(p.ckpt, c)
      THEN [seq |-> c.seq, cycle |-> c.cycle, count |-> c.count,
            size |-> c.size, chunks |-> {}]
      ELSE p.ckpt

Conflicting(a, c) ==
    \/ a.count # c.count \/ a.size # c.size
    \/ \E k \in a.chunks : k.index = c.index /\ k.held # c.held

\* Mutant: deltas the checkpoint covers stay pending.
InstallKeepingPending(p, a) ==
    LET whole == UNION {k.held : k \in a.chunks}
    IN  DrainDeltas([p EXCEPT !.held = whole, !.seq = a.seq, !.offered = {},
                              !.need = FALSE, !.ckpt = NoCheckpoint, !.desync = TRUE])

\* The last chunk arrived: the reconstructed set replaces the rank's belief.
InstallCheckpoint(p, a) ==
    LET whole == UNION {k.held : k \in a.chunks}
    IN  IF Cardinality(whole) # a.size THEN RequireCheckpoint([p EXCEPT !.ckpt = a])
        ELSE DrainDeltas(
               [p EXCEPT !.held = whole, !.seq = a.seq, !.offered = {},
                         !.pending = {q \in @ : q.seq > a.seq},
                         !.need = FALSE, !.ckpt = NoCheckpoint, !.desync = TRUE])

AddChunk(p, c) ==
    LET a == Assembling(p, c)
        b == [a EXCEPT !.chunks = @ \cup {[index |-> c.index, held |-> c.held]}]
    IN  IF Before(c, p.ckpt) THEN p
        ELSE IF Conflicting(a, c) THEN RequireCheckpoint(p)
        ELSE IF Cardinality(b.chunks) # b.count THEN [p EXCEPT !.ckpt = b]
        ELSE InstallCheckpoint(p, b)

\* Mutant: a checkpoint of an older state is not ignored.
AbsorbOldCheckpoint(p, c) ==
    IF ~WellFormedCheckpoint(c) THEN p
    ELSE IF c.seq = p.seq /\ ~p.desync /\ ~p.need
           THEN [p EXCEPT !.ckpt = NoCheckpoint]
    ELSE AddChunk(IF c.seq > p.seq THEN MarkDesynchronized(p) ELSE p, c)

AbsorbCheckpoint(p, c) ==
    IF ~WellFormedCheckpoint(c) \/ c.seq < p.seq THEN p
    ELSE IF c.seq = p.seq /\ ~p.desync /\ ~p.need
           THEN [p EXCEPT !.ckpt = NoCheckpoint]
    ELSE AddChunk(IF c.seq > p.seq THEN MarkDesynchronized(p) ELSE p, c)

AbsorbQuorum(p, m) ==
    IF Rejected(p, m.gen) THEN p
    ELSE AbsorbCheckpoint(AbsorbDelta(AcceptGeneration(p, m.gen), m.delta), m.ckpt)

FullQuorum(d) == \A r \in Ranks : d \in peer[r].offered
-----------------------------------------------------------------------------
Init ==
    /\ \E found \in [Ranks -> SUBSET Digests] :
          worker = [r \in Ranks |-> Fresh(1, found[r])]
    /\ collected = {} /\ ready = FALSE
    /\ startup = [r \in Ranks |-> <<>>]
    /\ wire = [r \in Ranks |-> <<>>]
    /\ load = [d \in Digests |-> "idle"]
    /\ peer = [r \in Ranks |-> Unknown]
    /\ meaning = [r \in Ranks |-> [g \in Generations |->
                    [n \in Sequences0 |-> IF n = 0 THEN {{}} ELSE {}]]]
    /\ served = [r \in Ranks |-> <<>>]
    /\ streak = [r \in Ranks |-> 0]

\* Reports that flush what was under way and then two checkpoint cycles.
SettleTime(n) == MaxInFlight + 2 * ChunkCount(n)
StreakCap == SettleTime(Cardinality(Digests))

Disturb(r) == streak' = [streak EXCEPT ![r] = 0]

\* The scheduler absorbs report m of rank r (_absorb_quorum).
Absorb(r, m) ==
    /\ peer' = [peer EXCEPT ![r] = AbsorbQuorum(@, m)]
    /\ served' = IF peer[r].gen = m.gen \/ Rejected(peer[r], m.gen) THEN served
                 ELSE [served EXCEPT ![r] = Append(@, m.gen)]

\* get_handshake_metadata: the engine collects rank r's startup inventory.
GetHandshake(r) ==
    LET w == worker[r]
        n == HandshakeSequence(w)
    IN  /\ ~ready /\ r \notin collected
        /\ collected' = collected \cup {r}
        /\ startup' = [startup EXCEPT ![r] = HandshakeReports(w)]
        /\ meaning' = [meaning EXCEPT ![r][w.gen][n] = @ \cup {FirstOf(w.held, HandshakeMax)}]
        /\ UNCHANGED <<worker, ready, wire, load, peer, served, streak>>

\* set_xfer_handshake_metadata: one handshake report reaches the scheduler.
SetHandshake(r) ==
    /\ ~ready /\ startup[r] # <<>>
    /\ Absorb(r, Head(startup[r]))
    /\ startup' = [startup EXCEPT ![r] = Tail(@)]
    /\ UNCHANGED <<worker, collected, ready, wire, load, meaning, streak>>

\* Ranks without metadata (restore disabled, malformed) contribute nothing.
EngineReady ==
    /\ ~ready /\ \A r \in Ranks : startup[r] = <<>>
    /\ ready' = TRUE
    /\ UNCHANGED <<worker, collected, startup, wire, load, peer, meaning, served, streak>>

\* _finish_store: a committed entry enters the inventory.
Add(r, d) ==
    /\ ready /\ d \notin worker[r].held
    /\ worker' = [worker EXCEPT ![r].held = @ \cup {d}]
    /\ Disturb(r)
    /\ UNCHANGED <<collected, startup, ready, wire, load, peer, meaning, served>>

\* Eviction, expiry, the integrity sweep: an entry leaves the inventory.
Remove(r, d) ==
    /\ d \in worker[r].held
    /\ worker' = [worker EXCEPT ![r].held = @ \ {d}]
    /\ Disturb(r)
    /\ UNCHANGED <<collected, startup, ready, wire, load, peer, meaning, served>>

\* get_num_new_matched_tokens: a restore is admitted for a full quorum only.
Admit(d) ==
    /\ ready /\ FullQuorum(d) /\ load[d] = "idle"
    /\ load' = [load EXCEPT ![d] = "loading"]
    /\ UNCHANGED <<worker, collected, startup, ready, wire, peer, meaning, served, streak>>

LoadVerified(d) ==
    /\ load[d] = "loading"
    /\ load' = [load EXCEPT ![d] = "idle"]
    /\ UNCHANGED <<worker, collected, startup, ready, wire, peer, meaning, served, streak>>

\* A load fails on rank r.  A corrupt or expired entry leaves its inventory
\* (_invalidate_after_failure); a plain miss or a cancelled load keeps it.
LoadFails(r, d) ==
    /\ load[d] = "loading"
    /\ load' = [load EXCEPT ![d] = "failed"]
    /\ worker' \in {worker, [worker EXCEPT ![r].held = @ \ {d}]}
    /\ Disturb(r)
    /\ UNCHANGED <<collected, startup, ready, wire, peer, meaning, served>>

\* update_connector_output with invalid blocks: every rank's offer is dropped.
InvalidBlocks(d) ==
    /\ load[d] = "failed"
    /\ load' = [load EXCEPT ![d] = "idle"]
    /\ peer' = [r \in Ranks |-> [peer[r] EXCEPT !.offered = @ \ {d}]]
    /\ UNCHANGED <<worker, collected, startup, ready, wire, meaning, served, streak>>

\* What a worker and its predecessors have used up of the bound on cycles.
Spent(w) == w.cycle + (w.gen - 1) * RestartCycles

\* get_kv_connector_stats: rank r builds its next report.
BuildReport(r) ==
    LET w == Observe(worker[r])
    IN  /\ ready /\ Len(wire[r]) < MaxInFlight
        /\ Spent(w) < MaxCycle /\ w.seq <= MaxSequence
        /\ worker' = [worker EXCEPT ![r] = Advance(w)]
        /\ wire' = [wire EXCEPT ![r] = Append(@, ReportOf(w))]
        /\ meaning' = [meaning EXCEPT ![r][w.gen][w.seq] = @ \cup {w.observed}]
        /\ UNCHANGED <<collected, startup, ready, load, peer, served, streak>>

\* A report reaches the scheduler; i > 1 means it overtook older ones.
Deliver(r, i) ==
    /\ Absorb(r, wire[r][i])
    /\ wire' = [wire EXCEPT ![r] = Without(@, i)]
    /\ streak' = [streak EXCEPT ![r] = IF i > 1 THEN 0
                                       ELSE IF @ < StreakCap THEN @ + 1 ELSE @]
    /\ UNCHANGED <<worker, collected, startup, ready, load, meaning>>

\* A copy of a report reaches the scheduler and another is still under way.
DeliverCopy(r, i) ==
    /\ Absorb(r, wire[r][i])
    /\ Disturb(r)
    /\ UNCHANGED <<worker, collected, startup, ready, wire, load, meaning>>

\* SparkCacheStats.aggregate keeps the newer report of a rank, or the output is lost.
Lose(r, i) ==
    /\ wire' = [wire EXCEPT ![r] = Without(@, i)]
    /\ Disturb(r)
    /\ UNCHANGED <<worker, collected, startup, ready, load, peer, meaning, served>>

\* The worker process restarts and rediscovers its manifests.
Restart(r) ==
    /\ ready /\ worker[r].gen < MaxGeneration /\ Spent(worker[r]) + RestartCycles <= MaxCycle
    /\ worker' = [worker EXCEPT ![r] = Fresh(@.gen + 1, @.held)]
    /\ Disturb(r)
    /\ UNCHANGED <<collected, startup, ready, wire, load, peer, meaning, served>>

Next ==
    \/ EngineReady
    \/ \E d \in Requested : Admit(d) \/ LoadVerified(d) \/ InvalidBlocks(d)
    \/ \E r \in Ranks :
         \/ GetHandshake(r) \/ SetHandshake(r)
         \/ BuildReport(r) \/ Restart(r)
         \/ \E d \in Digests : Add(r, d) \/ Remove(r, d) \/ LoadFails(r, d)
         \/ \E i \in DOMAIN wire[r] : Deliver(r, i) \/ DeliverCopy(r, i) \/ Lose(r, i)

Spec == Init /\ [][Next]_vars
-----------------------------------------------------------------------------
(***************************************************************************)
(* Properties.                                                             *)
(***************************************************************************)
Workers == [gen : Generations, held : SUBSET Digests, observed : SUBSET Digests,
            seq : Sequences0, history : Seq(Deltas), cursor : Nat,
            cycle : Nat, index : Nat]
Assemblies == [seq : Sequences0, cycle : Nat, count : Nat, size : Nat,
               chunks : SUBSET Chunks]
Peers == [gen : Generations \cup {NoGeneration}, retired : Seq(Generations),
          seq : Sequences0, held : SUBSET Digests, pending : SUBSET Deltas,
          ckpt : Assemblies, desync : BOOLEAN, need : BOOLEAN,
          offered : SUBSET Digests]

\* Every variable of the reporting protocol keeps its type.
TypeOK ==
    /\ worker \in [Ranks -> Workers]
    /\ collected \subseteq Ranks /\ ready \in BOOLEAN
    /\ startup \in [Ranks -> Seq(Reports)]
    /\ wire \in [Ranks -> Seq(Reports)]
    /\ load \in [Digests -> {"idle", "loading", "failed"}]
    /\ peer \in [Ranks -> Peers]
    /\ meaning \in [Ranks -> [Generations -> [Sequences0 -> SUBSET SUBSET Digests]]]
    /\ served \in [Ranks -> Seq(Generations)]
    /\ streak \in [Ranks -> Nat]

\* _mark_worker_desynchronized, _drain_worker_deltas: a rank with a gap, an
\* overflow or a conflict offers nothing, and a rank never offers an entry
\* outside the inventory the scheduler reconstructed for it.
QuorumSound ==
    \A r \in Ranks : LET p == peer[r] IN
        /\ p.offered \subseteq p.held
        /\ p.pending # {} \/ p.need => p.desync
        /\ p.desync => p.offered = {}

\* No sequence number of generation g of rank r was used for two inventories.
Unambiguous(r, g) ==
    \A n \in Sequences0 : \A S, T \in meaning[r][g][n] : S = T

\* get_kv_connector_stats, "replayed deltas or a complete rolling checkpoint
\* restore them": whatever is lost, repeated or overtaken, the inventory the
\* scheduler holds for a rank is the one that rank had when it used the
\* accepted sequence number.
ExactBelief ==
    \A r \in Ranks : LET p == peer[r] IN
        p.gen # NoGeneration /\ Unambiguous(r, p.gen)
            => p.held \in meaning[r][p.gen][p.seq]

\* A digest with a full quorum was held by every physical rank in the inventory it
\* reported under the sequence the scheduler accepted.
QuorumReported ==
    \A d \in Digests : FullQuorum(d) =>
        \A r \in Ranks : LET p == peer[r] IN
            /\ p.gen # NoGeneration
            /\ Unambiguous(r, p.gen) => \E S \in meaning[r][p.gen][p.seq] : d \in S

\* _has_full_quorum: whatever is lost, repeated or overtaken, a restore is admitted only
\* for an entry that every rank really reported, and a rank in doubt admits none.
AdmissionSound == QuorumSound /\ QuorumReported

\* _accept_worker_generation: a generation the scheduler left is not accepted
\* again before RetiredLimit other generations were retired after it.
NoRevival ==
    \A r \in Ranks : \A i, j \in DOMAIN served[r] :
        i < j /\ served[r][i] = served[r][j] => j - i > RetiredLimit + 1

\* _absorb_worker_delta and _absorb_worker_checkpoint: within a generation the
\* accepted sequence never goes back to an older inventory.
NoRollback ==
    [][\A r \in Ranks : peer'[r].gen = peer[r].gen => peer'[r].seq >= peer[r].seq]_vars

Settled(r) == streak[r] >= SettleTime(Cardinality(worker[r].observed))

\* The rolling checkpoint resynchronizes: when the reports of two complete
\* cycles arrive in order after the last change or disturbance, the scheduler
\* follows the worker's current sequence, unless it retired the generation or
\* took a handshake for a state the worker never reported.
Resynchronized ==
    \A r \in Ranks : LET p == peer[r] IN
        /\ Settled(r)
        /\ worker[r].gen \notin Elements(p.retired)
        /\ p.gen = worker[r].gen => p.seq <= worker[r].seq
        => /\ p.gen = worker[r].gen /\ p.seq = worker[r].seq
           /\ ~p.desync /\ ~p.need /\ p.pending = {}

\* The scheduler follows the worker process that serves: it catches up with it, and does
\* not fall back to one it left (_accept_worker_generation, _absorb_worker_checkpoint).
FollowsWorker == Resynchronized /\ NoRevival
-----------------------------------------------------------------------------
(***************************************************************************)
(* What the documentation says and the code does not do.                   *)
(***************************************************************************)
\* get_handshake_metadata: "Later bounded statistics report entries outside
\* that startup subset."
StartupSubsetCompleted ==
    \A r \in Ranks :
        Settled(r) /\ peer[r].gen = worker[r].gen => worker[r].observed \subseteq peer[r].held

\* _has_full_quorum: "Return whether every physical TP worker already offers
\* this cache entry."
FullQuorumIsOffered ==
    (\A r \in Ranks : Settled(r)) =>
        \A d \in Digests : FullQuorum(d) => \A r \in Ranks : d \in worker[r].held

\* get_num_new_matched_tokens: "the request re-prefills and republishes, which
\* is also how a corrupted entry retires": an entry every rank holds and
\* reports is offered again after a failed restore.
RepublishedIsOffered ==
    (\A r \in Ranks : Settled(r)) =>
        \A d \in Digests :
            (\A r \in Ranks : d \in worker[r].observed /\ d \in peer[r].held) => FullQuorum(d)

\* _accept_worker_generation: "delayed reports cannot replace the serving
\* process generation after one or more worker restarts".
DelayedReportsRejected ==
    \A r \in Ranks : \A i, j \in DOMAIN served[r] : i < j => served[r][i] < served[r][j]
=============================================================================
