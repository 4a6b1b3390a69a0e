--------------------------- MODULE RestoreFlights ---------------------------
(***************************************************************************)
(* Restore admission in the scheduler: one restore flight per cache entry. *)
(*                                                                         *)
(* A waiting request looks up its longest prefix with a full quorum.  The  *)
(* first one leads a flight: vLLM allocates blocks, every rank's loader    *)
(* writes and verifies them, and the request is promoted.  Requests with   *)
(* the same entry, or with a common shorter prefix (the segment), follow   *)
(* the flight and wait for the lease on its verified blocks.               *)
(*                                                                         *)
(* conn is the scheduler side of the connector; its handlers are operators *)
(* on that record.  The rest is vLLM with the repository's patches: the    *)
(* phase and the block table of a request, pinned prefixes, the loaders.   *)
(***************************************************************************)
EXTENDS Integers, FiniteSets, Sequences

CONSTANTS
    Requests, Digests, Ranks, Blocks,
    None,                \* the absent request, entry or record
    Span,                \* Span[d]: length of the prefix named d, in blocks
    Candidates,          \* Candidates[q]: the entries that are prefixes of q
    RowStorage,          \* _storage_mode == "per_token_rows"
    MaxPendingRestores,  \* spark_cache_max_pending_restores
    MaxFollowers,        \* _MAX_RESTORE_FLIGHT_FOLLOWERS
    MaxLeases,           \* _MAX_SHARED_PREFIX_LEASES
    Reported,            \* the quorums that may be complete before the first lookup
    MaxEvents,           \* bound: preemptions and changes of the quorum by worker reports
    MaxLocal             \* bound: blocks of a prefix in vLLM's own cache

ASSUME FlightConstants ==
    /\ IsFiniteSet(Blocks) /\ None \notin Requests \cup Digests
    /\ Span \in [Digests -> Nat \ {0}]
    /\ Candidates \in [Requests -> SUBSET Digests]
    /\ \A q \in Requests : \A d, e \in Candidates[q] : Span[d] = Span[e] => d = e
    /\ \A q \in Requests : Candidates[q] # {} =>
         \E d \in Candidates[q] : \A e \in Candidates[q] : Span[e] <= Span[d]
    /\ \A q, p \in Requests : \A d \in Candidates[q] \cap Candidates[p] :
         {e \in Candidates[p] : Span[e] < Span[d]} \subseteq Candidates[q]
    /\ RowStorage \in BOOLEAN
    /\ MaxPendingRestores \in Nat \ {0} /\ MaxFollowers \in Nat \ {0}
    /\ MaxLeases \in Nat \ {0} /\ Reported \subseteq SUBSET Digests
    /\ MaxEvents \in Nat /\ MaxLocal \in Nat

VARIABLES
    conn,      \* scheduler side of the connector
    quorum,    \* entries with a full quorum
    phase,     \* vLLM state of a request
    table,     \* block table of a request
    pins,      \* vLLM's shared prefix leases, oldest first
    fence,     \* fence[k]: the leader whose lease k awaits the copy fence
    load,      \* load[q]: the latest restore dispatched for q
    errors,    \* per rank: blocks of failed loads not yet collected
    finished,  \* per rank: completed loads not yet collected
    taken,     \* per rank: completed loads collected for the next output
    acks,      \* acks[q]: ranks whose completion of q's load was collected
    bad,       \* requests whose load was reported invalid
    content,   \* history: the entries every rank verified in a block
    preempted, \* requests preempted so far
    reports    \* changes of the quorum so far

vars == <<conn, quorum, phase, table, pins, fence, load, errors, finished,
          taken, acks, bad, content, preempted, reports>>
engine == <<phase, table, pins, fence>>
workers == <<load, errors, finished, taken, acks>>

Longest(S) == CHOOSE d \in S : \A e \in S : Span[e] <= Span[d]
First(s, n) == SubSeq(s, 1, n)
Held(s) == {s[i] : i \in DOMAIN s}
Free == Blocks \ ((UNION {Held(table[q]) : q \in Requests})
                  \cup (UNION {Held(p.blocks) : p \in Held(pins)}))
Outstanding(q) == load[q] # None /\ \E r \in Ranks : load[q].state[r] = "queued"
-----------------------------------------------------------------------------
(***************************************************************************)
(* The connector's handlers, on its scheduler record.                      *)
(***************************************************************************)
NewFlight(q, share) ==
    [leader |-> q, followers |-> {}, blocks |-> {}, dispatched |-> FALSE,
     done |-> FALSE, gone |-> FALSE, share |-> share, segment |-> None,
     lease |-> None, newer |-> {}, aged |-> FALSE]

Live(c) == {d \in Digests : c.flights[d] # None}
Published(c) == {d \in Live(c) : c.flights[d].lease # None}

\* Entries of a map are dropped, or one is set.
Forget(f, S) == [x \in DOMAIN f |-> IF x \in S THEN None ELSE f[x]]
Put(f, x, v) == [y \in DOMAIN f |-> IF y = x THEN v ELSE f[y]]

\* Mutant: the followers of a retired flight keep their bindings.
RetireAlone(c, D) ==
    LET F == D \cap Live(c)
    IN  [c EXCEPT !.flights = Forget(@, F),
                  !.leads = Forget(@, {c.flights[d].leader : d \in F})]

\* _retire_restore_flight, for every entry of D
RetireAll(c, D) ==
    LET F == D \cap Live(c)
    IN  [c EXCEPT !.flights = Forget(@, F),
                  !.leads = Forget(@, {c.flights[d].leader : d \in F}),
                  !.bound = Forget(@, UNION {c.flights[d].followers : d \in F})]

Retire(c, d) == RetireAll(c, {d})

\* _remove_restore_follower: a segment nobody waits for is given up.
RemoveFollower(c, q) ==
    LET b == c.bound[q]
        f == c.flights[b.flight]
        needed == \E p \in Requests \ {q} : c.bound[p] = b
        drop == b.lease = f.segment /\ f.lease = None /\ ~needed
    IN  IF b = None THEN c
        ELSE [c EXCEPT !.bound = Put(@, q, None),
                       !.flights = Put(@, b.flight,
                           IF f = None THEN None
                           ELSE [f EXCEPT !.followers = @ \ {q},
                                          !.segment = IF drop THEN None ELSE @])]

Follow(c, q, d, key) ==
    [c EXCEPT !.flights = Put(@, d, [c.flights[d] EXCEPT !.followers = @ \cup {q}]),
              !.bound = Put(@, q, [flight |-> d, lease |-> key])]

\* _lease_publication_candidates: the segment replaces the whole entry.
LeaseKey(c, d) == IF c.flights[d].segment = None THEN d ELSE c.flights[d].segment

\* get_shared_prefix_lease_to_publish
LeaseToPublish(c, q) ==
    LET d == c.leads[q]
    IN  IF d = None THEN None
        ELSE IF c.flights[d].done /\ ~c.flights[d].gone /\ c.flights[d].lease = None
               THEN LeaseKey(c, d) ELSE None

\* shared_prefix_lease_published, its checks: may the pinned prefix become attachable?
Accepts(c, q, key) ==
    /\ c.leads[q] # None /\ c.flights[c.leads[q]].done
    /\ key = LeaseKey(c, c.leads[q])

\* The flight of d gets the newest lease.
Renew(c, d, key) ==
    LET f == c.flights
    IN  [c EXCEPT !.flights = [e \in Digests |->
            IF e = d THEN [f[e] EXCEPT !.lease = key, !.newer = {}, !.aged = FALSE]
            ELSE IF e \in Published(c)
                   THEN [f[e] EXCEPT !.newer = {x \in Published(c) : x = d \/ x \in f[e].newer} \cup {d}]
            ELSE f[e]]]

\* shared_prefix_lease_published: the oldest leases above the limit retire.
Publish(c, q, key) ==
    LET a == Renew(c, c.leads[q], key)
    IN  RetireAll(a, {e \in Published(a) :
                        Cardinality(a.flights[e].newer \cap Published(a)) >= MaxLeases})

\* shared_prefix_lease_rejected
Reject(c, q, key) ==
    LET a == IF c.bound[q] # None /\ c.bound[q].lease = key THEN RemoveFollower(c, q) ELSE c
    IN  IF a.leads[q] = None THEN a ELSE Retire(a, a.leads[q])

\* _expire_shared_prefix_flights
Expire(c) == RetireAll(c, {d \in Published(c) : c.flights[d].aged})

\* The flights whose lease q may attach: its own entries first.
Attachable(c, q) ==
    LET exact == {d \in Candidates[q] \cap Published(c) : c.flights[d].lease = d}
        keys == {c.flights[d].lease : d \in Published(c)} \cap Candidates[q]
    IN  IF exact # {} THEN {Longest(exact)}
        ELSE {d \in Published(c) : keys # {} /\ c.flights[d].lease = Longest(keys)}

\* get_shared_prefix_lease_candidate: the results [c, key] it may have.
LeaseCandidates(c, q) ==
    LET b == c.bound[q]
        S == Attachable(c, q)
        joins(d) == /\ q # c.flights[d].leader
                    /\ Cardinality(c.flights[d].followers) < MaxFollowers
        nothing == [c |-> c, key |-> None]
    IN  IF b # None
          THEN {IF c.flights[b.flight] # None /\ c.flights[b.flight].lease = b.lease
                  THEN [c |-> c, key |-> b.lease] ELSE nothing}
        ELSE IF S = {} THEN {nothing}
        ELSE {IF joins(d) THEN [c |-> Follow(c, q, d, c.flights[d].lease),
                                key |-> c.flights[d].lease]
              ELSE nothing : d \in S}

\* The flights q may join through a segment, with the segment.
SegmentMatches(c, q, selected) ==
    {m \in (Live(c) \ {selected}) \X Candidates[q] :
        LET f == c.flights[m[1]]
            usable == {e \in f.share \cap Candidates[q] : f.segment \in {None, e}}
        IN  RowStorage /\ ~f.gone /\ ~f.dispatched /\ usable # {} /\ m[2] = Longest(usable)}

\* _join_segment_restore_flight: followers of the whole entry move to the segment.
JoinSegment(c, q, d, k) ==
    LET a == [c EXCEPT !.flights = Put(@, d, [c.flights[d] EXCEPT !.segment = k]),
                       !.bound = [p \in Requests |->
                          IF c.bound[p] # None /\ c.bound[p].flight = d
                            THEN [flight |-> d, lease |-> k]
                          ELSE c.bound[p]]]
    IN  Follow(a, q, d, k)

Backlogged(c, q) ==
    \/ Cardinality(Live(c) \ Published(c)) >= MaxPendingRestores
    \/ c.need[q] = None /\ Cardinality({p \in Requests : c.need[p] # None}) >= MaxPendingRestores

\* A new flight for d led by q.
Lead(c, q, d) ==
    [c EXCEPT !.flights = Put(@, d, NewFlight(q, {e \in Candidates[q] \cap quorum :
                                                    Span[e] < Span[d]})),
              !.leads = Put(@, q, d), !.need = Put(@, q, d)]

Answer(c, a) == [c |-> c, answer |-> a]

\* get_num_new_matched_tokens from the candidate search on.  The answer is an
\* entry to restore, "compute" or "wait"; hit is the scheduler's own probe.
Search(c, q, hit) ==
    LET offered == Candidates[q] \cap quorum
        d == Longest(offered)
        full(e) == Cardinality(c.flights[e].followers) >= MaxFollowers
        matches == SegmentMatches(c, q, d)
        best == {m \in matches : \A n \in matches : Span[n[2]] <= Span[m[2]]}
        lead == IF Backlogged(c, q) \/ ~hit THEN Answer(c, "compute")
                ELSE Answer(Lead(c, q, d), d)
    IN  IF offered = {} THEN {Answer(c, "compute")}
        ELSE IF c.flights[d] # None
               THEN {IF full(d) THEN Answer(c, "compute")
                     ELSE Answer(Follow(c, q, d, LeaseKey(c, d)), "wait")}
        ELSE IF best = {} THEN {lead}
        ELSE {IF full(m[1]) THEN lead
              ELSE Answer(JoinSegment(c, q, m[1], m[2]), "wait") : m \in best}

\* get_num_new_matched_tokens for a request that leads no flight.
Unled(c, q, local, hit) ==
    IF local > 0 THEN {Answer(c, "compute")} ELSE Search(c, q, hit)

\* get_num_new_matched_tokens for a request that follows no flight.
Unbound(c, q, local, hit) ==
    LET d == c.leads[q]
        f == c.flights[d]
        given == Retire([c EXCEPT !.need = Put(@, q, None)], d)
    IN  IF d = None THEN Unled(c, q, local, hit)
        ELSE IF f.done /\ local >= Span[d] THEN {Answer(Retire(c, d), "compute")}
        ELSE IF f.dispatched \/ c.pending[q] # None THEN {Answer(c, "wait")}
        ELSE IF local = 0 /\ d \in quorum THEN {Answer(c, d)}
        ELSE Unled(given, q, local, hit)

\* get_num_new_matched_tokens with local tokens of q in vLLM's own cache.
MatchedTokens(c, q, local, hit) ==
    IF c.bound[q] = None THEN Unbound(c, q, local, hit)
    ELSE IF local > 0 THEN {Answer(RemoveFollower(c, q), "compute")}
    ELSE IF c.flights[c.bound[q].flight] # None THEN {Answer(c, "wait")}
    ELSE Unbound(RemoveFollower(c, q), q, local, hit)

\* update_state_after_alloc without external tokens
AllocatedNone(c, q) ==
    LET a == [c EXCEPT !.need = Put(@, q, None)]
    IN  IF c.need[q] = None THEN c ELSE Retire(a, c.need[q])

\* update_state_after_alloc with external tokens
Allocated(c, q) ==
    IF c.need[q] = None THEN c
    ELSE [c EXCEPT !.need = Put(@, q, None), !.pending = Put(@, q, c.need[q])]

\* request_finished, the flight q leads: it outlives q while a worker may still
\* write, or while its lease lives.
LeaderLeaves(c, q) ==
    LET d == c.leads[q]
        f == c.flights[d]
    IN  IF d = None THEN c
        ELSE IF f.lease # None THEN [c EXCEPT !.leads = Put(@, q, None),
                                            !.flights = Put(@, d, [f EXCEPT !.gone = TRUE])]
        ELSE IF f.dispatched /\ ~f.done THEN [c EXCEPT !.flights = Put(@, d, [f EXCEPT !.gone = TRUE])]
        ELSE Retire(c, d)

\* request_finished
RequestFinished(c, q) ==
    [LeaderLeaves(RemoveFollower(c, q), q) EXCEPT
        !.need = Put(@, q, None), !.pending = Put(@, q, None), !.admitted = Put(@, q, None)]
-----------------------------------------------------------------------------
NoOne == [q \in Requests |-> None]

Init ==
    /\ conn = [flights |-> [d \in Digests |-> None], leads |-> NoOne, bound |-> NoOne,
               need |-> NoOne, pending |-> NoOne, admitted |-> NoOne]
    /\ quorum \in Reported
    /\ phase = [q \in Requests |-> "waiting"]
    /\ table = [q \in Requests |-> <<>>]
    /\ pins = <<>> /\ fence = [k \in Digests |-> None]
    /\ load = NoOne
    /\ errors = [r \in Ranks |-> {}] /\ finished = [r \in Ranks |-> {}]
    /\ taken = [r \in Ranks |-> None] /\ acks = [q \in Requests |-> {}]
    /\ bad = {} /\ content = [b \in Blocks |-> {}]
    /\ preempted = {} /\ reports = 0

\* schedule() ends by sending the loads it allocated (build_connector_meta).
Scheduled == \A q \in Requests : conn.pending[q] = None

\* A step with work has run since the lease key was pinned.  Its output is
\* processed next: steps do not overlap (synchronous scheduling).
Passed(key) ==
    /\ fence[key] # None
    /\ phase[fence[key]] # "ready" \/ \E q \in Requests : phase[q] = "running"

Tables(d) == {First(s, Span[d]) : s \in {f \in [1 .. Span[d] -> Free] :
                                            \A i, j \in DOMAIN f : f[i] = f[j] => i = j}}
Pinned(key) == {p \in Held(pins) : p.key = key}

\* vLLM tries to schedule the waiting request q: it attaches a lease, ...
AttachLease(q) ==
    /\ phase[q] = "waiting"
    /\ UNCHANGED <<quorum, pins, fence, workers, bad, content, preempted, reports>>
    /\ \E a \in LeaseCandidates(Expire(conn), q) :
         \E p \in Pinned(a.key) :
            /\ p.ready
            /\ conn' = a.c
            /\ table' = [table EXCEPT ![q] = p.blocks]
    /\ phase' = [phase EXCEPT ![q] = "ready"]

\* ... or asks for external tokens.  fits: the block pool has room for q.
Lookup(q, local, hit, fits) ==
    /\ phase[q] = "waiting"
    /\ UNCHANGED <<quorum, pins, fence, workers, bad, preempted, reports>>
    /\ \E a \in LeaseCandidates(Expire(conn), q) :
         LET c == IF a.key = None THEN a.c ELSE Reject(a.c, q, a.key)
         IN  /\ \A p \in Pinned(a.key) : ~p.ready
             /\ \E m \in MatchedTokens(c, q, local, hit) :
                  \/ /\ m.answer = "wait" \/ ~fits
                     /\ conn' = m.c /\ UNCHANGED <<phase, table, content>>
                  \/ /\ m.answer = "compute" /\ fits
                     /\ conn' = AllocatedNone(m.c, q)
                     /\ phase' = [phase EXCEPT ![q] = "running"]
                     /\ UNCHANGED <<table, content>>
                  \/ /\ m.answer \in Digests /\ fits
                     /\ \E s \in Tables(m.answer) :
                          /\ table' = [table EXCEPT ![q] = s]
                          /\ content' = [b \in Blocks |-> IF b \in Held(s) THEN {} ELSE content[b]]
                     /\ conn' = Allocated(m.c, q)
                     /\ phase' = [phase EXCEPT ![q] = "parked"]

\* build_connector_meta and start_load_kv: the loads reach every rank.
BuildMeta ==
    LET Q == {q \in Requests : conn.pending[q] # None}
        dispatched(d) == \E q \in Q : conn.pending[q] = d /\ conn.flights[d].leader = q
    IN  /\ Q # {}
        /\ conn' = [conn EXCEPT
              !.pending = NoOne,
              !.admitted = [q \in Requests |->
                  IF q \in Q THEN [digest |-> conn.pending[q], blocks |-> Held(table[q])]
                  ELSE @[q]],
              !.flights = [d \in Digests |->
                  IF @[d] # None /\ dispatched(d)
                    THEN [@[d] EXCEPT !.dispatched = TRUE, !.blocks = Held(table[conn.flights[d].leader])]
                    ELSE @[d]]]
        /\ load' = [q \in Requests |->
              IF q \notin Q THEN load[q]
              ELSE [digest |-> conn.pending[q],
                    segment |-> IF conn.flights[conn.pending[q]] = None THEN None
                                ELSE conn.flights[conn.pending[q]].segment,
                    state |-> [r \in Ranks |-> "queued"]]]
        /\ acks' = [q \in Requests |-> IF q \in Q THEN {} ELSE acks[q]]
        /\ UNCHANGED <<quorum, engine, errors, finished, taken, bad, content, preempted, reports>>

\* The entries that end at or after block b of q's table.
Loaded(q, b) == {d \in {load[q].digest, load[q].segment} \ {None} :
                   b \in Held(First(table[q], Span[d]))}

\* Mutant: the blocks of a failed load are not recorded.
SilentLoad(r, q, verified) ==
    /\ load[q] # None /\ load[q].state[r] = "queued"
    /\ load' = [load EXCEPT ![q].state[r] = IF verified THEN "verified" ELSE "failed"]
    /\ finished' = [finished EXCEPT ![r] = @ \cup {q}]
    /\ content' = IF \E k \in Ranks : load'[q].state[k] # "verified" THEN content
                  ELSE [b \in Blocks |-> IF b \in Held(table[q]) THEN Loaded(q, b) ELSE content[b]]
    /\ UNCHANGED <<conn, quorum, engine, errors, taken, acks, bad, preempted, reports>>

\* _load_worker_main: rank r verifies the blocks and segments, or fails.
LoadOne(r, q, verified) ==
    /\ load[q] # None /\ load[q].state[r] = "queued"
    /\ load' = [load EXCEPT ![q].state[r] = IF verified THEN "verified" ELSE "failed"]
    /\ finished' = [finished EXCEPT ![r] = @ \cup {q}]
    /\ errors' = [errors EXCEPT ![r] = IF verified THEN @ ELSE @ \cup Held(table[q])]
    /\ content' = IF \E k \in Ranks : load'[q].state[k] # "verified" THEN content
                  ELSE [b \in Blocks |-> IF b \in Held(table[q]) THEN Loaded(q, b) ELSE content[b]]
    /\ UNCHANGED <<conn, quorum, engine, taken, acks, bad, preempted, reports>>

\* get_finished: collected before the load errors of the same output.
GetFinished(r) ==
    /\ taken[r] = None
    /\ taken' = [taken EXCEPT ![r] = finished[r]]
    /\ finished' = [finished EXCEPT ![r] = {}]
    /\ UNCHANGED <<conn, quorum, engine, load, errors, acks, bad, content, preempted, reports>>

\* update_connector_output: which entries the invalid blocks retire.
Blamed(invalid) ==
    {conn.admitted[q].digest :
        q \in {p \in Requests : conn.admitted[p] # None /\ conn.admitted[p].blocks \cap invalid # {}}}
    \cup {d \in Live(conn) : conn.flights[d].blocks \cap invalid # {}}

\* Mutant: a flight whose leader ended during the load is never retired.
KeepDrained(c, Q) ==
    LET flights == {c.leads[q] : q \in Q} \ {None}
    IN  [c EXCEPT !.flights = [d \in Digests |->
            IF d \in flights THEN [@[d] EXCEPT !.done = TRUE] ELSE @[d]]]

\* update_connector_output: the completed loads of leaders.
LoadsFinished(c, Q) ==
    LET flights == {c.leads[q] : q \in Q} \ {None}
        drained == {d \in flights : c.flights[d].gone}
    IN  RetireAll([c EXCEPT !.flights = [d \in Digests |->
                      IF d \in flights THEN [@[d] EXCEPT !.done = TRUE] ELSE @[d]]], drained)

\* The output of one engine step reaches the scheduler.
UpdateOutput ==
    LET invalid == UNION {errors[r] : r \in Ranks}
        got(q) == acks[q] \cup {r \in Ranks : q \in taken[r]}
        Q == {q \in Requests : got(q) = Ranks /\ acks[q] # Ranks}
        lost == Blamed(invalid)
        segments == {conn.flights[d].segment : d \in lost \cap Live(conn)}
        retired == [RetireAll(conn, lost) EXCEPT !.admitted =
                      [q \in Requests |-> IF @[q] # None /\ @[q].blocks \cap invalid # {}
                                            THEN None ELSE @[q]]]
    IN  /\ Scheduled /\ \A key \in Digests : ~Passed(key)
        /\ \A r \in Ranks : taken[r] # None
        /\ conn' = LoadsFinished(retired, Q)
        /\ quorum' = quorum \ (lost \cup segments)
        /\ bad' = bad \cup {q \in Requests : phase[q] = "parked" /\ Held(table[q]) \cap invalid # {}}
        /\ phase' = [q \in Requests |-> IF q \notin Q THEN phase[q]
                                        ELSE IF phase[q] = "parked" THEN "loaded" ELSE "done"]
        /\ table' = [q \in Requests |-> IF q \in Q /\ phase[q] # "parked" THEN <<>> ELSE table[q]]
        /\ acks' = [q \in Requests |-> got(q)]
        /\ errors' = [r \in Ranks |-> {}] /\ taken' = [r \in Ranks |-> None]
        /\ UNCHANGED <<pins, fence, load, finished, content, preempted, reports>>


\* The pins without the one of key (an ordered map from keys to pins).
Unpinned(key) ==
    LET at == {i \in DOMAIN pins : pins[i].key = key}
        i == CHOOSE i \in at : TRUE
    IN  IF at = {} THEN pins
        ELSE SubSeq(pins, 1, i - 1) \o SubSeq(pins, i + 1, Len(pins))

\* publish_shared_prefix_lease: a pin of the same key keeps its blocks and is
\* only refreshed; otherwise the oldest pins make room for the new one.
PublishPin(key, q) ==
    LET same == {i \in DOMAIN pins : pins[i].key = key}
        new == [key |-> key, blocks |-> First(table[q], Span[key]), ready |-> FALSE]
    IN  IF same # {} THEN Append(Unpinned(key), pins[CHOOSE i \in same : TRUE])
        ELSE Append(IF Len(pins) >= MaxLeases THEN Tail(pins) ELSE pins, new)

\* _update_waiting_for_remote_kv: a failed request recomputes, a verified one
\* publishes its lease (published) and waits for a slot.
Promote(q, published) ==
    LET key == LeaseToPublish(conn, q)
    IN  /\ Scheduled /\ phase[q] = "loaded"
        /\ bad' = bad \ {q}
        /\ \/ /\ q \in bad
              /\ phase' = [phase EXCEPT ![q] = "waiting"]
              /\ table' = [table EXCEPT ![q] = <<>>]
              /\ UNCHANGED <<conn, pins, fence>>
           \/ /\ q \notin bad /\ key = None
              /\ phase' = [phase EXCEPT ![q] = "ready"]
              /\ UNCHANGED <<conn, pins, fence, table>>
           \/ /\ q \notin bad /\ key # None
              /\ phase' = [phase EXCEPT ![q] = "ready"]
              /\ IF published
                   THEN /\ pins' = PublishPin(key, q)
                        /\ fence' = [fence EXCEPT ![key] = q]
                        /\ UNCHANGED conn
                   ELSE /\ conn' = Reject(conn, q, key)
                        /\ UNCHANGED <<pins, fence>>
              /\ UNCHANGED table
        /\ UNCHANGED <<quorum, workers, content, preempted, reports>>

\* A request with computed tokens gets its slots: update_state_after_alloc, and
\* build_connector_meta forgets the admission of a fully restored new request.
Start(q) ==
    LET c == AllocatedNone(conn, q)
        restored == c.admitted[q] # None /\ c.admitted[q].digest = Longest(Candidates[q])
    IN  /\ phase[q] = "ready"
        /\ conn' = [c EXCEPT !.admitted[q] = IF restored /\ q \notin preempted THEN None ELSE @]
        /\ phase' = [phase EXCEPT ![q] = "running"]
        /\ UNCHANGED <<quorum, table, pins, fence, workers, bad, content, preempted, reports>>

\* _finalize_shared_prefix_leases: a step after the promotion has completed.
Finalize(key) ==
    LET q == fence[key]
        ready == Pinned(key) # {}
        accepted == ready /\ Accepts(conn, q, key)
    IN  /\ Scheduled /\ Passed(key)
        /\ fence' = [fence EXCEPT ![key] = None]
        /\ IF accepted
             THEN /\ conn' = Publish(conn, q, key)
                  /\ \E i \in DOMAIN pins : /\ pins[i].key = key
                                            /\ pins' = [pins EXCEPT ![i].ready = TRUE]
             ELSE /\ conn' = Reject(conn, q, key)
                  /\ pins' = Unpinned(key)
        /\ UNCHANGED <<quorum, phase, table, workers, bad, content, preempted, reports>>

\* expire_shared_prefix_leases, evict_shared_prefix_leases_until_free.
ReleasePin ==
    /\ pins # <<>> /\ pins' = Tail(pins)
    /\ UNCHANGED <<conn, quorum, phase, table, fence, workers, bad, content, preempted, reports>>

\* The time to live of a published lease elapses.
Age(d) ==
    /\ d \in Published(conn) /\ ~conn.flights[d].aged
    /\ conn' = [conn EXCEPT !.flights[d] = [@ EXCEPT !.aged = TRUE]]
    /\ UNCHANGED <<quorum, engine, workers, bad, content, preempted, reports>>

\* vLLM takes the blocks of a running request for another running one.
Preempt(q) ==
    /\ \A key \in Digests : ~Passed(key)
    /\ Scheduled /\ phase[q] = "running" /\ Cardinality(preempted) + reports < MaxEvents
    /\ q \notin preempted /\ \E p \in Requests \ {q} : phase[p] = "running"
    /\ phase' = [phase EXCEPT ![q] = "waiting"]
    /\ table' = [table EXCEPT ![q] = <<>>]
    /\ preempted' = preempted \cup {q}
    /\ UNCHANGED <<conn, quorum, pins, fence, workers, bad, content, reports>>

\* request_finished, normally or aborted.  The blocks of a request that still
\* loads stay allocated until every rank is done (draining).
Finish(q) ==
    LET draining == phase[q] = "parked"
    IN  /\ Scheduled /\ phase[q] \notin {"draining", "done"}
        /\ conn' = RequestFinished(conn, q)
        /\ phase' = [phase EXCEPT ![q] = IF draining THEN "draining" ELSE "done"]
        /\ table' = [table EXCEPT ![q] = IF draining THEN @ ELSE <<>>]
        /\ bad' = bad \ {q}
        /\ UNCHANGED <<quorum, pins, fence, workers, content, preempted, reports>>

\* Worker reports complete or withdraw the quorum of an entry (_absorb_quorum).
Report(d) ==
    /\ Cardinality(preempted) + reports < MaxEvents /\ reports' = reports + 1
    /\ quorum' = IF d \in quorum THEN quorum \ {d} ELSE quorum \cup {d}
    /\ UNCHANGED <<conn, engine, workers, bad, content, preempted>>

Done == \A q \in Requests : phase[q] = "done"

Schedule(q) ==
    \/ AttachLease(q)
    \/ \E local \in 0 .. MaxLocal, hit, fits \in BOOLEAN : Lookup(q, local, hit, fits)
    \/ \E published \in BOOLEAN : Promote(q, published)
    \/ Start(q)

Next ==
    \/ \E q \in Requests : Schedule(q) \/ Preempt(q) \/ Finish(q)
    \/ \E d \in Digests : Finalize(d) \/ Age(d) \/ Report(d)
    \/ BuildMeta \/ UpdateOutput \/ ReleasePin
    \/ \E r \in Ranks : GetFinished(r)
    \/ \E r \in Ranks, q \in Requests, verified \in BOOLEAN : LoadOne(r, q, verified)
    \/ Done /\ UNCHANGED vars

Spec == Init /\ [][Next]_vars

\* vLLM keeps stepping and reconsiders every waiting request, the loader threads work,
\* running requests end, and leases and pins have a time to live.
Serve(q) ==
    \/ phase[q] = "running" /\ Finish(q)
    \/ Start(q)
    \/ \E published \in BOOLEAN : Promote(q, published)
    \/ AttachLease(q)
    \/ \E local \in 0 .. MaxLocal, hit \in BOOLEAN : Lookup(q, local, hit, TRUE)
EngineStep == (\E r \in Ranks : GetFinished(r)) \/ BuildMeta \/ UpdateOutput
LoadWork == \E r \in Ranks, q \in Requests, verified \in BOOLEAN : LoadOne(r, q, verified)
LeaseWork == ReleasePin \/ \E d \in Digests : Finalize(d) \/ Age(d)
Fairness ==
    /\ \A q \in Requests : WF_vars(Serve(q))
    /\ WF_vars(EngineStep) /\ WF_vars(LoadWork) /\ WF_vars(LeaseWork)

FairSpec == Spec /\ Fairness
-----------------------------------------------------------------------------
(***************************************************************************)
(* Properties.                                                             *)
(***************************************************************************)
Optional(S) == S \cup {None}

FlightRecords ==
    [leader : Requests, followers : SUBSET Requests, blocks : SUBSET Blocks,
     dispatched : BOOLEAN, done : BOOLEAN, gone : BOOLEAN, share : SUBSET Digests,
     segment : Optional(Digests), lease : Optional(Digests),
     newer : SUBSET Digests, aged : BOOLEAN]

Bindings == [flight : Digests, lease : Digests]
Admissions == [digest : Digests, blocks : SUBSET Blocks]

Loads == [digest : Digests, segment : Optional(Digests),
          state : [Ranks -> {"queued", "verified", "failed"}]]

\* The absent value is none of the records, and no digest reads as an answer.
ASSUME DistinctValues ==
    /\ None \notin FlightRecords \cup Bindings \cup Admissions \cup Loads
    /\ {"compute", "wait"} \cap Digests = {}

\* Every variable keeps its type.
TypeOK ==
    /\ \A d \in Digests : conn.flights[d] = None \/ conn.flights[d] \in FlightRecords
    /\ conn.leads \in [Requests -> Optional(Digests)]
    /\ conn.need \in [Requests -> Optional(Digests)]
    /\ conn.pending \in [Requests -> Optional(Digests)]
    /\ \A q \in Requests :
         /\ conn.bound[q] \in Optional(Bindings) /\ conn.admitted[q] \in Optional(Admissions)
         /\ load[q] \in Optional(Loads)
         /\ Len(table[q]) <= Cardinality(Blocks) /\ Held(table[q]) \subseteq Blocks
    /\ phase \in [Requests -> {"waiting", "parked", "loaded", "ready", "running", "draining", "done"}]
    /\ quorum \subseteq Digests /\ fence \in [Digests -> Optional(Requests)]
    /\ \A p \in Held(pins) : p.key \in Digests /\ p.ready \in BOOLEAN
                            /\ Held(p.blocks) \subseteq Blocks
    /\ errors \in [Ranks -> SUBSET Blocks] /\ finished \in [Ranks -> SUBSET Requests]
    /\ \A r \in Ranks : taken[r] = None \/ taken[r] \in SUBSET Requests
    /\ acks \in [Requests -> SUBSET Ranks] /\ bad \subseteq Requests
    /\ content \in [Blocks -> SUBSET Digests]

\* A request runs only on blocks that every rank verified for a prefix of its
\* own prompt, and a pin names only blocks verified for its key
\* (verified-or-recompute: a load error is reported no later than its completion).
RunsVerified ==
    /\ \A q \in Requests : phase[q] \in {"ready", "running"} /\ table[q] # <<>> =>
         \E d \in Candidates[q] : /\ Span[d] = Len(table[q])
                                 /\ \A b \in Held(table[q]) : d \in content[b]
    /\ \A p \in Held(pins) : \A b \in Held(p.blocks) : p.key \in content[b]

\* The blocks a restore still writes belong to its request alone: they are in no
\* other table and under no pin, also when the request was aborted meanwhile.
OneWriter ==
    \A q \in Requests : Outstanding(q) =>
        /\ \A p \in Requests \ {q} : Held(table[q]) \cap Held(table[p]) = {}
        /\ \A p \in Held(pins) : Held(table[q]) \cap Held(p.blocks) = {}

\* Blocks are verified before they are used, and no restore writes them meanwhile.
OnlyVerified == RunsVerified /\ OneWriter

\* A follower waits for what its flight will publish or has published, and the
\* flight knows it; leaders and flights name each other until the leader ends.
Linked ==
    /\ \A q \in Requests : conn.bound[q] # None =>
         LET f == conn.flights[conn.bound[q].flight]
         IN  /\ f # None /\ q \in f.followers
             /\ conn.bound[q].lease = IF f.lease # None THEN f.lease
                                      ELSE LeaseKey(conn, conn.bound[q].flight)
    /\ \A d \in Live(conn) :
         /\ \A q \in conn.flights[d].followers :
              conn.bound[q] # None /\ conn.bound[q].flight = d
         /\ ~conn.flights[d].gone => conn.leads[conn.flights[d].leader] = d
    /\ \A q \in Requests : conn.leads[q] # None =>
         conn.flights[conn.leads[q]] # None /\ conn.flights[conn.leads[q]].leader = q

\* A published lease names an entry its flight restored and every rank verified.
LeaseVerified ==
    \A d \in Published(conn) :
        LET f == conn.flights[d]
        IN  f.done /\ f.lease \in {d, load[f.leader].segment}

\* Restores in flight, published leases and waiting followers stay bounded.
Bounded ==
    /\ Cardinality(Live(conn) \ Published(conn)) <= MaxPendingRestores
    /\ Cardinality(Published(conn)) <= MaxLeases /\ Len(pins) <= MaxLeases
    /\ \A d \in Live(conn) : Cardinality(conn.flights[d].followers) <= MaxFollowers

\* While the leader of a finished flight waits, its lease is about to be
\* published: a flight that no pin, fence or running leader can end strands its
\* leader and followers ("no request may continue waiting").
NobodyStranded ==
    \A d \in Live(conn) :
        LET f == conn.flights[d]
        IN  f.done /\ f.lease = None /\ phase[f.leader] = "waiting" =>
                \E k \in Digests : fence[k] = f.leader

\* The tables of flights, leaders, followers and leases agree with each other and
\* with what was loaded and keep their limits; with one pending restore at a time
\* they strand nobody.
Coherent ==
    /\ TypeOK /\ Linked /\ LeaseVerified /\ Bounded
    /\ MaxPendingRestores = 1 => NobodyStranded

\* An output withdraws an entry only when a rank failed a load of it: "retiring every
\* admission would destroy unrelated healthy entries" (connector 6782).
WithdrawsOnlyDamaged ==
    [][reports' = reports =>
         \A d \in quorum \ quorum' : \E q \in Requests, r \in Ranks :
            /\ load[q] # None /\ d \in {load[q].digest, load[q].segment}
            /\ load[q].state[r] = "failed"]_vars

\* Every request is computed or restored and then ends: no chain of flights, leases,
\* preemptions and rejections defers it for ever
\* (get_num_new_matched_tokens, request_finished).
Progress == <>Done
=============================================================================
