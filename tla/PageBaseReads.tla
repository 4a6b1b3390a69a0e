---------------------------- MODULE PageBaseReads ----------------------------
(***************************************************************************)
(* Shared base reads of page-delta restores on one worker.                 *)
(*                                                                         *)
(* Loader threads (lanes) take batches and loads from a queue.  A batch is *)
(* split by the base snapshot its loads need; the loads of one base form a *)
(* flight: one of them reads the base, the others are kept out of the      *)
(* queue (deferred) until the bytes are ready.  Two locks protect the two  *)
(* halves of the state, so every step below is one critical section:       *)
(* flight, current, member, closed belong to PageBaseReadFlights, the rest *)
(* to the connector's _load_lock.                                          *)
(***************************************************************************)
EXTENDS Integers, FiniteSets, Sequences, SequencesExt

CONSTANTS
    N,              \* requests 1 .. N, numbered in plan order
    Keys,           \* base snapshots
    None,           \* nothing
    Lanes,          \* _load_thread_limit loader threads
    Base,           \* Base[q]: the base of q's page delta, or None
    Size,           \* Size[k]: base_encoded_bytes
    MaxFlights,     \* _MAX_PAGE_BASE_READ_FLIGHTS
    MaxMembers,     \* _MAX_PAGE_BASE_READ_MEMBERS
    MaxBytes,       \* max_bytes_per_flight
    MaxBytesTotal,  \* max_bytes_total
    MaxLoads,       \* bound: loads dispatched for one request
    MaxBatches,     \* bound: batches dispatched
    MaxCancels,     \* bound: requests that end while loading
    MayShutDown     \* whether the connector shuts down

Requests == 1 .. N

ASSUME BaseReadConstants ==
    /\ N \in Nat \ {0} /\ IsFiniteSet(Keys) /\ None \notin Keys /\ None \notin Nat
    /\ IsFiniteSet(Lanes) /\ Lanes # {}
    /\ Base \in [Requests -> Keys \cup {None}] /\ Size \in [Keys -> Nat \ {0}]
    /\ MaxFlights \in Nat \ {0} /\ MaxMembers \in Nat \ {0, 1}
    /\ MaxBytes \in Nat \ {0} /\ MaxBytesTotal >= MaxBytes
    /\ MaxLoads \in Nat \ {0} /\ MaxBatches \in Nat /\ MaxCancels \in Nat
    /\ MayShutDown \in BOOLEAN

VARIABLES
    flight,    \* every flight ever created; a thread may outlive its entry
    current,   \* _flights: the flight of a base, by number
    member,    \* _request_keys
    closed,    \* _closed
    queue,     \* _load_queue
    deferred,  \* _deferred_page_base_loads, in insertion order
    planKey,   \* _page_base_plan_keys
    inflight,  \* _inflight_load_reqs
    cancelled, \* _cancelled_load_reqs
    down,      \* progress of shutdown()
    stopped,   \* _load_stops_queued
    lane,      \* local state of a loader thread
    ending,    \* requests between the two critical sections of request_finished
    awaiting,  \* loads dispatched and not yet reported finished
    loads,     \* loads dispatched so far, per request
    batches    \* batches dispatched so far

reads == <<flight, current, member, closed>>
work == <<queue, deferred, planKey, inflight, cancelled, stopped>>
outside == <<down, ending, awaiting, loads, batches>>
vars == <<reads, work, outside, lane>>

Stopping == down > 0
Elements(s) == {s[i] : i \in DOMAIN s}
-----------------------------------------------------------------------------
(***************************************************************************)
(* PageBaseReadFlights                                                     *)
(***************************************************************************)
NewFlight(k) == [key |-> k, state |-> "registered", members |-> {}, cancelled |-> {},
                 leader |-> None, joined |-> 0, result |-> None]

Active == {k \in Keys : current[k] # None}
StateOf(k) == IF current[k] = None THEN None ELSE flight[current[k]].state
Reserved == FoldFunctionOnSet(+, 0, [k \in Keys |-> 2 * Size[k]], Active)

\* Mutant: the last member leaves its flight, and the bytes, behind.
LeaveBehind(f, c, m, Q) ==
    [flight |-> [i \in DOMAIN f |-> [f[i] EXCEPT !.members = @ \ {q \in Q : m[q] # None /\ c[m[q]] = i},
                                                !.cancelled = @ \ {q \in Q : m[q] # None /\ c[m[q]] = i}]],
     current |-> c,
     member |-> [q \in Requests |-> IF q \in Q THEN None ELSE m[q]]]

\* _finish_locked, for every request of Q: the last member releases the bytes.
Finished(f, c, m, Q) ==
    LET own(i) == {q \in Q : m[q] # None /\ c[m[q]] = i}
        empty(i) == own(i) # {} /\ f[i].members \subseteq own(i)
    IN  [flight |-> [i \in DOMAIN f |->
            [f[i] EXCEPT !.members = @ \ own(i), !.cancelled = @ \ own(i),
                         !.result = IF empty(i) THEN None ELSE @]],
         current |-> [k \in Keys |-> IF c[k] # None /\ empty(c[k]) THEN None ELSE c[k]],
         member |-> [q \in Requests |-> IF q \in Q THEN None ELSE m[q]]]

Finish(f, Q) ==
    LET a == Finished(f, current, member, Q)
    IN  flight' = a.flight /\ current' = a.current /\ member' = a.member

\* register_cohort refuses a base that failed, is too large, or has no room.
Refused(k) ==
    \/ closed \/ StateOf(k) = "error"
    \/ current[k] = None /\ \/ Size[k] > MaxBytes
                            \/ Reserved + 2 * Size[k] > MaxBytesTotal
                            \/ Cardinality(Active) >= MaxFlights

\* register_cohort: the members it accepts, in plan order while there is room.
Accepted(k, Q) ==
    LET room == MaxMembers - IF current[k] = None THEN 0 ELSE flight[current[k]].joined
        free == {q \in Q : member[q] = None}
    IN  IF Refused(k) THEN {}
        ELSE {q \in free : Cardinality({p \in free : p < q}) < room}

\* register_cohort: the flight after Q joined it.  The first member leads.
Joined(k, Q) ==
    LET f == IF current[k] = None THEN NewFlight(k) ELSE flight[current[k]]
    IN  [f EXCEPT !.members = @ \cup Q, !.joined = @ + Cardinality(Q),
                  !.leader = IF @ = None THEN CHOOSE q \in Q : \A p \in Q : q <= p ELSE @]

RegisterCohort(k, Q) ==
    IF Q = {} THEN UNCHANGED reads
    ELSE /\ IF current[k] = None
              THEN flight' = Append(flight, Joined(k, Q)) /\ current' = [current EXCEPT ![k] = Len(flight) + 1]
              ELSE flight' = [flight EXCEPT ![current[k]] = Joined(k, Q)] /\ UNCHANGED current
         /\ member' = [q \in Requests |-> IF q \in Q THEN k ELSE member[q]]
         /\ UNCHANGED closed

\* cancel, for every request of Q
CancelReads(Q) ==
    flight' = [i \in DOMAIN flight |->
        [flight[i] EXCEPT !.cancelled = @ \cup {q \in Q : member[q] # None /\ current[member[q]] = i}]]

\* close
Close ==
    LET f == [i \in DOMAIN flight |->
                IF i \in {current[k] : k \in Active} /\ flight[i].state # "error"
                  THEN [flight[i] EXCEPT !.state = "closed"] ELSE flight[i]]
    IN  closed' = TRUE /\ Finish(f, Requests)
-----------------------------------------------------------------------------
Idle == [pc |-> "idle", q |-> None, batch |-> {}, todo |-> {}, keys |-> [q \in Requests |-> None],
         run |-> {}, late |-> {}, key |-> None, ref |-> None, got |-> None, ok |-> FALSE,
         promote |-> FALSE, seen |-> None, then |-> "idle"]

Load(q, poisoned) == [batch |-> {}, q |-> q, poisoned |-> poisoned]
Batch(Q) == [batch |-> Q, q |-> None, poisoned |-> FALSE]
Sentinel == [batch |-> {}, q |-> None, poisoned |-> TRUE]

\* The numbers of Q in increasing order, for requests: in plan order.
Sorted(Q) == [i \in 1 .. Cardinality(Q) |-> CHOOSE q \in Q : Cardinality({p \in Q : p <= q}) = i]
\* The entries of s that are in Q, in their order.
Keep(s, Q) ==
    LET places == {i \in DOMAIN s : s[i] \in Q}
    IN  [i \in 1 .. Cardinality(places) |-> s[Sorted(places)[i]]]
Loads(s, poisoned) == [i \in DOMAIN s |-> Load(s[i], poisoned)]

Init ==
    /\ flight = <<>> /\ current = [k \in Keys |-> None]
    /\ member = [q \in Requests |-> None] /\ closed = FALSE
    /\ queue = <<>> /\ deferred = <<>> /\ planKey = [q \in Requests |-> None]
    /\ inflight = {} /\ cancelled = {} /\ down = 0 /\ stopped = FALSE
    /\ lane = [l \in Lanes |-> Idle]
    /\ ending = {} /\ awaiting = {} /\ loads = [q \in Requests |-> 0] /\ batches = 0

\* start_load_kv: a batch of loads, refused once shutdown has begun.
StartLoad(Q) ==
    /\ batches < MaxBatches /\ batches' = batches + 1
    /\ Q # {} /\ \A q \in Q : q \notin awaiting /\ loads[q] < MaxLoads
    /\ loads' = [q \in Requests |-> IF q \in Q THEN loads[q] + 1 ELSE loads[q]]
    /\ IF Stopping THEN UNCHANGED <<queue, inflight, awaiting>>
       ELSE /\ inflight' = inflight \cup Q
            /\ awaiting' = awaiting \cup Q
            /\ queue' = Append(queue, Batch(Q))
    /\ UNCHANGED <<reads, deferred, planKey, cancelled, stopped, down, ending, lane>>

\* _load_worker_main: the next item of the queue.
Take(l) ==
    LET item == Head(queue)
    IN  /\ lane[l].pc = "idle" /\ queue # <<>>
        /\ queue' = Tail(queue)
        /\ lane' = [lane EXCEPT ![l] =
              IF item = Sentinel THEN [Idle EXCEPT !.pc = "exited"]
              ELSE IF item.q = None THEN [Idle EXCEPT !.pc = "prepare", !.batch = item.batch]
              ELSE [Idle EXCEPT !.pc = "load", !.q = item.q, !.ok = ~item.poisoned]]
        /\ UNCHANGED <<reads, deferred, planKey, inflight, cancelled, stopped, outside>>

\* _prepare_queued_load_batch: ended requests go straight to the queue; the rest
\* is grouped by base (E: the loads whose metadata could be read), or all fail.
Prepare(l, E, raises) ==
    LET ended == lane[l].batch \cap cancelled
        rest == lane[l].batch \ cancelled
    IN  /\ lane[l].pc = "prepare" /\ E \subseteq rest /\ \A q \in E : Base[q] # None
        /\ IF raises \/ rest = {}
             THEN /\ E = {}
                  /\ queue' = queue \o Loads(Sorted(ended), FALSE) \o Loads(Sorted(rest), TRUE)
                  /\ lane' = [lane EXCEPT ![l] = Idle]
             ELSE /\ queue' = queue \o Loads(Sorted(ended), FALSE)
                  /\ lane' = [lane EXCEPT ![l] = [@ EXCEPT !.pc = "register", !.batch = rest,
                        !.todo = {Base[q] : q \in E},
                        !.keys = [q \in Requests |-> IF q \in E THEN Base[q] ELSE None]]]
        /\ UNCHANGED <<reads, deferred, planKey, inflight, cancelled, stopped, outside>>

\* _prepare_page_base_read_cohorts: the loads of one base register; who need not
\* wait for the base runs first.
Register(l, k) ==
    LET L == lane[l]
        Q == {q \in Requests : L.keys[q] = k}
        A == Accepted(k, Q)
        f == Joined(k, A)
        first == IF A = {} THEN {}
                 ELSE IF f.state \in {"ready", "error"} THEN A
                 ELSE IF f.state = "registered" THEN A \cap {f.leader} ELSE {}
    IN  /\ L.pc = "register" /\ k \in L.todo
        /\ RegisterCohort(k, A)
        /\ lane' = [lane EXCEPT ![l] = [L EXCEPT
              !.todo = @ \ {k}, !.run = @ \cup first, !.late = @ \cup (A \ first),
              !.keys = [q \in Requests |-> IF q \in Q \ A THEN None ELSE L.keys[q]]]]
        /\ UNCHANGED <<work, outside>>

\* _prepare_queued_load_batch: followers are set aside before anybody runs.
Defer(l) ==
    LET L == lane[l]
    IN  /\ L.pc = "register" /\ L.todo = {}
        /\ planKey' = [q \in Requests |-> IF L.keys[q] # None THEN L.keys[q] ELSE planKey[q]]
        /\ deferred' = Keep(deferred, Requests \ L.late) \o Sorted(L.late)
        /\ lane' = [lane EXCEPT ![l] = [L EXCEPT !.pc = "hand", !.todo = L.batch \cap cancelled]]
        /\ UNCHANGED <<reads, queue, inflight, cancelled, stopped, outside>>

\* ... then ended members are cancelled and the others handed to the lanes:
\* readers first, loads without a shared base last.
Hand(l) ==
    LET L == lane[l]
        alone == {q \in L.batch : L.keys[q] = None}
    IN  /\ L.pc = "hand"
        /\ CancelReads(L.todo)
        /\ queue' = queue \o Loads(Sorted(L.run), FALSE) \o Loads(Sorted(alone), FALSE)
        /\ lane' = [lane EXCEPT ![l] = [Idle EXCEPT !.pc = "release", !.promote = L.todo # {},
                        !.todo = {L.keys[q] : q \in Requests} \ {None}]]
        /\ UNCHANGED <<current, member, closed, deferred, planKey, inflight, cancelled, stopped, outside>>

\* _release_page_base_deferred: the state of the flight is read first, ...
ReadState(l, k) ==
    /\ lane[l].pc = "release" /\ k \in lane[l].todo
    /\ lane' = [lane EXCEPT ![l] = [lane[l] EXCEPT !.pc = "select", !.todo = @ \ {k}, !.key = k,
                                                   !.seen = StateOf(k)]]
    /\ UNCHANGED <<reads, work, outside>>

\* Mutant: released followers stay in the deferred table.
KeepsDeferred(l) ==
    LET L == lane[l]
        matching == Keep(deferred, {q \in Requests : planKey[q] = L.key})
        chosen == IF L.seen \in {None, "ready", "error"} THEN matching ELSE <<>>
    IN  /\ L.pc = "select"
        /\ queue' = queue \o Loads(chosen, L.seen = None)
        /\ lane' = [lane EXCEPT ![l] = [@ EXCEPT !.pc = "release", !.key = None, !.seen = None]]
        /\ UNCHANGED <<reads, deferred, planKey, inflight, cancelled, stopped, outside>>

\* ... and the loads to queue are chosen afterwards, under the other lock.
Select(l) ==
    LET L == lane[l]
        matching == Keep(deferred, {q \in Requests : planKey[q] = L.key})
        chosen == IF L.seen \in {None, "ready", "error"} THEN matching
                  ELSE IF L.seen = "registered" /\ L.promote /\ matching # <<>> THEN <<Head(matching)>>
                  ELSE <<>>
    IN  /\ L.pc = "select"
        /\ deferred' = Keep(deferred, Requests \ Elements(chosen))
        /\ queue' = queue \o Loads(chosen, L.seen = None)
        /\ lane' = [lane EXCEPT ![l] = [@ EXCEPT !.pc = "release", !.key = None, !.seen = None]]
        /\ UNCHANGED <<reads, planKey, inflight, cancelled, stopped, outside>>

Released(l) ==
    /\ lane[l].pc = "release" /\ lane[l].todo = {}
    /\ lane' = [lane EXCEPT ![l] = IF lane[l].then = "idle" THEN Idle
                   ELSE [lane[l] EXCEPT !.pc = lane[l].then, !.promote = FALSE, !.then = "idle"]]
    /\ UNCHANGED <<reads, work, outside>>

\* The base of key has been sought: release the followers, then report.
Sought(L, key, got) == [Idle EXCEPT !.pc = "release", !.q = L.q, !.ok = got # None, !.got = got,
                                    !.todo = {key}, !.then = "publish"]

\* _load_worker_main and _load_one: the load fails, needs no base (key = None), or
\* seeks the base key, which need not be the one found when it registered.
LoadOne(l, key, fails) ==
    LET L == lane[l]
    IN  /\ L.pc = "load"
        /\ (~L.ok \/ L.q \in cancelled) => fails
        /\ fails => key = None
        /\ lane' = [lane EXCEPT ![l] = IF key = None THEN [L EXCEPT !.pc = "publish", !.ok = ~fails]
                                       ELSE [L EXCEPT !.pc = "resolve", !.key = key]]
        /\ UNCHANGED <<reads, work, outside>>

\* resolve, first critical section.
Resolve(l) ==
    LET L == lane[l]
        k == L.key
        i == current[k]
        mine == member[L.q] = k /\ i # None /\ L.q \in flight[i].members
    IN  /\ L.pc = "resolve"
        /\ \/ /\ closed \/ (mine /\ L.q \in flight[i].cancelled)
              /\ Finish(flight, {L.q})
              /\ lane' = [lane EXCEPT ![l] = Sought(L, k, None)]
           \/ /\ ~closed /\ ~mine
              /\ Finish(flight, {L.q})
              /\ \E got \in {k, None} : lane' = [lane EXCEPT ![l] = Sought(L, k, got)]
           \/ /\ ~closed /\ mine /\ L.q \notin flight[i].cancelled /\ flight[i].state = "registered"
              /\ flight' = [flight EXCEPT ![i].state = "reading"]
              /\ lane' = [lane EXCEPT ![l] = [L EXCEPT !.pc = "reading", !.ref = i]]
              /\ UNCHANGED <<current, member>>
           \/ /\ ~closed /\ mine /\ L.q \notin flight[i].cancelled /\ flight[i].state # "registered"
              /\ lane' = [lane EXCEPT ![l] = [L EXCEPT !.pc = "waiting", !.ref = i]]
              /\ UNCHANGED <<flight, current, member>>
        /\ UNCHANGED <<closed, work, outside>>

\* resolve, the reader: the result is published if the flight still exists.
Read(l, good) ==
    LET L == lane[l]
        i == L.ref
        f == [flight EXCEPT ![i] = IF current[L.key] # i THEN @
                                   ELSE IF good THEN [@ EXCEPT !.state = "ready", !.result = L.key]
                                   ELSE [@ EXCEPT !.state = "error"]]
        lost == L.q \in flight[i].cancelled \/ closed
    IN  /\ L.pc = "reading"
        /\ Finish(f, {L.q})
        /\ lane' = [lane EXCEPT ![l] = Sought(L, L.key, IF lost THEN None ELSE f[i].result)]
        /\ UNCHANGED <<closed, work, outside>>

\* resolve, a follower.
Wake(l) ==
    LET L == lane[l]
        f == flight[L.ref]
        lost == L.q \in f.cancelled \/ closed
    IN  /\ L.pc = "waiting" /\ (lost \/ f.state \in {"ready", "error"})
        /\ Finish(flight, {L.q})
        /\ lane' = [lane EXCEPT ![l] = Sought(L, L.key, IF lost \/ f.state = "error" THEN None ELSE f.result)]
        /\ UNCHANGED <<closed, work, outside>>

\* _load_worker_main: the load is reported finished, verified or not.
Publish(l, verified) ==
    LET L == lane[l]
    IN  /\ L.pc = "publish" /\ (verified => L.ok)
        /\ awaiting' = awaiting \ {L.q}
        /\ lane' = [lane EXCEPT ![l] = [Idle EXCEPT !.pc = "leave", !.q = L.q]]
        /\ UNCHANGED <<reads, work, down, ending, loads, batches>>

\* _load_worker_main, finally: the request leaves its flight, ...
Leave(l) ==
    LET q == lane[l].q
    IN  /\ lane[l].pc = "leave"
        /\ Finish(flight, {q})
        /\ lane' = [lane EXCEPT ![l] = [Idle EXCEPT !.pc = "release", !.q = q, !.promote = TRUE,
                        !.todo = {planKey[q]} \ {None}, !.then = "cleanup"]]
        /\ UNCHANGED <<closed, work, outside>>

\* Mutant: one sentinel for all loader threads.
OneSentinel == <<Sentinel>>

Sentinels == [i \in 1 .. Cardinality(Lanes) |-> Sentinel]

\* _stop_idle_loaders_locked
StopIdle(still) ==
    LET stops == Stopping /\ ~stopped /\ still = {}
    IN  /\ stopped' = (stopped \/ stops)
        /\ queue' = IF stops THEN queue \o Sentinels ELSE queue

\* ... and the connector forgets it.
Cleanup(l) ==
    LET q == lane[l].q
    IN  /\ lane[l].pc = "cleanup"
        /\ planKey' = [planKey EXCEPT ![q] = None]
        /\ inflight' = inflight \ {q}
        /\ cancelled' = cancelled \ {q}
        /\ StopIdle(inflight')
        /\ lane' = [lane EXCEPT ![l] = Idle]
        /\ UNCHANGED <<reads, deferred, outside>>

\* request_finished while the load is in flight: two critical sections.
RequestFinished(q) ==
    /\ q \in inflight /\ q \notin ending \cup cancelled /\ Cardinality(cancelled \cup ending) < MaxCancels
    /\ cancelled' = cancelled \cup {q} /\ ending' = ending \cup {q}
    /\ UNCHANGED <<reads, queue, deferred, planKey, inflight, stopped, down, awaiting, loads, batches, lane>>

CancelRead(q) ==
    /\ q \in ending /\ ending' = ending \ {q}
    /\ CancelReads({q})
    /\ UNCHANGED <<current, member, closed, work, down, awaiting, loads, batches, lane>>

\* shutdown: no new loads, no more shared reads, no deferred loads, then stop.
ShutDown ==
    /\ MayShutDown /\ down < 4 /\ down' = down + 1
    /\ \/ down = 0 /\ UNCHANGED <<reads, queue, deferred, stopped>>
       \/ down = 1 /\ Close /\ UNCHANGED <<queue, deferred, stopped>>
       \/ /\ down = 2 /\ deferred' = <<>>
          /\ queue' = queue \o Loads(deferred, FALSE)
          /\ UNCHANGED <<reads, stopped>>
       \/ down = 3 /\ StopIdle(inflight) /\ UNCHANGED <<reads, deferred>>
    /\ UNCHANGED <<planKey, inflight, cancelled, ending, awaiting, loads, batches, lane>>

Step(l) ==
    \/ Take(l) \/ Defer(l) \/ Hand(l) \/ Select(l) \/ Released(l)
    \/ Resolve(l) \/ Wake(l) \/ Leave(l) \/ Cleanup(l)
    \/ \E E \in SUBSET Requests, raises \in BOOLEAN : Prepare(l, E, raises)
    \/ \E k \in Keys : Register(l, k) \/ ReadState(l, k)
    \/ \E key \in Keys \cup {None}, fails \in BOOLEAN : LoadOne(l, key, fails)
    \/ \E good \in BOOLEAN : Read(l, good) \/ Publish(l, good)

Next ==
    \/ \E Q \in SUBSET Requests : StartLoad(Q)
    \/ \E l \in Lanes : Step(l)
    \/ \E q \in Requests : RequestFinished(q) \/ CancelRead(q)
    \/ ShutDown

Spec == Init /\ [][Next]_vars

\* Loader threads run, and what was begun elsewhere is completed.
Fairness ==
    /\ \A l \in Lanes : WF_vars(Step(l))
    /\ \A q \in Requests : WF_vars(CancelRead(q))
    /\ WF_vars(down > 0 /\ ShutDown)

FairSpec == Spec /\ Fairness
-----------------------------------------------------------------------------
(***************************************************************************)
(* Properties.                                                             *)
(***************************************************************************)
Optional(S) == S \cup {None}

\* Every variable keeps its type.
TypeOK ==
    /\ \A i \in DOMAIN flight :
         flight[i] \in [key : Keys,
                        state : {"registered", "reading", "ready", "error", "closed"},
                        members : SUBSET Requests, cancelled : SUBSET Requests,
                        leader : Requests, joined : 0 .. MaxMembers, result : Optional(Keys)]
    /\ current \in [Keys -> Optional(DOMAIN flight)]
    /\ member \in [Requests -> Optional(Keys)] /\ planKey \in [Requests -> Optional(Keys)]
    /\ Elements(deferred) \subseteq Requests
    /\ inflight \subseteq Requests /\ cancelled \subseteq Requests
    /\ closed \in BOOLEAN /\ stopped \in BOOLEAN /\ down \in 0 .. 4
    /\ \A l \in Lanes : /\ lane[l].q \in Optional(Requests) /\ lane[l].ref \in Optional(DOMAIN flight)
                        /\ lane[l].key \in Optional(Keys)

\* Bytes are kept only for registered members, and the two tables of the
\* coordinator agree: "retain data [not] after every registered member has
\* acquired or abandoned the result".
NothingRetained ==
    /\ \A k \in Active : flight[current[k]].members # {}
    /\ \A i \in DOMAIN flight : flight[i].result # None => \E k \in Keys : current[k] = i
    /\ \A q \in Requests, k \in Keys :
         member[q] = k <=> current[k] # None /\ q \in flight[current[k]].members

\* A load goes on with the base it seeks, completely read, or with none.
OnlyAuthenticBase ==
    \A l \in Lanes : lane[l].got # None =>
        lane[l].got \in Keys /\ lane[l].todo \cup {lane[l].key} \subseteq {lane[l].got, None}

\* Where an unfinished load can be.
Queued(q) == Cardinality({i \in DOMAIN queue : queue[i].q = q \/ q \in queue[i].batch})
SetAside(q) == Cardinality({i \in DOMAIN deferred : deferred[i] = q})
Holding(l) ==
    LET L == lane[l]
    IN  IF L.pc \in {"prepare", "register"} THEN L.batch
        ELSE IF L.pc = "hand" THEN L.run \cup {q \in L.batch : L.keys[q] = None}
        ELSE IF L.pc \in {"load", "resolve", "reading", "waiting", "publish"} \/ L.then = "publish"
               THEN {L.q} ELSE {}

\* Every unfinished load is in exactly one place: no load is lost between the
\* queue, the deferred table and the lanes, and none is run twice.  It goes on with
\* the base it seeks, completely read, or with none.
OneOwner ==
    /\ TypeOK /\ OnlyAuthenticBase
    /\ \A q \in Requests :
         Queued(q) + SetAside(q) + Cardinality({l \in Lanes : q \in Holding(l)})
             = IF q \in awaiting THEN 1 ELSE 0

\* Quiescence is not announced early: an unfinished load is in flight, so that
\* the cache root can be removed "only after no loader can recreate or reopen
\* its metadata".
QuiescentWhenDone == awaiting \subseteq inflight

\* "An allocated external hit must receive a completion."
Completes == \A q \in Requests : q \in awaiting ~> q \notin awaiting

\* A loader thread that waits: on the empty queue, or as a follower whose flight
\* is still being read.
Blocked(l) ==
    \/ lane[l].pc = "idle" /\ queue = <<>>
    \/ /\ lane[l].pc = "waiting" /\ flight[lane[l].ref].state \notin {"ready", "error"}
       /\ lane[l].q \notin flight[lane[l].ref].cancelled /\ ~closed

\* _stop_idle_loaders_locked: after shutdown() no loader thread is left waiting.
\* When every remaining thread waits, nobody can queue a sentinel any more, so
\* all of them must have exited ("Tests and shutdown can therefore remove the
\* cache root only after no loader can recreate or reopen its metadata").
LoadersExit ==
    (down = 4 /\ \A l \in Lanes : lane[l].pc = "exited" \/ Blocked(l))
        => \A l \in Lanes : lane[l].pc = "exited"
=============================================================================
