----------------------------- MODULE BlockLeases -----------------------------
(***************************************************************************)
(* BlockLeaseRegistry (streaming/block_lease.py): the bounded registry of  *)
(* KV blocks that asynchronous gathers read.  Its methods may run in any   *)
(* thread.  A critical section under _lock is one step; fences are queried *)
(* and synchronized between critical sections, so other threads and the    *)
(* GPU take steps in between.                                              *)
(***************************************************************************)
EXTENDS Naturals, FiniteSets

CONSTANTS
    Threads, Requests, Blocks,
    Free,       \* "no holder", for the specification this one implements
    MaxLeases,  \* max_active_leases
    MaxBlocks,  \* max_leased_blocks
    MaxIds      \* bound: reservations

ASSUME LeaseConstants ==
    /\ MaxLeases \in Nat \ {0} /\ MaxBlocks \in Nat \ {0} /\ MaxIds \in Nat
    /\ Free \notin Requests

VARIABLES
    lease,      \* every lease ever created: its request, its blocks and its state
    byRequest,  \* _by_request
    owner,      \* _block_owner; 0 for a block without one
    nextId,     \* _next_id
    reading,    \* leases whose gather still reads their blocks (GPU)
    thread,     \* the call each thread is in
    ended,      \* requests that finished: the connector offers nothing for them
    freed       \* ended requests that take_finished() has reported

registry == <<lease, byRequest, owner, nextId>>
vars == <<registry, reading, thread, ended, freed>>

Ids == 1 .. MaxIds

Active == {i \in Ids : lease[i].state \in {"reserved", "armed", "unknown"}}
In(state) == {i \in Ids : lease[i].state = state}
Owned == {b \in Blocks : owner[b] # 0}

Idle == [pc |-> "idle", todo |-> {}, done |-> {}, wait |-> FALSE, scope |-> {},
         rest |-> {}, take |-> FALSE]

Init ==
    /\ lease \in [Ids -> {[state |-> "unused", req |-> Free, blocks |-> {}]}]
    /\ byRequest = [r \in Requests |-> {}]
    /\ owner = [b \in Blocks |-> 0]
    /\ nextId = 1
    /\ reading = {}
    /\ thread = [t \in Threads |-> Idle]
    /\ ended = {} /\ freed = {}

-----------------------------------------------------------------------------
\* Mutant: the blocks of a lease stay owned.
ReleaseKeepingOwner(S) ==
    /\ lease' = [i \in Ids |-> IF i \in S THEN [lease[i] EXCEPT !.state = "released"]
                                          ELSE lease[i]]
    /\ byRequest' = [r \in Requests |-> byRequest[r] \ S]
    /\ owner' = owner

\* _release_locked, for every lease of S.
Release(S) ==
    /\ lease' = [i \in Ids |-> IF i \in S THEN [lease[i] EXCEPT !.state = "released"]
                                          ELSE lease[i]]
    /\ byRequest' = [r \in Requests |-> byRequest[r] \ S]
    /\ owner' = [b \in Blocks |-> IF \E i \in S : b \in lease[i].blocks THEN 0
                                                                        ELSE owner[b]]

\* try_reserve: capacity pressure or an overlap is a refusal, never a wait.
TryReserve(r, B) ==
    /\ r \notin ended
    /\ B # {} /\ nextId \in Ids
    /\ Cardinality(Active) < MaxLeases
    /\ Cardinality(Owned) + Cardinality(B) <= MaxBlocks
    /\ \A b \in B : owner[b] = 0
    /\ lease' = [lease EXCEPT ![nextId] = [state |-> "reserved", req |-> r, blocks |-> B]]
    /\ byRequest' = [byRequest EXCEPT ![r] = @ \cup {nextId}]
    /\ owner' = [b \in Blocks |-> IF b \in B THEN nextId ELSE owner[b]]
    /\ nextId' = nextId + 1
    /\ UNCHANGED <<reading, thread, ended, freed>>

\* LeaseHandle.submit: the gather is enqueued and its fence published under the
\* lock.  A submitter that raises may or may not have enqueued it.
Submit(i, raises, enqueued) ==
    /\ lease[i].state = "reserved"
    /\ ~raises => enqueued
    /\ lease' = [lease EXCEPT ![i].state = IF raises THEN "unknown" ELSE "armed"]
    /\ reading' = IF enqueued THEN reading \cup {i} ELSE reading
    /\ UNCHANGED <<byRequest, owner, nextId, thread, ended, freed>>

\* Mutant: a submitted lease can be cancelled.
CancelAny(i) ==
    /\ i \in Active
    /\ Release({i})
    /\ UNCHANGED <<nextId, reading, thread, ended, freed>>

\* LeaseHandle.cancel_before_submit
CancelBeforeSubmit(i) ==
    /\ lease[i].state = "reserved"
    /\ Release({i})
    /\ UNCHANGED <<nextId, reading, thread, ended, freed>>

\* The GPU finishes a gather.
GatherCompletes(i) ==
    /\ i \in reading /\ reading' = reading \ {i}
    /\ UNCHANGED <<registry, thread, ended, freed>>

-----------------------------------------------------------------------------
(* poll() and take_finished(). *)

\* poll: the armed leases are listed under the lock; "take" when take_finished
\* called it.
Poll(t, take) ==
    /\ thread[t].pc = "idle"
    /\ thread' = [thread EXCEPT ![t] = [Idle EXCEPT !.pc = "poll", !.todo = In("armed"),
                                                    !.take = take]]
    /\ UNCHANGED <<registry, reading, ended, freed>>

\* Mutant: every lease asked about counts as complete.
AskTrusting(t, i) ==
    /\ i \in thread[t].todo
    /\ thread[t].pc = "poll" \/ (thread[t].pc = "abort" /\ ~thread[t].wait)
    /\ thread' = [thread EXCEPT ![t].todo = @ \ {i}, ![t].done = @ \cup {i}]
    /\ UNCHANGED <<registry, reading, ended, freed>>

\* Without the lock: fence.query() of one lease.
Ask(t, i) ==
    /\ i \in thread[t].todo
    /\ thread[t].pc = "poll" \/ (thread[t].pc = "abort" /\ ~thread[t].wait)
    /\ thread' = [thread EXCEPT ![t].todo = @ \ {i},
                                ![t].done = IF i \in reading THEN @ ELSE @ \cup {i}]
    /\ UNCHANGED <<registry, reading, ended, freed>>

\* fence.query() or fence.synchronize() raises: LeaseFenceError, nothing is
\* released by this call any more.
FenceFails(t) ==
    /\ thread[t].pc \in {"poll", "abort"} /\ thread[t].todo # {}
    /\ thread' = [thread EXCEPT ![t] = Idle]
    /\ UNCHANGED <<registry, reading, ended, freed>>

\* The second critical section of poll.
PollReleases(t) ==
    /\ thread[t].pc = "poll" /\ thread[t].todo = {}
    /\ Release(thread[t].done \cap Active)
    /\ thread' = [thread EXCEPT ![t] = IF thread[t].take THEN [Idle EXCEPT !.pc = "take"]
                                                          ELSE Idle]
    /\ UNCHANGED <<nextId, reading, ended, freed>>

\* Mutant: requests that still have leases are reported.
TakeAll(t) ==
    /\ thread[t].pc = "take"
    /\ freed' = ended
    /\ thread' = [thread EXCEPT ![t] = Idle]
    /\ UNCHANGED <<registry, reading, ended>>

\* take_finished: of the ended requests, those without a lease.
TakeFinished(t) ==
    /\ thread[t].pc = "take"
    /\ freed' = freed \cup {r \in ended : byRequest[r] = {}}
    /\ thread' = [thread EXCEPT ![t] = Idle]
    /\ UNCHANGED <<registry, reading, ended>>

RequestEnds(r) ==
    /\ r \notin ended /\ ended' = ended \cup {r}
    /\ UNCHANGED <<registry, reading, thread, freed>>

-----------------------------------------------------------------------------
(* abort_request() and abort_all(). *)

\* The first critical section of abort_request: reserved leases go, a lease of
\* unknown submission raises, and armed ones are left to be drained.
StartAbort(t, r, wait, scope, rest) ==
    LET mine == byRequest[r]
        unknown == mine \cap In("unknown")
    IN  /\ Release(mine \cap In("reserved"))
        /\ thread' = [thread EXCEPT ![t] =
              IF unknown # {} THEN Idle
              ELSE [Idle EXCEPT !.pc = "abort", !.todo = mine \cap In("armed"),
                                !.wait = wait, !.scope = scope \cup mine, !.rest = rest]]
        /\ UNCHANGED <<nextId, reading, ended, freed>>

AbortRequest(t, r, wait) ==
    /\ thread[t].pc = "idle"
    /\ StartAbort(t, r, wait, {}, {})

\* abort_all: the requests with leases are listed under the lock ...
AbortAll(t) ==
    /\ thread[t].pc = "idle"
    /\ thread' = [thread EXCEPT ![t] =
          [Idle EXCEPT !.pc = "next", !.wait = TRUE,
                       !.rest = {r \in Requests : byRequest[r] # {}}]]
    /\ UNCHANGED <<registry, reading, ended, freed>>

\* ... and aborted one after the other.
AbortNext(t) ==
    /\ thread[t].pc = "next"
    /\ \/ \E r \in thread[t].rest :
            StartAbort(t, r, TRUE, thread[t].scope, thread[t].rest \ {r})
       \/ /\ thread[t].rest = {}
          /\ thread' = [thread EXCEPT ![t].pc = "returned"]
          /\ UNCHANGED <<registry, reading, ended, freed>>

\* fence.synchronize(): returns when the gather is complete.
Synchronize(t, i) ==
    /\ thread[t].pc = "abort" /\ thread[t].wait /\ i \in thread[t].todo
    /\ i \notin reading
    /\ thread' = [thread EXCEPT ![t].todo = @ \ {i}, ![t].done = @ \cup {i}]
    /\ UNCHANGED <<registry, reading, ended, freed>>

\* The last critical section.
AbortReleases(t) ==
    /\ thread[t].pc = "abort" /\ thread[t].todo = {}
    /\ Release(thread[t].done \cap Active)
    /\ thread' = [thread EXCEPT ![t].pc = IF thread[t].rest = {} THEN "returned" ELSE "next",
                                ![t].done = {}]
    /\ UNCHANGED <<nextId, reading, ended, freed>>

Return(t) ==
    /\ thread[t].pc = "returned"
    /\ thread' = [thread EXCEPT ![t] = Idle]
    /\ UNCHANGED <<registry, reading, ended, freed>>

-----------------------------------------------------------------------------
Next ==
    \/ \E r \in Requests, B \in SUBSET Blocks : TryReserve(r, B)
    \/ \E i \in Ids, raises, enqueued \in BOOLEAN : Submit(i, raises, enqueued)
    \/ \E i \in Ids : CancelBeforeSubmit(i) \/ GatherCompletes(i)
    \/ \E r \in Requests : RequestEnds(r)
    \/ \E t \in Threads :
         \/ \E take \in BOOLEAN : Poll(t, take)
         \/ \E i \in Ids : Ask(t, i) \/ Synchronize(t, i)
         \/ FenceFails(t) \/ PollReleases(t) \/ TakeFinished(t)
         \/ \E r \in Requests, wait \in BOOLEAN : AbortRequest(t, r, wait)
         \/ AbortAll(t) \/ AbortNext(t) \/ AbortReleases(t) \/ Return(t)

Spec == Init /\ [][Next]_vars

-----------------------------------------------------------------------------
(* Properties. *)

States == {"unused", "reserved", "armed", "unknown", "released"}
Calls == [pc : {"idle", "poll", "take", "abort", "next", "returned"}, todo : SUBSET Ids,
          done : SUBSET Ids, wait : BOOLEAN, scope : SUBSET Ids,
          rest : SUBSET Requests, take : BOOLEAN]

\* Every variable keeps its type; outside the lock no lease is seen half submitted
\* (_submit: SUBMITTING becomes ARMED or SUBMISSION_UNKNOWN before the unlock).
TypeOK ==
    /\ lease \in [Ids -> [state : States, req : Requests \cup {Free}, blocks : SUBSET Blocks]]
    /\ byRequest \in [Requests -> SUBSET Ids]
    /\ owner \in [Blocks -> Nat]
    /\ nextId \in Nat \ {0}
    /\ reading \subseteq Ids
    /\ thread \in [Threads -> Calls]
    /\ ended \subseteq Requests /\ freed \subseteq Requests

\* The two indexes say exactly what the leases say: _release_locked never meets a
\* block of another lease ("block lease ownership corrupted"), and no block is
\* leased twice.
Indexed ==
    /\ \A r \in Requests : byRequest[r] = {i \in Active : lease[i].req = r}
    /\ \A b \in Blocks : \A i \in Ids :
         owner[b] = i <=> i \in Active /\ b \in lease[i].blocks
    /\ \A b \in Blocks : owner[b] = 0 \/ owner[b] \in Ids

\* The registry is in order whenever its lock is free.
Registry == TypeOK /\ Indexed

\* "blocks remain leased until the submitted completion fence reports done":
\* whichever threads poll, cancel and abort at once, a lease whose gather reads
\* is active and past its reservation.
ReadsLeased == reading \subseteq In("armed") \cup In("unknown")

\* "abort synchronizes every submitted fence before releasing its blocks": when a
\* waiting abort_request (or abort_all) has returned, none of the leases it found
\* is left, and none of their gathers reads.
AbortDrains ==
    \A t \in Threads :
        thread[t].pc = "returned" /\ thread[t].wait
            => \A i \in thread[t].scope : i \notin Active /\ i \notin reading

\* take_finished reports a request only when no gather can read its blocks again.
FreedUnread == \A r \in freed : \A i \in Ids : lease[i].req = r => i \notin Active \cup reading

\* What the registry says is over is over, for abort and for take_finished.
SaidIsOver == AbortDrains /\ FreedUnread

\* The registry implements BlockGuard: a block has one holder at a time and keeps
\* it while it is read.
Guard == INSTANCE BlockGuard WITH
            holder <- [b \in Blocks |-> IF owner[b] = 0 THEN Free ELSE lease[owner[b]].req],
            read <- UNION {lease[i].blocks : i \in reading}
Guarded == Guard!Spec
=============================================================================
