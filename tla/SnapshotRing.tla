---------------------------- MODULE SnapshotRing ----------------------------
(***************************************************************************)
(* The native snapshot ring (native/src/spark_cache_snapshot.cu) with its  *)
(* slot machine RingState (native/include/spark_cache_snapshot_ring.hpp):  *)
(* a call of the C interface holds the handle's mutex, so it is one        *)
(* function of the ring R to the ring it leaves behind.  A call that       *)
(* synchronizes with the GPU returns when the gather it waits for is over: *)
(* its guard is Quiet.  Payload bytes are not modelled; a slot remembers   *)
(* the context that owns them and whether its gather still runs.           *)
(***************************************************************************)
EXTENDS Naturals, FiniteSetsExt

CONSTANTS
    Slots,      \* slot indexes
    Contexts,   \* context sequences
    NoContext   \* a slot without an owner

ASSUME RingConstants ==
    /\ Slots \subseteq Nat /\ IsFiniteSet(Slots) /\ Slots # {}
    /\ NoContext \notin Contexts

SlotStates == {"free", "filling", "ready", "writing"}

\* A slot.  "drain": its completion event was never recorded, only its stream can
\* be synchronized (requires_stream_drain).  "busy": the GPU still fills it.
RingTypeOK(R) ==
    /\ R \in [Slots -> [st : SlotStates, gen : Nat, ctx : Contexts \cup {NoContext},
                        discard : BOOLEAN, drain : BOOLEAN, busy : BOOLEAN]]
    /\ \A s \in Slots : R[s].st = "free" <=> R[s].ctx = NoContext

\* spark_cache_snapshot_create
NewRing ==
    [s \in Slots |-> [st |-> "free", gen |-> 0, ctx |-> NoContext, discard |-> FALSE,
                      drain |-> FALSE, busy |-> FALSE]]

-----------------------------------------------------------------------------
(* RingState *)

\* reset: the generation outlives the tenancy.
Reset(R, S) ==
    [s \in Slots |-> IF s \in S THEN [NewRing[s] EXCEPT !.gen = R[s].gen, !.busy = R[s].busy]
                                ELSE R[s]]

FreeSlots(R) == {s \in Slots : R[s].st = "free"}
Filling(R, c) == {s \in Slots : R[s].st = "filling" /\ R[s].ctx = c}

\* reserve: the first free slot, under a new generation.
Reserve(R, c) ==
    LET s == Min(FreeSlots(R))
    IN  [R EXCEPT ![s] = [st |-> "filling", gen |-> @.gen + 1, ctx |-> c, discard |-> FALSE,
                          drain |-> FALSE, busy |-> FALSE]]

\* resolve: a ticket names a tenancy of a slot, not the slot.
Resolves(R, t) == R[t.slot].st # "free" /\ R[t.slot].gen = t.gen

\* abandon: a gather or a writer in progress is only marked.
Abandon(R, c) ==
    LET mine == {s \in Slots : R[s].st # "free" /\ R[s].ctx = c}
        kept == {s \in mine : R[s].st \in {"filling", "writing"}}
    IN  [s \in Slots |-> IF s \in kept THEN [R[s] EXCEPT !.discard = TRUE]
                                       ELSE Reset(R, mine)[s]]

\* abandon_all
AbandonAll(R) ==
    LET kept == {s \in Slots : R[s].st \in {"filling", "writing"}}
    IN  [s \in Slots |-> IF s \in kept THEN [R[s] EXCEPT !.discard = TRUE]
                                       ELSE Reset(R, Slots)[s]]

HasWriting(R) == \E s \in Slots : R[s].st = "writing"

\* reap_discarded, for every slot of S: only discarded gathers are reset.
ReapDiscarded(R, S) ==
    Reset(R, {s \in S : R[s].st = "filling" /\ R[s].discard})

-----------------------------------------------------------------------------
(* The C interface *)

\* The gathers of context c are over: its events and streams synchronize.
Quiet(R, c) == \A s \in Filling(R, c) : ~R[s].busy

\* reap_abandoned_locked returns: a quarantined slot makes it wait for its stream.
CanReap(R) == \A s \in Slots : R[s].drain => ~R[s].busy

\* reap_abandoned_locked: discarded gathers that have finished.
ReapAbandoned(R) == ReapDiscarded(R, {s \in Slots : ~R[s].busy})

\* spark_cache_snapshot_try_submit_pages, by its outcome: "ok" the gather runs; "full"
\* WOULD_BLOCK or DROPPED, nothing reserved; "refused" an error before the launch;
\* "drained" the launch or its event failed and the stream was synchronized;
\* "uncertain" that failed too, so the slot stays quarantined, and may be filled yet.
TrySubmitPages(R, c, outcome, running) ==
    LET A == ReapAbandoned(R)
        s == Min(FreeSlots(A))
        B == Reserve(A, c)
    IN  CASE outcome = "ok" -> [B EXCEPT ![s].busy = TRUE]
          [] outcome = "full" -> A
          [] outcome = "refused" -> A
          [] outcome = "drained" -> ReapDiscarded(Abandon(B, c), {s})
          [] outcome = "uncertain" ->
                 [Abandon(B, c) EXCEPT ![s].drain = TRUE, ![s].busy = running]

\* The outcomes a submission can have in R.
SubmitOutcomes(R, failures) ==
    IF FreeSlots(ReapAbandoned(R)) = {} THEN {"full"} ELSE {"ok"} \cup failures

\* What spark_cache_snapshot_poll answers for ticket t.
PollStatus(R, t) ==
    CASE ~Resolves(ReapAbandoned(R), t) -> "dropped"
      [] R[t.slot].st = "filling" /\ R[t.slot].busy -> "not_ready"
      [] OTHER -> "ok"

\* poll followed by claim: a finished gather becomes a writer's view.
PollClaim(R, t) == [ReapAbandoned(R) EXCEPT ![t.slot].st = "writing"]

\* spark_cache_snapshot_release
ReleaseTicket(R, t) == Reset(R, {s \in {t.slot} : Resolves(R, t) /\ R[s].st \in {"ready", "writing"}})

\* spark_cache_snapshot_drain_context once Quiet(R, c), and the release of a
\* claimed view of c that NativeManagerPageRing.drain_context adds.
DrainContext(R, c) ==
    LET A == Abandon(R, c)
        B == ReapDiscarded(A, Filling(A, c))
    IN  Reset(B, {s \in Slots : B[s].st = "writing" /\ B[s].ctx = c})

\* drain_context raised at its first synchronization.
DrainFailed(R, c) == Abandon(R, c)

\* spark_cache_snapshot_shutdown, when nothing is lent and every gather ended.
ShutdownRing(R) == ReapDiscarded(AbandonAll(R), Slots)
CanShutdown(R) == ~HasWriting(R) /\ \A s \in Slots : ~R[s].busy

\* The GPU finishes the gather into slot s.
Finished(R, s) == [R EXCEPT ![s].busy = FALSE]
=============================================================================
