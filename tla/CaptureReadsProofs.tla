------------------------- MODULE CaptureReadsProofs -------------------------
(***************************************************************************)
(* What a capture reads is not reused, what a rank acknowledged is over,   *)
(* and the admission of a worker belongs to the one capture under way, for *)
(* any number of ranks, requests and slots, any number of faults,          *)
(* preemptions, replays and shutdowns, and both lease modes.               *)
(*                                                                         *)
(* None of the properties is inductive.  RankOK says of one rank what its  *)
(* worker, its ring, its messages and the answers on their way have to do  *)
(* with each other: who reads is in the tables (ReadsOK), who was          *)
(* acknowledged is not, and a plan that may come again finds its number    *)
(* used up (AckOK, InboxOK), a view of the saver is the tenancy its ticket *)
(* names (TicketsOK), and the worker is busy with one capture at most, in  *)
(* every stage of a round and of a shutdown (Booked).  It depends on the   *)
(* scheduler through Books only, so that a step of a rank is a fact about  *)
(* that rank, and a step of the scheduler changes the books, or adds a     *)
(* message, under every rank.                                              *)
(*                                                                         *)
(* A plan may come again at any time, and a launch may stay uncertain in   *)
(* both modes.  A store that wait_for_save or _submit_request answered     *)
(* without a look at its read is `waived': the invariant says nothing of   *)
(* it on that rank, and the properties except it by name.  Everything      *)
(* else that was acknowledged is vouched for (Vouched, Acks).              *)
(***************************************************************************)
EXTENDS CaptureReads, FiniteSetTheorems, WellFoundedInduction, TLAPS

SlotRecord ==
    [st : SlotStates, gen : Nat, ctx : Contexts \cup {NoContext}, discard : BOOLEAN, drain : BOOLEAN,
     busy : BOOLEAN]

-----------------------------------------------------------------------------
(* The snapshot ring *)

\* Only a filling slot is written by the GPU, and a context has one slot at most.
RingOK(R) ==
    /\ R \in [Slots -> SlotRecord]
    /\ \A s \in Slots : /\ R[s].st = "free" <=> R[s].ctx = NoContext
                        /\ R[s].st # "ready"
                        /\ R[s].busy => R[s].st = "filling"
    /\ \A s, p \in Slots : R[s].ctx = R[p].ctx /\ R[s].ctx # NoContext => s = p

\* What a call may do to a slot: leave it to its tenant, or free it.  A view that is
\* lent is freed only for the contexts C.
SlotKept(a, b) == b.st = a.st /\ b.gen = a.gen /\ b.ctx = a.ctx /\ (b.busy => a.busy)
SlotFreed(a, b, C) ==
    /\ b.st = "free" /\ b.ctx = NoContext /\ a.gen <= b.gen /\ ~b.busy
    /\ a.st = "writing" => a.ctx \in C
RingMove(R, T, C) ==
    /\ T \in [Slots -> SlotRecord]
    /\ \A s \in Slots : SlotKept(R[s], T[s]) \/ SlotFreed(R[s], T[s], C)

\* A move keeps what holds of every ring.
LEMMA MoveKeepsRing ==
    ASSUME NEW R, NEW T, NEW C, RingOK(R), RingMove(R, T, C)
    PROVE  RingOK(T)
BY RingConstants DEF RingOK, RingMove, SlotKept, SlotFreed

\* Two moves are one.
LEMMA MoveComposes ==
    ASSUME NEW R, NEW T, NEW U, NEW C, RingOK(R), RingMove(R, T, C), RingMove(T, U, C)
    PROVE  RingMove(R, U, C)
<1>1. ASSUME NEW s \in Slots
      PROVE  SlotKept(R[s], U[s]) \/ SlotFreed(R[s], U[s], C)
  <2>1. R[s] \in SlotRecord /\ T[s] \in SlotRecord /\ U[s] \in SlotRecord
    BY DEF RingOK, RingMove
  <2>2. SlotKept(R[s], T[s]) \/ SlotFreed(R[s], T[s], C)
    BY DEF RingMove
  <2>3. SlotKept(T[s], U[s]) \/ SlotFreed(T[s], U[s], C)
    BY DEF RingMove
  <2>4. R[s].gen \in Nat /\ T[s].gen \in Nat /\ U[s].gen \in Nat
    BY <2>1 DEF SlotRecord
  <2> QED
    BY <2>2, <2>3, <2>4 DEF SlotKept, SlotFreed
<1> QED
  BY <1>1 DEF RingMove

\* reset of slots without a gather
LEMMA ResetMove ==
    ASSUME NEW R, NEW S \in SUBSET Slots, NEW C, RingOK(R),
           \A s \in S : ~R[s].busy /\ (R[s].st = "writing" => R[s].ctx \in C)
    PROVE  RingMove(R, Reset(R, S), C)
<1>1. PICK T : T = Reset(R, S)
  OBVIOUS
<1>2. ASSUME NEW s \in Slots
      PROVE  T[s] \in SlotRecord /\ (SlotKept(R[s], T[s]) \/ SlotFreed(R[s], T[s], C))
  <2>1. R[s] \in SlotRecord
    BY DEF RingOK
  <2>2. CASE s \in S
    <3>1. PICK g, b : g = R[s].gen /\ b = R[s].busy
      OBVIOUS
    <3>2. T[s] = [NewRing[s] EXCEPT !.gen = g, !.busy = b]
      BY <1>1, <2>2, <3>1 DEF Reset
    <3>3. T[s] = [st |-> "free", gen |-> g, ctx |-> NoContext, discard |-> FALSE, drain |-> FALSE, busy |-> b]
      BY <3>2 DEF NewRing
    <3>4. g \in Nat /\ b \in BOOLEAN /\ b = FALSE
      BY <2>1, <2>2, <3>1 DEF SlotRecord
    <3> QED
      BY <2>2, <3>1, <3>3, <3>4 DEF SlotRecord, SlotStates, SlotFreed
  <2>3. CASE s \notin S
    BY <1>1, <2>1, <2>3 DEF Reset, SlotKept
  <2> QED
    BY <2>2, <2>3
<1>3. T \in [Slots -> SlotRecord]
  BY <1>1, <1>2 DEF Reset
<1> QED
  BY <1>1, <1>2, <1>3 DEF RingMove

\* abandon marks gathers and views.
LEMMA AbandonMove ==
    ASSUME NEW R, NEW c, NEW C, RingOK(R)
    PROVE  /\ RingMove(R, Abandon(R, c), C) /\ \A s \in Slots : Abandon(R, c)[s].busy = R[s].busy
           /\ \A s \in Slots : SlotKept(R[s], Abandon(R, c)[s])
<1>1. PICK T : T = Abandon(R, c)
  OBVIOUS
<1> DEFINE mine == {s \in Slots : R[s].st # "free" /\ R[s].ctx = c}
           kept == {s \in mine : R[s].st \in {"filling", "writing"}}
<1>2. ASSUME NEW s \in Slots
      PROVE  T[s] \in SlotRecord /\ SlotKept(R[s], T[s]) /\ T[s].busy = R[s].busy
  <2>1. R[s] \in SlotRecord /\ R[s].st # "ready"
    BY DEF RingOK
  <2>2. s \in mine => s \in kept
    BY <2>1 DEF SlotRecord, SlotStates
  <2>3. T[s] = IF s \in kept THEN [R[s] EXCEPT !.discard = TRUE] ELSE Reset(R, mine)[s]
    BY <1>1 DEF Abandon
  <2> HIDE DEF mine, kept
  <2>4. s \notin kept => T[s] = R[s]
    BY <2>2, <2>3 DEF Reset
  <2>5. s \in kept => T[s] = [R[s] EXCEPT !.discard = TRUE]
    BY <2>3
  <2> QED
    BY <2>1, <2>4, <2>5 DEF SlotRecord, SlotKept
<1>3. T \in [Slots -> SlotRecord]
  BY <1>1, <1>2 DEF Abandon
<1> QED
  BY <1>1, <1>2, <1>3 DEF RingMove

\* reap_discarded of slots that are not filled any more
LEMMA ReapMove ==
    ASSUME NEW R, NEW S \in SUBSET Slots, NEW C, RingOK(R), \A s \in S : ~R[s].busy
    PROVE  RingMove(R, ReapDiscarded(R, S), C)
<1>1. PICK D \in SUBSET Slots : D = {s \in S : R[s].st = "filling" /\ R[s].discard}
  OBVIOUS
<1>2. \A s \in D : ~R[s].busy /\ R[s].st # "writing"
  BY <1>1
<1>3. RingMove(R, Reset(R, D), C)
  BY <1>2, ResetMove
<1> QED
  BY <1>1, <1>3 DEF ReapDiscarded

\* reap_abandoned_locked is a move.
LEMMA ReapAbandonedMove ==
    ASSUME NEW R, NEW C, RingOK(R)
    PROVE  RingMove(R, ReapAbandoned(R), C)
<1>1. PICK S \in SUBSET Slots : S = {s \in Slots : ~R[s].busy}
  OBVIOUS
<1> QED
  BY <1>1, ReapMove DEF ReapAbandoned

\* drain_context releases the gathers of a context that are over, and its view.
LEMMA DrainMove ==
    ASSUME NEW R, NEW c, RingOK(R), Quiet(R, c)
    PROVE  RingMove(R, DrainContext(R, c), {c})
<1>1. PICK A : A = Abandon(R, c)
  OBVIOUS
<1>2. RingMove(R, A, {c}) /\ \A s \in Slots : A[s].busy = R[s].busy /\ SlotKept(R[s], A[s])
  BY <1>1, AbandonMove
<1>3. RingOK(A)
  BY <1>2, MoveKeepsRing
<1>4. PICK S \in SUBSET Slots : S = Filling(A, c)
  BY DEF Filling
<1>5. \A s \in S : ~A[s].busy
  BY <1>2, <1>4 DEF Filling, Quiet, SlotKept
<1>6. PICK B : B = ReapDiscarded(A, S)
  OBVIOUS
<1>7. RingMove(A, B, {c})
  BY <1>3, <1>5, <1>6, ReapMove
<1>8. RingOK(B)
  BY <1>3, <1>7, MoveKeepsRing
<1>9. PICK T \in SUBSET Slots : T = {s \in Slots : B[s].st = "writing" /\ B[s].ctx = c}
  OBVIOUS
<1>10. \A s \in T : ~B[s].busy /\ (B[s].st = "writing" => B[s].ctx \in {c})
  BY <1>8, <1>9 DEF RingOK
<1>11. RingMove(B, Reset(B, T), {c})
  BY <1>8, <1>10, ResetMove
<1>12. RingMove(R, Reset(B, T), {c})
  BY <1>2, <1>3, <1>7, <1>8, <1>11, MoveComposes
<1> QED
  BY <1>1, <1>4, <1>6, <1>9, <1>12 DEF DrainContext

\* release gives back the view of a ticket.
LEMMA ReleaseMove ==
    ASSUME NEW R, NEW t, t.slot \in Slots, RingOK(R), Resolves(R, t) => R[t.slot].ctx = t.q
    PROVE  RingMove(R, ReleaseTicket(R, t), {t.q})
<1>1. PICK S \in SUBSET Slots : S = {s \in {t.slot} : Resolves(R, t) /\ R[s].st \in {"ready", "writing"}}
  OBVIOUS
<1>2. \A s \in S : ~R[s].busy /\ (R[s].st = "writing" => R[s].ctx \in {t.q})
  BY <1>1 DEF RingOK
<1> QED
  BY <1>1, <1>2, ResetMove DEF ReleaseTicket

\* shutdown, and the abandonment before it, when nothing is lent and nothing runs
LEMMA ShutdownMove ==
    ASSUME NEW R, NEW C, RingOK(R)
    PROVE  /\ RingMove(R, AbandonAll(R), C)
           /\ CanShutdown(R) => RingMove(R, ShutdownRing(R), C)
<1>1. PICK T : T = AbandonAll(R)
  OBVIOUS
<1> DEFINE kept == {s \in Slots : R[s].st \in {"filling", "writing"}}
<1>2. ASSUME NEW s \in Slots
      PROVE  /\ T[s] \in SlotRecord /\ (SlotKept(R[s], T[s]) \/ SlotFreed(R[s], T[s], C))
             /\ T[s].busy = R[s].busy
  <2>1. R[s] \in SlotRecord /\ R[s].st # "ready"
    BY DEF RingOK
  <2>2. T[s] = IF s \in kept THEN [R[s] EXCEPT !.discard = TRUE] ELSE Reset(R, Slots)[s]
    BY <1>1 DEF AbandonAll
  <2>3. CASE s \in kept
    <3>1. T[s] = [R[s] EXCEPT !.discard = TRUE]
      BY <2>2, <2>3
    <3> QED
      BY <2>1, <3>1 DEF SlotRecord, SlotKept
  <2>4. CASE s \notin kept
    <3>1. R[s].st = "free" /\ ~R[s].busy
      BY <2>1, <2>4 DEF SlotRecord, SlotStates, RingOK
    <3>2. PICK g, b : g = R[s].gen /\ b = R[s].busy
      OBVIOUS
    <3>3. Reset(R, Slots)[s] = [NewRing[s] EXCEPT !.gen = g, !.busy = b]
      BY <3>2 DEF Reset
    <3>4. T[s] = [st |-> "free", gen |-> g, ctx |-> NoContext, discard |-> FALSE, drain |-> FALSE, busy |-> b]
      BY <2>2, <2>4, <3>3 DEF NewRing
    <3> QED
      BY <2>1, <3>1, <3>2, <3>4 DEF SlotRecord, SlotStates, SlotFreed
  <2> QED
    BY <2>3, <2>4
<1>3. T \in [Slots -> SlotRecord]
  BY <1>1, <1>2 DEF AbandonAll
<1>4. RingMove(R, T, C)
  BY <1>2, <1>3 DEF RingMove
<1>5. ASSUME CanShutdown(R)
      PROVE  RingMove(R, ShutdownRing(R), C)
  <2>1. RingOK(T)
    BY <1>4, MoveKeepsRing
  <2>2. \A s \in Slots : ~T[s].busy
    BY <1>2, <1>5 DEF CanShutdown
  <2>3. RingMove(T, ReapDiscarded(T, Slots), C)
    BY <2>1, <2>2, ReapMove
  <2> QED
    BY <1>1, <1>4, <2>3, MoveComposes DEF ShutdownRing
<1> QED
  BY <1>1, <1>4, <1>5

\* A ring that is shut down has no tenant.
LEMMA ShutdownFrees ==
    ASSUME NEW R, RingOK(R), CanShutdown(R)
    PROVE  \A s \in Slots : ShutdownRing(R)[s].st = "free"
<1>1. PICK A : A = AbandonAll(R)
  OBVIOUS
<1> DEFINE kept == {s \in Slots : R[s].st \in {"filling", "writing"}}
<1>2. ASSUME NEW s \in Slots
      PROVE  A[s].st = "free" \/ (A[s].st = "filling" /\ A[s].discard)
  <2>1. R[s] \in SlotRecord /\ R[s].st \in {"free", "filling"}
    BY DEF RingOK, CanShutdown, HasWriting, SlotRecord, SlotStates
  <2>2. A[s] = IF s \in kept THEN [R[s] EXCEPT !.discard = TRUE] ELSE Reset(R, Slots)[s]
    BY <1>1 DEF AbandonAll
  <2>3. CASE R[s].st = "filling"
    <3>1. A[s] = [R[s] EXCEPT !.discard = TRUE]
      BY <2>2, <2>3
    <3> QED
      BY <2>1, <2>3, <3>1 DEF SlotRecord
  <2>4. CASE R[s].st = "free"
    <3>1. PICK g, b : g = R[s].gen /\ b = R[s].busy
      OBVIOUS
    <3>2. A[s] = [NewRing[s] EXCEPT !.gen = g, !.busy = b]
      BY <2>2, <2>4, <3>1 DEF Reset
    <3> QED
      BY <3>2 DEF NewRing
  <2> QED
    BY <2>1, <2>3, <2>4
<1>3. ASSUME NEW s \in Slots
      PROVE  ShutdownRing(R)[s].st = "free"
  <2>1. PICK g, b : g = A[s].gen /\ b = A[s].busy
    OBVIOUS
  <2>2. ShutdownRing(R)[s] = IF A[s].st = "filling" /\ A[s].discard
                             THEN [NewRing[s] EXCEPT !.gen = g, !.busy = b] ELSE A[s]
    BY <1>1, <2>1 DEF ShutdownRing, ReapDiscarded, Reset
  <2>3. [NewRing[s] EXCEPT !.gen = g, !.busy = b].st = "free"
    BY DEF NewRing
  <2> QED
    BY <1>2, <2>2, <2>3
<1> QED
  BY <1>3

\* The GPU finishes a gather.
LEMMA FinishedMove ==
    ASSUME NEW R, NEW p \in Slots, NEW C, RingOK(R)
    PROVE  RingMove(R, Finished(R, p), C)
<1>1. PICK T : T = Finished(R, p)
  OBVIOUS
<1>2. ASSUME NEW s \in Slots
      PROVE  T[s] \in SlotRecord /\ SlotKept(R[s], T[s])
  <2>1. R[s] \in SlotRecord
    BY DEF RingOK
  <2>2. T[s] = IF s = p THEN [R[s] EXCEPT !.busy = FALSE] ELSE R[s]
    BY <1>1 DEF Finished, RingOK
  <2> QED
    BY <2>1, <2>2 DEF SlotRecord, SlotKept
<1>3. T \in [Slots -> SlotRecord]
  BY <1>1, <1>2 DEF Finished, RingOK
<1> QED
  BY <1>1, <1>2, <1>3 DEF RingMove

\* The first free slot is a free slot.
LEMMA FirstFree ==
    ASSUME NEW S \in SUBSET Slots, S # {}
    PROVE  Min(S) \in S
<1>1. S \subseteq Nat
  BY RingConstants
<1> DEFINE Below == {1 .. n : n \in S}
<1>2. Below \subseteq FiniteSubsetsOf(Nat) /\ Below # {}
  <2>1. \A n \in S : n \in Int /\ 1 .. n \subseteq Nat
    BY <1>1
  <2>2. \A n \in S : IsFiniteSet(1 .. n)
    BY <2>1, FS_Interval
  <2>3. \A n \in S : 1 .. n \in FiniteSubsetsOf(Nat)
    BY <2>1, <2>2 DEF FiniteSubsetsOf
  <2> QED
    BY <2>3
<1>3. PICK L \in Below : \A T \in Below : <<T, L>> \notin StrictSubsetOrdering(Nat)
  <2> HIDE DEF Below
  <2> QED
    BY <1>2, WFMin, FS_StrictSubsetOrderingWellFounded
<1>4. PICK n \in S : L = 1 .. n
  OBVIOUS
<1>5. ASSUME NEW m \in S
      PROVE  n <= m
  <2>1. ~ (1 .. m \subseteq 1 .. n /\ 1 .. m # 1 .. n)
    <3>1. 1 .. m \in Below /\ <<1 .. m, 1 .. n>> \notin StrictSubsetOrdering(Nat)
      BY <1>3, <1>4
    <3>2. 1 .. m \in SUBSET Nat /\ 1 .. n \in SUBSET Nat
      BY <1>1
    <3>3. PICK A, B : A = 1 .. m /\ B = 1 .. n
      OBVIOUS
    <3> QED
      BY <3>1, <3>2, <3>3 DEF StrictSubsetOrdering
  <2>2. m \in Nat /\ n \in Nat
    BY <1>1
  <2>3. m < n => 1 .. m \subseteq 1 .. n /\ n \in 1 .. n /\ n \notin 1 .. m
    BY <2>2
  <2> QED
    BY <2>1, <2>2, <2>3
<1> QED
  BY <1>5 DEF Min

\* A submission fills a free slot with a new tenancy, or leaves nothing behind.
Fills(R, T, c) ==
    \E s \in Slots :
        /\ T[s] \in SlotRecord /\ T[s].st = "filling" /\ T[s].ctx = c /\ R[s].gen < T[s].gen
        /\ R[s].st # "writing"
        /\ T \in [Slots -> SlotRecord]
        /\ \A p \in Slots : p # s => SlotKept(R[p], T[p]) \/ SlotFreed(R[p], T[p], {})

\* What a submission does to the ring, by its outcome.
LEMMA SubmitMoves ==
    ASSUME NEW R, NEW c \in Contexts, NEW running \in BOOLEAN,
           NEW outcome \in {"ok", "full", "refused", "drained", "uncertain"},
           RingOK(R), \A s \in Slots : R[s].ctx # c,
           outcome # "full" => FreeSlots(ReapAbandoned(R)) # {}
    PROVE  /\ outcome \in {"full", "refused", "drained"} =>
                  RingMove(R, TrySubmitPages(R, c, outcome, running), {})
           /\ outcome \in {"ok", "uncertain"} => Fills(R, TrySubmitPages(R, c, outcome, running), c)
<1>1. PICK A : A = ReapAbandoned(R)
  OBVIOUS
<1>2. RingMove(R, A, {}) /\ RingOK(A)
  BY <1>1, ReapAbandonedMove, MoveKeepsRing
<1>3. CASE outcome \in {"full", "refused"}
  BY <1>1, <1>2, <1>3 DEF TrySubmitPages
<1>4. ASSUME outcome \in {"ok", "drained", "uncertain"}
      PROVE  /\ outcome = "drained" => RingMove(R, TrySubmitPages(R, c, outcome, running), {})
             /\ outcome \in {"ok", "uncertain"} => Fills(R, TrySubmitPages(R, c, outcome, running), c)
  <2>1. FreeSlots(A) # {} /\ FreeSlots(A) \subseteq Slots
    BY <1>1, <1>4 DEF FreeSlots
  <2>2. PICK s \in Slots : s = Min(FreeSlots(A)) /\ A[s].st = "free"
    BY <2>1, FirstFree DEF FreeSlots
  <2>3. PICK g \in Nat : g = A[s].gen
    BY <1>2 DEF RingOK, SlotRecord
  <2>4. PICK x : x = [st |-> "filling", gen |-> g + 1, ctx |-> c, discard |-> FALSE, drain |-> FALSE,
                      busy |-> FALSE]
    OBVIOUS
  <2>5. PICK B : B = [A EXCEPT ![s] = x]
    OBVIOUS
  <2>6. Reserve(A, c) = B
    BY <2>2, <2>3, <2>4, <2>5 DEF Reserve
  <2>7. x \in SlotRecord
    BY <2>4 DEF SlotRecord, SlotStates
  <2>8. B \in [Slots -> SlotRecord] /\ B[s] = x /\ \A p \in Slots : p # s => B[p] = A[p]
    BY <1>2, <2>5, <2>7 DEF RingOK
  <2>9. \A p \in Slots : SlotKept(R[p], A[p]) \/ SlotFreed(R[p], A[p], {})
    BY <1>2 DEF RingMove
  <2>10. \A p \in Slots : A[p].ctx # c
    BY <2>9, RingConstants DEF SlotKept, SlotFreed
  <2>11. RingOK(B)
    BY <1>2, <2>4, <2>8, <2>10, RingConstants DEF RingOK
  <2>12. R[s].gen \in Nat /\ R[s].gen <= g /\ R[s].st # "writing"
    <3>1. R[s] \in SlotRecord /\ A[s].gen = g /\ A[s].st = "free"
      BY <2>2, <2>3 DEF RingOK
    <3>2. SlotKept(R[s], A[s]) \/ SlotFreed(R[s], A[s], {})
      BY <2>9
    <3>3. R[s].gen \in Nat
      BY <3>1 DEF SlotRecord
    <3> QED
      BY <3>1, <3>2, <3>3 DEF SlotKept, SlotFreed
  <2>13. PICK U : U = Abandon(B, c)
    OBVIOUS
  <2>14. U \in [Slots -> SlotRecord] /\ \A p \in Slots : SlotKept(B[p], U[p]) /\ U[p].busy = B[p].busy
    BY <2>11, <2>13, AbandonMove DEF RingMove
  <2>15. CASE outcome = "ok"
    <3>1. PICK T, y : T = TrySubmitPages(R, c, outcome, running) /\ y = [x EXCEPT !.busy = TRUE]
      OBVIOUS
    <3>2. T = [B EXCEPT ![s] = y]
      BY <1>1, <2>2, <2>6, <2>8, <2>15, <3>1 DEF TrySubmitPages
    <3>3. y \in SlotRecord /\ y.st = "filling" /\ y.ctx = c /\ y.gen = g + 1
      BY <2>4, <2>7, <3>1 DEF SlotRecord
    <3>4. T \in [Slots -> SlotRecord] /\ T[s] = y /\ \A p \in Slots : p # s => T[p] = A[p]
      BY <2>8, <3>2, <3>3
    <3>5. Fills(R, T, c)
      BY <2>9, <2>12, <3>3, <3>4 DEF Fills
    <3> QED
      BY <2>15, <3>1, <3>5
  <2>16. CASE outcome = "uncertain"
    <3>1. PICK T, y : T = TrySubmitPages(R, c, outcome, running)
                      /\ y = [U[s] EXCEPT !.drain = TRUE, !.busy = running]
      OBVIOUS
    <3>2. T = [U EXCEPT ![s].drain = TRUE, ![s].busy = running]
      BY <1>1, <2>2, <2>6, <2>13, <2>16, <3>1 DEF TrySubmitPages
    <3>3. T = [U EXCEPT ![s] = y]
      BY <2>14, <3>1, <3>2
    <3>4. U[s] \in SlotRecord /\ U[s].st = "filling" /\ U[s].ctx = c /\ U[s].gen = g + 1
      BY <2>4, <2>8, <2>14 DEF SlotKept
    <3>5. y \in SlotRecord /\ y.st = "filling" /\ y.ctx = c /\ y.gen = g + 1
      BY <3>1, <3>4 DEF SlotRecord
    <3>6. T \in [Slots -> SlotRecord] /\ T[s] = y /\ \A p \in Slots : p # s => T[p] = U[p]
      BY <2>14, <3>3, <3>5
    <3>7. \A p \in Slots : p # s => SlotKept(R[p], T[p]) \/ SlotFreed(R[p], T[p], {})
      BY <2>8, <2>9, <2>14, <3>6 DEF SlotKept, SlotFreed
    <3>8. Fills(R, T, c)
      BY <2>12, <3>5, <3>6, <3>7 DEF Fills
    <3> QED
      BY <2>16, <3>1, <3>8
  <2>17. CASE outcome = "drained"
    <3>1. RingOK(U)
      BY <2>11, <2>13, AbandonMove, MoveKeepsRing
    <3>2. PICK T : T = ReapDiscarded(U, {s})
      OBVIOUS
    <3>3. ~U[s].busy
      BY <2>4, <2>8, <2>14
    <3>4. RingMove(U, T, {})
      BY <3>1, <3>2, <3>3, ReapMove
    <3>5. T[s].st = "free"
      <4>1. U[s] = [B[s] EXCEPT !.discard = TRUE]
        <5> DEFINE mine == {p \in Slots : B[p].st # "free" /\ B[p].ctx = c}
                   kept == {p \in mine : B[p].st \in {"filling", "writing"}}
        <5>1. U[s] = IF s \in kept THEN [B[s] EXCEPT !.discard = TRUE] ELSE Reset(B, mine)[s]
          BY <2>13 DEF Abandon
        <5>2. s \in kept
          BY <2>4, <2>8
        <5> HIDE DEF kept, mine
        <5> QED
          BY <5>1, <5>2
      <4>2. U[s].st = "filling" /\ U[s].discard
        BY <2>4, <2>8, <4>1
      <4>3. T[s] = [NewRing[s] EXCEPT !.gen = U[s].gen, !.busy = U[s].busy]
        BY <3>2, <4>2 DEF ReapDiscarded, Reset
      <4> QED
        BY <4>3 DEF NewRing
    <3>6. SlotFreed(R[s], T[s], {})
      <4>1. U[s].st = "filling" /\ U[s].gen = g + 1
        BY <2>4, <2>8, <2>14 DEF SlotKept
      <4>2. SlotFreed(U[s], T[s], {})
        BY <3>4, <3>5, <4>1 DEF RingMove, SlotKept
      <4>3. T[s].gen \in Nat
        BY <3>4 DEF RingMove, SlotRecord
      <4> QED
        BY <2>12, <4>1, <4>2, <4>3 DEF SlotFreed
    <3>7. ASSUME NEW p \in Slots, p # s
          PROVE  SlotKept(R[p], T[p]) \/ SlotFreed(R[p], T[p], {})
      <4>1. SlotKept(A[p], U[p])
        BY <2>8, <2>14, <3>7
      <4>2. SlotKept(U[p], T[p]) \/ SlotFreed(U[p], T[p], {})
        BY <3>4 DEF RingMove
      <4>3. R[p].gen \in Nat /\ A[p].gen \in Nat /\ U[p].gen \in Nat /\ T[p].gen \in Nat
        BY <1>2, <2>14, <3>4 DEF RingOK, RingMove, SlotRecord
      <4> QED
        BY <2>9, <4>1, <4>2, <4>3 DEF SlotKept, SlotFreed
    <3>8. RingMove(R, T, {})
      BY <3>4, <3>6, <3>7 DEF RingMove
    <3>9. T = TrySubmitPages(R, c, outcome, running)
      BY <1>1, <2>2, <2>6, <2>13, <2>17, <3>2 DEF TrySubmitPages
    <3> QED
      BY <2>17, <3>8, <3>9
  <2> QED
    BY <1>4, <2>15, <2>16, <2>17
<1> QED
  BY <1>3, <1>4
-----------------------------------------------------------------------------
(* The inductive invariant: one rank *)

Thread ==
    [pc : {"idle", "take", "check", "native", "insert", "undo", "finally", "poll", "pop", "ready",
           "dead"},
     q : Requests \cup {NoRequest}, todo : SUBSET Requests]
Saver == [pc : {"idle", "commit", "release"}, q : Requests \cup {NoRequest}, todo : SUBSET Requests]
Ticket == [q : Requests, slot : Slots, gen : Nat]
Message == [k : {"save", "preempt", "finish"}, q : Requests]

WorkerRecord ==
    [eng : {"serve", "join", "drain", "raised", "stop", "closed", "retained"},
     inflight : BOOLEAN, held : SUBSET Requests, queued : SUBSET Requests,
     submitting : SUBSET Requests, pending : SUBSET Requests, draining : SUBSET Requests,
     ready : SUBSET Requests, cancelled : SUBSET Requests, abandoned : SUBSET Requests,
     failed : SUBSET Requests, high : Nat, fatal : BOOLEAN, closed : BOOLEAN, wake : BOOLEAN,
     completed : SUBSET Requests, ended : SUBSET Requests, done : SUBSET Requests,
     uncertain : SUBSET Requests, tickets : SUBSET Ticket, storeq : Seq(Requests),
     writer : Saver, thr : Thread, waived : SUBSET Requests, leaked : BOOLEAN]

\* What the scheduler knows of all requests and the ranks' state depends on: the lease
\* mode, the jobs, the requests without a sent plan, those that did not finish, and
\* those that gave their blocks back although a plan names them.
Books ==
    [mode |-> mode, job |-> job,
     unsent |-> {q \in Requests : plan[q] # "sent"},
     alive |-> {q \in Requests : req[q] \in {"new", "run", "out"}},
     given |-> {q \in Requests : mode = "requests" /\ plan[q] = "sent" /\ q \notin own}]

BooksRecord ==
    [mode : {"jobs", "requests"}, job : [Requests -> Nat], unsent : SUBSET Requests,
     alive : SUBSET Requests, given : SUBSET Requests]

\* The capture the progress thread submits; captures before their submission; captures
\* between submission and delivery; views of the saver, and the one claimed for it.
Submits(v) == IF v.thr.pc \in {"check", "native", "insert", "undo", "finally"} THEN {v.thr.q} ELSE {}
Early(v) == v.queued \cup (IF v.thr.pc \in {"check", "native"} THEN {v.thr.q} ELSE {})
Flying(v) == v.pending \cup v.draining \cup (IF v.thr.pc \in {"insert", "undo"} THEN {v.thr.q} ELSE {})
Lent(v) == v.ready \cup Range(v.storeq) \cup ({v.writer.q} \ {NoRequest})
Claiming(v) == IF v.thr.pc = "pop" THEN {v.thr.q} ELSE {}
Claimed(v) == Claiming(v) \cap v.pending

\* What is acknowledged because its read is over.
Vouched(v) == v.done \ v.waived

Reads(R, q) == \E s \in Slots : R[s].busy /\ R[s].ctx = q
Has(B, k, q) == \E i \in DOMAIN B : B[i] = [k |-> k, q |-> q]

\* The capture of q never reached the ring R.
Unused(v, R, q) ==
    /\ q \notin Flying(v) \cup Lent(v) \cup Claiming(v) \cup v.failed
    /\ Tickets(v, q) = {} /\ \A s \in Slots : R[s].ctx # q

\* Where the progress thread is, and what that says of the tables.
ThreadOK(m, v) ==
    /\ v.submitting = Submits(v)
    /\ v.thr.pc \in {"idle", "dead", "take", "poll", "ready"} <=> v.thr.q = NoRequest
    /\ v.thr.pc \in {"poll", "pop", "ready"} => ~v.fatal
    /\ ~v.fatal => v.failed = {}
    /\ v.queued \cap v.submitting = {}
    /\ v.thr.pc \in {"insert", "undo"} => v.thr.q \notin v.pending \cup v.draining \cup v.failed
    /\ m = "jobs" /\ v.thr.pc = "poll" => v.thr.todo \subseteq v.pending
    /\ m = "jobs" /\ v.thr.pc = "pop" =>
           v.thr.q \in v.pending /\ v.thr.todo \subseteq v.pending \ {v.thr.q}
    /\ v.eng \in {"serve", "join"} => v.draining = {}
    /\ v.eng \notin {"serve", "raised"} => v.closed
    /\ v.draining # {} => /\ v.queued = {} /\ v.pending = {} /\ v.closed
                          /\ v.thr.pc \in {"idle", "dead"}
    /\ m = "requests" => v.queued = {} /\ v.submitting = {} /\ v.done = {}

\* A capture is in one place.
Places(v) ==
    /\ Flying(v) \cap Lent(v) = {}
    /\ v.ready \cap Range(v.storeq) = {}
    /\ v.writer.q \notin v.ready \cup Range(v.storeq)
    /\ \A i, j \in DOMAIN v.storeq : v.storeq[i] = v.storeq[j] => i = j
    /\ v.writer.pc = "idle" <=> v.writer.q = NoRequest

\* A ticket names a tenancy of its own context, or one that is over; a view that is
\* claimed, or that the saver has or will have, is lent to it.
TicketsOK(v, R) ==
    /\ \A t \in v.tickets : t.gen <= R[t.slot].gen /\ (Resolves(R, t) => R[t.slot].ctx = t.q)
    /\ \A q \in Lent(v) \cup Claimed(v) : \E t \in v.tickets :
           t.q = q /\ Resolves(R, t) /\ R[t.slot].st = "writing" /\ R[t.slot].ctx = q

\* Who reads is in the tables, or the callback that must end the read has not returned,
\* or the read was given up.
ReadsOK(m, v, R, B) ==
    /\ \A q \in Early(v) : Unused(v, R, q)
    /\ \A q \in Requests : Reads(R, q) =>
           \/ q \in Flying(v)
           \/ m = "jobs" /\ q \in v.failed
           \/ m = "requests" /\ v.eng = "raised" /\ Has(B, "preempt", q)
           \/ m = "requests" /\ q \in v.waived

\* A plan is under way only once.  The rank has nothing of a job that is new to it, and
\* nothing of a request whose plan is still to come.
New(m, J, v, B, q) == IF m = "jobs" THEN J[q] > v.high ELSE Has(B, "save", q)
InboxOK(m, J, v, R, B) ==
    /\ B \in Seq(Message)
    /\ \A i, j \in DOMAIN B : i < j /\ B[j].k = "save" => B[i].q # B[j].q
    /\ \A q \in Requests : New(m, J, v, B, q) => q \notin Owned(v) /\ Unused(v, R, q)

\* What the rank acknowledged, K, is over and stays so: its number is used up, or the
\* runtime takes no job any more.
AckOK(J, v, R, K) ==
    \A q \in K : /\ q \notin Early(v) \cup Flying(v) /\ ~Reads(R, q)
                 /\ q \in v.failed => v.closed
                 /\ J[q] <= v.high \/ v.closed \/ v.fatal

\* Before its plan is sent no rank knows a request; before the request finishes no
\* rank has heard of that, or reported it, F.
UnknownOK(S, v, R, B, K, F) ==
    /\ \A q \in S.unsent : /\ Unused(v, R, q) /\ q \notin Owned(v) /\ q \notin K
                           /\ ~Has(B, "save", q) /\ ~Has(B, "preempt", q)
    /\ \A q \in S.alive : ~Has(B, "finish", q) /\ q \notin v.ended /\ q \notin F

\* Without job leases the callbacks are the answer: what is completed, finished or
\* preempted is read no more.
FinishedOK(S, v, R, B, K, F) ==
    S.mode = "requests" =>
        /\ K = {}
        /\ \A q \in (v.completed \cup F) \ v.waived : ~Reads(R, q)
        /\ \A q \in v.ended \cup F : ~Has(B, "save", q)
        /\ \A q \in S.given :
               \/ Has(B, "preempt", q)
               \/ ~Has(B, "save", q) /\ (q \in v.waived \/ ~Reads(R, q))

\* The parts that relate worker, ring and messages.
Related(S, v, R, B, K, F) ==
    /\ TicketsOK(v, R) /\ ReadsOK(S.mode, v, R, B) /\ InboxOK(S.mode, S.job, v, R, B)
    /\ AckOK(S.job, v, R, K) /\ UnknownOK(S, v, R, B, K, F) /\ FinishedOK(S, v, R, B, K, F)

\* The worker serves: no failure has stopped its runtime or its engine.
Running(v) == ~v.fatal /\ v.eng # "raised"

\* The admission is taken as long as the one capture it was taken for, or nobody has it.
AsksOne(v) ==
    Running(v) => /\ \A p, q \in InProgress(v) : p = q
                  /\ v.inflight <=> InProgress(v) # {} \/ v.leaked
                  /\ v.leaked => InProgress(v) = {}

\* A round polls one capture, and delivers what is ready before it ends.
RoundOK(v) ==
    /\ Running(v) => /\ \A p, q \in v.thr.todo : p = q
                     /\ v.thr.todo # {} => v.thr.pc = "poll" /\ v.ready = {}
    /\ v.ready # {} => v.thr.pc \in {"poll", "pop", "ready"} \/ v.eng = "raised"

\* What a shutdown has left behind at each of its stages.
EndsClean(v, R) ==
    /\ v.eng \in {"drain", "stop", "closed", "retained"} =>
           v.thr.pc \in {"idle", "dead"} /\ v.queued = {} /\ v.pending = {}
    /\ v.eng \in {"stop", "closed", "retained"} => v.draining = {}
    /\ v.eng = "closed" => v.tickets = {} /\ \A s \in Slots : R[s].st = "free"

Booked(v, R) == AsksOne(v) /\ RoundOK(v) /\ EndsClean(v, R)

RankOK(S, v, R, B, K, F) ==
    /\ v \in WorkerRecord /\ ThreadOK(S.mode, v) /\ Places(v) /\ Booked(v, R) /\ RingOK(R)
    /\ Related(S, v, R, B, K, F)

\* What rank r vouched for and what it reported finished, up to the scheduler.
Acks(r) == {q \in Requests \ w[r].waived : q \in w[r].done \/ r \in lease[q].ranks
                                \/ \E m \in wire : m.rank = r /\ q \in m.done}
Ends(r) == {q \in Requests : r \in finishedBy[q] \/ \E m \in wire : m.rank = r /\ q \in m.finished}

-----------------------------------------------------------------------------
(* The scheduler *)

Output == [rank : Ranks, done : SUBSET Requests, uncertain : SUBSET Requests,
           finished : SUBSET Requests]

Scheduled ==
    /\ team \in Teams /\ mode \in Modes /\ own \subseteq Requests /\ eligible \subseteq Requests
    /\ reserved \subseteq Requests /\ disabled \in BOOLEAN
    /\ plan \in [Requests -> {"none", "open", "sent", "skipped"}]
    /\ req \in [Requests -> {"new", "run", "out", "delayed", "ended"}]
    /\ lease \in [Requests -> [held : BOOLEAN, ranks : SUBSET Ranks, quarantined : BOOLEAN]]
    /\ finishedBy \in [Requests -> SUBSET Ranks]
    /\ sequence \in Nat /\ job \in [Requests -> Nat]
    /\ w = [r \in Ranks |-> w[r]] /\ ring = [r \in Ranks |-> ring[r]]
    /\ inbox = [r \in Ranks |-> inbox[r]]
    /\ wire \subseteq Output /\ \A m \in wire : m.rank \in team.ranks
    /\ \A r \in Ranks \ team.ranks : w[r] = NewWorker /\ ring[r] = NewRing /\ inbox[r] = <<>>

\* Plans and leases: a lease is given back when every rank has acknowledged its job.
LeasesOK ==
    /\ \A q \in Requests : plan[q] # "sent" => job[q] = 0 /\ ~lease[q].held
    /\ \A q \in Requests : req[q] = "new" => plan[q] = "none"
    /\ \A q \in Requests : plan[q] = "open" => req[q] \in {"new", "run", "out"}
    /\ \A q \in Requests : lease[q].ranks \subseteq team.ranks
    /\ mode = "jobs" => \A q \in Requests :
           plan[q] = "sent" /\ ~lease[q].held => lease[q].ranks = team.ranks
    /\ mode = "requests" =>
           /\ \A q \in Requests : ~lease[q].held /\ ~lease[q].quarantined
           /\ \A q \in Requests : req[q] \in {"run", "out"} /\ plan[q] = "sent" => q \in eligible
    /\ (\E q \in Requests : lease[q].quarantined) => disabled

RanksOK ==
    \A r \in Ranks : RankOK(Books, w[r], ring[r], inbox[r], Acks(r), Ends(r))

IInv == Scheduled /\ LeasesOK /\ RanksOK

-----------------------------------------------------------------------------
(* What a step may do to the ring, the worker and the inbox of a rank, one at a time *)

\* A move of the ring: gathers end and slots are freed, but no view that is lent.
LEMMA RingKeeps ==
    ASSUME NEW S \in BooksRecord, NEW v \in WorkerRecord, NEW R, NEW T, NEW B,
           NEW K \in SUBSET Requests, NEW F \in SUBSET Requests, NEW C,
           ThreadOK(S.mode, v), RingOK(R), Related(S, v, R, B, K, F), RingMove(R, T, C),
           C \cap (Lent(v) \cup Claimed(v)) = {}
    PROVE  RingOK(T) /\ Related(S, v, T, B, K, F)
<1>1. RingOK(T)
  BY MoveKeepsRing
<1>2. \A s \in Slots : SlotKept(R[s], T[s]) \/ SlotFreed(R[s], T[s], C)
  BY DEF RingMove
<1>3. \A s \in Slots : T[s].ctx = NoContext \/ T[s].ctx = R[s].ctx
  BY <1>2 DEF SlotKept, SlotFreed
<1>4. \A q \in Requests : Reads(T, q) => Reads(R, q)
  BY <1>2 DEF Reads, SlotKept, SlotFreed
<1>5. \A q \in Requests : Unused(v, R, q) => Unused(v, T, q)
  BY <1>3, RingConstants DEF Unused, Requests
<1>6. TicketsOK(v, T)
  <2>1. ASSUME NEW t \in v.tickets
        PROVE  t.gen <= T[t.slot].gen /\ (Resolves(T, t) => T[t.slot].ctx = t.q)
    <3>1. t.slot \in Slots /\ t.gen \in Nat
      BY DEF WorkerRecord, Ticket
    <3>2. t.gen <= R[t.slot].gen /\ (Resolves(R, t) => R[t.slot].ctx = t.q)
      BY DEF Related, TicketsOK
    <3>3. R[t.slot] \in SlotRecord /\ T[t.slot] \in SlotRecord
      BY <1>1, <3>1 DEF RingOK
    <3>4. R[t.slot].gen \in Nat /\ T[t.slot].gen \in Nat
      BY <3>3 DEF SlotRecord
    <3>5. CASE SlotKept(R[t.slot], T[t.slot])
      BY <3>2, <3>5 DEF SlotKept, Resolves
    <3>6. CASE SlotFreed(R[t.slot], T[t.slot], C)
      BY <3>1, <3>2, <3>4, <3>6 DEF SlotFreed, Resolves
    <3> QED
      BY <1>2, <3>1, <3>5, <3>6
  <2>2. ASSUME NEW q \in Lent(v) \cup Claimed(v)
        PROVE  \E t \in v.tickets : t.q = q /\ Resolves(T, t) /\ T[t.slot].st = "writing"
                                              /\ T[t.slot].ctx = q
    <3>1. PICK t \in v.tickets : t.q = q /\ Resolves(R, t) /\ R[t.slot].st = "writing"
                                               /\ R[t.slot].ctx = q
      BY DEF Related, TicketsOK
    <3>2. t.slot \in Slots /\ q \notin C
      BY <2>2 DEF WorkerRecord, Ticket
    <3>3. SlotKept(R[t.slot], T[t.slot])
      BY <1>2, <3>1, <3>2 DEF SlotFreed
    <3> QED
      BY <3>1, <3>3 DEF SlotKept, Resolves
  <2> QED
    BY <2>1, <2>2 DEF TicketsOK
<1>7. Early(v) \subseteq Requests
  BY DEF Early, ThreadOK, WorkerRecord, Thread
<1>8. ReadsOK(S.mode, v, T, B)
  BY <1>4, <1>5, <1>7 DEF Related, ReadsOK
<1>9. InboxOK(S.mode, S.job, v, T, B)
  BY <1>5 DEF Related, InboxOK
<1>10. AckOK(S.job, v, T, K) /\ UnknownOK(S, v, T, B, K, F) /\ FinishedOK(S, v, T, B, K, F)
  <2>1. AckOK(S.job, v, T, K)
    BY <1>4 DEF Related, AckOK
  <2>2. S.unsent \subseteq Requests /\ S.given \subseteq Requests
    BY DEF BooksRecord
  <2>3. UnknownOK(S, v, T, B, K, F)
    BY <1>5, <2>2 DEF Related, UnknownOK
  <2>4. v.completed \subseteq Requests
    BY DEF WorkerRecord
  <2>5. FinishedOK(S, v, T, B, K, F)
    BY <1>4, <2>2, <2>4 DEF Related, FinishedOK
  <2> QED
    BY <2>1, <2>3, <2>5
<1> QED
  BY <1>1, <1>6, <1>8, <1>9, <1>10 DEF Related

\* The engine thread takes the next message.
LEMMA ConsumeKeeps ==
    ASSUME NEW S \in BooksRecord, NEW v \in WorkerRecord, NEW R, NEW B,
           NEW K \in SUBSET Requests, NEW F \in SUBSET Requests,
           Related(S, v, R, B, K, F), B # <<>>, v.eng = "serve",
           S.mode = "requests" /\ Head(B).k = "preempt" =>
               Head(B).q \in v.waived \/ ~Reads(R, Head(B).q)
    PROVE  /\ Related(S, v, R, Tail(B), K, F)
           /\ Head(B) \in Message /\ ~Has(Tail(B), "save", Head(B).q)
           /\ Has(B, Head(B).k, Head(B).q)
<1>1. B \in Seq(Message) /\ Len(B) > 0
  BY DEF Related, InboxOK
<1>2. Tail(B) \in Seq(Message) /\ DOMAIN Tail(B) = 1 .. Len(B) - 1 /\ DOMAIN B = 1 .. Len(B)
      /\ Len(B) \in Nat
  BY <1>1
<1>3. \A i \in 1 .. Len(B) - 1 : Tail(B)[i] = B[i + 1]
  BY <1>1
<1>4. Head(B) = B[1] /\ Head(B) \in Message /\ 1 \in DOMAIN B
  BY <1>1
<1>5. \A i, j \in DOMAIN B : i < j /\ B[j].k = "save" => B[i].q # B[j].q
  BY DEF Related, InboxOK
<1>6. \A k, q : Has(Tail(B), k, q) => Has(B, k, q)
  <2>1. \A i \in DOMAIN Tail(B) : i + 1 \in DOMAIN B /\ B[i + 1] = Tail(B)[i]
    BY <1>2, <1>3
  <2> QED
    BY <2>1 DEF Has
<1>7. \A k, q : Has(B, k, q) => Has(Tail(B), k, q) \/ Head(B) = [k |-> k, q |-> q]
  <2>1. \A i \in DOMAIN B : i # 1 => i - 1 \in DOMAIN Tail(B) /\ Tail(B)[i - 1] = B[i]
    BY <1>2, <1>3
  <2> QED
    BY <1>4, <2>1 DEF Has
<1>8. \A q : Has(Tail(B), "save", q) => q # Head(B).q
  <2>1. ASSUME NEW q, NEW i \in DOMAIN Tail(B), Tail(B)[i] = [k |-> "save", q |-> q]
        PROVE  q # Head(B).q
    <3>1. i + 1 \in DOMAIN B /\ B[i + 1] = Tail(B)[i] /\ 1 < i + 1
      BY <1>2, <1>3, <2>1
    <3> QED
      BY <1>4, <1>5, <2>1, <3>1
  <2> QED
    BY <2>1 DEF Has
<1>9. \A i, j \in DOMAIN Tail(B) : i < j /\ Tail(B)[j].k = "save" => Tail(B)[i].q # Tail(B)[j].q
  <2>1. ASSUME NEW i \in DOMAIN Tail(B), NEW j \in DOMAIN Tail(B), i < j
        PROVE  i + 1 \in DOMAIN B /\ j + 1 \in DOMAIN B /\ i + 1 < j + 1
               /\ Tail(B)[i] = B[i + 1] /\ Tail(B)[j] = B[j + 1]
    BY <1>2, <1>3, <2>1
  <2> QED
    BY <1>5, <2>1
<1>10. Has(B, Head(B).k, Head(B).q)
  <2>1. Head(B) = [k |-> Head(B).k, q |-> Head(B).q]
    BY <1>4 DEF Message
  <2> QED
    BY <1>4, <2>1 DEF Has
<1>11. TicketsOK(v, R)
  BY DEF Related
<1>12. ReadsOK(S.mode, v, R, Tail(B))
  BY DEF Related, ReadsOK
<1>13. InboxOK(S.mode, S.job, v, R, Tail(B))
  BY <1>2, <1>6, <1>9 DEF Related, InboxOK, New
<1>14. AckOK(S.job, v, R, K) /\ UnknownOK(S, v, R, Tail(B), K, F)
  BY <1>6 DEF Related, AckOK, UnknownOK
<1>15. FinishedOK(S, v, R, Tail(B), K, F)
  <2>1. ASSUME NEW q \in S.given, S.mode = "requests"
        PROVE  \/ Has(Tail(B), "preempt", q)
               \/ ~Has(Tail(B), "save", q) /\ (q \in v.waived \/ ~Reads(R, q))
    <3>1. Has(B, "preempt", q) \/ (~Has(B, "save", q) /\ (q \in v.waived \/ ~Reads(R, q)))
      BY <2>1 DEF Related, FinishedOK
    <3>2. CASE Head(B) = [k |-> "preempt", q |-> q]
      BY <1>8, <2>1, <3>2
    <3> QED
      BY <1>6, <1>7, <3>1, <3>2
  <2> QED
    BY <1>6, <2>1 DEF Related, FinishedOK
<1> QED
  BY <1>4, <1>8, <1>10, <1>11, <1>12, <1>13, <1>14, <1>15 DEF Related

\* A worker that starts nothing, and lends, forgets or gives up only what it had.
Calm(v, u) ==
    /\ u.tickets \subseteq v.tickets
    /\ \A q \in Lent(u) \cup Claimed(u) :
           q \in Lent(v) \cup Claimed(v) /\ \A t \in v.tickets : t.q = q => t \in u.tickets
    /\ Early(u) \subseteq Early(v) /\ Flying(u) \subseteq Flying(v) /\ Owned(u) \subseteq Owned(v)
    /\ Lent(u) \subseteq Lent(v) \cup Flying(v) /\ Claiming(u) \subseteq Claiming(v)
    /\ v.failed \subseteq u.failed /\ u.failed \subseteq v.failed \cup Flying(v)
    /\ u.high = v.high /\ (v.closed => u.closed) /\ (v.eng = "raised" => u.eng = "raised")
    /\ (v.fatal => u.fatal) /\ v.waived \subseteq u.waived

\* What it gives up is not read any more, or is uncertain.
GivesUp(m, v, u, R, B) ==
    \A q \in Flying(v) \ Flying(u) : Reads(R, q) =>
        \/ m = "jobs" /\ q \in u.failed
        \/ m = "requests" /\ u.eng = "raised" /\ Has(B, "preempt", q)

\* What it vouches for, completes and reports is over.
Answers(S, v, u, R, B, K, L, F, G) ==
    /\ \A q \in L \ K : /\ q \notin Early(u) \cup Flying(u) /\ ~Reads(R, q)
                        /\ q \in u.failed => u.closed
                        /\ S.job[q] <= u.high \/ u.closed \/ u.fatal
                        /\ q \notin S.unsent
    /\ S.mode = "requests" => L = {} /\ \A q \in u.completed \ (v.completed \cup u.waived) : ~Reads(R, q)
    /\ \A q \in u.ended \ v.ended : ~Has(B, "save", q) /\ q \notin S.alive
    /\ G \subseteq F \cup (v.completed \cap v.ended)

\* A calm step of the worker keeps what relates it to its ring and messages.
LEMMA WorkerKeeps ==
    ASSUME NEW S \in BooksRecord, NEW v \in WorkerRecord, NEW u \in WorkerRecord, NEW R, NEW B,
           NEW K \in SUBSET Requests, NEW F \in SUBSET Requests,
           NEW L \in SUBSET Requests, NEW G \in SUBSET Requests,
           ThreadOK(S.mode, v), Related(S, v, R, B, K, F),
           Calm(v, u), GivesUp(S.mode, v, u, R, B), Answers(S, v, u, R, B, K, L, F, G)
    PROVE  Related(S, u, R, B, L, G)
<1>1. \A q : Unused(v, R, q) => Unused(u, R, q)
  BY DEF Unused, Calm, Tickets
<1>2. TicketsOK(u, R)
  <2>1. \A t \in u.tickets : t.gen <= R[t.slot].gen /\ (Resolves(R, t) => R[t.slot].ctx = t.q)
    BY DEF Related, TicketsOK, Calm
  <2>2. ASSUME NEW q \in Lent(u) \cup Claimed(u)
        PROVE  \E t \in u.tickets : t.q = q /\ Resolves(R, t) /\ R[t.slot].st = "writing"
                                              /\ R[t.slot].ctx = q
    <3>1. q \in Lent(v) \cup Claimed(v) /\ \A t \in v.tickets : t.q = q => t \in u.tickets
      BY <2>2 DEF Calm
    <3>2. PICK t \in v.tickets : t.q = q /\ Resolves(R, t) /\ R[t.slot].st = "writing"
                                               /\ R[t.slot].ctx = q
      BY <3>1 DEF Related, TicketsOK
    <3> QED
      BY <3>1, <3>2
  <2> QED
    BY <2>1, <2>2 DEF TicketsOK
<1>3. ReadsOK(S.mode, u, R, B)
  <2>1. \A q \in Early(u) : Unused(u, R, q)
    BY <1>1 DEF Calm, Related, ReadsOK
  <2>2. ASSUME NEW q \in Requests, Reads(R, q)
        PROVE  \/ q \in Flying(u)
               \/ S.mode = "jobs" /\ q \in u.failed
               \/ S.mode = "requests" /\ u.eng = "raised" /\ Has(B, "preempt", q)
               \/ S.mode = "requests" /\ q \in u.waived
    <3>1. \/ q \in Flying(v)
          \/ S.mode = "jobs" /\ q \in v.failed
          \/ S.mode = "requests" /\ v.eng = "raised" /\ Has(B, "preempt", q)
          \/ S.mode = "requests" /\ q \in v.waived
      BY <2>2 DEF Related, ReadsOK
    <3> QED
      BY <2>2, <3>1 DEF Calm, GivesUp
  <2> QED
    BY <2>1, <2>2 DEF ReadsOK
<1>4. InboxOK(S.mode, S.job, u, R, B)
  <2>1. u.high = v.high /\ Owned(u) \subseteq Owned(v)
    BY DEF Calm
  <2> QED
    BY <1>1, <2>1 DEF Related, InboxOK, New
<1>5. AckOK(S.job, u, R, L)
  <2>1. ASSUME NEW q \in L
        PROVE  /\ q \notin Early(u) \cup Flying(u) /\ ~Reads(R, q)
               /\ q \in u.failed => u.closed
               /\ S.job[q] <= u.high \/ u.closed \/ u.fatal
    <3>1. CASE q \in K
      <4>1. /\ q \notin Early(v) \cup Flying(v) /\ ~Reads(R, q)
            /\ q \in v.failed => v.closed
            /\ S.job[q] <= v.high \/ v.closed \/ v.fatal
        BY <3>1 DEF Related, AckOK
      <4> QED
        BY <4>1 DEF Calm
    <3>2. CASE q \notin K
      BY <3>2 DEF Answers
    <3> QED
      BY <3>1, <3>2
  <2> QED
    BY <2>1 DEF AckOK
<1>6. UnknownOK(S, u, R, B, L, G)
  <2>1. ASSUME NEW q \in S.unsent
        PROVE  /\ Unused(u, R, q) /\ q \notin Owned(u) /\ q \notin L
               /\ ~Has(B, "save", q) /\ ~Has(B, "preempt", q)
    <3>1. /\ Unused(v, R, q) /\ q \notin Owned(v) /\ q \notin K
          /\ ~Has(B, "save", q) /\ ~Has(B, "preempt", q)
      BY DEF Related, UnknownOK
    <3> QED
      BY <1>1, <3>1 DEF Calm, Answers
  <2>2. \A q \in S.alive : ~Has(B, "finish", q) /\ q \notin u.ended /\ q \notin G
    BY DEF Related, UnknownOK, Answers
  <2> QED
    BY <2>1, <2>2 DEF UnknownOK
<1>7. FinishedOK(S, u, R, B, L, G)
  <2>1. ASSUME S.mode = "requests"
        PROVE  /\ L = {}
               /\ \A q \in (u.completed \cup G) \ u.waived : ~Reads(R, q)
               /\ \A q \in u.ended \cup G : ~Has(B, "save", q)
               /\ \A q \in S.given :
                      Has(B, "preempt", q) \/ (~Has(B, "save", q) /\ (q \in u.waived \/ ~Reads(R, q)))
    <3>1. /\ \A q \in (v.completed \cup F) \ v.waived : ~Reads(R, q)
          /\ \A q \in v.ended \cup F : ~Has(B, "save", q)
          /\ \A q \in S.given :
                 Has(B, "preempt", q) \/ (~Has(B, "save", q) /\ (q \in v.waived \/ ~Reads(R, q)))
      BY <2>1 DEF Related, FinishedOK
    <3>2. v.waived \subseteq u.waived
      BY DEF Calm
    <3> QED
      BY <2>1, <3>1, <3>2 DEF Answers
  <2> QED
    BY <2>1 DEF FinishedOK
<1> QED
  BY <1>2, <1>3, <1>4, <1>5, <1>6, <1>7 DEF Related

\* The native submission of q: a slot is filled for it, and it flies, or it is given up
\* without a drain.
LEMMA FillKeeps ==
    ASSUME NEW S \in BooksRecord, NEW v \in WorkerRecord, NEW u \in WorkerRecord,
           NEW R, NEW T, NEW B, NEW K \in SUBSET Requests, NEW F \in SUBSET Requests,
           NEW q \in Requests, ThreadOK(S.mode, v),
           RingOK(R), Related(S, v, R, B, K, F), Fills(R, T, q), Unused(v, R, q),
           ~New(S.mode, S.job, v, B, q), q \notin K \cup S.unsent,
           u.tickets \in {v.tickets, v.tickets \cup {[q |-> q, slot |-> s, gen |-> T[s].gen] :
                                                        s \in Filling(T, q)}},
           Lent(u) = Lent(v), Claiming(u) = Claiming(v), Claimed(u) \subseteq Claimed(v),
           Early(u) \subseteq Early(v) \ {q}, Flying(v) \subseteq Flying(u),
           Flying(u) \subseteq Flying(v) \cup {q},
           q \in Flying(u) \/ (S.mode = "requests" /\ q \in u.waived),
           Owned(u) \subseteq Owned(v) \cup {q}, u.failed = v.failed,
           u.high = v.high, u.closed = v.closed, u.eng = v.eng, u.fatal = v.fatal,
           u.ended \subseteq v.ended, v.waived \subseteq u.waived, u.waived \subseteq v.waived \cup {q},
           S.mode = "requests" =>
               /\ q \notin F /\ u.completed \subseteq v.completed \cup {q}
               /\ q \in u.completed => q \in u.waived
               /\ q \in S.given => Has(B, "preempt", q)
    PROVE  RingOK(T) /\ Related(S, u, T, B, K, F)
<1>1. PICK s \in Slots :
        /\ T[s] \in SlotRecord /\ T[s].st = "filling" /\ T[s].ctx = q /\ R[s].gen < T[s].gen
        /\ R[s].st # "writing"
        /\ T \in [Slots -> SlotRecord]
        /\ \A p \in Slots : p # s => SlotKept(R[p], T[p]) \/ SlotFreed(R[p], T[p], {})
  BY DEF Fills
<1>2. \A p \in Slots : R[p].ctx # q
  BY DEF Unused
<1>3. q # NoContext
  BY RingConstants DEF Requests
<1>4. \A p \in Slots : p # s => T[p].ctx \in {NoContext, R[p].ctx}
  BY <1>1 DEF SlotKept, SlotFreed
<1>5. RingOK(T)
  <2>1. \A p \in Slots : p # s => T[p].ctx # q
    BY <1>2, <1>3, <1>4
  <2>2. ASSUME NEW p \in Slots
        PROVE  /\ T[p].st = "free" <=> T[p].ctx = NoContext
               /\ T[p].st # "ready"
               /\ T[p].busy => T[p].st = "filling"
    <3>1. CASE p = s
      BY <1>1, <1>3, <3>1
    <3>2. CASE p # s
      BY <1>1, <3>2 DEF RingOK, SlotKept, SlotFreed
    <3> QED
      BY <3>1, <3>2
  <2>3. ASSUME NEW p \in Slots, NEW o \in Slots, T[p].ctx = T[o].ctx, T[p].ctx # NoContext
        PROVE  p = o
    <3>1. CASE p = s \/ o = s
      BY <1>1, <2>1, <2>3, <3>1
    <3>2. CASE p # s /\ o # s
      <4>1. T[p].ctx = R[p].ctx /\ T[o].ctx = R[o].ctx
        BY <1>4, <2>3, <3>2
      <4> QED
        BY <2>3, <4>1 DEF RingOK
    <3> QED
      BY <3>1, <3>2
  <2> QED
    BY <1>1, <2>2, <2>3 DEF RingOK
<1>6. \A p \in Requests : p # q /\ Reads(T, p) => Reads(R, p)
  BY <1>1 DEF Reads, SlotKept, SlotFreed
<1>7. Filling(T, q) = {s}
  <2>1. \A p \in Slots : p # s => T[p].ctx # q
    BY <1>2, <1>3, <1>4
  <2> QED
    BY <1>1, <2>1 DEF Filling
<1>8. PICK x : x = [q |-> q, slot |-> s, gen |-> T[s].gen]
  OBVIOUS
<1>9. v.tickets \subseteq u.tickets /\ u.tickets \subseteq v.tickets \cup {x}
  BY <1>7, <1>8
<1>10. ASSUME NEW p \in Requests, p # q, Unused(v, R, p)
       PROVE  Unused(u, T, p)
  <2>1. \A o \in Slots : T[o].ctx # p
    <3>1. p # NoContext
      BY RingConstants DEF Requests
    <3> QED
      BY <1>1, <1>4, <1>10, <3>1 DEF Unused
  <2>2. Tickets(u, p) = {}
    BY <1>8, <1>9, <1>10 DEF Unused, Tickets
  <2> QED
    BY <1>10, <2>1, <2>2 DEF Unused
<1>11. TicketsOK(u, T)
  <2>1. ASSUME NEW t \in v.tickets
        PROVE  t.gen <= T[t.slot].gen /\ (Resolves(T, t) => T[t.slot].ctx = t.q)
    <3>1. t.slot \in Slots /\ t.gen \in Nat
      BY DEF WorkerRecord, Ticket
    <3>2. t.gen <= R[t.slot].gen /\ (Resolves(R, t) => R[t.slot].ctx = t.q)
      BY DEF Related, TicketsOK
    <3>3. R[t.slot] \in SlotRecord /\ T[t.slot] \in SlotRecord
      BY <1>1, <3>1 DEF RingOK
    <3>4. R[t.slot].gen \in Nat /\ T[t.slot].gen \in Nat
      BY <3>3 DEF SlotRecord
    <3>5. CASE t.slot = s
      BY <1>1, <3>1, <3>2, <3>4, <3>5 DEF Resolves
    <3>6. CASE t.slot # s /\ SlotKept(R[t.slot], T[t.slot])
      BY <3>2, <3>6 DEF SlotKept, Resolves
    <3>7. CASE t.slot # s /\ SlotFreed(R[t.slot], T[t.slot], {})
      BY <3>1, <3>2, <3>4, <3>7 DEF SlotFreed, Resolves
    <3> QED
      BY <1>1, <3>1, <3>5, <3>6, <3>7
  <2>2. x.gen <= T[x.slot].gen /\ (Resolves(T, x) => T[x.slot].ctx = x.q)
    <3>1. T[s].gen \in Nat
      BY <1>1 DEF SlotRecord
    <3> QED
      BY <1>1, <1>8, <3>1
  <2>3. ASSUME NEW p \in Lent(u) \cup Claimed(u)
        PROVE  \E t \in u.tickets : t.q = p /\ Resolves(T, t) /\ T[t.slot].st = "writing"
                                              /\ T[t.slot].ctx = p
    <3>1. PICK t \in v.tickets : t.q = p /\ Resolves(R, t) /\ R[t.slot].st = "writing"
                                               /\ R[t.slot].ctx = p
      BY <2>3 DEF Related, TicketsOK
    <3>2. t.slot \in Slots /\ t.slot # s
      BY <1>1, <3>1 DEF WorkerRecord, Ticket
    <3>3. SlotKept(R[t.slot], T[t.slot])
      BY <1>1, <3>1, <3>2 DEF SlotFreed
    <3> QED
      BY <1>9, <3>1, <3>3 DEF SlotKept, Resolves
  <2> QED
    BY <1>9, <2>1, <2>2, <2>3 DEF TicketsOK
<1>12. Early(v) \subseteq Requests
  BY DEF Early, ThreadOK, WorkerRecord, Thread
<1>13. ReadsOK(S.mode, u, T, B)
  <2>1. \A p \in Early(u) : Unused(u, T, p)
    BY <1>10, <1>12 DEF Related, ReadsOK
  <2>2. ASSUME NEW p \in Requests, Reads(T, p)
        PROVE  \/ p \in Flying(u)
               \/ S.mode = "jobs" /\ p \in u.failed
               \/ S.mode = "requests" /\ u.eng = "raised" /\ Has(B, "preempt", p)
               \/ S.mode = "requests" /\ p \in u.waived
    <3>1. p = q \/ Reads(R, p)
      BY <1>6, <2>2
    <3>2. CASE p # q
      <4>1. \/ p \in Flying(v)
            \/ S.mode = "jobs" /\ p \in v.failed
            \/ S.mode = "requests" /\ v.eng = "raised" /\ Has(B, "preempt", p)
            \/ S.mode = "requests" /\ p \in v.waived
        BY <3>1, <3>2 DEF Related, ReadsOK
      <4> QED
        BY <4>1
    <3> QED
      BY <3>2
  <2> QED
    BY <2>1, <2>2 DEF ReadsOK
<1>14. InboxOK(S.mode, S.job, u, T, B)
  <2>1. \A p \in Requests : New(S.mode, S.job, u, B, p) => p # q /\ New(S.mode, S.job, v, B, p)
    BY DEF New
  <2>2. \A p \in Requests : New(S.mode, S.job, u, B, p) => p \notin Owned(u) /\ Unused(u, T, p)
    BY <1>10, <2>1 DEF Related, InboxOK
  <2> QED
    BY <2>2 DEF Related, InboxOK
<1>15. AckOK(S.job, u, T, K)
  <2>1. ASSUME NEW p \in K
        PROVE  /\ p \notin Early(u) \cup Flying(u) /\ ~Reads(T, p)
               /\ p \in u.failed => u.closed
               /\ S.job[p] <= u.high \/ u.closed \/ u.fatal
    <3>1. /\ p \notin Early(v) \cup Flying(v) /\ ~Reads(R, p)
          /\ p \in v.failed => v.closed
          /\ S.job[p] <= v.high \/ v.closed \/ v.fatal
      BY DEF Related, AckOK
    <3> QED
      BY <1>6, <3>1
  <2> QED
    BY <2>1 DEF AckOK
<1>16. UnknownOK(S, u, T, B, K, F)
  <2>1. S.unsent \subseteq Requests
    BY DEF BooksRecord
  <2> QED
    BY <1>10, <2>1 DEF Related, UnknownOK
<1>17. FinishedOK(S, u, T, B, K, F)
  <2>1. ASSUME S.mode = "requests"
        PROVE  /\ K = {}
               /\ \A p \in (u.completed \cup F) \ u.waived : ~Reads(T, p)
               /\ \A p \in u.ended \cup F : ~Has(B, "save", p)
               /\ \A p \in S.given :
                      Has(B, "preempt", p) \/ (~Has(B, "save", p) /\ (p \in u.waived \/ ~Reads(T, p)))
    <3>1. /\ K = {}
          /\ \A p \in (v.completed \cup F) \ v.waived : ~Reads(R, p)
          /\ \A p \in v.ended \cup F : ~Has(B, "save", p)
          /\ \A p \in S.given :
                 Has(B, "preempt", p) \/ (~Has(B, "save", p) /\ (p \in v.waived \/ ~Reads(R, p)))
      BY <2>1 DEF Related, FinishedOK
    <3>2. v.completed \subseteq Requests /\ S.given \subseteq Requests
      BY DEF WorkerRecord, BooksRecord
    <3>3. ASSUME NEW p \in (u.completed \cup F) \ u.waived
          PROVE  ~Reads(T, p)
      <4>1. p # q /\ p \in (v.completed \cup F) \ v.waived
        BY <2>1, <3>3
      <4> QED
        BY <1>6, <3>1, <3>2, <4>1
    <3>4. \A p \in S.given :
             Has(B, "preempt", p) \/ (~Has(B, "save", p) /\ (p \in u.waived \/ ~Reads(T, p)))
      BY <1>6, <2>1, <3>1, <3>2
    <3> QED
      BY <3>1, <3>3, <3>4
  <2> QED
    BY <2>1 DEF FinishedOK
<1> QED
  BY <1>5, <1>11, <1>13, <1>14, <1>15, <1>16, <1>17 DEF Related

\* The gather of q is over, and its slot becomes a view of the writer.
LEMMA ClaimKeeps ==
    ASSUME NEW S \in BooksRecord, NEW v \in WorkerRecord, NEW u \in WorkerRecord,
           NEW R, NEW T, NEW B, NEW K \in SUBSET Requests, NEW F \in SUBSET Requests,
           NEW q \in v.pending, NEW t \in v.tickets,
           ThreadOK(S.mode, v), Places(v), RingOK(R), Related(S, v, R, B, K, F),
           t.q = q, Resolves(R, t), ~R[t.slot].busy,
           T = [R EXCEPT ![t.slot].st = "writing"],
           u.tickets = v.tickets, Lent(u) = Lent(v), Claiming(u) = {q}, Claiming(v) = {},
           Early(u) = Early(v), Flying(u) = Flying(v), Owned(u) = Owned(v),
           u.failed = v.failed, u.high = v.high, u.closed = v.closed, u.eng = v.eng,
           u.fatal = v.fatal, u.waived = v.waived, u.completed = v.completed, u.ended = v.ended
    PROVE  RingOK(T) /\ Related(S, u, T, B, K, F)
<1>1. PICK s \in Slots : s = t.slot /\ R[s].ctx = q /\ R[s].st # "free"
  <2>1. t.slot \in Slots
    BY DEF WorkerRecord, Ticket
  <2> QED
    BY <2>1 DEF Related, TicketsOK, Resolves
<1>2. PICK x : x = [R[s] EXCEPT !.st = "writing"]
  OBVIOUS
<1>3. T = [R EXCEPT ![s] = x]
  BY <1>1, <1>2
<1>4. R[s] \in SlotRecord /\ R \in [Slots -> SlotRecord]
  BY DEF RingOK
<1>5. x \in SlotRecord /\ x.st = "writing" /\ x.ctx = q /\ x.gen = R[s].gen /\ x.busy = R[s].busy
  BY <1>1, <1>2, <1>4 DEF SlotRecord, SlotStates
<1>6. T \in [Slots -> SlotRecord] /\ T[s] = x /\ \A p \in Slots : p # s => T[p] = R[p]
  BY <1>3, <1>4, <1>5
<1>7. \A p \in Slots : T[p].ctx = R[p].ctx /\ T[p].gen = R[p].gen /\ T[p].busy = R[p].busy
  BY <1>1, <1>5, <1>6
<1>8. q # NoContext
  BY RingConstants DEF WorkerRecord, Requests
<1>9. RingOK(T)
  <2>1. ASSUME NEW p \in Slots
        PROVE  /\ T[p].st = "free" <=> T[p].ctx = NoContext
               /\ T[p].st # "ready"
               /\ T[p].busy => T[p].st = "filling"
    <3>1. CASE p = s
      BY <1>1, <1>5, <1>6, <1>8, <3>1
    <3>2. CASE p # s
      BY <1>6, <3>2 DEF RingOK
    <3> QED
      BY <3>1, <3>2
  <2>2. \A p, o \in Slots : T[p].ctx = T[o].ctx /\ T[p].ctx # NoContext => p = o
    BY <1>7 DEF RingOK
  <2> QED
    BY <1>6, <2>1, <2>2 DEF RingOK
<1>10. \A p : Reads(T, p) <=> Reads(R, p)
  BY <1>7 DEF Reads
<1>11. \A p : Unused(v, R, p) => Unused(u, T, p)
  <2>1. q \in Flying(v)
    BY DEF Flying
  <2> QED
    BY <1>7, <2>1 DEF Unused, Tickets
<1>12. TicketsOK(u, T)
  <2>1. ASSUME NEW y \in v.tickets
        PROVE  y.gen <= T[y.slot].gen /\ (Resolves(T, y) => T[y.slot].ctx = y.q)
    <3>1. y.slot \in Slots
      BY DEF WorkerRecord, Ticket
    <3>2. y.gen <= R[y.slot].gen /\ (Resolves(R, y) => R[y.slot].ctx = y.q)
      BY DEF Related, TicketsOK
    <3>3. CASE y.slot = s
      BY <1>1, <1>5, <1>6, <3>2, <3>3 DEF Resolves
    <3>4. CASE y.slot # s
      BY <1>6, <3>1, <3>2, <3>4 DEF Resolves
    <3> QED
      BY <3>3, <3>4
  <2>2. ASSUME NEW p \in Lent(u) \cup Claimed(u)
        PROVE  \E y \in u.tickets : y.q = p /\ Resolves(T, y) /\ T[y.slot].st = "writing"
                                              /\ T[y.slot].ctx = p
    <3>1. CASE p = q
      BY <1>1, <1>5, <1>6, <3>1 DEF Resolves
    <3>2. CASE p # q
      <4>1. p \in Lent(v)
        BY <2>2, <3>2 DEF Claimed
      <4>2. PICK y \in v.tickets : y.q = p /\ Resolves(R, y) /\ R[y.slot].st = "writing"
                                                 /\ R[y.slot].ctx = p
        BY <4>1 DEF Related, TicketsOK
      <4>3. y.slot \in Slots /\ y.slot # s
        BY <1>1, <3>2, <4>2 DEF WorkerRecord, Ticket
      <4> QED
        BY <1>6, <4>2, <4>3 DEF Resolves
    <3> QED
      BY <3>1, <3>2
  <2> QED
    BY <2>1, <2>2 DEF TicketsOK
<1>13. ReadsOK(S.mode, u, T, B) /\ InboxOK(S.mode, S.job, u, T, B)
  BY <1>10, <1>11 DEF Related, ReadsOK, InboxOK, New
<1>14. AckOK(S.job, u, T, K) /\ UnknownOK(S, u, T, B, K, F)
  BY <1>10, <1>11 DEF Related, AckOK, UnknownOK
<1>15. FinishedOK(S, u, T, B, K, F)
  BY <1>10 DEF Related, FinishedOK
<1> QED
  BY <1>9, <1>12, <1>13, <1>14, <1>15 DEF Related

\* A job is queued under a new sequence number.
LEMMA EnqueueKeeps ==
    ASSUME NEW S \in BooksRecord, NEW v \in WorkerRecord, NEW u \in WorkerRecord,
           NEW R, NEW B, NEW K \in SUBSET Requests, NEW F \in SUBSET Requests, NEW q \in Requests,
           S.mode = "jobs", Related(S, v, R, B, K, F),
           Unused(v, R, q), q \notin K \cup S.unsent, v.high < S.job[q],
           u.tickets = v.tickets, Lent(u) = Lent(v), Claiming(u) = Claiming(v),
           Claimed(u) = Claimed(v), Early(u) = Early(v) \cup {q}, Flying(u) = Flying(v),
           Owned(u) = Owned(v) \cup {q}, u.failed = v.failed, u.high = S.job[q],
           u.closed = v.closed, u.eng = v.eng, u.fatal = v.fatal, u.ended = v.ended
    PROVE  Related(S, u, R, B, K, F)
<1>1. \A p : Unused(v, R, p) => Unused(u, R, p)
  BY DEF Unused, Tickets
<1>2. TicketsOK(u, R)
  BY DEF Related, TicketsOK
<1>3. ReadsOK(S.mode, u, R, B)
  BY <1>1 DEF Related, ReadsOK
<1>4. S.job \in [Requests -> Nat] /\ v.high \in Nat
  BY DEF BooksRecord, WorkerRecord
<1>5. InboxOK(S.mode, S.job, u, R, B)
  <2>1. ASSUME NEW p \in Requests, S.job[p] > u.high
        PROVE  p \notin Owned(u) /\ Unused(u, R, p)
    <3>1. S.job[p] \in Nat /\ S.job[q] \in Nat
      BY <1>4
    <3>2. S.job[p] > v.high /\ p # q
      BY <1>4, <2>1, <3>1
    <3>3. p \notin Owned(v) /\ Unused(v, R, p)
      BY <3>2 DEF Related, InboxOK, New
    <3> QED
      BY <1>1, <3>2, <3>3
  <2> QED
    BY <2>1 DEF Related, InboxOK, New
<1>6. AckOK(S.job, u, R, K)
  <2>1. ASSUME NEW p \in K
        PROVE  /\ p \notin Early(u) \cup Flying(u) /\ ~Reads(R, p)
               /\ p \in u.failed => u.closed
               /\ S.job[p] <= u.high \/ u.closed \/ u.fatal
    <3>1. /\ p \notin Early(v) \cup Flying(v) /\ ~Reads(R, p)
          /\ p \in v.failed => v.closed
          /\ S.job[p] <= v.high \/ v.closed \/ v.fatal
      BY DEF Related, AckOK
    <3>2. S.job[p] \in Nat /\ S.job[q] \in Nat
      BY <1>4
    <3> QED
      BY <1>4, <3>1, <3>2
  <2> QED
    BY <2>1 DEF AckOK
<1>7. UnknownOK(S, u, R, B, K, F)
  BY <1>1 DEF Related, UnknownOK
<1>8. FinishedOK(S, u, R, B, K, F)
  BY DEF FinishedOK
<1> QED
  BY <1>2, <1>3, <1>5, <1>6, <1>7, <1>8 DEF Related

\* A ring that stays is moved by nothing.
LEMMA StillRing ==
    ASSUME NEW R, RingOK(R)
    PROVE  RingMove(R, R, {})
BY DEF RingOK, RingMove, SlotKept

\* A step that starts nothing: first the worker changes, then the ring.
LEMMA QuietStep ==
    ASSUME NEW S \in BooksRecord, NEW v, NEW u, NEW R, NEW T, NEW B,
           NEW K \in SUBSET Requests, NEW F \in SUBSET Requests, NEW C,
           RankOK(S, v, R, B, K, F), u \in WorkerRecord, ThreadOK(S.mode, u), Places(u), Booked(u, T),
           Calm(v, u), GivesUp(S.mode, v, u, R, B), Answers(S, v, u, R, B, K, K \cup Vouched(u), F, F),
           RingMove(R, T, C), C \cap (Lent(u) \cup Claimed(u)) = {}
    PROVE  RankOK(S, u, T, B, K \cup Vouched(u), F)
<1>1. K \cup Vouched(u) \in SUBSET Requests
  BY DEF WorkerRecord, Vouched
<1>2. Related(S, u, R, B, K \cup Vouched(u), F)
  BY <1>1, WorkerKeeps DEF RankOK
<1>3. RingOK(T) /\ Related(S, u, T, B, K \cup Vouched(u), F)
  BY <1>1, <1>2, RingKeeps DEF RankOK
<1> QED
  BY <1>3 DEF RankOK

\* The engine thread takes a message that leaves nothing to wait for.
LEMMA TakeMessage ==
    ASSUME NEW S \in BooksRecord, NEW v, NEW R, NEW B,
           NEW K \in SUBSET Requests, NEW F \in SUBSET Requests,
           RankOK(S, v, R, B, K, F), B # <<>>, v.eng = "serve",
           S.mode = "requests" /\ Head(B).k = "preempt" =>
               Head(B).q \in v.waived \/ ~Reads(R, Head(B).q)
    PROVE  /\ RankOK(S, v, R, Tail(B), K, F)
           /\ Head(B).q \in Requests /\ ~Has(Tail(B), "save", Head(B).q)
           /\ Has(B, Head(B).k, Head(B).q)
BY ConsumeKeeps DEF RankOK, Message

-----------------------------------------------------------------------------
(* The steps of a worker *)

\* What a step leaves alone.
SameReads(v, u) ==
    /\ u.pending = v.pending /\ u.draining = v.draining /\ u.failed = v.failed
    /\ u.queued = v.queued /\ u.submitting = v.submitting
SameViews(v, u) ==
    /\ u.ready = v.ready /\ u.storeq = v.storeq /\ u.writer = v.writer /\ u.tickets = v.tickets
SameState(v, u) ==
    /\ u.eng = v.eng /\ u.high = v.high /\ u.fatal = v.fatal /\ u.closed = v.closed
    /\ u.waived = v.waived /\ u.leaked = v.leaked
SameAnswers(v, u) ==
    /\ u.completed = v.completed /\ u.ended = v.ended /\ u.done = v.done
    /\ u.inflight = v.inflight

\* Rank r before a step and after it: worker, ring and inbox; its answers so far.
Before(r, S, v, R, B, K, F) ==
    /\ r \in Ranks /\ v = w[r] /\ R = ring[r] /\ B = inbox[r]
    /\ w = [p \in Ranks |-> w[p]] /\ ring = [p \in Ranks |-> ring[p]]
    /\ inbox = [p \in Ranks |-> inbox[p]]
    /\ S \in BooksRecord /\ S.mode = mode /\ S.job = job
    /\ K \in SUBSET Requests /\ F \in SUBSET Requests /\ Vouched(v) \subseteq K
    /\ RankOK(S, v, R, B, K, F)
After(r, u, T, D) == u = w'[r] /\ T = ring'[r] /\ D = inbox'[r]

\* _mark_completed_locked and _finish_store leave alone who reads.
LEMMA MarkFields ==
    ASSUME NEW v \in WorkerRecord, NEW Q \in SUBSET Requests, NEW u, u = MarkCompleted(v, Q)
    PROVE  /\ u \in WorkerRecord /\ SameReads(v, u) /\ SameViews(v, u) /\ SameState(v, u)
           /\ u.thr = v.thr /\ u.ended = v.ended /\ u.inflight = v.inflight
           /\ mode = "jobs" => u.completed = v.completed /\ u.done = v.done \cup Q
           /\ mode # "jobs" => u.completed = v.completed \cup Q /\ u.done = v.done
<1>1. CASE mode = "jobs"
  <2>1. PICK d \in SUBSET Requests : d = v.done \cup Q
    BY DEF WorkerRecord
  <2>2. u = [v EXCEPT !.done = d]
    BY <1>1, <2>1 DEF MarkCompleted
  <2>3. u \in WorkerRecord
    BY <2>2 DEF WorkerRecord
  <2>4. /\ SameReads(v, u) /\ SameViews(v, u) /\ SameState(v, u) /\ u.thr = v.thr
        /\ u.ended = v.ended /\ u.completed = v.completed /\ u.done = d /\ u.inflight = v.inflight
    BY <2>2 DEF WorkerRecord, SameReads, SameViews, SameState
  <2> QED
    BY <1>1, <2>1, <2>3, <2>4
<1>2. CASE mode # "jobs"
  <2>1. PICK d \in SUBSET Requests : d = v.completed \cup Q
    BY DEF WorkerRecord
  <2>2. u = [v EXCEPT !.completed = d]
    BY <1>2, <2>1 DEF MarkCompleted
  <2>3. u \in WorkerRecord
    BY <2>2 DEF WorkerRecord
  <2>4. /\ SameReads(v, u) /\ SameViews(v, u) /\ SameState(v, u) /\ u.thr = v.thr
        /\ u.ended = v.ended /\ u.done = v.done /\ u.completed = d /\ u.inflight = v.inflight
    BY <2>2 DEF WorkerRecord, SameReads, SameViews, SameState
  <2> QED
    BY <1>2, <2>1, <2>3, <2>4
<1> QED
  BY <1>1, <1>2

\* _finish_store of a capture that was not committed.
LEMMA AbortFields ==
    ASSUME NEW v \in WorkerRecord, NEW q \in Requests, NEW c \in BOOLEAN, NEW u,
           u = FinishStore(v, q, c)
    PROVE  /\ u \in WorkerRecord /\ SameReads(v, u) /\ SameViews(v, u) /\ SameState(v, u)
           /\ u.thr = v.thr /\ u.completed = v.completed /\ u.ended = v.ended /\ u.done = v.done /\ ~u.inflight
<1>1. PICK h \in SUBSET Requests : h = IF c THEN v.held \cup {q} ELSE v.held \ {q}
  BY DEF WorkerRecord
<1>2. u = [v EXCEPT !.inflight = FALSE, !.held = h]
  BY <1>1 DEF FinishStore
<1>3. u \in WorkerRecord
  BY <1>2 DEF WorkerRecord
<1>4. /\ SameReads(v, u) /\ SameViews(v, u) /\ SameState(v, u) /\ u.thr = v.thr
      /\ u.completed = v.completed /\ u.ended = v.ended /\ u.done = v.done /\ ~u.inflight
  BY <1>2 DEF WorkerRecord, SameReads, SameViews, SameState
<1> QED
  BY <1>3, <1>4

\* The two together.
LEMMA EndFields ==
    ASSUME NEW v \in WorkerRecord, NEW q \in Requests, NEW u,
           u = AbortCapture(MarkCompleted(v, {q}), q)
    PROVE  /\ u \in WorkerRecord /\ SameReads(v, u) /\ SameViews(v, u) /\ SameState(v, u)
           /\ u.thr = v.thr /\ u.ended = v.ended /\ ~u.inflight
           /\ mode = "jobs" => u.completed = v.completed /\ u.done = v.done \cup {q}
           /\ mode # "jobs" => u.completed = v.completed \cup {q} /\ u.done = v.done
<1>1. PICK x : x = MarkCompleted(v, {q})
  OBVIOUS
<1>2. {q} \in SUBSET Requests /\ FALSE \in BOOLEAN
  OBVIOUS
<1>3. u = FinishStore(x, q, FALSE)
  BY <1>1 DEF AbortCapture
<1>4. /\ x \in WorkerRecord /\ SameReads(v, x) /\ SameViews(v, x) /\ SameState(v, x)
      /\ x.thr = v.thr /\ x.ended = v.ended
      /\ mode = "jobs" => x.completed = v.completed /\ x.done = v.done \cup {q}
      /\ mode # "jobs" => x.completed = v.completed \cup {q} /\ x.done = v.done
  BY <1>1, <1>2, MarkFields
<1>5. /\ u \in WorkerRecord /\ SameReads(x, u) /\ SameViews(x, u) /\ SameState(x, u)
      /\ u.thr = x.thr /\ u.completed = x.completed /\ u.ended = x.ended /\ u.done = x.done /\ ~u.inflight
  BY <1>2, <1>3, <1>4, AbortFields
<1> QED
  BY <1>4, <1>5 DEF SameReads, SameViews, SameState

\* The admission of a worker whose captures are the same, one less, or one more.
LEMMA AsksKept ==
    ASSUME NEW v, NEW u, AsksOne(v), Running(u) => Running(v),
           InProgress(u) = InProgress(v), u.inflight <=> v.inflight, u.leaked <=> v.leaked
    PROVE  AsksOne(u)
BY DEF AsksOne

LEMMA AsksLess ==
    ASSUME NEW v, NEW u, NEW q, AsksOne(v), Running(u) => Running(v), q \in InProgress(v),
           InProgress(u) \subseteq InProgress(v) \ {q}, ~u.inflight, u.leaked <=> v.leaked
    PROVE  AsksOne(u)
BY DEF AsksOne

LEMMA AsksMore ==
    ASSUME NEW v, NEW u, NEW q, AsksOne(v), Running(u) => Running(v), ~v.inflight,
           InProgress(u) = InProgress(v) \cup {q}, u.inflight, u.leaked <=> v.leaked
    PROVE  AsksOne(u)
BY DEF AsksOne

\* A step that starts nothing and leaves the ring alone.
LEMMA StillStep ==
    ASSUME NEW r, NEW S, NEW v, NEW R, NEW B, NEW K, NEW F, NEW u, Before(r, S, v, R, B, K, F),
           u \in WorkerRecord, ThreadOK(S.mode, u), Places(u), Booked(u, R),
           Calm(v, u), GivesUp(S.mode, v, u, R, B), Answers(S, v, u, R, B, K, K \cup Vouched(u), F, F)
    PROVE  RankOK(S, u, R, B, K \cup Vouched(u), F)
<1>1. /\ S \in BooksRecord /\ K \in SUBSET Requests /\ F \in SUBSET Requests
      /\ RankOK(S, v, R, B, K, F) /\ RingOK(R)
  BY DEF Before, RankOK
<1>2. RingMove(R, R, {}) /\ {} \cap (Lent(u) \cup Claimed(u)) = {}
  BY <1>1, StillRing
<1> QED
  BY <1>1, <1>2, QuietStep

\* The progress thread wakes up.
LEMMA WakeSafe ==
    ASSUME NEW r, NEW S, NEW v, NEW R, NEW B, NEW K, NEW F, NEW u, NEW T, NEW D,
           Before(r, S, v, R, B, K, F), After(r, u, T, D), Wake(r)
    PROVE  RankOK(S, u, T, D, K \cup Vouched(u), F)
<1>1. v \in WorkerRecord /\ ThreadOK(S.mode, v) /\ Places(v) /\ Booked(v, R) /\ RingOK(R)
  BY DEF Before, RankOK
<1>2. T = R /\ D = B /\ v.thr.pc = "idle" /\ ~v.closed /\ u = [v EXCEPT !.thr.pc = "take"]
  BY DEF Before, After, Wake, Become, At, Go
<1>8. u \in WorkerRecord
  BY <1>1, <1>2 DEF WorkerRecord, Thread
<1>3. /\ SameReads(v, u) /\ SameViews(v, u) /\ SameState(v, u)
      /\ SameAnswers(v, u) /\ u.thr.pc = "take" /\ u.thr.q = v.thr.q
      /\ u.thr.todo = v.thr.todo
  BY <1>1, <1>2 DEF WorkerRecord, Thread, SameReads, SameViews, SameState, SameAnswers
<1>4. ThreadOK(S.mode, u)
  BY <1>1, <1>2, <1>3 DEF ThreadOK, Submits, SameReads, SameState, SameAnswers
<1>5. Places(u)
  BY <1>1, <1>2, <1>3 DEF Places, Flying, Lent, SameReads, SameViews
<1>6. Calm(v, u) /\ GivesUp(S.mode, v, u, R, B)
  BY <1>2, <1>3 DEF Calm, GivesUp, Flying, Lent, Early, Owned, Claimed, Claiming, SameReads,
     SameViews,
                    SameState
<1>7. Answers(S, v, u, R, B, K, K \cup Vouched(u), F, F)
  BY <1>3 DEF Before, RankOK, Related, FinishedOK, Answers, Vouched, SameState, SameAnswers
<1>9. InProgress(u) = InProgress(v)
  BY <1>2, <1>3 DEF InProgress, SameReads, SameViews
<1>10. AsksOne(u)
  BY <1>1, <1>3, <1>9, AsksKept DEF Booked, Running, SameState, SameAnswers
<1>11. Booked(u, R)
  BY <1>1, <1>2, <1>3, <1>10 DEF Booked, RoundOK, EndsClean, Running, ThreadOK, SameReads, SameViews,
     SameState, SameAnswers
<1> QED
  BY <1>2, <1>4, <1>5, <1>6, <1>7, <1>8, <1>11, StillStep

\* NoRequest names nobody.
LEMMA NoRequestIsNone == NoRequest \notin Requests
BY RingConstants DEF NoRequest, Requests

\* Who is on the way to the ring or reads it was asked for and is not answered yet.
LEMMA OwnedFacts ==
    ASSUME NEW r, NEW S, NEW v, NEW R, NEW B, NEW K, NEW F, Before(r, S, v, R, B, K, F)
    PROVE  /\ Early(v) \cup Flying(v) \subseteq Owned(v) /\ Owned(v) \subseteq Requests
           /\ \A q \in Owned(v) : ~New(S.mode, S.job, v, B, q) /\ q \notin S.unsent
           /\ \A q \in Owned(v) : mode = "jobs" => S.job[q] <= v.high
           /\ \A q \in Early(v) \cup Flying(v) : q \notin K
           /\ \A q \in Early(v) : mode = "jobs" /\ Unused(v, R, q) /\ ~Reads(R, q)
<1>1. v \in WorkerRecord /\ ThreadOK(S.mode, v) /\ S \in BooksRecord /\ Related(S, v, R, B, K, F)
      /\ S.mode = mode /\ S.mode \in {"jobs", "requests"}
  BY DEF Before, RankOK, BooksRecord
<1>2. Early(v) \cup Flying(v) \subseteq Owned(v)
  BY <1>1 DEF Early, Flying, Owned, ThreadOK, Submits
<1>3. Owned(v) \subseteq Requests
  BY <1>1 DEF Owned, WorkerRecord
<1>4. \A q \in Owned(v) : ~New(S.mode, S.job, v, B, q) /\ q \notin S.unsent
  BY <1>1, <1>3 DEF Related, InboxOK, UnknownOK
<1>9. \A q \in Requests : S.job[q] \in Nat /\ v.high \in Nat
  BY <1>1 DEF BooksRecord, WorkerRecord
<1>10. \A q \in Owned(v) : mode = "jobs" => S.job[q] <= v.high
  BY <1>1, <1>3, <1>4, <1>9 DEF New
<1>5. \A q \in Early(v) \cup Flying(v) : q \notin K
  BY <1>1 DEF Related, AckOK
<1>6. \A q \in Early(v) : Unused(v, R, q)
  BY <1>1 DEF Related, ReadsOK
<1>7. \A q : Unused(v, R, q) => ~Reads(R, q)
  BY DEF Unused, Reads
<1>8. \A q \in Early(v) : mode = "jobs"
  BY <1>1 DEF Early, ThreadOK, Submits
<1> QED
  BY <1>2, <1>3, <1>4, <1>5, <1>6, <1>7, <1>8, <1>10

\* A thread that moves on.
LEMMA GoFields ==
    ASSUME NEW v \in WorkerRecord, NEW u, NEW pc, [v.thr EXCEPT !.pc = pc] \in Thread, u = Go(v,
           pc)
    PROVE  /\ u \in WorkerRecord /\ SameReads(v, u) /\ SameViews(v, u) /\ SameState(v, u)
           /\ SameAnswers(v, u) /\ u.thr.pc = pc /\ u.thr.q = v.thr.q /\ u.thr.todo = v.thr.todo
<1>1. PICK t \in Thread : t = [v.thr EXCEPT !.pc = pc]
  OBVIOUS
<1>2. v.thr \in Thread
  BY DEF WorkerRecord
<1>3. t.pc = pc /\ t.q = v.thr.q /\ t.todo = v.thr.todo
  BY <1>1, <1>2 DEF Thread
<1>4. u = [v EXCEPT !.thr = t]
  BY <1>1 DEF Go
<1>5. u \in WorkerRecord
  BY <1>4 DEF WorkerRecord
<1>6. SameReads(v, u) /\ SameViews(v, u) /\ SameState(v, u) /\ SameAnswers(v, u) /\ u.thr = t
  BY <1>4 DEF WorkerRecord, SameReads, SameViews, SameState, SameAnswers
<1> QED
  BY <1>3, <1>5, <1>6

\* A queued job is taken, or given up before it reached the ring.
LEMMA TakeQueuedSafe ==
    ASSUME NEW r, NEW S, NEW v, NEW R, NEW B, NEW K, NEW F, NEW u, NEW T, NEW D, NEW q,
           Before(r, S, v, R, B, K, F), After(r, u, T, D), TakeQueued(r, q)
    PROVE  RankOK(S, u, T, D, K \cup Vouched(u), F)
<1>1. v \in WorkerRecord /\ ThreadOK(S.mode, v) /\ Places(v) /\ Booked(v, R) /\ RingOK(R)
      /\ v.thr \in Thread /\ S.mode = mode /\ S.mode \in {"jobs", "requests"}
      /\ Related(S, v, R, B, K, F)
  BY DEF Before, RankOK, WorkerRecord, BooksRecord
<1>2. T = R /\ D = B /\ v.thr.pc = "take" /\ q \in v.queued
  BY DEF Before, After, TakeQueued, At
<1>3. q \in Requests /\ q \in Early(v)
  BY <1>1, <1>2 DEF WorkerRecord, Early
<1>4. /\ mode = "jobs" /\ ~Reads(R, q) /\ S.job[q] <= v.high /\ q \notin S.unsent
      /\ q \notin Flying(v) \cup Lent(v) \cup v.failed
  BY <1>3, OwnedFacts DEF Unused
<1>5. PICK x : x = [v EXCEPT !.queued = @ \ {q}, !.submitting = @ \cup {q}, !.thr.q = q]
  OBVIOUS
<1>6. /\ x.queued = v.queued \ {q} /\ x.submitting = v.submitting \cup {q}
      /\ x.pending = v.pending /\ x.draining = v.draining /\ x.failed = v.failed
      /\ SameViews(v, x) /\ SameState(v, x) /\ SameAnswers(v, x)
      /\ x.thr = [v.thr EXCEPT !.q = q]
  <2>1. PICK a \in SUBSET Requests, b \in SUBSET Requests :
           a = v.queued \ {q} /\ b = v.submitting \cup {q}
    BY <1>1, <1>3 DEF WorkerRecord
  <2>2. x = [v EXCEPT !.queued = a, !.submitting = b, !.thr.q = q]
    BY <1>5, <2>1
  <2> QED
    BY <1>1, <2>1, <2>2 DEF WorkerRecord, SameViews, SameState, SameAnswers
<1>7. x \in WorkerRecord
  <2>1. PICK a \in SUBSET Requests, b \in SUBSET Requests :
           a = v.queued \ {q} /\ b = v.submitting \cup {q}
    BY <1>1, <1>3 DEF WorkerRecord
  <2>2. PICK t \in Thread : t = [v.thr EXCEPT !.q = q]
    BY <1>1, <1>3 DEF Thread
  <2>3. x = [v EXCEPT !.queued = a, !.submitting = b, !.thr = t]
    BY <1>1, <1>5, <2>1, <2>2 DEF WorkerRecord
  <2> QED
    BY <1>1, <2>3 DEF WorkerRecord
<1>8. x.thr \in Thread /\ x.thr.q = q /\ x.thr.todo = v.thr.todo /\ x.thr.pc = "take"
  BY <1>1, <1>2, <1>3, <1>6 DEF Thread
<1>9. CASE u = Go(x, "check")
  <2>1. [x.thr EXCEPT !.pc = "check"] \in Thread
    BY <1>8 DEF Thread
  <2>2. /\ u \in WorkerRecord /\ SameReads(x, u) /\ SameViews(x, u) /\ SameState(x, u)
        /\ SameAnswers(x, u) /\ u.thr.pc = "check" /\ u.thr.q = q /\ u.thr.todo = v.thr.todo
    BY <1>7, <1>8, <1>9, <2>1, GoFields
  <2>a. ThreadOK(S.mode, u)
    BY <1>1, <1>2, <1>3, <1>4, <1>6, <2>2, NoRequestIsNone DEF ThreadOK, Submits, SameReads,
       SameViews, SameState, SameAnswers
  <2>b. Places(u)
    BY <1>1, <1>2, <1>3, <1>4, <1>6, <2>2, NoRequestIsNone DEF Places, Flying, Lent, SameReads,
       SameViews
  <2>c. Calm(v, u)
    BY <1>1, <1>2, <1>3, <1>4, <1>6, <2>2 DEF Calm, Flying, Lent, Early, Owned, Claimed,
       Claiming, SameReads, SameViews, SameState, SameAnswers
  <2>d. GivesUp(S.mode, v, u, R, B)
    BY <1>1, <1>2, <1>3, <1>4, <1>6, <2>2 DEF GivesUp, Flying, SameReads, SameViews, SameState,
       SameAnswers
  <2>e. Answers(S, v, u, R, B, K, K \cup Vouched(u), F, F)
    BY <1>1, <1>2, <1>3, <1>4, <1>6, <2>2 DEF Before, Related, FinishedOK, Answers, Vouched, Early,
       Flying, SameReads, SameViews, SameState, SameAnswers
  <2>g. InProgress(u) = InProgress(v)
    BY <1>1, <1>2, <1>3, <1>4, <1>6, <2>2, NoRequestIsNone DEF InProgress, SameReads, SameViews,
       SameState, SameAnswers
  <2>h. AsksOne(u)
    BY <1>1, <1>2, <1>3, <1>4, <1>6, <2>2, <2>g, AsksKept DEF Booked, Running, SameReads, SameViews,
       SameState, SameAnswers
  <2>i. Booked(u, R)
    BY <1>1, <1>2, <1>3, <1>4, <1>6, <2>2, <2>h DEF Booked, RoundOK, EndsClean, Running, ThreadOK,
       RingOK, SameReads, SameViews, SameState, SameAnswers
  <2> QED
    BY <1>2, <1>3, <1>4, <1>6, <2>2, <2>a, <2>b, <2>c, <2>d, <2>e, <2>i, StillStep
<1>10. CASE u = Go(AbortCapture(MarkCompleted(x, {q}), q), "finally")
  <2>1. PICK y : y = AbortCapture(MarkCompleted(x, {q}), q)
    OBVIOUS
  <2>2. /\ y \in WorkerRecord /\ SameReads(x, y) /\ SameViews(x, y) /\ SameState(x, y)
        /\ y.thr = x.thr /\ y.ended = x.ended /\ y.completed = x.completed
        /\ y.done = x.done \cup {q} /\ ~y.inflight
    BY <1>3, <1>4, <1>7, <2>1, EndFields
  <2>3. [y.thr EXCEPT !.pc = "finally"] \in Thread
    BY <1>8, <2>2 DEF Thread
  <2>4. /\ u \in WorkerRecord /\ SameReads(y, u) /\ SameViews(y, u) /\ SameState(y, u)
        /\ SameAnswers(y, u) /\ u.thr.pc = "finally" /\ u.thr.q = q /\ u.thr.todo = v.thr.todo
    BY <1>8, <1>10, <2>1, <2>2, <2>3, GoFields
  <2>a. ThreadOK(S.mode, u)
    BY <1>1, <1>2, <1>3, <1>4, <1>6, <2>2, <2>4, NoRequestIsNone DEF ThreadOK, Submits,
       SameReads, SameViews, SameState, SameAnswers
  <2>b. Places(u)
    BY <1>1, <1>2, <1>3, <1>4, <1>6, <2>2, <2>4, NoRequestIsNone DEF Places, Flying, Lent,
       SameReads, SameViews
  <2>c. Calm(v, u)
    BY <1>1, <1>2, <1>3, <1>4, <1>6, <2>2, <2>4 DEF Calm, Flying, Lent, Early, Owned, Claimed,
       Claiming, SameReads, SameViews, SameState, SameAnswers
  <2>d. GivesUp(S.mode, v, u, R, B)
    BY <1>1, <1>2, <1>3, <1>4, <1>6, <2>2, <2>4 DEF GivesUp, Flying, SameReads, SameViews,
       SameState, SameAnswers
  <2>e. Answers(S, v, u, R, B, K, K \cup Vouched(u), F, F)
    BY <1>1, <1>2, <1>3, <1>4, <1>6, <2>2, <2>4 DEF Before, Related, FinishedOK, Answers, Vouched, Early,
       Flying, SameReads, SameViews, SameState, SameAnswers
  <2>g. q \in InProgress(v) /\ InProgress(u) \subseteq InProgress(v) \ {q}
    BY <1>1, <1>2, <1>3, <1>4, <1>6, <2>2, <2>4, NoRequestIsNone DEF InProgress, Places, Flying,
       Lent, SameReads, SameViews, SameState, SameAnswers
  <2>h. AsksOne(u)
    BY <1>1, <1>2, <1>3, <1>4, <1>6, <2>2, <2>4, <2>g, AsksLess DEF Booked, Running, SameReads,
       SameViews, SameState, SameAnswers
  <2>i. Booked(u, R)
    BY <1>1, <1>2, <1>3, <1>4, <1>6, <2>2, <2>4, <2>h DEF Booked, RoundOK, EndsClean, Running,
       ThreadOK, RingOK, SameReads, SameViews, SameState, SameAnswers
  <2> QED
    BY <1>2, <1>3, <1>4, <1>6, <2>2, <2>4, <2>a, <2>b, <2>c, <2>d, <2>e, <2>i, StillStep
<1> QED
  BY <1>5, <1>9, <1>10 DEF Before, After, TakeQueued, Become

\* The second check before the submission.
LEMMA CheckAgainSafe ==
    ASSUME NEW r, NEW S, NEW v, NEW R, NEW B, NEW K, NEW F, NEW u, NEW T, NEW D,
           Before(r, S, v, R, B, K, F), After(r, u, T, D), CheckAgain(r)
    PROVE  RankOK(S, u, T, D, K \cup Vouched(u), F)
<1>1. v \in WorkerRecord /\ ThreadOK(S.mode, v) /\ Places(v) /\ Booked(v, R) /\ RingOK(R)
      /\ v.thr \in Thread /\ S.mode = mode /\ S.mode \in {"jobs", "requests"}
      /\ Related(S, v, R, B, K, F)
  BY DEF Before, RankOK, WorkerRecord, BooksRecord
<1>2. T = R /\ D = B /\ v.thr.pc = "check"
  BY DEF Before, After, CheckAgain, At
<1>3. PICK q : q = v.thr.q
  OBVIOUS
<1>4. q \in Early(v)
  BY <1>2, <1>3 DEF Early
<1>5. /\ mode = "jobs" /\ ~Reads(R, q) /\ S.job[q] <= v.high /\ q \notin S.unsent /\ q \in Requests
      /\ q \notin Flying(v) \cup Lent(v) \cup v.failed
  BY <1>4, OwnedFacts DEF Unused
<1>8. q \notin v.queued
  BY <1>1, <1>2, <1>3 DEF ThreadOK, Submits
<1>6. CASE u = Go(v, "native")
  <2>1. [v.thr EXCEPT !.pc = "native"] \in Thread
    BY <1>1 DEF Thread
  <2>2. /\ u \in WorkerRecord /\ SameReads(v, u) /\ SameViews(v, u) /\ SameState(v, u)
        /\ SameAnswers(v, u) /\ u.thr.pc = "native" /\ u.thr.q = q /\ u.thr.todo = v.thr.todo
    BY <1>1, <1>3, <1>6, <2>1, GoFields
  <2>a. ThreadOK(S.mode, u)
    BY <1>1, <1>2, <1>3, <1>5, <2>2, NoRequestIsNone DEF ThreadOK, Submits, SameReads,
       SameViews, SameState, SameAnswers
  <2>b. Places(u)
    BY <1>1, <1>2, <1>3, <1>5, <2>2, NoRequestIsNone DEF Places, Flying, Lent, SameReads,
       SameViews
  <2>c. Calm(v, u)
    BY <1>1, <1>2, <1>3, <1>5, <2>2 DEF Calm, Flying, Lent, Early, Owned, Claimed, Claiming,
       SameReads, SameViews, SameState, SameAnswers
  <2>d. GivesUp(S.mode, v, u, R, B)
    BY <1>1, <1>2, <1>3, <1>5, <2>2 DEF GivesUp, Flying, SameReads, SameViews, SameState,
       SameAnswers
  <2>e. Answers(S, v, u, R, B, K, K \cup Vouched(u), F, F)
    BY <1>1, <1>2, <1>3, <1>5, <2>2 DEF Before, Related, FinishedOK, Answers, Vouched, Early, Flying,
       SameReads, SameViews, SameState, SameAnswers
  <2>g. InProgress(u) = InProgress(v)
    BY <1>1, <1>2, <1>3, <1>5, <2>2, NoRequestIsNone DEF InProgress, SameReads, SameViews,
       SameState, SameAnswers
  <2>h. AsksOne(u)
    BY <1>1, <1>2, <1>3, <1>5, <2>2, <2>g, AsksKept DEF Booked, Running, SameReads, SameViews,
       SameState, SameAnswers
  <2>i. Booked(u, R)
    BY <1>1, <1>2, <1>3, <1>5, <2>2, <2>h DEF Booked, RoundOK, EndsClean, Running, ThreadOK, RingOK,
       SameReads, SameViews, SameState, SameAnswers
  <2> QED
    BY <1>2, <1>3, <1>5, <2>2, <2>a, <2>b, <2>c, <2>d, <2>e, <2>i, StillStep
<1>7. CASE u = Go(AbortCapture(MarkCompleted(v, {q}), q), "finally")
  <2>1. PICK y : y = AbortCapture(MarkCompleted(v, {q}), q)
    OBVIOUS
  <2>2. /\ y \in WorkerRecord /\ SameReads(v, y) /\ SameViews(v, y) /\ SameState(v, y)
        /\ y.thr = v.thr /\ y.ended = v.ended /\ y.completed = v.completed
        /\ y.done = v.done \cup {q} /\ ~y.inflight
    BY <1>1, <1>5, <2>1, EndFields
  <2>3. [y.thr EXCEPT !.pc = "finally"] \in Thread
    BY <1>1, <2>2 DEF Thread
  <2>4. /\ u \in WorkerRecord /\ SameReads(y, u) /\ SameViews(y, u) /\ SameState(y, u)
        /\ SameAnswers(y, u) /\ u.thr.pc = "finally" /\ u.thr.q = q /\ u.thr.todo = v.thr.todo
    BY <1>3, <1>7, <2>1, <2>2, <2>3, GoFields
  <2>a. ThreadOK(S.mode, u)
    BY <1>1, <1>2, <1>3, <1>5, <1>8, <2>2, <2>4, NoRequestIsNone DEF ThreadOK, Submits,
       SameReads, SameViews, SameState, SameAnswers
  <2>b. Places(u)
    BY <1>1, <1>2, <1>3, <1>5, <1>8, <2>2, <2>4, NoRequestIsNone DEF Places, Flying, Lent,
       SameReads, SameViews
  <2>c. Calm(v, u)
    BY <1>1, <1>2, <1>3, <1>5, <1>8, <2>2, <2>4 DEF Calm, Flying, Lent, Early, Owned, Claimed,
       Claiming, SameReads, SameViews, SameState, SameAnswers
  <2>d. GivesUp(S.mode, v, u, R, B)
    BY <1>1, <1>2, <1>3, <1>5, <1>8, <2>2, <2>4 DEF GivesUp, Flying, SameReads, SameViews,
       SameState, SameAnswers
  <2>e. Answers(S, v, u, R, B, K, K \cup Vouched(u), F, F)
    BY <1>1, <1>2, <1>3, <1>5, <1>8, <2>2, <2>4 DEF Before, Related, FinishedOK, Answers, Vouched, Early,
       Flying, SameReads, SameViews, SameState, SameAnswers
  <2>g. q \in InProgress(v) /\ InProgress(u) \subseteq InProgress(v) \ {q}
    BY <1>1, <1>2, <1>3, <1>5, <1>8, <2>2, <2>4, NoRequestIsNone DEF InProgress, Places, Flying,
       Lent, SameReads, SameViews, SameState, SameAnswers
  <2>h. AsksOne(u)
    BY <1>1, <1>2, <1>3, <1>5, <1>8, <2>2, <2>4, <2>g, AsksLess DEF Booked, Running, SameReads,
       SameViews, SameState, SameAnswers
  <2>i. Booked(u, R)
    BY <1>1, <1>2, <1>3, <1>5, <1>8, <2>2, <2>4, <2>h DEF Booked, RoundOK, EndsClean, Running,
       ThreadOK, RingOK, SameReads, SameViews, SameState, SameAnswers
  <2> QED
    BY <1>2, <1>3, <1>5, <1>8, <2>2, <2>4, <2>a, <2>b, <2>c, <2>d, <2>e, <2>i, StillStep
<1> QED
  BY <1>3, <1>6, <1>7 DEF Before, After, CheckAgain, Become

\* The submitted capture becomes a pending one.
LEMMA InsertPendingSafe ==
    ASSUME NEW r, NEW S, NEW v, NEW R, NEW B, NEW K, NEW F, NEW u, NEW T, NEW D,
           Before(r, S, v, R, B, K, F), After(r, u, T, D), InsertPending(r)
    PROVE  RankOK(S, u, T, D, K \cup Vouched(u), F)
<1>1. v \in WorkerRecord /\ ThreadOK(S.mode, v) /\ Places(v) /\ Booked(v, R) /\ RingOK(R)
      /\ v.thr \in Thread /\ S.mode = mode /\ S.mode \in {"jobs", "requests"}
      /\ Related(S, v, R, B, K, F)
  BY DEF Before, RankOK, WorkerRecord, BooksRecord
<1>2. T = R /\ D = B /\ v.thr.pc = "insert"
  BY DEF Before, After, InsertPending, At
<1>3. PICK q : q = v.thr.q
  OBVIOUS
<1>4. q \in Flying(v) /\ q \in Owned(v) /\ q \in Requests
  BY <1>1, <1>2, <1>3, OwnedFacts DEF Flying
<1>5. PICK a \in SUBSET Requests, b \in SUBSET Requests :
         a = v.pending \cup {q} /\ b = IF q \in v.cancelled THEN v.abandoned \cup {q} ELSE v.abandoned
  BY <1>1, <1>4 DEF WorkerRecord
<1>6. PICK t \in Thread : t = [v.thr EXCEPT !.pc = "finally"]
  BY <1>1 DEF Thread
<1>7. u = [v EXCEPT !.pending = a, !.abandoned = b, !.thr = t]
  <2>1. PICK x : x = [v EXCEPT !.pending = a, !.abandoned = b]
    OBVIOUS
  <2>2. u = Go(x, "finally")
    BY <1>3, <1>5, <2>1 DEF Before, After, InsertPending, Become
  <2>3. x.thr = v.thr
    BY <1>1, <2>1 DEF WorkerRecord
  <2>4. u = [x EXCEPT !.thr = t]
    BY <1>6, <2>2, <2>3 DEF Go
  <2> QED
    BY <2>1, <2>4
<1>8. u \in WorkerRecord
  BY <1>1, <1>7 DEF WorkerRecord
<1>9. /\ u.pending = v.pending \cup {q} /\ u.draining = v.draining /\ u.failed = v.failed
      /\ u.queued = v.queued /\ u.submitting = v.submitting /\ u.thr = t
      /\ SameViews(v, u) /\ SameState(v, u) /\ SameAnswers(v, u)
  BY <1>1, <1>5, <1>7 DEF WorkerRecord, SameViews, SameState, SameAnswers
<1>10. t.pc = "finally" /\ t.q = q /\ t.todo = v.thr.todo
  BY <1>1, <1>3, <1>6 DEF Thread
<1>a. ThreadOK(S.mode, u)
  BY <1>1, <1>2, <1>3, <1>4, <1>8, <1>9, <1>10, NoRequestIsNone DEF ThreadOK, Submits,
     SameReads, SameViews, SameState, SameAnswers
<1>b. Places(u)
  BY <1>1, <1>2, <1>3, <1>4, <1>8, <1>9, <1>10, NoRequestIsNone DEF Places, Flying, Lent,
     SameReads, SameViews
<1>c. Calm(v, u)
  BY <1>1, <1>2, <1>3, <1>4, <1>8, <1>9, <1>10, OwnedFacts DEF Calm, Flying, Lent, Early, Owned,
     Claimed, Claiming, SameReads, SameViews, SameState, SameAnswers
<1>d. GivesUp(S.mode, v, u, R, B)
  BY <1>1, <1>2, <1>3, <1>4, <1>8, <1>9, <1>10 DEF GivesUp, Flying, SameReads, SameViews,
     SameState, SameAnswers
<1>e. Answers(S, v, u, R, B, K, K \cup Vouched(u), F, F)
  BY <1>1, <1>2, <1>3, <1>4, <1>8, <1>9, <1>10 DEF Before, Related, FinishedOK, Answers, Vouched, Early,
     Flying, SameReads, SameViews, SameState, SameAnswers
<1>g. InProgress(u) = InProgress(v)
  BY <1>1, <1>2, <1>3, <1>4, <1>8, <1>9, <1>10, NoRequestIsNone DEF InProgress, SameReads,
     SameViews, SameState, SameAnswers
<1>h. AsksOne(u)
  BY <1>1, <1>2, <1>3, <1>4, <1>8, <1>9, <1>10, <1>g, AsksKept DEF Booked, Running, SameReads,
     SameViews, SameState, SameAnswers
<1>i. Booked(u, R)
  BY <1>1, <1>2, <1>3, <1>4, <1>8, <1>9, <1>10, <1>h DEF Booked, RoundOK, EndsClean, Running,
     ThreadOK, RingOK, SameReads, SameViews, SameState, SameAnswers
<1> QED
  BY <1>2, <1>3, <1>4, <1>8, <1>9, <1>10, <1>a, <1>b, <1>c, <1>d, <1>e, <1>i, StillStep

\* The finally clause: the submission is over.
LEMMA EndSubmitSafe ==
    ASSUME NEW r, NEW S, NEW v, NEW R, NEW B, NEW K, NEW F, NEW u, NEW T, NEW D,
           Before(r, S, v, R, B, K, F), After(r, u, T, D), EndSubmit(r)
    PROVE  RankOK(S, u, T, D, K \cup Vouched(u), F)
<1>1. v \in WorkerRecord /\ ThreadOK(S.mode, v) /\ Places(v) /\ Booked(v, R) /\ RingOK(R)
      /\ v.thr \in Thread /\ S.mode = mode /\ S.mode \in {"jobs", "requests"}
      /\ Related(S, v, R, B, K, F)
  BY DEF Before, RankOK, WorkerRecord, BooksRecord
<1>2. T = R /\ D = B /\ v.thr.pc = "finally"
  BY DEF Before, After, EndSubmit, At
<1>3. PICK q : q = v.thr.q
  OBVIOUS
<1>4. PICK a \in SUBSET Requests, b \in SUBSET Requests :
         a = v.submitting \ {q} /\ b = v.cancelled \ {q}
  BY <1>1 DEF WorkerRecord
<1>5. PICK t \in Thread : t = [v.thr EXCEPT !.q = NoRequest, !.pc = "take"]
  BY <1>1 DEF Thread
<1>6. u = [v EXCEPT !.submitting = a, !.cancelled = b, !.thr = t]
  <2>1. PICK x : x = [v EXCEPT !.submitting = a, !.cancelled = b, !.thr.q = NoRequest]
    OBVIOUS
  <2>2. u = Go(x, "take")
    BY <1>3, <1>4, <2>1 DEF Before, After, EndSubmit, Become
  <2>3. x.thr = [v.thr EXCEPT !.q = NoRequest]
    BY <1>1, <2>1 DEF WorkerRecord
  <2>4. u = [x EXCEPT !.thr = t]
    BY <1>1, <1>5, <2>2, <2>3 DEF Go, Thread
  <2> QED
    BY <1>1, <2>1, <2>4 DEF WorkerRecord
<1>7. u \in WorkerRecord
  BY <1>1, <1>6 DEF WorkerRecord
<1>8. /\ u.pending = v.pending /\ u.draining = v.draining /\ u.failed = v.failed
      /\ u.queued = v.queued /\ u.submitting = v.submitting \ {q} /\ u.thr = t
      /\ SameViews(v, u) /\ SameState(v, u) /\ SameAnswers(v, u)
  BY <1>1, <1>4, <1>6 DEF WorkerRecord, SameViews, SameState, SameAnswers
<1>9. t.pc = "take" /\ t.q = NoRequest /\ t.todo = v.thr.todo
  BY <1>1, <1>5 DEF Thread
<1>a. ThreadOK(S.mode, u)
  BY <1>1, <1>2, <1>3, <1>7, <1>8, <1>9, NoRequestIsNone DEF ThreadOK, Submits, SameReads,
     SameViews, SameState, SameAnswers
<1>b. Places(u)
  BY <1>1, <1>2, <1>3, <1>7, <1>8, <1>9, NoRequestIsNone DEF Places, Flying, Lent, SameReads,
     SameViews
<1>c. Calm(v, u)
  BY <1>1, <1>2, <1>3, <1>7, <1>8, <1>9 DEF Calm, Flying, Lent, Early, Owned, Claimed, Claiming,
     SameReads, SameViews, SameState, SameAnswers
<1>d. GivesUp(S.mode, v, u, R, B)
  BY <1>1, <1>2, <1>3, <1>7, <1>8, <1>9 DEF GivesUp, Flying, SameReads, SameViews, SameState,
     SameAnswers
<1>e. Answers(S, v, u, R, B, K, K \cup Vouched(u), F, F)
  BY <1>1, <1>2, <1>3, <1>7, <1>8, <1>9 DEF Before, Related, FinishedOK, Answers, Vouched, Early, Flying,
     SameReads, SameViews, SameState, SameAnswers
<1>g. InProgress(u) = InProgress(v)
  BY <1>1, <1>2, <1>3, <1>7, <1>8, <1>9, NoRequestIsNone DEF InProgress, SameReads, SameViews,
     SameState, SameAnswers
<1>h. AsksOne(u)
  BY <1>1, <1>2, <1>3, <1>7, <1>8, <1>9, <1>g, AsksKept DEF Booked, Running, SameReads, SameViews,
     SameState, SameAnswers
<1>i. Booked(u, R)
  BY <1>1, <1>2, <1>3, <1>7, <1>8, <1>9, <1>h DEF Booked, RoundOK, EndsClean, Running, ThreadOK,
     RingOK, SameReads, SameViews, SameState, SameAnswers
<1> QED
  BY <1>2, <1>3, <1>7, <1>8, <1>9, <1>a, <1>b, <1>c, <1>d, <1>e, <1>i, StillStep

\* Nothing is queued: poll the pending captures, or report them as uncertain.
LEMMA AllTakenSafe ==
    ASSUME NEW r, NEW S, NEW v, NEW R, NEW B, NEW K, NEW F, NEW u, NEW T, NEW D,
           Before(r, S, v, R, B, K, F), After(r, u, T, D), AllTaken(r)
    PROVE  RankOK(S, u, T, D, K \cup Vouched(u), F)
<1>1. v \in WorkerRecord /\ ThreadOK(S.mode, v) /\ Places(v) /\ Booked(v, R) /\ RingOK(R)
      /\ v.thr \in Thread /\ S.mode = mode /\ S.mode \in {"jobs", "requests"}
      /\ Related(S, v, R, B, K, F)
  BY DEF Before, RankOK, WorkerRecord, BooksRecord
<1>2. T = R /\ D = B /\ v.thr.pc = "take" /\ v.queued = {}
  BY DEF Before, After, AllTaken, At
<1>3. v.pending \subseteq Flying(v) /\ v.pending \subseteq Requests
  BY <1>1 DEF Flying, WorkerRecord
<1>4. CASE v.fatal
  <2>1. PICK a \in SUBSET Requests, b \in SUBSET Requests :
           a = v.failed \cup v.pending /\ b = v.uncertain \cup v.pending
    BY <1>1 DEF WorkerRecord
  <2>2. PICK x : x = [v EXCEPT !.failed = a, !.uncertain = b, !.wake = FALSE]
    OBVIOUS
  <2>3. u = Go(x, "idle")
    BY <1>4, <2>1, <2>2 DEF Before, After, AllTaken, Become
  <2>4. x \in WorkerRecord
    BY <1>1, <2>2 DEF WorkerRecord
  <2>5. /\ x.pending = v.pending /\ x.draining = v.draining /\ x.failed = v.failed \cup v.pending
        /\ x.queued = v.queued /\ x.submitting = v.submitting /\ x.thr = v.thr
        /\ SameViews(v, x) /\ SameState(v, x) /\ SameAnswers(v, x)
    BY <1>1, <2>1, <2>2 DEF WorkerRecord, SameViews, SameState, SameAnswers
  <2>6. [x.thr EXCEPT !.pc = "idle"] \in Thread
    BY <1>1, <2>5 DEF Thread
  <2>7. /\ u \in WorkerRecord /\ SameReads(x, u) /\ SameViews(x, u) /\ SameState(x, u)
        /\ SameAnswers(x, u) /\ u.thr.pc = "idle" /\ u.thr.q = v.thr.q
    BY <2>3, <2>4, <2>5, <2>6, GoFields
  <2>a. ThreadOK(S.mode, u)
    BY <1>1, <1>2, <1>3, <1>4, <2>5, <2>7, NoRequestIsNone DEF ThreadOK, Submits, SameReads,
       SameViews, SameState, SameAnswers
  <2>b. Places(u)
    BY <1>1, <1>2, <1>3, <1>4, <2>5, <2>7, NoRequestIsNone DEF Places, Flying, Lent, SameReads,
       SameViews
  <2>c. Calm(v, u)
    BY <1>1, <1>2, <1>3, <1>4, <2>5, <2>7 DEF Calm, Flying, Lent, Early, Owned, Claimed,
       Claiming, SameReads, SameViews, SameState, SameAnswers
  <2>d. GivesUp(S.mode, v, u, R, B)
    BY <1>1, <1>2, <1>3, <1>4, <2>5, <2>7 DEF GivesUp, Flying, SameReads, SameViews, SameState,
       SameAnswers
  <2>e. Answers(S, v, u, R, B, K, K \cup Vouched(u), F, F)
    BY <1>1, <1>2, <1>3, <1>4, <2>5, <2>7 DEF Before, Related, FinishedOK, Answers, Vouched, Early,
       Flying, SameReads, SameViews, SameState, SameAnswers
  <2>h. AsksOne(u)
    BY <1>1, <1>2, <1>3, <1>4, <2>5, <2>7 DEF AsksOne, Running, SameReads, SameViews, SameState,
       SameAnswers
  <2>i. Booked(u, R)
    BY <1>1, <1>2, <1>3, <1>4, <2>5, <2>7, <2>h DEF Booked, RoundOK, EndsClean, Running, ThreadOK,
       RingOK, SameReads, SameViews, SameState, SameAnswers
  <2> QED
    BY <1>2, <1>3, <1>4, <2>5, <2>7, <2>a, <2>b, <2>c, <2>d, <2>e, <2>i, StillStep
<1>5. CASE ~v.fatal
  <2>1. PICK t \in Thread : t = [v.thr EXCEPT !.todo = v.pending, !.pc = "poll"]
    BY <1>1, <1>3 DEF Thread
  <2>2. u = [v EXCEPT !.thr = t]
    <3>1. PICK x : x = [v EXCEPT !.thr.todo = v.pending]
      OBVIOUS
    <3>2. u = Go(x, "poll")
      BY <1>5, <3>1 DEF Before, After, AllTaken, Become
    <3>3. x.thr = [v.thr EXCEPT !.todo = v.pending]
      BY <1>1, <3>1 DEF WorkerRecord
    <3>4. u = [x EXCEPT !.thr = t]
      BY <1>1, <2>1, <3>2, <3>3 DEF Go, Thread
    <3> QED
      BY <1>1, <3>1, <3>4 DEF WorkerRecord
  <2>3. u \in WorkerRecord
    BY <1>1, <2>2 DEF WorkerRecord
  <2>4. SameReads(v, u) /\ SameViews(v, u) /\ SameState(v, u) /\ SameAnswers(v, u) /\ u.thr = t
    BY <1>1, <2>2 DEF WorkerRecord, SameReads, SameViews, SameState, SameAnswers
  <2>5. t.pc = "poll" /\ t.q = v.thr.q /\ t.todo = v.pending
    BY <1>1, <2>1 DEF Thread
  <2>a. ThreadOK(S.mode, u)
    BY <1>1, <1>2, <1>5, <2>3, <2>4, <2>5, NoRequestIsNone DEF ThreadOK, Submits, SameReads,
       SameViews, SameState, SameAnswers
  <2>b. Places(u)
    BY <1>1, <1>2, <1>5, <2>3, <2>4, <2>5, NoRequestIsNone DEF Places, Flying, Lent, SameReads,
       SameViews
  <2>c. Calm(v, u)
    BY <1>1, <1>2, <1>5, <2>3, <2>4, <2>5 DEF Calm, Flying, Lent, Early, Owned, Claimed,
       Claiming, SameReads, SameViews, SameState, SameAnswers
  <2>d. GivesUp(S.mode, v, u, R, B)
    BY <1>1, <1>2, <1>5, <2>3, <2>4, <2>5 DEF GivesUp, Flying, SameReads, SameViews, SameState,
       SameAnswers
  <2>e. Answers(S, v, u, R, B, K, K \cup Vouched(u), F, F)
    BY <1>1, <1>2, <1>5, <2>3, <2>4, <2>5 DEF Before, Related, FinishedOK, Answers, Vouched, Early,
       Flying, SameReads, SameViews, SameState, SameAnswers
  <2>g. InProgress(u) = InProgress(v)
    BY <1>1, <1>2, <1>5, <2>3, <2>4, <2>5, NoRequestIsNone DEF InProgress, SameReads, SameViews,
       SameState, SameAnswers
  <2>h. AsksOne(u)
    BY <1>1, <1>2, <1>5, <2>3, <2>4, <2>5, <2>g, AsksKept DEF Booked, Running, SameReads, SameViews,
       SameState, SameAnswers
  <2>i. Booked(u, R)
    BY <1>1, <1>2, <1>5, <2>3, <2>4, <2>5, <2>h DEF Booked, AsksOne, InProgress, RoundOK, EndsClean,
       Running, ThreadOK, RingOK, SameReads, SameViews, SameState, SameAnswers
  <2> QED
    BY <1>2, <1>5, <2>3, <2>4, <2>5, <2>a, <2>b, <2>c, <2>d, <2>e, <2>i, StillStep
<1> QED
  BY <1>4, <1>5

\* A step that starts nothing: the worker changes, and slots may be freed.
LEMMA RingStep ==
    ASSUME NEW r, NEW S, NEW v, NEW R, NEW B, NEW K, NEW F, NEW u, NEW T, NEW C,
           Before(r, S, v, R, B, K, F), u \in WorkerRecord, ThreadOK(S.mode, u), Places(u), Booked(u, T),
           Calm(v, u), GivesUp(S.mode, v, u, R, B), Answers(S, v, u, R, B, K, K \cup Vouched(u), F, F),
           RingMove(R, T, C), C \cap (Lent(u) \cup Claimed(u)) = {}
    PROVE  RankOK(S, u, T, B, K \cup Vouched(u), F)
<1>1. /\ S \in BooksRecord /\ K \in SUBSET Requests /\ F \in SUBSET Requests
      /\ RankOK(S, v, R, B, K, F)
  BY DEF Before
<1> QED
  BY <1>1, QuietStep

\* The queue of the saver.
LEMMA QueueAppend ==
    ASSUME NEW s \in Seq(Requests), NEW q \in Requests, q \notin Range(s),
           \A i, j \in DOMAIN s : s[i] = s[j] => i = j
    PROVE  /\ Append(s, q) \in Seq(Requests) /\ Range(Append(s, q)) = Range(s) \cup {q}
           /\ \A i, j \in DOMAIN Append(s, q) : Append(s, q)[i] = Append(s, q)[j] => i = j
<1>1. PICK a : a = Append(s, q)
  OBVIOUS
<1>2. a \in Seq(Requests) /\ DOMAIN a = 1 .. Len(s) + 1 /\ DOMAIN s = 1 .. Len(s) /\ Len(s) \in Nat
  BY <1>1
<1>3. a[Len(s) + 1] = q /\ \A i \in 1 .. Len(s) : a[i] = s[i]
  BY <1>1
<1>4. Len(s) + 1 \in DOMAIN a /\ \A i \in DOMAIN a : i = Len(s) + 1 \/ i \in DOMAIN s
  BY <1>2
<1>5. DOMAIN s \subseteq DOMAIN a
  BY <1>2
<1>6. Range(a) = Range(s) \cup {q}
  BY <1>2, <1>3, <1>4, <1>5 DEF Range
<1>7. \A i \in DOMAIN s : s[i] # q
  BY DEF Range
<1>8. \A i, j \in DOMAIN a : a[i] = a[j] => i = j
  BY <1>2, <1>3, <1>4, <1>7
<1> QED
  BY <1>1, <1>2, <1>6, <1>8

\* The saver takes the first snapshot of its queue.
LEMMA QueueTail ==
    ASSUME NEW s \in Seq(Requests), s # <<>>, \A i, j \in DOMAIN s : s[i] = s[j] => i = j
    PROVE  /\ Tail(s) \in Seq(Requests) /\ Head(s) \in Requests
           /\ Range(s) = Range(Tail(s)) \cup {Head(s)} /\ Head(s) \notin Range(Tail(s))
           /\ \A i, j \in DOMAIN Tail(s) : Tail(s)[i] = Tail(s)[j] => i = j
<1>1. PICK t, h : t = Tail(s) /\ h = Head(s)
  OBVIOUS
<1>2. /\ t \in Seq(Requests) /\ DOMAIN t = 1 .. Len(s) - 1 /\ DOMAIN s = 1 .. Len(s) /\ Len(s) \in Nat
      /\ Len(s) > 0 /\ h = s[1] /\ h \in Requests /\ 1 \in DOMAIN s
  BY <1>1
<1>3. \A i \in DOMAIN t : t[i] = s[i + 1] /\ i + 1 \in DOMAIN s /\ i + 1 # 1
  BY <1>1, <1>2
<1>4. \A i \in DOMAIN s : i # 1 => i - 1 \in DOMAIN t /\ t[i - 1] = s[i]
  BY <1>1, <1>2
<1>5. Range(s) = Range(t) \cup {h}
  <2>1. Range(t) \subseteq Range(s)
    BY <1>3 DEF Range
  <2>2. h \in Range(s)
    BY <1>2 DEF Range
  <2>3. Range(s) \subseteq Range(t) \cup {h}
    BY <1>2, <1>4 DEF Range
  <2> QED
    BY <2>1, <2>2, <2>3
<1>6. h \notin Range(t)
  BY <1>2, <1>3 DEF Range
<1>7. ASSUME NEW i \in DOMAIN t, NEW j \in DOMAIN t, t[i] = t[j]
      PROVE  i = j
  <2>1. i + 1 = j + 1
    BY <1>3, <1>7
  <2> QED
    BY <1>2, <2>1
<1> QED
  BY <1>1, <1>2, <1>5, <1>6, <1>7

\* The end of a round, or one capture less to deliver.
LEMMA DeliverFields ==
    ASSUME NEW v \in WorkerRecord, NEW Q \in SUBSET Requests, v.thr.q = NoRequest, NEW u,
           u = Deliver(v, Q)
    PROVE  /\ u \in WorkerRecord /\ SameReads(v, u) /\ SameState(v, u) /\ SameAnswers(v, u)
           /\ u.ready = v.ready \ Q /\ u.storeq = v.storeq /\ u.writer = v.writer
           /\ u.tickets = v.tickets /\ u.thr.pc \in {"idle", "ready"} /\ u.thr.q = NoRequest
           /\ u.thr.todo \subseteq v.thr.todo /\ (u.ready # {} => u.thr.pc = "ready")
<1>1. PICK a \in SUBSET Requests, b \in SUBSET Requests : a = v.ready \ Q /\ b = v.abandoned \ Q
  BY DEF WorkerRecord
<1>2. PICK x : x = [v EXCEPT !.ready = a, !.abandoned = b]
  OBVIOUS
<1>3. u = IF x.ready = {} THEN [x EXCEPT !.thr = Idle] ELSE Go(x, "ready")
  BY <1>1, <1>2 DEF Deliver
<1>4. x \in WorkerRecord
  BY <1>2 DEF WorkerRecord
<1>5. /\ SameReads(v, x) /\ SameState(v, x) /\ SameAnswers(v, x) /\ x.thr = v.thr
      /\ x.ready = v.ready \ Q /\ x.storeq = v.storeq /\ x.writer = v.writer /\ x.tickets = v.tickets
  BY <1>1, <1>2 DEF WorkerRecord, SameReads, SameState, SameAnswers
<1>6. CASE u = [x EXCEPT !.thr = Idle] /\ x.ready = {}
  <2>1. PICK t \in Thread : t = Idle
    BY DEF Idle, Thread
  <2>2. t.pc = "idle" /\ t.q = NoRequest /\ t.todo = {}
    BY <2>1 DEF Idle
  <2>3. u = [x EXCEPT !.thr = t]
    BY <1>6, <2>1
  <2>4. u \in WorkerRecord
    BY <1>4, <2>3 DEF WorkerRecord
  <2>5. SameReads(x, u) /\ SameViews(x, u) /\ SameState(x, u) /\ SameAnswers(x, u) /\ u.thr = t
    BY <1>4, <2>3 DEF WorkerRecord, SameReads, SameViews, SameState, SameAnswers
  <2> QED
    BY <1>5, <1>6, <2>2, <2>4, <2>5 DEF SameReads, SameViews, SameState, SameAnswers
<1>7. CASE u = Go(x, "ready")
  <2>1. v.thr \in Thread
    BY DEF WorkerRecord
  <2>2. [x.thr EXCEPT !.pc = "ready"] \in Thread
    BY <1>5, <2>1 DEF Thread
  <2>3. /\ u \in WorkerRecord /\ SameReads(x, u) /\ SameViews(x, u) /\ SameState(x, u)
        /\ SameAnswers(x, u) /\ u.thr.pc = "ready" /\ u.thr.q = x.thr.q /\ u.thr.todo = x.thr.todo
    BY <1>4, <1>7, <2>2, GoFields
  <2> QED
    BY <1>5, <2>3 DEF SameReads, SameViews, SameState, SameAnswers
<1> QED
  BY <1>3, <1>6, <1>7

\* A capture is not ready, or gone; the native poll reaps abandoned gathers.
LEMMA PollNotReadySafe ==
    ASSUME NEW r, NEW S, NEW v, NEW R, NEW B, NEW K, NEW F, NEW u, NEW T, NEW D, NEW q,
           Before(r, S, v, R, B, K, F), After(r, u, T, D), PollNotReady(r, q)
    PROVE  RankOK(S, u, T, D, K \cup Vouched(u), F)
<1>1. v \in WorkerRecord /\ ThreadOK(S.mode, v) /\ Places(v) /\ Booked(v, R) /\ RingOK(R)
      /\ v.thr \in Thread /\ S.mode = mode /\ S.mode \in {"jobs", "requests"}
      /\ Related(S, v, R, B, K, F)
  BY DEF Before, RankOK, WorkerRecord, BooksRecord
<1>2. D = B /\ v.thr.pc = "poll"
  BY DEF Before, After, PollNotReady, At
<1>10. u = [v EXCEPT !.thr.todo = @ \ {q}]
  BY DEF Before, After, PollNotReady, Become
<1>3. PICK e : e = v.thr.todo \ {q}
  OBVIOUS
<1>4. PICK t \in Thread : t = [v.thr EXCEPT !.todo = e]
  BY <1>1, <1>3 DEF Thread
<1>5. u = [v EXCEPT !.thr = t]
  BY <1>1, <1>3, <1>4, <1>10 DEF WorkerRecord
<1>6. u \in WorkerRecord
  BY <1>1, <1>5 DEF WorkerRecord
<1>7. SameReads(v, u) /\ SameViews(v, u) /\ SameState(v, u) /\ SameAnswers(v, u) /\ u.thr = t
  BY <1>1, <1>5 DEF WorkerRecord, SameReads, SameViews, SameState, SameAnswers
<1>8. t.pc = "poll" /\ t.q = v.thr.q /\ t.todo \subseteq v.thr.todo
  BY <1>1, <1>2, <1>3, <1>4 DEF Thread
<1>9. RingMove(R, T, {})
  <2>1. T = R \/ T = ReapAbandoned(R)
    BY DEF Before, After, PollNotReady
  <2> QED
    BY <1>1, <2>1, StillRing, ReapAbandonedMove
<1>a. ThreadOK(S.mode, u)
  BY <1>1, <1>2, <1>6, <1>7, <1>8, NoRequestIsNone DEF ThreadOK, Submits, SameReads, SameViews,
     SameState, SameAnswers
<1>b. Places(u)
  BY <1>1, <1>2, <1>6, <1>7, <1>8, NoRequestIsNone DEF Places, Flying, Lent, SameReads, SameViews
<1>c. Calm(v, u)
  BY <1>1, <1>2, <1>6, <1>7, <1>8 DEF Calm, Flying, Lent, Early, Owned, Claimed, Claiming,
     SameReads, SameViews, SameState, SameAnswers
<1>d. GivesUp(S.mode, v, u, R, B)
  BY <1>1, <1>2, <1>6, <1>7, <1>8 DEF GivesUp, Flying, SameReads, SameViews, SameState,
     SameAnswers
<1>e. Answers(S, v, u, R, B, K, K \cup Vouched(u), F, F)
  BY <1>1, <1>2, <1>6, <1>7, <1>8 DEF Before, Related, FinishedOK, Answers, Vouched, Early, Flying,
     SameReads, SameViews, SameState, SameAnswers
<1>f. {} \cap (Lent(u) \cup Claimed(u)) = {}
  BY <1>1, <1>2, <1>6, <1>7, <1>8, NoRequestIsNone DEF Lent, Claimed, Claiming, Places, Flying,
     SameReads, SameViews, SameState, SameAnswers
<1>g. InProgress(u) = InProgress(v)
  BY <1>1, <1>2, <1>6, <1>7, <1>8, NoRequestIsNone DEF InProgress, SameReads, SameViews, SameState,
     SameAnswers
<1>h. AsksOne(u)
  BY <1>1, <1>2, <1>6, <1>7, <1>8, <1>g, AsksKept DEF Booked, Running, SameReads, SameViews,
     SameState, SameAnswers
<1>i. Booked(u, T)
  BY <1>1, <1>2, <1>6, <1>7, <1>8, <1>h DEF Booked, RoundOK, EndsClean, Running, ThreadOK, RingOK,
     SameReads, SameViews, SameState, SameAnswers
<1> QED
  BY <1>2, <1>6, <1>7, <1>8, <1>9, <1>a, <1>b, <1>c, <1>d, <1>e, <1>f, <1>i, RingStep

\* All captures are polled.
LEMMA AllPolledSafe ==
    ASSUME NEW r, NEW S, NEW v, NEW R, NEW B, NEW K, NEW F, NEW u, NEW T, NEW D,
           Before(r, S, v, R, B, K, F), After(r, u, T, D), AllPolled(r)
    PROVE  RankOK(S, u, T, D, K \cup Vouched(u), F)
<1>1. v \in WorkerRecord /\ ThreadOK(S.mode, v) /\ Places(v) /\ Booked(v, R) /\ RingOK(R)
      /\ v.thr \in Thread /\ S.mode = mode /\ S.mode \in {"jobs", "requests"}
      /\ Related(S, v, R, B, K, F)
  BY DEF Before, RankOK, WorkerRecord, BooksRecord
<1>2. D = B /\ T = R /\ v.thr.pc = "poll" /\ v.thr.q = NoRequest /\ v.thr.todo = {}
  BY <1>1 DEF Before, After, AllPolled, At, ThreadOK
<1>3. PICK h \in BOOLEAN : h = (v.wake /\ ~Stopped(v))
  BY <1>1 DEF WorkerRecord
<1>4. PICK x : x = [v EXCEPT !.wake = h]
  OBVIOUS
<1>5. u = Deliver(x, {})
  BY <1>3, <1>4 DEF Before, After, AllPolled, Become
<1>6. x \in WorkerRecord
  BY <1>1, <1>4 DEF WorkerRecord
<1>7. SameReads(v, x) /\ SameViews(v, x) /\ SameState(v, x) /\ SameAnswers(v, x) /\ x.thr = v.thr
  BY <1>1, <1>4 DEF WorkerRecord, SameReads, SameViews, SameState, SameAnswers
<1>8. /\ u \in WorkerRecord /\ SameReads(x, u) /\ SameState(x, u) /\ SameAnswers(x, u)
      /\ u.ready = x.ready \ {} /\ u.storeq = x.storeq /\ u.writer = x.writer
      /\ u.tickets = x.tickets /\ u.thr.pc \in {"idle", "ready"} /\ u.thr.q = NoRequest
      /\ u.thr.todo \subseteq x.thr.todo /\ (u.ready # {} => u.thr.pc = "ready")
  <2>1. PICK e \in SUBSET Requests : e = {}
    OBVIOUS
  <2>2. x.thr.q = NoRequest /\ u = Deliver(x, e)
    BY <1>2, <1>5, <1>7, <2>1
  <2>3. /\ u \in WorkerRecord /\ SameReads(x, u) /\ SameState(x, u) /\ SameAnswers(x, u)
        /\ u.ready = x.ready \ e /\ u.storeq = x.storeq /\ u.writer = x.writer
        /\ u.tickets = x.tickets /\ u.thr.pc \in {"idle", "ready"} /\ u.thr.q = NoRequest
        /\ u.thr.todo \subseteq x.thr.todo /\ (u.ready # {} => u.thr.pc = "ready")
    BY <1>6, <2>2, DeliverFields
  <2> QED
    BY <2>1, <2>3
<1>a. ThreadOK(S.mode, u)
  BY <1>1, <1>2, <1>7, <1>8, NoRequestIsNone DEF ThreadOK, Submits, SameReads, SameViews,
     SameState, SameAnswers
<1>b. Places(u)
  BY <1>1, <1>2, <1>7, <1>8, NoRequestIsNone DEF Places, Flying, Lent, SameReads, SameViews
<1>c. Calm(v, u)
  BY <1>1, <1>2, <1>7, <1>8 DEF Calm, Flying, Lent, Early, Owned, Claimed, Claiming, SameReads,
     SameViews, SameState, SameAnswers
<1>d. GivesUp(S.mode, v, u, R, B)
  BY <1>1, <1>2, <1>7, <1>8 DEF GivesUp, Flying, SameReads, SameViews, SameState, SameAnswers
<1>e. Answers(S, v, u, R, B, K, K \cup Vouched(u), F, F)
  BY <1>1, <1>2, <1>7, <1>8 DEF Before, Related, FinishedOK, Answers, Vouched, Early, Flying, SameReads,
     SameViews, SameState, SameAnswers
<1>g. InProgress(u) = InProgress(v)
  BY <1>1, <1>2, <1>7, <1>8, NoRequestIsNone DEF InProgress, SameReads, SameViews, SameState,
     SameAnswers
<1>h. AsksOne(u)
  BY <1>1, <1>2, <1>7, <1>8, <1>g, AsksKept DEF Booked, Running, SameReads, SameViews, SameState,
     SameAnswers
<1>i. Booked(u, R)
  BY <1>1, <1>2, <1>7, <1>8, <1>h DEF Booked, RoundOK, EndsClean, Running, ThreadOK, RingOK,
     SameReads, SameViews, SameState, SameAnswers
<1> QED
  BY <1>2, <1>7, <1>8, <1>a, <1>b, <1>c, <1>d, <1>e, <1>i, StillStep

\* A ticket that is given up.
LEMMA RetireFields ==
    ASSUME NEW v \in WorkerRecord, NEW q, NEW u, u = Retire(v, q)
    PROVE  /\ u \in WorkerRecord /\ SameReads(v, u) /\ SameState(v, u) /\ SameAnswers(v, u)
           /\ u.ready = v.ready /\ u.storeq = v.storeq /\ u.writer = v.writer
           /\ u.tickets = {t \in v.tickets : t.q # q} /\ u.thr = v.thr
<1>1. PICK a \in SUBSET Ticket : a = {t \in v.tickets : t.q # q}
  BY DEF WorkerRecord
<1>2. a = v.tickets \ Tickets(v, q)
  BY <1>1 DEF Tickets
<1>3. u = [v EXCEPT !.tickets = a]
  BY <1>2 DEF Retire
<1>4. u \in WorkerRecord
  BY <1>3 DEF WorkerRecord
<1>5. /\ SameReads(v, u) /\ SameState(v, u) /\ SameAnswers(v, u)
      /\ u.ready = v.ready /\ u.storeq = v.storeq /\ u.writer = v.writer
      /\ u.tickets = a /\ u.thr = v.thr
  BY <1>3 DEF WorkerRecord, SameReads, SameState, SameAnswers
<1> QED
  BY <1>1, <1>4, <1>5

\* A view that is lent or claimed is not filled any more.
LEMMA ViewFacts ==
    ASSUME NEW r, NEW S, NEW v, NEW R, NEW B, NEW K, NEW F, Before(r, S, v, R, B, K, F),
           NEW q \in Lent(v) \cup Claimed(v)
    PROVE  ~Reads(R, q)
<1>1. v \in WorkerRecord /\ RingOK(R) /\ TicketsOK(v, R)
  BY DEF Before, RankOK, Related
<1>2. PICK t \in v.tickets : R[t.slot].st = "writing" /\ R[t.slot].ctx = q
  BY <1>1 DEF TicketsOK
<1>3. t.slot \in Slots
  BY <1>1 DEF WorkerRecord, Ticket
<1>4. R[t.slot].ctx # NoContext
  BY <1>1, <1>2, <1>3 DEF RingOK
<1> QED
  BY <1>1, <1>2, <1>3, <1>4 DEF RingOK, Reads

\* The read of a claimed capture is over, and acknowledged.
LEMMA PopPendingSafe ==
    ASSUME NEW r, NEW S, NEW v, NEW R, NEW B, NEW K, NEW F, NEW u, NEW T, NEW D,
           Before(r, S, v, R, B, K, F), After(r, u, T, D), PopPending(r)
    PROVE  RankOK(S, u, T, D, K \cup Vouched(u), F)
<1>1. v \in WorkerRecord /\ ThreadOK(S.mode, v) /\ Places(v) /\ Booked(v, R) /\ RingOK(R)
      /\ v.thr \in Thread /\ S.mode = mode /\ S.mode \in {"jobs", "requests"}
      /\ Related(S, v, R, B, K, F)
  BY DEF Before, RankOK, WorkerRecord, BooksRecord
<1>2. D = B /\ T = R /\ v.thr.pc = "pop"
  BY DEF Before, After, PopPending, At
<1>3. PICK q : q = v.thr.q
  OBVIOUS
<1>4. q \in Requests
  BY <1>1, <1>2, <1>3 DEF Thread, ThreadOK
<1>5. PICK a \in SUBSET Requests : a = v.pending \ {q}
  BY <1>1 DEF WorkerRecord
<1>6. PICK t \in Thread : t = [v.thr EXCEPT !.q = NoRequest]
  BY <1>1 DEF Thread
<1>7. PICK x : x = [v EXCEPT !.pending = a, !.thr = t]
  OBVIOUS
<1>8. x = [v EXCEPT !.pending = @ \ {q}, !.thr.q = NoRequest]
  BY <1>1, <1>5, <1>6, <1>7 DEF WorkerRecord
<1>9. x \in WorkerRecord
  BY <1>1, <1>7 DEF WorkerRecord
<1>10. /\ x.pending = v.pending \ {q} /\ x.draining = v.draining /\ x.failed = v.failed
       /\ x.queued = v.queued /\ x.submitting = v.submitting
       /\ SameViews(v, x) /\ SameState(v, x) /\ SameAnswers(v, x) /\ x.thr = t
  BY <1>1, <1>5, <1>7 DEF WorkerRecord, SameViews, SameState, SameAnswers
<1>11. t.pc = "pop" /\ t.q = NoRequest /\ t.todo = v.thr.todo
  BY <1>1, <1>2, <1>6 DEF Thread
<1>12. PICK y : y = IF q \in v.pending THEN [MarkCompleted(x, {q}) EXCEPT !.ready = @ \cup {q}] ELSE x
  OBVIOUS
<1>17. PICK h : h = (y.wake /\ ~Stopped(y))
  OBVIOUS
<1>13. u = Go([y EXCEPT !.wake = h], "poll")
  <2>1. u = Go([y EXCEPT !.wake = @ /\ ~Stopped(y)], "poll")
    <3>1. x = [w[r] EXCEPT !.pending = @ \ {w[r].thr.q}, !.thr.q = NoRequest] /\ v = w[r]
      BY <1>3, <1>8 DEF Before
    <3>2. y = IF w[r].thr.q \in w[r].pending
              THEN [MarkCompleted([w[r] EXCEPT !.pending = @ \ {w[r].thr.q}, !.thr.q = NoRequest], {w[r].thr.q})
                       EXCEPT !.ready = @ \cup {w[r].thr.q}]
              ELSE [w[r] EXCEPT !.pending = @ \ {w[r].thr.q}, !.thr.q = NoRequest]
      BY <1>3, <1>12, <3>1
    <3>3. w' = [w EXCEPT ![r] =
           LET p == w[r].thr.q
               y1 == [w[r] EXCEPT !.pending = @ \ {p}, !.thr.q = NoRequest]
               y2 == IF p \in w[r].pending
                     THEN [MarkCompleted(y1, {p}) EXCEPT !.ready = @ \cup {p}] ELSE y1
           IN  Go([y2 EXCEPT !.wake = @ /\ ~Stopped(y2)], "poll")]
      BY DEF PopPending, Become
    <3>4. w' = [w EXCEPT ![r] =
           LET p == w[r].thr.q
               y1 == [w[r] EXCEPT !.pending = @ \ {p}, !.thr.q = NoRequest]
               y2 == IF p \in w[r].pending
                     THEN [MarkCompleted(y1, {p}) EXCEPT !.ready = @ \cup {p}] ELSE y1
           IN  Go([y2 EXCEPT !.wake = y2.wake /\ ~Stopped(y2)], "poll")]
      BY <3>3
    <3>5. w' = [w EXCEPT ![r] = Go([y EXCEPT !.wake = @ /\ ~Stopped(y)], "poll")]
      BY <3>2, <3>4
    <3> QED
      BY <3>5 DEF Before, After
  <2>2. [y EXCEPT !.wake = @ /\ ~Stopped(y)] = [y EXCEPT !.wake = h]
    BY <1>17
  <2> QED
    BY <2>1, <2>2
<1>14. ASSUME y \in WorkerRecord, y.thr = x.thr
       PROVE  /\ u \in WorkerRecord /\ SameReads(y, u) /\ SameViews(y, u) /\ SameState(y, u)
              /\ SameAnswers(y, u) /\ u.thr.pc = "poll" /\ u.thr.q = NoRequest
              /\ u.thr.todo = v.thr.todo
  <2>1. h \in BOOLEAN
    BY <1>14, <1>17 DEF WorkerRecord
  <2>2. PICK z : z = [y EXCEPT !.wake = h]
    OBVIOUS
  <2>3. u = Go(z, "poll")
    BY <1>13, <2>1, <2>2
  <2>4. z \in WorkerRecord
    BY <1>14, <2>1, <2>2 DEF WorkerRecord
  <2>5. SameReads(y, z) /\ SameViews(y, z) /\ SameState(y, z) /\ SameAnswers(y, z) /\ z.thr = t
    BY <1>10, <1>14, <2>2 DEF WorkerRecord, SameReads, SameViews, SameState, SameAnswers
  <2>6. [z.thr EXCEPT !.pc = "poll"] \in Thread
    BY <1>6, <2>5 DEF Thread
  <2>7. /\ u \in WorkerRecord /\ SameReads(z, u) /\ SameViews(z, u) /\ SameState(z, u)
        /\ SameAnswers(z, u) /\ u.thr.pc = "poll" /\ u.thr.q = z.thr.q /\ u.thr.todo = z.thr.todo
    BY <2>3, <2>4, <2>6, GoFields
  <2> QED
    BY <1>11, <2>5, <2>7 DEF SameReads, SameViews, SameState, SameAnswers
<1>15. CASE q \in v.pending
  <2>1. PICK z : z = MarkCompleted(x, {q})
    OBVIOUS
  <2>2. {q} \in SUBSET Requests
    BY <1>4
  <2>3. /\ z \in WorkerRecord /\ SameReads(x, z) /\ SameViews(x, z) /\ SameState(x, z)
        /\ z.thr = x.thr /\ z.ended = x.ended /\ z.inflight = x.inflight
        /\ mode = "jobs" => z.completed = x.completed /\ z.done = x.done \cup {q}
        /\ mode # "jobs" => z.completed = x.completed \cup {q} /\ z.done = x.done
    BY <1>9, <2>1, <2>2, MarkFields
  <2>4. PICK b \in SUBSET Requests : b = z.ready \cup {q}
    BY <1>4, <2>3 DEF WorkerRecord
  <2>5. y = [z EXCEPT !.ready = b]
    BY <1>12, <1>15, <2>1, <2>4
  <2>6. y \in WorkerRecord
    BY <2>3, <2>5 DEF WorkerRecord
  <2>7. /\ SameReads(z, y) /\ SameState(z, y) /\ SameAnswers(z, y) /\ y.thr = z.thr
        /\ y.ready = z.ready \cup {q} /\ y.storeq = z.storeq /\ y.writer = z.writer
        /\ y.tickets = z.tickets
    BY <2>3, <2>4, <2>5 DEF WorkerRecord, SameReads, SameState, SameAnswers
  <2>8. /\ u \in WorkerRecord /\ SameReads(y, u) /\ SameViews(y, u) /\ SameState(y, u)
        /\ SameAnswers(y, u) /\ u.thr.pc = "poll" /\ u.thr.q = NoRequest /\ u.thr.todo = v.thr.todo
    BY <1>14, <2>3, <2>6, <2>7
  <2>9. q \in Claimed(v) /\ q \in Claiming(v) /\ q \in Flying(v) /\ q \in Owned(v)
    BY <1>2, <1>3, <1>15 DEF Claimed, Claiming, Flying, Owned
  <2>10. /\ ~Reads(R, q) /\ (mode = "jobs" => S.job[q] <= v.high) /\ q \notin S.unsent
         /\ q \notin Lent(v) /\ q \notin Early(v)
    BY <1>1, <2>9, ViewFacts, OwnedFacts DEF Places, Unused
  <2>11. v.draining = {} /\ v.failed = {} /\ v.queued \cap {q} = {}
    BY <1>1, <1>2, <1>15, <2>10 DEF ThreadOK, Early
  <2>a. ThreadOK(S.mode, u)
    BY <1>1, <1>2, <1>3, <1>4, <1>10, <1>11, <1>15, <2>3, <2>7, <2>8, <2>9, <2>10, <2>11,
       NoRequestIsNone DEF ThreadOK, Submits, SameReads, SameViews, SameState, SameAnswers
  <2>b. Places(u)
    BY <1>1, <1>2, <1>3, <1>4, <1>10, <1>11, <1>15, <2>3, <2>7, <2>8, <2>9, <2>10, <2>11,
       NoRequestIsNone DEF Places, Flying, Lent, SameReads, SameViews
  <2>c. Calm(v, u)
    BY <1>1, <1>2, <1>3, <1>4, <1>10, <1>11, <1>15, <2>3, <2>7, <2>8, <2>9, <2>10, <2>11
       DEF Calm, Flying, Lent, Early, Owned, Claimed, Claiming, SameReads, SameViews, SameState,
       SameAnswers
  <2>d. GivesUp(S.mode, v, u, R, B)
    BY <1>1, <1>2, <1>3, <1>4, <1>10, <1>11, <1>15, <2>3, <2>7, <2>8, <2>9, <2>10, <2>11
       DEF GivesUp, Flying, SameReads, SameViews, SameState, SameAnswers
  <2>e. Answers(S, v, u, R, B, K, K \cup Vouched(u), F, F)
    BY <1>1, <1>2, <1>3, <1>4, <1>10, <1>11, <1>15, <2>3, <2>7, <2>8, <2>9, <2>10, <2>11
       DEF Before, Related, FinishedOK, Answers, Vouched, Early, Flying, SameReads, SameViews, SameState,
       SameAnswers
  <2>g. InProgress(u) = InProgress(v)
    BY <1>1, <1>2, <1>3, <1>4, <1>10, <1>11, <1>15, <2>3, <2>7, <2>8, <2>9, <2>10, <2>11,
       NoRequestIsNone DEF InProgress, SameReads, SameViews, SameState, SameAnswers
  <2>h. AsksOne(u)
    BY <1>1, <1>2, <1>3, <1>4, <1>10, <1>11, <1>15, <2>3, <2>7, <2>8, <2>9, <2>10, <2>11, <2>g,
       AsksKept DEF Booked, Running, SameReads, SameViews, SameState, SameAnswers
  <2>i. Booked(u, R)
    BY <1>1, <1>2, <1>3, <1>4, <1>10, <1>11, <1>15, <2>3, <2>7, <2>8, <2>9, <2>10, <2>11, <2>h DEF
       Booked, RoundOK, EndsClean, Running, ThreadOK, RingOK, SameReads, SameViews, SameState,
       SameAnswers
  <2> QED
    BY <1>2, <1>3, <1>4, <1>10, <1>11, <1>15, <2>3, <2>7, <2>8, <2>9, <2>10, <2>11, <2>a, <2>b,
       <2>c, <2>d, <2>e, <2>i, StillStep
<1>16. CASE q \notin v.pending
  <2>1. y = x
    BY <1>12, <1>16
  <2>2. /\ u \in WorkerRecord /\ SameReads(y, u) /\ SameViews(y, u) /\ SameState(y, u)
        /\ SameAnswers(y, u) /\ u.thr.pc = "poll" /\ u.thr.q = NoRequest /\ u.thr.todo = v.thr.todo
    BY <1>9, <1>14, <2>1
  <2>a. ThreadOK(S.mode, u)
    BY <1>1, <1>2, <1>3, <1>10, <1>11, <1>16, <2>1, <2>2, NoRequestIsNone DEF ThreadOK, Submits,
       SameReads, SameViews, SameState, SameAnswers
  <2>b. Places(u)
    BY <1>1, <1>2, <1>3, <1>10, <1>11, <1>16, <2>1, <2>2, NoRequestIsNone DEF Places, Flying,
       Lent, SameReads, SameViews
  <2>c. Calm(v, u)
    BY <1>1, <1>2, <1>3, <1>10, <1>11, <1>16, <2>1, <2>2 DEF Calm, Flying, Lent, Early, Owned,
       Claimed, Claiming, SameReads, SameViews, SameState, SameAnswers
  <2>d. GivesUp(S.mode, v, u, R, B)
    BY <1>1, <1>2, <1>3, <1>10, <1>11, <1>16, <2>1, <2>2 DEF GivesUp, Flying, SameReads,
       SameViews, SameState, SameAnswers
  <2>e. Answers(S, v, u, R, B, K, K \cup Vouched(u), F, F)
    BY <1>1, <1>2, <1>3, <1>10, <1>11, <1>16, <2>1, <2>2 DEF Before, Related, FinishedOK,
       Answers, Vouched, Early, Flying, SameReads, SameViews, SameState, SameAnswers
  <2>g. InProgress(u) = InProgress(v)
    BY <1>1, <1>2, <1>3, <1>10, <1>11, <1>16, <2>1, <2>2, NoRequestIsNone DEF InProgress, SameReads,
       SameViews, SameState, SameAnswers
  <2>h. AsksOne(u)
    BY <1>1, <1>2, <1>3, <1>10, <1>11, <1>16, <2>1, <2>2, <2>g, AsksKept DEF Booked, Running,
       SameReads, SameViews, SameState, SameAnswers
  <2>i. Booked(u, R)
    BY <1>1, <1>2, <1>3, <1>10, <1>11, <1>16, <2>1, <2>2, <2>h DEF Booked, RoundOK, EndsClean,
       Running, ThreadOK, RingOK, SameReads, SameViews, SameState, SameAnswers
  <2> QED
    BY <1>2, <1>3, <1>10, <1>11, <1>16, <2>1, <2>2, <2>a, <2>b, <2>c, <2>d, <2>e, <2>i, StillStep
<1> QED
  BY <1>15, <1>16

\* A view goes to the saver.
LEMMA DeliverReadySafe ==
    ASSUME NEW r, NEW S, NEW v, NEW R, NEW B, NEW K, NEW F, NEW u, NEW T, NEW D, NEW q,
           Before(r, S, v, R, B, K, F), After(r, u, T, D), DeliverReady(r, q)
    PROVE  RankOK(S, u, T, D, K \cup Vouched(u), F)
<1>1. v \in WorkerRecord /\ ThreadOK(S.mode, v) /\ Places(v) /\ Booked(v, R) /\ RingOK(R)
      /\ v.thr \in Thread /\ S.mode = mode /\ S.mode \in {"jobs", "requests"}
      /\ Related(S, v, R, B, K, F)
  BY DEF Before, RankOK, WorkerRecord, BooksRecord
<1>2. D = B /\ T = R /\ v.thr.pc = "ready" /\ v.thr.q = NoRequest /\ q \in v.ready
  BY <1>1 DEF Before, After, DeliverReady, At, ThreadOK
<1>3. PICK x : x = Deliver(v, {q})
  OBVIOUS
<1>4. q \in Requests /\ {q} \in SUBSET Requests
  BY <1>1, <1>2 DEF WorkerRecord
<1>5. /\ x \in WorkerRecord /\ SameReads(v, x) /\ SameState(v, x) /\ SameAnswers(v, x)
      /\ x.ready = v.ready \ {q} /\ x.storeq = v.storeq /\ x.writer = v.writer
      /\ x.tickets = v.tickets /\ x.thr.pc \in {"idle", "ready"} /\ x.thr.q = NoRequest
      /\ x.thr.todo \subseteq v.thr.todo /\ (x.ready # {} => x.thr.pc = "ready")
  BY <1>1, <1>2, <1>3, <1>4, DeliverFields
<1>6. q \notin Range(v.storeq) /\ v.storeq \in Seq(Requests)
      /\ \A i, j \in DOMAIN v.storeq : v.storeq[i] = v.storeq[j] => i = j
  BY <1>1, <1>2 DEF Places, WorkerRecord
<1>7. PICK a : a = Append(v.storeq, q)
  OBVIOUS
<1>8. /\ a \in Seq(Requests) /\ Range(a) = Range(v.storeq) \cup {q}
      /\ \A i, j \in DOMAIN a : a[i] = a[j] => i = j
  BY <1>4, <1>6, <1>7, QueueAppend
<1>9. u = [x EXCEPT !.storeq = a]
  BY <1>3, <1>5, <1>7 DEF Before, After, DeliverReady, Become
<1>10. u \in WorkerRecord
  BY <1>5, <1>8, <1>9 DEF WorkerRecord
<1>11. /\ SameReads(x, u) /\ SameState(x, u) /\ SameAnswers(x, u)
       /\ u.ready = x.ready /\ u.storeq = a /\ u.writer = x.writer
       /\ u.tickets = x.tickets /\ u.thr = x.thr
  BY <1>5, <1>9 DEF WorkerRecord, SameReads, SameState, SameAnswers
<1>a. ThreadOK(S.mode, u)
  BY <1>1, <1>2, <1>5, <1>8, <1>10, <1>11, NoRequestIsNone DEF ThreadOK, Submits, SameReads,
     SameViews, SameState, SameAnswers
<1>b. Places(u)
  BY <1>1, <1>2, <1>5, <1>8, <1>10, <1>11, NoRequestIsNone DEF Places, Flying, Lent, SameReads,
     SameViews
<1>c. Calm(v, u)
  BY <1>1, <1>2, <1>5, <1>8, <1>10, <1>11 DEF Calm, Flying, Lent, Early, Owned, Claimed,
     Claiming, SameReads, SameViews, SameState, SameAnswers
<1>d. GivesUp(S.mode, v, u, R, B)
  BY <1>1, <1>2, <1>5, <1>8, <1>10, <1>11 DEF GivesUp, Flying, SameReads, SameViews, SameState,
     SameAnswers
<1>e. Answers(S, v, u, R, B, K, K \cup Vouched(u), F, F)
  BY <1>1, <1>2, <1>5, <1>8, <1>10, <1>11 DEF Before, Related, FinishedOK, Answers, Vouched, Early,
     Flying, SameReads, SameViews, SameState, SameAnswers
<1>g. InProgress(u) = InProgress(v)
  BY <1>1, <1>2, <1>5, <1>8, <1>10, <1>11, NoRequestIsNone DEF InProgress, SameReads, SameViews,
     SameState, SameAnswers
<1>h. AsksOne(u)
  BY <1>1, <1>2, <1>5, <1>8, <1>10, <1>11, <1>g, AsksKept DEF Booked, Running, SameReads, SameViews,
     SameState, SameAnswers
<1>i. Booked(u, R)
  BY <1>1, <1>2, <1>5, <1>8, <1>10, <1>11, <1>h DEF Booked, RoundOK, EndsClean, Running, ThreadOK,
     RingOK, SameReads, SameViews, SameState, SameAnswers
<1> QED
  BY <1>2, <1>5, <1>8, <1>10, <1>11, <1>a, <1>b, <1>c, <1>d, <1>e, <1>i, StillStep

\* A view is released instead: its capture was abandoned or rejected.
LEMMA GiveUpReadySafe ==
    ASSUME NEW r, NEW S, NEW v, NEW R, NEW B, NEW K, NEW F, NEW u, NEW T, NEW D, NEW q,
           Before(r, S, v, R, B, K, F), After(r, u, T, D), DiscardReady(r, q) \/ RejectReady(r, q)
    PROVE  RankOK(S, u, T, D, K \cup Vouched(u), F)
<1>1. v \in WorkerRecord /\ ThreadOK(S.mode, v) /\ Places(v) /\ Booked(v, R) /\ RingOK(R)
      /\ v.thr \in Thread /\ S.mode = mode /\ S.mode \in {"jobs", "requests"}
      /\ Related(S, v, R, B, K, F)
  BY DEF Before, RankOK, WorkerRecord, BooksRecord
<1>2. D = B /\ v.thr.pc = "ready" /\ v.thr.q = NoRequest /\ q \in v.ready
  BY <1>1 DEF Before, After, DiscardReady, RejectReady, At, ThreadOK
<1>3. PICK x : x = Deliver(v, {q})
  OBVIOUS
<1>4. q \in Requests /\ {q} \in SUBSET Requests
  BY <1>1, <1>2 DEF WorkerRecord
<1>5. /\ x \in WorkerRecord /\ SameReads(v, x) /\ SameState(v, x) /\ SameAnswers(v, x)
      /\ x.ready = v.ready \ {q} /\ x.storeq = v.storeq /\ x.writer = v.writer
      /\ x.tickets = v.tickets /\ x.thr.pc \in {"idle", "ready"} /\ x.thr.q = NoRequest
      /\ x.thr.todo \subseteq v.thr.todo /\ (x.ready # {} => x.thr.pc = "ready")
  BY <1>1, <1>2, <1>3, <1>4, DeliverFields
<1>6. PICK y : y = Retire(x, q)
  OBVIOUS
<1>7. /\ y \in WorkerRecord /\ SameReads(x, y) /\ SameState(x, y) /\ SameAnswers(x, y)
      /\ y.ready = x.ready /\ y.storeq = x.storeq /\ y.writer = x.writer
      /\ y.tickets = {t \in v.tickets : t.q # q} /\ y.thr = x.thr
  BY <1>5, <1>6, RetireFields
<1>8. u = AbortCapture(y, q)
  BY <1>3, <1>6 DEF Before, After, DiscardReady, RejectReady, Become
<1>9. /\ u \in WorkerRecord /\ SameReads(y, u) /\ SameViews(y, u) /\ SameState(y, u)
      /\ u.thr = y.thr /\ u.completed = y.completed /\ u.ended = y.ended /\ u.done = y.done /\ ~u.inflight
  BY <1>4, <1>7, <1>8, AbortFields DEF AbortCapture
<1>11. q \notin Lent(u) /\ Claimed(u) = {}
  BY <1>1, <1>2, <1>5, <1>7, <1>9 DEF Places, Lent, Claimed, Claiming, SameReads, SameViews
<1>12. q \notin v.queued
  BY <1>1, <1>2 DEF Related, ReadsOK, Unused, Early, Lent
<1>10. RingMove(R, T, {q})
  <2>1. PICK t \in Tickets(v, q) : T = ReleaseTicket(R, t)
    BY DEF Before, After, DiscardReady, RejectReady
  <2>2. t \in v.tickets /\ t.q = q
    BY <2>1 DEF Tickets
  <2>3. t.slot \in Slots /\ (Resolves(R, t) => R[t.slot].ctx = t.q)
    BY <1>1, <2>2 DEF WorkerRecord, Ticket, Related, TicketsOK
  <2> QED
    BY <1>1, <2>1, <2>2, <2>3, ReleaseMove
<1>a. ThreadOK(S.mode, u)
  BY <1>1, <1>2, <1>5, <1>7, <1>9, <1>11, <1>12, NoRequestIsNone DEF ThreadOK, Submits, SameReads,
     SameViews, SameState, SameAnswers
<1>b. Places(u)
  BY <1>1, <1>2, <1>5, <1>7, <1>9, <1>11, <1>12, NoRequestIsNone DEF Places, Flying, Lent, SameReads,
     SameViews
<1>c. Calm(v, u)
  BY <1>1, <1>2, <1>5, <1>7, <1>9, <1>11, <1>12 DEF Calm, Flying, Lent, Early, Owned, Claimed,
     Claiming, SameReads, SameViews, SameState, SameAnswers
<1>d. GivesUp(S.mode, v, u, R, B)
  BY <1>1, <1>2, <1>5, <1>7, <1>9, <1>11, <1>12 DEF GivesUp, Flying, SameReads, SameViews, SameState,
     SameAnswers
<1>e. Answers(S, v, u, R, B, K, K \cup Vouched(u), F, F)
  BY <1>1, <1>2, <1>5, <1>7, <1>9, <1>11, <1>12 DEF Before, Related, FinishedOK, Answers, Vouched, Early,
     Flying, SameReads, SameViews, SameState, SameAnswers
<1>f. {q} \cap (Lent(u) \cup Claimed(u)) = {}
  BY <1>1, <1>2, <1>5, <1>7, <1>9, <1>11, <1>12, NoRequestIsNone DEF Lent, Claimed, Claiming, Places,
     Flying, SameReads, SameViews, SameState, SameAnswers
<1>g. q \in InProgress(v) /\ InProgress(u) \subseteq InProgress(v) \ {q}
  BY <1>1, <1>2, <1>5, <1>7, <1>9, <1>11, <1>12, NoRequestIsNone DEF InProgress, Places, Flying,
     Lent, SameReads, SameViews, SameState, SameAnswers
<1>h. AsksOne(u)
  BY <1>1, <1>2, <1>5, <1>7, <1>9, <1>11, <1>12, <1>g, AsksLess DEF Booked, Running, SameReads,
     SameViews, SameState, SameAnswers
<1>i. Booked(u, T)
  BY <1>1, <1>2, <1>5, <1>7, <1>9, <1>11, <1>12, <1>h DEF Booked, RoundOK, EndsClean, Running,
     ThreadOK, RingOK, SameReads, SameViews, SameState, SameAnswers
<1> QED
  BY <1>2, <1>5, <1>7, <1>9, <1>11, <1>12, <1>10, <1>a, <1>b, <1>c, <1>d, <1>e, <1>f, <1>i, RingStep

\* A submission that raised is drained: its read is over.
LEMMA UndoSubmitSafe ==
    ASSUME NEW r, NEW S, NEW v, NEW R, NEW B, NEW K, NEW F, NEW u, NEW T, NEW D,
           Before(r, S, v, R, B, K, F), After(r, u, T, D), UndoSubmit(r)
    PROVE  RankOK(S, u, T, D, K \cup Vouched(u), F)
<1>1. v \in WorkerRecord /\ ThreadOK(S.mode, v) /\ Places(v) /\ Booked(v, R) /\ RingOK(R)
      /\ v.thr \in Thread /\ S.mode = mode /\ S.mode \in {"jobs", "requests"}
      /\ Related(S, v, R, B, K, F)
  BY DEF Before, RankOK, WorkerRecord, BooksRecord
<1>2. D = B /\ v.thr.pc = "undo"
  BY DEF Before, After, UndoSubmit, At
<1>3. PICK q : q = v.thr.q
  OBVIOUS
<1>4. q \in Flying(v) /\ q \in Owned(v) /\ q \in Requests /\ q \in v.submitting
  BY <1>1, <1>2, <1>3, OwnedFacts DEF Flying, ThreadOK, Submits
<1>5. /\ mode = "jobs" /\ q \notin v.pending \cup v.draining \cup v.failed \cup v.queued
      /\ q \notin Lent(v) /\ S.job[q] <= v.high /\ q \notin S.unsent
  BY <1>1, <1>2, <1>3, <1>4, OwnedFacts DEF ThreadOK, Places
<1>6. Quiet(R, q) /\ T = DrainContext(R, q) /\ u = Go(AbortCapture(MarkCompleted(v, {q}), q), "finally")
  BY <1>3 DEF Before, After, UndoSubmit, Become
<1>7. RingMove(R, T, {q})
  BY <1>1, <1>6, DrainMove
<1>8. ~Reads(R, q)
  BY <1>1, <1>6 DEF Quiet, Filling, Reads, RingOK
<1>9. PICK y : y = AbortCapture(MarkCompleted(v, {q}), q)
  OBVIOUS
<1>10. /\ y \in WorkerRecord /\ SameReads(v, y) /\ SameViews(v, y) /\ SameState(v, y)
       /\ y.thr = v.thr /\ y.ended = v.ended /\ y.completed = v.completed
       /\ y.done = v.done \cup {q} /\ ~y.inflight
  BY <1>1, <1>4, <1>5, <1>9, EndFields
<1>11. [y.thr EXCEPT !.pc = "finally"] \in Thread
  BY <1>1, <1>10 DEF Thread
<1>12. /\ u \in WorkerRecord /\ SameReads(y, u) /\ SameViews(y, u) /\ SameState(y, u)
       /\ SameAnswers(y, u) /\ u.thr.pc = "finally" /\ u.thr.q = q /\ u.thr.todo = v.thr.todo
  BY <1>3, <1>6, <1>9, <1>10, <1>11, GoFields
<1>13. q \notin Early(u)
  BY <1>2, <1>5, <1>10, <1>12 DEF Early, SameReads
<1>a. ThreadOK(S.mode, u)
  BY <1>1, <1>2, <1>3, <1>4, <1>5, <1>8, <1>10, <1>12, <1>13, NoRequestIsNone DEF ThreadOK,
     Submits, SameReads, SameViews, SameState, SameAnswers
<1>b. Places(u)
  BY <1>1, <1>2, <1>3, <1>4, <1>5, <1>8, <1>10, <1>12, <1>13, NoRequestIsNone DEF Places,
     Flying, Lent, SameReads, SameViews
<1>c. Calm(v, u)
  BY <1>1, <1>2, <1>3, <1>4, <1>5, <1>8, <1>10, <1>12, <1>13 DEF Calm, Flying, Lent, Early,
     Owned, Claimed, Claiming, SameReads, SameViews, SameState, SameAnswers
<1>d. GivesUp(S.mode, v, u, R, B)
  BY <1>1, <1>2, <1>3, <1>4, <1>5, <1>8, <1>10, <1>12, <1>13 DEF GivesUp, Flying, SameReads,
     SameViews, SameState, SameAnswers
<1>e. Answers(S, v, u, R, B, K, K \cup Vouched(u), F, F)
  BY <1>1, <1>2, <1>3, <1>4, <1>5, <1>8, <1>10, <1>12, <1>13 DEF Before, Related, FinishedOK,
     Answers, Vouched, Early, Flying, SameReads, SameViews, SameState, SameAnswers
<1>f. {q} \cap (Lent(u) \cup Claimed(u)) = {}
  BY <1>1, <1>2, <1>3, <1>4, <1>5, <1>8, <1>10, <1>12, <1>13, NoRequestIsNone DEF Lent, Claimed,
     Claiming, Places, Flying, SameReads, SameViews, SameState, SameAnswers
<1>g. q \in InProgress(v) /\ InProgress(u) \subseteq InProgress(v) \ {q}
  BY <1>1, <1>2, <1>3, <1>4, <1>5, <1>8, <1>10, <1>12, <1>13, NoRequestIsNone DEF InProgress,
     Places, Flying, Lent, SameReads, SameViews, SameState, SameAnswers
<1>h. AsksOne(u)
  BY <1>1, <1>2, <1>3, <1>4, <1>5, <1>8, <1>10, <1>12, <1>13, <1>g, AsksLess DEF Booked, Running,
     SameReads, SameViews, SameState, SameAnswers
<1>i. Booked(u, T)
  BY <1>1, <1>2, <1>3, <1>4, <1>5, <1>8, <1>10, <1>12, <1>13, <1>h DEF Booked, RoundOK, EndsClean,
     Running, ThreadOK, RingOK, SameReads, SameViews, SameState, SameAnswers
<1> QED
  BY <1>2, <1>3, <1>4, <1>5, <1>8, <1>10, <1>12, <1>13, <1>7, <1>a, <1>b, <1>c, <1>d, <1>e, <1>f,
     <1>i, RingStep

\* The drain fails: the read is uncertain.
LEMMA UndoFailsSafe ==
    ASSUME NEW r, NEW S, NEW v, NEW R, NEW B, NEW K, NEW F, NEW u, NEW T, NEW D,
           Before(r, S, v, R, B, K, F), After(r, u, T, D), UndoFails(r)
    PROVE  RankOK(S, u, T, D, K \cup Vouched(u), F)
<1>1. v \in WorkerRecord /\ ThreadOK(S.mode, v) /\ Places(v) /\ Booked(v, R) /\ RingOK(R)
      /\ v.thr \in Thread /\ S.mode = mode /\ S.mode \in {"jobs", "requests"}
      /\ Related(S, v, R, B, K, F)
  BY DEF Before, RankOK, WorkerRecord, BooksRecord
<1>2. D = B /\ v.thr.pc = "undo"
  BY DEF Before, After, UndoFails, At
<1>3. PICK q : q = v.thr.q
  OBVIOUS
<1>4. q \in Flying(v) /\ q \in Owned(v) /\ q \in Requests /\ q \in v.submitting
  BY <1>1, <1>2, <1>3, OwnedFacts DEF Flying, ThreadOK, Submits
<1>5. mode = "jobs"
  BY <1>1, <1>4 DEF ThreadOK
<1>6. PICK a \in SUBSET Requests, b \in SUBSET Requests :
         a = v.failed \cup {q} /\ b = v.uncertain \cup {q}
  BY <1>1, <1>4 DEF WorkerRecord
<1>7. PICK x : x = [v EXCEPT !.failed = a, !.fatal = TRUE, !.uncertain = b]
  OBVIOUS
<1>8. T = Abandon(R, q) /\ u = Go(AbortCapture(x, q), "finally")
  BY <1>3, <1>6, <1>7 DEF Before, After, UndoFails, Become, DrainFailed
<1>9. RingMove(R, T, {})
  BY <1>1, <1>8, AbandonMove
<1>10. x \in WorkerRecord
  BY <1>1, <1>7 DEF WorkerRecord
<1>11. /\ x.pending = v.pending /\ x.draining = v.draining /\ x.failed = v.failed \cup {q}
       /\ x.queued = v.queued /\ x.submitting = v.submitting /\ x.thr = v.thr /\ x.fatal
       /\ x.eng = v.eng /\ x.high = v.high /\ x.closed = v.closed
       /\ x.waived = v.waived /\ x.leaked = v.leaked
       /\ SameViews(v, x) /\ SameAnswers(v, x)
  BY <1>1, <1>6, <1>7 DEF WorkerRecord, SameViews, SameAnswers
<1>12. PICK y : y = FinishStore(x, q, FALSE)
  OBVIOUS
<1>13. /\ y \in WorkerRecord /\ SameReads(x, y) /\ SameViews(x, y) /\ SameState(x, y)
       /\ y.thr = x.thr /\ y.completed = x.completed /\ y.ended = x.ended /\ y.done = x.done /\ ~y.inflight
  <2>1. FALSE \in BOOLEAN
    OBVIOUS
  <2> QED
    BY <1>4, <1>10, <1>12, <2>1, AbortFields
<1>14. [y.thr EXCEPT !.pc = "finally"] \in Thread
  BY <1>1, <1>11, <1>13 DEF Thread
<1>15. /\ u \in WorkerRecord /\ SameReads(y, u) /\ SameViews(y, u) /\ SameState(y, u)
       /\ SameAnswers(y, u) /\ u.thr.pc = "finally" /\ u.thr.q = q
  <2>1. u = Go(y, "finally")
    BY <1>8, <1>12 DEF AbortCapture
  <2> QED
    BY <1>3, <1>11, <1>13, <1>14, <2>1, GoFields
<1>a. ThreadOK(S.mode, u)
  BY <1>1, <1>2, <1>3, <1>4, <1>5, <1>11, <1>13, <1>15, NoRequestIsNone DEF ThreadOK, Submits,
     SameReads, SameViews, SameState, SameAnswers
<1>b. Places(u)
  BY <1>1, <1>2, <1>3, <1>4, <1>5, <1>11, <1>13, <1>15, NoRequestIsNone DEF Places, Flying,
     Lent, SameReads, SameViews
<1>c. Calm(v, u)
  BY <1>1, <1>2, <1>3, <1>4, <1>5, <1>11, <1>13, <1>15 DEF Calm, Flying, Lent, Early, Owned,
     Claimed, Claiming, SameReads, SameViews, SameState, SameAnswers
<1>d. GivesUp(S.mode, v, u, R, B)
  BY <1>1, <1>2, <1>3, <1>4, <1>5, <1>11, <1>13, <1>15 DEF GivesUp, Flying, SameReads,
     SameViews, SameState, SameAnswers
<1>e. Answers(S, v, u, R, B, K, K \cup Vouched(u), F, F)
  BY <1>1, <1>2, <1>3, <1>4, <1>5, <1>11, <1>13, <1>15 DEF Before, Related, FinishedOK, Answers, Vouched,
     Early, Flying, SameReads, SameViews, SameState, SameAnswers
<1>f. {} \cap (Lent(u) \cup Claimed(u)) = {}
  BY <1>1, <1>2, <1>3, <1>4, <1>5, <1>11, <1>13, <1>15, NoRequestIsNone DEF Lent, Claimed,
     Claiming, Places, Flying, SameReads, SameViews, SameState, SameAnswers
<1>h. AsksOne(u)
  BY <1>1, <1>2, <1>3, <1>4, <1>5, <1>11, <1>13, <1>15 DEF AsksOne, Running, SameReads, SameViews,
     SameState, SameAnswers
<1>i. Booked(u, T)
  BY <1>1, <1>2, <1>3, <1>4, <1>5, <1>11, <1>13, <1>15, <1>h DEF Booked, RoundOK, EndsClean,
     Running, ThreadOK, RingOK, SameReads, SameViews, SameState, SameAnswers
<1> QED
  BY <1>2, <1>3, <1>4, <1>5, <1>11, <1>13, <1>15, <1>9, <1>a, <1>b, <1>c, <1>d, <1>e, <1>f, <1>i,
     RingStep

\* The progress thread fails: what it may read stays uncertain, queued jobs never start.
LEMMA ProgressFailsSafe ==
    ASSUME NEW r, NEW S, NEW v, NEW R, NEW B, NEW K, NEW F, NEW u, NEW T, NEW D,
           Before(r, S, v, R, B, K, F), After(r, u, T, D), ProgressFails(r)
    PROVE  RankOK(S, u, T, D, K \cup Vouched(u), F)
<1>1. v \in WorkerRecord /\ ThreadOK(S.mode, v) /\ Places(v) /\ Booked(v, R) /\ RingOK(R)
      /\ v.thr \in Thread /\ S.mode = mode /\ S.mode \in {"jobs", "requests"}
      /\ Related(S, v, R, B, K, F)
  BY DEF Before, RankOK, WorkerRecord, BooksRecord
<1>2. D = B /\ T = R /\ v.thr.pc = "poll" /\ v.thr.q = NoRequest /\ v.submitting = {}
      /\ v.thr.todo # {}
  BY <1>1 DEF Before, After, ProgressFails, At, ThreadOK, Submits
<1>3. /\ v.queued \subseteq Early(v) /\ v.pending \subseteq Flying(v)
      /\ v.queued \in SUBSET Requests /\ v.pending \in SUBSET Requests
  BY <1>1 DEF Early, Flying, WorkerRecord
<1>4. \A q \in v.queued : /\ mode = "jobs" /\ ~Reads(R, q) /\ S.job[q] <= v.high /\ q \notin S.unsent
                          /\ q \notin Flying(v) \cup v.failed
  BY <1>3, OwnedFacts DEF Unused
<1>5. PICK h \in BOOLEAN : h = (v.inflight /\ v.pending = {} /\ v.queued = {})
  BY <1>1 DEF WorkerRecord
<1>6. PICK e \in SUBSET Requests : e = v.held \ (v.pending \cup v.queued)
  BY <1>1 DEF WorkerRecord
<1>7. PICK t \in Thread : t = [Idle EXCEPT !.pc = "dead"]
  BY DEF Idle, Thread
<1>8. PICK x : x = [v EXCEPT !.fatal = TRUE, !.queued = {}, !.inflight = h, !.held = e, !.thr = t]
  OBVIOUS
<1>9. x \in WorkerRecord
  BY <1>1, <1>8 DEF WorkerRecord
<1>10. /\ x.pending = v.pending /\ x.draining = v.draining /\ x.failed = v.failed
       /\ x.queued = {} /\ x.submitting = {} /\ x.thr = t /\ x.fatal
       /\ x.eng = v.eng /\ x.high = v.high /\ x.closed = v.closed
       /\ x.waived = v.waived /\ x.leaked = v.leaked
       /\ SameViews(v, x) /\ x.completed = v.completed /\ x.ended = v.ended /\ x.done = v.done
  BY <1>1, <1>2, <1>8 DEF WorkerRecord, SameViews
<1>11. t.pc = "dead" /\ t.q = NoRequest
  BY <1>7 DEF Idle
<1>12. CASE mode = "jobs"
  <2>1. PICK a \in SUBSET Requests, b \in SUBSET Requests :
           a = v.failed \cup v.pending \cup v.submitting /\ b = v.uncertain \cup v.pending \cup v.submitting
    BY <1>1 DEF WorkerRecord
  <2>2. PICK y : y = [x EXCEPT !.failed = a, !.uncertain = b]
    OBVIOUS
  <2>3. u = MarkCompleted(y, v.queued)
    <3>1. x = [v EXCEPT !.fatal = TRUE, !.queued = {}, !.inflight = @ /\ v.pending = {} /\ v.queued = {},
                        !.held = @ \ (v.pending \cup v.queued), !.thr = [Idle EXCEPT !.pc = "dead"]]
      BY <1>5, <1>6, <1>7, <1>8
    <3>2. x.failed = v.failed /\ x.uncertain = v.uncertain
      BY <1>1, <1>8 DEF WorkerRecord
    <3>3. y = [x EXCEPT !.failed = @ \cup v.pending \cup v.submitting,
                        !.uncertain = @ \cup v.pending \cup v.submitting]
      BY <2>1, <2>2, <3>2
    <3> QED
      BY <1>12, <3>1, <3>3 DEF Before, After, ProgressFails, Become
  <2>4. y \in WorkerRecord
    BY <1>9, <2>2 DEF WorkerRecord
  <2>5. /\ y.pending = v.pending /\ y.draining = v.draining /\ y.failed = v.failed \cup v.pending
        /\ y.queued = {} /\ y.submitting = {} /\ y.thr = t
        /\ SameViews(x, y) /\ SameState(x, y) /\ SameAnswers(x, y)
    BY <1>2, <1>9, <1>10, <2>1, <2>2 DEF WorkerRecord, SameViews, SameState, SameAnswers
  <2>6. /\ u \in WorkerRecord /\ SameReads(y, u) /\ SameViews(y, u) /\ SameState(y, u)
        /\ u.thr = t /\ u.ended = v.ended /\ u.completed = v.completed /\ u.done = v.done \cup v.queued
    <3>1. /\ u \in WorkerRecord /\ SameReads(y, u) /\ SameViews(y, u) /\ SameState(y, u)
          /\ u.thr = y.thr /\ u.ended = y.ended /\ u.completed = y.completed
          /\ u.done = y.done \cup v.queued
      BY <1>3, <1>12, <2>3, <2>4, MarkFields
    <3> QED
      BY <1>10, <2>5, <3>1 DEF SameAnswers
  <2>a. ThreadOK(S.mode, u)
    BY <1>1, <1>2, <1>3, <1>4, <1>10, <1>11, <1>12, <2>5, <2>6, NoRequestIsNone DEF ThreadOK,
       Submits, SameReads, SameViews, SameState, SameAnswers
  <2>b. Places(u)
    BY <1>1, <1>2, <1>3, <1>4, <1>10, <1>11, <1>12, <2>5, <2>6, NoRequestIsNone DEF Places,
       Flying, Lent, SameReads, SameViews
  <2>c. Calm(v, u)
    BY <1>1, <1>2, <1>3, <1>4, <1>10, <1>11, <1>12, <2>5, <2>6 DEF Calm, Flying, Lent, Early,
       Owned, Claimed, Claiming, SameReads, SameViews, SameState, SameAnswers
  <2>d. GivesUp(S.mode, v, u, R, B)
    BY <1>1, <1>2, <1>3, <1>4, <1>10, <1>11, <1>12, <2>5, <2>6 DEF GivesUp, Flying, SameReads,
       SameViews, SameState, SameAnswers
  <2>e. Answers(S, v, u, R, B, K, K \cup Vouched(u), F, F)
    BY <1>1, <1>2, <1>3, <1>4, <1>10, <1>11, <1>12, <2>5, <2>6 DEF Before, Related, FinishedOK,
       Answers, Vouched, Early, Flying, SameReads, SameViews, SameState, SameAnswers
  <2>h. AsksOne(u)
    BY <1>1, <1>2, <1>3, <1>4, <1>10, <1>11, <1>12, <2>5, <2>6 DEF AsksOne, Running, SameReads,
       SameViews, SameState, SameAnswers
  <2>i. Booked(u, R)
    BY <1>1, <1>2, <1>3, <1>4, <1>10, <1>11, <1>12, <2>5, <2>6, <2>h DEF Booked, RoundOK, EndsClean,
       Running, ThreadOK, RingOK, SameReads, SameViews, SameState, SameAnswers
  <2> QED
    BY <1>2, <1>3, <1>4, <1>10, <1>11, <1>12, <2>5, <2>6, <2>a, <2>b, <2>c, <2>d, <2>e, <2>i,
       StillStep
<1>13. CASE mode # "jobs"
  <2>1. u = x
    BY <1>5, <1>6, <1>7, <1>8, <1>13 DEF Before, After, ProgressFails, Become
  <2>a. ThreadOK(S.mode, u)
    BY <1>1, <1>2, <1>3, <1>4, <1>9, <1>10, <1>11, <1>13, <2>1, NoRequestIsNone DEF ThreadOK,
       Submits, SameReads, SameViews, SameState, SameAnswers
  <2>b. Places(u)
    BY <1>1, <1>2, <1>3, <1>4, <1>9, <1>10, <1>11, <1>13, <2>1, NoRequestIsNone DEF Places,
       Flying, Lent, SameReads, SameViews
  <2>c. Calm(v, u)
    BY <1>1, <1>2, <1>3, <1>4, <1>9, <1>10, <1>11, <1>13, <2>1 DEF Calm, Flying, Lent, Early,
       Owned, Claimed, Claiming, SameReads, SameViews, SameState, SameAnswers
  <2>d. GivesUp(S.mode, v, u, R, B)
    BY <1>1, <1>2, <1>3, <1>4, <1>9, <1>10, <1>11, <1>13, <2>1 DEF GivesUp, Flying, SameReads,
       SameViews, SameState, SameAnswers
  <2>e. Answers(S, v, u, R, B, K, K \cup Vouched(u), F, F)
    BY <1>1, <1>2, <1>3, <1>4, <1>9, <1>10, <1>11, <1>13, <2>1 DEF Before, Related, FinishedOK,
       Answers, Vouched, Early, Flying, SameReads, SameViews, SameState, SameAnswers
  <2>h. AsksOne(u)
    BY <1>1, <1>2, <1>3, <1>4, <1>9, <1>10, <1>11, <1>13, <2>1 DEF AsksOne, Running, SameReads,
       SameViews, SameState, SameAnswers
  <2>i. Booked(u, R)
    BY <1>1, <1>2, <1>3, <1>4, <1>9, <1>10, <1>11, <1>13, <2>1, <2>h DEF Booked, RoundOK, EndsClean,
       Running, ThreadOK, RingOK, SameReads, SameViews, SameState, SameAnswers
  <2> QED
    BY <1>2, <1>3, <1>4, <1>9, <1>10, <1>11, <1>13, <2>1, <2>a, <2>b, <2>c, <2>d, <2>e, <2>i,
       StillStep
<1> QED
  BY <1>12, <1>13

\* The GPU finishes a gather.
LEMMA GatherEndsSafe ==
    ASSUME NEW r, NEW S, NEW v, NEW R, NEW B, NEW K, NEW F, NEW u, NEW T, NEW D, NEW s,
           Before(r, S, v, R, B, K, F), After(r, u, T, D), s \in Slots, GatherEnds(r, s)
    PROVE  RankOK(S, u, T, D, K \cup Vouched(u), F)
<1>1. v \in WorkerRecord /\ ThreadOK(S.mode, v) /\ Places(v) /\ Booked(v, R) /\ RingOK(R)
      /\ v.thr \in Thread /\ S.mode = mode /\ S.mode \in {"jobs", "requests"}
      /\ Related(S, v, R, B, K, F)
  BY DEF Before, RankOK, WorkerRecord, BooksRecord
<1>2. D = B /\ u = v /\ T = Finished(R, s) /\ R[s].busy /\ s \in Slots
  BY <1>1 DEF Before, After, GatherEnds
<1>3. RingMove(R, T, {})
  BY <1>1, <1>2, FinishedMove
<1>4. D = B /\ u \in WorkerRecord
  BY <1>1, <1>2
<1>a. ThreadOK(S.mode, u)
  BY <1>1, <1>2, NoRequestIsNone DEF ThreadOK, Submits, SameReads, SameViews, SameState,
     SameAnswers
<1>b. Places(u)
  BY <1>1, <1>2, NoRequestIsNone DEF Places, Flying, Lent, SameReads, SameViews
<1>c. Calm(v, u)
  BY <1>1, <1>2 DEF Calm, Flying, Lent, Early, Owned, Claimed, Claiming, SameReads, SameViews,
     SameState, SameAnswers
<1>d. GivesUp(S.mode, v, u, R, B)
  BY <1>1, <1>2 DEF GivesUp, Flying, SameReads, SameViews, SameState, SameAnswers
<1>e. Answers(S, v, u, R, B, K, K \cup Vouched(u), F, F)
  BY <1>1, <1>2 DEF Before, Related, FinishedOK, Answers, Vouched, Early, Flying, SameReads, SameViews,
     SameState, SameAnswers
<1>f. {} \cap (Lent(u) \cup Claimed(u)) = {}
  BY <1>1, <1>2, NoRequestIsNone DEF Lent, Claimed, Claiming, Places, Flying, SameReads,
     SameViews, SameState, SameAnswers
<1>g. InProgress(u) = InProgress(v)
  BY <1>1, <1>2, NoRequestIsNone DEF InProgress, SameReads, SameViews, SameState, SameAnswers
<1>h. AsksOne(u)
  BY <1>1, <1>2, <1>g, AsksKept DEF Booked, Running, SameReads, SameViews, SameState, SameAnswers
<1>i. Booked(u, T)
  BY <1>1, <1>2, <1>h DEF Booked, RoundOK, EndsClean, Running, ThreadOK, RingOK, SameReads,
     SameViews, SameState, SameAnswers
<1> QED
  BY <1>3, <1>4, <1>a, <1>b, <1>c, <1>d, <1>e, <1>f, <1>i, RingStep

\* A submission that left nothing in the ring has still to be undone.
LEMMA UndoneKeeps ==
    ASSUME NEW S \in BooksRecord, NEW v \in WorkerRecord, NEW u \in WorkerRecord,
           NEW R, NEW B, NEW K \in SUBSET Requests, NEW F \in SUBSET Requests, NEW q \in Requests,
           S.mode = "jobs", Related(S, v, R, B, K, F),
           ~New(S.mode, S.job, v, B, q), q \notin K \cup S.unsent,
           u.tickets = v.tickets, Lent(u) = Lent(v), Claiming(u) = Claiming(v),
           Claimed(u) = Claimed(v), Early(u) \subseteq Early(v) \ {q}, Flying(u) = Flying(v) \cup {q},
           Owned(u) = Owned(v), u.failed = v.failed, u.high = v.high,
           u.closed = v.closed, u.eng = v.eng, u.fatal = v.fatal, u.ended = v.ended
    PROVE  Related(S, u, R, B, K, F)
<1>1. \A p : p # q /\ Unused(v, R, p) => Unused(u, R, p)
  BY DEF Unused, Tickets
<1>2. TicketsOK(u, R)
  BY DEF Related, TicketsOK
<1>3. ReadsOK(S.mode, u, R, B)
  BY <1>1 DEF Related, ReadsOK
<1>4. InboxOK(S.mode, S.job, u, R, B)
  BY <1>1 DEF Related, InboxOK, New
<1>5. AckOK(S.job, u, R, K)
  BY DEF Related, AckOK
<1>6. UnknownOK(S, u, R, B, K, F)
  BY <1>1 DEF Related, UnknownOK
<1>7. FinishedOK(S, u, R, B, K, F)
  BY DEF FinishedOK
<1> QED
  BY <1>2, <1>3, <1>4, <1>5, <1>6, <1>7 DEF Related

\* A finished gather becomes a view for the saver.
LEMMA ClaimReadySafe ==
    ASSUME NEW r, NEW S, NEW v, NEW R, NEW B, NEW K, NEW F, NEW u, NEW T, NEW D, NEW q,
           Before(r, S, v, R, B, K, F), After(r, u, T, D), ClaimReady(r, q)
    PROVE  RankOK(S, u, T, D, K \cup Vouched(u), F)
<1>1. v \in WorkerRecord /\ ThreadOK(S.mode, v) /\ Places(v) /\ Booked(v, R) /\ RingOK(R)
      /\ v.thr \in Thread /\ S.mode = mode /\ S.mode \in {"jobs", "requests"}
      /\ Related(S, v, R, B, K, F)
  BY DEF Before, RankOK, WorkerRecord, BooksRecord
<1>2. D = B /\ v.thr.pc = "poll" /\ q \in v.thr.todo /\ (mode = "requests" => q \in v.pending)
  BY DEF Before, After, ClaimReady, At
<1>3. q \in v.pending /\ q \in Requests
  BY <1>1, <1>2 DEF ThreadOK, WorkerRecord
<1>4. PICK A : A = ReapAbandoned(R)
  OBVIOUS
<1>5. RingMove(R, A, {})
  BY <1>1, <1>4, ReapAbandonedMove
<1>6. /\ S \in BooksRecord /\ K \in SUBSET Requests /\ F \in SUBSET Requests /\ Vouched(v) \subseteq K
      /\ {} \cap (Lent(v) \cup Claimed(v)) = {}
  BY DEF Before
<1>7. RingOK(A) /\ Related(S, v, A, B, K, F)
  BY <1>1, <1>5, <1>6, RingKeeps
<1>8. PICK t : t \in v.tickets /\ t.q = q /\ PollStatus(R, t) = "ok" /\ T = PollClaim(R, t)
  BY DEF Before, After, ClaimReady, Tickets
<1>9. t.slot \in Slots
  BY <1>1, <1>8 DEF WorkerRecord, Ticket
<1>10. Resolves(A, t) /\ ~(R[t.slot].st = "filling" /\ R[t.slot].busy)
  BY <1>4, <1>8 DEF PollStatus
<1>11. ~A[t.slot].busy
  BY <1>1, <1>5, <1>9, <1>10 DEF RingOK, RingMove, SlotKept, SlotFreed
<1>12. T = [A EXCEPT ![t.slot].st = "writing"]
  BY <1>4, <1>8 DEF PollClaim
<1>13. PICK x : x = [v EXCEPT !.thr.q = q, !.thr.todo = @ \ {q}]
  OBVIOUS
<1>14. u = Go(x, "pop")
  BY <1>13 DEF Before, After, ClaimReady, Become
<1>15. PICK e \in SUBSET Requests : e = v.thr.todo \ {q}
  BY <1>1 DEF Thread
<1>16. PICK y \in Thread : y = [v.thr EXCEPT !.q = q, !.todo = e]
  BY <1>1, <1>3, <1>15 DEF Thread
<1>17. x = [v EXCEPT !.thr = y]
  BY <1>1, <1>13, <1>15, <1>16 DEF WorkerRecord, Thread
<1>18. x \in WorkerRecord
  BY <1>1, <1>17 DEF WorkerRecord
<1>19. SameReads(v, x) /\ SameViews(v, x) /\ SameState(v, x) /\ SameAnswers(v, x) /\ x.thr = y
  BY <1>1, <1>17 DEF WorkerRecord, SameReads, SameViews, SameState, SameAnswers
<1>20. y.q = q /\ y.todo = v.thr.todo \ {q}
  BY <1>1, <1>15, <1>16 DEF Thread
<1>21. [x.thr EXCEPT !.pc = "pop"] \in Thread
  BY <1>16, <1>19 DEF Thread
<1>22. /\ u \in WorkerRecord /\ SameReads(x, u) /\ SameViews(x, u) /\ SameState(x, u)
       /\ SameAnswers(x, u) /\ u.thr.pc = "pop" /\ u.thr.q = q /\ u.thr.todo = v.thr.todo \ {q}
  BY <1>14, <1>18, <1>19, <1>20, <1>21, GoFields
<1>23. ThreadOK(S.mode, u)
  BY <1>1, <1>2, <1>3, <1>19, <1>22, NoRequestIsNone DEF ThreadOK, Submits, SameReads,
     SameViews, SameState, SameAnswers
<1>24. Places(u)
  BY <1>1, <1>2, <1>19, <1>22 DEF Places, Flying, Lent, SameReads, SameViews
<1>25. /\ u.tickets = v.tickets /\ Lent(u) = Lent(v) /\ Claiming(u) = {q} /\ Claiming(v) = {}
       /\ Early(u) = Early(v) /\ Flying(u) = Flying(v) /\ Owned(u) = Owned(v)
       /\ u.failed = v.failed /\ u.high = v.high /\ u.closed = v.closed /\ u.eng = v.eng
       /\ u.completed = v.completed /\ u.ended = v.ended /\ u.done = v.done
       /\ u.fatal = v.fatal /\ u.waived = v.waived
  BY <1>2, <1>19, <1>22 DEF Lent, Claiming, Early, Flying, Owned, SameReads, SameViews,
     SameState, SameAnswers
<1>26. RingOK(T) /\ Related(S, u, T, B, K, F)
  BY <1>1, <1>3, <1>6, <1>7, <1>8, <1>10, <1>11, <1>12, <1>22, <1>25, ClaimKeeps
<1>27. K \cup Vouched(u) = K
  BY <1>6, <1>25 DEF Vouched
<1>28. InProgress(u) = InProgress(v)
  BY <1>2, <1>19, <1>22 DEF InProgress, SameReads, SameViews
<1>29. AsksOne(u)
  BY <1>1, <1>19, <1>22, <1>28, AsksKept DEF Booked, Running, SameState, SameAnswers
<1>30. Booked(u, T)
  BY <1>1, <1>2, <1>19, <1>22, <1>29 DEF Booked, RoundOK, EndsClean, Running, SameReads, SameViews,
     SameState, SameAnswers
<1> QED
  BY <1>2, <1>22, <1>23, <1>24, <1>26, <1>27, <1>30 DEF RankOK

\* The native submission, by its outcome.
LEMMA SubmitNativeSafe ==
    ASSUME NEW r, NEW S, NEW v, NEW R, NEW B, NEW K, NEW F, NEW u, NEW T, NEW D,
           NEW o \in {"ok", "full", "refused", "drained", "uncertain"},
           NEW running \in BOOLEAN,
           Before(r, S, v, R, B, K, F), After(r, u, T, D), SubmitNative(r, o, running)
    PROVE  RankOK(S, u, T, D, K \cup Vouched(u), F)
<1>1. v \in WorkerRecord /\ ThreadOK(S.mode, v) /\ Places(v) /\ Booked(v, R) /\ RingOK(R)
      /\ v.thr \in Thread /\ S.mode = mode /\ S.mode \in {"jobs", "requests"}
      /\ Related(S, v, R, B, K, F)
  BY DEF Before, RankOK, WorkerRecord, BooksRecord
<1>2. D = B /\ v.thr.pc = "native"
  BY DEF Before, After, SubmitNative, At
<1>3. PICK q : q = v.thr.q
  OBVIOUS
<1>4. q \in Early(v) /\ q \in v.submitting
  BY <1>1, <1>2, <1>3 DEF Early, ThreadOK, Submits
<1>5. /\ mode = "jobs" /\ Unused(v, R, q) /\ ~Reads(R, q) /\ ~New(S.mode, S.job, v, B, q)
      /\ S.job[q] <= v.high /\ q \notin K \cup S.unsent /\ q \in Requests
  BY <1>4, OwnedFacts
<1>6. q \notin v.queued /\ q \notin Flying(v) \cup Lent(v) \cup v.failed
  BY <1>1, <1>4, <1>5 DEF ThreadOK, Unused
<1>7. /\ S \in BooksRecord /\ K \in SUBSET Requests /\ F \in SUBSET Requests /\ Vouched(v) \subseteq K
      /\ S.mode = "jobs"
  BY <1>1, <1>5 DEF Before
<1>8. T = TrySubmitPages(R, q, o, running) /\ o \in SubmitOutcomes(R, SubmitFaults)
  BY <1>3 DEF Before, After, SubmitNative, Submitting
<1>9. o # "full" => FreeSlots(ReapAbandoned(R)) # {}
  BY <1>8 DEF SubmitOutcomes
<1>10. q \in Contexts /\ \A s \in Slots : R[s].ctx # q
  BY <1>5 DEF Unused, Requests
<1>11. /\ o \in {"full", "refused", "drained"} => RingMove(R, T, {})
       /\ o \in {"ok", "uncertain"} => Fills(R, T, q)
  BY <1>1, <1>8, <1>9, <1>10, SubmitMoves
<1>12. u = CASE o = "ok" -> Go(Issue(v, q, T), "insert")
             [] o = "full" -> Go(AbortCapture(MarkCompleted(v, {q}), q), "finally")
             [] OTHER -> Go(v, "undo")
  BY <1>3 DEF Before, After, SubmitNative, Become
<1>13. CASE o = "full"
  <2>1. PICK y : y = AbortCapture(MarkCompleted(v, {q}), q)
    OBVIOUS
  <2>2. /\ y \in WorkerRecord /\ SameReads(v, y) /\ SameViews(v, y) /\ SameState(v, y)
        /\ y.thr = v.thr /\ y.ended = v.ended /\ y.completed = v.completed
        /\ y.done = v.done \cup {q} /\ ~y.inflight
    BY <1>1, <1>5, <2>1, EndFields
  <2>3. [y.thr EXCEPT !.pc = "finally"] \in Thread
    BY <1>1, <2>2 DEF Thread
  <2>4. /\ u \in WorkerRecord /\ SameReads(y, u) /\ SameViews(y, u) /\ SameState(y, u)
        /\ SameAnswers(y, u) /\ u.thr.pc = "finally" /\ u.thr.q = q /\ u.thr.todo = v.thr.todo
    BY <1>3, <1>12, <1>13, <2>1, <2>2, <2>3, GoFields
  <2>5. RingMove(R, T, {})
    BY <1>11, <1>13
  <2>a. ThreadOK(S.mode, u)
    BY <1>1, <1>2, <1>3, <1>5, <1>6, <2>2, <2>4, NoRequestIsNone DEF ThreadOK, Submits,
       SameReads, SameViews, SameState, SameAnswers
  <2>b. Places(u)
    BY <1>1, <1>2, <1>3, <1>5, <1>6, <2>2, <2>4, NoRequestIsNone DEF Places, Flying, Lent,
       SameReads, SameViews
  <2>c. Calm(v, u)
    BY <1>1, <1>2, <1>3, <1>5, <1>6, <2>2, <2>4 DEF Calm, Flying, Lent, Early, Owned, Claimed,
       Claiming, SameReads, SameViews, SameState, SameAnswers
  <2>d. GivesUp(S.mode, v, u, R, B)
    BY <1>1, <1>2, <1>3, <1>5, <1>6, <2>2, <2>4 DEF GivesUp, Flying, SameReads, SameViews,
       SameState, SameAnswers
  <2>e. Answers(S, v, u, R, B, K, K \cup Vouched(u), F, F)
    BY <1>1, <1>2, <1>3, <1>5, <1>6, <2>2, <2>4 DEF Before, Related, FinishedOK, Answers, Vouched, Early,
       Flying, SameReads, SameViews, SameState, SameAnswers
  <2>f. {} \cap (Lent(u) \cup Claimed(u)) = {}
    BY <1>1, <1>2, <1>3, <1>5, <1>6, <2>2, <2>4, NoRequestIsNone DEF Lent, Claimed, Claiming,
       Places, Flying, SameReads, SameViews, SameState, SameAnswers
  <2>g. q \in InProgress(v) /\ InProgress(u) \subseteq InProgress(v) \ {q}
    BY <1>1, <1>2, <1>3, <1>5, <1>6, <2>2, <2>4, NoRequestIsNone DEF InProgress, Places, Flying,
       Lent, SameReads, SameViews, SameState, SameAnswers
  <2>h. AsksOne(u)
    BY <1>1, <1>2, <1>3, <1>5, <1>6, <2>2, <2>4, <2>g, AsksLess DEF Booked, Running, SameReads,
       SameViews, SameState, SameAnswers
  <2>i. Booked(u, T)
    BY <1>1, <1>2, <1>3, <1>5, <1>6, <2>2, <2>4, <2>h DEF Booked, RoundOK, EndsClean, Running,
       ThreadOK, RingOK, SameReads, SameViews, SameState, SameAnswers
  <2> QED
    BY <1>2, <1>3, <1>5, <1>6, <2>2, <2>4, <2>5, <2>a, <2>b, <2>c, <2>d, <2>e, <2>f, <2>i, RingStep
<1>14. ASSUME u \in WorkerRecord, SameReads(v, u), SameState(v, u), SameAnswers(v, u),
              u.ready = v.ready, u.storeq = v.storeq, u.writer = v.writer,
              u.thr.pc \in {"insert", "undo"}, u.thr.q = q, u.thr.todo = v.thr.todo
       PROVE  /\ ThreadOK(S.mode, u) /\ Places(u) /\ K \cup Vouched(u) = K
              /\ Lent(u) = Lent(v) /\ Claiming(u) = Claiming(v) /\ Claimed(u) = Claimed(v)
              /\ Early(u) \subseteq Early(v) \ {q} /\ Flying(u) = Flying(v) \cup {q}
              /\ Owned(u) = Owned(v) /\ u.failed = v.failed /\ u.high = v.high
              /\ u.closed = v.closed /\ u.eng = v.eng /\ u.ended = v.ended
              /\ u.fatal = v.fatal /\ u.waived = v.waived /\ Booked(u, T)
  <2>1. Early(v) = v.queued \cup {q} /\ Flying(v) = v.pending \cup v.draining
        /\ Claiming(v) = {} /\ Claiming(u) = {}
    BY <1>2, <1>3, <1>14 DEF Early, Flying, Claiming
  <2>2. Early(u) = u.queued /\ Flying(u) = u.pending \cup u.draining \cup {q}
    BY <1>14 DEF Early, Flying
  <2>3. Lent(u) = Lent(v) /\ Owned(u) = Owned(v) /\ Claimed(u) = Claimed(v)
    BY <1>14, <2>1 DEF Lent, Owned, Claimed, SameReads
  <2>4. ThreadOK(S.mode, u)
    BY <1>1, <1>2, <1>3, <1>5, <1>6, <1>14, <2>1, NoRequestIsNone DEF ThreadOK, Submits,
       SameReads, SameViews, SameState, SameAnswers
  <2>5. Places(u)
    BY <1>1, <1>6, <1>14, <2>1, <2>2, <2>3 DEF Places, SameReads
  <2>6. InProgress(u) = InProgress(v)
    BY <1>2, <1>3, <1>14 DEF InProgress, SameReads
  <2>7. AsksOne(u)
    BY <1>1, <1>14, <2>6, AsksKept DEF Booked, Running, SameState, SameAnswers
  <2>8. Booked(u, T)
    BY <1>1, <1>2, <1>14, <2>7 DEF Booked, RoundOK, EndsClean, Running, SameReads, SameState
  <2> QED
    BY <1>6, <1>7, <1>14, <2>1, <2>2, <2>3, <2>4, <2>5, <2>8 DEF SameReads, SameState, SameAnswers,
       Vouched
<1>15. CASE o = "ok"
  <2>1. PICK a : a = {[q |-> q, slot |-> s, gen |-> T[s].gen] : s \in Filling(T, q)}
    OBVIOUS
  <2>2. Fills(R, T, q)
    BY <1>11, <1>15
  <2>3. a \in SUBSET Ticket
    <3>1. \A s \in Filling(T, q) : s \in Slots /\ T[s] \in SlotRecord
      BY <2>2 DEF Filling, Fills
    <3> QED
      BY <1>5, <2>1, <3>1 DEF SlotRecord, Ticket
  <2>4. PICK b \in SUBSET Ticket : b = v.tickets \cup a
    BY <1>1, <2>3 DEF WorkerRecord
  <2>5. PICK y : y = [v EXCEPT !.tickets = b]
    OBVIOUS
  <2>6. u = Go(y, "insert")
    BY <1>12, <1>15, <2>1, <2>4, <2>5 DEF Issue
  <2>7. y \in WorkerRecord
    BY <1>1, <2>5 DEF WorkerRecord
  <2>8. /\ SameReads(v, y) /\ SameState(v, y) /\ SameAnswers(v, y) /\ y.thr = v.thr
        /\ y.ready = v.ready /\ y.storeq = v.storeq /\ y.writer = v.writer /\ y.tickets = b
    BY <1>1, <2>5 DEF WorkerRecord, SameReads, SameState, SameAnswers
  <2>9. [y.thr EXCEPT !.pc = "insert"] \in Thread
    BY <1>1, <2>8 DEF Thread
  <2>10. /\ u \in WorkerRecord /\ SameReads(y, u) /\ SameViews(y, u) /\ SameState(y, u)
         /\ SameAnswers(y, u) /\ u.thr.pc = "insert" /\ u.thr.q = q /\ u.thr.todo = v.thr.todo
    BY <1>3, <2>6, <2>7, <2>8, <2>9, GoFields
  <2>11. /\ SameReads(v, u) /\ SameState(v, u) /\ SameAnswers(v, u)
         /\ u.ready = v.ready /\ u.storeq = v.storeq /\ u.writer = v.writer /\ u.tickets = v.tickets \cup a
    BY <2>4, <2>8, <2>10 DEF SameReads, SameViews, SameState, SameAnswers
  <2>12. RingOK(T) /\ Related(S, u, T, B, K, F)
    <3>1. u.tickets \in {v.tickets, v.tickets \cup {[q |-> q, slot |-> s, gen |-> T[s].gen] :
                                                       s \in Filling(T, q)}}
      BY <2>1, <2>11
    <3>2. /\ Lent(u) = Lent(v) /\ Claiming(u) = Claiming(v) /\ Claimed(u) = Claimed(v)
          /\ Early(u) \subseteq Early(v) \ {q} /\ Flying(u) = Flying(v) \cup {q}
          /\ Owned(u) = Owned(v) /\ u.failed = v.failed /\ u.high = v.high
          /\ u.closed = v.closed /\ u.eng = v.eng /\ u.ended = v.ended
          /\ u.fatal = v.fatal /\ u.waived = v.waived
      BY <1>14, <2>10, <2>11
    <3>3. u \in WorkerRecord
      BY <2>10
    <3> QED
      BY <1>1, <1>5, <1>7, <2>2, <3>1, <3>2, <3>3, FillKeeps
  <2> QED
    BY <1>2, <1>14, <2>10, <2>11, <2>12 DEF RankOK
<1>16. CASE o \in {"refused", "drained", "uncertain"}
  <2>1. [v.thr EXCEPT !.pc = "undo"] \in Thread
    BY <1>1 DEF Thread
  <2>2. /\ u \in WorkerRecord /\ SameReads(v, u) /\ SameViews(v, u) /\ SameState(v, u)
        /\ SameAnswers(v, u) /\ u.thr.pc = "undo" /\ u.thr.q = q /\ u.thr.todo = v.thr.todo
    BY <1>1, <1>3, <1>12, <1>16, <2>1, GoFields
  <2>3. u.ready = v.ready /\ u.storeq = v.storeq /\ u.writer = v.writer /\ u.tickets = v.tickets
    BY <2>2 DEF SameViews
  <2>4. CASE o = "uncertain"
    <3>1. Fills(R, T, q)
      BY <1>11, <2>4
    <3>2. /\ Lent(u) = Lent(v) /\ Claiming(u) = Claiming(v) /\ Claimed(u) = Claimed(v)
          /\ Early(u) \subseteq Early(v) \ {q} /\ Flying(u) = Flying(v) \cup {q}
          /\ Owned(u) = Owned(v) /\ u.failed = v.failed /\ u.high = v.high
          /\ u.closed = v.closed /\ u.eng = v.eng /\ u.ended = v.ended
          /\ u.fatal = v.fatal /\ u.waived = v.waived
      BY <1>14, <2>2, <2>3
    <3>3. u \in WorkerRecord /\ u.tickets = v.tickets
      BY <2>2, <2>3
    <3>4. RingOK(T) /\ Related(S, u, T, B, K, F)
      BY <1>1, <1>5, <1>7, <3>1, <3>2, <3>3, FillKeeps
    <3> QED
      BY <1>2, <1>14, <2>2, <2>3, <3>4 DEF RankOK
  <2>5. CASE o \in {"refused", "drained"}
    <3>1. RingMove(R, T, {})
      BY <1>11, <2>5
    <3>2. Related(S, u, R, B, K, F)
      BY <1>1, <1>5, <1>7, <1>14, <2>2, <2>3, UndoneKeeps
    <3>3. ThreadOK(S.mode, u) /\ {} \cap (Lent(u) \cup Claimed(u)) = {}
      BY <1>14, <2>2, <2>3
    <3>4. RingOK(T) /\ Related(S, u, T, B, K, F)
      BY <1>1, <1>7, <2>2, <3>1, <3>2, <3>3, RingKeeps
    <3> QED
      BY <1>2, <1>14, <2>2, <2>3, <3>4 DEF RankOK
  <2> QED
    BY <1>16, <2>4, <2>5
<1> QED
  BY <1>13, <1>15, <1>16

\* The saver takes the next view.
LEMMA TakeStoreSafe ==
    ASSUME NEW r, NEW S, NEW v, NEW R, NEW B, NEW K, NEW F, NEW u, NEW T, NEW D,
           Before(r, S, v, R, B, K, F), After(r, u, T, D), TakeStore(r)
    PROVE  RankOK(S, u, T, D, K \cup Vouched(u), F)
<1>1. v \in WorkerRecord /\ ThreadOK(S.mode, v) /\ Places(v) /\ Booked(v, R) /\ RingOK(R)
      /\ v.thr \in Thread /\ S.mode = mode /\ S.mode \in {"jobs", "requests"}
      /\ Related(S, v, R, B, K, F)
  BY DEF Before, RankOK, WorkerRecord, BooksRecord
<1>2. D = B /\ T = R /\ v.writer.pc = "idle" /\ v.storeq # <<>>
  BY DEF Before, After, TakeStore
<1>3. /\ v.storeq \in Seq(Requests) /\ \A i, j \in DOMAIN v.storeq : v.storeq[i] = v.storeq[j] => i = j
      /\ v.writer.q = NoRequest
  BY <1>1, <1>2 DEF WorkerRecord, Places
<1>4. PICK q, s : q = Head(v.storeq) /\ s = Tail(v.storeq)
  OBVIOUS
<1>5. /\ s \in Seq(Requests) /\ q \in Requests /\ Range(v.storeq) = Range(s) \cup {q} /\ q \notin Range(s)
      /\ \A i, j \in DOMAIN s : s[i] = s[j] => i = j
  BY <1>2, <1>3, <1>4, QueueTail
<1>6. PICK y \in Saver : y = [Idle EXCEPT !.pc = "commit", !.q = q]
  BY <1>5 DEF Idle, Saver
<1>7. u = [v EXCEPT !.storeq = s, !.writer = y]
  BY <1>4, <1>6 DEF Before, After, TakeStore, Become
<1>8. u \in WorkerRecord
  BY <1>1, <1>5, <1>7 DEF WorkerRecord
<1>9. /\ SameReads(v, u) /\ SameState(v, u) /\ SameAnswers(v, u) /\ u.thr = v.thr
      /\ u.ready = v.ready /\ u.storeq = s /\ u.writer = y /\ u.tickets = v.tickets
  BY <1>1, <1>7 DEF WorkerRecord, SameReads, SameState, SameAnswers
<1>10. y.q = q /\ y.pc = "commit"
  BY <1>6 DEF Idle
<1>a. ThreadOK(S.mode, u)
  BY <1>1, <1>2, <1>3, <1>5, <1>8, <1>9, <1>10, NoRequestIsNone DEF ThreadOK, Submits,
     SameReads, SameViews, SameState, SameAnswers
<1>b. Places(u)
  BY <1>1, <1>2, <1>3, <1>5, <1>8, <1>9, <1>10, NoRequestIsNone DEF Places, Flying, Lent,
     SameReads, SameViews
<1>c. Calm(v, u)
  BY <1>1, <1>2, <1>3, <1>5, <1>8, <1>9, <1>10 DEF Calm, Flying, Lent, Early, Owned, Claimed,
     Claiming, SameReads, SameViews, SameState, SameAnswers
<1>d. GivesUp(S.mode, v, u, R, B)
  BY <1>1, <1>2, <1>3, <1>5, <1>8, <1>9, <1>10 DEF GivesUp, Flying, SameReads, SameViews,
     SameState, SameAnswers
<1>e. Answers(S, v, u, R, B, K, K \cup Vouched(u), F, F)
  BY <1>1, <1>2, <1>3, <1>5, <1>8, <1>9, <1>10 DEF Before, Related, FinishedOK, Answers, Vouched, Early,
     Flying, SameReads, SameViews, SameState, SameAnswers
<1>g. InProgress(u) = InProgress(v)
  BY <1>1, <1>2, <1>3, <1>5, <1>8, <1>9, <1>10, NoRequestIsNone DEF InProgress, SameReads,
     SameViews, SameState, SameAnswers
<1>h. AsksOne(u)
  BY <1>1, <1>2, <1>3, <1>5, <1>8, <1>9, <1>10, <1>g, AsksKept DEF Booked, Running, SameReads,
     SameViews, SameState, SameAnswers
<1>i. Booked(u, R)
  BY <1>1, <1>2, <1>3, <1>5, <1>8, <1>9, <1>10, <1>h DEF Booked, RoundOK, EndsClean, Running,
     ThreadOK, RingOK, SameReads, SameViews, SameState, SameAnswers
<1> QED
  BY <1>2, <1>3, <1>5, <1>8, <1>9, <1>10, <1>a, <1>b, <1>c, <1>d, <1>e, <1>i, StillStep

\* The view is stored; it is lent until the finally clause.
LEMMA CommitStoreSafe ==
    ASSUME NEW r, NEW S, NEW v, NEW R, NEW B, NEW K, NEW F, NEW u, NEW T, NEW D,
           NEW ok \in BOOLEAN,
           Before(r, S, v, R, B, K, F), After(r, u, T, D), CommitStore(r, ok)
    PROVE  RankOK(S, u, T, D, K \cup Vouched(u), F)
<1>1. v \in WorkerRecord /\ ThreadOK(S.mode, v) /\ Places(v) /\ Booked(v, R) /\ RingOK(R)
      /\ v.thr \in Thread /\ S.mode = mode /\ S.mode \in {"jobs", "requests"}
      /\ Related(S, v, R, B, K, F)
  BY DEF Before, RankOK, WorkerRecord, BooksRecord
<1>2. D = B /\ T = R /\ v.writer.pc = "commit"
  BY DEF Before, After, CommitStore
<1>3. PICK q : q = v.writer.q
  OBVIOUS
<1>4. q \in Requests /\ v.writer \in Saver
  BY <1>1, <1>2, <1>3 DEF WorkerRecord, Saver, Places
<1>5. PICK y \in Saver : y = [v.writer EXCEPT !.pc = "release"]
  BY <1>4 DEF Saver
<1>6. PICK x : x = [v EXCEPT !.writer = y]
  OBVIOUS
<1>7. u = FinishStore(x, q, ok)
  BY <1>3, <1>5, <1>6 DEF Before, After, CommitStore, Become
<1>8. x \in WorkerRecord
  BY <1>1, <1>6 DEF WorkerRecord
<1>9. /\ SameReads(v, x) /\ SameState(v, x) /\ SameAnswers(v, x) /\ x.thr = v.thr
      /\ x.ready = v.ready /\ x.storeq = v.storeq /\ x.writer = y /\ x.tickets = v.tickets
  BY <1>1, <1>6 DEF WorkerRecord, SameReads, SameState, SameAnswers
<1>10. y.q = q /\ y.pc = "release"
  BY <1>3, <1>4, <1>5 DEF Saver
<1>11. /\ u \in WorkerRecord /\ SameReads(x, u) /\ SameViews(x, u) /\ SameState(x, u)
       /\ u.thr = x.thr /\ u.completed = x.completed /\ u.ended = x.ended /\ u.done = x.done /\ ~u.inflight
       /\ q \notin v.queued /\ (v.thr.pc \in {"check", "native"} => v.thr.q # q)
  <2>1. q \in Lent(v)
    BY <1>3, <1>4, NoRequestIsNone DEF Lent
  <2>2. q \notin v.queued /\ (v.thr.pc \in {"check", "native"} => v.thr.q # q)
    BY <1>1, <2>1 DEF Related, ReadsOK, Unused, Early
  <2> QED
    BY <1>4, <1>7, <1>8, <2>2, AbortFields
<1>a. ThreadOK(S.mode, u)
  BY <1>1, <1>2, <1>3, <1>4, <1>9, <1>10, <1>11, NoRequestIsNone DEF ThreadOK, Submits,
     SameReads, SameViews, SameState, SameAnswers
<1>b. Places(u)
  BY <1>1, <1>2, <1>3, <1>4, <1>9, <1>10, <1>11, NoRequestIsNone DEF Places, Flying, Lent,
     SameReads, SameViews
<1>c. Calm(v, u)
  BY <1>1, <1>2, <1>3, <1>4, <1>9, <1>10, <1>11 DEF Calm, Flying, Lent, Early, Owned, Claimed,
     Claiming, SameReads, SameViews, SameState, SameAnswers
<1>d. GivesUp(S.mode, v, u, R, B)
  BY <1>1, <1>2, <1>3, <1>4, <1>9, <1>10, <1>11 DEF GivesUp, Flying, SameReads, SameViews,
     SameState, SameAnswers
<1>e. Answers(S, v, u, R, B, K, K \cup Vouched(u), F, F)
  BY <1>1, <1>2, <1>3, <1>4, <1>9, <1>10, <1>11 DEF Before, Related, FinishedOK, Answers, Vouched, Early,
     Flying, SameReads, SameViews, SameState, SameAnswers
<1>g. q \in InProgress(v) /\ InProgress(u) \subseteq InProgress(v) \ {q}
  BY <1>1, <1>2, <1>3, <1>4, <1>9, <1>10, <1>11, NoRequestIsNone DEF InProgress, Places, Flying,
     Lent, SameReads, SameViews, SameState, SameAnswers
<1>h. AsksOne(u)
  BY <1>1, <1>2, <1>3, <1>4, <1>9, <1>10, <1>11, <1>g, AsksLess DEF Booked, Running, SameReads,
     SameViews, SameState, SameAnswers
<1>i. Booked(u, R)
  BY <1>1, <1>2, <1>3, <1>4, <1>9, <1>10, <1>11, <1>h DEF Booked, RoundOK, EndsClean, Running,
     ThreadOK, RingOK, SameReads, SameViews, SameState, SameAnswers
<1> QED
  BY <1>2, <1>3, <1>4, <1>9, <1>10, <1>11, <1>a, <1>b, <1>c, <1>d, <1>e, <1>i, StillStep

\* The finally clause of the saver gives the view back.
LEMMA ReleaseViewSafe ==
    ASSUME NEW r, NEW S, NEW v, NEW R, NEW B, NEW K, NEW F, NEW u, NEW T, NEW D,
           Before(r, S, v, R, B, K, F), After(r, u, T, D), ReleaseView(r)
    PROVE  RankOK(S, u, T, D, K \cup Vouched(u), F)
<1>1. v \in WorkerRecord /\ ThreadOK(S.mode, v) /\ Places(v) /\ Booked(v, R) /\ RingOK(R)
      /\ v.thr \in Thread /\ S.mode = mode /\ S.mode \in {"jobs", "requests"}
      /\ Related(S, v, R, B, K, F)
  BY DEF Before, RankOK, WorkerRecord, BooksRecord
<1>2. D = B /\ v.writer.pc = "release" /\ v.tickets # {}
  BY DEF Before, After, ReleaseView, Tickets
<1>3. PICK q : q = v.writer.q
  OBVIOUS
<1>4. q \in Requests /\ q \notin v.ready \cup Range(v.storeq)
  BY <1>1, <1>2, <1>3 DEF WorkerRecord, Saver, Places
<1>5. PICK x : x = Retire(v, q)
  OBVIOUS
<1>6. /\ x \in WorkerRecord /\ SameReads(v, x) /\ SameState(v, x) /\ SameAnswers(v, x)
      /\ x.ready = v.ready /\ x.storeq = v.storeq /\ x.writer = v.writer
      /\ x.tickets = {t \in v.tickets : t.q # q} /\ x.thr = v.thr
  BY <1>1, <1>5, RetireFields
<1>7. PICK y \in Saver : y = Idle
  BY DEF Idle, Saver
<1>8. u = [x EXCEPT !.writer = y]
  BY <1>3, <1>5, <1>7 DEF Before, After, ReleaseView, Become
<1>9. u \in WorkerRecord
  BY <1>6, <1>8 DEF WorkerRecord
<1>10. /\ SameReads(x, u) /\ SameState(x, u) /\ SameAnswers(x, u) /\ u.thr = x.thr
       /\ u.ready = x.ready /\ u.storeq = x.storeq /\ u.writer = y /\ u.tickets = x.tickets
  BY <1>6, <1>8 DEF WorkerRecord, SameReads, SameState, SameAnswers
<1>11. y.q = NoRequest /\ y.pc = "idle"
  BY <1>7 DEF Idle
<1>12. q \in Lent(v) /\ q \notin Flying(v) /\ v.pending \subseteq Flying(v)
  BY <1>1, <1>3, <1>4, NoRequestIsNone DEF Lent, Flying, Places
<1>13. /\ Lent(u) = Lent(v) \ {q} /\ Claimed(u) = Claimed(v) /\ q \notin Claimed(u)
  BY <1>1, <1>3, <1>4, <1>6, <1>10, <1>11, <1>12, NoRequestIsNone DEF Lent, Claimed, Claiming,
     SameReads
<1>14. RingMove(R, T, {q})
  <2>1. PICK t \in Tickets(v, q) : T = ReleaseTicket(R, t)
    BY <1>3 DEF Before, After, ReleaseView
  <2>2. t \in v.tickets /\ t.q = q
    BY <2>1 DEF Tickets
  <2>3. t.slot \in Slots /\ (Resolves(R, t) => R[t.slot].ctx = t.q)
    BY <1>1, <2>2 DEF WorkerRecord, Ticket, Related, TicketsOK
  <2> QED
    BY <1>1, <2>1, <2>2, <2>3, ReleaseMove
<1>a. ThreadOK(S.mode, u)
  BY <1>1, <1>2, <1>4, <1>6, <1>9, <1>10, <1>11, <1>13, NoRequestIsNone DEF ThreadOK, Submits,
     SameReads, SameViews, SameState, SameAnswers
<1>b. Places(u)
  <2>1. Flying(u) = Flying(v) /\ u.ready = v.ready /\ u.storeq = v.storeq
    BY <1>6, <1>10 DEF Flying, SameReads
  <2>2. Flying(u) \cap Lent(u) = {}
    BY <1>1, <1>13, <2>1 DEF Places
  <2>3. NoRequest \notin v.ready \cup Range(v.storeq)
    <3>1. v.ready \subseteq Requests /\ Range(v.storeq) \subseteq Requests
      BY <1>1 DEF WorkerRecord, Range
    <3> QED
      BY <3>1, NoRequestIsNone
  <2> QED
    BY <1>1, <1>11, <1>10, <2>1, <2>2, <2>3 DEF Places
<1>c. Calm(v, u)
  BY <1>1, <1>2, <1>4, <1>6, <1>9, <1>10, <1>11, <1>13 DEF Calm, Flying, Lent, Early, Owned,
     Claimed, Claiming, SameReads, SameViews, SameState, SameAnswers
<1>d. GivesUp(S.mode, v, u, R, B)
  BY <1>1, <1>2, <1>4, <1>6, <1>9, <1>10, <1>11, <1>13 DEF GivesUp, Flying, SameReads,
     SameViews, SameState, SameAnswers
<1>e. Answers(S, v, u, R, B, K, K \cup Vouched(u), F, F)
  BY <1>1, <1>2, <1>4, <1>6, <1>9, <1>10, <1>11, <1>13 DEF Before, Related, FinishedOK, Answers, Vouched,
     Early, Flying, SameReads, SameViews, SameState, SameAnswers
<1>f. {q} \cap (Lent(u) \cup Claimed(u)) = {}
  BY <1>1, <1>2, <1>4, <1>6, <1>9, <1>10, <1>11, <1>13, NoRequestIsNone DEF Lent, Claimed,
     Claiming, Places, Flying, SameReads, SameViews, SameState, SameAnswers
<1>g. InProgress(u) = InProgress(v)
  BY <1>1, <1>2, <1>4, <1>6, <1>9, <1>10, <1>11, <1>13, NoRequestIsNone DEF InProgress, SameReads,
     SameViews, SameState, SameAnswers
<1>h. AsksOne(u)
  BY <1>1, <1>2, <1>4, <1>6, <1>9, <1>10, <1>11, <1>13, <1>g, AsksKept DEF Booked, Running,
     SameReads, SameViews, SameState, SameAnswers
<1>i. Booked(u, T)
  BY <1>1, <1>2, <1>4, <1>6, <1>9, <1>10, <1>11, <1>13, <1>h DEF Booked, RoundOK, EndsClean,
     Running, ThreadOK, RingOK, SameReads, SameViews, SameState, SameAnswers
<1> QED
  BY <1>2, <1>4, <1>6, <1>9, <1>10, <1>11, <1>13, <1>14, <1>a, <1>b, <1>c, <1>d, <1>e, <1>f, <1>i,
     RingStep

\* The worker closes its capture runtime.
LEMMA QuiesceSafe ==
    ASSUME NEW r, NEW S, NEW v, NEW R, NEW B, NEW K, NEW F, NEW u, NEW T, NEW D,
           Before(r, S, v, R, B, K, F), After(r, u, T, D), Quiesce(r)
    PROVE  RankOK(S, u, T, D, K \cup Vouched(u), F)
<1>1. v \in WorkerRecord /\ ThreadOK(S.mode, v) /\ Places(v) /\ Booked(v, R) /\ RingOK(R)
      /\ v.thr \in Thread /\ S.mode = mode /\ S.mode \in {"jobs", "requests"}
      /\ Related(S, v, R, B, K, F)
  BY DEF Before, RankOK, WorkerRecord, BooksRecord
<1>2. D = B /\ T = R /\ v.eng = "serve"
  BY DEF Before, After, Quiesce
<1>3. PICK a \in SUBSET Requests : a = v.cancelled \cup v.queued \cup v.submitting
  BY <1>1 DEF WorkerRecord
<1>4. u = [v EXCEPT !.eng = "join", !.closed = TRUE, !.wake = TRUE, !.cancelled = a]
  BY <1>3 DEF Before, After, Quiesce, Become
<1>5. u \in WorkerRecord
  BY <1>1, <1>4 DEF WorkerRecord
<1>6. /\ SameReads(v, u) /\ SameViews(v, u) /\ SameAnswers(v, u) /\ u.thr = v.thr
      /\ u.eng = "join" /\ u.closed /\ u.high = v.high /\ u.fatal = v.fatal
      /\ u.waived = v.waived /\ u.leaked = v.leaked
  BY <1>1, <1>4 DEF WorkerRecord, SameReads, SameViews, SameAnswers
<1>a. ThreadOK(S.mode, u)
  BY <1>1, <1>2, <1>5, <1>6, NoRequestIsNone DEF ThreadOK, Submits, SameReads, SameViews,
     SameState, SameAnswers
<1>b. Places(u)
  BY <1>1, <1>2, <1>5, <1>6, NoRequestIsNone DEF Places, Flying, Lent, SameReads, SameViews
<1>c. Calm(v, u)
  BY <1>1, <1>2, <1>5, <1>6 DEF Calm, Flying, Lent, Early, Owned, Claimed, Claiming, SameReads,
     SameViews, SameState, SameAnswers
<1>d. GivesUp(S.mode, v, u, R, B)
  BY <1>1, <1>2, <1>5, <1>6 DEF GivesUp, Flying, SameReads, SameViews, SameState, SameAnswers
<1>e. Answers(S, v, u, R, B, K, K \cup Vouched(u), F, F)
  BY <1>1, <1>2, <1>5, <1>6 DEF Before, Related, FinishedOK, Answers, Vouched, Early, Flying, SameReads,
     SameViews, SameState, SameAnswers
<1>g. InProgress(u) = InProgress(v)
  BY <1>1, <1>2, <1>5, <1>6, NoRequestIsNone DEF InProgress, SameReads, SameViews, SameState,
     SameAnswers
<1>h. AsksOne(u)
  BY <1>1, <1>2, <1>5, <1>6, <1>g, AsksKept DEF Booked, Running, SameReads, SameViews, SameState,
     SameAnswers
<1>i. Booked(u, R)
  BY <1>1, <1>2, <1>5, <1>6, <1>h DEF Booked, RoundOK, EndsClean, Running, ThreadOK, RingOK,
     SameReads, SameViews, SameState, SameAnswers
<1> QED
  BY <1>2, <1>5, <1>6, <1>a, <1>b, <1>c, <1>d, <1>e, <1>i, StillStep

\* The progress thread has ended: queued jobs never start.
LEMMA JoinThreadSafe ==
    ASSUME NEW r, NEW S, NEW v, NEW R, NEW B, NEW K, NEW F, NEW u, NEW T, NEW D,
           Before(r, S, v, R, B, K, F), After(r, u, T, D), JoinThread(r)
    PROVE  RankOK(S, u, T, D, K \cup Vouched(u), F)
<1>1. v \in WorkerRecord /\ ThreadOK(S.mode, v) /\ Places(v) /\ Booked(v, R) /\ RingOK(R)
      /\ v.thr \in Thread /\ S.mode = mode /\ S.mode \in {"jobs", "requests"}
      /\ Related(S, v, R, B, K, F)
  BY DEF Before, RankOK, WorkerRecord, BooksRecord
<1>2. D = B /\ T = R /\ v.eng = "join" /\ v.thr.pc \in {"idle", "dead"}
  BY DEF Before, After, JoinThread
<1>3. /\ v.queued \subseteq Early(v) /\ v.pending \subseteq Flying(v) /\ v.draining = {} /\ v.closed
      /\ v.queued \in SUBSET Requests /\ v.pending \in SUBSET Requests
  BY <1>1, <1>2 DEF Early, Flying, WorkerRecord, ThreadOK
<1>4. \A q \in v.queued : /\ mode = "jobs" /\ ~Reads(R, q) /\ S.job[q] <= v.high /\ q \notin S.unsent
                          /\ q \notin Flying(v) \cup v.failed
  BY <1>3, OwnedFacts DEF Unused
<1>5. PICK h \in BOOLEAN : h = (v.inflight /\ v.queued = {})
  BY <1>1 DEF WorkerRecord
<1>6. PICK e \in SUBSET Requests : e = v.held \ v.queued
  BY <1>1 DEF WorkerRecord
<1>7. PICK p \in SUBSET Requests : p = v.pending
  BY <1>3
<1>8. PICK x : x = [v EXCEPT !.eng = "drain", !.draining = p, !.pending = {}, !.queued = {},
                             !.held = e, !.inflight = h]
  OBVIOUS
<1>9. u = MarkCompleted(x, v.queued)
  BY <1>5, <1>6, <1>7, <1>8 DEF Before, After, JoinThread, Become
<1>10. x \in WorkerRecord
  BY <1>1, <1>8 DEF WorkerRecord
<1>11. /\ x.pending = {} /\ x.draining = v.pending /\ x.failed = v.failed /\ x.queued = {}
       /\ x.submitting = v.submitting /\ x.thr = v.thr /\ x.fatal = v.fatal
       /\ x.eng = "drain" /\ x.high = v.high /\ x.closed = v.closed
       /\ x.waived = v.waived /\ x.leaked = v.leaked
       /\ SameViews(v, x) /\ x.completed = v.completed /\ x.ended = v.ended /\ x.done = v.done
       /\ (x.inflight <=> v.inflight /\ v.queued = {})
  BY <1>1, <1>5, <1>7, <1>8 DEF WorkerRecord, SameViews
<1>12. /\ u \in WorkerRecord /\ SameReads(x, u) /\ SameViews(x, u) /\ SameState(x, u)
       /\ u.thr = x.thr /\ u.ended = x.ended /\ u.inflight = x.inflight
       /\ mode = "jobs" => u.completed = x.completed /\ u.done = x.done \cup v.queued
       /\ mode # "jobs" => u.completed = x.completed \cup v.queued /\ u.done = x.done
  BY <1>3, <1>9, <1>10, MarkFields
<1>a. ThreadOK(S.mode, u)
  BY <1>1, <1>2, <1>3, <1>4, <1>11, <1>12, NoRequestIsNone DEF ThreadOK, Submits, SameReads,
     SameViews, SameState, SameAnswers
<1>b. Places(u)
  BY <1>1, <1>2, <1>3, <1>4, <1>11, <1>12, NoRequestIsNone DEF Places, Flying, Lent, SameReads,
     SameViews
<1>c. Calm(v, u)
  BY <1>1, <1>2, <1>3, <1>4, <1>11, <1>12 DEF Calm, Flying, Lent, Early, Owned, Claimed,
     Claiming, SameReads, SameViews, SameState, SameAnswers
<1>d. GivesUp(S.mode, v, u, R, B)
  BY <1>1, <1>2, <1>3, <1>4, <1>11, <1>12 DEF GivesUp, Flying, SameReads, SameViews, SameState,
     SameAnswers
<1>e. Answers(S, v, u, R, B, K, K \cup Vouched(u), F, F)
  BY <1>1, <1>2, <1>3, <1>4, <1>11, <1>12 DEF Before, Related, FinishedOK, Answers, Vouched, Early,
     Flying, SameReads, SameViews, SameState, SameAnswers
<1>f. \A q \in v.queued : q \notin Lent(v)
  BY <1>1, <1>3 DEF Related, ReadsOK, Unused, Early
<1>g. InProgress(u) = InProgress(v) \ v.queued
  BY <1>1, <1>2, <1>3, <1>4, <1>11, <1>12, <1>f, NoRequestIsNone DEF InProgress, Lent, SameReads,
     SameViews, SameState, SameAnswers
<1>h. AsksOne(u)
  <2>1. v.queued \subseteq InProgress(v) /\ (Running(u) => Running(v))
    BY <1>2, <1>11, <1>12 DEF InProgress, Running, SameState
  <2>2. (u.inflight <=> v.inflight /\ v.queued = {}) /\ u.leaked = v.leaked
    BY <1>11, <1>12 DEF SameState
  <2> QED
    BY <1>1, <1>g, <2>1, <2>2 DEF Booked, AsksOne
<1>i. Booked(u, R)
  BY <1>1, <1>2, <1>3, <1>11, <1>12, <1>h DEF Booked, RoundOK, EndsClean, Running, SameReads,
     SameViews, SameState
<1> QED
  BY <1>2, <1>3, <1>4, <1>11, <1>12, <1>a, <1>b, <1>c, <1>d, <1>e, <1>i, StillStep

\* One capture is drained at the shutdown.
LEMMA QuiesceDrainsSafe ==
    ASSUME NEW r, NEW S, NEW v, NEW R, NEW B, NEW K, NEW F, NEW u, NEW T, NEW D, NEW q,
           Before(r, S, v, R, B, K, F), After(r, u, T, D), QuiesceDrains(r, q)
    PROVE  RankOK(S, u, T, D, K \cup Vouched(u), F)
<1>1. v \in WorkerRecord /\ ThreadOK(S.mode, v) /\ Places(v) /\ Booked(v, R) /\ RingOK(R)
      /\ v.thr \in Thread /\ S.mode = mode /\ S.mode \in {"jobs", "requests"}
      /\ Related(S, v, R, B, K, F)
  BY DEF Before, RankOK, WorkerRecord, BooksRecord
<1>2. /\ D = B /\ v.eng = "drain" /\ q \in v.draining /\ Quiet(R, q) /\ T = DrainContext(R, q)
  BY DEF Before, After, QuiesceDrains
<1>3. /\ q \in Requests /\ {q} \in SUBSET Requests /\ q \in Flying(v) /\ q \in Owned(v)
      /\ v.queued = {} /\ v.pending = {} /\ v.closed /\ v.thr.pc \in {"idle", "dead"}
  BY <1>1, <1>2 DEF WorkerRecord, Flying, Owned, ThreadOK
<1>4. ~Reads(R, q) /\ q \notin Lent(v) /\ q \notin S.unsent
  <2>1. ~Reads(R, q)
    BY <1>1, <1>2 DEF Quiet, Filling, Reads, RingOK
  <2>2. q \notin Lent(v)
    BY <1>1, <1>3 DEF Places
  <2>3. q \notin S.unsent
    BY <1>3, OwnedFacts
  <2> QED
    BY <2>1, <2>2, <2>3
<1>5. RingMove(R, T, {q})
  BY <1>1, <1>2, DrainMove
<1>6. PICK d \in SUBSET Requests : d = v.draining \ {q}
  BY <1>1 DEF WorkerRecord
<1>7. PICK x : x = [v EXCEPT !.draining = d]
  OBVIOUS
<1>8. PICK y : y = Retire(x, q)
  OBVIOUS
<1>9. PICK z : z = IF mode = "jobs" THEN MarkCompleted(y, {q}) ELSE y
  OBVIOUS
<1>10. u = FinishStore(z, q, FALSE)
  BY <1>6, <1>7, <1>8, <1>9 DEF Before, After, QuiesceDrains, Become, AbortCapture
<1>11. x \in WorkerRecord
  BY <1>1, <1>7 DEF WorkerRecord
<1>12. /\ x.pending = v.pending /\ x.draining = v.draining \ {q} /\ x.failed = v.failed
       /\ x.queued = v.queued /\ x.submitting = v.submitting /\ x.thr = v.thr
       /\ SameViews(v, x) /\ SameState(v, x) /\ SameAnswers(v, x)
  BY <1>1, <1>6, <1>7 DEF WorkerRecord, SameViews, SameState, SameAnswers
<1>13. /\ y \in WorkerRecord /\ SameReads(x, y) /\ SameState(x, y) /\ SameAnswers(x, y)
       /\ y.ready = x.ready /\ y.storeq = x.storeq /\ y.writer = x.writer
       /\ y.tickets = {t \in x.tickets : t.q # q} /\ y.thr = x.thr
  BY <1>8, <1>11, RetireFields
<1>14. /\ z \in WorkerRecord /\ SameReads(y, z) /\ SameViews(y, z) /\ SameState(y, z)
       /\ z.thr = y.thr /\ z.ended = y.ended /\ z.completed = y.completed
       /\ mode = "jobs" => z.done = y.done \cup {q}
       /\ mode # "jobs" => z.done = y.done
  <2>1. CASE mode = "jobs"
    BY <1>3, <1>9, <1>13, <2>1, MarkFields
  <2>2. CASE mode # "jobs"
    BY <1>9, <1>13, <2>2 DEF SameReads, SameViews, SameState
  <2> QED
    BY <2>1, <2>2
<1>15. /\ u \in WorkerRecord /\ SameReads(z, u) /\ SameViews(z, u) /\ SameState(z, u)
       /\ u.thr = z.thr /\ u.completed = z.completed /\ u.ended = z.ended /\ u.done = z.done /\ ~u.inflight
  <2>1. FALSE \in BOOLEAN
    OBVIOUS
  <2> QED
    BY <1>3, <1>10, <1>14, <2>1, AbortFields
<1>16. u.tickets = {t \in v.tickets : t.q # q} /\ Lent(u) = Lent(v) /\ Claimed(u) = {}
  BY <1>3, <1>12, <1>13, <1>14, <1>15 DEF Lent, Claimed, Claiming, SameViews
<1>a. ThreadOK(S.mode, u)
  BY <1>1, <1>2, <1>3, <1>4, <1>12, <1>13, <1>14, <1>15, <1>16, NoRequestIsNone DEF ThreadOK,
     Submits, SameReads, SameViews, SameState, SameAnswers
<1>b. Places(u)
  BY <1>1, <1>2, <1>3, <1>4, <1>12, <1>13, <1>14, <1>15, <1>16, NoRequestIsNone DEF Places,
     Flying, Lent, SameReads, SameViews
<1>c. Calm(v, u)
  BY <1>1, <1>2, <1>3, <1>4, <1>12, <1>13, <1>14, <1>15, <1>16 DEF Calm, Flying, Lent, Early,
     Owned, Claimed, Claiming, SameReads, SameViews, SameState, SameAnswers
<1>d. GivesUp(S.mode, v, u, R, B)
  BY <1>1, <1>2, <1>3, <1>4, <1>12, <1>13, <1>14, <1>15, <1>16 DEF GivesUp, Flying, SameReads,
     SameViews, SameState, SameAnswers
<1>e. Answers(S, v, u, R, B, K, K \cup Vouched(u), F, F)
  BY <1>1, <1>2, <1>3, <1>4, <1>12, <1>13, <1>14, <1>15, <1>16 DEF Before, Related, FinishedOK,
     Answers, Vouched, Early, Flying, SameReads, SameViews, SameState, SameAnswers
<1>f. {q} \cap (Lent(u) \cup Claimed(u)) = {}
  BY <1>1, <1>2, <1>3, <1>4, <1>12, <1>13, <1>14, <1>15, <1>16, NoRequestIsNone DEF Lent,
     Claimed, Claiming, Places, Flying, SameReads, SameViews, SameState, SameAnswers
<1>g. q \in InProgress(v) /\ InProgress(u) \subseteq InProgress(v) \ {q}
  BY <1>1, <1>2, <1>3, <1>4, <1>12, <1>13, <1>14, <1>15, <1>16, NoRequestIsNone DEF InProgress,
     Places, Flying, Lent, SameReads, SameViews, SameState, SameAnswers
<1>h. AsksOne(u)
  BY <1>1, <1>2, <1>3, <1>4, <1>12, <1>13, <1>14, <1>15, <1>16, <1>g, AsksLess DEF Booked, Running,
     SameReads, SameViews, SameState, SameAnswers
<1>i. Booked(u, T)
  BY <1>1, <1>2, <1>3, <1>4, <1>12, <1>13, <1>14, <1>15, <1>16, <1>h DEF Booked, RoundOK, EndsClean,
     Running, ThreadOK, RingOK, SameReads, SameViews, SameState, SameAnswers
<1> QED
  BY <1>2, <1>3, <1>4, <1>12, <1>13, <1>14, <1>15, <1>16, <1>5, <1>a, <1>b, <1>c, <1>d, <1>e, <1>f,
     <1>i, RingStep

\* The other steps of a shutdown only change where it is, or abandon gathers.
LEMMA StopSafe ==
    ASSUME NEW r, NEW S, NEW v, NEW R, NEW B, NEW K, NEW F, NEW u, NEW T, NEW D, NEW q,
           Before(r, S, v, R, B, K, F), After(r, u, T, D),
           StopStores(r) \/ ShutdownRuntime(r) \/ ShutdownRaises(r) \/ QuiesceRaises(r, q)
    PROVE  RankOK(S, u, T, D, K \cup Vouched(u), F)
<1>1. v \in WorkerRecord /\ ThreadOK(S.mode, v) /\ Places(v) /\ Booked(v, R) /\ RingOK(R)
      /\ v.thr \in Thread /\ S.mode = mode /\ S.mode \in {"jobs", "requests"}
      /\ Related(S, v, R, B, K, F)
  BY DEF Before, RankOK, WorkerRecord, BooksRecord
<1>2. D = B /\ v.eng \in {"drain", "stop"}
  BY DEF Before, After, StopStores, ShutdownRuntime, ShutdownRaises, QuiesceRaises
<1>3. PICK e \in {"raised", "stop", "closed", "retained"} : u = [v EXCEPT !.eng = e]
  BY DEF Before, After, StopStores, ShutdownRuntime, ShutdownRaises, QuiesceRaises, Become
<1>4. RingMove(R, T, {})
  <2>1. CASE T = R
    BY <1>1, <2>1, StillRing
  <2>2. CASE CanShutdown(R) /\ T = ShutdownRing(R)
    BY <1>1, <2>2, ShutdownMove
  <2>3. CASE T = AbandonAll(R)
    BY <1>1, <2>3, ShutdownMove
  <2>4. CASE T = Abandon(R, q)
    BY <1>1, <2>4, AbandonMove
  <2> QED
    BY <2>1, <2>2, <2>3, <2>4
       DEF Before, After, StopStores, ShutdownRuntime, ShutdownRaises, QuiesceRaises, DrainFailed
<1>5. u \in WorkerRecord
  BY <1>1, <1>3 DEF WorkerRecord
<1>6. /\ SameReads(v, u) /\ SameViews(v, u) /\ SameAnswers(v, u) /\ u.thr = v.thr
      /\ u.eng = e /\ u.closed = v.closed /\ u.high = v.high /\ u.fatal = v.fatal
      /\ u.waived = v.waived /\ u.leaked = v.leaked
  BY <1>1, <1>3 DEF WorkerRecord, SameReads, SameViews, SameAnswers
<1>a. ThreadOK(S.mode, u)
  BY <1>1, <1>2, <1>5, <1>6, NoRequestIsNone DEF ThreadOK, Submits, SameReads, SameViews,
     SameState, SameAnswers
<1>b. Places(u)
  BY <1>1, <1>2, <1>5, <1>6, NoRequestIsNone DEF Places, Flying, Lent, SameReads, SameViews
<1>c. Calm(v, u)
  BY <1>1, <1>2, <1>5, <1>6 DEF Calm, Flying, Lent, Early, Owned, Claimed, Claiming, SameReads,
     SameViews, SameState, SameAnswers
<1>d. GivesUp(S.mode, v, u, R, B)
  BY <1>1, <1>2, <1>5, <1>6 DEF GivesUp, Flying, SameReads, SameViews, SameState, SameAnswers
<1>e. Answers(S, v, u, R, B, K, K \cup Vouched(u), F, F)
  BY <1>1, <1>2, <1>5, <1>6 DEF Before, Related, FinishedOK, Answers, Vouched, Early, Flying, SameReads,
     SameViews, SameState, SameAnswers
<1>f. {} \cap (Lent(u) \cup Claimed(u)) = {}
  BY <1>1, <1>2, <1>5, <1>6, NoRequestIsNone DEF Lent, Claimed, Claiming, Places, Flying,
     SameReads, SameViews, SameState, SameAnswers
<1>g. InProgress(u) = InProgress(v)
  BY <1>1, <1>2, <1>5, <1>6 DEF InProgress, SameReads, SameViews
<1>h. AsksOne(u)
  BY <1>1, <1>2, <1>6, <1>g, AsksKept DEF Booked, Running, SameAnswers
<1>i. Booked(u, T)
  <2>1. RoundOK(u)
    BY <1>1, <1>2, <1>6 DEF Booked, RoundOK, EndsClean, Running, SameViews
  <2>2. /\ v.thr.pc \in {"idle", "dead"} /\ v.queued = {} /\ v.pending = {}
        /\ v.eng = "stop" => v.draining = {}
    BY <1>1, <1>2 DEF Booked, EndsClean
  <2>3. CASE StopStores(r)
    <3>1. v.draining = {} /\ e = "stop"
      BY <1>1, <1>3, <2>3 DEF Before, After, StopStores, Become, WorkerRecord
    <3> QED
      BY <1>6, <1>h, <2>1, <2>2, <3>1 DEF Booked, EndsClean, SameReads
  <2>4. CASE ShutdownRuntime(r) /\ v.tickets # {}
    <3>1. v.eng = "stop" /\ e = "retained"
      <4>1. u = [v EXCEPT !.eng = "retained"] /\ v.eng = "stop"
        BY <2>4 DEF Before, After, ShutdownRuntime, Become
      <4> QED
        BY <1>1, <1>3, <4>1 DEF WorkerRecord
    <3> QED
      BY <1>6, <1>h, <2>1, <2>2, <3>1 DEF Booked, EndsClean, SameReads
  <2>5. CASE ShutdownRuntime(r) /\ v.tickets = {}
    <3>1. v.eng = "stop" /\ T = ShutdownRing(R) /\ CanShutdown(R)
      BY <2>5 DEF Before, After, ShutdownRuntime
    <3>2. \A s \in Slots : T[s].st = "free"
      BY <1>1, <3>1, ShutdownFrees
    <3>3. e = "closed"
      <4>1. u = [v EXCEPT !.eng = "closed"]
        BY <2>5 DEF Before, After, ShutdownRuntime, Become
      <4> QED
        BY <1>1, <1>3, <4>1 DEF WorkerRecord
    <3> QED
      BY <1>6, <1>h, <2>1, <2>2, <2>5, <3>1, <3>2, <3>3 DEF Booked, EndsClean, SameReads, SameViews
  <2>6. CASE ShutdownRaises(r) \/ QuiesceRaises(r, q)
    <3>1. e = "raised"
      <4>1. u = [v EXCEPT !.eng = "raised"]
        BY <2>6 DEF Before, After, ShutdownRaises, QuiesceRaises, Become
      <4> QED
        BY <1>1, <1>3, <4>1 DEF WorkerRecord
    <3> QED
      BY <1>6, <1>h, <2>1, <3>1 DEF Booked, EndsClean
  <2> QED
    BY <2>3, <2>4, <2>5, <2>6
<1> QED
  BY <1>2, <1>5, <1>6, <1>4, <1>a, <1>b, <1>c, <1>d, <1>e, <1>f, <1>i, RingStep

-----------------------------------------------------------------------------
(* The engine thread: the messages *)

\* A step of the worker that starts nothing.
LEMMA CalmStep ==
    ASSUME NEW S \in BooksRecord, NEW v, NEW u, NEW R, NEW B,
           NEW K \in SUBSET Requests, NEW F \in SUBSET Requests,
           RankOK(S, v, R, B, K, F), u \in WorkerRecord, ThreadOK(S.mode, u), Places(u), Booked(u, R),
           Calm(v, u), GivesUp(S.mode, v, u, R, B), Answers(S, v, u, R, B, K, K \cup Vouched(u), F, F)
    PROVE  RankOK(S, u, R, B, K \cup Vouched(u), F)
<1>1. RingMove(R, R, {}) /\ {} \cap (Lent(u) \cup Claimed(u)) = {}
  BY StillRing DEF RankOK
<1> QED
  BY <1>1, QuietStep

\* A plan at the head of the inbox: the rank has nothing of it, unless it is a replay.
LEMMA SaveFacts ==
    ASSUME NEW r, NEW S, NEW v, NEW R, NEW B, NEW K, NEW F, Before(r, S, v, R, B, K, F),
           B # <<>>, v.eng = "serve", Head(B).k = "save", NEW q, q = Head(B).q
    PROVE  /\ S \in BooksRecord /\ K \in SUBSET Requests /\ F \in SUBSET Requests /\ Vouched(v) \subseteq K
           /\ RankOK(S, v, R, Tail(B), K, F) /\ q \in Requests /\ {q} \in SUBSET Requests
           /\ q \notin S.unsent
           /\ q \notin Owned(v) => q \notin Early(v) \cup Flying(v) \cup v.failed /\ ~Reads(R, q)
           /\ mode = "requests" => /\ ~Has(Tail(B), "save", q) /\ q \notin Owned(v)
                                   /\ Unused(v, R, q) /\ q \notin v.ended \cup F
                                   /\ q \in S.given => Has(Tail(B), "preempt", q)
           /\ mode = "jobs" /\ job[q] > v.high => /\ q \notin Owned(v) /\ Unused(v, R, q)
                                                  /\ q \in K => v.closed \/ v.fatal
<1>1. /\ S \in BooksRecord /\ K \in SUBSET Requests /\ F \in SUBSET Requests /\ Vouched(v) \subseteq K
      /\ RankOK(S, v, R, B, K, F) /\ S.mode = mode /\ S.job = job /\ S.mode \in {"jobs", "requests"}
  BY DEF Before, BooksRecord
<1>2. /\ RankOK(S, v, R, Tail(B), K, F) /\ q \in Requests /\ ~Has(Tail(B), "save", q)
      /\ Has(B, "save", q)
  BY <1>1, TakeMessage
<1>3. /\ v \in WorkerRecord /\ ReadsOK(S.mode, v, R, B) /\ InboxOK(S.mode, S.job, v, R, B)
      /\ AckOK(S.job, v, R, K) /\ UnknownOK(S, v, R, B, K, F) /\ FinishedOK(S, v, R, B, K, F)
      /\ FinishedOK(S, v, R, Tail(B), K, F)
  BY <1>1, <1>2 DEF RankOK, Related
<1>4. mode = "requests" \/ job[q] > v.high => q \notin Owned(v) /\ Unused(v, R, q)
  BY <1>1, <1>2, <1>3 DEF InboxOK, New
<1>5. q \notin S.unsent
  BY <1>2, <1>3 DEF UnknownOK
<1>6. q \notin Owned(v) => q \notin Early(v) \cup Flying(v) \cup v.failed
  BY OwnedFacts DEF Owned
<1>7. q \notin Owned(v) => ~Reads(R, q)
  <2>1. CASE mode = "jobs"
    BY <1>1, <1>2, <1>3, <1>6, <2>1 DEF ReadsOK
  <2>2. CASE mode = "requests"
    BY <1>4, <2>2 DEF Unused, Reads
  <2> QED
    BY <1>1, <2>1, <2>2
<1>8. job[q] > v.high /\ q \in K => v.closed \/ v.fatal
  <2>1. job[q] \in Nat /\ v.high \in Nat
    BY <1>1, <1>2, <1>3 DEF BooksRecord, WorkerRecord
  <2> QED
    BY <1>1, <1>2, <1>3, <2>1 DEF AckOK
<1>9. mode = "requests" => /\ q \notin v.ended \cup F
                           /\ q \in S.given => Has(Tail(B), "preempt", q)
  <2>1. B \in Seq(Message)
    BY <1>3 DEF InboxOK
  <2>2. Has(B, "preempt", q) => Has(Tail(B), "preempt", q)
    <3>1. ASSUME NEW i \in DOMAIN B, B[i] = [k |-> "preempt", q |-> q]
          PROVE  Has(Tail(B), "preempt", q)
      <4>1. Len(B) \in Nat /\ DOMAIN B = 1 .. Len(B) /\ Head(B) = B[1]
        BY <2>1
      <4>2. i # 1
        BY <3>1, <4>1
      <4>3. i - 1 \in DOMAIN Tail(B) /\ Tail(B)[i - 1] = B[i]
        BY <2>1, <4>1, <4>2
      <4> QED
        BY <3>1, <4>3 DEF Has
    <3> QED
      BY <3>1 DEF Has
  <2> QED
    BY <1>1, <1>2, <1>3, <2>2 DEF FinishedOK
<1> QED
  BY <1>1, <1>2, <1>4, <1>5, <1>6, <1>7, <1>8, <1>9

\* The runtime goes on, and may have answered without a look.
SameRun(v, u) ==
    /\ u.eng = v.eng /\ u.high = v.high /\ u.fatal = v.fatal /\ u.closed = v.closed
    /\ v.waived \subseteq u.waived

\* A worker that only answers: it reads and lends what it did.
LEMMA AnswerSafe ==
    ASSUME NEW S \in BooksRecord, NEW v, NEW u, NEW R, NEW D,
           NEW K \in SUBSET Requests, NEW F \in SUBSET Requests, RankOK(S, v, R, D, K, F),
           u \in WorkerRecord, SameReads(v, u), SameViews(v, u), SameRun(v, u), u.thr = v.thr,
           u.ended = v.ended, AsksOne(u), S.mode = "requests" => u.done = {},
           Answers(S, v, u, R, D, K, K \cup Vouched(u), F, F)
    PROVE  RankOK(S, u, R, D, K \cup Vouched(u), F)
<1>1. v \in WorkerRecord /\ ThreadOK(S.mode, v) /\ Places(v) /\ Booked(v, R)
  BY DEF RankOK
<1>2. ThreadOK(S.mode, u)
  BY <1>1 DEF ThreadOK, Submits, SameReads, SameRun
<1>3. Places(u)
  BY <1>1 DEF Places, Flying, Lent, SameReads, SameViews
<1>4. Calm(v, u)
  BY <1>1 DEF Calm, Flying, Lent, Early, Owned, Claimed, Claiming, SameReads, SameViews, SameRun
<1>5. GivesUp(S.mode, v, u, R, D)
  BY DEF GivesUp, Flying, SameReads
<1>6. Booked(u, R)
  BY <1>1 DEF Booked, RoundOK, EndsClean, Running, SameReads, SameViews, SameRun
<1> QED
  BY <1>2, <1>3, <1>4, <1>5, <1>6, CalmStep

\* The captures in progress follow from what is read and lent.
LEMMA SameProgress ==
    ASSUME NEW v, NEW u, SameReads(v, u), SameViews(v, u), u.thr = v.thr
    PROVE  InProgress(u) = InProgress(v)
BY DEF InProgress, SameReads, SameViews

\* A store that is answered without a look.
LEMMA WaiveFields ==
    ASSUME NEW v \in WorkerRecord, NEW q \in Requests, NEW u, u = Waive(v, q)
    PROVE  /\ u \in WorkerRecord /\ SameReads(v, u) /\ SameViews(v, u) /\ SameRun(v, u)
           /\ u.waived = v.waived \cup {q} /\ u.leaked = v.leaked
           /\ u.thr = v.thr /\ u.ended = v.ended /\ u.inflight = v.inflight
           /\ mode = "jobs" => u.completed = v.completed /\ u.done = v.done \cup {q}
           /\ mode # "jobs" => u.completed = v.completed \cup {q} /\ u.done = v.done
<1>1. {q} \in SUBSET Requests
  OBVIOUS
<1>2. PICK x : x = MarkCompleted(v, {q})
  OBVIOUS
<1>3. /\ x \in WorkerRecord /\ SameReads(v, x) /\ SameViews(v, x) /\ SameState(v, x)
      /\ x.thr = v.thr /\ x.ended = v.ended /\ x.inflight = v.inflight
      /\ mode = "jobs" => x.completed = v.completed /\ x.done = v.done \cup {q}
      /\ mode # "jobs" => x.completed = v.completed \cup {q} /\ x.done = v.done
  BY <1>1, <1>2, MarkFields
<1>4. PICK a \in SUBSET Requests : a = x.waived \cup {q}
  BY <1>3 DEF WorkerRecord
<1>5. u = [x EXCEPT !.waived = a]
  BY <1>2, <1>4 DEF Waive
<1>6. u \in WorkerRecord
  BY <1>3, <1>5 DEF WorkerRecord
<1>7. /\ SameReads(x, u) /\ SameViews(x, u) /\ SameAnswers(x, u) /\ u.thr = x.thr /\ u.waived = a
      /\ u.eng = x.eng /\ u.high = x.high /\ u.fatal = x.fatal /\ u.closed = x.closed
      /\ u.leaked = x.leaked
  BY <1>3, <1>5 DEF WorkerRecord, SameReads, SameViews, SameAnswers
<1> QED
  BY <1>3, <1>4, <1>6, <1>7 DEF SameReads, SameViews, SameState, SameAnswers, SameRun

\* An abandoned capture goes on.
LEMMA AbandonedFields ==
    ASSUME NEW v \in WorkerRecord, NEW q \in Requests, NEW u, u = Abandoned(v, q)
    PROVE  /\ u \in WorkerRecord /\ SameReads(v, u) /\ SameViews(v, u) /\ SameState(v, u)
           /\ SameAnswers(v, u) /\ u.thr = v.thr
<1>1. PICK a \in SUBSET Requests, b \in SUBSET Requests : a = v.cancelled \cup {q} /\ b = v.abandoned \cup {q}
  BY DEF WorkerRecord
<1>2. u = v \/ u = [v EXCEPT !.cancelled = a, !.wake = TRUE] \/ u = [v EXCEPT !.abandoned = b, !.wake = TRUE]
  <2>1. u = CASE q \in v.queued \cup v.submitting -> [v EXCEPT !.cancelled = a, !.wake = TRUE]
              [] q \in v.pending \ v.submitting -> [v EXCEPT !.abandoned = b, !.wake = TRUE]
              [] OTHER -> v
    BY <1>1 DEF Abandoned
  <2> QED
    BY <2>1
<1>3. u \in WorkerRecord
  <2>1. [v EXCEPT !.cancelled = a, !.wake = TRUE] \in WorkerRecord
    BY DEF WorkerRecord
  <2>2. [v EXCEPT !.abandoned = b, !.wake = TRUE] \in WorkerRecord
    BY DEF WorkerRecord
  <2> QED
    BY <1>2, <2>1, <2>2
<1>4. SameReads(v, u) /\ SameViews(v, u) /\ SameState(v, u) /\ SameAnswers(v, u) /\ u.thr = v.thr
  <2>1. CASE u = v
    BY <2>1 DEF SameReads, SameViews, SameState, SameAnswers
  <2>2. CASE u = [v EXCEPT !.cancelled = a, !.wake = TRUE]
    BY <2>2 DEF WorkerRecord, SameReads, SameViews, SameState, SameAnswers
  <2>3. CASE u = [v EXCEPT !.abandoned = b, !.wake = TRUE]
    BY <2>3 DEF WorkerRecord, SameReads, SameViews, SameState, SameAnswers
  <2> QED
    BY <1>2, <2>1, <2>2, <2>3
<1> QED
  BY <1>3, <1>4

\* A skipped store is answered, whether it is read or not.
LEMMA SkipSaveSafe ==
    ASSUME NEW r, NEW S, NEW v, NEW R, NEW B, NEW K, NEW F, NEW u, NEW T, NEW D,
           Before(r, S, v, R, B, K, F), After(r, u, T, D), SkipSave(r)
    PROVE  RankOK(S, u, T, D, K \cup Vouched(u), F)
<1>1. v \in WorkerRecord /\ ThreadOK(S.mode, v) /\ Booked(v, R)
      /\ S.mode = mode /\ S.mode \in {"jobs", "requests"}
  BY DEF Before, RankOK, BooksRecord
<1>2. D = Tail(B) /\ B # <<>> /\ v.eng = "serve" /\ Head(B).k = "save"
  BY DEF Before, After, SkipSave, Head1, Consume
<1>3. PICK q : q = Head(B).q
  OBVIOUS
<1>4. /\ S \in BooksRecord /\ K \in SUBSET Requests /\ F \in SUBSET Requests /\ Vouched(v) \subseteq K
      /\ RankOK(S, v, R, D, K, F) /\ q \in Requests
  BY <1>2, <1>3, SaveFacts
<1>5. u = Waive(v, q) /\ T = R
  BY <1>3 DEF Before, After, SkipSave, Become
<1>6. /\ u \in WorkerRecord /\ SameReads(v, u) /\ SameViews(v, u) /\ SameRun(v, u)
      /\ u.waived = v.waived \cup {q} /\ u.leaked = v.leaked
      /\ u.thr = v.thr /\ u.ended = v.ended /\ u.inflight = v.inflight
      /\ mode = "jobs" => u.completed = v.completed /\ u.done = v.done \cup {q}
      /\ mode # "jobs" => u.completed = v.completed \cup {q} /\ u.done = v.done
  BY <1>1, <1>4, <1>5, WaiveFields
<1>7. S.mode = "requests" => u.done = {} /\ K = {}
  BY <1>1, <1>4, <1>6 DEF ThreadOK, RankOK, Related, FinishedOK
<1>8. Vouched(u) \subseteq K
  BY <1>1, <1>4, <1>6 DEF Vouched
<1>9. Answers(S, v, u, R, D, K, K \cup Vouched(u), F, F)
  BY <1>1, <1>6, <1>7, <1>8 DEF Answers
<1>10. AsksOne(u)
  BY <1>1, <1>6, SameProgress, AsksKept DEF Booked, Running, SameRun
<1> QED
  BY <1>4, <1>5, <1>6, <1>7, <1>9, <1>10, AnswerSafe

\* The job ends before it starts; a read of it that is under way is only abandoned.
LEMMA SaveJobRaisesSafe ==
    ASSUME NEW r, NEW S, NEW v, NEW R, NEW B, NEW K, NEW F, NEW u, NEW T, NEW D,
           Before(r, S, v, R, B, K, F), After(r, u, T, D), SaveJobRaises(r)
    PROVE  RankOK(S, u, T, D, K \cup Vouched(u), F)
<1>1. v \in WorkerRecord /\ ThreadOK(S.mode, v) /\ Booked(v, R)
      /\ S.mode = mode /\ mode = "jobs"
  BY DEF Before, RankOK, BooksRecord, SaveJobRaises
<1>2. D = Tail(B) /\ B # <<>> /\ v.eng = "serve" /\ Head(B).k = "save"
  BY DEF Before, After, SaveJobRaises, Head1, Consume
<1>3. PICK q : q = Head(B).q
  OBVIOUS
<1>4. /\ S \in BooksRecord /\ K \in SUBSET Requests /\ F \in SUBSET Requests /\ Vouched(v) \subseteq K
      /\ RankOK(S, v, R, D, K, F) /\ q \in Requests
  BY <1>2, <1>3, SaveFacts
<1>5. PICK x : x = IF q \in Owned(v) THEN Abandoned(v, q) ELSE Waive(v, q)
  OBVIOUS
<1>6. u = FinishStore(x, q, FALSE) /\ T = R /\ ~v.inflight
  BY <1>3, <1>5 DEF Before, After, SaveJobRaises, Become, AbortCapture
<1>7. /\ x \in WorkerRecord /\ SameReads(v, x) /\ SameViews(v, x) /\ SameRun(v, x)
      /\ x.leaked = v.leaked /\ x.thr = v.thr /\ x.ended = v.ended /\ Vouched(x) \subseteq K
  <2>1. CASE q \in Owned(v)
    <3>1. /\ x \in WorkerRecord /\ SameReads(v, x) /\ SameViews(v, x) /\ SameState(v, x)
          /\ SameAnswers(v, x) /\ x.thr = v.thr
      BY <1>1, <1>4, <1>5, <2>1, AbandonedFields
    <3> QED
      BY <1>4, <3>1 DEF SameState, SameAnswers, SameRun, Vouched
  <2>2. CASE q \notin Owned(v)
    <3>1. x = Waive(v, q)
      BY <1>5, <2>2
    <3>2. /\ x \in WorkerRecord /\ SameReads(v, x) /\ SameViews(v, x) /\ SameRun(v, x)
          /\ x.waived = v.waived \cup {q} /\ x.leaked = v.leaked
          /\ x.thr = v.thr /\ x.ended = v.ended /\ x.done = v.done \cup {q}
      BY <1>1, <1>4, <3>1, WaiveFields
    <3> QED
      BY <1>4, <3>2 DEF Vouched
  <2> QED
    BY <2>1, <2>2
<1>8. FALSE \in BOOLEAN
  OBVIOUS
<1>9. /\ u \in WorkerRecord /\ SameReads(x, u) /\ SameViews(x, u) /\ SameState(x, u)
      /\ u.thr = x.thr /\ u.ended = x.ended /\ u.done = x.done /\ ~u.inflight
  BY <1>4, <1>6, <1>7, <1>8, AbortFields
<1>10. /\ SameReads(v, u) /\ SameViews(v, u) /\ SameRun(v, u) /\ u.thr = v.thr /\ u.ended = v.ended
       /\ u.leaked = v.leaked /\ Vouched(u) \subseteq K
  BY <1>7, <1>9 DEF SameReads, SameViews, SameState, SameRun, Vouched
<1>11. Answers(S, v, u, R, D, K, K \cup Vouched(u), F, F)
  BY <1>1, <1>10 DEF Answers
<1>12. AsksOne(u)
  BY <1>1, <1>6, <1>9, <1>10, SameProgress, AsksKept DEF Booked, Running, SameRun
<1> QED
  BY <1>1, <1>4, <1>6, <1>9, <1>10, <1>11, <1>12, AnswerSafe

\* A failed runtime takes no request.
LEMMA SaveRequestFatalSafe ==
    ASSUME NEW r, NEW S, NEW v, NEW R, NEW B, NEW K, NEW F, NEW u, NEW T, NEW D,
           Before(r, S, v, R, B, K, F), After(r, u, T, D), SaveRequestFatal(r)
    PROVE  RankOK(S, u, T, D, K \cup Vouched(u), F)
<1>1. v \in WorkerRecord /\ ThreadOK(S.mode, v) /\ S.mode = mode /\ mode = "requests"
  BY DEF Before, RankOK, BooksRecord, SaveRequestFatal
<1>2. D = Tail(B) /\ B # <<>> /\ v.eng = "serve" /\ Head(B).k = "save"
  BY DEF Before, After, SaveRequestFatal, Head1, Consume
<1>3. PICK q : q = Head(B).q
  OBVIOUS
<1>4. /\ S \in BooksRecord /\ K \in SUBSET Requests /\ F \in SUBSET Requests /\ Vouched(v) \subseteq K
      /\ RankOK(S, v, R, D, K, F) /\ q \in Requests
  BY <1>2, <1>3, SaveFacts
<1>5. u = FinishStore(v, q, FALSE) /\ T = R /\ v.fatal
  BY <1>3, <1>4 DEF Before, After, SaveRequestFatal, Become, AbortCapture
<1>6. /\ u \in WorkerRecord /\ SameReads(v, u) /\ SameViews(v, u) /\ SameState(v, u)
      /\ u.thr = v.thr /\ u.completed = v.completed /\ u.ended = v.ended /\ u.done = v.done
  <2>1. FALSE \in BOOLEAN
    OBVIOUS
  <2>2. v \in WorkerRecord /\ q \in Requests /\ u = FinishStore(v, q, FALSE)
    BY <1>1, <1>4, <1>5
  <2> QED
    BY <2>1, <2>2, AbortFields
<1>7. SameRun(v, u) /\ Vouched(u) \subseteq K /\ u.done = {} /\ K = {} /\ AsksOne(u)
  BY <1>1, <1>4, <1>5, <1>6 DEF SameState, SameRun, Vouched, ThreadOK, RankOK, Related, FinishedOK,
     AsksOne, Running
<1>8. Answers(S, v, u, R, D, K, K \cup Vouched(u), F, F)
  BY <1>1, <1>6, <1>7 DEF Answers
<1> QED
  BY <1>4, <1>5, <1>6, <1>7, <1>8, AnswerSafe

\* A job is queued, or acknowledged at once, or its read is under way already.
LEMMA SaveJobSafe ==
    ASSUME NEW r, NEW S, NEW v, NEW R, NEW B, NEW K, NEW F, NEW u, NEW T, NEW D,
           Before(r, S, v, R, B, K, F), After(r, u, T, D), SaveJob(r)
    PROVE  RankOK(S, u, T, D, K \cup Vouched(u), F)
<1>1. v \in WorkerRecord /\ ThreadOK(S.mode, v) /\ Places(v) /\ Booked(v, R) /\ RingOK(R)
      /\ v.thr \in Thread /\ S.mode = mode /\ S.job = job
  BY DEF Before, RankOK, WorkerRecord
<1>2. D = Tail(B) /\ B # <<>> /\ v.eng = "serve" /\ Head(B).k = "save"
  BY DEF Before, After, SaveJob, Head1, Consume
<1>3. PICK q : q = Head(B).q
  OBVIOUS
<1>5. mode = "jobs" /\ T = R /\ ~v.inflight
  BY DEF Before, After, SaveJob
<1>4. /\ S \in BooksRecord /\ K \in SUBSET Requests /\ F \in SUBSET Requests /\ Vouched(v) \subseteq K
      /\ RankOK(S, v, R, D, K, F) /\ q \in Requests /\ {q} \in SUBSET Requests /\ q \notin S.unsent
      /\ q \notin Owned(v) => q \notin Early(v) \cup Flying(v) \cup v.failed /\ ~Reads(R, q)
      /\ job[q] > v.high => /\ q \notin Owned(v) /\ Unused(v, R, q)
                            /\ q \in K => v.closed \/ v.fatal
  BY <1>2, <1>3, <1>5, SaveFacts
<1>6. PICK x : x = [v EXCEPT !.inflight = TRUE]
  OBVIOUS
<1>7. x \in WorkerRecord
  BY <1>1, <1>6 DEF WorkerRecord
<1>8. /\ SameReads(v, x) /\ SameViews(v, x) /\ SameState(v, x) /\ x.thr = v.thr /\ x.inflight
      /\ x.completed = v.completed /\ x.ended = v.ended /\ x.done = v.done
  BY <1>1, <1>6 DEF WorkerRecord, SameReads, SameViews, SameState
<1>9. Owned(x) = Owned(v)
  BY <1>8 DEF Owned, SameReads
<1>10. u = SubmitJob(x, q)
  BY <1>3, <1>6 DEF Before, After, SaveJob, Become
<1>13. CASE q \in Owned(v)
  <2>1. u = [x EXCEPT !.leaked = TRUE]
    BY <1>9, <1>10, <1>13 DEF SubmitJob
  <2>2. u \in WorkerRecord
    BY <1>7, <2>1 DEF WorkerRecord
  <2>3. /\ SameReads(x, u) /\ SameViews(x, u) /\ SameAnswers(x, u) /\ u.thr = x.thr /\ u.leaked
        /\ u.eng = x.eng /\ u.high = x.high /\ u.fatal = x.fatal /\ u.closed = x.closed
        /\ u.waived = x.waived
    BY <1>7, <2>1 DEF WorkerRecord, SameReads, SameViews, SameAnswers
  <2>4. /\ SameReads(v, u) /\ SameViews(v, u) /\ SameRun(v, u) /\ u.thr = v.thr /\ u.ended = v.ended
        /\ Vouched(u) = Vouched(v) /\ u.inflight
    BY <1>8, <2>3 DEF SameReads, SameViews, SameState, SameAnswers, SameRun, Vouched
  <2>5. Answers(S, v, u, R, D, K, K \cup Vouched(u), F, F)
    BY <1>1, <1>4, <1>5, <2>4 DEF Answers
  <2>6. AsksOne(u)
    <3>1. InProgress(u) = InProgress(v)
      BY <2>4, SameProgress
    <3>2. Running(u) => Running(v)
      BY <2>4 DEF Running, SameRun
    <3> QED
      BY <1>1, <1>5, <2>3, <2>4, <3>1, <3>2 DEF Booked, AsksOne
  <2> QED
    BY <1>1, <1>4, <1>5, <2>2, <2>4, <2>5, <2>6, AnswerSafe
<1>11. CASE q \notin Owned(v) /\ (x.closed \/ x.fatal \/ job[q] <= x.high)
  <2>1. u = AbortCapture(MarkCompleted(x, {q}), q)
    BY <1>9, <1>10, <1>11 DEF SubmitJob
  <2>2. /\ u \in WorkerRecord /\ SameReads(x, u) /\ SameViews(x, u) /\ SameState(x, u)
        /\ u.thr = x.thr /\ u.ended = x.ended /\ u.completed = x.completed /\ ~u.inflight
        /\ u.done = x.done \cup {q}
    BY <1>4, <1>5, <1>7, <2>1, EndFields
  <2>3. /\ SameReads(v, u) /\ SameViews(v, u) /\ SameState(v, u) /\ SameRun(v, u) /\ u.thr = v.thr
        /\ u.ended = v.ended /\ Vouched(u) \subseteq Vouched(v) \cup {q}
    BY <1>8, <2>2 DEF SameReads, SameViews, SameState, SameRun, Vouched
  <2>4. /\ q \notin Early(u) \cup Flying(u) \cup u.failed
        /\ job[q] <= u.high \/ u.closed \/ u.fatal
    BY <1>4, <1>8, <1>11, <2>3 DEF Early, Flying, SameReads, SameState
  <2>5. Answers(S, v, u, R, D, K, K \cup Vouched(u), F, F)
    BY <1>1, <1>4, <1>5, <1>11, <2>3, <2>4 DEF Answers
  <2>6. AsksOne(u)
    <3>1. InProgress(u) = InProgress(v)
      BY <2>3, SameProgress
    <3> QED
      BY <1>1, <1>5, <2>2, <2>3, <3>1, AsksKept DEF Booked, Running, SameState
  <2> QED
    BY <1>1, <1>4, <1>5, <2>2, <2>3, <2>5, <2>6, AnswerSafe
<1>12. CASE q \notin Owned(v) /\ ~(x.closed \/ x.fatal \/ job[q] <= x.high)
  <2>1. u = [x EXCEPT !.high = job[q], !.queued = @ \cup {q}, !.wake = TRUE]
    BY <1>9, <1>10, <1>12 DEF SubmitJob
  <2>2. PICK j \in Nat : j = job[q]
    BY <1>4 DEF Before, BooksRecord
  <2>3. PICK a \in SUBSET Requests : a = x.queued \cup {q}
    BY <1>4, <1>7 DEF WorkerRecord
  <2>4. u = [x EXCEPT !.high = j, !.queued = a, !.wake = TRUE]
    BY <2>1, <2>2, <2>3
  <2>5. u \in WorkerRecord
    BY <1>7, <2>4 DEF WorkerRecord
  <2>6. /\ u.pending = x.pending /\ u.draining = x.draining /\ u.failed = x.failed
        /\ u.queued = x.queued \cup {q} /\ u.submitting = x.submitting
        /\ u.eng = x.eng /\ u.fatal = x.fatal /\ u.closed = x.closed /\ u.high = j
        /\ u.waived = x.waived /\ u.leaked = x.leaked
        /\ u.thr = x.thr /\ SameViews(x, u) /\ SameAnswers(x, u)
    BY <1>7, <2>3, <2>4 DEF WorkerRecord, SameViews, SameAnswers
  <2>7. ~v.closed /\ ~v.fatal /\ v.high < j /\ v.draining = {}
    <3>1. x.high \in Nat
      BY <1>7 DEF WorkerRecord
    <3> QED
      BY <1>1, <1>2, <1>8, <1>12, <2>2, <3>1 DEF SameState, ThreadOK
  <2>8. Unused(v, R, q) /\ q \notin K
    <3>1. v.high \in Nat
      BY <1>1 DEF WorkerRecord
    <3>2. job[q] > v.high
      BY <2>2, <2>7, <3>1
    <3> QED
      BY <1>4, <2>7, <3>2
  <2>9. ThreadOK(S.mode, u)
    BY <1>1, <1>4, <1>5, <1>8, <1>12, <2>6, <2>7 DEF ThreadOK, Submits, Owned, SameReads, SameViews,
       SameState, SameAnswers
  <2>10. Places(u)
    BY <1>1, <1>8, <2>6 DEF Places, Flying, Lent, SameReads, SameViews
  <2>11. /\ u.tickets = v.tickets /\ Lent(u) = Lent(v) /\ Claiming(u) = Claiming(v)
         /\ Claimed(u) = Claimed(v) /\ Early(u) = Early(v) \cup {q} /\ Flying(u) = Flying(v)
         /\ Owned(u) = Owned(v) \cup {q} /\ u.failed = v.failed /\ u.high = S.job[q]
         /\ u.closed = v.closed /\ u.eng = v.eng /\ u.ended = v.ended /\ u.done = v.done
         /\ u.fatal = v.fatal /\ u.waived = v.waived /\ (u.leaked <=> v.leaked)
    <3>1. S.job[q] = j
      BY <2>2 DEF Before
    <3> QED
      BY <1>8, <2>6, <3>1 DEF Lent, Claiming, Claimed, Early, Flying, Owned, SameReads,
         SameViews, SameState, SameAnswers
  <2>12. Related(S, v, R, D, K, F) /\ S.mode = "jobs" /\ v.high < S.job[q] /\ q \notin K \cup S.unsent
    BY <1>1, <1>4, <1>5, <2>2, <2>7, <2>8 DEF Before, RankOK
  <2>13. Related(S, u, R, D, K, F)
    BY <1>1, <1>4, <2>5, <2>8, <2>11, <2>12, EnqueueKeeps
  <2>14. K \cup Vouched(u) = K
    BY <1>4, <2>11 DEF Vouched
  <2>15. InProgress(u) = InProgress(v) \cup {q}
    BY <1>8, <2>6 DEF InProgress, SameReads, SameViews
  <2>16. AsksOne(u)
    <3>1. u.inflight
      BY <1>8, <2>6 DEF SameAnswers
    <3>2. Running(u) => Running(v)
      BY <2>11 DEF Running
    <3> QED
      BY <1>1, <1>5, <2>11, <2>15, <3>1, <3>2, AsksMore DEF Booked
  <2>17. Booked(u, R)
    BY <1>1, <1>2, <1>8, <2>6, <2>16 DEF Booked, RoundOK, EndsClean, Running, SameReads, SameViews,
       SameState
  <2> QED
    BY <1>1, <1>5, <2>5, <2>9, <2>10, <2>13, <2>14, <2>17 DEF RankOK
<1> QED
  BY <1>11, <1>12, <1>13

\* A request is submitted in the callback: it flies, or is given up at once.
LEMMA SaveRequestSafe ==
    ASSUME NEW r, NEW S, NEW v, NEW R, NEW B, NEW K, NEW F, NEW u, NEW T, NEW D,
           NEW o \in {"ok", "full", "refused", "drained", "uncertain"},
           NEW running \in BOOLEAN,
           Before(r, S, v, R, B, K, F), After(r, u, T, D),
           SaveRequest(r, o, running)
    PROVE  RankOK(S, u, T, D, K \cup Vouched(u), F)
<1>1. v \in WorkerRecord /\ ThreadOK(S.mode, v) /\ Places(v) /\ Booked(v, R) /\ RingOK(R)
      /\ v.thr \in Thread /\ S.mode = mode /\ S.mode \in {"jobs", "requests"}
      /\ Related(S, v, R, B, K, F)
  BY DEF Before, RankOK, WorkerRecord, BooksRecord
<1>2. D = Tail(B) /\ B # <<>> /\ v.eng = "serve" /\ Head(B).k = "save" /\ mode = "requests" /\ ~v.fatal
      /\ ~v.inflight
  <2>1. ~[w[r] EXCEPT !.inflight = TRUE, !.ended = @ \ {Head(inbox[r]).q},
                      !.completed = @ \ {Head(inbox[r]).q}].fatal
    BY DEF SaveRequest
  <2>2. w[r].fatal = v.fatal /\ v = w[r]
    BY DEF Before
  <2>3. ~v.fatal
    BY <1>1, <2>1, <2>2 DEF WorkerRecord
  <2> QED
    BY <2>3 DEF Before, After, SaveRequest, Head1, Consume
<1>3. PICK q : q = Head(B).q
  OBVIOUS
<1>4. /\ S \in BooksRecord /\ K \in SUBSET Requests /\ F \in SUBSET Requests /\ Vouched(v) \subseteq K
      /\ RankOK(S, v, R, D, K, F) /\ q \in Requests /\ {q} \in SUBSET Requests
      /\ ~Has(D, "save", q) /\ q \notin Owned(v) /\ q \notin S.unsent /\ ~Reads(R, q)
      /\ q \notin Early(v) \cup Flying(v) \cup v.failed
      /\ Unused(v, R, q) /\ q \notin v.ended \cup F /\ (q \in S.given => Has(D, "preempt", q))
  BY <1>2, <1>3, SaveFacts
<1>5. Related(S, v, R, D, K, F) /\ S.mode = "requests" /\ K = {}
  BY <1>1, <1>2, <1>4 DEF RankOK, Related, FinishedOK
<1>17. /\ v.queued = {} /\ v.submitting = {} /\ v.done = {} /\ v.draining = {}
       /\ v.thr.pc \notin {"check", "native", "insert", "undo", "finally"}
  BY <1>1, <1>2, <1>5 DEF ThreadOK, Submits
<1>6. PICK a \in SUBSET Requests, b \in SUBSET Requests : a = v.ended \ {q} /\ b = v.completed \ {q}
  BY <1>1 DEF WorkerRecord
<1>7. PICK x : x = [v EXCEPT !.inflight = TRUE, !.ended = a, !.completed = b]
  OBVIOUS
<1>8. x \in WorkerRecord
  BY <1>1, <1>7 DEF WorkerRecord
<1>9. /\ SameReads(v, x) /\ SameViews(v, x) /\ SameState(v, x) /\ x.thr = v.thr
      /\ x.ended = v.ended \ {q} /\ x.completed = v.completed \ {q} /\ x.done = v.done /\ x.inflight
  BY <1>1, <1>6, <1>7 DEF WorkerRecord, SameReads, SameViews, SameState
<1>10. u = CASE o = "ok" -> Issue([x EXCEPT !.pending = @ \cup {q}, !.wake = TRUE], q, T)
             [] o = "uncertain" -> AbortCapture(Waive(x, q), q)
             [] OTHER -> AbortCapture(MarkCompleted(x, {q}), q)
  BY <1>3, <1>6, <1>7 DEF Before, After, SaveRequest, Become
<1>11. T = TrySubmitPages(R, q, o, running) /\ o \in SubmitOutcomes(R, SubmitFaults)
  BY <1>3 DEF Before, After, SaveRequest, Submitting
<1>12. o # "full" => FreeSlots(ReapAbandoned(R)) # {}
  BY <1>11 DEF SubmitOutcomes, SubmitFaults
<1>13. q \in Contexts /\ \A s \in Slots : R[s].ctx # q
  BY <1>4 DEF Unused, Requests
<1>14. /\ o \in {"full", "refused", "drained"} => RingMove(R, T, {})
       /\ o \in {"ok", "uncertain"} => Fills(R, T, q)
  BY <1>1, <1>11, <1>12, <1>13, SubmitMoves
<1>15. CASE o = "ok"
  <2>1. PICK e : e = {[q |-> q, slot |-> s, gen |-> T[s].gen] : s \in Filling(T, q)}
    OBVIOUS
  <2>2. Fills(R, T, q)
    BY <1>14, <1>15
  <2>3. e \in SUBSET Ticket
    <3>1. \A s \in Filling(T, q) : s \in Slots /\ T[s] \in SlotRecord
      BY <2>2 DEF Filling, Fills
    <3> QED
      BY <1>4, <2>1, <3>1 DEF SlotRecord, Ticket
  <2>4. PICK c \in SUBSET Ticket, p \in SUBSET Requests : c = v.tickets \cup e /\ p = v.pending \cup {q}
    BY <1>1, <1>4, <2>3 DEF WorkerRecord
  <2>5. u = [x EXCEPT !.pending = p, !.wake = TRUE, !.tickets = c]
    <3>1. PICK y : y = [x EXCEPT !.pending = p, !.wake = TRUE]
      OBVIOUS
    <3>2. x.pending = v.pending /\ x.tickets = v.tickets
      BY <1>9 DEF SameReads, SameViews
    <3>3. y.tickets = x.tickets
      BY <1>8, <3>1 DEF WorkerRecord
    <3>4. u = Issue(y, q, T)
      BY <1>10, <1>15, <2>4, <3>1, <3>2
    <3>5. u = [y EXCEPT !.tickets = c]
      BY <2>1, <2>4, <3>2, <3>3, <3>4 DEF Issue
    <3> QED
      BY <3>1, <3>5
  <2>6. u \in WorkerRecord
    BY <1>8, <2>5 DEF WorkerRecord
  <2>7. /\ u.pending = x.pending \cup {q} /\ u.draining = x.draining /\ u.failed = x.failed
        /\ u.queued = x.queued /\ u.submitting = x.submitting /\ u.thr = x.thr
        /\ u.ready = x.ready /\ u.storeq = x.storeq /\ u.writer = x.writer
        /\ u.tickets = x.tickets \cup e /\ SameState(x, u) /\ SameAnswers(x, u)
    <3>1. x.pending = v.pending /\ x.tickets = v.tickets
      BY <1>9 DEF SameReads, SameViews
    <3> QED
      BY <1>8, <2>4, <2>5, <3>1 DEF WorkerRecord, SameState, SameAnswers
  <2>9. ThreadOK(S.mode, u)
    BY <1>1, <1>2, <1>5, <1>9, <1>17, <2>7 DEF ThreadOK, Submits, SameReads, SameViews,
       SameState, SameAnswers
  <2>10. /\ Lent(u) = Lent(v) /\ Claiming(u) = Claiming(v) /\ Early(u) = Early(v)
         /\ Flying(u) = Flying(v) \cup {q} /\ Owned(u) = Owned(v) \cup {q} /\ u.failed = v.failed
         /\ u.high = v.high /\ u.closed = v.closed /\ u.eng = v.eng /\ u.fatal = v.fatal
         /\ u.waived = v.waived /\ (u.leaked <=> v.leaked)
         /\ u.ended \subseteq v.ended /\ u.completed \subseteq v.completed \ {q} /\ u.done = v.done
    BY <1>9, <2>7 DEF Lent, Claiming, Early, Flying, Owned, SameReads, SameViews, SameState,
       SameAnswers
  <2>11. Claimed(u) \subseteq Claimed(v) /\ q \notin Lent(v)
    BY <1>4, <1>9, <2>7, <2>10 DEF Claimed, Unused, SameReads
  <2>12. Places(u)
    <3>1. u.ready = v.ready /\ u.storeq = v.storeq /\ u.writer = v.writer
      BY <1>9, <2>7 DEF SameViews
    <3> QED
      BY <1>1, <2>10, <2>11, <3>1 DEF Places
  <2>13. u.tickets \in {v.tickets, v.tickets \cup {[q |-> q, slot |-> s, gen |-> T[s].gen] :
                                                      s \in Filling(T, q)}}
    BY <1>9, <2>1, <2>7 DEF SameViews
  <2>14. /\ q \notin K \cup S.unsent /\ Early(u) \subseteq Early(v) \ {q} /\ q \notin F
         /\ ~New(S.mode, S.job, v, D, q)
    BY <1>4, <1>5, <2>10 DEF New
  <2>20. /\ Flying(v) \subseteq Flying(u) /\ q \in Flying(u) /\ Owned(u) \subseteq Owned(v) \cup {q}
         /\ v.waived \subseteq u.waived /\ u.waived \subseteq v.waived \cup {q}
         /\ u.completed \subseteq v.completed \cup {q} /\ q \notin u.completed
    BY <2>10
  <2>15. RingOK(T) /\ Related(S, u, T, D, K, F)
    BY <1>1, <1>4, <1>5, <2>2, <2>6, <2>10, <2>11, <2>13, <2>14, <2>20, FillKeeps
  <2>16. K \cup Vouched(u) = K
    BY <1>4, <2>10 DEF Vouched
  <2>17. InProgress(u) = InProgress(v) \cup {q}
    BY <1>9, <2>7 DEF InProgress, SameReads, SameViews
  <2>18. AsksOne(u)
    BY <1>1, <1>2, <1>9, <2>7, <2>10, <2>17, AsksMore DEF Booked, Running, SameState, SameAnswers
  <2>19. Booked(u, T)
    BY <1>1, <1>2, <1>9, <2>7, <2>18 DEF Booked, RoundOK, EndsClean, Running, SameReads, SameViews,
       SameState
  <2> QED
    BY <2>6, <2>9, <2>12, <2>15, <2>16, <2>19 DEF RankOK
<1>16. CASE o \in {"full", "refused", "drained"}
  <2>1. u = AbortCapture(MarkCompleted(x, {q}), q)
    BY <1>10, <1>16
  <2>2. RingMove(R, T, {})
    BY <1>14, <1>16
  <2>3. /\ u \in WorkerRecord /\ SameReads(x, u) /\ SameViews(x, u) /\ SameState(x, u)
        /\ u.thr = x.thr /\ u.ended = x.ended /\ ~u.inflight
        /\ u.completed = x.completed \cup {q} /\ u.done = x.done
    BY <1>2, <1>4, <1>8, <2>1, EndFields
  <2>4. /\ SameReads(v, u) /\ SameViews(v, u) /\ SameRun(v, u) /\ SameState(v, u) /\ u.thr = v.thr
        /\ u.done = {} /\ Vouched(u) = {}
        /\ u.ended \subseteq v.ended /\ u.completed \subseteq v.completed \cup {q}
    BY <1>9, <1>17, <2>3 DEF SameReads, SameViews, SameState, SameRun, Vouched
  <2>a. ThreadOK(S.mode, u)
    BY <1>1, <2>4 DEF ThreadOK, Submits, SameReads, SameRun
  <2>b. Places(u)
    BY <1>1, <2>4 DEF Places, Flying, Lent, SameReads, SameViews
  <2>c. Calm(v, u)
    BY <2>4 DEF Calm, Flying, Lent, Early, Owned, Claimed, Claiming, SameReads, SameViews, SameRun
  <2>d. GivesUp(S.mode, v, u, R, D)
    BY <2>4 DEF GivesUp, Flying, SameReads
  <2>e. Answers(S, v, u, R, D, K, K \cup Vouched(u), F, F)
    BY <1>4, <1>5, <2>4 DEF Answers
  <2>f. {} \cap (Lent(u) \cup Claimed(u)) = {}
    OBVIOUS
  <2>h. AsksOne(u)
    <3>1. InProgress(u) = InProgress(v)
      BY <2>4, SameProgress
    <3> QED
      BY <1>1, <1>2, <2>3, <2>4, <3>1, AsksKept DEF Booked, Running, SameState
  <2>i. Booked(u, T)
    BY <1>1, <1>2, <2>4, <2>h DEF Booked, RoundOK, EndsClean, Running, SameReads, SameViews, SameRun
  <2> QED
    BY <1>4, <2>2, <2>3, <2>a, <2>b, <2>c, <2>d, <2>e, <2>f, <2>i, QuietStep
<1>18. CASE o = "uncertain"
  <2>1. PICK y : y = Waive(x, q)
    OBVIOUS
  <2>2. /\ y \in WorkerRecord /\ SameReads(x, y) /\ SameViews(x, y) /\ SameRun(x, y)
        /\ y.waived = x.waived \cup {q} /\ y.leaked = x.leaked
        /\ y.thr = x.thr /\ y.ended = x.ended
        /\ y.completed = x.completed \cup {q} /\ y.done = x.done
    BY <1>2, <1>4, <1>8, <2>1, WaiveFields
  <2>3. u = FinishStore(y, q, FALSE)
    BY <1>10, <1>18, <2>1 DEF AbortCapture
  <2>4. /\ u \in WorkerRecord /\ SameReads(y, u) /\ SameViews(y, u) /\ SameState(y, u)
        /\ u.thr = y.thr /\ u.completed = y.completed /\ u.ended = y.ended /\ u.done = y.done
        /\ ~u.inflight
    <3>1. FALSE \in BOOLEAN
      OBVIOUS
    <3>2. y \in WorkerRecord /\ q \in Requests
      BY <1>4, <2>2
    <3> QED
      BY <2>3, <3>1, <3>2, AbortFields
  <2>5. /\ SameReads(v, u) /\ SameViews(v, u) /\ SameRun(v, u) /\ u.thr = v.thr
        /\ u.done = {} /\ Vouched(u) = {} /\ u.leaked = v.leaked
        /\ u.ended \subseteq v.ended /\ u.completed = v.completed \cup {q}
        /\ u.waived = v.waived \cup {q}
    BY <1>9, <1>17, <2>2, <2>4 DEF SameReads, SameViews, SameState, SameRun, Vouched
  <2>6. ThreadOK(S.mode, u)
    BY <1>1, <2>5 DEF ThreadOK, Submits, SameReads, SameRun
  <2>7. Places(u)
    BY <1>1, <2>5 DEF Places, Flying, Lent, SameReads, SameViews
  <2>8. /\ Lent(u) = Lent(v) /\ Claiming(u) = Claiming(v) /\ Claimed(u) = Claimed(v)
        /\ Early(u) = Early(v) /\ Flying(u) = Flying(v) /\ Owned(u) = Owned(v)
        /\ u.failed = v.failed /\ u.tickets = v.tickets
        /\ u.high = v.high /\ u.closed = v.closed /\ u.eng = v.eng /\ u.fatal = v.fatal
    BY <2>5 DEF Lent, Claiming, Claimed, Early, Flying, Owned, SameReads, SameViews, SameRun
  <2>9. /\ q \notin K \cup S.unsent /\ Early(u) \subseteq Early(v) \ {q} /\ q \notin F
        /\ ~New(S.mode, S.job, v, D, q) /\ Fills(R, T, q)
    BY <1>4, <1>5, <1>14, <1>18, <2>8 DEF New
  <2>10. /\ q \in u.waived /\ v.waived \subseteq u.waived /\ u.waived \subseteq v.waived \cup {q}
         /\ u.completed \subseteq v.completed \cup {q} /\ Flying(v) \subseteq Flying(u)
         /\ Flying(u) \subseteq Flying(v) \cup {q} /\ Owned(u) \subseteq Owned(v) \cup {q}
         /\ Claimed(u) \subseteq Claimed(v)
         /\ u.tickets \in {v.tickets, v.tickets \cup {[q |-> q, slot |-> s, gen |-> T[s].gen] :
                                                       s \in Filling(T, q)}}
    BY <2>5, <2>8
  <2>11. RingOK(T) /\ Related(S, u, T, D, K, F)
    BY <1>1, <1>4, <1>5, <2>4, <2>5, <2>8, <2>9, <2>10, FillKeeps
  <2>12. AsksOne(u)
    <3>1. InProgress(u) = InProgress(v)
      BY <2>5, SameProgress
    <3> QED
      BY <1>1, <1>2, <2>4, <2>5, <3>1, AsksKept DEF Booked, Running, SameRun
  <2>13. Booked(u, T)
    BY <1>1, <1>2, <2>5, <2>12 DEF Booked, RoundOK, EndsClean, Running, SameReads, SameViews, SameRun
  <2>14. K \cup Vouched(u) = K
    BY <2>5
  <2> QED
    BY <2>4, <2>6, <2>7, <2>11, <2>13, <2>14 DEF RankOK
<1> QED
  BY <1>15, <1>16, <1>18

\* A capture that cannot be awaited here is only abandoned.
LEMMA HandlePreemptionSafe ==
    ASSUME NEW r, NEW S, NEW v, NEW R, NEW B, NEW K, NEW F, NEW u, NEW T, NEW D,
           Before(r, S, v, R, B, K, F), After(r, u, T, D), HandlePreemption(r)
    PROVE  RankOK(S, u, T, D, K \cup Vouched(u), F)
<1>1. v \in WorkerRecord /\ ThreadOK(S.mode, v) /\ Places(v) /\ Booked(v, R) /\ RingOK(R)
      /\ v.thr \in Thread /\ S.mode = mode /\ S.mode \in {"jobs", "requests"}
      /\ Related(S, v, R, B, K, F)
  BY DEF Before, RankOK, WorkerRecord, BooksRecord
<1>2. D = Tail(B) /\ B # <<>> /\ v.eng = "serve" /\ Head(B).k = "preempt"
  BY DEF Before, After, HandlePreemption, Head1, Consume
<1>3. PICK q : q = Head(B).q
  OBVIOUS
<1>4. T = R /\ (q \in v.pending => mode = "jobs")
  BY <1>3 DEF Before, After, HandlePreemption
<1>5. /\ S \in BooksRecord /\ K \in SUBSET Requests /\ F \in SUBSET Requests /\ Vouched(v) \subseteq K
      /\ RankOK(S, v, R, B, K, F)
  BY DEF Before
<1>6. S.mode = "requests" => q \in v.waived \/ ~Reads(R, q)
  BY <1>1, <1>2, <1>4 DEF Related, ReadsOK, InboxOK, Flying, ThreadOK, Submits, Reads, RingOK,
     SlotRecord, Requests
<1>7. RankOK(S, v, R, D, K, F) /\ q \in Requests
  BY <1>2, <1>3, <1>5, <1>6, TakeMessage
<1>8. u = Abandoned(v, q)
  BY <1>3 DEF Before, After, HandlePreemption, Become
<1>9. /\ u \in WorkerRecord /\ SameReads(v, u) /\ SameViews(v, u) /\ SameState(v, u)
      /\ SameAnswers(v, u) /\ u.thr = v.thr
  BY <1>1, <1>7, <1>8, AbandonedFields
<1>10. SameRun(v, u) /\ u.ended = v.ended /\ Vouched(u) \subseteq K
  BY <1>5, <1>9 DEF SameState, SameAnswers, SameRun, Vouched
<1>11. S.mode = "requests" => u.done = {} /\ K = {}
  BY <1>1, <1>9 DEF ThreadOK, SameAnswers, Related, FinishedOK
<1>12. Answers(S, v, u, R, D, K, K \cup Vouched(u), F, F)
  BY <1>9, <1>10, <1>11 DEF Answers, SameAnswers
<1>13. AsksOne(u)
  <2>1. InProgress(u) = InProgress(v)
    BY <1>9, SameProgress
  <2> QED
    BY <1>1, <1>9, <2>1, AsksKept DEF Booked, Running, SameState, SameAnswers
<1> QED
  BY <1>4, <1>5, <1>7, <1>9, <1>10, <1>11, <1>12, <1>13, AnswerSafe

\* The callback returns after the capture event: the read is over.
LEMMA PreemptRequestSafe ==
    ASSUME NEW r, NEW S, NEW v, NEW R, NEW B, NEW K, NEW F, NEW u, NEW T, NEW D,
           Before(r, S, v, R, B, K, F), After(r, u, T, D), PreemptRequest(r)
    PROVE  RankOK(S, u, T, D, K \cup Vouched(u), F)
<1>1. v \in WorkerRecord /\ ThreadOK(S.mode, v) /\ Places(v) /\ Booked(v, R) /\ RingOK(R)
      /\ v.thr \in Thread /\ S.mode = mode /\ S.mode \in {"jobs", "requests"}
      /\ Related(S, v, R, B, K, F)
  BY DEF Before, RankOK, WorkerRecord, BooksRecord
<1>2. D = Tail(B) /\ B # <<>> /\ v.eng = "serve" /\ Head(B).k = "preempt"
  BY DEF Before, After, PreemptRequest, Head1, Consume
<1>3. PICK q : q = Head(B).q
  OBVIOUS
<1>4. mode = "requests" /\ q \in v.pending /\ Quiet(R, q) /\ T = DrainContext(R, q)
  BY <1>3 DEF Before, After, PreemptRequest
<1>5. /\ S \in BooksRecord /\ K \in SUBSET Requests /\ F \in SUBSET Requests /\ Vouched(v) \subseteq K
      /\ RankOK(S, v, R, B, K, F)
  BY DEF Before
<1>6. ~Reads(R, q)
  BY <1>1, <1>4 DEF Quiet, Filling, Reads, RingOK
<1>7. RankOK(S, v, R, D, K, F) /\ q \in Requests /\ {q} \in SUBSET Requests
  BY <1>2, <1>3, <1>5, <1>6, TakeMessage
<1>8. RingMove(R, T, {q})
  BY <1>1, <1>4, DrainMove
<1>9. PICK p \in SUBSET Requests : p = v.pending \ {q}
  BY <1>1 DEF WorkerRecord
<1>10. PICK x : x = [v EXCEPT !.pending = p]
  OBVIOUS
<1>20. PICK y : y = Retire(x, q)
  OBVIOUS
<1>11. PICK z : z = FinishStore(y, q, FALSE)
  OBVIOUS
<1>12. u = MarkCompleted(z, {q})
  BY <1>3, <1>9, <1>10, <1>11, <1>20 DEF Before, After, PreemptRequest, Become, AbortCapture
<1>13. x \in WorkerRecord
  BY <1>1, <1>10 DEF WorkerRecord
<1>14. /\ x.pending = v.pending \ {q} /\ x.draining = v.draining /\ x.failed = v.failed
       /\ x.queued = v.queued /\ x.submitting = v.submitting /\ x.thr = v.thr
       /\ SameViews(v, x) /\ SameState(v, x) /\ SameAnswers(v, x)
  BY <1>1, <1>9, <1>10 DEF WorkerRecord, SameViews, SameState, SameAnswers
<1>15. /\ y \in WorkerRecord /\ SameReads(x, y) /\ SameState(x, y) /\ SameAnswers(x, y)
       /\ y.ready = x.ready /\ y.storeq = x.storeq /\ y.writer = x.writer
       /\ y.tickets = {t \in x.tickets : t.q # q} /\ y.thr = x.thr
  BY <1>13, <1>20, RetireFields
<1>16. /\ z \in WorkerRecord /\ SameReads(y, z) /\ SameViews(y, z) /\ SameState(y, z)
       /\ z.thr = y.thr /\ z.completed = y.completed /\ z.ended = y.ended /\ z.done = y.done /\ ~z.inflight
  <2>1. FALSE \in BOOLEAN
    OBVIOUS
  <2> QED
    BY <1>7, <1>11, <1>15, <2>1, AbortFields
<1>17. /\ u \in WorkerRecord /\ SameReads(z, u) /\ SameViews(z, u) /\ SameState(z, u)
       /\ u.thr = z.thr /\ ~u.inflight /\ u.ended = z.ended /\ u.completed = z.completed \cup {q} /\ u.done = z.done
  BY <1>4, <1>7, <1>12, <1>16, MarkFields
<1>18. q \in Flying(v) /\ q \notin Lent(v) /\ v.queued = {} /\ v.draining = {}
       /\ v.thr.pc \notin {"check", "native", "insert", "undo"}
  BY <1>1, <1>2, <1>4 DEF Flying, Places, ThreadOK, Submits
<1>19. /\ u.tickets = {t \in v.tickets : t.q # q} /\ Lent(u) = Lent(v)
       /\ Claimed(u) = Claimed(v) \ {q}
  BY <1>14, <1>15, <1>16, <1>17 DEF Lent, Claimed, Claiming, SameReads, SameViews
<1>a. ThreadOK(S.mode, u)
  BY <1>1, <1>4, <1>5, <1>6, <1>7, <1>14, <1>15, <1>16, <1>17, <1>18, <1>19, NoRequestIsNone
     DEF ThreadOK, Submits, SameReads, SameViews, SameState, SameAnswers
<1>b. Places(u)
  BY <1>1, <1>4, <1>5, <1>6, <1>7, <1>14, <1>15, <1>16, <1>17, <1>18, <1>19, NoRequestIsNone
     DEF Places, Flying, Lent, SameReads, SameViews
<1>c. Calm(v, u)
  BY <1>1, <1>4, <1>5, <1>6, <1>7, <1>14, <1>15, <1>16, <1>17, <1>18, <1>19 DEF Calm, Flying,
     Lent, Early, Owned, Claimed, Claiming, SameReads, SameViews, SameState, SameAnswers
<1>d. GivesUp(S.mode, v, u, R, D)
  BY <1>1, <1>4, <1>5, <1>6, <1>7, <1>14, <1>15, <1>16, <1>17, <1>18, <1>19 DEF GivesUp, Flying,
     SameReads, SameViews, SameState, SameAnswers
<1>e. Answers(S, v, u, R, D, K, K \cup Vouched(u), F, F)
  BY <1>1, <1>4, <1>5, <1>6, <1>7, <1>14, <1>15, <1>16, <1>17, <1>18, <1>19 DEF RankOK, Related,
     FinishedOK, Answers, Vouched, Early, Flying, SameReads, SameViews, SameState, SameAnswers
<1>f. {q} \cap (Lent(u) \cup Claimed(u)) = {}
  BY <1>1, <1>4, <1>5, <1>6, <1>7, <1>14, <1>15, <1>16, <1>17, <1>18, <1>19, NoRequestIsNone
     DEF Lent, Claimed, Claiming, Places, Flying, SameReads, SameViews, SameState, SameAnswers
<1>g. q \in InProgress(v) /\ InProgress(u) \subseteq InProgress(v) \ {q}
  BY <1>1, <1>4, <1>5, <1>6, <1>7, <1>14, <1>15, <1>16, <1>17, <1>18, <1>19, NoRequestIsNone DEF
     InProgress, Places, Flying, Lent, SameReads, SameViews, SameState, SameAnswers
<1>h. AsksOne(u)
  BY <1>1, <1>4, <1>5, <1>6, <1>7, <1>14, <1>15, <1>16, <1>17, <1>18, <1>19, <1>g, AsksLess DEF
     Booked, Running, SameReads, SameViews, SameState, SameAnswers
<1>i. Booked(u, T)
  BY <1>1, <1>4, <1>5, <1>6, <1>7, <1>14, <1>15, <1>16, <1>17, <1>18, <1>19, <1>h DEF Booked,
     RoundOK, EndsClean, Running, ThreadOK, RingOK, SameReads, SameViews, SameState, SameAnswers
<1> QED
  BY <1>4, <1>5, <1>6, <1>7, <1>14, <1>15, <1>16, <1>17, <1>18, <1>19, <1>8, <1>a, <1>b, <1>c, <1>d,
     <1>e, <1>f, <1>i, QuietStep

\* The drain raises: the worker serves no more, and the preemption stays unanswered.
LEMMA PreemptRaisesSafe ==
    ASSUME NEW r, NEW S, NEW v, NEW R, NEW B, NEW K, NEW F, NEW u, NEW T, NEW D,
           Before(r, S, v, R, B, K, F), After(r, u, T, D), PreemptRaises(r)
    PROVE  RankOK(S, u, T, D, K \cup Vouched(u), F)
<1>1. v \in WorkerRecord /\ ThreadOK(S.mode, v) /\ Places(v) /\ Booked(v, R) /\ RingOK(R)
      /\ v.thr \in Thread /\ S.mode = mode /\ S.mode \in {"jobs", "requests"}
      /\ Related(S, v, R, B, K, F)
  BY DEF Before, RankOK, WorkerRecord, BooksRecord
<1>2. D = B /\ B # <<>> /\ v.eng = "serve" /\ Head(B).k = "preempt"
  BY DEF Before, After, PreemptRaises, Head1
<1>3. PICK q : q = Head(B).q
  OBVIOUS
<1>4. mode = "requests" /\ q \in v.pending /\ T = Abandon(R, q)
  BY <1>3 DEF Before, After, PreemptRaises, DrainFailed
<1>5. Has(B, "preempt", q)
  <2>1. B \in Seq(Message)
    BY <1>1 DEF Related, InboxOK
  <2>2. 1 \in DOMAIN B /\ B[1] = Head(B) /\ Head(B) \in Message
    BY <1>2, <2>1
  <2>3. Head(B) = [k |-> "preempt", q |-> q]
    BY <1>2, <1>3, <2>2 DEF Message
  <2> QED
    BY <2>2, <2>3 DEF Has
<1>6. RingMove(R, T, {})
  BY <1>1, <1>4, AbandonMove
<1>7. PICK p \in SUBSET Requests : p = v.pending \ {q}
  BY <1>1 DEF WorkerRecord
<1>8. u = [v EXCEPT !.pending = p, !.eng = "raised"]
  BY <1>3, <1>7 DEF Before, After, PreemptRaises, Become
<1>9. u \in WorkerRecord
  BY <1>1, <1>8 DEF WorkerRecord
<1>10. /\ u.pending = v.pending \ {q} /\ u.draining = v.draining /\ u.failed = v.failed
       /\ u.queued = v.queued /\ u.submitting = v.submitting /\ u.thr = v.thr
       /\ u.eng = "raised" /\ u.closed = v.closed /\ u.high = v.high /\ u.fatal = v.fatal
       /\ u.waived = v.waived /\ SameViews(v, u) /\ SameAnswers(v, u)
  BY <1>1, <1>7, <1>8 DEF WorkerRecord, SameViews, SameAnswers
<1>a. ThreadOK(S.mode, u)
  BY <1>1, <1>2, <1>4, <1>5, <1>9, <1>10, NoRequestIsNone DEF ThreadOK, Submits, SameReads,
     SameViews, SameState, SameAnswers
<1>b. Places(u)
  BY <1>1, <1>2, <1>4, <1>5, <1>9, <1>10, NoRequestIsNone DEF Places, Flying, Lent, SameReads,
     SameViews
<1>c. Calm(v, u)
  BY <1>1, <1>2, <1>4, <1>5, <1>9, <1>10 DEF Calm, Flying, Lent, Early, Owned, Claimed,
     Claiming, SameReads, SameViews, SameState, SameAnswers
<1>d. GivesUp(S.mode, v, u, R, B)
  BY <1>1, <1>2, <1>4, <1>5, <1>9, <1>10 DEF GivesUp, Flying, SameReads, SameViews, SameState,
     SameAnswers
<1>e. Answers(S, v, u, R, B, K, K \cup Vouched(u), F, F)
  BY <1>1, <1>2, <1>4, <1>5, <1>9, <1>10 DEF Before, Related, FinishedOK, Answers, Vouched, Early,
     Flying, SameReads, SameViews, SameState, SameAnswers
<1>f. {} \cap (Lent(u) \cup Claimed(u)) = {}
  BY <1>1, <1>2, <1>4, <1>5, <1>9, <1>10, NoRequestIsNone DEF Lent, Claimed, Claiming, Places,
     Flying, SameReads, SameViews, SameState, SameAnswers
<1>h. AsksOne(u)
  BY <1>1, <1>2, <1>4, <1>5, <1>9, <1>10 DEF AsksOne, Running, SameReads, SameViews, SameState,
     SameAnswers
<1>i. Booked(u, T)
  BY <1>1, <1>2, <1>4, <1>5, <1>9, <1>10, <1>h DEF Booked, RoundOK, EndsClean, Running, ThreadOK,
     RingOK, SameReads, SameViews, SameState, SameAnswers
<1> QED
  BY <1>2, <1>4, <1>5, <1>9, <1>10, <1>6, <1>a, <1>b, <1>c, <1>d, <1>e, <1>f, <1>i, RingStep

\* The worker remembers that the request has finished.
LEMMA HandleFinishedSafe ==
    ASSUME NEW r, NEW S, NEW v, NEW R, NEW B, NEW K, NEW F, NEW u, NEW T, NEW D,
           Before(r, S, v, R, B, K, F), After(r, u, T, D), HandleFinished(r)
    PROVE  RankOK(S, u, T, D, K \cup Vouched(u), F)
<1>1. v \in WorkerRecord /\ ThreadOK(S.mode, v) /\ Places(v) /\ Booked(v, R) /\ RingOK(R)
      /\ v.thr \in Thread /\ S.mode = mode /\ S.mode \in {"jobs", "requests"}
      /\ Related(S, v, R, B, K, F)
  BY DEF Before, RankOK, WorkerRecord, BooksRecord
<1>2. D = Tail(B) /\ B # <<>> /\ v.eng = "serve" /\ Head(B).k = "finish"
  BY DEF Before, After, HandleFinished, Head1, Consume
<1>3. PICK q : q = Head(B).q
  OBVIOUS
<1>4. T = R
  BY DEF Before, After, HandleFinished
<1>5. /\ S \in BooksRecord /\ K \in SUBSET Requests /\ F \in SUBSET Requests /\ Vouched(v) \subseteq K
      /\ RankOK(S, v, R, B, K, F)
  BY DEF Before
<1>6. /\ RankOK(S, v, R, D, K, F) /\ q \in Requests /\ ~Has(D, "save", q) /\ Has(B, "finish", q)
  BY <1>2, <1>3, <1>5, TakeMessage
<1>7. q \notin S.alive
  BY <1>1, <1>6 DEF Related, UnknownOK
<1>8. PICK a \in SUBSET Requests :
        a = v.ended \cup ({q} \cap (v.completed \cup (IF mode = "jobs" THEN {} ELSE v.pending)))
  BY <1>1, <1>6 DEF WorkerRecord
<1>9. u = [v EXCEPT !.ended = a]
  BY <1>3, <1>8 DEF Before, After, HandleFinished, Become
<1>10. u \in WorkerRecord
  BY <1>1, <1>9 DEF WorkerRecord
<1>11. /\ SameReads(v, u) /\ SameViews(v, u) /\ SameState(v, u) /\ u.thr = v.thr
       /\ u.inflight = v.inflight
       /\ u.completed = v.completed /\ u.done = v.done /\ u.ended \subseteq v.ended \cup {q}
  BY <1>1, <1>8, <1>9 DEF WorkerRecord, SameReads, SameViews, SameState
<1>a. ThreadOK(S.mode, u)
  BY <1>1, <1>4, <1>5, <1>6, <1>7, <1>10, <1>11, NoRequestIsNone DEF ThreadOK, Submits,
     SameReads, SameViews, SameState, SameAnswers
<1>b. Places(u)
  BY <1>1, <1>4, <1>5, <1>6, <1>7, <1>10, <1>11, NoRequestIsNone DEF Places, Flying, Lent,
     SameReads, SameViews
<1>c. Calm(v, u)
  BY <1>1, <1>4, <1>5, <1>6, <1>7, <1>10, <1>11 DEF Calm, Flying, Lent, Early, Owned, Claimed,
     Claiming, SameReads, SameViews, SameState, SameAnswers
<1>d. GivesUp(S.mode, v, u, R, D)
  BY <1>1, <1>4, <1>5, <1>6, <1>7, <1>10, <1>11 DEF GivesUp, Flying, SameReads, SameViews,
     SameState, SameAnswers
<1>e. Answers(S, v, u, R, D, K, K \cup Vouched(u), F, F)
  BY <1>1, <1>4, <1>5, <1>6, <1>7, <1>10, <1>11 DEF RankOK, Related, FinishedOK, Answers, Vouched, Early,
     Flying, SameReads, SameViews, SameState, SameAnswers
<1>g. InProgress(u) = InProgress(v)
  BY <1>1, <1>4, <1>5, <1>6, <1>7, <1>10, <1>11, NoRequestIsNone DEF InProgress, SameReads,
     SameViews, SameState, SameAnswers
<1>h. AsksOne(u)
  BY <1>1, <1>4, <1>5, <1>6, <1>7, <1>10, <1>11, <1>g, AsksKept DEF Booked, Running, SameReads,
     SameViews, SameState, SameAnswers
<1>i. Booked(u, R)
  BY <1>1, <1>4, <1>5, <1>6, <1>7, <1>10, <1>11, <1>h DEF Booked, RoundOK, EndsClean, Running,
     ThreadOK, RingOK, SameReads, SameViews, SameState, SameAnswers
<1> QED
  BY <1>4, <1>5, <1>6, <1>7, <1>10, <1>11, <1>a, <1>b, <1>c, <1>d, <1>e, <1>i, CalmStep

\* The output of a worker leaves it: what it reports finished was completed.
LEMMA ReportSafe ==
    ASSUME NEW r, NEW S, NEW v, NEW R, NEW B, NEW K, NEW F, NEW u, NEW T, NEW D,
           Before(r, S, v, R, B, K, F), After(r, u, T, D), Report(r)
    PROVE  RankOK(S, u, T, D, K \cup Vouched(u), F \cup Reported(v))
<1>1. v \in WorkerRecord /\ ThreadOK(S.mode, v) /\ Places(v) /\ Booked(v, R) /\ RingOK(R)
      /\ v.thr \in Thread /\ S.mode = mode /\ S.mode \in {"jobs", "requests"}
      /\ Related(S, v, R, B, K, F)
      /\ S \in BooksRecord /\ K \in SUBSET Requests /\ F \in SUBSET Requests
  BY DEF Before, RankOK, WorkerRecord, BooksRecord
<1>2. D = B /\ T = R
  BY DEF Before, After, Report
<1>3. PICK z \in SUBSET Requests : z = Reported(v)
  BY <1>1 DEF Reported, WorkerRecord
<1>4. z \subseteq v.completed \cap v.ended
  BY <1>3 DEF Reported
<1>5. PICK a \in SUBSET Requests, b \in SUBSET Requests : a = v.ended \ z /\ b = v.completed \ z
  BY <1>1 DEF WorkerRecord
<1>6. u = [v EXCEPT !.done = {}, !.uncertain = {}, !.ended = a, !.completed = b]
  BY <1>3, <1>5 DEF Before, After, Report, Become
<1>7. u \in WorkerRecord
  BY <1>1, <1>6 DEF WorkerRecord
<1>8. /\ SameReads(v, u) /\ SameViews(v, u) /\ SameState(v, u) /\ u.thr = v.thr
      /\ u.completed = v.completed \ z /\ u.ended = v.ended \ z /\ u.done = {}
      /\ u.inflight = v.inflight
  BY <1>1, <1>5, <1>6 DEF WorkerRecord, SameReads, SameViews, SameState
<1>9. ThreadOK(S.mode, u) /\ Places(u)
  BY <1>1, <1>8 DEF ThreadOK, Submits, Places, Flying, Lent, SameReads, SameViews, SameState
<1>10. Calm(v, u) /\ GivesUp(S.mode, v, u, R, B)
  BY <1>8 DEF Calm, GivesUp, Flying, Lent, Early, Owned, Claimed, Claiming, SameReads,
     SameViews, SameState
<1>11. Answers(S, v, u, R, B, K, K, F, F \cup z)
  BY <1>1, <1>4, <1>8 DEF Answers, Vouched, Related, FinishedOK
<1>12. Related(S, u, R, B, K, F \cup z)
  <2>1. F \cup z \in SUBSET Requests
    BY <1>1
  <2> QED
    BY <1>1, <1>7, <1>10, <1>11, <2>1, WorkerKeeps
<1>13. K \cup Vouched(u) = K
  BY <1>8 DEF Vouched
<1>14. InProgress(u) = InProgress(v)
  BY <1>8 DEF InProgress, SameReads, SameViews
<1>15. AsksOne(u)
  BY <1>1, <1>8, <1>14, AsksKept DEF Booked, Running, SameState
<1>16. Booked(u, R)
  BY <1>1, <1>8, <1>15 DEF Booked, RoundOK, EndsClean, Running, SameReads, SameViews, SameState
<1> QED
  BY <1>1, <1>2, <1>3, <1>7, <1>9, <1>12, <1>13, <1>16 DEF RankOK

\* A message joins the inbox of a rank.
LEMMA MessageKeeps ==
    ASSUME NEW S \in BooksRecord, NEW v, NEW R, NEW B, NEW D,
           NEW K \in SUBSET Requests, NEW F \in SUBSET Requests,
           RankOK(S, v, R, B, K, F), NEW k \in {"save", "preempt", "finish"}, NEW q \in Requests,
           D = Append(B, [k |-> k, q |-> q]),
           k = "preempt" => q \notin S.unsent,
           k = "finish" => q \notin S.alive,
           k = "save" =>
               /\ q \notin S.unsent /\ \A i \in DOMAIN B : B[i].q # q
               /\ S.mode = "requests" => /\ q \notin Owned(v) /\ Unused(v, R, q)
                                         /\ q \notin v.ended \cup F \cup S.given
    PROVE  RankOK(S, v, R, D, K, F)
<1>1. /\ v \in WorkerRecord /\ RingOK(R) /\ TicketsOK(v, R) /\ ReadsOK(S.mode, v, R, B)
      /\ InboxOK(S.mode, S.job, v, R, B) /\ AckOK(S.job, v, R, K)
      /\ UnknownOK(S, v, R, B, K, F) /\ FinishedOK(S, v, R, B, K, F)
  BY DEF RankOK, Related
<1>2. B \in Seq(Message) /\ \A i, j \in DOMAIN B : i < j /\ B[j].k = "save" => B[i].q # B[j].q
  BY <1>1 DEF InboxOK
<1>3. PICK x \in Message : x = [k |-> k, q |-> q]
  BY DEF Message
<1>4. /\ D \in Seq(Message) /\ DOMAIN D = 1 .. Len(B) + 1 /\ DOMAIN B = 1 .. Len(B) /\ Len(B) \in Nat
      /\ D[Len(B) + 1] = x /\ \A i \in DOMAIN B : D[i] = B[i]
  BY <1>2, <1>3
<1>5. \A l, p : Has(D, l, p) <=> Has(B, l, p) \/ (l = k /\ p = q)
  <2>1. \A i \in DOMAIN D : i \in DOMAIN B \/ i = Len(B) + 1
    BY <1>4
  <2>2. Len(B) + 1 \in DOMAIN D /\ DOMAIN B \subseteq DOMAIN D
    BY <1>4
  <2>4. ASSUME NEW l, NEW p, Has(D, l, p)
        PROVE  Has(B, l, p) \/ (l = k /\ p = q)
    <3>1. PICK i \in DOMAIN D : D[i] = [k |-> l, q |-> p]
      BY <2>4 DEF Has
    <3>2. CASE i \in DOMAIN B
      BY <1>4, <3>1, <3>2 DEF Has
    <3>3. CASE i = Len(B) + 1
      BY <1>3, <1>4, <3>1, <3>3
    <3> QED
      BY <2>1, <3>2, <3>3
  <2>5. ASSUME NEW l, NEW p, Has(B, l, p)
        PROVE  Has(D, l, p)
    BY <1>4, <2>2, <2>5 DEF Has
  <2>6. Has(D, k, q)
    BY <1>3, <1>4, <2>2 DEF Has
  <2> QED
    BY <2>4, <2>5, <2>6
<1>6. ReadsOK(S.mode, v, R, D)
  BY <1>1, <1>5 DEF ReadsOK
<1>7. InboxOK(S.mode, S.job, v, R, D)
  <2>1. ASSUME NEW i \in DOMAIN D, NEW j \in DOMAIN D, i < j, D[j].k = "save"
        PROVE  D[i].q # D[j].q
    <3>1. i \in DOMAIN B /\ i \in Nat /\ j \in Nat
      BY <1>4, <2>1
    <3>2. CASE j \in DOMAIN B
      BY <1>2, <1>4, <2>1, <3>1, <3>2
    <3>3. CASE j = Len(B) + 1
      BY <1>3, <1>4, <2>1, <3>1, <3>3
    <3> QED
      BY <1>4, <3>2, <3>3
  <2>2. S.mode \in {"jobs", "requests"}
    BY DEF BooksRecord
  <2>3. \A p \in Requests : New(S.mode, S.job, v, D, p) => p \notin Owned(v) /\ Unused(v, R, p)
    BY <1>1, <1>5, <2>2 DEF InboxOK, New
  <2> QED
    BY <1>4, <2>1, <2>3 DEF InboxOK
<1>8. AckOK(S.job, v, R, K)
  BY <1>1, <1>5 DEF AckOK
<1>9. UnknownOK(S, v, R, D, K, F)
  BY <1>1, <1>5 DEF UnknownOK
<1>10. FinishedOK(S, v, R, D, K, F)
  BY <1>1, <1>5 DEF FinishedOK
<1> QED
  BY <1>1, <1>6, <1>7, <1>8, <1>9, <1>10 DEF RankOK, Related

\* The scheduler learns more: plans are sent, requests finish or give blocks back.
LEMMA BooksKeep ==
    ASSUME NEW S \in BooksRecord, NEW X \in BooksRecord, NEW v, NEW R, NEW B,
           NEW K \in SUBSET Requests, NEW F \in SUBSET Requests, RankOK(S, v, R, B, K, F),
           X.mode = S.mode, X.unsent \subseteq S.unsent, X.alive \subseteq S.alive,
           \A q \in Requests : X.job[q] = S.job[q] \/ q \in S.unsent,
           \A q \in X.given \ S.given :
               Has(B, "preempt", q) \/ (~Has(B, "save", q) /\ (q \in v.waived \/ ~Reads(R, q)))
    PROVE  RankOK(X, v, R, B, K, F)
<1>1. /\ TicketsOK(v, R) /\ ReadsOK(S.mode, v, R, B)
      /\ InboxOK(S.mode, S.job, v, R, B) /\ AckOK(S.job, v, R, K)
      /\ UnknownOK(S, v, R, B, K, F) /\ FinishedOK(S, v, R, B, K, F)
  BY DEF RankOK, Related
<1>2. \A q \in K : X.job[q] = S.job[q]
  BY <1>1 DEF UnknownOK
<1>3. InboxOK(X.mode, X.job, v, R, B)
  <2>1. ASSUME NEW q \in Requests, New(X.mode, X.job, v, B, q)
        PROVE  q \notin Owned(v) /\ Unused(v, R, q)
    <3>1. CASE q \in S.unsent
      BY <1>1, <3>1 DEF UnknownOK
    <3>2. CASE q \notin S.unsent
      BY <1>1, <2>1, <3>2 DEF InboxOK, New
    <3> QED
      BY <3>1, <3>2
  <2> QED
    BY <1>1, <2>1 DEF InboxOK
<1>4. AckOK(X.job, v, R, K)
  BY <1>1, <1>2 DEF AckOK
<1>5. UnknownOK(X, v, R, B, K, F)
  BY <1>1 DEF UnknownOK
<1>6. FinishedOK(X, v, R, B, K, F)
  BY <1>1 DEF FinishedOK
<1> QED
  BY <1>1, <1>3, <1>4, <1>5, <1>6 DEF RankOK, Related

\* What holds of all that was said holds of less.
LEMMA SaidLess ==
    ASSUME NEW S, NEW v, NEW R, NEW B, NEW K, NEW F, NEW L, NEW G,
           RankOK(S, v, R, B, K, F), L \subseteq K, G \subseteq F
    PROVE  RankOK(S, v, R, B, L, G)
BY DEF RankOK, Related, AckOK, UnknownOK, FinishedOK

\* A plan is delivered again, whatever became of its read.
LEMMA ReplaySaveSafe ==
    ASSUME NEW r, NEW S, NEW v, NEW R, NEW B, NEW K, NEW F, NEW u, NEW T, NEW D,
           NEW q \in Requests,
           Before(r, S, v, R, B, K, F), After(r, u, T, D), ReplaySave(r, q),
           plan[q] = "sent" => q \notin S.unsent
    PROVE  RankOK(S, u, T, D, K \cup Vouched(u), F)
<1>1. /\ S \in BooksRecord /\ K \in SUBSET Requests /\ F \in SUBSET Requests /\ Vouched(v) \subseteq K
      /\ RankOK(S, v, R, B, K, F) /\ S.mode = mode
  BY DEF Before
<1>2. /\ u = v /\ T = R /\ D = Append(B, [k |-> "save", q |-> q]) /\ mode = "jobs"
      /\ plan[q] = "sent" /\ \A i \in DOMAIN B : B[i].q # q
  BY DEF Before, After, ReplaySave
<1>3. K \cup Vouched(u) = K
  BY <1>1, <1>2
<1>4. RankOK(S, v, R, D, K, F)
  BY <1>1, <1>2, MessageKeeps
<1> QED
  BY <1>2, <1>3, <1>4

-----------------------------------------------------------------------------
(* A step of one rank: the scheduler and the other ranks do not notice *)

OnlyAt(r, f, g) == g = [p \in Ranks |-> g[p]] /\ \A p \in Ranks \ {r} : g[p] = f[p]
Local(r) ==
    /\ UNCHANGED scheduler
    /\ OnlyAt(r, w, w') /\ OnlyAt(r, ring, ring') /\ OnlyAt(r, inbox, inbox')

\* An update of one rank.
LEMMA OneRank ==
    ASSUME NEW f, f = [p \in Ranks |-> f[p]], NEW r \in Ranks, NEW g
    PROVE  /\ g = f => OnlyAt(r, f, g)
           /\ \A x : g = [f EXCEPT ![r] = x] => OnlyAt(r, f, g)
BY DEF OnlyAt

\* Every step of a rank is local, and only Report sends something to the scheduler.
LEMMA WorkerLocal ==
    ASSUME Scheduled, NEW r \in Ranks,
           EngineNext(r) \/ ThreadNext(r) \/ WriterNext(r) \/ ShutdownNext(r)
               \/ \E s \in Slots : GatherEnds(r, s)
    PROVE  Local(r) /\ (wire' = wire \/ Report(r))
<1>1. /\ w' = w => OnlyAt(r, w, w')
      /\ \A x : Become(r, x) => OnlyAt(r, w, w')
  <2>1. w = [p \in Ranks |-> w[p]]
    BY DEF Scheduled
  <2> QED
    BY <2>1, OneRank DEF Become
<1>2. /\ ring' = ring => OnlyAt(r, ring, ring')
      /\ \A x : ring' = [ring EXCEPT ![r] = x] => OnlyAt(r, ring, ring')
  <2>1. ring = [p \in Ranks |-> ring[p]]
    BY DEF Scheduled
  <2> QED
    BY <2>1, OneRank
<1>3. /\ inbox' = inbox => OnlyAt(r, inbox, inbox')
      /\ Consume(r) => OnlyAt(r, inbox, inbox')
      /\ \A x : inbox' = [inbox EXCEPT ![r] = x] => OnlyAt(r, inbox, inbox')
  <2>1. inbox = [p \in Ranks |-> inbox[p]]
    BY DEF Scheduled
  <2> QED
    BY <2>1, OneRank DEF Consume
<1>4. ASSUME SaveJob(r)
      PROVE  Local(r) /\ wire' = wire
  BY <1>1, <1>2, <1>3, <1>4 DEF Local, SaveJob
<1>5. ASSUME SaveJobRaises(r)
      PROVE  Local(r) /\ wire' = wire
  BY <1>1, <1>2, <1>3, <1>5 DEF Local, SaveJobRaises
<1>6. ASSUME SaveRequestFatal(r)
      PROVE  Local(r) /\ wire' = wire
  BY <1>1, <1>2, <1>3, <1>6 DEF Local, SaveRequestFatal
<1>7. ASSUME SkipSave(r)
      PROVE  Local(r) /\ wire' = wire
  BY <1>1, <1>2, <1>3, <1>7 DEF Local, SkipSave
<1>8. ASSUME NEW o, NEW running, SaveRequest(r, o, running)
      PROVE  Local(r) /\ wire' = wire
  BY <1>1, <1>2, <1>3, <1>8 DEF Local, SaveRequest, Submitting
<1>9. ASSUME NEW q, ReplaySave(r, q)
      PROVE  Local(r) /\ wire' = wire
  BY <1>1, <1>2, <1>3, <1>9 DEF Local, ReplaySave
<1>10. ASSUME HandlePreemption(r)
      PROVE  Local(r) /\ wire' = wire
  BY <1>1, <1>2, <1>3, <1>10 DEF Local, HandlePreemption
<1>11. ASSUME PreemptRequest(r)
      PROVE  Local(r) /\ wire' = wire
  BY <1>1, <1>2, <1>3, <1>11 DEF Local, PreemptRequest
<1>12. ASSUME PreemptRaises(r)
      PROVE  Local(r) /\ wire' = wire
  BY <1>1, <1>2, <1>3, <1>12 DEF Local, PreemptRaises
<1>13. ASSUME HandleFinished(r)
      PROVE  Local(r) /\ wire' = wire
  BY <1>1, <1>2, <1>3, <1>13 DEF Local, HandleFinished
<1>14. ASSUME Report(r)
      PROVE  Local(r) /\ Report(r)
  BY <1>1, <1>2, <1>3, <1>14 DEF Local, Report
<1>15. EngineNext(r) => Local(r) /\ (wire' = wire \/ Report(r))
  BY <1>4, <1>5, <1>6, <1>7, <1>8, <1>9, <1>10, <1>11, <1>12, <1>13, <1>14 DEF EngineNext
<1>16. ASSUME Wake(r)
      PROVE  Local(r) /\ wire' = wire
  BY <1>1, <1>2, <1>3, <1>16 DEF Local, Wake
<1>17. ASSUME CheckAgain(r)
      PROVE  Local(r) /\ wire' = wire
  BY <1>1, <1>2, <1>3, <1>17 DEF Local, CheckAgain
<1>18. ASSUME InsertPending(r)
      PROVE  Local(r) /\ wire' = wire
  BY <1>1, <1>2, <1>3, <1>18 DEF Local, InsertPending
<1>19. ASSUME UndoSubmit(r)
      PROVE  Local(r) /\ wire' = wire
  BY <1>1, <1>2, <1>3, <1>19 DEF Local, UndoSubmit
<1>20. ASSUME UndoFails(r)
      PROVE  Local(r) /\ wire' = wire
  BY <1>1, <1>2, <1>3, <1>20 DEF Local, UndoFails
<1>21. ASSUME EndSubmit(r)
      PROVE  Local(r) /\ wire' = wire
  BY <1>1, <1>2, <1>3, <1>21 DEF Local, EndSubmit
<1>22. ASSUME AllTaken(r)
      PROVE  Local(r) /\ wire' = wire
  BY <1>1, <1>2, <1>3, <1>22 DEF Local, AllTaken
<1>23. ASSUME PopPending(r)
      PROVE  Local(r) /\ wire' = wire
  BY <1>1, <1>2, <1>3, <1>23 DEF Local, PopPending
<1>24. ASSUME ProgressFails(r)
      PROVE  Local(r) /\ wire' = wire
  BY <1>1, <1>2, <1>3, <1>24 DEF Local, ProgressFails
<1>25. ASSUME AllPolled(r)
      PROVE  Local(r) /\ wire' = wire
  BY <1>1, <1>2, <1>3, <1>25 DEF Local, AllPolled
<1>26. ASSUME NEW o, NEW running, SubmitNative(r, o, running)
      PROVE  Local(r) /\ wire' = wire
  BY <1>1, <1>2, <1>3, <1>26 DEF Local, SubmitNative, Submitting
<1>27. ASSUME NEW q, TakeQueued(r, q)
      PROVE  Local(r) /\ wire' = wire
  BY <1>1, <1>2, <1>3, <1>27 DEF Local, TakeQueued
<1>28. ASSUME NEW q, PollNotReady(r, q)
      PROVE  Local(r) /\ wire' = wire
  BY <1>1, <1>2, <1>3, <1>28 DEF Local, PollNotReady
<1>29. ASSUME NEW q, ClaimReady(r, q)
      PROVE  Local(r) /\ wire' = wire
  BY <1>1, <1>2, <1>3, <1>29 DEF Local, ClaimReady
<1>30. ASSUME NEW q, DiscardReady(r, q)
      PROVE  Local(r) /\ wire' = wire
  BY <1>1, <1>2, <1>3, <1>30 DEF Local, DiscardReady
<1>31. ASSUME NEW q, DeliverReady(r, q)
      PROVE  Local(r) /\ wire' = wire
  BY <1>1, <1>2, <1>3, <1>31 DEF Local, DeliverReady
<1>32. ASSUME NEW q, RejectReady(r, q)
      PROVE  Local(r) /\ wire' = wire
  BY <1>1, <1>2, <1>3, <1>32 DEF Local, RejectReady
<1>33. ThreadNext(r) => Local(r) /\ wire' = wire
  BY <1>16, <1>17, <1>18, <1>19, <1>20, <1>21, <1>22, <1>23, <1>24, <1>25, <1>26, <1>27, <1>28,
     <1>29, <1>30, <1>31, <1>32 DEF ThreadNext
<1>34. ASSUME TakeStore(r)
      PROVE  Local(r) /\ wire' = wire
  BY <1>1, <1>2, <1>3, <1>34 DEF Local, TakeStore
<1>35. ASSUME ReleaseView(r)
      PROVE  Local(r) /\ wire' = wire
  BY <1>1, <1>2, <1>3, <1>35 DEF Local, ReleaseView
<1>36. ASSUME NEW ok, CommitStore(r, ok)
      PROVE  Local(r) /\ wire' = wire
  BY <1>1, <1>2, <1>3, <1>36 DEF Local, CommitStore
<1>37. ASSUME Quiesce(r)
      PROVE  Local(r) /\ wire' = wire
  BY <1>1, <1>2, <1>3, <1>37 DEF Local, Quiesce
<1>38. ASSUME JoinThread(r)
      PROVE  Local(r) /\ wire' = wire
  BY <1>1, <1>2, <1>3, <1>38 DEF Local, JoinThread
<1>39. ASSUME StopStores(r)
      PROVE  Local(r) /\ wire' = wire
  BY <1>1, <1>2, <1>3, <1>39 DEF Local, StopStores
<1>40. ASSUME ShutdownRuntime(r)
      PROVE  Local(r) /\ wire' = wire
  BY <1>1, <1>2, <1>3, <1>40 DEF Local, ShutdownRuntime
<1>41. ASSUME ShutdownRaises(r)
      PROVE  Local(r) /\ wire' = wire
  BY <1>1, <1>2, <1>3, <1>41 DEF Local, ShutdownRaises
<1>42. ASSUME NEW q, QuiesceDrains(r, q)
      PROVE  Local(r) /\ wire' = wire
  BY <1>1, <1>2, <1>3, <1>42 DEF Local, QuiesceDrains
<1>43. ASSUME NEW q, QuiesceRaises(r, q)
      PROVE  Local(r) /\ wire' = wire
  BY <1>1, <1>2, <1>3, <1>43 DEF Local, QuiesceRaises
<1>44. ASSUME NEW s, GatherEnds(r, s)
      PROVE  Local(r) /\ wire' = wire
  BY <1>1, <1>2, <1>3, <1>44 DEF Local, GatherEnds
<1>45. WriterNext(r) \/ ShutdownNext(r) \/ (\E s \in Slots : GatherEnds(r, s)) => Local(r) /\ wire' = wire
  BY <1>34, <1>35, <1>36, <1>37, <1>38, <1>39, <1>40, <1>41, <1>42, <1>43, <1>44 DEF WriterNext,
     ShutdownNext
<1> QED
  BY <1>15, <1>33, <1>45

\* What a step of a rank other than Report does to it.
LEMMA WorkerSafe ==
    ASSUME NEW r, NEW S, NEW v, NEW R, NEW B, NEW K, NEW F, NEW u, NEW T, NEW D,
           Before(r, S, v, R, B, K, F), After(r, u, T, D),
           \A q \in Requests : plan[q] = "sent" => q \notin S.unsent,
           EngineNext(r) \/ ThreadNext(r) \/ WriterNext(r) \/ ShutdownNext(r)
               \/ \E s \in Slots : GatherEnds(r, s)
    PROVE  \/ RankOK(S, u, T, D, K \cup Vouched(u), F)
           \/ Report(r) /\ RankOK(S, u, T, D, K \cup Vouched(u), F \cup Reported(v))
<1> DEFINE Safe == RankOK(S, u, T, D, K \cup Vouched(u), F)
<1>1. ASSUME EngineNext(r)
      PROVE  Safe \/ (Report(r) /\ RankOK(S, u, T, D, K \cup Vouched(u), F \cup Reported(v)))
  <2>1. SaveJob(r) \/ SaveJobRaises(r) \/ SaveRequestFatal(r) \/ SkipSave(r) => Safe
    BY SaveJobSafe, SaveJobRaisesSafe, SaveRequestFatalSafe, SkipSaveSafe
  <2>2. ASSUME NEW o \in {"ok", "full", "refused", "drained", "uncertain"}, NEW running \in BOOLEAN,
               SaveRequest(r, o, running)
        PROVE  Safe
    BY <2>2, SaveRequestSafe
  <2>3. ASSUME NEW q \in Requests, ReplaySave(r, q)
        PROVE  Safe
    BY <2>3, ReplaySaveSafe
  <2>4. HandlePreemption(r) \/ PreemptRequest(r) \/ PreemptRaises(r) \/ HandleFinished(r) => Safe
    BY HandlePreemptionSafe, PreemptRequestSafe, PreemptRaisesSafe, HandleFinishedSafe
  <2>5. Report(r) => RankOK(S, u, T, D, K \cup Vouched(u), F \cup Reported(v))
    BY ReportSafe
  <2> HIDE DEF Safe
  <2> QED
    BY <1>1, <2>1, <2>2, <2>3, <2>4, <2>5 DEF EngineNext
<1>2. ASSUME ThreadNext(r)
      PROVE  Safe
  <2>1. Wake(r) \/ CheckAgain(r) \/ InsertPending(r) \/ UndoSubmit(r) \/ UndoFails(r) => Safe
    BY WakeSafe, CheckAgainSafe, InsertPendingSafe, UndoSubmitSafe, UndoFailsSafe
  <2>2. EndSubmit(r) \/ AllTaken(r) \/ PopPending(r) \/ ProgressFails(r) \/ AllPolled(r) => Safe
    BY EndSubmitSafe, AllTakenSafe, PopPendingSafe, ProgressFailsSafe, AllPolledSafe
  <2>3. ASSUME NEW o \in {"ok", "full", "refused", "drained", "uncertain"}, NEW running \in BOOLEAN,
               SubmitNative(r, o, running)
        PROVE  Safe
    BY <2>3, SubmitNativeSafe
  <2>4. ASSUME NEW q \in Requests,
               \/ TakeQueued(r, q) \/ PollNotReady(r, q) \/ ClaimReady(r, q)
               \/ DiscardReady(r, q) \/ DeliverReady(r, q) \/ RejectReady(r, q)
        PROVE  Safe
    <3>1. TakeQueued(r, q) \/ PollNotReady(r, q) \/ ClaimReady(r, q) => Safe
      BY TakeQueuedSafe, PollNotReadySafe, ClaimReadySafe
    <3>2. DiscardReady(r, q) \/ RejectReady(r, q) => Safe
      BY GiveUpReadySafe
    <3>3. DeliverReady(r, q) => Safe
      BY DeliverReadySafe
    <3> HIDE DEF Safe
    <3> QED
      BY <2>4, <3>1, <3>2, <3>3
  <2> HIDE DEF Safe
  <2> QED
    BY <1>2, <2>1, <2>2, <2>3, <2>4 DEF ThreadNext
<1>3. ASSUME WriterNext(r) \/ ShutdownNext(r) \/ \E s \in Slots : GatherEnds(r, s)
      PROVE  Safe
  <2>1. TakeStore(r) \/ ReleaseView(r) \/ Quiesce(r) \/ JoinThread(r) => Safe
    BY TakeStoreSafe, ReleaseViewSafe, QuiesceSafe, JoinThreadSafe
  <2>2. ASSUME NEW ok \in BOOLEAN, CommitStore(r, ok)
        PROVE  Safe
    BY <2>2, CommitStoreSafe
  <2>3. ASSUME NEW q, \/ StopStores(r) \/ ShutdownRuntime(r) \/ ShutdownRaises(r)
                      \/ QuiesceRaises(r, q)
        PROVE  Safe
    BY <2>3, StopSafe
  <2>4. ASSUME NEW q \in Requests, QuiesceDrains(r, q)
        PROVE  Safe
    BY <2>4, QuiesceDrainsSafe
  <2>5. ASSUME NEW s \in Slots, GatherEnds(r, s)
        PROVE  Safe
    BY <2>5, GatherEndsSafe
  <2> HIDE DEF Safe
  <2> QED
    BY <1>3, <2>1, <2>2, <2>3, <2>4, <2>5 DEF WriterNext, ShutdownNext
<1> QED
  BY <1>1, <1>2, <1>3

\* The scheduler's books are what the invariant of a rank takes them for.
LEMMA BooksType ==
    ASSUME Scheduled
    PROVE  /\ Books \in BooksRecord /\ Books.mode = mode /\ Books.job = job
           /\ Books.unsent = {q \in Requests : plan[q] # "sent"}
           /\ Books.alive = {q \in Requests : req[q] \in {"new", "run", "out"}}
           /\ Books.given = {q \in Requests : mode = "requests" /\ plan[q] = "sent" /\ q \notin own}
<1>1. mode \in {"jobs", "requests"}
  BY CaptureConstants DEF Scheduled
<1> QED
  BY <1>1 DEF Scheduled, Books, BooksRecord

\* The invariant gives each rank what its lemmas assume.
LEMMA RankBefore ==
    ASSUME IInv, NEW r \in Ranks
    PROVE  Before(r, Books, w[r], ring[r], inbox[r], Acks(r), Ends(r))
<1>1. RankOK(Books, w[r], ring[r], inbox[r], Acks(r), Ends(r))
  BY DEF IInv, RanksOK
<1>2. Acks(r) \in SUBSET Requests /\ Ends(r) \in SUBSET Requests
  BY DEF Acks, Ends
<1>3. Vouched(w[r]) \subseteq Acks(r)
  BY <1>1 DEF RankOK, WorkerRecord, Acks, Vouched
<1> QED
  BY <1>1, <1>2, <1>3, BooksType DEF IInv, Scheduled, Before

\* From v to u no store is forgotten that was answered without a look at its read.
Kept(v, u) == "waived" \in DOMAIN v => "waived" \in DOMAIN u /\ v.waived \subseteq u.waived

LEMMA KeptHelpers ==
    /\ \A v, u, x : Kept(v, u) /\ Kept(u, x) => Kept(v, x)
    /\ \A v, Q : Kept(v, MarkCompleted(v, Q)) /\ Kept(v, Deliver(v, Q))
    /\ \A v, q : Kept(v, AbortCapture(v, q)) /\ Kept(v, Retire(v, q)) /\ Kept(v, Waive(v, q))
                 /\ Kept(v, Abandoned(v, q))
    /\ \A v, pc : Kept(v, Go(v, pc))
    /\ \A v, q, R : Kept(v, Issue(v, q, R))
<1>1. \A v, u, x : Kept(v, u) /\ Kept(u, x) => Kept(v, x)
  BY DEF Kept
<1>2. \A v, Q : Kept(v, MarkCompleted(v, Q))
  BY DEF Kept, MarkCompleted
<1>3. \A v, pc : Kept(v, Go(v, pc))
  BY DEF Kept, Go
<1>4. \A v, Q : Kept(v, Deliver(v, Q))
  <2>1. ASSUME NEW v, NEW Q
        PROVE  Kept(v, Deliver(v, Q))
    <3>1. PICK u : u = [v EXCEPT !.ready = @ \ Q, !.abandoned = @ \ Q]
      OBVIOUS
    <3>2. Kept(v, u)
      BY <3>1 DEF Kept
    <3>3. Kept(u, [u EXCEPT !.thr = Idle]) /\ Kept(u, Go(u, "ready"))
      BY <1>3 DEF Kept
    <3>4. Deliver(v, Q) = [u EXCEPT !.thr = Idle] \/ Deliver(v, Q) = Go(u, "ready")
      BY <3>1 DEF Deliver
    <3> QED
      BY <1>1, <3>2, <3>3, <3>4
  <2> QED
    BY <2>1
<1>5. \A v, q : Kept(v, AbortCapture(v, q))
  BY DEF Kept, AbortCapture, FinishStore
<1>6. \A v, q : Kept(v, Retire(v, q))
  BY DEF Kept, Retire
<1>7. \A v, q : Kept(v, Waive(v, q))
  <2>1. ASSUME NEW v, NEW q
        PROVE  Kept(v, Waive(v, q))
    <3>1. PICK u : u = MarkCompleted(v, {q})
      OBVIOUS
    <3>2. Waive(v, q) = [u EXCEPT !.waived = @ \cup {q}]
      BY <3>1 DEF Waive
    <3>3. Kept(u, Waive(v, q))
      BY <3>2 DEF Kept
    <3> QED
      BY <1>1, <1>2, <3>1, <3>3
  <2> QED
    BY <2>1
<1>8. \A v, q : Kept(v, Abandoned(v, q))
  <2>1. ASSUME NEW v, NEW q
        PROVE  Kept(v, Abandoned(v, q))
    <3>1. \/ Abandoned(v, q) = v
          \/ Abandoned(v, q) = [v EXCEPT !.cancelled = @ \cup {q}, !.wake = TRUE]
          \/ Abandoned(v, q) = [v EXCEPT !.abandoned = @ \cup {q}, !.wake = TRUE]
      BY DEF Abandoned
    <3>2. /\ Kept(v, v) /\ Kept(v, [v EXCEPT !.cancelled = @ \cup {q}, !.wake = TRUE])
          /\ Kept(v, [v EXCEPT !.abandoned = @ \cup {q}, !.wake = TRUE])
      BY DEF Kept
    <3> QED
      BY <3>1, <3>2
  <2> QED
    BY <2>1
<1>9. \A v, q, R : Kept(v, Issue(v, q, R))
  BY DEF Kept, Issue
<1> QED
  BY <1>1, <1>2, <1>3, <1>4, <1>5, <1>6, <1>7, <1>8, <1>9

\* No step takes back that a store was answered without a look at its read.
LEMMA WaivedGrows ==
    ASSUME NEW r \in Ranks, w = [p \in Ranks |-> w[p]], w[r] \in WorkerRecord,
           EngineNext(r) \/ ThreadNext(r) \/ WriterNext(r) \/ ShutdownNext(r)
               \/ \E s \in Slots : GatherEnds(r, s)
    PROVE  w[r].waived \subseteq w'[r].waived
<1> DEFINE Grows == w[r].waived \subseteq w'[r].waived
<1>1. (\A x : Become(r, x) => w'[r] = x) /\ (w' = w => w'[r] = w[r])
  BY DEF Become
<1>2. DOMAIN w[r] = DOMAIN NewWorker
  BY DEF WorkerRecord, NewWorker
<1>0. Kept(w[r], w'[r]) => Grows
  BY <1>2 DEF Kept, NewWorker
<1>3. ASSUME SaveJob(r)
      PROVE  Grows
  BY <1>1, <1>2, <1>3 DEF NewWorker, SaveJob, SubmitJob, MarkCompleted, AbortCapture, FinishStore
<1>4. ASSUME SaveJobRaises(r)
      PROVE  Grows
  <2>1. PICK q, x : /\ x = Abandoned(w[r], q) \/ x = Waive(w[r], q)
                    /\ w'[r] = AbortCapture(x, q)
    BY <1>1, <1>4 DEF SaveJobRaises
  <2> QED
    BY <1>0, <2>1, KeptHelpers
<1>5. ASSUME SaveRequestFatal(r)
      PROVE  Grows
  <2>1. PICK q : w'[r] = AbortCapture(w[r], q)
    BY <1>1, <1>5 DEF SaveRequestFatal
  <2> QED
    BY <1>0, <2>1, KeptHelpers
<1>6. ASSUME SkipSave(r)
      PROVE  Grows
  BY <1>1, <1>2, <1>6 DEF NewWorker, SkipSave, Waive, MarkCompleted
<1>7. ASSUME NEW o, NEW running, SaveRequest(r, o, running)
      PROVE  Grows
  <2>1. PICK q, x : x = [w[r] EXCEPT !.inflight = TRUE, !.ended = @ \ {q}, !.completed = @ \ {q}]
                    /\ Become(r, CASE o = "ok" ->
                                        Issue([x EXCEPT !.pending = @ \cup {q}, !.wake = TRUE], q, ring'[r])
                                   [] o = "uncertain" -> AbortCapture(Waive(x, q), q)
                                   [] OTHER -> AbortCapture(MarkCompleted(x, {q}), q))
    BY <1>7 DEF SaveRequest
  <2>2. PICK y : y = [x EXCEPT !.pending = @ \cup {q}, !.wake = TRUE]
    OBVIOUS
  <2>3. Kept(w[r], x) /\ Kept(x, y)
    BY <2>1, <2>2 DEF Kept
  <2>4. \/ w'[r] = Issue(y, q, ring'[r])
        \/ w'[r] = AbortCapture(Waive(x, q), q)
        \/ w'[r] = AbortCapture(MarkCompleted(x, {q}), q)
    BY <1>1, <2>1, <2>2
  <2>5. Kept(w[r], y)
    BY <2>3, KeptHelpers
  <2>6. CASE w'[r] = Issue(y, q, ring'[r])
    BY <1>0, <2>5, <2>6, KeptHelpers
  <2>7. CASE w'[r] = AbortCapture(Waive(x, q), q)
    BY <1>0, <2>3, <2>7, KeptHelpers
  <2>8. CASE w'[r] = AbortCapture(MarkCompleted(x, {q}), q)
    BY <1>0, <2>3, <2>8, KeptHelpers
  <2> QED
    BY <2>4, <2>6, <2>7, <2>8
<1>8. ASSUME NEW q, ReplaySave(r, q)
      PROVE  Grows
  BY <1>1, <1>2, <1>8 DEF NewWorker, ReplaySave
<1>9. ASSUME HandlePreemption(r)
      PROVE  Grows
  BY <1>1, <1>2, <1>9 DEF NewWorker, HandlePreemption, Abandoned
<1>10. ASSUME PreemptRequest(r)
      PROVE  Grows
  BY <1>1, <1>2, <1>10 DEF NewWorker, PreemptRequest, Retire, MarkCompleted, AbortCapture,
     FinishStore
<1>11. ASSUME PreemptRaises(r)
      PROVE  Grows
  BY <1>1, <1>2, <1>11 DEF NewWorker, PreemptRaises
<1>12. ASSUME HandleFinished(r)
      PROVE  Grows
  BY <1>1, <1>2, <1>12 DEF NewWorker, HandleFinished
<1>13. ASSUME Report(r)
      PROVE  Grows
  BY <1>1, <1>2, <1>13 DEF NewWorker, Report
<1>14. EngineNext(r) => Grows
  BY <1>3, <1>4, <1>5, <1>6, <1>7, <1>8, <1>9, <1>10, <1>11, <1>12, <1>13 DEF EngineNext
<1>15. ASSUME Wake(r)
      PROVE  Grows
  BY <1>1, <1>2, <1>15 DEF NewWorker, Wake, Go
<1>16. ASSUME CheckAgain(r)
      PROVE  Grows
  BY <1>1, <1>2, <1>16 DEF NewWorker, CheckAgain, Go, MarkCompleted, AbortCapture, FinishStore
<1>17. ASSUME InsertPending(r)
      PROVE  Grows
  BY <1>1, <1>2, <1>17 DEF NewWorker, InsertPending, Go
<1>18. ASSUME UndoSubmit(r)
      PROVE  Grows
  BY <1>1, <1>2, <1>18 DEF NewWorker, UndoSubmit, Go, MarkCompleted, AbortCapture, FinishStore
<1>19. ASSUME UndoFails(r)
      PROVE  Grows
  BY <1>1, <1>2, <1>19 DEF NewWorker, UndoFails, Go, AbortCapture, FinishStore
<1>20. ASSUME EndSubmit(r)
      PROVE  Grows
  BY <1>1, <1>2, <1>20 DEF NewWorker, EndSubmit, Go
<1>21. ASSUME AllTaken(r)
      PROVE  Grows
  BY <1>1, <1>2, <1>21 DEF NewWorker, AllTaken, Go
<1>22. ASSUME PopPending(r)
      PROVE  Grows
  <2>1. PICK q, v : q = w[r].thr.q /\ v = [w[r] EXCEPT !.pending = @ \ {q}, !.thr.q = NoRequest]
    OBVIOUS
  <2>a. PICK u : u = IF q \in w[r].pending
                     THEN [MarkCompleted(v, {q}) EXCEPT !.ready = @ \cup {q}] ELSE v
    OBVIOUS
  <2>b. w'[r] = Go([u EXCEPT !.wake = @ /\ ~Stopped(u)], "poll")
    BY <1>1, <1>22, <2>1, <2>a DEF PopPending
  <2>2. /\ u = v \/ u = [MarkCompleted(v, {q}) EXCEPT !.ready = @ \cup {q}]
        /\ w'[r] = Go([u EXCEPT !.wake = @ /\ ~Stopped(u)], "poll")
    BY <2>a, <2>b
  <2>3. PICK y : y = [u EXCEPT !.wake = @ /\ ~Stopped(u)]
    OBVIOUS
  <2>4. PICK x : x = MarkCompleted(v, {q})
    OBVIOUS
  <2>5. Kept(w[r], v) /\ Kept(v, x) /\ Kept(u, y)
    <3>1. Kept(w[r], v)
      BY <2>1 DEF Kept
    <3>2. Kept(v, x)
      BY <2>4, KeptHelpers
    <3>3. Kept(u, y)
      BY <2>3 DEF Kept
    <3> QED
      BY <3>1, <3>2, <3>3
  <2>6. Kept(x, [x EXCEPT !.ready = @ \cup {q}]) /\ Kept(v, v)
    BY DEF Kept
  <2>7. Kept(v, u)
    BY <2>2, <2>4, <2>5, <2>6, KeptHelpers
  <2>8. Kept(y, w'[r])
    BY <2>2, <2>3, KeptHelpers
  <2> QED
    BY <1>0, <2>5, <2>7, <2>8, KeptHelpers
<1>23. ASSUME ProgressFails(r)
      PROVE  Grows
  <2>1. PICK u : u = [w[r] EXCEPT !.fatal = TRUE, !.queued = {},
                                  !.inflight = @ /\ w[r].pending = {} /\ w[r].queued = {},
                                  !.held = @ \ (w[r].pending \cup w[r].queued),
                                  !.thr = [Idle EXCEPT !.pc = "dead"]]
    OBVIOUS
  <2>2. PICK x : x = [u EXCEPT !.failed = @ \cup w[r].pending \cup w[r].submitting,
                               !.uncertain = @ \cup w[r].pending \cup w[r].submitting]
    OBVIOUS
  <2>3. w'[r] = MarkCompleted(x, w[r].queued) \/ w'[r] = u
    BY <1>1, <1>23, <2>1, <2>2 DEF ProgressFails
  <2>4. Kept(w[r], u)
    BY <2>1 DEF Kept
  <2>5. Kept(u, x)
    BY <2>2 DEF Kept
  <2> QED
    BY <1>0, <2>3, <2>4, <2>5, KeptHelpers
<1>24. ASSUME AllPolled(r)
      PROVE  Grows
  <2>1. PICK x : x = [w[r] EXCEPT !.wake = @ /\ ~Stopped(w[r])]
    OBVIOUS
  <2>2. w'[r] = Deliver(x, {})
    BY <1>1, <1>24, <2>1 DEF AllPolled
  <2>3. Kept(w[r], x)
    BY <2>1 DEF Kept
  <2> QED
    BY <1>0, <2>2, <2>3, KeptHelpers
<1>25. ASSUME NEW o, NEW running, SubmitNative(r, o, running)
      PROVE  Grows
  BY <1>1, <1>2, <1>25 DEF NewWorker, SubmitNative, Go, Issue, MarkCompleted, AbortCapture,
     FinishStore
<1>26. ASSUME NEW q, TakeQueued(r, q)
      PROVE  Grows
  <2>1. PICK v : v = [w[r] EXCEPT !.queued = @ \ {q}, !.submitting = @ \cup {q}, !.thr.q = q]
    OBVIOUS
  <2>2. \/ w'[r] = Go(AbortCapture(MarkCompleted(v, {q}), q), "finally")
        \/ w'[r] = Go(v, "check")
    BY <1>1, <1>26, <2>1 DEF TakeQueued
  <2>3. Kept(w[r], v)
    BY <2>1 DEF Kept
  <2>4. PICK x, y : x = MarkCompleted(v, {q}) /\ y = AbortCapture(x, q)
    OBVIOUS
  <2>5. Kept(v, x) /\ Kept(x, y) /\ Kept(y, Go(y, "finally")) /\ Kept(v, Go(v, "check"))
    BY <2>4, KeptHelpers
  <2> QED
    BY <1>0, <2>2, <2>3, <2>4, <2>5, KeptHelpers
<1>27. ASSUME NEW q, PollNotReady(r, q)
      PROVE  Grows
  BY <1>1, <1>2, <1>27 DEF NewWorker, PollNotReady
<1>28. ASSUME NEW q, ClaimReady(r, q)
      PROVE  Grows
  BY <1>1, <1>2, <1>28 DEF NewWorker, ClaimReady, Go
<1>29. ASSUME NEW q, DiscardReady(r, q)
      PROVE  Grows
  <2>1. w'[r] = AbortCapture(Retire(Deliver(w[r], {q}), q), q)
    BY <1>1, <1>29 DEF DiscardReady
  <2>2. PICK x, y : x = Deliver(w[r], {q}) /\ y = Retire(x, q)
    OBVIOUS
  <2>3. Kept(w[r], x) /\ Kept(x, y) /\ Kept(y, w'[r])
    BY <2>1, <2>2, KeptHelpers
  <2> QED
    BY <1>0, <2>3, KeptHelpers
<1>30. ASSUME NEW q, DeliverReady(r, q)
      PROVE  Grows
  BY <1>1, <1>2, <1>30 DEF NewWorker, DeliverReady, Deliver, Go
<1>31. ASSUME NEW q, RejectReady(r, q)
      PROVE  Grows
  <2>1. w'[r] = AbortCapture(Retire(Deliver(w[r], {q}), q), q)
    BY <1>1, <1>31 DEF RejectReady
  <2>2. PICK x, y : x = Deliver(w[r], {q}) /\ y = Retire(x, q)
    OBVIOUS
  <2>3. Kept(w[r], x) /\ Kept(x, y) /\ Kept(y, w'[r])
    BY <2>1, <2>2, KeptHelpers
  <2> QED
    BY <1>0, <2>3, KeptHelpers
<1>32. ThreadNext(r) => Grows
  BY <1>15, <1>16, <1>17, <1>18, <1>19, <1>20, <1>21, <1>22, <1>23, <1>24, <1>25, <1>26, <1>27,
     <1>28, <1>29, <1>30, <1>31 DEF ThreadNext
<1>33. ASSUME TakeStore(r)
      PROVE  Grows
  BY <1>1, <1>2, <1>33 DEF NewWorker, TakeStore
<1>34. ASSUME ReleaseView(r)
      PROVE  Grows
  BY <1>1, <1>2, <1>34 DEF NewWorker, ReleaseView, Retire
<1>35. ASSUME NEW ok, CommitStore(r, ok)
      PROVE  Grows
  BY <1>1, <1>2, <1>35 DEF NewWorker, CommitStore, FinishStore
<1>36. WriterNext(r) => Grows
  BY <1>33, <1>34, <1>35 DEF WriterNext
<1>37. ASSUME Quiesce(r)
      PROVE  Grows
  BY <1>1, <1>2, <1>37 DEF NewWorker, Quiesce
<1>38. ASSUME JoinThread(r)
      PROVE  Grows
  <2>1. PICK x : x = [w[r] EXCEPT !.eng = "drain", !.draining = w[r].pending, !.pending = {},
                                  !.queued = {}, !.held = @ \ w[r].queued,
                                  !.inflight = @ /\ w[r].queued = {}]
    OBVIOUS
  <2>2. w'[r] = MarkCompleted(x, w[r].queued)
    BY <1>1, <1>38, <2>1 DEF JoinThread
  <2>3. Kept(w[r], x)
    BY <2>1 DEF Kept
  <2> QED
    BY <1>0, <2>2, <2>3, KeptHelpers
<1>39. ASSUME StopStores(r)
      PROVE  Grows
  BY <1>1, <1>2, <1>39 DEF NewWorker, StopStores
<1>40. ASSUME ShutdownRuntime(r)
      PROVE  Grows
  BY <1>1, <1>2, <1>40 DEF NewWorker, ShutdownRuntime
<1>41. ASSUME ShutdownRaises(r)
      PROVE  Grows
  BY <1>1, <1>2, <1>41 DEF NewWorker, ShutdownRaises
<1>42. ASSUME NEW q, QuiesceDrains(r, q)
      PROVE  Grows
  BY <1>1, <1>2, <1>42 DEF NewWorker, QuiesceDrains, Retire, MarkCompleted, AbortCapture,
     FinishStore
<1>43. ASSUME NEW q, QuiesceRaises(r, q)
      PROVE  Grows
  BY <1>1, <1>2, <1>43 DEF NewWorker, QuiesceRaises
<1>44. ShutdownNext(r) => Grows
  BY <1>37, <1>38, <1>39, <1>40, <1>41, <1>42, <1>43 DEF ShutdownNext
<1>45. (\E s \in Slots : GatherEnds(r, s)) => Grows
  BY <1>1 DEF GatherEnds
<1> QED
  BY <1>14, <1>32, <1>36, <1>44, <1>45

\* A step of rank r tells the scheduler no more than it had acknowledged or completed.
LEMMA WorkerSays ==
    ASSUME IInv, NEW r \in Ranks, Local(r), wire' = wire \/ Report(r), NEW p \in Ranks,
           w[p].waived \subseteq w'[p].waived
    PROVE  /\ Acks(p)' \subseteq Acks(p) \cup Vouched(w'[p])
           /\ Ends(p)' \subseteq Ends(p) \cup (IF p = r /\ Report(r) THEN Reported(w[r]) ELSE {})
<1>1. lease' = lease /\ finishedBy' = finishedBy
  BY DEF Local, scheduler
<1>2. CASE wire' = wire
  BY <1>1, <1>2 DEF Acks, Ends, Vouched
<1>3. CASE Report(r)
  <2>1. PICK m : /\ m = [rank |-> r, done |-> w[r].done, uncertain |-> w[r].uncertain,
                         finished |-> Reported(w[r])]
                 /\ wire' = wire \cup {m}
    BY <1>3 DEF Report
  <2>2. m.rank = r /\ m.done = w[r].done /\ m.finished = Reported(w[r])
    BY <2>1
  <2>3. Vouched(w[r]) \subseteq Acks(r)
    BY RankBefore DEF Before
  <2>4. Acks(p)' = {q \in Requests \ w'[p].waived : q \in w'[p].done \/ p \in lease[q].ranks
                                       \/ \E n \in wire' : n.rank = p /\ q \in n.done}
    BY <1>1 DEF Acks
  <2>5. Ends(p)' = {q \in Requests : p \in finishedBy[q] \/ \E n \in wire' : n.rank = p /\ q \in n.finished}
    BY <1>1 DEF Ends
  <2>6. Acks(p)' \subseteq Acks(p) \cup Vouched(w'[p])
    BY <2>1, <2>2, <2>3, <2>4 DEF Acks, Vouched
  <2>7. Ends(p)' \subseteq Ends(p) \cup (IF p = r THEN Reported(w[r]) ELSE {})
    BY <2>1, <2>2, <2>5 DEF Ends
  <2> QED
    BY <1>3, <2>6, <2>7
<1> QED
  BY <1>2, <1>3

\* The invariant survives every step of a rank.
LEMMA WorkerStep ==
    ASSUME IInv, NEW r \in team.ranks,
           EngineNext(r) \/ ThreadNext(r) \/ WriterNext(r) \/ ShutdownNext(r)
               \/ \E s \in Slots : GatherEnds(r, s)
    PROVE  IInv'
<1>1. r \in Ranks /\ team.ranks \subseteq Ranks
  BY CaptureConstants DEF IInv, Scheduled
<1>2. Local(r) /\ (wire' = wire \/ Report(r))
  BY <1>1, WorkerLocal DEF IInv
<1>3. /\ team' = team /\ mode' = mode /\ req' = req /\ plan' = plan /\ own' = own /\ lease' = lease
      /\ disabled' = disabled /\ sequence' = sequence /\ job' = job /\ eligible' = eligible
      /\ finishedBy' = finishedBy /\ reserved' = reserved
  BY <1>2 DEF Local, scheduler
<1>4. Books' = Books
  BY <1>3 DEF Books
<1>5. \A q \in Requests : plan[q] = "sent" => q \notin Books.unsent
  BY BooksType DEF IInv
<1>6. \/ RankOK(Books, w'[r], ring'[r], inbox'[r], Acks(r) \cup Vouched(w'[r]), Ends(r))
      \/ Report(r) /\ RankOK(Books, w'[r], ring'[r], inbox'[r], Acks(r) \cup Vouched(w'[r]),
                             Ends(r) \cup Reported(w[r]))
  <2>1. Before(r, Books, w[r], ring[r], inbox[r], Acks(r), Ends(r))
    BY <1>1, RankBefore
  <2>2. After(r, w'[r], ring'[r], inbox'[r])
    BY DEF After
  <2> QED
    BY <1>5, <2>1, <2>2, WorkerSafe
<1>7. RankOK(Books, w'[r], ring'[r], inbox'[r], Acks(r)', Ends(r)')
  <2>0. w[r].waived \subseteq w'[r].waived
    BY <1>1, WaivedGrows DEF IInv, Scheduled, RanksOK, RankOK
  <2>1. Acks(r)' \subseteq Acks(r) \cup Vouched(w'[r])
    BY <1>1, <1>2, <2>0, WorkerSays
  <2>2. Ends(r)' \subseteq Ends(r) \cup (IF Report(r) THEN Reported(w[r]) ELSE {})
    BY <1>1, <1>2, <2>0, WorkerSays
  <2>3. Report(r) => RankOK(Books, w'[r], ring'[r], inbox'[r], Acks(r) \cup Vouched(w'[r]),
                            Ends(r) \cup Reported(w[r]))
    BY <1>1, RankBefore, ReportSafe DEF After
  <2> QED
    BY <1>6, <2>1, <2>2, <2>3, SaidLess
<1>8. ASSUME NEW p \in Ranks, p # r
      PROVE  RankOK(Books, w'[p], ring'[p], inbox'[p], Acks(p)', Ends(p)')
  <2>1. w'[p] = w[p] /\ ring'[p] = ring[p] /\ inbox'[p] = inbox[p]
    BY <1>2, <1>8 DEF Local, OnlyAt
  <2>2. Acks(p)' \subseteq Acks(p) /\ Ends(p)' \subseteq Ends(p)
    <3>1. Vouched(w[p]) \subseteq Acks(p)
      BY RankBefore DEF Before
    <3> QED
      BY <1>1, <1>2, <1>8, <2>1, <3>1, WorkerSays
  <2>3. RankOK(Books, w[p], ring[p], inbox[p], Acks(p), Ends(p))
    BY DEF IInv, RanksOK
  <2> QED
    BY <2>1, <2>2, <2>3, SaidLess
<1>9. RanksOK'
  BY <1>4, <1>7, <1>8 DEF RanksOK
<1>10. LeasesOK'
  BY <1>3 DEF IInv, LeasesOK
<1>11. Scheduled'
  <2>1. wire' \subseteq Output /\ \A m \in wire' : m.rank \in team.ranks
    <3>1. CASE wire' = wire
      BY <3>1 DEF IInv, Scheduled
    <3>2. CASE Report(r)
      <4>1. w[r] \in WorkerRecord
        BY <1>1 DEF IInv, RanksOK, RankOK
      <4>2. PICK m : /\ m = [rank |-> r, done |-> w[r].done, uncertain |-> w[r].uncertain,
                             finished |-> Reported(w[r])]
                     /\ wire' = wire \cup {m}
        BY <3>2 DEF Report
      <4>3. Reported(w[r]) \in SUBSET Requests
        BY <4>1 DEF Reported, WorkerRecord
      <4>4. m \in Output /\ m.rank = r
        BY <1>1, <4>1, <4>2, <4>3 DEF Output, WorkerRecord
      <4> QED
        BY <4>2, <4>4 DEF IInv, Scheduled
    <3> QED
      BY <1>2, <3>1, <3>2
  <2>2. /\ w' = [p \in Ranks |-> w'[p]] /\ ring' = [p \in Ranks |-> ring'[p]]
        /\ inbox' = [p \in Ranks |-> inbox'[p]]
    BY <1>2 DEF Local, OnlyAt
  <2>3. \A p \in Ranks \ team.ranks : w'[p] = NewWorker /\ ring'[p] = NewRing /\ inbox'[p] = <<>>
    BY <1>2 DEF Local, OnlyAt, IInv, Scheduled
  <2> QED
    BY <1>3, <2>1, <2>2, <2>3 DEF IInv, Scheduled
<1> QED
  BY <1>9, <1>10, <1>11 DEF IInv

-----------------------------------------------------------------------------
(* The steps of the scheduler *)

\* A rank outside the deployment has an idle worker, an empty ring and no messages.
LEMMA IdleRank ==
    ASSUME Scheduled, NEW r \in Ranks \ team.ranks
    PROVE  \A q : ~Has(inbox[r], "save", q) /\ ~Reads(ring[r], q)
BY DEF Scheduled, Has, Reads, NewRing

\* Send adds the message to the inboxes of the deployment.
LEMMA SendOnly ==
    ASSUME Scheduled, NEW k, NEW q, Send(k, q)
    PROVE  /\ inbox' = [r \in Ranks |-> inbox'[r]]
           /\ \A r \in team.ranks : inbox'[r] = Append(inbox[r], [k |-> k, q |-> q])
           /\ \A r \in Ranks \ team.ranks : inbox'[r] = inbox[r] /\ inbox'[r] = <<>>
<1>1. team.ranks \subseteq Ranks
  BY CaptureConstants DEF Scheduled
<1> QED
  BY <1>1 DEF Send, Scheduled

\* A message that was sent is there.
LEMMA AppendHas ==
    ASSUME NEW B \in Seq(Message), NEW k, NEW q
    PROVE  Has(Append(B, [k |-> k, q |-> q]), k, q)
<1>1. PICK m : m = [k |-> k, q |-> q]
  OBVIOUS
<1>2. PICK D : D = Append(B, m)
  OBVIOUS
<1>3. Len(B) + 1 \in DOMAIN D /\ D[Len(B) + 1] = m
  BY <1>2
<1> QED
  BY <1>1, <1>2, <1>3 DEF Has

\* A step of the scheduler touches the inboxes of the ranks, and what they told it.
LEMMA SchedulerKeeps ==
    ASSUME IInv, UNCHANGED <<w, ring>>, Scheduled', LeasesOK',
           \A r \in Ranks : Acks(r)' \subseteq Acks(r) /\ Ends(r)' \subseteq Ends(r),
           \A r \in Ranks : RankOK(Books', w[r], ring[r], inbox'[r], Acks(r), Ends(r))
    PROVE  IInv'
<1>1. ASSUME NEW r \in Ranks
      PROVE  RankOK(Books', w'[r], ring'[r], inbox'[r], Acks(r)', Ends(r)')
  BY SaidLess
<1> QED
  BY <1>1 DEF IInv, RanksOK

\* What the ranks said is still known when nothing of it is handled.
LEMMA SaidStays ==
    ASSUME UNCHANGED <<w, wire, finishedBy>>, NEW r,
           \A q \in Requests : lease'[q].ranks = lease[q].ranks
    PROVE  Acks(r)' \subseteq Acks(r) /\ Ends(r)' \subseteq Ends(r)
BY DEF Acks, Ends

\* The books change under a rank whose inbox stays.
LEMMA BooksStep ==
    ASSUME IInv, Scheduled', NEW r \in Ranks, Books'.mode = Books.mode,
           Books'.unsent \subseteq Books.unsent, Books'.alive \subseteq Books.alive,
           \A q \in Requests : Books'.job[q] = Books.job[q] \/ q \in Books.unsent,
           \A q \in Books'.given \ Books.given :
               r \in team.ranks =>
                   \/ Has(inbox[r], "preempt", q)
                   \/ ~Has(inbox[r], "save", q) /\ (q \in w[r].waived \/ ~Reads(ring[r], q))
    PROVE  RankOK(Books', w[r], ring[r], inbox[r], Acks(r), Ends(r))
<1>1. Books \in BooksRecord /\ Books' \in BooksRecord
  <2>1. mode' \in {"jobs", "requests"} /\ job' \in [Requests -> Nat]
    BY CaptureConstants DEF Scheduled
  <2>2. Books' \in BooksRecord
    BY <2>1 DEF Books, BooksRecord
  <2> QED
    BY <2>2, BooksType DEF IInv
<1>2. /\ RankOK(Books, w[r], ring[r], inbox[r], Acks(r), Ends(r))
      /\ Acks(r) \in SUBSET Requests /\ Ends(r) \in SUBSET Requests
  BY RankBefore DEF Before
<1>3. \A q \in Books'.given \ Books.given :
          \/ Has(inbox[r], "preempt", q)
          \/ ~Has(inbox[r], "save", q) /\ (q \in w[r].waived \/ ~Reads(ring[r], q))
  BY IdleRank DEF IInv
<1> QED
  BY <1>1, <1>2, <1>3, BooksKeep

\* A request starts, or resumes: no rank is told.
LEMMA StartStep ==
    ASSUME IInv, NEW q \in Requests, BeginStore(q) \/ Resume(q)
    PROVE  IInv'
<1>1. /\ team' = team /\ mode' = mode /\ own' = own /\ lease' = lease /\ disabled' = disabled
      /\ sequence' = sequence /\ job' = job /\ eligible' = eligible /\ finishedBy' = finishedBy
      /\ inbox' = inbox /\ wire' = wire /\ w' = w /\ ring' = ring /\ reserved' = reserved
  BY DEF BeginStore, Resume
<1>2. /\ req[q] \in {"new", "out"} /\ req' = [req EXCEPT ![q] = "run"]
      /\ req[q] = "new" => plan[q] = "none" /\ plan' = [plan EXCEPT ![q] = "open"]
      /\ req[q] = "out" => plan' = plan
  BY DEF BeginStore, Resume, IInv, LeasesOK
<1>3. Scheduled'
  <2>1. /\ req' \in [Requests -> {"new", "run", "out", "delayed", "ended"}]
        /\ plan' \in [Requests -> {"none", "open", "sent", "skipped"}]
    BY <1>2 DEF IInv, Scheduled
  <2> QED
    BY <1>1, <2>1 DEF IInv, Scheduled
<1>4. /\ \A p \in Requests : plan'[p] = "sent" <=> plan[p] = "sent"
      /\ \A p \in Requests : req'[p] \in {"new", "run", "out"} <=> req[p] \in {"new", "run", "out"}
      /\ \A p \in Requests : req'[p] = IF p = q THEN "run" ELSE req[p]
      /\ \A p \in Requests : plan'[p] = "open" => plan[p] = "open" \/ p = q
      /\ \A p \in Requests : p # q => plan'[p] = plan[p]
  BY <1>2 DEF IInv, Scheduled
<1>5. Books' = Books
  BY <1>1, <1>4 DEF Books
<1>6. LeasesOK'
  <2>1. LeasesOK
    BY DEF IInv
  <2>2. req[q] = "out" => plan'[q] = plan[q]
    BY <1>2
  <2>3. \A p \in Requests : req'[p] \in {"run", "out"} /\ plan'[p] = "sent" =>
            req[p] \in {"run", "out"} /\ plan[p] = "sent"
    BY <1>2, <1>4
  <2>4. \A p \in Requests : req'[p] = "new" => plan'[p] = "none"
    BY <1>4, <2>1 DEF LeasesOK
  <2>5. \A p \in Requests : plan'[p] = "open" => req'[p] \in {"new", "run", "out"}
    BY <1>4, <2>1 DEF LeasesOK
  <2>6. \A p \in Requests : plan'[p] # "sent" => job'[p] = 0 /\ ~lease'[p].held
    BY <1>1, <1>4, <2>1 DEF LeasesOK
  <2>7. mode' = "jobs" => \A p \in Requests :
            plan'[p] = "sent" /\ ~lease'[p].held => lease'[p].ranks = team'.ranks
    BY <1>1, <1>4, <2>1 DEF LeasesOK
  <2>8. mode' = "requests" =>
           /\ \A p \in Requests : ~lease'[p].held /\ ~lease'[p].quarantined
           /\ \A p \in Requests : req'[p] \in {"run", "out"} /\ plan'[p] = "sent" => p \in eligible'
    BY <1>1, <2>1, <2>3 DEF LeasesOK
  <2>9. \A p \in Requests : lease'[p].ranks \subseteq team'.ranks
    BY <1>1, <2>1 DEF LeasesOK
  <2>10. (\E p \in Requests : lease'[p].quarantined) => disabled'
    BY <1>1, <2>1 DEF LeasesOK
  <2> QED
    BY <2>4, <2>5, <2>6, <2>7, <2>8, <2>9, <2>10 DEF LeasesOK
<1>7. \A r \in Ranks : Acks(r)' \subseteq Acks(r) /\ Ends(r)' \subseteq Ends(r)
  BY <1>1, SaidStays
<1>8. \A r \in Ranks : RankOK(Books', w[r], ring[r], inbox'[r], Acks(r), Ends(r))
  BY <1>1, <1>5 DEF IInv, RanksOK
<1> QED
  BY <1>1, <1>3, <1>6, <1>7, <1>8, SchedulerKeeps

\* A preemption takes the blocks of q, and tells every rank before they are reused.
LEMMA PreemptStep ==
    ASSUME IInv, NEW q \in Requests, Preempt(q)
    PROVE  IInv'
<1>1. /\ team' = team /\ mode' = mode /\ plan' = plan /\ lease' = lease /\ disabled' = disabled
      /\ sequence' = sequence /\ job' = job /\ eligible' = eligible /\ finishedBy' = finishedBy
      /\ wire' = wire /\ w' = w /\ ring' = ring /\ reserved' = reserved
  BY DEF Preempt
<1>2. /\ req[q] = "run" /\ plan[q] = "sent" /\ req' = [req EXCEPT ![q] = "out"]
      /\ own' = own \ {q} /\ Send("preempt", q)
  BY DEF Preempt
<1>3. /\ inbox' = [r \in Ranks |-> inbox'[r]]
      /\ \A r \in team.ranks : inbox'[r] = Append(inbox[r], [k |-> "preempt", q |-> q])
      /\ \A r \in Ranks \ team.ranks : inbox'[r] = inbox[r] /\ inbox'[r] = <<>>
  BY <1>2, SendOnly DEF IInv
<1>4. req' \in [Requests -> {"new", "run", "out", "delayed", "ended"}]
      /\ \A p \in Requests : req'[p] = IF p = q THEN "out" ELSE req[p]
  BY <1>2 DEF IInv, Scheduled
<1>5. Scheduled'
  BY <1>1, <1>2, <1>3, <1>4 DEF IInv, Scheduled
<1>6. LeasesOK'
  <2>1. \A p \in Requests : /\ req'[p] \in {"run", "out"} => req[p] \in {"run", "out"}
                            /\ req'[p] = "new" => req[p] = "new"
                            /\ req[p] \in {"new", "run", "out"} => req'[p] \in {"new", "run", "out"}
    BY <1>2, <1>4
  <2> QED
    BY <1>1, <2>1 DEF IInv, LeasesOK
<1>7. /\ Books'.mode = Books.mode /\ Books'.job = Books.job /\ Books'.unsent = Books.unsent
      /\ Books'.alive = Books.alive /\ Books'.given \subseteq Books.given \cup {q}
  BY <1>1, <1>2, <1>4 DEF Books
<1>8. ASSUME NEW r \in Ranks
      PROVE  RankOK(Books', w[r], ring[r], inbox'[r], Acks(r), Ends(r))
  <2>1. CASE r \in team.ranks
    <3>1. /\ RankOK(Books, w[r], ring[r], inbox[r], Acks(r), Ends(r))
          /\ Acks(r) \in SUBSET Requests /\ Ends(r) \in SUBSET Requests /\ Books \in BooksRecord
      BY RankBefore DEF Before
    <3>2. q \notin Books.unsent
      BY <1>2, BooksType DEF IInv
    <3>3. inbox'[r] = Append(inbox[r], [k |-> "preempt", q |-> q])
      BY <1>3, <2>1
    <3>4. PICK D : D = inbox'[r]
      OBVIOUS
    <3>5. RankOK(Books, w[r], ring[r], D, Acks(r), Ends(r))
      BY <3>1, <3>2, <3>3, <3>4, MessageKeeps
    <3>6. Has(D, "preempt", q)
      <4>1. inbox[r] \in Seq(Message)
        BY <3>1 DEF RankOK, Related, InboxOK
      <4> QED
        BY <3>3, <3>4, <4>1, AppendHas
    <3>7. Books' \in BooksRecord
      <4>1. mode' \in {"jobs", "requests"} /\ job' \in [Requests -> Nat]
        BY <1>5, CaptureConstants DEF Scheduled
      <4> QED
        BY <4>1 DEF Books, BooksRecord
    <3>8. RankOK(Books', w[r], ring[r], D, Acks(r), Ends(r))
      BY <1>7, <3>1, <3>5, <3>6, <3>7, BooksKeep
    <3> QED
      BY <3>4, <3>8
  <2>2. CASE r \notin team.ranks
    <3>1. inbox'[r] = inbox[r]
      BY <1>3, <2>2
    <3>2. RankOK(Books', w[r], ring[r], inbox[r], Acks(r), Ends(r))
      BY <1>5, <1>7, <2>2, BooksStep
    <3> QED
      BY <3>1, <3>2
  <2> QED
    BY <2>1, <2>2
<1>9. \A r \in Ranks : Acks(r)' \subseteq Acks(r) /\ Ends(r)' \subseteq Ends(r)
  BY <1>1, SaidStays
<1> QED
  BY <1>1, <1>5, <1>6, <1>8, <1>9, SchedulerKeeps

\* A request finishes: its blocks return, unless they wait for the ranks.
LEMMA FinishStep ==
    ASSUME IInv, NEW q \in Requests, FinishRequest(q)
    PROVE  IInv'
<1>1. /\ team' = team /\ mode' = mode /\ lease' = lease /\ disabled' = disabled
      /\ sequence' = sequence /\ job' = job /\ finishedBy' = finishedBy
      /\ wire' = wire /\ w' = w /\ ring' = ring /\ reserved' = reserved
  BY DEF FinishRequest
<1> DEFINE delay == mode = "requests" /\ q \in eligible
<1>2. /\ req[q] \in {"run", "out"} /\ eligible' = eligible \ {q}
      /\ req' = [req EXCEPT ![q] = IF delay THEN "delayed" ELSE "ended"]
      /\ own' = IF delay THEN own ELSE own \ {q}
  BY DEF FinishRequest
<1>3. /\ req' \in [Requests -> {"new", "run", "out", "delayed", "ended"}]
      /\ \A p \in Requests : p # q => req'[p] = req[p]
      /\ req'[q] \in {"delayed", "ended"}
  BY <1>2 DEF IInv, Scheduled
<1>4. /\ plan' \in [Requests -> {"none", "open", "sent", "skipped"}]
      /\ \A p \in Requests : p # q => plan'[p] = plan[p]
      /\ plan'[q] = IF plan[q] = "open" THEN "skipped" ELSE plan[q]
  BY DEF FinishRequest, IInv, Scheduled
<1>5. plan[q] = "sent" /\ mode = "requests" => own' = own
  BY <1>2 DEF IInv, LeasesOK
<1>6. own' \subseteq own /\ \A p \in own : p # q => p \in own'
  BY <1>2
<1> HIDE DEF delay
<1>7. \/ mode = "requests" /\ Send("finish", q)
      \/ mode # "requests" /\ inbox' = inbox
  BY DEF FinishRequest
<1>8. /\ inbox' = [r \in Ranks |-> inbox'[r]]
      /\ \A r \in Ranks \ team.ranks : inbox'[r] = inbox[r] /\ inbox'[r] = <<>>
      /\ \A r \in team.ranks : \/ inbox'[r] = inbox[r]
                               \/ inbox'[r] = Append(inbox[r], [k |-> "finish", q |-> q])
  <2>1. CASE Send("finish", q)
    BY <2>1, SendOnly DEF IInv
  <2>2. CASE inbox' = inbox
    BY <2>2 DEF IInv, Scheduled
  <2> QED
    BY <1>7, <2>1, <2>2
<1>9. Scheduled'
  BY <1>1, <1>2, <1>3, <1>4, <1>6, <1>8 DEF IInv, Scheduled
<1>10. LeasesOK'
  <2>1. LeasesOK
    BY DEF IInv
  <2>2. \A p \in Requests : plan'[p] # "sent" => job'[p] = 0 /\ ~lease'[p].held
    BY <1>1, <1>4, <2>1 DEF LeasesOK
  <2>3. \A p \in Requests : req'[p] = "new" => plan'[p] = "none"
    BY <1>3, <1>4, <2>1 DEF LeasesOK
  <2>4. \A p \in Requests : plan'[p] = "open" => req'[p] \in {"new", "run", "out"}
    BY <1>3, <1>4, <2>1 DEF LeasesOK
  <2>5. mode' = "jobs" => \A p \in Requests :
            plan'[p] = "sent" /\ ~lease'[p].held => lease'[p].ranks = team'.ranks
    BY <1>1, <1>4, <2>1 DEF LeasesOK
  <2>6. mode' = "requests" =>
           /\ \A p \in Requests : ~lease'[p].held /\ ~lease'[p].quarantined
           /\ \A p \in Requests : req'[p] \in {"run", "out"} /\ plan'[p] = "sent" => p \in eligible'
    BY <1>1, <1>2, <1>3, <1>4, <2>1 DEF LeasesOK
  <2>7. /\ \A p \in Requests : lease'[p].ranks \subseteq team'.ranks
        /\ (\E p \in Requests : lease'[p].quarantined) => disabled'
    BY <1>1, <2>1 DEF LeasesOK
  <2> QED
    BY <2>2, <2>3, <2>4, <2>5, <2>6, <2>7 DEF LeasesOK
<1>11. /\ Books'.mode = Books.mode /\ Books'.job = Books.job /\ Books'.unsent = Books.unsent
       /\ Books'.alive = Books.alive \ {q} /\ Books'.given = Books.given
  <2>1. \A p \in Requests : plan'[p] = "sent" <=> plan[p] = "sent"
    BY <1>4
  <2>2. \A p \in Requests : mode = "requests" /\ plan[p] = "sent" => (p \in own <=> p \in own')
    BY <1>5, <1>6
  <2>3. \A p \in Requests : req'[p] \in {"new", "run", "out"} <=>
                               p # q /\ req[p] \in {"new", "run", "out"}
    BY <1>3
  <2> QED
    BY <1>1, <2>1, <2>2, <2>3 DEF Books
<1>12. ASSUME NEW r \in Ranks
       PROVE  RankOK(Books', w[r], ring[r], inbox'[r], Acks(r), Ends(r))
  <2>1. RankOK(Books', w[r], ring[r], inbox[r], Acks(r), Ends(r))
    BY <1>9, <1>11, BooksStep
  <2>2. CASE inbox'[r] = inbox[r]
    BY <2>1, <2>2
  <2>3. CASE inbox'[r] = Append(inbox[r], [k |-> "finish", q |-> q])
    <3>1. Acks(r) \in SUBSET Requests /\ Ends(r) \in SUBSET Requests
      BY RankBefore DEF Before
    <3>2. Books' \in BooksRecord
      <4>1. mode' \in {"jobs", "requests"} /\ job' \in [Requests -> Nat]
        BY <1>9, CaptureConstants DEF Scheduled
      <4> QED
        BY <4>1 DEF Books, BooksRecord
    <3>3. q \notin Books'.alive
      BY <1>11
    <3>4. PICK X, D : X = Books' /\ D = inbox'[r]
      OBVIOUS
    <3>5. RankOK(X, w[r], ring[r], D, Acks(r), Ends(r))
      BY <2>1, <2>3, <3>1, <3>2, <3>3, <3>4, MessageKeeps
    <3> QED
      BY <3>4, <3>5
  <2> QED
    BY <1>8, <2>2, <2>3
<1>13. \A r \in Ranks : Acks(r)' \subseteq Acks(r) /\ Ends(r)' \subseteq Ends(r)
  BY <1>1, SaidStays
<1> QED
  BY <1>1, <1>9, <1>10, <1>12, <1>13, SchedulerKeeps

\* A plan is sent, or skipped.
LEMMA PlanStep ==
    ASSUME IInv, NEW q \in Requests, NEW quorum \in BOOLEAN, PlanStore(q, quorum)
    PROVE  IInv'
<1>1. /\ team' = team /\ mode' = mode /\ req' = req /\ disabled' = disabled
      /\ finishedBy' = finishedBy /\ wire' = wire /\ w' = w /\ ring' = ring
      /\ req[q] = "run" /\ plan[q] = "open"
  BY DEF PlanStore
<1>2. PICK sent \in BOOLEAN :
        /\ plan' = [plan EXCEPT ![q] = IF sent THEN "sent" ELSE "skipped"]
        /\ own' = IF sent THEN own \cup {q} ELSE own
        /\ IF sent THEN Send("save", q) ELSE inbox' = inbox
        /\ IF sent /\ mode = "jobs"
           THEN /\ lease' = [lease EXCEPT ![q].held = TRUE]
                /\ sequence' = sequence + 1
                /\ job' = [job EXCEPT ![q] = sequence + 1]
                /\ eligible' = eligible
           ELSE /\ eligible' = IF sent THEN eligible \cup {q} ELSE eligible
                /\ lease' = lease /\ sequence' = sequence /\ job' = job
  <2>1. PICK room \in BOOLEAN :
          room = IF mode = "jobs" THEN ~disabled /\ Cardinality(Leased) < MaxJobs
                                  ELSE q \in reserved \/ Cardinality(reserved) < MaxJobs
    OBVIOUS
  <2>2. PICK sent \in BOOLEAN : sent = (~quorum /\ room)
    OBVIOUS
  <2> QED
    BY <2>1, <2>2 DEF PlanStore
<1>3. /\ plan' \in [Requests -> {"none", "open", "sent", "skipped"}]
      /\ \A p \in Requests : p # q => plan'[p] = plan[p]
      /\ plan'[q] = IF sent THEN "sent" ELSE "skipped"
  BY <1>2 DEF IInv, Scheduled
<1>4. /\ lease' \in [Requests -> [held : BOOLEAN, ranks : SUBSET Ranks, quarantined : BOOLEAN]]
      /\ \A p \in Requests : lease'[p].ranks = lease[p].ranks
                             /\ lease'[p].quarantined = lease[p].quarantined
      /\ \A p \in Requests : lease'[p].held <=> lease[p].held \/ (sent /\ mode = "jobs" /\ p = q)
  <2>1. CASE sent /\ mode = "jobs"
    <3>1. PICK x : x = [lease[q] EXCEPT !.held = TRUE]
      OBVIOUS
    <3>2. lease' = [lease EXCEPT ![q] = x]
      BY <1>2, <2>1, <3>1
    <3>3. /\ x \in [held : BOOLEAN, ranks : SUBSET Ranks, quarantined : BOOLEAN]
          /\ x.held /\ x.ranks = lease[q].ranks /\ x.quarantined = lease[q].quarantined
      BY <3>1 DEF IInv, Scheduled
    <3> QED
      BY <2>1, <3>2, <3>3 DEF IInv, Scheduled
  <2>2. CASE ~(sent /\ mode = "jobs")
    BY <1>2, <2>2 DEF IInv, Scheduled
  <2> QED
    BY <2>1, <2>2
<1>5. /\ sequence' \in Nat /\ job' \in [Requests -> Nat]
      /\ \A p \in Requests : p # q \/ ~sent => job'[p] = job[p]
  <2>1. sequence \in Nat /\ job \in [Requests -> Nat]
    BY DEF IInv, Scheduled
  <2>2. CASE sent /\ mode = "jobs"
    <3>1. PICK n \in Nat : n = sequence + 1
      BY <2>1
    <3>2. sequence' = n /\ job' = [job EXCEPT ![q] = n]
      BY <1>2, <2>2, <3>1
    <3> QED
      BY <2>1, <2>2, <3>2
  <2>3. CASE ~(sent /\ mode = "jobs")
    BY <1>2, <2>1, <2>3
  <2> QED
    BY <2>2, <2>3
<1>6. /\ inbox' = [r \in Ranks |-> inbox'[r]]
      /\ \A r \in Ranks \ team.ranks : inbox'[r] = inbox[r] /\ inbox'[r] = <<>>
      /\ \A r \in team.ranks : IF sent THEN inbox'[r] = Append(inbox[r], [k |-> "save", q |-> q])
                                       ELSE inbox'[r] = inbox[r]
  <2>1. CASE sent
    BY <1>2, <2>1, SendOnly DEF IInv
  <2>2. CASE ~sent
    <3>1. inbox' = inbox
      BY <1>2, <2>2
    <3> QED
      BY <2>2, <3>1 DEF IInv, Scheduled
  <2> QED
    BY <2>1, <2>2
<1>7. /\ own' \subseteq Requests /\ eligible' \subseteq Requests /\ own \subseteq own'
      /\ own' \subseteq own \cup {q} /\ eligible \subseteq eligible'
      /\ sent => q \in own'
      /\ sent /\ mode = "requests" => q \in eligible'
  BY <1>2 DEF IInv, Scheduled
<1>8. Scheduled'
  <2>1. reserved' \subseteq reserved \cup {q}
    BY DEF PlanStore
  <2> QED
    BY <1>1, <1>3, <1>4, <1>5, <1>6, <1>7, <2>1 DEF IInv, Scheduled
<1>9. LeasesOK'
  <2>1. LeasesOK
    BY DEF IInv
  <2>2. \A p \in Requests : plan'[p] # "sent" => job'[p] = 0 /\ ~lease'[p].held
    BY <1>1, <1>3, <1>4, <1>5, <2>1 DEF LeasesOK
  <2>3. \A p \in Requests : req'[p] = "new" => plan'[p] = "none"
    BY <1>1, <1>3, <2>1 DEF LeasesOK
  <2>4. \A p \in Requests : plan'[p] = "open" => req'[p] \in {"new", "run", "out"}
    BY <1>1, <1>3, <2>1 DEF LeasesOK
  <2>5. mode' = "jobs" => \A p \in Requests :
            plan'[p] = "sent" /\ ~lease'[p].held => lease'[p].ranks = team'.ranks
    BY <1>1, <1>3, <1>4, <2>1 DEF LeasesOK
  <2>6. mode' = "requests" =>
           /\ \A p \in Requests : ~lease'[p].held /\ ~lease'[p].quarantined
           /\ \A p \in Requests : req'[p] \in {"run", "out"} /\ plan'[p] = "sent" => p \in eligible'
    BY <1>1, <1>3, <1>4, <1>7, <2>1 DEF LeasesOK
  <2>7. /\ \A p \in Requests : lease'[p].ranks \subseteq team'.ranks
        /\ (\E p \in Requests : lease'[p].quarantined) => disabled'
    BY <1>1, <1>4, <2>1 DEF LeasesOK
  <2> QED
    BY <2>2, <2>3, <2>4, <2>5, <2>6, <2>7 DEF LeasesOK
<1>10. /\ Books'.mode = Books.mode /\ Books'.job = job' /\ Books'.alive = Books.alive
       /\ Books'.unsent = IF sent THEN Books.unsent \ {q} ELSE Books.unsent
       /\ Books'.given \subseteq Books.given /\ q \notin Books'.given
  <2>1. \A p \in Requests : plan'[p] # "sent" <=> plan[p] # "sent" /\ ~(sent /\ p = q)
    BY <1>1, <1>3
  <2>2. \A p \in Requests : plan'[p] = "sent" /\ p \notin own' => p # q /\ plan[p] = "sent" /\ p \notin own
    BY <1>3, <1>7
  <2> QED
    BY <1>1, <2>1, <2>2 DEF Books
<1>11. q \in Books.unsent /\ q \in Books.alive /\ Books.job = job
  BY <1>1, BooksType DEF IInv
<1>12. ASSUME NEW r \in Ranks
       PROVE  RankOK(Books', w[r], ring[r], inbox'[r], Acks(r), Ends(r))
  <2>1. RankOK(Books', w[r], ring[r], inbox[r], Acks(r), Ends(r))
    <3>1. \A p \in Requests : Books'.job[p] = Books.job[p] \/ p \in Books.unsent
      BY <1>5, <1>10, <1>11
    <3> QED
      BY <1>8, <1>10, <3>1, BooksStep
  <2>2. CASE inbox'[r] = inbox[r]
    BY <2>1, <2>2
  <2>3. CASE sent /\ inbox'[r] = Append(inbox[r], [k |-> "save", q |-> q])
    <3>1. Acks(r) \in SUBSET Requests /\ Ends(r) \in SUBSET Requests
      BY RankBefore DEF Before
    <3>2. Books' \in BooksRecord
      <4>1. mode' \in {"jobs", "requests"} /\ job' \in [Requests -> Nat]
        BY <1>8, CaptureConstants DEF Scheduled
      <4> QED
        BY <4>1 DEF Books, BooksRecord
    <3>3. /\ UnknownOK(Books, w[r], ring[r], inbox[r], Acks(r), Ends(r))
          /\ inbox[r] \in Seq(Message)
      BY DEF IInv, RanksOK, RankOK, Related, InboxOK
    <3>4. /\ Unused(w[r], ring[r], q) /\ q \notin Owned(w[r]) /\ q \notin Acks(r)
          /\ q \notin w[r].ended /\ q \notin Ends(r)
          /\ ~Has(inbox[r], "save", q) /\ ~Has(inbox[r], "preempt", q) /\ ~Has(inbox[r], "finish", q)
      BY <1>11, <3>3 DEF UnknownOK
    <3>5. \A i \in DOMAIN inbox[r] : inbox[r][i].q # q
      <4>1. \A i \in DOMAIN inbox[r] : inbox[r][i] \in Message
        BY <3>3
      <4>2. \A m \in Message : m = [k |-> m.k, q |-> m.q] /\ m.k \in {"save", "preempt", "finish"}
        BY DEF Message
      <4> QED
        BY <3>4, <4>1, <4>2 DEF Has
    <3>6. PICK X, D : X = Books' /\ D = inbox'[r]
      OBVIOUS
    <3>7. q \notin X.unsent /\ q \notin X.given
      BY <1>10, <2>3, <3>6
    <3>8. RankOK(X, w[r], ring[r], D, Acks(r), Ends(r))
      BY <2>1, <2>3, <3>1, <3>2, <3>4, <3>5, <3>6, <3>7, MessageKeeps
    <3> QED
      BY <3>6, <3>8
  <2> QED
    BY <1>6, <2>2, <2>3
<1>13. \A r \in Ranks : Acks(r)' \subseteq Acks(r) /\ Ends(r)' \subseteq Ends(r)
  BY <1>1, <1>4, SaidStays
<1> QED
  BY <1>1, <1>8, <1>9, <1>12, <1>13, SchedulerKeeps

\* The scheduler hears from a rank: leases end, and so do requests every rank is done with.
LEMMA OutputStep ==
    ASSUME IInv, NEW m \in wire, UpdateConnectorOutput(m)
    PROVE  IInv'
<1>1. /\ team' = team /\ mode' = mode /\ plan' = plan /\ sequence' = sequence /\ job' = job
      /\ inbox' = inbox /\ w' = w /\ ring' = ring /\ wire' = wire \ {m}
  BY DEF UpdateConnectorOutput
<1>2. /\ m.rank \in team.ranks /\ m.rank \in Ranks /\ team.ranks \subseteq Ranks
      /\ m.done \subseteq Requests /\ m.finished \subseteq Requests
  BY CaptureConstants DEF IInv, Scheduled, Output
<1>3. /\ finishedBy' \in [Requests -> SUBSET Ranks]
      /\ \A q \in Requests : finishedBy'[q] = IF q \in m.finished THEN finishedBy[q] \cup {m.rank}
                                                                  ELSE finishedBy[q]
  BY <1>2 DEF UpdateConnectorOutput, IInv, Scheduled
<1>4. PICK all \in SUBSET Requests :
        /\ all = {q \in m.finished : finishedBy'[q] = team.ranks}
        /\ eligible' = eligible \ all
        /\ req' = [q \in Requests |-> IF q \in all /\ req[q] = "delayed" THEN "ended" ELSE req[q]]
        /\ own' = own \ {q \in all : req[q] = "delayed"}
  <2>1. PICK all \in SUBSET Requests : all = {q \in m.finished : finishedBy'[q] = team.ranks}
    BY <1>2
  <2> QED
    BY <2>1 DEF UpdateConnectorOutput
<1>5. ASSUME NEW q \in Requests
      PROVE  /\ lease'[q] \in [held : BOOLEAN, ranks : SUBSET Ranks, quarantined : BOOLEAN]
             /\ lease'[q].held => lease[q].held
             /\ lease[q].held /\ ~lease'[q].held => lease'[q].ranks = team.ranks
             /\ ~lease[q].held => lease'[q] = lease[q]
             /\ lease'[q].ranks \subseteq lease[q].ranks \cup (IF q \in m.done THEN {m.rank} ELSE {})
             /\ lease'[q].quarantined => lease[q].quarantined \/ (q \in m.uncertain /\ lease[q].held)
  <2>1. lease[q] \in [held : BOOLEAN, ranks : SUBSET Ranks, quarantined : BOOLEAN]
    BY DEF IInv, Scheduled
  <2>2. PICK l : l = IF q \in m.uncertain /\ lease[q].held
                     THEN [lease[q] EXCEPT !.quarantined = TRUE] ELSE lease[q]
    OBVIOUS
  <2>3. /\ l \in [held : BOOLEAN, ranks : SUBSET Ranks, quarantined : BOOLEAN]
        /\ l.held = lease[q].held /\ l.ranks = lease[q].ranks
        /\ l.quarantined => lease[q].quarantined \/ (q \in m.uncertain /\ lease[q].held)
        /\ ~lease[q].held => l = lease[q]
    BY <2>1, <2>2
  <2>4. lease'[q] = IF q \in m.done /\ l.held THEN Complete(l, q, m) ELSE l
    BY <2>2 DEF UpdateConnectorOutput
  <2>5. CASE q \in m.done /\ l.held
    <3>1. PICK R \in SUBSET Ranks : R = l.ranks \cup {m.rank}
      BY <1>2, <2>3
    <3>2. PICK h \in BOOLEAN : h = (R # team.ranks)
      OBVIOUS
    <3>3. lease'[q] = [l EXCEPT !.ranks = R, !.held = h]
      BY <2>4, <2>5, <3>1, <3>2 DEF Complete
    <3>4. /\ lease'[q] \in [held : BOOLEAN, ranks : SUBSET Ranks, quarantined : BOOLEAN]
          /\ lease'[q].ranks = R /\ lease'[q].held = h /\ lease'[q].quarantined = l.quarantined
      BY <2>3, <3>1, <3>2, <3>3
    <3> QED
      BY <2>3, <2>5, <3>1, <3>2, <3>4
  <2>6. CASE ~(q \in m.done /\ l.held)
    <3>1. lease'[q] = l
      BY <2>4, <2>6
    <3> QED
      BY <2>3, <3>1
  <2> QED
    BY <2>5, <2>6
<1>6. lease' = [q \in Requests |-> lease'[q]]
  BY DEF UpdateConnectorOutput
<1>7. disabled' = (disabled \/ \E q \in m.uncertain : lease[q].held)
  BY DEF UpdateConnectorOutput
<1>8. /\ req' \in [Requests -> {"new", "run", "out", "delayed", "ended"}]
      /\ \A q \in Requests : req'[q] = IF q \in all /\ req[q] = "delayed" THEN "ended" ELSE req[q]
  BY <1>4 DEF IInv, Scheduled
<1>9. ASSUME NEW q \in all
      PROVE  \A r \in team.ranks : q \in Ends(r)
  BY <1>3, <1>4 DEF Ends
<1>10. \A q \in Requests : req[q] \in {"run", "out"} => q \notin all
  <2>1. \A q \in Requests : q \in m.finished => q \in Ends(m.rank)
    BY DEF Ends
  <2>2. UnknownOK(Books, w[m.rank], ring[m.rank], inbox[m.rank], Acks(m.rank), Ends(m.rank))
    BY <1>2 DEF IInv, RanksOK, RankOK, Related
  <2>3. \A q \in Requests : req[q] \in {"run", "out"} => q \in Books.alive
    BY BooksType DEF IInv
  <2> QED
    BY <1>4, <2>1, <2>2, <2>3 DEF UnknownOK
<1>11. Scheduled'
  <2>1. lease' \in [Requests -> [held : BOOLEAN, ranks : SUBSET Ranks, quarantined : BOOLEAN]]
    BY <1>5, <1>6
  <2>2. own' \subseteq Requests /\ eligible' \subseteq Requests
        /\ wire' \subseteq Output /\ \A n \in wire' : n.rank \in team.ranks
    BY <1>1, <1>4 DEF IInv, Scheduled
  <2>3. reserved' \subseteq reserved /\ disabled' \in BOOLEAN
    <3>1. reserved' \subseteq reserved
      BY DEF UpdateConnectorOutput
    <3>2. disabled' \in BOOLEAN
      BY <1>7
    <3> QED
      BY <3>1, <3>2
  <2> QED
    BY <1>1, <1>3, <1>8, <2>1, <2>2, <2>3 DEF IInv, Scheduled
<1>12. LeasesOK'
  <2>1. LeasesOK
    BY DEF IInv
  <2>2. \A p \in Requests : plan'[p] # "sent" => job'[p] = 0 /\ ~lease'[p].held
    BY <1>1, <1>5, <2>1 DEF LeasesOK
  <2>3. \A p \in Requests : req'[p] = "new" => plan'[p] = "none"
    BY <1>1, <1>8, <2>1 DEF LeasesOK
  <2>4. \A p \in Requests : plan'[p] = "open" => req'[p] \in {"new", "run", "out"}
    BY <1>1, <1>8, <2>1 DEF LeasesOK
  <2>5. mode' = "jobs" => \A p \in Requests :
            plan'[p] = "sent" /\ ~lease'[p].held => lease'[p].ranks = team'.ranks
    BY <1>1, <1>5, <2>1 DEF LeasesOK
  <2>6. mode' = "requests" =>
           /\ \A p \in Requests : ~lease'[p].held /\ ~lease'[p].quarantined
           /\ \A p \in Requests : req'[p] \in {"run", "out"} /\ plan'[p] = "sent" => p \in eligible'
    BY <1>1, <1>4, <1>5, <1>8, <1>10, <2>1 DEF LeasesOK
  <2>7. \A p \in Requests : lease'[p].ranks \subseteq team'.ranks
    BY <1>1, <1>2, <1>5, <2>1 DEF LeasesOK
  <2>8. (\E p \in Requests : lease'[p].quarantined) => disabled'
    BY <1>5, <1>7, <2>1 DEF LeasesOK
  <2> QED
    BY <2>2, <2>3, <2>4, <2>5, <2>6, <2>7, <2>8 DEF LeasesOK
<1>13. /\ Books'.mode = Books.mode /\ Books'.job = Books.job /\ Books'.unsent = Books.unsent
       /\ Books'.alive = Books.alive
       /\ \A q \in Books'.given \ Books.given : q \in all /\ mode = "requests"
  <2>1. \A q \in Requests : req'[q] \in {"new", "run", "out"} <=> req[q] \in {"new", "run", "out"}
    BY <1>8
  <2>2. \A q : q \in own => q \in own' \/ q \in all
    BY <1>4
  <2> QED
    BY <1>1, <2>1, <2>2 DEF Books
<1>14. ASSUME NEW r \in Ranks
       PROVE  RankOK(Books', w[r], ring[r], inbox'[r], Acks(r), Ends(r))
  <2>1. ASSUME NEW q \in Books'.given \ Books.given, r \in team.ranks
        PROVE  ~Has(inbox[r], "save", q) /\ (q \in w[r].waived \/ ~Reads(ring[r], q))
    <3>1. q \in Ends(r) /\ Books.mode = "requests"
      BY <1>9, <1>13, <2>1, BooksType DEF IInv
    <3>2. FinishedOK(Books, w[r], ring[r], inbox[r], Acks(r), Ends(r))
      BY DEF IInv, RanksOK, RankOK, Related
    <3> QED
      BY <3>1, <3>2 DEF FinishedOK
  <2> QED
    BY <1>1, <1>11, <1>13, <2>1, BooksStep
<1>15. ASSUME NEW r \in Ranks
       PROVE  Acks(r)' \subseteq Acks(r) /\ Ends(r)' \subseteq Ends(r)
  <2>1. Acks(r)' = {q \in Requests \ w'[r].waived : q \in w'[r].done \/ r \in lease'[q].ranks
                                       \/ \E n \in wire' : n.rank = r /\ q \in n.done}
    BY DEF Acks
  <2>2. Ends(r)' = {q \in Requests : r \in finishedBy'[q] \/ \E n \in wire' : n.rank = r /\ q \in n.finished}
    BY DEF Ends
  <2>3. \A q \in Requests : r \in lease'[q].ranks => r \in lease[q].ranks \/ (q \in m.done /\ r = m.rank)
    BY <1>5
  <2>4. Acks(r)' \subseteq Acks(r)
    BY <1>1, <2>1, <2>3 DEF Acks
  <2>5. Ends(r)' \subseteq Ends(r)
    BY <1>1, <1>3, <2>2 DEF Ends
  <2> QED
    BY <2>4, <2>5
<1> QED
  BY <1>1, <1>11, <1>12, <1>14, <1>15, SchedulerKeeps

-----------------------------------------------------------------------------
(* The invariant, and what it says *)

\* The invariant holds initially.
LEMMA InitOK ==
    ASSUME Init
    PROVE  IInv
<1>1. Scheduled
  <2>1. \A q \in Requests :
          [held |-> FALSE, ranks |-> {}, quarantined |-> FALSE]
              \in [held : BOOLEAN, ranks : SUBSET Ranks, quarantined : BOOLEAN]
    OBVIOUS
  <2> QED
    BY <2>1 DEF Init, Scheduled
<1>2. LeasesOK
  <2>1. \A q \in Requests : /\ plan[q] = "none" /\ job[q] = 0 /\ ~lease[q].held
                            /\ lease[q].ranks = {} /\ ~lease[q].quarantined
    BY DEF Init
  <2> QED
    BY <2>1 DEF LeasesOK
<1>3. ASSUME NEW r \in Ranks
      PROVE  RankOK(Books, w[r], ring[r], inbox[r], Acks(r), Ends(r))
  <2>1. /\ w[r] = NewWorker /\ ring[r] = NewRing /\ inbox[r] = <<>> /\ wire = {}
        /\ \A q \in Requests : lease[q].ranks = {} /\ finishedBy[q] = {} /\ plan[q] = "none"
    BY <1>3 DEF Init
  <2>2. PICK v, x : v = NewWorker /\ x = Idle
    OBVIOUS
  <2>3. /\ x \in Thread /\ x \in Saver /\ x.pc = "idle" /\ x.q = NoRequest /\ x.todo = {}
    BY <2>2 DEF Idle, Thread, Saver
  <2>4. /\ v \in WorkerRecord /\ v.thr = x /\ v.writer = x /\ v.eng = "serve" /\ v.queued = {}
        /\ v.submitting = {} /\ v.pending = {} /\ v.draining = {} /\ v.ready = {} /\ v.failed = {}
        /\ v.completed = {} /\ v.ended = {} /\ v.done = {} /\ v.tickets = {} /\ v.storeq = <<>>
        /\ v.fatal = FALSE /\ v.inflight = FALSE /\ v.waived = {} /\ v.leaked = FALSE
    BY <2>2, <2>3 DEF NewWorker, WorkerRecord
  <2>5. RingOK(NewRing)
    <3>1. \A s \in Slots : NewRing[s] \in SlotRecord /\ NewRing[s].st = "free"
                           /\ NewRing[s].ctx = NoContext /\ ~NewRing[s].busy
      BY DEF NewRing, SlotRecord, SlotStates
    <3>2. NewRing = [s \in Slots |-> NewRing[s]]
      BY DEF NewRing
    <3> QED
      BY <3>1, <3>2 DEF RingOK
  <2>6. Acks(r) = {} /\ Ends(r) = {}
    BY <2>1, <2>2, <2>4 DEF Acks, Ends
  <2>7. Lent(v) = {} /\ Flying(v) = {} /\ Early(v) = {} /\ Claiming(v) = {} /\ Claimed(v) = {}
        /\ Submits(v) = {} /\ Owned(v) = {} /\ InProgress(v) = {}
    <3>1. Range(<<>>) = {}
      BY DEF Range
    <3> QED
      BY <2>3, <2>4, <3>1 DEF Lent, Flying, Early, Claiming, Claimed, Submits, Owned, InProgress
  <2>8. ThreadOK(Books.mode, v) /\ Places(v)
    <3>1. DOMAIN v.storeq = {} /\ Range(v.storeq) = {}
      BY <2>4 DEF Range
    <3>2. Places(v)
      BY <2>3, <2>4, <2>7, <3>1 DEF Places
    <3>3. ThreadOK(Books.mode, v)
      BY <2>3, <2>4, <2>7 DEF ThreadOK
    <3> QED
      BY <3>2, <3>3
  <2>9. \A q \in Requests : ~Reads(NewRing, q) /\ \A s \in Slots : NewRing[s].ctx # q
    BY NoRequestIsNone DEF NewRing, Reads, NoRequest
  <2>10. \A k, q : ~Has(<<>>, k, q)
    BY DEF Has
  <2>11. \A q \in Requests : Unused(v, NewRing, q)
    BY <2>4, <2>7, <2>9 DEF Unused, Tickets
  <2>12. Books \in BooksRecord
    BY <1>1, BooksType
  <2>13. InboxOK(Books.mode, Books.job, v, NewRing, <<>>)
    BY <2>7, <2>11 DEF InboxOK
  <2>14. TicketsOK(v, NewRing) /\ ReadsOK(Books.mode, v, NewRing, <<>>)
    BY <2>4, <2>7, <2>9 DEF TicketsOK, ReadsOK
  <2>15. UnknownOK(Books, v, NewRing, <<>>, {}, {})
    BY <2>4, <2>7, <2>10, <2>11, <2>12 DEF UnknownOK, BooksRecord
  <2>16. FinishedOK(Books, v, NewRing, <<>>, {}, {}) /\ AckOK(Books.job, v, NewRing, {})
    BY <2>4, <2>9, <2>10, <2>12 DEF FinishedOK, AckOK, BooksRecord
  <2>17. Booked(v, NewRing)
    BY <2>3, <2>4, <2>7 DEF Booked, AsksOne, RoundOK, EndsClean
  <2> QED
    BY <2>1, <2>2, <2>4, <2>5, <2>6, <2>8, <2>17, <2>13, <2>14, <2>15, <2>16 DEF RankOK, Related
<1> QED
  BY <1>1, <1>2, <1>3 DEF IInv, RanksOK

\* Every step, of the scheduler or of a rank, keeps the invariant.
LEMMA NextOK ==
    ASSUME IInv, [Next]_vars
    PROVE  IInv'
<1>1. CASE SchedulerNext
  <2>1. ASSUME NEW q \in Requests, BeginStore(q) \/ Preempt(q) \/ Resume(q) \/ FinishRequest(q)
        PROVE  IInv'
    BY <2>1, StartStep, PreemptStep, FinishStep
  <2>2. ASSUME NEW q \in Requests, NEW quorum \in BOOLEAN, PlanStore(q, quorum)
        PROVE  IInv'
    BY <2>2, PlanStep
  <2>3. ASSUME NEW m \in wire, UpdateConnectorOutput(m)
        PROVE  IInv'
    BY <2>3, OutputStep
  <2> QED
    BY <1>1, <2>1, <2>2, <2>3 DEF SchedulerNext
<1>2. ASSUME NEW r \in team.ranks,
             EngineNext(r) \/ ThreadNext(r) \/ WriterNext(r) \/ ShutdownNext(r)
                 \/ \E s \in Slots : GatherEnds(r, s)
      PROVE  IInv'
  BY <1>2, WorkerStep
<1>3. CASE UNCHANGED vars
  <2>1. Books' = Books /\ \A r : Acks(r)' = Acks(r) /\ Ends(r)' = Ends(r)
    BY <1>3 DEF vars, scheduler, Books, Acks, Ends
  <2> QED
    BY <1>3, <2>1 DEF vars, scheduler, IInv, Scheduled, LeasesOK, RanksOK
<1> QED
  BY <1>1, <1>2, <1>3 DEF Next

\* What a rank acknowledged and did not waive is over: nobody reads it, and no table or
\* thread of the rank would read it again.
LEMMA OverOK ==
    ASSUME IInv
    PROVE  AcknowledgedIsOver
<1>1. SUFFICES ASSUME NEW r \in Ranks, NEW q \in Requests, Acknowledged(r, q),
                      q \notin w[r].waived
               PROVE  /\ ~Reading(r, q)
                      /\ q \notin w[r].queued \cup w[r].pending \cup w[r].draining
                      /\ w[r].thr.q = q => w[r].thr.pc \in {"finally", "pop"}
  BY DEF AcknowledgedIsOver
<1>2. q \in Acks(r)
  BY <1>1 DEF Acknowledged, Acks
<1>3. /\ w[r] \in WorkerRecord /\ ThreadOK(Books.mode, w[r])
      /\ AckOK(Books.job, w[r], ring[r], Acks(r))
  BY DEF IInv, RanksOK, RankOK, Related
<1>4. q \notin Early(w[r]) \cup Flying(w[r]) /\ ~Reads(ring[r], q)
  BY <1>2, <1>3 DEF AckOK
<1>5. w[r].thr \in Thread
  BY <1>3 DEF WorkerRecord
<1>6. ASSUME w[r].thr.q = q
      PROVE  w[r].thr.pc \in {"finally", "pop"}
  <2>1. w[r].thr.pc \notin {"idle", "dead", "take", "poll", "ready"}
    BY <1>3, <1>6, NoRequestIsNone DEF ThreadOK
  <2>2. w[r].thr.pc \notin {"check", "native", "insert", "undo"}
    BY <1>4, <1>6 DEF Early, Flying
  <2> QED
    BY <1>5, <2>1, <2>2 DEF Thread
<1> QED
  BY <1>4, <1>6 DEF Early, Flying, Reads, Reading

\* The blocks of a plan that was given up by the scheduler are read by no rank.
LEMMA PinnedOK ==
    ASSUME IInv
    PROVE  SourcesPinned
<1>1. SUFFICES ASSUME NEW r \in Ranks, NEW q \in Requests, Reading(r, q), q \notin own, ~lease[q].held,
                      ~Has(inbox[r], "preempt", q), q \notin w[r].waived
               PROVE  FALSE
  BY DEF SourcesPinned, Overwritable, Has
<1>2. RankOK(Books, w[r], ring[r], inbox[r], Acks(r), Ends(r))
  BY DEF IInv, RanksOK
<1>3. Reads(ring[r], q)
  BY <1>1 DEF Reading, Reads
<1>4. plan[q] = "sent"
  <2>1. q \in Books.unsent => Unused(w[r], ring[r], q)
    BY <1>2 DEF RankOK, Related, UnknownOK
  <2>2. ~Unused(w[r], ring[r], q)
    BY <1>3 DEF Reads, Unused
  <2> QED
    BY <2>1, <2>2, BooksType DEF IInv
<1>5. mode \in {"jobs", "requests"}
  BY CaptureConstants DEF IInv, Scheduled
<1>6. CASE mode = "jobs"
  <2>1. r \in team.ranks
    BY <1>3 DEF IInv, Scheduled, Reads, NewRing
  <2>2. r \in lease[q].ranks
    BY <1>1, <1>4, <1>6, <2>1 DEF IInv, LeasesOK
  <2>3. q \in Acks(r)
    BY <1>1, <2>2 DEF Acks
  <2> QED
    BY <1>2, <1>3, <2>3 DEF RankOK, Related, AckOK
<1>7. CASE mode = "requests"
  <2>1. q \in Books.given /\ Books.mode = "requests"
    BY <1>1, <1>4, <1>7, BooksType DEF IInv
  <2> QED
    BY <1>1, <1>2, <1>3, <2>1 DEF RankOK, Related, FinishedOK
<1> QED
  BY <1>5, <1>6, <1>7

\* The saver's views are lent to it, and no other slot than a filling one is written.
LEMMA LentOK ==
    ASSUME IInv
    PROVE  ViewsLent
<1>1. ASSUME NEW r \in Ranks
      PROVE  TicketsOK(w[r], ring[r]) /\ RingOK(ring[r])
  BY DEF IInv, RanksOK, RankOK, Related
<1>2. ASSUME NEW r \in Ranks,
             NEW q \in w[r].ready \cup Range(w[r].storeq) \cup ({w[r].writer.q} \ {NoRequest})
      PROVE  \E t \in Tickets(w[r], q) :
                 Resolves(ring[r], t) /\ ring[r][t.slot].st = "writing" /\ ring[r][t.slot].ctx = q
  <2>1. q \in Lent(w[r])
    BY DEF Lent
  <2> QED
    BY <1>1, <2>1 DEF TicketsOK, Tickets
<1>3. \A r \in Ranks, s \in Slots : ring[r][s].busy => ring[r][s].st = "filling"
  BY <1>1 DEF RingOK
<1> QED
  BY <1>2, <1>3 DEF ViewsLent

\* A quarantined lease that ended was acknowledged by every rank.
LEMMA QuarantineOK ==
    ASSUME IInv
    PROVE  QuarantineHolds
<1>1. ASSUME NEW q \in Requests, NEW r \in Ranks, lease[q].quarantined, ~lease[q].held,
             q \notin w[r].waived
      PROVE  ~Reading(r, q) /\ (q \in w[r].failed => w[r].closed)
  <2>1. RankOK(Books, w[r], ring[r], inbox[r], Acks(r), Ends(r))
    BY DEF IInv, RanksOK
  <2>2. CASE plan[q] # "sent"
    <3>1. q \in Books.unsent
      BY <2>2, BooksType DEF IInv
    <3>2. Unused(w[r], ring[r], q)
      BY <2>1, <3>1 DEF RankOK, Related, UnknownOK
    <3> QED
      BY <3>2 DEF Unused, Reading
  <2>3. CASE plan[q] = "sent" /\ r \in team.ranks
    <3>1. mode = "jobs"
      BY <1>1, CaptureConstants DEF IInv, Scheduled, LeasesOK
    <3>2. r \in lease[q].ranks
      BY <1>1, <2>3, <3>1 DEF IInv, LeasesOK
    <3>3. q \in Acks(r)
      BY <1>1, <3>2 DEF Acks
    <3> QED
      BY <2>1, <3>3 DEF RankOK, Related, AckOK, Reads, Reading
  <2>4. CASE r \notin team.ranks
    <3>1. w[r] = NewWorker /\ ring[r] = NewRing
      BY <2>4 DEF IInv, Scheduled
    <3> QED
      BY <3>1 DEF NewWorker, NewRing, Reading
  <2> QED
    BY <2>2, <2>3, <2>4
<1> QED
  BY <1>1 DEF QuarantineHolds, IInv, LeasesOK

\* IInv is invariant.
LEMMA Invariant == Spec => []IInv
<1>1. Init => IInv
  BY InitOK
<1>2. IInv /\ [Next]_vars => IInv'
  BY NextOK
<1> QED
  BY <1>1, <1>2, PTL DEF Spec

\* What a rank acknowledged is over and never read again, unless wait_for_save skipped a
\* plan of it (_submit_queued_job, submit, quiesce).
THEOREM AcknowledgedReadsAreOver == Spec => []AcknowledgedIsOver
<1>1. IInv => AcknowledgedIsOver
  BY OverOK
<1> QED
  BY <1>1, Invariant, PTL

\* Source blocks are not overwritten under a gather, unless its rank answered without a
\* look at it, and no slot under its reader or its gather (CaptureReadLeases,
\* handle_preemptions, RingState).
THEOREM NothingIsReused == Spec => []NothingReused
<1>1. IInv => NothingReused
  BY PinnedOK, LentOK DEF NothingReused
<1> QED
  BY <1>1, Invariant, PTL

\* A lease whose read is uncertain is given back only when it is over on every rank that
\* did not skip a plan of it, and no lease is granted after it (quarantine).
THEOREM QuarantineIsKept == Spec => []QuarantineHolds
<1>1. IInv => QuarantineHolds
  BY QuarantineOK
<1> QED
  BY <1>1, Invariant, PTL

\* What the invariant says of one rank.
LEMMA BooksOfRank ==
    ASSUME IInv, NEW r \in Ranks
    PROVE  Booked(w[r], ring[r]) /\ w[r] \in WorkerRecord /\ RingOK(ring[r])
BY DEF IInv, RanksOK, RankOK

\* The admission of wait_for_save belongs to the one capture that is under way, or leaked.
LEMMA AdmissionOK ==
    ASSUME IInv
    PROVE  OneAdmission
<1>1. ASSUME NEW r \in Ranks, Running(w[r])
      PROVE  Cardinality(InProgress(w[r])) <= 1 /\ (w[r].inflight <=> InProgress(w[r]) # {} \/ w[r].leaked)
  <2>1. PICK X : X = InProgress(w[r])
    OBVIOUS
  <2>2. (\A p, q \in X : p = q) /\ (w[r].inflight <=> X # {} \/ w[r].leaked)
    BY <1>1, <2>1, BooksOfRank DEF Booked, AsksOne
  <2>3. CASE X = {}
    <3>1. Cardinality(X) = 0
      BY <2>3, FS_EmptySet
    <3> QED
      BY <2>1, <2>2, <3>1
  <2>4. CASE X # {}
    <3>1. PICK q : q \in X
      BY <2>4
    <3>2. X = {q}
      BY <2>2, <3>1
    <3>3. Cardinality(X) = 1
      BY <3>2, FS_Singleton
    <3> QED
      BY <2>1, <2>2, <3>3
  <2> QED
    BY <2>3, <2>4
<1> QED
  BY <1>1 DEF OneAdmission, Running

\* A shutdown leaves nothing behind.
LEMMA ClosedOK ==
    ASSUME IInv
    PROVE  ClosedOwnsNothing
<1>1. ASSUME NEW r \in Ranks, w[r].eng \in {"stop", "closed", "retained"}
      PROVE  /\ InProgress(w[r]) \ (Range(w[r].storeq) \cup {w[r].writer.q}) = {}
             /\ w[r].eng = "closed" => \A s \in Slots : ring[r][s].st = "free"
  <2>1. Booked(w[r], ring[r])
    BY BooksOfRank
  <2>2. /\ w[r].thr.pc \in {"idle", "dead"} /\ w[r].queued = {} /\ w[r].pending = {}
        /\ w[r].draining = {} /\ w[r].ready = {}
    BY <1>1, <2>1 DEF Booked, EndsClean, RoundOK
  <2>3. InProgress(w[r]) \subseteq Range(w[r].storeq) \cup {w[r].writer.q}
    BY <2>2 DEF InProgress
  <2> QED
    BY <2>1, <2>3 DEF Booked, EndsClean
<1> QED
  BY <1>1 DEF ClosedOwnsNothing

\* The types of all variables.
LEMMA TypesOK ==
    ASSUME IInv
    PROVE  TypeOK
<1>1. ASSUME NEW r \in Ranks
      PROVE  /\ RingTypeOK(ring[r]) /\ \A f \in WorkerSets : w[r][f] \subseteq Requests
             /\ w[r].inflight \in BOOLEAN /\ w[r].fatal \in BOOLEAN
  <2>1. w[r] \in WorkerRecord /\ RingOK(ring[r])
    BY BooksOfRank
  <2>2. RingTypeOK(ring[r])
    BY <2>1 DEF RingTypeOK, RingOK, SlotRecord
  <2>3. \A f \in WorkerSets : w[r][f] \subseteq Requests
    BY <2>1 DEF WorkerSets, WorkerRecord
  <2> QED
    BY <2>1, <2>2, <2>3 DEF WorkerRecord
<1> QED
  BY <1>1 DEF TypeOK, IInv, Scheduled

\* The books of a worker are right: types, the single admission of wait_for_save, and what
\* a worker owns once it has shut down (_finish_store, quiesce, shutdown).
THEOREM BooksAreRight == Spec => []Accounted
<1>1. IInv => Accounted
  BY TypesOK, AdmissionOK, ClosedOK DEF Accounted
<1> QED
  BY <1>1, Invariant, PTL
=============================================================================
