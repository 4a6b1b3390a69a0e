------------------------- MODULE QuorumReportsProofs -------------------------
(***************************************************************************)
(* TLAPS proofs about QuorumReports, for every number of ranks, every set  *)
(* of digests and every value of the limits.                               *)
(*                                                                         *)
(* Exactness of the scheduler's belief is not inductive by itself.  It is  *)
(* strengthened with what the reports under way say: a delta is the true   *)
(* difference of two consecutive inventories, a checkpoint chunk is part   *)
(* of the inventory its number stands for and states its true size.  The   *)
(* set "meaning" only grows, so these facts stay true under way.           *)
(*                                                                         *)
(* That a settled rank is in step needs the order of what is under way:    *)
(* every report is older than what the worker reports next, those built    *)
(* since the last disturbance are consecutive chunks of one inventory, and *)
(* after n of them the scheduler has assembled n chunks or is in step.     *)
(***************************************************************************)
EXTENDS QuorumReports, FiniteSetTheorems, WellFoundedInduction, TLAPS

Meanings == [Sequences0 -> SUBSET SUBSET Digests]

OneMeaning(M) == \A n \in Sequences0 : \A S, T \in M[n] : S = T

TrueDelta(M, d) ==
    d.seq = 0 \/ \E S \in M[d.seq - 1], T \in M[d.seq] :
                    d.added = T \ S /\ d.removed = S \ T

TrueChunk(M, c) == \E T \in M[c.seq] : c.held \subseteq T /\ c.size = Cardinality(T)

TrueAssembly(M, a) ==
    a.cycle = 0 \/ \E T \in M[a.seq] :
                      a.size = Cardinality(T) /\ \A k \in a.chunks : k.held \subseteq T

TruePeer(M, p) ==
    /\ p.held \in M[p.seq]
    /\ \A q \in p.pending : q.seq > 0 /\ TrueDelta(M, q)
    /\ TrueAssembly(M, p.ckpt)

\* What every step inside a handler keeps; SoundPeer is what the handler leaves.
WeakPeer(p) ==
    /\ p.offered \subseteq p.held
    /\ p.need => p.desync
    /\ p.desync => p.offered = {}

SoundPeer(p) == WeakPeer(p) /\ (p.pending # {} => p.desync)
-----------------------------------------------------------------------------
\* Every nonempty set of natural numbers has a least element.
LEMMA LeastElement ==
  ASSUME NEW S, S \subseteq Nat, S # {}
  PROVE  \E m \in S : \A k \in S : m <= k
<1> DEFINE R == {ss \in Nat \X Nat : ss[1] < ss[2]}
<1>1. IsWellFoundedOn(R, Nat)
  BY NatLessThanWellFounded, Zenon DEF OpToRel
<1> HIDE DEF R
<1>2. PICK x \in S : \A y \in S : ~ (<<y, x>> \in R)
  BY <1>1, WFMin, Zenon
<1>3. ASSUME NEW y \in S PROVE x <= y
  <2>1. ASSUME y < x PROVE FALSE
    <3>1. <<y, x>> \in Nat \X Nat /\ <<y, x>>[1] < <<y, x>>[2]
      BY <2>1, S \subseteq Nat
    <3>2. <<y, x>> \in R
      BY <3>1, Zenon DEF R
    <3> QED BY <3>2, <1>2
  <2> QED BY <2>1
<1> QED BY <1>3

\* A nonempty set of deltas has one with the largest sequence number.
LEMMA LatestIsLast ==
  ASSUME NEW Q \in SUBSET Deltas, Q # {}
  PROVE  Latest(Q) \in Q /\ \A e \in Q : e.seq <= Latest(Q).seq
<1> DEFINE D == {MaxSequence - q.seq : q \in Q}
<1>1. D \subseteq Nat /\ D # {}
  BY QuorumConstants DEF Deltas, Sequences0
<1>2. PICK m \in D : \A k \in D : m <= k
  BY <1>1, LeastElement
<1>3. PICK q \in Q : m = MaxSequence - q.seq
  BY <1>2
<1>4. ASSUME NEW e \in Q PROVE e.seq <= q.seq
  <2>1. m <= MaxSequence - e.seq
    BY <1>2
  <2> QED BY <2>1, <1>3, QuorumConstants DEF Deltas, Sequences0
<1> QED BY <1>3, <1>4 DEF Latest

\* A digest that no delta between two sequences touches is in both
\* inventories or in neither.
LEMMA Untouched ==
  ASSUME NEW M \in Meanings, OneMeaning(M),
         NEW d, NEW m \in Sequences0, NEW n \in Sequences0, m <= n,
         \A j \in (m + 1) .. n : \E S \in M[j - 1], T \in M[j] : d \in S <=> d \in T,
         NEW U \in M[m], NEW V \in M[n]
  PROVE  d \in U <=> d \in V
<1> DEFINE Bad == {j \in m .. n : \E W \in M[j] : ~(d \in W <=> d \in U)}
<1>1. Bad \subseteq Nat
  BY DEF Sequences0
<1>2. SUFFICES ASSUME Bad # {} PROVE FALSE
  <2>1. n \in m .. n
    BY DEF Sequences0
  <2> QED BY <2>1
<1>3. PICK j \in Bad : \A k \in Bad : j <= k
  BY <1>1, <1>2, LeastElement
<1>4. PICK W \in M[j] : ~(d \in W <=> d \in U)
  BY <1>3
<1>5. j # m
  BY <1>4 DEF OneMeaning
<1>6. j \in (m + 1) .. n /\ j \in Sequences0 /\ j - 1 \in m .. n
  BY <1>3, <1>5, QuorumConstants DEF Sequences0
<1>7. PICK S \in M[j - 1], T \in M[j] : d \in S <=> d \in T
  BY <1>6
<1>8. T = W
  BY <1>4, <1>6, <1>7 DEF OneMeaning
<1>9. j - 1 \in Bad
  BY <1>4, <1>6, <1>7, <1>8
<1> QED BY <1>3, <1>6, <1>9 DEF Sequences0
-----------------------------------------------------------------------------
(***************************************************************************)
(* The helpers on one rank's record.                                       *)
(***************************************************************************)
LEMMA ContiguousFacts ==
  ASSUME NEW p \in Peers
  PROVE  /\ Contiguous(p) \in SUBSET Deltas
         /\ Contiguous(p) \subseteq p.pending
         /\ \A q \in Contiguous(p) : p.seq < q.seq
BY DEF Contiguous, Peers

LEMMA AppliedType ==
  ASSUME NEW S, NEW Q
  PROVE  Applied(S, Q) \subseteq Digests
BY DEF Applied

LEMMA AppliedMonotone ==
  ASSUME NEW S, NEW T, NEW Q, S \subseteq T
  PROVE  Applied(S, Q) \subseteq Applied(T, Q)
BY DEF Applied

\* Applying the deltas that extend the accepted sequence without a gap yields
\* the inventory that the last of them stands for.
LEMMA AppliedIsExact ==
  ASSUME NEW M \in Meanings, OneMeaning(M), NEW p \in Peers, TruePeer(M, p),
         Contiguous(p) # {}
  PROVE  Applied(p.held, Contiguous(p)) \in M[Latest(Contiguous(p)).seq]
<1> DEFINE Q == Contiguous(p)
           n == Latest(Q).seq
<1>1. Q \in SUBSET Deltas /\ Q \subseteq p.pending /\ \A q \in Q : p.seq < q.seq
  BY ContiguousFacts
<1>2. Latest(Q) \in Q /\ \A e \in Q : e.seq <= n
  BY <1>1, LatestIsLast
<1>3. n \in Sequences0 /\ p.seq \in Sequences0 /\ p.seq < n
  BY <1>1, <1>2 DEF Deltas, Peers
<1>4. ASSUME NEW q \in Q
      PROVE  \E S \in M[q.seq - 1], T \in M[q.seq] : q.added = T \ S /\ q.removed = S \ T
  BY <1>1 DEF TruePeer, TrueDelta
<1>5. ASSUME NEW j \in (p.seq + 1) .. n
      PROVE  \E e \in Q : e.seq = j
  <2>1. PICK e \in p.pending : e.seq = j
    BY <1>2 DEF Contiguous
  <2>2. \A i \in (p.seq + 1) .. j : i \in (p.seq + 1) .. n
    BY <1>3, QuorumConstants DEF Sequences0
  <2>3. \A i \in (p.seq + 1) .. e.seq : \E f \in p.pending : f.seq = i
    BY <1>2, <2>1, <2>2 DEF Contiguous
  <2>4. e.seq > p.seq
    BY <2>1, <1>3 DEF Sequences0
  <2> QED BY <2>1, <2>3, <2>4 DEF Contiguous
<1>6. PICK V \in M[n] : TRUE
  BY <1>2, <1>4
<1>7. ASSUME NEW d \in Digests, NEW m \in Sequences0, p.seq <= m, m <= n,
             NEW U \in M[m],
             \A q \in Q : q.seq > m => d \notin q.added \cup q.removed
      PROVE  d \in U <=> d \in V
  <2>1. ASSUME NEW j \in (m + 1) .. n
        PROVE  \E S \in M[j - 1], T \in M[j] : d \in S <=> d \in T
    <3>1. j \in (p.seq + 1) .. n /\ j > m
      BY <1>3, <1>7, QuorumConstants DEF Sequences0
    <3>2. PICK e \in Q : e.seq = j
      BY <3>1, <1>5
    <3>3. PICK S \in M[j - 1], T \in M[j] : e.added = T \ S /\ e.removed = S \ T
      BY <1>4, <3>2
    <3>4. d \notin T \ S /\ d \notin S \ T
      BY <1>7, <3>1, <3>2, <3>3
    <3> QED BY <3>3, <3>4
  <2> QED BY <1>3, <1>6, <1>7, <2>1, Untouched
<1>8. ASSUME NEW d \in Digests
      PROVE  d \in Applied(p.held, Q) <=> d \in V
  <2> DEFINE touching == {q \in Q : d \in q.added \cup q.removed}
  <2>1. CASE touching = {}
    <3>1. d \in p.held <=> d \in V
      BY <1>3, <1>7, <2>1 DEF TruePeer, Sequences0
    <3> QED BY <2>1, <3>1 DEF Applied
  <2>2. CASE touching # {}
    <3> DEFINE t == Latest(touching)
    <3>1. t \in touching /\ \A e \in touching : e.seq <= t.seq
      BY <1>1, <2>2, LatestIsLast
    <3>2. t.seq \in Sequences0 /\ p.seq <= t.seq /\ t.seq <= n
      BY <1>1, <1>2, <1>3, <3>1, QuorumConstants DEF Deltas, Sequences0
    <3>3. PICK S \in M[t.seq - 1], T \in M[t.seq] : t.added = T \ S /\ t.removed = S \ T
      BY <1>4, <3>1
    <3>4. \A q \in Q : q.seq > t.seq => d \notin q.added \cup q.removed
      BY <1>1, <3>1, <3>2, QuorumConstants DEF Deltas, Sequences0
    <3>5. d \in T <=> d \in V
      BY <1>7, <3>2, <3>3, <3>4
    <3>6. d \in t.added <=> d \in T
      BY <3>1, <3>3
    <3> QED BY <2>2, <3>5, <3>6 DEF Applied
  <2> QED BY <2>1, <2>2
<1>9. V \subseteq Digests
  BY <1>3, <1>6 DEF Meanings
<1>10. Applied(p.held, Q) = V
  BY <1>8, <1>9, AppliedType
<1> QED BY <1>6, <1>10

\* A desynchronized rank offers nothing and keeps everything else.
LEMMA MarkFacts ==
  ASSUME NEW p \in Peers, p.offered \subseteq p.held, p.desync => p.offered = {}
  PROVE  LET m == MarkDesynchronized(p) IN
         /\ m \in Peers /\ WeakPeer(m) /\ m.desync
         /\ m.gen = p.gen /\ m.seq = p.seq /\ m.held = p.held
         /\ m.pending = p.pending /\ m.ckpt = p.ckpt /\ m.need = p.need
BY DEF MarkDesynchronized, Peers, WeakPeer

LEMMA RequireFacts ==
  ASSUME NEW p \in Peers, WeakPeer(p)
  PROVE  LET m == RequireCheckpoint(p) IN
         /\ m \in Peers /\ SoundPeer(m)
         /\ m.gen = p.gen /\ m.seq = p.seq /\ m.held = p.held
         /\ m.pending = p.pending /\ m.ckpt = p.ckpt
<1> DEFINE n == [p EXCEPT !.need = TRUE]
<1>1. n \in Peers /\ n.offered \subseteq n.held /\ (n.desync => n.offered = {})
  BY DEF Peers, WeakPeer
<1>2. n.gen = p.gen /\ n.seq = p.seq /\ n.held = p.held /\ n.pending = p.pending
      /\ n.ckpt = p.ckpt
  BY DEF Peers
<1> HIDE DEF n
<1>3. RequireCheckpoint(p) = MarkDesynchronized(n)
  BY DEF RequireCheckpoint, n
<1> QED BY <1>1, <1>2, <1>3, MarkFacts DEF SoundPeer

LEMMA ApplyFacts ==
  ASSUME NEW p \in Peers, WeakPeer(p)
  PROVE  /\ ApplyDeltas(p) \in Peers /\ WeakPeer(ApplyDeltas(p))
         /\ ApplyDeltas(p).gen = p.gen
         /\ ApplyDeltas(p).seq >= p.seq
         /\ \A M \in Meanings : OneMeaning(M) /\ TruePeer(M, p) => TruePeer(M, ApplyDeltas(p))
<1> DEFINE Q == Contiguous(p)
           a == ApplyDeltas(p)
<1>1. CASE Q = {}
  <2>1. a = p
    BY <1>1 DEF ApplyDeltas
  <2> QED BY <2>1 DEF Peers, Sequences0
<1>2. CASE Q # {}
  <2>1. Q \in SUBSET Deltas /\ Q \subseteq p.pending /\ \A q \in Q : p.seq < q.seq
    BY ContiguousFacts
  <2>2. Latest(Q) \in Q
    BY <1>2, <2>1, LatestIsLast
  <2>3. Latest(Q).seq \in Sequences0 /\ p.seq < Latest(Q).seq
    BY <2>1, <2>2 DEF Deltas
  <2> DEFINE held == Applied(p.held, Q)
             offered == IF p.desync THEN p.offered ELSE Applied(p.offered, Q)
  <2>4. held \subseteq Digests /\ Applied(p.offered, Q) \subseteq held
    BY AppliedType, AppliedMonotone DEF WeakPeer
  <2>5. offered \subseteq held /\ (p.desync => offered = {})
    BY <2>4 DEF WeakPeer
  <2>6. a = [p EXCEPT !.seq = Latest(Q).seq, !.held = held, !.pending = p.pending \ Q,
                      !.offered = offered]
    BY <1>2 DEF ApplyDeltas, Peers
  <2> HIDE DEF held, offered, a, Q
  <2>7. a \in Peers
    BY <2>3, <2>4, <2>5, <2>6 DEF Peers
  <2>8. /\ a.gen = p.gen /\ a.seq = Latest(Q).seq /\ a.held = held
        /\ a.pending = p.pending \ Q /\ a.offered = offered /\ a.ckpt = p.ckpt
        /\ a.need = p.need /\ a.desync = p.desync
    BY <2>6 DEF Peers
  <2>9. WeakPeer(a)
    BY <2>5, <2>8 DEF WeakPeer
  <2>10. a.seq >= p.seq
    BY <2>3, <2>8 DEF Peers, Sequences0
  <2>11. ASSUME NEW M \in Meanings, OneMeaning(M), TruePeer(M, p)
         PROVE  TruePeer(M, a)
    <3>1. held \in M[Latest(Q).seq]
      BY <1>2, <2>11, AppliedIsExact DEF held, Q
    <3> QED BY <2>8, <2>11, <3>1 DEF TruePeer
  <2> QED BY <2>7, <2>8, <2>9, <2>10, <2>11 DEF a
<1> QED BY <1>1, <1>2

\* After the loop a rank is synchronized exactly when nothing is missing.
LEMMA DrainFacts ==
  ASSUME NEW p \in Peers, WeakPeer(p)
  PROVE  /\ DrainDeltas(p) \in Peers /\ SoundPeer(DrainDeltas(p))
         /\ DrainDeltas(p).gen = p.gen
         /\ DrainDeltas(p).seq >= p.seq
         /\ \A M \in Meanings : OneMeaning(M) /\ TruePeer(M, p) => TruePeer(M, DrainDeltas(p))
<1> DEFINE a == ApplyDeltas(p)
<1>1. /\ a \in Peers /\ WeakPeer(a) /\ a.gen = p.gen /\ a.seq >= p.seq
      /\ \A M \in Meanings : OneMeaning(M) /\ TruePeer(M, p) => TruePeer(M, a)
  BY ApplyFacts
<1> HIDE DEF a
<1>2. /\ Resume(a) \in Peers /\ SoundPeer(Resume(a))
      /\ Resume(a).gen = a.gen /\ Resume(a).seq = a.seq
      /\ Resume(a).held = a.held /\ Resume(a).pending = a.pending
      /\ Resume(a).ckpt = a.ckpt
  <2>1. CASE a.pending # {} \/ a.need
    <3>1. Resume(a) = MarkDesynchronized(a)
      BY <2>1 DEF Resume
    <3> QED BY <1>1, <3>1, MarkFacts DEF WeakPeer, SoundPeer
  <2>2. CASE ~(a.pending # {} \/ a.need) /\ a.desync
    <3>1. Resume(a) = [a EXCEPT !.desync = FALSE, !.offered = @ \cup a.held]
      BY <2>2 DEF Resume
    <3> QED BY <1>1, <2>2, <3>1 DEF Peers, WeakPeer, SoundPeer
  <2>3. CASE ~(a.pending # {} \/ a.need) /\ ~a.desync
    <3>1. Resume(a) = a
      BY <2>3 DEF Resume
    <3> QED BY <1>1, <2>3, <3>1 DEF SoundPeer
  <2> QED BY <2>1, <2>2, <2>3
<1>3. DrainDeltas(p) = Resume(a)
  BY DEF DrainDeltas, a
<1> QED BY <1>1, <1>2, <1>3 DEF TruePeer

LEMMA MakeRoomFacts ==
  ASSUME NEW p \in Peers, WeakPeer(p)
  PROVE  LET m == MakeRoom(p) IN
         /\ m \in Peers /\ WeakPeer(m)
         /\ m.gen = p.gen /\ m.seq = p.seq /\ m.held = p.held
         /\ m.pending \subseteq p.pending /\ m.ckpt = p.ckpt
<1> DEFINE n == [p EXCEPT !.pending = @ \ {Latest(p.pending)}]
<1>1. n \in Peers /\ WeakPeer(n)
  BY DEF Peers, WeakPeer
<1>2. n.gen = p.gen /\ n.seq = p.seq /\ n.held = p.held /\ n.pending \subseteq p.pending
      /\ n.ckpt = p.ckpt
  BY DEF Peers
<1>3. MakeRoom(p) = p \/ MakeRoom(p) = RequireCheckpoint(n)
  BY DEF MakeRoom
<1> HIDE DEF n
<1> QED BY <1>1, <1>2, <1>3, RequireFacts DEF SoundPeer

\* _absorb_worker_delta keeps the record consistent and, fed with a true
\* delta, exact.
LEMMA AbsorbDeltaFacts ==
  ASSUME NEW p \in Peers, SoundPeer(p), NEW d \in Deltas
  PROVE  /\ AbsorbDelta(p, d) \in Peers /\ SoundPeer(AbsorbDelta(p, d))
         /\ AbsorbDelta(p, d).gen = p.gen
         /\ AbsorbDelta(p, d).seq >= p.seq
         /\ \A M \in Meanings : OneMeaning(M) /\ TruePeer(M, p) /\ TrueDelta(M, d)
              => TruePeer(M, AbsorbDelta(p, d))
<1> DEFINE kept == [MakeRoom(p) EXCEPT !.pending = @ \cup {d}]
           next == IF d.seq = p.seq + 1 THEN kept ELSE MarkDesynchronized(kept)
<1>0. WeakPeer(p) /\ p.seq \in Nat /\ d.seq \in Nat
  BY DEF SoundPeer, Peers, Deltas, Sequences0
<1>1. /\ kept \in Peers /\ WeakPeer(kept) /\ kept.gen = p.gen /\ kept.seq = p.seq
      /\ kept.held = p.held /\ kept.ckpt = p.ckpt /\ kept.pending \subseteq p.pending \cup {d}
  <2> DEFINE m == MakeRoom(p)
  <2>1. /\ m \in Peers /\ WeakPeer(m) /\ m.gen = p.gen /\ m.seq = p.seq /\ m.held = p.held
        /\ m.pending \subseteq p.pending /\ m.ckpt = p.ckpt
    BY <1>0, MakeRoomFacts
  <2> HIDE DEF m
  <2>2. kept = [m EXCEPT !.pending = @ \cup {d}]
    BY DEF m
  <2> HIDE DEF kept
  <2> QED BY <2>1, <2>2 DEF Peers, WeakPeer
<1> HIDE DEF kept
<1>2. /\ next \in Peers /\ WeakPeer(next) /\ next.gen = p.gen /\ next.seq = p.seq
      /\ next.held = p.held /\ next.ckpt = p.ckpt /\ next.pending \subseteq p.pending \cup {d}
  BY <1>1, MarkFacts DEF WeakPeer
<1> HIDE DEF next
<1>3. \/ AbsorbDelta(p, d) = p
      \/ AbsorbDelta(p, d) = RequireCheckpoint(p)
      \/ d.seq > p.seq /\ AbsorbDelta(p, d) = DrainDeltas(next)
  BY <1>0 DEF AbsorbDelta, next, kept
<1>4. CASE AbsorbDelta(p, d) = p
  BY <1>0, <1>4
<1>5. CASE AbsorbDelta(p, d) = RequireCheckpoint(p)
  BY <1>0, <1>5, RequireFacts DEF TruePeer
<1>6. CASE d.seq > p.seq /\ AbsorbDelta(p, d) = DrainDeltas(next)
  <2>1. ASSUME NEW M \in Meanings, TruePeer(M, p), TrueDelta(M, d)
        PROVE  TruePeer(M, next)
    BY <1>0, <1>2, <1>6, <2>1 DEF TruePeer
  <2> QED BY <1>2, <1>6, <2>1, DrainFacts
<1> QED BY <1>3, <1>4, <1>5, <1>6

\* A set of true chunks whose number of digests is the true one is the whole
\* inventory.
LEMMA WholeInventory ==
  ASSUME NEW M \in Meanings, NEW a \in Assemblies, a.cycle # 0, TrueAssembly(M, a),
         Cardinality(UNION {k.held : k \in a.chunks}) = a.size
  PROVE  UNION {k.held : k \in a.chunks} \in M[a.seq]
<1> DEFINE whole == UNION {k.held : k \in a.chunks}
<1>1. PICK T \in M[a.seq] : a.size = Cardinality(T) /\ \A k \in a.chunks : k.held \subseteq T
  BY DEF TrueAssembly
<1>2. whole \subseteq T
  BY <1>1
<1>3. T \subseteq Digests
  BY DEF Meanings, Assemblies
<1>4. IsFiniteSet(T)
  BY <1>3, QuorumConstants, FS_Subset
<1>5. whole = T
  BY <1>1, <1>2, <1>4, FS_Subset
<1> QED BY <1>5

LEMMA InstallFacts ==
  ASSUME NEW p \in Peers, WeakPeer(p), NEW a \in Assemblies, a.cycle # 0, a.seq >= p.seq
  PROVE  /\ InstallCheckpoint(p, a) \in Peers /\ SoundPeer(InstallCheckpoint(p, a))
         /\ InstallCheckpoint(p, a).gen = p.gen
         /\ InstallCheckpoint(p, a).seq >= p.seq
         /\ \A M \in Meanings : OneMeaning(M) /\ TruePeer(M, p) /\ TrueAssembly(M, a)
              => TruePeer(M, InstallCheckpoint(p, a))
<1> DEFINE whole == UNION {k.held : k \in a.chunks}
           full == [p EXCEPT !.ckpt = a]
           new == [p EXCEPT !.held = whole, !.seq = a.seq, !.offered = {},
                            !.pending = {q \in p.pending : q.seq > a.seq},
                            !.need = FALSE, !.ckpt = NoCheckpoint, !.desync = TRUE]
<1>0. whole \subseteq Digests /\ NoCheckpoint \in Assemblies /\ p.seq \in Nat
  BY QuorumConstants DEF Assemblies, Chunks, NoCheckpoint, Sequences0, Peers
<1>1. CASE Cardinality(whole) # a.size
  <2>1. InstallCheckpoint(p, a) = RequireCheckpoint(full)
    BY <1>1 DEF InstallCheckpoint
  <2>2. full \in Peers /\ WeakPeer(full)
    BY DEF Peers, WeakPeer
  <2>3. /\ full.gen = p.gen /\ full.seq = p.seq /\ full.held = p.held
        /\ full.pending = p.pending /\ full.ckpt = a
    BY DEF Peers
  <2> HIDE DEF full
  <2> QED BY <1>0, <2>1, <2>2, <2>3, RequireFacts DEF TruePeer
<1>2. CASE Cardinality(whole) = a.size
  <2>1. InstallCheckpoint(p, a) = DrainDeltas(new)
    BY <1>2 DEF InstallCheckpoint, Peers
  <2>2. /\ new.gen = p.gen /\ new.seq = a.seq /\ new.held = whole /\ new.offered = {}
        /\ new.pending = {q \in p.pending : q.seq > a.seq} /\ new.ckpt = NoCheckpoint
        /\ new.need = FALSE /\ new.desync = TRUE
    BY DEF Peers
  <2>3. new \in Peers
    BY <1>0 DEF Peers, Assemblies
  <2>4. WeakPeer(new)
    BY <2>2 DEF WeakPeer
  <2>5. ASSUME NEW M \in Meanings, TruePeer(M, p), TrueAssembly(M, a)
        PROVE  TruePeer(M, new)
    <3>1. whole \in M[a.seq]
      BY <1>2, <2>5, WholeInventory
    <3>2. TrueAssembly(M, NoCheckpoint)
      BY DEF TrueAssembly, NoCheckpoint
    <3> HIDE DEF new, whole
    <3> QED BY <2>2, <2>5, <3>1, <3>2 DEF TruePeer
  <2> HIDE DEF new, whole
  <2>6. DrainDeltas(new).seq >= p.seq
    <3>1. DrainDeltas(new).seq >= a.seq /\ DrainDeltas(new).seq \in Nat
      BY <2>2, <2>3, <2>4, DrainFacts DEF Peers, Sequences0
    <3> QED BY <1>0, <3>1 DEF Assemblies, Sequences0
  <2> QED BY <2>1, <2>2, <2>3, <2>4, <2>5, <2>6, DrainFacts
<1> QED BY <1>1, <1>2

LEMMA AddChunkFacts ==
  ASSUME NEW p \in Peers, SoundPeer(p), NEW c \in Checkpoints, c.cycle >= 1, c.seq >= p.seq
  PROVE  /\ AddChunk(p, c) \in Peers /\ SoundPeer(AddChunk(p, c))
         /\ AddChunk(p, c).gen = p.gen
         /\ AddChunk(p, c).seq >= p.seq
         /\ \A M \in Meanings : OneMeaning(M) /\ TruePeer(M, p) /\ TrueChunk(M, c)
              => TruePeer(M, AddChunk(p, c))
<1> DEFINE a == Assembling(p, c)
           k == [index |-> c.index, held |-> c.held]
           b == [a EXCEPT !.chunks = @ \cup {k}]
<1>0. /\ p.seq \in Nat /\ p.ckpt \in Assemblies /\ p.ckpt.seq \in Nat /\ p.ckpt.cycle \in Nat
      /\ c.seq \in Nat /\ c.cycle \in Nat /\ WeakPeer(p) /\ k \in Chunks
  BY DEF Peers, Assemblies, Checkpoints, Chunks, Sequences0, SoundPeer
<1>1. CASE Before(c, p.ckpt)
  <2>1. AddChunk(p, c) = p
    BY <1>1 DEF AddChunk
  <2> QED BY <1>0, <2>1
<1>2. CASE ~Before(c, p.ckpt)
  <2>1. a \in Assemblies /\ a.seq = c.seq /\ a.cycle = c.cycle
    BY <1>0, <1>2 DEF Assembling, Before, Assemblies, Checkpoints
  <2>2. ASSUME NEW M \in Meanings, OneMeaning(M), TruePeer(M, p), TrueChunk(M, c),
               ~Conflicting(a, c)
        PROVE  TrueAssembly(M, b)
    <3>1. PICK T \in M[c.seq] : c.held \subseteq T /\ c.size = Cardinality(T)
      BY <2>2 DEF TrueChunk
    <3>2. a.size = c.size
      BY <2>2 DEF Conflicting
    <3>3. \A e \in a.chunks : e.held \subseteq T
      <4>1. CASE Before(p.ckpt, c)
        BY <4>1 DEF Assembling
      <4>2. CASE ~Before(p.ckpt, c)
        <5>1. a = p.ckpt
          BY <4>2 DEF Assembling
        <5>2. a.cycle # 0
          BY <2>1
        <5>3. PICK U \in M[a.seq] : \A e \in a.chunks : e.held \subseteq U
          BY <2>2, <5>1, <5>2 DEF TruePeer, TrueAssembly
        <5>4. U = T
          BY <2>1, <2>2, <3>1, <5>3 DEF OneMeaning, Checkpoints
        <5> QED BY <5>3, <5>4
      <4> QED BY <4>1, <4>2
    <3>4. b.seq = c.seq /\ b.size = c.size /\ b.chunks = a.chunks \cup {k}
      BY <2>1, <3>2 DEF Assemblies
    <3>5. \A e \in b.chunks : e.held \subseteq T
      BY <3>1, <3>3, <3>4
    <3> HIDE DEF b
    <3> QED BY <3>1, <3>4, <3>5 DEF TrueAssembly
  <2>3. b \in Assemblies /\ b.seq = c.seq /\ b.cycle = c.cycle
    BY <1>0, <2>1 DEF Assemblies
  <2>4. \/ Conflicting(a, c) /\ AddChunk(p, c) = RequireCheckpoint(p)
        \/ ~Conflicting(a, c) /\ AddChunk(p, c) = [p EXCEPT !.ckpt = b]
        \/ ~Conflicting(a, c) /\ AddChunk(p, c) = InstallCheckpoint(p, b)
    BY <1>2 DEF AddChunk
  <2> HIDE DEF a, b
  <2>5. CASE Conflicting(a, c) /\ AddChunk(p, c) = RequireCheckpoint(p)
    BY <1>0, <2>5, RequireFacts DEF TruePeer
  <2>6. CASE ~Conflicting(a, c) /\ AddChunk(p, c) = [p EXCEPT !.ckpt = b]
    <3> DEFINE n == [p EXCEPT !.ckpt = b]
    <3>1. n \in Peers /\ SoundPeer(n)
      BY <2>3 DEF Peers, SoundPeer, WeakPeer
    <3>2. n.gen = p.gen /\ n.seq = p.seq /\ n.held = p.held /\ n.pending = p.pending
          /\ n.ckpt = b
      BY DEF Peers
    <3> HIDE DEF n
    <3>3. AddChunk(p, c) = n
      BY <2>6 DEF n
    <3> QED BY <1>0, <2>2, <2>6, <3>1, <3>2, <3>3 DEF TruePeer
  <2>7. CASE ~Conflicting(a, c) /\ AddChunk(p, c) = InstallCheckpoint(p, b)
    <3>1. b.cycle # 0 /\ b.seq >= p.seq
      BY <1>0, <2>3
    <3> QED BY <1>0, <2>2, <2>3, <2>7, <3>1, InstallFacts
  <2> QED BY <2>4, <2>5, <2>6, <2>7
<1> QED BY <1>1, <1>2

LEMMA AbsorbCheckpointFacts ==
  ASSUME NEW p \in Peers, SoundPeer(p), NEW c \in Checkpoints
  PROVE  /\ AbsorbCheckpoint(p, c) \in Peers /\ SoundPeer(AbsorbCheckpoint(p, c))
         /\ AbsorbCheckpoint(p, c).gen = p.gen
         /\ AbsorbCheckpoint(p, c).seq >= p.seq
         /\ \A M \in Meanings : OneMeaning(M) /\ TruePeer(M, p) /\ TrueChunk(M, c)
              => TruePeer(M, AbsorbCheckpoint(p, c))
<1> DEFINE n == [p EXCEPT !.ckpt = NoCheckpoint]
           m == IF c.seq > p.seq THEN MarkDesynchronized(p) ELSE p
<1>0. p.seq \in Nat /\ c.seq \in Nat /\ NoCheckpoint \in Assemblies
  BY QuorumConstants DEF Peers, Checkpoints, Sequences0, Assemblies, NoCheckpoint
<1>1. /\ n \in Peers /\ SoundPeer(n) /\ n.gen = p.gen /\ n.seq = p.seq /\ n.held = p.held
      /\ n.pending = p.pending /\ n.ckpt = NoCheckpoint
  BY <1>0 DEF Peers, SoundPeer, WeakPeer
<1>2. /\ m \in Peers /\ SoundPeer(m) /\ m.gen = p.gen /\ m.seq = p.seq /\ m.held = p.held
      /\ m.pending = p.pending /\ m.ckpt = p.ckpt
  BY MarkFacts DEF SoundPeer, WeakPeer
<1>3. \/ AbsorbCheckpoint(p, c) = p
      \/ AbsorbCheckpoint(p, c) = n
      \/ c.cycle >= 1 /\ c.seq >= p.seq /\ AbsorbCheckpoint(p, c) = AddChunk(m, c)
  BY <1>0 DEF AbsorbCheckpoint, WellFormedCheckpoint
<1> HIDE DEF n, m
<1>4. CASE AbsorbCheckpoint(p, c) = p
  BY <1>0, <1>4
<1>5. CASE AbsorbCheckpoint(p, c) = n
  <2>1. \A M : TrueAssembly(M, NoCheckpoint)
    BY DEF TrueAssembly, NoCheckpoint
  <2> QED BY <1>0, <1>1, <1>5, <2>1 DEF TruePeer
<1>6. CASE c.cycle >= 1 /\ c.seq >= p.seq /\ AbsorbCheckpoint(p, c) = AddChunk(m, c)
  BY <1>2, <1>6, AddChunkFacts DEF TruePeer
<1> QED BY <1>3, <1>4, <1>5, <1>6

LEMMA TrimType ==
  ASSUME NEW X, NEW s \in Seq(X), NEW n \in Nat \ {0}
  PROVE  /\ Trim(s, n) \in Seq(X)
         /\ s # <<>> => Trim(s, n) # <<>>
         /\ \A i \in DOMAIN Trim(s, n) : \E j \in DOMAIN s : Trim(s, n)[i] = s[j]
<1>1. CASE Len(s) > n
  <2> DEFINE t == SubSeq(s, Len(s) - n + 1, Len(s))
  <2>1. Trim(s, n) = t
    BY <1>1 DEF Trim
  <2>2. Len(t) = n /\ t \in Seq(X)
    BY <1>1
  <2>3. ASSUME NEW i \in 1 .. n
        PROVE  /\ i + Len(s) - n \in DOMAIN s
               /\ t[i] = s[i + Len(s) - n]
    BY <1>1
  <2>4. DOMAIN t = 1 .. n
    BY <2>2
  <2>5. t # <<>>
    BY <2>2
  <2> HIDE DEF t
  <2> QED BY <2>1, <2>2, <2>3, <2>4, <2>5
<1>2. CASE ~(Len(s) > n)
  BY <1>2 DEF Trim
<1> QED BY <1>1, <1>2

\* A new generation starts from the empty inventory under sequence 0.
LEMMA AcceptFacts ==
  ASSUME NEW p \in Peers, SoundPeer(p), NEW g \in Generations
  PROVE  /\ AcceptGeneration(p, g) \in Peers /\ SoundPeer(AcceptGeneration(p, g))
         /\ AcceptGeneration(p, g).gen = g
         /\ p.gen = g => AcceptGeneration(p, g) = p
         /\ \A M \in Meanings : (p.gen = g => TruePeer(M, p)) /\ {} \in M[0]
              => TruePeer(M, AcceptGeneration(p, g))
<1>1. CASE p.gen = g
  <2>1. AcceptGeneration(p, g) = p
    BY <1>1 DEF AcceptGeneration
  <2> QED BY <1>1, <2>1
<1>2. CASE p.gen # g
  <2> DEFINE ret == IF p.gen = NoGeneration THEN p.retired
                    ELSE Trim(Append(p.retired, p.gen), RetiredLimit)
             q == [p EXCEPT !.retired = ret]
             n == BeginGeneration(q, g)
  <2>1. ret \in Seq(Generations)
    <3>1. p.gen # NoGeneration => Append(p.retired, p.gen) \in Seq(Generations)
      BY DEF Peers
    <3> QED BY <3>1, TrimType, QuorumConstants DEF Peers
  <2>2. AcceptGeneration(p, g) = n
    BY <1>2 DEF AcceptGeneration, Peers
  <2> HIDE DEF ret
  <2>3. NoCheckpoint \in Assemblies
    BY QuorumConstants DEF Sequences0, Assemblies, NoCheckpoint
  <2>4. q \in Peers
    BY <2>1 DEF Peers
  <2> HIDE DEF q
  <2>5. n \in Peers
    <3>1. 0 \in Sequences0
      BY QuorumConstants DEF Sequences0
    <3>2. g \in Generations \cup {NoGeneration}
      OBVIOUS
    <3> QED BY <2>3, <2>4, <3>1, <3>2 DEF BeginGeneration, Peers
  <2>6. /\ n.gen = g /\ n.seq = 0 /\ n.held = {} /\ n.pending = {} /\ n.ckpt = NoCheckpoint
        /\ n.need = FALSE /\ n.desync = FALSE /\ n.offered = {}
    BY <2>4 DEF BeginGeneration, Peers
  <2> HIDE DEF n
  <2>7. SoundPeer(n)
    BY <2>6 DEF SoundPeer, WeakPeer
  <2>8. \A M : {} \in M[0] => TruePeer(M, n)
    BY <2>6 DEF TruePeer, TrueAssembly, NoCheckpoint
  <2> QED BY <1>2, <2>2, <2>5, <2>6, <2>7, <2>8
<1> QED BY <1>1, <1>2

\* _absorb_quorum on one report.
LEMMA AbsorbQuorumFacts ==
  ASSUME NEW p \in Peers, SoundPeer(p), NEW m \in Reports
  PROVE  LET q == AbsorbQuorum(p, m) IN
         /\ q \in Peers /\ SoundPeer(q)
         /\ q = p \/ q.gen = m.gen
         /\ q.gen = p.gen => q.seq >= p.seq
         /\ \A M \in Meanings :
              q.gen = m.gen /\ OneMeaning(M) /\ {} \in M[0] /\ TrueDelta(M, m.delta)
              /\ TrueChunk(M, m.ckpt) /\ (p.gen = m.gen => TruePeer(M, p))
              => TruePeer(M, q)
<1> DEFINE a == AcceptGeneration(p, m.gen)
           b == AbsorbDelta(a, m.delta)
           q == AbsorbCheckpoint(b, m.ckpt)
<1>0. m.gen \in Generations /\ m.delta \in Deltas /\ m.ckpt \in Checkpoints
      /\ p.seq \in Nat
  BY DEF Reports, Peers, Sequences0
<1>1. CASE Rejected(p, m.gen)
  <2>1. AbsorbQuorum(p, m) = p
    BY <1>1 DEF AbsorbQuorum
  <2> QED BY <1>0, <2>1
<1>2. CASE ~Rejected(p, m.gen)
  <2>1. AbsorbQuorum(p, m) = q
    BY <1>2 DEF AbsorbQuorum
  <2>2. /\ a \in Peers /\ SoundPeer(a) /\ a.gen = m.gen /\ (p.gen = m.gen => a = p)
        /\ \A M \in Meanings : (p.gen = m.gen => TruePeer(M, p)) /\ {} \in M[0]
              => TruePeer(M, a)
    BY <1>0, AcceptFacts
  <2> HIDE DEF a
  <2>3. /\ b \in Peers /\ SoundPeer(b) /\ b.gen = m.gen /\ b.seq >= a.seq
        /\ \A M \in Meanings : OneMeaning(M) /\ TruePeer(M, a) /\ TrueDelta(M, m.delta)
              => TruePeer(M, b)
    BY <1>0, <2>2, AbsorbDeltaFacts
  <2> HIDE DEF b
  <2>4. /\ q \in Peers /\ SoundPeer(q) /\ q.gen = m.gen /\ q.seq >= b.seq
        /\ \A M \in Meanings : OneMeaning(M) /\ TruePeer(M, b) /\ TrueChunk(M, m.ckpt)
              => TruePeer(M, q)
    BY <1>0, <2>3, AbsorbCheckpointFacts
  <2> HIDE DEF q
  <2>5. q.gen = p.gen => q.seq >= p.seq
    <3>1. q.gen = p.gen => a.seq = p.seq
      BY <2>2, <2>4
    <3>2. q.seq \in Nat /\ b.seq \in Nat /\ a.seq \in Nat
      BY <2>2, <2>3, <2>4 DEF Peers, Sequences0
    <3> QED BY <1>0, <2>3, <2>4, <3>1, <3>2
  <2> QED BY <2>1, <2>2, <2>3, <2>4, <2>5
<1> QED BY <1>1, <1>2
-----------------------------------------------------------------------------
(***************************************************************************)
(* The worker's side.                                                      *)
(***************************************************************************)
CursorOK(w) == w.history # <<>> => w.cursor < Len(w.history)

LEMMA InventorySize ==
  ASSUME NEW S \in SUBSET Digests
  PROVE  Cardinality(S) \in Nat /\ ChunkCount(Cardinality(S)) \in Nat \ {0}
<1>1. IsFiniteSet(S)
  BY QuorumConstants, FS_Subset
<1>2. Cardinality(S) \in Nat
  BY <1>1, FS_CardinalityType
<1>3. ASSUME NEW n \in Nat PROVE ChunkCount(n) \in Nat \ {0}
  BY QuorumConstants DEF ChunkCount
<1> QED BY <1>2, <1>3

LEMMA HistoryTrim ==
  ASSUME NEW full \in Seq(Deltas), full # <<>>
  PROVE  /\ Trim(full, HistorySize) \in Seq(Deltas) /\ Trim(full, HistorySize) # <<>>
         /\ \A i \in DOMAIN Trim(full, HistorySize) :
              \E j \in DOMAIN full : Trim(full, HistorySize)[i] = full[j]
<1>1. HistorySize \in Nat \ {0}
  BY QuorumConstants
<1>2. Trim(full, HistorySize) \in Seq(Deltas)
  BY <1>1, TrimType
<1>3. Trim(full, HistorySize) # <<>>
  BY <1>1, TrimType
<1>4. \A i \in DOMAIN Trim(full, HistorySize) :
        \E j \in DOMAIN full : Trim(full, HistorySize)[i] = full[j]
  BY <1>1, TrimType
<1> QED BY <1>2, <1>3, <1>4

LEMMA RecordFacts ==
  ASSUME NEW w \in Workers, CursorOK(w), w.seq + 1 <= MaxSequence
  PROVE  LET v == RecordDelta(w) IN
         /\ v \in Workers /\ CursorOK(v)
         /\ v.gen = w.gen /\ v.held = w.held
         /\ \A i \in DOMAIN v.history :
              v.history[i] = Difference(w) \/ \E j \in DOMAIN w.history : v.history[i] = w.history[j]
<1> DEFINE d == Difference(w)
           s == Append(w.history, d)
           h == Trim(s, HistorySize)
           v == [w EXCEPT !.history = h, !.cursor = w.cursor % Len(h)]
<1>1. d \in Deltas
  BY QuorumConstants DEF Difference, Deltas, Workers, Sequences0
<1> HIDE DEF d
<1>2. s \in Seq(Deltas) /\ s # <<>>
  BY <1>1 DEF Workers
<1>3. \A j \in DOMAIN s : s[j] = d \/ \E k \in DOMAIN w.history : s[j] = w.history[k]
  BY <1>1 DEF Workers
<1>4. /\ h \in Seq(Deltas) /\ h # <<>>
      /\ \A i \in DOMAIN h : \E j \in DOMAIN s : h[i] = s[j]
  BY <1>2, HistoryTrim
<1> HIDE DEF s, h
<1>5. Len(h) \in Nat \ {0} /\ w.cursor \in Nat
  BY <1>4 DEF Workers
<1>6. w.cursor % Len(h) \in Nat /\ w.cursor % Len(h) < Len(h)
  BY <1>5
<1>7. /\ v \in Workers /\ v.gen = w.gen /\ v.held = w.held /\ v.history = h
      /\ v.cursor = w.cursor % Len(h)
  BY <1>4, <1>6 DEF Workers
<1>8. RecordDelta(w) = w \/ RecordDelta(w) = v
  BY DEF RecordDelta, Workers, d, s, h
<1> HIDE DEF v
<1>9. CASE RecordDelta(w) = w
  BY <1>9
<1>10. CASE RecordDelta(w) = v
  BY <1>3, <1>4, <1>6, <1>7, <1>10 DEF CursorOK, d
<1> QED BY <1>8, <1>9, <1>10

LEMMA ObserveFacts ==
  ASSUME NEW w \in Workers, CursorOK(w), Observe(w).seq <= MaxSequence
  PROVE  LET v == Observe(w) IN
         /\ v \in Workers /\ CursorOK(v)
         /\ v.gen = w.gen /\ v.held = w.held /\ v.observed = w.held
         /\ \/ v = w
            \/ /\ v.seq = w.seq + 1
               /\ \A i \in DOMAIN v.history :
                    \/ v.history[i] = Difference(w)
                    \/ \E j \in DOMAIN w.history : v.history[i] = w.history[j]
<1>1. CASE w.held = w.observed
  BY <1>1 DEF Observe
<1>2. CASE w.held # w.observed
  <2> DEFINE u == RecordDelta(w)
             v == [u EXCEPT !.observed = w.held, !.seq = w.seq + 1,
                            !.cycle = w.cycle + 1, !.index = 0]
  <2>1. Observe(w) = v
    BY <1>2 DEF Observe
  <2>2. w.seq \in Nat /\ w.cycle \in Nat /\ w.held \in SUBSET Digests
    BY DEF Workers, Sequences0
  <2>3. w.seq + 1 <= MaxSequence
    <3>1. u = w \/ u = [w EXCEPT !.history = Trim(Append(w.history, Difference(w)), HistorySize),
                                 !.cursor = w.cursor % Len(Trim(Append(w.history, Difference(w)), HistorySize))]
      BY DEF RecordDelta, Workers
    <3>2. v.seq = w.seq + 1
      BY <3>1 DEF Workers
    <3> QED BY <2>1, <3>2
  <2>4. /\ u \in Workers /\ CursorOK(u) /\ u.gen = w.gen /\ u.held = w.held
        /\ \A i \in DOMAIN u.history :
              u.history[i] = Difference(w) \/ \E j \in DOMAIN w.history : u.history[i] = w.history[j]
    BY <2>3, RecordFacts
  <2> HIDE DEF u
  <2>5. w.seq + 1 \in Sequences0
    BY <2>2, <2>3, QuorumConstants DEF Sequences0
  <2>6. v \in Workers
    <3>1. w.cycle + 1 \in Nat /\ 0 \in Nat
      BY <2>2
    <3> QED BY <2>2, <2>4, <2>5, <3>1 DEF Workers
  <2>7. /\ v.gen = u.gen /\ v.held = u.held /\ v.observed = w.held /\ v.seq = w.seq + 1
        /\ v.history = u.history /\ v.cursor = u.cursor
    BY <2>4 DEF Workers
  <2> HIDE DEF v
  <2> QED BY <2>1, <2>4, <2>6, <2>7 DEF CursorOK
<1> QED BY <1>1, <1>2

LEMMA AdvanceFacts ==
  ASSUME NEW w \in Workers, CursorOK(w)
  PROVE  LET v == Advance(w) IN
         /\ v \in Workers /\ CursorOK(v)
         /\ v.gen = w.gen /\ v.held = w.held /\ v.observed = w.observed
         /\ v.seq = w.seq /\ v.history = w.history
<1>1. /\ NextCursor(w) \in Nat
      /\ w.history # <<>> => NextCursor(w) < Len(w.history)
  <2>1. CASE w.history = <<>>
    BY <2>1 DEF NextCursor
  <2>2. CASE w.history # <<>>
    <3>1. Len(w.history) \in Nat \ {0} /\ w.cursor + 1 \in Nat
      BY <2>2 DEF Workers
    <3> QED BY <2>2, <3>1 DEF NextCursor
  <2> QED BY <2>1, <2>2
<1>2. w.index + 1 \in Nat /\ w.cycle + 1 \in Nat
  BY DEF Workers
<1> QED BY <1>1, <1>2 DEF Advance, Workers, CursorOK

LEMMA ChunkType ==
  ASSUME NEW S \in SUBSET Digests, NEW n \in Sequences0, NEW cycle \in Nat, NEW i \in Nat
  PROVE  LET c == CheckpointChunk(S, n, cycle, i) IN
         c \in Checkpoints /\ c.seq = n /\ c.held \subseteq S /\ c.size = Cardinality(S)
<1>1. Chunk(S, i) \subseteq S
  BY DEF Chunk
<1> QED BY <1>1, InventorySize DEF CheckpointChunk, Checkpoints

LEMMA ReportChunk ==
  ASSUME NEW w \in Workers
  PROVE  LET e == CheckpointChunk(w.observed, w.seq, w.cycle, w.index) IN
         e \in Checkpoints /\ e.seq = w.seq /\ e.held \subseteq w.observed
         /\ e.size = Cardinality(w.observed)
<1>1. w.observed \in SUBSET Digests /\ w.seq \in Sequences0 /\ w.cycle \in Nat /\ w.index \in Nat
  BY DEF Workers
<1> DEFINE e == CheckpointChunk(w.observed, w.seq, w.cycle, w.index)
<1>2. e \in Checkpoints /\ e.seq = w.seq
  BY <1>1, ChunkType
<1>3. e.held \subseteq w.observed
  BY <1>1, ChunkType
<1>4. e.size = Cardinality(w.observed)
  BY <1>1, ChunkType
<1> QED BY <1>2, <1>3, <1>4

LEMMA NoDeltaType == NoDelta \in Deltas /\ \A M : TrueDelta(M, NoDelta)
BY QuorumConstants DEF NoDelta, Deltas, Sequences0, TrueDelta

LEMMA ReportFacts ==
  ASSUME NEW w \in Workers, CursorOK(w)
  PROVE  LET m == ReportOf(w) IN
         /\ m \in Reports /\ m.gen = w.gen
         /\ m.delta = NoDelta \/ \E j \in DOMAIN w.history : m.delta = w.history[j]
         /\ m.ckpt.seq = w.seq /\ m.ckpt.held \subseteq w.observed
         /\ m.ckpt.size = Cardinality(w.observed)
<1> DEFINE d == IF w.history = <<>> THEN NoDelta ELSE w.history[w.cursor + 1]
           c == CheckpointChunk(w.observed, w.seq, w.cycle, w.index)
<1>1. d \in Deltas /\ (d = NoDelta \/ \E j \in DOMAIN w.history : d = w.history[j])
  <2>1. CASE w.history = <<>>
    BY <2>1, NoDeltaType
  <2>2. CASE w.history # <<>>
    <3>1. w.cursor + 1 \in DOMAIN w.history
      BY <2>2 DEF CursorOK, Workers
    <3> QED BY <2>2, <3>1 DEF Workers
  <2> QED BY <2>1, <2>2
<1>2. c \in Checkpoints /\ c.seq = w.seq /\ c.held \subseteq w.observed
      /\ c.size = Cardinality(w.observed)
  BY ReportChunk
<1>3. ReportOf(w) = [gen |-> w.gen, delta |-> d, ckpt |-> c]
  BY DEF ReportOf
<1> HIDE DEF d, c
<1> QED BY <1>1, <1>2, <1>3 DEF Reports, Workers

LEMMA HandshakeFacts ==
  ASSUME NEW w \in Workers, w.seq = 0
  PROVE  LET h == HandshakeReports(w) IN
         /\ HandshakeSequence(w) \in Sequences0
         /\ FirstOf(w.held, HandshakeMax) \in SUBSET Digests
         /\ h \in Seq(Reports)
         /\ \A i \in DOMAIN h :
              /\ h[i].gen = w.gen /\ h[i].delta = NoDelta
              /\ h[i].ckpt.seq = HandshakeSequence(w)
              /\ h[i].ckpt.held \subseteq FirstOf(w.held, HandshakeMax)
              /\ h[i].ckpt.size = Cardinality(FirstOf(w.held, HandshakeMax))
<1> DEFINE S == FirstOf(w.held, HandshakeMax)
           n == HandshakeSequence(w)
           k == ChunkCount(Cardinality(S))
           h == [i \in 1 .. k |-> [gen |-> w.gen, delta |-> NoDelta,
                                   ckpt |-> CheckpointChunk(S, n, w.cycle, i - 1)]]
<1>1. n \in Sequences0
  BY QuorumConstants DEF HandshakeSequence, Sequences0
<1>2. S \in SUBSET Digests
  BY DEF FirstOf, Workers
<1>3. k \in Nat
  BY <1>2, InventorySize
<1>4. HandshakeReports(w) = h
  BY DEF HandshakeReports
<1> HIDE DEF S, n, k
<1>5. ASSUME NEW i \in 1 .. k
      PROVE  /\ h[i] \in Reports /\ h[i].gen = w.gen /\ h[i].delta = NoDelta
             /\ h[i].ckpt.seq = n /\ h[i].ckpt.held \subseteq S
             /\ h[i].ckpt.size = Cardinality(S)
  <2> DEFINE c == CheckpointChunk(S, n, w.cycle, i - 1)
  <2>1. c \in Checkpoints /\ c.seq = n /\ c.held \subseteq S /\ c.size = Cardinality(S)
    <3>1. i - 1 \in Nat /\ w.cycle \in Nat
      BY <1>3 DEF Workers
    <3> QED BY <1>1, <1>2, <3>1, ChunkType
  <2> HIDE DEF c
  <2>2. h[i] = [gen |-> w.gen, delta |-> NoDelta, ckpt |-> c]
    BY DEF c
  <2> QED BY <2>1, <2>2, NoDeltaType DEF Reports, Workers
<1>6. h \in Seq(Reports) /\ DOMAIN h = 1 .. k
  <2>1. h \in [1 .. k -> Reports]
    BY <1>5
  <2> QED BY <1>3, <2>1
<1> HIDE DEF h
<1> QED BY <1>1, <1>2, <1>4, <1>5, <1>6 DEF S, n
-----------------------------------------------------------------------------
(***************************************************************************)
(* The inductive invariant.                                                *)
(***************************************************************************)
TrueReport(L, m) ==
    TrueDelta(L[m.gen], m.delta) /\ TrueChunk(L[m.gen], m.ckpt)

WorkersTrue ==
    \A r \in Ranks : LET w == worker[r] IN
        /\ CursorOK(w)
        /\ ~ready => w.seq = 0
        /\ w.observed \in meaning[r][w.gen][w.seq]
        /\ \A i \in DOMAIN w.history : TrueDelta(meaning[r][w.gen], w.history[i])

ZeroIsEmpty == \A r \in Ranks : \A g \in Generations : {} \in meaning[r][g][0]

ReportsTrue ==
    \A r \in Ranks :
        /\ \A i \in DOMAIN wire[r] : TrueReport(meaning[r], wire[r][i])
        /\ \A i \in DOMAIN startup[r] : TrueReport(meaning[r], startup[r][i])

PeersSound ==
    \A r \in Ranks : /\ SoundPeer(peer[r])
                     /\ peer[r].gen = NoGeneration => peer[r].offered = {}

PeersTrue ==
    \A r \in Ranks : LET M == meaning[r][peer[r].gen] IN
        peer[r].gen # NoGeneration /\ OneMeaning(M) => TruePeer(M, peer[r])

IInv ==
    /\ TypeOK /\ WorkersTrue /\ ZeroIsEmpty /\ ReportsTrue /\ PeersSound /\ PeersTrue

\* Numbers that gain a meaning keep the ones they had.
LEMMA GrowthFacts ==
  ASSUME NEW M \in Meanings, NEW N \in Meanings, \A n \in Sequences0 : M[n] \subseteq N[n]
  PROVE  /\ \A d \in Deltas : TrueDelta(M, d) => TrueDelta(N, d)
         /\ \A c \in Checkpoints : TrueChunk(M, c) => TrueChunk(N, c)
         /\ OneMeaning(N) => OneMeaning(M)
         /\ \A p \in Peers : TruePeer(M, p) => TruePeer(N, p)
<1>1. ASSUME NEW d \in Deltas, TrueDelta(M, d) PROVE TrueDelta(N, d)
  <2>1. CASE d.seq = 0
    BY <2>1 DEF TrueDelta
  <2>2. CASE d.seq # 0
    <3>1. d.seq \in Sequences0 /\ d.seq - 1 \in Sequences0
      BY <2>2, QuorumConstants DEF Deltas, Sequences0
    <3> QED BY <1>1, <2>2, <3>1 DEF TrueDelta
  <2> QED BY <2>1, <2>2
<1>2. ASSUME NEW c \in Checkpoints, TrueChunk(M, c) PROVE TrueChunk(N, c)
  BY <1>2 DEF TrueChunk, Checkpoints
<1>3. OneMeaning(N) => OneMeaning(M)
  BY DEF OneMeaning
<1>4. ASSUME NEW p \in Peers, TruePeer(M, p) PROVE TruePeer(N, p)
  <2>1. p.held \in N[p.seq]
    BY <1>4 DEF TruePeer, Peers
  <2>2. \A q \in p.pending : q.seq > 0 /\ TrueDelta(N, q)
    BY <1>1, <1>4 DEF TruePeer, Peers
  <2>3. TrueAssembly(N, p.ckpt)
    BY <1>4 DEF TruePeer, TrueAssembly, Peers, Assemblies
  <2> QED BY <2>1, <2>2, <2>3 DEF TruePeer
<1> QED BY <1>1, <1>2, <1>3, <1>4

LEMMA WithoutType ==
  ASSUME NEW X, NEW s \in Seq(X), NEW i \in DOMAIN s
  PROVE  /\ Without(s, i) \in Seq(X)
         /\ \A j \in DOMAIN Without(s, i) : \E k \in DOMAIN s : Without(s, i)[j] = s[k]
<1>1. Len(s) \in Nat /\ Len(s) - 1 \in Nat /\ DOMAIN s = 1 .. Len(s) /\ i \in 1 .. Len(s)
  OBVIOUS
<1>2. ASSUME NEW j \in 1 .. Len(s) - 1
      PROVE  /\ Without(s, i)[j] \in X
             /\ \E k \in DOMAIN s : Without(s, i)[j] = s[k]
  <2>1. j \in 1 .. Len(s) /\ j + 1 \in 1 .. Len(s)
    BY <1>1
  <2> QED BY <1>1, <2>1 DEF Without
<1>3. DOMAIN Without(s, i) = 1 .. Len(s) - 1
  BY DEF Without
<1>4. Without(s, i) \in [1 .. Len(s) - 1 -> X]
  BY <1>2 DEF Without
<1> QED BY <1>1, <1>2, <1>3, <1>4

\* Absorbing a true report keeps every record sound and exact.
LEMMA AbsorbStep ==
  ASSUME IInv, NEW r \in Ranks, NEW m \in Reports, TrueReport(meaning[r], m), Absorb(r, m),
         meaning' = meaning
  PROVE  /\ peer' \in [Ranks -> Peers] /\ served' \in [Ranks -> Seq(Generations)]
         /\ PeersSound' /\ PeersTrue'
         /\ \A k \in Ranks : peer'[k].gen = peer[k].gen => peer'[k].seq >= peer[k].seq
<1> DEFINE p == peer[r]
           q == AbsorbQuorum(p, m)
           M == meaning[r][m.gen]
<1>1. /\ p \in Peers /\ SoundPeer(p) /\ m.gen \in Generations /\ M \in Meanings
      /\ {} \in M[0]
  BY DEF IInv, TypeOK, PeersSound, ZeroIsEmpty, Reports, Meanings
<1>2. /\ q \in Peers /\ SoundPeer(q)
      /\ q = p \/ q.gen = m.gen
      /\ q.gen = p.gen => q.seq >= p.seq
      /\ q.gen = m.gen /\ OneMeaning(M) /\ {} \in M[0] /\ TrueDelta(M, m.delta)
         /\ TrueChunk(M, m.ckpt) /\ (p.gen = m.gen => TruePeer(M, p))
         => TruePeer(M, q)
  BY <1>1, AbsorbQuorumFacts
<1>3. peer' = [peer EXCEPT ![r] = q]
  BY DEF Absorb
<1>4. TrueDelta(M, m.delta) /\ TrueChunk(M, m.ckpt)
  BY DEF TrueReport
<1>5. p.gen = m.gen /\ OneMeaning(M) => TruePeer(M, p)
  <2>1. m.gen # NoGeneration
    BY <1>1 DEF Generations, NoGeneration
  <2> QED BY <2>1 DEF IInv, PeersTrue
<1> HIDE DEF q, M
<1>6. peer' \in [Ranks -> Peers]
  BY <1>2, <1>3 DEF IInv, TypeOK
<1>7. served' \in [Ranks -> Seq(Generations)]
  <2>1. served' = served \/ served' = [served EXCEPT ![r] = Append(served[r], m.gen)]
    BY DEF Absorb, IInv, TypeOK
  <2>2. served \in [Ranks -> Seq(Generations)] /\ Append(served[r], m.gen) \in Seq(Generations)
    BY <1>1 DEF IInv, TypeOK
  <2> QED BY <2>1, <2>2
<1>8. peer'[r] = q /\ \A k \in Ranks \ {r} : peer'[k] = peer[k]
  BY <1>3 DEF IInv, TypeOK
<1>9. PeersSound'
  <2>1. m.gen # NoGeneration
    BY <1>1 DEF Generations, NoGeneration
  <2> QED BY <1>2, <1>8, <2>1 DEF IInv, PeersSound
<1>10. PeersTrue'
  <2>1. ASSUME NEW k \in Ranks, k # r,
               peer'[k].gen # NoGeneration, OneMeaning(meaning'[k][peer'[k].gen])
        PROVE  TruePeer(meaning'[k][peer'[k].gen], peer'[k])
    BY <1>8, <2>1 DEF IInv, PeersTrue
  <2>2. ASSUME q.gen # NoGeneration, OneMeaning(meaning[r][q.gen])
        PROVE  TruePeer(meaning[r][q.gen], q)
    <3>1. CASE q = p
      BY <2>2, <3>1 DEF IInv, PeersTrue
    <3>2. CASE q.gen = m.gen
      <4>1. OneMeaning(M) /\ (p.gen = m.gen => TruePeer(M, p))
        BY <1>5, <2>2, <3>2 DEF M
      <4> QED BY <1>1, <1>2, <1>4, <3>2, <4>1 DEF M
    <3> QED BY <1>2, <3>1, <3>2
  <2> QED BY <1>8, <2>1, <2>2 DEF PeersTrue
<1>11. \A k \in Ranks : peer'[k].gen = peer[k].gen => peer'[k].seq >= peer[k].seq
  <2>1. \A k \in Ranks : peer[k].seq \in Nat
    BY DEF IInv, TypeOK, Peers, Sequences0
  <2> QED BY <1>2, <1>8, <2>1
<1> QED BY <1>6, <1>7, <1>9, <1>10, <1>11
-----------------------------------------------------------------------------
LEMMA InitInv == Init => IInv
<1> SUFFICES ASSUME Init PROVE IInv
  OBVIOUS
<1>1. PICK found \in [Ranks -> SUBSET Digests] : worker = [r \in Ranks |-> Fresh(1, found[r])]
  BY DEF Init
<1>2. 1 \in Generations /\ 0 \in Sequences0
  BY QuorumConstants DEF Generations, Sequences0
<1>3. \A S \in SUBSET Digests : Fresh(1, S) \in Workers
  BY <1>2 DEF Fresh, Workers
<1>4. Unknown \in Peers /\ SoundPeer(Unknown) /\ Unknown.gen = NoGeneration
  <2>1. NoCheckpoint \in Assemblies
    BY <1>2 DEF NoCheckpoint, Assemblies
  <2> QED BY <1>2, <2>1 DEF Unknown, Peers, SoundPeer, WeakPeer
<1>5. worker \in [Ranks -> Workers]
  BY <1>1, <1>3
<1>6. meaning \in [Ranks -> [Generations -> [Sequences0 -> SUBSET SUBSET Digests]]]
  BY DEF Init
<1>7. TypeOK
  <2>1. startup \in [Ranks -> Seq(Reports)] /\ wire \in [Ranks -> Seq(Reports)]
        /\ served \in [Ranks -> Seq(Generations)]
    BY DEF Init
  <2>2. peer \in [Ranks -> Peers]
    BY <1>4 DEF Init
  <2> QED BY <1>5, <1>6, <2>1, <2>2 DEF Init, TypeOK
<1>8. ZeroIsEmpty
  BY <1>2 DEF Init, ZeroIsEmpty
<1>9. WorkersTrue
  <2>1. \A S : /\ Fresh(1, S).gen = 1 /\ Fresh(1, S).seq = 0 /\ Fresh(1, S).observed = {}
               /\ Fresh(1, S).history = <<>>
    BY DEF Fresh
  <2>2. \A r \in Ranks : worker[r].gen = 1 /\ worker[r].seq = 0 /\ worker[r].observed = {}
                         /\ worker[r].history = <<>>
    BY <1>1, <2>1
  <2> SUFFICES ASSUME NEW r \in Ranks
               PROVE  LET w == worker[r] IN
                      /\ CursorOK(w)
                      /\ ~ready => w.seq = 0
                      /\ w.observed \in meaning[r][w.gen][w.seq]
                      /\ \A i \in DOMAIN w.history : TrueDelta(meaning[r][w.gen], w.history[i])
    BY DEF WorkersTrue
  <2>3. {} \in meaning[r][1][0]
    BY <1>2, <1>8 DEF ZeroIsEmpty
  <2>4. \A i \in DOMAIN worker[r].history : FALSE
    BY <2>2
  <2> QED BY <2>2, <2>3, <2>4 DEF CursorOK
<1>10. ReportsTrue
  BY DEF Init, ReportsTrue
<1>11. PeersSound /\ PeersTrue
  <2>1. \A r \in Ranks : peer[r] = Unknown
    BY DEF Init
  <2>2. Unknown.offered = {}
    BY DEF Unknown
  <2> QED BY <1>4, <2>1, <2>2 DEF PeersSound, PeersTrue
<1> QED BY <1>7, <1>8, <1>9, <1>10, <1>11 DEF IInv

\* Steps that change at most the inventory of workers, loads and streaks.
LEMMA QuietStep ==
  ASSUME IInv, worker' \in [Ranks -> Workers],
         \A r \in Ranks : \/ worker'[r] = worker[r]
                          \/ \E S \in SUBSET Digests : worker'[r] = [worker[r] EXCEPT !.held = S],
         collected' \subseteq Ranks, ready' \in BOOLEAN, ready => ready',
         load' \in [Digests -> {"idle", "loading", "failed"}],
         streak' \in [Ranks -> Nat],
         startup' = startup, wire' = wire, peer' = peer, meaning' = meaning, served' = served
  PROVE  IInv'
<1>1. TypeOK'
  BY DEF IInv, TypeOK
<1>2. WorkersTrue'
  <2> SUFFICES ASSUME NEW r \in Ranks
               PROVE  LET w == worker'[r] IN
                      /\ CursorOK(w)
                      /\ ~ready' => w.seq = 0
                      /\ w.observed \in meaning[r][w.gen][w.seq]
                      /\ \A i \in DOMAIN w.history : TrueDelta(meaning[r][w.gen], w.history[i])
    BY DEF WorkersTrue, CursorOK
  <2>1. /\ worker'[r].gen = worker[r].gen /\ worker'[r].seq = worker[r].seq
        /\ worker'[r].observed = worker[r].observed /\ worker'[r].history = worker[r].history
        /\ worker'[r].cursor = worker[r].cursor
    <3>1. worker[r] \in Workers
      BY DEF IInv, TypeOK
    <3>2. CASE worker'[r] = worker[r]
      BY <3>2
    <3>3. ASSUME NEW S \in SUBSET Digests, worker'[r] = [worker[r] EXCEPT !.held = S]
          PROVE  /\ worker'[r].gen = worker[r].gen /\ worker'[r].seq = worker[r].seq
                 /\ worker'[r].observed = worker[r].observed
                 /\ worker'[r].history = worker[r].history
                 /\ worker'[r].cursor = worker[r].cursor
      BY <3>1, <3>3 DEF Workers
    <3> QED BY <3>2, <3>3
  <2> QED BY <2>1 DEF IInv, WorkersTrue, CursorOK
<1>3. ZeroIsEmpty' /\ ReportsTrue' /\ PeersSound' /\ PeersTrue'
  BY DEF IInv, ZeroIsEmpty, ReportsTrue, TrueReport, PeersSound, PeersTrue
<1> QED BY <1>1, <1>2, <1>3 DEF IInv

LEMMA QuietSteps ==
  ASSUME IInv,
         EngineReady \/ (\E d \in Digests : Admit(d) \/ LoadVerified(d)) \/ UNCHANGED vars
  PROVE  IInv'
<1>0. /\ worker \in [Ranks -> Workers] /\ collected \subseteq Ranks /\ ready \in BOOLEAN
      /\ load \in [Digests -> {"idle", "loading", "failed"}] /\ streak \in [Ranks -> Nat]
  BY DEF IInv, TypeOK
<1>1. CASE EngineReady
  BY <1>0, <1>1, QuietStep DEF EngineReady
<1>2. ASSUME NEW d \in Digests, Admit(d) PROVE IInv'
  BY <1>0, <1>2, QuietStep DEF Admit
<1>3. ASSUME NEW d \in Digests, LoadVerified(d) PROVE IInv'
  BY <1>0, <1>3, QuietStep DEF LoadVerified
<1>4. CASE UNCHANGED vars
  BY <1>0, <1>4, QuietStep DEF vars
<1> QED BY <1>1, <1>2, <1>3, <1>4

LEMMA QuietActions ==
  ASSUME IInv, NEW r \in Ranks, NEW d \in Digests,
         Add(r, d) \/ Remove(r, d) \/ LoadFails(r, d)
  PROVE  IInv'
<1>0. /\ worker \in [Ranks -> Workers] /\ collected \subseteq Ranks /\ ready \in BOOLEAN
      /\ load \in [Digests -> {"idle", "loading", "failed"}] /\ streak \in [Ranks -> Nat]
  BY DEF IInv, TypeOK
<1>1. ASSUME NEW S \in SUBSET Digests, worker' = [worker EXCEPT ![r].held = S]
      PROVE  /\ worker' \in [Ranks -> Workers]
             /\ \A k \in Ranks : \/ worker'[k] = worker[k]
                                 \/ \E T \in SUBSET Digests : worker'[k] = [worker[k] EXCEPT !.held = T]
  <2>1. [worker[r] EXCEPT !.held = S] \in Workers
    BY <1>0 DEF Workers
  <2> QED BY <1>0, <1>1, <2>1
<1>2. worker[r].held \in SUBSET Digests
  BY <1>0 DEF Workers
<1>3. ASSUME Disturb(r) PROVE streak' \in [Ranks -> Nat]
  BY <1>0, <1>3 DEF Disturb
<1>7. CASE Add(r, d)
  <2>1. worker' = [worker EXCEPT ![r].held = worker[r].held \cup {d}]
    BY <1>0, <1>7 DEF Add
  <2>2. worker[r].held \cup {d} \in SUBSET Digests
    BY <1>2
  <2>3. /\ worker' \in [Ranks -> Workers]
        /\ \A k \in Ranks : \/ worker'[k] = worker[k]
                            \/ \E T \in SUBSET Digests : worker'[k] = [worker[k] EXCEPT !.held = T]
    BY <1>1, <2>1, <2>2
  <2> QED BY <1>0, <1>3, <1>7, <2>3, QuietStep DEF Add
<1>8. CASE Remove(r, d)
  <2>1. worker' = [worker EXCEPT ![r].held = worker[r].held \ {d}]
    BY <1>0, <1>8 DEF Remove
  <2>2. worker[r].held \ {d} \in SUBSET Digests
    BY <1>2
  <2>3. /\ worker' \in [Ranks -> Workers]
        /\ \A k \in Ranks : \/ worker'[k] = worker[k]
                            \/ \E T \in SUBSET Digests : worker'[k] = [worker[k] EXCEPT !.held = T]
    BY <1>1, <2>1, <2>2
  <2> QED BY <1>0, <1>3, <1>8, <2>3, QuietStep DEF Remove
<1>9. CASE LoadFails(r, d)
  <2>1. worker' = worker \/ worker' = [worker EXCEPT ![r].held = worker[r].held \ {d}]
    BY <1>0, <1>9 DEF LoadFails
  <2>2. worker[r].held \ {d} \in SUBSET Digests
    BY <1>2
  <2>3. /\ worker' \in [Ranks -> Workers]
        /\ \A k \in Ranks : \/ worker'[k] = worker[k]
                            \/ \E T \in SUBSET Digests : worker'[k] = [worker[k] EXCEPT !.held = T]
    BY <1>0, <1>1, <2>1, <2>2
  <2> QED BY <1>0, <1>3, <1>9, <2>3, QuietStep DEF LoadFails
<1> QED BY <1>7, <1>8, <1>9

LEMMA InvalidBlocksInv ==
  ASSUME IInv, NEW d \in Digests, InvalidBlocks(d)
  PROVE  IInv'
<1> DEFINE P(r) == [peer[r] EXCEPT !.offered = @ \ {d}]
<1>0. \A r \in Ranks : peer[r] \in Peers /\ SoundPeer(peer[r])
  BY DEF IInv, TypeOK, PeersSound
<1>1. ASSUME NEW r \in Ranks
      PROVE  /\ peer'[r] \in Peers /\ SoundPeer(peer'[r])
             /\ peer'[r].gen = peer[r].gen /\ peer'[r].seq = peer[r].seq
             /\ peer'[r].held = peer[r].held /\ peer'[r].pending = peer[r].pending
             /\ peer'[r].ckpt = peer[r].ckpt /\ peer'[r].offered \subseteq peer[r].offered
  <2>1. peer'[r] = P(r)
    BY DEF InvalidBlocks
  <2>2. /\ P(r) \in Peers
        /\ P(r).gen = peer[r].gen /\ P(r).seq = peer[r].seq /\ P(r).held = peer[r].held
        /\ P(r).pending = peer[r].pending /\ P(r).ckpt = peer[r].ckpt
        /\ P(r).need = peer[r].need /\ P(r).desync = peer[r].desync
        /\ P(r).offered \subseteq peer[r].offered
    BY <1>0 DEF Peers
  <2> HIDE DEF P
  <2>3. SoundPeer(P(r))
    BY <1>0, <2>2 DEF SoundPeer, WeakPeer
  <2> QED BY <2>1, <2>2, <2>3
<1>2. peer' \in [Ranks -> Peers]
  <2>1. peer' = [r \in Ranks |-> P(r)]
    BY DEF InvalidBlocks
  <2>2. \A r \in Ranks : P(r) \in Peers
    BY <1>1, <2>1
  <2> HIDE DEF P
  <2> QED BY <2>1, <2>2
<1>3. TypeOK'
  BY <1>2 DEF IInv, TypeOK, InvalidBlocks
<1>4. PeersSound' /\ PeersTrue'
  <2>1. meaning' = meaning
    BY DEF InvalidBlocks
  <2> QED BY <1>1, <2>1 DEF IInv, PeersSound, PeersTrue, TruePeer
<1>5. WorkersTrue' /\ ZeroIsEmpty' /\ ReportsTrue'
  BY DEF IInv, InvalidBlocks, WorkersTrue, CursorOK, ZeroIsEmpty, ReportsTrue, TrueReport
<1> QED BY <1>3, <1>4, <1>5 DEF IInv

LEMMA SetHandshakeInv ==
  ASSUME IInv, NEW r \in Ranks, SetHandshake(r)
  PROVE  IInv'
<1> DEFINE s == startup[r]
<1>1. s \in Seq(Reports) /\ s # <<>> /\ Head(s) \in Reports /\ 1 \in DOMAIN s /\ Head(s) = s[1]
  BY DEF IInv, TypeOK, SetHandshake
<1>2. TrueReport(meaning[r], Head(s))
  BY <1>1 DEF IInv, ReportsTrue
<1>3. /\ Absorb(r, Head(s)) /\ startup' = [startup EXCEPT ![r] = Tail(s)]
      /\ UNCHANGED <<worker, collected, ready, wire, load, meaning, streak>>
  BY DEF SetHandshake, IInv, TypeOK
<1>4. /\ peer' \in [Ranks -> Peers] /\ served' \in [Ranks -> Seq(Generations)]
      /\ PeersSound' /\ PeersTrue'
  BY <1>1, <1>2, <1>3, AbsorbStep
<1>5. Tail(s) \in Seq(Reports) /\ \A i \in DOMAIN Tail(s) : \E j \in DOMAIN s : Tail(s)[i] = s[j]
  BY <1>1
<1> HIDE DEF s
<1>6. startup' \in [Ranks -> Seq(Reports)] /\ startup'[r] = Tail(s)
      /\ \A k \in Ranks \ {r} : startup'[k] = startup[k]
  BY <1>3, <1>5 DEF IInv, TypeOK
<1>7. TypeOK'
  BY <1>3, <1>4, <1>6 DEF IInv, TypeOK
<1>8. ReportsTrue'
  <2>1. \A i \in DOMAIN s : TrueReport(meaning[r], s[i])
    BY DEF IInv, ReportsTrue, s
  <2> QED BY <1>3, <1>5, <1>6, <2>1 DEF IInv, ReportsTrue, TrueReport
<1>9. WorkersTrue' /\ ZeroIsEmpty'
  BY <1>3 DEF IInv, WorkersTrue, CursorOK, ZeroIsEmpty
<1> QED BY <1>4, <1>7, <1>8, <1>9 DEF IInv

LEMMA WireInv ==
  ASSUME IInv, NEW r \in Ranks, NEW i \in DOMAIN wire[r],
         Deliver(r, i) \/ DeliverCopy(r, i) \/ Lose(r, i)
  PROVE  IInv'
<1> DEFINE s == wire[r]
<1>1. s \in Seq(Reports) /\ s[i] \in Reports /\ TrueReport(meaning[r], s[i])
  BY DEF IInv, TypeOK, ReportsTrue
<1>2. \/ Absorb(r, s[i])
      \/ UNCHANGED <<peer, served>>
  BY DEF Deliver, DeliverCopy, Lose
<1>3. UNCHANGED <<worker, collected, startup, ready, load, meaning>>
  BY DEF Deliver, DeliverCopy, Lose
<1>4. wire' = wire \/ wire' = [wire EXCEPT ![r] = Without(s, i)]
  BY DEF Deliver, DeliverCopy, Lose, IInv, TypeOK
<1>5. streak' \in [Ranks -> Nat]
  <2>1. streak \in [Ranks -> Nat]
    BY DEF IInv, TypeOK
  <2>2. \E n \in Nat : streak' = [streak EXCEPT ![r] = n]
    <3>1. CASE Deliver(r, i)
      <4> DEFINE n == IF i > 1 THEN 0
                      ELSE IF streak[r] < StreakCap THEN streak[r] + 1 ELSE streak[r]
      <4>1. n \in Nat
        BY <2>1
      <4>2. streak' = [streak EXCEPT ![r] = n]
        BY <2>1, <3>1 DEF Deliver
      <4> QED BY <4>1, <4>2
    <3>2. CASE DeliverCopy(r, i) \/ Lose(r, i)
      BY <3>2 DEF DeliverCopy, Lose, Disturb
    <3> QED BY <3>1, <3>2
  <2> QED BY <2>1, <2>2
<1>6. /\ peer' \in [Ranks -> Peers] /\ served' \in [Ranks -> Seq(Generations)]
      /\ PeersSound' /\ PeersTrue'
  <2>1. CASE Absorb(r, s[i])
    BY <1>1, <1>3, <2>1, AbsorbStep
  <2>2. CASE UNCHANGED <<peer, served>>
    BY <1>3, <2>2 DEF IInv, TypeOK, PeersSound, PeersTrue
  <2> QED BY <1>2, <2>1, <2>2
<1>7. /\ Without(s, i) \in Seq(Reports)
      /\ \A j \in DOMAIN Without(s, i) : \E k \in DOMAIN s : Without(s, i)[j] = s[k]
  BY <1>1, WithoutType
<1>8. \A j \in DOMAIN s : TrueReport(meaning[r], s[j])
  BY DEF IInv, ReportsTrue
<1>9. wire \in [Ranks -> Seq(Reports)]
  BY DEF IInv, TypeOK
<1> HIDE DEF s
<1>10. wire' \in [Ranks -> Seq(Reports)] /\ ReportsTrue'
  <2>1. CASE wire' = wire
    BY <1>3, <2>1 DEF IInv, TypeOK, ReportsTrue, TrueReport
  <2>2. CASE wire' = [wire EXCEPT ![r] = Without(s, i)]
    <3>1. wire' \in [Ranks -> Seq(Reports)]
      BY <1>7, <1>9, <2>2
    <3>2. wire'[r] = Without(s, i) /\ \A k \in Ranks \ {r} : wire'[k] = wire[k]
      BY <1>9, <2>2
    <3> QED BY <1>3, <1>7, <1>8, <3>1, <3>2 DEF IInv, ReportsTrue, TrueReport
  <2> QED BY <1>4, <2>1, <2>2
<1>11. TypeOK'
  BY <1>3, <1>5, <1>6, <1>10 DEF IInv, TypeOK
<1>12. WorkersTrue' /\ ZeroIsEmpty'
  BY <1>3 DEF IInv, WorkersTrue, CursorOK, ZeroIsEmpty
<1> QED BY <1>6, <1>10, <1>11, <1>12 DEF IInv

LEMMA RestartInv ==
  ASSUME IInv, NEW r \in Ranks, Restart(r)
  PROVE  IInv'
<1> DEFINE w == Fresh(worker[r].gen + 1, worker[r].held)
<1>0. worker \in [Ranks -> Workers] /\ worker[r] \in Workers
  BY DEF IInv, TypeOK
<1>1. worker' = [worker EXCEPT ![r] = w]
  BY <1>0 DEF Restart
<1>2. worker[r].gen + 1 \in Generations /\ 0 \in Sequences0
  BY <1>0, QuorumConstants DEF Restart, Workers, Generations, Sequences0
<1>3. w \in Workers
  BY <1>0, <1>2 DEF Fresh, Workers
<1>4. w.gen = worker[r].gen + 1 /\ w.seq = 0 /\ w.observed = {} /\ w.history = <<>>
  BY DEF Fresh
<1> HIDE DEF w
<1>5. worker' \in [Ranks -> Workers] /\ worker'[r] = w
      /\ \A k \in Ranks \ {r} : worker'[k] = worker[k]
  BY <1>0, <1>1, <1>3
<1>6. TypeOK'
  BY <1>5 DEF IInv, TypeOK, Restart, Disturb
<1>7. WorkersTrue'
  <2>1. meaning' = meaning /\ ready' = ready
    BY DEF Restart
  <2>2. CursorOK(w) /\ w.observed \in meaning[r][w.gen][w.seq]
    BY <1>2, <1>4 DEF CursorOK, IInv, ZeroIsEmpty
  <2>3. \A i \in DOMAIN w.history : TrueDelta(meaning[r][w.gen], w.history[i])
    BY <1>4
  <2> QED BY <1>4, <1>5, <2>1, <2>2, <2>3 DEF IInv, WorkersTrue, CursorOK
<1>8. ZeroIsEmpty' /\ ReportsTrue' /\ PeersSound' /\ PeersTrue'
  BY DEF IInv, Restart, ZeroIsEmpty, ReportsTrue, TrueReport, PeersSound, PeersTrue
<1> QED BY <1>6, <1>7, <1>8 DEF IInv

\* A number gains a meaning: what was true of reports and beliefs stays true.
LEMMA MeaningGrows ==
  ASSUME IInv, NEW r \in Ranks, NEW g \in Generations, NEW n \in Sequences0,
         NEW S \in SUBSET Digests,
         meaning' = [meaning EXCEPT ![r][g][n] = @ \cup {S}]
  PROVE  /\ meaning' \in [Ranks -> [Generations -> Meanings]]
         /\ S \in meaning'[r][g][n]
         /\ \A k \in Ranks, h \in Generations :
              \A x \in Sequences0 : meaning[k][h][x] \subseteq meaning'[k][h][x]
         /\ \A k \in Ranks, h \in Generations :
              \A d \in Deltas : TrueDelta(meaning[k][h], d) => TrueDelta(meaning'[k][h], d)
         /\ \A k \in Ranks : \A m \in Reports : TrueReport(meaning[k], m) => TrueReport(meaning'[k], m)
         /\ ZeroIsEmpty'
         /\ peer' = peer => PeersTrue'
<1>0. meaning \in [Ranks -> [Generations -> Meanings]]
  BY DEF IInv, TypeOK, Meanings
<1> DEFINE N == [meaning[r][g] EXCEPT ![n] = @ \cup {S}]
<1>1. meaning[r] \in [Generations -> Meanings] /\ meaning[r][g] \in Meanings
  BY <1>0
<1>2. N \in Meanings /\ S \in N[n] /\ \A x \in Sequences0 : meaning[r][g][x] \subseteq N[x]
  BY <1>1 DEF Meanings
<1>3. meaning' = [meaning EXCEPT ![r] = [meaning[r] EXCEPT ![g] = N]]
  BY <1>0, <1>1 DEF Meanings
<1> HIDE DEF N
<1>4. meaning'[r][g] = N
  BY <1>0, <1>1, <1>3
<1>5. \A k \in Ranks, h \in Generations : (k # r \/ h # g) => meaning'[k][h] = meaning[k][h]
  BY <1>0, <1>1, <1>3
<1>6. meaning' \in [Ranks -> [Generations -> Meanings]]
  <2>1. [meaning[r] EXCEPT ![g] = N] \in [Generations -> Meanings]
    BY <1>1, <1>2
  <2> QED BY <1>0, <1>3, <2>1
<1>7. ASSUME NEW k \in Ranks, NEW h \in Generations
      PROVE  /\ meaning[k][h] \in Meanings /\ meaning'[k][h] \in Meanings
             /\ \A x \in Sequences0 : meaning[k][h][x] \subseteq meaning'[k][h][x]
  <2>1. CASE k = r /\ h = g
    BY <1>1, <1>2, <1>4, <2>1
  <2>2. CASE k # r \/ h # g
    BY <1>0, <1>5, <1>6, <2>2
  <2> QED BY <2>1, <2>2
<1>8. ASSUME NEW k \in Ranks, NEW h \in Generations
      PROVE  /\ \A d \in Deltas : TrueDelta(meaning[k][h], d) => TrueDelta(meaning'[k][h], d)
             /\ \A c \in Checkpoints : TrueChunk(meaning[k][h], c) => TrueChunk(meaning'[k][h], c)
             /\ OneMeaning(meaning'[k][h]) => OneMeaning(meaning[k][h])
             /\ \A p \in Peers : TruePeer(meaning[k][h], p) => TruePeer(meaning'[k][h], p)
  BY <1>7, GrowthFacts
<1>9. ASSUME NEW k \in Ranks, NEW m \in Reports, TrueReport(meaning[k], m)
      PROVE  TrueReport(meaning'[k], m)
  <2>1. m.gen \in Generations /\ m.delta \in Deltas /\ m.ckpt \in Checkpoints
    BY DEF Reports
  <2> QED BY <1>8, <1>9, <2>1 DEF TrueReport
<1>10. ZeroIsEmpty'
  <2>1. 0 \in Sequences0
    BY QuorumConstants DEF Sequences0
  <2> QED BY <1>7, <2>1 DEF IInv, ZeroIsEmpty
<1>11. ASSUME peer' = peer PROVE PeersTrue'
  <2> SUFFICES ASSUME NEW k \in Ranks, peer[k].gen # NoGeneration,
                      OneMeaning(meaning'[k][peer[k].gen])
               PROVE  TruePeer(meaning'[k][peer[k].gen], peer[k])
    BY <1>11 DEF PeersTrue
  <2>1. peer[k] \in Peers /\ peer[k].gen \in Generations
    BY DEF IInv, TypeOK, Peers
  <2> QED BY <1>8, <2>1 DEF IInv, PeersTrue
<1> QED BY <1>2, <1>4, <1>6, <1>7, <1>8, <1>9, <1>10, <1>11

LEMMA GetHandshakeInv ==
  ASSUME IInv, NEW r \in Ranks, GetHandshake(r)
  PROVE  IInv'
<1> DEFINE w == worker[r]
           n == HandshakeSequence(w)
           S == FirstOf(w.held, HandshakeMax)
           h == HandshakeReports(w)
<1>0. w \in Workers /\ w.seq = 0 /\ w.gen \in Generations
  BY DEF IInv, TypeOK, WorkersTrue, GetHandshake, Workers
<1>1. /\ n \in Sequences0 /\ S \in SUBSET Digests /\ h \in Seq(Reports)
      /\ \A i \in DOMAIN h :
           /\ h[i].gen = w.gen /\ h[i].delta = NoDelta /\ h[i].ckpt.seq = n
           /\ h[i].ckpt.held \subseteq S /\ h[i].ckpt.size = Cardinality(S)
  BY <1>0, HandshakeFacts
<1>2. /\ meaning' = [meaning EXCEPT ![r][w.gen][n] = @ \cup {S}]
      /\ startup' = [startup EXCEPT ![r] = h]
      /\ collected' = collected \cup {r}
      /\ UNCHANGED <<worker, ready, wire, load, peer, served, streak>>
  BY DEF GetHandshake
<1> HIDE DEF n, S, h
<1>3. /\ meaning' \in [Ranks -> [Generations -> Meanings]]
      /\ S \in meaning'[r][w.gen][n]
      /\ \A k \in Ranks, g \in Generations :
            \A x \in Sequences0 : meaning[k][g][x] \subseteq meaning'[k][g][x]
      /\ \A k \in Ranks, g \in Generations :
            \A d \in Deltas : TrueDelta(meaning[k][g], d) => TrueDelta(meaning'[k][g], d)
      /\ \A k \in Ranks : \A m \in Reports : TrueReport(meaning[k], m) => TrueReport(meaning'[k], m)
      /\ ZeroIsEmpty' /\ PeersTrue'
  BY <1>0, <1>1, <1>2, MeaningGrows
<1>4. startup' \in [Ranks -> Seq(Reports)] /\ startup'[r] = h
      /\ \A k \in Ranks \ {r} : startup'[k] = startup[k]
  BY <1>1, <1>2 DEF IInv, TypeOK
<1>5. TypeOK'
  BY <1>2, <1>3, <1>4 DEF IInv, TypeOK, Meanings
<1>6. \A i \in DOMAIN h : TrueReport(meaning'[r], h[i])
  BY <1>1, <1>3, NoDeltaType DEF TrueReport, TrueChunk
<1>7. ReportsTrue'
  <2>1. \A k \in Ranks : wire[k] \in Seq(Reports) /\ startup[k] \in Seq(Reports)
    BY DEF IInv, TypeOK
  <2>2. \A k \in Ranks : \A i \in DOMAIN wire[k] : TrueReport(meaning'[k], wire[k][i])
    BY <1>3, <2>1 DEF IInv, ReportsTrue
  <2>3. \A k \in Ranks : \A i \in DOMAIN startup[k] : TrueReport(meaning'[k], startup[k][i])
    BY <1>3, <2>1 DEF IInv, ReportsTrue
  <2> QED BY <1>2, <1>4, <1>6, <2>2, <2>3 DEF ReportsTrue, TrueReport
<1>8. WorkersTrue'
  <2> SUFFICES ASSUME NEW k \in Ranks
               PROVE  LET v == worker[k] IN
                      /\ CursorOK(v)
                      /\ ~ready => v.seq = 0
                      /\ v.observed \in meaning'[k][v.gen][v.seq]
                      /\ \A i \in DOMAIN v.history : TrueDelta(meaning'[k][v.gen], v.history[i])
    BY <1>2 DEF WorkersTrue, CursorOK
  <2>1. /\ worker[k] \in Workers /\ worker[k].gen \in Generations
        /\ worker[k].seq \in Sequences0 /\ worker[k].history \in Seq(Deltas)
    BY DEF IInv, TypeOK, Workers
  <2> QED BY <1>3, <2>1 DEF IInv, WorkersTrue
<1>9. PeersSound'
  BY <1>2 DEF IInv, PeersSound
<1> QED BY <1>3, <1>5, <1>7, <1>8, <1>9 DEF IInv

LEMMA BuildReportInv ==
  ASSUME IInv, NEW r \in Ranks, BuildReport(r)
  PROVE  IInv'
<1> DEFINE o == worker[r]
           w == Observe(o)
           v == Advance(w)
           m == ReportOf(w)
<1>0. o \in Workers /\ CursorOK(o) /\ w.seq <= MaxSequence
  BY DEF IInv, TypeOK, WorkersTrue, BuildReport
<1>1. /\ w \in Workers /\ CursorOK(w)
      /\ w.gen = o.gen /\ w.held = o.held /\ w.observed = o.held
      /\ \/ w = o
         \/ /\ w.seq = o.seq + 1
            /\ \A i \in DOMAIN w.history :
                 \/ w.history[i] = Difference(o)
                 \/ \E j \in DOMAIN o.history : w.history[i] = o.history[j]
  BY <1>0, ObserveFacts
<1>2. /\ ready /\ worker' = [worker EXCEPT ![r] = v]
      /\ wire' = [wire EXCEPT ![r] = Append(wire[r], m)]
      /\ meaning' = [meaning EXCEPT ![r][w.gen][w.seq] = @ \cup {w.observed}]
      /\ UNCHANGED <<collected, startup, ready, load, peer, served, streak>>
  BY DEF BuildReport, IInv, TypeOK
<1> HIDE DEF w
<1>3. /\ v \in Workers /\ CursorOK(v) /\ v.gen = w.gen /\ v.observed = w.observed
      /\ v.seq = w.seq /\ v.history = w.history
  BY <1>1, AdvanceFacts
<1>4. /\ m \in Reports /\ m.gen = w.gen
      /\ m.delta = NoDelta \/ \E j \in DOMAIN w.history : m.delta = w.history[j]
      /\ m.ckpt.seq = w.seq /\ m.ckpt.held \subseteq w.observed
      /\ m.ckpt.size = Cardinality(w.observed)
  BY <1>1, ReportFacts
<1> HIDE DEF v, m
<1>5. w.gen \in Generations /\ w.seq \in Sequences0 /\ w.observed \in SUBSET Digests
      /\ w.history \in Seq(Deltas) /\ o.history \in Seq(Deltas) /\ o.seq \in Sequences0
  BY <1>0, <1>1 DEF Workers
<1>6. /\ meaning' \in [Ranks -> [Generations -> Meanings]]
      /\ w.observed \in meaning'[r][w.gen][w.seq]
      /\ \A k \in Ranks, g \in Generations :
            \A x \in Sequences0 : meaning[k][g][x] \subseteq meaning'[k][g][x]
      /\ \A k \in Ranks, g \in Generations :
            \A d \in Deltas : TrueDelta(meaning[k][g], d) => TrueDelta(meaning'[k][g], d)
      /\ \A k \in Ranks : \A x \in Reports : TrueReport(meaning[k], x) => TrueReport(meaning'[k], x)
      /\ ZeroIsEmpty' /\ PeersTrue'
  BY <1>2, <1>5, MeaningGrows
<1>7. \A j \in DOMAIN o.history : TrueDelta(meaning'[r][w.gen], o.history[j])
  BY <1>1, <1>5, <1>6 DEF IInv, WorkersTrue
<1>8. \A i \in DOMAIN w.history : TrueDelta(meaning'[r][w.gen], w.history[i])
  <2>1. CASE w = o
    BY <1>7, <2>1
  <2>2. CASE /\ w.seq = o.seq + 1
             /\ \A i \in DOMAIN w.history :
                  \/ w.history[i] = Difference(o)
                  \/ \E j \in DOMAIN o.history : w.history[i] = o.history[j]
    <3>1. o.observed \in meaning'[r][w.gen][o.seq]
      BY <1>1, <1>5, <1>6 DEF IInv, WorkersTrue
    <3>2. Difference(o) = [seq |-> w.seq, added |-> w.observed \ o.observed,
                           removed |-> o.observed \ w.observed]
      BY <1>1, <2>2 DEF Difference
    <3>3. w.seq - 1 = o.seq
      BY <1>5, <2>2 DEF Sequences0
    <3>4. /\ Difference(o).seq = w.seq /\ Difference(o).added = w.observed \ o.observed
          /\ Difference(o).removed = o.observed \ w.observed
      BY <3>2
    <3>5. /\ o.observed \in meaning'[r][w.gen][Difference(o).seq - 1]
          /\ w.observed \in meaning'[r][w.gen][Difference(o).seq]
      BY <1>6, <3>1, <3>3, <3>4
    <3>6. TrueDelta(meaning'[r][w.gen], Difference(o))
      BY <3>4, <3>5 DEF TrueDelta
    <3> QED BY <1>7, <2>2, <3>6
  <2> QED BY <1>1, <2>1, <2>2
<1>9. TrueReport(meaning'[r], m)
  <2>1. TrueDelta(meaning'[r][m.gen], m.delta)
    BY <1>4, <1>8, NoDeltaType
  <2>2. TrueChunk(meaning'[r][m.gen], m.ckpt)
    BY <1>4, <1>6 DEF TrueChunk
  <2> QED BY <2>1, <2>2 DEF TrueReport
<1>10. /\ worker' \in [Ranks -> Workers] /\ worker'[r] = v
       /\ \A k \in Ranks \ {r} : worker'[k] = worker[k]
  BY <1>2, <1>3 DEF IInv, TypeOK
<1>11. /\ wire \in [Ranks -> Seq(Reports)] /\ startup \in [Ranks -> Seq(Reports)]
       /\ wire' \in [Ranks -> Seq(Reports)]
       /\ wire'[r] = Append(wire[r], m) /\ \A k \in Ranks \ {r} : wire'[k] = wire[k]
  BY <1>2, <1>4 DEF IInv, TypeOK
<1>12. TypeOK'
  BY <1>2, <1>6, <1>10, <1>11 DEF IInv, TypeOK, Meanings
<1>13. ReportsTrue'
  <2>1. \A k \in Ranks : wire[k] \in Seq(Reports) /\ startup[k] \in Seq(Reports)
    BY <1>11
  <2>2. \A k \in Ranks : \A i \in DOMAIN wire[k] : TrueReport(meaning'[k], wire[k][i])
    BY <1>6, <2>1 DEF IInv, ReportsTrue
  <2>3. \A k \in Ranks : \A i \in DOMAIN startup[k] : TrueReport(meaning'[k], startup[k][i])
    BY <1>6, <2>1 DEF IInv, ReportsTrue
  <2>4. \A i \in DOMAIN wire'[r] : wire'[r][i] = m \/ \E j \in DOMAIN wire[r] : wire'[r][i] = wire[r][j]
    BY <1>4, <1>11, <2>1
  <2>5. \A i \in DOMAIN wire'[r] : TrueReport(meaning'[r], wire'[r][i])
    BY <1>9, <2>2, <2>4
  <2>6. \A k \in Ranks : \A i \in DOMAIN wire'[k] : TrueReport(meaning'[k], wire'[k][i])
    BY <1>11, <2>2, <2>5
  <2>7. \A k \in Ranks : \A i \in DOMAIN startup'[k] : TrueReport(meaning'[k], startup'[k][i])
    BY <1>2, <2>3
  <2> QED BY <2>6, <2>7 DEF ReportsTrue, TrueReport
<1>14. WorkersTrue'
  <2>1. ASSUME NEW k \in Ranks, k # r
        PROVE  LET u == worker[k] IN
               /\ CursorOK(u)
               /\ u.observed \in meaning'[k][u.gen][u.seq]
               /\ \A i \in DOMAIN u.history : TrueDelta(meaning'[k][u.gen], u.history[i])
    <3>1. /\ worker[k] \in Workers /\ worker[k].gen \in Generations
          /\ worker[k].seq \in Sequences0 /\ worker[k].history \in Seq(Deltas)
      BY DEF IInv, TypeOK, Workers
    <3> QED BY <1>6, <3>1 DEF IInv, WorkersTrue
  <2>2. /\ CursorOK(v) /\ v.observed \in meaning'[r][v.gen][v.seq]
        /\ \A i \in DOMAIN v.history : TrueDelta(meaning'[r][v.gen], v.history[i])
    BY <1>3, <1>6, <1>8
  <2> QED BY <1>2, <1>10, <2>1, <2>2 DEF WorkersTrue, CursorOK
<1>15. PeersSound'
  BY <1>2 DEF IInv, PeersSound
<1> QED BY <1>6, <1>12, <1>13, <1>14, <1>15 DEF IInv

\* Every step keeps the invariant.
LEMMA NextInv == IInv /\ [Next]_vars => IInv'
<1> SUFFICES ASSUME IInv, [Next]_vars PROVE IInv'
  OBVIOUS
<1>1. CASE EngineReady \/ (\E d \in Digests : Admit(d) \/ LoadVerified(d)) \/ UNCHANGED vars
  BY <1>1, QuietSteps
<1>2. ASSUME NEW d \in Digests, InvalidBlocks(d) PROVE IInv'
  BY <1>2, InvalidBlocksInv
<1>3. ASSUME NEW r \in Ranks, GetHandshake(r) PROVE IInv'
  BY <1>3, GetHandshakeInv
<1>4. ASSUME NEW r \in Ranks, SetHandshake(r) PROVE IInv'
  BY <1>4, SetHandshakeInv
<1>5. ASSUME NEW r \in Ranks, BuildReport(r) PROVE IInv'
  BY <1>5, BuildReportInv
<1>6. ASSUME NEW r \in Ranks, Restart(r) PROVE IInv'
  BY <1>6, RestartInv
<1>7. ASSUME NEW r \in Ranks, NEW d \in Digests, Add(r, d) \/ Remove(r, d) \/ LoadFails(r, d)
      PROVE  IInv'
  BY <1>7, QuietActions
<1>8. ASSUME NEW r \in Ranks, NEW i \in DOMAIN wire[r],
             Deliver(r, i) \/ DeliverCopy(r, i) \/ Lose(r, i)
      PROVE  IInv'
  BY <1>8, WireInv
<1> QED BY <1>1, <1>2, <1>3, <1>4, <1>5, <1>6, <1>7, <1>8, QuorumConstants DEF Next

LEMMA Invariance == Spec => []IInv
BY InitInv, NextInv, PTL DEF Spec
-----------------------------------------------------------------------------
(***************************************************************************)
(* Types, belief and admission.                                            *)
(***************************************************************************)
\* Every variable of the reporting protocol keeps its type, for any number of
\* ranks, entries, chunk sizes and limits.
THEOREM TypeCorrect == Spec => []TypeOK
<1>1. IInv => TypeOK
  BY DEF IInv
<1> QED BY <1>1, Invariance, PTL

\* The inventory reconstructed for a rank is the one the rank had when it used
\* the accepted sequence number, whatever was lost, repeated or overtaken.
THEOREM BeliefIsExact == Spec => []ExactBelief
<1>1. IInv => ExactBelief
  BY DEF IInv, PeersTrue, TruePeer, OneMeaning, Unambiguous, ExactBelief
<1> QED BY <1>1, Invariance, PTL

\* A rank in doubt offers nothing, and a digest with a full quorum was in the
\* inventory every rank reported under the sequence the scheduler accepted
\* (_has_full_quorum).
THEOREM AdmissionIsSound == Spec => []AdmissionSound
<1>1. ASSUME IInv, NEW d \in Digests, FullQuorum(d), NEW r \in Ranks
      PROVE  LET p == peer[r] IN
             /\ p.gen # NoGeneration
             /\ Unambiguous(r, p.gen) => \E S \in meaning[r][p.gen][p.seq] : d \in S
  <2>1. /\ d \in peer[r].offered /\ SoundPeer(peer[r])
        /\ peer[r].gen = NoGeneration => peer[r].offered = {}
    BY <1>1 DEF FullQuorum, IInv, PeersSound
  <2>2. d \in peer[r].held /\ peer[r].gen # NoGeneration
    BY <2>1 DEF SoundPeer, WeakPeer
  <2>3. Unambiguous(r, peer[r].gen) => peer[r].held \in meaning[r][peer[r].gen][peer[r].seq]
    BY <1>1, <2>2 DEF IInv, PeersTrue, TruePeer, OneMeaning, Unambiguous
  <2> QED BY <2>2, <2>3
<1>2. IInv => QuorumReported
  BY <1>1 DEF QuorumReported
<1>3. IInv => QuorumSound
  BY DEF IInv, PeersSound, SoundPeer, WeakPeer, QuorumSound
<1>4. IInv => AdmissionSound
  BY <1>2, <1>3 DEF AdmissionSound
<1> QED BY <1>4, Invariance, PTL

\* Within a generation the scheduler never goes back to an older inventory
\* (_absorb_worker_delta, _absorb_worker_checkpoint).
THEOREM SequenceNeverRollsBack == Spec => NoRollback
<1> DEFINE Forward == \A r \in Ranks : peer'[r].gen = peer[r].gen => peer'[r].seq >= peer[r].seq
<1>1. ASSUME IInv, [Next]_vars PROVE [Forward]_vars
  <2>0. \A r \in Ranks : peer[r] \in Peers /\ peer[r].seq \in Nat
    BY <1>1 DEF IInv, TypeOK, Peers, Sequences0
  <2>1. CASE peer' = peer
    BY <2>0, <2>1
  <2>2. ASSUME NEW d \in Digests, InvalidBlocks(d) PROVE Forward
    <3>1. \A r \in Ranks : peer'[r].seq = peer[r].seq
      BY <2>0, <2>2 DEF InvalidBlocks, Peers
    <3> QED BY <2>0, <3>1
  <2>3. ASSUME NEW r \in Ranks, SetHandshake(r) PROVE Forward
    <3>1. Head(startup[r]) \in Reports /\ TrueReport(meaning[r], Head(startup[r]))
      BY <1>1, <2>3 DEF IInv, TypeOK, ReportsTrue, SetHandshake
    <3> QED BY <1>1, <2>3, <3>1, AbsorbStep DEF SetHandshake
  <2>4. ASSUME NEW r \in Ranks, NEW i \in DOMAIN wire[r], Deliver(r, i) \/ DeliverCopy(r, i)
        PROVE  Forward
    <3>1. wire[r][i] \in Reports /\ TrueReport(meaning[r], wire[r][i])
      BY <1>1, <2>4 DEF IInv, TypeOK, ReportsTrue
    <3> QED BY <1>1, <2>4, <3>1, AbsorbStep DEF Deliver, DeliverCopy
  <2>5. \/ peer' = peer
        \/ \E d \in Digests : InvalidBlocks(d)
        \/ \E r \in Ranks : SetHandshake(r)
        \/ \E r \in Ranks : \E i \in DOMAIN wire[r] : Deliver(r, i) \/ DeliverCopy(r, i)
    BY <1>1, QuorumConstants DEF Next, vars, EngineReady, Admit, LoadVerified, GetHandshake, BuildReport,
                Restart, Add, Remove, LoadFails, Lose
  <2> QED BY <2>1, <2>2, <2>3, <2>4, <2>5
<1>2. IInv /\ [Next]_vars => [Forward]_vars
  BY <1>1
<1> QED BY <1>2, Invariance, PTL DEF Spec, NoRollback
-----------------------------------------------------------------------------
(***************************************************************************)
(* Chunks: slices of the sorted inventory.                                 *)
(***************************************************************************)
\* The digests of an inventory below d, its position in the sorted inventory.
LEMMA RankFacts ==
  ASSUME NEW S \in SUBSET Digests, NEW d \in S
  PROVE  Rank(S, d) \in Nat /\ Rank(S, d) < Cardinality(S)
<1> DEFINE T == {e \in S : e < d}
<1>1. IsFiniteSet(S) /\ S \subseteq Int
  BY QuorumConstants, FS_Subset
<1>2. T \in SUBSET S /\ d \notin T
  BY <1>1
<1>3. IsFiniteSet(T) /\ Cardinality(T) \in Nat /\ Cardinality(S) \in Nat
  BY <1>1, <1>2, FS_Subset, FS_CardinalityType
<1>4. Cardinality(T) <= Cardinality(S) /\ Cardinality(T) # Cardinality(S)
  BY <1>1, <1>2, FS_Subset
<1> QED BY <1>3, <1>4 DEF Rank

LEMMA RankIncreases ==
  ASSUME NEW S \in SUBSET Digests, NEW d \in S, NEW e \in S, d < e
  PROVE  Rank(S, d) < Rank(S, e)
<1> DEFINE T == {x \in S : x < d}
           U == {x \in S : x < e}
<1>1. IsFiniteSet(S) /\ S \subseteq Int
  BY QuorumConstants, FS_Subset
<1>2. T \in SUBSET U /\ d \notin T /\ d \in U /\ U \in SUBSET S
  <2>1. \A x \in S : x < d => x < e
    BY <1>1
  <2>2. ~ d < d
    BY <1>1
  <2> QED BY <2>1, <2>2
<1>3. IsFiniteSet(U)
  BY <1>1, <1>2, FS_Subset
<1>4. /\ Cardinality(T) <= Cardinality(U) /\ Cardinality(T) # Cardinality(U)
      /\ Cardinality(T) \in Nat /\ Cardinality(U) \in Nat
  <2> HIDE DEF T, U
  <2>1. IsFiniteSet(T)
    BY <1>2, <1>3, FS_Subset
  <2> QED BY <1>2, <1>3, <2>1, FS_Subset, FS_CardinalityType
<1> QED BY <1>4 DEF Rank

\* Positions number an inventory without a gap.
LEMMA RankBijective ==
  ASSUME NEW S \in SUBSET Digests
  PROVE  /\ \A d, e \in S : Rank(S, d) = Rank(S, e) => d = e
         /\ \A k \in 0 .. Cardinality(S) - 1 : \E d \in S : Rank(S, d) = k
<1> DEFINE n == Cardinality(S)
           f == [d \in S |-> Rank(S, d)]
<1>1. IsFiniteSet(S) /\ S \subseteq Int /\ n \in Nat
  BY QuorumConstants, FS_Subset, FS_CardinalityType
<1>2. \A d \in S : Rank(S, d) \in 0 .. n - 1
  BY <1>1, RankFacts
<1>3. ASSUME NEW d \in S, NEW e \in S, Rank(S, d) = Rank(S, e) PROVE d = e
  <2>1. Rank(S, d) \in Nat /\ Rank(S, e) \in Nat
    BY RankFacts
  <2>2. ~ d < e /\ ~ e < d
    BY <1>3, <2>1, RankIncreases
  <2> QED BY <1>1, <2>2
<1>4. f \in Injection(S, 0 .. n - 1)
  BY <1>2, <1>3 DEF Injection, IsInjective
<1>5. IsFiniteSet(0 .. n - 1) /\ Cardinality(0 .. n - 1) = n
  BY <1>1, FS_Interval
<1>6. f \in Surjection(S, 0 .. n - 1)
  <2> HIDE DEF f
  <2> QED BY <1>4, <1>5, FS_Injection
<1>7. \A k \in 0 .. n - 1 : \E d \in S : Rank(S, d) = k
  BY <1>6 DEF Surjection
<1> QED BY <1>3, <1>7

\* A slice of the sorted inventory has as many digests as positions.
LEMMA SliceSize ==
  ASSUME NEW S \in SUBSET Digests, NEW lo \in Nat, NEW top \in Nat, top <= Cardinality(S), lo <= top
  PROVE  Cardinality({d \in S : lo <= Rank(S, d) /\ Rank(S, d) < top}) = top - lo
<1> DEFINE T == {d \in S : lo <= Rank(S, d) /\ Rank(S, d) < top}
           f == [d \in T |-> Rank(S, d)]
<1>1. IsFiniteSet(S) /\ IsFiniteSet(T) /\ Cardinality(S) \in Nat
  BY QuorumConstants, FS_Subset, FS_CardinalityType
<1>2. \A d \in S : Rank(S, d) \in Nat
  BY RankFacts
<1>3. f \in Injection(T, lo .. top - 1)
  BY <1>2, RankBijective DEF Injection, IsInjective
<1>4. f \in Surjection(T, lo .. top - 1)
  <2>1. ASSUME NEW k \in lo .. top - 1 PROVE \E d \in T : f[d] = k
    <3>1. k \in 0 .. Cardinality(S) - 1 /\ lo <= k /\ k < top
      BY <1>1
    <3>2. PICK d \in S : Rank(S, d) = k
      BY <3>1, RankBijective
    <3> QED BY <3>1, <3>2
  <2> QED BY <1>3, <2>1 DEF Surjection, Injection
<1>5. ExistsBijection(T, lo .. top - 1)
  BY <1>3, <1>4 DEF ExistsBijection, Bijection
<1>6. Cardinality(lo .. top - 1) = Cardinality(T)
  <2> HIDE DEF T, f
  <2> QED BY <1>1, <1>5, FS_Bijection
<1>7. Cardinality(lo .. top - 1) = top - lo
  <2>1. lo \in Int /\ top - 1 \in Int
    OBVIOUS
  <2>2. Cardinality(lo .. top - 1) = IF lo > top - 1 THEN 0 ELSE (top - 1) - lo + 1
    BY <2>1, FS_Interval
  <2> QED BY <2>2
<1> QED BY <1>6, <1>7

LEMMA CountBounds ==
  ASSUME NEW n \in Nat
  PROVE  /\ ChunkCount(n) \in Nat \ {0}
         /\ \A i \in Nat : i < ChunkCount(n) => i * BatchSize <= n
         /\ \A k \in Nat : k < n => k \div BatchSize < ChunkCount(n)
         /\ \A i \in Nat : i + 1 = ChunkCount(n) => n <= (i + 1) * BatchSize
<1> DEFINE B == BatchSize
           q == (n + B - 1) \div B
<1>1. B \in Nat \ {0}
  BY QuorumConstants
<1>2. CASE n = 0
  BY <1>1, <1>2 DEF ChunkCount
<1>3. CASE n # 0
  <2>1. q \in Nat /\ B * q <= n + B - 1 /\ n + B - 1 < B * q + B
    BY <1>1
  <2>2. ChunkCount(n) = q
    BY <1>3 DEF ChunkCount
  <2> HIDE DEF q
  <2>3. q # 0
    BY <1>1, <1>3, <2>1
  <2>4. ASSUME NEW i \in Nat, i < q PROVE i * B <= n
    <3>1. B * (i + 1) <= B * q
      BY <1>1, <2>1, <2>4
    <3>2. B * (i + 1) = i * B + B
      BY <1>1
    <3> QED BY <1>1, <2>1, <3>1, <3>2
  <2>5. ASSUME NEW k \in Nat, k < n PROVE k \div B < q
    <3> DEFINE j == k \div B
    <3>1. j \in Nat /\ B * j <= k
      BY <1>1
    <3> HIDE DEF j
    <3>2. ASSUME j >= q PROVE FALSE
      <4>1. B * q <= B * j
        BY <1>1, <2>1, <3>1, <3>2
      <4> QED BY <1>1, <2>1, <2>5, <3>1, <4>1
    <3>3. j < q
      BY <2>1, <3>1, <3>2
    <3> QED BY <3>3 DEF j
  <2>6. ASSUME NEW i \in Nat, i + 1 = q PROVE n <= (i + 1) * B
    <3>1. (i + 1) * B = B * q
      BY <1>1, <2>6
    <3> QED BY <1>1, <2>1, <3>1
  <2> QED BY <2>1, <2>2, <2>3, <2>4, <2>5, <2>6
<1> QED BY <1>2, <1>3

\* A chunk has the number of digests that _absorb_worker_checkpoint asks for.
LEMMA ChunkWellFormed ==
  ASSUME NEW S \in SUBSET Digests, NEW n \in Sequences0, NEW cycle \in Nat \ {0},
         NEW i \in Nat, i < ChunkCount(Cardinality(S))
  PROVE  WellFormedCheckpoint(CheckpointChunk(S, n, cycle, i))
<1> DEFINE N == Cardinality(S)
           B == BatchSize
           lo == i * B
           hi == (i + 1) * B
           top == IF hi < N THEN hi ELSE N
<1>1. N \in Nat /\ B \in Nat \ {0}
  BY InventorySize, QuorumConstants
<1>2. lo \in Nat /\ hi \in Nat /\ hi = lo + B
  BY <1>1
<1>3. lo <= N
  BY <1>1, CountBounds
<1>4. \A d \in S : Rank(S, d) \in Nat /\ Rank(S, d) < N
  BY RankFacts
<1>5. Chunk(S, i) = {d \in S : lo <= Rank(S, d) /\ Rank(S, d) < hi}
  BY DEF Chunk
<1> HIDE DEF lo, hi
<1>6. Chunk(S, i) = {d \in S : lo <= Rank(S, d) /\ Rank(S, d) < top}
  BY <1>1, <1>2, <1>4, <1>5
<1>7. top \in Nat /\ top <= N /\ lo <= top
  BY <1>1, <1>2, <1>3
<1>8. Cardinality(Chunk(S, i)) = top - lo
  <2>1. top <= Cardinality(S)
    BY <1>7
  <2> HIDE DEF top
  <2> QED BY <1>2, <1>6, <1>7, <2>1, SliceSize, Zenon
<1>9. Cardinality(Chunk(S, i)) = IF N - lo < 0 THEN 0 ELSE IF N - lo < B THEN N - lo ELSE B
  BY <1>1, <1>2, <1>3, <1>8
<1>10. cycle >= 1
  OBVIOUS
<1> QED BY <1>9, <1>10 DEF WellFormedCheckpoint, CheckpointChunk, lo

\* All chunks of an inventory together are the inventory.
LEMMA ChunksCover ==
  ASSUME NEW S \in SUBSET Digests
  PROVE  UNION {Chunk(S, k) : k \in 0 .. ChunkCount(Cardinality(S)) - 1} = S
<1> DEFINE N == Cardinality(S)
           B == BatchSize
<1>1. N \in Nat /\ B \in Nat \ {0} /\ ChunkCount(N) \in Nat \ {0}
  BY InventorySize, QuorumConstants
<1>2. ASSUME NEW d \in S PROVE \E k \in 0 .. ChunkCount(N) - 1 : d \in Chunk(S, k)
  <2> DEFINE x == Rank(S, d)
             k == x \div B
  <2>1. x \in Nat /\ x < N
    BY RankFacts
  <2> HIDE DEF x
  <2>2. k \in Nat /\ B * k <= x /\ x < B * k + B
    BY <1>1, <2>1
  <2>3. k < ChunkCount(N)
    BY <1>1, <2>1, CountBounds
  <2> HIDE DEF k
  <2>4. k * B <= x /\ x < (k + 1) * B
    BY <1>1, <2>1, <2>2
  <2>5. d \in Chunk(S, k)
    BY <2>4 DEF Chunk, x
  <2>6. k \in 0 .. ChunkCount(N) - 1
    BY <1>1, <2>2, <2>3
  <2> QED BY <2>5, <2>6
<1>3. \A k : Chunk(S, k) \subseteq S
  BY DEF Chunk
<1> HIDE DEF N
<1>4. UNION {Chunk(S, k) : k \in 0 .. ChunkCount(N) - 1} = S
  BY <1>2, <1>3
<1> QED BY <1>4 DEF N

-----------------------------------------------------------------------------
(***************************************************************************)
(* What one report changes of a rank's record.                             *)
(***************************************************************************)
\* The checkpoint under construction holds the first i chunks of inventory S.
Partial(S, seq, cycle, i) ==
    [seq |-> seq, cycle |-> cycle, count |-> ChunkCount(Cardinality(S)),
     size |-> Cardinality(S),
     chunks |-> {[index |-> k, held |-> Chunk(S, k)] : k \in 0 .. i - 1}]

\* What no step inside a handler changes.
SameRank(p, q) == q.gen = p.gen /\ q.retired = p.retired

\* The accepted sequence is an old one or the number of a delta in Q.
Reaches(p, q, Q) == q.seq = p.seq \/ \E e \in Q : q.seq = e.seq

LEMMA MarkShape ==
  ASSUME NEW p \in Peers
  PROVE  LET m == MarkDesynchronized(p) IN
         /\ m \in Peers /\ SameRank(p, m) /\ m.ckpt = p.ckpt /\ m.seq = p.seq
         /\ m.pending = p.pending /\ m.need = p.need /\ m.desync
BY DEF MarkDesynchronized, Peers, SameRank

LEMMA RequireShape ==
  ASSUME NEW p \in Peers
  PROVE  LET m == RequireCheckpoint(p) IN
         /\ m \in Peers /\ SameRank(p, m) /\ m.ckpt = p.ckpt /\ m.seq = p.seq
         /\ m.pending = p.pending
<1> DEFINE n == [p EXCEPT !.need = TRUE]
<1>1. /\ n \in Peers /\ SameRank(p, n) /\ n.ckpt = p.ckpt /\ n.seq = p.seq
      /\ n.pending = p.pending
  BY DEF Peers, SameRank
<1> HIDE DEF n
<1>2. RequireCheckpoint(p) = MarkDesynchronized(n)
  BY DEF RequireCheckpoint, n
<1> QED BY <1>1, <1>2, MarkShape DEF SameRank

LEMMA ApplyShape ==
  ASSUME NEW p \in Peers
  PROVE  LET a == ApplyDeltas(p) IN
         /\ a \in Peers /\ SameRank(p, a) /\ a.ckpt = p.ckpt
         /\ a.pending \subseteq p.pending /\ Reaches(p, a, p.pending)
<1> DEFINE Q == Contiguous(p)
           a == ApplyDeltas(p)
<1>1. CASE Q = {}
  <2>1. a = p
    BY <1>1 DEF ApplyDeltas
  <2> QED BY <2>1 DEF SameRank, Reaches
<1>2. CASE Q # {}
  <2>1. Q \in SUBSET Deltas /\ Q \subseteq p.pending
    BY ContiguousFacts
  <2>2. Latest(Q) \in Q /\ Latest(Q) \in p.pending /\ Latest(Q).seq \in Sequences0
    BY <1>2, <2>1, LatestIsLast DEF Deltas
  <2> DEFINE held == Applied(p.held, Q)
             offered == IF p.desync THEN p.offered ELSE Applied(p.offered, Q)
  <2>3. held \subseteq Digests /\ offered \subseteq Digests
    BY AppliedType DEF Peers
  <2>4. a = [p EXCEPT !.seq = Latest(Q).seq, !.held = held, !.pending = p.pending \ Q,
                      !.offered = offered]
    BY <1>2 DEF ApplyDeltas, Peers
  <2> HIDE DEF held, offered, a, Q
  <2>5. /\ a \in Peers /\ SameRank(p, a) /\ a.ckpt = p.ckpt
        /\ a.pending = p.pending \ Q /\ a.seq = Latest(Q).seq
    BY <2>2, <2>3, <2>4 DEF Peers, SameRank
  <2> QED BY <2>2, <2>5 DEF Reaches, a
<1> QED BY <1>1, <1>2

LEMMA DrainShape ==
  ASSUME NEW p \in Peers
  PROVE  LET a == DrainDeltas(p) IN
         /\ a \in Peers /\ SameRank(p, a) /\ a.ckpt = p.ckpt
         /\ a.pending \subseteq p.pending /\ Reaches(p, a, p.pending)
<1> DEFINE a == ApplyDeltas(p)
<1>1. /\ a \in Peers /\ SameRank(p, a) /\ a.ckpt = p.ckpt
      /\ a.pending \subseteq p.pending /\ Reaches(p, a, p.pending)
  BY ApplyShape
<1> HIDE DEF a
<1>2. /\ Resume(a) \in Peers /\ SameRank(a, Resume(a)) /\ Resume(a).ckpt = a.ckpt
      /\ Resume(a).pending = a.pending /\ Resume(a).seq = a.seq
  <2>1. CASE a.pending # {} \/ a.need
    <3>1. Resume(a) = MarkDesynchronized(a)
      BY <2>1 DEF Resume
    <3> QED BY <1>1, <3>1, MarkShape
  <2>2. CASE ~(a.pending # {} \/ a.need) /\ a.desync
    <3>1. Resume(a) = [a EXCEPT !.desync = FALSE, !.offered = @ \cup a.held]
      BY <2>2 DEF Resume
    <3> QED BY <1>1, <2>2, <3>1 DEF Peers, SameRank
  <2>3. CASE ~(a.pending # {} \/ a.need) /\ ~a.desync
    <3>1. Resume(a) = a
      BY <2>3 DEF Resume
    <3> QED BY <1>1, <2>3, <3>1 DEF SameRank
  <2> QED BY <2>1, <2>2, <2>3
<1>3. DrainDeltas(p) = Resume(a)
  BY DEF DrainDeltas, a
<1> QED BY <1>1, <1>2, <1>3 DEF SameRank, Reaches

\* A delta leaves the checkpoint under construction alone.
LEMMA DeltaShape ==
  ASSUME NEW p \in Peers, NEW d \in Deltas
  PROVE  LET q == AbsorbDelta(p, d) IN
         /\ q \in Peers /\ SameRank(p, q) /\ q.ckpt = p.ckpt
         /\ q.pending \subseteq p.pending \cup {d} /\ Reaches(p, q, p.pending \cup {d})
         /\ d.seq <= p.seq => q = p
<1> DEFINE m == MakeRoom(p)
           kept == [m EXCEPT !.pending = @ \cup {d}]
           next == IF d.seq = p.seq + 1 THEN kept ELSE MarkDesynchronized(kept)
<1>1. /\ m \in Peers /\ SameRank(p, m) /\ m.ckpt = p.ckpt /\ m.seq = p.seq
      /\ m.pending \subseteq p.pending
  <2> DEFINE n == [p EXCEPT !.pending = @ \ {Latest(p.pending)}]
  <2>1. /\ n \in Peers /\ SameRank(p, n) /\ n.ckpt = p.ckpt /\ n.seq = p.seq
        /\ n.pending \subseteq p.pending
    BY DEF Peers, SameRank
  <2>2. m = p \/ m = RequireCheckpoint(n)
    BY DEF MakeRoom
  <2> HIDE DEF n, m
  <2> QED BY <2>1, <2>2, RequireShape DEF SameRank
<1> HIDE DEF m
<1>2. /\ kept \in Peers /\ SameRank(p, kept) /\ kept.ckpt = p.ckpt /\ kept.seq = p.seq
      /\ kept.pending \subseteq p.pending \cup {d}
  BY <1>1 DEF Peers, SameRank
<1> HIDE DEF kept
<1>3. /\ next \in Peers /\ SameRank(p, next) /\ next.ckpt = p.ckpt /\ next.seq = p.seq
      /\ next.pending \subseteq p.pending \cup {d}
  BY <1>2, MarkShape DEF SameRank
<1> HIDE DEF next
<1>4. p.seq \in Nat /\ d.seq \in Nat
  BY DEF Peers, Deltas, Sequences0
<1>5. \/ AbsorbDelta(p, d) = p
      \/ d.seq > p.seq /\ AbsorbDelta(p, d) = RequireCheckpoint(p)
      \/ d.seq > p.seq /\ AbsorbDelta(p, d) = DrainDeltas(next)
  BY <1>4 DEF AbsorbDelta, next, kept, m
<1>6. CASE AbsorbDelta(p, d) = p
  BY <1>6 DEF SameRank, Reaches
<1>7. CASE d.seq > p.seq /\ AbsorbDelta(p, d) = RequireCheckpoint(p)
  BY <1>4, <1>7, RequireShape DEF Reaches
<1>8. CASE d.seq > p.seq /\ AbsorbDelta(p, d) = DrainDeltas(next)
  <2> DEFINE q == DrainDeltas(next)
  <2>1. /\ q \in Peers /\ SameRank(next, q) /\ q.ckpt = next.ckpt
        /\ q.pending \subseteq next.pending /\ Reaches(next, q, next.pending)
    BY <1>3, DrainShape
  <2> HIDE DEF q
  <2>2. SameRank(p, q) /\ Reaches(p, q, p.pending \cup {d})
    BY <1>3, <2>1 DEF SameRank, Reaches
  <2>3. AbsorbDelta(p, d) = q
    BY <1>8 DEF q
  <2> QED BY <1>3, <1>4, <1>8, <2>1, <2>2, <2>3
<1> QED BY <1>5, <1>6, <1>7, <1>8

\* A chunk leaves the assembly as it was, ends it or belongs to it.
SameKey(x, c) == x.seq = c.seq /\ x.cycle = c.cycle

LEMMA ChunkShape ==
  ASSUME NEW p \in Peers, NEW c \in Checkpoints
  PROVE  LET q == AbsorbCheckpoint(p, c) IN
         /\ q \in Peers /\ SameRank(p, q) /\ q.pending \subseteq p.pending
         /\ q.ckpt = p.ckpt \/ q.ckpt = NoCheckpoint \/ SameKey(q.ckpt, c)
<1> DEFINE m == IF c.seq > p.seq THEN MarkDesynchronized(p) ELSE p
           n == [p EXCEPT !.ckpt = NoCheckpoint]
<1>1. m \in Peers /\ SameRank(p, m) /\ m.ckpt = p.ckpt /\ m.pending = p.pending
  BY MarkShape DEF SameRank
<1>2. NoCheckpoint \in Assemblies
  BY QuorumConstants DEF Sequences0, Assemblies, NoCheckpoint
<1>3. n \in Peers /\ SameRank(p, n) /\ n.ckpt = NoCheckpoint /\ n.pending = p.pending
  BY <1>2 DEF Peers, SameRank
<1>4. \/ AbsorbCheckpoint(p, c) = p
      \/ AbsorbCheckpoint(p, c) = n
      \/ AbsorbCheckpoint(p, c) = AddChunk(m, c)
  BY DEF AbsorbCheckpoint
<1> HIDE DEF m, n
<1>5. /\ AddChunk(m, c) \in Peers /\ SameRank(m, AddChunk(m, c))
      /\ AddChunk(m, c).pending \subseteq m.pending
      /\ \/ AddChunk(m, c).ckpt = m.ckpt \/ AddChunk(m, c).ckpt = NoCheckpoint
         \/ SameKey(AddChunk(m, c).ckpt, c)
  <2> DEFINE a == Assembling(m, c)
             b == [a EXCEPT !.chunks = @ \cup {[index |-> c.index, held |-> c.held]}]
             full == [m EXCEPT !.ckpt = b]
             whole == UNION {k.held : k \in b.chunks}
             new == [m EXCEPT !.held = whole, !.seq = b.seq, !.offered = {},
                              !.pending = {q \in m.pending : q.seq > b.seq},
                              !.need = FALSE, !.ckpt = NoCheckpoint, !.desync = TRUE]
  <2>0. /\ m.ckpt \in Assemblies /\ m.ckpt.seq \in Nat /\ m.ckpt.cycle \in Nat
        /\ c.seq \in Nat /\ c.cycle \in Nat
    BY <1>1 DEF Peers, Assemblies, Checkpoints, Sequences0
  <2>1. CASE Before(c, m.ckpt)
    <3>1. AddChunk(m, c) = m
      BY <2>1 DEF AddChunk
    <3> QED BY <1>1, <3>1 DEF SameRank
  <2>2. CASE ~Before(c, m.ckpt)
    <3>1. a \in Assemblies /\ SameKey(a, c)
      BY <2>0, <2>2 DEF Assembling, Before, Assemblies, Checkpoints, SameKey
    <3>2. b \in Assemblies /\ SameKey(b, c)
      BY <3>1 DEF Assemblies, Chunks, Checkpoints, SameKey
    <3>3. \/ AddChunk(m, c) = RequireCheckpoint(m)
          \/ AddChunk(m, c) = full
          \/ AddChunk(m, c) = RequireCheckpoint(full)
          \/ AddChunk(m, c) = DrainDeltas(new)
      BY <2>2 DEF AddChunk, InstallCheckpoint
    <3> HIDE DEF a, b
    <3>4. /\ full \in Peers /\ SameRank(m, full) /\ full.pending = m.pending
          /\ full.ckpt = b
      BY <1>1, <3>2 DEF Peers, SameRank
    <3>5. whole \subseteq Digests
      BY <3>2 DEF Assemblies, Chunks
    <3>6. /\ new \in Peers /\ SameRank(m, new) /\ new.pending \subseteq m.pending
          /\ new.ckpt = NoCheckpoint
      <4> HIDE DEF whole
      <4> QED BY <1>1, <1>2, <3>2, <3>5 DEF Peers, Assemblies, SameRank
    <3> HIDE DEF full, new
    <3>7. CASE AddChunk(m, c) = RequireCheckpoint(m)
      BY <1>1, <3>7, RequireShape
    <3>8. CASE AddChunk(m, c) = full
      BY <3>2, <3>4, <3>8
    <3>9. CASE AddChunk(m, c) = RequireCheckpoint(full)
      BY <3>2, <3>4, <3>9, RequireShape DEF SameRank
    <3>10. CASE AddChunk(m, c) = DrainDeltas(new)
      BY <3>6, <3>10, DrainShape DEF SameRank
    <3> QED BY <3>3, <3>7, <3>8, <3>9, <3>10
  <2> QED BY <2>1, <2>2
<1>6. CASE AbsorbCheckpoint(p, c) = p
  BY <1>6 DEF SameRank
<1>7. CASE AbsorbCheckpoint(p, c) = n
  BY <1>3, <1>7
<1>8. CASE AbsorbCheckpoint(p, c) = AddChunk(m, c)
  BY <1>1, <1>5, <1>8 DEF SameRank
<1> QED BY <1>4, <1>6, <1>7, <1>8

\* The scheduler follows sequence n of generation g and waits for nothing.
Follows(p, g, n) ==
    p.gen = g /\ p.seq = n /\ ~p.desync /\ ~p.need /\ p.pending = {}

LEMMA PartialType ==
  ASSUME NEW S \in SUBSET Digests, NEW n \in Sequences0, NEW cycle \in Nat, NEW i \in Nat
  PROVE  Partial(S, n, cycle, i) \in Assemblies
<1>1. \A j \in 0 .. i - 1 : [index |-> j, held |-> Chunk(S, j)] \in Chunks
  BY DEF Chunk, Chunks
<1>2. Cardinality(S) \in Nat /\ ChunkCount(Cardinality(S)) \in Nat
  BY InventorySize
<1>3. {[index |-> k, held |-> Chunk(S, k)] : k \in 0 .. i - 1} \in SUBSET Chunks
  BY <1>1
<1> QED BY <1>2, <1>3 DEF Partial, Assemblies

LEMMA PartialSize ==
  ASSUME NEW S, NEW n, NEW cycle, NEW i \in Nat
  PROVE  Cardinality(Partial(S, n, cycle, i).chunks) = i
<1> DEFINE C(j) == [index |-> j, held |-> Chunk(S, j)]
           f == [j \in 0 .. i - 1 |-> C(j)]
           X == 0 .. i - 1
           Y == {C(j) : j \in 0 .. i - 1}
<1>1. f \in Bijection(X, Y)
  BY DEF Bijection, Injection, IsInjective, Surjection
<1>2. IsFiniteSet(X) /\ Cardinality(X) = i
  BY FS_Interval
<1>3. ExistsBijection(X, Y)
  BY <1>1 DEF ExistsBijection
<1>4. Partial(S, n, cycle, i).chunks = Y
  BY DEF Partial
<1> HIDE DEF X, Y
<1>5. Cardinality(Y) = Cardinality(X)
  BY <1>2, <1>3, FS_Bijection
<1> QED BY <1>2, <1>4, <1>5

LEMMA PartialUnion ==
  ASSUME NEW S, NEW n, NEW cycle, NEW i \in Nat
  PROVE  UNION {e.held : e \in Partial(S, n, cycle, i).chunks}
           = UNION {Chunk(S, j) : j \in 0 .. i - 1}
<1> DEFINE C(j) == [index |-> j, held |-> Chunk(S, j)]
           Y == Partial(S, n, cycle, i).chunks
<1>1. Y = {C(j) : j \in 0 .. i - 1}
  BY DEF Partial
<1>2. \A e \in Y : \E j \in 0 .. i - 1 : e.held = Chunk(S, j)
  BY <1>1
<1>3. ASSUME NEW j \in 0 .. i - 1 PROVE \E e \in Y : e.held = Chunk(S, j)
  <2>1. C(j) \in Y
    BY <1>1
  <2>2. C(j).held = Chunk(S, j)
    OBVIOUS
  <2> QED BY <2>1, <2>2
<1> HIDE DEF Y
<1>4. UNION {e.held : e \in Y} = UNION {Chunk(S, j) : j \in 0 .. i - 1}
  BY <1>2, <1>3
<1> QED BY <1>4 DEF Y

LEMMA PartialNext ==
  ASSUME NEW S, NEW n, NEW cycle, NEW i \in Nat
  PROVE  /\ Partial(S, n, cycle, i + 1)
              = [seq |-> n, cycle |-> cycle, count |-> ChunkCount(Cardinality(S)),
                 size |-> Cardinality(S),
                 chunks |-> Partial(S, n, cycle, i).chunks \cup {[index |-> i, held |-> Chunk(S, i)]}]
         /\ Partial(S, n, cycle, i)
              = [seq |-> n, cycle |-> cycle, count |-> ChunkCount(Cardinality(S)),
                 size |-> Cardinality(S), chunks |-> Partial(S, n, cycle, i).chunks]
         /\ \A e \in Partial(S, n, cycle, i).chunks : e.index # i
<1> DEFINE C(j) == [index |-> j, held |-> Chunk(S, j)]
<1>1. Partial(S, n, cycle, i).chunks = {C(j) : j \in 0 .. i - 1}
  BY DEF Partial
<1>2. 0 .. (i + 1) - 1 = (0 .. i - 1) \cup {i}
  OBVIOUS
<1>3. {C(j) : j \in 0 .. (i + 1) - 1} = {C(j) : j \in 0 .. i - 1} \cup {C(i)}
  BY <1>2
<1>4. \A e \in {C(j) : j \in 0 .. i - 1} : e.index # i
  OBVIOUS
<1> QED BY <1>1, <1>3, <1>4 DEF Partial

\* A rank that waits for nothing is synchronized by an empty history.
LEMMA DrainNothing ==
  ASSUME NEW p \in Peers, p.pending = {}, ~p.need, p.desync
  PROVE  LET q == DrainDeltas(p) IN
         Follows(q, p.gen, p.seq) /\ q.ckpt = p.ckpt /\ q.retired = p.retired
<1>1. Contiguous(p) = {}
  BY DEF Contiguous
<1>2. ApplyDeltas(p) = p
  BY <1>1 DEF ApplyDeltas
<1>3. DrainDeltas(p) = [p EXCEPT !.desync = FALSE, !.offered = @ \cup p.held]
  BY <1>2 DEF DrainDeltas, Resume
<1> QED BY <1>3 DEF Peers, Follows

\* The next chunk of a cycle whose earlier chunks are assembled extends the
\* assembly; the last one synchronizes the rank (_absorb_worker_checkpoint).
LEMMA CollectChunk ==
  ASSUME NEW p \in Peers, SoundPeer(p), NEW S \in SUBSET Digests,
         NEW n \in Sequences0, NEW cycle \in Nat \ {0}, NEW i \in Nat,
         i < ChunkCount(Cardinality(S)), p.seq <= n,
         \A e \in p.pending : e.seq <= n,
         IF i = 0 THEN p.ckpt.seq < n \/ (p.ckpt.seq = n /\ p.ckpt.cycle < cycle)
                  ELSE p.ckpt = Partial(S, n, cycle, i)
  PROVE  LET q == AbsorbCheckpoint(p, CheckpointChunk(S, n, cycle, i)) IN
         \/ Follows(q, p.gen, n) /\ q.ckpt = NoCheckpoint
         \/ /\ i + 1 < ChunkCount(Cardinality(S))
            /\ q.ckpt = Partial(S, n, cycle, i + 1)
            /\ q.seq = p.seq /\ q.pending = p.pending /\ q.gen = p.gen
<1> DEFINE c == CheckpointChunk(S, n, cycle, i)
           count == ChunkCount(Cardinality(S))
           k == [index |-> i, held |-> Chunk(S, i)]
           m == IF n > p.seq THEN MarkDesynchronized(p) ELSE p
           old == [p EXCEPT !.ckpt = NoCheckpoint]
           a == Partial(S, n, cycle, i)
           b == Partial(S, n, cycle, i + 1)
<1>0. p.seq \in Nat /\ n \in Nat /\ count \in Nat \ {0} /\ p.ckpt \in Assemblies
  BY InventorySize DEF Peers, Sequences0
<1>1. /\ c \in Checkpoints /\ c.seq = n /\ c.cycle = cycle /\ c.index = i /\ c.count = count
      /\ c.size = Cardinality(S) /\ c.held = Chunk(S, i)
  BY ChunkType DEF CheckpointChunk
<1>2. WellFormedCheckpoint(c)
  BY ChunkWellFormed
<1>3. CASE n = p.seq /\ ~p.desync /\ ~p.need
  <2>1. AbsorbCheckpoint(p, c) = old
    BY <1>0, <1>1, <1>2, <1>3 DEF AbsorbCheckpoint
  <2>2. p.pending = {}
    BY <1>3 DEF SoundPeer
  <2>3. Follows(old, p.gen, n) /\ old.ckpt = NoCheckpoint
    BY <1>3, <2>2 DEF Peers, Follows
  <2> QED BY <2>1, <2>3
<1>4. CASE ~(n = p.seq /\ ~p.desync /\ ~p.need)
  <2>1. AbsorbCheckpoint(p, c) = AddChunk(m, c)
    <3> HIDE DEF c
    <3> QED BY <1>0, <1>1, <1>2, <1>4 DEF AbsorbCheckpoint
  <2>2. /\ m \in Peers /\ m.gen = p.gen /\ m.ckpt = p.ckpt /\ m.seq = p.seq
        /\ m.pending = p.pending
    BY MarkShape DEF SameRank
  <2> HIDE DEF c, m
  <2>3. ~Before(c, m.ckpt) /\ Assembling(m, c) = a
    <3>1. CASE i = 0
      <4>1. Before(m.ckpt, c) /\ ~Before(c, m.ckpt)
        <5>1. p.ckpt.seq \in Nat /\ p.ckpt.cycle \in Nat
          BY <1>0 DEF Assemblies, Sequences0
        <5> QED BY <1>0, <1>1, <2>2, <3>1, <5>1 DEF Before
      <4>2. a = [seq |-> n, cycle |-> cycle, count |-> count, size |-> Cardinality(S), chunks |-> {}]
        <5>1. 0 .. i - 1 = {}
          BY <3>1
        <5> QED BY <5>1 DEF Partial
      <4> QED BY <1>1, <4>1, <4>2 DEF Assembling
    <3>2. CASE i # 0
      <4>1. m.ckpt = a /\ a.seq = n /\ a.cycle = cycle
        BY <2>2, <3>2 DEF Partial
      <4>2. ~Before(c, m.ckpt) /\ ~Before(m.ckpt, c)
        BY <1>0, <1>1, <4>1 DEF Before
      <4> QED BY <4>1, <4>2 DEF Assembling
    <3> QED BY <3>1, <3>2
  <2> DEFINE A == a.chunks
  <2>4. /\ a = [seq |-> n, cycle |-> cycle, count |-> count, size |-> Cardinality(S), chunks |-> A]
        /\ b = [seq |-> n, cycle |-> cycle, count |-> count, size |-> Cardinality(S),
                chunks |-> A \cup {k}]
        /\ \A e \in A : e.index # i
        /\ b \in Assemblies
        /\ Cardinality(b.chunks) = i + 1
        /\ UNION {e.held : e \in b.chunks} = UNION {Chunk(S, j) : j \in 0 .. i}
    <3>1. i + 1 \in Nat /\ (i + 1) - 1 = i /\ cycle \in Nat
      OBVIOUS
    <3>2. b \in Assemblies
      BY <3>1, PartialType
    <3>3. Cardinality(b.chunks) = i + 1
      BY <3>1, PartialSize
    <3>4. UNION {e.held : e \in b.chunks} = UNION {Chunk(S, j) : j \in 0 .. (i + 1) - 1}
      BY <3>1, PartialUnion
    <3> QED BY <3>1, <3>2, <3>3, <3>4, PartialNext
  <2>5. /\ a.count = count /\ a.size = Cardinality(S)
        /\ b.count = count /\ b.size = Cardinality(S) /\ b.seq = n
    BY DEF Partial
  <2> HIDE DEF a, b, A
  <2>6. ~Conflicting(a, c)
    BY <1>1, <2>4, <2>5 DEF Conflicting
  <2>7. [a EXCEPT !.chunks = @ \cup {[index |-> c.index, held |-> c.held]}] = b
    <3> DEFINE x == [index |-> c.index, held |-> c.held]
    <3>1. x = k
      BY <1>1
    <3> DEFINE K == {x}
               N == Cardinality(S)
    <3>2. /\ a = [seq |-> n, cycle |-> cycle, count |-> count, size |-> N, chunks |-> A]
          /\ b = [seq |-> n, cycle |-> cycle, count |-> count, size |-> N, chunks |-> A \cup K]
      BY <2>4, <3>1
    <3> HIDE DEF x, k, K, N, count
    <3>3. [a EXCEPT !.chunks = @ \cup K] = b
      BY <3>2
    <3> QED BY <3>3 DEF x, K
  <2>8. AddChunk(m, c) = IF i + 1 # count THEN [m EXCEPT !.ckpt = b] ELSE InstallCheckpoint(m, b)
    BY <2>3, <2>4, <2>5, <2>6, <2>7 DEF AddChunk
  <2>9. CASE i + 1 # count
    <3>1. AddChunk(m, c) = [m EXCEPT !.ckpt = b]
      BY <2>8, <2>9
    <3>2. i + 1 < count
      BY <1>0, <2>9
    <3> QED BY <2>1, <2>2, <3>1, <3>2 DEF b, Peers, c
  <2>10. CASE i + 1 = count
    <3> DEFINE whole == UNION {e.held : e \in b.chunks}
               new == [m EXCEPT !.held = whole, !.seq = b.seq, !.offered = {},
                                !.pending = {q \in m.pending : q.seq > b.seq},
                                !.need = FALSE, !.ckpt = NoCheckpoint, !.desync = TRUE]
    <3>1. whole = S
      <4>1. 0 .. i = 0 .. count - 1
        BY <1>0, <2>10
      <4> QED BY <2>4, <4>1, ChunksCover
    <3>2. Cardinality(whole) = b.size
      BY <2>5, <3>1
    <3>3. InstallCheckpoint(m, b) = DrainDeltas(new)
      BY <3>2 DEF InstallCheckpoint
    <3>4. {q \in m.pending : q.seq > b.seq} = {}
      BY <1>0, <2>2, <2>5 DEF Peers, Deltas, Sequences0
    <3>5. NoCheckpoint \in Assemblies
      BY QuorumConstants DEF Sequences0, Assemblies, NoCheckpoint
    <3>6. /\ new \in Peers /\ new.pending = {} /\ new.gen = p.gen /\ new.seq = n
          /\ new.ckpt = NoCheckpoint /\ new.need = FALSE /\ new.desync = TRUE
      <4> HIDE DEF whole
      <4> QED BY <2>2, <2>5, <3>1, <3>4, <3>5 DEF Peers
    <3> HIDE DEF new
    <3>7. Follows(DrainDeltas(new), p.gen, n) /\ DrainDeltas(new).ckpt = NoCheckpoint
      BY <3>6, DrainNothing
    <3> QED BY <2>1, <2>8, <2>10, <3>3, <3>7 DEF c
  <2> QED BY <2>9, <2>10
<1> QED BY <1>3, <1>4

\* A rank that follows the worker is not disturbed by the worker's reports.
LEMMA StaysInSync ==
  ASSUME NEW p \in Peers, NEW n \in Sequences0, NEW m \in Reports, Follows(p, m.gen, n),
         m.delta.seq <= n, m.ckpt.seq = n, WellFormedCheckpoint(m.ckpt)
  PROVE  LET q == AbsorbQuorum(p, m) IN
         Follows(q, m.gen, n) /\ q.ckpt = NoCheckpoint /\ q.retired = p.retired
<1> DEFINE q == [p EXCEPT !.ckpt = NoCheckpoint]
<1>1. ~Rejected(p, m.gen) /\ AcceptGeneration(p, m.gen) = p
  BY DEF Follows, Rejected, AcceptGeneration
<1>2. AbsorbDelta(p, m.delta) = p
  BY DeltaShape DEF Follows, Reports
<1>3. n \in Nat
  BY DEF Sequences0
<1>4. AbsorbCheckpoint(p, m.ckpt) = q
  BY <1>3 DEF AbsorbCheckpoint, Follows
<1>5. AbsorbQuorum(p, m) = q
  BY <1>1, <1>2, <1>4 DEF AbsorbQuorum
<1>6. Follows(q, m.gen, n) /\ q.ckpt = NoCheckpoint /\ q.retired = p.retired
  BY DEF Peers, Follows
<1> QED BY <1>5, <1>6

LEMMA AcceptShape ==
  ASSUME NEW p \in Peers, NEW g \in Generations
  PROVE  LET a == AcceptGeneration(p, g) IN
         /\ a.gen = g
         /\ p.gen = g => a = p
         /\ p.gen # g => /\ a.seq = 0 /\ a.pending = {} /\ a.ckpt = NoCheckpoint
                         /\ ~a.desync /\ ~a.need
                         /\ a.retired = IF p.gen = NoGeneration THEN p.retired
                                        ELSE Trim(Append(p.retired, p.gen), RetiredLimit)
<1> DEFINE ret == IF p.gen = NoGeneration THEN p.retired
                  ELSE Trim(Append(p.retired, p.gen), RetiredLimit)
           q == [p EXCEPT !.retired = ret]
<1>1. CASE p.gen = g
  BY <1>1 DEF AcceptGeneration
<1>2. CASE p.gen # g
  <2>1. AcceptGeneration(p, g) = BeginGeneration(q, g)
    BY <1>2 DEF AcceptGeneration, Peers
  <2> HIDE DEF ret
  <2>2. q.retired = ret
    BY DEF Peers
  <2>3. DOMAIN q = {"gen", "retired", "seq", "held", "pending", "ckpt", "desync", "need", "offered"}
    BY DEF Peers
  <2> HIDE DEF q
  <2> QED BY <1>2, <2>1, <2>2, <2>3 DEF BeginGeneration, ret
<1> QED BY <1>1, <1>2

\* What one report can change of a rank's record.
LEMMA QuorumShape ==
  ASSUME NEW p \in Peers, SoundPeer(p), NEW m \in Reports, ~Rejected(p, m.gen)
  PROVE  LET a == AcceptGeneration(p, m.gen)
             q == AbsorbQuorum(p, m) IN
         /\ a \in Peers /\ SoundPeer(a) /\ a.gen = m.gen
         /\ q.gen = m.gen /\ q.retired = a.retired
         /\ q.pending \subseteq a.pending \cup {m.delta}
         /\ q.ckpt = a.ckpt \/ q.ckpt = NoCheckpoint \/ SameKey(q.ckpt, m.ckpt)
<1> DEFINE a == AcceptGeneration(p, m.gen)
           b == AbsorbDelta(a, m.delta)
           q == AbsorbCheckpoint(b, m.ckpt)
<1>1. m.gen \in Generations /\ m.delta \in Deltas /\ m.ckpt \in Checkpoints
  BY DEF Reports
<1>2. a \in Peers /\ SoundPeer(a) /\ a.gen = m.gen
  BY <1>1, AcceptFacts
<1>3. AbsorbQuorum(p, m) = q
  BY DEF AbsorbQuorum
<1> HIDE DEF a
<1>4. /\ b \in Peers /\ SameRank(a, b) /\ b.ckpt = a.ckpt
      /\ b.pending \subseteq a.pending \cup {m.delta}
  BY <1>1, <1>2, DeltaShape
<1> HIDE DEF b
<1>5. /\ q \in Peers /\ SameRank(b, q) /\ q.pending \subseteq b.pending
      /\ q.ckpt = b.ckpt \/ q.ckpt = NoCheckpoint \/ SameKey(q.ckpt, m.ckpt)
  BY <1>1, <1>4, ChunkShape
<1> HIDE DEF q
<1> QED BY <1>2, <1>3, <1>4, <1>5 DEF SameRank, a
-----------------------------------------------------------------------------
(***************************************************************************)
(* The order of what is under way.  After a disturbance the reports of one *)
(* worker are consecutive chunks of one inventory; what arrived before the *)
(* first of them is older, and after a whole cycle the rank is in step.    *)
(***************************************************************************)
InSync(p, w) == Follows(p, w.gen, w.seq)

\* The exceptions of Resynchronized.
Excused(p, w) ==
    w.gen \in Elements(p.retired) \/ (p.gen = w.gen /\ p.seq > w.seq)

\* The chunk the worker reports next, as long as its inventory does not change.
Position(w) == CheckpointChunk(w.observed, w.seq, w.cycle, w.index)

\* Key x (of a chunk or of an assembly) is older than the chunk pos; one of the
\* same cycle is possible only behind the first chunk of that cycle.
Past(x, pos) ==
    /\ x.seq <= pos.seq
    /\ x.cycle < pos.cycle \/ (x.cycle = pos.cycle /\ x.seq = pos.seq /\ pos.index > 0)

\* The j-th chunk to arrive; behind the reports under way comes the one that
\* the worker has not built.
Upcoming(line, w, j) == IF j <= Len(line) THEN line[j].ckpt ELSE Position(w)

\* The place of the first report built after the last disturbance: those
\* before it fill at most the wire, less the s deliveries since.
Boundary(s) == IF s >= MaxInFlight THEN 1 ELSE MaxInFlight + 1 - s

Size(w) == ChunkCount(Cardinality(w.observed))

Successor(c, e, count) ==
    /\ e.index = IF c.index + 1 >= count THEN 0 ELSE c.index + 1
    /\ e.cycle = IF c.index + 1 >= count THEN c.cycle + 1 ELSE c.cycle

\* A report of the worker's present inventory.
Current(m, w) ==
    /\ m.gen = w.gen
    /\ m.ckpt = CheckpointChunk(w.observed, w.seq, m.ckpt.cycle, m.ckpt.index)
    /\ m.ckpt.cycle >= 1 /\ m.ckpt.index < Size(w)

WorkerPlaced(w) ==
    /\ w.cycle >= 1 /\ w.index < Size(w)
    /\ \A i \in DOMAIN w.history : w.history[i].seq <= w.seq

\* Whatever is under way or believed is older than what the worker reports next.
ReportPast(m, w) ==
    /\ m.gen <= w.gen
    /\ m.gen = w.gen => m.delta.seq <= w.seq /\ Past(m.ckpt, Position(w))

PeerPast(p, w) ==
    /\ p.gen <= w.gen
    /\ p.gen = w.gen => /\ Past(p.ckpt, Position(w))
                        /\ \A e \in p.pending : e.seq <= w.seq

InOrder(line, w, s, p) ==
    LET pos == Upcoming(line, w, Boundary(s)) IN
    /\ Len(line) <= MaxInFlight
    /\ Len(line) + s > MaxInFlight => w.held = w.observed
    /\ \A j \in DOMAIN line : j + s > MaxInFlight =>
          Current(line[j], w) /\ Successor(line[j].ckpt, Upcoming(line, w, j + 1), Size(w))
    /\ p.gen = w.gen => Past(p.ckpt, pos)
    /\ \A j \in DOMAIN line : j + s <= MaxInFlight /\ line[j].gen = w.gen => Past(line[j].ckpt, pos)

\* After n reports that were built since the last disturbance: the chunks of
\* the cycle under way are assembled, and a whole cycle synchronizes the rank.
Progress(n, pos, w, p) ==
    /\ n >= 1 => p.gen = w.gen
    /\ n >= pos.index + Size(w) => InSync(p, w)
    /\ n >= pos.index /\ pos.index > 0 =>
          InSync(p, w) \/ p.ckpt = Partial(w.observed, w.seq, pos.cycle, pos.index)

CatchesUp(line, w, s, p) ==
    s >= MaxInFlight => Excused(p, w) \/ Progress(s - MaxInFlight, Upcoming(line, w, 1), w, p)

Serving(line, w, s, p) ==
    /\ \A j \in DOMAIN line : ReportPast(line[j], w)
    /\ PeerPast(p, w)
    /\ InOrder(line, w, s, p)
    /\ CatchesUp(line, w, s, p)
-----------------------------------------------------------------------------
LEMMA PositionFacts ==
  ASSUME NEW w \in Workers
  PROVE  /\ Position(w) \in Checkpoints
         /\ Position(w).seq = w.seq /\ Position(w).cycle = w.cycle
         /\ Position(w).index = w.index
         /\ Size(w) \in Nat \ {0}
<1>1. w.observed \in SUBSET Digests /\ w.seq \in Sequences0 /\ w.cycle \in Nat /\ w.index \in Nat
  BY DEF Workers
<1>2. Position(w) \in Checkpoints
  BY <1>1, ChunkType DEF Position
<1>3. Position(w).seq = w.seq /\ Position(w).cycle = w.cycle /\ Position(w).index = w.index
  BY DEF Position, CheckpointChunk
<1>4. Size(w) \in Nat \ {0}
  BY <1>1, InventorySize DEF Size
<1> QED BY <1>2, <1>3, <1>4

\* The order of keys is transitive, and a successor is later.
LEMMA PastTransitive ==
  ASSUME NEW x, x.seq \in Nat, x.cycle \in Nat, NEW a \in Checkpoints, NEW b \in Checkpoints,
         Past(x, a), Past(a, b)
  PROVE  Past(x, b)
BY DEF Past, Checkpoints, Sequences0

LEMMA SuccessorPast ==
  ASSUME NEW a \in Checkpoints, NEW b \in Checkpoints, a.seq = b.seq, NEW count \in Nat \ {0},
         Successor(a, b, count)
  PROVE  Past(a, b)
BY DEF Past, Successor, Checkpoints, Sequences0

LEMMA NothingPast ==
  ASSUME NEW pos \in Checkpoints, pos.cycle >= 1
  PROVE  Past(NoCheckpoint, pos)
BY DEF Past, NoCheckpoint, Checkpoints, Sequences0

LEMMA AssemblyKey ==
  ASSUME NEW p \in Peers
  PROVE  p.ckpt.seq \in Nat /\ p.ckpt.cycle \in Nat
BY DEF Peers, Assemblies, Sequences0

LEMMA ReportKey ==
  ASSUME NEW m \in Reports
  PROVE  /\ m.ckpt \in Checkpoints /\ m.ckpt.seq \in Nat /\ m.ckpt.cycle \in Nat
         /\ m.ckpt.index \in Nat /\ m.gen \in Generations /\ m.delta \in Deltas /\ m.delta.seq \in Nat
BY DEF Reports, Checkpoints, Deltas, Sequences0

\* A report that is past a position leaves a belief that is past it too.
LEMMA AbsorbPast ==
  ASSUME NEW p \in Peers, SoundPeer(p), NEW m \in Reports, NEW g,
         NEW pos \in Checkpoints, pos.cycle >= 1,
         p.gen = g => Past(p.ckpt, pos),
         m.gen = g => Past(m.ckpt, pos)
  PROVE  AbsorbQuorum(p, m).gen = g => Past(AbsorbQuorum(p, m).ckpt, pos)
<1> DEFINE q == AbsorbQuorum(p, m)
           a == AcceptGeneration(p, m.gen)
<1>1. CASE Rejected(p, m.gen)
  <2>1. q = p
    BY <1>1 DEF AbsorbQuorum
  <2> QED BY <2>1
<1>2. CASE ~Rejected(p, m.gen)
  <2>1. /\ a.gen = m.gen /\ q.gen = m.gen
        /\ q.ckpt = a.ckpt \/ q.ckpt = NoCheckpoint \/ SameKey(q.ckpt, m.ckpt)
    BY <1>2, QuorumShape
  <2>2. IF p.gen = m.gen THEN a = p ELSE a.ckpt = NoCheckpoint
    BY AcceptShape, ReportKey
  <2> HIDE DEF q, a
  <2>3. Past(NoCheckpoint, pos)
    BY NothingPast
  <2>4. SUFFICES ASSUME q.gen = g PROVE Past(q.ckpt, pos)
    BY DEF q
  <2>5. Past(m.ckpt, pos) /\ Past(a.ckpt, pos)
    BY <2>1, <2>2, <2>3, <2>4
  <2> QED BY <2>1, <2>3, <2>5 DEF SameKey, Past
<1> QED BY <1>1, <1>2

LEMMA AbsorbPending ==
  ASSUME NEW p \in Peers, SoundPeer(p), NEW m \in Reports, NEW g, NEW n \in Nat,
         p.gen = g => \A e \in p.pending : e.seq <= n,
         m.gen = g => m.delta.seq <= n
  PROVE  /\ AbsorbQuorum(p, m).gen \in {p.gen, m.gen}
         /\ AbsorbQuorum(p, m).gen = g => \A e \in AbsorbQuorum(p, m).pending : e.seq <= n
<1> DEFINE q == AbsorbQuorum(p, m)
           a == AcceptGeneration(p, m.gen)
<1>1. CASE Rejected(p, m.gen)
  <2>1. q = p
    BY <1>1 DEF AbsorbQuorum
  <2> QED BY <2>1
<1>2. CASE ~Rejected(p, m.gen)
  <2>1. a.gen = m.gen /\ q.gen = m.gen /\ q.pending \subseteq a.pending \cup {m.delta}
    BY <1>2, QuorumShape
  <2>2. IF p.gen = m.gen THEN a = p ELSE a.pending = {}
    BY AcceptShape, ReportKey
  <2> HIDE DEF q, a
  <2>3. q.gen \in {p.gen, m.gen} /\ (q.gen = g => \A e \in q.pending : e.seq <= n)
    BY <2>1, <2>2
  <2> QED BY <2>3 DEF q
<1> QED BY <1>1, <1>2

LEMMA AbsorbPeerPast ==
  ASSUME NEW w \in Workers, WorkerPlaced(w), NEW p \in Peers, SoundPeer(p), PeerPast(p, w),
         NEW m \in Reports, ReportPast(m, w)
  PROVE  PeerPast(AbsorbQuorum(p, m), w)
<1> DEFINE q == AbsorbQuorum(p, m)
           pos == Position(w)
<1>1. pos \in Checkpoints /\ pos.cycle >= 1
  BY PositionFacts DEF WorkerPlaced
<1>2. q.gen = w.gen => Past(q.ckpt, pos)
  <2> HIDE DEF pos
  <2>1. p.gen = w.gen => Past(p.ckpt, pos)
    BY DEF PeerPast, pos
  <2>2. m.gen = w.gen => Past(m.ckpt, pos)
    BY DEF ReportPast, pos
  <2> QED BY <1>1, <2>1, <2>2, AbsorbPast
<1>3. w.seq \in Nat
  BY DEF Workers, Sequences0
<1>4. /\ q.gen \in {p.gen, m.gen}
      /\ q.gen = w.gen => \A e \in q.pending : e.seq <= w.seq
  BY <1>3, AbsorbPending DEF PeerPast, ReportPast
<1> QED BY <1>2, <1>4 DEF PeerPast, ReportPast

\* A worker the scheduler has retired, or whose handshake it follows, stays so
\* as long as only that worker's reports arrive.
LEMMA ExcusedStays ==
  ASSUME NEW p \in Peers, SoundPeer(p), NEW w \in Workers, NEW m \in Reports, m.gen = w.gen,
         Excused(p, w)
  PROVE  Excused(AbsorbQuorum(p, m), w)
<1> DEFINE q == AbsorbQuorum(p, m)
           a == AcceptGeneration(p, m.gen)
<1>0. w.seq \in Nat /\ p.seq \in Nat
  BY DEF Workers, Peers, Sequences0
<1>1. CASE p.gen = w.gen
  <2>1. ~Rejected(p, m.gen) /\ a = p
    BY <1>1, AcceptShape, ReportKey DEF Rejected
  <2>2. q.gen = w.gen /\ q.retired = p.retired
    BY <2>1, QuorumShape
  <2>3. q \in Peers /\ (q.gen = p.gen => q.seq >= p.seq)
    BY AbsorbQuorumFacts
  <2>4. q.seq \in Nat
    BY <2>3 DEF Peers, Sequences0
  <2> HIDE DEF q, a
  <2>5. Excused(q, w)
    BY <1>0, <1>1, <2>2, <2>3, <2>4 DEF Excused
  <2> QED BY <2>5 DEF q
<1>2. CASE p.gen # w.gen
  <2>1. Rejected(p, m.gen)
    BY <1>2 DEF Rejected, Excused
  <2>2. q = p
    BY <2>1 DEF AbsorbQuorum
  <2> QED BY <2>2
<1> QED BY <1>1, <1>2

\* The next report of the worker brings the scheduler one chunk further.
LEMMA DeliverProgress ==
  ASSUME NEW p \in Peers, SoundPeer(p), NEW w \in Workers, NEW m \in Reports,
         Current(m, w), m.delta.seq <= w.seq,
         p.gen = w.gen => Past(p.ckpt, m.ckpt),
         p.gen = w.gen => \A e \in p.pending : e.seq <= w.seq,
         NEW next \in Checkpoints, Successor(m.ckpt, next, Size(w)),
         NEW n \in Nat, NEW k \in Nat, k = n + 1 \/ (k = n /\ n >= 2 * Size(w)),
         Excused(p, w) \/ Progress(n, m.ckpt, w, p)
  PROVE  Excused(AbsorbQuorum(p, m), w) \/ Progress(k, next, w, AbsorbQuorum(p, m))
<1> DEFINE q == AbsorbQuorum(p, m)
           c == m.ckpt
           i == c.index
           count == Size(w)
           S == w.observed
<1>0. /\ S \in SUBSET Digests /\ w.seq \in Sequences0 /\ w.seq \in Nat /\ count \in Nat \ {0}
      /\ m.gen = w.gen /\ i \in Nat /\ i < count /\ c.cycle \in Nat \ {0} /\ c.seq = w.seq
      /\ c = CheckpointChunk(S, w.seq, c.cycle, i)
      /\ next.index \in Nat /\ m.gen \in Generations /\ m.delta \in Deltas /\ c \in Checkpoints
  <2>1. S \in SUBSET Digests /\ w.seq \in Sequences0 /\ w.seq \in Nat
    BY DEF Workers, Sequences0
  <2>2. count \in Nat \ {0}
    BY PositionFacts
  <2>3. c \in Checkpoints /\ i \in Nat /\ c.cycle \in Nat /\ m.gen \in Generations /\ m.delta \in Deltas
    BY ReportKey
  <2>4. c = CheckpointChunk(S, w.seq, c.cycle, i) /\ c.cycle >= 1 /\ i < count /\ m.gen = w.gen
    BY DEF Current
  <2>5. c.seq = w.seq
    <3> DEFINE x == CheckpointChunk(S, w.seq, c.cycle, i)
    <3>1. x.seq = w.seq
      BY DEF CheckpointChunk
    <3> QED BY <2>4, <3>1
  <2>6. next.index \in Nat
    BY DEF Checkpoints
  <2> QED BY <2>1, <2>2, <2>3, <2>4, <2>5, <2>6
<1>1. CASE Excused(p, w)
  BY <1>0, <1>1, ExcusedStays
<1>2. CASE InSync(p, w) /\ Progress(n, c, w, p)
  <2>1. WellFormedCheckpoint(c)
    BY <1>0, ChunkWellFormed DEF Size
  <2>2. Follows(q, m.gen, w.seq)
    BY <1>0, <1>2, <2>1, StaysInSync DEF InSync
  <2>3. InSync(q, w) /\ q.gen = w.gen
    BY <1>0, <2>2 DEF InSync, Follows
  <2> QED BY <2>3 DEF Progress
<1>3. CASE ~Excused(p, w) /\ ~InSync(p, w) /\ Progress(n, c, w, p)
  <2> DEFINE a == AcceptGeneration(p, m.gen)
             b == AbsorbDelta(a, m.delta)
  <2>1. n < i + count /\ k = n + 1
    <3>1. ~(n >= i + count)
      BY <1>3 DEF Progress
    <3>2. n < i + count
      BY <1>0, <3>1
    <3> QED BY <1>0, <3>2
  <2>2. ~Rejected(p, m.gen)
    BY <1>0, <1>3 DEF Excused, Rejected
  <2>3. a \in Peers /\ SoundPeer(a) /\ a.gen = w.gen
    BY <1>0, <2>2, QuorumShape
  <2>4. /\ p.gen = w.gen => a = p
        /\ p.gen # w.gen => a.seq = 0 /\ a.pending = {} /\ a.ckpt = NoCheckpoint
    BY <1>0, AcceptShape
  <2>5. q = AbsorbCheckpoint(b, c)
    BY <2>2 DEF AbsorbQuorum
  <2> HIDE DEF a
  <2>6. a.seq <= w.seq /\ \A e \in a.pending : e.seq <= w.seq
    <3>1. CASE p.gen = w.gen
      <4>1. p.seq \in Nat
        BY DEF Peers, Sequences0
      <4>2. p.seq <= w.seq
        BY <1>0, <1>3, <3>1, <4>1 DEF Excused
      <4> QED BY <2>4, <3>1, <4>2
    <3>2. CASE p.gen # w.gen
      BY <1>0, <2>4, <3>2
    <3> QED BY <3>1, <3>2
  <2>7. /\ b \in Peers /\ SameRank(a, b) /\ b.ckpt = a.ckpt
        /\ b.pending \subseteq a.pending \cup {m.delta}
        /\ Reaches(a, b, a.pending \cup {m.delta})
        /\ SoundPeer(b)
    BY <1>0, <2>3, DeltaShape, AbsorbDeltaFacts
  <2> HIDE DEF b
  <2>8. b.gen = w.gen /\ b.seq <= w.seq /\ \A e \in b.pending : e.seq <= w.seq
    BY <2>3, <2>6, <2>7 DEF SameRank, Reaches
  <2>9. q.gen = w.gen
    BY <1>0, <2>2, QuorumShape
  <2>10. CASE n >= i
    <3>1. IF i = 0 THEN b.ckpt.seq < w.seq \/ (b.ckpt.seq = w.seq /\ b.ckpt.cycle < c.cycle)
                   ELSE b.ckpt = Partial(S, w.seq, c.cycle, i)
      <4>1. CASE i = 0
        <5>1. b.ckpt.seq \in Nat /\ b.ckpt.cycle \in Nat
          BY <2>7, AssemblyKey
        <5>2. CASE p.gen = w.gen
          <6>1. Past(b.ckpt, c)
            BY <2>4, <2>7, <5>2
          <6> QED BY <1>0, <4>1, <5>1, <6>1 DEF Past
        <5>3. CASE p.gen # w.gen
          <6>1. b.ckpt.seq = 0 /\ b.ckpt.cycle = 0
            BY <2>4, <2>7, <5>3 DEF NoCheckpoint
          <6> QED BY <1>0, <4>1, <6>1
        <5> QED BY <5>2, <5>3
      <4>2. CASE i # 0
        <5>1. i > 0 /\ n >= 1
          BY <1>0, <2>10, <4>2
        <5>2. p.gen = w.gen /\ p.ckpt = Partial(S, w.seq, c.cycle, i)
          BY <1>3, <2>10, <5>1 DEF Progress
        <5> QED BY <2>4, <2>7, <4>2, <5>2
      <4> QED BY <4>1, <4>2
    <3> DEFINE chunk == CheckpointChunk(S, w.seq, c.cycle, i)
    <3>2. \/ Follows(AbsorbCheckpoint(b, chunk), b.gen, w.seq)
          \/ /\ i + 1 < count
             /\ AbsorbCheckpoint(b, chunk).ckpt = Partial(S, w.seq, c.cycle, i + 1)
      <4> DEFINE cyc == c.cycle
      <4>1. cyc \in Nat \ {0} /\ i < ChunkCount(Cardinality(S)) /\ i \in Nat
        BY <1>0 DEF Size
      <4> HIDE DEF cyc, i, S, count
      <4> QED BY <1>0, <2>7, <2>8, <3>1, <4>1, CollectChunk DEF cyc, Size, S, count
    <3>3. chunk = c
      BY <1>0
    <3> HIDE DEF chunk
    <3>4. InSync(q, w) \/ (i + 1 < count /\ q.ckpt = Partial(S, w.seq, c.cycle, i + 1))
      BY <2>5, <2>8, <3>2, <3>3 DEF InSync
    <3>5. CASE InSync(q, w)
      BY <2>9, <3>5 DEF Progress
    <3>6. CASE i + 1 < count /\ q.ckpt = Partial(S, w.seq, c.cycle, i + 1)
      <4>1. next.index = i + 1 /\ next.cycle = c.cycle
        BY <1>0, <3>6 DEF Successor
      <4>2. ~(k >= next.index + count)
        BY <1>0, <2>1, <4>1
      <4> HIDE DEF q
      <4>3. Progress(k, next, w, q)
        BY <2>9, <3>6, <4>1, <4>2 DEF Progress
      <4> QED BY <4>3 DEF q
    <3> QED BY <3>4, <3>5, <3>6
  <2>11. CASE n < i
    <3>1. ~(k >= next.index + count)
      BY <1>0, <2>1, <2>11 DEF Successor
    <3>2. ~(k >= next.index /\ next.index > 0)
      BY <1>0, <2>1, <2>11 DEF Successor
    <3> HIDE DEF q
    <3>3. Progress(k, next, w, q)
      BY <2>9, <3>1, <3>2 DEF Progress
    <3> QED BY <3>3 DEF q
  <2> QED BY <1>0, <2>10, <2>11
<1> QED BY <1>1, <1>2, <1>3

\* After a disturbance it is enough that nothing is ahead of the worker.
LEMMA ServingReset ==
  ASSUME NEW w \in Workers, NEW line \in Seq(Reports), NEW p, Len(line) <= MaxInFlight,
         \A j \in DOMAIN line : ReportPast(line[j], w), PeerPast(p, w)
  PROVE  Serving(line, w, 0, p)
<1>1. MaxInFlight \in Nat \ {0} /\ Len(line) \in Nat /\ DOMAIN line = 1 .. Len(line)
  BY QuorumConstants
<1>2. Boundary(0) = MaxInFlight + 1
  BY <1>1 DEF Boundary
<1>3. Upcoming(line, w, Boundary(0)) = Position(w)
  BY <1>1, <1>2 DEF Upcoming
<1>4. InOrder(line, w, 0, p)
  <2>1. ~(Len(line) + 0 > MaxInFlight)
    BY <1>1
  <2>2. \A j \in DOMAIN line : ~(j + 0 > MaxInFlight)
    BY <1>1
  <2> QED BY <1>3, <2>1, <2>2 DEF InOrder, PeerPast, ReportPast
<1>5. CatchesUp(line, w, 0, p)
  BY <1>1 DEF CatchesUp
<1> QED BY <1>4, <1>5 DEF Serving

LEMMA CountMonotone ==
  ASSUME NEW m \in Nat, NEW n \in Nat, m <= n
  PROVE  ChunkCount(m) <= ChunkCount(n)
<1> DEFINE k == ChunkCount(n)
<1>1. ChunkCount(m) \in Nat \ {0} /\ k \in Nat \ {0}
  BY CountBounds
<1>2. ASSUME k < ChunkCount(m) PROVE FALSE
  <2>1. BatchSize \in Nat \ {0}
    BY QuorumConstants
  <2>2. CASE m = 0
    <3>1. ChunkCount(m) = 1
      BY <2>2 DEF ChunkCount
    <3> QED BY <1>1, <1>2, <3>1
  <2>3. CASE m # 0
    <3> DEFINE j == (m - 1) \div BatchSize
               x == (m + BatchSize - 1) \div BatchSize
               y == (n + BatchSize - 1) \div BatchSize
    <3>1. ChunkCount(m) = x /\ k = y
      BY <2>3 DEF ChunkCount
    <3>2. /\ x \in Nat /\ BatchSize * x <= m + BatchSize - 1
          /\ y \in Nat /\ n + BatchSize - 1 < BatchSize * y + BatchSize
      BY <2>1
    <3> HIDE DEF x, y, k
    <3>3. BatchSize * (y + 1) <= BatchSize * x
      BY <1>2, <2>1, <3>1, <3>2
    <3>4. BatchSize * (y + 1) = BatchSize * y + BatchSize
      BY <2>1, <3>2
    <3> QED BY <2>1, <3>2, <3>3, <3>4
  <2> QED BY <2>2, <2>3
<1> QED BY <1>1, <1>2

\* The bound on streaks is long enough for every inventory.
LEMMA CapReached ==
  ASSUME NEW w \in Workers
  PROVE  /\ StreakCap \in Nat /\ StreakCap >= MaxInFlight + 2 * Size(w)
         /\ SettleTime(Cardinality(w.observed)) = MaxInFlight + 2 * Size(w)
<1>1. w.observed \in SUBSET Digests /\ Digests \in SUBSET Digests
  BY DEF Workers
<1>2. Cardinality(w.observed) \in Nat /\ Cardinality(Digests) \in Nat
  BY <1>1, InventorySize
<1>3. Cardinality(w.observed) <= Cardinality(Digests)
  BY <1>1, QuorumConstants, FS_Subset
<1>4. Size(w) <= ChunkCount(Cardinality(Digests))
  BY <1>2, <1>3, CountMonotone DEF Size
<1>5. Size(w) \in Nat /\ ChunkCount(Cardinality(Digests)) \in Nat
  BY <1>1, InventorySize DEF Size
<1> QED BY <1>4, <1>5, QuorumConstants DEF StreakCap, SettleTime, Size

LEMMA UpcomingFacts ==
  ASSUME NEW w \in Workers, WorkerPlaced(w), NEW line \in Seq(Reports), NEW s \in Nat,
         NEW p, InOrder(line, w, s, p), NEW j \in Nat \ {0}, j + s > MaxInFlight
  PROVE  /\ Upcoming(line, w, j) \in Checkpoints
         /\ Upcoming(line, w, j).seq = w.seq
         /\ Upcoming(line, w, j).cycle >= 1
         /\ Upcoming(line, w, j).index < Size(w)
<1>1. CASE j <= Len(line)
  <2>1. j \in DOMAIN line /\ line[j] \in Reports
    BY <1>1
  <2>2. Current(line[j], w)
    BY <2>1 DEF InOrder
  <2>3. Upcoming(line, w, j) = line[j].ckpt /\ line[j].ckpt \in Checkpoints
    BY <1>1, <2>1, ReportKey DEF Upcoming
  <2>4. line[j].ckpt.seq = w.seq
    <3> DEFINE x == CheckpointChunk(w.observed, w.seq, line[j].ckpt.cycle, line[j].ckpt.index)
    <3>1. x.seq = w.seq
      BY DEF CheckpointChunk
    <3> QED BY <2>2, <3>1 DEF Current
  <2> QED BY <2>2, <2>3, <2>4 DEF Current
<1>2. CASE ~(j <= Len(line))
  BY <1>2, PositionFacts DEF Upcoming, WorkerPlaced
<1> QED BY <1>1, <1>2

LEMMA WithoutLength ==
  ASSUME NEW s \in Seq(Reports), NEW i \in DOMAIN s
  PROVE  Len(Without(s, i)) = Len(s) - 1
<1> DEFINE t == Without(s, i)
           n == Len(s) - 1
<1>1. t \in Seq(Reports)
  BY WithoutType
<1>2. DOMAIN t = 1 .. n /\ n \in Nat
  BY DEF Without
<1> HIDE DEF t, n
<1>3. Len(t) \in Nat /\ 1 .. Len(t) = 1 .. n
  BY <1>1, <1>2
<1>4. \A a, b \in Nat : 1 .. a = 1 .. b => a <= b
  <2> SUFFICES ASSUME NEW a \in Nat, NEW b \in Nat, 1 .. a = 1 .. b, ~(a <= b) PROVE FALSE
    OBVIOUS
  <2>1. a \in 1 .. a /\ a \notin 1 .. b
    OBVIOUS
  <2> QED BY <2>1
<1>5. Len(t) <= n /\ n <= Len(t)
  BY <1>2, <1>3, <1>4
<1> QED BY <1>2, <1>3, <1>5 DEF t, n

LEMMA WithoutFirst ==
  ASSUME NEW s \in Seq(Reports), 1 \in DOMAIN s
  PROVE  /\ Without(s, 1) \in Seq(Reports) /\ Len(Without(s, 1)) = Len(s) - 1
         /\ \A j \in DOMAIN Without(s, 1) : j + 1 \in DOMAIN s /\ Without(s, 1)[j] = s[j + 1]
<1>1. Len(s) \in Nat /\ Len(s) - 1 \in Nat /\ DOMAIN s = 1 .. Len(s)
  OBVIOUS
<1>2. Without(s, 1) \in Seq(Reports)
  BY WithoutType
<1>3. Without(s, 1) = [j \in 1 .. Len(s) - 1 |-> IF j < 1 THEN s[j] ELSE s[j + 1]]
  BY DEF Without
<1>4. DOMAIN Without(s, 1) = 1 .. Len(s) - 1
  BY <1>3
<1>5. Len(Without(s, 1)) = Len(s) - 1
  BY WithoutLength
<1>6. \A j \in 1 .. Len(s) - 1 : j + 1 \in DOMAIN s /\ Without(s, 1)[j] = s[j + 1]
  BY <1>1, <1>3
<1> QED BY <1>2, <1>4, <1>5, <1>6

\* A report delivered in its turn.
LEMMA ServingDeliver ==
  ASSUME NEW w \in Workers, WorkerPlaced(w), NEW line \in Seq(Reports), NEW s \in Nat,
         NEW p \in Peers, SoundPeer(p), Serving(line, w, s, p), 1 \in DOMAIN line
  PROVE  Serving(Without(line, 1), w, IF s < StreakCap THEN s + 1 ELSE s,
                 AbsorbQuorum(p, line[1]))
<1> DEFINE m == line[1]
           q == AbsorbQuorum(p, m)
           rest == Without(line, 1)
           t == IF s < StreakCap THEN s + 1 ELSE s
           L == Len(line)
           F == MaxInFlight
<1>0. /\ m \in Reports /\ L \in Nat \ {0} /\ F \in Nat \ {0} /\ DOMAIN line = 1 .. L
      /\ StreakCap \in Nat /\ Size(w) \in Nat \ {0} /\ StreakCap >= F + 2 * Size(w)
      /\ w.seq \in Nat
  BY QuorumConstants, CapReached, PositionFacts DEF Workers, Sequences0
<1>1. /\ rest \in Seq(Reports) /\ Len(rest) = L - 1
      /\ \A j \in DOMAIN rest : j + 1 \in DOMAIN line /\ rest[j] = line[j + 1]
  BY WithoutFirst
<1>2. t \in Nat /\ (t = s + 1 \/ (t = s /\ s >= F + 2 * Size(w)))
  BY <1>0
<1>3. ReportPast(m, w)
  BY DEF Serving
<1> HIDE DEF rest, t, m
<1>4. PeerPast(q, w)
  BY <1>0, <1>3, AbsorbPeerPast DEF Serving
<1>5. \A j \in DOMAIN rest : ReportPast(rest[j], w)
  BY <1>1 DEF Serving
<1>6. \A j \in Nat \ {0} : Upcoming(rest, w, j) = Upcoming(line, w, j + 1)
  <2> SUFFICES ASSUME NEW j \in Nat \ {0} PROVE Upcoming(rest, w, j) = Upcoming(line, w, j + 1)
    OBVIOUS
  <2>1. CASE j <= L - 1
    <3>1. j \in DOMAIN rest
      BY <1>0, <1>1, <2>1
    <3> QED BY <1>0, <1>1, <2>1, <3>1 DEF Upcoming
  <2>2. CASE ~(j <= L - 1)
    BY <1>0, <1>1, <2>2 DEF Upcoming
  <2> QED BY <2>1, <2>2
<1>7. InOrder(line, w, s, p)
  BY DEF Serving
<1>8. q.gen = w.gen => Past(q.ckpt, Upcoming(rest, w, Boundary(t)))
  <2> DEFINE pos == Upcoming(rest, w, Boundary(t))
             old == Upcoming(line, w, Boundary(s))
  <2>1. CASE s < F
    <3>1. t = s + 1
      BY <1>0, <1>2, <2>1
    <3>2. Boundary(s) = F + 1 - s /\ Boundary(t) = F - s /\ Boundary(t) \in Nat \ {0}
      BY <1>0, <2>1, <3>1 DEF Boundary
    <3>3. pos = old
      <4>1. Boundary(s) = Boundary(t) + 1
        BY <1>0, <2>1, <3>2
      <4> QED BY <1>6, <3>2, <4>1
    <3>4. old \in Checkpoints /\ old.cycle >= 1
      <4>1. Boundary(s) \in Nat \ {0} /\ Boundary(s) + s > F
        BY <1>0, <2>1, <3>2
      <4> QED BY <1>7, <4>1, UpcomingFacts
    <3>5. m.gen = w.gen => Past(m.ckpt, old)
      <4>1. 1 + s <= F /\ 1 \in DOMAIN line
        BY <1>0, <2>1
      <4> QED BY <1>7, <4>1 DEF InOrder, m
    <3>6. p.gen = w.gen => Past(p.ckpt, old)
      BY <1>7 DEF InOrder
    <3> HIDE DEF old, pos
    <3>7. q.gen = w.gen => Past(q.ckpt, old)
      BY <1>0, <3>4, <3>5, <3>6, AbsorbPast
    <3> QED BY <3>3, <3>7 DEF pos
  <2>2. CASE ~(s < F)
    <3>1. Boundary(s) = 1 /\ Boundary(t) = 1
      BY <1>0, <1>2, <2>2 DEF Boundary
    <3>2. old = m.ckpt
      BY <1>0, <3>1 DEF Upcoming, m
    <3>3. pos = Upcoming(line, w, 2)
      BY <1>6, <3>1
    <3>4. pos \in Checkpoints /\ pos.seq = w.seq /\ pos.cycle >= 1
      <4>1. 2 \in Nat \ {0} /\ 2 + s > F
        BY <1>0, <2>2
      <4> QED BY <1>7, <3>3, <4>1, UpcomingFacts
    <3>5. m.ckpt \in Checkpoints /\ m.ckpt.seq = w.seq
      <4>1. 1 \in Nat \ {0} /\ 1 + s > F
        BY <1>0, <2>2
      <4> QED BY <1>7, <3>1, <3>2, <4>1, UpcomingFacts
    <3>6. Successor(m.ckpt, pos, Size(w))
      <4>1. 1 \in DOMAIN line /\ 1 + s > F /\ 1 + 1 = 2
        BY <1>0, <2>2
      <4> QED BY <1>7, <3>3, <4>1 DEF InOrder, m
    <3>7. Past(m.ckpt, pos)
      BY <1>0, <3>4, <3>5, <3>6, SuccessorPast
    <3>8. p.gen = w.gen => Past(p.ckpt, pos)
      <4>1. p.gen = w.gen => Past(p.ckpt, m.ckpt)
        BY <1>7, <3>2 DEF InOrder
      <4> HIDE DEF pos
      <4> QED BY <3>4, <3>5, <3>7, <4>1, AssemblyKey, PastTransitive
    <3> HIDE DEF pos
    <3>9. q.gen = w.gen => Past(q.ckpt, pos)
      BY <1>0, <3>4, <3>7, <3>8, AbsorbPast
    <3> QED BY <3>9 DEF pos
  <2> QED BY <2>1, <2>2
<1>9. InOrder(rest, w, t, q)
  <2>1. Len(rest) <= F /\ Len(rest) \in Nat
    BY <1>0, <1>1, <1>7 DEF InOrder
  <2>2. Len(rest) + t > F => w.held = w.observed
    <3>1. Len(rest) + t > F => L + s > F
      BY <1>0, <1>1, <1>2
    <3> QED BY <1>7, <3>1 DEF InOrder
  <2>3. ASSUME NEW j \in DOMAIN rest, j + t > F
        PROVE  Current(rest[j], w) /\ Successor(rest[j].ckpt, Upcoming(rest, w, j + 1), Size(w))
    <3>1. j + 1 \in DOMAIN line /\ rest[j] = line[j + 1] /\ j \in Nat \ {0}
      BY <1>1
    <3>2. (j + 1) + s > F
      BY <1>0, <1>2, <2>3, <3>1
    <3>3. Upcoming(rest, w, j + 1) = Upcoming(line, w, (j + 1) + 1)
      BY <1>6, <3>1
    <3> QED BY <1>7, <3>1, <3>2, <3>3 DEF InOrder
  <2>4. ASSUME NEW j \in DOMAIN rest, j + t <= F, rest[j].gen = w.gen
        PROVE  Past(rest[j].ckpt, Upcoming(rest, w, Boundary(t)))
    <3>1. j + 1 \in DOMAIN line /\ rest[j] = line[j + 1] /\ j \in Nat \ {0}
      BY <1>1
    <3>2. s < F /\ t = s + 1 /\ (j + 1) + s <= F
      BY <1>0, <1>2, <2>4, <3>1
    <3>3. Past(line[j + 1].ckpt, Upcoming(line, w, Boundary(s)))
      BY <1>7, <2>4, <3>1, <3>2 DEF InOrder
    <3>4. Boundary(s) = F + 1 - s /\ Boundary(t) = F - s /\ Boundary(t) \in Nat \ {0}
          /\ Boundary(s) = Boundary(t) + 1
      BY <1>0, <3>2 DEF Boundary
    <3>5. Upcoming(rest, w, Boundary(t)) = Upcoming(line, w, Boundary(s))
      BY <1>6, <3>4
    <3> QED BY <3>1, <3>3, <3>5
  <2> QED BY <1>8, <2>1, <2>2, <2>3, <2>4 DEF InOrder
<1>10. CatchesUp(rest, w, t, q)
  <2> SUFFICES ASSUME t >= F
               PROVE  Excused(q, w) \/ Progress(t - F, Upcoming(rest, w, 1), w, q)
    BY DEF CatchesUp
  <2> DEFINE next == Upcoming(rest, w, 1)
  <2>1. next = Upcoming(line, w, 2)
    BY <1>6
  <2>2. 2 + s > F
    BY <1>0, <1>2
  <2>3. next \in Checkpoints /\ next.index \in Nat
    BY <1>7, <2>1, <2>2, UpcomingFacts DEF Checkpoints
  <2>4. CASE s < F
    <3>1. t - F = 0
      BY <1>0, <1>2, <2>4
    <3> HIDE DEF next
    <3>2. ~(0 >= 1) /\ ~(0 >= next.index + Size(w)) /\ ~(0 >= next.index /\ next.index > 0)
      BY <1>0, <2>3
    <3>3. Progress(0, next, w, q)
      BY <3>2 DEF Progress
    <3> QED BY <3>1, <3>3 DEF next
  <2>5. CASE ~(s < F)
    <3>1. 1 \in DOMAIN line /\ 1 + s > F /\ 1 + 1 = 2
      BY <1>0, <2>5
    <3>2. Current(m, w) /\ Successor(m.ckpt, next, Size(w))
      BY <1>7, <2>1, <3>1 DEF InOrder, m
    <3>3. Upcoming(line, w, 1) = m.ckpt
      BY <1>0 DEF Upcoming, m
    <3>4. Excused(p, w) \/ Progress(s - F, m.ckpt, w, p)
      BY <1>0, <2>5, <3>3 DEF Serving, CatchesUp
    <3>5. m.delta.seq <= w.seq
      BY <1>3, <3>2 DEF ReportPast, Current
    <3>6. p.gen = w.gen => Past(p.ckpt, m.ckpt)
      <4>1. Boundary(s) = 1
        BY <1>0, <2>5 DEF Boundary
      <4> QED BY <1>7, <3>3, <4>1 DEF InOrder
    <3>7. p.gen = w.gen => \A e \in p.pending : e.seq <= w.seq
      BY DEF Serving, PeerPast
    <3>8. /\ s - F \in Nat /\ t - F \in Nat
          /\ t - F = (s - F) + 1 \/ (t - F = s - F /\ s - F >= 2 * Size(w))
      BY <1>0, <1>2, <2>5
    <3> HIDE DEF next, q
    <3>9. Excused(AbsorbQuorum(p, m), w) \/ Progress(t - F, next, w, AbsorbQuorum(p, m))
      BY <1>0, <2>3, <3>2, <3>4, <3>5, <3>6, <3>7, <3>8, DeliverProgress
    <3> QED BY <3>9 DEF next, q
  <2> QED BY <2>4, <2>5
<1>11. Serving(rest, w, t, q)
  BY <1>4, <1>5, <1>9, <1>10 DEF Serving
<1> QED BY <1>11 DEF rest, t, q, m

LEMMA ObservePlaced ==
  ASSUME NEW o \in Workers, CursorOK(o), WorkerPlaced(o), Observe(o).seq <= MaxSequence
  PROVE  LET w == Observe(o) IN
         /\ WorkerPlaced(w)
         /\ w = o \/ (o.held # o.observed /\ Past(Position(o), Position(w)))
<1> DEFINE w == Observe(o)
<1>1. CASE o.held = o.observed
  BY <1>1 DEF Observe
<1>2. CASE o.held # o.observed
  <2>1. /\ w \in Workers /\ w.gen = o.gen /\ w.observed = o.held
        /\ \/ w = o
           \/ /\ w.seq = o.seq + 1
              /\ \A i \in DOMAIN w.history :
                   \/ w.history[i] = Difference(o)
                   \/ \E j \in DOMAIN o.history : w.history[i] = o.history[j]
    BY ObserveFacts
  <2>2. w.cycle = o.cycle + 1 /\ w.index = 0
    <3> DEFINE u == RecordDelta(o)
               v == [u EXCEPT !.observed = o.held, !.seq = o.seq + 1,
                              !.cycle = o.cycle + 1, !.index = 0]
    <3>1. w = v
      BY <1>2 DEF Observe
    <3>2. u \in Workers
      <4>1. u = o \/ u = [o EXCEPT !.history = Trim(Append(o.history, Difference(o)), HistorySize),
                                   !.cursor = o.cursor % Len(Trim(Append(o.history, Difference(o)), HistorySize))]
        BY DEF RecordDelta, Workers
      <4>2. v.seq = o.seq + 1
        BY <4>1 DEF Workers
      <4>3. o.seq + 1 <= MaxSequence
        BY <3>1, <4>2
      <4> QED BY <4>3, RecordFacts
    <3> HIDE DEF u
    <3>3. v.cycle = o.cycle + 1 /\ v.index = 0
      BY <3>2 DEF Workers
    <3> QED BY <3>1, <3>3
  <2> HIDE DEF w
  <2>3. w # o
    BY <1>2, <2>1
  <2>4. w.seq = o.seq + 1 /\ o.seq \in Nat /\ o.cycle \in Nat /\ o.cycle >= 1
    BY <2>1, <2>3 DEF Workers, Sequences0, WorkerPlaced
  <2>5. WorkerPlaced(w)
    <3>1. Size(w) \in Nat \ {0}
      BY <2>1, PositionFacts
    <3>2. ASSUME NEW i \in DOMAIN w.history PROVE w.history[i].seq <= w.seq
      <4>1. CASE w.history[i] = Difference(o)
        <5>1. Difference(o).seq = o.seq + 1
          BY DEF Difference
        <5> QED BY <2>4, <4>1, <5>1
      <4>2. ASSUME NEW j \in DOMAIN o.history, w.history[i] = o.history[j]
            PROVE  w.history[i].seq <= w.seq
        <5>1. o.history[j].seq <= o.seq
          BY DEF WorkerPlaced
        <5>2. o.history[j].seq \in Nat
          <6>1. o.history \in Seq(Deltas)
            BY DEF Workers
          <6>2. o.history[j] \in Deltas
            BY <6>1
          <6> QED BY <6>2 DEF Deltas, Sequences0
        <5> QED BY <2>4, <4>2, <5>1, <5>2
      <4> QED BY <2>1, <2>3, <4>1, <4>2
    <3> QED BY <2>2, <2>4, <3>1, <3>2 DEF WorkerPlaced
  <2>6. Past(Position(o), Position(w))
    <3>1. /\ Position(o).seq = o.seq /\ Position(o).cycle = o.cycle
          /\ Position(w).seq = w.seq /\ Position(w).cycle = w.cycle
      BY <2>1, PositionFacts
    <3> QED BY <2>2, <2>4, <3>1 DEF Past
  <2> QED BY <1>2, <2>5, <2>6 DEF w
<1> QED BY <1>1, <1>2

LEMMA AdvancePlaced ==
  ASSUME NEW w \in Workers, CursorOK(w), WorkerPlaced(w)
  PROVE  LET v == Advance(w) IN
         /\ WorkerPlaced(v)
         /\ Successor(Position(w), Position(v), Size(w))
         /\ Past(Position(w), Position(v))
<1> DEFINE v == Advance(w)
<1>1. /\ v \in Workers /\ v.gen = w.gen /\ v.held = w.held /\ v.observed = w.observed
      /\ v.seq = w.seq /\ v.history = w.history
  BY AdvanceFacts
<1>2. /\ v.index = IF w.index + 1 >= Size(w) THEN 0 ELSE w.index + 1
      /\ v.cycle = IF w.index + 1 >= Size(w) THEN w.cycle + 1 ELSE w.cycle
  <2>1. CASE w.index + 1 >= Size(w)
    <3>1. v = [w EXCEPT !.index = 0, !.cycle = w.cycle + 1, !.cursor = NextCursor(w)]
      BY <2>1 DEF Advance, Size, Workers
    <3> QED BY <2>1, <3>1 DEF Workers
  <2>2. CASE ~(w.index + 1 >= Size(w))
    <3>1. v = [w EXCEPT !.index = w.index + 1, !.cursor = NextCursor(w)]
      BY <2>2 DEF Advance, Size, Workers
    <3> QED BY <2>2, <3>1 DEF Workers
  <2> QED BY <2>1, <2>2
<1> HIDE DEF v
<1>3. Size(v) = Size(w) /\ Size(w) \in Nat \ {0} /\ w.index \in Nat /\ w.cycle \in Nat
  BY <1>1, PositionFacts DEF Size, Workers
<1>4. WorkerPlaced(v)
  BY <1>1, <1>2, <1>3 DEF WorkerPlaced
<1>5. /\ Position(w) \in Checkpoints /\ Position(w).seq = w.seq /\ Position(w).cycle = w.cycle
      /\ Position(w).index = w.index
      /\ Position(v) \in Checkpoints /\ Position(v).seq = v.seq /\ Position(v).cycle = v.cycle
      /\ Position(v).index = v.index
  BY <1>1, PositionFacts
<1>6. Successor(Position(w), Position(v), Size(w))
  BY <1>2, <1>5 DEF Successor
<1>7. Past(Position(w), Position(v))
  BY <1>1, <1>3, <1>5, <1>6, SuccessorPast
<1> QED BY <1>4, <1>6, <1>7 DEF v

\* A report joins the ones under way.
LEMMA ServingBuild ==
  ASSUME NEW o \in Workers, CursorOK(o), WorkerPlaced(o), Observe(o).seq <= MaxSequence,
         NEW line \in Seq(Reports), Len(line) < MaxInFlight, NEW s \in Nat,
         NEW p \in Peers, Serving(line, o, s, p)
  PROVE  LET w == Observe(o)
             v == Advance(w) IN
         WorkerPlaced(v) /\ Serving(Append(line, ReportOf(w)), v, s, p)
<1> DEFINE w == Observe(o)
           v == Advance(w)
           m == ReportOf(w)
           next == Append(line, m)
           L == Len(line)
           F == MaxInFlight
           B == Boundary(s)
<1>1. w \in Workers /\ CursorOK(w) /\ w.gen = o.gen /\ w.held = o.held /\ w.observed = o.held
  BY ObserveFacts
<1>2. WorkerPlaced(w) /\ (w = o \/ (o.held # o.observed /\ Past(Position(o), Position(w))))
  BY ObservePlaced
<1> HIDE DEF w
<1>3. /\ v \in Workers /\ CursorOK(v) /\ v.gen = w.gen /\ v.held = w.held
      /\ v.observed = w.observed /\ v.seq = w.seq /\ v.history = w.history
  BY <1>1, AdvanceFacts
<1>4. /\ WorkerPlaced(v) /\ Successor(Position(w), Position(v), Size(w))
      /\ Past(Position(w), Position(v))
  BY <1>1, <1>2, AdvancePlaced
<1> HIDE DEF v
<1>5. /\ m \in Reports /\ m.gen = w.gen
      /\ m.delta = NoDelta \/ \E j \in DOMAIN w.history : m.delta = w.history[j]
  BY <1>1, ReportFacts
<1>6. m.ckpt = Position(w)
  BY DEF ReportOf, Position
<1> HIDE DEF m
<1>7. m.delta.seq <= w.seq
  <2>1. w.seq \in Nat
    BY <1>1 DEF Workers, Sequences0
  <2>2. NoDelta.seq = 0
    BY DEF NoDelta
  <2> QED BY <1>2, <1>5, <2>1, <2>2 DEF WorkerPlaced
<1>8. /\ F \in Nat \ {0} /\ L \in Nat /\ L < F /\ DOMAIN line = 1 .. L
      /\ next \in Seq(Reports) /\ Len(next) = L + 1 /\ DOMAIN next = 1 .. L + 1
      /\ next[L + 1] = m /\ \A j \in 1 .. L : next[j] = line[j]
  BY <1>5, QuorumConstants
<1> HIDE DEF next
<1>9. /\ \A x \in {o, w, v} : /\ Position(x) \in Checkpoints /\ Position(x).seq = x.seq
                              /\ Position(x).cycle = x.cycle /\ Position(x).index = x.index
                              /\ Size(x) \in Nat \ {0}
      /\ Size(v) = Size(w) /\ w.seq \in Nat
  <2>1. o \in Workers /\ w \in Workers /\ v \in Workers
    BY <1>1, <1>3
  <2>2. \A x \in Workers : /\ Position(x) \in Checkpoints /\ Position(x).seq = x.seq
                            /\ Position(x).cycle = x.cycle /\ Position(x).index = x.index
                            /\ Size(x) \in Nat \ {0}
    BY PositionFacts
  <2>3. \A x \in {o, w, v} : x \in Workers
    BY <2>1
  <2>4. Size(v) = Size(w)
    BY <1>3 DEF Size
  <2>5. w.seq \in Nat
    BY <2>1 DEF Workers, Sequences0
  <2> QED BY <2>2, <2>3, <2>4, <2>5
<1>10. ASSUME NEW x, x.seq \in Nat, x.cycle \in Nat, Past(x, Position(o))
       PROVE  Past(x, Position(w)) /\ Past(x, Position(v))
  <2>1. Past(x, Position(w))
    BY <1>2, <1>9, <1>10, PastTransitive
  <2> QED BY <1>4, <1>9, <1>10, <2>1, PastTransitive
<1>11. \A j \in 1 .. L : /\ line[j] \in Reports /\ line[j].ckpt.seq \in Nat
                         /\ line[j].ckpt.cycle \in Nat
  BY <1>8, ReportKey
<1>12. p.ckpt.seq \in Nat /\ p.ckpt.cycle \in Nat
  BY AssemblyKey
<1>13. \A e \in p.pending : e.seq \in Nat
  BY DEF Peers, Deltas, Sequences0
<1>14. o.seq <= w.seq /\ o.seq \in Nat
  <2>1. Past(Position(o), Position(w)) => o.seq <= w.seq
    BY <1>9 DEF Past
  <2> QED BY <1>2, <1>9, <2>1 DEF Workers, Sequences0
<1>15. \A j \in DOMAIN next : ReportPast(next[j], v)
  <2>1. ASSUME NEW j \in 1 .. L PROVE ReportPast(line[j], v)
    <3>1. ReportPast(line[j], o)
      BY <1>8 DEF Serving
    <3>2. line[j].delta.seq \in Nat
      BY <1>11, ReportKey
    <3>3. v.gen = o.gen /\ v.seq = w.seq /\ w.seq \in Nat
      BY <1>1, <1>3, <1>9
    <3>4. line[j].gen <= v.gen
      BY <3>1, <3>3 DEF ReportPast
    <3>5. ASSUME line[j].gen = v.gen
          PROVE  line[j].delta.seq <= v.seq /\ Past(line[j].ckpt, Position(v))
      <4>1. line[j].delta.seq <= o.seq /\ Past(line[j].ckpt, Position(o))
        BY <3>1, <3>3, <3>5 DEF ReportPast
      <4>2. Past(line[j].ckpt, Position(v))
        BY <1>10, <1>11, <4>1
      <4>3. line[j].delta.seq <= v.seq
        BY <1>14, <3>2, <3>3, <4>1
      <4> QED BY <4>2, <4>3
    <3> QED BY <3>4, <3>5 DEF ReportPast
  <2>2. ReportPast(m, v)
    <3>1. w.gen \in Nat
      BY <1>1 DEF Workers, Generations
    <3> QED BY <1>3, <1>4, <1>5, <1>6, <1>7, <3>1 DEF ReportPast
  <2> QED BY <1>8, <2>1, <2>2
<1>16. PeerPast(p, v)
  <2>1. PeerPast(p, o)
    BY DEF Serving
  <2>2. v.gen = o.gen /\ v.seq = w.seq /\ w.seq \in Nat
    BY <1>1, <1>3, <1>9
  <2>3. p.gen <= v.gen
    BY <2>1, <2>2 DEF PeerPast
  <2>4. ASSUME p.gen = v.gen
        PROVE  Past(p.ckpt, Position(v)) /\ \A e \in p.pending : e.seq <= v.seq
    <3>1. Past(p.ckpt, Position(o)) /\ \A e \in p.pending : e.seq <= o.seq
      BY <2>1, <2>2, <2>4 DEF PeerPast
    <3>2. Past(p.ckpt, Position(v))
      BY <1>10, <1>12, <3>1
    <3>3. \A e \in p.pending : e.seq <= v.seq
      BY <1>13, <1>14, <2>2, <3>1
    <3> QED BY <3>2, <3>3
  <2> QED BY <2>3, <2>4 DEF PeerPast
<1>17. InOrder(line, o, s, p)
  BY DEF Serving
<1>18. L + s > F => w = o
  BY <1>2, <1>17 DEF InOrder
<1>19. /\ B \in Nat \ {0} /\ B + s > F
       /\ s >= F => B = 1
       /\ s < F => B = F + 1 - s
  BY <1>8 DEF Boundary
<1> HIDE DEF B
<1>20. /\ \A j \in 1 .. L : Upcoming(next, v, j) = Upcoming(line, o, j) /\ Upcoming(line, o, j) = line[j].ckpt
       /\ Upcoming(next, v, L + 1) = Position(w) /\ Upcoming(line, o, L + 1) = Position(o)
       /\ \A j \in Nat : j > L + 1 =>
             Upcoming(next, v, j) = Position(v) /\ Upcoming(line, o, j) = Position(o)
  BY <1>6, <1>8 DEF Upcoming
<1>21. ASSUME NEW x, x.seq \in Nat, x.cycle \in Nat, Past(x, Upcoming(line, o, B))
       PROVE  Past(x, Upcoming(next, v, B))
  <2>1. CASE B <= L
    <3>1. B \in 1 .. L
      BY <1>8, <1>19, <2>1
    <3> QED BY <1>20, <1>21, <3>1
  <2>2. CASE B = L + 1
    BY <1>10, <1>20, <1>21, <2>2
  <2>3. CASE B > L + 1
    BY <1>10, <1>19, <1>20, <1>21, <2>3
  <2> QED BY <1>8, <1>19, <2>1, <2>2, <2>3
<1>22. InOrder(next, v, s, p)
  <2>1. Len(next) <= F /\ v.held = v.observed
    BY <1>1, <1>3, <1>8
  <2>2. ASSUME NEW j \in DOMAIN next, j + s > F
        PROVE  Current(next[j], v) /\ Successor(next[j].ckpt, Upcoming(next, v, j + 1), Size(v))
    <3>1. CASE j \in 1 .. L
      <4>1. w = o
        BY <1>8, <1>18, <2>2, <3>1
      <4>2. Current(line[j], o) /\ Successor(line[j].ckpt, Upcoming(line, o, j + 1), Size(o))
        BY <1>8, <1>17, <2>2, <3>1 DEF InOrder
      <4>3. Current(line[j], v)
        BY <1>3, <4>1, <4>2 DEF Current, Size
      <4>4. Upcoming(next, v, j + 1) = Upcoming(line, o, j + 1)
        <5>1. j + 1 \in 1 .. L \/ j + 1 = L + 1
          BY <1>8, <3>1
        <5> QED BY <1>20, <4>1, <5>1
      <4> QED BY <1>8, <1>9, <3>1, <4>1, <4>2, <4>3, <4>4
    <3>2. CASE j = L + 1
      <4>1. Current(m, v)
        <5>1. m.ckpt = CheckpointChunk(v.observed, v.seq, m.ckpt.cycle, m.ckpt.index)
          BY <1>3, <1>6, <1>9 DEF Position
        <5> QED BY <1>2, <1>3, <1>5, <1>6, <1>9, <5>1 DEF Current, WorkerPlaced
      <4>2. Upcoming(next, v, j + 1) = Position(v)
        BY <1>8, <1>20, <3>2
      <4> QED BY <1>4, <1>6, <1>8, <1>9, <3>2, <4>1, <4>2
    <3> QED BY <1>8, <3>1, <3>2
  <2>3. p.gen = v.gen => Past(p.ckpt, Upcoming(next, v, B))
    BY <1>1, <1>3, <1>12, <1>17, <1>21 DEF InOrder, B
  <2>4. ASSUME NEW j \in DOMAIN next, j + s <= F, next[j].gen = v.gen
        PROVE  Past(next[j].ckpt, Upcoming(next, v, B))
    <3>1. CASE j \in 1 .. L
      <4>1. Past(line[j].ckpt, Upcoming(line, o, B))
        BY <1>1, <1>3, <1>8, <1>17, <2>4, <3>1 DEF InOrder, B
      <4> QED BY <1>8, <1>11, <1>21, <3>1, <4>1
    <3>2. CASE j = L + 1
      <4>1. B > L + 1
        BY <1>8, <1>19, <2>4, <3>2
      <4> QED BY <1>4, <1>6, <1>8, <1>19, <1>20, <3>2, <4>1
    <3> QED BY <1>8, <3>1, <3>2
  <2> QED BY <2>1, <2>2, <2>3, <2>4 DEF InOrder, B
<1>23. CatchesUp(next, v, s, p)
  <2> SUFFICES ASSUME s >= F
               PROVE  Excused(p, v) \/ Progress(s - F, Upcoming(next, v, 1), v, p)
    BY DEF CatchesUp
  <2>1. Excused(p, o) \/ Progress(s - F, Upcoming(line, o, 1), o, p)
    BY DEF Serving, CatchesUp
  <2>2. CASE w = o
    <3>1. Upcoming(next, v, 1) = Upcoming(line, o, 1)
      BY <1>8, <1>20, <2>2
    <3> QED BY <1>3, <2>1, <2>2, <3>1 DEF Excused, Progress, InSync, Size
  <2>3. CASE w # o
    <3>1. s - F = 0 /\ L = 0
      BY <1>8, <1>18, <2>3
    <3>2. Upcoming(next, v, 1) = Position(w)
      BY <1>20, <3>1
    <3>3. Position(w).index \in Nat
      BY <1>9 DEF Checkpoints
    <3> DEFINE i == Position(w).index
    <3>4. ~(0 >= 1) /\ ~(0 >= i + Size(v)) /\ ~(0 >= i /\ i > 0)
      BY <1>9, <3>3
    <3>5. Progress(0, Position(w), v, p)
      BY <3>4 DEF Progress
    <3> QED BY <3>1, <3>2, <3>5
  <2> QED BY <2>2, <2>3
<1>24. WorkerPlaced(v) /\ Serving(next, v, s, p)
  BY <1>4, <1>15, <1>16, <1>22, <1>23 DEF Serving
<1> QED BY <1>24 DEF next, v, w, m
-----------------------------------------------------------------------------
(***************************************************************************)
(* While the engine starts, each rank's handshake is absorbed chunk by     *)
(* chunk; its chunks carry the cycle of the worker's first report.         *)
(***************************************************************************)
Handshake(g, S, n, k) ==
    [i \in 1 .. ChunkCount(Cardinality(S)) - k |->
        [gen |-> g, delta |-> NoDelta, ckpt |-> CheckpointChunk(S, n, 1, k + i - 1)]]

\* Chunks 0 .. k - 1 of the handshake have been absorbed.
Awaiting(p, g, S, n, k) ==
    \/ k = 0 /\ p.gen = NoGeneration /\ p.retired = <<>>
    \/ Follows(p, g, n) /\ p.ckpt = NoCheckpoint
    \/ k > 0 /\ p.gen = g /\ p.seq <= n /\ p.ckpt = Partial(S, n, 1, k)

Starting(line, w, p, reports) ==
    /\ line = <<>> /\ w.cycle = 1 /\ w.index = 0
    /\ p.pending = {} /\ p.gen <= w.gen
    /\ \/ reports = <<>> /\ p.ckpt = NoCheckpoint
       \/ \E S \in SUBSET Digests, n \in Sequences0, k \in Nat :
             /\ k < ChunkCount(Cardinality(S))
             /\ reports = Handshake(w.gen, S, n, k)
             /\ Awaiting(p, w.gen, S, n, k)

\* The reports of one rank: on says whether the engine is ready, known whether
\* it has collected the rank's handshake.
RankOrdered(line, w, s, p, reports, on, known) ==
    /\ WorkerPlaced(w)
    /\ IF on THEN reports = <<>> /\ Serving(line, w, s, p)
       ELSE /\ s = 0 /\ Starting(line, w, p, reports)
            /\ ~known => reports = <<>> /\ p.gen = NoGeneration /\ p.retired = <<>>

Ordered ==
    \A r \in Ranks : RankOrdered(wire[r], worker[r], streak[r], peer[r], startup[r],
                                 ready, r \in collected)
-----------------------------------------------------------------------------
LEMMA HandshakeShape ==
  ASSUME NEW g \in Generations, NEW S \in SUBSET Digests, NEW n \in Sequences0, NEW k \in Nat,
         k < ChunkCount(Cardinality(S)), NEW h, h = Handshake(g, S, n, k)
  PROVE  /\ h \in Seq(Reports) /\ h # <<>>
         /\ Head(h) \in Reports /\ Head(h).gen = g /\ Head(h).delta = NoDelta
         /\ Head(h).ckpt = CheckpointChunk(S, n, 1, k)
         /\ k + 1 < ChunkCount(Cardinality(S)) => Tail(h) = Handshake(g, S, n, k + 1)
         /\ ~(k + 1 < ChunkCount(Cardinality(S))) => Tail(h) = <<>>
<1> DEFINE c == ChunkCount(Cardinality(S))
           M(i) == [gen |-> g, delta |-> NoDelta, ckpt |-> CheckpointChunk(S, n, 1, k + i - 1)]
           L == c - k
<1>1. c \in Nat /\ L \in Nat \ {0} /\ k + 1 <= c
  BY InventorySize
<1>2. \A i \in 1 .. L : M(i) \in Reports
  <2> SUFFICES ASSUME NEW i \in 1 .. L PROVE M(i) \in Reports
    OBVIOUS
  <2>1. k + i - 1 \in Nat
    BY <1>1
  <2>2. CheckpointChunk(S, n, 1, k + i - 1) \in Checkpoints
    BY <2>1, ChunkType
  <2> QED BY <2>2, NoDeltaType DEF Reports
<1>3. h = [i \in 1 .. L |-> M(i)]
  BY DEF Handshake
<1>4. M(1).gen = g /\ M(1).delta = NoDelta /\ M(1).ckpt = CheckpointChunk(S, n, 1, k)
  <2>1. k + 1 - 1 = k
    OBVIOUS
  <2> QED BY <2>1
<1>5. \A i \in Nat : M(i + 1) = [gen |-> g, delta |-> NoDelta, ckpt |-> CheckpointChunk(S, n, 1, (k + 1) + i - 1)]
  <2> SUFFICES ASSUME NEW i \in Nat
               PROVE  M(i + 1) = [gen |-> g, delta |-> NoDelta, ckpt |-> CheckpointChunk(S, n, 1, (k + 1) + i - 1)]
    OBVIOUS
  <2>1. k + (i + 1) - 1 = (k + 1) + i - 1
    OBVIOUS
  <2> QED BY <2>1
<1> HIDE DEF M, c
<1>6. h \in [1 .. L -> Reports]
  BY <1>2, <1>3
<1>7. h \in Seq(Reports) /\ Len(h) = L
  BY <1>1, <1>6
<1>8. h # <<>> /\ Head(h) = M(1)
  BY <1>1, <1>3, <1>7
<1>9. M(1) \in Reports
  BY <1>1, <1>2
<1>10. Tail(h) = [i \in 1 .. L - 1 |-> M(i + 1)]
  <2> DEFINE t == Tail(h)
             e == [i \in 1 .. L - 1 |-> M(i + 1)]
  <2>1. t \in Seq(Reports) /\ Len(t) = L - 1 /\ \A i \in 1 .. L - 1 : t[i] = h[i + 1]
    BY <1>1, <1>7, <1>8
  <2>2. \A i \in 1 .. L - 1 : h[i + 1] = M(i + 1)
    BY <1>1, <1>3
  <2>3. t = [i \in 1 .. L - 1 |-> t[i]]
    <3> HIDE DEF t
    <3>1. DOMAIN t = 1 .. L - 1
      BY <2>1
    <3> QED BY <2>1, <3>1
  <2> HIDE DEF t
  <2>4. t = e
    BY <2>1, <2>2, <2>3
  <2> QED BY <2>4 DEF t
<1>11. /\ k + 1 < c => Tail(h) = Handshake(g, S, n, k + 1)
       /\ ~(k + 1 < c) => Tail(h) = <<>>
  <2>1. CASE k + 1 < c
    <3>1. L - 1 = c - (k + 1)
      BY <1>1
    <3>2. Handshake(g, S, n, k + 1)
            = [i \in 1 .. c - (k + 1) |-> [gen |-> g, delta |-> NoDelta,
                                           ckpt |-> CheckpointChunk(S, n, 1, (k + 1) + i - 1)]]
      BY DEF Handshake, c
    <3>3. \A i \in 1 .. L - 1 : M(i + 1) = [gen |-> g, delta |-> NoDelta,
                                            ckpt |-> CheckpointChunk(S, n, 1, (k + 1) + i - 1)]
      BY <1>1, <1>5
    <3> QED BY <1>10, <2>1, <3>1, <3>2, <3>3
  <2>2. CASE ~(k + 1 < c)
    <3>1. L = 1
      BY <1>1, <2>2
    <3> QED BY <1>7, <1>8, <2>2, <3>1
  <2> QED BY <2>1, <2>2
<1> QED BY <1>4, <1>7, <1>8, <1>9, <1>11 DEF c

\* set_xfer_handshake_metadata takes the next chunk of a rank's handshake.
LEMMA StartingStep ==
  ASSUME NEW w \in Workers, NEW p \in Peers, SoundPeer(p), NEW line, NEW reports,
         Starting(line, w, p, reports), reports # <<>>
  PROVE  Starting(line, w, AbsorbQuorum(p, Head(reports)), Tail(reports))
<1> DEFINE m == Head(reports)
           a == AcceptGeneration(p, m.gen)
           q == AbsorbQuorum(p, m)
<1>1. PICK S \in SUBSET Digests, n \in Sequences0, k \in Nat :
         /\ k < ChunkCount(Cardinality(S))
         /\ reports = Handshake(w.gen, S, n, k)
         /\ Awaiting(p, w.gen, S, n, k)
  BY DEF Starting
<1>2. w.gen \in Generations /\ w.gen \in Nat /\ w.gen # NoGeneration
  BY QuorumConstants DEF Workers, Generations, NoGeneration
<1> DEFINE c == CheckpointChunk(S, n, 1, k)
           more == k + 1 < ChunkCount(Cardinality(S))
<1>3. /\ m \in Reports /\ m.gen = w.gen /\ m.delta = NoDelta /\ m.ckpt = c
      /\ more => Tail(reports) = Handshake(w.gen, S, n, k + 1)
      /\ ~more => Tail(reports) = <<>>
  <2>1. reports = Handshake(w.gen, S, n, k) /\ w.gen \in Generations /\ k < ChunkCount(Cardinality(S))
    BY <1>1, <1>2
  <2>2. Head(reports) \in Reports /\ Head(reports).gen = w.gen /\ Head(reports).delta = NoDelta
    BY <2>1, HandshakeShape
  <2>3. Head(reports).ckpt = CheckpointChunk(S, n, 1, k)
    BY <2>1, HandshakeShape
  <2>4. /\ more => Tail(reports) = Handshake(w.gen, S, n, k + 1)
        /\ ~more => Tail(reports) = <<>>
    BY <2>1, HandshakeShape
  <2> QED BY <2>2, <2>3, <2>4
<1>4. WellFormedCheckpoint(c) /\ c.seq = n /\ n \in Nat
  BY <1>1, ChunkWellFormed, ChunkType DEF Sequences0
<1> HIDE DEF m, c
<1>5. m.delta.seq = 0
  BY <1>3 DEF NoDelta
<1>6. ASSUME q.pending = {}, q.gen = w.gen,
             \/ Follows(q, w.gen, n) /\ q.ckpt = NoCheckpoint
             \/ more /\ q.seq <= n /\ q.ckpt = Partial(S, n, 1, k + 1)
      PROVE  Starting(line, w, q, Tail(reports))
  <2> HIDE DEF q, more
  <2>1. /\ line = <<>> /\ w.cycle = 1 /\ w.index = 0 /\ q.pending = {} /\ q.gen <= w.gen
    BY <1>2, <1>6 DEF Starting
  <2>2. CASE more
    <3>1. Awaiting(q, w.gen, S, n, k + 1) /\ k + 1 \in Nat /\ k + 1 < ChunkCount(Cardinality(S))
      BY <1>6, <2>2 DEF Awaiting, more
    <3>2. Tail(reports) = Handshake(w.gen, S, n, k + 1)
      BY <1>3, <2>2
    <3> QED BY <2>1, <3>1, <3>2 DEF Starting
  <2>3. CASE ~more
    BY <1>3, <1>6, <2>1, <2>3 DEF Starting
  <2> QED BY <2>2, <2>3
<1>7. CASE Follows(p, w.gen, n) /\ p.ckpt = NoCheckpoint
  <2>1. Follows(q, w.gen, n) /\ q.ckpt = NoCheckpoint
    BY <1>3, <1>4, <1>5, <1>7, StaysInSync
  <2> HIDE DEF q
  <2>2. Starting(line, w, q, Tail(reports))
    BY <1>6, <2>1 DEF Follows, q
  <2> QED BY <2>2 DEF q, m
<1>8. CASE \/ k = 0 /\ p.gen = NoGeneration /\ p.retired = <<>>
           \/ k > 0 /\ p.gen = w.gen /\ p.seq <= n /\ p.ckpt = Partial(S, n, 1, k)
  <2>1. ~Rejected(p, m.gen)
    BY <1>2, <1>3, <1>8 DEF Rejected, Elements
  <2>2. /\ a \in Peers /\ SoundPeer(a) /\ a.gen = w.gen /\ a.pending = {} /\ a.seq <= n
        /\ IF k = 0 THEN a.ckpt = NoCheckpoint ELSE a.ckpt = Partial(S, n, 1, k)
    <3>1. a \in Peers /\ SoundPeer(a) /\ a.gen = w.gen
      BY <1>2, <1>3, AcceptFacts
    <3>2. IF p.gen = w.gen THEN a = p ELSE a.pending = {} /\ a.seq = 0 /\ a.ckpt = NoCheckpoint
      BY <1>2, <1>3, AcceptShape
    <3> HIDE DEF a
    <3>3. p.pending = {}
      BY DEF Starting
    <3> QED BY <1>2, <1>4, <1>8, <3>1, <3>2, <3>3
  <2>3. q = AbsorbCheckpoint(AbsorbDelta(a, m.delta), m.ckpt)
    BY <2>1 DEF AbsorbQuorum
  <2> HIDE DEF a, q
  <2>4. AbsorbDelta(a, m.delta) = a
    <3>1. m.delta \in Deltas /\ a.seq \in Nat
      BY <1>3, <2>2, NoDeltaType DEF Peers, Sequences0
    <3>2. m.delta.seq <= a.seq
      BY <1>5, <3>1
    <3> QED BY <2>2, <3>1, <3>2, DeltaShape
  <2>5. q = AbsorbCheckpoint(a, c)
    BY <1>3, <2>3, <2>4
  <2>6. \/ Follows(q, a.gen, n) /\ q.ckpt = NoCheckpoint
        \/ /\ more /\ q.ckpt = Partial(S, n, 1, k + 1)
           /\ q.seq = a.seq /\ q.pending = a.pending /\ q.gen = a.gen
    <3>1. \A e \in a.pending : e.seq <= n
      BY <2>2
    <3>2. IF k = 0 THEN a.ckpt.seq < n \/ (a.ckpt.seq = n /\ a.ckpt.cycle < 1)
                   ELSE a.ckpt = Partial(S, n, 1, k)
      BY <1>4, <2>2 DEF NoCheckpoint
    <3> DEFINE x == AbsorbCheckpoint(a, CheckpointChunk(S, n, 1, k))
    <3>3. \/ Follows(x, a.gen, n) /\ x.ckpt = NoCheckpoint
          \/ /\ k + 1 < ChunkCount(Cardinality(S)) /\ x.ckpt = Partial(S, n, 1, k + 1)
             /\ x.seq = a.seq /\ x.pending = a.pending /\ x.gen = a.gen
      <4>1. 1 \in Nat \ {0}
        OBVIOUS
      <4> QED BY <1>1, <2>2, <3>1, <3>2, <4>1, CollectChunk
    <3>4. q = x
      BY <2>5 DEF c
    <3> HIDE DEF x
    <3> QED BY <3>3, <3>4
  <2>7. q.pending = {} /\ q.gen = w.gen
    BY <2>2, <2>6 DEF Follows
  <2>8. \/ Follows(q, w.gen, n) /\ q.ckpt = NoCheckpoint
        \/ more /\ q.seq <= n /\ q.ckpt = Partial(S, n, 1, k + 1)
    BY <2>2, <2>6
  <2>9. Starting(line, w, q, Tail(reports))
    BY <1>6, <2>7, <2>8 DEF q
  <2> QED BY <2>9 DEF q, m
<1>9. \/ Follows(p, w.gen, n) /\ p.ckpt = NoCheckpoint
      \/ k = 0 /\ p.gen = NoGeneration /\ p.retired = <<>>
      \/ k > 0 /\ p.gen = w.gen /\ p.seq <= n /\ p.ckpt = Partial(S, n, 1, k)
  BY <1>1 DEF Awaiting
<1> QED BY <1>7, <1>8, <1>9 DEF q, m

\* get_handshake_metadata on a rank the scheduler knows nothing of.
LEMMA StartingBegins ==
  ASSUME NEW w \in Workers, w.seq = 0, NEW p \in Peers, NEW line, Starting(line, w, p, <<>>),
         p.gen = NoGeneration, p.retired = <<>>
  PROVE  Starting(line, w, p, HandshakeReports(w))
<1> DEFINE S == FirstOf(w.held, HandshakeMax)
           n == HandshakeSequence(w)
<1>1. n \in Sequences0 /\ S \in SUBSET Digests
  BY HandshakeFacts
<1>2. HandshakeReports(w) = Handshake(w.gen, S, n, 0)
  <2> HIDE DEF S, n
  <2>1. ChunkCount(Cardinality(S)) \in Nat
    BY <1>1, InventorySize
  <2>2. w.cycle = 1
    BY DEF Starting
  <2>3. ChunkCount(Cardinality(S)) - 0 = ChunkCount(Cardinality(S))
        /\ \A i \in 1 .. ChunkCount(Cardinality(S)) : 0 + i - 1 = i - 1
    BY <2>1
  <2>4. HandshakeReports(w) = [i \in 1 .. ChunkCount(Cardinality(S)) |->
            [gen |-> w.gen, delta |-> NoDelta, ckpt |-> CheckpointChunk(S, n, w.cycle, i - 1)]]
    BY DEF HandshakeReports, S, n
  <2> QED BY <2>2, <2>3, <2>4 DEF Handshake
<1>3. 0 \in Nat /\ 0 < ChunkCount(Cardinality(S))
  <2> HIDE DEF S
  <2> QED BY <1>1, InventorySize
<1>4. Awaiting(p, w.gen, S, n, 0)
  BY DEF Awaiting
<1> HIDE DEF S, n
<1> QED BY <1>1, <1>2, <1>3, <1>4 DEF Starting

\* The engine becomes ready.
LEMMA StartingEnds ==
  ASSUME NEW w \in Workers, w.seq = 0, WorkerPlaced(w), NEW p \in Peers, NEW line,
         Starting(line, w, p, <<>>)
  PROVE  Serving(line, w, 0, p)
<1>1. \A g \in Generations, S \in SUBSET Digests, n \in Sequences0, k \in Nat :
         k < ChunkCount(Cardinality(S)) => Handshake(g, S, n, k) # <<>>
  BY HandshakeShape
<1>2. w.gen \in Generations
  BY DEF Workers
<1>3. p.ckpt = NoCheckpoint /\ line = <<>> /\ p.pending = {} /\ p.gen <= w.gen
  BY <1>1, <1>2 DEF Starting
<1>4. Position(w) \in Checkpoints /\ Position(w).cycle >= 1
  BY PositionFacts DEF WorkerPlaced
<1>5. PeerPast(p, w)
  BY <1>3, <1>4, NothingPast DEF PeerPast
<1>6. line \in Seq(Reports) /\ Len(line) <= MaxInFlight /\ \A j \in DOMAIN line : ReportPast(line[j], w)
  BY <1>3, QuorumConstants
<1> QED BY <1>5, <1>6, ServingReset
-----------------------------------------------------------------------------
(***************************************************************************)
(* The order of reports is kept by every action.                           *)
(***************************************************************************)
\* Offers do not matter.
LEMMA OffersAreFree ==
  ASSUME NEW p, NEW q, q.gen = p.gen, q.retired = p.retired, q.seq = p.seq, q.ckpt = p.ckpt,
         q.pending = p.pending, q.desync = p.desync, q.need = p.need,
         NEW line, NEW w, NEW s, NEW reports, NEW on, NEW known,
         RankOrdered(line, w, s, p, reports, on, known)
  PROVE  RankOrdered(line, w, s, q, reports, on, known)
<1>1. \A g, n : Follows(q, g, n) = Follows(p, g, n)
  BY DEF Follows
<1>2. \A g, S, n, k : Awaiting(p, g, S, n, k) => Awaiting(q, g, S, n, k)
  BY <1>1 DEF Awaiting
<1>3. Starting(line, w, p, reports) => Starting(line, w, q, reports)
  BY <1>2 DEF Starting
<1>4. PeerPast(p, w) => PeerPast(q, w)
  BY DEF PeerPast
<1>5. InOrder(line, w, s, p) => InOrder(line, w, s, q)
  BY DEF InOrder
<1>6. Excused(p, w) => Excused(q, w)
  BY DEF Excused
<1>7. \A n, pos : Progress(n, pos, w, p) => Progress(n, pos, w, q)
  BY <1>1 DEF Progress, InSync
<1>8. CatchesUp(line, w, s, p) => CatchesUp(line, w, s, q)
  BY <1>6, <1>7 DEF CatchesUp
<1>9. Serving(line, w, s, p) => Serving(line, w, s, q)
  BY <1>4, <1>5, <1>8 DEF Serving
<1> QED BY <1>3, <1>9 DEF RankOrdered

\* The inventory of a worker changes.
LEMMA RankHeld ==
  ASSUME NEW w \in Workers, NEW v \in Workers, NEW S, v = w \/ v = [w EXCEPT !.held = S],
         NEW line \in Seq(Reports), NEW s, NEW p, NEW reports, NEW on, NEW known,
         RankOrdered(line, w, s, p, reports, on, known)
  PROVE  RankOrdered(line, v, 0, p, reports, on, known)
<1>1. /\ v.gen = w.gen /\ v.observed = w.observed /\ v.seq = w.seq /\ v.history = w.history
      /\ v.cycle = w.cycle /\ v.index = w.index
  BY DEF Workers
<1>2. WorkerPlaced(v) /\ Position(v) = Position(w)
  BY <1>1 DEF RankOrdered, WorkerPlaced, Size, Position
<1>3. Starting(line, w, p, reports) => Starting(line, v, p, reports)
  BY <1>1 DEF Starting
<1>4. ASSUME Serving(line, w, s, p) PROVE Serving(line, v, 0, p)
  <2>1. PeerPast(p, v) /\ Len(line) <= MaxInFlight
    BY <1>1, <1>2, <1>4 DEF Serving, PeerPast, InOrder
  <2>2. \A j \in DOMAIN line : ReportPast(line[j], v)
    BY <1>1, <1>2, <1>4 DEF Serving, ReportPast
  <2> QED BY <2>1, <2>2, ServingReset
<1> QED BY <1>2, <1>3, <1>4 DEF RankOrdered

\* A restarted worker is newer than whatever is under way.
LEMMA RankRestart ==
  ASSUME NEW w \in Workers, NEW held \in SUBSET Digests, w.gen < MaxGeneration,
         NEW line \in Seq(Reports), NEW s, NEW p \in Peers, NEW reports, NEW known,
         RankOrdered(line, w, s, p, reports, TRUE, known)
  PROVE  RankOrdered(line, Fresh(w.gen + 1, held), 0, p, reports, TRUE, known)
<1> DEFINE v == Fresh(w.gen + 1, held)
<1>1. /\ v.gen = w.gen + 1 /\ v.history = <<>> /\ v.cycle = 1 /\ v.index = 0
      /\ v.observed = {}
  BY DEF Fresh
<1> HIDE DEF v
<1>2. w.gen \in Nat /\ p.gen \in Nat /\ \A j \in DOMAIN line : line[j].gen \in Nat
  <2>1. \A j \in DOMAIN line : line[j] \in Reports
    OBVIOUS
  <2> QED BY <2>1, QuorumConstants DEF Workers, Peers, Generations, NoGeneration, Reports
<1>3. WorkerPlaced(v)
  <2>1. Size(v) \in Nat \ {0}
    <3>1. v.observed \in SUBSET Digests
      BY <1>1
    <3> QED BY <3>1, InventorySize DEF Size
  <2> QED BY <1>1, <2>1 DEF WorkerPlaced
<1>4. Serving(line, w, s, p) /\ reports = <<>>
  BY DEF RankOrdered
<1>5. v.gen \in Generations /\ 0 \in Sequences0
  BY <1>1, <1>2, QuorumConstants DEF Generations, Sequences0
<1>6. v \in Workers
  BY <1>5, <1>1 DEF v, Fresh, Workers
<1>7. PeerPast(p, v) /\ Len(line) <= MaxInFlight
  <2>1. p.gen <= w.gen
    BY <1>4 DEF Serving, PeerPast
  <2>2. p.gen <= v.gen /\ p.gen # v.gen
    BY <1>1, <1>2, <2>1
  <2> QED BY <1>4, <2>2 DEF PeerPast, Serving, InOrder
<1>8. \A j \in DOMAIN line : ReportPast(line[j], v)
  <2> SUFFICES ASSUME NEW j \in DOMAIN line PROVE ReportPast(line[j], v)
    OBVIOUS
  <2>1. line[j].gen <= w.gen
    BY <1>4 DEF Serving, ReportPast
  <2>2. line[j].gen <= v.gen /\ line[j].gen # v.gen
    BY <1>1, <1>2, <2>1
  <2> QED BY <2>2 DEF ReportPast
<1>9. Serving(line, v, 0, p)
  BY <1>6, <1>7, <1>8, ServingReset
<1> QED BY <1>3, <1>4, <1>9 DEF RankOrdered, v

\* A report that leaves the wire in another way than in its turn.
LEMMA RankDisturbed ==
  ASSUME NEW w \in Workers, NEW line \in Seq(Reports), NEW s, NEW p \in Peers, SoundPeer(p),
         NEW reports, NEW on, NEW known, RankOrdered(line, w, s, p, reports, on, known),
         NEW i \in DOMAIN line,
         NEW rest, rest = line \/ rest = Without(line, i),
         NEW q, q = p \/ q = AbsorbQuorum(p, line[i])
  PROVE  RankOrdered(rest, w, 0, q, reports, on, known)
<1>1. on /\ Serving(line, w, s, p) /\ WorkerPlaced(w) /\ reports = <<>>
  BY DEF RankOrdered, Starting
<1>2. /\ rest \in Seq(Reports) /\ Len(rest) <= Len(line)
      /\ \A j \in DOMAIN rest : \E k \in DOMAIN line : rest[j] = line[k]
  <2>1. CASE rest = line
    BY <2>1
  <2>2. CASE rest = Without(line, i)
    <3>1. /\ rest \in Seq(Reports)
          /\ \A j \in DOMAIN rest : \E k \in DOMAIN line : rest[j] = line[k]
      BY <2>2, WithoutType
    <3>2. Len(rest) = Len(line) - 1
      BY <2>2, WithoutLength
    <3> QED BY <3>1, <3>2
  <2> QED BY <2>1, <2>2
<1>3. /\ \A j \in DOMAIN line : ReportPast(line[j], w)
      /\ PeerPast(p, w) /\ Len(line) <= MaxInFlight
  BY <1>1 DEF Serving, InOrder
<1>4. PeerPast(q, w)
  <2>1. line[i] \in Reports
    OBVIOUS
  <2>2. PeerPast(AbsorbQuorum(p, line[i]), w)
    BY <1>1, <1>3, <2>1, AbsorbPeerPast
  <2> QED BY <1>3, <2>2
<1>5. Len(rest) <= MaxInFlight /\ \A j \in DOMAIN rest : ReportPast(rest[j], w)
  <2>1. Len(rest) \in Nat /\ Len(line) \in Nat /\ MaxInFlight \in Nat
    BY <1>2, QuorumConstants
  <2>2. \A j \in DOMAIN rest : ReportPast(rest[j], w)
    BY <1>2, <1>3
  <2> QED BY <1>2, <1>3, <2>1, <2>2
<1>6. Serving(rest, w, 0, q)
  BY <1>2, <1>4, <1>5, ServingReset
<1> QED BY <1>1, <1>6 DEF RankOrdered

LEMMA RankDelivered ==
  ASSUME NEW w \in Workers, NEW line \in Seq(Reports), NEW s \in Nat, NEW p \in Peers, SoundPeer(p),
         NEW reports, NEW on, NEW known, RankOrdered(line, w, s, p, reports, on, known),
         1 \in DOMAIN line
  PROVE  RankOrdered(Without(line, 1), w, IF s < StreakCap THEN s + 1 ELSE s,
                     AbsorbQuorum(p, line[1]), reports, on, known)
<1>1. on /\ Serving(line, w, s, p) /\ WorkerPlaced(w) /\ reports = <<>>
  BY DEF RankOrdered, Starting
<1> DEFINE rest == Without(line, 1)
           t == IF s < StreakCap THEN s + 1 ELSE s
           q == AbsorbQuorum(p, line[1])
<1>2. Serving(rest, w, t, q)
  BY <1>1, ServingDeliver
<1> HIDE DEF rest, t, q
<1>3. RankOrdered(rest, w, t, q, reports, on, known)
  BY <1>1, <1>2 DEF RankOrdered
<1> QED BY <1>3 DEF rest, t, q

LEMMA RankBuilds ==
  ASSUME NEW o \in Workers, CursorOK(o), Observe(o).seq <= MaxSequence,
         NEW line \in Seq(Reports), Len(line) < MaxInFlight, NEW s \in Nat, NEW p \in Peers,
         NEW reports, NEW known, RankOrdered(line, o, s, p, reports, TRUE, known)
  PROVE  RankOrdered(Append(line, ReportOf(Observe(o))), Advance(Observe(o)), s, p,
                     reports, TRUE, known)
<1>1. Serving(line, o, s, p) /\ WorkerPlaced(o) /\ reports = <<>>
  BY DEF RankOrdered
<1> DEFINE next == Append(line, ReportOf(Observe(o)))
           v == Advance(Observe(o))
<1>2. WorkerPlaced(v) /\ Serving(next, v, s, p)
  BY <1>1, ServingBuild
<1> HIDE DEF next, v
<1>3. RankOrdered(next, v, s, p, reports, TRUE, known)
  BY <1>1, <1>2 DEF RankOrdered
<1> QED BY <1>3 DEF next, v

LEMMA InitOrdered == Init => Ordered
<1> SUFFICES ASSUME Init, NEW r \in Ranks
             PROVE  RankOrdered(wire[r], worker[r], streak[r], peer[r], startup[r], ready, r \in collected)
  BY DEF Ordered
<1>1. PICK found \in [Ranks -> SUBSET Digests] : worker = [k \in Ranks |-> Fresh(1, found[k])]
  BY DEF Init
<1>2. /\ wire[r] = <<>> /\ streak[r] = 0 /\ peer[r] = Unknown /\ startup[r] = <<>> /\ ~ready
      /\ worker[r] = Fresh(1, found[r])
  BY <1>1 DEF Init
<1>3. LET w == Fresh(1, found[r]) IN
      /\ w.gen = 1 /\ w.cycle = 1 /\ w.index = 0 /\ w.history = <<>> /\ w.observed = {}
  BY DEF Fresh
<1>4. WorkerPlaced(Fresh(1, found[r]))
  <2>1. \A w : w.observed = {} => Size(w) \in Nat \ {0}
    BY InventorySize DEF Size
  <2> QED BY <1>3, <2>1 DEF WorkerPlaced
<1>5. /\ Unknown.gen = NoGeneration /\ Unknown.retired = <<>> /\ Unknown.pending = {}
      /\ Unknown.ckpt = NoCheckpoint
  BY DEF Unknown
<1>6. NoGeneration <= 1
  BY DEF NoGeneration
<1> QED BY <1>2, <1>3, <1>4, <1>5, <1>6 DEF RankOrdered, Starting

\* A step of one rank leaves the order of the others.
LEMMA OrderedAt ==
  ASSUME Ordered, NEW r \in Ranks, ready' = ready,
         \A k \in Ranks \ {r} : /\ wire'[k] = wire[k] /\ worker'[k] = worker[k]
                                /\ streak'[k] = streak[k] /\ peer'[k] = peer[k]
                                /\ startup'[k] = startup[k]
                                /\ (k \in collected') = (k \in collected),
         RankOrdered(wire'[r], worker'[r], streak'[r], peer'[r], startup'[r], ready',
                     r \in collected')
  PROVE  Ordered'
<1> SUFFICES ASSUME NEW k \in Ranks
             PROVE  RankOrdered(wire'[k], worker'[k], streak'[k], peer'[k], startup'[k], ready',
                                k \in collected')
  BY DEF Ordered
<1>1. RankOrdered(wire[k], worker[k], streak[k], peer[k], startup[k], ready, k \in collected)
  BY DEF Ordered
<1>2. CASE k = r
  BY <1>2
<1>3. CASE k # r
  BY <1>1, <1>3
<1> QED BY <1>2, <1>3

LEMMA OrderedActions ==
  ASSUME IInv, Ordered, NEW r \in Ranks, NEW d \in Digests,
         Add(r, d) \/ Remove(r, d) \/ LoadFails(r, d)
  PROVE  Ordered'
<1> DEFINE w == worker[r]
<1>0. /\ worker \in [Ranks -> Workers] /\ w \in Workers /\ streak \in [Ranks -> Nat]
      /\ wire[r] \in Seq(Reports)
  BY DEF IInv, TypeOK
<1>1. /\ wire' = wire /\ peer' = peer /\ startup' = startup /\ ready' = ready
      /\ collected' = collected /\ streak' = [streak EXCEPT ![r] = 0]
  BY DEF Add, Remove, LoadFails, Disturb
<1>2. PICK S \in SUBSET Digests : worker' = worker \/ worker' = [worker EXCEPT ![r].held = S]
  <2>1. w.held \cup {d} \in SUBSET Digests /\ w.held \ {d} \in SUBSET Digests
    BY <1>0 DEF Workers
  <2>2. CASE Add(r, d)
    <3>1. worker' = [worker EXCEPT ![r].held = w.held \cup {d}]
      BY <1>0, <2>2 DEF Add
    <3> QED BY <2>1, <3>1
  <2>3. CASE Remove(r, d) \/ LoadFails(r, d)
    <3>1. worker' = worker \/ worker' = [worker EXCEPT ![r].held = w.held \ {d}]
      BY <1>0, <2>3 DEF Remove, LoadFails
    <3> QED BY <2>1, <3>1
  <2> QED BY <2>2, <2>3
<1> DEFINE v == worker'[r]
<1>3. /\ v = w \/ v = [w EXCEPT !.held = S]
      /\ \A k \in Ranks \ {r} : worker'[k] = worker[k]
  BY <1>0, <1>2
<1>4. v \in Workers
  BY <1>0, <1>3 DEF Workers
<1>5. streak'[r] = 0 /\ \A k \in Ranks \ {r} : streak'[k] = streak[k]
  BY <1>0, <1>1
<1>6. RankOrdered(wire[r], w, streak[r], peer[r], startup[r], ready, r \in collected)
  BY DEF Ordered
<1> HIDE DEF w, v
<1>7. RankOrdered(wire[r], v, 0, peer[r], startup[r], ready, r \in collected)
  BY <1>0, <1>3, <1>4, <1>6, RankHeld
<1>8. RankOrdered(wire'[r], worker'[r], streak'[r], peer'[r], startup'[r], ready', r \in collected')
  BY <1>1, <1>5, <1>7 DEF v
<1> QED BY <1>1, <1>3, <1>5, <1>8, OrderedAt

LEMMA OrderedRestart ==
  ASSUME IInv, Ordered, NEW r \in Ranks, Restart(r)
  PROVE  Ordered'
<1> DEFINE w == worker[r]
           v == Fresh(w.gen + 1, w.held)
<1>0. /\ worker \in [Ranks -> Workers] /\ w \in Workers /\ streak \in [Ranks -> Nat]
      /\ wire[r] \in Seq(Reports) /\ peer[r] \in Peers /\ w.held \in SUBSET Digests
  BY DEF IInv, TypeOK, Workers
<1>1. /\ wire' = wire /\ peer' = peer /\ startup' = startup /\ ready' = ready /\ ready = TRUE
      /\ collected' = collected /\ streak' = [streak EXCEPT ![r] = 0]
      /\ worker' = [worker EXCEPT ![r] = v] /\ w.gen < MaxGeneration
  BY <1>0 DEF Restart, Disturb, IInv, TypeOK
<1>2. RankOrdered(wire[r], w, streak[r], peer[r], startup[r], TRUE, r \in collected)
  BY <1>1 DEF Ordered
<1>3. RankOrdered(wire[r], v, 0, peer[r], startup[r], TRUE, r \in collected)
  <2> HIDE DEF w
  <2> QED BY <1>0, <1>1, <1>2, RankRestart
<1> HIDE DEF v
<1>4. worker'[r] = v /\ \A k \in Ranks \ {r} : worker'[k] = worker[k]
  BY <1>0, <1>1
<1>5. streak'[r] = 0 /\ \A k \in Ranks \ {r} : streak'[k] = streak[k]
  BY <1>0, <1>1
<1>6. RankOrdered(wire'[r], worker'[r], streak'[r], peer'[r], startup'[r], ready', r \in collected')
  BY <1>1, <1>3, <1>4, <1>5
<1> QED BY <1>1, <1>4, <1>5, <1>6, OrderedAt

LEMMA OrderedBuild ==
  ASSUME IInv, Ordered, NEW r \in Ranks, BuildReport(r)
  PROVE  Ordered'
<1> DEFINE o == worker[r]
           v == Advance(Observe(o))
           next == Append(wire[r], ReportOf(Observe(o)))
<1>0. /\ worker \in [Ranks -> Workers] /\ o \in Workers /\ CursorOK(o) /\ Observe(o).seq <= MaxSequence
      /\ wire \in [Ranks -> Seq(Reports)] /\ wire[r] \in Seq(Reports) /\ Len(wire[r]) < MaxInFlight
      /\ peer[r] \in Peers /\ streak[r] \in Nat
  BY DEF IInv, TypeOK, WorkersTrue, BuildReport
<1>1. /\ wire' = [wire EXCEPT ![r] = next] /\ peer' = peer /\ startup' = startup
      /\ ready' = ready /\ ready = TRUE /\ collected' = collected /\ streak' = streak
      /\ worker' = [worker EXCEPT ![r] = v]
  BY <1>0 DEF BuildReport, IInv, TypeOK
<1>2. RankOrdered(wire[r], o, streak[r], peer[r], startup[r], TRUE, r \in collected)
  BY <1>1 DEF Ordered
<1>3. RankOrdered(next, v, streak[r], peer[r], startup[r], TRUE, r \in collected)
  <2> HIDE DEF o
  <2> QED BY <1>0, <1>2, RankBuilds
<1> HIDE DEF v, next
<1>4. worker'[r] = v /\ wire'[r] = next
      /\ \A k \in Ranks \ {r} : worker'[k] = worker[k] /\ wire'[k] = wire[k]
  BY <1>0, <1>1
<1>5. RankOrdered(wire'[r], worker'[r], streak'[r], peer'[r], startup'[r], ready', r \in collected')
  BY <1>1, <1>3, <1>4
<1> QED BY <1>1, <1>4, <1>5, OrderedAt

LEMMA OrderedWire ==
  ASSUME IInv, Ordered, NEW r \in Ranks, NEW i \in DOMAIN wire[r],
         Deliver(r, i) \/ DeliverCopy(r, i) \/ Lose(r, i)
  PROVE  Ordered'
<1> DEFINE w == worker[r]
           line == wire[r]
           p == peer[r]
<1>0. /\ w \in Workers /\ wire \in [Ranks -> Seq(Reports)] /\ line \in Seq(Reports)
      /\ peer \in [Ranks -> Peers] /\ p \in Peers /\ SoundPeer(p)
      /\ streak \in [Ranks -> Nat] /\ streak[r] \in Nat /\ i \in DOMAIN line
  BY DEF IInv, TypeOK, PeersSound
<1>1. RankOrdered(line, w, streak[r], p, startup[r], ready, r \in collected)
  BY DEF Ordered
<1>2. worker' = worker /\ startup' = startup /\ ready' = ready /\ collected' = collected
  BY DEF Deliver, DeliverCopy, Lose
<1>3. /\ wire' = wire \/ wire' = [wire EXCEPT ![r] = Without(line, i)]
      /\ peer' = peer \/ peer' = [peer EXCEPT ![r] = AbsorbQuorum(p, line[i])]
      /\ \E n : streak' = [streak EXCEPT ![r] = n]
  <2>1. CASE Deliver(r, i)
    BY <1>0, <2>1 DEF Deliver, Absorb
  <2>2. CASE DeliverCopy(r, i)
    BY <1>0, <2>2 DEF DeliverCopy, Absorb, Disturb
  <2>3. CASE Lose(r, i)
    BY <1>0, <2>3 DEF Lose, Disturb
  <2> QED BY <2>1, <2>2, <2>3
<1>4. /\ wire'[r] = line \/ wire'[r] = Without(line, i)
      /\ peer'[r] = p \/ peer'[r] = AbsorbQuorum(p, line[i])
      /\ \A k \in Ranks \ {r} : /\ wire'[k] = wire[k] /\ peer'[k] = peer[k]
                                /\ streak'[k] = streak[k]
  BY <1>0, <1>3
<1>5. CASE streak'[r] = 0
  <2> DEFINE rest == wire'[r]
             q == peer'[r]
  <2>1. /\ rest = line \/ rest = Without(line, i)
        /\ q = p \/ q = AbsorbQuorum(p, line[i])
    BY <1>4
  <2> HIDE DEF rest, q, w, line, p
  <2>2. RankOrdered(rest, w, 0, q, startup[r], ready, r \in collected)
    BY <1>0, <1>1, <2>1, RankDisturbed
  <2>3. RankOrdered(wire'[r], worker'[r], streak'[r], peer'[r], startup'[r], ready', r \in collected')
    BY <1>2, <1>5, <2>2 DEF rest, q, w
  <2> QED BY <1>2, <1>4, <2>3, OrderedAt
<1>6. CASE streak'[r] # 0
  <2>1. Deliver(r, i) /\ i = 1
    <3>1. CASE DeliverCopy(r, i) \/ Lose(r, i)
      BY <1>0, <1>6, <3>1 DEF DeliverCopy, Lose, Disturb
    <3>2. CASE Deliver(r, i) /\ i > 1
      BY <1>0, <1>6, <3>2 DEF Deliver
    <3> QED BY <1>0, <3>1, <3>2
  <2> DEFINE t == IF streak[r] < StreakCap THEN streak[r] + 1 ELSE streak[r]
             rest == Without(line, 1)
             q == AbsorbQuorum(p, line[1])
  <2>2. wire' = [wire EXCEPT ![r] = rest] /\ peer' = [peer EXCEPT ![r] = q]
    BY <1>0, <2>1 DEF Deliver, Absorb
  <2>3. streak' = [streak EXCEPT ![r] = t]
    BY <1>0, <2>1 DEF Deliver
  <2> HIDE DEF t, rest, q
  <2>4. wire'[r] = rest /\ peer'[r] = q /\ streak'[r] = t
    BY <1>0, <2>2, <2>3
  <2> HIDE DEF w, line, p
  <2>5. RankOrdered(rest, w, t, q, startup[r], ready, r \in collected)
    BY <1>0, <1>1, <2>1, RankDelivered DEF rest, t, q
  <2>6. RankOrdered(wire'[r], worker'[r], streak'[r], peer'[r], startup'[r], ready', r \in collected')
    BY <1>2, <2>4, <2>5 DEF w
  <2> QED BY <1>2, <1>4, <2>6, OrderedAt
<1> QED BY <1>5, <1>6

LEMMA OrderedHandshake ==
  ASSUME IInv, Ordered, NEW r \in Ranks, GetHandshake(r) \/ SetHandshake(r)
  PROVE  Ordered'
<1> DEFINE w == worker[r]
           p == peer[r]
           s == startup[r]
<1>0. /\ w \in Workers /\ ~ready /\ w.seq = 0 /\ peer \in [Ranks -> Peers] /\ p \in Peers
      /\ SoundPeer(p) /\ startup \in [Ranks -> Seq(Reports)] /\ s \in Seq(Reports)
  BY DEF IInv, TypeOK, PeersSound, WorkersTrue, GetHandshake, SetHandshake
<1>1. /\ WorkerPlaced(w) /\ streak[r] = 0 /\ Starting(wire[r], w, p, s)
      /\ r \notin collected => s = <<>> /\ p.gen = NoGeneration /\ p.retired = <<>>
  BY <1>0 DEF Ordered, RankOrdered
<1>2. worker' = worker /\ wire' = wire /\ ready' = ready /\ streak' = streak
  BY DEF GetHandshake, SetHandshake
<1>3. CASE GetHandshake(r)
  <2>1. /\ r \notin collected /\ collected' = collected \cup {r} /\ peer' = peer
        /\ startup' = [startup EXCEPT ![r] = HandshakeReports(w)]
    BY <1>3 DEF GetHandshake
  <2>2. Starting(wire[r], w, p, HandshakeReports(w))
    <3>1. s = <<>> /\ p.gen = NoGeneration /\ p.retired = <<>>
      BY <1>1, <2>1
    <3>2. Starting(wire[r], w, p, <<>>)
      BY <1>1, <3>1
    <3> HIDE DEF w, p
    <3> QED BY <1>0, <3>1, <3>2, StartingBegins
  <2>3. startup'[r] = HandshakeReports(w) /\ \A k \in Ranks \ {r} : startup'[k] = startup[k]
    BY <1>0, <2>1
  <2>4. RankOrdered(wire'[r], worker'[r], streak'[r], peer'[r], startup'[r], ready', r \in collected')
    BY <1>0, <1>1, <1>2, <2>1, <2>2, <2>3 DEF RankOrdered
  <2>5. \A k \in Ranks \ {r} : (k \in collected') = (k \in collected)
    BY <2>1
  <2> QED BY <1>2, <2>1, <2>3, <2>4, <2>5, OrderedAt
<1>4. CASE SetHandshake(r)
  <2> DEFINE q == AbsorbQuorum(p, Head(s))
  <2>1. /\ s # <<>> /\ collected' = collected /\ peer' = [peer EXCEPT ![r] = q]
        /\ startup' = [startup EXCEPT ![r] = Tail(s)]
    BY <1>0, <1>4 DEF SetHandshake, Absorb
  <2>2. Starting(wire[r], w, q, Tail(s))
    <3> HIDE DEF w, p, s
    <3> QED BY <1>0, <1>1, <2>1, StartingStep
  <2> HIDE DEF q
  <2>3. /\ startup'[r] = Tail(s) /\ peer'[r] = q
        /\ \A k \in Ranks \ {r} : startup'[k] = startup[k] /\ peer'[k] = peer[k]
    BY <1>0, <2>1
  <2>4. RankOrdered(wire'[r], worker'[r], streak'[r], peer'[r], startup'[r], ready', r \in collected')
    BY <1>0, <1>1, <1>2, <2>1, <2>2, <2>3 DEF RankOrdered
  <2> QED BY <1>2, <2>1, <2>3, <2>4, OrderedAt
<1> QED BY <1>3, <1>4

LEMMA OrderedQuiet ==
  ASSUME IInv, Ordered,
         EngineReady \/ (\E d \in Digests : Admit(d) \/ LoadVerified(d)) \/ UNCHANGED vars
  PROVE  Ordered'
<1>1. CASE EngineReady
  <2> SUFFICES ASSUME NEW r \in Ranks
               PROVE  RankOrdered(wire'[r], worker'[r], streak'[r], peer'[r], startup'[r], ready',
                                  r \in collected')
    BY DEF Ordered
  <2>1. /\ ~ready /\ startup[r] = <<>> /\ ready' = TRUE
        /\ UNCHANGED <<worker, collected, startup, wire, peer, streak>>
    BY <1>1 DEF EngineReady
  <2>2. worker[r] \in Workers /\ worker[r].seq = 0 /\ peer[r] \in Peers
    BY <2>1 DEF IInv, TypeOK, WorkersTrue
  <2>3. WorkerPlaced(worker[r]) /\ streak[r] = 0 /\ Starting(wire[r], worker[r], peer[r], <<>>)
    BY <2>1 DEF Ordered, RankOrdered
  <2>4. Serving(wire[r], worker[r], 0, peer[r])
    BY <2>2, <2>3, StartingEnds
  <2> QED BY <2>1, <2>3, <2>4 DEF RankOrdered
<1>2. CASE UNCHANGED <<worker, collected, startup, ready, wire, peer, streak>>
  BY <1>2 DEF Ordered
<1>3. ASSUME NEW d \in Digests, Admit(d) \/ LoadVerified(d)
      PROVE  UNCHANGED <<worker, collected, startup, ready, wire, peer, streak>>
  BY <1>3 DEF Admit, LoadVerified
<1> QED BY <1>1, <1>2, <1>3 DEF vars

LEMMA OrderedInvalid ==
  ASSUME IInv, Ordered, NEW d \in Digests, InvalidBlocks(d)
  PROVE  Ordered'
<1> SUFFICES ASSUME NEW r \in Ranks
             PROVE  RankOrdered(wire'[r], worker'[r], streak'[r], peer'[r], startup'[r], ready',
                                r \in collected')
  BY DEF Ordered
<1> DEFINE p == peer[r]
           q == [p EXCEPT !.offered = p.offered \ {d}]
<1>1. peer'[r] = q /\ UNCHANGED <<worker, collected, startup, ready, wire, streak>>
  BY DEF InvalidBlocks
<1>2. /\ q.gen = p.gen /\ q.retired = p.retired /\ q.seq = p.seq /\ q.ckpt = p.ckpt
      /\ q.pending = p.pending /\ q.desync = p.desync /\ q.need = p.need
  <2>1. p \in Peers
    BY DEF IInv, TypeOK
  <2> HIDE DEF p
  <2> QED BY <2>1 DEF Peers
<1>3. RankOrdered(wire[r], worker[r], streak[r], p, startup[r], ready, r \in collected)
  BY DEF Ordered
<1> HIDE DEF p, q
<1>4. RankOrdered(wire[r], worker[r], streak[r], q, startup[r], ready, r \in collected)
  BY <1>2, <1>3, OffersAreFree
<1> QED BY <1>1, <1>4

LEMMA NextOrdered == IInv /\ Ordered /\ [Next]_vars => Ordered'
<1> SUFFICES ASSUME IInv, Ordered, [Next]_vars PROVE Ordered'
  OBVIOUS
<1>1. CASE EngineReady \/ (\E d \in Digests : Admit(d) \/ LoadVerified(d)) \/ UNCHANGED vars
  BY <1>1, OrderedQuiet
<1>2. ASSUME NEW d \in Digests, InvalidBlocks(d) PROVE Ordered'
  BY <1>2, OrderedInvalid
<1>3. ASSUME NEW r \in Ranks, GetHandshake(r) \/ SetHandshake(r) PROVE Ordered'
  BY <1>3, OrderedHandshake
<1>4. ASSUME NEW r \in Ranks, BuildReport(r) PROVE Ordered'
  BY <1>4, OrderedBuild
<1>5. ASSUME NEW r \in Ranks, Restart(r) PROVE Ordered'
  BY <1>5, OrderedRestart
<1>6. ASSUME NEW r \in Ranks, NEW d \in Digests, Add(r, d) \/ Remove(r, d) \/ LoadFails(r, d)
      PROVE  Ordered'
  BY <1>6, OrderedActions
<1>7. ASSUME NEW r \in Ranks, NEW i \in DOMAIN wire[r],
             Deliver(r, i) \/ DeliverCopy(r, i) \/ Lose(r, i)
      PROVE  Ordered'
  BY <1>7, OrderedWire
<1> QED BY <1>1, <1>2, <1>3, <1>4, <1>5, <1>6, <1>7, QuorumConstants DEF Next
-----------------------------------------------------------------------------
(***************************************************************************)
(* The generations the scheduler followed.                                 *)
(***************************************************************************)
\* A rank's record remembers the generations it left last, in their order.
Recent(p, taken) ==
    LET n == Len(taken)
        m == Len(p.retired) IN
    /\ p.gen = IF n = 0 THEN NoGeneration ELSE taken[n]
    /\ m = IF n = 0 THEN 0 ELSE IF n - 1 < RetiredLimit THEN n - 1 ELSE RetiredLimit
    /\ \A k \in 1 .. m : p.retired[k] = taken[n - 1 - m + k]

Apart(taken) ==
    \A i, j \in DOMAIN taken : i < j /\ taken[i] = taken[j] => j - i > RetiredLimit + 1

Remembered == \A r \in Ranks : Recent(peer[r], served[r]) /\ Apart(served[r])
-----------------------------------------------------------------------------
\* _accept_worker_generation on a generation that is not refused.
LEMMA TakesGeneration ==
  ASSUME NEW p \in Peers, NEW taken \in Seq(Generations), Recent(p, taken), Apart(taken),
         NEW g \in Generations, p.gen # g, ~Rejected(p, g),
         NEW q, q.gen = g,
         q.retired = IF p.gen = NoGeneration THEN p.retired
                     ELSE Trim(Append(p.retired, p.gen), RetiredLimit)
  PROVE  Recent(q, Append(taken, g)) /\ Apart(Append(taken, g))
<1> DEFINE n == Len(taken)
           m == Len(p.retired)
           R == RetiredLimit
           new == Append(taken, g)
           old == p.retired
<1>1. n \in Nat /\ m \in Nat /\ R \in Nat \ {0} /\ old \in Seq(Generations)
  BY QuorumConstants DEF Peers
<1>2. /\ new \in Seq(Generations) /\ Len(new) = n + 1 /\ new[n + 1] = g
      /\ \A k \in 1 .. n : new[k] = taken[k] /\ taken[k] \in Generations
      /\ DOMAIN new = 1 .. n + 1 /\ DOMAIN taken = 1 .. n
  <2>1. new \in Seq(Generations) /\ Len(new) = n + 1 /\ new[n + 1] = g
    BY <1>1
  <2>2. \A k \in 1 .. n : new[k] = taken[k] /\ taken[k] \in Generations
    OBVIOUS
  <2>3. DOMAIN new = 1 .. n + 1 /\ DOMAIN taken = 1 .. n
    BY <1>1, <2>1
  <2> QED BY <2>1, <2>2, <2>3
<1>3. /\ n = 0 => p.gen = NoGeneration /\ m = 0
      /\ n > 0 => p.gen = taken[n] /\ m = IF n - 1 < R THEN n - 1 ELSE R
      /\ \A k \in 1 .. m : old[k] = taken[n - 1 - m + k]
  <2>1. p.gen = IF n = 0 THEN NoGeneration ELSE taken[n]
    BY DEF Recent
  <2>2. m = IF n = 0 THEN 0 ELSE IF n - 1 < R THEN n - 1 ELSE R
    BY DEF Recent
  <2>3. \A k \in 1 .. m : old[k] = taken[n - 1 - m + k]
    BY DEF Recent
  <2> HIDE DEF n, m
  <2> QED BY <1>1, <2>1, <2>2, <2>3
<1>4. \A k \in 1 .. m : old[k] # g
  <2>1. \A k \in DOMAIN old : old[k] # g
    BY DEF Rejected, Elements
  <2> QED BY <1>1, <2>1
<1> HIDE DEF new, n, m, old
<1>5. Apart(new)
  <2> SUFFICES ASSUME NEW i \in 1 .. n + 1, NEW j \in 1 .. n + 1, i < j, new[i] = new[j]
               PROVE  j - i > R + 1
    BY <1>2 DEF Apart
  <2>1. CASE j <= n
    <3>1. i \in 1 .. n /\ j \in 1 .. n
      BY <1>1, <2>1
    <3>2. taken[i] = taken[j]
      BY <1>2, <3>1
    <3> QED BY <1>1, <1>2, <3>1, <3>2 DEF Apart
  <2>2. CASE ~(j <= n)
    <3>1. j = n + 1 /\ i \in 1 .. n /\ n > 0
      BY <1>1, <2>2
    <3>2. taken[i] = g /\ i # n
      BY <1>2, <1>3, <3>1
    <3>3. ~(n - m <= i)
      <4> SUFFICES ASSUME n - m <= i PROVE FALSE
        OBVIOUS
      <4> DEFINE k == i - n + 1 + m
      <4>1. k \in 1 .. m
        BY <1>1, <3>1, <3>2
      <4>2. n - 1 - m + k = i
        BY <1>1, <3>1
      <4> HIDE DEF k
      <4> QED BY <1>3, <1>4, <3>2, <4>1, <4>2
    <3>4. m = IF n - 1 < R THEN n - 1 ELSE R
      BY <1>3, <3>1
    <3> QED BY <1>1, <3>1, <3>3, <3>4
  <2> QED BY <2>1, <2>2
<1>6. Recent(q, new)
  <2>1. CASE n = 0
    <3>1. q.retired = old
      BY <1>3, <2>1 DEF old
    <3>2. Len(q.retired) = 0
      BY <1>3, <2>1, <3>1 DEF m, old
    <3> QED BY <1>1, <1>2, <2>1, <3>2 DEF Recent
  <2>2. CASE n # 0
    <3> DEFINE full == Append(old, taken[n])
               ret == q.retired
    <3>1. n \in 1 .. n /\ taken[n] \in Generations /\ taken[n] # NoGeneration
      BY <1>1, <1>2, <2>2, QuorumConstants DEF Generations, NoGeneration
    <3>2. m = IF n - 1 < R THEN n - 1 ELSE R
      BY <1>1, <1>3, <2>2
    <3>3. ret = Trim(full, R)
      BY <1>1, <1>3, <2>2, <3>1 DEF old
    <3>4. /\ full \in Seq(Generations) /\ Len(full) = m + 1 /\ full[m + 1] = taken[n]
          /\ \A k \in 1 .. m : full[k] = old[k]
      <4> DEFINE x == taken[n]
      <4>1. x \in Generations
        BY <3>1
      <4> HIDE DEF x
      <4>2. LET y == Append(old, x) IN
            /\ y \in Seq(Generations) /\ Len(y) = m + 1 /\ y[m + 1] = x
            /\ \A k \in 1 .. m : y[k] = old[k]
        <5> DEFINE z == Append(old, x)
        <5>0. Len(old) = m
          BY DEF old, m
        <5>1. z \in Seq(Generations) /\ Len(z) = m + 1 /\ z[m + 1] = x
          BY <1>1, <4>1, <5>0
        <5>2. \A k \in 1 .. m : z[k] = old[k]
          BY <1>1, <4>1, <5>0
        <5> QED BY <5>1, <5>2
      <4> QED BY <4>2 DEF x
    <3> HIDE DEF full, ret
    <3>5. \A k \in 1 .. m + 1 : full[k] = taken[n - 1 - m + k]
      <4> SUFFICES ASSUME NEW k \in 1 .. m + 1 PROVE full[k] = taken[n - 1 - m + k]
        OBVIOUS
      <4>1. CASE k \in 1 .. m
        BY <1>3, <3>4, <4>1
      <4>2. CASE k = m + 1
        <5>1. n - 1 - m + k = n
          BY <1>1, <4>2
        <5> QED BY <3>4, <4>2, <5>1
      <4> QED BY <1>1, <4>1, <4>2
    <3>6. CASE m + 1 > R
      <4>1. m = R /\ n - 1 >= R
        BY <1>1, <3>2, <3>6
      <4>2. ret = SubSeq(full, 2, m + 1)
        <5>1. Len(full) - R + 1 = 2
          BY <1>1, <3>4, <4>1
        <5> QED BY <3>3, <3>4, <3>6, <5>1 DEF Trim
      <4>3. Len(ret) = m /\ \A k \in 1 .. m : ret[k] = full[k + 1]
        BY <1>1, <3>4, <4>2
      <4>4. \A k \in 1 .. m : ret[k] = new[n - m + k]
        <5> SUFFICES ASSUME NEW k \in 1 .. m PROVE ret[k] = new[n - m + k]
          OBVIOUS
        <5>1. k + 1 \in 1 .. m + 1 /\ n - 1 - m + (k + 1) = n - m + k /\ n - m + k \in 1 .. n
          BY <1>1, <4>1
        <5> QED BY <1>2, <3>5, <4>3, <5>1
      <4>5. /\ Len(new) # 0 /\ q.gen = new[Len(new)]
            /\ Len(ret) = IF Len(new) - 1 < R THEN Len(new) - 1 ELSE R
        BY <1>1, <1>2, <4>1, <4>3
      <4>6. \A k \in 1 .. Len(ret) : ret[k] = new[Len(new) - 1 - Len(ret) + k]
        <5>1. \A k \in 1 .. m : Len(new) - 1 - Len(ret) + k = n - m + k
          BY <1>1, <1>2, <4>3
        <5> QED BY <4>3, <4>4, <5>1
      <4> QED BY <4>5, <4>6 DEF Recent, ret
    <3>7. CASE ~(m + 1 > R)
      <4>1. m = n - 1 /\ n <= R
        BY <1>1, <3>2, <3>7
      <4>2. ret = full
        BY <3>3, <3>4, <3>7 DEF Trim
      <4>3. Len(ret) = n
        BY <1>1, <3>4, <4>1, <4>2
      <4>4. \A k \in 1 .. n : ret[k] = new[k]
        <5> SUFFICES ASSUME NEW k \in 1 .. n PROVE ret[k] = new[k]
          OBVIOUS
        <5>1. k \in 1 .. m + 1 /\ n - 1 - m + k = k
          BY <1>1, <4>1
        <5> QED BY <1>2, <3>5, <4>2, <5>1
      <4>5. /\ Len(new) # 0 /\ q.gen = new[Len(new)]
            /\ Len(ret) = IF Len(new) - 1 < R THEN Len(new) - 1 ELSE R
        BY <1>1, <1>2, <4>1, <4>3
      <4>6. \A k \in 1 .. Len(ret) : ret[k] = new[Len(new) - 1 - Len(ret) + k]
        <5>1. \A k \in 1 .. n : Len(new) - 1 - Len(ret) + k = k
          BY <1>1, <1>2, <4>3
        <5> QED BY <4>3, <4>4, <5>1
      <4> QED BY <4>5, <4>6 DEF Recent, ret
    <3> QED BY <3>6, <3>7
  <2> QED BY <2>1, <2>2
<1> QED BY <1>5, <1>6 DEF new

LEMMA AbsorbRemembers ==
  ASSUME IInv, Remembered, NEW r \in Ranks, NEW m \in Reports, Absorb(r, m)
  PROVE  Remembered'
<1> DEFINE p == peer[r]
           q == AbsorbQuorum(p, m)
           a == AcceptGeneration(p, m.gen)
<1>1. /\ peer \in [Ranks -> Peers] /\ p \in Peers /\ SoundPeer(p) /\ m.gen \in Generations
      /\ served \in [Ranks -> Seq(Generations)] /\ served[r] \in Seq(Generations)
  BY DEF IInv, TypeOK, PeersSound, Reports
<1>2. Recent(p, served[r]) /\ Apart(served[r])
  BY DEF Remembered
<1>3. peer' = [peer EXCEPT ![r] = q]
  BY DEF Absorb
<1>4. peer'[r] = q /\ \A k \in Ranks \ {r} : peer'[k] = peer[k]
  BY <1>1, <1>3
<1>5. CASE p.gen = m.gen \/ Rejected(p, m.gen)
  <2>1. served' = served
    BY <1>5 DEF Absorb
  <2>2. q.gen = p.gen /\ q.retired = p.retired
    <3>1. CASE Rejected(p, m.gen)
      BY <3>1 DEF AbsorbQuorum
    <3>2. CASE ~Rejected(p, m.gen)
      <4>1. q.gen = m.gen /\ q.retired = a.retired
        BY <1>1, <3>2, QuorumShape
      <4>2. p.gen = m.gen /\ a = p
        BY <1>1, <1>5, <3>2, AcceptShape
      <4> QED BY <4>1, <4>2
    <3> QED BY <3>1, <3>2
  <2> HIDE DEF q
  <2>3. Recent(q, served[r])
    BY <1>2, <2>2 DEF Recent
  <2> QED BY <1>2, <1>4, <2>1, <2>3 DEF Remembered
<1>6. CASE p.gen # m.gen /\ ~Rejected(p, m.gen)
  <2>1. served' = [served EXCEPT ![r] = Append(served[r], m.gen)]
    BY <1>1, <1>6 DEF Absorb
  <2>2. q.gen = m.gen /\ q.retired = a.retired
    BY <1>1, <1>6, QuorumShape
  <2>3. a.retired = IF p.gen = NoGeneration THEN p.retired
                    ELSE Trim(Append(p.retired, p.gen), RetiredLimit)
    BY <1>1, <1>6, AcceptShape
  <2> HIDE DEF q, a, p
  <2>4. Recent(q, Append(served[r], m.gen)) /\ Apart(Append(served[r], m.gen))
    BY <1>1, <1>2, <1>6, <2>2, <2>3, TakesGeneration
  <2>5. served'[r] = Append(served[r], m.gen) /\ \A k \in Ranks \ {r} : served'[k] = served[k]
    BY <1>1, <2>1
  <2> QED BY <1>4, <2>4, <2>5 DEF Remembered
<1> QED BY <1>5, <1>6

LEMMA InitRemembered == Init => Remembered
<1> SUFFICES ASSUME Init, NEW r \in Ranks PROVE Recent(peer[r], served[r]) /\ Apart(served[r])
  BY DEF Remembered
<1>1. peer[r] = Unknown /\ served[r] = <<>>
  BY DEF Init
<1>2. Unknown.gen = NoGeneration /\ Unknown.retired = <<>>
  BY DEF Unknown
<1> QED BY <1>1, <1>2 DEF Recent, Apart

LEMMA NextRemembered == IInv /\ Remembered /\ [Next]_vars => Remembered'
<1> SUFFICES ASSUME IInv, Remembered, [Next]_vars PROVE Remembered'
  OBVIOUS
<1>1. CASE UNCHANGED <<peer, served>>
  BY <1>1 DEF Remembered
<1>2. ASSUME NEW d \in Digests, InvalidBlocks(d) PROVE Remembered'
  <2>1. ASSUME NEW r \in Ranks PROVE peer'[r].gen = peer[r].gen /\ peer'[r].retired = peer[r].retired
    <3>1. peer[r] \in Peers /\ peer'[r] = [peer[r] EXCEPT !.offered = peer[r].offered \ {d}]
      BY <1>2 DEF IInv, TypeOK, InvalidBlocks
    <3> QED BY <3>1 DEF Peers
  <2>2. served' = served
    BY <1>2 DEF InvalidBlocks
  <2> QED BY <2>1, <2>2 DEF Remembered, Recent
<1>3. ASSUME NEW r \in Ranks, SetHandshake(r) PROVE Remembered'
  <2>1. Head(startup[r]) \in Reports
    BY <1>3 DEF IInv, TypeOK, SetHandshake
  <2> QED BY <1>3, <2>1, AbsorbRemembers DEF SetHandshake
<1>4. ASSUME NEW r \in Ranks, NEW i \in DOMAIN wire[r], Deliver(r, i) \/ DeliverCopy(r, i)
      PROVE  Remembered'
  <2>1. wire[r][i] \in Reports
    BY DEF IInv, TypeOK
  <2> QED BY <1>4, <2>1, AbsorbRemembers DEF Deliver, DeliverCopy
<1>5. ASSUME NEW d \in Digests, Admit(d) \/ LoadVerified(d)
      PROVE  UNCHANGED <<peer, served>>
  BY <1>5 DEF Admit, LoadVerified
<1>6. ASSUME NEW r \in Ranks, NEW d \in Digests, Add(r, d) \/ Remove(r, d) \/ LoadFails(r, d)
      PROVE  UNCHANGED <<peer, served>>
  BY <1>6 DEF Add, Remove, LoadFails
<1>7. ASSUME NEW r \in Ranks,
             GetHandshake(r) \/ BuildReport(r) \/ Restart(r) \/ \E i \in DOMAIN wire[r] : Lose(r, i)
      PROVE  UNCHANGED <<peer, served>>
  BY <1>7 DEF GetHandshake, BuildReport, Restart, Lose
<1>8. EngineReady \/ UNCHANGED vars => UNCHANGED <<peer, served>>
  BY DEF EngineReady, vars
<1> QED BY <1>1, <1>2, <1>3, <1>4, <1>5, <1>6, <1>7, <1>8, QuorumConstants DEF Next
-----------------------------------------------------------------------------
\* A settled rank: two complete cycles of its worker have arrived in order.
LEMMA SettledInSync ==
  ASSUME IInv, Ordered, NEW r \in Ranks, Settled(r)
  PROVE  Excused(peer[r], worker[r]) \/ InSync(peer[r], worker[r])
<1> DEFINE w == worker[r]
           p == peer[r]
           s == streak[r]
           line == wire[r]
           F == MaxInFlight
<1>1. /\ w \in Workers /\ s \in Nat /\ line \in Seq(Reports) /\ F \in Nat \ {0}
  BY QuorumConstants DEF IInv, TypeOK
<1>2. s >= F + 2 * Size(w) /\ Size(w) \in Nat \ {0}
  BY <1>1, CapReached, PositionFacts DEF Settled
<1>3. WorkerPlaced(w) /\ Serving(line, w, s, p)
  <2>1. RankOrdered(line, w, s, p, startup[r], ready, r \in collected)
    BY DEF Ordered
  <2>2. s # 0
    BY <1>1, <1>2
  <2> HIDE DEF w, p, s, line
  <2> QED BY <2>1, <2>2 DEF RankOrdered
<1> HIDE DEF w, p, s, line
<1> DEFINE pos == Upcoming(line, w, 1)
<1>4. pos \in Checkpoints /\ pos.index < Size(w)
  <2>1. 1 \in Nat \ {0} /\ 1 + s > F /\ InOrder(line, w, s, p)
    BY <1>1, <1>2, <1>3 DEF Serving
  <2> QED BY <1>1, <1>3, <2>1, UpcomingFacts
<1> HIDE DEF pos
<1>5. pos.index \in Nat
  BY <1>4 DEF Checkpoints
<1>6. s >= F
  BY <1>1, <1>2
<1>7. Excused(p, w) \/ Progress(s - F, pos, w, p)
  BY <1>3, <1>6 DEF Serving, CatchesUp, pos
<1>8. s - F >= pos.index + Size(w)
  BY <1>1, <1>2, <1>4, <1>5
<1>9. Excused(p, w) \/ InSync(p, w)
  BY <1>7, <1>8 DEF Progress
<1> QED BY <1>9 DEF p, w

\* The scheduler follows the worker process that serves: when the reports of
\* two complete checkpoint cycles have arrived in order it believes what the
\* worker holds (_absorb_worker_checkpoint), for any inventory, chunk size and
\* number of reports under way, whatever was lost, repeated, overtaken or
\* restarted before; and it returns to a generation it left only after
\* RetiredLimit others (_accept_worker_generation).
THEOREM SchedulerFollowsWorker == Spec => []FollowsWorker
<1> DEFINE I == IInv /\ Ordered /\ Remembered
<1>1. Init => I
  BY InitInv, InitOrdered, InitRemembered
<1>2. I /\ [Next]_vars => I'
  BY NextInv, NextOrdered, NextRemembered
<1>3. I => FollowsWorker
  <2> SUFFICES ASSUME IInv, Ordered, Remembered PROVE FollowsWorker
    OBVIOUS
  <2>1. NoRevival
    BY DEF Remembered, Apart, NoRevival
  <2>2. ASSUME NEW r \in Ranks, Settled(r), worker[r].gen \notin Elements(peer[r].retired),
               peer[r].gen = worker[r].gen => peer[r].seq <= worker[r].seq
        PROVE  /\ peer[r].gen = worker[r].gen /\ peer[r].seq = worker[r].seq
               /\ ~peer[r].desync /\ ~peer[r].need /\ peer[r].pending = {}
    <3>1. peer[r].seq \in Nat /\ worker[r].seq \in Nat
      BY DEF IInv, TypeOK, Peers, Workers, Sequences0
    <3>2. ~Excused(peer[r], worker[r])
      BY <2>2, <3>1 DEF Excused
    <3>3. InSync(peer[r], worker[r])
      BY <2>2, <3>2, SettledInSync
    <3> QED BY <3>3 DEF InSync, Follows
  <2>3. Resynchronized
    BY <2>2 DEF Resynchronized
  <2> QED BY <2>1, <2>3 DEF FollowsWorker
<1> HIDE DEF I
<1> QED BY <1>1, <1>2, <1>3, PTL DEF Spec
=============================================================================
