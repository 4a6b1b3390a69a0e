------------------------ MODULE BuddyReplicationProofs ------------------------
(***************************************************************************)
(* TLAPS proofs about BuddyReplication, for any set of keys, entry sizes   *)
(* and limits, and that it implements ReplicaPublication.                  *)
(*                                                                         *)
(* None of the properties is inductive.  Typed says what a frame may look  *)
(* like (the sequence number of a COMMIT is its own), RecentExact that     *)
(* _committed is the end of what was published, AckTrue and SentOrDegraded *)
(* what the answers on their way still promise, and Remembered that the    *)
(* generations that matter are not forgotten while every id fits.          *)
(***************************************************************************)
EXTENDS BuddyReplication, TLAPS, FiniteSetTheorems, SequenceTheorems

Frames == [type : {"begin", "put", "commit", "abort"}, key : Keys, seq : Nat, index : Nat,
           ctx : Contexts, fine : BOOLEAN]
\* The sequence of a COMMIT is its own: an answer to it is not mistaken for another.
FrameOK(f) == /\ f \in Frames
              /\ f.seq = Size[f.key] + 2 <=> f.type = "commit"

ChunkMaps == UNION {[D -> Contexts] : D \in SUBSET Nat}
Transactions == [ctx : Contexts, chunks : ChunkMaps, seqs : SUBSET (Nat \X Frames)]
Contents == {Whole(k, c) : k \in Keys, c \in Contexts}
Acks == [key : Keys, seq : Nat, refused : BOOLEAN]

ReceiverTyped ==
    /\ stream \in BOOLEAN
    /\ Open \subseteq Keys /\ IsFiniteSet(Open) /\ Cardinality(Open) <= MaxActive
    /\ active \in [Open -> Transactions]
    /\ IsFiniteSet(Chunks(active)) /\ Staged(active) \in 0 .. MaxStaged
    /\ committed \in Seq([key : Keys, ctx : Contexts]) /\ Len(committed) <= RecentCommits
    /\ replicas \in Seq(Keys \X Contents)

SenderTyped ==
    /\ avail \in 0 .. MaxStaged
    /\ inflight \subseteq net /\ IsFiniteSet(inflight) /\ Cardinality(inflight) <= MaxInflight
    /\ localOnly \in Seq(Keys) /\ Len(localOnly) <= RecentLocalOnly
    /\ \A f \in net : FrameOK(f)

WireTyped ==
    /\ driver \in [Keys -> [at : Int, ctx : Contexts]]
    /\ acks \subseteq Acks
    /\ credits \in Seq(0 .. MaxStaged)

Typed == ReceiverTyped /\ SenderTyped /\ WireTyped
-----------------------------------------------------------------------------
(* Sequences *)

LEMMA WithoutEffect ==
  ASSUME NEW S, NEW s \in Seq(S), NEW E
  PROVE  \/ /\ Without(s, E) = s /\ \A i \in 1 .. Len(s) : s[i] \notin E
         \/ \E p \in 1 .. Len(s) :
              /\ s[p] \in E /\ Without(s, E) \in Seq(S) /\ Len(Without(s, E)) = Len(s) - 1
              /\ \A i \in 1 .. Len(s) - 1 :
                    Without(s, E)[i] = IF i < p THEN s[i] ELSE s[i + 1]
<1>1. DOMAIN s = 1 .. Len(s) /\ Len(s) \in Nat  OBVIOUS
<1>2. CASE \A i \in DOMAIN s : s[i] \notin E
  BY <1>1, <1>2 DEF Without
<1>3. CASE \E i \in DOMAIN s : s[i] \in E
  <2> DEFINE p == CHOOSE i \in DOMAIN s : s[i] \in E
             a == SubSeq(s, 1, p - 1)
             b == SubSeq(s, p + 1, Len(s))
  <2>1. p \in 1 .. Len(s) /\ s[p] \in E  BY <1>1, <1>3
  <2>2. Without(s, E) = a \o b  BY <1>3 DEF Without, RemoveAt
  <2> HIDE DEF p
  <2>3. /\ a \in Seq(S) /\ Len(a) = p - 1
        /\ \A i \in 1 .. p - 1 : a[i] = s[i]
    <3>1. \A i \in 1 .. p - 1 : s[i] \in S  BY <2>1, <1>1, ElementOfSeq
    <3>2. 1 \in Int /\ p - 1 \in Int  BY <2>1
    <3>3. /\ a \in Seq(S) /\ Len(a) = IF 1 <= p - 1 THEN p - 1 - 1 + 1 ELSE 0
          /\ \A i \in 1 .. p - 1 - 1 + 1 : a[i] = s[1 + i - 1]
      BY <3>1, <3>2, SubSeqProperties
    <3> QED  BY <3>3, <2>1
  <2>4. /\ b \in Seq(S) /\ Len(b) = Len(s) - p
        /\ \A i \in 1 .. Len(s) - p : b[i] = s[p + i]
    <3>1. \A i \in p + 1 .. Len(s) : s[i] \in S  BY <2>1, <1>1, ElementOfSeq
    <3>2. p + 1 \in Int /\ Len(s) \in Int  BY <2>1, <1>1
    <3>3. /\ b \in Seq(S) /\ Len(b) = IF p + 1 <= Len(s) THEN Len(s) - (p + 1) + 1 ELSE 0
          /\ \A i \in 1 .. Len(s) - (p + 1) + 1 : b[i] = s[p + 1 + i - 1]
      BY <3>1, <3>2, SubSeqProperties
    <3>4. /\ Len(s) - (p + 1) + 1 = Len(s) - p
          /\ (IF p + 1 <= Len(s) THEN Len(s) - (p + 1) + 1 ELSE 0) = Len(s) - p
          /\ \A i \in 1 .. Len(s) - p : p + 1 + i - 1 = p + i
      <4>1. p \in Nat /\ Len(s) \in Nat /\ p <= Len(s)  BY <2>1, <1>1
      <4>2. Len(s) - (p + 1) + 1 = Len(s) - p  BY <4>1
      <4>3. ~(p + 1 <= Len(s)) => Len(s) - p = 0  BY <4>1
      <4>4. \A i \in 1 .. Len(s) - p : p + 1 + i - 1 = p + i  BY <4>1
      <4> QED  BY <4>2, <4>3, <4>4
    <3> HIDE DEF b
    <3>5. b \in Seq(S) /\ Len(b) = Len(s) - p  BY <3>3, <3>4
    <3>6. ASSUME NEW i \in 1 .. Len(s) - p  PROVE  b[i] = s[p + i]
      <4>1. p + 1 + i - 1 = p + i  BY <3>4
      <4>2. i \in 1 .. Len(s) - (p + 1) + 1  BY <2>1, <1>1
      <4> QED  BY <3>3, <4>1, <4>2
    <3> QED  BY <3>5, <3>6
  <2> HIDE DEF a, b
  <2>5. /\ a \o b \in Seq(S) /\ Len(a \o b) = Len(a) + Len(b)
        /\ \A i \in 1 .. Len(a) + Len(b) : (a \o b)[i] = IF i <= Len(a) THEN a[i] ELSE b[i - Len(a)]
    BY <2>3, <2>4, ConcatProperties
  <2>6. \A i \in 1 .. Len(s) - 1 : (a \o b)[i] = IF i < p THEN s[i] ELSE s[i + 1]
    <3> SUFFICES ASSUME NEW i \in 1 .. Len(s) - 1
                 PROVE  (a \o b)[i] = IF i < p THEN s[i] ELSE s[i + 1]
      OBVIOUS
    <3>1. i \in 1 .. Len(a) + Len(b)  BY <2>1, <2>3, <2>4, <1>1
    <3>2. CASE i < p  BY <3>1, <3>2, <2>1, <2>3, <2>5
    <3>3. CASE ~(i < p)
      <4>1. i - Len(a) \in 1 .. Len(s) - p /\ p + (i - Len(a)) = i + 1
        BY <3>3, <2>1, <2>3, <1>1
      <4>2. (a \o b)[i] = b[i - Len(a)]  BY <3>1, <3>3, <2>1, <2>3, <2>5
      <4> QED  BY <4>1, <4>2, <2>4, <3>3, <2>1
    <3> QED  BY <3>2, <3>3, <2>1
  <2>7. Len(a \o b) = Len(s) - 1  BY <2>1, <2>3, <2>4, <2>5, <1>1
  <2>8. /\ p \in 1 .. Len(s) /\ s[p] \in E
        /\ Without(s, E) \in Seq(S) /\ Len(Without(s, E)) = Len(s) - 1
        /\ \A i \in 1 .. Len(s) - 1 : Without(s, E)[i] = IF i < p THEN s[i] ELSE s[i + 1]
    BY <2>1, <2>2, <2>5, <2>6, <2>7
  <2> QED  BY <2>8
<1> QED  BY <1>2, <1>3

LEMMA WithoutType ==
  ASSUME NEW S, NEW s \in Seq(S), NEW E
  PROVE  Without(s, E) \in Seq(S) /\ Len(Without(s, E)) <= Len(s)
<1>1. Len(s) \in Nat  OBVIOUS
<1> QED  BY <1>1, WithoutEffect

\* The last element is new, and the bound holds.
LEMMA RememberType ==
  ASSUME NEW S, NEW s \in Seq(S), NEW e \in S, NEW n \in Nat \ {0}, Len(s) <= n
  PROVE  Remember(s, e, n) \in Seq(S) /\ Len(Remember(s, e, n)) <= n
<1> DEFINE w == Without(s, {e})
           t == Append(w, e)
<1>1. w \in Seq(S) /\ Len(w) <= n /\ Len(w) \in Nat  BY WithoutType
<1> HIDE DEF w
<1>2. t \in Seq(S) /\ t # <<>> /\ Len(t) = Len(w) + 1  BY <1>1, AppendProperties
<1>3. Remember(s, e, n) = IF Len(t) > n THEN Tail(t) ELSE t  BY DEF Remember, w
<1> HIDE DEF t
<1>4. Tail(t) \in Seq(S) /\ Len(Tail(t)) = Len(t) - 1  BY <1>2, HeadTailProperties
<1> QED  BY <1>1, <1>2, <1>3, <1>4

\* What is remembered after a new element is the end of what was, and that element.
LEMMA RememberNew ==
  ASSUME NEW S, NEW s \in Seq(S), NEW e \in S, NEW n \in Nat \ {0}, Len(s) <= n,
         \A i \in 1 .. Len(s) : s[i] # e
  PROVE  LET t == Remember(s, e, n)
         IN  /\ Len(t) = IF Len(s) < n THEN Len(s) + 1 ELSE n
             /\ t[Len(t)] = e
             /\ \A j \in 1 .. Len(t) - 1 : t[j] = s[Len(s) - Len(t) + 1 + j]
<1>0. Len(s) \in Nat  OBVIOUS
<1>1. Without(s, {e}) = s  BY WithoutEffect
<1> DEFINE u == Append(s, e)
<1>2. /\ u \in Seq(S) /\ u # <<>> /\ Len(u) = Len(s) + 1
      /\ \A i \in 1 .. Len(s) : u[i] = s[i]
      /\ u[Len(s) + 1] = e
  BY AppendProperties
<1>3. Remember(s, e, n) = IF Len(u) > n THEN Tail(u) ELSE u  BY <1>1 DEF Remember
<1> HIDE DEF u
<1>4. CASE Len(u) > n
  <2>1. Len(s) = n  BY <1>0, <1>2, <1>4
  <2>2. Remember(s, e, n) = SubSeq(u, 2, Len(u))  BY <1>2, <1>3, <1>4, TailIsSubSeq
  <2>3. \A i \in 2 .. Len(u) : u[i] \in S  BY <1>2, ElementOfSeq
  <2>4. 2 \in Int /\ Len(u) \in Int  BY <1>0, <1>2
  <2>5. /\ Len(SubSeq(u, 2, Len(u))) = IF 2 <= Len(u) THEN Len(u) - 2 + 1 ELSE 0
        /\ \A i \in 1 .. Len(u) - 2 + 1 : SubSeq(u, 2, Len(u))[i] = u[2 + i - 1]
    BY <2>3, <2>4, SubSeqProperties
  <2> QED  BY <2>1, <2>2, <2>5, <1>0, <1>2
<1>5. CASE ~(Len(u) > n)  BY <1>0, <1>2, <1>3, <1>5
<1> QED  BY <1>4, <1>5
-----------------------------------------------------------------------------
(* Types *)

LEMMA Constants ==
  /\ \A k \in Keys : Size[k] \in Nat \ {0} /\ k = <<k[1], k[2]>> /\ k[2] \in Nat
  /\ StreamModes \subseteq BOOLEAN
  /\ MaxActive \in Nat \ {0} /\ MaxStaged \in Nat \ {0} /\ MaxContextChunks \in Nat \ {0}
  /\ RecentCommits \in Nat \ {0} /\ RecentGenerations \in Nat \ {0}
  /\ MaxInflight \in Nat \ {0} /\ RecentLocalOnly \in Nat \ {0} /\ MaxCredits \in Nat \ {0}
BY ReplicationConstants DEF ReplicationConstants

LEMMA FrameAtOK ==
  ASSUME NEW k \in Keys, NEW at \in 0 .. Size[k] + 1, NEW c \in Contexts
  PROVE  /\ FrameOK(FrameAt(k, at, c)) /\ FrameAt(k, at, c).key = k
         /\ at = Size[k] + 1 => FrameAt(k, at, c).type = "commit"
<1>0. Size[k] \in Nat \ {0} /\ c \in {1, 2}  BY Constants DEF Contexts
<1>1. CASE at = 0
  <2>1. FrameAt(k, at, c) = Frame("begin", k, 0, 0, c)  BY <1>1 DEF FrameAt
  <2>2. 0 \in Nat /\ 0 # Size[k] + 2 /\ at # Size[k] + 1 /\ c \in Contexts  BY <1>0, <1>1
  <2> QED  BY <2>1, <2>2 DEF FrameOK, Frame, Frames
<1>2. CASE at \in 1 .. Size[k]
  <2>1. FrameAt(k, at, c) = Frame("put", k, at + c - 1, at, c)  BY <1>0, <1>2 DEF FrameAt
  <2>2. at + c - 1 \in Nat /\ at + c - 1 # Size[k] + 2 /\ at \in Nat /\ at # Size[k] + 1  BY <1>0, <1>2
  <2> QED  BY <1>0, <1>2, <2>1, <2>2 DEF FrameOK, Frame, Frames
<1>3. CASE at = Size[k] + 1
  <2>1. FrameAt(k, at, c) = Frame("commit", k, Size[k] + 2, 0, c)  BY <1>0, <1>3 DEF FrameAt
  <2>2. Size[k] + 2 \in Nat /\ 0 \in Nat /\ c \in Contexts  BY <1>0
  <2> QED  BY <2>1, <2>2 DEF FrameOK, Frame, Frames
<1> QED  BY <1>0, <1>1, <1>2, <1>3

LEMMA AbortFrameOK ==
  ASSUME NEW k \in Keys
  PROVE  /\ FrameOK(DegradeFrame(k)) /\ DegradeFrame(k).key = k /\ DegradeFrame(k).type = "abort"
         /\ FrameOK(CancelFrame(k)) /\ CancelFrame(k).key = k /\ CancelFrame(k).type = "abort"
<1>0. Size[k] \in Nat \ {0}  BY Constants
<1>1. Size[k] + 4 \in Nat /\ Size[k] + 4 # Size[k] + 2  BY <1>0
<1>2. Size[k] + 3 \in Nat /\ Size[k] + 3 # Size[k] + 2  BY <1>0
<1> QED  BY <1>1, <1>2 DEF FrameOK, Frame, Frames, DegradeFrame, CancelFrame, Contexts

\* _mark_local_only keeps the limits, and leaves an ABORT behind.
LEMMA MarkLocalOnlyEffect ==
  ASSUME SenderTyped, acks \subseteq Acks, NEW k \in Keys, NEW left \in SUBSET inflight,
         MarkLocalOnly(k, left), avail' = avail
  PROVE  /\ SenderTyped' /\ acks' \subseteq acks
         /\ net' = net \cup {DegradeFrame(k)}
         /\ inflight' = {f \in left : f.key # k}
<1>1. localOnly' \in Seq(Keys) /\ Len(localOnly') <= RecentLocalOnly
  BY RememberType, Constants DEF MarkLocalOnly, SenderTyped
<1>2. IsFiniteSet(inflight') /\ Cardinality(inflight') <= Cardinality(inflight)
  <2>1. inflight' \in SUBSET inflight  BY DEF MarkLocalOnly
  <2> QED  BY <2>1, FS_Subset DEF SenderTyped
<1>3. Cardinality(inflight') \in Nat /\ Cardinality(inflight) \in Nat
  BY <1>2, FS_CardinalityType DEF SenderTyped
<1>4. Cardinality(inflight') <= MaxInflight  BY <1>2, <1>3, Constants DEF SenderTyped
<1>5. \A f \in net' : FrameOK(f)  BY AbortFrameOK DEF MarkLocalOnly, SenderTyped
<1> QED  BY <1>1, <1>2, <1>4, <1>5 DEF MarkLocalOnly, SenderTyped

\* A frame that was offered is in flight, or the entry is local-only from now on.
LEMMA OfferEffect ==
  ASSUME SenderTyped, acks \subseteq Acks, NEW f, FrameOK(f), Offer(f)
  PROVE  /\ SenderTyped' /\ acks' \subseteq acks
         /\ net' \subseteq net \cup {f, DegradeFrame(f.key)} /\ net \subseteq net'
         /\ f \in net' \/ net' = net \/ net' = net \cup {DegradeFrame(f.key)}
         /\ f \in inflight' \/ DegradeFrame(f.key) \in net'
         /\ inflight' \subseteq inflight \cup {f}
         /\ \A g \in inflight : g \in inflight' \/ (g.key = f.key /\ DegradeFrame(f.key) \in net')
<1> DEFINE same == {g \in inflight : g.key = f.key /\ g.seq = f.seq}
           full == Cardinality(inflight) + 1 > MaxInflight
           poor == f.type = "put" /\ avail < 1
<1>0. f.key \in Keys  BY DEF FrameOK, Frames
<1>1. CASE same # {} /\ f \in same
  BY <1>1 DEF Offer, SenderTyped, sender
<1>2. CASE ~(same # {} /\ f \in same) /\ (same # {} \/ full \/ poor)
  <2>1. MarkLocalOnly(f.key, inflight) /\ avail' = avail  BY <1>2 DEF Offer
  <2>2. /\ SenderTyped' /\ acks' \subseteq acks
        /\ net' = net \cup {DegradeFrame(f.key)}
        /\ inflight' = {g \in inflight : g.key # f.key}
    BY <2>1, <1>0, MarkLocalOnlyEffect
  <2> QED  BY <2>2
<1>3. CASE ~(same # {} /\ f \in same) /\ ~(same # {} \/ full \/ poor)
  <2>1. /\ inflight' = inflight \cup {f} /\ net' = net \cup {f}
        /\ avail' = IF f.type = "put" THEN avail - 1 ELSE avail
        /\ localOnly' = localOnly /\ acks' = acks
    BY <1>3 DEF Offer
  <2>2. ~full /\ ~poor  BY <1>3
  <2>3. Cardinality(inflight) \in Nat  BY FS_CardinalityType DEF SenderTyped
  <2>4. /\ IsFiniteSet(inflight')
        /\ Cardinality(inflight') = IF f \in inflight THEN Cardinality(inflight) ELSE Cardinality(inflight) + 1
    BY <2>1, FS_AddElement DEF SenderTyped
  <2>5. Cardinality(inflight') <= MaxInflight  BY <2>2, <2>3, <2>4, Constants
  <2>6. avail' \in 0 .. MaxStaged  BY <2>1, <2>2, Constants DEF SenderTyped
  <2>7. SenderTyped'  BY <2>1, <2>4, <2>5, <2>6 DEF SenderTyped
  <2> QED  BY <2>1, <2>7
<1> QED  BY <1>1, <1>2, <1>3

\* The sender's steps keep the types, and never name the receiver's state.
LEMMA SenderSteps ==
  ASSUME Typed,
         \/ \E k \in Keys : \/ OfferNext(k) \/ Restart(k)
                           \/ \E says \in BOOLEAN : GiveUp(k, says)
         \/ \E a \in acks : Acknowledge(a)
         \/ \E j \in 1 .. MaxCredits : ApplyCredit(j)
         \/ \E f \in net : Damage(f)
  PROVE  SenderTyped' /\ WireTyped' /\ UNCHANGED receiver
<1>0. SenderTyped /\ WireTyped /\ acks \subseteq Acks  BY DEF Typed, WireTyped
<1>1. ASSUME NEW k \in Keys, OfferNext(k)  PROVE SenderTyped' /\ WireTyped' /\ UNCHANGED receiver
  <2>1. driver[k].at \in 0 .. Size[k] + 1 /\ driver[k].ctx \in Contexts
    BY <1>1, <1>0 DEF OfferNext, WireTyped
  <2>2. FrameOK(FrameAt(k, driver[k].at, driver[k].ctx))  BY <2>1, FrameAtOK
  <2>3. SenderTyped' /\ acks' \subseteq acks  BY <2>2, <1>0, <1>1, OfferEffect DEF OfferNext
  <2>4. driver' \in [Keys -> [at : Int, ctx : Contexts]] /\ credits' = credits
    <3>1. /\ driver' = [driver EXCEPT ![k].at = @ + 1] /\ credits' = credits
          /\ driver \in [Keys -> [at : Int, ctx : Contexts]]
      BY <1>1, <1>0 DEF OfferNext, WireTyped
    <3>2. driver[k].at \in Int /\ driver[k].at + 1 \in Int  BY <3>1
    <3> QED  BY <3>1, <3>2
  <2> QED  BY <1>0, <1>1, <2>3, <2>4 DEF OfferNext, WireTyped
<1>2. ASSUME NEW k \in Keys, Restart(k)  PROVE SenderTyped' /\ WireTyped' /\ UNCHANGED receiver
  BY <1>0, <1>2 DEF Restart, SenderTyped, WireTyped, sender, receiver, Contexts
<1>3. ASSUME NEW k \in Keys, NEW says \in BOOLEAN, GiveUp(k, says)
      PROVE SenderTyped' /\ WireTyped' /\ UNCHANGED receiver
  <2>1. SenderTyped' /\ acks' \subseteq acks
    <3>1. CASE says
      <4>1. Offer(CancelFrame(k))  BY <1>3, <3>1 DEF GiveUp
      <4> QED  BY <4>1, <1>0, AbortFrameOK, OfferEffect
    <3>2. CASE ~says
      BY <1>0, <1>3, <3>2 DEF GiveUp, sender, SenderTyped
    <3> QED  BY <3>1, <3>2
  <2>2. driver' \in [Keys -> [at : Int, ctx : Contexts]] /\ credits' = credits
    BY <1>0, <1>3 DEF GiveUp, WireTyped, Done
  <2> QED  BY <1>0, <1>3, <2>1, <2>2 DEF GiveUp, WireTyped
<1>4. ASSUME NEW a \in acks, Acknowledge(a)  PROVE SenderTyped' /\ WireTyped' /\ UNCHANGED receiver
  <2> DEFINE named == {f \in inflight : f.key = a.key /\ f.seq = a.seq}
  <2>0. a.key \in Keys  BY <1>0 DEF Acks
  <2>1. CASE a.refused
    <3>1. MarkLocalOnly(a.key, inflight \ named) /\ avail' = avail  BY <1>4, <2>1 DEF Acknowledge
    <3>2. inflight \ named \in SUBSET inflight  OBVIOUS
    <3> HIDE DEF named
    <3>3. SenderTyped' /\ acks' \subseteq acks
      BY <3>1, <3>2, <2>0, <1>0, MarkLocalOnlyEffect
    <3> QED  BY <3>3, <1>0, <1>4 DEF Acknowledge, WireTyped
  <2>2. CASE ~a.refused
    <3>1. /\ inflight' \in SUBSET inflight /\ localOnly' = localOnly /\ net' = net
          /\ acks' \subseteq acks /\ avail' = avail
      BY <1>4, <2>2 DEF Acknowledge
    <3>2. IsFiniteSet(inflight') /\ Cardinality(inflight') <= Cardinality(inflight)
      BY <3>1, <1>0, FS_Subset DEF SenderTyped
    <3>3. Cardinality(inflight') \in Nat /\ Cardinality(inflight) \in Nat
      BY <3>2, <1>0, FS_CardinalityType DEF SenderTyped
    <3>4. SenderTyped'  BY <3>1, <3>2, <3>3, <1>0, Constants DEF SenderTyped
    <3> QED  BY <3>1, <3>4, <1>0, <1>4 DEF Acknowledge, WireTyped
  <2> QED  BY <2>1, <2>2
<1>5. ASSUME NEW j \in 1 .. MaxCredits, ApplyCredit(j)
      PROVE SenderTyped' /\ WireTyped' /\ UNCHANGED receiver
  <2>1. j \in 1 .. Len(credits) /\ Len(credits) \in Nat  BY <1>5, <1>0 DEF ApplyCredit, WireTyped
  <2>2. credits[j] \in 0 .. MaxStaged  BY <2>1, <1>0, ElementOfSeq DEF WireTyped
  <2>3. SubSeq(credits, j + 1, Len(credits)) \in Seq(0 .. MaxStaged)
    <3>1. \A i \in j + 1 .. Len(credits) : credits[i] \in 0 .. MaxStaged
      <4>1. ASSUME NEW i \in j + 1 .. Len(credits)  PROVE credits[i] \in 0 .. MaxStaged
        <5>1. i \in 1 .. Len(credits)  BY <2>1
        <5> QED  BY <5>1, <1>0, ElementOfSeq DEF WireTyped
      <4> QED  BY <4>1
    <3>2. j + 1 \in Int /\ Len(credits) \in Int  BY <2>1
    <3> QED  BY <3>1, <3>2, SubSeqProperties
  <2> QED  BY <2>2, <2>3, <1>0, <1>5 DEF ApplyCredit, SenderTyped, WireTyped
<1>6. ASSUME NEW f \in net, Damage(f)  PROVE SenderTyped' /\ WireTyped' /\ UNCHANGED receiver
  <2>1. FrameOK([f EXCEPT !.fine = FALSE])  BY <1>0 DEF SenderTyped, FrameOK, Frames
  <2> QED  BY <2>1, <1>0, <1>6 DEF Damage, SenderTyped, WireTyped, sender
<1> QED  BY <1>1, <1>2, <1>3, <1>4, <1>5, <1>6
-----------------------------------------------------------------------------
LEMMA InChunks ==
  ASSUME NEW a, NEW p
  PROVE  p \in Chunks(a) <=> \E x \in DOMAIN a : \E i \in DOMAIN a[x].chunks : p = <<x, i>>
<1> DEFINE parts(x) == {x} \X DOMAIN a[x].chunks
<1>1. p \in Chunks(a) <=> \E x \in DOMAIN a : p \in parts(x)  BY DEF Chunks
<1>2. ASSUME NEW x  PROVE p \in parts(x) <=> \E i \in DOMAIN a[x].chunks : p = <<x, i>>
  OBVIOUS
<1> HIDE DEF parts
<1> QED  BY <1>1, <1>2

\* Dropping transactions frees what they staged.
LEMMA FewerChunks ==
  ASSUME ReceiverTyped, NEW D \in SUBSET Open, NEW a, a = [x \in D |-> active[x]]
  PROVE  /\ D \subseteq Keys /\ IsFiniteSet(D) /\ Cardinality(D) <= MaxActive
         /\ DOMAIN a = D /\ a \in [D -> Transactions]
         /\ IsFiniteSet(Chunks(a)) /\ Staged(a) \in 0 .. MaxStaged
<1>1. IsFiniteSet(D) /\ Cardinality(D) <= Cardinality(Open)  BY FS_Subset DEF ReceiverTyped
<1>2. Cardinality(D) \in Nat /\ Cardinality(Open) \in Nat
  BY <1>1, FS_CardinalityType DEF ReceiverTyped
<1>3. DOMAIN a = D /\ a \in [D -> Transactions] /\ \A x \in D : a[x] = active[x]
  BY DEF ReceiverTyped
<1>4. Chunks(a) \in SUBSET Chunks(active)
  <2> SUFFICES ASSUME NEW p \in Chunks(a)  PROVE p \in Chunks(active)  OBVIOUS
  <2>1. PICK x \in D : \E i \in DOMAIN a[x].chunks : p = <<x, i>>  BY <1>3, InChunks
  <2>2. x \in Open /\ \E i \in DOMAIN active[x].chunks : p = <<x, i>>  BY <1>3, <2>1
  <2> QED  BY <2>2, InChunks DEF Open
<1>5. IsFiniteSet(Chunks(a)) /\ Cardinality(Chunks(a)) <= Cardinality(Chunks(active))
  BY <1>4, FS_Subset DEF ReceiverTyped
<1>6. Cardinality(Chunks(a)) \in Nat /\ Cardinality(Chunks(active)) \in Nat
  BY <1>5, FS_CardinalityType DEF ReceiverTyped
<1>7. Staged(a) \in 0 .. MaxStaged
  BY <1>5, <1>6, Constants DEF Staged, ReceiverTyped
<1>8. Cardinality(D) <= MaxActive  BY <1>1, <1>2, Constants DEF ReceiverTyped
<1> QED  BY <1>1, <1>3, <1>5, <1>7, <1>8 DEF ReceiverTyped

LEMMA DropTyped ==
  ASSUME ReceiverTyped, NEW k
  PROVE  /\ DOMAIN Drop(k) = Open \ {k} /\ \A x \in Open \ {k} : Drop(k)[x] = active[x]
         /\ Drop(k) \in [Open \ {k} -> Transactions]
         /\ IsFiniteSet(Open \ {k}) /\ Cardinality(Open \ {k}) <= MaxActive
         /\ IsFiniteSet(Chunks(Drop(k))) /\ Staged(Drop(k)) \in 0 .. MaxStaged
<1>1. Open \ {k} \in SUBSET Open /\ Drop(k) = [x \in Open \ {k} |-> active[x]]  BY DEF Drop
<1>2. \A x \in Open \ {k} : Drop(k)[x] = active[x]  BY <1>1
<1> HIDE DEF Drop
<1> QED  BY <1>1, <1>2, FewerChunks

\* The answers to a frame: each is about a frame in flight with its key and sequence.
LEMMA RespondEffect ==
  ASSUME Typed, NEW f \in net, NEW status, NEW a, Staged(a) \in 0 .. MaxStaged,
         Respond(f, status, a)
  PROVE  /\ acks' \subseteq Acks /\ credits' \in Seq(0 .. MaxStaged)
         /\ \A b \in acks' : \/ b \in acks
                             \/ /\ b.key = f.key /\ b.seq = f.seq
                                /\ b.refused <=> status \in {"rejected", "aborted"}
<1> DEFINE refused == status \in {"rejected", "aborted"}
           sent == {h \in inflight : h.key = f.key /\ h.seq = f.seq}
<1>1. acks' = acks \cup {[key |-> g.key, seq |-> g.seq, refused |-> refused] : g \in sent}
  BY DEF Respond
<1>2. refused \in BOOLEAN  OBVIOUS
<1>3. \A g \in sent : g.key = f.key /\ g.seq = f.seq /\ g.key \in Keys /\ g.seq \in Nat
  BY DEF Typed, SenderTyped, FrameOK, Frames
<1>4. \A b \in acks' : \/ b \in acks
                       \/ b.key = f.key /\ b.seq = f.seq /\ b.refused = refused /\ b \in Acks
  <2> HIDE DEF refused, sent
  <2> SUFFICES ASSUME NEW g \in sent, NEW b, b = [key |-> g.key, seq |-> g.seq, refused |-> refused]
               PROVE  b.key = f.key /\ b.seq = f.seq /\ b.refused = refused /\ b \in Acks
    BY <1>1
  <2> QED  BY <1>2, <1>3 DEF Acks
<1>5. credits' \in Seq(0 .. MaxStaged)
  <2> DEFINE all == Append(credits, MaxStaged - Staged(a))
  <2>1. MaxStaged - Staged(a) \in 0 .. MaxStaged  BY Constants
  <2>2. all \in Seq(0 .. MaxStaged) /\ all # <<>>
    BY <2>1, AppendProperties DEF Typed, WireTyped
  <2>3. credits' = IF Len(all) > MaxCredits THEN Tail(all) ELSE all  BY DEF Respond
  <2> HIDE DEF all
  <2> QED  BY <2>2, <2>3, HeadTailProperties
<1> QED  BY <1>4, <1>5 DEF Typed, WireTyped

\* A new transaction has no chunks yet.
LEMMA OpenTyped ==
  ASSUME ReceiverTyped, NEW D \in SUBSET Open, NEW k \in Keys \ D, NEW tx \in Transactions,
         DOMAIN tx.chunks = {}, Cardinality(D) < MaxActive,
         NEW a, a = [x \in D \cup {k} |-> IF x = k THEN tx ELSE active[x]]
  PROVE  /\ DOMAIN a = D \cup {k} /\ DOMAIN a \subseteq Keys /\ IsFiniteSet(DOMAIN a)
         /\ Cardinality(DOMAIN a) <= MaxActive
         /\ a \in [DOMAIN a -> Transactions]
         /\ IsFiniteSet(Chunks(a)) /\ Staged(a) \in 0 .. MaxStaged
<1> DEFINE old == [x \in D |-> active[x]]
<1>1. /\ D \subseteq Keys /\ IsFiniteSet(D) /\ DOMAIN old = D
      /\ IsFiniteSet(Chunks(old)) /\ Staged(old) \in 0 .. MaxStaged
  BY FewerChunks
<1>2. Chunks(a) = Chunks(old)
  <2>1. \A x \in D : x # k /\ a[x] = old[x]  OBVIOUS
  <2>2. DOMAIN a = D \cup {k} /\ a[k] = tx  OBVIOUS
  <2>3. {k} \X DOMAIN a[k].chunks = {}  BY <2>2
  <2> HIDE DEF old
  <2>4. Chunks(a) = (UNION {{x} \X DOMAIN a[x].chunks : x \in D}) \cup ({k} \X DOMAIN a[k].chunks)
    BY <2>2 DEF Chunks
  <2>5. UNION {{x} \X DOMAIN a[x].chunks : x \in D} = Chunks(old)  BY <2>1, <1>1 DEF Chunks
  <2> QED  BY <2>3, <2>4, <2>5
<1>3. IsFiniteSet(D \cup {k}) /\ Cardinality(D \cup {k}) = Cardinality(D) + 1
  BY <1>1, FS_AddElement
<1>4. Cardinality(D) \in Nat  BY <1>1, FS_CardinalityType
<1>5. Staged(a) = Staged(old)  BY <1>2 DEF Staged
<1>6. a \in [D \cup {k} -> Transactions] /\ DOMAIN a = D \cup {k}  BY DEF ReceiverTyped
<1> HIDE DEF old
<1> QED  BY <1>1, <1>2, <1>3, <1>4, <1>5, <1>6, Constants

LEMMA OneMoreChunk ==
  ASSUME NEW a, NEW b, NEW k \in DOMAIN a, NEW i, DOMAIN b = DOMAIN a,
         DOMAIN b[k].chunks = DOMAIN a[k].chunks \cup {i},
         \A x \in DOMAIN a \ {k} : b[x] = a[x]
  PROVE  Chunks(b) = Chunks(a) \cup {<<k, i>>}
<1>1. ASSUME NEW p \in Chunks(b)  PROVE p \in Chunks(a) \/ p = <<k, i>>
  <2>1. PICK x \in DOMAIN a : \E n \in DOMAIN b[x].chunks : p = <<x, n>>  BY InChunks
  <2>2. PICK n \in DOMAIN b[x].chunks : p = <<x, n>>  BY <2>1
  <2>3. n \in DOMAIN a[x].chunks \/ (x = k /\ n = i)  BY <2>2
  <2>4. CASE n \in DOMAIN a[x].chunks  BY <2>2, <2>4, InChunks
  <2> QED  BY <2>2, <2>3, <2>4
<1>2. ASSUME NEW p \in Chunks(a)  PROVE p \in Chunks(b)
  <2>1. PICK x \in DOMAIN a : \E n \in DOMAIN a[x].chunks : p = <<x, n>>  BY InChunks
  <2>2. PICK n \in DOMAIN a[x].chunks : p = <<x, n>>  BY <2>1
  <2>3. x \in DOMAIN b /\ n \in DOMAIN b[x].chunks  BY <2>2
  <2> QED  BY <2>2, <2>3, InChunks
<1>3. <<k, i>> \in Chunks(b)
  <2>1. k \in DOMAIN b /\ i \in DOMAIN b[k].chunks  OBVIOUS
  <2> QED  BY <2>1, InChunks
<1> QED  BY <1>1, <1>2, <1>3

\* A chunk that is staged counts against the limit.
LEMMA GrowTyped ==
  ASSUME ReceiverTyped, NEW k \in Open, NEW i, stream \/ Staged(active) + 1 <= MaxStaged,
         NEW a, DOMAIN a = Open, DOMAIN a[k].chunks = DOMAIN active[k].chunks \cup {i},
         \A x \in Open \ {k} : a[x] = active[x]
  PROVE  IsFiniteSet(Chunks(a)) /\ Staged(a) \in 0 .. MaxStaged
<1>1. Chunks(a) = Chunks(active) \cup {<<k, i>>}
  <2>1. /\ k \in DOMAIN active /\ DOMAIN a = DOMAIN active
        /\ \A x \in DOMAIN active \ {k} : a[x] = active[x]
    BY DEF Open
  <2>2. DOMAIN a[k].chunks = DOMAIN active[k].chunks \cup {i}  OBVIOUS
  <2>3. \A b, c : /\ k \in DOMAIN b /\ DOMAIN c = DOMAIN b
                  /\ DOMAIN c[k].chunks = DOMAIN b[k].chunks \cup {i}
                  /\ \A x \in DOMAIN b \ {k} : c[x] = b[x]
                  => Chunks(c) = Chunks(b) \cup {<<k, i>>}
    BY OneMoreChunk
  <2> QED  BY <2>1, <2>2, <2>3
<1> DEFINE S == Chunks(active)
<1>2. IsFiniteSet(S)  BY DEF ReceiverTyped
<1>3. Chunks(a) = S \cup {<<k, i>>}  BY <1>1
<1> HIDE DEF S
<1>4. /\ IsFiniteSet(Chunks(a))
      /\ Cardinality(Chunks(a)) = IF <<k, i>> \in S THEN Cardinality(S) ELSE Cardinality(S) + 1
  BY <1>2, <1>3, FS_AddElement
<1>5. Cardinality(S) \in Nat  BY <1>2, FS_CardinalityType
<1>6. Cardinality(Chunks(a)) \in Nat /\ Cardinality(Chunks(a)) <= Cardinality(S) + 1  BY <1>4, <1>5
<1>7. CASE stream
  <2>1. Staged(a) = 0  BY <1>7 DEF Staged
  <2> QED  BY <1>4, <2>1, Constants
<1>8. CASE ~stream
  <2>1. Cardinality(S) + 1 <= MaxStaged  BY <1>8 DEF Staged, S
  <2>2. Staged(a) = Cardinality(Chunks(a))  BY <1>8 DEF Staged
  <2> QED  BY <1>4, <1>5, <1>6, <2>1, <2>2, Constants
<1> QED  BY <1>4, <1>7, <1>8
-----------------------------------------------------------------------------
(* The receiver's steps: one lemma per handler says what it does to the state. *)

LEMMA FrameFields ==
  ASSUME Typed, NEW f \in net
  PROVE  /\ FrameOK(f) /\ f \in Frames /\ f.key \in Keys /\ f.index \in Nat /\ f.ctx \in Contexts
         /\ f.seq \in Nat
BY DEF Typed, SenderTyped, FrameOK, Frames

\* What every handler leaves alone, and what it may answer.
HandlerFrame == UNCHANGED <<stream, avail, inflight, localOnly, driver, net>>

ActiveOK(a) ==
    /\ DOMAIN a \subseteq Keys /\ IsFiniteSet(DOMAIN a) /\ Cardinality(DOMAIN a) <= MaxActive
    /\ a \in [DOMAIN a -> Transactions]
    /\ IsFiniteSet(Chunks(a)) /\ Staged(a) \in 0 .. MaxStaged

LEMMA HandlerTyped ==
  ASSUME Typed, HandlerFrame, NEW f \in net, NEW status, Respond(f, status, active'), ActiveOK(active'),
         committed' \in Seq([key : Keys, ctx : Contexts]), Len(committed') <= RecentCommits,
         replicas' \in Seq(Keys \X Contents)
  PROVE  Typed'
<1>1. Staged(active)' = Staged(active')  BY DEF Staged, HandlerFrame, Chunks
<1>2. (Open)' = DOMAIN active' /\ Chunks(active)' = Chunks(active')  BY DEF Open, Chunks
<1>3. ReceiverTyped'
  BY <1>1, <1>2 DEF Typed, ReceiverTyped, HandlerFrame, ActiveOK
<1>4. acks' \subseteq Acks /\ credits' \in Seq(0 .. MaxStaged)
  BY RespondEffect DEF ActiveOK
<1> QED  BY <1>3, <1>4 DEF WireTyped, SenderTyped, Typed, HandlerFrame

LEMMA ActiveKept ==
  ASSUME Typed, NEW k
  PROVE  ActiveOK(active) /\ ActiveOK(Drop(k)) /\ DOMAIN Drop(k) = Open \ {k}
<1>0. ReceiverTyped  BY DEF Typed
<1>1. ActiveOK(active)  BY <1>0 DEF ReceiverTyped, Open, ActiveOK
<1>2. /\ DOMAIN Drop(k) = Open \ {k} /\ Drop(k) \in [Open \ {k} -> Transactions]
      /\ IsFiniteSet(Open \ {k}) /\ Cardinality(Open \ {k}) <= MaxActive
      /\ IsFiniteSet(Chunks(Drop(k))) /\ Staged(Drop(k)) \in 0 .. MaxStaged
  BY <1>0, DropTyped
<1>3. ActiveOK(Drop(k))  BY <1>2, <1>0 DEF ReceiverTyped, ActiveOK
<1> QED  BY <1>1, <1>2, <1>3

LEMMA BeginEffect ==
  ASSUME Typed, NEW f \in net, ReceiveBegin(f)
  PROVE  /\ Typed' /\ HandlerFrame
         /\ committed' = committed /\ replicas' = replicas
         /\ ~Stale(f) /\ f.type = "begin"
         /\ \/ latest' = latest /\ DOMAIN active' \subseteq Open
            \/ /\ latest' = RememberGeneration(f.key[1], f.key[2], active')
               /\ f.key \notin Open
               /\ DOMAIN active' = {f.key} \cup (IF f.key[2] > Latest(f.key[1])
                                                 THEN Open \ {<<f.key[1], Latest(f.key[1])>>} ELSE Open)
         /\ \E status : Respond(f, status, active')
<1> DEFINE k == f.key
           older == <<k[1], Latest(k[1])>>
           kept == IF k[2] > Latest(k[1]) THEN Drop(older) ELSE active
           tx == [ctx |-> f.ctx, chunks |-> <<>>, seqs |-> {<<0, f>>}]
           room == Cardinality(DOMAIN kept) < MaxActive
           new == [x \in DOMAIN kept \cup {k} |-> IF x = k THEN tx ELSE kept[x]]
<1>0. /\ committed' = committed /\ replicas' = replicas /\ HandlerFrame /\ ~Stale(f)
      /\ f.type = "begin" /\ ReceiverTyped
  BY DEF ReceiveBegin, Quiet, sender, HandlerFrame, Typed
<1>1. f \in Frames /\ k \in Keys /\ f.ctx \in Contexts  BY FrameFields
<1>2. /\ DOMAIN kept \subseteq Open /\ \A x \in DOMAIN kept : kept[x] = active[x]
      /\ DOMAIN kept = IF k[2] > Latest(k[1]) THEN Open \ {older} ELSE Open
      /\ kept = [x \in DOMAIN kept |-> active[x]]
  <2>1. CASE k[2] > Latest(k[1])  BY <2>1 DEF Drop
  <2>2. CASE ~(k[2] > Latest(k[1]))
    <3>1. kept = active  BY <2>2
    <3>2. active = [x \in Open |-> active[x]]  BY <1>0 DEF ReceiverTyped
    <3> QED  BY <3>1, <3>2, <2>2 DEF Open
  <2> QED  BY <2>1, <2>2
<1>3. tx \in Transactions /\ DOMAIN tx.chunks = {}
  <2>1. <<>> \in [{} -> Contexts] /\ DOMAIN <<>> = {}  BY EmptySeq
  <2>2. <<>> \in ChunkMaps
    <3>1. {} \in SUBSET Nat  OBVIOUS
    <3> QED  BY <2>1, <3>1 DEF ChunkMaps
  <2>3. {<<0, f>>} \in SUBSET (Nat \X Frames)  BY <1>1
  <2> QED  BY <1>1, <2>1, <2>2, <2>3 DEF Transactions
<1>4. /\ IsFiniteSet(DOMAIN kept) /\ Cardinality(DOMAIN kept) <= MaxActive
      /\ kept \in [DOMAIN kept -> Transactions] /\ DOMAIN kept \subseteq Keys
      /\ IsFiniteSet(Chunks(kept)) /\ Staged(kept) \in 0 .. MaxStaged
  <2>1. DOMAIN kept \in SUBSET Open  BY <1>2
  <2> HIDE DEF kept
  <2> QED  BY <1>0, <1>2, <2>1, FewerChunks
<1>5. ASSUME k \notin Open, room
      PROVE  /\ DOMAIN new = DOMAIN kept \cup {k} /\ DOMAIN new \subseteq Keys
             /\ IsFiniteSet(DOMAIN new) /\ Cardinality(DOMAIN new) <= MaxActive
             /\ new \in [DOMAIN new -> Transactions]
             /\ IsFiniteSet(Chunks(new)) /\ Staged(new) \in 0 .. MaxStaged
  <2>1. DOMAIN kept \in SUBSET Open /\ k \in Keys \ DOMAIN kept  BY <1>1, <1>2, <1>5
  <2>2. new = [x \in DOMAIN kept \cup {k} |-> IF x = k THEN tx ELSE active[x]]  BY <1>2
  <2> HIDE DEF kept, new, tx, k
  <2> QED  BY <1>0, <1>3, <1>5, <2>1, <2>2, OpenTyped
<1>6. ActiveOK(kept) /\ ActiveOK(active) /\ ActiveOK(Drop(k)) /\ DOMAIN Drop(k) = Open \ {k}
  BY <1>4, ActiveKept DEF ActiveOK
<1>7. \/ active' = active /\ latest' = latest
      \/ active' = Drop(k) /\ latest' = latest
      \/ active' = kept /\ latest' = latest
      \/ k \notin Open /\ room /\ active' = new /\ latest' = RememberGeneration(k[1], k[2], new)
  BY DEF ReceiveBegin
<1>8. \E status : Respond(f, status, active')
  BY DEF ReceiveBegin
<1>9. ActiveOK(active')
  <2> HIDE DEF kept, new, room
  <2>1. k \notin Open /\ room => ActiveOK(new)  BY <1>5 DEF ActiveOK
  <2> QED  BY <1>6, <1>7, <2>1
<1>10. Typed'
  BY <1>0, <1>8, <1>9, HandlerTyped DEF Typed, ReceiverTyped
<1>11. \/ latest' = latest /\ DOMAIN active' \subseteq Open
       \/ /\ latest' = RememberGeneration(k[1], k[2], active') /\ k \notin Open
          /\ DOMAIN active' = {k} \cup (IF k[2] > Latest(k[1]) THEN Open \ {older} ELSE Open)
  <2>1. DOMAIN new = DOMAIN kept \cup {k}  OBVIOUS
  <2> HIDE DEF kept, new, room
  <2> QED  BY <1>2, <1>6, <1>7, <2>1 DEF Open
<1> QED  BY <1>0, <1>8, <1>10, <1>11

LEMMA AbortEffect ==
  ASSUME Typed, NEW f \in net, ReceiveAbort(f)
  PROVE  /\ Typed' /\ HandlerFrame /\ f.type = "abort" /\ DOMAIN active' \subseteq Open
         /\ UNCHANGED <<latest, committed, replicas>>
         /\ \E status : Respond(f, status, active')
<1>1. /\ HandlerFrame /\ f.type = "abort" /\ active' = Drop(f.key)
      /\ UNCHANGED <<latest, committed, replicas>>
      /\ \E status : Respond(f, status, active')
  BY DEF ReceiveAbort, Quiet, sender, HandlerFrame
<1>2. ActiveOK(active') /\ DOMAIN active' \subseteq Open  BY <1>1, ActiveKept
<1> QED  BY <1>1, <1>2, HandlerTyped DEF Typed, ReceiverTyped

LEMMA ExpireEffect ==
  ASSUME Typed, NEW k, ExpireInactive(k)
  PROVE  /\ Typed' /\ HandlerFrame /\ DOMAIN active' \subseteq Open
         /\ UNCHANGED <<latest, committed, replicas, acks, credits>>
<1>1. /\ HandlerFrame /\ active' = Drop(k) /\ UNCHANGED <<latest, committed, replicas, acks, credits>>
  BY DEF ExpireInactive, Quiet, sender, HandlerFrame
<1>2. ActiveOK(active') /\ DOMAIN active' \subseteq Open  BY <1>1, ActiveKept
<1>3. Staged(active)' = Staged(active')  BY <1>1 DEF Staged, HandlerFrame, Chunks
<1>4. (Open)' = DOMAIN active' /\ Chunks(active)' = Chunks(active')  BY DEF Open, Chunks
<1>5. ReceiverTyped'
  BY <1>1, <1>2, <1>3, <1>4 DEF Typed, ReceiverTyped, HandlerFrame, ActiveOK
<1> QED  BY <1>1, <1>2, <1>5 DEF WireTyped, SenderTyped, Typed, HandlerFrame

\* A COMMIT publishes what the transaction holds, as a whole, once.
Publishes(f, breaks) ==
    Committed(f.key) = {} /\ f.key \in Open /\ Sealed(f, active[f.key]) /\ ~breaks

LEMMA CommitEffect ==
  ASSUME Typed, NEW f \in net, NEW breaks \in BOOLEAN, ReceiveCommit(f, breaks)
  PROVE  /\ Typed' /\ HandlerFrame /\ latest' = latest /\ DOMAIN active' \subseteq Open
         /\ f.type = "commit" /\ ~Stale(f)
         /\ Publishes(f, breaks) => /\ committed' = Remember(committed, [key |-> f.key, ctx |-> f.ctx], RecentCommits)
                                    /\ replicas' = Append(replicas, <<f.key, Whole(f.key, f.ctx)>>)
                                    /\ f.fine
         /\ ~Publishes(f, breaks) => committed' = committed /\ replicas' = replicas
         /\ Respond(f, CommitStatus(f, Publishes(f, breaks)), active')
<1>0. /\ HandlerFrame /\ latest' = latest /\ f.type = "commit" /\ ~Stale(f)
  BY DEF ReceiveCommit, Quiet, sender, HandlerFrame
<1>1. f.key \in Keys /\ f.ctx \in Contexts  BY FrameFields
<1>2. Publishes(f, breaks) =>
        /\ committed' = Remember(committed, [key |-> f.key, ctx |-> f.ctx], RecentCommits)
        /\ replicas' = Append(replicas, <<f.key, [ctx |-> active[f.key].ctx, chunks |-> active[f.key].chunks]>>)
  BY DEF ReceiveCommit, Publishes
<1>3. ~Publishes(f, breaks) => committed' = committed /\ replicas' = replicas
  BY DEF ReceiveCommit, Publishes
<1>4. Publishes(f, breaks) => [ctx |-> active[f.key].ctx, chunks |-> active[f.key].chunks] = Whole(f.key, f.ctx)
  <2> SUFFICES ASSUME Publishes(f, breaks)
               PROVE  [ctx |-> active[f.key].ctx, chunks |-> active[f.key].chunks] = Whole(f.key, f.ctx)
    OBVIOUS
  <2>1. active[f.key] \in Transactions  BY DEF Publishes, Typed, ReceiverTyped
  <2>2. PICK D \in SUBSET Nat : active[f.key].chunks \in [D -> Contexts]
    BY <2>1 DEF Transactions, ChunkMaps
  <2>3. /\ active[f.key].ctx = f.ctx /\ DOMAIN active[f.key].chunks = 1 .. Size[f.key]
        /\ \A i \in DOMAIN active[f.key].chunks : active[f.key].chunks[i] = f.ctx
    BY DEF Publishes, Sealed
  <2>4. active[f.key].chunks = [i \in 1 .. Size[f.key] |-> f.ctx]  BY <2>2, <2>3
  <2> QED  BY <2>3, <2>4 DEF Whole
<1>5. ActiveOK(active') /\ DOMAIN active' \subseteq Open
  <2>1. active' = active \/ active' = Drop(f.key)  BY DEF ReceiveCommit
  <2> QED  BY <2>1, ActiveKept DEF Open
<1>6. Respond(f, CommitStatus(f, Publishes(f, breaks)), active')
  <2>1. Respond(f, CommitStatus(f, (Committed(f.key) = {} /\ f.key \in Open /\ Sealed(f, active[f.key])) /\ ~breaks), active')
    BY DEF ReceiveCommit
  <2> QED  BY <2>1 DEF Publishes
<1>7. /\ committed' \in Seq([key : Keys, ctx : Contexts]) /\ Len(committed') <= RecentCommits
      /\ replicas' \in Seq(Keys \X Contents)
  <2>1. CASE Publishes(f, breaks)
    <3>1. [key |-> f.key, ctx |-> f.ctx] \in [key : Keys, ctx : Contexts]  BY <1>1
    <3>2. <<f.key, Whole(f.key, f.ctx)>> \in Keys \X Contents  BY <1>1 DEF Contents
    <3>3. /\ committed' \in Seq([key : Keys, ctx : Contexts]) /\ Len(committed') <= RecentCommits
      <4> DEFINE S == [key : Keys, ctx : Contexts]
                 e == [key |-> f.key, ctx |-> f.ctx]
      <4>1. committed \in Seq(S) /\ Len(committed) <= RecentCommits /\ RecentCommits \in Nat \ {0}
        BY Constants DEF Typed, ReceiverTyped
      <4>2. e \in S /\ committed' = Remember(committed, e, RecentCommits)  BY <1>2, <2>1, <3>1
      <4> HIDE DEF S, e
      <4>3. committed' \in Seq(S) /\ Len(committed') <= RecentCommits  BY <4>1, <4>2, RememberType
      <4> QED  BY <4>3 DEF S
    <3>4. replicas' \in Seq(Keys \X Contents)
      <4> DEFINE e == <<f.key, Whole(f.key, f.ctx)>>
      <4>1. replicas' = Append(replicas, e)  BY <1>2, <1>4, <2>1
      <4>2. replicas \in Seq(Keys \X Contents)  BY DEF Typed, ReceiverTyped
      <4>3. e \in Keys \X Contents  BY <3>2
      <4> HIDE DEF e
      <4> QED  BY <4>1, <4>2, <4>3, AppendProperties
    <3> QED  BY <3>3, <3>4
  <2>2. CASE ~Publishes(f, breaks)  BY <1>3, <2>2 DEF Typed, ReceiverTyped
  <2> QED  BY <2>1, <2>2
<1>8. Typed'
  BY <1>0, <1>5, <1>6, <1>7, HandlerTyped
<1>9. Publishes(f, breaks) => f.fine  BY DEF Publishes, Sealed
<1>10. Publishes(f, breaks) => replicas' = Append(replicas, <<f.key, Whole(f.key, f.ctx)>>)  BY <1>2, <1>4
<1> QED  BY <1>0, <1>2, <1>3, <1>5, <1>6, <1>8, <1>9, <1>10, Zenon

LEMMA StaleEffect ==
  ASSUME Typed, NEW f \in net, ReceiveStale(f)
  PROVE  /\ Typed' /\ HandlerFrame /\ Respond(f, "rejected", active')
         /\ UNCHANGED <<active, latest, committed, replicas>>
<1>1. /\ HandlerFrame /\ Respond(f, "rejected", active') /\ UNCHANGED <<active, latest, committed, replicas>>
  BY DEF ReceiveStale, Quiet, sender, HandlerFrame
<1>2. ActiveOK(active')  BY <1>1, ActiveKept
<1> QED  BY <1>1, <1>2, HandlerTyped DEF Typed, ReceiverTyped

LEMMA PutEffect ==
  ASSUME Typed, NEW f \in net, NEW breaks \in BOOLEAN, ReceivePut(f, breaks)
  PROVE  /\ Typed' /\ HandlerFrame /\ f.type = "put" /\ DOMAIN active' \subseteq Open
         /\ UNCHANGED <<latest, committed, replicas>>
         /\ \E status : Respond(f, status, active')
<1>0. /\ HandlerFrame /\ f.type = "put" /\ UNCHANGED <<latest, committed, replicas>>
  BY DEF ReceivePut, Quiet, sender, HandlerFrame
<1>1. \E status : Respond(f, status, active')  BY DEF ReceivePut
<1>2. ActiveOK(active') /\ DOMAIN active' \subseteq Open
  <2>1. CASE f.key \notin Open
    <3>1. active' = active  BY <2>1 DEF ReceivePut
    <3> QED  BY <3>1, ActiveKept DEF Open
  <2>2. CASE f.key \in Open
    <3> DEFINE tx == active[f.key]
               status == IF breaks THEN "aborted" ELSE PutStatus(f, tx)
               chunks == [i \in DOMAIN tx.chunks \cup {f.index} |->
                              IF i = f.index THEN f.ctx ELSE tx.chunks[i]]
               grown == [tx EXCEPT !.chunks = chunks, !.seqs = @ \cup {<<f.seq, f>>}]
    <3>1. \/ status = "ok" /\ active' = [active EXCEPT ![f.key] = grown]
          \/ active' = Drop(f.key)
          \/ active' = active
      BY <2>2 DEF ReceivePut
    <3>2. status = "ok" => stream \/ Staged(active) + 1 <= MaxStaged
      BY DEF PutStatus
    <3>3. grown \in Transactions /\ DOMAIN grown.chunks = DOMAIN tx.chunks \cup {f.index}
      <4>1. f \in Frames /\ f.index \in Nat /\ f.ctx \in Contexts /\ f.seq \in Nat  BY FrameFields
      <4>2. tx \in Transactions  BY <2>2 DEF Typed, ReceiverTyped
      <4>3. PICK D \in SUBSET Nat : tx.chunks \in [D -> Contexts]
        BY <4>2 DEF Transactions, ChunkMaps
      <4>4. /\ chunks \in [D \cup {f.index} -> Contexts] /\ D \cup {f.index} \in SUBSET Nat
            /\ DOMAIN chunks = DOMAIN tx.chunks \cup {f.index}
        BY <4>1, <4>3
      <4>5. chunks \in ChunkMaps  BY <4>4 DEF ChunkMaps
      <4>6. tx.seqs \cup {<<f.seq, f>>} \in SUBSET (Nat \X Frames)
        <5>1. <<f.seq, f>> \in Nat \X Frames  BY <4>1
        <5> QED  BY <4>2, <5>1 DEF Transactions
      <4> HIDE DEF tx, chunks
      <4> QED  BY <4>2, <4>4, <4>5, <4>6 DEF Transactions
    <3> DEFINE a == [active EXCEPT ![f.key] = grown]
    <3>4. status = "ok" => ActiveOK(a) /\ DOMAIN a = Open
      <4>1. /\ DOMAIN a = Open /\ a \in [Open -> Transactions] /\ a[f.key] = grown
            /\ \A x \in Open \ {f.key} : a[x] = active[x]
        <5> HIDE DEF grown
        <5> QED  BY <2>2, <3>3 DEF Typed, ReceiverTyped
      <4>2. DOMAIN a[f.key].chunks = DOMAIN active[f.key].chunks \cup {f.index}
        <5> HIDE DEF grown, a
        <5> QED  BY <3>3, <4>1
      <4> HIDE DEF a, status
      <4>3. status = "ok" => IsFiniteSet(Chunks(a)) /\ Staged(a) \in 0 .. MaxStaged
        BY <2>2, <3>2, <4>1, <4>2, GrowTyped DEF Typed
      <4> QED  BY <4>1, <4>3 DEF ActiveOK, Typed, ReceiverTyped
    <3> HIDE DEF status, a
    <3>5. ActiveOK(active) /\ ActiveOK(Drop(f.key)) /\ DOMAIN Drop(f.key) \subseteq Open  BY ActiveKept
    <3> QED  BY <3>1, <3>4, <3>5 DEF Open, a
  <2> QED  BY <2>1, <2>2
<1> QED  BY <1>0, <1>1, <1>2, HandlerTyped DEF Typed, ReceiverTyped
-----------------------------------------------------------------------------
LEMMA TypedInit ==
  ASSUME Init  PROVE Typed
<1>1. active = <<>> /\ Open = {}  BY DEF Init, Open
<1>2. active \in [Open -> Transactions]
  <2>1. <<>> \in [1 .. Len(<<>>) -> Transactions] /\ Len(<<>>) = 0  BY EmptySeq, LenProperties
  <2> QED  BY <1>1, <2>1
<1>3. IsFiniteSet({}) /\ Cardinality({}) = 0  BY FS_EmptySet
<1>4. Chunks(active) = {}  BY <1>1 DEF Chunks, Open
<1>5. Staged(active) \in 0 .. MaxStaged
  <2>1. Staged(active) = 0  BY <1>3, <1>4 DEF Staged
  <2> QED  BY <2>1, Constants
<1>6. ReceiverTyped
  <2>1. <<>> \in Seq([key : Keys, ctx : Contexts]) /\ <<>> \in Seq(Keys \X Contents) /\ Len(<<>>) = 0
    BY EmptySeq
  <2>2. stream \in BOOLEAN /\ committed = <<>> /\ replicas = <<>>  BY Constants DEF Init
  <2>3. Len(committed) <= RecentCommits  BY <2>1, <2>2, Constants
  <2>4. Open \subseteq Keys /\ IsFiniteSet(Open) /\ Cardinality(Open) <= MaxActive
    BY <1>1, <1>3, Constants
  <2>5. IsFiniteSet(Chunks(active))  BY <1>3, <1>4
  <2> QED  BY <1>2, <1>5, <2>1, <2>2, <2>3, <2>4, <2>5 DEF ReceiverTyped
<1>7. SenderTyped  BY <1>3, EmptySeq, Constants DEF Init, SenderTyped
<1>8. WireTyped
  <2>1. driver = [k \in Keys |-> [at |-> 0, ctx |-> 1]]  BY DEF Init
  <2>2. driver \in [Keys -> [at : Int, ctx : Contexts]]  BY <2>1 DEF Contexts
  <2> QED  BY <2>2, EmptySeq DEF Init, WireTyped
<1> QED  BY <1>6, <1>7, <1>8 DEF Typed

\* The steps that leave the receiver's state alone.
SenderStep ==
    \/ \E k \in Keys : \/ OfferNext(k) \/ Restart(k)
                      \/ \E says \in BOOLEAN : GiveUp(k, says)
    \/ \E a \in acks : Acknowledge(a)
    \/ \E j \in 1 .. MaxCredits : ApplyCredit(j)
    \/ \E f \in net : Damage(f)

LEMMA SenderStepTyped ==
  ASSUME Typed, SenderStep  PROVE Typed' /\ UNCHANGED receiver
<1>1. SenderTyped' /\ WireTyped' /\ UNCHANGED receiver  BY SenderSteps DEF SenderStep
<1>2. ReceiverTyped'
  BY <1>1 DEF Typed, receiver, ReceiverTyped, Open, Chunks, Staged
<1> QED  BY <1>1, <1>2 DEF Typed

LEMMA Steps ==
  ASSUME Next
  PROVE  \/ SenderStep
         \/ \E k \in Keys : ExpireInactive(k)
         \/ \E f \in net : \/ ReceiveStale(f) \/ ReceiveBegin(f) \/ ReceiveAbort(f)
                           \/ \E breaks \in BOOLEAN : ReceivePut(f, breaks)
                           \/ \E breaks \in BOOLEAN : ReceiveCommit(f, breaks)
BY DEF Next, SenderStep, Receive

LEMMA TypedStep ==
  ASSUME Typed, [Next]_vars  PROVE Typed'
<1>1. CASE SenderStep  BY <1>1, SenderStepTyped
<1>2. ASSUME NEW k \in Keys, ExpireInactive(k)  PROVE Typed'  BY <1>2, ExpireEffect
<1>3. ASSUME NEW f \in net, ReceiveStale(f)  PROVE Typed'  BY <1>3, StaleEffect
<1>4. ASSUME NEW f \in net, ReceiveBegin(f)  PROVE Typed'  BY <1>4, BeginEffect
<1>5. ASSUME NEW f \in net, ReceiveAbort(f)  PROVE Typed'  BY <1>5, AbortEffect
<1>6. ASSUME NEW f \in net, NEW breaks \in BOOLEAN, ReceivePut(f, breaks)  PROVE Typed'
  BY <1>6, PutEffect
<1>7. ASSUME NEW f \in net, NEW breaks \in BOOLEAN, ReceiveCommit(f, breaks)  PROVE Typed'
  BY <1>7, CommitEffect
<1>8. CASE UNCHANGED vars
  BY <1>8 DEF vars, receiver, sender, Typed, ReceiverTyped, SenderTyped, WireTyped, Open, Chunks, Staged
<1> QED  BY <1>1, <1>2, <1>3, <1>4, <1>5, <1>6, <1>7, <1>8, Steps

\* What a step does to the receiver, as far as the other invariants tell it apart: frames
\* stay in the net, and a step publishes only what a sound COMMIT names.
LEMMA ReceiverStep ==
  ASSUME Typed, [Next]_vars
  PROVE  \/ UNCHANGED <<committed, replicas>>
         \/ \E f \in net, breaks \in BOOLEAN : ReceiveCommit(f, breaks) /\ Publishes(f, breaks)
<1>1. CASE SenderStep  BY <1>1, SenderStepTyped DEF receiver
<1>2. ASSUME NEW k \in Keys, ExpireInactive(k)  PROVE UNCHANGED <<committed, replicas>>
  BY <1>2, ExpireEffect
<1>3. ASSUME NEW f \in net, ReceiveStale(f)  PROVE UNCHANGED <<committed, replicas>>
  BY <1>3, StaleEffect
<1>4. ASSUME NEW f \in net, ReceiveBegin(f)  PROVE UNCHANGED <<committed, replicas>>
  BY <1>4, BeginEffect
<1>5. ASSUME NEW f \in net, ReceiveAbort(f)  PROVE UNCHANGED <<committed, replicas>>
  BY <1>5, AbortEffect
<1>6. ASSUME NEW f \in net, NEW breaks \in BOOLEAN, ReceivePut(f, breaks)
      PROVE UNCHANGED <<committed, replicas>>
  BY <1>6, PutEffect
<1>7. ASSUME NEW f \in net, NEW breaks \in BOOLEAN, ReceiveCommit(f, breaks), ~Publishes(f, breaks)
      PROVE UNCHANGED <<committed, replicas>>
  BY <1>7, CommitEffect
<1>8. CASE UNCHANGED vars  BY <1>8 DEF vars, receiver
<1> QED  BY <1>1, <1>2, <1>3, <1>4, <1>5, <1>6, <1>7, <1>8, Steps
-----------------------------------------------------------------------------
(* Publication *)

\* _committed holds the last publications, in order.
RecentExact ==
    /\ Len(committed) = IF Len(replicas) < RecentCommits THEN Len(replicas) ELSE RecentCommits
    /\ \A j \in 1 .. Len(committed) : committed[j].key = replicas[Len(replicas) - Len(committed) + j][1]

LEMMA NotCommitted ==
  ASSUME Typed, NEW k, Committed(k) = {}
  PROVE  \A j \in 1 .. Len(committed) : committed[j].key # k
<1>1. DOMAIN committed = 1 .. Len(committed)  BY DEF Typed, ReceiverTyped
<1> QED  BY <1>1 DEF Committed, ToSet

\* The effect of a publication on both records of it.
LEMMA PublishEffect ==
  ASSUME Typed, RecentExact, NEW f \in net, NEW breaks \in BOOLEAN, ReceiveCommit(f, breaks), Publishes(f, breaks)
  PROVE  /\ Len(replicas') = Len(replicas) + 1 /\ replicas'[Len(replicas) + 1] = <<f.key, Whole(f.key, f.ctx)>>
         /\ \A i \in 1 .. Len(replicas) : replicas'[i] = replicas[i]
         /\ Len(committed') = IF Len(committed) < RecentCommits THEN Len(committed) + 1 ELSE RecentCommits
         /\ committed'[Len(committed')].key = f.key
         /\ \A j \in 1 .. Len(committed') - 1 : committed'[j] = committed[Len(committed) - Len(committed') + 1 + j]
<1> DEFINE S == [key : Keys, ctx : Contexts]
           e == [key |-> f.key, ctx |-> f.ctx]
           r == <<f.key, Whole(f.key, f.ctx)>>
<1>1. f.key \in Keys /\ f.ctx \in Contexts  BY FrameFields
<1>2. committed' = Remember(committed, e, RecentCommits) /\ replicas' = Append(replicas, r)
  BY CommitEffect
<1>3. e \in S /\ e.key = f.key /\ r \in Keys \X Contents  BY <1>1 DEF Contents
<1>4. /\ committed \in Seq(S) /\ Len(committed) <= RecentCommits /\ RecentCommits \in Nat \ {0}
      /\ replicas \in Seq(Keys \X Contents)
  BY Constants DEF Typed, ReceiverTyped
<1>5. \A j \in 1 .. Len(committed) : committed[j] # e
  BY <1>3, NotCommitted DEF Publishes
<1> HIDE DEF S, e, r
<1>6. /\ Len(committed') = IF Len(committed) < RecentCommits THEN Len(committed) + 1 ELSE RecentCommits
      /\ committed'[Len(committed')] = e
      /\ \A j \in 1 .. Len(committed') - 1 : committed'[j] = committed[Len(committed) - Len(committed') + 1 + j]
  BY <1>2, <1>3, <1>4, <1>5, RememberNew
<1>7. /\ Len(replicas') = Len(replicas) + 1 /\ replicas'[Len(replicas) + 1] = r
      /\ \A i \in 1 .. Len(replicas) : replicas'[i] = replicas[i]
  BY <1>2, <1>3, <1>4, AppendProperties
<1> QED  BY <1>3, <1>6, <1>7 DEF r

LEMMA RecentStep ==
  ASSUME Typed, RecentExact, [Next]_vars  PROVE RecentExact'
<1>1. CASE UNCHANGED <<committed, replicas>>  BY <1>1 DEF RecentExact
<1>2. ASSUME NEW f \in net, NEW breaks \in BOOLEAN, ReceiveCommit(f, breaks), Publishes(f, breaks)
      PROVE  RecentExact'
  <2>1. /\ Len(replicas') = Len(replicas) + 1 /\ replicas'[Len(replicas) + 1] = <<f.key, Whole(f.key, f.ctx)>>
        /\ \A i \in 1 .. Len(replicas) : replicas'[i] = replicas[i]
        /\ Len(committed') = IF Len(committed) < RecentCommits THEN Len(committed) + 1 ELSE RecentCommits
        /\ committed'[Len(committed')].key = f.key
        /\ \A j \in 1 .. Len(committed') - 1 : committed'[j] = committed[Len(committed) - Len(committed') + 1 + j]
    BY <1>2, PublishEffect
  <2>2. /\ Len(committed) \in Nat /\ Len(replicas) \in Nat /\ RecentCommits \in Nat \ {0}
        /\ Len(committed) = IF Len(replicas) < RecentCommits THEN Len(replicas) ELSE RecentCommits
        /\ \A j \in 1 .. Len(committed) : committed[j].key = replicas[Len(replicas) - Len(committed) + j][1]
    BY Constants DEF Typed, ReceiverTyped, RecentExact
  <2>3. Len(committed') = IF Len(replicas') < RecentCommits THEN Len(replicas') ELSE RecentCommits
    BY <2>1, <2>2
  <2>4. ASSUME NEW j \in 1 .. Len(committed')
        PROVE  committed'[j].key = replicas'[Len(replicas') - Len(committed') + j][1]
    <3>0. /\ j = Len(committed') => Len(replicas') - Len(committed') + j = Len(replicas) + 1
          /\ j # Len(committed') =>
               /\ Len(committed) - Len(committed') + 1 + j \in 1 .. Len(committed)
               /\ j \in 1 .. Len(committed') - 1
               /\ Len(replicas) - Len(committed) + (Len(committed) - Len(committed') + 1 + j)
                    = Len(replicas') - Len(committed') + j
               /\ Len(replicas') - Len(committed') + j \in 1 .. Len(replicas)
      <4>1. /\ Len(committed) \in Nat /\ Len(replicas) \in Nat /\ RecentCommits \in Nat \ {0}
            /\ Len(committed) = IF Len(replicas) < RecentCommits THEN Len(replicas) ELSE RecentCommits
            /\ Len(committed') = IF Len(committed) < RecentCommits THEN Len(committed) + 1 ELSE RecentCommits
            /\ Len(replicas') = Len(replicas) + 1
        BY <2>1, <2>2
      <4>2. CASE Len(replicas) < RecentCommits
        <5>1. /\ Len(committed) = Len(replicas) /\ Len(committed') = Len(replicas) + 1
              /\ Len(replicas') = Len(replicas) + 1
          BY <4>1, <4>2
        <5>2. Len(replicas) \in Nat /\ j \in 1 .. Len(replicas) + 1  BY <4>1, <5>1
        <5>3. /\ Len(replicas) - (Len(replicas) + 1) + 1 + j = j
              /\ Len(replicas) - Len(replicas) + j = j
              /\ Len(replicas) + 1 - (Len(replicas) + 1) + j = j
              /\ j # Len(replicas) + 1 => j \in 1 .. Len(replicas)
              /\ Len(replicas) + 1 - 1 = Len(replicas)
          BY <5>2
        <5> QED  BY <5>1, <5>3
      <4>3. CASE ~(Len(replicas) < RecentCommits)
        <5>1. /\ Len(committed) = RecentCommits /\ Len(committed') = RecentCommits
              /\ Len(replicas') = Len(replicas) + 1
          BY <4>1, <4>3
        <5>2. Len(replicas) \in Nat /\ RecentCommits \in Nat /\ j \in 1 .. RecentCommits
              /\ RecentCommits <= Len(replicas)
          BY <4>1, <4>3, <5>1
        <5>3. /\ RecentCommits - RecentCommits + 1 + j = j + 1
              /\ Len(replicas) - RecentCommits + (j + 1) = Len(replicas) + 1 - RecentCommits + j
              /\ j = RecentCommits => Len(replicas) + 1 - RecentCommits + j = Len(replicas) + 1
              /\ j # RecentCommits => /\ j + 1 \in 1 .. RecentCommits /\ j \in 1 .. RecentCommits - 1
                                      /\ Len(replicas) + 1 - RecentCommits + j \in 1 .. Len(replicas)
          BY <5>2
        <5> QED  BY <5>1, <5>3
      <4> QED  BY <4>2, <4>3
    <3>1. CASE j = Len(committed')
      <4>1. Len(replicas') - Len(committed') + j = Len(replicas) + 1  BY <3>0, <3>1
      <4>2. replicas'[Len(replicas') - Len(committed') + j] = <<f.key, Whole(f.key, f.ctx)>>
        BY <2>1, <4>1
      <4>3. committed'[j].key = f.key  BY <2>1, <3>1
      <4> QED  BY <4>2, <4>3
    <3>2. CASE j # Len(committed')
      <4> DEFINE i == Len(committed) - Len(committed') + 1 + j
      <4>1. i \in 1 .. Len(committed) /\ j \in 1 .. Len(committed') - 1  BY <3>0, <3>2
      <4>2. committed'[j] = committed[i]
        <5>1. \A m \in 1 .. Len(committed') - 1 : committed'[m] = committed[Len(committed) - Len(committed') + 1 + m]
          BY <2>1
        <5> QED  BY <4>1, <5>1
      <4> HIDE DEF i
      <4>3. committed[i].key = replicas[Len(replicas) - Len(committed) + i][1]  BY <2>2, <4>1
      <4> USE DEF i
      <4>4. /\ Len(replicas) - Len(committed) + i = Len(replicas') - Len(committed') + j
            /\ Len(replicas') - Len(committed') + j \in 1 .. Len(replicas)
        BY <3>0, <3>2
      <4> QED  BY <2>1, <4>2, <4>3, <4>4
    <3> QED  BY <3>1, <3>2
  <2> QED  BY <2>3, <2>4 DEF RecentExact
<1> QED  BY <1>1, <1>2, ReceiverStep
\* The sound COMMIT frames that were ever sent, and what they seal.
FineCommits == {g \in net : g.type = "commit" /\ g.fine}
Seals == {<<f.key, Whole(f.key, f.ctx)>> : f \in FineCommits}

LEMMA OfferSeals ==
  ASSUME Typed, NEW f, FrameOK(f), Offer(f)
  PROVE  FineCommits' = FineCommits \/ FineCommits' = FineCommits \cup {f}
<1>1. net' = net \/ net' = net \cup {f} \/ net' = net \cup {DegradeFrame(f.key)}
  <2>1. /\ net' \subseteq net \cup {f, DegradeFrame(f.key)} /\ net \subseteq net'
        /\ f \in net' \/ net' = net \/ net' = net \cup {DegradeFrame(f.key)}
    BY OfferEffect DEF Typed, WireTyped
  <2> QED  BY DEF Offer, MarkLocalOnly, sender
<1>2. DegradeFrame(f.key).type # "commit"
  <2>1. f.key \in Keys  BY DEF FrameOK, Frames
  <2> QED  BY <2>1, AbortFrameOK
<1> QED  BY <1>1, <1>2 DEF FineCommits

LEMMA SealStep ==
  ASSUME Typed, SenderStep
  PROVE  FineCommits' = FineCommits \/ \E g \in Frames : FineCommits' = FineCommits \cup {g}
<1>1. ASSUME NEW k \in Keys, OfferNext(k)
      PROVE  FineCommits' = FineCommits \/ \E g \in Frames : FineCommits' = FineCommits \cup {g}
  <2> DEFINE f == FrameAt(k, driver[k].at, driver[k].ctx)
  <2>1. driver[k].at \in 0 .. Size[k] + 1 /\ driver[k].ctx \in Contexts /\ Offer(f)
    BY <1>1 DEF OfferNext, Typed, WireTyped
  <2>2. FrameOK(f)  BY <2>1, FrameAtOK
  <2> HIDE DEF f
  <2>3. f \in Frames  BY <2>2 DEF FrameOK
  <2> QED  BY <2>1, <2>2, <2>3, OfferSeals
<1>2. ASSUME NEW k \in Keys, Restart(k)  PROVE FineCommits' = FineCommits
  BY <1>2 DEF Restart, FineCommits
<1>3. ASSUME NEW k \in Keys, NEW says \in BOOLEAN, GiveUp(k, says)
      PROVE  FineCommits' = FineCommits \/ \E g \in Frames : FineCommits' = FineCommits \cup {g}
  <2>1. CASE says
    <3>1. Offer(CancelFrame(k))  BY <1>3, <2>1 DEF GiveUp
    <3>2. FrameOK(CancelFrame(k)) /\ CancelFrame(k) \in Frames  BY AbortFrameOK DEF FrameOK
    <3> QED  BY <3>1, <3>2, OfferSeals
  <2>2. CASE ~says  BY <1>3, <2>2 DEF GiveUp, FineCommits
  <2> QED  BY <2>1, <2>2
<1>4. ASSUME NEW a \in acks, Acknowledge(a)  PROVE FineCommits' = FineCommits
  <2>1. net' = net \/ net' = net \cup {DegradeFrame(a.key)}
    BY <1>4 DEF Acknowledge, MarkLocalOnly
  <2>2. DegradeFrame(a.key).type # "commit"
    <3>1. a.key \in Keys  BY DEF Typed, WireTyped, Acks
    <3> QED  BY <3>1, AbortFrameOK
  <2> QED  BY <2>1, <2>2 DEF FineCommits
<1>5. ASSUME NEW j \in 1 .. MaxCredits, ApplyCredit(j)  PROVE FineCommits' = FineCommits
  BY <1>5 DEF ApplyCredit, FineCommits
<1>6. ASSUME NEW f \in net, Damage(f)  PROVE FineCommits' = FineCommits
  <2>1. net' = net \cup {[f EXCEPT !.fine = FALSE]}  BY <1>6 DEF Damage
  <2>2. ~[f EXCEPT !.fine = FALSE].fine
    <3>1. f \in Frames  BY FrameFields
    <3> QED  BY <3>1 DEF Frames
  <2> QED  BY <2>1, <2>2 DEF FineCommits
<1> QED  BY <1>1, <1>2, <1>3, <1>4, <1>5, <1>6 DEF SenderStep

\* The receiver's handlers send no COMMIT.
LEMMA HandlerSeals ==
  ASSUME HandlerFrame  PROVE FineCommits' = FineCommits
BY DEF HandlerFrame, FineCommits

LEMMA PublicationInit ==
  ASSUME Init  PROVE Publication!Init
BY DEF Init, Publication!Init

LEMMA PublicationStep ==
  ASSUME Typed, RecentExact, [Next]_vars
  PROVE  [Publication!Next]_<<Seals, replicas>>
<1>1. CASE SenderStep
  <2>1. replicas' = replicas  BY <1>1, SenderStepTyped DEF receiver
  <2>2. CASE FineCommits' = FineCommits  BY <2>1, <2>2 DEF Seals, Whole
  <2>3. ASSUME NEW g \in Frames, FineCommits' = FineCommits \cup {g}  PROVE Publication!Next
    <3>1. g.key \in Keys /\ g.ctx \in Contexts  BY DEF Frames
    <3>2. Whole(g.key, g.ctx) \in Contents  BY <3>1 DEF Contents
    <3>3. Seals' = Seals \cup {<<g.key, Whole(g.key, g.ctx)>>}  BY <2>3 DEF Seals, Whole
    <3>4. Publication!Seal(g.key, Whole(g.key, g.ctx))
      BY <2>1, <3>3 DEF Publication!Seal, Seals, FineCommits
    <3> QED  BY <3>1, <3>2, <3>4 DEF Publication!Next, Contents
  <2> QED  BY <1>1, <2>2, <2>3, SealStep
<1>2. ASSUME HandlerFrame, UNCHANGED replicas  PROVE UNCHANGED <<Seals, replicas>>
  BY <1>2, HandlerSeals DEF Seals, Whole
<1>3. ASSUME NEW f \in net, NEW breaks \in BOOLEAN, ReceiveCommit(f, breaks), Publishes(f, breaks)
      PROVE  Publication!Next
  <2> DEFINE w == Whole(f.key, f.ctx)
  <2>1. f.key \in Keys /\ f.ctx \in Contexts  BY FrameFields
  <2>2. w \in Contents  BY <2>1 DEF Contents
  <2>3. /\ HandlerFrame /\ f.type = "commit" /\ f.fine /\ replicas' = Append(replicas, <<f.key, w>>)
    BY <1>3, CommitEffect
  <2>4. <<f.key, w>> \in Seals /\ Seals' = Seals
    BY <2>3, HandlerSeals DEF Seals, FineCommits, Whole
  <2>5. \A i \in DOMAIN replicas : replicas[i][1] = f.key => Len(replicas) - i >= RecentCommits
    <3> SUFFICES ASSUME NEW i \in DOMAIN replicas, Len(replicas) - i < RecentCommits
                 PROVE  replicas[i][1] # f.key
      BY Constants DEF Typed, ReceiverTyped
    <3> DEFINE j == i - (Len(replicas) - Len(committed))
    <3>1. /\ DOMAIN replicas = 1 .. Len(replicas) /\ Len(replicas) \in Nat /\ Len(committed) \in Nat
          /\ RecentCommits \in Nat \ {0}
          /\ Len(committed) = IF Len(replicas) < RecentCommits THEN Len(replicas) ELSE RecentCommits
      BY Constants DEF Typed, ReceiverTyped, RecentExact
    <3>2. j \in 1 .. Len(committed) /\ Len(replicas) - Len(committed) + j = i
      BY <3>1
    <3> HIDE DEF j
    <3>3. committed[j].key = replicas[i][1]  BY <3>2 DEF RecentExact
    <3>4. committed[j].key # f.key  BY <1>3, <3>2, NotCommitted DEF Publishes
    <3> QED  BY <3>3, <3>4
  <2> HIDE DEF w
  <2>6. Publication!Publish(f.key, w)
    BY <2>3, <2>4, <2>5 DEF Publication!Publish, Seals, FineCommits
  <2> QED  BY <2>1, <2>2, <2>6 DEF Publication!Next, Contents
<1>4. ASSUME NEW k \in Keys, ExpireInactive(k)  PROVE UNCHANGED <<Seals, replicas>>
  BY <1>2, <1>4, ExpireEffect
<1>5. ASSUME NEW f \in net, ReceiveStale(f)  PROVE UNCHANGED <<Seals, replicas>>
  BY <1>2, <1>5, StaleEffect
<1>6. ASSUME NEW f \in net, ReceiveBegin(f)  PROVE UNCHANGED <<Seals, replicas>>
  BY <1>2, <1>6, BeginEffect
<1>7. ASSUME NEW f \in net, ReceiveAbort(f)  PROVE UNCHANGED <<Seals, replicas>>
  BY <1>2, <1>7, AbortEffect
<1>8. ASSUME NEW f \in net, NEW breaks \in BOOLEAN, ReceivePut(f, breaks)  PROVE UNCHANGED <<Seals, replicas>>
  BY <1>2, <1>8, PutEffect
<1>9. ASSUME NEW f \in net, NEW breaks \in BOOLEAN, ReceiveCommit(f, breaks), ~Publishes(f, breaks)
      PROVE  UNCHANGED <<Seals, replicas>>
  BY <1>2, <1>9, CommitEffect
<1>10. CASE UNCHANGED vars  BY <1>10 DEF vars, receiver, Seals, FineCommits, Whole
<1> QED  BY <1>1, <1>3, <1>4, <1>5, <1>6, <1>7, <1>8, <1>9, <1>10, Steps
-----------------------------------------------------------------------------
(* What the sender may believe *)

HasReplica(k) == \E r \in ToSet(replicas) : r[1] = k

\* An answer that does not refuse a COMMIT means that there is a replica.
AckTrue == \A a \in acks : a.seq = Size[a.key] + 2 /\ ~a.refused => HasReplica(a.key)

Sent(k) ==
    \/ driver[k].at # Size[k] + 2
    \/ DegradeFrame(k) \in net
    \/ \E f \in inflight : f.key = k /\ f.type = "commit"
    \/ HasReplica(k)
SentOrDegraded == \A k \in Keys : Sent(k)

LEMMA InReplicas ==
  ASSUME Typed, NEW k
  PROVE  HasReplica(k) <=> \E i \in 1 .. Len(replicas) : replicas[i][1] = k
<1>1. DOMAIN replicas = 1 .. Len(replicas)  BY DEF Typed, ReceiverTyped
<1> QED  BY <1>1 DEF HasReplica, ToSet

LEMMA ReplicasStay ==
  ASSUME Typed, RecentExact, [Next]_vars, NEW k, HasReplica(k)
  PROVE  HasReplica(k)'
<1>1. CASE UNCHANGED <<committed, replicas>>  BY <1>1 DEF HasReplica
<1>2. ASSUME NEW f \in net, NEW breaks \in BOOLEAN, ReceiveCommit(f, breaks), Publishes(f, breaks)
      PROVE  HasReplica(k)'
  <2>1. /\ Len(replicas') = Len(replicas) + 1 /\ \A i \in 1 .. Len(replicas) : replicas'[i] = replicas[i]
    BY <1>2, PublishEffect
  <2>2. PICK i \in 1 .. Len(replicas) : replicas[i][1] = k  BY InReplicas
  <2>3. replicas' \in Seq(Keys \X Contents)  BY <1>2, CommitEffect DEF Typed, ReceiverTyped
  <2>4. i \in DOMAIN replicas' /\ replicas'[i][1] = k
    <3>1. Len(replicas) \in Nat  BY DEF Typed, ReceiverTyped
    <3>2. i \in 1 .. Len(replicas')  BY <2>1, <3>1
    <3> QED  BY <2>1, <2>2, <2>3, <3>2
  <2> QED  BY <2>4 DEF HasReplica, ToSet
<1> QED  BY <1>1, <1>2, ReceiverStep

LEMMA CommittedIsReplica ==
  ASSUME Typed, RecentExact, NEW k, Committed(k) # {}
  PROVE  HasReplica(k)
<1>1. /\ DOMAIN committed = 1 .. Len(committed) /\ Len(committed) \in Nat /\ Len(replicas) \in Nat
      /\ RecentCommits \in Nat \ {0}
      /\ Len(committed) = IF Len(replicas) < RecentCommits THEN Len(replicas) ELSE RecentCommits
  BY Constants DEF Typed, ReceiverTyped, RecentExact
<1>2. PICK j \in 1 .. Len(committed) : committed[j].key = k  BY <1>1 DEF Committed, ToSet
<1>3. Len(replicas) - Len(committed) + j \in 1 .. Len(replicas)  BY <1>1
<1>4. replicas[Len(replicas) - Len(committed) + j][1] = k  BY <1>2 DEF RecentExact
<1> QED  BY <1>3, <1>4, InReplicas

\* A COMMIT is not refused only if its entry is published.
LEMMA CommitAnswered ==
  ASSUME Typed, RecentExact, [Next]_vars, NEW f \in net, NEW breaks \in BOOLEAN, ReceiveCommit(f, breaks),
         CommitStatus(f, Publishes(f, breaks)) \notin {"rejected", "aborted"}
  PROVE  HasReplica(f.key)'
<1>1. Publishes(f, breaks) \/ Committed(f.key) # {}  BY DEF CommitStatus
<1>2. CASE Committed(f.key) # {}  BY <1>2, CommittedIsReplica, ReplicasStay
<1>3. CASE Publishes(f, breaks)
  <2>1. /\ Len(replicas') = Len(replicas) + 1
        /\ replicas'[Len(replicas) + 1] = <<f.key, Whole(f.key, f.ctx)>>
    BY <1>3, PublishEffect
  <2>2. replicas' \in Seq(Keys \X Contents) /\ Len(replicas) \in Nat
    <3>1. Typed'  BY TypedStep
    <3> QED  BY <3>1 DEF Typed, ReceiverTyped
  <2>3. Len(replicas) + 1 \in DOMAIN replicas'  BY <2>1, <2>2
  <2>4. replicas'[Len(replicas) + 1][1] = f.key  BY <2>1
  <2> QED  BY <2>3, <2>4 DEF HasReplica, ToSet
<1> QED  BY <1>1, <1>2, <1>3

LEMMA SenderAcks ==
  ASSUME Typed, SenderStep  PROVE acks' \subseteq acks
<1>1. ASSUME NEW k \in Keys, OfferNext(k)  PROVE acks' \subseteq acks
  <2> DEFINE f == FrameAt(k, driver[k].at, driver[k].ctx)
  <2>1. driver[k].at \in 0 .. Size[k] + 1 /\ driver[k].ctx \in Contexts /\ Offer(f)
    BY <1>1 DEF OfferNext, Typed, WireTyped
  <2>2. FrameOK(f)  BY <2>1, FrameAtOK
  <2> HIDE DEF f
  <2> QED  BY <2>1, <2>2, OfferEffect DEF Typed, WireTyped
<1>2. ASSUME NEW k \in Keys, Restart(k)  PROVE acks' \subseteq acks  BY <1>2 DEF Restart
<1>3. ASSUME NEW k \in Keys, NEW says \in BOOLEAN, GiveUp(k, says)  PROVE acks' \subseteq acks
  BY <1>3, AbortFrameOK, OfferEffect DEF GiveUp, Typed, WireTyped
<1>4. ASSUME NEW a \in acks, Acknowledge(a)  PROVE acks' \subseteq acks
  BY <1>4 DEF Acknowledge, MarkLocalOnly
<1>5. ASSUME NEW j \in 1 .. MaxCredits, ApplyCredit(j)  PROVE acks' \subseteq acks
  BY <1>5 DEF ApplyCredit
<1>6. ASSUME NEW f \in net, Damage(f)  PROVE acks' \subseteq acks  BY <1>6 DEF Damage
<1> QED  BY <1>1, <1>2, <1>3, <1>4, <1>5, <1>6 DEF SenderStep

LEMMA AckStep ==
  ASSUME Typed, RecentExact, AckTrue, [Next]_vars  PROVE AckTrue'
<1> SUFFICES ASSUME NEW b \in acks', b.seq = Size[b.key] + 2, ~b.refused
             PROVE  HasReplica(b.key)'
  BY DEF AckTrue
<1>1. CASE b \in acks  BY <1>1, ReplicasStay DEF AckTrue
<1>2. ASSUME NEW f \in net, b.key = f.key, b.seq = f.seq  PROVE f.type = "commit"
  BY <1>2, FrameFields DEF FrameOK
<1>3. CASE b \notin acks
  <2>1. ~SenderStep  BY <1>3, SenderAcks
  <2>2. ~UNCHANGED vars  BY <1>3 DEF vars
  <2>3. ASSUME NEW k \in Keys  PROVE ~ExpireInactive(k)  BY <1>3, ExpireEffect
  <2>4. ASSUME NEW f \in net  PROVE ~ReceiveStale(f)
    <3> SUFFICES ASSUME ReceiveStale(f)  PROVE FALSE  OBVIOUS
    <3>1. Respond(f, "rejected", active') /\ ActiveOK(active')
      BY StaleEffect, ActiveKept
    <3>2. b.refused  BY <1>3, <3>1, RespondEffect DEF ActiveOK
    <3> QED  BY <3>2
  <2>5. ASSUME NEW f \in net, NEW status, Respond(f, status, active'), Staged(active') \in 0 .. MaxStaged
        PROVE  f.type = "commit"
    <3>1. b.key = f.key /\ b.seq = f.seq  BY <1>3, <2>5, RespondEffect
    <3> QED  BY <3>1, <1>2
  <2>6. Staged(active') \in 0 .. MaxStaged
    <3>1. Typed'  BY TypedStep
    <3>2. stream' = stream  BY DEF Next, vars, receiver, OfferNext, Restart, GiveUp, ExpireInactive, Quiet,
            Receive, ReceiveStale, ReceiveBegin, ReceivePut, ReceiveCommit, ReceiveAbort, Damage,
            Acknowledge, ApplyCredit
    <3> QED  BY <3>1, <3>2 DEF Typed, ReceiverTyped, Staged, Chunks
  <2>7. ASSUME NEW f \in net  PROVE ~ReceiveBegin(f)
    <3> SUFFICES ASSUME ReceiveBegin(f)  PROVE FALSE  OBVIOUS
    <3>1. f.type = "begin" /\ \E status : Respond(f, status, active')  BY BeginEffect
    <3> QED  BY <3>1, <2>5, <2>6
  <2>8. ASSUME NEW f \in net  PROVE ~ReceiveAbort(f)
    <3> SUFFICES ASSUME ReceiveAbort(f)  PROVE FALSE  OBVIOUS
    <3>1. f.type = "abort" /\ \E status : Respond(f, status, active')  BY AbortEffect
    <3> QED  BY <3>1, <2>5, <2>6
  <2>9. ASSUME NEW f \in net, NEW breaks \in BOOLEAN  PROVE ~ReceivePut(f, breaks)
    <3> SUFFICES ASSUME ReceivePut(f, breaks)  PROVE FALSE  OBVIOUS
    <3>1. f.type = "put" /\ \E status : Respond(f, status, active')  BY PutEffect
    <3> QED  BY <3>1, <2>5, <2>6
  <2>10. ASSUME NEW f \in net, NEW breaks \in BOOLEAN, ReceiveCommit(f, breaks)  PROVE HasReplica(b.key)'
    <3>1. Respond(f, CommitStatus(f, Publishes(f, breaks)), active')  BY <2>10, CommitEffect
    <3>2. b.key = f.key /\ CommitStatus(f, Publishes(f, breaks)) \notin {"rejected", "aborted"}
      BY <1>3, <2>6, <3>1, RespondEffect
    <3> QED  BY <2>10, <3>2, CommitAnswered
  <2> QED  BY <2>1, <2>2, <2>3, <2>4, <2>7, <2>8, <2>9, <2>10, Steps
<1> QED  BY <1>1, <1>3

\* An offer keeps what was sent: a frame leaves the window only when the entry degrades.
LEMMA OfferKeepsSent ==
  ASSUME Typed, NEW f, FrameOK(f), Offer(f), UNCHANGED replicas, NEW k \in Keys, Sent(k), driver'[k] = driver[k]
  PROVE  Sent(k)'
<1>1. /\ net \subseteq net'
      /\ \A g \in inflight : g \in inflight' \/ (g.key = f.key /\ DegradeFrame(f.key) \in net')
  BY OfferEffect DEF Typed, WireTyped
<1>2. CASE driver[k].at # Size[k] + 2  BY <1>2 DEF Sent
<1>3. CASE DegradeFrame(k) \in net
  <2>1. DegradeFrame(k)' = DegradeFrame(k)  BY DEF DegradeFrame, Frame
  <2> QED  BY <1>1, <1>3, <2>1 DEF Sent
<1>4. ASSUME NEW g \in inflight, g.key = k, g.type = "commit"  PROVE Sent(k)'
  <2>1. DegradeFrame(k)' = DegradeFrame(k)  BY DEF DegradeFrame, Frame
  <2> QED  BY <1>1, <1>4, <2>1 DEF Sent
<1>5. CASE HasReplica(k)  BY <1>5 DEF Sent, HasReplica
<1> QED  BY <1>2, <1>3, <1>4, <1>5 DEF Sent

LEMMA SentStep ==
  ASSUME Typed, RecentExact, AckTrue, SentOrDegraded, [Next]_vars
  PROVE  SentOrDegraded'
<1> SUFFICES ASSUME NEW k \in Keys  PROVE Sent(k)'
  BY DEF SentOrDegraded
<1>0. Sent(k) /\ DegradeFrame(k)' = DegradeFrame(k) /\ Size[k] \in Nat
  BY Constants DEF SentOrDegraded, DegradeFrame, Frame
<1>1. ASSUME UNCHANGED <<driver, inflight, net>>  PROVE Sent(k)'
  BY <1>0, <1>1, ReplicasStay DEF Sent
<1>2. ASSUME HandlerFrame  PROVE Sent(k)'  BY <1>1, <1>2 DEF HandlerFrame
<1>3. ASSUME SenderStep  PROVE UNCHANGED replicas
  BY <1>3, SenderStepTyped DEF receiver
<1>4. ASSUME NEW x \in Keys, OfferNext(x)  PROVE Sent(k)'
  <2> DEFINE f == FrameAt(x, driver[x].at, driver[x].ctx)
  <2>1. /\ driver[x].at \in 0 .. Size[x] + 1 /\ driver[x].ctx \in Contexts /\ Offer(f)
        /\ driver' = [driver EXCEPT ![x].at = @ + 1]
        /\ driver \in [Keys -> [at : Int, ctx : Contexts]]
    BY <1>4 DEF OfferNext, Typed, WireTyped
  <2>2. /\ FrameOK(f) /\ f.key = x
        /\ driver[x].at = Size[x] + 1 => f.type = "commit"
    BY <2>1, FrameAtOK
  <2> HIDE DEF f
  <2>3. UNCHANGED replicas  BY <1>3, <1>4 DEF SenderStep
  <2>4. CASE x # k
    <3>1. driver'[k] = driver[k]  BY <2>1, <2>4
    <3> QED  BY <1>0, <2>1, <2>2, <2>3, <3>1, OfferKeepsSent
  <2>5. CASE x = k /\ driver[k].at = Size[k] + 1
    <3>1. f \in inflight' \/ DegradeFrame(k) \in net'
      BY <2>1, <2>2, <2>5, OfferEffect DEF Typed, WireTyped
    <3>2. f.key = k /\ f.type = "commit"  BY <2>2, <2>5
    <3> QED  BY <1>0, <3>1, <3>2 DEF Sent
  <2>6. CASE x = k /\ driver[k].at # Size[k] + 1
    <3>1. driver'[k].at = driver[k].at + 1 /\ driver[k].at \in Int  BY <2>1, <2>6
    <3>2. driver'[k].at # Size[k] + 2  BY <1>0, <2>6, <3>1
    <3> QED  BY <3>2 DEF Sent
  <2> QED  BY <2>4, <2>5, <2>6
<1>5. ASSUME NEW x \in Keys, NEW says \in BOOLEAN, GiveUp(x, says)  PROVE Sent(k)'
  <2>1. driver' = [driver EXCEPT ![x].at = Done] /\ driver \in [Keys -> [at : Int, ctx : Contexts]]
    BY <1>5 DEF GiveUp, Typed, WireTyped
  <2>2. UNCHANGED replicas  BY <1>3, <1>5 DEF SenderStep
  <2>3. CASE x = k
    <3>1. driver'[k].at # Size[k] + 2  BY <1>0, <2>1, <2>3 DEF Done
    <3> QED  BY <3>1 DEF Sent
  <2>4. CASE x # k
    <3>1. driver'[k] = driver[k]  BY <2>1, <2>4
    <3>2. CASE says
      <4>1. Offer(CancelFrame(x))  BY <1>5, <3>2 DEF GiveUp
      <4> QED  BY <1>0, <2>2, <3>1, <4>1, AbortFrameOK, OfferKeepsSent
    <3>3. CASE ~says
      <4>1. UNCHANGED <<inflight, net>>  BY <1>5, <3>3 DEF GiveUp, sender
      <4> QED  BY <1>0, <2>2, <3>1, <4>1 DEF Sent, HasReplica
    <3> QED  BY <3>2, <3>3
  <2> QED  BY <2>3, <2>4
<1>6. ASSUME NEW x \in Keys, Restart(x)  PROVE Sent(k)'
  <2>1. /\ driver' = [driver EXCEPT ![x] = [at |-> 0, ctx |-> 2]]
        /\ driver \in [Keys -> [at : Int, ctx : Contexts]] /\ UNCHANGED <<inflight, net, replicas>>
    BY <1>6 DEF Restart, Typed, WireTyped, sender, receiver
  <2>2. driver'[k] = driver[k] \/ driver'[k].at = 0  BY <2>1
  <2>3. 0 # Size[k] + 2  BY <1>0
  <2> QED  BY <1>0, <2>1, <2>2, <2>3 DEF Sent, HasReplica
<1>7. ASSUME NEW a \in acks, Acknowledge(a)  PROVE Sent(k)'
  <2> DEFINE named == {f \in inflight : f.key = a.key /\ f.seq = a.seq}
  <2>0. UNCHANGED <<driver, replicas>>  BY <1>7 DEF Acknowledge, receiver
  <2>1. CASE a.refused
    <3>1. /\ net' = net \cup {DegradeFrame(a.key)}
          /\ inflight' = {f \in inflight \ named : f.key # a.key}
      BY <1>7, <2>1 DEF Acknowledge, MarkLocalOnly
    <3>2. CASE a.key = k  BY <1>0, <3>1, <3>2 DEF Sent
    <3>3. CASE a.key # k
      <4>1. \A g \in inflight : g.key = k => g \in inflight'  BY <3>1, <3>3
      <4> HIDE DEF named
      <4> QED  BY <1>0, <2>0, <3>1, <4>1 DEF Sent, HasReplica
    <3> QED  BY <3>2, <3>3
  <2>2. CASE ~a.refused
    <3>1. net' = net /\ inflight' = inflight \ named  BY <1>7, <2>2 DEF Acknowledge
    <3>2. ASSUME NEW g \in inflight, g.key = k, g.type = "commit", g \notin inflight'
          PROVE  HasReplica(k)
      <4>1. g.key = a.key /\ g.seq = a.seq  BY <3>1, <3>2
      <4>2. g.seq = Size[k] + 2  BY <3>2 DEF Typed, SenderTyped, FrameOK
      <4> QED  BY <2>2, <3>2, <4>1, <4>2 DEF AckTrue
    <3> HIDE DEF named
    <3> QED  BY <1>0, <2>0, <3>1, <3>2 DEF Sent, HasReplica
  <2> QED  BY <2>1, <2>2
<1>8. ASSUME NEW j \in 1 .. MaxCredits, ApplyCredit(j)  PROVE Sent(k)'
  BY <1>1, <1>8 DEF ApplyCredit
<1>9. ASSUME NEW f \in net, Damage(f)  PROVE Sent(k)'
  <2>1. net \subseteq net' /\ UNCHANGED <<driver, inflight, replicas>>
    BY <1>9 DEF Damage, sender, receiver
  <2> QED  BY <1>0, <2>1 DEF Sent, HasReplica
<1>10. CASE SenderStep  BY <1>4, <1>5, <1>6, <1>7, <1>8, <1>9, <1>10 DEF SenderStep
<1>11. CASE UNCHANGED vars  BY <1>1, <1>11 DEF vars, sender
<1>12. ASSUME NEW x \in Keys, ExpireInactive(x)  PROVE Sent(k)'  BY <1>2, <1>12, ExpireEffect
<1>13. ASSUME NEW f \in net, ReceiveStale(f)  PROVE Sent(k)'  BY <1>2, <1>13, StaleEffect
<1>14. ASSUME NEW f \in net, ReceiveBegin(f)  PROVE Sent(k)'  BY <1>2, <1>14, BeginEffect
<1>15. ASSUME NEW f \in net, ReceiveAbort(f)  PROVE Sent(k)'  BY <1>2, <1>15, AbortEffect
<1>16. ASSUME NEW f \in net, NEW breaks \in BOOLEAN, ReceivePut(f, breaks)  PROVE Sent(k)'
  BY <1>2, <1>16, PutEffect
<1>17. ASSUME NEW f \in net, NEW breaks \in BOOLEAN, ReceiveCommit(f, breaks)  PROVE Sent(k)'
  BY <1>2, <1>17, CommitEffect
<1> QED  BY <1>10, <1>11, <1>12, <1>13, <1>14, <1>15, <1>16, <1>17, Steps
-----------------------------------------------------------------------------
(* Generations, while every transaction id can be remembered *)

TransactionIds == {k[1] : k \in Keys}
LatestTyped == latest \in Seq(TransactionIds \X Nat)
OncePerId(s) == \A i, j \in 1 .. Len(s) : s[i][1] = s[j][1] => i = j

Remembered ==
    /\ LatestTyped /\ OncePerId(latest)
    /\ \A k \in Open : k \in ToSet(latest)
    /\ \A r \in ToSet(replicas) : \E e \in ToSet(latest) : e[1] = r[1][1] /\ e[2] >= r[1][2]

LEMMA LatestIs ==
  ASSUME LatestTyped, OncePerId(latest), NEW e \in ToSet(latest)
  PROVE  Latest(e[1]) = e[2] /\ e \in TransactionIds \X Nat
<1>1. DOMAIN latest = 1 .. Len(latest) /\ \A i \in 1 .. Len(latest) : latest[i] \in TransactionIds \X Nat
  BY DEF LatestTyped
<1>2. \A x \in ToSet(latest) : x[1] = e[1] => x = e
  BY <1>1 DEF ToSet, OncePerId
<1>3. (CHOOSE x \in ToSet(latest) : x[1] = e[1]) = e  BY <1>2
<1>4. Latest(e[1]) = e[2]  BY <1>3 DEF Latest
<1>5. e \in TransactionIds \X Nat  BY <1>1 DEF ToSet
<1> QED  BY <1>4, <1>5

LEMMA FewIds ==
  ASSUME GenerationsFit, NEW s \in Seq(TransactionIds \X Nat), OncePerId(s)
  PROVE  Len(s) <= RecentGenerations
<1> DEFINE n == Len(s)
           h == [i \in 1 .. n |-> s[i][1]]
<1>1. n \in Nat /\ \A i \in 1 .. n : s[i] \in TransactionIds \X Nat  OBVIOUS
<1>2. h \in [1 .. n -> TransactionIds]  BY <1>1
<1>3. \A i, j \in 1 .. n : h[i] = h[j] => i = j  BY DEF OncePerId
<1>4. h \in Injection(1 .. n, TransactionIds)
  <2> HIDE DEF h, n
  <2> QED  BY <1>2, <1>3 DEF Injection, IsInjective
<1>5. IsFiniteSet(TransactionIds) /\ Cardinality(TransactionIds) <= RecentGenerations
  BY DEF GenerationsFit, TransactionIds
<1>6. Cardinality(1 .. n) <= Cardinality(TransactionIds) /\ Cardinality(TransactionIds) \in Nat
  BY <1>4, <1>5, FS_Injection, FS_CardinalityType
<1>7. Cardinality(1 .. n) = n
  <2> HIDE DEF n
  <2>1. Cardinality(1 .. n) = IF 1 > n THEN 0 ELSE n - 1 + 1  BY <1>1, FS_Interval
  <2> QED  BY <1>1, <2>1
<1> HIDE DEF n
<1>8. n <= RecentGenerations  BY <1>1, <1>5, <1>6, <1>7, Constants
<1> QED  BY <1>8 DEF n

\* Nothing is forgotten: the id gets its generation, and the others stay.
LEMMA RememberGenerationEffect ==
  ASSUME GenerationsFit, LatestTyped, OncePerId(latest), NEW id \in TransactionIds, NEW g \in Nat, NEW a
  PROVE  LET t == RememberGeneration(id, g, a)
         IN  /\ t \in Seq(TransactionIds \X Nat) /\ OncePerId(t)
             /\ <<id, g>> \in ToSet(t)
             /\ \A e \in ToSet(latest) : e[1] # id => e \in ToSet(t)
<1> DEFINE S == TransactionIds \X Nat
           E == {e \in ToSet(latest) : e[1] = id}
           w == Without(latest, E)
           t == Append(w, <<id, g>>)
<1>0. /\ latest \in Seq(S) /\ DOMAIN latest = 1 .. Len(latest) /\ Len(latest) \in Nat
      /\ \A i \in 1 .. Len(latest) : latest[i] \in E <=> latest[i][1] = id
  BY DEF LatestTyped, ToSet
<1> HIDE DEF E
<1>1. /\ w \in Seq(S) /\ Len(w) \in Nat /\ DOMAIN w = 1 .. Len(w) /\ OncePerId(w)
      /\ \A i \in 1 .. Len(w) : w[i][1] # id
      /\ \A i \in 1 .. Len(latest) : latest[i][1] # id => \E j \in 1 .. Len(w) : w[j] = latest[i]
  <2>1. CASE w = latest /\ \A i \in 1 .. Len(latest) : latest[i] \notin E
    BY <1>0, <2>1
  <2>2. ASSUME NEW p \in 1 .. Len(latest), latest[p] \in E, w \in Seq(S), Len(w) = Len(latest) - 1,
               \A i \in 1 .. Len(latest) - 1 : w[i] = IF i < p THEN latest[i] ELSE latest[i + 1]
        PROVE  <1>1
    <3>1. Len(w) \in Nat /\ DOMAIN w = 1 .. Len(w)  BY <2>2
    <3>2. \A i \in 1 .. Len(w) : \E j \in 1 .. Len(latest) :
             /\ j # p /\ w[i] = latest[j]
             /\ j = (IF i < p THEN i ELSE i + 1)
      <4> SUFFICES ASSUME NEW i \in 1 .. Len(w)
                   PROVE  \E j \in 1 .. Len(latest) :
                             j # p /\ w[i] = latest[j] /\ j = (IF i < p THEN i ELSE i + 1)
        OBVIOUS
      <4>1. i \in 1 .. Len(latest) - 1 /\ i \in 1 .. Len(latest) /\ i + 1 \in 1 .. Len(latest)
        BY <1>0, <2>2
      <4>2. CASE i < p  BY <2>2, <4>1, <4>2
      <4>3. CASE ~(i < p)
        <5>1. w[i] = latest[i + 1] /\ i + 1 # p  BY <2>2, <4>1, <4>3
        <5> QED  BY <4>1, <4>3, <5>1
      <4> QED  BY <4>2, <4>3
    <3>3. \A j \in 1 .. Len(latest) : j # p => latest[j][1] # id  BY <1>0, <2>2 DEF OncePerId
    <3>4. \A i \in 1 .. Len(w) : w[i][1] # id  BY <3>2, <3>3
    <3>5. OncePerId(w)
      <4> SUFFICES ASSUME NEW i \in 1 .. Len(w), NEW j \in 1 .. Len(w), w[i][1] = w[j][1]  PROVE i = j
        BY DEF OncePerId
      <4>1. PICK m \in 1 .. Len(latest) : w[i] = latest[m] /\ m = (IF i < p THEN i ELSE i + 1)  BY <3>2
      <4>2. PICK n \in 1 .. Len(latest) : w[j] = latest[n] /\ n = (IF j < p THEN j ELSE j + 1)  BY <3>2
      <4>3. m = n  BY <4>1, <4>2 DEF OncePerId
      <4> QED  BY <4>1, <4>2, <4>3, <1>0
    <3>6. ASSUME NEW i \in 1 .. Len(latest), latest[i][1] # id  PROVE \E j \in 1 .. Len(w) : w[j] = latest[i]
      <4>1. i # p  BY <1>0, <2>2, <3>6
      <4>2. CASE i < p
        <5>1. i \in 1 .. Len(latest) - 1  BY <1>0, <4>2
        <5> QED  BY <2>2, <4>2, <5>1
      <4>3. CASE i > p
        <5>1. i - 1 \in 1 .. Len(latest) - 1 /\ ~(i - 1 < p) /\ i - 1 + 1 = i  BY <1>0, <4>3
        <5>2. w[i - 1] = latest[i]  BY <2>2, <5>1
        <5> QED  BY <2>2, <5>1, <5>2
      <4> QED  BY <1>0, <4>1, <4>2, <4>3
    <3> QED  BY <2>2, <3>1, <3>4, <3>5, <3>6
  <2> QED  BY <1>0, <2>1, <2>2, WithoutEffect
<1> HIDE DEF w
<1>2. <<id, g>> \in S  OBVIOUS
<1>3. /\ t \in Seq(S) /\ Len(t) = Len(w) + 1 /\ \A i \in 1 .. Len(w) : t[i] = w[i]
      /\ t[Len(w) + 1] = <<id, g>> /\ DOMAIN t = 1 .. Len(t)
  BY <1>1, <1>2, AppendProperties
<1> HIDE DEF t
<1>4. OncePerId(t)
  <2> SUFFICES ASSUME NEW i \in 1 .. Len(t), NEW j \in 1 .. Len(t), t[i][1] = t[j][1]  PROVE i = j
    BY DEF OncePerId
  <2>1. CASE i \in 1 .. Len(w) /\ j \in 1 .. Len(w)  BY <1>1, <1>3, <2>1 DEF OncePerId
  <2>2. CASE i = Len(w) + 1 /\ j \in 1 .. Len(w)  BY <1>1, <1>3, <2>2
  <2>3. CASE i \in 1 .. Len(w) /\ j = Len(w) + 1  BY <1>1, <1>3, <2>3
  <2>4. CASE i = Len(w) + 1 /\ j = Len(w) + 1  BY <2>4
  <2> QED  BY <1>1, <1>3, <2>1, <2>2, <2>3, <2>4
<1>5. Len(t) <= RecentGenerations  BY <1>3, <1>4, FewIds DEF S
<1>6. RememberGeneration(id, g, a) = t
  <2>1. Len(t) - RecentGenerations <= 0  BY <1>1, <1>3, <1>5, Constants
  <2> QED  BY <2>1 DEF RememberGeneration, t, w, E
<1>7. <<id, g>> \in ToSet(t)
  <2>1. Len(w) + 1 \in DOMAIN t  BY <1>1, <1>3
  <2> QED  BY <1>3, <2>1 DEF ToSet
<1>8. ASSUME NEW e \in ToSet(latest), e[1] # id  PROVE e \in ToSet(t)
  <2>1. PICK i \in 1 .. Len(latest) : latest[i] = e  BY <1>0 DEF ToSet
  <2>2. PICK j \in 1 .. Len(w) : w[j] = e  BY <1>1, <1>8, <2>1
  <2>3. j \in DOMAIN t /\ t[j] = e  BY <1>1, <1>3, <2>2
  <2> QED  BY <2>3 DEF ToSet
<1> QED  BY <1>3, <1>4, <1>6, <1>7, <1>8

\* A step that opens nothing, publishes nothing and forgets nothing.
LEMMA QuietRemembered ==
  ASSUME Remembered, latest' = latest, DOMAIN active' \subseteq Open, UNCHANGED replicas
  PROVE  Remembered'
BY DEF Remembered, LatestTyped, Open

LEMMA BeginRemembered ==
  ASSUME Typed, GenerationsFit, Remembered, NEW f \in net, ReceiveBegin(f)
  PROVE  Remembered'
<1>0. /\ Typed' /\ replicas' = replicas /\ ~Stale(f) /\ f.key \in Keys
      /\ f.key = <<f.key[1], f.key[2]>> /\ f.key[2] \in Nat /\ f.key[1] \in TransactionIds
  BY BeginEffect, FrameFields, Constants DEF TransactionIds
<1>1. CASE latest' = latest /\ DOMAIN active' \subseteq Open  BY <1>0, <1>1, QuietRemembered
<1>2. CASE /\ latest' = RememberGeneration(f.key[1], f.key[2], active')
           /\ f.key \notin Open
           /\ DOMAIN active' = {f.key} \cup (IF f.key[2] > Latest(f.key[1])
                                             THEN Open \ {<<f.key[1], Latest(f.key[1])>>} ELSE Open)
  <2>1. /\ latest' \in Seq(TransactionIds \X Nat) /\ OncePerId(latest')
        /\ f.key \in ToSet(latest')
        /\ \A e \in ToSet(latest) : e[1] # f.key[1] => e \in ToSet(latest')
    BY <1>0, <1>2, RememberGenerationEffect DEF Remembered
  <2>2. ASSUME NEW e \in ToSet(latest), e[1] = f.key[1]
        PROVE  Latest(f.key[1]) = e[2] /\ e[2] \in Nat /\ e[2] <= f.key[2] /\ e = <<e[1], e[2]>>
    <3>1. Latest(e[1]) = e[2] /\ e \in TransactionIds \X Nat  BY LatestIs DEF Remembered
    <3> QED  BY <1>0, <2>2, <3>1 DEF Stale
  <2>3. ASSUME NEW k \in DOMAIN active'  PROVE k \in ToSet(latest')
    <3>1. CASE k = f.key  BY <2>1, <3>1
    <3>2. CASE k # f.key
      <4>1. k \in Open  BY <1>2, <3>2
      <4>2. k \in ToSet(latest) /\ k = <<k[1], k[2]>> /\ k[2] \in Nat
        BY <4>1, Constants DEF Remembered, Typed, ReceiverTyped
      <4>3. CASE k[1] # f.key[1]  BY <2>1, <4>2, <4>3
      <4>4. CASE k[1] = f.key[1]
        <5>1. Latest(f.key[1]) = k[2] /\ k[2] <= f.key[2]  BY <2>2, <4>2, <4>4
        <5>2. k[2] # f.key[2]  BY <1>0, <3>2, <4>2, <4>4
        <5>3. f.key[2] > Latest(f.key[1])  BY <1>0, <4>2, <5>1, <5>2
        <5>4. k = <<f.key[1], Latest(f.key[1])>>  BY <4>2, <4>4, <5>1
        <5> QED  BY <1>2, <3>2, <5>3, <5>4
      <4> QED  BY <4>3, <4>4
    <3> QED  BY <3>1, <3>2
  <2>4. ASSUME NEW r \in ToSet(replicas)  PROVE \E e \in ToSet(latest') : e[1] = r[1][1] /\ e[2] >= r[1][2]
    <3>1. PICK e \in ToSet(latest) : e[1] = r[1][1] /\ e[2] >= r[1][2]  BY DEF Remembered
    <3>2. CASE e[1] # f.key[1]  BY <2>1, <3>1, <3>2
    <3>3. CASE e[1] = f.key[1]
      <4>1. e[2] \in Nat /\ e[2] <= f.key[2]  BY <2>2, <3>3
      <4>2. r[1][2] \in Nat
        <5>1. \A i \in DOMAIN replicas : replicas[i] \in Keys \X Contents
          BY DEF Typed, ReceiverTyped
        <5>2. r \in Keys \X Contents  BY <5>1 DEF ToSet
        <5> QED  BY <5>2, Constants
      <4>3. f.key[2] >= r[1][2]  BY <1>0, <3>1, <4>1, <4>2
      <4> QED  BY <2>1, <3>1, <3>3, <4>3
    <3> QED  BY <3>2, <3>3
  <2> QED  BY <1>0, <2>1, <2>3, <2>4 DEF Remembered, LatestTyped, Open
<1> QED  BY <1>1, <1>2, BeginEffect

LEMMA CommitRemembered ==
  ASSUME Typed, RecentExact, Remembered, NEW f \in net, NEW breaks \in BOOLEAN,
         ReceiveCommit(f, breaks), Publishes(f, breaks)
  PROVE  Remembered'
<1>1. latest' = latest /\ DOMAIN active' \subseteq Open /\ Typed'  BY CommitEffect
<1>2. /\ Len(replicas') = Len(replicas) + 1
      /\ replicas'[Len(replicas) + 1] = <<f.key, Whole(f.key, f.ctx)>>
      /\ \A i \in 1 .. Len(replicas) : replicas'[i] = replicas[i]
  BY PublishEffect
<1>3. /\ DOMAIN replicas = 1 .. Len(replicas) /\ DOMAIN replicas' = 1 .. Len(replicas')
      /\ Len(replicas) \in Nat
  BY <1>1 DEF Typed, ReceiverTyped
<1>4. ASSUME NEW r \in ToSet(replicas')  PROVE \E e \in ToSet(latest) : e[1] = r[1][1] /\ e[2] >= r[1][2]
  <2>1. PICK i \in 1 .. Len(replicas) + 1 : replicas'[i] = r  BY <1>2, <1>3 DEF ToSet
  <2>2. CASE i = Len(replicas) + 1
    <3>1. r[1] = f.key  BY <1>2, <2>1, <2>2
    <3>2. f.key \in ToSet(latest)  BY DEF Publishes, Remembered
    <3>3. f.key[2] \in Nat  BY FrameFields, Constants
    <3> QED  BY <3>1, <3>2, <3>3
  <2>3. CASE i \in 1 .. Len(replicas)
    <3>1. r \in ToSet(replicas)  BY <1>2, <1>3, <2>1, <2>3 DEF ToSet
    <3> QED  BY <3>1 DEF Remembered
  <2> QED  BY <1>3, <2>2, <2>3
<1> QED  BY <1>1, <1>4 DEF Remembered, LatestTyped, Open

LEMMA RememberedStep ==
  ASSUME Typed, RecentExact, GenerationsFit, Remembered, [Next]_vars
  PROVE  Remembered'
<1>1. CASE SenderStep
  <2>1. UNCHANGED receiver  BY <1>1, SenderStepTyped
  <2> QED  BY <2>1, QuietRemembered DEF receiver, Open
<1>2. ASSUME NEW x \in Keys, ExpireInactive(x)  PROVE Remembered'
  BY <1>2, ExpireEffect, QuietRemembered
<1>3. ASSUME NEW f \in net, ReceiveStale(f)  PROVE Remembered'
  <2>1. UNCHANGED <<active, latest, replicas>>  BY <1>3, StaleEffect
  <2> QED  BY <2>1, QuietRemembered DEF Open
<1>4. ASSUME NEW f \in net, ReceiveBegin(f)  PROVE Remembered'  BY <1>4, BeginRemembered
<1>5. ASSUME NEW f \in net, ReceiveAbort(f)  PROVE Remembered'
  BY <1>5, AbortEffect, QuietRemembered
<1>6. ASSUME NEW f \in net, NEW breaks \in BOOLEAN, ReceivePut(f, breaks)  PROVE Remembered'
  BY <1>6, PutEffect, QuietRemembered
<1>7. ASSUME NEW f \in net, NEW breaks \in BOOLEAN, ReceiveCommit(f, breaks)  PROVE Remembered'
  <2>1. CASE Publishes(f, breaks)  BY <1>7, <2>1, CommitRemembered
  <2>2. CASE ~Publishes(f, breaks)  BY <1>7, <2>2, CommitEffect, QuietRemembered
  <2> QED  BY <2>1, <2>2
<1>8. CASE UNCHANGED vars
  <2>1. UNCHANGED receiver  BY <1>8 DEF vars
  <2> QED  BY <2>1, QuietRemembered DEF receiver, Open
<1> QED  BY <1>1, <1>2, <1>3, <1>4, <1>5, <1>6, <1>7, <1>8, Steps
-----------------------------------------------------------------------------
(* The inductive invariant, and the results *)

IInv ==
    /\ Typed /\ RecentExact /\ AckTrue /\ SentOrDegraded
    /\ GenerationsFit => Remembered

LEMMA InvInit ==
  ASSUME Init  PROVE IInv
<1>1. Typed  BY TypedInit
<1>2. replicas = <<>> /\ committed = <<>> /\ latest = <<>> /\ acks = {} /\ Open = {}
      /\ \A k \in Keys : driver[k].at = 0
  BY DEF Init, Open
<1>3. Len(<<>>) = 0 /\ \A s : s = <<>> => ToSet(s) = {}
  BY EmptySeq DEF ToSet
<1>4. RecentExact  BY <1>2, <1>3, Constants DEF RecentExact
<1>5. AckTrue  BY <1>2 DEF AckTrue
<1>6. SentOrDegraded
  <2>1. \A k \in Keys : 0 # Size[k] + 2  BY Constants
  <2> QED  BY <1>2, <2>1 DEF SentOrDegraded, Sent
<1>7. Remembered
  <2>1. LatestTyped /\ OncePerId(latest)  BY <1>2, <1>3, EmptySeq DEF LatestTyped, OncePerId
  <2>2. ToSet(replicas) = {}  BY <1>2, <1>3
  <2> QED  BY <1>2, <2>1, <2>2 DEF Remembered
<1> QED  BY <1>1, <1>4, <1>5, <1>6, <1>7 DEF IInv

LEMMA InvStep ==
  ASSUME IInv, [Next]_vars  PROVE IInv'
<1>1. Typed /\ RecentExact /\ AckTrue /\ SentOrDegraded /\ (GenerationsFit => Remembered)  BY DEF IInv
<1>2. Typed'  BY <1>1, TypedStep
<1>3. RecentExact'  BY <1>1, RecentStep
<1>4. AckTrue'  BY <1>1, AckStep
<1>5. SentOrDegraded'  BY <1>1, SentStep
<1>6. GenerationsFit => Remembered'  BY <1>1, RememberedStep
<1>7. GenerationsFit' = GenerationsFit  BY DEF GenerationsFit
<1> QED  BY <1>2, <1>3, <1>4, <1>5, <1>6, <1>7 DEF IInv

LEMMA InvAlways == Spec => []IInv
<1>1. Init => IInv  BY InvInit
<1>2. IInv /\ [Next]_vars => IInv'  BY InvStep
<1> QED  BY <1>1, <1>2, PTL DEF Spec

\* Both sides keep their limits, and when the sender holds the answer to its COMMIT and
\* never fell back to local-only for the entry, the buddy has published it, however late,
\* repeated or mixed up the answers are (BuddySender.acknowledge, BuddyReceiver._commit).
THEOREM AnswerIsTrue == Spec => []CommitBelieved
<1>1. IInv => CommitBelieved
  <2> SUFFICES ASSUME IInv  PROVE CommitBelieved  OBVIOUS
  <2>1. TypeOK  BY DEF IInv, Typed, ReceiverTyped, SenderTyped, WireTyped, TypeOK
  <2>2. \A k \in Keys : Sent(k)  BY DEF IInv, SentOrDegraded
  <2> QED  BY <2>1, <2>2 DEF CommitBelieved, Sent, HasReplica
<1> QED  BY <1>1, InvAlways, PTL

\* The receiver implements ReplicaPublication: a replica appears at once, as a whole, with
\* the content of one COMMIT, stays, and is not published again while it is remembered.
THEOREM PublicationIsWhole == Spec => PublishesWhole
<1>1. Init => Publication!Init  BY PublicationInit
<1>2. IInv /\ [Next]_vars => [Publication!Next]_<<Seals, replicas>>
  BY PublicationStep DEF IInv
<1>3. IInv /\ [Next]_vars =>
        [Publication!Next]_<<{<<f.key, Whole(f.key, f.ctx)>> : f \in {g \in net : g.type = "commit" /\ g.fine}}, replicas>>
  BY <1>2 DEF Seals, FineCommits
<1> QED  BY <1>1, <1>3, InvAlways, PTL DEF Spec, PublishesWhole, Publication!Spec

\* Once a generation is published, an older one is neither opened nor published again:
\* every frame of it is refused (BuddyReceiver.receive, _check_generation), as long as no
\* transaction id has to be forgotten.
THEOREM OlderIsRefused == Spec => Superseded
<1> DEFINE Above(k) == \A r \in ToSet(replicas) : r[1][1] = k[1] => r[1][2] <= k[2]
           Shown(k) == \/ k \in DOMAIN active' \ Open
                       \/ \E i \in DOMAIN replicas' \ DOMAIN replicas : replicas'[i][1] = k
<1>1. ASSUME IInv, GenerationsFit, NEW f \in net, f.key \in Keys, ~Stale(f)  PROVE Above(f.key)
  <2> SUFFICES ASSUME NEW r \in ToSet(replicas), r[1][1] = f.key[1]  PROVE r[1][2] <= f.key[2]
    OBVIOUS
  <2>1. Remembered  BY <1>1 DEF IInv
  <2>2. PICK e \in ToSet(latest) : e[1] = r[1][1] /\ e[2] >= r[1][2]  BY <2>1 DEF Remembered
  <2>3. Latest(f.key[1]) = e[2] /\ e[2] \in Nat  BY <2>1, <2>2, LatestIs DEF Remembered
  <2>4. f.key[2] \in Nat  BY <1>1, Constants
  <2>5. r[1][2] \in Nat
    <3>1. \A i \in DOMAIN replicas : replicas[i] \in Keys \X Contents
      BY <1>1 DEF IInv, Typed, ReceiverTyped
    <3>2. r \in Keys \X Contents  BY <3>1 DEF ToSet
    <3> QED  BY <3>2, Constants
  <2> QED  BY <1>1, <2>2, <2>3, <2>4, <2>5 DEF Stale
<1>2. ASSUME IInv, GenerationsFit, [Next]_vars, NEW k \in Keys, Shown(k)  PROVE Above(k)
  <2>0. Typed /\ RecentExact  BY <1>2 DEF IInv
  <2>1. CASE UNCHANGED receiver
    BY <1>2, <2>1 DEF receiver, Open
  <2>2. ASSUME NEW x \in Keys, ExpireInactive(x)  PROVE ~Shown(k)
    BY <2>0, <2>2, ExpireEffect
  <2>3. ASSUME NEW f \in net, ReceiveStale(f)  PROVE ~Shown(k)
    BY <2>0, <2>3, StaleEffect DEF Open
  <2>4. ASSUME NEW f \in net, ReceiveBegin(f)  PROVE Above(k)
    <3>1. /\ ~Stale(f) /\ f.key \in Keys /\ replicas' = replicas
          /\ DOMAIN active' \subseteq Open \cup {f.key}
      BY <2>0, <2>4, BeginEffect, FrameFields
    <3>2. k = f.key  BY <1>2, <3>1
    <3> QED  BY <1>1, <1>2, <3>1, <3>2
  <2>5. ASSUME NEW f \in net, ReceiveAbort(f)  PROVE ~Shown(k)  BY <2>0, <2>5, AbortEffect
  <2>6. ASSUME NEW f \in net, NEW breaks \in BOOLEAN, ReceivePut(f, breaks)  PROVE ~Shown(k)
    BY <2>0, <2>6, PutEffect
  <2>7. ASSUME NEW f \in net, NEW breaks \in BOOLEAN, ReceiveCommit(f, breaks), ~Publishes(f, breaks)
        PROVE  ~Shown(k)
    BY <2>0, <2>7, CommitEffect
  <2>8. ASSUME NEW f \in net, NEW breaks \in BOOLEAN, ReceiveCommit(f, breaks), Publishes(f, breaks)
        PROVE  Above(k)
    <3>1. ~Stale(f) /\ f.key \in Keys /\ DOMAIN active' \subseteq Open /\ Typed'
      BY <2>0, <2>8, CommitEffect, FrameFields
    <3>2. /\ Len(replicas') = Len(replicas) + 1
          /\ replicas'[Len(replicas) + 1] = <<f.key, Whole(f.key, f.ctx)>>
      BY <2>0, <2>8, PublishEffect
    <3>3. PICK i \in DOMAIN replicas' \ DOMAIN replicas : replicas'[i][1] = k  BY <1>2, <3>1
    <3>4. i = Len(replicas) + 1
      <4>1. /\ DOMAIN replicas = 1 .. Len(replicas) /\ DOMAIN replicas' = 1 .. Len(replicas')
            /\ Len(replicas) \in Nat
        BY <2>0, <3>1 DEF Typed, ReceiverTyped
      <4> QED  BY <3>2, <3>3, <4>1
    <3>5. k = f.key  BY <3>2, <3>3, <3>4
    <3> QED  BY <1>1, <1>2, <3>1, <3>5
  <2>9. CASE SenderStep  BY <2>0, <2>1, <2>9, SenderStepTyped
  <2>10. CASE UNCHANGED vars  BY <2>1, <2>10 DEF vars
  <2> QED  BY <1>2, <2>2, <2>3, <2>4, <2>5, <2>6, <2>7, <2>8, <2>9, <2>10, Steps
<1>3. IInv /\ [Next]_vars => (GenerationsFit => \A k \in Keys : Shown(k) => Above(k))
  BY <1>2
<1> QED  BY <1>3, InvAlways, PTL DEF Spec, Superseded
=============================================================================
