------------------------- MODULE PageBaseReadsProofs -------------------------
(***************************************************************************)
(* TLAPS proofs about PageBaseReads, for any number of loader threads,     *)
(* requests and bases, any sizes and any limits.                           *)
(*                                                                         *)
(* The tables of PageBaseReadFlights agree (NothingRetained) because a     *)
(* flight belongs to one base (Numbered).  What a thread may still believe *)
(* of the flight it read or waits for without the lock is that the flight  *)
(* is one of its base (Bound), even when another one has taken its place.  *)
(*                                                                         *)
(* Every unfinished load has one owner (OneOwner): the queue, the deferred *)
(* table and what the threads hold share the unfinished loads out (Shared),*)
(* which needs that nobody is listed twice in any of them.  The threads    *)
(* stop (LoadersExit) because from shutdown() on there is a sentinel for   *)
(* each of them, or a load whose cleanup queues the sentinels (Ending).    *)
(***************************************************************************)
EXTENDS PageBaseReads, FiniteSetTheorems, WellFoundedInduction, TLAPS

FlightRecord ==
    [key : Keys, state : {"registered", "reading", "ready", "error", "closed"},
     members : SUBSET Requests, cancelled : SUBSET Requests,
     leader : Requests, joined : Nat, result : Optional(Keys)]

\* The tables of PageBaseReadFlights.
ReadsTyped ==
    /\ flight \in Seq(FlightRecord) /\ current \in [Keys -> Optional(DOMAIN flight)]
    /\ member \in [Requests -> Optional(Keys)] /\ closed \in BOOLEAN

\* A flight is filed under its base, and keeps nothing but the bytes of its base.
Numbered ==
    /\ \A k \in Keys : current[k] # None => flight[current[k]].key = k
    /\ \A i \in DOMAIN flight : flight[i].result \in {flight[i].key, None}

\* The fields of a loader thread that the coordinator is called with.
Typed(L) ==
    /\ DOMAIN L = DOMAIN Idle /\ L.then \in {"idle", "publish", "cleanup"}
    /\ L.pc = "hand" => L.todo \subseteq Requests
    /\ L.pc \in {"resolve", "reading", "waiting"} => L.key \in Keys

\* The flight a thread reads or waits for is one of the base it seeks.
Bound(L) == L.pc \in {"reading", "waiting"} => L.ref \in DOMAIN flight /\ flight[L.ref].key = L.key

\* Base bytes reach a thread only where it releases the followers of that base and
\* reports its load.
Carried(L) ==
    L.got # None => /\ L.pc \in {"release", "select", "publish"}
                    /\ L.then # "cleanup"
                    /\ L.got \in Keys /\ L.todo \cup {L.key} \subseteq {L.got, None}

LanesOK ==
    /\ lane = [l \in Lanes |-> lane[l]] /\ cancelled \subseteq Requests
    /\ \A l \in Lanes : Typed(lane[l]) /\ Bound(lane[l]) /\ Carried(lane[l])

IInv == ReadsTyped /\ Numbered /\ NothingRetained /\ LanesOK
-----------------------------------------------------------------------------
LEMMA RequestsFinite == IsFiniteSet(Requests) /\ Requests \subseteq Nat
BY FS_Interval, BaseReadConstants DEF Requests

\* The first request of a set leads.
LEMMA Leads ==
    ASSUME NEW Q \in SUBSET Requests, Q # {}
    PROVE  (CHOOSE q \in Q : \A p \in Q : q <= p) \in Q
<1>1. Q \subseteq Nat
  BY RequestsFinite
<1> DEFINE Below == {1 .. q : q \in Q}
<1>2. Below \subseteq FiniteSubsetsOf(Nat) /\ Below # {}
  <2>1. \A q \in Q : q \in Int /\ 1 .. q \subseteq Nat
    BY <1>1
  <2>2. \A q \in Q : IsFiniteSet(1 .. q)
    BY <2>1, FS_Interval
  <2>3. \A q \in Q : 1 .. q \in FiniteSubsetsOf(Nat)
    BY <2>1, <2>2 DEF FiniteSubsetsOf
  <2> QED
    BY <2>3
<1>3. PICK S \in Below : \A T \in Below : <<T, S>> \notin StrictSubsetOrdering(Nat)
  <2> HIDE DEF Below
  <2> QED
    BY <1>2, WFMin, FS_StrictSubsetOrderingWellFounded
<1>4. PICK q \in Q : S = 1 .. q
  OBVIOUS
<1>5. ASSUME NEW p \in Q
      PROVE  q <= p
  <2>1. ~ (1 .. p \subseteq 1 .. q /\ 1 .. p # 1 .. q)
    <3>1. 1 .. p \in Below /\ <<1 .. p, 1 .. q>> \notin StrictSubsetOrdering(Nat)
      BY <1>3, <1>4
    <3>2. 1 .. p \in SUBSET Nat /\ 1 .. q \in SUBSET Nat
      BY <1>1
    <3>3. PICK A, B : A = 1 .. p /\ B = 1 .. q
      OBVIOUS
    <3> QED
      BY <3>1, <3>2, <3>3 DEF StrictSubsetOrdering
  <2>2. p \in Nat /\ q \in Nat
    BY <1>1
  <2>3. p < q => 1 .. p \subseteq 1 .. q /\ q \in 1 .. q /\ q \notin 1 .. p
    BY <2>2
  <2> QED
    BY <2>1, <2>2, <2>3
<1> QED
  BY <1>5

\* _finish_locked keeps the tables consistent: of flight, and of what a reader
\* makes of flight before it leaves.
LEMMA FinishKeeps ==
    ASSUME ReadsTyped, Numbered, NothingRetained, closed' \in BOOLEAN,
           NEW Q, NEW f \in Seq(FlightRecord), DOMAIN f = DOMAIN flight,
           \A i \in DOMAIN f : f[i].key = flight[i].key /\ f[i].members = flight[i].members,
           \A i \in DOMAIN f : f[i].result # None =>
              f[i].result = f[i].key /\ \E k \in Keys : current[k] = i,
           Finish(f, Q)
    PROVE  /\ ReadsTyped' /\ Numbered' /\ NothingRetained'
           /\ DOMAIN flight' = DOMAIN flight
           /\ \A i \in DOMAIN flight : flight'[i].key = flight[i].key
<1> DEFINE own(i) == {q \in Q : member[q] # None /\ current[member[q]] = i}
           empty(i) == own(i) # {} /\ f[i].members \subseteq own(i)
<1>1. /\ flight' = [i \in DOMAIN f |-> [f[i] EXCEPT !.members = @ \ own(i), !.cancelled = @ \ own(i),
                                                     !.result = IF empty(i) THEN None ELSE @]]
      /\ current' = [k \in Keys |-> IF current[k] # None /\ empty(current[k]) THEN None ELSE current[k]]
      /\ member' = [q \in Requests |-> IF q \in Q THEN None ELSE member[q]]
  BY DEF Finish, Finished
<1>2. \A i \in DOMAIN f : f[i] \in FlightRecord /\ flight[i].members = f[i].members
  OBVIOUS
<1>3. \A i \in DOMAIN flight :
        /\ flight'[i] \in FlightRecord /\ flight'[i].key = flight[i].key
        /\ flight'[i].members = flight[i].members \ own(i)
        /\ flight'[i].result = IF empty(i) THEN None ELSE f[i].result
  <2> SUFFICES ASSUME NEW i \in DOMAIN flight
               PROVE  /\ flight'[i] \in FlightRecord /\ flight'[i].key = flight[i].key
                      /\ flight'[i].members = flight[i].members \ own(i)
                      /\ flight'[i].result = IF empty(i) THEN None ELSE f[i].result
    OBVIOUS
  <2>1. PICK M, C, r : /\ M = f[i].members \ own(i) /\ C = f[i].cancelled \ own(i)
                       /\ r = IF empty(i) THEN None ELSE f[i].result
    OBVIOUS
  <2>2. flight'[i] = [f[i] EXCEPT !.members = M, !.cancelled = C, !.result = r]
    BY <1>1, <2>1, Zenon
  <2>3. f[i] \in FlightRecord /\ flight[i].members = f[i].members /\ f[i].key = flight[i].key
    BY <1>2
  <2>4. M \subseteq Requests /\ C \subseteq Requests /\ r \in Optional(Keys)
    BY <2>1, <2>3 DEF FlightRecord, Optional
  <2> HIDE DEF own, empty
  <2> QED
    BY <2>1, <2>2, <2>3, <2>4 DEF FlightRecord
<1>4. DOMAIN flight' = DOMAIN flight /\ flight' \in Seq(FlightRecord)
  <2>1. PICK n \in Nat : DOMAIN f = 1 .. n
    OBVIOUS
  <2>2. flight' \in [1 .. n -> FlightRecord]
    BY <1>1, <1>3, <2>1
  <2> QED
    BY <2>1, <2>2
<1>5. \A k, j \in Keys : current[k] # None /\ current[j] = current[k] => j = k
  BY DEF Numbered
<1>6. \A k \in Keys : current[k] # None => current[k] \in DOMAIN flight
  BY DEF ReadsTyped, Optional
<1>7. ASSUME NEW k \in Keys, current[k] # None, NEW q \in Q \cap Requests
      PROVE  q \in own(current[k]) <=> member[q] = k
  <2>1. member[q] \in Optional(Keys)
    BY DEF ReadsTyped
  <2> QED
    BY <1>5, <1>7, <2>1, BaseReadConstants DEF Optional
<1>9. \A k \in Keys : current'[k] = IF current[k] # None /\ empty(current[k]) THEN None ELSE current[k]
  BY <1>1
<1>10. \A q \in Requests : member'[q] = IF q \in Q THEN None ELSE member[q]
  BY <1>1
<1>11. ReadsTyped'
  <2>1. current' \in [Keys -> Optional(DOMAIN flight)]
    BY <1>1 DEF ReadsTyped, Optional
  <2>2. member' \in [Requests -> Optional(Keys)]
    BY <1>1 DEF ReadsTyped, Optional
  <2> QED
    BY <1>4, <2>1, <2>2 DEF ReadsTyped
<1>12. Numbered'
  BY <1>3, <1>4, <1>6, <1>9 DEF Numbered
<1> HIDE DEF own, empty
<1>13. \A k \in Keys, q \in Requests : current[k] # None =>
          (q \in flight[current[k]].members <=> member[q] = k)
  BY DEF NothingRetained
<1>14. NothingRetained'
  <2>1. ASSUME NEW k \in Keys, current'[k] # None
        PROVE  flight'[current'[k]].members # {}
    <3>1. current[k] # None /\ current'[k] = current[k] /\ ~ empty(current[k])
      BY <1>9, <2>1
    <3>2. flight[current[k]].members # {}
      BY <3>1 DEF NothingRetained, Active
    <3>3. f[current[k]].members = flight[current[k]].members
      BY <1>6, <3>1
    <3> QED
      BY <1>3, <1>6, <3>1, <3>2, <3>3 DEF empty
  <2>2. ASSUME NEW i \in DOMAIN flight, flight'[i].result # None
        PROVE  \E k \in Keys : current'[k] = i
    BY <1>3, <1>9, <2>2
  <2>3. ASSUME NEW q \in Requests, NEW k \in Keys
        PROVE  member'[q] = k <=> current'[k] # None /\ q \in flight'[current'[k]].members
    <3>1. CASE current[k] = None
      <4>1. member[q] # k
        BY <3>1 DEF NothingRetained
      <4> QED
        BY <1>9, <1>10, <3>1, <4>1, BaseReadConstants
    <3>2. CASE current[k] # None
      <4>1. PICK i \in DOMAIN flight : i = current[k]
        BY <1>6, <3>2
      <4>2. q \in flight[i].members <=> member[q] = k
        BY <1>13, <3>2, <4>1
      <4>3. q \in Q => (q \in own(i) <=> member[q] = k)
        BY <1>7, <3>2, <4>1
      <4>4. own(i) \subseteq Q
        BY DEF own
      <4>5. empty(i) => flight[i].members \subseteq own(i)
        BY <4>1 DEF empty
      <4> QED
        BY <1>3, <1>9, <1>10, <3>2, <4>1, <4>2, <4>3, <4>4, <4>5, BaseReadConstants
    <3> QED
      BY <3>1, <3>2
  <2> QED
    BY <1>4, <2>1, <2>2, <2>3 DEF NothingRetained, Active
<1> QED
  BY <1>3, <1>4, <1>11, <1>12, <1>14

\* A flight never changes its base, and none is forgotten.
Grows == DOMAIN flight \subseteq DOMAIN flight' /\ \A i \in DOMAIN flight : flight'[i].key = flight[i].key

\* register_cohort keeps the tables consistent.
LEMMA RegisterKeeps ==
    ASSUME ReadsTyped, Numbered, NothingRetained, NEW k \in Keys,
           NEW Q \in SUBSET Requests, \A q \in Q : member[q] = None, RegisterCohort(k, Q)
    PROVE  ReadsTyped' /\ Numbered' /\ NothingRetained' /\ Grows
<1>1. CASE Q = {}
  <2>1. UNCHANGED reads
    BY <1>1 DEF RegisterCohort
  <2> QED
    BY <2>1 DEF reads, ReadsTyped, Numbered, NothingRetained, Active, Grows
<1>2. CASE Q # {}
  <2> DEFINE F == Joined(k, Q)
             old == IF current[k] = None THEN NewFlight(k) ELSE flight[current[k]]
  <2>1. PICK n \in Nat : n = Len(flight) /\ DOMAIN flight = 1 .. n
    BY DEF ReadsTyped
  <2>2. \A i \in DOMAIN flight : flight[i] \in FlightRecord
    BY DEF ReadsTyped
  <2>3. \A j \in Keys : current[j] # None => current[j] \in DOMAIN flight
    BY DEF ReadsTyped, Optional
  <2>4. \A q \in Q : q \in Requests
    OBVIOUS
  <2>5. Cardinality(Q) \in Nat
    BY RequestsFinite, FS_Subset, FS_CardinalityType
  <2>6. (CHOOSE q \in Q : \A p \in Q : q <= p) \in Requests
    BY <1>2, Leads
  <2>7. PICK first \in Requests, size \in Nat :
          first = (CHOOSE q \in Q : \A p \in Q : q <= p) /\ size = Cardinality(Q)
    BY <2>5, <2>6
  <2>8. F = [old EXCEPT !.members = @ \cup Q, !.joined = @ + size,
                        !.leader = IF @ = None THEN first ELSE @]
    BY <2>7 DEF Joined
  <2>9. F \in FlightRecord /\ F.key = k /\ F.members = old.members \cup Q /\ F.result = old.result
    <3>1. CASE current[k] = None
      <4>1. old = [key |-> k, state |-> "registered", members |-> {}, cancelled |-> {},
                   leader |-> None, joined |-> 0, result |-> None]
        BY <3>1 DEF NewFlight
      <4> HIDE DEF old, F
      <4>2. F = [old EXCEPT !.members = Q, !.joined = size, !.leader = first]
        <5>1. old.members \cup Q = Q /\ old.joined + size = size /\ old.leader = None
          BY <4>1
        <5> QED
          BY <2>8, <5>1, Zenon
      <4> QED
        BY <4>1, <4>2 DEF FlightRecord, Optional
    <3>2. CASE current[k] # None
      <4>1. old \in FlightRecord /\ old.key = k
        BY <2>2, <2>3, <3>2 DEF Numbered
      <4> HIDE DEF old, F
      <4>2. PICK M, j, h : M = old.members \cup Q /\ j = old.joined + size
                           /\ h = IF old.leader = None THEN first ELSE old.leader
        OBVIOUS
      <4>3. F = [old EXCEPT !.members = M, !.joined = j, !.leader = h]
        BY <2>8, <4>2, Zenon
      <4>4. M \in SUBSET Requests /\ j \in Nat /\ h \in Requests
        BY <4>1, <4>2 DEF FlightRecord
      <4> QED
        BY <4>1, <4>2, <4>3, <4>4 DEF FlightRecord
    <3> QED
      BY <3>1, <3>2
  <2> HIDE DEF F, old
  <2>10. PICK i \in Nat : i = IF current[k] = None THEN n + 1 ELSE current[k]
    BY <2>1, <2>3
  <2>11. i \in 1 .. n + 1 /\ (i = n + 1 <=> current[k] = None)
    BY <2>1, <2>3, <2>10
  <2>12. /\ DOMAIN flight' = DOMAIN flight \cup {i} /\ flight' \in Seq(FlightRecord)
         /\ flight'[i] = F
         /\ \A j \in DOMAIN flight : j # i => flight'[j] = flight[j]
         /\ current' = [current EXCEPT ![k] = i]
    <3>1. CASE current[k] = None
      <4>1. flight' = Append(flight, F) /\ current' = [current EXCEPT ![k] = Len(flight) + 1]
        BY <1>2, <3>1 DEF RegisterCohort, F
      <4> QED
        BY <2>1, <2>9, <2>10, <3>1, <4>1 DEF ReadsTyped
    <3>2. CASE current[k] # None
      <4>1. flight' = [flight EXCEPT ![i] = F] /\ current' = current
        BY <1>2, <2>10, <3>2 DEF RegisterCohort, F
      <4>2. i \in DOMAIN flight
        BY <2>3, <2>10, <3>2
      <4> QED
        BY <2>1, <2>9, <2>10, <3>2, <4>1, <4>2 DEF ReadsTyped
    <3> QED
      BY <3>1, <3>2
  <2>13. member' = [q \in Requests |-> IF q \in Q THEN k ELSE member[q]] /\ closed' = closed
    BY <1>2 DEF RegisterCohort
  <2>14. ReadsTyped'
    <3>1. current' \in [Keys -> Optional(DOMAIN flight')]
      BY <2>12 DEF ReadsTyped, Optional
    <3>2. member' \in [Requests -> Optional(Keys)]
      BY <2>13 DEF ReadsTyped, Optional
    <3> QED
      BY <2>12, <2>13, <3>1, <3>2 DEF ReadsTyped
  <2>15. \A j \in Keys : j # k => current'[j] = current[j] /\ (current[j] # None => current[j] # i)
    BY <2>1, <2>3, <2>10, <2>12 DEF Numbered, ReadsTyped
  <2>16. current'[k] = i /\ i # None
    BY <2>10, <2>12, BaseReadConstants DEF ReadsTyped
  <2>17. \A j \in DOMAIN flight : flight'[j].key = flight[j].key
    BY <2>2, <2>9, <2>10, <2>11, <2>1, <2>12 DEF Numbered
  <2>18. \A j \in DOMAIN flight' : flight'[j].result \in {flight'[j].key, None}
    <3>1. F.result \in {k, None}
      BY <2>3, <2>9 DEF old, NewFlight, Numbered
    <3> QED
      BY <2>9, <2>12, <3>1 DEF Numbered
  <2>19. Numbered'
    BY <2>3, <2>9, <2>12, <2>15, <2>16, <2>18 DEF Numbered
  <2>20. \A j \in Keys : current'[j] # None => flight'[current'[j]].members # {}
    <3>1. \A j \in Keys : current[j] # None => flight[current[j]].members # {}
      BY DEF NothingRetained, Active
    <3> QED
      BY <1>2, <2>3, <2>9, <2>12, <2>15, <2>16, <3>1
  <2>21. \A j \in DOMAIN flight' : flight'[j].result # None => \E x \in Keys : current'[x] = j
    <3>1. ASSUME NEW j \in DOMAIN flight', flight'[j].result # None
          PROVE  \E x \in Keys : current'[x] = j
      <4>1. CASE j = i
        BY <2>16, <4>1
      <4>2. CASE j # i
        <5>1. j \in DOMAIN flight /\ flight[j].result # None
          BY <2>12, <3>1, <4>2
        <5>2. PICK x \in Keys : current[x] = j
          BY <5>1 DEF NothingRetained
        <5>3. x # k
          BY <2>1, <2>10, <4>2, <5>1, <5>2, BaseReadConstants
        <5> QED
          BY <2>15, <5>2, <5>3
      <4> QED
        BY <4>1, <4>2
    <3> QED
      BY <3>1
  <2>22. ASSUME NEW q \in Requests, NEW j \in Keys
         PROVE  member'[q] = j <=> current'[j] # None /\ q \in flight'[current'[j]].members
    <3>1. member'[q] = IF q \in Q THEN k ELSE member[q]
      BY <2>13
    <3>2. member[q] = j <=> current[j] # None /\ q \in flight[current[j]].members
      BY DEF NothingRetained
    <3>3. q \in Q => member[q] # j
      BY BaseReadConstants
    <3>4. CASE j = k
      <4>1. old.members = IF current[k] = None THEN {} ELSE flight[current[k]].members
        BY DEF old, NewFlight
      <4> QED
        BY <2>9, <2>12, <2>16, <3>1, <3>2, <3>3, <3>4, <4>1
    <3>5. CASE j # k
      <4>1. current'[j] = current[j] /\ (current[j] # None => current[j] # i /\ current[j] \in DOMAIN flight)
        BY <2>3, <2>15, <3>5
      <4>2. current[j] # None => flight'[current[j]] = flight[current[j]]
        BY <2>12, <4>1
      <4> QED
        BY <3>1, <3>2, <3>3, <3>5, <4>1, <4>2
    <3> QED
      BY <3>4, <3>5
  <2>23. NothingRetained'
    BY <2>20, <2>21, <2>22 DEF NothingRetained, Active
  <2> QED
    BY <2>12, <2>14, <2>17, <2>19, <2>23 DEF Grows
<1> QED
  BY <1>1, <1>2

\* cancel only marks members.
LEMMA CancelKeeps ==
    ASSUME ReadsTyped, Numbered, NothingRetained, NEW Q \in SUBSET Requests, CancelReads(Q),
           UNCHANGED <<current, member, closed>>
    PROVE  ReadsTyped' /\ Numbered' /\ NothingRetained' /\ Grows
<1>1. PICK n \in Nat : n = Len(flight) /\ DOMAIN flight = 1 .. n
  BY DEF ReadsTyped
<1>2. \A i \in DOMAIN flight : flight[i] \in FlightRecord
  BY DEF ReadsTyped
<1>3. ASSUME NEW i \in DOMAIN flight
      PROVE  /\ flight'[i] \in FlightRecord /\ flight'[i].key = flight[i].key
             /\ flight'[i].members = flight[i].members /\ flight'[i].result = flight[i].result
  <2>1. PICK C : C = flight[i].cancelled \cup {q \in Q : member[q] # None /\ current[member[q]] = i}
    OBVIOUS
  <2>2. flight'[i] = [flight[i] EXCEPT !.cancelled = C]
    BY <2>1 DEF CancelReads
  <2>3. flight[i] \in FlightRecord
    BY <1>2
  <2>4. C \in SUBSET Requests
    BY <2>1, <2>3 DEF FlightRecord
  <2> QED
    BY <2>2, <2>3, <2>4 DEF FlightRecord
<1>4. DOMAIN flight' = DOMAIN flight /\ flight' \in [1 .. n -> FlightRecord]
  BY <1>1, <1>3 DEF CancelReads
<1>5. flight' \in Seq(FlightRecord)
  BY <1>4
<1>6. \A k \in Keys : current[k] # None => current[k] \in DOMAIN flight
  BY DEF ReadsTyped, Optional
<1> QED
  BY <1>3, <1>4, <1>5, <1>6 DEF ReadsTyped, Numbered, NothingRetained, Active, Grows
-----------------------------------------------------------------------------
\* A step of one thread leaves what the other threads may believe as it is.
LEMMA LanesKept ==
    ASSUME LanesOK, Grows, cancelled' \subseteq Requests, NEW l \in Lanes, NEW r,
           Typed(r), Bound(r)', Carried(r), lane' = [lane EXCEPT ![l] = r]
    PROVE  LanesOK'
<1>1. ASSUME NEW m \in Lanes
      PROVE  Typed(lane[m])' /\ Bound(lane[m])' /\ Carried(lane[m])'
  <2>1. PICK x : x = lane[m]
    OBVIOUS
  <2>2. lane'[m] = IF m = l THEN r ELSE x
    BY <2>1 DEF LanesOK
  <2>3. Typed(x) /\ Bound(x) /\ Carried(x)
    BY <2>1 DEF LanesOK
  <2>4. Bound(x)'
    BY <2>3 DEF Bound, Grows
  <2>5. PICK y : y = lane'[m]
    OBVIOUS
  <2>6. Typed(y) /\ Bound(y)' /\ Carried(y)
    BY <2>2, <2>3, <2>4, <2>5
  <2> QED
    BY <2>5, <2>6 DEF Typed, Bound, Carried
<1>2. lane' = [m \in Lanes |-> lane'[m]]
  BY DEF LanesOK
<1> QED
  BY <1>1, <1>2 DEF LanesOK

\* A step that leaves the coordinator alone.
LEMMA ReadsKept ==
    ASSUME ReadsTyped, Numbered, NothingRetained, UNCHANGED reads
    PROVE  ReadsTyped' /\ Numbered' /\ NothingRetained' /\ Grows
BY DEF reads, ReadsTyped, Numbered, NothingRetained, Active, Grows

\* A loader thread that is done with its item.
LEMMA Fresh == Typed(Idle) /\ Bound(Idle) /\ Carried(Idle)
BY DEF Typed, Bound, Carried, Idle

\* A loader thread that sought its base.
LEMMA SoughtOK ==
    ASSUME NEW L, NEW key \in Keys, NEW got \in {key, None}
    PROVE  Typed(Sought(L, key, got)) /\ Bound(Sought(L, key, got))' /\ Carried(Sought(L, key, got))
<1>1. PICK r, q, ok : r = Sought(L, key, got) /\ q = L.q /\ ok = (got # None)
  OBVIOUS
<1>2. r = [Idle EXCEPT !.pc = "release", !.q = q, !.ok = ok, !.got = got, !.todo = {key},
                       !.then = "publish"]
  BY <1>1, Zenon DEF Sought
<1>3. Typed(r) /\ Bound(r)' /\ Carried(r)
  BY <1>2 DEF Typed, Bound, Carried, Idle
<1> QED
  BY <1>1, <1>3

\* The steps of a loader thread outside the coordinator.
LEMMA LaneStep ==
    ASSUME IInv, NEW l \in Lanes,
           \/ Take(l) \/ Defer(l) \/ Select(l) \/ Released(l) \/ Cleanup(l)
           \/ \E E \in SUBSET Requests, raises \in BOOLEAN : Prepare(l, E, raises)
           \/ \E k \in Keys : ReadState(l, k)
           \/ \E key \in Keys \cup {None}, fails \in BOOLEAN : LoadOne(l, key, fails)
           \/ \E verified \in BOOLEAN : Publish(l, verified)
    PROVE  IInv'
<1> USE DEF IInv
<1>1. PICK L : L = lane[l]
  OBVIOUS
<1>2. Typed(L) /\ Bound(L) /\ Carried(L) /\ cancelled \subseteq Requests
  BY <1>1 DEF LanesOK
<1>3. SUFFICES ASSUME UNCHANGED reads
               PROVE  cancelled' \subseteq Requests /\ \E r : /\ lane' = [lane EXCEPT ![l] = r]
                                                              /\ Typed(r) /\ Bound(r) /\ Carried(r)
  <2>1. UNCHANGED reads
    BY DEF Take, Defer, Select, Released, Cleanup, Prepare, ReadState, LoadOne, Publish
  <2>2. ASSUME NEW r, Bound(r)
        PROVE  Bound(r)'
    BY <2>1, <2>2 DEF Bound, reads
  <2> QED
    BY <1>3, <2>1, <2>2, ReadsKept, LanesKept
<1>4. cancelled' \subseteq Requests
  BY <1>2 DEF Take, Defer, Select, Released, Cleanup, Prepare, ReadState, LoadOne, Publish, work
<1> DEFINE Goal == \E r : lane' = [lane EXCEPT ![l] = r] /\ Typed(r) /\ Bound(r) /\ Carried(r)
<1>5. ASSUME Take(l)
      PROVE  Goal
  <2>1. PICK item : item = Head(queue)
    OBVIOUS
  <2>2. PICK r : r = IF item = Sentinel THEN [Idle EXCEPT !.pc = "exited"]
                     ELSE IF item.q = None THEN [Idle EXCEPT !.pc = "prepare", !.batch = item.batch]
                     ELSE [Idle EXCEPT !.pc = "load", !.q = item.q, !.ok = ~item.poisoned]
    OBVIOUS
  <2>3. lane' = [lane EXCEPT ![l] = r]
    BY <1>5, <2>1, <2>2, Zenon DEF Take
  <2>4. PICK B, q, ok : B = item.batch /\ q = item.q /\ ok = ~item.poisoned
    OBVIOUS
  <2>5. r \in {[Idle EXCEPT !.pc = "exited"], [Idle EXCEPT !.pc = "prepare", !.batch = B],
               [Idle EXCEPT !.pc = "load", !.q = q, !.ok = ok]}
    BY <2>2, <2>4
  <2>6. Typed(r) /\ Bound(r) /\ Carried(r)
    BY <2>5 DEF Typed, Bound, Carried, Idle
  <2> QED
    BY <2>3, <2>6
<1>6. ASSUME Defer(l)
      PROVE  Goal
  <2>1. PICK r : r = [L EXCEPT !.pc = "hand", !.todo = L.batch \cap cancelled]
    OBVIOUS
  <2>2. lane' = [lane EXCEPT ![l] = r] /\ L.pc = "register"
    BY <1>1, <1>6, <2>1 DEF Defer
  <2>3. Typed(r) /\ Bound(r) /\ Carried(r)
    BY <1>2, <2>1, <2>2 DEF Typed, Bound, Carried, Idle
  <2> QED
    BY <2>2, <2>3
<1>7. ASSUME Select(l)
      PROVE  Goal
  <2>1. PICK r : r = [L EXCEPT !.pc = "release", !.key = None, !.seen = None]
    OBVIOUS
  <2>2. lane' = [lane EXCEPT ![l] = r] /\ L.pc = "select"
    BY <1>1, <1>7, <2>1 DEF Select
  <2>3. Typed(r) /\ Bound(r) /\ Carried(r)
    BY <1>2, <2>1, <2>2 DEF Typed, Bound, Carried, Idle
  <2> QED
    BY <2>2, <2>3
<1>8. ASSUME Released(l)
      PROVE  Goal
  <2>1. PICK r : r = IF L.then = "idle" THEN Idle
                     ELSE [L EXCEPT !.pc = L.then, !.promote = FALSE, !.then = "idle"]
    OBVIOUS
  <2>2. lane' = [lane EXCEPT ![l] = r] /\ L.pc = "release" /\ L.todo = {}
    BY <1>1, <1>8, <2>1 DEF Released
  <2>3. Typed(r) /\ Bound(r) /\ Carried(r)
    BY <1>2, <2>1, <2>2, Fresh DEF Typed, Bound, Carried, Idle
  <2> QED
    BY <2>2, <2>3
<1>9. ASSUME Cleanup(l)
      PROVE  Goal
  BY <1>9, Fresh DEF Cleanup
<1>10. ASSUME NEW E \in SUBSET Requests, NEW raises \in BOOLEAN, Prepare(l, E, raises)
       PROVE  Goal
  <2>1. PICK r : lane' = [lane EXCEPT ![l] = r] /\ L.pc = "prepare" /\
                 \/ r = Idle
                 \/ \E B, T, K : r = [L EXCEPT !.pc = "register", !.batch = B, !.todo = T, !.keys = K]
    <3>1. PICK B, T, K : /\ B = L.batch \ cancelled /\ T = {Base[q] : q \in E}
                         /\ K = [q \in Requests |-> IF q \in E THEN Base[q] ELSE None]
      OBVIOUS
    <3>2. \/ lane' = [lane EXCEPT ![l] = Idle]
          \/ lane' = [lane EXCEPT ![l] = [L EXCEPT !.pc = "register", !.batch = B,
                                                   !.todo = T, !.keys = K]]
      BY <1>1, <1>10, <3>1, Zenon DEF Prepare
    <3>3. L.pc = "prepare"
      BY <1>1, <1>10 DEF Prepare
    <3>4. PICK e : e = [L EXCEPT !.pc = "register", !.batch = B, !.todo = T, !.keys = K]
      OBVIOUS
    <3>5. \/ lane' = [lane EXCEPT ![l] = Idle]
          \/ lane' = [lane EXCEPT ![l] = e]
      BY <3>2, <3>4
    <3>6. \E B1, T1, K1 : e = [L EXCEPT !.pc = "register", !.batch = B1, !.todo = T1, !.keys = K1]
      BY <3>4, Zenon
    <3>7. CASE lane' = [lane EXCEPT ![l] = Idle]
      BY <3>3, <3>7, Zenon
    <3>8. CASE lane' = [lane EXCEPT ![l] = e]
      BY <3>3, <3>6, <3>8, Zenon
    <3> QED
      BY <3>5, <3>7, <3>8
  <2>2. Typed(r) /\ Bound(r) /\ Carried(r)
    <3>1. CASE r = Idle
      BY <3>1, Fresh
    <3>2. ASSUME NEW B, NEW T, NEW K,
                 r = [L EXCEPT !.pc = "register", !.batch = B, !.todo = T, !.keys = K]
          PROVE  Typed(r) /\ Bound(r) /\ Carried(r)
      BY <1>2, <2>1, <3>2 DEF Typed, Bound, Carried, Idle
    <3> QED
      BY <2>1, <3>1, <3>2
  <2> QED
    BY <2>1, <2>2
<1>11. ASSUME NEW k \in Keys, ReadState(l, k)
       PROVE  Goal
  <2>1. PICK T, x, r : /\ T = L.todo \ {k} /\ x = StateOf(k)
                       /\ r = [L EXCEPT !.pc = "select", !.todo = T, !.key = k, !.seen = x]
    OBVIOUS
  <2>2. lane' = [lane EXCEPT ![l] = r] /\ L.pc = "release" /\ k \in L.todo
    <3>1. lane' = [lane EXCEPT ![l] = [L EXCEPT !.pc = "select", !.todo = T, !.key = k, !.seen = x]]
      BY <1>1, <1>11, <2>1, Zenon DEF ReadState
    <3>2. L.pc = "release" /\ k \in L.todo
      BY <1>1, <1>11 DEF ReadState
    <3> QED
      BY <2>1, <3>1, <3>2, Zenon
  <2>3. Typed(r) /\ Bound(r)
    BY <1>2, <2>1, <2>2 DEF Typed, Bound, Idle
  <2>4. Carried(r)
    <3>1. r.got = L.got /\ r.then = L.then /\ r.pc = "select" /\ r.todo = L.todo \ {k} /\ r.key = k
      BY <1>2, <2>1 DEF Typed, Idle
    <3> QED
      BY <1>2, <2>2, <3>1 DEF Carried
  <2> QED
    BY <2>2, <2>3, <2>4
<1>12. ASSUME NEW key \in Keys \cup {None}, NEW fails \in BOOLEAN, LoadOne(l, key, fails)
       PROVE  Goal
  <2>1. PICK ok, r : /\ ok = ~fails
                     /\ r = IF key = None THEN [L EXCEPT !.pc = "publish", !.ok = ok]
                            ELSE [L EXCEPT !.pc = "resolve", !.key = key]
    OBVIOUS
  <2>2. lane' = [lane EXCEPT ![l] = r] /\ L.pc = "load"
    BY <1>1, <1>12, <2>1, Zenon DEF LoadOne
  <2>3. Typed(r) /\ Bound(r) /\ Carried(r)
    BY <1>2, <2>1, <2>2 DEF Typed, Bound, Carried, Idle
  <2> QED
    BY <2>2, <2>3
<1>13. ASSUME NEW verified \in BOOLEAN, Publish(l, verified)
       PROVE  Goal
  <2>1. PICK q, r : q = L.q /\ r = [Idle EXCEPT !.pc = "leave", !.q = q]
    OBVIOUS
  <2>2. lane' = [lane EXCEPT ![l] = r]
    BY <1>1, <1>13, <2>1 DEF Publish
  <2>3. Typed(r) /\ Bound(r) /\ Carried(r)
    BY <2>1 DEF Typed, Bound, Carried, Idle
  <2> QED
    BY <2>2, <2>3
<1> HIDE DEF Goal
<1>14. Goal
  BY <1>5, <1>6, <1>7, <1>8, <1>9, <1>10, <1>11, <1>12, <1>13
<1> QED
  BY <1>4, <1>14 DEF Goal

\* _finish_locked, called with the flights as they are.
LEMMA LeaveKeeps ==
    ASSUME ReadsTyped, Numbered, NothingRetained, closed' \in BOOLEAN, NEW Q, Finish(flight, Q)
    PROVE  ReadsTyped' /\ Numbered' /\ NothingRetained' /\ Grows
<1>1. PICK f : f = flight
  OBVIOUS
<1>2. f \in Seq(FlightRecord) /\ DOMAIN f = DOMAIN flight
  BY <1>1 DEF ReadsTyped
<1>3. \A i \in DOMAIN f : f[i].result # None => f[i].result = f[i].key /\ \E k \in Keys : current[k] = i
  BY <1>1 DEF Numbered, NothingRetained
<1>4. Finish(f, Q)
  BY <1>1 DEF Finish
<1> QED
  BY <1>1, <1>2, <1>3, <1>4, FinishKeeps DEF Grows

\* Loads that register are members of no flight yet.
LEMMA RegisterStep ==
    ASSUME IInv, NEW l \in Lanes, NEW k \in Keys, Register(l, k)
    PROVE  IInv'
<1> USE DEF IInv
<1>1. PICK L : L = lane[l]
  OBVIOUS
<1>2. Typed(L) /\ Bound(L) /\ Carried(L) /\ cancelled \subseteq Requests /\ L.pc = "register"
  BY <1>1 DEF LanesOK, Register
<1>3. PICK Q : Q = {q \in Requests : L.keys[q] = k}
  OBVIOUS
<1>4. PICK A : A = Accepted(k, Q)
  OBVIOUS
<1>5. RegisterCohort(k, A) /\ UNCHANGED work
  BY <1>1, <1>3, <1>4 DEF Register
<1>6. A \in SUBSET Requests /\ \A q \in A : member[q] = None
  BY <1>3, <1>4 DEF Accepted
<1>7. ReadsTyped' /\ Numbered' /\ NothingRetained' /\ Grows
  BY <1>5, <1>6, RegisterKeeps
<1>8. \E first, T, R, E, K :
        lane' = [lane EXCEPT ![l] = [L EXCEPT !.todo = T, !.run = R, !.late = E, !.keys = K]]
  BY <1>1 DEF Register
<1>9. PICK T, R, E, K :
        lane' = [lane EXCEPT ![l] = [L EXCEPT !.todo = T, !.run = R, !.late = E, !.keys = K]]
  BY <1>8
<1>10. PICK r : r = [L EXCEPT !.todo = T, !.run = R, !.late = E, !.keys = K]
  OBVIOUS
<1>11. Typed(r) /\ Bound(r)' /\ Carried(r)
  BY <1>2, <1>10 DEF Typed, Bound, Carried, Idle
<1>12. lane' = [lane EXCEPT ![l] = r] /\ cancelled' \subseteq Requests
  BY <1>2, <1>5, <1>9, <1>10 DEF work
<1> QED
  BY <1>7, <1>11, <1>12, LanesKept

\* Only requests are cancelled.
LEMMA HandStep ==
    ASSUME IInv, NEW l \in Lanes, Hand(l)
    PROVE  IInv'
<1> USE DEF IInv
<1>1. PICK L : L = lane[l]
  OBVIOUS
<1>2. Typed(L) /\ Bound(L) /\ Carried(L) /\ cancelled \subseteq Requests /\ L.pc = "hand"
  BY <1>1 DEF LanesOK, Hand
<1>3. CancelReads(L.todo) /\ UNCHANGED <<current, member, closed, cancelled>>
  BY <1>1 DEF Hand
<1>4. L.todo \in SUBSET Requests
  BY <1>2 DEF Typed
<1>5. ReadsTyped' /\ Numbered' /\ NothingRetained' /\ Grows
  BY <1>3, <1>4, CancelKeeps
<1>6. PICK p, T : p = (L.todo # {}) /\ T = {L.keys[q] : q \in Requests} \ {None}
  OBVIOUS
<1>7. PICK r : r = [Idle EXCEPT !.pc = "release", !.promote = p, !.todo = T]
  OBVIOUS
<1>8. lane' = [lane EXCEPT ![l] = r]
  BY <1>1, <1>6, <1>7, Zenon DEF Hand
<1>9. Typed(r) /\ Bound(r)' /\ Carried(r)
  BY <1>7 DEF Typed, Bound, Carried, Idle
<1> QED
  BY <1>2, <1>3, <1>5, <1>8, <1>9, LanesKept

\* The request leaves its flight.
LEMMA LeaveStep ==
    ASSUME IInv, NEW l \in Lanes, Leave(l)
    PROVE  IInv'
<1> USE DEF IInv
<1>1. PICK q, T : q = lane[l].q /\ T = {planKey[q]} \ {None}
  OBVIOUS
<1>2. Finish(flight, {q}) /\ closed' = closed /\ UNCHANGED work
  BY <1>1 DEF Leave
<1>3. ReadsTyped' /\ Numbered' /\ NothingRetained' /\ Grows
  BY <1>2, LeaveKeeps DEF ReadsTyped
<1>4. PICK r : r = [Idle EXCEPT !.pc = "release", !.q = q, !.promote = TRUE, !.todo = T, !.then = "cleanup"]
  OBVIOUS
<1>5. lane' = [lane EXCEPT ![l] = r]
  BY <1>1, <1>4, Zenon DEF Leave
<1>6. Typed(r) /\ Bound(r)' /\ Carried(r)
  BY <1>4 DEF Typed, Bound, Carried, Idle
<1> QED
  BY <1>2, <1>3, <1>5, <1>6, LanesKept DEF LanesOK, work

\* A follower takes what the flight it waits for has read.
LEMMA WakeStep ==
    ASSUME IInv, NEW l \in Lanes, Wake(l)
    PROVE  IInv'
<1> USE DEF IInv
<1>1. PICK L, f, lost : L = lane[l] /\ f = flight[L.ref] /\ lost = (L.q \in f.cancelled \/ closed)
  OBVIOUS
<1>2. Typed(L) /\ Bound(L) /\ cancelled \subseteq Requests /\ L.pc = "waiting"
  BY <1>1 DEF LanesOK, Wake
<1>3. PICK got : got = IF lost \/ f.state = "error" THEN None ELSE f.result
  OBVIOUS
<1>4. L.key \in Keys /\ got \in {L.key, None}
  BY <1>1, <1>2, <1>3 DEF Typed, Bound, Numbered
<1>5. Finish(flight, {L.q}) /\ closed' = closed /\ UNCHANGED work
  BY <1>1 DEF Wake
<1>6. lane' = [lane EXCEPT ![l] = Sought(L, L.key, got)]
  BY <1>1, <1>3, Zenon DEF Wake
<1>7. ReadsTyped' /\ Numbered' /\ NothingRetained' /\ Grows
  BY <1>5, LeaveKeeps DEF ReadsTyped
<1>8. PICK r : r = Sought(L, L.key, got) /\ Typed(r) /\ Bound(r)' /\ Carried(r)
  BY <1>4, SoughtOK
<1> QED
  BY <1>2, <1>5, <1>6, <1>7, <1>8, LanesKept DEF work

\* A reader publishes its result only if its flight is still the one of its base.
LEMMA ReadStep ==
    ASSUME IInv, NEW l \in Lanes, NEW good \in BOOLEAN, Read(l, good)
    PROVE  IInv'
<1> USE DEF IInv
<1>1. PICK L, i : L = lane[l] /\ i = L.ref
  OBVIOUS
<1>2. Typed(L) /\ Bound(L) /\ cancelled \subseteq Requests /\ L.pc = "reading"
  BY <1>1 DEF LanesOK, Read
<1>3. L.key \in Keys /\ i \in DOMAIN flight /\ flight[i].key = L.key
  BY <1>1, <1>2 DEF Typed, Bound
<1>4. PICK e : e = IF current[L.key] # i THEN flight[i]
                   ELSE IF good THEN [flight[i] EXCEPT !.state = "ready", !.result = L.key]
                   ELSE [flight[i] EXCEPT !.state = "error"]
  OBVIOUS
<1>5. PICK f : f = [flight EXCEPT ![i] = e]
  OBVIOUS
<1>6. PICK lost : lost = (L.q \in flight[i].cancelled \/ closed)
  OBVIOUS
<1>7. PICK got : got = IF lost THEN None ELSE f[i].result
  OBVIOUS
<1>8. /\ Finish(f, {L.q}) /\ closed' = closed /\ UNCHANGED work
      /\ lane' = [lane EXCEPT ![l] = Sought(L, L.key, got)]
  <2>1. f = [flight EXCEPT ![i] = IF current[L.key] # i THEN flight[i]
                                  ELSE IF good THEN [flight[i] EXCEPT !.state = "ready", !.result = L.key]
                                  ELSE [flight[i] EXCEPT !.state = "error"]]
    BY <1>4, <1>5, Zenon
  <2>2. Finish(f, {L.q}) /\ closed' = closed /\ UNCHANGED work
    BY <1>1, <2>1 DEF Read
  <2>3. lane' = [lane EXCEPT ![l] = Sought(L, L.key, IF L.q \in flight[i].cancelled \/ closed
                                                     THEN None ELSE f[i].result)]
    BY <1>1, <2>1 DEF Read
  <2>4. got = IF L.q \in flight[i].cancelled \/ closed THEN None ELSE f[i].result
    BY <1>6, <1>7
  <2> QED
    BY <2>2, <2>3, <2>4, Zenon
<1>9. flight[i] \in FlightRecord
  BY <1>3 DEF ReadsTyped
<1>10. /\ e \in FlightRecord /\ e.key = flight[i].key /\ e.members = flight[i].members
       /\ e.result # None => e.result = e.key /\ \E k \in Keys : current[k] = i
  <2>1. flight[i].result # None => flight[i].result = flight[i].key /\ \E k \in Keys : current[k] = i
    BY <1>3 DEF Numbered, NothingRetained
  <2>2. CASE current[L.key] # i
    BY <1>4, <1>9, <2>1, <2>2
  <2>3. CASE current[L.key] = i /\ good
    <3>1. e = [flight[i] EXCEPT !.state = "ready", !.result = L.key]
      BY <1>4, <2>3
    <3> QED
      BY <1>3, <1>9, <2>3, <3>1 DEF FlightRecord, Optional
  <2>4. CASE current[L.key] = i /\ ~good
    <3>1. e = [flight[i] EXCEPT !.state = "error"]
      BY <1>4, <2>4
    <3> QED
      BY <1>3, <1>9, <2>1, <2>4, <3>1 DEF FlightRecord, Optional
  <2> QED
    BY <2>2, <2>3, <2>4
<1>11. f \in Seq(FlightRecord) /\ DOMAIN f = DOMAIN flight
  <2>1. PICK n \in Nat : DOMAIN flight = 1 .. n /\ flight \in [1 .. n -> FlightRecord]
    BY DEF ReadsTyped
  <2>2. f \in [1 .. n -> FlightRecord]
    BY <1>5, <1>10, <2>1
  <2> QED
    BY <2>1, <2>2
<1>12. \A j \in DOMAIN f : f[j] = IF j = i THEN e ELSE flight[j]
  BY <1>5, <1>11
<1>13. \A j \in DOMAIN f : f[j].key = flight[j].key /\ f[j].members = flight[j].members
  BY <1>10, <1>12
<1>14. \A j \in DOMAIN f : f[j].result # None => f[j].result = f[j].key /\ \E k \in Keys : current[k] = j
  BY <1>10, <1>11, <1>12 DEF Numbered, NothingRetained
<1>15. ReadsTyped' /\ Numbered' /\ NothingRetained' /\ Grows
  BY <1>8, <1>11, <1>13, <1>14, FinishKeeps DEF Grows, ReadsTyped
<1>16. got \in {L.key, None}
  BY <1>3, <1>7, <1>10, <1>11, <1>12
<1>17. PICK r : r = Sought(L, L.key, got) /\ Typed(r) /\ Bound(r)' /\ Carried(r)
  BY <1>3, <1>16, SoughtOK
<1> QED
  BY <1>2, <1>8, <1>15, <1>17, LanesKept DEF work

\* A member finds the flight of its base.
LEMMA ResolveStep ==
    ASSUME IInv, NEW l \in Lanes, Resolve(l)
    PROVE  IInv'
<1> USE DEF IInv
<1>1. PICK L, k : L = lane[l] /\ k = L.key
  OBVIOUS
<1>2. PICK i, mine : i = current[k] /\ mine = (member[L.q] = k /\ i # None /\ L.q \in flight[i].members)
  OBVIOUS
<1>3. Typed(L) /\ Carried(L) /\ cancelled \subseteq Requests /\ L.pc = "resolve" /\ L.got = None
  BY <1>1 DEF LanesOK, Resolve, Carried
<1>4. k \in Keys
  BY <1>1, <1>3 DEF Typed
<1>5. closed' = closed /\ cancelled' = cancelled
  BY DEF Resolve, work
<1>6. ASSUME NEW got \in {k, None}, Finish(flight, {L.q}), lane' = [lane EXCEPT ![l] = Sought(L, k, got)]
      PROVE  IInv'
  <2>1. ReadsTyped' /\ Numbered' /\ NothingRetained' /\ Grows
    BY <1>5, <1>6, LeaveKeeps DEF ReadsTyped
  <2>2. PICK r : r = Sought(L, k, got) /\ Typed(r) /\ Bound(r)' /\ Carried(r)
    BY <1>4, SoughtOK
  <2> QED
    BY <1>3, <1>5, <1>6, <2>1, <2>2, LanesKept
<1>7. ASSUME mine, flight' = [flight EXCEPT ![i].state = "reading"], UNCHANGED <<current, member>>,
             lane' = [lane EXCEPT ![l] = [L EXCEPT !.pc = "reading", !.ref = i]]
      PROVE  IInv'
  <2>1. i \in DOMAIN flight /\ flight[i].key = k
    BY <1>2, <1>4, <1>7 DEF ReadsTyped, Numbered, Optional
  <2>2. PICK e : e = [flight[i] EXCEPT !.state = "reading"]
    OBVIOUS
  <2>3. flight' = [flight EXCEPT ![i] = e]
    BY <1>7, <2>2
  <2>4. flight[i] \in FlightRecord
    BY <2>1 DEF ReadsTyped
  <2>5. /\ e \in FlightRecord /\ e.key = flight[i].key /\ e.members = flight[i].members
        /\ e.result = flight[i].result
    BY <2>2, <2>4 DEF FlightRecord
  <2>6. flight' \in Seq(FlightRecord) /\ DOMAIN flight' = DOMAIN flight
    <3>1. PICK n \in Nat : DOMAIN flight = 1 .. n /\ flight \in [1 .. n -> FlightRecord]
      BY DEF ReadsTyped
    <3>2. flight' \in [1 .. n -> FlightRecord]
      BY <2>3, <2>5, <3>1
    <3> QED
      BY <3>1, <3>2
  <2>7. \A j \in DOMAIN flight : flight'[j] = IF j = i THEN e ELSE flight[j]
    BY <2>3
  <2>8. \A j \in DOMAIN flight : /\ flight'[j].key = flight[j].key /\ flight'[j].members = flight[j].members
                                 /\ flight'[j].result = flight[j].result
    BY <2>5, <2>7
  <2>9. \A j \in Keys : current[j] # None => current[j] \in DOMAIN flight
    BY DEF ReadsTyped, Optional
  <2>10. ReadsTyped' /\ Numbered' /\ NothingRetained' /\ Grows
    BY <1>5, <1>7, <2>6, <2>8, <2>9 DEF ReadsTyped, Numbered, NothingRetained, Active, Grows
  <2>11. PICK r : r = [L EXCEPT !.pc = "reading", !.ref = i]
    OBVIOUS
  <2>12. Typed(r) /\ Bound(r) /\ Carried(r)
    BY <1>1, <1>3, <1>4, <2>1, <2>11 DEF Typed, Bound, Carried, Idle
  <2>13. Bound(r)'
    BY <2>10, <2>12 DEF Bound, Grows
  <2> QED
    BY <1>3, <1>5, <1>7, <2>10, <2>11, <2>12, <2>13, LanesKept
<1>8. ASSUME mine, UNCHANGED <<flight, current, member>>,
             lane' = [lane EXCEPT ![l] = [L EXCEPT !.pc = "waiting", !.ref = i]]
      PROVE  IInv'
  <2>1. i \in DOMAIN flight /\ flight[i].key = k
    BY <1>2, <1>4, <1>8 DEF ReadsTyped, Numbered, Optional
  <2>2. PICK r : r = [L EXCEPT !.pc = "waiting", !.ref = i]
    OBVIOUS
  <2>3. Typed(r) /\ Bound(r)' /\ Carried(r)
    BY <1>1, <1>3, <1>4, <1>8, <2>1, <2>2 DEF Typed, Bound, Carried, Idle
  <2>4. ReadsTyped' /\ Numbered' /\ NothingRetained' /\ Grows
    BY <1>5, <1>8, ReadsKept DEF reads
  <2> QED
    BY <1>3, <1>5, <1>8, <2>2, <2>3, <2>4, LanesKept
<1> QED
  BY <1>1, <1>2, <1>6, <1>7, <1>8, Zenon DEF Resolve

\* close ends every flight.
LEMMA CloseKeeps ==
    ASSUME ReadsTyped, Numbered, NothingRetained, Close
    PROVE  ReadsTyped' /\ Numbered' /\ NothingRetained' /\ Grows
<1>1. PICK E : E = {i \in DOMAIN flight : /\ i \in {current[k] : k \in Active}
                                          /\ flight[i].state # "error"}
  OBVIOUS
<1>2. PICK f : f = [i \in DOMAIN flight |-> IF i \in {current[k] : k \in Active} /\ flight[i].state # "error"
                                            THEN [flight[i] EXCEPT !.state = "closed"] ELSE flight[i]]
  OBVIOUS
<1>3. Finish(f, Requests) /\ closed' = TRUE
  BY <1>2, Zenon DEF Close
<1>4. PICK n \in Nat : DOMAIN flight = 1 .. n /\ flight \in [1 .. n -> FlightRecord]
  BY DEF ReadsTyped
<1>5. ASSUME NEW i \in DOMAIN flight
      PROVE  /\ f[i] \in FlightRecord /\ f[i].key = flight[i].key
             /\ f[i].members = flight[i].members /\ f[i].result = flight[i].result
  <2>1. flight[i] \in FlightRecord
    BY <1>4
  <2>2. f[i] = IF i \in E THEN [flight[i] EXCEPT !.state = "closed"] ELSE flight[i]
    BY <1>1, <1>2
  <2> QED
    BY <2>1, <2>2 DEF FlightRecord
<1>6. DOMAIN f = DOMAIN flight /\ f \in [1 .. n -> FlightRecord]
  BY <1>2, <1>4, <1>5
<1>7. f \in Seq(FlightRecord)
  BY <1>6
<1>8. \A i \in DOMAIN f : f[i].result # None => f[i].result = f[i].key /\ \E k \in Keys : current[k] = i
  BY <1>5, <1>6 DEF Numbered, NothingRetained
<1> QED
  BY <1>3, <1>5, <1>6, <1>7, <1>8, FinishKeeps DEF Grows

\* The steps of the scheduler and of the thread that shuts down.
LEMMA OutsideStep ==
    ASSUME IInv, \/ \E Q \in SUBSET Requests : StartLoad(Q)
                 \/ \E q \in Requests : RequestFinished(q) \/ CancelRead(q)
                 \/ ShutDown
    PROVE  IInv'
<1> USE DEF IInv
<1>1. lane' = lane /\ cancelled' \subseteq Requests
  BY DEF LanesOK, StartLoad, RequestFinished, CancelRead, ShutDown, work
<1>2. ReadsTyped' /\ Numbered' /\ NothingRetained' /\ Grows
  <2>1. ASSUME UNCHANGED reads
        PROVE  ReadsTyped' /\ Numbered' /\ NothingRetained' /\ Grows
    BY <2>1, ReadsKept
  <2>2. ASSUME NEW q \in Requests, CancelRead(q)
        PROVE  ReadsTyped' /\ Numbered' /\ NothingRetained' /\ Grows
    BY <2>2, CancelKeeps DEF CancelRead
  <2>3. ASSUME Close
        PROVE  ReadsTyped' /\ Numbered' /\ NothingRetained' /\ Grows
    BY <2>3, CloseKeeps
  <2>4. ShutDown => UNCHANGED reads \/ Close
    BY DEF ShutDown
  <2> QED
    BY <2>1, <2>2, <2>3, <2>4 DEF StartLoad, RequestFinished
<1>3. ASSUME NEW l \in Lanes
      PROVE  Typed(lane[l])' /\ Bound(lane[l])' /\ Carried(lane[l])'
  <2>1. PICK L : L = lane[l]
    OBVIOUS
  <2>2. Typed(L) /\ Bound(L) /\ Carried(L)
    BY <2>1 DEF LanesOK
  <2> QED
    BY <1>1, <1>2, <2>1, <2>2 DEF Typed, Bound, Carried, Grows
<1> QED
  BY <1>1, <1>2, <1>3 DEF LanesOK

LEMMA Initial ==
    ASSUME Init
    PROVE  IInv
<1>1. flight = <<>> /\ DOMAIN flight = {} /\ flight \in Seq(FlightRecord)
  BY DEF Init
<1>2. ReadsTyped /\ Numbered /\ NothingRetained
  BY <1>1, BaseReadConstants DEF Init, ReadsTyped, Numbered, NothingRetained, Active, Optional
<1>3. lane = [l \in Lanes |-> lane[l]] /\ \A l \in Lanes : lane[l] = Idle
  BY DEF Init
<1>4. LanesOK
  BY <1>3, Fresh DEF Init, LanesOK
<1> QED
  BY <1>2, <1>4 DEF IInv

LEMMA Inductive == IInv /\ [Next]_vars => IInv'
<1> SUFFICES ASSUME IInv, [Next]_vars
             PROVE  IInv'
  OBVIOUS
<1>1. ASSUME NEW l \in Lanes, Step(l)
      PROVE  IInv'
  BY <1>1, LaneStep, HandStep, RegisterStep, ResolveStep, ReadStep, WakeStep, LeaveStep DEF Step
<1>2. CASE UNCHANGED vars
  BY <1>2 DEF vars, work, reads, IInv, ReadsTyped, Numbered, NothingRetained, Active, LanesOK,
     Typed, Bound, Carried
<1> QED
  BY <1>1, <1>2, OutsideStep DEF Next

\* Base bytes are kept only while a registered member has not taken them, a flight
\* without members is gone, and the two tables of the coordinator agree: "retain data
\* [not] after every registered member has acquired or abandoned the result", for any
\* number of loader threads, requests, bases and cancellations.
THEOREM BytesAreReleased == Spec => []NothingRetained
<1>1. IInv => NothingRetained
  BY DEF IInv
<1> QED
  BY <1>1, Initial, Inductive, PTL DEF Spec

\* A load goes on with the base it seeks, completely read by itself or by the reader of
\* a flight of that base, or with none: never with the bytes of another base, even when
\* its flight was given up and another one took its place while it waited without the lock.
THEOREM BytesAreAuthentic == Spec => []OnlyAuthenticBase
<1>1. IInv => OnlyAuthenticBase
  BY DEF IInv, LanesOK, Carried, OnlyAuthenticBase
<1> QED
  BY <1>1, Initial, Inductive, PTL DEF Spec
-----------------------------------------------------------------------------
(***************************************************************************)
(* Sequences of requests: in plan order, and parts of one.                 *)
(***************************************************************************)
Distinct(s) == \A i, j \in DOMAIN s : s[i] = s[j] => i = j

\* How many elements of a finite set of numbers are not above one of them tells
\* where that one stands.
LEMMA Ranks ==
    ASSUME NEW S \in SUBSET Nat, IsFiniteSet(S)
    PROVE  /\ Cardinality(S) \in Nat
           /\ \A q \in S : Cardinality({p \in S : p <= q}) \in 1 .. Cardinality(S)
           /\ \A p, q \in S : Cardinality({x \in S : x <= p}) = Cardinality({x \in S : x <= q}) => p = q
           /\ \A i \in 1 .. Cardinality(S) : \E q \in S : Cardinality({p \in S : p <= q}) = i
<1> DEFINE Upto(q) == {p \in S : p <= q}
           r == [q \in S |-> Cardinality(Upto(q))]
<1>1. PICK n \in Nat : n = Cardinality(S)
  BY FS_CardinalityType
<1>2. ASSUME NEW q \in S
      PROVE  IsFiniteSet(Upto(q)) /\ Cardinality(Upto(q)) \in 1 .. n
  <2>1. IsFiniteSet(Upto(q)) /\ Cardinality(Upto(q)) <= n
    BY <1>1, FS_Subset
  <2>2. Cardinality(Upto(q)) \in Nat
    BY <2>1, FS_CardinalityType
  <2>3. q \in Upto(q)
    OBVIOUS
  <2>4. Cardinality(Upto(q)) # 0
    BY <2>1, <2>3, FS_EmptySet
  <2> QED
    BY <2>1, <2>2, <2>4
<1>3. ASSUME NEW p \in S, NEW q \in S, p < q
      PROVE  Cardinality(Upto(p)) # Cardinality(Upto(q))
  <2>0. \A x \in S : x \in Nat
    OBVIOUS
  <2>1. \A x \in S : x <= p => x <= q
    BY <1>3, <2>0
  <2>3. Upto(p) \in SUBSET Upto(q)
    BY <2>1
  <2>4. ~ (q <= p) /\ q <= q
    BY <1>3, <2>0
  <2>2. Upto(p) # Upto(q)
    BY <2>4
  <2> HIDE DEF Upto
  <2> QED
    BY <1>2, <2>2, <2>3, FS_Subset
<1>4. \A p, q \in S : Cardinality(Upto(p)) = Cardinality(Upto(q)) => p = q
  <2> HIDE DEF Upto
  <2>1. \A p, q \in S : p < q \/ q < p \/ p = q
    OBVIOUS
  <2> QED
    BY <1>3, <2>1
<1>5. r \in Injection(S, 1 .. n)
  <2> HIDE DEF Upto
  <2> QED
    BY <1>2, <1>4 DEF Injection, IsInjective
<1>6. r \in Surjection(S, 1 .. n)
  <2> HIDE DEF r
  <2>1. IsFiniteSet(1 .. n) /\ Cardinality(1 .. n) = n
    BY FS_Interval
  <2> QED
    BY <1>1, <1>5, <2>1, FS_Injection
<1>7. \A i \in 1 .. n : \E q \in S : Cardinality(Upto(q)) = i
  <2> HIDE DEF Upto
  <2> QED
    BY <1>6 DEF Surjection
<1> QED
  BY <1>1, <1>2, <1>4, <1>7

\* Sorted lists every element of a finite set of numbers once.
LEMMA SortedOK ==
    ASSUME NEW Q \in SUBSET Nat, IsFiniteSet(Q)
    PROVE  /\ Cardinality(Q) \in Nat /\ Sorted(Q) \in [1 .. Cardinality(Q) -> Q]
           /\ Distinct(Sorted(Q)) /\ Elements(Sorted(Q)) = Q
<1> DEFINE Upto(q) == {p \in Q : p <= q}
<1>1. PICK n \in Nat : n = Cardinality(Q)
  BY Ranks
<1>2. /\ \A q \in Q : Cardinality(Upto(q)) \in 1 .. n
      /\ \A p, q \in Q : Cardinality(Upto(p)) = Cardinality(Upto(q)) => p = q
      /\ \A i \in 1 .. n : \E q \in Q : Cardinality(Upto(q)) = i
  BY <1>1, Ranks
<1>3. PICK s : s = Sorted(Q)
  OBVIOUS
<1>4. s = [i \in 1 .. n |-> CHOOSE q \in Q : Cardinality(Upto(q)) = i]
  BY <1>1, <1>3 DEF Sorted
<1> HIDE DEF Upto
<1>5. \A i \in 1 .. n : s[i] \in Q /\ Cardinality(Upto(s[i])) = i
  BY <1>2, <1>4
<1>6. s \in [1 .. n -> Q] /\ DOMAIN s = 1 .. n
  BY <1>4, <1>5
<1>7. Distinct(s)
  BY <1>5, <1>6 DEF Distinct
<1>8. \A q \in Q : \E i \in 1 .. n : s[i] = q
  BY <1>2, <1>5
<1>9. Elements(s) = Q
  BY <1>5, <1>6, <1>8 DEF Elements
<1> QED
  BY <1>1, <1>3, <1>6, <1>7, <1>9

\* The requests of a set, in plan order.
LEMMA InOrder ==
    ASSUME NEW Q \in SUBSET Requests
    PROVE  Sorted(Q) \in Seq(Requests) /\ Distinct(Sorted(Q)) /\ Elements(Sorted(Q)) = Q
<1>1. Q \in SUBSET Nat /\ IsFiniteSet(Q)
  BY RequestsFinite, FS_Subset
<1>2. PICK s, n : s = Sorted(Q) /\ n = Cardinality(Q)
  OBVIOUS
<1>3. n \in Nat /\ s \in [1 .. n -> Q] /\ Distinct(s) /\ Elements(s) = Q
  BY <1>1, <1>2, SortedOK
<1>4. s \in [1 .. n -> Requests]
  BY <1>3
<1>5. s \in Seq(Requests)
  BY <1>3, <1>4
<1> QED
  BY <1>2, <1>3, <1>5

\* Keep drops what is not in Q and nothing else.
LEMMA KeepOK ==
    ASSUME NEW d \in Seq(Requests), Distinct(d), NEW Q
    PROVE  /\ Keep(d, Q) \in Seq(Requests) /\ Distinct(Keep(d, Q))
           /\ Elements(Keep(d, Q)) = Elements(d) \cap Q
<1>1. PICK places : places = {i \in DOMAIN d : d[i] \in Q}
  OBVIOUS
<1>2. PICK m \in Nat : DOMAIN d = 1 .. m /\ d \in [1 .. m -> Requests]
  OBVIOUS
<1>3. places \in SUBSET Nat /\ IsFiniteSet(places) /\ places \subseteq DOMAIN d
  <2>1. places \in SUBSET (1 .. m)
    BY <1>1, <1>2
  <2>2. IsFiniteSet(1 .. m)
    BY FS_Interval
  <2>3. IsFiniteSet(places)
    BY <2>1, <2>2, FS_Subset
  <2> QED
    BY <1>2, <2>1, <2>3
<1>4. PICK s, n : s = Sorted(places) /\ n = Cardinality(places)
  OBVIOUS
<1>5. n \in Nat /\ s \in [1 .. n -> places] /\ Distinct(s) /\ Elements(s) = places
  BY <1>3, <1>4, SortedOK
<1>6. PICK e : e = [i \in 1 .. n |-> d[s[i]]]
  OBVIOUS
<1>7. Keep(d, Q) = e
  BY <1>1, <1>4, <1>6 DEF Keep
<1>8. \A i \in 1 .. n : s[i] \in places /\ s[i] \in DOMAIN d /\ e[i] = d[s[i]]
  BY <1>3, <1>5, <1>6
<1>9. e \in [1 .. n -> Requests]
  BY <1>2, <1>6, <1>8
<1>10. e \in Seq(Requests)
  BY <1>5, <1>9
<1>11. Distinct(e)
  BY <1>5, <1>8, <1>9 DEF Distinct
<1>12. \A i \in places : \E j \in 1 .. n : s[j] = i
  BY <1>5 DEF Elements
<1>13. Elements(e) = Elements(d) \cap Q
  <2>1. \A x \in Elements(e) : x \in Elements(d) \cap Q
    BY <1>1, <1>8, <1>9 DEF Elements
  <2>2. \A x \in Elements(d) \cap Q : x \in Elements(e)
    BY <1>1, <1>8, <1>9, <1>12 DEF Elements
  <2> QED
    BY <2>1, <2>2
<1> QED
  BY <1>7, <1>10, <1>11, <1>13

\* Two lists of different requests, one after the other.
LEMMA JoinOK ==
    ASSUME NEW d \in Seq(Requests), NEW e \in Seq(Requests), Distinct(d), Distinct(e),
           Elements(d) \cap Elements(e) = {}
    PROVE  d \o e \in Seq(Requests) /\ Distinct(d \o e) /\ Elements(d \o e) = Elements(d) \cup Elements(e)
<1>1. PICK m, n \in Nat : DOMAIN d = 1 .. m /\ DOMAIN e = 1 .. n /\ Len(d) = m /\ Len(e) = n
  OBVIOUS
<1>2. PICK s : s = d \o e
  OBVIOUS
<1>3. s \in Seq(Requests) /\ DOMAIN s = 1 .. m + n
  <2>1. s \in Seq(Requests) /\ Len(s) = m + n
    BY <1>1, <1>2
  <2> QED
    BY <2>1
<1>4. \A i \in 1 .. m : s[i] = d[i]
  BY <1>1, <1>2
<1>5. \A i \in 1 .. n : s[m + i] = e[i]
  BY <1>1, <1>2
<1>6. \A i \in 1 .. m + n : i \in 1 .. m \/ (i - m \in 1 .. n /\ i = m + (i - m))
  BY <1>1
<1>7. \A i \in 1 .. m + n : \/ i \in 1 .. m /\ s[i] = d[i] /\ s[i] \in Elements(d)
                            \/ i - m \in 1 .. n /\ s[i] = e[i - m] /\ s[i] \in Elements(e)
  <2>1. ASSUME NEW i \in 1 .. m
        PROVE  s[i] = d[i] /\ s[i] \in Elements(d)
    BY <1>1, <1>4 DEF Elements
  <2>2. ASSUME NEW i \in Int, i - m \in 1 .. n, i = m + (i - m)
        PROVE  s[i] = e[i - m] /\ s[i] \in Elements(e)
    <3>1. PICK j \in 1 .. n : j = i - m /\ i = m + j
      BY <2>2
    <3>2. s[i] = e[j]
      BY <1>5, <3>1
    <3> QED
      BY <1>1, <3>1, <3>2 DEF Elements
  <2>3. \A i \in 1 .. m + n : i \in Int
    OBVIOUS
  <2> QED
    BY <1>6, <2>1, <2>2, <2>3
<1>8. Distinct(s)
  <2> SUFFICES ASSUME NEW i \in 1 .. m + n, NEW j \in 1 .. m + n, s[i] = s[j]
               PROVE  i = j
    BY <1>3 DEF Distinct
  <2>1. CASE i \in 1 .. m /\ s[i] = d[i] /\ s[i] \in Elements(d)
    <3>1. j \in 1 .. m /\ s[j] = d[j]
      BY <1>7, <2>1
    <3> QED
      BY <1>1, <2>1, <3>1 DEF Distinct
  <2>2. CASE i - m \in 1 .. n /\ s[i] = e[i - m] /\ s[i] \in Elements(e)
    <3>1. j - m \in 1 .. n /\ s[j] = e[j - m]
      BY <1>7, <2>2
    <3>2. i - m = j - m
      BY <1>1, <2>2, <3>1 DEF Distinct
    <3> QED
      BY <1>1, <3>2
  <2> QED
    BY <1>7, <2>1, <2>2
<1>9. Elements(s) = Elements(d) \cup Elements(e)
  <2>1. \A x \in Elements(s) : x \in Elements(d) \cup Elements(e)
    BY <1>3, <1>7 DEF Elements
  <2>2. \A x \in Elements(d) : x \in Elements(s)
    BY <1>1, <1>3, <1>4 DEF Elements
  <2>3. \A x \in Elements(e) : x \in Elements(s)
    <3>1. \A i \in 1 .. n : m + i \in 1 .. m + n
      BY <1>1
    <3> QED
      BY <1>1, <1>3, <1>5, <3>1 DEF Elements
  <2> QED
    BY <2>1, <2>2, <2>3
<1> QED
  BY <1>2, <1>3, <1>8, <1>9
-----------------------------------------------------------------------------
(***************************************************************************)
(* The queue.                                                              *)
(***************************************************************************)
Items == [batch : {{}}, q : Requests, poisoned : BOOLEAN]
         \cup [batch : SUBSET Requests, q : {None}, poisoned : BOOLEAN]

\* The requests whose load an item is, or those of a queue; no load is queued twice.
Calls(item) == {q \in Requests : item.q = q \/ q \in item.batch}
Named(s) == {q \in Requests : \E i \in DOMAIN s : q \in Calls(s[i])}
Once(s) == \A i, j \in DOMAIN s : Calls(s[i]) \cap Calls(s[j]) # {} => i = j

\* Where a queue tells a loader thread to stop.
Stops(s) == {i \in DOMAIN s : s[i] = Sentinel}

\* The kinds of items.
LEMMA ItemKinds ==
    /\ \A q \in Requests : \A p \in BOOLEAN :
         Load(q, p) \in Items /\ Calls(Load(q, p)) = {q} /\ Load(q, p) # Sentinel
    /\ \A Q \in SUBSET Requests : Batch(Q) \in Items /\ Calls(Batch(Q)) = Q /\ Batch(Q) # Sentinel
    /\ Sentinel \in Items /\ Calls(Sentinel) = {}
<1>1. None \notin Requests
  BY BaseReadConstants DEF Requests
<1>2. ASSUME NEW q \in Requests, NEW p \in BOOLEAN
      PROVE  Load(q, p) \in Items /\ Calls(Load(q, p)) = {q} /\ Load(q, p) # Sentinel
  <2>1. PICK x : x = Load(q, p) /\ x = [batch |-> {}, q |-> q, poisoned |-> p]
    BY DEF Load
  <2>2. x \in Items /\ x.q = q /\ x.batch = {}
    BY <2>1 DEF Items, Optional
  <2>3. Sentinel.q = None
    BY DEF Sentinel
  <2> QED
    BY <1>1, <2>1, <2>2, <2>3 DEF Calls
<1>3. ASSUME NEW Q \in SUBSET Requests
      PROVE  Batch(Q) \in Items /\ Calls(Batch(Q)) = Q /\ Batch(Q) # Sentinel
  <2>1. PICK x : x = Batch(Q) /\ x = [batch |-> Q, q |-> None, poisoned |-> FALSE]
    BY DEF Batch
  <2>2. x \in Items /\ x.q = None /\ x.batch = Q /\ x.poisoned = FALSE
    BY <2>1 DEF Items, Optional
  <2>3. Sentinel.poisoned = TRUE
    BY DEF Sentinel
  <2> QED
    BY <1>1, <2>1, <2>2, <2>3 DEF Calls
<1>4. Sentinel \in Items /\ Sentinel.q = None /\ Sentinel.batch = {}
  BY DEF Sentinel, Items, Optional
<1> QED
  BY <1>1, <1>2, <1>3, <1>4 DEF Calls

\* Other loads are queued behind those of s.
LEMMA QueuedBehind ==
    ASSUME NEW s \in Seq(Items), NEW u \in Seq(Items), NEW t \in Seq(Items), Once(s), Once(u),
           Named(s) \cap Named(u) = {}, Len(t) = Len(s) + Len(u),
           \A i \in 1 .. Len(s) : t[i] = s[i], \A i \in 1 .. Len(u) : t[Len(s) + i] = u[i]
    PROVE  /\ Once(t) /\ Named(t) = Named(s) \cup Named(u)
           /\ Stops(u) = {} => Stops(t) = Stops(s)
<1>1. PICK m, n \in Nat : DOMAIN s = 1 .. m /\ DOMAIN u = 1 .. n /\ Len(s) = m /\ Len(u) = n
  OBVIOUS
<1>2. DOMAIN t = 1 .. m + n
  BY <1>1
<1>3. \A i \in 1 .. m + n : i \in 1 .. m \/ \E j \in 1 .. n : i = m + j
  <2> SUFFICES ASSUME NEW i \in 1 .. m + n, i \notin 1 .. m
               PROVE  \E j \in 1 .. n : i = m + j
    OBVIOUS
  <2>1. i - m \in 1 .. n /\ i = m + (i - m)
    OBVIOUS
  <2> QED
    BY <2>1
<1>4. \A i \in 1 .. m : i \in DOMAIN t /\ t[i] = s[i] /\ Calls(t[i]) \subseteq Named(s)
  BY <1>1, <1>2 DEF Named, Calls
<1>5. \A j \in 1 .. n : m + j \in DOMAIN t /\ t[m + j] = u[j] /\ Calls(t[m + j]) \subseteq Named(u)
  <2>1. \A j \in 1 .. n : m + j \in 1 .. m + n
    OBVIOUS
  <2>2. \A j \in 1 .. n : Calls(u[j]) \subseteq Named(u)
    BY <1>1 DEF Named, Calls
  <2> QED
    BY <1>1, <1>2, <2>1, <2>2
<1>6. Once(t)
  <2> SUFFICES ASSUME NEW i \in 1 .. m + n, NEW j \in 1 .. m + n, Calls(t[i]) \cap Calls(t[j]) # {}
               PROVE  i = j
    BY <1>2 DEF Once
  <2>1. CASE i \in 1 .. m
    <3>1. j \in 1 .. m
      BY <1>3, <1>4, <1>5, <2>1
    <3> QED
      BY <1>1, <1>4, <2>1, <3>1 DEF Once
  <2>2. ASSUME NEW x \in 1 .. n, i = m + x
        PROVE  i = j
    <3>0. i \in DOMAIN t /\ Calls(t[i]) \subseteq Named(u)
      BY <1>5, <2>2
    <3>3. j \notin 1 .. m
      BY <1>4, <3>0
    <3>1. PICK y \in 1 .. n : j = m + y
      BY <1>3, <3>3
    <3>2. x = y
      BY <1>1, <1>5, <2>2, <3>1 DEF Once
    <3> QED
      BY <2>2, <3>1, <3>2
  <2> QED
    BY <1>3, <2>1, <2>2
<1>7. Named(t) = Named(s) \cup Named(u)
  <2>1. \A q \in Named(t) : q \in Named(s) \cup Named(u)
    <3> SUFFICES ASSUME NEW q \in Named(t)
                 PROVE  q \in Named(s) \cup Named(u)
      OBVIOUS
    <3>1. PICK i \in 1 .. m + n : q \in Calls(t[i])
      BY <1>2 DEF Named
    <3> QED
      BY <1>3, <1>4, <1>5, <3>1
  <2>2. \A q \in Named(s) : q \in Named(t)
    BY <1>1, <1>4 DEF Named
  <2>3. ASSUME NEW q \in Named(u)
        PROVE  q \in Named(t)
    <3>1. PICK j \in 1 .. n : q \in Calls(u[j])
      BY <1>1 DEF Named
    <3>2. PICK i \in DOMAIN t : i = m + j /\ t[i] = u[j]
      BY <1>5
    <3> QED
      BY <3>1, <3>2 DEF Named, Calls
  <2> QED
    BY <2>1, <2>2, <2>3
<1>8. ASSUME Stops(u) = {}
      PROVE  Stops(t) = Stops(s)
  <2>1. \A i \in Stops(t) : i \in Stops(s)
    <3> SUFFICES ASSUME NEW i \in 1 .. m + n, t[i] = Sentinel
                 PROVE  i \in Stops(s)
      BY <1>2 DEF Stops
    <3>1. \A j \in 1 .. n : u[j] # Sentinel
      BY <1>1, <1>8 DEF Stops
    <3>2. i \in 1 .. m
      BY <1>3, <1>5, <3>1
    <3> QED
      BY <1>1, <1>4, <3>2 DEF Stops
  <2>2. \A i \in Stops(s) : i \in Stops(t)
    BY <1>1, <1>4 DEF Stops
  <2> QED
    BY <2>1, <2>2
<1> QED
  BY <1>6, <1>7, <1>8

\* One load after another.
LEMMA LoadsOK ==
    ASSUME NEW d \in Seq(Requests), Distinct(d), NEW p \in BOOLEAN
    PROVE  /\ Loads(d, p) \in Seq(Items) /\ Once(Loads(d, p)) /\ Named(Loads(d, p)) = Elements(d)
           /\ Stops(Loads(d, p)) = {}
<1>1. PICK u, n : u = Loads(d, p) /\ n = Len(d)
  OBVIOUS
<1>2. n \in Nat /\ DOMAIN d = 1 .. n /\ u = [i \in 1 .. n |-> Load(d[i], p)]
  BY <1>1 DEF Loads
<1>3. \A i \in 1 .. n : d[i] \in Requests /\ u[i] = Load(d[i], p)
  BY <1>2
<1>4. \A i \in 1 .. n : u[i] \in Items /\ Calls(u[i]) = {d[i]} /\ u[i] # Sentinel
  BY <1>3, ItemKinds
<1>5. DOMAIN u = 1 .. n /\ u \in [1 .. n -> Items]
  BY <1>2, <1>4
<1>6. u \in Seq(Items)
  BY <1>2, <1>5
<1>7. Once(u)
  BY <1>2, <1>4, <1>5 DEF Once, Distinct
<1>8. Named(u) = Elements(d) /\ Stops(u) = {}
  BY <1>2, <1>3, <1>4, <1>5 DEF Named, Elements, Stops
<1> QED
  BY <1>1, <1>6, <1>7, <1>8

\* Loads are queued.
LEMMA LoadsQueued ==
    ASSUME NEW s \in Seq(Items), Once(s), NEW d \in Seq(Requests), Distinct(d), NEW p \in BOOLEAN,
           Named(s) \cap Elements(d) = {}
    PROVE  /\ s \o Loads(d, p) \in Seq(Items) /\ Once(s \o Loads(d, p))
           /\ Named(s \o Loads(d, p)) = Named(s) \cup Elements(d)
           /\ Stops(s \o Loads(d, p)) = Stops(s)
<1>1. PICK u : u = Loads(d, p)
  OBVIOUS
<1>2. u \in Seq(Items) /\ Once(u) /\ Named(u) = Elements(d) /\ Stops(u) = {}
  BY <1>1, LoadsOK
<1>3. PICK t : t = s \o u
  OBVIOUS
<1>4. t \in Seq(Items) /\ Len(t) = Len(s) + Len(u)
  BY <1>2, <1>3
<1>5. \A i \in 1 .. Len(s) : t[i] = s[i]
  BY <1>2, <1>3
<1>6. \A i \in 1 .. Len(u) : t[Len(s) + i] = u[i]
  BY <1>2, <1>3
<1>7. Once(t) /\ Named(t) = Named(s) \cup Named(u) /\ Stops(t) = Stops(s)
  BY <1>2, <1>4, <1>5, <1>6, QueuedBehind
<1> QED
  BY <1>1, <1>2, <1>3, <1>4, <1>7

\* A batch is queued.
LEMMA BatchQueued ==
    ASSUME NEW s \in Seq(Items), Once(s), NEW Q \in SUBSET Requests, Named(s) \cap Q = {}
    PROVE  /\ Append(s, Batch(Q)) \in Seq(Items) /\ Once(Append(s, Batch(Q)))
           /\ Named(Append(s, Batch(Q))) = Named(s) \cup Q
           /\ Stops(Append(s, Batch(Q))) = Stops(s)
<1>1. PICK x, u, t : x = Batch(Q) /\ u = <<x>> /\ t = Append(s, x)
  OBVIOUS
<1>2. x \in Items /\ Calls(x) = Q /\ x # Sentinel
  BY <1>1, ItemKinds
<1>3. u \in Seq(Items) /\ Len(u) = 1 /\ DOMAIN u = {1} /\ u[1] = x
  BY <1>1, <1>2
<1>4. Once(u) /\ Named(u) = Q /\ Stops(u) = {}
  BY <1>2, <1>3 DEF Once, Named, Stops
<1>5. t \in Seq(Items) /\ Len(t) = Len(s) + Len(u)
  BY <1>1, <1>2, <1>3
<1>6. \A i \in 1 .. Len(s) : t[i] = s[i]
  BY <1>1
<1>7. \A i \in 1 .. Len(u) : t[Len(s) + i] = u[i]
  <2>1. t[Len(s) + 1] = x
    BY <1>1
  <2> QED
    BY <1>3, <2>1
<1>8. Once(t) /\ Named(t) = Named(s) \cup Named(u) /\ Stops(t) = Stops(s)
  BY <1>3, <1>4, <1>5, <1>6, <1>7, QueuedBehind
<1> QED
  BY <1>1, <1>4, <1>5, <1>8

\* The first item is taken.
LEMMA ItemTaken ==
    ASSUME NEW s \in Seq(Items), s # <<>>, Once(s)
    PROVE  /\ Head(s) \in Items /\ Tail(s) \in Seq(Items) /\ Once(Tail(s))
           /\ Named(s) = Named(Tail(s)) \cup Calls(Head(s)) /\ Named(Tail(s)) \cap Calls(Head(s)) = {}
           /\ Stops(s) \in SUBSET Nat /\ IsFiniteSet(Stops(s)) /\ IsFiniteSet(Stops(Tail(s)))
           /\ Cardinality(Stops(s)) =
                Cardinality(Stops(Tail(s))) + IF Head(s) = Sentinel THEN 1 ELSE 0
<1>1. PICK x, t, n : x = Head(s) /\ t = Tail(s) /\ n = Len(s)
  OBVIOUS
<1>2. /\ n \in Nat /\ n > 0 /\ DOMAIN s = 1 .. n /\ x = s[1] /\ x \in Items
      /\ t \in Seq(Items) /\ Len(t) = n - 1
  BY <1>1
<1>3. DOMAIN t = 1 .. n - 1
  BY <1>2
<1>4. \A i \in 1 .. n - 1 : i + 1 \in 1 .. n /\ t[i] = s[i + 1]
  BY <1>1, <1>2
<1>5. \A i \in 1 .. n : i = 1 \/ \E j \in 1 .. n - 1 : i = j + 1
  <2> SUFFICES ASSUME NEW i \in 1 .. n, i # 1
               PROVE  \E j \in 1 .. n - 1 : i = j + 1
    OBVIOUS
  <2>1. i - 1 \in 1 .. n - 1 /\ i = (i - 1) + 1
    BY <1>2
  <2> QED
    BY <2>1
<1>6. Once(t)
  <2> SUFFICES ASSUME NEW i \in 1 .. n - 1, NEW j \in 1 .. n - 1, Calls(t[i]) \cap Calls(t[j]) # {}
               PROVE  i = j
    BY <1>3 DEF Once
  <2>1. i + 1 = j + 1
    BY <1>2, <1>4 DEF Once
  <2> QED
    BY <1>2, <2>1
<1>7. Named(s) = Named(t) \cup Calls(x)
  <2>1. \A q \in Named(s) : q \in Named(t) \cup Calls(x)
    BY <1>2, <1>3, <1>4, <1>5 DEF Named
  <2>2. \A q \in Named(t) : q \in Named(s)
    BY <1>2, <1>3, <1>4 DEF Named
  <2>3. \A q \in Calls(x) : q \in Named(s)
    <3>1. 1 \in DOMAIN s
      BY <1>2
    <3> QED
      BY <1>2, <3>1 DEF Named, Calls
  <2> QED
    BY <2>1, <2>2, <2>3
<1>8. Named(t) \cap Calls(x) = {}
  <2> SUFFICES ASSUME NEW q \in Named(t), q \in Calls(x)
               PROVE  FALSE
    OBVIOUS
  <2>1. PICK j \in 1 .. n - 1 : q \in Calls(t[j])
    BY <1>3 DEF Named
  <2>2. j + 1 \in DOMAIN s /\ 1 \in DOMAIN s /\ q \in Calls(s[j + 1]) /\ q \in Calls(s[1])
    BY <1>2, <1>4, <2>1
  <2>3. j + 1 = 1
    BY <2>2 DEF Once
  <2> QED
    BY <1>2, <2>3
<1>9. PICK S, T : S = Stops(s) /\ T = Stops(t)
  OBVIOUS
<1>10. S \in SUBSET (1 .. n) /\ T \in SUBSET (1 .. n - 1)
  BY <1>2, <1>3, <1>9 DEF Stops
<1>11. S \in SUBSET Nat /\ IsFiniteSet(S) /\ IsFiniteSet(T)
  <2>1. IsFiniteSet(1 .. n) /\ IsFiniteSet(1 .. n - 1)
    BY <1>2, FS_Interval
  <2>2. IsFiniteSet(S) /\ IsFiniteSet(T)
    BY <1>10, <2>1, FS_Subset
  <2> QED
    BY <1>10, <2>2
<1>12. PICK f : f = [i \in T |-> i + 1]
  OBVIOUS
<1>13. \A j \in 1 .. n - 1 : j \in T <=> j + 1 \in S
  BY <1>2, <1>3, <1>4, <1>9 DEF Stops
<1>14. f \in Bijection(T, S \ {1})
  <2>1. \A i \in T : i \in 1 .. n - 1 /\ f[i] = i + 1 /\ f[i] \in S /\ f[i] # 1
    BY <1>2, <1>10, <1>12, <1>13
  <2>2. f \in [T -> S \ {1}]
    BY <1>12, <2>1
  <2>3. \A i, j \in T : f[i] = f[j] => i = j
    BY <2>1
  <2>4. \A y \in S \ {1} : \E j \in T : f[j] = y
    <3> SUFFICES ASSUME NEW y \in S, y # 1
                 PROVE  \E j \in T : f[j] = y
      OBVIOUS
    <3>1. PICK j \in 1 .. n - 1 : y = j + 1
      BY <1>5, <1>10
    <3>2. j \in T
      BY <1>13, <3>1
    <3> QED
      BY <2>1, <3>1, <3>2
  <2> QED
    BY <2>2, <2>3, <2>4 DEF Bijection, Injection, Surjection, IsInjective
<1>15. Cardinality(S \ {1}) = Cardinality(T)
  BY <1>11, <1>14, FS_Bijection DEF ExistsBijection
<1>16. Cardinality(S \ {1}) = IF 1 \in S THEN Cardinality(S) - 1 ELSE Cardinality(S)
  BY <1>11, FS_RemoveElement
<1>17. 1 \in S <=> x = Sentinel
  BY <1>2, <1>9 DEF Stops
<1>18. Cardinality(S) \in Nat /\ Cardinality(T) \in Nat
  BY <1>11, FS_CardinalityType
<1>19. Cardinality(S) = Cardinality(T) + IF x = Sentinel THEN 1 ELSE 0
  BY <1>15, <1>16, <1>17, <1>18
<1> QED
  BY <1>1, <1>2, <1>6, <1>7, <1>8, <1>9, <1>11, <1>19
-----------------------------------------------------------------------------
\* The sentinels of all loader threads.
LEMMA StopsQueued ==
    ASSUME NEW s \in Seq(Items), Once(s)
    PROVE  /\ s \o Sentinels \in Seq(Items) /\ Once(s \o Sentinels)
           /\ Named(s \o Sentinels) = Named(s)
           /\ Stops(s) = {} => Cardinality(Stops(s \o Sentinels)) = Cardinality(Lanes)
<1>1. PICK u, m, n : u = Sentinels /\ m = Len(s) /\ n = Cardinality(Lanes)
  OBVIOUS
<1>2. m \in Nat /\ n \in Nat /\ DOMAIN s = 1 .. m
  BY <1>1, FS_CardinalityType, BaseReadConstants
<1>3. u = [i \in 1 .. n |-> Sentinel]
  BY <1>1 DEF Sentinels
<1>4. u \in [1 .. n -> Items] /\ \A i \in 1 .. n : u[i] = Sentinel /\ Calls(u[i]) = {}
  BY <1>3, ItemKinds
<1>5. u \in Seq(Items) /\ Len(u) = n /\ DOMAIN u = 1 .. n
  BY <1>2, <1>4
<1>6. Once(u) /\ Named(u) = {}
  BY <1>4, <1>5 DEF Once, Named
<1>7. PICK t : t = s \o u
  OBVIOUS
<1>8. t \in Seq(Items) /\ Len(t) = m + n
  <2>1. t \in Seq(Items) /\ Len(t) = Len(s) + Len(u)
    BY <1>5, <1>7
  <2> QED
    BY <1>1, <1>5, <2>1
<1>9. \A i \in 1 .. m : t[i] = s[i]
  BY <1>1, <1>5, <1>7
<1>10. \A i \in 1 .. n : t[m + i] = u[i]
  BY <1>1, <1>5, <1>7
<1>11. Once(t) /\ Named(t) = Named(s)
  <2>2. /\ Len(t) = Len(s) + Len(u) /\ Named(s) \cap Named(u) = {}
        /\ \A i \in 1 .. Len(s) : t[i] = s[i]
        /\ \A i \in 1 .. Len(u) : t[Len(s) + i] = u[i]
    BY <1>1, <1>5, <1>6, <1>8, <1>9, <1>10
  <2>1. Once(t) /\ Named(t) = Named(s) \cup Named(u)
    BY <1>5, <1>6, <1>8, <2>2, QueuedBehind
  <2> QED
    BY <1>6, <2>1
<1>12. DOMAIN t = 1 .. m + n
  BY <1>2, <1>8
<1>13. ASSUME Stops(s) = {}
       PROVE  Stops(t) = (m + 1) .. (m + n)
  <2>1. \A i \in 1 .. m : i \notin Stops(t)
    BY <1>2, <1>9, <1>13 DEF Stops
  <2>2. ASSUME NEW i \in (m + 1) .. (m + n)
        PROVE  i \in Stops(t)
    <3>1. i - m \in 1 .. n /\ i = m + (i - m) /\ i \in 1 .. m + n
      BY <1>2
    <3>2. t[i] = Sentinel
      BY <1>4, <1>10, <3>1
    <3> QED
      BY <1>12, <3>1, <3>2 DEF Stops
  <2>3. \A i \in 1 .. m + n : i \in 1 .. m \/ i \in (m + 1) .. (m + n)
    BY <1>2
  <2>4. Stops(t) \subseteq 1 .. m + n
    BY <1>12 DEF Stops
  <2> QED
    BY <2>1, <2>2, <2>3, <2>4
<1>14. Cardinality((m + 1) .. (m + n)) = n
  <2>1. m + 1 \in Int /\ m + n \in Int
    BY <1>2
  <2>2. Cardinality((m + 1) .. (m + n)) = IF m + 1 > m + n THEN 0 ELSE (m + n) - (m + 1) + 1
    BY <2>1, FS_Interval
  <2> QED
    BY <1>2, <2>2
<1> QED
  BY <1>1, <1>7, <1>8, <1>11, <1>13, <1>14
-----------------------------------------------------------------------------
\* What the loader thread has in hand: Holding, of its state.
Holds(L) ==
    IF L.pc \in {"prepare", "register"} THEN L.batch
    ELSE IF L.pc = "hand" THEN L.run \cup {q \in L.batch : L.keys[q] = None}
    ELSE IF L.pc \in {"load", "resolve", "reading", "waiting", "publish"} \/ L.then = "publish"
           THEN {L.q} ELSE {}

\* While a batch is grouped: who runs first and who is set aside are those with a
\* base that has been registered.
Split(L) ==
    /\ {q \in Requests : L.keys[q] # None} \subseteq L.batch /\ L.run \cap L.late = {}
    /\ L.run \cup L.late = {q \in Requests : /\ L.keys[q] # None
                                             /\ L.pc = "register" => L.keys[q] \notin L.todo}

Formed(L) ==
    /\ L.pc \in {"idle", "exited", "prepare", "register", "hand", "release", "select", "load",
                 "resolve", "reading", "waiting", "publish", "leave", "cleanup"}
    /\ L.batch \subseteq Requests /\ L.run \subseteq Requests /\ L.late \subseteq Requests
    /\ L.keys \in [Requests -> Optional(Keys)]
    /\ L.q \in Optional(Requests) /\ L.key \in Optional(Keys)
    /\ L.ref # None => L.ref \in DOMAIN flight
    /\ L.pc \in {"register", "release", "select"} => L.todo \subseteq Keys
    /\ L.pc = "prepare" => L.run = {} /\ L.late = {}
    /\ L.pc \in {"register", "hand"} => Split(L)
    /\ L.pc \in {"load", "resolve", "reading", "waiting", "publish", "leave", "cleanup"} => L.q \in Requests
    /\ L.then # "idle" => L.pc \in {"release", "select"} /\ L.q \in Requests

Kept ==
    /\ queue \in Seq(Items) /\ deferred \in Seq(Requests)
    /\ planKey \in [Requests -> Optional(Keys)]
    /\ inflight \subseteq Requests /\ awaiting \subseteq Requests
    /\ stopped \in BOOLEAN /\ down \in 0 .. 4
    /\ \A l \in Lanes : Formed(lane[l])

\* No flight has more members than it may.
Room == \A i \in DOMAIN flight : flight[i].joined <= MaxMembers

Shared ==
    /\ Once(queue) /\ Distinct(deferred) /\ Named(queue) \cap Elements(deferred) = {}
    /\ \A l \in Lanes : Holds(lane[l]) \cap (Named(queue) \cup Elements(deferred)) = {}
    /\ \A l, m \in Lanes : Holds(lane[l]) \cap Holds(lane[m]) # {} => l = m
    /\ awaiting = Named(queue) \cup Elements(deferred) \cup UNION {Holds(lane[l]) : l \in Lanes}

OInv == Kept /\ Room /\ Shared
-----------------------------------------------------------------------------
\* The named loads of Holding are those of Holds.
LEMMA HoldingIs == \A l \in Lanes : Holding(l) = Holds(lane[l])
BY DEF Holding, Holds

\* A step that moves loads between the queue, the deferred table and one loader
\* thread, and reports those of gone.
LEMMA Moved ==
    ASSUME Shared, LanesOK, NEW l \in Lanes, NEW L, L = lane[l], NEW r, lane' = [lane EXCEPT ![l] = r],
           Once(queue'), Distinct(deferred'),
           NEW gone \in SUBSET Holds(L), awaiting' = awaiting \ gone,
           Named(queue') \cap Elements(deferred') = {},
           Holds(r) \cap (Named(queue') \cup Elements(deferred')) = {},
           Named(queue') \cup Elements(deferred') \cup Holds(r)
             = (Named(queue) \cup Elements(deferred) \cup Holds(L)) \ gone
    PROVE  Shared'
<1>1. PICK W, D, M, C : /\ W = Named(queue) /\ D = Elements(deferred)
                        /\ M = Named(queue)' /\ C = Elements(deferred)'
  OBVIOUS
<1>2. \A m \in Lanes : lane'[m] = IF m = l THEN r ELSE lane[m]
  BY DEF LanesOK
<1>3. PICK h, k : h = [m \in Lanes |-> Holds(lane[m])] /\ k = [m \in Lanes |-> Holds(lane'[m])]
  OBVIOUS
<1>4. \A m \in Lanes : k[m] = IF m = l THEN Holds(r) ELSE h[m]
  BY <1>2, <1>3
<1>5. /\ \A m \in Lanes : h[m] \cap (W \cup D) = {}
      /\ \A m, j \in Lanes : h[m] \cap h[j] # {} => m = j
      /\ awaiting = W \cup D \cup UNION {h[m] : m \in Lanes}
  BY <1>1, <1>3 DEF Shared
<1>6. h[l] = Holds(L) /\ k[l] = Holds(r) /\ gone \subseteq h[l]
  BY <1>3, <1>4
<1>7. M \cap C = {} /\ k[l] \cap (M \cup C) = {} /\ M \cup C \cup k[l] = (W \cup D \cup h[l]) \ gone
  BY <1>1, <1>6
<1>8. \A m \in Lanes : m # l => k[m] = h[m] /\ h[m] \cap (W \cup D \cup h[l]) = {}
  BY <1>4, <1>5
<1>9. \A m \in Lanes : k[m] \cap (M \cup C) = {}
  BY <1>7, <1>8
<1>10. \A m, j \in Lanes : k[m] \cap k[j] # {} => m = j
  BY <1>5, <1>7, <1>8
<1>11. awaiting' = M \cup C \cup UNION {k[m] : m \in Lanes}
  <2>1. ASSUME NEW x
        PROVE  x \in UNION {h[m] : m \in Lanes} <=> \E m \in Lanes : x \in h[m]
    OBVIOUS
  <2>2. ASSUME NEW x
        PROVE  x \in UNION {k[m] : m \in Lanes} <=> \E m \in Lanes : x \in k[m]
    OBVIOUS
  <2>3. ASSUME NEW x
        PROVE  x \in awaiting' <=> x \in M \cup C \cup UNION {k[m] : m \in Lanes}
    <3>1. x \in awaiting' <=> x \notin gone /\ (x \in W \/ x \in D \/ \E m \in Lanes : x \in h[m])
      BY <1>5, <2>1
    <3>2. x \in M \/ x \in C \/ x \in k[l] <=> (x \in W \/ x \in D \/ x \in h[l]) /\ x \notin gone
      BY <1>7
    <3>3. \A m \in Lanes : m # l => (x \in k[m] <=> x \in h[m])
      BY <1>8
    <3>4. \A m \in Lanes : m # l /\ x \in h[m] => x \notin gone
      BY <1>6, <1>8
    <3>5. (\E m \in Lanes : x \in k[m]) <=> x \in k[l] \/ \E m \in Lanes : m # l /\ x \in h[m]
      BY <3>3
    <3>6. (\E m \in Lanes : x \in h[m]) <=> x \in h[l] \/ \E m \in Lanes : m # l /\ x \in h[m]
      OBVIOUS
    <3> QED
      BY <2>2, <3>1, <3>2, <3>4, <3>5, <3>6
  <2> QED
    BY <2>3
<1>12. \A m \in Lanes : Holds(lane'[m]) = k[m]
  BY <1>3
<1>13. /\ \A m \in Lanes : Holds(lane[m])' = k[m]
       /\ Named(queue)' = M /\ Elements(deferred)' = C
  BY <1>1, <1>12 DEF Holds
<1> QED
  BY <1>7, <1>9, <1>10, <1>11, <1>13 DEF Shared
-----------------------------------------------------------------------------
\* register_cohort accepts no more members than there is room for.
LEMMA AcceptedFits ==
    ASSUME ReadsTyped, Room, NEW k \in Keys, NEW Q \in SUBSET Requests
    PROVE  /\ Accepted(k, Q) \in SUBSET Requests /\ Cardinality(Accepted(k, Q)) \in Nat
           /\ Accepted(k, Q) # {} =>
                (IF current[k] = None THEN 0 ELSE flight[current[k]].joined) + Cardinality(Accepted(k, Q))
                    <= MaxMembers
<1>1. PICK free, A : free = {q \in Q : member[q] = None} /\ A = Accepted(k, Q)
  OBVIOUS
<1>2. PICK j, room : /\ j = IF current[k] = None THEN 0 ELSE flight[current[k]].joined
                     /\ room = MaxMembers - j
  OBVIOUS
<1>3. j \in Nat /\ room \in Nat /\ MaxMembers \in Nat
  <2>1. current[k] # None => current[k] \in DOMAIN flight
    BY DEF ReadsTyped, Optional
  <2>2. \A i \in DOMAIN flight : flight[i].joined \in Nat
    <3>1. \A i \in DOMAIN flight : flight[i] \in FlightRecord
      BY DEF ReadsTyped
    <3> QED
      BY <3>1 DEF FlightRecord
  <2>3. MaxMembers \in Nat
    BY BaseReadConstants
  <2>4. current[k] # None => flight[current[k]].joined \in Nat /\ flight[current[k]].joined <= MaxMembers
    BY <2>1, <2>2 DEF Room
  <2>5. j \in Nat /\ j <= MaxMembers
    BY <1>2, <2>3, <2>4
  <2> QED
    BY <1>2, <2>3, <2>5
<1>4. A = IF Refused(k) THEN {} ELSE {q \in free : Cardinality({p \in free : p < q}) < room}
  BY <1>1, <1>2 DEF Accepted
<1>5. free \in SUBSET Nat /\ IsFiniteSet(free) /\ free \in SUBSET Requests
  BY <1>1, RequestsFinite, FS_Subset
<1>6. A \in SUBSET free /\ IsFiniteSet(A) /\ Cardinality(A) \in Nat
  <2>1. A \in SUBSET free
    BY <1>4
  <2> QED
    BY <1>5, <2>1, FS_Subset, FS_CardinalityType
<1>7. ASSUME A # {}
      PROVE  Cardinality(A) <= room
  <2> DEFINE Upto(q) == {p \in free : p <= q}
             Under(q) == {p \in free : p < q}
             f == [q \in A |-> Cardinality(Upto(q))]
  <2>1. A = {q \in free : Cardinality(Under(q)) < room}
    BY <1>4, <1>7
  <2>2. ASSUME NEW q \in A
        PROVE  Cardinality(Upto(q)) \in 1 .. room
    <3>1. q \in free /\ q \in Nat /\ Cardinality(Under(q)) < room
      BY <1>5, <2>1
    <3>2. IsFiniteSet(Under(q)) /\ q \notin Under(q)
      <4>1. Under(q) \in SUBSET free
        OBVIOUS
      <4>2. ~ (q < q)
        BY <3>1
      <4>3. q \notin Under(q)
        BY <4>2
      <4> HIDE DEF Under
      <4> QED
        BY <1>5, <4>1, <4>3, FS_Subset
    <3>3. Upto(q) = Under(q) \cup {q}
      <4>1. \A p \in free : p <= q <=> p < q \/ p = q
        BY <1>5, <3>1
      <4> QED
        BY <3>1, <4>1
    <3> HIDE DEF Under, Upto
    <3>4. Cardinality(Upto(q)) = Cardinality(Under(q)) + 1 /\ Cardinality(Under(q)) \in Nat
      BY <3>2, <3>3, FS_AddElement, FS_CardinalityType
    <3> QED
      BY <1>3, <3>1, <3>4
  <2>3. \A p, q \in A : Cardinality(Upto(p)) = Cardinality(Upto(q)) => p = q
    <3>1. \A p, q \in free : Cardinality(Upto(p)) = Cardinality(Upto(q)) => p = q
      BY <1>5, Ranks
    <3> QED
      BY <1>6, <3>1
  <2>4. f \in Injection(A, 1 .. room)
    <3> HIDE DEF Upto
    <3> QED
      BY <2>2, <2>3 DEF Injection, IsInjective
  <2>5. IsFiniteSet(1 .. room) /\ Cardinality(1 .. room) = room
    BY <1>3, FS_Interval
  <2> HIDE DEF f
  <2> QED
    BY <2>4, <2>5, FS_Injection
<1>8. A # {} => j + Cardinality(A) <= MaxMembers
  BY <1>2, <1>3, <1>6, <1>7
<1> QED
  BY <1>1, <1>2, <1>5, <1>6, <1>8

\* A member that leaves makes no room.
LEMMA FinishRoom ==
    ASSUME Room, NEW f, NEW Q, DOMAIN f = DOMAIN flight, Finish(f, Q),
           \A i \in DOMAIN f : f[i] \in FlightRecord /\ f[i].joined = flight[i].joined
    PROVE  DOMAIN flight' = DOMAIN flight /\ Room'
<1> DEFINE own(i) == {q \in Q : member[q] # None /\ current[member[q]] = i}
           empty(i) == own(i) # {} /\ f[i].members \subseteq own(i)
<1>1. flight' = [i \in DOMAIN f |-> [f[i] EXCEPT !.members = @ \ own(i), !.cancelled = @ \ own(i),
                                                 !.result = IF empty(i) THEN None ELSE @]]
  BY DEF Finish, Finished
<1>2. ASSUME NEW i \in DOMAIN f
      PROVE  flight'[i].joined = flight[i].joined
  <2>1. PICK M, C, e : /\ M = f[i].members \ own(i) /\ C = f[i].cancelled \ own(i)
                       /\ e = IF empty(i) THEN None ELSE f[i].result
    OBVIOUS
  <2>2. flight'[i] = [f[i] EXCEPT !.members = M, !.cancelled = C, !.result = e]
    BY <1>1, <2>1, Zenon
  <2>3. f[i] \in FlightRecord /\ f[i].joined = flight[i].joined
    OBVIOUS
  <2> QED
    BY <2>2, <2>3 DEF FlightRecord
<1>3. DOMAIN flight' = DOMAIN f
  BY <1>1
<1> QED
  BY <1>2, <1>3 DEF Room

\* No flight is forgotten, and none takes more members than it may.
LEMMA FlightsStay ==
    ASSUME IInv, Room, [Next]_vars
    PROVE  DOMAIN flight \subseteq DOMAIN flight' /\ Room'
<1> DEFINE Goal == DOMAIN flight \subseteq DOMAIN flight' /\ Room'
<1>0. \A i \in DOMAIN flight : flight[i] \in FlightRecord
  BY DEF IInv, ReadsTyped
<1>1. ASSUME UNCHANGED flight
      PROVE  Goal
  BY <1>1 DEF Room
<1>2. ASSUME NEW Q, Finish(flight, Q)
      PROVE  Goal
  BY <1>0, <1>2, FinishRoom
<1>3. ASSUME NEW Q, CancelReads(Q)
      PROVE  Goal
  <2>1. DOMAIN flight' = DOMAIN flight
    BY <1>3 DEF CancelReads
  <2>2. ASSUME NEW i \in DOMAIN flight
        PROVE  flight'[i].joined = flight[i].joined
    <3>1. PICK C : C = flight[i].cancelled \cup {q \in Q : member[q] # None /\ current[member[q]] = i}
      OBVIOUS
    <3>2. flight'[i] = [flight[i] EXCEPT !.cancelled = C]
      BY <1>3, <3>1 DEF CancelReads
    <3> QED
      BY <1>0, <3>2 DEF FlightRecord
  <2> QED
    BY <2>1, <2>2 DEF Room
<1>4. ASSUME NEW l \in Lanes, Resolve(l)
      PROVE  Goal
  <2>1. ASSUME NEW i, flight' = [flight EXCEPT ![i].state = "reading"]
        PROVE  Goal
    <3>1. DOMAIN flight' = DOMAIN flight
      BY <2>1
    <3>2. ASSUME NEW j \in DOMAIN flight
          PROVE  flight'[j].joined = flight[j].joined
      <4>1. flight'[j] = flight[j] \/ flight'[j] = [flight[j] EXCEPT !.state = "reading"]
        BY <2>1
      <4> QED
        BY <1>0, <4>1 DEF FlightRecord
    <3> QED
      BY <3>1, <3>2 DEF Room
  <2>2. PICK i, q : i = current[lane[l].key] /\ q = lane[l].q
    OBVIOUS
  <2>3. Finish(flight, {q}) \/ UNCHANGED flight \/ flight' = [flight EXCEPT ![i].state = "reading"]
    BY <1>4, <2>2 DEF Resolve
  <2> HIDE DEF Goal
  <2> QED
    BY <1>1, <1>2, <2>1, <2>3
<1>5. ASSUME NEW l \in Lanes, NEW good \in BOOLEAN, Read(l, good)
      PROVE  Goal
  <2>1. PICK L, i : L = lane[l] /\ i = L.ref
    OBVIOUS
  <2>2. PICK e : e = IF current[L.key] # i THEN flight[i]
                     ELSE IF good THEN [flight[i] EXCEPT !.state = "ready", !.result = L.key]
                     ELSE [flight[i] EXCEPT !.state = "error"]
    OBVIOUS
  <2>3. PICK f : f = [flight EXCEPT ![i] = e]
    OBVIOUS
  <2>4. Finish(f, {L.q})
    <3>1. f = [flight EXCEPT ![i] = IF current[L.key] # i THEN flight[i]
                                    ELSE IF good THEN [flight[i] EXCEPT !.state = "ready", !.result = L.key]
                                    ELSE [flight[i] EXCEPT !.state = "error"]]
      BY <2>2, <2>3, Zenon
    <3> QED
      BY <1>5, <2>1, <3>1 DEF Read
  <2>5. i \in DOMAIN flight /\ L.key \in Keys
    BY <1>5, <2>1 DEF Read, IInv, LanesOK, Typed, Bound
  <2>6. flight[i] \in FlightRecord
    BY <1>0, <2>5
  <2>7. e \in FlightRecord /\ e.joined = flight[i].joined
    <3>1. \/ e = flight[i] \/ e = [flight[i] EXCEPT !.state = "error"]
          \/ e = [flight[i] EXCEPT !.state = "ready", !.result = L.key]
      BY <2>2
    <3> QED
      BY <2>5, <2>6, <3>1 DEF FlightRecord, Optional
  <2>8. DOMAIN f = DOMAIN flight /\ \A j \in DOMAIN f : f[j] = IF j = i THEN e ELSE flight[j]
    BY <2>3, <2>5
  <2>9. \A j \in DOMAIN f : f[j] \in FlightRecord /\ f[j].joined = flight[j].joined
    BY <1>0, <2>7, <2>8
  <2> QED
    BY <2>4, <2>8, <2>9, FinishRoom
<1>6. ASSUME NEW l \in Lanes, NEW k \in Keys, Register(l, k)
      PROVE  Goal
  <2>1. PICK Q, A : Q = {q \in Requests : lane[l].keys[q] = k} /\ A = Accepted(k, Q)
    OBVIOUS
  <2>2. RegisterCohort(k, A)
    BY <1>6, <2>1 DEF Register
  <2>3. PICK j, n : j = (IF current[k] = None THEN 0 ELSE flight[current[k]].joined) /\ n = Cardinality(A)
    OBVIOUS
  <2>4. n \in Nat /\ (A # {} => j + n <= MaxMembers)
    BY <2>1, <2>3, AcceptedFits DEF IInv
  <2>5. CASE A = {}
    BY <1>1, <2>2, <2>5 DEF RegisterCohort, reads
  <2>6. CASE A # {}
    <3>0. PICK c : c = CHOOSE q \in A : \A p \in A : q <= p
      OBVIOUS
    <3>1. PICK old, first, M : /\ old = IF current[k] = None THEN NewFlight(k) ELSE flight[current[k]]
                               /\ M = old.members \cup A
                               /\ first = IF old.leader = None THEN c ELSE old.leader
      OBVIOUS
    <3>2. PICK F : F = Joined(k, A)
      OBVIOUS
    <3>3. current[k] # None => current[k] \in DOMAIN flight
      BY DEF IInv, ReadsTyped, Optional
    <3>4. old.joined = j /\ "joined" \in DOMAIN old
      BY <1>0, <2>3, <3>1, <3>3 DEF NewFlight, FlightRecord
    <3>5. F = [old EXCEPT !.members = M, !.joined = @ + n, !.leader = first]
      BY <2>3, <3>0, <3>1, <3>2 DEF Joined
    <3>6. F.joined = j + n
      BY <3>4, <3>5
    <3>7. CASE current[k] = None
      <4>1. flight' = Append(flight, F)
        BY <2>2, <2>6, <3>2, <3>7 DEF RegisterCohort
      <4>2. PICK m \in Nat : m = Len(flight) /\ DOMAIN flight = 1 .. m
        BY DEF IInv, ReadsTyped
      <4>3. flight \in Seq(FlightRecord)
        BY DEF IInv, ReadsTyped
      <4>4. DOMAIN flight' = 1 .. m + 1 /\ flight'[m + 1] = F /\ \A i \in 1 .. m : flight'[i] = flight[i]
        BY <4>1, <4>2, <4>3
      <4>5. \A i \in 1 .. m + 1 : i \in 1 .. m \/ i = m + 1
        BY <4>2
      <4> QED
        BY <2>4, <2>6, <3>6, <4>2, <4>4, <4>5 DEF Room
    <3>8. CASE current[k] # None
      <4>1. flight' = [flight EXCEPT ![current[k]] = F]
        BY <2>2, <2>6, <3>2, <3>8 DEF RegisterCohort
      <4> QED
        BY <2>4, <2>6, <3>3, <3>6, <3>8, <4>1 DEF Room
    <3> QED
      BY <3>7, <3>8
  <2> QED
    BY <2>5, <2>6
<1>7. ASSUME Close
      PROVE  Goal
  <2>1. PICK E : E = {i \in DOMAIN flight : /\ i \in {current[k] : k \in Active}
                                            /\ flight[i].state # "error"}
    OBVIOUS
  <2>2. PICK f : f = [i \in DOMAIN flight |-> IF i \in {current[k] : k \in Active} /\ flight[i].state # "error"
                                              THEN [flight[i] EXCEPT !.state = "closed"] ELSE flight[i]]
    OBVIOUS
  <2>3. Finish(f, Requests) /\ DOMAIN f = DOMAIN flight
    BY <1>7, <2>2, Zenon DEF Close
  <2>4. ASSUME NEW i \in DOMAIN flight
        PROVE  f[i] \in FlightRecord /\ f[i].joined = flight[i].joined
    <3>1. flight[i] \in FlightRecord
      BY <1>0
    <3>2. f[i] = flight[i] \/ f[i] = [flight[i] EXCEPT !.state = "closed"]
      BY <2>2
    <3> QED
      BY <3>1, <3>2 DEF FlightRecord
  <2> QED
    BY <2>3, <2>4, FinishRoom
<1> HIDE DEF Goal
<1>8. ASSUME NEW l \in Lanes, Step(l)
      PROVE  Goal
  <2>1. Wake(l) \/ Leave(l) => Finish(flight, {lane[l].q})
    BY DEF Wake, Leave
  <2>2. Hand(l) => CancelReads(lane[l].todo)
    BY DEF Hand
  <2>3. \/ Take(l) \/ Defer(l) \/ Select(l) \/ Released(l) \/ Cleanup(l)
        \/ \E E \in SUBSET Requests, raises \in BOOLEAN : Prepare(l, E, raises)
        \/ \E k \in Keys : ReadState(l, k)
        \/ \E key \in Keys \cup {None}, fails \in BOOLEAN : LoadOne(l, key, fails)
        \/ \E good \in BOOLEAN : Publish(l, good)
        => UNCHANGED flight
    BY DEF Take, Defer, Select, Released, Cleanup, Prepare, ReadState, LoadOne, Publish, reads
  <2> QED
    BY <1>1, <1>2, <1>3, <1>4, <1>5, <1>6, <1>8, <2>1, <2>2, <2>3 DEF Step
<1>9. ASSUME \/ \E Q \in SUBSET Requests : StartLoad(Q)
             \/ \E q \in Requests : RequestFinished(q) \/ CancelRead(q)
             \/ ShutDown
      PROVE  Goal
  <2>1. (\E Q \in SUBSET Requests : StartLoad(Q)) \/ (\E q \in Requests : RequestFinished(q))
        => UNCHANGED flight
    BY DEF StartLoad, RequestFinished, reads
  <2>2. \A q \in Requests : CancelRead(q) => CancelReads({q})
    BY DEF CancelRead
  <2>3. ShutDown => UNCHANGED flight \/ Close
    BY DEF ShutDown, reads
  <2> QED
    BY <1>1, <1>3, <1>7, <1>9, <2>1, <2>2, <2>3
<1>10. Goal
  <2>1. CASE UNCHANGED vars
    BY <1>1, <2>1 DEF vars, reads
  <2> QED
    BY <1>8, <1>9, <2>1 DEF Next
<1> QED
  BY <1>10 DEF Goal
-----------------------------------------------------------------------------
(***************************************************************************)
(* The steps of a loader thread.                                           *)
(***************************************************************************)

\* A step of one thread leaves what is known of the others as it is.
LEMMA FormedKept ==
    ASSUME LanesOK, Kept, DOMAIN flight \subseteq DOMAIN flight', NEW l \in Lanes, NEW r, Formed(r),
           lane' = [lane EXCEPT ![l] = r]
    PROVE  \A m \in Lanes : Formed(lane[m])'
<1>1. ASSUME NEW m \in Lanes
      PROVE  Formed(lane[m])'
  <2>1. PICK y : y = lane'[m]
    OBVIOUS
  <2>2. y = IF m = l THEN r ELSE lane[m]
    BY <2>1 DEF LanesOK
  <2>3. Formed(y)
    BY <2>2 DEF Kept
  <2>4. Formed(y)'
    BY <2>3 DEF Formed, Split
  <2> QED
    BY <2>1, <2>4 DEF Formed, Split
<1> QED
  BY <1>1

\* A step of a thread that moves no load.
LEMMA Stays ==
    ASSUME IInv, Kept, Shared, DOMAIN flight \subseteq DOMAIN flight', NEW l \in Lanes, NEW L, L = lane[l],
           NEW r, Formed(r), Holds(r) = Holds(L), lane' = [lane EXCEPT ![l] = r],
           UNCHANGED <<work, awaiting, down>>
    PROVE  Kept' /\ Shared'
<1>1. LanesOK
  BY DEF IInv
<1>2. \A m \in Lanes : Formed(lane[m])'
  BY <1>1, FormedKept
<1>3. Kept'
  BY <1>2 DEF Kept, work
<1>4. queue' = queue /\ deferred' = deferred /\ awaiting' = awaiting
  BY DEF work
<1>5. PICK M, C : M = Named(queue) /\ C = Elements(deferred)
  OBVIOUS
<1>6. Named(queue') = M /\ Elements(deferred') = C
  BY <1>4, <1>5
<1>7. /\ Once(queue') /\ Distinct(deferred') /\ M \cap C = {} /\ Holds(r) \cap (M \cup C) = {}
      /\ {} \in SUBSET Holds(L) /\ awaiting' = awaiting \ {}
  BY <1>4, <1>5 DEF Shared
<1>8. M \cup C \cup Holds(r) = (M \cup C \cup Holds(L)) \ {}
  OBVIOUS
<1>9. Shared'
  BY <1>1, <1>5, <1>6, <1>7, <1>8, Moved
<1> QED
  BY <1>3, <1>9

\* A fresh thread, and one that sought its base.
LEMMA FreshFormed == Formed(Idle) /\ Holds(Idle) = {}
BY DEF Formed, Holds, Idle, Optional

LEMMA SoughtFormed ==
    ASSUME NEW L, L.q \in Requests, NEW key \in Keys, NEW got
    PROVE  Formed(Sought(L, key, got)) /\ Holds(Sought(L, key, got)) = {L.q}
<1>1. PICK r, q, ok : r = Sought(L, key, got) /\ q = L.q /\ ok = (got # None)
  OBVIOUS
<1>2. r = [Idle EXCEPT !.pc = "release", !.q = q, !.ok = ok, !.got = got, !.todo = {key},
                       !.then = "publish"]
  BY <1>1, Zenon DEF Sought
<1>3. /\ r.pc = "release" /\ r.q = q /\ r.todo = {key} /\ r.then = "publish" /\ r.batch = {}
      /\ r.run = {} /\ r.late = {} /\ r.key = None /\ r.ref = None /\ r.keys = [x \in Requests |-> None]
  BY <1>2 DEF Idle
<1>4. q \in Requests
  BY <1>1
<1>5. Formed(r) /\ Holds(r) = {q}
  BY <1>3, <1>4 DEF Formed, Holds, Optional
<1> QED
  BY <1>1, <1>5

LEMMA QuietStep ==
    ASSUME IInv, Kept, Shared, DOMAIN flight \subseteq DOMAIN flight', NEW l \in Lanes,
           \/ Released(l) \/ Resolve(l) \/ Wake(l) \/ Leave(l)
           \/ \E k \in Keys : ReadState(l, k)
           \/ \E key \in Keys \cup {None}, fails \in BOOLEAN : LoadOne(l, key, fails)
           \/ \E good \in BOOLEAN : Read(l, good)
    PROVE  Kept' /\ Shared'
<1>1. PICK L : L = lane[l]
  OBVIOUS
<1>2. Typed(L) /\ Formed(L)
  BY <1>1 DEF IInv, LanesOK, Kept
<1>3. UNCHANGED <<work, awaiting, down>>
  BY DEF Released, Resolve, Wake, Leave, ReadState, LoadOne, Read, outside
<1>4. SUFFICES \E r : lane' = [lane EXCEPT ![l] = r] /\ Formed(r) /\ Holds(r) = Holds(L)
  BY <1>1, <1>3, Stays
<1> DEFINE Goal == \E r : lane' = [lane EXCEPT ![l] = r] /\ Formed(r) /\ Holds(r) = Holds(L)
<1>5. ASSUME Released(l)
      PROVE  Goal
  <2>1. PICK r : r = IF L.then = "idle" THEN Idle
                     ELSE [L EXCEPT !.pc = L.then, !.promote = FALSE, !.then = "idle"]
    OBVIOUS
  <2>2. lane' = [lane EXCEPT ![l] = r] /\ L.pc = "release"
    BY <1>1, <1>5, <2>1 DEF Released
  <2>3. CASE L.then = "idle"
    BY <2>1, <2>2, <2>3, FreshFormed DEF Holds
  <2>4. CASE L.then # "idle"
    <3>1. L.then \in {"publish", "cleanup"} /\ L.q \in Requests
      BY <1>2, <2>4 DEF Typed, Formed
    <3>2. /\ r.pc = L.then /\ r.then = "idle" /\ r.q = L.q /\ r.batch = L.batch /\ r.run = L.run
          /\ r.late = L.late /\ r.keys = L.keys /\ r.key = L.key /\ r.ref = L.ref
      BY <1>2, <2>1, <2>4 DEF Typed, Idle
    <3>3. Formed(r)
      BY <1>2, <3>1, <3>2 DEF Formed
    <3>4. Holds(r) = Holds(L)
      BY <2>2, <3>1, <3>2 DEF Holds
    <3> QED
      BY <2>2, <3>3, <3>4
  <2> QED
    BY <2>3, <2>4
<1>6. ASSUME NEW q, q = L.q, L.pc \in {"resolve", "reading", "waiting"}, NEW got,
             lane' = [lane EXCEPT ![l] = Sought(L, L.key, got)]
      PROVE  Goal
  <2>1. L.q \in Requests /\ L.key \in Keys
    BY <1>2, <1>6 DEF Typed, Formed
  <2>2. Holds(L) = {L.q}
    BY <1>6 DEF Holds
  <2>3. Formed(Sought(L, L.key, got)) /\ Holds(Sought(L, L.key, got)) = {L.q}
    BY <2>1, SoughtFormed
  <2> QED
    BY <1>6, <2>2, <2>3
<1>7. ASSUME Resolve(l)
      PROVE  Goal
  <2>1. PICK i, k : i = current[k] /\ k = L.key
    OBVIOUS
  <2>2. L.pc = "resolve" /\ L.q \in Requests /\ k \in Keys /\ (i # None => i \in DOMAIN flight)
    BY <1>1, <1>2, <1>7, <2>1 DEF Resolve, Typed, Formed, IInv, ReadsTyped, Optional
  <2>3. ASSUME NEW p \in {"reading", "waiting"}, i # None,
               lane' = [lane EXCEPT ![l] = [L EXCEPT !.pc = p, !.ref = i]]
        PROVE  Goal
    <3>1. PICK r : r = [L EXCEPT !.pc = p, !.ref = i]
      OBVIOUS
    <3>2. /\ r.pc = p /\ r.then = L.then /\ r.q = L.q /\ r.batch = L.batch /\ r.run = L.run
          /\ r.late = L.late /\ r.keys = L.keys /\ r.key = L.key /\ r.ref = i
      BY <1>2, <3>1 DEF Typed, Idle
    <3>3. L.then = "idle"
      BY <1>2, <2>2 DEF Formed
    <3>4. Formed(r) /\ Holds(r) = Holds(L)
      BY <1>2, <2>2, <2>3, <3>2, <3>3 DEF Formed, Holds
    <3> QED
      BY <2>3, <3>1, <3>4
  <2>4. \/ \E got : lane' = [lane EXCEPT ![l] = Sought(L, L.key, got)]
        \/ i # None /\ lane' = [lane EXCEPT ![l] = [L EXCEPT !.pc = "reading", !.ref = i]]
        \/ i # None /\ lane' = [lane EXCEPT ![l] = [L EXCEPT !.pc = "waiting", !.ref = i]]
    BY <1>1, <1>7, <2>1, Zenon DEF Resolve
  <2> HIDE DEF Goal
  <2> QED
    BY <1>6, <2>2, <2>3, <2>4
<1>8. ASSUME Wake(l)
      PROVE  Goal
  <2>1. L.pc = "waiting"
    BY <1>1, <1>8 DEF Wake
  <2>2. \E got : lane' = [lane EXCEPT ![l] = Sought(L, L.key, got)]
    BY <1>1, <1>8, Zenon DEF Wake
  <2> HIDE DEF Goal
  <2> QED
    BY <1>6, <2>1, <2>2
<1>9. ASSUME NEW good \in BOOLEAN, Read(l, good)
      PROVE  Goal
  <2>1. L.pc = "reading"
    BY <1>1, <1>9 DEF Read
  <2>2. \E got : lane' = [lane EXCEPT ![l] = Sought(L, L.key, got)]
    BY <1>1, <1>9, Zenon DEF Read
  <2> HIDE DEF Goal
  <2> QED
    BY <1>6, <2>1, <2>2
<1>10. ASSUME Leave(l)
       PROVE  Goal
  <2>1. PICK q, T : q = L.q /\ T = {planKey[q]} \ {None}
    OBVIOUS
  <2>2. PICK r : r = [Idle EXCEPT !.pc = "release", !.q = q, !.promote = TRUE, !.todo = T, !.then = "cleanup"]
    OBVIOUS
  <2>3. lane' = [lane EXCEPT ![l] = r] /\ L.pc = "leave"
    <3>1. lane' = [lane EXCEPT ![l] = [Idle EXCEPT !.pc = "release", !.q = q, !.promote = TRUE, !.todo = T,
                                                   !.then = "cleanup"]]
      BY <1>1, <1>10, <2>1, Zenon DEF Leave
    <3> QED
      BY <1>1, <1>10, <2>2, <3>1 DEF Leave
  <2>4. q \in Requests /\ T \subseteq Keys
    BY <1>2, <2>1, <2>3 DEF Formed, Kept, Optional
  <2>5. /\ r.pc = "release" /\ r.q = q /\ r.todo = T /\ r.then = "cleanup" /\ r.batch = {}
        /\ r.run = {} /\ r.late = {} /\ r.key = None /\ r.ref = None /\ r.keys = [x \in Requests |-> None]
    BY <2>2 DEF Idle
  <2>6. L.then = "idle"
    BY <1>2, <2>3 DEF Formed
  <2>7. Formed(r) /\ Holds(r) = Holds(L)
    BY <2>3, <2>4, <2>5, <2>6 DEF Formed, Holds, Optional
  <2> QED
    BY <2>3, <2>7
<1>11. ASSUME NEW k \in Keys, ReadState(l, k)
       PROVE  Goal
  <2>1. PICK T, x, r : /\ T = L.todo \ {k} /\ x = StateOf(k)
                       /\ r = [L EXCEPT !.pc = "select", !.todo = T, !.key = k, !.seen = x]
    OBVIOUS
  <2>2. lane' = [lane EXCEPT ![l] = r] /\ L.pc = "release"
    <3>1. lane' = [lane EXCEPT ![l] = [L EXCEPT !.pc = "select", !.todo = T, !.key = k, !.seen = x]]
      BY <1>1, <1>11, <2>1, Zenon DEF ReadState
    <3> QED
      BY <1>1, <1>11, <2>1, <3>1, Zenon DEF ReadState
  <2>3. /\ r.pc = "select" /\ r.then = L.then /\ r.q = L.q /\ r.batch = L.batch /\ r.run = L.run
        /\ r.late = L.late /\ r.keys = L.keys /\ r.key = k /\ r.ref = L.ref /\ r.todo = L.todo \ {k}
    BY <1>2, <2>1 DEF Typed, Idle
  <2>4. Formed(r)
    BY <1>2, <2>2, <2>3 DEF Formed, Optional
  <2>5. Holds(r) = Holds(L)
    BY <2>2, <2>3 DEF Holds
  <2> QED
    BY <2>2, <2>4, <2>5
<1>12. ASSUME NEW key \in Keys \cup {None}, NEW fails \in BOOLEAN, LoadOne(l, key, fails)
       PROVE  Goal
  <2>1. PICK ok, r : /\ ok = ~fails
                     /\ r = IF key = None THEN [L EXCEPT !.pc = "publish", !.ok = ok]
                            ELSE [L EXCEPT !.pc = "resolve", !.key = key]
    OBVIOUS
  <2>2. lane' = [lane EXCEPT ![l] = r] /\ L.pc = "load"
    BY <1>1, <1>12, <2>1, Zenon DEF LoadOne
  <2>3. /\ r.pc \in {"publish", "resolve"} /\ r.then = L.then /\ r.q = L.q /\ r.batch = L.batch
        /\ r.run = L.run /\ r.late = L.late /\ r.keys = L.keys /\ r.key \in {L.key, key} /\ r.ref = L.ref
    BY <1>2, <2>1 DEF Typed, Idle
  <2>4. L.then = "idle"
    BY <1>2, <2>2 DEF Formed
  <2>5. Formed(r)
    BY <1>2, <2>2, <2>3, <2>4 DEF Formed, Optional
  <2>6. Holds(r) = Holds(L)
    BY <2>2, <2>3 DEF Holds
  <2> QED
    BY <2>2, <2>5, <2>6
<1> HIDE DEF Goal
<1>13. Goal
  BY <1>5, <1>7, <1>8, <1>9, <1>10, <1>11, <1>12
<1> QED
  BY <1>13 DEF Goal
-----------------------------------------------------------------------------
\* A step that moves loads between the queue, the deferred table and one thread.
LEMMA Shifted ==
    ASSUME IInv, Kept, Shared, DOMAIN flight \subseteq DOMAIN flight', NEW l \in Lanes, NEW L, L = lane[l],
           NEW r, Formed(r), lane' = [lane EXCEPT ![l] = r],
           queue' \in Seq(Items), deferred' \in Seq(Requests), planKey' \in [Requests -> Optional(Keys)],
           inflight' \subseteq Requests, stopped' \in BOOLEAN, down' = down,
           Once(queue'), Distinct(deferred'),
           NEW gone \in SUBSET Holds(L), awaiting' = awaiting \ gone,
           NEW M, M = Named(queue'), NEW C, C = Elements(deferred'), NEW H, H = Holds(r),
           M \cap C = {}, H \cap (M \cup C) = {},
           M \cup C \cup H = (Named(queue) \cup Elements(deferred) \cup Holds(L)) \ gone
    PROVE  Kept' /\ Shared'
<1>1. LanesOK
  BY DEF IInv
<1>2. \A m \in Lanes : Formed(lane[m])'
  BY <1>1, FormedKept
<1>3. awaiting' \subseteq Requests
  BY DEF Kept
<1>4. Kept'
  BY <1>2, <1>3 DEF Kept
<1>5. Shared'
  BY <1>1, Moved
<1> QED
  BY <1>4, <1>5

\* ... and reports none.
LEMMA ShiftedOn ==
    ASSUME IInv, Kept, Shared, DOMAIN flight \subseteq DOMAIN flight', NEW l \in Lanes, NEW L, L = lane[l],
           NEW r, Formed(r), lane' = [lane EXCEPT ![l] = r],
           queue' \in Seq(Items), deferred' \in Seq(Requests), planKey' \in [Requests -> Optional(Keys)],
           inflight' \subseteq Requests, stopped' \in BOOLEAN, down' = down, awaiting' = awaiting,
           Once(queue'), Distinct(deferred'),
           NEW M, M = Named(queue'), NEW C, C = Elements(deferred'), NEW H, H = Holds(r),
           M \cap C = {}, H \cap (M \cup C) = {},
           M \cup C \cup H = Named(queue) \cup Elements(deferred) \cup Holds(L)
    PROVE  Kept' /\ Shared'
<1>1. PICK gone : gone = {}
  OBVIOUS
<1>2. gone \in SUBSET Holds(L) /\ awaiting' = awaiting \ gone
  BY <1>1
<1>3. M \cup C \cup H = (Named(queue) \cup Elements(deferred) \cup Holds(L)) \ gone
  BY <1>1
<1> QED
  BY <1>2, <1>3, Shifted

\* ... where only thread l goes on, as r.
Becomes(l, r) == lane' = [lane EXCEPT ![l] = r]

LEMMA ShiftsOn ==
    ASSUME IInv, Kept, Shared, DOMAIN flight \subseteq DOMAIN flight', NEW l \in Lanes,
           NEW r, Formed(r), Becomes(l, r),
           queue' \in Seq(Items), deferred' \in Seq(Requests), planKey' \in [Requests -> Optional(Keys)],
           inflight' \subseteq Requests, stopped' \in BOOLEAN, down' = down, awaiting' = awaiting,
           Once(queue'), Distinct(deferred'),
           NEW M, M = Named(queue'), NEW C, C = Elements(deferred'), NEW H, H = Holds(r),
           M \cap C = {}, H \cap (M \cup C) = {},
           M \cup C \cup H = Named(queue) \cup Elements(deferred) \cup Holds(lane[l])
    PROVE  Kept' /\ Shared'
<1> USE DEF Becomes
<1>1. PICK L, gone : L = lane[l] /\ gone = {}
  OBVIOUS
<1>2. gone \in SUBSET Holds(L) /\ awaiting' = awaiting \ gone
  BY <1>1
<1>3. M \cup C \cup H = (Named(queue) \cup Elements(deferred) \cup Holds(L)) \ gone
  BY <1>1
<1>4. LanesOK
  BY DEF IInv
<1>5. \A m \in Lanes : Formed(lane[m])'
  BY <1>4, FormedKept
<1>6. awaiting' \subseteq Requests
  BY DEF Kept
<1>7. Kept'
  BY <1>5, <1>6 DEF Kept
<1>8. Shared'
  BY <1>1, <1>2, <1>3, <1>4, Moved
<1> QED
  BY <1>7, <1>8

\* What the facts about queue, deferred and one thread are.
LEMMA Apart ==
    ASSUME Kept, Shared, NEW l \in Lanes
    PROVE  /\ queue \in Seq(Items) /\ Once(queue) /\ deferred \in Seq(Requests) /\ Distinct(deferred)
           /\ Named(queue) \cap Elements(deferred) = {} /\ Named(queue) \subseteq Requests
           /\ Holds(lane[l]) \cap (Named(queue) \cup Elements(deferred)) = {}
           /\ Formed(lane[l])
BY DEF Kept, Shared, Named

LEMMA TakeStep ==
    ASSUME IInv, Kept, Shared, DOMAIN flight \subseteq DOMAIN flight', NEW l \in Lanes, Take(l)
    PROVE  Kept' /\ Shared'
<1>1. PICK L, W, D : L = lane[l] /\ W = Named(queue) /\ D = Elements(deferred)
  OBVIOUS
<1>2. /\ queue \in Seq(Items) /\ Once(queue) /\ deferred \in Seq(Requests) /\ Distinct(deferred)
      /\ W \cap D = {} /\ Formed(L)
  BY <1>1, Apart
<1>3. L.pc = "idle" /\ queue # <<>> /\ queue' = Tail(queue)
  BY <1>1 DEF Take
<1>4. Holds(L) = {}
  BY <1>2, <1>3 DEF Formed, Holds
<1>5. PICK item, s : item = Head(queue) /\ s = Tail(queue)
  OBVIOUS
<1>6. PICK M, C : M = Named(s) /\ C = Calls(item)
  OBVIOUS
<1>7. item \in Items /\ s \in Seq(Items) /\ Once(s) /\ W = M \cup C /\ M \cap C = {}
  BY <1>1, <1>2, <1>3, <1>5, <1>6, ItemTaken
<1>8. PICK B, q, ok : B = item.batch /\ q = item.q /\ ok = ~item.poisoned
  OBVIOUS
<1>9. PICK r : r = IF item = Sentinel THEN [Idle EXCEPT !.pc = "exited"]
                   ELSE IF q = None THEN [Idle EXCEPT !.pc = "prepare", !.batch = B]
                   ELSE [Idle EXCEPT !.pc = "load", !.q = q, !.ok = ok]
  OBVIOUS
<1>10. lane' = [lane EXCEPT ![l] = r]
  BY <1>5, <1>8, <1>9, Zenon DEF Take
<1>11. None \notin Requests
  BY BaseReadConstants DEF Requests
<1>12. Formed(r) /\ Holds(r) = C
  <2>1. CASE item = Sentinel
    <3>1. C = {} /\ r = [Idle EXCEPT !.pc = "exited"]
      BY <1>6, <1>9, <2>1, ItemKinds
    <3>2. /\ r.pc = "exited" /\ r.q = None /\ r.then = "idle" /\ r.batch = {}
          /\ r.run = {} /\ r.late = {} /\ r.key = None /\ r.ref = None /\ r.keys = [x \in Requests |-> None]
      BY <3>1 DEF Idle
    <3> QED
      BY <3>1, <3>2 DEF Formed, Holds, Optional
  <2>2. CASE item # Sentinel /\ q = None
    <3>1. B \subseteq Requests /\ C = B
      BY <1>6, <1>7, <1>8, <1>11, <2>2 DEF Items, Calls
    <3>2. r = [Idle EXCEPT !.pc = "prepare", !.batch = B]
      BY <1>9, <2>2
    <3>3. /\ r.pc = "prepare" /\ r.q = None /\ r.then = "idle" /\ r.batch = B
          /\ r.run = {} /\ r.late = {} /\ r.key = None /\ r.ref = None /\ r.keys = [x \in Requests |-> None]
      BY <3>2 DEF Idle
    <3> QED
      BY <3>1, <3>3 DEF Formed, Holds, Optional
  <2>3. CASE item # Sentinel /\ q # None
    <3>1. q \in Requests /\ C = {q}
      BY <1>6, <1>7, <1>8, <2>3 DEF Items, Calls
    <3>2. r = [Idle EXCEPT !.pc = "load", !.q = q, !.ok = ok]
      BY <1>9, <2>3
    <3>3. /\ r.pc = "load" /\ r.q = q /\ r.then = "idle" /\ r.batch = {}
          /\ r.run = {} /\ r.late = {} /\ r.key = None /\ r.ref = None /\ r.keys = [x \in Requests |-> None]
      BY <3>2 DEF Idle
    <3> QED
      BY <3>1, <3>3 DEF Formed, Holds, Optional
  <2> QED
    BY <2>1, <2>2, <2>3
<1>13. /\ deferred' = deferred /\ planKey' = planKey /\ inflight' = inflight /\ stopped' = stopped
       /\ down' = down /\ awaiting' = awaiting
  BY DEF Take, outside
<1>14. planKey' \in [Requests -> Optional(Keys)] /\ inflight' \subseteq Requests /\ stopped' \in BOOLEAN
  BY <1>13 DEF Kept
<1>15. /\ queue' \in Seq(Items) /\ Once(queue') /\ M = Named(queue') /\ deferred' \in Seq(Requests)
       /\ Distinct(deferred') /\ D = Elements(deferred')
  BY <1>1, <1>2, <1>3, <1>5, <1>6, <1>7, <1>13
<1>16. /\ awaiting' = awaiting /\ M \cap D = {} /\ C \cap (M \cup D) = {}
       /\ M \cup D \cup C = W \cup D \cup Holds(L)
  BY <1>2, <1>4, <1>7, <1>13
<1> QED
  BY <1>1, <1>10, <1>12, <1>13, <1>14, <1>15, <1>16, ShiftedOn

LEMMA PrepareStep ==
    ASSUME IInv, Kept, Shared, DOMAIN flight \subseteq DOMAIN flight', NEW l \in Lanes,
           NEW E \in SUBSET Requests, NEW raises \in BOOLEAN, Prepare(l, E, raises)
    PROVE  Kept' /\ Shared'
<1>1. PICK L, W, D : L = lane[l] /\ W = Named(queue) /\ D = Elements(deferred)
  OBVIOUS
<1>2. /\ queue \in Seq(Items) /\ Once(queue) /\ deferred \in Seq(Requests) /\ Distinct(deferred)
      /\ W \cap D = {} /\ Formed(L) /\ Holds(L) \cap (W \cup D) = {}
  BY <1>1, Apart
<1>3. PICK A, B : A = L.batch \cap cancelled /\ B = L.batch \ cancelled
  OBVIOUS
<1>4. L.pc = "prepare" /\ E \subseteq B /\ \A q \in E : Base[q] # None
  BY <1>1, <1>3 DEF Prepare
<1>5. Holds(L) = A \cup B /\ A \cap B = {} /\ A \in SUBSET Requests /\ B \in SUBSET Requests
  BY <1>2, <1>3, <1>4 DEF Formed, Holds
<1>6. PICK s, a : s = queue \o Loads(Sorted(A), FALSE) /\ a = Sorted(A)
  OBVIOUS
<1>7. a \in Seq(Requests) /\ Distinct(a) /\ Elements(a) = A
  BY <1>5, <1>6, InOrder
<1>8. s \in Seq(Items) /\ Once(s) /\ Named(s) = W \cup A
  <2>1. Named(queue) \cap Elements(a) = {}
    BY <1>1, <1>2, <1>5, <1>7
  <2>2. s = queue \o Loads(a, FALSE)
    BY <1>6
  <2>3. Named(queue \o Loads(a, FALSE)) = Named(queue) \cup Elements(a)
    BY <1>2, <1>7, <2>1, LoadsQueued
  <2>4. queue \o Loads(a, FALSE) \in Seq(Items) /\ Once(queue \o Loads(a, FALSE))
    BY <1>2, <1>7, <2>1, LoadsQueued
  <2> QED
    BY <1>1, <1>7, <2>2, <2>3, <2>4
<1>9. /\ deferred' = deferred /\ planKey' = planKey /\ inflight' = inflight /\ stopped' = stopped
      /\ down' = down /\ awaiting' = awaiting
  BY DEF Prepare, outside
<1>10. planKey' \in [Requests -> Optional(Keys)] /\ inflight' \subseteq Requests /\ stopped' \in BOOLEAN
  BY <1>9 DEF Kept
<1>11. deferred' \in Seq(Requests) /\ Distinct(deferred') /\ D = Elements(deferred')
  BY <1>1, <1>2, <1>9
<1>12. PICK T, K : /\ T = {Base[q] : q \in E}
                   /\ K = [q \in Requests |-> IF q \in E THEN Base[q] ELSE None]
  OBVIOUS
<1>13. \/ /\ queue' = s \o Loads(Sorted(B), TRUE) /\ lane' = [lane EXCEPT ![l] = Idle]
       \/ /\ queue' = s
          /\ lane' = [lane EXCEPT ![l] = [L EXCEPT !.pc = "register", !.batch = B, !.todo = T, !.keys = K]]
  <2>1. raises \/ B = {} =>
          /\ queue' = queue \o Loads(Sorted(A), FALSE) \o Loads(Sorted(B), TRUE)
          /\ lane' = [lane EXCEPT ![l] = Idle]
    BY <1>1, <1>3, Zenon DEF Prepare
  <2>2. ~ (raises \/ B = {}) =>
          /\ queue' = queue \o Loads(Sorted(A), FALSE)
          /\ lane' = [lane EXCEPT ![l] = [L EXCEPT !.pc = "register", !.batch = B, !.todo = T, !.keys = K]]
    BY <1>1, <1>3, <1>12, Zenon DEF Prepare
  <2> QED
    BY <1>6, <2>1, <2>2, Zenon
<1>14. CASE queue' = s \o Loads(Sorted(B), TRUE) /\ lane' = [lane EXCEPT ![l] = Idle]
  <2>1. PICK b : b = Sorted(B)
    OBVIOUS
  <2>2. b \in Seq(Requests) /\ Distinct(b) /\ Elements(b) = B
    BY <1>5, <2>1, InOrder
  <2>3. Named(s) \cap Elements(b) = {}
    BY <1>2, <1>5, <1>8, <2>2
  <2>4. queue' \in Seq(Items) /\ Once(queue') /\ Named(queue') = W \cup A \cup B
    BY <1>8, <1>14, <2>1, <2>2, <2>3, LoadsQueued
  <2>5. PICK M, r, H : M = Named(queue') /\ r = Idle /\ H = {}
    OBVIOUS
  <2>7. Formed(r) /\ H = Holds(r) /\ lane' = [lane EXCEPT ![l] = r]
    BY <1>14, <2>5, FreshFormed
  <2>8. queue' \in Seq(Items) /\ Once(queue') /\ M = Named(queue')
    BY <2>4, <2>5
  <2>6. /\ awaiting' = awaiting /\ M \cap D = {}
        /\ H \cap (M \cup D) = {} /\ M \cup D \cup H = W \cup D \cup Holds(L)
    BY <1>2, <1>5, <1>9, <2>4, <2>5
  <2> QED
    BY <1>1, <1>9, <1>10, <1>11, <2>6, <2>7, <2>8, ShiftedOn
<1>15. CASE queue' = s /\ lane' = [lane EXCEPT ![l] = [L EXCEPT !.pc = "register", !.batch = B,
                                                                 !.todo = T, !.keys = K]]
  <2>1. PICK r : r = [L EXCEPT !.pc = "register", !.batch = B, !.todo = T, !.keys = K]
    OBVIOUS
  <2>2. Typed(L)
    BY <1>1 DEF IInv, LanesOK
  <2>3. /\ r.pc = "register" /\ r.then = L.then /\ r.q = L.q /\ r.batch = B
        /\ r.run = L.run /\ r.late = L.late /\ r.keys = K /\ r.key = L.key /\ r.ref = L.ref /\ r.todo = T
    BY <2>1, <2>2 DEF Typed, Idle
  <2>4. L.run = {} /\ L.late = {} /\ L.then = "idle"
    BY <1>2, <1>4 DEF Formed
  <2>5. \A q \in E : Base[q] \in Keys /\ Base[q] # None
    BY <1>4, BaseReadConstants
  <2>6. T \subseteq Keys /\ K \in [Requests -> Optional(Keys)]
    BY <1>12, <2>5 DEF Optional
  <2>7. Split(r)
    <3>1. {q \in Requests : r.keys[q] # None} \subseteq r.batch
      BY <1>4, <1>12, <2>3
    <3>2. \A q \in Requests : r.keys[q] # None => r.keys[q] \in r.todo
      BY <1>12, <2>3
    <3> QED
      BY <2>3, <2>4, <3>1, <3>2 DEF Split
  <2>8. Formed(r)
    BY <1>2, <1>5, <2>3, <2>4, <2>6, <2>7 DEF Formed
  <2>9. Holds(r) = B
    BY <2>3 DEF Holds
  <2>10. PICK M : M = Named(queue')
    OBVIOUS
  <2>11. /\ awaiting' = awaiting /\ M \cap D = {}
         /\ B \cap (M \cup D) = {} /\ M \cup D \cup B = W \cup D \cup Holds(L)
    BY <1>2, <1>5, <1>8, <1>9, <1>15, <2>10
  <2>12. queue' \in Seq(Items) /\ Once(queue') /\ lane' = [lane EXCEPT ![l] = r]
    BY <1>8, <1>15, <2>1
  <2> QED
    BY <1>1, <1>9, <1>10, <1>11, <2>8, <2>9, <2>10, <2>11, <2>12, ShiftedOn
<1> QED
  BY <1>13, <1>14, <1>15

LEMMA RegisterMoves ==
    ASSUME IInv, Kept, Shared, DOMAIN flight \subseteq DOMAIN flight', NEW l \in Lanes, NEW k \in Keys,
           Register(l, k)
    PROVE  Kept' /\ Shared'
<1>1. PICK L, Q : L = lane[l] /\ Q = {q \in Requests : L.keys[q] = k}
  OBVIOUS
<1>2. Typed(L) /\ Formed(L) /\ L.pc = "register" /\ k \in L.todo /\ Split(L)
  BY <1>1 DEF IInv, LanesOK, Kept, Register, Formed
<1>3. PICK A : A = Accepted(k, Q) /\ A \subseteq Q
  <2>1. Accepted(k, Q) \subseteq Q
    BY DEF Accepted
  <2> QED
    BY <2>1
<1>4. PICK first : /\ first = IF A = {} THEN {}
                              ELSE IF Joined(k, A).state \in {"ready", "error"} THEN A
                              ELSE IF Joined(k, A).state = "registered" THEN A \cap {Joined(k, A).leader} ELSE {}
                   /\ first \subseteq A
  OBVIOUS
<1>5. PICK T, R, Y, K : /\ T = L.todo \ {k} /\ R = L.run \cup first /\ Y = L.late \cup (A \ first)
                        /\ K = [q \in Requests |-> IF q \in Q \ A THEN None ELSE L.keys[q]]
  OBVIOUS
<1>6. PICK r : r = [L EXCEPT !.todo = T, !.run = R, !.late = Y, !.keys = K]
  OBVIOUS
<1>7. lane' = [lane EXCEPT ![l] = r]
  <2>1. lane' = [lane EXCEPT ![l] = [L EXCEPT !.todo = T, !.run = R, !.late = Y, !.keys = K]]
    <3> DEFINE f == Joined(k, A)
               g == IF A = {} THEN {} ELSE IF f.state \in {"ready", "error"} THEN A
                    ELSE IF f.state = "registered" THEN A \cap {f.leader} ELSE {}
    <3>1. first = g
      BY <1>4, Zenon
    <3>2. lane' = [lane EXCEPT ![l] = [L EXCEPT
              !.todo = L.todo \ {k}, !.run = L.run \cup g, !.late = L.late \cup (A \ g),
              !.keys = [q \in Requests |-> IF q \in Q \ A THEN None ELSE L.keys[q]]]]
      BY <1>1, <1>3 DEF Register
    <3> HIDE DEF g
    <3> QED
      BY <1>5, <3>1, <3>2, Zenon
  <2> QED
    BY <1>6, <2>1
<1>8. /\ r.pc = "register" /\ r.then = L.then /\ r.q = L.q /\ r.batch = L.batch
      /\ r.run = R /\ r.late = Y /\ r.keys = K /\ r.key = L.key /\ r.ref = L.ref /\ r.todo = T
  BY <1>2, <1>6 DEF Typed, Idle
<1>9. /\ L.keys \in [Requests -> Optional(Keys)] /\ k # None /\ A \subseteq Requests
      /\ \A q \in Q : q \in L.batch /\ q \notin L.run /\ q \notin L.late /\ L.keys[q] = k
  BY <1>1, <1>2, <1>3, BaseReadConstants DEF Formed, Split
<1>10. \A q \in Requests : K[q] = IF q \in Q \ A THEN None ELSE L.keys[q]
  BY <1>5
<1>11. Split(r)
  <2>1. {q \in Requests : K[q] # None} \subseteq L.batch
    BY <1>2, <1>10 DEF Split
  <2>2. R \cap Y = {}
    BY <1>2, <1>3, <1>4, <1>5, <1>9 DEF Split
  <2>3. R \cup Y = L.run \cup L.late \cup A
    BY <1>4, <1>5
  <2>4. L.run \cup L.late = {q \in Requests : L.keys[q] # None /\ L.keys[q] \notin L.todo}
    BY <1>2 DEF Split
  <2>5. ASSUME NEW q \in Requests
        PROVE  q \in R \cup Y <=> K[q] # None /\ K[q] \notin T
    <3>1. q \in Q <=> L.keys[q] = k
      BY <1>1
    <3> QED
      BY <1>2, <1>3, <1>5, <1>9, <1>10, <2>3, <2>4, <3>1
  <2>6. R \cup Y \subseteq Requests
    BY <1>9, <2>3, <2>4
  <2> QED
    BY <1>8, <2>1, <2>2, <2>5, <2>6 DEF Split
<1>12. K \in [Requests -> Optional(Keys)]
  BY <1>5, <1>9 DEF Optional
<1>13. Formed(r)
  BY <1>2, <1>4, <1>5, <1>8, <1>9, <1>11, <1>12 DEF Formed
<1>14. Holds(r) = Holds(L)
  BY <1>2, <1>8 DEF Holds
<1>15. UNCHANGED <<work, awaiting, down>>
  BY DEF Register, outside
<1> QED
  BY <1>1, <1>7, <1>13, <1>14, <1>15, Stays

LEMMA DeferStep ==
    ASSUME IInv, Kept, Shared, DOMAIN flight \subseteq DOMAIN flight', NEW l \in Lanes, Defer(l)
    PROVE  Kept' /\ Shared'
<1>1. PICK L, W, D : L = lane[l] /\ W = Named(queue) /\ D = Elements(deferred)
  OBVIOUS
<1>2. /\ queue \in Seq(Items) /\ Once(queue) /\ deferred \in Seq(Requests) /\ Distinct(deferred)
      /\ W \cap D = {} /\ Formed(L) /\ Holds(L) \cap (W \cup D) = {} /\ Typed(L)
  BY <1>1, Apart DEF IInv, LanesOK
<1>3. L.pc = "register" /\ L.todo = {} /\ L.then = "idle"
  BY <1>1, <1>2 DEF Defer, Formed
<1>4. PICK T, r : T = L.batch \cap cancelled /\ r = [L EXCEPT !.pc = "hand", !.todo = T]
  OBVIOUS
<1>5. lane' = [lane EXCEPT ![l] = r]
  BY <1>1, <1>4 DEF Defer
<1>6. /\ r.pc = "hand" /\ r.then = L.then /\ r.q = L.q /\ r.batch = L.batch
      /\ r.run = L.run /\ r.late = L.late /\ r.keys = L.keys /\ r.key = L.key /\ r.ref = L.ref
  BY <1>2, <1>4 DEF Typed, Idle
<1>7. /\ Split(L) /\ L.run \cap L.late = {} /\ L.late \subseteq Requests /\ L.batch \subseteq Requests
      /\ L.run \cup L.late = {q \in Requests : L.keys[q] # None} /\ L.run \cup L.late \subseteq L.batch
  BY <1>2, <1>3 DEF Formed, Split
<1>8. Formed(r)
  <2>1. Split(r)
    BY <1>6, <1>7 DEF Split
  <2> QED
    BY <1>2, <1>3, <1>6, <2>1 DEF Formed
<1>9. PICK H : H = Holds(r)
  OBVIOUS
<1>10. Holds(L) = L.batch /\ H = L.run \cup {q \in L.batch : L.keys[q] = None}
  BY <1>3, <1>6, <1>9 DEF Holds
<1>11. L.late \cup H = L.batch /\ L.late \cap H = {}
  BY <1>7, <1>10
<1>12. PICK d, e : d = Keep(deferred, Requests \ L.late) /\ e = Sorted(L.late)
  OBVIOUS
<1>13. D \subseteq Requests
  BY <1>1, <1>2 DEF Elements
<1>14. d \in Seq(Requests) /\ Distinct(d) /\ Elements(d) = D
  <2>1. d \in Seq(Requests) /\ Distinct(d) /\ Elements(d) = D \cap (Requests \ L.late)
    BY <1>1, <1>2, <1>12, KeepOK
  <2> QED
    BY <1>2, <1>10, <1>11, <1>13, <2>1
<1>15. e \in Seq(Requests) /\ Distinct(e) /\ Elements(e) = L.late
  BY <1>7, <1>12, InOrder
<1>16. deferred' = d \o e
  BY <1>1, <1>12 DEF Defer
<1>17. Elements(d) \cap Elements(e) = {}
  BY <1>2, <1>10, <1>11, <1>14, <1>15
<1>18. deferred' \in Seq(Requests) /\ Distinct(deferred') /\ Elements(deferred') = D \cup L.late
  BY <1>14, <1>15, <1>16, <1>17, JoinOK
<1>19. queue' = queue /\ inflight' = inflight /\ stopped' = stopped /\ down' = down /\ awaiting' = awaiting
  BY <1>1 DEF Defer, outside
<1>20. planKey' \in [Requests -> Optional(Keys)]
  <2>1. planKey' = [q \in Requests |-> IF L.keys[q] # None THEN L.keys[q] ELSE planKey[q]]
    BY <1>1 DEF Defer
  <2> QED
    BY <1>2, <2>1 DEF Formed, Kept
<1>21. queue' \in Seq(Items) /\ Once(queue') /\ W = Named(queue')
  BY <1>1, <1>2, <1>19
<1>22. inflight' \subseteq Requests /\ stopped' \in BOOLEAN
  BY <1>19 DEF Kept
<1>23. PICK C : C = Elements(deferred')
  OBVIOUS
<1>24. /\ awaiting' = awaiting /\ W \cap C = {}
       /\ H \cap (W \cup C) = {} /\ W \cup C \cup H = W \cup D \cup Holds(L)
  BY <1>2, <1>10, <1>11, <1>18, <1>19, <1>23
<1>25. W \cup C \cup H = Named(queue) \cup Elements(deferred) \cup Holds(lane[l])
  BY <1>1, <1>24
<1>26. /\ W = Named(queue') /\ C = Elements(deferred') /\ H = Holds(r)
       /\ W \cap C = {} /\ H \cap (W \cup C) = {}
  BY <1>9, <1>21, <1>23, <1>24
<1>27. down' = down /\ awaiting' = awaiting
  BY <1>19
<1>28. Becomes(l, r) /\ Formed(r)
  BY <1>5, <1>8 DEF Becomes
<1>29. deferred' \in Seq(Requests) /\ Distinct(deferred')
  BY <1>18
<1> QED
  BY <1>20, <1>21, <1>22, <1>25, <1>26, <1>27, <1>28, <1>29, ShiftsOn
-----------------------------------------------------------------------------
LEMMA HandMoves ==
    ASSUME IInv, Kept, Shared, DOMAIN flight \subseteq DOMAIN flight', NEW l \in Lanes, Hand(l)
    PROVE  Kept' /\ Shared'
<1>1. PICK L, W, D : L = lane[l] /\ W = Named(queue) /\ D = Elements(deferred)
  OBVIOUS
<1>2. /\ queue \in Seq(Items) /\ Once(queue) /\ deferred \in Seq(Requests) /\ Distinct(deferred)
      /\ W \cap D = {} /\ Formed(L) /\ Holds(L) \cap (W \cup D) = {}
  BY <1>1, Apart
<1>3. L.pc = "hand" /\ Split(L) /\ L.keys \in [Requests -> Optional(Keys)]
  BY <1>1, <1>2 DEF Hand, Formed
<1>4. PICK R, A : R = L.run /\ A = {q \in L.batch : L.keys[q] = None}
  OBVIOUS
<1>5. Holds(L) = R \cup A /\ R \cap A = {} /\ R \in SUBSET Requests /\ A \in SUBSET Requests
  <2>1. R \subseteq {q \in Requests : L.keys[q] # None}
    BY <1>3, <1>4 DEF Split
  <2>2. L.batch \subseteq Requests
    BY <1>2 DEF Formed
  <2> QED
    BY <1>3, <1>4, <2>1, <2>2 DEF Holds
<1>6. PICK a, b : a = Sorted(R) /\ b = Sorted(A)
  OBVIOUS
<1>7. /\ a \in Seq(Requests) /\ Distinct(a) /\ Elements(a) = R
      /\ b \in Seq(Requests) /\ Distinct(b) /\ Elements(b) = A
  BY <1>5, <1>6, InOrder
<1>8. PICK s : s = queue \o Loads(a, FALSE)
  OBVIOUS
<1>9. s \in Seq(Items) /\ Once(s) /\ Named(s) = W \cup R
  <2>1. Named(queue) \cap Elements(a) = {}
    BY <1>1, <1>2, <1>5, <1>7
  <2>2. Named(queue \o Loads(a, FALSE)) = Named(queue) \cup Elements(a)
    BY <1>2, <1>7, <2>1, LoadsQueued
  <2>3. queue \o Loads(a, FALSE) \in Seq(Items) /\ Once(queue \o Loads(a, FALSE))
    BY <1>2, <1>7, <2>1, LoadsQueued
  <2> QED
    BY <1>1, <1>7, <1>8, <2>2, <2>3
<1>10. queue' = s \o Loads(b, FALSE)
  BY <1>1, <1>4, <1>6, <1>8 DEF Hand
<1>11. queue' \in Seq(Items) /\ Once(queue') /\ Named(queue') = W \cup R \cup A
  <2>1. Named(s) \cap Elements(b) = {}
    BY <1>2, <1>5, <1>7, <1>9
  <2>2. Named(s \o Loads(b, FALSE)) = Named(s) \cup Elements(b)
    BY <1>7, <1>9, <2>1, LoadsQueued
  <2>3. s \o Loads(b, FALSE) \in Seq(Items) /\ Once(s \o Loads(b, FALSE))
    BY <1>7, <1>9, <2>1, LoadsQueued
  <2> QED
    BY <1>7, <1>9, <1>10, <2>2, <2>3
<1>12. PICK p, T : p = (L.todo # {}) /\ T = {L.keys[q] : q \in Requests} \ {None}
  OBVIOUS
<1>13. PICK r : r = [Idle EXCEPT !.pc = "release", !.promote = p, !.todo = T]
  OBVIOUS
<1>14. lane' = [lane EXCEPT ![l] = r]
  <2>1. lane' = [lane EXCEPT ![l] = [Idle EXCEPT !.pc = "release", !.promote = p, !.todo = T]]
    BY <1>1, <1>12, Zenon DEF Hand
  <2> QED
    BY <1>13, <2>1
<1>15. /\ r.pc = "release" /\ r.q = None /\ r.todo = T /\ r.then = "idle" /\ r.batch = {}
       /\ r.run = {} /\ r.late = {} /\ r.key = None /\ r.ref = None /\ r.keys = [x \in Requests |-> None]
  BY <1>13 DEF Idle
<1>16. T \subseteq Keys
  BY <1>3, <1>12 DEF Optional
<1>17. Formed(r) /\ Holds(r) = {}
  BY <1>15, <1>16 DEF Formed, Holds, Optional
<1>18. /\ deferred' = deferred /\ planKey' = planKey /\ inflight' = inflight /\ stopped' = stopped
       /\ down' = down /\ awaiting' = awaiting
  BY DEF Hand, outside
<1>19. planKey' \in [Requests -> Optional(Keys)] /\ inflight' \subseteq Requests /\ stopped' \in BOOLEAN
  BY <1>18 DEF Kept
<1>20. deferred' \in Seq(Requests) /\ Distinct(deferred') /\ D = Elements(deferred')
  BY <1>1, <1>2, <1>18
<1>21. PICK M, H : M = Named(queue') /\ H = Holds(r)
  OBVIOUS
<1>22. M \cap D = {} /\ H \cap (M \cup D) = {} /\ M \cup D \cup H = W \cup D \cup Holds(L)
  BY <1>2, <1>5, <1>11, <1>17, <1>21
<1>23. queue' \in Seq(Items) /\ Once(queue') /\ Formed(r)
  BY <1>11, <1>17
<1> QED
  BY <1>1, <1>14, <1>18, <1>19, <1>20, <1>21, <1>22, <1>23, ShiftedOn

LEMMA SelectStep ==
    ASSUME IInv, Kept, Shared, DOMAIN flight \subseteq DOMAIN flight', NEW l \in Lanes, Select(l)
    PROVE  Kept' /\ Shared'
<1>1. PICK L, W, D : L = lane[l] /\ W = Named(queue) /\ D = Elements(deferred)
  OBVIOUS
<1>2. /\ queue \in Seq(Items) /\ Once(queue) /\ deferred \in Seq(Requests) /\ Distinct(deferred)
      /\ W \cap D = {} /\ Formed(L) /\ Holds(L) \cap (W \cup D) = {} /\ Typed(L)
  BY <1>1, Apart DEF IInv, LanesOK
<1>3. D \subseteq Requests
  BY <1>1, <1>2 DEF Elements
<1>4. PICK matching : matching = Keep(deferred, {q \in Requests : planKey[q] = L.key})
  OBVIOUS
<1>5. matching \in Seq(Requests) /\ Distinct(matching) /\ Elements(matching) \subseteq D
  BY <1>1, <1>2, <1>4, KeepOK
<1>6. PICK chosen : chosen = IF L.seen \in {None, "ready", "error"} THEN matching
                             ELSE IF L.seen = "registered" /\ L.promote /\ matching # <<>> THEN <<Head(matching)>>
                             ELSE <<>>
  OBVIOUS
<1>7. chosen \in Seq(Requests) /\ Distinct(chosen) /\ Elements(chosen) \subseteq D
  <2>1. CASE chosen = matching
    BY <1>5, <2>1
  <2>2. CASE chosen = <<>>
    BY <2>2 DEF Distinct, Elements
  <2>3. CASE matching # <<>> /\ chosen = <<Head(matching)>>
    <3>1. PICK x : x = Head(matching)
      OBVIOUS
    <3>2. x \in Requests /\ x \in Elements(matching)
      BY <1>5, <2>3, <3>1 DEF Elements
    <3>3. chosen = <<x>>
      BY <2>3, <3>1
    <3> QED
      BY <1>5, <3>2, <3>3 DEF Distinct, Elements
  <2> QED
    BY <1>6, <2>1, <2>2, <2>3
<1>8. PICK C : C = Elements(chosen)
  OBVIOUS
<1>9. PICK p \in BOOLEAN : p = (L.seen = None)
  OBVIOUS
<1>10. deferred' = Keep(deferred, Requests \ C) /\ queue' = queue \o Loads(chosen, p) /\ L.pc = "select"
  BY <1>1, <1>4, <1>6, <1>8, <1>9, Zenon DEF Select
<1>11. deferred' \in Seq(Requests) /\ Distinct(deferred') /\ Elements(deferred') = D \ C
  <2>1. Elements(Keep(deferred, Requests \ C)) = D \cap (Requests \ C)
    BY <1>1, <1>2, KeepOK
  <2>2. Keep(deferred, Requests \ C) \in Seq(Requests) /\ Distinct(Keep(deferred, Requests \ C))
    BY <1>2, KeepOK
  <2> QED
    BY <1>3, <1>10, <2>1, <2>2
<1>12. queue' \in Seq(Items) /\ Once(queue') /\ Named(queue') = W \cup C
  <2>1. Named(queue) \cap Elements(chosen) = {}
    BY <1>1, <1>2, <1>7
  <2>2. Named(queue \o Loads(chosen, p)) = Named(queue) \cup Elements(chosen)
    BY <1>2, <1>7, <2>1, LoadsQueued
  <2>3. queue \o Loads(chosen, p) \in Seq(Items) /\ Once(queue \o Loads(chosen, p))
    BY <1>2, <1>7, <2>1, LoadsQueued
  <2> QED
    BY <1>1, <1>8, <1>10, <2>2, <2>3
<1>13. PICK r : r = [L EXCEPT !.pc = "release", !.key = None, !.seen = None]
  OBVIOUS
<1>14. lane' = [lane EXCEPT ![l] = r]
  BY <1>1, <1>13 DEF Select
<1>15. /\ r.pc = "release" /\ r.then = L.then /\ r.q = L.q /\ r.batch = L.batch /\ r.run = L.run
       /\ r.late = L.late /\ r.keys = L.keys /\ r.key = None /\ r.ref = L.ref /\ r.todo = L.todo
  BY <1>2, <1>13 DEF Typed, Idle
<1>16. Formed(r)
  BY <1>2, <1>10, <1>15 DEF Formed, Optional
<1>17. Holds(r) = Holds(L)
  BY <1>10, <1>15 DEF Holds
<1>18. planKey' = planKey /\ inflight' = inflight /\ stopped' = stopped /\ down' = down /\ awaiting' = awaiting
  BY DEF Select, outside
<1>19. planKey' \in [Requests -> Optional(Keys)] /\ inflight' \subseteq Requests /\ stopped' \in BOOLEAN
  BY <1>18 DEF Kept
<1>20. PICK M, E, H : /\ M = Named(queue') /\ E = Elements(deferred') /\ H = Holds(r)
  OBVIOUS
<1>21. M \cap E = {} /\ H \cap (M \cup E) = {} /\ M \cup E \cup H = W \cup D \cup Holds(L)
  BY <1>2, <1>7, <1>8, <1>11, <1>12, <1>17, <1>20
<1>22. queue' \in Seq(Items) /\ Once(queue') /\ deferred' \in Seq(Requests) /\ Distinct(deferred')
  BY <1>11, <1>12
<1>23. L = lane[l] /\ M = Named(queue') /\ E = Elements(deferred') /\ H = Holds(r)
  BY <1>1, <1>20
<1>24. M \cup E \cup H = Named(queue) \cup Elements(deferred) \cup Holds(L)
  BY <1>1, <1>21
<1>25. M \cap E = {} /\ H \cap (M \cup E) = {}
  BY <1>21
<1>26. down' = down /\ awaiting' = awaiting
  BY <1>18
<1>27. DOMAIN flight \subseteq DOMAIN flight' /\ IInv /\ Kept /\ Shared
  OBVIOUS
<1> QED
  <2>1. Becomes(l, r)
    BY <1>14 DEF Becomes
  <2>2. M \cup E \cup H = Named(queue) \cup Elements(deferred) \cup Holds(lane[l])
    BY <1>23, <1>24
  <2> QED
    BY <1>16, <1>19, <1>22, <1>23, <1>25, <1>26, <2>1, <2>2, ShiftsOn

LEMMA PublishStep ==
    ASSUME IInv, Kept, Shared, DOMAIN flight \subseteq DOMAIN flight', NEW l \in Lanes,
           NEW verified \in BOOLEAN, Publish(l, verified)
    PROVE  Kept' /\ Shared'
<1>1. PICK L, W, D : L = lane[l] /\ W = Named(queue) /\ D = Elements(deferred)
  OBVIOUS
<1>2. /\ queue \in Seq(Items) /\ Once(queue) /\ deferred \in Seq(Requests) /\ Distinct(deferred)
      /\ W \cap D = {} /\ Formed(L) /\ Holds(L) \cap (W \cup D) = {}
  BY <1>1, Apart
<1>3. L.pc = "publish" /\ awaiting' = awaiting \ {L.q}
  BY <1>1 DEF Publish
<1>4. PICK q, r : q = L.q /\ r = [Idle EXCEPT !.pc = "leave", !.q = q]
  OBVIOUS
<1>5. lane' = [lane EXCEPT ![l] = r]
  <2>1. lane' = [lane EXCEPT ![l] = [Idle EXCEPT !.pc = "leave", !.q = q]]
    BY <1>1, <1>4 DEF Publish
  <2> QED
    BY <1>4, <2>1
<1>6. /\ r.pc = "leave" /\ r.q = q /\ r.todo = {} /\ r.then = "idle" /\ r.batch = {}
      /\ r.run = {} /\ r.late = {} /\ r.key = None /\ r.ref = None /\ r.keys = [x \in Requests |-> None]
  BY <1>4 DEF Idle
<1>7. q \in Requests /\ Holds(L) = {q}
  BY <1>2, <1>3, <1>4 DEF Formed, Holds
<1>8. Formed(r) /\ Holds(r) = {}
  BY <1>6, <1>7 DEF Formed, Holds, Optional
<1>9. /\ queue' = queue /\ deferred' = deferred /\ planKey' = planKey /\ inflight' = inflight
      /\ stopped' = stopped /\ down' = down
  BY DEF Publish, work
<1>10. planKey' \in [Requests -> Optional(Keys)] /\ inflight' \subseteq Requests /\ stopped' \in BOOLEAN
  BY <1>9 DEF Kept
<1>11. /\ queue' \in Seq(Items) /\ Once(queue') /\ W = Named(queue')
       /\ deferred' \in Seq(Requests) /\ Distinct(deferred') /\ D = Elements(deferred')
  BY <1>1, <1>2, <1>9
<1>12. PICK H, gone : H = Holds(r) /\ gone = {q}
  OBVIOUS
<1>13. gone \in SUBSET Holds(L) /\ awaiting' = awaiting \ gone
  BY <1>3, <1>4, <1>7, <1>12
<1>14. H \cap (W \cup D) = {} /\ W \cup D \cup H = (W \cup D \cup Holds(L)) \ gone
  BY <1>2, <1>7, <1>8, <1>12
<1>15. H = Holds(r) /\ Formed(r) /\ W \cap D = {} /\ down' = down
  BY <1>2, <1>8, <1>9, <1>12
<1> QED
  BY <1>1, <1>5, <1>10, <1>11, <1>13, <1>14, <1>15, Shifted

\* Sentinels are no loads.
LEMMA StopIdleOK ==
    ASSUME Kept, Shared, NEW still, StopIdle(still)
    PROVE  queue' \in Seq(Items) /\ Once(queue') /\ Named(queue') = Named(queue) /\ stopped' \in BOOLEAN
<1>1. queue \in Seq(Items) /\ Once(queue) /\ stopped \in BOOLEAN
  BY DEF Kept, Shared
<1>2. /\ queue \o Sentinels \in Seq(Items) /\ Once(queue \o Sentinels)
      /\ Named(queue \o Sentinels) = Named(queue)
  BY <1>1, StopsQueued
<1>3. queue' = queue \/ queue' = queue \o Sentinels
  BY DEF StopIdle
<1>4. stopped' \in BOOLEAN
  BY <1>1 DEF StopIdle
<1> QED
  BY <1>1, <1>2, <1>3, <1>4

LEMMA CleanupStep ==
    ASSUME IInv, Kept, Shared, DOMAIN flight \subseteq DOMAIN flight', NEW l \in Lanes, Cleanup(l)
    PROVE  Kept' /\ Shared'
<1>1. PICK L, W, D : L = lane[l] /\ W = Named(queue) /\ D = Elements(deferred)
  OBVIOUS
<1>2. /\ queue \in Seq(Items) /\ Once(queue) /\ deferred \in Seq(Requests) /\ Distinct(deferred)
      /\ W \cap D = {} /\ Formed(L) /\ Holds(L) \cap (W \cup D) = {}
  BY <1>1, Apart
<1>3. /\ L.pc = "cleanup" /\ StopIdle(inflight') /\ inflight' = inflight \ {L.q}
      /\ planKey' = [planKey EXCEPT ![L.q] = None] /\ lane' = [lane EXCEPT ![l] = Idle]
      /\ deferred' = deferred /\ down' = down /\ awaiting' = awaiting
  BY <1>1 DEF Cleanup, outside
<1>4. queue' \in Seq(Items) /\ Once(queue') /\ Named(queue') = W /\ stopped' \in BOOLEAN
  BY <1>1, <1>3, StopIdleOK
<1>5. planKey' \in [Requests -> Optional(Keys)] /\ inflight' \subseteq Requests
  BY <1>3 DEF Kept, Optional
<1>6. Holds(L) = {}
  BY <1>2, <1>3 DEF Formed, Holds
<1>7. PICK r, H, M : r = Idle /\ H = Holds(r) /\ M = Named(queue')
  OBVIOUS
<1>8. Formed(r) /\ H = {} /\ lane' = [lane EXCEPT ![l] = r] /\ H = Holds(r) /\ M = Named(queue')
  BY <1>3, <1>7, FreshFormed
<1>9. deferred' \in Seq(Requests) /\ Distinct(deferred') /\ D = Elements(deferred')
  BY <1>1, <1>2, <1>3
<1>10. M \cap D = {} /\ H \cap (M \cup D) = {} /\ M \cup D \cup H = W \cup D \cup Holds(L)
  BY <1>2, <1>4, <1>6, <1>8
<1>11. queue' \in Seq(Items) /\ Once(queue') /\ stopped' \in BOOLEAN /\ down' = down /\ awaiting' = awaiting
  BY <1>3, <1>4
<1> QED
  BY <1>1, <1>5, <1>8, <1>9, <1>10, <1>11, ShiftedOn
-----------------------------------------------------------------------------
(***************************************************************************)
(* The scheduler, and the thread that shuts down.                          *)
(***************************************************************************)

\* A step outside the loader threads, which may bring new loads.
LEMMA Brought ==
    ASSUME IInv, Kept, Shared, DOMAIN flight \subseteq DOMAIN flight', lane' = lane,
           queue' \in Seq(Items), deferred' \in Seq(Requests), planKey' = planKey,
           inflight' \subseteq Requests, stopped' \in BOOLEAN, down' \in 0 .. 4,
           NEW new \in SUBSET Requests, awaiting' = awaiting \cup new, new \cap awaiting = {},
           Once(queue'), Distinct(deferred'),
           NEW M, M = Named(queue'), NEW C, C = Elements(deferred'),
           M \cap C = {}, M \cup C = Named(queue) \cup Elements(deferred) \cup new
    PROVE  Kept' /\ Shared'
<1>1. \A m \in Lanes : Formed(lane[m])'
  <2> SUFFICES ASSUME NEW m \in Lanes
               PROVE  Formed(lane[m])'
    OBVIOUS
  <2>1. PICK y : y = lane[m]
    OBVIOUS
  <2>2. Formed(y)
    BY <2>1 DEF Kept
  <2>3. Formed(y)'
    BY <2>2 DEF Formed, Split
  <2>4. y = lane'[m]
    BY <2>1
  <2> QED
    BY <2>3, <2>4 DEF Formed, Split
<1>2. Kept'
  BY <1>1 DEF Kept
<1>3. PICK W, D : W = Named(queue) /\ D = Elements(deferred)
  OBVIOUS
<1>4. PICK h : h = [m \in Lanes |-> Holds(lane[m])]
  OBVIOUS
<1>5. /\ \A m \in Lanes : h[m] \cap (W \cup D) = {}
      /\ \A m, j \in Lanes : h[m] \cap h[j] # {} => m = j
      /\ awaiting = W \cup D \cup UNION {h[m] : m \in Lanes}
  BY <1>3, <1>4 DEF Shared
<1>6. \A m \in Lanes : h[m] \subseteq awaiting
  BY <1>5
<1>7. \A m \in Lanes : h[m] \cap (M \cup C) = {}
  BY <1>3, <1>5, <1>6
<1>8. awaiting' = M \cup C \cup UNION {h[m] : m \in Lanes}
  BY <1>3, <1>5
<1>9. /\ \A m \in Lanes : Holds(lane[m])' = h[m]
      /\ Named(queue)' = M /\ Elements(deferred)' = C
  BY <1>4 DEF Holds
<1> QED
  BY <1>2, <1>5, <1>7, <1>8, <1>9 DEF Shared

LEMMA OutsideMoves ==
    ASSUME IInv, Kept, Shared, DOMAIN flight \subseteq DOMAIN flight',
           \/ \E Q \in SUBSET Requests : StartLoad(Q)
           \/ \E q \in Requests : RequestFinished(q) \/ CancelRead(q)
           \/ ShutDown
    PROVE  Kept' /\ Shared'
<1>1. /\ queue \in Seq(Items) /\ Once(queue) /\ deferred \in Seq(Requests) /\ Distinct(deferred)
      /\ Named(queue) \cap Elements(deferred) = {} /\ Named(queue) \cup Elements(deferred) \subseteq awaiting
  BY DEF Kept, Shared
<1>2. inflight \subseteq Requests /\ stopped \in BOOLEAN /\ down \in 0 .. 4
  BY DEF Kept
<1>3. PICK W, D : W = Named(queue) /\ D = Elements(deferred)
  OBVIOUS
<1>4. lane' = lane /\ planKey' = planKey
  BY DEF StartLoad, RequestFinished, CancelRead, ShutDown, work
<1>5. ASSUME queue' = queue, deferred' = deferred, awaiting' = awaiting, inflight' = inflight,
             stopped' = stopped, down' \in 0 .. 4
      PROVE  Kept' /\ Shared'
  <2>1. PICK new : new = {}
    OBVIOUS
  <2>2. /\ new \in SUBSET Requests /\ awaiting' = awaiting \cup new /\ new \cap awaiting = {}
        /\ W = Named(queue') /\ D = Elements(deferred') /\ W \cap D = {}
        /\ W \cup D = Named(queue) \cup Elements(deferred) \cup new
    BY <1>1, <1>3, <1>5, <2>1
  <2>3. /\ queue' \in Seq(Items) /\ Once(queue') /\ deferred' \in Seq(Requests) /\ Distinct(deferred')
        /\ inflight' \subseteq Requests /\ stopped' \in BOOLEAN
    BY <1>1, <1>2, <1>5
  <2> QED
    BY <1>4, <1>5, <2>2, <2>3, Brought
<1>6. ASSUME NEW Q \in SUBSET Requests, StartLoad(Q)
      PROVE  Kept' /\ Shared'
  <2>1. deferred' = deferred /\ stopped' = stopped /\ down' = down
    BY <1>6 DEF StartLoad
  <2>2. CASE Stopping
    BY <1>2, <1>5, <1>6, <2>1, <2>2 DEF StartLoad
  <2>3. CASE ~ Stopping
    <3>1. /\ inflight' = inflight \cup Q /\ awaiting' = awaiting \cup Q
          /\ queue' = Append(queue, Batch(Q)) /\ Q \cap awaiting = {}
      BY <1>6, <2>3 DEF StartLoad
    <3>2. Named(queue) \cap Q = {}
      BY <1>1, <3>1
    <3>3. queue' \in Seq(Items) /\ Once(queue') /\ Named(queue') = W \cup Q
      BY <1>1, <1>3, <3>1, <3>2, BatchQueued
    <3>4. PICK M : M = Named(queue')
      OBVIOUS
    <3>5. M \cap D = {} /\ M \cup D = Named(queue) \cup Elements(deferred) \cup Q
      BY <1>1, <1>3, <3>1, <3>3, <3>4
    <3>6. deferred' \in Seq(Requests) /\ Distinct(deferred') /\ D = Elements(deferred')
      BY <1>1, <1>3, <2>1
    <3>7. inflight' \subseteq Requests /\ stopped' \in BOOLEAN /\ down' \in 0 .. 4
      BY <1>2, <2>1, <3>1
    <3>8. queue' \in Seq(Items) /\ Once(queue') /\ awaiting' = awaiting \cup Q /\ Q \cap awaiting = {}
      BY <3>1, <3>3
    <3> QED
      BY <1>4, <3>4, <3>5, <3>6, <3>7, <3>8, Brought
  <2> QED
    BY <2>2, <2>3
<1>7. ASSUME NEW q \in Requests, RequestFinished(q) \/ CancelRead(q)
      PROVE  Kept' /\ Shared'
  BY <1>2, <1>5, <1>7 DEF RequestFinished, CancelRead, work
<1>8. ASSUME ShutDown
      PROVE  Kept' /\ Shared'
  <2>1. down < 4 /\ down' = down + 1 /\ inflight' = inflight /\ awaiting' = awaiting
    BY <1>8 DEF ShutDown
  <2>2. down' \in 0 .. 4
    BY <1>2, <2>1
  <2>3. CASE UNCHANGED <<queue, deferred, stopped>>
    BY <1>5, <2>1, <2>2, <2>3
  <2>4. ASSUME deferred' = <<>>, queue' = queue \o Loads(deferred, FALSE), stopped' = stopped
        PROVE  Kept' /\ Shared'
    <3>1. queue' \in Seq(Items) /\ Once(queue') /\ Named(queue') = W \cup D
      <4>1. Named(queue \o Loads(deferred, FALSE)) = W \cup D
        BY <1>1, <1>3, LoadsQueued
      <4>2. queue \o Loads(deferred, FALSE) \in Seq(Items) /\ Once(queue \o Loads(deferred, FALSE))
        BY <1>1, LoadsQueued
      <4> QED
        BY <2>4, <4>1, <4>2
    <3>2. deferred' \in Seq(Requests) /\ Distinct(deferred') /\ Elements(deferred') = {}
      BY <2>4 DEF Distinct, Elements
    <3>3. PICK M, C, new : M = Named(queue') /\ C = Elements(deferred') /\ new = {}
      OBVIOUS
    <3>4. /\ new \in SUBSET Requests /\ awaiting' = awaiting \cup new /\ new \cap awaiting = {}
          /\ M \cap C = {} /\ M \cup C = Named(queue) \cup Elements(deferred) \cup new
      BY <1>3, <2>1, <3>1, <3>2, <3>3
    <3>5. M = Named(queue') /\ C = Elements(deferred') /\ inflight' \subseteq Requests /\ stopped' \in BOOLEAN
      BY <1>2, <2>1, <2>4, <3>3
    <3>6. queue' \in Seq(Items) /\ Once(queue') /\ deferred' \in Seq(Requests) /\ Distinct(deferred')
      BY <3>1, <3>2
    <3> QED
      BY <1>4, <2>2, <3>4, <3>5, <3>6, Brought
  <2>5. ASSUME StopIdle(inflight), deferred' = deferred
        PROVE  Kept' /\ Shared'
    <3>1. queue' \in Seq(Items) /\ Once(queue') /\ Named(queue') = W /\ stopped' \in BOOLEAN
      BY <1>3, <2>5, StopIdleOK
    <3>2. deferred' \in Seq(Requests) /\ Distinct(deferred') /\ D = Elements(deferred')
      BY <1>1, <1>3, <2>5
    <3>3. PICK M, new : M = Named(queue') /\ new = {}
      OBVIOUS
    <3>4. /\ new \in SUBSET Requests /\ awaiting' = awaiting \cup new /\ new \cap awaiting = {}
          /\ M \cap D = {} /\ M \cup D = Named(queue) \cup Elements(deferred) \cup new
      BY <1>1, <1>3, <2>1, <3>1, <3>3
    <3>5. /\ M = Named(queue') /\ inflight' \subseteq Requests /\ stopped' \in BOOLEAN
          /\ queue' \in Seq(Items) /\ Once(queue')
      BY <1>2, <2>1, <3>1, <3>3
    <3> QED
      BY <1>4, <2>2, <3>2, <3>4, <3>5, Brought
  <2> QED
    BY <1>8, <2>3, <2>4, <2>5 DEF ShutDown
<1> QED
  BY <1>6, <1>7, <1>8
-----------------------------------------------------------------------------
LEMMA OwnersInitial ==
    ASSUME Init
    PROVE  OInv
<1>1. queue = <<>> /\ deferred = <<>> /\ flight = <<>> /\ \A l \in Lanes : lane[l] = Idle
  BY DEF Init
<1>2. Named(queue) = {} /\ Elements(deferred) = {} /\ Once(queue) /\ Distinct(deferred)
  BY <1>1 DEF Named, Elements, Once, Distinct
<1>3. \A l \in Lanes : Formed(lane[l]) /\ Holds(lane[l]) = {}
  BY <1>1, FreshFormed
<1>4. Kept /\ Room
  <2>1. queue \in Seq(Items) /\ deferred \in Seq(Requests) /\ DOMAIN flight = {}
    BY <1>1
  <2>2. /\ inflight = {} /\ awaiting = {} /\ stopped = FALSE /\ down = 0
        /\ planKey = [q \in Requests |-> None]
    BY DEF Init
  <2>8. inflight \subseteq Requests /\ awaiting \subseteq Requests
    BY <2>2
  <2>9. stopped \in BOOLEAN
    BY <2>2
  <2>10. down \in 0 .. 4
    BY <2>2
  <2>3. inflight \subseteq Requests /\ awaiting \subseteq Requests /\ stopped \in BOOLEAN /\ down \in 0 .. 4
    BY <2>8, <2>9, <2>10
  <2>4. None \in Optional(Keys)
    BY DEF Optional
  <2>5. planKey \in [Requests -> Optional(Keys)]
    BY <2>2, <2>4
  <2>6. \A l \in Lanes : Formed(lane[l])
    BY <1>3
  <2>7. Kept
    BY <2>1, <2>3, <2>5, <2>6 DEF Kept
  <2> QED
    BY <2>1, <2>7 DEF Room
<1>5. Shared
  BY <1>2, <1>3 DEF Init, Shared
<1> QED
  BY <1>4, <1>5 DEF OInv

LEMMA OwnersInductive == IInv /\ OInv /\ [Next]_vars => OInv'
<1> SUFFICES ASSUME IInv, OInv, [Next]_vars
             PROVE  OInv'
  OBVIOUS
<1>1. DOMAIN flight \subseteq DOMAIN flight' /\ Room'
  BY FlightsStay DEF OInv
<1>2. Kept /\ Shared
  BY DEF OInv
<1>3. ASSUME NEW l \in Lanes, Step(l)
      PROVE  Kept' /\ Shared'
  BY <1>1, <1>2, <1>3, TakeStep, PrepareStep, RegisterMoves, DeferStep, HandMoves, SelectStep,
     PublishStep, CleanupStep, QuietStep DEF Step
<1>4. ASSUME UNCHANGED vars
      PROVE  Kept' /\ Shared'
  <2>1. /\ lane' = lane /\ queue' = queue /\ deferred' = deferred /\ awaiting' = awaiting
        /\ planKey' = planKey /\ inflight' = inflight /\ stopped' = stopped /\ down' = down
    BY <1>4 DEF vars, work, outside
  <2>2. PICK M, C, new : M = Named(queue') /\ C = Elements(deferred') /\ new = {}
    OBVIOUS
  <2>3. /\ new \in SUBSET Requests /\ awaiting' = awaiting \cup new /\ new \cap awaiting = {}
        /\ M \cap C = {} /\ M \cup C = Named(queue) \cup Elements(deferred) \cup new
    BY <1>2, <2>1, <2>2 DEF Shared
  <2>4. /\ queue' \in Seq(Items) /\ Once(queue') /\ deferred' \in Seq(Requests) /\ Distinct(deferred')
        /\ inflight' \subseteq Requests /\ stopped' \in BOOLEAN /\ down' \in 0 .. 4
    BY <1>2, <2>1 DEF Kept, Shared
  <2>5. M = Named(queue') /\ C = Elements(deferred') /\ lane' = lane /\ planKey' = planKey
    BY <2>1, <2>2
  <2> QED
    BY <1>1, <1>2, <2>3, <2>4, <2>5, Brought
<1>5. Kept' /\ Shared'
  <2>1. ASSUME Next
        PROVE  Kept' /\ Shared'
    <3>1. CASE \E l \in Lanes : Step(l)
      BY <1>3, <3>1
    <3>2. CASE \/ \E Q \in SUBSET Requests : StartLoad(Q)
               \/ \E q \in Requests : RequestFinished(q) \/ CancelRead(q)
               \/ ShutDown
      BY <1>1, <1>2, <3>2, OutsideMoves
    <3> QED
      BY <2>1, <3>1, <3>2 DEF Next
  <2> QED
    BY <1>4, <2>1
<1> QED
  BY <1>1, <1>5 DEF OInv

\* A set with no two elements.
LEMMA Single ==
    ASSUME NEW S, \A x, y \in S : x = y
    PROVE  Cardinality(S) = IF S = {} THEN 0 ELSE 1
<1>1. CASE S = {}
  BY <1>1, FS_EmptySet
<1>2. CASE S # {}
  <2>1. PICK x \in S : TRUE
    BY <1>2
  <2>2. S = {x}
    BY <2>1
  <2> QED
    BY <1>2, <2>2, FS_Singleton
<1> QED
  BY <1>1, <1>2

LEMMA Counted == IInv /\ OInv => OneOwner
<1> SUFFICES ASSUME IInv, OInv
             PROVE  OneOwner
  OBVIOUS
<1>1. TypeOK
  <2>1. \A i \in DOMAIN flight :
          flight[i] \in [key : Keys, state : {"registered", "reading", "ready", "error", "closed"},
                         members : SUBSET Requests, cancelled : SUBSET Requests,
                         leader : Requests, joined : 0 .. MaxMembers, result : Optional(Keys)]
    <3> SUFFICES ASSUME NEW i \in DOMAIN flight
                 PROVE  flight[i] \in [key : Keys, state : {"registered", "reading", "ready", "error", "closed"},
                                       members : SUBSET Requests, cancelled : SUBSET Requests,
                                       leader : Requests, joined : 0 .. MaxMembers, result : Optional(Keys)]
      OBVIOUS
    <3>1. flight[i] \in FlightRecord /\ flight[i].joined <= MaxMembers
      BY DEF IInv, ReadsTyped, OInv, Room
    <3>2. flight[i].joined \in 0 .. MaxMembers
      BY <3>1, BaseReadConstants DEF FlightRecord
    <3> QED
      BY <3>1, <3>2 DEF FlightRecord
  <2>2. /\ current \in [Keys -> Optional(DOMAIN flight)] /\ member \in [Requests -> Optional(Keys)]
        /\ closed \in BOOLEAN /\ cancelled \subseteq Requests
    BY DEF IInv, ReadsTyped, LanesOK
  <2>3. /\ planKey \in [Requests -> Optional(Keys)] /\ Elements(deferred) \subseteq Requests
        /\ inflight \subseteq Requests /\ stopped \in BOOLEAN /\ down \in 0 .. 4
    BY DEF OInv, Kept, Elements
  <2>4. ASSUME NEW l \in Lanes
        PROVE  /\ lane[l].q \in Optional(Requests) /\ lane[l].ref \in Optional(DOMAIN flight)
               /\ lane[l].key \in Optional(Keys)
    <3>1. Formed(lane[l])
      BY DEF OInv, Kept
    <3> QED
      BY <3>1 DEF Formed, Optional
  <2> QED
    BY <2>1, <2>2, <2>3, <2>4 DEF TypeOK
<1>2. OnlyAuthenticBase
  BY DEF IInv, LanesOK, Carried, OnlyAuthenticBase
<1>3. ASSUME NEW q \in Requests
      PROVE  Queued(q) + SetAside(q) + Cardinality({l \in Lanes : q \in Holding(l)})
                = IF q \in awaiting THEN 1 ELSE 0
  <2>1. PICK S, T, U : /\ S = {i \in DOMAIN queue : queue[i].q = q \/ q \in queue[i].batch}
                       /\ T = {i \in DOMAIN deferred : deferred[i] = q}
                       /\ U = {l \in Lanes : q \in Holding(l)}
    OBVIOUS
  <2>2. (S # {} <=> q \in Named(queue)) /\ \A i, j \in S : i = j
    <3>1. \A i \in S : i \in DOMAIN queue /\ q \in Calls(queue[i])
      BY <2>1 DEF Calls
    <3>2. Once(queue)
      BY DEF OInv, Shared
    <3>3. \A i, j \in S : i = j
      BY <3>1, <3>2 DEF Once
    <3>4. S # {} <=> q \in Named(queue)
      BY <2>1 DEF Named, Calls
    <3> QED
      BY <3>3, <3>4
  <2>3. (T # {} <=> q \in Elements(deferred)) /\ \A i, j \in T : i = j
    BY <2>1 DEF OInv, Shared, Distinct, Elements
  <2>4. (U # {} <=> \E l \in Lanes : q \in Holds(lane[l])) /\ \A l, m \in U : l = m
    BY <2>1, HoldingIs DEF OInv, Shared
  <2>5. /\ Cardinality(S) = IF S = {} THEN 0 ELSE 1
        /\ Cardinality(T) = IF T = {} THEN 0 ELSE 1
        /\ Cardinality(U) = IF U = {} THEN 0 ELSE 1
    BY <2>2, <2>3, <2>4, Single
  <2>6. /\ ~ (S # {} /\ T # {}) /\ ~ (U # {} /\ S # {}) /\ ~ (U # {} /\ T # {})
        /\ q \in awaiting <=> S # {} \/ T # {} \/ U # {}
    BY <2>2, <2>3, <2>4 DEF OInv, Shared
  <2>7. Cardinality(S) + Cardinality(T) + Cardinality(U) = IF q \in awaiting THEN 1 ELSE 0
    BY <2>5, <2>6
  <2> QED
    BY <2>1, <2>7 DEF Queued, SetAside
<1> QED
  BY <1>1, <1>2, <1>3 DEF OneOwner

\* Every unfinished load is in exactly one place, the queue, the deferred table or the
\* hands of one loader thread: none is lost and none is run twice, however the batches
\* are split into flights, whoever is set aside, released, promoted or cancelled, and
\* whenever shutdown empties the deferred table.
THEOREM EveryLoadHasOneOwner == Spec => []OneOwner
<1>1. IInv /\ OInv /\ [Next]_vars => IInv' /\ OInv'
  BY Inductive, OwnersInductive
<1>2. Init => IInv /\ OInv
  BY Initial, OwnersInitial
<1> QED
  BY <1>1, <1>2, Counted, PTL DEF Spec
-----------------------------------------------------------------------------
(***************************************************************************)
(* The loader threads stop: what is kept true from the first step of       *)
(* shutdown() until the last thread has taken its sentinel.                *)
(***************************************************************************)

\* Some thread is about to release the followers set aside for k, or about to
\* clean up after its load.
Leaving(L) == L.pc \in {"leave", "cleanup"} \/ L.then = "cleanup"
Releases(L, k) ==
    \/ L.pc = "hand" /\ \E q \in Requests : L.keys[q] = k
    \/ L.pc = "release" /\ k \in L.todo
    \/ L.pc = "select" /\ (k \in L.todo \/ (L.key = k /\ L.seen = None))

Running == {l \in Lanes : lane[l].pc # "exited"}

\* Once closed, nobody shares a base read.
Sealed == (closed => Active = {}) /\ (down > 1 => closed)

\* There is one sentinel for each thread that runs, or none at all yet.
Sentried ==
    /\ stopped => Cardinality(Stops(queue)) = Cardinality(Running)
    /\ ~ stopped => Stops(queue) = {} /\ Running = Lanes

\* A load in flight is unfinished, or a thread is cleaning up after it: the last one
\* that does queues the sentinels.
Pending ==
    /\ down = 4 => stopped \/ inflight # {}
    /\ \A q \in inflight : q \in awaiting \/ \E l \in Lanes : Leaving(lane[l]) /\ lane[l].q = q

\* After shutdown() has emptied the deferred table, whoever is still set aside will
\* be released by a thread that runs.
Freed ==
    down > 2 => \A q \in inflight \cap Elements(deferred) :
                    planKey[q] # None /\ \E l \in Lanes : Releases(lane[l], planKey[q])

Ending == Sealed /\ Sentried /\ Pending /\ Freed
-----------------------------------------------------------------------------
\* A request that leaves its flight opens no flight.
LEMMA FewerActive ==
    ASSUME NEW f, NEW Q, Finish(f, Q)
    PROVE  Active' \subseteq Active
<1>1. \A k \in Keys : current'[k] # None => current[k] # None
  BY DEF Finish, Finished
<1> QED
  BY <1>1 DEF Active

\* A closed coordinator accepts nobody.
LEMMA NoneAccepted ==
    ASSUME closed, NEW k, NEW Q, RegisterCohort(k, Accepted(k, Q))
    PROVE  current' = current
<1>1. Refused(k)
  BY DEF Refused
<1>2. Accepted(k, Q) = {}
  BY <1>1 DEF Accepted
<1> QED
  BY <1>2 DEF RegisterCohort, reads

LEMMA SealedKept == IInv /\ IInv' /\ Kept /\ Sealed /\ [Next]_vars => Sealed'
<1> SUFFICES ASSUME IInv, IInv', Kept, Sealed, [Next]_vars
             PROVE  Sealed'
  OBVIOUS
<1>1. ASSUME closed' = closed, down' = down, closed => Active' \subseteq Active
      PROVE  Sealed'
  BY <1>1 DEF Sealed
<1>2. ASSUME current' = current
      PROVE  Active' \subseteq Active
  BY <1>2 DEF Active
<1>3. ASSUME NEW l \in Lanes, Step(l)
      PROVE  Sealed'
  <2>1. ASSUME \/ Take(l) \/ Defer(l) \/ Hand(l) \/ Select(l) \/ Released(l) \/ Cleanup(l)
               \/ \E E \in SUBSET Requests, raises \in BOOLEAN : Prepare(l, E, raises)
               \/ \E k \in Keys : ReadState(l, k)
               \/ \E key \in Keys \cup {None}, fails \in BOOLEAN : LoadOne(l, key, fails)
               \/ \E good \in BOOLEAN : Publish(l, good)
        PROVE  current' = current /\ closed' = closed /\ down' = down
    BY <2>1 DEF Take, Defer, Hand, Select, Released, Cleanup, Prepare, ReadState, LoadOne, Publish,
                reads, outside
  <2>2. ASSUME NEW k \in Keys, Register(l, k)
        PROVE  closed' = closed /\ down' = down /\ (closed => current' = current)
    <3>1. PICK Q : RegisterCohort(k, Accepted(k, Q))
      BY <2>2, Zenon DEF Register
    <3>2. closed => current' = current
      BY <3>1, NoneAccepted
    <3>3. closed' = closed
      BY <3>1 DEF RegisterCohort, reads
    <3>4. down' = down
      BY <2>2, Zenon DEF Register, outside
    <3> QED
      BY <3>2, <3>3, <3>4
  <2>3. ASSUME Resolve(l) \/ Wake(l) \/ Leave(l) \/ \E good \in BOOLEAN : Read(l, good)
        PROVE  closed' = closed /\ down' = down
    BY <2>3 DEF Resolve, Wake, Leave, Read, outside
  <2>4. ASSUME Wake(l) \/ Leave(l) \/ \E good \in BOOLEAN : Read(l, good)
        PROVE  Active' \subseteq Active
    <3>1. \E f, Q : Finish(f, Q)
      BY <2>4, Zenon DEF Wake, Leave, Read
    <3> QED
      BY <3>1, FewerActive
  <2>5. ASSUME Resolve(l)
        PROVE  Active' \subseteq Active
    <3>1. current' = current \/ \E Q : Finish(flight, Q)
      BY <2>5 DEF Resolve
    <3> QED
      BY <1>2, <3>1, FewerActive
  <2> QED
    BY <1>1, <1>2, <1>3, <2>1, <2>2, <2>3, <2>4, <2>5 DEF Step
<1>4. ASSUME \/ UNCHANGED vars
             \/ \E Q \in SUBSET Requests : StartLoad(Q)
             \/ \E q \in Requests : RequestFinished(q) \/ CancelRead(q)
      PROVE  Sealed'
  <2>1. current' = current /\ closed' = closed /\ down' = down
    BY <1>4 DEF vars, StartLoad, RequestFinished, CancelRead, reads, outside
  <2> QED
    BY <1>1, <1>2, <2>1
<1>5. ASSUME ShutDown
      PROVE  Sealed'
  <2>1. down \in 0 .. 4 /\ down' = down + 1
    BY <1>5 DEF ShutDown, Kept
  <2>2. CASE down # 1
    <3>1. closed' = closed /\ current' = current
      BY <1>5, <2>1, <2>2 DEF ShutDown, reads
    <3> QED
      BY <1>2, <2>1, <2>2, <3>1 DEF Sealed
  <2>3. CASE Close
    <3>1. closed' = TRUE /\ \A q \in Requests : member'[q] = None
      BY <2>3 DEF Close, Finish, Finished
    <3>2. ASSUME NEW k \in Keys, current'[k] # None
          PROVE  FALSE
      <4>1. PICK i : i = current'[k]
        OBVIOUS
      <4>2. flight' \in Seq(FlightRecord) /\ i \in DOMAIN flight'
        BY <3>2, <4>1 DEF IInv, ReadsTyped, Optional
      <4>3. flight'[i] \in FlightRecord
        BY <4>2
      <4>4. flight'[i].members \subseteq Requests
        BY <4>3 DEF FlightRecord
      <4>5. flight'[i].members # {}
        BY <3>2, <4>1 DEF IInv, NothingRetained, Active
      <4>6. PICK q \in Requests : q \in flight'[i].members
        BY <4>4, <4>5
      <4>7. member'[q] = k
        BY <3>2, <4>1, <4>6 DEF IInv, NothingRetained
      <4> QED
        BY <3>1, <4>7, BaseReadConstants
    <3>5. Active' = {}
      BY <3>2 DEF Active
    <3> QED
      BY <3>1, <3>5 DEF Sealed
  <2>4. down = 0 \/ Close \/ down = 2 \/ down = 3
    BY <1>5, Zenon DEF ShutDown
  <2> QED
    BY <2>2, <2>3, <2>4
<1> QED
  BY <1>3, <1>4, <1>5 DEF Next
-----------------------------------------------------------------------------
\* A loader thread changes its own state only.
LEMMA OthersStay ==
    ASSUME LanesOK, NEW l \in Lanes, Step(l)
    PROVE  \A m \in Lanes : m # l => lane'[m] = lane[m]
<1>1. \E r : lane' = [lane EXCEPT ![l] = r]
  BY Zenon DEF Step, Take, Defer, Hand, Select, Released, Cleanup, Prepare, ReadState, LoadOne, Publish,
     Register, Resolve, Wake, Leave, Read
<1> QED
  BY <1>1 DEF LanesOK

\* What a step other than taking an item and cleaning up leaves of a thread: it
\* runs, and it does not forget the load it cleans up after.
Steady(L, r) ==
    /\ L.pc # "exited" /\ r.pc # "exited"
    /\ Leaving(L) => Leaving(r) /\ r.q = L.q

LEMMA Steadily ==
    ASSUME LanesOK, Kept, NEW l \in Lanes, Step(l), ~ Take(l), ~ Cleanup(l)
    PROVE  Steady(lane[l], lane'[l])
<1>1. PICK L, r : L = lane[l] /\ r = lane'[l]
  OBVIOUS
<1>2. Typed(L) /\ Formed(L) /\ lane = [m \in Lanes |-> lane[m]]
  BY <1>1 DEF LanesOK, Kept
<1>3. /\ DOMAIN L = DOMAIN Idle /\ L.then \in {"idle", "publish", "cleanup"}
      /\ L.then # "idle" => L.pc \in {"release", "select"}
  BY <1>2 DEF Typed, Formed
<1>4. \A x : lane' = [lane EXCEPT ![l] = x] => r = x
  BY <1>1, <1>2
<1>5. CASE Defer(l)
  <2>1. L.pc = "register"
    BY <1>1, <1>5 DEF Defer
  <2>2. PICK T : lane' = [lane EXCEPT ![l] = [L EXCEPT !.pc = "hand", !.todo = T]]
    BY <1>1, <1>5, Zenon DEF Defer
  <2>3. r = [L EXCEPT !.pc = "hand", !.todo = T]
    BY <1>4, <2>2
  <2>4. r.pc = "hand"
    BY <1>3, <2>1, <2>3 DEF Idle, Sought
  <2> QED
    BY <1>1, <1>3, <2>1, <2>4 DEF Steady, Leaving
<1>6. CASE \E k \in Keys : Register(l, k)
  <2>1. L.pc = "register"
    BY <1>1, <1>6 DEF Register
  <2>5. PICK k \in Keys : Register(l, k)
    BY <1>6
  <2>6. PICK Q, A : Q = {q \in Requests : L.keys[q] = k} /\ A = Accepted(k, Q)
    OBVIOUS
  <2>2. PICK T, e, a, b : lane' = [lane EXCEPT ![l] = [L EXCEPT !.todo = T, !.run = a, !.late = b, !.keys = e]]
    <3> DEFINE f == Joined(k, A)
               g == IF A = {} THEN {} ELSE IF f.state \in {"ready", "error"} THEN A
                    ELSE IF f.state = "registered" THEN A \cap {f.leader} ELSE {}
    <3>1. lane' = [lane EXCEPT ![l] = [L EXCEPT
              !.todo = L.todo \ {k}, !.run = L.run \cup g, !.late = L.late \cup (A \ g),
              !.keys = [q \in Requests |-> IF q \in Q \ A THEN None ELSE L.keys[q]]]]
      BY <1>1, <2>5, <2>6 DEF Register
    <3> HIDE DEF g
    <3> QED
      BY <3>1, Zenon
  <2>3. r = [L EXCEPT !.todo = T, !.run = a, !.late = b, !.keys = e]
    BY <1>4, <2>2
  <2>4. r.pc = "register"
    BY <1>3, <2>1, <2>3 DEF Idle, Sought
  <2> QED
    BY <1>1, <1>3, <2>1, <2>4 DEF Steady, Leaving
<1>7. CASE \E k \in Keys : ReadState(l, k)
  <2>1. L.pc = "release"
    BY <1>1, <1>7 DEF ReadState
  <2>5. PICK k \in Keys : ReadState(l, k)
    BY <1>7
  <2>6. PICK T, e : T = L.todo \ {k} /\ e = StateOf(k)
    OBVIOUS
  <2>2. lane' = [lane EXCEPT ![l] = [L EXCEPT !.pc = "select", !.todo = T, !.key = k, !.seen = e]]
    BY <1>1, <2>5, <2>6 DEF ReadState
  <2>3. r = [L EXCEPT !.pc = "select", !.todo = T, !.key = k, !.seen = e]
    BY <1>4, <2>2
  <2>4. r.pc = "select" /\ r.then = L.then /\ r.q = L.q
    BY <1>3, <2>1, <2>3 DEF Idle, Sought
  <2> QED
    BY <1>1, <1>3, <2>1, <2>4 DEF Steady, Leaving
<1>8. CASE Hand(l)
  <2>1. L.pc = "hand"
    BY <1>1, <1>8 DEF Hand
  <2>2. PICK p, T : lane' = [lane EXCEPT ![l] = [Idle EXCEPT !.pc = "release", !.promote = p, !.todo = T]]
    BY <1>1, <1>8, Zenon DEF Hand
  <2>3. r = [Idle EXCEPT !.pc = "release", !.promote = p, !.todo = T]
    BY <1>4, <2>2
  <2>4. r.pc = "release"
    BY <1>3, <2>1, <2>3 DEF Idle, Sought
  <2> QED
    BY <1>1, <1>3, <2>1, <2>4 DEF Steady, Leaving
<1>9. CASE Select(l)
  <2>1. L.pc = "select"
    BY <1>1, <1>9 DEF Select
  <2>2. lane' = [lane EXCEPT ![l] = [L EXCEPT !.pc = "release", !.key = None, !.seen = None]]
    BY <1>1, <1>9, Zenon DEF Select
  <2>3. r = [L EXCEPT !.pc = "release", !.key = None, !.seen = None]
    BY <1>4, <2>2
  <2>4. r.pc = "release" /\ r.then = L.then /\ r.q = L.q
    BY <1>3, <2>1, <2>3 DEF Idle, Sought
  <2> QED
    BY <1>1, <1>3, <2>1, <2>4 DEF Steady, Leaving
<1>10. CASE Released(l)
  <2>1. L.pc = "release"
    BY <1>1, <1>10 DEF Released
  <2>2. lane' = [lane EXCEPT ![l] = IF L.then = "idle" THEN Idle ELSE [L EXCEPT !.pc = L.then, !.promote = FALSE, !.then = "idle"]]
    BY <1>1, <1>10, Zenon DEF Released
  <2>3. r = IF L.then = "idle" THEN Idle ELSE [L EXCEPT !.pc = L.then, !.promote = FALSE, !.then = "idle"]
    BY <1>4, <2>2
  <2>4. IF L.then = "idle" THEN r.pc = "idle" ELSE r.pc = L.then /\ r.q = L.q
    BY <1>3, <2>1, <2>3 DEF Idle, Sought
  <2> QED
    BY <1>1, <1>3, <2>1, <2>4 DEF Steady, Leaving
<1>11. CASE \E E \in SUBSET Requests, raises \in BOOLEAN : Prepare(l, E, raises)
  <2>1. L.pc = "prepare"
    BY <1>1, <1>11 DEF Prepare
  <2>2. PICK T, e, b : 
          \/ lane' = [lane EXCEPT ![l] = Idle]
          \/ lane' = [lane EXCEPT ![l] = [L EXCEPT !.pc = "register", !.batch = b, !.todo = T, !.keys = e]]
    BY <1>1, <1>11, Zenon DEF Prepare
  <2>3. r = Idle \/ r = [L EXCEPT !.pc = "register", !.batch = b, !.todo = T, !.keys = e]
    BY <1>4, <2>2
  <2>4. r.pc \in {"idle", "register"}
    <3>1. Idle.pc = "idle"
      BY DEF Idle
    <3>2. CASE r = Idle
      BY <3>1, <3>2
    <3>3. CASE r = [L EXCEPT !.pc = "register", !.batch = b, !.todo = T, !.keys = e]
      <4>1. "pc" \in DOMAIN L
        BY <1>3 DEF Idle
      <4> QED
        BY <3>3, <4>1
    <3> QED
      BY <2>3, <3>2, <3>3
  <2> QED
    BY <1>1, <1>3, <2>1, <2>4 DEF Steady, Leaving
<1>12. CASE \E key \in Keys \cup {None}, fails \in BOOLEAN : LoadOne(l, key, fails)
  <2>1. L.pc = "load"
    BY <1>1, <1>12 DEF LoadOne
  <2>2. PICK k, e : 
          \/ lane' = [lane EXCEPT ![l] = [L EXCEPT !.pc = "publish", !.ok = e]]
          \/ lane' = [lane EXCEPT ![l] = [L EXCEPT !.pc = "resolve", !.key = k]]
    BY <1>1, <1>12, Zenon DEF LoadOne
  <2>3. r = [L EXCEPT !.pc = "publish", !.ok = e] \/ r = [L EXCEPT !.pc = "resolve", !.key = k]
    BY <1>4, <2>2
  <2>4. r.pc \in {"publish", "resolve"}
    BY <1>3, <2>1, <2>3 DEF Idle, Sought
  <2> QED
    BY <1>1, <1>3, <2>1, <2>4 DEF Steady, Leaving
<1>13. CASE Resolve(l)
  <2>1. L.pc = "resolve"
    BY <1>1, <1>13 DEF Resolve
  <2>2. PICK i, k, e : 
          \/ lane' = [lane EXCEPT ![l] = [L EXCEPT !.pc = "reading", !.ref = i]]
          \/ lane' = [lane EXCEPT ![l] = [L EXCEPT !.pc = "waiting", !.ref = i]]
          \/ lane' = [lane EXCEPT ![l] = Sought(L, k, e)]
    BY <1>1, <1>13, Zenon DEF Resolve
  <2>3. r = [L EXCEPT !.pc = "reading", !.ref = i] \/ r = [L EXCEPT !.pc = "waiting", !.ref = i] \/ r = Sought(L, k, e)
    BY <1>4, <2>2
  <2>4. r.pc \in {"reading", "waiting", "release"}
    BY <1>3, <2>1, <2>3 DEF Idle, Sought
  <2> QED
    BY <1>1, <1>3, <2>1, <2>4 DEF Steady, Leaving
<1>14. CASE Wake(l)
  <2>1. L.pc = "waiting"
    BY <1>1, <1>14 DEF Wake
  <2>2. PICK k, e : lane' = [lane EXCEPT ![l] = Sought(L, k, e)]
    BY <1>1, <1>14, Zenon DEF Wake
  <2>3. r = Sought(L, k, e)
    BY <1>4, <2>2
  <2>4. r.pc = "release"
    BY <1>3, <2>1, <2>3 DEF Idle, Sought
  <2> QED
    BY <1>1, <1>3, <2>1, <2>4 DEF Steady, Leaving
<1>15. CASE \E good \in BOOLEAN : Read(l, good)
  <2>1. L.pc = "reading"
    BY <1>1, <1>15 DEF Read
  <2>2. PICK k, e : lane' = [lane EXCEPT ![l] = Sought(L, k, e)]
    BY <1>1, <1>15, Zenon DEF Read
  <2>3. r = Sought(L, k, e)
    BY <1>4, <2>2
  <2>4. r.pc = "release"
    BY <1>3, <2>1, <2>3 DEF Idle, Sought
  <2> QED
    BY <1>1, <1>3, <2>1, <2>4 DEF Steady, Leaving
<1>16. CASE \E good \in BOOLEAN : Publish(l, good)
  <2>1. L.pc = "publish"
    BY <1>1, <1>16 DEF Publish
  <2>2. lane' = [lane EXCEPT ![l] = [Idle EXCEPT !.pc = "leave", !.q = L.q]]
    BY <1>1, <1>16, Zenon DEF Publish
  <2>3. r = [Idle EXCEPT !.pc = "leave", !.q = L.q]
    BY <1>4, <2>2
  <2>4. r.pc = "leave"
    BY <1>3, <2>1, <2>3 DEF Idle, Sought
  <2> QED
    BY <1>1, <1>3, <2>1, <2>4 DEF Steady, Leaving
<1>17. CASE Leave(l)
  <2>1. L.pc = "leave"
    BY <1>1, <1>17 DEF Leave
  <2>2. PICK T : lane' = [lane EXCEPT ![l] = [Idle EXCEPT !.pc = "release", !.q = L.q, !.promote = TRUE, !.todo = T, !.then = "cleanup"]]
    BY <1>1, <1>17, Zenon DEF Leave
  <2>3. r = [Idle EXCEPT !.pc = "release", !.q = L.q, !.promote = TRUE, !.todo = T, !.then = "cleanup"]
    BY <1>4, <2>2
  <2>4. r.pc = "release" /\ r.then = "cleanup" /\ r.q = L.q
    BY <1>3, <2>1, <2>3 DEF Idle, Sought
  <2> QED
    BY <1>1, <1>3, <2>1, <2>4 DEF Steady, Leaving
<1> QED
  BY <1>5, <1>6, <1>7, <1>8, <1>9, <1>10, <1>11, <1>12, <1>13, <1>14, <1>15, <1>16, <1>17 DEF Step
-----------------------------------------------------------------------------
\* What is queued behind is no sentinel.
LEMMA StopsBehind ==
    ASSUME NEW s \in Seq(Items), NEW u \in Seq(Items), Stops(u) = {}
    PROVE  s \o u \in Seq(Items) /\ Stops(s \o u) = Stops(s)
<1>1. PICK m, n, t : m = Len(s) /\ n = Len(u) /\ t = s \o u
  OBVIOUS
<1>2. m \in Nat /\ n \in Nat /\ DOMAIN s = 1 .. m /\ DOMAIN u = 1 .. n
  BY <1>1
<1>3. t \in Seq(Items) /\ Len(t) = m + n
  BY <1>1
<1>4. DOMAIN t = 1 .. m + n
  BY <1>2, <1>3
<1>5. \A i \in 1 .. m : t[i] = s[i]
  BY <1>1
<1>6. \A i \in (m + 1) .. (m + n) : i - m \in 1 .. n /\ t[i] = u[i - m]
  BY <1>1, <1>2
<1>7. \A i \in 1 .. m + n : i \in 1 .. m \/ i \in (m + 1) .. (m + n)
  BY <1>2
<1>8. \A i \in 1 .. m : i \in 1 .. m + n
  BY <1>2
<1>9. \A i \in 1 .. n : u[i] # Sentinel
  BY <1>2 DEF Stops
<1>10. Stops(t) = Stops(s)
  BY <1>2, <1>4, <1>5, <1>6, <1>7, <1>8, <1>9 DEF Stops
<1> QED
  BY <1>1, <1>3, <1>10

\* Queued loads are no sentinels.
LEMMA NoStops ==
    ASSUME NEW s \in Seq(Items), NEW d \in Seq(Requests), NEW p \in BOOLEAN
    PROVE  s \o Loads(d, p) \in Seq(Items) /\ Stops(s \o Loads(d, p)) = Stops(s)
<1>1. PICK u, n : u = Loads(d, p) /\ n = Len(d)
  OBVIOUS
<1>2. n \in Nat /\ DOMAIN d = 1 .. n /\ u = [i \in 1 .. n |-> Load(d[i], p)]
  BY <1>1 DEF Loads
<1>3. \A i \in 1 .. n : d[i] \in Requests /\ u[i] = Load(d[i], p)
  BY <1>2
<1>4. \A i \in 1 .. n : u[i] \in Items /\ u[i] # Sentinel
  BY <1>3, ItemKinds
<1>5. u \in Seq(Items) /\ DOMAIN u = 1 .. n
  <2>1. u \in [1 .. n -> Items]
    BY <1>2, <1>4
  <2> QED
    BY <1>2, <2>1
<1>6. Stops(u) = {}
  BY <1>4, <1>5 DEF Stops
<1> QED
  BY <1>1, <1>5, <1>6, StopsBehind

LEMMA StopsStay ==
    ASSUME LanesOK, Kept, Shared, NEW l \in Lanes, Step(l), ~ Take(l), ~ Cleanup(l)
    PROVE  stopped' = stopped /\ Stops(queue') = Stops(queue)
<1>1. PICK L : L = lane[l]
  OBVIOUS
<1>2. /\ queue \in Seq(Items) /\ deferred \in Seq(Requests) /\ Distinct(deferred) /\ Formed(L)
      /\ FALSE \in BOOLEAN /\ TRUE \in BOOLEAN /\ cancelled \subseteq Requests
  BY <1>1 DEF Kept, Shared, LanesOK
<1>3. CASE Hand(l)
  <2>1. PICK R, A : R = L.run /\ A = {q \in L.batch : L.keys[q] = None}
    OBVIOUS
  <2>2. R \in SUBSET Requests /\ A \in SUBSET Requests
    BY <1>2, <2>1 DEF Formed
  <2>3. Sorted(R) \in Seq(Requests) /\ Sorted(A) \in Seq(Requests)
    BY <2>2, InOrder
  <2>4. queue' = queue \o Loads(Sorted(R), FALSE) \o Loads(Sorted(A), FALSE) /\ stopped' = stopped
    BY <1>1, <1>3, <2>1 DEF Hand
  <2>5. PICK s : s = queue \o Loads(Sorted(R), FALSE)
    OBVIOUS
  <2>6. s \in Seq(Items) /\ Stops(s) = Stops(queue)
    BY <1>2, <2>3, <2>5, NoStops
  <2>7. Stops(s \o Loads(Sorted(A), FALSE)) = Stops(s)
    BY <1>2, <2>3, <2>6, NoStops
  <2> QED
    BY <2>4, <2>5, <2>6, <2>7
<1>4. CASE \E E \in SUBSET Requests, raises \in BOOLEAN : Prepare(l, E, raises)
  <2>1. PICK R, A : R = L.batch \cap cancelled /\ A = L.batch \ cancelled
    OBVIOUS
  <2>2. R \in SUBSET Requests /\ A \in SUBSET Requests
    BY <1>2, <2>1 DEF Formed
  <2>3. Sorted(R) \in Seq(Requests) /\ Sorted(A) \in Seq(Requests)
    BY <2>2, InOrder
  <2>4. PICK s : s = queue \o Loads(Sorted(R), FALSE)
    OBVIOUS
  <2>5. (queue' = s \/ queue' = s \o Loads(Sorted(A), TRUE)) /\ stopped' = stopped
    BY <1>1, <1>4, <2>1, <2>4 DEF Prepare
  <2>6. s \in Seq(Items) /\ Stops(s) = Stops(queue)
    BY <1>2, <2>3, <2>4, NoStops
  <2>7. Stops(s \o Loads(Sorted(A), TRUE)) = Stops(s)
    BY <1>2, <2>3, <2>6, NoStops
  <2> QED
    BY <2>5, <2>6, <2>7
<1>5. CASE Select(l)
  <2>1. PICK matching : matching = Keep(deferred, {q \in Requests : planKey[q] = L.key})
    OBVIOUS
  <2>2. matching \in Seq(Requests)
    BY <1>2, <2>1, KeepOK
  <2>3. PICK chosen : chosen = IF L.seen \in {None, "ready", "error"} THEN matching
                               ELSE IF L.seen = "registered" /\ L.promote /\ matching # <<>> THEN <<Head(matching)>>
                               ELSE <<>>
    OBVIOUS
  <2>4. chosen \in Seq(Requests)
    BY <2>2, <2>3
  <2>5. PICK p \in BOOLEAN : p = (L.seen = None)
    OBVIOUS
  <2>6. queue' = queue \o Loads(chosen, p) /\ stopped' = stopped
    BY <1>1, <1>5, <2>1, <2>3, <2>5, Zenon DEF Select
  <2> QED
    BY <1>2, <2>4, <2>6, NoStops
<1>6. CASE \/ Defer(l) \/ Released(l) \/ Resolve(l) \/ Wake(l) \/ Leave(l)
           \/ \E k \in Keys : Register(l, k) \/ ReadState(l, k)
           \/ \E key \in Keys \cup {None}, fails \in BOOLEAN : LoadOne(l, key, fails)
           \/ \E good \in BOOLEAN : Read(l, good) \/ Publish(l, good)
  BY <1>6, Zenon DEF Defer, Released, Resolve, Wake, Leave, Register, ReadState, LoadOne, Read, Publish, work
<1> QED
  BY <1>3, <1>4, <1>5, <1>6, Zenon DEF Step

\* The last load has left: a sentinel for each thread.
LEMMA StopsCome ==
    ASSUME Kept, Shared, Sentried, NEW still, StopIdle(still), Running' = Running
    PROVE  Sentried' /\ (Stopping /\ still = {} => stopped')
<1>1. queue \in Seq(Items) /\ Once(queue) /\ stopped \in BOOLEAN
  BY DEF Kept, Shared
<1>2. CASE Stopping /\ ~ stopped /\ still = {}
  <2>1. stopped' = TRUE /\ queue' = queue \o Sentinels
    BY <1>2 DEF StopIdle
  <2>2. Stops(queue) = {} /\ Running' = Lanes
    BY <1>2 DEF Sentried
  <2>3. Cardinality(Stops(queue \o Sentinels)) = Cardinality(Lanes)
    BY <1>1, <2>2, StopsQueued
  <2>4. Cardinality(Stops(queue')) = Cardinality(Running')
    BY <2>1, <2>2, <2>3
  <2> QED
    BY <2>1, <2>4 DEF Sentried, Stops
<1>3. CASE ~ (Stopping /\ ~ stopped /\ still = {})
  <2>1. stopped' = stopped /\ queue' = queue
    BY <1>1, <1>3 DEF StopIdle
  <2> QED
    BY <1>3, <2>1 DEF Sentried, Stops
<1> QED
  BY <1>2, <1>3
-----------------------------------------------------------------------------
\* Threads that keep their state, or change it without stopping, run on.
LEMMA RunOn ==
    ASSUME \A m \in Lanes : lane'[m].pc = "exited" <=> lane[m].pc = "exited"
    PROVE  Running' = Running
BY DEF Running

LEMMA TakenSentry ==
    ASSUME IInv, Kept, Shared, Sentried, NEW l \in Lanes, Take(l)
    PROVE  Sentried'
<1>1. PICK x, t : x = Head(queue) /\ t = Tail(queue)
  OBVIOUS
<1>2. /\ lane[l].pc = "idle" /\ queue # <<>> /\ queue' = t /\ stopped' = stopped
      /\ queue \in Seq(Items) /\ Once(queue) /\ stopped \in BOOLEAN
  BY <1>1 DEF Take, Kept, Shared
<1>3. PICK a, b : a = Cardinality(Stops(queue)) /\ b = Cardinality(Stops(t))
  OBVIOUS
<1>4. /\ a = b + IF x = Sentinel THEN 1 ELSE 0
      /\ IsFiniteSet(Stops(queue)) /\ IsFiniteSet(Stops(t))
  BY <1>1, <1>2, <1>3, ItemTaken
<1>5. a \in Nat /\ b \in Nat
  BY <1>3, <1>4, FS_CardinalityType
<1>6. \A m \in Lanes : m # l => lane'[m] = lane[m]
  BY OthersStay DEF IInv, Step
<1>7. Running \subseteq Lanes /\ l \in Running /\ IsFiniteSet(Running)
  <2>1. Running \subseteq Lanes /\ l \in Running
    BY <1>2 DEF Running
  <2> QED
    BY <2>1, FS_Subset, BaseReadConstants
<1>8. CASE x = Sentinel
  <2>1. stopped
    <3> SUFFICES ASSUME ~ stopped
                 PROVE  FALSE
      OBVIOUS
    <3>1. Stops(queue) = {}
      BY DEF Sentried
    <3>2. a = 0
      BY <1>3, <3>1, FS_EmptySet
    <3> QED
      BY <1>4, <1>5, <1>8, <3>2
  <2>2. lane'[l] = [Idle EXCEPT !.pc = "exited"]
    BY <1>1, <1>8 DEF Take, IInv, LanesOK
  <2>3. lane'[l].pc = "exited"
    BY <2>2 DEF Idle
  <2>4. Running' = Running \ {l}
    BY <1>6, <2>3 DEF Running
  <2>5. Cardinality(Running \ {l}) = Cardinality(Running) - 1
    BY <1>7, FS_RemoveElement
  <2>6. a = Cardinality(Running)
    BY <1>3, <2>1 DEF Sentried
  <2>7. b = Cardinality(Running')
    BY <1>4, <1>5, <1>8, <2>4, <2>5, <2>6
  <2>8. stopped' /\ Cardinality(Stops(queue')) = b
    BY <1>2, <1>3, <2>1
  <2> QED
    BY <2>7, <2>8 DEF Sentried, Stops
<1>9. CASE x # Sentinel
  <2>1. lane'[l].pc # "exited"
    <3>1. \/ lane'[l] = [Idle EXCEPT !.pc = "prepare", !.batch = x.batch]
          \/ lane'[l] = [Idle EXCEPT !.pc = "load", !.q = x.q, !.ok = ~ x.poisoned]
      BY <1>1, <1>9 DEF Take, IInv, LanesOK
    <3>2. /\ [Idle EXCEPT !.pc = "prepare", !.batch = x.batch].pc = "prepare"
          /\ [Idle EXCEPT !.pc = "load", !.q = x.q, !.ok = ~ x.poisoned].pc = "load"
      BY DEF Idle
    <3> QED
      BY <3>1, <3>2
  <2>2. Running' = Running
    BY <1>2, <1>6, <2>1, RunOn
  <2>3. a = b
    BY <1>4, <1>5, <1>9
  <2>4. ~ stopped => Stops(t) = {}
    <3>1. ~ stopped => b = 0
      BY <1>3, <2>3, FS_EmptySet DEF Sentried
    <3> QED
      BY <1>3, <1>4, <3>1, FS_EmptySet
  <2>5. stopped => b = Cardinality(Running')
    BY <1>3, <2>2, <2>3 DEF Sentried
  <2>6. ~ stopped => Running' = Lanes
    BY <2>2 DEF Sentried
  <2>7. Stops(queue') = Stops(t) /\ stopped' = stopped
    BY <1>2
  <2> QED
    BY <1>3, <2>4, <2>5, <2>6, <2>7 DEF Sentried, Stops
<1> QED
  BY <1>8, <1>9

LEMMA SentriedKept == IInv /\ OInv /\ Sentried /\ [Next]_vars => Sentried'
<1> SUFFICES ASSUME IInv, OInv, Sentried, [Next]_vars
             PROVE  Sentried'
  OBVIOUS
<1>1. Kept /\ Shared /\ LanesOK
  BY DEF OInv, IInv
<1>2. queue \in Seq(Items) /\ Once(queue) /\ deferred \in Seq(Requests) /\ FALSE \in BOOLEAN
  BY <1>1 DEF Kept, Shared
<1>3. ASSUME Running' = Running, stopped' = stopped, Stops(queue') = Stops(queue)
      PROVE  Sentried'
  BY <1>3 DEF Sentried, Stops
<1>4. ASSUME NEW l \in Lanes, Step(l)
      PROVE  Sentried'
  <2>1. \A m \in Lanes : m # l => lane'[m] = lane[m]
    BY <1>1, <1>4, OthersStay
  <2>2. CASE ~ Take(l) /\ ~ Cleanup(l)
    <3>1. lane[l].pc # "exited" /\ lane'[l].pc # "exited"
      BY <1>1, <1>4, <2>2, Steadily DEF Steady
    <3>2. Running' = Running
      BY <2>1, <3>1, RunOn
    <3>3. stopped' = stopped /\ Stops(queue') = Stops(queue)
      BY <1>1, <1>4, <2>2, StopsStay
    <3> QED
      BY <1>3, <3>2, <3>3
  <2>3. CASE Cleanup(l)
    <3>1. lane[l].pc = "cleanup" /\ lane'[l] = Idle /\ StopIdle(inflight')
      BY <1>1, <2>3 DEF Cleanup, LanesOK
    <3>2. lane'[l].pc = "idle"
      BY <3>1 DEF Idle
    <3>3. Running' = Running
      BY <2>1, <3>1, <3>2, RunOn
    <3> QED
      BY <1>1, <3>1, <3>3, StopsCome
  <2> QED
    BY <1>1, <2>2, <2>3, TakenSentry
<1>5. ASSUME lane' = lane
      PROVE  Running' = Running
  BY <1>5 DEF Running
<1>6. CASE UNCHANGED vars \/ \E q \in Requests : RequestFinished(q) \/ CancelRead(q)
  <2>1. lane' = lane /\ stopped' = stopped /\ queue' = queue
    BY <1>6 DEF vars, work, RequestFinished, CancelRead
  <2> QED
    BY <1>3, <1>5, <2>1
<1>7. ASSUME NEW Q \in SUBSET Requests, StartLoad(Q)
      PROVE  Sentried'
  <2>1. /\ lane' = lane /\ stopped' = stopped /\ (queue' = queue \/ queue' = Append(queue, Batch(Q)))
        /\ Q \cap awaiting = {}
    BY <1>7 DEF StartLoad
  <2>2. Named(queue) \cap Q = {}
    BY <1>1, <2>1 DEF Shared
  <2>3. Stops(Append(queue, Batch(Q))) = Stops(queue)
    BY <1>2, <2>2, BatchQueued
  <2> QED
    BY <1>3, <1>5, <2>1, <2>3
<1>8. CASE ShutDown
  <2>1. lane' = lane
    BY <1>8 DEF ShutDown
  <2>2. Stops(queue \o Loads(deferred, FALSE)) = Stops(queue)
    BY <1>2, NoStops
  <2>3. \/ stopped' = stopped /\ (queue' = queue \/ queue' = queue \o Loads(deferred, FALSE))
        \/ StopIdle(inflight)
    BY <1>8, Zenon DEF ShutDown
  <2> QED
    BY <1>1, <1>3, <1>5, <2>1, <2>2, <2>3, StopsCome
<1> QED
  BY <1>4, <1>6, <1>7, <1>8 DEF Next
-----------------------------------------------------------------------------
LEMMA PendingKept == IInv /\ OInv /\ Sentried /\ Pending /\ [Next]_vars => Pending'
<1> SUFFICES ASSUME IInv, OInv, Sentried, Pending, [Next]_vars
             PROVE  Pending'
  OBVIOUS
<1>1. Kept /\ Shared /\ LanesOK
  BY DEF OInv, IInv
<1>2. down \in 0 .. 4 /\ stopped \in BOOLEAN
  BY <1>1 DEF Kept
<1>3. ASSUME down' = 4 => stopped' \/ inflight' # {},
             \A q \in inflight' \ awaiting' :
                 \/ q \in inflight /\ q \notin awaiting
                    /\ \A l \in Lanes : Leaving(lane[l]) /\ lane[l].q = q
                                          => Leaving(lane'[l]) /\ lane'[l].q = q
                 \/ \E l \in Lanes : Leaving(lane'[l]) /\ lane'[l].q = q
      PROVE  Pending'
  <2>1. \A l \in Lanes : (Leaving(lane[l]))' <=> Leaving(lane'[l])
    BY DEF Leaving
  <2>2. \A q \in inflight' : q \in awaiting' \/ \E l \in Lanes : Leaving(lane'[l]) /\ lane'[l].q = q
    BY <1>3 DEF Pending
  <2> QED
    BY <1>3, <2>1, <2>2 DEF Pending
<1>4. ASSUME NEW l \in Lanes, Step(l)
      PROVE  Pending'
  <2>1. \A m \in Lanes : m # l => lane'[m] = lane[m]
    BY <1>1, <1>4, OthersStay
  <2>2. down' = down
    BY <1>4, Zenon DEF Step, Take, Defer, Hand, Select, Released, Cleanup, Prepare, ReadState, LoadOne, Publish,
       Register, Resolve, Wake, Leave, Read, outside
  <2>3. ASSUME Take(l) \/ ~ Cleanup(l)
        PROVE  inflight' = inflight /\ stopped' = stopped
    <3>1. CASE Take(l)
      BY <3>1 DEF Take
    <3>2. CASE ~ Cleanup(l) /\ ~ Take(l)
      BY <1>4, <3>2, Zenon DEF Step, Defer, Hand, Select, Released, Prepare, ReadState, LoadOne, Publish,
         Register, Resolve, Wake, Leave, Read, work
    <3> QED
      BY <2>3, <3>1, <3>2
  <2>4. CASE Take(l)
    <3>1. lane[l].pc = "idle" /\ awaiting' = awaiting
      BY <2>4 DEF Take, outside
    <3>2. ~ Leaving(lane[l])
      BY <1>1, <3>1 DEF Kept, Formed, Leaving
    <3>3. \A m \in Lanes : Leaving(lane[m]) => lane'[m] = lane[m]
      BY <2>1, <3>2
    <3> QED
      BY <1>3, <2>2, <2>3, <2>4, <3>1, <3>3 DEF Pending
  <2>5. CASE ~ Take(l) /\ ~ Cleanup(l)
    <3>1. Steady(lane[l], lane'[l])
      BY <1>1, <1>4, <2>5, Steadily
    <3>2. \A m \in Lanes, q \in Requests : Leaving(lane[m]) /\ lane[m].q = q => Leaving(lane'[m]) /\ lane'[m].q = q
      BY <2>1, <3>1 DEF Steady
    <3>3. \/ awaiting' = awaiting
          \/ awaiting' = awaiting \ {lane[l].q} /\ Leaving(lane'[l]) /\ lane'[l].q = lane[l].q
      <4>1. CASE \E good \in BOOLEAN : Publish(l, good)
        <5>1. lane' = [lane EXCEPT ![l] = [Idle EXCEPT !.pc = "leave", !.q = lane[l].q]] /\ awaiting' = awaiting \ {lane[l].q}
          BY <4>1 DEF Publish
        <5>2. lane'[l] = [Idle EXCEPT !.pc = "leave", !.q = lane[l].q]
          BY <1>1, <5>1 DEF LanesOK
        <5>3. lane'[l].pc = "leave" /\ lane'[l].q = lane[l].q
          BY <5>2 DEF Idle
        <5> QED
          BY <5>1, <5>3 DEF Leaving
      <4>2. CASE ~ \E good \in BOOLEAN : Publish(l, good)
        BY <1>4, <2>5, <4>2, Zenon DEF Step, Defer, Hand, Select, Released, Prepare, ReadState, LoadOne,
           Register, Resolve, Wake, Leave, Read, outside
      <4> QED
        BY <4>1, <4>2
    <3>4. inflight \subseteq Requests
      BY <1>1 DEF Kept
    <3> QED
      BY <1>3, <2>2, <2>3, <2>5, <3>2, <3>3, <3>4 DEF Pending
  <2>6. CASE Cleanup(l)
    <3>1. /\ inflight' = inflight \ {lane[l].q} /\ awaiting' = awaiting
          /\ StopIdle(inflight') /\ lane'[l] = Idle /\ lane[l].pc = "cleanup"
      BY <1>1, <2>6 DEF Cleanup, LanesOK, outside
    <3>2. Idle.pc # "exited"
      BY DEF Idle
    <3>3. Running' = Running
      BY <2>1, <3>1, <3>2, RunOn
    <3>4. Stopping /\ inflight' = {} => stopped'
      BY <1>1, <3>1, <3>3, StopsCome
    <3>5. down' = 4 => stopped' \/ inflight' # {}
      BY <1>2, <2>2, <3>4 DEF Stopping
    <3>6. \A m \in Lanes, q \in inflight' : lane[m].q = q => lane'[m] = lane[m]
      BY <2>1, <3>1
    <3> QED
      BY <1>3, <3>1, <3>5, <3>6
  <2> QED
    BY <2>4, <2>5, <2>6
<1>5. CASE UNCHANGED vars \/ \E q \in Requests : RequestFinished(q) \/ CancelRead(q)
  <2>1. lane' = lane /\ stopped' = stopped /\ inflight' = inflight /\ awaiting' = awaiting /\ down' = down
    BY <1>5 DEF vars, work, outside, RequestFinished, CancelRead
  <2> QED
    BY <1>3, <2>1 DEF Pending
<1>6. ASSUME NEW Q \in SUBSET Requests, StartLoad(Q)
      PROVE  Pending'
  <2>1. lane' = lane /\ stopped' = stopped /\ down' = down
    BY <1>6 DEF StartLoad
  <2>2. CASE Stopping
    <3>1. inflight' = inflight /\ awaiting' = awaiting
      BY <1>6, <2>2 DEF StartLoad
    <3> QED
      BY <1>3, <2>1, <3>1 DEF Pending
  <2>3. CASE ~ Stopping
    <3>1. inflight' = inflight \cup Q /\ awaiting' = awaiting \cup Q
      BY <1>6, <2>3 DEF StartLoad
    <3>2. down' # 4
      BY <1>2, <2>1, <2>3 DEF Stopping
    <3> QED
      BY <1>3, <2>1, <3>1, <3>2
  <2> QED
    BY <2>2, <2>3
<1>7. CASE ShutDown
  <2>1. lane' = lane /\ inflight' = inflight /\ awaiting' = awaiting /\ down' = down + 1
    BY <1>7 DEF ShutDown
  <2>2. down # 4 /\ (down = 3 => StopIdle(inflight))
    <3>1. down = 0 \/ down = 1 \/ down = 2 \/ (down = 3 /\ StopIdle(inflight))
      BY <1>7, Zenon DEF ShutDown
    <3> QED
      BY <3>1
  <2>3. Running' = Running
    BY <2>1 DEF Running
  <2>4. down = 3 => (inflight = {} => stopped')
    BY <1>1, <2>2, <2>3, StopsCome DEF Stopping
  <2>5. down' = 4 => stopped' \/ inflight' # {}
    BY <1>2, <2>1, <2>4
  <2> QED
    BY <1>3, <2>1, <2>5
<1> QED
  BY <1>4, <1>5, <1>6, <1>7 DEF Next
-----------------------------------------------------------------------------
\* The thread that sets followers aside releases them.
LEMMA DeferFrees ==
    ASSUME IInv, OInv, Freed, down > 2, NEW l \in Lanes, Defer(l),
           \A m \in Lanes : m # l => lane'[m] = lane[m]
    PROVE  Freed'
<1>1. PICK L, D, r : L = lane[l] /\ D = Elements(deferred) /\ r = lane'[l]
  OBVIOUS
<1>2. /\ deferred \in Seq(Requests) /\ Distinct(deferred) /\ Formed(L) /\ Typed(L) /\ LanesOK
      /\ Holds(L) \cap D = {}
  BY <1>1 DEF OInv, IInv, LanesOK, Kept, Shared
<1>3. L.pc = "register" /\ L.todo = {} /\ inflight' = inflight /\ down' = down
  BY <1>1 DEF Defer, outside
<1>4. /\ L.late \subseteq Requests /\ L.keys \in [Requests -> Optional(Keys)]
      /\ {q \in Requests : L.keys[q] # None} \subseteq L.batch /\ Holds(L) = L.batch
      /\ \A q \in L.late : L.keys[q] # None
  BY <1>2, <1>3 DEF Formed, Split, Holds
<1>5. PICK T : lane' = [lane EXCEPT ![l] = [L EXCEPT !.pc = "hand", !.todo = T]]
  BY <1>1, Zenon DEF Defer
<1>6. r = [L EXCEPT !.pc = "hand", !.todo = T]
  BY <1>1, <1>2, <1>5 DEF LanesOK
<1>7. r.pc = "hand" /\ r.keys = L.keys
  BY <1>2, <1>6 DEF Typed, Idle
<1>8. \A q \in Requests : planKey'[q] = IF L.keys[q] # None THEN L.keys[q] ELSE planKey[q]
  BY <1>1 DEF Defer
<1>9. Elements(deferred') \subseteq D \cup L.late
  <2>1. PICK d, e : d = Keep(deferred, Requests \ L.late) /\ e = Sorted(L.late)
    OBVIOUS
  <2>2. d \in Seq(Requests) /\ Distinct(d) /\ Elements(d) = D \cap (Requests \ L.late)
    BY <1>1, <1>2, <2>1, KeepOK
  <2>3. e \in Seq(Requests) /\ Distinct(e) /\ Elements(e) = L.late
    BY <1>4, <2>1, InOrder
  <2>4. deferred' = d \o e
    BY <1>1, <2>1 DEF Defer
  <2>5. Elements(d) \cap Elements(e) = {}
    BY <2>2, <2>3
  <2>6. Elements(d \o e) = Elements(d) \cup Elements(e)
    BY <2>2, <2>3, <2>5, JoinOK
  <2> QED
    BY <2>2, <2>3, <2>4, <2>6
<1>10. ASSUME NEW q \in inflight' \cap Elements(deferred')
       PROVE  planKey'[q] # None /\ \E m \in Lanes : Releases(lane'[m], planKey'[q])
  <2>1. q \in Requests /\ q \in inflight
    <3>1. D \subseteq Requests
      BY <1>1, <1>2 DEF Elements
    <3> QED
      BY <1>3, <1>4, <1>9, <3>1
  <2>2. CASE L.keys[q] # None
    <3>1. planKey'[q] = L.keys[q]
      BY <1>8, <2>1, <2>2
    <3>2. Releases(r, planKey'[q])
      BY <1>7, <2>1, <3>1 DEF Releases
    <3> QED
      BY <1>1, <2>2, <3>1, <3>2
  <2>3. CASE L.keys[q] = None
    <3>1. q \in D /\ planKey'[q] = planKey[q]
      BY <1>4, <1>8, <1>9, <2>1, <2>3
    <3>2. planKey[q] # None /\ \E m \in Lanes : Releases(lane[m], planKey[q])
      BY <1>1, <2>1, <3>1 DEF Freed
    <3>3. ~ Releases(L, planKey[q])
      BY <1>3 DEF Releases
    <3> QED
      BY <1>1, <3>1, <3>2, <3>3
  <2> QED
    BY <2>2, <2>3
<1> QED
  BY <1>10 DEF Freed, Releases, Elements

\* The release of followers passes on, or sets them free.
LEMMA SelectFrees ==
    ASSUME IInv, OInv, Freed, down > 2, NEW l \in Lanes, Select(l),
           \A m \in Lanes : m # l => lane'[m] = lane[m]
    PROVE  Freed'
<1>1. PICK L, D, r : L = lane[l] /\ D = Elements(deferred) /\ r = lane'[l]
  OBVIOUS
<1>2. deferred \in Seq(Requests) /\ Distinct(deferred) /\ Typed(L) /\ LanesOK /\ D \subseteq Requests
  <2>1. deferred \in Seq(Requests) /\ Distinct(deferred) /\ Typed(L) /\ LanesOK
    BY <1>1 DEF OInv, IInv, LanesOK, Kept, Shared
  <2> QED
    BY <1>1, <2>1 DEF Elements
<1>3. L.pc = "select" /\ inflight' = inflight /\ down' = down /\ planKey' = planKey
  BY <1>1 DEF Select, outside
<1>4. PICK matching : matching = Keep(deferred, {q \in Requests : planKey[q] = L.key})
  OBVIOUS
<1>5. Elements(matching) = D \cap {q \in Requests : planKey[q] = L.key}
  BY <1>1, <1>2, <1>4, KeepOK
<1>6. PICK chosen : chosen = IF L.seen \in {None, "ready", "error"} THEN matching
                             ELSE IF L.seen = "registered" /\ L.promote /\ matching # <<>> THEN <<Head(matching)>>
                             ELSE <<>>
  OBVIOUS
<1>7. deferred' = Keep(deferred, Requests \ Elements(chosen))
  BY <1>1, <1>4, <1>6, Zenon DEF Select
<1>8. Elements(deferred') = D \cap (Requests \ Elements(chosen))
  <2>1. Elements(Keep(deferred, Requests \ Elements(chosen))) = D \cap (Requests \ Elements(chosen))
    BY <1>1, <1>2, KeepOK
  <2> QED
    BY <1>7, <2>1
<1>9. lane' = [lane EXCEPT ![l] = [L EXCEPT !.pc = "release", !.key = None, !.seen = None]]
  BY <1>1, Zenon DEF Select
<1>10. r = [L EXCEPT !.pc = "release", !.key = None, !.seen = None]
  BY <1>1, <1>2, <1>9 DEF LanesOK
<1>11. r.pc = "release" /\ r.todo = L.todo
  BY <1>2, <1>10 DEF Typed, Idle
<1>12. ASSUME NEW q \in inflight' \cap Elements(deferred')
       PROVE  planKey'[q] # None /\ \E m \in Lanes : Releases(lane'[m], planKey'[q])
  <2>1. q \in inflight \cap D /\ q \in Requests /\ q \notin Elements(chosen)
    BY <1>2, <1>3, <1>8
  <2>2. planKey[q] # None
    BY <1>1, <2>1 DEF Freed
  <2>3. PICK m \in Lanes : Releases(lane[m], planKey[q])
    BY <1>1, <2>1 DEF Freed
  <2>4. CASE m # l
    BY <1>3, <2>2, <2>3, <2>4
  <2>5. CASE m = l
    <3>1. ~ (L.key = planKey[q] /\ L.seen = None)
      BY <1>5, <1>6, <2>1
    <3>2. planKey[q] \in L.todo
      BY <1>1, <1>3, <2>3, <2>5, <3>1 DEF Releases
    <3>3. Releases(r, planKey[q])
      BY <1>11, <3>2 DEF Releases
    <3> QED
      BY <1>1, <1>3, <2>2, <3>3
  <2> QED
    BY <2>4, <2>5
<1> QED
  BY <1>12 DEF Freed, Releases, Elements
-----------------------------------------------------------------------------
LEMMA FreedKept == IInv /\ OInv /\ Sealed /\ Freed /\ [Next]_vars => Freed'
<1> SUFFICES ASSUME IInv, OInv, Sealed, Freed, [Next]_vars
             PROVE  Freed'
  OBVIOUS
<1>1. Kept /\ Shared /\ LanesOK /\ down \in 0 .. 4
  BY DEF OInv, IInv, Kept
<1>2. ASSUME ~ (down' > 2)
      PROVE  Freed'
  BY <1>2 DEF Freed
<1>3. ASSUME down > 2, deferred' = deferred, inflight' \subseteq inflight,
             \A q \in inflight' : planKey'[q] = planKey[q],
             \A m \in Lanes : \A k : k # None /\ Releases(lane[m], k) => Releases(lane'[m], k)
      PROVE  Freed'
  <2>1. ASSUME NEW q \in inflight' \cap Elements(deferred')
        PROVE  planKey'[q] # None /\ \E m \in Lanes : Releases(lane'[m], planKey'[q])
    <3>1. q \in inflight \cap Elements(deferred)
      BY <1>3 DEF Elements
    <3>2. planKey[q] # None /\ \E m \in Lanes : Releases(lane[m], planKey[q])
      BY <1>3, <3>1 DEF Freed
    <3> QED
      BY <1>3, <3>2
  <2> QED
    BY <2>1 DEF Freed, Releases, Elements
<1>4. ASSUME NEW l \in Lanes, Step(l)
      PROVE  Freed'
  <2>1. \A m \in Lanes : m # l => lane'[m] = lane[m]
    BY <1>1, <1>4, OthersStay
  <2>2. down' = down
    BY <1>4, Zenon DEF Step, Take, Defer, Hand, Select, Released, Cleanup, Prepare, ReadState, LoadOne, Publish,
       Register, Resolve, Wake, Leave, Read, outside
  <2> SUFFICES ASSUME down > 2
               PROVE  Freed'
    BY <1>2, <2>2
  <2>3. PICK L, r : L = lane[l] /\ r = lane'[l]
    OBVIOUS
  <2>4. Typed(L) /\ Formed(L)
    BY <1>1, <2>3 DEF LanesOK, Kept
  <2>5. ASSUME deferred' = deferred, inflight' \subseteq inflight,
               \A q \in inflight' : planKey'[q] = planKey[q],
               \A k : k # None /\ Releases(L, k) => Releases(r, k)
        PROVE  Freed'
    <3>1. \A m \in Lanes : \A k : k # None /\ Releases(lane[m], k) => Releases(lane'[m], k)
      BY <2>1, <2>3, <2>5
    <3> QED
      BY <1>3, <2>5, <3>1
  <2>6. CASE Hand(l)
    <3>1. deferred' = deferred /\ inflight' = inflight /\ planKey' = planKey /\ L.pc = "hand"
      BY <2>3, <2>6 DEF Hand
    <3>2. PICK p, T : p = (L.todo # {}) /\ T = {L.keys[q] : q \in Requests} \ {None}
      OBVIOUS
    <3>3. lane' = [lane EXCEPT ![l] = [Idle EXCEPT !.pc = "release", !.promote = p, !.todo = T]]
      BY <2>3, <2>6, <3>2, Zenon DEF Hand
    <3>4. r = [Idle EXCEPT !.pc = "release", !.promote = p, !.todo = T]
      BY <1>1, <2>3, <3>3 DEF LanesOK
    <3>5. r.pc = "release" /\ r.todo = T
      BY <3>4 DEF Idle
    <3>6. \A k : k # None /\ Releases(L, k) => k \in T
      BY <3>1, <3>2 DEF Releases
    <3>7. \A k : k # None /\ Releases(L, k) => Releases(r, k)
      BY <3>5, <3>6 DEF Releases
    <3> QED
      BY <2>5, <3>1, <3>7
  <2>7. ASSUME NEW x \in Keys, ReadState(l, x)
        PROVE  Freed'
    <3>1. /\ deferred' = deferred /\ inflight' = inflight /\ planKey' = planKey /\ L.pc = "release"
          /\ lane' = [lane EXCEPT ![l] = [L EXCEPT !.pc = "select", !.todo = L.todo \ {x}, !.key = x, !.seen = StateOf(x)]]
      BY <2>3, <2>7 DEF ReadState, work
    <3>2. PICK T, e : T = L.todo \ {x} /\ e = StateOf(x)
      OBVIOUS
    <3>3. r = [L EXCEPT !.pc = "select", !.todo = T, !.key = x, !.seen = e]
      BY <1>1, <2>3, <3>1, <3>2 DEF LanesOK
    <3>4. r.pc = "select" /\ r.todo = T /\ r.key = x /\ r.seen = e
      BY <2>4, <3>3 DEF Typed, Idle
    <3>5. e = None
      <4>1. Active = {}
        BY <1>1 DEF Sealed
      <4>2. current[x] = None
        BY <4>1 DEF Active
      <4> QED
        BY <3>2, <4>2 DEF StateOf
    <3>6. \A k : Releases(L, k) => k \in T \/ k = x
      BY <3>1, <3>2 DEF Releases
    <3>7. \A k : k # None /\ Releases(L, k) => Releases(r, k)
      BY <3>4, <3>5, <3>6 DEF Releases
    <3> QED
      BY <2>5, <3>1, <3>7
  <2>8. ASSUME ~ \E k : Releases(L, k), deferred' = deferred, inflight' = inflight, planKey' = planKey
        PROVE  Freed'
    BY <2>5, <2>8
  <2>9. CASE Released(l)
    <3>1. deferred' = deferred /\ inflight' = inflight /\ planKey' = planKey /\ L.pc = "release" /\ L.todo = {}
      BY <2>3, <2>9 DEF Released, work
    <3> QED
      BY <2>8, <3>1 DEF Releases
  <2>10. CASE Cleanup(l)
    <3>1. /\ deferred' = deferred /\ inflight' = inflight \ {L.q} /\ planKey' = [planKey EXCEPT ![L.q] = None]
          /\ L.pc = "cleanup"
      BY <2>3, <2>10 DEF Cleanup
    <3>2. planKey \in [Requests -> Optional(Keys)] /\ inflight \subseteq Requests
      BY <1>1 DEF Kept
    <3>3. \A q \in inflight' : planKey'[q] = planKey[q]
      BY <3>1, <3>2
    <3>4. ~ \E k : Releases(L, k)
      BY <3>1 DEF Releases
    <3> QED
      BY <2>5, <3>1, <3>3, <3>4
  <2>11. ASSUME \/ Take(l) \/ Resolve(l) \/ Wake(l) \/ Leave(l)
                \/ \E E \in SUBSET Requests, raises \in BOOLEAN : Prepare(l, E, raises)
                \/ \E k \in Keys : Register(l, k)
                \/ \E key \in Keys \cup {None}, fails \in BOOLEAN : LoadOne(l, key, fails)
                \/ \E good \in BOOLEAN : Read(l, good) \/ Publish(l, good)
         PROVE  Freed'
    <3>1. lane[l].pc \in {"idle", "resolve", "waiting", "leave", "prepare", "register", "load", "reading", "publish"}
      BY <2>11, Zenon DEF Take, Resolve, Wake, Leave, Prepare, Register, LoadOne, Read, Publish
    <3>2. ~ \E k : Releases(L, k)
      BY <2>3, <3>1 DEF Releases
    <3>3. deferred' = deferred /\ inflight' = inflight /\ planKey' = planKey
      BY <2>11, Zenon DEF Take, Resolve, Wake, Leave, Prepare, Register, LoadOne, Read, Publish, work
    <3> QED
      BY <2>8, <3>2, <3>3
  <2>12. Defer(l) \/ Select(l) => Freed'
    BY <2>1, DeferFrees, SelectFrees
  <2> QED
    BY <1>4, <2>6, <2>7, <2>9, <2>10, <2>11, <2>12, Zenon DEF Step
<1>5. CASE UNCHANGED vars \/ \E q \in Requests : RequestFinished(q) \/ CancelRead(q)
  <2>1. lane' = lane /\ deferred' = deferred /\ inflight' = inflight /\ planKey' = planKey /\ down' = down
    BY <1>5 DEF vars, work, outside, RequestFinished, CancelRead
  <2> QED
    BY <1>2, <1>3, <2>1
<1>6. ASSUME NEW Q \in SUBSET Requests, StartLoad(Q)
      PROVE  Freed'
  <2>1. /\ lane' = lane /\ deferred' = deferred /\ planKey' = planKey /\ down' = down
        /\ Stopping => inflight' = inflight
    BY <1>6 DEF StartLoad
  <2>2. down > 2 => Stopping
    BY <1>1 DEF Stopping
  <2> QED
    BY <1>2, <1>3, <2>1, <2>2
<1>7. CASE ShutDown
  <2>1. lane' = lane /\ inflight' = inflight /\ planKey' = planKey /\ down' = down + 1
    BY <1>7 DEF ShutDown
  <2>2. down = 0 \/ down = 1 \/ (down = 2 /\ deferred' = <<>>) \/ (down = 3 /\ deferred' = deferred)
    BY <1>7, Zenon DEF ShutDown
  <2>3. CASE down < 2
    BY <1>1, <1>2, <2>1, <2>3
  <2>4. CASE deferred' = <<>>
    BY <2>4 DEF Freed, Elements
  <2>5. CASE down = 3 /\ deferred' = deferred
    BY <1>3, <2>1, <2>5
  <2> QED
    BY <2>2, <2>3, <2>4, <2>5
<1> QED
  BY <1>4, <1>5, <1>6, <1>7 DEF Next
-----------------------------------------------------------------------------
LEMMA EndingInitial ==
    ASSUME Init
    PROVE  Ending
<1>1. /\ down = 0 /\ stopped = FALSE /\ inflight = {} /\ closed = FALSE /\ queue = <<>>
      /\ \A l \in Lanes : lane[l] = Idle
  BY DEF Init
<1>2. Idle.pc # "exited"
  BY DEF Idle
<1>3. Stops(queue) = {}
  BY <1>1 DEF Stops
<1>4. Running = Lanes
  BY <1>1, <1>2 DEF Running
<1> QED
  BY <1>1, <1>3, <1>4 DEF Ending, Sealed, Sentried, Pending, Freed

\* What holds when every thread has exited or waits.
LEMMA NobodyWaits == OInv /\ Ending => LoadersExit
<1> SUFFICES ASSUME OInv, Ending, down = 4,
                    \A l \in Lanes : lane[l].pc = "exited" \/ Blocked(l),
                    NEW l \in Lanes, lane[l].pc # "exited"
             PROVE  FALSE
  BY DEF LoadersExit
<1>1. Kept /\ Shared /\ closed
  BY DEF OInv, Ending, Sealed
<1>2. \A m \in Lanes : lane[m].pc = "exited" \/ (lane[m].pc = "idle" /\ queue = <<>>)
  BY <1>1 DEF Blocked
<1>3. queue = <<>>
  BY <1>2
<1>4. Stops(queue) = {} /\ Named(queue) = {}
  BY <1>3 DEF Stops, Named
<1>5. l \in Running /\ IsFiniteSet(Running)
  <2>1. Running \subseteq Lanes /\ l \in Running
    BY DEF Running
  <2> QED
    BY <2>1, FS_Subset, BaseReadConstants
<1>6. ~ stopped
  <2>1. Cardinality(Stops(queue)) = 0
    BY <1>4, FS_EmptySet
  <2>2. Cardinality(Running) # 0
    BY <1>5, FS_EmptySet
  <2> QED
    BY <2>1, <2>2 DEF Ending, Sentried
<1>7. PICK q : q \in inflight
  BY <1>6 DEF Ending, Pending
<1>8. \A m \in Lanes : ~ Leaving(lane[m]) /\ Holds(lane[m]) = {} /\ \A k : ~ Releases(lane[m], k)
  BY <1>1, <1>2 DEF Kept, Formed, Leaving, Holds, Releases
<1>9. q \in awaiting
  BY <1>7, <1>8 DEF Ending, Pending
<1>10. q \in Elements(deferred)
  BY <1>1, <1>4, <1>8, <1>9 DEF Shared
<1> QED
  BY <1>7, <1>8, <1>10 DEF Ending, Freed

\* No loader thread is left waiting for work after shutdown(): when every thread
\* has exited or waits, with or without a flight, all have exited.
THEOREM LoadersAreStopped == Spec => []LoadersExit
<1>1. Init => IInv /\ OInv /\ Ending
  BY Initial, OwnersInitial, EndingInitial
<1>2. IInv /\ OInv /\ Ending /\ [Next]_vars => (IInv /\ OInv /\ Ending)'
  <2>1. IInv /\ [Next]_vars => IInv'
    BY Inductive
  <2>2. IInv /\ OInv /\ [Next]_vars => OInv'
    BY OwnersInductive
  <2>3. IInv /\ IInv' /\ OInv /\ Ending /\ [Next]_vars => Ending'
    BY SealedKept, SentriedKept, PendingKept, FreedKept DEF Ending, OInv
  <2> QED
    BY <2>1, <2>2, <2>3
<1>3. OInv /\ Ending => LoadersExit
  BY NobodyWaits
<1> QED
  BY <1>1, <1>2, <1>3, PTL DEF Spec
=============================================================================
