------------------------ MODULE RestoreFlightsProofs ------------------------
(***************************************************************************)
(* A request runs only on verified blocks, and the blocks a restore still  *)
(* writes belong to its request alone (OnlyVerified), for any number of    *)
(* requests, ranks, blocks and entries, and any preemptions, aborts,       *)
(* failures and reports.                                                   *)
(*                                                                         *)
(* Neither part is inductive.  RunsVerified says nothing of a request      *)
(* before it runs: StageOK follows it through its phases, from the blocks  *)
(* allocated for the entry it leads to the load that covers them.  What a  *)
(* rank has queued, finished or handed over belongs to a request that      *)
(* still loads, and a failed rank has not lost the blocks it failed        *)
(* (RankOK).  Blocks under restore are in no other table and under no pin  *)
(* (Apart), a pin is its entry (PinsOK), and the flights, leaders and      *)
(* followers of the connector agree (Book), so that the lease a leader     *)
(* publishes covers its own blocks and a follower attaches an entry of its *)
(* own prompt.                                                             *)
(*                                                                         *)
(* The connector's operations are functions of its books.  Each has a      *)
(* lemma: it keeps Book, and what a loading request leads stays dispatched *)
(* with its segment or without one (Steady).  A step of the scheduler is   *)
(* then a fact about the request it is about, and the rest are left alone. *)
(*                                                                         *)
(* The second half proves that the tables of vLLM and of the connector     *)
(* agree (Coherent).  Its invariant JInv adds what ties leaders,           *)
(* followers, lease keys and leases to each other and limits them          *)
(* (Ledger), and what ties that ledger to vLLM: a flight is orphaned when  *)
(* its leader has ended, a dispatched one keeps at most the segment its    *)
(* leader's load restores (FlightsAt), the flight of a loading leader      *)
(* names the blocks of its table, and a failed request leads nothing       *)
(* (RequestsAt).  What an operation does not register it leaves alone or   *)
(* takes away (Descends), so the ledger survives it.  With one pending     *)
(* restore at a time a fence is overwritten by no other flight, and nobody *)
(* is stranded.                                                            *)
(***************************************************************************)
EXTENDS RestoreFlights, FiniteSetTheorems, SequenceTheorems, WellFoundedInduction, TLAPS

\* The books of the connector.
Conns ==
    [flights : [Digests -> Optional(FlightRecords)],
     leads : [Requests -> Optional(Digests)],
     bound : [Requests -> Optional(Bindings)],
     need : [Requests -> Optional(Digests)],
     pending : [Requests -> Optional(Digests)],
     admitted : [Requests -> Optional(Admissions)]]

\* A map that forgets some of its keys.
LEMMA ForgetIs ==
    ASSUME NEW X, NEW V, NEW f \in [X -> Optional(V)], NEW S
    PROVE  /\ Forget(f, S) \in [X -> Optional(V)]
           /\ \A x \in X : Forget(f, S)[x] = IF x \in S THEN None ELSE f[x]
BY DEF Forget, Optional

\* A map with another value at one key.
LEMMA PutIs ==
    ASSUME NEW X, NEW V, NEW f \in [X -> Optional(V)], NEW x \in X, NEW v \in Optional(V)
    PROVE  /\ Put(f, x, v) \in [X -> Optional(V)]
           /\ \A y \in X : Put(f, x, v)[y] = IF y = x THEN v ELSE f[y]
BY DEF Put, Optional

\* Retired flights take their leaders and their followers out of the books.
LEMMA RetireIs ==
    ASSUME NEW c \in Conns, NEW D,
           NEW a, a = RetireAll(c, D)
    PROVE  /\ a \in Conns
           /\ \A d \in Digests : a.flights[d] = IF d \in D THEN None ELSE c.flights[d]
           /\ \A q \in Requests : a.leads[q] =
                IF \E d \in Digests : d \in D /\ c.flights[d] # None /\ c.flights[d].leader = q THEN None ELSE c.leads[q]
           /\ \A q \in Requests : a.bound[q] =
                IF \E d \in Digests : d \in D /\ c.flights[d] # None /\ q \in c.flights[d].followers THEN None ELSE c.bound[q]
           /\ a.need = c.need /\ a.pending = c.pending /\ a.admitted = c.admitted
<1> DEFINE F == D \cap Live(c)
           L == {c.flights[d].leader : d \in F}
           B == UNION {c.flights[d].followers : d \in F}
<1>1. a = [c EXCEPT !.flights = Forget(c.flights, F), !.leads = Forget(c.leads, L),
                    !.bound = Forget(c.bound, B)]
  BY DEF RetireAll
<1>2. /\ c.flights \in [Digests -> Optional(FlightRecords)]
      /\ c.leads \in [Requests -> Optional(Digests)]
      /\ c.bound \in [Requests -> Optional(Bindings)]
  BY DEF Conns
<1>3. /\ Forget(c.flights, F) \in [Digests -> Optional(FlightRecords)]
      /\ \A d \in Digests : Forget(c.flights, F)[d] = IF d \in F THEN None ELSE c.flights[d]
  BY <1>2, ForgetIs
<1>4. /\ Forget(c.leads, L) \in [Requests -> Optional(Digests)]
      /\ \A q \in Requests : Forget(c.leads, L)[q] = IF q \in L THEN None ELSE c.leads[q]
  BY <1>2, ForgetIs
<1>5. /\ Forget(c.bound, B) \in [Requests -> Optional(Bindings)]
      /\ \A q \in Requests : Forget(c.bound, B)[q] = IF q \in B THEN None ELSE c.bound[q]
  BY <1>2, ForgetIs
<1>6. a \in Conns
  BY <1>1, <1>3, <1>4, <1>5 DEF Conns
<1>7. /\ a.flights = Forget(c.flights, F) /\ a.leads = Forget(c.leads, L)
      /\ a.bound = Forget(c.bound, B)
      /\ a.need = c.need /\ a.pending = c.pending /\ a.admitted = c.admitted
  BY <1>1 DEF Conns
<1>8. \A d \in Digests : d \in F <=> d \in D /\ c.flights[d] # None
  BY DEF Live
<1>9. /\ \A q : q \in L <=> \E d \in Digests : d \in D /\ c.flights[d] # None /\ c.flights[d].leader = q
      /\ \A q : q \in B <=> \E d \in Digests : d \in D /\ c.flights[d] # None /\ q \in c.flights[d].followers
  BY DEF Live
<1> QED BY <1>3, <1>4, <1>5, <1>6, <1>7, <1>8, <1>9

\* The entries of q that end before d.
Shorter(q, d) == {e \in Candidates[q] : Span[e] < Span[d]}

\* A flight restores an entry of its leader, and shares shorter ones.
FlightOK(d, f) ==
    /\ d \in Candidates[f.leader]
    /\ f.share \subseteq Shorter(f.leader, d)
    /\ f.segment \in Optional(f.share)
    /\ f.done => f.dispatched
    /\ f.lease # None => f.done

\* Every flight there is.
FlightsOK(c) == \A d \in Digests : c.flights[d] # None => FlightOK(d, c.flights[d])

\* A leader and its flight name each other, and the flight is sent, or is what the
\* leader asks for.
LeadersOK(c) ==
    \A q \in Requests : c.leads[q] # None =>
        /\ c.flights[c.leads[q]] # None /\ c.flights[c.leads[q]].leader = q
        /\ ~c.flights[c.leads[q]].dispatched => c.leads[q] \in {c.need[q], c.pending[q]}

\* A request asks for entries of its own prompt.
AskedOK(c) ==
    \A q \in Requests : c.need[q] \in Optional(Candidates[q]) /\ c.pending[q] \in Optional(Candidates[q])

\* A follower is listed by its flight and waits for an entry of its own prompt, which
\* the flight, while it can still be joined, is going to publish.
BoundOK(c) ==
    \A q \in Requests : c.bound[q] # None =>
        /\ c.flights[c.bound[q].flight] # None
        /\ q \in c.flights[c.bound[q].flight].followers
        /\ c.bound[q].lease \in Candidates[q]
        /\ ~c.flights[c.bound[q].flight].dispatched =>
              c.bound[q].lease \in {c.bound[q].flight, c.flights[c.bound[q].flight].segment}

\* The books of the connector agree.
Book(c) == c \in Conns /\ FlightsOK(c) /\ LeadersOK(c) /\ AskedOK(c) /\ BoundOK(c)

\* From c to a no request outside X gets a flight, and a dispatched flight stays
\* dispatched, with its segment or without one.
Steady(c, a, X) ==
    /\ a.pending = c.pending
    /\ \A q \in Requests \ X : a.leads[q] # None =>
         /\ a.leads[q] = c.leads[q]
         /\ c.flights[a.leads[q]].dispatched =>
              /\ a.flights[a.leads[q]].dispatched
              /\ a.flights[a.leads[q]].segment \in {None, c.flights[a.leads[q]].segment}

\* The types of the books.
LEMMA ConnIs ==
    ASSUME NEW c \in Conns
    PROVE  /\ c.flights \in [Digests -> Optional(FlightRecords)]
           /\ c.leads \in [Requests -> Optional(Digests)]
           /\ c.bound \in [Requests -> Optional(Bindings)]
           /\ c.need \in [Requests -> Optional(Digests)]
           /\ c.pending \in [Requests -> Optional(Digests)]
           /\ c.admitted \in [Requests -> Optional(Admissions)]
BY DEF Conns

\* The types of what the books hold.
LEMMA ConnParts ==
    ASSUME NEW c \in Conns
    PROVE  /\ \A d \in Digests : c.flights[d] # None => c.flights[d] \in FlightRecords
           /\ \A q \in Requests :
                /\ c.leads[q] # None => c.leads[q] \in Digests
                /\ c.need[q] # None => c.need[q] \in Digests
                /\ c.pending[q] # None => c.pending[q] \in Digests
                /\ c.bound[q] # None => c.bound[q] \in Bindings
BY ConnIs DEF Optional

\* Two operations one after the other.
LEMMA SteadyComposes ==
    ASSUME NEW c, NEW a, NEW e, NEW X, Steady(c, a, X), Steady(a, e, X)
    PROVE  Steady(c, e, X)
BY DEF Steady

\* What holds of every request holds of the others.
LEMMA SteadyMore ==
    ASSUME NEW c, NEW a, NEW X, Steady(c, a, {})
    PROVE  Steady(c, a, X)
BY DEF Steady

\* Nothing done.
LEMMA SteadySelf ==
    ASSUME NEW c, NEW X
    PROVE  Steady(c, c, X)
BY DEF Steady

\* Retiring flights (_retire_restore_flight).
LEMMA RetireBook ==
    ASSUME NEW c, Book(c), NEW D
    PROVE  /\ Book(RetireAll(c, D)) /\ Steady(c, RetireAll(c, D), {})
           /\ RetireAll(c, D).need = c.need
           /\ \A q \in Requests : RetireAll(c, D).leads[q] \in {None, c.leads[q]}
           /\ \A q \in Requests : c.bound[q] = None => RetireAll(c, D).bound[q] = None
           /\ \A q \in Requests : c.leads[q] # None /\ c.leads[q] \in D =>
                 RetireAll(c, D).leads[q] = None
<1> DEFINE a == RetireAll(c, D)
<1>0. c \in Conns
  BY DEF Book
<1>1. /\ a \in Conns
      /\ \A d \in Digests : a.flights[d] = IF d \in D THEN None ELSE c.flights[d]
      /\ \A q \in Requests : a.leads[q] =
           IF \E d \in Digests : d \in D /\ c.flights[d] # None /\ c.flights[d].leader = q THEN None ELSE c.leads[q]
      /\ \A q \in Requests : a.bound[q] =
           IF \E d \in Digests : d \in D /\ c.flights[d] # None /\ q \in c.flights[d].followers THEN None ELSE c.bound[q]
      /\ a.need = c.need /\ a.pending = c.pending /\ a.admitted = c.admitted
  BY <1>0, RetireIs
<1> HIDE DEF a
<1>2. \A q \in Requests : /\ c.leads[q] # None => c.leads[q] \in Digests
                          /\ c.bound[q] # None => c.bound[q] \in Bindings
  BY <1>0, ConnParts
<1>3. \A q \in Requests : a.leads[q] # None => a.leads[q] = c.leads[q] /\ a.leads[q] \in Digests
                            /\ a.flights[a.leads[q]] = c.flights[a.leads[q]]
  BY <1>1, <1>2 DEF Book, LeadersOK
<1>4. \A q \in Requests : a.bound[q] # None => a.bound[q] = c.bound[q]
                            /\ a.flights[a.bound[q].flight] = c.flights[a.bound[q].flight]
  BY <1>1, <1>2 DEF Book, BoundOK, Bindings
<1>5. FlightsOK(a)
  BY <1>1 DEF Book, FlightsOK
<1>6. LeadersOK(a)
  BY <1>1, <1>3 DEF Book, LeadersOK
<1>7. AskedOK(a)
  BY <1>1 DEF Book, AskedOK
<1>8. BoundOK(a)
  BY <1>4 DEF Book, BoundOK
<1>9. Steady(c, a, {})
  BY <1>1, <1>3 DEF Steady
<1>10. \A q \in Requests : c.leads[q] # None /\ c.leads[q] \in D => a.leads[q] = None
  BY <1>1, <1>2 DEF Book, LeadersOK
<1> QED BY <1>1, <1>5, <1>6, <1>7, <1>8, <1>9, <1>10 DEF Book, a

\* What _remove_restore_flight_follower changes.
LEMMA RemoveIs ==
    ASSUME NEW c \in Conns, NEW q \in Requests, c.bound[q] # None,
           c.flights[c.bound[q].flight] # None,
           NEW a, a = RemoveFollower(c, q)
    PROVE  LET b == c.bound[q]
               f == c.flights[b.flight]
               g == a.flights[b.flight]
           IN  /\ a \in Conns
               /\ g \in FlightRecords /\ g # None
               /\ g.leader = f.leader /\ g.share = f.share /\ g.dispatched = f.dispatched
               /\ g.done = f.done /\ g.lease = f.lease /\ g.followers = f.followers \ {q}
               /\ g.gone = f.gone /\ g.blocks = f.blocks /\ g.newer = f.newer
               /\ \/ g.segment = f.segment
                  \/ (g.segment = None /\ b.lease = f.segment /\ f.lease = None
                      /\ \A p \in Requests \ {q} : c.bound[p] # b)
               /\ \A d \in Digests \ {b.flight} : a.flights[d] = c.flights[d]
               /\ a.bound[q] = None /\ \A p \in Requests \ {q} : a.bound[p] = c.bound[p]
               /\ a.leads = c.leads /\ a.need = c.need /\ a.pending = c.pending
               /\ a.admitted = c.admitted
<1> DEFINE b == c.bound[q]
           f == c.flights[b.flight]
           drop == b.lease = f.segment /\ f.lease = None /\ ~\E p \in Requests \ {q} : c.bound[p] = b
           s == IF drop THEN None ELSE f.segment
           g == [f EXCEPT !.followers = f.followers \ {q}, !.segment = s]
<1>1. a = [c EXCEPT !.bound = Put(c.bound, q, None), !.flights = Put(c.flights, b.flight, g)]
  BY DEF RemoveFollower
<1>2. b \in Bindings /\ b.flight \in Digests /\ f \in FlightRecords
  BY ConnParts DEF Bindings
<1>0. /\ c.flights \in [Digests -> Optional(FlightRecords)]
      /\ c.bound \in [Requests -> Optional(Bindings)]
  BY ConnIs
<1>3. /\ s \in Optional(Digests)
      /\ \/ s = f.segment
         \/ (s = None /\ b.lease = f.segment /\ f.lease = None
             /\ \A p \in Requests \ {q} : c.bound[p] # b)
  BY <1>2 DEF FlightRecords, Optional
<1>4. g \in FlightRecords /\ g # None /\ g.segment = s
  <2> HIDE DEF s, f
  <2>1. f.followers \ {q} \in SUBSET Requests
    BY <1>2 DEF FlightRecords
  <2>2. g \in FlightRecords
    BY <1>2, <1>3, <2>1 DEF FlightRecords
  <2>3. g.segment = s
    BY <1>2 DEF FlightRecords
  <2> QED BY <2>2, <2>3, DistinctValues
<1> HIDE DEF g, b, f, s
<1>5. /\ Put(c.flights, b.flight, g) \in [Digests -> Optional(FlightRecords)]
      /\ \A d \in Digests : Put(c.flights, b.flight, g)[d] = IF d = b.flight THEN g ELSE c.flights[d]
  <2>1. g \in Optional(FlightRecords)
    BY <1>4 DEF Optional
  <2>2. b.flight \in Digests /\ c.flights \in [Digests -> Optional(FlightRecords)]
    BY <1>0, <1>2
  <2> QED BY <2>1, <2>2 DEF Put
<1>6. /\ Put(c.bound, q, None) \in [Requests -> Optional(Bindings)]
      /\ \A p \in Requests : Put(c.bound, q, None)[p] = IF p = q THEN None ELSE c.bound[p]
  <2>1. None \in Optional(Bindings)
    BY DEF Optional
  <2> QED BY <1>0, <2>1, PutIs
<1>7. a \in Conns
  BY <1>1, <1>5, <1>6 DEF Conns
<1>8. /\ a.flights = Put(c.flights, b.flight, g) /\ a.bound = Put(c.bound, q, None)
      /\ a.leads = c.leads /\ a.need = c.need /\ a.pending = c.pending /\ a.admitted = c.admitted
  BY <1>1 DEF Conns
<1>9. a.flights[b.flight] = g
  BY <1>2, <1>5, <1>8
<1>10. /\ g.leader = f.leader /\ g.share = f.share /\ g.dispatched = f.dispatched
       /\ g.done = f.done /\ g.lease = f.lease /\ g.followers = f.followers \ {q}
       /\ g.gone = f.gone /\ g.blocks = f.blocks /\ g.newer = f.newer
  BY <1>2 DEF g, FlightRecords
<1>11. /\ a \in Conns
       /\ g \in FlightRecords /\ g # None
       /\ g.leader = f.leader /\ g.share = f.share /\ g.dispatched = f.dispatched
       /\ g.done = f.done /\ g.lease = f.lease /\ g.followers = f.followers \ {q}
       /\ g.gone = f.gone /\ g.blocks = f.blocks /\ g.newer = f.newer
       /\ \/ g.segment = f.segment
          \/ (g.segment = None /\ b.lease = f.segment /\ f.lease = None
              /\ \A p \in Requests \ {q} : c.bound[p] # b)
       /\ \A d \in Digests \ {b.flight} : a.flights[d] = c.flights[d]
       /\ a.bound[q] = None /\ \A p \in Requests \ {q} : a.bound[p] = c.bound[p]
       /\ a.leads = c.leads /\ a.need = c.need /\ a.pending = c.pending
       /\ a.admitted = c.admitted
  BY <1>3, <1>4, <1>5, <1>6, <1>7, <1>8, <1>10
<1> QED BY <1>9, <1>11 DEF f, b

\* The flights of c are still there in a, with their leaders, and the dispatched ones
\* at most gave up their segment.
Alike(c, a) ==
    \A d \in Digests : c.flights[d] # None =>
        /\ a.flights[d] # None /\ a.flights[d].leader = c.flights[d].leader
        /\ a.flights[d].dispatched = c.flights[d].dispatched
        /\ c.flights[d].dispatched => a.flights[d].segment \in {None, c.flights[d].segment}

\* The leaders of flights that stay as they are.
LEMMA LeadersKept ==
    ASSUME NEW c, Book(c), NEW a, Alike(c, a),
           a.leads = c.leads, a.need = c.need, a.pending = c.pending
    PROVE  LeadersOK(a) /\ AskedOK(a) /\ Steady(c, a, {})
<1>1. \A q \in Requests : c.leads[q] # None => c.leads[q] \in Digests
  BY ConnParts DEF Book
<1> QED BY <1>1 DEF Book, LeadersOK, AskedOK, Alike, Steady

\* A follower leaves (_remove_restore_flight_follower).
LEMMA RemoveBook ==
    ASSUME NEW c, Book(c), NEW q \in Requests
    PROVE  /\ Book(RemoveFollower(c, q)) /\ Steady(c, RemoveFollower(c, q), {})
           /\ RemoveFollower(c, q).leads = c.leads /\ RemoveFollower(c, q).need = c.need
           /\ RemoveFollower(c, q).bound[q] = None
<1>0. c \in Conns
  BY DEF Book
<1>1. CASE c.bound[q] = None
  <2>1. RemoveFollower(c, q) = c
    BY <1>1 DEF RemoveFollower
  <2> QED BY <1>1, <2>1, SteadySelf
<1>2. CASE c.bound[q] # None
  <2> DEFINE a == RemoveFollower(c, q)
             b == c.bound[q]
             f == c.flights[b.flight]
             g == a.flights[b.flight]
  <2>1. f # None
    BY <1>2 DEF Book, BoundOK
  <2>10. /\ a \in Conns
         /\ g \in FlightRecords /\ g # None
         /\ g.leader = f.leader /\ g.share = f.share /\ g.dispatched = f.dispatched
         /\ g.done = f.done /\ g.lease = f.lease /\ g.followers = f.followers \ {q}
         /\ g.gone = f.gone /\ g.blocks = f.blocks /\ g.newer = f.newer
         /\ \/ g.segment = f.segment
            \/ (g.segment = None /\ b.lease = f.segment /\ f.lease = None
                /\ \A p \in Requests \ {q} : c.bound[p] # b)
         /\ \A d \in Digests \ {b.flight} : a.flights[d] = c.flights[d]
         /\ a.bound[q] = None /\ \A p \in Requests \ {q} : a.bound[p] = c.bound[p]
         /\ a.leads = c.leads /\ a.need = c.need /\ a.pending = c.pending
         /\ a.admitted = c.admitted
    BY <1>0, <1>2, <2>1, RemoveIs
  <2>2. /\ a \in Conns
        /\ g \in FlightRecords /\ g # None
        /\ g.leader = f.leader /\ g.share = f.share /\ g.dispatched = f.dispatched
        /\ g.done = f.done /\ g.lease = f.lease /\ g.followers = f.followers \ {q}
        /\ \/ g.segment = f.segment
           \/ (g.segment = None /\ b.lease = f.segment /\ \A p \in Requests \ {q} : c.bound[p] # b)
        /\ \A d \in Digests \ {b.flight} : a.flights[d] = c.flights[d]
        /\ a.bound[q] = None /\ \A p \in Requests \ {q} : a.bound[p] = c.bound[p]
        /\ a.leads = c.leads /\ a.need = c.need /\ a.pending = c.pending
        /\ a.admitted = c.admitted
    BY <2>10
  <2>3. /\ b \in Bindings /\ b.flight \in Digests /\ f \in FlightRecords
    BY <1>0, <1>2, <2>1, ConnParts DEF Bindings
  <2> HIDE DEF a
  <2>4. /\ g.leader = f.leader /\ g.share = f.share /\ g.dispatched = f.dispatched
        /\ g.done = f.done /\ g.lease = f.lease /\ g.followers = f.followers \ {q}
    BY <2>2
  <2>5. FlightsOK(a)
    <3>1. FlightOK(b.flight, f)
      BY <2>1, <2>3 DEF Book, FlightsOK
    <3>2. FlightOK(b.flight, g)
      BY <2>2, <2>4, <3>1 DEF FlightOK, Optional
    <3> QED BY <2>2, <3>2 DEF Book, FlightsOK
  <2>6. Alike(c, a)
    BY <2>2, <2>4 DEF Alike
  <2>7. a.leads = c.leads /\ a.need = c.need /\ a.pending = c.pending
    BY <2>2
  <2>8. LeadersOK(a) /\ AskedOK(a) /\ Steady(c, a, {})
    BY <2>6, <2>7, LeadersKept
  <2>9. BoundOK(a)
    <3> SUFFICES ASSUME NEW p \in Requests, a.bound[p] # None
                 PROVE  /\ a.flights[a.bound[p].flight] # None
                        /\ p \in a.flights[a.bound[p].flight].followers
                        /\ a.bound[p].lease \in Candidates[p]
                        /\ ~a.flights[a.bound[p].flight].dispatched =>
                              a.bound[p].lease \in {a.bound[p].flight, a.flights[a.bound[p].flight].segment}
      BY DEF BoundOK
    <3>1. p # q /\ a.bound[p] = c.bound[p] /\ c.bound[p] \in Bindings
      BY <1>0, <2>2, ConnParts
    <3>2. c.bound[p].flight \in Digests
      BY <3>1 DEF Bindings
    <3>3. /\ c.flights[c.bound[p].flight] # None
          /\ p \in c.flights[c.bound[p].flight].followers
          /\ c.bound[p].lease \in Candidates[p]
          /\ ~c.flights[c.bound[p].flight].dispatched =>
                c.bound[p].lease \in {c.bound[p].flight, c.flights[c.bound[p].flight].segment}
      BY <3>1 DEF Book, BoundOK
    <3>4. CASE c.bound[p].flight # b.flight
      <4>1. a.flights[c.bound[p].flight] = c.flights[c.bound[p].flight]
        BY <2>2, <3>2, <3>4
      <4> QED BY <3>1, <3>3, <4>1
    <3>5. CASE c.bound[p].flight = b.flight
      <4>1. c.bound[p] # b => c.bound[p].lease # b.lease
        BY <2>3, <3>1, <3>5 DEF Bindings
      <4>2. ~f.dispatched => c.bound[p].lease \in {b.flight, g.segment}
        BY <2>2, <3>1, <3>3, <3>5, <4>1
      <4> QED BY <2>2, <2>4, <3>1, <3>3, <3>5, <4>2
    <3> QED BY <3>4, <3>5
  <2> QED BY <2>2, <2>5, <2>7, <2>8, <2>9 DEF Book, a
<1> QED BY <1>1, <1>2

\* The entries of a request are digests.
LEMMA CandidatesAreDigests ==
    ASSUME NEW q \in Requests
    PROVE  Candidates[q] \subseteq Digests
BY FlightConstants

\* What it changes that q follows the flight of d.
LEMMA FollowIs ==
    ASSUME NEW c \in Conns, NEW q \in Requests, NEW d \in Digests, NEW key \in Digests,
           c.flights[d] # None, NEW a, a = Follow(c, q, d, key)
    PROVE  /\ a \in Conns
           /\ a.flights[d] \in FlightRecords /\ a.flights[d] # None
           /\ a.flights[d] = [c.flights[d] EXCEPT !.followers = c.flights[d].followers \cup {q}]
           /\ \A e \in Digests \ {d} : a.flights[e] = c.flights[e]
           /\ a.bound[q] = [flight |-> d, lease |-> key]
           /\ \A p \in Requests \ {q} : a.bound[p] = c.bound[p]
           /\ a.leads = c.leads /\ a.need = c.need /\ a.pending = c.pending
           /\ a.admitted = c.admitted
<1> DEFINE f == c.flights[d]
           g == [f EXCEPT !.followers = f.followers \cup {q}]
           b == [flight |-> d, lease |-> key]
<1>0. /\ c.flights \in [Digests -> Optional(FlightRecords)]
      /\ c.bound \in [Requests -> Optional(Bindings)] /\ f \in FlightRecords
  BY ConnIs, ConnParts
<1>1. a = [c EXCEPT !.flights = Put(c.flights, d, g), !.bound = Put(c.bound, q, b)]
  BY DEF Follow
<1>2. g \in FlightRecords /\ g # None
  <2> HIDE DEF f
  <2>1. f.followers \cup {q} \in SUBSET Requests
    BY <1>0 DEF FlightRecords
  <2>2. g \in FlightRecords
    BY <1>0, <2>1 DEF FlightRecords
  <2> QED BY <2>2, DistinctValues
<1>3. b \in Optional(Bindings)
  BY DEF Bindings, Optional
<1> HIDE DEF f, g, b
<1>4. /\ Put(c.flights, d, g) \in [Digests -> Optional(FlightRecords)]
      /\ \A e \in Digests : Put(c.flights, d, g)[e] = IF e = d THEN g ELSE c.flights[e]
  <2>1. g \in Optional(FlightRecords)
    BY <1>2 DEF Optional
  <2> QED BY <1>0, <2>1 DEF Put
<1>5. /\ Put(c.bound, q, b) \in [Requests -> Optional(Bindings)]
      /\ \A p \in Requests : Put(c.bound, q, b)[p] = IF p = q THEN b ELSE c.bound[p]
  BY <1>0, <1>3 DEF Put
<1>6. a \in Conns
  BY <1>1, <1>4, <1>5 DEF Conns
<1>7. /\ a.flights = Put(c.flights, d, g) /\ a.bound = Put(c.bound, q, b)
      /\ a.leads = c.leads /\ a.need = c.need /\ a.pending = c.pending /\ a.admitted = c.admitted
  BY <1>1 DEF Conns
<1>8. a.flights[d] = g /\ a.bound[q] = b
  BY <1>4, <1>5, <1>7
<1>9. /\ \A e \in Digests \ {d} : a.flights[e] = c.flights[e]
      /\ \A p \in Requests \ {q} : a.bound[p] = c.bound[p]
  BY <1>4, <1>5, <1>7
<1> QED BY <1>2, <1>6, <1>7, <1>8, <1>9 DEF f, g, b

\* A new follower waits for an entry of its own that the flight publishes.
LEMMA FollowBook ==
    ASSUME NEW c, Book(c), NEW q \in Requests, NEW d \in Digests, NEW key \in Candidates[q],
           c.flights[d] # None,
           ~c.flights[d].dispatched => key \in {d, c.flights[d].segment}
    PROVE  /\ Book(Follow(c, q, d, key)) /\ Steady(c, Follow(c, q, d, key), {})
           /\ Follow(c, q, d, key).leads = c.leads /\ Follow(c, q, d, key).need = c.need
<1> DEFINE a == Follow(c, q, d, key)
           f == c.flights[d]
           g == a.flights[d]
<1>0. c \in Conns /\ key \in Digests
  BY CandidatesAreDigests DEF Book
<1>1. /\ a \in Conns
      /\ g \in FlightRecords /\ g # None
      /\ g = [f EXCEPT !.followers = f.followers \cup {q}]
      /\ \A e \in Digests \ {d} : a.flights[e] = c.flights[e]
      /\ a.bound[q] = [flight |-> d, lease |-> key]
      /\ \A p \in Requests \ {q} : a.bound[p] = c.bound[p]
      /\ a.leads = c.leads /\ a.need = c.need /\ a.pending = c.pending
      /\ a.admitted = c.admitted
  BY <1>0, FollowIs
<1>2. f \in FlightRecords
  BY <1>0, ConnParts
<1> HIDE DEF a
<1>3. /\ g.leader = f.leader /\ g.share = f.share /\ g.dispatched = f.dispatched
      /\ g.done = f.done /\ g.lease = f.lease /\ g.segment = f.segment
      /\ g.followers = f.followers \cup {q}
  <2> HIDE DEF f, g
  <2> QED BY <1>1, <1>2 DEF FlightRecords
<1>4. FlightsOK(a)
  <2>1. FlightOK(d, g)
    BY <1>3 DEF Book, FlightsOK, FlightOK
  <2> QED BY <1>1, <2>1 DEF Book, FlightsOK
<1>5. \A p \in Requests : /\ c.leads[p] # None => c.leads[p] \in Digests
                          /\ c.bound[p] # None => c.bound[p] \in Bindings
  BY <1>0, ConnParts
<1>6. \A e \in Digests : c.flights[e] # None =>
        /\ a.flights[e] # None /\ a.flights[e].leader = c.flights[e].leader
        /\ a.flights[e].dispatched = c.flights[e].dispatched
        /\ a.flights[e].segment = c.flights[e].segment
        /\ c.flights[e].followers \subseteq a.flights[e].followers
  BY <1>1, <1>3
<1>7. Alike(c, a)
  BY <1>6 DEF Alike
<1>8. LeadersOK(a) /\ AskedOK(a) /\ Steady(c, a, {})
  BY <1>1, <1>7, LeadersKept
<1>9. BoundOK(a)
  <2> SUFFICES ASSUME NEW p \in Requests, a.bound[p] # None
               PROVE  /\ a.flights[a.bound[p].flight] # None
                      /\ p \in a.flights[a.bound[p].flight].followers
                      /\ a.bound[p].lease \in Candidates[p]
                      /\ ~a.flights[a.bound[p].flight].dispatched =>
                            a.bound[p].lease \in {a.bound[p].flight, a.flights[a.bound[p].flight].segment}
    BY DEF BoundOK
  <2>1. CASE p = q
    <3>1. a.bound[p].flight = d /\ a.bound[p].lease = key /\ g # None
      BY <1>1, <2>1
    <3> QED BY <1>3, <2>1, <3>1
  <2>2. CASE p # q
    <3>1. a.bound[p] = c.bound[p] /\ a.bound[p].flight \in Digests
      BY <1>1, <1>5, <2>2 DEF Bindings
    <3> QED BY <1>6, <3>1 DEF Book, BoundOK
  <2> QED BY <2>1, <2>2
<1> QED BY <1>1, <1>4, <1>8, <1>9 DEF Book, a

\* The first half of JoinSegment: the flight of d gets the segment k.
Move(c, d, k) ==
    [c EXCEPT !.flights = Put(@, d, [c.flights[d] EXCEPT !.segment = k]),
              !.bound = [p \in Requests |->
                 IF c.bound[p] # None /\ c.bound[p].flight = d
                   THEN [flight |-> d, lease |-> k]
                 ELSE c.bound[p]]]

\* What Move changes.
LEMMA MoveIs ==
    ASSUME NEW c \in Conns, NEW d \in Digests, NEW k \in Digests, c.flights[d] # None,
           NEW a, a = Move(c, d, k)
    PROVE  /\ a \in Conns
           /\ a.flights[d] \in FlightRecords /\ a.flights[d] # None
           /\ a.flights[d] = [c.flights[d] EXCEPT !.segment = k]
           /\ \A e \in Digests \ {d} : a.flights[e] = c.flights[e]
           /\ \A p \in Requests : a.bound[p] = IF c.bound[p] # None /\ c.bound[p].flight = d
                                                 THEN [flight |-> d, lease |-> k] ELSE c.bound[p]
           /\ a.leads = c.leads /\ a.need = c.need /\ a.pending = c.pending
           /\ a.admitted = c.admitted
<1> DEFINE f == c.flights[d]
           g == [f EXCEPT !.segment = k]
           b == [flight |-> d, lease |-> k]
           B == [p \in Requests |-> IF c.bound[p] # None /\ c.bound[p].flight = d THEN b ELSE c.bound[p]]
<1>0. /\ c.flights \in [Digests -> Optional(FlightRecords)]
      /\ c.bound \in [Requests -> Optional(Bindings)] /\ f \in FlightRecords
  BY ConnIs, ConnParts
<1>1. a = [c EXCEPT !.flights = Put(c.flights, d, g), !.bound = B]
  BY DEF Move
<1>2. g \in FlightRecords /\ g # None
  <2> HIDE DEF f
  <2>2. g \in FlightRecords
    BY <1>0 DEF FlightRecords, Optional
  <2> QED BY <2>2, DistinctValues
<1>3. b \in Optional(Bindings)
  BY DEF Bindings, Optional
<1> HIDE DEF f, g, b
<1>4. /\ Put(c.flights, d, g) \in [Digests -> Optional(FlightRecords)]
      /\ \A e \in Digests : Put(c.flights, d, g)[e] = IF e = d THEN g ELSE c.flights[e]
  <2>1. g \in Optional(FlightRecords)
    BY <1>2 DEF Optional
  <2> QED BY <1>0, <2>1 DEF Put
<1>5. /\ B \in [Requests -> Optional(Bindings)]
      /\ \A p \in Requests : B[p] = IF c.bound[p] # None /\ c.bound[p].flight = d THEN b ELSE c.bound[p]
  BY <1>0, <1>3
<1> HIDE DEF B
<1>6. a \in Conns
  BY <1>1, <1>4, <1>5 DEF Conns
<1>7. /\ a.flights = Put(c.flights, d, g) /\ a.bound = B
      /\ a.leads = c.leads /\ a.need = c.need /\ a.pending = c.pending /\ a.admitted = c.admitted
  BY <1>1 DEF Conns
<1>8. a.flights[d] = g
  BY <1>4, <1>7
<1>9. \A e \in Digests \ {d} : a.flights[e] = c.flights[e]
  BY <1>4, <1>7
<1> QED BY <1>2, <1>5, <1>6, <1>7, <1>8, <1>9 DEF f, g, b

\* A segment of the share, and the followers that move to it.
LEMMA MoveBook ==
    ASSUME NEW c, Book(c), NEW d \in Digests, c.flights[d] # None, ~c.flights[d].dispatched,
           NEW k, k \in c.flights[d].share, c.flights[d].segment \in {None, k}
    PROVE  /\ Book(Move(c, d, k)) /\ Steady(c, Move(c, d, k), {})
           /\ Move(c, d, k).leads = c.leads /\ Move(c, d, k).need = c.need
           /\ Move(c, d, k).flights[d] # None
           /\ Move(c, d, k).flights[d].segment = k
<1> DEFINE a == Move(c, d, k)
           f == c.flights[d]
           g == a.flights[d]
<1>0. c \in Conns /\ f \in FlightRecords
  BY ConnParts DEF Book
<1>k. k \in Digests
  BY <1>0 DEF FlightRecords
<1>1. /\ a \in Conns
      /\ g \in FlightRecords /\ g # None
      /\ g = [f EXCEPT !.segment = k]
      /\ \A e \in Digests \ {d} : a.flights[e] = c.flights[e]
      /\ \A p \in Requests : a.bound[p] = IF c.bound[p] # None /\ c.bound[p].flight = d
                                            THEN [flight |-> d, lease |-> k] ELSE c.bound[p]
      /\ a.leads = c.leads /\ a.need = c.need /\ a.pending = c.pending
      /\ a.admitted = c.admitted
  BY <1>0, <1>k, MoveIs
<1> HIDE DEF a
<1>3. /\ g.leader = f.leader /\ g.share = f.share /\ g.dispatched = f.dispatched
      /\ g.done = f.done /\ g.lease = f.lease /\ g.segment = k
      /\ g.followers = f.followers
  <2> HIDE DEF f, g
  <2> QED BY <1>0, <1>1 DEF FlightRecords
<1>4. FlightOK(d, f)
  BY DEF Book, FlightsOK
<1>5. FlightsOK(a)
  <2>1. FlightOK(d, g)
    BY <1>3, <1>4 DEF FlightOK, Optional
  <2> QED BY <1>1, <2>1 DEF Book, FlightsOK
<1>6. Alike(c, a)
  BY <1>1, <1>3 DEF Alike
<1>7. /\ a.leads = c.leads /\ a.need = c.need /\ a.pending = c.pending
      /\ a.flights[d] # None /\ a.flights[d].segment = k
  BY <1>1, <1>3
<1>8. LeadersOK(a) /\ AskedOK(a) /\ Steady(c, a, {})
  BY <1>6, <1>7, LeadersKept
<1>9. BoundOK(a)
  <2> SUFFICES ASSUME NEW p \in Requests, a.bound[p] # None
               PROVE  /\ a.flights[a.bound[p].flight] # None
                      /\ p \in a.flights[a.bound[p].flight].followers
                      /\ a.bound[p].lease \in Candidates[p]
                      /\ ~a.flights[a.bound[p].flight].dispatched =>
                            a.bound[p].lease \in {a.bound[p].flight, a.flights[a.bound[p].flight].segment}
    BY DEF BoundOK
  <2>0. c.bound[p] # None /\ c.bound[p] \in Bindings
    <3>1. c.bound[p] # None
      BY <1>1
    <3> QED BY <1>0, <3>1, ConnParts
  <2>1. /\ c.flights[c.bound[p].flight] # None
        /\ p \in c.flights[c.bound[p].flight].followers
        /\ c.bound[p].lease \in Candidates[p]
        /\ ~c.flights[c.bound[p].flight].dispatched =>
             c.bound[p].lease \in {c.bound[p].flight, c.flights[c.bound[p].flight].segment}
    BY <2>0 DEF Book, BoundOK
  <2>2. c.bound[p].flight \in Digests /\ c.bound[p].lease \in Digests
    BY <2>0 DEF Bindings
  <2>3. CASE c.bound[p].flight = d
    <3>1. a.bound[p].flight = d /\ a.bound[p].lease = k
      BY <1>1, <2>0, <2>3
    <3>2. p \in f.followers /\ c.bound[p].lease \in {d, k}
      BY <2>1, <2>2, <2>3, FlightConstants
    <3>3. k \in Candidates[p]
      <4>1. CASE c.bound[p].lease = k
        BY <2>1, <4>1
      <4>2. CASE c.bound[p].lease = d
        <5>1. d \in Candidates[p] /\ d \in Candidates[f.leader] /\ k \in Shorter(f.leader, d)
          BY <1>4, <2>1, <4>2 DEF FlightOK
        <5>2. f.leader \in Requests
          BY <1>0 DEF FlightRecords
        <5> QED BY <5>1, <5>2, FlightConstants DEF Shorter
      <4> QED BY <3>2, <4>1, <4>2
    <3> QED BY <1>3, <1>7, <3>1, <3>2, <3>3
  <2>4. CASE c.bound[p].flight # d
    <3>1. a.bound[p] = c.bound[p]
      BY <1>1, <2>4
    <3>2. a.flights[c.bound[p].flight] = c.flights[c.bound[p].flight]
      BY <1>1, <2>2, <2>4
    <3> QED BY <2>1, <3>1, <3>2
  <2> QED BY <2>3, <2>4
<1> QED BY <1>1, <1>5, <1>7, <1>8, <1>9 DEF Book, a

\* q joins the flight of d at the segment k.
LEMMA JoinBook ==
    ASSUME NEW c, Book(c), NEW q \in Requests, NEW d \in Digests, c.flights[d] # None,
           ~c.flights[d].dispatched, NEW k \in Candidates[q], k \in c.flights[d].share,
           c.flights[d].segment \in {None, k}
    PROVE  /\ Book(JoinSegment(c, q, d, k)) /\ Steady(c, JoinSegment(c, q, d, k), {})
           /\ JoinSegment(c, q, d, k).leads = c.leads /\ JoinSegment(c, q, d, k).need = c.need
<1> DEFINE m == Move(c, d, k)
<1>1. JoinSegment(c, q, d, k) = Follow(m, q, d, k)
  BY DEF JoinSegment, Move
<1>2. /\ Book(m) /\ Steady(c, m, {}) /\ m.leads = c.leads /\ m.need = c.need
      /\ m.flights[d] # None /\ m.flights[d].segment = k
  BY MoveBook
<1> HIDE DEF m
<1>3. /\ Book(Follow(m, q, d, k)) /\ Steady(m, Follow(m, q, d, k), {})
      /\ Follow(m, q, d, k).leads = m.leads /\ Follow(m, q, d, k).need = m.need
  BY <1>2, FollowBook
<1>4. Steady(c, Follow(m, q, d, k), {})
  BY <1>2, <1>3, SteadyComposes
<1> QED BY <1>1, <1>2, <1>3, <1>4

\* A new flight.
LEMMA LeadBook ==
    ASSUME NEW c, Book(c), NEW q \in Requests, NEW d \in Candidates[q],
           c.flights[d] = None, c.leads[q] = None
    PROVE  /\ Book(Lead(c, q, d)) /\ Steady(c, Lead(c, q, d), {q})
           /\ Lead(c, q, d).leads[q] = d /\ Lead(c, q, d).need[q] = d
<1> DEFINE a == Lead(c, q, d)
           S == {e \in Candidates[q] \cap quorum : Span[e] < Span[d]}
           g == NewFlight(q, S)
<1>0. /\ c \in Conns /\ d \in Digests /\ d # None
      /\ c.flights \in [Digests -> Optional(FlightRecords)]
      /\ c.leads \in [Requests -> Optional(Digests)] /\ c.need \in [Requests -> Optional(Digests)]
  BY CandidatesAreDigests, ConnIs, FlightConstants DEF Book
<1>1. a = [c EXCEPT !.flights = Put(c.flights, d, g), !.leads = Put(c.leads, q, d),
                    !.need = Put(c.need, q, d)]
  BY DEF Lead
<1>2. S \subseteq Shorter(q, d) /\ S \subseteq Digests
  BY CandidatesAreDigests DEF Shorter
<1> HIDE DEF S
<1>3. /\ g \in FlightRecords /\ g # None
      /\ g.leader = q /\ g.share = S /\ g.segment = None /\ g.dispatched = FALSE
      /\ g.done = FALSE /\ g.lease = None
  <2>1. g \in FlightRecords
    BY <1>2 DEF NewFlight, FlightRecords, Optional
  <2>2. /\ g.leader = q /\ g.share = S /\ g.segment = None /\ g.dispatched = FALSE
        /\ g.done = FALSE /\ g.lease = None
    BY DEF NewFlight
  <2> QED BY <2>1, <2>2, DistinctValues
<1> HIDE DEF g
<1>4. /\ Put(c.flights, d, g) \in [Digests -> Optional(FlightRecords)]
      /\ \A e \in Digests : Put(c.flights, d, g)[e] = IF e = d THEN g ELSE c.flights[e]
  <2>1. g \in Optional(FlightRecords)
    BY <1>3 DEF Optional
  <2> QED BY <1>0, <2>1 DEF Put
<1>5. /\ Put(c.leads, q, d) \in [Requests -> Optional(Digests)]
      /\ \A p \in Requests : Put(c.leads, q, d)[p] = IF p = q THEN d ELSE c.leads[p]
      /\ Put(c.need, q, d) \in [Requests -> Optional(Digests)]
      /\ \A p \in Requests : Put(c.need, q, d)[p] = IF p = q THEN d ELSE c.need[p]
  <2>1. d \in Optional(Digests)
    BY <1>0 DEF Optional
  <2> QED BY <1>0, <2>1 DEF Put
<1>6. a \in Conns
  BY <1>0, <1>1, <1>4, <1>5 DEF Conns
<1>7. /\ a.flights = Put(c.flights, d, g) /\ a.leads = Put(c.leads, q, d)
      /\ a.need = Put(c.need, q, d)
      /\ a.bound = c.bound /\ a.pending = c.pending /\ a.admitted = c.admitted
  BY <1>0, <1>1 DEF Conns
<1> HIDE DEF a
<1>8. /\ a.flights[d] = g /\ \A e \in Digests \ {d} : a.flights[e] = c.flights[e]
      /\ a.leads[q] = d /\ \A p \in Requests \ {q} : a.leads[p] = c.leads[p]
      /\ a.need[q] = d /\ \A p \in Requests \ {q} : a.need[p] = c.need[p]
  BY <1>0, <1>4, <1>5, <1>7
<1>9. \A p \in Requests : c.leads[p] # None => c.leads[p] \in Digests \ {d}
  BY <1>0, ConnParts DEF Book, LeadersOK
<1>10. \A p \in Requests : c.bound[p] # None => c.bound[p].flight \in Digests \ {d}
  BY <1>0, ConnParts DEF Book, BoundOK, Bindings
<1>11. FlightsOK(a)
  <2>1. FlightOK(d, g)
    BY <1>2, <1>3 DEF FlightOK, Optional
  <2> QED BY <1>8, <2>1 DEF Book, FlightsOK
<1>12. LeadersOK(a)
  BY <1>3, <1>7, <1>8, <1>9 DEF Book, LeadersOK
<1>13. AskedOK(a)
  BY <1>7, <1>8 DEF Book, AskedOK, Optional
<1>14. BoundOK(a)
  BY <1>7, <1>8, <1>10 DEF Book, BoundOK
<1>15. Steady(c, a, {q})
  BY <1>7, <1>8, <1>9 DEF Steady
<1> QED BY <1>6, <1>8, <1>11, <1>12, <1>13, <1>14, <1>15 DEF Book, a

\* q gives up its wish to restore, and the flight of d.
GiveUp(c, q, d) == Retire([c EXCEPT !.need = Put(@, q, None)], d)

\* What q gives up is the flight it leads, or not one it still waits for.
LEMMA GiveUpBook ==
    ASSUME NEW c, Book(c), NEW q \in Requests, NEW d \in Digests, NEW a, a = GiveUp(c, q, d),
           c.leads[q] # None => c.leads[q] = d \/ c.flights[c.leads[q]].dispatched
                                 \/ c.leads[q] = c.pending[q]
    PROVE  /\ Book(a) /\ Steady(c, a, {})
           /\ \A p \in Requests : a.leads[p] \in {None, c.leads[p]}
           /\ c.leads[q] = d => a.leads[q] = None
           /\ c.bound[q] = None => a.bound[q] = None
<1> DEFINE e == [c EXCEPT !.need = Put(c.need, q, None)]
<1>0. c \in Conns /\ c.need \in [Requests -> Optional(Digests)]
  BY ConnIs DEF Book
<1>1. /\ Put(c.need, q, None) \in [Requests -> Optional(Digests)]
      /\ \A p \in Requests : Put(c.need, q, None)[p] = IF p = q THEN None ELSE c.need[p]
  BY <1>0 DEF Put, Optional
<1>2. /\ e \in Conns
      /\ e.flights = c.flights /\ e.leads = c.leads /\ e.bound = c.bound
      /\ e.need = Put(c.need, q, None) /\ e.pending = c.pending /\ e.admitted = c.admitted
  BY <1>0, <1>1 DEF Conns
<1>3. a = RetireAll(e, {d})
  BY DEF GiveUp, Retire
<1> HIDE DEF e
<1>4. /\ a \in Conns
      /\ \A x \in Digests : a.flights[x] = IF x \in {d} THEN None ELSE e.flights[x]
      /\ \A p \in Requests : a.leads[p] =
           IF \E x \in Digests : x \in {d} /\ e.flights[x] # None /\ e.flights[x].leader = p THEN None ELSE e.leads[p]
      /\ \A p \in Requests : a.bound[p] =
           IF \E x \in Digests : x \in {d} /\ e.flights[x] # None /\ p \in e.flights[x].followers THEN None ELSE e.bound[p]
      /\ a.need = e.need /\ a.pending = e.pending /\ a.admitted = e.admitted
  BY <1>2, <1>3, RetireIs
<1>5. /\ \A x \in Digests : a.flights[x] = IF x = d THEN None ELSE c.flights[x]
      /\ \A p \in Requests : a.leads[p] =
           IF c.flights[d] # None /\ c.flights[d].leader = p THEN None ELSE c.leads[p]
      /\ \A p \in Requests : a.bound[p] =
           IF c.flights[d] # None /\ p \in c.flights[d].followers THEN None ELSE c.bound[p]
      /\ \A p \in Requests : a.need[p] = IF p = q THEN None ELSE c.need[p]
      /\ a.pending = c.pending
  BY <1>1, <1>2, <1>4
<1>6. \A p \in Requests : /\ c.leads[p] # None => c.leads[p] \in Digests
                          /\ c.bound[p] # None => c.bound[p].flight \in Digests
  BY <1>0, ConnParts DEF Bindings
<1>7. \A p \in Requests : a.leads[p] # None => a.leads[p] = c.leads[p] /\ a.leads[p] \in Digests \ {d}
                            /\ a.flights[a.leads[p]] = c.flights[a.leads[p]]
  BY <1>5, <1>6 DEF Book, LeadersOK
<1>8. \A p \in Requests : a.bound[p] # None => a.bound[p] = c.bound[p]
                            /\ a.flights[a.bound[p].flight] = c.flights[a.bound[p].flight]
  BY <1>5, <1>6 DEF Book, BoundOK
<1>9. FlightsOK(a)
  BY <1>5 DEF Book, FlightsOK
<1>10. LeadersOK(a)
  BY <1>5, <1>7 DEF Book, LeadersOK
<1>11. AskedOK(a)
  BY <1>5 DEF Book, AskedOK, Optional
<1>12. BoundOK(a)
  BY <1>8 DEF Book, BoundOK
<1>13. Steady(c, a, {})
  BY <1>5, <1>7 DEF Steady
<1>14. /\ \A p \in Requests : a.leads[p] \in {None, c.leads[p]}
       /\ c.bound[q] = None => a.bound[q] = None
  BY <1>5
<1>15. c.leads[q] = d => a.leads[q] = None
  BY <1>7
<1> QED BY <1>4, <1>9, <1>10, <1>11, <1>12, <1>13, <1>14, <1>15 DEF Book

\* update_state_after_alloc without external tokens.
LEMMA AllocatedNoneBook ==
    ASSUME NEW c, Book(c), NEW q \in Requests
    PROVE  Book(AllocatedNone(c, q)) /\ Steady(c, AllocatedNone(c, q), {})
<1>1. CASE c.need[q] = None
  <2>1. AllocatedNone(c, q) = c
    BY <1>1 DEF AllocatedNone
  <2> QED BY <2>1, SteadySelf
<1>2. CASE c.need[q] # None
  <2>1. AllocatedNone(c, q) = GiveUp(c, q, c.need[q])
    BY <1>2 DEF AllocatedNone, GiveUp
  <2>2. c.need[q] \in Digests
    BY <1>2, ConnParts DEF Book
  <2>3. c.leads[q] # None => c.leads[q] = c.need[q] \/ c.flights[c.leads[q]].dispatched
                                 \/ c.leads[q] = c.pending[q]
    BY DEF Book, LeadersOK
  <2> QED BY <2>1, <2>2, <2>3, GiveUpBook
<1> QED BY <1>1, <1>2

\* update_state_after_alloc: what q asked for becomes pending.
LEMMA AllocatedBook ==
    ASSUME NEW c, Book(c), NEW q \in Requests, c.pending[q] = None, c.need[q] # None,
           NEW a, a = Allocated(c, q)
    PROVE  /\ Book(a)
           /\ a.flights = c.flights /\ a.leads = c.leads
           /\ a.pending = [c.pending EXCEPT ![q] = c.need[q]]
<1>0. c \in Conns /\ c.need \in [Requests -> Optional(Digests)] /\ c.pending \in [Requests -> Optional(Digests)]
  BY ConnIs DEF Book
<1>1. /\ Put(c.need, q, None) \in [Requests -> Optional(Digests)]
      /\ \A p \in Requests : Put(c.need, q, None)[p] = IF p = q THEN None ELSE c.need[p]
      /\ Put(c.pending, q, c.need[q]) \in [Requests -> Optional(Digests)]
      /\ \A p \in Requests : Put(c.pending, q, c.need[q])[p] = IF p = q THEN c.need[q] ELSE c.pending[p]
  BY <1>0 DEF Put, Optional
<1>2. a = [c EXCEPT !.need = Put(c.need, q, None), !.pending = Put(c.pending, q, c.need[q])]
  BY DEF Allocated
<1>3. a \in Conns
  BY <1>0, <1>1, <1>2 DEF Conns
<1>4. /\ a.flights = c.flights /\ a.leads = c.leads /\ a.bound = c.bound
      /\ a.need = Put(c.need, q, None) /\ a.pending = Put(c.pending, q, c.need[q])
  BY <1>0, <1>2 DEF Conns
<1>5. a.pending = [c.pending EXCEPT ![q] = c.need[q]]
  BY <1>0, <1>4 DEF Put
<1>6. FlightsOK(a) /\ BoundOK(a)
  BY <1>4 DEF Book, FlightsOK, BoundOK
<1>7. LeadersOK(a)
  BY <1>1, <1>4 DEF Book, LeadersOK
<1>8. AskedOK(a)
  BY <1>1, <1>4 DEF Book, AskedOK, Optional
<1> QED BY <1>3, <1>4, <1>5, <1>6, <1>7, <1>8 DEF Book

\* The flight of d changes without its leader, its share and whether it was dispatched.
LEMMA PutFlightIs ==
    ASSUME NEW c, Book(c), NEW d \in Digests, c.flights[d] # None,
           NEW g \in FlightRecords, FlightOK(d, g), g.leader = c.flights[d].leader,
           g.dispatched = c.flights[d].dispatched, g.segment = c.flights[d].segment,
           g.followers = c.flights[d].followers,
           NEW a \in Conns, a.flights[d] = g,
           \A e \in Digests \ {d} : a.flights[e] = c.flights[e],
           a.leads = c.leads, a.need = c.need, a.pending = c.pending, a.bound = c.bound
    PROVE  /\ Book(a) /\ Steady(c, a, {})
<1>0. c \in Conns /\ c.flights \in [Digests -> Optional(FlightRecords)]
  BY ConnIs DEF Book
<1>5. g # None
  BY DistinctValues
<1>6. FlightsOK(a)
  BY DEF Book, FlightsOK
<1>7. Alike(c, a)
  BY <1>5 DEF Alike
<1>8. LeadersOK(a) /\ AskedOK(a) /\ Steady(c, a, {})
  BY <1>7, LeadersKept
<1>9. BoundOK(a)
  <2>1. \A p \in Requests : c.bound[p] # None => c.bound[p].flight \in Digests
    BY <1>0, ConnParts DEF Bindings
  <2>2. \A e \in Digests : c.flights[e] # None =>
          /\ a.flights[e] # None /\ a.flights[e].followers = c.flights[e].followers
          /\ a.flights[e].dispatched = c.flights[e].dispatched
          /\ a.flights[e].segment = c.flights[e].segment
    BY <1>5
  <2> QED BY <2>1, <2>2 DEF Book, BoundOK
<1> QED BY <1>6, <1>8, <1>9 DEF Book

\* A leader leaves: only a published or a dispatched flight outlives it.
LEMMA LeaderLeavesBook ==
    ASSUME NEW c, Book(c), NEW q \in Requests, NEW a, a = LeaderLeaves(c, q)
    PROVE  /\ Book(a) /\ Steady(c, a, {})
           /\ a.leads[q] # None => a.flights[a.leads[q]].dispatched
<1>0. c \in Conns /\ c.leads \in [Requests -> Optional(Digests)]
  BY ConnIs DEF Book
<1>1. CASE c.leads[q] = None
  <2>1. a = c
    BY <1>1 DEF LeaderLeaves
  <2> QED BY <1>1, <2>1, SteadySelf
<1>2. CASE c.leads[q] # None
  <2> DEFINE d == c.leads[q]
             f == c.flights[d]
             g == [f EXCEPT !.gone = TRUE]
             e == [c EXCEPT !.flights = Put(c.flights, d, g)]
  <2>1. d \in Digests /\ f # None /\ f \in FlightRecords /\ FlightOK(d, f)
    BY <1>0, <1>2, ConnParts DEF Book, LeadersOK, FlightsOK
  <2>2. /\ g \in FlightRecords /\ g.leader = f.leader /\ g.share = f.share
        /\ g.dispatched = f.dispatched /\ g.done = f.done /\ g.lease = f.lease
        /\ g.segment = f.segment /\ g.followers = f.followers
    <3> HIDE DEF f
    <3> QED BY <2>1 DEF FlightRecords
  <2>3. FlightOK(d, g)
    BY <2>1, <2>2 DEF FlightOK
  <2>4. /\ Book(e) /\ Steady(c, e, {}) /\ e.flights[d] = g
        /\ e.leads = c.leads /\ e.need = c.need /\ e.pending = c.pending /\ e.bound = c.bound
    <3>0. c.flights \in [Digests -> Optional(FlightRecords)]
      BY <1>0, ConnIs
    <3> HIDE DEF g, d, f
    <3>1. /\ Put(c.flights, d, g) \in [Digests -> Optional(FlightRecords)]
          /\ \A x \in Digests : Put(c.flights, d, g)[x] = IF x = d THEN g ELSE c.flights[x]
      <4>1. g \in Optional(FlightRecords)
        BY <2>2 DEF Optional
      <4> QED BY <3>0, <2>1, <4>1 DEF Put
    <3>2. e \in Conns
      BY <1>0, <3>1 DEF Conns
    <3>3. /\ e.flights = Put(c.flights, d, g) /\ e.leads = c.leads /\ e.need = c.need
          /\ e.pending = c.pending /\ e.bound = c.bound
      BY <1>0 DEF Conns
    <3> HIDE DEF e
    <3>4. e.flights[d] = g /\ \A x \in Digests \ {d} : e.flights[x] = c.flights[x]
      BY <2>1, <3>1, <3>3
    <3>5. /\ c.flights[d] # None /\ g.leader = c.flights[d].leader
          /\ g.dispatched = c.flights[d].dispatched
          /\ g.segment = c.flights[d].segment /\ g.followers = c.flights[d].followers
      BY <2>1, <2>2 DEF f
    <3>6. Book(e) /\ Steady(c, e, {})
      BY <2>1, <2>2, <2>3, <3>2, <3>3, <3>4, <3>5, PutFlightIs
    <3> QED BY <3>3, <3>4, <3>6
  <2>5. CASE f.lease # None
    <3>1. a = [e EXCEPT !.leads = Put(c.leads, q, None)]
      <4>1. a = [c EXCEPT !.leads = Put(c.leads, q, None), !.flights = Put(c.flights, d, g)]
        BY <1>2, <2>5 DEF LeaderLeaves
      <4> HIDE DEF g, d
      <4> QED BY <1>0, <4>1 DEF Conns
    <3> HIDE DEF e, g, f
    <3>2. /\ Put(c.leads, q, None) \in [Requests -> Optional(Digests)]
          /\ \A p \in Requests : Put(c.leads, q, None)[p] = IF p = q THEN None ELSE c.leads[p]
      BY <1>0 DEF Put, Optional
    <3>3. e \in Conns
      BY <2>4 DEF Book
    <3>4. a \in Conns
      BY <3>1, <3>2, <3>3 DEF Conns
    <3>5. /\ a.flights = e.flights /\ a.need = e.need /\ a.pending = e.pending
          /\ a.bound = e.bound /\ a.leads = Put(c.leads, q, None)
      BY <3>1, <3>3 DEF Conns
    <3>6. \A p \in Requests : a.leads[p] = IF p = q THEN None ELSE e.leads[p]
      BY <2>4, <3>2, <3>5
    <3>7. FlightsOK(a) /\ BoundOK(a) /\ AskedOK(a)
      BY <2>4, <3>5 DEF Book, FlightsOK, BoundOK, AskedOK
    <3>8. LeadersOK(a)
      BY <2>4, <3>5, <3>6 DEF Book, LeadersOK
    <3>9. Steady(e, a, {})
      BY <3>5, <3>6 DEF Steady
    <3>10. Steady(c, a, {})
      BY <2>4, <3>9, SteadyComposes
    <3>11. a.leads[q] = None
      BY <3>6
    <3> QED BY <3>4, <3>7, <3>8, <3>10, <3>11 DEF Book
  <2>6. CASE f.lease = None /\ f.dispatched /\ ~f.done
    <3>1. a = e
      BY <1>2, <2>6 DEF LeaderLeaves
    <3>2. a.flights[a.leads[q]].dispatched
      BY <2>2, <2>4, <2>6, <3>1
    <3> QED BY <2>4, <3>1, <3>2
  <2>7. CASE f.lease = None /\ ~(f.dispatched /\ ~f.done)
    <3>1. a = RetireAll(c, {d})
      BY <1>2, <2>7 DEF LeaderLeaves, Retire
    <3>2. a.leads[q] = None
      BY <1>2, <3>1, RetireBook
    <3> QED BY <3>1, <3>2, RetireBook
  <2> QED BY <2>5, <2>6, <2>7
<1> QED BY <1>1, <1>2

\* request_finished: q leaves as a leader and as a follower.
LEMMA RequestFinishedBook ==
    ASSUME NEW c, Book(c), NEW q \in Requests, c.pending[q] = None,
           NEW a, a = RequestFinished(c, q)
    PROVE  Book(a) /\ Steady(c, a, {})
<1> DEFINE m == RemoveFollower(c, q)
           e == LeaderLeaves(m, q)
<1>1. Book(m) /\ Steady(c, m, {})
  BY RemoveBook
<1>2. /\ Book(e) /\ Steady(m, e, {})
      /\ e.leads[q] # None => e.flights[e.leads[q]].dispatched
  <2> HIDE DEF m
  <2> QED BY <1>1, LeaderLeavesBook
<1>3. Steady(c, e, {})
  BY <1>1, <1>2, SteadyComposes
<1>4. a = [e EXCEPT !.need = Put(e.need, q, None), !.pending = Put(e.pending, q, None),
                    !.admitted = Put(e.admitted, q, None)]
  BY DEF RequestFinished
<1> HIDE DEF e
<1>5. /\ e \in Conns /\ e.need \in [Requests -> Optional(Digests)]
      /\ e.pending \in [Requests -> Optional(Digests)]
      /\ e.admitted \in [Requests -> Optional(Admissions)]
  BY <1>2, ConnIs DEF Book
<1>6. /\ Put(e.need, q, None) \in [Requests -> Optional(Digests)]
      /\ \A p \in Requests : Put(e.need, q, None)[p] = IF p = q THEN None ELSE e.need[p]
      /\ Put(e.pending, q, None) = e.pending
      /\ Put(e.admitted, q, None) \in [Requests -> Optional(Admissions)]
  <2>1. e.pending[q] = None
    BY <1>3 DEF Steady
  <2> QED BY <1>5, <2>1 DEF Put, Optional
<1>7. a \in Conns
  BY <1>4, <1>5, <1>6 DEF Conns
<1>8. /\ a.flights = e.flights /\ a.leads = e.leads /\ a.bound = e.bound
      /\ a.need = Put(e.need, q, None) /\ a.pending = e.pending
  BY <1>4, <1>5, <1>6 DEF Conns
<1>9. FlightsOK(a) /\ BoundOK(a)
  BY <1>2, <1>8 DEF Book, FlightsOK, BoundOK
<1>10. AskedOK(a)
  BY <1>2, <1>6, <1>8 DEF Book, AskedOK, Optional
<1>11. LeadersOK(a)
  BY <1>2, <1>6, <1>8 DEF Book, LeadersOK
<1>12. Steady(e, a, {})
  BY <1>8 DEF Steady
<1> QED BY <1>3, <1>7, <1>9, <1>10, <1>11, <1>12, SteadyComposes DEF Book

\* A lease that q could not attach.
LEMMA RejectBook ==
    ASSUME NEW c, Book(c), NEW q \in Requests, NEW key, NEW a, a = Reject(c, q, key)
    PROVE  Book(a) /\ Steady(c, a, {})
<1> DEFINE m == IF c.bound[q] # None /\ c.bound[q].lease = key THEN RemoveFollower(c, q) ELSE c
<1>1. Book(m) /\ Steady(c, m, {})
  BY RemoveBook, SteadySelf
<1>2. a = IF m.leads[q] = None THEN m ELSE RetireAll(m, {m.leads[q]})
  BY DEF Reject, Retire
<1> HIDE DEF m
<1>3. Book(a) /\ Steady(m, a, {})
  BY <1>1, <1>2, RetireBook, SteadySelf
<1> QED BY <1>1, <1>3, SteadyComposes

\* Flights change in place, without their leader, followers, segment and dispatch.
LEMMA ChangeBook ==
    ASSUME NEW c, Book(c), NEW a \in Conns,
           \A d \in Digests : c.flights[d] = None => a.flights[d] = None,
           \A d \in Digests : c.flights[d] # None =>
             /\ a.flights[d] # None /\ FlightOK(d, a.flights[d])
             /\ a.flights[d].leader = c.flights[d].leader
             /\ a.flights[d].followers = c.flights[d].followers
             /\ a.flights[d].dispatched = c.flights[d].dispatched
             /\ a.flights[d].segment = c.flights[d].segment,
           a.leads = c.leads, a.need = c.need, a.pending = c.pending, a.bound = c.bound
    PROVE  Book(a) /\ Steady(c, a, {})
<1>0. c \in Conns
  BY DEF Book
<1>1. FlightsOK(a)
  BY DEF FlightsOK
<1>2. Alike(c, a)
  BY DEF Alike
<1>3. LeadersOK(a) /\ AskedOK(a) /\ Steady(c, a, {})
  BY <1>2, LeadersKept
<1>4. BoundOK(a)
  <2>1. \A p \in Requests : c.bound[p] # None => c.bound[p].flight \in Digests
    BY <1>0, ConnParts DEF Bindings
  <2> QED BY <2>1 DEF Book, BoundOK
<1> QED BY <1>1, <1>3, <1>4 DEF Book

\* One flight ages.
LEMMA AgeBook ==
    ASSUME NEW c, Book(c), NEW d \in Digests, c.flights[d] # None,
           NEW a, a = [c EXCEPT !.flights[d] = [@ EXCEPT !.aged = TRUE]]
    PROVE  Book(a) /\ Steady(c, a, {})
<1> DEFINE f == c.flights[d]
           g == [f EXCEPT !.aged = TRUE]
           F == [c.flights EXCEPT ![d] = g]
<1>0. c \in Conns /\ c.flights \in [Digests -> Optional(FlightRecords)] /\ f \in FlightRecords
  BY ConnIs, ConnParts DEF Book
<1>1. a = [c EXCEPT !.flights = F]
  OBVIOUS
<1>2. /\ g \in FlightRecords /\ g.leader = f.leader /\ g.share = f.share
      /\ g.dispatched = f.dispatched /\ g.done = f.done /\ g.lease = f.lease
      /\ g.segment = f.segment /\ g.followers = f.followers
  <2> HIDE DEF f
  <2> QED BY <1>0 DEF FlightRecords
<1>3. FlightOK(d, f)
  BY DEF Book, FlightsOK
<1>4. FlightOK(d, g) /\ g # None
  BY <1>2, <1>3, DistinctValues DEF FlightOK
<1> HIDE DEF g, f
<1>5. /\ F \in [Digests -> Optional(FlightRecords)]
      /\ \A x \in Digests : F[x] = IF x = d THEN g ELSE c.flights[x]
  BY <1>0, <1>2 DEF Optional
<1> HIDE DEF F
<1>6. a \in Conns
  BY <1>0, <1>1, <1>5 DEF Conns
<1>7. a.flights = F /\ a.leads = c.leads /\ a.need = c.need /\ a.pending = c.pending /\ a.bound = c.bound
  BY <1>0, <1>1 DEF Conns
<1>8. \A x \in Digests : c.flights[x] = None => a.flights[x] = None
  BY <1>5, <1>7 DEF f
<1>9. \A x \in Digests : c.flights[x] # None =>
        /\ a.flights[x] # None /\ FlightOK(x, a.flights[x])
        /\ a.flights[x].leader = c.flights[x].leader
        /\ a.flights[x].followers = c.flights[x].followers
        /\ a.flights[x].dispatched = c.flights[x].dispatched
        /\ a.flights[x].segment = c.flights[x].segment
  <2> SUFFICES ASSUME NEW x \in Digests, c.flights[x] # None
               PROVE  /\ a.flights[x] # None /\ FlightOK(x, a.flights[x])
                      /\ a.flights[x].leader = c.flights[x].leader
                      /\ a.flights[x].followers = c.flights[x].followers
                      /\ a.flights[x].dispatched = c.flights[x].dispatched
                      /\ a.flights[x].segment = c.flights[x].segment
    OBVIOUS
  <2>1. CASE x = d
    BY <1>2, <1>4, <1>5, <1>7, <2>1 DEF f
  <2>2. CASE x # d
    <3>1. a.flights[x] = c.flights[x]
      BY <1>5, <1>7, <2>2
    <3> QED BY <3>1 DEF Book, FlightsOK
  <2> QED BY <2>1, <2>2
<1> QED BY <1>6, <1>7, <1>8, <1>9, ChangeBook

\* Another map of flights, of the same type.
LEMMA FlightsChange ==
    ASSUME NEW c \in Conns, NEW F \in [Digests -> Optional(FlightRecords)],
           NEW a, a = [c EXCEPT !.flights = F]
    PROVE  /\ a \in Conns /\ a.flights = F /\ a.leads = c.leads /\ a.need = c.need
           /\ a.pending = c.pending /\ a.bound = c.bound /\ a.admitted = c.admitted
<1>1. a \in Conns
  BY DEF Conns
<1>2. /\ a.flights = F /\ a.leads = c.leads /\ a.need = c.need
      /\ a.pending = c.pending /\ a.bound = c.bound /\ a.admitted = c.admitted
  BY DEF Conns
<1> QED BY <1>1, <1>2

\* A finished flight gets the newest lease.
LEMMA RenewBook ==
    ASSUME NEW c, Book(c), NEW d \in Digests, c.flights[d] # None, c.flights[d].done,
           NEW key \in Digests, NEW a, a = Renew(c, d, key)
    PROVE  Book(a) /\ Steady(c, a, {})
<1> DEFINE f == c.flights
           N(e) == {x \in Published(c) : x = d \/ x \in f[e].newer} \cup {d}
           g == [f[d] EXCEPT !.lease = key, !.newer = {}, !.aged = FALSE]
           h(e) == [f[e] EXCEPT !.newer = N(e)]
           F == [e \in Digests |-> IF e = d THEN g ELSE IF e \in Published(c) THEN h(e) ELSE f[e]]
<1>0. c \in Conns /\ f \in [Digests -> Optional(FlightRecords)] /\ f[d] \in FlightRecords
  BY ConnIs, ConnParts DEF Book
<1>1. a = [c EXCEPT !.flights = F]
  BY DEF Renew
<1>2. FlightOK(d, f[d])
  BY DEF Book, FlightsOK
<1>3. /\ g \in FlightRecords /\ g.leader = f[d].leader /\ g.share = f[d].share
      /\ g.dispatched = f[d].dispatched /\ g.done = f[d].done /\ g.lease = key
      /\ g.segment = f[d].segment /\ g.followers = f[d].followers
  <2> HIDE DEF f
  <2> QED BY <1>0 DEF FlightRecords, Optional
<1>4. FlightOK(d, g) /\ g # None
  BY <1>2, <1>3, DistinctValues DEF FlightOK
<1>5. ASSUME NEW e \in Digests, f[e] # None
      PROVE  /\ h(e) \in FlightRecords /\ h(e) # None /\ h(e).leader = f[e].leader
             /\ h(e).dispatched = f[e].dispatched
             /\ h(e).segment = f[e].segment /\ h(e).followers = f[e].followers
             /\ FlightOK(e, h(e))
  <2>0. f[e] \in FlightRecords /\ FlightOK(e, f[e])
    BY <1>0, <1>5, ConnParts DEF Book, FlightsOK
  <2>1. N(e) \in SUBSET Digests
    BY DEF Published, Live
  <2>2. /\ h(e) \in FlightRecords /\ h(e).leader = f[e].leader
        /\ h(e).dispatched = f[e].dispatched /\ h(e).done = f[e].done /\ h(e).lease = f[e].lease
        /\ h(e).segment = f[e].segment /\ h(e).followers = f[e].followers
        /\ h(e).share = f[e].share
    <3> HIDE DEF f, N
    <3> QED BY <2>0, <2>1 DEF FlightRecords
  <2>3. FlightOK(e, h(e)) /\ h(e) # None
    <3> HIDE DEF h, f
    <3> QED BY <2>0, <2>2, DistinctValues DEF FlightOK
  <2> QED BY <2>2, <2>3
<1>6. \A e \in Published(c) : f[e] # None /\ e \in Digests
  BY DEF Published, Live
<1>7. F \in [Digests -> Optional(FlightRecords)]
  <2> SUFFICES ASSUME NEW e \in Digests
               PROVE  (IF e = d THEN g ELSE IF e \in Published(c) THEN h(e) ELSE f[e])
                        \in Optional(FlightRecords)
    OBVIOUS
  <2> HIDE DEF f, g, h
  <2> QED BY <1>0, <1>3, <1>5, <1>6 DEF Optional
<1>8. \A e \in Digests : F[e] = IF e = d THEN g ELSE IF e \in Published(c) THEN h(e) ELSE f[e]
  OBVIOUS
<1> HIDE DEF F
<1>9. /\ a \in Conns /\ a.flights = F /\ a.leads = c.leads /\ a.need = c.need
      /\ a.pending = c.pending /\ a.bound = c.bound
  BY <1>0, <1>1, <1>7, FlightsChange
<1> HIDE DEF g, h
<1>10. \A e \in Digests : c.flights[e] = None => a.flights[e] = None
  BY <1>6, <1>8, <1>9
<1>11. \A e \in Digests : c.flights[e] # None =>
        /\ a.flights[e] # None /\ FlightOK(e, a.flights[e])
        /\ a.flights[e].leader = c.flights[e].leader
        /\ a.flights[e].followers = c.flights[e].followers
        /\ a.flights[e].dispatched = c.flights[e].dispatched
        /\ a.flights[e].segment = c.flights[e].segment
  <2> SUFFICES ASSUME NEW e \in Digests, c.flights[e] # None
               PROVE  /\ a.flights[e] # None /\ FlightOK(e, a.flights[e])
                      /\ a.flights[e].leader = c.flights[e].leader
                      /\ a.flights[e].followers = c.flights[e].followers
                      /\ a.flights[e].dispatched = c.flights[e].dispatched
                      /\ a.flights[e].segment = c.flights[e].segment
    OBVIOUS
  <2>1. CASE e = d
    <3>1. a.flights[e] = g
      BY <1>8, <1>9, <2>1
    <3> QED BY <1>3, <1>4, <2>1, <3>1
  <2>2. CASE e # d /\ e \in Published(c)
    <3>1. a.flights[e] = h(e)
      BY <1>8, <1>9, <2>2
    <3> QED BY <1>5, <3>1
  <2>3. CASE e # d /\ e \notin Published(c)
    <3>1. a.flights[e] = c.flights[e]
      BY <1>8, <1>9, <2>3
    <3> QED BY <3>1 DEF Book, FlightsOK
  <2> QED BY <2>1, <2>2, <2>3
<1> QED BY <1>9, <1>10, <1>11, ChangeBook

\* The newest lease of a flight is an entry.
LEMMA LeaseKeyIs ==
    ASSUME NEW c, Book(c), NEW d \in Digests, c.flights[d] # None
    PROVE  LeaseKey(c, d) \in Digests
<1>1. c.flights[d] \in FlightRecords
  BY ConnParts DEF Book
<1> QED BY <1>1 DEF LeaseKey, FlightRecords, Optional

\* A published lease.
LEMMA PublishBook ==
    ASSUME NEW c, Book(c), NEW q \in Requests, NEW key, Accepts(c, q, key),
           NEW a, a = Publish(c, q, key)
    PROVE  Book(a) /\ Steady(c, a, {})
<1> DEFINE d == c.leads[q]
           m == Renew(c, d, key)
<1>1. d \in Digests /\ c.flights[d] # None /\ c.flights[d].done
  BY ConnParts DEF Book, LeadersOK, Accepts
<1>2. key \in Digests
  BY <1>1, LeaseKeyIs DEF Accepts
<1>3. Book(m) /\ Steady(c, m, {})
  BY <1>1, <1>2, RenewBook
<1>4. \E D : a = RetireAll(m, D)
  BY DEF Publish
<1> HIDE DEF m
<1>5. Book(a) /\ Steady(m, a, {})
  BY <1>3, <1>4, RetireBook
<1> QED BY <1>3, <1>5, SteadyComposes

\* Flights that timed out.
LEMMA ExpireBook ==
    ASSUME NEW c, Book(c)
    PROVE  Book(Expire(c)) /\ Steady(c, Expire(c), {})
BY RetireBook DEF Expire

\* The completed loads of leaders: only dispatched flights become done.
LEMMA LoadsFinishedBook ==
    ASSUME NEW c, Book(c), NEW Q \in SUBSET Requests,
           \A q \in Q : c.leads[q] # None => c.flights[c.leads[q]].dispatched,
           NEW a, a = LoadsFinished(c, Q)
    PROVE  Book(a) /\ Steady(c, a, {})
<1> DEFINE L == {c.leads[q] : q \in Q} \ {None}
           g(d) == [c.flights[d] EXCEPT !.done = TRUE]
           F == [d \in Digests |-> IF d \in L THEN g(d) ELSE c.flights[d]]
           m == [c EXCEPT !.flights = F]
<1>0. c \in Conns /\ c.flights \in [Digests -> Optional(FlightRecords)]
  BY ConnIs DEF Book
<1>1. \A d \in L : d \in Digests /\ c.flights[d] # None /\ c.flights[d].dispatched
  BY ConnParts DEF Book, LeadersOK
<1> HIDE DEF L
<1>2. ASSUME NEW d \in L
      PROVE  /\ g(d) \in FlightRecords /\ g(d) # None /\ g(d).leader = c.flights[d].leader
             /\ g(d).dispatched = c.flights[d].dispatched
             /\ g(d).segment = c.flights[d].segment /\ g(d).followers = c.flights[d].followers
             /\ FlightOK(d, g(d))
  <2> DEFINE f == c.flights[d]
  <2>0. f \in FlightRecords /\ FlightOK(d, f)
    BY <1>0, <1>1, ConnParts DEF Book, FlightsOK
  <2>1. g(d) = [f EXCEPT !.done = TRUE]
    OBVIOUS
  <2> HIDE DEF f, g
  <2>2. /\ g(d) \in FlightRecords /\ g(d).leader = f.leader
        /\ g(d).dispatched = f.dispatched /\ g(d).done = TRUE /\ g(d).lease = f.lease
        /\ g(d).segment = f.segment /\ g(d).followers = f.followers /\ g(d).share = f.share
    BY <2>0, <2>1 DEF FlightRecords
  <2>3. f.dispatched
    BY <1>1 DEF f
  <2>4. FlightOK(d, g(d)) /\ g(d) # None
    BY <2>0, <2>2, <2>3, DistinctValues DEF FlightOK
  <2> QED BY <2>2, <2>4 DEF f
<1>3. F \in [Digests -> Optional(FlightRecords)]
  <2> SUFFICES ASSUME NEW e \in Digests
               PROVE  (IF e \in L THEN g(e) ELSE c.flights[e]) \in Optional(FlightRecords)
    OBVIOUS
  <2> HIDE DEF g
  <2> QED BY <1>0, <1>2 DEF Optional
<1>4. \A e \in Digests : F[e] = IF e \in L THEN g(e) ELSE c.flights[e]
  OBVIOUS
<1>5. \E D : a = RetireAll(m, D)
  BY DEF LoadsFinished, L
<1>6. m = [c EXCEPT !.flights = F]
  OBVIOUS
<1> HIDE DEF F, m, g
<1>7. /\ m \in Conns /\ m.flights = F /\ m.leads = c.leads /\ m.need = c.need
      /\ m.pending = c.pending /\ m.bound = c.bound
  BY <1>0, <1>3, <1>6, FlightsChange
<1>8. \A e \in Digests : c.flights[e] = None => m.flights[e] = None
  BY <1>1, <1>4, <1>7
<1>9. \A e \in Digests : c.flights[e] # None =>
        /\ m.flights[e] # None /\ FlightOK(e, m.flights[e])
        /\ m.flights[e].leader = c.flights[e].leader
        /\ m.flights[e].followers = c.flights[e].followers
        /\ m.flights[e].dispatched = c.flights[e].dispatched
        /\ m.flights[e].segment = c.flights[e].segment
  <2> SUFFICES ASSUME NEW e \in Digests, c.flights[e] # None
               PROVE  /\ m.flights[e] # None /\ FlightOK(e, m.flights[e])
                      /\ m.flights[e].leader = c.flights[e].leader
                      /\ m.flights[e].followers = c.flights[e].followers
                      /\ m.flights[e].dispatched = c.flights[e].dispatched
                      /\ m.flights[e].segment = c.flights[e].segment
    OBVIOUS
  <2>1. CASE e \in L
    <3>1. m.flights[e] = g(e)
      BY <1>4, <1>7, <2>1
    <3> QED BY <1>2, <2>1, <3>1
  <2>2. CASE e \notin L
    <3>1. m.flights[e] = c.flights[e]
      BY <1>4, <1>7, <2>2
    <3> QED BY <3>1 DEF Book, FlightsOK
  <2> QED BY <2>1, <2>2
<1>10. Book(m) /\ Steady(c, m, {})
  BY <1>7, <1>8, <1>9, ChangeBook
<1>11. Book(a) /\ Steady(m, a, {})
  BY <1>5, <1>10, RetireBook
<1> QED BY <1>10, <1>11, SteadyComposes

\* The admissions change.
LEMMA AdmittedBook ==
    ASSUME NEW c, Book(c), NEW A \in [Requests -> Optional(Admissions)],
           NEW a, a = [c EXCEPT !.admitted = A]
    PROVE  /\ Book(a) /\ Steady(c, a, {})
           /\ a.flights = c.flights /\ a.leads = c.leads
<1>0. c \in Conns
  BY DEF Book
<1>1. a \in Conns
  BY <1>0 DEF Conns
<1>2. /\ a.flights = c.flights /\ a.leads = c.leads /\ a.need = c.need
      /\ a.pending = c.pending /\ a.bound = c.bound
  BY <1>0 DEF Conns
<1>3. FlightsOK(a) /\ LeadersOK(a) /\ AskedOK(a) /\ BoundOK(a)
  BY <1>2 DEF Book, FlightsOK, LeadersOK, AskedOK, BoundOK
<1>4. Steady(c, a, {})
  BY <1>2 DEF Steady
<1> QED BY <1>1, <1>2, <1>3, <1>4 DEF Book

\* Every nonempty set of natural numbers has a least element.
LEMMA LeastElement ==
    ASSUME NEW S, S \subseteq Nat, S # {}
    PROVE  \E m \in S : \A k \in S : m <= k
<1> DEFINE R == {ss \in Nat \X Nat : ss[1] < ss[2]}
<1>1. IsWellFoundedOn(R, Nat)
  BY NatLessThanWellFounded, Zenon DEF OpToRel
<1> HIDE DEF R
<1>2. PICK x \in S : \A y \in S : ~ (<<y, x>> \in R)
  BY <1>1, WFMin, Zenon
<1>3. ASSUME NEW y \in S PROVE x <= y
  <2>1. ASSUME y < x PROVE FALSE
    <3>1. <<y, x>> \in Nat \X Nat /\ <<y, x>>[1] < <<y, x>>[2]
      BY <2>1, S \subseteq Nat
    <3>2. <<y, x>> \in R
      BY <3>1, Zenon DEF R
    <3> QED BY <3>2, <1>2
  <2> QED BY <2>1
<1> QED BY <1>3

\* A nonempty set of entries of one request has a longest one.
LEMMA LongestIs ==
    ASSUME NEW q \in Requests, NEW S \in SUBSET Candidates[q], S # {}
    PROVE  Longest(S) \in S
<1>1. PICK t \in Candidates[q] : \A e \in Candidates[q] : Span[e] <= Span[t]
  BY FlightConstants
<1>2. \A e \in Candidates[q] : Span[e] \in Nat
  BY FlightConstants
<1> DEFINE D == {Span[t] - Span[e] : e \in S}
<1>3. D \subseteq Nat /\ D # {}
  BY <1>1, <1>2
<1>4. PICK m \in D : \A k \in D : m <= k
  BY <1>3, LeastElement
<1>5. PICK d \in S : m = Span[t] - Span[d]
  OBVIOUS
<1>6. \A e \in S : Span[t] - Span[d] <= Span[t] - Span[e]
  BY <1>4, <1>5
<1>7. \A e \in S : Span[e] <= Span[d]
  BY <1>1, <1>2, <1>6
<1> QED BY <1>7 DEF Longest

\* What a follower of d waits for is an entry of its own prompt.
LEMMA LeaseKeyShared ==
    ASSUME NEW c, Book(c), NEW q \in Requests, NEW d \in Candidates[q], c.flights[d] # None
    PROVE  /\ LeaseKey(c, d) \in Candidates[q]
           /\ LeaseKey(c, d) \in {d, c.flights[d].segment}
<1>1. d \in Digests /\ c.flights[d] \in FlightRecords /\ FlightOK(d, c.flights[d])
  BY CandidatesAreDigests, ConnParts DEF Book, FlightsOK
<1>2. CASE c.flights[d].segment = None
  BY <1>2 DEF LeaseKey
<1>3. CASE c.flights[d].segment # None
  <2> DEFINE p == c.flights[d].leader
             k == c.flights[d].segment
  <2>1. p \in Requests /\ d \in Candidates[p] /\ k \in Shorter(p, d)
    BY <1>1, <1>3 DEF FlightRecords, FlightOK, Optional
  <2>2. k \in Candidates[q]
    BY <2>1, FlightConstants DEF Shorter
  <2> QED BY <1>3, <2>2 DEF LeaseKey
<1> QED BY <1>2, <1>3

\* A follower of a published flight that attaches its lease.
LEMMA LeaseCandidatesBook ==
    ASSUME NEW c, Book(c), NEW q \in Requests, NEW a \in LeaseCandidates(c, q)
    PROVE  /\ Book(a.c) /\ Steady(c, a.c, {})
           /\ a.key # None => a.key \in Candidates[q]
<1> DEFINE S == Attachable(c, q)
<1>1. \A d \in Published(c) : /\ d \in Digests /\ c.flights[d] # None /\ c.flights[d].lease # None
                              /\ c.flights[d].dispatched
  BY DEF Published, Live, Book, FlightsOK, FlightOK
<1>2. \A d \in S : d \in Published(c) /\ c.flights[d].lease \in Candidates[q]
  <2> DEFINE exact == {d \in Candidates[q] \cap Published(c) : c.flights[d].lease = d}
             keys == {c.flights[d].lease : d \in Published(c)} \cap Candidates[q]
  <2>1. S = IF exact # {} THEN {Longest(exact)}
            ELSE {d \in Published(c) : keys # {} /\ c.flights[d].lease = Longest(keys)}
    BY DEF Attachable
  <2>2. exact # {} => Longest(exact) \in exact
    <3>1. exact \in SUBSET Candidates[q]
      OBVIOUS
    <3> HIDE DEF exact
    <3> QED BY <3>1, LongestIs
  <2>3. keys # {} => Longest(keys) \in keys
    <3>1. keys \in SUBSET Candidates[q]
      OBVIOUS
    <3> HIDE DEF keys
    <3> QED BY <3>1, LongestIs
  <2> QED BY <2>1, <2>2, <2>3
<1> HIDE DEF S
<1>3. CASE c.bound[q] # None
  <2>1. a.c = c /\ a.key \in {c.bound[q].lease, None}
    BY <1>3 DEF LeaseCandidates
  <2> QED BY <1>3, <2>1, SteadySelf DEF Book, BoundOK
<1>4. CASE c.bound[q] = None
  <2>1. \/ (a.c = c /\ a.key = None)
        \/ \E d \in S : a.c = Follow(c, q, d, c.flights[d].lease) /\ a.key = c.flights[d].lease
    BY <1>4 DEF LeaseCandidates, S
  <2>2. CASE a.c = c /\ a.key = None
    BY <2>2, SteadySelf
  <2>3. ASSUME NEW d \in S, a.c = Follow(c, q, d, c.flights[d].lease), a.key = c.flights[d].lease
        PROVE  /\ Book(a.c) /\ Steady(c, a.c, {})
               /\ a.key # None => a.key \in Candidates[q]
    <3>1. /\ d \in Digests /\ c.flights[d] # None /\ c.flights[d].dispatched
          /\ c.flights[d].lease \in Candidates[q]
      BY <1>1, <1>2
    <3> QED BY <2>3, <3>1, FollowBook
  <2> QED BY <2>1, <2>2, <2>3
<1> QED BY <1>3, <1>4

\* An answer of get_num_new_matched_tokens to q: an entry is restored by its leader.
Answers(c, q, m) ==
    /\ Book(m.c) /\ Steady(c, m.c, {q})
    /\ m.answer \in Digests =>
         /\ m.answer \in Candidates[q]
         /\ m.c.leads[q] = m.answer /\ m.c.need[q] = m.answer

\* An answer that restores nothing.
LEMMA NoEntry ==
    ASSUME NEW c, NEW q, NEW a, Book(a), Steady(c, a, {}), NEW x \in {"compute", "wait"}
    PROVE  Answers(c, q, Answer(a, x))
<1>1. x \notin Digests
  BY DistinctValues
<1>2. Answer(a, x).c = a /\ Answer(a, x).answer = x
  BY DEF Answer
<1> QED BY <1>1, <1>2, SteadyMore DEF Answers

\* The answers of the search for an entry or a flight.
LEMMA SearchAnswers ==
    ASSUME NEW c, Book(c), NEW q \in Requests, c.leads[q] = None, NEW hit,
           NEW m \in Search(c, q, hit)
    PROVE  Answers(c, q, m)
<1> DEFINE offered == Candidates[q] \cap quorum
           d == Longest(offered)
           matches == SegmentMatches(c, q, d)
           best == {x \in matches : \A n \in matches : Span[n[2]] <= Span[x[2]]}
           lead == IF Backlogged(c, q) \/ ~hit THEN Answer(c, "compute")
                   ELSE Answer(Lead(c, q, d), d)
<1>0. Answers(c, q, Answer(c, "compute"))
  BY NoEntry, SteadySelf
<1>1. CASE offered = {}
  <2>1. m = Answer(c, "compute")
    BY <1>1 DEF Search
  <2> QED BY <1>0, <2>1
<1>2. CASE offered # {}
  <2>1. d \in Candidates[q] /\ d \in Digests
    <3>1. offered \in SUBSET Candidates[q]
      OBVIOUS
    <3> HIDE DEF offered
    <3> QED BY <1>2, <3>1, LongestIs, CandidatesAreDigests
  <2>2. CASE c.flights[d] # None
    <3>1. m = Answer(c, "compute") \/ m = Answer(Follow(c, q, d, LeaseKey(c, d)), "wait")
      BY <1>2, <2>2 DEF Search
    <3>2. LeaseKey(c, d) \in Candidates[q] /\ LeaseKey(c, d) \in {d, c.flights[d].segment}
      BY <2>1, <2>2, LeaseKeyShared
    <3> HIDE DEF d
    <3>3. Book(Follow(c, q, d, LeaseKey(c, d))) /\ Steady(c, Follow(c, q, d, LeaseKey(c, d)), {})
      BY <2>1, <2>2, <3>2, FollowBook
    <3> QED BY <1>0, <3>1, <3>3, NoEntry
  <2>3. CASE c.flights[d] = None
    <3>1. Answers(c, q, lead)
      <4> HIDE DEF d
      <4>1. /\ Book(Lead(c, q, d)) /\ Steady(c, Lead(c, q, d), {q})
            /\ Lead(c, q, d).leads[q] = d /\ Lead(c, q, d).need[q] = d
        BY <2>1, <2>3, LeadBook
      <4>2. Answer(Lead(c, q, d), d).c = Lead(c, q, d) /\ Answer(Lead(c, q, d), d).answer = d
        BY DEF Answer
      <4>3. Answers(c, q, Answer(Lead(c, q, d), d))
        BY <2>1, <4>1, <4>2 DEF Answers
      <4> QED BY <1>0, <4>3
    <3>2. \/ m = lead
          \/ \E x \in matches : m = Answer(JoinSegment(c, q, x[1], x[2]), "wait")
      <4> HIDE DEF matches, lead
      <4> QED BY <1>2, <2>3 DEF Search, lead, matches
    <3>3. ASSUME NEW x \in matches, m = Answer(JoinSegment(c, q, x[1], x[2]), "wait")
          PROVE  Answers(c, q, m)
      <4> DEFINE f == c.flights[x[1]]
                 usable == {e \in f.share \cap Candidates[q] : f.segment \in {None, e}}
      <4>1. /\ x[1] \in Live(c) /\ ~f.dispatched /\ usable # {} /\ x[2] = Longest(usable)
        BY DEF SegmentMatches
      <4>2. usable \in SUBSET Candidates[q]
        OBVIOUS
      <4> HIDE DEF usable
      <4>3. x[2] \in usable
        BY <4>1, <4>2, LongestIs
      <4>4. /\ x[1] \in Digests /\ f # None /\ x[2] \in Candidates[q] /\ x[2] \in f.share
            /\ f.segment \in {None, x[2]}
        BY <4>1, <4>3 DEF Live, usable
      <4> DEFINE j == JoinSegment(c, q, x[1], x[2])
      <4>5. Book(j) /\ Steady(c, j, {})
        BY <4>1, <4>4, JoinBook
      <4> HIDE DEF j
      <4>6. Answers(c, q, Answer(j, "wait"))
        BY <4>5, NoEntry
      <4> QED BY <3>3, <4>6 DEF j
    <3> QED BY <3>1, <3>2, <3>3
  <2> QED BY <2>2, <2>3
<1> QED BY <1>1, <1>2

\* The answers to a request without a flight of its own.
LEMMA UnledAnswers ==
    ASSUME NEW c, Book(c), NEW q \in Requests, c.leads[q] = None, NEW local, NEW hit,
           NEW m \in Unled(c, q, local, hit)
    PROVE  Answers(c, q, m)
<1>1. CASE local > 0
  BY <1>1, NoEntry, SteadySelf DEF Unled
<1>2. CASE ~(local > 0)
  BY <1>2, SearchAnswers DEF Unled
<1> QED BY <1>1, <1>2

\* The answers to a request that follows no flight.
LEMMA UnboundAnswers ==
    ASSUME NEW c, Book(c), NEW q \in Requests, c.pending[q] = None, NEW local, NEW hit,
           NEW m \in Unbound(c, q, local, hit)
    PROVE  Answers(c, q, m)
<1> DEFINE d == c.leads[q]
           f == c.flights[d]
           given == GiveUp(c, q, d)
<1>1. CASE d = None
  BY <1>1, UnledAnswers DEF Unbound
<1>2. CASE d # None
  <2>1. d \in Digests /\ f # None
    BY <1>2, ConnParts DEF Book, LeadersOK
  <2>2. \/ m = Answer(RetireAll(c, {d}), "compute")
        \/ m = Answer(c, "wait")
        \/ (m = Answer(c, d) /\ ~f.dispatched)
        \/ m \in Unled(given, q, local, hit)
    BY <1>2 DEF Unbound, Retire, GiveUp
  <2>3. CASE m = Answer(RetireAll(c, {d}), "compute")
    <3> DEFINE a == RetireAll(c, {d})
    <3>1. Book(a) /\ Steady(c, a, {})
      BY RetireBook
    <3> HIDE DEF a
    <3>2. Answers(c, q, Answer(a, "compute"))
      BY <3>1, NoEntry
    <3> QED BY <2>3, <3>2 DEF a
  <2>4. CASE m = Answer(c, "wait")
    BY <2>4, NoEntry, SteadySelf
  <2>5. CASE m = Answer(c, d) /\ ~f.dispatched
    <3>1. c.need[q] = d
      BY <1>2, <2>5 DEF Book, LeadersOK
    <3>2. d \in Candidates[q]
      BY <1>2, <3>1 DEF Book, AskedOK, Optional
    <3>3. m.c = c /\ m.answer = d
      BY <2>5 DEF Answer
    <3> QED BY <3>1, <3>2, <3>3, SteadySelf DEF Answers
  <2>6. CASE m \in Unled(given, q, local, hit)
    <3>1. Book(given) /\ Steady(c, given, {}) /\ given.leads[q] = None
      BY <2>1, GiveUpBook
    <3> HIDE DEF given
    <3>2. Answers(given, q, m)
      BY <2>6, <3>1, UnledAnswers
    <3>3. Steady(c, given, {q})
      BY <3>1, SteadyMore
    <3>4. Steady(c, m.c, {q})
      BY <3>2, <3>3, SteadyComposes DEF Answers
    <3> QED BY <3>2, <3>4 DEF Answers
  <2> QED BY <2>2, <2>3, <2>4, <2>5, <2>6
<1> QED BY <1>1, <1>2

\* get_num_new_matched_tokens keeps the books, and q restores only what it leads.
LEMMA MatchedTokensAnswers ==
    ASSUME NEW c, Book(c), NEW q \in Requests, c.pending[q] = None, NEW local, NEW hit,
           NEW m \in MatchedTokens(c, q, local, hit)
    PROVE  Answers(c, q, m)
<1> DEFINE r == RemoveFollower(c, q)
<1>1. Book(r) /\ Steady(c, r, {})
  BY RemoveBook
<1>2. CASE c.bound[q] = None
  BY <1>2, UnboundAnswers DEF MatchedTokens
<1>3. CASE m = Answer(r, "compute")
  <2> HIDE DEF r
  <2> QED BY <1>1, <1>3, NoEntry
<1>4. CASE m = Answer(c, "wait")
  BY <1>4, NoEntry, SteadySelf
<1>5. CASE m \in Unbound(r, q, local, hit)
  <2> HIDE DEF r
  <2>1. r.pending[q] = None
    BY <1>1 DEF Steady
  <2>2. Answers(r, q, m)
    BY <1>1, <1>5, <2>1, UnboundAnswers
  <2>3. Steady(c, m.c, {q})
    BY <1>1, <2>2, SteadyMore, SteadyComposes DEF Answers
  <2> QED BY <2>2, <2>3 DEF Answers
<1>6. c.bound[q] # None => \/ m = Answer(r, "compute") \/ m = Answer(c, "wait")
                           \/ m \in Unbound(r, q, local, hit)
  BY DEF MatchedTokens
<1> QED BY <1>2, <1>3, <1>4, <1>5, <1>6

-----------------------------------------------------------------------------
(***************************************************************************)
(* Sequences of blocks and pins.                                           *)
(***************************************************************************)
\* The records of pinned blocks.
Pins == [key : Digests, blocks : Seq(Blocks), ready : BOOLEAN]

\* The elements of a sequence.
LEMMA HeldIs ==
    ASSUME NEW S, NEW s \in Seq(S)
    PROVE  Held(s) = {s[i] : i \in 1 .. Len(s)} /\ Held(s) \subseteq S /\ Len(s) \in Nat
BY LenProperties DEF Held

\* The first elements of a sequence.
LEMMA FirstIs ==
    ASSUME NEW S, NEW s \in Seq(S), NEW n \in Nat, n <= Len(s)
    PROVE  /\ First(s, n) \in Seq(S) /\ Len(First(s, n)) = n
           /\ Held(First(s, n)) \subseteq Held(s)
           /\ n = Len(s) => First(s, n) = s
<1>0. Len(s) \in Nat /\ \A i \in 1 .. Len(s) : s[i] \in S
  BY LenProperties, ElementOfSeq
<1>1. \A i \in 1 .. n : s[i] \in S
  BY <1>0
<1>2. /\ SubSeq(s, 1, n) \in Seq(S)
      /\ Len(SubSeq(s, 1, n)) = IF 1 <= n THEN n - 1 + 1 ELSE 0
      /\ \A i \in 1 .. n - 1 + 1 : SubSeq(s, 1, n)[i] = s[1 + i - 1]
  <2>1. 1 \in Int /\ n \in Int
    OBVIOUS
  <2> QED BY <1>1, <2>1, SubSeqProperties
<1> DEFINE t == SubSeq(s, 1, n)
<1>3. Len(t) = n /\ t \in Seq(S)
  BY <1>2
<1>4. \A i \in 1 .. n : t[i] = s[i]
  BY <1>2
<1>5. n = Len(s) => t = s
  BY SubSeqFull
<1> HIDE DEF t
<1>6. Held(t) = {t[i] : i \in 1 .. n} /\ Held(s) = {s[i] : i \in 1 .. Len(s)}
  BY <1>3, HeldIs
<1>7. Held(t) \subseteq Held(s)
  BY <1>0, <1>4, <1>6
<1> QED BY <1>3, <1>5, <1>7 DEF t, First

\* One element more.
LEMMA AppendHeld ==
    ASSUME NEW S, NEW s \in Seq(S), NEW e \in S
    PROVE  Append(s, e) \in Seq(S) /\ Held(Append(s, e)) = Held(s) \cup {e}
<1>1. /\ Append(s, e) \in Seq(S) /\ Len(Append(s, e)) = Len(s) + 1
      /\ \A i \in 1 .. Len(s) : Append(s, e)[i] = s[i]
      /\ Append(s, e)[Len(s) + 1] = e
  BY AppendProperties
<1>2. Len(s) \in Nat
  BY LenProperties
<1>3. /\ Held(Append(s, e)) = {Append(s, e)[i] : i \in 1 .. Len(s) + 1}
      /\ Held(s) = {s[i] : i \in 1 .. Len(s)}
  BY <1>1, HeldIs
<1>4. \A i : i \in 1 .. Len(s) + 1 <=> i \in 1 .. Len(s) \/ i = Len(s) + 1
  BY <1>2
<1> QED BY <1>1, <1>3, <1>4

\* One element less.
LEMMA TailHeld ==
    ASSUME NEW S, NEW s \in Seq(S), s # <<>>
    PROVE  Tail(s) \in Seq(S) /\ Held(Tail(s)) \subseteq Held(s)
<1>1. /\ Tail(s) \in Seq(S) /\ Len(Tail(s)) = Len(s) - 1
      /\ \A i \in 1 .. Len(Tail(s)) : Tail(s)[i] = s[i + 1]
  BY HeadTailProperties
<1>2. Len(s) \in Nat
  BY LenProperties
<1>3. /\ Held(Tail(s)) = {Tail(s)[i] : i \in 1 .. Len(Tail(s))}
      /\ Held(s) = {s[i] : i \in 1 .. Len(s)}
  BY <1>1, HeldIs
<1> QED BY <1>1, <1>2, <1>3

\* Without the pin of a key.
LEMMA UnpinnedHeld ==
    ASSUME pins \in Seq(Pins), NEW key
    PROVE  /\ Unpinned(key) \in Seq(Pins) /\ Held(Unpinned(key)) \subseteq Held(pins)
           /\ Len(Unpinned(key)) <= Len(pins)
           /\ (\E i \in DOMAIN pins : pins[i].key = key) => Len(Unpinned(key)) = Len(pins) - 1
<1> DEFINE at == {i \in DOMAIN pins : pins[i].key = key}
           k == CHOOSE i \in at : TRUE
           a == SubSeq(pins, 1, k - 1)
           b == SubSeq(pins, k + 1, Len(pins))
<1>0. /\ Len(pins) \in Nat /\ DOMAIN pins = 1 .. Len(pins)
      /\ \A i \in 1 .. Len(pins) : pins[i] \in Pins
  BY LenProperties, ElementOfSeq
<1>1. CASE at = {}
  <2>1. Unpinned(key) = pins
    BY <1>1 DEF Unpinned
  <2>2. ~\E i \in DOMAIN pins : pins[i].key = key
    BY <1>1
  <2>3. Len(pins) <= Len(pins)
    BY <1>0
  <2> QED BY <2>1, <2>2, <2>3
<1>2. CASE at # {}
  <2>1. k \in 1 .. Len(pins)
    BY <1>0, <1>2
  <2>2. Unpinned(key) = a \o b
    BY <1>2 DEF Unpinned
  <2> HIDE DEF k
  <2>3. /\ a \in Seq(Pins) /\ Len(a) = k - 1
        /\ \A i \in 1 .. k - 1 : a[i] = pins[i]
    <3>1. \A i \in 1 .. k - 1 : pins[i] \in Pins
      BY <1>0, <2>1
    <3>2. 1 \in Int /\ k - 1 \in Int
      BY <2>1
    <3>3. /\ a \in Seq(Pins) /\ Len(a) = (IF 1 <= k - 1 THEN (k - 1) - 1 + 1 ELSE 0)
          /\ \A i \in 1 .. (k - 1) - 1 + 1 : a[i] = pins[1 + i - 1]
      BY <3>1, <3>2, SubSeqProperties
    <3> HIDE DEF a
    <3> QED BY <2>1, <3>3
  <2>4. /\ b \in Seq(Pins) /\ Len(b) = Len(pins) - k
        /\ \A i \in 1 .. Len(pins) - k : b[i] = pins[(k + 1) + i - 1]
    <3>1. \A i \in k + 1 .. Len(pins) : pins[i] \in Pins
      BY <1>0, <2>1
    <3>2. k + 1 \in Int /\ Len(pins) \in Int
      BY <1>0, <2>1
    <3>3. /\ b \in Seq(Pins) /\ Len(b) = (IF k + 1 <= Len(pins) THEN Len(pins) - (k + 1) + 1 ELSE 0)
          /\ \A i \in 1 .. Len(pins) - (k + 1) + 1 : b[i] = pins[(k + 1) + i - 1]
      BY <3>1, <3>2, SubSeqProperties
    <3>4. Len(pins) - (k + 1) + 1 = Len(pins) - k
      BY <1>0, <2>1
    <3> HIDE DEF b
    <3>5. Len(b) = Len(pins) - k
      <4>1. Len(b) = (IF k + 1 <= Len(pins) THEN Len(pins) - (k + 1) + 1 ELSE 0)
        BY <3>3
      <4>2. Len(pins) \in Nat
        BY <1>0
      <4> QED BY <2>1, <4>1, <4>2
    <3>6. \A i \in 1 .. Len(pins) - k : b[i] = pins[(k + 1) + i - 1]
      BY <3>3, <3>4
    <3> QED BY <3>3, <3>5, <3>6
  <2> HIDE DEF a, b
  <2>5. /\ a \o b \in Seq(Pins) /\ Len(a \o b) = Len(a) + Len(b)
        /\ \A i \in 1 .. Len(a) + Len(b) : (a \o b)[i] = IF i <= Len(a) THEN a[i] ELSE b[i - Len(a)]
    BY <2>3, <2>4, ConcatProperties
  <2>6. ASSUME NEW i \in 1 .. Len(a) + Len(b)
        PROVE  \E j \in 1 .. Len(pins) : (a \o b)[i] = pins[j]
    <3>1. CASE i <= Len(a)
      BY <1>0, <2>1, <2>3, <2>4, <2>5, <3>1
    <3>2. CASE ~(i <= Len(a))
      <4>1. i - Len(a) \in 1 .. Len(pins) - k
        BY <1>0, <2>1, <2>3, <2>4, <3>2
      <4> DEFINE j == (k + 1) + (i - Len(a)) - 1
      <4>2. (a \o b)[i] = pins[j]
        BY <2>4, <2>5, <3>2, <4>1
      <4>3. j \in 1 .. Len(pins)
        BY <1>0, <2>1, <4>1
      <4> QED BY <4>2, <4>3
    <3> QED BY <3>1, <3>2
  <2>7. /\ Held(a \o b) = {(a \o b)[i] : i \in 1 .. Len(a) + Len(b)}
        /\ Held(pins) = {pins[i] : i \in 1 .. Len(pins)}
    BY <2>5, HeldIs
  <2>8. Len(a) + Len(b) = Len(pins) - 1
    BY <1>0, <2>1, <2>3, <2>4
  <2>9. a \o b \in Seq(Pins) /\ Held(a \o b) \subseteq Held(pins)
    BY <2>5, <2>6, <2>7
  <2> DEFINE u == Unpinned(key)
             n == Len(pins)
  <2>10. u \in Seq(Pins) /\ Held(u) \subseteq Held(pins)
    BY <2>2, <2>9
  <2>11. Len(u) = n - 1 /\ n \in Nat
    BY <1>0, <2>2, <2>5, <2>8
  <2> HIDE DEF u, n
  <2>12. Len(u) <= n
    BY <2>11
  <2> QED BY <2>10, <2>11, <2>12 DEF u, n
<1> QED BY <1>1, <1>2
-----------------------------------------------------------------------------
(***************************************************************************)
(* The inductive invariant.                                                *)
(***************************************************************************)
\* The phases in which the workers may write the blocks of a request.
Writing == {"parked", "draining"}

\* The load of q was sent to the workers and has not ended.
Loading(q) == phase[q] \in Writing /\ conn.pending[q] = None

\* A load that is queued, or whose completion is under way, belongs to a request that
\* loads; a failed rank has recorded the blocks of the request or they were reported.
RankOK(q, r) ==
    /\ load[q] # None /\ load[q].state[r] = "queued" =>
         /\ Loading(q) /\ q \notin finished[r] /\ r \notin acks[q]
         /\ taken[r] # None => q \notin taken[r]
    /\ q \in finished[r] =>
         /\ Loading(q) /\ r \notin acks[q]
         /\ taken[r] # None => q \notin taken[r]
    /\ taken[r] # None /\ q \in taken[r] => Loading(q) /\ r \notin acks[q]
    /\ phase[q] = "parked" /\ conn.pending[q] = None /\ load[q].state[r] = "failed" =>
         q \in bad \/ Held(table[q]) \subseteq errors[r]

\* Every rank has verified the load of q.
Verified(q) == \A r \in Ranks : load[q].state[r] = "verified"

\* The blocks of q hold what its load puts there.
Holds(q) == \A b \in Held(table[q]) : Loaded(q, b) \subseteq content[b]

\* The load of q is for an entry of its prompt and covers its blocks.
LoadOK(q) == load[q] # None /\ load[q].digest \in Candidates[q] /\ Len(table[q]) = Span[load[q].digest]

\* The flight a loading request leads is the one its load was dispatched for.
Led(q) ==
    conn.leads[q] # None =>
        /\ conn.leads[q] = load[q].digest
        /\ conn.flights[conn.leads[q]].dispatched
        /\ conn.flights[conn.leads[q]].segment \in {None, load[q].segment}

\* What the phase of a request says of its blocks, its load and its flight.
StageOK(q) ==
    /\ conn.pending[q] # None =>
         /\ phase[q] = "parked" /\ Len(table[q]) = Span[conn.pending[q]]
         /\ conn.leads[q] \in {None, conn.pending[q]}
    /\ phase[q] = "waiting" => table[q] = <<>>
    /\ Loading(q) => LoadOK(q) /\ Led(q) /\ (Ranks # {} /\ Verified(q) => Holds(q))
    /\ phase[q] = "loaded" => LoadOK(q) /\ Led(q) /\ (q \notin bad => Holds(q))
    /\ phase[q] \in {"ready", "running"} /\ table[q] # <<>> =>
         \E d \in Candidates[q] : Span[d] = Len(table[q]) /\ \A b \in Held(table[q]) : d \in content[b]

\* Blocks that may still be written are in no other table and under no pin.
Apart ==
    \A q \in Requests : phase[q] \in Writing =>
        /\ \A p \in Requests \ {q} : Held(table[q]) \cap Held(table[p]) = {}
        /\ \A p \in Held(pins) : Held(table[q]) \cap Held(p.blocks) = {}

\* A pin covers its entry, and its blocks hold it.
PinOK(p) == Len(p.blocks) = Span[p.key] /\ \A b \in Held(p.blocks) : p.key \in content[b]

\* The types of the variables besides conn.
Typed ==
    /\ phase \in [Requests -> {"waiting", "parked", "loaded", "ready", "running", "draining", "done"}]
    /\ table \in [Requests -> Seq(Blocks)]
    /\ pins \in Seq(Pins) /\ fence \in [Digests -> Optional(Requests)]
    /\ load \in [Requests -> Optional(Loads)]
    /\ errors \in [Ranks -> SUBSET Blocks] /\ finished \in [Ranks -> SUBSET Requests]
    /\ taken \in [Ranks -> Optional(SUBSET Requests)]
    /\ acks \in [Requests -> SUBSET Ranks] /\ bad \in SUBSET Requests
    /\ content \in [Blocks -> SUBSET Digests]

\* RankOK of every request and rank.
RanksOK == \A q \in Requests, r \in Ranks : RankOK(q, r)

\* StageOK of every request.
StagesOK == \A q \in Requests : StageOK(q)

\* PinOK of every pin.
PinsOK == \A p \in Held(pins) : PinOK(p)

\* The inductive invariant.
IInv == Typed /\ Book(conn) /\ RanksOK /\ StagesOK /\ Apart /\ PinsOK

\* The inductive invariant says what the runs check.
LEMMA IInvImplies == IInv => OnlyVerified
<1> SUFFICES ASSUME IInv PROVE OnlyVerified
  OBVIOUS
<1>1. RunsVerified
  BY DEF IInv, StagesOK, StageOK, PinsOK, PinOK, RunsVerified
<1>2. OneWriter
  <2> SUFFICES ASSUME NEW q \in Requests, Outstanding(q)
               PROVE  /\ \A p \in Requests \ {q} : Held(table[q]) \cap Held(table[p]) = {}
                      /\ \A p \in Held(pins) : Held(table[q]) \cap Held(p.blocks) = {}
    BY DEF OneWriter
  <2>1. PICK r \in Ranks : load[q] # None /\ load[q].state[r] = "queued"
    BY DEF Outstanding
  <2>2. RankOK(q, r)
    BY DEF IInv, RanksOK
  <2>3. phase[q] \in Writing
    BY <2>1, <2>2 DEF RankOK, Loading
  <2> QED BY <2>3 DEF IInv, Apart
<1> QED BY <1>1, <1>2 DEF OnlyVerified

\* Initially nothing is led, loaded or pinned.
LEMMA InitHolds == Init => IInv
<1> SUFFICES ASSUME Init PROVE IInv
  OBVIOUS
<1>1. conn \in Conns
  BY DEF Init, NoOne, Conns, Optional
<1>2. /\ conn.flights = [d \in Digests |-> None] /\ conn.leads = NoOne /\ conn.bound = NoOne
      /\ conn.need = NoOne /\ conn.pending = NoOne
  BY DEF Init
<1>3. FlightsOK(conn) /\ LeadersOK(conn) /\ AskedOK(conn) /\ BoundOK(conn)
  BY <1>2 DEF FlightsOK, LeadersOK, AskedOK, BoundOK, NoOne, Optional
<1>4. Typed
  BY DEF Init, Typed, NoOne, Optional, Pins
<1>5. RanksOK
  BY DEF Init, RanksOK, RankOK, NoOne
<1>6. \A q \in Requests : StageOK(q)
  BY <1>2 DEF Init, StageOK, Loading, Writing, NoOne
<1>7. Apart /\ PinsOK
  BY DEF Init, Apart, Writing, PinsOK, Held
<1> QED BY <1>1, <1>3, <1>4, <1>5, <1>6, <1>7 DEF IInv, StagesOK, Book
-----------------------------------------------------------------------------
(***************************************************************************)
(* What a step leaves alone.                                               *)
(***************************************************************************)

\* What the connector keeps of one request.
SteadyAt(c, a, q) ==
    /\ a.pending[q] = c.pending[q]
    /\ a.leads[q] # None =>
         /\ a.leads[q] = c.leads[q]
         /\ c.flights[a.leads[q]].dispatched =>
              /\ a.flights[a.leads[q]].dispatched
              /\ a.flights[a.leads[q]].segment \in {None, c.flights[a.leads[q]].segment}

\* q keeps its phase, its table, its load and the content of its blocks.
LEMMA StageKeptAt ==
    ASSUME NEW q \in Requests, StageOK(q), SteadyAt(conn, conn', q),
           phase'[q] = phase[q], table'[q] = table[q], load'[q] = load[q],
           \A b \in Held(table[q]) : content'[b] = content[b],
           phase[q] = "loaded" /\ q \in bad => q \in bad'
    PROVE  StageOK(q)'
<1>1. conn'.pending[q] = conn.pending[q]
  BY DEF SteadyAt
<1>2. /\ Loading(q)' = Loading(q) /\ LoadOK(q)' = LoadOK(q) /\ Verified(q)' = Verified(q)
  BY <1>1 DEF Loading, LoadOK, Verified
<1>3. Holds(q) => Holds(q)'
  BY DEF Holds, Loaded
<1>4. Led(q) => Led(q)'
  BY DEF Led, SteadyAt
<1>5. conn'.leads[q] # None => conn'.leads[q] = conn.leads[q]
  BY DEF SteadyAt
<1> QED BY <1>1, <1>2, <1>3, <1>4, <1>5 DEF StageOK

\* q is outside the requests a step is about.
LEMMA StageKept ==
    ASSUME NEW q \in Requests, StageOK(q), NEW X, Steady(conn, conn', X), q \notin X,
           phase'[q] = phase[q], table'[q] = table[q], load'[q] = load[q],
           \A b \in Held(table[q]) : content'[b] = content[b],
           phase[q] = "loaded" /\ q \in bad => q \in bad'
    PROVE  StageOK(q)'
<1>1. SteadyAt(conn, conn', q)
  BY DEF Steady, SteadyAt
<1> QED BY <1>1, StageKeptAt

\* The workers have done nothing, and q was not given to them or taken from them.
LEMMA RankKept ==
    ASSUME NEW q \in Requests, NEW r \in Ranks, RankOK(q, r), UNCHANGED workers,
           Loading(q) => Loading(q)',
           phase'[q] = "parked" /\ conn'.pending[q] = None =>
             phase[q] = "parked" /\ conn.pending[q] = None /\ table'[q] = table[q]
               /\ (q \in bad => q \in bad')
    PROVE  RankOK(q, r)'
BY DEF RankOK, workers

\* Tables are kept or emptied, pins are kept or dropped: nothing is shared anew.
LEMMA ApartKept ==
    ASSUME Apart, \A q \in Requests : phase'[q] \in Writing => phase[q] \in Writing,
           \A q \in Requests : Held(table'[q]) \subseteq Held(table[q]),
           \A p \in Held(pins') : \E o \in Held(pins) : Held(p.blocks) \subseteq Held(o.blocks)
    PROVE  Apart'
<1> SUFFICES ASSUME NEW q \in Requests, phase'[q] \in Writing
             PROVE  /\ \A p \in Requests \ {q} : Held(table'[q]) \cap Held(table'[p]) = {}
                    /\ \A p \in Held(pins') : Held(table'[q]) \cap Held(p.blocks) = {}
  BY DEF Apart, Writing
<1>1. /\ \A p \in Requests \ {q} : Held(table[q]) \cap Held(table[p]) = {}
      /\ \A p \in Held(pins) : Held(table[q]) \cap Held(p.blocks) = {}
  BY DEF Apart
<1>2. Held(table'[q]) \subseteq Held(table[q])
  OBVIOUS
<1> QED BY <1>1, <1>2

\* Pins are kept or dropped, and their blocks are not written.
LEMMA PinsKept ==
    ASSUME PinsOK, \A p \in Held(pins') : \E o \in Held(pins) : p.key = o.key /\ p.blocks = o.blocks,
           \A o \in Held(pins) : \A b \in Held(o.blocks) : content'[b] = content[b]
    PROVE  PinsOK'
<1> SUFFICES ASSUME NEW p \in Held(pins')
             PROVE  Len(p.blocks) = Span[p.key] /\ \A b \in Held(p.blocks) : p.key \in content'[b]
  BY DEF PinsOK, PinOK
<1>1. PICK o \in Held(pins) : p.key = o.key /\ p.blocks = o.blocks
  OBVIOUS
<1>2. PinOK(o)
  BY DEF PinsOK
<1> QED BY <1>1, <1>2 DEF PinOK

\* A step of the connector and the pins alone.
LEMMA BooksOnly ==
    ASSUME IInv, Book(conn'), Steady(conn, conn', {}),
           UNCHANGED <<phase, table, workers, bad, content>>,
           fence' \in [Digests -> Optional(Requests)], pins' \in Seq(Pins),
           \A p \in Held(pins') : \E o \in Held(pins) : p.key = o.key /\ p.blocks = o.blocks
    PROVE  IInv'
<1>0. /\ phase' = phase /\ table' = table /\ load' = load /\ errors' = errors
      /\ finished' = finished /\ taken' = taken /\ acks' = acks /\ bad' = bad /\ content' = content
      /\ UNCHANGED workers
  BY DEF workers
<1>1. Typed'
  BY <1>0 DEF IInv, Typed
<1>2. \A q \in Requests : Loading(q)' = Loading(q)
  BY <1>0 DEF Loading, Steady
<1>3. ASSUME NEW q \in Requests, NEW r \in Ranks PROVE RankOK(q, r)'
  <2>1. RankOK(q, r)
    BY DEF IInv, RanksOK
  <2>2. conn'.pending = conn.pending
    BY DEF Steady
  <2> QED BY <1>0, <1>2, <2>1, <2>2, RankKept
<1>4. ASSUME NEW q \in Requests PROVE StageOK(q)'
  <2>1. StageOK(q) /\ q \notin {}
    BY DEF IInv, StagesOK
  <2> QED BY <1>0, <2>1, StageKept
<1>5. Apart'
  BY <1>0, ApartKept DEF IInv
<1>6. PinsOK'
  BY <1>0, PinsKept DEF IInv
<1> QED BY <1>1, <1>3, <1>4, <1>5, <1>6 DEF IInv, RanksOK, StagesOK

\* A step of q that is not loading and does not start to load.
LEMMA OneMoves ==
    ASSUME IInv, NEW q \in Requests, ~Loading(q), Book(conn'), Steady(conn, conn', {q}),
           NEW x \in {"waiting", "ready", "running", "done"}, phase' = [phase EXCEPT ![q] = x],
           NEW t \in Seq(Blocks), table' = [table EXCEPT ![q] = t],
           UNCHANGED workers, UNCHANGED content,
           fence' \in [Digests -> Optional(Requests)],
           bad' \in SUBSET Requests, \A p \in Requests \ {q} : p \in bad => p \in bad',
           StageOK(q)', pins' \in Seq(Pins), PinsOK',
           \A p \in Requests \ {q} : phase[p] \in Writing =>
             /\ Held(table[p]) \cap Held(t) = {}
             /\ \A o \in Held(pins') : Held(table[p]) \cap Held(o.blocks) = {}
    PROVE  IInv'
<1>0. /\ load' = load /\ errors' = errors /\ finished' = finished /\ taken' = taken
      /\ acks' = acks
  BY DEF workers
<1>1. Typed'
  BY <1>0 DEF IInv, Typed
<1>2. /\ phase \in [Requests -> {"waiting", "parked", "loaded", "ready", "running", "draining", "done"}]
      /\ table \in [Requests -> Seq(Blocks)]
  BY DEF IInv, Typed
<1>3. /\ \A p \in Requests : phase'[p] = IF p = q THEN x ELSE phase[p]
      /\ \A p \in Requests : table'[p] = IF p = q THEN t ELSE table[p]
  BY <1>2
<1>4. conn'.pending = conn.pending
  BY DEF Steady
<1>5. ASSUME NEW p \in Requests, NEW r \in Ranks PROVE RankOK(p, r)'
  <2>1. RankOK(p, r)
    BY DEF IInv, RanksOK
  <2>2. Loading(p) => Loading(p)'
    BY <1>3, <1>4 DEF Loading
  <2>3. phase'[p] = "parked" => p # q
    BY <1>3
  <2>4. phase'[p] = "parked" /\ conn'.pending[p] = None =>
          phase[p] = "parked" /\ conn.pending[p] = None /\ table'[p] = table[p]
            /\ (p \in bad => p \in bad')
    BY <1>3, <1>4, <2>3
  <2> QED BY <2>1, <2>2, <2>4, RankKept
<1>6. ASSUME NEW p \in Requests PROVE StageOK(p)'
  <2>1. CASE p # q
    <3>1. StageOK(p) /\ p \notin {q}
      BY <2>1 DEF IInv, StagesOK
    <3>2. phase'[p] = phase[p] /\ table'[p] = table[p] /\ load'[p] = load[p]
      BY <1>0, <1>3, <2>1
    <3>3. phase[p] = "loaded" /\ p \in bad => p \in bad'
      BY <2>1
    <3> QED BY <3>1, <3>2, <3>3, StageKept
  <2> QED BY <2>1
<1>7. Apart'
  <2> SUFFICES ASSUME NEW p \in Requests, phase'[p] \in Writing
               PROVE  /\ \A o \in Requests \ {p} : Held(table'[p]) \cap Held(table'[o]) = {}
                      /\ \A o \in Held(pins') : Held(table'[p]) \cap Held(o.blocks) = {}
    BY DEF Apart, Writing
  <2>1. p # q /\ phase[p] \in Writing /\ table'[p] = table[p]
    BY <1>3 DEF Writing
  <2>2. \A o \in Requests \ {p} : Held(table[p]) \cap Held(table[o]) = {}
    BY <2>1 DEF IInv, Apart
  <2> QED BY <1>3, <2>1, <2>2
<1> QED BY <1>1, <1>5, <1>6, <1>7 DEF IInv, RanksOK, StagesOK

\* A request that waits, is ready or runs does not load.
LEMMA NotLoading ==
    ASSUME IInv, NEW q \in Requests, phase[q] \notin Writing
    PROVE  ~Loading(q) /\ conn.pending[q] = None
BY DEF IInv, StagesOK, StageOK, Loading, Writing

\* A flight ages.
LEMMA AgeKeeps ==
    ASSUME IInv, NEW d \in Digests, Age(d)
    PROVE  IInv'
<1>1. /\ conn' = [conn EXCEPT !.flights[d] = [@ EXCEPT !.aged = TRUE]]
      /\ conn.flights[d] # None
      /\ UNCHANGED <<phase, table, workers, bad, content>> /\ pins' = pins /\ fence' = fence
  BY DEF Age, Published, Live, engine
<1>2. Book(conn') /\ Steady(conn, conn', {})
  BY <1>1, AgeBook DEF IInv
<1>3. pins' \in Seq(Pins) /\ fence' \in [Digests -> Optional(Requests)]
  BY <1>1 DEF IInv, Typed
<1> QED BY <1>1, <1>2, <1>3, BooksOnly

\* The ranks report another quorum of entries: only the lookups see it.
LEMMA ReportKeeps ==
    ASSUME IInv, UNCHANGED <<conn, engine, workers, bad, content>>
    PROVE  IInv'
<1>1. /\ conn' = conn /\ UNCHANGED <<phase, table, workers, bad, content>>
      /\ pins' = pins /\ fence' = fence
  BY DEF engine
<1>2. Book(conn') /\ Steady(conn, conn', {})
  BY <1>1, SteadySelf DEF IInv
<1>3. pins' \in Seq(Pins) /\ fence' \in [Digests -> Optional(Requests)]
  BY <1>1 DEF IInv, Typed
<1> QED BY <1>1, <1>2, <1>3, BooksOnly

\* The oldest pin is released.
LEMMA ReleasePinKeeps ==
    ASSUME IInv, ReleasePin
    PROVE  IInv'
<1>1. /\ conn' = conn /\ UNCHANGED <<phase, table, workers, bad, content>>
      /\ pins # <<>> /\ pins' = Tail(pins) /\ fence' = fence
  BY DEF ReleasePin
<1>2. Book(conn') /\ Steady(conn, conn', {})
  BY <1>1, SteadySelf DEF IInv
<1>3. pins \in Seq(Pins) /\ fence' \in [Digests -> Optional(Requests)]
  BY <1>1 DEF IInv, Typed
<1>4. pins' \in Seq(Pins) /\ Held(pins') \subseteq Held(pins)
  BY <1>1, <1>3, TailHeld
<1> QED BY <1>1, <1>2, <1>3, <1>4, BooksOnly

\* A pin becomes ready, or is dropped.
LEMMA FinalizeKeeps ==
    ASSUME IInv, NEW key \in Digests, Finalize(key)
    PROVE  IInv'
<1> DEFINE q == fence[key]
<1>0. /\ pins \in Seq(Pins) /\ fence \in [Digests -> Optional(Requests)] /\ Book(conn)
  BY DEF IInv, Typed
<1>1. /\ UNCHANGED <<phase, table, workers, bad, content>>
      /\ fence' = [fence EXCEPT ![key] = None]
      /\ q # None
  BY DEF Finalize, Passed
<1>2. q \in Requests
  BY <1>0, <1>1 DEF Optional
<1>3. fence' \in [Digests -> Optional(Requests)]
  BY <1>0, <1>1 DEF Optional
<1>4. \/ /\ Accepts(conn, q, key) /\ conn' = Publish(conn, q, key)
         /\ \E i \in DOMAIN pins : pins' = [pins EXCEPT ![i].ready = TRUE]
      \/ conn' = Reject(conn, q, key) /\ pins' = Unpinned(key)
  BY DEF Finalize
<1>5. Book(conn') /\ Steady(conn, conn', {})
  BY <1>0, <1>2, <1>4, PublishBook, RejectBook
<1>6. CASE conn' = Reject(conn, q, key) /\ pins' = Unpinned(key)
  <2>1. pins' \in Seq(Pins) /\ Held(pins') \subseteq Held(pins)
    BY <1>0, <1>6, UnpinnedHeld
  <2> QED BY <1>1, <1>3, <1>5, <2>1, BooksOnly
<1>7. ASSUME NEW i \in DOMAIN pins, pins' = [pins EXCEPT ![i].ready = TRUE]
      PROVE  IInv'
  <2>0. /\ i \in 1 .. Len(pins) /\ pins[i] \in Pins /\ Len(pins) \in Nat
    BY <1>0, LenProperties, ElementOfSeq
  <2> DEFINE e == [pins[i] EXCEPT !.ready = TRUE]
  <2>1. e \in Pins /\ e.key = pins[i].key /\ e.blocks = pins[i].blocks
    BY <2>0 DEF Pins
  <2>2. pins' = [pins EXCEPT ![i] = e]
    BY <1>7
  <2> HIDE DEF e
  <2>3. /\ pins' \in Seq(Pins) /\ Len(pins') = Len(pins)
        /\ \A j \in 1 .. Len(pins) : pins'[j] = IF j = i THEN e ELSE pins[j]
    BY <1>0, <2>0, <2>1, <2>2, ExceptSeq
  <2>4. Held(pins') = {pins'[j] : j \in 1 .. Len(pins)} /\ Held(pins) = {pins[j] : j \in 1 .. Len(pins)}
    BY <1>0, <2>3, HeldIs
  <2>5. \A p \in Held(pins') : \E o \in Held(pins) : p.key = o.key /\ p.blocks = o.blocks
    BY <2>0, <2>1, <2>3, <2>4
  <2> QED BY <1>1, <1>3, <1>5, <2>3, <2>5, BooksOnly
<1> QED BY <1>4, <1>6, <1>7

\* A request that is ready or runs on blocks that hold an entry of its prompt.
LEMMA StageReady ==
    ASSUME NEW q \in Requests, conn'.pending[q] = None, phase'[q] \in {"ready", "running"},
           table'[q] # <<>> =>
             \E d \in Candidates[q] : Span[d] = Len(table'[q]) /\ \A b \in Held(table'[q]) : d \in content'[b]
    PROVE  StageOK(q)'
BY DEF StageOK, Loading, Writing

\* A request without blocks.
LEMMA StageIdle ==
    ASSUME NEW q \in Requests, conn'.pending[q] = None,
           phase'[q] \in {"waiting", "ready", "running", "done"}, table'[q] = <<>>
    PROVE  StageOK(q)'
BY DEF StageOK, Loading, Writing

\* No blocks.
LEMMA EmptyTable == Held(<<>>) = {} /\ <<>> \in Seq(Blocks)
BY DEF Held

\* q leaves the blocks it has, or waits without any.
LEMMA OneStops ==
    ASSUME IInv, NEW q \in Requests, phase[q] \notin Writing,
           Book(conn'), Steady(conn, conn', {q}),
           NEW x \in {"waiting", "ready", "running", "done"}, phase' = [phase EXCEPT ![q] = x],
           table' = [table EXCEPT ![q] = <<>>],
           UNCHANGED workers, UNCHANGED content, pins' = pins, fence' = fence,
           bad' \in SUBSET Requests, \A p \in Requests \ {q} : p \in bad => p \in bad'
    PROVE  IInv'
<1>0. /\ ~Loading(q) /\ conn'.pending[q] = None
  BY NotLoading DEF Steady
<1>1. /\ phase'[q] = x /\ table'[q] = <<>>
  BY DEF IInv, Typed
<1>2. StageOK(q)'
  BY <1>0, <1>1, StageIdle
<1>3. PinsOK' /\ pins' \in Seq(Pins) /\ fence' \in [Digests -> Optional(Requests)]
  BY PinsKept DEF IInv, Typed
<1>4. \A p \in Requests \ {q} : phase[p] \in Writing =>
         /\ Held(table[p]) \cap Held(<<>>) = {}
         /\ \A o \in Held(pins') : Held(table[p]) \cap Held(o.blocks) = {}
  BY EmptyTable DEF IInv, Apart
<1>5. <<>> \in Seq(Blocks)
  BY EmptyTable
<1> QED BY <1>0, <1>2, <1>3, <1>4, <1>5, OneMoves

\* q keeps its blocks.
LEMMA OneStays ==
    ASSUME IInv, NEW q \in Requests, phase[q] \notin Writing,
           Book(conn'), Steady(conn, conn', {q}),
           NEW x \in {"waiting", "ready", "running", "done"}, phase' = [phase EXCEPT ![q] = x],
           UNCHANGED table, UNCHANGED workers, UNCHANGED content,
           pins' \in Seq(Pins), PinsOK', fence' \in [Digests -> Optional(Requests)],
           \A p \in Requests \ {q} : phase[p] \in Writing =>
             \A o \in Held(pins') : Held(table[p]) \cap Held(o.blocks) = {},
           bad' \in SUBSET Requests, \A p \in Requests \ {q} : p \in bad => p \in bad',
           StageOK(q)'
    PROVE  IInv'
<1>0. ~Loading(q)
  BY NotLoading
<1>1. table \in [Requests -> Seq(Blocks)]
  BY DEF IInv, Typed
<1>2. table[q] \in Seq(Blocks) /\ table' = [table EXCEPT ![q] = table[q]]
  BY <1>1
<1>3. \A p \in Requests \ {q} : phase[p] \in Writing =>
         /\ Held(table[p]) \cap Held(table[q]) = {}
         /\ \A o \in Held(pins') : Held(table[p]) \cap Held(o.blocks) = {}
  BY DEF IInv, Apart
<1> DEFINE t == table[q]
<1>4. t \in Seq(Blocks) /\ table' = [table EXCEPT ![q] = t]
  BY <1>2
<1>5. \A p \in Requests \ {q} : phase[p] \in Writing =>
         /\ Held(table[p]) \cap Held(t) = {}
         /\ \A o \in Held(pins') : Held(table[p]) \cap Held(o.blocks) = {}
  BY <1>3
<1> HIDE DEF t
<1> QED BY <1>0, <1>4, <1>5, OneMoves

\* A ready request starts to run.
LEMMA StartKeeps ==
    ASSUME IInv, NEW q \in Requests, Start(q)
    PROVE  IInv'
<1> DEFINE c == AllocatedNone(conn, q)
           v == IF c.admitted[q] # None /\ c.admitted[q].digest = Longest(Candidates[q])
                     /\ q \notin preempted THEN None ELSE c.admitted[q]
           A == [c.admitted EXCEPT ![q] = v]
<1>1. /\ phase[q] = "ready" /\ phase' = [phase EXCEPT ![q] = "running"]
      /\ UNCHANGED table /\ UNCHANGED workers /\ UNCHANGED content
      /\ pins' = pins /\ fence' = fence /\ bad' = bad
  BY DEF Start
<1>2. conn' = [c EXCEPT !.admitted = A]
  BY DEF Start
<1>3. Book(c) /\ Steady(conn, c, {})
  BY AllocatedNoneBook DEF IInv
<1> HIDE DEF c
<1>4. c.admitted \in [Requests -> Optional(Admissions)]
  BY <1>3, ConnIs DEF Book
<1>5. A \in [Requests -> Optional(Admissions)]
  BY <1>4 DEF Optional
<1> HIDE DEF A
<1>6. Book(conn') /\ Steady(c, conn', {})
  BY <1>2, <1>3, <1>5, AdmittedBook
<1>7. Steady(conn, conn', {q})
  BY <1>3, <1>6, SteadyComposes, SteadyMore
<1>8. conn'.pending[q] = None /\ phase[q] \notin Writing
  BY <1>1, <1>7, NotLoading DEF Steady, Writing
<1>9. StageOK(q)'
  <2>1. phase'[q] = "running" /\ table'[q] = table[q] /\ content' = content
    BY <1>1 DEF IInv, Typed
  <2>2. StageOK(q)
    BY DEF IInv, StagesOK
  <2>3. table[q] # <<>> =>
             \E d \in Candidates[q] : Span[d] = Len(table[q]) /\ \A b \in Held(table[q]) : d \in content[b]
    BY <1>1, <2>2 DEF StageOK
  <2> QED BY <1>8, <2>1, <2>3, StageReady
<1>10. PinsOK' /\ pins' \in Seq(Pins) /\ fence' \in [Digests -> Optional(Requests)] /\ bad' \in SUBSET Requests
  BY <1>1, PinsKept DEF IInv, Typed
<1>11. \A p \in Requests \ {q} : phase[p] \in Writing =>
             \A o \in Held(pins') : Held(table[p]) \cap Held(o.blocks) = {}
  BY <1>1 DEF IInv, Apart
<1> QED BY <1>1, <1>6, <1>7, <1>8, <1>9, <1>10, <1>11, OneStays

\* A preempted request loses its blocks and waits again.
LEMMA PreemptKeeps ==
    ASSUME IInv, NEW q \in Requests, Preempt(q)
    PROVE  IInv'
<1>1. /\ phase[q] = "running" /\ phase' = [phase EXCEPT ![q] = "waiting"]
      /\ table' = [table EXCEPT ![q] = <<>>]
      /\ UNCHANGED workers /\ UNCHANGED content
      /\ pins' = pins /\ fence' = fence /\ bad' = bad /\ conn' = conn
  BY DEF Preempt
<1>2. Book(conn') /\ Steady(conn, conn', {q}) /\ phase[q] \notin Writing
  BY <1>1, SteadySelf DEF IInv, Writing
<1>3. bad' \in SUBSET Requests
  BY <1>1 DEF IInv, Typed
<1> QED BY <1>1, <1>2, <1>3, OneStops

\* An aborted request whose load is under way keeps its blocks.
LEMMA DrainKeeps ==
    ASSUME IInv, NEW q \in Requests, phase[q] = "parked", conn.pending[q] = None,
           Book(conn'), Steady(conn, conn', {}),
           phase' = [phase EXCEPT ![q] = "draining"], UNCHANGED table, UNCHANGED workers,
           UNCHANGED content, pins' = pins, fence' = fence, bad' = bad \ {q}
    PROVE  IInv'
<1>0. /\ load' = load /\ errors' = errors /\ finished' = finished /\ taken' = taken
      /\ acks' = acks /\ table' = table /\ content' = content
  BY DEF workers
<1>1. Typed'
  BY <1>0 DEF IInv, Typed
<1>2. \A p \in Requests : phase'[p] = IF p = q THEN "draining" ELSE phase[p]
  BY DEF IInv, Typed
<1>3. conn'.pending = conn.pending
  BY DEF Steady
<1>4. ASSUME NEW p \in Requests, NEW r \in Ranks PROVE RankOK(p, r)'
  <2>1. RankOK(p, r)
    BY DEF IInv, RanksOK
  <2>2. Loading(p) => Loading(p)'
    BY <1>2, <1>3 DEF Loading, Writing
  <2>3. phase'[p] = "parked" /\ conn'.pending[p] = None =>
          phase[p] = "parked" /\ conn.pending[p] = None /\ table'[p] = table[p]
            /\ (p \in bad => p \in bad')
    BY <1>0, <1>2, <1>3
  <2> QED BY <2>1, <2>2, <2>3, RankKept
<1>5. ASSUME NEW p \in Requests PROVE StageOK(p)'
  <2>0. StageOK(p)
    BY DEF IInv, StagesOK
  <2>1. CASE p # q
    <3>1. p \notin {} /\ phase'[p] = phase[p] /\ table'[p] = table[p] /\ load'[p] = load[p]
      BY <1>0, <1>2, <2>1
    <3> QED BY <1>0, <2>0, <2>1, <3>1, StageKept
  <2>2. CASE p = q
    <3>1. LoadOK(p) /\ Led(p) /\ (Ranks # {} /\ Verified(p) => Holds(p))
      BY <2>0, <2>2 DEF StageOK, Loading, Writing
    <3>2. LoadOK(p)' /\ (Verified(p)' => Verified(p)) /\ (Holds(p) => Holds(p)')
      BY <1>0, <3>1 DEF LoadOK, Verified, Holds, Loaded
    <3>3. Led(p)'
      BY <1>0, <3>1 DEF Led, Steady
    <3>4. conn'.pending[p] = None /\ phase'[p] = "draining"
      BY <1>2, <1>3, <2>2
    <3> QED BY <3>1, <3>2, <3>3, <3>4 DEF StageOK
  <2> QED BY <2>1, <2>2
<1>6. Apart'
  BY <1>0, <1>2, ApartKept DEF IInv, Writing
<1>7. PinsOK'
  BY <1>0, PinsKept DEF IInv
<1> QED BY <1>1, <1>4, <1>5, <1>6, <1>7 DEF IInv, RanksOK, StagesOK

\* A finished or aborted request, whose blocks drain if they are written.
LEMMA FinishKeeps ==
    ASSUME IInv, NEW q \in Requests, Finish(q)
    PROVE  IInv'
<1>1. /\ phase[q] \notin {"draining", "done"} /\ conn' = RequestFinished(conn, q)
      /\ conn.pending[q] = None
      /\ UNCHANGED workers /\ UNCHANGED content
      /\ pins' = pins /\ fence' = fence /\ bad' = bad \ {q}
  BY DEF Finish, Scheduled
<1>2. Book(conn') /\ Steady(conn, conn', {})
  BY <1>1, RequestFinishedBook DEF IInv
<1>3. CASE phase[q] = "parked"
  <2>1. phase' = [phase EXCEPT ![q] = "draining"]
    BY <1>3 DEF Finish
  <2>2. UNCHANGED table
    BY <1>3 DEF Finish, IInv, Typed
  <2> QED BY <1>1, <1>2, <1>3, <2>1, <2>2, DrainKeeps
<1>4. CASE phase[q] # "parked"
  <2>1. phase' = [phase EXCEPT ![q] = "done"] /\ table' = [table EXCEPT ![q] = <<>>]
    BY <1>4 DEF Finish
  <2>2. phase[q] \notin Writing
    BY <1>1, <1>4 DEF Writing
  <2>3. bad' \in SUBSET Requests /\ \A p \in Requests \ {q} : p \in bad => p \in bad'
    BY <1>1 DEF IInv, Typed
  <2>4. Steady(conn, conn', {q})
    BY <1>2, SteadyMore
  <2> QED BY <1>1, <1>2, <2>1, <2>2, <2>3, <2>4, OneStops
<1> QED BY <1>3, <1>4

\* q attaches the blocks of a ready pin.
LEMMA AttachLeaseKeeps ==
    ASSUME IInv, NEW q \in Requests, AttachLease(q)
    PROVE  IInv'
<1>1. /\ phase[q] = "waiting" /\ phase' = [phase EXCEPT ![q] = "ready"]
      /\ UNCHANGED workers /\ UNCHANGED content
      /\ pins' = pins /\ fence' = fence /\ bad' = bad
  BY DEF AttachLease
<1> DEFINE e == Expire(conn)
<1>a. PICK a \in LeaseCandidates(e, q) :
        \E p \in Pinned(a.key) : conn' = a.c /\ table' = [table EXCEPT ![q] = p.blocks]
  BY DEF AttachLease
<1>2. PICK p \in Pinned(a.key) : conn' = a.c /\ table' = [table EXCEPT ![q] = p.blocks]
  BY <1>a
<1>3. Book(e) /\ Steady(conn, e, {})
  BY ExpireBook DEF IInv
<1> HIDE DEF e
<1>4. /\ Book(conn') /\ Steady(e, conn', {})
      /\ a.key # None => a.key \in Candidates[q]
  BY <1>2, <1>3, LeaseCandidatesBook
<1>5. Steady(conn, conn', {q})
  BY <1>3, <1>4, SteadyComposes, SteadyMore
<1>6. p \in Held(pins) /\ p.key = a.key
  BY DEF Pinned
<1>7. p \in Pins
  BY <1>6, HeldIs DEF IInv, Typed
<1>8. p.key \in Candidates[q] /\ PinOK(p) /\ p.blocks \in Seq(Blocks)
  <2>1. p.key \in Digests /\ p.blocks \in Seq(Blocks)
    BY <1>7 DEF Pins
  <2>2. p.key # None
    BY <2>1, FlightConstants
  <2>3. PinOK(p)
    BY <1>6 DEF IInv, PinsOK
  <2> QED BY <1>4, <1>6, <2>1, <2>2, <2>3
<1>9. ~Loading(q) /\ conn'.pending[q] = None
  BY <1>1, <1>5, NotLoading DEF Steady, Writing
<1>10. StageOK(q)'
  <2>1. phase'[q] = "ready" /\ table'[q] = p.blocks /\ content' = content
    BY <1>1, <1>2 DEF IInv, Typed
  <2>2. Span[p.key] = Len(p.blocks) /\ \A b \in Held(p.blocks) : p.key \in content[b]
    BY <1>8 DEF PinOK
  <2>3. \E d \in Candidates[q] : Span[d] = Len(table'[q]) /\ \A b \in Held(table'[q]) : d \in content'[b]
    BY <1>8, <2>1, <2>2
  <2> QED BY <1>9, <2>1, <2>3, StageReady
<1>11. PinsOK' /\ pins' \in Seq(Pins) /\ fence' \in [Digests -> Optional(Requests)] /\ bad' \in SUBSET Requests
  BY <1>1, PinsKept DEF IInv, Typed
<1> DEFINE t == p.blocks
<1>12. \A o \in Requests \ {q} : phase[o] \in Writing =>
         /\ Held(table[o]) \cap Held(t) = {}
         /\ \A k \in Held(pins') : Held(table[o]) \cap Held(k.blocks) = {}
  BY <1>1, <1>6 DEF IInv, Apart
<1>13. t \in Seq(Blocks) /\ table' = [table EXCEPT ![q] = t]
  BY <1>2, <1>8
<1> HIDE DEF t
<1> QED BY <1>1, <1>4, <1>5, <1>9, <1>10, <1>11, <1>12, <1>13, OneMoves

\* What a verified load has put into the blocks of q.
LEMMA LoadCovers ==
    ASSUME NEW q \in Requests, LoadOK(q), Holds(q), table[q] \in Seq(Blocks),
           NEW key \in Digests, key \in {load[q].digest, load[q].segment},
           Span[key] <= Len(table[q])
    PROVE  /\ First(table[q], Span[key]) \in Seq(Blocks)
           /\ Len(First(table[q], Span[key])) = Span[key]
           /\ Held(First(table[q], Span[key])) \subseteq Held(table[q])
           /\ \A b \in Held(First(table[q], Span[key])) : key \in content[b]
           /\ Span[key] = Len(table[q]) => First(table[q], Span[key]) = table[q]
<1>0. Span[key] \in Nat /\ key # None
  BY FlightConstants
<1>1. /\ First(table[q], Span[key]) \in Seq(Blocks)
      /\ Len(First(table[q], Span[key])) = Span[key]
      /\ Held(First(table[q], Span[key])) \subseteq Held(table[q])
      /\ Span[key] = Len(table[q]) => First(table[q], Span[key]) = table[q]
  BY <1>0, FirstIs
<1>2. ASSUME NEW b \in Held(First(table[q], Span[key])) PROVE key \in content[b]
  <2>1. key \in Loaded(q, b)
    BY <1>0, <1>2 DEF Loaded
  <2>2. b \in Held(table[q])
    BY <1>1
  <2> QED BY <2>1, <2>2 DEF Holds
<1> QED BY <1>1, <1>2

\* A promoted request runs on the entry it loaded.
LEMMA PromotedReady ==
    ASSUME IInv, NEW q \in Requests, phase[q] = "loaded", q \notin bad,
           conn'.pending[q] = None, phase'[q] = "ready", table' = table, content' = content
    PROVE  StageOK(q)'
<1>1. LoadOK(q) /\ Holds(q) /\ table[q] \in Seq(Blocks)
  BY DEF IInv, StagesOK, StageOK, Typed
<1> DEFINE d == load[q].digest
<1>2. d \in Candidates[q] /\ d \in Digests /\ Len(table[q]) = Span[d] /\ Span[d] \in Nat
  BY <1>1, CandidatesAreDigests, FlightConstants DEF LoadOK
<1>3. Span[d] <= Len(table[q]) /\ d \in {load[q].digest, load[q].segment}
  BY <1>2
<1> HIDE DEF d
<1>4. \A b \in Held(table[q]) : d \in content[b]
  BY <1>1, <1>2, <1>3, LoadCovers
<1>5. \E k \in Candidates[q] : Span[k] = Len(table'[q]) /\ \A b \in Held(table'[q]) : k \in content'[b]
  BY <1>2, <1>4
<1> QED BY <1>5, StageReady

\* The key a leader publishes is its entry or a shorter one, and both were loaded.
LEMMA PublishedKey ==
    ASSUME IInv, NEW q \in Requests, Led(q), LoadOK(q),
           NEW key, key = LeaseToPublish(conn, q), key # None
    PROVE  /\ key \in Digests /\ key \in {load[q].digest, load[q].segment}
           /\ Span[key] <= Len(table[q])
<1> DEFINE d == conn.leads[q]
           f == conn.flights[d]
<1>1. d # None /\ key = LeaseKey(conn, d)
  BY DEF LeaseToPublish
<1>2. d \in Digests /\ f # None /\ conn \in Conns
  BY <1>1, ConnParts DEF IInv, Book, LeadersOK
<1>3. FlightOK(d, f) /\ f \in FlightRecords
  BY <1>2, ConnParts DEF IInv, Book, FlightsOK
<1>4. d = load[q].digest /\ f.segment \in {None, load[q].segment} /\ Len(table[q]) = Span[d]
  BY <1>1 DEF Led, LoadOK
<1>5. CASE f.segment = None
  <2>1. key = d
    BY <1>1, <1>5 DEF LeaseKey
  <2>2. Span[d] \in Nat
    BY <1>2, FlightConstants
  <2> QED BY <1>2, <1>4, <2>1, <2>2
<1>6. CASE f.segment # None
  <2>1. key = f.segment
    BY <1>1, <1>6 DEF LeaseKey
  <2>2. key \in Shorter(f.leader, d) /\ key \in Digests
    BY <1>3, <1>6, <2>1 DEF FlightOK, FlightRecords, Optional
  <2>3. Span[key] \in Nat /\ Span[d] \in Nat /\ Span[key] < Span[d]
    BY <1>2, <2>2, FlightConstants DEF Shorter
  <2> QED BY <1>4, <1>6, <2>1, <2>2, <2>3
<1> QED BY <1>5, <1>6

\* publish_shared_prefix_lease keeps or drops the pins there are, and adds one at most.
LEMMA PublishPinIs ==
    ASSUME pins \in Seq(Pins), NEW key \in Digests, NEW q \in Requests,
           First(table[q], Span[key]) \in Seq(Blocks)
    PROVE  /\ PublishPin(key, q) \in Seq(Pins)
           /\ \A p \in Held(PublishPin(key, q)) :
                p \in Held(pins) \/ (p.key = key /\ p.blocks = First(table[q], Span[key]))
           /\ Len(pins) <= MaxLeases => Len(PublishPin(key, q)) <= MaxLeases
<1> DEFINE same == {i \in DOMAIN pins : pins[i].key = key}
           old == pins[CHOOSE i \in same : TRUE]
           new == [key |-> key, blocks |-> First(table[q], Span[key]), ready |-> FALSE]
           rest == IF Len(pins) >= MaxLeases THEN Tail(pins) ELSE pins
<1>0. /\ DOMAIN pins = 1 .. Len(pins) /\ \A i \in 1 .. Len(pins) : pins[i] \in Pins
      /\ Len(pins) \in Nat
  BY LenProperties, ElementOfSeq
<1>1. CASE same # {}
  <2>1. PublishPin(key, q) = Append(Unpinned(key), old)
    BY <1>1 DEF PublishPin
  <2>2. old \in Pins /\ old \in Held(pins)
    BY <1>0, <1>1 DEF Held
  <2>3. Unpinned(key) \in Seq(Pins) /\ Held(Unpinned(key)) \subseteq Held(pins)
    BY UnpinnedHeld
  <2> DEFINE u == Unpinned(key)
  <2> HIDE DEF old, u
  <2>4. Append(u, old) \in Seq(Pins) /\ Held(Append(u, old)) = Held(u) \cup {old}
    BY <2>2, <2>3, AppendHeld DEF u
  <2>5. Len(u) = Len(pins) - 1
    BY <1>1, UnpinnedHeld DEF u
  <2>6. Len(Append(u, old)) = Len(u) + 1
    BY <2>2, <2>3, AppendProperties DEF u
  <2>7. Len(Append(u, old)) = Len(pins)
    BY <1>0, <2>5, <2>6
  <2> QED BY <2>1, <2>2, <2>3, <2>4, <2>7 DEF u
<1>2. CASE same = {}
  <2>1. PublishPin(key, q) = Append(rest, new)
    BY <1>2 DEF PublishPin
  <2>2. new \in Pins /\ new.key = key /\ new.blocks = First(table[q], Span[key])
    BY DEF Pins
  <2>3. rest \in Seq(Pins) /\ Held(rest) \subseteq Held(pins)
    <3>1. CASE Len(pins) >= MaxLeases
      <4>1. pins # <<>>
        BY <3>1, FlightConstants
      <4> QED BY <3>1, <4>1, TailHeld
    <3>2. CASE ~(Len(pins) >= MaxLeases)
      BY <3>2
    <3> QED BY <3>1, <3>2
  <2>5. MaxLeases \in Nat /\ (Len(pins) <= MaxLeases => Len(rest) + 1 <= MaxLeases)
    <3>0. MaxLeases \in Nat \ {0}
      BY FlightConstants
    <3>1. CASE Len(pins) >= MaxLeases
      <4>1. pins # <<>>
        BY <3>0, <3>1
      <4>2. Len(Tail(pins)) = Len(pins) - 1
        BY <4>1, HeadTailProperties
      <4> QED BY <1>0, <3>0, <3>1, <4>2
    <3>2. CASE ~(Len(pins) >= MaxLeases)
      BY <1>0, <3>0, <3>2
    <3> QED BY <3>0, <3>1, <3>2
  <2> HIDE DEF new, rest
  <2>6. Len(Append(rest, new)) = Len(rest) + 1
    BY <2>2, <2>3, AppendProperties
  <2>4. Append(rest, new) \in Seq(Pins) /\ Held(Append(rest, new)) = Held(rest) \cup {new}
    BY <2>2, <2>3, AppendHeld
  <2> QED BY <2>1, <2>2, <2>3, <2>4, <2>5, <2>6
<1> QED BY <1>1, <1>2

\* A parked request whose load ended runs on it, or waits again without it.
LEMMA PromoteKeeps ==
    ASSUME IInv, NEW q \in Requests, NEW published, Promote(q, published)
    PROVE  IInv'
<1> DEFINE key == LeaseToPublish(conn, q)
<1>1. /\ phase[q] = "loaded" /\ conn.pending[q] = None
      /\ bad' = bad \ {q} /\ UNCHANGED workers /\ UNCHANGED content
  BY DEF Promote, Scheduled
<1>2. /\ phase[q] \notin Writing
      /\ bad' \in SUBSET Requests /\ \A p \in Requests \ {q} : p \in bad => p \in bad'
  BY <1>1 DEF IInv, Typed, Writing
<1>3. Typed /\ Book(conn)
  BY DEF IInv
<1>4. CASE q \in bad
  <2>1. /\ phase' = [phase EXCEPT ![q] = "waiting"] /\ table' = [table EXCEPT ![q] = <<>>]
        /\ conn' = conn /\ pins' = pins /\ fence' = fence
    BY <1>4 DEF Promote
  <2>2. Book(conn') /\ Steady(conn, conn', {q})
    BY <1>3, <2>1, SteadySelf
  <2> QED BY <1>1, <1>2, <2>1, <2>2, OneStops
<1>5. CASE q \notin bad
  <2>1. phase' = [phase EXCEPT ![q] = "ready"] /\ table' = table
    BY <1>5 DEF Promote
  <2>2. \/ conn' = conn /\ pins' = pins /\ fence' = fence
        \/ conn' = Reject(conn, q, key) /\ pins' = pins /\ fence' = fence
        \/ /\ conn' = conn /\ key # None /\ pins' = PublishPin(key, q)
           /\ fence' = [fence EXCEPT ![key] = q]
    BY <1>5 DEF Promote
  <2>3. LoadOK(q) /\ Led(q) /\ Holds(q) /\ table[q] \in Seq(Blocks)
    BY <1>1, <1>5 DEF IInv, StagesOK, StageOK, Typed
  <2> HIDE DEF key
  <2>4. Book(conn') /\ Steady(conn, conn', {})
    BY <1>3, <2>2, SteadySelf, RejectBook
  <2>5. Steady(conn, conn', {q}) /\ conn'.pending[q] = None
    BY <1>1, <2>4, SteadyMore DEF Steady
  <2>6. StageOK(q)'
    <3>1. phase'[q] = "ready"
      BY <2>1 DEF IInv, Typed
    <3> QED BY <1>1, <1>5, <2>1, <2>5, <3>1, PromotedReady
  <2>7. /\ pins' \in Seq(Pins) /\ fence' \in [Digests -> Optional(Requests)] /\ PinsOK'
        /\ \A p \in Requests \ {q} : phase[p] \in Writing =>
             \A o \in Held(pins') : Held(table[p]) \cap Held(o.blocks) = {}
    <3>1. CASE pins' = pins /\ fence' = fence
      BY <1>1, <3>1, PinsKept DEF IInv, Typed, Apart
    <3>2. CASE key # None /\ pins' = PublishPin(key, q) /\ fence' = [fence EXCEPT ![key] = q]
      <4> DEFINE t == First(table[q], Span[key])
      <4>1. /\ key \in Digests /\ key \in {load[q].digest, load[q].segment}
            /\ Span[key] <= Len(table[q])
        BY <2>3, <3>2, PublishedKey DEF key
      <4>2. /\ t \in Seq(Blocks) /\ Len(t) = Span[key] /\ Held(t) \subseteq Held(table[q])
            /\ \A b \in Held(t) : key \in content[b]
        BY <2>3, <4>1, LoadCovers
      <4>3. pins \in Seq(Pins) /\ fence \in [Digests -> Optional(Requests)]
        BY DEF IInv, Typed
      <4>4. /\ pins' \in Seq(Pins)
            /\ \A p \in Held(pins') : p \in Held(pins) \/ (p.key = key /\ p.blocks = t)
        BY <3>2, <4>1, <4>2, <4>3, PublishPinIs
      <4> HIDE DEF t
      <4>5. fence' \in [Digests -> Optional(Requests)]
        BY <3>2, <4>3 DEF Optional
      <4>6. \A p \in Held(pins) : PinOK(p)
        BY DEF IInv, PinsOK
      <4>7. PinsOK'
        <5> SUFFICES ASSUME NEW p \in Held(pins')
                     PROVE  Len(p.blocks) = Span[p.key] /\ \A b \in Held(p.blocks) : p.key \in content'[b]
          BY DEF PinsOK, PinOK
        <5> QED BY <1>1, <4>2, <4>4, <4>6 DEF PinOK
      <4>8. \A p \in Requests \ {q} : phase[p] \in Writing =>
             \A o \in Held(pins') : Held(table[p]) \cap Held(o.blocks) = {}
        <5> SUFFICES ASSUME NEW p \in Requests \ {q}, phase[p] \in Writing, NEW o \in Held(pins')
                     PROVE  Held(table[p]) \cap Held(o.blocks) = {}
          OBVIOUS
        <5>1. /\ Held(table[p]) \cap Held(table[q]) = {}
              /\ \A k \in Held(pins) : Held(table[p]) \cap Held(k.blocks) = {}
          BY DEF IInv, Apart
        <5> QED BY <4>2, <4>4, <5>1
      <4> QED BY <4>4, <4>5, <4>7, <4>8
    <3> QED BY <2>2, <3>1, <3>2
  <2>8. UNCHANGED table
    BY <2>1
  <2> QED BY <1>1, <1>2, <2>1, <2>4, <2>5, <2>6, <2>7, <2>8, OneStays
<1> QED BY <1>4, <1>5

\* The blocks vLLM allocates are free.
LEMMA TablesAreFree ==
    ASSUME NEW d \in Digests, NEW s \in Tables(d), table \in [Requests -> Seq(Blocks)],
           pins \in Seq(Pins)
    PROVE  /\ s \in Seq(Blocks) /\ Len(s) = Span[d]
           /\ \A p \in Requests : Held(s) \cap Held(table[p]) = {}
           /\ \A p \in Held(pins) : Held(s) \cap Held(p.blocks) = {}
<1>1. PICK f \in [1 .. Span[d] -> Free] : s = First(f, Span[d])
  BY DEF Tables
<1>2. Span[d] \in Nat
  BY FlightConstants
<1>3. f \in Seq(Free) /\ Len(f) = Span[d]
  <2>1. f \in Seq(Free)
    BY <1>2, SeqDef
  <2>2. DOMAIN f = 1 .. Len(f) /\ DOMAIN f = 1 .. Span[d] /\ Len(f) \in Nat
    BY <2>1, LenProperties
  <2> QED BY <1>2, <2>1, <2>2
<1>4. s = f
  BY <1>1, <1>2, <1>3, FirstIs
<1>5. Held(s) \subseteq Free
  BY <1>3, <1>4, HeldIs
<1>6. s \in Seq(Blocks)
  BY <1>3, <1>4, SeqMonotonic DEF Free
<1> DEFINE T == UNION {Held(table[p]) : p \in Requests}
           P == UNION {Held(p.blocks) : p \in Held(pins)}
<1>a. Free = Blocks \ (T \cup P)
  BY DEF Free
<1>8. /\ \A p \in Requests : Held(table[p]) \subseteq T
      /\ \A p \in Held(pins) : Held(p.blocks) \subseteq P
  OBVIOUS
<1> HIDE DEF T, P
<1>7. Held(s) \cap T = {} /\ Held(s) \cap P = {}
  BY <1>5, <1>a
<1>9. /\ \A p \in Requests : Held(s) \cap Held(table[p]) = {}
      /\ \A p \in Held(pins) : Held(s) \cap Held(p.blocks) = {}
  BY <1>7, <1>8
<1> QED BY <1>3, <1>4, <1>6, <1>9

\* vLLM has allocated blocks for the entry q leads: the request is parked.
LEMMA ParkKeeps ==
    ASSUME IInv, NEW q \in Requests, phase[q] = "waiting", NEW d \in Candidates[q],
           NEW m, Book(m), Steady(conn, m, {q}), m.leads[q] = d, m.need[q] = d,
           NEW s \in Tables(d), table' = [table EXCEPT ![q] = s],
           content' = [b \in Blocks |-> IF b \in Held(s) THEN {} ELSE content[b]],
           conn' = Allocated(m, q), phase' = [phase EXCEPT ![q] = "parked"],
           UNCHANGED <<pins, fence, workers, bad>>
    PROVE  IInv'
<1>0. /\ load' = load /\ errors' = errors /\ finished' = finished /\ taken' = taken
      /\ acks' = acks /\ pins' = pins /\ fence' = fence /\ bad' = bad /\ UNCHANGED workers
  BY DEF workers
<1>1. d \in Digests /\ d # None
  BY CandidatesAreDigests, FlightConstants
<1>2. ~Loading(q) /\ conn.pending[q] = None
  BY NotLoading DEF Writing
<1>3. m.pending = conn.pending /\ m.pending[q] = None
  BY <1>2 DEF Steady
<1>4. /\ Book(conn') /\ conn'.flights = m.flights /\ conn'.leads = m.leads
      /\ conn'.pending = [m.pending EXCEPT ![q] = m.need[q]]
  BY <1>1, <1>3, AllocatedBook
<1>5. conn.pending \in [Requests -> Optional(Digests)]
  BY ConnIs DEF IInv, Book
<1>6. \A p \in Requests : conn'.pending[p] = IF p = q THEN d ELSE conn.pending[p]
  BY <1>3, <1>4, <1>5
<1>7. /\ phase \in [Requests -> {"waiting", "parked", "loaded", "ready", "running", "draining", "done"}]
      /\ table \in [Requests -> Seq(Blocks)] /\ pins \in Seq(Pins)
      /\ content \in [Blocks -> SUBSET Digests]
  BY DEF IInv, Typed
<1>8. /\ s \in Seq(Blocks) /\ Len(s) = Span[d]
      /\ \A p \in Requests : Held(s) \cap Held(table[p]) = {}
      /\ \A p \in Held(pins) : Held(s) \cap Held(p.blocks) = {}
  BY <1>1, <1>7, TablesAreFree
<1>9. /\ \A p \in Requests : phase'[p] = IF p = q THEN "parked" ELSE phase[p]
      /\ \A p \in Requests : table'[p] = IF p = q THEN s ELSE table[p]
  BY <1>7
<1>10. Typed'
  <2>1. content' \in [Blocks -> SUBSET Digests]
    BY <1>7
  <2> QED BY <1>0, <1>8, <2>1 DEF IInv, Typed
<1>11. ASSUME NEW p \in Requests, NEW r \in Ranks PROVE RankOK(p, r)'
  <2>1. RankOK(p, r)
    BY DEF IInv, RanksOK
  <2>2. Loading(p) => Loading(p)'
    BY <1>2, <1>6, <1>9 DEF Loading
  <2>3. phase'[p] = "parked" /\ conn'.pending[p] = None =>
          phase[p] = "parked" /\ conn.pending[p] = None /\ table'[p] = table[p]
            /\ (p \in bad => p \in bad')
    BY <1>0, <1>1, <1>6, <1>9
  <2> QED BY <1>0, <2>1, <2>2, <2>3, RankKept
<1>12. \A p \in Requests \ {q} : \A b \in Held(table[p]) : content'[b] = content[b]
  <2> SUFFICES ASSUME NEW p \in Requests \ {q}, NEW b \in Held(table[p])
               PROVE  content'[b] = content[b]
    OBVIOUS
  <2>1. b \in Blocks /\ b \notin Held(s)
    BY <1>7, <1>8, HeldIs
  <2> QED BY <2>1
<1>13. ASSUME NEW p \in Requests PROVE StageOK(p)'
  <2>1. CASE p # q
    <3>1. StageOK(p)
      BY DEF IInv, StagesOK
    <3>2. SteadyAt(conn, conn', p)
      BY <1>3, <1>4, <1>6, <2>1 DEF Steady, SteadyAt
    <3>3. phase'[p] = phase[p] /\ table'[p] = table[p] /\ load'[p] = load[p]
      BY <1>0, <1>9, <2>1
    <3>4. \A b \in Held(table[p]) : content'[b] = content[b]
      BY <1>12, <2>1
    <3> QED BY <1>0, <3>1, <3>2, <3>3, <3>4, StageKeptAt
  <2>2. CASE p = q
    BY <1>1, <1>4, <1>6, <1>8, <1>9, <2>2 DEF StageOK, Loading
  <2> QED BY <2>1, <2>2
<1>14. Apart'
  <2> SUFFICES ASSUME NEW p \in Requests, phase'[p] \in Writing
               PROVE  /\ \A o \in Requests \ {p} : Held(table'[p]) \cap Held(table'[o]) = {}
                      /\ \A o \in Held(pins) : Held(table'[p]) \cap Held(o.blocks) = {}
    BY <1>0 DEF Apart, Writing
  <2>1. CASE p = q
    BY <1>8, <1>9, <2>1
  <2>2. CASE p # q
    <3>1. /\ \A o \in Requests \ {p} : Held(table[p]) \cap Held(table[o]) = {}
          /\ \A o \in Held(pins) : Held(table[p]) \cap Held(o.blocks) = {}
      BY <1>9, <2>2 DEF IInv, Apart
    <3> QED BY <1>8, <1>9, <2>2, <3>1
  <2> QED BY <2>1, <2>2
<1>15. PinsOK'
  <2>1. \A o \in Held(pins) : \A b \in Held(o.blocks) : content'[b] = content[b]
    <3> SUFFICES ASSUME NEW o \in Held(pins), NEW b \in Held(o.blocks)
                 PROVE  content'[b] = content[b]
      OBVIOUS
    <3>1. o \in Pins
      BY <1>7, HeldIs
    <3>2. b \in Blocks
      BY <3>1, HeldIs DEF Pins
    <3> QED BY <1>8, <3>2
  <2> QED BY <1>0, <2>1, PinsKept DEF IInv
<1> QED BY <1>4, <1>10, <1>11, <1>13, <1>14, <1>15 DEF IInv, RanksOK, StagesOK

\* The lookup of a waiting request, and what vLLM allocates for its answer.
LEMMA LookupKeeps ==
    ASSUME IInv, NEW q \in Requests, NEW local, NEW hit, NEW fits, Lookup(q, local, hit, fits)
    PROVE  IInv'
<1> DEFINE e == Expire(conn)
           C(a) == IF a.key = None THEN a.c ELSE Reject(a.c, q, a.key)
<1>1. /\ phase[q] = "waiting" /\ UNCHANGED <<pins, fence, workers, bad>>
      /\ UNCHANGED workers /\ pins' = pins /\ fence' = fence /\ bad' = bad
  BY DEF Lookup
<1>2. PICK a \in LeaseCandidates(e, q) :
        \E m \in MatchedTokens(C(a), q, local, hit) :
          \/ conn' = m.c /\ UNCHANGED <<phase, table, content>>
          \/ /\ conn' = AllocatedNone(m.c, q)
             /\ phase' = [phase EXCEPT ![q] = "running"]
             /\ UNCHANGED <<table, content>>
          \/ /\ m.answer \in Digests
             /\ \E s \in Tables(m.answer) :
                  /\ table' = [table EXCEPT ![q] = s]
                  /\ content' = [b \in Blocks |-> IF b \in Held(s) THEN {} ELSE content[b]]
             /\ conn' = Allocated(m.c, q)
             /\ phase' = [phase EXCEPT ![q] = "parked"]
  BY DEF Lookup
<1>3. Book(e) /\ Steady(conn, e, {})
  BY ExpireBook DEF IInv
<1> HIDE DEF e
<1>4. Book(a.c) /\ Steady(e, a.c, {})
  BY <1>3, LeaseCandidatesBook
<1>5. Book(C(a)) /\ Steady(a.c, C(a), {})
  BY <1>4, RejectBook, SteadySelf
<1> DEFINE c == C(a)
<1>6. /\ Book(c) /\ Steady(conn, c, {})
  BY <1>3, <1>4, <1>5, SteadyComposes
<1>7. PICK m \in MatchedTokens(c, q, local, hit) :
          \/ conn' = m.c /\ UNCHANGED <<phase, table, content>>
          \/ /\ conn' = AllocatedNone(m.c, q)
             /\ phase' = [phase EXCEPT ![q] = "running"]
             /\ UNCHANGED <<table, content>>
          \/ /\ m.answer \in Digests
             /\ \E s \in Tables(m.answer) :
                  /\ table' = [table EXCEPT ![q] = s]
                  /\ content' = [b \in Blocks |-> IF b \in Held(s) THEN {} ELSE content[b]]
             /\ conn' = Allocated(m.c, q)
             /\ phase' = [phase EXCEPT ![q] = "parked"]
  BY <1>2
<1> HIDE DEF c, C
<1>8. phase[q] \notin Writing /\ conn.pending[q] = None
  BY <1>1, NotLoading DEF Writing
<1>9. Answers(c, q, m)
  <2>1. c.pending[q] = None
    BY <1>6, <1>8 DEF Steady
  <2> QED BY <1>6, <2>1, MatchedTokensAnswers
<1>10. Book(m.c) /\ Steady(conn, m.c, {q})
  BY <1>6, <1>9, SteadyMore, SteadyComposes DEF Answers
<1>11. table[q] = <<>> /\ table \in [Requests -> Seq(Blocks)]
      /\ phase \in [Requests -> {"waiting", "parked", "loaded", "ready", "running", "draining", "done"}]
      /\ bad' \in SUBSET Requests
  BY <1>1 DEF IInv, StagesOK, StageOK, Typed
<1>12. table = [table EXCEPT ![q] = <<>>] /\ phase = [phase EXCEPT ![q] = "waiting"]
  BY <1>1, <1>11
<1>13. CASE conn' = m.c /\ UNCHANGED <<phase, table, content>>
  <2>1. /\ phase' = [phase EXCEPT ![q] = "waiting"] /\ table' = [table EXCEPT ![q] = <<>>]
        /\ UNCHANGED content
    BY <1>12, <1>13
  <2>2. Book(conn') /\ Steady(conn, conn', {q})
    BY <1>10, <1>13
  <2> QED BY <1>1, <1>8, <1>11, <2>1, <2>2, OneStops
<1>14. CASE /\ conn' = AllocatedNone(m.c, q) /\ phase' = [phase EXCEPT ![q] = "running"]
            /\ UNCHANGED <<table, content>>
  <2>1. table' = [table EXCEPT ![q] = <<>>] /\ UNCHANGED content
    BY <1>12, <1>14
  <2>2. Book(conn') /\ Steady(m.c, conn', {})
    BY <1>10, <1>14, AllocatedNoneBook
  <2>3. Steady(conn, conn', {q})
    BY <1>10, <2>2, SteadyMore, SteadyComposes
  <2> QED BY <1>1, <1>8, <1>11, <1>14, <2>1, <2>2, <2>3, OneStops
<1>15. ASSUME m.answer \in Digests, NEW s \in Tables(m.answer),
              table' = [table EXCEPT ![q] = s],
              content' = [b \in Blocks |-> IF b \in Held(s) THEN {} ELSE content[b]],
              conn' = Allocated(m.c, q), phase' = [phase EXCEPT ![q] = "parked"]
       PROVE  IInv'
  <2>1. /\ m.answer \in Candidates[q] /\ m.c.leads[q] = m.answer /\ m.c.need[q] = m.answer
    BY <1>9, <1>15 DEF Answers
  <2> QED BY <1>1, <1>10, <1>15, <2>1, ParkKeeps
<1> QED BY <1>7, <1>13, <1>14, <1>15

\* build_connector_meta: the flights whose loads are sent become dispatched.
LEMMA DispatchBook ==
    ASSUME NEW c, Book(c), NEW a \in Conns, a.pending = NoOne, a.leads = c.leads,
           a.need = c.need, a.bound = c.bound,
           \A d \in Digests : c.flights[d] = None => a.flights[d] = None,
           \A d \in Digests : c.flights[d] # None =>
             /\ a.flights[d] # None
             /\ a.flights[d].leader = c.flights[d].leader
             /\ a.flights[d].followers = c.flights[d].followers
             /\ a.flights[d].share = c.flights[d].share
             /\ a.flights[d].segment = c.flights[d].segment
             /\ a.flights[d].done = c.flights[d].done
             /\ a.flights[d].lease = c.flights[d].lease
             /\ a.flights[d].dispatched <=>
                  (c.flights[d].dispatched \/ c.pending[c.flights[d].leader] = d)
    PROVE  Book(a)
<1>0. c \in Conns
  BY DEF Book
<1>1. FlightsOK(a)
  BY DEF Book, FlightsOK, FlightOK
<1>2. \A q \in Requests : a.pending[q] = None
  BY DEF NoOne
<1>3. \A q \in Requests : /\ c.leads[q] # None => c.leads[q] \in Digests
                          /\ c.bound[q] # None => c.bound[q].flight \in Digests
  BY <1>0, ConnParts DEF Bindings
<1>4. LeadersOK(a)
  <2> SUFFICES ASSUME NEW q \in Requests, a.leads[q] # None
               PROVE  /\ a.flights[a.leads[q]] # None /\ a.flights[a.leads[q]].leader = q
                      /\ ~a.flights[a.leads[q]].dispatched => a.leads[q] \in {a.need[q], a.pending[q]}
    BY DEF LeadersOK
  <2> DEFINE d == c.leads[q]
  <2>1. /\ a.leads[q] = d /\ d \in Digests /\ c.flights[d] # None /\ c.flights[d].leader = q
        /\ ~c.flights[d].dispatched => d \in {c.need[q], c.pending[q]}
    BY <1>3 DEF Book, LeadersOK
  <2> HIDE DEF d
  <2>2. /\ a.flights[d] # None /\ a.flights[d].leader = q
        /\ a.flights[d].dispatched <=> (c.flights[d].dispatched \/ c.pending[q] = d)
    BY <2>1
  <2> QED BY <2>1, <2>2
<1>5. AskedOK(a)
  BY <1>2 DEF Book, AskedOK, Optional
<1>6. BoundOK(a)
  <2> SUFFICES ASSUME NEW q \in Requests, c.bound[q] # None
               PROVE  LET d == c.bound[q].flight
                      IN  /\ a.flights[d] # None
                          /\ q \in a.flights[d].followers
                          /\ c.bound[q].lease \in Candidates[q]
                          /\ ~a.flights[d].dispatched => c.bound[q].lease \in {d, a.flights[d].segment}
    BY DEF BoundOK
  <2> QED BY <1>3 DEF Book, BoundOK
<1> QED BY <1>1, <1>4, <1>5, <1>6 DEF Book

\* The loads a step allocated are queued on every rank.
LEMMA BuildMetaKeeps ==
    ASSUME IInv, BuildMeta
    PROVE  IInv'
<1> DEFINE Q == {q \in Requests : conn.pending[q] # None}
           sent(d) == \E q \in Q : conn.pending[q] = d /\ conn.flights[d].leader = q
           A == [q \in Requests |->
                  IF q \in Q THEN [digest |-> conn.pending[q], blocks |-> Held(table[q])]
                  ELSE conn.admitted[q]]
           g(d) == [conn.flights[d] EXCEPT !.dispatched = TRUE, !.blocks = Held(table[conn.flights[d].leader])]
           F == [d \in Digests |-> IF conn.flights[d] # None /\ sent(d) THEN g(d) ELSE conn.flights[d]]
           G(q) == [digest |-> conn.pending[q],
                    segment |-> IF conn.flights[conn.pending[q]] = None THEN None
                                ELSE conn.flights[conn.pending[q]].segment,
                    state |-> [r \in Ranks |-> "queued"]]
<1>1. /\ conn' = [conn EXCEPT !.pending = NoOne, !.admitted = A, !.flights = F]
      /\ load' = [q \in Requests |-> IF q \notin Q THEN load[q] ELSE G(q)]
      /\ acks' = [q \in Requests |-> IF q \in Q THEN {} ELSE acks[q]]
      /\ phase' = phase /\ table' = table /\ pins' = pins /\ fence' = fence
      /\ errors' = errors /\ finished' = finished /\ taken' = taken /\ bad' = bad
      /\ content' = content
  BY DEF BuildMeta, engine
<1>2. /\ Typed /\ conn \in Conns /\ Book(conn)
      /\ table \in [Requests -> Seq(Blocks)] /\ load \in [Requests -> Optional(Loads)]
      /\ acks \in [Requests -> SUBSET Ranks]
  BY DEF IInv, Book, Typed
<1>3. /\ conn.flights \in [Digests -> Optional(FlightRecords)]
      /\ conn.admitted \in [Requests -> Optional(Admissions)]
      /\ conn.pending \in [Requests -> Optional(Digests)]
  BY <1>2, ConnIs
<1>4. \A q \in Q : conn.pending[q] \in Digests /\ conn.pending[q] \in Candidates[q]
  BY <1>2, <1>3 DEF Optional, Book, AskedOK
<1>5. \A q \in Requests : Held(table[q]) \subseteq Blocks
  BY <1>2, HeldIs
<1>6. A \in [Requests -> Optional(Admissions)]
  <2> SUFFICES ASSUME NEW q \in Requests
               PROVE  (IF q \in Q THEN [digest |-> conn.pending[q], blocks |-> Held(table[q])]
                       ELSE conn.admitted[q]) \in Optional(Admissions)
    OBVIOUS
  <2>1. CASE q \in Q
    <3>1. [digest |-> conn.pending[q], blocks |-> Held(table[q])] \in Admissions
      BY <1>4, <1>5, <2>1 DEF Admissions
    <3> QED BY <2>1, <3>1 DEF Optional
  <2>2. CASE q \notin Q
    BY <1>3, <2>2
  <2> QED BY <2>1, <2>2
<1>7. ASSUME NEW d \in Digests, conn.flights[d] # None
      PROVE  /\ g(d) \in FlightRecords /\ g(d) # None
             /\ g(d).leader = conn.flights[d].leader
             /\ g(d).followers = conn.flights[d].followers
             /\ g(d).share = conn.flights[d].share
             /\ g(d).segment = conn.flights[d].segment
             /\ g(d).done = conn.flights[d].done
             /\ g(d).lease = conn.flights[d].lease
             /\ g(d).dispatched = TRUE
  <2> DEFINE f == conn.flights[d]
             B == Held(table[f.leader])
  <2>1. f \in FlightRecords
    BY <1>2, <1>7, ConnParts
  <2>2. B \in SUBSET Blocks
    BY <1>5, <2>1 DEF FlightRecords
  <2>3. g(d) = [f EXCEPT !.dispatched = TRUE, !.blocks = B]
    OBVIOUS
  <2> HIDE DEF f, B, g
  <2>4. /\ g(d) \in FlightRecords
        /\ g(d).leader = f.leader /\ g(d).followers = f.followers /\ g(d).share = f.share
        /\ g(d).segment = f.segment /\ g(d).done = f.done /\ g(d).lease = f.lease
        /\ g(d).dispatched = TRUE
    BY <2>1, <2>2, <2>3 DEF FlightRecords
  <2>5. g(d) # None
    BY <2>4, DistinctValues
  <2> QED BY <2>4, <2>5 DEF f
<1>8. ASSUME NEW d \in Digests, conn.flights[d] # None
      PROVE  sent(d) <=> conn.pending[conn.flights[d].leader] = d
  <2>1. conn.flights[d].leader \in Requests /\ d # None
    BY <1>2, <1>8, ConnParts, FlightConstants DEF FlightRecords
  <2> QED BY <2>1
<1>9. F \in [Digests -> Optional(FlightRecords)]
  <2> SUFFICES ASSUME NEW d \in Digests
               PROVE  (IF conn.flights[d] # None /\ sent(d) THEN g(d) ELSE conn.flights[d])
                        \in Optional(FlightRecords)
    OBVIOUS
  <2> HIDE DEF g, sent
  <2> QED BY <1>3, <1>7 DEF Optional
<1>10. \A d \in Digests : F[d] = IF conn.flights[d] # None /\ sent(d) THEN g(d) ELSE conn.flights[d]
  OBVIOUS
<1>11. NoOne \in [Requests -> Optional(Digests)]
  BY DEF NoOne, Optional
<1>12. \A d \in Digests : conn.flights[d] # None => conn.flights[d] \in FlightRecords
  BY <1>2, ConnParts
<1>G. \A q \in Q : /\ G(q) \in Loads /\ G(q) # None /\ G(q).digest = conn.pending[q]
                   /\ G(q).segment = (IF conn.flights[conn.pending[q]] = None THEN None
                                      ELSE conn.flights[conn.pending[q]].segment)
                   /\ \A r \in Ranks : G(q).state[r] = "queued"
  <2> SUFFICES ASSUME NEW q \in Q
               PROVE  /\ G(q) \in Loads /\ G(q) # None /\ G(q).digest = conn.pending[q]
                      /\ G(q).segment = (IF conn.flights[conn.pending[q]] = None THEN None
                                         ELSE conn.flights[conn.pending[q]].segment)
                      /\ \A r \in Ranks : G(q).state[r] = "queued"
    OBVIOUS
  <2>1. (IF conn.flights[conn.pending[q]] = None THEN None
         ELSE conn.flights[conn.pending[q]].segment) \in Optional(Digests)
    BY <1>4, <1>12 DEF FlightRecords, Optional
  <2>2. G(q) \in Loads
    BY <1>4, <2>1 DEF Loads
  <2> QED BY <2>2, DistinctValues
<1> HIDE DEF F, A, g, sent, G
<1>13. conn' \in Conns
  BY <1>1, <1>2, <1>6, <1>9, <1>11 DEF Conns
<1>14. /\ conn'.flights = F /\ conn'.pending = NoOne /\ conn'.leads = conn.leads
       /\ conn'.need = conn.need /\ conn'.bound = conn.bound
  BY <1>1, <1>2 DEF Conns
<1>15. \A d \in Digests : conn.flights[d] = None => conn'.flights[d] = None
  BY <1>10, <1>14
<1>16. \A d \in Digests : conn.flights[d] # None =>
             /\ conn'.flights[d] # None
             /\ conn'.flights[d].leader = conn.flights[d].leader
             /\ conn'.flights[d].followers = conn.flights[d].followers
             /\ conn'.flights[d].share = conn.flights[d].share
             /\ conn'.flights[d].segment = conn.flights[d].segment
             /\ conn'.flights[d].done = conn.flights[d].done
             /\ conn'.flights[d].lease = conn.flights[d].lease
             /\ conn'.flights[d].dispatched <=>
                  (conn.flights[d].dispatched \/ conn.pending[conn.flights[d].leader] = d)
  <2> SUFFICES ASSUME NEW d \in Digests, conn.flights[d] # None
               PROVE /\ conn'.flights[d] # None
                     /\ conn'.flights[d].leader = conn.flights[d].leader
                     /\ conn'.flights[d].followers = conn.flights[d].followers
                     /\ conn'.flights[d].share = conn.flights[d].share
                     /\ conn'.flights[d].segment = conn.flights[d].segment
                     /\ conn'.flights[d].done = conn.flights[d].done
                     /\ conn'.flights[d].lease = conn.flights[d].lease
                     /\ conn'.flights[d].dispatched <=>
                          (conn.flights[d].dispatched \/ conn.pending[conn.flights[d].leader] = d)
    OBVIOUS
  <2>1. CASE sent(d)
    <3>1. conn'.flights[d] = g(d)
      BY <1>10, <1>14, <2>1
    <3> QED BY <1>7, <1>8, <2>1, <3>1
  <2>2. CASE ~sent(d)
    <3>1. conn'.flights[d] = conn.flights[d]
      BY <1>10, <1>14, <2>2
    <3>2. conn.flights[d].dispatched \in BOOLEAN
      BY <1>12 DEF FlightRecords
    <3> QED BY <1>8, <2>2, <3>1, <3>2
  <2> QED BY <2>1, <2>2
<1>17. Book(conn')
  BY <1>2, <1>13, <1>14, <1>15, <1>16, DispatchBook
<1>18. Typed'
  <2>1. load' \in [Requests -> Optional(Loads)]
    BY <1>1, <1>2, <1>G DEF Optional
  <2>2. acks' \in [Requests -> SUBSET Ranks]
    BY <1>1, <1>2
  <2> QED BY <1>1, <1>2, <2>1, <2>2 DEF Typed
<1>19. \A q \in Requests : conn'.pending[q] = None
  BY <1>14 DEF NoOne
<1>20. \A q \in Requests : /\ q \notin Q => load'[q] = load[q] /\ acks'[q] = acks[q]
                           /\ q \in Q => load'[q] = G(q) /\ acks'[q] = {}
  BY <1>1
<1>21. ASSUME NEW q \in Requests, NEW r \in Ranks PROVE RankOK(q, r)'
  <2>1. RankOK(q, r)
    BY DEF IInv, RanksOK
  <2>2. CASE q \notin Q
    <3>1. conn.pending[q] = None /\ load'[q] = load[q] /\ acks'[q] = acks[q]
      BY <1>20, <2>2
    <3> QED BY <1>1, <1>19, <2>1, <3>1 DEF RankOK, Loading
  <2>3. CASE q \in Q
    <3>1. conn.pending[q] # None /\ phase[q] = "parked"
      BY <2>3 DEF IInv, StagesOK, StageOK
    <3>2. q \notin finished[r] /\ (taken[r] # None => q \notin taken[r])
      BY <2>1, <3>1 DEF RankOK, Loading
    <3>3. load'[q].state[r] = "queued" /\ acks'[q] = {}
      BY <1>20, <1>G, <2>3
    <3> QED BY <1>1, <1>19, <3>1, <3>2, <3>3 DEF RankOK, Loading, Writing
  <2> QED BY <2>2, <2>3
<1>22. ASSUME NEW q \in Requests PROVE StageOK(q)'
  <2>0. StageOK(q)
    BY DEF IInv, StagesOK
  <2>1. conn.leads[q] # None => conn.leads[q] \in Digests /\ conn.flights[conn.leads[q]] # None
                                  /\ conn.flights[conn.leads[q]].leader = q
    BY <1>2, ConnParts DEF Book, LeadersOK
  <2>2. CASE q \notin Q
    <3>1. conn.pending[q] = None /\ load'[q] = load[q]
      BY <1>20, <2>2
    <3> DEFINE d == conn.leads[q]
    <3>2. d # None => /\ conn'.flights[d].segment = conn.flights[d].segment
                      /\ conn.flights[d].dispatched => conn'.flights[d].dispatched
      BY <1>16, <2>1
    <3>3. conn'.leads[q] = d /\ conn'.pending[q] = None
      BY <1>14, <1>19
    <3>4. SteadyAt(conn, conn', q)
      BY <3>1, <3>2, <3>3 DEF SteadyAt
    <3> QED BY <1>1, <2>0, <3>1, <3>4, StageKeptAt
  <2>3. CASE q \in Q
    <3> DEFINE d == conn.pending[q]
    <3>1. /\ d # None /\ d \in Candidates[q] /\ phase[q] = "parked" /\ Len(table[q]) = Span[d]
          /\ conn.leads[q] \in {None, d}
      BY <1>4, <2>0, <2>3 DEF StageOK
    <3>2. /\ load'[q] # None /\ load'[q].digest = d
          /\ load'[q].segment = (IF conn.flights[d] = None THEN None ELSE conn.flights[d].segment)
          /\ \A r \in Ranks : load'[q].state[r] = "queued"
      BY <1>20, <1>G, <2>3
    <3>3. LoadOK(q)'
      BY <1>1, <3>1, <3>2 DEF LoadOK
    <3>4. Led(q)'
      <4>1. SUFFICES ASSUME conn.leads[q] # None
                     PROVE  /\ d = load'[q].digest /\ conn'.flights[d].dispatched
                            /\ conn'.flights[d].segment \in {None, load'[q].segment}
        BY <1>14, <3>1 DEF Led
      <4>2. conn.leads[q] = d /\ d \in Digests /\ conn.flights[d] # None /\ conn.flights[d].leader = q
        BY <2>1, <3>1, <4>1
      <4>3. /\ conn'.flights[d].segment = conn.flights[d].segment
            /\ conn'.flights[d].dispatched
        BY <1>16, <4>2
      <4> QED BY <3>2, <4>2, <4>3
    <3>5. Ranks # {} => ~Verified(q)'
      BY <3>2 DEF Verified
    <3> QED BY <1>1, <1>19, <3>1, <3>3, <3>4, <3>5 DEF StageOK
  <2> QED BY <2>2, <2>3
<1>23. Apart' /\ PinsOK'
  BY <1>1, ApartKept, PinsKept DEF IInv
<1> QED BY <1>17, <1>18, <1>21, <1>22, <1>23 DEF IInv, RanksOK, StagesOK

\* One rank verifies or fails the load of q.
LEMMA LoadOneKeeps ==
    ASSUME IInv, NEW q \in Requests, NEW r \in Ranks, NEW verified \in BOOLEAN,
           LoadOne(r, q, verified)
    PROVE  IInv'
<1> DEFINE v == IF verified THEN "verified" ELSE "failed"
           full == \A k \in Ranks : load'[q].state[k] = "verified"
<1>1. /\ load[q] # None /\ load[q].state[r] = "queued"
      /\ load' = [load EXCEPT ![q].state[r] = v]
      /\ finished' = [finished EXCEPT ![r] = finished[r] \cup {q}]
      /\ errors' = [errors EXCEPT ![r] = IF verified THEN errors[r] ELSE errors[r] \cup Held(table[q])]
      /\ content' = IF ~full THEN content
                    ELSE [b \in Blocks |-> IF b \in Held(table[q]) THEN Loaded(q, b) ELSE content[b]]
      /\ conn' = conn /\ phase' = phase /\ table' = table /\ pins' = pins /\ fence' = fence
      /\ taken' = taken /\ acks' = acks /\ bad' = bad
  BY DEF LoadOne, engine
<1>2. /\ load \in [Requests -> Optional(Loads)] /\ finished \in [Ranks -> SUBSET Requests]
      /\ errors \in [Ranks -> SUBSET Blocks] /\ content \in [Blocks -> SUBSET Digests]
      /\ table \in [Requests -> Seq(Blocks)] /\ pins \in Seq(Pins)
  BY DEF IInv, Typed
<1>3. RankOK(q, r) /\ StageOK(q)
  BY DEF IInv, RanksOK, StagesOK
<1>4. /\ Loading(q) /\ phase[q] \in Writing /\ conn.pending[q] = None
      /\ q \notin finished[r] /\ r \notin acks[q] /\ (taken[r] # None => q \notin taken[r])
  BY <1>1, <1>3 DEF RankOK, Loading
<1>5. LoadOK(q) /\ Led(q)
  BY <1>3, <1>4 DEF StageOK
<1> DEFINE w == [load[q] EXCEPT !.state = [load[q].state EXCEPT ![r] = v]]
<1>6. load[q] \in Loads
  BY <1>1, <1>2 DEF Optional
<1>7. /\ w \in Loads /\ w.digest = load[q].digest /\ w.segment = load[q].segment
      /\ w.state[r] = v /\ \A k \in Ranks \ {r} : w.state[k] = load[q].state[k]
  BY <1>6 DEF Loads
<1>8. load' = [load EXCEPT ![q] = w]
  BY <1>1
<1> HIDE DEF w
<1>9. /\ load'[q] = w /\ \A p \in Requests \ {q} : load'[p] = load[p]
      /\ load' \in [Requests -> Optional(Loads)] /\ w # None
  BY <1>2, <1>7, <1>8, DistinctValues DEF Optional
<1>10. /\ \A k \in Ranks : finished'[k] = IF k = r THEN finished[r] \cup {q} ELSE finished[k]
       /\ \A k \in Ranks : errors[k] \subseteq errors'[k]
       /\ v = "failed" => Held(table[q]) \subseteq errors'[r]
  BY <1>1, <1>2
<1>11. \A p \in Requests : Held(table[p]) \subseteq Blocks
  BY <1>2, HeldIs
<1>12. \A b \in Blocks : b \notin Held(table[q]) => content'[b] = content[b]
  BY <1>1, <1>2
<1>13. full => \A b \in Held(table[q]) : content'[b] = Loaded(q, b)
  BY <1>1, <1>11
<1>14. \A b \in Blocks : Loaded(q, b) \subseteq Digests
  BY <1>6 DEF Loaded, Loads, Optional
<1>15. Typed'
  <2>1. content' \in [Blocks -> SUBSET Digests]
    BY <1>1, <1>2, <1>14
  <2>2. finished' \in [Ranks -> SUBSET Requests]
    BY <1>1, <1>2
  <2>3. errors' \in [Ranks -> SUBSET Blocks]
    BY <1>1, <1>2, <1>11
  <2> QED BY <1>1, <1>9, <2>1, <2>2, <2>3 DEF IInv, Typed
<1>16. /\ \A p \in Requests \ {q} : Held(table[q]) \cap Held(table[p]) = {}
       /\ \A p \in Held(pins) : Held(table[q]) \cap Held(p.blocks) = {}
  BY <1>4 DEF IInv, Apart
<1>17. ASSUME NEW p \in Requests, NEW k \in Ranks PROVE RankOK(p, k)'
  <2>1. RankOK(p, k)
    BY DEF IInv, RanksOK
  <2>2. CASE p # q
    <3>1. load'[p] = load[p] /\ (p \in finished'[k] <=> p \in finished[k])
      BY <1>9, <1>10, <2>2
    <3>2. errors[k] \subseteq errors'[k]
      BY <1>10
    <3> QED BY <1>1, <2>1, <3>1, <3>2 DEF RankOK, Loading
  <2>3. CASE p = q /\ k # r
    <3>1. load'[p] # None /\ load'[p].state[k] = load[p].state[k] /\ finished'[k] = finished[k]
      BY <1>7, <1>9, <1>10, <2>3
    <3>2. errors[k] \subseteq errors'[k]
      BY <1>10
    <3> QED BY <1>1, <2>1, <2>3, <3>1, <3>2 DEF RankOK, Loading
  <2>4. CASE p = q /\ k = r
    <3>1. load'[p].state[k] = v /\ v # "queued"
      BY <1>7, <1>9, <2>4
    <3>2. v = "failed" => Held(table[q]) \subseteq errors'[r]
      BY <1>10
    <3>3. Loading(q)'
      BY <1>1, <1>4 DEF Loading
    <3> HIDE DEF v
    <3> QED BY <1>1, <1>4, <2>4, <3>1, <3>2, <3>3 DEF RankOK
  <2> QED BY <2>2, <2>3, <2>4
<1>18. ASSUME NEW p \in Requests PROVE StageOK(p)'
  <2>0. StageOK(p)
    BY DEF IInv, StagesOK
  <2>1. CASE p # q
    <3>1. \A b \in Held(table[p]) : content'[b] = content[b]
      BY <1>11, <1>12, <1>16, <2>1
    <3>2. SteadyAt(conn, conn', p)
      BY <1>1 DEF SteadyAt
    <3>3. load'[p] = load[p] /\ phase'[p] = phase[p] /\ table'[p] = table[p]
      BY <1>1, <1>9, <2>1
    <3> QED BY <1>1, <2>0, <3>1, <3>2, <3>3, StageKeptAt
  <2>2. CASE p = q
    <3>1. LoadOK(q)' /\ Led(q)'
      BY <1>1, <1>5, <1>7, <1>9 DEF LoadOK, Led
    <3>2. ASSUME Verified(q)' PROVE Holds(q)'
      <4>1. full
        BY <3>2 DEF Verified
      <4>2. \A b \in Held(table[q]) : Loaded(q, b)' = Loaded(q, b)
        BY <1>1, <1>7, <1>9 DEF Loaded
      <4> HIDE DEF full
      <4> QED BY <1>1, <1>13, <4>1, <4>2 DEF Holds
    <3>3. conn'.pending[q] = None /\ phase'[q] \in Writing
      BY <1>1, <1>4
    <3> QED BY <2>2, <3>1, <3>2, <3>3 DEF StageOK, Writing
  <2> QED BY <2>1, <2>2
<1>19. Apart'
  BY <1>1, ApartKept DEF IInv
<1>20. PinsOK'
  <2>1. \A o \in Held(pins) : \A b \in Held(o.blocks) : content'[b] = content[b]
    <3> SUFFICES ASSUME NEW o \in Held(pins), NEW b \in Held(o.blocks)
                 PROVE  content'[b] = content[b]
      OBVIOUS
    <3>1. o \in Pins
      BY <1>2, HeldIs
    <3>2. b \in Blocks
      BY <3>1, HeldIs DEF Pins
    <3> QED BY <1>12, <1>16, <3>2
  <2> QED BY <1>1, <2>1, PinsKept DEF IInv
<1>21. Book(conn')
  BY <1>1 DEF IInv
<1> QED BY <1>15, <1>17, <1>18, <1>19, <1>20, <1>21 DEF IInv, RanksOK, StagesOK

\* A rank hands over the loads it completed.
LEMMA GetFinishedKeeps ==
    ASSUME IInv, NEW r \in Ranks, GetFinished(r)
    PROVE  IInv'
<1>1. /\ taken[r] = None /\ taken' = [taken EXCEPT ![r] = finished[r]]
      /\ finished' = [finished EXCEPT ![r] = {}]
      /\ conn' = conn /\ phase' = phase /\ table' = table /\ pins' = pins /\ fence' = fence
      /\ load' = load /\ errors' = errors /\ acks' = acks /\ bad' = bad /\ content' = content
  BY DEF GetFinished, engine
<1>2. /\ finished \in [Ranks -> SUBSET Requests] /\ taken \in [Ranks -> Optional(SUBSET Requests)]
  BY DEF IInv, Typed
<1>3. Typed'
  <2>1. finished' \in [Ranks -> SUBSET Requests]
    BY <1>1, <1>2
  <2>2. taken' \in [Ranks -> Optional(SUBSET Requests)]
    BY <1>1, <1>2 DEF Optional
  <2> QED BY <1>1, <2>1, <2>2 DEF IInv, Typed
<1>4. ASSUME NEW q \in Requests, NEW k \in Ranks PROVE RankOK(q, k)'
  <2>1. RankOK(q, k)
    BY DEF IInv, RanksOK
  <2>2. CASE k # r
    <3>1. taken'[k] = taken[k] /\ finished'[k] = finished[k]
      BY <1>1, <1>2, <2>2
    <3> QED BY <1>1, <2>1, <3>1 DEF RankOK, Loading
  <2>3. CASE k = r
    <3>1. taken'[k] = finished[k] /\ finished'[k] = {} /\ taken[k] = None
      BY <1>1, <1>2, <2>3
    <3> QED BY <1>1, <2>1, <3>1 DEF RankOK, Loading
  <2> QED BY <2>2, <2>3
<1>5. ASSUME NEW q \in Requests PROVE StageOK(q)'
  <2>1. StageOK(q) /\ SteadyAt(conn, conn', q)
    BY <1>1 DEF IInv, StagesOK, SteadyAt
  <2> QED BY <1>1, <2>1, StageKeptAt
<1>6. Apart' /\ PinsOK' /\ Book(conn')
  BY <1>1, ApartKept, PinsKept DEF IInv
<1> QED BY <1>3, <1>4, <1>5, <1>6 DEF IInv, RanksOK, StagesOK

\* The output of a step: the loads all ranks completed end, the failed ones are known.
LEMMA UpdateOutputKeeps ==
    ASSUME IInv, UpdateOutput
    PROVE  IInv'
<1> DEFINE invalid == UNION {errors[r] : r \in Ranks}
           got(q) == acks[q] \cup {r \in Ranks : q \in taken[r]}
           Q == {q \in Requests : got(q) = Ranks /\ acks[q] # Ranks}
           lost == Blamed(invalid)
           m == RetireAll(conn, lost)
           A == [q \in Requests |-> IF m.admitted[q] # None /\ m.admitted[q].blocks \cap invalid # {}
                                      THEN None ELSE m.admitted[q]]
           e == [m EXCEPT !.admitted = A]
           hit == {q \in Requests : phase[q] = "parked" /\ Held(table[q]) \cap invalid # {}}
<1>1. /\ \A q \in Requests : conn.pending[q] = None
      /\ \A r \in Ranks : taken[r] # None
      /\ conn' = LoadsFinished(e, Q)
      /\ bad' = bad \cup hit
      /\ phase' = [q \in Requests |-> IF q \notin Q THEN phase[q]
                                      ELSE IF phase[q] = "parked" THEN "loaded" ELSE "done"]
      /\ table' = [q \in Requests |-> IF q \in Q /\ phase[q] # "parked" THEN <<>> ELSE table[q]]
      /\ acks' = [q \in Requests |-> got(q)]
      /\ errors' = [r \in Ranks |-> {}] /\ taken' = [r \in Ranks |-> None]
      /\ pins' = pins /\ fence' = fence /\ load' = load /\ finished' = finished
      /\ content' = content
  BY DEF UpdateOutput, Scheduled
<1>2. /\ Typed /\ Book(conn)
      /\ phase \in [Requests -> {"waiting", "parked", "loaded", "ready", "running", "draining", "done"}]
      /\ table \in [Requests -> Seq(Blocks)] /\ acks \in [Requests -> SUBSET Ranks]
      /\ load \in [Requests -> Optional(Loads)]
      /\ errors \in [Ranks -> SUBSET Blocks]
  BY DEF IInv, Typed
<1>3. ASSUME NEW q \in Q
      PROVE  /\ Loading(q) /\ LoadOK(q) /\ Led(q) /\ (Verified(q) => Holds(q))
             /\ \A r \in Ranks : load[q].state[r] \in {"verified", "failed"}
  <2>1. PICK r \in Ranks : q \in taken[r]
    BY <1>2
  <2>2. Loading(q)
    BY <1>1, <2>1 DEF IInv, RanksOK, RankOK
  <2>3. LoadOK(q) /\ Led(q) /\ (Verified(q) => Holds(q))
    BY <2>1, <2>2 DEF IInv, StagesOK, StageOK
  <2>4. ASSUME NEW k \in Ranks PROVE load[q].state[k] # "queued"
    <3>1. k \in acks[q] \/ q \in taken[k]
      OBVIOUS
    <3> QED BY <1>1, <2>3, <3>1 DEF IInv, RanksOK, RankOK, LoadOK
  <2>5. load[q] \in Loads
    BY <1>2, <2>3 DEF LoadOK, Optional
  <2> QED BY <2>2, <2>3, <2>4, <2>5 DEF Loads
<1>4. Book(m) /\ Steady(conn, m, {})
  BY <1>2, RetireBook
<1> HIDE DEF m
<1>5. A \in [Requests -> Optional(Admissions)]
  <2>1. m.admitted \in [Requests -> Optional(Admissions)]
    BY <1>4, ConnIs DEF Book
  <2> QED BY <2>1 DEF Optional
<1>6. e = [m EXCEPT !.admitted = A]
  OBVIOUS
<1> HIDE DEF A, e
<1>7. Book(e) /\ Steady(m, e, {})
  BY <1>4, <1>5, <1>6, AdmittedBook
<1>8. Steady(conn, e, {})
  BY <1>4, <1>7, SteadyComposes
<1>9. Q \in SUBSET Requests
  OBVIOUS
<1>10. \A q \in Q : e.leads[q] # None => e.flights[e.leads[q]].dispatched
  BY <1>3, <1>8, <1>9 DEF Steady, Led
<1> HIDE DEF Q
<1>11. Book(conn') /\ Steady(e, conn', {})
  BY <1>1, <1>7, <1>9, <1>10, LoadsFinishedBook
<1>12. Steady(conn, conn', {})
  BY <1>8, <1>11, SteadyComposes
<1>13. conn'.pending = conn.pending /\ \A q \in Requests : conn'.pending[q] = None
  BY <1>1, <1>12 DEF Steady
<1>14. \A q \in Requests : /\ q \notin Q => phase'[q] = phase[q] /\ table'[q] = table[q]
                           /\ q \in Q /\ phase[q] = "parked" => phase'[q] = "loaded" /\ table'[q] = table[q]
                           /\ q \in Q /\ phase[q] # "parked" => phase'[q] = "done" /\ table'[q] = <<>>
                           /\ acks'[q] = got(q)
  BY <1>1, <1>2
<1>15. Typed'
  <2>1. phase' \in [Requests -> {"waiting", "parked", "loaded", "ready", "running", "draining", "done"}]
    BY <1>1, <1>2
  <2>2. table' \in [Requests -> Seq(Blocks)]
    BY <1>1, <1>2, EmptyTable
  <2>3. acks' \in [Requests -> SUBSET Ranks]
    BY <1>1, <1>2
  <2>4. taken' \in [Ranks -> Optional(SUBSET Requests)] /\ errors' \in [Ranks -> SUBSET Blocks]
    BY <1>1 DEF Optional
  <2>5. bad' \in SUBSET Requests
    BY <1>1 DEF IInv, Typed
  <2> HIDE DEF got, hit
  <2> QED BY <1>1, <1>2, <2>1, <2>2, <2>3, <2>4, <2>5 DEF Typed
<1>16. ASSUME NEW q \in Requests, NEW r \in Ranks PROVE RankOK(q, r)'
  <2>1. RankOK(q, r)
    BY DEF IInv, RanksOK
  <2>2. taken'[r] = None /\ load'[q] = load[q] /\ finished'[r] = finished[r]
    BY <1>1
  <2>3. r \in got(q) <=> r \in acks[q] \/ q \in taken[r]
    OBVIOUS
  <2>4. CASE q \in Q
    <3>1. load[q].state[r] # "queued"
      BY <1>3, <2>4
    <3>2. q \notin finished[r]
      <4>1. r \in got(q)
        BY <2>4 DEF Q
      <4> QED BY <1>1, <2>1, <2>3, <4>1 DEF RankOK
    <3>3. phase'[q] # "parked"
      BY <1>14, <2>4
    <3> QED BY <2>2, <3>1, <3>2, <3>3 DEF RankOK
  <2>5. CASE q \notin Q
    <3>1. phase'[q] = phase[q] /\ table'[q] = table[q] /\ acks'[q] = got(q)
      BY <1>14, <2>5
    <3>2. Loading(q)' <=> Loading(q)
      BY <1>13, <3>1 DEF Loading
    <3>3. ASSUME phase[q] = "parked", conn.pending[q] = None, load[q].state[r] = "failed"
          PROVE  q \in bad'
      <4>1. CASE q \in bad
        BY <1>1, <4>1
      <4>2. CASE Held(table[q]) \subseteq errors[r]
        <5>1. StageOK(q)
          BY DEF IInv, StagesOK
        <5>2. Len(table[q]) \in Nat \ {0} /\ table[q] \in Seq(Blocks)
          <6>1. LoadOK(q)
            BY <3>3, <5>1 DEF StageOK, Loading, Writing
          <6>2. load[q].digest \in Digests
            BY <6>1, CandidatesAreDigests DEF LoadOK
          <6> QED BY <1>2, <6>1, <6>2, FlightConstants DEF LoadOK
        <5>3. table[q][1] \in Held(table[q])
          BY <5>2, HeldIs
        <5>4. table[q][1] \in invalid
          BY <4>2, <5>3
        <5> QED BY <1>1, <3>3, <5>3, <5>4
      <4> QED BY <2>1, <3>3, <4>1, <4>2 DEF RankOK
    <3> HIDE DEF got
    <3> QED BY <1>1, <1>13, <2>1, <2>2, <2>3, <3>1, <3>2, <3>3 DEF RankOK
  <2> QED BY <2>4, <2>5
<1>17. ASSUME NEW q \in Requests PROVE StageOK(q)'
  <2>0. StageOK(q) /\ SteadyAt(conn, conn', q)
    BY <1>12 DEF IInv, StagesOK, Steady, SteadyAt
  <2>1. CASE q \notin Q
    <3>1. phase'[q] = phase[q] /\ table'[q] = table[q] /\ load'[q] = load[q] /\ content' = content
      BY <1>1, <1>14, <2>1
    <3>2. q \in bad => q \in bad'
      BY <1>1
    <3> QED BY <2>0, <3>1, <3>2, StageKeptAt
  <2>2. CASE q \in Q /\ phase[q] # "parked"
    <3>1. phase'[q] = "done" /\ table'[q] = <<>>
      BY <1>14, <2>2
    <3> QED BY <1>13, <3>1, StageIdle
  <2>3. CASE q \in Q /\ phase[q] = "parked"
    <3>1. phase'[q] = "loaded" /\ table'[q] = table[q] /\ load'[q] = load[q] /\ content' = content
      BY <1>1, <1>14, <2>3
    <3>2. LoadOK(q) /\ Led(q) /\ (Verified(q) => Holds(q))
      BY <1>3, <2>3
    <3>3. LoadOK(q)' /\ Led(q)' /\ (Holds(q) => Holds(q)')
      BY <2>0, <3>1, <3>2 DEF LoadOK, Led, Holds, Loaded, SteadyAt
    <3>4. ASSUME q \notin bad' PROVE Verified(q)
      <4> SUFFICES ASSUME NEW r \in Ranks, load[q].state[r] # "verified" PROVE FALSE
        BY DEF Verified
      <4>1. load[q].state[r] = "failed"
        BY <1>3, <2>3
      <4>2. q \notin bad /\ Held(table[q]) \cap invalid = {}
        BY <1>1, <2>3, <3>4
      <4>3. Held(table[q]) \subseteq errors[r]
        BY <1>1, <2>3, <4>1, <4>2 DEF IInv, RanksOK, RankOK
      <4>4. Len(table[q]) \in Nat \ {0} /\ table[q] \in Seq(Blocks)
        <5>1. load[q].digest \in Digests
          BY <3>2, CandidatesAreDigests DEF LoadOK
        <5> QED BY <1>2, <3>2, <5>1, FlightConstants DEF LoadOK
      <4>5. table[q][1] \in Held(table[q])
        BY <4>4, HeldIs
      <4> QED BY <4>2, <4>3, <4>5
    <3> QED BY <1>13, <3>1, <3>2, <3>3, <3>4 DEF StageOK, Loading, Writing
  <2> QED BY <2>1, <2>2, <2>3
<1>18. Apart'
  <2>1. \A q \in Requests : Held(table'[q]) \subseteq Held(table[q])
    BY <1>14, EmptyTable
  <2>2. \A q \in Requests : phase'[q] \in Writing => phase[q] \in Writing
    BY <1>14 DEF Writing
  <2> QED BY <1>1, <2>1, <2>2, ApartKept DEF IInv
<1>19. PinsOK'
  BY <1>1, PinsKept DEF IInv
<1> QED BY <1>11, <1>15, <1>16, <1>17, <1>18, <1>19 DEF IInv, RanksOK, StagesOK
-----------------------------------------------------------------------------

\* Nothing happens.
LEMMA StutterKeeps ==
    ASSUME IInv, UNCHANGED vars
    PROVE  IInv'
<1>1. UNCHANGED <<conn, engine, workers, bad, content>>
  BY DEF vars, engine, workers
<1> QED BY <1>1, ReportKeeps

\* The invariant is inductive.
LEMMA NextKeeps == IInv /\ [Next]_vars => IInv'
<1> SUFFICES ASSUME IInv, [Next]_vars PROVE IInv'
  OBVIOUS
<1>1. CASE UNCHANGED vars
  BY <1>1, StutterKeeps
<1>2. ASSUME NEW q \in Requests, Schedule(q) PROVE IInv'
  <2>1. CASE AttachLease(q)
    BY <2>1, AttachLeaseKeeps
  <2>2. ASSUME NEW local \in 0 .. MaxLocal, NEW hit \in BOOLEAN, NEW fits \in BOOLEAN,
               Lookup(q, local, hit, fits)
        PROVE  IInv'
    BY <2>2, LookupKeeps
  <2>3. ASSUME NEW published \in BOOLEAN, Promote(q, published) PROVE IInv'
    BY <2>3, PromoteKeeps
  <2>4. CASE Start(q)
    BY <2>4, StartKeeps
  <2> QED BY <1>2, <2>1, <2>2, <2>3, <2>4 DEF Schedule
<1>3. ASSUME NEW q \in Requests, Preempt(q) PROVE IInv'
  BY <1>3, PreemptKeeps
<1>4. ASSUME NEW q \in Requests, Finish(q) PROVE IInv'
  BY <1>4, FinishKeeps
<1>5. ASSUME NEW d \in Digests, Finalize(d) PROVE IInv'
  BY <1>5, FinalizeKeeps
<1>6. ASSUME NEW d \in Digests, Age(d) PROVE IInv'
  BY <1>6, AgeKeeps
<1>7. ASSUME NEW d \in Digests, Report(d) PROVE IInv'
  BY <1>7, ReportKeeps DEF Report
<1>8. CASE BuildMeta
  BY <1>8, BuildMetaKeeps
<1>9. CASE UpdateOutput
  BY <1>9, UpdateOutputKeeps
<1>10. CASE ReleasePin
  BY <1>10, ReleasePinKeeps
<1>11. ASSUME NEW r \in Ranks, GetFinished(r) PROVE IInv'
  BY <1>11, GetFinishedKeeps
<1>12. ASSUME NEW r \in Ranks, NEW q \in Requests, NEW verified \in BOOLEAN, LoadOne(r, q, verified)
       PROVE  IInv'
  BY <1>12, LoadOneKeeps
<1> QED BY <1>1, <1>2, <1>3, <1>4, <1>5, <1>6, <1>7, <1>8, <1>9, <1>10, <1>11, <1>12 DEF Next

\* The inductive invariant holds in every behaviour of the specification.
THEOREM InvariantHolds == Spec => []IInv
BY InitHolds, NextKeeps, PTL DEF Spec

\* A request that is ready or runs has its restored blocks from loads that every rank
\* verified, and so has every pin (get_finished, publish_shared_prefix_lease); and the
\* blocks of a load that a rank has not completed are in no other table and under no
\* pin, also when the request was aborted (request_finished delays the free).
THEOREM RestoredIsVerified == Spec => []OnlyVerified
BY InvariantHolds, IInvImplies, PTL

-----------------------------------------------------------------------------
(***************************************************************************)
(* The ledger: what leaders, followers, leases and their order say of each *)
(* other, and their limits.                                                *)
(***************************************************************************)
\* A request leads one flight, and its leader knows it until the leader ends.
LeadsTied(c) ==
    \A d \in Digests : c.flights[d] # None =>
        /\ ~c.flights[d].gone => c.leads[c.flights[d].leader] = d
        /\ \A e \in Digests : c.flights[e] # None /\ c.flights[e].leader = c.flights[d].leader => e = d

\* The followers of a flight are bound to it.
FollowersTied(c) ==
    \A d \in Digests : c.flights[d] # None =>
        \A p \in c.flights[d].followers : c.bound[p] # None /\ c.bound[p].flight = d

\* A lease is what its flight publishes, and what its followers wait for.
KeysTied(c) ==
    /\ \A d \in Digests : c.flights[d] # None => c.flights[d].lease \in {None, LeaseKey(c, d)}
    /\ \A q \in Requests : c.bound[q] # None => c.bound[q].lease = LeaseKey(c, c.bound[q].flight)

\* Flights without a lease and followers stay within their limits.
Limits(c) ==
    /\ IsFiniteSet(Live(c) \ Published(c)) /\ IsFiniteSet(Published(c))
    /\ Cardinality(Live(c) \ Published(c)) <= MaxPendingRestores
    /\ \A d \in Digests : c.flights[d] # None =>
         IsFiniteSet(c.flights[d].followers) /\ Cardinality(c.flights[d].followers) <= MaxFollowers

\* Of two leases one is newer, and this is an order.
Ranked(c, P) ==
    \A d, e \in P :
        /\ d \notin c.flights[d].newer
        /\ d # e => d \in c.flights[e].newer \/ e \in c.flights[d].newer
        /\ \A x \in P : d \in c.flights[e].newer /\ e \in c.flights[x].newer => d \in c.flights[x].newer

\* The leases stay within their limit.
LeasesLimited(c) == Cardinality(Published(c)) <= MaxLeases

\* The ledger of the connector, in which a lease was perhaps just added.
Ledger(c) == LeadsTied(c) /\ FollowersTied(c) /\ KeysTied(c) /\ Limits(c) /\ Ranked(c, Published(c))

\* What an operation leaves of a flight.
SameFlight(f, g) ==
    /\ f # None /\ g.leader = f.leader /\ g.blocks = f.blocks
    /\ g.dispatched = f.dispatched /\ g.done = f.done /\ g.gone = f.gone
    /\ g.lease = f.lease
    /\ f.dispatched => g.segment \in {None, f.segment}

\* A flight that nothing has happened to, led by a request of X.
Fresh(g, X) == g.leader \in X /\ ~g.dispatched /\ ~g.done /\ ~g.gone /\ g.lease = None

\* The flights of a are flights of c, or fresh ones of X.
Descends(c, a, X) ==
    \A d \in Digests : a.flights[d] # None =>
        Fresh(a.flights[d], X) \/ SameFlight(c.flights[d], a.flights[d])

\* Two operations one after the other.
LEMMA DescendsComposes ==
    ASSUME NEW c, NEW a, NEW e, NEW X, Descends(c, a, X), Descends(a, e, X)
    PROVE  Descends(c, e, X)
BY DEF Descends, SameFlight, Fresh

\* Fresh flights of nobody are fresh flights of anybody.
LEMMA DescendsMore ==
    ASSUME NEW c, NEW a, NEW X, Descends(c, a, {})
    PROVE  Descends(c, a, X)
BY DEF Descends, Fresh

\* Nothing done.
LEMMA DescendsSelf ==
    ASSUME NEW c, NEW X
    PROVE  Descends(c, c, X)
BY DEF Descends, SameFlight

\* The flights with a lease.
LEMMA PublishedIs ==
    ASSUME NEW c
    PROVE  /\ \A d : d \in Live(c) <=> d \in Digests /\ c.flights[d] # None
           /\ \A d : d \in Published(c) <=> d \in Digests /\ c.flights[d] # None /\ c.flights[d].lease # None
           /\ \A d : d \in Live(c) \ Published(c) <=>
                       d \in Digests /\ c.flights[d] # None /\ c.flights[d].lease = None
BY DEF Live, Published

\* A subset of a finite set is within the same limit.
LEMMA FewerIs ==
    ASSUME NEW S, IsFiniteSet(S), NEW n \in Nat, Cardinality(S) <= n, NEW T, T \subseteq S
    PROVE  IsFiniteSet(T) /\ Cardinality(T) <= n
<1>1. IsFiniteSet(T) /\ Cardinality(T) <= Cardinality(S)
  BY FS_Subset
<1>2. Cardinality(T) \in Nat /\ Cardinality(S) \in Nat
  BY <1>1, FS_CardinalityType
<1> QED BY <1>1, <1>2

\* The limits of fewer flights, leases and followers.
LEMMA LimitsShrink ==
    ASSUME NEW c, Limits(c), NEW a,
           Live(a) \ Published(a) \subseteq Live(c) \ Published(c), Published(a) \subseteq Published(c),
           \A d \in Digests : a.flights[d] # None =>
             c.flights[d] # None /\ a.flights[d].followers \subseteq c.flights[d].followers
    PROVE  Limits(a)
<1>1. MaxPendingRestores \in Nat /\ MaxFollowers \in Nat
  BY FlightConstants
<1>2. /\ IsFiniteSet(Live(a) \ Published(a))
      /\ Cardinality(Live(a) \ Published(a)) <= MaxPendingRestores
  BY <1>1, FewerIs DEF Limits
<1>3. IsFiniteSet(Published(a))
  BY FS_Subset DEF Limits
<1>4. ASSUME NEW d \in Digests, a.flights[d] # None
      PROVE  IsFiniteSet(a.flights[d].followers) /\ Cardinality(a.flights[d].followers) <= MaxFollowers
  <2>1. /\ IsFiniteSet(c.flights[d].followers) /\ Cardinality(c.flights[d].followers) <= MaxFollowers
        /\ a.flights[d].followers \subseteq c.flights[d].followers
    BY <1>4 DEF Limits
  <2> QED BY <1>1, <2>1, FewerIs
<1> QED BY <1>2, <1>3, <1>4 DEF Limits

\* Flights that are left as they are, or taken out with their leaders and followers.
LEMMA LedgerShrinks ==
    ASSUME NEW c, Ledger(c), NEW a, Book(a),
           \A d \in Digests : a.flights[d] # None =>
             /\ c.flights[d] # None
             /\ a.flights[d].leader = c.flights[d].leader
             /\ a.flights[d].followers = c.flights[d].followers
             /\ a.flights[d].segment = c.flights[d].segment
             /\ a.flights[d].lease = c.flights[d].lease
             /\ a.flights[d].newer = c.flights[d].newer
             /\ ~a.flights[d].gone => a.leads[a.flights[d].leader] = d
             /\ \A p \in a.flights[d].followers : a.bound[p] = c.bound[p],
           \A q \in Requests : a.bound[q] \in {None, c.bound[q]}
    PROVE  Ledger(a)
<1>1. LeadsTied(a)
  BY DEF Ledger, LeadsTied
<1>2. FollowersTied(a)
  BY DEF Ledger, FollowersTied
<1>3. KeysTied(a)
  <2>1. \A d \in Digests : a.flights[d] # None => LeaseKey(a, d) = LeaseKey(c, d)
    BY DEF LeaseKey
  <2>2. \A q \in Requests : a.bound[q] # None => a.bound[q].flight \in Digests
    BY ConnParts DEF Book, Bindings
  <2>3. \A q \in Requests : a.bound[q] # None => a.flights[a.bound[q].flight] # None
    BY DEF Book, BoundOK
  <2> QED BY <2>1, <2>2, <2>3 DEF Ledger, KeysTied
<1>4. Published(a) \subseteq Published(c) /\ Live(a) \ Published(a) \subseteq Live(c) \ Published(c)
  BY PublishedIs
<1>5. Limits(a)
  BY <1>4, LimitsShrink DEF Ledger
<1>6. Ranked(a, Published(a))
  <2>1. \A d \in Published(a) : a.flights[d].newer = c.flights[d].newer
    BY PublishedIs
  <2> QED BY <1>4, <2>1 DEF Ledger, Ranked
<1> QED BY <1>1, <1>2, <1>3, <1>5, <1>6 DEF Ledger

\* Retiring flights (_retire_restore_flight).
LEMMA RetireKeeps ==
    ASSUME NEW c \in Conns, Ledger(c), NEW D, Book(RetireAll(c, D))
    PROVE  /\ Ledger(RetireAll(c, D)) /\ Descends(c, RetireAll(c, D), {})
           /\ \A d \in Digests : RetireAll(c, D).flights[d] # None => d \notin D
<1> DEFINE a == RetireAll(c, D)
<1>1. /\ \A d \in Digests : a.flights[d] = IF d \in D THEN None ELSE c.flights[d]
      /\ \A q \in Requests : a.leads[q] =
           IF \E d \in Digests : d \in D /\ c.flights[d] # None /\ c.flights[d].leader = q THEN None ELSE c.leads[q]
      /\ \A q \in Requests : a.bound[q] =
           IF \E d \in Digests : d \in D /\ c.flights[d] # None /\ q \in c.flights[d].followers THEN None ELSE c.bound[q]
  BY RetireIs
<1>2. Book(a)
  OBVIOUS
<1> HIDE DEF a
<1>3. \A d \in Digests : a.flights[d] # None => d \notin D /\ a.flights[d] = c.flights[d]
  BY <1>1
<1>4. Descends(c, a, {})
  BY <1>3 DEF Descends, SameFlight
<1>5. \A d \in Digests : c.flights[d] # None => c.flights[d] \in FlightRecords
  BY ConnParts
<1>6. ASSUME NEW d \in Digests, a.flights[d] # None
      PROVE  /\ ~a.flights[d].gone => a.leads[a.flights[d].leader] = d
             /\ \A p \in a.flights[d].followers : a.bound[p] = c.bound[p]
  <2>1. /\ d \notin D /\ a.flights[d] = c.flights[d] /\ c.flights[d] # None
        /\ c.flights[d].leader \in Requests /\ c.flights[d].followers \subseteq Requests
    BY <1>3, <1>5, <1>6 DEF FlightRecords
  <2>2. ~c.flights[d].gone => a.leads[c.flights[d].leader] = d
    <3>1. ~\E e \in Digests : e \in D /\ c.flights[e] # None /\ c.flights[e].leader = c.flights[d].leader
      BY <2>1 DEF Ledger, LeadsTied
    <3>2. a.leads[c.flights[d].leader] = c.leads[c.flights[d].leader]
      BY <1>1, <2>1, <3>1
    <3> QED BY <2>1, <3>2 DEF Ledger, LeadsTied
  <2>3. ASSUME NEW p \in c.flights[d].followers
        PROVE  a.bound[p] = c.bound[p]
    <3>1. ~\E e \in Digests : e \in D /\ c.flights[e] # None /\ p \in c.flights[e].followers
      BY <2>1 DEF Ledger, FollowersTied
    <3> QED BY <1>1, <2>1, <3>1
  <2> QED BY <2>1, <2>2, <2>3
<1>7. \A q \in Requests : a.bound[q] \in {None, c.bound[q]}
  BY <1>1
<1>8. Ledger(a)
  BY <1>2, <1>3, <1>6, <1>7, LedgerShrinks
<1> QED BY <1>3, <1>4, <1>8 DEF a

\* Retiring flights of books that agree.
LEMMA RetireLedger ==
    ASSUME NEW c, Book(c), Ledger(c), NEW D
    PROVE  /\ Ledger(RetireAll(c, D)) /\ Descends(c, RetireAll(c, D), {})
           /\ \A d \in Digests : RetireAll(c, D).flights[d] # None => d \notin D
BY RetireBook, RetireKeeps DEF Book

\* No operation but a publication adds a lease.
LEMMA LeasesKept ==
    ASSUME NEW c, Ledger(c), LeasesLimited(c), NEW a, NEW X, Descends(c, a, X)
    PROVE  LeasesLimited(a)
<1>1. Published(a) \subseteq Published(c)
  BY PublishedIs DEF Descends, SameFlight, Fresh
<1>2. IsFiniteSet(Published(c)) /\ MaxLeases \in Nat
  BY FlightConstants DEF Ledger, Limits
<1> QED BY <1>1, <1>2, FewerIs DEF LeasesLimited

\* A follower leaves (_remove_restore_flight_follower): a segment is given up only when
\* nobody waits for it.
LEMMA RemoveLedger ==
    ASSUME NEW c, Book(c), Ledger(c), NEW q \in Requests
    PROVE  Ledger(RemoveFollower(c, q)) /\ Descends(c, RemoveFollower(c, q), {})
<1>0. c \in Conns
  BY DEF Book
<1>1. CASE c.bound[q] = None
  <2>1. RemoveFollower(c, q) = c
    BY <1>1 DEF RemoveFollower
  <2> QED BY <2>1, DescendsSelf
<1>2. CASE c.bound[q] # None
  <2> DEFINE a == RemoveFollower(c, q)
             b == c.bound[q]
             f == c.flights[b.flight]
             g == a.flights[b.flight]
  <2>1. f # None
    BY <1>2 DEF Book, BoundOK
  <2>2. /\ g # None
        /\ g.leader = f.leader /\ g.dispatched = f.dispatched
        /\ g.done = f.done /\ g.lease = f.lease /\ g.followers = f.followers \ {q}
        /\ g.gone = f.gone /\ g.blocks = f.blocks /\ g.newer = f.newer
        /\ \/ g.segment = f.segment
           \/ (g.segment = None /\ b.lease = f.segment /\ f.lease = None
                 /\ \A p \in Requests \ {q} : c.bound[p] # b)
        /\ \A d \in Digests \ {b.flight} : a.flights[d] = c.flights[d]
        /\ a.bound[q] = None /\ \A p \in Requests \ {q} : a.bound[p] = c.bound[p]
        /\ a.leads = c.leads
    BY <1>0, <1>2, <2>1, RemoveIs
  <2>3. b \in Bindings /\ b.flight \in Digests
    BY <1>0, <1>2, ConnParts DEF Bindings
  <2> HIDE DEF a
  <2>4. \A d \in Digests :
          /\ a.flights[d] # None <=> c.flights[d] # None
          /\ a.flights[d] # None =>
               /\ a.flights[d].leader = c.flights[d].leader
               /\ a.flights[d].blocks = c.flights[d].blocks
               /\ a.flights[d].dispatched = c.flights[d].dispatched
               /\ a.flights[d].done = c.flights[d].done /\ a.flights[d].gone = c.flights[d].gone
               /\ a.flights[d].lease = c.flights[d].lease /\ a.flights[d].newer = c.flights[d].newer
               /\ a.flights[d].followers \subseteq c.flights[d].followers
               /\ a.flights[d].segment \in {None, c.flights[d].segment}
    <3> SUFFICES ASSUME NEW d \in Digests
                 PROVE  /\ a.flights[d] # None <=> c.flights[d] # None
                        /\ a.flights[d] # None =>
                             /\ a.flights[d].leader = c.flights[d].leader
                             /\ a.flights[d].blocks = c.flights[d].blocks
                             /\ a.flights[d].dispatched = c.flights[d].dispatched
                             /\ a.flights[d].done = c.flights[d].done /\ a.flights[d].gone = c.flights[d].gone
                             /\ a.flights[d].lease = c.flights[d].lease /\ a.flights[d].newer = c.flights[d].newer
                             /\ a.flights[d].followers \subseteq c.flights[d].followers
                             /\ a.flights[d].segment \in {None, c.flights[d].segment}
      OBVIOUS
    <3>1. CASE d = b.flight
      BY <2>1, <2>2, <3>1
    <3>2. CASE d # b.flight
      BY <2>2, <3>2
    <3> QED BY <3>1, <3>2
  <2>5. Descends(c, a, {})
    BY <2>4 DEF Descends, SameFlight
  <2>6. LeadsTied(a)
    <3>1. a.leads = c.leads
      BY <2>2
    <3>2. \A d \in Digests : a.flights[d] # None =>
            /\ c.flights[d] # None /\ a.flights[d].leader = c.flights[d].leader
            /\ a.flights[d].gone = c.flights[d].gone
      BY <2>4
    <3> HIDE DEF b, f, g
    <3> QED BY <3>1, <3>2 DEF Ledger, LeadsTied
  <2>7. FollowersTied(a)
    <3> SUFFICES ASSUME NEW d \in Digests, a.flights[d] # None, NEW p \in a.flights[d].followers
                 PROVE  a.bound[p] # None /\ a.bound[p].flight = d
      BY DEF FollowersTied
    <3>1. p \in c.flights[d].followers /\ c.flights[d] # None
      BY <2>4
    <3>4. p \in Requests
      BY <1>0, <3>1, ConnParts DEF FlightRecords
    <3>2. c.bound[p] # None /\ c.bound[p].flight = d
      BY <3>1 DEF Ledger, FollowersTied
    <3>3. p # q
      BY <2>2, <3>2
    <3> QED BY <2>2, <3>4, <3>2, <3>3
  <2>8. KeysTied(a)
    <3>1. ASSUME NEW d \in Digests, a.flights[d] # None
          PROVE  a.flights[d].lease \in {None, LeaseKey(a, d)}
      <4>1. a.flights[d].lease = None \/ a.flights[d].segment = c.flights[d].segment
        BY <2>2, <3>1
      <4>2. c.flights[d].lease \in {None, LeaseKey(c, d)} /\ a.flights[d].lease = c.flights[d].lease
        BY <2>4, <3>1 DEF Ledger, KeysTied
      <4> QED BY <4>1, <4>2 DEF LeaseKey
    <3>2. ASSUME NEW p \in Requests, a.bound[p] # None
          PROVE  a.bound[p].lease = LeaseKey(a, a.bound[p].flight)
      <4>1. p # q /\ a.bound[p] = c.bound[p] /\ c.bound[p] \in Bindings
        BY <1>0, <2>2, <3>2, ConnParts
      <4>2. c.bound[p].lease = LeaseKey(c, c.bound[p].flight) /\ b.lease = LeaseKey(c, b.flight)
        BY <1>2, <3>2, <4>1 DEF Ledger, KeysTied
      <4>3. CASE c.bound[p].flight # b.flight
        <5>1. a.flights[c.bound[p].flight] = c.flights[c.bound[p].flight]
          BY <2>2, <4>1, <4>3 DEF Bindings
        <5> QED BY <4>1, <4>2, <5>1 DEF LeaseKey
      <4>4. CASE c.bound[p].flight = b.flight
        <5>1. c.bound[p] = b
          BY <2>3, <4>1, <4>2, <4>4 DEF Bindings
        <5>2. g.segment = f.segment
          BY <2>2, <4>1, <5>1
        <5> QED BY <4>1, <4>2, <4>4, <5>2 DEF LeaseKey
      <4> QED BY <4>3, <4>4
    <3> QED BY <3>1, <3>2 DEF KeysTied
  <2>9. Live(a) \ Published(a) \subseteq Live(c) \ Published(c) /\ Published(a) \subseteq Published(c)
    BY <2>4, PublishedIs
  <2>10. Limits(a)
    BY <2>4, <2>9, LimitsShrink DEF Ledger
  <2>11. Ranked(a, Published(a))
    <3>1. \A d \in Published(a) : a.flights[d].newer = c.flights[d].newer
      BY <2>4, PublishedIs
    <3> QED BY <2>9, <3>1 DEF Ledger, Ranked
  <2> QED BY <2>5, <2>6, <2>7, <2>8, <2>10, <2>11 DEF Ledger, a
<1> QED BY <1>1, <1>2

\* The entries of a flight record.
LEMMA FlightIs ==
    ASSUME NEW c, Book(c), NEW d \in Digests, c.flights[d] # None
    PROVE  /\ c.flights[d] \in FlightRecords /\ FlightOK(d, c.flights[d])
           /\ c.flights[d].leader \in Requests /\ c.flights[d].followers \subseteq Requests
           /\ c.flights[d].segment # None => c.flights[d].segment \in Digests
           /\ d # None
<1>1. c.flights[d] \in FlightRecords /\ FlightOK(d, c.flights[d])
  BY ConnParts DEF Book, FlightsOK
<1> QED BY <1>1, FlightConstants DEF FlightRecords, Optional

\* q follows a flight that has room, for what that flight publishes.
LEMMA FollowLedger ==
    ASSUME NEW c, Book(c), Ledger(c), NEW q \in Requests, NEW d \in Digests,
           c.flights[d] # None, c.bound[q] = None,
           Cardinality(c.flights[d].followers) < MaxFollowers,
           NEW key, key = LeaseKey(c, d)
    PROVE  Ledger(Follow(c, q, d, key)) /\ Descends(c, Follow(c, q, d, key), {})
<1> DEFINE a == Follow(c, q, d, key)
           f == c.flights[d]
           g == a.flights[d]
<1>0. c \in Conns /\ key \in Digests
  BY LeaseKeyIs DEF Book
<1>1. /\ g \in FlightRecords /\ g # None
      /\ g = [f EXCEPT !.followers = f.followers \cup {q}]
      /\ \A e \in Digests \ {d} : a.flights[e] = c.flights[e]
      /\ a.bound[q] = [flight |-> d, lease |-> key]
      /\ \A p \in Requests \ {q} : a.bound[p] = c.bound[p]
      /\ a.leads = c.leads
  BY <1>0, FollowIs
<1>2. f \in FlightRecords
  BY FlightIs
<1> HIDE DEF a
<1>3. /\ g.leader = f.leader /\ g.dispatched = f.dispatched /\ g.done = f.done
      /\ g.gone = f.gone /\ g.blocks = f.blocks /\ g.lease = f.lease /\ g.newer = f.newer
      /\ g.segment = f.segment /\ g.followers = f.followers \cup {q}
  <2> HIDE DEF f, g
  <2> QED BY <1>1, <1>2 DEF FlightRecords
<1>4. \A e \in Digests :
        /\ a.flights[e] # None <=> c.flights[e] # None
        /\ a.flights[e] # None =>
             /\ a.flights[e].leader = c.flights[e].leader
             /\ a.flights[e].blocks = c.flights[e].blocks
             /\ a.flights[e].dispatched = c.flights[e].dispatched
             /\ a.flights[e].done = c.flights[e].done /\ a.flights[e].gone = c.flights[e].gone
             /\ a.flights[e].lease = c.flights[e].lease /\ a.flights[e].newer = c.flights[e].newer
             /\ a.flights[e].segment = c.flights[e].segment
  BY <1>1, <1>3
<1>5. Descends(c, a, {})
  BY <1>4 DEF Descends, SameFlight
<1>6. LeadsTied(a)
  BY <1>1, <1>4 DEF Ledger, LeadsTied
<1>7. FollowersTied(a)
  <2> SUFFICES ASSUME NEW e \in Digests, a.flights[e] # None, NEW p \in a.flights[e].followers
               PROVE  a.bound[p] # None /\ a.bound[p].flight = e
    BY DEF FollowersTied
  <2>1. CASE p = q
    <3>1. q \notin c.flights[e].followers
      BY <1>4 DEF Ledger, FollowersTied
    <3>2. e = d
      BY <1>1, <2>1, <3>1
    <3>3. [flight |-> d, lease |-> key] \in Bindings
      BY <1>0 DEF Bindings
    <3> QED BY <1>1, <2>1, <3>2, <3>3, DistinctValues
  <2>2. CASE p # q
    <3>1. c.flights[e] # None /\ p \in c.flights[e].followers
      BY <1>1, <1>3, <1>4, <2>2
    <3>2. p \in Requests
      BY <3>1, FlightIs
    <3>3. a.bound[p] = c.bound[p]
      BY <1>1, <2>2, <3>2
    <3> QED BY <3>1, <3>3 DEF Ledger, FollowersTied
  <2> QED BY <2>1, <2>2
<1>8. KeysTied(a)
  <2>1. \A e \in Digests : LeaseKey(a, e) = LeaseKey(c, e) \/ a.flights[e] = None
    BY <1>4 DEF LeaseKey
  <2>2. \A e \in Digests : a.flights[e] # None => a.flights[e].lease \in {None, LeaseKey(a, e)}
    BY <1>4, <2>1 DEF Ledger, KeysTied
  <2>3. ASSUME NEW p \in Requests, a.bound[p] # None
        PROVE  a.bound[p].lease = LeaseKey(a, a.bound[p].flight)
    <3>1. CASE p = q
      BY <1>1, <2>1, <3>1
    <3>2. CASE p # q
      <4>1. a.bound[p] = c.bound[p] /\ c.bound[p].flight \in Digests /\ c.flights[c.bound[p].flight] # None
        BY <1>0, <1>1, <2>3, <3>2, ConnParts DEF Book, BoundOK, Bindings
      <4> QED BY <1>4, <2>1, <2>3, <4>1 DEF Ledger, KeysTied
    <3> QED BY <3>1, <3>2
  <2> QED BY <2>2, <2>3 DEF KeysTied
<1>9. Live(a) = Live(c) /\ Published(a) = Published(c)
  <2>1. \A e \in Digests : (a.flights[e] # None <=> c.flights[e] # None)
                        /\ (a.flights[e] # None => a.flights[e].lease = c.flights[e].lease)
    BY <1>4
  <2> HIDE DEF f, g
  <2> QED BY <2>1 DEF Live, Published
<1>10. Limits(a)
  <2>1. ASSUME NEW e \in Digests, a.flights[e] # None
        PROVE  IsFiniteSet(a.flights[e].followers) /\ Cardinality(a.flights[e].followers) <= MaxFollowers
    <3>1. CASE e # d
      <4>1. a.flights[e] = c.flights[e]
        BY <1>1, <3>1
      <4> QED BY <2>1, <4>1 DEF Ledger, Limits
    <3>2. CASE e = d
      <4>1. IsFiniteSet(f.followers)
        BY DEF Ledger, Limits
      <4>2. /\ IsFiniteSet(f.followers \cup {q})
            /\ Cardinality(f.followers \cup {q}) \in {Cardinality(f.followers), Cardinality(f.followers) + 1}
        BY <4>1, FS_AddElement
      <4>3. Cardinality(f.followers) \in Nat /\ MaxFollowers \in Nat
        BY <4>1, FS_CardinalityType, FlightConstants
      <4>4. Cardinality(f.followers \cup {q}) <= MaxFollowers
        BY <4>2, <4>3
      <4> QED BY <1>3, <3>2, <4>2, <4>4
    <3> QED BY <3>1, <3>2
  <2> QED BY <1>9, <2>1 DEF Ledger, Limits
<1>11. Ranked(a, Published(a))
  <2>1. \A e \in Published(a) : a.flights[e].newer = c.flights[e].newer
    BY <1>4, PublishedIs
  <2> QED BY <1>9, <2>1 DEF Ledger, Ranked
<1> QED BY <1>5, <1>6, <1>7, <1>8, <1>10, <1>11 DEF Ledger, a

\* A flight that was not sent, and has no lease yet, gets the segment its followers
\* wait for from now on.
LEMMA MoveLedger ==
    ASSUME NEW c, Book(c), Ledger(c), NEW d \in Digests, c.flights[d] # None,
           ~c.flights[d].dispatched, NEW k \in Digests
    PROVE  /\ Ledger(Move(c, d, k)) /\ Descends(c, Move(c, d, k), {})
           /\ LeaseKey(Move(c, d, k), d) = k
           /\ Move(c, d, k).flights[d].followers = c.flights[d].followers
           /\ \A q \in Requests : c.bound[q] = None => Move(c, d, k).bound[q] = None
<1> DEFINE a == Move(c, d, k)
           f == c.flights[d]
           g == a.flights[d]
<1>0. c \in Conns
  BY DEF Book
<1>1. /\ g \in FlightRecords /\ g # None /\ g = [f EXCEPT !.segment = k]
      /\ \A e \in Digests \ {d} : a.flights[e] = c.flights[e]
      /\ \A p \in Requests : a.bound[p] = IF c.bound[p] # None /\ c.bound[p].flight = d
                                            THEN [flight |-> d, lease |-> k] ELSE c.bound[p]
      /\ a.leads = c.leads
  BY <1>0, MoveIs
<1>2. f \in FlightRecords /\ FlightOK(d, f)
  BY FlightIs
<1> HIDE DEF a
<1>3. /\ g.leader = f.leader /\ g.dispatched = f.dispatched /\ g.done = f.done
      /\ g.gone = f.gone /\ g.blocks = f.blocks /\ g.lease = f.lease /\ g.newer = f.newer
      /\ g.segment = k /\ g.followers = f.followers
  <2> HIDE DEF f, g
  <2> QED BY <1>1, <1>2 DEF FlightRecords
<1>4. f.lease = None
  BY <1>2 DEF FlightOK
<1>5. \A e \in Digests :
        /\ a.flights[e] # None <=> c.flights[e] # None
        /\ a.flights[e] # None =>
             /\ a.flights[e].leader = c.flights[e].leader
             /\ a.flights[e].blocks = c.flights[e].blocks
             /\ a.flights[e].dispatched = c.flights[e].dispatched
             /\ a.flights[e].done = c.flights[e].done /\ a.flights[e].gone = c.flights[e].gone
             /\ a.flights[e].lease = c.flights[e].lease /\ a.flights[e].newer = c.flights[e].newer
             /\ a.flights[e].followers = c.flights[e].followers
             /\ e # d => a.flights[e].segment = c.flights[e].segment
  BY <1>1, <1>3
<1>6. Descends(c, a, {})
  <2>1. \A e \in Digests : c.flights[e].dispatched => e # d
    OBVIOUS
  <2> HIDE DEF f, g
  <2> QED BY <1>5, <2>1 DEF Descends, SameFlight
<1>7. LeadsTied(a)
  <2>1. \A e \in Digests : a.flights[e] # None =>
          /\ c.flights[e] # None /\ a.flights[e].leader = c.flights[e].leader
          /\ a.flights[e].gone = c.flights[e].gone
    BY <1>5
  <2> HIDE DEF f, g
  <2> QED BY <1>1, <2>1 DEF Ledger, LeadsTied
<1>8. \A p \in Requests : c.bound[p] # None =>
        /\ c.bound[p] \in Bindings /\ c.bound[p].flight \in Digests
        /\ c.flights[c.bound[p].flight] # None
  BY <1>0, ConnParts DEF Book, BoundOK, Bindings
<1>9. \A p \in Requests :
        /\ a.bound[p] # None <=> c.bound[p] # None
        /\ a.bound[p] # None =>
             /\ a.bound[p].flight = c.bound[p].flight
             /\ a.bound[p].lease = IF c.bound[p].flight = d THEN k ELSE c.bound[p].lease
  <2> SUFFICES ASSUME NEW p \in Requests
               PROVE  /\ a.bound[p] # None <=> c.bound[p] # None
                      /\ a.bound[p] # None =>
                           /\ a.bound[p].flight = c.bound[p].flight
                           /\ a.bound[p].lease = IF c.bound[p].flight = d THEN k ELSE c.bound[p].lease
    OBVIOUS
  <2>1. [flight |-> d, lease |-> k] # None
    BY DistinctValues DEF Bindings
  <2>2. CASE c.bound[p] # None /\ c.bound[p].flight = d
    <3>1. a.bound[p] = [flight |-> d, lease |-> k]
      BY <1>1, <2>2
    <3> QED BY <2>1, <2>2, <3>1
  <2>3. CASE ~(c.bound[p] # None /\ c.bound[p].flight = d)
    <3>1. a.bound[p] = c.bound[p]
      BY <1>1, <2>3
    <3> QED BY <2>3, <3>1
  <2> QED BY <2>2, <2>3
<1>10. FollowersTied(a)
  <2> SUFFICES ASSUME NEW e \in Digests, a.flights[e] # None, NEW p \in a.flights[e].followers
               PROVE  a.bound[p] # None /\ a.bound[p].flight = e
    BY DEF FollowersTied
  <2>1. c.flights[e] # None /\ p \in c.flights[e].followers
    BY <1>5
  <2>2. p \in Requests /\ c.bound[p] # None /\ c.bound[p].flight = e
    BY <2>1, FlightIs DEF Ledger, FollowersTied
  <2> QED BY <1>9, <2>2
<1>11. LeaseKey(a, d) = k
  BY <1>3, FlightConstants DEF LeaseKey
<1>12. KeysTied(a)
  <2>1. \A e \in Digests : e # d /\ a.flights[e] # None => LeaseKey(a, e) = LeaseKey(c, e)
    BY <1>5 DEF LeaseKey
  <2>2. \A e \in Digests : a.flights[e] # None => a.flights[e].lease \in {None, LeaseKey(a, e)}
    BY <1>3, <1>4, <1>5, <2>1 DEF Ledger, KeysTied
  <2>3. ASSUME NEW p \in Requests, a.bound[p] # None
        PROVE  a.bound[p].lease = LeaseKey(a, a.bound[p].flight)
    <3>1. c.bound[p] # None /\ a.bound[p].flight = c.bound[p].flight
      BY <1>9, <2>3
    <3>2. CASE c.bound[p].flight = d
      BY <1>9, <1>11, <2>3, <3>1, <3>2
    <3>3. CASE c.bound[p].flight # d
      <4>1. a.bound[p].lease = c.bound[p].lease
        BY <1>9, <2>3, <3>3
      <4>2. c.bound[p].flight \in Digests /\ a.flights[c.bound[p].flight] # None
        BY <1>5, <1>8, <3>1
      <4> QED BY <2>1, <3>1, <3>3, <4>1, <4>2 DEF Ledger, KeysTied
    <3> QED BY <3>2, <3>3
  <2> QED BY <2>2, <2>3 DEF KeysTied
<1>13. /\ Live(a) \ Published(a) \subseteq Live(c) \ Published(c)
       /\ Published(a) \subseteq Published(c)
  BY <1>5, PublishedIs
<1>14. Limits(a)
  BY <1>5, <1>13, LimitsShrink DEF Ledger
<1>15. Ranked(a, Published(a))
  <2>1. \A e \in Published(a) : a.flights[e].newer = c.flights[e].newer
    BY <1>5, PublishedIs
  <2> QED BY <1>13, <2>1 DEF Ledger, Ranked
<1>16. \A q \in Requests : c.bound[q] = None => a.bound[q] = None
  BY <1>9
<1>17. g.followers = f.followers
  BY <1>3
<1> QED BY <1>6, <1>7, <1>10, <1>11, <1>12, <1>14, <1>15, <1>16, <1>17 DEF Ledger, a

\* q joins a flight with room at the segment k.
LEMMA JoinLedger ==
    ASSUME NEW c, Book(c), Ledger(c), NEW q \in Requests, NEW d \in Digests, c.flights[d] # None,
           c.bound[q] = None, ~c.flights[d].dispatched, NEW k \in c.flights[d].share,
           c.flights[d].segment \in {None, k},
           Cardinality(c.flights[d].followers) < MaxFollowers
    PROVE  Ledger(JoinSegment(c, q, d, k)) /\ Descends(c, JoinSegment(c, q, d, k), {})
<1> DEFINE m == Move(c, d, k)
<1>0. k \in Digests
  BY FlightIs DEF FlightRecords
<1>1. JoinSegment(c, q, d, k) = Follow(m, q, d, k)
  BY DEF JoinSegment, Move
<1>2. Book(m) /\ m.flights[d] # None
  BY MoveBook
<1>3. /\ Ledger(m) /\ Descends(c, m, {}) /\ LeaseKey(m, d) = k
      /\ m.flights[d].followers = c.flights[d].followers /\ m.bound[q] = None
  BY <1>0, MoveLedger
<1> HIDE DEF m
<1>4. Ledger(Follow(m, q, d, k)) /\ Descends(m, Follow(m, q, d, k), {})
  BY <1>2, <1>3, FollowLedger
<1> QED BY <1>1, <1>3, <1>4, DescendsComposes

\* A new flight of a request whose earlier flights are gone, within the limit.
LEMMA LeadLedger ==
    ASSUME NEW c, Book(c), Ledger(c), NEW q \in Requests, NEW d \in Candidates[q],
           c.flights[d] = None, c.leads[q] = None, ~Backlogged(c, q),
           \A e \in Digests : c.flights[e] # None /\ c.flights[e].leader = q => ~c.flights[e].gone
    PROVE  Ledger(Lead(c, q, d)) /\ Descends(c, Lead(c, q, d), {q})
<1> DEFINE a == Lead(c, q, d)
           S == {e \in Candidates[q] \cap quorum : Span[e] < Span[d]}
           g == NewFlight(q, S)
<1>0. /\ c \in Conns /\ d \in Digests /\ d # None
      /\ c.flights \in [Digests -> Optional(FlightRecords)]
      /\ c.leads \in [Requests -> Optional(Digests)]
  BY CandidatesAreDigests, ConnIs, FlightConstants DEF Book
<1>1. a = [c EXCEPT !.flights = Put(c.flights, d, g), !.leads = Put(c.leads, q, d),
                    !.need = Put(c.need, q, d)]
  BY DEF Lead
<1>2. Book(a)
  BY LeadBook
<1>3. /\ g.leader = q /\ g.followers = {} /\ ~g.dispatched /\ ~g.done /\ ~g.gone
      /\ g.segment = None /\ g.lease = None
  BY DEF NewFlight
<1> HIDE DEF g
<1>4. a.flights = Put(c.flights, d, g) /\ a.leads = Put(c.leads, q, d) /\ a.bound = c.bound
  BY <1>0, <1>1 DEF Conns
<1> HIDE DEF a
<1>5. /\ \A e \in Digests : a.flights[e] = IF e = d THEN g ELSE c.flights[e]
      /\ \A p \in Requests : a.leads[p] = IF p = q THEN d ELSE c.leads[p]
  BY <1>0, <1>4 DEF Put
<1>6. g # None
  <2>1. a.flights[d] = g /\ a.leads[q] = d
    BY <1>0, <1>5
  <2> QED BY <1>0, <1>2, <2>1 DEF Book, LeadersOK
<1>7. \A e \in Digests : c.flights[e] # None => c.flights[e].leader \in Requests /\ c.flights[e].leader # q
  BY <1>0, FlightIs, FlightConstants DEF Ledger, LeadsTied
<1>8. Descends(c, a, {q})
  BY <1>3, <1>5 DEF Descends, SameFlight, Fresh
<1>9. LeadsTied(a)
  <2> SUFFICES ASSUME NEW e \in Digests, a.flights[e] # None
               PROVE  /\ ~a.flights[e].gone => a.leads[a.flights[e].leader] = e
                      /\ \A x \in Digests : a.flights[x] # None /\ a.flights[x].leader = a.flights[e].leader => x = e
    BY DEF LeadsTied
  <2>1. CASE e = d
    BY <1>3, <1>5, <1>7, <2>1
  <2>2. CASE e # d
    <3>1. a.flights[e] = c.flights[e] /\ c.flights[e] # None /\ c.flights[e].leader \in Requests \ {q}
      BY <1>5, <1>7, <2>2
    <3>2. ~a.flights[e].gone => a.leads[a.flights[e].leader] = e
      BY <1>5, <3>1 DEF Ledger, LeadsTied
    <3>3. ASSUME NEW x \in Digests, a.flights[x] # None, a.flights[x].leader = a.flights[e].leader
          PROVE  x = e
      <4>1. x # d
        BY <1>3, <1>5, <3>1, <3>3
      <4>2. a.flights[x] = c.flights[x]
        BY <1>5, <4>1
      <4> QED BY <3>1, <3>3, <4>2 DEF Ledger, LeadsTied
    <3> QED BY <3>2, <3>3
  <2> QED BY <2>1, <2>2
<1>10. FollowersTied(a)
  BY <1>3, <1>4, <1>5 DEF Ledger, FollowersTied
<1>11. KeysTied(a)
  <2>1. \A e \in Digests : e # d => LeaseKey(a, e) = LeaseKey(c, e)
    BY <1>5 DEF LeaseKey
  <2>2. \A e \in Digests : a.flights[e] # None => a.flights[e].lease \in {None, LeaseKey(a, e)}
    BY <1>3, <1>5, <2>1 DEF Ledger, KeysTied
  <2>3. \A p \in Requests : c.bound[p] # None => c.bound[p].flight \in Digests \ {d}
    BY <1>0, ConnParts DEF Book, BoundOK, Bindings
  <2> QED BY <1>4, <2>1, <2>2, <2>3 DEF Ledger, KeysTied
<1>12. Published(a) = Published(c)
  <2>1. \A e \in Digests : a.flights[e] # None /\ a.flights[e].lease # None
                        <=> c.flights[e] # None /\ c.flights[e].lease # None
    BY <1>3, <1>5
  <2> QED BY <2>1 DEF Published, Live
<1>13. Live(a) \ Published(a) \subseteq (Live(c) \ Published(c)) \cup {d}
  BY <1>5, PublishedIs
<1>14. Limits(a)
  <2> DEFINE T == Live(c) \ Published(c)
             U == Live(a) \ Published(a)
  <2>1. IsFiniteSet(T) /\ Cardinality(T) \in Nat
    BY FS_CardinalityType DEF Ledger, Limits
  <2>2. ~(Cardinality(T) >= MaxPendingRestores)
    BY DEF Backlogged
  <2> HIDE DEF T, U
  <2>3. IsFiniteSet(T \cup {d}) /\ Cardinality(T \cup {d}) \in {Cardinality(T), Cardinality(T) + 1}
    BY <2>1, FS_AddElement
  <2>4. MaxPendingRestores \in Nat
    BY FlightConstants
  <2>5. Cardinality(T \cup {d}) <= MaxPendingRestores
    BY <2>1, <2>2, <2>3, <2>4
  <2>6. U \subseteq T \cup {d}
    BY <1>13 DEF T, U
  <2>7. IsFiniteSet(U) /\ Cardinality(U) <= MaxPendingRestores
    BY <2>3, <2>4, <2>5, <2>6, FewerIs
  <2>8. IsFiniteSet(g.followers) /\ Cardinality(g.followers) <= MaxFollowers
    BY <1>3, FS_EmptySet, FlightConstants
  <2>9. \A e \in Digests : a.flights[e] # None =>
          IsFiniteSet(a.flights[e].followers) /\ Cardinality(a.flights[e].followers) <= MaxFollowers
    BY <1>5, <2>8 DEF Ledger, Limits
  <2> QED BY <1>12, <2>7, <2>9 DEF Ledger, Limits, U
<1>15. Ranked(a, Published(a))
  <2>1. \A e \in Published(a) : a.flights[e].newer = c.flights[e].newer
    BY <1>5, <1>12, PublishedIs
  <2> QED BY <1>12, <2>1 DEF Ledger, Ranked
<1> QED BY <1>8, <1>9, <1>10, <1>11, <1>14, <1>15 DEF Ledger, a

\* Books with the same flights, leaders and followers.
LEMMA LedgerSame ==
    ASSUME NEW c, Ledger(c), NEW a, a.flights = c.flights, a.leads = c.leads, a.bound = c.bound
    PROVE  Ledger(a) /\ Descends(c, a, {})
<1>1. Live(a) = Live(c) /\ Published(a) = Published(c)
  BY DEF Live, Published
<1>2. \A d : LeaseKey(a, d) = LeaseKey(c, d)
  BY DEF LeaseKey
<1>3. LeadsTied(a) /\ FollowersTied(a) /\ KeysTied(a)
  BY <1>2 DEF Ledger, LeadsTied, FollowersTied, KeysTied
<1>4. Limits(a) /\ Ranked(a, Published(a))
  BY <1>1 DEF Ledger, Limits, Ranked
<1>5. Descends(c, a, {})
  BY DEF Descends, SameFlight
<1> QED BY <1>3, <1>4, <1>5 DEF Ledger

\* q gives up its wish to restore, and the flight of d.
LEMMA GiveUpLedger ==
    ASSUME NEW c, Book(c), Ledger(c), NEW q \in Requests, NEW d \in Digests,
           Book(GiveUp(c, q, d))
    PROVE  Ledger(GiveUp(c, q, d)) /\ Descends(c, GiveUp(c, q, d), {})
<1> DEFINE m == [c EXCEPT !.need = Put(c.need, q, None)]
<1>0. c \in Conns /\ c.need \in [Requests -> Optional(Digests)]
  BY ConnIs DEF Book
<1>1. Put(c.need, q, None) \in [Requests -> Optional(Digests)]
  BY <1>0 DEF Put, Optional
<1>2. m \in Conns
  BY <1>0, <1>1 DEF Conns
<1>3. m.flights = c.flights /\ m.leads = c.leads /\ m.bound = c.bound
  BY <1>0 DEF Conns
<1>4. GiveUp(c, q, d) = RetireAll(m, {d})
  BY DEF GiveUp, Retire
<1> HIDE DEF m
<1>5. Ledger(m) /\ Descends(c, m, {})
  BY <1>3, LedgerSame
<1>6. Ledger(RetireAll(m, {d})) /\ Descends(m, RetireAll(m, {d}), {})
  BY <1>2, <1>4, <1>5, RetireKeeps
<1> QED BY <1>4, <1>5, <1>6, DescendsComposes

\* update_state_after_alloc without external tokens.
LEMMA AllocatedNoneLedger ==
    ASSUME NEW c, Book(c), Ledger(c), NEW q \in Requests
    PROVE  Ledger(AllocatedNone(c, q)) /\ Descends(c, AllocatedNone(c, q), {})
<1>1. CASE c.need[q] = None
  <2>1. AllocatedNone(c, q) = c
    BY <1>1 DEF AllocatedNone
  <2> QED BY <2>1, DescendsSelf
<1>2. CASE c.need[q] # None
  <2>1. AllocatedNone(c, q) = GiveUp(c, q, c.need[q])
    BY <1>2 DEF AllocatedNone, GiveUp
  <2>2. c.need[q] \in Digests
    BY <1>2, ConnParts DEF Book
  <2>3. Book(GiveUp(c, q, c.need[q]))
    BY <2>1, AllocatedNoneBook
  <2> QED BY <2>1, <2>2, <2>3, GiveUpLedger
<1> QED BY <1>1, <1>2

\* A lease that q could not attach: the flight it leads is retired.
LEMMA RejectLedger ==
    ASSUME NEW c, Book(c), Ledger(c), NEW q \in Requests, NEW key, NEW a, a = Reject(c, q, key)
    PROVE  /\ Ledger(a) /\ Descends(c, a, {})
           /\ \A d \in Digests : a.flights[d] # None => d # c.leads[q]
<1> DEFINE m == IF c.bound[q] # None /\ c.bound[q].lease = key THEN RemoveFollower(c, q) ELSE c
<1>1. Book(m) /\ Ledger(m) /\ Descends(c, m, {}) /\ m.leads = c.leads
  BY RemoveBook, RemoveLedger, DescendsSelf
<1>2. a = IF m.leads[q] = None THEN m ELSE RetireAll(m, {m.leads[q]})
  BY DEF Reject, Retire
<1> HIDE DEF m
<1>3. /\ Ledger(a) /\ Descends(m, a, {})
      /\ m.leads[q] # None => \A d \in Digests : a.flights[d] # None => d # m.leads[q]
  BY <1>1, <1>2, RetireLedger, DescendsSelf
<1>4. Descends(c, a, {})
  BY <1>1, <1>3, DescendsComposes
<1>5. \A d \in Digests : a.flights[d] # None => d # c.leads[q]
  BY <1>1, <1>3, FlightConstants
<1> QED BY <1>3, <1>4, <1>5

\* Flights that timed out.
LEMMA ExpireLedger ==
    ASSUME NEW c, Book(c), Ledger(c)
    PROVE  Ledger(Expire(c)) /\ Descends(c, Expire(c), {})
BY RetireLedger DEF Expire

\* A request becomes a follower of a published flight only while that has room.
LEMMA LeaseCandidatesLedger ==
    ASSUME NEW c, Book(c), Ledger(c), NEW q \in Requests, NEW a \in LeaseCandidates(c, q)
    PROVE  Ledger(a.c) /\ Descends(c, a.c, {})
<1> DEFINE S == Attachable(c, q)
<1>1. \A d \in S : d \in Published(c)
  <2> DEFINE exact == {d \in Candidates[q] \cap Published(c) : c.flights[d].lease = d}
  <2>1. exact # {} => Longest(exact) \in exact
    <3>1. exact \in SUBSET Candidates[q]
      OBVIOUS
    <3> HIDE DEF exact
    <3> QED BY <3>1, LongestIs
  <2> QED BY <2>1 DEF Attachable
<1>2. \/ a.c = c
      \/ \E d \in S : /\ c.bound[q] = None /\ Cardinality(c.flights[d].followers) < MaxFollowers
                      /\ a.c = Follow(c, q, d, c.flights[d].lease)
  <2> HIDE DEF S
  <2> QED BY DEF LeaseCandidates, S
<1> HIDE DEF S
<1>3. ASSUME NEW d \in S, c.bound[q] = None, Cardinality(c.flights[d].followers) < MaxFollowers,
             a.c = Follow(c, q, d, c.flights[d].lease)
      PROVE  Ledger(a.c) /\ Descends(c, a.c, {})
  <2>1. d \in Digests /\ c.flights[d] # None /\ c.flights[d].lease # None
    BY <1>1, PublishedIs
  <2>2. c.flights[d].lease = LeaseKey(c, d)
    BY <2>1 DEF Ledger, KeysTied
  <2> QED BY <1>3, <2>1, <2>2, FollowLedger
<1> QED BY <1>2, <1>3, DescendsSelf

\* q leads no flight that its end left behind.
NoneGone(c, q) == \A e \in Digests : c.flights[e] # None /\ c.flights[e].leader = q => ~c.flights[e].gone

\* An answer to q keeps the ledger; a flight it adds is led by q.
Accounts(c, q, m) == Ledger(m.c) /\ Descends(c, m.c, {q})

\* An answer after an operation that leads nothing.
LEMMA NothingLed ==
    ASSUME NEW c, NEW q, NEW a, Ledger(a), Descends(c, a, {}), NEW x
    PROVE  Accounts(c, q, Answer(a, x))
BY DescendsMore DEF Accounts, Answer

\* The flights that are left have the leaders they had.
LEMMA NoneGoneKept ==
    ASSUME NEW c, NEW q, NEW a, NoneGone(c, q), Descends(c, a, {})
    PROVE  NoneGone(a, q)
BY DEF NoneGone, Descends, SameFlight, Fresh

\* The answers of the search for an entry or a flight.
LEMMA SearchLedger ==
    ASSUME NEW c, Book(c), Ledger(c), NEW q \in Requests, c.leads[q] = None, c.bound[q] = None,
           NoneGone(c, q), NEW hit, NEW m \in Search(c, q, hit)
    PROVE  Accounts(c, q, m)
<1> DEFINE offered == Candidates[q] \cap quorum
           d == Longest(offered)
           matches == SegmentMatches(c, q, d)
           best == {x \in matches : \A n \in matches : Span[n[2]] <= Span[x[2]]}
           full(e) == Cardinality(c.flights[e].followers) >= MaxFollowers
           lead == IF Backlogged(c, q) \/ ~hit THEN Answer(c, "compute")
                   ELSE Answer(Lead(c, q, d), d)
<1>0. Accounts(c, q, Answer(c, "compute"))
  BY NothingLed, DescendsSelf
<1>00. ASSUME NEW e \in Digests, c.flights[e] # None, ~full(e)
       PROVE  Cardinality(c.flights[e].followers) < MaxFollowers
  <2>1. Cardinality(c.flights[e].followers) \in Nat /\ MaxFollowers \in Nat
    BY <1>00, FS_CardinalityType, FlightConstants DEF Ledger, Limits
  <2> QED BY <1>00, <2>1
<1>1. CASE offered = {}
  <2>1. m = Answer(c, "compute")
    BY <1>1 DEF Search
  <2> QED BY <1>0, <2>1
<1>2. CASE offered # {}
  <2>1. d \in Candidates[q] /\ d \in Digests
    <3>1. offered \in SUBSET Candidates[q]
      OBVIOUS
    <3> HIDE DEF offered
    <3> QED BY <1>2, <3>1, LongestIs, CandidatesAreDigests
  <2>2. CASE c.flights[d] # None
    <3>1. \/ m = Answer(c, "compute")
          \/ ~full(d) /\ m = Answer(Follow(c, q, d, LeaseKey(c, d)), "wait")
      BY <1>2, <2>2 DEF Search
    <3> HIDE DEF d
    <3>2. ASSUME ~full(d)
          PROVE  /\ Ledger(Follow(c, q, d, LeaseKey(c, d)))
                 /\ Descends(c, Follow(c, q, d, LeaseKey(c, d)), {})
      BY <1>00, <2>1, <2>2, <3>2, FollowLedger
    <3> QED BY <1>0, <3>1, <3>2, NothingLed
  <2>3. CASE c.flights[d] = None
    <3>1. Accounts(c, q, lead)
      <4> HIDE DEF d
      <4>1. ASSUME ~Backlogged(c, q)
            PROVE  Accounts(c, q, Answer(Lead(c, q, d), d))
        <5>1. Ledger(Lead(c, q, d)) /\ Descends(c, Lead(c, q, d), {q})
          BY <2>1, <2>3, <4>1, LeadLedger DEF NoneGone
        <5> QED BY <5>1 DEF Accounts, Answer
      <4> QED BY <1>0, <4>1
    <3>2. \/ m = lead
          \/ \E x \in matches : ~full(x[1]) /\ m = Answer(JoinSegment(c, q, x[1], x[2]), "wait")
      <4> HIDE DEF matches, lead
      <4> QED BY <1>2, <2>3 DEF Search, lead, matches
    <3>3. ASSUME NEW x \in matches, ~full(x[1]), m = Answer(JoinSegment(c, q, x[1], x[2]), "wait")
          PROVE  Accounts(c, q, m)
      <4> DEFINE f == c.flights[x[1]]
                 usable == {e \in f.share \cap Candidates[q] : f.segment \in {None, e}}
      <4>1. /\ x[1] \in Live(c) /\ ~f.dispatched /\ usable # {} /\ x[2] = Longest(usable)
        BY DEF SegmentMatches
      <4>2. usable \in SUBSET Candidates[q]
        OBVIOUS
      <4> HIDE DEF usable
      <4>3. x[2] \in usable
        BY <4>1, <4>2, LongestIs
      <4>4. /\ x[1] \in Digests /\ f # None /\ x[2] \in f.share
            /\ f.segment \in {None, x[2]}
        BY <4>1, <4>3 DEF Live, usable
      <4> DEFINE j == JoinSegment(c, q, x[1], x[2])
      <4>5. Cardinality(f.followers) < MaxFollowers
        BY <1>00, <3>3, <4>4
      <4>6. Ledger(j) /\ Descends(c, j, {})
        BY <4>1, <4>4, <4>5, JoinLedger
      <4> HIDE DEF j
      <4>7. Accounts(c, q, Answer(j, "wait"))
        BY <4>6, NothingLed
      <4> QED BY <3>3, <4>7 DEF j
    <3> QED BY <3>1, <3>2, <3>3
  <2> QED BY <2>2, <2>3
<1> QED BY <1>1, <1>2

\* The answers to a request without a flight of its own.
LEMMA UnledLedger ==
    ASSUME NEW c, Book(c), Ledger(c), NEW q \in Requests, c.leads[q] = None, c.bound[q] = None,
           NoneGone(c, q), NEW local, NEW hit, NEW m \in Unled(c, q, local, hit)
    PROVE  Accounts(c, q, m)
<1>1. CASE local > 0
  BY <1>1, NothingLed, DescendsSelf DEF Unled
<1>2. CASE ~(local > 0)
  BY <1>2, SearchLedger DEF Unled
<1> QED BY <1>1, <1>2

\* The answers to a request that follows no flight.
LEMMA UnboundLedger ==
    ASSUME NEW c, Book(c), Ledger(c), NEW q \in Requests, c.bound[q] = None,
           NoneGone(c, q), NEW local, NEW hit, NEW m \in Unbound(c, q, local, hit)
    PROVE  Accounts(c, q, m)
<1> DEFINE d == c.leads[q]
           f == c.flights[d]
           given == GiveUp(c, q, d)
<1>1. CASE d = None
  BY <1>1, UnledLedger DEF Unbound
<1>2. CASE d # None
  <2>1. d \in Digests /\ f # None
    BY <1>2, ConnParts DEF Book, LeadersOK
  <2>2. \/ m = Answer(RetireAll(c, {d}), "compute")
        \/ m = Answer(c, "wait") \/ m = Answer(c, d)
        \/ m \in Unled(given, q, local, hit)
    BY <1>2 DEF Unbound, Retire, GiveUp
  <2>3. CASE m = Answer(RetireAll(c, {d}), "compute")
    <3> DEFINE a == RetireAll(c, {d})
    <3>1. Ledger(a) /\ Descends(c, a, {})
      BY RetireLedger
    <3> HIDE DEF a
    <3>2. Accounts(c, q, Answer(a, "compute"))
      BY <3>1, NothingLed
    <3> QED BY <2>3, <3>2 DEF a
  <2>4. CASE m = Answer(c, "wait") \/ m = Answer(c, d)
    BY <2>4, NothingLed, DescendsSelf
  <2>5. CASE m \in Unled(given, q, local, hit)
    <3>1. Book(given) /\ given.leads[q] = None /\ given.bound[q] = None
      BY <2>1, GiveUpBook
    <3>2. Ledger(given) /\ Descends(c, given, {})
      BY <2>1, <3>1, GiveUpLedger
    <3> HIDE DEF given
    <3>3. NoneGone(given, q)
      BY <3>2, NoneGoneKept
    <3>4. Accounts(given, q, m)
      BY <2>5, <3>1, <3>2, <3>3, UnledLedger
    <3> QED BY <3>2, <3>4, DescendsMore, DescendsComposes DEF Accounts
  <2> QED BY <2>2, <2>3, <2>4, <2>5
<1> QED BY <1>1, <1>2

\* get_num_new_matched_tokens keeps the ledger.
LEMMA MatchedTokensLedger ==
    ASSUME NEW c, Book(c), Ledger(c), NEW q \in Requests, NoneGone(c, q), NEW local, NEW hit,
           NEW m \in MatchedTokens(c, q, local, hit)
    PROVE  Accounts(c, q, m)
<1> DEFINE r == RemoveFollower(c, q)
<1>1. Book(r) /\ Ledger(r) /\ Descends(c, r, {}) /\ r.bound[q] = None
  BY RemoveBook, RemoveLedger
<1>2. CASE c.bound[q] = None
  BY <1>2, UnboundLedger DEF MatchedTokens
<1>3. CASE m = Answer(r, "compute")
  <2> HIDE DEF r
  <2> QED BY <1>1, <1>3, NothingLed
<1>4. CASE m = Answer(c, "wait")
  BY <1>4, NothingLed, DescendsSelf
<1>5. CASE m \in Unbound(r, q, local, hit)
  <2> HIDE DEF r
  <2>1. NoneGone(r, q)
    BY <1>1, NoneGoneKept
  <2>2. Accounts(r, q, m)
    BY <1>1, <1>5, <2>1, UnboundLedger
  <2> QED BY <1>1, <2>2, DescendsMore, DescendsComposes DEF Accounts
<1>6. c.bound[q] # None => \/ m = Answer(r, "compute") \/ m = Answer(c, "wait")
                           \/ m \in Unbound(r, q, local, hit)
  BY DEF MatchedTokens
<1> QED BY <1>2, <1>3, <1>4, <1>5, <1>6

\* What the end of a leader leaves of its flight: it is gone, and had a lease or a
\* load under way.
LEMMA LeaderLeavesLedger ==
    ASSUME NEW c, Book(c), Ledger(c), NEW q \in Requests, NEW a, a = LeaderLeaves(c, q)
    PROVE  /\ Ledger(a)
           /\ \A d \in Digests : a.flights[d] # None =>
                /\ c.flights[d] # None /\ a.flights[d].leader = c.flights[d].leader
                /\ a.flights[d].blocks = c.flights[d].blocks
                /\ a.flights[d].dispatched = c.flights[d].dispatched
                /\ a.flights[d].done = c.flights[d].done
                /\ a.flights[d].lease = c.flights[d].lease
                /\ a.flights[d].segment = c.flights[d].segment
                /\ a.flights[d].gone <=> c.flights[d].gone \/ c.flights[d].leader = q
                /\ d = c.leads[q] => ~a.flights[d].done \/ a.flights[d].lease # None
<1>0. c \in Conns /\ c.leads \in [Requests -> Optional(Digests)]
      /\ c.flights \in [Digests -> Optional(FlightRecords)]
  BY ConnIs DEF Book
<1>1. Book(a)
  BY LeaderLeavesBook
<1>2. \A d \in Digests : c.flights[d] # None /\ ~c.flights[d].gone => c.leads[c.flights[d].leader] = d
  BY DEF Ledger, LeadsTied
<1>3. CASE c.leads[q] = None
  <2>1. a = c
    BY <1>3 DEF LeaderLeaves
  <2>2. \A d \in Digests : d # None
    BY FlightConstants
  <2>3. ASSUME NEW d \in Digests, c.flights[d] # None, c.flights[d].leader = q
        PROVE  c.flights[d].gone
    BY <1>2, <1>3, <2>2, <2>3
  <2> QED BY <1>3, <2>1, <2>2, <2>3
<1>4. CASE c.leads[q] # None
  <2> DEFINE d == c.leads[q]
             f == c.flights[d]
             g == [f EXCEPT !.gone = TRUE]
  <2>1. d \in Digests /\ f # None /\ f \in FlightRecords /\ f.leader = q
    BY <1>0, <1>4, ConnParts DEF Book, LeadersOK
  <2>2. \A e \in Digests : c.flights[e] # None /\ c.flights[e].leader = q => e = d
    BY <2>1 DEF Ledger, LeadsTied
  <2>3. CASE f.lease = None /\ ~(f.dispatched /\ ~f.done)
    <3>1. a = RetireAll(c, {d})
      BY <1>4, <2>3 DEF LeaderLeaves, Retire
    <3>2. /\ Ledger(a) /\ \A e \in Digests : a.flights[e] # None => e # d
      BY <3>1, RetireLedger
    <3>3. \A e \in Digests : a.flights[e] = IF e \in {d} THEN None ELSE c.flights[e]
      BY <1>0, <3>1, RetireIs
    <3>4. \A e \in Digests : a.flights[e] # None => a.flights[e] = c.flights[e] /\ c.flights[e] # None /\ e # d
      BY <3>2, <3>3
    <3> HIDE DEF d, f
    <3>5. \A e \in Digests : a.flights[e] # None => c.flights[e].leader # q
      BY <2>2, <3>4
    <3> QED BY <3>2, <3>4, <3>5 DEF d
  <2>4. CASE f.lease # None \/ (f.dispatched /\ ~f.done)
    <3> DEFINE L == IF f.lease # None THEN Put(c.leads, q, None) ELSE c.leads
               F == Put(c.flights, d, g)
    <3>1. /\ g \in FlightRecords /\ g # None /\ g.leader = f.leader /\ g.blocks = f.blocks
          /\ g.dispatched = f.dispatched /\ g.done = f.done /\ g.lease = f.lease
          /\ g.segment = f.segment /\ g.followers = f.followers /\ g.newer = f.newer /\ g.gone = TRUE
      <4> HIDE DEF f
      <4>1. g \in FlightRecords
        BY <2>1 DEF FlightRecords
      <4> QED BY <2>1, <4>1, DistinctValues DEF FlightRecords
    <3>2. a = [c EXCEPT !.leads = L, !.flights = F]
      <4>1. CASE f.lease # None
        <5>1. a = [c EXCEPT !.leads = Put(c.leads, q, None), !.flights = F]
          BY <1>4, <4>1 DEF LeaderLeaves
        <5> QED BY <4>1, <5>1
      <4>2. CASE ~(f.lease # None)
        <5>1. a = [c EXCEPT !.flights = F]
          BY <1>4, <2>4, <4>2 DEF LeaderLeaves
        <5>2. L = c.leads
          BY <4>2
        <5> HIDE DEF F, L
        <5> QED BY <1>0, <5>1, <5>2 DEF Conns
      <4> QED BY <4>1, <4>2
    <3>3. \A p \in Requests : p # q => L[p] = c.leads[p]
      BY <1>0 DEF Put
    <3> HIDE DEF g, L
    <3>4. \A e \in Digests : F[e] = IF e = d THEN g ELSE c.flights[e]
      BY <1>0, <2>1 DEF Put
    <3> HIDE DEF F
    <3>5. a.flights = F /\ a.leads = L /\ a.bound = c.bound
      BY <1>0, <3>2 DEF Conns
    <3>6. \A e \in Digests : a.flights[e] # None =>
            /\ c.flights[e] # None /\ a.flights[e].leader = c.flights[e].leader
            /\ a.flights[e].blocks = c.flights[e].blocks
            /\ a.flights[e].dispatched = c.flights[e].dispatched
            /\ a.flights[e].done = c.flights[e].done
            /\ a.flights[e].lease = c.flights[e].lease
            /\ a.flights[e].segment = c.flights[e].segment
            /\ a.flights[e].followers = c.flights[e].followers
            /\ a.flights[e].newer = c.flights[e].newer
            /\ a.flights[e].gone <=> c.flights[e].gone \/ e = d
      <4> SUFFICES ASSUME NEW e \in Digests, a.flights[e] # None
                   PROVE  /\ c.flights[e] # None /\ a.flights[e].leader = c.flights[e].leader
                          /\ a.flights[e].blocks = c.flights[e].blocks
                          /\ a.flights[e].dispatched = c.flights[e].dispatched
                          /\ a.flights[e].done = c.flights[e].done
                          /\ a.flights[e].lease = c.flights[e].lease
                          /\ a.flights[e].segment = c.flights[e].segment
                          /\ a.flights[e].followers = c.flights[e].followers
                          /\ a.flights[e].newer = c.flights[e].newer
                          /\ a.flights[e].gone <=> c.flights[e].gone \/ e = d
        OBVIOUS
      <4>1. CASE e = d
        BY <2>1, <3>1, <3>4, <3>5, <4>1
      <4>2. CASE e # d
        BY <3>4, <3>5, <4>2
      <4> QED BY <4>1, <4>2
    <3>7. \A e \in Digests : a.flights[e] # None /\ ~a.flights[e].gone => a.leads[a.flights[e].leader] = e
      <4> SUFFICES ASSUME NEW e \in Digests, a.flights[e] # None, ~a.flights[e].gone
                   PROVE  a.leads[a.flights[e].leader] = e
        OBVIOUS
      <4>1. /\ e # d /\ c.flights[e] # None /\ ~c.flights[e].gone
            /\ a.flights[e].leader = c.flights[e].leader
        BY <3>6
      <4>2. c.flights[e].leader \in Requests
        BY <4>1, FlightIs
      <4>3. c.flights[e].leader # q
        BY <2>2, <4>1
      <4> QED BY <1>2, <3>3, <3>5, <4>1, <4>2, <4>3
    <3>8. Ledger(a)
      BY <1>1, <3>5, <3>6, <3>7, LedgerShrinks
    <3>9. \A e \in Digests : a.flights[e] # None => (c.flights[e].leader = q <=> e = d)
      BY <2>1, <2>2, <3>6
    <3>10. a.flights[d].done = f.done /\ a.flights[d].lease = f.lease
      BY <2>1, <3>1, <3>4, <3>5
    <3> HIDE DEF d, f
    <3> QED BY <2>4, <3>6, <3>8, <3>9, <3>10 DEF d
  <2> QED BY <2>3, <2>4
<1> QED BY <1>3, <1>4

\* What the end of a request leaves of the flights.
LEMMA RequestFinishedLedger ==
    ASSUME NEW c, Book(c), Ledger(c), NEW q \in Requests, NEW a, a = RequestFinished(c, q)
    PROVE  /\ Ledger(a)
           /\ \A d \in Digests : a.flights[d] # None =>
                /\ c.flights[d] # None /\ a.flights[d].leader = c.flights[d].leader
                /\ a.flights[d].blocks = c.flights[d].blocks
                /\ a.flights[d].dispatched = c.flights[d].dispatched
                /\ a.flights[d].done = c.flights[d].done
                /\ a.flights[d].lease = c.flights[d].lease
                /\ c.flights[d].dispatched => a.flights[d].segment \in {None, c.flights[d].segment}
                /\ a.flights[d].gone <=> c.flights[d].gone \/ c.flights[d].leader = q
                /\ d = c.leads[q] => ~a.flights[d].done \/ a.flights[d].lease # None
<1> DEFINE m == RemoveFollower(c, q)
           e == LeaderLeaves(m, q)
<1>1. Book(m) /\ Ledger(m) /\ Descends(c, m, {}) /\ m.leads = c.leads
  BY RemoveBook, RemoveLedger
<1> HIDE DEF m
<1>2. /\ Book(e) /\ Ledger(e)
      /\ \A d \in Digests : e.flights[d] # None =>
           /\ m.flights[d] # None /\ e.flights[d].leader = m.flights[d].leader
           /\ e.flights[d].blocks = m.flights[d].blocks
           /\ e.flights[d].dispatched = m.flights[d].dispatched
           /\ e.flights[d].done = m.flights[d].done
           /\ e.flights[d].lease = m.flights[d].lease
           /\ e.flights[d].segment = m.flights[d].segment
           /\ e.flights[d].gone <=> m.flights[d].gone \/ m.flights[d].leader = q
           /\ d = m.leads[q] => ~e.flights[d].done \/ e.flights[d].lease # None
  BY <1>1, LeaderLeavesBook, LeaderLeavesLedger
<1>3. a = [e EXCEPT !.need = Put(e.need, q, None), !.pending = Put(e.pending, q, None),
                    !.admitted = Put(e.admitted, q, None)]
  BY DEF RequestFinished, m
<1> HIDE DEF e
<1>4. a.flights = e.flights /\ a.leads = e.leads /\ a.bound = e.bound
  BY <1>2, <1>3 DEF Book, Conns
<1>5. Ledger(a)
  BY <1>2, <1>4, LedgerSame
<1>6. \A d \in Digests : m.flights[d] # None => SameFlight(c.flights[d], m.flights[d])
  BY <1>1 DEF Descends, Fresh
<1>7. ASSUME NEW d \in Digests, a.flights[d] # None
      PROVE  /\ c.flights[d] # None /\ a.flights[d].leader = c.flights[d].leader
             /\ a.flights[d].blocks = c.flights[d].blocks
             /\ a.flights[d].dispatched = c.flights[d].dispatched
             /\ a.flights[d].done = c.flights[d].done
             /\ a.flights[d].lease = c.flights[d].lease
             /\ c.flights[d].dispatched => a.flights[d].segment \in {None, c.flights[d].segment}
             /\ a.flights[d].gone <=> c.flights[d].gone \/ c.flights[d].leader = q
             /\ d = c.leads[q] => ~a.flights[d].done \/ a.flights[d].lease # None
  <2>1. SameFlight(c.flights[d], m.flights[d])
    BY <1>2, <1>4, <1>6, <1>7
  <2> QED BY <1>1, <1>2, <1>4, <1>7, <2>1 DEF SameFlight
<1> QED BY <1>5, <1>7

\* One flight ages.
Aged(c, d) == [c EXCEPT !.flights[d] = [@ EXCEPT !.aged = TRUE]]

\* Age keeps the ledger.
LEMMA AgeLedger ==
    ASSUME NEW c, Book(c), Ledger(c), NEW d \in Digests, c.flights[d] # None,
           NEW a, a = Aged(c, d)
    PROVE  Ledger(a) /\ Descends(c, a, {})
<1> DEFINE f == c.flights[d]
           g == [f EXCEPT !.aged = TRUE]
<1>0. /\ c \in Conns /\ c.flights \in [Digests -> Optional(FlightRecords)] /\ f \in FlightRecords
      /\ Book(a)
  BY ConnIs, ConnParts, AgeBook DEF Book, Aged
<1>1. /\ g.leader = f.leader /\ g.blocks = f.blocks /\ g.dispatched = f.dispatched
      /\ g.done = f.done /\ g.gone = f.gone /\ g.lease = f.lease /\ g.segment = f.segment
      /\ g.followers = f.followers /\ g.newer = f.newer
  <2> HIDE DEF f
  <2> QED BY <1>0 DEF FlightRecords
<1> HIDE DEF g
<1>2. a = [c EXCEPT !.flights = [c.flights EXCEPT ![d] = g]]
  BY DEF g, Aged
<1>3. /\ a.flights = [c.flights EXCEPT ![d] = g] /\ a.leads = c.leads /\ a.bound = c.bound
  BY <1>0, <1>2 DEF Conns
<1>4. \A e \in Digests : a.flights[e] = IF e = d THEN g ELSE c.flights[e]
  BY <1>0, <1>3
<1>5. \A e \in Digests : a.flights[e] # None =>
        /\ c.flights[e] # None
        /\ a.flights[e].leader = c.flights[e].leader /\ a.flights[e].blocks = c.flights[e].blocks
        /\ a.flights[e].dispatched = c.flights[e].dispatched
        /\ a.flights[e].done = c.flights[e].done /\ a.flights[e].gone = c.flights[e].gone
        /\ a.flights[e].lease = c.flights[e].lease /\ a.flights[e].segment = c.flights[e].segment
        /\ a.flights[e].followers = c.flights[e].followers
        /\ a.flights[e].newer = c.flights[e].newer
  BY <1>1, <1>4
<1>6. \A e \in Digests : a.flights[e] # None /\ ~a.flights[e].gone => a.leads[a.flights[e].leader] = e
  BY <1>3, <1>5 DEF Ledger, LeadsTied
<1>7. Ledger(a)
  <2> HIDE DEF f
  <2>1. \A p \in Requests : a.bound[p] \in {None, c.bound[p]}
    BY <1>3
  <2>2. \A e \in Digests : a.flights[e] # None =>
          \A p \in a.flights[e].followers : a.bound[p] = c.bound[p]
    BY <1>3
  <2>3. \A e \in Digests : a.flights[e] # None =>
          /\ c.flights[e] # None
          /\ a.flights[e].leader = c.flights[e].leader
          /\ a.flights[e].followers = c.flights[e].followers
          /\ a.flights[e].segment = c.flights[e].segment
          /\ a.flights[e].lease = c.flights[e].lease
          /\ a.flights[e].newer = c.flights[e].newer
          /\ ~a.flights[e].gone => a.leads[a.flights[e].leader] = e
          /\ \A p \in a.flights[e].followers : a.bound[p] = c.bound[p]
    BY <1>5, <1>6, <2>2
  <2> QED BY <1>0, <2>1, <2>3, LedgerShrinks
<1> QED BY <1>5, <1>7 DEF Descends, SameFlight

\* What Renew changes.
LEMMA RenewIs ==
    ASSUME NEW c, Book(c), NEW d \in Digests, c.flights[d] # None, c.flights[d].done,
           NEW key \in Digests, NEW a, a = Renew(c, d, key)
    PROVE  /\ a.leads = c.leads /\ a.bound = c.bound
           /\ \A e \in Digests :
                /\ a.flights[e] # None <=> c.flights[e] # None
                /\ a.flights[e] # None =>
                     /\ a.flights[e].leader = c.flights[e].leader
                     /\ a.flights[e].blocks = c.flights[e].blocks
                     /\ a.flights[e].dispatched = c.flights[e].dispatched
                     /\ a.flights[e].done = c.flights[e].done
                     /\ a.flights[e].gone = c.flights[e].gone
                     /\ a.flights[e].segment = c.flights[e].segment
                     /\ a.flights[e].followers = c.flights[e].followers
                     /\ a.flights[e].lease = IF e = d THEN key ELSE c.flights[e].lease
           /\ a.flights[d].newer = {}
           /\ \A e \in Published(c) \ {d} :
                a.flights[e].newer = {x \in Published(c) : x = d \/ x \in c.flights[e].newer} \cup {d}
<1> DEFINE f == c.flights
           N(e) == {x \in Published(c) : x = d \/ x \in f[e].newer} \cup {d}
           g == [f[d] EXCEPT !.lease = key, !.newer = {}, !.aged = FALSE]
           h(e) == [f[e] EXCEPT !.newer = N(e)]
           F == [e \in Digests |-> IF e = d THEN g ELSE IF e \in Published(c) THEN h(e) ELSE f[e]]
<1>0. c \in Conns /\ f[d] \in FlightRecords
  BY FlightIs DEF Book
<1>1. a = [c EXCEPT !.flights = F]
  BY DEF Renew
<1>2. /\ g.leader = f[d].leader /\ g.blocks = f[d].blocks
      /\ g.dispatched = f[d].dispatched /\ g.done = f[d].done /\ g.gone = f[d].gone
      /\ g.segment = f[d].segment /\ g.followers = f[d].followers
      /\ g.lease = key /\ g.newer = {}
  <2> HIDE DEF f
  <2> QED BY <1>0 DEF FlightRecords
<1>3. ASSUME NEW e \in Digests, f[e] # None
      PROVE  /\ h(e).leader = f[e].leader /\ h(e).blocks = f[e].blocks
             /\ h(e).dispatched = f[e].dispatched /\ h(e).done = f[e].done /\ h(e).gone = f[e].gone
             /\ h(e).segment = f[e].segment /\ h(e).followers = f[e].followers
             /\ h(e).lease = f[e].lease /\ h(e).newer = N(e)
  <2>1. f[e] \in FlightRecords
    BY <1>3, FlightIs
  <2> HIDE DEF f, N
  <2> QED BY <2>1 DEF FlightRecords
<1>4. \A e \in Digests : F[e] = IF e = d THEN g ELSE IF e \in Published(c) THEN h(e) ELSE f[e]
  OBVIOUS
<1>5. \A e \in Published(c) : e \in Digests /\ f[e] # None
  BY PublishedIs
<1> HIDE DEF F, g, h, N
<1>6. a.flights = F /\ a.leads = c.leads /\ a.bound = c.bound
  BY <1>0, <1>1 DEF Conns
<1>7. \A e \in Digests : a.flights[e] # None <=> c.flights[e] # None
  <2>1. g # None
    <3>1. g \in FlightRecords
      <4> HIDE DEF f
      <4> QED BY <1>0 DEF g, FlightRecords, Optional
    <3> QED BY <3>1, DistinctValues
  <2>2. \A e \in Published(c) : h(e) # None
    <3> SUFFICES ASSUME NEW e \in Published(c) PROVE h(e) # None
      OBVIOUS
    <3>1. f[e] \in FlightRecords /\ N(e) \in SUBSET Digests
      BY <1>5, FlightIs DEF N, f
    <3>2. h(e) \in FlightRecords
      <4> HIDE DEF f
      <4> QED BY <3>1 DEF h, FlightRecords
    <3> QED BY <3>2, DistinctValues
  <2>3. \A e \in Digests : c.flights[e] = None => a.flights[e] = None
    BY <1>4, <1>5, <1>6
  <2> QED BY <1>4, <1>5, <1>6, <2>1, <2>2, <2>3
<1>8. ASSUME NEW e \in Digests, a.flights[e] # None
      PROVE  /\ a.flights[e].leader = c.flights[e].leader
             /\ a.flights[e].blocks = c.flights[e].blocks
             /\ a.flights[e].dispatched = c.flights[e].dispatched
             /\ a.flights[e].done = c.flights[e].done
             /\ a.flights[e].gone = c.flights[e].gone
             /\ a.flights[e].segment = c.flights[e].segment
             /\ a.flights[e].followers = c.flights[e].followers
             /\ a.flights[e].lease = IF e = d THEN key ELSE c.flights[e].lease
  <2>1. CASE e = d
    BY <1>2, <1>4, <1>6, <2>1
  <2>2. CASE e # d /\ e \in Published(c)
    BY <1>3, <1>4, <1>5, <1>6, <2>2
  <2>3. CASE e # d /\ e \notin Published(c)
    BY <1>4, <1>6, <2>3
  <2> QED BY <2>1, <2>2, <2>3
<1>9. a.flights[d].newer = {}
  BY <1>2, <1>4, <1>6
<1>10. ASSUME NEW e \in Published(c) \ {d}
       PROVE  a.flights[e].newer = {x \in Published(c) : x = d \/ x \in c.flights[e].newer} \cup {d}
  <2>1. a.flights[e].newer = N(e)
    BY <1>3, <1>4, <1>5, <1>6
  <2> QED BY <2>1 DEF N
<1> QED BY <1>6, <1>7, <1>8, <1>9, <1>10

\* A published lease is the newest one.
LEMMA RenewLedger ==
    ASSUME NEW c, Book(c), Ledger(c), NEW d \in Digests, c.flights[d] # None, c.flights[d].done,
           NEW key, key = LeaseKey(c, d), NEW a, a = Renew(c, d, key)
    PROVE  Ledger(a) /\ Published(a) = Published(c) \cup {d}
<1>0. key \in Digests /\ key # None
  BY LeaseKeyIs, FlightConstants
<1>1. /\ a.leads = c.leads /\ a.bound = c.bound
      /\ \A e \in Digests :
           /\ a.flights[e] # None <=> c.flights[e] # None
           /\ a.flights[e] # None =>
                /\ a.flights[e].leader = c.flights[e].leader
                /\ a.flights[e].gone = c.flights[e].gone
                /\ a.flights[e].segment = c.flights[e].segment
                /\ a.flights[e].followers = c.flights[e].followers
                /\ a.flights[e].lease = IF e = d THEN key ELSE c.flights[e].lease
      /\ a.flights[d].newer = {}
      /\ \A e \in Published(c) \ {d} :
           a.flights[e].newer = {x \in Published(c) : x = d \/ x \in c.flights[e].newer} \cup {d}
  BY <1>0, RenewIs
<1>2. LeadsTied(a) /\ FollowersTied(a)
  BY <1>1 DEF Ledger, LeadsTied, FollowersTied
<1>3. KeysTied(a)
  <2>1. \A e \in Digests : a.flights[e] # None => LeaseKey(a, e) = LeaseKey(c, e)
    BY <1>1 DEF LeaseKey
  <2>2. \A e \in Digests : a.flights[e] # None => a.flights[e].lease \in {None, LeaseKey(a, e)}
    BY <1>1, <2>1 DEF Ledger, KeysTied
  <2>3. \A q \in Requests : c.bound[q] # None =>
          c.bound[q].flight \in Digests /\ c.flights[c.bound[q].flight] # None
    BY ConnParts DEF Book, BoundOK, Bindings
  <2>4. \A q \in Requests : a.bound[q] # None => a.bound[q].lease = LeaseKey(a, a.bound[q].flight)
    BY <1>1, <2>1, <2>3 DEF Ledger, KeysTied
  <2> QED BY <2>2, <2>4 DEF KeysTied
<1>4. Published(a) = Published(c) \cup {d}
  <2>1. \A e : e \in Published(a) <=> e \in Published(c) \cup {d}
    BY <1>0, <1>1, PublishedIs
  <2> QED BY <2>1
<1>5. Live(a) \ Published(a) \subseteq Live(c) \ Published(c)
  BY <1>1, <1>4, PublishedIs
<1>6. Limits(a)
  <2>1. MaxPendingRestores \in Nat
    BY FlightConstants
  <2>2. /\ IsFiniteSet(Live(a) \ Published(a))
        /\ Cardinality(Live(a) \ Published(a)) <= MaxPendingRestores
    BY <1>5, <2>1, FewerIs DEF Ledger, Limits
  <2>3. IsFiniteSet(Published(a))
    BY <1>4, FS_AddElement DEF Ledger, Limits
  <2>4. \A e \in Digests : a.flights[e] # None =>
          IsFiniteSet(a.flights[e].followers) /\ Cardinality(a.flights[e].followers) <= MaxFollowers
    BY <1>1 DEF Ledger, Limits
  <2> QED BY <2>2, <2>3, <2>4 DEF Limits
<1>7. Ranked(a, Published(a))
  <2> DEFINE P == Published(c)
             O(e) == c.flights[e].newer
             N(e) == a.flights[e].newer
  <2>1. N(d) = {} /\ \A e \in P \ {d} : N(e) = {x \in P : x = d \/ x \in O(e)} \cup {d}
    BY <1>1
  <2>2. \A e \in P, x \in P :
          /\ e \notin O(e) /\ (e # x => e \in O(x) \/ x \in O(e))
          /\ \A y \in P : e \in O(x) /\ x \in O(y) => e \in O(y)
    BY DEF Ledger, Ranked
  <2> HIDE DEF P, O, N
  <2>3. \A e \in P \ {d} : \A x : x \in N(e) <=> x = d \/ (x \in P /\ x \in O(e))
    BY <2>1
  <2>4. \A e, x \in P \cup {d} :
          /\ e \notin N(e)
          /\ e # x => e \in N(x) \/ x \in N(e)
          /\ \A y \in P \cup {d} : e \in N(x) /\ x \in N(y) => e \in N(y)
    <3> SUFFICES ASSUME NEW e \in P \cup {d}, NEW x \in P \cup {d}
                 PROVE  /\ e \notin N(e)
                        /\ e # x => e \in N(x) \/ x \in N(e)
                        /\ \A y \in P \cup {d} : e \in N(x) /\ x \in N(y) => e \in N(y)
      OBVIOUS
    <3>1. e \notin N(e)
      BY <2>1, <2>2, <2>3
    <3>2. e # x => e \in N(x) \/ x \in N(e)
      BY <2>2, <2>3
    <3>3. ASSUME NEW y \in P \cup {d}, e \in N(x), x \in N(y)
          PROVE  e \in N(y)
      <4>1. x # d /\ y # d
        BY <2>1, <3>3
      <4>2. x \in P \ {d} /\ y \in P \ {d}
        BY <4>1
      <4>3. CASE e = d
        BY <2>3, <4>2, <4>3
      <4>4. CASE e # d
        <5>1. e \in P /\ e \in O(x) /\ x \in O(y)
          BY <2>3, <3>3, <4>1, <4>2, <4>4
        <5> QED BY <2>2, <2>3, <4>2, <5>1
      <4> QED BY <4>3, <4>4
    <3> QED BY <3>1, <3>2, <3>3
  <2> QED BY <1>4, <2>4 DEF P, N, Ranked
<1> QED BY <1>2, <1>3, <1>4, <1>6, <1>7 DEF Ledger

\* Of a finite set of ranked leases one is the oldest.
LEMMA OldestIs ==
    ASSUME NEW c, NEW R, IsFiniteSet(R), R # {}, Ranked(c, R)
    PROVE  \E o \in R : \A e \in R \ {o} : e \in c.flights[o].newer
<1> DEFINE N(e) == c.flights[e].newer \cap R
           D == {Cardinality(R) - Cardinality(N(e)) : e \in R}
<1>1. Cardinality(R) \in Nat
  BY FS_CardinalityType
<1>2. \A e \in R : IsFiniteSet(N(e)) /\ Cardinality(N(e)) \in Nat /\ Cardinality(N(e)) <= Cardinality(R)
  <2> SUFFICES ASSUME NEW e \in R
               PROVE  IsFiniteSet(N(e)) /\ Cardinality(N(e)) \in Nat /\ Cardinality(N(e)) <= Cardinality(R)
    OBVIOUS
  <2>1. N(e) \subseteq R
    OBVIOUS
  <2> HIDE DEF N
  <2>2. IsFiniteSet(N(e)) /\ Cardinality(N(e)) <= Cardinality(R)
    BY <2>1, FS_Subset
  <2> QED BY <2>2, FS_CardinalityType
<1>3. D \subseteq Nat /\ D # {}
  <2> HIDE DEF N
  <2> QED BY <1>1, <1>2
<1>4. PICK m \in D : \A k \in D : m <= k
  <2> HIDE DEF D
  <2> QED BY <1>3, LeastElement
<1>5. PICK o \in R : m = Cardinality(R) - Cardinality(N(o))
  OBVIOUS
<1>6. \A e \in R : Cardinality(N(e)) <= Cardinality(N(o))
  <2> SUFFICES ASSUME NEW e \in R PROVE Cardinality(N(e)) <= Cardinality(N(o))
    OBVIOUS
  <2>1. m <= Cardinality(R) - Cardinality(N(e))
    BY <1>4
  <2> HIDE DEF N, D
  <2> QED BY <1>1, <1>2, <1>5, <2>1
<1>7. ASSUME NEW e \in R \ {o}, e \notin c.flights[o].newer
      PROVE  FALSE
  <2>1. o \in c.flights[e].newer /\ o \notin c.flights[o].newer
    BY <1>7 DEF Ranked
  <2>2. \A x \in R : x \in c.flights[o].newer => x \in c.flights[e].newer
    BY <2>1 DEF Ranked
  <2>3. N(o) \cup {o} \subseteq N(e) /\ o \notin N(o)
    BY <2>1, <2>2
  <2> HIDE DEF N
  <2>4. /\ IsFiniteSet(N(o) \cup {o})
        /\ Cardinality(N(o) \cup {o}) = Cardinality(N(o)) + 1
    BY <1>2, <2>3, FS_AddElement
  <2>5. Cardinality(N(o) \cup {o}) <= Cardinality(N(e))
    BY <1>2, <2>3, FS_Subset
  <2> QED BY <1>2, <1>6, <2>4, <2>5
<1> QED BY <1>7

\* Leases with fewer than n newer ones among them are at most n.
LEMMA FewRanked ==
    ASSUME NEW c, NEW R, IsFiniteSet(R), Ranked(c, R), NEW n \in Nat,
           \A e \in R : Cardinality(c.flights[e].newer \cap R) < n
    PROVE  Cardinality(R) <= n
<1>1. CASE R = {}
  BY <1>1, FS_EmptySet
<1>2. CASE R # {}
  <2>1. PICK o \in R : \A e \in R \ {o} : e \in c.flights[o].newer
    BY <1>2, OldestIs
  <2> DEFINE N == c.flights[o].newer \cap R
  <2>2. N = R \ {o}
    BY <2>1 DEF Ranked
  <2>3. Cardinality(N) < n
    OBVIOUS
  <2> HIDE DEF N
  <2>4. IsFiniteSet(R \ {o}) /\ Cardinality(R \ {o}) = Cardinality(R) - 1
    BY FS_RemoveElement
  <2>5. Cardinality(R) \in Nat
    BY FS_CardinalityType
  <2> QED BY <2>2, <2>3, <2>4, <2>5
<1> QED BY <1>1, <1>2

\* shared_prefix_lease_published: the flight has a lease, and the oldest leases above
\* the limit are retired.
LEMMA PublishLedger ==
    ASSUME NEW c, Book(c), Ledger(c), NEW q \in Requests, NEW key, Accepts(c, q, key),
           NEW a, a = Publish(c, q, key)
    PROVE  /\ Ledger(a) /\ LeasesLimited(a)
           /\ \A d \in Digests : a.flights[d] # None =>
                /\ c.flights[d] # None /\ a.flights[d].leader = c.flights[d].leader
                /\ a.flights[d].blocks = c.flights[d].blocks
                /\ a.flights[d].dispatched = c.flights[d].dispatched
                /\ a.flights[d].done = c.flights[d].done /\ a.flights[d].gone = c.flights[d].gone
                /\ a.flights[d].segment = c.flights[d].segment
                /\ a.flights[d].lease = None => c.flights[d].lease = None /\ d # c.leads[q]
<1> DEFINE d == c.leads[q]
           m == Renew(c, d, key)
           D == {e \in Published(m) : Cardinality(m.flights[e].newer \cap Published(m)) >= MaxLeases}
<1>1. d \in Digests /\ c.flights[d] # None /\ c.flights[d].done /\ key = LeaseKey(c, d)
  BY ConnParts DEF Book, LeadersOK, Accepts
<1>2. key \in Digests /\ key # None
  BY <1>1, LeaseKeyIs, FlightConstants
<1>3. Book(m) /\ Ledger(m)
  BY <1>1, <1>2, RenewBook, RenewLedger
<1>4. a = RetireAll(m, D)
  BY DEF Publish
<1>5. \A e \in Digests :
        /\ m.flights[e] # None <=> c.flights[e] # None
        /\ m.flights[e] # None =>
             /\ m.flights[e].leader = c.flights[e].leader
             /\ m.flights[e].blocks = c.flights[e].blocks
             /\ m.flights[e].dispatched = c.flights[e].dispatched
             /\ m.flights[e].done = c.flights[e].done
             /\ m.flights[e].gone = c.flights[e].gone
             /\ m.flights[e].segment = c.flights[e].segment
             /\ m.flights[e].lease = IF e = d THEN key ELSE c.flights[e].lease
  BY <1>1, <1>2, RenewIs
<1> HIDE DEF m
<1>6. Ledger(a)
  BY <1>3, <1>4, RetireLedger
<1>7. \A e \in Digests : a.flights[e] = IF e \in D THEN None ELSE m.flights[e]
  BY <1>3, <1>4, RetireIs DEF Book
<1>8. LeasesLimited(a)
  <2> DEFINE R == Published(a)
             P == Published(m)
  <2>1. \A e : e \in R <=> e \in P /\ e \notin D
    <3> HIDE DEF D
    <3> QED BY <1>7, PublishedIs
  <2>2. \A e \in R : /\ a.flights[e].newer = m.flights[e].newer
                     /\ ~(Cardinality(m.flights[e].newer \cap P) >= MaxLeases)
    BY <1>7, <2>1, PublishedIs
  <2>3. IsFiniteSet(P) /\ MaxLeases \in Nat
    BY <1>3, FlightConstants DEF Ledger, Limits
  <2>4. R \subseteq P /\ IsFiniteSet(R)
    <3>1. R \subseteq P
      BY <2>1
    <3> QED BY <2>3, <3>1, FS_Subset
  <2>5. Ranked(a, R)
    BY <1>6 DEF Ledger
  <2> HIDE DEF R, P, D
  <2>6. ASSUME NEW e \in R
        PROVE  Cardinality(a.flights[e].newer \cap R) < MaxLeases
    <3> DEFINE S == m.flights[e].newer \cap P
               T == a.flights[e].newer \cap R
    <3>1. T \subseteq S /\ S \subseteq P
      BY <2>2, <2>4
    <3>2. ~(Cardinality(S) >= MaxLeases)
      BY <2>2
    <3> HIDE DEF S, T
    <3>3. IsFiniteSet(S) /\ IsFiniteSet(T) /\ Cardinality(T) <= Cardinality(S)
      BY <2>3, <3>1, FS_Subset
    <3>4. Cardinality(S) \in Nat /\ Cardinality(T) \in Nat
      BY <3>3, FS_CardinalityType
    <3>5. Cardinality(T) < MaxLeases
      BY <2>3, <3>2, <3>3, <3>4
    <3> QED BY <3>5 DEF T
  <2>7. Cardinality(R) <= MaxLeases
    BY <2>3, <2>4, <2>5, <2>6, FewRanked
  <2> QED BY <2>7 DEF R, LeasesLimited
<1>9. \A e \in Digests : a.flights[e] # None =>
        /\ c.flights[e] # None /\ a.flights[e].leader = c.flights[e].leader
        /\ a.flights[e].blocks = c.flights[e].blocks
        /\ a.flights[e].dispatched = c.flights[e].dispatched
        /\ a.flights[e].done = c.flights[e].done /\ a.flights[e].gone = c.flights[e].gone
        /\ a.flights[e].segment = c.flights[e].segment
        /\ a.flights[e].lease = None => c.flights[e].lease = None /\ e # d
  <2>1. \A e \in Digests : a.flights[e] # None => a.flights[e] = m.flights[e]
    BY <1>7
  <2> HIDE DEF d, D
  <2> QED BY <1>2, <1>5, <2>1
<1> QED BY <1>6, <1>8, <1>9

\* Flights that change in place, without what the ledger is about.
LEMMA LedgerInPlace ==
    ASSUME NEW c, Book(c), Ledger(c), NEW a, a.leads = c.leads, a.bound = c.bound,
           \A d \in Digests :
             /\ a.flights[d] # None <=> c.flights[d] # None
             /\ a.flights[d] # None =>
                  /\ a.flights[d].leader = c.flights[d].leader
                  /\ a.flights[d].followers = c.flights[d].followers
                  /\ a.flights[d].segment = c.flights[d].segment
                  /\ a.flights[d].lease = c.flights[d].lease
                  /\ a.flights[d].newer = c.flights[d].newer
                  /\ a.flights[d].gone = c.flights[d].gone
    PROVE  Ledger(a)
<1>1. Live(a) = Live(c) /\ Published(a) = Published(c)
  BY DEF Live, Published
<1>2. \A d \in Digests : a.flights[d] # None => LeaseKey(a, d) = LeaseKey(c, d)
  BY DEF LeaseKey
<1>3. LeadsTied(a) /\ FollowersTied(a)
  BY DEF Ledger, LeadsTied, FollowersTied
<1>4. KeysTied(a)
  <2>1. \A d \in Digests : a.flights[d] # None => a.flights[d].lease \in {None, LeaseKey(a, d)}
    BY <1>2 DEF Ledger, KeysTied
  <2>2. \A q \in Requests : c.bound[q] # None =>
          c.bound[q].flight \in Digests /\ c.flights[c.bound[q].flight] # None
    BY ConnParts DEF Book, BoundOK, Bindings
  <2>3. \A q \in Requests : a.bound[q] # None => a.bound[q].lease = LeaseKey(a, a.bound[q].flight)
    BY <1>2, <2>2 DEF Ledger, KeysTied
  <2> QED BY <2>1, <2>3 DEF KeysTied
<1>5. Limits(a)
  BY <1>1 DEF Ledger, Limits
<1>6. Ranked(a, Published(a))
  <2>1. \A d \in Published(a) : a.flights[d].newer = c.flights[d].newer
    BY PublishedIs
  <2> QED BY <1>1, <2>1 DEF Ledger, Ranked
<1> QED BY <1>3, <1>4, <1>5, <1>6 DEF Ledger

\* The completed loads of leaders: their flights are done, unless the leader is gone.
LEMMA LoadsFinishedLedger ==
    ASSUME NEW c, Book(c), Ledger(c), NEW Q \in SUBSET Requests,
           \A q \in Q : c.leads[q] # None => c.flights[c.leads[q]].dispatched,
           NEW a, a = LoadsFinished(c, Q)
    PROVE  /\ Ledger(a)
           /\ \A d \in Digests : a.flights[d] # None =>
                /\ c.flights[d] # None /\ a.flights[d].leader = c.flights[d].leader
                /\ a.flights[d].blocks = c.flights[d].blocks
                /\ a.flights[d].dispatched = c.flights[d].dispatched
                /\ a.flights[d].gone = c.flights[d].gone
                /\ a.flights[d].lease = c.flights[d].lease
                /\ a.flights[d].segment = c.flights[d].segment
                /\ a.flights[d].done => c.flights[d].done \/ (c.flights[d].leader \in Q /\ ~c.flights[d].gone)
<1> DEFINE L == {c.leads[q] : q \in Q} \ {None}
           g(d) == [c.flights[d] EXCEPT !.done = TRUE]
           F == [d \in Digests |-> IF d \in L THEN g(d) ELSE c.flights[d]]
           m == [c EXCEPT !.flights = F]
           D == {d \in L : c.flights[d].gone}
<1>0. c \in Conns /\ c.flights \in [Digests -> Optional(FlightRecords)]
  BY ConnIs DEF Book
<1>1. \A d \in L : d \in Digests /\ c.flights[d] # None /\ c.flights[d].leader \in Q
  BY ConnParts DEF Book, LeadersOK
<1>2. a = RetireAll(m, D)
  BY DEF LoadsFinished
<1>3. Book(a)
  BY LoadsFinishedBook
<1> HIDE DEF L
<1>4. ASSUME NEW d \in L
      PROVE  /\ g(d) \in FlightRecords /\ g(d) # None /\ g(d).leader = c.flights[d].leader
             /\ g(d).blocks = c.flights[d].blocks /\ g(d).gone = c.flights[d].gone
             /\ g(d).dispatched = c.flights[d].dispatched /\ g(d).lease = c.flights[d].lease
             /\ g(d).segment = c.flights[d].segment /\ g(d).followers = c.flights[d].followers
             /\ g(d).newer = c.flights[d].newer
  <2> DEFINE f == c.flights[d]
  <2>0. f \in FlightRecords
    BY <1>1, FlightIs
  <2>1. g(d) = [f EXCEPT !.done = TRUE]
    OBVIOUS
  <2> HIDE DEF f, g
  <2>2. g(d) \in FlightRecords
    BY <2>0, <2>1 DEF FlightRecords
  <2>3. /\ g(d).leader = f.leader /\ g(d).blocks = f.blocks /\ g(d).gone = f.gone
        /\ g(d).dispatched = f.dispatched /\ g(d).lease = f.lease /\ g(d).segment = f.segment
        /\ g(d).followers = f.followers /\ g(d).newer = f.newer
    BY <2>0, <2>1 DEF FlightRecords
  <2> QED BY <2>2, <2>3, DistinctValues DEF f
<1>5. F \in [Digests -> Optional(FlightRecords)]
  <2> SUFFICES ASSUME NEW e \in Digests
               PROVE  (IF e \in L THEN g(e) ELSE c.flights[e]) \in Optional(FlightRecords)
    OBVIOUS
  <2> HIDE DEF g
  <2> QED BY <1>0, <1>4 DEF Optional
<1>6. \A e \in Digests : F[e] = IF e \in L THEN g(e) ELSE c.flights[e]
  OBVIOUS
<1>7. m = [c EXCEPT !.flights = F]
  OBVIOUS
<1> HIDE DEF F, m, g
<1>8. m \in Conns /\ m.flights = F /\ m.leads = c.leads /\ m.bound = c.bound
  BY <1>0, <1>5, <1>7, FlightsChange
<1>9. \A e \in Digests :
        /\ m.flights[e] # None <=> c.flights[e] # None
        /\ m.flights[e] # None =>
             /\ m.flights[e].leader = c.flights[e].leader
             /\ m.flights[e].blocks = c.flights[e].blocks
             /\ m.flights[e].gone = c.flights[e].gone
             /\ m.flights[e].dispatched = c.flights[e].dispatched
             /\ m.flights[e].lease = c.flights[e].lease
             /\ m.flights[e].segment = c.flights[e].segment
             /\ m.flights[e].followers = c.flights[e].followers
             /\ m.flights[e].newer = c.flights[e].newer
             /\ e \notin L => m.flights[e].done = c.flights[e].done
  <2> SUFFICES ASSUME NEW e \in Digests
               PROVE  /\ m.flights[e] # None <=> c.flights[e] # None
                      /\ m.flights[e] # None =>
                           /\ m.flights[e].leader = c.flights[e].leader
                           /\ m.flights[e].blocks = c.flights[e].blocks
                           /\ m.flights[e].gone = c.flights[e].gone
                           /\ m.flights[e].dispatched = c.flights[e].dispatched
                           /\ m.flights[e].lease = c.flights[e].lease
                           /\ m.flights[e].segment = c.flights[e].segment
                           /\ m.flights[e].followers = c.flights[e].followers
                           /\ m.flights[e].newer = c.flights[e].newer
                           /\ e \notin L => m.flights[e].done = c.flights[e].done
    OBVIOUS
  <2>1. CASE e \in L
    BY <1>1, <1>4, <1>6, <1>8, <2>1
  <2>2. CASE e \notin L
    BY <1>6, <1>8, <2>2
  <2> QED BY <2>1, <2>2
<1>10. Ledger(m)
  BY <1>8, <1>9, LedgerInPlace
<1>11. Ledger(a)
  <2> HIDE DEF D
  <2> QED BY <1>2, <1>3, <1>8, <1>10, RetireKeeps
<1>12. \A e \in Digests : a.flights[e] # None => a.flights[e] = m.flights[e] /\ (e \in L => ~c.flights[e].gone)
  <2>1. \A e \in Digests : a.flights[e] = IF e \in D THEN None ELSE m.flights[e]
    <3> HIDE DEF D
    <3> QED BY <1>2, <1>8, RetireIs
  <2> QED BY <2>1
<1>13. ASSUME NEW d \in Digests, a.flights[d] # None
       PROVE  /\ c.flights[d] # None /\ a.flights[d].leader = c.flights[d].leader
              /\ a.flights[d].blocks = c.flights[d].blocks
              /\ a.flights[d].dispatched = c.flights[d].dispatched
              /\ a.flights[d].gone = c.flights[d].gone
              /\ a.flights[d].lease = c.flights[d].lease
              /\ a.flights[d].segment = c.flights[d].segment
              /\ a.flights[d].done => c.flights[d].done \/ (c.flights[d].leader \in Q /\ ~c.flights[d].gone)
  <2>1. a.flights[d] = m.flights[d] /\ m.flights[d] # None /\ (d \in L => ~c.flights[d].gone)
    BY <1>12, <1>13
  <2>2. /\ c.flights[d] # None
        /\ m.flights[d].leader = c.flights[d].leader
        /\ m.flights[d].blocks = c.flights[d].blocks
        /\ m.flights[d].gone = c.flights[d].gone
        /\ m.flights[d].dispatched = c.flights[d].dispatched
        /\ m.flights[d].lease = c.flights[d].lease
        /\ m.flights[d].segment = c.flights[d].segment
        /\ d \notin L => m.flights[d].done = c.flights[d].done
    BY <1>9, <2>1
  <2>3. c.flights[d].gone = a.flights[d].gone /\ a.flights[d].done = m.flights[d].done
    BY <2>1, <2>2
  <2>4. CASE d \in L
    <3>1. c.flights[d].leader \in Q /\ ~c.flights[d].gone
      BY <1>1, <2>1, <2>2, <2>4
    <3> QED BY <2>1, <2>2, <2>3, <3>1
  <2>5. CASE d \notin L
    <3>1. m.flights[d].done = c.flights[d].done
      BY <2>2, <2>5
    <3> QED BY <2>1, <2>2, <2>3, <3>1
  <2> QED BY <2>4, <2>5
<1> QED BY <1>11, <1>13

-----------------------------------------------------------------------------
(***************************************************************************)
(* The second invariant: what ties the ledger of the connector to vLLM.    *)
(***************************************************************************)
\* A flight is orphaned exactly when its leader has ended.
LeftAt(d) == conn.flights[d].gone <=> phase[conn.flights[d].leader] \in {"draining", "done"}

\* A dispatched flight keeps at most the segment that its load restored.
SentAt(d) ==
    conn.flights[d].dispatched =>
        /\ load[conn.flights[d].leader] # None
        /\ conn.flights[d].segment \in {None, load[conn.flights[d].leader].segment}

\* With one pending restore at a time, the leader of a finished and unpublished
\* flight is about to publish, or its fence is set.
Awaited(q) == \E k \in Digests : fence[k] = q
MovingAt(d) ==
    MaxPendingRestores = 1 /\ conn.flights[d].done /\ conn.flights[d].lease = None =>
        \/ phase[conn.flights[d].leader] = "loaded"
        \/ /\ phase[conn.flights[d].leader] \in {"ready", "running"}
           /\ Awaited(conn.flights[d].leader)

FlightsAt == \A d \in Digests : conn.flights[d] # None => LeftAt(d) /\ SentAt(d) /\ MovingAt(d)

\* The flight of a loading leader names the blocks of its table.
CoveredAt(q) ==
    phase[q] \in {"parked", "loaded"} /\ conn.pending[q] = None /\ conn.leads[q] # None =>
        conn.flights[conn.leads[q]].blocks = Held(table[q])

\* A failed request leads no flight any more.
BadAt(q) ==
    q \in bad => phase[q] \in {"parked", "loaded"} /\ conn.leads[q] = None /\ conn.pending[q] = None

\* A table and a pin name a block once.
Injective(s) == \A i, j \in DOMAIN s : s[i] = s[j] => i = j

RequestsAt == \A q \in Requests : CoveredAt(q) /\ BadAt(q) /\ Injective(table[q])
PinsSpread == Len(pins) <= MaxLeases /\ \A p \in Held(pins) : Injective(p.blocks)

JInv ==
    /\ Ledger(conn) /\ LeasesLimited(conn)
    /\ FlightsAt /\ RequestsAt /\ PinsSpread /\ quorum \in SUBSET Digests

\* The flights of a that no request of X leads have the leader and the blocks they had.
Keeps(c, a, X) ==
    \A d \in Digests : a.flights[d] # None =>
        \/ a.flights[d].leader \in X
        \/ /\ c.flights[d] # None /\ a.flights[d].leader = c.flights[d].leader
           /\ a.flights[d].blocks = c.flights[d].blocks

\* What descends keeps its leader and its blocks.
LEMMA DescendsKeeps ==
    ASSUME NEW c, NEW a, NEW X, Descends(c, a, X)
    PROVE  Keeps(c, a, X)
BY DEF Descends, Keeps, Fresh, SameFlight

\* Fewer published leases stay limited.
LEMMA LeasesFewer ==
    ASSUME NEW c, Ledger(c), LeasesLimited(c), NEW a, Published(a) \subseteq Published(c)
    PROVE  LeasesLimited(a)
<1>1. IsFiniteSet(Published(c)) /\ MaxLeases \in Nat
  BY FlightConstants DEF Ledger, Limits
<1> QED BY <1>1, FewerIs DEF LeasesLimited

\* A flight that is not published and whose leader has not ended leads it.
LEMMA LedFlight ==
    ASSUME IInv, JInv, NEW d \in Digests, conn.flights[d] # None,
           phase[conn.flights[d].leader] \notin {"draining", "done"}
    PROVE  ~conn.flights[d].gone /\ conn.leads[conn.flights[d].leader] = d
<1>1. ~conn.flights[d].gone
  BY DEF JInv, FlightsAt, LeftAt
<1> QED BY <1>1 DEF JInv, Ledger, LeadsTied

\* A flight that keeps its fields, and whose leader keeps its phase, load and fence.
LEMMA FlightKept ==
    ASSUME NEW d \in Digests, NEW f, f = conn.flights[d], NEW g, g = conn'.flights[d],
           NEW p, p = f.leader,
           f # None, LeftAt(d), SentAt(d), MovingAt(d),
           g.leader = p, g.dispatched = f.dispatched, g.gone = f.gone,
           f.dispatched => g.segment \in {None, f.segment},
           g.done /\ g.lease = None => f.done /\ f.lease = None,
           phase'[p] = phase[p], load[p] # None => load'[p] # None /\ load'[p].segment = load[p].segment,
           Awaited(p) => Awaited(p)'
    PROVE  LeftAt(d)' /\ SentAt(d)' /\ MovingAt(d)'
<1>1. LeftAt(d)'
  BY DEF LeftAt
<1>2. SentAt(d)'
  BY DEF SentAt
<1>3. MovingAt(d)'
  <2>1. SUFFICES ASSUME MaxPendingRestores = 1, g.done, g.lease = None
                 PROVE  phase'[p] = "loaded" \/ (phase'[p] \in {"ready", "running"} /\ Awaited(p)')
    BY DEF MovingAt
  <2>2. phase[p] = "loaded" \/ (phase[p] \in {"ready", "running"} /\ Awaited(p))
    BY <2>1 DEF MovingAt
  <2> QED BY <2>2
<1> QED BY <1>1, <1>2, <1>3

\* A steady connector is steady for every request it does not except.
LEMMA SteadyEach ==
    ASSUME NEW c, NEW a, NEW X, Steady(c, a, X), NEW q \in Requests, q \notin X
    PROVE  SteadyAt(c, a, q)
BY DEF Steady, SteadyAt

\* A request that keeps its phase and table, while its flight keeps its blocks.
LEMMA RequestKept ==
    ASSUME NEW q \in Requests, Book(conn'), SteadyAt(conn, conn', q),
           NEW X, Keeps(conn, conn', X), q \notin X, CoveredAt(q), BadAt(q), Injective(table[q]),
           phase'[q] = phase[q], table'[q] = table[q], q \in bad' => q \in bad
    PROVE  CoveredAt(q)' /\ BadAt(q)' /\ Injective(table'[q])
<1>1. /\ conn'.pending[q] = conn.pending[q]
      /\ conn'.leads[q] # None => conn'.leads[q] = conn.leads[q]
  BY DEF SteadyAt
<1>2. CoveredAt(q)'
  <2>1. SUFFICES ASSUME phase'[q] \in {"parked", "loaded"}, conn'.pending[q] = None,
                        NEW d, d = conn'.leads[q], d # None
                 PROVE  conn'.flights[d].blocks = Held(table'[q])
    BY DEF CoveredAt
  <2>2. d \in Digests /\ conn'.flights[d] # None /\ conn'.flights[d].leader = q
    BY <2>1, ConnParts DEF Book, LeadersOK
  <2>3. conn'.flights[d].blocks = conn.flights[d].blocks
    BY <2>2 DEF Keeps
  <2> QED BY <1>1, <2>1, <2>3 DEF CoveredAt
<1>3. BadAt(q)'
  BY <1>1 DEF BadAt
<1> QED BY <1>2, <1>3

\* A step that leaves vLLM and the loads alone.
LEMMA FlightsOnly ==
    ASSUME IInv, JInv, IInv', Steady(conn, conn', {}), Descends(conn, conn', {}), Ledger(conn'),
           phase' = phase, table' = table, fence' = fence, bad' = bad,
           \A p \in Requests : load[p] # None => load'[p] # None /\ load'[p].segment = load[p].segment,
           PinsSpread', quorum' \in SUBSET Digests
    PROVE  JInv'
<1>1. Book(conn) /\ Book(conn')
  BY DEF IInv
<1>2. FlightsAt'
  <2>1. SUFFICES ASSUME NEW d \in Digests, conn'.flights[d] # None
                 PROVE  LeftAt(d)' /\ SentAt(d)' /\ MovingAt(d)'
    BY DEF FlightsAt
  <2> DEFINE f == conn.flights[d]
             g == conn'.flights[d]
  <2>2. SameFlight(f, g)
    BY <2>1 DEF Descends, Fresh
  <2>3. f.leader \in Requests /\ LeftAt(d) /\ SentAt(d) /\ MovingAt(d)
    BY <1>1, <2>2, FlightIs DEF SameFlight, JInv, FlightsAt
  <2>4. /\ f # None /\ g.leader = f.leader /\ g.dispatched = f.dispatched /\ g.gone = f.gone
        /\ f.dispatched => g.segment \in {None, f.segment}
        /\ g.done /\ g.lease = None => f.done /\ f.lease = None
    BY <2>2 DEF SameFlight
  <2>5. PICK p \in Requests : p = f.leader
    BY <2>3
  <2>6. /\ phase'[p] = phase[p] /\ (Awaited(p) => Awaited(p)')
        /\ load[p] # None => load'[p] # None /\ load'[p].segment = load[p].segment
    BY DEF Awaited
  <2> QED BY <2>3, <2>4, <2>5, <2>6, FlightKept
<1>3. RequestsAt'
  <2>1. SUFFICES ASSUME NEW p \in Requests
                 PROVE  CoveredAt(p)' /\ BadAt(p)' /\ Injective(table'[p])
    BY DEF RequestsAt
  <2>2. SteadyAt(conn, conn', p) /\ Keeps(conn, conn', {})
    BY SteadyEach, DescendsKeeps
  <2>3. CoveredAt(p) /\ BadAt(p) /\ Injective(table[p])
    BY DEF JInv, RequestsAt
  <2> QED BY <1>1, <2>2, <2>3, RequestKept
<1>4. LeasesLimited(conn')
  BY LeasesKept DEF JInv
<1> QED BY <1>2, <1>3, <1>4 DEF JInv

\* A step of one request q that has not ended.
LEMMA OneSteps ==
    ASSUME IInv, JInv, IInv', NEW q \in Requests,
           \A p \in Requests \ {q} : SteadyAt(conn, conn', p),
           Descends(conn, conn', {q}), Ledger(conn'),
           load' = load, \A k \in Requests \ {q} : Awaited(k) => Awaited(k)' \/ ~\E d \in Digests :
             /\ conn.flights[d] # None /\ conn.flights[d].leader = k
             /\ MaxPendingRestores = 1 /\ conn.flights[d].done /\ conn.flights[d].lease = None,
           \A p \in Requests \ {q} : /\ phase'[p] = phase[p] /\ table'[p] = table[p]
                                     /\ p \in bad' => p \in bad,
           phase[q] \notin {"draining", "done"}, phase'[q] \notin {"draining", "done"},
           \A d \in Digests : conn'.flights[d] # None /\ conn'.flights[d].leader = q
                                /\ SameFlight(conn.flights[d], conn'.flights[d]) => MovingAt(d)',
           CoveredAt(q)', BadAt(q)', Injective(table'[q]), PinsSpread', quorum' \in SUBSET Digests
    PROVE  JInv'
<1>1. Book(conn) /\ Book(conn')
  BY DEF IInv
<1>2. FlightsAt'
  <2>1. SUFFICES ASSUME NEW d \in Digests, conn'.flights[d] # None
                 PROVE  LeftAt(d)' /\ SentAt(d)' /\ MovingAt(d)'
    BY DEF FlightsAt
  <2> DEFINE f == conn.flights[d]
             g == conn'.flights[d]
             p == f.leader
  <2>2. CASE Fresh(g, {q})
    BY <2>2 DEF Fresh, LeftAt, SentAt, MovingAt
  <2>3. CASE SameFlight(f, g)
    <3>1. p \in Requests /\ LeftAt(d) /\ SentAt(d) /\ MovingAt(d)
      BY <1>1, <2>3, FlightIs DEF SameFlight, JInv, FlightsAt
    <3>2. /\ f # None /\ g.leader = p /\ g.dispatched = f.dispatched /\ g.gone = f.gone
          /\ f.dispatched => g.segment \in {None, f.segment}
          /\ g.done = f.done /\ g.lease = f.lease
      BY <2>3 DEF SameFlight
    <3>3. CASE p = q
      <4>1. LeftAt(d)'
        BY <3>1, <3>2, <3>3 DEF LeftAt
      <4>2. SentAt(d)'
        BY <3>1, <3>2 DEF SentAt
      <4>3. MovingAt(d)'
        BY <2>1, <2>3, <3>2, <3>3
      <4> QED BY <4>1, <4>2, <4>3
    <3>4. CASE p # q
      <4>1. phase'[p] = phase[p]
        BY <3>1, <3>4
      <4>2. LeftAt(d)' /\ SentAt(d)'
        BY <3>1, <3>2, <4>1 DEF LeftAt, SentAt
      <4>3. MovingAt(d)'
        <5>1. SUFFICES ASSUME MaxPendingRestores = 1, f.done, f.lease = None
                       PROVE  phase'[p] = "loaded" \/ (phase'[p] \in {"ready", "running"} /\ Awaited(p)')
          BY <3>2 DEF MovingAt
        <5>2. Awaited(p) => Awaited(p)'
          BY <3>1, <3>2, <3>4, <5>1
        <5> QED BY <3>1, <4>1, <5>1, <5>2 DEF MovingAt
      <4> QED BY <4>2, <4>3
    <3> QED BY <3>3, <3>4
  <2> QED BY <2>1, <2>2, <2>3 DEF Descends
<1>3. RequestsAt'
  <2>1. SUFFICES ASSUME NEW p \in Requests
                 PROVE  CoveredAt(p)' /\ BadAt(p)' /\ Injective(table'[p])
    BY DEF RequestsAt
  <2>2. CASE p = q
    BY <2>2
  <2>3. CASE p # q
    <3>1. CoveredAt(p) /\ BadAt(p) /\ Injective(table[p]) /\ SteadyAt(conn, conn', p)
      BY <2>3 DEF JInv, RequestsAt
    <3>2. Keeps(conn, conn', {q})
      BY DescendsKeeps
    <3> QED BY <1>1, <2>3, <3>1, <3>2, RequestKept
  <2> QED BY <2>2, <2>3
<1>4. LeasesLimited(conn')
  BY LeasesKept DEF JInv
<1> QED BY <1>2, <1>3, <1>4 DEF JInv

-----------------------------------------------------------------------------
\* The time to live of a lease elapses.
LEMMA AgeMoves ==
    ASSUME IInv, JInv, IInv', NEW d \in Digests, Age(d)
    PROVE  JInv'
<1>1. conn' = Aged(conn, d) /\ d \in Published(conn)
  BY DEF Age, Aged
<1>2. Book(conn) /\ Ledger(conn) /\ conn.flights[d] # None
  BY <1>1, PublishedIs DEF IInv, JInv
<1>3. Ledger(conn') /\ Descends(conn, conn', {})
  BY <1>1, <1>2, AgeLedger
<1>4. Book(conn') /\ Steady(conn, conn', {})
  BY <1>1, <1>2, AgeBook DEF Aged
<1>5. /\ phase' = phase /\ table' = table /\ fence' = fence /\ bad' = bad /\ load' = load
      /\ pins' = pins /\ quorum' = quorum
  BY DEF Age, engine, workers
<1>6. PinsSpread' /\ quorum' \in SUBSET Digests
  BY <1>5 DEF JInv, PinsSpread
<1> QED BY <1>3, <1>4, <1>5, <1>6, FlightsOnly

\* The workers, the pins or the quorum change, the connector does not.
LEMMA OthersMove ==
    ASSUME IInv, JInv, IInv', conn' = conn,
           phase' = phase, table' = table, fence' = fence, bad' = bad,
           \A p \in Requests : load[p] # None => load'[p] # None /\ load'[p].segment = load[p].segment,
           PinsSpread', quorum' \in SUBSET Digests
    PROVE  JInv'
<1>1. Steady(conn, conn', {}) /\ Descends(conn, conn', {})
  BY SteadySelf, DescendsSelf
<1>2. Ledger(conn')
  BY DEF JInv
<1> QED BY <1>1, <1>2, FlightsOnly

\* Worker reports change the quorum.
LEMMA ReportMoves ==
    ASSUME IInv, JInv, IInv', NEW d \in Digests, Report(d)
    PROVE  JInv'
<1>1. /\ conn' = conn /\ phase' = phase /\ table' = table /\ fence' = fence /\ bad' = bad
      /\ load' = load /\ pins' = pins
  BY DEF Report, engine, workers
<1>2. PinsSpread' /\ quorum' \in SUBSET Digests
  BY <1>1 DEF Report, JInv, PinsSpread
<1> QED BY <1>1, <1>2, OthersMove

\* vLLM drops its oldest pin.
LEMMA ReleasePinMoves ==
    ASSUME IInv, JInv, IInv', ReleasePin
    PROVE  JInv'
<1>1. /\ conn' = conn /\ phase' = phase /\ table' = table /\ fence' = fence /\ bad' = bad
      /\ load' = load /\ quorum' = quorum /\ pins # <<>> /\ pins' = Tail(pins)
  BY DEF ReleasePin, workers
<1>2. pins \in Seq(Pins)
  BY DEF IInv, Typed
<1>3. Len(pins') = Len(pins) - 1 /\ Len(pins) \in Nat /\ Held(pins') \subseteq Held(pins)
  BY <1>1, <1>2, TailHeld, HeadTailProperties, LenProperties
<1>4. PinsSpread'
  BY <1>3, FlightConstants DEF JInv, PinsSpread
<1> QED BY <1>1, <1>4, OthersMove DEF JInv

\* A rank's completed loads are collected.
LEMMA GetFinishedMoves ==
    ASSUME IInv, JInv, IInv', NEW r \in Ranks, GetFinished(r)
    PROVE  JInv'
<1>1. /\ conn' = conn /\ phase' = phase /\ table' = table /\ fence' = fence /\ bad' = bad
      /\ load' = load /\ pins' = pins /\ quorum' = quorum
  BY DEF GetFinished, engine
<1>2. PinsSpread' /\ quorum' \in SUBSET Digests
  BY <1>1 DEF JInv, PinsSpread
<1> QED BY <1>1, <1>2, OthersMove

\* A rank's load changes its state, and no segment.
LEMMA LoadOneMoves ==
    ASSUME IInv, JInv, IInv', NEW q \in Requests, NEW r \in Ranks, NEW verified \in BOOLEAN,
           LoadOne(r, q, verified)
    PROVE  JInv'
<1>1. /\ conn' = conn /\ phase' = phase /\ table' = table /\ fence' = fence /\ bad' = bad
      /\ pins' = pins /\ quorum' = quorum
      /\ load[q] # None
      /\ load' = [load EXCEPT ![q].state[r] = IF verified THEN "verified" ELSE "failed"]
  BY DEF LoadOne, engine
<1>2. load \in [Requests -> Optional(Loads)] /\ load' \in [Requests -> Optional(Loads)]
  BY DEF IInv, Typed
<1>3. load[q] \in Loads
  BY <1>1, <1>2 DEF Optional
<1> DEFINE v == IF verified THEN "verified" ELSE "failed"
           x == [load[q] EXCEPT !.state[r] = v]
<1>4. load' = [load EXCEPT ![q] = x]
  BY <1>1
<1>5. x \in Loads /\ x.segment = load[q].segment
  BY <1>3 DEF Loads
<1>6. x # None
  BY <1>5, DistinctValues
<1> HIDE DEF x
<1>7. \A p \in Requests : load[p] # None => load'[p] # None /\ load'[p].segment = load[p].segment
  BY <1>2, <1>4, <1>5, <1>6
<1>8. PinsSpread' /\ quorum' \in SUBSET Digests
  BY <1>1 DEF JInv, PinsSpread
<1> QED BY <1>1, <1>7, <1>8, OthersMove

\* A waiting request leads no finished flight that waits for its lease.
LEMMA WaitingMoves ==
    ASSUME JInv, NEW q \in Requests, phase[q] = "waiting", NEW d \in Digests,
           conn.flights[d] # None, conn.flights[d].leader = q
    PROVE  /\ ~conn.flights[d].gone
           /\ ~(MaxPendingRestores = 1 /\ conn.flights[d].done /\ conn.flights[d].lease = None)
BY DEF JInv, FlightsAt, LeftAt, MovingAt

\* The empty table names no block twice.
LEMMA EmptyInjective == Injective(<<>>)
BY DEF Injective

\* A waiting request q that attaches, asks again or runs.
LEMMA WaitingSteps ==
    ASSUME IInv, JInv, IInv', NEW q \in Requests, phase[q] = "waiting",
           \A p \in Requests \ {q} : SteadyAt(conn, conn', p),
           Descends(conn, conn', {q}), Ledger(conn'),
           load' = load, fence' = fence, bad' = bad, pins' = pins, quorum' = quorum,
           NEW x \in {"waiting", "ready", "running", "parked"}, phase' = [phase EXCEPT ![q] = x],
           x = "parked" => conn'.pending[q] # None,
           NEW t, table' = [table EXCEPT ![q] = t], Injective(t)
    PROVE  JInv'
<1>1. /\ phase \in [Requests -> {"waiting", "parked", "loaded", "ready", "running", "draining", "done"}]
      /\ table \in [Requests -> Seq(Blocks)]
  BY DEF IInv, Typed
<1>2. \A p \in Requests \ {q} : phase'[p] = phase[p] /\ table'[p] = table[p] /\ (p \in bad' => p \in bad)
  BY <1>1
<1>3. phase'[q] = x /\ table'[q] = t
  BY <1>1
<1>4. q \notin bad
  BY DEF JInv, RequestsAt, BadAt
<1>5. CoveredAt(q)' /\ BadAt(q)' /\ Injective(table'[q])
  BY <1>3, <1>4 DEF CoveredAt, BadAt
<1>6. PinsSpread' /\ quorum' \in SUBSET Digests
  BY DEF JInv, PinsSpread
<1>7. \A d \in Digests : conn'.flights[d] # None /\ conn'.flights[d].leader = q
                                /\ SameFlight(conn.flights[d], conn'.flights[d]) => MovingAt(d)'
  BY WaitingMoves DEF SameFlight, MovingAt
<1>8. \A k \in Requests \ {q} : Awaited(k) => Awaited(k)'
  BY DEF Awaited
<1> QED BY <1>2, <1>3, <1>5, <1>6, <1>7, <1>8, OneSteps

\* q attaches the blocks of a ready pin.
LEMMA AttachLeaseMoves ==
    ASSUME IInv, JInv, IInv', NEW q \in Requests, AttachLease(q)
    PROVE  JInv'
<1>1. /\ phase[q] = "waiting" /\ phase' = [phase EXCEPT ![q] = "ready"]
      /\ load' = load /\ pins' = pins /\ fence' = fence /\ bad' = bad /\ quorum' = quorum
  BY DEF AttachLease, workers
<1> DEFINE e == Expire(conn)
<1>a. PICK a \in LeaseCandidates(e, q) :
        \E p \in Pinned(a.key) : conn' = a.c /\ table' = [table EXCEPT ![q] = p.blocks]
  BY DEF AttachLease
<1>2. PICK p \in Pinned(a.key) : conn' = a.c /\ table' = [table EXCEPT ![q] = p.blocks]
  BY <1>a
<1>3. Book(e) /\ Steady(conn, e, {}) /\ Ledger(e) /\ Descends(conn, e, {})
  BY ExpireBook, ExpireLedger DEF IInv, JInv
<1> HIDE DEF e
<1>4. Steady(e, conn', {}) /\ Ledger(conn') /\ Descends(e, conn', {})
  BY <1>2, <1>3, LeaseCandidatesBook, LeaseCandidatesLedger
<1>5. Steady(conn, conn', {q}) /\ Descends(conn, conn', {q})
  BY <1>3, <1>4, SteadyComposes, SteadyMore, DescendsComposes, DescendsMore
<1>6. Injective(p.blocks)
  BY <1>2 DEF Pinned, JInv, PinsSpread
<1> DEFINE t == p.blocks
<1>7. Injective(t) /\ table' = [table EXCEPT ![q] = t]
  BY <1>2, <1>6
<1>8. \A o \in Requests \ {q} : SteadyAt(conn, conn', o)
  BY <1>5, SteadyEach
<1> HIDE DEF t
<1> QED BY <1>1, <1>4, <1>5, <1>7, <1>8, WaitingSteps

\* get_num_new_matched_tokens and what vLLM does with its answer.
LEMMA LookupMoves ==
    ASSUME IInv, JInv, IInv', NEW q \in Requests, NEW local, NEW hit, NEW fits, Lookup(q, local, hit, fits)
    PROVE  JInv'
<1> DEFINE e == Expire(conn)
           C(a) == IF a.key = None THEN a.c ELSE Reject(a.c, q, a.key)
<1>1. /\ phase[q] = "waiting" /\ load' = load /\ pins' = pins /\ fence' = fence /\ bad' = bad
      /\ quorum' = quorum
  BY DEF Lookup, workers
<1>2. PICK a \in LeaseCandidates(e, q) :
        \E m \in MatchedTokens(C(a), q, local, hit) :
          \/ conn' = m.c /\ UNCHANGED <<phase, table, content>>
          \/ /\ conn' = AllocatedNone(m.c, q)
             /\ phase' = [phase EXCEPT ![q] = "running"]
             /\ UNCHANGED <<table, content>>
          \/ /\ m.answer \in Digests
             /\ \E s \in Tables(m.answer) : table' = [table EXCEPT ![q] = s]
             /\ conn' = Allocated(m.c, q)
             /\ phase' = [phase EXCEPT ![q] = "parked"]
  BY DEF Lookup
<1>3. Book(e) /\ Steady(conn, e, {}) /\ Ledger(e) /\ Descends(conn, e, {})
  BY ExpireBook, ExpireLedger DEF IInv, JInv
<1> HIDE DEF e
<1>4. Book(a.c) /\ Steady(e, a.c, {}) /\ Ledger(a.c) /\ Descends(e, a.c, {})
  BY <1>3, LeaseCandidatesBook, LeaseCandidatesLedger
<1>5. Book(C(a)) /\ Steady(a.c, C(a), {}) /\ Ledger(C(a)) /\ Descends(a.c, C(a), {})
  <2>1. CASE a.key = None
    BY <1>4, <2>1, SteadySelf, DescendsSelf
  <2>2. CASE a.key # None
    <3>1. C(a) = Reject(a.c, q, a.key)
      BY <2>2
    <3> HIDE DEF C
    <3> QED BY <1>4, <3>1, RejectBook, RejectLedger
  <2> QED BY <2>1, <2>2
<1> DEFINE c == C(a)
<1>6. /\ Book(c) /\ Steady(conn, c, {}) /\ Ledger(c) /\ Descends(conn, c, {})
  <2>1. Steady(conn, a.c, {}) /\ Descends(conn, a.c, {})
    BY <1>3, <1>4, SteadyComposes, DescendsComposes
  <2> HIDE DEF C
  <2> QED BY <1>5, <2>1, SteadyComposes, DescendsComposes
<1>7. PICK m \in MatchedTokens(c, q, local, hit) :
          \/ conn' = m.c /\ UNCHANGED <<phase, table, content>>
          \/ /\ conn' = AllocatedNone(m.c, q)
             /\ phase' = [phase EXCEPT ![q] = "running"]
             /\ UNCHANGED <<table, content>>
          \/ /\ m.answer \in Digests
             /\ \E s \in Tables(m.answer) : table' = [table EXCEPT ![q] = s]
             /\ conn' = Allocated(m.c, q)
             /\ phase' = [phase EXCEPT ![q] = "parked"]
  BY <1>2
<1> HIDE DEF c, C
<1>8. c.pending[q] = None
  BY <1>1, <1>6, NotLoading DEF Steady, Writing
<1>9. Answers(c, q, m)
  BY <1>6, <1>8, MatchedTokensAnswers
<1>10. NoneGone(conn, q)
  BY <1>1, WaitingMoves DEF NoneGone
<1>11. NoneGone(c, q)
  BY <1>6, <1>10, NoneGoneKept
<1>12. Ledger(m.c) /\ Descends(c, m.c, {q})
  BY <1>6, <1>11, MatchedTokensLedger DEF Accounts
<1>13. Book(m.c) /\ Steady(conn, m.c, {q}) /\ Descends(conn, m.c, {q})
  BY <1>6, <1>9, <1>12, SteadyMore, SteadyComposes, DescendsMore, DescendsComposes DEF Answers
<1>14. /\ table = [table EXCEPT ![q] = <<>>] /\ phase = [phase EXCEPT ![q] = "waiting"]
  BY <1>1 DEF IInv, StagesOK, StageOK, Typed
<1>15. CASE conn' = m.c /\ UNCHANGED <<phase, table, content>>
  <2>1. /\ phase' = [phase EXCEPT ![q] = "waiting"] /\ table' = [table EXCEPT ![q] = <<>>]
    BY <1>14, <1>15
  <2>2. Steady(conn, conn', {q}) /\ Descends(conn, conn', {q}) /\ Ledger(conn')
    BY <1>12, <1>13, <1>15
  <2>3. \A p \in Requests \ {q} : SteadyAt(conn, conn', p)
    BY <2>2, SteadyEach
  <2> QED BY <1>1, <2>1, <2>2, <2>3, EmptyInjective, WaitingSteps
<1>16. CASE /\ conn' = AllocatedNone(m.c, q) /\ phase' = [phase EXCEPT ![q] = "running"]
            /\ UNCHANGED <<table, content>>
  <2>1. table' = [table EXCEPT ![q] = <<>>]
    BY <1>14, <1>16
  <2>2. Steady(m.c, conn', {}) /\ Descends(m.c, conn', {}) /\ Ledger(conn')
    BY <1>12, <1>13, <1>16, AllocatedNoneBook, AllocatedNoneLedger
  <2>3. Steady(conn, conn', {q}) /\ Descends(conn, conn', {q})
    BY <1>13, <2>2, SteadyMore, SteadyComposes, DescendsMore, DescendsComposes
  <2>4. \A p \in Requests \ {q} : SteadyAt(conn, conn', p)
    BY <2>3, SteadyEach
  <2> QED BY <1>1, <1>16, <2>1, <2>2, <2>3, <2>4, EmptyInjective, WaitingSteps
<1>17. ASSUME m.answer \in Digests, NEW s \in Tables(m.answer), table' = [table EXCEPT ![q] = s],
              conn' = Allocated(m.c, q), phase' = [phase EXCEPT ![q] = "parked"]
       PROVE  JInv'
  <2>1. m.c.need[q] = m.answer /\ m.answer # None
    BY <1>9, <1>17, FlightConstants DEF Answers
  <2>2. m.c.pending[q] = None
    BY <1>1, <1>13, NotLoading DEF Steady, Writing
  <2>3. /\ conn'.flights = m.c.flights /\ conn'.leads = m.c.leads
        /\ conn'.pending[q] = m.answer /\ conn'.pending = [m.c.pending EXCEPT ![q] = m.answer]
        /\ m.c.pending \in [Requests -> Optional(Digests)]
    BY <1>13, <1>17, <2>1, <2>2, AllocatedBook, ConnIs DEF Book
  <2>4. conn'.bound = m.c.bound
    BY <1>13, <1>17, <2>1, ConnIs DEF Book, Conns, Allocated
  <2>5. Ledger(conn') /\ Descends(conn, conn', {q})
    <3>1. Ledger(conn') /\ Descends(m.c, conn', {})
      BY <1>12, <2>3, <2>4, LedgerSame
    <3> QED BY <1>13, <3>1, DescendsMore, DescendsComposes
  <2>6. Injective(s)
    <3> DEFINE n == Span[m.answer]
    <3>1. n \in Nat
      BY <1>17, FlightConstants
    <3>2. PICK f \in [1 .. n -> Free] : s = First(f, n) /\ \A i, j \in DOMAIN f : f[i] = f[j] => i = j
      BY <1>17 DEF Tables
    <3>3. f \in Seq(Free) /\ Len(f) = n
      <4>1. f \in Seq(Free)
        BY <3>1, SeqDef
      <4>2. DOMAIN f = 1 .. Len(f) /\ DOMAIN f = 1 .. n /\ Len(f) \in Nat
        BY <4>1, LenProperties
      <4> QED BY <3>1, <4>1, <4>2
    <3>4. s = f
      BY <3>1, <3>2, <3>3, FirstIs
    <3> QED BY <3>2, <3>4 DEF Injective
  <2>7. conn'.pending[q] # None
    BY <2>1, <2>3
  <2>8. \A p \in Requests \ {q} : SteadyAt(conn, conn', p)
    <3>1. SUFFICES ASSUME NEW p \in Requests \ {q} PROVE SteadyAt(conn, conn', p)
      OBVIOUS
    <3>2. SteadyAt(conn, m.c, p)
      BY <1>13, SteadyEach
    <3> QED BY <2>3, <3>2 DEF SteadyAt
  <2> QED BY <1>1, <1>13, <1>17, <2>3, <2>5, <2>6, <2>7, <2>8, WaitingSteps
<1> QED BY <1>7, <1>15, <1>16, <1>17

-----------------------------------------------------------------------------
\* A prefix of a table that names a block once does so too.
LEMMA FirstInjective ==
    ASSUME NEW S, NEW s \in Seq(S), NEW n \in Nat, n <= Len(s), Injective(s)
    PROVE  Injective(First(s, n))
<1> DEFINE t == SubSeq(s, 1, n)
<1>0. Len(s) \in Nat /\ DOMAIN s = 1 .. Len(s) /\ \A i \in 1 .. Len(s) : s[i] \in S
  BY LenProperties, ElementOfSeq
<1>1. \A i \in 1 .. n : s[i] \in S
  BY <1>0
<1>2. /\ t \in Seq(S)
      /\ Len(t) = IF 1 <= n THEN n - 1 + 1 ELSE 0
      /\ \A i \in 1 .. n - 1 + 1 : t[i] = s[1 + i - 1]
  <2>1. 1 \in Int /\ n \in Int
    OBVIOUS
  <2> QED BY <1>1, <2>1, SubSeqProperties
<1> HIDE DEF t
<1>3. Len(t) = n /\ \A i \in 1 .. n : t[i] = s[i]
  BY <1>2
<1>4. DOMAIN t = 1 .. n
  BY <1>2, <1>3, LenProperties
<1>5. Injective(t)
  BY <1>0, <1>3, <1>4 DEF Injective
<1> QED BY <1>5 DEF t, First

\* vLLM pins a prefix of the table of q.
LEMMA PinsPublished ==
    ASSUME PinsSpread, pins \in Seq(Pins), NEW key \in Digests, NEW q \in Requests,
           table[q] \in Seq(Blocks), Injective(table[q]), Span[key] <= Len(table[q]),
           pins' = PublishPin(key, q)
    PROVE  PinsSpread'
<1> DEFINE t == First(table[q], Span[key])
<1>1. Span[key] \in Nat
  BY FlightConstants
<1>2. t \in Seq(Blocks) /\ Injective(t)
  BY <1>1, FirstIs, FirstInjective
<1>3. /\ \A p \in Held(pins') : p \in Held(pins) \/ p.blocks = t
      /\ Len(pins') <= MaxLeases
  BY <1>2, PublishPinIs DEF PinsSpread
<1> HIDE DEF t
<1> QED BY <1>2, <1>3 DEF PinsSpread

\* Two values make a set of two.
LEMMA PairIsTwo ==
    ASSUME NEW x, NEW y, x # y
    PROVE  Cardinality({x, y}) = 2
<1>1. IsFiniteSet({}) /\ Cardinality({}) = 0
  BY FS_EmptySet
<1>2. IsFiniteSet({x}) /\ Cardinality({x}) = 1
  BY FS_Singleton
<1>3. {x} \cup {y} = {x, y}
  OBVIOUS
<1>4. Cardinality({x} \cup {y}) = Cardinality({x}) + 1
  BY <1>2, FS_AddElement
<1> QED BY <1>2, <1>3, <1>4

\* A promoted leader: its flight is published next, or it has none to publish.
LEMMA PromoteMoves ==
    ASSUME IInv, JInv, IInv', NEW q \in Requests, NEW published, Promote(q, published)
    PROVE  JInv'
<1> DEFINE key == LeaseToPublish(conn, q)
<1>1. /\ phase[q] = "loaded" /\ conn.pending[q] = None /\ bad' = bad \ {q}
      /\ load' = load /\ quorum' = quorum
  BY DEF Promote, Scheduled, workers
<1>2. /\ Typed /\ Book(conn) /\ Ledger(conn)
      /\ phase \in [Requests -> {"waiting", "parked", "loaded", "ready", "running", "draining", "done"}]
      /\ table \in [Requests -> Seq(Blocks)] /\ fence \in [Digests -> Optional(Requests)]
      /\ pins \in Seq(Pins)
  BY DEF IInv, JInv, Typed
<1>3. ASSUME NEW d \in Digests, conn.flights[d] # None, conn.flights[d].leader = q
      PROVE  ~conn.flights[d].gone /\ conn.leads[q] = d
  BY <1>1, <1>3, LedFlight
<1>4. \A p \in Requests \ {q} : p \in bad' => p \in bad
  BY <1>1
<1>5. quorum' \in SUBSET Digests
  BY <1>1 DEF JInv
<1>6. CASE q \in bad
  <2>1. /\ phase' = [phase EXCEPT ![q] = "waiting"] /\ table' = [table EXCEPT ![q] = <<>>]
        /\ conn' = conn /\ pins' = pins /\ fence' = fence
    BY <1>6 DEF Promote
  <2>2. \A d \in Digests : ~(conn.flights[d] # None /\ conn.flights[d].leader = q)
    <3>1. conn.leads[q] = None
      BY <1>6 DEF JInv, RequestsAt, BadAt
    <3> QED BY <1>3, <3>1, FlightConstants
  <2>3. Steady(conn, conn', {q}) /\ Descends(conn, conn', {q}) /\ Ledger(conn')
    BY <1>2, <2>1, SteadySelf, DescendsSelf
  <2>4. \A p \in Requests \ {q} : SteadyAt(conn, conn', p)
    BY <2>3, SteadyEach
  <2>5. phase'[q] = "waiting" /\ table'[q] = <<>> /\ q \notin bad'
        /\ \A p \in Requests \ {q} : phase'[p] = phase[p] /\ table'[p] = table[p]
    BY <1>1, <1>2, <2>1
  <2>6. CoveredAt(q)' /\ BadAt(q)' /\ Injective(table'[q])
    BY <2>5, EmptyInjective DEF CoveredAt, BadAt
  <2>7. PinsSpread'
    BY <2>1 DEF JInv, PinsSpread
  <2>8. \A k \in Requests \ {q} : Awaited(k) => Awaited(k)'
    BY <2>1 DEF Awaited
  <2> QED BY <1>1, <1>4, <1>5, <2>1, <2>2, <2>3, <2>4, <2>5, <2>6, <2>7, <2>8, OneSteps
<1>7. CASE q \notin bad
  <2>1. phase' = [phase EXCEPT ![q] = "ready"] /\ table' = table
    BY <1>7 DEF Promote
  <2>2. \/ key = None /\ conn' = conn /\ pins' = pins /\ fence' = fence
        \/ conn' = Reject(conn, q, key) /\ pins' = pins /\ fence' = fence
        \/ /\ conn' = conn /\ key # None /\ pins' = PublishPin(key, q)
           /\ fence' = [fence EXCEPT ![key] = q]
    BY <1>7 DEF Promote
  <2>3. LoadOK(q) /\ Led(q) /\ table[q] \in Seq(Blocks) /\ Injective(table[q])
    BY <1>1, <1>2, <1>7 DEF IInv, StagesOK, StageOK, JInv, RequestsAt
  <2>k. key # None => /\ key \in Digests /\ Span[key] <= Len(table[q])
    BY <2>3, PublishedKey
  <2>4. key # None => conn.leads[q] # None /\ conn.flights[conn.leads[q]].done
                       /\ conn.flights[conn.leads[q]].lease = None
    BY DEF LeaseToPublish
  <2>5. key = None /\ conn.leads[q] # None =>
          \/ ~conn.flights[conn.leads[q]].done \/ conn.flights[conn.leads[q]].gone
          \/ conn.flights[conn.leads[q]].lease # None
    <3>1. SUFFICES ASSUME conn.leads[q] # None, conn.flights[conn.leads[q]].done,
                          ~conn.flights[conn.leads[q]].gone, conn.flights[conn.leads[q]].lease = None
                   PROVE  key # None
      OBVIOUS
    <3>2. key = LeaseKey(conn, conn.leads[q])
      BY <3>1 DEF LeaseToPublish
    <3>3. conn.leads[q] \in Digests /\ conn.flights[conn.leads[q]] # None
      BY <1>2, <3>1, ConnParts DEF Book, LeadersOK
    <3> HIDE DEF key
    <3> QED BY <1>2, <3>2, <3>3, LeaseKeyIs, FlightConstants
  <2> HIDE DEF key
  <2>6. /\ Steady(conn, conn', {}) /\ Descends(conn, conn', {}) /\ Ledger(conn')
    BY <1>2, <2>2, SteadySelf, DescendsSelf, RejectBook, RejectLedger
  <2>d. \/ key = None /\ conn' = conn
        \/ \A d \in Digests : conn'.flights[d] # None => d # conn.leads[q]
        \/ conn' = conn /\ key # None /\ fence' = [fence EXCEPT ![key] = q]
    BY <1>2, <2>2, RejectLedger
  <2>7. /\ \A p \in Requests \ {q} : SteadyAt(conn, conn', p)
        /\ Descends(conn, conn', {q})
    BY <2>6, SteadyEach, DescendsMore
  <2>8. phase'[q] = "ready" /\ table'[q] = table[q] /\ q \notin bad'
        /\ \A p \in Requests \ {q} : phase'[p] = phase[p] /\ table'[p] = table[p]
    BY <1>1, <1>2, <2>1
  <2>9. CoveredAt(q)' /\ BadAt(q)' /\ Injective(table'[q])
    BY <2>3, <2>8 DEF CoveredAt, BadAt
  <2>10. PinsSpread'
    <3>1. CASE pins' = pins
      BY <3>1 DEF JInv, PinsSpread
    <3>2. CASE key # None /\ pins' = PublishPin(key, q)
      BY <1>2, <2>3, <2>k, <3>2, PinsPublished DEF JInv
    <3> QED BY <2>2, <3>1, <3>2
  <2>11. \A d \in Digests : conn'.flights[d] # None /\ conn'.flights[d].leader = q
                              /\ SameFlight(conn.flights[d], conn'.flights[d]) => MovingAt(d)'
    <3>1. SUFFICES ASSUME NEW d \in Digests, conn'.flights[d] # None, conn'.flights[d].leader = q,
                          SameFlight(conn.flights[d], conn'.flights[d]),
                          conn'.flights[d].done, conn'.flights[d].lease = None
                   PROVE  phase'[q] = "ready" /\ Awaited(q)'
      BY DEF MovingAt
    <3>2. /\ conn.flights[d] # None /\ conn.flights[d].leader = q
          /\ conn.flights[d].done /\ conn.flights[d].lease = None
      BY <3>1 DEF SameFlight
    <3>3. ~conn.flights[d].gone /\ conn.leads[q] = d /\ d # None
      BY <1>3, <3>2, FlightConstants
    <3>4. key # None /\ fence' = [fence EXCEPT ![key] = q]
      BY <2>5, <2>d, <3>1, <3>2, <3>3
    <3>5. fence'[key] = q /\ key \in Digests
      BY <1>2, <2>k, <3>4
    <3> QED BY <2>8, <3>5 DEF Awaited
  <2>12. ASSUME NEW k \in Requests \ {q}, Awaited(k), ~Awaited(k)'
         PROVE  ~\E d \in Digests :
             /\ conn.flights[d] # None /\ conn.flights[d].leader = k
             /\ MaxPendingRestores = 1 /\ conn.flights[d].done /\ conn.flights[d].lease = None
    <3>1. SUFFICES ASSUME NEW d \in Digests, conn.flights[d] # None, conn.flights[d].leader = k,
                          MaxPendingRestores = 1, conn.flights[d].done, conn.flights[d].lease = None
                   PROVE  FALSE
      OBVIOUS
    <3>2. key # None
      BY <2>2, <2>12 DEF Awaited
    <3> DEFINE e == conn.leads[q]
    <3>3. e \in Digests /\ conn.flights[e] # None /\ conn.flights[e].leader = q /\ conn.flights[e].lease = None
      BY <1>2, <2>4, <3>2, ConnParts DEF Book, LeadersOK
    <3>4. d # e
      BY <3>1, <3>3
    <3> DEFINE O == Live(conn) \ Published(conn)
    <3>5. d \in O /\ e \in O
      BY <3>1, <3>3, PublishedIs
    <3>6. IsFiniteSet(O) /\ Cardinality(O) <= 1
      BY <1>2, <3>1 DEF Ledger, Limits
    <3> HIDE DEF O, e
    <3>7. Cardinality({d, e}) = 2
      BY <3>4, PairIsTwo
    <3>8. Cardinality({d, e}) <= Cardinality(O) /\ Cardinality(O) \in Nat
      BY <3>5, <3>6, FS_Subset, FS_CardinalityType
    <3> QED BY <3>6, <3>7, <3>8
  <2>13. \A k \in Requests \ {q} : Awaited(k) => Awaited(k)' \/ ~\E d \in Digests :
             /\ conn.flights[d] # None /\ conn.flights[d].leader = k
             /\ MaxPendingRestores = 1 /\ conn.flights[d].done /\ conn.flights[d].lease = None
    BY <2>12
  <2> QED BY <1>1, <1>4, <1>5, <2>6, <2>7, <2>8, <2>9, <2>10, <2>11, <2>13, OneSteps
<1> QED BY <1>6, <1>7

-----------------------------------------------------------------------------
\* A promoted request gets its slots and runs.
LEMMA StartMoves ==
    ASSUME IInv, JInv, IInv', NEW q \in Requests, Start(q)
    PROVE  JInv'
<1> DEFINE c == AllocatedNone(conn, q)
           v == IF c.admitted[q] # None /\ c.admitted[q].digest = Longest(Candidates[q])
                     /\ q \notin preempted THEN None ELSE c.admitted[q]
           A == [c.admitted EXCEPT ![q] = v]
<1>1. /\ phase[q] = "ready" /\ phase' = [phase EXCEPT ![q] = "running"]
      /\ table' = table /\ load' = load /\ quorum' = quorum
      /\ pins' = pins /\ fence' = fence /\ bad' = bad
  BY DEF Start, workers
<1>2. conn' = [c EXCEPT !.admitted = A]
  BY DEF Start
<1>3. Book(c) /\ Steady(conn, c, {}) /\ Ledger(c) /\ Descends(conn, c, {})
  BY AllocatedNoneBook, AllocatedNoneLedger DEF IInv, JInv
<1> HIDE DEF c
<1>4. c.admitted \in [Requests -> Optional(Admissions)]
  BY <1>3, ConnIs DEF Book
<1>5. A \in [Requests -> Optional(Admissions)]
  BY <1>4 DEF Optional
<1> HIDE DEF A
<1>6. /\ Steady(c, conn', {}) /\ conn'.flights = c.flights /\ conn'.leads = c.leads
  BY <1>2, <1>3, <1>5, AdmittedBook
<1>7. conn'.bound = c.bound
  BY <1>2, <1>3 DEF Book, Conns
<1>8. Ledger(conn') /\ Descends(c, conn', {})
  BY <1>3, <1>6, <1>7, LedgerSame
<1>9. Steady(conn, conn', {}) /\ Descends(conn, conn', {})
  BY <1>3, <1>6, <1>8, SteadyComposes, DescendsComposes
<1>10. /\ \A p \in Requests \ {q} : SteadyAt(conn, conn', p)
       /\ Descends(conn, conn', {q})
  BY <1>9, SteadyEach, DescendsMore
<1>11. /\ phase'[q] = "running" /\ table'[q] = table[q]
       /\ \A p \in Requests \ {q} : phase'[p] = phase[p] /\ table'[p] = table[p] /\ (p \in bad' => p \in bad)
  BY <1>1 DEF IInv, Typed
<1>12. CoveredAt(q)' /\ BadAt(q)' /\ Injective(table'[q])
  BY <1>1, <1>11 DEF JInv, RequestsAt, CoveredAt, BadAt
<1>13. PinsSpread' /\ quorum' \in SUBSET Digests
  BY <1>1 DEF JInv, PinsSpread
<1>14. \A k \in Requests : Awaited(k) => Awaited(k)'
  BY <1>1 DEF Awaited
<1>15. \A d \in Digests : conn'.flights[d] # None /\ conn'.flights[d].leader = q
                              /\ SameFlight(conn.flights[d], conn'.flights[d]) => MovingAt(d)'
  <2>1. SUFFICES ASSUME NEW d \in Digests, conn'.flights[d] # None, conn'.flights[d].leader = q,
                        SameFlight(conn.flights[d], conn'.flights[d]),
                        MaxPendingRestores = 1, conn'.flights[d].done, conn'.flights[d].lease = None
                 PROVE  phase'[q] = "running" /\ Awaited(q)'
    BY DEF MovingAt
  <2>2. /\ conn.flights[d] # None /\ conn.flights[d].leader = q
        /\ conn.flights[d].done /\ conn.flights[d].lease = None
    BY <2>1 DEF SameFlight
  <2>3. Awaited(q)
    BY <1>1, <2>1, <2>2 DEF JInv, FlightsAt, MovingAt
  <2> QED BY <1>11, <1>14, <2>3
<1> QED BY <1>1, <1>8, <1>10, <1>11, <1>12, <1>13, <1>14, <1>15, OneSteps

\* A preempted request leads no flight that waits for its lease: every fence is passed.
LEMMA PreemptMoves ==
    ASSUME IInv, JInv, IInv', NEW q \in Requests, Preempt(q)
    PROVE  JInv'
<1>1. /\ phase[q] = "running" /\ phase' = [phase EXCEPT ![q] = "waiting"]
      /\ table' = [table EXCEPT ![q] = <<>>] /\ load' = load /\ quorum' = quorum
      /\ conn' = conn /\ pins' = pins /\ fence' = fence /\ bad' = bad
  BY DEF Preempt, workers
<1>2. ~Awaited(q)
  BY <1>1, FlightConstants DEF Preempt, Passed, Awaited
<1>3. Steady(conn, conn', {}) /\ Descends(conn, conn', {q}) /\ Ledger(conn')
  BY <1>1, SteadySelf, DescendsSelf DEF JInv
<1>4. \A p \in Requests \ {q} : SteadyAt(conn, conn', p)
  BY <1>3, SteadyEach
<1>5. /\ phase'[q] = "waiting" /\ table'[q] = <<>>
      /\ \A p \in Requests \ {q} : phase'[p] = phase[p] /\ table'[p] = table[p] /\ (p \in bad' => p \in bad)
  BY <1>1 DEF IInv, Typed
<1>6. CoveredAt(q)' /\ BadAt(q)' /\ Injective(table'[q])
  BY <1>1, <1>5, EmptyInjective DEF JInv, RequestsAt, CoveredAt, BadAt
<1>7. PinsSpread' /\ quorum' \in SUBSET Digests
  BY <1>1 DEF JInv, PinsSpread
<1>8. \A k \in Requests : Awaited(k) => Awaited(k)'
  BY <1>1 DEF Awaited
<1>9. \A d \in Digests : conn'.flights[d] # None /\ conn'.flights[d].leader = q
                              /\ SameFlight(conn.flights[d], conn'.flights[d]) => MovingAt(d)'
  <2>1. SUFFICES ASSUME NEW d \in Digests, conn.flights[d] # None, conn.flights[d].leader = q,
                        MaxPendingRestores = 1, conn.flights[d].done, conn.flights[d].lease = None
                 PROVE  FALSE
    BY <1>1 DEF MovingAt
  <2> QED BY <1>1, <1>2, <2>1 DEF JInv, FlightsAt, MovingAt
<1> QED BY <1>1, <1>3, <1>4, <1>5, <1>6, <1>7, <1>8, <1>9, OneSteps

\* The fence of a key has passed: its flight is published or given up.
LEMMA FinalizeMoves ==
    ASSUME IInv, JInv, IInv', NEW key \in Digests, Finalize(key)
    PROVE  JInv'
<1> DEFINE q == fence[key]
<1>0. /\ pins \in Seq(Pins) /\ fence \in [Digests -> Optional(Requests)] /\ Book(conn) /\ Book(conn')
      /\ Ledger(conn)
  BY DEF IInv, Typed, JInv
<1>1. /\ phase' = phase /\ table' = table /\ load' = load /\ bad' = bad /\ quorum' = quorum
      /\ fence' = [fence EXCEPT ![key] = None]
      /\ q # None
  BY DEF Finalize, Passed, workers
<1>2. q \in Requests
  BY <1>0, <1>1 DEF Optional
<1>3. \/ /\ Accepts(conn, q, key) /\ conn' = Publish(conn, q, key)
         /\ \E i \in DOMAIN pins : pins' = [pins EXCEPT ![i].ready = TRUE]
      \/ conn' = Reject(conn, q, key) /\ pins' = Unpinned(key)
  BY DEF Finalize
<1>4. Steady(conn, conn', {})
  BY <1>0, <1>2, <1>3, PublishBook, RejectBook
<1>5. /\ Ledger(conn') /\ LeasesLimited(conn')
      /\ \A d \in Digests : conn'.flights[d] # None =>
           /\ conn.flights[d] # None /\ conn'.flights[d].leader = conn.flights[d].leader
           /\ conn'.flights[d].blocks = conn.flights[d].blocks
           /\ conn'.flights[d].dispatched = conn.flights[d].dispatched
           /\ conn'.flights[d].done = conn.flights[d].done /\ conn'.flights[d].gone = conn.flights[d].gone
           /\ conn.flights[d].dispatched => conn'.flights[d].segment \in {None, conn.flights[d].segment}
           /\ conn'.flights[d].lease = None => conn.flights[d].lease = None /\ d # conn.leads[q]
  <2>1. CASE Accepts(conn, q, key) /\ conn' = Publish(conn, q, key)
    BY <1>0, <1>2, <2>1, PublishLedger
  <2>2. CASE conn' = Reject(conn, q, key)
    <3>1. /\ Ledger(conn') /\ Descends(conn, conn', {})
          /\ \A d \in Digests : conn'.flights[d] # None => d # conn.leads[q]
      BY <1>0, <1>2, <2>2, RejectLedger
    <3>2. LeasesLimited(conn')
      BY <3>1, LeasesKept DEF JInv
    <3> QED BY <3>1, <3>2 DEF Descends, Fresh, SameFlight
  <2> QED BY <1>3, <2>1, <2>2
<1> HIDE DEF q
<1>6. FlightsAt'
  <2>1. SUFFICES ASSUME NEW d \in Digests, conn'.flights[d] # None
                 PROVE  LeftAt(d)' /\ SentAt(d)' /\ MovingAt(d)'
    BY DEF FlightsAt
  <2>2. /\ conn.flights[d] # None /\ conn'.flights[d].leader = conn.flights[d].leader
        /\ conn'.flights[d].dispatched = conn.flights[d].dispatched
        /\ conn'.flights[d].done = conn.flights[d].done /\ conn'.flights[d].gone = conn.flights[d].gone
        /\ conn.flights[d].dispatched => conn'.flights[d].segment \in {None, conn.flights[d].segment}
        /\ conn'.flights[d].lease = None => conn.flights[d].lease = None /\ d # conn.leads[q]
    BY <1>5, <2>1
  <2>3. LeftAt(d) /\ SentAt(d) /\ MovingAt(d)
    BY <2>2 DEF JInv, FlightsAt
  <2>4. LeftAt(d)' /\ SentAt(d)'
    BY <1>1, <2>2, <2>3 DEF LeftAt, SentAt
  <2>5. MovingAt(d)'
    <3>1. SUFFICES ASSUME MaxPendingRestores = 1, conn'.flights[d].done, conn'.flights[d].lease = None
                   PROVE  \/ phase'[conn'.flights[d].leader] = "loaded"
                          \/ /\ phase'[conn'.flights[d].leader] \in {"ready", "running"}
                             /\ \E k \in Digests : fence'[k] = conn'.flights[d].leader
      BY DEF MovingAt, Awaited
    <3>2. PICK p \in Requests : p = conn.flights[d].leader
      BY <1>0, <2>2, FlightIs
    <3>3. phase[p] = "loaded" \/ (phase[p] \in {"ready", "running"} /\ \E k \in Digests : fence[k] = p)
      BY <2>2, <2>3, <3>1, <3>2 DEF MovingAt, Awaited
    <3>4. p # q
      <4>1. ~conn.flights[d].gone
        BY <2>3, <3>2, <3>3 DEF LeftAt
      <4>2. conn.leads[p] = d
        BY <1>0, <2>2, <3>2, <4>1 DEF Ledger, LeadsTied
      <4> QED BY <2>2, <3>1, <4>2
    <3>5. \A k \in Digests : fence[k] = p => fence'[k] = p
      BY <1>0, <1>1, <3>4 DEF q
    <3>6. phase'[p] = "loaded" \/ (phase'[p] \in {"ready", "running"} /\ \E k \in Digests : fence'[k] = p)
      BY <1>1, <3>3, <3>5
    <3> QED BY <2>2, <3>2, <3>6
  <2> QED BY <2>4, <2>5
<1>7. RequestsAt'
  <2>1. SUFFICES ASSUME NEW p \in Requests
                 PROVE  CoveredAt(p)' /\ BadAt(p)' /\ Injective(table'[p])
    BY DEF RequestsAt
  <2>2. SteadyAt(conn, conn', p) /\ Keeps(conn, conn', {})
    BY <1>4, <1>5, SteadyEach DEF Keeps
  <2>3. CoveredAt(p) /\ BadAt(p) /\ Injective(table[p])
    BY DEF JInv, RequestsAt
  <2> QED BY <1>0, <1>1, <2>2, <2>3, RequestKept
<1>8. PinsSpread'
  <2>1. CASE pins' = Unpinned(key)
    <3>0. Len(pins) \in Nat /\ MaxLeases \in Nat
      BY <1>0, LenProperties, FlightConstants
    <3>1. Held(pins') \subseteq Held(pins) /\ Len(pins') <= Len(pins) /\ pins' \in Seq(Pins)
      BY <1>0, <2>1, UnpinnedHeld
    <3>2. Len(pins') \in Nat
      BY <3>1, LenProperties
    <3> QED BY <3>0, <3>1, <3>2 DEF JInv, PinsSpread
  <2>2. ASSUME NEW i \in DOMAIN pins, pins' = [pins EXCEPT ![i].ready = TRUE]
        PROVE  PinsSpread'
    <3>0. /\ i \in 1 .. Len(pins) /\ pins[i] \in Pins /\ Len(pins) \in Nat
      BY <1>0, LenProperties, ElementOfSeq
    <3> DEFINE e == [pins[i] EXCEPT !.ready = TRUE]
    <3>1. e \in Pins /\ e.blocks = pins[i].blocks
      BY <3>0 DEF Pins
    <3>2. pins' = [pins EXCEPT ![i] = e]
      BY <2>2
    <3> HIDE DEF e
    <3>3. /\ pins' \in Seq(Pins) /\ Len(pins') = Len(pins)
          /\ \A j \in 1 .. Len(pins) : pins'[j] = IF j = i THEN e ELSE pins[j]
      BY <1>0, <3>0, <3>1, <3>2, ExceptSeq
    <3>4. Held(pins') = {pins'[j] : j \in 1 .. Len(pins)} /\ Held(pins) = {pins[j] : j \in 1 .. Len(pins)}
      BY <1>0, <3>3, HeldIs
    <3>5. \A p \in Held(pins') : \E o \in Held(pins) : p.blocks = o.blocks
      BY <3>0, <3>1, <3>3, <3>4
    <3> QED BY <3>3, <3>5 DEF JInv, PinsSpread
  <2> QED BY <1>3, <2>1, <2>2
<1> QED BY <1>1, <1>5, <1>6, <1>7, <1>8 DEF JInv

-----------------------------------------------------------------------------
\* A request ends: its flight is orphaned, unless it is finished and unpublished.
LEMMA FinishMoves ==
    ASSUME IInv, JInv, IInv', NEW q \in Requests, Finish(q)
    PROVE  JInv'
<1>0. /\ Book(conn) /\ Book(conn') /\ Ledger(conn) /\ LeasesLimited(conn)
      /\ phase \in [Requests -> {"waiting", "parked", "loaded", "ready", "running", "draining", "done"}]
      /\ table \in [Requests -> Seq(Blocks)]
  BY DEF IInv, JInv, Typed
<1>1. /\ phase[q] \notin {"draining", "done"} /\ conn' = RequestFinished(conn, q)
      /\ conn.pending[q] = None /\ load' = load /\ quorum' = quorum
      /\ pins' = pins /\ fence' = fence /\ bad' = bad \ {q}
  BY DEF Finish, Scheduled, workers
<1>2. /\ phase'[q] \in {"draining", "done"} /\ table'[q] \in {table[q], <<>>}
      /\ \A p \in Requests \ {q} : phase'[p] = phase[p] /\ table'[p] = table[p]
  BY <1>0 DEF Finish
<1>3. Steady(conn, conn', {})
  BY <1>0, <1>1, RequestFinishedBook
<1>4. /\ Ledger(conn')
      /\ \A d \in Digests : conn'.flights[d] # None =>
           /\ conn.flights[d] # None /\ conn'.flights[d].leader = conn.flights[d].leader
           /\ conn'.flights[d].blocks = conn.flights[d].blocks
           /\ conn'.flights[d].dispatched = conn.flights[d].dispatched
           /\ conn'.flights[d].done = conn.flights[d].done
           /\ conn'.flights[d].lease = conn.flights[d].lease
           /\ conn.flights[d].dispatched => conn'.flights[d].segment \in {None, conn.flights[d].segment}
           /\ conn'.flights[d].gone <=> conn.flights[d].gone \/ conn.flights[d].leader = q
           /\ d = conn.leads[q] => ~conn'.flights[d].done \/ conn'.flights[d].lease # None
  BY <1>0, <1>1, RequestFinishedLedger
<1>5. LeasesLimited(conn')
  <2>1. Published(conn') \subseteq Published(conn)
    BY <1>4, PublishedIs
  <2> QED BY <1>0, <2>1, LeasesFewer
<1>6. FlightsAt'
  <2>1. SUFFICES ASSUME NEW d \in Digests, conn'.flights[d] # None
                 PROVE  LeftAt(d)' /\ SentAt(d)' /\ MovingAt(d)'
    BY DEF FlightsAt
  <2> DEFINE f == conn.flights[d]
             g == conn'.flights[d]
  <2>2. /\ f # None /\ g.leader = f.leader /\ g.dispatched = f.dispatched
        /\ g.done = f.done /\ g.lease = f.lease
        /\ f.dispatched => g.segment \in {None, f.segment}
        /\ g.gone <=> f.gone \/ f.leader = q
        /\ d = conn.leads[q] => ~g.done \/ g.lease # None
    BY <1>4, <2>1
  <2>3. LeftAt(d) /\ SentAt(d) /\ MovingAt(d) /\ f.leader \in Requests
    BY <1>0, <2>2, FlightIs DEF JInv, FlightsAt
  <2>4. CASE f.leader = q
    <3>1. ~f.gone /\ conn.leads[q] = d
      BY <1>1, <2>2, <2>4, LedFlight
    <3>2. LeftAt(d)'
      BY <1>2, <2>2, <2>4 DEF LeftAt
    <3>3. SentAt(d)' /\ MovingAt(d)'
      BY <1>1, <2>2, <2>3, <3>1 DEF SentAt, MovingAt
    <3> QED BY <3>2, <3>3
  <2>5. CASE f.leader # q
    <3>1. phase'[f.leader] = phase[f.leader]
      BY <1>2, <2>3, <2>5
    <3>2. LeftAt(d)' /\ SentAt(d)'
      BY <1>1, <2>2, <2>3, <2>5, <3>1 DEF LeftAt, SentAt
    <3>3. MovingAt(d)'
      BY <1>1, <2>2, <2>3, <3>1 DEF MovingAt, Awaited
    <3> QED BY <3>2, <3>3
  <2> QED BY <2>4, <2>5
<1>7. RequestsAt'
  <2>1. SUFFICES ASSUME NEW p \in Requests
                 PROVE  CoveredAt(p)' /\ BadAt(p)' /\ Injective(table'[p])
    BY DEF RequestsAt
  <2>2. SteadyAt(conn, conn', p) /\ Keeps(conn, conn', {})
    BY <1>3, <1>4, SteadyEach DEF Keeps
  <2>3. CoveredAt(p) /\ BadAt(p) /\ Injective(table[p])
    BY DEF JInv, RequestsAt
  <2>4. CASE p = q
    <3>1. q \notin bad'
      BY <1>1
    <3> QED BY <1>2, <2>3, <2>4, <3>1, EmptyInjective DEF CoveredAt, BadAt
  <2>5. CASE p # q
    <3>1. phase'[p] = phase[p] /\ table'[p] = table[p] /\ (p \in bad' => p \in bad)
      BY <1>1, <1>2, <2>5
    <3> QED BY <1>0, <2>2, <2>3, <3>1, RequestKept
  <2> QED BY <2>4, <2>5
<1>8. PinsSpread' /\ quorum' \in SUBSET Digests
  BY <1>1 DEF JInv, PinsSpread
<1> QED BY <1>4, <1>5, <1>6, <1>7, <1>8 DEF JInv

\* What build_connector_meta does to the flights and the loads.
LEMMA BuildMetaIs ==
    ASSUME IInv, BuildMeta
    PROVE  /\ conn'.leads = conn.leads /\ conn'.bound = conn.bound
           /\ \A q \in Requests : conn'.pending[q] = None
           /\ \A d \in Digests :
                /\ conn'.flights[d] # None <=> conn.flights[d] # None
                /\ conn'.flights[d] # None =>
                     LET f == conn.flights[d]
                         g == conn'.flights[d]
                     IN  /\ g.leader = f.leader /\ g.followers = f.followers
                         /\ g.segment = f.segment /\ g.lease = f.lease /\ g.newer = f.newer
                         /\ g.gone = f.gone /\ g.done = f.done
                         /\ conn.pending[f.leader] = d => g.blocks = Held(table[f.leader])
                         /\ conn.pending[f.leader] # d => g.blocks = f.blocks /\ g.dispatched = f.dispatched
           /\ \A q \in Requests :
                /\ conn.pending[q] = None => load'[q] = load[q]
                /\ conn.pending[q] # None =>
                     /\ load'[q] # None
                     /\ load'[q].segment = IF conn.flights[conn.pending[q]] = None THEN None
                                           ELSE conn.flights[conn.pending[q]].segment
           /\ phase' = phase /\ table' = table /\ pins' = pins /\ fence' = fence /\ bad' = bad
           /\ quorum' = quorum
<1> DEFINE Q == {q \in Requests : conn.pending[q] # None}
           sent(d) == \E q \in Q : conn.pending[q] = d /\ conn.flights[d].leader = q
           A == [q \in Requests |->
                  IF q \in Q THEN [digest |-> conn.pending[q], blocks |-> Held(table[q])]
                  ELSE conn.admitted[q]]
           g(d) == [conn.flights[d] EXCEPT !.dispatched = TRUE, !.blocks = Held(table[conn.flights[d].leader])]
           F == [d \in Digests |-> IF conn.flights[d] # None /\ sent(d) THEN g(d) ELSE conn.flights[d]]
           G(q) == [digest |-> conn.pending[q],
                    segment |-> IF conn.flights[conn.pending[q]] = None THEN None
                                ELSE conn.flights[conn.pending[q]].segment,
                    state |-> [r \in Ranks |-> "queued"]]
<1>1. /\ conn' = [conn EXCEPT !.pending = NoOne, !.admitted = A, !.flights = F]
      /\ load' = [q \in Requests |-> IF q \notin Q THEN load[q] ELSE G(q)]
      /\ phase' = phase /\ table' = table /\ pins' = pins /\ fence' = fence /\ bad' = bad
      /\ quorum' = quorum
  BY DEF BuildMeta, engine
<1>2. conn \in Conns /\ Book(conn) /\ table \in [Requests -> Seq(Blocks)]
  BY DEF IInv, Book, Typed
<1>3. ASSUME NEW d \in Digests, conn.flights[d] # None
      PROVE  /\ g(d) \in FlightRecords /\ g(d) # None
             /\ g(d).leader = conn.flights[d].leader /\ g(d).followers = conn.flights[d].followers
             /\ g(d).segment = conn.flights[d].segment /\ g(d).lease = conn.flights[d].lease
             /\ g(d).newer = conn.flights[d].newer /\ g(d).gone = conn.flights[d].gone
             /\ g(d).done = conn.flights[d].done
             /\ g(d).blocks = Held(table[conn.flights[d].leader])
  <2> DEFINE f == conn.flights[d]
             B == Held(table[f.leader])
  <2>1. f \in FlightRecords /\ f.leader \in Requests
    BY <1>2, <1>3, FlightIs
  <2>2. B \in SUBSET Blocks
    BY <1>2, <2>1, HeldIs
  <2>3. g(d) = [f EXCEPT !.dispatched = TRUE, !.blocks = B]
    OBVIOUS
  <2> HIDE DEF f, B, g
  <2>4. /\ g(d) \in FlightRecords
        /\ g(d).leader = f.leader /\ g(d).followers = f.followers /\ g(d).segment = f.segment
        /\ g(d).lease = f.lease /\ g(d).newer = f.newer /\ g(d).gone = f.gone /\ g(d).done = f.done
        /\ g(d).blocks = B
    BY <2>1, <2>2, <2>3 DEF FlightRecords
  <2> QED BY <2>4, DistinctValues DEF f, B
<1>4. ASSUME NEW d \in Digests, conn.flights[d] # None
      PROVE  sent(d) <=> conn.pending[conn.flights[d].leader] = d
  <2>1. conn.flights[d].leader \in Requests /\ d # None
    BY <1>2, <1>4, FlightIs
  <2> QED BY <2>1
<1>5. \A d \in Digests : F[d] = IF conn.flights[d] # None /\ sent(d) THEN g(d) ELSE conn.flights[d]
  OBVIOUS
<1>6. \A q \in Requests : /\ q \notin Q => load'[q] = load[q]
                          /\ q \in Q => load'[q] = G(q)
  BY <1>1
<1>7. \A q \in Q : G(q) = load'[q] /\ load' \in [Requests -> Optional(Loads)]
  BY <1>6, BuildMetaKeeps DEF IInv, Typed
<1>8. \A q \in Q : G(q).segment = IF conn.flights[conn.pending[q]] = None THEN None
                                  ELSE conn.flights[conn.pending[q]].segment
  OBVIOUS
<1>9. \A q \in Q : load'[q] # None
  <2>1. SUFFICES ASSUME NEW q \in Q PROVE load'[q] # None
    OBVIOUS
  <2>2. conn'.pending[q] = None /\ phase'[q] = "parked"
    BY <1>1, <1>2, <2>1 DEF Conns, NoOne, IInv, StagesOK, StageOK
  <2>3. LoadOK(q)'
    BY <2>2, BuildMetaKeeps DEF IInv, StagesOK, StageOK, Loading, Writing
  <2> QED BY <2>3 DEF LoadOK
<1> HIDE DEF F, A, g, sent, G
<1>10. /\ conn'.flights = F /\ conn'.pending = NoOne /\ conn'.leads = conn.leads /\ conn'.bound = conn.bound
  BY <1>1, <1>2 DEF Conns
<1>11. ASSUME NEW d \in Digests
       PROVE  /\ conn'.flights[d] # None <=> conn.flights[d] # None
              /\ conn'.flights[d] # None =>
                   LET f == conn.flights[d]
                       h == conn'.flights[d]
                   IN  /\ h.leader = f.leader /\ h.followers = f.followers
                       /\ h.segment = f.segment /\ h.lease = f.lease /\ h.newer = f.newer
                       /\ h.gone = f.gone /\ h.done = f.done
                       /\ conn.pending[f.leader] = d => h.blocks = Held(table[f.leader])
                       /\ conn.pending[f.leader] # d => h.blocks = f.blocks /\ h.dispatched = f.dispatched
  <2>1. CASE conn.flights[d] = None
    <3>1. conn'.flights[d] = None
      BY <1>5, <1>10, <2>1
    <3> QED BY <2>1, <3>1
  <2>2. CASE conn.flights[d] # None /\ conn.pending[conn.flights[d].leader] = d
    <3>1. conn'.flights[d] = g(d)
      BY <1>4, <1>5, <1>10, <2>2
    <3> QED BY <1>3, <2>2, <3>1
  <2>3. CASE conn.flights[d] # None /\ conn.pending[conn.flights[d].leader] # d
    <3>1. conn'.flights[d] = conn.flights[d]
      BY <1>4, <1>5, <1>10, <2>3
    <3> QED BY <2>3, <3>1
  <2> QED BY <2>1, <2>2, <2>3
<1>12. \A q \in Requests : conn'.pending[q] = None
  BY <1>10 DEF NoOne
<1>13. \A q \in Requests :
                /\ conn.pending[q] = None => load'[q] = load[q]
                /\ conn.pending[q] # None =>
                     /\ load'[q] # None
                     /\ load'[q].segment = IF conn.flights[conn.pending[q]] = None THEN None
                                           ELSE conn.flights[conn.pending[q]].segment
  BY <1>6, <1>8, <1>9
<1> QED BY <1>1, <1>10, <1>11, <1>12, <1>13

\* The loads are sent: the flights of their leaders name the blocks and the segment.
LEMMA BuildMetaMoves ==
    ASSUME IInv, JInv, IInv', BuildMeta
    PROVE  JInv'
<1>0. Book(conn) /\ Book(conn') /\ Ledger(conn) /\ LeasesLimited(conn)
  BY DEF IInv, JInv
<1>1. /\ conn'.leads = conn.leads /\ conn'.bound = conn.bound
      /\ \A q \in Requests : conn'.pending[q] = None
      /\ phase' = phase /\ table' = table /\ pins' = pins /\ fence' = fence /\ bad' = bad
      /\ quorum' = quorum
  BY BuildMetaIs
<1>2. ASSUME NEW d \in Digests, conn'.flights[d] # None
      PROVE  LET f == conn.flights[d]
                 g == conn'.flights[d]
             IN  /\ f # None /\ g.leader = f.leader /\ g.followers = f.followers
                 /\ g.segment = f.segment /\ g.lease = f.lease /\ g.newer = f.newer
                 /\ g.gone = f.gone /\ g.done = f.done
                 /\ conn.pending[f.leader] = d => g.blocks = Held(table[f.leader])
                 /\ conn.pending[f.leader] # d => g.blocks = f.blocks /\ g.dispatched = f.dispatched
  BY <1>2, BuildMetaIs
<1>3. \A d \in Digests : conn'.flights[d] # None <=> conn.flights[d] # None
  BY BuildMetaIs
<1>4. Ledger(conn')
  <2>1. \A d \in Digests :
             /\ conn'.flights[d] # None <=> conn.flights[d] # None
             /\ conn'.flights[d] # None =>
                  /\ conn'.flights[d].leader = conn.flights[d].leader
                  /\ conn'.flights[d].followers = conn.flights[d].followers
                  /\ conn'.flights[d].segment = conn.flights[d].segment
                  /\ conn'.flights[d].lease = conn.flights[d].lease
                  /\ conn'.flights[d].newer = conn.flights[d].newer
                  /\ conn'.flights[d].gone = conn.flights[d].gone
    BY <1>2, <1>3
  <2> QED BY <1>0, <1>1, <2>1, LedgerInPlace
<1>5. LeasesLimited(conn')
  <2>1. Published(conn') \subseteq Published(conn)
    BY <1>2, PublishedIs
  <2> QED BY <1>0, <2>1, LeasesFewer
<1>6. FlightsAt'
  <2>1. SUFFICES ASSUME NEW d \in Digests, conn'.flights[d] # None
                 PROVE  LeftAt(d)' /\ SentAt(d)' /\ MovingAt(d)'
    BY DEF FlightsAt
  <2> DEFINE f == conn.flights[d]
             g == conn'.flights[d]
             p == f.leader
  <2>2. /\ f # None /\ g.leader = p /\ g.segment = f.segment /\ g.lease = f.lease
        /\ g.gone = f.gone /\ g.done = f.done
        /\ conn.pending[p] # d => g.dispatched = f.dispatched
    BY <1>2, <2>1
  <2>3. LeftAt(d) /\ SentAt(d) /\ MovingAt(d) /\ p \in Requests
    BY <1>0, <2>2, FlightIs DEF JInv, FlightsAt
  <2>4. LeftAt(d)'
    BY <1>1, <2>2, <2>3 DEF LeftAt
  <2>5. MovingAt(d)'
    BY <1>1, <2>2, <2>3 DEF MovingAt, Awaited
  <2>6. /\ conn.pending[p] = None => load'[p] = load[p]
        /\ conn.pending[p] # None =>
                     /\ load'[p] # None
                     /\ load'[p].segment = IF conn.flights[conn.pending[p]] = None THEN None
                                           ELSE conn.flights[conn.pending[p]].segment
    BY <2>3, BuildMetaIs
  <2>7. conn.pending[p] # None => conn.pending[p] = d
    <3>1. SUFFICES ASSUME conn.pending[p] # None PROVE conn.pending[p] = d
      OBVIOUS
    <3>2. phase[p] = "parked" /\ conn.leads[p] \in {None, conn.pending[p]}
      BY <2>3, <3>1 DEF IInv, StagesOK, StageOK
    <3>3. conn.leads[p] = d /\ d # None
      BY <2>2, <3>2, LedFlight, FlightConstants
    <3> QED BY <3>2, <3>3
  <2>8. SentAt(d)'
    <3>1. CASE conn.pending[p] = None
      <4>1. conn.pending[p] # d
        BY <3>1, FlightConstants
      <4> QED BY <2>2, <2>3, <2>6, <3>1, <4>1 DEF SentAt
    <3>2. CASE conn.pending[p] # None
      <4>1. load'[p] # None /\ load'[p].segment = f.segment
        BY <2>2, <2>6, <2>7, <3>2
      <4> QED BY <2>2, <4>1 DEF SentAt
    <3> QED BY <3>1, <3>2
  <2> QED BY <2>4, <2>5, <2>8
<1>7. RequestsAt'
  <2>1. SUFFICES ASSUME NEW q \in Requests
                 PROVE  CoveredAt(q)' /\ BadAt(q)' /\ Injective(table'[q])
    BY DEF RequestsAt
  <2>2. CoveredAt(q) /\ BadAt(q) /\ Injective(table[q])
    BY DEF JInv, RequestsAt
  <2>3. BadAt(q)' /\ Injective(table'[q])
    BY <1>1, <2>2 DEF BadAt
  <2>4. CoveredAt(q)'
    <3>1. SUFFICES ASSUME phase[q] \in {"parked", "loaded"}, NEW d, d = conn.leads[q], d # None
                   PROVE  conn'.flights[d].blocks = Held(table[q])
      BY <1>1 DEF CoveredAt
    <3>2. d \in Digests /\ conn.flights[d] # None /\ conn.flights[d].leader = q
      BY <1>0, <3>1, ConnParts DEF Book, LeadersOK
    <3>3. conn'.flights[d] # None
      BY <1>3, <3>2
    <3>4. CASE conn.pending[q] = d
      BY <1>2, <3>2, <3>3, <3>4
    <3>5. CASE conn.pending[q] # d
      <4>1. conn'.flights[d].blocks = conn.flights[d].blocks
        BY <1>2, <3>2, <3>3, <3>5
      <4>2. conn.pending[q] = None
        BY <3>1, <3>5 DEF IInv, StagesOK, StageOK
      <4> QED BY <2>2, <3>1, <4>1, <4>2 DEF CoveredAt
    <3> QED BY <3>4, <3>5
  <2> QED BY <2>3, <2>4
<1>8. PinsSpread' /\ quorum' \in SUBSET Digests
  BY <1>1 DEF JInv, PinsSpread
<1> QED BY <1>4, <1>5, <1>6, <1>7, <1>8 DEF JInv

-----------------------------------------------------------------------------
\* An output of a step: failed loads retire flights, completed ones finish them.
LEMMA UpdateOutputMoves ==
    ASSUME IInv, JInv, IInv', UpdateOutput
    PROVE  JInv'
<1> DEFINE invalid == UNION {errors[r] : r \in Ranks}
           got(q) == acks[q] \cup {r \in Ranks : q \in taken[r]}
           Q == {q \in Requests : got(q) = Ranks /\ acks[q] # Ranks}
           lost == Blamed(invalid)
           m == RetireAll(conn, lost)
           A == [q \in Requests |-> IF m.admitted[q] # None /\ m.admitted[q].blocks \cap invalid # {}
                                      THEN None ELSE m.admitted[q]]
           e == [m EXCEPT !.admitted = A]
           hit == {q \in Requests : phase[q] = "parked" /\ Held(table[q]) \cap invalid # {}}
<1>1. /\ \A q \in Requests : conn.pending[q] = None
      /\ \A r \in Ranks : taken[r] # None
      /\ conn' = LoadsFinished(e, Q)
      /\ bad' = bad \cup hit
      /\ phase' = [q \in Requests |-> IF q \notin Q THEN phase[q]
                                      ELSE IF phase[q] = "parked" THEN "loaded" ELSE "done"]
      /\ table' = [q \in Requests |-> IF q \in Q /\ phase[q] # "parked" THEN <<>> ELSE table[q]]
      /\ pins' = pins /\ fence' = fence /\ load' = load /\ quorum' \subseteq quorum
  BY DEF UpdateOutput, Scheduled
<1>2. /\ Book(conn) /\ Book(conn') /\ Ledger(conn)
      /\ phase \in [Requests -> {"waiting", "parked", "loaded", "ready", "running", "draining", "done"}]
      /\ table \in [Requests -> Seq(Blocks)]
  BY DEF IInv, Typed, JInv
<1>3. ASSUME NEW q \in Q
      PROVE  phase[q] \in Writing /\ Led(q)
  <2>1. PICK r \in Ranks : q \in taken[r]
    BY DEF IInv, Typed
  <2>2. Loading(q)
    BY <1>1, <2>1 DEF IInv, RanksOK, RankOK
  <2> QED BY <2>2 DEF IInv, StagesOK, StageOK, Loading
<1>4. /\ Book(m) /\ Steady(conn, m, {}) /\ Ledger(m) /\ Descends(conn, m, {})
      /\ \A d \in Digests : m.flights[d] # None => d \notin lost
  <2> HIDE DEF lost
  <2> QED BY <1>2, RetireBook, RetireLedger
<1>5. lost = {conn.admitted[q].digest :
               q \in {p \in Requests : conn.admitted[p] # None /\ conn.admitted[p].blocks \cap invalid # {}}}
             \cup {d \in Live(conn) : conn.flights[d].blocks \cap invalid # {}}
  BY DEF Blamed
<1> HIDE DEF m
<1>6. A \in [Requests -> Optional(Admissions)]
  <2>1. m.admitted \in [Requests -> Optional(Admissions)]
    BY <1>4, ConnIs DEF Book
  <2> QED BY <2>1 DEF Optional
<1>7. e = [m EXCEPT !.admitted = A]
  OBVIOUS
<1> HIDE DEF A, e
<1>8. Book(e) /\ Steady(m, e, {}) /\ e.flights = m.flights /\ e.leads = m.leads
  BY <1>4, <1>6, <1>7, AdmittedBook
<1>9. e.bound = m.bound
  BY <1>4, <1>7 DEF Book, Conns
<1>10. Ledger(e) /\ Descends(m, e, {})
  BY <1>4, <1>8, <1>9, LedgerSame
<1>11. Steady(conn, e, {}) /\ Descends(conn, e, {})
  BY <1>4, <1>8, <1>10, SteadyComposes, DescendsComposes
<1>12. Q \in SUBSET Requests
  OBVIOUS
<1>13. \A q \in Q : e.leads[q] # None => e.flights[e.leads[q]].dispatched
  BY <1>3, <1>11, <1>12 DEF Steady, Led
<1> HIDE DEF Q
<1>14. Steady(conn, conn', {})
  <2>1. Steady(e, conn', {})
    BY <1>1, <1>8, <1>12, <1>13, LoadsFinishedBook
  <2> QED BY <1>11, <2>1, SteadyComposes
<1>15. /\ Ledger(conn')
       /\ \A d \in Digests : conn'.flights[d] # None =>
                /\ e.flights[d] # None /\ conn'.flights[d].leader = e.flights[d].leader
                /\ conn'.flights[d].blocks = e.flights[d].blocks
                /\ conn'.flights[d].dispatched = e.flights[d].dispatched
                /\ conn'.flights[d].gone = e.flights[d].gone
                /\ conn'.flights[d].lease = e.flights[d].lease
                /\ conn'.flights[d].segment = e.flights[d].segment
                /\ conn'.flights[d].done => e.flights[d].done \/ (e.flights[d].leader \in Q /\ ~e.flights[d].gone)
  BY <1>1, <1>8, <1>10, <1>12, <1>13, LoadsFinishedLedger
<1>16. ASSUME NEW d \in Digests, conn'.flights[d] # None
       PROVE  /\ conn.flights[d] # None /\ conn'.flights[d].leader = conn.flights[d].leader
              /\ conn'.flights[d].blocks = conn.flights[d].blocks
              /\ conn'.flights[d].dispatched = conn.flights[d].dispatched
              /\ conn'.flights[d].gone = conn.flights[d].gone
              /\ conn'.flights[d].lease = conn.flights[d].lease
              /\ conn.flights[d].dispatched => conn'.flights[d].segment \in {None, conn.flights[d].segment}
              /\ conn'.flights[d].done =>
                   conn.flights[d].done \/ (conn.flights[d].leader \in Q /\ ~conn.flights[d].gone)
              /\ d \notin lost
  <2>1. e.flights[d] # None /\ SameFlight(conn.flights[d], e.flights[d])
    BY <1>11, <1>15, <1>16 DEF Descends, Fresh
  <2>2. d \notin lost
    BY <1>4, <1>8, <2>1
  <2> HIDE DEF lost
  <2> QED BY <1>15, <1>16, <2>1, <2>2 DEF SameFlight
<1> HIDE DEF invalid, got, lost, hit
<1>17. LeasesLimited(conn')
  <2>1. Published(conn') \subseteq Published(conn)
    BY <1>16, PublishedIs
  <2> QED BY <1>2, <2>1, LeasesFewer DEF JInv
<1>18. \A q \in Requests : /\ q \notin Q => phase'[q] = phase[q] /\ table'[q] = table[q]
                           /\ q \in Q /\ phase[q] = "parked" => phase'[q] = "loaded" /\ table'[q] = table[q]
                           /\ q \in Q /\ phase[q] # "parked" =>
                                phase[q] = "draining" /\ phase'[q] = "done" /\ table'[q] = <<>>
  BY <1>1, <1>2, <1>3 DEF Writing
<1>19. FlightsAt'
  <2>1. SUFFICES ASSUME NEW d \in Digests, conn'.flights[d] # None
                 PROVE  LeftAt(d)' /\ SentAt(d)' /\ MovingAt(d)'
    BY DEF FlightsAt
  <2> DEFINE f == conn.flights[d]
             g == conn'.flights[d]
             p == f.leader
  <2>2. /\ f # None /\ g.leader = p /\ g.dispatched = f.dispatched /\ g.gone = f.gone
        /\ g.lease = f.lease /\ (f.dispatched => g.segment \in {None, f.segment})
        /\ g.done => f.done \/ (p \in Q /\ ~f.gone)
    BY <1>16, <2>1
  <2>3. LeftAt(d) /\ SentAt(d) /\ MovingAt(d) /\ p \in Requests
    BY <1>2, <2>2, FlightIs DEF JInv, FlightsAt
  <2>4. \/ phase'[p] = phase[p] /\ p \notin Q
        \/ phase[p] = "parked" /\ phase'[p] = "loaded"
        \/ phase[p] = "draining" /\ phase'[p] = "done"
    BY <1>18, <2>3
  <2>5. LeftAt(d)'
    BY <2>2, <2>3, <2>4 DEF LeftAt
  <2>6. SentAt(d)'
    BY <1>1, <2>2, <2>3 DEF SentAt
  <2>7. MovingAt(d)'
    <3>1. SUFFICES ASSUME MaxPendingRestores = 1, g.done, f.lease = None
                   PROVE  \/ phase'[p] = "loaded"
                          \/ phase'[p] \in {"ready", "running"} /\ \E k \in Digests : fence'[k] = p
      BY <2>2 DEF MovingAt, Awaited
    <3>2. CASE f.done
      BY <1>1, <2>3, <2>4, <3>1, <3>2 DEF MovingAt, Awaited
    <3>3. CASE p \in Q /\ ~f.gone
      BY <2>2, <2>3, <2>4, <3>3 DEF LeftAt
    <3> QED BY <2>2, <3>1, <3>2, <3>3
  <2> QED BY <2>5, <2>6, <2>7
<1>20. RequestsAt'
  <2>1. SUFFICES ASSUME NEW q \in Requests
                 PROVE  CoveredAt(q)' /\ BadAt(q)' /\ Injective(table'[q])
    BY DEF RequestsAt
  <2>2. CoveredAt(q) /\ BadAt(q) /\ Injective(table[q]) /\ conn.pending[q] = None
    BY <1>1 DEF JInv, RequestsAt
  <2>3. /\ conn'.pending[q] = None
        /\ conn'.leads[q] # None => conn'.leads[q] = conn.leads[q]
    BY <1>14, <2>2 DEF Steady
  <2>4. conn'.leads[q] # None => /\ conn'.leads[q] \in Digests /\ conn'.flights[conn'.leads[q]] # None
    BY <1>2, ConnParts DEF Book, LeadersOK
  <2>5. Injective(table'[q])
    BY <1>18, <2>2, EmptyInjective
  <2>6. ASSUME phase'[q] \in {"parked", "loaded"}
        PROVE  phase[q] \in {"parked", "loaded"} /\ table'[q] = table[q]
    BY <1>18, <2>6
  <2>7. CoveredAt(q)'
    <3>1. SUFFICES ASSUME phase'[q] \in {"parked", "loaded"}, NEW d, d = conn'.leads[q], d # None
                   PROVE  conn'.flights[d].blocks = Held(table'[q])
      BY DEF CoveredAt
    <3>2. conn.leads[q] = d /\ conn'.flights[d].blocks = conn.flights[d].blocks
      BY <1>16, <2>3, <2>4, <3>1
    <3> QED BY <2>2, <2>6, <3>1, <3>2 DEF CoveredAt
  <2>8. BadAt(q)'
    <3>1. CASE q \in bad
      <4>1. phase[q] \in {"parked", "loaded"} /\ conn.leads[q] = None
        BY <2>2, <3>1 DEF BadAt
      <4>2. phase'[q] \in {"parked", "loaded"}
        BY <1>18, <4>1
      <4>3. conn'.leads[q] = None
        BY <2>3, <4>1
      <4> QED BY <2>3, <4>2, <4>3 DEF BadAt
    <3>2. CASE q \in hit
      <4>1. phase[q] = "parked" /\ Held(table[q]) \cap invalid # {}
        BY <3>2 DEF hit
      <4>2. phase'[q] \in {"parked", "loaded"}
        BY <1>18, <4>1
      <4>3. conn'.leads[q] = None
        <5>1. SUFFICES ASSUME NEW d, d = conn'.leads[q], d # None PROVE FALSE
          OBVIOUS
        <5>2. d \in Digests /\ conn'.flights[d] # None /\ conn.leads[q] = d
          BY <2>3, <2>4, <5>1
        <5>3. conn.flights[d].blocks = Held(table[q])
          BY <2>2, <4>1, <5>1, <5>2 DEF CoveredAt
        <5>4. d \in Live(conn) /\ d \notin lost
          BY <1>16, <5>2, PublishedIs
        <5> QED BY <1>5, <4>1, <5>3, <5>4
      <4> QED BY <2>3, <4>2, <4>3 DEF BadAt
    <3>3. CASE q \notin bad'
      BY <3>3 DEF BadAt
    <3> QED BY <1>1, <3>1, <3>2, <3>3
  <2> QED BY <2>5, <2>7, <2>8
<1>21. PinsSpread' /\ quorum' \in SUBSET Digests
  BY <1>1 DEF JInv, PinsSpread
<1> QED BY <1>15, <1>17, <1>19, <1>20, <1>21 DEF JInv

\* Nothing changes.
LEMMA StutterMoves ==
    ASSUME IInv, JInv, IInv', UNCHANGED vars
    PROVE  JInv'
<1>1. /\ conn' = conn /\ phase' = phase /\ table' = table /\ fence' = fence /\ bad' = bad
      /\ load' = load /\ pins' = pins /\ quorum' = quorum
  BY DEF vars
<1>2. PinsSpread' /\ quorum' \in SUBSET Digests
  BY <1>1 DEF JInv, PinsSpread
<1> QED BY <1>1, <1>2, OthersMove

\* At first there are no flights, loads or pins.
LEMMA InitLedger == Init => JInv
<1> SUFFICES ASSUME Init PROVE JInv
  OBVIOUS
<1>1. /\ \A d \in Digests : conn.flights[d] = None
      /\ \A q \in Requests : conn.leads[q] = None /\ conn.bound[q] = None
      /\ bad = {} /\ pins = <<>> /\ quorum \in Reported
      /\ \A q \in Requests : table[q] = <<>> /\ phase[q] = "waiting"
  BY DEF Init, NoOne
<1>2. Live(conn) = {} /\ Published(conn) = {} /\ Live(conn) \ Published(conn) = {}
  BY <1>1 DEF Live, Published
<1>3. IsFiniteSet({}) /\ Cardinality({}) = 0
  BY FS_EmptySet
<1>4. Limits(conn)
  BY <1>1, <1>2, <1>3, FlightConstants DEF Limits
<1>5. Ledger(conn)
  BY <1>1, <1>2, <1>4 DEF Ledger, LeadsTied, FollowersTied, KeysTied, Ranked
<1>6. LeasesLimited(conn)
  BY <1>2, <1>3, FlightConstants DEF LeasesLimited
<1>7. FlightsAt
  BY <1>1 DEF FlightsAt
<1>8. RequestsAt
  BY <1>1, EmptyInjective DEF RequestsAt, CoveredAt, BadAt
<1>9. PinsSpread
  <2>1. Len(pins) = 0 /\ Held(pins) = {}
    BY <1>1, EmptyTable
  <2> QED BY <2>1, FlightConstants DEF PinsSpread
<1>10. quorum \in SUBSET Digests
  BY <1>1, FlightConstants
<1> QED BY <1>5, <1>6, <1>7, <1>8, <1>9, <1>10 DEF JInv

\* Every step keeps the second invariant.
LEMMA NextMoves == IInv /\ JInv /\ [Next]_vars /\ IInv' => JInv'
<1> SUFFICES ASSUME IInv, JInv, [Next]_vars, IInv'
             PROVE  JInv'
  OBVIOUS
<1>1. ASSUME NEW q \in Requests, AttachLease(q) PROVE JInv'
  BY <1>1, AttachLeaseMoves
<1>2. ASSUME NEW q \in Requests, NEW local, NEW hit, NEW fits, Lookup(q, local, hit, fits) PROVE JInv'
  BY <1>2, LookupMoves
<1>3. ASSUME NEW q \in Requests, NEW published, Promote(q, published) PROVE JInv'
  BY <1>3, PromoteMoves
<1>4. ASSUME NEW q \in Requests, Start(q) PROVE JInv'
  BY <1>4, StartMoves
<1>5. ASSUME NEW q \in Requests, Preempt(q) PROVE JInv'
  BY <1>5, PreemptMoves
<1>6. ASSUME NEW q \in Requests, Finish(q) PROVE JInv'
  BY <1>6, FinishMoves
<1>7. ASSUME NEW d \in Digests, Finalize(d) \/ Age(d) \/ Report(d) PROVE JInv'
  BY <1>7, FinalizeMoves, AgeMoves, ReportMoves
<1>8. CASE BuildMeta
  BY <1>8, BuildMetaMoves
<1>9. CASE UpdateOutput
  BY <1>9, UpdateOutputMoves
<1>10. CASE ReleasePin
  BY <1>10, ReleasePinMoves
<1>11. ASSUME NEW r \in Ranks, GetFinished(r) PROVE JInv'
  BY <1>11, GetFinishedMoves
<1>12. ASSUME NEW r \in Ranks, NEW q \in Requests, NEW verified \in BOOLEAN, LoadOne(r, q, verified)
       PROVE  JInv'
  BY <1>12, LoadOneMoves
<1>13. CASE UNCHANGED vars
  BY <1>13, StutterMoves
<1> QED BY <1>1, <1>2, <1>3, <1>4, <1>5, <1>6, <1>7, <1>8, <1>9, <1>10, <1>11, <1>12, <1>13
        DEF Next, Schedule

-----------------------------------------------------------------------------
(***************************************************************************)
(* What the two invariants say of the tables.                              *)
(***************************************************************************)
\* A table that names a block once is no longer than there are blocks.
LEMMA TableFits ==
    ASSUME NEW s \in Seq(Blocks), Injective(s)
    PROVE  Len(s) <= Cardinality(Blocks)
<1>1. Len(s) \in Nat /\ DOMAIN s = 1 .. Len(s) /\ \A i \in 1 .. Len(s) : s[i] \in Blocks
  BY LenProperties, ElementOfSeq
<1>2. s \in [1 .. Len(s) -> Blocks]
  BY <1>1, SeqDef
<1>3. s \in Injection(1 .. Len(s), Blocks)
  BY <1>1, <1>2 DEF Injective, Injection, IsInjective
<1>4. Cardinality(1 .. Len(s)) <= Cardinality(Blocks)
  BY <1>3, FS_Injection, FlightConstants
<1>5. Cardinality(1 .. Len(s)) = Len(s)
  <2>1. Cardinality(1 .. Len(s)) = IF 1 > Len(s) THEN 0 ELSE Len(s) - 1 + 1
    BY <1>1, FS_Interval
  <2> QED BY <1>1, <2>1
<1> QED BY <1>4, <1>5

\* Every variable keeps its type.
LEMMA TypesHold ==
    ASSUME IInv, JInv
    PROVE  TypeOK
<1>1. Typed /\ Book(conn) /\ conn \in Conns
  BY DEF IInv, Book
<1>2. /\ \A d \in Digests : conn.flights[d] = None \/ conn.flights[d] \in FlightRecords
      /\ conn.leads \in [Requests -> Optional(Digests)]
      /\ conn.need \in [Requests -> Optional(Digests)]
      /\ conn.pending \in [Requests -> Optional(Digests)]
      /\ \A q \in Requests : conn.bound[q] \in Optional(Bindings) /\ conn.admitted[q] \in Optional(Admissions)
  BY <1>1, ConnIs DEF Optional
<1>3. ASSUME NEW q \in Requests
      PROVE  /\ load[q] \in Optional(Loads)
             /\ Len(table[q]) <= Cardinality(Blocks) /\ Held(table[q]) \subseteq Blocks
  BY <1>1, TableFits, HeldIs DEF Typed, JInv, RequestsAt
<1>4. \A p \in Held(pins) : p.key \in Digests /\ p.ready \in BOOLEAN /\ Held(p.blocks) \subseteq Blocks
  <2>1. Held(pins) \subseteq Pins
    BY <1>1, HeldIs DEF Typed
  <2>2. \A p \in Pins : p.key \in Digests /\ p.ready \in BOOLEAN /\ p.blocks \in Seq(Blocks)
    BY DEF Pins
  <2> QED BY <2>1, <2>2, HeldIs
<1>5. /\ phase \in [Requests -> {"waiting", "parked", "loaded", "ready", "running", "draining", "done"}]
      /\ quorum \subseteq Digests /\ fence \in [Digests -> Optional(Requests)]
      /\ errors \in [Ranks -> SUBSET Blocks] /\ finished \in [Ranks -> SUBSET Requests]
      /\ \A r \in Ranks : taken[r] = None \/ taken[r] \in SUBSET Requests
      /\ acks \in [Requests -> SUBSET Ranks] /\ bad \subseteq Requests
      /\ content \in [Blocks -> SUBSET Digests]
  BY <1>1 DEF Typed, JInv, Optional
<1> QED BY <1>2, <1>3, <1>4, <1>5 DEF TypeOK

\* Followers, leaders and flights name each other.
LEMMA LinksHold ==
    ASSUME IInv, JInv
    PROVE  Linked
<1>1. /\ Book(conn) /\ LeadersOK(conn) /\ BoundOK(conn)
      /\ LeadsTied(conn) /\ FollowersTied(conn) /\ KeysTied(conn)
  BY DEF IInv, Book, JInv, Ledger
<1>2. ASSUME NEW q \in Requests, conn.bound[q] # None
      PROVE  LET f == conn.flights[conn.bound[q].flight]
             IN  /\ f # None /\ q \in f.followers
                 /\ conn.bound[q].lease = IF f.lease # None THEN f.lease
                                          ELSE LeaseKey(conn, conn.bound[q].flight)
  <2> DEFINE d == conn.bound[q].flight
             f == conn.flights[d]
  <2>1. d \in Digests
    BY <1>1, <1>2, ConnParts DEF Book, Bindings
  <2>2. f # None /\ q \in f.followers /\ conn.bound[q].lease = LeaseKey(conn, d)
    BY <1>1, <1>2 DEF BoundOK, KeysTied
  <2>3. f.lease \in {None, LeaseKey(conn, d)}
    BY <1>1, <2>1, <2>2 DEF KeysTied
  <2> QED BY <2>2, <2>3
<1>3. \A d \in Live(conn) :
         /\ \A q \in conn.flights[d].followers :
              conn.bound[q] # None /\ conn.bound[q].flight = d
         /\ ~conn.flights[d].gone => conn.leads[conn.flights[d].leader] = d
  BY <1>1, PublishedIs DEF FollowersTied, LeadsTied
<1>4. \A q \in Requests : conn.leads[q] # None =>
         conn.flights[conn.leads[q]] # None /\ conn.flights[conn.leads[q]].leader = q
  BY <1>1 DEF LeadersOK
<1> QED BY <1>2, <1>3, <1>4 DEF Linked

\* A published lease is of a finished flight, for its entry or its restored segment.
LEMMA LeasesHold ==
    ASSUME IInv, JInv
    PROVE  LeaseVerified
<1>1. SUFFICES ASSUME NEW d \in Published(conn)
               PROVE  LET f == conn.flights[d]
                      IN  f.done /\ f.lease \in {d, load[f.leader].segment}
  BY DEF LeaseVerified
<1> DEFINE f == conn.flights[d]
<1>2. d \in Digests /\ f # None /\ f.lease # None
  BY PublishedIs
<1>3. f.done /\ f.dispatched
  BY <1>2, FlightIs DEF IInv, FlightOK
<1>4. f.lease = LeaseKey(conn, d)
  BY <1>2 DEF JInv, Ledger, KeysTied
<1>5. f.segment \in {None, load[f.leader].segment}
  BY <1>2, <1>3 DEF JInv, FlightsAt, SentAt
<1> QED BY <1>3, <1>4, <1>5 DEF LeaseKey

\* The tables keep their limits.
LEMMA LimitsHold ==
    ASSUME IInv, JInv
    PROVE  Bounded
BY PublishedIs DEF JInv, Ledger, Limits, LeasesLimited, PinsSpread, Bounded

\* With one pending restore at a time, no leader of a finished flight waits.
LEMMA NobodyWaits ==
    ASSUME JInv, MaxPendingRestores = 1
    PROVE  NobodyStranded
BY PublishedIs DEF JInv, FlightsAt, MovingAt, NobodyStranded

\* The two invariants together imply Coherent.
LEMMA TablesCohere == IInv /\ JInv => Coherent
BY TypesHold, LinksHold, LeasesHold, LimitsHold, NobodyWaits DEF Coherent

\* The scheduler's tables of flights, leaders, followers and leases
\* (get_num_new_matched_tokens, _join_segment_restore_flight, request_finished,
\* shared_prefix_lease_published, update_connector_output) agree in every reachable
\* state, for any number of requests, entries, ranks and blocks and any limits.
THEOREM TablesAgree == Spec => []Coherent
<1>1. Init => IInv /\ JInv
  BY InitHolds, InitLedger
<1>2. IInv /\ JInv /\ [Next]_vars => (IInv /\ JInv)'
  BY NextKeeps, NextMoves
<1>3. IInv /\ JInv => Coherent
  BY TablesCohere
<1> QED BY <1>1, <1>2, <1>3, PTL DEF Spec
=============================================================================
