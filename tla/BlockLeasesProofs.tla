-------------------------- MODULE BlockLeasesProofs --------------------------
(***************************************************************************)
(* TLAPS proofs about BlockLeases, for any set of threads, requests and    *)
(* blocks, and that it implements BlockGuard.                              *)
(*                                                                         *)
(* That blocks stay leased while they are read is not inductive: a thread  *)
(* releases leases it asked about earlier, outside the lock.  The          *)
(* strengthening (CallOK) says what a thread may still believe about the   *)
(* leases it collected: none of them is reserved or new, so none can start *)
(* a gather again, and the ones it takes for complete are not read.        *)
(***************************************************************************)
EXTENDS BlockLeases, TLAPS

\* Lease numbers from _next_id on are unused, and only those.
Numbered == \A i \in Ids : i >= nextId <=> lease[i].state = "unused"

Requested == \A i \in Ids : lease[i].state # "unused" => lease[i].req \in Requests

\* A lease that was submitted with a fence stays so until it is released.
Fenced(i) == lease[i].state \in {"armed", "released"}

CallOK(t) ==
    /\ \A i \in thread[t].todo \cup thread[t].done : Fenced(i)
    /\ \A i \in thread[t].done : i \notin reading
    /\ \A i \in thread[t].scope : lease[i].state # "unused"
    /\ thread[t].wait =>
         \A i \in thread[t].scope :
            lease[i].state = "released" \/ i \in thread[t].todo \cup thread[t].done
    /\ thread[t].pc \notin {"poll", "abort"} => thread[t].todo = {} /\ thread[t].done = {}
    /\ thread[t].pc = "next" \/ thread[t].rest # {} => thread[t].wait
    /\ thread[t].pc = "poll" => ~thread[t].wait

FreedQuiet ==
    \A r \in freed : r \in ended /\ \A i \in Ids : lease[i].req = r => i \notin Active

IInv ==
    /\ TypeOK /\ Indexed /\ ReadsLeased /\ Numbered /\ Requested /\ FreedQuiet
    /\ \A t \in Threads : CallOK(t)

\* What a step may do to a lease: it never goes back, and a fenced one is not
\* read anew.
Evolves ==
    \A i \in Ids :
        /\ Fenced(i) => Fenced(i)'
        /\ lease[i].state = "released" => lease'[i].state = "released"
        /\ lease[i].state # "unused" => lease'[i].state # "unused"
        /\ Fenced(i) /\ i \in reading' => i \in reading
-----------------------------------------------------------------------------
\* The state after Release(S), spelled out.
LEMMA ReleaseEffect ==
  ASSUME TypeOK, NEW S, S \subseteq Active, Release(S)
  PROVE  /\ lease' \in [Ids -> [state : States, req : Requests \cup {Free}, blocks : SUBSET Blocks]]
         /\ byRequest' \in [Requests -> SUBSET Ids]
         /\ owner' \in [Blocks -> Nat]
         /\ Active' = Active \ S
         /\ \A i \in Ids : /\ lease'[i].req = lease[i].req
                           /\ lease'[i].blocks = lease[i].blocks
                           /\ i \in S => lease'[i].state = "released"
                           /\ i \notin S => lease'[i].state = lease[i].state
<1>1. \A i \in Ids : /\ lease'[i].req = lease[i].req
                     /\ lease'[i].blocks = lease[i].blocks
                     /\ i \in S => lease'[i].state = "released"
                     /\ i \notin S => lease'[i].state = lease[i].state
  BY DEF TypeOK, Release
<1>2. lease' \in [Ids -> [state : States, req : Requests \cup {Free}, blocks : SUBSET Blocks]]
  BY DEF TypeOK, Release, States
<1>3. byRequest' \in [Requests -> SUBSET Ids] /\ owner' \in [Blocks -> Nat]
  BY DEF TypeOK, Release
<1>4. Active' = Active \ S
  BY <1>1 DEF Active
<1> QED BY <1>1, <1>2, <1>3, <1>4

\* _release_locked of complete or unsubmitted leases keeps the registry right.
LEMMA ReleaseKeeps ==
  ASSUME IInv, NEW S, S \subseteq Active, S \cap reading = {}, Release(S),
         UNCHANGED <<nextId, reading, ended, freed>>
  PROVE  /\ Indexed' /\ ReadsLeased' /\ Numbered' /\ Requested' /\ FreedQuiet'
         /\ Evolves
<1> USE ReleaseEffect
<1>1. TypeOK BY DEF IInv
<1>2. Indexed'
  <2>1. ASSUME NEW r \in Requests
        PROVE  byRequest'[r] = {i \in Active' : lease'[i].req = r}
    BY <1>1, <2>1 DEF IInv, Indexed, Release, TypeOK, Active
  <2>2. ASSUME NEW b \in Blocks
        PROVE  owner'[b] = 0 \/ owner'[b] \in Ids
    BY <1>1, <2>2 DEF IInv, Indexed, Release, TypeOK
  <2>3. ASSUME NEW b \in Blocks, NEW i \in Ids
        PROVE  owner'[b] = i <=> i \in Active' /\ b \in lease'[i].blocks
    <3>1. owner[b] = i <=> i \in Active /\ b \in lease[i].blocks
      BY DEF IInv, Indexed
    <3>2. i # 0 BY DEF Ids
    <3>3. lease'[i].blocks = lease[i].blocks /\ Active' = Active \ S
      BY <1>1
    <3>4. CASE \E j \in S : b \in lease[j].blocks
      <4>1. PICK j \in S : b \in lease[j].blocks BY <3>4
      <4>2. j \in Ids /\ owner[b] = j
        BY <4>1 DEF IInv, Indexed, Active
      <4>3. owner'[b] = 0 BY <3>4 DEF Release
      <4> QED BY <3>1, <3>2, <3>3, <4>1, <4>2, <4>3
    <3>5. CASE ~ \E j \in S : b \in lease[j].blocks
      <4>1. owner'[b] = owner[b] BY <3>5 DEF Release
      <4> QED BY <3>1, <3>3, <3>5, <4>1
    <3> QED BY <3>4, <3>5
  <2> QED BY <2>1, <2>2, <2>3 DEF Indexed
<1>3. ReadsLeased'
  BY <1>1 DEF IInv, ReadsLeased, In, TypeOK
<1>4. Numbered' /\ Requested'
  BY <1>1 DEF IInv, Numbered, Requested, Active
<1>5. FreedQuiet'
  BY <1>1 DEF IInv, FreedQuiet, TypeOK
<1>6. Evolves
  BY <1>1 DEF Evolves, Fenced, Active
<1> QED BY <1>2, <1>3, <1>4, <1>5, <1>6

\* A thread that takes no step keeps its beliefs.
LEMMA CallKept ==
  ASSUME IInv, Evolves, NEW t \in Threads, thread'[t] = thread[t]
  PROVE  CallOK(t)'
<1>1. CallOK(t) /\ thread[t] \in Calls BY DEF IInv, TypeOK
<1> QED BY <1>1 DEF CallOK, Evolves, Fenced, Calls

\* A step that leaves the registry and the GPU alone.
LEMMA Still ==
  ASSUME IInv, UNCHANGED <<registry, reading>>
  PROVE  Indexed' /\ ReadsLeased' /\ Numbered' /\ Requested' /\ Evolves
<1> USE DEF registry
<1>1. Active' = Active BY DEF Active
<1>2. Indexed' BY <1>1 DEF IInv, Indexed
<1>3. ReadsLeased' BY DEF IInv, ReadsLeased, In
<1>4. Numbered' /\ Requested' BY DEF IInv, Numbered, Requested
<1>5. Evolves BY DEF Evolves, Fenced
<1> QED BY <1>2, <1>3, <1>4, <1>5

LEMMA StillFreed ==
  ASSUME IInv, UNCHANGED <<registry, freed>>, ended \subseteq ended'
  PROVE  FreedQuiet'
<1>1. Active' = Active BY DEF Active, registry
<1> QED BY <1>1 DEF IInv, FreedQuiet, registry

-----------------------------------------------------------------------------
LEMMA Initial == Init => IInv
<1> SUFFICES ASSUME Init PROVE IInv OBVIOUS
<1> USE DEF Init
<1>0. \A i \in Ids : lease[i] = [state |-> "unused", req |-> Free, blocks |-> {}]
  OBVIOUS
<1>1. TypeOK
  <2>1. lease \in [Ids -> [state : States, req : Requests \cup {Free}, blocks : SUBSET Blocks]]
    BY <1>0 DEF States
  <2>2. thread \in [Threads -> Calls] BY DEF Calls, Idle
  <2> QED BY <2>1, <2>2 DEF TypeOK
<1>2. Active = {} BY <1>0 DEF Active
<1>3. Indexed BY <1>2 DEF Indexed, Ids
<1>4. ReadsLeased BY DEF ReadsLeased
<1>5. Numbered /\ Requested BY <1>0, LeaseConstants DEF Numbered, Requested, Ids
<1>6. FreedQuiet BY DEF FreedQuiet
<1>7. \A t \in Threads : CallOK(t) BY DEF CallOK, Idle
<1> QED BY <1>1, <1>3, <1>4, <1>5, <1>6, <1>7 DEF IInv

\* try_reserve takes unused numbers and unowned blocks.
LEMMA ReserveKeeps ==
  ASSUME IInv, NEW r \in Requests, NEW B \in SUBSET Blocks, TryReserve(r, B)
  PROVE  IInv'
<1> DEFINE n == nextId
<1> USE DEF TryReserve
<1>1. TypeOK /\ n \in Ids /\ lease[n].state = "unused"
  BY DEF IInv, TypeOK, Numbered, Ids
<1>2. /\ lease'[n] = [state |-> "reserved", req |-> r, blocks |-> B]
      /\ \A i \in Ids \ {n} : lease'[i] = lease[i]
  BY <1>1 DEF TypeOK
<1>3. TypeOK' BY <1>1 DEF TypeOK, States, Ids
<1>4. Active' = Active \cup {n} /\ n \notin Active BY <1>1, <1>2 DEF Active
<1>5. Indexed'
  <2>1. ASSUME NEW q \in Requests
        PROVE  byRequest'[q] = {i \in Active' : lease'[i].req = q}
    <3>1. byRequest[q] = {i \in Active : lease[i].req = q} BY DEF IInv, Indexed
    <3>2. Active \subseteq Ids BY DEF Active
    <3>3. byRequest'[q] = IF q = r THEN byRequest[q] \cup {n} ELSE byRequest[q]
      BY <1>1 DEF TypeOK
    <3> QED BY <1>2, <1>4, <3>1, <3>2, <3>3
  <2>2. ASSUME NEW b \in Blocks
        PROVE  owner'[b] = 0 \/ owner'[b] \in Ids
    BY <1>1 DEF IInv, Indexed
  <2>3. ASSUME NEW b \in Blocks, NEW i \in Ids
        PROVE  owner'[b] = i <=> i \in Active' /\ b \in lease'[i].blocks
    <3>1. \A j \in Ids : owner[b] = j <=> j \in Active /\ b \in lease[j].blocks
      BY DEF IInv, Indexed
    <3>2. owner'[b] = IF b \in B THEN n ELSE owner[b] OBVIOUS
    <3>3. b \in B => owner[b] = 0 OBVIOUS
    <3>4. i # 0 BY DEF Ids
    <3>5. CASE i = n BY <1>1, <1>2, <1>4, <3>1, <3>2, <3>5
    <3>6. CASE i # n BY <1>2, <1>4, <3>1, <3>2, <3>3, <3>4, <3>6
    <3> QED BY <3>5, <3>6
  <2> QED BY <2>1, <2>2, <2>3 DEF Indexed
<1>6. ReadsLeased' BY <1>1, <1>2 DEF IInv, ReadsLeased, In, TypeOK
<1>7. Numbered'
  BY <1>1, <1>2 DEF IInv, Numbered, TypeOK, Ids
<1>8. Requested' BY <1>2 DEF IInv, Requested
<1>9. FreedQuiet'
  <2>1. ASSUME NEW q \in freed PROVE q \in ended /\ q # r BY DEF IInv, FreedQuiet
  <2> QED BY <1>2, <1>4, <2>1 DEF IInv, FreedQuiet
<1>10. Evolves BY <1>1, <1>2 DEF Evolves, Fenced
<1>11. \A t \in Threads : CallOK(t)' BY <1>10, CallKept
<1> QED BY <1>3, <1>5, <1>6, <1>7, <1>8, <1>9, <1>11 DEF IInv

\* submit arms a reserved lease: no thread can have collected it before.
LEMMA SubmitKeeps ==
  ASSUME IInv, NEW i \in Ids, NEW raises \in BOOLEAN, NEW enqueued \in BOOLEAN,
         Submit(i, raises, enqueued)
  PROVE  IInv'
<1> USE DEF Submit
<1>1. TypeOK /\ lease[i].state = "reserved" BY DEF IInv
<1>2. /\ lease'[i].state \in {"armed", "unknown"}
      /\ \A j \in Ids : lease'[j].req = lease[j].req /\ lease'[j].blocks = lease[j].blocks
      /\ \A j \in Ids \ {i} : lease'[j] = lease[j]
  BY <1>1 DEF TypeOK
<1>3. TypeOK'
  <2>1. lease' \in [Ids -> [state : States, req : Requests \cup {Free}, blocks : SUBSET Blocks]]
    BY <1>1 DEF TypeOK, States
  <2> QED BY <1>1, <2>1 DEF TypeOK
<1>4. Active' = Active BY <1>1, <1>2 DEF Active
<1>5. Indexed' BY <1>2, <1>4 DEF IInv, Indexed, Active
<1>6. ReadsLeased' BY <1>1, <1>2 DEF IInv, ReadsLeased, In, TypeOK
<1>7. Numbered' /\ Requested' BY <1>1, <1>2 DEF IInv, Numbered, Requested
<1>8. FreedQuiet' BY <1>2, <1>4 DEF IInv, FreedQuiet
<1>9. Evolves BY <1>1, <1>2 DEF Evolves, Fenced
<1>10. \A t \in Threads : CallOK(t)' BY <1>9, CallKept
<1> QED BY <1>3, <1>5, <1>6, <1>7, <1>8, <1>10 DEF IInv

LEMMA CompleteKeeps ==
  ASSUME IInv, NEW i \in Ids, GatherCompletes(i)
  PROVE  IInv'
<1> USE DEF GatherCompletes, registry
<1>1. TypeOK' BY DEF IInv, TypeOK
<1>2. Active' = Active BY DEF Active
<1>3. Indexed' /\ FreedQuiet' BY <1>2 DEF IInv, Indexed, FreedQuiet
<1>4. ReadsLeased' BY DEF IInv, ReadsLeased, In
<1>5. Numbered' /\ Requested' BY DEF IInv, Numbered, Requested
<1>6. Evolves BY DEF Evolves, Fenced
<1>7. \A t \in Threads : CallOK(t)' BY <1>6, CallKept
<1> QED BY <1>1, <1>3, <1>4, <1>5, <1>7 DEF IInv

LEMMA CancelKeeps ==
  ASSUME IInv, NEW i \in Ids, CancelBeforeSubmit(i)
  PROVE  IInv'
<1> USE DEF CancelBeforeSubmit
<1>1. {i} \subseteq Active /\ {i} \cap reading = {}
  BY DEF IInv, Active, ReadsLeased, In
<1>2. TypeOK' BY <1>1, ReleaseEffect DEF IInv, TypeOK
<1>3. Indexed' /\ ReadsLeased' /\ Numbered' /\ Requested' /\ FreedQuiet' /\ Evolves
  BY <1>1, ReleaseKeeps
<1>4. \A t \in Threads : CallOK(t)' BY <1>3, CallKept
<1> QED BY <1>2, <1>3, <1>4 DEF IInv

-----------------------------------------------------------------------------
(* The steps of a thread: what the thread knows afterwards. *)

\* The other threads know what they knew.
LEMMA OthersKept ==
  ASSUME IInv, Evolves, NEW t \in Threads, NEW c \in Calls,
         thread' = [thread EXCEPT ![t] = c], CallOK(t)'
  PROVE  thread' \in [Threads -> Calls] /\ \A u \in Threads : CallOK(u)'
<1>1. thread \in [Threads -> Calls] BY DEF IInv, TypeOK
<1>2. ASSUME NEW u \in Threads, u # t PROVE CallOK(u)'
  BY <1>1, <1>2, CallKept
<1> QED BY <1>1, <1>2

\* A thread outside every call knows nothing.
LEMMA IdleOK == Idle \in Calls /\ \A t \in Threads : thread'[t] = Idle => CallOK(t)'
BY DEF Idle, Calls, CallOK

LEMMA PollKeeps ==
  ASSUME IInv, NEW t \in Threads, NEW take \in BOOLEAN, Poll(t, take)
  PROVE  IInv'
<1> DEFINE c == [Idle EXCEPT !.pc = "poll", !.todo = In("armed"), !.take = take]
<1> USE DEF Poll
<1>1. TypeOK BY DEF IInv
<1>2. c \in Calls BY DEF Calls, Idle, In
<1>3. thread'[t] = c BY <1>1 DEF TypeOK
<1>4. /\ c.todo = In("armed") /\ c.done = {} /\ c.scope = {} /\ c.wait = FALSE
      /\ c.pc = "poll" /\ c.rest = {}
  BY DEF Idle
<1> HIDE DEF c
<1>5. Indexed' /\ ReadsLeased' /\ Numbered' /\ Requested' /\ Evolves BY Still
<1>6. FreedQuiet' BY StillFreed
<1>7. \A i \in In("armed") : Fenced(i)' BY DEF In, Fenced, registry
<1>8. CallOK(t)' BY <1>3, <1>4, <1>7 DEF CallOK
<1>9. thread' \in [Threads -> Calls] /\ \A u \in Threads : CallOK(u)'
  BY <1>2, <1>5, <1>8, OthersKept DEF c
<1>10. TypeOK' BY <1>1, <1>9 DEF TypeOK, registry
<1> QED BY <1>5, <1>6, <1>9, <1>10 DEF IInv

\* Asking about a fence: a lease counts as complete only if it is not read, and a
\* fenced lease is not read again.
LEMMA AskKeeps ==
  ASSUME IInv, NEW t \in Threads, NEW i \in Ids, Ask(t, i) \/ Synchronize(t, i)
  PROVE  IInv'
<1> DEFINE d == IF i \in reading THEN thread[t].done ELSE thread[t].done \cup {i}
           c == [thread[t] EXCEPT !.todo = @ \ {i}, !.done = d]
<1> USE DEF Ask, Synchronize
<1>1. TypeOK /\ thread[t] \in Calls /\ CallOK(t) BY DEF IInv, TypeOK
<1>2. /\ i \in thread[t].todo /\ UNCHANGED <<registry, reading, ended, freed>>
      /\ thread[t].wait => i \notin reading
      /\ thread[t].pc \in {"poll", "abort"}
  BY <1>1 DEF CallOK
<1>3. thread' = [thread EXCEPT ![t] = c]
  BY <1>1 DEF TypeOK, Calls
<1>4. c \in Calls BY <1>1 DEF Calls
<1>5. thread'[t] = c BY <1>1, <1>3 DEF TypeOK
<1>6. /\ c.todo = thread[t].todo \ {i} /\ c.done = d /\ c.scope = thread[t].scope
      /\ c.wait = thread[t].wait /\ c.pc = thread[t].pc /\ c.rest = thread[t].rest
  BY <1>1 DEF Calls
<1>7. Indexed' /\ ReadsLeased' /\ Numbered' /\ Requested' /\ Evolves BY <1>2, Still
<1>8. FreedQuiet' BY <1>2, StillFreed
<1>9. CallOK(t)'
  <2>1. lease' = lease /\ reading' = reading BY <1>2 DEF registry
  <2>2. d \subseteq thread[t].done \cup {i} /\ \A j \in d : j \notin reading
    BY <1>1 DEF CallOK
  <2>3. \A j \in c.todo \cup c.done : Fenced(j)' BY <1>1, <1>2, <1>6, <2>1, <2>2 DEF CallOK, Fenced
  <2>4. \A j \in c.done : j \notin reading' BY <1>6, <2>1, <2>2
  <2>5. \A j \in c.scope : lease'[j].state # "unused" BY <1>1, <1>6, <2>1 DEF CallOK
  <2>6. c.wait => \A j \in c.scope : lease'[j].state = "released" \/ j \in c.todo \cup c.done
    BY <1>1, <1>2, <1>6, <2>1 DEF CallOK
  <2>7. (c.pc = "next" \/ c.rest # {} => c.wait) /\ (c.pc = "poll" => ~c.wait)
    BY <1>1, <1>6 DEF CallOK
  <2> HIDE DEF c
  <2> QED BY <1>2, <1>5, <1>6, <2>3, <2>4, <2>5, <2>6, <2>7 DEF CallOK
<1>10. thread' \in [Threads -> Calls] /\ \A u \in Threads : CallOK(u)'
  <2> HIDE DEF c
  <2> QED BY <1>3, <1>4, <1>7, <1>9, OthersKept
<1>11. TypeOK' BY <1>1, <1>2, <1>10 DEF TypeOK, registry
<1> QED BY <1>7, <1>8, <1>10, <1>11 DEF IInv

\* A call that is over, or has failed.
LEMMA LeaveKeeps ==
  ASSUME IInv, NEW t \in Threads, FenceFails(t) \/ Return(t)
  PROVE  IInv'
<1> USE DEF FenceFails, Return
<1>1. TypeOK /\ thread' = [thread EXCEPT ![t] = Idle] BY DEF IInv
<1>2. Indexed' /\ ReadsLeased' /\ Numbered' /\ Requested' /\ Evolves BY Still
<1>3. FreedQuiet' BY StillFreed
<1>4. CallOK(t)' BY <1>1, IdleOK DEF TypeOK
<1>5. thread' \in [Threads -> Calls] /\ \A u \in Threads : CallOK(u)'
  BY <1>1, <1>2, <1>4, IdleOK, OthersKept
<1>6. TypeOK' BY <1>1, <1>5 DEF TypeOK, registry
<1> QED BY <1>2, <1>3, <1>5, <1>6 DEF IInv

LEMMA TakeKeeps ==
  ASSUME IInv, NEW t \in Threads, TakeFinished(t)
  PROVE  IInv'
<1> USE DEF TakeFinished
<1>1. TypeOK /\ thread' = [thread EXCEPT ![t] = Idle] BY DEF IInv
<1>2. Indexed' /\ ReadsLeased' /\ Numbered' /\ Requested' /\ Evolves BY Still
<1>3. FreedQuiet'
  <2>1. Active' = Active /\ lease' = lease /\ Active \subseteq Ids BY DEF Active, registry
  <2>2. ASSUME NEW r \in ended, byRequest[r] = {}
        PROVE  \A i \in Ids : lease[i].req = r => i \notin Active
    BY <1>1, <2>2 DEF IInv, Indexed, TypeOK
  <2> QED BY <2>1, <2>2 DEF IInv, FreedQuiet
<1>4. CallOK(t)' BY <1>1, IdleOK DEF TypeOK
<1>5. thread' \in [Threads -> Calls] /\ \A u \in Threads : CallOK(u)'
  BY <1>1, <1>2, <1>4, IdleOK, OthersKept
<1>6. TypeOK' BY <1>1, <1>5 DEF TypeOK, registry
<1> QED BY <1>2, <1>3, <1>5, <1>6 DEF IInv

LEMMA EndKeeps ==
  ASSUME IInv, NEW r \in Requests, RequestEnds(r)
  PROVE  IInv'
<1> USE DEF RequestEnds
<1>1. Indexed' /\ ReadsLeased' /\ Numbered' /\ Requested' /\ Evolves BY Still
<1>2. FreedQuiet' BY StillFreed
<1>3. TypeOK' BY DEF IInv, TypeOK, registry
<1>4. \A t \in Threads : CallOK(t)' BY <1>1, CallKept
<1> QED BY <1>1, <1>2, <1>3, <1>4 DEF IInv

\* poll releases the leases it asked about, those another thread released
\* meanwhile excepted.
LEMMA PollReleasesKeeps ==
  ASSUME IInv, NEW t \in Threads, PollReleases(t)
  PROVE  IInv'
<1> DEFINE S == thread[t].done \cap Active
           c == IF thread[t].take THEN [Idle EXCEPT !.pc = "take"] ELSE Idle
<1> USE DEF PollReleases
<1>1. TypeOK /\ thread[t] \in Calls /\ CallOK(t) BY DEF IInv, TypeOK
<1>2. S \subseteq Active /\ S \cap reading = {} /\ Release(S) BY <1>1 DEF CallOK
<1> HIDE DEF S
<1>3. Indexed' /\ ReadsLeased' /\ Numbered' /\ Requested' /\ FreedQuiet' /\ Evolves
  BY <1>2, ReleaseKeeps
<1>4. c \in Calls BY DEF Idle, Calls
<1>5. thread'[t] = c BY <1>1 DEF TypeOK
<1>6. /\ c.todo = {} /\ c.done = {} /\ c.scope = {} /\ c.wait = FALSE /\ c.rest = {}
      /\ c.pc \in {"take", "idle"}
  BY DEF Idle
<1> HIDE DEF c
<1>7. CallOK(t)' BY <1>5, <1>6 DEF CallOK
<1>8. thread' \in [Threads -> Calls] /\ \A u \in Threads : CallOK(u)'
  BY <1>3, <1>4, <1>7, OthersKept DEF c
<1>9. TypeOK' BY <1>1, <1>2, <1>8, ReleaseEffect DEF TypeOK
<1> QED BY <1>3, <1>8, <1>9 DEF IInv

\* The first critical section of an abort: every lease of the request is
\* released, collected for draining, or stops the abort.
LEMMA StartAbortKeeps ==
  ASSUME IInv, NEW t \in Threads, NEW r \in Requests, NEW wait \in BOOLEAN,
         NEW scope \in SUBSET Ids, NEW rest \in SUBSET Requests,
         StartAbort(t, r, wait, scope, rest),
         rest # {} => wait,
         \A i \in scope : lease[i].state = "released"
  PROVE  IInv'
<1> DEFINE mine == byRequest[r]
           S == mine \cap In("reserved")
           a == [Idle EXCEPT !.pc = "abort", !.todo = mine \cap In("armed"),
                             !.wait = wait, !.scope = scope \cup mine, !.rest = rest]
           c == IF mine \cap In("unknown") # {} THEN Idle ELSE a
<1> USE DEF StartAbort
<1>1. TypeOK BY DEF IInv
<1>2. Release(S) /\ thread' = [thread EXCEPT ![t] = c]
      /\ UNCHANGED <<nextId, reading, ended, freed>>
  OBVIOUS
<1>3. mine \subseteq Active /\ mine \subseteq Ids
  BY <1>1 DEF IInv, Indexed, TypeOK
<1>4. S \subseteq Active /\ S \cap reading = {} BY <1>3 DEF IInv, ReadsLeased, In
<1>5. Indexed' /\ ReadsLeased' /\ Numbered' /\ Requested' /\ FreedQuiet' /\ Evolves
  <2> HIDE DEF S
  <2> QED BY <1>2, <1>4, ReleaseKeeps
<1>6. a \in Calls BY <1>3 DEF Idle, Calls, In
<1>7. c \in Calls BY <1>6, IdleOK
<1>8. thread'[t] = c BY <1>1, <1>2 DEF TypeOK
<1>9. CallOK(t)'
  <2>1. CASE mine \cap In("unknown") # {} BY <1>8, <2>1, IdleOK
  <2>2. CASE mine \cap In("unknown") = {}
    <3>1. /\ a.todo = mine \cap In("armed") /\ a.done = {} /\ a.scope = scope \cup mine
          /\ a.wait = wait /\ a.rest = rest /\ a.pc = "abort"
      BY DEF Idle
    <3>2. thread'[t] = a BY <1>8, <2>2
    <3>3. \A i \in Ids : /\ i \in S => lease'[i].state = "released"
                         /\ i \notin S => lease'[i].state = lease[i].state
      <4> HIDE DEF S
      <4> QED BY <1>1, <1>2, <1>4, ReleaseEffect
    <3>4. \A i \in mine : i \in S \/ i \in In("armed")
      BY <1>3, <2>2 DEF Active, In
    <3>5. \A i \in a.todo \cup a.done : Fenced(i)'
      BY <1>3, <3>1, <3>3 DEF Fenced, In
    <3>6. \A i \in a.scope : lease'[i].state # "unused"
      BY <1>3, <3>1, <3>3 DEF Active
    <3>7. \A i \in a.scope : lease'[i].state = "released" \/ i \in a.todo \cup a.done
      BY <1>3, <3>1, <3>3, <3>4
    <3> HIDE DEF a, S
    <3> QED BY <3>1, <3>2, <3>5, <3>6, <3>7 DEF CallOK
  <2> QED BY <2>1, <2>2
<1>10. thread' \in [Threads -> Calls] /\ \A u \in Threads : CallOK(u)'
  <2> HIDE DEF c, S
  <2> QED BY <1>2, <1>5, <1>7, <1>9, OthersKept
<1>11. TypeOK'
  <2> HIDE DEF c, S
  <2> QED BY <1>1, <1>2, <1>4, <1>10, ReleaseEffect DEF TypeOK
<1> QED BY <1>5, <1>10, <1>11 DEF IInv

LEMMA AbortRequestKeeps ==
  ASSUME IInv, NEW t \in Threads, NEW r \in Requests, NEW wait \in BOOLEAN,
         AbortRequest(t, r, wait)
  PROVE  IInv'
<1>1. StartAbort(t, r, wait, {}, {}) BY DEF AbortRequest
<1> QED BY <1>1, StartAbortKeeps

LEMMA AbortAllKeeps ==
  ASSUME IInv, NEW t \in Threads, AbortAll(t)
  PROVE  IInv'
<1> DEFINE c == [Idle EXCEPT !.pc = "next", !.wait = TRUE,
                             !.rest = {r \in Requests : byRequest[r] # {}}]
<1> USE DEF AbortAll
<1>1. TypeOK BY DEF IInv
<1>2. c \in Calls BY DEF Calls, Idle
<1>3. thread'[t] = c BY <1>1 DEF TypeOK
<1>4. /\ c.todo = {} /\ c.done = {} /\ c.scope = {} /\ c.wait = TRUE /\ c.pc = "next"
  BY DEF Idle
<1> HIDE DEF c
<1>5. Indexed' /\ ReadsLeased' /\ Numbered' /\ Requested' /\ Evolves BY Still
<1>6. FreedQuiet' BY StillFreed
<1>7. CallOK(t)' BY <1>3, <1>4 DEF CallOK
<1>8. thread' \in [Threads -> Calls] /\ \A u \in Threads : CallOK(u)'
  BY <1>2, <1>5, <1>7, OthersKept DEF c
<1>9. TypeOK' BY <1>1, <1>8 DEF TypeOK, registry
<1> QED BY <1>5, <1>6, <1>8, <1>9 DEF IInv

LEMMA AbortNextKeeps ==
  ASSUME IInv, NEW t \in Threads, AbortNext(t)
  PROVE  IInv'
<1>1. TypeOK /\ thread[t] \in Calls /\ CallOK(t) BY DEF IInv, TypeOK
<1>2. thread[t].pc = "next" BY DEF AbortNext
<1>3. thread[t].wait /\ \A i \in thread[t].scope : lease[i].state = "released"
  BY <1>1, <1>2 DEF CallOK
<1>4. ASSUME NEW r \in thread[t].rest,
             StartAbort(t, r, TRUE, thread[t].scope, thread[t].rest \ {r})
      PROVE  IInv'
  <2>1. r \in Requests /\ thread[t].scope \in SUBSET Ids
        /\ thread[t].rest \ {r} \in SUBSET Requests
    BY <1>1 DEF Calls
  <2> QED BY <1>3, <1>4, <2>1, StartAbortKeeps
<1>5. ASSUME thread' = [thread EXCEPT ![t].pc = "returned"],
             UNCHANGED <<registry, reading, ended, freed>>
      PROVE  IInv'
  <2> DEFINE c == [thread[t] EXCEPT !.pc = "returned"]
  <2>1. c \in Calls BY <1>1 DEF Calls
  <2>2. thread' = [thread EXCEPT ![t] = c] /\ thread'[t] = c
    BY <1>1, <1>5 DEF TypeOK
  <2>3. /\ c.todo = {} /\ c.done = {} /\ c.scope = thread[t].scope /\ c.wait = thread[t].wait
        /\ c.pc = "returned" /\ c.rest = thread[t].rest
    BY <1>1, <1>2 DEF Calls, CallOK
  <2> HIDE DEF c
  <2>4. Indexed' /\ ReadsLeased' /\ Numbered' /\ Requested' /\ Evolves BY <1>5, Still
  <2>5. FreedQuiet' BY <1>5, StillFreed
  <2>6. CallOK(t)'
    <3>1. lease' = lease BY <1>5 DEF registry
    <3> QED BY <1>1, <1>3, <2>2, <2>3, <3>1 DEF CallOK
  <2>7. thread' \in [Threads -> Calls] /\ \A u \in Threads : CallOK(u)'
    BY <2>1, <2>2, <2>4, <2>6, OthersKept
  <2>8. TypeOK' BY <1>1, <1>5, <2>7 DEF TypeOK, registry
  <2> QED BY <2>4, <2>5, <2>7, <2>8 DEF IInv
<1> QED BY <1>4, <1>5 DEF AbortNext

LEMMA AbortReleasesKeeps ==
  ASSUME IInv, NEW t \in Threads, AbortReleases(t)
  PROVE  IInv'
<1> DEFINE S == thread[t].done \cap Active
           p == IF thread[t].rest = {} THEN "returned" ELSE "next"
           c == [thread[t] EXCEPT !.pc = p, !.done = {}]
<1> USE DEF AbortReleases
<1>1. TypeOK /\ thread[t] \in Calls /\ CallOK(t) BY DEF IInv, TypeOK
<1>2. S \subseteq Active /\ S \cap reading = {} /\ Release(S) BY <1>1 DEF CallOK
<1>3. thread[t].pc = "abort" /\ thread[t].todo = {}
      /\ UNCHANGED <<nextId, reading, ended, freed>>
  OBVIOUS
<1>4. thread' = [thread EXCEPT ![t] = c] BY <1>1 DEF TypeOK, Calls
<1>5. c \in Calls BY <1>1 DEF Calls
<1>6. thread'[t] = c BY <1>1, <1>4 DEF TypeOK
<1>7. /\ c.todo = {} /\ c.done = {} /\ c.scope = thread[t].scope /\ c.wait = thread[t].wait
      /\ c.pc \in {"returned", "next"} /\ c.rest = thread[t].rest
      /\ c.pc = "next" => c.rest # {}
  BY <1>1, <1>3 DEF Calls
<1>8. Indexed' /\ ReadsLeased' /\ Numbered' /\ Requested' /\ FreedQuiet' /\ Evolves
  <2> HIDE DEF S
  <2> QED BY <1>2, <1>3, ReleaseKeeps
<1>9. CallOK(t)'
  <2>1. \A i \in Ids : i \in S => lease'[i].state = "released"
    <3> HIDE DEF S
    <3> QED BY <1>1, <1>2, ReleaseEffect
  <2>2. \A i \in thread[t].done : i \in S \/ lease[i].state = "released"
    BY <1>1 DEF CallOK, Fenced, Active, Calls
  <2>3. thread[t].scope \subseteq Ids BY <1>1 DEF Calls
  <2>4. \A i \in c.scope : lease'[i].state # "unused"
    BY <1>1, <1>7, <1>8, <2>3 DEF CallOK, Evolves
  <2>5. c.wait => \A i \in c.scope : lease'[i].state = "released"
    BY <1>1, <1>3, <1>7, <1>8, <2>1, <2>2, <2>3 DEF CallOK, Evolves
  <2>6. c.rest # {} => c.wait BY <1>1, <1>7 DEF CallOK
  <2> HIDE DEF c
  <2> QED BY <1>6, <1>7, <2>4, <2>5, <2>6 DEF CallOK
<1>10. thread' \in [Threads -> Calls] /\ \A u \in Threads : CallOK(u)'
  <2> HIDE DEF c
  <2> QED BY <1>4, <1>5, <1>8, <1>9, OthersKept
<1>11. TypeOK'
  <2> HIDE DEF S, c
  <2> QED BY <1>1, <1>2, <1>3, <1>10, ReleaseEffect DEF TypeOK
<1> QED BY <1>8, <1>10, <1>11 DEF IInv

-----------------------------------------------------------------------------
\* IInv is an invariant: one case per action of Next.
LEMMA Invariance == Spec => []IInv
<1>1. Init => IInv BY Initial
<1>2. IInv /\ [Next]_vars => IInv'
  <2> SUFFICES ASSUME IInv, [Next]_vars PROVE IInv' OBVIOUS
  <2>1. CASE UNCHANGED vars
    <3>1. UNCHANGED <<registry, reading, thread, ended, freed>> BY <2>1 DEF vars
    <3>2. Indexed' /\ ReadsLeased' /\ Numbered' /\ Requested' /\ Evolves BY <3>1, Still
    <3>3. FreedQuiet' BY <3>1, StillFreed
    <3>4. \A t \in Threads : CallOK(t)' BY <3>1, <3>2, CallKept
    <3>5. TypeOK' BY <3>1 DEF IInv, TypeOK, registry
    <3> QED BY <3>2, <3>3, <3>4, <3>5 DEF IInv
  <2>2. ASSUME NEW r \in Requests, NEW B \in SUBSET Blocks, TryReserve(r, B) PROVE IInv'
    BY <2>2, ReserveKeeps
  <2>3. ASSUME NEW i \in Ids, NEW raises \in BOOLEAN, NEW enqueued \in BOOLEAN,
               Submit(i, raises, enqueued)
        PROVE  IInv'
    BY <2>3, SubmitKeeps
  <2>4. ASSUME NEW i \in Ids, CancelBeforeSubmit(i) \/ GatherCompletes(i) PROVE IInv'
    BY <2>4, CancelKeeps, CompleteKeeps
  <2>5. ASSUME NEW r \in Requests, RequestEnds(r) PROVE IInv'
    BY <2>5, EndKeeps
  <2>6. ASSUME NEW t \in Threads, NEW take \in BOOLEAN, Poll(t, take) PROVE IInv'
    BY <2>6, PollKeeps
  <2>7. ASSUME NEW t \in Threads, NEW i \in Ids, Ask(t, i) \/ Synchronize(t, i) PROVE IInv'
    BY <2>7, AskKeeps
  <2>8. ASSUME NEW t \in Threads, FenceFails(t) \/ Return(t) PROVE IInv'
    BY <2>8, LeaveKeeps
  <2>9. ASSUME NEW t \in Threads, PollReleases(t) \/ TakeFinished(t) PROVE IInv'
    BY <2>9, PollReleasesKeeps, TakeKeeps
  <2>10. ASSUME NEW t \in Threads, NEW r \in Requests, NEW wait \in BOOLEAN,
                AbortRequest(t, r, wait)
         PROVE  IInv'
    BY <2>10, AbortRequestKeeps
  <2>11. ASSUME NEW t \in Threads, AbortAll(t) \/ AbortNext(t) \/ AbortReleases(t) PROVE IInv'
    BY <2>11, AbortAllKeeps, AbortNextKeeps, AbortReleasesKeeps
  <2> QED BY <2>1, <2>2, <2>3, <2>4, <2>5, <2>6, <2>7, <2>8, <2>9, <2>10, <2>11 DEF Next
<1> QED BY <1>1, <1>2, PTL DEF Spec

\* _by_request and _block_owner always agree with the leases, so _release_locked
\* never raises "block lease ownership corrupted", and no thread ever sees a lease half
\* submitted.
THEOREM RegistryExact == Spec => []Registry
<1>1. IInv => Registry BY DEF IInv, Registry
<1> QED BY <1>1, Invariance, PTL

\* A block that the GPU reads is leased, however poll, cancel and abort of any
\* number of threads interleave.
THEOREM ReadsStayLeased == Spec => []ReadsLeased
<1>1. IInv => ReadsLeased BY DEF IInv
<1> QED BY <1>1, Invariance, PTL

\* When a waiting abort returns, nothing it found is leased or read.
LEMMA AbortIsComplete == Spec => []AbortDrains
<1>1. IInv => AbortDrains
  <2> SUFFICES ASSUME IInv, NEW t \in Threads, thread[t].pc = "returned", thread[t].wait,
                      NEW i \in thread[t].scope
               PROVE  i \notin Active /\ i \notin reading
    BY DEF AbortDrains
  <2>1. CallOK(t) /\ ReadsLeased BY DEF IInv
  <2>2. lease[i].state = "released" BY <2>1 DEF CallOK
  <2> QED BY <2>1, <2>2 DEF Active, ReadsLeased, In
<1> QED BY <1>1, Invariance, PTL

\* A request that take_finished reported has no lease and no gather.
LEMMA FreedIsUnread == Spec => []FreedUnread
<1>1. IInv => FreedUnread
  <2>1. ReadsLeased => reading \subseteq Active BY DEF ReadsLeased, In, Active
  <2> QED BY <2>1 DEF IInv, FreedQuiet, FreedUnread
<1> QED BY <1>1, Invariance, PTL

\* Whatever a waiting abort or take_finished says is over is over.
THEOREM SaidIsTrue == Spec => []SaidIsOver
BY AbortIsComplete, FreedIsUnread, PTL DEF SaidIsOver

-----------------------------------------------------------------------------
(* The refinement. *)

holderBar == [b \in Blocks |-> IF owner[b] = 0 THEN Free ELSE lease[owner[b]].req]
readBar == UNION {lease[i].blocks : i \in reading}

\* Where the mapped variables lie.
LEMMA HolderType == ASSUME IInv PROVE holderBar \in [Blocks -> Requests \cup {Free}]
<1> SUFFICES ASSUME NEW b \in Blocks, owner[b] # 0
             PROVE  lease[owner[b]].req \in Requests
  BY DEF holderBar
<1>1. owner[b] \in Ids BY DEF IInv, Indexed
<1>2. owner[b] \in Active BY <1>1 DEF IInv, Indexed
<1> QED BY <1>1, <1>2 DEF IInv, Requested, Active

\* Leases that nothing reads are released: the holders of their blocks are.
LEMMA ReleaseImplements ==
  ASSUME IInv, IInv', NEW S, S \subseteq Active, S \cap reading = {}, Release(S),
         UNCHANGED reading
  PROVE  Guard!Release
<1>1. TypeOK /\ Active \subseteq Ids BY DEF IInv, Active
<1>2. \A i \in Ids : lease'[i].req = lease[i].req /\ lease'[i].blocks = lease[i].blocks
  BY <1>1, ReleaseEffect
<1>3. holderBar' \in [Blocks -> Requests \cup {Free}]
  <2>1. holderBar \in [Blocks -> Requests \cup {Free}] BY HolderType
  <2>2. \A b \in Blocks : owner'[b] = 0 \/ (owner'[b] = owner[b] /\ owner[b] \in Ids)
    BY DEF IInv, Indexed, Release
  <2> QED BY <1>2, <2>1, <2>2 DEF holderBar
<1>4. ASSUME NEW b \in Blocks, holderBar'[b] # holderBar[b]
      PROVE  holderBar'[b] = Free /\ b \notin readBar
  <2>1. \E i \in S : b \in lease[i].blocks
    <3> SUFFICES ASSUME ~ \E i \in S : b \in lease[i].blocks PROVE FALSE OBVIOUS
    <3>1. owner'[b] = owner[b] /\ (owner[b] = 0 \/ owner[b] \in Ids)
      BY DEF Release, IInv, Indexed
    <3> QED BY <1>2, <1>4, <3>1 DEF holderBar
  <2>2. PICK i \in S : b \in lease[i].blocks BY <2>1
  <2>3. owner'[b] = 0 BY <2>1 DEF Release
  <2>4. holderBar'[b] = Free BY <2>3 DEF holderBar
  <2>5. ASSUME NEW j \in reading, b \in lease[j].blocks PROVE FALSE
    <3>1. j \in Active /\ j \in Ids BY <1>1 DEF IInv, ReadsLeased, In, Active
    <3>2. owner[b] = j /\ owner[b] = i
      BY <1>1, <2>2, <2>5, <3>1 DEF IInv, Indexed
    <3> QED BY <2>2, <2>5, <3>2
  <2> QED BY <2>4, <2>5 DEF readBar
<1>5. UNCHANGED readBar
  BY <1>1, <1>2 DEF readBar, TypeOK
<1> QED BY <1>3, <1>4, <1>5 DEF Guard!Release, holderBar, readBar

LEMMA AcquireImplements ==
  ASSUME IInv, IInv', NEW r \in Requests, NEW B \in SUBSET Blocks, TryReserve(r, B)
  PROVE  Guard!Acquire
<1> USE DEF TryReserve
<1>1. TypeOK /\ nextId \in Ids /\ lease[nextId].state = "unused"
  BY DEF IInv, TypeOK, Numbered, Ids
<1>2. \A i \in Ids \ {nextId} : lease'[i] = lease[i] BY <1>1 DEF TypeOK
<1>3. lease'[nextId].req = r BY <1>1 DEF TypeOK
<1>4. nextId \notin Active /\ nextId # 0 BY <1>1 DEF Active, Ids
<1>5. holderBar' \in [Blocks -> Requests \cup {Free}]
  <2>1. holderBar \in [Blocks -> Requests \cup {Free}] BY HolderType
  <2>2. ASSUME NEW b \in Blocks PROVE holderBar'[b] = IF b \in B THEN r ELSE holderBar[b]
    <3>1. owner[b] = 0 \/ (owner[b] \in Active /\ owner[b] \in Ids) BY DEF IInv, Indexed
    <3> QED BY <1>1, <1>2, <1>3, <1>4, <3>1 DEF holderBar
  <2>3. holderBar' = [b \in Blocks |-> holderBar'[b]] BY DEF holderBar
  <2> QED BY <2>1, <2>2, <2>3
<1>6. ASSUME NEW b \in Blocks, holderBar'[b] # holderBar[b] PROVE holderBar[b] = Free
  <2>1. CASE b \in B BY <2>1 DEF holderBar
  <2>2. CASE b \notin B
    <3>1. owner[b] = 0 \/ (owner[b] \in Active /\ owner[b] \in Ids) BY DEF IInv, Indexed
    <3>2. owner'[b] = owner[b] BY <2>2
    <3> QED BY <1>2, <1>4, <1>6, <3>1, <3>2 DEF holderBar
  <2> QED BY <2>1, <2>2
<1>7. UNCHANGED readBar
  <2>1. nextId \notin reading BY <1>4 DEF IInv, ReadsLeased, In, Active
  <2> QED BY <1>1, <1>2, <2>1 DEF readBar, TypeOK
<1> QED BY <1>5, <1>6, <1>7 DEF Guard!Acquire, holderBar, readBar

\* The blocks of a lease are held by its request.
LEMMA SubmitImplements ==
  ASSUME IInv, IInv', NEW i \in Ids, NEW raises \in BOOLEAN, NEW enqueued \in BOOLEAN,
         Submit(i, raises, enqueued)
  PROVE  Guard!StartRead
<1> USE DEF Submit
<1>1. TypeOK BY DEF IInv
<1>2. \A j \in Ids : lease'[j].req = lease[j].req /\ lease'[j].blocks = lease[j].blocks
  BY <1>1 DEF TypeOK
<1>3. UNCHANGED holderBar
  <2>1. \A b \in Blocks : owner'[b] = owner[b] /\ (owner[b] = 0 \/ owner[b] \in Ids)
    BY DEF IInv, Indexed
  <2> QED BY <1>2, <2>1 DEF holderBar
<1>4. readBar \subseteq readBar' BY <1>1, <1>2 DEF readBar, TypeOK
<1>5. ASSUME NEW b \in readBar' PROVE b \in Blocks /\ holderBar[b] # Free
  <2>1. PICK j \in reading' : b \in lease'[j].blocks BY DEF readBar
  <2>2. j \in Ids /\ b \in lease[j].blocks /\ b \in Blocks
    BY <1>1, <1>2, <2>1 DEF TypeOK
  <2>3. j \in Active BY <1>1, <2>1 DEF IInv, ReadsLeased, In, Active
  <2>4. owner[b] = j /\ j # 0 BY <2>2, <2>3 DEF IInv, Indexed, Ids
  <2>5. lease[j].req \in Requests BY <2>2, <2>3 DEF IInv, Requested, Active
  <2> QED BY <2>2, <2>4, <2>5, LeaseConstants DEF holderBar
<1> QED BY <1>3, <1>4, <1>5 DEF Guard!StartRead, holderBar, readBar

\* The registry implements BlockGuard: every step is one of its steps or changes
\* neither who holds a block nor what is read.
THEOREM ImplementsGuard == Spec => Guarded
<1>1. Init => Guard!Init BY DEF Init, Guard!Init
<1>2. IInv /\ IInv' /\ [Next]_vars => [Guard!Next]_<<holderBar, readBar>>
  <2> SUFFICES ASSUME IInv, IInv', [Next]_vars
               PROVE  Guard!Next \/ UNCHANGED <<holderBar, readBar>>
    OBVIOUS
  <2>a. UNCHANGED <<registry, reading>> => UNCHANGED <<holderBar, readBar>>
    BY DEF registry, holderBar, readBar
  <2>b. ASSUME NEW S, S \subseteq Active, S \cap reading = {}, Release(S), UNCHANGED reading
        PROVE  Guard!Next
    BY <2>b, ReleaseImplements DEF Guard!Next
  <2>c. ASSUME NEW t \in Threads, NEW r \in Requests, NEW wait, NEW scope, NEW rest,
               StartAbort(t, r, wait, scope, rest)
        PROVE  Guard!Next
    <3> DEFINE S == byRequest[r] \cap In("reserved")
    <3>1. Release(S) /\ UNCHANGED reading BY <2>c DEF StartAbort
    <3>2. S \subseteq Active /\ S \cap reading = {}
      BY DEF IInv, Indexed, ReadsLeased, In
    <3> HIDE DEF S
    <3> QED BY <2>b, <3>1, <3>2
  <2>d. ASSUME NEW t \in Threads
        PROVE  /\ thread[t].done \cap Active \cap reading = {}
               /\ thread[t].rest \subseteq Requests
    BY DEF IInv, CallOK, TypeOK, Calls
  <2>1. CASE UNCHANGED vars BY <2>1, <2>a DEF vars
  <2>2. ASSUME NEW r \in Requests, NEW B \in SUBSET Blocks, TryReserve(r, B) PROVE Guard!Next
    BY <2>2, AcquireImplements DEF Guard!Next
  <2>3. ASSUME NEW i \in Ids, NEW raises \in BOOLEAN, NEW enqueued \in BOOLEAN,
               Submit(i, raises, enqueued)
        PROVE  Guard!Next
    BY <2>3, SubmitImplements DEF Guard!Next
  <2>4. ASSUME NEW i \in Ids, CancelBeforeSubmit(i) PROVE Guard!Next
    <3>1. {i} \subseteq Active /\ {i} \cap reading = {} /\ Release({i}) /\ UNCHANGED reading
      BY <2>4 DEF CancelBeforeSubmit, IInv, Active, ReadsLeased, In
    <3> QED BY <2>b, <3>1
  <2>5. ASSUME NEW i \in Ids, GatherCompletes(i) PROVE Guard!Next
    <3>1. UNCHANGED holderBar /\ readBar' \subseteq readBar
      BY <2>5 DEF GatherCompletes, registry, holderBar, readBar
    <3> QED BY <3>1 DEF Guard!Next, Guard!EndRead, holderBar, readBar
  <2>6. ASSUME NEW t \in Threads, PollReleases(t) \/ AbortReleases(t) PROVE Guard!Next
    <3> DEFINE S == thread[t].done \cap Active
    <3>1. Release(S) /\ UNCHANGED reading BY <2>6 DEF PollReleases, AbortReleases
    <3>2. S \subseteq Active /\ S \cap reading = {} BY <2>d
    <3> HIDE DEF S
    <3> QED BY <2>b, <3>1, <3>2
  <2>7. ASSUME NEW t \in Threads, NEW r \in Requests, NEW wait \in BOOLEAN,
               AbortRequest(t, r, wait)
        PROVE  Guard!Next
    BY <2>7, <2>c DEF AbortRequest
  <2>8. ASSUME NEW t \in Threads, AbortNext(t)
        PROVE  Guard!Next \/ UNCHANGED <<registry, reading>>
    BY <2>8, <2>c, <2>d DEF AbortNext
  <2>9. ASSUME NEW t \in Threads,
               \/ \E take \in BOOLEAN : Poll(t, take)
               \/ \E i \in Ids : Ask(t, i) \/ Synchronize(t, i)
               \/ FenceFails(t) \/ TakeFinished(t) \/ AbortAll(t) \/ Return(t)
        PROVE  UNCHANGED <<registry, reading>>
    BY <2>9 DEF Poll, Ask, Synchronize, FenceFails, TakeFinished, AbortAll, Return
  <2>10. ASSUME NEW r \in Requests, RequestEnds(r) PROVE UNCHANGED <<registry, reading>>
    BY <2>10 DEF RequestEnds
  <2> QED
    BY <2>a, <2>1, <2>2, <2>3, <2>4, <2>5, <2>6, <2>7, <2>8, <2>9, <2>10 DEF Next
<1> QED BY <1>1, <1>2, Invariance, PTL DEF Spec, Guarded, Guard!Spec, holderBar, readBar

=============================================================================
