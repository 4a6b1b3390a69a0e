--------------------------- MODULE BuddyReplication ---------------------------
(***************************************************************************)
(* Buddy replication (replication/state.py, protocol.py): BuddySender      *)
(* copies entries of a rank-local store to the BuddyReceiver of another    *)
(* rank, in transactions BEGIN, PUT_CHUNK..., COMMIT.                      *)
(*                                                                         *)
(* The carrier between them is not part of the repository.  It may lose,   *)
(* delay, repeat and reorder frames and answers: a frame once sent can be  *)
(* received at any time, any number of times.  The driver that offers an   *)
(* entry frame by frame is external too.  Chunks have unit size.           *)
(***************************************************************************)
EXTENDS Integers, Sequences, FiniteSets, SequencesExt

CONSTANTS
    Keys,              \* <<transaction id, generation>>
    Size,              \* [Keys -> Nat]: chunks of the entry
    StreamModes,       \* whether the receiver publishes chunks as they arrive (on_chunk)
    MaxActive,         \* max_active_transactions
    MaxStaged,         \* max_staged_chunks, max_staged_bytes
    MaxContextChunks,  \* max_context_chunks
    RecentCommits,     \* recent_commits
    RecentGenerations, \* recent_generations
    MaxInflight,       \* max_inflight_frames, max_inflight_bytes
    RecentLocalOnly,   \* recent_local_only
    MaxCredits,        \* bound: credits on their way
    MaxFaults          \* bound: retries with other content, damage, failed callbacks, expiry

ASSUME ReplicationConstants ==
    /\ \A k \in Keys : k = <<k[1], k[2]>> /\ k[2] \in Nat
    /\ Size \in [Keys -> Nat \ {0}] /\ StreamModes \subseteq BOOLEAN
    /\ {MaxActive, MaxStaged, MaxContextChunks, RecentCommits, RecentGenerations, MaxInflight,
        RecentLocalOnly, MaxCredits} \subseteq Nat \ {0}
    /\ MaxFaults \in Nat

VARIABLES
    stream,    \* on_chunk is given
    active,    \* _active: [key -> transaction], keys present
    latest,    \* _latest_generation, oldest first: <<id, generation>>
    committed, \* _committed, oldest first: [key, ctx]
    avail,     \* _available_frames, _available_bytes
    inflight,  \* _inflight
    localOnly, \* _local_only, oldest first
    driver,    \* the driver's place in each entry: [at, ctx]
    net,       \* frames that were ever sent
    acks,      \* ACKs for frames in flight; others change nothing when they arrive
    credits,   \* CREDITs newer than the last one applied, in the order of their sequence
    replicas,  \* what the commit callback published, in order: <<key, [ctx, chunks]>>
    faults

receiver == <<stream, active, latest, committed, replicas>>
sender == <<avail, inflight, localOnly>>
vars == <<receiver, sender, driver, net, acks, credits, faults>>

\* The driver may send an entry of a key a second time, with other content.
Contexts == {1, 2}
\* The place of a driver that gave its entry up.
Done == -1

\* Frame: type, transaction and generation, sequence; ctx stands for context, identity,
\* and every digest of the frame.  fine: the payload has the digest its header names.
Frame(type, k, s, i, c) == [type |-> type, key |-> k, seq |-> s, index |-> i, ctx |-> c, fine |-> TRUE]

FrameAt(k, at, c) ==
    CASE at = 0 -> Frame("begin", k, 0, 0, c)
      [] at \in 1 .. Size[k] -> Frame("put", k, at + c - 1, at, c)
      [] OTHER -> Frame("commit", k, Size[k] + 2, 0, c)

\* The abort of _mark_local_only has a sequence of its own.
DegradeFrame(k) == Frame("abort", k, Size[k] + 4, 0, 1)
CancelFrame(k) == Frame("abort", k, Size[k] + 3, 0, 1)

Init ==
    /\ stream \in StreamModes
    /\ active = <<>> /\ latest = <<>> /\ committed = <<>> /\ replicas = <<>>
    /\ avail = 0 /\ inflight = {} /\ localOnly = <<>>
    /\ driver = [k \in Keys |-> [at |-> 0, ctx |-> 1]]
    /\ net = {} /\ acks = {} /\ credits = <<>> /\ faults = 0

Fault == faults < MaxFaults /\ faults' = faults + 1

\* The sequence without an element of E (it has at most one).
Without(s, E) == IF \E i \in DOMAIN s : s[i] \in E
                 THEN RemoveAt(s, CHOOSE i \in DOMAIN s : s[i] \in E) ELSE s
\* An OrderedDict bounded to n: e becomes the newest entry.
Remember(s, e, n) ==
    LET t == Append(Without(s, {e}), e)
    IN  IF Len(t) > n THEN Tail(t) ELSE t
-----------------------------------------------------------------------------
(* Sender *)

\* _mark_local_only, and take_best_effort_aborts by the carrier.
MarkLocalOnly(k, left) ==
    /\ localOnly' = Remember(localOnly, k, RecentLocalOnly)
    /\ inflight' = {f \in left : f.key # k}
    /\ acks' = {a \in acks : a.key # k}
    /\ net' = net \cup {DegradeFrame(k)}

\* offer, for a key that is not local-only (or an ABORT): what is in flight under the
\* sequence decides first, then the window, then the credit.
Offer(f) ==
    LET same == {g \in inflight : g.key = f.key /\ g.seq = f.seq}
        full == Cardinality(inflight) + 1 > MaxInflight
        poor == f.type = "put" /\ avail < 1
    IN  IF same # {} /\ f \in same THEN UNCHANGED <<sender, net, acks>>
        ELSE IF same # {} \/ full \/ poor
             THEN MarkLocalOnly(f.key, inflight) /\ avail' = avail
             ELSE /\ inflight' = inflight \cup {f} /\ net' = net \cup {f}
                  /\ avail' = IF f.type = "put" THEN avail - 1 ELSE avail
                  /\ UNCHANGED <<localOnly, acks>>

\* The driver offers the next frame of an entry; a generation begins when the one before
\* it was given up.
OfferNext(k) ==
    /\ driver[k].at \in 0 .. Size[k] + 1 /\ k \notin ToSet(localOnly)
    /\ \A old \in Keys : old[1] = k[1] /\ old[2] < k[2] => driver[old].at = Done
    /\ Offer(FrameAt(k, driver[k].at, driver[k].ctx))
    /\ driver' = [driver EXCEPT ![k].at = @ + 1]
    /\ UNCHANGED <<receiver, credits, faults>>

\* The driver gives up an entry: it says so, or the connection is lost.
GiveUp(k, says) ==
    /\ driver[k].at \in 1 .. Size[k] + 2
    /\ IF says THEN Offer(CancelFrame(k)) /\ Fault ELSE UNCHANGED <<sender, net, acks, faults>>
    /\ driver' = [driver EXCEPT ![k].at = Done]
    /\ UNCHANGED <<receiver, credits>>

\* The driver starts over under the same key, and the entry has changed.
Restart(k) ==
    /\ driver[k].at \in 1 .. Size[k] + 2 /\ driver[k].ctx = 1 /\ Fault
    /\ driver' = [driver EXCEPT ![k] = [at |-> 0, ctx |-> 2]]
    /\ UNCHANGED <<receiver, sender, net, acks, credits>>

\* apply_credit: an older credit than the last one applied changes nothing.
ApplyCredit(j) ==
    /\ j \in 1 .. Len(credits)
    /\ avail' = credits[j] /\ credits' = SubSeq(credits, j + 1, Len(credits))
    /\ UNCHANGED <<receiver, inflight, localOnly, driver, net, acks, faults>>

\* Mutant: a refusal is taken for success.
AcknowledgeAll(a) ==
    LET named == {f \in inflight : f.key = a.key /\ f.seq = a.seq}
    IN  /\ named # {} /\ a \in acks
        /\ inflight' = inflight \ named /\ UNCHANGED <<localOnly, net>>
        /\ acks' = {b \in acks : <<b.key, b.seq>> # <<a.key, a.seq>>}
        /\ UNCHANGED <<receiver, avail, driver, credits, faults>>

\* acknowledge
Acknowledge(a) ==
    LET named == {f \in inflight : f.key = a.key /\ f.seq = a.seq}
    IN  /\ named # {} /\ a \in acks
        /\ IF a.refused THEN MarkLocalOnly(a.key, inflight \ named)
           ELSE /\ inflight' = inflight \ named /\ UNCHANGED <<localOnly, net>>
                /\ acks' = {b \in acks : <<b.key, b.seq>> # <<a.key, a.seq>>}
        /\ UNCHANGED <<receiver, avail, driver, credits, faults>>
-----------------------------------------------------------------------------
(* Receiver *)

Open == DOMAIN active
Drop(k) == [x \in Open \ {k} |-> active[x]]
Chunks(a) == UNION {{k} \X DOMAIN a[k].chunks : k \in DOMAIN a}
Staged(a) == IF stream THEN 0 ELSE Cardinality(Chunks(a))

\* The highest generation remembered of a transaction id; 0 if none is.
Latest(id) == IF \E e \in ToSet(latest) : e[1] = id
              THEN (CHOOSE e \in ToSet(latest) : e[1] = id)[2] ELSE 0

\* _remember_generation: the oldest ids without an active transaction are forgotten.
RememberGeneration(id, g, a) ==
    LET all == Append(Without(latest, {e \in ToSet(latest) : e[1] = id}), <<id, g>>)
        idle(i) == ~\E k \in DOMAIN a : k[1] = all[i][1]
        excess == Len(all) - RecentGenerations
        kept == {j \in DOMAIN all :
                     idle(j) => Cardinality({x \in 1 .. j - 1 : idle(x)}) >= excess}
    IN  IF excess <= 0 THEN all
        ELSE [n \in 1 .. Cardinality(kept) |->
                  all[CHOOSE j \in kept : Cardinality({x \in kept : x <= j}) = n]]

\* _responses: every frame is answered by an ACK and a CREDIT.  Of the status, the sender
\* tells refusals from the rest.
Respond(f, status, a) ==
    /\ acks' = acks \cup {[key |-> g.key, seq |-> g.seq, refused |-> status \in {"rejected", "aborted"}] :
                              g \in {h \in inflight : h.key = f.key /\ h.seq = f.seq}}
    /\ LET all == Append(credits, MaxStaged - Staged(a))
       IN  credits' = IF Len(all) > MaxCredits THEN Tail(all) ELSE all

\* Mutant: the generation is not compared.
NeverStale(f) == FALSE

\* receive: an older generation than the latest is refused.
Stale(f) == f.key[2] < Latest(f.key[1])

Quiet == UNCHANGED <<stream, sender, driver, net>>

ReceiveStale(f) ==
    /\ f \in net /\ Stale(f)
    /\ Respond(f, "rejected", active)
    /\ UNCHANGED <<active, latest, committed, replicas, faults>> /\ Quiet

Committed(k) == {c \in ToSet(committed) : c.key = k}

\* _begin
ReceiveBegin(f) ==
    /\ f \in net /\ f.type = "begin" /\ ~Stale(f)
    /\ LET k == f.key
           older == <<k[1], Latest(k[1])>>
           kept == IF k[2] > Latest(k[1]) THEN Drop(older) ELSE active
           tx == [ctx |-> f.ctx, chunks |-> <<>>, seqs |-> {<<0, f>>}]
           room == Cardinality(DOMAIN kept) < MaxActive
           new == [x \in DOMAIN kept \cup {k} |-> IF x = k THEN tx ELSE kept[x]]
       IN  \/ /\ Committed(k) # {} /\ UNCHANGED <<active, latest>>
              /\ Respond(f, IF \E c \in Committed(k) : c.ctx = f.ctx THEN "committed" ELSE "rejected", active)
           \/ /\ Committed(k) = {} /\ k \in Open /\ latest' = latest
              /\ active' = IF active[k].ctx = f.ctx THEN active ELSE Drop(k)
              /\ Respond(f, IF active[k].ctx = f.ctx THEN "duplicate" ELSE "aborted", active')
           \/ /\ Committed(k) = {} /\ k \notin Open /\ ~room
              /\ active' = kept /\ latest' = latest /\ Respond(f, "rejected", kept)
           \/ /\ Committed(k) = {} /\ k \notin Open /\ room
              /\ active' = new /\ latest' = RememberGeneration(k[1], k[2], new)
              /\ Respond(f, "ok", new)
    /\ UNCHANGED <<committed, replicas, faults>> /\ Quiet

\* _put_chunk: how the checks answer a chunk of an open transaction.
PutStatus(f, tx) ==
    LET seen == {s \in tx.seqs : s[1] = f.seq}
    IN  CASE seen # {} -> IF <<f.seq, f>> \in seen THEN "duplicate" ELSE "aborted"
          [] seen = {} /\ ~f.fine -> "aborted"
          [] seen = {} /\ f.fine /\ f.index \in DOMAIN tx.chunks ->
                 IF tx.chunks[f.index] = f.ctx THEN "duplicate" ELSE "aborted"
          [] OTHER -> IF /\ Cardinality(DOMAIN tx.chunks) + 1 <= MaxContextChunks
                         /\ stream \/ Staged(active) + 1 <= MaxStaged
                      THEN "ok" ELSE "aborted"

\* breaks: the chunk callback raises.
ReceivePut(f, breaks) ==
    /\ f \in net /\ f.type = "put" /\ ~Stale(f)
    /\ IF f.key \notin Open
       THEN /\ ~breaks /\ faults' = faults
            /\ Respond(f, "rejected", active) /\ active' = active
       ELSE LET tx == active[f.key]
                status == IF breaks THEN "aborted" ELSE PutStatus(f, tx)
                grown == [tx EXCEPT !.chunks = [i \in DOMAIN @ \cup {f.index} |->
                                                    IF i = f.index THEN f.ctx ELSE @[i]],
                                    !.seqs = @ \cup {<<f.seq, f>>}]
            IN  /\ IF breaks THEN stream /\ PutStatus(f, tx) = "ok" /\ Fault ELSE faults' = faults
                /\ active' = CASE status = "ok" -> [active EXCEPT ![f.key] = grown]
                               [] status = "aborted" -> Drop(f.key)
                               [] OTHER -> active
                /\ Respond(f, status, active')
    /\ UNCHANGED <<latest, committed, replicas>> /\ Quiet

\* Mutant: chunks that are missing are not noticed.
SealedPartly(f, tx) == f.fine /\ f.ctx = tx.ctx /\ \A i \in DOMAIN tx.chunks : tx.chunks[i] = f.ctx

\* _commit: the record names this transaction, and exactly the chunks that are here.
Sealed(f, tx) ==
    /\ f.fine /\ f.ctx = tx.ctx
    /\ DOMAIN tx.chunks = 1 .. Size[f.key]
    /\ \A i \in DOMAIN tx.chunks : tx.chunks[i] = f.ctx

\* How a COMMIT is answered that publishes the transaction or not.
CommitStatus(f, publishes) ==
    CASE Committed(f.key) # {} -> IF \E c \in Committed(f.key) : c.ctx = f.ctx THEN "committed" ELSE "rejected"
      [] Committed(f.key) = {} /\ f.key \notin Open -> "rejected"
      [] OTHER -> IF publishes THEN "committed" ELSE "aborted"

\* breaks: the commit callback raises.
ReceiveCommit(f, breaks) ==
    /\ f \in net /\ f.type = "commit" /\ ~Stale(f)
    /\ LET k == f.key
           publishes == Committed(k) = {} /\ k \in Open /\ Sealed(f, active[k])
       IN  /\ IF breaks THEN publishes /\ Fault ELSE faults' = faults
           /\ active' = IF Committed(k) = {} THEN Drop(k) ELSE active
           /\ committed' = IF publishes /\ ~breaks
                           THEN Remember(committed, [key |-> k, ctx |-> f.ctx], RecentCommits)
                           ELSE committed
           /\ replicas' = IF publishes /\ ~breaks
                          THEN Append(replicas, <<k, [ctx |-> active[k].ctx, chunks |-> active[k].chunks]>>)
                          ELSE replicas
           /\ Respond(f, CommitStatus(f, publishes /\ ~breaks), active')
    /\ latest' = latest /\ Quiet

\* _abort
ReceiveAbort(f) ==
    /\ f \in net /\ f.type = "abort" /\ ~Stale(f)
    /\ active' = Drop(f.key)
    /\ Respond(f, IF f.key \in Open THEN "aborted" ELSE "duplicate", active')
    /\ UNCHANGED <<latest, committed, replicas, faults>> /\ Quiet

\* expire_inactive
ExpireInactive(k) ==
    /\ k \in Open /\ Fault
    /\ active' = Drop(k)
    /\ UNCHANGED <<latest, committed, replicas, acks, credits>> /\ Quiet

\* The carrier damages a payload on its way.
Damage(f) ==
    /\ f \in inflight /\ f.type \in {"put", "commit"} /\ Fault
    /\ net' = net \cup {[f EXCEPT !.fine = FALSE]}
    /\ UNCHANGED <<receiver, sender, driver, acks, credits>>

Receive(f) == \/ ReceiveStale(f) \/ ReceiveBegin(f) \/ ReceiveAbort(f)
              \/ \E breaks \in BOOLEAN : ReceivePut(f, breaks) \/ ReceiveCommit(f, breaks)

Next ==
    \/ \E k \in Keys : \/ OfferNext(k) \/ Restart(k) \/ ExpireInactive(k)
                      \/ \E says \in BOOLEAN : GiveUp(k, says)
    \/ \E f \in net : Receive(f) \/ Damage(f)
    \/ \E a \in acks : Acknowledge(a)
    \/ \E j \in 1 .. MaxCredits : ApplyCredit(j)

Spec == Init /\ [][Next]_vars
-----------------------------------------------------------------------------
(* Properties *)

TypeOK ==
    /\ Open \subseteq Keys /\ Cardinality(Open) <= MaxActive
    /\ Staged(active) <= MaxStaged
    /\ Cardinality(inflight) <= MaxInflight
    /\ Len(committed) <= RecentCommits /\ Len(localOnly) <= RecentLocalOnly
    /\ avail \in 0 .. MaxStaged /\ credits \in Seq(0 .. MaxStaged)
    /\ inflight \subseteq net

\* A replica becomes visible as a whole, with the content of one COMMIT, stays, and is not
\* published again while its key is remembered (BuddyReceiver._commit): the receiver
\* implements ReplicaPublication.
Whole(k, c) == [ctx |-> c, chunks |-> [i \in 1 .. Size[k] |-> c]]
Publication == INSTANCE ReplicaPublication WITH
    Contents <- {Whole(k, c) : k \in Keys, c \in Contexts},
    Memory <- RecentCommits,
    sealed <- {<<f.key, Whole(f.key, f.ctx)>> : f \in {g \in net : g.type = "commit" /\ g.fine}},
    visible <- replicas
PublishesWhole == Publication!Spec

\* The limits of both sides hold, and when the sender has the answer to a COMMIT and never
\* fell back to local-only for the entry, the buddy has published it, however late,
\* repeated or mixed up the answers are (BuddySender.acknowledge).
CommitBelieved ==
    /\ TypeOK
    /\ \A k \in Keys :
         \/ driver[k].at # Size[k] + 2
         \/ DegradeFrame(k) \in net
         \/ \E f \in inflight : f.key = k /\ f.type = "commit"
         \/ \E r \in ToSet(replicas) : r[1] = k

\* Once a generation of an entry is published, an older one is neither opened nor
\* published again: frames that arrive late are refused (_check_generation).  The receiver
\* promises it as long as it can remember every transaction id.
GenerationsFit == LET ids == {k[1] : k \in Keys}
                  IN  IsFiniteSet(ids) /\ Cardinality(ids) <= RecentGenerations
Superseded ==
    [][GenerationsFit =>
         \A k \in Keys :
            \/ k \in DOMAIN active' \ Open
            \/ \E i \in DOMAIN replicas' \ DOMAIN replicas : replicas'[i][1] = k
            => \A r \in ToSet(replicas) : r[1][1] = k[1] => r[1][2] <= k[2]]_vars

\* Room that was spent is not given back by a credit: the sender never has credit for
\* more chunks than fit beside the ones on their way (apply_credit).
CreditsBacked ==
    ~stream => avail + Cardinality({f \in inflight : f.type = "put" /\ f.key \in Open
                                          /\ f.index \notin DOMAIN active[f.key].chunks})
                 <= MaxStaged - Staged(active)
=============================================================================
