---------------------------- MODULE CaptureReads ----------------------------
(***************************************************************************)
(* Asynchronous manager-page capture: the scheduler plans one store per    *)
(* request, every rank copies the request's KV pages through its snapshot  *)
(* ring in the background (streaming/manager_page_runtime.py), and the     *)
(* pages stay with the request, or pinned by a capture read lease          *)
(* (capture_read_leases.py), until every rank's copy has ended.            *)
(* A request has one capture in its life, so the request names it.         *)
(*                                                                         *)
(* Threads of a rank: the engine thread (inbox), the progress thread of    *)
(* the runtime (thr), the saver (writer) and the GPU.  A critical section  *)
(* of the runtime's _cv, and a call of the ring, is one step.              *)
(***************************************************************************)
EXTENDS SnapshotRing, SequencesExt

CONSTANTS
    Ranks,
    Teams,          \* deployments: the physical ranks, and the requests they meet
    Modes,          \* lease modes: "jobs" (connector-jobs), "requests"
    MaxJobs,        \* max_delayed_stores
    MaxEvents,      \* bound: faults, shutdowns, preemptions and replays
    MaxFaults       \* bound: faults and shutdowns among them

Requests == Contexts
NoRequest == NoContext

ASSUME CaptureConstants ==
    /\ Teams \subseteq [ranks : SUBSET Ranks, requests : SUBSET Requests] /\ Teams # {}
    /\ Modes \subseteq {"jobs", "requests"} /\ Modes # {}
    /\ {MaxJobs, MaxEvents, MaxFaults} \subseteq Nat

VARIABLES
    team,       \* the deployment
    mode,       \* how sources are retained, fixed for the life of the engine
    req,        \* vLLM's view of a request
    plan,       \* the store of a request: none, open (_store_progress), sent, skipped
    own,        \* requests that still hold the blocks their store plan named
    lease,      \* CaptureReadLeases._leases, by request
    disabled,   \* CaptureReadLeases.disabled
    sequence,   \* CaptureReadLeases._sequence
    job,        \* sequence number of the job of a request, 0 without one
    reserved,   \* _async_page_capture_reservations
    eligible,   \* _async_page_capture_eligible
    finishedBy, \* ranks that reported finished_sending (vLLM's aggregator)
    inbox,      \* metadata on its way to a rank
    wire,       \* worker output on its way to the scheduler
    w,          \* the worker process of each rank
    ring,       \* its snapshot ring
    events,     \* faults, shutdowns, preemptions and replays so far
    faults      \* faults and shutdowns so far

scheduler == <<team, mode, req, plan, own, lease, disabled, sequence, job, reserved, eligible,
               finishedBy>>
budget == <<events, faults>>
vars == <<scheduler, inbox, wire, w, ring, budget>>

Idle == [pc |-> "idle", q |-> NoRequest, todo |-> {}]

\* The last two fields are history: the stores that were answered although nobody looked
\* whether they are being read, and a busy flag that no capture stands behind.
NewWorker ==
    [eng |-> "serve", inflight |-> FALSE, held |-> {}, queued |-> {}, submitting |-> {},
     pending |-> {}, draining |-> {}, ready |-> {}, cancelled |-> {}, abandoned |-> {},
     failed |-> {}, high |-> 0, fatal |-> FALSE, closed |-> FALSE, wake |-> FALSE,
     completed |-> {}, ended |-> {}, done |-> {}, uncertain |-> {}, tickets |-> {},
     storeq |-> <<>>, writer |-> Idle, thr |-> Idle, waived |-> {}, leaked |-> FALSE]

Init ==
    /\ team \in Teams /\ mode \in Modes
    /\ req = [q \in Requests |-> "new"] /\ plan = [q \in Requests |-> "none"]
    /\ own = {} /\ disabled = FALSE /\ sequence = 0
    /\ lease = [q \in Requests |-> [held |-> FALSE, ranks |-> {}, quarantined |-> FALSE]]
    /\ job = [q \in Requests |-> 0]
    /\ reserved = {} /\ eligible = {}
    /\ finishedBy = [q \in Requests |-> {}]
    /\ inbox = [r \in Ranks |-> <<>>] /\ wire = {}
    /\ w = [r \in Ranks |-> NewWorker]
    /\ ring = [r \in Ranks |-> NewRing]
    /\ events = 0 /\ faults = 0

Send(k, q) ==
    inbox' = [r \in Ranks |-> IF r \in team.ranks THEN Append(inbox[r], [k |-> k, q |-> q])
                                                  ELSE <<>>]
Event == events < MaxEvents /\ events' = events + 1
Fault == Event /\ faults < MaxFaults /\ faults' = faults + 1
NoEvent == UNCHANGED budget

-----------------------------------------------------------------------------
(* The scheduler *)

Leased == {q \in Requests : lease[q].held}

\* build_connector_meta, the new requests: a prompt that is not yet computed enters
\* _store_progress.
BeginStore(q) ==
    /\ q \in team.requests /\ req[q] = "new"
    /\ req' = [req EXCEPT ![q] = "run"]
    /\ plan' = [plan EXCEPT ![q] = "open"]
    /\ UNCHANGED <<team, mode, own, lease, disabled, sequence, job, reserved, eligible, finishedBy>>
    /\ UNCHANGED <<inbox, wire, w, ring, budget>>

\* build_connector_meta when the span of q is computed, and the reservation that
\* follows (_reserve_async_page_capture_plans): a digest with full quorum, or a
\* limit, drops the plan.  Otherwise the plan goes to every rank.
PlanStore(q, quorum) ==
    /\ req[q] = "run" /\ plan[q] = "open"
    /\ LET room == IF mode = "jobs" THEN ~disabled /\ Cardinality(Leased) < MaxJobs
                                    ELSE q \in reserved \/ Cardinality(reserved) < MaxJobs
           sent == ~quorum /\ room
       IN  /\ plan' = [plan EXCEPT ![q] = IF sent THEN "sent" ELSE "skipped"]
           /\ own' = IF sent THEN own \cup {q} ELSE own
           /\ IF sent THEN Send("save", q) ELSE inbox' = inbox
           /\ IF sent /\ mode = "jobs"
              THEN /\ lease' = [lease EXCEPT ![q].held = TRUE]
                   /\ sequence' = sequence + 1
                   /\ job' = [job EXCEPT ![q] = sequence + 1]
                   /\ UNCHANGED <<reserved, eligible>>
              ELSE /\ reserved' = IF sent THEN reserved \cup {q} ELSE reserved
                   /\ eligible' = IF sent THEN eligible \cup {q} ELSE eligible
                   /\ UNCHANGED <<lease, sequence, job>>
    /\ UNCHANGED <<team, mode, req, disabled, finishedBy, wire, w, ring, budget>>

\* vLLM preempts q: its blocks return to the pool, workers are told before the next
\* forward pass may overwrite them.
Preempt(q) ==
    /\ req[q] = "run" /\ plan[q] = "sent" /\ Event /\ faults' = faults
    /\ req' = [req EXCEPT ![q] = "out"]
    /\ own' = own \ {q}
    /\ Send("preempt", q)
    /\ UNCHANGED <<team, mode, plan, lease, disabled, sequence, job, reserved, eligible, finishedBy>>
    /\ UNCHANGED <<wire, w, ring>>

Resume(q) ==
    /\ req[q] = "out"
    /\ req' = [req EXCEPT ![q] = "run"]
    /\ UNCHANGED <<team, mode, plan, own, lease, disabled, sequence, job, reserved, eligible>>
    /\ UNCHANGED <<finishedBy, inbox, wire, w, ring, budget>>

\* request_finished_all_groups: with job leases the blocks return at once, and
\* take_finished ignores the request; without, the blocks of an eligible request wait
\* for every rank.
FinishRequest(q) ==
    /\ req[q] \in {"run", "out"}
    /\ LET delay == mode = "requests" /\ q \in eligible
       IN  /\ req' = [req EXCEPT ![q] = IF delay THEN "delayed" ELSE "ended"]
           /\ own' = IF delay THEN own ELSE own \ {q}
           /\ eligible' = eligible \ {q}
    /\ plan' = [plan EXCEPT ![q] = IF @ = "open" THEN "skipped" ELSE @]
    /\ IF mode = "requests" THEN Send("finish", q) ELSE inbox' = inbox
    /\ UNCHANGED <<team, mode, lease, disabled, sequence, job, reserved, finishedBy>>
    /\ UNCHANGED <<wire, w, ring, budget>>

\* CaptureReadLeases.complete, for one rank; the last one releases the blocks.
Complete(l, q, m) ==
    LET ranks == l.ranks \cup {m.rank}
    IN  [l EXCEPT !.ranks = ranks, !.held = ranks # team.ranks]

\* update_connector_output: quarantine first, then complete, then the requests all
\* ranks have finished sending.
UpdateConnectorOutput(m) ==
    /\ m \in wire /\ wire' = wire \ {m}
    /\ LET l1 == [q \in Requests |-> IF q \in m.uncertain /\ lease[q].held
                                     THEN [lease[q] EXCEPT !.quarantined = TRUE] ELSE lease[q]]
       IN  lease' = [q \in Requests |-> IF q \in m.done /\ l1[q].held
                                        THEN Complete(l1[q], q, m) ELSE l1[q]]
    /\ disabled' = (disabled \/ \E q \in m.uncertain : lease[q].held)
    /\ finishedBy' = [q \in Requests |-> IF q \in m.finished THEN finishedBy[q] \cup {m.rank}
                                                             ELSE finishedBy[q]]
    /\ LET all == {q \in m.finished : finishedBy'[q] = team.ranks}
       IN  /\ reserved' = reserved \ all
           /\ eligible' = eligible \ all
           /\ req' = [q \in Requests |-> IF q \in all /\ req[q] = "delayed" THEN "ended"
                                                                             ELSE req[q]]
           /\ own' = own \ {q \in all : req[q] = "delayed"}
    /\ UNCHANGED <<team, mode, plan, sequence, job, inbox, w, ring, budget>>

SchedulerNext ==
    \/ \E q \in Requests : BeginStore(q) \/ Preempt(q) \/ Resume(q) \/ FinishRequest(q)
    \/ \E q \in Requests, quorum \in BOOLEAN : PlanStore(q, quorum)
    \/ \E m \in wire : UpdateConnectorOutput(m)
-----------------------------------------------------------------------------
(* The worker: v is the worker of one rank, as a value. *)

\* _mark_completed_locked: a job is acknowledged, a request is marked.
MarkCompleted(v, Q) ==
    IF mode = "jobs" THEN [v EXCEPT !.done = @ \cup Q] ELSE [v EXCEPT !.completed = @ \cup Q]

\* Mutant: only a commit frees the saver.
FinishStoreBusy(v, q, committed) ==
    [v EXCEPT !.inflight = ~committed, !.held = IF committed THEN @ \cup {q} ELSE @ \ {q}]

\* _finish_store: the saver is free again, and only a committed digest is held.
FinishStore(v, q, committed) ==
    [v EXCEPT !.inflight = FALSE, !.held = IF committed THEN @ \cup {q} ELSE @ \ {q}]

AbortCapture(v, q) == FinishStore(v, q, FALSE)

Owned(v) == v.queued \cup v.submitting \cup v.pending \cup v.failed \cup v.draining
Stopped(v) == v.queued = {} /\ v.submitting = {} /\ v.pending = {}

Tickets(v, q) == {t \in v.tickets : t.q = q}
Retire(v, q) == [v EXCEPT !.tickets = @ \ Tickets(v, q)]

\* NativeManagerPageRing.submit: the ticket of the slot the native ring reserved.
Issue(v, q, R) ==
    [v EXCEPT !.tickets = @ \cup {[q |-> q, slot |-> s, gen |-> R[s].gen] : s \in Filling(R, q)}]

\* The faults a submission can meet.
SubmitFaults == {"refused", "drained", "uncertain"}

\* The native submission of q on rank r ends as "outcome".
Submitting(r, q, outcome, running) ==
    /\ CanReap(ring[r])
    /\ outcome \in SubmitOutcomes(ring[r], SubmitFaults)
    /\ running => outcome = "uncertain"
    /\ IF outcome \in SubmitFaults THEN Fault ELSE NoEvent
    /\ ring' = [ring EXCEPT ![r] = TrySubmitPages(@, q, outcome, running)]

Head1(r, k) == w[r].eng = "serve" /\ inbox[r] # <<>> /\ Head(inbox[r]).k = k
Consume(r) == inbox' = [inbox EXCEPT ![r] = Tail(@)]
Become(r, v) == w' = [w EXCEPT ![r] = v]

\* submit of a job, under _cv: an owned read is left alone (and the busy flag of
\* wait_for_save with it), an unavailable runtime or a replayed sequence number is
\* acknowledged, anything else is queued.
SubmitJob(v, q) ==
    CASE q \in Owned(v) -> [v EXCEPT !.leaked = TRUE]
      [] q \notin Owned(v) /\ (v.closed \/ v.fatal \/ job[q] <= v.high) ->
             AbortCapture(MarkCompleted(v, {q}), q)
      [] OTHER -> [v EXCEPT !.high = job[q], !.queued = @ \cup {q}, !.wake = TRUE]

\* wait_for_save for the plan at the head of the inbox, when the saver is free: the
\* capture is queued (jobs), or submitted in this callback (requests).
SaveJob(r) ==
    /\ Head1(r, "save") /\ mode = "jobs"
    /\ LET q == Head(inbox[r]).q  v == w[r]
       IN  /\ q \notin v.held /\ ~v.inflight
           /\ Become(r, SubmitJob([v EXCEPT !.inflight = TRUE], q))
    /\ Consume(r) /\ UNCHANGED <<scheduler, wire, ring, budget>>

\* preempt of a capture that is queued, being submitted, or pending under a job lease:
\* it is only abandoned.  The two flags are two objects: _QueuedCapture and
\* _PendingCapture.
Abandoned(v, q) ==
    CASE q \in v.queued \cup v.submitting -> [v EXCEPT !.cancelled = @ \cup {q}, !.wake = TRUE]
      [] q \in v.pending \ v.submitting -> [v EXCEPT !.abandoned = @ \cup {q}, !.wake = TRUE]
      [] OTHER -> v

\* A store that is answered whether or not its sources are being read.
Waive(v, q) == [MarkCompleted(v, {q}) EXCEPT !.waived = @ \cup {q}]

\* The producer event of a job cannot be recorded: preempt, finish_failed_job and
\* _finish_store.
SaveJobRaises(r) ==
    /\ Head1(r, "save") /\ mode = "jobs" /\ Fault
    /\ LET q == Head(inbox[r]).q  v == w[r]
       IN  /\ q \notin v.held /\ ~v.inflight
           /\ Become(r, AbortCapture(IF q \in Owned(v) THEN Abandoned(v, q) ELSE Waive(v, q), q))
    /\ Consume(r) /\ UNCHANGED <<scheduler, wire, ring>>

\* _submit_request: the ring is called under _cv; a refusal or an error ends the
\* capture at once, and the request counts as completed, though its launch may be one
\* that could neither be confirmed nor drained.
SaveRequest(r, outcome, running) ==
    /\ Head1(r, "save") /\ mode = "requests"
    /\ LET q == Head(inbox[r]).q
           v == [w[r] EXCEPT !.inflight = TRUE, !.ended = @ \ {q}, !.completed = @ \ {q}]
       IN  /\ q \notin v.held /\ ~w[r].inflight /\ ~v.fatal
           /\ Submitting(r, q, outcome, running)
           /\ Become(r, CASE outcome = "ok" ->
                               Issue([v EXCEPT !.pending = @ \cup {q}, !.wake = TRUE], q, ring'[r])
                          [] outcome = "uncertain" -> AbortCapture(Waive(v, q), q)
                          [] OTHER -> AbortCapture(MarkCompleted(v, {q}), q))
    /\ Consume(r) /\ UNCHANGED <<scheduler, wire>>

\* The same after a background failure: submit raises, nothing is marked.
SaveRequestFatal(r) ==
    /\ Head1(r, "save") /\ mode = "requests"
    /\ LET q == Head(inbox[r]).q  v == w[r]
       IN  /\ q \notin v.held /\ ~v.inflight /\ v.fatal
           /\ Become(r, AbortCapture(v, q))
    /\ Consume(r) /\ UNCHANGED <<scheduler, wire, ring, budget>>

\* Mutant: a skipped store is not acknowledged.
SkipSaveSilently(r) ==
    /\ Head1(r, "save")
    /\ LET q == Head(inbox[r]).q  v == w[r]
       IN  q \in v.held \/ v.inflight
    /\ Consume(r) /\ UNCHANGED <<scheduler, wire, w, ring, budget>>

\* wait_for_save: the digest is held, or the saver is busy.  The skipped job is
\* acknowledged, though its read be under way; the skipped request is finished
\* without a capture.
SkipSave(r) ==
    /\ Head1(r, "save")
    /\ LET q == Head(inbox[r]).q  v == w[r]
       IN  /\ q \in v.held \/ v.inflight
           /\ Become(r, Waive(v, q))
    /\ Consume(r) /\ UNCHANGED <<scheduler, wire, ring, budget>>

\* A job plan is delivered again, whatever became of its read.  (Messages about q keep
\* their order, so that nothing is lost by waiting for the ones under way.)
ReplaySave(r, q) ==
    /\ mode = "jobs" /\ plan[q] = "sent" /\ Event /\ faults' = faults
    /\ \A i \in DOMAIN inbox[r] : inbox[r][i].q # q
    /\ inbox' = [inbox EXCEPT ![r] = Append(@, [k |-> "save", q |-> q])]
    /\ UNCHANGED <<scheduler, wire, w, ring>>

\* handle_preemptions for a capture without a drain.
HandlePreemption(r) ==
    /\ Head1(r, "preempt")
    /\ LET q == Head(inbox[r]).q  v == w[r]
       IN  /\ q \in v.pending => mode = "jobs"
           /\ Become(r, Abandoned(v, q))
    /\ Consume(r) /\ UNCHANGED <<scheduler, wire, ring, budget>>

\* Mutant: the callback returns before the capture event.
PreemptRequestEarly(r) ==
    /\ Head1(r, "preempt") /\ mode = "requests"
    /\ LET q == Head(inbox[r]).q
           v == [w[r] EXCEPT !.pending = @ \ {q}]
       IN  /\ q \in w[r].pending
           /\ ring' = [ring EXCEPT ![r] = Abandon(@, q)]
           /\ Become(r, MarkCompleted(AbortCapture(Retire(v, q), q), {q}))
    /\ Consume(r) /\ UNCHANGED <<scheduler, wire, budget>>

\* handle_preemptions for a pending capture without a lease: the callback returns
\* after the capture event, so that the blocks may be overwritten.
PreemptRequest(r) ==
    /\ Head1(r, "preempt") /\ mode = "requests"
    /\ LET q == Head(inbox[r]).q
           v == [w[r] EXCEPT !.pending = @ \ {q}]
       IN  /\ q \in w[r].pending /\ Quiet(ring[r], q)
           /\ ring' = [ring EXCEPT ![r] = DrainContext(@, q)]
           /\ Become(r, MarkCompleted(AbortCapture(Retire(v, q), q), {q}))
    /\ Consume(r) /\ UNCHANGED <<scheduler, wire, budget>>

\* The drain raises: so does the callback, and the worker process serves no more.
PreemptRaises(r) ==
    /\ Head1(r, "preempt") /\ mode = "requests" /\ Fault
    /\ LET q == Head(inbox[r]).q
       IN  /\ q \in w[r].pending
           /\ ring' = [ring EXCEPT ![r] = DrainFailed(@, q)]
           /\ Become(r, [w[r] EXCEPT !.pending = @ \ {q}, !.eng = "raised"])
    /\ UNCHANGED <<scheduler, inbox, wire>>

\* get_finished: take_finished remembers the finished requests it owns.
HandleFinished(r) ==
    /\ Head1(r, "finish")
    /\ LET q == Head(inbox[r]).q  v == w[r]
           owned == v.completed \cup (IF mode = "jobs" THEN {} ELSE v.pending)
       IN  Become(r, [v EXCEPT !.ended = @ \cup ({q} \cap owned)])
    /\ Consume(r) /\ UNCHANGED <<scheduler, wire, ring, budget>>

\* take_finished: nothing is reported once the background failed.
Reported(v) == IF v.fatal THEN {} ELSE v.completed \cap v.ended

\* build_connector_worker_meta and the result of get_finished leave the worker, one
\* output at a time.
Report(r) ==
    /\ w[r].eng = "serve" /\ \A m \in wire : m.rank # r
    /\ LET v == w[r]
       IN  /\ v.done # {} \/ v.uncertain # {} \/ Reported(v) # {}
           /\ wire' = wire \cup {[rank |-> r, done |-> v.done, uncertain |-> v.uncertain,
                                  finished |-> Reported(v)]}
           /\ Become(r, [v EXCEPT !.done = {}, !.uncertain = {}, !.ended = @ \ Reported(v),
                                  !.completed = @ \ Reported(v)])
    /\ UNCHANGED <<scheduler, inbox, ring, budget>>

EngineNext(r) ==
    \/ SaveJob(r) \/ SaveJobRaises(r) \/ SaveRequestFatal(r) \/ SkipSave(r)
    \/ \E o \in {"ok", "full", "refused", "drained", "uncertain"}, running \in BOOLEAN :
           SaveRequest(r, o, running)
    \/ \E q \in Requests : ReplaySave(r, q)
    \/ HandlePreemption(r) \/ PreemptRequest(r) \/ PreemptRaises(r)
    \/ HandleFinished(r) \/ Report(r)
-----------------------------------------------------------------------------
(* The progress thread of the capture runtime *)

At(r, pc) == w[r].thr.pc = pc
Go(v, pc) == [v EXCEPT !.thr.pc = pc]

\* _progress_main: woken, not stopped.
Wake(r) ==
    /\ At(r, "idle") /\ w[r].wake /\ ~w[r].closed
    /\ Become(r, Go(w[r], "take"))
    /\ UNCHANGED <<scheduler, inbox, wire, ring, budget>>

\* _progress_once takes a queued job, and the first check of _submit_queued_job.
TakeQueued(r, q) ==
    /\ At(r, "take") /\ q \in w[r].queued
    /\ LET v == [w[r] EXCEPT !.queued = @ \ {q}, !.submitting = @ \cup {q}, !.thr.q = q]
       IN  Become(r, IF q \in v.cancelled \/ v.closed \/ v.fatal
                     THEN Go(AbortCapture(MarkCompleted(v, {q}), q), "finally")
                     ELSE Go(v, "check"))
    /\ UNCHANGED <<scheduler, inbox, wire, ring, budget>>

\* The second check, after the base was protected and the stream chosen.
CheckAgain(r) ==
    /\ At(r, "check")
    /\ LET v == w[r]  q == v.thr.q
       IN  Become(r, IF q \in v.cancelled THEN Go(AbortCapture(MarkCompleted(v, {q}), q), "finally")
                                          ELSE Go(v, "native"))
    /\ UNCHANGED <<scheduler, inbox, wire, ring, budget>>

\* ring.submit, without _cv.
SubmitNative(r, outcome, running) ==
    /\ At(r, "native")
    /\ LET v == w[r]  q == v.thr.q
       IN  /\ Submitting(r, q, outcome, running)
           /\ Become(r, CASE outcome = "ok" -> Go(Issue(v, q, ring'[r]), "insert")
                          [] outcome = "full" ->
                                 Go(AbortCapture(MarkCompleted(v, {q}), q), "finally")
                          [] OTHER -> Go(v, "undo"))
    /\ UNCHANGED <<scheduler, inbox, wire>>

\* The pending capture takes over the flag its queue entry has now.
InsertPending(r) ==
    /\ At(r, "insert")
    /\ LET v == w[r]  q == v.thr.q
       IN  Become(r, Go([v EXCEPT !.pending = @ \cup {q},
                                  !.abandoned = IF q \in v.cancelled THEN @ \cup {q} ELSE @],
                        "finally"))
    /\ UNCHANGED <<scheduler, inbox, wire, ring, budget>>

\* Mutant: a failed submission is acknowledged without a drain.
UndoUndrained(r) ==
    /\ At(r, "undo")
    /\ LET v == w[r]  q == v.thr.q
       IN  Become(r, Go(AbortCapture(MarkCompleted(v, {q}), q), "finally"))
    /\ UNCHANGED <<scheduler, inbox, wire, ring, budget>>

\* A submission that raised is drained, and then acknowledged.
UndoSubmit(r) ==
    /\ At(r, "undo")
    /\ LET v == w[r]  q == v.thr.q
       IN  /\ Quiet(ring[r], q)
           /\ ring' = [ring EXCEPT ![r] = DrainContext(@, q)]
           /\ Become(r, Go(AbortCapture(MarkCompleted(v, {q}), q), "finally"))
    /\ UNCHANGED <<scheduler, inbox, wire, budget>>

\* The synchronization of a drain fails; for a quarantined stream, again.
Broken(r, q) == IF \E s \in Filling(ring[r], q) : ring[r][s].drain THEN NoEvent ELSE Fault

\* Mutant: the failed drain is acknowledged as well.
UndoFailsDone(r) ==
    /\ At(r, "undo") /\ Broken(r, w[r].thr.q)
    /\ LET v == w[r]  q == v.thr.q
       IN  /\ Filling(ring[r], q) # {}
           /\ ring' = [ring EXCEPT ![r] = DrainFailed(@, q)]
           /\ Become(r, Go(MarkCompleted([v EXCEPT !.failed = @ \cup {q}, !.fatal = TRUE,
                                                   !.uncertain = @ \cup {q}], {q}), "finally"))
    /\ UNCHANGED <<scheduler, inbox, wire>>

\* The drain fails: the read stays uncertain and the runtime stops.
UndoFails(r) ==
    /\ At(r, "undo") /\ Broken(r, w[r].thr.q)
    /\ LET v == w[r]  q == v.thr.q
       IN  /\ Filling(ring[r], q) # {}
           /\ ring' = [ring EXCEPT ![r] = DrainFailed(@, q)]
           /\ Become(r, Go(AbortCapture([v EXCEPT !.failed = @ \cup {q}, !.fatal = TRUE,
                                                  !.uncertain = @ \cup {q}], q), "finally"))
    /\ UNCHANGED <<scheduler, inbox, wire>>

\* The finally clause of _submit_queued_job.
EndSubmit(r) ==
    /\ At(r, "finally")
    /\ LET v == w[r]
       IN  Become(r, Go([v EXCEPT !.submitting = @ \ {v.thr.q}, !.cancelled = @ \ {v.thr.q},
                                  !.thr.q = NoRequest], "take"))
    /\ UNCHANGED <<scheduler, inbox, wire, ring, budget>>

\* _progress_once after the submissions: a failed runtime reports its pending reads
\* as uncertain, any other polls them.
AllTaken(r) ==
    /\ At(r, "take") /\ w[r].queued = {}
    /\ LET v == w[r]
       IN  Become(r, IF v.fatal
                     THEN Go([v EXCEPT !.failed = @ \cup v.pending,
                                       !.uncertain = @ \cup v.pending, !.wake = FALSE], "idle")
                     ELSE Go([v EXCEPT !.thr.todo = v.pending], "poll"))
    /\ UNCHANGED <<scheduler, inbox, wire, ring, budget>>

\* poll of one capture: not ready, or (without a lease) gone from the table.
PollNotReady(r, q) ==
    /\ At(r, "poll") /\ q \in w[r].thr.todo /\ CanReap(ring[r])
    /\ LET gone == mode = "requests" /\ q \notin w[r].pending
       IN  /\ gone \/ \E t \in Tickets(w[r], q) : PollStatus(ring[r], t) = "not_ready"
           /\ ring' = [ring EXCEPT ![r] = IF gone THEN @ ELSE ReapAbandoned(@)]
    /\ Become(r, [w[r] EXCEPT !.thr.todo = @ \ {q}])
    /\ UNCHANGED <<scheduler, inbox, wire, budget>>

\* poll and claim succeed: the slot becomes a writer's view.
ClaimReady(r, q) ==
    /\ At(r, "poll") /\ q \in w[r].thr.todo /\ CanReap(ring[r])
    /\ mode = "requests" => q \in w[r].pending
    /\ \E t \in Tickets(w[r], q) :
           /\ PollStatus(ring[r], t) = "ok"
           /\ ring' = [ring EXCEPT ![r] = PollClaim(@, t)]
    /\ Become(r, Go([w[r] EXCEPT !.thr.q = q, !.thr.todo = @ \ {q}], "pop"))
    /\ UNCHANGED <<scheduler, inbox, wire, budget>>

\* The read is over: acknowledge it.  A preemption may have taken the capture away
\* between the claim and this step.
PopPending(r) ==
    /\ At(r, "pop")
    /\ LET q == w[r].thr.q
           v == [w[r] EXCEPT !.pending = @ \ {q}, !.thr.q = NoRequest]
           u == IF q \in w[r].pending
                THEN [MarkCompleted(v, {q}) EXCEPT !.ready = @ \cup {q}] ELSE v
       IN  Become(r, Go([u EXCEPT !.wake = @ /\ ~Stopped(u)], "poll"))
    /\ UNCHANGED <<scheduler, inbox, wire, ring, budget>>

\* poll or claim raises: _progress_main ends, and nothing it may own is released.
ProgressFails(r) ==
    /\ At(r, "poll") /\ w[r].thr.todo # {} /\ Fault
    /\ LET v == w[r]
           u == [v EXCEPT !.fatal = TRUE, !.queued = {},
                          !.inflight = @ /\ v.pending = {} /\ v.queued = {},
                          !.held = @ \ (v.pending \cup v.queued), !.thr = [Idle EXCEPT !.pc = "dead"]]
       IN  Become(r, IF mode = "jobs"
                     THEN MarkCompleted([u EXCEPT !.failed = @ \cup v.pending \cup v.submitting,
                                                  !.uncertain = @ \cup v.pending \cup v.submitting],
                                        v.queued)
                     ELSE u)
    /\ UNCHANGED <<scheduler, inbox, wire, ring>>

\* The round ends with the last capture that is ready.
Deliver(v, Q) ==
    LET u == [v EXCEPT !.ready = @ \ Q, !.abandoned = @ \ Q]
    IN  IF u.ready = {} THEN [u EXCEPT !.thr = Idle] ELSE Go(u, "ready")

\* All are polled; the wake-up is cleared only when nothing is left.
AllPolled(r) ==
    /\ At(r, "poll") /\ w[r].thr.todo = {}
    /\ LET v == w[r]
       IN  Become(r, Deliver([v EXCEPT !.wake = @ /\ ~Stopped(v)], {}))
    /\ UNCHANGED <<scheduler, inbox, wire, ring, budget>>

\* A capture that was abandoned meanwhile: its slot is released.
DiscardReady(r, q) ==
    /\ At(r, "ready") /\ q \in w[r].ready \cap w[r].abandoned
    /\ \E t \in Tickets(w[r], q) : ring' = [ring EXCEPT ![r] = ReleaseTicket(@, t)]
    /\ Become(r, AbortCapture(Retire(Deliver(w[r], {q}), q), q))
    /\ UNCHANGED <<scheduler, inbox, wire, budget>>

\* _complete_async_page_capture: the view goes to the saver.
DeliverReady(r, q) ==
    /\ At(r, "ready") /\ q \in w[r].ready \ w[r].abandoned
    /\ Become(r, [Deliver(w[r], {q}) EXCEPT !.storeq = Append(@, q)])
    /\ UNCHANGED <<scheduler, inbox, wire, ring, budget>>

\* _complete_async_page_capture rejects the capture: its view is released first.
RejectReady(r, q) ==
    /\ At(r, "ready") /\ q \in w[r].ready \ w[r].abandoned /\ Fault
    /\ \E t \in Tickets(w[r], q) : ring' = [ring EXCEPT ![r] = ReleaseTicket(@, t)]
    /\ Become(r, AbortCapture(Retire(Deliver(w[r], {q}), q), q))
    /\ UNCHANGED <<scheduler, inbox, wire>>

\* The GPU finishes the gather of slot s.
GatherEnds(r, s) ==
    /\ ring[r][s].busy
    /\ ring' = [ring EXCEPT ![r] = Finished(@, s)]
    /\ UNCHANGED <<scheduler, inbox, wire, w, budget>>

ThreadNext(r) ==
    \/ Wake(r) \/ CheckAgain(r) \/ InsertPending(r) \/ UndoSubmit(r) \/ UndoFails(r)
    \/ EndSubmit(r) \/ AllTaken(r) \/ PopPending(r) \/ ProgressFails(r) \/ AllPolled(r)
    \/ \E o \in {"ok", "full", "refused", "drained", "uncertain"}, running \in BOOLEAN :
           SubmitNative(r, o, running)
    \/ \E q \in Requests : \/ TakeQueued(r, q) \/ PollNotReady(r, q) \/ ClaimReady(r, q)
                           \/ DiscardReady(r, q) \/ DeliverReady(r, q) \/ RejectReady(r, q)
-----------------------------------------------------------------------------
(* The saver, and the shutdown of a worker *)

\* _store_worker_main takes a snapshot.
TakeStore(r) ==
    /\ w[r].writer.pc = "idle" /\ w[r].storeq # <<>>
    /\ Become(r, [w[r] EXCEPT !.storeq = Tail(@),
                              !.writer = [Idle EXCEPT !.pc = "commit", !.q = Head(w[r].storeq)]])
    /\ UNCHANGED <<scheduler, inbox, wire, ring, budget>>

\* The commit succeeds, or fails or is evicted; the view is still lent.
CommitStore(r, ok) ==
    /\ w[r].writer.pc = "commit"
    /\ Become(r, FinishStore([w[r] EXCEPT !.writer.pc = "release"], w[r].writer.q, ok))
    /\ UNCHANGED <<scheduler, inbox, wire, ring, budget>>

\* The finally clause of _store_worker_main: the scatter view is released.
ReleaseView(r) ==
    /\ w[r].writer.pc = "release"
    /\ \E t \in Tickets(w[r], w[r].writer.q) : ring' = [ring EXCEPT ![r] = ReleaseTicket(@, t)]
    /\ Become(r, [Retire(w[r], w[r].writer.q) EXCEPT !.writer = Idle])
    /\ UNCHANGED <<scheduler, inbox, wire, budget>>

\* quiesce: closed, queue entries abandoned, the thread told to stop.
Quiesce(r) ==
    /\ w[r].eng = "serve" /\ Fault
    /\ LET v == w[r]
       IN  Become(r, [v EXCEPT !.eng = "join", !.closed = TRUE, !.wake = TRUE,
                               !.cancelled = @ \cup v.queued \cup v.submitting])
    /\ UNCHANGED <<scheduler, inbox, wire, ring>>

\* The progress thread has ended; queued jobs never started, pending ones are drained.
JoinThread(r) ==
    /\ w[r].eng = "join" /\ w[r].thr.pc \in {"idle", "dead"}
    /\ LET v == w[r]
           u == MarkCompleted([v EXCEPT !.eng = "drain", !.draining = v.pending, !.pending = {},
                                        !.queued = {}, !.held = @ \ v.queued,
                                        !.inflight = @ /\ v.queued = {}],
                              v.queued)
       IN  Become(r, u)
    /\ UNCHANGED <<scheduler, inbox, wire, ring, budget>>

\* quiesce drains one capture, and acknowledges its job.
QuiesceDrains(r, q) ==
    /\ w[r].eng = "drain" /\ q \in w[r].draining /\ Quiet(ring[r], q)
    /\ ring' = [ring EXCEPT ![r] = DrainContext(@, q)]
    /\ LET v == Retire([w[r] EXCEPT !.draining = @ \ {q}], q)
       IN  Become(r, AbortCapture(IF mode = "jobs" THEN MarkCompleted(v, {q}) ELSE v, q))
    /\ UNCHANGED <<scheduler, inbox, wire, budget>>

QuiesceRaises(r, q) ==
    /\ w[r].eng = "drain" /\ q \in w[r].draining /\ Fault
    /\ ring' = [ring EXCEPT ![r] = DrainFailed(@, q)]
    /\ Become(r, [w[r] EXCEPT !.eng = "raised"])
    /\ UNCHANGED <<scheduler, inbox, wire>>

\* The saver ended, or did not within the timeout.
StopStores(r) ==
    /\ w[r].eng = "drain" /\ w[r].draining = {}
    /\ Become(r, [w[r] EXCEPT !.eng = "stop"])
    /\ UNCHANGED <<scheduler, inbox, wire, ring, budget>>

\* ManagerPageCaptureRuntime.shutdown: a ring with live tickets is retained for the
\* saver, otherwise it is destroyed once its gathers have ended.
ShutdownRuntime(r) ==
    /\ w[r].eng = "stop"
    /\ IF w[r].tickets # {}
       THEN ring' = ring /\ Become(r, [w[r] EXCEPT !.eng = "retained"])
       ELSE /\ CanShutdown(ring[r])
            /\ ring' = [ring EXCEPT ![r] = ShutdownRing(@)]
            /\ Become(r, [w[r] EXCEPT !.eng = "closed"])
    /\ UNCHANGED <<scheduler, inbox, wire, budget>>

\* A quarantined stream cannot be synchronized.
ShutdownRaises(r) ==
    /\ w[r].eng = "stop" /\ w[r].tickets = {}
    /\ \E s \in Slots : ring[r][s].drain
    /\ ring' = [ring EXCEPT ![r] = AbandonAll(@)]
    /\ Become(r, [w[r] EXCEPT !.eng = "raised"])
    /\ UNCHANGED <<scheduler, inbox, wire, budget>>

WriterNext(r) == TakeStore(r) \/ ReleaseView(r) \/ \E ok \in BOOLEAN : CommitStore(r, ok)

ShutdownNext(r) ==
    \/ Quiesce(r) \/ JoinThread(r) \/ StopStores(r) \/ ShutdownRuntime(r) \/ ShutdownRaises(r)
    \/ \E q \in Requests : QuiesceDrains(r, q) \/ QuiesceRaises(r, q)

Next ==
    \/ SchedulerNext
    \/ \E r \in team.ranks : \/ EngineNext(r) \/ ThreadNext(r) \/ WriterNext(r) \/ ShutdownNext(r)
                             \/ \E s \in Slots : GatherEnds(r, s)

Spec == Init /\ [][Next]_vars
-----------------------------------------------------------------------------
(* Properties *)

WorkerSets == {"held", "queued", "submitting", "pending", "draining", "ready", "cancelled",
               "abandoned", "failed", "completed", "ended", "done", "uncertain"}

TypeOK ==
    /\ team \in Teams /\ mode \in Modes
    /\ req \in [Requests -> {"new", "run", "out", "delayed", "ended"}]
    /\ plan \in [Requests -> {"none", "open", "sent", "skipped"}]
    /\ {own, reserved, eligible} \subseteq SUBSET Requests
    /\ lease \in [Requests -> [held : BOOLEAN, ranks : SUBSET Ranks, quarantined : BOOLEAN]]
    /\ disabled \in BOOLEAN /\ sequence \in Nat /\ job \in [Requests -> Nat]
    /\ finishedBy \in [Requests -> SUBSET Ranks]
    /\ \A r \in Ranks : /\ RingTypeOK(ring[r])
                        /\ \A f \in WorkerSets : w[r][f] \subseteq Requests
                        /\ w[r].inflight \in BOOLEAN /\ w[r].fatal \in BOOLEAN

\* The GPU of rank r reads the source blocks of q.
Reading(r, q) == \E s \in Slots : ring[r][s].busy /\ ring[r][s].ctx = q

\* vLLM may overwrite the blocks the plan of q named, on rank r.
Overwritable(r, q) ==
    /\ q \notin own /\ ~lease[q].held
    /\ \A i \in DOMAIN inbox[r] : inbox[r][i] # [k |-> "preempt", q |-> q]

\* Source blocks are not given back while any rank's GPU still copies from them,
\* whatever is preempted, finished, replayed, abandoned, drained or shut down meanwhile
\* (capture_read_leases.py, manager_page_runtime.py).  The exception are stores answered
\* without a look at their read: wait_for_save skips a job, or _submit_request gives a
\* launch up that it could not drain.
SourcesPinned ==
    \A r \in Ranks, q \in Requests :
        Reading(r, q) => ~Overwritable(r, q) \/ q \in w[r].waived

\* Rank r has told the scheduler, or is about to, that it reads q no more.
Acknowledged(r, q) ==
    \/ q \in w[r].done \/ r \in lease[q].ranks
    \/ \E m \in wire : m.rank = r /\ q \in m.done

\* An acknowledged read has ended and never starts again: it is neither queued nor
\* pending nor on its way to the ring, whoever abandoned or replayed it
\* (_submit_queued_job, submit, quiesce).  The exception is a store wait_for_save
\* answered: it asks nobody whether that job is being read, and a job it skipped does
\* not count as seen.
AcknowledgedIsOver ==
    \A r \in Ranks, q \in Requests :
        Acknowledged(r, q) /\ q \notin w[r].waived =>
            /\ ~Reading(r, q)
            /\ q \notin w[r].queued \cup w[r].pending \cup w[r].draining
            /\ w[r].thr.q = q => w[r].thr.pc \in {"finally", "pop"}

\* Every view the saver reads, or will read, is a claimed slot of its own ticket, and
\* no slot is free, or lent, while a gather still fills it (PageSnapshotScatter,
\* RingState, shutdown).
ViewsLent ==
    \A r \in Ranks :
        /\ \A q \in w[r].ready \cup Range(w[r].storeq) \cup ({w[r].writer.q} \ {NoRequest}) :
               \E t \in Tickets(w[r], q) :
                   Resolves(ring[r], t) /\ ring[r][t.slot].st = "writing" /\ ring[r][t.slot].ctx = q
        /\ \A s \in Slots : ring[r][s].busy => ring[r][s].st = "filling"

\* No memory is reused while somebody reads it: neither the source blocks of a gather
\* nor the slot that a gather fills or the saver reads.
NothingReused == SourcesPinned /\ ViewsLent

\* Captures of rank r that hold the single saver admission.
InProgress(v) ==
    v.queued \cup v.pending \cup v.draining \cup v.ready \cup Range(v.storeq)
        \cup (IF v.thr.pc \in {"check", "native", "insert", "undo"} THEN {v.thr.q} ELSE {})
        \cup (IF v.writer.pc = "commit" THEN {v.writer.q} ELSE {})

\* The admission of wait_for_save: while the runtime works, at most one capture is
\* under way per rank, and the saver is busy exactly as long as it is.  A busy flag
\* nobody will clear would end publication for good: only a plan replayed in the
\* moment its read is given up leaves one behind.
OneAdmission ==
    \A r \in Ranks :
        ~w[r].fatal /\ w[r].eng # "raised" =>
                       /\ Cardinality(InProgress(w[r])) <= 1
                       /\ w[r].inflight <=> InProgress(w[r]) # {} \/ w[r].leaked

\* Uncertain reads keep their lease: a quarantined job that some rank could not drain
\* is never freed, unless wait_for_save answered for it there, and no new one is
\* reserved (quarantine).
QuarantineHolds ==
    /\ \A q \in Requests : lease[q].quarantined /\ ~lease[q].held =>
           \A r \in Ranks : \/ q \in w[r].waived
                            \/ ~Reading(r, q) /\ (q \in w[r].failed => w[r].closed)
    /\ (\E q \in Requests : lease[q].quarantined) => disabled

\* A worker that has shut down owns nothing, except the view of a saver that
\* outlived the timeout (shutdown).
ClosedOwnsNothing ==
    \A r \in Ranks :
        w[r].eng \in {"stop", "closed", "retained"} =>
            /\ InProgress(w[r]) \ (Range(w[r].storeq) \cup {w[r].writer.q}) = {}
            /\ w[r].eng = "closed" => \A s \in Slots : ring[r][s].st = "free"

\* The books of a worker are right at any time and after a shutdown.
Accounted == TypeOK /\ OneAdmission /\ ClosedOwnsNothing

\* "A repeated active job cannot release its sources" (docs/jj-connector-read-leases.md):
\* no rank answers for a job that it reads.  The code does not meet it, see SkipSave.
RepeatsWait ==
    mode = "jobs" => \A r \in Ranks, q \in Requests : Acknowledged(r, q) => ~Reading(r, q)

Delivering(r, k, q) == \E i \in DOMAIN inbox[r] : inbox[r][i] = [k |-> k, q |-> q]

\* No lease and no delayed request waits for nothing: every rank that has not answered
\* has the message to come, the read in hand, or the answer on its way, unless the read
\* is uncertain or (for a delayed request) a fault ended the answers
\* (has_pending_push_work, get_finished).
ReturnOwed ==
    \A q \in Requests, r \in team.ranks :
        /\ lease[q].held =>
               \/ Acknowledged(r, q) \/ Delivering(r, "save", q)
               \/ q \in Owned(w[r]) \cup w[r].uncertain
        /\ req[q] = "delayed" =>
               \/ r \in finishedBy[q] \/ Delivering(r, "finish", q) \/ faults > 0
               \/ q \in w[r].ended \cap (w[r].completed \cup w[r].pending)
               \/ \E m \in wire : m.rank = r /\ q \in m.finished
=============================================================================
