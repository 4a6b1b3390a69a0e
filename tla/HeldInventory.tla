---------------------------- MODULE HeldInventory ----------------------------
(***************************************************************************)
(* What one worker offers for restore: the held inventory of the connector *)
(* (held_inventory.py) and every thread that changes it or the roots behind*)
(* it: the saver, the capacity thread, a loader, the integrity sweep,      *)
(* discovery at start-up and shutdown.                                     *)
(*                                                                         *)
(* Two locks order them.  _capacity_lock is held over a whole maintenance  *)
(* pass and by a commit from its accounting to its offer; the worker-state *)
(* lock (_load_lock, _load_cv and _store_cv are one lock) protects each    *)
(* read or change of the inventory.  Roots on disk have no lock in common  *)
(* with either.  Sizes are counted in roots.                               *)
(***************************************************************************)
EXTENDS Integers, FiniteSets

CONSTANTS
    Digests,
    NoDigest,
    Base,         \* [Digests -> Digests \cup {NoDigest}]: what a page store extends
    Shorter,      \* [Digests -> SUBSET Digests]: the aliases published with a row store
    Deployments,  \* how a worker publishes: "pages" and "rows" by the saver, "stream"
    TtlSettings,  \* whether entries expire
    MaxRoots,     \* max_bytes, in roots
    MaxStores,    \* bound: publications
    MaxLoads,     \* bound: loads and sweeps
    MaxFaults     \* bound: failed calls, busy or partial passes, damage, expiry, shutdown

ASSUME InventoryConstants ==
    /\ IsFiniteSet(Digests) /\ NoDigest \notin Digests
    /\ Base \in [Digests -> Digests \cup {NoDigest}] /\ \A d \in Digests : Base[d] # d
    /\ Shorter \in [Digests -> SUBSET Digests]
    /\ Deployments \subseteq {"pages", "rows", "stream"} /\ TtlSettings \subseteq BOOLEAN
    /\ {MaxRoots, MaxStores, MaxLoads, MaxFaults} \subseteq Nat

VARIABLES
    kind,     \* the deployment
    ttl,      \* entries expire
    roots,    \* roots on disk: <<"manifest" | "alias", digest>>
    rot,      \* digests with a damaged payload: only reading it finds out
    old,      \* digests whose time to live is over
    held,     \* _held
    owner,    \* holder of _capacity_lock
    pass,     \* the maintenance pass under way
    est,      \* _capacity_estimated_bytes
    fit,      \* _capacity_status["capacity_satisfied"]
    more,     \* _capacity_status["maintenance_work_pending"]
    pins,     \* _publication_base_pins: [result, base]
    saver,    \* the publication of the saver; inflight while pc # "idle"
    cap,      \* the capacity thread
    handoff,  \* receipts for the capacity thread: announced, queue, pending
    load,     \* the loader
    sweep,    \* sweep_integrity
    life,     \* "boot", "look", "serve", "wait", "stop", "closed"
    boot,     \* discover_manifests: the digests it still looks up, and those it found
    wake,     \* _capacity_wakeup
    deferred, \* offered digests that a pass removed, until a clean pass settles them
    dropped,  \* digests whose root a load or a sweep removed since it was published
    uncounted,\* digests whose commit failed with the root in place, until a pass counts it
    stores, loads, faults

disk == <<roots, rot, old>>
account == <<est, fit, more, uncounted>>
bounds == <<stores, loads, faults>>
setting == <<kind, ttl, boot>>
others == <<load, sweep, life>>
vars == <<setting, disk, held, owner, pass, account, pins, saver, cap, handoff, load, sweep,
          life, wake, deferred, dropped, bounds>>

NoPass == [pc |-> "none", held |-> {}, clean |-> TRUE, safe |-> {}, gone |-> {}, todo |-> {},
           alive |-> {}, report |-> "none"]
Resting == [pc |-> "idle", d |-> NoDigest, base |-> NoDigest, aliases |-> {}, required |-> FALSE,
            evicted |-> FALSE, alive |-> {}, lost |-> FALSE]  \* lost: a pass took the root, and no report says so
NoSweep == [pc |-> "idle", start |-> {}, todo |-> {}, verified |-> {}, d |-> NoDigest]
NoLoad == [pc |-> "idle", d |-> NoDigest, root |-> "none"]
NoSearch == [todo |-> {}, found |-> {}]

Manifests == {d \in Digests : <<"manifest", d>> \in roots}

\* _lookup_reusable: the manifest wins, an alias counts for row storage.
RootOf(d) == CASE <<"manifest", d>> \in roots -> "manifest"
               [] <<"manifest", d>> \notin roots /\ kind = "rows" /\ <<"alias", d>> \in roots -> "alias"
               [] OTHER -> "none"
Usable == {d \in Digests : RootOf(d) # "none"}

Fault == faults < MaxFaults /\ faults' = faults + 1
Allowed(fault) == IF fault THEN Fault ELSE faults' = faults

Init ==
    /\ kind \in Deployments /\ ttl \in TtlSettings
    /\ \E S \in SUBSET Digests : roots = {"manifest"} \X S
    /\ rot = {} /\ old = {}
    /\ held = {} /\ owner = "free" /\ pass = NoPass
    /\ est = Cardinality(roots) /\ fit = (est <= MaxRoots) /\ more = FALSE
    /\ pins = {} /\ saver = Resting
    /\ cap = [pc |-> "idle", retry |-> FALSE, counted |-> {}, alive |-> {}]
    /\ handoff = [announced |-> {}, queue |-> {}, pending |-> {}, taken |-> {}]
    /\ load = NoLoad /\ sweep = NoSweep
    /\ life = "boot" /\ boot = NoSearch /\ wake = ~fit
    /\ deferred = {} /\ dropped = {} /\ uncounted = {}
    /\ stores = 0 /\ loads = 0 /\ faults = 0

\* A change of the inventory; a pass that looked at it before is stale then
\* (HeldInventory.revision).  A digest that is withdrawn owes nothing any more.
Offer(new) ==
    /\ held' = new
    /\ deferred' = deferred \cap new

Touch(p, new) == [p EXCEPT !.clean = @ /\ new = held]

\* discover_manifests holds the worker-state lock over the whole scan, which keeps every
\* other change of the inventory out, and not _capacity_lock: a pass may go on beside it.
Unlocked == life # "look"

DiscoverBegins ==
    /\ life = "boot" /\ life' = "look"
    /\ boot' = [NoSearch EXCEPT !.todo = {r[2] : r \in {x \in roots : x[1] = "manifest" \/ kind = "rows"}}]
    /\ UNCHANGED <<kind, ttl, disk, held, owner, pass, account, pins, saver, cap, handoff, load>>
    /\ UNCHANGED <<sweep, wake, deferred, dropped, bounds>>

\* One lookup; what it misses is gone already.
DiscoverLooks(d) ==
    /\ life = "look" /\ d \in boot.todo
    /\ boot' = [todo |-> boot.todo \ {d}, found |-> boot.found \cup ({d} \cap Usable)]
    /\ UNCHANGED <<kind, ttl, disk, held, owner, pass, account, pins, saver, cap, handoff, others>>
    /\ UNCHANGED <<wake, deferred, dropped, bounds>>

\* What was found replaces the inventory, also when an error ended the scan early.
DiscoverEnds ==
    /\ life = "look" /\ life' = "serve" /\ Allowed(boot.todo # {})
    /\ held' = boot.found /\ pass' = [pass EXCEPT !.clean = FALSE]
    /\ deferred' = (deferred \cap boot.found) \cup (boot.found \ Usable)
    /\ boot' = NoSearch
    /\ UNCHANGED <<kind, ttl, disk, owner, account, pins, saver, cap, handoff, load, sweep, wake>>
    /\ UNCHANGED <<dropped, stores, loads>>

-----------------------------------------------------------------------------
(* A maintenance pass; its caller holds _capacity_lock. *)

Protected == UNION {{p.base, p.result} : p \in pins}

\* _perform_capacity_maintenance_locked takes its snapshot.
Begin == [NoPass EXCEPT !.pc = "scan", !.held = held, !.safe = Protected]

\* What ManifestStore.maintain may remove: expired roots, then, above the limit, roots
\* down to it, in the order of their last use.
Victims ==
    LET free == {r \in roots : ~(r[1] = "manifest" /\ r[2] \in pass.safe)}
        dead == {r \in free : r[2] \in old}
        excess == Cardinality(roots \ dead) - MaxRoots
        live == free \ dead
        need == IF excess <= 0 THEN 0 ELSE IF excess < Cardinality(live) THEN excess
                                                                       ELSE Cardinality(live)
    IN  {dead \cup S : S \in {T \in SUBSET live : Cardinality(T) = need}}

\* The digests _reconcile_held_capacity keeps when the roots R are left.
Survivors(R) == {d \in Digests : \/ <<"manifest", d>> \in R
                                 \/ kind = "rows" /\ <<"alias", d>> \in R}

\* A pass unlinks the roots W.  The saver in one of the stages pcs does not hear of it.
Unlinks(W, pcs) ==
    /\ roots' = roots \ W
    /\ saver' = [saver EXCEPT !.lost = @ \/ (saver.pc \in pcs /\ <<"manifest", saver.d>> \in W)]

\* A pass that removes the roots W, and its report.
Removes(W, partial) ==
    LET left == roots \ W
    IN  /\ Unlinks(W, {"alias", "lock"})
        /\ pass' = [pass EXCEPT !.pc = "apply", !.report = "ok", !.gone = W, !.alive = Survivors(left)]
        /\ est' = Cardinality(left) /\ fit' = (Cardinality(left) <= MaxRoots)
        /\ more' = partial /\ uncounted' = {}

\* store.maintain runs to its end, or stops at its deletion budget.
Scan(partial) ==
    /\ pass.pc = "scan" /\ Allowed(partial)
    /\ \E V \in Victims :
         \E W \in IF partial THEN SUBSET V \ {V} ELSE {V} : Removes(W, partial)
    /\ UNCHANGED <<setting, rot, old, held, owner, pins, cap, handoff, load, sweep, life>>
    /\ UNCHANGED <<wake, deferred, dropped, stores, loads>>

\* The pass raises, after it unlinked some roots or before, or finds the root guard taken.
ScanFails ==
    /\ pass.pc = "scan" /\ Fault
    /\ \E V \in Victims : \E W \in SUBSET V :
         /\ Unlinks(W, {"alias", "lock", "pass"})
         /\ pass' = [pass EXCEPT !.pc = "failed", !.report = "unknown", !.gone = W]
    /\ fit' = FALSE /\ UNCHANGED <<est, more, uncounted>>
    /\ UNCHANGED <<setting, rot, old, held, owner, pins, cap, handoff, load, sweep, life>>
    /\ UNCHANGED <<wake, deferred, dropped, stores, loads>>

\* The last pass was too recent: nothing is looked at.
ScanCools ==
    /\ pass.pc = "scan" /\ Fault
    /\ pass' = [pass EXCEPT !.pc = "over", !.report = "cooldown"]
    /\ UNCHANGED <<setting, disk, held, owner, account, pins, saver, cap, handoff, load, sweep, life>>
    /\ UNCHANGED <<wake, deferred, dropped, stores, loads>>

\* _reconcile_held_capacity takes a snapshot: each offer is looked up instead.
Reconcile ==
    /\ pass.pc = "failed" /\ Unlocked
    /\ pass' = [pass EXCEPT !.pc = "probe", !.held = held, !.clean = TRUE, !.todo = held]
    /\ UNCHANGED <<setting, disk, held, owner, account, pins, saver, cap, handoff, load, sweep, life>>
    /\ UNCHANGED <<wake, deferred, dropped, bounds>>

\* Its lookups, one after the other.
Probe ==
    /\ pass.pc = "probe"
    /\ \/ /\ pass.todo = {} /\ pass' = [pass EXCEPT !.pc = "apply"]
       \/ \E d \in pass.todo :
            pass' = [pass EXCEPT !.todo = @ \ {d}, !.alive = @ \cup ({d} \cap Usable)]
    /\ UNCHANGED <<setting, disk, held, owner, account, pins, saver, cap, handoff, load, sweep, life>>
    /\ UNCHANGED <<wake, deferred, dropped, bounds>>

\* _apply_held_capacity_survivors: an inventory that changed is left as it is.
Apply ==
    /\ pass.pc = "apply"
    /\ IF pass.clean THEN held' = held \ (pass.held \ pass.alive) /\ deferred' = {}
                     ELSE held' = held /\ deferred' = deferred \cup (held \ pass.alive)
    /\ pass' = [pass EXCEPT !.pc = "over"]
    /\ UNCHANGED <<setting, disk, owner, account, pins, saver, cap, handoff, load, sweep, life>>
    /\ UNCHANGED <<wake, dropped, bounds>>

\* The pass asks for another one (wake_worker_on_unsatisfied).
Unfinished == pass.report # "ok" \/ ~fit \/ more

PassNext == \/ \E partial \in BOOLEAN : Scan(partial)
            \/ ScanFails \/ ScanCools \/ Reconcile \/ Probe \/ Apply
-----------------------------------------------------------------------------
(* The saver *)

\* wait_for_save: one publication at a time, of a digest that is not offered.
Admit(d, base) ==
    /\ life = "serve" /\ kind # "stream" /\ saver.pc = "idle" /\ d \notin held
    /\ stores < MaxStores /\ stores' = stores + 1
    /\ base \in {NoDigest, Base[d]}
    /\ saver' = [Resting EXCEPT !.pc = "protect", !.d = d, !.base = base]
    /\ UNCHANGED <<setting, disk, held, owner, pass, account, pins, cap, handoff, others, wake>>
    /\ UNCHANGED <<deferred, dropped, loads, faults>>

\* Mutant: the base is pinned while a pass runs.
ProtectAnyway ==
    /\ saver.pc = "protect"
    /\ LET pin == kind = "pages" /\ saver.base \in held /\ fit
       IN  /\ pins' = IF pin THEN pins \cup {[result |-> saver.d, base |-> saver.base]} ELSE pins
           /\ saver' = [saver EXCEPT !.pc = "commit",
                                     !.base = IF kind = "rows" \/ pin THEN @ ELSE NoDigest]
    /\ UNCHANGED <<setting, disk, held, owner, pass, account, cap, handoff, others, wake>>
    /\ UNCHANGED <<deferred, dropped, bounds>>

\* _protect_capture_publication_base: the base of a page capture is pinned if that needs
\* no waiting, otherwise the capture is complete.  A row store names its base unpinned.
Protect ==
    /\ saver.pc = "protect"
    /\ LET pin == kind = "pages" /\ saver.base \in held /\ owner = "free" /\ fit
       IN  /\ pins' = IF pin THEN pins \cup {[result |-> saver.d, base |-> saver.base]} ELSE pins
           /\ saver' = [saver EXCEPT !.pc = "commit",
                                     !.base = IF kind = "rows" \/ pin THEN @ ELSE NoDigest]
    /\ UNCHANGED <<setting, disk, held, owner, pass, account, cap, handoff, others, wake>>
    /\ UNCHANGED <<deferred, dropped, bounds>>

BaseReadable == saver.base = NoDigest \/ (saver.base \in Manifests /\ saver.base \notin rot)

\* A publication that ended well: root and bytes are there.
Published(d) ==
    /\ roots' = roots \cup {<<"manifest", d>>}
    /\ rot' = rot \ {d} /\ old' = old \ {d} /\ dropped' = dropped \ {d}

\* _store_worker_main commits to the store.
SaverCommit ==
    /\ saver.pc = "commit" /\ BaseReadable
    /\ Published(saver.d) /\ uncounted' = uncounted \ {saver.d}
    /\ saver' = [saver EXCEPT !.pc = IF kind = "rows" THEN "alias" ELSE "lock"]
    /\ UNCHANGED <<setting, held, owner, pass, est, fit, more, pins, cap, handoff, others, wake>>
    /\ UNCHANGED <<deferred, bounds>>

\* _release_publication_base_pin
Unpin(d) ==
    /\ pins' = {p \in pins : p.result # d}
    /\ wake' = (wake \/ (pins' # pins /\ ~fit))

\* The base is gone or unreadable, or the capture or the commit fails: _finish_store.  The
\* commit may have linked its root by then, which nobody offers, removes or accounts.
SaverFails(linked) ==
    /\ saver.pc = "commit" /\ Allowed(BaseReadable)
    /\ linked => BaseReadable
    /\ IF linked THEN Published(saver.d) ELSE UNCHANGED <<disk, dropped>>
    /\ uncounted' = IF linked THEN uncounted \cup ({saver.d} \ Manifests) ELSE uncounted
    /\ Unpin(saver.d)
    /\ Offer(held \ {saver.d}) /\ pass' = Touch(pass, held \ {saver.d})
    /\ saver' = Resting
    /\ UNCHANGED <<setting, owner, est, fit, more, cap, handoff, others, stores, loads>>

\* _publish_row_prefix_aliases: an error there leaves the exact entry alone, and aliases
\* that were published by then, which nobody offers.
SaverAliases(fails) ==
    /\ saver.pc = "alias" /\ Allowed(fails)
    /\ \E new \in IF fails THEN SUBSET Shorter[saver.d] ELSE {Shorter[saver.d]} :
         /\ roots' = roots \cup ({"alias"} \X new)
         /\ saver' = [saver EXCEPT !.pc = "lock", !.aliases = IF fails THEN {} ELSE new]
    /\ UNCHANGED <<setting, rot, old, held, owner, pass, account, pins, cap, handoff, others, wake>>
    /\ UNCHANGED <<deferred, dropped, stores, loads>>

\* Mutant: the commit is not accounted.
SaverAccountsNothing ==
    /\ saver.pc = "lock" /\ owner = "free" /\ owner' = "saver"
    /\ Unpin(saver.d)
    /\ UNCHANGED account
    /\ saver' = [saver EXCEPT !.pc = "pass", !.required = (saver.aliases # {})]
    /\ pass' = IF saver.aliases # {} \/ est > MaxRoots \/ more THEN Begin ELSE NoPass
    /\ UNCHANGED <<setting, disk, held, cap, handoff, others, deferred, dropped, bounds>>

\* Under _capacity_lock: the pin goes, the bytes are noted
\* (_note_capacity_commit_locked), and a pass begins if one is due
\* (_maintain_capacity_locked).
SaverAccounts ==
    /\ saver.pc = "lock" /\ owner = "free" /\ owner' = "saver"
    /\ Unpin(saver.d)
    /\ est' = est + 1 /\ fit' = (fit /\ est + 1 <= MaxRoots) /\ UNCHANGED <<more, uncounted>>
    /\ LET force == saver.aliases # {}
       IN  /\ saver' = [saver EXCEPT !.pc = "pass", !.required = force \/ est + 1 > MaxRoots]
           /\ pass' = IF force \/ est + 1 > MaxRoots \/ more
                      THEN [Begin EXCEPT !.safe = UNION {{p.base, p.result} : p \in pins'}]
                      ELSE NoPass
    /\ UNCHANGED <<setting, disk, held, cap, handoff, others, deferred, dropped, bounds>>

\* Mutant: a pass that was skipped is taken for one that kept the entry.
EvictedByReport(p, d, required) ==
    p.report = "ok" /\ <<"manifest", d>> \in p.gone

\* _post_commit_was_evicted_locked: the report answers, and a read where it cannot.
WasEvicted(p, d, required) ==
    IF p.report = "ok"
    THEN /\ <<"manifest", d>> \in p.gone
         /\ kind = "rows" /\ <<"alias", d>> \in roots => d \notin Usable
    ELSE required /\ ~(d \in Manifests /\ d \in Usable)

\* The outcome, and the aliases that are still usable (_surviving_alias_digests).
SaverDecides ==
    /\ saver.pc = "pass" /\ pass.pc \in {"none", "over"}
    /\ saver' = [saver EXCEPT !.pc = "finish",
                              !.evicted = WasEvicted(pass, saver.d, saver.required),
                              !.lost = @ /\ (pass.report = "ok" \/ ~saver.required),
                              !.alive = saver.aliases \cap Usable]
    /\ wake' = (wake \/ (pass.pc = "over" /\ Unfinished))
    /\ pass' = NoPass
    /\ UNCHANGED <<setting, disk, held, owner, account, pins, cap, handoff, others, deferred>>
    /\ UNCHANGED <<dropped, bounds>>

\* _finish_store, and the lock is released.
SaverFinishes ==
    /\ saver.pc = "finish"
    /\ held' = IF saver.evicted THEN held \ {saver.d} ELSE held \cup {saver.d} \cup saver.alive
    /\ deferred' = (deferred \cap held') \cup (IF saver.lost /\ ~saver.evicted THEN {saver.d} ELSE {})
    /\ owner' = "free" /\ saver' = Resting
    /\ UNCHANGED <<setting, disk, pass, account, pins, cap, handoff, others, wake, dropped, bounds>>

SaverNext == \/ Protect \/ SaverCommit \/ SaverAccounts \/ SaverDecides \/ SaverFinishes
             \/ \E bad \in BOOLEAN : SaverAliases(bad) \/ SaverFails(bad)
-----------------------------------------------------------------------------
(* Streamed commits and the capacity thread *)

\* The streaming publisher has published d durably.
StreamCommit(d) ==
    /\ kind = "stream" /\ life = "serve" /\ stores < MaxStores /\ stores' = stores + 1
    /\ Published(d)
    /\ handoff' = [handoff EXCEPT !.announced = @ \cup {d}]
    /\ UNCHANGED <<setting, held, owner, pass, account, pins, saver, cap, others, wake, deferred>>
    /\ UNCHANGED <<loads, faults>>

\* _handoff_streaming_commits: nothing is offered here, only queued.
Handoff(d) ==
    /\ life = "serve" /\ d \in handoff.announced
    /\ LET skip == d \in held \cup handoff.pending
       IN  /\ handoff' = [handoff EXCEPT !.announced = @ \ {d},
                                         !.queue = IF skip THEN @ ELSE @ \cup {d},
                                         !.pending = IF skip THEN @ ELSE @ \cup {d}]
           /\ wake' = (wake \/ ~skip)
    /\ UNCHANGED <<setting, disk, held, owner, pass, account, pins, saver, cap, others>>
    /\ UNCHANGED <<deferred, dropped, bounds>>

Stopping == life \in {"stop", "closed"}

\* _capacity_worker_main: woken, retrying, or by the clock that only expiry needs.
CapWakes ==
    /\ cap.pc = "idle" /\ ~Stopping
    /\ wake \/ cap.retry \/ handoff.taken # {} \/ ttl
    /\ wake' = FALSE
    /\ handoff' = [handoff EXCEPT !.taken = @ \cup handoff.queue, !.queue = {}]
    /\ cap' = [cap EXCEPT !.pc = "lock"]
    /\ UNCHANGED <<setting, disk, held, owner, pass, account, pins, saver, others>>
    /\ UNCHANGED <<deferred, dropped, bounds>>

CapStops ==
    /\ cap.pc = "idle" /\ Stopping
    /\ cap' = [cap EXCEPT !.pc = "done"]
    /\ UNCHANGED <<setting, disk, held, owner, pass, account, pins, saver, handoff, others, wake>>
    /\ UNCHANGED <<deferred, dropped, bounds>>

\* Under _capacity_lock: new receipts are accounted once; a pass runs when there is
\* none to resolve, or when the limit asks for one.
CapLocks ==
    /\ cap.pc = "lock" /\ owner = "free" /\ Unlocked /\ owner' = "cap"
    /\ LET e == est + Cardinality(handoff.taken \ cap.counted)
           f == fit /\ e <= MaxRoots
           scan == handoff.taken = {} \/ ~f
       IN  /\ est' = e /\ fit' = IF handoff.taken \ cap.counted = {} THEN fit ELSE f
           /\ UNCHANGED <<more, uncounted>>
           /\ pass' = IF scan THEN Begin ELSE pass
           /\ cap' = [cap EXCEPT !.pc = IF scan THEN "pass" ELSE "look", !.counted = handoff.taken]
    /\ UNCHANGED <<setting, disk, held, pins, saver, handoff, others, wake, deferred, dropped>>
    /\ UNCHANGED bounds

Release(c) == owner' = "free" /\ cap' = c

\* The pass is over: receipts wait for one that met the limit.
CapAfterPass ==
    /\ cap.pc = "pass" /\ pass.pc = "over"
    /\ IF handoff.taken # {} /\ pass.report = "ok" /\ fit
       THEN owner' = owner /\ cap' = [cap EXCEPT !.pc = "look"]
       ELSE Release([cap EXCEPT !.pc = "idle", !.retry = handoff.taken # {} \/ Unfinished])
    /\ pass' = NoPass
    /\ UNCHANGED <<setting, disk, held, account, pins, saver, handoff, others, wake>>
    /\ UNCHANGED <<deferred, dropped, bounds>>

\* The survivor check of _finalize_streaming_capacity_commits.
CapLooks ==
    /\ cap.pc = "look"
    /\ cap' = [cap EXCEPT !.pc = "offer", !.alive = handoff.taken \cap Manifests \cap Usable]
    /\ UNCHANGED <<setting, disk, held, owner, pass, account, pins, saver, handoff, others, wake>>
    /\ UNCHANGED <<deferred, dropped, bounds>>

CapLookFails ==
    /\ cap.pc = "look" /\ Fault
    /\ fit' = FALSE /\ UNCHANGED <<est, more, uncounted>>
    /\ Release([cap EXCEPT !.pc = "idle", !.retry = TRUE])
    /\ UNCHANGED <<setting, disk, held, pass, pins, saver, handoff, others, wake, deferred, dropped>>
    /\ UNCHANGED <<stores, loads>>

\* The only point at which a streamed commit becomes visible; not after the stop edge.
CapOffers ==
    /\ cap.pc = "offer"
    /\ IF Stopping THEN /\ Release([cap EXCEPT !.pc = "idle", !.retry = TRUE, !.alive = {}])
                        /\ UNCHANGED <<held, deferred>>
                   ELSE /\ Offer((held \cup cap.alive) \ (handoff.taken \ cap.alive))
                        /\ Release([cap EXCEPT !.pc = "resolve", !.alive = {}])
    /\ UNCHANGED <<setting, disk, pass, account, pins, saver, handoff, others, wake, dropped, bounds>>

CapResolves ==
    /\ cap.pc = "resolve"
    /\ handoff' = [handoff EXCEPT !.pending = @ \ handoff.taken, !.taken = {}]
    /\ cap' = [cap EXCEPT !.pc = "idle", !.retry = more, !.counted = {}]
    /\ UNCHANGED <<setting, disk, held, owner, pass, account, pins, saver, others, wake>>
    /\ UNCHANGED <<deferred, dropped, bounds>>

CapNext == \/ CapWakes \/ CapStops \/ CapLocks \/ CapAfterPass \/ CapLooks \/ CapLookFails
           \/ CapOffers \/ CapResolves
-----------------------------------------------------------------------------
(* Loads, the integrity sweep, the environment and shutdown *)

\* A load of an offered digest is dispatched.
LoadStarts(d) ==
    /\ life = "serve" /\ load.pc = "idle" /\ d \in held
    /\ loads < MaxLoads /\ loads' = loads + 1
    /\ load' = [NoLoad EXCEPT !.pc = "lookup", !.d = d]
    /\ UNCHANGED <<setting, disk, held, owner, pass, account, pins, saver, cap, handoff, sweep>>
    /\ UNCHANGED <<life, wake, deferred, dropped, stores, faults>>

\* _load_one: an expired entry is withdrawn (where entries expire, a missing one counts
\* as expired); otherwise a miss ends the load, and the offer stands.
LoadLooksUp ==
    /\ load.pc = "lookup"
    /\ LET d == load.d
           expired == ttl /\ (d \in old \/ RootOf(d) = "none")
           new == IF expired THEN held \ {d} ELSE held
       IN  /\ Offer(new) /\ pass' = Touch(pass, new)
           /\ wake' = (wake \/ expired)
           /\ load' = IF expired \/ RootOf(d) = "none" THEN NoLoad
                      ELSE [load EXCEPT !.pc = "read", !.root = RootOf(d)]
    /\ UNCHANGED <<setting, disk, owner, account, pins, saver, cap, handoff, sweep, life, dropped>>
    /\ UNCHANGED bounds

\* The restore verifies every byte; an entry that fails is withdrawn first
\* (_invalidate_after_failure).
LoadReads ==
    /\ load.pc = "read"
    /\ LET fine == <<load.root, load.d>> \in roots /\ load.d \notin rot
           new == IF fine THEN held ELSE held \ {load.d}
       IN  /\ Offer(new) /\ pass' = Touch(pass, new)
           /\ load' = IF fine THEN NoLoad ELSE [load EXCEPT !.pc = "invalidate"]
    /\ UNCHANGED <<setting, disk, owner, account, pins, saver, cap, handoff, sweep, life, wake>>
    /\ UNCHANGED <<dropped, bounds>>

\* _invalidate_reusable removes the root the lookup had selected, whoever wrote it since.
Invalidate(root, d) ==
    /\ roots' = roots \ {<<root, d>>}
    /\ dropped' = IF <<root, d>> \in roots THEN dropped \cup {d} ELSE dropped
    /\ UNCHANGED <<rot, old>>

LoadInvalidates ==
    /\ load.pc = "invalidate"
    /\ Invalidate(load.root, load.d) /\ load' = NoLoad
    /\ UNCHANGED <<setting, held, owner, pass, account, pins, saver, cap, handoff, sweep, life, wake>>
    /\ UNCHANGED <<deferred, bounds>>

SweepBegins ==
    /\ life = "serve" /\ sweep.pc = "idle" /\ held # {}
    /\ loads < MaxLoads /\ loads' = loads + 1
    /\ sweep' = [NoSweep EXCEPT !.pc = "check", !.start = held, !.todo = held]
    /\ UNCHANGED <<setting, disk, held, owner, pass, account, pins, saver, cap, handoff, load>>
    /\ UNCHANGED <<life, wake, deferred, dropped, stores, faults>>

\* sweep_integrity reads one entry; a bad one is withdrawn at once.
SweepChecks(d) ==
    /\ sweep.pc = "check" /\ d \in sweep.todo
    /\ LET fine == RootOf(d) # "none" /\ d \notin rot
           new == IF fine THEN held ELSE held \ {d}
       IN  /\ Offer(new) /\ pass' = Touch(pass, new)
           /\ sweep' = IF fine THEN [sweep EXCEPT !.todo = @ \ {d}, !.verified = @ \cup {d}]
                       ELSE [sweep EXCEPT !.pc = "invalidate", !.todo = @ \ {d}, !.d = d]
    /\ UNCHANGED <<setting, disk, owner, account, pins, saver, cap, handoff, load, life, wake>>
    /\ UNCHANGED <<dropped, bounds>>

SweepInvalidates ==
    /\ sweep.pc = "invalidate"
    /\ Invalidate(IF RootOf(sweep.d) = "alias" THEN "alias" ELSE "manifest", sweep.d)
    /\ sweep' = [sweep EXCEPT !.pc = "check", !.d = NoDigest]
    /\ UNCHANGED <<setting, held, owner, pass, account, pins, saver, cap, handoff, load, life, wake>>
    /\ UNCHANGED <<deferred, bounds>>

\* The sweep ends: what it verified is offered again, whatever happened to it since.
SweepEnds ==
    /\ sweep.pc = "check" /\ sweep.todo = {}
    /\ LET new == (held \ (sweep.start \ sweep.verified)) \cup sweep.verified
       IN  /\ held' = new /\ pass' = Touch(pass, new)
           /\ deferred' = (deferred \cap new) \cup (sweep.verified \ Usable)
    /\ sweep' = NoSweep
    /\ UNCHANGED <<setting, disk, owner, account, pins, saver, cap, handoff, load, life, wake>>
    /\ UNCHANGED <<dropped, bounds>>

Damage(d) ==
    /\ RootOf(d) # "none" /\ d \notin rot /\ Fault
    /\ rot' = rot \cup {d}
    /\ UNCHANGED <<setting, roots, old, held, owner, pass, account, pins, saver, cap, handoff>>
    /\ UNCHANGED <<others, wake, deferred, dropped, stores, loads>>

Expire(d) ==
    /\ ttl /\ RootOf(d) # "none" /\ d \notin old /\ Fault
    /\ old' = old \cup {d}
    /\ UNCHANGED <<setting, roots, rot, held, owner, pass, account, pins, saver, cap, handoff>>
    /\ UNCHANGED <<others, wake, deferred, dropped, stores, loads>>

\* shutdown: the last handoffs get a pass, or five seconds; then the stop edge; then the
\* capacity thread ends, or five seconds, and what is unresolved is dropped.
Shutdown ==
    /\ life = "serve" /\ life' = "wait" /\ wake' = TRUE /\ Fault
    /\ UNCHANGED <<setting, disk, held, owner, pass, account, pins, saver, cap, handoff, load, sweep>>
    /\ UNCHANGED <<deferred, dropped, stores, loads>>

ShutdownGoesOn ==
    /\ \/ life = "wait" /\ life' = "stop" /\ handoff' = handoff
       \/ /\ life = "stop" /\ life' = "closed"
          /\ handoff' = [handoff EXCEPT !.pending = {}]
    /\ wake' = TRUE
    /\ UNCHANGED <<setting, disk, held, owner, pass, account, pins, saver, cap, load, sweep>>
    /\ UNCHANGED <<deferred, dropped, bounds>>

LoadNext == LoadLooksUp \/ LoadReads \/ LoadInvalidates
SweepNext == SweepInvalidates \/ SweepEnds \/ \E d \in Digests : SweepChecks(d)

Next ==
    \/ DiscoverBegins \/ DiscoverEnds \/ PassNext \/ SaverNext \/ CapNext \/ LoadNext \/ SweepNext \/ SweepBegins
    \/ Shutdown \/ ShutdownGoesOn
    \/ \E d \in Digests : \/ DiscoverLooks(d) \/ StreamCommit(d) \/ Handoff(d) \/ LoadStarts(d) \/ Expire(d) \/ Damage(d)
                          \/ \E base \in {NoDigest, Base[d]} : Admit(d, base)

Spec == Init /\ [][Next]_vars
-----------------------------------------------------------------------------
(* Properties *)

\* The types, and who holds the locks.
TypeOK ==
    /\ kind \in Deployments /\ ttl \in TtlSettings
    /\ roots \subseteq {"manifest", "alias"} \X Digests
    /\ held \subseteq Digests /\ est \in Int /\ fit \in BOOLEAN
    /\ \A p \in pins : p.result = saver.d /\ p.base = saver.base /\ p.base \in Digests
    /\ owner \in {"free", "saver", "cap"}
    /\ pass.pc # "none" => owner # "free"
    /\ owner = "saver" <=> saver.pc \in {"pass", "finish"}
    /\ owner = "cap" <=> cap.pc \in {"pass", "look", "offer"}

\* Neither discovery, the saver nor the capacity thread offers, or goes on offering, an
\* entry that maintenance evicted: an offered entry has a root.  The code accepts that the
\* root is missing where a load or a sweep removed what a later publication had written
\* (dropped); where the pass that removed it has not yet come to the inventory; and, until
\* the next pass that finds the inventory unchanged (deferred), where that pass found it
\* changed, where discovery or a sweep had looked the entry up before, and where the pass
\* took the root before its commit was accounted or raised without a readback being due
\* (_apply_held_capacity_survivors, discover_manifests, sweep_integrity,
\* _post_commit_was_evicted_locked).
OffersBacked ==
    /\ TypeOK
    /\ \A d \in held : \/ d \in Usable \cup dropped \cup deferred
                       \/ pass.pc \in {"failed", "probe"} /\ \E root \in pass.gone : root[2] = d
                       \/ pass.pc = "apply" /\ d \notin pass.alive

\* Maintenance never removes the base, or the result, of a publication that is pinned,
\* although it looked at the pins before it looked at the disk
\* (_protect_capture_publication_base).
PinnedBaseKept ==
    [][pass' # pass => \A p \in pins, d \in Digests :
           d \in {p.base, p.result} /\ <<"manifest", d>> \in roots => <<"manifest", d>> \in roots']_vars

\* The estimate that decides whether the limit is exceeded never falls below what the
\* saver's publications occupy, however passes and commits overlap
\* (_capacity_estimated_bytes).  It misses the roots of commits that failed after the link,
\* and only those, until a pass counts the disk.
EstimateCovers ==
    kind # "stream" =>
        Cardinality(Manifests \ uncounted) <= est + (IF saver.pc \in {"alias", "lock"} THEN 1 ELSE 0)
==============================================================================
