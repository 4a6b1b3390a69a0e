------------------------- MODULE HeldInventoryProofs -------------------------
(***************************************************************************)
(* TLAPS proofs about HeldInventory, for any set of digests, any base and  *)
(* alias relation, any limit and any number of publications, loads, sweeps *)
(* and failures.                                                           *)
(*                                                                         *)
(* That an offered entry has a root is not inductive.  The strengthening   *)
(* says what each actor may still believe of what it looked up earlier:    *)
(* a pass that calls itself clean has the present inventory (Snapshot),    *)
(* the saver's root is there unless its record or the report of its pass   *)
(* says otherwise (Saved), and the survivors that a pass found (Alive) and *)
(* those the capacity thread is about to offer (Looked) are still there.   *)
(***************************************************************************)
EXTENDS HeldInventory, FiniteSetTheorems, TLAPS

PassType ==
    [pc : {"none", "scan", "failed", "probe", "apply", "over"}, held : SUBSET Digests,
     clean : BOOLEAN, safe : SUBSET Digests, gone : SUBSET ({"manifest", "alias"} \X Digests),
     todo : SUBSET Digests, alive : SUBSET Digests, report : {"none", "ok", "unknown", "cooldown"}]

SaverType ==
    [pc : {"idle", "protect", "commit", "alias", "lock", "pass", "finish"},
     d : Digests \cup {NoDigest}, base : Digests \cup {NoDigest}, aliases : SUBSET Digests,
     required : BOOLEAN, evicted : BOOLEAN, alive : SUBSET Digests, lost : BOOLEAN]

CapType ==
    [pc : {"idle", "lock", "pass", "look", "offer", "resolve", "done"}, retry : BOOLEAN,
     counted : SUBSET Digests, alive : SUBSET Digests]

HandoffType == [announced : SUBSET Digests, queue : SUBSET Digests, pending : SUBSET Digests,
                taken : SUBSET Digests]

SweepType == [pc : {"idle", "check", "invalidate"}, start : SUBSET Digests, todo : SUBSET Digests,
              verified : SUBSET Digests, d : Digests \cup {NoDigest}]

BootType == [todo : SUBSET Digests, found : SUBSET Digests]

Typed ==
    /\ kind \in Deployments /\ ttl \in TtlSettings
    /\ roots \subseteq {"manifest", "alias"} \X Digests
    /\ held \subseteq Digests /\ est \in Int /\ fit \in BOOLEAN /\ more \in BOOLEAN
    /\ owner \in {"free", "saver", "cap"}
    /\ pins \subseteq [result : Digests, base : Digests]
    /\ pass \in PassType /\ saver \in SaverType /\ cap \in CapType
    /\ handoff \in HandoffType /\ sweep \in SweepType /\ boot \in BootType
    /\ saver.pc # "idle" => saver.d \in Digests

\* Who holds _capacity_lock, and for whom a pass runs.
Locked ==
    /\ owner = "saver" <=> saver.pc \in {"pass", "finish"}
    /\ owner = "cap" <=> cap.pc \in {"pass", "look", "offer"}
    /\ pass.pc # "none" => saver.pc = "pass" \/ cap.pc = "pass"

\* A pin belongs to the publication under way, and a pass about to remove roots knows it.
Pinned ==
    /\ \A p \in pins : p.result = saver.d /\ p.base = saver.base
    /\ pins # {} => saver.pc \in {"commit", "alias", "lock"}
    /\ pass.pc = "scan" => Protected \subseteq pass.safe

\* A pass without a revision in between has the present inventory.
Snapshot ==
    /\ pass.pc \in {"scan", "probe", "apply"} /\ pass.clean => held = pass.held
    /\ pass.pc = "scan" => pass.report = "none"

\* Manifests, and entries a restore can find, but for what a load or a sweep removed.
Rooted == Manifests \cup dropped
Reachable == Usable \cup dropped

\* The root of the saver's publication is there, or a load or sweep removed it, or its
\* record says that a pass did.
Saved ==
    /\ saver.pc \in {"alias", "lock", "pass"} =>
         \/ saver.d \in Rooted
         \/ saver.lost
         \/ saver.pc = "pass" /\ pass.report = "ok" /\ <<"manifest", saver.d>> \in pass.gone
    /\ saver.pc = "finish" =>
         /\ saver.alive \subseteq Reachable
         /\ saver.evicted \/ saver.lost \/ saver.d \in Reachable

\* The survivors the capacity thread offers next.
Looked == cap.pc = "offer" => cap.alive \subseteq Reachable

\* The entries a pass found to survive, and it finds none before it looks.
Alive ==
    /\ pass.pc \in {"scan", "failed"} => pass.alive = {}
    /\ pass.pc \in {"probe", "apply"} => pass.alive \subseteq Reachable

\* A pass that failed took the root of d, and has not looked it up yet.
Taken(p, d) == p.pc \in {"failed", "probe"} /\ \E root \in p.gone : root[2] = d

Backed == \A d \in held : \/ d \in Reachable \cup deferred
                          \/ Taken(pass, d)
                          \/ pass.pc = "apply" /\ d \notin pass.alive

IInv == Typed /\ Locked /\ Pinned /\ Snapshot /\ Saved /\ Looked /\ Alive /\ Backed
        /\ EstimateCovers
-----------------------------------------------------------------------------
LEMMA Kinds ==
  /\ NoDigest \notin Digests
  /\ Deployments \subseteq {"pages", "rows", "stream"} /\ TtlSettings \subseteq BOOLEAN
  /\ MaxRoots \in Nat
BY InventoryConstants

\* The number of roots, and of receipts, is a number.
LEMMA Counted ==
  ASSUME NEW S, S \subseteq {"manifest", "alias"} \X Digests
  PROVE  IsFiniteSet(S) /\ Cardinality(S) \in Nat
<1>1. IsFiniteSet({"manifest", "alias"})
  <2>1. IsFiniteSet({"manifest"}) BY FS_Singleton
  <2>2. IsFiniteSet({"manifest"} \cup {"alias"}) BY <2>1, FS_AddElement
  <2>3. {"manifest"} \cup {"alias"} = {"manifest", "alias"} OBVIOUS
  <2> QED BY <2>2, <2>3
<1>2. IsFiniteSet({"manifest", "alias"} \X Digests)
  BY <1>1, FS_Product, InventoryConstants
<1> QED BY <1>2, FS_Subset, FS_CardinalityType

LEMMA CountedDigests ==
  ASSUME NEW S, S \subseteq Digests
  PROVE  IsFiniteSet(S) /\ Cardinality(S) \in Nat
BY FS_Subset, FS_CardinalityType, InventoryConstants

\* There are at least as many roots as manifests.
LEMMA ManifestsFewer ==
  ASSUME NEW R, R \subseteq {"manifest", "alias"} \X Digests
  PROVE  Cardinality({d \in Digests : <<"manifest", d>> \in R}) <= Cardinality(R)
<1> DEFINE M == {d \in Digests : <<"manifest", d>> \in R}
           f == [d \in M |-> <<"manifest", d>>]
<1>1. IsFiniteSet(R) /\ IsFiniteSet(M) BY Counted, CountedDigests
<1>2. f \in Injection(M, R)
  <2>1. f \in [M -> R] OBVIOUS
  <2>2. ASSUME NEW x \in M, NEW y \in M, f[x] = f[y] PROVE x = y BY <2>2
  <2> QED BY <2>1, <2>2 DEF Injection, IsInjective
<1> HIDE DEF f
<1> QED BY <1>1, <1>2, FS_Injection

\* _lookup_reusable finds a digest exactly when it has a root that counts.
LEMMA UsableMeans ==
  Usable = {d \in Digests : \/ <<"manifest", d>> \in roots
                            \/ kind = "rows" /\ <<"alias", d>> \in roots}
BY DEF Usable, RootOf

LEMMA UsableMeansNext ==
  Usable' = {d \in Digests : \/ <<"manifest", d>> \in roots'
                             \/ kind' = "rows" /\ <<"alias", d>> \in roots'}
BY DEF Usable, RootOf

\* The deployment never changes.
LEMMA SettingStays ==
  ASSUME [Next]_vars
  PROVE  kind' = kind /\ ttl' = ttl
<1> USE DEF setting
<1>1. CASE DiscoverBegins \/ DiscoverEnds BY <1>1 DEF DiscoverBegins, DiscoverEnds
<1>2. CASE PassNext BY <1>2 DEF PassNext, Scan, ScanFails, ScanCools, Reconcile, Probe, Apply
<1>3. CASE SaverNext
  BY <1>3 DEF SaverNext, Protect, SaverCommit, SaverFails, SaverAccounts, SaverDecides,
              SaverFinishes, SaverAliases
<1>4. CASE CapNext
  BY <1>4 DEF CapNext, CapWakes, CapStops, CapLocks, CapAfterPass, CapLooks, CapLookFails,
              CapOffers, CapResolves
<1>5. CASE LoadNext BY <1>5 DEF LoadNext, LoadLooksUp, LoadReads, LoadInvalidates
<1>6. CASE SweepNext \/ SweepBegins
  BY <1>6 DEF SweepNext, SweepInvalidates, SweepEnds, SweepChecks, SweepBegins
<1>7. CASE Shutdown \/ ShutdownGoesOn BY <1>7 DEF Shutdown, ShutdownGoesOn
<1>8. CASE \E d \in Digests : \/ DiscoverLooks(d) \/ StreamCommit(d) \/ Handoff(d)
                              \/ LoadStarts(d) \/ Expire(d) \/ Damage(d)
                              \/ \E base \in {NoDigest, Base[d]} : Admit(d, base)
  BY <1>8 DEF DiscoverLooks, StreamCommit, Handoff, LoadStarts, Expire, Damage, Admit
<1>9. CASE UNCHANGED vars BY <1>9 DEF vars
<1> QED BY <1>1, <1>2, <1>3, <1>4, <1>5, <1>6, <1>7, <1>8, <1>9 DEF Next

\* A pass that unlinks roots, to its end or until it fails.
Unlinking == ScanFails \/ \E partial \in BOOLEAN : Scan(partial)

\* What a step other than a maintenance pass may do to the roots.
LEMMA RootSteps ==
  ASSUME Typed, [Next]_vars, ~Unlinking
  PROVE  \/ UNCHANGED <<roots, dropped>>
         \/ \E d \in Digests : Published(d)
         \/ roots \subseteq roots' /\ dropped' = dropped
         \/ pass' = pass /\ \E root, d : Invalidate(root, d)
<1> USE DEF disk, Typed, Unlinking
<1>1. CASE DiscoverBegins \/ DiscoverEnds BY <1>1 DEF DiscoverBegins, DiscoverEnds
<1>2. CASE PassNext BY <1>2 DEF PassNext, ScanCools, Reconcile, Probe, Apply
<1>3. CASE SaverCommit BY <1>3 DEF SaverCommit
<1>4. ASSUME NEW fails \in BOOLEAN, SaverAliases(fails)
      PROVE  roots \subseteq roots' /\ dropped' = dropped
  BY <1>4 DEF SaverAliases
<1>15. ASSUME NEW linked \in BOOLEAN, SaverFails(linked)
       PROVE  UNCHANGED <<roots, dropped>> \/ \E d \in Digests : Published(d)
  <2>1. saver.d \in Digests BY <1>15 DEF SaverFails
  <2> QED BY <1>15, <2>1 DEF SaverFails
<1>5. CASE Protect \/ SaverAccounts \/ SaverDecides \/ SaverFinishes
  BY <1>5 DEF Protect, SaverAccounts, SaverDecides, SaverFinishes
<1>6. CASE CapNext
  BY <1>6 DEF CapNext, CapWakes, CapStops, CapLocks, CapAfterPass, CapLooks, CapLookFails,
              CapOffers, CapResolves
<1>7. CASE LoadInvalidates BY <1>7 DEF LoadInvalidates
<1>8. CASE LoadLooksUp \/ LoadReads BY <1>8 DEF LoadLooksUp, LoadReads
<1>9. CASE SweepInvalidates BY <1>9 DEF SweepInvalidates
<1>10. CASE SweepEnds \/ SweepBegins \/ \E d \in Digests : SweepChecks(d)
  BY <1>10 DEF SweepEnds, SweepChecks, SweepBegins
<1>11. CASE Shutdown \/ ShutdownGoesOn BY <1>11 DEF Shutdown, ShutdownGoesOn
<1>12. CASE \E d \in Digests : StreamCommit(d) BY <1>12 DEF StreamCommit
<1>13. CASE \E d \in Digests : \/ DiscoverLooks(d) \/ Handoff(d) \/ LoadStarts(d) \/ Expire(d) \/ Damage(d)
                               \/ \E base \in {NoDigest, Base[d]} : Admit(d, base)
  BY <1>13 DEF DiscoverLooks, Handoff, LoadStarts, Expire, Damage, Admit
<1>14. CASE UNCHANGED vars BY <1>14 DEF vars
<1> QED
  BY <1>1, <1>2, <1>3, <1>4, <1>5, <1>6, <1>7, <1>8, <1>9, <1>10, <1>11, <1>12, <1>13, <1>14,
     <1>15
  DEF Next, SaverNext, LoadNext, SweepNext

\* Only a maintenance pass takes a root away silently: everything else leaves it, or
\* records in dropped that it is gone.
LEMMA RootsStay ==
  ASSUME Typed, [Next]_vars, ~Unlinking
  PROVE  Rooted \subseteq Rooted' /\ Reachable \subseteq Reachable'
<1>1. kind' = kind BY SettingStays
<1> USE <1>1, UsableMeans, UsableMeansNext DEF Manifests, Rooted, Reachable
<1>2. CASE roots \subseteq roots' /\ dropped' = dropped BY <1>2
<1>4. ASSUME NEW d \in Digests, Published(d)
      PROVE  Rooted \subseteq Rooted' /\ Reachable \subseteq Reachable'
  BY <1>4 DEF Published
<1>5. ASSUME NEW root, NEW d, Invalidate(root, d)
      PROVE  Rooted \subseteq Rooted' /\ Reachable \subseteq Reachable'
  <2>1. dropped \subseteq dropped' BY <1>5 DEF Invalidate
  <2>2. \A r, e : <<r, e>> \in roots /\ <<r, e>> \notin roots' => e \in dropped'
    BY <1>5 DEF Invalidate
  <2> QED BY <2>1, <2>2
<1>6. CASE UNCHANGED <<roots, dropped>> BY <1>6
<1> QED BY RootSteps, <1>2, <1>4, <1>5, <1>6

-----------------------------------------------------------------------------
(* The initial states *)

LEMMA InitInv == Init => IInv
<1> SUFFICES ASSUME Init PROVE IInv OBVIOUS
<1> USE Kinds DEF Init, NoPass, Resting, NoSweep, NoSearch
<1>1. roots \subseteq {"manifest", "alias"} \X Digests OBVIOUS
<1>2. Typed
  <2>1. est \in Int BY <1>1, Counted
  <2>2. pass \in PassType /\ saver \in SaverType BY DEF PassType, SaverType
  <2>3. cap \in CapType /\ handoff \in HandoffType /\ sweep \in SweepType /\ boot \in BootType
    BY DEF CapType, HandoffType, SweepType, BootType
  <2>4. fit \in BOOLEAN
    <3>1. (est <= MaxRoots) \in BOOLEAN OBVIOUS
    <3> QED BY <3>1, Zenon DEF Init
  <2>5. pins = {} /\ saver.pc = "idle" /\ held = {} /\ owner = "free" /\ more = FALSE OBVIOUS
  <2> QED BY <1>1, <2>1, <2>2, <2>3, <2>4, <2>5 DEF Typed
<1>3. Locked /\ Pinned /\ Snapshot /\ Saved /\ Looked /\ Alive /\ Backed
  BY DEF Locked, Pinned, Snapshot, Saved, Looked, Alive, Backed
<1>4. EstimateCovers
  <2>1. Cardinality(Manifests) <= Cardinality(roots)
    BY <1>1, ManifestsFewer DEF Manifests
  <2>2. est = Cardinality(roots) /\ saver.pc = "idle" /\ Manifests \ uncounted = Manifests OBVIOUS
  <2> QED BY <1>1, <2>1, <2>2, Counted, CountedDigests DEF EstimateCovers, Manifests
<1> QED BY <1>2, <1>3, <1>4 DEF IInv

-----------------------------------------------------------------------------
(* The types are inductive. *)

LEMMA TypedPass ==
  ASSUME Typed, PassNext
  PROVE  Typed'
<1> USE Kinds DEF PassType, SaverType, account, disk, Fault, Allowed, Begin, NoPass
<1>1. ASSUME NEW partial \in BOOLEAN, Scan(partial) PROVE Typed'
  <2>0. PICK V \in Victims : \E W \in IF partial THEN SUBSET V \ {V} ELSE {V} : Removes(W, partial)
    BY <1>1 DEF Scan
  <2>1. PICK W \in SUBSET V : Removes(W, partial)
    BY <2>0
  <2>2. V \subseteq roots BY DEF Victims
  <2>3. W \subseteq roots BY <2>2
  <2>4. est' \in Int BY <2>1, <2>3, Counted DEF Typed, Removes
  <2>5. pass' \in PassType BY <2>1, <2>3 DEF Typed, Removes, Survivors
  <2>6. saver' \in SaverType /\ saver'.pc = saver.pc /\ saver'.d = saver.d
    BY <2>1 DEF Typed, Removes, Unlinks
  <2>7. fit' \in BOOLEAN /\ more' \in BOOLEAN BY <2>1 DEF Removes
  <2>8. UNCHANGED <<kind, ttl, boot, held, owner, pins, cap, handoff, sweep>>
    BY <1>1 DEF Scan, setting
  <2>9. roots' \subseteq {"manifest", "alias"} \X Digests BY <2>1 DEF Typed, Removes, Unlinks
  <2> QED BY <2>4, <2>5, <2>6, <2>7, <2>8, <2>9 DEF Typed
<1>2. CASE ScanFails
  <2>1. PICK V \in Victims : \E W \in SUBSET V :
          /\ Unlinks(W, {"alias", "lock", "pass"})
          /\ pass' = [pass EXCEPT !.pc = "failed", !.report = "unknown", !.gone = W]
    BY <1>2 DEF ScanFails
  <2>2. PICK W \in SUBSET V :
          /\ Unlinks(W, {"alias", "lock", "pass"})
          /\ pass' = [pass EXCEPT !.pc = "failed", !.report = "unknown", !.gone = W]
    BY <2>1
  <2>3. W \subseteq {"manifest", "alias"} \X Digests
    <3>1. V \subseteq roots BY DEF Victims
    <3> QED BY <3>1 DEF Typed
  <2>4. pass' \in PassType BY <2>2, <2>3 DEF Typed
  <2>5. saver' \in SaverType /\ saver'.pc = saver.pc /\ saver'.d = saver.d
    BY <2>2 DEF Typed, Unlinks
  <2>6. roots' \subseteq {"manifest", "alias"} \X Digests BY <2>2 DEF Typed, Unlinks
  <2> QED BY <1>2, <2>4, <2>5, <2>6 DEF ScanFails, Typed, setting
<1>6. CASE Reconcile
  <2>1. pass' \in PassType BY <1>6 DEF Reconcile, Typed
  <2> QED BY <1>6, <2>1 DEF Reconcile, Typed, setting
<1>3. CASE ScanCools
  <2>1. pass' \in PassType BY <1>3 DEF ScanCools, Typed
  <2> QED BY <1>3, <2>1 DEF ScanCools, Typed, setting
<1>4. CASE Probe
  <2>1. Usable \subseteq Digests BY DEF Usable
  <2>2. pass' \in PassType
    <3>1. CASE pass' = [pass EXCEPT !.pc = "apply"] BY <3>1 DEF Typed
    <3>2. ASSUME NEW d, pass' = [pass EXCEPT !.todo = @ \ {d}, !.alive = @ \cup ({d} \cap Usable)]
          PROVE  pass' \in PassType
      BY <2>1, <3>2 DEF Typed
    <3> QED BY <1>4, <3>1, <3>2 DEF Probe
  <2>3. UNCHANGED <<setting, roots, held, owner, est, fit, more, pins, saver, cap, handoff, sweep>>
    BY <1>4 DEF Probe
  <2> HIDE DEF PassType, SaverType
  <2> QED BY <2>2, <2>3 DEF Typed, setting
<1>5. CASE Apply BY <1>5 DEF Apply, Typed, setting
<1> QED BY <1>1, <1>2, <1>3, <1>4, <1>5, <1>6 DEF PassNext

LEMMA TypedSaver ==
  ASSUME Typed, SaverNext
  PROVE  Typed'
<1> USE Kinds, UsableMeans DEF PassType, SaverType, setting, disk, account, others, Begin, NoPass, Resting, Offer
<1>1. CASE Protect
  <2>1. saver' \in SaverType /\ saver'.d = saver.d BY <1>1 DEF Protect, Typed
  <2>2. saver.d \in Digests BY <1>1 DEF Protect, Typed
  <2>3. pins' \subseteq [result : Digests, base : Digests] BY <1>1, <2>2 DEF Protect, Typed
  <2> QED BY <1>1, <2>1, <2>2, <2>3 DEF Protect, Typed
<1>2. CASE SaverCommit BY <1>2 DEF SaverCommit, Typed, Published
<1>3. ASSUME NEW linked \in BOOLEAN, SaverFails(linked) PROVE Typed'
  <2>1. saver.d \in Digests BY <1>3 DEF SaverFails, Typed
  <2>2. roots' \subseteq {"manifest", "alias"} \X Digests
    BY <1>3, <2>1 DEF SaverFails, Published, Typed
  <2>3. pass' \in PassType /\ held' \subseteq Digests BY <1>3 DEF SaverFails, Touch, Typed
  <2>4. pins' \subseteq [result : Digests, base : Digests] BY <1>3 DEF SaverFails, Unpin, Typed
  <2> QED BY <1>3, <2>2, <2>3, <2>4 DEF SaverFails, Typed
<1>4. ASSUME NEW fails \in BOOLEAN, SaverAliases(fails) PROVE Typed'
  <2>1. saver.d \in Digests BY <1>4 DEF SaverAliases, Typed
  <2>2. Shorter[saver.d] \subseteq Digests BY <2>1, InventoryConstants
  <2>5. PICK new \in SUBSET Shorter[saver.d] :
          /\ roots' = roots \cup ({"alias"} \X new)
          /\ saver' = [saver EXCEPT !.pc = "lock", !.aliases = IF fails THEN {} ELSE new]
    BY <1>4 DEF SaverAliases
  <2>3. saver' \in SaverType /\ saver'.d = saver.d BY <2>5, <2>2 DEF Typed
  <2>4. roots' \subseteq {"manifest", "alias"} \X Digests BY <2>5, <2>2 DEF Typed
  <2> QED BY <1>4, <2>1, <2>3, <2>4 DEF SaverAliases, Typed
<1>5. CASE SaverAccounts
  <2>1. pins' \subseteq [result : Digests, base : Digests] BY <1>5 DEF SaverAccounts, Unpin, Typed
  <2>2. UNION {{p.base, p.result} : p \in pins'} \subseteq Digests BY <2>1
  <2>3. saver' \in SaverType /\ saver'.d = saver.d BY <1>5 DEF SaverAccounts, Typed
  <2>4. saver.d \in Digests BY <1>5 DEF SaverAccounts, Typed
  <2>5. pass' \in PassType BY <1>5, <2>2 DEF SaverAccounts, Typed
  <2>6. est' \in Int /\ fit' \in BOOLEAN BY <1>5 DEF SaverAccounts, Typed
  <2> QED BY <1>5, <2>1, <2>3, <2>4, <2>5, <2>6 DEF SaverAccounts, Typed
<1>6. CASE SaverDecides
  <2>1. saver.d \in Digests /\ saver.aliases \cap Usable \subseteq Digests BY <1>6 DEF SaverDecides, Typed, Usable
  <2>2. WasEvicted(pass, saver.d, saver.required) \in BOOLEAN
    BY DEF WasEvicted, Typed
  <2>3. (saver.lost /\ (pass.report = "ok" \/ ~saver.required)) \in BOOLEAN OBVIOUS
  <2>4. saver' \in SaverType /\ saver'.d = saver.d BY <1>6, <2>1, <2>2, <2>3 DEF SaverDecides, Typed
  <2>5. pass' \in PassType BY <1>6 DEF SaverDecides
  <2> QED BY <1>6, <2>1, <2>4, <2>5 DEF SaverDecides, Typed
<1>7. CASE SaverFinishes BY <1>7 DEF SaverFinishes, Typed
<1> QED BY <1>1, <1>2, <1>3, <1>4, <1>5, <1>6, <1>7 DEF SaverNext

LEMMA TypedCap ==
  ASSUME Typed, CapNext
  PROVE  Typed'
<1> USE Kinds DEF CapType, HandoffType, setting, disk, account, others, Release
<1>1. CASE CapWakes BY <1>1 DEF CapWakes, Typed
<1>2. CASE CapStops BY <1>2 DEF CapStops, Typed
<1>3. CASE CapLocks
  <2>1. pass' \in PassType
    <3>1. Protected \subseteq Digests BY DEF Protected, Typed
    <3>2. Begin \in PassType BY <3>1 DEF Begin, NoPass, PassType, Typed
    <3> QED BY <1>3, <3>2 DEF CapLocks, Typed
  <2>2. est' \in Int
    <3>1. Cardinality(handoff.taken \ cap.counted) \in Int BY CountedDigests DEF Typed
    <3> QED BY <1>3, <3>1 DEF CapLocks, Typed
  <2>3. fit' \in BOOLEAN
    <3>1. fit \in BOOLEAN BY DEF Typed
    <3>2. PICK e : fit' = IF handoff.taken \ cap.counted = {} THEN fit ELSE fit /\ e <= MaxRoots
      BY <1>3 DEF CapLocks
    <3>3. (fit /\ e <= MaxRoots) \in BOOLEAN OBVIOUS
    <3> QED BY <3>1, <3>2, <3>3
  <2>4. cap' \in CapType BY <1>3 DEF CapLocks, Typed
  <2> QED BY <1>3, <2>1, <2>2, <2>3, <2>4 DEF CapLocks, Typed
<1>4. CASE CapAfterPass
  <2>1. pass' \in PassType BY <1>4 DEF CapAfterPass, NoPass, PassType
  <2>2. (handoff.taken # {} \/ Unfinished) \in BOOLEAN OBVIOUS
  <2>3. PICK retry \in BOOLEAN :
          cap' = [cap EXCEPT !.pc = "look"] \/ cap' = [cap EXCEPT !.pc = "idle", !.retry = retry]
    BY <1>4, <2>2 DEF CapAfterPass
  <2>5. cap' \in CapType BY <2>3 DEF Typed
  <2>4. owner' \in {"free", "saver", "cap"} BY <1>4 DEF CapAfterPass, Typed
  <2> QED BY <1>4, <2>1, <2>4, <2>5 DEF CapAfterPass, Typed
<1>5. CASE CapLooks BY <1>5 DEF CapLooks, Typed, Manifests
<1>6. CASE CapLookFails BY <1>6 DEF CapLookFails, Typed
<1>7. CASE CapOffers
  <2>1. held' \subseteq Digests BY <1>7 DEF CapOffers, Typed, Offer
  <2>2. cap' \in CapType
    <3>1. \/ cap' = [cap EXCEPT !.pc = "idle", !.retry = TRUE, !.alive = {}]
          \/ cap' = [cap EXCEPT !.pc = "resolve", !.alive = {}]
      BY <1>7 DEF CapOffers
    <3>2. cap \in CapType /\ {} \subseteq Digests BY DEF Typed
    <3>3. CASE cap' = [cap EXCEPT !.pc = "idle", !.retry = TRUE, !.alive = {}] BY <3>2, <3>3
    <3>4. CASE cap' = [cap EXCEPT !.pc = "resolve", !.alive = {}] BY <3>2, <3>4
    <3> QED BY <3>1, <3>3, <3>4
  <2>3. owner' \in {"free", "saver", "cap"} BY <1>7 DEF CapOffers
  <2> QED BY <1>7, <2>1, <2>2, <2>3 DEF CapOffers, Typed
<1>8. CASE CapResolves BY <1>8 DEF CapResolves, Typed
<1> QED BY <1>1, <1>2, <1>3, <1>4, <1>5, <1>6, <1>7, <1>8 DEF CapNext

LEMMA TypedReaders ==
  ASSUME Typed, LoadNext \/ SweepNext \/ SweepBegins
  PROVE  Typed'
<1> USE Kinds DEF PassType, SweepType, setting, disk, account, Offer, Touch, Invalidate
<1>1. CASE LoadLooksUp BY <1>1 DEF LoadLooksUp, Typed
<1>2. CASE LoadReads
  <2>0. PICK new \in {held, held \ {load.d}} : Offer(new) /\ pass' = Touch(pass, new)
    BY <1>2 DEF LoadReads
  <2>1. pass' \in PassType /\ held' \subseteq Digests BY <2>0 DEF Typed
  <2> QED BY <1>2, <2>1 DEF LoadReads, Typed
<1>3. CASE LoadInvalidates BY <1>3 DEF LoadInvalidates, Typed
<1>4. CASE SweepBegins
  <2>1. sweep' \in SweepType BY <1>4 DEF SweepBegins, Typed, NoSweep
  <2> QED BY <1>4, <2>1 DEF SweepBegins, Typed
<1>5. ASSUME NEW d \in Digests, SweepChecks(d) PROVE Typed'
  <2>1. pass' \in PassType /\ held' \subseteq Digests BY <1>5 DEF SweepChecks, Typed
  <2>2. sweep' \in SweepType BY <1>5 DEF SweepChecks, Typed
  <2> QED BY <1>5, <2>1, <2>2 DEF SweepChecks, Typed
<1>6. CASE SweepInvalidates BY <1>6 DEF SweepInvalidates, Typed
<1>7. CASE SweepEnds
  <2>1. pass' \in PassType /\ held' \subseteq Digests BY <1>7 DEF SweepEnds, Typed
  <2>2. sweep' \in SweepType BY <1>7 DEF SweepEnds, NoSweep
  <2> QED BY <1>7, <2>1, <2>2 DEF SweepEnds, Typed
<1> QED BY <1>1, <1>2, <1>3, <1>4, <1>5, <1>6, <1>7 DEF LoadNext, SweepNext

\* The types stay whatever step is taken.
LEMMA TypedStep ==
  ASSUME Typed, [Next]_vars
  PROVE  Typed'
<1> USE Kinds DEF setting, disk, account, others
<1>1. CASE DiscoverBegins
  <2>1. {r[2] : r \in {x \in roots : x[1] = "manifest" \/ kind = "rows"}} \subseteq Digests BY DEF Typed
  <2>2. boot' \in BootType BY <1>1, <2>1 DEF DiscoverBegins, NoSearch, BootType
  <2> QED BY <1>1, <2>2 DEF DiscoverBegins, Typed
<1>8. CASE DiscoverEnds
  <2>1. held' \subseteq Digests BY <1>8 DEF DiscoverEnds, BootType, Typed
  <2>2. pass' \in PassType BY <1>8 DEF DiscoverEnds, PassType, Typed
  <2>3. boot' \in BootType BY <1>8 DEF DiscoverEnds, NoSearch, BootType
  <2> QED BY <1>8, <2>1, <2>2, <2>3 DEF DiscoverEnds, Typed
<1>9. ASSUME NEW d \in Digests, DiscoverLooks(d) PROVE Typed'
  <2>1. boot' \in BootType BY <1>9 DEF DiscoverLooks, BootType, Typed
  <2> QED BY <1>9, <2>1 DEF DiscoverLooks, Typed
<1>2. CASE Shutdown \/ ShutdownGoesOn BY <1>2 DEF Shutdown, ShutdownGoesOn, HandoffType, Typed
<1>3. ASSUME NEW d \in Digests, StreamCommit(d) PROVE Typed'
  BY <1>3 DEF StreamCommit, Published, HandoffType, Typed
<1>4. ASSUME NEW d \in Digests, Handoff(d) PROVE Typed'
  BY <1>4 DEF Handoff, HandoffType, Typed
<1>5. ASSUME NEW d \in Digests, LoadStarts(d) \/ Expire(d) \/ Damage(d) PROVE Typed'
  BY <1>5 DEF LoadStarts, Expire, Damage, Typed
<1>6. ASSUME NEW d \in Digests, NEW base \in {NoDigest, Base[d]}, Admit(d, base) PROVE Typed'
  <2>1. base \in Digests \cup {NoDigest} BY InventoryConstants
  <2>2. saver' \in SaverType /\ saver'.d = d BY <1>6, <2>1 DEF Admit, Resting, SaverType
  <2> QED BY <1>6, <2>2 DEF Admit, Typed
<1>7. CASE UNCHANGED vars BY <1>7 DEF vars, Typed
<1> QED
  BY <1>1, <1>2, <1>3, <1>4, <1>5, <1>6, <1>7, <1>8, <1>9, TypedPass, TypedSaver, TypedCap, TypedReaders
  DEF Next

-----------------------------------------------------------------------------
(* The locks, the pins, and what a pass knows *)

\* A pass under way learns of a change of the inventory, and of nothing else.
Revised ==
    /\ pass'.pc = pass.pc /\ pass'.held = pass.held /\ pass'.safe = pass.safe
    /\ pass'.gone = pass.gone /\ pass'.todo = pass.todo /\ pass'.alive = pass.alive
    /\ pass'.report = pass.report
    /\ pass'.clean => pass.clean /\ held' = held

LEMMA TouchRevises ==
  ASSUME Typed, NEW new, pass' = Touch(pass, new), held' = new
  PROVE  Revised
BY DEF Revised, Touch, Typed, PassType

\* Only what has a root is offered, or it is put off; what was put off stays so.
Offers == /\ held' \subseteq held \cup Reachable \cup deferred'
          /\ deferred \cap held' \subseteq deferred'

LEMMA OfferedLess ==
  ASSUME NEW new, Offer(new), new \subseteq held \cup Reachable
  PROVE  held' = new /\ Offers
BY DEF Offer, Offers

\* Discovery, loads, sweeps, streamed commits, shutdown and the environment.
Beside ==
    /\ UNCHANGED <<owner, saver, cap, pins, est, uncounted>> /\ Revised /\ Offers
    /\ kind = "stream" \/ roots' \subseteq roots

LEMMA Bystanders ==
  ASSUME Typed, [Next]_vars
  PROVE  \/ PassNext \/ SaverNext \/ CapNext
         \/ \E d \in Digests : \E base \in {NoDigest, Base[d]} : Admit(d, base)
         \/ Beside
<1> USE DEF setting, disk, account, others, Beside
<1>1. ASSUME NEW new, pass' = Touch(pass, new), Offer(new), new \subseteq held
      PROVE  Revised /\ Offers
  BY <1>1, TouchRevises, OfferedLess
<1>2. ASSUME pass' = pass, held' = held, deferred' = deferred PROVE Revised /\ Offers
  BY <1>2 DEF Revised, Offers
<1>3. CASE DiscoverEnds
  <2>1. Revised BY <1>3 DEF DiscoverEnds, Revised, Typed, PassType
  <2>2. Offers BY <1>3 DEF DiscoverEnds, Offers, Reachable
  <2> QED BY <1>3, <2>1, <2>2 DEF DiscoverEnds
<1>12. CASE DiscoverBegins BY <1>12, <1>2 DEF DiscoverBegins
<1>4. CASE LoadLooksUp
  <2>1. UNCHANGED <<owner, saver, cap, pins, est, uncounted, roots>> BY <1>4 DEF LoadLooksUp
  <2>2. PICK new \in {held, held \ {load.d}} : Offer(new) /\ pass' = Touch(pass, new)
    BY <1>4 DEF LoadLooksUp
  <2> QED BY <1>1, <2>1, <2>2
<1>5. CASE LoadReads
  <2>1. UNCHANGED <<owner, saver, cap, pins, est, uncounted, roots>> BY <1>5 DEF LoadReads
  <2>2. PICK new \in {held, held \ {load.d}} : Offer(new) /\ pass' = Touch(pass, new)
    BY <1>5 DEF LoadReads
  <2> QED BY <1>1, <2>1, <2>2
<1>9. CASE LoadInvalidates \/ SweepInvalidates \/ SweepBegins
  BY <1>9, <1>2 DEF LoadInvalidates, SweepInvalidates, SweepBegins, Invalidate
<1>10. ASSUME NEW d \in Digests, SweepChecks(d) PROVE Beside
  <2>1. UNCHANGED <<owner, saver, cap, pins, est, uncounted, roots>> BY <1>10 DEF SweepChecks
  <2>2. PICK new \in {held, held \ {d}} : Offer(new) /\ pass' = Touch(pass, new)
    BY <1>10 DEF SweepChecks
  <2> QED BY <1>1, <2>1, <2>2
<1>11. CASE SweepEnds
  <2>1. UNCHANGED <<owner, saver, cap, pins, est, uncounted, roots>> BY <1>11 DEF SweepEnds
  <2>2. PICK new : /\ held' = new /\ pass' = Touch(pass, new)
                   /\ new \subseteq held \cup sweep.verified
                   /\ deferred' = (deferred \cap new) \cup (sweep.verified \ Usable)
    BY <1>11 DEF SweepEnds
  <2>3. Revised BY <2>2, TouchRevises
  <2>4. Offers BY <2>2 DEF Offers, Reachable
  <2> QED BY <2>1, <2>3, <2>4
<1>6. CASE Shutdown \/ ShutdownGoesOn BY <1>6, <1>2 DEF Shutdown, ShutdownGoesOn
<1>7. ASSUME NEW d \in Digests,
             \/ DiscoverLooks(d) \/ StreamCommit(d) \/ Handoff(d) \/ LoadStarts(d)
             \/ Expire(d) \/ Damage(d)
      PROVE  Beside
  BY <1>7, <1>2 DEF DiscoverLooks, StreamCommit, Handoff, LoadStarts, Expire, Damage
<1>8. CASE UNCHANGED vars BY <1>8, <1>2 DEF vars
<1> QED
  BY <1>3, <1>4, <1>5, <1>6, <1>7, <1>8, <1>9, <1>10, <1>11, <1>12 DEF Next, LoadNext, SweepNext

\* _capacity_lock has one holder, and only its holder has a pass.
LEMMA LockedStep ==
  ASSUME Typed, Locked, [Next]_vars
  PROVE  Locked'
<1> USE DEF setting, disk, account, others, Locked, NoPass
<1>1. CASE PassNext
  <2>1. pass.pc # "none" BY <1>1 DEF PassNext, Scan, ScanFails, ScanCools, Reconcile, Probe, Apply
  <2>2. owner' = owner /\ cap' = cap
    BY <1>1 DEF PassNext, Scan, ScanFails, ScanCools, Reconcile, Probe, Apply
  <2>3. saver'.pc = saver.pc
    BY <1>1 DEF PassNext, Scan, ScanFails, ScanCools, Reconcile, Probe, Apply, Removes, Unlinks, Typed,
                 SaverType
  <2> QED BY <2>1, <2>2, <2>3
<1>2. CASE Protect \/ SaverCommit \/ SaverFinishes \/ \E fails \in BOOLEAN : SaverAliases(fails)
  <2>1. CASE Protect BY <2>1 DEF Protect, Typed, SaverType
  <2>2. CASE SaverCommit BY <2>2 DEF SaverCommit, Typed, SaverType
  <2>3. CASE SaverFinishes BY <2>3 DEF SaverFinishes, Resting
  <2>4. ASSUME NEW fails \in BOOLEAN, SaverAliases(fails) PROVE Locked'
    BY <2>4 DEF SaverAliases, Typed, SaverType
  <2> QED BY <1>2, <2>1, <2>2, <2>3, <2>4
<1>3. ASSUME NEW linked \in BOOLEAN, SaverFails(linked) PROVE Locked'
  BY <1>3 DEF SaverFails, Resting, Touch, Typed, PassType
<1>4. CASE SaverAccounts BY <1>4 DEF SaverAccounts, Typed, SaverType
<1>5. CASE SaverDecides BY <1>5 DEF SaverDecides, Typed, SaverType
<1>6. CASE CapNext
  <2> USE DEF Typed, CapType, Release
  <2>1. CASE CapWakes BY <2>1 DEF CapWakes
  <2>2. CASE CapStops BY <2>2 DEF CapStops
  <2>3. CASE CapLocks
    <3>1. pass.pc = "none" /\ owner = "free" /\ owner' = "cap" /\ saver' = saver
      BY <2>3 DEF CapLocks
    <3>2. \/ cap'.pc = "pass"
          \/ cap'.pc = "look" /\ pass' = pass
      BY <2>3 DEF CapLocks
    <3> QED BY <3>1, <3>2
  <2>4. CASE CapAfterPass
    <3>1. cap.pc = "pass" /\ owner = "cap" /\ saver' = saver /\ pass'.pc = "none"
      BY <2>4 DEF CapAfterPass
    <3>2. \/ owner' = owner /\ cap'.pc = "look"
          \/ owner' = "free" /\ cap'.pc = "idle"
      BY <2>4 DEF CapAfterPass
    <3> QED BY <3>1, <3>2
  <2>5. CASE CapLooks BY <2>5 DEF CapLooks
  <2>6. CASE CapLookFails BY <2>6 DEF CapLookFails
  <2>7. CASE CapOffers
    <3>1. owner = "cap" /\ owner' = "free" /\ saver' = saver /\ pass' = pass /\ pass.pc = "none"
      BY <2>7 DEF CapOffers
    <3>2. cap'.pc \in {"idle", "resolve"}
      BY <2>7 DEF CapOffers
    <3> QED BY <3>1, <3>2
  <2>8. CASE CapResolves BY <2>8 DEF CapResolves
  <2> QED BY <1>6, <2>1, <2>2, <2>3, <2>4, <2>5, <2>6, <2>7, <2>8 DEF CapNext
<1>7. ASSUME NEW d \in Digests, NEW base \in {NoDigest, Base[d]}, Admit(d, base) PROVE Locked'
  BY <1>7 DEF Admit, Resting
<1>8. CASE Beside BY <1>8 DEF Beside, Revised
<1> QED
  BY Bystanders, <1>1, <1>2, <1>3, <1>4, <1>5, <1>6, <1>7, <1>8 DEF SaverNext

\* A publication's base is pinned only while no pass can be about to look at the roots.
LEMMA PinnedStep ==
  ASSUME Typed, Locked, Pinned, [Next]_vars
  PROVE  Pinned'
<1> USE DEF setting, disk, account, others, Pinned
<1>1. CASE PassNext
  <2>1. ASSUME NEW partial \in BOOLEAN, Scan(partial) PROVE Pinned'
    <3>1. pins' = pins BY <2>1 DEF Scan
    <3>2. /\ saver'.pc = saver.pc /\ saver'.d = saver.d /\ saver'.base = saver.base
          /\ pass'.pc = "apply"
      BY <2>1 DEF Scan, Removes, Unlinks, Typed, SaverType, PassType
    <3> QED BY <3>1, <3>2
  <2>2. CASE ScanCools \/ Reconcile \/ Probe \/ Apply
    <3>1. UNCHANGED <<pins, saver>> BY <2>2 DEF ScanCools, Reconcile, Probe, Apply
    <3>2. pass'.pc \in {"probe", "over", "apply"}
      BY <2>2 DEF ScanCools, Reconcile, Probe, Apply, Typed, PassType
    <3> QED BY <3>1, <3>2
  <2>3. CASE ScanFails
    <3>1. pins' = pins /\ pass'.pc = "failed" BY <2>3 DEF ScanFails, Typed, PassType
    <3>2. saver'.pc = saver.pc /\ saver'.d = saver.d /\ saver'.base = saver.base
      BY <2>3 DEF ScanFails, Unlinks, Typed, SaverType
    <3> QED BY <3>1, <3>2
  <2> QED BY <1>1, <2>1, <2>2, <2>3 DEF PassNext
<1>2. CASE Protect
  <2>1. pass' = pass /\ pins = {} /\ saver'.pc = "commit" /\ saver'.d = saver.d
    BY <1>2 DEF Protect, Typed, SaverType
  <2>2. CASE kind = "pages" /\ saver.base \in held /\ owner = "free" /\ fit
    <3>1. pass.pc = "none" BY <2>2 DEF Locked
    <3>2. pins' = {[result |-> saver.d, base |-> saver.base]} /\ saver'.base = saver.base
      BY <1>2, <2>1, <2>2 DEF Protect, Typed, SaverType
    <3> QED BY <2>1, <3>1, <3>2
  <2>3. CASE ~ (kind = "pages" /\ saver.base \in held /\ owner = "free" /\ fit)
    <3>1. pins' = {} BY <1>2, <2>1, <2>3 DEF Protect
    <3> QED BY <2>1, <3>1 DEF Protected
  <2> QED BY <2>2, <2>3
<1>3. CASE SaverCommit
  <2>1. /\ saver'.pc \in {"alias", "lock"} /\ saver'.d = saver.d /\ saver'.base = saver.base
        /\ UNCHANGED <<pins, pass>>
    BY <1>3 DEF SaverCommit, Typed, SaverType
  <2> QED BY <2>1 DEF Protected
<1>4. ASSUME NEW fails \in BOOLEAN, SaverAliases(fails) PROVE Pinned'
  <2>1. /\ saver'.pc = "lock" /\ saver'.d = saver.d /\ saver'.base = saver.base
        /\ UNCHANGED <<pins, pass>>
    BY <1>4 DEF SaverAliases, Typed, SaverType
  <2> QED BY <2>1 DEF Protected
<1>5. ASSUME NEW linked \in BOOLEAN, SaverFails(linked) PROVE Pinned'
  <2>1. pins' = {} BY <1>5 DEF SaverFails, Unpin
  <2> QED BY <2>1 DEF Protected
<1>6. CASE SaverAccounts
  <2>1. pins' = {} BY <1>6 DEF SaverAccounts, Unpin
  <2> QED BY <2>1 DEF Protected
<1>7. CASE SaverDecides \/ SaverFinishes
  <2>1. pins = {} /\ pins' = pins BY <1>7 DEF SaverDecides, SaverFinishes
  <2> QED BY <2>1 DEF Protected
<1>8. CASE CapNext
  <2>1. UNCHANGED <<pins, saver>>
    BY <1>8 DEF CapNext, CapWakes, CapStops, CapLocks, CapAfterPass, CapLooks, CapLookFails,
                CapOffers, CapResolves
  <2>2. pass' = pass \/ pass' = Begin \/ pass' = NoPass
    BY <1>8 DEF CapNext, CapWakes, CapStops, CapLocks, CapAfterPass, CapLooks, CapLookFails,
                CapOffers, CapResolves
  <2>3. Protected' = Protected BY <2>1 DEF Protected
  <2>4. CASE pass' = Begin
    <3>1. pass'.safe = Protected BY <2>4 DEF Begin, NoPass
    <3> QED BY <2>1, <2>3, <3>1
  <2>5. CASE pass' = NoPass BY <2>1, <2>5 DEF NoPass
  <2> QED BY <2>1, <2>2, <2>3, <2>4, <2>5
<1>9. ASSUME NEW d \in Digests, NEW base \in {NoDigest, Base[d]}, Admit(d, base) PROVE Pinned'
  <2>1. pins = {} /\ pins' = pins BY <1>9 DEF Admit
  <2> QED BY <2>1 DEF Protected
<1>10. CASE Beside BY <1>10 DEF Beside, Revised, Protected
<1> QED
  BY Bystanders, <1>1, <1>2, <1>3, <1>4, <1>5, <1>6, <1>7, <1>8, <1>9, <1>10 DEF SaverNext

\* What a pass removes is not pinned.
LEMMA VictimsUnpinned ==
  ASSUME Typed, Pinned, [Next]_vars, pass' # pass
  PROVE  \A p \in pins, d \in Digests :
           d \in {p.base, p.result} /\ <<"manifest", d>> \in roots => <<"manifest", d>> \in roots'
<1> SUFFICES ASSUME NEW p \in pins, NEW d \in Digests, d \in {p.base, p.result},
                    <<"manifest", d>> \in roots
             PROVE  <<"manifest", d>> \in roots'
  OBVIOUS
<1>1. ASSUME NEW partial \in BOOLEAN, Scan(partial) PROVE <<"manifest", d>> \in roots'
  <2>1. d \in pass.safe BY <1>1 DEF Scan, Pinned, Protected
  <2>2. PICK V \in Victims : \E W \in IF partial THEN SUBSET V \ {V} ELSE {V} : Removes(W, partial)
    BY <1>1 DEF Scan
  <2>3. V \subseteq {r \in roots : ~(r[1] = "manifest" /\ r[2] \in pass.safe)} BY DEF Victims
  <2>4. <<"manifest", d>> \notin V BY <2>1, <2>3
  <2> QED BY <2>2, <2>4 DEF Removes, Unlinks
<1>3. CASE ScanFails
  <2>1. d \in pass.safe BY <1>3 DEF ScanFails, Pinned, Protected
  <2>2. PICK V \in Victims : \E W \in SUBSET V : Unlinks(W, {"alias", "lock", "pass"})
    BY <1>3 DEF ScanFails
  <2>3. V \subseteq {r \in roots : ~(r[1] = "manifest" /\ r[2] \in pass.safe)} BY DEF Victims
  <2>4. <<"manifest", d>> \notin V BY <2>1, <2>3
  <2> QED BY <2>2, <2>4 DEF Unlinks
<1>2. CASE ~Unlinking
  <2>1. CASE roots \subseteq roots' BY <2>1
  <2>3. CASE \E e \in Digests : Published(e) BY <2>3 DEF Published
  <2> QED BY <1>2, <2>1, <2>3, RootSteps
<1> QED BY <1>1, <1>2, <1>3 DEF Unlinking

\* A pass that calls itself clean has the present inventory.
LEMMA SnapshotStep ==
  ASSUME Typed, Locked, Snapshot, [Next]_vars
  PROVE  Snapshot'
<1> USE DEF setting, disk, account, others, Snapshot
<1>1. CASE PassNext
  <2>1. held' = held \/ pass'.pc = "over"
    BY <1>1 DEF PassNext, Scan, ScanFails, ScanCools, Reconcile, Probe, Apply, Typed, PassType
  <2>2. /\ pass'.pc \in {"failed", "probe", "apply", "over"}
        /\ \/ pass'.held = pass.held /\ (pass'.clean => pass.clean) /\ pass.pc \in {"scan", "probe", "apply"}
           \/ pass'.held = held
    <3>1. ASSUME NEW partial \in BOOLEAN, Scan(partial)
          PROVE  pass'.pc = "apply" /\ pass'.held = pass.held /\ pass'.clean = pass.clean
      BY <3>1 DEF Scan, Removes, Typed, PassType
    <3>2. CASE ScanFails BY <3>2 DEF ScanFails, Typed, PassType
    <3>5. CASE Reconcile BY <3>5 DEF Reconcile, Typed, PassType
    <3>3. CASE ScanCools \/ Probe \/ Apply
      BY <3>3 DEF ScanCools, Probe, Apply, Typed, PassType
    <3>4. pass.pc \in {"scan", "probe", "apply"} \/ Reconcile
      BY <1>1 DEF PassNext, Scan, ScanFails, ScanCools, Reconcile, Probe, Apply
    <3> QED BY <1>1, <3>1, <3>2, <3>3, <3>4, <3>5 DEF PassNext
  <2> QED BY <2>1, <2>2
<1>2. CASE Protect \/ SaverCommit \/ \E fails \in BOOLEAN : SaverAliases(fails)
  BY <1>2 DEF Protect, SaverCommit, SaverAliases
<1>3. ASSUME NEW linked \in BOOLEAN, SaverFails(linked) PROVE Snapshot'
  BY <1>3 DEF SaverFails, Touch, Offer, Typed, PassType
<1>4. CASE SaverAccounts
  <2>1. held' = held BY <1>4 DEF SaverAccounts
  <2>2. \/ pass'.pc = "none"
        \/ pass'.held = held /\ pass'.report = "none"
    BY <1>4 DEF SaverAccounts, Begin, NoPass
  <2> QED BY <2>1, <2>2
<1>5. CASE SaverDecides BY <1>5 DEF SaverDecides, NoPass
<1>6. CASE SaverFinishes
  <2>1. pass' = pass /\ pass.pc = "none" BY <1>6 DEF SaverFinishes, Locked
  <2> QED BY <2>1
<1>7. CASE CapNext
  <2>1. CASE CapOffers
    <3>1. pass' = pass /\ pass.pc = "none" BY <2>1 DEF CapOffers, Locked
    <3> QED BY <3>1
  <2>2. CASE ~CapOffers
    <3>1. held' = held
      BY <1>7, <2>2 DEF CapNext, CapWakes, CapStops, CapLocks, CapAfterPass, CapLooks,
                        CapLookFails, CapResolves
    <3>2. pass' = pass \/ pass' = Begin \/ pass' = NoPass
      BY <1>7, <2>2 DEF CapNext, CapWakes, CapStops, CapLocks, CapAfterPass, CapLooks,
                        CapLookFails, CapResolves
    <3>3. CASE pass' = Begin
      <4>1. pass'.held = held /\ pass'.report = "none" BY <3>3 DEF Begin, NoPass
      <4> QED BY <3>1, <4>1
    <3>4. CASE pass' = NoPass BY <3>4 DEF NoPass
    <3> QED BY <3>1, <3>2, <3>3, <3>4
  <2> QED BY <2>1, <2>2
<1>8. ASSUME NEW d \in Digests, NEW base \in {NoDigest, Base[d]}, Admit(d, base) PROVE Snapshot'
  BY <1>8 DEF Admit
<1>9. CASE Beside BY <1>9 DEF Beside, Revised
<1> QED
  BY Bystanders, <1>1, <1>2, <1>3, <1>4, <1>5, <1>6, <1>7, <1>8, <1>9 DEF SaverNext

-----------------------------------------------------------------------------
(* What the saver and the capacity thread may believe *)

\* The saver's root is there, or is known to be gone, when it decides on its entry.
LEMMA SavedStep ==
  ASSUME Typed, Locked, Snapshot, Saved, [Next]_vars
  PROVE  Saved'
<1> USE DEF setting, disk, account, others
<1>1. CASE \E partial \in BOOLEAN : Scan(partial)
  <2>1. PICK V \in Victims : \E W \in SUBSET V : \E partial \in BOOLEAN : Removes(W, partial)
    BY <1>1 DEF Scan
  <2>2. PICK W \in SUBSET V : \E partial \in BOOLEAN : Removes(W, partial)
    BY <2>1
  <2>3. /\ roots' = roots \ W
        /\ pass'.report = "ok" /\ pass'.gone = W /\ saver'.pc = saver.pc /\ saver'.d = saver.d
        /\ saver'.lost = \/ saver.lost
                         \/ saver.pc \in {"alias", "lock"} /\ <<"manifest", saver.d>> \in W
    BY <2>2 DEF Removes, Unlinks, Typed, SaverType, PassType
  <2>4. pass.pc = "scan" /\ pass.report = "none" /\ dropped' = dropped BY <1>1 DEF Scan, Snapshot
  <2>5. saver.pc # "finish" BY <2>4 DEF Locked
  <2>6. saver.pc \in {"alias", "lock", "pass"} => saver.d \in Digests BY DEF Typed
  <2> QED BY <2>3, <2>4, <2>5, <2>6 DEF Saved, Rooted, Manifests
<1>3. CASE ScanFails
  <2>1. PICK V \in Victims : \E W \in SUBSET V :
          Unlinks(W, {"alias", "lock", "pass"})
    BY <1>3 DEF ScanFails
  <2>2. PICK W \in SUBSET V : Unlinks(W, {"alias", "lock", "pass"})
    BY <2>1
  <2>3. /\ roots' = roots \ W /\ saver'.pc = saver.pc /\ saver'.d = saver.d
        /\ saver'.lost = \/ saver.lost
                         \/ saver.pc \in {"alias", "lock", "pass"} /\ <<"manifest", saver.d>> \in W
    BY <2>2 DEF Unlinks, Typed, SaverType
  <2>4. pass.pc = "scan" /\ pass.report = "none" /\ dropped' = dropped BY <1>3 DEF ScanFails, Snapshot
  <2>5. saver.pc # "finish" BY <2>4 DEF Locked
  <2>6. saver.pc \in {"alias", "lock", "pass"} => saver.d \in Digests BY DEF Typed
  <2> QED BY <2>3, <2>4, <2>5, <2>6 DEF Saved, Rooted, Manifests
<1>2. CASE ~Unlinking
  <2>1. Rooted \subseteq Rooted' /\ Reachable \subseteq Reachable' BY <1>2, RootsStay
  <2>2. Rooted \subseteq Reachable /\ Rooted' \subseteq Reachable'
    BY UsableMeans, UsableMeansNext DEF Manifests, Rooted, Reachable
  <2> USE DEF Saved
  <2>3. ASSUME saver' = saver,
               saver.pc = "pass" /\ pass.report = "ok" =>
                 pass'.report = pass.report /\ pass'.gone = pass.gone
        PROVE  Saved'
    BY <2>1, <2>3
  <2>4. CASE PassNext
    <3>1. saver' = saver
      BY <1>2, <2>4 DEF Unlinking, PassNext, ScanCools, Reconcile, Probe, Apply
    <3>2. pass.report = "ok" => pass'.report = pass.report /\ pass'.gone = pass.gone
      BY <1>2, <2>4 DEF Unlinking, PassNext, ScanCools, Reconcile, Probe, Apply, Snapshot, Typed,
                        PassType
    <3> QED BY <2>3, <3>1, <3>2
  <2>5. CASE CapNext
    <3>1. saver' = saver
      BY <2>5 DEF CapNext, CapWakes, CapStops, CapLocks, CapAfterPass, CapLooks, CapLookFails,
                  CapOffers, CapResolves
    <3>2. pass' = pass \/ owner = "free" \/ owner = "cap"
      BY <2>5 DEF CapNext, CapWakes, CapStops, CapLocks, CapAfterPass, CapLooks, CapLookFails,
                  CapOffers, CapResolves, Locked
    <3> QED BY <2>3, <3>1, <3>2 DEF Locked
  <2>6. CASE Beside BY <2>3, <2>6 DEF Beside, Revised
  <2>7. CASE Protect \/ SaverFinishes \/ \E linked \in BOOLEAN : SaverFails(linked)
    <3>1. CASE Protect
      <4>1. saver'.pc = "commit" BY <3>1 DEF Protect, Typed, SaverType
      <4> QED BY <4>1
    <3>2. CASE SaverFinishes \/ \E linked \in BOOLEAN : SaverFails(linked)
      BY <3>2 DEF SaverFails, SaverFinishes, Resting
    <3> QED BY <2>7, <3>1, <3>2
  <2>8. CASE SaverCommit
    <3>1. saver'.pc \in {"alias", "lock"} /\ saver'.d = saver.d /\ saver.d \in Digests
      BY <2>8 DEF SaverCommit, Typed, SaverType
    <3>2. saver.d \in Rooted' BY <2>8, <3>1 DEF SaverCommit, Published, Rooted, Manifests
    <3> QED BY <3>1, <3>2
  <2>9. ASSUME NEW fails \in BOOLEAN, SaverAliases(fails) PROVE Saved'
    <3>1. saver.pc = "alias" /\ saver'.pc = "lock" /\ saver'.d = saver.d /\ saver'.lost = saver.lost
      BY <2>9 DEF SaverAliases, Typed, SaverType
    <3> QED BY <2>1, <3>1
  <2>10. CASE SaverAccounts
    <3>1. saver.pc = "lock" /\ saver'.pc = "pass" /\ saver'.d = saver.d /\ saver'.lost = saver.lost
      BY <2>10 DEF SaverAccounts, Typed, SaverType
    <3> QED BY <2>1, <3>1
  <2>11. CASE SaverDecides
    <3> DEFINE evicted == WasEvicted(pass, saver.d, saver.required)
               lost == saver.lost /\ (pass.report = "ok" \/ ~saver.required)
    <3>1. /\ saver.pc = "pass" /\ saver'.pc = "finish" /\ saver'.d = saver.d
          /\ saver'.evicted = evicted /\ saver'.lost = lost
          /\ saver'.alive = saver.aliases \cap Usable
      BY <2>11 DEF SaverDecides, Typed, SaverType
    <3>2. UNCHANGED <<roots, dropped>> /\ Reachable' = Reachable
      BY <2>11, SettingStays, UsableMeans, UsableMeansNext DEF SaverDecides, Reachable
    <3>3. evicted \/ lost \/ saver.d \in Reachable
      <4>1. saver.d \in Digests BY <3>1 DEF Typed
      <4>2. CASE pass.report = "ok"
        <5>1. \/ saver.d \in Rooted \/ saver.lost \/ <<"manifest", saver.d>> \in pass.gone
          BY <3>1
        <5>2. <<"manifest", saver.d>> \in pass.gone => evicted \/ saver.d \in Usable
          BY <4>2 DEF WasEvicted
        <5> QED BY <2>2, <4>2, <5>1, <5>2 DEF Reachable
      <4>3. CASE pass.report # "ok" /\ ~saver.required
        <5>1. saver.d \in Rooted \/ saver.lost BY <3>1, <4>3
        <5> QED BY <2>2, <4>3, <5>1
      <4>4. CASE pass.report # "ok" /\ saver.required
        BY <4>4 DEF WasEvicted, Reachable
      <4> QED BY <4>2, <4>3, <4>4
    <3>4. saver.aliases \cap Usable \subseteq Reachable BY DEF Reachable
    <3> HIDE DEF evicted, lost
    <3> QED BY <3>1, <3>2, <3>3, <3>4
  <2>12. ASSUME NEW d \in Digests, NEW base \in {NoDigest, Base[d]}, Admit(d, base) PROVE Saved'
    BY <2>12 DEF Admit, Resting
  <2> QED
    BY Bystanders, <2>4, <2>5, <2>6, <2>7, <2>8, <2>9, <2>10, <2>11, <2>12 DEF SaverNext
<1> QED BY <1>1, <1>2, <1>3 DEF Unlinking

\* The survivors the capacity thread found are still there when it offers them.
LEMMA LookedStep ==
  ASSUME Typed, Locked, Looked, [Next]_vars
  PROVE  Looked'
<1> USE DEF setting, disk, account, others, Looked
<1>1. CASE PassNext
  <2>1. cap' = cap /\ cap.pc # "offer"
    BY <1>1 DEF PassNext, Scan, ScanFails, ScanCools, Reconcile, Probe, Apply, Locked
  <2> QED BY <2>1
<1>2. CASE ~PassNext
  <2>1. Reachable \subseteq Reachable' BY <1>2, RootsStay DEF PassNext, Unlinking
  <2>2. ASSUME cap' = cap PROVE Looked' BY <2>1, <2>2
  <2>3. CASE SaverNext
    BY <2>2, <2>3 DEF SaverNext, Protect, SaverCommit, SaverFails, SaverAccounts, SaverDecides,
                      SaverFinishes, SaverAliases
  <2>4. CASE CapLooks
    <3>1. cap'.alive = handoff.taken \cap Manifests \cap Usable
      BY <2>4 DEF CapLooks, Typed, CapType
    <3>2. Usable \subseteq Reachable BY DEF Reachable
    <3> QED BY <2>1, <3>1, <3>2
  <2>5. CASE CapNext /\ ~CapLooks
    <3>1. cap'.pc # "offer"
      BY <2>5 DEF CapNext, CapWakes, CapStops, CapLocks, CapAfterPass, CapLookFails, CapOffers,
                  CapResolves, Release, Typed, CapType
    <3> QED BY <3>1
  <2>6. CASE Beside BY <2>2, <2>6 DEF Beside
  <2>7. CASE \E d \in Digests : \E base \in {NoDigest, Base[d]} : Admit(d, base)
    BY <2>2, <2>7 DEF Admit
  <2> QED BY Bystanders, <1>2, <2>3, <2>4, <2>5, <2>6, <2>7
<1> QED BY <1>1, <1>2

\* An entry that was offered, or put off, and is backed stays so while no pass is over it.
LEMMA BackedKept ==
  ASSUME Backed, Reachable \subseteq Reachable', pass'.pc = pass.pc, pass'.alive = pass.alive,
         pass'.gone = pass.gone, Offers
  PROVE  Backed'
BY DEF Backed, Offers, Taken

\* What a pass found to survive is there until it is applied.
LEMMA AliveStep ==
  ASSUME Typed, Locked, Alive, [Next]_vars
  PROVE  Alive'
<1> USE DEF setting, disk, account, others, Alive
<1>1. ASSUME NEW partial \in BOOLEAN, Scan(partial) PROVE Alive'
  <2>1. PICK V \in Victims : \E W \in SUBSET V : Removes(W, partial)
    BY <1>1 DEF Scan
  <2>2. PICK W \in SUBSET V : Removes(W, partial) BY <2>1
  <2>3. /\ roots' = roots \ W /\ kind' = kind
        /\ pass'.pc = "apply" /\ pass'.alive = Survivors(roots \ W)
    BY <1>1, <2>2 DEF Scan, Removes, Unlinks, Typed, PassType
  <2>4. pass'.alive \subseteq Usable'
    <3>1. ASSUME NEW d \in Survivors(roots \ W) PROVE d \in Usable'
      BY <2>3, <3>1, UsableMeansNext DEF Survivors
    <3> QED BY <2>3, <3>1
  <2> QED BY <2>3, <2>4 DEF Reachable
<1>2. CASE ScanFails
  <2>1. pass'.pc = "failed" /\ pass'.alive = pass.alive /\ pass.pc = "scan"
    BY <1>2 DEF ScanFails, Typed, PassType
  <2> QED BY <2>1
<1>3. CASE ~Unlinking
  <2>1. Reachable \subseteq Reachable' BY <1>3, RootsStay
  <2>2. ASSUME pass'.pc = pass.pc, pass'.alive = pass.alive PROVE Alive' BY <2>1, <2>2
  <2>3. CASE Reconcile
    <3>1. pass'.pc = "probe" /\ pass'.alive = pass.alive /\ pass.pc = "failed"
      BY <2>3 DEF Reconcile, Typed, PassType
    <3> QED BY <3>1
  <2>4. CASE Probe
    <3>1. /\ pass.pc = "probe" /\ pass'.pc \in {"probe", "apply"}
          /\ pass'.alive \subseteq pass.alive \cup Usable
      BY <2>4 DEF Probe, Typed, PassType
    <3> QED BY <2>1, <3>1 DEF Reachable
  <2>5. CASE ScanCools \/ Apply
    <3>1. pass'.pc = "over" BY <2>5 DEF ScanCools, Apply, Typed, PassType
    <3> QED BY <3>1
  <2>6. CASE Beside BY <2>2, <2>6 DEF Beside, Revised
  <2>7. ASSUME pass' = pass \/ pass'.pc = "none" \/ (pass'.pc = "scan" /\ pass'.alive = {})
        PROVE  Alive'
    BY <2>2, <2>7
  <2>8. CASE SaverNext
    <3>1. ASSUME NEW linked \in BOOLEAN, SaverFails(linked) PROVE Alive'
      BY <2>2, <3>1 DEF SaverFails, Touch, Typed, PassType
    <3>2. CASE SaverAccounts
      BY <2>7, <3>2 DEF SaverAccounts, Begin, NoPass
    <3>3. CASE \/ Protect \/ SaverCommit \/ SaverDecides \/ SaverFinishes
               \/ \E fails \in BOOLEAN : SaverAliases(fails)
      <4>1. pass' = pass \/ pass' = NoPass
        BY <3>3 DEF Protect, SaverCommit, SaverDecides, SaverFinishes, SaverAliases
      <4> QED BY <2>7, <4>1 DEF NoPass
    <3> QED BY <2>8, <3>1, <3>2, <3>3 DEF SaverNext
  <2>9. CASE CapNext
    <3>1. pass' = pass \/ pass' = Begin \/ pass' = NoPass
      BY <2>9 DEF CapNext, CapWakes, CapStops, CapLocks, CapAfterPass, CapLooks, CapLookFails,
                  CapOffers, CapResolves
    <3>2. Begin.pc = "scan" /\ Begin.alive = {} /\ NoPass.pc = "none" BY DEF Begin, NoPass
    <3> QED BY <2>7, <3>1, <3>2
  <2>10. CASE \E d \in Digests : \E base \in {NoDigest, Base[d]} : Admit(d, base)
    BY <2>2, <2>10 DEF Admit
  <2> QED
    BY Bystanders, <1>3, <2>3, <2>4, <2>5, <2>6, <2>8, <2>9, <2>10 DEF PassNext, Unlinking
<1> QED BY <1>1, <1>2, <1>3 DEF Unlinking

\* An offered entry has a root, up to what the code accepts.
LEMMA BackedStep ==
  ASSUME Typed, Locked, Snapshot, Saved, Looked, Alive, Backed, [Next]_vars
  PROVE  Backed'
<1> USE DEF setting, disk, account, others
<1>1. ASSUME NEW partial \in BOOLEAN, Scan(partial) PROVE Backed'
  <2>1. PICK V \in Victims : \E W \in SUBSET V : Removes(W, partial)
    BY <1>1 DEF Scan
  <2>2. PICK W \in SUBSET V : Removes(W, partial) BY <2>1
  <2>3. /\ roots' = roots \ W /\ kind' = kind
        /\ pass'.pc = "apply" /\ pass'.alive = Survivors(roots \ W)
    BY <1>1, <2>2 DEF Scan, Removes, Unlinks, Typed, PassType
  <2>4. pass'.alive \subseteq Usable'
    <3>1. ASSUME NEW d \in Survivors(roots \ W) PROVE d \in Usable'
      BY <2>3, <3>1, UsableMeansNext DEF Survivors
    <3> QED BY <2>3, <3>1
  <2>5. \A d \in held : d \notin pass'.alive \/ d \in Reachable' BY <2>4 DEF Reachable
  <2>6. held' = held BY <1>1 DEF Scan
  <2> QED BY <2>3, <2>5, <2>6 DEF Backed
<1>2. CASE ScanFails
  <2>1. PICK V \in Victims : \E W \in SUBSET V :
          /\ Unlinks(W, {"alias", "lock", "pass"})
          /\ pass' = [pass EXCEPT !.pc = "failed", !.report = "unknown", !.gone = W]
    BY <1>2 DEF ScanFails
  <2>2. PICK W \in SUBSET V :
          /\ Unlinks(W, {"alias", "lock", "pass"})
          /\ pass' = [pass EXCEPT !.pc = "failed", !.report = "unknown", !.gone = W]
    BY <2>1
  <2>3. /\ UNCHANGED <<held, deferred, dropped, kind>> /\ pass.pc = "scan" /\ roots' = roots \ W
        /\ pass'.pc = "failed" /\ pass'.gone = W
    BY <1>2, <2>2 DEF ScanFails, Unlinks, Typed, PassType
  <2>4. ASSUME NEW d \in Usable PROVE d \in Usable' \/ \E root \in W : root[2] = d
    BY <2>3, UsableMeans, UsableMeansNext
  <2> QED BY <2>3, <2>4 DEF Backed, Taken, Reachable
<1>6. CASE ScanCools
  <2>1. UNCHANGED <<held, deferred>> /\ pass.pc = "scan" BY <1>6 DEF ScanCools
  <2>2. Reachable' = Reachable
    BY <1>6, UsableMeans, UsableMeansNext DEF Reachable, ScanCools
  <2> QED BY <2>1, <2>2 DEF Backed, Taken
<1>7. CASE Reconcile
  <2>1. /\ UNCHANGED <<held, deferred>> /\ pass.pc = "failed"
        /\ pass'.pc = "probe" /\ pass'.gone = pass.gone
    BY <1>7 DEF Reconcile, Typed, PassType
  <2>2. Reachable' = Reachable
    BY <1>7, UsableMeans, UsableMeansNext DEF Reachable, Reconcile
  <2> QED BY <2>1, <2>2 DEF Backed, Taken
<1>3. CASE Probe
  <2>1. /\ UNCHANGED <<held, deferred>> /\ pass.pc = "probe"
        /\ pass'.pc \in {"probe", "apply"} /\ pass'.gone = pass.gone
        /\ pass'.pc = "apply" => pass'.alive = pass.alive
    BY <1>3 DEF Probe, Typed, PassType
  <2>2. Reachable' = Reachable
    BY <1>3, UsableMeans, UsableMeansNext DEF Reachable, Probe
  <2>3. pass.alive \subseteq Reachable BY <2>1 DEF Alive
  <2> QED BY <2>1, <2>2, <2>3 DEF Backed, Taken
<1>4. CASE Apply
  <2>1. Reachable' = Reachable
    BY <1>4, UsableMeans, UsableMeansNext DEF Reachable, Apply
  <2>2. pass.pc = "apply" /\ pass'.pc = "over" BY <1>4 DEF Apply, Typed, PassType
  <2>3. CASE pass.clean
    <3>1. held = pass.held BY <2>2, <2>3 DEF Snapshot
    <3>2. held' = held \ (pass.held \ pass.alive)
      BY <1>4, <2>3 DEF Apply
    <3>3. pass.alive \subseteq Reachable BY <2>2 DEF Alive
    <3> QED BY <2>1, <3>1, <3>2, <3>3 DEF Backed
  <2>4. CASE ~pass.clean
    <3>1. held' = held /\ deferred' = deferred \cup (held \ pass.alive)
      BY <1>4, <2>4 DEF Apply
    <3> QED BY <2>1, <2>2, <3>1 DEF Backed, Taken
  <2> QED BY <2>3, <2>4
<1>5. CASE ~PassNext
  <2>1. Reachable \subseteq Reachable' BY <1>5, RootsStay DEF PassNext, Unlinking
  <2>2. ASSUME pass' = pass \/ pass.pc \in {"none", "over"}, UNCHANGED <<held, deferred>>
        PROVE  Backed'
    BY <2>1, <2>2 DEF Backed, Taken
  <2>3. CASE Protect \/ SaverCommit \/ \E fails \in BOOLEAN : SaverAliases(fails)
    BY <2>2, <2>3 DEF Protect, SaverCommit, SaverAliases
  <2>4. ASSUME NEW linked \in BOOLEAN, SaverFails(linked) PROVE Backed'
    <3>1. Offer(held \ {saver.d}) /\ pass' = Touch(pass, held \ {saver.d})
      BY <2>4 DEF SaverFails
    <3>2. Offers /\ Revised BY <3>1, OfferedLess, TouchRevises
    <3> QED BY <2>1, <3>2, BackedKept DEF Revised
  <2>5. CASE SaverAccounts
    <3>1. pass.pc = "none" BY <2>5 DEF SaverAccounts, Locked
    <3> QED BY <2>2, <2>5, <3>1 DEF SaverAccounts
  <2>6. CASE SaverDecides
    <3>1. pass.pc \in {"none", "over"} BY <2>6 DEF SaverDecides
    <3> QED BY <2>2, <2>6, <3>1 DEF SaverDecides
  <2>7. CASE SaverFinishes
    <3>1. pass' = pass BY <2>7 DEF SaverFinishes, Locked
    <3>2. CASE saver.evicted
      <4>1. Offers BY <2>7, <3>2 DEF SaverFinishes, Offers
      <4> QED BY <2>1, <3>1, <4>1, BackedKept
    <3>3. CASE ~saver.evicted
      <4>1. saver.alive \subseteq Reachable /\ (saver.lost \/ saver.d \in Reachable)
        BY <2>7, <3>3 DEF SaverFinishes, Saved
      <4>2. /\ held' = held \cup {saver.d} \cup saver.alive
            /\ deferred' = (deferred \cap held') \cup IF saver.lost THEN {saver.d} ELSE {}
        BY <2>7, <3>3 DEF SaverFinishes
      <4>3. Offers BY <4>1, <4>2 DEF Offers
      <4> QED BY <2>1, <3>1, <4>3, BackedKept
    <3> QED BY <3>2, <3>3
  <2>8. CASE CapNext
    <3>1. CASE CapOffers /\ ~Stopping
      <4>1. pass' = pass BY <3>1 DEF CapOffers
      <4>2. cap.alive \subseteq Reachable BY <3>1 DEF CapOffers, Looked
      <4>3. Offers BY <3>1, <4>2 DEF CapOffers, Offer, Offers
      <4> QED BY <2>1, <4>1, <4>3, BackedKept
    <3>2. CASE CapOffers /\ Stopping BY <2>2, <3>2 DEF CapOffers
    <3>3. CASE CapLocks
      <4>1. pass.pc = "none" BY <3>3 DEF CapLocks, Locked
      <4> QED BY <2>2, <3>3, <4>1 DEF CapLocks
    <3>4. CASE CapAfterPass BY <2>2, <3>4 DEF CapAfterPass
    <3>5. CASE CapWakes \/ CapStops \/ CapLooks \/ CapLookFails \/ CapResolves
      BY <2>2, <3>5 DEF CapWakes, CapStops, CapLooks, CapLookFails, CapResolves
    <3> QED BY <2>8, <3>1, <3>2, <3>3, <3>4, <3>5 DEF CapNext
  <2>9. ASSUME NEW d \in Digests, NEW base \in {NoDigest, Base[d]}, Admit(d, base) PROVE Backed'
    BY <2>2, <2>9 DEF Admit
  <2>10. CASE Beside BY <2>1, <2>10, BackedKept DEF Beside, Revised
  <2> QED
    BY Bystanders, <1>5, <2>3, <2>4, <2>5, <2>6, <2>7, <2>8, <2>9, <2>10 DEF SaverNext
<1> QED BY <1>1, <1>2, <1>3, <1>4, <1>5, <1>6, <1>7 DEF PassNext

-----------------------------------------------------------------------------
(* The estimate *)

\* The manifests that the estimate has to cover.
Known == Manifests \ uncounted

\* A commit adds at most one manifest.
LEMMA KnownGrows ==
  ASSUME Typed, NEW d, Known' \subseteq Known \cup {d}
  PROVE  /\ Cardinality(Known) \in Nat /\ Cardinality(Known') \in Nat
         /\ Cardinality(Known') <= Cardinality(Known) + 1
<1>1. Known \subseteq Digests /\ Known' \subseteq Digests BY DEF Known, Manifests
<1>2. IsFiniteSet(Known) /\ IsFiniteSet(Known \cup {d})
  BY <1>1, CountedDigests, FS_AddElement
<1>3. Cardinality(Known \cup {d}) <= Cardinality(Known) + 1
  BY <1>1, <1>2, CountedDigests, FS_AddElement
<1>4. Cardinality(Known') <= Cardinality(Known \cup {d})
  BY <1>2, FS_Subset
<1>5. Cardinality(Known \cup {d}) \in Nat BY <1>2, FS_CardinalityType
<1> QED BY <1>1, <1>3, <1>4, <1>5, CountedDigests

LEMMA KnownShrinks ==
  ASSUME Typed, Known' \subseteq Known
  PROVE  /\ Cardinality(Known) \in Nat /\ Cardinality(Known') \in Nat
         /\ Cardinality(Known') <= Cardinality(Known)
<1>1. Known \subseteq Digests /\ Known' \subseteq Digests BY DEF Known, Manifests
<1>2. IsFiniteSet(Known) BY <1>1, CountedDigests
<1> QED BY <1>1, <1>2, CountedDigests, FS_Subset

\* The saver's publications are accounted, however passes and commits overlap.
LEMMA EstimateStep ==
  ASSUME Typed, Typed', EstimateCovers, [Next]_vars
  PROVE  EstimateCovers'
<1> SUFFICES ASSUME kind # "stream"
             PROVE  Cardinality(Known') <= est' + IF saver'.pc \in {"alias", "lock"} THEN 1 ELSE 0
  BY SettingStays DEF EstimateCovers, Known
<1> USE DEF setting, disk, account, others
<1> DEFINE late == IF saver.pc \in {"alias", "lock"} THEN 1 ELSE 0
<1>1. Cardinality(Known) <= est + late BY DEF EstimateCovers, Known
<1>2. est \in Int /\ est' \in Int BY DEF Typed
<1>3. ASSUME Known' \subseteq Known, est' >= est, saver'.pc = saver.pc
      PROVE  Cardinality(Known') <= est' + late
  BY <1>1, <1>2, <1>3, KnownShrinks
<1>4. CASE \E partial \in BOOLEAN : Scan(partial)
  <2>1. PICK V \in Victims : \E W \in SUBSET V : \E partial \in BOOLEAN : Removes(W, partial)
    BY <1>4 DEF Scan
  <2>2. PICK W \in SUBSET V : \E partial \in BOOLEAN : Removes(W, partial)
    BY <2>1
  <2>3. est' = Cardinality(roots') BY <2>2 DEF Removes, Unlinks
  <2>4. Cardinality(Known') <= Cardinality(roots')
    <3>1. roots' \subseteq {"manifest", "alias"} \X Digests BY DEF Typed
    <3>2. Known' \subseteq Manifests' BY DEF Known
    <3>3. Cardinality(Manifests') <= Cardinality(roots') BY <3>1, ManifestsFewer DEF Manifests
    <3>4. Cardinality(Known') <= Cardinality(Manifests')
      BY <3>2, CountedDigests, FS_Subset DEF Manifests
    <3>5. Cardinality(Manifests') \in Nat /\ Cardinality(Known') \in Nat /\ Cardinality(roots') \in Nat
      BY <3>1, CountedDigests, Counted DEF Manifests, Known
    <3> QED BY <3>3, <3>4, <3>5
  <2>5. Cardinality(Known') \in Nat BY CountedDigests DEF Known, Manifests
  <2> QED BY <1>2, <2>3, <2>4, <2>5
<1>5. CASE SaverCommit
  <2>1. Known' \subseteq Known \cup {saver.d} 
    BY <1>5 DEF SaverCommit, Published, Known, Manifests
  <2>2. saver.pc = "commit" /\ saver'.pc \in {"alias", "lock"} /\ est' = est
    BY <1>5 DEF SaverCommit, Typed, SaverType
  <2> QED BY <1>1, <1>2, <2>1, <2>2, KnownGrows
<1>6. CASE SaverAccounts
  <2>1. Known' \subseteq Known BY <1>6 DEF SaverAccounts, Known, Manifests
  <2>2. saver.pc = "lock" /\ saver'.pc = "pass" /\ est' = est + 1
    BY <1>6 DEF SaverAccounts, Typed, SaverType
  <2> QED BY <1>1, <1>2, <2>1, <2>2, KnownShrinks
<1>7. ASSUME NEW fails \in BOOLEAN, SaverAliases(fails)
      PROVE  Cardinality(Known') <= est' + IF saver'.pc \in {"alias", "lock"} THEN 1 ELSE 0
  <2>1. Known' \subseteq Known BY <1>7 DEF SaverAliases, Known, Manifests
  <2>2. saver.pc = "alias" /\ saver'.pc = "lock" /\ est' = est
    BY <1>7 DEF SaverAliases, Typed, SaverType
  <2> QED BY <1>1, <1>2, <2>1, <2>2, KnownShrinks
<1>8. CASE Protect \/ SaverDecides \/ SaverFinishes
      \/ \E d \in Digests : \E base \in {NoDigest, Base[d]} : Admit(d, base)
  <2>1. roots' = roots /\ est' = est /\ uncounted' = uncounted
    BY <1>8 DEF Protect, SaverDecides, SaverFinishes, Admit
  <2>2. saver.pc \notin {"alias", "lock"}
    BY <1>8 DEF Protect, SaverDecides, SaverFinishes, Admit
  <2>3. Known' \subseteq Known BY <2>1 DEF Known, Manifests
  <2> QED BY <1>1, <1>2, <2>1, <2>2, <2>3, KnownShrinks
<1>12. ASSUME NEW linked \in BOOLEAN, SaverFails(linked)
       PROVE  Cardinality(Known') <= est' + IF saver'.pc \in {"alias", "lock"} THEN 1 ELSE 0
  <2>1. est' = est /\ saver.pc = "commit" /\ saver'.pc = "idle" BY <1>12 DEF SaverFails, Resting
  <2>2. CASE linked
    <3>1. uncounted' = uncounted \cup ({saver.d} \ Manifests) /\ Published(saver.d)
      BY <1>12, <2>2 DEF SaverFails
    <3>2. Known' \subseteq Known BY <3>1 DEF Published, Known, Manifests
    <3> QED BY <1>1, <1>2, <2>1, <3>2, KnownShrinks
  <2>3. CASE ~linked
    <3>1. Known' \subseteq Known BY <1>12, <2>3 DEF SaverFails, Known, Manifests
    <3> QED BY <1>1, <1>2, <2>1, <3>1, KnownShrinks
  <2> QED BY <2>2, <2>3
<1>13. CASE ScanFails
  <2>1. PICK V \in Victims : \E W \in SUBSET V : Unlinks(W, {"alias", "lock", "pass"})
    BY <1>13 DEF ScanFails
  <2>2. roots' \subseteq roots /\ saver'.pc = saver.pc BY <2>1 DEF Unlinks, Typed, SaverType
  <2>3. est' = est /\ Known' \subseteq Known BY <1>13, <2>2 DEF ScanFails, Known, Manifests
  <2> QED BY <1>2, <1>3, <2>2, <2>3
<1>9. CASE PassNext /\ ~Unlinking
  <2>1. UNCHANGED <<roots, est, saver, uncounted>>
    BY <1>9 DEF Unlinking, PassNext, ScanCools, Reconcile, Probe, Apply
  <2>2. Known' \subseteq Known BY <2>1 DEF Known, Manifests
  <2> QED BY <1>2, <1>3, <2>1, <2>2
<1>10. CASE CapNext
  <2>1. UNCHANGED <<roots, saver, uncounted>>
    BY <1>10 DEF CapNext, CapWakes, CapStops, CapLocks, CapAfterPass, CapLooks, CapLookFails,
                 CapOffers, CapResolves
  <2>2. est' >= est
    <3>1. CASE CapLocks
      <4>1. handoff.taken \ cap.counted \subseteq Digests BY DEF Typed, HandoffType
      <4>2. Cardinality(handoff.taken \ cap.counted) \in Nat BY <4>1, CountedDigests
      <4>3. est' = est + Cardinality(handoff.taken \ cap.counted) BY <3>1 DEF CapLocks
      <4> QED BY <1>2, <4>2, <4>3
    <3>2. CASE ~CapLocks
      <4>1. est' = est
        BY <1>10, <3>2 DEF CapNext, CapWakes, CapStops, CapAfterPass, CapLooks, CapLookFails,
                           CapOffers, CapResolves
      <4> QED BY <1>2, <4>1
    <3> QED BY <3>1, <3>2
  <2>3. Known' \subseteq Known BY <2>1 DEF Known, Manifests
  <2> QED BY <1>3, <2>1, <2>2, <2>3
<1>11. CASE Beside
  <2>1. Known' \subseteq Known BY <1>11 DEF Beside, Known, Manifests
  <2> QED BY <1>2, <1>3, <1>11, <2>1 DEF Beside
<1> HIDE DEF late
<1> QED
  BY Bystanders, <1>4, <1>5, <1>6, <1>7, <1>8, <1>9, <1>10, <1>11, <1>12, <1>13
  DEF SaverNext, Unlinking

-----------------------------------------------------------------------------
(* The theorems *)

THEOREM Invariant == Spec => []IInv
<1>1. Init => IInv BY InitInv
<1>2. IInv /\ [Next]_vars => IInv'
  <2> SUFFICES ASSUME IInv, [Next]_vars PROVE IInv' OBVIOUS
  <2>1. Typed' BY TypedStep DEF IInv
  <2>2. Locked' BY LockedStep DEF IInv
  <2>3. Pinned' BY PinnedStep DEF IInv
  <2>4. Snapshot' BY SnapshotStep DEF IInv
  <2>5. Saved' BY SavedStep DEF IInv
  <2>6. Looked' BY LookedStep DEF IInv
  <2>7. Backed' BY BackedStep DEF IInv
  <2>9. Alive' BY AliveStep DEF IInv
  <2>8. EstimateCovers' BY <2>1, EstimateStep DEF IInv
  <2> QED BY <2>1, <2>2, <2>3, <2>4, <2>5, <2>6, <2>7, <2>8, <2>9 DEF IInv
<1> QED BY <1>1, <1>2, PTL DEF Spec

\* Whatever the saver, the capacity thread, loads, the integrity sweep, discovery and
\* shutdown do to the held inventory, and however passes fail half-way, an offered entry
\* has a root, up to the cases OffersBacked names, which a pass that finds the inventory
\* unchanged settles (_apply_held_capacity_survivors, discover_manifests, sweep_integrity,
\* _post_commit_was_evicted_locked, _finalize_streaming_capacity_commits).
THEOREM OfferIsBacked == Spec => []OffersBacked
<1>1. IInv => OffersBacked
  <2> SUFFICES ASSUME IInv PROVE OffersBacked OBVIOUS
  <2>1. TypeOK
    <3>1. \A p \in pins : p.base \in Digests BY DEF IInv, Typed
    <3>2. pass.pc # "none" => owner # "free" BY DEF IInv, Locked
    <3> QED BY <3>1, <3>2 DEF IInv, Typed, Locked, Pinned, TypeOK
  <2> QED BY <2>1 DEF IInv, Backed, Taken, Reachable, OffersBacked
<1> QED BY <1>1, Invariant, PTL

\* No pass removes the base, or the result, of a publication that is pinned
\* (_protect_capture_publication_base, ManifestStore.maintain).
THEOREM BaseIsKept == Spec => PinnedBaseKept
<1> DEFINE Kept == \A p \in pins, d \in Digests :
                     d \in {p.base, p.result} /\ <<"manifest", d>> \in roots => <<"manifest", d>> \in roots'
<1>1. IInv /\ [Next]_vars => [pass' # pass => Kept]_vars
  BY VictimsUnpinned DEF IInv
<1>2. Spec => [][pass' # pass => Kept]_vars BY <1>1, Invariant, PTL DEF Spec
<1> QED BY <1>2 DEF PinnedBaseKept

\* The estimate covers what the saver has published, but for the roots of commits that
\* failed after the link, until a pass counts them (_note_capacity_commit_locked).
THEOREM EstimateIsSafe == Spec => []EstimateCovers
<1>1. IInv => EstimateCovers BY DEF IInv
<1> QED BY <1>1, Invariant, PTL

====
