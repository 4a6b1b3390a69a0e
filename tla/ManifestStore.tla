---------------------------- MODULE ManifestStore ----------------------------
(***************************************************************************)
(* ManifestStore (persistent_context_cache/cache_manifest.py): one cache   *)
(* root on a POSIX file system, shared by publishing threads, capacity     *)
(* maintenance, the clear-once operation and invalidation, with power      *)
(* failures between any two steps.                                         *)
(*                                                                         *)
(* The file system is modelled by what a directory shows now (disk) and by *)
(* what each name may show after a power failure (pend): creating, linking,*)
(* replacing or unlinking a name adds an outcome, an fsync of its directory*)
(* leaves only the current one.                                            *)
(*                                                                         *)
(* A chunk is named by the context whose tokens end with it; Prefix gives  *)
(* the contexts a context extends, itself included.  Descriptor segments   *)
(* hold one descriptor each (sixteen in the code).                         *)
(***************************************************************************)
EXTENDS Naturals, Sequences, FiniteSets, FiniteSetsExt

CONSTANTS
    Writers,   \* threads that publish
    Contexts,  \* context digests, each with the chunk it ends in
    Prefix,    \* [Contexts -> SUBSET Contexts]
    Absent,    \* no such directory entry
    Temp,      \* name of a ".writing-" file that a dead publisher left
    Modes,     \* storage modes explored: "rows", "pages"
    MaxFiles,  \* max_bytes, in files; 0: not bounded
    LowFiles,  \* low_watermark_bytes, in files
    Budget,    \* maintenance_max_deletions; 0: not bounded
    Ttl,       \* ttl_seconds is not 0: roots expire and the worker's waits end by the clock
    MaxOps,    \* bound: publications
    MaxRemovals, \* bound: invalidations and clears begun
    MaxFaults    \* bound: power failures, deaths, failed calls, lost files

ASSUME StoreConstants ==
    /\ Prefix \in [Contexts -> SUBSET Contexts]
    /\ \A c \in Contexts : c \in Prefix[c] /\ \A b \in Prefix[c] : Prefix[b] \subseteq Prefix[c]
    /\ Modes \subseteq {"rows", "pages"}
    /\ MaxFiles \in Nat /\ LowFiles \in 0 .. MaxFiles /\ Budget \in Nat /\ Ttl \in BOOLEAN
    /\ MaxOps \in Nat /\ MaxRemovals \in Nat /\ MaxFaults \in Nat
    /\ Temp \notin Contexts

VARIABLES
    disk,     \* what every name shows
    pend,     \* what every name may show after a power failure
    mode,     \* _storage_mode of the connector
    writer,   \* the publication each thread is in
    sole,     \* the holder of the exclusive root guard: maintenance or a clear
    drop,     \* the invalidation under way
    pressing, \* _maintenance_pressure_target is set
    era,      \* clears begun so far
    promised, \* roots whose publication returned a receipt and that nobody removed since
    loose,    \* roots unlinked by an operation that did not reach its barrier since
    lost,     \* objects nobody published again since the medium damaged them, a clear
              \* removed them, maintenance collected them although a root that does not
              \* resolve lists them, or invalidation removed them on a stale reading
    ops, drops, faults

vars == <<disk, pend, mode, writer, sole, drop, pressing, era, promised, loose,
          lost, ops, drops, faults>>
history == <<promised, loose, lost>>

-----------------------------------------------------------------------------
(* Names, contents and the file system. *)

DataDirs == <<"chunks", "manifests", "prefix-aliases", "prefix-index">>
Dirs == {DataDirs[i] : i \in DOMAIN DataDirs}
RootDirs == {"manifests", "prefix-aliases"}

Data == Dirs \X (Contexts \cup {Temp})
Roots == RootDirs \X Contexts
Objects == {"chunks", "prefix-index"} \X Contexts
Marker == <<"clear-once", Temp>>
Names == Data \cup {Marker}

\* The bytes of a file: whether they are the ones written, and the chunk and
\* segment names they list when the file is a root.
Contents == [ok : BOOLEAN, chunks : SUBSET Contexts, index : SUBSET Contexts, era : 0 .. MaxRemovals]
File(chunks, index) == [ok |-> TRUE, chunks |-> chunks, index |-> index, era |-> era]
Plain == File({}, {})

ASSUME AbsentIsNoFile == Absent \notin Contents

Same(v, w) == v.ok /\ w.ok /\ v.chunks = w.chunks /\ v.index = w.index
Matches(n, v) == disk[n] # Absent /\ Same(disk[n], v)  \* _durable_payload_matches

Visible(d) == {n \in Data : d[n] # Absent}
Refs(v) == ({"chunks"} \X v.chunks) \cup ({"prefix-index"} \X v.index)

\* Directory changes: S now shows v (or nothing), and may after a power failure.
Shown(S, v) == [n \in Names |-> IF n \in S THEN v ELSE disk[n]]
Pending(S, v) == [n \in Names |-> IF n \in S THEN pend[n] \cup {v} ELSE pend[n]]
\* _fsync_directory of the directories ds, in a file system (d, p).
Synced(ds, d, p) == [n \in Names |-> IF n[1] \in ds THEN {d[n]} ELSE p[n]]

DirsOf(S) == {n[1] : n \in S}

Put(S, v) == disk' = Shown(S, v) /\ pend' = Pending(S, v)
Sync(ds) == pend' = Synced(ds, disk, pend) /\ UNCHANGED disk
Unlink(S) == Put({n \in S : disk[n] # Absent}, Absent)

-----------------------------------------------------------------------------
(* Lookup. *)

\* A root whose metadata resolves: its own bytes and its descriptor chain.
Resolves(d, v) ==
    v.ok /\ \A u \in v.index : LET s == <<"prefix-index", u>> IN d[s] # Absent /\ d[s].ok

\* An exact manifest takes precedence; only row storage consults aliases.
RootOf(c) ==
    IF disk[<<"manifests", c>>] = Absent /\ mode = "rows" THEN <<"prefix-aliases", c>>
                                                          ELSE <<"manifests", c>>

Hit(c, verifyChunks) ==
    LET v == disk[RootOf(c)] IN
    /\ v # Absent
    /\ Resolves(disk, v)
    /\ \A u \in v.chunks : LET f == disk[<<"chunks", u>>] IN
                           f # Absent /\ (verifyChunks => f.ok)

-----------------------------------------------------------------------------
(* Publication, under the shared root guard. *)

Resting == [pc |-> "idle", root |-> <<>>, body |-> Plain, need |-> {}, done |-> {},
            batch |-> {}, staged |-> {}, retry |-> FALSE]
Nobody == [pc |-> "idle", seen |-> <<>>, chosen |-> {}, gone |-> {}, left |-> 0, dir |-> 0]
NoDrop == [pc |-> "idle", root |-> <<>>, todo |-> {}, bad |-> {}]

Init ==
    /\ disk = [n \in Names |-> Absent]
    /\ pend = [n \in Names |-> {Absent}]
    /\ mode \in Modes
    /\ era = 0
    /\ writer = [w \in Writers |-> Resting]
    /\ sole = Nobody /\ drop = NoDrop
    /\ pressing = FALSE
    /\ promised = {} /\ loose = {} /\ lost = {}
    /\ ops = 0 /\ drops = 0 /\ faults = 0

Holding(w) == writer[w].pc \notin {"idle", "committed"}
SharedGuard == sole.pc = "idle"
RootGuard == sole.pc = "idle" /\ \A w \in Writers : ~Holding(w)

Fault == faults < MaxFaults /\ faults' = faults + 1

Publish(w, root, body, need, retry) ==
    /\ SharedGuard
    /\ ops < MaxOps /\ ops' = ops + 1
    /\ writer' = [writer EXCEPT ![w] = [Resting EXCEPT !.pc = "open", !.root = root,
                                        !.body = body, !.need = need, !.retry = retry]]
    /\ UNCHANGED <<disk, pend, mode, sole, drop, drops, pressing, era, history, faults>>

\* begin, append_chunks and commit_manifest: every chunk of the context.
BeginContext(w, c) ==
    /\ mode = "rows"
    /\ writer[w].pc = "idle"
    /\ Publish(w, <<"manifests", c>>, File(Prefix[c], {}), {"chunks"} \X Prefix[c], TRUE)

\* commit_page_snapshot: the extents of one flat snapshot.
CommitPageSnapshot(w, c) ==
    /\ mode = "pages"
    /\ writer[w].pc = "idle"
    /\ Publish(w, <<"manifests", c>>, File({c}, {}), {<<"chunks", c>>}, FALSE)

Extends(c, b) == b # c /\ Prefix[c] = Prefix[b] \cup {c}

\* commit_extension: the descriptors of a verified base go into a chain of segments.
CommitExtension(w, b, c) ==
    /\ mode = "rows"
    /\ writer[w].pc = "idle"
    /\ Extends(c, b) /\ Hit(b, TRUE)
    /\ LET reused == disk[RootOf(b)].chunks
       IN Publish(w, <<"manifests", c>>, File(reused \cup {c}, reused),
                  ({"prefix-index"} \X reused) \cup {<<"chunks", c>>}, FALSE)

\* commit_page_extension: the root embeds that of a base whose files are all there.
CommitPageExtension(w, b, c) ==
    /\ mode = "pages"
    /\ writer[w].pc = "idle"
    /\ Extends(c, b) /\ Hit(b, FALSE)
    /\ Publish(w, <<"manifests", c>>, File(disk[RootOf(b)].chunks \cup {c}, {}),
               {<<"chunks", c>>}, FALSE)

\* publish_prefix_aliases, after the exact commit of its source by the same thread.
PublishPrefixAlias(w, b) ==
    /\ writer[w].pc = "committed"
    /\ mode = "rows"
    /\ LET source == disk[writer[w].root] IN
       /\ source # Absent /\ Resolves(disk, source)
       /\ b \in source.chunks
       /\ Publish(w, <<"prefix-aliases", b>>, File(Prefix[b], Prefix[b]),
                  {"prefix-index"} \X Prefix[b], FALSE)

SkipAlias(w) ==
    /\ writer[w].pc = "committed"
    /\ writer' = [writer EXCEPT ![w] = Resting]
    /\ UNCHANGED <<disk, pend, mode, sole, drop, drops, pressing, era, history, ops, faults>>

\* The next macro-batch: segments before chunks, row chunks in token order.
NextBatch(p) ==
    LET left == p.need \ p.done
        segments == {n \in left : n[1] = "prefix-index"}
        ready == {n \in left : \A m \in left : m[2] \in Prefix[n[2]] => m = n}
    IN IF segments # {} THEN segments ELSE ready

\* Mutant: a batch whose files all exist already needs no barrier.
StageAdopting(w) ==
    LET p == writer[w]
        batch == NextBatch(p)
        staged == {n \in batch : ~Matches(n, Plain)}
    IN
    /\ p.pc = "open" /\ p.done # p.need
    /\ writer' = [writer EXCEPT ![w] =
                     IF staged = {} THEN [p EXCEPT !.done = @ \cup batch]
                     ELSE [p EXCEPT !.pc = "link", !.batch = batch, !.staged = staged]]
    /\ UNCHANGED <<disk, pend, mode, sole, drop, drops, pressing, era, history, ops, faults>>

\* Adopt the files that hold the bytes already, write the others to temporary names.
Stage(w) ==
    LET p == writer[w]
        batch == NextBatch(p)
        staged == {n \in batch : ~Matches(n, Plain)}
        temps == {<<d, Temp>> : d \in DirsOf(staged)}
    IN
    /\ p.pc = "open" /\ p.done # p.need
    /\ writer' = [writer EXCEPT ![w].pc = "link", ![w].batch = batch, ![w].staged = staged]
    /\ pend' = Pending(temps, Plain)
    /\ UNCHANGED <<disk, mode, sole, drop, drops, pressing, era, history, ops, faults>>

\* os.link; a file that appeared meanwhile is adopted, a corrupt one replaced.
Link(w, n) ==
    /\ writer[w].pc = "link" /\ n \in writer[w].staged
    /\ writer' = [writer EXCEPT ![w].staged = @ \ {n}]
    /\ Put(IF Matches(n, Plain) THEN {} ELSE {n}, Plain)
    /\ UNCHANGED <<mode, sole, drop, drops, pressing, era, history, ops, faults>>

\* The directory barrier of the batch; its descriptors join the transaction.
Barrier(w) ==
    /\ writer[w].pc = "link" /\ writer[w].staged = {}
    /\ writer' = [writer EXCEPT ![w].pc = "open", ![w].done = @ \cup writer[w].batch,
                                ![w].batch = {}]
    /\ Sync(DirsOf(writer[w].batch))
    /\ lost' = {n \in lost : ~(n \in writer[w].batch /\ Matches(n, Plain))}
    /\ UNCHANGED <<mode, sole, drop, drops, pressing, era, promised, loose, ops, faults>>

Given(w, next) == writer' = [writer EXCEPT ![w] = next]
GivenUp(w) == Given(w, Resting)
\* After a failed call a transaction stays open for a retry, the others end.
Failed(w) ==
    Given(w, IF writer[w].retry
             THEN [writer[w] EXCEPT !.pc = "open", !.batch = {}, !.staged = {}]
             ELSE Resting)

\* A call of the batch fails: the finally clause still removes the temporary names and
\* runs the barrier, unless the barrier is what failed.
BatchFails(w) ==
    /\ writer[w].pc = "link"
    /\ Fault
    /\ Failed(w)
    /\ Sync(IF writer[w].staged = {} THEN {} ELSE DirsOf(writer[w].batch))
    /\ UNCHANGED <<mode, sole, drop, drops, pressing, era, history, ops>>

Abort(w) ==
    /\ writer[w].pc = "open"
    /\ GivenUp(w)
    /\ UNCHANGED <<disk, pend, mode, sole, drop, drops, pressing, era, history, ops, faults>>

\* commit_manifest, when every listed object is durable: adopt an equal root, or stage.
Commit(w) ==
    LET p == writer[w]
        known == Matches(p.root, p.body)
    IN
    /\ p.pc = "open" /\ p.done = p.need
    /\ Given(w, [p EXCEPT !.pc = IF known THEN "sync" ELSE "root"])
    /\ pend' = Pending(IF known THEN {} ELSE {<<p.root[1], Temp>>}, Plain)
    /\ UNCHANGED <<disk, mode, sole, drop, drops, pressing, era, history, ops, faults>>

\* Link the root.  A different root there is a CommitConflict.
LinkRoot(w) ==
    LET p == writer[w] IN
    /\ p.pc = "root"
    /\ \/ /\ disk[p.root] = Absent
          /\ Put({p.root}, p.body)
          /\ Given(w, [p EXCEPT !.pc = "sync"])
       \/ /\ Matches(p.root, p.body)
          /\ Given(w, [p EXCEPT !.pc = "sync"])
          /\ UNCHANGED <<disk, pend>>
       \/ /\ disk[p.root] # Absent /\ ~Matches(p.root, p.body)
          /\ Sync({p.root[1]})
          /\ GivenUp(w)
    /\ UNCHANGED <<mode, sole, drop, drops, pressing, era, history, ops, faults>>

\* Mutant: the receipt does not wait for the barrier.
SyncRootLater(w) ==
    LET p == writer[w] IN
    /\ p.pc = "sync"
    /\ UNCHANGED <<disk, pend>>
    /\ Given(w, IF p.root[1] = "manifests" /\ mode = "rows"
                THEN [Resting EXCEPT !.pc = "committed", !.root = p.root]
                ELSE Resting)
    /\ promised' = IF disk[p.root] # Absent THEN promised \cup {p.root} ELSE promised
    /\ loose' = loose \ {p.root}
    /\ UNCHANGED <<mode, sole, drop, drops, pressing, era, lost, ops, faults>>

\* The barrier after which the publication returns its receipt.
SyncRoot(w) ==
    LET p == writer[w] IN
    /\ p.pc = "sync"
    /\ Sync({p.root[1]})
    /\ Given(w, IF p.root[1] = "manifests" /\ mode = "rows"
                THEN [Resting EXCEPT !.pc = "committed", !.root = p.root]
                ELSE Resting)
    /\ promised' = IF disk[p.root] # Absent THEN promised \cup {p.root} ELSE promised
    /\ loose' = loose \ {p.root}
    /\ UNCHANGED <<mode, sole, drop, drops, pressing, era, lost, ops, faults>>

\* A failed barrier leaves the root linked; only a transaction may retry its commit.
SyncRootFails(w) ==
    /\ writer[w].pc = "sync"
    /\ Fault
    /\ Failed(w)
    /\ UNCHANGED <<disk, pend, mode, sole, drop, drops, pressing, era, history, ops>>

\* The publishing process is killed: its temporary files stay, its lock goes.
Dies(w) ==
    LET p == writer[w]
        temps == {<<d, Temp>> : d \in DirsOf(p.staged \cup (IF p.pc = "root" THEN {p.root} ELSE {}))}
    IN
    /\ Holding(w)
    /\ Fault
    /\ GivenUp(w)
    /\ Put(temps, Plain)
    /\ UNCHANGED <<mode, sole, drop, drops, pressing, era, history, ops>>

-----------------------------------------------------------------------------
(* maintain, under the exclusive root guard. *)

Entries(d) == {n \in Roots : d[n] # Absent}
Valid(d) == {n \in Entries(d) : Resolves(d, d[n])}
ReferencedBy(d, S) == UNION {Refs(d[n]) : n \in S \cap Valid(d)}
\* Files no valid root accounts for: objects nobody lists, and temporary names.
Orphans(d) == Visible(d) \ (Entries(d) \cup ReferencedBy(d, Entries(d)))
Debris(d) == {n \in Orphans(d) : n[1] \in RootDirs}

\* The inventory after the roots S and all the orphans are gone.
Projected(d, S) ==
    Cardinality((Entries(d) \ S) \cup (Visible(d) \cap ReferencedBy(d, Entries(d) \ S)))

Pressure ==
    LET size == Cardinality(Visible(disk)) IN
    /\ MaxFiles > 0
    /\ size > MaxFiles \/ (Budget > 0 /\ pressing /\ size > LowFiles)

\* The roots a pass may select: invalid and expired ones first, then, under pressure,
\* others (in the order of their times, which is any) until the projection is low
\* enough.  With a deletion budget, orphans come before any root.
Selected(S, protected, expired) ==
    LET free == Entries(disk) \ (Valid(disk) \cap protected)
        first == free \cap (expired \cup (Entries(disk) \ Valid(disk)))
        full == Budget > 0 /\ Cardinality(S) = Budget
    IN IF Budget > 0 /\ Orphans(disk) # {} THEN S = {}
       ELSE /\ S \subseteq free
            /\ Budget > 0 => Cardinality(S) <= Budget
            /\ first \subseteq S \/ (full /\ S \subseteq first)
            /\ S \subseteq first \/ \E last \in S \ first : Pressure /\ Projected(disk, S \ {last}) > LowFiles
            /\ Pressure /\ Projected(disk, S) > LowFiles => S = free \/ full

\* Inventory and selection.
MaintainBegin ==
    /\ RootGuard
    /\ \E protected \in {{}} \cup {{<<"manifests", c>>} : c \in Contexts},
          expired \in {{}} \cup (IF Ttl THEN {Entries(disk)} ELSE {}), S \in SUBSET Roots :
          /\ Selected(S, protected, expired)
          /\ sole' = [Nobody EXCEPT !.pc = "roots", !.seen = disk, !.chosen = S, !.left = Budget]
    /\ pressing' = (Pressure /\ Budget > 0)
    /\ UNCHANGED <<disk, pend, mode, writer, drop, drops, era, history, ops, faults>>

\* What the deletion budget admits of the files S, those of "before" first.
Admitted(S, before) ==
    IF Budget = 0 THEN {S}
    ELSE {A \in SUBSET S : /\ Cardinality(A) = Min({Cardinality(S), sole.left})
                           /\ before \subseteq A \/ A \subseteq before}

\* Unlink the admitted files; one of the calls may fail.
Collect(S, before, next) ==
    \E admitted \in Admitted(S, before) :
        \E gone \in {admitted} \cup {admitted \ {n} : n \in admitted} :
            /\ IF gone = admitted THEN UNCHANGED faults ELSE Fault
            /\ Unlink(gone)
            /\ promised' = promised \ gone
            /\ loose' = loose \cup (gone \cap Roots)
            /\ lost' = lost \cup {o \in gone : \E n \in Entries(sole.seen) \ Valid(sole.seen) :
                                                 o \in Refs(sole.seen[n])}
            /\ sole' = [sole EXCEPT !.pc = next, !.gone = gone,
                          !.chosen = IF sole.pc = "roots" THEN @ \cap gone ELSE @,
                          !.left = IF Budget = 0 THEN 0 ELSE @ - Cardinality(admitted)]
    /\ UNCHANGED <<mode, writer, drop, drops, pressing, era, ops>>

\* The barrier of the directories a file was removed from.
Settle(next) ==
    /\ Sync(DirsOf(sole.gone))
    /\ sole' = [sole EXCEPT !.pc = next, !.gone = {}]
    /\ loose' = loose \ sole.gone
    /\ UNCHANGED <<mode, writer, drop, drops, pressing, era, promised, lost, ops, faults>>

\* chosen is by now what was removed of it.
Remaining == Entries(sole.seen) \ sole.chosen
\* Mutant: temporary names are no objects.
UnreferencedNamed(dir) ==
    {n \in Visible(sole.seen) :
        n[1] = dir /\ n[2] # Temp /\ n \notin ReferencedBy(sole.seen, Remaining)}

Unreferenced(dir) ==
    {n \in Visible(sole.seen) : n[1] = dir /\ n \notin ReferencedBy(sole.seen, Remaining)}

MaintainRoots ==
    sole.pc = "roots" /\ Collect(Debris(sole.seen) \cup sole.chosen, Debris(sole.seen), "rootsync")
MaintainRootBarrier == sole.pc = "rootsync" /\ Settle("segments")
MaintainSegments ==
    sole.pc = "segments" /\ Collect(Unreferenced("prefix-index"), {}, "segmentsync")
MaintainSegmentBarrier == sole.pc = "segmentsync" /\ Settle("chunks")
MaintainChunks == sole.pc = "chunks" /\ Collect(Unreferenced("chunks"), {}, "chunksync")

\* Mutant: the report lists what the inventory found.
SurvivorsFound ==
    {n \in Valid(sole.seen) :
        /\ n[1] = "manifests" \/ <<"manifests", n[2]>> \notin Remaining
        /\ ({"chunks"} \X sole.seen[n].chunks) \subseteq Visible(sole.seen)}

\* Entries a pass reports as still offered: an exact root hides an alias.
Survivors ==
    {n \in Remaining \cap Valid(sole.seen) :
        /\ n[1] = "manifests" \/ <<"manifests", n[2]>> \notin Remaining
        /\ ({"chunks"} \X sole.seen[n].chunks) \subseteq Visible(sole.seen)}

\* The last barrier, the report, and whether the pressure is over.
MaintainEnd ==
    /\ sole.pc = "chunksync"
    /\ Sync(DirsOf(sole.gone))
    /\ sole' = Nobody
    /\ pressing' = (pressing /\ Cardinality(Visible(disk)) > LowFiles)
    /\ UNCHANGED <<mode, writer, drop, drops, era, history, ops, faults>>

-----------------------------------------------------------------------------
(* clear_once, under the exclusive root guard. *)

\* A marker of the token ends the call; without one every data directory is removed.
ClearBegin ==
    /\ RootGuard
    /\ disk[Marker] = Absent
    /\ era + drops < MaxRemovals /\ era' = era + 1
    /\ sole' = [Nobody EXCEPT !.pc = "clear", !.dir = 1]
    /\ UNCHANGED <<disk, pend, mode, writer, drop, drops, pressing, history, ops, faults>>

\* _remove_tree_without_following_links: unlink and fsync each file, fsync and remove
\* the empty directory.
ClearFile(n) ==
    /\ sole.pc = "clear" /\ sole.dir <= Len(DataDirs)
    /\ n[1] = DataDirs[sole.dir] /\ disk[n] # Absent
    /\ disk' = Shown({n}, Absent)
    /\ pend' = Synced({n[1]}, disk', Pending({n}, Absent))
    /\ promised' = promised \ {n}
    /\ lost' = lost \cup ({n} \cap Objects)
    /\ UNCHANGED <<mode, writer, sole, drop, drops, pressing, era, loose, ops, faults>>

ClearDir ==
    /\ sole.pc = "clear" /\ sole.dir <= Len(DataDirs)
    /\ \A n \in Data : n[1] = DataDirs[sole.dir] => disk[n] = Absent
    /\ Sync({DataDirs[sole.dir]})
    /\ sole' = [sole EXCEPT !.dir = @ + 1]
    /\ UNCHANGED <<mode, writer, drop, drops, pressing, era, history, ops, faults>>

\* _publish_clear_once_completion: replace, then the barriers.
ClearMark ==
    /\ sole.pc = "clear" /\ sole.dir > Len(DataDirs)
    /\ Put({Marker}, Plain)
    /\ sole' = [sole EXCEPT !.pc = "mark"]
    /\ UNCHANGED <<mode, writer, drop, drops, pressing, era, history, ops, faults>>

ClearEnd ==
    /\ sole.pc = "mark"
    /\ Sync({Marker[1]})
    /\ sole' = Nobody
    /\ UNCHANGED <<mode, writer, drop, drops, pressing, era, history, ops, faults>>

\* A failed barrier ends a pass, any failed call a clear; either process may be killed.
SoleFails ==
    /\ sole.pc # "idle"
    /\ Fault
    /\ sole' = Nobody
    /\ UNCHANGED <<disk, pend, mode, writer, drop, drops, pressing, era, history, ops>>

-----------------------------------------------------------------------------
(* invalidate: it takes no guard. *)

\* _read_descriptor_chain meets a segment that is not there, reading the longest first,
\* before one that is damaged: FileNotFoundError, which invalidate does not catch.
Raises(d, v) ==
    /\ v.ok
    /\ \E u \in v.index :
          /\ d[<<"prefix-index", u>>] = Absent
          /\ \A t \in v.index \ {u} :
                u \in Prefix[t] => LET s == <<"prefix-index", t>> IN d[s] # Absent /\ d[s].ok

\* Read the root and the chunks it lists; a root that does not resolve lists none, and
\* verify_chunk_payloads=False looks at none.  A call that raises changes nothing.
InvalidateBegin(c) ==
    LET n == IF disk[<<"manifests", c>>] = Absent THEN <<"prefix-aliases", c>>
                                                  ELSE <<"manifests", c>> IN
    /\ drop.pc = "idle"
    /\ disk[n] # Absent
    /\ n[1] = "manifests" => ~Raises(disk, disk[n])
    /\ drops + era < MaxRemovals /\ drops' = drops + 1
    /\ \E verify \in BOOLEAN :
          drop' = [NoDrop EXCEPT !.pc = "check", !.root = n,
                    !.todo = IF verify /\ n[1] = "manifests" /\ Resolves(disk, disk[n])
                             THEN {"chunks"} \X disk[n].chunks ELSE {}]
    /\ UNCHANGED <<disk, pend, mode, writer, sole, pressing, era, history, ops, faults>>

\* Read one chunk; a missing one is not healthy either.
InvalidateCheck(n) ==
    /\ drop.pc = "check" /\ n \in drop.todo
    /\ drop' = [drop EXCEPT !.todo = @ \ {n},
                            !.bad = IF Matches(n, Plain) THEN {} ELSE {n},
                            !.pc = IF Matches(n, Plain) THEN "check" ELSE "unlink"]
    /\ UNCHANGED <<drops, disk, pend, mode, writer, sole, pressing, era, history, ops, faults>>

\* Unlink the chunk that was not healthy when it was read.
InvalidateChunk ==
    /\ drop.pc = "unlink"
    /\ Unlink(drop.bad)
    /\ drop' = [drop EXCEPT !.bad = {}, !.pc = "check"]
    /\ lost' = lost \cup {n \in drop.bad : Matches(n, Plain)}
    /\ UNCHANGED <<drops, mode, writer, sole, pressing, era, promised, loose, ops, faults>>

\* Unlink whatever is at the path of the root.
InvalidateRoot ==
    /\ drop.pc = "check" /\ drop.todo = {}
    /\ Unlink({drop.root})
    /\ promised' = promised \ {drop.root}
    /\ loose' = loose \cup {drop.root}
    /\ drop' = NoDrop
    /\ UNCHANGED <<drops, mode, writer, sole, pressing, era, lost, ops, faults>>

-----------------------------------------------------------------------------
(* The environment. *)

\* The ways the names that await a barrier can come out of a power failure.
Outcomes ==
    LET unsettled == {n \in Names : Cardinality(pend[n]) > 1}
    IN {f \in [unsettled -> UNION {pend[n] : n \in unsettled}] :
           \A n \in unsettled : f[n] \in pend[n]}

\* A power failure: all memory is lost, each name shows one of its outcomes.
PowerFails ==
    /\ Fault
    /\ \E f \in Outcomes :
          /\ disk' = [n \in Names |-> IF n \in DOMAIN f THEN f[n] ELSE disk[n]]
          /\ pend' = [n \in Names |-> {disk'[n]}]
    /\ writer' = [w \in Writers |-> Resting]
    /\ sole' = Nobody /\ drop' = NoDrop /\ pressing' = FALSE
    /\ UNCHANGED <<drops, mode, era, history, ops>>

\* The medium changes the bytes of a file.
Rots(n) ==
    /\ disk[n] # Absent /\ disk[n].ok
    /\ Fault
    /\ LET bad == [disk[n] EXCEPT !.ok = FALSE] IN
       /\ disk' = Shown({n}, bad)
       /\ pend' = [pend EXCEPT ![n] = (@ \ {disk[n]}) \cup {bad}]
    /\ lost' = lost \cup {n}
    /\ UNCHANGED <<mode, writer, sole, drop, drops, pressing, era, promised, loose, ops>>

-----------------------------------------------------------------------------
Begin(w) ==
    \/ \E c \in Contexts : BeginContext(w, c) \/ CommitPageSnapshot(w, c)
    \/ \E b, c \in Contexts : CommitExtension(w, b, c) \/ CommitPageExtension(w, b, c)
    \/ \E b \in Contexts : PublishPrefixAlias(w, b)

Proceed(w) ==
    \/ SkipAlias(w) \/ Stage(w) \/ Barrier(w) \/ Abort(w) \/ Commit(w)
    \/ LinkRoot(w) \/ SyncRoot(w)
    \/ \E n \in Objects : Link(w, n)

MaintainProceeds ==
    \/ MaintainRoots \/ MaintainRootBarrier \/ MaintainSegments
    \/ MaintainSegmentBarrier \/ MaintainChunks \/ MaintainEnd
Maintain == MaintainBegin \/ MaintainProceeds

Clear == ClearDir \/ ClearMark \/ ClearEnd \/ \E n \in Data : ClearFile(n)

Invalidate == InvalidateChunk \/ InvalidateRoot \/ \E n \in Objects : InvalidateCheck(n)

Environment ==
    \/ \E w \in Writers : BatchFails(w) \/ SyncRootFails(w) \/ Dies(w)
    \/ SoleFails \/ PowerFails \/ \E n \in Roots \cup Objects : Rots(n)

Next ==
    \/ \E w \in Writers : Begin(w) \/ Proceed(w)
    \/ Maintain
    \/ ClearBegin \/ Clear
    \/ (\E c \in Contexts : InvalidateBegin(c)) \/ Invalidate
    \/ Environment

\* An operation under way proceeds.  _capacity_worker_main starts a pass again and again
\* only with a TTL: without one its wait has no timeout unless the last pass asked for
\* another, and nothing wakes it for what a dead publisher or a failed unlink left.
Fairness ==
    /\ \A w \in Writers : WF_vars(Proceed(w))
    /\ WF_vars(MaintainProceeds) /\ WF_vars(Clear) /\ WF_vars(Invalidate)
    /\ Ttl => WF_vars(MaintainBegin)

Spec == Init /\ [][Next]_vars /\ Fairness

-----------------------------------------------------------------------------
(* Properties. *)

\* Types; every name shows one of the outcomes it may have, and _RootGuard keeps its
\* exclusive holder and publishers apart.
TypeOK ==
    /\ disk \in [Names -> Contents \cup {Absent}]
    /\ DOMAIN pend = Names /\ \A n \in Names : disk[n] \in pend[n]
    /\ pend[Marker] \subseteq Contents \cup {Absent}
    /\ \A w \in Writers : writer[w].pc \in {"idle", "open", "link", "root", "sync", "committed"}
    /\ sole.pc \in {"idle", "roots", "rootsync", "segments", "segmentsync", "chunks",
                    "chunksync", "clear", "mark"}
    /\ drop.pc \in {"idle", "check", "unlink"}
    /\ sole.pc # "idle" => \A w \in Writers : ~Holding(w)
    /\ promised \subseteq Roots /\ loose \subseteq Roots
    /\ era \in 0 .. MaxRemovals

\* The visibility point of _publish_immutable and maintain: whenever the power fails, a
\* root that comes back has every chunk and segment it lists.  Excepted are lost
\* objects, roots of before a clear, and roots unlinked without a barrier.
RootsWhole ==
    \A n \in Roots : \A v \in pend[n] \ {Absent} :
        v.ok /\ v.era = era /\ n \notin loose =>
            \A o \in Refs(v) : o \in lost \/ Absent \notin pend[o]

\* At every step the disk is one that a power failure may leave to the next process.
CrashSafe == TypeOK /\ RootsWhole

\* maintain: "Root removals are durable before any object they authorized can be
\* collected": no root comes back from a power failure without its objects.
RemovalsDurable ==
    \A n \in Roots : \A v \in pend[n] \ {Absent} :
        v.ok /\ v.era = era => \A o \in Refs(v) : o \in lost \/ Absent \notin pend[o]

\* A receipt of commit_manifest is a promise: until somebody removes the root, no power
\* failure takes it back.
ReceiptsDurable == \A n \in promised : Absent \notin pend[n]

\* Once a completion marker of clear_once can be seen, now or after a power failure,
\* nothing from before the clear can.
ClearedForGood ==
    pend[Marker] # {Absent} =>
        \A n \in Data : \A v \in pend[n] \ {Absent} : v.era = era

\* What a publication or a clear promised outlives every power failure.
PromisesKept == ReceiptsDurable /\ ClearedForGood

\* What maintain reports as surviving is there, whole, when it reports it, except for
\* what an invalidation took meanwhile.
SurvivorsUsable ==
    sole.pc = "chunksync" =>
        \A n \in Survivors :
            \/ n \in loose
            \/ disk[n] # Absent /\ \A o \in Refs(disk[n]) : disk[o] # Absent \/ o \in lost

\* With a TTL, whose clock starts passes for ever, bounded passes reclaim everything:
\* from some point on there are no orphans or debris.
Reclaimed == Ttl => <>[](Orphans(disk) = {})

\* invalidate leaves the chunks that verify in place.
HealthyKept ==
    [][drop.pc = "unlink" /\ drop'.pc = "check" => \A n \in drop.bad : ~Matches(n, Plain)]_vars
=============================================================================
