------------------------- MODULE ManifestStoreProofs -------------------------
(***************************************************************************)
(* Every specified cache root is crash-safe, keeps what it promised and    *)
(* reports survivors that can be used, for any number of publishers and    *)
(* contexts and any bounds.                                                *)
(*                                                                         *)
(* RootsWhole is not inductive.  A root is linked long after its objects   *)
(* were staged, so the invariant carries the promise of a publication: of  *)
(* every object its root will list, either the object is kept, or the      *)
(* publication still needs it, or it is shown and the barrier of its       *)
(* directory is still to come (Promise).  In row storage that needs the    *)
(* order of a row's chunks (RowsClosed, BodiesClosed); in a pass, that the *)
(* inventory stays true of what the pass leaves (SeenRoots, SeenObjects);  *)
(* for removals, that a root which comes back is the one that is shown     *)
(* (Steady).                                                               *)
(*                                                                         *)
(* The many steps move the files that count in eight ways only (Moves):    *)
(* each step is shown to be one of them, and most parts of the invariant   *)
(* are then shown to survive the eight.                                    *)
(***************************************************************************)
EXTENDS ManifestStore, TLAPS

Entry == Contents \cup {Absent}
Files == Roots \cup Objects

Typed ==
    /\ disk \in [Names -> Entry]
    /\ pend \in [Names -> SUBSET Entry]
    /\ \A n \in Names : disk[n] \in pend[n]
    /\ mode \in {"rows", "pages"}
    /\ era \in 0 .. MaxRemovals /\ drops \in Nat
    /\ promised \subseteq Roots /\ loose \subseteq Roots

WriterType ==
    [pc : {"idle", "open", "link", "root", "sync", "committed"}, root : Roots \cup {<<>>},
     body : Contents, need : SUBSET Objects, done : SUBSET Objects, batch : SUBSET Objects,
     staged : SUBSET Objects, retry : BOOLEAN]

WriterTyped ==
    /\ writer \in [Writers -> WriterType]
    /\ \A w \in Writers : writer[w].pc # "idle" => writer[w].root \in Roots

SoleTyped ==
    /\ sole.pc \in {"idle", "roots", "rootsync", "segments", "segmentsync", "chunks",
                    "chunksync", "clear", "mark"}
    /\ sole = [pc |-> sole.pc, seen |-> sole.seen, chosen |-> sole.chosen, gone |-> sole.gone,
               left |-> sole.left, dir |-> sole.dir]
    /\ sole.chosen \subseteq Roots /\ sole.dir \in Nat

\* _RootGuard keeps its exclusive holder and publishers apart.
Alone == sole.pc # "idle" => \A w \in Writers : ~Holding(w)

DropTyped ==
    /\ drop \in [pc : {"idle", "check", "unlink"}, root : Roots \cup {<<>>}, todo : SUBSET Objects,
                 bad : SUBSET Objects]
    /\ drop.pc # "idle" => drop.root \in Roots
-----------------------------------------------------------------------------
(* Names and contents. *)

LEMMA NameFacts ==
  /\ Names = Data \cup {Marker} /\ Marker \notin Data /\ Files \subseteq Data
  /\ Roots \subseteq Files /\ Objects \subseteq Files /\ Roots \cap Objects = {}
  /\ \A n \in Files : n[2] \in Contexts /\ n = <<n[1], n[2]>>
  /\ \A n \in Data : n[1] \in Dirs
  /\ \A n \in Objects : n[1] \in {"chunks", "prefix-index"}
  /\ Marker[1] \notin Dirs /\ Marker[1] = "clear-once"
  /\ \A d : <<d, Temp>> \notin Files
  /\ \A d \in Dirs : <<d, Temp>> \in Data
  /\ \A c \in Contexts : <<"manifests", c>> \in Roots /\ <<"prefix-aliases", c>> \in Roots
  /\ \A c \in Contexts : <<"chunks", c>> \in Objects /\ <<"prefix-index", c>> \in Objects
<1>1. Dirs = {"chunks", "manifests", "prefix-aliases", "prefix-index"}
  <2>1. DOMAIN DataDirs = 1 .. 4 BY DEF DataDirs
  <2>2. 1 .. 4 = {1, 2, 3, 4} OBVIOUS
  <2>3. DataDirs[1] = "chunks" /\ DataDirs[2] = "manifests" /\ DataDirs[3] = "prefix-aliases"
        /\ DataDirs[4] = "prefix-index"
    BY DEF DataDirs
  <2> QED BY <2>1, <2>2, <2>3 DEF Dirs
<1>2. Temp \notin Contexts BY StoreConstants
<1> QED BY <1>1, <1>2 DEF Names, Data, Roots, Objects, Files, RootDirs, Marker

LEMMA ContentFacts ==
  /\ Absent \notin Contents
  /\ \A v \in Contents : /\ v.ok \in BOOLEAN /\ v.chunks \subseteq Contexts
                         /\ v.index \subseteq Contexts /\ v.era \in 0 .. MaxRemovals
                         /\ Refs(v) \subseteq Objects
BY AbsentIsNoFile DEF Contents, Refs, Objects

LEMMA FileFacts ==
  ASSUME era \in 0 .. MaxRemovals
  PROVE  /\ \A x, y \in SUBSET Contexts : File(x, y) \in Contents
         /\ \A x, y : /\ File(x, y).ok /\ File(x, y).chunks = x /\ File(x, y).index = y
                      /\ File(x, y).era = era
         /\ Plain \in Contents /\ Plain.ok /\ Plain.chunks = {} /\ Plain.index = {}
         /\ Plain.era = era
BY DEF File, Plain, Contents

-----------------------------------------------------------------------------
(* What the calls of the file system do to one name. *)

AsIs(n) == disk'[n] = disk[n] /\ pend'[n] = pend[n]
Settled(n) == disk'[n] = disk[n] /\ pend'[n] = {disk[n]}
Shows(n, v) == disk'[n] = v /\ pend'[n] = pend[n] \cup {v}

\* The names and contents a step leaves typed.
FileSystem ==
    /\ disk \in [Names -> Entry] /\ pend \in [Names -> SUBSET Entry]
    /\ \A n \in Names : disk[n] \in pend[n]

LEMMA PutAt ==
  ASSUME FileSystem, NEW S, NEW v \in Entry, Put(S, v)
  PROVE  FileSystem' /\ \A n \in Names : IF n \in S THEN Shows(n, v) ELSE AsIs(n)
BY DEF FileSystem, Put, Shown, Pending, Shows, AsIs

LEMMA SyncAt ==
  ASSUME FileSystem, NEW ds, Sync(ds)
  PROVE  FileSystem' /\ \A n \in Names : IF n[1] \in ds THEN Settled(n) ELSE AsIs(n)
BY DEF FileSystem, Sync, Synced, Settled, AsIs

LEMMA UnlinkAt ==
  ASSUME FileSystem, NEW S, Unlink(S)
  PROVE  FileSystem' /\ \A n \in Names : IF n \in S /\ disk[n] # Absent THEN Shows(n, Absent)
                                                                       ELSE AsIs(n)
<1> DEFINE T == {n \in S : disk[n] # Absent}
<1>1. Put(T, Absent) BY DEF Unlink
<1>2. Absent \in Entry BY DEF Entry
<1>3. FileSystem' /\ \A n \in Names : IF n \in T THEN Shows(n, Absent) ELSE AsIs(n)
  BY <1>1, <1>2, PutAt
<1> QED BY <1>3

LEMMA ClearAt ==
  ASSUME FileSystem, NEW m \in Names, disk' = Shown({m}, Absent),
         pend' = Synced({m[1]}, disk', Pending({m}, Absent))
  PROVE  /\ FileSystem'
         /\ \A n \in Names : IF n = m THEN disk'[n] = Absent /\ pend'[n] = {Absent}
                             ELSE IF n[1] = m[1] THEN Settled(n) ELSE AsIs(n)
<1>1. \A n \in Names : disk'[n] = IF n = m THEN Absent ELSE disk[n] BY DEF Shown
<1>2. \A n \in Names : pend'[n] = IF n[1] = m[1] THEN {disk'[n]} ELSE pend[n]
  BY DEF Synced, Pending
<1>3. DOMAIN disk' = Names /\ DOMAIN pend' = Names BY DEF Shown, Synced
<1>4. disk' \in [Names -> Entry]
  <2>1. disk' = [n \in Names |-> disk'[n]] BY DEF Shown
  <2> QED BY <2>1, <1>1 DEF FileSystem, Entry
<1>5. pend' \in [Names -> SUBSET Entry]
  <2>1. pend' = [n \in Names |-> pend'[n]] BY DEF Synced
  <2>2. ASSUME NEW n \in Names PROVE pend'[n] \in SUBSET Entry
    <3>1. disk'[n] \in Entry /\ pend[n] \subseteq Entry BY <1>4 DEF FileSystem
    <3> QED BY <3>1, <1>2
  <2> HIDE DEF FileSystem
  <2> QED BY <2>1, <2>2
<1> QED BY <1>1, <1>2, <1>4, <1>5 DEF FileSystem, Settled, AsIs

LEMMA PendingAt ==
  ASSUME FileSystem, NEW S, NEW v \in Entry, pend' = Pending(S, v), disk' = disk
  PROVE  FileSystem' /\ \A n \in Names : n \notin S => AsIs(n)
BY DEF FileSystem, Pending, AsIs

-----------------------------------------------------------------------------
LEMMA TypedFileSystem == Typed => FileSystem
BY DEF Typed, FileSystem

\* The file system of the next state, step by step.
LEMMA TypedNext ==
  ASSUME Typed, WriterTyped, DropTyped, [Next]_vars
  PROVE  Typed'
<1> USE TypedFileSystem
<1> USE DEF history
<1>0. FileSystem BY DEF Typed
<1>a. Plain \in Entry BY FileFacts DEF Typed, Entry
<1>b. Absent \in Entry BY DEF Entry
<1>c. ASSUME FileSystem', UNCHANGED <<mode, drops>>, era' \in 0 .. MaxRemovals,
             promised' \subseteq Roots, loose' \subseteq Roots
      PROVE  Typed'
  BY <1>c DEF Typed, FileSystem
<1>d. ASSUME UNCHANGED <<disk, pend>> PROVE FileSystem' BY <1>0, <1>d DEF FileSystem
<1>1. CASE UNCHANGED vars BY <1>1, <1>d, <1>c DEF vars, Typed
<1>2. ASSUME NEW w \in Writers, Begin(w) PROVE Typed'
  BY <1>2, <1>d, <1>c DEF Begin, BeginContext, CommitPageSnapshot, CommitExtension, CommitPageExtension,
       PublishPrefixAlias, Publish, Typed
<1>3. ASSUME NEW w \in Writers, SkipAlias(w) \/ Abort(w) \/ SyncRootFails(w) PROVE Typed'
  BY <1>3, <1>d, <1>c DEF SkipAlias, Abort, SyncRootFails, Typed
<1>4. ASSUME NEW w \in Writers, Stage(w) \/ Commit(w) PROVE Typed'
  BY <1>4, <1>0, <1>a, <1>c, PendingAt DEF Stage, Commit, Typed
<1>5. ASSUME NEW w \in Writers, NEW n \in Objects, Link(w, n) PROVE Typed'
  BY <1>5, <1>0, <1>a, <1>c, PutAt DEF Link, Typed
<1>6. ASSUME NEW w \in Writers, Barrier(w) \/ BatchFails(w) PROVE Typed'
  BY <1>6, <1>0, <1>c, SyncAt DEF Barrier, BatchFails, Typed
<1>7. ASSUME NEW w \in Writers, LinkRoot(w) PROVE Typed'
  <2>1. writer[w].body \in Entry BY DEF WriterTyped, WriterType, Entry
  <2>2. FileSystem' BY <1>7, <2>1, <1>0, <1>d, PutAt, SyncAt DEF LinkRoot
  <2> QED BY <1>7, <2>2, <1>c DEF LinkRoot, Typed
<1>8. ASSUME NEW w \in Writers, SyncRoot(w) PROVE Typed'
  <2>1. FileSystem' BY <1>8, <1>0, SyncAt DEF SyncRoot
  <2>2. writer[w].root \in Roots BY <1>8 DEF SyncRoot, WriterTyped
  <2> QED BY <1>8, <2>1, <2>2, <1>c DEF SyncRoot, Typed
<1>9. ASSUME NEW w \in Writers, Dies(w) PROVE Typed'
  BY <1>9, <1>0, <1>a, <1>c, PutAt DEF Dies, Typed
<1>10. CASE MaintainBegin BY <1>10, <1>d, <1>c DEF MaintainBegin, Typed
<1>11. ASSUME NEW S, NEW before, NEW next, Collect(S, before, next) PROVE Typed'
  BY <1>11, <1>0, <1>c, UnlinkAt DEF Collect, Typed
<1>12. ASSUME NEW next, Settle(next) PROVE Typed'
  BY <1>12, <1>0, <1>c, SyncAt DEF Settle, Typed
<1>13. CASE MaintainEnd BY <1>13, <1>0, <1>c, SyncAt DEF MaintainEnd, Typed
<1>14. CASE Maintain
  BY <1>14, <1>10, <1>11, <1>12, <1>13 DEF Maintain, MaintainProceeds, MaintainRoots, MaintainRootBarrier,
       MaintainSegments, MaintainSegmentBarrier, MaintainChunks
<1>15. CASE ClearBegin
  <2>1. era' \in 0 .. MaxRemovals BY <1>15, StoreConstants DEF ClearBegin, Typed
  <2> QED BY <1>15, <2>1, <1>d, <1>c DEF ClearBegin, Typed
<1>16. ASSUME NEW n \in Data, ClearFile(n) PROVE Typed'
  <2>1. FileSystem' /\ UNCHANGED <<mode, drops, era, loose>>
    BY <1>16, <1>0, NameFacts, ClearAt DEF ClearFile
  <2> QED BY <1>16, <2>1, <1>c DEF ClearFile, Typed
<1>17. CASE ClearDir \/ ClearEnd BY <1>17, <1>0, <1>c, SyncAt DEF ClearDir, ClearEnd, Typed
<1>18. CASE ClearMark BY <1>18, <1>0, <1>a, <1>c, PutAt DEF ClearMark, Typed
<1>19. CASE SoleFails BY <1>19, <1>d, <1>c DEF SoleFails, Typed
<1>20. CASE \E c \in Contexts : InvalidateBegin(c)
  <2>1. UNCHANGED <<disk, pend, mode, era, promised, loose>> /\ drops' \in Nat
    BY <1>20 DEF InvalidateBegin, Typed
  <2>2. FileSystem' BY <2>1, <1>d
  <2> QED BY <2>1, <2>2 DEF Typed, FileSystem
<1>21. CASE \E n \in Objects : InvalidateCheck(n) BY <1>21, <1>d, <1>c DEF InvalidateCheck, Typed
<1>22. CASE InvalidateChunk BY <1>22, <1>0, <1>c, UnlinkAt DEF InvalidateChunk, Typed
<1>23. CASE InvalidateRoot
  <2>1. drop.root \in Roots BY <1>23 DEF InvalidateRoot, DropTyped
  <2> QED BY <1>23, <2>1, <1>0, <1>c, UnlinkAt DEF InvalidateRoot, Typed
<1>24. CASE PowerFails
  <2>1. PICK f \in Outcomes :
          /\ disk' = [n \in Names |-> IF n \in DOMAIN f THEN f[n] ELSE disk[n]]
          /\ pend' = [n \in Names |-> {disk'[n]}]
    BY <1>24 DEF PowerFails
  <2>2. \A n \in DOMAIN f : f[n] \in pend[n] BY DEF Outcomes
  <2>3. \A n \in Names : disk'[n] \in pend[n] /\ disk'[n] \in Entry
    BY <2>1, <2>2, <1>0 DEF FileSystem
  <2>4. FileSystem' BY <2>1, <2>3 DEF FileSystem
  <2> QED BY <1>24, <2>4, <1>c DEF PowerFails, Typed
<1>25. ASSUME NEW n \in Files, Rots(n) PROVE Typed'
  <2> DEFINE bad == [disk[n] EXCEPT !.ok = FALSE]
  <2>1. n \in Names BY NameFacts
  <2>2. disk[n] \in Contents BY <2>1, <1>0, <1>25 DEF FileSystem, Rots, Entry
  <2>3. bad \in Entry BY <2>2 DEF Contents, Entry
  <2>4. disk' = Shown({n}, bad) /\ pend' = [pend EXCEPT ![n] = (@ \ {disk[n]}) \cup {bad}]
    BY <1>25 DEF Rots
  <2>5. FileSystem' BY <2>1, <2>3, <2>4, <1>0 DEF FileSystem, Shown
  <2> QED BY <1>25, <2>5, <1>c DEF Rots, Typed
<1> QED
  BY <1>1, <1>2, <1>3, <1>4, <1>5, <1>6, <1>7, <1>8, <1>9, <1>14, <1>15, <1>16, <1>17, <1>18, <1>19,
     <1>20, <1>21, <1>22, <1>23, <1>24, <1>25
  DEF Next, Proceed, Clear, Invalidate, Environment, Files

\* A step of another actor leaves the writers alone, or frees one.
LEMMA RestIsTyped ==
  /\ era \in 0 .. MaxRemovals => Resting \in WriterType
  /\ Resting.pc = "idle" /\ Resting.batch = {} /\ Resting.staged = {}
BY FileFacts DEF Resting, WriterType

\* The contexts of a base that can be found, and its chunks.
LEMMA BaseIsThere ==
  ASSUME Typed, NEW c \in Contexts, NEW x \in BOOLEAN, Hit(c, x)
  PROVE  /\ RootOf(c) \in Roots /\ RootOf(c)[2] = c
         /\ disk[RootOf(c)] \in Contents /\ disk[RootOf(c)].ok
         /\ disk[RootOf(c)].chunks \subseteq Contexts
         /\ \A u \in disk[RootOf(c)].chunks : disk[<<"chunks", u>>] # Absent
<1>1. RootOf(c) \in Roots /\ RootOf(c)[2] = c BY NameFacts DEF RootOf
<1>2. disk[RootOf(c)] \in Contents BY <1>1, NameFacts DEF Hit, Typed, Entry
<1> QED BY <1>1, <1>2, ContentFacts DEF Hit, Resolves

LEMMA WriterTypedNext ==
  ASSUME Typed, WriterTyped, [Next]_vars
  PROVE  WriterTyped'
<1>r. Resting \in WriterType BY RestIsTyped DEF Typed
<1>s. ASSUME NEW w \in Writers, NEW p \in WriterType, writer' = [writer EXCEPT ![w] = p],
             p.pc # "idle" => p.root \in Roots
      PROVE  WriterTyped'
  BY <1>s DEF WriterTyped
<1>p. ASSUME NEW w \in Writers PROVE writer[w] \in WriterType BY DEF WriterTyped
<1>0. ASSUME UNCHANGED writer PROVE WriterTyped' BY <1>0 DEF WriterTyped
<1>1. CASE UNCHANGED vars BY <1>1, <1>0 DEF vars
<1>2. ASSUME NEW w \in Writers, Begin(w) PROVE WriterTyped'
  <2>1. ASSUME NEW root \in Roots, NEW x \in SUBSET Contexts, NEW y \in SUBSET Contexts,
               NEW need \in SUBSET Objects, NEW retry \in BOOLEAN,
               Publish(w, root, File(x, y), need, retry)
        PROVE  WriterTyped'
    <3> DEFINE p == [Resting EXCEPT !.pc = "open", !.root = root, !.body = File(x, y),
                                    !.need = need, !.retry = retry]
    <3>1. File(x, y) \in Contents BY FileFacts DEF Typed
    <3>2. p \in WriterType /\ p.root \in Roots BY <1>r, <3>1 DEF WriterType
    <3>3. writer' = [writer EXCEPT ![w] = p] BY <2>1 DEF Publish
    <3> HIDE DEF p
    <3> QED BY <3>2, <3>3, <1>s
  <2>2. \A c \in Contexts : Prefix[c] \subseteq Contexts BY StoreConstants
  <2>3. \A X \in SUBSET Contexts : /\ ({"chunks"} \X X) \subseteq Objects
                                   /\ ({"prefix-index"} \X X) \subseteq Objects
    BY DEF Objects
  <2>4. CASE \E c \in Contexts : BeginContext(w, c)
    <3>1. PICK c \in Contexts : BeginContext(w, c) BY <2>4
    <3> QED BY <3>1, <2>1, <2>2, <2>3, NameFacts DEF BeginContext
  <2>5. CASE \E c \in Contexts : CommitPageSnapshot(w, c)
    <3>1. PICK c \in Contexts : CommitPageSnapshot(w, c) BY <2>5
    <3>2. {<<"chunks", c>>} \subseteq Objects /\ {c} \subseteq Contexts BY NameFacts
    <3> QED BY <3>1, <3>2, <2>1, NameFacts DEF CommitPageSnapshot
  <2>6. CASE \E b, c \in Contexts : CommitExtension(w, b, c)
    <3>1. PICK b \in Contexts, c \in Contexts : CommitExtension(w, b, c) BY <2>6
    <3> DEFINE reused == disk[RootOf(b)].chunks
    <3>2. reused \subseteq Contexts BY <3>1, BaseIsThere DEF CommitExtension
    <3>3. <<"chunks", c>> \in Objects BY NameFacts
    <3>4. Publish(w, <<"manifests", c>>, File(reused \cup {c}, reused),
                  ({"prefix-index"} \X reused) \cup {<<"chunks", c>>}, FALSE)
      BY <3>1 DEF CommitExtension
    <3> HIDE DEF reused
    <3>5. PICK need \in SUBSET Objects : need = ({"prefix-index"} \X reused) \cup {<<"chunks", c>>}
      BY <3>2, <3>3, <2>3
    <3>6. PICK root \in Roots, x \in SUBSET Contexts, retry \in BOOLEAN :
            root = <<"manifests", c>> /\ x = reused \cup {c} /\ retry = FALSE
      BY <3>2, NameFacts
    <3>7. Publish(w, root, File(x, reused), need, retry) BY <3>4, <3>5, <3>6
    <3> QED BY <3>2, <3>7, <2>1
  <2>7. CASE \E b, c \in Contexts : CommitPageExtension(w, b, c)
    <3>1. PICK b \in Contexts, c \in Contexts : CommitPageExtension(w, b, c) BY <2>7
    <3>2. disk[RootOf(b)].chunks \subseteq Contexts BY <3>1, BaseIsThere DEF CommitPageExtension
    <3>3. {<<"chunks", c>>} \subseteq Objects BY NameFacts
    <3> QED BY <3>1, <3>2, <3>3, <2>1, NameFacts DEF CommitPageExtension
  <2>8. CASE \E b \in Contexts : PublishPrefixAlias(w, b)
    <3>1. PICK b \in Contexts : PublishPrefixAlias(w, b) BY <2>8
    <3> QED BY <3>1, <2>1, <2>2, <2>3, NameFacts DEF PublishPrefixAlias
  <2> QED BY <1>2, <2>4, <2>5, <2>6, <2>7, <2>8 DEF Begin
<1>3. ASSUME NEW w \in Writers, SkipAlias(w) \/ Abort(w) \/ Dies(w) PROVE WriterTyped'
  <2>1. writer' = [writer EXCEPT ![w] = Resting]
    BY <1>3 DEF SkipAlias, Abort, Dies, GivenUp, Given
  <2> QED BY <2>1, <1>r, <1>s, RestIsTyped
<1>4. ASSUME NEW w \in Writers, Stage(w) PROVE WriterTyped'
  <2> DEFINE batch == NextBatch(writer[w])
             staged == {n \in batch : ~Matches(n, Plain)}
             p == [writer[w] EXCEPT !.pc = "link", !.batch = batch, !.staged = staged]
  <2>1. batch \subseteq Objects BY <1>p DEF NextBatch, WriterType
  <2>2. staged \subseteq Objects BY <2>1
  <2>3. writer' = [writer EXCEPT ![w].pc = "link", ![w].batch = batch, ![w].staged = staged]
    BY <1>4 DEF Stage
  <2>4. writer[w].root \in Roots BY <1>4 DEF Stage, WriterTyped
  <2> HIDE DEF batch, staged
  <2>5. p \in WriterType /\ p.root \in Roots BY <2>1, <2>2, <2>4, <1>p DEF WriterType
  <2>6. writer' = [writer EXCEPT ![w] = p] BY <2>3, <1>p DEF WriterTyped, WriterType
  <2> HIDE DEF p
  <2> QED BY <2>5, <2>6, <1>s
<1>5. ASSUME NEW w \in Writers, NEW n \in Objects, Link(w, n) PROVE WriterTyped'
  <2> DEFINE p == [writer[w] EXCEPT !.staged = @ \ {n}]
  <2>1. writer' = [writer EXCEPT ![w] = p] BY <1>5, <1>p DEF Link, WriterTyped, WriterType
  <2>2. p \in WriterType /\ p.root \in Roots BY <1>5, <1>p DEF Link, WriterTyped, WriterType
  <2> QED BY <2>1, <2>2, <1>s
<1>6. ASSUME NEW w \in Writers, Barrier(w) PROVE WriterTyped'
  <2> DEFINE p == [writer[w] EXCEPT !.pc = "open", !.done = @ \cup writer[w].batch, !.batch = {}]
  <2>1. writer' = [writer EXCEPT ![w] = p] BY <1>6, <1>p DEF Barrier, WriterTyped, WriterType
  <2>2. p \in WriterType /\ p.root \in Roots BY <1>6, <1>p DEF Barrier, WriterTyped, WriterType
  <2> QED BY <2>1, <2>2, <1>s
<1>7. ASSUME NEW w \in Writers, BatchFails(w) \/ SyncRootFails(w) PROVE WriterTyped'
  <2> DEFINE p == IF writer[w].retry
                  THEN [writer[w] EXCEPT !.pc = "open", !.batch = {}, !.staged = {}]
                  ELSE Resting
  <2>1. writer' = [writer EXCEPT ![w] = p] BY <1>7 DEF BatchFails, SyncRootFails, Failed, Given
  <2>2. writer[w].root \in Roots BY <1>7 DEF BatchFails, SyncRootFails, WriterTyped
  <2>3. p \in WriterType BY <1>p, <1>r DEF WriterType
  <2>4. p.pc # "idle" => p.root \in Roots BY <2>2, <1>p, RestIsTyped DEF WriterType
  <2> HIDE DEF p
  <2> QED BY <2>1, <2>3, <2>4, <1>s
<1>8. ASSUME NEW w \in Writers, Commit(w) \/ LinkRoot(w) PROVE WriterTyped'
  <2>1. \E pc \in {"sync", "root"} : writer' = [writer EXCEPT ![w] = [writer[w] EXCEPT !.pc = pc]]
        \/ writer' = [writer EXCEPT ![w] = Resting]
    BY <1>8 DEF Commit, LinkRoot, Given, GivenUp
  <2>2. writer[w].root \in Roots BY <1>8 DEF Commit, LinkRoot, WriterTyped
  <2>3. ASSUME NEW pc \in {"sync", "root"},
               writer' = [writer EXCEPT ![w] = [writer[w] EXCEPT !.pc = pc]]
        PROVE  WriterTyped'
    <3> DEFINE p == [writer[w] EXCEPT !.pc = pc]
    <3>1. p \in WriterType /\ p.root \in Roots BY <2>2, <1>p DEF WriterType
    <3> QED BY <3>1, <2>3, <1>s
  <2> QED BY <2>1, <2>3, <1>r, <1>s, RestIsTyped
<1>9. ASSUME NEW w \in Writers, SyncRoot(w) PROVE WriterTyped'
  <2>1. writer[w].root \in Roots BY <1>9 DEF SyncRoot, WriterTyped
  <2> DEFINE p == [Resting EXCEPT !.pc = "committed", !.root = writer[w].root]
  <2>2. p \in WriterType /\ p.root \in Roots BY <1>r, <2>1 DEF WriterType
  <2>3. writer' = [writer EXCEPT ![w] = p] \/ writer' = [writer EXCEPT ![w] = Resting]
    BY <1>9 DEF SyncRoot, Given
  <2> HIDE DEF p
  <2> QED BY <2>2, <2>3, <1>r, <1>s, RestIsTyped
<1>10. CASE Maintain \/ ClearBegin \/ Clear \/ (\E c \in Contexts : InvalidateBegin(c)) \/ Invalidate
            \/ SoleFails \/ \E n \in Files : Rots(n)
  BY <1>10, <1>0 DEF Maintain, MaintainProceeds, MaintainBegin, MaintainRoots, MaintainRootBarrier, MaintainSegments,
       MaintainSegmentBarrier, MaintainChunks, MaintainEnd, Collect, Settle, ClearBegin, Clear,
       ClearDir, ClearMark, ClearEnd, ClearFile, InvalidateBegin, Invalidate, InvalidateChunk,
       InvalidateRoot, InvalidateCheck, SoleFails, Rots
<1>11. CASE PowerFails
  <2>1. writer' = [w \in Writers |-> Resting] BY <1>11 DEF PowerFails
  <2> QED BY <2>1, <1>r, RestIsTyped DEF WriterTyped
<1> QED
  BY <1>1, <1>2, <1>3, <1>4, <1>5, <1>6, <1>7, <1>8, <1>9, <1>10, <1>11
  DEF Next, Proceed, Environment, Files

\* A step of the guard's holder, and no other, changes its record.
LEMMA SoleTypedNext ==
  ASSUME SoleTyped, [Next]_vars
  PROVE  SoleTyped'
<1>0. ASSUME UNCHANGED sole PROVE SoleTyped' BY <1>0 DEF SoleTyped
<1>n. ASSUME sole' = Nobody PROVE SoleTyped' BY <1>n DEF SoleTyped, Nobody
<1>1. CASE UNCHANGED vars BY <1>1, <1>0 DEF vars
<1>2. ASSUME NEW w \in Writers, Begin(w) PROVE SoleTyped'
  BY <1>2, <1>0 DEF Begin, BeginContext, CommitPageSnapshot, CommitExtension, CommitPageExtension,
       PublishPrefixAlias, Publish
<1>3. ASSUME NEW w \in Writers, Proceed(w) \/ BatchFails(w) \/ SyncRootFails(w) \/ Dies(w)
      PROVE  SoleTyped'
  BY <1>3, <1>0 DEF Proceed, SkipAlias, Stage, Barrier, Abort, Commit, LinkRoot, SyncRoot, Link,
       BatchFails, SyncRootFails, Dies
<1>4. CASE MaintainBegin
  <2>1. PICK protected, expired, S \in SUBSET Roots :
          sole' = [Nobody EXCEPT !.pc = "roots", !.seen = disk, !.chosen = S, !.left = Budget]
    BY <1>4 DEF MaintainBegin
  <2> QED BY <2>1 DEF SoleTyped, Nobody
<1>5. ASSUME NEW S, NEW before, NEW next \in {"rootsync", "segmentsync", "chunksync"},
             Collect(S, before, next)
      PROVE  SoleTyped'
  <2>1. PICK admitted, gone :
          sole' = [sole EXCEPT !.pc = next, !.gone = gone,
                     !.chosen = IF sole.pc = "roots" THEN @ \cap gone ELSE @,
                     !.left = IF Budget = 0 THEN 0 ELSE @ - Cardinality(admitted)]
    BY <1>5 DEF Collect
  <2>2. sole' = [pc |-> next, seen |-> sole.seen,
                 chosen |-> IF sole.pc = "roots" THEN sole.chosen \cap gone ELSE sole.chosen,
                 gone |-> gone,
                 left |-> IF Budget = 0 THEN 0 ELSE sole.left - Cardinality(admitted),
                 dir |-> sole.dir]
    BY <2>1 DEF SoleTyped
  <2> QED BY <2>2 DEF SoleTyped
<1>6. ASSUME NEW next \in {"segments", "chunks"}, Settle(next) PROVE SoleTyped'
  BY <1>6 DEF Settle, SoleTyped
<1>7. CASE Maintain
  BY <1>7, <1>4, <1>5, <1>6, <1>n DEF Maintain, MaintainProceeds, MaintainRoots, MaintainRootBarrier,
       MaintainSegments, MaintainSegmentBarrier, MaintainChunks, MaintainEnd
<1>8. CASE ClearBegin BY <1>8 DEF ClearBegin, SoleTyped, Nobody
<1>9. CASE Clear
  <2>1. CASE ClearDir BY <2>1 DEF ClearDir, SoleTyped
  <2>2. CASE ClearMark BY <2>2 DEF ClearMark, SoleTyped
  <2>3. CASE ClearEnd BY <2>3, <1>n DEF ClearEnd
  <2>4. CASE \E n \in Data : ClearFile(n) BY <2>4, <1>0 DEF ClearFile
  <2> QED BY <1>9, <2>1, <2>2, <2>3, <2>4 DEF Clear
<1>10. CASE (\E c \in Contexts : InvalidateBegin(c)) \/ Invalidate \/ \E n \in Files : Rots(n)
  BY <1>10, <1>0 DEF InvalidateBegin, Invalidate, InvalidateChunk, InvalidateRoot, InvalidateCheck, Rots
<1>11. CASE SoleFails \/ PowerFails BY <1>11, <1>n DEF SoleFails, PowerFails
<1> QED BY <1>1, <1>2, <1>3, <1>7, <1>8, <1>9, <1>10, <1>11 DEF Next, Environment, Files

LEMMA DropTypedNext ==
  ASSUME Typed, DropTyped, [Next]_vars
  PROVE  DropTyped'
<1>0. ASSUME UNCHANGED drop PROVE DropTyped' BY <1>0 DEF DropTyped
<1>n. ASSUME drop' = NoDrop PROVE DropTyped' BY <1>n DEF DropTyped, NoDrop
<1>1. CASE UNCHANGED vars BY <1>1, <1>0 DEF vars
<1>2. ASSUME NEW w \in Writers, Begin(w) PROVE DropTyped'
  BY <1>2, <1>0 DEF Begin, BeginContext, CommitPageSnapshot, CommitExtension, CommitPageExtension,
       PublishPrefixAlias, Publish
<1>3. ASSUME NEW w \in Writers, Proceed(w) \/ BatchFails(w) \/ SyncRootFails(w) \/ Dies(w)
      PROVE  DropTyped'
  BY <1>3, <1>0 DEF Proceed, SkipAlias, Stage, Barrier, Abort, Commit, LinkRoot, SyncRoot, Link,
       BatchFails, SyncRootFails, Dies
<1>4. CASE Maintain \/ ClearBegin \/ Clear \/ SoleFails \/ \E n \in Files : Rots(n)
  BY <1>4, <1>0 DEF Maintain, MaintainProceeds, MaintainBegin, MaintainRoots, MaintainRootBarrier, MaintainSegments,
       MaintainSegmentBarrier, MaintainChunks, MaintainEnd, Collect, Settle, ClearBegin, Clear,
       ClearDir, ClearMark, ClearEnd, ClearFile, SoleFails, Rots
<1>5. ASSUME NEW c \in Contexts, InvalidateBegin(c) PROVE DropTyped'
  <2> DEFINE n == IF disk[<<"manifests", c>>] = Absent THEN <<"prefix-aliases", c>>
                                                       ELSE <<"manifests", c>>
  <2>1. n \in Roots BY NameFacts
  <2>2. disk[n] \in Contents BY <1>5, <2>1, NameFacts DEF InvalidateBegin, Typed, Entry
  <2>3. {"chunks"} \X disk[n].chunks \subseteq Objects BY <2>2, ContentFacts DEF Objects
  <2>4. PICK todo \in SUBSET Objects :
          drop' = [NoDrop EXCEPT !.pc = "check", !.root = n, !.todo = todo]
    BY <1>5, <2>3 DEF InvalidateBegin
  <2> HIDE DEF n
  <2> QED BY <2>1, <2>4 DEF DropTyped, NoDrop
<1>6. ASSUME NEW n \in Objects, InvalidateCheck(n) PROVE DropTyped'
  BY <1>6 DEF InvalidateCheck, DropTyped
<1>7. CASE InvalidateChunk BY <1>7 DEF InvalidateChunk, DropTyped
<1>8. CASE InvalidateRoot \/ PowerFails BY <1>8, <1>n DEF InvalidateRoot, PowerFails
<1> QED
  BY <1>1, <1>2, <1>3, <1>4, <1>5, <1>6, <1>7, <1>8 DEF Next, Invalidate, Environment, Files

LEMMA OthersStay ==
  ASSUME WriterTyped, NEW w \in Writers,
         Begin(w) \/ Proceed(w) \/ BatchFails(w) \/ SyncRootFails(w) \/ Dies(w)
  PROVE  \A x \in Writers : x # w => writer'[x] = writer[x]
<1>0. ASSUME NEW p, writer' = [writer EXCEPT ![w] = p] PROVE \A x \in Writers : x # w => writer'[x] = writer[x]
  BY <1>0 DEF WriterTyped
<1>1. CASE Begin(w)
  BY <1>1, <1>0 DEF Begin, BeginContext, CommitPageSnapshot, CommitExtension, CommitPageExtension,
       PublishPrefixAlias, Publish
<1>2. CASE SkipAlias(w) \/ Abort(w) \/ Dies(w)
  BY <1>2, <1>0 DEF SkipAlias, Abort, Dies, GivenUp, Given
<1>3. CASE Commit(w) \/ LinkRoot(w) \/ SyncRoot(w)
  BY <1>3, <1>0 DEF Commit, LinkRoot, SyncRoot, GivenUp, Given
<1>4. CASE BatchFails(w) \/ SyncRootFails(w)
  BY <1>4, <1>0 DEF BatchFails, SyncRootFails, Failed, Given
<1>5. CASE Stage(w) BY <1>5 DEF Stage, WriterTyped
<1>6. CASE Barrier(w) BY <1>6 DEF Barrier, WriterTyped
<1>7. CASE \E n \in Objects : Link(w, n) BY <1>7 DEF Link, WriterTyped
<1> QED BY <1>1, <1>2, <1>3, <1>4, <1>5, <1>6, <1>7 DEF Proceed

\* A publication takes the guard when nobody has it alone, and only keeps it.
LEMMA AloneNext ==
  ASSUME WriterTyped, WriterTyped', Alone, [Next]_vars
  PROVE  Alone'
<1> USE DEF Holding
<1>0. ASSUME UNCHANGED sole, \A w \in Writers : Holding(w)' => Holding(w) PROVE Alone'
  BY <1>0 DEF Alone
<1>n. ASSUME sole' = Nobody PROVE Alone' BY <1>n DEF Alone, Nobody
<1>1. CASE UNCHANGED vars BY <1>1, <1>0 DEF vars
<1>2. ASSUME NEW w \in Writers, Begin(w) PROVE Alone'
  BY <1>2 DEF Begin, BeginContext, CommitPageSnapshot, CommitExtension, CommitPageExtension,
       PublishPrefixAlias, Publish, SharedGuard, Alone
<1>3. ASSUME NEW w \in Writers, Proceed(w) \/ BatchFails(w) \/ SyncRootFails(w) \/ Dies(w)
      PROVE  Alone'
  <2>1. UNCHANGED sole
    BY <1>3 DEF Proceed, SkipAlias, Stage, Barrier, Abort, Commit, LinkRoot, SyncRoot, Link,
         BatchFails, SyncRootFails, Dies
  <2>2. \A x \in Writers : x # w => writer'[x] = writer[x] BY <1>3, OthersStay
  <2>3. CASE SkipAlias(w)
    BY <2>1, <2>2, <2>3, <1>0, RestIsTyped DEF SkipAlias, WriterTyped
  <2>4. CASE ~SkipAlias(w)
    <3>1. Holding(w)
      BY <1>3, <2>4 DEF Proceed, Stage, Barrier, Abort, Commit, LinkRoot, SyncRoot, Link,
           BatchFails, SyncRootFails, Dies
    <3> QED BY <2>1, <2>2, <3>1, <1>0
  <2> QED BY <2>3, <2>4
<1>4. CASE MaintainBegin
  BY <1>4 DEF MaintainBegin, RootGuard, Alone
<1>5. CASE Maintain /\ ~MaintainBegin
  <2>1. UNCHANGED writer /\ sole.pc # "idle"
    BY <1>5 DEF Maintain, MaintainProceeds, MaintainRoots, MaintainRootBarrier, MaintainSegments,
         MaintainSegmentBarrier, MaintainChunks, MaintainEnd, Collect, Settle
  <2> QED BY <2>1 DEF Alone
<1>6. CASE ClearBegin BY <1>6 DEF ClearBegin, RootGuard, Alone
<1>7. CASE Clear
  <2>1. UNCHANGED writer /\ sole.pc # "idle"
    BY <1>7 DEF Clear, ClearDir, ClearMark, ClearEnd, ClearFile
  <2> QED BY <2>1 DEF Alone
<1>8. CASE (\E c \in Contexts : InvalidateBegin(c)) \/ Invalidate \/ \E n \in Files : Rots(n)
  BY <1>8, <1>0 DEF InvalidateBegin, Invalidate, InvalidateChunk, InvalidateRoot, InvalidateCheck, Rots
<1>9. CASE SoleFails \/ PowerFails BY <1>9, <1>n DEF SoleFails, PowerFails
<1> QED BY <1>1, <1>2, <1>3, <1>4, <1>5, <1>6, <1>7, <1>8, <1>9 DEF Next, Environment, Files

-----------------------------------------------------------------------------
(* The inductive invariant. *)

\* Objects hold the bytes they were written with, unless they are lost.
Plainly ==
    \A o \in Objects : \A v \in pend[o] \ {Absent} :
        v.chunks = {} /\ v.index = {} /\ (v.ok \/ o \in lost)

\* A root that was not unlinked without a barrier comes back as it is, or not at all.
Steady == \A n \in Roots \ loose : \A v \in pend[n] \ {Absent} : v = disk[n]

\* An object that no power failure takes.
Kept(o) == o \in lost \/ Absent \notin pend[o]

WholeAt(n) == disk[n] # Absent /\ disk[n].ok => \A o \in Refs(disk[n]) : Kept(o)

RootsHold == \A n \in Roots \ loose : WholeAt(n)
LinkedHold == \A w \in Writers : writer[w].pc \in {"sync", "committed"} => WholeAt(writer[w].root)

\* In row storage a root lists the chunk of its context, and what comes before its chunks.
Closed(v, c) == c \in v.chunks /\ \A x \in v.chunks : Prefix[x] \subseteq v.chunks
RowsClosed == mode = "rows" => \A n \in Roots : \A v \in pend[n] \ {Absent} : Closed(v, n[2])
BodiesClosed ==
    mode = "rows" => \A w \in Writers : Holding(w) => Closed(writer[w].body, writer[w].root[2])

\* What a publication still has to do before it may link its root: an object of the root
\* is kept, or needed, or its directory awaits the barrier of a needed one.
Promise(p) ==
    /\ p.body.era = era /\ p.body.ok
    /\ p.batch \subseteq p.need \ p.done /\ p.staged \subseteq p.batch
    /\ p.pc \in {"root", "sync"} => p.need \subseteq p.done
    /\ \A n \in p.batch \ p.staged : disk[n] # Absent \/ n \in lost
    /\ \A o \in Refs(p.body) :
          \/ Kept(o)
          \/ o \in p.need \ p.done
          \/ disk[o] # Absent /\ \E m \in p.need \ p.done : m[1] = o[1]
Promises == \A w \in Writers : Holding(w) => Promise(writer[w])

\* What a pass read when it began is still true of the roots and objects it leaves.
InPass == sole.pc \in {"roots", "rootsync", "segments", "segmentsync", "chunks", "chunksync"}
SeenRoots ==
    InPass =>
    /\ sole.seen \in [Names -> Entry]
    /\ \A n \in Roots : disk[n] # Absent => /\ sole.seen[n] # Absent
                                            /\ sole.seen[n].chunks = disk[n].chunks
                                            /\ sole.seen[n].index = disk[n].index
    /\ sole.pc # "roots" => \A n \in sole.chosen : disk[n] = Absent
    /\ \A n \in Roots : sole.seen[n] # Absent =>
          n \in loose \/ disk[n] # Absent \/ (sole.pc # "roots" /\ n \in sole.chosen)
    /\ sole.gone \subseteq Data
    /\ \A n \in sole.gone \cap Roots : disk[n] = Absent /\ n \notin Remaining
SeenObjects ==
    InPass => \A o \in Objects : sole.seen[o] # Absent =>
        \/ disk[o] # Absent \/ o \in lost
        \/ sole.pc # "roots" /\ o \notin ReferencedBy(sole.seen, Remaining)

\* A clear leaves nothing behind it; without a marker none comes back.
Bare(n) == pend[n] = {Absent}
Cleared ==
    /\ disk[Marker] = Absent => Bare(Marker)
    /\ sole.pc = "clear" =>
          /\ disk[Marker] = Absent /\ sole.dir > 0
          /\ \A i \in DOMAIN DataDirs : i < sole.dir => \A n \in Data : n[1] = DataDirs[i] => Bare(n)
    /\ sole.pc = "mark" => \A n \in Data : Bare(n)

Shapes == Typed /\ WriterTyped /\ SoleTyped /\ Alone /\ DropTyped
IInv ==
    /\ Shapes
    /\ Plainly /\ Steady /\ RootsHold /\ LinkedHold /\ RowsClosed /\ BodiesClosed /\ Promises
    /\ SeenRoots /\ SeenObjects /\ Cleared /\ PromisesKept

-----------------------------------------------------------------------------
(* The ways a step moves the files that count. *)

Aside == (\A n \in Files : AsIs(n)) /\ UNCHANGED history

Linked(o) == /\ o \in Objects /\ Shows(o, Plain) /\ UNCHANGED history
             /\ \A n \in Files \ {o} : AsIs(n)

Rooted(w) == /\ writer[w].pc = "root" /\ disk[writer[w].root] = Absent /\ UNCHANGED history
             /\ Shows(writer[w].root, writer[w].body)
             /\ \A n \in Files \ {writer[w].root} : AsIs(n)

Settles(ds) ==
    /\ \A n \in Files : IF n[1] \in ds THEN Settled(n) ELSE AsIs(n)
    /\ lost' \subseteq lost /\ \A n \in lost \ lost' : n[1] \in ds /\ Matches(n, Plain)
    /\ loose' \subseteq loose
    /\ \A n \in loose \ loose' :
          n[1] \in ds /\ (disk[n] = Absent \/ \E w \in Writers : writer[w].pc = "sync" /\ writer[w].root = n)
    /\ \A n \in promised' \ promised : n[1] \in ds /\ disk[n] # Absent

Needless(o) ==
    /\ \A w \in Writers : ~Holding(w)
    /\ \A n \in Roots : disk[n] # Absent /\ disk[n].ok => o \notin Refs(disk[n])

Unlinks(S) ==
    /\ \A n \in Files : IF n \in S /\ disk[n] # Absent THEN Shows(n, Absent) ELSE AsIs(n)
    /\ promised' \subseteq promised \ S /\ loose' = loose \cup (S \cap Roots)
    /\ lost \subseteq lost'
    /\ \A o \in S \cap Objects : disk[o] # Absent => o \in lost' \/ Needless(o)

Removes(m) ==
    /\ sole.pc = "clear"
    /\ \A n \in Files : IF n = m THEN disk'[n] = Absent /\ pend'[n] = {Absent}
                        ELSE IF n[1] = m[1] THEN Settled(n) ELSE AsIs(n)
    /\ promised' = promised \ {m} /\ loose' = loose /\ lost' = lost \cup ({m} \cap Objects)

Fails ==
    /\ \A n \in Files : disk'[n] \in pend[n] /\ pend'[n] = {disk'[n]}
    /\ UNCHANGED history /\ writer' = [w \in Writers |-> Resting] /\ sole' = Nobody

Spoils(m) ==
    /\ m \in Files /\ disk[m] # Absent
    /\ disk'[m] = [disk[m] EXCEPT !.ok = FALSE]
    /\ pend'[m] = (pend[m] \ {disk[m]}) \cup {disk'[m]}
    /\ \A n \in Files \ {m} : AsIs(n)
    /\ lost' = lost \cup {m} /\ UNCHANGED <<promised, loose>>

Moves ==
    \/ Aside
    \/ \E o \in Objects : Linked(o)
    \/ \E w \in Writers : Rooted(w)
    \/ \E ds : Settles(ds)
    \/ \E S : Unlinks(S)
    \/ \E m \in Data : Removes(m)
    \/ Fails
    \/ \E m \in Files : Spoils(m)

LEMMA StillIsAside == ASSUME UNCHANGED <<disk, pend, promised, loose, lost>> PROVE Aside
BY DEF Aside, AsIs, history

LEMMA BeginAside == ASSUME NEW w \in Writers, Begin(w) PROVE Aside
BY StillIsAside DEF Begin, BeginContext, CommitPageSnapshot, CommitExtension, CommitPageExtension,
   PublishPrefixAlias, Publish, history

LEMMA QuietAside ==
  ASSUME \/ UNCHANGED vars \/ MaintainBegin \/ ClearBegin \/ SoleFails
         \/ \E w \in Writers : SkipAlias(w) \/ Abort(w) \/ SyncRootFails(w)
         \/ \E c \in Contexts : InvalidateBegin(c)
         \/ \E n \in Objects : InvalidateCheck(n)
  PROVE  Aside
BY StillIsAside DEF vars, MaintainBegin, ClearBegin, SoleFails, SkipAlias, Abort, SyncRootFails,
   InvalidateBegin, InvalidateCheck, history

LEMMA FilesAreNames == Files \subseteq Names /\ Roots \subseteq Files /\ Objects \subseteq Files
BY NameFacts

LEMMA TempsAside ==
  ASSUME Shapes, NEW w \in Writers, Stage(w) \/ Commit(w) \/ Dies(w)
  PROVE  Aside
<1>0. FileSystem BY TypedFileSystem DEF Shapes
<1>a. Plain \in Entry BY FileFacts DEF Shapes, Typed, Entry
<1>b. \A d : <<d, Temp>> \notin Files BY NameFacts
<1>1. CASE Stage(w)
  <2>1. PICK T : T \cap Files = {} /\ pend' = Pending(T, Plain) BY <1>1, <1>b DEF Stage
  <2>2. disk' = disk /\ UNCHANGED history BY <1>1 DEF Stage, history
  <2> QED BY <2>1, <2>2, <1>0, <1>a, PendingAt, FilesAreNames DEF Aside, history
<1>2. CASE Commit(w)
  <2>1. PICK T : T \cap Files = {} /\ pend' = Pending(T, Plain) BY <1>2, <1>b DEF Commit
  <2>2. disk' = disk /\ UNCHANGED history BY <1>2 DEF Commit, history
  <2> QED BY <2>1, <2>2, <1>0, <1>a, PendingAt, FilesAreNames DEF Aside, history
<1>3. CASE Dies(w)
  <2>1. PICK T : T \cap Files = {} /\ Put(T, Plain) BY <1>3, <1>b DEF Dies
  <2>2. UNCHANGED history BY <1>3 DEF Dies, history
  <2>3. \A n \in Names : n \notin T => AsIs(n) BY <2>1, <1>0, <1>a, PutAt
  <2> QED BY <2>1, <2>2, <2>3, FilesAreNames DEF Aside, history
<1> QED BY <1>1, <1>2, <1>3

LEMMA MarkerAside ==
  ASSUME Shapes, ClearMark \/ ClearEnd
  PROVE  Aside
<1>0. FileSystem BY TypedFileSystem DEF Shapes
<1>a. Plain \in Entry BY FileFacts DEF Shapes, Typed, Entry
<1>b. Marker \notin Files /\ \A n \in Files : n[1] # Marker[1] BY NameFacts
<1>1. UNCHANGED history BY DEF ClearMark, ClearEnd, history
<1>2. CASE ClearMark BY <1>0, <1>a, <1>b, <1>1, <1>2, PutAt, FilesAreNames DEF ClearMark, Aside, history
<1>3. CASE ClearEnd BY <1>0, <1>b, <1>1, <1>3, SyncAt, FilesAreNames DEF ClearEnd, Aside, history
<1> QED BY <1>2, <1>3

LEMMA LinkMoves ==
  ASSUME Shapes, NEW w \in Writers, NEW o \in Objects, Link(w, o)
  PROVE  Aside \/ Linked(o)
<1>0. FileSystem BY TypedFileSystem DEF Shapes
<1>a. Plain \in Entry BY FileFacts DEF Shapes, Typed, Entry
<1>1. UNCHANGED history BY DEF Link, history
<1>2. CASE Matches(o, Plain)
  <2>1. Put({}, Plain) BY <1>2 DEF Link
  <2> QED BY <2>1, <1>0, <1>a, <1>1, PutAt, FilesAreNames DEF Aside
<1>3. CASE ~Matches(o, Plain)
  <2>1. Put({o}, Plain) BY <1>3 DEF Link
  <2> QED BY <2>1, <1>0, <1>a, <1>1, PutAt, FilesAreNames DEF Linked
<1> QED BY <1>2, <1>3

LEMMA BarrierSettles ==
  ASSUME Shapes, NEW w \in Writers, Barrier(w)
  PROVE  Settles(DirsOf(writer[w].batch))
<1>0. FileSystem BY TypedFileSystem DEF Shapes
<1>1. Sync(DirsOf(writer[w].batch)) BY DEF Barrier
<1>2. \A n \in Files : IF n[1] \in DirsOf(writer[w].batch) THEN Settled(n) ELSE AsIs(n)
  BY <1>0, <1>1, SyncAt, FilesAreNames
<1>3. lost' = {n \in lost : ~(n \in writer[w].batch /\ Matches(n, Plain))}
      /\ loose' = loose /\ promised' = promised
  BY DEF Barrier
<1> QED BY <1>2, <1>3 DEF Settles, DirsOf

LEMMA SyncSettles ==
  ASSUME Shapes, NEW ds, Sync(ds), UNCHANGED history
  PROVE  Settles(ds)
<1>0. FileSystem BY TypedFileSystem DEF Shapes
<1>1. \A n \in Files : IF n[1] \in ds THEN Settled(n) ELSE AsIs(n)
  BY <1>0, SyncAt, FilesAreNames
<1> QED BY <1>1 DEF Settles, history

LEMMA PlainBarriers ==
  ASSUME Shapes, MaintainEnd \/ ClearDir \/ \E w \in Writers : BatchFails(w)
  PROVE  \E ds : Settles(ds)
BY SyncSettles DEF MaintainEnd, ClearDir, BatchFails

LEMMA LinkRootMoves ==
  ASSUME Shapes, NEW w \in Writers, LinkRoot(w)
  PROVE  Aside \/ Rooted(w) \/ \E ds : Settles(ds)
<1>0. FileSystem BY TypedFileSystem DEF Shapes
<1>1. UNCHANGED history /\ writer[w].pc = "root" BY DEF LinkRoot, history
<1>2. CASE disk[writer[w].root] = Absent /\ Put({writer[w].root}, writer[w].body)
  <2>1. writer[w].body \in Entry BY DEF Shapes, WriterTyped, WriterType, Entry
  <2>2. writer[w].root \in Roots BY <1>1 DEF Shapes, WriterTyped
  <2> QED BY <1>0, <1>1, <1>2, <2>1, <2>2, PutAt, FilesAreNames DEF Rooted
<1>3. CASE UNCHANGED <<disk, pend>> BY <1>1, <1>3, StillIsAside DEF history
<1>4. CASE Sync({writer[w].root[1]}) BY <1>1, <1>4, SyncSettles
<1> QED BY <1>2, <1>3, <1>4 DEF LinkRoot

LEMMA SyncRootSettles ==
  ASSUME Shapes, NEW w \in Writers, SyncRoot(w)
  PROVE  Settles({writer[w].root[1]})
<1>0. FileSystem BY TypedFileSystem DEF Shapes
<1>1. \A n \in Files : IF n[1] \in {writer[w].root[1]} THEN Settled(n) ELSE AsIs(n)
  BY <1>0, SyncAt, FilesAreNames DEF SyncRoot
<1>2. lost' = lost /\ loose' = loose \ {writer[w].root} /\ writer[w].pc = "sync"
      /\ promised' = IF disk[writer[w].root] # Absent THEN promised \cup {writer[w].root} ELSE promised
  BY DEF SyncRoot
<1> QED BY <1>1, <1>2 DEF Settles

LEMMA SettleSettles ==
  ASSUME IInv, NEW next, Settle(next), InPass
  PROVE  Settles(DirsOf(sole.gone))
<1>0. FileSystem BY TypedFileSystem DEF IInv, Shapes
<1>1. \A n \in Files : IF n[1] \in DirsOf(sole.gone) THEN Settled(n) ELSE AsIs(n)
  BY <1>0, SyncAt, FilesAreNames DEF Settle
<1>2. lost' = lost /\ loose' = loose \ sole.gone /\ promised' = promised BY DEF Settle
<1>3. \A n \in loose \ loose' : n[1] \in DirsOf(sole.gone) /\ disk[n] = Absent
  BY <1>2 DEF IInv, SeenRoots, DirsOf, Shapes, Typed
<1> QED BY <1>1, <1>2, <1>3 DEF Settles

\* What a pass removes no present root lists.
LEMMA UnreferencedNeedless ==
  ASSUME IInv, InPass, sole.pc # "roots", NEW o \in Objects,
         o \notin ReferencedBy(sole.seen, Remaining),
         ~ \E n \in Entries(sole.seen) \ Valid(sole.seen) : o \in Refs(sole.seen[n])
  PROVE  Needless(o)
<1>1. \A w \in Writers : ~Holding(w) BY DEF IInv, Shapes, Alone, InPass
<1>2. ASSUME NEW n \in Roots, disk[n] # Absent, o \in Refs(disk[n]) PROVE FALSE
  <2>1. /\ sole.seen[n] # Absent /\ n \notin sole.chosen
        /\ sole.seen[n].chunks = disk[n].chunks /\ sole.seen[n].index = disk[n].index
    BY <1>2 DEF IInv, SeenRoots
  <2>2. n \in Entries(sole.seen) /\ n \in Remaining BY <2>1 DEF Entries, Remaining
  <2>3. o \in Refs(sole.seen[n]) BY <2>1, <1>2 DEF Refs
  <2>4. n \in Valid(sole.seen) BY <2>2, <2>3
  <2> QED BY <2>2, <2>3, <2>4 DEF ReferencedBy
<1> QED BY <1>1, <1>2 DEF Needless

LEMMA AdmittedIsPart ==
  ASSUME NEW S, NEW before, NEW A \in Admitted(S, before)
  PROVE  A \subseteq S
BY DEF Admitted

LEMMA CollectUnlinks ==
  ASSUME IInv, InPass, NEW S, NEW before, NEW next, Collect(S, before, next),
         \A o \in S \cap Objects : sole.pc # "roots" /\ o \notin ReferencedBy(sole.seen, Remaining)
  PROVE  /\ Unlinks(sole'.gone) /\ sole'.gone \subseteq S
         /\ sole'.pc = next /\ sole'.seen = sole.seen
         /\ sole'.chosen = IF sole.pc = "roots" THEN sole.chosen \cap sole'.gone ELSE sole.chosen
<1>1. PICK admitted \in Admitted(S, before) :
        \E gone \in {admitted} \cup {admitted \ {n} : n \in admitted} :
            /\ Unlink(gone)
            /\ promised' = promised \ gone
            /\ loose' = loose \cup (gone \cap Roots)
            /\ lost' = lost \cup {o \in gone : \E n \in Entries(sole.seen) \ Valid(sole.seen) :
                                                 o \in Refs(sole.seen[n])}
            /\ sole' = [sole EXCEPT !.pc = next, !.gone = gone,
                          !.chosen = IF sole.pc = "roots" THEN @ \cap gone ELSE @,
                          !.left = IF Budget = 0 THEN 0 ELSE @ - Cardinality(admitted)]
  BY DEF Collect
<1>2. PICK gone \in {admitted} \cup {admitted \ {n} : n \in admitted} :
            /\ Unlink(gone)
            /\ promised' = promised \ gone
            /\ loose' = loose \cup (gone \cap Roots)
            /\ lost' = lost \cup {o \in gone : \E n \in Entries(sole.seen) \ Valid(sole.seen) :
                                                 o \in Refs(sole.seen[n])}
            /\ sole' = [sole EXCEPT !.pc = next, !.gone = gone,
                          !.chosen = IF sole.pc = "roots" THEN @ \cap gone ELSE @,
                          !.left = IF Budget = 0 THEN 0 ELSE @ - Cardinality(admitted)]
  BY <1>1
<1>3. gone \subseteq S BY <1>2, AdmittedIsPart
<1>0. FileSystem BY TypedFileSystem DEF IInv, Shapes
<1>4. \A n \in Files : IF n \in gone /\ disk[n] # Absent THEN Shows(n, Absent) ELSE AsIs(n)
  BY <1>0, <1>2, UnlinkAt, FilesAreNames
<1>5. ASSUME NEW o \in gone \cap Objects, o \notin lost' PROVE Needless(o)
  BY <1>2, <1>3, <1>5, UnreferencedNeedless
<1>6. Unlinks(gone) BY <1>2, <1>3, <1>4, <1>5 DEF Unlinks
<1>7. /\ sole'.gone = gone /\ sole'.pc = next /\ sole'.seen = sole.seen
      /\ sole'.chosen = IF sole.pc = "roots" THEN sole.chosen \cap gone ELSE sole.chosen
  BY <1>2 DEF IInv, Shapes, SoleTyped
<1> QED BY <1>3, <1>6, <1>7

LEMMA InvalidateUnlinks ==
  ASSUME Shapes, Plainly, InvalidateChunk \/ InvalidateRoot
  PROVE  \E S : Unlinks(S) /\ \A o \in S \cap Objects : disk[o] # Absent => o \in lost'
<1>0. FileSystem BY TypedFileSystem DEF Shapes
<1>1. CASE InvalidateChunk
  <2>1. drop.bad \subseteq Objects BY DEF Shapes, DropTyped
  <2>2. \A n \in Files : IF n \in drop.bad /\ disk[n] # Absent THEN Shows(n, Absent) ELSE AsIs(n)
    BY <1>0, <1>1, UnlinkAt, FilesAreNames DEF InvalidateChunk
  <2>3. lost' = lost \cup {n \in drop.bad : Matches(n, Plain)} /\ loose' = loose /\ promised' = promised
    BY <1>1 DEF InvalidateChunk
  <2>4. ASSUME NEW o \in drop.bad, disk[o] # Absent PROVE o \in lost'
    <3>1. o \in Objects /\ disk[o] \in pend[o] BY <2>1, FilesAreNames DEF Shapes, Typed
    <3>2. disk[o].chunks = {} /\ disk[o].index = {} /\ (disk[o].ok \/ o \in lost)
      BY <3>1, <2>4 DEF Plainly
    <3>3. CASE o \in lost BY <3>3, <2>3
    <3>4. CASE disk[o].ok
      <4>1. Matches(o, Plain) BY <2>4, <3>2, <3>4, FileFacts DEF Matches, Same, Shapes, Typed
      <4> QED BY <4>1, <2>3
    <3> QED BY <3>2, <3>3, <3>4
  <2>5. promised \subseteq Roots /\ Roots \cap Objects = {} BY NameFacts DEF Shapes, Typed
  <2>6. Unlinks(drop.bad) BY <2>1, <2>2, <2>3, <2>4, <2>5 DEF Unlinks
  <2> QED BY <2>4, <2>6
<1>2. CASE InvalidateRoot
  <2>1. drop.root \in Roots BY <1>2 DEF InvalidateRoot, Shapes, DropTyped
  <2>2. {drop.root} \cap Objects = {} BY <2>1, NameFacts
  <2>3. \A n \in Files : IF n \in {drop.root} /\ disk[n] # Absent THEN Shows(n, Absent) ELSE AsIs(n)
    BY <1>0, <1>2, UnlinkAt, FilesAreNames DEF InvalidateRoot
  <2>4. Unlinks({drop.root}) BY <1>2, <2>1, <2>2, <2>3 DEF InvalidateRoot, Unlinks
  <2> QED BY <2>2, <2>4
<1> QED BY <1>1, <1>2

LEMMA ClearFileRemoves ==
  ASSUME Shapes, NEW m \in Data, ClearFile(m)
  PROVE  Removes(m)
<1>0. FileSystem /\ m \in Names BY TypedFileSystem, NameFacts DEF Shapes
<1>1. \A n \in Names : IF n = m THEN disk'[n] = Absent /\ pend'[n] = {Absent}
                       ELSE IF n[1] = m[1] THEN Settled(n) ELSE AsIs(n)
  BY <1>0, ClearAt DEF ClearFile
<1>2. /\ sole.pc = "clear" /\ promised' = promised \ {m} /\ loose' = loose
      /\ lost' = lost \cup ({m} \cap Objects)
  BY DEF ClearFile
<1> QED BY <1>1, <1>2, FilesAreNames DEF Removes

LEMMA PowerFailsFails == ASSUME Shapes, PowerFails PROVE Fails
<1>1. PICK f \in Outcomes :
        /\ disk' = [n \in Names |-> IF n \in DOMAIN f THEN f[n] ELSE disk[n]]
        /\ pend' = [n \in Names |-> {disk'[n]}]
  BY DEF PowerFails
<1>2. \A n \in DOMAIN f : f[n] \in pend[n] BY DEF Outcomes
<1>3. \A n \in Names : disk'[n] \in pend[n] /\ pend'[n] = {disk'[n]}
  BY <1>1, <1>2 DEF Shapes, Typed
<1>4. UNCHANGED history /\ writer' = [w \in Writers |-> Resting] /\ sole' = Nobody
  BY DEF PowerFails, history
<1> QED BY <1>3, <1>4, FilesAreNames DEF Fails

LEMMA RotsSpoils == ASSUME Shapes, NEW m \in Files, Rots(m) PROVE Spoils(m)
<1>1. m \in Names BY FilesAreNames
<1> DEFINE bad == [disk[m] EXCEPT !.ok = FALSE]
<1>2. disk' = Shown({m}, bad) /\ pend' = [pend EXCEPT ![m] = (@ \ {disk[m]}) \cup {bad}]
  BY DEF Rots
<1>3. disk[m] # Absent /\ lost' = lost \cup {m} /\ UNCHANGED <<promised, loose>> BY DEF Rots
<1>4. disk'[m] = bad /\ pend'[m] = (pend[m] \ {disk[m]}) \cup {bad}
  BY <1>1, <1>2 DEF Shown, Shapes, Typed
<1>5. \A n \in Files \ {m} : AsIs(n) BY <1>1, <1>2, FilesAreNames DEF Shown, AsIs, Shapes, Typed
<1> QED BY <1>3, <1>4, <1>5 DEF Spoils

LEMMA MaintainMoves ==
  ASSUME IInv, Maintain
  PROVE  Aside \/ (\E ds : Settles(ds)) \/ \E S : Unlinks(S)
<1>1. CASE MaintainBegin BY <1>1, QuietAside
<1>2. CASE MaintainRoots
  <2> DEFINE S == Debris(sole.seen) \cup sole.chosen
  <2>1. S \cap Objects = {}
    BY NameFacts DEF Debris, Orphans, RootDirs, IInv, Shapes, SoleTyped
  <2>2. InPass BY <1>2 DEF MaintainRoots, InPass
  <2>3. Collect(S, Debris(sole.seen), "rootsync") BY <1>2 DEF MaintainRoots
  <2> QED BY <2>1, <2>2, <2>3, CollectUnlinks
<1>3. CASE MaintainSegments
  <2>1. \A o \in Unreferenced("prefix-index") : o \notin ReferencedBy(sole.seen, Remaining)
    BY DEF Unreferenced
  <2>2. InPass /\ sole.pc # "roots" BY <1>3 DEF MaintainSegments, InPass
  <2>3. Collect(Unreferenced("prefix-index"), {}, "segmentsync") BY <1>3 DEF MaintainSegments
  <2> QED BY <2>1, <2>2, <2>3, CollectUnlinks
<1>4. CASE MaintainChunks
  <2>1. \A o \in Unreferenced("chunks") : o \notin ReferencedBy(sole.seen, Remaining)
    BY DEF Unreferenced
  <2>2. InPass /\ sole.pc # "roots" BY <1>4 DEF MaintainChunks, InPass
  <2>3. Collect(Unreferenced("chunks"), {}, "chunksync") BY <1>4 DEF MaintainChunks
  <2> QED BY <2>1, <2>2, <2>3, CollectUnlinks
<1>5. CASE MaintainRootBarrier \/ MaintainSegmentBarrier
  <2>1. InPass BY <1>5 DEF MaintainRootBarrier, MaintainSegmentBarrier, InPass
  <2> QED BY <1>5, <2>1, SettleSettles DEF MaintainRootBarrier, MaintainSegmentBarrier
<1>6. CASE MaintainEnd BY <1>6, PlainBarriers DEF IInv
<1> QED BY <1>1, <1>2, <1>3, <1>4, <1>5, <1>6 DEF Maintain, MaintainProceeds

LEMMA EveryStepMoves == IInv /\ [Next]_vars => Moves
<1> SUFFICES ASSUME IInv, [Next]_vars PROVE Moves OBVIOUS
<1>0. Shapes /\ Plainly BY DEF IInv
<1>1. ASSUME NEW w \in Writers, Proceed(w) PROVE Moves
  <2>1. CASE SkipAlias(w) \/ Abort(w) BY <2>1, QuietAside DEF Moves
  <2>2. CASE Stage(w) \/ Commit(w) BY <2>2, <1>0, TempsAside DEF Moves
  <2>3. CASE Barrier(w) BY <2>3, <1>0, BarrierSettles DEF Moves
  <2>4. CASE LinkRoot(w) BY <2>4, <1>0, LinkRootMoves DEF Moves
  <2>5. CASE SyncRoot(w) BY <2>5, <1>0, SyncRootSettles DEF Moves
  <2>6. CASE \E o \in Objects : Link(w, o) BY <2>6, <1>0, LinkMoves DEF Moves
  <2> QED BY <1>1, <2>1, <2>2, <2>3, <2>4, <2>5, <2>6 DEF Proceed
<1>2. CASE \/ UNCHANGED vars \/ ClearBegin \/ SoleFails
           \/ \E c \in Contexts : InvalidateBegin(c)
           \/ \E n \in Objects : InvalidateCheck(n)
           \/ \E w \in Writers : SyncRootFails(w)
  BY <1>2, QuietAside DEF Moves
<1>3. CASE \E w \in Writers : Begin(w) BY <1>3, BeginAside DEF Moves
<1>4. CASE \E w \in Writers : Dies(w) BY <1>4, <1>0, TempsAside DEF Moves
<1>5. CASE \E w \in Writers : BatchFails(w) BY <1>5, <1>0, PlainBarriers DEF Moves
<1>6. CASE Maintain BY <1>6, MaintainMoves DEF Moves
<1>7. CASE Clear
  BY <1>7, <1>0, PlainBarriers, MarkerAside, ClearFileRemoves DEF Clear, Moves
<1>8. CASE InvalidateChunk \/ InvalidateRoot BY <1>8, <1>0, InvalidateUnlinks DEF Moves
<1>9. CASE PowerFails BY <1>9, <1>0, PowerFailsFails DEF Moves
<1>10. CASE \E n \in Files : Rots(n) BY <1>10, <1>0, RotsSpoils DEF Moves
<1> QED
  BY <1>1, <1>2, <1>3, <1>4, <1>5, <1>6, <1>7, <1>8, <1>9, <1>10
  DEF Next, Invalidate, Environment, Files

-----------------------------------------------------------------------------
(* What the moves preserve. *)

LEMMA Shown1 ==
  ASSUME Typed, NEW n \in Files
  PROVE  /\ disk[n] \in pend[n] /\ disk[n] \in Entry /\ pend[n] \subseteq Entry
         /\ disk[n] # Absent => disk[n] \in Contents /\ Refs(disk[n]) \subseteq Objects
<1>1. disk[n] \in pend[n] /\ disk[n] \in Entry /\ pend[n] \subseteq Entry
  BY FilesAreNames DEF Typed
<1> QED BY <1>1, ContentFacts DEF Entry

\* Absent is shown by no file that a step writes.
LEMMA WrittenIsPresent ==
  ASSUME Shapes
  PROVE  /\ Plain # Absent /\ \A w \in Writers : writer[w].body # Absent
         /\ \A m \in Files : disk[m] # Absent => [disk[m] EXCEPT !.ok = FALSE] # Absent
<1>1. Plain # Absent BY FileFacts, ContentFacts DEF Shapes, Typed
<1>2. \A w \in Writers : writer[w].body \in Contents BY DEF Shapes, WriterTyped, WriterType
<1>3. ASSUME NEW m \in Files, disk[m] # Absent PROVE [disk[m] EXCEPT !.ok = FALSE] \in Contents
  BY <1>3, Shown1 DEF Shapes, Contents
<1> QED BY <1>1, <1>2, <1>3, ContentFacts

LEMMA KeptStays ==
  ASSUME IInv, Moves, NEW o \in Objects, Kept(o)
  PROVE  Kept(o)' \/ Needless(o)
<1>0. o \in Files /\ disk[o] \in pend[o] /\ Shapes BY FilesAreNames, Shown1 DEF IInv, Shapes
<1> USE DEF Kept
<1>1. CASE Aside BY <1>1, <1>0 DEF Aside, AsIs, history
<1>2. CASE \E x \in Objects : Linked(x)
  BY <1>2, <1>0, WrittenIsPresent DEF Linked, Shows, AsIs, history
<1>3. CASE \E w \in Writers : Rooted(w)
  BY <1>3, <1>0, WrittenIsPresent DEF Rooted, Shows, AsIs, history
<1>4. ASSUME NEW ds, Settles(ds) PROVE Kept(o)'
  <2>1. CASE o \in lost'
    BY <2>1
  <2>2. CASE o \notin lost' /\ Absent \notin pend[o]
    BY <1>0, <1>4, <2>2 DEF Settles, Settled, AsIs
  <2>3. CASE o \in lost \ lost'
    BY <1>0, <1>4, <2>3 DEF Settles, Settled, Matches
  <2> QED BY <2>1, <2>2, <2>3
<1>5. ASSUME NEW S, Unlinks(S) PROVE Kept(o)' \/ Needless(o)
  BY <1>0, <1>5 DEF Unlinks, AsIs, Shows
<1>6. ASSUME NEW m \in Data, Removes(m) PROVE Kept(o)'
  BY <1>0, <1>6 DEF Removes, Settled, AsIs
<1>7. CASE Fails BY <1>0, <1>7 DEF Fails, history
<1>8. ASSUME NEW m \in Files, Spoils(m) PROVE Kept(o)'
  BY <1>0, <1>8, WrittenIsPresent DEF Spoils, AsIs
<1> QED BY <1>1, <1>2, <1>3, <1>4, <1>5, <1>6, <1>7, <1>8 DEF Moves

\* A root that shows another file than before was just linked, came back from a power
\* failure, or is damaged.
LEMMA ShownNext ==
  ASSUME IInv, Moves, NEW n \in Roots
  PROVE  \/ disk'[n] = disk[n] \/ disk'[n] = Absent
         \/ \E w \in Writers : Rooted(w) /\ writer[w].root = n /\ disk'[n] = writer[w].body
         \/ n \in loose
         \/ disk[n] # Absent /\ disk'[n] = [disk[n] EXCEPT !.ok = FALSE]
<1>0. n \in Files /\ n \notin Objects BY NameFacts
<1>1. CASE Aside BY <1>1, <1>0 DEF Aside, AsIs
<1>2. CASE \E x \in Objects : Linked(x) BY <1>2, <1>0 DEF Linked, AsIs
<1>3. CASE \E w \in Writers : Rooted(w) BY <1>3, <1>0 DEF Rooted, Shows, AsIs
<1>4. ASSUME NEW ds, Settles(ds) PROVE disk'[n] = disk[n]
  BY <1>0, <1>4 DEF Settles, Settled, AsIs
<1>5. ASSUME NEW S, Unlinks(S) PROVE disk'[n] = disk[n] \/ disk'[n] = Absent
  BY <1>0, <1>5 DEF Unlinks, AsIs, Shows
<1>6. ASSUME NEW m \in Data, Removes(m) PROVE disk'[n] = disk[n] \/ disk'[n] = Absent
  BY <1>0, <1>6 DEF Removes, Settled, AsIs
<1>7. CASE Fails BY <1>0, <1>7 DEF Fails, IInv, Steady
<1>8. ASSUME NEW m \in Files, Spoils(m)
      PROVE  disk'[n] = disk[n] \/ (disk[n] # Absent /\ disk'[n] = [disk[n] EXCEPT !.ok = FALSE])
  BY <1>0, <1>8 DEF Spoils, AsIs
<1> QED BY <1>1, <1>2, <1>3, <1>4, <1>5, <1>6, <1>7, <1>8 DEF Moves

\* A whole root stays whole, and a root is whole when it is linked.
LEMMA WholeStays ==
  ASSUME IInv, Moves, NEW n \in Roots, WholeAt(n), n \notin loose \/ ~Fails
  PROVE  WholeAt(n)'
<1>0. n \in Files BY FilesAreNames
<1>1. ASSUME disk'[n] = disk[n] PROVE WholeAt(n)'
  <2> SUFFICES ASSUME disk[n] # Absent, disk[n].ok, NEW o \in Refs(disk[n]) PROVE Kept(o)'
    BY <1>1 DEF WholeAt
  <2>1. o \in Objects BY <1>0, Shown1 DEF IInv, Shapes
  <2>2. Kept(o) BY DEF WholeAt
  <2>3. ~Needless(o) BY DEF Needless
  <2> QED BY <2>1, <2>2, <2>3, KeptStays
<1>2. CASE disk'[n] = Absent BY <1>2 DEF WholeAt
<1>3. ASSUME NEW w \in Writers, Rooted(w), disk'[n] = writer[w].body PROVE WholeAt(n)'
  <2> SUFFICES ASSUME NEW o \in Refs(writer[w].body) PROVE Kept(o)'
    BY <1>3 DEF WholeAt
  <2>1. writer[w].pc = "root" /\ Holding(w) BY <1>3 DEF Rooted, Holding
  <2>2. Promise(writer[w]) BY <2>1 DEF IInv, Promises
  <2>3. writer[w].need \subseteq writer[w].done BY <2>1, <2>2 DEF Promise
  <2>4. Kept(o) BY <2>2, <2>3 DEF Promise
  <2>5. o \in Objects BY ContentFacts DEF IInv, Shapes, WriterTyped, WriterType
  <2>6. ~Needless(o) BY <2>1 DEF Needless
  <2> QED BY <2>4, <2>5, <2>6, KeptStays
<1>4. CASE disk[n] # Absent /\ disk'[n] = [disk[n] EXCEPT !.ok = FALSE]
  <2>1. disk[n] \in Contents BY <1>0, <1>4, Shown1 DEF IInv, Shapes
  <2>2. disk'[n].ok = FALSE BY <1>4, <2>1 DEF Contents
  <2> QED BY <2>2 DEF WholeAt
<1>5. CASE n \in loose /\ ~Fails
  <2>1. CASE Aside BY <2>1, <1>0, <1>1 DEF Aside, AsIs
  <2>2. CASE \E x \in Objects : Linked(x) BY <2>2, <1>0, <1>1, NameFacts DEF Linked, AsIs
  <2>3. CASE \E w \in Writers : Rooted(w) BY <2>3, <1>0, <1>1, <1>3 DEF Rooted, Shows, AsIs
  <2>4. CASE \E ds : Settles(ds) BY <2>4, <1>0, <1>1 DEF Settles, Settled, AsIs
  <2>5. CASE \E S : Unlinks(S) BY <2>5, <1>0, <1>1, <1>2 DEF Unlinks, AsIs, Shows
  <2>6. CASE \E m \in Data : Removes(m) BY <2>6, <1>0, <1>1, <1>2 DEF Removes, Settled, AsIs
  <2>7. CASE \E m \in Files : Spoils(m) BY <2>7, <1>0, <1>1, <1>4 DEF Spoils, AsIs
  <2> QED BY <1>5, <2>1, <2>2, <2>3, <2>4, <2>5, <2>6, <2>7 DEF Moves
<1> QED BY <1>1, <1>2, <1>3, <1>4, <1>5, ShownNext

\* A root leaves loose when its directory is synchronized: unlinked, or linked whole.
LEMMA RootsHoldNext ==
  ASSUME IInv, Moves
  PROVE  RootsHold'
<1> SUFFICES ASSUME NEW n \in Roots, n \notin loose' PROVE WholeAt(n)' BY DEF RootsHold
<1>1. CASE n \notin loose BY <1>1, WholeStays DEF IInv, RootsHold
<1>2. CASE n \in loose
  <2>1. PICK ds : Settles(ds)
    BY <1>2 DEF Moves, Aside, Linked, Rooted, Unlinks, Removes, Fails, Spoils, history
  <2>2. WholeAt(n)
    BY <1>2, <2>1 DEF Settles, IInv, LinkedHold, WholeAt
  <2>3. n \in Files /\ disk'[n] = disk[n] BY <2>1, FilesAreNames DEF Settles, Settled, AsIs
  <2> SUFFICES ASSUME disk[n] # Absent, disk[n].ok, NEW o \in Refs(disk[n]) PROVE Kept(o)'
    BY <2>3 DEF WholeAt
  <2>4. o \in Objects BY <2>3, Shown1 DEF IInv, Shapes
  <2>5. Kept(o) /\ ~Needless(o) BY <2>2 DEF WholeAt, Needless
  <2> QED BY <2>4, <2>5, KeptStays
<1> QED BY <1>1, <1>2

LEMMA PlainlyNext ==
  ASSUME IInv, Moves
  PROVE  Plainly'
<1> SUFFICES ASSUME NEW o \in Objects, NEW v \in pend'[o], v # Absent
             PROVE  v.chunks = {} /\ v.index = {} /\ (v.ok \/ o \in lost')
  BY DEF Plainly
<1>0. o \in Files /\ disk[o] \in pend[o] /\ Shapes /\ pend[o] \subseteq Entry BY FilesAreNames, Shown1 DEF IInv, Shapes
<1>p. Plain.ok /\ Plain.chunks = {} /\ Plain.index = {} BY FileFacts DEF IInv, Shapes, Typed
<1>q. \A u \in pend[o] \ {Absent} : u.chunks = {} /\ u.index = {} /\ (u.ok \/ o \in lost)
  BY DEF IInv, Plainly
<1>1. CASE Aside BY <1>1, <1>0, <1>q DEF Aside, AsIs, history
<1>2. CASE \E x \in Objects : Linked(x)
  BY <1>2, <1>0, <1>p, <1>q DEF Linked, Shows, AsIs, history
<1>3. CASE \E w \in Writers : Rooted(w)
  <2>1. PICK w \in Writers : Rooted(w) BY <1>3
  <2>2. writer[w].root \in Roots BY <2>1 DEF Rooted, Shapes, IInv, WriterTyped
  <2>3. o # writer[w].root BY <2>2, NameFacts
  <2> QED BY <2>1, <2>3, <1>0, <1>q DEF Rooted, AsIs, history
<1>4. ASSUME NEW ds, Settles(ds) PROVE v.chunks = {} /\ v.index = {} /\ (v.ok \/ o \in lost')
  <2>1. v \in pend[o] BY <1>0, <1>4 DEF Settles, Settled, AsIs
  <2>2. CASE v.ok BY <2>1, <2>2, <1>q
  <2>3. CASE ~v.ok /\ o \in lost'  BY <2>1, <2>3, <1>q
  <2>4. CASE ~v.ok /\ o \notin lost'
    <3>1. o \in lost \ lost' BY <2>1, <2>4, <1>q
    <3>2. Matches(o, Plain) /\ o[1] \in ds BY <3>1, <1>4 DEF Settles
    <3>3. v = disk[o] BY <3>2, <1>4, <1>0 DEF Settles, Settled
    <3> QED BY <3>2, <3>3, <2>4 DEF Matches, Same
  <2> QED BY <2>2, <2>3, <2>4
<1>5. ASSUME NEW S, Unlinks(S) PROVE v.chunks = {} /\ v.index = {} /\ (v.ok \/ o \in lost')
  BY <1>0, <1>5, <1>q DEF Unlinks, AsIs, Shows
<1>6. ASSUME NEW m \in Data, Removes(m) PROVE v.chunks = {} /\ v.index = {} /\ (v.ok \/ o \in lost')
  BY <1>0, <1>6, <1>q DEF Removes, Settled, AsIs
<1>7. CASE Fails BY <1>0, <1>7, <1>q DEF Fails, history
<1>8. ASSUME NEW m \in Files, Spoils(m) PROVE v.chunks = {} /\ v.index = {} /\ (v.ok \/ o \in lost')
  <2>1. CASE o # m BY <1>0, <1>8, <1>q, <2>1 DEF Spoils, AsIs
  <2>2. CASE o = m
    <3>1. v \in pend[o] \/ v = [disk[o] EXCEPT !.ok = FALSE] BY <1>8, <2>2 DEF Spoils
    <3>2. disk[o] \in Contents BY <1>8, <2>2, <1>0, Shown1 DEF Spoils, Shapes
    <3>3. [disk[o] EXCEPT !.ok = FALSE].chunks = disk[o].chunks
          /\ [disk[o] EXCEPT !.ok = FALSE].index = disk[o].index
      BY <3>2 DEF Contents
    <3>4. disk[o] # Absent /\ o \in lost' BY <1>8, <2>2 DEF Spoils
    <3> QED BY <3>1, <3>3, <3>4, <1>0, <1>q
  <2> QED BY <2>1, <2>2
<1> QED BY <1>1, <1>2, <1>3, <1>4, <1>5, <1>6, <1>7, <1>8 DEF Moves

LEMMA SteadyNext ==
  ASSUME IInv, Moves
  PROVE  Steady'
<1> SUFFICES ASSUME NEW n \in Roots, n \notin loose', NEW v \in pend'[n], v # Absent
             PROVE  v = disk'[n]
  BY DEF Steady
<1>0. n \in Files /\ n \notin Objects /\ disk[n] \in pend[n] BY NameFacts, Shown1 DEF IInv, Shapes
<1>q. n \notin loose => \A u \in pend[n] \ {Absent} : u = disk[n] BY DEF IInv, Steady
<1>1. CASE Aside BY <1>1, <1>0, <1>q DEF Aside, AsIs, history
<1>2. CASE \E x \in Objects : Linked(x) BY <1>2, <1>0, <1>q DEF Linked, AsIs, history
<1>3. CASE \E w \in Writers : Rooted(w)
  BY <1>3, <1>0, <1>q DEF Rooted, Shows, AsIs, history
<1>4. ASSUME NEW ds, Settles(ds) PROVE v = disk'[n]
  BY <1>0, <1>4, <1>q DEF Settles, Settled, AsIs
<1>5. ASSUME NEW S, Unlinks(S) PROVE v = disk'[n]
  BY <1>0, <1>5, <1>q DEF Unlinks, AsIs, Shows
<1>6. ASSUME NEW m \in Data, Removes(m) PROVE v = disk'[n]
  BY <1>0, <1>6, <1>q DEF Removes, Settled, AsIs
<1>7. CASE Fails BY <1>0, <1>7 DEF Fails
<1>8. ASSUME NEW m \in Files, Spoils(m) PROVE v = disk'[n]
  BY <1>0, <1>8, <1>q DEF Spoils, AsIs
<1> QED BY <1>1, <1>2, <1>3, <1>4, <1>5, <1>6, <1>7, <1>8 DEF Moves

\* commit_manifest's receipt: durable until somebody removes the root.
LEMMA ReceiptsNext ==
  ASSUME IInv, Moves, Typed'
  PROVE  ReceiptsDurable'
<1>p. promised' \subseteq Roots BY DEF Typed
<1> SUFFICES ASSUME NEW n \in promised' PROVE Absent \notin pend'[n] BY DEF ReceiptsDurable
<1>s. Shapes BY DEF IInv
<1>q. n \in promised => n \in Files /\ n \in Roots /\ disk[n] \in pend[n] /\ Absent \notin pend[n]
  BY FilesAreNames, Shown1 DEF IInv, Shapes, Typed, PromisesKept, ReceiptsDurable
<1>1. CASE Aside BY <1>1, <1>q DEF Aside, AsIs, history
<1>2. CASE \E x \in Objects : Linked(x) BY <1>2, <1>q, NameFacts DEF Linked, AsIs, history
<1>3. CASE \E w \in Writers : Rooted(w)
  BY <1>3, <1>s, <1>q, WrittenIsPresent DEF Rooted, Shows, AsIs, history
<1>4. ASSUME NEW ds, Settles(ds) PROVE Absent \notin pend'[n]
  BY <1>4, <1>p, <1>q, FilesAreNames DEF Settles, Settled, AsIs
<1>5. ASSUME NEW S, Unlinks(S) PROVE Absent \notin pend'[n]
  BY <1>5, <1>q DEF Unlinks, AsIs, Shows
<1>6. ASSUME NEW m \in Data, Removes(m) PROVE Absent \notin pend'[n]
  BY <1>6, <1>q DEF Removes, Settled, AsIs
<1>7. CASE Fails BY <1>7, <1>q DEF Fails, history
<1>8. ASSUME NEW m \in Files, Spoils(m) PROVE Absent \notin pend'[n]
  <2>1. n \in promised BY <1>8 DEF Spoils
  <2>2. CASE n # m BY <2>1, <2>2, <1>8, <1>q DEF Spoils, AsIs
  <2>3. CASE n = m
    <3>1. disk'[m] # Absent BY <1>8, <1>s, WrittenIsPresent DEF Spoils
    <3> QED BY <2>1, <2>3, <3>1, <1>8, <1>q DEF Spoils
  <2> QED BY <2>2, <2>3
<1> QED BY <1>1, <1>2, <1>3, <1>4, <1>5, <1>6, <1>7, <1>8 DEF Moves

LEMMA RowsClosedNext ==
  ASSUME IInv, Moves, mode' = mode
  PROVE  RowsClosed'
<1> SUFFICES ASSUME mode = "rows", NEW n \in Roots, NEW v \in pend'[n], v # Absent
             PROVE  Closed(v, n[2])
  BY DEF RowsClosed, Closed
<1>0. n \in Files /\ n \notin Objects /\ disk[n] \in pend[n] BY NameFacts, Shown1 DEF IInv, Shapes
<1>q. \A u \in pend[n] \ {Absent} : Closed(u, n[2]) BY DEF IInv, RowsClosed
<1>1. CASE Aside BY <1>1, <1>0, <1>q DEF Aside, AsIs
<1>2. CASE \E x \in Objects : Linked(x) BY <1>2, <1>0, <1>q DEF Linked, AsIs
<1>3. CASE \E w \in Writers : Rooted(w)
  <2>1. PICK w \in Writers : Rooted(w) BY <1>3
  <2>2. Closed(writer[w].body, writer[w].root[2])
    BY <2>1 DEF Rooted, IInv, BodiesClosed, Holding
  <2> QED BY <2>1, <2>2, <1>0, <1>q DEF Rooted, Shows, AsIs
<1>4. ASSUME NEW ds, Settles(ds) PROVE Closed(v, n[2])
  BY <1>0, <1>4, <1>q DEF Settles, Settled, AsIs
<1>5. ASSUME NEW S, Unlinks(S) PROVE Closed(v, n[2])
  BY <1>0, <1>5, <1>q DEF Unlinks, AsIs, Shows
<1>6. ASSUME NEW m \in Data, Removes(m) PROVE Closed(v, n[2])
  BY <1>0, <1>6, <1>q DEF Removes, Settled, AsIs
<1>7. CASE Fails BY <1>0, <1>7, <1>q DEF Fails
<1>8. ASSUME NEW m \in Files, Spoils(m) PROVE Closed(v, n[2])
  <2>1. v \in pend[n] \/ (m = n /\ v = [disk[n] EXCEPT !.ok = FALSE] /\ disk[n] # Absent)
    BY <1>0, <1>8 DEF Spoils, AsIs
  <2>2. disk[n] # Absent => [disk[n] EXCEPT !.ok = FALSE].chunks = disk[n].chunks
    BY <1>0, Shown1 DEF IInv, Shapes, Contents
  <2> QED BY <1>0, <1>q, <2>1, <2>2 DEF Closed
<1> QED BY <1>1, <1>2, <1>3, <1>4, <1>5, <1>6, <1>7, <1>8 DEF Moves

-----------------------------------------------------------------------------
(* Publications. *)

LEMMA EraStays ==
  ASSUME [Next]_vars, era' # era
  PROVE  ClearBegin /\ (\A w \in Writers : ~Holding(w)) /\ UNCHANGED writer /\ sole' # Nobody
<1>1. CASE UNCHANGED vars BY <1>1 DEF vars
<1>2. ASSUME NEW w \in Writers, Begin(w) PROVE FALSE
  BY <1>2 DEF Begin, BeginContext, CommitPageSnapshot, CommitExtension, CommitPageExtension,
       PublishPrefixAlias, Publish
<1>3. ASSUME NEW w \in Writers, Proceed(w) \/ BatchFails(w) \/ SyncRootFails(w) \/ Dies(w)
      PROVE  FALSE
  BY <1>3 DEF Proceed, SkipAlias, Stage, Barrier, Abort, Commit, LinkRoot, SyncRoot, Link,
       BatchFails, SyncRootFails, Dies
<1>4. CASE Maintain \/ Clear \/ SoleFails \/ \E n \in Files : Rots(n)
  BY <1>4 DEF Maintain, MaintainProceeds, MaintainBegin, MaintainRoots, MaintainRootBarrier, MaintainSegments,
       MaintainSegmentBarrier, MaintainChunks, MaintainEnd, Collect, Settle, Clear,
       ClearDir, ClearMark, ClearEnd, ClearFile, SoleFails, Rots
<1>5. CASE (\E c \in Contexts : InvalidateBegin(c)) \/ Invalidate \/ PowerFails
  BY <1>5 DEF InvalidateBegin, Invalidate, InvalidateChunk, InvalidateRoot, InvalidateCheck, PowerFails
<1>6. CASE ClearBegin BY <1>6 DEF ClearBegin, RootGuard, Nobody
<1> QED BY <1>1, <1>2, <1>3, <1>4, <1>5, <1>6 DEF Next, Environment, Files

LEMMA ModeStays == ASSUME [Next]_vars PROVE mode' = mode
<1>1. CASE UNCHANGED vars BY <1>1 DEF vars
<1>2. ASSUME NEW w \in Writers, Begin(w) PROVE mode' = mode
  BY <1>2 DEF Begin, BeginContext, CommitPageSnapshot, CommitExtension, CommitPageExtension,
       PublishPrefixAlias, Publish
<1>3. ASSUME NEW w \in Writers, Proceed(w) \/ BatchFails(w) \/ SyncRootFails(w) \/ Dies(w)
      PROVE  mode' = mode
  BY <1>3 DEF Proceed, SkipAlias, Stage, Barrier, Abort, Commit, LinkRoot, SyncRoot, Link,
       BatchFails, SyncRootFails, Dies
<1>4. CASE Maintain \/ ClearBegin \/ Clear \/ SoleFails \/ \E n \in Files : Rots(n)
  BY <1>4 DEF Maintain, MaintainProceeds, MaintainBegin, MaintainRoots, MaintainRootBarrier, MaintainSegments,
       MaintainSegmentBarrier, MaintainChunks, MaintainEnd, Collect, Settle, ClearBegin, Clear,
       ClearDir, ClearMark, ClearEnd, ClearFile, SoleFails, Rots
<1>5. CASE (\E c \in Contexts : InvalidateBegin(c)) \/ Invalidate \/ PowerFails
  BY <1>5 DEF InvalidateBegin, Invalidate, InvalidateChunk, InvalidateRoot, InvalidateCheck, PowerFails
<1> QED BY <1>1, <1>2, <1>3, <1>4, <1>5 DEF Next, Environment, Files

LEMMA WriterSteps ==
  ASSUME WriterTyped, [Next]_vars, NEW w \in Writers
  PROVE  \/ writer'[w] = writer[w] \/ writer'[w] = Resting
         \/ Begin(w) \/ Stage(w) \/ Barrier(w) \/ Commit(w) \/ LinkRoot(w) \/ SyncRoot(w)
         \/ BatchFails(w) \/ SyncRootFails(w)
         \/ \E n \in Objects : Link(w, n)
<1>1. CASE UNCHANGED vars BY <1>1 DEF vars
<1>2. ASSUME NEW x \in Writers, Begin(x) \/ Proceed(x) \/ BatchFails(x) \/ SyncRootFails(x) \/ Dies(x),
             x # w
      PROVE  writer'[w] = writer[w]
  BY <1>2, OthersStay
<1>3. ASSUME SkipAlias(w) \/ Abort(w) \/ Dies(w) PROVE writer'[w] = Resting
  BY <1>3 DEF SkipAlias, Abort, Dies, GivenUp, Given, WriterTyped
<1>4. CASE Maintain \/ ClearBegin \/ Clear \/ (\E c \in Contexts : InvalidateBegin(c)) \/ Invalidate
           \/ SoleFails \/ \E n \in Files : Rots(n)
  BY <1>4 DEF Maintain, MaintainProceeds, MaintainBegin, MaintainRoots, MaintainRootBarrier, MaintainSegments,
       MaintainSegmentBarrier, MaintainChunks, MaintainEnd, Collect, Settle, ClearBegin, Clear,
       ClearDir, ClearMark, ClearEnd, ClearFile, InvalidateBegin, Invalidate, InvalidateChunk,
       InvalidateRoot, InvalidateCheck, SoleFails, Rots
<1>5. CASE PowerFails BY <1>5 DEF PowerFails
<1> QED BY <1>1, <1>2, <1>3, <1>4, <1>5 DEF Next, Proceed, Environment, Files

LEMMA PromiseAside ==
  ASSUME Aside, era' = era, NEW p \in WriterType, Promise(p)
  PROVE  Promise(p)'
<1>1. Refs(p.body) \subseteq Objects BY ContentFacts DEF WriterType
<1>2. \A o \in Objects : AsIs(o) BY FilesAreNames DEF Aside
<1>3. lost' = lost BY DEF Aside, history
<1>4. p.batch \subseteq Objects BY DEF WriterType
<1>5. \A o \in Objects : Kept(o) => Kept(o)' BY <1>2, <1>3 DEF Kept, AsIs
<1>6. \A n \in p.batch \ p.staged : disk'[n] # Absent \/ n \in lost'
  BY <1>2, <1>3, <1>4 DEF Promise, AsIs
<1>7. \A o \in Refs(p.body) :
          \/ Kept(o)'
          \/ o \in p.need \ p.done
          \/ disk'[o] # Absent /\ \E m \in p.need \ p.done : m[1] = o[1]
  BY <1>1, <1>2, <1>5 DEF Promise, AsIs
<1> QED BY <1>6, <1>7 DEF Promise

\* An object that is there, or lost, stays so while somebody publishes.
LEMMA PresentStays ==
  ASSUME IInv, Moves, ~Fails, NEW w \in Writers, Holding(w), NEW o \in Objects,
         disk[o] # Absent \/ o \in lost
  PROVE  disk'[o] # Absent \/ o \in lost'
<1>0. o \in Files /\ ~Needless(o) /\ Shapes BY FilesAreNames DEF Needless, IInv
<1>1. CASE Aside BY <1>1, <1>0 DEF Aside, AsIs, history
<1>2. CASE \E x \in Objects : Linked(x)
  BY <1>2, <1>0, WrittenIsPresent DEF Linked, Shows, AsIs, history
<1>3. CASE \E x \in Writers : Rooted(x)
  BY <1>3, <1>0, WrittenIsPresent DEF Rooted, Shows, AsIs, history
<1>4. ASSUME NEW ds, Settles(ds) PROVE disk'[o] # Absent \/ o \in lost'
  BY <1>4, <1>0 DEF Settles, Settled, AsIs, Matches
<1>5. ASSUME NEW S, Unlinks(S) PROVE disk'[o] # Absent \/ o \in lost'
  BY <1>5, <1>0 DEF Unlinks, AsIs
<1>6. ASSUME NEW m \in Data, Removes(m) PROVE FALSE
  BY <1>6 DEF Removes, IInv, Shapes, Alone
<1>7. ASSUME NEW m \in Files, Spoils(m) PROVE disk'[o] # Absent \/ o \in lost'
  BY <1>7, <1>0, WrittenIsPresent DEF Spoils, AsIs
<1> QED BY <1>1, <1>2, <1>3, <1>4, <1>5, <1>6, <1>7 DEF Moves

\* What one publication relies on, every other actor respects.
LEMMA PromiseStays ==
  ASSUME IInv, Moves, ~Fails, era' = era, NEW w \in Writers, Holding(w),
         NEW p \in WriterType, Promise(p)
  PROVE  Promise(p)'
<1>1. Refs(p.body) \subseteq Objects BY ContentFacts DEF WriterType
<1>2. \A o \in Objects : ~Needless(o) BY DEF Needless
<1>3. \A o \in Objects : Kept(o) => Kept(o)' BY <1>2, KeptStays
<1>4. p.batch \subseteq Objects BY DEF WriterType
<1>5. \A o \in Objects : disk[o] # Absent \/ o \in lost => disk'[o] # Absent \/ o \in lost'
  BY PresentStays
<1>6. \A n \in p.batch \ p.staged : disk'[n] # Absent \/ n \in lost'
  BY <1>4, <1>5 DEF Promise
<1>7. \A o \in Refs(p.body) :
          \/ Kept(o)'
          \/ o \in p.need \ p.done
          \/ disk'[o] # Absent /\ \E m \in p.need \ p.done : m[1] = o[1]
  <2> SUFFICES ASSUME NEW o \in Refs(p.body), ~Kept(o)', o \notin p.need \ p.done
               PROVE  disk'[o] # Absent /\ \E m \in p.need \ p.done : m[1] = o[1]
    OBVIOUS
  <2>1. o \in Objects /\ ~Kept(o) /\ o \notin lost' BY <1>1, <1>3 DEF Kept
  <2>2. disk[o] # Absent /\ \E m \in p.need \ p.done : m[1] = o[1] BY <2>1 DEF Promise
  <2> QED BY <2>1, <2>2, <1>5
<1> QED BY <1>6, <1>7 DEF Promise

\* A publication begins with everything to do, or with objects that are there.
LEMMA BeginPromise ==
  ASSUME IInv, NEW w \in Writers, Begin(w)
  PROVE  /\ writer'[w] \in WriterType => \E p \in WriterType : p = writer'[w] /\ Promise(p)
         /\ mode = "rows" => Closed(writer'[w].body, writer'[w].root[2])
<1>0. Typed /\ WriterTyped /\ era \in 0 .. MaxRemovals BY DEF IInv, Shapes, Typed
<1> DEFINE P(root, body, need, retry) ==
              [Resting EXCEPT !.pc = "open", !.root = root, !.body = body, !.need = need, !.retry = retry]
<1>p. ASSUME NEW root, NEW x \in SUBSET Contexts, NEW y \in SUBSET Contexts, NEW need, NEW retry,
             Publish(w, root, File(x, y), need, retry),
             mode = "rows" => Closed(File(x, y), root[2]),
             \A o \in Refs(File(x, y)) :
                 Kept(o) \/ o \in need \/ (disk[o] # Absent /\ \E m \in need : m[1] = o[1])
      PROVE  /\ \E p : p = writer'[w] /\ Promise(p)
             /\ mode = "rows" => Closed(writer'[w].body, writer'[w].root[2])
  <2>1. writer'[w] = P(root, File(x, y), need, retry) BY <1>p, <1>0 DEF Publish, WriterTyped
  <2>2. PICK p : p = P(root, File(x, y), need, retry) OBVIOUS
  <2>3. /\ p.body = File(x, y) /\ p.need = need /\ p.done = {} /\ p.batch = {} /\ p.staged = {}
        /\ p.pc = "open" /\ p.root = root
    BY <2>2 DEF Resting
  <2> HIDE DEF P
  <2>4. p.body.era = era /\ p.body.ok BY <2>3, <1>0, FileFacts
  <2>5. \A o \in Refs(p.body) : \/ Kept(o)
                                \/ o \in p.need \ p.done
                                \/ disk[o] # Absent /\ \E m \in p.need \ p.done : m[1] = o[1]
    BY <2>3, <1>p
  <2>6. Promise(p) BY <2>3, <2>4, <2>5 DEF Promise
  <2>7. p = writer'[w] BY <2>1, <2>2
  <2> QED BY <2>3, <2>6, <2>7, <1>p
<1>f. \A x, y : Refs(File(x, y)) = ({"chunks"} \X x) \cup ({"prefix-index"} \X y)
  BY <1>0, FileFacts DEF Refs
<1>g. \A x, y : File(x, y).chunks = x BY <1>0, FileFacts
<1>h. /\ \A c \in Contexts : Prefix[c] \subseteq Contexts /\ c \in Prefix[c]
      /\ \A c \in Contexts : \A b \in Prefix[c] : Prefix[b] \subseteq Prefix[c]
  BY StoreConstants
<1> HIDE DEF P
<1>1. ASSUME NEW c \in Contexts, BeginContext(w, c)
      PROVE  (\E p : p = writer'[w] /\ Promise(p))
             /\ (mode = "rows" => Closed(writer'[w].body, writer'[w].root[2]))
  <2> DEFINE need == {"chunks"} \X Prefix[c]
  <2>1. Publish(w, <<"manifests", c>>, File(Prefix[c], {}), need, TRUE)
    BY <1>1 DEF BeginContext
  <2>2. Closed(File(Prefix[c], {}), <<"manifests", c>>[2]) BY <1>g, <1>h DEF Closed
  <2>3. \A o \in Refs(File(Prefix[c], {})) :
           Kept(o) \/ o \in need \/ (disk[o] # Absent /\ \E m \in need : m[1] = o[1])
    BY <1>f
  <2>4. PICK x \in SUBSET Contexts, y \in SUBSET Contexts : x = Prefix[c] /\ y = {} BY <1>h
  <2>5. PICK retry, root : retry = TRUE /\ root = <<"manifests", c>> OBVIOUS
  <2>6. Publish(w, root, File(x, y), need, retry) BY <2>1, <2>4, <2>5
  <2>7. Closed(File(x, y), root[2]) BY <2>2, <2>4, <2>5
  <2>8. \A o \in Refs(File(x, y)) :
           Kept(o) \/ o \in need \/ (disk[o] # Absent /\ \E m \in need : m[1] = o[1])
    BY <2>3, <2>4
  <2> HIDE DEF need
  <2> QED BY <2>6, <2>7, <2>8, <1>p
<1>2. ASSUME NEW c \in Contexts, CommitPageSnapshot(w, c)
      PROVE  (\E p : p = writer'[w] /\ Promise(p))
             /\ (mode = "rows" => Closed(writer'[w].body, writer'[w].root[2]))
  <2>1. Publish(w, <<"manifests", c>>, File({c}, {}), {<<"chunks", c>>}, FALSE) /\ mode # "rows"
    BY <1>2 DEF CommitPageSnapshot
  <2>2. \A o \in Refs(File({c}, {})) : o \in {<<"chunks", c>>} BY <1>f
  <2> QED BY <2>1, <2>2, <1>p
<1>3. ASSUME NEW b \in Contexts, NEW c \in Contexts, CommitExtension(w, b, c)
      PROVE  (\E p : p = writer'[w] /\ Promise(p))
             /\ (mode = "rows" => Closed(writer'[w].body, writer'[w].root[2]))
  <2> DEFINE reused == disk[RootOf(b)].chunks
             need == ({"prefix-index"} \X reused) \cup {<<"chunks", c>>}
  <2>1. Publish(w, <<"manifests", c>>, File(reused \cup {c}, reused), need, FALSE) /\ mode = "rows"
    BY <1>3 DEF CommitExtension
  <2>2. Hit(b, TRUE) /\ Prefix[c] = Prefix[b] \cup {c} BY <1>3 DEF CommitExtension, Extends
  <2>3. /\ RootOf(b) \in Roots /\ RootOf(b)[2] = b /\ reused \subseteq Contexts
        /\ \A u \in reused : disk[<<"chunks", u>>] # Absent
        /\ disk[RootOf(b)] # Absent
    <3>1. TRUE \in BOOLEAN OBVIOUS
    <3>2. disk[RootOf(b)] \in Contents BY <2>2, <3>1, <1>0, BaseIsThere
    <3> QED BY <2>2, <3>1, <3>2, <1>0, BaseIsThere, ContentFacts
  <2>4. disk[RootOf(b)] \in pend[RootOf(b)] BY <2>3, FilesAreNames, Shown1, <1>0
  <2>5. b \in reused /\ \A u \in reused : Prefix[u] \subseteq reused
    BY <2>1, <2>3, <2>4 DEF IInv, RowsClosed, Closed
  <2> HIDE DEF reused
  <2>6. Closed(File(reused \cup {c}, reused), <<"manifests", c>>[2])
    <3>1. Prefix[c] \subseteq reused \cup {c} BY <2>2, <2>5
    <3> QED BY <3>1, <2>5, <1>g DEF Closed
  <2>7. ASSUME NEW o \in Refs(File(reused \cup {c}, reused))
        PROVE  Kept(o) \/ o \in need \/ (disk[o] # Absent /\ \E m \in need : m[1] = o[1])
    <3>1. CASE o \in need BY <3>1
    <3>2. CASE o \in {"chunks"} \X reused
      <4>1. PICK u \in reused : o = <<"chunks", u>> BY <3>2
      <4>2. <<"chunks", c>> \in need /\ <<"chunks", c>>[1] = o[1] BY <4>1
      <4> QED BY <4>1, <4>2, <2>3
    <3> QED BY <3>1, <3>2, <1>f
  <2>8. PICK x \in SUBSET Contexts, y \in SUBSET Contexts : x = reused \cup {c} /\ y = reused BY <2>3
  <2>9. PICK retry, root : retry = FALSE /\ root = <<"manifests", c>> OBVIOUS
  <2>10. Publish(w, root, File(x, y), need, retry) BY <2>1, <2>8, <2>9
  <2>11. Closed(File(x, y), root[2]) BY <2>6, <2>8, <2>9
  <2>12. \A o \in Refs(File(x, y)) :
            Kept(o) \/ o \in need \/ (disk[o] # Absent /\ \E m \in need : m[1] = o[1])
    BY <2>7, <2>8
  <2> HIDE DEF need
  <2> QED BY <2>10, <2>11, <2>12, <1>p
<1>4. ASSUME NEW b \in Contexts, NEW c \in Contexts, CommitPageExtension(w, b, c)
      PROVE  (\E p : p = writer'[w] /\ Promise(p))
             /\ (mode = "rows" => Closed(writer'[w].body, writer'[w].root[2]))
  <2> DEFINE reused == disk[RootOf(b)].chunks
             need == {<<"chunks", c>>}
  <2>1. Publish(w, <<"manifests", c>>, File(reused \cup {c}, {}), need, FALSE) /\ mode # "rows"
    BY <1>4 DEF CommitPageExtension
  <2>2. Hit(b, FALSE) BY <1>4 DEF CommitPageExtension
  <2>3. reused \subseteq Contexts /\ \A u \in reused : disk[<<"chunks", u>>] # Absent
    BY <2>2, <1>0, BaseIsThere
  <2> HIDE DEF reused
  <2>7. ASSUME NEW o \in Refs(File(reused \cup {c}, {}))
        PROVE  Kept(o) \/ o \in need \/ (disk[o] # Absent /\ \E m \in need : m[1] = o[1])
    <3>1. PICK u \in reused \cup {c} : o = <<"chunks", u>> BY <1>f
    <3>2. <<"chunks", c>> \in need /\ <<"chunks", c>>[1] = o[1] BY <3>1
    <3> QED BY <3>1, <3>2, <2>3
  <2>8. PICK x \in SUBSET Contexts, y \in SUBSET Contexts : x = reused \cup {c} /\ y = {} BY <2>3
  <2>9. PICK retry, root : retry = FALSE /\ root = <<"manifests", c>> OBVIOUS
  <2>10. Publish(w, root, File(x, y), need, retry) BY <2>1, <2>8, <2>9
  <2>11. mode = "rows" => Closed(File(x, y), root[2]) BY <2>1
  <2>12. \A o \in Refs(File(x, y)) :
            Kept(o) \/ o \in need \/ (disk[o] # Absent /\ \E m \in need : m[1] = o[1])
    BY <2>7, <2>8
  <2> HIDE DEF need
  <2> QED BY <2>10, <2>11, <2>12, <1>p
<1>5. ASSUME NEW b \in Contexts, PublishPrefixAlias(w, b)
      PROVE  (\E p : p = writer'[w] /\ Promise(p))
             /\ (mode = "rows" => Closed(writer'[w].body, writer'[w].root[2]))
  <2> DEFINE n == writer[w].root
             need == {"prefix-index"} \X Prefix[b]
  <2>1. /\ writer[w].pc = "committed" /\ mode = "rows" /\ disk[n] # Absent /\ disk[n].ok
        /\ b \in disk[n].chunks
        /\ Publish(w, <<"prefix-aliases", b>>, File(Prefix[b], Prefix[b]),
                   need, FALSE)
    BY <1>5 DEF PublishPrefixAlias, Resolves
  <2>2. n \in Roots BY <2>1, <1>0 DEF WriterTyped
  <2>3. WholeAt(n) BY <2>1 DEF IInv, LinkedHold
  <2>4. Prefix[b] \subseteq disk[n].chunks
    BY <2>1, <2>2, FilesAreNames, Shown1, <1>0 DEF IInv, RowsClosed, Closed
  <2>5. ASSUME NEW o \in Refs(File(Prefix[b], Prefix[b]))
        PROVE  Kept(o) \/ o \in need \/ (disk[o] # Absent /\ \E m \in need : m[1] = o[1])
    <3>1. CASE o \in {"chunks"} \X Prefix[b]
      <4>1. o \in Refs(disk[n]) BY <3>1, <2>4 DEF Refs
      <4> QED BY <4>1, <2>1, <2>3 DEF WholeAt
    <3> QED BY <3>1, <1>f
  <2>6. Closed(File(Prefix[b], Prefix[b]), <<"prefix-aliases", b>>[2]) BY <1>g, <1>h DEF Closed
  <2>7. Prefix[b] \in SUBSET Contexts BY <1>h
  <2>8. Publish(w, <<"prefix-aliases", b>>, File(Prefix[b], Prefix[b]), need, FALSE) BY <2>1
  <2> HIDE DEF n, need
  <2>9. \A o \in Refs(File(Prefix[b], Prefix[b])) :
           Kept(o) \/ o \in need \/ (disk[o] # Absent /\ \E m \in need : m[1] = o[1])
    BY <2>5
  <2> QED BY <2>6, <2>7, <2>8, <2>9, <1>p
<1> QED BY <1>1, <1>2, <1>3, <1>4, <1>5 DEF Begin

\* What a publication still has to do, after each of its own steps.
LEMMA PromisesNext ==
  ASSUME IInv, Moves, [Next]_vars, WriterTyped'
  PROVE  Promises'
<1> USE DEF Holding
<1>0. Typed /\ WriterTyped /\ Shapes BY DEF IInv, Shapes
<1> SUFFICES ASSUME NEW w \in Writers, Holding(w)' PROVE Promise(writer[w])' BY DEF Promises
<1>t. writer[w] \in WriterType /\ writer'[w] \in WriterType /\ writer'[w] # Resting
  BY <1>0, RestIsTyped DEF WriterTyped
<1>f. ~Fails BY <1>t DEF Fails
<1>e. CASE era' # era BY <1>e, EraStays
<1> SUFFICES ASSUME era' = era PROVE Promise(writer[w])' BY <1>e
<1>p. PICK p \in WriterType : p = writer[w] BY <1>t
<1>q. PICK q \in WriterType : q = writer'[w] BY <1>t
<1>g. ASSUME Promise(q)' PROVE Promise(writer[w])' BY <1>g, <1>q DEF Promise
<1>h. Holding(w) => Promise(p) BY <1>p DEF IInv, Promises
<1>s. ASSUME Promise(q), Holding(w) PROVE Promise(q)' BY <1>s, <1>f, PromiseStays
<1>1. CASE writer'[w] = writer[w]
  <2>1. Holding(w) /\ q = p BY <1>1, <1>p, <1>q
  <2> QED BY <2>1, <1>h, <1>s, <1>g
<1>2. CASE Begin(w)
  <2>1. Promise(q) BY <1>2, <1>q, <1>t, BeginPromise
  <2> QED BY <2>1, <1>2, <1>g, BeginAside, PromiseAside
<1>3. CASE Stage(w)
  <2>1. Holding(w) /\ p.pc = "open" BY <1>3, <1>p DEF Stage
  <2>2. q = [p EXCEPT !.pc = "link", !.batch = NextBatch(p),
                      !.staged = {n \in NextBatch(p) : ~Matches(n, Plain)}]
    BY <1>3, <1>p, <1>q, <1>0 DEF Stage, WriterTyped, WriterType
  <2>3. NextBatch(p) \subseteq p.need \ p.done BY DEF NextBatch
  <2>4. /\ q.body = p.body /\ q.need = p.need /\ q.done = p.done /\ q.pc = "link"
        /\ q.batch = NextBatch(p) /\ q.staged = {n \in NextBatch(p) : ~Matches(n, Plain)}
    BY <2>2 DEF WriterType
  <2>5. Promise(q) BY <2>1, <2>3, <2>4, <1>h DEF Promise, Matches
  <2> QED BY <2>1, <2>5, <1>s, <1>g
<1>4. CASE Commit(w)
  <2>1. Holding(w) /\ p.need = p.done /\ p.batch \subseteq p.need \ p.done
    BY <1>4, <1>p, <1>h DEF Commit, Promise
  <2>2. /\ q.body = p.body /\ q.need = p.need /\ q.done = p.done
        /\ q.batch = p.batch /\ q.staged = p.staged
    BY <1>4, <1>p, <1>q, <1>0 DEF Commit, Given, WriterTyped, WriterType
  <2>3. Promise(q) BY <2>1, <2>2, <1>h DEF Promise
  <2> QED BY <2>1, <2>3, <1>s, <1>g
<1>5. CASE LinkRoot(w)
  <2>1. Holding(w) /\ p.pc = "root" BY <1>5, <1>p DEF LinkRoot
  <2>2. q = [p EXCEPT !.pc = "sync"]
    BY <1>5, <1>p, <1>q, <1>t, <1>0 DEF LinkRoot, Given, GivenUp, WriterTyped
  <2>3. /\ q.body = p.body /\ q.need = p.need /\ q.done = p.done
        /\ q.batch = p.batch /\ q.staged = p.staged
    BY <2>2 DEF WriterType
  <2>4. Promise(q) BY <2>1, <2>3, <1>h DEF Promise
  <2> QED BY <2>1, <2>4, <1>s, <1>g
<1>6. CASE BatchFails(w) \/ SyncRootFails(w)
  <2>1. Holding(w) BY <1>6 DEF BatchFails, SyncRootFails
  <2>2. q = [p EXCEPT !.pc = "open", !.batch = {}, !.staged = {}]
    BY <1>6, <1>p, <1>q, <1>t, <1>0 DEF BatchFails, SyncRootFails, Failed, Given, WriterTyped
  <2>3. /\ q.body = p.body /\ q.need = p.need /\ q.done = p.done
        /\ q.batch = {} /\ q.staged = {} /\ q.pc = "open"
    BY <2>2 DEF WriterType
  <2>4. Promise(q) BY <2>1, <2>3, <1>h DEF Promise
  <2> QED BY <2>1, <2>4, <1>s, <1>g
<1>7. CASE \E n \in Objects : Link(w, n)
  <2>0. PICK n \in Objects : Link(w, n) BY <1>7
  <2>1. Holding(w) /\ p.pc = "link" BY <2>0, <1>p DEF Link
  <2>2. q = [p EXCEPT !.staged = @ \ {n}] BY <2>0, <1>p, <1>q, <1>0 DEF Link, WriterTyped
  <2>3. /\ q.body = p.body /\ q.need = p.need /\ q.done = p.done /\ q.pc = p.pc
        /\ q.batch = p.batch /\ q.staged = p.staged \ {n}
    BY <2>2 DEF WriterType
  <2>4. Promise(p)' BY <2>1, <1>f, <1>h, PromiseStays
  <2>5. disk'[n] # Absent
    <3>1. n \in Names BY FilesAreNames
    <3>2. FileSystem /\ Plain \in Entry BY <1>0, TypedFileSystem, FileFacts DEF Typed, Entry
    <3>3. disk'[n] = Plain \/ (disk'[n] = disk[n] /\ Matches(n, Plain))
      BY <2>0, <3>1, <3>2, PutAt DEF Link, Shows, AsIs
    <3> QED BY <3>3, <1>0, WrittenIsPresent DEF Matches
  <2>6. Promise(q)' BY <2>3, <2>4, <2>5 DEF Promise
  <2> QED BY <2>6, <1>g
<1>8. CASE Barrier(w)
  <2>1. Holding(w) /\ p.pc = "link" /\ p.staged = {} BY <1>8, <1>p DEF Barrier
  <2>2. q = [p EXCEPT !.pc = "open", !.done = @ \cup p.batch, !.batch = {}]
    BY <1>8, <1>p, <1>q, <1>0 DEF Barrier, WriterTyped, WriterType
  <2>3. /\ q.body = p.body /\ q.need = p.need /\ q.done = p.done \cup p.batch /\ q.pc = "open"
        /\ q.batch = {} /\ q.staged = {}
    BY <2>1, <2>2 DEF WriterType
  <2>4. Promise(p)' BY <2>1, <1>f, <1>h, PromiseStays
  <2> DEFINE ds == DirsOf(p.batch)
  <2>5. Settles(ds) BY <1>8, <1>0, <1>p, BarrierSettles
  <2>6. \A n \in p.batch : n[1] \in ds BY DEF DirsOf
  <2>7. \A d \in ds : \E n \in p.batch : n[1] = d BY DEF DirsOf
  <2> HIDE DEF ds
  <2>8. ASSUME NEW o \in Objects, o[1] \in ds, disk'[o] # Absent PROVE Kept(o)'
    BY <2>5, <2>8, FilesAreNames DEF Settles, Settled, Kept
  <2>9. \A o \in p.batch : disk'[o] # Absent \/ o \in lost' BY <2>1, <2>4 DEF Promise
  <2>10. \A o \in p.batch : Kept(o)' BY <2>6, <2>8, <2>9 DEF Kept, WriterType
  <2>11. ASSUME NEW o \in Refs(p.body)
         PROVE  \/ Kept(o)' \/ o \in q.need \ q.done
                \/ (disk'[o] # Absent /\ \E m \in q.need \ q.done : m[1] = o[1])
    <3>1. o \in Objects BY ContentFacts DEF WriterType
    <3>2. CASE Kept(o)' BY <3>2
    <3>3. CASE o \in p.need \ p.done BY <3>3, <2>3, <2>10
    <3>4. ASSUME disk'[o] # Absent, NEW m \in p.need \ p.done, m[1] = o[1]
          PROVE  Kept(o)' \/ (disk'[o] # Absent /\ \E k \in q.need \ q.done : k[1] = o[1])
      <4>1. CASE m \in p.batch BY <4>1, <3>1, <3>4, <2>6, <2>8
      <4>2. CASE m \notin p.batch BY <4>2, <3>4, <2>3
      <4> QED BY <4>1, <4>2
    <3> QED BY <2>4, <3>2, <3>3, <3>4 DEF Promise
  <2>12. Promise(q)' BY <2>3, <2>4, <2>11 DEF Promise
  <2> QED BY <2>12, <1>g
<1>9. CASE SyncRoot(w)
  <2>1. writer'[w].pc \in {"idle", "committed"}
    BY <1>9, <1>0 DEF SyncRoot, Given, WriterTyped, Resting
  <2> QED BY <2>1
<1> QED BY <1>0, <1>t, <1>1, <1>2, <1>3, <1>4, <1>5, <1>6, <1>7, <1>8, <1>9, WriterSteps

LEMMA BodiesClosedNext ==
  ASSUME IInv, [Next]_vars, WriterTyped'
  PROVE  BodiesClosed'
<1> USE DEF Holding
<1>0. WriterTyped BY DEF IInv, Shapes
<1>m. mode' = mode BY ModeStays
<1> SUFFICES ASSUME mode = "rows", NEW w \in Writers, Holding(w)'
             PROVE  Closed(writer'[w].body, writer'[w].root[2])
  BY <1>m DEF BodiesClosed, Closed
<1>t. writer[w] \in WriterType /\ writer'[w] \in WriterType /\ writer'[w] # Resting
  BY <1>0, RestIsTyped DEF WriterTyped
<1>1. CASE Begin(w) BY <1>1, BeginPromise
<1>2. ASSUME Holding(w), writer'[w].body = writer[w].body, writer'[w].root = writer[w].root
      PROVE  Closed(writer'[w].body, writer'[w].root[2])
  BY <1>2 DEF IInv, BodiesClosed
<1>3. CASE writer'[w] = writer[w] BY <1>2, <1>3
<1>4. CASE Stage(w) BY <1>2, <1>4, <1>t, <1>0 DEF Stage, WriterTyped, WriterType
<1>5. CASE Commit(w) BY <1>2, <1>5, <1>t, <1>0 DEF Commit, Given, WriterTyped, WriterType
<1>6. CASE LinkRoot(w)
  <2>1. writer'[w] = [writer[w] EXCEPT !.pc = "sync"]
    BY <1>6, <1>t, <1>0 DEF LinkRoot, Given, GivenUp, WriterTyped
  <2> QED BY <2>1, <1>2, <1>6, <1>t DEF LinkRoot, WriterType
<1>7. CASE BatchFails(w) \/ SyncRootFails(w)
  <2>1. writer'[w] = [writer[w] EXCEPT !.pc = "open", !.batch = {}, !.staged = {}]
    BY <1>7, <1>t, <1>0 DEF BatchFails, SyncRootFails, Failed, Given, WriterTyped
  <2> QED BY <2>1, <1>2, <1>7, <1>t DEF BatchFails, SyncRootFails, WriterType
<1>8. CASE \E n \in Objects : Link(w, n) BY <1>2, <1>8, <1>t, <1>0 DEF Link, WriterTyped, WriterType
<1>9. CASE Barrier(w) BY <1>2, <1>9, <1>t, <1>0 DEF Barrier, WriterTyped, WriterType
<1>10. CASE SyncRoot(w)
  <2>1. writer'[w].pc \in {"idle", "committed"}
    BY <1>10, <1>0 DEF SyncRoot, Given, WriterTyped, Resting
  <2> QED BY <2>1
<1> QED BY <1>0, <1>t, <1>1, <1>3, <1>4, <1>5, <1>6, <1>7, <1>8, <1>9, <1>10, WriterSteps

\* A root that equals the body of a publication with nothing left to do is whole.
LEMMA MatchIsWhole ==
  ASSUME IInv, NEW w \in Writers, Holding(w), writer[w].need \subseteq writer[w].done,
         Matches(writer[w].root, writer[w].body)
  PROVE  WholeAt(writer[w].root)
<1>1. Refs(disk[writer[w].root]) = Refs(writer[w].body) BY DEF Matches, Same, Refs
<1>2. Promise(writer[w]) BY DEF IInv, Promises
<1> QED BY <1>1, <1>2 DEF WholeAt, Promise

LEMMA LinkedHoldNext ==
  ASSUME IInv, Moves, [Next]_vars, WriterTyped'
  PROVE  LinkedHold'
<1>0. WriterTyped BY DEF IInv, Shapes
<1> SUFFICES ASSUME NEW w \in Writers, writer'[w].pc \in {"sync", "committed"}
             PROVE  WholeAt(writer[w].root)'
  BY DEF LinkedHold
<1>t. writer[w] \in WriterType /\ writer'[w] \in WriterType /\ writer'[w] # Resting
  BY <1>0, RestIsTyped DEF WriterTyped
<1>f. ~Fails BY <1>t DEF Fails
<1>r. PICK n \in Roots : n = writer'[w].root BY DEF WriterTyped
<1>g. ASSUME WholeAt(n) PROVE WholeAt(writer[w].root)'
  <2>1. WholeAt(n)' BY <1>g, <1>f, WholeStays
  <2> QED BY <2>1, <1>r DEF WholeAt
<1>1. CASE writer'[w] = writer[w]
  <2>1. WholeAt(n) BY <1>1, <1>r DEF IInv, LinkedHold
  <2> QED BY <2>1, <1>g
<1>2. CASE Commit(w)
  <2>1. Matches(writer[w].root, writer[w].body) /\ writer'[w].root = writer[w].root
    BY <1>2, <1>t, <1>0 DEF Commit, Given, WriterTyped, WriterType
  <2>2. Holding(w) /\ writer[w].need \subseteq writer[w].done BY <1>2 DEF Commit, Holding
  <2>3. WholeAt(n) BY <2>1, <2>2, <1>r, MatchIsWhole
  <2> QED BY <2>3, <1>g
<1>3. CASE LinkRoot(w)
  <2>1. /\ writer[w].pc = "root" /\ writer'[w].root = writer[w].root
        /\ disk[writer[w].root] = Absent \/ Matches(writer[w].root, writer[w].body)
    BY <1>3, <1>t, <1>0 DEF LinkRoot, Given, GivenUp, WriterTyped, WriterType
  <2>2. Holding(w) /\ writer[w].need \subseteq writer[w].done
    BY <2>1 DEF Holding, IInv, Promises, Promise
  <2>3. WholeAt(n) BY <2>1, <2>2, <1>r, MatchIsWhole DEF WholeAt
  <2> QED BY <2>3, <1>g
<1>4. CASE SyncRoot(w)
  <2>1. writer[w].pc = "sync" /\ writer'[w].root = writer[w].root
    BY <1>4, <1>t, <1>0 DEF SyncRoot, Given, WriterTyped, Resting
  <2>2. WholeAt(n) BY <2>1, <1>r DEF IInv, LinkedHold
  <2> QED BY <2>2, <1>g
<1>5. CASE Begin(w)
  <2>1. writer'[w].pc = "open"
    <3>1. ASSUME NEW root, NEW body, NEW need, NEW retry, Publish(w, root, body, need, retry)
          PROVE  writer'[w].pc = "open"
      <4>1. writer'[w] = [Resting EXCEPT !.pc = "open", !.root = root, !.body = body,
                                         !.need = need, !.retry = retry]
        BY <3>1, <1>0 DEF Publish, WriterTyped
      <4> QED BY <4>1 DEF Resting
    <3>2. (\E c \in Contexts : BeginContext(w, c)) => writer'[w].pc = "open"
      BY <3>1 DEF BeginContext
    <3>3. (\E c \in Contexts : CommitPageSnapshot(w, c)) => writer'[w].pc = "open"
      BY <3>1 DEF CommitPageSnapshot
    <3>4. (\E b, c \in Contexts : CommitExtension(w, b, c)) => writer'[w].pc = "open"
      BY <3>1 DEF CommitExtension
    <3>5. (\E b, c \in Contexts : CommitPageExtension(w, b, c)) => writer'[w].pc = "open"
      BY <3>1 DEF CommitPageExtension
    <3>6. (\E b \in Contexts : PublishPrefixAlias(w, b)) => writer'[w].pc = "open"
      BY <3>1 DEF PublishPrefixAlias
    <3> QED BY <1>5, <3>2, <3>3, <3>4, <3>5, <3>6 DEF Begin
  <2> QED BY <2>1
<1>6. CASE Stage(w) BY <1>6, <1>t, <1>0 DEF Stage, WriterTyped, WriterType
<1>7. CASE Barrier(w) BY <1>7, <1>t, <1>0 DEF Barrier, WriterTyped, WriterType
<1>8. CASE \E x \in Objects : Link(w, x) BY <1>8, <1>t, <1>0 DEF Link, WriterTyped, WriterType
<1>9. CASE BatchFails(w) \/ SyncRootFails(w)
  <2>1. writer'[w] = [writer[w] EXCEPT !.pc = "open", !.batch = {}, !.staged = {}]
    BY <1>9, <1>t, <1>0 DEF BatchFails, SyncRootFails, Failed, Given, WriterTyped
  <2> QED BY <2>1, <1>t DEF WriterType
<1> QED BY <1>0, <1>t, <1>1, <1>2, <1>3, <1>4, <1>5, <1>6, <1>7, <1>8, <1>9, WriterSteps

-----------------------------------------------------------------------------
(* Maintenance and clears. *)

\* What may happen beside the holder of the exclusive guard.
Beside ==
    \/ UNCHANGED vars
    \/ \E w \in Writers : SkipAlias(w)
    \/ (\E c \in Contexts : InvalidateBegin(c)) \/ Invalidate
    \/ \E n \in Files : Rots(n)

LEMMA HolderSteps ==
  ASSUME WriterTyped, Alone, [Next]_vars, sole.pc # "idle"
  PROVE  Beside \/ (Maintain /\ ~MaintainBegin) \/ Clear \/ SoleFails \/ PowerFails
<1>0. \A w \in Writers : ~Holding(w) BY DEF Alone
<1>1. ASSUME NEW w \in Writers, Begin(w) PROVE FALSE
  BY <1>1 DEF Begin, BeginContext, CommitPageSnapshot, CommitExtension, CommitPageExtension,
       PublishPrefixAlias, Publish, SharedGuard
<1>2. ASSUME NEW w \in Writers, Proceed(w) \/ BatchFails(w) \/ SyncRootFails(w) \/ Dies(w),
             ~SkipAlias(w)
      PROVE  Holding(w)
  BY <1>2 DEF Proceed, Stage, Barrier, Abort, Commit, LinkRoot, SyncRoot, Link, BatchFails,
       SyncRootFails, Dies, Holding
<1>3. ~ClearBegin /\ ~MaintainBegin BY DEF ClearBegin, MaintainBegin, RootGuard
<1> QED BY <1>0, <1>1, <1>2, <1>3 DEF Next, Environment, Beside, Files

LEMMA BesideSole == Beside => sole' = sole
BY DEF Beside, vars, SkipAlias, InvalidateBegin, Invalidate, InvalidateChunk, InvalidateRoot,
   InvalidateCheck, Rots

LEMMA BesideMoves ==
  ASSUME IInv, Beside
  PROVE  \/ Aside
         \/ \E S : Unlinks(S) /\ \A o \in S \cap Objects : disk[o] # Absent => o \in lost'
         \/ \E m \in Files : Spoils(m)
<1>0. Shapes /\ Plainly BY DEF IInv
<1>1. CASE UNCHANGED vars \/ (\E w \in Writers : SkipAlias(w)) \/ \E c \in Contexts : InvalidateBegin(c)
  BY <1>1, QuietAside
<1>2. CASE Invalidate BY <1>2, <1>0, QuietAside, InvalidateUnlinks DEF Invalidate
<1>3. CASE \E n \in Files : Rots(n) BY <1>3, <1>0, RotsSpoils
<1> QED BY <1>1, <1>2, <1>3 DEF Beside

LEMMA SeenBeside ==
  ASSUME IInv, Beside
  PROVE  SeenRoots' /\ SeenObjects'
<1>0. sole' = sole /\ Shapes BY BesideSole DEF IInv
<1> SUFFICES ASSUME InPass PROVE SeenRoots' /\ SeenObjects'
  BY <1>0 DEF SeenRoots, SeenObjects, InPass
<1>1. Remaining' = Remaining BY <1>0 DEF Remaining, Entries
<1>2. ASSUME NEW n \in Roots
      PROVE  /\ disk'[n] # Absent => /\ disk[n] # Absent
                                     /\ disk'[n].chunks = disk[n].chunks
                                     /\ disk'[n].index = disk[n].index
             /\ disk[n] # Absent => disk'[n] # Absent \/ n \in loose'
             /\ n \in loose => n \in loose'
  <2>0. n \in Files BY FilesAreNames
  <2>1. CASE Aside BY <2>0, <2>1 DEF Aside, AsIs, history
  <2>2. ASSUME NEW S, Unlinks(S)
        PROVE  /\ disk'[n] # Absent => disk'[n] = disk[n]
               /\ disk[n] # Absent => disk'[n] # Absent \/ n \in loose'
               /\ n \in loose => n \in loose'
    BY <2>0, <2>2 DEF Unlinks, Shows, AsIs
  <2>3. ASSUME NEW m \in Files, Spoils(m)
        PROVE  /\ disk'[n] # Absent => /\ disk[n] # Absent
                                       /\ disk'[n].chunks = disk[n].chunks
                                       /\ disk'[n].index = disk[n].index
               /\ disk[n] # Absent => disk'[n] # Absent \/ n \in loose'
               /\ n \in loose => n \in loose'
    <3>1. CASE n # m BY <2>0, <2>3, <3>1 DEF Spoils, AsIs
    <3>2. CASE n = m
      <4>1. disk[n] \in Contents BY <2>3, <3>2, <1>0, Shown1 DEF Spoils, Shapes
      <4>2. disk'[n] = [disk[n] EXCEPT !.ok = FALSE] /\ disk[n] # Absent /\ loose' = loose
        BY <2>3, <3>2 DEF Spoils
      <4>3. disk'[n] # Absent BY <4>2, <2>0, <1>0, WrittenIsPresent
      <4>4. disk'[n].chunks = disk[n].chunks /\ disk'[n].index = disk[n].index
        BY <4>1, <4>2 DEF Contents
      <4> QED BY <4>2, <4>3, <4>4
    <3> QED BY <3>1, <3>2
  <2> QED BY <2>1, <2>2, <2>3, BesideMoves
<1>3. ASSUME NEW o \in Objects, disk[o] # Absent \/ o \in lost PROVE disk'[o] # Absent \/ o \in lost'
  <2>0. o \in Files BY FilesAreNames
  <2>1. CASE Aside BY <1>3, <2>0, <2>1 DEF Aside, AsIs, history
  <2>2. ASSUME NEW S, Unlinks(S), \A x \in S \cap Objects : disk[x] # Absent => x \in lost'
        PROVE  disk'[o] # Absent \/ o \in lost'
    BY <1>3, <2>0, <2>2 DEF Unlinks, Shows, AsIs
  <2>3. ASSUME NEW m \in Files, Spoils(m) PROVE disk'[o] # Absent \/ o \in lost'
    BY <1>0, <1>3, <2>0, <2>3, WrittenIsPresent DEF Spoils, AsIs
  <2> QED BY <2>1, <2>2, <2>3, BesideMoves
<1>4. SeenRoots'
  <2>1. sole.chosen \subseteq Roots BY <1>0 DEF Shapes, SoleTyped
  <2>2. sole.pc # "roots" => \A n \in sole.chosen : disk'[n] = Absent
    BY <2>1, <1>2 DEF IInv, SeenRoots
  <2>3. \A n \in Roots : disk'[n] # Absent => /\ sole.seen[n] # Absent
                                              /\ sole.seen[n].chunks = disk'[n].chunks
                                              /\ sole.seen[n].index = disk'[n].index
    BY <1>2 DEF IInv, SeenRoots
  <2>4. \A n \in Roots : sole.seen[n] # Absent =>
          n \in loose' \/ disk'[n] # Absent \/ (sole.pc # "roots" /\ n \in sole.chosen)
    BY <1>2 DEF IInv, SeenRoots
  <2>5. \A n \in sole.gone \cap Roots : disk'[n] = Absent /\ n \notin Remaining
    BY <1>2 DEF IInv, SeenRoots
  <2>6. sole.seen \in [Names -> Entry] /\ sole.gone \subseteq Data BY DEF IInv, SeenRoots
  <2> QED BY <1>0, <1>1, <2>2, <2>3, <2>4, <2>5, <2>6 DEF SeenRoots
<1>5. SeenObjects' BY <1>0, <1>1, <1>3 DEF IInv, SeenObjects
<1> QED BY <1>4, <1>5

\* A barrier changes nothing that is shown; the roots it settles are gone.
LEMMA SeenSettle ==
  ASSUME IInv, InPass, NEW next \in {"segments", "chunks"}, Settle(next), sole.pc # "roots"
  PROVE  SeenRoots' /\ SeenObjects'
<1>1. /\ sole'.pc = next /\ sole'.seen = sole.seen /\ sole'.chosen = sole.chosen /\ sole'.gone = {}
      /\ disk' = disk /\ lost' = lost /\ loose' = loose \ sole.gone
  BY DEF Settle, Sync, IInv, Shapes, SoleTyped
<1>2. Remaining' = Remaining BY <1>1 DEF Remaining, Entries
<1>3. InPass' BY <1>1 DEF InPass
<1>4. \A n \in Roots : sole.seen[n] # Absent =>
          n \in loose' \/ disk[n] # Absent \/ n \in sole.chosen
  <2> SUFFICES ASSUME NEW n \in Roots, sole.seen[n] # Absent, n \in loose, n \in sole.gone
               PROVE  n \in sole.chosen
    BY <1>1 DEF IInv, SeenRoots
  <2> QED BY DEF IInv, SeenRoots, Remaining, Entries
<1>5. SeenRoots' BY <1>1, <1>3, <1>4 DEF IInv, SeenRoots
<1>6. SeenObjects' BY <1>1, <1>2 DEF IInv, SeenObjects
<1> QED BY <1>5, <1>6

LEMMA SeenCollectRoots ==
  ASSUME IInv, MaintainRoots
  PROVE  SeenRoots' /\ SeenObjects'
<1> DEFINE S == Debris(sole.seen) \cup sole.chosen
<1>0. S \cap Objects = {} /\ S \subseteq Data /\ Debris(sole.seen) \cap Entries(sole.seen) = {}
  BY NameFacts DEF Debris, Orphans, Visible, RootDirs, IInv, Shapes, SoleTyped
<1>1. InPass /\ sole.pc = "roots" BY DEF MaintainRoots, InPass
<1>2. Collect(S, Debris(sole.seen), "rootsync") BY DEF MaintainRoots
<1> HIDE DEF S
<1>3. /\ Unlinks(sole'.gone) /\ sole'.gone \subseteq S
      /\ sole'.pc = "rootsync" /\ sole'.seen = sole.seen
      /\ sole'.chosen = sole.chosen \cap sole'.gone
  BY <1>0, <1>1, <1>2, CollectUnlinks
<1> USE DEF S
<1>4. ASSUME NEW n \in Files
      PROVE  IF n \in sole'.gone THEN disk'[n] = Absent ELSE disk'[n] = disk[n]
  BY <1>3 DEF Unlinks, Shows, AsIs
<1>5. loose' = loose \cup (sole'.gone \cap Roots) /\ lost \subseteq lost' BY <1>3 DEF Unlinks
<1>6. sole.chosen \subseteq Roots BY DEF IInv, Shapes, SoleTyped
<1>7. SeenRoots'
  <2>1. sole.seen \in [Names -> Entry] BY <1>1 DEF IInv, SeenRoots
  <2>2. \A n \in Roots : disk'[n] # Absent => /\ sole.seen[n] # Absent
                                              /\ sole.seen[n].chunks = disk'[n].chunks
                                              /\ sole.seen[n].index = disk'[n].index
    BY <1>1, <1>4, FilesAreNames DEF IInv, SeenRoots
  <2>3. \A n \in sole'.chosen : disk'[n] = Absent BY <1>3, <1>4, <1>6, FilesAreNames
  <2>4. \A n \in Roots : sole.seen[n] # Absent =>
          n \in loose' \/ disk'[n] # Absent \/ n \in sole'.chosen
    BY <1>1, <1>4, <1>5, FilesAreNames DEF IInv, SeenRoots
  <2>5. \A n \in sole'.gone \cap Roots : disk'[n] = Absent BY <1>4, FilesAreNames
  <2>6. \A n \in sole'.gone \cap Roots : n \notin Remaining'
    BY <1>0, <1>3 DEF Remaining, Entries
  <2>7. sole'.gone \subseteq Data BY <1>0, <1>3
  <2> QED BY <1>3, <2>1, <2>2, <2>3, <2>4, <2>5, <2>6, <2>7 DEF SeenRoots
<1>8. SeenObjects'
  <2> SUFFICES ASSUME NEW o \in Objects, sole.seen[o] # Absent PROVE disk'[o] # Absent \/ o \in lost'
    BY <1>3 DEF SeenObjects
  <2>1. o \in Files /\ o \notin sole'.gone BY <1>0, <1>3, FilesAreNames
  <2>2. disk[o] # Absent \/ o \in lost BY <1>1 DEF IInv, SeenObjects
  <2> QED BY <2>1, <2>2, <1>4, <1>5
<1> QED BY <1>7, <1>8

LEMMA SeenCollectObjects ==
  ASSUME IInv, NEW dir \in {"prefix-index", "chunks"}, NEW next \in {"segmentsync", "chunksync"},
         InPass, sole.pc # "roots", Collect(Unreferenced(dir), {}, next)
  PROVE  SeenRoots' /\ SeenObjects'
<1> DEFINE S == Unreferenced(dir)
<1>0. /\ S \cap Roots = {} /\ S \subseteq Data
      /\ \A o \in S : o \notin ReferencedBy(sole.seen, Remaining)
  BY DEF Unreferenced, Visible, Roots, RootDirs
<1> HIDE DEF S
<1>3. /\ Unlinks(sole'.gone) /\ sole'.gone \subseteq S
      /\ sole'.pc = next /\ sole'.seen = sole.seen /\ sole'.chosen = sole.chosen
  BY <1>0, CollectUnlinks DEF S
<1>4. ASSUME NEW n \in Files
      PROVE  IF n \in sole'.gone THEN disk'[n] = Absent ELSE disk'[n] = disk[n]
  BY <1>3 DEF Unlinks, Shows, AsIs
<1>5. loose' = loose /\ lost \subseteq lost' BY <1>0, <1>3 DEF Unlinks
<1>6. \A n \in Roots : n \in Files /\ n \notin sole'.gone /\ disk'[n] = disk[n]
  BY <1>0, <1>3, <1>4, FilesAreNames
<1>7. Remaining' = Remaining BY <1>3 DEF Remaining, Entries
<1>8. sole.chosen \subseteq Roots BY DEF IInv, Shapes, SoleTyped
<1>9. sole'.gone \subseteq Data /\ sole'.gone \cap Roots = {} BY <1>0, <1>3
<1>10. SeenRoots' BY <1>3, <1>5, <1>6, <1>8, <1>9 DEF IInv, SeenRoots
<1>11. SeenObjects'
  <2> SUFFICES ASSUME NEW o \in Objects, sole.seen[o] # Absent
               PROVE  disk'[o] # Absent \/ o \in lost' \/ o \notin ReferencedBy(sole.seen, Remaining)
    BY <1>3, <1>7 DEF SeenObjects
  <2>1. CASE o \in sole'.gone BY <2>1, <1>0, <1>3
  <2>2. CASE o \notin sole'.gone
    <3>1. disk'[o] = disk[o] BY <2>2, <1>4, FilesAreNames
    <3> QED BY <3>1, <1>5 DEF IInv, SeenObjects
  <2> QED BY <2>1, <2>2
<1> QED BY <1>10, <1>11

\* Only a pass or a clear that begins takes the exclusive guard.
LEMMA IdleStays ==
  ASSUME [Next]_vars, sole.pc = "idle", ~MaintainBegin, ~ClearBegin
  PROVE  sole'.pc = "idle"
<1>1. CASE UNCHANGED vars BY <1>1 DEF vars
<1>2. ASSUME NEW w \in Writers, Begin(w) PROVE sole' = sole
  BY <1>2 DEF Begin, BeginContext, CommitPageSnapshot, CommitExtension, CommitPageExtension,
       PublishPrefixAlias, Publish
<1>3. ASSUME NEW w \in Writers, Proceed(w) \/ BatchFails(w) \/ SyncRootFails(w) \/ Dies(w)
      PROVE  sole' = sole
  BY <1>3 DEF Proceed, SkipAlias, Stage, Barrier, Abort, Commit, LinkRoot, SyncRoot, Link,
       BatchFails, SyncRootFails, Dies
<1>4. CASE Maintain
  BY <1>4 DEF Maintain, MaintainProceeds, MaintainRoots, MaintainRootBarrier, MaintainSegments,
       MaintainSegmentBarrier, MaintainChunks, MaintainEnd
<1>5. CASE Clear BY <1>5 DEF Clear, ClearDir, ClearMark, ClearEnd, ClearFile
<1>6. CASE (\E c \in Contexts : InvalidateBegin(c)) \/ Invalidate \/ \E n \in Files : Rots(n)
  BY <1>6, BesideSole DEF Beside
<1>7. CASE SoleFails \/ PowerFails BY <1>7 DEF SoleFails, PowerFails, Nobody
<1> QED BY <1>1, <1>2, <1>3, <1>4, <1>5, <1>6, <1>7 DEF Next, Environment, Files

LEMMA SeenNext ==
  ASSUME IInv, [Next]_vars
  PROVE  SeenRoots' /\ SeenObjects'
<1>0. Shapes BY DEF IInv
<1>n. ASSUME ~InPass' PROVE SeenRoots' /\ SeenObjects' BY <1>n DEF SeenRoots, SeenObjects
<1>1. CASE MaintainBegin
  <2>1. PICK S \in SUBSET Roots :
          sole' = [Nobody EXCEPT !.pc = "roots", !.seen = disk, !.chosen = S, !.left = Budget]
    BY <1>1 DEF MaintainBegin
  <2>2. sole'.pc = "roots" /\ sole'.seen = disk /\ sole'.gone = {} BY <2>1 DEF Nobody
  <2>3. disk' = disk /\ disk \in [Names -> Entry] BY <1>0, <1>1 DEF MaintainBegin, Shapes, Typed
  <2> QED BY <2>2, <2>3 DEF SeenRoots, SeenObjects
<1>2. CASE ClearBegin
  <2>1. sole'.pc = "clear" BY <1>2 DEF ClearBegin, Nobody
  <2> QED BY <2>1, <1>n DEF InPass
<1>3. CASE sole.pc = "idle" /\ ~MaintainBegin /\ ~ClearBegin
  BY <1>3, <1>n, IdleStays DEF InPass
<1>4. CASE sole.pc # "idle"
  <2>1. CASE Beside BY <2>1, SeenBeside
  <2>2. CASE SoleFails \/ PowerFails \/ MaintainEnd
    <3>1. sole' = Nobody BY <2>2 DEF SoleFails, PowerFails, MaintainEnd
    <3> QED BY <3>1, <1>n DEF InPass, Nobody
  <2>3. CASE Clear
    <3>1. ~InPass /\ (sole' = sole \/ sole' = Nobody \/ sole'.pc \in {"clear", "mark"})
      BY <2>3, <1>0 DEF Clear, ClearDir, ClearMark, ClearEnd, ClearFile, InPass, Shapes, SoleTyped
    <3>2. ~InPass' BY <3>1 DEF InPass, Nobody
    <3> QED BY <3>2, <1>n
  <2>4. CASE MaintainRoots BY <2>4, SeenCollectRoots
  <2>5. CASE MaintainSegments
    BY <2>5, SeenCollectObjects DEF MaintainSegments, InPass
  <2>6. CASE MaintainChunks
    BY <2>6, SeenCollectObjects DEF MaintainChunks, InPass
  <2>7. CASE MaintainRootBarrier \/ MaintainSegmentBarrier
    BY <2>7, SeenSettle DEF MaintainRootBarrier, MaintainSegmentBarrier, InPass
  <2> QED
    BY <1>0, <1>4, <2>1, <2>2, <2>3, <2>4, <2>5, <2>6, <2>7, HolderSteps DEF Maintain, MaintainProceeds, Shapes
<1> QED BY <1>1, <1>2, <1>3, <1>4

\* Outside of its own steps and of power failures the marker of a clear stays as it is, and
\* no name gets contents of an earlier era.
Grown(n) ==
    /\ n = Marker => AsIs(n)
    /\ \A v \in pend'[n] \ {Absent} :
          v \in pend[n] \/ v.era = era \/ (disk[n] # Absent /\ v.era = disk[n].era)

LEMMA DirIndex ==
  /\ Len(DataDirs) = 4 /\ DOMAIN DataDirs = 1 .. 4
  /\ \A i \in 1 .. 4 : DataDirs[i] \in Dirs
  /\ \A d \in Dirs : \E i \in 1 .. 4 : d = DataDirs[i]
BY DEF DataDirs, Dirs

LEMMA GrownNext ==
  ASSUME IInv, [Next]_vars, ~ClearMark, ~ClearEnd, ~PowerFails, NEW n \in Names
  PROVE  Grown(n)
<1>s. Shapes /\ FileSystem BY TypedFileSystem DEF Shapes, IInv
<1>0. /\ Names = Data \cup {Marker} /\ Marker \notin Data /\ Marker[1] \notin Dirs
      /\ \A x \in Data : x[1] \in Dirs
      /\ Roots \subseteq Data /\ Objects \subseteq Data
      /\ \A d \in Dirs : <<d, Temp>> \in Data
  BY NameFacts
<1>a. Plain \in Entry /\ Plain.era = era BY <1>s, FileFacts DEF Shapes, Typed, Entry
<1>b. Absent \in Entry /\ disk[n] \in pend[n] BY <1>s DEF Entry, FileSystem
<1>as. ASSUME AsIs(n) PROVE Grown(n) BY <1>as DEF AsIs, Grown
<1>q. ASSUME UNCHANGED <<disk, pend>> PROVE Grown(n) BY <1>q, <1>as DEF AsIs
<1>sy. ASSUME NEW ds \in SUBSET Dirs, Sync(ds) PROVE Grown(n)
  <2>1. IF n[1] \in ds THEN Settled(n) ELSE AsIs(n) BY <1>sy, <1>s, SyncAt
  <2> QED BY <2>1, <1>0, <1>b, <1>as DEF Grown, Settled
<1>d. ASSUME NEW S \in SUBSET Data PROVE DirsOf(S) \in SUBSET Dirs BY <1>d, <1>0 DEF DirsOf
<1>p. ASSUME NEW S \in SUBSET Data, NEW v \in Entry, Put(S, v), v # Absent => v.era = era
      PROVE  Grown(n)
  <2>1. IF n \in S THEN Shows(n, v) ELSE AsIs(n) BY <1>p, <1>s, PutAt
  <2> QED BY <1>p, <2>1, <1>0, <1>as DEF Grown, Shows
<1>u. ASSUME NEW S \in SUBSET Data, Unlink(S) PROVE Grown(n)
  <2>1. IF n \in S /\ disk[n] # Absent THEN Shows(n, Absent) ELSE AsIs(n) BY <1>u, <1>s, UnlinkAt
  <2> QED BY <1>u, <2>1, <1>0, <1>as DEF Grown, Shows
<1>t. ASSUME NEW S \in SUBSET Data, pend' = Pending(S, Plain), disk' = disk PROVE Grown(n)
  <2>1. pend'[n] = IF n \in S THEN pend[n] \cup {Plain} ELSE pend[n] BY <1>t DEF Pending
  <2>2. n = Marker => n \notin S BY <1>t, <1>0
  <2> QED BY <1>t, <2>1, <2>2, <1>a DEF Grown, AsIs
<1>w. \A w \in Writers : writer[w] \in WriterType BY <1>s DEF Shapes, WriterTyped
<1>1. CASE UNCHANGED vars BY <1>1, <1>q DEF vars
<1>2. ASSUME NEW w \in Writers, Begin(w) PROVE Grown(n)
  BY <1>2, <1>q DEF Begin, BeginContext, CommitPageSnapshot, CommitExtension, CommitPageExtension,
       PublishPrefixAlias, Publish
<1>3. ASSUME NEW w \in Writers, SkipAlias(w) \/ Abort(w) \/ SyncRootFails(w) PROVE Grown(n)
  BY <1>3, <1>q DEF SkipAlias, Abort, SyncRootFails
<1>4. ASSUME NEW w \in Writers, Stage(w) PROVE Grown(n)
  <2> DEFINE staged == {x \in NextBatch(writer[w]) : ~Matches(x, Plain)}
             T == {<<d, Temp>> : d \in DirsOf(staged)}
  <2>1. staged \subseteq Data BY <1>w, <1>0 DEF NextBatch, WriterType
  <2>2. pend' = Pending(T, Plain) /\ disk' = disk BY <1>4 DEF Stage
  <2> HIDE DEF staged
  <2>3. T \subseteq Data BY <2>1, <1>0 DEF DirsOf
  <2> HIDE DEF T
  <2> QED BY <2>2, <2>3, <1>t
<1>5. ASSUME NEW w \in Writers, Commit(w) PROVE Grown(n)
  <2>1. writer[w].root \in Data BY <1>5, <1>s, <1>0 DEF Commit, Shapes, WriterTyped
  <2>2. PICK T \in {{}, {<<writer[w].root[1], Temp>>}} : pend' = Pending(T, Plain) /\ disk' = disk
    BY <1>5 DEF Commit
  <2>3. T \subseteq Data BY <2>1, <1>0
  <2> QED BY <2>2, <2>3, <1>t
<1>6. ASSUME NEW w \in Writers, NEW o \in Objects, Link(w, o) PROVE Grown(n)
  <2>1. PICK S \in {{}, {o}} : Put(S, Plain) BY <1>6 DEF Link
  <2> QED BY <2>1, <1>0, <1>a, <1>p
<1>7. ASSUME NEW w \in Writers, Barrier(w) \/ BatchFails(w) PROVE Grown(n)
  <2>1. writer[w].batch \in SUBSET Data BY <1>w, <1>0 DEF WriterType
  <2>2. Sync({}) \/ Sync(DirsOf(writer[w].batch)) BY <1>7 DEF Barrier, BatchFails
  <2> QED BY <2>1, <2>2, <1>d, <1>sy
<1>9. ASSUME NEW w \in Writers, LinkRoot(w) PROVE Grown(n)
  <2>1. writer[w].root \in Data /\ writer[w].body \in Entry
    BY <1>9, <1>w, <1>s, <1>0 DEF LinkRoot, Shapes, WriterTyped, WriterType, Entry
  <2>2. writer[w].body.era = era BY <1>9 DEF LinkRoot, IInv, Promises, Promise, Holding
  <2>3. Put({writer[w].root}, writer[w].body) => Grown(n) BY <2>1, <2>2, <1>p
  <2>4. Sync({writer[w].root[1]}) => Grown(n) BY <2>1, <1>0, <1>sy
  <2> QED BY <1>9, <1>q, <2>3, <2>4 DEF LinkRoot
<1>10. ASSUME NEW w \in Writers, SyncRoot(w) PROVE Grown(n)
  <2>1. writer[w].root[1] \in Dirs BY <1>10, <1>s, <1>0 DEF SyncRoot, Shapes, WriterTyped
  <2> QED BY <2>1, <1>10, <1>sy DEF SyncRoot
<1>11. ASSUME NEW w \in Writers, Dies(w) PROVE Grown(n)
  <2> DEFINE S == writer[w].staged \cup (IF writer[w].pc = "root" THEN {writer[w].root} ELSE {})
             T == {<<d, Temp>> : d \in DirsOf(S)}
  <2>1. S \subseteq Data
    <3>1. writer[w].staged \subseteq Data BY <1>w, <1>0 DEF WriterType
    <3>2. writer[w].pc = "root" => writer[w].root \in Data BY <1>s, <1>0 DEF Shapes, WriterTyped
    <3> QED BY <3>1, <3>2
  <2>2. Put(T, Plain) BY <1>11 DEF Dies
  <2> HIDE DEF S
  <2>3. T \subseteq Data BY <2>1, <1>0 DEF DirsOf
  <2> HIDE DEF T
  <2> QED BY <2>2, <2>3, <1>a, <1>p
<1>12. CASE MaintainBegin \/ ClearBegin \/ SoleFails
  BY <1>12, <1>q DEF MaintainBegin, ClearBegin, SoleFails
<1>13. ASSUME NEW S \in SUBSET Data, NEW before, NEW next, Collect(S, before, next)
       PROVE  Grown(n)
  <2>1. PICK A \in Admitted(S, before) :
          \E gone \in {A} \cup {A \ {x} : x \in A} : Unlink(gone)
    BY <1>13 DEF Collect
  <2>2. PICK gone \in {A} \cup {A \ {x} : x \in A} : Unlink(gone) BY <2>1
  <2>3. gone \in SUBSET Data BY AdmittedIsPart
  <2> QED BY <2>2, <2>3, <1>u
<1>14. Debris(sole.seen) \cup sole.chosen \in SUBSET Data
  BY <1>s, <1>0 DEF Debris, Orphans, Visible, SoleTyped, Shapes
<1>15. Unreferenced("prefix-index") \in SUBSET Data /\ Unreferenced("chunks") \in SUBSET Data
  BY DEF Unreferenced, Visible
<1>16. CASE MaintainRoots BY <1>16, <1>13, <1>14 DEF MaintainRoots
<1>17. CASE MaintainSegments \/ MaintainChunks
  BY <1>17, <1>13, <1>15 DEF MaintainSegments, MaintainChunks
<1>18. CASE MaintainRootBarrier \/ MaintainSegmentBarrier \/ MaintainEnd
  <2>1. sole.gone \in SUBSET Data
    BY <1>18 DEF MaintainRootBarrier, MaintainSegmentBarrier, MaintainEnd, IInv, SeenRoots, InPass
  <2>2. Sync(DirsOf(sole.gone))
    BY <1>18 DEF MaintainRootBarrier, MaintainSegmentBarrier, MaintainEnd, Settle
  <2> QED BY <2>1, <2>2, <1>d, <1>sy
<1>19. CASE ClearDir
  <2>1. sole.dir \in 1 .. 4
    BY <1>19, <1>s, DirIndex DEF ClearDir, IInv, Cleared, Shapes, SoleTyped
  <2>2. {DataDirs[sole.dir]} \in SUBSET Dirs BY <2>1, DirIndex
  <2> QED BY <2>2, <1>19, <1>sy DEF ClearDir
<1>20. ASSUME NEW m \in Data, ClearFile(m) PROVE Grown(n)
  <2>1. IF n = m THEN disk'[n] = Absent /\ pend'[n] = {Absent}
        ELSE IF n[1] = m[1] THEN Settled(n) ELSE AsIs(n)
    BY <1>20, <1>s, <1>0, ClearAt DEF ClearFile
  <2>2. n = Marker => n # m /\ n[1] # m[1] BY <1>0
  <2> QED BY <2>1, <2>2, <1>b, <1>as DEF Grown, Settled
<1>21. CASE (\E c \in Contexts : InvalidateBegin(c)) \/ \E o \in Objects : InvalidateCheck(o)
  BY <1>21, <1>q DEF InvalidateBegin, InvalidateCheck
<1>22. CASE InvalidateChunk \/ InvalidateRoot
  <2>1. drop.bad \in SUBSET Data BY <1>s, <1>0 DEF Shapes, DropTyped
  <2>2. InvalidateRoot => {drop.root} \in SUBSET Data
    BY <1>s, <1>0 DEF InvalidateRoot, Shapes, DropTyped
  <2> QED BY <1>22, <2>1, <2>2, <1>u DEF InvalidateChunk, InvalidateRoot
<1>23. ASSUME NEW m \in Files, Rots(m) PROVE Grown(n)
  <2>1. CASE n \in Files
    <3>1. Spoils(m) BY <1>23, <1>s, RotsSpoils
    <3>2. n # Marker BY <2>1, <1>0 DEF Files
    <3>3. CASE n # m BY <3>1, <3>3, <2>1, <1>as DEF Spoils
    <3>4. CASE n = m
      <4>1. disk[n] \in Contents BY <3>1, <3>4, <1>s, Shown1 DEF Spoils, Shapes
      <4>2. disk'[n] = [disk[n] EXCEPT !.ok = FALSE] /\ disk[n] # Absent BY <3>1, <3>4 DEF Spoils
      <4>3. disk'[n].era = disk[n].era BY <4>1, <4>2 DEF Contents
      <4>4. \A v \in pend'[n] : v \in pend[n] \/ v = disk'[n] BY <3>1, <3>4 DEF Spoils
      <4> QED BY <3>2, <4>2, <4>3, <4>4 DEF Grown
    <3> QED BY <3>3, <3>4
  <2>2. CASE n \notin Files
    <3>1. n # m BY <2>2
    <3>2. AsIs(n)
      BY <1>23, <3>1, <1>s DEF Rots, Shown, AsIs, FileSystem
    <3> QED BY <3>2, <1>as
  <2> QED BY <2>1, <2>2
<1> QED
  BY <1>1, <1>2, <1>3, <1>4, <1>5, <1>6, <1>7, <1>9, <1>10, <1>11, <1>12, <1>16, <1>17, <1>18, <1>19,
     <1>20, <1>21, <1>22, <1>23
  DEF Next, Proceed, Maintain, MaintainProceeds, Clear, Invalidate, Environment, Files

\* What is bare stays so while nobody publishes.
LEMMA BareStays ==
  ASSUME IInv, NEW n \in Data, Bare(n),
         Beside \/ ClearDir \/ \E m \in Data : ClearFile(m)
  PROVE  Bare(n)'
<1>0. Shapes /\ FileSystem /\ n \in Names /\ Data \subseteq Names
  BY TypedFileSystem, NameFacts DEF IInv, Shapes
<1>1. disk[n] = Absent BY <1>0 DEF Bare, FileSystem
<1>a. AsIs(n) \/ Settled(n) => Bare(n)' BY <1>1 DEF Bare, AsIs, Settled
<1>2. ASSUME NEW S, Unlink(S) PROVE Bare(n)'
  <2>1. AsIs(n) BY <1>0, <1>1, <1>2, UnlinkAt
  <2> QED BY <2>1, <1>a
<1>3. CASE UNCHANGED vars \/ \E w \in Writers : SkipAlias(w)
  BY <1>3, <1>a DEF vars, SkipAlias, AsIs
<1>4. CASE (\E c \in Contexts : InvalidateBegin(c)) \/ \E o \in Objects : InvalidateCheck(o)
  BY <1>4, <1>a DEF InvalidateBegin, InvalidateCheck, AsIs
<1>5. CASE InvalidateChunk \/ InvalidateRoot BY <1>2, <1>5 DEF InvalidateChunk, InvalidateRoot
<1>6. ASSUME NEW m \in Files, Rots(m) PROVE Bare(n)'
  <2>1. m # n BY <1>1, <1>6 DEF Rots
  <2>2. AsIs(n) BY <1>0, <1>6, <2>1 DEF Rots, Shown, AsIs, FileSystem
  <2> QED BY <2>2, <1>a
<1>7. CASE ClearDir
  <2>1. AsIs(n) \/ Settled(n) BY <1>0, <1>7, SyncAt DEF ClearDir
  <2> QED BY <2>1, <1>a
<1>8. ASSUME NEW m \in Data, ClearFile(m) PROVE Bare(n)'
  <2>1. IF n = m THEN disk'[n] = Absent /\ pend'[n] = {Absent}
        ELSE IF n[1] = m[1] THEN Settled(n) ELSE AsIs(n)
    BY <1>0, <1>8, ClearAt DEF ClearFile
  <2> QED BY <2>1, <1>a DEF Bare
<1> QED BY <1>3, <1>4, <1>5, <1>6, <1>7, <1>8 DEF Beside, Invalidate

\* The marker: what a power failure may show of it is what it shows now, or more.
LEMMA MarkerNext ==
  ASSUME IInv, [Next]_vars
  PROVE  disk'[Marker] = Absent => Bare(Marker)'
<1>0. Shapes /\ FileSystem /\ Marker \in Names BY TypedFileSystem, NameFacts DEF IInv, Shapes
<1>1. CASE ClearMark
  <2>1. Plain \in Contents BY <1>0, FileFacts DEF Shapes, Typed
  <2>2. Shows(Marker, Plain) BY <1>0, <1>1, <2>1, PutAt DEF ClearMark, Entry
  <2> QED BY <2>1, <2>2, ContentFacts DEF Shows
<1>2. CASE ClearEnd
  <2>1. Settled(Marker) BY <1>0, <1>2, SyncAt DEF ClearEnd
  <2> QED BY <2>1 DEF Settled, Bare
<1>3. CASE PowerFails BY <1>0, <1>3 DEF PowerFails, Bare
<1>4. CASE ~ClearMark /\ ~ClearEnd /\ ~PowerFails
  <2>1. AsIs(Marker) BY <1>0, <1>4, GrownNext DEF Grown
  <2> QED BY <2>1 DEF AsIs, Bare, IInv, Cleared
<1> QED BY <1>1, <1>2, <1>3, <1>4

LEMMA ClearedNext ==
  ASSUME IInv, [Next]_vars
  PROVE  Cleared'
<1>0. Shapes /\ FileSystem /\ Marker \in Names /\ Data \subseteq Names
  BY TypedFileSystem, NameFacts DEF IInv, Shapes
<1>1. disk'[Marker] = Absent => Bare(Marker)' BY MarkerNext
<1>n. ASSUME sole'.pc \notin {"clear", "mark"} PROVE Cleared' BY <1>1, <1>n DEF Cleared
<1>2. CASE MaintainBegin
  <2>1. sole'.pc = "roots" BY <1>2 DEF MaintainBegin, Nobody
  <2> QED BY <2>1, <1>n
<1>3. CASE ClearBegin
  <2>1. sole'.pc = "clear" /\ sole'.dir = 1 /\ disk' = disk /\ disk[Marker] = Absent
    BY <1>3 DEF ClearBegin, Nobody
  <2>2. \A i \in DOMAIN DataDirs : ~(i < 1) BY DirIndex
  <2> QED BY <2>1, <2>2, <1>1 DEF Cleared
<1>4. CASE sole.pc = "idle" /\ ~MaintainBegin /\ ~ClearBegin BY <1>4, <1>n, IdleStays
<1>5. CASE SoleFails \/ PowerFails \/ MaintainEnd \/ ClearEnd
  <2>1. sole' = Nobody BY <1>5 DEF SoleFails, PowerFails, MaintainEnd, ClearEnd
  <2> QED BY <2>1, <1>n DEF Nobody
<1>6. CASE InPass /\ Maintain /\ ~MaintainEnd /\ ~MaintainBegin
  <2>1. sole'.pc \notin {"clear", "mark"}
    BY <1>0, <1>6 DEF Maintain, MaintainProceeds, MaintainRoots, MaintainRootBarrier, MaintainSegments,
         MaintainSegmentBarrier, MaintainChunks, Collect, Settle, Shapes, SoleTyped
  <2> QED BY <2>1, <1>n
<1>7. CASE Beside
  <2>1. sole' = sole BY <1>7, BesideSole
  <2>2. \A n \in Data : Bare(n) => Bare(n)' BY <1>7, BareStays
  <2>3. ASSUME sole.pc \in {"clear", "mark"} PROVE AsIs(Marker)
    <3>1. ~ClearMark /\ ~ClearEnd /\ ~PowerFails
      BY <1>0, <2>1, <2>3 DEF ClearMark, ClearEnd, PowerFails, Nobody, Shapes, SoleTyped
    <3> QED BY <1>0, <3>1, GrownNext DEF Grown
  <2> QED BY <2>1, <2>2, <2>3, <1>1 DEF Cleared, IInv, AsIs
<1>8. CASE ClearDir
  <2>1. sole.pc = "clear" /\ sole.dir \in 1 .. 4 /\ sole'.pc = "clear" /\ sole'.dir = sole.dir + 1
    BY <1>0, <1>8, DirIndex DEF ClearDir, IInv, Cleared, Shapes, SoleTyped
  <2>2. \A n \in Data : Bare(n) => Bare(n)' BY <1>8, BareStays
  <2>3. ASSUME NEW n \in Data, n[1] = DataDirs[sole.dir] PROVE Bare(n)'
    <3>1. disk[n] = Absent BY <1>8, <2>3 DEF ClearDir
    <3>2. Settled(n) BY <1>0, <1>8, <2>3, SyncAt DEF ClearDir
    <3> QED BY <3>1, <3>2 DEF Settled, Bare
  <2>4. \A i \in DOMAIN DataDirs : i < sole.dir => \A n \in Data : n[1] = DataDirs[i] => Bare(n)'
    BY <2>1, <2>2 DEF IInv, Cleared
  <2>5. \A i \in DOMAIN DataDirs : i < sole.dir + 1 => i < sole.dir \/ i = sole.dir
    BY <2>1, DirIndex
  <2>6. \A i \in DOMAIN DataDirs : i < sole'.dir => \A n \in Data : n[1] = DataDirs[i] => Bare(n)'
    BY <2>1, <2>3, <2>4, <2>5
  <2>7. disk'[Marker] = Absent /\ sole'.dir > 0
    BY <1>8, <2>1 DEF ClearDir, Sync, IInv, Cleared
  <2> QED BY <2>1, <2>6, <2>7, <1>1 DEF Cleared
<1>9. ASSUME NEW m \in Data, ClearFile(m) PROVE Cleared'
  <2>1. sole' = sole /\ sole.pc = "clear" BY <1>9 DEF ClearFile
  <2>2. \A n \in Data : Bare(n) => Bare(n)' BY <1>9, BareStays
  <2>3. disk'[Marker] = Absent
    <3>1. Marker # m BY NameFacts
    <3>2. disk'[Marker] = disk[Marker] BY <1>0, <1>9, <3>1 DEF ClearFile, Shown
    <3> QED BY <3>2, <2>1 DEF IInv, Cleared
  <2> QED BY <2>1, <2>2, <2>3, <1>1 DEF Cleared, IInv
<1>10. CASE ClearMark
  <2>1. sole'.pc = "mark" BY <1>0, <1>10 DEF ClearMark, Shapes, SoleTyped
  <2>2. ASSUME NEW n \in Data PROVE Bare(n)'
    <3>1. n # Marker /\ n[1] \in Dirs /\ n \in Names BY NameFacts
    <3>2. PICK i \in 1 .. 4 : n[1] = DataDirs[i] BY <3>1, DirIndex
    <3>3. i < sole.dir BY <1>0, <1>10, DirIndex DEF ClearMark, Shapes, SoleTyped
    <3>4. Bare(n) BY <1>10, <3>2, <3>3, DirIndex DEF ClearMark, IInv, Cleared
    <3>5. Plain \in Entry BY <1>0, FileFacts DEF Shapes, Typed, Entry
    <3>6. AsIs(n) BY <1>0, <1>10, <3>1, <3>5, PutAt DEF ClearMark
    <3> QED BY <3>4, <3>6 DEF AsIs, Bare
  <2> QED BY <2>1, <2>2, <1>1 DEF Cleared
<1>11. ~(Maintain /\ ~MaintainBegin) \/ InPass
  BY DEF Maintain, MaintainProceeds, MaintainRoots, MaintainRootBarrier, MaintainSegments, MaintainSegmentBarrier,
       MaintainChunks, MaintainEnd, InPass
<1> QED
  BY <1>0, <1>2, <1>3, <1>4, <1>5, <1>6, <1>7, <1>8, <1>9, <1>10, <1>11, HolderSteps DEF Clear, Shapes

LEMMA ClearedForGoodNext ==
  ASSUME IInv, [Next]_vars
  PROVE  ClearedForGood'
<1>0. Shapes /\ FileSystem /\ Marker \in Names /\ Data \subseteq Names
  BY TypedFileSystem, NameFacts DEF IInv, Shapes
<1>1. ClearedForGood BY DEF IInv, PromisesKept
<1> SUFFICES ASSUME pend'[Marker] # {Absent}, NEW n \in Data, NEW v \in pend'[n], v # Absent
             PROVE  v.era = era'
  BY DEF ClearedForGood
<1>2. n \in Names /\ n # Marker /\ n[1] \in Dirs /\ Marker[1] \notin Dirs BY NameFacts
<1>3. ASSUME pend[Marker] # {Absent} PROVE era' = era
  <2>1. ~ClearBegin BY <1>3 DEF ClearBegin, IInv, Cleared, Bare
  <2> QED BY <2>1, EraStays
<1>4. CASE ClearMark
  <2>1. sole'.pc = "mark" BY <1>0, <1>4 DEF ClearMark, Shapes, SoleTyped
  <2>2. Bare(n)' BY <2>1, ClearedNext DEF Cleared
  <2> QED BY <2>2 DEF Bare
<1>5. CASE ClearEnd
  <2>1. Bare(n) BY <1>5 DEF ClearEnd, IInv, Cleared
  <2>2. AsIs(n) BY <1>0, <1>2, <1>5, SyncAt DEF ClearEnd
  <2> QED BY <2>1, <2>2 DEF AsIs, Bare
<1>6. CASE PowerFails
  <2>1. PICK f \in Outcomes :
          /\ disk' = [m \in Names |-> IF m \in DOMAIN f THEN f[m] ELSE disk[m]]
          /\ pend' = [m \in Names |-> {disk'[m]}]
    BY <1>6 DEF PowerFails
  <2>2. \A m \in DOMAIN f : f[m] \in pend[m] BY DEF Outcomes
  <2>3. \A m \in Names : disk'[m] \in pend[m] /\ pend'[m] = {disk'[m]}
    BY <2>1, <2>2, <1>0 DEF FileSystem
  <2>4. v \in pend[n] /\ pend[Marker] # {Absent} BY <2>3, <1>0, <1>2
  <2> QED BY <2>4, <1>1, <1>3 DEF ClearedForGood
<1>7. CASE ~ClearMark /\ ~ClearEnd /\ ~PowerFails
  <2>1. Grown(Marker) /\ Grown(n) BY <1>0, <1>2, <1>7, GrownNext
  <2>2. pend[Marker] # {Absent} BY <2>1 DEF Grown, AsIs
  <2>3. v \in pend[n] \/ v.era = era \/ (disk[n] # Absent /\ v.era = disk[n].era)
    BY <2>1 DEF Grown
  <2>4. disk[n] \in pend[n] BY <1>0, <1>2 DEF FileSystem
  <2> QED BY <2>2, <2>3, <2>4, <1>1, <1>3 DEF ClearedForGood
<1> QED BY <1>4, <1>5, <1>6, <1>7

-----------------------------------------------------------------------------
(* The theorems. *)

LEMMA InitHolds == Init => IInv
<1> SUFFICES ASSUME Init PROVE IInv OBVIOUS
<1>1. \A n \in Names : disk[n] = Absent /\ pend[n] = {Absent} BY DEF Init
<1>2. Roots \subseteq Names /\ Objects \subseteq Names /\ Data \subseteq Names /\ Marker \in Names
  BY NameFacts
<1>3. Typed BY <1>1, StoreConstants DEF Init, Typed, Entry
<1>4. \A w \in Writers : writer[w] = Resting BY DEF Init
<1>5. WriterTyped BY <1>3, <1>4, RestIsTyped DEF Init, WriterTyped, Typed
<1>6. SoleTyped /\ DropTyped /\ sole.pc = "idle"
  BY DEF Init, SoleTyped, DropTyped, Nobody, NoDrop
<1>7. Shapes BY <1>3, <1>5, <1>6 DEF Shapes, Alone
<1>8. \A w \in Writers : writer[w].pc = "idle" /\ ~Holding(w) BY <1>4, RestIsTyped DEF Holding
<1>9. Plainly /\ Steady /\ RootsHold /\ RowsClosed /\ PromisesKept
  BY <1>1, <1>2 DEF Init, Plainly, Steady, RootsHold, WholeAt, RowsClosed, PromisesKept,
     ReceiptsDurable, ClearedForGood
<1>10. LinkedHold /\ BodiesClosed /\ Promises BY <1>8 DEF LinkedHold, BodiesClosed, Promises
<1>11. SeenRoots /\ SeenObjects /\ Cleared
  BY <1>1, <1>2, <1>6 DEF SeenRoots, SeenObjects, Cleared, InPass, Bare
<1> QED BY <1>7, <1>9, <1>10, <1>11 DEF IInv

LEMMA StepHolds == IInv /\ [Next]_vars => IInv'
<1> SUFFICES ASSUME IInv, [Next]_vars PROVE IInv' OBVIOUS
<1>0. Typed /\ WriterTyped /\ SoleTyped /\ Alone /\ DropTyped BY DEF IInv, Shapes
<1>1. Typed' BY <1>0, TypedNext
<1>2. WriterTyped' BY <1>0, WriterTypedNext
<1>3. Shapes'
  <2>1. SoleTyped' /\ DropTyped' BY <1>0, SoleTypedNext, DropTypedNext
  <2>2. Alone' BY <1>0, <1>2, AloneNext
  <2> QED BY <1>1, <1>2, <2>1, <2>2 DEF Shapes
<1>4. Moves BY EveryStepMoves
<1>5. Plainly' /\ Steady' /\ RootsHold' BY <1>4, PlainlyNext, SteadyNext, RootsHoldNext
<1>6. LinkedHold' /\ Promises' BY <1>2, <1>4, LinkedHoldNext, PromisesNext
<1>7. RowsClosed' /\ BodiesClosed' BY <1>2, <1>4, ModeStays, RowsClosedNext, BodiesClosedNext
<1>8. SeenRoots' /\ SeenObjects' /\ Cleared' BY SeenNext, ClearedNext
<1>9. PromisesKept'
  <2>1. ReceiptsDurable' BY <1>1, <1>4, ReceiptsNext
  <2>2. ClearedForGood' BY ClearedForGoodNext
  <2> QED BY <2>1, <2>2 DEF PromisesKept
<1> QED BY <1>3, <1>5, <1>6, <1>7, <1>8, <1>9 DEF IInv

LEMMA Inductive == Spec => []IInv
<1>1. Init => IInv BY InitHolds
<1>2. IInv /\ [Next]_vars => IInv' BY StepHolds
<1> QED BY <1>1, <1>2, PTL DEF Spec

LEMMA CrashSafeHere == IInv => CrashSafe
<1> SUFFICES ASSUME IInv PROVE CrashSafe OBVIOUS
<1>0. Shapes BY DEF IInv
<1>1. TypeOK
  BY <1>0, NameFacts DEF Shapes, Typed, WriterTyped, WriterType, SoleTyped, Alone, DropTyped, TypeOK,
     Entry
<1>2. RootsWhole
  <2> SUFFICES ASSUME NEW n \in Roots, NEW v \in pend[n], v # Absent, v.ok, n \notin loose,
                      NEW o \in Refs(v)
               PROVE  o \in lost \/ Absent \notin pend[o]
    BY DEF RootsWhole
  <2>1. v = disk[n] BY DEF IInv, Steady
  <2> QED BY <2>1 DEF IInv, RootsHold, WholeAt, Kept
<1> QED BY <1>1, <1>2 DEF CrashSafe

LEMMA SurvivorsUsableHere == IInv => SurvivorsUsable
<1> SUFFICES ASSUME IInv, sole.pc = "chunksync", NEW n \in Survivors, n \notin loose
             PROVE  /\ disk[n] # Absent
                    /\ \A o \in Refs(disk[n]) : disk[o] # Absent \/ o \in lost
  BY DEF SurvivorsUsable
<1>0. Typed BY DEF IInv, Shapes
<1>1. InPass BY DEF InPass
<1>2. n \in Remaining /\ n \in Valid(sole.seen) /\ n \in Roots /\ n \notin sole.chosen
      /\ sole.seen[n] # Absent
  BY DEF Survivors, Remaining, Entries, Valid
<1>3. disk[n] # Absent BY <1>1, <1>2 DEF IInv, SeenRoots
<1>4. sole.seen[n].chunks = disk[n].chunks /\ sole.seen[n].index = disk[n].index
  BY <1>1, <1>2, <1>3 DEF IInv, SeenRoots
<1>5. ASSUME NEW o \in Refs(disk[n]) PROVE disk[o] # Absent \/ o \in lost
  <2>1. o \in Refs(sole.seen[n]) BY <1>4, <1>5 DEF Refs
  <2>2. o \in Objects BY <1>0, <1>2, <1>3, <1>5, FilesAreNames, Shown1
  <2>3. o \in ReferencedBy(sole.seen, Remaining) BY <1>2, <2>1 DEF ReferencedBy
  <2>4. sole.seen[o] # Absent
    <3>1. CASE o \in {"chunks"} \X sole.seen[n].chunks BY <3>1 DEF Survivors, Visible
    <3>2. CASE o \in {"prefix-index"} \X sole.seen[n].index
      <4>1. PICK u \in sole.seen[n].index : o = <<"prefix-index", u>> BY <3>2
      <4> QED BY <1>2, <4>1 DEF Valid, Resolves
    <3> QED BY <2>1, <3>1, <3>2 DEF Refs
  <2> QED BY <1>1, <2>2, <2>3, <2>4 DEF IInv, SeenObjects
<1> QED BY <1>3, <1>5

\* The visibility point of _publish_immutable, commit_manifest and maintain: at every step,
\* whatever a power failure makes of the names that await a barrier, a root that comes back
\* whole has all the chunks and segments it lists.  Excepted are objects that are lost (the
\* medium damaged them, a clear or a stale invalidation removed them, a pass collected them
\* beside a root that did not resolve), roots of before a clear, and roots unlinked by an
\* operation that did not reach its barrier.  And _RootGuard keeps an exclusive holder and
\* publishers apart.
THEOREM StoreIsCrashSafe == Spec => []CrashSafe
<1>1. IInv => CrashSafe BY CrashSafeHere
<1> QED BY <1>1, Inductive, PTL

\* A receipt of commit_manifest and the completion marker of clear_once are promises: a root
\* whose receipt was returned outlives every power failure until somebody removes it, and
\* once the marker can be seen nothing from before the clear can come back.
THEOREM PromisesHold == Spec => []PromisesKept
<1>1. IInv => PromisesKept BY DEF IInv
<1> QED BY <1>1, Inductive, PTL

\* The report of maintain: when the pass that began with an inventory reports its survivors,
\* each of them is there with its objects, however deletion budgets cut the pass short and
\* whichever removals failed, except for what an invalidation unlinked meanwhile.
THEOREM ReportIsUsable == Spec => []SurvivorsUsable
<1>1. IInv => SurvivorsUsable BY SurvivorsUsableHere
<1> QED BY <1>1, Inductive, PTL
=============================================================================
