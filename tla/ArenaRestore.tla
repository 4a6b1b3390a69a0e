--------------------------- MODULE ArenaRestore ---------------------------
(* One loader lane that restores stored histories into GPU pages through   *)
(* the two mapped arenas of a placement handle: the executors of           *)
(* spark_context_cache_cuda_hybrid_restore.py and                          *)
(* spark_context_cache_native_restore.py, the ParkedRestore transaction of *)
(* spark_context_cache_native_placement.py and the placement handle of     *)
(* native/src/spark_cache_placement.cu.                                    *)
(*                                                                         *)
(* Four parties take steps: the loader thread, the read pool, the GPU      *)
(* (a kernel reads its arena when it runs, not when it is launched) and    *)
(* the environment, which damages files and lets CUDA calls fail.          *)
EXTENDS PageHistory

CONSTANTS
  Histories,    \* the stored histories: a sequence
  Rows,         \* the histories (indices) stored as row chunks
  Integrities,  \* the payload checks a deployment may select
  HotBudgets,   \* whether verified snapshots are kept in memory
  Executors,    \* how a deployment restores: "native" or "python"
  Published,    \* the histories the store worker publishes a successor of
  ReadWorkers,  \* objects the flat executor reads ahead
  Faults,       \* the faults that can happen: damage, device, launch, dead
  MaxFaults,    \* bound on faults
  MaxRestores   \* bound on restores

Stored == DOMAIN Histories
Arenas == 0..1                       \* SPARK_CACHE_PLACEMENT_ARENA_COUNT
Reference(h) == Last(Histories[h])
Junk == <<"junk">>
NoKernel == <<>>

VARIABLES
  integrity, hotBudget, executor,   \* the deployment
  damaged,                \* the stored objects whose bytes are no longer theirs
  faults,                 \* faults so far
  device,                 \* the GPU: [dead, error, kernels: arena -> pending copy spans,
                          \* stray: those of a launch that failed, spoiled: one ran into
                          \* the pages of the restore that followed]
  arena,                  \* the cells of every arena
  memory,                 \* the cells of the request's private pages, by layer
  native,                 \* the handle: [active, acquired, inflight, submitted, covered, slabs]
  state,                  \* ParkedRestore.state, "NONE" before the first restore
  pc,                     \* where the loader thread is
  load,                   \* the request: [history, kind, slabs, slab, number]
  ready,                  \* sources authenticated in private memory
  reads,                  \* reads into the arena: part of the slab -> reading, ok, bad
  unhashed,               \* the arena and slab not digested yet, or <<>>
  digest,                 \* the cells the result digest has consumed
  hot,                    \* the snapshots kept in memory: history -> cells or <<>>
  result,                 \* of the last restore: none, verified, recompute
  handle                  \* the adapter: open, closed, leaked

vars == <<integrity, hotBudget, executor, damaged, faults, device, arena, memory, native, state,
          pc, load, ready, reads, unhashed, digest, hot, result, handle>>

deployment == <<integrity, hotBudget, executor>>
gpu == <<device, arena, memory>>
progress == <<ready, reads, unhashed, digest>>

\* What is on disk, and what every executor plans: functions of the histories.
Stages(h) == 0..(Len(Histories[h]) - 1)
StageObjects == [h \in Stored |-> [s \in Stages(h) |-> Objects(Histories[h], s)]]
Files == [h \in Stored |-> [s \in Stages(h) |-> Encoded(Histories[h], s)]]
Accepted == [h \in Stored |-> PlanAccepted(Histories[h])]
Plans == {[history |-> x[1],
           delta |-> DeltaSlabs(x[2]),
           flat |-> ObjectSlabs(Histories[x[1]]),
           hot |-> SnapshotSlabs(Reference(x[1])),
           rows |-> ChunkSlabs(Histories[x[1]])] : x \in {<<h, SourceSpans(Histories[h])>> : h \in Stored}}
ComposePlans == [h \in Stored |-> ComposedSpans(Histories[h])]

AllObjects(h) == UNION {ToSet(StageObjects[h][s]) : s \in Stages(h)}

Slabs == load.slabs
Slab == Slabs[load.slab]
Arena == (load.slab - 1) % Cardinality(Arenas)
Used(slab) == Total([k \in DOMAIN slab.parts |-> slab.parts[k].count])

----------------------------------------------------------------------------
(* Reading and authenticating. *)

Intact(h, source) ==
  \A o \in AllObjects(h) :
    (o.stage = source.stage /\ o.start < source.end /\ source.start < o.end)
      => <<h, o>> \notin damaged

\* What a read of the source returns.
ReadCells(h, source) ==
  IF Intact(h, source) THEN Slice(Files[h][source.stage], source.start, source.end)
  ELSE [k \in 1..SourceBytes(source) |-> Junk]

\* payload_matches: "none" checks the length only; rows always carry a digest.
Matches(h, source, cells) ==
  \/ integrity = "none" /\ h \notin Rows
  \/ cells = Slice(Files[h][source.stage], source.start, source.end)

\* The bytes of a source that were authenticated and are held privately.
\* Under "none" they may be damaged bytes.
Private(source) ==
  IF load.kind = "hot" THEN Slice(hot[load.history], source.start, source.end)
  ELSE CHOOSE cells \in {r[2] : r \in {x \in ready : x[1] = source}} : TRUE

Held == {r[1] : r \in ready}

\* _remember_hot_page_snapshot, with a budget that holds every snapshot.
Remembered(h, payload) ==
  IF hotBudget /\ h \notin Rows THEN [hot EXCEPT ![h] = <<Header>> \o FlattenSeq(payload)] ELSE hot

----------------------------------------------------------------------------
(* The placement handle. *)

Init ==
  /\ integrity \in Integrities /\ hotBudget \in HotBudgets /\ executor \in Executors
  /\ damaged = {} /\ faults = 0
  /\ device = [dead |-> FALSE, error |-> FALSE, kernels |-> [a \in Arenas |-> NoKernel],
               stray |-> [a \in Arenas |-> NoKernel], spoiled |-> FALSE]
  /\ arena = [a \in Arenas |-> [k \in 1..ArenaBytes |-> Junk]]
  /\ memory = [l \in Layers |-> <<>>]
  /\ native = [active |-> FALSE, acquired |-> [a \in Arenas |-> FALSE],
               inflight |-> [a \in Arenas |-> FALSE], submitted |-> 0,
               covered |-> [l \in Layers |-> 0], slabs |-> 0]
  /\ state = "NONE" /\ pc = "idle"
  /\ load = [history |-> 1, kind |-> "flat", slabs |-> <<>>, slab |-> 1, number |-> 0]
  /\ ready = {} /\ reads = <<>> /\ unhashed = <<>> /\ digest = <<>>
  /\ hot = [h \in Stored |-> <<>>]
  /\ result = "none" /\ handle = "open"

\* mutant of Waited: nobody waits for an arena's event.
Unwaited(a) == TRUE

\* wait_arena: cudaEventSynchronize returns when the kernel recorded before
\* the event has run, or with an error when the context is dead.
Waited(a) == native.inflight[a] => (device.kernels[a] = NoKernel \/ device.dead)
WaitFails(a) == native.inflight[a] /\ device.dead

\* The contiguous coverage submit_page_slab demands: every span continues
\* the snapshot, and its destination, where the spans before it ended.
Before(spans, k, l) ==
  Total([j \in 1..(k - 1) |-> IF l \in {0, spans[j].dest} THEN spans[j].count ELSE 0])

Advances(spans) ==
  \A k \in DOMAIN spans :
    /\ spans[k].snap = native.submitted + Before(spans, k, 0)
    /\ spans[k].place = native.covered[spans[k].dest] + Before(spans, k, spans[k].dest)

----------------------------------------------------------------------------
(* The loader thread. *)

Fail == pc' = "fail"

\* Planning.  The header of every delta is read, with the first object of its
\* file, unless it was authenticated earlier in the process.  A verified copy
\* in memory then replaces the files.  Otherwise the first object of the base
\* is read and kept, or all of them when another lane shares its base read.
KindOf(h) == IF h \in Rows THEN "rows"
             ELSE IF hot[h] # <<>> THEN "hot"
             ELSE IF Len(Histories[h]) > 1 THEN "delta" ELSE "flat"

Prefetched(h, kind) ==
  LET base == StageObjects[h][0]
  IN  IF kind = "delta" THEN {{base[1]}, ToSet(base)}
      ELSE {IF kind = "flat" THEN {base[1]} ELSE {}}

Fetch(h, sources) == {<<o, ReadCells(h, o)>> : o \in sources}

Headers(h) == {StageObjects[h][s][1] : s \in DOMAIN StageObjects[h] \ {0}}

Idle == pc = "idle" /\ handle = "open" /\ load.number < MaxRestores

Blank(h) == [l \in Layers |-> [k \in 1..LayerBytes(Reference(h).pages, l) |-> Junk]]

Plan(h) ==
  LET kind == KindOf(h)
  IN  /\ executor = "native" /\ Idle
      /\ \E plan \in {p \in Plans : p.history = h} :
           load' = [history |-> h, kind |-> kind, slabs |-> plan[kind], slab |-> 1,
                    number |-> load.number + 1]
      /\ memory' = Blank(h)
      /\ \E prefetched \in Prefetched(h, kind), headers \in SUBSET Headers(h) :
           LET good == /\ Accepted[h]
                       /\ \A o \in headers \cup prefetched :
                            Intact(h, o) \/ (integrity = "none" /\ o \notin headers)
           IN  /\ pc' = IF good THEN "begin" ELSE "give up"
               /\ ready' = IF good THEN Fetch(h, prefetched) ELSE {}
      /\ reads' = <<>> /\ unhashed' = <<>> /\ digest' = <<>> /\ result' = "none"
      /\ state' = "NONE"
      /\ device' = [device EXCEPT !.spoiled = FALSE]
      /\ UNCHANGED <<deployment, damaged, faults, arena, native, hot, handle>>

\* begin_parked_restore and begin_parked_page_restore.
Begin ==
  /\ pc = "begin"
  /\ IF native.active \/ device.dead
     THEN /\ pc' = "give up"
          /\ UNCHANGED <<device, native, state>>
     ELSE /\ \A a \in Arenas : Waited(a)
          /\ native' = [native EXCEPT !.active = TRUE, !.acquired = [a \in Arenas |-> FALSE],
                                      !.inflight = [a \in Arenas |-> FALSE], !.submitted = 0,
                                      !.covered = [l \in Layers |-> 0], !.slabs = 0]
          /\ device' = [device EXCEPT !.error = FALSE]
          /\ state' = "PARKED" /\ pc' = "load"
  /\ UNCHANGED <<deployment, damaged, faults, arena, memory, load, progress, hot, result, handle>>

\* The private reads before a slab: what the batch copies and does not hold
\* (a bounded cache may have dropped a source it holds), or the next objects
\* of a flat snapshot.
Wanted ==
  CASE load.kind = "delta" ->
         {Slab.parts[k].source : k \in {j \in DOMAIN Slab.parts : ~Slab.parts[j].direct}} \ Held
    [] load.kind = "flat" ->
         IF Slab.parts[1].source \in Held THEN {}
         ELSE {Slabs[k].parts[1].source :
                 k \in load.slab..Smaller(Len(Slabs), load.slab + ReadWorkers - 1)}
    [] OTHER -> {}

Load ==
  /\ pc = "load"
  /\ LET fetched == Fetch(load.history, Wanted)
     IN  IF \A r \in fetched : Matches(load.history, r[1], r[2])
         THEN ready' = ready \cup fetched /\ pc' = "fill"
         ELSE ready' = ready /\ Fail
  /\ UNCHANGED <<deployment, damaged, faults, gpu, native, state, load, reads, unhashed,
                 digest, hot, result, handle>>

\* Cells with a part laid over them.
Lay(cells, at, part) ==
  [k \in DOMAIN cells |-> IF k - at \in 1..Len(part) THEN part[k - at] ELSE cells[k]]

\* The arena after the host's copies: what no part covers stays.
Copied(cells) ==
  LET copies == {k \in DOMAIN Slab.parts : ~Slab.parts[k].direct}
      at(k) == {p \in copies : k - Slab.parts[p].at \in 1..Slab.parts[p].count}
      Cell(k) == LET part == Slab.parts[CHOOSE p \in at(k) : TRUE]
                 IN  Private(part.source)[part.offset + k - part.at]
  IN  [k \in DOMAIN cells |-> IF at(k) = {} THEN cells[k] ELSE Cell(k)]

Consume(view) == digest \o Slice(arena[view[1]], 0, Used(Slabs[view[2]]))

\* acquire_arena, the copies, and the reads handed to the pool.  A batch of
\* this arena that was not digested yet is digested first.
Fill ==
  /\ pc = "fill" /\ Waited(Arena)
  /\ IF native.acquired[Arena] \/ WaitFails(Arena)
     THEN Fail /\ UNCHANGED <<arena, native, reads, unhashed, digest>>
     ELSE LET same == unhashed # <<>> /\ unhashed[1] = Arena
          IN  /\ arena' = [arena EXCEPT ![Arena] = Copied(@)]
              /\ native' = [native EXCEPT !.acquired[Arena] = TRUE, !.inflight[Arena] = FALSE]
              /\ reads' = [k \in DOMAIN Slab.parts |->
                             IF Slab.parts[k].direct THEN "reading" ELSE "ok"]
              /\ digest' = IF same THEN Consume(unhashed) ELSE digest
              /\ unhashed' = IF same THEN <<>> ELSE unhashed
              /\ pc' = IF load.kind = "delta" THEN "hash" ELSE "submit"
  /\ UNCHANGED <<deployment, damaged, faults, device, memory, state, load, ready, hot, result,
                 handle>>

\* hash_pending: the previous batch is digested, and copied for the hot cache,
\* from its arena while this batch is read.
Hash ==
  /\ pc = "hash"
  /\ digest' = IF unhashed = <<>> THEN digest ELSE Consume(unhashed)
  /\ unhashed' = <<>>
  /\ pc' = IF load.slab > Len(Slabs) THEN "verify" ELSE "submit"
  /\ UNCHANGED <<deployment, damaged, faults, gpu, native, state, load, ready, reads, hot,
                 result, handle>>

\* mutant of Settled: the first future that completes is enough.
SettledOnce == reads = <<>> \/ \E k \in DOMAIN reads : reads[k] # "reading"

Settled == \A k \in DOMAIN reads : reads[k] # "reading"

Fault(kind) == kind \in Faults /\ faults < MaxFaults /\ faults' = faults + 1

\* A launch: the kernel is queued, an event behind it is recorded.
Launch(spans) ==
  LET all == Len(spans) + 1
  IN  /\ device' = [device EXCEPT !.kernels[Arena] = spans]
      /\ native' = [native EXCEPT
                       !.acquired[Arena] = FALSE, !.inflight[Arena] = TRUE, !.slabs = @ + 1,
                       !.submitted = @ + Before(spans, all, 0),
                       !.covered = [l \in Layers |-> @[l] + Before(spans, all, l)]]

\* The launch or the record of its event fails: the kernel may be queued all the
\* same, the arena stays acquired, and no wait knows of it.
LaunchFails(spans) ==
  /\ \E queued \in {spans, NoKernel} : device' = [device EXCEPT !.stray[Arena] = queued]
  /\ UNCHANGED native

SourcesOf(slab) == {slab.parts[k].source : k \in DOMAIN slab.parts}

\* What stays in private memory behind a slab: sources a later slab copies
\* from, unless the bounded cache had no room for the ones of this slab.
Recurring ==
  {r \in ready : \E k \in DOMAIN Slabs : k > load.slab /\ r[1] \in SourcesOf(Slabs[k])}

Kept == {Recurring, {r \in Recurring : r[1] \notin SourcesOf(Slab)}}

\* Once every read of the slab passed its check the slab is submitted.  A
\* failed check waits for the other reads and then fails the restore.
Submit ==
  /\ pc = "submit" /\ Settled
  /\ IF (\E k \in DOMAIN reads : reads[k] = "bad") \/ device.dead \/ ~Advances(Slab.spans)
     THEN Fail /\ UNCHANGED <<faults, device, native, load, unhashed>>
     ELSE \/ /\ Launch(Slab.spans)
             /\ load' = [load EXCEPT !.slab = @ + 1]
             /\ unhashed' = IF load.kind = "delta" THEN <<Arena, load.slab>> ELSE <<>>
             /\ pc' = IF load.slab < Len(Slabs) THEN "load"
                      ELSE IF load.kind = "delta" THEN "hash" ELSE "finish"
             /\ UNCHANGED faults
          \/ /\ Fault("launch")
             /\ LaunchFails(Slab.spans)
             /\ Fail /\ UNCHANGED <<load, unhashed>>
  /\ reads' = <<>>
  /\ ready' \in IF load.kind = "delta" THEN Kept ELSE {Recurring}
  /\ UNCHANGED <<deployment, damaged, arena, memory, state, digest, hot, result, handle>>

\* The digest of the composed result is compared with the newest header's
\* under sha256; then the private copy is kept.
Verify ==
  /\ pc = "verify"
  /\ IF integrity = "sha256" /\ digest # FlattenSeq(Reference(load.history).payload)
     THEN Fail /\ UNCHANGED hot
     ELSE /\ hot' = Remembered(load.history, <<digest>>)
          /\ pc' = "finish"
  /\ UNCHANGED <<deployment, damaged, faults, gpu, native, state, load, progress, result, handle>>

\* finish: the slabs cover the snapshot, every arena's event passed, the
\* device reported no error; then the request may resume.
Complete ==
  /\ native.submitted = PayloadBytes(Reference(load.history).pages)
  /\ \A l \in Layers : native.covered[l] = LayerBytes(Reference(load.history).pages, l)

Finish ==
  /\ pc = "finish"
  /\ IF ~Complete THEN Fail /\ UNCHANGED <<native, state, result>>
     ELSE /\ \A a \in Arenas : Waited(a)
          /\ IF device.dead
             THEN Fail /\ UNCHANGED <<native, state, result>>
             ELSE /\ native' = [native EXCEPT !.active = FALSE,
                                              !.inflight = [a \in Arenas |-> FALSE]]
                  /\ IF device.error THEN Fail /\ UNCHANGED <<state, result>>
                     ELSE /\ state' = "FINISHED" /\ pc' = "idle"
                          /\ result' = IF native.slabs = Len(Slabs) THEN "verified"
                                       ELSE "recompute"
  /\ UNCHANGED <<deployment, damaged, faults, gpu, load, progress, hot, handle>>

\* abort_restore stops at the first arena whose wait fails and then leaves
\* the handle active; the transaction is over either way.
Aborted ==
  IF \E a \in Arenas : WaitFails(a)
  THEN LET stuck == Min({a \in Arenas : WaitFails(a)})
       IN  [native EXCEPT !.acquired = [a \in Arenas |-> a >= stuck /\ @[a]]]
  ELSE [native EXCEPT !.active = FALSE, !.submitted = 0, !.covered = [l \in Layers |-> 0],
                      !.acquired = [a \in Arenas |-> FALSE],
                      !.inflight = [a \in Arenas |-> FALSE]]

Abort ==
  /\ pc = "fail" /\ Settled
  /\ \A a \in Arenas : Waited(a)
  /\ native' = Aborted
  /\ state' = "ABORTED" /\ pc' = "give up"
  /\ UNCHANGED <<deployment, damaged, faults, gpu, load, progress, hot, result, handle>>

\* The connector retires the entry and publishes the blocks as invalid.
GiveUp ==
  /\ pc = "give up"
  /\ result' = "recompute" /\ pc' = "idle"
  /\ UNCHANGED <<deployment, damaged, faults, gpu, native, state, load, progress, hot, handle>>

----------------------------------------------------------------------------
(* restore_page_snapshot: the host composes a history, for a deployment      *)
(* without native restore and for the store worker, which publishes on it.   *)

\* The base is read whole, and of the tails what survives.
ComposeReads(h) == ToSet(StageObjects[h][0]) \cup
                   UNION {{span.source : span \in ToSet(spans)} : spans \in ToSet(ComposePlans[h])}

Composition(h) ==
  LET Placed(span) == Slice(ReadCells(h, span.source), span.offset, span.offset + span.count)
      Layer(spans) == FlattenSeq([k \in DOMAIN spans |-> Placed(spans[k])])
  IN  [l \in Layers |-> Layer(ComposePlans[h][l])]

Copy(h) ==
  LET pages == Reference(h).pages
      from(l) == 1 + LayerStart(pages, l)
  IN  [l \in Layers |-> Slice(hot[h], from(l), from(l) + LayerBytes(pages, l))]

\* The restored snapshot, and nothing where a check fails: that of a header
\* read now, a source's or, under sha256, the newest header's of the result.
Restored(h, headers) ==
  IF \E o \in headers : ~Intact(h, o) THEN {}
  ELSE IF hot[h] # <<>> THEN {Copy(h)}
  ELSE {payload \in {Composition(h)} :
          /\ \A source \in ComposeReads(h) : Matches(h, source, ReadCells(h, source))
          /\ integrity = "sha256" => payload = Reference(h).payload}

\* The store worker materializes the base of its next publication.
Materialize(h) ==
  /\ handle = "open" /\ hotBudget /\ hot[h] = <<>>
  /\ \E headers \in SUBSET Headers(h) :
       \E payload \in Restored(h, headers) : hot' = Remembered(h, payload)
  /\ UNCHANGED <<deployment, damaged, faults, gpu, native, state, pc, load, progress, result,
                 handle>>

\* A load without native restore: the snapshot is split into layers, written
\* to the blocks, and the load stream is waited for.
PythonRestore(h) ==
  /\ executor = "python" /\ Idle
  /\ load' = [history |-> h, kind |-> "python", slabs |-> <<>>, slab |-> 1,
              number |-> load.number + 1]
  /\ \E headers \in SUBSET Headers(h) :
       \/ \E payload \in Restored(h, headers) :
            memory' = payload /\ hot' = Remembered(h, payload) /\ result' = "verified"
       \/ /\ Restored(h, headers) = {}
          /\ memory' = Blank(h) /\ result' = "recompute"
          /\ UNCHANGED hot
  /\ UNCHANGED <<deployment, damaged, faults, device, arena, native, state, pc, progress, handle>>

\* Connector shutdown: a handle a live loader may use is left to the process;
\* otherwise it is destroyed after the arenas' events.
Shutdown ==
  /\ handle = "open"
  /\ IF pc = "idle"
     THEN (\A a \in Arenas : Waited(a)) /\ handle' = "closed"
     ELSE handle' = "leaked"
  /\ UNCHANGED <<deployment, damaged, faults, gpu, native, state, pc, load, progress, hot, result>>

----------------------------------------------------------------------------
(* The read pool and the GPU. *)

\* mutant of PoolRead: a failed check is never reported to its future.
PoolReadSilent(k) ==
  /\ k \in DOMAIN reads /\ reads[k] = "reading"
  /\ LET part == Slab.parts[k]
         cells == ReadCells(load.history, part.source)
     IN  /\ arena' = [arena EXCEPT ![Arena] = Lay(@, part.at, cells)]
         /\ reads' = [reads EXCEPT ![k] =
                        IF Matches(load.history, part.source, cells) THEN "ok" ELSE @]
  /\ UNCHANGED <<deployment, damaged, faults, device, memory, native, state, pc, load, ready,
                 unhashed, digest, hot, result, handle>>

\* _read_authenticated_tail_into: read into the arena, checked in place.
PoolRead(k) ==
  /\ k \in DOMAIN reads /\ reads[k] = "reading"
  /\ LET part == Slab.parts[k]
         cells == ReadCells(load.history, part.source)
     IN  /\ arena' = [arena EXCEPT ![Arena] = Lay(@, part.at, cells)]
         /\ reads' = [reads EXCEPT ![k] =
                        IF Matches(load.history, part.source, cells) THEN "ok" ELSE "bad"]
  /\ UNCHANGED <<deployment, damaged, faults, device, memory, native, state, pc, load, ready,
                 unhashed, digest, hot, result, handle>>

\* The cells a kernel of arena a with these spans would place if it ran now.
Scatter(a, spans) ==
  LET hit(l, k) == {j \in DOMAIN spans : spans[j].dest = l
                                         /\ k - spans[j].place \in 1..spans[j].count}
      Cell(l, k) == LET span == spans[CHOOSE j \in hit(l, k) : TRUE]
                    IN  arena[a][span.at + k - span.place]
  IN  [l \in Layers |-> [k \in DOMAIN memory[l] |->
                           IF hit(l, k) = {} THEN memory[l][k] ELSE Cell(l, k)]]

\* In the order of the arena's stream.
RunKernel(a) ==
  /\ device.kernels[a] # NoKernel /\ device.stray[a] = NoKernel
  /\ memory' = Scatter(a, device.kernels[a])
  /\ device' = [device EXCEPT !.kernels[a] = NoKernel]
  /\ UNCHANGED <<deployment, damaged, faults, arena, native, state, pc, load, progress, hot,
                 result, handle>>

\* The kernel of a launch that failed.  Once the next restore has begun the slot table
\* it reads is that of the next restore.
RunStray(a) ==
  /\ device.stray[a] # NoKernel
  /\ IF pc = "begin" THEN UNCHANGED memory ELSE memory' = Scatter(a, device.stray[a])
  /\ device' = [device EXCEPT !.stray[a] = NoKernel, !.spoiled = @ \/ pc # "begin"]
  /\ UNCHANGED <<deployment, damaged, faults, arena, native, state, pc, load, progress, hot,
                 result, handle>>

----------------------------------------------------------------------------
(* Faults. *)

\* A stored object is overwritten or torn.
Damage ==
  /\ Fault("damage")
  /\ \E h \in Stored : \E o \in AllObjects(h) :
       <<h, o>> \notin damaged /\ damaged' = damaged \cup {<<h, o>>}
  /\ UNCHANGED <<deployment, gpu, native, state, pc, load, progress, hot, result, handle>>

\* A kernel finds a descriptor out of bounds: it places nothing and says so.
DeviceError(a) ==
  /\ Fault("device")
  /\ device.kernels[a] # NoKernel
  /\ device' = [device EXCEPT !.kernels[a] = NoKernel, !.error = TRUE]
  /\ UNCHANGED <<deployment, damaged, arena, memory, native, state, pc, load, progress, hot,
                 result, handle>>

\* The CUDA context dies: no kernel runs and every later call fails.
ContextDies ==
  /\ Fault("dead")
  /\ device' = [device EXCEPT !.dead = TRUE, !.kernels = [a \in Arenas |-> NoKernel],
                              !.stray = [a \in Arenas |-> NoKernel]]
  /\ UNCHANGED <<deployment, damaged, arena, memory, native, state, pc, load, progress, hot,
                 result, handle>>

Restore == \/ Begin \/ Load \/ Fill \/ Hash \/ Submit \/ Verify \/ Finish \/ Abort \/ GiveUp

Next == \/ \E h \in Stored : Plan(h) \/ PythonRestore(h)
        \/ \E h \in Published : Materialize(h)
        \/ Restore
        \/ Shutdown
        \/ \E k \in DOMAIN reads : PoolRead(k)
        \/ \E a \in Arenas : RunKernel(a) \/ RunStray(a) \/ DeviceError(a)
        \/ Damage \/ ContextDies

Spec == Init /\ [][Next]_vars

\* The loader thread, the pool's threads and the GPU run; a new request and a
\* shutdown may never come.
Fairness ==
  /\ WF_vars(Restore)
  /\ WF_vars(\E k \in DOMAIN reads : PoolRead(k))
  /\ \A a \in Arenas : WF_vars(RunKernel(a)) /\ WF_vars(RunStray(a))

FairSpec == Spec /\ Fairness

----------------------------------------------------------------------------
(* Properties. *)

Cells == {Junk, Header} \cup
         UNION {UNION {ToSet(Histories[h][s].payload[l]) : l \in Layers} :
                  <<h, s>> \in {x \in Stored \X (1..4) : x[2] <= Len(Histories[x[1]])}}

\* The shape of the state, and what the flags imply of each other: a parked
\* transaction has an active handle, an arena is never both acquired by the
\* host and in flight, and reads are outstanding only while a slab is filled.
TypeOK ==
  /\ integrity \in Integrities /\ hotBudget \in BOOLEAN /\ faults \in 0..MaxFaults
  /\ \A d \in damaged : d[1] \in Stored /\ d[2] \in AllObjects(d[1])
  /\ \A a \in Arenas : Len(arena[a]) = ArenaBytes /\ ToSet(arena[a]) \subseteq Cells
  /\ state \in {"NONE", "PARKED", "FINISHED", "ABORTED"}
  /\ pc \in {"idle", "begin", "load", "fill", "hash", "submit", "verify", "finish", "fail",
             "give up"}
  /\ state = "PARKED" =>
       native.active \/ (pc = "fail" /\ device.error)
  /\ \A a \in Arenas : ~(native.acquired[a] /\ native.inflight[a])
  /\ ~Settled => native.acquired[Arena] /\ pc \in {"hash", "submit"}
  /\ result \in {"none", "verified", "recompute"} /\ handle \in {"open", "closed", "leaked"}

Checked == integrity # "none" \/ load.history \in Rows

\* Whatever kernel is launched and not yet run would place exactly the
\* snapshot's cells at its destinations: no slab is submitted with bytes that
\* failed or skipped their check, and no arena is overwritten, by a copy, a
\* pool read or the next restore, before its kernel ran.  (Except for the kernel of a
\* launch that failed, whose arena the next restore fills.)
LaunchedIntact ==
  /\ TypeOK
  /\ \A a \in Arenas : Checked /\ device.kernels[a] # NoKernel =>
      \A k \in DOMAIN device.kernels[a] :
        LET span == device.kernels[a][k]
        IN  Slice(arena[a], span.at, span.at + span.count)
              = Slice(Reference(load.history).payload[span.dest], span.place,
                      span.place + span.count)

\* What the hot cache keeps is the snapshot its digest names, so a later
\* restore placed from memory needs no check.
HotExact ==
  integrity # "none" =>
    \A h \in Stored : hot[h] \in {<<>>, EncodeSnapshot(Reference(h))}

\* A request resumes only with every page of the snapshot its history denotes
\* in place, whichever executor ran and however the history was planned; and what
\* the hot cache keeps for later restores is that snapshot.  (Except when the kernel of
\* a launch that failed in an earlier restore ran meanwhile.)
ResumesExact ==
  /\ result = "verified" /\ Checked /\ ~device.spoiled =>
       /\ state = "FINISHED" \/ load.kind = "python"
       /\ memory = Reference(load.history).payload
  /\ HotExact

\* Once a request's blocks are handed back for recomputation, or the handle is
\* destroyed, or the next restore starts filling arenas, no kernel of the
\* ended restore is left that writes them.  Excepted are the kernels in device.stray,
\* queued by a launch that then failed: abort_restore and begin_page_restore do not
\* wait for those.
NoLateWriter ==
  (pc \in {"idle", "give up", "begin"} \/ handle = "closed") =>
    \A a \in Arenas : device.kernels[a] = NoKernel

\* A restore is given up only for a cause: a damaged file, a device error or
\* a failed CUDA call.  The plans never trip the placement's own checks.
GivenUpForCause == result = "recompute" => faults > 0

\* Every restore ends, verified or given up: neither the abort nor the next
\* batch waits for something nobody will do.
RestoreReturns == [](pc # "idle" => <>(pc = "idle"))
============================================================================
