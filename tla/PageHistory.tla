--------------------------- MODULE PageHistory ---------------------------
(* Page snapshots, page deltas and the plans that restore them:            *)
(* spark_context_cache_hybrid.py, the planners of                          *)
(* spark_context_cache_cuda_hybrid_restore.py and                          *)
(* spark_context_cache_native_restore.py.                                  *)
(*                                                                         *)
(* A snapshot is [pages, payload]: the page count of every group and, for  *)
(* every layer, the sequence of its cells.  A history is a sequence of     *)
(* snapshots: the first is stored whole, every later one as a delta to its *)
(* predecessor.  A cell is an opaque value, so an encoded file is the      *)
(* sequence of the cells it holds behind one header cell.  Offsets are the *)
(* code's: they count cells from 0.                                        *)
EXTENDS Integers, Sequences, FiniteSets, SequencesExt

CONSTANTS
  Layout,         \* the layers in destination order: a sequence of [group, size]
  ObjectBytes,    \* the largest object a publication writes
  ArenaBytes,     \* the capacity of one placement arena
  PrefetchBytes   \* _MAX_PAGE_OBJECT_PREFETCH_BYTES

Layers == DOMAIN Layout
Groups == {Layout[l].group : l \in Layers}
Header == <<"header">>

Smaller(a, b) == IF a < b THEN a ELSE b
Larger(a, b) == IF a > b THEN a ELSE b

\* The sum of the first n numbers of s, and of all of them.
SumTo(s, n) ==
  LET sum[k \in 0..n] == IF k = 0 THEN 0 ELSE sum[k - 1] + s[k]
  IN  sum[n]
Total(s) == SumTo(s, Len(s))

\* The cells [from, to) of s.
Slice(s, from, to) == SubSeq(s, from + 1, to)

LayerBytes(pages, l) == pages[Layout[l].group] * Layout[l].size

\* Where layer l starts in the concatenation of all layers.
LayerStart(pages, l) == SumTo([k \in Layers |-> LayerBytes(pages, k)], l - 1)

PayloadBytes(pages) == Total([l \in Layers |-> LayerBytes(pages, l)])

----------------------------------------------------------------------------
(* The codec. *)

EncodeSnapshot(snapshot) == <<Header>> \o FlattenSeq(snapshot.payload)

\* mutant of Reusable: a page counts as shared as soon as one layer shares it.
ReusableInOneLayer(before, after, g) ==
  LET Same(page) ==
        \E l \in {k \in Layers : Layout[k].group = g} :
          LET from == page * Layout[l].size
              to == from + Layout[l].size
          IN  Slice(before.payload[l], from, to) = Slice(after.payload[l], from, to)
  IN  Max({n \in 0..before.pages[g] : \A page \in 0..(n - 1) : Same(page)})

\* The leading pages of group g that two snapshots share in every layer of
\* the group.
Reusable(before, after, g) ==
  LET Same(page) ==
        \A l \in {k \in Layers : Layout[k].group = g} :
          LET from == page * Layout[l].size
              to == from + Layout[l].size
          IN  Slice(before.payload[l], from, to) = Slice(after.payload[l], from, to)
  IN  Max({n \in 0..before.pages[g] : \A page \in 0..(n - 1) : Same(page)})

\* The delta names the pages it keeps and carries, layer by layer, what
\* follows them.
EncodeDelta(before, after) ==
  LET reused == [g \in Groups |-> Reusable(before, after, g)]
  IN  [base |-> before,
       cut |-> [l \in Layers |-> LayerBytes(reused, l)],
       tails |-> [l \in Layers |->
                    Slice(after.payload[l], LayerBytes(reused, l), LayerBytes(after.pages, l))]]

\* plan_page_delta: the extent of layer l's tail in the encoded delta.
TailStart(delta, l) == 1 + SumTo([k \in Layers |-> Len(delta.tails[k])], l - 1)
TailEnd(delta, l) == TailStart(delta, l) + Len(delta.tails[l])

Deltas(history) == [s \in 1..(Len(history) - 1) |-> EncodeDelta(history[s], history[s + 1])]

\* The file of stage s: the base snapshot (stage 0) or a delta.
Encoded(history, s) ==
  IF s = 0 THEN EncodeSnapshot(history[1])
  ELSE <<Header>> \o FlattenSeq(Deltas(history)[s].tails)

\* A source is an extent [start, end) of a stage's file that is read and
\* authenticated as one piece: a stored object, or the tail of one layer.
Source(s, start, end, tail) == [stage |-> s, start |-> start, end |-> end, tail |-> tail]
SourceBytes(source) == source.end - source.start

\* The stored objects of stage s, in order.
Objects(history, s) ==
  LET bytes == Len(Encoded(history, s))
  IN  [k \in 1..((bytes + ObjectBytes - 1) \div ObjectBytes) |->
         Source(s, (k - 1) * ObjectBytes, Smaller(k * ObjectBytes, bytes), FALSE)]

----------------------------------------------------------------------------
(* The delta planner: which stage writes which bytes of the result. *)

\* Per-layer tails as sources of their own, unless one is empty or too large
\* to be read as one piece; then the stage is read by whole objects.
TailBound == Smaller(ArenaBytes, PrefetchBytes)

ByTails(delta) == \A l \in Layers : Len(delta.tails[l]) \in 1..TailBound

TailSources(history, s, l) ==
  LET delta == Deltas(history)[s]
  IN  IF ByTails(delta) THEN <<Source(s, TailStart(delta, l), TailEnd(delta, l), TRUE)>>
      ELSE Objects(history, s)

\* A range [from, to) of a layer of the result comes from the sources' bytes
\* that begin at start.
RangeOf(from, to, start, sources) == [from |-> from, to |-> to, start |-> start, sources |-> sources]

BaseRange(history, l) ==
  <<RangeOf(0, LayerBytes(history[1].pages, l), 1 + LayerStart(history[1].pages, l),
          Objects(history, 0))>>

\* mutant of Overlay: what the tail replaces is kept at its full length.
OverlayUncut(ranges, cut, tail) == Append(SelectSeq(ranges, LAMBDA r : r.from < cut), tail)

\* A tail replaces everything from its cut on.
Overlay(ranges, cut, tail) ==
  LET kept == SelectSeq(ranges, LAMBDA r : r.from < cut)
  IN  Append([k \in DOMAIN kept |-> [kept[k] EXCEPT !.to = Smaller(@, cut)]], tail)

\* The ranges of layer l of the result; TailsOf(s) are the sources of stage s.
RangesFrom(history, l, TailsOf(_)) ==
  LET deltas == Deltas(history)
      TailOf(s) == RangeOf(deltas[s].cut[l], deltas[s].cut[l] + Len(deltas[s].tails[l]),
                           TailStart(deltas[s], l), TailsOf(s))
      After[s \in 0..Len(deltas)] ==
        IF s = 0 THEN BaseRange(history, l)
        ELSE Overlay(After[s - 1], deltas[s].cut[l], TailOf(s))
  IN  After[Len(deltas)]

LayerRanges(history, l) == RangesFrom(history, l, LAMBDA s : TailSources(history, s, l))

\* The planner's checks: every stage extends the result of the one before it,
\* and the ranges of a layer cover it without a gap.
Covered(ranges, bytes) ==
  /\ ranges[1].from = 0
  /\ \A k \in 1..(Len(ranges) - 1) : ranges[k].to = ranges[k + 1].from
  /\ ranges[Len(ranges)].to = bytes

PlanAccepted(history) ==
  /\ \A s \in DOMAIN Deltas(history) : Deltas(history)[s].base = history[s]
  /\ \A l \in Layers :
       Covered(LayerRanges(history, l), LayerBytes(history[Len(history)].pages, l))

\* A span places count cells of a source, from offset on, at place in layer
\* dest, that is at snap in the concatenated layers.
SplitRange(range, snapshotBase, dest) ==
  LET end == range.start + range.to - range.from
      From(o) == Larger(range.start, o.start)
      To(o) == Smaller(end, o.end)
      hit == SelectSeq(range.sources, LAMBDA o : From(o) < To(o))
  IN  [k \in DOMAIN hit |->
         LET place == range.from + From(hit[k]) - range.start
         IN  [source |-> hit[k], offset |-> From(hit[k]) - hit[k].start,
              count |-> To(hit[k]) - From(hit[k]), dest |-> dest, place |-> place,
              snap |-> snapshotBase + place]]

SourceSpans(history) ==
  LET pages == history[Len(history)].pages
      LayerSpans(l) ==
        LET ranges == LayerRanges(history, l)
        IN  FlattenSeq([k \in DOMAIN ranges |-> SplitRange(ranges[k], LayerStart(pages, l), l)])
  IN  FlattenSeq([l \in Layers |-> LayerSpans(l)])

----------------------------------------------------------------------------
(* compose_page_history: the same overlay on the host.  The base is read     *)
(* whole and every surviving tail once; a superseded tail is never read.     *)

ComposedRanges(history, l) ==
  LET WholeTail(s) ==
        <<Source(s, TailStart(Deltas(history)[s], l), TailEnd(Deltas(history)[s], l), TRUE)>>
  IN  SelectSeq(RangesFrom(history, l, WholeTail), LAMBDA r : r.from < r.to)

ComposedSpans(history) ==
  LET Spans(l) == LET ranges == ComposedRanges(history, l)
                  IN  FlattenSeq([k \in DOMAIN ranges |-> SplitRange(ranges[k], 0, l)])
  IN  [l \in Layers |-> Spans(l)]

----------------------------------------------------------------------------
(* Slabs: what one arena carries.  A part fills cells of the arena, either  *)
(* by a copy from authenticated private bytes or by a read straight into    *)
(* the arena; a copy span tells the kernel which cells go where.            *)

\* Consecutive items are packed into batches while they fit: Fits(batch, x).
Pack(items, Fits(_, _)) ==
  LET packed[n \in 0..Len(items)] ==
        IF n = 0 THEN <<>>
        ELSE LET batches == packed[n - 1]
             IN  IF n > 1 /\ Fits(Last(batches), items[n])
                 THEN Append(Front(batches), Append(Last(batches), items[n]))
                 ELSE Append(batches, <<items[n]>>)
  IN  packed[Len(items)]

\* The item starts of a batch laid out one behind the other.
Offsets(counts) == [k \in DOMAIN counts |-> SumTo(counts, k - 1)]

SubmissionBatches(spans) ==
  LET Spans(batch) == Total([k \in DOMAIN batch |-> batch[k].count])
      Read(sources) == Total([k \in 1..Cardinality(sources) |-> SourceBytes(SetToSeq(sources)[k])])
      Fits(batch, span) ==
        /\ Spans(batch) + span.count <= ArenaBytes
        /\ Read({x.source : x \in ToSet(batch)} \cup {span.source}) <= PrefetchBytes
  IN  Pack(spans, Fits)

\* A tail that one span places whole is read into its place in the arena.
PlacedWhole(span, spans) ==
  /\ span.source.tail /\ span.offset = 0 /\ span.count = SourceBytes(span.source)
  /\ Cardinality({k \in DOMAIN spans : spans[k].source = span.source}) = 1

DeltaSlabs(spans) ==
  LET Slab(batch) ==
        LET at == Offsets([k \in DOMAIN batch |-> batch[k].count])
        IN  [parts |-> [k \in DOMAIN batch |->
                          [source |-> batch[k].source, offset |-> batch[k].offset,
                           count |-> batch[k].count, at |-> at[k],
                           direct |-> PlacedWhole(batch[k], spans)]],
             spans |-> [k \in DOMAIN batch |->
                          [at |-> at[k], snap |-> batch[k].snap, dest |-> batch[k].dest,
                           place |-> batch[k].place, count |-> batch[k].count]]]
      batches == SubmissionBatches(spans)
  IN  [k \in DOMAIN batches |-> Slab(batches[k])]

\* The copy spans of the payload cells [from, to) of a flat snapshot that lie
\* in the arena behind skip cells.
FlatSpans(pages, from, to, skip) ==
  LET Start(l) == Larger(from, LayerStart(pages, l))
      End(l) == Smaller(to, LayerStart(pages, l) + LayerBytes(pages, l))
      hit == SelectSeq([l \in Layers |-> l], LAMBDA l : Start(l) < End(l))
  IN  [k \in DOMAIN hit |->
         [at |-> skip + Start(hit[k]) - from, snap |-> Start(hit[k]), dest |-> hit[k],
          place |-> Start(hit[k]) - LayerStart(pages, hit[k]),
          count |-> End(hit[k]) - Start(hit[k])]]

\* plan_page_slabs: a snapshot in memory, cut at arena boundaries.
SnapshotSlabs(snapshot) ==
  LET bytes == PayloadBytes(snapshot.pages)
  IN  [k \in 1..((bytes + ArenaBytes - 1) \div ArenaBytes) |->
         LET from == (k - 1) * ArenaBytes
             to == Smaller(bytes, k * ArenaBytes)
         IN  [parts |-> <<[source |-> Source(0, 1 + from, 1 + to, FALSE), offset |-> 0,
                           count |-> to - from, at |-> 0, direct |-> FALSE]>>,
              spans |-> FlatSpans(snapshot.pages, from, to, 0)]]

\* build_page_object_spans: one slab for each stored object; the first one
\* carries the header cell, which no span places.
ObjectSlabs(history) ==
  LET objects == Objects(history, 0)
      Slab(o) ==
        LET first == Larger(o.start, 1)
        IN  [parts |-> <<[source |-> o, offset |-> 0, count |-> SourceBytes(o),
                          at |-> 0, direct |-> FALSE]>>,
             spans |-> FlatSpans(history[1].pages, first - 1, o.end - 1, first - o.start)]
  IN  [k \in DOMAIN objects |-> Slab(objects[k])]

\* plan_native_restore: chunks packed into slabs and read into the arena.
ChunkSlabs(history) ==
  LET Bytes(batch) == Total([k \in DOMAIN batch |-> SourceBytes(batch[k])])
      batches == Pack(Objects(history, 0),
                      LAMBDA batch, o : Bytes(batch) + SourceBytes(o) <= ArenaBytes)
      Slab(batch) ==
        LET at == Offsets([k \in DOMAIN batch |-> SourceBytes(batch[k])])
            first == Larger(batch[1].start, 1)
        IN  [parts |-> [k \in DOMAIN batch |->
                          [source |-> batch[k], offset |-> 0, count |-> SourceBytes(batch[k]),
                           at |-> at[k], direct |-> TRUE]],
             spans |-> FlatSpans(history[1].pages, first - 1, Last(batch).end - 1,
                                 first - batch[1].start)]
  IN  [k \in DOMAIN batches |-> Slab(batches[k])]
============================================================================
