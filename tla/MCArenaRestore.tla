-------------------------- MODULE MCArenaRestore --------------------------
(* Three layers in two groups and the histories of one cache.             *)
EXTENDS ArenaRestore

\* Group 1 has two layers of one cell per page, group 2 one of two cells.
MCLayout == <<[group |-> 1, size |-> 1], [group |-> 1, size |-> 1], [group |-> 2, size |-> 2]>>

\* The s-th snapshot, with pages[g] pages in group g, that keeps the first
\* kept[l] pages of layer l of its predecessor and rewrites the rest.
Grown(before, s, pages, kept) ==
  LET Layer(l) == [k \in 1..(pages[MCLayout[l].group] * MCLayout[l].size) |->
                     IF k <= kept[l] * MCLayout[l].size THEN before.payload[l][k]
                     ELSE <<s, l, k>>]
  IN  [pages |-> pages, payload |-> [l \in DOMAIN MCLayout |-> Layer(l)]]

Fresh(pages) == Grown(<<>>, 0, pages, <<0, 0, 0>>)

\* A flat snapshot; one whose first stage rewrites the boundary page of one
\* layer, and whose second supersedes part of a tail and leaves a group alone;
\* one that appends a page to every layer; the flat snapshot as row chunks.
Sample ==
  LET flat == Fresh(<<2, 2>>)
      small == Fresh(<<1, 1>>)
      grown == Grown(small, 1, <<2, 2>>, <<1, 0, 0>>)
      again == Grown(grown, 2, <<3, 2>>, <<1, 1, 2>>)
      appended == Grown(small, 1, <<2, 2>>, <<1, 1, 1>>)
  IN  <<<<flat>>, <<small, grown, again>>, <<small, appended>>, <<flat>>>>

MCHistories == Sample
============================================================================
