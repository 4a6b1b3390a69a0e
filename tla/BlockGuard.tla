----------------------------- MODULE BlockGuard -----------------------------
(***************************************************************************)
(* What the block lease registry promises (block_lease.py, the module's    *)
(* introduction): a block has at most one holder, it is never taken over   *)
(* directly, only held blocks are read by the GPU, and a block stays held  *)
(* until nothing reads it.                                                 *)
(***************************************************************************)
CONSTANTS Requests, Blocks, Free

VARIABLES holder, read

Init == holder = [b \in Blocks |-> Free] /\ read = {}

\* Free blocks get a holder.
Acquire ==
    /\ holder' \in [Blocks -> Requests \cup {Free}]
    /\ \A b \in Blocks : holder'[b] # holder[b] => holder[b] = Free
    /\ UNCHANGED read

\* Blocks that nothing reads lose their holder.
Release ==
    /\ holder' \in [Blocks -> Requests \cup {Free}]
    /\ \A b \in Blocks : holder'[b] # holder[b] => holder'[b] = Free /\ b \notin read
    /\ UNCHANGED read

\* A read begins on held blocks, or ends.
StartRead ==
    /\ read \subseteq read' /\ \A b \in read' : b \in Blocks /\ holder[b] # Free
    /\ UNCHANGED holder

EndRead == read' \subseteq read /\ UNCHANGED holder

Next == Acquire \/ Release \/ StartRead \/ EndRead

Spec == Init /\ [][Next]_<<holder, read>>
=============================================================================
