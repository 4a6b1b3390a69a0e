---------------------------- MODULE MCCaptureReads ----------------------------
\* The instances of CaptureReads that TLC checks: one rank that meets two requests,
\* and two ranks that capture the same request.
EXTENDS CaptureReads, TLC

MCTeams ==
    [ranks : {{r} : r \in Ranks}, requests : {Requests}]
        \cup [ranks : {Ranks}, requests : {{q} : q \in Requests}]

\* Which two adverse events one behaviour of the job mode meets.  One rank: any, the
\* second of them after the second job only if one is a fault.  Two ranks: a fault and
\* something else.
FewEvents ==
    \/ events < 2 \/ mode = "requests"
    \/ IF Cardinality(team.ranks) = 1 THEN faults > 0 \/ sequence < 2 ELSE faults = 1

Symmetry == Permutations(Ranks) \cup Permutations(Requests)
=============================================================================
