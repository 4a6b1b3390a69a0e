--------------------------- MODULE MCManifestStore ---------------------------
\* Two contexts, the second extending the first.
EXTENDS ManifestStore

CONSTANTS a, b

TwoContexts == {a, b}
Chain == [c \in TwoContexts |-> IF c = a THEN {a} ELSE {a, b}]
=============================================================================
