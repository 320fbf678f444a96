--------------------------- MODULE MCPerformance ---------------------------
EXTENDS Performance

Track2 == {1, 2}
Pattern2 == {1, 2}
Kit2 == {1, 2}
\* A kit out of a file with a value beyond its range, and a free slot.
Kits == {[k \in Kit2 |-> IF k = 1 THEN <<1, 2>> ELSE None]}
Bindings == {[q \in Pattern2 |-> IF q = 2 THEN 1 ELSE None]}
NaNAndOne == {1, NaN}
=============================================================================
