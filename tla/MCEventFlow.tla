----------------------------- MODULE MCEventFlow -----------------------------
\* Three slots in a diamond's half: 1 feeds 2 and 3, and 2 feeds 3 over two
\* edges of the same kind (connect accepts an edge twice).
EXTENDS EventFlow

\* One node that feeds another.
MCPair == <<<<2>>, <<>>>>

MCRoutes == <<<<2, 3>>, <<3, 3>>, <<>>>>
=============================================================================
