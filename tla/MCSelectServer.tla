--------------------------- MODULE MCSelectServer ---------------------------
EXTENDS SelectServer, TLC

\* The clients that wait for answers are interchangeable.
ClientSymmetry == Permutations(Clients \ Eager)
=============================================================================
