----------------------------- MODULE MCEchoFifo -----------------------------
EXTENDS EchoFifo, TLC

\* The clients that cannot be killed and have safe names are interchangeable.
ImmortalSymmetry == Permutations(Clients \ (Mortal \cup Unsafe))
=============================================================================
