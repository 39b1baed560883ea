------------------------------ MODULE MCQueue ------------------------------
(* TLC instance of Queue: a few items, one or two snapshot holders.        *)
EXTENDS Queue

\* Items and clients are interchangeable in the safety runs.
Symmetry == Permutations(Items) \cup Permutations(Clients)
=============================================================================
