----------------------------- MODULE MCLogQueue -----------------------------
(* LogQueue with small sets of threads for TLC. *)
EXTENDS LogQueue, TLC

\* Pushers are interchangeable, and so are poppers.
Symmetry == Permutations(Pushers) \cup Permutations(Poppers)
=============================================================================
