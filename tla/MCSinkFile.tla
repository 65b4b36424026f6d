----------------------------- MODULE MCSinkFile ------------------------------
(* SinkFile with small bounds for TLC. *)
EXTENDS SinkFile, TLC

CONSTANTS log1, log2

TwoPaths == {log1, log2}
OnePath == {log1}
Symmetry == Permutations(TwoPaths)

AllFaults == {"full", "unwritable", "rotate"}
Rotation == {"rotate"}
NoFaults == {}
=============================================================================
