--------------------------- MODULE MCExclusivePool ---------------------------
(* Instantiates ExclusivePool for TLC: two tensors, three request sizes     *)
(* that share and split page size classes (4 and 5 bytes both land on an   *)
(* 8-byte page, 8 bytes on a 12-byte one), alignment 4, and a dealloc      *)
(* period of 5 so that cleanup inspects the pages after every reservation. *)
EXTENDS ExclusivePool, TLC

CONSTANTS t1, t2

MCTensors == {t1, t2}
MCSizes == {4, 5, 8}

\* Tensors are interchangeable: reservations, clones and launches treat them alike.
MCSymmetry == Permutations(MCTensors)
=============================================================================
