------------------------------- MODULE MCProc ------------------------------
(***************************************************************************)
(* Small instances of Proc for TLC.                                        *)
(***************************************************************************)
EXTENDS Proc, TLC

\* CPUs are interchangeable, and so are the entries of proc[] other than init's.
Symmetry == Permutations(CPU) \cup Permutations(Slot \ {init})
=============================================================================
