---------------------------- MODULE MCVirtioDisk ---------------------------
(***************************************************************************)
(* Small instances of VirtioDisk for TLC.                                  *)
(***************************************************************************)
EXTENDS VirtioDisk, TLC

\* Buffers and data are interchangeable.
Symmetry == Permutations(Buf) \cup Permutations(Data)
=============================================================================
