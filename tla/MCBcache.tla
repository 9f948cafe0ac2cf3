------------------------------ MODULE MCBcache -----------------------------
(***************************************************************************)
(* Small instances of Bcache for TLC.                                      *)
(***************************************************************************)
EXTENDS Bcache

\* Processes, buffers, blocks and data are interchangeable.
Symmetry == Permutations(Proc) \cup Permutations(Buf) \cup Permutations(Block)
=============================================================================
