------------------------------- MODULE MCPipe ------------------------------
(***************************************************************************)
(* Small instances of Pipe for TLC.                                        *)
(***************************************************************************)
EXTENDS Pipe, TLC

\* The processes but the first one are interchangeable, and so are the bytes.
Symmetry == Permutations(Proc \ {first}) \cup Permutations(Byte)
=============================================================================
