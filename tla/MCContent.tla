----------------------------- MODULE MCContent ------------------------------
(* An instance of Content for TLC. *)
EXTENDS Content, TLC

CONSTANTS p1, p2

\* mkfs copies a file of three bytes and two empty ones; file 0 is the root directory, open
\* for reading, files 1 and 2 are the first that mkfs copied, opened twice, and file 3 is the
\* second, which both processes have.
MCMkfsFiles == <<<<5, 6, 7>>, <<>>, <<>>>>
MCTag == p1 :> 8 @@ p2 :> 9
MCOfile == p1 :> {1, 3} @@ p2 :> {0, 2, 3}
MCIp == 0 :> ROOTINO @@ 1 :> 2 @@ 2 :> 2 @@ 3 :> 3
=============================================================================
