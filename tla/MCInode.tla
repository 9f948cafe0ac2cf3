------------------------------- MODULE MCInode ------------------------------
(***************************************************************************)
(* Small instances of Inode for TLC.                                       *)
(***************************************************************************)
EXTENDS Inode, TLC

CONSTANTS p1, p2

\* A name in the root or in the current directory.
DownPath == {<<"/", "a">>, <<"a">>}

\* Also a name in a directory of that name, and the parent directory.
UpPath == DownPath \cup {<<"/", "a", "a">>, <<"..">>}

\* One process makes every call, the other one only some.
MixedCalls == [p \in Proc |-> IF p = p1 THEN Op ELSE {"create", "unlink", "chdir"}]
=============================================================================
