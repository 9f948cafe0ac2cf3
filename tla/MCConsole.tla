----------------------------- MODULE MCConsole ------------------------------
(* An instance of Console for TLC. *)
EXTENDS Console

CONSTANTS w1, w2, r1, r2, k1

MCText == <<"x", "y">>

\* Lines that end, that fill the buffer and that are edited, read by one or two threads;
\* writers with each other, with an echo and with printf(); what is not text.
MCScenarios ==
    ({{r1}} \X {<<"a", "\r">>, <<"a", "^H", "^H", "a">>, <<"a", "a", "^H", "a">>, <<"a", "^U", "^D">>})
    \cup ({{r1, r2}} \X {<<"a", "^D">>, <<"a", "a", "\r">>})
    \cup {<<{w1, w2}, <<"a">>>>, <<{w1}, <<"a", "^H">>>>, <<{w1, k1}, <<>>>>, <<{k1}, <<"^P", "NUL">>>>,
          <<{w1, r1}, <<"\r">>>>}
=============================================================================
