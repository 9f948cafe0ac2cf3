-------------------------------- MODULE Tty ---------------------------------
(***************************************************************************)
(* What the console promises to those who read it: the line being typed    *)
(* can be edited and nobody sees it; a line that has ended, or that fills  *)
(* the buffer, can be read and no longer be edited.  A read takes          *)
(* characters in the order they were typed, at most up to the end of a     *)
(* line; end-of-file is seen by a read that has taken nothing, which       *)
(* returns 0.  Only a reader with a bad buffer loses a character.          *)
(***************************************************************************)
EXTENDS Naturals, Sequences, SequencesExt

CONSTANTS Char, NL, EOF, Size, Reader, Faulty

VARIABLES line, ready, got

vars == <<line, ready, got>>

Init == line = <<>> /\ ready = <<>> /\ got = [t \in Reader |-> <<>>]

Type(c) ==
    /\ Len(ready) + Len(line) < Size
    /\ LET typed == Append(line, c)
       IN IF c \in {NL, EOF} \/ Len(ready) + Len(typed) = Size
          THEN ready' = ready \o typed /\ line' = <<>>
          ELSE line' = typed /\ UNCHANGED ready
    /\ UNCHANGED got

Erase == line # <<>> /\ line' = Front(line) /\ UNCHANGED <<ready, got>>

Start(t) == got' = [got EXCEPT ![t] = <<>>] /\ UNCHANGED <<line, ready>>

Take(t) ==
    /\ ready # <<>> /\ Head(ready) # EOF
    /\ got[t] # <<>> => Last(got[t]) # NL
    /\ got' = [got EXCEPT ![t] = Append(@, Head(ready))]
    /\ ready' = Tail(ready)
    /\ UNCHANGED line

EndOfFile(t) ==
    /\ ready # <<>> /\ Head(ready) = EOF /\ got[t] = <<>>
    /\ ready' = Tail(ready) /\ got' = [got EXCEPT ![t] = <<EOF>>]
    /\ UNCHANGED line

Lose(t) ==
    /\ t \in Faulty /\ ready # <<>> /\ Head(ready) # EOF /\ ready' = Tail(ready)
    /\ UNCHANGED <<line, got>>

Next ==
    \/ Erase
    \/ \E c \in Char : Type(c)
    \/ \E t \in Reader : Start(t) \/ Take(t) \/ EndOfFile(t) \/ Lose(t)

Spec == Init /\ [][Next]_vars
=============================================================================
