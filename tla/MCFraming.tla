----------------------------- MODULE MCFraming ------------------------------
(* An instance of Framing for TLC. *)
EXTENDS Framing

\* Sizes 4, 9, 4, 12 and 5: a read takes up to 8 bytes, so it may hold one or
\* two messages and a part of the next, and some messages need two reads.
MCEnds == [k \in 0..N |-> <<0, 4, 13, 17, 29, 34>>[k + 1]]

\* The long form has 1 or 2 bytes of length, one message is in the short form
\* of the length but just above the 2 bytes that are not looked at.
MCHeadSize == [k \in 1..N |-> <<2, 4, 3, 3, 2>>[k]]
=============================================================================
