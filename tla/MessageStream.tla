--------------------------- MODULE MessageStream ----------------------------
(***************************************************************************)
(* What the reading side of an LDAP connection promises to the session:    *)
(* the messages of the client, whole, each at most once and in the order   *)
(* they were written.  Nothing is missed of a client that waits for every  *)
(* answer before it writes again.                                          *)
(***************************************************************************)
EXTENDS Naturals, Sequences

CONSTANT N  \* how many messages the client has

VARIABLES
  mode,     \* "waiting" for every answer, or "pipelining"
  written,  \* the messages the client has written: 1, 2, ..., written
  parsed    \* the messages handed to the session, in that order

streamVars == <<mode, written, parsed>>

Last == IF parsed = <<>> THEN 0 ELSE parsed[Len(parsed)]

StreamInit ==
  /\ mode \in {"waiting", "pipelining"}
  /\ written = 0
  /\ parsed = <<>>

WriteMessage ==
  /\ written < N
  /\ mode = "waiting" => written = Len(parsed)
  /\ written' = written + 1
  /\ UNCHANGED <<mode, parsed>>

HandOver(k) ==
  /\ Last < k
  /\ mode = "waiting" => k = Last + 1
  /\ parsed' = Append(parsed, k)
  /\ UNCHANGED <<mode, written>>

StreamNext == WriteMessage \/ \E k \in 1..written : HandOver(k)

StreamSpec == StreamInit /\ [][StreamNext]_streamVars

-----------------------------------------------------------------------------
(* What the promise comes to *)

\* The session gets messages the client wrote, none twice and none before an
\* earlier one, and the k-th it gets of a client that waits is the k-th.
Delivered ==
  /\ \A k \in 1..Len(parsed) : parsed[k] \in 1..written
  /\ \A j, k \in 1..Len(parsed) : j < k => parsed[j] < parsed[k]
  /\ mode = "waiting" => \A k \in 1..Len(parsed) : parsed[k] = k
=============================================================================
