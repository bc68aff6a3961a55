-------------------------- MODULE DirectoryService --------------------------
(***************************************************************************)
(* What clients are promised about the shape of the directory: each entry  *)
(* has a DN of its own below an entry that exists, and each add, delete or *)
(* modify DN takes effect at once, at most once, or not at all.            *)
(* DirectoryTree, which needs up to four commits for one modify DN,        *)
(* implements this under conditions the README names.                      *)
(***************************************************************************)
EXTENDS Naturals, Sequences, SequencesExt

CONSTANTS
  Requests, Operations, NoOp,   \* as in DirectoryTree
  NoSuperior, BaseDn,
  Contents,   \* what entries hold: their attributes, user or group
  SeedPlace   \* the entries at the start

VARIABLES
  place,    \* place[c], the DN of the entry that holds contents c
  request,  \* request[t], what request t asks for
  effect    \* the requests that have taken effect

service == <<place, request, effect>>

Held == DOMAIN place
Taken == {place[c] : c \in Held}
Parents == Taken \cup {<<>>}   \* a top entry is below the base DN

Init ==
  /\ place = SeedPlace
  /\ request = [t \in Requests |-> NoOp]
  /\ effect = {}

Ask(t, o) ==
  /\ request[t] = NoOp
  /\ request' = [request EXCEPT ![t] = o]
  /\ UNCHANGED <<place, effect>>

TakesEffect(t, kind) ==
  /\ request[t].kind = kind
  /\ t \notin effect
  /\ effect' = effect \cup {t}
  /\ UNCHANGED request

\* An entry that is not there yet, below an entry that is.
Add(t, c) ==
  LET dn == request[t].dn
  IN  /\ TakesEffect(t, "add")
      /\ c \notin Held
      /\ dn \notin Taken /\ Front(dn) \in Parents
      /\ place' = [d \in Held \cup {c} |-> IF d = c THEN dn ELSE place[d]]

\* An entry goes with everything below it, unless it went with an entry that
\* another request deleted.
Delete(t) ==
  LET dn == request[t].dn
  IN  /\ TakesEffect(t, "delete")
      /\ \/ place' = [c \in {d \in Held : ~IsPrefix(dn, place[d])} |-> place[c]]
         \/ /\ \E u \in effect : /\ request[u].kind = "delete"
                                 /\ IsPrefix(request[u].dn, dn)
            /\ UNCHANGED place

\* An entry and everything below it get a new DN, which is not below the old
\* one, and keep their contents.
Move(t) ==
  LET dn == request[t].dn
      sup == request[t].superior
      up == CASE sup = NoSuperior -> Front(dn) [] sup = BaseDn -> <<>>
              [] OTHER -> sup
      new == Append(up, request[t].rdn)
      Moved(p) == new \o SubSeq(p, Len(dn) + 1, Len(p))
  IN  /\ TakesEffect(t, "modifyDN")
      /\ dn \in Taken /\ new \notin Taken
      /\ up \in Parents /\ ~IsPrefix(dn, up)
      /\ place' = [c \in Held |-> IF IsPrefix(dn, place[c]) THEN Moved(place[c])
                                  ELSE place[c]]

Next ==
  \E t \in Requests :
    \/ \E o \in Operations : Ask(t, o)
    \/ \E c \in Contents : Add(t, c)
    \/ Delete(t)
    \/ Move(t)

Spec == Init /\ [][Next]_service

-----------------------------------------------------------------------------
(* What the promise comes to *)

\* Whatever is held has a DN of its own, below one where something is held.
OneTree ==
  /\ \A b, c \in Held : place[b] = place[c] => b = c
  /\ \A c \in Held : place[c] # <<>> /\ Front(place[c]) \in Parents
=============================================================================
