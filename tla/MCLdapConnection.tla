-------------------------- MODULE MCLdapConnection --------------------------
(* Instances of LdapConnection for TLC. *)
EXTENDS LdapConnection

CONSTANTS bind1, bind2, unbind1, search1, update1, abandon1,
          anonymous1, bad1, alice, bob

MCKind ==
  [r \in Requests |->
     CASE r \in {bind1, bind2, anonymous1} -> "bind"
       [] r = unbind1 -> "unbind"
       [] r = search1 -> "search"
       [] r = update1 -> "update"
       [] r = abandon1 -> "abandon"]

\* The client that waits may send more: its requests interleave less. It has
\* no use for a message after which it would wait for ever, but abandon.
MCOffered ==
  [mode \in Modes |->
     IF mode = "waiting" THEN Messages \ {unbind1, bad1}
     ELSE {bind1, unbind1, search1, update1, bad1} \cap Messages]

MCAccount == [r \in Requests |-> CASE r = bind2 -> bob [] r = anonymous1 -> NoUser
                        [] OTHER -> alice]
=============================================================================
