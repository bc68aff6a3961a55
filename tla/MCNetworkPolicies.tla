------------------------- MODULE MCNetworkPolicies --------------------------
(* Instances of NetworkPolicies for TLC. *)
EXTENDS NetworkPolicies

CONSTANTS lan, vpn, dmz, lab, wifi

MCRow(on, n, k) == [enabled |-> on, priority |-> n, key |-> k]

\* Two enabled policies, a disabled one, and ids left for new policies.
MCSeed ==
  [i \in Ids |->
     CASE i = 1 -> MCRow(TRUE, 1, lan)
       [] i = 2 -> MCRow(TRUE, 2, vpn)
       [] i = 3 -> MCRow(FALSE, 3, dmz)
       [] OTHER -> Free]

\* Four policies: one deletion and one swap can overlap on all of them, and
\* two switches could leave none enabled.
MCSeedFull ==
  [i \in Ids |->
     CASE i = 1 -> MCRow(TRUE, 1, lan)
       [] i = 2 -> MCRow(TRUE, 2, vpn)
       [] i = 3 -> MCRow(FALSE, 3, dmz)
       [] i = 4 -> MCRow(FALSE, 4, lab)
       [] OTHER -> Free]
=============================================================================
