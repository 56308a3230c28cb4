---------------------------- MODULE PolicySwitch ----------------------------
(***************************************************************************)
(* What hot reload promises its two servers: each uses one version of the  *)
(* policy file; the ext-authz server moves to another version only when    *)
(* the ext_proc server has caught up, never to an older one, and the       *)
(* ext_proc server only ever takes the version the other one has.          *)
(***************************************************************************)
EXTENDS Naturals

VARIABLES
  current,    \* version the ext-authz server uses; 0 before it serves
  following   \* version the ext_proc server uses

Init == current = 0 /\ following = 0

\* Boot: both servers are built on the same policy.
Open ==
  /\ current = 0
  /\ current' \in Nat \ {0}
  /\ following' = current'

\* The ext-authz server moves on.
Publish ==
  /\ current # 0 /\ following = current
  /\ current' \in Nat /\ current' > current
  /\ UNCHANGED following

\* The ext_proc server catches up.
Follow ==
  /\ following' = current
  /\ UNCHANGED current

Next == Open \/ Publish \/ Follow

Spec == Init /\ [][Next]_<<current, following>>
=============================================================================
