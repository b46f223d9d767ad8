-------------------------- MODULE AvatarAuthority --------------------------
(***************************************************************************)
(* What the location ledger promises about the authority over one player's *)
(* avatar.  At any moment at most one grant (a location, its worker, the   *)
(* worker's generation and the avatar's generation) is honoured; a grant   *)
(* is only ever replaced under an epoch no grant has carried before; so    *)
(* once a grant is revoked, no outcome that names it is accepted again.    *)
(* Players are independent, and one step may revoke or reissue the grants  *)
(* of several of them (a worker is lost, a checkpoint is rotated).         *)
(***************************************************************************)
EXTENDS Naturals

CONSTANTS Player, Epoch, Grant, NoGrant
VARIABLES
  issued,   \* the highest epoch given out for each player
  grant     \* the grant honoured for each player, or NoGrant

vars == <<issued, grant>>

Init == issued = [p \in Player |-> 0] /\ grant = [p \in Player |-> NoGrant]

Keep(p) == issued'[p] = issued[p] /\ grant'[p] = grant[p]

Revoke(p) == issued'[p] >= issued[p] /\ grant'[p] = NoGrant

\* A new grant carries a new epoch, and only the newest epoch is honoured.
Issue(p) ==
  /\ issued'[p] > issued[p]
  /\ grant'[p] \in Grant
  /\ grant'[p].avatar_generation = issued'[p]

Next ==
  /\ issued' \in [Player -> Epoch]
  /\ grant' \in [Player -> Grant \cup {NoGrant}]
  /\ \A p \in Player : Keep(p) \/ Revoke(p) \/ Issue(p)

Spec == Init /\ [][Next]_vars
=============================================================================
