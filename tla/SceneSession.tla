---------------------------- MODULE SceneSession ----------------------------
(* The coordinator's side of a shared scene: one Session, as operations on *)
(* its record.  The authority stages a baseline and then changes it entity *)
(* by entity; every player is sent a snapshot under a baseline number of   *)
(* its own, then each change, and is ready once it has acknowledged that   *)
(* very number.  Transfer maintenance withholds the scene; a moved lease   *)
(* fences it for good.                                                     *)
(*                                                                         *)
(* A handler returns the session it leaves, the packets it sends to each   *)
(* connection in order, and the connections it closes after its rejection. *)
(* A connection carries its packets in order, so their sequence numbers    *)
(* are the order; ticks likewise, since one publisher stamps them.         *)
EXTENDS Naturals, Sequences, FiniteSets, SequencesExt

CONSTANTS
  Entity,      \* entity ids, naturals
  Player,      \* player numbers, positive
  Owner,       \* Owner[e]: the player whose creature e is, or 0
  Connection   \* connection ids, positive naturals handed out in order

ASSUME SceneConstants ==
  /\ Entity \subseteq Nat /\ Player \subseteq Nat \ {0} /\ Connection \subseteq Nat \ {0}
  /\ Owner \in [Entity -> Player \cup {0}]

OwnedBy(p) == {e \in Entity : Owner[e] = p}

\* Entity values: what an incarnation is and whether it lies dead.
NoEntities == [e \in {} |-> 0]
Without(entities, e) == [x \in DOMAIN entities \ {e} |-> entities[x]]
With(entities, e, value) == [x \in DOMAIN entities \cup {e} |-> IF x = e THEN value ELSE entities[x]]

-----------------------------------------------------------------------------
(* Packets.                                                                *)

Plain(kind) == [kind |-> kind]
Hello(player) == [kind |-> "hello", player |-> player]      \* 0: the authority
Reject(error, refused) == [kind |-> "reject", error |-> error, refused |-> refused]
Bracket(kind, scene, baseline, count) ==
  [kind |-> kind, scene |-> scene, baseline |-> baseline, count |-> count]
EntityPacket(kind, scene, baseline, e, value) ==
  [kind |-> kind, scene |-> scene, baseline |-> baseline, entity |-> e, value |-> value]
Ack(scene, baseline) == [kind |-> "baseline_ack", scene |-> scene, baseline |-> baseline]
TransferPacket(kind, scene, baseline, owners) ==
  [kind |-> kind, scene |-> scene, baseline |-> baseline, owners |-> owners]

Gameplay == {"scene_begin", "entity", "scene_end", "motion", "despawn"}

\* A whole scene, begin to end.
SceneBatch(scene, baseline, entities) ==
  LET ids == SetToSortSeq(DOMAIN entities, <) IN
  <<Bracket("scene_begin", scene, baseline, Len(ids))>>
    \o [i \in 1..Len(ids) |-> EntityPacket("entity", scene, baseline, ids[i], entities[ids[i]])]
    \o <<Bracket("scene_end", scene, baseline, Len(ids))>>

-----------------------------------------------------------------------------
(* The session and what its handlers return.                               *)

NewSession(owners) ==
  [lease |-> "held", maintenance |-> FALSE, owners |-> owners,
   connections |-> [c \in {} |-> 0], authority |-> 0,
   complete |-> FALSE, building |-> FALSE, staging |-> NoEntities, entities |-> NoEntities,
   tombstones |-> NoEntities, scene |-> 0, source |-> 0,
   stagingScene |-> 0, stagingBaseline |-> 0, expected |-> 0, next |-> 0]

Silent == [c \in Connection |-> <<>>]
Reply(s, out) == [session |-> s, out |-> out, close |-> {}]
Quiet(s) == Reply(s, Silent)
SendTo(s, c, packet) == Reply(s, [Silent EXCEPT ![c] = <<packet>>])

\* A rejection names the kind of the message it refuses.
Refuse(s, c, packet, error) == SendTo(s, c, Reject(error, packet.kind))
RefuseAndClose(s, c, packet, error) ==
  [session |-> s, out |-> [Silent EXCEPT ![c] = <<Reject(error, packet.kind)>>], close |-> {c}]

Players(s) == {c \in DOMAIN s.connections : s.connections[c].authenticated /\ s.connections[c].player # 0}

withdraw_baselines(s) ==
  [c \in DOMAIN s.connections |-> IF c = s.authority THEN s.connections[c]
                                  ELSE [s.connections[c] EXCEPT !.ready = FALSE, !.baseline = 0]]

\* Players in the set each get a snapshot under the next baseline number.
baseline(s, players) ==
  LET Number(c) == s.next + Cardinality({d \in players : d <= c})
      reset == [c \in DOMAIN s.connections |->
                  IF c \notin players THEN s.connections[c]
                  ELSE [s.connections[c] EXCEPT !.ready = FALSE, !.baseline = IF s.complete THEN Number(c) ELSE @]]
  IN [session |-> [s EXCEPT !.connections = reset,
                            !.next = IF s.complete THEN @ + Cardinality(players) ELSE @],
      out |-> [c \in Connection |-> IF s.complete /\ c \in players
                                    THEN SceneBatch(s.scene, Number(c), s.entities) ELSE <<>>],
      close |-> {}]

\* A change goes to every player that was sent a snapshot, acknowledged or not.
publish(s, packet) ==
  Reply(s, [c \in Connection |-> IF c \in Players(s) /\ s.connections[c].baseline # 0
                                 THEN <<[packet EXCEPT !.baseline = s.connections[c].baseline]>> ELSE <<>>])

clear_scene(s) ==
  [s EXCEPT !.authority = 0, !.complete = FALSE, !.building = FALSE, !.staging = NoEntities,
            !.entities = NoEntities, !.tombstones = NoEntities, !.scene = 0, !.source = 0,
            !.stagingScene = 0, !.stagingBaseline = 0, !.expected = 0]

fence_lease(s) ==
  [clear_scene(s) EXCEPT !.lease = "fenced", !.connections = [c \in {} |-> 0], !.next = 0]

\* admit_to_location and connect: a hello routes its connection here.
connect(s, c) ==
  [s EXCEPT !.connections = [d \in DOMAIN @ \cup {c} |->
     IF d = c THEN [authenticated |-> FALSE, player |-> 0, ready |-> FALSE, baseline |-> 0] ELSE @[d]]]

\* What is left tells every remaining player that its authority is gone.
disconnect(s, c) ==
  LET left == [s EXCEPT !.connections = [d \in DOMAIN @ \ {c} |-> @[d]]]
      lost == [clear_scene(left) EXCEPT !.connections =
                 [d \in DOMAIN left.connections |->
                    [left.connections[d] EXCEPT !.ready = FALSE, !.baseline = 0]]]
  IN IF s.authority = c /\ c # 0
     THEN Reply(lost, [d \in Connection |-> IF d \in DOMAIN left.connections
                                            THEN <<Reject("authority_lost", "")>> ELSE <<>>])
     ELSE Quiet(left)

can_rotate_disconnected_authority(s) ==
  s.lease = "held" /\ s.authority = 0 /\ ~s.complete /\ ~s.building

-----------------------------------------------------------------------------
(* Admission.                                                              *)

authenticate_authority(s, c, packet) ==
  IF s.authority # 0 THEN RefuseAndClose(s, c, packet, "ownership")
  ELSE SendTo([s EXCEPT !.authority = c, !.connections[c].authenticated = TRUE], c, Plain("welcome"))

\* As authenticate_player, in maintenance too.
authenticate_player_withheld(s, c, packet) ==
  LET p == packet.player
      admitted == [s EXCEPT !.connections[c] = [@ EXCEPT !.authenticated = TRUE, !.player = p]]
      sent == baseline(admitted, {c})
  IN [session |-> sent.session, out |-> [sent.out EXCEPT ![c] = <<Plain("welcome")>> \o @], close |-> {}]

\* A player is welcomed and sent the scene; its earlier connection is closed.
authenticate_player(s, c, packet) ==
  LET p == packet.player
      old == {d \in Players(s) \ {c} : s.connections[d].player = p}
      admitted == [s EXCEPT !.connections =
                     [d \in DOMAIN @ |-> CASE d \in old -> [@[d] EXCEPT !.authenticated = FALSE, !.ready = FALSE]
                                           [] d = c -> [@[d] EXCEPT !.authenticated = TRUE, !.player = p]
                                           [] OTHER -> @[d]]]
      sent == baseline(admitted, {c})
  IN IF s.maintenance THEN RefuseAndClose(s, c, packet, "not_ready")
     ELSE IF p \notin s.owners THEN RefuseAndClose(s, c, packet, "ownership")
     ELSE [session |-> sent.session,
           out |-> [d \in Connection |-> CASE d \in old -> <<Reject("stale", "hello")>>
                                           [] d = c -> <<Plain("welcome")>> \o sent.out[c]
                                           [] OTHER -> <<>>],
           close |-> old]

receive_hello(s, c, packet) ==
  IF packet.kind # "hello" THEN RefuseAndClose(s, c, packet, "authentication")
  ELSE IF packet.player = 0 THEN authenticate_authority(s, c, packet)
  ELSE authenticate_player(s, c, packet)

-----------------------------------------------------------------------------
(* The authority's scene.                                                  *)

receive_scene_begin(s, c, packet) ==
  IF packet.scene < s.scene \/ (packet.scene = s.scene /\ packet.baseline <= s.source)
  THEN RefuseAndClose(s, c, packet, "stale")
  ELSE Quiet([s EXCEPT !.building = TRUE, !.complete = FALSE, !.staging = NoEntities,
                       !.stagingScene = packet.scene, !.stagingBaseline = packet.baseline,
                       !.expected = packet.count, !.connections = withdraw_baselines(s)])

stage_entity(s, c, packet) ==
  IF Cardinality(DOMAIN s.staging) >= s.expected \/ packet.entity \in DOMAIN s.staging
  THEN RefuseAndClose(s, c, packet, "malformed")
  ELSE IF Owner[packet.entity] \notin s.owners \cup {0} THEN RefuseAndClose(s, c, packet, "ownership")
  ELSE Quiet([s EXCEPT !.staging = With(@, packet.entity, packet.value)])

\* As complete_scene, sending the scene to no player that is already there.
complete_scene_silently(s, c, packet) ==
  Quiet([s EXCEPT !.entities = s.staging, !.staging = NoEntities, !.tombstones = NoEntities,
                  !.scene = s.stagingScene, !.source = s.stagingBaseline,
                  !.building = FALSE, !.complete = TRUE])

\* Complete with the announced count and one creature for each permitted owner.
complete_scene(s, c, packet) ==
  LET completed == [s EXCEPT !.entities = s.staging, !.staging = NoEntities, !.tombstones = NoEntities,
                             !.scene = s.stagingScene, !.source = s.stagingBaseline,
                             !.building = FALSE, !.complete = TRUE]
  IN IF Cardinality(DOMAIN s.staging) # s.expected \/ packet.count # s.expected
     THEN RefuseAndClose(s, c, packet, "malformed")
     ELSE IF s.expected # 0 /\ \E p \in Player : Cardinality(OwnedBy(p) \cap DOMAIN s.staging)
                                                   # (IF p \in s.owners THEN 1 ELSE 0)
     THEN RefuseAndClose(s, c, packet, "ownership")
     ELSE IF s.maintenance THEN Quiet(completed) ELSE baseline(completed, Players(s))

receive_while_building(s, c, packet) ==
  IF packet.scene # s.stagingScene \/ packet.baseline # s.stagingBaseline
  THEN RefuseAndClose(s, c, packet, "stale")
  ELSE CASE packet.kind = "entity" -> stage_entity(s, c, packet)
         [] packet.kind = "scene_end" -> complete_scene(s, c, packet)
         [] OTHER -> RefuseAndClose(s, c, packet, "not_ready")

\* Unknown, newer than its tombstone, and no second creature for an owner.
receive_entity(s, c, packet) ==
  LET e == packet.entity IN
  IF \/ e \in DOMAIN s.entities
     \/ e \in DOMAIN s.tombstones /\ packet.value.generation <= s.tombstones[e]
  THEN Refuse(s, c, packet, "stale")
  ELSE IF Owner[e] \notin s.owners \cup {0} THEN RefuseAndClose(s, c, packet, "ownership")
  ELSE IF Owner[e] # 0 /\ OwnedBy(Owner[e]) \cap DOMAIN s.entities # {} THEN Refuse(s, c, packet, "ownership")
  ELSE publish([s EXCEPT !.entities = With(@, e, packet.value)], packet)

receive_motion_or_despawn(s, c, packet) ==
  LET e == packet.entity IN
  IF e \notin DOMAIN s.entities \/ s.entities[e].generation # packet.value.generation
  THEN Refuse(s, c, packet, "stale")
  ELSE publish(IF packet.kind = "motion" THEN [s EXCEPT !.entities[e] = packet.value]
               ELSE [s EXCEPT !.entities = Without(@, e),
                              !.tombstones = With(@, e, packet.value.generation)], packet)

receive_from_authority(s, c, packet) ==
  CASE packet.kind = "scene_begin" -> receive_scene_begin(s, c, packet)
    [] packet.kind # "scene_begin" /\ s.building -> receive_while_building(s, c, packet)
    [] packet.kind # "scene_begin" /\ ~s.building /\ ~s.complete -> Refuse(s, c, packet, "not_ready")
    [] packet.kind # "scene_begin" /\ ~s.building /\ s.complete ->
         CASE packet.scene # s.scene \/ packet.baseline # s.source -> Refuse(s, c, packet, "stale")
           [] packet.scene = s.scene /\ packet.baseline = s.source /\ packet.kind = "entity" -> receive_entity(s, c, packet)
           [] packet.scene = s.scene /\ packet.baseline = s.source /\ packet.kind \in {"motion", "despawn"} ->
                receive_motion_or_despawn(s, c, packet)
           [] OTHER -> Refuse(s, c, packet, "ownership")

\* As receive_baseline_ack, whatever snapshot is acknowledged.
receive_any_ack(s, c, packet) == Quiet([s EXCEPT !.connections[c].ready = TRUE])

\* As receive_baseline_ack, refusing an obsolete acknowledgment.
receive_exact_ack(s, c, packet) ==
  IF packet.scene # s.scene \/ packet.baseline # s.connections[c].baseline
  THEN Refuse(s, c, packet, "stale") ELSE Quiet([s EXCEPT !.connections[c].ready = TRUE])

\* An obsolete acknowledgment is ignored, one for this very snapshot makes ready.
receive_baseline_ack(s, c, packet) ==
  LET held == s.connections[c].baseline IN
  IF ~s.complete \/ held = 0 \/ packet.scene < s.scene \/ (packet.scene = s.scene /\ packet.baseline < held)
  THEN Quiet(s)
  ELSE IF packet.scene # s.scene \/ packet.baseline # held THEN Refuse(s, c, packet, "stale")
  ELSE Quiet([s EXCEPT !.connections[c].ready = TRUE])

-----------------------------------------------------------------------------
(* Transfer maintenance.                                                   *)

authority_control_ready(s) == s.authority # 0 /\ s.complete /\ ~s.building /\ s.lease = "held"
authority_ready(s) == authority_control_ready(s) /\ ~s.maintenance

begin_transfer_maintenance(s) ==
  [s EXCEPT !.maintenance = TRUE, !.connections = withdraw_baselines(s), !.staging = NoEntities,
            !.tombstones = NoEntities, !.building = FALSE]

\* With release: the transfer is over here, and the next scene starts afresh.
rebind_transfer_maintenance(s, owners, release) ==
  [s EXCEPT !.owners = owners, !.entities = NoEntities, !.staging = NoEntities, !.tombstones = NoEntities,
            !.building = FALSE, !.connections = withdraw_baselines(s),
            !.maintenance = IF release THEN FALSE ELSE @, !.complete = IF release THEN FALSE ELSE @]

\* The receipt that ends the transfer: the coordinator releases the session.
receive_transfer(s, c, packet) ==
  IF c # s.authority \/ ~s.maintenance THEN Refuse(s, c, packet, "ownership")
  ELSE IF ~authority_control_ready(s) \/ packet.scene # s.scene \/ packet.baseline # s.source
  THEN Refuse(s, c, packet, "stale")
  ELSE Quiet(rebind_transfer_maintenance(s, packet.owners, TRUE))

\* Output of the completed baseline queued before the fence is drained unseen.
drain_fenced_output(s, c, packet) ==
  IF packet.scene # s.scene \/ packet.baseline # s.source THEN Refuse(s, c, packet, "stale")
  ELSE IF Owner[packet.entity] \notin s.owners \cup {0} THEN Refuse(s, c, packet, "ownership")
  ELSE Quiet(s)

receive_in_maintenance(s, c, packet) ==
  IF c = s.authority /\ s.complete /\ packet.kind \in {"motion", "entity", "despawn"}
  THEN drain_fenced_output(s, c, packet) ELSE Refuse(s, c, packet, "not_ready")

\* One packet of one connection.  Once its lease has moved the session says
\* nothing; the fence itself is the coordinator's, at its next poll.
receive(s, c, packet) ==
  IF s.lease # "held" \/ c \notin DOMAIN s.connections THEN Quiet(s)
  ELSE CASE ~s.connections[c].authenticated -> receive_hello(s, c, packet)
         [] s.connections[c].authenticated /\ packet.kind = "transfer_receipt" -> receive_transfer(s, c, packet)
         [] s.connections[c].authenticated /\ packet.kind # "transfer_receipt" /\ s.maintenance ->
              receive_in_maintenance(s, c, packet)
         [] OTHER -> IF c = s.authority THEN receive_from_authority(s, c, packet)
                     ELSE IF packet.kind = "baseline_ack" THEN receive_baseline_ack(s, c, packet)
                     ELSE Refuse(s, c, packet, "ownership")
=============================================================================
