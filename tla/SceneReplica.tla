---------------------------- MODULE SceneReplica ----------------------------
(* The bridge's ends of a shared scene, as operations on their records: a  *)
(* player's replica, which stages a snapshot, applies it to the original   *)
(* game and then follows each change; and the authority, which publishes   *)
(* the frames it captures.                                                 *)
(*                                                                         *)
(* A handler returns the record it leaves and the packets it sends.        *)
EXTENDS SceneSession

\* "none" while it serves; otherwise why it stopped serving, for good.
Serving(client) == client.failed = "none"
Sends(client, packets) == [client |-> client, sent |-> packets]
Keeps(client) == Sends(client, <<>>)

NewReplica ==
  [conn |-> 0, welcomed |-> FALSE, ready |-> FALSE, complete |-> FALSE, scene |-> 0, baseline |-> 0,
   count |-> 0, staging |-> NoEntities, motion |-> NoEntities, tombstones |-> NoEntities,
   native |-> NoEntities, failed |-> "none", refused |-> ""]

\* It stops its own transport, and nothing of it is read or shown any more.
quarantine(r, reason) == [NewReplica EXCEPT !.failed = reason]

\* The snapshot becomes the original game's scene and is acknowledged.
apply_baseline(r) ==
  Sends([r EXCEPT !.complete = FALSE, !.native = r.staging, !.ready = TRUE], <<Ack(r.scene, r.baseline)>>)

receive_reject(r, packet) ==
  IF packet.error = "authority_lost"
  THEN [r EXCEPT !.ready = FALSE, !.complete = FALSE, !.motion = NoEntities, !.native = NoEntities]
  ELSE [quarantine(r, packet.error) EXCEPT !.refused = packet.refused]

receive_scene_begin_at(r, packet) ==
  IF packet.baseline <= r.baseline THEN quarantine(r, "baseline")
  ELSE [r EXCEPT !.scene = packet.scene, !.baseline = packet.baseline, !.count = packet.count,
                 !.staging = NoEntities, !.motion = NoEntities, !.tombstones = NoEntities,
                 !.ready = FALSE, !.complete = FALSE]

\* An entity of the snapshot being staged, or one that joined the scene.
receive_entity_at(r, packet) ==
  LET e == packet.entity
      followed == [r EXCEPT !.motion = With(@, e, packet.value)]
  IN IF e \in DOMAIN r.motion \/ (e \in DOMAIN r.tombstones /\ packet.value.generation <= r.tombstones[e])
     THEN quarantine(r, "lifecycle")
     ELSE IF r.ready THEN [followed EXCEPT !.native = With(@, e, packet.value)]
     ELSE IF Cardinality(DOMAIN r.staging) >= r.count THEN quarantine(r, "overflow")
     ELSE [followed EXCEPT !.staging = With(@, e, packet.value)]

\* What is not followed in this very incarnation is ignored.
Follows(r, packet) ==
  packet.entity \in DOMAIN r.motion /\ r.motion[packet.entity].generation = packet.value.generation

receive_motion_at(r, packet) ==
  IF Follows(r, packet) THEN [r EXCEPT !.motion[packet.entity] = packet.value] ELSE r

receive_despawn_at(r, packet) ==
  LET e == packet.entity
      removed == [r EXCEPT !.tombstones = With(@, e, packet.value.generation), !.motion = Without(@, e)]
  IN IF ~Follows(r, packet) THEN r
     ELSE IF ~r.ready THEN removed
     ELSE IF e \notin DOMAIN r.native THEN quarantine(r, "removal")
     ELSE [removed EXCEPT !.native = Without(@, e)]

\* `mapped`: the local creatures that stand for the players are there now.
receive_scene_end_at(r, packet, mapped) ==
  IF Cardinality(DOMAIN r.staging) # r.count \/ packet.count # r.count
  THEN Keeps(quarantine(r, "incomplete"))
  ELSE IF mapped THEN apply_baseline([r EXCEPT !.complete = TRUE])
  ELSE Keeps([r EXCEPT !.complete = TRUE])

\* All but the start of a snapshot must name the current one.
receive_scene_packet(r, packet, mapped) ==
  IF packet.kind = "scene_begin" THEN Keeps(receive_scene_begin_at(r, packet))
  ELSE IF packet.scene # r.scene \/ packet.baseline # r.baseline THEN Keeps(r)
  ELSE CASE packet.kind = "entity" -> Keeps(receive_entity_at(r, packet))
         [] packet.kind = "scene_end" -> receive_scene_end_at(r, packet, mapped)
         [] packet.kind = "motion" -> Keeps(receive_motion_at(r, packet))
         [] packet.kind = "despawn" -> Keeps(receive_despawn_at(r, packet))

replica_receive(r, packet, mapped) ==
  CASE packet.kind = "welcome" -> Keeps([r EXCEPT !.welcomed = TRUE])
    [] packet.kind = "reject" -> Keeps(receive_reject(r, packet))
    [] OTHER -> receive_scene_packet(r, packet, mapped)

\* The connection closed: forget the shared scene and retry.
replica_connection_lost(r) ==
  [r EXCEPT !.conn = 0, !.welcomed = FALSE, !.ready = FALSE, !.motion = NoEntities, !.native = NoEntities]

-----------------------------------------------------------------------------
(* The authority.                                                          *)

NewAuthority(epoch, process) ==
  [process |-> process, conn |-> 0, welcomed |-> FALSE, epoch |-> epoch, baseline |-> 0, begun |-> FALSE,
   published |-> NoEntities, held |-> FALSE, owners |-> {}, failed |-> "none", connections |-> 0]

\* A stopped authority keeps only its place in the count of processes.
stopped(a, reason) ==
  [NewAuthority(a.epoch, a.process) EXCEPT !.failed = reason, !.connections = a.connections]

\* The packets that take subscribers of `published` to `frame`: everything
\* that is gone, then everything that is new or changed.
publish_changes(published, frame, scene, number) ==
  LET Same(e) == e \in DOMAIN frame /\ frame[e].generation = published[e].generation
      gone == SetToSortSeq({e \in DOMAIN published : ~Same(e)}, <)
      changed == SetToSortSeq({e \in DOMAIN frame : e \notin DOMAIN published \/ published[e] # frame[e]}, <)
      Kind(e) == IF e \in DOMAIN published /\ Same(e) THEN "motion" ELSE "entity"
  IN [i \in 1..Len(gone) |-> EntityPacket("despawn", scene, number, gone[i], published[gone[i]])]
       \o [i \in 1..Len(changed) |-> EntityPacket(Kind(changed[i]), scene, number, changed[i], frame[changed[i]])]

\* One captured frame: a whole baseline first, changes from then on.
publish_scene(a, frame) ==
  LET number == IF a.begun THEN a.baseline ELSE a.baseline + 1 IN
  Sends([a EXCEPT !.baseline = number, !.begun = TRUE, !.published = frame],
        IF a.begun THEN publish_changes(a.published, frame, a.epoch, number)
        ELSE SceneBatch(a.epoch, number, frame))

\* A transfer command must name the baseline that is being served.
begin_transfer(a, packet) ==
  IF ~a.begun \/ a.held \/ packet.scene # a.epoch \/ packet.baseline # a.baseline
  THEN stopped(a, "scope")
  ELSE [a EXCEPT !.held = TRUE, !.owners = packet.owners]

authority_receive(a, packet) ==
  CASE packet.kind = "welcome" -> [a EXCEPT !.welcomed = TRUE]
    [] packet.kind = "reject" -> stopped(a, packet.error)
    [] packet.kind = "transfer_command" -> begin_transfer(a, packet)

\* The transfer ends here: its receipt, and the next frame is a baseline.
finish_transfer_resume(a) ==
  Sends([a EXCEPT !.held = FALSE, !.begun = FALSE, !.published = NoEntities],
        <<TransferPacket("transfer_receipt", a.epoch, a.baseline, a.owners)>>)

authority_connection_lost(a) ==
  IF a.held THEN stopped(a, "transfer")
  ELSE [a EXCEPT !.conn = 0, !.welcomed = FALSE, !.begun = FALSE, !.published = NoEntities]
=============================================================================
