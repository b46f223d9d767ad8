----------------------------- MODULE SharedScene -----------------------------
(* One location's shared scene: the coordinator's session, the authority's *)
(* process and the players' replicas, over connections that carry packets  *)
(* in order and break at any moment, each end noticing in its own time.    *)
EXTENDS SceneReplica

CONSTANTS
  Epoch,            \* scene epochs an authority's process can have
  Permitted,        \* the players whose avatars are here at first
  Stays,            \* the sets of players a transfer can leave here
  MaxGeneration,    \* bounds of the environment: incarnations of an entity,
  MaxFaults,        \*   all that happens of what follows together,
  MaxChanges,       \*   changes of the original scene,
  MaxBreaks,        \*   broken connections,
  MaxTransfers,     \*   transfer maintenances,
  MaxCrashes,       \*   crashes of the authority,
  MaxMoves          \*   and moved leases

VARIABLES
  session,      \* the coordinator's Session
  closing,      \* connections it has refused and will close
  served,       \* connections whose channel it still keeps
  authority,    \* the authority's bridge
  clients,      \* each player's bridge
  original,     \* the authority's original scene: what is there, how often each was born
  link,         \* the state of each connection's transport: open or broken
  up, down,     \* packets on their way to and from the coordinator
  faults        \* what the environment has done so far

\* The environment's next step of one kind, within its bounds.
Happens(kind, limit) ==
  /\ faults[kind] < limit
  /\ faults.changes + faults.breaks + faults.transfers + faults.crashes + faults.moves < MaxFaults
  /\ faults' = [faults EXCEPT ![kind] = @ + 1]

vars == <<session, closing, served, authority, clients, original, link, up, down, faults>>
ends == <<authority, clients, original>>

Alive(generation) == [generation |-> generation, dead |-> FALSE]

\* Each permitted player has its creature here; animals appear later.
FirstScene(owners) ==
  LET here == {e \in Entity : Owner[e] \in owners} IN
  [frame |-> [e \in here |-> Alive(1)], births |-> [e \in Entity |-> IF e \in here THEN 1 ELSE 0]]

Init ==
  /\ session = NewSession(Permitted)
  /\ closing = {} /\ served = {}
  /\ \E epoch \in Epoch : authority = NewAuthority(epoch, 1)
  /\ clients = [p \in Player |-> NewReplica]
  /\ original = FirstScene(Permitted)
  /\ link = [c \in Connection |-> "broken"]
  /\ up = Silent /\ down = Silent
  /\ faults = [changes |-> 0, breaks |-> 0, transfers |-> 0, crashes |-> 0, moves |-> 0]

-----------------------------------------------------------------------------
(* Connections.                                                            *)

\* Nobody holds the transport or the channel of a connection that is over,
\* and its id can stand for a new one.
Over(c) ==
  /\ link[c] # "open" /\ c \notin served
  /\ authority.conn # c /\ \A p \in Player : clients[p].conn # c

\* A new connection, with its hello on the way.
Opens(c, player) ==
  /\ Over(c) /\ \A d \in Connection : d < c => ~Over(d)
  /\ link' = [link EXCEPT ![c] = "open"]
  /\ down' = [down EXCEPT ![c] = <<>>]
  /\ served' = served \cup {c}
  /\ up' = [up EXCEPT ![c] = <<Hello(player)>>]

Broken(c) == c # 0 /\ link[c] = "broken"

\* Sending fails, and ends the session, once the transport has finished.
SendsOn(c, packets) ==
  up' = IF packets # <<>> /\ c # 0 /\ link[c] = "open" THEN [up EXCEPT ![c] = @ \o packets] ELSE up
OutputFails(c, packets) == packets # <<>> /\ (c = 0 \/ link[c] # "open")

\* A peer that fails stops its transport without another word.
StopsIf(failed, c) ==
  link' = IF failed /\ c # 0 /\ link[c] = "open" THEN [link EXCEPT ![c] = "broken"] ELSE link

\* The first packet is read, and the rest dropped by a peer that fails.
Reads(failed, c) == down' = [down EXCEPT ![c] = IF failed THEN <<>> ELSE Tail(@)]

\* The transport fails and what is in flight is lost from some point on.
Break(c) ==
  /\ link[c] = "open"
  /\ link' = [link EXCEPT ![c] = "broken"]
  /\ \E n \in 0..Len(up[c]) : up' = [up EXCEPT ![c] = SubSeq(@, 1, n)]
  /\ \E n \in 0..Len(down[c]) : down' = [down EXCEPT ![c] = SubSeq(@, 1, n)]
  /\ Happens("breaks", MaxBreaks)
  /\ UNCHANGED <<session, closing, served, ends>>

-----------------------------------------------------------------------------
(* The coordinator: one poll handles one event of one connection here.     *)

\* What a handler sends goes to the connections whose channel is still kept.
Dispatches(result) ==
  /\ session' = result.session
  /\ closing' = closing \cup result.close
  /\ down' = [c \in Connection |-> IF c \in served /\ link[c] = "open" THEN down[c] \o result.out[c] ELSE down[c]]

\* A packet of a closing connection is dropped; a hello routes its connection.
ServerReceive(c) ==
  /\ c \in served /\ up[c] # <<>>
  /\ up' = [up EXCEPT ![c] = Tail(@)]
  /\ IF c \in closing THEN UNCHANGED <<session, closing, down>>
     ELSE IF c \in DOMAIN session.connections THEN Dispatches(receive(session, c, Head(up[c])))
     ELSE IF session.lease # "held"
     THEN Dispatches(RefuseAndClose(session, c, Head(up[c]), "capacity"))
     ELSE IF Head(up[c]).kind # "hello" \/ Head(up[c]).player \notin session.owners \cup {0}
     THEN Dispatches(RefuseAndClose(session, c, Head(up[c]), "not_ready"))
     ELSE Dispatches(receive(connect(session, c), c, Head(up[c])))
  /\ UNCHANGED <<served, ends, link, faults>>

\* The channel is dropped when its transport has ended or its close is due.
ServerDisconnect(c) ==
  /\ c \in served /\ ((Broken(c) /\ up[c] = <<>>) \/ c \in closing)
  /\ LET result == disconnect(session, c) IN
       /\ session' = result.session
       /\ down' = [d \in Connection |-> IF d \in served /\ link[d] = "open" THEN down[d] \o result.out[d] ELSE down[d]]
  /\ served' = served \ {c} /\ closing' = closing \ {c}
  /\ link' = [link EXCEPT ![c] = "broken"]
  /\ up' = [up EXCEPT ![c] = <<>>]
  /\ UNCHANGED <<ends, faults>>

\* Another handler publishes a ledger in which this lease has moved.
LeaseMoves ==
  /\ session.lease = "held"
  /\ session' = [session EXCEPT !.lease = "moved"]
  /\ Happens("moves", MaxMoves)
  /\ UNCHANGED <<closing, served, ends, link, up, down>>

\* The next poll stops every transport of the session before it reads one.
FenceStaleLocation ==
  /\ session.lease = "moved"
  /\ session' = fence_lease(session)
  /\ LET routed == DOMAIN session.connections IN
       /\ closing' = closing \cup routed
       /\ link' = [c \in Connection |-> IF c \in routed THEN "broken" ELSE link[c]]
       /\ down' = [c \in Connection |-> IF c \in routed THEN <<>> ELSE down[c]]
  /\ UNCHANGED <<served, ends, up, faults>>

\* A transfer takes over a scene that is being served; the players it leaves
\* here are known to the coordinator and to the command.
BeginTransfer(owners) ==
  /\ authority_ready(session)
  /\ session' = begin_transfer_maintenance(session)
  /\ down' = [down EXCEPT ![session.authority] =
                IF link[session.authority] = "open"
                THEN Append(@, TransferPacket("transfer_command", session.scene, session.source, owners)) ELSE @]
  /\ Happens("transfers", MaxTransfers)
  /\ UNCHANGED <<closing, served, ends, link, up>>

-----------------------------------------------------------------------------
(* The authority's process.                                                *)

ServesScene == Serving(authority) /\ authority.welcomed /\ ~authority.held

\* The original simulation: an animal appears, leaves, dies or is reborn.
OriginalChanges(e) ==
  /\ Serving(authority) /\ ~authority.held
  /\ LET born == original.births[e] + 1
         frame == original.frame
     IN \/ /\ e \in DOMAIN frame \/ Owner[e] = 0
           /\ born <= MaxGeneration
           /\ original' = [frame |-> With(frame, e, Alive(born)), births |-> [original.births EXCEPT ![e] = born]]
        \/ /\ e \in DOMAIN frame /\ Owner[e] = 0
           /\ original' = [original EXCEPT !.frame = Without(@, e)]
        \/ /\ e \in DOMAIN frame /\ ~frame[e].dead
           /\ original' = [original EXCEPT !.frame[e].dead = TRUE]
  /\ Happens("changes", MaxChanges)
  /\ UNCHANGED <<session, closing, served, authority, clients, link, up, down>>

AuthorityConnect(c) ==
  /\ Serving(authority) /\ authority.conn = 0
  /\ Opens(c, 0)
  /\ authority' = [authority EXCEPT !.conn = c, !.connections = @ + 1]
  /\ UNCHANGED <<session, closing, clients, original, faults>>

AuthorityReceive ==
  LET c == authority.conn IN
  /\ Serving(authority) /\ c # 0 /\ down[c] # <<>>
  /\ authority' = authority_receive(authority, Head(down[c]))
  /\ Reads(~Serving(authority'), c)
  /\ StopsIf(~Serving(authority'), c)
  /\ UNCHANGED <<session, closing, served, clients, original, up, faults>>

\* A failed send quarantines the authority.
AuthoritySends(result, c) ==
  /\ authority' = IF OutputFails(c, result.sent) THEN stopped(result.client, "output") ELSE result.client
  /\ SendsOn(c, result.sent)

AuthorityPublish ==
  /\ ServesScene
  /\ ~authority.begun \/ authority.published # original.frame
  /\ AuthoritySends(publish_scene(authority, original.frame), authority.conn)
  /\ UNCHANGED <<session, closing, served, clients, original, link, down, faults>>

\* The paused original has been measured, changed and released.
AuthorityResume ==
  /\ Serving(authority) /\ authority.held /\ authority.conn # 0
  /\ AuthoritySends(finish_transfer_resume(authority), authority.conn)
  /\ original' = LET here == {e \in Entity : Owner[e] \in authority.owners \cup {0}}
                     kept == here \cap DOMAIN original.frame
                     arriving == {e \in here \ kept : Owner[e] # 0}
                 IN [frame |-> [e \in kept \cup arriving |->
                                  IF e \in kept THEN original.frame[e] ELSE Alive(original.births[e] + 1)],
                     births |-> [e \in Entity |-> original.births[e] + (IF e \in arriving THEN 1 ELSE 0)]]
  /\ UNCHANGED <<session, closing, served, clients, link, down, faults>>

AuthorityLost ==
  LET c == authority.conn IN
  /\ Serving(authority) /\ Broken(c) /\ down[c] = <<>>
  /\ authority' = authority_connection_lost(authority)
  /\ UNCHANGED <<session, closing, served, clients, original, link, up, down, faults>>

\* The process dies, or its original scene is left and the bridge stops.
AuthorityCrash ==
  /\ Serving(authority)
  /\ Happens("crashes", MaxCrashes)
  /\ authority' = stopped(authority, "crashed")
  /\ StopsIf(TRUE, authority.conn)
  /\ down' = IF authority.conn = 0 THEN down ELSE [down EXCEPT ![authority.conn] = <<>>]
  /\ UNCHANGED <<session, closing, served, clients, original, up>>

\* replace_disconnected_location: a new worker for a session left by the old.
AuthorityReplace(epoch) ==
  /\ ~Serving(authority)
  /\ can_rotate_disconnected_authority(session) /\ ~session.maintenance
  /\ authority' = NewAuthority(epoch, authority.process + 1)
  /\ original' = FirstScene(session.owners)
  /\ UNCHANGED <<session, closing, served, clients, link, up, down, faults>>

-----------------------------------------------------------------------------
(* A player's process.                                                     *)

PlayerConnect(p, c) ==
  /\ Serving(clients[p]) /\ clients[p].conn = 0
  /\ Opens(c, p)
  /\ clients' = [clients EXCEPT ![p].conn = c]
  /\ UNCHANGED <<session, closing, authority, original, faults>>

PlayerSends(p, result) ==
  LET c == clients[p].conn
      after == IF OutputFails(c, result.sent) THEN quarantine(result.client, "output") ELSE result.client
  IN /\ clients' = [clients EXCEPT ![p] = after]
     /\ SendsOn(c, result.sent)
     /\ StopsIf(~Serving(after), c)

PlayerReceive(p) ==
  LET c == clients[p].conn IN
  /\ Serving(clients[p]) /\ c # 0 /\ down[c] # <<>>
  /\ \E mapped \in BOOLEAN : PlayerSends(p, replica_receive(clients[p], Head(down[c]), mapped))
  /\ Reads(~Serving(clients'[p]), c)
  /\ UNCHANGED <<session, closing, served, authority, original, faults>>

\* A snapshot that could not be applied when it was complete is applied later.
PlayerApply(p) ==
  /\ Serving(clients[p]) /\ clients[p].complete
  /\ PlayerSends(p, apply_baseline(clients[p]))
  /\ UNCHANGED <<session, closing, served, authority, original, down, faults>>

PlayerLost(p) ==
  LET c == clients[p].conn IN
  /\ Serving(clients[p]) /\ Broken(c) /\ down[c] = <<>>
  /\ clients' = [clients EXCEPT ![p] = replica_connection_lost(@)]
  /\ UNCHANGED <<session, closing, served, authority, original, link, up, down, faults>>

-----------------------------------------------------------------------------
Coordinates ==
  \/ \E c \in Connection : ServerReceive(c) \/ ServerDisconnect(c)
  \/ FenceStaleLocation

AuthorityRuns ==
  \/ \E c \in Connection : AuthorityConnect(c)
  \/ AuthorityReceive \/ AuthorityPublish \/ AuthorityResume \/ AuthorityLost

PlayerRuns(p) ==
  \/ \E c \in Connection : PlayerConnect(p, c)
  \/ PlayerReceive(p) \/ PlayerApply(p) \/ PlayerLost(p)

Environment ==
  \/ \E c \in Connection : Break(c)
  \/ \E e \in Entity : OriginalChanges(e)
  \/ \E owners \in Stays : BeginTransfer(owners)
  \/ \E epoch \in Epoch : AuthorityReplace(epoch)
  \/ LeaseMoves \/ AuthorityCrash

Next == Coordinates \/ AuthorityRuns \/ (\E p \in Player : PlayerRuns(p)) \/ Environment

Spec == Init /\ [][Next]_vars

\* Every loop turns: the coordinator polls each connection, each original game
\* runs its updates, and the local creatures of a snapshot appear.
Fairness ==
  /\ WF_vars(FenceStaleLocation)
  /\ \A c \in Connection : WF_vars(ServerReceive(c)) /\ WF_vars(ServerDisconnect(c))
  /\ WF_vars(AuthorityRuns)
  /\ \A p \in Player : WF_vars(PlayerRuns(p))

FairSpec == Spec /\ Fairness

-----------------------------------------------------------------------------
(* Properties.                                                             *)

\* The player's connection, where the coordinator counts it as ready.
CountedReady(p, c) ==
  /\ Serving(clients[p]) /\ c = clients[p].conn /\ c \in Players(session)
  /\ session.connections[c].ready

\* A player the session counts as ready (receive_baseline_ack) has applied
\* that very snapshot to its original game and still shows it, and a complete
\* scene of a connected authority is being served outside maintenance: no
\* acknowledgment, however late, makes a player ready for a scene it lacks.
\* Once it has read all it was sent it follows exactly the entities of the
\* session, each in its newest value: changes published between the snapshot
\* and its acknowledgment were neither lost nor applied twice.
ReadyMeansApplied ==
  \A p \in Player, c \in Connection : CountedReady(p, c) =>
    /\ clients[p].ready
    /\ clients[p].scene = session.scene /\ clients[p].baseline = session.connections[c].baseline
    /\ session.complete /\ session.authority # 0 /\ ~session.maintenance
    /\ down[c] = <<>> /\ link[c] = "open" => clients[p].motion = session.entities

\* What a player receives never contradicts what it has: no snapshot number
\* that is not new, no entity it already follows, no incomplete snapshot, no
\* removal of what the original game does not show; and before any
\* transfer and any replacement of its authority no acknowledgment is refused.
StreamsAgree ==
  \A p \in Player :
    /\ clients[p].failed \notin {"baseline", "lifecycle", "incomplete", "removal", "authentication"}
    /\ clients[p].refused \in {"", "hello"} \/ authority.process > 1 \/ faults.transfers > 0

\* No packet of the scene leaves a session whose lease has moved or whose
\* scene is withheld by a transfer.
Withheld ==
  \A c \in Connection :
    Len(down'[c]) > Len(down[c]) /\ down'[c][Len(down'[c])].kind \in Gameplay =>
      session.lease = "held" /\ ~session.maintenance /\ ~session'.maintenance
NothingLeavesWithheld == [][Withheld]_vars

\* Every player ends up ready for the scene, or its own bridge or the
\* location has stopped serving: broken connections, deferred snapshots,
\* changes in between and the end of a transfer only delay it.
StoppedServing(p) == ~Serving(clients[p]) \/ ~Serving(authority) \/ session.lease # "held"
PlayersJoin ==
  \A p \in Player : <>[](StoppedServing(p) \/ CountedReady(p, clients[p].conn))

=============================================================================
