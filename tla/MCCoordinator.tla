--------------------------- MODULE MCCoordinator ---------------------------
(* Small instances of Coordinator: two homes, as in the program.  One focus   *)
(* for each use of it, with the requests that use needs:                      *)
(*   recovery   a transfer whose workers are recovered wherever they die: both *)
(*              of them, or one with a crash of the coordinator                *)
(*   return     a transfer out of a home and back to a fresh worker there      *)
(*   replace    disconnected workers are replaced around a transfer            *)
(*   players    two players' transfers through the same homes                  *)
(*   reattempt  a worker is recovered beside a later attempt                   *)
EXTENDS Coordinator, TLC

CONSTANT Focus   \* the uses an instance explores
VARIABLE focus

Players == IF focus = "players" THEN Player ELSE {1}
Attempts == IF focus \in {"return", "players", "reattempt"} THEN 2 ELSE 1
Replaced == {l \in DOMAIN Ledgered.locations : Ledgered.locations[l].generation > 1}

\* Workers and homes are interchangeable: one assignment, and one home of the
\* first player, stand for all.
Assigned == CHOOSE f \in [Location -> Worker] : \A l, m \in Location : l # m => f[l] # f[m]
Home == CHOOSE l \in Location : TRUE

MCInit ==
  /\ focus \in Focus
  /\ \E place \in [Player -> Location], owner \in Location :
       LET first == FirstLedger(Assigned, place, owner) IN
       /\ focus = "players" => owner = Home
       /\ place[1] = Home /\ \A p \in Player \ Players : place[p] = Home
       /\ head = [locations |-> [first EXCEPT !.avatars = Restrict(@, Players), !.interests = Restrict(@, Players)],
                  preparations |-> Empty, native_transfers |-> Empty, maintenance_starts |-> Empty]
  /\ sessions = Empty /\ local_processes = Empty
  /\ home = [p \in Process |-> Nobody] /\ dead = {} /\ live = {}
  /\ held = [p \in Process |-> [q \in Player |-> 0]]
  /\ runs = 0

MCReservations ==
  \E id \in 1..Attempts :
    \/ id \in DOMAIN head.preparations /\ CancelTransfer(id) /\ focus \in {"return", "replace", "players"}
    \/ \E player \in Players, l \in Location :
         \/ PrepareTransfer(id, player, l)
         \/ focus = "return" /\ \E new \in Replacement : PrepareTransferMaintenance(id, player, l, new)

MCTransfers ==
  \/ \E id \in DOMAIN head.preparations, slot \in {1, 2} :
       /\ focus = "players" => slot = head.preparations[id].player
       /\ BeginNativeTransfer(id, slot)
  \/ \E id \in DOMAIN head.native_transfers :
       \/ Receipt(id) \/ BindNativeTransferArtifact(id)
       \/ \E op \in TransferOp : RequestNativeTransfer(id, op)
       \/ CommitNativeTransfer(id) \/ FinishNativeTransfer(id)
       \/ /\ focus \in {"recovery", "replace", "players", "reattempt"}
          /\ \E side \in Side, new \in Replacement : RecoverNativeTransferWorker(id, side, new)

MCWorkers ==
  \/ \E p \in Process : ProcessEnds(p)
  \/ FenceStaleLocations
  \/ \E l \in DOMAIN sessions :
       \/ Disconnect(l) /\ (focus = "replace" \/ sessions[l].process \in dead)
       \/ \E scene \in Scene : CompleteScene(l, scene)
       \/ focus = "replace" /\ \E new \in Replacement : ReplaceDisconnectedLocation(l, new)
       \/ \E p \in Process :
            \/ RegisterLocalWorkerProcess(l, p)
            \/ \E scene \in Scene \cup {0} : ConnectAuthority(l, p, scene)

MCNext ==
  /\ MCReservations \/ MCTransfers \/ MCWorkers \/ Restart
  /\ UNCHANGED focus
  /\ focus # "recovery" => runs' <= 1
  /\ focus \notin {"replace", "players"} => Cardinality(Replaced') <= 1
  /\ focus \in {"players", "reattempt"} => Cardinality(dead') <= 1
  /\ focus = "replace" => Cardinality(dead') <= 1
  /\ focus = "recovery" => Cardinality(dead') + runs' <= 3

MCSpec == MCInit /\ [][MCNext]_<<vars, focus>>

\* Everything the requests of a cfg allow, with no focus.
WholeSpec == Init /\ focus = "none" /\ [][Next /\ UNCHANGED focus]_<<vars, focus>>

\* Processes are interchangeable; players are numbered.
ProcessSymmetry == Permutations(Process)

\* Every worker may be replaced once.
OneReplacement == [worker : Worker, generation : {2}]
=============================================================================
