---------------------------- MODULE Coordinator ----------------------------
(***************************************************************************)
(* The coordinator of src/network/coordinator.cpp and its native transfer  *)
(* half, coordinator_transfer.inc: one process, one thread, that moves a   *)
(* player's avatar from the worker of one location to that of another.     *)
(*                                                                         *)
(* `head` is the universe record.  Every operation publishes it whole and  *)
(* only then changes memory, so memory and store hold the same record; a   *)
(* crash during a publication leaves the old or the new one, which is the  *)
(* operation not done, or done and followed by Restart.  Everything else   *)
(* is volatile: the location sessions, the registered processes.           *)
(*                                                                         *)
(* Requests of the administrator (transfer_control.cpp) carry the revision *)
(* they were written for, so a stale one is refused and a repeated one is  *)
(* answered without a step; the model leaves both out and lets a current   *)
(* request come at any time.                                               *)
(*                                                                         *)
(* A definition marked (mutant) is the next one with a plausible bug; the  *)
(* model never uses it, it shows that a property can fail.                 *)
(***************************************************************************)
EXTENDS TransferRecords

CONSTANTS
  Economy,        \* the global system whose owner is the content authority
  Checkpoint,     \* the selected checkpoint's revision
  Replacement,    \* the leases an administrator gives to replacement workers
  Request,        \* the control requests an instance issues
  MaxRuns         \* bound on the coordinator's runs: MaxRuns - 1 crashes

\* The offline bootstrap refuses more locations and avatars than the ledger's
\* limits, and every location reads some content.
ASSUME CoordinatorAssumption ==
  /\ Economy \in System
  /\ Checkpoint \in Revision
  /\ Replacement \subseteq Lease
  /\ MaxRuns \in Nat
  /\ 0 \notin Scene /\ Nobody \notin Process
  /\ IsFiniteSet(Location) /\ Cardinality(Location) <= MaxLocations
  /\ IsFiniteSet(Player) /\ Cardinality(Player) <= MaxAvatars
  /\ Content # {}

VARIABLES
  head,             \* the universe record, published and in memory
  sessions,         \* location -> the session of its authority
  local_processes,  \* location -> the process registered for its lease
  home,             \* process -> the location it was launched for, or Nobody
  dead,             \* processes that have ended
  live,             \* <<process, player>>: the copy of the avatar may be running
  held,             \* process -> player -> transfer whose export its copy has (0: the checkpoint)
  runs              \* times the coordinator was started

vars == <<head, sessions, local_processes, home, dead, live, held, runs>>

LocalProcess == [lease : Lease, process : Process]
View == [lease : LocationLease, generations : PartialFunction(Player, Generation),
         interested : SUBSET Player]
Session ==
  [epoch : Nat, view : View,        \* the leases captured when it was opened
   owners : SUBSET Player,          \* players whose entities it publishes
   content_authority : BOOLEAN, fenced : BOOLEAN,
   start : 0..MaxTransferId,        \* the transfer it was admitted in maintenance for
   maintenance : 0..MaxTransferId,  \* the transfer it is in maintenance for
   process : Process \cup {Nobody}, \* the process that holds its credential
   connected : BOOLEAN, complete : BOOLEAN, scene : Scene \cup {0}]

-----------------------------------------------------------------------------
(* Sessions (session.cpp) *)

Ledgered == head.locations
Record(id) == head.native_transfers[id]

Residents(L, l) == {p \in DOMAIN L.avatars : L.avatars[p].active /\ L.avatars[p].location = l}

ViewOf(L, l) ==
  [lease |-> L.locations[l],
   generations |-> [p \in Residents(L, l) |-> L.avatars[p].generation],
   interested |-> {p \in Residents(L, l) :
     AcceptsInterest(L, p, l, L.avatars[p].generation, L.locations[l].worker,
                     L.locations[l].generation)}]

OwnsContent(L, lease) ==
  Economy \in DOMAIN L.globals /\ L.globals[Economy] = lease

LeaseCurrent(s, L, l) ==
  /\ ~s.fenced
  /\ s.view = ViewOf(L, l) /\ L.locations[l].active
  /\ s.owners = Residents(L, l)
  /\ s.content_authority = OwnsContent(L, LeaseAt(L, l))

Current(l) == l \in DOMAIN sessions /\ LeaseCurrent(sessions[l], Ledgered, l)

AuthorityReady(l) ==
  /\ Current(l)
  /\ sessions[l].connected /\ sessions[l].complete /\ sessions[l].maintenance = 0

AuthorityControlReady(l) ==
  /\ Current(l) /\ sessions[l].connected
  /\ sessions[l].complete \/ (sessions[l].start # 0 /\ sessions[l].scene # 0)

ClearScene(s) == [s EXCEPT !.connected = FALSE, !.complete = FALSE, !.scene = 0]

FenceLease(s) == [ClearScene(s) EXCEPT !.fenced = TRUE]

BeginMaintenance(s, L, l, id) ==
  IF id # 0 /\ LeaseCurrent(s, L, l) /\ s.maintenance \in {0, id}
  THEN [s EXCEPT !.maintenance = id] ELSE s

\* A random epoch is one that nothing refers to.
UsedEpochs ==
  LET scopes == UNION {{r.command.scope} \cup
                       {x.scope : x \in {r.source_receipt, r.destination_receipt} \ {None}}
                       : r \in {Record(id) : id \in DOMAIN head.native_transfers}}
  IN  {s.epoch : s \in scopes} \cup {sessions[l].epoch : l \in DOMAIN sessions}

FreshEpoch == Min((1..Cardinality(UsedEpochs) + 1) \ UsedEpochs)

\* A session under a new credential and epoch, admitted in maintenance for
\* `start` (0: ordinary admission).
NewSession(L, l, owners, content_authority, start) ==
  LET s == [epoch |-> FreshEpoch, view |-> ViewOf(L, l), owners |-> owners,
            content_authority |-> content_authority, fenced |-> FALSE, start |-> start,
            maintenance |-> 0, process |-> Nobody, connected |-> FALSE,
            complete |-> FALSE, scene |-> 0]
  IN  BeginMaintenance([s EXCEPT !.fenced = ~LeaseCurrent(s, L, l)], L, l, start)

ScopeOf(s) == [epoch |-> s.epoch, scene |-> s.scene]

\* rebind_transfer_maintenance: the session takes over the leases the transfer
\* changed; a release ends the maintenance and awaits a new baseline.
CanRebind(s, L, l, id) ==
  /\ s.maintenance = id /\ ~s.fenced
  /\ HoldsLease(L, l, [worker |-> s.view.lease.worker, generation |-> s.view.lease.generation])

Rebound(s, L, l, id, release) ==
  IF ~CanRebind(s, L, l, id) THEN s
  ELSE LET captured == [s EXCEPT !.owners = Residents(L, l), !.view = ViewOf(L, l)]
       IN  IF release /\ LeaseCurrent(captured, L, l)
           THEN [captured EXCEPT !.maintenance = 0, !.start = 0, !.complete = FALSE]
           ELSE captured

\* fence_stale_locations
Fenced(S, L) == [l \in DOMAIN S |-> IF LeaseCurrent(S[l], L, l) THEN S[l] ELSE FenceLease(S[l])]

-----------------------------------------------------------------------------
(* Publications *)

Publish(h) == head' = h

\* (mutant) the starts stay
WithoutStartsKept(starts, ids) == starts

\* publish_native: a finished transfer gives up its reservation and its starts.
WithoutStarts(starts, ids) == Without(starts, {l \in DOMAIN starts : starts[l] \in ids})

PublishNative(L, records, preparations, starts) ==
  LET finished == {id \in DOMAIN records : records[id].phase \in TerminalPhase}
  IN  Publish([locations |-> L, native_transfers |-> records,
               preparations |-> Without(preparations, finished),
               maintenance_starts |-> WithoutStarts(starts, finished)])

\* What most steps of a transfer publish: record `id` becomes `r`.
PublishRecord(L, id, r) ==
  PublishNative(L, Put(head.native_transfers, id, r), head.preparations,
                head.maintenance_starts)

\* The global systems of a replaced worker follow the replacement.
CanRebindOwners(L, old, new) ==
  \A s \in DOMAIN L.globals : L.globals[s] = old => CanRebindGlobal(L, s, old, new)

RebindOwners(L, old, new) ==
  [L EXCEPT !.globals = [s \in DOMAIN @ |-> IF @[s] = old THEN new ELSE @[s]]]

\* Transfers still prepared and unfenced are simply dropped by abort_transfer.
CanDropTransfers(L, ids) == \A id \in ids : CanAbortTransfer(L, id, 0)
DropTransfers(L, ids) == [L EXCEPT !.transfers = Without(@, ids)]

-----------------------------------------------------------------------------
(* Reservations (coordinator.cpp) *)

\* The only reservation prepare_transfer accepts: it names what is current.
CurrentPreparation(L, player, destination) ==
  LET source == L.avatars[player].location
  IN  [player |-> player, avatar_generation |-> L.avatars[player].generation,
       location |-> [source |-> source, destination |-> destination],
       lease |-> [source |-> LeaseAt(L, source), destination |-> LeaseAt(L, destination)]]

PrepareTransfer(id, player, destination) ==
  /\ "prepare" \in Request
  /\ id \notin DOMAIN head.preparations
  /\ Cardinality(DOMAIN head.preparations) < MaxPreparations
  /\ CanBeginTransfer(Ledgered, id, player, destination)
  /\ AuthorityReady(Ledgered.avatars[player].location) /\ AuthorityReady(destination)
  /\ LET p == CurrentPreparation(Ledgered, player, destination)
         L == BeginTransfer(Ledgered, id, player, destination)
     IN  /\ PreparationIdentity(p, Ledgered)
         /\ Valid(L)
         /\ Publish([head EXCEPT !.locations = L, !.preparations = Put(@, id, p)])
  /\ UNCHANGED <<sessions, local_processes, home, dead, live, held, runs>>

CancelTransfer(id) ==
  /\ "cancel" \in Request
  /\ id \in DOMAIN head.preparations \ DOMAIN head.native_transfers
  /\ PreparationRecord(id, head.preparations[id], Ledgered)
  /\ CanAbortTransfer(Ledgered, id, 0)
  /\ Publish([head EXCEPT !.locations = AbortTransfer(@, id, 0),
                          !.preparations = Without(@, {id})])
  /\ UNCHANGED <<sessions, local_processes, home, dead, live, held, runs>>

\* (mutant) a resident's artifact does not hinder the replacement
FreeOfUnfinishedTransfers(l) ==
  \A id \in DOMAIN head.native_transfers :
    Record(id).phase \notin TerminalPhase => ~Touches(Record(id).preparation, l)

FreeOfNativeRecovery(l) ==
  /\ \A id \in DOMAIN head.native_transfers :
       Record(id).phase \notin TerminalPhase => ~Touches(Record(id).preparation, l)
  /\ \A p \in DOMAIN Ledgered.avatars :
       Ledgered.avatars[p].location = l => RecoveryArtifact(head, p) = 0

\* (mutant) reservations into the location are overlooked
ReservationsFrom(l) ==
  {id \in DOMAIN head.preparations : head.preparations[id].location["source"] = l}

ReservationsAt(l) == {id \in DOMAIN head.preparations : Touches(head.preparations[id], l)}

\* The worker of a disconnected location is replaced; reservations that touch
\* the location are cancelled with it.
ReplaceDisconnectedLocation(l, new) ==
  /\ "replace" \in Request
  /\ Current(l) /\ FreeOfNativeRecovery(l)
  /\ ~sessions[l].connected /\ ~sessions[l].complete
  /\ new.generation > Ledgered.locations[l].generation
  /\ LET old == LeaseAt(Ledgered, l)
         cancelled == ReservationsAt(l)
         lost == WorkerLost(DropTransfers(Ledgered, cancelled), l)
         replaced == ReplaceWorker(lost, l, new.worker, new.generation, Checkpoint)
         L == RebindOwners(replaced, old, new)
         rotated == [sessions[l] EXCEPT !.view = ViewOf(L, l), !.process = Nobody]
     IN  /\ CanDropTransfers(Ledgered, cancelled)
         /\ CanReplaceWorker(lost, l, new.worker, new.generation, Checkpoint)
         /\ CanRebindOwners(replaced, old, new)
         /\ Valid(L)
         /\ Publish([head EXCEPT !.locations = L, !.preparations = Without(@, cancelled)])
         /\ sessions' = [sessions EXCEPT ![l] =
              IF LeaseCurrent(rotated, L, l) THEN rotated ELSE FenceLease(rotated)]
  /\ UNCHANGED <<local_processes, home, dead, live, held, runs>>

-----------------------------------------------------------------------------
(* Processes and connections *)

\* A launched process belongs to the location whose credential it was given.
LaunchedFor(l, p) == p \notin dead /\ home[p] \in {Nobody, l}

PinnedElsewhere(l, lease, p) ==
  \E id \in DOMAIN head.native_transfers, side \in Side :
    /\ Record(id).preparation.location[side] = l /\ Record(id).lease[side] = lease
    /\ Record(id).process[side] \notin {Nobody, p}

RegisterLocalWorkerProcess(l, p) ==
  /\ l \in DOMAIN sessions /\ LaunchedFor(l, p)
  /\ Ledgered.locations[l].active
  /\ sessions[l].process \in {Nobody, p}
  /\ ~PinnedElsewhere(l, LeaseAt(Ledgered, l), p)
  /\ l \in DOMAIN local_processes =>
       \/ local_processes[l].lease # LeaseAt(Ledgered, l)
       \/ local_processes[l].process = p
  /\ local_processes' = Put(local_processes, l, [lease |-> LeaseAt(Ledgered, l), process |-> p])
  /\ home' = [home EXCEPT ![p] = l]
  /\ UNCHANGED <<head, sessions, dead, live, held, runs>>

\* An authority's hello is accepted.  In a maintenance start it already names a
\* scene; an ordinary authority publishes a baseline first.
ConnectAuthority(l, p, scene) ==
  /\ Current(l) /\ LaunchedFor(l, p)
  /\ sessions[l].process \in {Nobody, p} /\ ~sessions[l].connected
  /\ l \in DOMAIN local_processes /\ local_processes[l].lease = LeaseAt(Ledgered, l)
       => local_processes[l].process = p
  /\ IF sessions[l].start # 0 THEN scene \in Scene ELSE scene = 0
  /\ sessions' = [sessions EXCEPT ![l].process = p, ![l].connected = TRUE, ![l].scene = scene]
  /\ home' = [home EXCEPT ![p] = l]
  /\ UNCHANGED <<head, local_processes, dead, live, held, runs>>

\* scene_begin .. scene_end: refused in maintenance.  The baseline shows one
\* entity for each owner and no other player's.  A later baseline of the same
\* session is left out: no transfer depends on one taken outside maintenance.
CompleteScene(l, scene) ==
  /\ Current(l) /\ sessions[l].connected
  /\ sessions[l].maintenance = 0 /\ ~sessions[l].complete
  /\ sessions[l].process \notin dead
  /\ sessions' = [sessions EXCEPT ![l].complete = TRUE, ![l].scene = scene]
  /\ live' = {c \in live : c[1] # sessions[l].process}
               \cup ({sessions[l].process} \X sessions[l].owners)
  /\ UNCHANGED <<head, local_processes, home, dead, held, runs>>

Disconnect(l) ==
  /\ l \in DOMAIN sessions /\ sessions[l].connected
  /\ sessions' = [sessions EXCEPT ![l] = ClearScene(@)]
  /\ UNCHANGED <<head, local_processes, home, dead, live, held, runs>>

ProcessEnds(p) ==
  /\ p \notin dead /\ home[p] # Nobody
  /\ dead' = dead \cup {p}
  /\ live' = {c \in live : c[1] # p}
  /\ held' = [held EXCEPT ![p] = [q \in Player |-> 0]]
  /\ UNCHANGED <<head, sessions, local_processes, home, runs>>

FenceStaleLocations ==
  /\ sessions' = Fenced(sessions, Ledgered)
  /\ UNCHANGED <<head, local_processes, home, dead, live, held, runs>>

\* Another start of the coordinator over the published record.  Players are
\* numbered; the last one whose state is an artifact decides.
StartTransfer(l) ==
  LET exported == {p \in DOMAIN Ledgered.avatars :
                     Ledgered.avatars[p].location = l /\ RecoveryArtifact(head, p) # 0}
  IN  IF l \in DOMAIN head.maintenance_starts THEN head.maintenance_starts[l]
      ELSE IF exported = {} THEN 0 ELSE RecoveryArtifact(head, Max(exported))

Unfinished(l) ==
  {id \in DOMAIN head.native_transfers :
     Record(id).phase \notin TerminalPhase /\ Touches(Record(id).preparation, l)}

\* A location of an unfinished transfer resumes in its maintenance.
StartLocation(l) ==
  LET s == NewSession(Ledgered, l, Residents(Ledgered, l),
                      OwnsContent(Ledgered, LeaseAt(Ledgered, l)), StartTransfer(l))
  IN  IF Unfinished(l) = {} THEN s
      ELSE BeginMaintenance(s, Ledgered, l, Min(Unfinished(l)))

Restart ==
  /\ runs < MaxRuns /\ runs' = runs + 1
  /\ Recoverable(head)
  /\ Economy \in DOMAIN Ledgered.globals
  /\ AcceptsGlobalOutcome(Ledgered, Economy, Ledgered.globals[Economy].worker,
                          Ledgered.globals[Economy].generation)
  /\ sessions' = [l \in {m \in DOMAIN Ledgered.locations : Ledgered.locations[m].active}
                    |-> StartLocation(l)]
  /\ local_processes' = Empty
  /\ UNCHANGED <<head, home, dead, live, held>>

-----------------------------------------------------------------------------
(* Native transfers (coordinator_transfer.inc) *)

NewRecord(p, slot) ==
  [preparation |-> p, phase |-> "fence_requested", slot |-> slot, lease |-> p.lease,
   process |-> [side \in Side |-> local_processes[p.location[side]].process],
   exit |-> [side \in Side |-> None],
   command |-> [op |-> "source_fence", scope |-> ScopeOf(sessions[p.location["source"]])],
   received |-> FALSE, source_receipt |-> None, destination_receipt |-> None,
   cleanup_receipt |-> None, artifact |-> FALSE,
   avatar_generation |-> p.avatar_generation, ownership_committed |-> FALSE,
   source_rollback_committed |-> FALSE, completed_once |-> FALSE, source_retired |-> FALSE]

\* (mutant) finished transfers make room, with their artifacts
KeptUnfinished == {t \in DOMAIN head.native_transfers : Record(t).phase \notin TerminalPhase}

\* Records that a new transfer does not displace.
Kept == {t \in DOMAIN head.native_transfers : Record(t).phase # "checkpoint_recovered"}

BeginNativeTransfer(id, slot) ==
  /\ "begin" \in Request
  /\ id \in DOMAIN head.preparations \ DOMAIN head.native_transfers
  /\ LET p == head.preparations[id]
         source == p.location["source"]
         destination == p.location["destination"]
     IN  /\ PreparationRecord(id, p, Ledgered)
         /\ ~OverlappingPreparation(head, id, p)
         /\ AuthorityReady(source)
         /\ \/ AuthorityReady(destination)
            \/ AuthorityControlReady(destination) /\ sessions[destination].maintenance = id
         /\ {source, destination} \subseteq DOMAIN local_processes
         /\ Cardinality(Kept) < MaxNativeTransfers
         /\ PublishNative(Ledgered,
              Put(Restrict(head.native_transfers, Kept), id, NewRecord(p, slot)),
              head.preparations, head.maintenance_starts)
         /\ sessions' = [sessions EXCEPT ![source] = BeginMaintenance(@, Ledgered, source, id)]
  /\ UNCHANGED <<local_processes, home, dead, live, held, runs>>

\* native_receipt: a report of the connected, registered, running and pinned
\* process about the pending command of its own session.  The worker may report
\* at any time after the command, or never.
ReceiptAdmitted(id, op) ==
  LET r == Record(id)
      side == TargetOf(op)
      l == r.preparation.location[side]
  IN  /\ r.command.op = op /\ ~r.received
      /\ AuthorityControlReady(l) /\ sessions[l].maintenance = id
      /\ r.command.scope = ScopeOf(sessions[l])
      /\ l \in DOMAIN local_processes
      /\ local_processes[l] = [lease |-> r.lease[side], process |-> sessions[l].process]
      /\ sessions[l].process \notin dead
      /\ r.process[side] = sessions[l].process

Reporter(id, side) == sessions[Record(id).preparation.location[side]].process

\* The record and the ledger are published, then the session takes the ledger's
\* leases over.
AcceptReceipt(id, side, L, r, release) ==
  LET l == r.preparation.location[side]
  IN  /\ PublishRecord(L, id, [r EXCEPT !.received = TRUE])
      /\ sessions' = [sessions EXCEPT ![l] = Rebound(@, L, l, id, release)]
      /\ UNCHANGED <<local_processes, home, dead, runs>>

\* (mutant) the receipt need not prove that the application is paused
HoldsRunning(process, player, id) == held' = [held EXCEPT ![process][player] = id] /\ UNCHANGED live

\* The process holds player's copy as exported by transfer id.  The receipt proves
\* a pause, with no simulation step, so no copy runs.
Holds(process, player, id) ==
  /\ held' = [held EXCEPT ![process][player] = id]
  /\ live' = live \ {<<process, player>>}

Stops(process, player) ==
  live' = live \ {<<process, player>>} /\ UNCHANGED held

SourceFenced(id) ==
  LET r == Record(id)
      fenced == [r EXCEPT
        !.phase = "source_fenced",
        !.avatar_generation = r.preparation.avatar_generation + 1,
        !.source_receipt = [process |-> Reporter(id, "source"), scope |-> r.command.scope]]
  IN  /\ r.phase = "fence_requested" /\ ReceiptAdmitted(id, "source_fence")
      /\ CanFenceSource(Ledgered, id, r.preparation.avatar_generation)
      /\ AcceptReceipt(id, "source", FenceSource(Ledgered, id), fenced, FALSE)
      /\ Holds(Reporter(id, "source"), r.preparation.player, id)

\* Before the commit the ledger records the restoration; after it, only that a
\* replaced destination has the avatar again.
DestinationRestoredReceipt(id) ==
  LET r == Record(id)
      lease == r.lease["destination"]
      restored == [r EXCEPT
        !.phase = IF r.ownership_committed THEN "committed" ELSE "destination_restored",
        !.destination_receipt = [process |-> Reporter(id, "destination"), lease |-> lease,
                                 scope |-> r.command.scope,
                                 avatar_generation |-> r.avatar_generation]]
      accept(L) == AcceptReceipt(id, "destination", L, restored, FALSE)
  IN  /\ r.phase = "restore_requested" /\ ReceiptAdmitted(id, "destination_restore")
      /\ \/ /\ ~r.ownership_committed
            /\ CanDestinationRestored(Ledgered, id, lease.worker, lease.generation)
            /\ accept(DestinationRestored(Ledgered, id, lease.generation))
         \/ /\ r.ownership_committed /\ ~r.completed_once
            /\ CanRecoverCommittedDestination(Ledgered, id, lease.worker, lease.generation)
            /\ accept(RecoverCommittedDestination(Ledgered, id, lease.generation))
         \/ /\ r.ownership_committed /\ r.completed_once
            /\ accept(Ledgered)
      /\ Holds(Reporter(id, "destination"), r.preparation.player, id)

DestinationDiscarded(id) ==
  LET r == Record(id)
  IN  /\ r.phase = "discard_requested" /\ ReceiptAdmitted(id, "destination_discard")
      /\ AcceptReceipt(id, "destination", Ledgered,
                       [r EXCEPT !.phase = "destination_discarded"], TRUE)
      /\ Stops(Reporter(id, "destination"), r.preparation.player)

SourceRestored(id) ==
  LET r == Record(id)
  IN  /\ r.phase = "rollback_requested" /\ ReceiptAdmitted(id, "source_restore")
      /\ AcceptReceipt(id, "source", Ledgered, [r EXCEPT !.phase = "source_restored"], FALSE)
      /\ Holds(Reporter(id, "source"), r.preparation.player, id)

SourceActivated(id) ==
  LET r == Record(id)
  IN  /\ r.phase = "source_activate_requested" /\ ReceiptAdmitted(id, "source_activate")
      /\ AcceptReceipt(id, "source", Ledgered, [r EXCEPT !.phase = "aborted"], TRUE)
      /\ UNCHANGED <<live, held>>

DestinationActivated(id) ==
  LET r == Record(id)
  IN  /\ r.phase = "activate_requested" /\ ReceiptAdmitted(id, "destination_activate")
      /\ AcceptReceipt(id, "destination", Ledgered,
                       [r EXCEPT !.phase = "destination_active"], TRUE)
      /\ UNCHANGED <<live, held>>

SourceCleaned(id) ==
  LET r == Record(id)
      receipt == [process |-> Reporter(id, "source"), lease |-> r.lease["source"],
                  baselined |-> sessions[r.preparation.location["source"]].complete]
  IN  /\ r.phase = "cleanup_requested" /\ r.slot = 2
      /\ ReceiptAdmitted(id, "source_cleanup")
      /\ AcceptReceipt(id, "source", Ledgered,
                       [r EXCEPT !.phase = "source_cleaned", !.source_retired = TRUE,
                                 !.cleanup_receipt = receipt], TRUE)
      /\ Stops(Reporter(id, "source"), r.preparation.player)

Receipt(id) ==
  \/ SourceFenced(id) \/ DestinationRestoredReceipt(id) \/ DestinationDiscarded(id)
  \/ SourceRestored(id) \/ SourceActivated(id) \/ DestinationActivated(id)
  \/ SourceCleaned(id)

\* (mutant) every player's finished transfers are superseded
SupersededForAll(id) ==
  {t \in DOMAIN head.native_transfers \ {id} : Record(t).phase \in TerminalPhase}

Superseded(id) ==
  {t \in DOMAIN head.native_transfers \ {id} :
     /\ Record(t).preparation.player = Record(id).preparation.player
     /\ Record(t).phase \in TerminalPhase}

\* The approved artifact becomes the player's newest state; records of finished
\* transfers of the player are dropped.
BindNativeTransferArtifact(id) ==
  LET r == Record(id)
  IN  /\ "bind" \in Request
      /\ r.phase = "source_fenced"
      /\ PublishNative(Ledgered,
           Put(Without(head.native_transfers, Superseded(id)), id,
               [r EXCEPT !.artifact = TRUE, !.phase = "artifact_bound"]),
           head.preparations, head.maintenance_starts)
      /\ UNCHANGED <<sessions, local_processes, home, dead, live, held, runs>>

\* The phase a request moves the transfer to.
RequestPhase(r, op, next) ==
  \/ /\ op = "destination_restore" /\ r.phase = "artifact_bound"
     /\ next = "restore_requested"
  \/ op = "destination_activate" /\ r.phase = "committed" /\ next = "activate_requested"
  \/ /\ op = "destination_discard" /\ ~r.ownership_committed
     /\ r.phase \in {"destination_restored", "restore_requested"}
     /\ next = "discard_requested"
  \/ /\ op = "source_restore" /\ ~r.ownership_committed
     /\ r.phase \in {"artifact_bound", "destination_discarded"}
     /\ next = "rollback_requested"
  \/ /\ op = "source_activate" /\ r.phase = "source_restored"
     /\ next = "source_activate_requested"
  \/ /\ op = "source_cleanup" /\ r.phase = "destination_active" /\ r.slot = 2
     /\ next = "cleanup_requested"

CommandTargetReady(l, id, pinned) ==
  /\ AuthorityControlReady(l) /\ sessions[l].maintenance \in {0, id}
  /\ l \in DOMAIN local_processes /\ local_processes[l].process \notin dead
  /\ pinned \in {Nobody, local_processes[l].process}

\* A request publishes the command before it is sent; the first source_activate
\* gives the avatar back to its source in the same publication.
RequestNativeTransfer(id, op) ==
  LET r == Record(id)
      side == TargetOf(op)
      l == r.preparation.location[side]
      rollback == op = "source_activate" /\ ~r.source_rollback_committed
      generation == r.preparation.avatar_generation + 2
      L == IF rollback THEN AbortTransfer(Ledgered, id, generation) ELSE Ledgered
      begun(s) == BeginMaintenance(
        IF op = "source_activate" THEN Rebound(s, L, l, id, FALSE) ELSE s, L, l, id)
  IN  /\ op \in Request
      /\ \E next \in NativePhase :
           /\ RequestPhase(r, op, next)
           /\ CommandTargetReady(l, id, r.process[side])
           /\ rollback => CanAbortTransfer(Ledgered, id, generation)
           /\ PublishRecord(L, id, [r EXCEPT
                !.phase = next, !.received = FALSE,
                !.process[side] = local_processes[l].process,
                !.command = [op |-> op, scope |-> ScopeOf(sessions[l])],
                !.avatar_generation = IF rollback THEN generation ELSE @,
                !.source_rollback_committed = @ \/ rollback])
      /\ sessions' = [sessions EXCEPT ![l] = begun(@)]
      /\ live' = IF op \in {"source_activate", "destination_activate"}
                 THEN live \cup {<<sessions[l].process, r.preparation.player>>} ELSE live
      /\ UNCHANGED <<local_processes, home, dead, held, runs>>

\* process_matches and the session's scope: the side still is what its receipt
\* witnessed.
StillWitnessed(id, side, receipt, lease) ==
  LET l == Record(id).preparation.location[side]
  IN  /\ l \in DOMAIN local_processes
      /\ local_processes[l] = [lease |-> lease, process |-> receipt.process]
      /\ receipt.process \notin dead
      /\ AuthorityControlReady(l) /\ sessions[l].maintenance = id
      /\ ScopeOf(sessions[l]) = receipt.scope

CommitNativeTransfer(id) ==
  LET r == Record(id)
      L == CommitTransfer(Ledgered, id)
  IN  /\ "commit" \in Request
      /\ r.phase = "destination_restored"
      /\ StillWitnessed(id, "source", r.source_receipt, r.preparation.lease["source"])
      /\ StillWitnessed(id, "destination", r.destination_receipt, r.destination_receipt.lease)
      /\ CanCommitTransfer(Ledgered, id)
      /\ PublishRecord(L, id,
           [r EXCEPT !.phase = "committed", !.ownership_committed = TRUE,
                     !.avatar_generation = r.preparation.avatar_generation + 2])
      /\ sessions' = [l \in DOMAIN sessions |->
           IF Touches(r.preparation, l) THEN Rebound(sessions[l], L, l, id, FALSE)
           ELSE sessions[l]]
      /\ UNCHANGED <<local_processes, home, dead, live, held, runs>>

\* Without a cleanup receipt, the observed end of the source's process retires
\* a source that the player left from slot 1.
SourceExitObserved(r) ==
  LET l == r.preparation.location["source"]
  IN  /\ r.slot = 1
      /\ l \in DOMAIN local_processes
      /\ local_processes[l].process = r.source_receipt.process
      /\ local_processes[l].process \in dead

\* The emptied source gives up its lease.
CanVacate(L, l, lease) ==
  /\ Residents(L, l) = {}
  /\ \A s \in DOMAIN L.globals : L.globals[s] # lease
  /\ CanLoseWorker(L, l, lease.worker, lease.generation)

FinishNativeTransfer(id) ==
  LET r == Record(id)
      source == r.preparation.location["source"]
      destination == r.preparation.location["destination"]
      retired == IF r.source_retired THEN r
                 ELSE [r EXCEPT !.source_retired = TRUE,
                        !.exit["source"] = [process |-> r.process["source"],
                                            lease |-> r.lease["source"]]]
      vacates == ~r.completed_once /\ r.slot = 1
      vacated == IF vacates THEN WorkerLost(Ledgered, source) ELSE Ledgered
  IN  /\ "finish" \in Request
      /\ r.phase \in {"destination_active", "source_cleaned"}
      /\ AuthorityReady(destination)
      /\ r.preparation.player \in sessions[destination].owners
      /\ sessions[destination].process = r.destination_receipt.process
      /\ ~r.completed_once /\ r.source_retired /\ r.exit["source"] # None /\ r.slot = 2
           => AuthorityReady(source)
      /\ ~r.source_retired => SourceExitObserved(r)
      /\ vacates => CanVacate(Ledgered, source, r.lease["source"])
      /\ ~r.completed_once => CanFinishTransfer(vacated, id)
      /\ PublishRecord(IF r.completed_once THEN vacated ELSE FinishTransfer(vacated, id), id,
           [retired EXCEPT !.phase = "complete", !.completed_once = TRUE])
      /\ UNCHANGED <<sessions, local_processes, home, dead, live, held, runs>>

-----------------------------------------------------------------------------
(* Recovery of a worker that died during or after a transfer *)

\* (mutant) a source that never exported may always go back to the checkpoint
RecoversHead(id, side) ==
  LET r == Record(id)
  IN  r.phase \in TerminalPhase =>
        (side = "source") # r.ownership_committed
        /\ RecoveryArtifact(head, r.preparation.player) = id

\* A finished transfer is recovered only as the player's head, and a source that
\* never exported goes back to the checkpoint only if there is no other head.
RecoversLatest(id, side) ==
  LET r == Record(id)
      artifact_head == RecoveryArtifact(head, r.preparation.player)
  IN  /\ r.phase \in TerminalPhase =>
           (side = "source") # r.ownership_committed /\ artifact_head = id
      /\ side = "source" /\ r.phase = "fence_requested" => artifact_head \in {0, id}

\* worker_recovery_admitted: the pinned process is observed dead and its lease
\* is the location's.
RecoveryAdmitted(id, side, new) ==
  LET r == Record(id)
      l == r.preparation.location[side]
      old == r.lease[side]
  IN  /\ new.generation > old.generation
      /\ r.phase # "checkpoint_recovered"
      /\ RecoversLatest(id, side)
      /\ ~(side = "source" /\ r.ownership_committed /\ r.slot = 1)
      /\ r.process[side] # Nobody /\ l \in DOMAIN local_processes
      /\ local_processes[l] = [lease |-> old, process |-> r.process[side]]
      /\ r.process[side] \in dead
      /\ l \in DOMAIN Ledgered.locations /\ LeaseAt(Ledgered, l) = old
      /\ ~(side = "destination" /\ r.phase = "cleanup_requested")
      /\ \A s \in DOMAIN Ledgered.globals :
           Ledgered.globals[s] = old => new.worker = old.worker

\* (mutant) begun attempts are overlooked
NoLaterAttempts(id) == {}

\* Later attempts of the same player, unbound and out of the lost location, are
\* abandoned with the recovery of a finished transfer: begun ones first, then
\* reservations.  A player has one ledger transfer, so at most one is begun.
LaterAttempts(id) ==
  {t \in DOMAIN head.native_transfers \ {id} :
     /\ Record(t).preparation.player = Record(id).preparation.player
     /\ Record(t).phase \notin TerminalPhase}

LaterReservations(id) ==
  {t \in DOMAIN head.preparations \ ({id} \cup LaterAttempts(id)) :
     head.preparations[t].player = Record(id).preparation.player}

AbandonedGeneration(t) ==
  IF Record(t).phase = "source_fenced"
  THEN Ledgered.avatars[Record(t).preparation.player].generation + 1 ELSE 0

WithoutAttempts(id) ==
  LET attempts == LaterAttempts(id)
      settled == IF attempts = {} THEN Ledgered
                 ELSE LET t == CHOOSE t \in attempts : TRUE
                      IN  AbortTransfer(Ledgered, t, AbandonedGeneration(t))
  IN  DropTransfers(settled, LaterReservations(id))

CanAbandon(id, l) ==
  /\ \A t \in LaterAttempts(id) :
       /\ ~Record(t).artifact /\ Record(t).phase \in {"fence_requested", "source_fenced"}
       /\ Record(t).preparation.location["source"] = l
       /\ CanAbortTransfer(Ledgered, t, AbandonedGeneration(t))
  /\ \A t \in LaterReservations(id) :
       /\ head.preparations[t].location["source"] = l
       /\ CanAbortTransfer(Ledgered, t, 0)

\* phase_after_recovery, source side
SourceReplaced(r) ==
  CASE r.phase = "fence_requested" -> [r EXCEPT !.phase = "checkpoint_recovered"]
    [] r.phase # "fence_requested" /\ r.ownership_committed ->
         [r EXCEPT !.source_retired = TRUE,
                   !.phase = IF @ = "cleanup_requested" THEN "source_cleaned" ELSE @]
    [] r.phase # "fence_requested" /\ ~r.ownership_committed ->
         [r EXCEPT !.phase =
            IF @ \notin {"rollback_requested", "source_restored",
                         "source_activate_requested", "aborted"} THEN @
            ELSE IF r.destination_receipt # None THEN "destination_discarded"
            ELSE "artifact_bound"]

\* (mutant) the lost destination's receipt stays
DestinationReplacedWithReceipt(r) ==
  [r EXCEPT !.phase =
              IF r.ownership_committed \/ @ \in {"restore_requested", "destination_restored"}
              THEN "artifact_bound"
              ELSE IF @ = "discard_requested" THEN "destination_discarded" ELSE @]

\* phase_after_recovery, destination side
DestinationReplaced(r) ==
  [r EXCEPT !.destination_receipt = None,
            !.phase =
              IF r.ownership_committed \/ @ \in {"restore_requested", "destination_restored"}
              THEN "artifact_bound"
              ELSE IF @ = "discard_requested" THEN "destination_discarded" ELSE @]

\* (mutant) a source always starts ordinarily
DestinationStartsInMaintenance(r, side) ==
  /\ side = "destination"
  /\ \/ r.ownership_committed
     \/ r.phase \notin {"discard_requested", "destination_discarded", "rollback_requested",
                        "source_restored", "source_activate_requested"}

\* Whether the replacement starts in the transfer's maintenance.
StartsInMaintenance(r, side) ==
  IF side = "source"
  THEN r.phase # "fence_requested" /\ ~r.ownership_committed
  ELSE \/ r.ownership_committed
       \/ r.phase \notin {"discard_requested", "destination_discarded", "rollback_requested",
                          "source_restored", "source_activate_requested"}

RecoverNativeTransferWorker(id, side, new) ==
  LET r == Record(id)
      l == r.preparation.location[side]
      old == r.lease[side]
      finished == r.phase \in TerminalPhase
      attempts == IF finished THEN LaterAttempts(id) ELSE {}
      abandoned == IF finished THEN attempts \cup LaterReservations(id) ELSE {}
      settled == IF finished THEN WithoutAttempts(id) ELSE Ledgered
      checkpoint_only == side = "source" /\ r.phase = "fence_requested"
      unreserved == IF checkpoint_only THEN DropTransfers(settled, {id}) ELSE settled
      lost == IF Ledgered.locations[l].active THEN WorkerLost(unreserved, l) ELSE unreserved
      replaced == ReplaceWorker(lost, l, new.worker, new.generation, Checkpoint)
      L == RebindOwners(replaced, old, new)
      recovered == [(IF side = "source" THEN SourceReplaced(r) ELSE DestinationReplaced(r))
        EXCEPT !.exit[side] = [process |-> r.process[side], lease |-> old],
               !.process[side] = Nobody, !.lease[side] = new, !.received = FALSE,
               !.avatar_generation = L.avatars[r.preparation.player].generation]
      maintained == StartsInMaintenance(r, side)
      starts == WithoutStarts(head.maintenance_starts, abandoned)
      reserved == Without(head.preparations, abandoned)
  IN  /\ "recover" \in Request
      /\ RecoveryAdmitted(id, side, new)
      /\ finished => CanAbandon(id, l)
      /\ checkpoint_only => CanAbortTransfer(settled, id, 0)
      /\ CanReplaceWorker(lost, l, new.worker, new.generation, Checkpoint)
      /\ CanRebindOwners(replaced, old, new)
      /\ Valid(L)
      /\ PublishNative(L, Put(Without(head.native_transfers, attempts), id, recovered),
           IF finished THEN Put(reserved, id, r.preparation) ELSE reserved,
           IF maintained THEN Put(starts, l, id) ELSE Without(starts, {l}))
      /\ local_processes' = Without(local_processes, {l})
      /\ sessions' = Put(Fenced(sessions, L), l,
           NewSession(L, l, Residents(L, l), OwnsContent(L, new), IF maintained THEN id ELSE 0))
      /\ UNCHANGED <<home, dead, live, held, runs>>

\* A location whose worker a finished transfer retired gets a new worker for one
\* transfer into it, admitted in that transfer's maintenance.
PreviousWorkerRetired(l, lease) ==
  \E id \in DOMAIN head.native_transfers :
    LET r == Record(id)
    IN  /\ r.phase = "complete" /\ r.source_retired
        /\ r.preparation.location["source"] = l /\ r.lease["source"] = lease

PrepareTransferMaintenance(id, player, l, new) ==
  /\ "prepare_maintenance" \in Request
  /\ id \notin DOMAIN head.preparations
  /\ Cardinality(DOMAIN head.preparations) < MaxPreparations
  /\ l \in DOMAIN Ledgered.locations /\ ~Ledgered.locations[l].active
  /\ l \notin DOMAIN head.maintenance_starts
  /\ new.generation > Ledgered.locations[l].generation
  /\ PreviousWorkerRetired(l, LeaseAt(Ledgered, l))
  /\ CanReplaceWorker(Ledgered, l, new.worker, new.generation, Checkpoint)
  /\ LET admitted == ReplaceWorker(Ledgered, l, new.worker, new.generation, Checkpoint)
         L == BeginTransfer(admitted, id, player, l)
         p == CurrentPreparation(admitted, player, l)
     IN  /\ CanBeginTransfer(admitted, id, player, l)
         /\ PreparationIdentity(p, admitted)
         /\ AuthorityReady(p.location["source"])
         /\ Publish([head EXCEPT !.locations = L, !.preparations = Put(@, id, p),
                                 !.maintenance_starts = Put(@, l, id)])
         /\ sessions' = Put(sessions, l, NewSession(L, l, {}, FALSE, id))
  /\ UNCHANGED <<local_processes, home, dead, live, held, runs>>

-----------------------------------------------------------------------------
\* The universe as the offline bootstrap leaves it: every location has a worker,
\* every player an avatar, and one worker is the content authority.
FirstLedger(worker, place, owner) ==
  [locations |-> [l \in Location |->
     [worker |-> worker[l], generation |-> 1, checkpoint |-> Checkpoint,
      content |-> CHOOSE c \in Content : TRUE, active |-> TRUE]],
   avatars |-> [p \in Player |-> [generation |-> 1, location |-> place[p], active |-> TRUE]],
   interests |-> [p \in Player |->
     [location |-> place[p], avatar_generation |-> 1, worker |-> worker[place[p]],
      worker_generation |-> 1]],
   globals |-> [s \in System |-> [worker |-> worker[owner], generation |-> 1]],
   transfers |-> Empty, global_events |-> {}, high_transfer_id |-> 0]

Init ==
  /\ \E worker \in [Location -> Worker], place \in [Player -> Location], owner \in Location :
       /\ \A l, m \in Location : l # m => worker[l] # worker[m]
       /\ head = [locations |-> FirstLedger(worker, place, owner), preparations |-> Empty,
                  native_transfers |-> Empty, maintenance_starts |-> Empty]
  /\ sessions = Empty /\ local_processes = Empty
  /\ home = [p \in Process |-> Nobody] /\ dead = {} /\ live = {}
  /\ held = [p \in Process |-> [q \in Player |-> 0]]
  /\ runs = 0

Reservations ==
  \E id \in TransferId :
    \/ id \in DOMAIN head.preparations /\ CancelTransfer(id)
    \/ \E player \in Player, l \in Location :
         \/ PrepareTransfer(id, player, l)
         \/ \E new \in Replacement : PrepareTransferMaintenance(id, player, l, new)

Transfers ==
  \/ \E id \in DOMAIN head.preparations, slot \in {1, 2} : BeginNativeTransfer(id, slot)
  \/ \E id \in DOMAIN head.native_transfers :
       \/ Receipt(id) \/ BindNativeTransferArtifact(id)
       \/ \E op \in TransferOp : RequestNativeTransfer(id, op)
       \/ CommitNativeTransfer(id) \/ FinishNativeTransfer(id)
       \/ \E side \in Side, new \in Replacement : RecoverNativeTransferWorker(id, side, new)

Workers ==
  \/ \E p \in Process : ProcessEnds(p)
  \/ FenceStaleLocations
  \/ \E l \in DOMAIN sessions :
       \/ Disconnect(l)
       \/ \E scene \in Scene : CompleteScene(l, scene)
       \/ \E new \in Replacement : ReplaceDisconnectedLocation(l, new)
       \/ \E p \in Process :
            \/ RegisterLocalWorkerProcess(l, p)
            \/ \E scene \in Scene \cup {0} : ConnectAuthority(l, p, scene)

Next == Reservations \/ Transfers \/ Workers \/ Restart

Spec == Init /\ [][Next]_vars

-----------------------------------------------------------------------------
(* Properties *)

\* Type invariant: the published record and the volatile state of the sessions,
\* processes and copies keep their types.
TypeOK ==
  /\ HeadTyped(head)
  /\ PartiallyMaps(sessions, Location, Session)
  /\ PartiallyMaps(local_processes, Location, LocalProcess)
  /\ home \in [Process -> Location \cup {Nobody}]
  /\ dead \subseteq Process /\ live \subseteq Process \X Player
  /\ held \in [Process -> [Player -> 0..MaxTransferId]]
  /\ runs \in 0..MaxRuns

\* Whatever is published, a restart can read: the ledger passes restore(), and so
\* do the other three parts of the record.  An operation that edits one part and
\* forgets another leaves a universe that no longer opens.  (coordinator.cpp,
\* recover)
LedgerReopens == LedgerReadable(head)

\* The worker that had `lease` at l ended and was replaced by the recovery of a
\* transfer of the other player's.
Overtaken(player, l, lease) ==
  \E id \in DOMAIN head.native_transfers, side \in Side :
    LET r == Record(id)
    IN  /\ r.preparation.player # player
        /\ r.preparation.location[side] = l /\ r.exit[side] # None
        /\ r.exit[side].lease.generation >= lease.generation

\* Every reservation names current leases and its player's current incarnation,
\* but one that the other player's recovery overtook: that recovery leaves it.
PreparationsReopen ==
  \A id \in DOMAIN head.preparations \ DOMAIN head.native_transfers :
    LET p == head.preparations[id]
    IN  \/ PreparationRecord(id, p, Ledgered)
        \/ \E side \in Side : Overtaken(p.player, p.location[side], p.lease[side])

\* "Replacement of either involved worker atomically cancels the affected unfenced
\* reservation" (docs/m10-locations.md): no reservation stays on leases that were
\* replaced.  The other player's recovery breaks it.
ReservationsFollowTheirWorkers ==
  \A id \in DOMAIN head.preparations \ DOMAIN head.native_transfers, side \in Side :
    LET p == head.preparations[id]
    IN  LeaseAt(Ledgered, p.location[side]) = p.lease[side]

\* An aborted transfer is recovered at its source, and its destination, no longer
\* held by the transfer, has been given another lease meanwhile.
ReopenedOverReplacement(r) ==
  /\ r.source_rollback_committed /\ r.exit["source"] # None
  /\ r.phase \notin TerminalPhase
  /\ LET l == r.preparation.location["destination"]
     IN  Ledgered.locations[l].generation > r.lease["destination"].generation

\* The other player's recovery replaced a worker of an unfinished transfer.
OvertakenTransfer(r) ==
  /\ r.phase \notin TerminalPhase
  /\ \E side \in Side :
       Overtaken(r.preparation.player, r.preparation.location[side], r.lease[side])

\* Every native transfer agrees with the ledger, the leases of both sides and
\* its own receipts (native_record_valid), but one reopened that way and one that
\* the other player's recovery overtook before it was finished.
TransfersReopen ==
  \A id \in DOMAIN head.native_transfers :
    LET r == Record(id)
    IN  \/ RecordValid(head, id)
        \/ ReopenedOverReplacement(r)
        \/ OvertakenTransfer(r)

\* Every maintenance start names a reservation that touches its location.
StartsReopen == StartsReadable(head)

\* The starts of transfers that began do; StartsReopen is what the cancellation
\* of one that did not begin breaks.
BegunStartsReopen ==
  \A l \in DOMAIN head.maintenance_starts :
    LET id == head.maintenance_starts[l]
    IN  id \in DOMAIN head.native_transfers =>
          id \in DOMAIN head.preparations /\ Touches(head.preparations[id], l)

\* Whatever order reservations, receipts, recoveries, replacements and
\* cancellations come in, the records beside the ledger agree with it and with one
\* another as recover() demands (preparation_record, native_record_valid,
\* read_maintenance_starts), with the exceptions the three parts above name: what
\* the other player's recovery overtook, an aborted transfer recovered after its
\* destination was replaced, and the start of a cancelled reservation.
RecordsReopen == PreparationsReopen /\ TransfersReopen /\ BegunStartsReopen

LatestArtifact(player) ==
  IF ArtifactsOf(head, player) = {} THEN 0 ELSE Max(ArtifactsOf(head, player))

\* No two scenes show a running copy of the same avatar, whatever order fence,
\* restoration, commit, activation, rollback, process ends and restarts come in.
OneLiveCopy ==
  \A p \in Player : Cardinality(
    {l \in DOMAIN sessions : sessions[l].complete /\ <<sessions[l].process, p>> \in live}) <= 1

\* "Ordinary publication is released only after restoration, ownership and native
\* activation" (docs/m10-locations.md): while a transfer is unfinished the source
\* that still owns the avatar is withheld, and so is a destination that has been
\* asked to restore it and has not activated it.  A transfer that the other player's
\* recovery overtook is left out: the home is that recovery's.
WithheldUntilActive ==
  \A id \in DOMAIN head.native_transfers :
    LET r == Record(id)
    IN  ~OvertakenTransfer(r) =>
        /\ r.phase \notin TerminalPhase /\ ~r.ownership_committed
             => ~AuthorityReady(r.preparation.location["source"])
        /\ r.phase \in {"restore_requested", "destination_restored", "committed",
                        "activate_requested"}
             => ~AuthorityReady(r.preparation.location["destination"])

\* The worker at l was admitted by the recovery of a transfer of the other player's.
RecoveredForAnother(player, l) ==
  \E id \in DOMAIN head.native_transfers, side \in Side :
    LET r == Record(id)
    IN  /\ r.preparation.player # player
        /\ r.preparation.location[side] = l /\ r.exit[side] # None
        /\ HoldsLease(Ledgered, l, r.lease[side])

\* A ready authority's process has the newest artifact of every resident: "Generic
\* worker replacement and restart admission are fenced when they would expose an
\* older selected-save avatar in place of retained durable player state".  The
\* recovery of a transfer is neither: it restores the transfer's player, and shows
\* another resident as the checkpoint has it, which is the exception here.
StaleNotExposed ==
  \A l \in DOMAIN sessions : AuthorityReady(l) /\ sessions[l].process \notin dead =>
    \A p \in Residents(Ledgered, l) :
      \/ held[sessions[l].process][p] >= LatestArtifact(p)
      \/ RecoveredForAnother(p, l)

\* Once a player's state is retained as an artifact, no step (not a later attempt,
\* its abandonment, a rollback or a restart) forgets it for an older one.
ArtifactRetained ==
  [][\A p \in Player : LatestArtifact(p)' >= LatestArtifact(p)]_vars
=============================================================================
