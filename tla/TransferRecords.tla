-------------------------- MODULE TransferRecords --------------------------
(***************************************************************************)
(* The universe record a coordinator publishes, as a value: the location   *)
(* ledger, the reservations, the native transfers and the maintenance      *)
(* starts, with the checks a restart applies to what it reads.             *)
(*                                                                         *)
(* One checkpoint stays selected (commit_location_checkpoint is another    *)
(* component), so checkpoint revisions and hashes agree everywhere.  The   *)
(* measurements, digests and challenges of a transfer frame, and the bytes *)
(* of an artifact, are abstracted; what a frame identifies is kept: the    *)
(* operation, the process that reports, and the scope of the session it    *)
(* was issued in.                                                          *)
(*                                                                         *)
(* A definition marked (mutant) is the next one with a plausible bug; the  *)
(* model never uses it, it shows that a property can fail.                 *)
(***************************************************************************)
EXTENDS LedgerOperations, FiniteSetsExt

CONSTANTS
  Process,   \* worker processes: a pid with its creation time
  Nobody,    \* no process
  Scene      \* scene and baseline numbers a worker may report

None == [op |-> "none"]   \* an absent receipt or exit proof

Side == {"source", "destination"}
Lease == GlobalLease      \* a worker at one of its generations

\* A session epoch is a fresh random number; a scope is an epoch with the scene
\* and the baseline its authority reported last (0: none yet).
Scope == [epoch : Nat, scene : Scene \cup {0}]

TransferOp == {"source_fence", "destination_restore", "destination_discard",
               "source_restore", "source_activate", "destination_activate",
               "source_cleanup"}

\* The side that carries an operation out.
TargetOf(op) ==
  IF op \in {"destination_restore", "destination_discard", "destination_activate"}
  THEN "destination" ELSE "source"

Preparation == [player : Player, avatar_generation : Generation,
                location : [Side -> Location], lease : [Side -> Lease]]

NativePhase ==
  {"fence_requested", "source_fenced", "artifact_bound", "restore_requested",
   "destination_restored", "committed", "activate_requested", "destination_active",
   "cleanup_requested", "source_cleaned", "complete", "discard_requested",
   "destination_discarded", "rollback_requested", "source_restored",
   "source_activate_requested", "aborted", "checkpoint_recovered"}

CommittedPhase == {"committed", "activate_requested", "destination_active",
                   "cleanup_requested", "source_cleaned", "complete"}
TerminalPhase == {"complete", "aborted", "checkpoint_recovered"}

Exit == [process : Process, lease : Lease]
Command == [op : TransferOp, scope : Scope]
SourceReceipt == [process : Process, scope : Scope]
DestinationReceipt == [process : Process, lease : Lease, scope : Scope,
                       avatar_generation : Generation]
CleanupReceipt ==
  [process : Process, lease : Lease,
   baselined : BOOLEAN]               \* its session had published a baseline

NativeRecord ==
  [preparation : Preparation, phase : NativePhase, slot : {1, 2},
   lease : [Side -> Lease], process : [Side -> Process \cup {Nobody}],
   exit : [Side -> Exit \cup {None}], command : Command,
   received : BOOLEAN,                \* the command's receipt was accepted
   source_receipt : SourceReceipt \cup {None},
   destination_receipt : DestinationReceipt \cup {None},
   cleanup_receipt : CleanupReceipt \cup {None},
   artifact : BOOLEAN,                \* artifact and approval are bound
   avatar_generation : Generation,
   ownership_committed : BOOLEAN, source_rollback_committed : BOOLEAN,
   completed_once : BOOLEAN, source_retired : BOOLEAN]

MaxPreparations == 2
MaxNativeTransfers == 4
MaxStarts == 2

\* f is a member of PartialFunction(S, T), which TLC cannot enumerate here.
PartiallyMaps(f, S, T) == DOMAIN f \subseteq S /\ f \in [DOMAIN f -> T]

HeadTyped(H) ==
  /\ H.locations \in Ledger
  /\ PartiallyMaps(H.preparations, TransferId, Preparation)
  /\ PartiallyMaps(H.native_transfers, TransferId, NativeRecord)
  /\ PartiallyMaps(H.maintenance_starts, Location, TransferId)

-----------------------------------------------------------------------------
LeaseAt(L, l) == [worker |-> L.locations[l].worker, generation |-> L.locations[l].generation]

HoldsLease(L, l, lease) ==
  l \in DOMAIN L.locations /\ L.locations[l].active /\ LeaseAt(L, l) = lease

\* The reservation's leases and avatar incarnation are the current ones.
PreparationIdentity(p, L) ==
  /\ p.location["source"] # p.location["destination"]
  /\ \A side \in Side : HoldsLease(L, p.location[side], p.lease[side])
  /\ p.player \in DOMAIN L.avatars
  /\ L.avatars[p.player] = [generation |-> p.avatar_generation,
                            location |-> p.location["source"], active |-> TRUE]

PreparationRecord(id, p, L) ==
  /\ PreparationIdentity(p, L)
  /\ id \in DOMAIN L.transfers
  /\ L.transfers[id].phase = "prepared"
  /\ L.transfers[id].player = p.player
  /\ L.transfers[id].source = p.location["source"]
  /\ L.transfers[id].destination = p.location["destination"]
  /\ L.transfers[id].source_generation = p.avatar_generation

Touches(p, l) == \E side \in Side : p.location[side] = l

\* (mutant) reservations may overlap
OverlapIgnored(H, id, p) == FALSE

OverlappingPreparation(H, id, p) ==
  \E other \in DOMAIN H.preparations \ {id} :
    \E side \in Side : Touches(H.preparations[other], p.location[side])

\* Where the transfer left its player.
Residence(r) ==
  r.preparation.location[IF r.ownership_committed THEN "destination" ELSE "source"]

ArtifactsOf(H, player) ==
  {id \in DOMAIN H.native_transfers :
     /\ H.native_transfers[id].preparation.player = player
     /\ H.native_transfers[id].artifact}

\* The finished transfer whose artifact is the player's newest state.  The code
\* takes the newest source receipt; transfer ids grow and a player has one
\* transfer at a time, so that is the receipt of the highest id.  0: none.
RecoveryArtifact(H, player) ==
  LET heads == {id \in ArtifactsOf(H, player) :
                  /\ H.native_transfers[id].phase \in TerminalPhase
                  /\ player \in DOMAIN H.locations.avatars
                  /\ H.locations.avatars[player].location = Residence(H.native_transfers[id])}
  IN  IF heads = {} THEN 0 ELSE Max(heads)

-----------------------------------------------------------------------------
(* native_record_valid: what a restart demands of a stored transfer *)

ExitValid(r, side) ==
  r.exit[side] # None =>
    LET exited == r.exit[side].lease
    IN  /\ \/ exited.generation < r.lease[side].generation
           \/ side = "source" /\ r.source_retired /\ exited = r.lease[side]
        /\ exited.generation = r.preparation.lease[side].generation
             => exited.worker = r.preparation.lease[side].worker

WorkersValid(H, r) ==
  \A side \in Side :
    /\ r.preparation.location[side] \in DOMAIN H.locations.locations
    /\ \/ r.phase \in TerminalPhase
       \/ side = "source" /\ r.completed_once /\ r.source_retired
       \/ HoldsLease(H.locations, r.preparation.location[side], r.lease[side])
    /\ ExitValid(r, side)

\* The avatar of an unfinished transfer is exactly where the record put it; a
\* finished one may have moved on under a higher generation.
AvatarAgrees(H, r, side) ==
  LET avatar == H.locations.avatars[r.preparation.player]
  IN  IF r.phase \in TerminalPhase
      THEN /\ avatar.generation >= r.avatar_generation
           /\ avatar.generation = r.avatar_generation
                => avatar.location = r.preparation.location[side]
      ELSE avatar = [generation |-> r.avatar_generation,
                     location |-> r.preparation.location[side], active |-> TRUE]

LedgerAgrees(H, id, r) ==
  LET avatar == H.locations.avatars[r.preparation.player]
      at(phases) == InPhase(H.locations, id, phases)
      absent == id \notin DOMAIN H.locations.transfers
  IN  CASE r.phase = "checkpoint_recovered" ->
             /\ absent
             /\ AvatarAgrees(H, r, "source")
             /\ r.avatar_generation > r.preparation.avatar_generation
             /\ r.source_receipt = None /\ ~r.artifact
             /\ r.exit["source"] # None
        [] r.phase = "fence_requested" ->
             /\ at({"prepared"})
             /\ avatar = [generation |-> r.preparation.avatar_generation,
                          location |-> r.preparation.location["source"], active |-> TRUE]
             /\ r.source_receipt = None /\ ~r.artifact
        [] r.phase \notin {"checkpoint_recovered", "fence_requested"} /\ r.source_receipt = None ->
             FALSE
        [] r.phase \notin {"checkpoint_recovered", "fence_requested"} /\ r.source_receipt # None ->
             \/ /\ r.source_rollback_committed
                /\ absent
                /\ r.avatar_generation > r.preparation.avatar_generation + 1
                /\ AvatarAgrees(H, r, "source")
             \/ /\ ~r.source_rollback_committed /\ r.ownership_committed
                /\ r.avatar_generation >= r.preparation.avatar_generation + 2
                /\ AvatarAgrees(H, r, "destination")
                /\ IF r.completed_once THEN absent ELSE at({"committed"})
             \/ /\ ~r.source_rollback_committed /\ ~r.ownership_committed
                /\ avatar = [generation |-> r.preparation.avatar_generation + 1,
                             location |-> r.preparation.location["source"], active |-> FALSE]
                /\ at({"source_fenced", "destination_restored"})

ArtifactValid(r) ==
  ~r.artifact => r.phase \in {"fence_requested", "source_fenced", "checkpoint_recovered"}

DestinationReceiptValid(r) ==
  LET receipt == r.destination_receipt
  IN  /\ receipt.lease = r.lease["destination"]
      /\ r.process["destination"] \in {Nobody, receipt.process}
      /\ receipt.avatar_generation
           \in (r.preparation.avatar_generation + 1)..r.avatar_generation

\* The source was cleaned by its first worker, which published a baseline before
\* the transfer, by the worker that replaced it, or by the one whose exit the
\* record holds.
CleanupReceiptValid(r) ==
  LET receipt == r.cleanup_receipt
      exited == r.exit["source"]
  IN  /\ r.slot = 2
      /\ \/ receipt.lease = r.preparation.lease["source"] /\ receipt.baselined
         \/ /\ exited # None
            /\ receipt.lease = r.lease["source"]
            /\ exited.lease.generation < receipt.lease.generation
            /\ r.process["source"] = receipt.process
         \/ exited # None /\ exited.process = receipt.process /\ exited.lease = receipt.lease

ReceiptsValid(r) ==
  /\ IF r.destination_receipt # None
     THEN DestinationReceiptValid(r)
     ELSE r.ownership_committed => r.phase \in {"artifact_bound", "restore_requested"}
  /\ r.phase \in CommittedPhase => r.ownership_committed
  /\ r.cleanup_receipt # None => CleanupReceiptValid(r)

FlagsValid(r) ==
  /\ ~(r.ownership_committed /\ r.source_rollback_committed)
  /\ r.completed_once => r.ownership_committed /\ r.source_retired
  /\ r.phase = "complete" => r.completed_once
  /\ r.completed_once /\ r.slot = 2 => r.exit["source"] # None \/ r.cleanup_receipt # None
  /\ r.phase = "aborted" => r.source_rollback_committed

RecordValid(H, id) ==
  LET r == H.native_transfers[id]
  IN  /\ r.preparation.player \in DOMAIN H.locations.avatars
      /\ WorkersValid(H, r)
      /\ LedgerAgrees(H, id, r)
      /\ ArtifactValid(r)
      /\ ReceiptsValid(r)
      /\ FlagsValid(r)

\* The four parts of recover(): the ledger's restore, the reservations, the
\* native transfers, the maintenance starts.
LedgerReadable(H) == Valid(H.locations)

PreparationsReadable(H) ==
  /\ Cardinality(DOMAIN H.preparations) <= MaxPreparations
  /\ \A id \in DOMAIN H.preparations \ DOMAIN H.native_transfers :
       PreparationRecord(id, H.preparations[id], H.locations)

TransfersReadable(H) ==
  /\ Cardinality(DOMAIN H.native_transfers) <= MaxNativeTransfers
  /\ \A id \in DOMAIN H.native_transfers : RecordValid(H, id)

StartsReadable(H) ==
  /\ Cardinality(DOMAIN H.maintenance_starts) <= MaxStarts
  /\ \A l \in DOMAIN H.maintenance_starts :
       /\ H.maintenance_starts[l] \in DOMAIN H.preparations
       /\ Touches(H.preparations[H.maintenance_starts[l]], l)

Recoverable(H) ==
  LedgerReadable(H) /\ PreparationsReadable(H) /\ TransfersReadable(H) /\ StartsReadable(H)
=============================================================================
