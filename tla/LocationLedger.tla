--------------------------- MODULE LocationLedger ---------------------------
(***************************************************************************)
(* The location ledger as a state machine: any caller may make any call,   *)
(* in any order, with any arguments.  One action per mutating member       *)
(* function of LocationLedger; a call the code refuses is not a step.      *)
(* The offline bootstrap (add_location, place_avatar, set_global_owner)    *)
(* may be interleaved with everything else, as commit_locations allows.    *)
(***************************************************************************)
EXTENDS LedgerOperations

VARIABLE ledger

Init == ledger = EmptyLedger

AddLocationStep(id, lease) ==
  CanAddLocation(ledger, id, lease) /\ ledger' = AddLocation(ledger, id, lease)

PlaceAvatarStep(player, id) ==
  CanPlaceAvatar(ledger, player, id) /\ ledger' = PlaceAvatar(ledger, player, id)

SetGlobalOwnerStep(system, owner) ==
  /\ CanSetGlobalOwner(ledger, system, owner)
  /\ ledger' = SetGlobalOwner(ledger, system, owner)

BeginTransferStep(id, player, destination) ==
  /\ CanBeginTransfer(ledger, id, player, destination)
  /\ ledger' = BeginTransfer(ledger, id, player, destination)

FenceSourceStep(id, generation) ==
  CanFenceSource(ledger, id, generation) /\ ledger' = FenceSource(ledger, id)

DestinationRestoredStep(id, worker, generation) ==
  /\ CanDestinationRestored(ledger, id, worker, generation)
  /\ ledger' = DestinationRestored(ledger, id, generation)

CommitTransferStep(id) ==
  CanCommitTransfer(ledger, id) /\ ledger' = CommitTransfer(ledger, id)

RecoverCommittedDestinationStep(id, worker, generation) ==
  /\ CanRecoverCommittedDestination(ledger, id, worker, generation)
  /\ ledger' = RecoverCommittedDestination(ledger, id, generation)

FinishTransferStep(id) ==
  CanFinishTransfer(ledger, id) /\ ledger' = FinishTransfer(ledger, id)

AbortTransferStep(id, generation) ==
  /\ CanAbortTransfer(ledger, id, generation)
  /\ ledger' = AbortTransfer(ledger, id, generation)

WorkerLostStep(id, worker, generation) ==
  CanLoseWorker(ledger, id, worker, generation) /\ ledger' = WorkerLost(ledger, id)

ReplaceWorkerStep(id, worker, generation, checkpoint) ==
  /\ CanReplaceWorker(ledger, id, worker, generation, checkpoint)
  /\ ledger' = ReplaceWorker(ledger, id, worker, generation, checkpoint)

RotateCheckpointStep(previous, next) ==
  /\ CanRotateCheckpoint(ledger, previous, next)
  /\ ledger' = RotateCheckpoint(ledger, next)

RebindGlobalStep(system, previous, replacement) ==
  /\ CanRebindGlobal(ledger, system, previous, replacement)
  /\ ledger' = RebindGlobal(ledger, system, replacement)

ClaimGlobalEventStep(system, worker, generation, event) ==
  /\ CanClaimGlobalEvent(ledger, system, worker, generation, event)
  /\ ledger' = ClaimGlobalEvent(ledger, system, event)

SubscribeInterestStep(player) ==
  CanSubscribeInterest(ledger, player) /\ ledger' = SubscribeInterest(ledger, player)

UnsubscribeInterestStep(player) ==
  CanUnsubscribeInterest(ledger, player) /\ ledger' = UnsubscribeInterest(ledger, player)

TransferNext ==
  \E id \in TransferId :
    \/ \E player \in Player, destination \in Location :
         BeginTransferStep(id, player, destination)
    \/ \E worker \in Worker, generation \in Generation :
         \/ DestinationRestoredStep(id, worker, generation)
         \/ RecoverCommittedDestinationStep(id, worker, generation)
    \/ \E generation \in Generation :
         FenceSourceStep(id, generation) \/ AbortTransferStep(id, generation)
    \/ AbortTransferStep(id, 0)
    \/ CommitTransferStep(id)
    \/ FinishTransferStep(id)

LocationNext ==
  \/ \E id \in Location, lease \in LocationLease : AddLocationStep(id, lease)
  \/ \E player \in Player, id \in Location : PlaceAvatarStep(player, id)
  \/ \E id \in Location, worker \in Worker, generation \in Generation :
       \/ WorkerLostStep(id, worker, generation)
       \/ \E checkpoint \in Revision : ReplaceWorkerStep(id, worker, generation, checkpoint)
  \/ \E previous, next \in Revision : RotateCheckpointStep(previous, next)
  \/ \E player \in Player : SubscribeInterestStep(player) \/ UnsubscribeInterestStep(player)

GlobalNext ==
  \E system \in System :
    \/ \E owner \in GlobalLease :
         \/ SetGlobalOwnerStep(system, owner)
         \/ \E previous \in GlobalLease : RebindGlobalStep(system, previous, owner)
    \/ \E worker \in Worker, generation \in Generation, event \in EventId :
         ClaimGlobalEventStep(system, worker, generation, event)

Next == LocationNext \/ TransferNext \/ GlobalNext

Spec == Init /\ [][Next]_ledger

-----------------------------------------------------------------------------
(* Properties *)

\* Type invariant: every map holds records of its declared shape.
TypeOK == ledger \in Ledger

\* restore(snapshot()) never fails: whatever calls were accepted, the ledger
\* they leave passes valid(), which restore() applies to every stored head.
\* A ledger that did not would be published and never be readable again.
SnapshotRestorable == Valid(ledger)

\* begin_transfer and fence_source promise ("Refuse before revoking the last
\* usable source lease") that a fenced avatar has a generation left for its
\* commit or its recovery, whatever else happens in between.
FencedAvatarHasGenerationLeft ==
  \A t \in DOMAIN ledger.transfers :
    ledger.transfers[t].phase \in {"source_fenced", "destination_restored"} =>
      ledger.avatars[ledger.transfers[t].player].generation < MaxGeneration

\* A restoration report never runs ahead of the destination's lease, so a
\* replaced destination always invalidates the report (commit_transfer compares
\* the two generations for equality).
RestorationNotAhead ==
  \A t \in DOMAIN ledger.transfers :
    ledger.transfers[t].destination_generation
      <= ledger.locations[ledger.transfers[t].destination].generation

\* An avatar that is not active can be brought back: its location waits for a
\* replacement worker, or a transfer of the player can be aborted and the source
\* takes it back under the next generation.
InactiveAvatarRecoverable ==
  \A p \in DOMAIN ledger.avatars :
    ~ledger.avatars[p].active /\ ledger.locations[ledger.avatars[p].location].active =>
      \E t \in DOMAIN ledger.transfers :
        /\ ledger.transfers[t].player = p
        /\ CanAbortTransfer(ledger, t, ledger.avatars[p].generation + 1)

\* A global system's lease is never dropped and changes only to a higher
\* generation (rebind_global, rotate_checkpoint).
GlobalsOnlyAdvance ==
  \A s \in DOMAIN ledger.globals :
    /\ s \in DOMAIN ledger'.globals
    /\ ledger'.globals[s] # ledger.globals[s] =>
         ledger'.globals[s].generation > ledger.globals[s].generation

Heard(L, s, lease) == AcceptsGlobalOutcome(L, s, lease.worker, lease.generation)

\* A live producer is never displaced: while the owner's lease is current, only
\* the rotation of the whole checkpoint moves it, and then to the same worker.
LiveProducersStay ==
  \A s \in DOMAIN ledger.globals :
    /\ Heard(ledger, s, ledger.globals[s])
    /\ ledger'.globals[s] # ledger.globals[s]
    => AcceptsGlobalOutcome(ledger', s, ledger.globals[s].worker,
                                        ledger.globals[s].generation + 1)

\* A producer that is not heard is heard again under the same lease only at a
\* location that was below that generation until this very step: no location
\* takes back a lease it has lost.  It does not say that the producer stays
\* unheard: generations count per location, so another location given to the
\* same worker under the same number revives the lease (replace_worker compares
\* with its own location only).
LostLeasesStayLost ==
  \A s \in DOMAIN ledger.globals :
    LET lease == ledger.globals[s] IN
      Heard(ledger', s, lease) /\ ~Heard(ledger, s, lease) =>
        \E l \in DOMAIN ledger'.locations :
          /\ ledger'.locations[l].active
          /\ ledger'.locations[l].worker = lease.worker
          /\ ledger'.locations[l].generation = lease.generation
          /\ l \in DOMAIN ledger.locations =>
               ledger.locations[l].generation < lease.generation

\* Of every call: who owns a global system only advances, a live owner keeps it,
\* and a lost owner is heard again only through a lease new to its location.
GlobalsStayOwned ==
  [][GlobalsOnlyAdvance /\ LiveProducersStay /\ LostLeasesStayLost]_ledger

-----------------------------------------------------------------------------
(* The promise behind the leases: see AvatarAuthority. *)

NoGrant == [location |-> "none"]

Issued == [p \in Player |->
  IF p \in DOMAIN ledger.avatars THEN ledger.avatars[p].generation ELSE 0]

\* Whose outcomes accepts_avatar_outcome takes for a player.
Granted == [p \in Player |->
  IF p \in DOMAIN ledger.avatars /\ ledger.avatars[p].active
     /\ ledger.locations[ledger.avatars[p].location].active
  THEN InterestAt(ledger, ledger.avatars[p].location, ledger.avatars[p].generation)
  ELSE NoGrant]

Authority == INSTANCE AvatarAuthority WITH issued <- Issued, grant <- Granted,
               Epoch <- 0..MaxGeneration, Grant <- InterestLease

\* The ledger implements AvatarAuthority.
ImplementsAuthority == Authority!Spec
=============================================================================
