-------------------------- MODULE LedgerOperations --------------------------
(***************************************************************************)
(* The location ledger of src/network/location_ledger.cpp as a value.      *)
(*                                                                         *)
(* A LocationLedger is a record of maps; a map is a function whose domain  *)
(* is the set of its keys.  Every mutating member function is a pair of    *)
(* operators: CanX(L, ...) is the condition under which X returns true,    *)
(* X(L, ...) the ledger it leaves.  A refused call changes nothing.  The   *)
(* coordinator edits a copy of its ledger and publishes the copy, so the   *)
(* operators are pure and several of them can make up one step.            *)
(*                                                                         *)
(* Digests, load slots and the four numbers of a LocationId are abstracted *)
(* to members of sets; 64-bit counters keep their width as the constants   *)
(* MaxGeneration and MaxRevision (UINT64_MAX in the code).                 *)
(*                                                                         *)
(* A definition marked (mutant) is the next one with a plausible bug; the  *)
(* model never uses it, it shows that a property can fail.                 *)
(***************************************************************************)
EXTENDS Naturals, FiniteSets, Functions

CONSTANTS
  Location,         \* LocationId values
  Player,           \* canonical player ids (nonzero)
  Worker,           \* worker ids (nonzero)
  Content,          \* content digests (nonzero)
  System,           \* GlobalSystem: economy, diplomacy, galaxy_ai, disasters
  EventId,          \* ids of global events (nonzero)
  MaxGeneration,    \* UINT64_MAX, for worker and avatar generations
  MaxRevision,      \* UINT64_MAX, for checkpoint revisions
  MaxTransferId,    \* UINT64_MAX, for transfer ids
  MaxLocations, MaxAvatars, MaxTransfers, MaxGlobalEvents  \* max_* of the code

ASSUME LedgerAssumption ==
  /\ MaxGeneration \in Nat /\ MaxGeneration > 2
  /\ MaxRevision \in Nat
  /\ MaxTransferId \in Nat
  /\ MaxLocations \in Nat /\ MaxAvatars \in Nat
  /\ MaxTransfers \in Nat /\ MaxGlobalEvents \in Nat

Generation == 1..MaxGeneration
Revision == 1..MaxRevision
TransferId == 1..MaxTransferId

LocationLease == [worker : Worker, generation : Generation,
                  checkpoint : Revision, content : Content, active : BOOLEAN]
AvatarLease == [generation : Generation, location : Location, active : BOOLEAN]
Phase == {"prepared", "source_fenced", "destination_restored", "committed"}
Transfer == [player : Player, source_generation : Generation,
             destination_generation : 0..MaxGeneration,   \* 0: not recorded
             source : Location, destination : Location, phase : Phase]
GlobalLease == [worker : Worker, generation : Generation]
InterestLease == [location : Location, avatar_generation : Generation,
                  worker : Worker, worker_generation : Generation]

PartialFunction(S, T) == UNION {[D -> T] : D \in SUBSET S}
Put(f, key, value) ==
  [k \in DOMAIN f \cup {key} |-> IF k = key THEN value ELSE f[k]]
Without(f, S) == Restrict(f, DOMAIN f \ S)

Ledger == [locations : PartialFunction(Location, LocationLease),
           avatars : PartialFunction(Player, AvatarLease),
           transfers : PartialFunction(TransferId, Transfer),
           globals : PartialFunction(System, GlobalLease),
           interests : PartialFunction(Player, InterestLease),
           global_events : SUBSET (System \X EventId),
           high_transfer_id : 0..MaxTransferId]

Empty == [x \in {} |-> x]
EmptyLedger == [locations |-> Empty, avatars |-> Empty, transfers |-> Empty,
                globals |-> Empty, interests |-> Empty,
                global_events |-> {}, high_transfer_id |-> 0]

-----------------------------------------------------------------------------
(* Queries *)

WorkerActive(L, worker, generation) ==
  \E l \in DOMAIN L.locations :
    /\ L.locations[l].active
    /\ L.locations[l].worker = worker
    /\ L.locations[l].generation = generation

\* A worker owns one location and all locations read one checkpoint.
OtherLocationsAdmit(L, id, worker, checkpoint) ==
  \A l \in DOMAIN L.locations \ {id} :
    /\ L.locations[l].worker # worker
    /\ L.locations[l].checkpoint = checkpoint

TransferIn(L, player, phases) ==
  \E t \in DOMAIN L.transfers :
    L.transfers[t].player = player /\ L.transfers[t].phase \in phases

TransferFenced(L, player) ==
  TransferIn(L, player, {"source_fenced", "destination_restored"})

TransferUncommitted(L, player) == TransferIn(L, player, Phase \ {"committed"})

AcceptsAvatarOutcome(L, player, id, generation, worker, worker_generation) ==
  /\ player \in DOMAIN L.avatars /\ id \in DOMAIN L.locations
  /\ L.avatars[player] =
       [generation |-> generation, location |-> id, active |-> TRUE]
  /\ L.locations[id].active
  /\ L.locations[id].worker = worker
  /\ L.locations[id].generation = worker_generation

AcceptsInterest(L, player, id, generation, worker, worker_generation) ==
  /\ player \in DOMAIN L.interests
  /\ L.interests[player] =
       [location |-> id, avatar_generation |-> generation, worker |-> worker,
        worker_generation |-> worker_generation]
  /\ AcceptsAvatarOutcome(L, player, id, generation, worker, worker_generation)

AcceptsGlobalOutcome(L, system, worker, generation) ==
  /\ system \in DOMAIN L.globals
  /\ L.globals[system] = [worker |-> worker, generation |-> generation]
  /\ WorkerActive(L, worker, generation)

CheckpointsShare(L, revision) ==
  \A l \in DOMAIN L.locations : L.locations[l].checkpoint = revision

\* The interest a player has while its avatar is at an active location.
InterestAt(L, location, generation) ==
  [location |-> location, avatar_generation |-> generation,
   worker |-> L.locations[location].worker,
   worker_generation |-> L.locations[location].generation]

\* Avatar and interest of `player` become current together.
ActivateAvatar(L, player, location, generation) ==
  [L EXCEPT
     !.avatars = Put(@, player, [generation |-> generation, location |-> location,
                                 active |-> TRUE]),
     !.interests = Put(@, player, InterestAt(L, location, generation))]

-----------------------------------------------------------------------------
(* Bootstrap: the offline location plan *)

CanAddLocation(L, id, lease) ==
  /\ lease.active
  /\ Cardinality(DOMAIN L.locations) < MaxLocations
  /\ id \notin DOMAIN L.locations
  /\ OtherLocationsAdmit(L, id, lease.worker, lease.checkpoint)

AddLocation(L, id, lease) == [L EXCEPT !.locations = Put(@, id, lease)]

CanPlaceAvatar(L, player, id) ==
  /\ Cardinality(DOMAIN L.avatars) < MaxAvatars
  /\ player \notin DOMAIN L.avatars
  /\ id \in DOMAIN L.locations /\ L.locations[id].active

PlaceAvatar(L, player, id) == ActivateAvatar(L, player, id, 1)

CanSetGlobalOwner(L, system, owner) ==
  /\ system \notin DOMAIN L.globals
  /\ WorkerActive(L, owner.worker, owner.generation)

SetGlobalOwner(L, system, owner) == [L EXCEPT !.globals = Put(@, system, owner)]

-----------------------------------------------------------------------------
(* Transfer of one avatar between two locations *)

CanBeginTransfer(L, id, player, destination) ==
  /\ id > L.high_transfer_id
  /\ Cardinality(DOMAIN L.transfers) < MaxTransfers
  /\ player \in DOMAIN L.avatars /\ L.avatars[player].active
  /\ destination \in DOMAIN L.locations /\ L.locations[destination].active
  /\ L.avatars[player].location # destination
  /\ L.avatars[player].generation < MaxGeneration - 1
  /\ ~TransferIn(L, player, Phase)
  /\ L.avatars[player].location \in DOMAIN L.locations
  /\ L.locations[L.avatars[player].location].active
  /\ L.locations[L.avatars[player].location].content = L.locations[destination].content

BeginTransfer(L, id, player, destination) ==
  [L EXCEPT
     !.transfers = Put(@, id,
        [player |-> player, source_generation |-> L.avatars[player].generation,
         destination_generation |-> 0, source |-> L.avatars[player].location,
         destination |-> destination, phase |-> "prepared"]),
     !.high_transfer_id = id]

InPhase(L, id, phases) == id \in DOMAIN L.transfers /\ L.transfers[id].phase \in phases

CanFenceSource(L, id, source_generation) ==
  /\ InPhase(L, id, {"prepared"})
  /\ LET transfer == L.transfers[id]
         avatar == L.avatars[transfer.player]
     IN  /\ L.locations[transfer.source].active
         /\ L.locations[transfer.destination].active
         /\ avatar.generation = source_generation
         /\ avatar.generation = transfer.source_generation
         /\ avatar.active
         /\ avatar.generation < MaxGeneration - 1

FenceSource(L, id) ==
  LET player == L.transfers[id].player
      avatar == L.avatars[player]
  IN  [L EXCEPT
         !.avatars = Put(@, player, [generation |-> avatar.generation + 1,
                                     location |-> avatar.location, active |-> FALSE]),
         !.interests = Without(@, {player}),
         !.transfers = Put(@, id, [@[id] EXCEPT !.phase = "source_fenced"])]

CanDestinationRestored(L, id, worker, generation) ==
  /\ InPhase(L, id, {"source_fenced", "destination_restored"})
  /\ LET destination == L.transfers[id].destination
     IN  /\ destination \in DOMAIN L.locations
         /\ L.locations[destination].active
         /\ L.locations[destination].worker = worker
         /\ L.locations[destination].generation = generation

DestinationRestored(L, id, generation) ==
  [L EXCEPT !.transfers =
     Put(@, id, [@[id] EXCEPT !.destination_generation = generation,
                              !.phase = "destination_restored"])]

CanCommitTransfer(L, id) ==
  /\ InPhase(L, id, {"destination_restored"})
  /\ LET transfer == L.transfers[id]
         avatar == L.avatars[transfer.player]
         target == L.locations[transfer.destination]
     IN  /\ ~avatar.active
         /\ avatar.location = transfer.source
         /\ target.active
         /\ target.generation = transfer.destination_generation
         /\ avatar.generation # MaxGeneration

CommitTransfer(L, id) ==
  LET transfer == L.transfers[id]
  IN  [ActivateAvatar(L, transfer.player, transfer.destination,
                      L.avatars[transfer.player].generation + 1)
         EXCEPT !.transfers = Put(@, id, [@[id] EXCEPT !.phase = "committed"])]

CanRecoverCommittedDestination(L, id, worker, generation) ==
  /\ InPhase(L, id, {"committed"})
  /\ LET transfer == L.transfers[id]
         avatar == L.avatars[transfer.player]
         target == L.locations[transfer.destination]
     IN  /\ target.active
         /\ target.worker = worker
         /\ target.generation = generation
         /\ generation > transfer.destination_generation
         /\ avatar.active
         /\ avatar.location = transfer.destination

RecoverCommittedDestination(L, id, generation) ==
  [L EXCEPT !.transfers =
     Put(@, id, [@[id] EXCEPT !.destination_generation = generation])]

\* (mutant) a transfer finished in any phase
CanFinishAnyTransfer(L, id) == id \in DOMAIN L.transfers

CanFinishTransfer(L, id) == InPhase(L, id, {"committed"})

FinishTransfer(L, id) == [L EXCEPT !.transfers = Without(@, {id})]

\* A prepared transfer whose avatar is still active is dropped as it is; every
\* other one hands the avatar back to its source under a higher generation.
NeedsRecovery(L, id) ==
  L.transfers[id].phase # "prepared" \/ ~L.avatars[L.transfers[id].player].active

\* (mutant) the recovered generation may be the fenced one
CanAbortUnderSameGeneration(L, id, recovered_generation) ==
  /\ InPhase(L, id, Phase \ {"committed"})
  /\ LET transfer == L.transfers[id]
     IN  NeedsRecovery(L, id) =>
           /\ recovered_generation >= L.avatars[transfer.player].generation
           /\ transfer.source \in DOMAIN L.locations
           /\ L.locations[transfer.source].active

CanAbortTransfer(L, id, recovered_generation) ==
  /\ InPhase(L, id, Phase \ {"committed"})
  /\ LET transfer == L.transfers[id]
     IN  NeedsRecovery(L, id) =>
           /\ recovered_generation > L.avatars[transfer.player].generation
           /\ transfer.source \in DOMAIN L.locations
           /\ L.locations[transfer.source].active

\* (mutant) the avatar is not given back to its source
AbortTransferOnly(L, id, recovered_generation) ==
  [L EXCEPT !.transfers = Without(@, {id})]

\* An uncommitted transfer's avatar is still at the source, so the interest
\* the code builds from avatar.location and the source's worker is consistent.
AbortTransfer(L, id, recovered_generation) ==
  LET transfer == L.transfers[id]
      settled == IF NeedsRecovery(L, id)
                 THEN ActivateAvatar(L, transfer.player, transfer.source, recovered_generation)
                 ELSE L
  IN  [settled EXCEPT !.transfers = Without(@, {id})]

-----------------------------------------------------------------------------
(* Loss and replacement of a worker, rotation of the checkpoint *)

AvatarsAt(L, id) == {p \in DOMAIN L.avatars : L.avatars[p].location = id}

CanLoseWorker(L, id, worker, generation) ==
  /\ id \in DOMAIN L.locations
  /\ L.locations[id].active
  /\ L.locations[id].worker = worker
  /\ L.locations[id].generation = generation

\* (mutant) the interests of the lost avatars stay
WorkerLostKeepingInterests(L, id) ==
  [L EXCEPT
     !.locations = Put(@, id, [@[id] EXCEPT !.active = FALSE]),
     !.avatars = [p \in DOMAIN @ |->
                    IF @[p].location = id THEN [@[p] EXCEPT !.active = FALSE] ELSE @[p]]]

WorkerLost(L, id) ==
  [L EXCEPT
     !.locations = Put(@, id, [@[id] EXCEPT !.active = FALSE]),
     !.avatars = [p \in DOMAIN @ |->
                    IF @[p].location = id THEN [@[p] EXCEPT !.active = FALSE] ELSE @[p]],
     !.interests = Without(@, AvatarsAt(L, id))]

\* (mutant) the replacement's generation may be any
CanReplaceUnderAnyGeneration(L, id, worker, generation, checkpoint) ==
  /\ id \in DOMAIN L.locations
  /\ ~L.locations[id].active
  /\ checkpoint >= L.locations[id].checkpoint
  /\ OtherLocationsAdmit(L, id, worker, checkpoint)
  /\ \A p \in AvatarsAt(L, id) : L.avatars[p].generation # MaxGeneration

CanReplaceWorker(L, id, worker, generation, checkpoint) ==
  /\ id \in DOMAIN L.locations
  /\ ~L.locations[id].active
  /\ generation > L.locations[id].generation
  /\ checkpoint >= L.locations[id].checkpoint
  /\ OtherLocationsAdmit(L, id, worker, checkpoint)
  /\ \A p \in AvatarsAt(L, id) : L.avatars[p].generation # MaxGeneration

\* Replacing a source revokes what was only prepared there.
DropPreparedFrom(L, id) ==
  [L EXCEPT !.transfers =
     Without(@, {t \in DOMAIN @ : @[t].source = id /\ @[t].phase = "prepared"})]

ReplaceWorker(L, id, worker, generation, checkpoint) ==
  LET dropped == DropPreparedFrom(L, id)
      resumed == {p \in AvatarsAt(L, id) : ~TransferUncommitted(dropped, p)}
      epoch(p) == L.avatars[p].generation + 1
  IN  [dropped EXCEPT
         !.locations = Put(@, id,
            [worker |-> worker, generation |-> generation, checkpoint |-> checkpoint,
             content |-> @[id].content, active |-> TRUE]),
         !.avatars = [p \in DOMAIN @ |->
                        IF p \in resumed
                        THEN [@[p] EXCEPT !.generation = epoch(p), !.active = TRUE]
                        ELSE @[p]],
         !.interests = [p \in DOMAIN @ \cup resumed |->
                        IF p \in resumed
                        THEN [location |-> id, avatar_generation |-> epoch(p),
                              worker |-> worker, worker_generation |-> generation]
                        ELSE @[p]]]

CanRotateCheckpoint(L, previous, next) ==
  /\ next > previous
  /\ DOMAIN L.locations # {}
  /\ DOMAIN L.transfers = {}
  /\ CheckpointsShare(L, previous)
  /\ \A l \in DOMAIN L.locations :
       L.locations[l].active => L.locations[l].generation # MaxGeneration
  /\ \A p \in DOMAIN L.avatars :
       L.avatars[p].active => L.avatars[p].generation # MaxGeneration

Bumped(lease) == IF lease.active THEN [lease EXCEPT !.generation = @ + 1] ELSE lease

RotatedLocations(L, next) ==
  [l \in DOMAIN L.locations |-> [Bumped(L.locations[l]) EXCEPT !.checkpoint = next]]

RotatedGlobals(L) ==
  [s \in DOMAIN L.globals |->
     IF WorkerActive(L, L.globals[s].worker, L.globals[s].generation)
     THEN [L.globals[s] EXCEPT !.generation = @ + 1]
     ELSE L.globals[s]]

ActiveAvatars(L) == {p \in DOMAIN L.avatars : L.avatars[p].active}

RotatedInterests(L, next) ==
  [p \in DOMAIN L.interests \cup ActiveAvatars(L) |->
     IF p \in ActiveAvatars(L)
     THEN InterestAt([L EXCEPT !.locations = RotatedLocations(L, next)],
                     L.avatars[p].location, L.avatars[p].generation + 1)
     ELSE L.interests[p]]

\* Every active lease, and the global leases that follow it, move to the next
\* generation; every active avatar's interest is bound again.
RotateCheckpoint(L, next) ==
  [L EXCEPT !.locations = RotatedLocations(L, next),
            !.globals = RotatedGlobals(L),
            !.avatars = [p \in DOMAIN @ |-> Bumped(@[p])],
            !.interests = RotatedInterests(L, next)]

-----------------------------------------------------------------------------
(* Global systems and interests *)

\* (mutant) the replacement's generation may be any
CanRebindUnderAnyGeneration(L, system, previous, replacement) ==
  /\ system \in DOMAIN L.globals
  /\ L.globals[system] = previous
  /\ ~AcceptsGlobalOutcome(L, system, previous.worker, previous.generation)
  /\ WorkerActive(L, replacement.worker, replacement.generation)

\* (mutant) the previous owner may still be live
CanRebindLiveGlobal(L, system, previous, replacement) ==
  /\ system \in DOMAIN L.globals
  /\ L.globals[system] = previous
  /\ replacement.generation > previous.generation
  /\ WorkerActive(L, replacement.worker, replacement.generation)

CanRebindGlobal(L, system, previous, replacement) ==
  /\ system \in DOMAIN L.globals
  /\ L.globals[system] = previous
  /\ ~AcceptsGlobalOutcome(L, system, previous.worker, previous.generation)
  /\ replacement.generation > previous.generation
  /\ WorkerActive(L, replacement.worker, replacement.generation)

RebindGlobal(L, system, replacement) == [L EXCEPT !.globals = Put(@, system, replacement)]

CanClaimGlobalEvent(L, system, worker, generation, event) ==
  /\ AcceptsGlobalOutcome(L, system, worker, generation)
  /\ <<system, event>> \notin L.global_events
  /\ Cardinality(L.global_events) < MaxGlobalEvents

ClaimGlobalEvent(L, system, event) ==
  [L EXCEPT !.global_events = @ \cup {<<system, event>>}]

\* Subscribing again under the same lease succeeds and changes nothing.
CanSubscribeInterest(L, player) ==
  /\ player \in DOMAIN L.avatars /\ L.avatars[player].active
  /\ L.avatars[player].location \in DOMAIN L.locations
  /\ L.locations[L.avatars[player].location].active
  /\ IF player \in DOMAIN L.interests
     THEN L.interests[player] =
            InterestAt(L, L.avatars[player].location, L.avatars[player].generation)
     ELSE Cardinality(DOMAIN L.interests) < MaxAvatars

SubscribeInterest(L, player) ==
  [L EXCEPT !.interests =
     Put(@, player, InterestAt(L, L.avatars[player].location, L.avatars[player].generation))]

CanUnsubscribeInterest(L, player) == player \in DOMAIN L.interests

UnsubscribeInterest(L, player) == [L EXCEPT !.interests = Without(@, {player})]

-----------------------------------------------------------------------------
(* What restore() demands of a stored ledger.  It rebuilds the maps of the  *)
(* snapshot and refuses them unless valid() holds.                          *)

LocationsValid(L) ==
  \A l, m \in DOMAIN L.locations : l # m =>
    /\ L.locations[l].worker # L.locations[m].worker
    /\ L.locations[l].checkpoint = L.locations[m].checkpoint

AvatarValid(L, p) ==
  LET avatar == L.avatars[p]
  IN  /\ avatar.location \in DOMAIN L.locations
      /\ avatar.active => L.locations[avatar.location].active
      /\ ~avatar.active /\ L.locations[avatar.location].active => TransferFenced(L, p)

AvatarsValid(L) == \A p \in DOMAIN L.avatars : AvatarValid(L, p)

TransferPhaseValid(L, t) ==
  LET transfer == L.transfers[t]
      avatar == L.avatars[transfer.player]
  IN  /\ transfer.phase = "prepared" =>
           /\ avatar.location = transfer.source
           /\ avatar.generation = transfer.source_generation
           /\ ~avatar.active => ~L.locations[transfer.source].active
      /\ transfer.phase \in {"source_fenced", "destination_restored"} =>
           /\ ~avatar.active
           /\ avatar.location = transfer.source
           /\ avatar.generation > transfer.source_generation
      /\ transfer.phase = "committed" =>
           /\ avatar.location = transfer.destination
           /\ ~avatar.active => ~L.locations[transfer.destination].active
      /\ transfer.phase \in {"prepared", "source_fenced"}
           <=> transfer.destination_generation = 0

TransferValid(L, t) ==
  LET transfer == L.transfers[t]
  IN  /\ t <= L.high_transfer_id
      /\ transfer.player \in DOMAIN L.avatars
      /\ transfer.source \in DOMAIN L.locations
      /\ transfer.destination \in DOMAIN L.locations
      /\ transfer.source # transfer.destination
      /\ TransferPhaseValid(L, t)

\* A player has at most one transfer.
TransfersApart(L) ==
  \A t, u \in DOMAIN L.transfers :
    t # u => L.transfers[t].player # L.transfers[u].player

TransfersValid(L) ==
  (\A t \in DOMAIN L.transfers : TransferValid(L, t)) /\ TransfersApart(L)

InterestValid(L, p) ==
  AcceptsAvatarOutcome(L, p, L.interests[p].location, L.interests[p].avatar_generation,
                       L.interests[p].worker, L.interests[p].worker_generation)

InterestsValid(L) == \A p \in DOMAIN L.interests : InterestValid(L, p)

SizesValid(L) ==
  /\ Cardinality(DOMAIN L.locations) <= MaxLocations
  /\ Cardinality(DOMAIN L.avatars) <= MaxAvatars
  /\ Cardinality(DOMAIN L.transfers) <= MaxTransfers
  /\ Cardinality(DOMAIN L.interests) <= MaxAvatars
  /\ Cardinality(L.global_events) <= MaxGlobalEvents

Valid(L) ==
  /\ SizesValid(L)
  /\ LocationsValid(L)
  /\ AvatarsValid(L)
  /\ TransfersValid(L)
  /\ InterestsValid(L)
=============================================================================
