---------------------------- MODULE LedgerProofs ----------------------------
(***************************************************************************)
(* Proofs about the location ledger as a state machine, and about the      *)
(* store its coordinator keeps it in, for every value of the constants.    *)
(*                                                                         *)
(* The ledger's inductive invariant is Good, with Settled for every        *)
(* transfer (LedgerLemmas): a good ledger is well typed and restorable; a  *)
(* settled transfer has a generation left and an avatar to bring back.     *)
(* The leases of the global systems follow from one step: only             *)
(* set_global_owner, rebind_global and rotate_checkpoint touch them, and   *)
(* none of the three reissues a lease or displaces a live producer.        *)
(***************************************************************************)
EXTENDS LocationLedger, DurableStore, LedgerLemmas

LEMMA NextGood ==
  ASSUME Good(ledger), Next  PROVE Good(ledger')
<1>1. CASE LocationNext
  <2>1. ASSUME NEW id \in Location, NEW lease \in LocationLease, AddLocationStep(id, lease)
        PROVE  Good(ledger')
    BY <2>1, AddLocationGood DEF AddLocationStep
  <2>2. ASSUME NEW player \in Player, NEW id \in Location, PlaceAvatarStep(player, id)
        PROVE  Good(ledger')
    BY <2>2, PlaceAvatarGood DEF PlaceAvatarStep
  <2>3. ASSUME NEW id \in Location, NEW worker, NEW generation,
               WorkerLostStep(id, worker, generation)
        PROVE  Good(ledger')
    BY <2>3, WorkerLostGood DEF WorkerLostStep, CanLoseWorker
  <2>4. ASSUME NEW id \in Location, NEW worker \in Worker, NEW generation \in Generation,
               NEW checkpoint \in Revision,
               ReplaceWorkerStep(id, worker, generation, checkpoint)
        PROVE  Good(ledger')
    BY <2>4, ReplaceWorkerGood DEF ReplaceWorkerStep
  <2>5. ASSUME NEW previous \in Revision, NEW next \in Revision,
               RotateCheckpointStep(previous, next)
        PROVE  Good(ledger')
    BY <2>5, RotateCheckpointGood DEF RotateCheckpointStep
  <2>6. ASSUME NEW player \in Player,
               SubscribeInterestStep(player) \/ UnsubscribeInterestStep(player)
        PROVE  Good(ledger')
    BY <2>6, SubscribeInterestGood, UnsubscribeInterestGood
    DEF SubscribeInterestStep, UnsubscribeInterestStep
  <2> QED BY <1>1, <2>1, <2>2, <2>3, <2>4, <2>5, <2>6 DEF LocationNext
<1>2. CASE TransferNext
  <2>1. ASSUME NEW id \in TransferId, NEW player \in Player, NEW destination \in Location,
               BeginTransferStep(id, player, destination)
        PROVE  Good(ledger')
    BY <2>1, BeginTransferGood DEF BeginTransferStep
  <2>2. ASSUME NEW id \in TransferId, NEW worker \in Worker, NEW generation \in Generation,
               \/ DestinationRestoredStep(id, worker, generation)
               \/ RecoverCommittedDestinationStep(id, worker, generation)
        PROVE  Good(ledger')
    BY <2>2, DestinationRestoredGood, RecoverCommittedDestinationGood
    DEF DestinationRestoredStep, RecoverCommittedDestinationStep
  <2>3. ASSUME NEW id \in TransferId, NEW generation, FenceSourceStep(id, generation)
        PROVE  Good(ledger')
    BY <2>3, FenceSourceGood DEF FenceSourceStep
  <2>4. ASSUME NEW id \in TransferId, NEW g \in 0..MaxGeneration, AbortTransferStep(id, g)
        PROVE  Good(ledger')
    BY <2>4, AbortTransferGood DEF AbortTransferStep
  <2>5. ASSUME NEW id \in TransferId, CommitTransferStep(id) \/ FinishTransferStep(id)
        PROVE  Good(ledger')
    BY <2>5, CommitTransferGood, FinishTransferGood DEF CommitTransferStep, FinishTransferStep
  <2>6. 0 \in 0..MaxGeneration /\ \A g \in Generation : g \in 0..MaxGeneration
    BY LedgerAssumption DEF Generation
  <2> QED BY <1>2, <2>1, <2>2, <2>3, <2>4, <2>5, <2>6 DEF TransferNext
<1>3. CASE GlobalNext
  <2>1. ASSUME NEW system \in System, NEW owner \in GlobalLease, NEW previous,
               SetGlobalOwnerStep(system, owner) \/ RebindGlobalStep(system, previous, owner)
        PROVE  Good(ledger')
    BY <2>1, SetGlobalOwnerGood DEF SetGlobalOwnerStep, RebindGlobalStep
  <2>2. ASSUME NEW system \in System, NEW worker, NEW generation, NEW event \in EventId,
               ClaimGlobalEventStep(system, worker, generation, event)
        PROVE  Good(ledger')
    BY <2>2, ClaimGlobalEventGood DEF ClaimGlobalEventStep
  <2> QED BY <1>3, <2>1, <2>2 DEF GlobalNext
<1> QED BY <1>1, <1>2, <1>3 DEF Next

\* Whatever calls the ledger accepts, it is finite, well typed and valid().
THEOREM LedgerAlwaysGood == Spec => []Good(ledger)
<1>1. Init => Good(ledger)
  BY EmptyLedgerGood DEF Init
<1>2. Good(ledger) /\ [Next]_ledger => Good(ledger)'
  BY NextGood
<1> QED BY <1>1, <1>2, PTL DEF Spec

\* Type correctness of every reachable ledger, for any locations, players,
\* workers, generations and capacities.
THEOREM TypeCorrect == Spec => []TypeOK
<1>1. Good(ledger) => TypeOK  BY DEF Good, TypeOK
<1> QED BY <1>1, LedgerAlwaysGood, PTL

\* restore() accepts the snapshot of every reachable ledger: a head the
\* coordinator publishes after any accepted calls can be read back.
THEOREM SnapshotAlwaysRestorable == Spec => []SnapshotRestorable
<1>1. Good(ledger) => SnapshotRestorable  BY DEF Good, SnapshotRestorable
<1> QED BY <1>1, LedgerAlwaysGood, PTL

\* No step touches another transfer's promises, its own it keeps.
LEMMA NextSettled ==
  ASSUME Good(ledger), AllSettled(ledger), Next  PROVE AllSettled(ledger')
<1>1. CASE LocationNext
  <2>1. ASSUME NEW id \in Location, NEW lease \in LocationLease, AddLocationStep(id, lease)
        PROVE  AllSettled(ledger')
    BY <2>1, AddLocationSettled DEF AddLocationStep
  <2>2. ASSUME NEW player \in Player, NEW id \in Location, PlaceAvatarStep(player, id)
        PROVE  AllSettled(ledger')
    BY <2>2, PlaceAvatarSettled DEF PlaceAvatarStep
  <2>3. ASSUME NEW id \in Location, NEW worker, NEW generation,
               WorkerLostStep(id, worker, generation)
        PROVE  AllSettled(ledger')
    BY <2>3, WorkerLostSettled DEF WorkerLostStep, CanLoseWorker
  <2>4. ASSUME NEW id \in Location, NEW worker \in Worker, NEW generation \in Generation,
               NEW checkpoint \in Revision,
               ReplaceWorkerStep(id, worker, generation, checkpoint)
        PROVE  AllSettled(ledger')
    BY <2>4, ReplaceWorkerSettled DEF ReplaceWorkerStep
  <2>5. ASSUME NEW previous \in Revision, NEW next \in Revision,
               RotateCheckpointStep(previous, next)
        PROVE  AllSettled(ledger')
    BY <2>5, RotateCheckpointSettled DEF RotateCheckpointStep
  <2>6. ASSUME NEW player \in Player,
               SubscribeInterestStep(player) \/ UnsubscribeInterestStep(player)
        PROVE  AllSettled(ledger')
    <3>1. /\ ledger'.locations = ledger.locations
          /\ ledger'.avatars = ledger.avatars /\ ledger'.transfers = ledger.transfers
      BY <2>6, GoodParts DEF SubscribeInterestStep, UnsubscribeInterestStep,
                             SubscribeInterest, UnsubscribeInterest, Ledger
    <3> QED BY <3>1, SameTransfersSettled
  <2> QED BY <1>1, <2>1, <2>2, <2>3, <2>4, <2>5, <2>6 DEF LocationNext
<1>2. CASE TransferNext
  <2>1. ASSUME NEW id \in TransferId, NEW player \in Player, NEW destination \in Location,
               BeginTransferStep(id, player, destination)
        PROVE  AllSettled(ledger')
    BY <2>1, BeginTransferSettled DEF BeginTransferStep
  <2>2. ASSUME NEW id \in TransferId, NEW worker \in Worker, NEW generation \in Generation,
               \/ DestinationRestoredStep(id, worker, generation)
               \/ RecoverCommittedDestinationStep(id, worker, generation)
        PROVE  AllSettled(ledger')
    BY <2>2, DestinationRestoredSettled, RecoverCommittedDestinationSettled
    DEF DestinationRestoredStep, RecoverCommittedDestinationStep
  <2>3. ASSUME NEW id \in TransferId, NEW generation, FenceSourceStep(id, generation)
        PROVE  AllSettled(ledger')
    BY <2>3, FenceSourceSettled DEF FenceSourceStep
  <2>4. ASSUME NEW id \in TransferId, NEW g \in 0..MaxGeneration, AbortTransferStep(id, g)
        PROVE  AllSettled(ledger')
    BY <2>4, AbortTransferSettled DEF AbortTransferStep
  <2>5. ASSUME NEW id \in TransferId, CommitTransferStep(id) \/ FinishTransferStep(id)
        PROVE  AllSettled(ledger')
    BY <2>5, CommitTransferSettled, FinishTransferSettled
    DEF CommitTransferStep, FinishTransferStep
  <2>6. 0 \in 0..MaxGeneration /\ \A g \in Generation : g \in 0..MaxGeneration
    BY LedgerAssumption DEF Generation
  <2> QED BY <1>2, <2>1, <2>2, <2>3, <2>4, <2>5, <2>6 DEF TransferNext
<1>3. CASE GlobalNext
  <2>1. /\ ledger'.locations = ledger.locations
        /\ ledger'.avatars = ledger.avatars /\ ledger'.transfers = ledger.transfers
    BY <1>3, GoodParts DEF GlobalNext, SetGlobalOwnerStep, RebindGlobalStep,
         ClaimGlobalEventStep, SetGlobalOwner, RebindGlobal, ClaimGlobalEvent, Ledger
  <2> QED BY <2>1, SameTransfersSettled
<1> QED BY <1>1, <1>2, <1>3 DEF Next

SettledInv == Good(ledger) /\ AllSettled(ledger)

LEMMA AlwaysSettled == Spec => []SettledInv
<1>1. Init => SettledInv
  <2>1. AllSettled(EmptyLedger)  BY DEF AllSettled, EmptyLedger, Empty
  <2> QED BY <2>1, EmptyLedgerGood DEF Init, SettledInv
<1>2. SettledInv /\ [Next]_ledger => SettledInv'
  BY NextGood, NextSettled DEF SettledInv
<1> QED BY <1>1, <1>2, PTL DEF Spec

\* Once begin_transfer and fence_source admitted a transfer, its fenced avatar
\* has a generation left for commit_transfer or abort_transfer, whatever is
\* accepted in between.
THEOREM GenerationAlwaysLeft == Spec => []FencedAvatarHasGenerationLeft
<1>1. SettledInv => FencedAvatarHasGenerationLeft
  BY DEF SettledInv, AllSettled, Settled, FencedPhase, FencedAvatarHasGenerationLeft
<1> QED BY <1>1, AlwaysSettled, PTL

\* A restoration report never names a lease the destination has not reached, so
\* commit_transfer's comparison for equality rejects every replaced worker.
THEOREM RestorationNeverAhead == Spec => []RestorationNotAhead
<1>1. SettledInv => RestorationNotAhead
  BY DEF SettledInv, AllSettled, Settled, RestorationNotAhead
<1> QED BY <1>1, AlwaysSettled, PTL

\* No accepted call strands an avatar: while its location has a worker, an
\* avatar that is not active has a transfer that abort_transfer would accept
\* under the next generation.
THEOREM InactiveAlwaysRecoverable == Spec => []InactiveAvatarRecoverable
<1>1. Good(ledger) => InactiveAvatarRecoverable
  <2> SUFFICES ASSUME Good(ledger), NEW p \in DOMAIN ledger.avatars,
                      ~ledger.avatars[p].active,
                      ledger.locations[ledger.avatars[p].location].active
               PROVE  \E t \in DOMAIN ledger.transfers :
                        /\ ledger.transfers[t].player = p
                        /\ CanAbortTransfer(ledger, t, ledger.avatars[p].generation + 1)
    BY DEF InactiveAvatarRecoverable
  <2>1. PICK t \in DOMAIN ledger.transfers :
          ledger.transfers[t].player = p /\ ledger.transfers[t].phase \in FencedPhase
    BY GoodParts DEF AvatarsValid, AvatarValid, TransferFenced, TransferIn, FencedPhase
  <2>2. ledger.avatars[p].generation \in Nat
    BY <2>1, TransferFacts
  <2>3. /\ ledger.transfers[t].source \in DOMAIN ledger.locations
        /\ ledger.avatars[p].location = ledger.transfers[t].source
    BY <2>1, GoodParts DEF TransfersValid, TransferValid, TransferPhaseValid, FencedPhase
  <2>4. CanAbortTransfer(ledger, t, ledger.avatars[p].generation + 1)
    BY <2>1, <2>2, <2>3 DEF CanAbortTransfer, InPhase, FencedPhase, Phase
  <2> QED BY <2>1, <2>4
<1> QED BY <1>1, LedgerAlwaysGood, PTL

-----------------------------------------------------------------------------
(* The leases of the global systems *)

\* What a step may do to the globals of a good ledger.
GlobalsKept == ledger'.globals = ledger.globals

GlobalPut(system, owner) == ledger'.globals = Put(ledger.globals, system, owner)

LEMMA GlobalLeaseType ==
  ASSUME NEW L, Good(L), NEW s \in DOMAIN L.globals
  PROVE  /\ L.globals[s] \in GlobalLease
         /\ L.globals[s].generation \in Nat
         /\ L.globals[s] = [worker |-> L.globals[s].worker,
                            generation |-> L.globals[s].generation]
<1>1. L.globals[s] \in GlobalLease
  BY GoodParts, LedgerValues
<1> QED BY <1>1 DEF GlobalLease, Generation

LEMMA LocationNextGlobals ==
  ASSUME Good(ledger), LocationNext
  PROVE  \/ GlobalsKept
         \/ \E previous, next \in Revision : RotateCheckpointStep(previous, next)
<1>0. ledger \in Ledger  BY GoodParts
<1>1. ASSUME NEW id \in Location, NEW lease \in LocationLease, AddLocationStep(id, lease)
      PROVE  GlobalsKept
  BY <1>0, <1>1 DEF AddLocationStep, AddLocation, Ledger, GlobalsKept
<1>2. ASSUME NEW player \in Player, NEW id \in Location, PlaceAvatarStep(player, id)
      PROVE  GlobalsKept
  BY <1>0, <1>2 DEF PlaceAvatarStep, PlaceAvatar, ActivateAvatar, Ledger, GlobalsKept
<1>3. ASSUME NEW id \in Location, NEW worker, NEW generation,
             WorkerLostStep(id, worker, generation)
      PROVE  GlobalsKept
  BY <1>0, <1>3 DEF WorkerLostStep, WorkerLost, Ledger, GlobalsKept
<1>4. ASSUME NEW id \in Location, NEW worker, NEW generation, NEW checkpoint,
             ReplaceWorkerStep(id, worker, generation, checkpoint)
      PROVE  GlobalsKept
  BY <1>0, <1>4 DEF ReplaceWorkerStep, ReplaceWorker, DropPreparedFrom, Ledger, GlobalsKept
<1>5. ASSUME NEW player, SubscribeInterestStep(player) \/ UnsubscribeInterestStep(player)
      PROVE  GlobalsKept
  BY <1>0, <1>5 DEF SubscribeInterestStep, UnsubscribeInterestStep, SubscribeInterest,
                    UnsubscribeInterest, Ledger, GlobalsKept
<1> QED BY <1>1, <1>2, <1>3, <1>4, <1>5 DEF LocationNext

LEMMA TransferNextGlobals ==
  ASSUME Good(ledger), TransferNext  PROVE GlobalsKept
<1>0. ledger \in Ledger  BY GoodParts
<1>1. ASSUME NEW id, NEW player, NEW destination, BeginTransferStep(id, player, destination)
      PROVE  GlobalsKept
  BY <1>0, <1>1 DEF BeginTransferStep, BeginTransfer, Ledger, GlobalsKept
<1>2. ASSUME NEW id, NEW worker, NEW generation,
             \/ DestinationRestoredStep(id, worker, generation)
             \/ RecoverCommittedDestinationStep(id, worker, generation)
      PROVE  GlobalsKept
  BY <1>0, <1>2 DEF DestinationRestoredStep, DestinationRestored, Ledger, GlobalsKept,
                    RecoverCommittedDestinationStep, RecoverCommittedDestination
<1>3. ASSUME NEW id, NEW generation, FenceSourceStep(id, generation)
      PROVE  GlobalsKept
  BY <1>0, <1>3 DEF FenceSourceStep, FenceSource, Ledger, GlobalsKept
<1>4. ASSUME NEW id, NEW generation, AbortTransferStep(id, generation)
      PROVE  GlobalsKept
  <2>1. CASE NeedsRecovery(ledger, id)
    BY <1>0, <1>4, <2>1
    DEF AbortTransferStep, AbortTransfer, ActivateAvatar, Ledger, GlobalsKept
  <2>2. CASE ~NeedsRecovery(ledger, id)
    BY <1>0, <1>4, <2>2 DEF AbortTransferStep, AbortTransfer, Ledger, GlobalsKept
  <2> QED BY <2>1, <2>2
<1>5. ASSUME NEW id, CommitTransferStep(id) \/ FinishTransferStep(id)
      PROVE  GlobalsKept
  BY <1>0, <1>5 DEF CommitTransferStep, CommitTransfer, FinishTransferStep, FinishTransfer,
                    ActivateAvatar, Ledger, GlobalsKept
<1> QED BY <1>1, <1>2, <1>3, <1>4, <1>5 DEF TransferNext

LEMMA GlobalNextGlobals ==
  ASSUME Good(ledger), GlobalNext
  PROVE  \/ GlobalsKept
         \/ \E system, owner :
              /\ system \notin DOMAIN ledger.globals
              /\ GlobalPut(system, owner)
         \/ \E system \in System, previous, owner \in GlobalLease :
              RebindGlobalStep(system, previous, owner) /\ GlobalPut(system, owner)
<1>0. ledger \in Ledger  BY GoodParts
<1>1. ASSUME NEW system, NEW owner, SetGlobalOwnerStep(system, owner)
      PROVE  system \notin DOMAIN ledger.globals /\ GlobalPut(system, owner)
  BY <1>0, <1>1 DEF SetGlobalOwnerStep, CanSetGlobalOwner, SetGlobalOwner, Ledger, GlobalPut
<1>2. ASSUME NEW system, NEW previous, NEW owner, RebindGlobalStep(system, previous, owner)
      PROVE  GlobalPut(system, owner)
  BY <1>0, <1>2 DEF RebindGlobalStep, RebindGlobal, Ledger, GlobalPut
<1>3. ASSUME NEW system, NEW worker, NEW generation, NEW event,
             ClaimGlobalEventStep(system, worker, generation, event)
      PROVE  GlobalsKept
  BY <1>0, <1>3 DEF ClaimGlobalEventStep, ClaimGlobalEvent, Ledger, GlobalsKept
<1> QED BY <1>1, <1>2, <1>3 DEF GlobalNext

\* The rotation moves a global lease exactly when its producer is live, and the
\* producer's location moves with it.
LEMMA RotationFacts ==
  ASSUME Good(ledger), NEW previous, NEW next, RotateCheckpointStep(previous, next),
         NEW s \in DOMAIN ledger.globals, ledger'.globals[s] # ledger.globals[s]
  PROVE  /\ ledger'.globals[s] = [worker |-> ledger.globals[s].worker,
                                  generation |-> ledger.globals[s].generation + 1]
         /\ WorkerActive(ledger', ledger.globals[s].worker,
                                  ledger.globals[s].generation + 1)
<1> DEFINE owner == ledger.globals[s]
<1>0. ledger \in Ledger /\ owner \in GlobalLease  BY GoodParts, GlobalLeaseType
<1>1. /\ ledger'.globals = RotatedGlobals(ledger)
      /\ ledger'.locations = RotatedLocations(ledger, next)
  BY <1>0 DEF RotateCheckpointStep, RotateCheckpoint, Ledger
<1>2. /\ WorkerActive(ledger, owner.worker, owner.generation)
      /\ ledger'.globals[s] = [owner EXCEPT !.generation = @ + 1]
  BY <1>1 DEF RotatedGlobals
<1>3. ledger'.globals[s] = [worker |-> owner.worker, generation |-> owner.generation + 1]
  BY <1>0, <1>2 DEF GlobalLease
<1>4. PICK l \in DOMAIN ledger.locations :
        /\ ledger.locations[l].active
        /\ ledger.locations[l].worker = owner.worker
        /\ ledger.locations[l].generation = owner.generation
  BY <1>2 DEF WorkerActive
<1>5. ledger.locations[l] \in LocationLease  BY <1>0, LedgerValues
<1>6. /\ l \in DOMAIN ledger'.locations
      /\ ledger'.locations[l].active
      /\ ledger'.locations[l].worker = owner.worker
      /\ ledger'.locations[l].generation = owner.generation + 1
  BY <1>1, <1>4, <1>5 DEF RotatedLocations, Bumped, LocationLease
<1> QED BY <1>3, <1>6 DEF WorkerActive

\* The three ways a step can leave the lease of one system.
LEMMA GlobalCases ==
  ASSUME Good(ledger), Next, NEW s \in DOMAIN ledger.globals
  PROVE  /\ s \in DOMAIN ledger'.globals
         /\ \/ ledger'.globals[s] = ledger.globals[s]
            \/ \E previous, next \in Revision : RotateCheckpointStep(previous, next)
            \/ \E previous, owner \in GlobalLease :
                 /\ RebindGlobalStep(s, previous, owner)
                 /\ ledger'.globals[s] = owner
<1>1. CASE GlobalsKept
  BY <1>1 DEF GlobalsKept
<1>2. CASE \E previous, next \in Revision : RotateCheckpointStep(previous, next)
  <2>1. PICK previous \in Revision, next \in Revision : RotateCheckpointStep(previous, next)
    BY <1>2
  <2>2. ledger'.globals = RotatedGlobals(ledger)
    BY <2>1, GoodParts DEF RotateCheckpointStep, RotateCheckpoint, Ledger
  <2> QED BY <1>2, <2>2 DEF RotatedGlobals
<1>3. ASSUME NEW system, NEW owner, system \notin DOMAIN ledger.globals,
             GlobalPut(system, owner)
      PROVE  s \in DOMAIN ledger'.globals /\ ledger'.globals[s] = ledger.globals[s]
  BY <1>3 DEF GlobalPut, Put
<1>4. ASSUME NEW system \in System, NEW previous \in GlobalLease, NEW owner \in GlobalLease,
             RebindGlobalStep(system, previous, owner), GlobalPut(system, owner)
      PROVE  /\ s \in DOMAIN ledger'.globals
             /\ s # system => ledger'.globals[s] = ledger.globals[s]
             /\ s = system => ledger'.globals[s] = owner
  BY <1>4 DEF GlobalPut, Put
<1>5. \/ GlobalsKept
      \/ \E previous, next \in Revision : RotateCheckpointStep(previous, next)
      \/ \E system, owner :
           system \notin DOMAIN ledger.globals /\ GlobalPut(system, owner)
      \/ \E system \in System, previous, owner \in GlobalLease :
           RebindGlobalStep(system, previous, owner) /\ GlobalPut(system, owner)
  BY LocationNextGlobals, TransferNextGlobals, GlobalNextGlobals DEF Next
<1> QED BY <1>1, <1>2, <1>3, <1>4, <1>5

\* What a location keeps of its lease until it is given a higher one: whoever
\* has it now had it before.
LeaseAdvances(before, after) ==
  \/ after.generation > before.generation
  \/ /\ after.active => before.active
     /\ after.worker = before.worker
     /\ after.generation = before.generation

LocationsKept == ledger'.locations = ledger.locations

LEMMA TransferNextLocations ==
  ASSUME Good(ledger), TransferNext  PROVE LocationsKept
<1>0. ledger \in Ledger  BY GoodParts
<1>1. ASSUME NEW id, NEW player, NEW destination, BeginTransferStep(id, player, destination)
      PROVE  LocationsKept
  BY <1>0, <1>1 DEF BeginTransferStep, BeginTransfer, Ledger, LocationsKept
<1>2. ASSUME NEW id, NEW worker, NEW generation,
             \/ DestinationRestoredStep(id, worker, generation)
             \/ RecoverCommittedDestinationStep(id, worker, generation)
      PROVE  LocationsKept
  BY <1>0, <1>2 DEF DestinationRestoredStep, DestinationRestored, Ledger, LocationsKept,
                    RecoverCommittedDestinationStep, RecoverCommittedDestination
<1>3. ASSUME NEW id, NEW generation, FenceSourceStep(id, generation)
      PROVE  LocationsKept
  BY <1>0, <1>3 DEF FenceSourceStep, FenceSource, Ledger, LocationsKept
<1>4. ASSUME NEW id, NEW generation, AbortTransferStep(id, generation)
      PROVE  LocationsKept
  <2>1. CASE NeedsRecovery(ledger, id)
    BY <1>0, <1>4, <2>1
    DEF AbortTransferStep, AbortTransfer, ActivateAvatar, Ledger, LocationsKept
  <2>2. CASE ~NeedsRecovery(ledger, id)
    BY <1>0, <1>4, <2>2 DEF AbortTransferStep, AbortTransfer, Ledger, LocationsKept
  <2> QED BY <2>1, <2>2
<1>5. ASSUME NEW id, CommitTransferStep(id) \/ FinishTransferStep(id)
      PROVE  LocationsKept
  BY <1>0, <1>5 DEF CommitTransferStep, CommitTransfer, FinishTransferStep, FinishTransfer,
                    ActivateAvatar, Ledger, LocationsKept
<1> QED BY <1>1, <1>2, <1>3, <1>4, <1>5 DEF TransferNext

LEMMA GlobalNextLocations ==
  ASSUME Good(ledger), GlobalNext  PROVE LocationsKept
<1>0. ledger \in Ledger  BY GoodParts
<1> QED BY <1>0 DEF GlobalNext, SetGlobalOwnerStep, SetGlobalOwner, RebindGlobalStep,
              RebindGlobal, ClaimGlobalEventStep, ClaimGlobalEvent, Ledger, LocationsKept

LEMMA LocationAdvances ==
  ASSUME Good(ledger), Next, NEW l \in DOMAIN ledger.locations
  PROVE  /\ l \in DOMAIN ledger'.locations
         /\ LeaseAdvances(ledger.locations[l], ledger'.locations[l])
<1> DEFINE Goal == /\ l \in DOMAIN ledger'.locations
                   /\ LeaseAdvances(ledger.locations[l], ledger'.locations[l])
<1>0. ledger \in Ledger  BY GoodParts
<1>1. ledger.locations[l] \in LocationLease /\ ledger.locations[l].generation \in Nat
  <2>1. ledger.locations[l] \in LocationLease  BY <1>0, LedgerValues
  <2> QED BY <2>1 DEF LocationLease, Generation
<1>2. CASE LocationsKept
  BY <1>2 DEF LocationsKept, LeaseAdvances
<1>3. ASSUME NEW id, NEW lease, ledger'.locations = Put(ledger.locations, id, lease),
             id \in DOMAIN ledger.locations => LeaseAdvances(ledger.locations[id], lease)
      PROVE  Goal
  <2>1. /\ DOMAIN ledger'.locations = DOMAIN ledger.locations \cup {id}
        /\ ledger'.locations[id] = lease
        /\ l # id => ledger'.locations[l] = ledger.locations[l]
    BY <1>3 DEF Put
  <2>2. CASE l = id
    BY <1>3, <2>1, <2>2
  <2>3. CASE l # id
    BY <2>1, <2>3 DEF LeaseAdvances
  <2> QED BY <2>2, <2>3
<1> HIDE DEF Goal
<1>4. ASSUME NEW id \in Location, NEW lease \in LocationLease, AddLocationStep(id, lease)
      PROVE  Goal
  <2>1. ledger'.locations = Put(ledger.locations, id, lease)
    BY <1>0, <1>4 DEF AddLocationStep, AddLocation, Ledger
  <2>2. id \notin DOMAIN ledger.locations
    BY <1>4 DEF AddLocationStep, CanAddLocation
  <2> QED BY <1>3, <2>1, <2>2
<1>5. ASSUME NEW id \in Location, NEW worker, NEW generation,
             WorkerLostStep(id, worker, generation)
      PROVE  Goal
  <2> DEFINE lost == [ledger.locations[id] EXCEPT !.active = FALSE]
  <2>1. ledger'.locations = Put(ledger.locations, id, lost)
    BY <1>0, <1>5 DEF WorkerLostStep, WorkerLost, Ledger
  <2>2. id \in DOMAIN ledger.locations /\ ledger.locations[id] \in LocationLease
    BY <1>0, <1>5, LedgerValues DEF WorkerLostStep, CanLoseWorker
  <2>3. /\ ~lost.active
        /\ lost.worker = ledger.locations[id].worker
        /\ lost.generation = ledger.locations[id].generation
    BY <2>2 DEF LocationLease
  <2>4. LeaseAdvances(ledger.locations[id], lost)
    BY <2>3 DEF LeaseAdvances
  <2> QED BY <1>3, <2>1, <2>4
<1>6. ASSUME NEW id \in Location, NEW worker, NEW generation, NEW checkpoint,
             ReplaceWorkerStep(id, worker, generation, checkpoint)
      PROVE  Goal
  <2> DEFINE lease == [worker |-> worker, generation |-> generation,
                       checkpoint |-> checkpoint,
                       content |-> ledger.locations[id].content, active |-> TRUE]
  <2>1. ledger'.locations = Put(ledger.locations, id, lease)
    BY <1>0, <1>6 DEF ReplaceWorkerStep, ReplaceWorker, DropPreparedFrom, Ledger
  <2>2. generation > ledger.locations[id].generation
    BY <1>6 DEF ReplaceWorkerStep, CanReplaceWorker
  <2>3. LeaseAdvances(ledger.locations[id], lease)
    BY <2>2 DEF LeaseAdvances
  <2> QED BY <1>3, <2>1, <2>3
<1>7. ASSUME NEW previous, NEW next, RotateCheckpointStep(previous, next)
      PROVE  Goal
  <2>1. ledger'.locations = RotatedLocations(ledger, next)
    BY <1>0, <1>7 DEF RotateCheckpointStep, RotateCheckpoint, Ledger
  <2>2. CASE ledger.locations[l].active
    BY <1>1, <2>1, <2>2
    DEF RotatedLocations, Bumped, LocationLease, LeaseAdvances, Goal
  <2>3. CASE ~ledger.locations[l].active
    BY <1>1, <2>1, <2>3
    DEF RotatedLocations, Bumped, LocationLease, LeaseAdvances, Goal
  <2> QED BY <2>2, <2>3
<1>8. ASSUME \/ \E player \in Player, id \in Location : PlaceAvatarStep(player, id)
             \/ \E player \in Player :
                  SubscribeInterestStep(player) \/ UnsubscribeInterestStep(player)
      PROVE  LocationsKept
  BY <1>0, <1>8 DEF PlaceAvatarStep, PlaceAvatar, ActivateAvatar, SubscribeInterestStep,
                    SubscribeInterest, UnsubscribeInterestStep, UnsubscribeInterest,
                    Ledger, LocationsKept
<1>9. CASE LocationNext
  BY <1>2, <1>4, <1>5, <1>6, <1>7, <1>8, <1>9 DEF LocationNext, Goal
<1> QED BY <1>2, <1>9, TransferNextLocations, GlobalNextLocations DEF Next, Goal

\* A global lease changes only to a higher generation, is never dropped, and
\* leaves a producer whose lease is current only by the rotation, for the same
\* worker's next one; a lost one is current again only at a location that was
\* below its generation.
THEOREM GlobalsAlwaysStayOwned == Spec => GlobalsStayOwned
<1>1. ASSUME Good(ledger), [Next]_ledger  PROVE [GlobalsOnlyAdvance]_ledger
  <2> SUFFICES ASSUME Next, NEW s \in DOMAIN ledger.globals
               PROVE  /\ s \in DOMAIN ledger'.globals
                      /\ ledger'.globals[s] # ledger.globals[s] =>
                           ledger'.globals[s].generation > ledger.globals[s].generation
    BY <1>1 DEF GlobalsOnlyAdvance
  <2>1. ledger.globals[s].generation \in Nat
    BY <1>1, GlobalLeaseType
  <2>2. ASSUME ledger'.globals[s] # ledger.globals[s], NEW previous \in Revision,
               NEW next \in Revision, RotateCheckpointStep(previous, next)
        PROVE  ledger'.globals[s].generation > ledger.globals[s].generation
    <3>1. ledger'.globals[s] = [worker |-> ledger.globals[s].worker,
                                generation |-> ledger.globals[s].generation + 1]
      BY <1>1, <2>2, RotationFacts
    <3>2. ledger'.globals[s].generation = ledger.globals[s].generation + 1
      BY <3>1
    <3> QED BY <2>1, <3>2
  <2>3. ASSUME NEW previous \in GlobalLease, NEW owner \in GlobalLease,
               RebindGlobalStep(s, previous, owner), ledger'.globals[s] = owner
        PROVE  ledger'.globals[s].generation > ledger.globals[s].generation
    BY <2>3 DEF RebindGlobalStep, CanRebindGlobal
  <2> QED BY <1>1, <2>2, <2>3, GlobalCases
<1>2. ASSUME Good(ledger), [Next]_ledger  PROVE [LiveProducersStay]_ledger
  <2> SUFFICES ASSUME Next, NEW s \in DOMAIN ledger.globals,
                      AcceptsGlobalOutcome(ledger, s, ledger.globals[s].worker,
                                                      ledger.globals[s].generation),
                      ledger'.globals[s] # ledger.globals[s]
               PROVE  AcceptsGlobalOutcome(ledger', s, ledger.globals[s].worker,
                                           ledger.globals[s].generation + 1)
    BY <1>2 DEF LiveProducersStay, Heard
  <2>1. ASSUME NEW previous \in GlobalLease, NEW owner \in GlobalLease,
               RebindGlobalStep(s, previous, owner)
        PROVE  FALSE
    BY <2>1 DEF RebindGlobalStep, CanRebindGlobal
  <2>2. PICK previous \in Revision, next \in Revision : RotateCheckpointStep(previous, next)
    BY <1>2, <2>1, GlobalCases
  <2>3. s \in DOMAIN ledger'.globals
    BY <1>2, GlobalCases
  <2> QED BY <1>2, <2>2, <2>3, RotationFacts DEF AcceptsGlobalOutcome
<1>3. ASSUME Good(ledger), [Next]_ledger  PROVE [LostLeasesStayLost]_ledger
  <2> SUFFICES ASSUME Next, NEW s \in DOMAIN ledger.globals,
                      Heard(ledger', s, ledger.globals[s]),
                      ~Heard(ledger, s, ledger.globals[s])
               PROVE  \E l \in DOMAIN ledger'.locations :
                        /\ ledger'.locations[l].active
                        /\ ledger'.locations[l].worker = ledger.globals[s].worker
                        /\ ledger'.locations[l].generation = ledger.globals[s].generation
                        /\ l \in DOMAIN ledger.locations =>
                             ledger.locations[l].generation < ledger.globals[s].generation
    BY <1>3 DEF LostLeasesStayLost
  <2> DEFINE lease == ledger.globals[s]
  <2>1. PICK l \in DOMAIN ledger'.locations :
               /\ ledger'.locations[l].active
               /\ ledger'.locations[l].worker = lease.worker
               /\ ledger'.locations[l].generation = lease.generation
    BY DEF Heard, AcceptsGlobalOutcome, WorkerActive
  <2>2. ASSUME l \in DOMAIN ledger.locations
        PROVE  ledger.locations[l].generation < lease.generation
    <3>1. LeaseAdvances(ledger.locations[l], ledger'.locations[l])
      BY <1>3, <2>2, LocationAdvances
    <3>2. CASE ledger'.locations[l].generation > ledger.locations[l].generation
      BY <2>1, <3>2
    <3>3. CASE /\ ledger'.locations[l].active => ledger.locations[l].active
               /\ ledger'.locations[l].worker = ledger.locations[l].worker
               /\ ledger'.locations[l].generation = ledger.locations[l].generation
      <4>1. WorkerActive(ledger, lease.worker, lease.generation)
        BY <2>1, <2>2, <3>3 DEF WorkerActive
      <4>2. lease = [worker |-> lease.worker, generation |-> lease.generation]
        BY <1>3, GlobalLeaseType
      <4>3. Heard(ledger, s, lease)
        BY <4>1, <4>2 DEF Heard, AcceptsGlobalOutcome
      <4> QED BY <4>3
    <3> QED BY <3>1, <3>2, <3>3 DEF LeaseAdvances
  <2> QED BY <2>1, <2>2
<1>4. ASSUME Good(ledger), [Next]_ledger
      PROVE  [GlobalsOnlyAdvance /\ LiveProducersStay /\ LostLeasesStayLost]_ledger
  <2>1. [GlobalsOnlyAdvance]_ledger  BY <1>1, <1>4
  <2>2. [LiveProducersStay]_ledger  BY <1>2, <1>4
  <2>3. [LostLeasesStayLost]_ledger  BY <1>3, <1>4
  <2> QED BY <2>1, <2>2, <2>3
<1> QED BY <1>4, LedgerAlwaysGood, PTL DEF Spec, GlobalsStayOwned

-----------------------------------------------------------------------------
(* The ledger implements AvatarAuthority.  The refinement mapping reads a  *)
(* player's epoch and grant off one ledger (IssuedOf, GrantOf); each       *)
(* operation keeps, revokes or reissues the grant of every player          *)
(* (AuthorityStep).  Good supplies what the mapping needs: an active avatar *)
(* is at an active location.                                               *)

IssuedOf(L, p) == IF p \in DOMAIN L.avatars THEN L.avatars[p].generation ELSE 0

GrantOf(L, p) ==
  IF p \in DOMAIN L.avatars /\ L.avatars[p].active
     /\ L.locations[L.avatars[p].location].active
  THEN InterestAt(L, L.avatars[p].location, L.avatars[p].generation)
  ELSE NoGrant

AuthorityStep(L, M, p) ==
  \/ IssuedOf(M, p) = IssuedOf(L, p) /\ GrantOf(M, p) = GrantOf(L, p)
  \/ IssuedOf(M, p) >= IssuedOf(L, p) /\ GrantOf(M, p) = NoGrant
  \/ /\ IssuedOf(M, p) > IssuedOf(L, p)
     /\ GrantOf(M, p) \in InterestLease
     /\ GrantOf(M, p).avatar_generation = IssuedOf(M, p)

\* What a good ledger grants an active avatar, and the types of both values.
LEMMA GrantFacts ==
  ASSUME NEW L, Good(L), NEW p \in Player
  PROVE  /\ IssuedOf(L, p) \in 0..MaxGeneration
         /\ GrantOf(L, p) \in InterestLease \cup {NoGrant}
         /\ p \in DOMAIN L.avatars /\ L.avatars[p].active =>
              /\ GrantOf(L, p) \in InterestLease
              /\ GrantOf(L, p).avatar_generation = IssuedOf(L, p)
<1>0. L \in Ledger  BY GoodParts
<1>1. CASE p \notin DOMAIN L.avatars
  BY <1>1, LedgerAssumption DEF IssuedOf, GrantOf
<1>2. CASE p \in DOMAIN L.avatars
  <2>1. L.avatars[p] \in AvatarLease /\ AvatarValid(L, p)
    BY <1>0, <1>2, GoodParts, LedgerValues DEF AvatarsValid
  <2>2. L.locations[L.avatars[p].location] \in LocationLease
    BY <1>0, <2>1, LedgerValues DEF AvatarValid
  <2>3. InterestAt(L, L.avatars[p].location, L.avatars[p].generation) \in InterestLease
    BY <2>1, <2>2 DEF InterestAt, InterestLease, AvatarLease, LocationLease
  <2>4. InterestAt(L, L.avatars[p].location, L.avatars[p].generation).avatar_generation
          = L.avatars[p].generation
    BY DEF InterestAt
  <2>5. L.avatars[p].generation \in 0..MaxGeneration
    BY <2>1, LedgerAssumption DEF AvatarLease, Generation
  <2>6. L.avatars[p].active => L.locations[L.avatars[p].location].active
    BY <2>1 DEF AvatarValid
  <2> QED BY <1>2, <2>3, <2>4, <2>5, <2>6 DEF IssuedOf, GrantOf
<1> QED BY <1>1, <1>2

LEMMA StepKept ==
  ASSUME NEW L, NEW M, NEW p,
         p \in DOMAIN M.avatars <=> p \in DOMAIN L.avatars,
         p \in DOMAIN L.avatars =>
           /\ M.avatars[p] = L.avatars[p]
           /\ M.locations[L.avatars[p].location] = L.locations[L.avatars[p].location]
  PROVE  AuthorityStep(L, M, p)
BY DEF AuthorityStep, IssuedOf, GrantOf, InterestAt

LEMMA StepRevoked ==
  ASSUME NEW L, NEW M, NEW p, p \in DOMAIN L.avatars, p \in DOMAIN M.avatars,
         ~M.avatars[p].active, M.avatars[p].generation >= L.avatars[p].generation
  PROVE  AuthorityStep(L, M, p)
BY DEF AuthorityStep, IssuedOf, GrantOf

LEMMA StepIssued ==
  ASSUME NEW L, NEW M, Good(M), NEW p \in Player, p \in DOMAIN M.avatars,
         M.avatars[p].active, M.avatars[p].generation > IssuedOf(L, p)
  PROVE  AuthorityStep(L, M, p)
<1>1. IssuedOf(M, p) = M.avatars[p].generation
  BY DEF IssuedOf
<1> QED BY <1>1, GrantFacts DEF AuthorityStep

\* A step that leaves locations and avatars alone keeps every grant.
LEMMA SameLeases ==
  ASSUME NEW L, NEW M, M.locations = L.locations, M.avatars = L.avatars, NEW p
  PROVE  AuthorityStep(L, M, p)
BY StepKept

\* Of the avatar of a player.
LEMMA AvatarFacts ==
  ASSUME NEW L, Good(L), NEW p \in DOMAIN L.avatars
  PROVE  /\ L.avatars[p] \in AvatarLease /\ L.avatars[p].generation \in Nat
         /\ L.avatars[p].location \in DOMAIN L.locations
         /\ L.avatars[p].active => L.locations[L.avatars[p].location].active
<1>1. L.avatars[p] \in AvatarLease /\ AvatarValid(L, p)
  BY GoodParts, LedgerValues DEF AvatarsValid
<1> QED BY <1>1 DEF AvatarValid, AvatarLease, Generation

-----------------------------------------------------------------------------
(* The operations that touch a lease *)

LEMMA AddLocationAuthority ==
  ASSUME NEW L, Good(L), NEW p \in Player, NEW id, NEW lease,
         CanAddLocation(L, id, lease)
  PROVE  AuthorityStep(L, AddLocation(L, id, lease), p)
<1> DEFINE M == AddLocation(L, id, lease)
<1>1. M.locations = Put(L.locations, id, lease) /\ M.avatars = L.avatars
  BY GoodParts DEF AddLocation, Ledger
<1> HIDE DEF M
<1>2. \A l \in DOMAIN L.locations : M.locations[l] = L.locations[l]
  BY <1>1 DEF Put, CanAddLocation
<1>3. AuthorityStep(L, M, p)
  BY <1>1, <1>2, AvatarFacts, StepKept
<1> QED BY <1>3 DEF M

\* One avatar becomes active under a new generation.
LEMMA ActivationAuthority ==
  ASSUME NEW L, Good(L), NEW M, Good(M), NEW p \in Player, NEW player \in Player,
         NEW location \in DOMAIN L.locations, NEW g \in Generation,
         NEW A, A = ActivateAvatar(L, player, location, g),
         M.locations = A.locations, M.avatars = A.avatars, g > IssuedOf(L, player)
  PROVE  AuthorityStep(L, M, p)
<1>1. /\ A.locations = L.locations
      /\ DOMAIN A.avatars = DOMAIN L.avatars \cup {player}
      /\ \A q \in DOMAIN A.avatars : q # player => A.avatars[q] = L.avatars[q]
      /\ A.avatars[player].generation = g
      /\ A.avatars[player].active
  BY GoodParts, ActivateAvatarFacts
<1>2. CASE p = player
  BY <1>1, <1>2, StepIssued
<1>3. CASE p # player
  BY <1>1, <1>3, StepKept
<1> QED BY <1>2, <1>3

LEMMA PlaceAvatarAuthority ==
  ASSUME NEW L, Good(L), NEW p \in Player, NEW player \in Player, NEW id \in Location,
         CanPlaceAvatar(L, player, id)
  PROVE  AuthorityStep(L, PlaceAvatar(L, player, id), p)
<1>1. /\ id \in DOMAIN L.locations /\ 1 \in Generation
      /\ IssuedOf(L, player) = 0
  BY LedgerAssumption DEF CanPlaceAvatar, Generation, IssuedOf
<1>2. Good(PlaceAvatar(L, player, id))
  BY PlaceAvatarGood
<1>3. PlaceAvatar(L, player, id) = ActivateAvatar(L, player, id, 1)
  BY DEF PlaceAvatar
<1> QED BY <1>1, <1>2, <1>3, ActivationAuthority

LEMMA FenceSourceAuthority ==
  ASSUME NEW L, Good(L), NEW p \in Player, NEW id \in TransferId, NEW g,
         CanFenceSource(L, id, g),
         NEW M, M = FenceSource(L, id)
  PROVE  AuthorityStep(L, M, p)
<1> DEFINE player == L.transfers[id].player
           avatar == L.avatars[player]
           fenced == [generation |-> avatar.generation + 1,
                      location |-> avatar.location, active |-> FALSE]
<1>0. id \in DOMAIN L.transfers
  BY DEF CanFenceSource, InPhase
<1>1. player \in DOMAIN L.avatars /\ avatar.generation \in Nat
  BY <1>0, TransferFacts
<1>2. M.locations = L.locations /\ M.avatars = Put(L.avatars, player, fenced)
  BY GoodParts DEF FenceSource, Ledger
<1>3. ~fenced.active /\ fenced.generation = avatar.generation + 1
  OBVIOUS
<1> HIDE DEF fenced
<1>4. /\ DOMAIN M.avatars = DOMAIN L.avatars
      /\ M.avatars[player] = fenced
      /\ \A q \in DOMAIN L.avatars : q # player => M.avatars[q] = L.avatars[q]
  BY <1>1, <1>2 DEF Put
<1>5. CASE p = player
  BY <1>1, <1>3, <1>4, <1>5, StepRevoked
<1>6. CASE p # player
  BY <1>2, <1>4, <1>6, StepKept
<1> QED BY <1>5, <1>6

LEMMA CommitTransferAuthority ==
  ASSUME NEW L, Good(L), NEW p \in Player, NEW id \in TransferId, CanCommitTransfer(L, id)
  PROVE  AuthorityStep(L, CommitTransfer(L, id), p)
<1> DEFINE M == CommitTransfer(L, id)
           player == L.transfers[id].player
           destination == L.transfers[id].destination
           g == L.avatars[player].generation + 1
           A == ActivateAvatar(L, player, destination, g)
<1>0. id \in DOMAIN L.transfers
  BY DEF CanCommitTransfer, InPhase
<1>1. /\ player \in DOMAIN L.avatars /\ destination \in DOMAIN L.locations
      /\ player \in Player
  BY <1>0, TransferFacts, GoodParts, LedgerValues
<1>2. L.avatars[player] \in AvatarLease /\ L.avatars[player].generation \in Nat
  BY <1>1, AvatarFacts
<1>3. g \in Generation /\ g > IssuedOf(L, player)
  <2>1. L.avatars[player].generation \in Generation
    BY <1>2 DEF AvatarLease
  <2>2. L.avatars[player].generation # MaxGeneration
    BY DEF CanCommitTransfer
  <2>3. IssuedOf(L, player) = L.avatars[player].generation
    BY <1>1 DEF IssuedOf
  <2> QED BY <2>1, <2>2, <2>3, LedgerAssumption DEF Generation
<1>4. M.locations = A.locations /\ M.avatars = A.avatars
  BY GoodParts DEF CommitTransfer, ActivateAvatar, Ledger
<1>5. Good(M)
  BY CommitTransferGood
<1> HIDE DEF M, A, g
<1>6. A = ActivateAvatar(L, player, destination, g)  BY DEF A
<1> HIDE DEF player, destination
<1>7. AuthorityStep(L, M, p)
  BY <1>1, <1>3, <1>4, <1>5, <1>6, ActivationAuthority
<1> QED BY <1>7 DEF M

LEMMA AbortTransferAuthority ==
  ASSUME NEW L, Good(L), NEW p \in Player, NEW id \in TransferId,
         NEW g \in 0..MaxGeneration, CanAbortTransfer(L, id, g)
  PROVE  AuthorityStep(L, AbortTransfer(L, id, g), p)
<1> DEFINE M == AbortTransfer(L, id, g)
           player == L.transfers[id].player
           source == L.transfers[id].source
           A == ActivateAvatar(L, player, source, g)
<1>0. id \in DOMAIN L.transfers
  BY DEF CanAbortTransfer, InPhase
<1>1. player \in DOMAIN L.avatars /\ player \in Player /\ L.avatars[player].generation \in Nat
  BY <1>0, TransferFacts, GoodParts, LedgerValues
<1>2. Good(M)
  BY AbortTransferGood
<1>3. CASE ~NeedsRecovery(L, id)
  <2>1. M.locations = L.locations /\ M.avatars = L.avatars
    BY <1>3, GoodParts DEF AbortTransfer, Ledger
  <2> HIDE DEF M
  <2>2. AuthorityStep(L, M, p)  BY <2>1, SameLeases
  <2> QED BY <2>2 DEF M
<1>4. CASE NeedsRecovery(L, id)
  <2>1. source \in DOMAIN L.locations /\ g > L.avatars[player].generation
    BY <1>4 DEF CanAbortTransfer
  <2>2. g \in Generation /\ g > IssuedOf(L, player)
    BY <1>1, <2>1, LedgerAssumption DEF Generation, IssuedOf
  <2>3. M = [A EXCEPT !.transfers = Without(A.transfers, {id})]
    BY <1>4 DEF AbortTransfer
  <2>4. A \in Ledger
    BY <1>1, <2>1, <2>2, GoodParts, ActivateAvatarFacts
  <2> HIDE DEF M, A
  <2>5. M.locations = A.locations /\ M.avatars = A.avatars
    BY <2>3, <2>4 DEF Ledger
  <2>6. A = ActivateAvatar(L, player, source, g)  BY DEF A
  <2> HIDE DEF player, source
  <2>7. AuthorityStep(L, M, p)
    BY <1>1, <1>2, <2>1, <2>2, <2>5, <2>6, ActivationAuthority
  <2> QED BY <2>7 DEF M
<1> QED BY <1>3, <1>4

LEMMA WorkerLostAuthority ==
  ASSUME NEW L, Good(L), NEW p \in Player, NEW id \in DOMAIN L.locations,
         NEW M, M = WorkerLost(L, id)
  PROVE  AuthorityStep(L, M, p)
<1> DEFINE lost == [L.locations[id] EXCEPT !.active = FALSE]
           avatars == [q \in DOMAIN L.avatars |->
                         IF L.avatars[q].location = id
                         THEN [L.avatars[q] EXCEPT !.active = FALSE] ELSE L.avatars[q]]
<1>1. M.locations = Put(L.locations, id, lost) /\ M.avatars = avatars
  BY GoodParts DEF WorkerLost, Ledger
<1>2. ASSUME p \in DOMAIN L.avatars, L.avatars[p].location = id
      PROVE  ~avatars[p].active /\ avatars[p].generation = L.avatars[p].generation
  BY <1>2, AvatarFacts DEF AvatarLease
<1>3. ASSUME p \in DOMAIN L.avatars, L.avatars[p].location # id
      PROVE  avatars[p] = L.avatars[p]
  BY <1>3
<1>4. DOMAIN avatars = DOMAIN L.avatars
  OBVIOUS
<1> HIDE DEF lost, avatars
<1>5. \A l \in DOMAIN L.locations : l # id => M.locations[l] = L.locations[l]
  BY <1>1 DEF Put
<1>6. CASE p \in DOMAIN L.avatars /\ L.avatars[p].location = id
  BY <1>1, <1>2, <1>4, <1>6, AvatarFacts, StepRevoked
<1>7. CASE ~(p \in DOMAIN L.avatars /\ L.avatars[p].location = id)
  BY <1>1, <1>3, <1>4, <1>5, <1>7, AvatarFacts, StepKept
<1> QED BY <1>6, <1>7

LEMMA ReplaceWorkerAuthority ==
  ASSUME NEW L, Good(L), NEW p \in Player, NEW id \in Location, NEW worker \in Worker,
         NEW generation \in Generation, NEW checkpoint \in Revision,
         CanReplaceWorker(L, id, worker, generation, checkpoint),
         NEW M, M = ReplaceWorker(L, id, worker, generation, checkpoint)
  PROVE  AuthorityStep(L, M, p)
<1> DEFINE resumed == {q \in AvatarsAt(L, id) :
                         ~TransferUncommitted(DropPreparedFrom(L, id), q)}
           lease == [worker |-> worker, generation |-> generation,
                     checkpoint |-> checkpoint, content |-> L.locations[id].content,
                     active |-> TRUE]
           resume(q) == [L.avatars[q] EXCEPT !.generation = L.avatars[q].generation + 1,
                                             !.active = TRUE]
           avatars == [q \in DOMAIN L.avatars |->
                         IF q \in resumed THEN resume(q) ELSE L.avatars[q]]
<1>0. id \in DOMAIN L.locations /\ ~L.locations[id].active
  BY DEF CanReplaceWorker
<1>1. M.locations = Put(L.locations, id, lease) /\ M.avatars = avatars
  BY GoodParts DEF ReplaceWorker, DropPreparedFrom, Ledger
<1>2. Good(M)
  BY ReplaceWorkerGood
<1>3. ASSUME p \in resumed
      PROVE  /\ p \in DOMAIN L.avatars /\ avatars[p].active
             /\ avatars[p].generation > IssuedOf(L, p)
  <2>1. p \in DOMAIN L.avatars  BY <1>3 DEF AvatarsAt
  <2>2. L.avatars[p] \in AvatarLease /\ L.avatars[p].generation \in Nat
    BY <2>1, AvatarFacts
  <2>3. avatars[p] = resume(p)
    <3> HIDE DEF resumed, resume
    <3> QED BY <1>3, <2>1
  <2>4. resume(p).active /\ resume(p).generation = L.avatars[p].generation + 1
    BY <2>2 DEF AvatarLease
  <2> HIDE DEF avatars, resume
  <2> QED BY <2>1, <2>2, <2>3, <2>4 DEF IssuedOf
<1>4. ASSUME p \notin resumed, p \in DOMAIN L.avatars  PROVE avatars[p] = L.avatars[p]
  BY <1>4
<1>5. DOMAIN avatars = DOMAIN L.avatars
  OBVIOUS
<1> HIDE DEF lease, avatars, resumed
<1>6. \A l \in DOMAIN L.locations : l # id => M.locations[l] = L.locations[l]
  BY <1>1 DEF Put
<1>7. CASE p \in resumed
  BY <1>1, <1>2, <1>3, <1>5, <1>7, StepIssued
<1>8. CASE p \notin resumed /\ p \in DOMAIN L.avatars /\ L.avatars[p].location = id
  <2>1. ~L.avatars[p].active /\ L.avatars[p].generation \in Nat
    BY <1>0, <1>8, AvatarFacts
  <2>2. M.avatars[p] = L.avatars[p] /\ p \in DOMAIN M.avatars
    BY <1>1, <1>4, <1>5, <1>8
  <2>3. AuthorityStep(L, M, p)
    BY <1>8, <2>1, <2>2, StepRevoked
  <2> QED BY <2>3
<1>9. CASE p \notin resumed /\ ~(p \in DOMAIN L.avatars /\ L.avatars[p].location = id)
  BY <1>1, <1>4, <1>5, <1>6, <1>9, AvatarFacts, StepKept
<1> QED BY <1>7, <1>8, <1>9

LEMMA RotateCheckpointAuthority ==
  ASSUME NEW L, Good(L), NEW p \in Player, NEW previous \in Revision, NEW next \in Revision,
         CanRotateCheckpoint(L, previous, next),
         NEW M, M = RotateCheckpoint(L, next)
  PROVE  AuthorityStep(L, M, p)
<1> DEFINE avatars == [q \in DOMAIN L.avatars |-> Bumped(L.avatars[q])]
<1>1. M.avatars = avatars
  BY GoodParts DEF RotateCheckpoint, Ledger
<1>2. Good(M)
  BY RotateCheckpointGood
<1>3. ASSUME p \in DOMAIN L.avatars, L.avatars[p].active
      PROVE  avatars[p].active /\ avatars[p].generation > IssuedOf(L, p)
  <2>1. L.avatars[p] \in AvatarLease /\ L.avatars[p].generation \in Nat
    BY <1>3, AvatarFacts
  <2>2. avatars[p] = [L.avatars[p] EXCEPT !.generation = L.avatars[p].generation + 1]
    BY <1>3 DEF Bumped
  <2>3. avatars[p].active /\ avatars[p].generation = L.avatars[p].generation + 1
    BY <1>3, <2>1, <2>2 DEF AvatarLease
  <2> QED BY <1>3, <2>1, <2>3 DEF IssuedOf
<1>4. ASSUME p \in DOMAIN L.avatars, ~L.avatars[p].active  PROVE avatars[p] = L.avatars[p]
  BY <1>4 DEF Bumped
<1>5. DOMAIN avatars = DOMAIN L.avatars
  OBVIOUS
<1> HIDE DEF avatars
<1>6. CASE p \in DOMAIN L.avatars /\ L.avatars[p].active
  BY <1>1, <1>2, <1>3, <1>5, <1>6, StepIssued
<1>7. CASE p \in DOMAIN L.avatars /\ ~L.avatars[p].active
  <2>1. M.avatars[p] = L.avatars[p] /\ p \in DOMAIN M.avatars /\ L.avatars[p].generation \in Nat
    BY <1>1, <1>4, <1>5, <1>7, AvatarFacts
  <2>2. AuthorityStep(L, M, p)  BY <1>7, <2>1, StepRevoked
  <2> QED BY <2>2
<1>8. CASE p \notin DOMAIN L.avatars
  BY <1>1, <1>5, <1>8, StepKept
<1> QED BY <1>6, <1>7, <1>8

\* Every call the ledger accepts keeps, revokes or reissues each player's grant.
LEMMA NextAuthority ==
  ASSUME Good(ledger), Next, NEW p \in Player
  PROVE  AuthorityStep(ledger, ledger', p)
<1>0. ledger \in Ledger  BY GoodParts
<1>1. CASE LocationNext
  <2>1. ASSUME NEW id \in Location, NEW lease \in LocationLease, AddLocationStep(id, lease)
        PROVE  AuthorityStep(ledger, ledger', p)
    BY <2>1, AddLocationAuthority DEF AddLocationStep
  <2>2. ASSUME NEW player \in Player, NEW id \in Location, PlaceAvatarStep(player, id)
        PROVE  AuthorityStep(ledger, ledger', p)
    BY <2>2, PlaceAvatarAuthority DEF PlaceAvatarStep
  <2>3. ASSUME NEW id \in Location, NEW worker, NEW generation,
               WorkerLostStep(id, worker, generation)
        PROVE  AuthorityStep(ledger, ledger', p)
    BY <2>3, WorkerLostAuthority DEF WorkerLostStep, CanLoseWorker
  <2>4. ASSUME NEW id \in Location, NEW worker \in Worker, NEW generation \in Generation,
               NEW checkpoint \in Revision,
               ReplaceWorkerStep(id, worker, generation, checkpoint)
        PROVE  AuthorityStep(ledger, ledger', p)
    BY <2>4, ReplaceWorkerAuthority DEF ReplaceWorkerStep
  <2>5. ASSUME NEW previous \in Revision, NEW next \in Revision,
               RotateCheckpointStep(previous, next)
        PROVE  AuthorityStep(ledger, ledger', p)
    BY <2>5, RotateCheckpointAuthority DEF RotateCheckpointStep
  <2>6. ASSUME NEW player \in Player,
               SubscribeInterestStep(player) \/ UnsubscribeInterestStep(player)
        PROVE  AuthorityStep(ledger, ledger', p)
    <3>1. ledger'.locations = ledger.locations /\ ledger'.avatars = ledger.avatars
      BY <1>0, <2>6 DEF SubscribeInterestStep, UnsubscribeInterestStep,
                        SubscribeInterest, UnsubscribeInterest, Ledger
    <3> QED BY <3>1, SameLeases
  <2> QED BY <1>1, <2>1, <2>2, <2>3, <2>4, <2>5, <2>6 DEF LocationNext
<1>2. CASE TransferNext
  <2>1. ASSUME NEW id, NEW player, NEW destination, NEW worker, NEW generation,
               \/ BeginTransferStep(id, player, destination)
               \/ DestinationRestoredStep(id, worker, generation)
               \/ RecoverCommittedDestinationStep(id, worker, generation)
               \/ FinishTransferStep(id)
        PROVE  AuthorityStep(ledger, ledger', p)
    <3>1. ledger'.locations = ledger.locations /\ ledger'.avatars = ledger.avatars
      BY <1>0, <2>1 DEF BeginTransferStep, BeginTransfer, DestinationRestoredStep,
           DestinationRestored, RecoverCommittedDestinationStep,
           RecoverCommittedDestination, FinishTransferStep, FinishTransfer, Ledger
    <3> QED BY <3>1, SameLeases
  <2>2. ASSUME NEW id \in TransferId, NEW generation, FenceSourceStep(id, generation)
        PROVE  AuthorityStep(ledger, ledger', p)
    BY <2>2, FenceSourceAuthority DEF FenceSourceStep
  <2>3. ASSUME NEW id \in TransferId, NEW g \in 0..MaxGeneration, AbortTransferStep(id, g)
        PROVE  AuthorityStep(ledger, ledger', p)
    BY <2>3, AbortTransferAuthority DEF AbortTransferStep
  <2>4. ASSUME NEW id \in TransferId, CommitTransferStep(id)
        PROVE  AuthorityStep(ledger, ledger', p)
    BY <2>4, CommitTransferAuthority DEF CommitTransferStep
  <2>5. 0 \in 0..MaxGeneration /\ \A g \in Generation : g \in 0..MaxGeneration
    BY LedgerAssumption DEF Generation
  <2> QED BY <1>2, <2>1, <2>2, <2>3, <2>4, <2>5 DEF TransferNext
<1>3. CASE GlobalNext
  <2>1. ledger'.locations = ledger.locations /\ ledger'.avatars = ledger.avatars
    BY <1>0, <1>3 DEF GlobalNext, SetGlobalOwnerStep, RebindGlobalStep,
         ClaimGlobalEventStep, SetGlobalOwner, RebindGlobal, ClaimGlobalEvent, Ledger
  <2> QED BY <2>1, SameLeases
<1> QED BY <1>1, <1>2, <1>3 DEF Next

\* The refinement mapping of LocationLedger, read off one ledger.
LEMMA Mapping ==
  /\ Issued = [p \in Player |-> IssuedOf(ledger, p)]
  /\ Granted = [p \in Player |-> GrantOf(ledger, p)]
  /\ Issued' = [p \in Player |-> IssuedOf(ledger', p)]
  /\ Granted' = [p \in Player |-> GrantOf(ledger', p)]
BY DEF Issued, Granted, IssuedOf, GrantOf, InterestAt, NoGrant

\* The ledger implements AvatarAuthority: at any moment one location's worker
\* may act for a player, and a revoked grant never comes back, for any number
\* of players, locations, workers and generations.
THEOREM LedgerImplementsAuthority == Spec => ImplementsAuthority
<1>1. Init => Authority!Init
  <2> SUFFICES ASSUME Init  PROVE Authority!Init
    OBVIOUS
  <2>1. DOMAIN ledger.avatars = {}  BY DEF Init, EmptyLedger, Empty
  <2> QED BY <2>1, Mapping DEF Authority!Init, IssuedOf, GrantOf
<1>2. Good(ledger) /\ [Next]_ledger => [Authority!Next]_(Authority!vars)
  <2> SUFFICES ASSUME Good(ledger), Next  PROVE Authority!Next
    <3>1. CASE UNCHANGED ledger
      BY <3>1, Mapping DEF Authority!vars
    <3> QED BY <3>1
  <2>1. Good(ledger')
    BY NextGood
  <2>2. Issued' \in [Player -> 0..MaxGeneration]
    BY <2>1, GrantFacts, Mapping
  <2>3. Granted' \in [Player -> InterestLease \cup {NoGrant}]
    BY <2>1, GrantFacts, Mapping
  <2>4. ASSUME NEW p \in Player
        PROVE  Authority!Keep(p) \/ Authority!Revoke(p) \/ Authority!Issue(p)
    <3>1. /\ Issued[p] = IssuedOf(ledger, p) /\ Granted[p] = GrantOf(ledger, p)
          /\ Issued'[p] = IssuedOf(ledger', p) /\ Granted'[p] = GrantOf(ledger', p)
      BY Mapping
    <3>2. AuthorityStep(ledger, ledger', p)
      BY NextAuthority
    <3> QED BY <3>1, <3>2
      DEF AuthorityStep, Authority!Keep, Authority!Revoke, Authority!Issue
  <2> QED BY <2>2, <2>3, <2>4 DEF Authority!Next
<1> QED BY <1>1, <1>2, LedgerAlwaysGood, PTL DEF Spec, ImplementsAuthority, Authority!Spec

-----------------------------------------------------------------------------
(* The store the ledger is kept in: an acknowledged commit is what recovery *)
(* reads, and the store is one durable register.                           *)
(*                                                                         *)
(* AcknowledgedSurvives alone is not inductive.  What carries it is that   *)
(* the lock's holder knows the selected record until it has published its  *)
(* own (WriterKnowsHead), so each publication is exactly one revision      *)
(* later, and that CURRENT is replaced only after its record was sealed.   *)

\* The running commit belongs to the open process and is one revision ahead.
AttemptValid ==
  attempt # Idle =>
    /\ lock # Nobody /\ state[lock] = "open"
    /\ attempt.step \in Step /\ attempt.record \in Record
    /\ attempt.record.revision = known.revision + 1

WriterKnowsHead ==
  lock # Nobody /\ state[lock] = "open" =>
    head = IF attempt.step = "acknowledge" THEN attempt.record ELSE known

Sealed ==
  /\ head # Fresh => head \in records
  /\ attempt.step \in {"write_head", "publish_head"} => attempt.record \in records

StoreInv == StoreTypeOK /\ OneWriter /\ AttemptValid /\ WriterKnowsHead /\ Sealed /\ AcknowledgedSurvives

LEMMA FreshFacts == Fresh.revision = 0 /\ Fresh \notin Record /\ Idle \notin [step : Step, record : Record]
  BY DEF Fresh, Record, Idle, Step

LEMMA StoreInitInv == StoreInit => StoreInv
<1> SUFFICES ASSUME StoreInit PROVE StoreInv  OBVIOUS
<1>1. StoreTypeOK  BY StoreAssumption DEF StoreInit, StoreTypeOK, Attempt
<1>2. OneWriter  BY StoreAssumption DEF StoreInit, OneWriter
<1>3. AttemptValid /\ WriterKnowsHead /\ Sealed /\ AcknowledgedSurvives
  BY DEF StoreInit, AttemptValid, WriterKnowsHead, Sealed, AcknowledgedSurvives, Idle
<1> QED BY <1>1, <1>2, <1>3 DEF StoreInv

USE DEF Committing, Proceed, disk

LEMMA StoreNextInv == StoreInv /\ [StoreNext]_vars => StoreInv'
<1> SUFFICES ASSUME StoreInv, [StoreNext]_vars PROVE StoreInv'  OBVIOUS
<1> USE StoreAssumption, FreshFacts
<1>0. /\ StoreTypeOK /\ OneWriter /\ AttemptValid /\ WriterKnowsHead /\ Sealed
      /\ AcknowledgedSurvives
  BY DEF StoreInv
<1>1. ASSUME NEW p \in Process, Open(p)  PROVE StoreInv'
  <2>1. attempt = Idle  BY <1>0, <1>1 DEF Open, AttemptValid
  <2>2. lock' = p /\ head' = head /\ records' = records /\ attempt' = Idle /\ p # Nobody
        /\ acknowledged' = acknowledged /\ head_damaged' = head_damaged /\ damaged' = damaged
    BY <1>1, <2>1 DEF Open
  <2>3. /\ state'[p] \in {"open", "refused"}
        /\ state' = [state EXCEPT ![p] = state'[p]]
        /\ known' \in Record \cup {Fresh}
        /\ state'[p] = "open" => known' = head
    BY <1>0, <1>1 DEF Open, StoreTypeOK, Opens, HeadReadable, HeadMissing, Sealed, no_sealed_records
  <2>4. StoreTypeOK'  BY <1>0, <2>2, <2>3 DEF StoreTypeOK, Attempt
  <2>5. OneWriter'  BY <1>0, <1>1, <2>2, <2>3 DEF StoreTypeOK, OneWriter, Open
  <2>6. AttemptValid' /\ WriterKnowsHead'
    BY <2>2, <2>3 DEF AttemptValid, WriterKnowsHead, Idle
  <2>7. Sealed' /\ AcknowledgedSurvives'
    BY <1>0, <2>2 DEF Sealed, AcknowledgedSurvives, Idle
  <2> QED BY <2>4, <2>5, <2>6, <2>7 DEF StoreInv
<1>2. ASSUME NEW p \in Process, Exit(p)  PROVE StoreInv'
  <2>1. lock = p  BY <1>0, <1>2 DEF Exit, OneWriter
  <2>2. StoreTypeOK'  BY <1>0, <1>2 DEF Exit, StoreTypeOK, Attempt
  <2>3. OneWriter'  BY <1>0, <1>2, <2>1 DEF Exit, StoreTypeOK, OneWriter
  <2>4. AttemptValid' /\ WriterKnowsHead' /\ Sealed' /\ AcknowledgedSurvives'
    BY <1>0, <1>2 DEF Exit, AttemptValid, WriterKnowsHead, Sealed, AcknowledgedSurvives, Idle
  <2> QED BY <2>2, <2>3, <2>4 DEF StoreInv
<1>3. ASSUME NEW p \in Process, Fail(p)  PROVE StoreInv'
  <2>1. lock = p /\ attempt # Idle /\ p # Nobody
    BY <1>0, <1>3 DEF Fail, OneWriter, Idle, Step
  <2>2. attempt.record \in Record /\ attempt.record.revision = known.revision + 1 /\ head = known
    BY <1>0, <1>3, <2>1 DEF Fail, AttemptValid, WriterKnowsHead
  <2>3. StoreTypeOK'  BY <1>0, <1>3, <2>2 DEF Fail, StoreTypeOK, Attempt, Selected
  <2>4. OneWriter'  BY <1>0, <1>3, <2>1 DEF Fail, StoreTypeOK, OneWriter
  <2>5. AttemptValid' /\ WriterKnowsHead'
    BY <1>0, <1>3, <2>1 DEF Fail, StoreTypeOK, AttemptValid, WriterKnowsHead
  <2>6. Sealed'  BY <1>0, <1>3 DEF Fail, Sealed, Selected, Idle
  <2>7. AcknowledgedSurvives'
    BY <1>0, <1>3, <2>2 DEF Fail, AcknowledgedSurvives, Selected, StoreTypeOK, Record
  <2> QED BY <2>3, <2>4, <2>5, <2>6, <2>7 DEF StoreInv
<1>4. ASSUME NEW p \in Process, NEW payload \in Payload, Begin(p, payload)  PROVE StoreInv'
  <2>1. lock = p /\ p # Nobody  BY <1>0, <1>4 DEF Begin, OneWriter
  <2>2. attempt'.record \in Record /\ attempt'.step = "write_record"
        /\ attempt' \in [step : Step, record : Record]
        /\ attempt'.record.revision = known.revision + 1
    BY <1>0, <1>4 DEF Begin, StoreTypeOK, Record, Step
  <2>3. StoreTypeOK'  BY <1>0, <1>4, <2>2 DEF Begin, StoreTypeOK, Attempt
  <2>4. OneWriter'  BY <1>0, <1>4 DEF Begin, OneWriter
  <2>5. AttemptValid' /\ WriterKnowsHead'
    BY <1>0, <1>4, <2>1, <2>2 DEF Begin, AttemptValid, WriterKnowsHead, Step, Idle
  <2>6. Sealed' /\ AcknowledgedSurvives'
    BY <1>0, <1>4, <2>2 DEF Begin, Sealed, AcknowledgedSurvives
  <2> QED BY <2>3, <2>4, <2>5, <2>6 DEF StoreInv
<1>5. ASSUME NEW p \in Process,
             WriteRecord(p) \/ seal_record(p) \/ WriteHead(p) \/ PublishHead(p)
      PROVE  StoreInv'
  <2>1. attempt # Idle /\ attempt.step \in Step \ {"acknowledge"}
    BY <1>5 DEF WriteRecord, seal_record, WriteHead, PublishHead, Idle, Step
  <2>2. /\ lock # Nobody /\ state[lock] = "open" /\ attempt.record \in Record
        /\ attempt.record.revision = known.revision + 1 /\ head = known
        /\ attempt \in [step : Step, record : Record]
    BY <1>0, <2>1 DEF AttemptValid, WriterKnowsHead, StoreTypeOK, Attempt
  <2>3. /\ attempt'.record = attempt.record
        /\ attempt' \in [step : Step, record : Record]
        /\ lock' = lock /\ state' = state /\ known' = known /\ acknowledged' = acknowledged
        /\ damaged' = damaged
        /\ head' = IF attempt'.step = "acknowledge" THEN attempt.record ELSE head
        /\ head_damaged' \in BOOLEAN
        /\ records \subseteq records' /\ records' \subseteq records \cup {attempt.record}
        /\ attempt'.step \in {"write_head", "publish_head", "acknowledge"}
             => attempt.record \in records'
    <3>1. CASE WriteRecord(p)
      BY <1>0, <2>2, <3>1 DEF WriteRecord, Step, StoreTypeOK
    <3>2. CASE seal_record(p)
      BY <1>0, <2>2, <3>2 DEF seal_record, Step, StoreTypeOK
    <3>3. CASE WriteHead(p)
      BY <1>0, <2>2, <3>3 DEF WriteHead, Step, StoreTypeOK, Sealed
    <3>4. CASE PublishHead(p)
      BY <1>0, <2>2, <3>4 DEF PublishHead, Selected, Step, StoreTypeOK, Sealed
    <3> QED BY <1>5, <3>1, <3>2, <3>3, <3>4
  <2>4. StoreTypeOK'  BY <1>0, <2>2, <2>3 DEF StoreTypeOK, Attempt
  <2>5. OneWriter'  BY <1>0, <2>3 DEF OneWriter
  <2>6. AttemptValid' /\ WriterKnowsHead'
    BY <2>2, <2>3 DEF AttemptValid, WriterKnowsHead
  <2>7. Sealed'  BY <1>0, <2>3 DEF Sealed
  <2>8. AcknowledgedSurvives'
    BY <1>0, <2>2, <2>3 DEF AcknowledgedSurvives, StoreTypeOK, Record
  <2> QED BY <2>4, <2>5, <2>6, <2>7, <2>8 DEF StoreInv
<1>6. ASSUME NEW p \in Process, Acknowledge(p)  PROVE StoreInv'
  <2>1. lock = p /\ p # Nobody /\ attempt # Idle
    BY <1>0, <1>6 DEF Acknowledge, OneWriter, Idle
  <2>2. attempt.record \in Record /\ head = attempt.record
    BY <1>0, <1>6, <2>1 DEF Acknowledge, AttemptValid, WriterKnowsHead
  <2>3. StoreTypeOK'  BY <1>0, <1>6, <2>2 DEF Acknowledge, StoreTypeOK, Attempt
  <2>4. OneWriter'  BY <1>0, <1>6 DEF Acknowledge, OneWriter
  <2>5. AttemptValid' /\ WriterKnowsHead' /\ Sealed' /\ AcknowledgedSurvives'
    BY <1>0, <1>6, <2>2
    DEF Acknowledge, AttemptValid, WriterKnowsHead, Sealed, AcknowledgedSurvives, Idle
  <2> QED BY <2>3, <2>4, <2>5 DEF StoreInv
<1>7. CASE DamageHead \/ \E record \in records : DamageRecord(record)
  <2>1. /\ UNCHANGED <<head, records, lock, state, known, attempt, acknowledged>>
        /\ head_damaged' \in BOOLEAN /\ damaged' \subseteq records
    BY <1>0, <1>7 DEF DamageHead, DamageRecord, StoreTypeOK
  <2>2. StoreTypeOK'  BY <1>0, <2>1 DEF StoreTypeOK
  <2>3. OneWriter'  BY <1>0, <2>1 DEF OneWriter
  <2>4. AttemptValid' /\ WriterKnowsHead' /\ Sealed' /\ AcknowledgedSurvives'
    BY <1>0, <2>1 DEF AttemptValid, WriterKnowsHead, Sealed, AcknowledgedSurvives
  <2> QED BY <2>2, <2>3, <2>4 DEF StoreInv
<1>8. CASE UNCHANGED vars
  BY <1>0, <1>8 DEF vars, StoreInv, StoreTypeOK, OneWriter, AttemptValid, WriterKnowsHead, Sealed,
                    AcknowledgedSurvives
<1> QED BY <1>1, <1>2, <1>3, <1>4, <1>5, <1>6, <1>7, <1>8 DEF StoreNext

LEMMA StoreSpecInv == StoreSpec => []StoreInv
  BY StoreInitInv, StoreNextInv, PTL DEF StoreSpec

\* Whatever step of a commit the process dies or fails at, CURRENT selects the
\* acknowledged record or a later one.
THEOREM AcknowledgedAlwaysSurvives == StoreSpec => []AcknowledgedSurvives
<1>1. StoreInv => AcknowledgedSurvives  BY DEF StoreInv
<1> QED BY <1>1, StoreSpecInv, PTL

\* At most one process has the store open: the lock's holder.
THEOREM AlwaysOneWriter == StoreSpec => []OneWriter
<1>1. StoreInv => OneWriter  BY DEF StoreInv
<1> QED BY <1>1, StoreSpecInv, PTL

\* Short of outside damage, an acknowledged store opens again.
THEOREM AcknowledgedAlwaysReopens == StoreSpec => []AcknowledgedReopens
<1>1. StoreInv => AcknowledgedReopens
  <2> SUFFICES ASSUME StoreInv, acknowledged # Fresh, ~head_damaged, damaged = {}
               PROVE  HeadReadable
    BY DEF AcknowledgedReopens
  <2>1. head # Fresh
    BY FreshFacts DEF StoreInv, StoreTypeOK, AcknowledgedSurvives, Record
  <2> QED BY <2>1 DEF StoreInv, Sealed, HeadReadable, HeadMissing
<1> QED BY <1>1, StoreSpecInv, PTL

\* A store that acknowledged a commit is never opened as a fresh one.
THEOREM AcknowledgedNeverReinitialized == StoreSpec => NeverReinitialized
<1>1. StoreInv /\ [StoreNext]_vars =>
        [\A p \in Process :
           state[p] = "closed" /\ state'[p] = "open" /\ acknowledged # Fresh
             => known' = head /\ known'.revision >= acknowledged.revision]_vars
  <2> SUFFICES ASSUME StoreInv, StoreNext, NEW p \in Process, state[p] = "closed", state'[p] = "open",
                      acknowledged # Fresh
               PROVE  known' = head /\ known'.revision >= acknowledged.revision
    BY DEF vars
  <2>1. head # Fresh /\ head \in records /\ head.revision >= acknowledged.revision
    BY FreshFacts DEF StoreInv, StoreTypeOK, AcknowledgedSurvives, Record, Sealed
  <2>2. Open(p)
    <3>1. state \in [Process -> {"closed", "open", "failed", "refused"}]
      BY DEF StoreInv, StoreTypeOK
    <3>2. \A q \in Process : ~(Exit(q) \/ Fail(q))
      BY <3>1 DEF Exit, Fail
    <3>3. ~(UNCHANGED state)  OBVIOUS
    <3>4. PICK q \in Process : Open(q)
      BY <3>2, <3>3 DEF StoreNext, Begin, WriteRecord, seal_record, WriteHead, PublishHead,
                        Acknowledge, DamageHead, DamageRecord
    <3> QED BY <3>1, <3>4 DEF Open
  <2>3. state' = [state EXCEPT ![p] = "open"] /\ Opens
    BY <2>2 DEF Open, StoreInv, StoreTypeOK
  <2> QED BY <2>1, <2>2, <2>3 DEF Open, Opens, no_sealed_records
<1> QED BY <1>1, StoreSpecInv, PTL DEF StoreSpec, NeverReinitialized

\* The store implements the durable register: one process at a time has it
\* open, and each commit takes effect in one step, the head's replacement.
THEOREM StoreImplementsRegister == StoreSpec => ImplementsRegister
<1> USE DEF Register!vars
<1>1. StoreInit => Register!Init
  BY StoreAssumption, FreshFacts DEF StoreInit, Register!Init, Writer
<1>2. StoreInv /\ [StoreNext]_vars => [Register!Next]_(Register!vars)
  <2> SUFFICES ASSUME StoreInv, [StoreNext]_vars  PROVE [Register!Next]_(Register!vars)
    OBVIOUS
  <2>0. StoreTypeOK /\ OneWriter /\ AttemptValid /\ WriterKnowsHead /\ Sealed
    BY DEF StoreInv
  <2>1. ASSUME NEW p \in Process, Open(p)  PROVE [Register!Next]_(Register!vars)
    <3>1. Writer = Nobody  BY <2>1 DEF Open, Writer
    <3>2. CASE Opens
      <4>1. Writer' = p /\ head' = head /\ known' = head
        BY <2>0, <2>1, <3>2, StoreAssumption
        DEF Open, Writer, StoreTypeOK, Opens, HeadReadable, HeadMissing, Sealed, no_sealed_records
      <4> QED BY <3>1, <4>1 DEF Register!Next, Register!Open
    <3>3. CASE ~Opens
      <4>1. Writer' = Nobody /\ head' = head /\ known' = known
        BY <2>0, <2>1, <3>3 DEF Open, Writer, StoreTypeOK
      <4> QED BY <3>1, <4>1
    <3> QED BY <3>2, <3>3
  <2>2. ASSUME NEW p \in Process, Exit(p)  PROVE [Register!Next]_(Register!vars)
    <3>1. Writer' = Nobody /\ head' = head /\ known' = known  BY <2>2 DEF Exit, Writer
    <3> QED BY <3>1 DEF Register!Next, Register!Close
  <2>3. ASSUME NEW p \in Process, PublishHead(p) \/ Fail(p)
        PROVE  [Register!Next]_(Register!vars)
    <3>1. lock = p /\ attempt # Idle /\ state[p] = "open" /\ p # Nobody
      BY <2>0, <2>3, StoreAssumption DEF PublishHead, Fail, OneWriter, Idle, Step
    <3>2. head = known /\ attempt.record \in Record
          /\ attempt.record.revision = known.revision + 1
      BY <2>0, <2>3, <3>1 DEF PublishHead, Fail, AttemptValid, WriterKnowsHead
    <3>3. Writer = p /\ Writer' = p /\ known' = known
      BY <2>0, <2>3, <3>1 DEF PublishHead, Fail, Writer, StoreTypeOK
    <3>4. head' = head \/ head' = attempt.record
      BY <2>3 DEF PublishHead, Fail, Selected
    <3>5. CASE head' = head
      BY <3>3, <3>5
    <3>6. CASE head' = attempt.record
      <4>1. known.revision < MaxStoreRevision /\ attempt.record.payload \in Payload
        BY <2>0, <3>2, StoreAssumption, FreshFacts DEF StoreTypeOK, Record
      <4>2. attempt.record = [revision |-> head.revision + 1,
                              payload |-> attempt.record.payload]
        BY <3>2 DEF Record
      <4>3. Register!Apply(attempt.record.payload)
        BY <3>1, <3>2, <3>3, <3>6, <4>1, <4>2 DEF Register!Apply
      <4> QED BY <4>1, <4>3 DEF Register!Next
    <3> QED BY <3>4, <3>5, <3>6
  <2>4. ASSUME NEW p \in Process, Acknowledge(p)  PROVE [Register!Next]_(Register!vars)
    <3>1. lock = p /\ attempt # Idle /\ p # Nobody
      BY <2>0, <2>4, StoreAssumption DEF Acknowledge, OneWriter, Idle
    <3>2. head = attempt.record /\ head' = head /\ known' = attempt.record
          /\ Writer = p /\ Writer' = Writer
      BY <2>0, <2>4, <3>1 DEF Acknowledge, WriterKnowsHead, Writer
    <3> QED BY <3>1, <3>2 DEF Register!Next, Register!Acknowledge
  <2>5. CASE \/ \E p \in Process :
                  \/ \E payload \in Payload : Begin(p, payload)
                  \/ WriteRecord(p) \/ seal_record(p) \/ WriteHead(p)
             \/ DamageHead
             \/ \E record \in records : DamageRecord(record)
             \/ UNCHANGED vars
    <3>1. head' = head /\ lock' = lock /\ state' = state /\ known' = known
      BY <2>5 DEF Begin, WriteRecord, seal_record, WriteHead, DamageHead, DamageRecord, vars
    <3> QED BY <3>1 DEF Writer
  <2> QED BY <2>1, <2>2, <2>3, <2>4, <2>5 DEF StoreNext
<1> QED BY <1>1, <1>2, StoreSpecInv, PTL DEF StoreSpec, ImplementsRegister, Register!Spec
=============================================================================
