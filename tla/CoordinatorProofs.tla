--------------------------- MODULE CoordinatorProofs ---------------------------
(***************************************************************************)
(* Proofs about Coordinator: its type invariant, that a restart can always *)
(* read the published ledger, and that no step forgets an artifact.  All   *)
(* three follow from one inductive invariant, CoordinatorInv: what holds   *)
(* of the published record (HeadOK), of the sessions (SessionsOK) and of   *)
(* the processes (ProcessesOK).                                            *)
(*                                                                         *)
(* Each action has a lemma that it leaves the invariant and keeps every    *)
(* artifact.                                                               *)
(*                                                                         *)
(* First come the lemmas behind them: what the ledger's operations         *)
(* leave of the transfers the records are about, what the session's do to  *)
(* a session, and least and greatest elements of sets of transfer ids.     *)
(*                                                                         *)
(* Follows(L, M, S) is the frame of the whole argument.  M is a ledger the *)
(* coordinator publishes after L; a record that agreed with L still finds  *)
(* its transfer in M, unless that transfer is in S, the ones the step      *)
(* itself settles.                                                         *)
(***************************************************************************)
EXTENDS Coordinator, LedgerLemmas

LedgerOK(L) == Good(L) /\ AllSettled(L)

FencedIn(L, t) == InPhase(L, t, FencedPhase)

Follows(L, M, S) ==
  /\ LedgerOK(M)
  /\ M.high_transfer_id >= L.high_transfer_id
  /\ DOMAIN L.avatars \subseteq DOMAIN M.avatars
  /\ DOMAIN L.locations \subseteq DOMAIN M.locations
  /\ \A t \in DOMAIN M.transfers :
       \/ t \in DOMAIN L.transfers /\ M.transfers[t].player = L.transfers[t].player
       \/ t > L.high_transfer_id
  /\ \A t \in TransferId \ S : FencedIn(L, t) => FencedIn(M, t)

LEMMA FollowsItself ==
  ASSUME NEW L, LedgerOK(L), NEW S
  PROVE  Follows(L, L, S)
<1>1. L.high_transfer_id \in Nat
  BY GoodParts, LedgerFields, LedgerAssumption DEF LedgerOK
<1> QED BY <1>1 DEF Follows

LEMMA FollowsThrough ==
  ASSUME NEW L, NEW M, NEW N, NEW S, LedgerOK(L), Follows(L, M, S), Follows(M, N, S)
  PROVE  Follows(L, N, S)
<1>1. /\ L.high_transfer_id \in Nat /\ M.high_transfer_id \in Nat
      /\ N.high_transfer_id \in Nat
      /\ \A t \in DOMAIN N.transfers : t \in Nat
  BY GoodParts, LedgerFields, LedgerValues, LedgerAssumption DEF LedgerOK, Follows, TransferId
<1>2. \A t \in DOMAIN N.transfers :
        \/ t \in DOMAIN L.transfers /\ N.transfers[t].player = L.transfers[t].player
        \/ t > L.high_transfer_id
  BY <1>1 DEF Follows
<1> QED BY <1>1, <1>2 DEF Follows

\* A step that keeps or drops transfers and leaves the domains alone.
LEMMA DropsFollow ==
  ASSUME NEW L, LedgerOK(L), NEW M, LedgerOK(M), NEW S, NEW gone,
         M.high_transfer_id = L.high_transfer_id,
         DOMAIN M.avatars = DOMAIN L.avatars, DOMAIN M.locations = DOMAIN L.locations,
         M.transfers = Without(L.transfers, gone),
         \A t \in gone : t \in S \/ ~FencedIn(L, t)
  PROVE  Follows(L, M, S)
<1>1. L.high_transfer_id \in Nat
  BY GoodParts, LedgerFields, LedgerAssumption DEF LedgerOK
<1>2. /\ DOMAIN M.transfers = DOMAIN L.transfers \ gone
      /\ \A t \in DOMAIN M.transfers : M.transfers[t] = L.transfers[t]
  BY DEF Without, Restrict
<1>3. \A t \in TransferId \ S : FencedIn(L, t) => FencedIn(M, t)
  BY <1>2 DEF FencedIn, InPhase
<1> QED BY <1>1, <1>2, <1>3 DEF Follows

\* A step that marks one transfer and leaves the domains alone.
LEMMA MarkFollows ==
  ASSUME NEW L, LedgerOK(L), NEW M, LedgerOK(M), NEW S,
         NEW id \in DOMAIN L.transfers, NEW marked,
         M.high_transfer_id = L.high_transfer_id,
         DOMAIN M.avatars = DOMAIN L.avatars, DOMAIN M.locations = DOMAIN L.locations,
         M.transfers = Put(L.transfers, id, marked),
         marked.player = L.transfers[id].player,
         id \in S \/ marked.phase \in FencedPhase \/ ~FencedIn(L, id)
  PROVE  Follows(L, M, S)
<1>1. L.high_transfer_id \in Nat
  BY GoodParts, LedgerFields, LedgerAssumption DEF LedgerOK
<1>2. /\ DOMAIN M.transfers = DOMAIN L.transfers
      /\ M.transfers[id] = marked
      /\ \A t \in DOMAIN L.transfers : t # id => M.transfers[t] = L.transfers[t]
  BY DEF Put
<1>3. \A t \in TransferId \ S : FencedIn(L, t) => FencedIn(M, t)
  BY <1>2 DEF FencedIn, InPhase
<1> QED BY <1>1, <1>2, <1>3 DEF Follows

-----------------------------------------------------------------------------
(* One lemma per operation of the ledger *)

LEMMA BeginTransferFollows ==
  ASSUME NEW L, LedgerOK(L), NEW id \in TransferId, NEW player \in Player,
         NEW destination \in Location, CanBeginTransfer(L, id, player, destination)
  PROVE  Follows(L, BeginTransfer(L, id, player, destination), {})
<1> DEFINE M == BeginTransfer(L, id, player, destination)
           t0 == [player |-> player, source_generation |-> L.avatars[player].generation,
                  destination_generation |-> 0, source |-> L.avatars[player].location,
                  destination |-> destination, phase |-> "prepared"]
<1>0. L \in Ledger /\ id > L.high_transfer_id /\ TransfersValid(L)
  BY GoodParts DEF LedgerOK, CanBeginTransfer
<1>1. LedgerOK(M)
  BY BeginTransferGood, BeginTransferSettled DEF LedgerOK
<1>2. /\ M.avatars = L.avatars /\ M.locations = L.locations
      /\ M.high_transfer_id = id /\ M.transfers = Put(L.transfers, id, t0)
  BY <1>0 DEF BeginTransfer, Ledger
<1>3. L.high_transfer_id \in Nat /\ id \in Nat /\ \A t \in DOMAIN L.transfers : t \in Nat
  BY <1>0, LedgerFields, LedgerValues, LedgerAssumption DEF TransferId
<1>4. id \notin DOMAIN L.transfers
  BY <1>0, <1>3 DEF TransfersValid, TransferValid
<1> HIDE DEF M, t0
<1>5. /\ DOMAIN M.transfers = DOMAIN L.transfers \cup {id}
      /\ \A t \in DOMAIN L.transfers : t # id => M.transfers[t] = L.transfers[t]
  BY <1>2 DEF Put
<1>6. \A t \in TransferId : FencedIn(L, t) => FencedIn(M, t)
  BY <1>4, <1>5 DEF FencedIn, InPhase
<1>7. Follows(L, M, {})
  BY <1>0, <1>1, <1>2, <1>3, <1>5, <1>6 DEF Follows
<1> QED BY <1>7 DEF M

LEMMA FenceSourceFollows ==
  ASSUME NEW L, LedgerOK(L), NEW id \in TransferId, NEW g, CanFenceSource(L, id, g)
  PROVE  Follows(L, FenceSource(L, id), {}) /\ FencedIn(FenceSource(L, id), id)
<1> DEFINE M == FenceSource(L, id)
           player == L.transfers[id].player
           fenced == [generation |-> L.avatars[player].generation + 1,
                      location |-> L.avatars[player].location, active |-> FALSE]
           marked == [L.transfers[id] EXCEPT !.phase = "source_fenced"]
<1>0. L \in Ledger /\ id \in DOMAIN L.transfers /\ L.transfers[id].phase = "prepared"
  BY GoodParts DEF LedgerOK, CanFenceSource, InPhase
<1>1. L.transfers[id] \in Transfer /\ player \in DOMAIN L.avatars
  BY <1>0, TransferFacts DEF LedgerOK
<1>2. LedgerOK(M)
  BY FenceSourceGood, FenceSourceSettled DEF LedgerOK
<1>3. /\ M.locations = L.locations /\ M.avatars = Put(L.avatars, player, fenced)
      /\ M.transfers = Put(L.transfers, id, marked)
      /\ M.high_transfer_id = L.high_transfer_id
  BY <1>0 DEF FenceSource, Ledger
<1>4. marked.player = player /\ marked.phase = "source_fenced"
  BY <1>1 DEF Transfer
<1>5. ~FencedIn(L, id)
  BY <1>0 DEF FencedIn, InPhase, FencedPhase
<1> HIDE DEF M, fenced, marked
<1>6. DOMAIN M.avatars = DOMAIN L.avatars
  BY <1>1, <1>3 DEF Put
<1>7. Follows(L, M, {})
  BY <1>0, <1>2, <1>3, <1>4, <1>5, <1>6, MarkFollows
<1>8. FencedIn(M, id)
  BY <1>3, <1>4 DEF Put, FencedIn, InPhase, FencedPhase
<1> QED BY <1>7, <1>8 DEF M

LEMMA DestinationRestoredFollows ==
  ASSUME NEW L, LedgerOK(L), NEW id \in TransferId, NEW worker \in Worker,
         NEW g \in Generation, CanDestinationRestored(L, id, worker, g)
  PROVE  Follows(L, DestinationRestored(L, id, g), {})
<1> DEFINE M == DestinationRestored(L, id, g)
           marked == [L.transfers[id] EXCEPT !.destination_generation = g,
                                             !.phase = "destination_restored"]
<1>0. L \in Ledger /\ id \in DOMAIN L.transfers
  BY GoodParts DEF LedgerOK, CanDestinationRestored, InPhase
<1>1. L.transfers[id] \in Transfer
  BY <1>0, TransferFacts DEF LedgerOK
<1>2. LedgerOK(M)
  BY DestinationRestoredGood, DestinationRestoredSettled DEF LedgerOK
<1>3. /\ M.locations = L.locations /\ M.avatars = L.avatars
      /\ M.transfers = Put(L.transfers, id, marked)
      /\ M.high_transfer_id = L.high_transfer_id
  BY <1>0 DEF DestinationRestored, Ledger
<1>4. marked.player = L.transfers[id].player /\ marked.phase \in FencedPhase
  BY <1>1 DEF Transfer, FencedPhase
<1> HIDE DEF M, marked
<1>5. Follows(L, M, {})
  BY <1>0, <1>2, <1>3, <1>4, MarkFollows
<1> QED BY <1>5 DEF M

LEMMA RecoverCommittedDestinationFollows ==
  ASSUME NEW L, LedgerOK(L), NEW id \in TransferId, NEW worker \in Worker,
         NEW g \in Generation, CanRecoverCommittedDestination(L, id, worker, g)
  PROVE  Follows(L, RecoverCommittedDestination(L, id, g), {})
<1> DEFINE M == RecoverCommittedDestination(L, id, g)
           marked == [L.transfers[id] EXCEPT !.destination_generation = g]
<1>0. L \in Ledger /\ id \in DOMAIN L.transfers /\ L.transfers[id].phase = "committed"
  BY GoodParts DEF LedgerOK, CanRecoverCommittedDestination, InPhase
<1>1. L.transfers[id] \in Transfer
  BY <1>0, TransferFacts DEF LedgerOK
<1>2. LedgerOK(M)
  BY RecoverCommittedDestinationGood, RecoverCommittedDestinationSettled DEF LedgerOK
<1>3. /\ M.locations = L.locations /\ M.avatars = L.avatars
      /\ M.transfers = Put(L.transfers, id, marked)
      /\ M.high_transfer_id = L.high_transfer_id
  BY <1>0 DEF RecoverCommittedDestination, Ledger
<1>4. marked.player = L.transfers[id].player
  BY <1>1 DEF Transfer
<1>5. ~FencedIn(L, id)
  BY <1>0 DEF FencedIn, InPhase, FencedPhase
<1> HIDE DEF M, marked
<1>6. Follows(L, M, {})
  BY <1>0, <1>2, <1>3, <1>4, <1>5, MarkFollows
<1> QED BY <1>6 DEF M

LEMMA CommitTransferFollows ==
  ASSUME NEW L, LedgerOK(L), NEW id \in TransferId, CanCommitTransfer(L, id)
  PROVE  Follows(L, CommitTransfer(L, id), {id})
<1> DEFINE M == CommitTransfer(L, id)
           player == L.transfers[id].player
           target == L.transfers[id].destination
           g == L.avatars[player].generation + 1
           A == ActivateAvatar(L, player, target, g)
           marked == [L.transfers[id] EXCEPT !.phase = "committed"]
<1>0. L \in Ledger /\ id \in DOMAIN L.transfers
  BY GoodParts DEF LedgerOK, CanCommitTransfer, InPhase
<1>1. /\ L.transfers[id] \in Transfer /\ player \in DOMAIN L.avatars
      /\ target \in DOMAIN L.locations /\ player \in Player
      /\ L.avatars[player] \in AvatarLease
  BY <1>0, TransferFacts, LedgerValues DEF LedgerOK
<1>2. g \in Generation
  BY <1>1, LedgerAssumption DEF CanCommitTransfer, AvatarLease, Generation
<1>3. LedgerOK(M)
  BY CommitTransferGood, CommitTransferSettled DEF LedgerOK
<1>4. M = [A EXCEPT !.transfers = Put(A.transfers, id,
             [A.transfers[id] EXCEPT !.phase = "committed"])]
  BY DEF CommitTransfer
<1>5. marked.player = player
  BY <1>1 DEF Transfer
<1> HIDE DEF A, M, g
<1>6. A = ActivateAvatar(L, player, target, g)  BY DEF A
<1>7. /\ A \in Ledger /\ A.locations = L.locations /\ A.transfers = L.transfers
      /\ A.high_transfer_id = L.high_transfer_id
      /\ DOMAIN A.avatars = DOMAIN L.avatars \cup {player}
  <2> HIDE DEF player, target
  <2> QED BY <1>0, <1>1, <1>2, <1>6, ActivateAvatarFacts
<1>8. /\ M.locations = L.locations /\ DOMAIN M.avatars = DOMAIN L.avatars
      /\ M.transfers = Put(L.transfers, id, marked)
      /\ M.high_transfer_id = L.high_transfer_id
  BY <1>1, <1>4, <1>7 DEF Ledger
<1> HIDE DEF marked
<1>9. Follows(L, M, {id})
  BY <1>0, <1>3, <1>5, <1>8, MarkFollows
<1> QED BY <1>9 DEF M

LEMMA FinishTransferFollows ==
  ASSUME NEW L, LedgerOK(L), NEW id \in TransferId, CanFinishTransfer(L, id)
  PROVE  Follows(L, FinishTransfer(L, id), {})
<1> DEFINE M == FinishTransfer(L, id)
<1>0. L \in Ledger /\ id \in DOMAIN L.transfers /\ L.transfers[id].phase = "committed"
  BY GoodParts DEF LedgerOK, CanFinishTransfer, InPhase
<1>1. LedgerOK(M)
  BY FinishTransferGood, FinishTransferSettled DEF LedgerOK
<1>2. /\ M.locations = L.locations /\ M.avatars = L.avatars
      /\ M.transfers = Without(L.transfers, {id})
      /\ M.high_transfer_id = L.high_transfer_id
  BY <1>0 DEF FinishTransfer, Ledger
<1>3. ~FencedIn(L, id)
  BY <1>0 DEF FencedIn, InPhase, FencedPhase
<1> HIDE DEF M
<1>4. Follows(L, M, {})
  BY <1>1, <1>2, <1>3, DropsFollow
<1> QED BY <1>4 DEF M

LEMMA AbortTransferFollows ==
  ASSUME NEW L, LedgerOK(L), NEW id \in TransferId, NEW g \in 0..MaxGeneration,
         CanAbortTransfer(L, id, g)
  PROVE  Follows(L, AbortTransfer(L, id, g), {id})
<1> DEFINE M == AbortTransfer(L, id, g)
<1>1. LedgerOK(M)
  BY AbortTransferGood, AbortTransferSettled DEF LedgerOK
<1> HIDE DEF M
<1>2. /\ M.locations = L.locations /\ DOMAIN M.avatars = DOMAIN L.avatars
      /\ M.transfers = Without(L.transfers, {id})
      /\ M.high_transfer_id = L.high_transfer_id
  <2>1. M = AbortTransfer(L, id, g) /\ Good(L)  BY DEF M, LedgerOK
  <2> QED BY <2>1, AbortTransferFacts
<1>3. Follows(L, M, {id})
  BY <1>1, <1>2, DropsFollow
<1> QED BY <1>3 DEF M

\* What abort_transfer accepts without a generation is prepared, and its avatar
\* is active: dropping it leaves every lease alone.
LEMMA DroppedIsPrepared ==
  ASSUME NEW L, NEW id, CanAbortTransfer(L, id, 0), Good(L)
  PROVE  id \in DOMAIN L.transfers /\ L.transfers[id].phase = "prepared"
<1>1. id \in DOMAIN L.transfers
  BY DEF CanAbortTransfer, InPhase
<1>2. L.avatars[L.transfers[id].player].generation \in Nat
  BY <1>1, TransferFacts
<1>3. ~NeedsRecovery(L, id)
  BY <1>2 DEF CanAbortTransfer
<1> QED BY <1>1, <1>3 DEF NeedsRecovery

\* Aborting a transfer leaves every other one that could be dropped droppable.
LEMMA AbortedLeavesDroppable ==
  ASSUME NEW L, LedgerOK(L), NEW t \in TransferId, NEW g \in 0..MaxGeneration,
         CanAbortTransfer(L, t, g), NEW M, M = AbortTransfer(L, t, g),
         NEW u, u # t, CanAbortTransfer(L, u, 0)
  PROVE  CanAbortTransfer(M, u, 0)
<1>0. Good(L)
  BY DEF LedgerOK
<1>1. /\ t \in DOMAIN L.transfers /\ L.transfers[t].player \in Player
      /\ M.locations = L.locations
      /\ DOMAIN M.avatars = DOMAIN L.avatars
      /\ \A p \in DOMAIN L.avatars :
           p # L.transfers[t].player => M.avatars[p] = L.avatars[p]
      /\ M.transfers = Without(L.transfers, {t})
      /\ M.high_transfer_id = L.high_transfer_id
  BY <1>0, AbortTransferFacts
<1>2. u \in DOMAIN L.transfers /\ L.transfers[u].phase = "prepared"
  BY <1>0, DroppedIsPrepared
<1>3. L.transfers[u].player # L.transfers[t].player
  BY <1>0, <1>1, <1>2, OtherPlayers
<1>4. u \in DOMAIN M.transfers /\ M.transfers[u] = L.transfers[u]
  BY <1>1, <1>2 DEF Without, Restrict
<1>5. /\ M.avatars[L.transfers[u].player] = L.avatars[L.transfers[u].player]
      /\ L.avatars[L.transfers[u].player].generation \in Nat
  BY <1>0, <1>1, <1>2, <1>3, TransferFacts
<1>6. ~NeedsRecovery(L, u)
  BY <1>2, <1>5 DEF CanAbortTransfer
<1>7. ~NeedsRecovery(M, u)
  BY <1>4, <1>5, <1>6 DEF NeedsRecovery
<1> QED BY <1>2, <1>4, <1>7 DEF CanAbortTransfer, InPhase

LEMMA DropTransfersFollows ==
  ASSUME NEW L, LedgerOK(L), NEW ids, CanDropTransfers(L, ids)
  PROVE  /\ Follows(L, DropTransfers(L, ids), {})
         /\ DropTransfers(L, ids).locations = L.locations
<1> DEFINE M == DropTransfers(L, ids)
<1>0. /\ L \in Ledger /\ FiniteMaps(L) /\ Valid(L) /\ SizesValid(L) /\ LocationsValid(L)
      /\ AvatarsValid(L) /\ TransfersValid(L) /\ InterestsValid(L) /\ AllSettled(L)
  BY GoodParts DEF LedgerOK
<1>1. /\ M.locations = L.locations /\ M.avatars = L.avatars
      /\ M.interests = L.interests /\ M.global_events = L.global_events
      /\ M.transfers = Without(L.transfers, ids)
      /\ M.high_transfer_id = L.high_transfer_id
  BY <1>0 DEF DropTransfers, Ledger
<1>2. M \in Ledger
  <2>1. Without(L.transfers, ids) \in PartialFunction(TransferId, Transfer)
    BY <1>0, LedgerFields, WithoutType
  <2> QED BY <1>0, <2>1 DEF DropTransfers, Ledger
<1> HIDE DEF M
<1>3. FiniteMaps(M) /\ SizesValid(M)
  <2>1. IsFiniteSet(DOMAIN L.transfers) /\ Cardinality(DOMAIN L.transfers) <= MaxTransfers /\ MaxTransfers \in Nat
    BY <1>0, LedgerAssumption DEF FiniteMaps, SizesValid
  <2>2. IsFiniteSet(DOMAIN M.transfers) /\ Cardinality(DOMAIN M.transfers) <= MaxTransfers
    BY <1>1, <2>1, WithoutSize
  <2> QED  BY <1>0, <1>1, <2>2 DEF FiniteMaps, SizesValid
<1>4. /\ DOMAIN M.transfers = DOMAIN L.transfers \ ids
      /\ \A t \in DOMAIN M.transfers : M.transfers[t] = L.transfers[t]
  BY <1>1 DEF Without, Restrict
<1>5. \A t \in ids : t \in DOMAIN L.transfers /\ L.transfers[t].phase = "prepared"
  BY DroppedIsPrepared DEF CanDropTransfers, LedgerOK
<1>6. LocationsValid(M) /\ InterestsValid(M)
  BY <1>0, <1>1
  DEF LocationsValid, InterestsValid, InterestValid, AcceptsAvatarOutcome
<1>7. ASSUME NEW p \in DOMAIN M.avatars  PROVE AvatarValid(M, p)
  <2>1. AvatarValid(L, p)
    BY <1>0, <1>1 DEF AvatarsValid
  <2>2. TransferFenced(L, p) => TransferFenced(M, p)
    BY <1>4, <1>5 DEF TransferFenced, TransferIn
  <2> QED BY <1>1, <2>1, <2>2 DEF AvatarValid
<1>8. ASSUME NEW t \in DOMAIN M.transfers  PROVE TransferValid(M, t)
  <2>1. TransferValid(L, t) /\ t \in DOMAIN L.transfers /\ M.transfers[t] = L.transfers[t]
    BY <1>0, <1>4 DEF TransfersValid
  <2>2. TransferPhaseValid(M, t)
    BY <1>1, <2>1 DEF TransferValid, TransferPhaseValid
  <2> QED BY <1>1, <2>1, <2>2 DEF TransferValid
<1>9. TransfersApart(M)
  BY <1>0, <1>4 DEF TransfersValid, TransfersApart
<1>10. AllSettled(M)
  <2> SUFFICES ASSUME NEW t \in DOMAIN M.transfers  PROVE Settled(M, t)
    BY DEF AllSettled
  <2>1. Settled(L, t) /\ M.transfers[t] = L.transfers[t]
    BY <1>0, <1>4 DEF AllSettled
  <2> QED BY <1>1, <2>1 DEF Settled
<1>11. LedgerOK(M)
  BY <1>2, <1>3, <1>6, <1>7, <1>8, <1>9, <1>10
  DEF LedgerOK, Good, Valid, AvatarsValid, TransfersValid
<1>12. \A t \in ids : ~FencedIn(L, t)
  BY <1>5 DEF FencedIn, InPhase, FencedPhase
<1>13. Follows(L, M, {})
  BY <1>1, <1>11, <1>12, DropsFollow
<1> QED BY <1>1, <1>13 DEF M

LEMMA WorkerLostFollows ==
  ASSUME NEW L, LedgerOK(L), NEW l \in Location, l \in DOMAIN L.locations
  PROVE  Follows(L, WorkerLost(L, l), {})
<1> DEFINE M == WorkerLost(L, l)
<1>0. L \in Ledger
  BY GoodParts DEF LedgerOK
<1>1. LedgerOK(M)
  BY WorkerLostGood, WorkerLostSettled DEF LedgerOK
<1>2. /\ M.locations = Put(L.locations, l, [L.locations[l] EXCEPT !.active = FALSE])
      /\ DOMAIN M.avatars = DOMAIN L.avatars /\ M.transfers = L.transfers
      /\ M.high_transfer_id = L.high_transfer_id
  BY <1>0 DEF WorkerLost, Ledger
<1> HIDE DEF M
<1>3. DOMAIN M.locations = DOMAIN L.locations
  BY <1>2 DEF Put
<1>4. L.high_transfer_id \in Nat
  BY <1>0, LedgerFields, LedgerAssumption
<1>5. Follows(L, M, {})
  BY <1>1, <1>2, <1>3, <1>4 DEF Follows, FencedIn, InPhase
<1> QED BY <1>5 DEF M

LEMMA ReplaceWorkerFollows ==
  ASSUME NEW L, LedgerOK(L), NEW l \in Location, NEW worker \in Worker,
         NEW generation \in Generation, NEW checkpoint \in Revision,
         CanReplaceWorker(L, l, worker, generation, checkpoint)
  PROVE  Follows(L, ReplaceWorker(L, l, worker, generation, checkpoint), {})
<1> DEFINE M == ReplaceWorker(L, l, worker, generation, checkpoint)
           gone == {t \in DOMAIN L.transfers :
                      L.transfers[t].source = l /\ L.transfers[t].phase = "prepared"}
           lease == [worker |-> worker, generation |-> generation,
                     checkpoint |-> checkpoint, content |-> L.locations[l].content,
                     active |-> TRUE]
<1>0. L \in Ledger /\ l \in DOMAIN L.locations
  BY GoodParts DEF LedgerOK, CanReplaceWorker
<1>1. LedgerOK(M)
  BY ReplaceWorkerGood, ReplaceWorkerSettled DEF LedgerOK
<1>2. DropPreparedFrom(L, l) = [L EXCEPT !.transfers = Without(L.transfers, gone)]
  BY DEF DropPreparedFrom
<1>3. /\ M.locations = Put(L.locations, l, lease)
      /\ DOMAIN M.avatars = DOMAIN L.avatars
      /\ M.transfers = Without(L.transfers, gone)
      /\ M.high_transfer_id = L.high_transfer_id
  <2> HIDE DEF gone
  <2> QED BY <1>0, <1>2 DEF ReplaceWorker, Ledger
<1> HIDE DEF M, lease
<1>4. DOMAIN M.locations = DOMAIN L.locations
  BY <1>0, <1>3 DEF Put
<1>5. \A t \in gone : ~FencedIn(L, t)
  BY DEF FencedIn, InPhase, FencedPhase
<1> HIDE DEF gone
<1>6. Follows(L, M, {})
  BY <1>1, <1>3, <1>4, <1>5, DropsFollow
<1> QED BY <1>6 DEF M

LEMMA RebindOwnersFollows ==
  ASSUME NEW L, LedgerOK(L), NEW old, NEW new \in Lease
  PROVE  Follows(L, RebindOwners(L, old, new), {})
<1> DEFINE M == RebindOwners(L, old, new)
           globals == [s \in DOMAIN L.globals |->
                         IF L.globals[s] = old THEN new ELSE L.globals[s]]
<1>0. Good(L) /\ AllSettled(L) /\ L \in Ledger /\ FiniteMaps(L) /\ SizesValid(L)
  BY GoodParts DEF LedgerOK
<1>1. M = [L EXCEPT !.globals = globals]
  BY DEF RebindOwners
<1>2. globals \in PartialFunction(System, GlobalLease)
  <2>1. globals \in [DOMAIN L.globals -> GlobalLease]
    BY <1>0, LedgerValues DEF Lease
  <2>2. DOMAIN L.globals \in SUBSET System
    BY <1>0, LedgerFields DEF PartialFunction
  <2> HIDE DEF globals
  <2> QED BY <2>1, <2>2, PartialFunctionIntro
<1> HIDE DEF M, globals
<1>3. M \in Ledger
  BY <1>0, <1>1, <1>2 DEF Ledger
<1>4. /\ M.locations = L.locations /\ M.avatars = L.avatars /\ M.transfers = L.transfers
      /\ M.interests = L.interests /\ M.global_events = L.global_events
      /\ M.high_transfer_id = L.high_transfer_id
  BY <1>0, <1>1 DEF Ledger
<1>5. Good(M)
  BY <1>0, <1>3, <1>4, GlobalStepGood DEF FiniteMaps, SizesValid
<1>6. AllSettled(M)
  BY <1>0, <1>4, SameTransfersSettled
<1>7. L.high_transfer_id \in Nat
  BY <1>0, LedgerFields, LedgerAssumption
<1>8. Follows(L, M, {})
  <2>1. \A t : FencedIn(L, t) => FencedIn(M, t)
    BY <1>4 DEF FencedIn, InPhase
  <2> QED BY <1>4, <1>5, <1>6, <1>7, <2>1 DEF Follows, LedgerOK
<1> QED BY <1>8 DEF M

-----------------------------------------------------------------------------
(* Least and greatest elements *)

LEMMA MinOfNaturals ==
  ASSUME NEW S \in SUBSET Nat, S # {}
  PROVE  Min(S) \in S /\ \A x \in S : Min(S) <= x
<1>1. IsWellFoundedOn(OpToRel(<, Nat), Nat)
  BY NatLessThanWellFounded
<1>2. \E x \in S : \A y \in S : ~(<<y, x>> \in OpToRel(<, Nat))
  BY <1>1, WFMin
<1>3. PICK x \in S : \A y \in S : <<y, x>> \notin OpToRel(<, Nat)
  BY <1>2
<1>4. ASSUME NEW y \in S  PROVE x <= y
  <2>1. ~(y < x)  BY <1>3 DEF OpToRel
  <2> QED BY <2>1
<1> QED BY <1>4 DEF Min

LEMMA MaxInInterval ==
  ASSUME NEW n \in Nat, NEW S \in SUBSET (1..n), S # {}
  PROVE  Max(S) \in S /\ \A x \in S : Max(S) >= x
<1> DEFINE T == {k \in Nat : \E x \in S : k = n - x}
<1>1. T \in SUBSET Nat /\ T # {}
  <2>1. PICK x \in S : TRUE  OBVIOUS
  <2>2. n - x \in Nat  OBVIOUS
  <2> QED BY <2>2
<1>2. Min(T) \in T /\ \A k \in T : Min(T) <= k
  BY <1>1, MinOfNaturals
<1>3. PICK m \in S : Min(T) = n - m
  BY <1>2
<1>4. ASSUME NEW x \in S  PROVE m >= x
  <2>1. n - x \in T  OBVIOUS
  <2>2. n - m <= n - x  BY <1>2, <1>3, <2>1
  <2> QED BY <2>2
<1> QED BY <1>4 DEF Max

LEMMA ImageIsFinite ==
  ASSUME NEW f, IsFiniteSet(DOMAIN f)
  PROVE  IsFiniteSet({f[x] : x \in DOMAIN f})
<1> DEFINE T == {f[x] : x \in DOMAIN f}
           g == [x \in DOMAIN f |-> f[x]]
<1>1. g \in Surjection(DOMAIN f, T)
  BY DEF Surjection
<1> HIDE DEF g, T
<1>2. IsFiniteSet(T)
  BY <1>1, FS_Surjection
<1> QED BY <1>2 DEF T

\* Among the first numbers, one more than there are members, one is no member.
LEMMA FreshIsNatural ==
  ASSUME NEW S, IsFiniteSet(S)
  PROVE  Min((1..Cardinality(S) + 1) \ S) \in Nat
<1> DEFINE n == Cardinality(S)
           I == 1..n + 1
<1>1. n \in Nat
  BY FS_CardinalityType
<1>2. IsFiniteSet(I) /\ Cardinality(I) = n + 1
  BY <1>1, FS_Interval
<1>3. I \ S # {}
  <2> SUFFICES ASSUME I \subseteq S  PROVE FALSE
    OBVIOUS
  <2> HIDE DEF I
  <2>1. Cardinality(I) <= n
    BY FS_Subset
  <2> QED BY <1>1, <1>2, <2>1
<1>4. I \ S \in SUBSET Nat
  BY <1>1
<1> QED BY <1>3, <1>4, MinOfNaturals

-----------------------------------------------------------------------------
(* Sessions *)

Universe == [locations : Ledger,
             preparations : PartialFunction(TransferId, Preparation),
             native_transfers : PartialFunction(TransferId, NativeRecord),
             maintenance_starts : PartialFunction(Location, TransferId)]

\* What every operation on a session leaves: a session of the same process, and
\* none connects it.
Keeps(s, t) == t \in Session /\ t.process = s.process /\ (t.connected => s.connected)

LEMMA ViewTyped ==
  ASSUME NEW L \in Ledger, NEW l \in DOMAIN L.locations
  PROVE  Residents(L, l) \in SUBSET Player /\ ViewOf(L, l) \in View
<1>1. Residents(L, l) \in SUBSET Player /\ Residents(L, l) \subseteq DOMAIN L.avatars
  BY LedgerValues DEF Residents
<1> DEFINE generations == [p \in Residents(L, l) |-> L.avatars[p].generation]
           interested == {p \in Residents(L, l) :
             AcceptsInterest(L, p, l, L.avatars[p].generation, L.locations[l].worker,
                             L.locations[l].generation)}
<1>2. generations \in [Residents(L, l) -> Generation]
  BY <1>1, LedgerValues DEF AvatarLease
<1>3. interested \in SUBSET Player
  BY <1>1
<1>4. ViewOf(L, l) = [lease |-> L.locations[l], generations |-> generations,
                      interested |-> interested]
  BY DEF ViewOf
<1> HIDE DEF generations, interested
<1>5. generations \in PartialFunction(Player, Generation)
  BY <1>1, <1>2, PartialFunctionIntro
<1>6. L.locations[l] \in LocationLease
  BY LedgerValues
<1> QED BY <1>1, <1>3, <1>4, <1>5, <1>6 DEF View

LEMMA ClearSceneKeeps ==
  ASSUME NEW s \in Session
  PROVE  Keeps(s, ClearScene(s)) /\ ~ClearScene(s).connected
BY DEF Keeps, ClearScene, Session

LEMMA FenceLeaseKeeps ==
  ASSUME NEW s \in Session
  PROVE  Keeps(s, FenceLease(s)) /\ ~FenceLease(s).connected
<1>1. ClearScene(s) \in Session /\ ClearScene(s).process = s.process
      /\ ~ClearScene(s).connected
  BY ClearSceneKeeps DEF Keeps
<1> QED BY <1>1 DEF Keeps, FenceLease, Session

LEMMA BeginMaintenanceKeeps ==
  ASSUME NEW s \in Session, NEW L, NEW l, NEW id \in 0..MaxTransferId
  PROVE  Keeps(s, BeginMaintenance(s, L, l, id))
BY DEF Keeps, BeginMaintenance, Session

LEMMA ReboundKeeps ==
  ASSUME NEW s \in Session, NEW L \in Ledger, NEW l, NEW id, NEW release
  PROVE  Keeps(s, Rebound(s, L, l, id, release))
<1>1. CASE ~CanRebind(s, L, l, id)
  BY <1>1 DEF Rebound, Keeps
<1>2. CASE CanRebind(s, L, l, id)
  <2> DEFINE captured == [s EXCEPT !.owners = Residents(L, l), !.view = ViewOf(L, l)]
             released == [captured EXCEPT !.maintenance = 0, !.start = 0, !.complete = FALSE]
  <2>1. l \in DOMAIN L.locations
    BY <1>2 DEF CanRebind, HoldsLease
  <2>2. captured \in Session /\ captured.process = s.process
        /\ captured.connected = s.connected
    <3>1. Residents(L, l) \in SUBSET Player /\ ViewOf(L, l) \in View
      BY <2>1, ViewTyped
    <3> QED BY <3>1 DEF Session
  <2>3. Rebound(s, L, l, id, release) \in {captured, released}
    BY <1>2 DEF Rebound
  <2> HIDE DEF captured
  <2>4. released \in Session /\ released.process = captured.process
        /\ released.connected = captured.connected
    <3>1. 0 \in 0..MaxTransferId
      BY LedgerAssumption
    <3> QED BY <2>2, <3>1 DEF Session
  <2> QED BY <2>2, <2>3, <2>4 DEF Keeps
<1> QED BY <1>1, <1>2

LEMMA NewSessionTyped ==
  ASSUME FreshEpoch \in Nat, NEW L \in Ledger, NEW l \in DOMAIN L.locations,
         NEW owners \in SUBSET Player, NEW content \in BOOLEAN,
         NEW start \in 0..MaxTransferId
  PROVE  /\ NewSession(L, l, owners, content, start) \in Session
         /\ ~NewSession(L, l, owners, content, start).connected
<1> DEFINE s == [epoch |-> FreshEpoch, view |-> ViewOf(L, l), owners |-> owners,
                 content_authority |-> content, fenced |-> FALSE, start |-> start,
                 maintenance |-> 0, process |-> Nobody, connected |-> FALSE,
                 complete |-> FALSE, scene |-> 0]
           fenced == ~LeaseCurrent(s, L, l)
           t == [s EXCEPT !.fenced = fenced]
<1>1. s \in Session /\ ~s.connected
  BY ViewTyped, LedgerAssumption DEF Session
<1>2. NewSession(L, l, owners, content, start) = BeginMaintenance(t, L, l, start)
  BY DEF NewSession
<1>3. fenced \in BOOLEAN
  BY DEF LeaseCurrent
<1> HIDE DEF s, fenced
<1>4. t \in Session /\ ~t.connected
  BY <1>1, <1>3 DEF Session
<1> HIDE DEF t
<1>5. Keeps(t, BeginMaintenance(t, L, l, start))
  BY <1>4, BeginMaintenanceKeeps
<1> QED BY <1>2, <1>4, <1>5 DEF Keeps

-----------------------------------------------------------------------------
(* Records *)

\* Record r of transfer t against the ledger: its player has an avatar, the
\* ledger's transfer t is that player's, and any other one the player has there
\* is later.  A fenced record finds its transfer fenced.
OfTransfer(L, t, r) ==
  /\ r.preparation.player \in DOMAIN L.avatars
  /\ t <= L.high_transfer_id
  /\ t \in DOMAIN L.transfers => L.transfers[t].player = r.preparation.player
  /\ \A u \in DOMAIN L.transfers \ {t} :
       L.transfers[u].player = r.preparation.player => t < u
  /\ r.phase = "source_fenced" => FencedIn(L, t)

Unsettled == {"fence_requested", "source_fenced", "checkpoint_recovered"}

\* What a record says of itself in each phase; `gone` are the ended processes.
Sound(r, gone) ==
  /\ r.phase \in Unsettled => ~r.artifact /\ ~r.ownership_committed
  /\ r.phase \notin {"fence_requested", "checkpoint_recovered"} =>
       /\ r.source_receipt # None
       /\ r.preparation.avatar_generation + 2 <= MaxGeneration
  /\ r.phase \in CommittedPhase => r.ownership_committed
  /\ r.source_receipt # None =>
       r.process["source"] = r.source_receipt.process \/ r.source_receipt.process \in gone
  /\ r.ownership_committed /\ ~r.source_retired => r.process["source"] # Nobody

HeadOK(H, gone) ==
  /\ H \in Universe
  /\ LedgerOK(H.locations)
  /\ \A t \in DOMAIN H.native_transfers :
       /\ OfTransfer(H.locations, t, H.native_transfers[t])
       /\ Sound(H.native_transfers[t], gone)

\* Every artifact of H has one in K, of the same player and no older.
KeepsArtifacts(H, K) ==
  \A t \in DOMAIN H.native_transfers : H.native_transfers[t].artifact =>
    \E u \in DOMAIN K.native_transfers :
      /\ u >= t /\ K.native_transfers[u].artifact
      /\ K.native_transfers[u].preparation.player = H.native_transfers[t].preparation.player

LEMMA HeadFields ==
  ASSUME NEW H, NEW gone, HeadOK(H, gone)
  PROVE  /\ H.locations \in Ledger /\ LedgerOK(H.locations)
         /\ H.preparations \in PartialFunction(TransferId, Preparation)
         /\ H.native_transfers \in PartialFunction(TransferId, NativeRecord)
         /\ H.maintenance_starts \in PartialFunction(Location, TransferId)
         /\ \A t \in DOMAIN H.preparations :
              t \in TransferId /\ H.preparations[t] \in Preparation
         /\ \A t \in DOMAIN H.native_transfers :
              t \in TransferId /\ H.native_transfers[t] \in NativeRecord
         /\ \A l \in DOMAIN H.maintenance_starts :
              l \in Location /\ H.maintenance_starts[l] \in TransferId
<1>1. /\ H.locations \in Ledger /\ LedgerOK(H.locations)
      /\ H.preparations \in PartialFunction(TransferId, Preparation)
      /\ H.native_transfers \in PartialFunction(TransferId, NativeRecord)
      /\ H.maintenance_starts \in PartialFunction(Location, TransferId)
  BY DEF HeadOK, Universe
<1> QED BY <1>1, PartialFunctionElim

LEMMA FollowsMore ==
  ASSUME NEW L, NEW M, NEW S, Follows(L, M, {})
  PROVE  Follows(L, M, S)
BY DEF Follows

LEMMA OfTransferFollows ==
  ASSUME NEW L, LedgerOK(L), NEW M, NEW S, Follows(L, M, S),
         NEW t \in TransferId, NEW r, OfTransfer(L, t, r), NEW q,
         q.preparation.player = r.preparation.player,
         q.phase = "source_fenced" => FencedIn(M, t)
  PROVE  OfTransfer(M, t, q)
<1>1. /\ L.high_transfer_id \in Nat /\ M.high_transfer_id \in Nat /\ t \in Nat
      /\ \A u \in DOMAIN M.transfers : u \in Nat
  BY GoodParts, LedgerFields, LedgerValues, LedgerAssumption DEF LedgerOK, Follows, TransferId
<1>2. \A u \in DOMAIN M.transfers :
        \/ u \in DOMAIN L.transfers /\ M.transfers[u].player = L.transfers[u].player
        \/ u > L.high_transfer_id
  BY DEF Follows
<1>3. t <= L.high_transfer_id
  BY DEF OfTransfer
<1>4. r.preparation.player \in DOMAIN M.avatars /\ t <= M.high_transfer_id
  BY <1>1, <1>3 DEF OfTransfer, Follows
<1>5. t \in DOMAIN M.transfers => M.transfers[t].player = r.preparation.player
  BY <1>1, <1>2, <1>3 DEF OfTransfer
<1>6. \A u \in DOMAIN M.transfers \ {t} :
        M.transfers[u].player = r.preparation.player => t < u
  BY <1>1, <1>2, <1>3 DEF OfTransfer
<1> QED BY <1>4, <1>5, <1>6 DEF OfTransfer

LEMMA RecordsPublished ==
  ASSUME HeadOK(head, dead), NEW M, NEW S, Follows(Ledgered, M, S),
         NEW Q \in PartialFunction(TransferId, NativeRecord), NEW id,
         \A t \in DOMAIN Q : t # id =>
           t \in DOMAIN head.native_transfers /\ Q[t] = Record(t) /\ t \notin S,
         id \in DOMAIN Q => OfTransfer(M, id, Q[id]) /\ Sound(Q[id], dead),
         NEW preparations \in PartialFunction(TransferId, Preparation),
         NEW starts \in PartialFunction(Location, TransferId),
         PublishNative(M, Q, preparations, starts)
  PROVE  HeadOK(head', dead) /\ head'.locations = M /\ head'.native_transfers = Q
<1> DEFINE finished == {t \in DOMAIN Q : Q[t].phase \in TerminalPhase}
<1>1. head' = [locations |-> M, native_transfers |-> Q,
               preparations |-> Without(preparations, finished),
               maintenance_starts |-> WithoutStarts(starts, finished)]
  BY DEF PublishNative, Publish
<1>2. Without(preparations, finished) \in PartialFunction(TransferId, Preparation)
  BY WithoutType
<1>3. WithoutStarts(starts, finished) \in PartialFunction(Location, TransferId)
  BY WithoutType DEF WithoutStarts
<1> HIDE DEF finished
<1>4. LedgerOK(M) /\ M \in Ledger
  BY GoodParts DEF Follows, LedgerOK
<1>5. head' \in Universe /\ head'.locations = M /\ head'.native_transfers = Q
  BY <1>1, <1>2, <1>3, <1>4 DEF Universe
<1>6. ASSUME NEW t \in DOMAIN Q  PROVE OfTransfer(M, t, Q[t]) /\ Sound(Q[t], dead)
  <2>1. CASE t = id
    BY <2>1
  <2>2. CASE t # id
    <3>1. /\ t \in DOMAIN head.native_transfers /\ Q[t] = Record(t) /\ t \notin S
          /\ OfTransfer(Ledgered, t, Record(t)) /\ Sound(Record(t), dead)
          /\ t \in TransferId /\ LedgerOK(Ledgered)
      BY <2>2, HeadFields DEF HeadOK, Ledgered, Record
    <3>2. Record(t).phase = "source_fenced" => FencedIn(M, t)
      BY <3>1 DEF OfTransfer, Follows
    <3>3. OfTransfer(M, t, Record(t))
      BY <3>1, <3>2, OfTransferFollows
    <3> QED BY <3>1, <3>3
  <2> QED BY <2>1, <2>2
<1> QED BY <1>4, <1>5, <1>6 DEF HeadOK

\* A step on record id that publishes ledger M, settling at most id's transfer.
LEMMA RecordPublished ==
  ASSUME HeadOK(head, dead), NEW id \in DOMAIN head.native_transfers,
         NEW M, Follows(Ledgered, M, {id}), NEW r \in NativeRecord,
         r.preparation = Record(id).preparation,
         r.phase = "source_fenced" => FencedIn(M, id),
         Sound(r, dead), Record(id).artifact => r.artifact,
         PublishRecord(M, id, r)
  PROVE  HeadOK(head', dead) /\ head'.locations = M /\ KeepsArtifacts(head, head')
<1> DEFINE Q == Put(head.native_transfers, id, r)
<1>0. /\ id \in TransferId /\ LedgerOK(Ledgered)
      /\ head.native_transfers \in PartialFunction(TransferId, NativeRecord)
      /\ head.preparations \in PartialFunction(TransferId, Preparation)
      /\ head.maintenance_starts \in PartialFunction(Location, TransferId)
      /\ OfTransfer(Ledgered, id, Record(id))
      /\ DOMAIN head.native_transfers \subseteq Nat
  BY HeadFields, LedgerAssumption DEF HeadOK, Ledgered, Record, TransferId
<1>1. Q \in PartialFunction(TransferId, NativeRecord)
  BY <1>0, PutType
<1>2. PublishNative(M, Q, head.preparations, head.maintenance_starts)
  BY DEF PublishRecord
<1>3. /\ DOMAIN Q = DOMAIN head.native_transfers /\ Q[id] = r
      /\ \A t \in DOMAIN Q : t # id => Q[t] = Record(t)
  BY DEF Put, Record
<1>4. OfTransfer(M, id, r)
  BY <1>0, OfTransferFollows
<1> HIDE DEF Q
<1>5. HeadOK(head', dead) /\ head'.locations = M /\ head'.native_transfers = Q
  BY <1>0, <1>1, <1>2, <1>3, <1>4, RecordsPublished
<1>6. KeepsArtifacts(head, head')
  <2> SUFFICES ASSUME NEW t \in DOMAIN head.native_transfers,
                      head.native_transfers[t].artifact
               PROVE  /\ t \in DOMAIN Q /\ t >= t /\ Q[t].artifact
                      /\ Q[t].preparation.player = head.native_transfers[t].preparation.player
    BY <1>5 DEF KeepsArtifacts
  <2>1. t >= t  BY <1>0
  <2> QED BY <1>3, <2>1 DEF Record
<1> QED BY <1>5, <1>6

\* The newest artifact of a head that keeps artifacts is no older.
LEMMA NewestArtifact ==
  ASSUME NEW H, NEW d, HeadOK(H, d), NEW p, NEW n,
         n = IF ArtifactsOf(H, p) = {} THEN 0 ELSE Max(ArtifactsOf(H, p))
  PROVE  /\ n \in 0..MaxTransferId
         /\ n # 0 => n \in ArtifactsOf(H, p)
         /\ \A t \in ArtifactsOf(H, p) : t <= n
<1> DEFINE S == ArtifactsOf(H, p)
<1>1. S \in SUBSET (1..MaxTransferId)
  BY HeadFields DEF ArtifactsOf, TransferId
<1>2. MaxTransferId \in Nat
  BY LedgerAssumption
<1>3. CASE S = {}
  BY <1>2, <1>3
<1>4. CASE S # {}
  <2>1. Max(S) \in S /\ \A t \in S : Max(S) >= t
    BY <1>1, <1>2, <1>4, MaxInInterval
  <2> HIDE DEF S
  <2>2. n = Max(S)  BY <1>4 DEF S
  <2> QED BY <1>1, <1>2, <2>1, <2>2 DEF S
<1> QED BY <1>3, <1>4

LEMMA ArtifactsGrow ==
  ASSUME NEW d, HeadOK(head, d), NEW e, HeadOK(head', e), KeepsArtifacts(head, head')
  PROVE  \A p \in Player : LatestArtifact(p)' >= LatestArtifact(p)
<1> SUFFICES ASSUME NEW p \in Player  PROVE LatestArtifact(p)' >= LatestArtifact(p)
  OBVIOUS
<1> DEFINE n == LatestArtifact(p)
           m == LatestArtifact(p)'
<1>1. /\ n \in 0..MaxTransferId
      /\ n # 0 => n \in ArtifactsOf(head, p)
  BY NewestArtifact DEF LatestArtifact
<1>2. /\ m \in 0..MaxTransferId
      /\ \A t \in ArtifactsOf(head', p) : t <= m
  <2>1. m = IF ArtifactsOf(head', p) = {} THEN 0 ELSE Max(ArtifactsOf(head', p))
    BY DEF LatestArtifact, ArtifactsOf
  <2> HIDE DEF m
  <2> QED BY <2>1, NewestArtifact
<1> HIDE DEF n, m
<1>3. MaxTransferId \in Nat
  BY LedgerAssumption
<1>4. CASE n = 0
  BY <1>2, <1>3, <1>4 DEF n, m
<1>5. CASE n # 0
  <2>1. PICK u \in DOMAIN head'.native_transfers :
          /\ u >= n /\ head'.native_transfers[u].artifact
          /\ head'.native_transfers[u].preparation.player = p
    BY <1>1, <1>5 DEF KeepsArtifacts, ArtifactsOf
  <2>2. u \in ArtifactsOf(head', p) /\ u \in Nat
    BY <1>3, <2>1, HeadFields DEF ArtifactsOf, TransferId
  <2>3. u <= m  BY <1>2, <2>2
  <2> QED BY <1>1, <1>2, <1>3, <2>1, <2>2, <2>3 DEF n, m
<1> QED BY <1>4, <1>5

\* Whatever it is asked, RecoveryArtifact answers a transfer id or 0.
LEMMA RecoveryArtifactTyped ==
  ASSUME NEW H, NEW d, HeadOK(H, d), NEW x
  PROVE  RecoveryArtifact(H, x) \in 0..MaxTransferId
<1> DEFINE heads == {t \in ArtifactsOf(H, x) :
             /\ H.native_transfers[t].phase \in TerminalPhase
             /\ x \in DOMAIN H.locations.avatars
             /\ H.locations.avatars[x].location = Residence(H.native_transfers[t])}
<1>1. heads \in SUBSET (1..MaxTransferId)
  BY HeadFields DEF ArtifactsOf, TransferId
<1>2. RecoveryArtifact(H, x) = IF heads = {} THEN 0 ELSE Max(heads)
  BY DEF RecoveryArtifact
<1> HIDE DEF heads
<1>3. CASE heads = {}
  BY <1>2, <1>3, LedgerAssumption
<1>4. CASE heads # {}
  <2>1. Max(heads) \in heads
    BY <1>1, <1>4, MaxInInterval, LedgerAssumption
  <2>2. RecoveryArtifact(H, x) \in 1..MaxTransferId
    BY <1>1, <1>2, <1>4, <2>1
  <2> QED BY <2>2, LedgerAssumption
<1> QED BY <1>3, <1>4

\* Finitely many records and sessions use finitely many epochs.
LEMMA FreshEpochNatural ==
  ASSUME NEW d, HeadOK(head, d), IsFiniteSet(DOMAIN sessions)
  PROVE  FreshEpoch \in Nat
<1> DEFINE D == DOMAIN head.native_transfers
           f == [t \in D |-> Record(t).command.scope.epoch]
           g == [t \in D |-> Record(t).source_receipt.scope.epoch]
           h == [t \in D |-> Record(t).destination_receipt.scope.epoch]
           k == [l \in DOMAIN sessions |-> sessions[l].epoch]
           F == {f[t] : t \in DOMAIN f}
           G == {g[t] : t \in DOMAIN g}
           H == {h[t] : t \in DOMAIN h}
           K == {k[l] : l \in DOMAIN k}
           scopes == UNION {{r.command.scope} \cup
                       {x.scope : x \in {r.source_receipt, r.destination_receipt} \ {None}}
                       : r \in {Record(id) : id \in D}}
<1>1. IsFiniteSet(D)
  <2>1. D \in SUBSET (1..MaxTransferId)
    BY HeadFields DEF TransferId
  <2>2. IsFiniteSet(1..MaxTransferId)
    BY LedgerAssumption, FS_Interval
  <2> HIDE DEF D
  <2> QED BY <2>1, <2>2, FS_Subset
<1>2. IsFiniteSet(F) /\ IsFiniteSet(G) /\ IsFiniteSet(H) /\ IsFiniteSet(K)
  <2>1. DOMAIN f = D /\ DOMAIN g = D /\ DOMAIN h = D /\ DOMAIN k = DOMAIN sessions
    OBVIOUS
  <2> HIDE DEF D, f, g, h, k
  <2> QED BY <1>1, <2>1, ImageIsFinite
<1>3. \A e \in scopes : e.epoch \in F \cup G \cup H
  <2> SUFFICES ASSUME NEW e \in scopes  PROVE e.epoch \in F \cup G \cup H
    OBVIOUS
  <2>1. PICK t \in D :
          e = Record(t).command.scope \/ e = Record(t).source_receipt.scope
          \/ e = Record(t).destination_receipt.scope
    OBVIOUS
  <2> QED BY <2>1
<1>4. UsedEpochs = {e.epoch : e \in scopes} \cup {sessions[l].epoch : l \in DOMAIN sessions}
  BY DEF UsedEpochs
<1>5. {sessions[l].epoch : l \in DOMAIN sessions} = K
  OBVIOUS
<1> HIDE DEF scopes, F, G, H, K
<1>6. UsedEpochs \in SUBSET (F \cup G \cup H \cup K)
  BY <1>3, <1>4, <1>5
<1>7. IsFiniteSet(F \cup G \cup H \cup K)
  BY <1>2, FS_Union
<1>8. IsFiniteSet(UsedEpochs)
  BY <1>6, <1>7, FS_Subset
<1> QED BY <1>8, FreshIsNatural DEF FreshEpoch

-----------------------------------------------------------------------------
(* The inductive invariant.                                                *)

\* Sessions S of the locations of L; whoever is connected is a process.
SessionsOK(S, L) ==
  /\ S \in PartialFunction(Location, Session)
  /\ DOMAIN S \subseteq DOMAIN L.locations
  /\ \A l \in DOMAIN S : S[l].connected => S[l].process # Nobody

ProcessesOK ==
  /\ local_processes \in PartialFunction(Location, LocalProcess)
  /\ home \in [Process -> Location \cup {Nobody}]
  /\ dead \subseteq Process /\ live \subseteq Process \X Player
  /\ held \in [Process -> [Player -> 0..MaxTransferId]]
  /\ runs \in 0..MaxRuns

CoordinatorInv == HeadOK(head, dead) /\ SessionsOK(sessions, Ledgered) /\ ProcessesOK

-----------------------------------------------------------------------------
(* Sessions and processes *)

LEMMA SessionFacts ==
  ASSUME NEW S, NEW L, SessionsOK(S, L), NEW l \in DOMAIN S
  PROVE  /\ l \in Location /\ l \in DOMAIN L.locations /\ S[l] \in Session
         /\ S[l].connected => S[l].process \in Process
<1>1. l \in Location /\ S[l] \in Session
  BY PartialFunctionElim DEF SessionsOK
<1> QED BY <1>1 DEF SessionsOK, Session

LEMMA SessionsKept ==
  ASSUME NEW S, NEW L, SessionsOK(S, L), NEW M, DOMAIN L.locations \subseteq DOMAIN M.locations,
         NEW T, T = [l \in DOMAIN S |-> T[l]], \A l \in DOMAIN S : Keeps(S[l], T[l])
  PROVE  SessionsOK(T, M)
<1>1. DOMAIN T = DOMAIN S /\ DOMAIN S \in SUBSET Location
  BY PartialFunctionElim DEF SessionsOK
<1>2. T \in [DOMAIN S -> Session]
  BY DEF Keeps
<1>3. T \in PartialFunction(Location, Session)
  BY <1>1, <1>2, PartialFunctionIntro
<1> QED BY <1>1, <1>3 DEF SessionsOK, Keeps

LEMMA SameSessions ==
  ASSUME NEW S, NEW L, SessionsOK(S, L), NEW M, NEW X, Follows(L, M, X)
  PROVE  SessionsOK(S, M)
BY DEF SessionsOK, Follows

LEMMA OneSessionKept ==
  ASSUME NEW S, NEW L, SessionsOK(S, L), NEW M, NEW X, Follows(L, M, X),
         NEW l \in DOMAIN S, NEW t, Keeps(S[l], t)
  PROVE  SessionsOK([S EXCEPT ![l] = t], M)
<1> DEFINE T == [S EXCEPT ![l] = t]
<1>1. S = [k \in DOMAIN S |-> S[k]]
  BY DEF SessionsOK, PartialFunction
<1>2. T = [k \in DOMAIN S |-> T[k]] /\ T[l] = t
      /\ \A k \in DOMAIN S : k # l => T[k] = S[k]
  BY <1>1
<1>3. \A k \in DOMAIN S : S[k] \in Session
  BY SessionFacts
<1> HIDE DEF T
<1>4. \A k \in DOMAIN S : Keeps(S[k], T[k])
  BY <1>2, <1>3 DEF Keeps
<1>5. SessionsOK(T, M)
  BY <1>2, <1>4, SessionsKept DEF Follows
<1> QED BY <1>5 DEF T

LEMMA FencedKept ==
  ASSUME NEW S, NEW L, SessionsOK(S, L), NEW M, NEW X, Follows(L, M, X), NEW N
  PROVE  SessionsOK(Fenced(S, N), M)
<1> DEFINE T == Fenced(S, N)
<1>1. T = [l \in DOMAIN S |-> T[l]]
  BY DEF Fenced
<1>2. ASSUME NEW l \in DOMAIN S  PROVE Keeps(S[l], T[l])
  <2>1. S[l] \in Session
    BY SessionFacts
  <2>2. T[l] = S[l] \/ T[l] = FenceLease(S[l])
    BY DEF Fenced
  <2> QED BY <2>1, <2>2, FenceLeaseKeeps DEF Keeps
<1> HIDE DEF T
<1>3. SessionsOK(T, M)
  BY <1>1, <1>2, SessionsKept DEF Follows
<1> QED BY <1>3 DEF T

LEMMA SessionOpened ==
  ASSUME NEW S, NEW L, SessionsOK(S, L), NEW l \in Location, l \in DOMAIN L.locations,
         NEW s \in Session, ~s.connected
  PROVE  SessionsOK(Put(S, l, s), L)
<1>1. Put(S, l, s) \in PartialFunction(Location, Session)
  BY PutType DEF SessionsOK
<1> QED BY <1>1 DEF SessionsOK, Put

LEMMA LocalFacts ==
  ASSUME ProcessesOK, NEW l \in DOMAIN local_processes
  PROVE  local_processes[l].process \in Process /\ local_processes[l].lease \in Lease
<1>1. local_processes[l] \in LocalProcess
  BY PartialFunctionElim DEF ProcessesOK
<1> QED BY <1>1 DEF LocalProcess

-----------------------------------------------------------------------------
(* Steps that publish nothing *)

\* A step of the sessions and the processes alone, in which processes may end.
LEMMA NothingPublished ==
  ASSUME HeadOK(head, dead), head' = head, dead \subseteq dead',
         SessionsOK(sessions', Ledgered), ProcessesOK'
  PROVE  CoordinatorInv' /\ KeepsArtifacts(head, head')
<1>1. HeadOK(head', dead')
  BY DEF HeadOK, Sound
<1>2. KeepsArtifacts(head, head')
  <2>1. \A t \in DOMAIN head.native_transfers : t \in Nat
    BY HeadFields, LedgerAssumption DEF TransferId
  <2>2. \A t \in DOMAIN head.native_transfers : t >= t
    BY <2>1
  <2> QED BY <2>2 DEF KeepsArtifacts
<1>3. SessionsOK(sessions', Ledgered')
  BY DEF Ledgered
<1> QED BY <1>1, <1>2, <1>3 DEF CoordinatorInv

LEMMA StaysItself ==
  ASSUME CoordinatorInv  PROVE Follows(Ledgered, Ledgered, {})
BY FollowsItself DEF CoordinatorInv, HeadOK, Ledgered

LEMMA RegisterStep ==
  ASSUME CoordinatorInv, NEW l, NEW p \in Process, RegisterLocalWorkerProcess(l, p)
  PROVE  CoordinatorInv' /\ KeepsArtifacts(head, head')
<1> USE DEF RegisterLocalWorkerProcess
<1>1. l \in Location /\ l \in DOMAIN Ledgered.locations
  BY SessionFacts DEF CoordinatorInv
<1>2. LeaseAt(Ledgered, l) \in Lease
  BY <1>1, HeadFields, LedgerValues DEF CoordinatorInv, Ledgered, LeaseAt, LocationLease, Lease, GlobalLease
<1>3. [lease |-> LeaseAt(Ledgered, l), process |-> p] \in LocalProcess
  BY <1>2 DEF LocalProcess
<1>4. local_processes' \in PartialFunction(Location, LocalProcess)
  BY <1>1, <1>3, PutType DEF CoordinatorInv, ProcessesOK
<1>5. ProcessesOK'
  BY <1>1, <1>4 DEF CoordinatorInv, ProcessesOK
<1> QED BY <1>5, NothingPublished DEF CoordinatorInv

LEMMA ConnectStep ==
  ASSUME CoordinatorInv, NEW l, NEW p \in Process, NEW scene \in Scene \cup {0},
         ConnectAuthority(l, p, scene)
  PROVE  CoordinatorInv' /\ KeepsArtifacts(head, head')
<1> DEFINE t == [sessions[l] EXCEPT !.process = p, !.connected = TRUE, !.scene = scene]
<1>1. l \in DOMAIN sessions /\ l \in Location /\ sessions[l] \in Session
      /\ sessions \in PartialFunction(Location, Session)
  BY SessionFacts DEF CoordinatorInv, ConnectAuthority, Current, SessionsOK
<1>2. t \in Session /\ t.process = p
  BY <1>1 DEF Session
<1>3. p # Nobody
  BY CoordinatorAssumption
<1>4. sessions' = [sessions EXCEPT ![l] = t]
  BY <1>1 DEF ConnectAuthority, PartialFunction, Session
<1> HIDE DEF t
<1>5. sessions' = Put(sessions, l, t)
  BY <1>1, <1>4 DEF Put, PartialFunction
<1>6. sessions' \in PartialFunction(Location, Session)
  BY <1>1, <1>2, <1>5, PutType
<1>7. SessionsOK(sessions', Ledgered)
  BY <1>1, <1>2, <1>3, <1>5, <1>6 DEF CoordinatorInv, SessionsOK, Put
<1>8. ProcessesOK'
  BY <1>1 DEF ConnectAuthority, CoordinatorInv, ProcessesOK
<1> QED BY <1>7, <1>8, NothingPublished DEF CoordinatorInv, ConnectAuthority

LEMMA CompleteSceneStep ==
  ASSUME CoordinatorInv, NEW l, NEW scene \in Scene, CompleteScene(l, scene)
  PROVE  CoordinatorInv' /\ KeepsArtifacts(head, head')
<1> DEFINE t == [sessions[l] EXCEPT !.complete = TRUE, !.scene = scene]
<1>1. /\ l \in DOMAIN sessions /\ sessions[l] \in Session
      /\ sessions[l].process \in Process
      /\ sessions \in PartialFunction(Location, Session)
  BY SessionFacts DEF CoordinatorInv, CompleteScene, Current, SessionsOK
<1>2. Keeps(sessions[l], t) /\ sessions[l].owners \in SUBSET Player
  BY <1>1 DEF Session, Keeps
<1>3. sessions' = [sessions EXCEPT ![l] = t]
  BY <1>1 DEF CompleteScene, PartialFunction, Session
<1> HIDE DEF t
<1>4. SessionsOK(sessions', Ledgered)
  BY <1>1, <1>2, <1>3, StaysItself, OneSessionKept DEF CoordinatorInv
<1>5. ProcessesOK'
  BY <1>1, <1>2 DEF CompleteScene, CoordinatorInv, ProcessesOK
<1> QED BY <1>4, <1>5, NothingPublished DEF CoordinatorInv, CompleteScene

LEMMA DisconnectStep ==
  ASSUME CoordinatorInv, NEW l, Disconnect(l)
  PROVE  CoordinatorInv' /\ KeepsArtifacts(head, head')
<1>1. l \in DOMAIN sessions /\ sessions[l] \in Session
  BY SessionFacts DEF CoordinatorInv, Disconnect
<1>2. sessions' = [sessions EXCEPT ![l] = ClearScene(sessions[l])]
  BY DEF Disconnect
<1>3. SessionsOK(sessions', Ledgered)
  BY <1>1, <1>2, ClearSceneKeeps, StaysItself, OneSessionKept DEF CoordinatorInv
<1>4. ProcessesOK'
  BY DEF Disconnect, CoordinatorInv, ProcessesOK
<1> QED BY <1>3, <1>4, NothingPublished DEF CoordinatorInv, Disconnect

LEMMA ProcessEndsStep ==
  ASSUME CoordinatorInv, NEW p \in Process, ProcessEnds(p)
  PROVE  CoordinatorInv' /\ KeepsArtifacts(head, head')
<1>1. SessionsOK(sessions', Ledgered)
  BY DEF ProcessEnds, CoordinatorInv
<1>2. held' \in [Process -> [Player -> 0..MaxTransferId]]
  <2>1. 0 \in 0..MaxTransferId
    BY LedgerAssumption
  <2>2. [q \in Player |-> 0] \in [Player -> 0..MaxTransferId]
    BY <2>1
  <2> QED BY <2>2 DEF ProcessEnds, CoordinatorInv, ProcessesOK
<1>3. ProcessesOK'
  BY <1>2 DEF ProcessEnds, CoordinatorInv, ProcessesOK
<1> QED BY <1>1, <1>3, NothingPublished DEF CoordinatorInv, ProcessEnds

LEMMA FenceStaleStep ==
  ASSUME CoordinatorInv, FenceStaleLocations
  PROVE  CoordinatorInv' /\ KeepsArtifacts(head, head')
<1>1. SessionsOK(sessions', Ledgered)
  BY StaysItself, FencedKept DEF FenceStaleLocations, CoordinatorInv
<1>2. ProcessesOK'
  BY DEF FenceStaleLocations, CoordinatorInv, ProcessesOK
<1> QED BY <1>1, <1>2, NothingPublished DEF CoordinatorInv, FenceStaleLocations

\* Every epoch the coordinator draws is a number.
LEMMA EpochTyped ==
  ASSUME CoordinatorInv  PROVE FreshEpoch \in Nat
<1>1. IsFiniteSet(DOMAIN Ledgered.locations)
  BY GoodParts DEF CoordinatorInv, HeadOK, LedgerOK, Ledgered, FiniteMaps
<1>2. IsFiniteSet(DOMAIN sessions)
  BY <1>1, FS_Subset DEF CoordinatorInv, SessionsOK
<1> QED BY <1>2, FreshEpochNatural DEF CoordinatorInv

LEMMA RestartStep ==
  ASSUME CoordinatorInv, Restart
  PROVE  CoordinatorInv' /\ KeepsArtifacts(head, head')
<1> DEFINE D == {m \in DOMAIN Ledgered.locations : Ledgered.locations[m].active}
<1>0. Ledgered \in Ledger /\ D \in SUBSET Location /\ D \subseteq DOMAIN Ledgered.locations
  BY HeadFields, LedgerFields, PartialFunctionElim DEF CoordinatorInv, Ledgered
<1>1. ASSUME NEW l \in D  PROVE StartLocation(l) \in Session /\ ~StartLocation(l).connected
  <2> DEFINE owners == Residents(Ledgered, l)
             content == OwnsContent(Ledgered, LeaseAt(Ledgered, l))
             s == NewSession(Ledgered, l, owners, content, StartTransfer(l))
  <2>1. StartTransfer(l) \in 0..MaxTransferId
    <3>1. l \in DOMAIN head.maintenance_starts =>
            head.maintenance_starts[l] \in 0..MaxTransferId
      BY HeadFields DEF CoordinatorInv, TransferId
    <3>2. \A x : RecoveryArtifact(head, x) \in 0..MaxTransferId
      BY RecoveryArtifactTyped DEF CoordinatorInv
    <3>3. 0 \in 0..MaxTransferId
      BY LedgerAssumption
    <3> QED BY <3>1, <3>2, <3>3 DEF StartTransfer
  <2>2. owners \in SUBSET Player /\ content \in BOOLEAN
    BY <1>0, ViewTyped DEF OwnsContent
  <2> HIDE DEF owners, content
  <2>3. s \in Session /\ ~s.connected
    BY <1>0, <2>1, <2>2, EpochTyped, NewSessionTyped
  <2>4. CASE Unfinished(l) = {}
    BY <2>3, <2>4 DEF StartLocation, owners, content
  <2>5. CASE Unfinished(l) # {}
    <3>1. Unfinished(l) \in SUBSET Nat /\ Unfinished(l) \subseteq TransferId
      BY HeadFields DEF CoordinatorInv, Unfinished, TransferId
    <3>2. Min(Unfinished(l)) \in 0..MaxTransferId
      BY <2>5, <3>1, MinOfNaturals DEF TransferId
    <3>3. StartLocation(l) = BeginMaintenance(s, Ledgered, l, Min(Unfinished(l)))
      BY <2>5 DEF StartLocation, owners, content
    <3> HIDE DEF s
    <3> QED BY <2>3, <3>2, <3>3, BeginMaintenanceKeeps DEF Keeps
  <2> QED BY <2>4, <2>5
<1>2. sessions' = [l \in D |-> StartLocation(l)]
  BY DEF Restart
<1> HIDE DEF D
<1>3. sessions' \in [D -> Session]
  BY <1>1, <1>2
<1>4. sessions' \in PartialFunction(Location, Session)
  BY <1>0, <1>3, PartialFunctionIntro
<1>5. SessionsOK(sessions', Ledgered)
  BY <1>0, <1>1, <1>2, <1>4 DEF SessionsOK
<1>6. local_processes' \in PartialFunction(Location, LocalProcess)
  <2>1. \A S, T : Empty \in PartialFunction(S, T)
    BY DEF Empty, PartialFunction
  <2> QED BY <2>1 DEF Restart
<1>7. ProcessesOK'
  BY <1>6, CoordinatorAssumption DEF Restart, CoordinatorInv, ProcessesOK
<1> QED BY <1>5, <1>7, NothingPublished DEF CoordinatorInv, Restart

-----------------------------------------------------------------------------
(* Reservations *)

\* A publication that leaves the native transfers alone and settles none of
\* theirs.
LEMMA ReservationPublished ==
  ASSUME HeadOK(head, dead), NEW M, NEW S, Follows(Ledgered, M, S),
         S \cap DOMAIN head.native_transfers = {},
         NEW P \in PartialFunction(TransferId, Preparation),
         NEW K \in PartialFunction(Location, TransferId),
         \/ head' = [head EXCEPT !.locations = M, !.preparations = P]
         \/ head' = [head EXCEPT !.locations = M, !.preparations = P,
                                 !.maintenance_starts = K]
  PROVE  HeadOK(head', dead) /\ Ledgered' = M /\ KeepsArtifacts(head, head')
<1>1. LedgerOK(M) /\ M \in Ledger /\ head \in Universe
  BY GoodParts DEF Follows, LedgerOK, HeadOK
<1>2. /\ head' \in Universe /\ head'.locations = M
      /\ head'.native_transfers = head.native_transfers
  BY <1>1 DEF Universe
<1>3. ASSUME NEW t \in DOMAIN head.native_transfers
      PROVE  /\ OfTransfer(M, t, head.native_transfers[t])
             /\ Sound(head.native_transfers[t], dead) /\ t \in Nat
  <2>1. /\ t \in TransferId /\ t \notin S /\ LedgerOK(Ledgered)
        /\ OfTransfer(Ledgered, t, head.native_transfers[t])
        /\ Sound(head.native_transfers[t], dead)
    BY HeadFields DEF HeadOK, Ledgered
  <2>2. head.native_transfers[t].phase = "source_fenced" => FencedIn(M, t)
    BY <2>1 DEF OfTransfer, Follows
  <2>3. OfTransfer(M, t, head.native_transfers[t])
    BY <2>1, <2>2, OfTransferFollows
  <2> QED BY <2>1, <2>3, LedgerAssumption DEF TransferId
<1>4. HeadOK(head', dead)
  BY <1>1, <1>2, <1>3 DEF HeadOK
<1>5. KeepsArtifacts(head, head')
  <2>1. \A t \in DOMAIN head.native_transfers : t >= t
    BY <1>3
  <2> QED BY <1>2, <2>1 DEF KeepsArtifacts
<1> QED BY <1>2, <1>4, <1>5 DEF Ledgered

LEMMA CurrentPreparationTyped ==
  ASSUME NEW L \in Ledger, AvatarsValid(L), NEW player \in DOMAIN L.avatars,
         NEW destination \in DOMAIN L.locations
  PROVE  CurrentPreparation(L, player, destination) \in Preparation
<1> DEFINE source == L.avatars[player].location
           location == [source |-> source, destination |-> destination]
           lease == [source |-> LeaseAt(L, source), destination |-> LeaseAt(L, destination)]
<1>1. /\ player \in Player /\ source \in DOMAIN L.locations
      /\ L.avatars[player].generation \in Generation
  BY LedgerValues DEF AvatarsValid, AvatarValid, AvatarLease
<1>2. \A l \in DOMAIN L.locations : l \in Location /\ LeaseAt(L, l) \in Lease
  BY LedgerValues DEF LeaseAt, LocationLease, Lease, GlobalLease
<1> HIDE DEF source
<1>3. location \in [Side -> Location] /\ lease \in [Side -> Lease]
  BY <1>1, <1>2 DEF Side
<1> HIDE DEF location, lease
<1>4. CurrentPreparation(L, player, destination) =
        [player |-> player, avatar_generation |-> L.avatars[player].generation,
         location |-> location, lease |-> lease]
  BY DEF CurrentPreparation, location, lease, source
<1> QED BY <1>1, <1>3, <1>4 DEF Preparation

LEMMA PrepareStep ==
  ASSUME CoordinatorInv, NEW id \in TransferId, NEW player \in Player,
         NEW destination \in Location, PrepareTransfer(id, player, destination)
  PROVE  CoordinatorInv' /\ KeepsArtifacts(head, head')
<1> DEFINE p == CurrentPreparation(Ledgered, player, destination)
           L == BeginTransfer(Ledgered, id, player, destination)
           P == Put(head.preparations, id, p)
<1>0. /\ HeadOK(head, dead) /\ LedgerOK(Ledgered) /\ head \in Universe
      /\ head.preparations \in PartialFunction(TransferId, Preparation)
      /\ head.maintenance_starts \in PartialFunction(Location, TransferId)
  BY HeadFields DEF CoordinatorInv, HeadOK, Ledgered
<1>1. /\ CanBeginTransfer(Ledgered, id, player, destination)
      /\ head' = [head EXCEPT !.locations = L, !.preparations = P]
      /\ UNCHANGED <<sessions, local_processes, home, dead, live, held, runs>>
  BY DEF PrepareTransfer, Publish
<1>2. Follows(Ledgered, L, {})
  BY <1>0, <1>1, BeginTransferFollows
<1>3. p \in Preparation
  <2>1. Ledgered \in Ledger /\ AvatarsValid(Ledgered)
    BY <1>0, GoodParts DEF LedgerOK
  <2>2. player \in DOMAIN Ledgered.avatars /\ destination \in DOMAIN Ledgered.locations
    BY <1>1 DEF CanBeginTransfer
  <2> QED BY <2>1, <2>2, CurrentPreparationTyped
<1> HIDE DEF p, L
<1>4. P \in PartialFunction(TransferId, Preparation)
  BY <1>0, <1>3, PutType
<1> HIDE DEF P
<1>5. HeadOK(head', dead) /\ Ledgered' = L /\ KeepsArtifacts(head, head')
  BY <1>0, <1>2, <1>1, <1>4, ReservationPublished
<1>6. SessionsOK(sessions', L)
  BY <1>1, <1>2, SameSessions DEF CoordinatorInv
<1>7. ProcessesOK' /\ dead' = dead
  BY <1>1 DEF CoordinatorInv, ProcessesOK
<1> QED BY <1>5, <1>6, <1>7 DEF CoordinatorInv

LEMMA CancelStep ==
  ASSUME CoordinatorInv, NEW id \in TransferId, CancelTransfer(id)
  PROVE  CoordinatorInv' /\ KeepsArtifacts(head, head')
<1> DEFINE L == AbortTransfer(Ledgered, id, 0)
           P == Without(head.preparations, {id})
<1>0. /\ HeadOK(head, dead) /\ LedgerOK(Ledgered) /\ head \in Universe
      /\ head.preparations \in PartialFunction(TransferId, Preparation)
      /\ head.maintenance_starts \in PartialFunction(Location, TransferId)
  BY HeadFields DEF CoordinatorInv, HeadOK, Ledgered
<1>1. /\ CanAbortTransfer(Ledgered, id, 0) /\ id \notin DOMAIN head.native_transfers
      /\ head' = [head EXCEPT !.locations = L, !.preparations = P]
      /\ UNCHANGED <<sessions, local_processes, home, dead, live, held, runs>>
  BY DEF CancelTransfer, Publish, Ledgered
<1>2. Follows(Ledgered, L, {id})
  <2>1. 0 \in 0..MaxGeneration
    BY LedgerAssumption
  <2> QED BY <1>0, <1>1, <2>1, AbortTransferFollows
<1> HIDE DEF L
<1>3. P \in PartialFunction(TransferId, Preparation)
  BY <1>0, WithoutType
<1> HIDE DEF P
<1>4. {id} \cap DOMAIN head.native_transfers = {}
  BY <1>1
<1>5. HeadOK(head', dead) /\ Ledgered' = L /\ KeepsArtifacts(head, head')
  BY <1>0, <1>2, <1>1, <1>3, <1>4, ReservationPublished
<1>6. SessionsOK(sessions', L)
  BY <1>1, <1>2, SameSessions DEF CoordinatorInv
<1>7. ProcessesOK' /\ dead' = dead
  BY <1>1 DEF CoordinatorInv, ProcessesOK
<1> QED BY <1>5, <1>6, <1>7 DEF CoordinatorInv

LEMMA ReplaceStep ==
  ASSUME CoordinatorInv, NEW l, NEW new \in Replacement, ReplaceDisconnectedLocation(l, new)
  PROVE  CoordinatorInv' /\ KeepsArtifacts(head, head')
<1> DEFINE old == LeaseAt(Ledgered, l)
           cancelled == ReservationsAt(l)
           dropped == DropTransfers(Ledgered, cancelled)
           lost == WorkerLost(dropped, l)
           replaced == ReplaceWorker(lost, l, new.worker, new.generation, Checkpoint)
           L == RebindOwners(replaced, old, new)
           P == Without(head.preparations, cancelled)
           rotated == [sessions[l] EXCEPT !.view = ViewOf(L, l), !.process = Nobody]
<1>0. /\ HeadOK(head, dead) /\ LedgerOK(Ledgered) /\ head \in Universe
      /\ head.preparations \in PartialFunction(TransferId, Preparation)
      /\ head.maintenance_starts \in PartialFunction(Location, TransferId)
  BY HeadFields DEF CoordinatorInv, HeadOK, Ledgered
<1>1. /\ l \in DOMAIN sessions /\ ~sessions[l].connected
      /\ CanDropTransfers(Ledgered, cancelled)
      /\ CanReplaceWorker(lost, l, new.worker, new.generation, Checkpoint)
      /\ head' = [head EXCEPT !.locations = L, !.preparations = P]
      /\ sessions' = [sessions EXCEPT ![l] =
           IF LeaseCurrent(rotated, L, l) THEN rotated ELSE FenceLease(rotated)]
      /\ UNCHANGED <<local_processes, home, dead, live, held, runs>>
  BY DEF ReplaceDisconnectedLocation, Current, Publish
<1>2. l \in Location /\ l \in DOMAIN Ledgered.locations /\ sessions[l] \in Session
  BY <1>1, SessionFacts DEF CoordinatorInv
<1>3. new \in Lease /\ new.worker \in Worker /\ new.generation \in Generation
      /\ Checkpoint \in Revision
  BY CoordinatorAssumption DEF Lease, GlobalLease
<1> HIDE DEF cancelled, old
<1>4. Follows(Ledgered, dropped, {}) /\ dropped.locations = Ledgered.locations
  BY <1>0, <1>1, DropTransfersFollows
<1> HIDE DEF dropped
<1>5. Follows(dropped, lost, {})
  BY <1>2, <1>4, WorkerLostFollows DEF Follows
<1> HIDE DEF lost
<1>6. Follows(lost, replaced, {})
  BY <1>1, <1>2, <1>3, <1>5, ReplaceWorkerFollows DEF Follows
<1> HIDE DEF replaced
<1>7. Follows(replaced, L, {})
  BY <1>3, <1>6, RebindOwnersFollows DEF Follows
<1> HIDE DEF L
<1>8. Follows(Ledgered, L, {})
  <2>1. Follows(Ledgered, lost, {})
    BY <1>0, <1>4, <1>5, FollowsThrough
  <2>2. Follows(Ledgered, replaced, {})
    BY <1>0, <1>6, <2>1, FollowsThrough
  <2> QED BY <1>0, <1>7, <2>2, FollowsThrough
<1>9. P \in PartialFunction(TransferId, Preparation)
  BY <1>0, WithoutType
<1> HIDE DEF P
<1>10. HeadOK(head', dead) /\ Ledgered' = L /\ KeepsArtifacts(head, head')
  <2>1. {} \cap DOMAIN head.native_transfers = {}
    OBVIOUS
  <2> QED BY <1>0, <1>1, <1>8, <1>9, <2>1, ReservationPublished
<1>11. rotated \in Session /\ ~rotated.connected
  <2>1. ViewOf(L, l) \in View
    BY <1>2, <1>8, GoodParts, ViewTyped DEF Follows, LedgerOK
  <2> QED BY <1>1, <1>2, <2>1 DEF Session
<1> HIDE DEF rotated
<1> DEFINE s == IF LeaseCurrent(rotated, L, l) THEN rotated ELSE FenceLease(rotated)
<1>12. s \in Session /\ ~s.connected
  BY <1>11, FenceLeaseKeeps DEF Keeps
<1> HIDE DEF s
<1>13. SessionsOK(sessions, L)
  BY <1>8, SameSessions DEF CoordinatorInv
<1>14. sessions' = Put(sessions, l, s)
  <2>1. sessions' = [sessions EXCEPT ![l] = s]
    BY <1>1 DEF s
  <2>2. sessions \in PartialFunction(Location, Session) /\ l \in DOMAIN sessions
    BY <1>1 DEF CoordinatorInv, SessionsOK
  <2> QED BY <2>1, <2>2 DEF Put, PartialFunction
<1>15. SessionsOK(sessions', L)
  <2>1. l \in DOMAIN L.locations
    BY <1>1, <1>13 DEF SessionsOK
  <2> QED BY <1>2, <1>12, <1>13, <1>14, <2>1, SessionOpened
<1>16. ProcessesOK' /\ dead' = dead
  BY <1>1 DEF CoordinatorInv, ProcessesOK
<1> QED BY <1>10, <1>15, <1>16 DEF CoordinatorInv

LEMMA PrepareMaintenanceStep ==
  ASSUME CoordinatorInv, NEW id \in TransferId, NEW player \in Player, NEW l \in Location,
         NEW new \in Replacement, PrepareTransferMaintenance(id, player, l, new)
  PROVE  CoordinatorInv' /\ KeepsArtifacts(head, head')
<1> DEFINE admitted == ReplaceWorker(Ledgered, l, new.worker, new.generation, Checkpoint)
           L == BeginTransfer(admitted, id, player, l)
           p == CurrentPreparation(admitted, player, l)
           P == Put(head.preparations, id, p)
           K == Put(head.maintenance_starts, l, id)
           s == NewSession(L, l, {}, FALSE, id)
<1>0. /\ HeadOK(head, dead) /\ LedgerOK(Ledgered) /\ head \in Universe
      /\ head.preparations \in PartialFunction(TransferId, Preparation)
      /\ head.maintenance_starts \in PartialFunction(Location, TransferId)
  BY HeadFields DEF CoordinatorInv, HeadOK, Ledgered
<1>1. /\ CanReplaceWorker(Ledgered, l, new.worker, new.generation, Checkpoint)
      /\ CanBeginTransfer(admitted, id, player, l)
      /\ head' = [head EXCEPT !.locations = L, !.preparations = P, !.maintenance_starts = K]
      /\ sessions' = Put(sessions, l, s)
      /\ UNCHANGED <<local_processes, home, dead, live, held, runs>>
  BY DEF PrepareTransferMaintenance, Publish
<1>2. new.worker \in Worker /\ new.generation \in Generation /\ Checkpoint \in Revision
  BY CoordinatorAssumption DEF Lease, GlobalLease
<1>3. Follows(Ledgered, admitted, {})
  BY <1>0, <1>1, <1>2, ReplaceWorkerFollows
<1> HIDE DEF admitted
<1>4. Follows(admitted, L, {})
  BY <1>1, <1>3, BeginTransferFollows DEF Follows
<1>5. Follows(Ledgered, L, {})
  BY <1>0, <1>3, <1>4, FollowsThrough
<1>6. p \in Preparation
  <2>1. admitted \in Ledger /\ AvatarsValid(admitted)
    BY <1>3, GoodParts DEF LedgerOK, Follows
  <2>2. player \in DOMAIN admitted.avatars /\ l \in DOMAIN admitted.locations
    BY <1>1 DEF CanBeginTransfer
  <2> QED BY <2>1, <2>2, CurrentPreparationTyped
<1> HIDE DEF p, L
<1>7. /\ P \in PartialFunction(TransferId, Preparation)
      /\ K \in PartialFunction(Location, TransferId)
  BY <1>0, <1>6, PutType
<1> HIDE DEF P, K
<1>8. HeadOK(head', dead) /\ Ledgered' = L /\ KeepsArtifacts(head, head')
  <2>1. {} \cap DOMAIN head.native_transfers = {}
    OBVIOUS
  <2> QED BY <1>0, <1>1, <1>5, <1>7, <2>1, ReservationPublished
<1>9. L \in Ledger /\ l \in DOMAIN L.locations
  <2>1. l \in DOMAIN Ledgered.locations
    BY <1>1 DEF CanReplaceWorker
  <2> QED BY <1>5, <2>1, GoodParts DEF Follows, LedgerOK
<1>10. s \in Session /\ ~s.connected
  <2>1. {} \in SUBSET Player /\ FALSE \in BOOLEAN /\ id \in 0..MaxTransferId
    BY DEF TransferId
  <2> QED BY <1>9, <2>1, EpochTyped, NewSessionTyped
<1> HIDE DEF s
<1>11. SessionsOK(sessions', L)
  <2>1. SessionsOK(sessions, L)
    BY <1>5, SameSessions DEF CoordinatorInv
  <2> QED BY <1>1, <1>9, <1>10, <2>1, SessionOpened
<1>12. ProcessesOK' /\ dead' = dead
  BY <1>1 DEF CoordinatorInv, ProcessesOK
<1> QED BY <1>8, <1>11, <1>12 DEF CoordinatorInv

-----------------------------------------------------------------------------
(* Steps of a transfer *)

LEMMA RecordFacts ==
  ASSUME CoordinatorInv, NEW id \in DOMAIN head.native_transfers
  PROVE  /\ id \in TransferId /\ Record(id) \in NativeRecord
         /\ OfTransfer(Ledgered, id, Record(id)) /\ Sound(Record(id), dead)
         /\ Record(id).preparation \in Preparation
BY HeadFields DEF CoordinatorInv, HeadOK, Ledgered, Record, NativeRecord

\* A step on record id, on sessions and on processes, in which none ends.
LEMMA TransferStepKeeps ==
  ASSUME CoordinatorInv, NEW id \in DOMAIN head.native_transfers,
         NEW M, Follows(Ledgered, M, {id}), NEW r \in NativeRecord,
         r.preparation = Record(id).preparation,
         r.phase = "source_fenced" => FencedIn(M, id),
         Sound(r, dead), Record(id).artifact => r.artifact,
         PublishRecord(M, id, r),
         SessionsOK(sessions', M), UNCHANGED <<local_processes, home, dead, runs>>,
         live' \subseteq Process \X Player,
         held' \in [Process -> [Player -> 0..MaxTransferId]]
  PROVE  CoordinatorInv' /\ KeepsArtifacts(head, head')
<1>1. HeadOK(head', dead) /\ head'.locations = M /\ KeepsArtifacts(head, head')
  BY RecordPublished DEF CoordinatorInv
<1>2. ProcessesOK'
  BY DEF CoordinatorInv, ProcessesOK
<1> QED BY <1>1, <1>2 DEF CoordinatorInv, Ledgered

LEMMA ReceiptAccepted ==
  ASSUME CoordinatorInv, NEW id \in DOMAIN head.native_transfers, NEW side \in Side,
         NEW M, Follows(Ledgered, M, {id}), NEW r \in NativeRecord,
         r.preparation = Record(id).preparation,
         r.phase = "source_fenced" => FencedIn(M, id),
         Sound(r, dead), Record(id).artifact => r.artifact,
         Record(id).preparation.location[side] \in DOMAIN sessions,
         NEW release, AcceptReceipt(id, side, M, r, release),
         live' \subseteq Process \X Player,
         held' \in [Process -> [Player -> 0..MaxTransferId]]
  PROVE  CoordinatorInv' /\ KeepsArtifacts(head, head')
<1> DEFINE q == [r EXCEPT !.received = TRUE]
           l == r.preparation.location[side]
           s == Rebound(sessions[l], M, l, id, release)
<1>1. /\ PublishRecord(M, id, q) /\ sessions' = [sessions EXCEPT ![l] = s]
      /\ UNCHANGED <<local_processes, home, dead, runs>>
  BY DEF AcceptReceipt
<1>2. q \in NativeRecord /\ q.preparation = r.preparation /\ q.phase = r.phase
      /\ q.artifact = r.artifact
  BY DEF NativeRecord
<1>3. Sound(q, dead)
  BY DEF Sound, NativeRecord
<1> HIDE DEF q
<1>4. Keeps(sessions[l], s)
  <2>1. sessions[l] \in Session /\ M \in Ledger
    BY SessionFacts, GoodParts DEF CoordinatorInv, Follows, LedgerOK
  <2> QED BY <2>1, ReboundKeeps
<1> HIDE DEF s
<1>5. SessionsOK(sessions', M)
  BY <1>1, <1>4, OneSessionKept DEF CoordinatorInv
<1> HIDE DEF l
<1> QED BY <1>1, <1>2, <1>3, <1>5, TransferStepKeeps

LEMMA ReporterFacts ==
  ASSUME CoordinatorInv, NEW id \in DOMAIN head.native_transfers, NEW op \in TransferOp,
         NEW side, side = TargetOf(op), ReceiptAdmitted(id, op)
  PROVE  /\ side \in Side
         /\ Record(id).preparation.location[side] \in DOMAIN sessions
         /\ Reporter(id, side) \in Process
         /\ Record(id).process[side] = Reporter(id, side)
         /\ Record(id).preparation.player \in Player
<1> DEFINE l == Record(id).preparation.location[side]
<1>1. /\ l \in DOMAIN sessions /\ sessions[l].connected
      /\ Record(id).process[side] = sessions[l].process
  BY DEF ReceiptAdmitted, AuthorityControlReady, Current
<1>2. side \in Side
  BY DEF TargetOf, Side
<1>3. sessions[l].process \in Process
  BY <1>1, SessionFacts DEF CoordinatorInv
<1>4. Record(id).preparation.player \in Player
  BY RecordFacts DEF Preparation
<1> QED BY <1>1, <1>2, <1>3, <1>4 DEF Reporter

\* A copy that is held or stopped leaves the tables of the copies typed.
LEMMA CopiesTyped ==
  ASSUME ProcessesOK, NEW process \in Process, NEW player \in Player,
         NEW id \in TransferId,
         Holds(process, player, id) \/ Stops(process, player) \/ UNCHANGED <<live, held>>
  PROVE  /\ live' \subseteq Process \X Player
         /\ held' \in [Process -> [Player -> 0..MaxTransferId]]
<1>1. id \in 0..MaxTransferId
  BY DEF TransferId
<1>2. CASE Holds(process, player, id)
  <2>1. held[process] \in [Player -> 0..MaxTransferId]
    BY DEF ProcessesOK
  <2>2. [held[process] EXCEPT ![player] = id] \in [Player -> 0..MaxTransferId]
    BY <1>1, <2>1
  <2> QED BY <1>2, <2>2 DEF Holds, ProcessesOK
<1>3. CASE Stops(process, player) \/ UNCHANGED <<live, held>>
  BY <1>3 DEF Stops, ProcessesOK
<1> QED BY <1>2, <1>3

LEMMA SourceFencedStep ==
  ASSUME CoordinatorInv, NEW id \in DOMAIN head.native_transfers, SourceFenced(id)
  PROVE  CoordinatorInv' /\ KeepsArtifacts(head, head')
<1> DEFINE r == Record(id)
           M == FenceSource(Ledgered, id)
           receipt == [process |-> Reporter(id, "source"), scope |-> r.command.scope]
           q == [r EXCEPT !.phase = "source_fenced",
                          !.avatar_generation = r.preparation.avatar_generation + 1,
                          !.source_receipt = receipt]
<1>0. /\ id \in TransferId /\ r \in NativeRecord /\ Sound(r, dead)
      /\ r.preparation \in Preparation /\ r.command \in Command
      /\ LedgerOK(Ledgered)
  BY RecordFacts DEF NativeRecord, CoordinatorInv, HeadOK, Ledgered
<1>1. /\ r.phase = "fence_requested" /\ ReceiptAdmitted(id, "source_fence")
      /\ CanFenceSource(Ledgered, id, r.preparation.avatar_generation)
      /\ AcceptReceipt(id, "source", M, q, FALSE)
      /\ Holds(Reporter(id, "source"), r.preparation.player, id)
  BY DEF SourceFenced
<1>2. /\ "source" \in Side /\ r.preparation.location["source"] \in DOMAIN sessions
      /\ Reporter(id, "source") \in Process
      /\ r.process["source"] = Reporter(id, "source")
      /\ r.preparation.player \in Player
  <2>1. "source" = TargetOf("source_fence") /\ "source_fence" \in TransferOp
    BY DEF TargetOf, TransferOp
  <2> QED BY <1>1, <2>1, ReporterFacts
<1>3. Follows(Ledgered, M, {id}) /\ FencedIn(M, id)
  BY <1>0, <1>1, FenceSourceFollows, FollowsMore
<1>4. r.preparation.avatar_generation + 1 \in Generation
      /\ r.preparation.avatar_generation + 2 <= MaxGeneration
  <2>1. r.preparation.avatar_generation \in 1..MaxGeneration
    BY <1>0 DEF Preparation, Generation
  <2>2. r.preparation.avatar_generation < MaxGeneration - 1
    BY <1>1 DEF CanFenceSource
  <2> QED BY <2>1, <2>2, LedgerAssumption DEF Generation
<1>5. receipt \in SourceReceipt /\ receipt # None
      /\ receipt.process = r.process["source"]
  BY <1>0, <1>2 DEF SourceReceipt, Command, None
<1> HIDE DEF M, receipt
<1>6. /\ q \in NativeRecord /\ q.preparation = r.preparation /\ q.phase = "source_fenced"
      /\ q.artifact = r.artifact /\ q.ownership_committed = r.ownership_committed
      /\ q.source_receipt = receipt /\ q.process = r.process
      /\ q.source_retired = r.source_retired
  BY <1>0, <1>4, <1>5 DEF NativeRecord, NativePhase
<1> HIDE DEF q
<1>7. Sound(q, dead)
  BY <1>0, <1>1, <1>4, <1>5, <1>6 DEF Sound, Unsettled, CommittedPhase
<1>8. /\ live' \subseteq Process \X Player
      /\ held' \in [Process -> [Player -> 0..MaxTransferId]]
  BY <1>0, <1>1, <1>2, CopiesTyped DEF CoordinatorInv
<1> HIDE DEF r
<1> QED BY <1>1, <1>2, <1>3, <1>6, <1>7, <1>8, ReceiptAccepted DEF r

\* A record past the fence stays sound while it keeps what it says of its source.
LEMMA SoundLater ==
  ASSUME NEW r \in NativeRecord, NEW gone, Sound(r, gone), r.phase \notin Unsettled,
         NEW q, q.phase \notin Unsettled, q.preparation = r.preparation,
         q.source_receipt = r.source_receipt,
         r.process["source"] # Nobody => q.process["source"] = r.process["source"],
         q.ownership_committed = r.ownership_committed,
         r.source_retired => q.source_retired,
         q.phase \in CommittedPhase => q.ownership_committed
  PROVE  Sound(q, gone)
<1>1. r.source_receipt # None => r.source_receipt.process # Nobody
  BY CoordinatorAssumption DEF NativeRecord, SourceReceipt
<1>2. r.source_receipt # None =>
        q.process["source"] = r.source_receipt.process \/ r.source_receipt.process \in gone
  BY <1>1 DEF Sound
<1>3. r.ownership_committed /\ ~q.source_retired => q.process["source"] # Nobody
  BY DEF Sound
<1> QED BY <1>2, <1>3 DEF Sound, Unsettled

LEMMA PastFence ==
  ASSUME NEW r, NEW gone, Sound(r, gone), r.phase \notin Unsettled
  PROVE  r.source_receipt # None /\ r.preparation.avatar_generation + 2 <= MaxGeneration
BY DEF Sound, Unsettled

LEMMA LaterReceipt ==
  ASSUME CoordinatorInv, NEW id \in DOMAIN head.native_transfers, NEW op \in TransferOp,
         NEW side, side = TargetOf(op), ReceiptAdmitted(id, op),
         NEW M, Follows(Ledgered, M, {}), NEW q \in NativeRecord,
         q.preparation = Record(id).preparation,
         Record(id).phase \notin Unsettled, q.phase \notin Unsettled,
         q.source_receipt = Record(id).source_receipt, q.process = Record(id).process,
         q.ownership_committed = Record(id).ownership_committed,
         Record(id).source_retired => q.source_retired,
         q.phase \in CommittedPhase => q.ownership_committed,
         q.artifact = Record(id).artifact,
         NEW release, AcceptReceipt(id, side, M, q, release),
         \/ Holds(Reporter(id, side), Record(id).preparation.player, id)
         \/ Stops(Reporter(id, side), Record(id).preparation.player)
         \/ UNCHANGED <<live, held>>
  PROVE  CoordinatorInv' /\ KeepsArtifacts(head, head')
<1>1. /\ side \in Side /\ Record(id).preparation.location[side] \in DOMAIN sessions
      /\ Reporter(id, side) \in Process /\ Record(id).preparation.player \in Player
  BY ReporterFacts
<1>2. Sound(q, dead)
  BY RecordFacts, SoundLater
<1>3. q.phase # "source_fenced"
  BY DEF Unsettled
<1>4. /\ live' \subseteq Process \X Player
      /\ held' \in [Process -> [Player -> 0..MaxTransferId]]
  BY <1>1, RecordFacts, CopiesTyped DEF CoordinatorInv
<1>5. Follows(Ledgered, M, {id})
  BY FollowsMore
<1> QED BY <1>1, <1>2, <1>3, <1>4, <1>5, ReceiptAccepted

LEMMA DestinationRestoredStep ==
  ASSUME CoordinatorInv, NEW id \in DOMAIN head.native_transfers,
         DestinationRestoredReceipt(id)
  PROVE  CoordinatorInv' /\ KeepsArtifacts(head, head')
<1> DEFINE r == Record(id)
           lease == r.lease["destination"]
           receipt == [process |-> Reporter(id, "destination"), lease |-> lease,
                       scope |-> r.command.scope,
                       avatar_generation |-> r.avatar_generation]
           q == [r EXCEPT
                  !.phase = IF r.ownership_committed THEN "committed"
                            ELSE "destination_restored",
                  !.destination_receipt = receipt]
           restored == DestinationRestored(Ledgered, id, lease.generation)
           regained == RecoverCommittedDestination(Ledgered, id, lease.generation)
<1>0. /\ id \in TransferId /\ r \in NativeRecord /\ r.command \in Command
      /\ lease \in Lease /\ r.avatar_generation \in Generation
      /\ LedgerOK(Ledgered)
  BY RecordFacts DEF NativeRecord, CoordinatorInv, HeadOK, Ledgered, Side
<1>1. /\ r.phase = "restore_requested" /\ ReceiptAdmitted(id, "destination_restore")
      /\ Holds(Reporter(id, "destination"), r.preparation.player, id)
  BY DEF DestinationRestoredReceipt
<1>2. PICK M : /\ AcceptReceipt(id, "destination", M, q, FALSE)
               /\ Follows(Ledgered, M, {})
  <2>1. lease.worker \in Worker /\ lease.generation \in Generation
    BY <1>0 DEF Lease, GlobalLease
  <2>2. CASE /\ CanDestinationRestored(Ledgered, id, lease.worker, lease.generation)
             /\ AcceptReceipt(id, "destination", restored, q, FALSE)
    <3>1. Follows(Ledgered, restored, {})
      BY <1>0, <2>1, <2>2, DestinationRestoredFollows
    <3> HIDE DEF restored, regained, q, lease
    <3> QED BY <2>2, <3>1
  <2>3. CASE /\ CanRecoverCommittedDestination(Ledgered, id, lease.worker, lease.generation)
             /\ AcceptReceipt(id, "destination", regained, q, FALSE)
    <3>1. Follows(Ledgered, regained, {})
      BY <1>0, <2>1, <2>3, RecoverCommittedDestinationFollows
    <3> HIDE DEF restored, regained, q, lease
    <3> QED BY <2>3, <3>1
  <2>4. CASE AcceptReceipt(id, "destination", Ledgered, q, FALSE)
    <3>1. Follows(Ledgered, Ledgered, {})
      BY StaysItself
    <3> HIDE DEF restored, regained, q, lease
    <3> QED BY <2>4, <3>1
  <2> QED BY <2>2, <2>3, <2>4 DEF DestinationRestoredReceipt
<1>3. "destination" = TargetOf("destination_restore") /\ "destination_restore" \in TransferOp
  BY DEF TargetOf, TransferOp
<1>4. receipt \in DestinationReceipt
  <2>1. Reporter(id, "destination") \in Process
    BY <1>1, <1>3, ReporterFacts
  <2> QED BY <1>0, <2>1 DEF DestinationReceipt, Command
<1> HIDE DEF receipt
<1>5. /\ q \in NativeRecord /\ q.preparation = r.preparation
      /\ q.phase = IF r.ownership_committed THEN "committed" ELSE "destination_restored"
      /\ q.source_receipt = r.source_receipt /\ q.process = r.process
      /\ q.ownership_committed = r.ownership_committed
      /\ q.source_retired = r.source_retired /\ q.artifact = r.artifact
  BY <1>0, <1>4 DEF NativeRecord, NativePhase
<1> HIDE DEF q
<1>6. /\ r.phase \notin Unsettled /\ q.phase \notin Unsettled
      /\ q.phase \in CommittedPhase => q.ownership_committed
  BY <1>1, <1>5 DEF Unsettled, CommittedPhase
<1> HIDE DEF r
<1> QED BY <1>1, <1>2, <1>3, <1>5, <1>6, LaterReceipt DEF r

LEMMA DestinationDiscardedStep ==
  ASSUME CoordinatorInv, NEW id \in DOMAIN head.native_transfers, DestinationDiscarded(id)
  PROVE  CoordinatorInv' /\ KeepsArtifacts(head, head')
<1> DEFINE r == Record(id)
           q == [r EXCEPT !.phase = "destination_discarded"]
<1>1. /\ r.phase = "discard_requested" /\ ReceiptAdmitted(id, "destination_discard")
      /\ AcceptReceipt(id, "destination", Ledgered, q, TRUE)
      /\ Stops(Reporter(id, "destination"), r.preparation.player)
  BY DEF DestinationDiscarded
<1>2. "destination" = TargetOf("destination_discard") /\ "destination_discard" \in TransferOp
  BY DEF TargetOf, TransferOp
<1>3. r \in NativeRecord /\ Sound(r, dead)
  BY RecordFacts
<1>4. /\ q \in NativeRecord /\ q.preparation = r.preparation /\ q.phase = "destination_discarded"
      /\ q.source_receipt = r.source_receipt /\ q.process = r.process
      /\ q.ownership_committed = r.ownership_committed
      /\ q.source_retired = r.source_retired /\ q.artifact = r.artifact
  BY <1>3 DEF NativeRecord, NativePhase
<1> HIDE DEF q
<1>5. /\ r.phase \notin Unsettled /\ q.phase \notin Unsettled
      /\ q.phase \in CommittedPhase => q.ownership_committed
  BY <1>1, <1>3, <1>4 DEF Unsettled, CommittedPhase, Sound
<1> HIDE DEF r
<1> QED BY <1>1, <1>2, <1>4, <1>5, StaysItself, LaterReceipt DEF r

LEMMA SourceRestoredStep ==
  ASSUME CoordinatorInv, NEW id \in DOMAIN head.native_transfers, SourceRestored(id)
  PROVE  CoordinatorInv' /\ KeepsArtifacts(head, head')
<1> DEFINE r == Record(id)
           q == [r EXCEPT !.phase = "source_restored"]
<1>1. /\ r.phase = "rollback_requested" /\ ReceiptAdmitted(id, "source_restore")
      /\ AcceptReceipt(id, "source", Ledgered, q, FALSE)
      /\ Holds(Reporter(id, "source"), r.preparation.player, id)
  BY DEF SourceRestored
<1>2. "source" = TargetOf("source_restore") /\ "source_restore" \in TransferOp
  BY DEF TargetOf, TransferOp
<1>3. r \in NativeRecord /\ Sound(r, dead)
  BY RecordFacts
<1>4. /\ q \in NativeRecord /\ q.preparation = r.preparation /\ q.phase = "source_restored"
      /\ q.source_receipt = r.source_receipt /\ q.process = r.process
      /\ q.ownership_committed = r.ownership_committed
      /\ q.source_retired = r.source_retired /\ q.artifact = r.artifact
  BY <1>3 DEF NativeRecord, NativePhase
<1> HIDE DEF q
<1>5. /\ r.phase \notin Unsettled /\ q.phase \notin Unsettled
      /\ q.phase \in CommittedPhase => q.ownership_committed
  BY <1>1, <1>3, <1>4 DEF Unsettled, CommittedPhase, Sound
<1> HIDE DEF r
<1> QED BY <1>1, <1>2, <1>4, <1>5, StaysItself, LaterReceipt DEF r

LEMMA SourceActivatedStep ==
  ASSUME CoordinatorInv, NEW id \in DOMAIN head.native_transfers, SourceActivated(id)
  PROVE  CoordinatorInv' /\ KeepsArtifacts(head, head')
<1> DEFINE r == Record(id)
           q == [r EXCEPT !.phase = "aborted"]
<1>1. /\ r.phase = "source_activate_requested" /\ ReceiptAdmitted(id, "source_activate")
      /\ AcceptReceipt(id, "source", Ledgered, q, TRUE)
      /\ UNCHANGED <<live, held>>
  BY DEF SourceActivated
<1>2. "source" = TargetOf("source_activate") /\ "source_activate" \in TransferOp
  BY DEF TargetOf, TransferOp
<1>3. r \in NativeRecord /\ Sound(r, dead)
  BY RecordFacts
<1>4. /\ q \in NativeRecord /\ q.preparation = r.preparation /\ q.phase = "aborted"
      /\ q.source_receipt = r.source_receipt /\ q.process = r.process
      /\ q.ownership_committed = r.ownership_committed
      /\ q.source_retired = r.source_retired /\ q.artifact = r.artifact
  BY <1>3 DEF NativeRecord, NativePhase
<1> HIDE DEF q
<1>5. /\ r.phase \notin Unsettled /\ q.phase \notin Unsettled
      /\ q.phase \in CommittedPhase => q.ownership_committed
  BY <1>1, <1>3, <1>4 DEF Unsettled, CommittedPhase, Sound
<1> HIDE DEF r
<1> QED BY <1>1, <1>2, <1>4, <1>5, StaysItself, LaterReceipt DEF r

LEMMA DestinationActivatedStep ==
  ASSUME CoordinatorInv, NEW id \in DOMAIN head.native_transfers, DestinationActivated(id)
  PROVE  CoordinatorInv' /\ KeepsArtifacts(head, head')
<1> DEFINE r == Record(id)
           q == [r EXCEPT !.phase = "destination_active"]
<1>1. /\ r.phase = "activate_requested" /\ ReceiptAdmitted(id, "destination_activate")
      /\ AcceptReceipt(id, "destination", Ledgered, q, TRUE)
      /\ UNCHANGED <<live, held>>
  BY DEF DestinationActivated
<1>2. "destination" = TargetOf("destination_activate") /\ "destination_activate" \in TransferOp
  BY DEF TargetOf, TransferOp
<1>3. r \in NativeRecord /\ Sound(r, dead)
  BY RecordFacts
<1>4. /\ q \in NativeRecord /\ q.preparation = r.preparation /\ q.phase = "destination_active"
      /\ q.source_receipt = r.source_receipt /\ q.process = r.process
      /\ q.ownership_committed = r.ownership_committed
      /\ q.source_retired = r.source_retired /\ q.artifact = r.artifact
  BY <1>3 DEF NativeRecord, NativePhase
<1> HIDE DEF q
<1>5. /\ r.phase \notin Unsettled /\ q.phase \notin Unsettled
      /\ q.phase \in CommittedPhase => q.ownership_committed
  BY <1>1, <1>3, <1>4 DEF Unsettled, CommittedPhase, Sound
<1> HIDE DEF r
<1> QED BY <1>1, <1>2, <1>4, <1>5, StaysItself, LaterReceipt DEF r

LEMMA SourceCleanedStep ==
  ASSUME CoordinatorInv, NEW id \in DOMAIN head.native_transfers, SourceCleaned(id)
  PROVE  CoordinatorInv' /\ KeepsArtifacts(head, head')
<1> DEFINE r == Record(id)
           receipt == [process |-> Reporter(id, "source"), lease |-> r.lease["source"],
                       baselined |-> sessions[r.preparation.location["source"]].complete]
           q == [r EXCEPT !.phase = "source_cleaned", !.source_retired = TRUE,
                          !.cleanup_receipt = receipt]
<1>1. /\ r.phase = "cleanup_requested" /\ ReceiptAdmitted(id, "source_cleanup")
      /\ AcceptReceipt(id, "source", Ledgered, q, TRUE)
      /\ Stops(Reporter(id, "source"), r.preparation.player)
  BY DEF SourceCleaned
<1>2. "source" = TargetOf("source_cleanup") /\ "source_cleanup" \in TransferOp
  BY DEF TargetOf, TransferOp
<1>3. r \in NativeRecord /\ Sound(r, dead) /\ r.lease["source"] \in Lease
  BY RecordFacts DEF NativeRecord, Side
<1>4. receipt \in CleanupReceipt
  <2>1. Reporter(id, "source") \in Process
    BY <1>1, <1>2, ReporterFacts
  <2>2. sessions[r.preparation.location["source"]] \in Session
    BY <1>1, <1>2, SessionFacts DEF CoordinatorInv, ReceiptAdmitted, AuthorityControlReady, Current
  <2> QED BY <1>3, <2>1, <2>2 DEF CleanupReceipt, Session
<1> HIDE DEF receipt
<1>5. /\ q \in NativeRecord /\ q.preparation = r.preparation /\ q.phase = "source_cleaned"
      /\ q.source_receipt = r.source_receipt /\ q.process = r.process
      /\ q.ownership_committed = r.ownership_committed
      /\ q.source_retired /\ q.artifact = r.artifact
  BY <1>3, <1>4 DEF NativeRecord, NativePhase
<1> HIDE DEF q
<1>6. /\ r.phase \notin Unsettled /\ q.phase \notin Unsettled
      /\ q.phase \in CommittedPhase => q.ownership_committed
  BY <1>1, <1>3, <1>5 DEF Unsettled, CommittedPhase, Sound
<1> HIDE DEF r
<1> QED BY <1>1, <1>2, <1>5, <1>6, StaysItself, LaterReceipt DEF r

LEMMA BeginNativeStep ==
  ASSUME CoordinatorInv, NEW id \in DOMAIN head.preparations, NEW slot \in {1, 2},
         BeginNativeTransfer(id, slot)
  PROVE  CoordinatorInv' /\ KeepsArtifacts(head, head')
<1> DEFINE p == head.preparations[id]
           source == p.location["source"]
           destination == p.location["destination"]
           r == NewRecord(p, slot)
           Q == Put(Restrict(head.native_transfers, Kept), id, r)
           s == BeginMaintenance(sessions[source], Ledgered, source, id)
           process == [side \in Side |-> local_processes[p.location[side]].process]
           exit == [side \in Side |-> None]
           command == [op |-> "source_fence", scope |-> ScopeOf(sessions[source])]
<1>0. /\ id \in TransferId /\ p \in Preparation /\ LedgerOK(Ledgered)
      /\ head.native_transfers \in PartialFunction(TransferId, NativeRecord)
      /\ head.preparations \in PartialFunction(TransferId, Preparation)
      /\ head.maintenance_starts \in PartialFunction(Location, TransferId)
  BY HeadFields DEF CoordinatorInv, HeadOK, Ledgered
<1>1. /\ id \notin DOMAIN head.native_transfers
      /\ PreparationRecord(id, p, Ledgered)
      /\ source \in DOMAIN sessions
      /\ {source, destination} \subseteq DOMAIN local_processes
      /\ PublishNative(Ledgered, Q, head.preparations, head.maintenance_starts)
      /\ sessions' = [sessions EXCEPT ![source] = s]
      /\ UNCHANGED <<local_processes, home, dead, live, held, runs>>
  BY DEF BeginNativeTransfer, AuthorityReady, Current
<1>2. process \in [Side -> Process \cup {Nobody}]
  BY <1>1, LocalFacts DEF CoordinatorInv, Side
<1>3. exit \in [Side -> Exit \cup {None}]
  OBVIOUS
<1>4. sessions[source] \in Session
  BY <1>1, SessionFacts DEF CoordinatorInv
<1>5. command \in Command
  BY <1>4 DEF Command, TransferOp, Scope, ScopeOf, Session
<1>6. r = [preparation |-> p, phase |-> "fence_requested", slot |-> slot, lease |-> p.lease,
           process |-> process, exit |-> exit, command |-> command,
           received |-> FALSE, source_receipt |-> None, destination_receipt |-> None,
           cleanup_receipt |-> None, artifact |-> FALSE,
           avatar_generation |-> p.avatar_generation, ownership_committed |-> FALSE,
           source_rollback_committed |-> FALSE, completed_once |-> FALSE,
           source_retired |-> FALSE]
  BY DEF NewRecord
<1>7. p.lease \in [Side -> Lease] /\ p.avatar_generation \in Generation
  BY <1>0 DEF Preparation
<1> HIDE DEF process, exit, command, p
<1>8. r \in NativeRecord
  BY <1>0, <1>2, <1>3, <1>5, <1>6, <1>7 DEF NativeRecord, NativePhase
<1>9. /\ r.preparation = p /\ r.phase = "fence_requested" /\ r.source_receipt = None
      /\ ~r.artifact /\ ~r.ownership_committed
  BY <1>6
<1> HIDE DEF r
<1>10. Sound(r, dead)
  BY <1>9 DEF Sound, Unsettled, CommittedPhase
<1>11. OfTransfer(Ledgered, id, r)
  <2>1. /\ p.player \in DOMAIN Ledgered.avatars
        /\ id \in DOMAIN Ledgered.transfers
        /\ Ledgered.transfers[id].player = p.player
    BY <1>1 DEF PreparationRecord, PreparationIdentity
  <2>2. id <= Ledgered.high_transfer_id
    BY <1>0, <2>1, GoodParts DEF LedgerOK, TransfersValid, TransferValid
  <2>3. \A u \in DOMAIN Ledgered.transfers \ {id} : Ledgered.transfers[u].player # p.player
    BY <1>0, <2>1, OtherPlayers DEF LedgerOK
  <2> QED BY <1>9, <2>1, <2>2, <2>3 DEF OfTransfer
<1>12. Kept \subseteq DOMAIN head.native_transfers
  BY DEF Kept
<1>13. Restrict(head.native_transfers, Kept)
         = Without(head.native_transfers, DOMAIN head.native_transfers \ Kept)
  BY <1>12 DEF Without, Restrict
<1>14. Q \in PartialFunction(TransferId, NativeRecord)
  <2>1. Restrict(head.native_transfers, Kept) \in PartialFunction(TransferId, NativeRecord)
    BY <1>0, <1>13, WithoutType
  <2> QED BY <1>0, <1>8, <2>1, PutType
<1>15. /\ DOMAIN Q = Kept \cup {id} /\ Q[id] = r
       /\ \A t \in Kept : t # id => Q[t] = Record(t)
  BY <1>12 DEF Put, Restrict, Record
<1> HIDE DEF Q
<1>16. HeadOK(head', dead) /\ head'.locations = Ledgered /\ head'.native_transfers = Q
  <2>1. \A t \in DOMAIN Q : t # id =>
          t \in DOMAIN head.native_transfers /\ Q[t] = Record(t) /\ t \notin {}
    BY <1>12, <1>15
  <2>2. HeadOK(head, dead) /\ OfTransfer(Ledgered, id, Q[id]) /\ Sound(Q[id], dead)
    BY <1>10, <1>11, <1>15 DEF CoordinatorInv
  <2> QED BY <1>0, <1>1, <1>14, <2>1, <2>2, StaysItself, RecordsPublished
<1>17. KeepsArtifacts(head, head')
  <2> SUFFICES ASSUME NEW t \in DOMAIN head.native_transfers, Record(t).artifact
               PROVE  t \in DOMAIN Q /\ t >= t /\ Q[t] = Record(t)
    BY <1>16 DEF KeepsArtifacts, Record
  <2>1. Sound(Record(t), dead) /\ t \in TransferId
    BY RecordFacts
  <2>2. t \in Kept /\ t # id
    BY <1>1, <2>1 DEF Kept, Sound, Unsettled
  <2>3. t >= t
    BY <2>1 DEF TransferId
  <2> QED BY <1>15, <2>2, <2>3
<1>18. Keeps(sessions[source], s)
  <2>1. id \in 0..MaxTransferId
    BY <1>0 DEF TransferId
  <2> QED BY <1>4, <2>1, BeginMaintenanceKeeps
<1> HIDE DEF s, source
<1>19. SessionsOK(sessions', Ledgered)
  BY <1>1, <1>18, StaysItself, OneSessionKept DEF CoordinatorInv
<1>20. ProcessesOK' /\ dead' = dead
  BY <1>1 DEF CoordinatorInv, ProcessesOK
<1> QED BY <1>16, <1>17, <1>19, <1>20 DEF CoordinatorInv, Ledgered

LEMMA BindStep ==
  ASSUME CoordinatorInv, NEW id \in DOMAIN head.native_transfers,
         BindNativeTransferArtifact(id)
  PROVE  CoordinatorInv' /\ KeepsArtifacts(head, head')
<1> DEFINE r == Record(id)
           q == [r EXCEPT !.artifact = TRUE, !.phase = "artifact_bound"]
           Q == Put(Without(head.native_transfers, Superseded(id)), id, q)
<1>0. /\ HeadOK(head, dead) /\ LedgerOK(Ledgered)
      /\ head.native_transfers \in PartialFunction(TransferId, NativeRecord)
      /\ head.preparations \in PartialFunction(TransferId, Preparation)
      /\ head.maintenance_starts \in PartialFunction(Location, TransferId)
  BY HeadFields DEF CoordinatorInv, HeadOK, Ledgered
<1>1. /\ r.phase = "source_fenced"
      /\ PublishNative(Ledgered, Q, head.preparations, head.maintenance_starts)
      /\ UNCHANGED <<sessions, local_processes, home, dead, live, held, runs>>
  BY DEF BindNativeTransferArtifact
<1>2. /\ id \in TransferId /\ r \in NativeRecord /\ Sound(r, dead)
      /\ OfTransfer(Ledgered, id, r)
  BY RecordFacts
<1>3. /\ q \in NativeRecord /\ q.preparation = r.preparation /\ q.phase = "artifact_bound"
      /\ q.source_receipt = r.source_receipt /\ q.process = r.process
      /\ q.ownership_committed = r.ownership_committed
      /\ q.source_retired = r.source_retired /\ q.artifact
  BY <1>2 DEF NativeRecord, NativePhase
<1> HIDE DEF q
<1>4. Sound(q, dead)
  BY <1>1, <1>2, <1>3 DEF Sound, Unsettled, CommittedPhase
<1>5. OfTransfer(Ledgered, id, q)
  BY <1>2, <1>3 DEF OfTransfer
<1>6. Q \in PartialFunction(TransferId, NativeRecord)
  BY <1>0, <1>2, <1>3, WithoutType, PutType
<1>7. /\ id \in DOMAIN Q /\ Q[id] = q
      /\ DOMAIN Q = (DOMAIN head.native_transfers \ Superseded(id)) \cup {id}
      /\ \A t \in DOMAIN Q : t # id => Q[t] = Record(t)
  BY DEF Put, Without, Restrict, Record
<1> HIDE DEF Q
<1>8. HeadOK(head', dead) /\ head'.locations = Ledgered /\ head'.native_transfers = Q
  <2>1. \A t \in DOMAIN Q : t # id =>
          t \in DOMAIN head.native_transfers /\ Q[t] = Record(t) /\ t \notin {}
    BY <1>7
  <2> QED BY <1>0, <1>1, <1>4, <1>5, <1>6, <1>7, <2>1, StaysItself, RecordsPublished
<1>9. KeepsArtifacts(head, head')
  <2> SUFFICES ASSUME NEW t \in DOMAIN head.native_transfers, Record(t).artifact
               PROVE  \E u \in DOMAIN Q : /\ u >= t /\ Q[u].artifact
                        /\ Q[u].preparation.player = Record(t).preparation.player
    BY <1>8 DEF KeepsArtifacts, Record
  <2>1. t \in Nat /\ id \in Nat /\ OfTransfer(Ledgered, t, Record(t))
    BY <1>2, RecordFacts, LedgerAssumption DEF TransferId
  <2>2. CASE t \in Superseded(id)
    <3>1. t # id /\ Record(t).preparation.player = r.preparation.player
      BY <2>2 DEF Superseded
    <3>2. id \in DOMAIN Ledgered.transfers
          /\ Ledgered.transfers[id].player = r.preparation.player
      BY <1>1, <1>2 DEF OfTransfer, FencedIn, InPhase
    <3>3. id > t
      BY <2>1, <3>1, <3>2 DEF OfTransfer
    <3> QED BY <1>3, <1>7, <2>1, <3>1, <3>3
  <2>3. CASE t \notin Superseded(id) /\ t # id
    BY <1>7, <2>1, <2>3
  <2>4. CASE t = id
    BY <1>3, <1>7, <2>1, <2>4
  <2> QED BY <2>2, <2>3, <2>4
<1>10. ProcessesOK' /\ dead' = dead /\ SessionsOK(sessions', Ledgered)
  BY <1>1 DEF CoordinatorInv, ProcessesOK
<1> QED BY <1>8, <1>9, <1>10 DEF CoordinatorInv, Ledgered

LEMMA RequestStep ==
  ASSUME CoordinatorInv, NEW id \in DOMAIN head.native_transfers, NEW op \in TransferOp,
         RequestNativeTransfer(id, op)
  PROVE  CoordinatorInv' /\ KeepsArtifacts(head, head')
<1> DEFINE r == Record(id)
           side == TargetOf(op)
           l == r.preparation.location[side]
           rollback == op = "source_activate" /\ ~r.source_rollback_committed
           generation == r.preparation.avatar_generation + 2
           M == IF rollback THEN AbortTransfer(Ledgered, id, generation) ELSE Ledgered
           rebound == IF op = "source_activate" THEN Rebound(sessions[l], M, l, id, FALSE)
                      ELSE sessions[l]
           begun == BeginMaintenance(rebound, M, l, id)
           pinned == [r.process EXCEPT ![side] = local_processes[l].process]
           command == [op |-> op, scope |-> ScopeOf(sessions[l])]
           g == IF rollback THEN generation ELSE r.avatar_generation
           q(next) == [r EXCEPT !.phase = next, !.received = FALSE, !.process = pinned,
                                !.command = command, !.avatar_generation = g,
                                !.source_rollback_committed =
                                  r.source_rollback_committed \/ rollback]
<1>1. PICK next \in NativePhase :
        /\ RequestPhase(r, op, next)
        /\ CommandTargetReady(l, id, r.process[side])
        /\ rollback => CanAbortTransfer(Ledgered, id, generation)
        /\ PublishRecord(M, id, [r EXCEPT
             !.phase = next, !.received = FALSE,
             !.process[side] = local_processes[l].process,
             !.command = [op |-> op, scope |-> ScopeOf(sessions[l])],
             !.avatar_generation = IF rollback THEN generation ELSE @,
             !.source_rollback_committed = @ \/ rollback])
  BY DEF RequestNativeTransfer
<1>2. /\ sessions' = [sessions EXCEPT ![l] = begun]
      /\ live' = IF op \in {"source_activate", "destination_activate"}
                 THEN live \cup {<<sessions[l].process, r.preparation.player>>} ELSE live
      /\ UNCHANGED <<local_processes, home, dead, held, runs>>
  BY DEF RequestNativeTransfer
<1>3. /\ id \in TransferId /\ r \in NativeRecord /\ Sound(r, dead)
      /\ r.preparation \in Preparation /\ side \in Side
      /\ r.process \in [Side -> Process \cup {Nobody}]
      /\ r.avatar_generation \in Generation
      /\ r.source_rollback_committed \in BOOLEAN
      /\ LedgerOK(Ledgered)
  BY RecordFacts DEF NativeRecord, CoordinatorInv, HeadOK, Ledgered, TargetOf, Side
<1> HIDE DEF r, M, rebound, begun, pinned, command, g, q, side
<1>4. /\ l \in DOMAIN sessions /\ sessions[l] \in Session /\ sessions[l].process \in Process
      /\ l \in DOMAIN local_processes /\ local_processes[l].process \in Process
      /\ r.process[side] \in {Nobody, local_processes[l].process}
  BY <1>1, SessionFacts, LocalFacts
  DEF CommandTargetReady, AuthorityControlReady, Current, CoordinatorInv
<1> HIDE DEF l
<1>5. /\ r.phase \notin Unsettled /\ next \notin Unsettled
      /\ next \in CommittedPhase => r.ownership_committed
  BY <1>1, <1>3 DEF RequestPhase, Unsettled, CommittedPhase, Sound
<1>6. generation <= MaxGeneration /\ generation \in Generation
  <2>1. r.preparation.avatar_generation \in 1..MaxGeneration
    BY <1>3 DEF Preparation, Generation
  <2>2. r.preparation.avatar_generation + 2 <= MaxGeneration
    BY <1>3, <1>5, PastFence
  <2> QED BY <2>1, <2>2, LedgerAssumption DEF Generation
<1> HIDE DEF generation
<1>7. Follows(Ledgered, M, {id})
  <2>1. CASE rollback
    <3>1. generation \in 0..MaxGeneration
      BY <1>6 DEF Generation
    <3>2. CanAbortTransfer(Ledgered, id, generation)
      BY <1>1, <2>1
    <3>3. Follows(Ledgered, AbortTransfer(Ledgered, id, generation), {id})
      BY <1>3, <3>1, <3>2, AbortTransferFollows
    <3> QED BY <2>1, <3>3 DEF M
  <2>2. CASE ~rollback
    BY <2>2, StaysItself, FollowsMore DEF M
  <2> QED BY <2>1, <2>2
<1>8. /\ pinned \in [Side -> Process \cup {Nobody}]
      /\ pinned["source"] \in {r.process["source"], local_processes[l].process}
      /\ r.process["source"] # Nobody => pinned["source"] = r.process["source"]
  <2>1. pinned["source"] = IF side = "source" THEN local_processes[l].process
                           ELSE r.process["source"]
    BY <1>3 DEF Side, pinned
  <2>2. side = "source" /\ r.process["source"] # Nobody
          => local_processes[l].process = r.process["source"]
    BY <1>4
  <2>3. pinned \in [Side -> Process \cup {Nobody}]
    BY <1>3, <1>4 DEF pinned
  <2> QED BY <2>1, <2>2, <2>3
<1>9. command \in Command
  BY <1>4 DEF Command, Scope, ScopeOf, Session, command
<1>10. g \in Generation
  BY <1>3, <1>6 DEF g
<1>11. rollback \in BOOLEAN
  OBVIOUS
<1>12. PublishRecord(M, id, q(next))
  <2>1. [r EXCEPT !.phase = next, !.received = FALSE,
           !.process[side] = local_processes[l].process,
           !.command = [op |-> op, scope |-> ScopeOf(sessions[l])],
           !.avatar_generation = IF rollback THEN generation ELSE @,
           !.source_rollback_committed = @ \/ rollback] = q(next)
    BY <1>3 DEF NativeRecord, q, pinned, command, g
  <2> QED BY <1>1, <2>1
<1> HIDE DEF rollback
<1>13. /\ q(next) \in NativeRecord /\ q(next).preparation = r.preparation
       /\ q(next).phase = next /\ q(next).source_receipt = r.source_receipt
       /\ q(next).process = pinned /\ q(next).ownership_committed = r.ownership_committed
       /\ q(next).source_retired = r.source_retired /\ q(next).artifact = r.artifact
  <2>1. r \in NativeRecord /\ r.source_rollback_committed \in BOOLEAN
    BY <1>3
  <2>2. r.source_rollback_committed \/ rollback \in BOOLEAN
    BY <1>11, <2>1
  <2> DEFINE committed == r.source_rollback_committed \/ rollback
             q1 == [r EXCEPT !.phase = next, !.received = FALSE, !.process = pinned]
             q2 == [q1 EXCEPT !.command = command, !.avatar_generation = g,
                              !.source_rollback_committed = committed]
  <2>3. q(next) = q2
    BY <2>1 DEF q, NativeRecord
  <2>4. /\ q1 \in NativeRecord /\ q1.preparation = r.preparation
        /\ q1.phase = next /\ q1.source_receipt = r.source_receipt
        /\ q1.process = pinned /\ q1.ownership_committed = r.ownership_committed
        /\ q1.source_retired = r.source_retired /\ q1.artifact = r.artifact
    BY <1>8, <2>1 DEF NativeRecord
  <2> HIDE DEF q1, committed
  <2>5. /\ q2 \in NativeRecord /\ q2.preparation = q1.preparation
        /\ q2.phase = q1.phase /\ q2.source_receipt = q1.source_receipt
        /\ q2.process = q1.process /\ q2.ownership_committed = q1.ownership_committed
        /\ q2.source_retired = q1.source_retired /\ q2.artifact = q1.artifact
    BY <1>9, <1>10, <2>2, <2>4 DEF NativeRecord, committed
  <2> QED BY <2>3, <2>4, <2>5
<1>14. Sound(q(next), dead)
  BY <1>3, <1>5, <1>8, <1>13, SoundLater
<1>15. next # "source_fenced"
  BY <1>5 DEF Unsettled
<1>16. SessionsOK(sessions', M)
  <2>1. M \in Ledger /\ id \in 0..MaxTransferId
    BY <1>3, <1>7, GoodParts DEF Follows, LedgerOK, TransferId
  <2>2. Keeps(sessions[l], rebound)
    <3>1. Keeps(sessions[l], sessions[l])
      BY <1>4 DEF Keeps
    <3>2. Keeps(sessions[l], Rebound(sessions[l], M, l, id, FALSE))
      BY <1>4, <2>1, ReboundKeeps
    <3> QED BY <3>1, <3>2 DEF rebound
  <2>3. Keeps(rebound, begun)
    BY <2>1, <2>2, BeginMaintenanceKeeps DEF Keeps, begun
  <2>4. Keeps(sessions[l], begun)
    BY <2>2, <2>3 DEF Keeps
  <2> QED BY <1>2, <1>4, <1>7, <2>4, OneSessionKept DEF CoordinatorInv
<1>17. /\ live' \subseteq Process \X Player
       /\ held' \in [Process -> [Player -> 0..MaxTransferId]]
  <2>1. r.preparation.player \in Player
    BY <1>3 DEF Preparation
  <2> QED BY <1>2, <1>4, <2>1 DEF CoordinatorInv, ProcessesOK
<1> QED BY <1>2, <1>7, <1>12, <1>13, <1>14, <1>15, <1>16, <1>17, TransferStepKeeps
  DEF r

LEMMA CommitStep ==
  ASSUME CoordinatorInv, NEW id \in DOMAIN head.native_transfers, CommitNativeTransfer(id)
  PROVE  CoordinatorInv' /\ KeepsArtifacts(head, head')
<1> DEFINE r == Record(id)
           M == CommitTransfer(Ledgered, id)
           q == [r EXCEPT !.phase = "committed", !.ownership_committed = TRUE,
                          !.avatar_generation = r.preparation.avatar_generation + 2]
           T == [l \in DOMAIN sessions |->
                   IF Touches(r.preparation, l) THEN Rebound(sessions[l], M, l, id, FALSE)
                   ELSE sessions[l]]
<1>1. /\ r.phase = "destination_restored"
      /\ StillWitnessed(id, "source", r.source_receipt, r.preparation.lease["source"])
      /\ CanCommitTransfer(Ledgered, id)
      /\ PublishRecord(M, id, q) /\ sessions' = T
      /\ UNCHANGED <<local_processes, home, dead, live, held, runs>>
  BY DEF CommitNativeTransfer
<1>2. /\ id \in TransferId /\ r \in NativeRecord /\ Sound(r, dead)
      /\ r.preparation \in Preparation /\ LedgerOK(Ledgered)
  BY RecordFacts DEF CoordinatorInv, HeadOK, Ledgered
<1>3. Follows(Ledgered, M, {id})
  BY <1>1, <1>2, CommitTransferFollows
<1>4. r.preparation.avatar_generation + 2 <= MaxGeneration
      /\ r.preparation.avatar_generation + 2 \in Generation /\ r.source_receipt # None
  <2>1. r.preparation.avatar_generation \in 1..MaxGeneration
    BY <1>2 DEF Preparation, Generation
  <2>2. r.preparation.avatar_generation + 2 <= MaxGeneration /\ r.source_receipt # None
    BY <1>1, <1>2 DEF Sound
  <2> QED BY <2>1, <2>2, LedgerAssumption DEF Generation
<1>5. /\ q \in NativeRecord /\ q.preparation = r.preparation /\ q.phase = "committed"
      /\ q.source_receipt = r.source_receipt /\ q.process = r.process
      /\ q.ownership_committed /\ q.artifact = r.artifact
  BY <1>2, <1>4 DEF NativeRecord, NativePhase
<1> HIDE DEF q
<1>6. Sound(q, dead)
  <2>1. r.source_receipt.process \in Process /\ r.source_receipt.process \notin dead
    BY <1>1, <1>2, <1>4 DEF NativeRecord, SourceReceipt, StillWitnessed
  <2>2. r.process["source"] = r.source_receipt.process
    BY <1>2, <1>4, <2>1 DEF Sound
  <2> QED BY <1>4, <1>5, <2>1, <2>2, CoordinatorAssumption DEF Sound, Unsettled
<1>7. SessionsOK(T, M)
  <2>1. ASSUME NEW l \in DOMAIN sessions  PROVE Keeps(sessions[l], T[l])
    <3>1. M \in Ledger /\ sessions[l] \in Session
      BY <1>3, GoodParts, SessionFacts DEF Follows, LedgerOK, CoordinatorInv
    <3> HIDE DEF M
    <3>2. Keeps(sessions[l], Rebound(sessions[l], M, l, id, FALSE))
      BY <3>1, ReboundKeeps
    <3> QED BY <3>1, <3>2 DEF Keeps
  <2>2. T = [l \in DOMAIN sessions |-> T[l]]
    OBVIOUS
  <2> HIDE DEF T, M
  <2> QED BY <1>3, <2>1, <2>2, SessionsKept DEF CoordinatorInv, Follows
<1>8. /\ live' \subseteq Process \X Player
      /\ held' \in [Process -> [Player -> 0..MaxTransferId]]
  BY <1>1 DEF CoordinatorInv, ProcessesOK
<1> HIDE DEF M, T
<1> QED BY <1>1, <1>3, <1>5, <1>6, <1>7, <1>8, TransferStepKeeps

LEMMA FinishStep ==
  ASSUME CoordinatorInv, NEW id \in DOMAIN head.native_transfers, FinishNativeTransfer(id)
  PROVE  CoordinatorInv' /\ KeepsArtifacts(head, head')
<1> DEFINE r == Record(id)
           source == r.preparation.location["source"]
           exit == [r.exit EXCEPT !["source"] = [process |-> r.process["source"],
                                                 lease |-> r.lease["source"]]]
           retired == IF r.source_retired THEN r
                      ELSE [r EXCEPT !.source_retired = TRUE,
                             !.exit["source"] = [process |-> r.process["source"],
                                                 lease |-> r.lease["source"]]]
           vacates == ~r.completed_once /\ r.slot = 1
           vacated == IF vacates THEN WorkerLost(Ledgered, source) ELSE Ledgered
           M == IF r.completed_once THEN vacated ELSE FinishTransfer(vacated, id)
           q == [retired EXCEPT !.phase = "complete", !.completed_once = TRUE]
<1>1. /\ r.phase \in {"destination_active", "source_cleaned"}
      /\ vacates => CanVacate(Ledgered, source, r.lease["source"])
      /\ ~r.completed_once => CanFinishTransfer(vacated, id)
      /\ PublishRecord(M, id, q)
      /\ UNCHANGED <<sessions, local_processes, home, dead, live, held, runs>>
  BY DEF FinishNativeTransfer
<1>2. /\ id \in TransferId /\ r \in NativeRecord /\ Sound(r, dead)
      /\ r.preparation \in Preparation /\ LedgerOK(Ledgered)
      /\ source \in Location
  BY RecordFacts DEF CoordinatorInv, HeadOK, Ledgered, Preparation, Side
<1>3. Follows(Ledgered, vacated, {})
  <2>1. CASE vacates
    <3>1. source \in DOMAIN Ledgered.locations
      BY <1>1, <2>1 DEF CanVacate, CanLoseWorker
    <3> HIDE DEF source, vacates
    <3> QED BY <1>2, <2>1, <3>1, WorkerLostFollows
  <2>2. CASE ~vacates
    BY <2>2, StaysItself
  <2> QED BY <2>1, <2>2
<1> HIDE DEF vacated
<1>4. Follows(Ledgered, M, {})
  <2>1. CASE r.completed_once
    BY <1>3, <2>1
  <2>2. CASE ~r.completed_once
    <3>1. LedgerOK(vacated) /\ CanFinishTransfer(vacated, id)
      BY <1>1, <1>3, <2>2 DEF Follows
    <3> HIDE DEF r, M, q, retired, exit, source, vacates
    <3>2. Follows(vacated, FinishTransfer(vacated, id), {})
      BY <1>2, <3>1, FinishTransferFollows
    <3>3. Follows(Ledgered, FinishTransfer(vacated, id), {})
      BY <1>2, <1>3, <3>2, FollowsThrough
    <3> QED BY <2>2, <3>3 DEF M
  <2> QED BY <2>1, <2>2
<1>5. r.ownership_committed /\ r.source_receipt # None
      /\ r.preparation.avatar_generation + 2 <= MaxGeneration
  BY <1>1, <1>2 DEF Sound, CommittedPhase
<1>6. /\ retired \in NativeRecord /\ retired.preparation = r.preparation
      /\ retired.source_receipt = r.source_receipt /\ retired.process = r.process
      /\ retired.ownership_committed = r.ownership_committed
      /\ retired.source_retired /\ retired.artifact = r.artifact
  <2>1. CASE r.source_retired
    BY <1>2, <2>1
  <2>2. CASE ~r.source_retired
    <3>1. r.process["source"] \in Process /\ r.lease["source"] \in Lease
      BY <1>2, <1>5, <2>2 DEF Sound, NativeRecord, Side
    <3>2. [process |-> r.process["source"], lease |-> r.lease["source"]] \in Exit
      BY <3>1 DEF Exit
    <3>3. r.exit \in [Side -> Exit \cup {None}]
      BY <1>2 DEF NativeRecord
    <3>4. exit \in [Side -> Exit \cup {None}]
      BY <3>2, <3>3
    <3>5. retired = [r EXCEPT !.source_retired = TRUE, !.exit = exit]
      BY <1>2, <2>2 DEF NativeRecord
    <3> HIDE DEF retired, exit
    <3> QED BY <1>2, <3>4, <3>5 DEF NativeRecord
  <2> QED BY <2>1, <2>2
<1> HIDE DEF retired
<1>7. /\ q \in NativeRecord /\ q.preparation = r.preparation /\ q.phase = "complete"
      /\ q.source_receipt = r.source_receipt /\ q.process = r.process
      /\ q.ownership_committed = r.ownership_committed
      /\ q.source_retired /\ q.artifact = r.artifact
  BY <1>6 DEF NativeRecord, NativePhase
<1> HIDE DEF q
<1>8. Sound(q, dead)
  BY <1>2, <1>5, <1>7 DEF Sound, Unsettled
<1>9. /\ live' \subseteq Process \X Player
      /\ held' \in [Process -> [Player -> 0..MaxTransferId]]
      /\ SessionsOK(sessions', M)
  <2> HIDE DEF M
  <2> QED BY <1>1, <1>4, SameSessions DEF CoordinatorInv, ProcessesOK
<1>10. Follows(Ledgered, M, {id})
  BY <1>4, FollowsMore
<1> HIDE DEF M
<1> QED BY <1>1, <1>7, <1>8, <1>9, <1>10, TransferStepKeeps

-----------------------------------------------------------------------------
(* Recovery of a worker *)

\* Abandoning a player's later attempts settles their transfers and no other.
LEMMA AttemptsAbandoned ==
  ASSUME CoordinatorInv, NEW id \in DOMAIN head.native_transfers, NEW l, CanAbandon(id, l)
  PROVE  Follows(Ledgered, WithoutAttempts(id), LaterAttempts(id))
<1> DEFINE attempts == LaterAttempts(id)
           reservations == LaterReservations(id)
           t == CHOOSE t \in attempts : TRUE
           g == AbandonedGeneration(t)
           settled == IF attempts = {} THEN Ledgered ELSE AbortTransfer(Ledgered, t, g)
<1>0. LedgerOK(Ledgered) /\ Good(Ledgered)
  BY DEF CoordinatorInv, HeadOK, Ledgered, LedgerOK
<1>1. WithoutAttempts(id) = DropTransfers(settled, reservations)
  BY DEF WithoutAttempts
<1>2. \A u \in reservations : CanAbortTransfer(Ledgered, u, 0) /\ u \notin attempts
  BY DEF CanAbandon, LaterReservations
<1>3. CASE attempts = {}
  <2>1. CanDropTransfers(Ledgered, reservations) /\ settled = Ledgered
    BY <1>2, <1>3 DEF CanDropTransfers
  <2> HIDE DEF reservations, settled
  <2>2. Follows(Ledgered, DropTransfers(Ledgered, reservations), {})
    BY <1>0, <2>1, DropTransfersFollows
  <2> QED BY <1>1, <2>1, <2>2, FollowsMore
<1>4. CASE attempts # {}
  <2>1. t \in attempts /\ settled = AbortTransfer(Ledgered, t, g)
    BY <1>4
  <2>2. /\ t \in DOMAIN head.native_transfers
        /\ Record(t).phase \in {"fence_requested", "source_fenced"}
        /\ CanAbortTransfer(Ledgered, t, g)
    BY <2>1 DEF CanAbandon, LaterAttempts
  <2> HIDE DEF attempts, reservations, t, settled
  <2>3. /\ t \in TransferId /\ OfTransfer(Ledgered, t, Record(t))
        /\ Record(t).preparation.player \in DOMAIN Ledgered.avatars
    BY <2>2, RecordFacts DEF OfTransfer
  <2>4. g \in 0..MaxGeneration
    <3>1. CASE Record(t).phase = "source_fenced"
      <4>1. /\ t \in DOMAIN Ledgered.transfers
            /\ Ledgered.transfers[t].phase \in FencedPhase
            /\ Ledgered.transfers[t].player = Record(t).preparation.player
        BY <2>3, <3>1 DEF OfTransfer, FencedIn, InPhase
      <4>2. /\ Ledgered.avatars[Record(t).preparation.player].generation < MaxGeneration
            /\ Ledgered.avatars[Record(t).preparation.player].generation \in Nat
        BY <1>0, <4>1, TransferFacts DEF LedgerOK, AllSettled, Settled
      <4> QED BY <3>1, <4>2, LedgerAssumption DEF AbandonedGeneration
    <3>2. CASE Record(t).phase # "source_fenced"
      BY <3>2, LedgerAssumption DEF AbandonedGeneration
    <3> QED BY <3>1, <3>2
  <2> HIDE DEF g
  <2>5. Follows(Ledgered, settled, {t})
    BY <1>0, <2>1, <2>2, <2>3, <2>4, AbortTransferFollows
  <2>6. /\ settled = AbortTransfer(Ledgered, t, g) /\ LedgerOK(Ledgered)
        /\ t \in TransferId /\ g \in 0..MaxGeneration /\ CanAbortTransfer(Ledgered, t, g)
    BY <1>0, <2>1, <2>2, <2>3, <2>4
  <2>7. ASSUME NEW u \in reservations  PROVE CanAbortTransfer(settled, u, 0)
    BY <1>2, <2>1, <2>6, AbortedLeavesDroppable
  <2>8. CanDropTransfers(settled, reservations)
    BY <2>7 DEF CanDropTransfers
  <2>9. LedgerOK(settled)
    BY <2>5 DEF Follows
  <2>10. Follows(settled, DropTransfers(settled, reservations), {t})
    BY <2>8, <2>9, DropTransfersFollows, FollowsMore
  <2>11. Follows(Ledgered, DropTransfers(settled, reservations), {t})
    BY <1>0, <2>5, <2>10, FollowsThrough
  <2> QED BY <1>1, <2>1, <2>11 DEF Follows, attempts
<1> QED BY <1>3, <1>4

\* What either recovery leaves of the record it changes.
Resumes(r, s) ==
  /\ s \in NativeRecord /\ s.preparation = r.preparation
  /\ s.source_receipt = r.source_receipt /\ s.artifact = r.artifact
  /\ s.ownership_committed = r.ownership_committed
  /\ s.process = r.process /\ s.lease = r.lease /\ s.exit = r.exit
  /\ s.phase \in Unsettled => r.phase \in Unsettled
  /\ s.phase \notin {"fence_requested", "checkpoint_recovered"} =>
       r.phase \notin {"fence_requested", "checkpoint_recovered"}
  /\ s.phase \in CommittedPhase => r.ownership_committed
  /\ s.phase = "source_fenced" => r.phase = "source_fenced"

LEMMA SourceReplacedResumes ==
  ASSUME NEW r \in NativeRecord, NEW gone, Sound(r, gone), r.phase # "checkpoint_recovered"
  PROVE  /\ Resumes(r, SourceReplaced(r))
         /\ r.ownership_committed => SourceReplaced(r).source_retired
<1> DEFINE s == SourceReplaced(r)
<1>1. CASE r.phase = "fence_requested"
  <2>1. s = [r EXCEPT !.phase = "checkpoint_recovered"]
    BY <1>1 DEF SourceReplaced
  <2> HIDE DEF s
  <2>2. s \in NativeRecord /\ s.phase = "checkpoint_recovered"
    BY <2>1 DEF NativeRecord, NativePhase
  <2>3. ~r.ownership_committed
    BY <1>1 DEF Sound, Unsettled
  <2> QED BY <1>1, <2>1, <2>2, <2>3
          DEF Resumes, NativeRecord, Unsettled, CommittedPhase, s
<1>2. CASE r.phase # "fence_requested" /\ r.ownership_committed
  <2> DEFINE phase == IF r.phase = "cleanup_requested" THEN "source_cleaned" ELSE r.phase
  <2>1. s = [r EXCEPT !.source_retired = TRUE, !.phase = phase]
    BY <1>2 DEF SourceReplaced, NativeRecord
  <2>2. phase \in NativePhase /\ phase \notin Unsettled /\ r.phase \notin Unsettled
    BY <1>2 DEF Sound, Unsettled, NativeRecord, NativePhase
  <2> HIDE DEF s, phase
  <2>3. s \in NativeRecord /\ s.phase = phase /\ s.source_retired
    BY <2>1, <2>2 DEF NativeRecord
  <2> QED BY <1>2, <2>1, <2>2, <2>3 DEF Resumes, NativeRecord, Unsettled, s
<1>3. CASE r.phase # "fence_requested" /\ ~r.ownership_committed
  <2> DEFINE phase ==
        IF r.phase \notin {"rollback_requested", "source_restored",
                           "source_activate_requested", "aborted"} THEN r.phase
        ELSE IF r.destination_receipt # None THEN "destination_discarded"
        ELSE "artifact_bound"
  <2>1. s = [r EXCEPT !.phase = phase]
    BY <1>3 DEF SourceReplaced, NativeRecord
  <2>2. /\ phase \in NativePhase
        /\ phase = r.phase \/ (phase \notin Unsettled /\ r.phase \notin Unsettled
                               /\ phase \notin CommittedPhase)
    BY <1>3 DEF Unsettled, NativeRecord, NativePhase, CommittedPhase
  <2>3. r.phase \notin CommittedPhase
    BY <1>3 DEF Sound
  <2> HIDE DEF s, phase
  <2>4. s \in NativeRecord /\ s.phase = phase
    BY <2>1, <2>2 DEF NativeRecord
  <2> QED BY <1>3, <2>1, <2>2, <2>3, <2>4 DEF Resumes, NativeRecord, Unsettled, s
<1> QED BY <1>1, <1>2, <1>3

LEMMA DestinationReplacedResumes ==
  ASSUME NEW r \in NativeRecord, NEW gone, Sound(r, gone), r.phase # "checkpoint_recovered"
  PROVE  /\ Resumes(r, DestinationReplaced(r))
         /\ DestinationReplaced(r).source_retired = r.source_retired
<1> DEFINE s == DestinationReplaced(r)
           phase == IF r.ownership_committed
                       \/ r.phase \in {"restore_requested", "destination_restored"}
                    THEN "artifact_bound"
                    ELSE IF r.phase = "discard_requested" THEN "destination_discarded"
                    ELSE r.phase
<1>1. s = [r EXCEPT !.destination_receipt = None, !.phase = phase]
  BY DEF DestinationReplaced, NativeRecord
<1>2. /\ phase \in NativePhase
      /\ phase = r.phase \/ (phase \notin Unsettled /\ r.phase \notin Unsettled
                             /\ phase \notin CommittedPhase)
  BY DEF Unsettled, NativeRecord, NativePhase, CommittedPhase, Sound
<1>3. r.phase \in CommittedPhase => r.ownership_committed
  BY DEF Sound
<1> HIDE DEF s, phase
<1>4. s \in NativeRecord /\ s.phase = phase
  BY <1>1, <1>2 DEF NativeRecord
<1> QED BY <1>1, <1>2, <1>3, <1>4 DEF Resumes, NativeRecord, Unsettled, s

Recovered(r, s, side, new, g) ==
  [s EXCEPT !.exit[side] = [process |-> r.process[side], lease |-> r.lease[side]],
            !.process[side] = Nobody, !.lease[side] = new,
            !.received = FALSE, !.avatar_generation = g]

LEMMA RecoveredSound ==
  ASSUME NEW r \in NativeRecord, NEW gone, Sound(r, gone), NEW side \in Side,
         r.process[side] \in gone, r.process[side] \in Process,
         NEW s, Resumes(r, s), NEW new \in Lease, NEW g \in Generation,
         side = "source" => (r.ownership_committed => s.source_retired),
         side = "destination" => s.source_retired = r.source_retired,
         NEW q, q = Recovered(r, s, side, new, g)
  PROVE  /\ q \in NativeRecord /\ Sound(q, gone)
         /\ q.preparation = r.preparation /\ q.artifact = r.artifact
         /\ q.phase = "source_fenced" => r.phase = "source_fenced"
<1> DEFINE exit == [r.exit EXCEPT ![side] = [process |-> r.process[side],
                                             lease |-> r.lease[side]]]
           process == [r.process EXCEPT ![side] = Nobody]
           lease == [r.lease EXCEPT ![side] = new]
<1>0. s \in NativeRecord /\ s.process = r.process /\ s.lease = r.lease /\ s.exit = r.exit
  BY DEF Resumes
<1>1. q = [s EXCEPT !.exit = exit, !.process = process, !.lease = lease,
                    !.received = FALSE, !.avatar_generation = g]
  BY <1>0 DEF NativeRecord, Recovered
<1>2. /\ exit \in [Side -> Exit \cup {None}]
      /\ process \in [Side -> Process \cup {Nobody}]
      /\ lease \in [Side -> Lease]
  <2>1. /\ r.exit \in [Side -> Exit \cup {None}]
        /\ r.process \in [Side -> Process \cup {Nobody}]
        /\ r.lease \in [Side -> Lease]
    BY DEF NativeRecord
  <2>2. [process |-> r.process[side], lease |-> r.lease[side]] \in Exit
    BY <2>1 DEF Exit
  <2> QED BY <2>1, <2>2
<1>3. /\ side = "source" => process["source"] = Nobody
      /\ side = "destination" => process["source"] = r.process["source"]
  <2>1. r.process \in [Side -> Process \cup {Nobody}]
    BY DEF NativeRecord
  <2> QED BY <2>1 DEF Side
<1> HIDE DEF exit, process, lease
<1>4. /\ q \in NativeRecord /\ q.preparation = s.preparation /\ q.phase = s.phase
      /\ q.source_receipt = s.source_receipt /\ q.process = process
      /\ q.ownership_committed = s.ownership_committed
      /\ q.source_retired = s.source_retired /\ q.artifact = s.artifact
  <2> DEFINE h == [s EXCEPT !.exit = exit, !.process = process]
  <2>1. /\ h \in NativeRecord /\ h.preparation = s.preparation /\ h.phase = s.phase
        /\ h.source_receipt = s.source_receipt /\ h.process = process
        /\ h.ownership_committed = s.ownership_committed
        /\ h.source_retired = s.source_retired /\ h.artifact = s.artifact
    BY <1>0, <1>2 DEF NativeRecord
  <2>2. q = [h EXCEPT !.lease = lease, !.received = FALSE, !.avatar_generation = g]
    BY <1>1
  <2> HIDE DEF h
  <2>3. lease \in [Side -> Lease] /\ g \in Generation /\ FALSE \in BOOLEAN
    BY <1>2
  <2> QED BY <2>1, <2>2, <2>3 DEF NativeRecord
<1>5. Sound(q, gone)
  <2>1. /\ q.phase \in Unsettled => ~q.artifact /\ ~q.ownership_committed
        /\ q.phase \in CommittedPhase => q.ownership_committed
    BY <1>4 DEF Resumes, Sound
  <2>2. q.phase \notin {"fence_requested", "checkpoint_recovered"} =>
          /\ q.source_receipt # None
          /\ q.preparation.avatar_generation + 2 <= MaxGeneration
    BY <1>4 DEF Resumes, Sound
  <2>3. q.source_receipt # None => q.process["source"] = q.source_receipt.process
          \/ q.source_receipt.process \in gone
    BY <1>3, <1>4 DEF Resumes, Sound, Side
  <2>4. q.ownership_committed /\ ~q.source_retired => q.process["source"] # Nobody
    BY <1>3, <1>4 DEF Resumes, Sound, Side
  <2> QED BY <2>1, <2>2, <2>3, <2>4 DEF Sound
<1> QED BY <1>4, <1>5 DEF Resumes

\* A worker that is replaced, lost first or not, takes its systems along.
LEMMA ReplacedFollows ==
  ASSUME NEW L, LedgerOK(L), NEW l \in Location, l \in DOMAIN L.locations,
         NEW old, NEW new \in Lease,
         NEW lost, lost = WorkerLost(L, l) \/ lost = L,
         CanReplaceWorker(lost, l, new.worker, new.generation, Checkpoint),
         NEW M, M = RebindOwners(
           ReplaceWorker(lost, l, new.worker, new.generation, Checkpoint), old, new)
  PROVE  Follows(L, M, {})
<1> DEFINE replaced == ReplaceWorker(lost, l, new.worker, new.generation, Checkpoint)
<1>1. new.worker \in Worker /\ new.generation \in Generation /\ Checkpoint \in Revision
  BY CoordinatorAssumption DEF Lease, GlobalLease
<1>2. Follows(L, lost, {})
  BY WorkerLostFollows, FollowsItself
<1>3. Follows(lost, replaced, {})
  BY <1>1, <1>2, ReplaceWorkerFollows DEF Follows
<1>4. M = RebindOwners(replaced, old, new)
  OBVIOUS
<1> HIDE DEF replaced
<1>5. Follows(replaced, M, {})
  BY <1>3, <1>4, RebindOwnersFollows DEF Follows
<1>6. Follows(L, replaced, {})
  BY <1>2, <1>3, FollowsThrough
<1> QED BY <1>5, <1>6, FollowsThrough

LEMMA RecoverStep ==
  ASSUME CoordinatorInv, NEW id \in DOMAIN head.native_transfers, NEW side \in Side,
         NEW new \in Replacement, RecoverNativeTransferWorker(id, side, new)
  PROVE  CoordinatorInv' /\ KeepsArtifacts(head, head')
<1> DEFINE r == Record(id)
           l == r.preparation.location[side]
           old == r.lease[side]
           finished == r.phase \in TerminalPhase
           attempts == IF finished THEN LaterAttempts(id) ELSE {}
           abandoned == IF finished THEN attempts \cup LaterReservations(id) ELSE {}
           settled == IF finished THEN WithoutAttempts(id) ELSE Ledgered
           checkpoint_only == side = "source" /\ r.phase = "fence_requested"
           unreserved == IF checkpoint_only THEN DropTransfers(settled, {id}) ELSE settled
           lost == IF Ledgered.locations[l].active THEN WorkerLost(unreserved, l)
                   ELSE unreserved
           replaced == ReplaceWorker(lost, l, new.worker, new.generation, Checkpoint)
           L == RebindOwners(replaced, old, new)
           s == IF side = "source" THEN SourceReplaced(r) ELSE DestinationReplaced(r)
           g == L.avatars[r.preparation.player].generation
           recovered == Recovered(r, s, side, new, g)
           Q == Put(Without(head.native_transfers, attempts), id, recovered)
           maintained == StartsInMaintenance(r, side)
           starts == WithoutStarts(head.maintenance_starts, abandoned)
           reserved == Without(head.preparations, abandoned)
           P == IF finished THEN Put(reserved, id, r.preparation) ELSE reserved
           K == IF maintained THEN Put(starts, l, id) ELSE Without(starts, {l})
           owners == Residents(L, l)
           content == OwnsContent(L, new)
           start == IF maintained THEN id ELSE 0
           t == NewSession(L, l, owners, content, start)
<1>0. /\ id \in TransferId /\ r \in NativeRecord /\ Sound(r, dead)
      /\ r.preparation \in Preparation /\ OfTransfer(Ledgered, id, r)
      /\ LedgerOK(Ledgered) /\ HeadOK(head, dead)
      /\ head.native_transfers \in PartialFunction(TransferId, NativeRecord)
      /\ head.preparations \in PartialFunction(TransferId, Preparation)
      /\ head.maintenance_starts \in PartialFunction(Location, TransferId)
  BY RecordFacts, HeadFields DEF CoordinatorInv, HeadOK, Ledgered
<1>1. /\ RecoveryAdmitted(id, side, new)
      /\ finished => CanAbandon(id, l)
      /\ checkpoint_only => CanAbortTransfer(settled, id, 0)
      /\ CanReplaceWorker(lost, l, new.worker, new.generation, Checkpoint)
      /\ PublishNative(L, Q, P, K)
      /\ local_processes' = Without(local_processes, {l})
      /\ sessions' = Put(Fenced(sessions, L), l, t)
      /\ UNCHANGED <<home, dead, live, held, runs>>
  BY DEF RecoverNativeTransferWorker, Recovered
<1>2. /\ r.phase # "checkpoint_recovered" /\ r.process[side] \in dead
      /\ r.process[side] \in Process /\ l \in Location
      /\ l \in DOMAIN Ledgered.locations /\ new \in Lease
      /\ r.preparation.player \in Player
  <2>1. /\ r.process \in [Side -> Process \cup {Nobody}]
        /\ r.preparation.location \in [Side -> Location]
        /\ r.preparation.player \in Player
    BY <1>0 DEF NativeRecord, Preparation
  <2> QED BY <1>1, <2>1, CoordinatorAssumption DEF RecoveryAdmitted
<1>3. /\ id \notin attempts
      /\ \A u \in attempts : u \in DOMAIN head.native_transfers /\ ~Record(u).artifact
  BY <1>1 DEF LaterAttempts, CanAbandon
<1>4. Follows(Ledgered, settled, attempts)
  <2>1. CASE finished
    BY <1>1, <2>1, AttemptsAbandoned
  <2>2. CASE ~finished
    BY <1>0, <2>2, FollowsItself
  <2> QED BY <2>1, <2>2
<1>5. Follows(settled, unreserved, {})
  <2>1. LedgerOK(settled)
    BY <1>4 DEF Follows
  <2> HIDE DEF settled
  <2>2. CASE checkpoint_only
    <3>1. CanDropTransfers(settled, {id})
      BY <1>1, <2>2 DEF CanDropTransfers
    <3> QED BY <2>1, <2>2, <3>1, DropTransfersFollows
  <2>3. CASE ~checkpoint_only
    BY <2>1, <2>3, FollowsItself
  <2> QED BY <2>2, <2>3
<1> HIDE DEF attempts, abandoned, settled
<1>6. Follows(Ledgered, unreserved, attempts)
  BY <1>0, <1>4, <1>5, FollowsMore, FollowsThrough
<1> HIDE DEF unreserved
<1>7. Follows(unreserved, L, {})
  <2>1. lost = WorkerLost(unreserved, l) \/ lost = unreserved
    OBVIOUS
  <2>2. CanReplaceWorker(lost, l, new.worker, new.generation, Checkpoint)
        /\ L = RebindOwners(ReplaceWorker(lost, l, new.worker, new.generation, Checkpoint),
                            old, new)
    BY <1>1
  <2>3. LedgerOK(unreserved) /\ l \in DOMAIN unreserved.locations
    BY <1>2, <1>6 DEF Follows
  <2> HIDE DEF lost, L, l, old
  <2> QED BY <1>2, <2>1, <2>2, <2>3, ReplacedFollows
<1> HIDE DEF L, lost, replaced
<1>8. Follows(Ledgered, L, attempts)
  BY <1>0, <1>6, <1>7, FollowsMore, FollowsThrough
<1>9. /\ L \in Ledger /\ l \in DOMAIN L.locations /\ g \in Generation
  <2>1. /\ L \in Ledger /\ l \in DOMAIN L.locations
        /\ r.preparation.player \in DOMAIN L.avatars
    BY <1>0, <1>2, <1>8, GoodParts DEF OfTransfer, Follows, LedgerOK
  <2>2. L.avatars[r.preparation.player] \in AvatarLease
    BY <2>1, LedgerValues
  <2> QED BY <2>1, <2>2 DEF AvatarLease
<1> HIDE DEF g
<1>10. /\ Resumes(r, s)
       /\ side = "source" => (r.ownership_committed => s.source_retired)
       /\ side = "destination" => s.source_retired = r.source_retired
  BY <1>0, <1>2, SourceReplacedResumes, DestinationReplacedResumes DEF Side
<1> HIDE DEF s
<1>11. /\ recovered \in NativeRecord /\ Sound(recovered, dead)
       /\ recovered.preparation = r.preparation /\ recovered.artifact = r.artifact
       /\ recovered.phase = "source_fenced" => r.phase = "source_fenced"
  <2> HIDE DEF r
  <2> QED BY <1>0, <1>2, <1>9, <1>10, RecoveredSound
<1> HIDE DEF recovered
<1>12. OfTransfer(L, id, recovered)
  <2>1. recovered.phase = "source_fenced" => FencedIn(L, id)
    BY <1>0, <1>3, <1>8, <1>11 DEF OfTransfer, Follows
  <2> QED BY <1>0, <1>8, <1>11, <2>1, OfTransferFollows
<1>13. /\ Q \in PartialFunction(TransferId, NativeRecord)
       /\ Q[id] = recovered /\ id \in DOMAIN Q
       /\ DOMAIN Q \subseteq DOMAIN head.native_transfers
       /\ \A u \in DOMAIN head.native_transfers \ (attempts \cup {id}) :
            u \in DOMAIN Q /\ Q[u] = Record(u)
       /\ \A u \in DOMAIN Q : u # id => u \notin attempts /\ Q[u] = Record(u)
  <2>1. Q \in PartialFunction(TransferId, NativeRecord)
    BY <1>0, <1>11, PutType, WithoutType
  <2> QED BY <2>1 DEF Put, Without, Restrict, Record
<1> HIDE DEF Q
<1>14. P \in PartialFunction(TransferId, Preparation)
  <2>1. reserved \in PartialFunction(TransferId, Preparation)
    BY <1>0, WithoutType
  <2> HIDE DEF reserved
  <2> QED BY <1>0, <2>1, PutType
<1>15. K \in PartialFunction(Location, TransferId)
  <2>1. starts \in PartialFunction(Location, TransferId)
    BY <1>0, WithoutType DEF WithoutStarts
  <2> HIDE DEF starts, maintained
  <2> QED BY <1>0, <1>2, <2>1, PutType, WithoutType
<1> HIDE DEF P, K
<1>16. HeadOK(head', dead) /\ head'.locations = L /\ head'.native_transfers = Q
  <2>1. \A u \in DOMAIN Q : u # id =>
          u \in DOMAIN head.native_transfers /\ Q[u] = Record(u) /\ u \notin attempts
    BY <1>13
  <2>2. OfTransfer(L, id, Q[id]) /\ Sound(Q[id], dead)
    BY <1>11, <1>12, <1>13
  <2> QED BY <1>0, <1>1, <1>8, <1>13, <1>14, <1>15, <2>1, <2>2, RecordsPublished
<1>17. KeepsArtifacts(head, head')
  <2> SUFFICES ASSUME NEW u \in DOMAIN head.native_transfers, Record(u).artifact
               PROVE  /\ u \in DOMAIN Q /\ u >= u /\ Q[u].artifact
                      /\ Q[u].preparation.player = Record(u).preparation.player
    BY <1>16 DEF KeepsArtifacts, Record
  <2>1. u >= u
    BY <1>0, HeadFields, LedgerAssumption DEF TransferId
  <2>2. CASE u = id
    BY <1>11, <1>13, <2>1, <2>2 DEF r
  <2>3. CASE u # id
    BY <1>3, <1>13, <2>1, <2>3
  <2> QED BY <2>2, <2>3
<1>18. t \in Session /\ ~t.connected
  <2>1. owners \in SUBSET Player /\ content \in BOOLEAN
    BY <1>9, ViewTyped DEF OwnsContent
  <2>2. start \in 0..MaxTransferId
    BY <1>0, LedgerAssumption DEF TransferId
  <2> HIDE DEF owners, content, start, l
  <2> QED BY <1>9, <2>1, <2>2, EpochTyped, NewSessionTyped
<1> HIDE DEF t
<1>19. SessionsOK(sessions', L)
  <2>1. SessionsOK(Fenced(sessions, L), L)
    BY <1>8, FencedKept DEF CoordinatorInv
  <2> QED BY <1>1, <1>2, <1>9, <1>18, <2>1, SessionOpened
<1>20. ProcessesOK' /\ dead' = dead
  <2>1. local_processes' \in PartialFunction(Location, LocalProcess)
    BY <1>1, WithoutType DEF CoordinatorInv, ProcessesOK
  <2> QED BY <1>1, <2>1 DEF CoordinatorInv, ProcessesOK
<1> QED BY <1>16, <1>17, <1>19, <1>20 DEF CoordinatorInv, Ledgered
-----------------------------------------------------------------------------
(* The specification *)

LEMMA NextStep ==
  ASSUME CoordinatorInv, Next
  PROVE  CoordinatorInv' /\ KeepsArtifacts(head, head')
<1>1. CASE Reservations
  <2>1. PICK id \in TransferId :
          \/ CancelTransfer(id)
          \/ \E player \in Player, l \in Location :
               \/ PrepareTransfer(id, player, l)
               \/ \E new \in Replacement : PrepareTransferMaintenance(id, player, l, new)
    BY <1>1 DEF Reservations
  <2> QED BY <2>1, CancelStep, PrepareStep, PrepareMaintenanceStep
<1>2. CASE Transfers
  <2>1. CASE \E id \in DOMAIN head.preparations, slot \in {1, 2} : BeginNativeTransfer(id, slot)
    BY <2>1, BeginNativeStep
  <2>2. CASE \E id \in DOMAIN head.native_transfers : Receipt(id)
    BY <2>2, SourceFencedStep, DestinationRestoredStep, DestinationDiscardedStep,
       SourceRestoredStep, SourceActivatedStep, DestinationActivatedStep, SourceCleanedStep
       DEF Receipt
  <2>3. CASE \E id \in DOMAIN head.native_transfers :
               \/ BindNativeTransferArtifact(id) \/ CommitNativeTransfer(id)
               \/ FinishNativeTransfer(id)
    BY <2>3, BindStep, CommitStep, FinishStep
  <2>4. CASE \E id \in DOMAIN head.native_transfers, op \in TransferOp :
               RequestNativeTransfer(id, op)
    BY <2>4, RequestStep
  <2>5. CASE \E id \in DOMAIN head.native_transfers, side \in Side, new \in Replacement :
               RecoverNativeTransferWorker(id, side, new)
    BY <2>5, RecoverStep
  <2> QED BY <1>2, <2>1, <2>2, <2>3, <2>4, <2>5 DEF Transfers
<1>3. CASE Workers
  <2>1. CASE \E p \in Process : ProcessEnds(p)
    BY <2>1, ProcessEndsStep
  <2>2. CASE FenceStaleLocations
    BY <2>2, FenceStaleStep
  <2>3. CASE \E l \in DOMAIN sessions :
               \/ Disconnect(l)
               \/ \E scene \in Scene : CompleteScene(l, scene)
               \/ \E new \in Replacement : ReplaceDisconnectedLocation(l, new)
    BY <2>3, DisconnectStep, CompleteSceneStep, ReplaceStep
  <2>4. CASE \E l \in DOMAIN sessions, p \in Process :
               \/ RegisterLocalWorkerProcess(l, p)
               \/ \E scene \in Scene \cup {0} : ConnectAuthority(l, p, scene)
    BY <2>4, RegisterStep, ConnectStep
  <2> QED BY <1>3, <2>1, <2>2, <2>3, <2>4 DEF Workers
<1>4. CASE Restart
  BY <1>4, RestartStep
<1> QED BY <1>1, <1>2, <1>3, <1>4 DEF Next

LEMMA IdleStep ==
  ASSUME CoordinatorInv, UNCHANGED vars  PROVE CoordinatorInv'
BY DEF vars, CoordinatorInv, ProcessesOK, Ledgered

\* The ledger of the offline bootstrap is one that restore() reads.
LEMMA EmptyMap ==
  ASSUME NEW S, NEW T
  PROVE  Empty \in PartialFunction(S, T) /\ DOMAIN Empty = {}
<1>1. Empty \in [{} -> T] /\ DOMAIN Empty = {}
  BY DEF Empty
<1> QED BY <1>1, PartialFunctionIntro

LEMMA FirstLedgerGood ==
  ASSUME NEW worker \in [Location -> Worker], NEW place \in [Player -> Location],
         NEW owner \in Location, \A l, m \in Location : l # m => worker[l] # worker[m]
  PROVE  LedgerOK(FirstLedger(worker, place, owner))
<1> DEFINE L == FirstLedger(worker, place, owner)
           c == CHOOSE x \in Content : TRUE
           locations == [l \in Location |->
             [worker |-> worker[l], generation |-> 1, checkpoint |-> Checkpoint,
              content |-> c, active |-> TRUE]]
           avatars == [p \in Player |->
             [generation |-> 1, location |-> place[p], active |-> TRUE]]
           interests == [p \in Player |->
             [location |-> place[p], avatar_generation |-> 1, worker |-> worker[place[p]],
              worker_generation |-> 1]]
           globals == [s \in System |-> [worker |-> worker[owner], generation |-> 1]]
<1>1. 1 \in Generation /\ Checkpoint \in Revision /\ c \in Content
  BY LedgerAssumption, CoordinatorAssumption DEF Generation
<1> HIDE DEF c
<1>2. /\ locations \in [Location -> LocationLease] /\ avatars \in [Player -> AvatarLease]
      /\ interests \in [Player -> InterestLease] /\ globals \in [System -> GlobalLease]
  BY <1>1 DEF LocationLease, AvatarLease, InterestLease, GlobalLease
<1>3. /\ DOMAIN locations = Location /\ DOMAIN avatars = Player /\ DOMAIN interests = Player
      /\ \A l \in Location : /\ locations[l].worker = worker[l]
                             /\ locations[l].checkpoint = Checkpoint
                             /\ locations[l].generation = 1
                             /\ locations[l].active
      /\ \A p \in Player : /\ avatars[p] = [generation |-> 1, location |-> place[p],
                                             active |-> TRUE]
                           /\ interests[p].location = place[p]
                           /\ interests[p].avatar_generation = 1
                           /\ interests[p].worker = worker[place[p]]
                           /\ interests[p].worker_generation = 1
      /\ \A p \in Player : place[p] \in Location
  OBVIOUS
<1>4. L = [locations |-> locations, avatars |-> avatars, interests |-> interests,
           globals |-> globals, transfers |-> Empty, global_events |-> {},
           high_transfer_id |-> 0]
  BY DEF FirstLedger, c
<1> HIDE DEF L, locations, avatars, interests, globals
<1>5. L \in Ledger
  <2>1. /\ locations \in PartialFunction(Location, LocationLease)
        /\ avatars \in PartialFunction(Player, AvatarLease)
        /\ interests \in PartialFunction(Player, InterestLease)
        /\ globals \in PartialFunction(System, GlobalLease)
    BY <1>2, PartialFunctionIntro
  <2>2. Empty \in PartialFunction(TransferId, Transfer)
    BY EmptyMap
  <2>3. 0 \in 0..MaxTransferId /\ {} \in SUBSET (System \X EventId)
    BY LedgerAssumption
  <2> QED BY <1>4, <2>1, <2>2, <2>3 DEF Ledger
<1>6. DOMAIN L.transfers = {} /\ L.global_events = {} /\ L.locations = locations
      /\ L.avatars = avatars /\ L.interests = interests
  BY <1>4 DEF Empty
<1>7. FiniteMaps(L) /\ SizesValid(L)
  BY <1>3, <1>6, FS_EmptySet, CoordinatorAssumption, LedgerAssumption
  DEF FiniteMaps, SizesValid
<1>8. LocationsValid(L)
  BY <1>3, <1>6 DEF LocationsValid
<1>9. AvatarsValid(L)
  BY <1>3, <1>6 DEF AvatarsValid, AvatarValid
<1>10. TransfersValid(L) /\ AllSettled(L)
  BY <1>6 DEF TransfersValid, TransfersApart, AllSettled
<1>11. InterestsValid(L)
  BY <1>3, <1>6 DEF InterestsValid, InterestValid, AcceptsAvatarOutcome
<1>12. LedgerOK(L)
  BY <1>5, <1>7, <1>8, <1>9, <1>10, <1>11 DEF LedgerOK, Good, Valid
<1> QED BY <1>12 DEF L

LEMMA InitInv ==
  Init => CoordinatorInv
<1> SUFFICES ASSUME Init  PROVE CoordinatorInv
  OBVIOUS
<1>1. PICK worker \in [Location -> Worker], place \in [Player -> Location],
           owner \in Location :
        /\ \A l, m \in Location : l # m => worker[l] # worker[m]
        /\ head = [locations |-> FirstLedger(worker, place, owner), preparations |-> Empty,
                   native_transfers |-> Empty, maintenance_starts |-> Empty]
  BY DEF Init
<1>2. LedgerOK(FirstLedger(worker, place, owner))
  BY <1>1, FirstLedgerGood
<1>3. \A S, T : Empty \in PartialFunction(S, T) /\ DOMAIN Empty = {}
  BY EmptyMap
<1>4. HeadOK(head, dead)
  BY <1>1, <1>2, <1>3, GoodParts DEF HeadOK, LedgerOK, Universe
<1>5. SessionsOK(sessions, Ledgered)
  BY <1>3 DEF Init, SessionsOK
<1>6. ProcessesOK
  <2>1. 0 \in 0..MaxTransferId /\ 0 \in 0..MaxRuns
    BY LedgerAssumption, CoordinatorAssumption
  <2>2. [q \in Player |-> 0] \in [Player -> 0..MaxTransferId]
    BY <2>1
  <2> QED BY <1>3, <2>1, <2>2 DEF Init, ProcessesOK
<1> QED BY <1>4, <1>5, <1>6 DEF CoordinatorInv

\* In every reachable state the published record, the sessions and the processes
\* are as CoordinatorInv says, for any number of locations, players and processes.
THEOREM CoordinatorInvariant == Spec => []CoordinatorInv
<1>1. CoordinatorInv /\ [Next]_vars => CoordinatorInv'
  BY NextStep, IdleStep
<1> QED BY InitInv, <1>1, PTL DEF Spec

LEMMA MapsPartially ==
  ASSUME NEW S, NEW T, NEW f \in PartialFunction(S, T)
  PROVE  PartiallyMaps(f, S, T)
BY PartialFunctionElim DEF PartiallyMaps

\* Whatever order reservations, receipts, recoveries, process ends and restarts come
\* in, the published record and the volatile state keep their types; every step of
\* coordinator_transfer.inc writes a whole record.
THEOREM CoordinatorTypeCorrect == Spec => []TypeOK
<1>1. CoordinatorInv => TypeOK
  <2> SUFFICES ASSUME CoordinatorInv  PROVE TypeOK
    OBVIOUS
  <2>1. HeadTyped(head)
    BY HeadFields, MapsPartially DEF CoordinatorInv, HeadTyped
  <2>2. PartiallyMaps(sessions, Location, Session)
    BY MapsPartially DEF CoordinatorInv, SessionsOK
  <2>3. PartiallyMaps(local_processes, Location, LocalProcess)
    BY MapsPartially DEF CoordinatorInv, ProcessesOK
  <2> QED BY <2>1, <2>2, <2>3 DEF TypeOK, CoordinatorInv, ProcessesOK
<1> QED BY CoordinatorInvariant, <1>1, PTL

\* Whatever the coordinator publishes, the ledger in it passes restore() at the next
\* start (coordinator.cpp, recover).
THEOREM LedgerAlwaysReopens == Spec => []LedgerReopens
<1>1. CoordinatorInv => LedgerReopens
  BY GoodParts DEF CoordinatorInv, HeadOK, LedgerOK, LedgerReopens, LedgerReadable
<1> QED BY CoordinatorInvariant, <1>1, PTL

\* No step forgets the artifact a player's state was retained as, whatever later
\* attempt, recovery, displacement of records or restart follows.
THEOREM ArtifactsAlwaysRetained == Spec => ArtifactRetained
<1>1. CoordinatorInv /\ [Next]_vars =>
        [\A p \in Player : LatestArtifact(p)' >= LatestArtifact(p)]_vars
  <2> SUFFICES ASSUME CoordinatorInv, Next
               PROVE  \A p \in Player : LatestArtifact(p)' >= LatestArtifact(p)
    OBVIOUS
  <2>1. HeadOK(head, dead) /\ HeadOK(head', dead') /\ KeepsArtifacts(head, head')
    BY NextStep DEF CoordinatorInv
  <2> QED BY <2>1, ArtifactsGrow
<1> QED BY CoordinatorInvariant, <1>1, PTL DEF Spec, ArtifactRetained
===============================================================================
