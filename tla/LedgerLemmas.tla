---------------------------- MODULE LedgerLemmas ----------------------------
(***************************************************************************)
(* Lemmas about the location ledger's operations, for every value of the   *)
(* constants and whoever calls them.                                       *)
(*                                                                         *)
(* Good is a ledger of the declared type that passes restore()'s checks    *)
(* (Valid) and whose maps are finite.  There is one lemma per operation    *)
(* (XGood: a call the code accepts leads from a good ledger to a good      *)
(* one).  Two frames carry most of them: LeaseFrame for a step that leaves *)
(* locations, avatars and transfers alone, and OnePlayerStep for a step    *)
(* that changes one player's avatar, transfer and interest.                *)
(*                                                                         *)
(* Settled is what a transfer can count on besides: its avatar keeps a     *)
(* generation for the commit or the recovery, and its report never runs    *)
(* ahead of the destination's lease (XSettled, again one per operation).   *)
(***************************************************************************)
EXTENDS LedgerOperations, FiniteSetTheorems, TLAPS

LEMMA PutValue ==
  ASSUME NEW f, NEW k, NEW v
  PROVE  /\ DOMAIN Put(f, k, v) = DOMAIN f \cup {k}
         /\ Put(f, k, v)[k] = v
         /\ \A x \in DOMAIN f : x # k => Put(f, k, v)[x] = f[x]
BY DEF Put

LEMMA WithoutValue ==
  ASSUME NEW f, NEW S
  PROVE  /\ DOMAIN Without(f, S) = DOMAIN f \ S
         /\ \A x \in DOMAIN f \ S : Without(f, S)[x] = f[x]
BY DEF Without, Restrict

LEMMA PartialFunctionIntro ==
  ASSUME NEW S, NEW T, NEW D \in SUBSET S, NEW f \in [D -> T]
  PROVE  f \in PartialFunction(S, T)
BY DEF PartialFunction

LEMMA PartialFunctionElim ==
  ASSUME NEW S, NEW T, NEW f \in PartialFunction(S, T)
  PROVE  /\ DOMAIN f \subseteq S
         /\ f \in [DOMAIN f -> T]
         /\ \A x \in DOMAIN f : f[x] \in T
BY DEF PartialFunction

LEMMA PutType ==
  ASSUME NEW S, NEW T, NEW f \in PartialFunction(S, T), NEW k \in S, NEW v \in T
  PROVE  Put(f, k, v) \in PartialFunction(S, T)
<1>1. Put(f, k, v) \in [DOMAIN f \cup {k} -> T]
  BY PartialFunctionElim DEF Put
<1> QED BY <1>1, PartialFunctionElim, PartialFunctionIntro

LEMMA WithoutType ==
  ASSUME NEW S, NEW T, NEW f \in PartialFunction(S, T), NEW R
  PROVE  Without(f, R) \in PartialFunction(S, T)
<1>1. Without(f, R) \in [DOMAIN f \ R -> T]
  BY PartialFunctionElim DEF Without, Restrict
<1> QED BY <1>1, PartialFunctionElim, PartialFunctionIntro

LEMMA PutSize ==
  ASSUME NEW f, NEW k, NEW v, NEW max \in Nat, IsFiniteSet(DOMAIN f),
         Cardinality(DOMAIN f) <= max,
         k \in DOMAIN f \/ Cardinality(DOMAIN f) < max
  PROVE  IsFiniteSet(DOMAIN Put(f, k, v)) /\ Cardinality(DOMAIN Put(f, k, v)) <= max
<1>1. CASE k \in DOMAIN f
  <2>1. DOMAIN Put(f, k, v) = DOMAIN f  BY <1>1 DEF Put
  <2> QED BY <2>1
<1>2. CASE k \notin DOMAIN f
  <2>1. DOMAIN Put(f, k, v) = DOMAIN f \cup {k}  BY DEF Put
  <2>2. Cardinality(DOMAIN f) < max /\ Cardinality(DOMAIN f) \in Nat
    BY <1>2, FS_CardinalityType
  <2> QED BY <1>2, <2>1, <2>2, FS_AddElement
<1> QED BY <1>1, <1>2

LEMMA WithoutSize ==
  ASSUME NEW f, NEW S, NEW max \in Nat, IsFiniteSet(DOMAIN f), Cardinality(DOMAIN f) <= max
  PROVE  IsFiniteSet(DOMAIN Without(f, S)) /\ Cardinality(DOMAIN Without(f, S)) <= max
<1>1. DOMAIN Without(f, S) \subseteq DOMAIN f  BY DEF Without, Restrict
<1> QED BY <1>1, FS_Subset, FS_CardinalityType

FiniteMaps(L) ==
  /\ IsFiniteSet(DOMAIN L.locations) /\ IsFiniteSet(DOMAIN L.avatars)
  /\ IsFiniteSet(DOMAIN L.transfers) /\ IsFiniteSet(DOMAIN L.interests)
  /\ IsFiniteSet(L.global_events)

Good(L) == L \in Ledger /\ FiniteMaps(L) /\ Valid(L)

LEMMA LedgerFields ==
  ASSUME NEW L \in Ledger
  PROVE  /\ L.locations \in PartialFunction(Location, LocationLease)
         /\ L.avatars \in PartialFunction(Player, AvatarLease)
         /\ L.transfers \in PartialFunction(TransferId, Transfer)
         /\ L.globals \in PartialFunction(System, GlobalLease)
         /\ L.interests \in PartialFunction(Player, InterestLease)
         /\ L.global_events \in SUBSET (System \X EventId)
         /\ L.high_transfer_id \in 0..MaxTransferId
BY DEF Ledger

LEMMA LedgerValues ==
  ASSUME NEW L \in Ledger
  PROVE  /\ \A l \in DOMAIN L.locations : l \in Location /\ L.locations[l] \in LocationLease
         /\ \A p \in DOMAIN L.avatars : p \in Player /\ L.avatars[p] \in AvatarLease
         /\ \A t \in DOMAIN L.transfers : t \in TransferId /\ L.transfers[t] \in Transfer
         /\ \A s \in DOMAIN L.globals : s \in System /\ L.globals[s] \in GlobalLease
         /\ \A p \in DOMAIN L.interests : p \in Player /\ L.interests[p] \in InterestLease
BY LedgerFields, PartialFunctionElim

\* What a step leaves of player p: its avatar, its interest, its transfers.
SamePlayer(L, M, p) ==
  /\ p \in DOMAIN M.avatars <=> p \in DOMAIN L.avatars
  /\ p \in DOMAIN L.avatars => M.avatars[p] = L.avatars[p]
  /\ p \in DOMAIN M.interests => p \in DOMAIN L.interests /\ M.interests[p] = L.interests[p]
  /\ \A t \in DOMAIN L.transfers : L.transfers[t].player = p =>
       t \in DOMAIN M.transfers /\ M.transfers[t] = L.transfers[t]
  /\ \A t \in DOMAIN M.transfers : M.transfers[t].player = p =>
       t \in DOMAIN L.transfers /\ M.transfers[t] = L.transfers[t]

LEMMA LeaseFrame ==
  ASSUME NEW L, NEW M, LocationsValid(L), AvatarsValid(L), TransfersValid(L),
         M.locations = L.locations, M.avatars = L.avatars, M.transfers = L.transfers,
         M.high_transfer_id = L.high_transfer_id
  PROVE  LocationsValid(M) /\ AvatarsValid(M) /\ TransfersValid(M)
<1>1. LocationsValid(M)
  BY DEF LocationsValid
<1>2. AvatarsValid(M)
  BY DEF AvatarsValid, AvatarValid, TransferFenced, TransferIn
<1>3. ASSUME NEW t \in DOMAIN M.transfers  PROVE TransferValid(M, t)
  <2>1. TransferValid(L, t)
    BY DEF TransfersValid
  <2> QED BY <2>1 DEF TransferValid, TransferPhaseValid
<1>4. TransfersApart(M)
  BY DEF TransfersValid, TransfersApart
<1> QED BY <1>1, <1>2, <1>3, <1>4 DEF TransfersValid

LEMMA OnePlayerStep ==
  ASSUME NEW L, NEW M, Valid(L), L \in Ledger, M \in Ledger, NEW q,
         M.locations = L.locations,
         M.high_transfer_id >= L.high_transfer_id,
         \A p \in Player : p # q => SamePlayer(L, M, p),
         q \in DOMAIN M.avatars => AvatarValid(M, q),
         q \in DOMAIN M.interests => InterestValid(M, q),
         \A t \in DOMAIN M.transfers : M.transfers[t].player = q => TransferValid(M, t),
         \A t, u \in DOMAIN M.transfers :
           M.transfers[t].player = q /\ M.transfers[u].player = q => t = u
  PROVE  /\ LocationsValid(M)
         /\ AvatarsValid(M)
         /\ TransfersValid(M)
         /\ InterestsValid(M)
<1>0. LocationsValid(L) /\ AvatarsValid(L) /\ TransfersValid(L) /\ InterestsValid(L)
  BY DEF Valid
<1>1. LocationsValid(M)
  BY <1>0 DEF LocationsValid
<1>2. ASSUME NEW p \in DOMAIN M.avatars, p # q  PROVE AvatarValid(M, p)
  <2>1. SamePlayer(L, M, p)  BY <1>2, LedgerValues
  <2>2. AvatarValid(L, p) /\ M.avatars[p] = L.avatars[p]
    BY <1>0, <2>1 DEF SamePlayer, AvatarsValid
  <2>3. TransferFenced(L, p) => TransferFenced(M, p)
    BY <2>1 DEF SamePlayer, TransferFenced, TransferIn
  <2> QED BY <2>2, <2>3 DEF AvatarValid
<1>3. ASSUME NEW t \in DOMAIN M.transfers, M.transfers[t].player # q
      PROVE  TransferValid(M, t)
  <2> DEFINE p == M.transfers[t].player
  <2>1. SamePlayer(L, M, p)  BY <1>3, LedgerValues DEF Transfer
  <2>2. t \in DOMAIN L.transfers /\ M.transfers[t] = L.transfers[t]
    BY <2>1 DEF SamePlayer
  <2>3. TransferValid(L, t) /\ p \in DOMAIN L.avatars
    BY <1>0, <2>2 DEF TransfersValid, TransferValid
  <2>4. p \in DOMAIN M.avatars /\ M.avatars[p] = L.avatars[p]
    BY <2>1, <2>3 DEF SamePlayer
  <2>5. t \in Nat /\ L.high_transfer_id \in Nat /\ M.high_transfer_id \in Nat
    BY LedgerValues, LedgerFields, LedgerAssumption DEF TransferId
  <2>6. TransferPhaseValid(M, t)
    BY <2>2, <2>3, <2>4 DEF TransferValid, TransferPhaseValid
  <2> QED BY <2>2, <2>3, <2>4, <2>5, <2>6 DEF TransferValid
<1>4. TransfersApart(M)
  <2> SUFFICES ASSUME NEW t \in DOMAIN M.transfers, NEW u \in DOMAIN M.transfers,
                      t # u, M.transfers[t].player = M.transfers[u].player
               PROVE  FALSE
    BY DEF TransfersApart
  <2>1. M.transfers[t].player # q
    OBVIOUS
  <2>2. SamePlayer(L, M, M.transfers[t].player)
    BY <2>1, LedgerValues DEF Transfer
  <2> QED BY <1>0, <2>2 DEF SamePlayer, TransfersValid, TransfersApart
<1>5. ASSUME NEW p \in DOMAIN M.interests, p # q  PROVE InterestValid(M, p)
  <2>1. SamePlayer(L, M, p)  BY <1>5, LedgerValues
  <2>2. InterestValid(L, p) /\ M.interests[p] = L.interests[p]
    BY <1>0, <2>1 DEF SamePlayer, InterestsValid
  <2>3. M.avatars[p] = L.avatars[p] /\ p \in DOMAIN M.avatars
    BY <2>1, <2>2 DEF SamePlayer, InterestValid, AcceptsAvatarOutcome
  <2> QED BY <2>2, <2>3 DEF InterestValid, AcceptsAvatarOutcome
<1> QED
  BY <1>1, <1>2, <1>3, <1>4, <1>5 DEF AvatarsValid, TransfersValid, InterestsValid

\* What every step lemma below establishes.
LEMMA GoodParts ==
  ASSUME NEW L, Good(L)
  PROVE  /\ L \in Ledger /\ FiniteMaps(L) /\ Valid(L)
         /\ SizesValid(L) /\ LocationsValid(L) /\ AvatarsValid(L)
         /\ TransfersValid(L) /\ InterestsValid(L)
BY DEF Good, Valid

-----------------------------------------------------------------------------
(* ActivateAvatar: an avatar and its interest become current together. *)

LEMMA ActivateAvatarFacts ==
  ASSUME NEW L \in Ledger, NEW player \in Player, NEW location \in DOMAIN L.locations,
         NEW g \in Generation, NEW A, A = ActivateAvatar(L, player, location, g)
  PROVE  /\ A \in Ledger
         /\ A.locations = L.locations /\ A.transfers = L.transfers
         /\ A.globals = L.globals /\ A.global_events = L.global_events
         /\ A.high_transfer_id = L.high_transfer_id
         /\ DOMAIN A.avatars = DOMAIN L.avatars \cup {player}
         /\ DOMAIN A.interests = DOMAIN L.interests \cup {player}
         /\ \A p \in DOMAIN A.avatars : p # player => A.avatars[p] = L.avatars[p]
         /\ \A p \in DOMAIN A.interests : p # player => A.interests[p] = L.interests[p]
         /\ A.avatars[player].location = location
         /\ A.avatars[player].generation = g
         /\ A.avatars[player].active
         /\ L.locations[location].active => InterestValid(A, player)
<1> DEFINE avatar == [generation |-> g, location |-> location, active |-> TRUE]
           interest == InterestAt(L, location, g)
<1>1. avatar \in AvatarLease /\ interest \in InterestLease
  BY LedgerValues DEF AvatarLease, InterestLease, InterestAt, LocationLease
<1>2. /\ Put(L.avatars, player, avatar) \in PartialFunction(Player, AvatarLease)
      /\ Put(L.interests, player, interest) \in PartialFunction(Player, InterestLease)
  BY <1>1, LedgerFields, PutType
<1>3. A \in Ledger
  BY <1>2 DEF ActivateAvatar, Ledger
<1>4. /\ A.locations = L.locations /\ A.transfers = L.transfers
      /\ A.globals = L.globals /\ A.global_events = L.global_events
      /\ A.high_transfer_id = L.high_transfer_id
      /\ A.avatars = Put(L.avatars, player, avatar)
      /\ A.interests = Put(L.interests, player, interest)
  BY DEF ActivateAvatar, Ledger
<1>5. /\ DOMAIN A.avatars = DOMAIN L.avatars \cup {player}
      /\ \A p \in DOMAIN A.avatars : p # player => A.avatars[p] = L.avatars[p]
      /\ A.avatars[player] = avatar
  BY <1>4 DEF Put
<1>6. /\ DOMAIN A.interests = DOMAIN L.interests \cup {player}
      /\ \A p \in DOMAIN A.interests : p # player => A.interests[p] = L.interests[p]
      /\ A.interests[player] = interest
  BY <1>4 DEF Put
<1>7. ASSUME L.locations[location].active  PROVE InterestValid(A, player)
  <2>1. /\ A.interests[player].location = location
        /\ A.interests[player].avatar_generation = g
        /\ A.interests[player].worker = L.locations[location].worker
        /\ A.interests[player].worker_generation = L.locations[location].generation
    BY <1>6 DEF InterestAt
  <2> QED BY <1>4, <1>5, <1>7, <2>1 DEF InterestValid, AcceptsAvatarOutcome
<1>8. /\ A.avatars[player].location = location
      /\ A.avatars[player].generation = g
      /\ A.avatars[player].active
  BY <1>5
<1> QED BY <1>3, <1>4, <1>5, <1>6, <1>7, <1>8

LEMMA ActivateAvatarSizes ==
  ASSUME NEW L \in Ledger, FiniteMaps(L), SizesValid(L), NEW player, NEW location, NEW g,
         player \in DOMAIN L.avatars \/ Cardinality(DOMAIN L.avatars) < MaxAvatars,
         InterestsValid(L), NEW A, A = ActivateAvatar(L, player, location, g)
  PROVE  FiniteMaps(A) /\ SizesValid(A)
<1> DEFINE avatar == [generation |-> g, location |-> location, active |-> TRUE]
           interest == InterestAt(L, location, g)
<1>1. /\ A.locations = L.locations /\ A.transfers = L.transfers
      /\ A.global_events = L.global_events
      /\ A.avatars = Put(L.avatars, player, avatar)
      /\ A.interests = Put(L.interests, player, interest)
  BY DEF ActivateAvatar, Ledger
<1>2. IsFiniteSet(DOMAIN A.avatars) /\ Cardinality(DOMAIN A.avatars) <= MaxAvatars
  BY <1>1, PutSize, LedgerAssumption DEF FiniteMaps, SizesValid
<1>3. DOMAIN L.interests \subseteq DOMAIN L.avatars
  BY DEF InterestsValid, InterestValid, AcceptsAvatarOutcome
<1>4. DOMAIN A.interests \subseteq DOMAIN A.avatars
  BY <1>1, <1>3 DEF Put
<1>5. IsFiniteSet(DOMAIN A.interests) /\ Cardinality(DOMAIN A.interests) <= MaxAvatars
  BY <1>2, <1>4, FS_Subset, FS_CardinalityType, LedgerAssumption
<1> QED BY <1>1, <1>2, <1>5 DEF FiniteMaps, SizesValid

-----------------------------------------------------------------------------
(* One lemma per operation: a good ledger and an accepted call give a good  *)
(* ledger.                                                                  *)

LEMMA PlaceAvatarGood ==
  ASSUME NEW L, Good(L), NEW player \in Player, NEW id \in Location,
         CanPlaceAvatar(L, player, id)
  PROVE  Good(PlaceAvatar(L, player, id))
<1> DEFINE M == PlaceAvatar(L, player, id)
           first == 1
<1>0. /\ L \in Ledger /\ FiniteMaps(L) /\ Valid(L) /\ SizesValid(L)
      /\ AvatarsValid(L) /\ TransfersValid(L) /\ InterestsValid(L)
      /\ first \in Generation
  BY GoodParts, LedgerAssumption DEF Generation
<1>1. M = ActivateAvatar(L, player, id, first)  BY DEF PlaceAvatar
<1> HIDE DEF M, first
<1>2. /\ id \in DOMAIN L.locations /\ L.locations[id].active
      /\ player \notin DOMAIN L.avatars
      /\ Cardinality(DOMAIN L.avatars) < MaxAvatars
  BY DEF CanPlaceAvatar
<1>3. /\ M \in Ledger
      /\ M.locations = L.locations /\ M.transfers = L.transfers
      /\ M.high_transfer_id = L.high_transfer_id
      /\ DOMAIN M.avatars = DOMAIN L.avatars \cup {player}
      /\ DOMAIN M.interests = DOMAIN L.interests \cup {player}
      /\ \A p \in DOMAIN M.avatars : p # player => M.avatars[p] = L.avatars[p]
      /\ \A p \in DOMAIN M.interests : p # player => M.interests[p] = L.interests[p]
      /\ M.avatars[player].location = id
      /\ M.avatars[player].active
      /\ L.locations[id].active => InterestValid(M, player)
  BY <1>0, <1>1, <1>2, ActivateAvatarFacts
<1>4. FiniteMaps(M) /\ SizesValid(M)
  BY <1>0, <1>1, <1>2, ActivateAvatarSizes
<1>5. \A p \in Player : p # player => SamePlayer(L, M, p)
  BY <1>3 DEF SamePlayer
<1>6. AvatarValid(M, player)
  BY <1>2, <1>3 DEF AvatarValid
<1>7. \A t \in DOMAIN M.transfers : M.transfers[t].player # player
  BY <1>0, <1>2, <1>3 DEF TransfersValid, TransferValid
<1>8. M.high_transfer_id >= L.high_transfer_id
  BY <1>0, <1>3, LedgerFields
<1>9. /\ LocationsValid(M) /\ AvatarsValid(M)
      /\ TransfersValid(M) /\ InterestsValid(M)
  BY <1>0, <1>2, <1>3, <1>5, <1>6, <1>7, <1>8, OnePlayerStep
<1> QED BY <1>3, <1>4, <1>9 DEF Good, Valid, M

LEMMA BeginTransferGood ==
  ASSUME NEW L, Good(L), NEW id \in TransferId, NEW player \in Player,
         NEW destination \in Location, CanBeginTransfer(L, id, player, destination)
  PROVE  Good(BeginTransfer(L, id, player, destination))
<1> DEFINE M == BeginTransfer(L, id, player, destination)
           source == L.avatars[player].location
           prepared == [player |-> player,
                        source_generation |-> L.avatars[player].generation,
                        destination_generation |-> 0, source |-> source,
                        destination |-> destination, phase |-> "prepared"]
<1>0. /\ L \in Ledger /\ FiniteMaps(L) /\ Valid(L) /\ SizesValid(L)
      /\ AvatarsValid(L) /\ TransfersValid(L) /\ InterestsValid(L)
  BY GoodParts
<1>1. /\ player \in DOMAIN L.avatars /\ L.avatars[player] \in AvatarLease
      /\ destination \in DOMAIN L.locations
  BY <1>0, LedgerValues DEF CanBeginTransfer
<1>2. prepared \in Transfer
  BY <1>1, LedgerAssumption DEF Transfer, AvatarLease, Generation, Phase
<1>3. /\ M.locations = L.locations /\ M.avatars = L.avatars
      /\ M.interests = L.interests /\ M.global_events = L.global_events
      /\ M.transfers = Put(L.transfers, id, prepared)
      /\ M.high_transfer_id = id
  BY <1>0 DEF BeginTransfer, Ledger
<1>4. M \in Ledger
  <2>1. Put(L.transfers, id, prepared) \in PartialFunction(TransferId, Transfer)
    BY <1>0, <1>2, LedgerFields, PutType
  <2>2. id \in 0..MaxTransferId  BY LedgerAssumption DEF TransferId
  <2> QED BY <1>0, <2>1, <2>2 DEF BeginTransfer, Ledger
<1> HIDE DEF M
<1>5. FiniteMaps(M) /\ SizesValid(M)
  BY <1>0, <1>3, PutSize, LedgerAssumption DEF FiniteMaps, SizesValid, CanBeginTransfer
<1>6. id \in Nat /\ L.high_transfer_id \in Nat /\ id > L.high_transfer_id
  BY <1>0, LedgerFields, LedgerAssumption DEF CanBeginTransfer, TransferId
<1>7. id \notin DOMAIN L.transfers
  <2>1. \A t \in DOMAIN L.transfers : t \in Nat /\ t <= L.high_transfer_id
    BY <1>0, LedgerValues, LedgerAssumption DEF TransfersValid, TransferValid, TransferId
  <2> QED BY <1>6, <2>1
<1>8. \A t \in DOMAIN L.transfers : L.transfers[t].player # player
  BY <1>0, LedgerValues DEF CanBeginTransfer, TransferIn, Transfer
<1>9. /\ DOMAIN M.transfers = DOMAIN L.transfers \cup {id}
      /\ \A t \in DOMAIN L.transfers : M.transfers[t] = L.transfers[t]
      /\ M.transfers[id] = prepared
  BY <1>3, <1>7 DEF Put
<1>10. /\ M.transfers[id].player = player /\ M.transfers[id].source = source
       /\ M.transfers[id].source_generation = L.avatars[player].generation
       /\ M.transfers[id].destination_generation = 0
       /\ M.transfers[id].destination = destination
       /\ M.transfers[id].phase = "prepared"
  BY <1>9
<1>11. \A p \in Player : p # player => SamePlayer(L, M, p)
  BY <1>3, <1>8, <1>9, <1>10 DEF SamePlayer
<1>12. AvatarValid(M, player)
  BY <1>0, <1>1, <1>3 DEF AvatarValid, AvatarsValid, CanBeginTransfer
<1>13. player \in DOMAIN M.interests => InterestValid(M, player)
  BY <1>0, <1>3 DEF InterestsValid, InterestValid, AcceptsAvatarOutcome
<1>14. TransferValid(M, id)
  <2>1. source \in DOMAIN L.locations /\ source # destination /\ L.avatars[player].active
    BY DEF CanBeginTransfer
  <2>2. TransferPhaseValid(M, id)
    BY <1>3, <1>10, <2>1 DEF TransferPhaseValid
  <2> QED BY <1>1, <1>3, <1>6, <1>10, <2>1, <2>2 DEF TransferValid
<1>15. \A t \in DOMAIN M.transfers : M.transfers[t].player = player => t = id
  BY <1>8, <1>9
<1>16. /\ LocationsValid(M) /\ AvatarsValid(M)
       /\ TransfersValid(M) /\ InterestsValid(M)
  BY <1>0, <1>3, <1>4, <1>6, <1>11, <1>12, <1>13, <1>14, <1>15, OnePlayerStep
<1> QED BY <1>4, <1>5, <1>16 DEF Good, Valid, M

LEMMA FenceSourceGood ==
  ASSUME NEW L, Good(L), NEW id \in TransferId, NEW g, CanFenceSource(L, id, g)
  PROVE  Good(FenceSource(L, id))
<1> DEFINE M == FenceSource(L, id)
           player == L.transfers[id].player
           avatar == L.avatars[player]
           fenced == [generation |-> avatar.generation + 1,
                      location |-> avatar.location, active |-> FALSE]
           marked == [L.transfers[id] EXCEPT !.phase = "source_fenced"]
<1>0. /\ L \in Ledger /\ FiniteMaps(L) /\ Valid(L) /\ SizesValid(L)
      /\ AvatarsValid(L) /\ TransfersValid(L) /\ InterestsValid(L)
  BY GoodParts
<1>1. /\ id \in DOMAIN L.transfers /\ L.transfers[id] \in Transfer
      /\ L.transfers[id].phase = "prepared"
      /\ TransferValid(L, id)
  BY <1>0, LedgerValues DEF CanFenceSource, InPhase, TransfersValid
<1>2. player \in DOMAIN L.avatars /\ player \in Player /\ avatar \in AvatarLease
  BY <1>0, <1>1, LedgerValues DEF TransferValid
<1>3. fenced \in AvatarLease
  BY <1>2, LedgerAssumption DEF CanFenceSource, Generation, AvatarLease
<1>4. marked \in Transfer
  BY <1>1 DEF Transfer, Phase
<1>5. /\ M.locations = L.locations
      /\ M.avatars = Put(L.avatars, player, fenced)
      /\ M.interests = Without(L.interests, {player})
      /\ M.transfers = Put(L.transfers, id, marked)
      /\ M.global_events = L.global_events
      /\ M.high_transfer_id = L.high_transfer_id
  BY <1>0 DEF FenceSource, Ledger
<1>6. M \in Ledger
  <2>1. /\ Put(L.avatars, player, fenced) \in PartialFunction(Player, AvatarLease)
        /\ Without(L.interests, {player}) \in PartialFunction(Player, InterestLease)
        /\ Put(L.transfers, id, marked) \in PartialFunction(TransferId, Transfer)
    BY <1>0, <1>2, <1>3, <1>4, LedgerFields, PutType, WithoutType
  <2> QED BY <1>0, <2>1 DEF FenceSource, Ledger
<1> HIDE DEF M
<1>7. FiniteMaps(M) /\ SizesValid(M)
  BY <1>0, <1>1, <1>2, <1>5, PutSize, WithoutSize, LedgerAssumption DEF FiniteMaps, SizesValid
<1>8. /\ DOMAIN M.avatars = DOMAIN L.avatars
      /\ DOMAIN M.transfers = DOMAIN L.transfers
      /\ \A p \in DOMAIN L.avatars : p # player => M.avatars[p] = L.avatars[p]
      /\ \A t \in DOMAIN L.transfers : t # id => M.transfers[t] = L.transfers[t]
      /\ M.avatars[player] = fenced /\ M.transfers[id] = marked
  BY <1>1, <1>2, <1>5 DEF Put
<1>9. /\ M.avatars[player].location = avatar.location
      /\ M.avatars[player].generation = avatar.generation + 1
      /\ ~M.avatars[player].active
  BY <1>8
<1>10. /\ M.transfers[id].player = player
       /\ M.transfers[id].source = L.transfers[id].source
       /\ M.transfers[id].destination = L.transfers[id].destination
       /\ M.transfers[id].source_generation = L.transfers[id].source_generation
       /\ M.transfers[id].destination_generation = L.transfers[id].destination_generation
       /\ M.transfers[id].phase = "source_fenced"
  BY <1>1, <1>8 DEF Transfer
<1>11. \A t \in DOMAIN L.transfers : t # id => L.transfers[t].player # player
  BY <1>0, <1>1 DEF TransfersValid, TransfersApart
<1>12. player \notin DOMAIN M.interests
       /\ \A p \in DOMAIN M.interests : p \in DOMAIN L.interests /\ M.interests[p] = L.interests[p]
  BY <1>5 DEF Without, Restrict
<1>13. \A p \in Player : p # player => SamePlayer(L, M, p)
  BY <1>1, <1>8, <1>10, <1>12 DEF SamePlayer
<1>14. AvatarValid(M, player)
  <2>1. TransferFenced(M, player)
    BY <1>1, <1>8, <1>10 DEF TransferFenced, TransferIn
  <2>2. avatar.location \in DOMAIN L.locations
    BY <1>0, <1>2 DEF AvatarsValid, AvatarValid
  <2> QED BY <1>5, <1>9, <2>1, <2>2 DEF AvatarValid
<1>15. TransferValid(M, id)
  <2>1. avatar.generation \in Nat /\ avatar.generation + 1 > L.transfers[id].source_generation
    BY <1>1, <1>2 DEF TransferValid, TransferPhaseValid, AvatarLease, Generation
  <2>2. L.transfers[id].destination_generation = 0 /\ avatar.location = L.transfers[id].source
    BY <1>1 DEF TransferValid, TransferPhaseValid
  <2>3. TransferPhaseValid(M, id)
    BY <1>9, <1>10, <2>1, <2>2 DEF TransferPhaseValid
  <2> QED BY <1>1, <1>5, <1>8, <1>10, <2>3 DEF TransferValid
<1>16. \A t \in DOMAIN M.transfers : M.transfers[t].player = player => t = id
  BY <1>8, <1>11
<1>17. M.high_transfer_id >= L.high_transfer_id
  BY <1>0, <1>5, LedgerFields
<1>18. /\ LocationsValid(M) /\ AvatarsValid(M)
       /\ TransfersValid(M) /\ InterestsValid(M)
  BY <1>0, <1>5, <1>6, <1>12, <1>13, <1>14, <1>15, <1>16, <1>17, OnePlayerStep
<1> QED BY <1>6, <1>7, <1>18 DEF Good, Valid, M

\* Marking a transfer that stays in place: its avatar, and every other map,
\* are left alone.
LEMMA MarkTransferGood ==
  ASSUME NEW L, Good(L), NEW id \in DOMAIN L.transfers, NEW marked \in Transfer,
         marked.player = L.transfers[id].player,
         NEW M, M = [L EXCEPT !.transfers = Put(L.transfers, id, marked)],
         AvatarValid(M, marked.player), TransferValid(M, id)
  PROVE  Good(M)
<1> DEFINE player == marked.player
<1>0. /\ L \in Ledger /\ FiniteMaps(L) /\ Valid(L) /\ SizesValid(L)
      /\ AvatarsValid(L) /\ TransfersValid(L) /\ InterestsValid(L)
  BY GoodParts
<1>1. /\ M.locations = L.locations /\ M.avatars = L.avatars
      /\ M.interests = L.interests /\ M.global_events = L.global_events
      /\ M.transfers = Put(L.transfers, id, marked)
      /\ M.high_transfer_id = L.high_transfer_id
  BY <1>0 DEF Ledger
<1>2. id \in TransferId  BY <1>0, LedgerValues
<1>3. M \in Ledger
  <2>1. Put(L.transfers, id, marked) \in PartialFunction(TransferId, Transfer)
    BY <1>0, <1>2, LedgerFields, PutType
  <2> QED BY <1>0, <2>1 DEF Ledger
<1>4. FiniteMaps(M) /\ SizesValid(M)
  BY <1>0, <1>1, PutSize, LedgerAssumption DEF FiniteMaps, SizesValid
<1>5. /\ DOMAIN M.transfers = DOMAIN L.transfers
      /\ \A t \in DOMAIN L.transfers : t # id => M.transfers[t] = L.transfers[t]
      /\ M.transfers[id] = marked
  BY <1>1 DEF Put
<1>6. \A p \in Player : p # player => SamePlayer(L, M, p)
  BY <1>1, <1>5 DEF SamePlayer
<1> HIDE DEF player
<1>7. player \in DOMAIN M.interests => InterestValid(M, player)
  BY <1>0, <1>1 DEF InterestsValid, InterestValid, AcceptsAvatarOutcome
<1>8. \A t \in DOMAIN M.transfers : M.transfers[t].player = player => t = id
  BY <1>0, <1>5 DEF TransfersValid, TransfersApart, player
<1>9. M.high_transfer_id >= L.high_transfer_id
  BY <1>0, <1>1, LedgerFields
<1>10. AvatarValid(M, player)
  BY DEF player
<1>11. \A t \in DOMAIN M.transfers : M.transfers[t].player = player => TransferValid(M, t)
  BY <1>8
<1>12. /\ LocationsValid(M) /\ AvatarsValid(M)
       /\ TransfersValid(M) /\ InterestsValid(M)
  BY <1>0, <1>1, <1>3, <1>6, <1>7, <1>8, <1>9, <1>10, <1>11, OnePlayerStep
<1> QED BY <1>3, <1>4, <1>12 DEF Good, Valid

LEMMA DestinationRestoredGood ==
  ASSUME NEW L, Good(L), NEW id \in TransferId, NEW worker, NEW generation \in Generation,
         CanDestinationRestored(L, id, worker, generation)
  PROVE  Good(DestinationRestored(L, id, generation))
<1> DEFINE M == DestinationRestored(L, id, generation)
           marked == [L.transfers[id] EXCEPT !.destination_generation = generation,
                                             !.phase = "destination_restored"]
<1>0. L \in Ledger /\ AvatarsValid(L) /\ TransfersValid(L)
  BY GoodParts
<1>1. /\ id \in DOMAIN L.transfers /\ L.transfers[id] \in Transfer
      /\ L.transfers[id].phase \in {"source_fenced", "destination_restored"}
      /\ TransferValid(L, id) /\ L.transfers[id].player \in DOMAIN L.avatars
  BY <1>0, LedgerValues DEF CanDestinationRestored, InPhase, TransfersValid, TransferValid
<1>2. generation \in 0..MaxGeneration /\ generation # 0  BY LedgerAssumption DEF Generation
<1>3. /\ marked \in Transfer
      /\ marked.player = L.transfers[id].player
      /\ marked.source = L.transfers[id].source
      /\ marked.destination = L.transfers[id].destination
      /\ marked.source_generation = L.transfers[id].source_generation
      /\ marked.destination_generation = generation
      /\ marked.phase = "destination_restored"
  <2>1. marked \in Transfer  BY <1>1, <1>2 DEF Transfer, Phase
  <2> QED BY <1>1, <2>1 DEF Transfer
<1>4. M = [L EXCEPT !.transfers = Put(L.transfers, id, marked)]
  BY DEF DestinationRestored
<1>5. /\ M.locations = L.locations /\ M.avatars = L.avatars
      /\ M.transfers = Put(L.transfers, id, marked)
      /\ M.high_transfer_id = L.high_transfer_id
  BY <1>0, <1>4 DEF Ledger
<1> HIDE DEF M, marked
<1>6. M.transfers[id] = marked /\ id \in DOMAIN M.transfers
      /\ \A t \in DOMAIN L.transfers :
           t # id => t \in DOMAIN M.transfers /\ M.transfers[t] = L.transfers[t]
  BY <1>5 DEF Put
<1>7. AvatarValid(M, marked.player)
  <2>1. TransferFenced(M, marked.player)
    BY <1>3, <1>6 DEF TransferFenced, TransferIn
  <2>2. AvatarValid(L, marked.player)  BY <1>0, <1>1, <1>3 DEF AvatarsValid
  <2> QED BY <1>5, <2>1, <2>2 DEF AvatarValid
<1>8. TransferValid(M, id)
  <2>1. TransferPhaseValid(M, id)
    BY <1>1, <1>2, <1>3, <1>5, <1>6 DEF TransferValid, TransferPhaseValid
  <2> QED BY <1>1, <1>3, <1>5, <1>6, <2>1 DEF TransferValid
<1>9. Good(M)
  BY <1>1, <1>3, <1>4, <1>7, <1>8, MarkTransferGood
<1> QED BY <1>9 DEF M

LEMMA RecoverCommittedDestinationGood ==
  ASSUME NEW L, Good(L), NEW id \in TransferId, NEW worker, NEW generation \in Generation,
         CanRecoverCommittedDestination(L, id, worker, generation)
  PROVE  Good(RecoverCommittedDestination(L, id, generation))
<1> DEFINE M == RecoverCommittedDestination(L, id, generation)
           marked == [L.transfers[id] EXCEPT !.destination_generation = generation]
<1>0. L \in Ledger /\ AvatarsValid(L) /\ TransfersValid(L)
  BY GoodParts
<1>1. /\ id \in DOMAIN L.transfers /\ L.transfers[id] \in Transfer
      /\ L.transfers[id].phase = "committed"
      /\ TransferValid(L, id) /\ L.transfers[id].player \in DOMAIN L.avatars
      /\ L.avatars[L.transfers[id].player].active
  BY <1>0, LedgerValues
  DEF CanRecoverCommittedDestination, InPhase, TransfersValid, TransferValid
<1>2. generation \in 0..MaxGeneration /\ generation # 0  BY LedgerAssumption DEF Generation
<1>3. /\ marked \in Transfer
      /\ marked.player = L.transfers[id].player
      /\ marked.source = L.transfers[id].source
      /\ marked.destination = L.transfers[id].destination
      /\ marked.destination_generation = generation
      /\ marked.phase = "committed"
  BY <1>1, <1>2 DEF Transfer
<1>4. M = [L EXCEPT !.transfers = Put(L.transfers, id, marked)]
  BY DEF RecoverCommittedDestination
<1>5. /\ M.locations = L.locations /\ M.avatars = L.avatars
      /\ M.transfers = Put(L.transfers, id, marked)
      /\ M.high_transfer_id = L.high_transfer_id
  BY <1>0, <1>4 DEF Ledger
<1> HIDE DEF M, marked
<1>6. M.transfers[id] = marked
  BY <1>5 DEF Put
<1>7. AvatarValid(M, marked.player)
  <2>1. AvatarValid(L, marked.player)  BY <1>0, <1>1, <1>3 DEF AvatarsValid
  <2> QED BY <1>1, <1>3, <1>5, <2>1 DEF AvatarValid
<1>8. TransferValid(M, id)
  <2>1. TransferPhaseValid(M, id)
    BY <1>1, <1>2, <1>3, <1>5, <1>6 DEF TransferValid, TransferPhaseValid
  <2> QED BY <1>1, <1>3, <1>5, <1>6, <2>1 DEF TransferValid
<1>9. Good(M)
  BY <1>1, <1>3, <1>4, <1>7, <1>8, MarkTransferGood
<1> QED BY <1>9 DEF M

LEMMA CommitTransferGood ==
  ASSUME NEW L, Good(L), NEW id \in TransferId, CanCommitTransfer(L, id)
  PROVE  Good(CommitTransfer(L, id))
<1> DEFINE M == CommitTransfer(L, id)
           transfer == L.transfers[id]
           player == transfer.player
           g == L.avatars[player].generation + 1
           A == ActivateAvatar(L, player, transfer.destination, g)
           marked == [transfer EXCEPT !.phase = "committed"]
<1>0. /\ L \in Ledger /\ FiniteMaps(L) /\ Valid(L) /\ SizesValid(L)
      /\ AvatarsValid(L) /\ TransfersValid(L) /\ InterestsValid(L)
  BY GoodParts
<1>1. /\ id \in DOMAIN L.transfers /\ transfer \in Transfer
      /\ transfer.phase = "destination_restored"
      /\ TransferValid(L, id) /\ TransferPhaseValid(L, id)
      /\ player \in DOMAIN L.avatars /\ player \in Player
      /\ transfer.destination \in DOMAIN L.locations
      /\ L.locations[transfer.destination].active
  BY <1>0, LedgerValues DEF CanCommitTransfer, InPhase, TransfersValid, TransferValid
<1>2. g \in Generation
  BY <1>0, <1>1, LedgerValues, LedgerAssumption DEF CanCommitTransfer, AvatarLease, Generation
<1>3. /\ marked \in Transfer
      /\ marked.player = player
      /\ marked.source = transfer.source
      /\ marked.destination = transfer.destination
      /\ marked.destination_generation = transfer.destination_generation
      /\ marked.phase = "committed"
  BY <1>1 DEF Transfer, Phase
<1>4. M = [A EXCEPT !.transfers = Put(A.transfers, id, marked)]
  BY <1>0 DEF CommitTransfer, ActivateAvatar, Ledger
<1> HIDE DEF M, A, marked, g
<1>5. A = ActivateAvatar(L, player, transfer.destination, g)  BY DEF A
<1> HIDE DEF player, transfer
<1>6. /\ A \in Ledger
      /\ A.locations = L.locations /\ A.transfers = L.transfers
      /\ A.global_events = L.global_events
      /\ A.high_transfer_id = L.high_transfer_id
      /\ DOMAIN A.avatars = DOMAIN L.avatars \cup {player}
      /\ DOMAIN A.interests = DOMAIN L.interests \cup {player}
      /\ \A p \in DOMAIN A.avatars : p # player => A.avatars[p] = L.avatars[p]
      /\ \A p \in DOMAIN A.interests : p # player => A.interests[p] = L.interests[p]
      /\ A.avatars[player].location = transfer.destination
      /\ A.avatars[player].active
      /\ L.locations[transfer.destination].active => InterestValid(A, player)
  BY <1>0, <1>1, <1>2, <1>5, ActivateAvatarFacts
<1>7. FiniteMaps(A) /\ SizesValid(A)
  BY <1>0, <1>1, <1>5, ActivateAvatarSizes
<1>8. /\ M.locations = L.locations /\ M.avatars = A.avatars
      /\ M.interests = A.interests /\ M.global_events = A.global_events
      /\ M.transfers = Put(L.transfers, id, marked)
      /\ M.high_transfer_id = L.high_transfer_id
  BY <1>4, <1>6 DEF Ledger
<1>9. M \in Ledger
  <2>1. Put(L.transfers, id, marked) \in PartialFunction(TransferId, Transfer)
    BY <1>0, <1>3, LedgerFields, PutType
  <2> QED BY <1>4, <1>6, <2>1 DEF Ledger
<1>10. FiniteMaps(M) /\ SizesValid(M)
  <2>1. /\ IsFiniteSet(DOMAIN M.transfers)
        /\ Cardinality(DOMAIN M.transfers) <= MaxTransfers
    BY <1>0, <1>1, <1>8, PutSize, LedgerAssumption DEF FiniteMaps, SizesValid
  <2> QED BY <1>6, <1>7, <1>8, <2>1 DEF FiniteMaps, SizesValid
<1>11. /\ DOMAIN M.transfers = DOMAIN L.transfers
       /\ \A t \in DOMAIN L.transfers : t # id => M.transfers[t] = L.transfers[t]
       /\ M.transfers[id] = marked
  BY <1>1, <1>8 DEF Put
<1>12. \A t \in DOMAIN L.transfers : L.transfers[t].player = player => t = id
  BY <1>0, <1>1 DEF TransfersValid, TransfersApart, player, transfer
<1>13. \A p \in Player : p # player => SamePlayer(L, M, p)
  BY <1>1, <1>3, <1>6, <1>8, <1>11, <1>12 DEF SamePlayer, player, transfer
<1>14. AvatarValid(M, player)
  BY <1>1, <1>6, <1>8 DEF AvatarValid
<1>15. InterestValid(M, player)
  BY <1>1, <1>6, <1>8 DEF InterestValid, AcceptsAvatarOutcome
<1>16. TransferValid(M, id)
  <2>1. transfer.destination_generation # 0
    BY <1>1 DEF TransferPhaseValid, transfer
  <2>2. TransferPhaseValid(M, id)
    BY <1>3, <1>6, <1>8, <1>11, <2>1 DEF TransferPhaseValid
  <2> QED BY <1>1, <1>3, <1>6, <1>8, <1>11, <2>2 DEF TransferValid, transfer
<1>17. \A t \in DOMAIN M.transfers : M.transfers[t].player = player => t = id
  BY <1>11, <1>12
<1>18. M.high_transfer_id >= L.high_transfer_id
  BY <1>0, <1>8, LedgerFields
<1>19. /\ LocationsValid(M) /\ AvatarsValid(M)
       /\ TransfersValid(M) /\ InterestsValid(M)
  BY <1>0, <1>8, <1>9, <1>13, <1>14, <1>15, <1>16, <1>17, <1>18, OnePlayerStep
<1> QED BY <1>9, <1>10, <1>19 DEF Good, Valid, M

\* Dropping a transfer whose player needs it no longer.
LEMMA DropTransferGood ==
  ASSUME NEW L, Good(L), NEW id \in DOMAIN L.transfers,
         NEW M, M = [L EXCEPT !.transfers = Without(L.transfers, {id})],
         AvatarValid(M, L.transfers[id].player)
  PROVE  Good(M)
<1> DEFINE player == L.transfers[id].player
<1>0. /\ L \in Ledger /\ FiniteMaps(L) /\ Valid(L) /\ SizesValid(L)
      /\ AvatarsValid(L) /\ TransfersValid(L) /\ InterestsValid(L)
      /\ AvatarValid(M, player)
  BY GoodParts
<1>1. /\ M.locations = L.locations /\ M.avatars = L.avatars
      /\ M.interests = L.interests /\ M.global_events = L.global_events
      /\ M.transfers = Without(L.transfers, {id})
      /\ M.high_transfer_id = L.high_transfer_id
  BY <1>0 DEF Ledger
<1>2. M \in Ledger
  <2>1. Without(L.transfers, {id}) \in PartialFunction(TransferId, Transfer)
    BY <1>0, LedgerFields, WithoutType
  <2> QED BY <1>0, <2>1 DEF Ledger
<1>3. FiniteMaps(M) /\ SizesValid(M)
  BY <1>0, <1>1, WithoutSize, LedgerAssumption DEF FiniteMaps, SizesValid
<1>4. \A t : t \in DOMAIN M.transfers <=> t \in DOMAIN L.transfers /\ t # id
  BY <1>1 DEF Without, Restrict
<1>5. \A t \in DOMAIN M.transfers : M.transfers[t] = L.transfers[t]
  BY <1>1 DEF Without, Restrict
<1>6. \A t \in DOMAIN L.transfers : L.transfers[t].player = player => t = id
  BY <1>0 DEF TransfersValid, TransfersApart
<1>7. \A p \in Player : p # player => SamePlayer(L, M, p)
  BY <1>1, <1>4, <1>5 DEF SamePlayer
<1> HIDE DEF player
<1>8. player \in DOMAIN M.interests => InterestValid(M, player)
  BY <1>0, <1>1 DEF InterestsValid, InterestValid, AcceptsAvatarOutcome
<1>9. \A t \in DOMAIN M.transfers : M.transfers[t].player # player
  BY <1>4, <1>5, <1>6
<1>10. M.high_transfer_id >= L.high_transfer_id
  BY <1>0, <1>1, LedgerFields
<1>11. /\ LocationsValid(M) /\ AvatarsValid(M)
       /\ TransfersValid(M) /\ InterestsValid(M)
  BY <1>0, <1>1, <1>2, <1>7, <1>8, <1>9, <1>10, OnePlayerStep
<1> QED BY <1>2, <1>3, <1>11 DEF Good, Valid

LEMMA FinishTransferGood ==
  ASSUME NEW L, Good(L), NEW id \in TransferId, CanFinishTransfer(L, id)
  PROVE  Good(FinishTransfer(L, id))
<1> DEFINE M == FinishTransfer(L, id)
           player == L.transfers[id].player
<1>1. /\ L \in Ledger /\ id \in DOMAIN L.transfers
      /\ TransferValid(L, id) /\ TransferPhaseValid(L, id)
      /\ L.transfers[id].phase = "committed"
      /\ player \in DOMAIN L.avatars /\ AvatarValid(L, player)
  BY GoodParts
  DEF CanFinishTransfer, InPhase, TransfersValid, TransferValid, AvatarsValid
<1>2. M.locations = L.locations /\ M.avatars = L.avatars
  BY <1>1 DEF FinishTransfer, Ledger
<1>3. M = [L EXCEPT !.transfers = Without(L.transfers, {id})]
  BY DEF FinishTransfer
<1> HIDE DEF M
<1>4. AvatarValid(M, player)
  BY <1>1, <1>2 DEF TransferPhaseValid, AvatarValid
<1>5. Good(M)
  BY <1>1, <1>3, <1>4, DropTransferGood
<1> QED BY <1>5 DEF M

LEMMA AbortTransferGood ==
  ASSUME NEW L, Good(L), NEW id \in TransferId, NEW g \in 0..MaxGeneration,
         CanAbortTransfer(L, id, g)
  PROVE  Good(AbortTransfer(L, id, g))
<1> DEFINE M == AbortTransfer(L, id, g)
           transfer == L.transfers[id]
           player == transfer.player
           A == ActivateAvatar(L, player, transfer.source, g)
<1>0. /\ L \in Ledger /\ FiniteMaps(L) /\ Valid(L) /\ SizesValid(L)
      /\ AvatarsValid(L) /\ TransfersValid(L) /\ InterestsValid(L)
  BY GoodParts
<1>1. /\ id \in DOMAIN L.transfers /\ transfer \in Transfer
      /\ transfer.phase \in Phase \ {"committed"}
      /\ TransferValid(L, id) /\ TransferPhaseValid(L, id)
      /\ player \in DOMAIN L.avatars /\ player \in Player
      /\ AvatarValid(L, player) /\ L.avatars[player] \in AvatarLease
  BY <1>0, LedgerValues
  DEF CanAbortTransfer, InPhase, TransfersValid, TransferValid, AvatarsValid
<1>2. CASE ~NeedsRecovery(L, id)
  <2>1. M = [L EXCEPT !.transfers = Without(L.transfers, {id})]
    BY <1>2 DEF AbortTransfer
  <2>2. M.locations = L.locations /\ M.avatars = L.avatars
    BY <1>0, <2>1 DEF Ledger
  <2> HIDE DEF M
  <2>3. AvatarValid(M, player)
    BY <1>1, <1>2, <2>2 DEF NeedsRecovery, AvatarValid
  <2>4. Good(M)
    BY <1>1, <2>1, <2>3, DropTransferGood
  <2> QED BY <2>4 DEF M
<1>3. CASE NeedsRecovery(L, id)
  <2>1. /\ transfer.source \in DOMAIN L.locations
        /\ L.locations[transfer.source].active
        /\ g \in Generation
    BY <1>1, <1>3, LedgerAssumption DEF CanAbortTransfer, Generation, AvatarLease
  <2>2. M = [A EXCEPT !.transfers = Without(A.transfers, {id})]
    BY <1>3 DEF AbortTransfer
  <2> HIDE DEF M, A
  <2>3. A = ActivateAvatar(L, player, transfer.source, g)  BY DEF A
  <2>4. \A t \in DOMAIN L.transfers : L.transfers[t].player = player => t = id
    BY <1>0, <1>1 DEF TransfersValid, TransfersApart
  <2> HIDE DEF transfer, player
  <2>5. /\ A \in Ledger
        /\ A.locations = L.locations /\ A.transfers = L.transfers
        /\ A.global_events = L.global_events
        /\ A.high_transfer_id = L.high_transfer_id
        /\ DOMAIN A.avatars = DOMAIN L.avatars \cup {player}
        /\ DOMAIN A.interests = DOMAIN L.interests \cup {player}
        /\ \A p \in DOMAIN A.avatars : p # player => A.avatars[p] = L.avatars[p]
        /\ \A p \in DOMAIN A.interests : p # player => A.interests[p] = L.interests[p]
        /\ A.avatars[player].location = transfer.source
        /\ A.avatars[player].active
        /\ L.locations[transfer.source].active => InterestValid(A, player)
    BY <1>0, <1>1, <2>1, <2>3, ActivateAvatarFacts
  <2>6. FiniteMaps(A) /\ SizesValid(A)
    BY <1>0, <1>1, <2>3, ActivateAvatarSizes
  <2>7. /\ M.locations = L.locations /\ M.avatars = A.avatars
        /\ M.interests = A.interests /\ M.global_events = A.global_events
        /\ M.transfers = Without(L.transfers, {id})
        /\ M.high_transfer_id = L.high_transfer_id
    BY <2>2, <2>5 DEF Ledger
  <2>8. M \in Ledger
    <3>1. Without(A.transfers, {id}) \in PartialFunction(TransferId, Transfer)
      BY <2>5, LedgerFields, WithoutType
    <3> QED BY <2>2, <2>5, <3>1 DEF Ledger
  <2>9. FiniteMaps(M) /\ SizesValid(M)
    <3>1. /\ IsFiniteSet(DOMAIN M.transfers)
          /\ Cardinality(DOMAIN M.transfers) <= MaxTransfers
      BY <1>0, <2>7, WithoutSize, LedgerAssumption DEF FiniteMaps, SizesValid
    <3> QED BY <2>5, <2>6, <2>7, <3>1 DEF FiniteMaps, SizesValid
  <2>10. \A t : t \in DOMAIN M.transfers <=> t \in DOMAIN L.transfers /\ t # id
    BY <2>7 DEF Without, Restrict
  <2>11. \A t \in DOMAIN M.transfers : M.transfers[t] = L.transfers[t]
    BY <2>7 DEF Without, Restrict
  <2>12. \A p \in Player : p # player => SamePlayer(L, M, p)
    <3>1. L.transfers[id].player = player  BY DEF player, transfer
    <3> SUFFICES ASSUME NEW p \in Player, p # player  PROVE SamePlayer(L, M, p)
      OBVIOUS
    <3>2. /\ p \in DOMAIN M.avatars <=> p \in DOMAIN L.avatars
          /\ p \in DOMAIN L.avatars => M.avatars[p] = L.avatars[p]
          /\ p \in DOMAIN M.interests =>
               p \in DOMAIN L.interests /\ M.interests[p] = L.interests[p]
      BY <2>5, <2>7
    <3> QED BY <2>10, <2>11, <3>1, <3>2 DEF SamePlayer
  <2>13. AvatarValid(M, player)
    BY <2>1, <2>5, <2>7 DEF AvatarValid
  <2>14. InterestValid(M, player)
    BY <2>1, <2>5, <2>7 DEF InterestValid, AcceptsAvatarOutcome
  <2>15. \A t \in DOMAIN M.transfers : M.transfers[t].player # player
    BY <2>4, <2>10, <2>11
  <2>16. M.high_transfer_id >= L.high_transfer_id
    BY <1>0, <2>7, LedgerFields
  <2>17. /\ LocationsValid(M) /\ AvatarsValid(M)
         /\ TransfersValid(M) /\ InterestsValid(M)
    BY <1>0, <2>7, <2>8, <2>12, <2>13, <2>14, <2>15, <2>16, OnePlayerStep
  <2> QED BY <2>8, <2>9, <2>17 DEF Good, Valid, M
<1> QED BY <1>2, <1>3

-----------------------------------------------------------------------------
(* Interests and global systems *)

LEMMA SubscribeInterestGood ==
  ASSUME NEW L, Good(L), NEW player \in Player, CanSubscribeInterest(L, player)
  PROVE  Good(SubscribeInterest(L, player))
<1> DEFINE M == SubscribeInterest(L, player)
           interest == InterestAt(L, L.avatars[player].location, L.avatars[player].generation)
<1>0. /\ L \in Ledger /\ FiniteMaps(L) /\ Valid(L) /\ SizesValid(L)
      /\ AvatarsValid(L) /\ TransfersValid(L) /\ InterestsValid(L) /\ LocationsValid(L)
  BY GoodParts
<1>1. /\ player \in DOMAIN L.avatars /\ L.avatars[player] \in AvatarLease
      /\ L.avatars[player].active
      /\ L.avatars[player].location \in DOMAIN L.locations
      /\ L.locations[L.avatars[player].location].active
      /\ L.locations[L.avatars[player].location] \in LocationLease
  BY <1>0, LedgerValues DEF CanSubscribeInterest
<1>2. interest \in InterestLease
  BY <1>1 DEF InterestAt, InterestLease, AvatarLease, LocationLease
<1>3. /\ M.locations = L.locations /\ M.avatars = L.avatars
      /\ M.transfers = L.transfers /\ M.global_events = L.global_events
      /\ M.interests = Put(L.interests, player, interest)
      /\ M.high_transfer_id = L.high_transfer_id
  BY <1>0 DEF SubscribeInterest, Ledger
<1>4. M \in Ledger
  <2>1. Put(L.interests, player, interest) \in PartialFunction(Player, InterestLease)
    BY <1>0, <1>2, LedgerFields, PutType
  <2> QED BY <1>0, <2>1 DEF SubscribeInterest, Ledger
<1> HIDE DEF M, interest
<1>5. FiniteMaps(M) /\ SizesValid(M)
  <2>1. player \in DOMAIN L.interests \/ Cardinality(DOMAIN L.interests) < MaxAvatars
    BY DEF CanSubscribeInterest
  <2> QED BY <1>0, <1>3, <2>1, PutSize, LedgerAssumption DEF FiniteMaps, SizesValid
<1>6. /\ DOMAIN M.interests = DOMAIN L.interests \cup {player}
      /\ \A p \in DOMAIN L.interests : p # player => M.interests[p] = L.interests[p]
      /\ M.interests[player] = interest
  BY <1>3 DEF Put
<1>8. InterestValid(M, player)
  <2>1. /\ M.interests[player].location = L.avatars[player].location
        /\ M.interests[player].avatar_generation = L.avatars[player].generation
        /\ M.interests[player].worker = L.locations[L.avatars[player].location].worker
        /\ M.interests[player].worker_generation
             = L.locations[L.avatars[player].location].generation
    BY <1>6 DEF InterestAt, interest
  <2>2. L.avatars[player] = [generation |-> L.avatars[player].generation,
                             location |-> L.avatars[player].location, active |-> TRUE]
    BY <1>1 DEF AvatarLease
  <2> QED BY <1>1, <1>3, <2>1, <2>2 DEF InterestValid, AcceptsAvatarOutcome
<1>9. LocationsValid(M) /\ AvatarsValid(M) /\ TransfersValid(M)
  BY <1>0, <1>3, LeaseFrame
<1>10. InterestsValid(M)
  <2> SUFFICES ASSUME NEW p \in DOMAIN M.interests, p # player  PROVE InterestValid(M, p)
    BY <1>8 DEF InterestsValid
  <2>1. InterestValid(L, p) /\ M.interests[p] = L.interests[p]
    BY <1>0, <1>6 DEF InterestsValid
  <2> QED BY <1>3, <2>1 DEF InterestValid, AcceptsAvatarOutcome
<1> QED BY <1>4, <1>5, <1>9, <1>10 DEF Good, Valid, M

LEMMA UnsubscribeInterestGood ==
  ASSUME NEW L, Good(L), NEW player \in Player
  PROVE  Good(UnsubscribeInterest(L, player))
<1> DEFINE M == UnsubscribeInterest(L, player)
<1>0. /\ L \in Ledger /\ FiniteMaps(L) /\ Valid(L) /\ SizesValid(L)
      /\ AvatarsValid(L) /\ TransfersValid(L) /\ InterestsValid(L) /\ LocationsValid(L)
  BY GoodParts
<1>1. /\ M.locations = L.locations /\ M.avatars = L.avatars
      /\ M.transfers = L.transfers /\ M.global_events = L.global_events
      /\ M.interests = Without(L.interests, {player})
      /\ M.high_transfer_id = L.high_transfer_id
  BY <1>0 DEF UnsubscribeInterest, Ledger
<1>2. M \in Ledger
  <2>1. Without(L.interests, {player}) \in PartialFunction(Player, InterestLease)
    BY <1>0, LedgerFields, WithoutType
  <2> QED BY <1>0, <2>1 DEF UnsubscribeInterest, Ledger
<1> HIDE DEF M
<1>3. FiniteMaps(M) /\ SizesValid(M)
  BY <1>0, <1>1, WithoutSize, LedgerAssumption DEF FiniteMaps, SizesValid
<1>4. LocationsValid(M) /\ AvatarsValid(M) /\ TransfersValid(M)
  BY <1>0, <1>1, LeaseFrame
<1>5. \A p \in DOMAIN M.interests : p \in DOMAIN L.interests /\ M.interests[p] = L.interests[p]
  BY <1>1 DEF Without, Restrict
<1>6. InterestsValid(M)
  <2> SUFFICES ASSUME NEW p \in DOMAIN M.interests  PROVE InterestValid(M, p)
    BY DEF InterestsValid
  <2>1. InterestValid(L, p) /\ M.interests[p] = L.interests[p]
    BY <1>0, <1>5 DEF InterestsValid
  <2> QED BY <1>1, <2>1 DEF InterestValid, AcceptsAvatarOutcome
<1> QED BY <1>2, <1>3, <1>4, <1>6 DEF Good, Valid, M

\* A step that leaves the leases, interests and transfers alone.
LEMMA GlobalStepGood ==
  ASSUME NEW L, Good(L), NEW M \in Ledger,
         M.locations = L.locations, M.avatars = L.avatars,
         M.transfers = L.transfers, M.interests = L.interests,
         M.high_transfer_id = L.high_transfer_id,
         IsFiniteSet(M.global_events), Cardinality(M.global_events) <= MaxGlobalEvents
  PROVE  Good(M)
<1>0. /\ FiniteMaps(L) /\ SizesValid(L) /\ LocationsValid(L)
      /\ AvatarsValid(L) /\ TransfersValid(L) /\ InterestsValid(L)
  BY GoodParts
<1>1. FiniteMaps(M) /\ SizesValid(M)
  BY <1>0 DEF FiniteMaps, SizesValid
<1>2. LocationsValid(M) /\ AvatarsValid(M) /\ TransfersValid(M)
  BY <1>0, LeaseFrame
<1>3. InterestsValid(M)
  BY <1>0 DEF InterestsValid, InterestValid, AcceptsAvatarOutcome
<1> QED BY <1>1, <1>2, <1>3 DEF Good, Valid

LEMMA SetGlobalOwnerGood ==
  ASSUME NEW L, Good(L), NEW system \in System, NEW owner \in GlobalLease
  PROVE  Good(SetGlobalOwner(L, system, owner)) /\ Good(RebindGlobal(L, system, owner))
<1> DEFINE M == [L EXCEPT !.globals = Put(L.globals, system, owner)]
<1>1. L \in Ledger /\ FiniteMaps(L) /\ SizesValid(L)  BY GoodParts
<1>2. Put(L.globals, system, owner) \in PartialFunction(System, GlobalLease)
  BY <1>1, LedgerFields, PutType
<1>3. /\ M \in Ledger
      /\ M.locations = L.locations /\ M.avatars = L.avatars
      /\ M.transfers = L.transfers /\ M.interests = L.interests
      /\ M.high_transfer_id = L.high_transfer_id /\ M.global_events = L.global_events
  BY <1>1, <1>2 DEF Ledger
<1> HIDE DEF M
<1>4. Good(M)
  BY <1>1, <1>3, GlobalStepGood DEF FiniteMaps, SizesValid
<1> QED BY <1>4 DEF SetGlobalOwner, RebindGlobal, M

LEMMA ClaimGlobalEventGood ==
  ASSUME NEW L, Good(L), NEW system \in System, NEW worker, NEW generation,
         NEW event \in EventId, CanClaimGlobalEvent(L, system, worker, generation, event)
  PROVE  Good(ClaimGlobalEvent(L, system, event))
<1> DEFINE M == ClaimGlobalEvent(L, system, event)
           events == L.global_events \cup {<<system, event>>}
<1>1. L \in Ledger /\ FiniteMaps(L) /\ SizesValid(L)  BY GoodParts
<1>2. events \in SUBSET (System \X EventId)
  BY <1>1, LedgerFields
<1>3. /\ M \in Ledger
      /\ M.locations = L.locations /\ M.avatars = L.avatars
      /\ M.transfers = L.transfers /\ M.interests = L.interests
      /\ M.high_transfer_id = L.high_transfer_id /\ M.global_events = events
  BY <1>1, <1>2 DEF Ledger, ClaimGlobalEvent
<1>4. IsFiniteSet(events) /\ Cardinality(events) = Cardinality(L.global_events) + 1
  BY <1>1, FS_AddElement DEF FiniteMaps, CanClaimGlobalEvent
<1>5. Cardinality(L.global_events) \in Nat /\ Cardinality(L.global_events) < MaxGlobalEvents
  BY <1>1, FS_CardinalityType DEF FiniteMaps, CanClaimGlobalEvent
<1>6. Cardinality(events) <= MaxGlobalEvents
  BY <1>4, <1>5, LedgerAssumption
<1> HIDE DEF M, events
<1>7. Good(M)
  BY <1>3, <1>4, <1>6, GlobalStepGood
<1> QED BY <1>7 DEF M

-----------------------------------------------------------------------------
(* Locations and workers *)

LEMMA AddLocationGood ==
  ASSUME NEW L, Good(L), NEW id \in Location, NEW lease \in LocationLease,
         CanAddLocation(L, id, lease)
  PROVE  Good(AddLocation(L, id, lease))
<1> DEFINE M == AddLocation(L, id, lease)
<1>0. /\ L \in Ledger /\ FiniteMaps(L) /\ SizesValid(L) /\ LocationsValid(L)
      /\ AvatarsValid(L) /\ TransfersValid(L) /\ InterestsValid(L)
  BY GoodParts
<1>1. /\ M.locations = Put(L.locations, id, lease) /\ M.avatars = L.avatars
      /\ M.transfers = L.transfers /\ M.interests = L.interests
      /\ M.global_events = L.global_events
      /\ M.high_transfer_id = L.high_transfer_id
  BY <1>0 DEF AddLocation, Ledger
<1>2. M \in Ledger
  <2>1. Put(L.locations, id, lease) \in PartialFunction(Location, LocationLease)
    BY <1>0, LedgerFields, PutType
  <2> QED BY <1>0, <2>1 DEF AddLocation, Ledger
<1> HIDE DEF M
<1>3. FiniteMaps(M) /\ SizesValid(M)
  BY <1>0, <1>1, PutSize, LedgerAssumption DEF FiniteMaps, SizesValid, CanAddLocation
<1>4. /\ DOMAIN M.locations = DOMAIN L.locations \cup {id}
      /\ \A l \in DOMAIN L.locations : M.locations[l] = L.locations[l]
      /\ M.locations[id] = lease
      /\ \A l \in DOMAIN L.locations :
           L.locations[l].worker # lease.worker /\ L.locations[l].checkpoint = lease.checkpoint
  BY <1>1 DEF Put, CanAddLocation, OtherLocationsAdmit
<1>5. LocationsValid(M)
  BY <1>0, <1>4 DEF LocationsValid
<1>6. AvatarsValid(M)
  BY <1>0, <1>1, <1>4 DEF AvatarsValid, AvatarValid, TransferFenced, TransferIn
<1>7. TransfersValid(M)
  <2> SUFFICES ASSUME NEW t \in DOMAIN M.transfers  PROVE TransferValid(M, t)
    BY <1>0, <1>1 DEF TransfersValid, TransfersApart
  <2>1. TransferValid(L, t)  BY <1>0, <1>1 DEF TransfersValid
  <2> QED BY <1>1, <1>4, <2>1 DEF TransferValid, TransferPhaseValid
<1>8. InterestsValid(M)
  <2> SUFFICES ASSUME NEW p \in DOMAIN M.interests  PROVE InterestValid(M, p)
    BY DEF InterestsValid
  <2>1. InterestValid(L, p)  BY <1>0, <1>1 DEF InterestsValid
  <2> QED BY <1>1, <1>4, <2>1 DEF InterestValid, AcceptsAvatarOutcome
<1> QED BY <1>2, <1>3, <1>5, <1>6, <1>7, <1>8 DEF Good, Valid, M

LEMMA WorkerLostGood ==
  ASSUME NEW L, Good(L), NEW id \in Location, id \in DOMAIN L.locations
  PROVE  Good(WorkerLost(L, id))
<1> DEFINE M == WorkerLost(L, id)
           lost == [L.locations[id] EXCEPT !.active = FALSE]
           avatars == [p \in DOMAIN L.avatars |->
                         IF L.avatars[p].location = id
                         THEN [L.avatars[p] EXCEPT !.active = FALSE] ELSE L.avatars[p]]
<1>0. /\ L \in Ledger /\ FiniteMaps(L) /\ SizesValid(L) /\ LocationsValid(L)
      /\ AvatarsValid(L) /\ TransfersValid(L) /\ InterestsValid(L)
  BY GoodParts
<1>1. /\ M.locations = Put(L.locations, id, lost) /\ M.avatars = avatars
      /\ M.transfers = L.transfers
      /\ M.interests = Without(L.interests, AvatarsAt(L, id))
      /\ M.global_events = L.global_events
      /\ M.high_transfer_id = L.high_transfer_id
  BY <1>0 DEF WorkerLost, Ledger
<1>2. M \in Ledger
  <2>1. lost \in LocationLease
    BY <1>0, LedgerValues DEF LocationLease
  <2>2. Put(L.locations, id, lost) \in PartialFunction(Location, LocationLease)
    BY <1>0, <2>1, LedgerFields, PutType
  <2>3. Without(L.interests, AvatarsAt(L, id)) \in PartialFunction(Player, InterestLease)
    BY <1>0, LedgerFields, WithoutType
  <2>4. avatars \in [DOMAIN L.avatars -> AvatarLease]
    BY <1>0, LedgerValues DEF AvatarLease
  <2>5. avatars \in PartialFunction(Player, AvatarLease)
    <3>1. DOMAIN L.avatars \in SUBSET Player
      BY <1>0, LedgerValues
    <3> HIDE DEF avatars
    <3> QED BY <2>4, <3>1, PartialFunctionIntro
  <2> QED BY <1>0, <2>2, <2>3, <2>5 DEF WorkerLost, Ledger
<1>3. /\ DOMAIN M.locations = DOMAIN L.locations
      /\ DOMAIN M.avatars = DOMAIN L.avatars
      /\ \A l \in DOMAIN L.locations : l # id => M.locations[l] = L.locations[l]
      /\ M.locations[id] = lost
      /\ \A p \in DOMAIN L.avatars :
           L.avatars[p].location # id => M.avatars[p] = L.avatars[p]
  BY <1>1 DEF Put
<1>4. /\ ~M.locations[id].active
      /\ M.locations[id].worker = L.locations[id].worker
      /\ M.locations[id].checkpoint = L.locations[id].checkpoint
  BY <1>0, <1>3, LedgerValues DEF LocationLease
<1>5. \A p \in DOMAIN L.avatars :
        /\ M.avatars[p].location = L.avatars[p].location
        /\ M.avatars[p].generation = L.avatars[p].generation
        /\ L.avatars[p].location = id => ~M.avatars[p].active
  BY <1>0, <1>1, LedgerValues DEF AvatarLease
<1>6. \A p \in DOMAIN M.interests :
        /\ p \in DOMAIN L.interests /\ M.interests[p] = L.interests[p]
        /\ p \notin AvatarsAt(L, id)
  BY <1>1 DEF Without, Restrict
<1> HIDE DEF M, lost, avatars
<1>7. FiniteMaps(M) /\ SizesValid(M)
  <2>1. IsFiniteSet(DOMAIN M.interests) /\ Cardinality(DOMAIN M.interests) <= MaxAvatars
    BY <1>0, <1>1, WithoutSize, LedgerAssumption DEF FiniteMaps, SizesValid
  <2> QED BY <1>0, <1>1, <1>3, <2>1 DEF FiniteMaps, SizesValid
<1>8. LocationsValid(M)
  BY <1>0, <1>3, <1>4 DEF LocationsValid
<1>9. AvatarsValid(M)
  <2> SUFFICES ASSUME NEW p \in DOMAIN M.avatars  PROVE AvatarValid(M, p)
    BY DEF AvatarsValid
  <2>1. p \in DOMAIN L.avatars /\ AvatarValid(L, p)
    BY <1>0, <1>3 DEF AvatarsValid
  <2>2. TransferFenced(L, p) => TransferFenced(M, p)
    BY <1>1 DEF TransferFenced, TransferIn
  <2>3. CASE L.avatars[p].location = id
    BY <1>3, <1>4, <1>5, <2>1, <2>3 DEF AvatarValid
  <2>4. CASE L.avatars[p].location # id
    BY <1>3, <2>1, <2>2, <2>4 DEF AvatarValid
  <2> QED BY <2>3, <2>4
<1>10. TransfersValid(M)
  <2> SUFFICES ASSUME NEW t \in DOMAIN M.transfers  PROVE TransferValid(M, t)
    BY <1>0, <1>1 DEF TransfersValid, TransfersApart
  <2> DEFINE p == L.transfers[t].player
  <2>1. TransferValid(L, t) /\ p \in DOMAIN L.avatars
    BY <1>0, <1>1 DEF TransfersValid, TransferValid
  <2>2. TransferPhaseValid(L, t)
    BY <2>1 DEF TransferValid
  <2>3. M.avatars[p].active => L.avatars[p].active
    BY <1>3, <1>5, <2>1
  <2>4. TransferPhaseValid(M, t)
    <3>1. CASE L.avatars[p].location = id
      BY <1>1, <1>4, <1>5, <2>1, <2>2, <2>3, <3>1 DEF TransferPhaseValid
    <3>2. CASE L.avatars[p].location # id
      <4>1. M.avatars[p] = L.avatars[p]  BY <1>3, <2>1, <3>2
      <4>2. M.locations[L.avatars[p].location] = L.locations[L.avatars[p].location]
        BY <1>0, <1>3, <2>1, <3>2 DEF AvatarsValid, AvatarValid
      <4> QED BY <1>1, <2>2, <4>1, <4>2 DEF TransferPhaseValid
    <3> QED BY <3>1, <3>2
  <2> QED BY <1>1, <1>3, <2>1, <2>4 DEF TransferValid
<1>11. InterestsValid(M)
  <2> SUFFICES ASSUME NEW p \in DOMAIN M.interests  PROVE InterestValid(M, p)
    BY DEF InterestsValid
  <2>1. InterestValid(L, p) /\ M.interests[p] = L.interests[p]
    BY <1>0, <1>6 DEF InterestsValid
  <2>2. p \in DOMAIN L.avatars /\ L.avatars[p].location # id
        /\ L.avatars[p].location = L.interests[p].location
        /\ L.interests[p].location \in DOMAIN L.locations
    BY <1>6, <2>1 DEF InterestValid, AcceptsAvatarOutcome, AvatarsAt
  <2>3. M.avatars[p] = L.avatars[p]
        /\ M.locations[L.interests[p].location] = L.locations[L.interests[p].location]
    BY <1>3, <2>2
  <2> QED BY <1>3, <2>1, <2>2, <2>3 DEF InterestValid, AcceptsAvatarOutcome
<1> QED BY <1>2, <1>7, <1>8, <1>9, <1>10, <1>11 DEF Good, Valid, M

LEMMA ReplaceWorkerGood ==
  ASSUME NEW L, Good(L), NEW id \in Location, NEW worker \in Worker,
         NEW generation \in Generation, NEW checkpoint \in Revision,
         CanReplaceWorker(L, id, worker, generation, checkpoint)
  PROVE  Good(ReplaceWorker(L, id, worker, generation, checkpoint))
<1> DEFINE M == ReplaceWorker(L, id, worker, generation, checkpoint)
           gone == {t \in DOMAIN L.transfers :
                      L.transfers[t].source = id /\ L.transfers[t].phase = "prepared"}
           resumed == {p \in AvatarsAt(L, id) :
                         ~TransferUncommitted(DropPreparedFrom(L, id), p)}
           lease == [worker |-> worker, generation |-> generation,
                     checkpoint |-> checkpoint, content |-> L.locations[id].content,
                     active |-> TRUE]
           resume(p) == [L.avatars[p] EXCEPT !.generation = L.avatars[p].generation + 1,
                                             !.active = TRUE]
           bound(p) == [location |-> id, avatar_generation |-> L.avatars[p].generation + 1,
                        worker |-> worker, worker_generation |-> generation]
           avatars == [p \in DOMAIN L.avatars |->
                         IF p \in resumed THEN resume(p) ELSE L.avatars[p]]
           interests == [p \in DOMAIN L.interests \cup resumed |->
                           IF p \in resumed THEN bound(p) ELSE L.interests[p]]
<1>0. /\ L \in Ledger /\ FiniteMaps(L) /\ SizesValid(L) /\ LocationsValid(L)
      /\ AvatarsValid(L) /\ TransfersValid(L) /\ InterestsValid(L)
  BY GoodParts
<1>1. /\ id \in DOMAIN L.locations /\ ~L.locations[id].active
      /\ OtherLocationsAdmit(L, id, worker, checkpoint)
      /\ \A p \in AvatarsAt(L, id) : L.avatars[p].generation # MaxGeneration
  BY DEF CanReplaceWorker
<1>2. /\ M.locations = Put(L.locations, id, lease)
      /\ M.avatars = avatars /\ M.interests = interests
      /\ M.transfers = Without(L.transfers, gone)
      /\ M.global_events = L.global_events
      /\ M.high_transfer_id = L.high_transfer_id
  BY <1>0, SMTT(20) DEF ReplaceWorker, DropPreparedFrom, Ledger
<1>3. \A p \in resumed : /\ p \in DOMAIN L.avatars /\ p \in Player
                         /\ L.avatars[p].location = id
                         /\ L.avatars[p] \in AvatarLease
                         /\ L.avatars[p].generation + 1 \in Generation
  <2> SUFFICES ASSUME NEW p \in resumed
               PROVE  /\ p \in DOMAIN L.avatars /\ p \in Player
                      /\ L.avatars[p].location = id
                      /\ L.avatars[p] \in AvatarLease
                      /\ L.avatars[p].generation + 1 \in Generation
    OBVIOUS
  <2>1. p \in AvatarsAt(L, id) /\ p \in DOMAIN L.avatars /\ L.avatars[p].location = id
    BY DEF AvatarsAt
  <2>2. p \in Player /\ L.avatars[p] \in AvatarLease  BY <1>0, <2>1, LedgerValues
  <2>3. L.avatars[p].generation \in Generation  BY <2>2 DEF AvatarLease
  <2>4. L.avatars[p].generation # MaxGeneration  BY <1>1, <2>1
  <2>5. L.avatars[p].generation + 1 \in Generation
    BY <2>3, <2>4, LedgerAssumption DEF Generation
  <2> QED BY <2>1, <2>2, <2>5
<1>4. M \in Ledger
  <2>1. lease \in LocationLease
    BY <1>0, <1>1, LedgerValues DEF LocationLease
  <2>2. Put(L.locations, id, lease) \in PartialFunction(Location, LocationLease)
    BY <1>0, <2>1, LedgerFields, PutType
  <2>3. Without(L.transfers, gone) \in PartialFunction(TransferId, Transfer)
    BY <1>0, LedgerFields, WithoutType
  <2>4. avatars \in PartialFunction(Player, AvatarLease)
    <3>1. DOMAIN L.avatars \in SUBSET Player  BY <1>0, LedgerValues
    <3>2. \A p \in resumed : resume(p) \in AvatarLease
      BY <1>3 DEF AvatarLease
    <3>3. avatars \in [DOMAIN L.avatars -> AvatarLease]
      <4> HIDE DEF resume, resumed
      <4> QED BY <1>0, <3>2, LedgerValues
    <3> HIDE DEF avatars
    <3> QED BY <3>1, <3>3, PartialFunctionIntro
  <2>5. interests \in PartialFunction(Player, InterestLease)
    <3>1. DOMAIN L.interests \cup resumed \in SUBSET Player  BY <1>0, <1>3, LedgerValues
    <3>2. \A p \in resumed : bound(p) \in InterestLease
      BY <1>3 DEF InterestLease
    <3>3. interests \in [DOMAIN L.interests \cup resumed -> InterestLease]
      <4> HIDE DEF bound, resumed
      <4> QED BY <1>0, <3>2, LedgerValues
    <3> HIDE DEF interests
    <3> QED BY <3>1, <3>3, PartialFunctionIntro
  <2>6. M = [L EXCEPT !.locations = Put(L.locations, id, lease), !.avatars = avatars,
                      !.interests = interests, !.transfers = Without(L.transfers, gone)]
    BY <1>0, ZenonT(30) DEF ReplaceWorker, DropPreparedFrom, Ledger
  <2> HIDE DEF M, lease, avatars, interests, gone
  <2> QED BY <1>0, <2>2, <2>3, <2>4, <2>5, <2>6 DEF Ledger
<1>5. /\ DOMAIN M.locations = DOMAIN L.locations
      /\ \A l \in DOMAIN L.locations : l # id => M.locations[l] = L.locations[l]
      /\ M.locations[id].active /\ M.locations[id].worker = worker
      /\ M.locations[id].generation = generation
      /\ M.locations[id].checkpoint = checkpoint
  <2>1. M.locations[id] = lease  BY <1>2 DEF Put
  <2>2. lease.active /\ lease.worker = worker /\ lease.generation = generation
        /\ lease.checkpoint = checkpoint
    OBVIOUS
  <2>3. /\ DOMAIN M.locations = DOMAIN L.locations
        /\ \A l \in DOMAIN L.locations : l # id => M.locations[l] = L.locations[l]
    BY <1>1, <1>2 DEF Put
  <2> HIDE DEF M, lease
  <2> QED BY <2>1, <2>2, <2>3
<1>6. /\ DOMAIN M.avatars = DOMAIN L.avatars
      /\ \A p \in DOMAIN L.avatars : p \notin resumed => M.avatars[p] = L.avatars[p]
      /\ \A p \in resumed : M.avatars[p] = resume(p)
  BY <1>2, <1>3
<1>7. \A p \in resumed :
        M.avatars[p] = [generation |-> L.avatars[p].generation + 1, location |-> id,
                        active |-> TRUE]
  BY <1>3, <1>6 DEF AvatarLease
<1>7a. \A p \in resumed : M.avatars[p].location = id /\ M.avatars[p].active
  BY <1>3, <1>6 DEF AvatarLease
<1>8. /\ DOMAIN M.interests = DOMAIN L.interests \cup resumed
      /\ \A p \in resumed : M.interests[p] = bound(p)
      /\ \A p \in DOMAIN L.interests : p \notin resumed => M.interests[p] = L.interests[p]
  BY <1>2
<1>9. \A t : t \in DOMAIN M.transfers <=> t \in DOMAIN L.transfers /\ t \notin gone
  BY <1>2 DEF Without, Restrict
<1>10. \A t \in DOMAIN M.transfers : M.transfers[t] = L.transfers[t]
  BY <1>2 DEF Without, Restrict
<1>11. \A p \in DOMAIN L.avatars : p \in resumed <=>
         /\ L.avatars[p].location = id
         /\ \A t \in DOMAIN M.transfers :
              L.transfers[t].player = p => L.transfers[t].phase = "committed"
  <2>1. DropPreparedFrom(L, id).transfers = M.transfers
    BY <1>0, <1>2 DEF DropPreparedFrom, Ledger
  <2>2. \A t \in DOMAIN M.transfers : M.transfers[t].phase \in Phase
    BY <1>0, <1>9, <1>10, LedgerValues DEF Transfer
  <2> QED BY <1>10, <2>1, <2>2 DEF AvatarsAt, TransferUncommitted, TransferIn
<1> HIDE DEF M, resumed, lease, avatars, interests, resume
<1>12. FiniteMaps(M) /\ SizesValid(M)
  <2>1. IsFiniteSet(DOMAIN M.transfers) /\ Cardinality(DOMAIN M.transfers) <= MaxTransfers
    BY <1>0, <1>2, WithoutSize, LedgerAssumption DEF FiniteMaps, SizesValid
  <2>2. DOMAIN M.interests \subseteq DOMAIN L.avatars
    BY <1>0, <1>3, <1>8 DEF InterestsValid, InterestValid, AcceptsAvatarOutcome
  <2>3. IsFiniteSet(DOMAIN M.interests) /\ Cardinality(DOMAIN M.interests) <= MaxAvatars
    BY <1>0, <2>2, FS_Subset, FS_CardinalityType, LedgerAssumption DEF FiniteMaps, SizesValid
  <2> QED BY <1>0, <1>2, <1>5, <1>6, <2>1, <2>3 DEF FiniteMaps, SizesValid
<1>13. LocationsValid(M)
  BY <1>0, <1>1, <1>5 DEF LocationsValid, OtherLocationsAdmit
<1>14. ASSUME NEW p \in DOMAIN L.avatars, TransferFenced(L, p)
       PROVE  TransferFenced(M, p)
  <2>1. PICK t \in DOMAIN L.transfers :
          /\ L.transfers[t].player = p
          /\ L.transfers[t].phase \in {"source_fenced", "destination_restored"}
    BY <1>14 DEF TransferFenced, TransferIn
  <2>2. t \in DOMAIN M.transfers /\ M.transfers[t] = L.transfers[t]
    BY <1>9, <1>10, <2>1
  <2> QED BY <2>1, <2>2 DEF TransferFenced, TransferIn
<1>15. AvatarsValid(M)
  <2> SUFFICES ASSUME NEW p \in DOMAIN M.avatars  PROVE AvatarValid(M, p)
    BY DEF AvatarsValid
  <2>1. p \in DOMAIN L.avatars /\ AvatarValid(L, p)
    BY <1>0, <1>6 DEF AvatarsValid
  <2>2. CASE p \in resumed
    <3>1. M.avatars[p].active /\ M.avatars[p].location = id
      BY <1>7a, <2>2
    <3> QED BY <1>1, <1>5, <3>1 DEF AvatarValid
  <2>3. CASE p \notin resumed /\ L.avatars[p].location = id
    <3>1. M.avatars[p] = L.avatars[p] /\ ~L.avatars[p].active
      BY <1>1, <1>6, <2>1, <2>3 DEF AvatarValid
    <3>2. PICK t \in DOMAIN M.transfers : /\ L.transfers[t].player = p
                                          /\ L.transfers[t].phase # "committed"
      BY <1>11, <2>1, <2>3
    <3>3. t \in DOMAIN L.transfers /\ L.transfers[t] \in Transfer /\ TransferValid(L, t)
      BY <1>0, <1>9, LedgerValues DEF TransfersValid
    <3>4. L.transfers[t].phase = "prepared" => L.transfers[t].source = id
      BY <2>3, <3>2, <3>3 DEF TransferValid, TransferPhaseValid
    <3>5. L.transfers[t].phase # "prepared"
      BY <1>9, <3>3, <3>4
    <3>6. L.transfers[t].phase \in {"source_fenced", "destination_restored"}
      BY <3>2, <3>3, <3>5 DEF Transfer, Phase
    <3>7. TransferFenced(M, p)
      BY <1>10, <3>2, <3>6 DEF TransferFenced, TransferIn
    <3> QED BY <1>1, <1>5, <2>3, <3>1, <3>7 DEF AvatarValid
  <2>4. CASE L.avatars[p].location # id
    <3>1. p \notin resumed /\ M.avatars[p] = L.avatars[p]
      BY <1>3, <1>6, <2>1, <2>4
    <3>2. L.avatars[p].location \in DOMAIN L.locations
          /\ M.locations[L.avatars[p].location] = L.locations[L.avatars[p].location]
      BY <1>5, <2>1, <2>4 DEF AvatarValid
    <3> QED BY <1>5, <1>14, <2>1, <3>1, <3>2 DEF AvatarValid
  <2> QED BY <2>2, <2>3, <2>4
<1>16. TransfersValid(M)
  <2>1. TransfersApart(M)
    BY <1>0, <1>9, <1>10 DEF TransfersValid, TransfersApart
  <2> SUFFICES ASSUME NEW t \in DOMAIN M.transfers  PROVE TransferValid(M, t)
    BY <2>1 DEF TransfersValid
  <2> DEFINE p == L.transfers[t].player
  <2>2. /\ t \in DOMAIN L.transfers /\ M.transfers[t] = L.transfers[t]
        /\ TransferValid(L, t) /\ TransferPhaseValid(L, t)
        /\ p \in DOMAIN L.avatars /\ L.transfers[t] \in Transfer
        /\ AvatarValid(L, p)
    BY <1>0, <1>9, <1>10, LedgerValues
    DEF TransfersValid, TransferValid, AvatarsValid
  <2>3. TransferPhaseValid(M, t)
    <3>1. CASE p \in resumed
      <4>1. L.transfers[t].phase = "committed"
        BY <1>11, <2>2, <3>1
      <4>2. M.avatars[p].active /\ M.avatars[p].location = L.avatars[p].location
        BY <1>3, <1>7a, <3>1
      <4> QED BY <2>2, <4>1, <4>2 DEF TransferPhaseValid
    <3>2. CASE p \notin resumed
      <4>1. M.avatars[p] = L.avatars[p]
        BY <1>6, <2>2, <3>2
      <4>2. L.transfers[t].phase = "prepared" =>
              M.locations[L.transfers[t].source] = L.locations[L.transfers[t].source]
        BY <1>5, <1>9, <2>2 DEF TransferValid
      <4>3. L.transfers[t].phase = "committed" => L.transfers[t].destination # id
        <5> SUFFICES ASSUME L.transfers[t].phase = "committed",
                            L.transfers[t].destination = id
                     PROVE  FALSE
          OBVIOUS
        <5>1. L.avatars[p].location = id
          BY <2>2 DEF TransferPhaseValid
        <5>2. PICK u \in DOMAIN M.transfers : /\ L.transfers[u].player = p
                                              /\ L.transfers[u].phase # "committed"
          BY <1>11, <2>2, <3>2, <5>1
        <5>3. u = t
          BY <1>0, <1>9, <2>2, <5>2 DEF TransfersValid, TransfersApart
        <5> QED BY <5>2, <5>3
      <4>4. L.transfers[t].phase = "committed" =>
              M.locations[L.transfers[t].destination] = L.locations[L.transfers[t].destination]
        BY <1>5, <2>2, <4>3 DEF TransferValid
      <4> QED BY <2>2, <4>1, <4>2, <4>4 DEF TransferPhaseValid
    <3> QED BY <3>1, <3>2
  <2> QED BY <1>2, <1>5, <1>6, <2>2, <2>3 DEF TransferValid
<1>17. InterestsValid(M)
  <2> SUFFICES ASSUME NEW p \in DOMAIN M.interests  PROVE InterestValid(M, p)
    BY DEF InterestsValid
  <2>1. CASE p \in resumed
    <3>1. M.interests[p] = bound(p)  BY <1>8, <2>1
    <3>2. p \in DOMAIN M.avatars  BY <1>3, <1>6, <2>1
    <3> QED BY <1>1, <1>5, <1>7, <2>1, <3>1, <3>2 DEF InterestValid, AcceptsAvatarOutcome
  <2>2. CASE p \notin resumed
    <3>1. p \in DOMAIN L.interests /\ M.interests[p] = L.interests[p]
      BY <1>8, <2>2
    <3>2. InterestValid(L, p)
      BY <1>0, <3>1 DEF InterestsValid
    <3> DEFINE l == L.interests[p].location
    <3>3. /\ p \in DOMAIN L.avatars /\ l \in DOMAIN L.locations /\ L.locations[l].active
      BY <3>2 DEF InterestValid, AcceptsAvatarOutcome
    <3>4. M.avatars[p] = L.avatars[p] /\ M.locations[l] = L.locations[l]
      BY <1>1, <1>5, <1>6, <2>2, <3>3
    <3> QED BY <1>5, <1>6, <3>1, <3>2, <3>3, <3>4 DEF InterestValid, AcceptsAvatarOutcome
  <2> QED BY <2>1, <2>2
<1> QED BY <1>4, <1>12, <1>13, <1>15, <1>16, <1>17 DEF Good, Valid, M

LEMMA RotateCheckpointGood ==
  ASSUME NEW L, Good(L), NEW previous \in Revision, NEW next \in Revision,
         CanRotateCheckpoint(L, previous, next)
  PROVE  Good(RotateCheckpoint(L, next))
<1> DEFINE M == RotateCheckpoint(L, next)
           locations == RotatedLocations(L, next)
           avatars == [p \in DOMAIN L.avatars |-> Bumped(L.avatars[p])]
           globals == RotatedGlobals(L)
           active == ActiveAvatars(L)
           interests == RotatedInterests(L, next)
           bound(p) == [location |-> L.avatars[p].location,
                        avatar_generation |-> L.avatars[p].generation + 1,
                        worker |-> locations[L.avatars[p].location].worker,
                        worker_generation |-> locations[L.avatars[p].location].generation]
<1>0. /\ L \in Ledger /\ FiniteMaps(L) /\ SizesValid(L) /\ LocationsValid(L)
      /\ AvatarsValid(L) /\ TransfersValid(L) /\ InterestsValid(L)
  BY GoodParts
<1>1. /\ DOMAIN L.transfers = {}
      /\ \A l \in DOMAIN L.locations :
           L.locations[l].active => L.locations[l].generation # MaxGeneration
      /\ \A p \in DOMAIN L.avatars :
           L.avatars[p].active => L.avatars[p].generation # MaxGeneration
  BY DEF CanRotateCheckpoint
<1>2. /\ M.locations = locations /\ M.avatars = avatars /\ M.globals = globals
      /\ M.transfers = L.transfers /\ M.global_events = L.global_events
      /\ M.high_transfer_id = L.high_transfer_id
  BY <1>0, SMTT(20) DEF RotateCheckpoint, Ledger
<1>3. M.interests = interests
  BY <1>0, SMTT(20) DEF RotateCheckpoint, Ledger
<1>4. M = [L EXCEPT !.locations = locations, !.globals = globals, !.avatars = avatars,
                    !.interests = interests]
  BY <1>0, SMTT(20) DEF RotateCheckpoint, Ledger
<1>5. \A l \in DOMAIN L.locations :
        /\ locations[l] \in LocationLease
        /\ locations[l].active <=> L.locations[l].active
        /\ locations[l].worker = L.locations[l].worker
        /\ locations[l].checkpoint = next
  <2> SUFFICES ASSUME NEW l \in DOMAIN L.locations
               PROVE  /\ locations[l] \in LocationLease
                      /\ locations[l].active <=> L.locations[l].active
                      /\ locations[l].worker = L.locations[l].worker
                      /\ locations[l].checkpoint = next
    OBVIOUS
  <2>1. L.locations[l] \in LocationLease  BY <1>0, LedgerValues
  <2>2. CASE L.locations[l].active
    <3>1. L.locations[l].generation + 1 \in Generation
      BY <1>1, <2>1, <2>2, LedgerAssumption DEF LocationLease, Generation
    <3> QED BY <2>1, <2>2, <3>1 DEF LocationLease, RotatedLocations, Bumped
  <2>3. CASE ~L.locations[l].active
    BY <2>1, <2>3 DEF LocationLease, RotatedLocations, Bumped
  <2> QED BY <2>2, <2>3
<1>6. \A p \in DOMAIN L.avatars :
        /\ avatars[p] \in AvatarLease
        /\ avatars[p].active <=> L.avatars[p].active
        /\ avatars[p].location = L.avatars[p].location
        /\ L.avatars[p].active =>
             /\ avatars[p].generation = L.avatars[p].generation + 1
             /\ L.avatars[p].generation + 1 \in Generation
  <2> SUFFICES ASSUME NEW p \in DOMAIN L.avatars
               PROVE  /\ avatars[p] \in AvatarLease
                      /\ avatars[p].active <=> L.avatars[p].active
                      /\ avatars[p].location = L.avatars[p].location
                      /\ L.avatars[p].active =>
                           /\ avatars[p].generation = L.avatars[p].generation + 1
                           /\ L.avatars[p].generation + 1 \in Generation
    OBVIOUS
  <2>1. L.avatars[p] \in AvatarLease  BY <1>0, LedgerValues
  <2>2. CASE L.avatars[p].active
    <3>1. L.avatars[p].generation + 1 \in Generation
      BY <1>1, <2>1, <2>2, LedgerAssumption DEF AvatarLease, Generation
    <3> QED BY <2>1, <2>2, <3>1 DEF AvatarLease, Bumped
  <2>3. CASE ~L.avatars[p].active
    BY <2>1, <2>3 DEF AvatarLease, Bumped
  <2> QED BY <2>2, <2>3
<1>7. \A s \in DOMAIN L.globals : globals[s] \in GlobalLease
  <2> SUFFICES ASSUME NEW s \in DOMAIN L.globals  PROVE globals[s] \in GlobalLease
    OBVIOUS
  <2>1. L.globals[s] \in GlobalLease  BY <1>0, LedgerValues
  <2>2. CASE WorkerActive(L, L.globals[s].worker, L.globals[s].generation)
    <3>1. L.globals[s].generation + 1 \in Generation
      BY <1>1, <2>1, <2>2, LedgerAssumption DEF WorkerActive, GlobalLease, Generation
    <3> QED BY <2>1, <2>2, <3>1 DEF GlobalLease, RotatedGlobals
  <2>3. CASE ~WorkerActive(L, L.globals[s].worker, L.globals[s].generation)
    BY <2>1, <2>3 DEF RotatedGlobals
  <2> QED BY <2>2, <2>3
<1>8. \A p \in active : /\ p \in DOMAIN L.avatars /\ p \in Player
                        /\ L.avatars[p].location \in DOMAIN L.locations
                        /\ L.locations[L.avatars[p].location].active
                        /\ bound(p) \in InterestLease
  <2> SUFFICES ASSUME NEW p \in active
               PROVE  /\ p \in DOMAIN L.avatars /\ p \in Player
                      /\ L.avatars[p].location \in DOMAIN L.locations
                      /\ L.locations[L.avatars[p].location].active
                      /\ bound(p) \in InterestLease
    OBVIOUS
  <2>1. /\ p \in DOMAIN L.avatars /\ p \in Player /\ L.avatars[p] \in AvatarLease
        /\ L.avatars[p].active /\ AvatarValid(L, p)
    BY <1>0, LedgerValues DEF AvatarsValid, ActiveAvatars
  <2>2. /\ L.avatars[p].location \in DOMAIN L.locations
        /\ L.locations[L.avatars[p].location].active
    BY <2>1 DEF AvatarValid
  <2>3. locations[L.avatars[p].location] \in LocationLease
        /\ L.avatars[p].generation + 1 \in Generation
    BY <1>5, <1>6, <2>1, <2>2
  <2> HIDE DEF locations
  <2> QED BY <2>1, <2>2, <2>3 DEF InterestLease, LocationLease, AvatarLease
<1>9. DOMAIN locations = DOMAIN L.locations /\ DOMAIN avatars = DOMAIN L.avatars
      /\ DOMAIN globals = DOMAIN L.globals
      /\ DOMAIN interests = DOMAIN L.interests \cup active
  BY DEF RotatedLocations, RotatedGlobals, RotatedInterests
<1>10. /\ \A p \in active : interests[p] = bound(p)
       /\ \A p \in DOMAIN L.interests : p \in active
  <2>1. ASSUME NEW p \in active  PROVE interests[p] = bound(p)
    <3>1. [L EXCEPT !.locations = locations].locations = locations
      BY <1>0 DEF Ledger
    <3> QED BY <3>1, <2>1 DEF RotatedInterests, InterestAt
  <2>2. ASSUME NEW p \in DOMAIN L.interests  PROVE p \in active
    <3>1. InterestValid(L, p)  BY <1>0 DEF InterestsValid
    <3> QED BY <3>1 DEF InterestValid, AcceptsAvatarOutcome, ActiveAvatars
  <2> QED BY <2>1, <2>2
<1>11. M \in Ledger
  <2>1. locations \in PartialFunction(Location, LocationLease)
    <3>1. DOMAIN L.locations \in SUBSET Location  BY <1>0, LedgerValues
    <3>2. locations \in [DOMAIN L.locations -> LocationLease]  BY <1>5 DEF RotatedLocations
    <3> HIDE DEF locations
    <3> QED BY <3>1, <3>2, PartialFunctionIntro
  <2>2. avatars \in PartialFunction(Player, AvatarLease)
    <3>1. DOMAIN L.avatars \in SUBSET Player  BY <1>0, LedgerValues
    <3>2. avatars \in [DOMAIN L.avatars -> AvatarLease]  BY <1>6
    <3> HIDE DEF avatars
    <3> QED BY <3>1, <3>2, PartialFunctionIntro
  <2>3. globals \in PartialFunction(System, GlobalLease)
    <3>1. DOMAIN L.globals \in SUBSET System  BY <1>0, LedgerValues
    <3>2. globals \in [DOMAIN L.globals -> GlobalLease]  BY <1>7 DEF RotatedGlobals
    <3> HIDE DEF globals
    <3> QED BY <3>1, <3>2, PartialFunctionIntro
  <2>4. interests \in PartialFunction(Player, InterestLease)
    <3>1. DOMAIN L.interests \cup active \in SUBSET Player  BY <1>0, <1>8, LedgerValues
    <3>2. interests \in [DOMAIN L.interests \cup active -> InterestLease]
      <4>1. interests = [p \in DOMAIN L.interests \cup active |-> interests[p]]
        BY DEF RotatedInterests
      <4>2. \A p \in DOMAIN L.interests \cup active : interests[p] \in InterestLease
        <5> HIDE DEF bound, active, interests
        <5> QED BY <1>8, <1>10
      <4> HIDE DEF interests, active
      <4> QED BY <4>1, <4>2
    <3> HIDE DEF interests
    <3> QED BY <3>1, <3>2, PartialFunctionIntro
  <2> HIDE DEF M, locations, avatars, globals, interests
  <2> QED BY <1>0, <1>4, <2>1, <2>2, <2>3, <2>4 DEF Ledger
<1>12. \A p \in active : /\ M.avatars[p].generation = L.avatars[p].generation + 1
                         /\ M.avatars[p].location = L.avatars[p].location
                         /\ M.avatars[p].active
                         /\ M.avatars[p] \in AvatarLease
  <2> SUFFICES ASSUME NEW p \in active
               PROVE  /\ M.avatars[p].generation = L.avatars[p].generation + 1
                      /\ M.avatars[p].location = L.avatars[p].location
                      /\ M.avatars[p].active
                      /\ M.avatars[p] \in AvatarLease
    OBVIOUS
  <2>1. p \in DOMAIN L.avatars /\ L.avatars[p].active
    BY DEF ActiveAvatars
  <2>2. M.avatars[p] = avatars[p]  BY <1>2
  <2> HIDE DEF M, avatars, active
  <2> QED BY <1>6, <2>1, <2>2
<1>13. \A p \in active :
         /\ M.interests[p].location = L.avatars[p].location
         /\ M.interests[p].avatar_generation = L.avatars[p].generation + 1
         /\ M.interests[p].worker = M.locations[L.avatars[p].location].worker
         /\ M.interests[p].worker_generation = M.locations[L.avatars[p].location].generation
  <2>1. \A p \in active : M.interests[p] = bound(p)
    BY <1>3, <1>10
  <2>2. M.locations = locations  BY <1>2
  <2> SUFFICES ASSUME NEW p \in active
               PROVE  /\ M.interests[p].location = L.avatars[p].location
                      /\ M.interests[p].avatar_generation = L.avatars[p].generation + 1
                      /\ M.interests[p].worker = M.locations[L.avatars[p].location].worker
                      /\ M.interests[p].worker_generation
                           = M.locations[L.avatars[p].location].generation
    OBVIOUS
  <2>3. M.interests[p] = bound(p)  BY <2>1
  <2> HIDE DEF interests, active, locations, M
  <2> QED BY <2>2, <2>3
<1>14. \A p \in DOMAIN M.avatars : M.avatars[p].active <=> p \in active
  BY <1>2, <1>6, <1>9 DEF ActiveAvatars
<1> HIDE DEF M, locations, avatars, globals, interests, bound
<1>15. FiniteMaps(M) /\ SizesValid(M)
  <2>1. DOMAIN M.interests \subseteq DOMAIN L.avatars
    BY <1>3, <1>8, <1>9, <1>10
  <2>2. IsFiniteSet(DOMAIN M.interests) /\ Cardinality(DOMAIN M.interests) <= MaxAvatars
    BY <1>0, <2>1, FS_Subset, FS_CardinalityType, LedgerAssumption DEF FiniteMaps, SizesValid
  <2> QED BY <1>0, <1>2, <1>9, <2>2 DEF FiniteMaps, SizesValid
<1>16. LocationsValid(M)
  BY <1>0, <1>2, <1>5, <1>9 DEF LocationsValid
<1>17. AvatarsValid(M)
  <2> SUFFICES ASSUME NEW p \in DOMAIN M.avatars  PROVE AvatarValid(M, p)
    BY DEF AvatarsValid
  <2>1. p \in DOMAIN L.avatars /\ AvatarValid(L, p) /\ ~TransferFenced(L, p)
    BY <1>0, <1>1, <1>2, <1>9 DEF AvatarsValid, TransferFenced, TransferIn
  <2>2. /\ M.avatars[p].location = L.avatars[p].location
        /\ M.avatars[p].active <=> L.avatars[p].active
        /\ L.avatars[p].location \in DOMAIN M.locations
        /\ M.locations[L.avatars[p].location].active
             <=> L.locations[L.avatars[p].location].active
    BY <1>2, <1>5, <1>6, <1>9, <2>1 DEF AvatarValid
  <2> QED BY <2>1, <2>2 DEF AvatarValid
<1>18. TransfersValid(M)
  BY <1>1, <1>2 DEF TransfersValid, TransfersApart
<1>19. InterestsValid(M)
  <2> SUFFICES ASSUME NEW p \in DOMAIN M.interests  PROVE InterestValid(M, p)
    BY DEF InterestsValid
  <2>1. p \in active  BY <1>3, <1>9, <1>10
  <2> HIDE DEF active
  <2>2. /\ p \in DOMAIN M.avatars /\ L.avatars[p].location \in DOMAIN M.locations
        /\ M.locations[L.avatars[p].location].active
    BY <1>2, <1>5, <1>8, <1>9, <2>1
  <2>3. M.avatars[p] = [generation |-> M.avatars[p].generation,
                        location |-> M.avatars[p].location, active |-> TRUE]
    BY <1>12, <2>1 DEF AvatarLease
  <2> QED BY <1>12, <1>13, <2>1, <2>2, <2>3 DEF InterestValid, AcceptsAvatarOutcome
<1> QED BY <1>11, <1>15, <1>16, <1>17, <1>18, <1>19 DEF Good, Valid, M

LEMMA EmptyLedgerGood == Good(EmptyLedger)
<1>1. \A S, T : Empty \in PartialFunction(S, T)
  BY DEF Empty, PartialFunction
<1>2. EmptyLedger \in Ledger
  BY <1>1, LedgerAssumption DEF EmptyLedger, Ledger
<1>3. IsFiniteSet({}) /\ Cardinality({}) = 0
  BY FS_EmptySet
<1>4. FiniteMaps(EmptyLedger) /\ SizesValid(EmptyLedger)
  BY <1>3, LedgerAssumption DEF FiniteMaps, SizesValid, EmptyLedger, Empty
<1>5. /\ LocationsValid(EmptyLedger) /\ AvatarsValid(EmptyLedger)
      /\ TransfersValid(EmptyLedger) /\ InterestsValid(EmptyLedger)
  BY DEF LocationsValid, AvatarsValid, TransfersValid, TransfersApart, InterestsValid,
         EmptyLedger, Empty
<1> QED BY <1>2, <1>4, <1>5 DEF Good, Valid

-----------------------------------------------------------------------------
(* What a transfer can count on *)

FencedPhase == {"source_fenced", "destination_restored"}

\* The two promises about transfer t of the ledger L.
Settled(L, t) ==
  /\ L.transfers[t].phase \in FencedPhase =>
       L.avatars[L.transfers[t].player].generation < MaxGeneration
  /\ L.transfers[t].destination_generation
       <= L.locations[L.transfers[t].destination].generation

AllSettled(L) == \A t \in DOMAIN L.transfers : Settled(L, t)

\* A transfer stays settled while its record, the generation of its fenced
\* avatar and at least the generation of its destination stay.
LEMMA SettledFrame ==
  ASSUME NEW L, Good(L), AllSettled(L), NEW M, NEW t \in DOMAIN L.transfers,
         M.transfers[t] = L.transfers[t],
         L.transfers[t].phase \in FencedPhase =>
           M.avatars[L.transfers[t].player].generation
             = L.avatars[L.transfers[t].player].generation,
         M.locations[L.transfers[t].destination].generation \in Nat,
         M.locations[L.transfers[t].destination].generation
           >= L.locations[L.transfers[t].destination].generation
  PROVE  Settled(M, t)
<1>1. /\ L.transfers[t] \in Transfer
      /\ L.locations[L.transfers[t].destination] \in LocationLease
  BY GoodParts, LedgerValues DEF TransfersValid, TransferValid
<1>2. /\ L.transfers[t].destination_generation \in Nat
      /\ L.locations[L.transfers[t].destination].generation \in Nat
  BY <1>1, LedgerAssumption DEF Transfer, LocationLease, Generation
<1>3. Settled(L, t)
  BY DEF AllSettled
<1> QED BY <1>2, <1>3 DEF Settled

\* Of a transfer of a good ledger.
LEMMA TransferFacts ==
  ASSUME NEW L, Good(L), NEW t \in DOMAIN L.transfers
  PROVE  /\ L.transfers[t] \in Transfer
         /\ L.transfers[t].player \in DOMAIN L.avatars
         /\ L.transfers[t].destination \in DOMAIN L.locations
         /\ L.locations[L.transfers[t].destination].generation \in Nat
         /\ L.avatars[L.transfers[t].player].generation \in Nat
<1>1. L \in Ledger /\ TransferValid(L, t)
  BY GoodParts DEF TransfersValid
<1>2. /\ L.transfers[t] \in Transfer
      /\ L.transfers[t].player \in DOMAIN L.avatars
      /\ L.transfers[t].destination \in DOMAIN L.locations
  BY <1>1, LedgerValues DEF TransferValid
<1>3. /\ L.locations[L.transfers[t].destination] \in LocationLease
      /\ L.avatars[L.transfers[t].player] \in AvatarLease
  BY <1>1, <1>2, LedgerValues
<1> QED BY <1>2, <1>3, LedgerAssumption DEF LocationLease, AvatarLease, Generation

\* A step that leaves transfers alone, keeps the generations of the players
\* that have a fenced one and never lowers a location's.
LEMMA SameTransfersSettled ==
  ASSUME NEW L, Good(L), AllSettled(L), NEW M, M.transfers = L.transfers,
         \A p \in DOMAIN L.avatars : M.avatars[p].generation = L.avatars[p].generation,
         \A l \in DOMAIN L.locations : M.locations[l].generation = L.locations[l].generation
  PROVE  AllSettled(M)
<1> SUFFICES ASSUME NEW t \in DOMAIN L.transfers  PROVE Settled(M, t)
  BY DEF AllSettled
<1> QED BY TransferFacts, SettledFrame

\* A step on transfer id of the player that leaves the leases of the others alone.
LEMMA OneTransferSettled ==
  ASSUME NEW L, Good(L), AllSettled(L), NEW M, NEW id, NEW player,
         M.locations = L.locations,
         \A p \in DOMAIN L.avatars : p # player => M.avatars[p] = L.avatars[p],
         \A t \in DOMAIN M.transfers : t # id =>
           /\ t \in DOMAIN L.transfers
           /\ M.transfers[t] = L.transfers[t]
           /\ L.transfers[t].player # player,
         id \in DOMAIN M.transfers => Settled(M, id)
  PROVE  AllSettled(M)
<1> SUFFICES ASSUME NEW t \in DOMAIN M.transfers, t # id  PROVE Settled(M, t)
  BY DEF AllSettled
<1> QED BY TransferFacts, SettledFrame

\* The other transfers are of other players.
LEMMA OtherPlayers ==
  ASSUME NEW L, Good(L), NEW id \in DOMAIN L.transfers
  PROVE  \A t \in DOMAIN L.transfers : t # id =>
           L.transfers[t].player # L.transfers[id].player
BY GoodParts DEF TransfersValid, TransfersApart

-----------------------------------------------------------------------------
(* One lemma per operation *)

LEMMA AddLocationSettled ==
  ASSUME NEW L, Good(L), AllSettled(L), NEW id \in Location, NEW lease \in LocationLease,
         CanAddLocation(L, id, lease)
  PROVE  AllSettled(AddLocation(L, id, lease))
<1> DEFINE M == AddLocation(L, id, lease)
<1>0. L \in Ledger  BY GoodParts
<1>1. /\ M.locations = Put(L.locations, id, lease)
      /\ M.avatars = L.avatars /\ M.transfers = L.transfers
  BY <1>0 DEF AddLocation, Ledger
<1> HIDE DEF M
<1>2. \A l \in DOMAIN L.locations : M.locations[l] = L.locations[l]
  BY <1>1 DEF Put, CanAddLocation
<1>3. AllSettled(M)
  BY <1>1, <1>2, SameTransfersSettled
<1> QED BY <1>3 DEF M

LEMMA PlaceAvatarSettled ==
  ASSUME NEW L, Good(L), AllSettled(L), NEW player \in Player, NEW id \in Location,
         CanPlaceAvatar(L, player, id)
  PROVE  AllSettled(PlaceAvatar(L, player, id))
<1> DEFINE M == PlaceAvatar(L, player, id)
<1>0. L \in Ledger /\ id \in DOMAIN L.locations /\ 1 \in Generation
      /\ player \notin DOMAIN L.avatars
  BY GoodParts, LedgerAssumption DEF CanPlaceAvatar, Generation
<1>1. M = ActivateAvatar(L, player, id, 1)
  BY DEF PlaceAvatar
<1> HIDE DEF M
<1>2. /\ M.locations = L.locations /\ M.transfers = L.transfers
      /\ DOMAIN M.avatars = DOMAIN L.avatars \cup {player}
      /\ \A p \in DOMAIN M.avatars : p # player => M.avatars[p] = L.avatars[p]
  BY <1>0, <1>1, ActivateAvatarFacts
<1>3. AllSettled(M)
  BY <1>0, <1>2, SameTransfersSettled
<1> QED BY <1>3 DEF M

LEMMA BeginTransferSettled ==
  ASSUME NEW L, Good(L), AllSettled(L), NEW id \in TransferId, NEW player \in Player,
         NEW destination \in Location, CanBeginTransfer(L, id, player, destination)
  PROVE  AllSettled(BeginTransfer(L, id, player, destination))
<1> DEFINE M == BeginTransfer(L, id, player, destination)
           begun == [player |-> player, source_generation |-> L.avatars[player].generation,
                     destination_generation |-> 0, source |-> L.avatars[player].location,
                     destination |-> destination, phase |-> "prepared"]
<1>0. L \in Ledger  BY GoodParts
<1>1. /\ M.locations = L.locations /\ M.avatars = L.avatars
      /\ M.transfers = Put(L.transfers, id, begun)
  BY <1>0 DEF BeginTransfer, Ledger
<1>2. /\ begun.phase = "prepared" /\ begun.destination_generation = 0
      /\ begun.destination = destination
  OBVIOUS
<1>3. \A t \in DOMAIN L.transfers : L.transfers[t].player # player
  BY <1>0, LedgerValues DEF CanBeginTransfer, TransferIn, Transfer
<1>4. L.locations[destination].generation \in Nat
  BY <1>0, LedgerValues, LedgerAssumption DEF CanBeginTransfer, LocationLease, Generation
<1> HIDE DEF M, begun
<1>5. /\ M.transfers[id] = begun
      /\ \A t \in DOMAIN M.transfers : t # id =>
           t \in DOMAIN L.transfers /\ M.transfers[t] = L.transfers[t]
  BY <1>1 DEF Put
<1>6. Settled(M, id)
  BY <1>1, <1>2, <1>4, <1>5 DEF Settled, FencedPhase
<1>7. /\ M.locations = L.locations
      /\ \A p \in DOMAIN L.avatars : p # player => M.avatars[p] = L.avatars[p]
      /\ \A t \in DOMAIN M.transfers : t # id =>
           /\ t \in DOMAIN L.transfers
           /\ M.transfers[t] = L.transfers[t]
           /\ L.transfers[t].player # player
  BY <1>1, <1>3, <1>5
<1>8. AllSettled(M)
  BY <1>6, <1>7, OneTransferSettled, ZenonT(30)
<1> QED BY <1>8 DEF M

LEMMA FenceSourceSettled ==
  ASSUME NEW L, Good(L), AllSettled(L), NEW id \in TransferId, NEW g,
         CanFenceSource(L, id, g)
  PROVE  AllSettled(FenceSource(L, id))
<1> DEFINE M == FenceSource(L, id)
           player == L.transfers[id].player
           avatar == L.avatars[player]
           fenced == [generation |-> avatar.generation + 1,
                      location |-> avatar.location, active |-> FALSE]
           marked == [L.transfers[id] EXCEPT !.phase = "source_fenced"]
<1>0. L \in Ledger /\ id \in DOMAIN L.transfers
  BY GoodParts DEF CanFenceSource, InPhase
<1>1. /\ M.locations = L.locations
      /\ M.avatars = Put(L.avatars, player, fenced)
      /\ M.transfers = Put(L.transfers, id, marked)
  BY <1>0 DEF FenceSource, Ledger
<1>2. /\ L.transfers[id] \in Transfer /\ player \in DOMAIN L.avatars
      /\ avatar.generation \in Nat
  BY <1>0, TransferFacts
<1>3. /\ marked.player = player
      /\ marked.destination = L.transfers[id].destination
      /\ marked.destination_generation = L.transfers[id].destination_generation
      /\ fenced.generation = avatar.generation + 1
  BY <1>2 DEF Transfer
<1>4. avatar.generation + 1 < MaxGeneration
  BY <1>2, LedgerAssumption DEF CanFenceSource
<1>5. Settled(L, id)
  BY <1>0 DEF AllSettled
<1> HIDE DEF M, fenced, marked
<1>6. /\ M.transfers[id] = marked /\ M.avatars[player] = fenced
      /\ \A p \in DOMAIN L.avatars : p # player => M.avatars[p] = L.avatars[p]
      /\ \A t \in DOMAIN M.transfers : t # id =>
           t \in DOMAIN L.transfers /\ M.transfers[t] = L.transfers[t]
  BY <1>1 DEF Put
<1>7. Settled(M, id)
  BY <1>1, <1>3, <1>4, <1>5, <1>6 DEF Settled
<1>8. \A t \in DOMAIN L.transfers : t # id => L.transfers[t].player # player
  BY <1>0, OtherPlayers
<1>9. \A t \in DOMAIN M.transfers : t # id =>
        /\ t \in DOMAIN L.transfers
        /\ M.transfers[t] = L.transfers[t]
        /\ L.transfers[t].player # player
  BY <1>6, <1>8
<1> HIDE DEF player
<1>10. AllSettled(M)
  BY <1>1, <1>6, <1>7, <1>9, OneTransferSettled, ZenonT(30)
<1> QED BY <1>10 DEF M

LEMMA DestinationRestoredSettled ==
  ASSUME NEW L, Good(L), AllSettled(L), NEW id \in TransferId, NEW worker \in Worker,
         NEW g \in Generation, CanDestinationRestored(L, id, worker, g)
  PROVE  AllSettled(DestinationRestored(L, id, g))
<1> DEFINE M == DestinationRestored(L, id, g)
           marked == [L.transfers[id] EXCEPT !.destination_generation = g,
                                             !.phase = "destination_restored"]
<1>0. /\ L \in Ledger /\ id \in DOMAIN L.transfers
      /\ L.transfers[id].phase \in FencedPhase
      /\ L.locations[L.transfers[id].destination].generation = g
  BY GoodParts DEF CanDestinationRestored, InPhase, FencedPhase
<1>1. /\ M.locations = L.locations /\ M.avatars = L.avatars
      /\ M.transfers = Put(L.transfers, id, marked)
  BY <1>0 DEF DestinationRestored, Ledger
<1>2. L.transfers[id] \in Transfer
  BY <1>0, TransferFacts
<1>3. /\ marked.player = L.transfers[id].player
      /\ marked.destination = L.transfers[id].destination
      /\ marked.destination_generation = g
  BY <1>2 DEF Transfer
<1>4. Settled(L, id)
  BY <1>0 DEF AllSettled
<1> HIDE DEF M, marked
<1>5. /\ M.transfers[id] = marked
      /\ \A t \in DOMAIN M.transfers : t # id =>
           t \in DOMAIN L.transfers /\ M.transfers[t] = L.transfers[t]
  BY <1>1 DEF Put
<1>6. Settled(M, id)
  BY <1>0, <1>1, <1>3, <1>4, <1>5 DEF Settled, Generation
<1>7. \A t \in DOMAIN M.transfers : t # id =>
        /\ t \in DOMAIN L.transfers
        /\ M.transfers[t] = L.transfers[t]
        /\ L.transfers[t].player # L.transfers[id].player
  BY <1>0, <1>5, OtherPlayers
<1>8. \A p \in DOMAIN L.avatars :
        p # L.transfers[id].player => M.avatars[p] = L.avatars[p]
  BY <1>1
<1>9. AllSettled(M)
  BY <1>1, <1>6, <1>7, <1>8, OneTransferSettled, ZenonT(30)
<1> QED BY <1>9 DEF M

LEMMA RecoverCommittedDestinationSettled ==
  ASSUME NEW L, Good(L), AllSettled(L), NEW id \in TransferId, NEW worker \in Worker,
         NEW g \in Generation, CanRecoverCommittedDestination(L, id, worker, g)
  PROVE  AllSettled(RecoverCommittedDestination(L, id, g))
<1> DEFINE M == RecoverCommittedDestination(L, id, g)
           marked == [L.transfers[id] EXCEPT !.destination_generation = g]
<1>0. /\ L \in Ledger /\ id \in DOMAIN L.transfers
      /\ L.transfers[id].phase = "committed"
      /\ L.locations[L.transfers[id].destination].generation = g
  BY GoodParts DEF CanRecoverCommittedDestination, InPhase
<1>1. /\ M.locations = L.locations /\ M.avatars = L.avatars
      /\ M.transfers = Put(L.transfers, id, marked)
  BY <1>0 DEF RecoverCommittedDestination, Ledger
<1>2. L.transfers[id] \in Transfer
  BY <1>0, TransferFacts
<1>3. /\ marked.phase = "committed"
      /\ marked.destination = L.transfers[id].destination
      /\ marked.destination_generation = g
  BY <1>0, <1>2 DEF Transfer
<1> HIDE DEF M, marked
<1>5. /\ M.transfers[id] = marked
      /\ \A t \in DOMAIN M.transfers : t # id =>
           t \in DOMAIN L.transfers /\ M.transfers[t] = L.transfers[t]
  BY <1>1 DEF Put
<1>6. Settled(M, id)
  BY <1>0, <1>1, <1>3, <1>5 DEF Settled, Generation, FencedPhase
<1>7. \A t \in DOMAIN M.transfers : t # id =>
        /\ t \in DOMAIN L.transfers
        /\ M.transfers[t] = L.transfers[t]
        /\ L.transfers[t].player # L.transfers[id].player
  BY <1>0, <1>5, OtherPlayers
<1>8. \A p \in DOMAIN L.avatars :
        p # L.transfers[id].player => M.avatars[p] = L.avatars[p]
  BY <1>1
<1>9. AllSettled(M)
  BY <1>1, <1>6, <1>7, <1>8, OneTransferSettled, ZenonT(30)
<1> QED BY <1>9 DEF M

LEMMA CommitTransferSettled ==
  ASSUME NEW L, Good(L), AllSettled(L), NEW id \in TransferId, CanCommitTransfer(L, id)
  PROVE  AllSettled(CommitTransfer(L, id))
<1> DEFINE M == CommitTransfer(L, id)
           transfer == L.transfers[id]
           player == transfer.player
           g == L.avatars[player].generation + 1
           A == ActivateAvatar(L, player, transfer.destination, g)
           marked == [transfer EXCEPT !.phase = "committed"]
<1>0. L \in Ledger /\ id \in DOMAIN L.transfers /\ player \in Player
  BY GoodParts, LedgerValues DEF CanCommitTransfer, InPhase, Transfer
<1>1. /\ transfer \in Transfer /\ transfer.destination \in DOMAIN L.locations
      /\ player \in DOMAIN L.avatars
  BY <1>0, TransferFacts
<1>2. g \in Generation
  BY <1>0, <1>1, LedgerValues, LedgerAssumption DEF CanCommitTransfer, AvatarLease, Generation
<1>3. /\ marked.phase = "committed"
      /\ marked.destination = transfer.destination
      /\ marked.destination_generation = transfer.destination_generation
  BY <1>1 DEF Transfer
<1>4. M = [A EXCEPT !.transfers = Put(A.transfers, id, marked)]
  BY <1>0 DEF CommitTransfer, ActivateAvatar, Ledger
<1>5. Settled(L, id)
  BY <1>0 DEF AllSettled
<1> HIDE DEF M, A, marked, g
<1>6. A = ActivateAvatar(L, player, transfer.destination, g)  BY DEF A
<1>7. /\ A \in Ledger /\ A.locations = L.locations /\ A.transfers = L.transfers
      /\ DOMAIN A.avatars = DOMAIN L.avatars \cup {player}
      /\ \A p \in DOMAIN A.avatars : p # player => A.avatars[p] = L.avatars[p]
  BY <1>0, <1>1, <1>2, <1>6, ActivateAvatarFacts
<1>8. /\ M.locations = L.locations /\ M.avatars = A.avatars
      /\ M.transfers = Put(L.transfers, id, marked)
  BY <1>4, <1>7 DEF Ledger
<1>9. /\ M.transfers[id] = marked
      /\ \A t \in DOMAIN M.transfers : t # id =>
           t \in DOMAIN L.transfers /\ M.transfers[t] = L.transfers[t]
  BY <1>8 DEF Put
<1>10. Settled(M, id)
  BY <1>3, <1>5, <1>8, <1>9 DEF Settled, FencedPhase
<1>11. \A t \in DOMAIN M.transfers : t # id =>
         /\ t \in DOMAIN L.transfers
         /\ M.transfers[t] = L.transfers[t]
         /\ L.transfers[t].player # player
  BY <1>0, <1>9, OtherPlayers
<1>12. \A p \in DOMAIN L.avatars : p # player => M.avatars[p] = L.avatars[p]
  BY <1>7, <1>8
<1> HIDE DEF player
<1>13. AllSettled(M)
  BY <1>8, <1>10, <1>11, <1>12, OneTransferSettled, ZenonT(30)
<1> QED BY <1>13 DEF M

LEMMA FinishTransferSettled ==
  ASSUME NEW L, Good(L), AllSettled(L), NEW id \in TransferId, CanFinishTransfer(L, id)
  PROVE  AllSettled(FinishTransfer(L, id))
<1> DEFINE M == FinishTransfer(L, id)
<1>0. L \in Ledger  BY GoodParts
<1>1. /\ M.locations = L.locations /\ M.avatars = L.avatars
      /\ M.transfers = Without(L.transfers, {id})
  BY <1>0 DEF FinishTransfer, Ledger
<1> HIDE DEF M
<1>2. /\ id \notin DOMAIN M.transfers
      /\ \A t \in DOMAIN M.transfers :
           t \in DOMAIN L.transfers /\ M.transfers[t] = L.transfers[t]
  BY <1>1 DEF Without, Restrict
<1>3. ASSUME NEW t \in DOMAIN M.transfers  PROVE Settled(M, t)
  <2>1. t \in DOMAIN L.transfers /\ M.transfers[t] = L.transfers[t]
    BY <1>2
  <2>2. L.locations[L.transfers[t].destination].generation \in Nat
    BY <2>1, TransferFacts
  <2> QED BY <1>1, <2>1, <2>2, SettledFrame
<1>4. AllSettled(M)  BY <1>3 DEF AllSettled
<1> QED BY <1>4 DEF M

\* What abort_transfer changes.
LEMMA AbortTransferFacts ==
  ASSUME NEW L, Good(L), NEW id \in TransferId, NEW g \in 0..MaxGeneration,
         CanAbortTransfer(L, id, g), NEW M, M = AbortTransfer(L, id, g)
  PROVE  /\ id \in DOMAIN L.transfers /\ L.transfers[id].player \in Player
         /\ M.locations = L.locations
         /\ DOMAIN M.avatars = DOMAIN L.avatars
         /\ \A p \in DOMAIN L.avatars :
              p # L.transfers[id].player => M.avatars[p] = L.avatars[p]
         /\ M.transfers = Without(L.transfers, {id})
         /\ M.high_transfer_id = L.high_transfer_id
<1> DEFINE player == L.transfers[id].player
           source == L.transfers[id].source
           A == ActivateAvatar(L, player, source, g)
<1>0. /\ L \in Ledger /\ id \in DOMAIN L.transfers /\ player \in Player
      /\ player \in DOMAIN L.avatars
  BY GoodParts, LedgerValues, TransferFacts DEF CanAbortTransfer, InPhase, Transfer
<1>1. CASE ~NeedsRecovery(L, id)
  <2>1. M = [L EXCEPT !.transfers = Without(L.transfers, {id})]
    BY <1>1 DEF AbortTransfer
  <2> QED BY <1>0, <2>1 DEF Ledger
<1>2. CASE NeedsRecovery(L, id)
  <2>1. M = [A EXCEPT !.transfers = Without(A.transfers, {id})]
    BY <1>2 DEF AbortTransfer
  <2>2. source \in DOMAIN L.locations /\ g > L.avatars[player].generation
    BY <1>2 DEF CanAbortTransfer
  <2>3. g \in Generation
    BY <1>0, <2>2, TransferFacts, LedgerAssumption DEF Generation
  <2> HIDE DEF A
  <2>4. A = ActivateAvatar(L, player, source, g)  BY DEF A
  <2> HIDE DEF player, source
  <2>5. /\ A \in Ledger /\ A.locations = L.locations /\ A.transfers = L.transfers
        /\ A.high_transfer_id = L.high_transfer_id
        /\ DOMAIN A.avatars = DOMAIN L.avatars \cup {player}
        /\ \A p \in DOMAIN A.avatars : p # player => A.avatars[p] = L.avatars[p]
    BY <1>0, <2>2, <2>3, <2>4, ActivateAvatarFacts
  <2>6. M.locations = A.locations /\ M.avatars = A.avatars
        /\ M.high_transfer_id = A.high_transfer_id
        /\ M.transfers = Without(L.transfers, {id})
    BY <2>1, <2>5 DEF Ledger
  <2>7. L.transfers[id].player = player  BY DEF player
  <2> QED BY <1>0, <2>5, <2>6, <2>7
<1> QED BY <1>1, <1>2

LEMMA AbortTransferSettled ==
  ASSUME NEW L, Good(L), AllSettled(L), NEW id \in TransferId, NEW g \in 0..MaxGeneration,
         CanAbortTransfer(L, id, g)
  PROVE  AllSettled(AbortTransfer(L, id, g))
<1> DEFINE M == AbortTransfer(L, id, g)
           player == L.transfers[id].player
<1>0. id \in DOMAIN L.transfers
  BY DEF CanAbortTransfer, InPhase
<1>1. /\ M.locations = L.locations
      /\ \A p \in DOMAIN L.avatars : p # player => M.avatars[p] = L.avatars[p]
      /\ M.transfers = Without(L.transfers, {id})
  <2> HIDE DEF M
  <2>1. M = AbortTransfer(L, id, g)  BY DEF M
  <2> QED BY <2>1, AbortTransferFacts
<1> HIDE DEF M
<1>2. /\ id \notin DOMAIN M.transfers
      /\ \A t \in DOMAIN M.transfers :
           t \in DOMAIN L.transfers /\ M.transfers[t] = L.transfers[t]
  BY <1>1 DEF Without, Restrict
<1>3. \A t \in DOMAIN M.transfers : t # id =>
        /\ t \in DOMAIN L.transfers
        /\ M.transfers[t] = L.transfers[t]
        /\ L.transfers[t].player # player
  BY <1>0, <1>2, OtherPlayers
<1> HIDE DEF player
<1>4. AllSettled(M)
  BY <1>1, <1>2, <1>3, OneTransferSettled, ZenonT(30)
<1> QED BY <1>4 DEF M

LEMMA WorkerLostSettled ==
  ASSUME NEW L, Good(L), AllSettled(L), NEW id \in Location, id \in DOMAIN L.locations
  PROVE  AllSettled(WorkerLost(L, id))
<1> DEFINE M == WorkerLost(L, id)
           lost == [L.locations[id] EXCEPT !.active = FALSE]
           avatars == [p \in DOMAIN L.avatars |->
                         IF L.avatars[p].location = id
                         THEN [L.avatars[p] EXCEPT !.active = FALSE] ELSE L.avatars[p]]
<1>0. L \in Ledger  BY GoodParts
<1>1. /\ M.locations = Put(L.locations, id, lost) /\ M.avatars = avatars
      /\ M.transfers = L.transfers
  BY <1>0 DEF WorkerLost, Ledger
<1>2. lost.generation = L.locations[id].generation
  BY <1>0, LedgerValues DEF LocationLease
<1>3. \A p \in DOMAIN L.avatars : avatars[p].generation = L.avatars[p].generation
  BY <1>0, LedgerValues DEF AvatarLease
<1> HIDE DEF M, lost, avatars
<1>4. \A l \in DOMAIN L.locations : M.locations[l].generation = L.locations[l].generation
  BY <1>1, <1>2 DEF Put
<1>5. AllSettled(M)
  BY <1>1, <1>3, <1>4, SameTransfersSettled
<1> QED BY <1>5 DEF M

LEMMA ReplaceWorkerSettled ==
  ASSUME NEW L, Good(L), AllSettled(L), NEW id \in Location, NEW worker \in Worker,
         NEW generation \in Generation, NEW checkpoint \in Revision,
         CanReplaceWorker(L, id, worker, generation, checkpoint)
  PROVE  AllSettled(ReplaceWorker(L, id, worker, generation, checkpoint))
<1> DEFINE M == ReplaceWorker(L, id, worker, generation, checkpoint)
           gone == {t \in DOMAIN L.transfers :
                      L.transfers[t].source = id /\ L.transfers[t].phase = "prepared"}
           resumed == {p \in AvatarsAt(L, id) :
                         ~TransferUncommitted(DropPreparedFrom(L, id), p)}
           lease == [worker |-> worker, generation |-> generation,
                     checkpoint |-> checkpoint, content |-> L.locations[id].content,
                     active |-> TRUE]
<1>0. /\ L \in Ledger /\ id \in DOMAIN L.locations
      /\ generation > L.locations[id].generation
  BY GoodParts DEF CanReplaceWorker
<1>1. /\ M.locations = Put(L.locations, id, lease)
      /\ M.transfers = Without(L.transfers, gone)
      /\ \A p \in DOMAIN L.avatars : p \notin resumed => M.avatars[p] = L.avatars[p]
  BY <1>0 DEF ReplaceWorker, DropPreparedFrom, Ledger
<1>2. lease.generation = generation
  OBVIOUS
<1>3. DropPreparedFrom(L, id).transfers = Without(L.transfers, gone)
  BY <1>0 DEF DropPreparedFrom, Ledger
<1>4. /\ DOMAIN Without(L.transfers, gone) = DOMAIN L.transfers \ gone
      /\ \A t \in DOMAIN L.transfers \ gone :
           Without(L.transfers, gone)[t] = L.transfers[t]
  BY WithoutValue
<1>5. \A t \in DOMAIN L.transfers :
        L.transfers[t].phase \in FencedPhase => t \notin gone /\ L.transfers[t].player \notin resumed
  <2> SUFFICES ASSUME NEW t \in DOMAIN L.transfers, L.transfers[t].phase \in FencedPhase
               PROVE  t \notin gone /\ L.transfers[t].player \notin resumed
    OBVIOUS
  <2>1. t \notin gone  BY DEF FencedPhase
  <2>2. /\ t \in DOMAIN DropPreparedFrom(L, id).transfers
        /\ DropPreparedFrom(L, id).transfers[t] = L.transfers[t]
    BY <1>3, <1>4, <2>1
  <2>3. TransferUncommitted(DropPreparedFrom(L, id), L.transfers[t].player)
    BY <2>2 DEF TransferUncommitted, TransferIn, FencedPhase, Phase
  <2> QED BY <2>1, <2>3
<1> HIDE DEF M, lease, gone, resumed
<1>6. /\ M.locations[id].generation = generation
      /\ \A l \in DOMAIN L.locations : l # id => M.locations[l] = L.locations[l]
  BY <1>1, <1>2 DEF Put
<1>7. ASSUME NEW t \in DOMAIN M.transfers  PROVE Settled(M, t)
  <2>1. t \in DOMAIN L.transfers /\ M.transfers[t] = L.transfers[t]
    BY <1>1, <1>4
  <2>2. /\ L.transfers[t].player \in DOMAIN L.avatars
        /\ L.transfers[t].destination \in DOMAIN L.locations
        /\ L.locations[L.transfers[t].destination].generation \in Nat
    BY <2>1, TransferFacts
  <2>3. L.transfers[t].phase \in FencedPhase =>
          M.avatars[L.transfers[t].player].generation
            = L.avatars[L.transfers[t].player].generation
    BY <1>1, <1>5, <2>1, <2>2
  <2>4. /\ M.locations[L.transfers[t].destination].generation \in Nat
        /\ M.locations[L.transfers[t].destination].generation
             >= L.locations[L.transfers[t].destination].generation
    BY <1>0, <1>6, <2>2 DEF Generation
  <2> QED BY <2>1, <2>3, <2>4, SettledFrame
<1>8. AllSettled(M)  BY <1>7 DEF AllSettled
<1> QED BY <1>8 DEF M

\* The checkpoint rotates only while no transfer is open.
LEMMA RotateCheckpointSettled ==
  ASSUME NEW L, Good(L), NEW previous, NEW next, CanRotateCheckpoint(L, previous, next)
  PROVE  AllSettled(RotateCheckpoint(L, next))
<1>1. DOMAIN L.transfers = {}  BY DEF CanRotateCheckpoint
<1>2. RotateCheckpoint(L, next).transfers = L.transfers
  BY GoodParts DEF RotateCheckpoint, Ledger
<1> QED BY <1>1, <1>2 DEF AllSettled

=============================================================================
