--------------------------- MODULE ContentRegistry ---------------------------
(* The coordinator's registry of player-made content: one draft per player *)
(* is uploaded, attested by the content authority, loaded by every live    *)
(* peer and published as the next version of its owner.  An operation is   *)
(* an operator from the registry to a decision: the failure it answers     *)
(* with and the registry it leaves.                                        *)
EXTENDS Integers, FiniteSets, Functions

CONSTANTS
  Player,     \* the players, who own content, numbered from one
  PNG,        \* the creations' images, by their hash
  Properties, \* what an engine may read a creation's gameplay properties as
  NoPNG, NoProperties, \* no image, and no reading of one
  MaxVersions, \* versions the registry takes (32 in the code)
  MaxBlobs    \* images its cache takes (16 MiB in the code)

ASSUME ContentRegistryConstants ==
  /\ IsFiniteSet(Player) /\ Player = 1..Cardinality(Player)
  /\ NoPNG \notin PNG /\ NoProperties \notin Properties
  /\ MaxVersions \in Nat \ {0} /\ MaxBlobs \in Nat \ {0}

EmptyRegistry == [peers |-> <<>>, authority |-> 0, transactions |-> <<>>,
                  versions |-> {}, blobs |-> {}, current |-> [p \in Player |-> 0], next |-> 0]

Without(f, S) == Restrict(f, DOMAIN f \ S)
With(f, x, value) == [y \in DOMAIN f \union {x} |-> IF y = x THEN value ELSE f[y]]

decision(reason, r, t) == [failure |-> reason, registry |-> r, transaction |-> t]
failure(r, reason) == decision(reason, r, 0)
success(r, t) == decision("none", r, t)
Change(r, t, draft) == success([r EXCEPT !.transactions[t] = draft], t)
erase(r, t) == [r EXCEPT !.transactions = Without(@, {t})]

properties_conflict(versions, png, properties) ==
  \E v \in versions : v.png = png /\ v.properties # properties

fence(r) == [r EXCEPT !.transactions = <<>>]

\* A draft dies with its owner's connection; readiness with the one that loaded it.
Forgotten(transactions, c) ==
  LET kept == {t \in DOMAIN transactions : transactions[t].connection # c}
  IN  [t \in kept |-> [transactions[t] EXCEPT !.mappings = @ \ {c}]]

disconnect(r, c) ==
  LET gone == [r EXCEPT !.peers = Without(@, {c})]
  IN  IF c \notin DOMAIN r.peers THEN r
      ELSE IF c = r.authority THEN fence([gone EXCEPT !.authority = 0])
      ELSE [gone EXCEPT !.transactions = Forgotten(@, c)]

\* Player 0 is the authority; a player has one connection, the newest.
may_connect(r, c, player) ==
  /\ c \notin DOMAIN r.peers
  /\ player = 0 => r.authority = 0
PreviousConnections(r, player) == {c \in DOMAIN r.peers : player # 0 /\ r.peers[c] = player}

connect(r, c, player) ==
  LET previous == PreviousConnections(r, player)
      left == IF previous = {} THEN r ELSE disconnect(r, CHOOSE p \in previous : TRUE)
  IN  [left EXCEPT !.peers = With(@, c, player), !.authority = IF player = 0 THEN c ELSE @]

expire(r) ==
  [r EXCEPT !.transactions = Without(@, {t \in DOMAIN @ : @[t].late})]

\* What every operation on a transaction asks first; a late one is erased.
access(r, c, t, owner) ==
  CASE c \notin DOMAIN r.peers -> failure(r, "unknown_connection")
    [] c \in DOMAIN r.peers /\ t \notin DOMAIN r.transactions -> failure(r, "unknown_transaction")
    [] OTHER ->
         IF owner /\ r.transactions[t].connection # c THEN failure(r, "wrong_owner")
         ELSE IF r.transactions[t].late THEN failure(erase(r, t), "expired")
         ELSE IF r.authority = 0 THEN failure(r, "authority_unavailable")
         ELSE success(r, t)

storage_full(r, png) ==
  \/ Cardinality(r.versions) >= MaxVersions
  \/ png \notin r.blobs /\ Cardinality(r.blobs) >= MaxBlobs

begin(registry, c, base) ==
  LET r == expire(registry)
      player == r.peers[c]
      draft == [connection |-> c, player |-> player, base |-> base, phase |-> "draft", late |-> FALSE,
                png |-> NoPNG, data |-> "none", properties |-> NoProperties, mappings |-> {}]
  IN  IF c \notin DOMAIN r.peers THEN failure(r, "unknown_connection")
      ELSE IF player = 0 THEN failure(r, "wrong_owner")
      ELSE IF r.authority = 0 THEN failure(r, "authority_unavailable")
      ELSE IF r.current[player] # base THEN failure(r, "stale_base")
      ELSE IF \E t \in DOMAIN r.transactions : r.transactions[t].player = player
        THEN failure(r, "transaction_exists")
      ELSE IF Cardinality(DOMAIN r.transactions) >= 2 THEN failure(r, "capacity")
      ELSE success([r EXCEPT !.next = @ + 1,
                             !.transactions = With(@, r.next + 1, draft)], r.next + 1)

\* An operation on a transaction in the given phase: the first failure in
\* order, or what it does.
InPhase(r, c, t, owner, phase, Then(_)) ==
  LET allowed == access(r, c, t, owner)
  IN  IF allowed.failure # "none" THEN allowed
      ELSE IF r.transactions[t].phase # phase THEN failure(r, "wrong_phase")
      ELSE Then(r.transactions[t])

offer(r, c, t, png) ==
  InPhase(r, c, t, TRUE, "draft", LAMBDA draft :
    IF storage_full(r, png) THEN failure(r, "capacity")
    ELSE Change(r, t, [draft EXCEPT !.png = png, !.phase = "upload"]))

\* The chunks in order: their bytes are the image offered, or others.
append(r, c, t, bytes) ==
  InPhase(r, c, t, TRUE, "upload", LAMBDA draft :
    IF draft.data # "none" THEN failure(r, "invalid_offset")
    ELSE Change(r, t, [draft EXCEPT !.data = bytes]))

seal(r, c, t) ==
  InPhase(r, c, t, TRUE, "upload", LAMBDA draft :
    CASE draft.data = "none" -> failure(r, "invalid_size")
      [] draft.data = "other" -> failure(erase(r, t), "hash_mismatch")
      [] draft.data = "whole" -> Change(r, t, [draft EXCEPT !.phase = "sealed"]))

\* Bounds, installed content, world and parts of an observation: one that is
\* refused has no reading.
observe(r, observed) ==
  IF observed.properties = NoProperties THEN failure(r, "invalid_native_observation") ELSE success(r, 0)

\* An observation names the image its engine loaded and the properties it read.
attest(r, c, t, observed) ==
  LET allowed == access(r, c, t, FALSE)
  IN  IF allowed.failure = "none" /\ c # r.authority THEN failure(r, "wrong_authority")
      ELSE InPhase(r, c, t, FALSE, "sealed", LAMBDA draft :
        IF observed.png # draft.png THEN failure(r, "hash_mismatch")
        ELSE IF observe(r, observed).failure # "none" THEN observe(r, observed)
        ELSE IF \E v \in r.versions : /\ v.owner = draft.player /\ v.revision = draft.base
                                      /\ v.png = draft.png
          THEN failure(r, "unchanged_content")
        ELSE IF properties_conflict(r.versions, draft.png, observed.properties)
          THEN failure(r, "properties_mismatch")
        ELSE Change(r, t, [draft EXCEPT !.phase = "validated", !.properties = observed.properties,
                                        !.mappings = @ \union {c}]))

observation_admission(r, c, t) ==
  InPhase(r, c, t, FALSE, IF c = r.authority THEN "sealed" ELSE "validated",
          LAMBDA draft : success(r, t))

ready(r, c, t, observed) ==
  LET allowed == access(r, c, t, FALSE)
  IN  IF allowed.failure = "none" /\ c = r.authority THEN failure(r, "wrong_owner")
      ELSE InPhase(r, c, t, FALSE, "validated", LAMBDA draft :
        IF observed.png # draft.png THEN failure(r, "hash_mismatch")
        ELSE IF observe(r, observed).failure # "none" THEN observe(r, observed)
        ELSE IF observed.properties # draft.properties THEN failure(r, "properties_mismatch")
        ELSE Change(r, t, [draft EXCEPT !.mappings = @ \union {c}]))

dependency_failure(r, c, t) ==
  LET allowed == access(r, c, t, FALSE)
  IN  IF allowed.failure = "none" /\ c = r.authority THEN failure(r, "wrong_owner")
      ELSE InPhase(r, c, t, FALSE, "validated", LAMBDA draft :
        Change(r, t, [draft EXCEPT !.mappings = @ \ {c}]))

\* The version a validated draft becomes.
manifest_orphaned(draft) == [owner |-> draft.player, revision |-> draft.base + 1, parent |-> 0,
                             png |-> draft.png, properties |-> draft.properties]
manifest(draft) == [owner |-> draft.player, revision |-> draft.base + 1, parent |-> draft.base,
                    png |-> draft.png, properties |-> draft.properties]

LoadedByParties(r, draft) == {c \in DOMAIN r.peers : r.peers[c] \in {0, draft.player}} \subseteq draft.mappings
LoadedByAll(r, draft) == DOMAIN r.peers \subseteq draft.mappings

commit_unpersisted(r, c, t) ==
  InPhase(r, c, t, TRUE, "validated", LAMBDA draft :
    IF r.current[draft.player] # draft.base THEN failure(r, "stale_base")
    ELSE IF ~LoadedByAll(r, draft) THEN failure(r, "not_ready")
    ELSE IF storage_full(r, draft.png) THEN failure(r, "capacity")
    ELSE success([erase(r, t) EXCEPT !.blobs = @ \union {draft.png},
                                     !.versions = @ \union {manifest(draft)},
                                     !.current[draft.player] = draft.base + 1], t))

cancel(r, c, t) ==
  LET allowed == access(r, c, t, TRUE)
  IN  IF allowed.failure = "none" THEN success(erase(r, t), t) ELSE allowed

candidate(r, c, t) ==
  LET allowed == access(r, c, t, FALSE)
  IN  IF allowed.failure # "none" THEN [allowed EXCEPT !.failure = "not_ready"]
      ELSE IF \/ r.transactions[t].phase = "validated"
              \/ r.transactions[t].phase = "sealed" /\ c = r.authority
        THEN allowed ELSE failure(r, "not_ready")

proposed(r, t) == t \in DOMAIN r.transactions /\ r.transactions[t].phase = "validated"

snapshot(r) == [versions |-> r.versions, blobs |-> r.blobs, current |-> r.current, next |-> r.next]

\* One owner's versions are an unbroken chain to its head, each with its
\* image, and no image carries two readings.
lineage_valid(s, owner) ==
  LET chain == {v \in s.versions : v.owner = owner}
  IN  /\ {v.revision : v \in chain} = 1..Cardinality(chain)
      /\ s.current[owner] = Cardinality(chain)
      /\ \A v \in chain : /\ v.parent = v.revision - 1
                          /\ v.png \in s.blobs
                          /\ ~properties_conflict(s.versions, v.png, v.properties)

restorable(s) ==
  /\ Cardinality(s.versions) <= MaxVersions /\ Cardinality(s.blobs) <= MaxBlobs
  /\ \A owner \in Player : lineage_valid(s, owner)
  /\ {v.png : v \in s.versions} = s.blobs
  /\ s.next >= Cardinality(s.versions)

restore(s) == [EmptyRegistry EXCEPT !.versions = s.versions, !.blobs = s.blobs,
                                    !.current = s.current, !.next = s.next]
=============================================================================
