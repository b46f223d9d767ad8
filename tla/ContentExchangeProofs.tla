------------------------ MODULE ContentExchangeProofs ------------------------
(* The content transactions keep the coordinator, its store, the players'  *)
(* tools and the bridges in agreement: what a draft was offered, attested  *)
(* and loaded as is what every connection reported of it, what a bridge    *)
(* works on is what the draft says, and what is published is stored whole. *)
(* The proof follows a request from the registry out: what each operation  *)
(* does to a registry, to the server with its uploads, to every bridge     *)
(* that hears of it; then each step of the bridges, the tools and the      *)
(* connections.                                                            *)
EXTENDS ContentExchange, FiniteSetTheorems, SequenceTheorems, TLAPS

-----------------------------------------------------------------------------
(* Types.                                                                  *)

PartialFunction(S, T) == UNION {[D -> T] : D \in SUBSET S}

Image == PNG \cup {NoPNG}
Reading == Properties \cup {NoProperties}
Draft == [connection : Nat, player : Player, base : Nat,
          phase : {"draft", "upload", "sealed", "validated"}, late : BOOLEAN, png : Image,
          data : {"none", "whole", "other"}, properties : Reading, mappings : SUBSET Nat]
Version == [owner : Player, revision : Nat, parent : Nat, png : Image, properties : Reading]
Registry == [peers : PartialFunction(Nat, Player \cup {0}), authority : Nat,
             transactions : PartialFunction(Nat, Draft), versions : SUBSET Version,
             blobs : SUBSET Image, current : [Player -> Nat], next : Nat]
Stored == [versions : SUBSET Version, blobs : SUBSET Image, current : [Player -> Nat], next : Nat]
Upload == [transaction : Nat, png : Image, properties : Reading, whole : BOOLEAN]
Server == [registry : Registry, uploads : PartialFunction(Nat, Upload)]
RequestOp == {"begin", "offer", "chunk", "seal", "cancel", "dependency_failure", "dependencies", "fetch",
              "observation_begin", "observation_chunk", "observation_end", "commit"}
EventOp == {"validate_event", "load_event", "dependency_event", "published_event", "cancelled_event", "scene_begin"}
Failure == {"none", "unknown_connection", "unknown_transaction", "wrong_owner", "expired",
            "authority_unavailable", "wrong_phase", "capacity", "invalid_offset", "invalid_size",
            "hash_mismatch", "invalid_native_observation", "wrong_authority", "unchanged_content",
            "properties_mismatch", "not_ready", "stale_base", "transaction_exists", "storage_failed"}
Heard == [kind : {"event", "response"}, op : RequestOp \cup EventOp, failure : Failure, transaction : Nat,
          png : Image, properties : Reading]
Frame == [op : RequestOp, transaction : Nat, base : Nat, bytes : {"none", "whole", "other"},
          png : Image, properties : Reading]
JobPhase == {"dependencies", "check_parts", "report_dependency", "fetch", "import",
             "observe_begin", "observe_chunk", "observe_end"}
Job == [phase : JobPhase, expected : Image, announced : Reading, png : Image, read : Reading]
Bridge == [link : Int, jobs : PartialFunction(Nat, Job), asked : PartialFunction(Nat, RequestOp),
           inbox : Seq(Heard), outbox : Seq(Frame), imported : SUBSET Image, staged : SUBSET Image,
           approved : BOOLEAN, reads : Properties]

Budget == [last : Nat, connections : Int, drafts : Int, faults : Int]

TypeOK ==
  /\ server \in Server
  /\ disk \in [stored : Stored, broken : BOOLEAN]
  /\ bridge \in [Process -> Bridge]
  /\ tools \in SUBSET Nat
  /\ budget \in Budget

-----------------------------------------------------------------------------
(* The registry and the store.                                             *)

\* From here on a draft's image is what it was offered as.
Fixed(draft) == draft.phase \in {"sealed", "validated"}

PeersOK(r) ==
  /\ 0 \notin DOMAIN r.peers
  /\ \A c, d \in DOMAIN r.peers : r.peers[c] = r.peers[d] => c = d
  /\ r.authority # 0 => r.authority \in DOMAIN r.peers /\ r.peers[r.authority] = 0
  /\ \A c \in DOMAIN r.peers : r.peers[c] = 0 => c = r.authority
  /\ r.authority = 0 => DOMAIN r.transactions = {}

\* Only a validated draft has a reading, and peers who loaded it.
DraftsOK(r) ==
  \A t \in DOMAIN r.transactions :
    LET draft == r.transactions[t] IN
    /\ t # 0 /\ t <= r.next
    /\ draft.mappings \subseteq DOMAIN r.peers
    /\ draft.phase # "validated" => draft.properties = NoProperties /\ draft.mappings = {}

\* What restore asks of one owner, short of the readings.
Chained(s, owner) ==
  LET chain == {v \in s.versions : v.owner = owner}
  IN  /\ {v.revision : v \in chain} = 1..Cardinality(chain)
      /\ s.current[owner] = Cardinality(chain)
      /\ \A v \in chain : v.parent = v.revision - 1 /\ v.png \in s.blobs

Whole(s) ==
  /\ IsFiniteSet(s.versions) /\ IsFiniteSet(s.blobs)
  /\ Cardinality(s.versions) <= MaxVersions /\ Cardinality(s.blobs) <= MaxBlobs
  /\ \A owner \in Player : Chained(s, owner)
  /\ {v.png : v \in s.versions} = s.blobs

\* Every draft may still become a version with a number.
NumbersOK(r) ==
  /\ IsFiniteSet(DOMAIN r.transactions)
  /\ r.next >= Cardinality(r.versions) + Cardinality(DOMAIN r.transactions)

RegistryOK(r) == PeersOK(r) /\ DraftsOK(r) /\ Whole(snapshot(r)) /\ NumbersOK(r)

OneReading(versions) == \A v, w \in versions : v.png = w.png => v.properties = w.properties

DiskOK(s, k) ==
  /\ k \in [stored : Stored, broken : BOOLEAN]
  /\ s.registry.versions \subseteq k.stored.versions
  /\ ~k.broken => k.stored.versions = s.registry.versions
  /\ Whole(k.stored) /\ k.stored.next >= Cardinality(k.stored.versions)
  /\ Steady => OneReading(k.stored.versions)

-----------------------------------------------------------------------------
(* The connections, and what was said over them.                           *)

\* What was read on a connection is on record.
UploadsOK(s, reports) ==
  /\ DOMAIN s.uploads = DOMAIN s.registry.peers
  /\ \A c \in DOMAIN s.uploads :
       LET upload == s.uploads[c] IN
       /\ upload.transaction <= s.registry.next
       /\ upload.transaction \in DOMAIN s.registry.transactions =>
            LET draft == s.registry.transactions[upload.transaction] IN
            /\ Fixed(draft)
            /\ upload.png = draft.png => <<c, upload.png, upload.properties>> \in reports

MappingsOK(r, reports) ==
  \A t \in DOMAIN r.transactions :
    \A c \in r.transactions[t].mappings :
      <<c, r.transactions[t].png, r.transactions[t].properties>> \in reports

\* While an engine reads an image one way, the authority's does so for every
\* draft it validated, and no version says otherwise.
Validated(r) == {r.transactions[t] : t \in {u \in DOMAIN r.transactions : r.transactions[u].phase = "validated"}}
ReadingsOK(s, b) ==
  LET r == s.registry IN
  /\ OneReading(r.versions)
  /\ \A d, e \in Validated(r) : d.properties = e.properties
  /\ \A d \in Validated(r), v \in r.versions : v.png = d.png => v.properties = d.properties
  /\ r.authority # 0 /\ b.link = r.authority =>
       /\ \A d \in Validated(r) : d.properties = b.reads
       /\ s.uploads[r.authority].transaction # 0 => s.uploads[r.authority].properties = b.reads

\* A message about a draft that is still there says what it is.
MessageOK(m, r) ==
  /\ m.transaction <= r.next
  /\ /\ m.transaction \in DOMAIN r.transactions
     /\ m.op \in {"validate_event", "load_event"} \/ (m.op = "fetch" /\ m.failure = "none")
     => LET draft == r.transactions[m.transaction] IN
        /\ Fixed(draft) /\ m.png = draft.png
        /\ m.properties \in {NoProperties, draft.properties}

JobOK(job, t, r) ==
  /\ t <= r.next
  /\ t \in DOMAIN r.transactions =>
       LET draft == r.transactions[t] IN
       /\ Fixed(draft)
       /\ {job.expected, job.png} \subseteq {NoPNG, draft.png}
       /\ job.announced \in {NoProperties, draft.properties}

TalkOK(b, r) ==
  /\ \A i \in 1..Len(b.inbox) : MessageOK(b.inbox[i], r)
  /\ \A t \in DOMAIN b.jobs : JobOK(b.jobs[t], t, r)

BridgeOK(p, b, r) ==
  /\ b.outbox = <<>>
  /\ b.link = 0 => b.inbox = <<>> /\ DOMAIN b.jobs = {}
  /\ b.link \in DOMAIN r.peers => r.peers[b.link] = p /\ TalkOK(b, r)

BridgesOK(f, r) == f \in [Process -> Bridge] /\ \A p \in Process : BridgeOK(p, f[p], r)

\* A tool says all it has to say at once.
ToolsOK(s, f, T) ==
  \A c \in T :
    /\ c \in DOMAIN s.registry.peers /\ s.registry.peers[c] # 0
    /\ s.uploads[c].transaction = 0
    /\ \A p \in Process : f[p].link # c

LastOK(s, f, n) ==
  /\ \A c \in DOMAIN s.registry.peers : c <= n
  /\ \A p \in Process : f[p].link <= n /\ f[p].link >= Ended

ServerOK(s, reports) ==
  s \in Server /\ RegistryOK(s.registry) /\ UploadsOK(s, reports) /\ MappingsOK(s.registry, reports)

\* All of it but the store.
SessionOK(s, f, T, reports, n) ==
  /\ ServerOK(s, reports) /\ (Steady => ReadingsOK(s, f[0]))
  /\ BridgesOK(f, s.registry) /\ ToolsOK(s, f, T) /\ LastOK(s, f, n)

IInv == SessionOK(server, bridge, tools, loaded, budget.last) /\ DiskOK(server, disk)


-----------------------------------------------------------------------------
(* Functions over part of a set.                                           *)

LEMMA WithoutIs ==
  ASSUME NEW f, NEW X
  PROVE  /\ DOMAIN Without(f, X) = DOMAIN f \ X
         /\ \A x \in DOMAIN f \ X : Without(f, X)[x] = f[x]
  BY DEF Without, Restrict

LEMMA WithoutType ==
  ASSUME NEW S, NEW T, NEW f \in PartialFunction(S, T), NEW X
  PROVE  Without(f, X) \in PartialFunction(S, T)
<1>1. DOMAIN f \in SUBSET S /\ \A x \in DOMAIN f : f[x] \in T  BY DEF PartialFunction
<1>2. Without(f, X) = [x \in DOMAIN f \ X |-> f[x]]  BY DEF Without, Restrict
<1>3. [x \in DOMAIN f \ X |-> f[x]] \in [DOMAIN f \ X -> T]  BY <1>1
<1>4. DOMAIN f \ X \in SUBSET S  BY <1>1
<1> QED  BY <1>2, <1>3, <1>4 DEF PartialFunction

LEMMA WithIs ==
  ASSUME NEW f, NEW k, NEW v
  PROVE  /\ DOMAIN With(f, k, v) = DOMAIN f \cup {k}
         /\ With(f, k, v)[k] = v
         /\ \A x \in DOMAIN f \ {k} : With(f, k, v)[x] = f[x]
  BY DEF With

LEMMA WithType ==
  ASSUME NEW S, NEW T, NEW f \in PartialFunction(S, T), NEW k \in S, NEW v \in T
  PROVE  With(f, k, v) \in PartialFunction(S, T)
<1>1. DOMAIN f \in SUBSET S /\ \A x \in DOMAIN f : f[x] \in T  BY DEF PartialFunction
<1>2. With(f, k, v) \in [DOMAIN f \cup {k} -> T]  BY <1>1 DEF With
<1>3. DOMAIN f \cup {k} \in SUBSET S  BY <1>1
<1> QED  BY <1>2, <1>3 DEF PartialFunction

LEMMA ChangeType ==
  ASSUME NEW S, NEW T, NEW f \in PartialFunction(S, T), NEW k \in DOMAIN f, NEW v \in T
  PROVE  /\ [f EXCEPT ![k] = v] \in PartialFunction(S, T)
         /\ DOMAIN [f EXCEPT ![k] = v] = DOMAIN f
         /\ [f EXCEPT ![k] = v][k] = v
         /\ \A x \in DOMAIN f \ {k} : [f EXCEPT ![k] = v][x] = f[x]
  BY DEF PartialFunction

LEMMA FunctionType ==
  ASSUME NEW S, NEW T, NEW f \in PartialFunction(S, T)
  PROVE  /\ DOMAIN f \in SUBSET S /\ \A x \in DOMAIN f : f[x] \in T
         /\ f \in [DOMAIN f -> T]
  BY DEF PartialFunction

-----------------------------------------------------------------------------
(* The registry's operations: each is refused, with drafts erased or not,  *)
(* or does the one thing it is for.                                        *)

Drops(r, q) == q = r \/ \E S : q = [r EXCEPT !.transactions = Without(@, S)]
Refused(r, d) == d.failure \in Failure \ {"none"} /\ Drops(r, d.registry)
Grants(r, t, d) == d = success(r, t) /\ d.failure = "none" /\ d.registry = r
Changes(r, t, e, d) == d.failure = "none" /\ d.registry = [r EXCEPT !.transactions[t] = e]

LEMMA Refuses ==
  ASSUME NEW r, NEW t, NEW reason \in Failure \ {"none"}
  PROVE  /\ Refused(r, failure(r, reason)) /\ Refused(r, failure(erase(r, t), reason))
         /\ Grants(r, t, success(r, t)) /\ failure(r, reason).failure # "none"
<1>1. Drops(r, r)  BY DEF Drops
<1>2. Drops(r, erase(r, t))  BY DEF Drops, erase
<1> QED  BY <1>1, <1>2 DEF Refused, failure, decision, Grants, success

LEMMA AccessCases ==
  ASSUME NEW r, NEW c, NEW t, NEW owner, NEW d, d = access(r, c, t, owner)
  PROVE  \/ Refused(r, d)
         \/ /\ Grants(r, t, d) /\ c \in DOMAIN r.peers /\ t \in DOMAIN r.transactions
            /\ r.authority # 0 /\ (owner => r.transactions[t].connection = c)
<1>1. \A reason \in Failure \ {"none"} : Refused(r, failure(r, reason)) /\ Refused(r, failure(erase(r, t), reason))
  BY Refuses
<1>2. Grants(r, t, success(r, t))  BY DEF Grants, success, decision
<1> QED  BY <1>1, <1>2 DEF access, Failure

LEMMA OfferCases ==
  ASSUME NEW r, NEW c, NEW t, NEW png, NEW d, d = offer(r, c, t, png)
  PROVE  \/ Refused(r, d)
         \/ /\ t \in DOMAIN r.transactions /\ r.transactions[t].phase = "draft"
            /\ Changes(r, t, [r.transactions[t] EXCEPT !.png = png, !.phase = "upload"], d)
<1> DEFINE allowed == access(r, c, t, TRUE)
<1>1. /\ \A reason \in Failure \ {"none"} : Refused(r, failure(r, reason)) /\ Refused(r, failure(erase(r, t), reason))
      /\ Refused(r, allowed) => allowed.failure # "none"
      /\ Grants(r, t, allowed) => allowed.failure = "none"
  BY Refuses DEF Refused, Grants
<1>2. \/ Refused(r, allowed)
      \/ /\ Grants(r, t, allowed) /\ c \in DOMAIN r.peers /\ t \in DOMAIN r.transactions
         /\ r.authority # 0
  BY AccessCases
<1>3. d = IF allowed.failure # "none" THEN allowed
          ELSE IF r.transactions[t].phase # "draft" THEN failure(r, "wrong_phase")
          ELSE IF storage_full(r, png) THEN failure(r, "capacity")
          ELSE Change(r, t, [r.transactions[t] EXCEPT !.png = png, !.phase = "upload"])
  BY DEF offer, InPhase
<1> HIDE DEF allowed
<1> QED  BY <1>1, <1>2, <1>3 DEF Changes, Change, success, decision, Failure

LEMMA AppendCases ==
  ASSUME NEW r, NEW c, NEW t, NEW bytes, NEW d, d = append(r, c, t, bytes)
  PROVE  \/ Refused(r, d)
         \/ /\ t \in DOMAIN r.transactions /\ r.transactions[t].phase = "upload"
            /\ Changes(r, t, [r.transactions[t] EXCEPT !.data = bytes], d)
<1> DEFINE allowed == access(r, c, t, TRUE)
<1>1. /\ \A reason \in Failure \ {"none"} : Refused(r, failure(r, reason)) /\ Refused(r, failure(erase(r, t), reason))
      /\ Refused(r, allowed) => allowed.failure # "none"
      /\ Grants(r, t, allowed) => allowed.failure = "none"
  BY Refuses DEF Refused, Grants
<1>2. \/ Refused(r, allowed)
      \/ /\ Grants(r, t, allowed) /\ c \in DOMAIN r.peers /\ t \in DOMAIN r.transactions
         /\ r.authority # 0
  BY AccessCases
<1>3. d = IF allowed.failure # "none" THEN allowed
          ELSE IF r.transactions[t].phase # "upload" THEN failure(r, "wrong_phase")
          ELSE IF r.transactions[t].data # "none" THEN failure(r, "invalid_offset")
          ELSE Change(r, t, [r.transactions[t] EXCEPT !.data = bytes])
  BY DEF append, InPhase
<1> HIDE DEF allowed
<1> QED  BY <1>1, <1>2, <1>3 DEF Changes, Change, success, decision, Failure

LEMMA SealCases ==
  ASSUME NEW r \in Registry, NEW c, NEW t, NEW d, d = seal(r, c, t)
  PROVE  \/ Refused(r, d)
         \/ /\ t \in DOMAIN r.transactions /\ r.transactions[t].phase = "upload"
            /\ Changes(r, t, [r.transactions[t] EXCEPT !.phase = "sealed"], d)
<1> DEFINE allowed == access(r, c, t, TRUE)
<1>1. /\ \A reason \in Failure \ {"none"} : Refused(r, failure(r, reason)) /\ Refused(r, failure(erase(r, t), reason))
      /\ Refused(r, allowed) => allowed.failure # "none"
      /\ Grants(r, t, allowed) => allowed.failure = "none"
  BY Refuses DEF Refused, Grants
<1>2. \/ Refused(r, allowed)
      \/ /\ Grants(r, t, allowed) /\ c \in DOMAIN r.peers /\ t \in DOMAIN r.transactions
         /\ r.authority # 0
  BY AccessCases
<1>3. d = IF allowed.failure # "none" THEN allowed
          ELSE IF r.transactions[t].phase # "upload" THEN failure(r, "wrong_phase")
          ELSE CASE r.transactions[t].data = "none" -> failure(r, "invalid_size")
            [] r.transactions[t].data = "other" -> failure(erase(r, t), "hash_mismatch")
            [] r.transactions[t].data = "whole" -> Change(r, t, [r.transactions[t] EXCEPT !.phase = "sealed"])
  BY DEF seal, InPhase
<1> HIDE DEF allowed
<1>4. t \in DOMAIN r.transactions => r.transactions[t].data \in {"none", "whole", "other"}
  <2>1. r.transactions \in PartialFunction(Nat, Draft)  BY DEF Registry
  <2>2. t \in DOMAIN r.transactions => r.transactions[t] \in Draft  BY <2>1, FunctionType
  <2> QED  BY <2>2 DEF Draft
<1> QED  BY <1>1, <1>2, <1>3, <1>4 DEF Changes, Change, success, decision, Failure

Attested(draft, c, properties) ==
  [draft EXCEPT !.phase = "validated", !.properties = properties, !.mappings = @ \cup {c}]
Readied(draft, c) == [draft EXCEPT !.mappings = @ \cup {c}]

\* An attestation that is not refused.
Attests(r, c, t, observed, d) ==
  /\ t \in DOMAIN r.transactions /\ r.transactions[t].phase = "sealed" /\ c = r.authority
  /\ observed.png = r.transactions[t].png /\ c \in DOMAIN r.peers
  /\ ~properties_conflict(r.versions, r.transactions[t].png, observed.properties)
  /\ Changes(r, t, Attested(r.transactions[t], c, observed.properties), d)

\* A readiness that is not refused.
Readies(r, c, t, observed, d) ==
  /\ t \in DOMAIN r.transactions /\ r.transactions[t].phase = "validated" /\ c # r.authority
  /\ observed.png = r.transactions[t].png /\ c \in DOMAIN r.peers
  /\ observed.properties = r.transactions[t].properties
  /\ Changes(r, t, Readied(r.transactions[t], c), d)

LEMMA AttestCases ==
  ASSUME NEW r, NEW c, NEW t, NEW observed, NEW d, d = attest(r, c, t, observed)
  PROVE  \/ Refused(r, d)
         \/ Attests(r, c, t, observed, d)
<1> DEFINE allowed == access(r, c, t, FALSE)
<1>1. /\ \A reason \in Failure \ {"none"} : Refused(r, failure(r, reason)) /\ Refused(r, failure(erase(r, t), reason))
      /\ Refused(r, allowed) => allowed.failure # "none"
      /\ Grants(r, t, allowed) => allowed.failure = "none"
  BY Refuses DEF Refused, Grants
<1>2. \/ Refused(r, allowed)
      \/ /\ Grants(r, t, allowed) /\ c \in DOMAIN r.peers /\ t \in DOMAIN r.transactions
         /\ r.authority # 0
  BY AccessCases
<1>3. d = IF allowed.failure = "none" /\ c # r.authority THEN failure(r, "wrong_authority")
          ELSE IF allowed.failure # "none" THEN allowed
          ELSE IF r.transactions[t].phase # "sealed" THEN failure(r, "wrong_phase")
          ELSE IF observed.png # r.transactions[t].png THEN failure(r, "hash_mismatch")
          ELSE IF observe(r, observed).failure # "none" THEN observe(r, observed)
          ELSE IF \E v \in r.versions : /\ v.owner = r.transactions[t].player /\ v.revision = r.transactions[t].base
                                        /\ v.png = r.transactions[t].png
            THEN failure(r, "unchanged_content")
          ELSE IF properties_conflict(r.versions, r.transactions[t].png, observed.properties)
            THEN failure(r, "properties_mismatch")
          ELSE Change(r, t, [r.transactions[t] EXCEPT !.phase = "validated", !.properties = observed.properties,
                                                      !.mappings = @ \cup {c}])
  BY DEF attest, InPhase
<1> HIDE DEF allowed
<1>4. observe(r, observed).failure # "none" => Refused(r, observe(r, observed))
  BY <1>1 DEF observe, success, decision, Failure
<1> QED  BY <1>1, <1>2, <1>3, <1>4 DEF Attests, Attested, Changes, Change, success, decision, Failure

LEMMA ReadyCases ==
  ASSUME NEW r, NEW c, NEW t, NEW observed, NEW d, d = ready(r, c, t, observed)
  PROVE  \/ Refused(r, d)
         \/ Readies(r, c, t, observed, d)
<1> DEFINE allowed == access(r, c, t, FALSE)
<1>1. /\ \A reason \in Failure \ {"none"} : Refused(r, failure(r, reason)) /\ Refused(r, failure(erase(r, t), reason))
      /\ Refused(r, allowed) => allowed.failure # "none"
      /\ Grants(r, t, allowed) => allowed.failure = "none"
  BY Refuses DEF Refused, Grants
<1>2. \/ Refused(r, allowed)
      \/ /\ Grants(r, t, allowed) /\ c \in DOMAIN r.peers /\ t \in DOMAIN r.transactions
         /\ r.authority # 0
  BY AccessCases
<1>3. d = IF allowed.failure = "none" /\ c = r.authority THEN failure(r, "wrong_owner")
          ELSE IF allowed.failure # "none" THEN allowed
          ELSE IF r.transactions[t].phase # "validated" THEN failure(r, "wrong_phase")
          ELSE IF observed.png # r.transactions[t].png THEN failure(r, "hash_mismatch")
          ELSE IF observe(r, observed).failure # "none" THEN observe(r, observed)
          ELSE IF observed.properties # r.transactions[t].properties THEN failure(r, "properties_mismatch")
          ELSE Change(r, t, [r.transactions[t] EXCEPT !.mappings = @ \cup {c}])
  BY DEF ready, InPhase
<1> HIDE DEF allowed
<1>4. observe(r, observed).failure # "none" => Refused(r, observe(r, observed))
  BY <1>1 DEF observe, success, decision, Failure
<1> QED  BY <1>1, <1>2, <1>3, <1>4 DEF Readies, Readied, Changes, Change, success, decision, Failure

LEMMA DependencyFailureCases ==
  ASSUME NEW r, NEW c, NEW t, NEW d, d = dependency_failure(r, c, t)
  PROVE  \/ Refused(r, d)
         \/ /\ t \in DOMAIN r.transactions /\ r.transactions[t].phase = "validated"
            /\ Changes(r, t, [r.transactions[t] EXCEPT !.mappings = @ \ {c}], d)
<1> DEFINE allowed == access(r, c, t, FALSE)
<1>1. /\ \A reason \in Failure \ {"none"} : Refused(r, failure(r, reason)) /\ Refused(r, failure(erase(r, t), reason))
      /\ Refused(r, allowed) => allowed.failure # "none"
      /\ Grants(r, t, allowed) => allowed.failure = "none"
  BY Refuses DEF Refused, Grants
<1>2. \/ Refused(r, allowed)
      \/ /\ Grants(r, t, allowed) /\ c \in DOMAIN r.peers /\ t \in DOMAIN r.transactions
         /\ r.authority # 0
  BY AccessCases
<1>3. d = IF allowed.failure = "none" /\ c = r.authority THEN failure(r, "wrong_owner")
          ELSE IF allowed.failure # "none" THEN allowed
          ELSE IF r.transactions[t].phase # "validated" THEN failure(r, "wrong_phase")
          ELSE Change(r, t, [r.transactions[t] EXCEPT !.mappings = @ \ {c}])
  BY DEF dependency_failure, InPhase
<1> HIDE DEF allowed
<1> QED  BY <1>1, <1>2, <1>3 DEF Changes, Change, success, decision, Failure

LEMMA AdmissionCases ==
  ASSUME NEW r, NEW c, NEW t, NEW d, d = observation_admission(r, c, t)
  PROVE  \/ Refused(r, d)
         \/ /\ Grants(r, t, d) /\ t \in DOMAIN r.transactions /\ Fixed(r.transactions[t])
            /\ c \in DOMAIN r.peers
<1> DEFINE allowed == access(r, c, t, FALSE)
<1>1. /\ \A reason \in Failure \ {"none"} : Refused(r, failure(r, reason)) /\ Refused(r, failure(erase(r, t), reason))
      /\ Refused(r, allowed) => allowed.failure # "none"
      /\ Grants(r, t, allowed) => allowed.failure = "none"
  BY Refuses DEF Refused, Grants
<1>2. \/ Refused(r, allowed)
      \/ /\ Grants(r, t, allowed) /\ c \in DOMAIN r.peers /\ t \in DOMAIN r.transactions
         /\ r.authority # 0
  BY AccessCases
<1>3. d = IF allowed.failure # "none" THEN allowed
          ELSE IF r.transactions[t].phase # (IF c = r.authority THEN "sealed" ELSE "validated")
            THEN failure(r, "wrong_phase")
          ELSE success(r, t)
  BY DEF observation_admission, InPhase
<1> HIDE DEF allowed
<1>4. Grants(r, t, success(r, t))  BY DEF Grants, success, decision
<1> QED  BY <1>1, <1>2, <1>3, <1>4 DEF Fixed, Failure

LEMMA CandidateCases ==
  ASSUME NEW r, NEW c, NEW t, NEW d, d = candidate(r, c, t)
  PROVE  \/ Refused(r, d)
         \/ Grants(r, t, d) /\ t \in DOMAIN r.transactions /\ Fixed(r.transactions[t])
<1> DEFINE allowed == access(r, c, t, FALSE)
<1>1. Refused(r, allowed) => Refused(r, [allowed EXCEPT !.failure = "not_ready"])
  <2>1. allowed = failure(r, "unknown_connection") \/ allowed = failure(r, "unknown_transaction")
        \/ allowed = failure(erase(r, t), "expired") \/ allowed = failure(r, "authority_unavailable")
        \/ allowed = success(r, t)
    BY DEF access
  <2>2. allowed.registry = [allowed EXCEPT !.failure = "not_ready"].registry
        /\ [allowed EXCEPT !.failure = "not_ready"].failure = "not_ready"
    BY <2>1 DEF failure, success, decision
  <2> QED  BY <2>2 DEF Refused, Failure
<1>2. \/ Refused(r, allowed)
      \/ Grants(r, t, allowed) /\ t \in DOMAIN r.transactions
  BY AccessCases
<1>3. d = IF allowed.failure # "none" THEN [allowed EXCEPT !.failure = "not_ready"]
          ELSE IF \/ r.transactions[t].phase = "validated"
                  \/ r.transactions[t].phase = "sealed" /\ c = r.authority
            THEN allowed ELSE failure(r, "not_ready")
  BY DEF candidate
<1> HIDE DEF allowed
<1> QED  BY <1>1, <1>2, <1>3, Refuses DEF Failure, Grants, Fixed

LEMMA CancelCases ==
  ASSUME NEW r, NEW c, NEW t, NEW d, d = cancel(r, c, t)
  PROVE  Refused(r, d) \/ (d.failure = "none" /\ Drops(r, d.registry))
<1> DEFINE allowed == access(r, c, t, TRUE)
<1>1. Drops(r, erase(r, t))  BY DEF Drops, erase
<1>2. Refused(r, allowed) \/ allowed.failure = "none"
  <2>1. Refused(r, allowed) \/ Grants(r, t, allowed)  BY AccessCases
  <2> HIDE DEF allowed
  <2> QED  BY <2>1 DEF Grants
<1>3. d = IF allowed.failure = "none" THEN success(erase(r, t), t) ELSE allowed  BY DEF cancel
<1> HIDE DEF allowed
<1> QED  BY <1>1, <1>2, <1>3 DEF success, decision, Refused

NewDraft(r, c, base) ==
  [connection |-> c, player |-> r.peers[c], base |-> base, phase |-> "draft", late |-> FALSE,
   png |-> NoPNG, data |-> "none", properties |-> NoProperties, mappings |-> {}]

Begins(q, c, base, d) ==
  \/ d.failure \in Failure \ {"none"} /\ d.registry = q
  \/ /\ d.failure = "none" /\ c \in DOMAIN q.peers /\ q.peers[c] # 0 /\ q.authority # 0
     /\ d.registry = [q EXCEPT !.next = @ + 1,
                               !.transactions = With(@, q.next + 1, NewDraft(q, c, base))]

LEMMA BeginCases ==
  ASSUME NEW r, NEW c, NEW base, NEW d, d = begin(r, c, base)
  PROVE  Drops(r, expire(r)) /\ Begins(expire(r), c, base, d)
<1>1. Drops(r, expire(r))  BY DEF Drops, expire
<1>2. Begins(expire(r), c, base, d)
  BY DEF begin, failure, success, decision, Failure, NewDraft, Begins
<1> QED  BY <1>1, <1>2

\* What a commit that is not refused makes of the registry.
Published(r, t) ==
  [erase(r, t) EXCEPT !.blobs = @ \cup {r.transactions[t].png},
                      !.versions = @ \cup {manifest(r.transactions[t])},
                      !.current[r.transactions[t].player] = r.transactions[t].base + 1]

LEMMA CommitCases ==
  ASSUME NEW r, NEW c, NEW t, NEW written, NEW d, d = commit(r, c, t, written)
  PROVE  \/ d.failure \in Failure \ {"none"} /\ Drops(r, d.registry)
         \/ /\ d.failure = "none" /\ d.registry = Published(r, t) /\ written
            /\ t \in DOMAIN r.transactions /\ r.transactions[t].phase = "validated"
            /\ r.current[r.transactions[t].player] = r.transactions[t].base
            /\ DOMAIN r.peers \subseteq r.transactions[t].mappings
            /\ ~storage_full(r, r.transactions[t].png)
<1> DEFINE k == commit_unpersisted(r, c, t)
<1>1. \/ Refused(r, k)
      \/ /\ k.failure = "none" /\ k.registry = Published(r, t)
         /\ t \in DOMAIN r.transactions /\ r.transactions[t].phase = "validated"
         /\ r.current[r.transactions[t].player] = r.transactions[t].base
         /\ LoadedByAll(r, r.transactions[t])
         /\ ~storage_full(r, r.transactions[t].png)
  <2> DEFINE allowed == access(r, c, t, TRUE)
             draft == r.transactions[t]
  <2>1. /\ \A reason \in Failure \ {"none"} : Refused(r, failure(r, reason))
        /\ Refused(r, allowed) => allowed.failure # "none"
        /\ Grants(r, t, allowed) => allowed.failure = "none"
    BY Refuses DEF Refused, Grants
  <2>2. Refused(r, allowed) \/ (Grants(r, t, allowed) /\ t \in DOMAIN r.transactions)  BY AccessCases
  <2>3. k = IF allowed.failure # "none" THEN allowed
            ELSE IF draft.phase # "validated" THEN failure(r, "wrong_phase")
            ELSE IF r.current[draft.player] # draft.base THEN failure(r, "stale_base")
            ELSE IF ~LoadedByAll(r, draft) THEN failure(r, "not_ready")
            ELSE IF storage_full(r, draft.png) THEN failure(r, "capacity")
            ELSE success(Published(r, t), t)
    BY DEF commit_unpersisted, InPhase, Published
  <2>4. success(Published(r, t), t).failure = "none" /\ success(Published(r, t), t).registry = Published(r, t)
    BY DEF success, decision
  <2> HIDE DEF allowed, k
  <2> QED  BY <2>1, <2>2, <2>3, <2>4 DEF Failure
<1>2. d = IF k.failure # "none" THEN failure(r, k.failure)
          ELSE IF ~written THEN failure(r, "storage_failed") ELSE k
  BY DEF commit
<1> HIDE DEF k
<1>3. \A reason \in Failure \ {"none"} : Refused(r, failure(r, reason))  BY Refuses
<1> QED  BY <1>1, <1>2, <1>3 DEF LoadedByAll, Refused, Failure

-----------------------------------------------------------------------------
(* What an operation may do to a registry: a draft that stays keeps its    *)
(* image once sealed and its reading once validated, and a draft that is   *)
(* new has a new number.                                                   *)

DraftStep(d, e) ==
  /\ Fixed(d) => Fixed(e) /\ e.png = d.png
  /\ d.phase = "validated" => e.phase = "validated" /\ e.properties = d.properties

Moves(r, q) ==
  /\ q.next >= r.next
  /\ \A t \in DOMAIN q.transactions :
       \/ t \in DOMAIN r.transactions /\ DraftStep(r.transactions[t], q.transactions[t])
       \/ t > r.next

Contract(r, q) ==
  q \in Registry /\ RegistryOK(q) /\ Moves(r, q) /\ q.peers = r.peers /\ q.authority = r.authority

\* No draft is newly validated or loaded, and none is published.
Mild(r, q) ==
  /\ q.versions = r.versions
  /\ \A t \in DOMAIN q.transactions :
       LET draft == q.transactions[t] IN
       \/ draft.phase # "validated" /\ draft.mappings = {}
       \/ /\ t \in DOMAIN r.transactions
          /\ draft.mappings \subseteq r.transactions[t].mappings
          /\ draft.phase = r.transactions[t].phase
          /\ draft.png = r.transactions[t].png /\ draft.properties = r.transactions[t].properties

LEMMA RegistryFields ==
  ASSUME NEW r \in Registry
  PROVE  /\ r.peers \in PartialFunction(Nat, Player \cup {0}) /\ r.authority \in Nat
         /\ r.transactions \in PartialFunction(Nat, Draft) /\ r.versions \in SUBSET Version
         /\ r.blobs \in SUBSET Image /\ r.current \in [Player -> Nat] /\ r.next \in Nat
         /\ DOMAIN r.transactions \in SUBSET Nat /\ DOMAIN r.peers \in SUBSET Nat
         /\ \A t \in DOMAIN r.transactions : r.transactions[t] \in Draft
         /\ \A c \in DOMAIN r.peers : r.peers[c] \in Player \cup {0}
<1>1. /\ r.peers \in PartialFunction(Nat, Player \cup {0}) /\ r.authority \in Nat
      /\ r.transactions \in PartialFunction(Nat, Draft) /\ r.versions \in SUBSET Version
      /\ r.blobs \in SUBSET Image /\ r.current \in [Player -> Nat] /\ r.next \in Nat
  BY DEF Registry
<1> QED  BY <1>1, FunctionType

LEMMA MovesTransitive ==
  ASSUME NEW r \in Registry, NEW q \in Registry, NEW w \in Registry, Moves(r, q), Moves(q, w)
  PROVE  Moves(r, w)
<1>1. r.next \in Nat /\ q.next \in Nat /\ w.next \in Nat  BY RegistryFields
<1>2. DOMAIN w.transactions \in SUBSET Nat  BY RegistryFields
<1>3. w.next >= r.next  BY <1>1 DEF Moves
<1>4. ASSUME NEW t \in DOMAIN w.transactions
      PROVE  \/ t \in DOMAIN r.transactions /\ DraftStep(r.transactions[t], w.transactions[t])
             \/ t > r.next
  <2>1. CASE t > q.next  BY <2>1, <1>1, <1>2 DEF Moves
  <2>2. CASE t \in DOMAIN q.transactions /\ DraftStep(q.transactions[t], w.transactions[t])
    <3>1. CASE t > r.next  BY <3>1
    <3>2. CASE t \in DOMAIN r.transactions /\ DraftStep(r.transactions[t], q.transactions[t])
      BY <2>2, <3>2 DEF DraftStep
    <3> QED  BY <2>2, <3>1, <3>2 DEF Moves
  <2> QED  BY <2>1, <2>2 DEF Moves
<1> QED  BY <1>3, <1>4 DEF Moves

LEMMA MildTransitive ==
  ASSUME NEW r, NEW q, NEW w, Mild(r, q), Mild(q, w)
  PROVE  Mild(r, w)
<1>1. w.versions = r.versions  BY DEF Mild
<1>2. ASSUME NEW t \in DOMAIN w.transactions
      PROVE  \/ w.transactions[t].phase # "validated" /\ w.transactions[t].mappings = {}
             \/ /\ t \in DOMAIN r.transactions
                /\ w.transactions[t].mappings \subseteq r.transactions[t].mappings
                /\ w.transactions[t].phase = r.transactions[t].phase
                /\ w.transactions[t].png = r.transactions[t].png
                /\ w.transactions[t].properties = r.transactions[t].properties
  <2>1. CASE w.transactions[t].phase # "validated" /\ w.transactions[t].mappings = {}  BY <2>1
  <2>2. CASE /\ t \in DOMAIN q.transactions
             /\ w.transactions[t].mappings \subseteq q.transactions[t].mappings
             /\ w.transactions[t].phase = q.transactions[t].phase
             /\ w.transactions[t].png = q.transactions[t].png
             /\ w.transactions[t].properties = q.transactions[t].properties
    <3>1. \/ q.transactions[t].phase # "validated" /\ q.transactions[t].mappings = {}
          \/ /\ t \in DOMAIN r.transactions
             /\ q.transactions[t].mappings \subseteq r.transactions[t].mappings
             /\ q.transactions[t].phase = r.transactions[t].phase
             /\ q.transactions[t].png = r.transactions[t].png
             /\ q.transactions[t].properties = r.transactions[t].properties
      BY <2>2 DEF Mild
    <3> QED  BY <2>2, <3>1
  <2> QED  BY <2>1, <2>2 DEF Mild
<1> QED  BY <1>1, <1>2 DEF Mild

LEMMA ContractTransitive ==
  ASSUME NEW r \in Registry, NEW q, NEW w, Contract(r, q), Contract(q, w)
  PROVE  Contract(r, w)
  BY MovesTransitive DEF Contract

LEMMA ContractStays ==
  ASSUME NEW r \in Registry, RegistryOK(r)
  PROVE  Contract(r, r) /\ Mild(r, r)
<1>1. r.next \in Nat  BY RegistryFields
<1>2. Moves(r, r)  BY <1>1 DEF Moves, DraftStep
<1>3. Mild(r, r)  BY DEF Mild
<1> QED  BY <1>2, <1>3 DEF Contract

\* Drafts are erased, and nothing else.
LEMMA DropsContract ==
  ASSUME NEW r \in Registry, RegistryOK(r), NEW q, Drops(r, q)
  PROVE  /\ Contract(r, q) /\ Mild(r, q) /\ snapshot(q) = snapshot(r)
         /\ DOMAIN q.transactions \subseteq DOMAIN r.transactions
         /\ \A t \in DOMAIN q.transactions : q.transactions[t] = r.transactions[t]
<1>1. CASE q = r  BY <1>1, ContractStays
<1>2. ASSUME NEW S, q = [r EXCEPT !.transactions = Without(@, S)]
      PROVE  /\ Contract(r, q) /\ Mild(r, q) /\ snapshot(q) = snapshot(r)
             /\ DOMAIN q.transactions \subseteq DOMAIN r.transactions
             /\ \A t \in DOMAIN q.transactions : q.transactions[t] = r.transactions[t]
  <2>1. r.transactions \in PartialFunction(Nat, Draft) /\ r.next \in Nat  BY RegistryFields
  <2> DEFINE f == Without(r.transactions, S)
  <2>2. /\ f \in PartialFunction(Nat, Draft) /\ DOMAIN f = DOMAIN r.transactions \ S
        /\ \A x \in DOMAIN r.transactions \ S : f[x] = r.transactions[x]
    BY <2>1, WithoutType, WithoutIs
  <2>3. q = [r EXCEPT !.transactions = f]  BY <1>2
  <2> HIDE DEF f
  <2>4. /\ q \in Registry /\ q.transactions = f /\ q.peers = r.peers /\ q.authority = r.authority
        /\ q.next = r.next /\ q.versions = r.versions /\ q.blobs = r.blobs /\ q.current = r.current
    BY <2>2, <2>3 DEF Registry
  <2>5. snapshot(q) = snapshot(r)  BY <2>4 DEF snapshot
  <2>6. PeersOK(q)  BY <2>2, <2>4 DEF PeersOK, RegistryOK
  <2>7. DraftsOK(q)  BY <2>2, <2>4 DEF DraftsOK, RegistryOK
  <2>8. NumbersOK(q)
    <3>1. IsFiniteSet(DOMAIN r.transactions)  BY DEF RegistryOK, NumbersOK
    <3>2. IsFiniteSet(DOMAIN f) /\ Cardinality(DOMAIN f) <= Cardinality(DOMAIN r.transactions)
      BY <2>2, <3>1, FS_Subset
    <3>3. IsFiniteSet(r.versions)  BY DEF RegistryOK, Whole, snapshot
    <3>4. /\ Cardinality(DOMAIN f) \in Nat /\ Cardinality(DOMAIN r.transactions) \in Nat
          /\ Cardinality(r.versions) \in Nat
      BY <3>1, <3>2, <3>3, FS_CardinalityType
    <3> QED  BY <2>1, <2>4, <3>2, <3>4 DEF NumbersOK, RegistryOK
  <2>9. RegistryOK(q)  BY <2>5, <2>6, <2>7, <2>8 DEF RegistryOK
  <2>10. Moves(r, q)  BY <2>1, <2>2, <2>4 DEF Moves, DraftStep
  <2>11. Mild(r, q)  BY <2>2, <2>4 DEF Mild
  <2> QED  BY <2>2, <2>4, <2>5, <2>9, <2>10, <2>11 DEF Contract
<1> QED  BY <1>1, <1>2 DEF Drops

\* One draft changes.
LEMMA ChangesContract ==
  ASSUME NEW r \in Registry, RegistryOK(r), NEW t \in DOMAIN r.transactions, NEW e \in Draft,
         DraftStep(r.transactions[t], e), e.mappings \subseteq DOMAIN r.peers,
         e.phase # "validated" => e.properties = NoProperties /\ e.mappings = {},
         NEW q, q = [r EXCEPT !.transactions[t] = e]
  PROVE  /\ Contract(r, q) /\ snapshot(q) = snapshot(r)
         /\ DOMAIN q.transactions = DOMAIN r.transactions /\ q.transactions[t] = e
         /\ \A u \in DOMAIN r.transactions \ {t} : q.transactions[u] = r.transactions[u]
<1>1. r.transactions \in PartialFunction(Nat, Draft) /\ r.next \in Nat  BY RegistryFields
<1> DEFINE f == [r.transactions EXCEPT ![t] = e]
<1>2. /\ f \in PartialFunction(Nat, Draft) /\ DOMAIN f = DOMAIN r.transactions /\ f[t] = e
      /\ \A u \in DOMAIN r.transactions \ {t} : f[u] = r.transactions[u]
  BY <1>1, ChangeType
<1>3. q = [r EXCEPT !.transactions = f]  OBVIOUS
<1> HIDE DEF f
<1>4. /\ q \in Registry /\ q.transactions = f /\ q.peers = r.peers /\ q.authority = r.authority
      /\ q.next = r.next /\ q.versions = r.versions /\ q.blobs = r.blobs /\ q.current = r.current
  BY <1>2, <1>3 DEF Registry
<1>5. snapshot(q) = snapshot(r)  BY <1>4 DEF snapshot
<1>6. PeersOK(q)  BY <1>2, <1>4 DEF PeersOK, RegistryOK
<1>7. DraftsOK(q)
  <2> SUFFICES ASSUME NEW u \in DOMAIN q.transactions
               PROVE  LET draft == q.transactions[u] IN
                      /\ u # 0 /\ u <= q.next
                      /\ draft.mappings \subseteq DOMAIN q.peers
                      /\ draft.phase # "validated" => draft.properties = NoProperties /\ draft.mappings = {}
    BY DEF DraftsOK
  <2>1. CASE u = t  BY <2>1, <1>2, <1>4 DEF DraftsOK, RegistryOK
  <2>2. CASE u # t  BY <2>2, <1>2, <1>4 DEF DraftsOK, RegistryOK
  <2> QED  BY <2>1, <2>2
<1>8. NumbersOK(q)  BY <1>2, <1>4 DEF NumbersOK, RegistryOK
<1>9. Moves(r, q)
  <2>1. ASSUME NEW u \in DOMAIN q.transactions
        PROVE  u \in DOMAIN r.transactions /\ DraftStep(r.transactions[u], q.transactions[u])
    <3>1. CASE u = t  BY <3>1, <1>2, <1>4
    <3>2. CASE u # t  BY <3>2, <1>2, <1>4 DEF DraftStep
    <3> QED  BY <3>1, <3>2
  <2> QED  BY <2>1, <1>1, <1>4 DEF Moves
<1> QED  BY <1>2, <1>4, <1>5, <1>6, <1>7, <1>8, <1>9 DEF Contract, RegistryOK

\* A draft begins.
LEMMA BeginContract ==
  ASSUME NEW r \in Registry, RegistryOK(r), NEW c \in DOMAIN r.peers, r.peers[c] # 0, r.authority # 0,
         NEW base \in Nat,
         NEW q, q = [r EXCEPT !.next = @ + 1, !.transactions = With(@, r.next + 1, NewDraft(r, c, base))]
  PROVE  Contract(r, q) /\ Mild(r, q) /\ q.versions = r.versions
<1> USE DEF Fixed
<1>1. /\ r.transactions \in PartialFunction(Nat, Draft) /\ r.next \in Nat /\ r.peers[c] \in Player \cup {0}
      /\ DOMAIN r.peers \in SUBSET Nat /\ DOMAIN r.transactions \in SUBSET Nat
  BY RegistryFields
<1> DEFINE e == NewDraft(r, c, base)
           n == r.next + 1
           f == With(r.transactions, n, e)
<1>2. e \in Draft /\ e.phase = "draft" /\ e.mappings = {} /\ e.properties = NoProperties
  <2>1. c \in Nat /\ r.peers[c] \in Player  BY <1>1
  <2>2. NoPNG \in Image /\ NoProperties \in Reading  BY DEF Image, Reading
  <2> QED  BY <2>1, <2>2 DEF NewDraft, Draft
<1>3. n \in Nat /\ n > r.next  BY <1>1
<1>4. n \notin DOMAIN r.transactions
  <2>1. \A t \in DOMAIN r.transactions : t <= r.next  BY DEF RegistryOK, DraftsOK
  <2> QED  BY <2>1, <1>1
<1> HIDE DEF e, n
<1>5. /\ f \in PartialFunction(Nat, Draft) /\ DOMAIN f = DOMAIN r.transactions \cup {n} /\ f[n] = e
      /\ \A x \in DOMAIN r.transactions \ {n} : f[x] = r.transactions[x]
  <2>1. f \in PartialFunction(Nat, Draft)  BY <1>1, <1>2, <1>3, WithType
  <2>2. DOMAIN f = DOMAIN r.transactions \cup {n} /\ f[n] = e  BY DEF With
  <2>3. \A x \in DOMAIN r.transactions \ {n} : f[x] = r.transactions[x]  BY DEF With
  <2> QED  BY <2>1, <2>2, <2>3
<1>6. q = [r EXCEPT !.next = n, !.transactions = f]  BY DEF n, e
<1> HIDE DEF f
<1>7. /\ q \in Registry /\ q.transactions = f /\ q.peers = r.peers /\ q.authority = r.authority
      /\ q.next = n /\ q.versions = r.versions /\ q.blobs = r.blobs /\ q.current = r.current
  BY <1>3, <1>5, <1>6 DEF Registry
<1>8. PeersOK(q)  BY <1>5, <1>7 DEF PeersOK, RegistryOK
<1>9. DraftsOK(q)
  <2> SUFFICES ASSUME NEW u \in DOMAIN q.transactions
               PROVE  LET draft == q.transactions[u] IN
                      /\ u # 0 /\ u <= q.next
                      /\ draft.mappings \subseteq DOMAIN q.peers
                      /\ draft.phase # "validated" => draft.properties = NoProperties /\ draft.mappings = {}
    BY DEF DraftsOK
  <2>1. CASE u = n
    <3>1. n # 0 /\ n <= n  BY <1>1, <1>3
    <3> QED  BY <2>1, <3>1, <1>2, <1>5, <1>7
  <2>2. CASE u # n
    <3>1. u \in DOMAIN r.transactions /\ q.transactions[u] = r.transactions[u]  BY <2>2, <1>5, <1>7
    <3>2. u # 0 /\ u <= r.next /\ u \in Nat  BY <3>1, <1>1 DEF RegistryOK, DraftsOK
    <3>3. u <= n  BY <3>2, <1>1, <1>3
    <3> QED  BY <3>1, <3>2, <3>3, <1>7 DEF RegistryOK, DraftsOK
  <2> QED  BY <2>1, <2>2
<1>10. Whole(snapshot(q))  BY <1>7 DEF snapshot, RegistryOK, Whole, Chained
<1>11. NumbersOK(q)
  <2>1. IsFiniteSet(DOMAIN r.transactions) /\ IsFiniteSet(r.versions)
    BY DEF RegistryOK, NumbersOK, Whole, snapshot
  <2>2. /\ IsFiniteSet(DOMAIN f)
        /\ Cardinality(DOMAIN f) = Cardinality(DOMAIN r.transactions) + 1
    BY <2>1, <1>4, <1>5, FS_AddElement
  <2>3. Cardinality(DOMAIN r.transactions) \in Nat /\ Cardinality(r.versions) \in Nat
    BY <2>1, FS_CardinalityType
  <2>4. r.next >= Cardinality(r.versions) + Cardinality(DOMAIN r.transactions)  BY DEF RegistryOK, NumbersOK
  <2>5. n >= Cardinality(r.versions) + Cardinality(DOMAIN f)  BY <2>2, <2>3, <2>4, <1>1 DEF n
  <2> QED  BY <2>2, <2>5, <1>7 DEF NumbersOK
<1>12. Moves(r, q)
  <2>1. n >= r.next  BY <1>1, <1>3
  <2>2. ASSUME NEW u \in DOMAIN q.transactions, u # n
        PROVE  u \in DOMAIN r.transactions /\ DraftStep(r.transactions[u], q.transactions[u])
    BY <2>2, <1>5, <1>7 DEF DraftStep
  <2> QED  BY <2>1, <2>2, <1>3, <1>7 DEF Moves
<1>13. Mild(r, q)
  <2>1. ASSUME NEW u \in DOMAIN q.transactions, u # n
        PROVE  u \in DOMAIN r.transactions /\ q.transactions[u] = r.transactions[u]
    BY <2>1, <1>5, <1>7
  <2>2. q.transactions[n].phase # "validated" /\ q.transactions[n].mappings = {}  BY <1>2, <1>5, <1>7
  <2> QED  BY <2>1, <2>2, <1>7 DEF Mild
<1> QED  BY <1>7, <1>8, <1>9, <1>10, <1>11, <1>12, <1>13 DEF Contract, RegistryOK

\* A draft becomes a version.
Publishable(r, t) ==
  /\ t \in DOMAIN r.transactions /\ r.current[r.transactions[t].player] = r.transactions[t].base
  /\ ~storage_full(r, r.transactions[t].png)

Publication(r, t, q) ==
  /\ Contract(r, q)
  /\ q.versions = r.versions \cup {manifest(r.transactions[t])}
  /\ DOMAIN q.transactions \subseteq DOMAIN r.transactions
  /\ \A u \in DOMAIN q.transactions : q.transactions[u] = r.transactions[u]

LEMMA PublishedContract ==
  ASSUME NEW r \in Registry, RegistryOK(r), NEW t, Publishable(r, t), NEW q, q = Published(r, t)
  PROVE  Publication(r, t, q)
<1> DEFINE draft == r.transactions[t]
<1>0. t \in DOMAIN r.transactions /\ r.current[draft.player] = draft.base /\ ~storage_full(r, draft.png)
  BY DEF Publishable
<1> DEFINE v == manifest(draft)
           p == draft.player
           n == draft.base
           left == erase(r, t)
<1>1. /\ r.transactions \in PartialFunction(Nat, Draft) /\ draft \in Draft
      /\ r.versions \in SUBSET Version /\ r.blobs \in SUBSET Image /\ r.current \in [Player -> Nat]
      /\ r.next \in Nat
  BY <1>0, RegistryFields
<1>2. p \in Player /\ n \in Nat /\ draft.png \in Image /\ draft.properties \in Reading  BY <1>1 DEF Draft
<1>3. /\ v \in Version /\ v.owner = p /\ v.revision = n + 1 /\ v.parent = n /\ v.png = draft.png
      /\ v.properties = draft.properties
  BY <1>2 DEF manifest, Version
<1>4. Drops(r, left)  BY DEF Drops, erase
<1>5. /\ Contract(r, left) /\ snapshot(left) = snapshot(r)
      /\ DOMAIN left.transactions \subseteq DOMAIN r.transactions
      /\ \A u \in DOMAIN left.transactions : left.transactions[u] = r.transactions[u]
  BY <1>4, DropsContract
<1>6. /\ left.versions = r.versions /\ left.blobs = r.blobs /\ left.current = r.current /\ left.next = r.next
      /\ left.peers = r.peers /\ left.authority = r.authority /\ left \in Registry
  BY <1>5 DEF Contract, snapshot
<1>7. DOMAIN left.transactions = DOMAIN r.transactions \ {t}
  <2>1. left.transactions = Without(r.transactions, {t})  BY <1>1 DEF erase, Registry
  <2> QED  BY <2>1 DEF Without, Restrict
<1> DEFINE current == [r.current EXCEPT ![p] = n + 1]
           versions == r.versions \cup {v}
           blobs == r.blobs \cup {draft.png}
<1>8. /\ current \in [Player -> Nat] /\ versions \in SUBSET Version /\ blobs \in SUBSET Image
      /\ current[p] = n + 1 /\ \A owner \in Player \ {p} : current[owner] = r.current[owner]
  BY <1>1, <1>2, <1>3
<1>9. q = [left EXCEPT !.blobs = blobs, !.versions = versions, !.current = current]
  <2>1. q = [left EXCEPT !.blobs = left.blobs \cup {draft.png}, !.versions = left.versions \cup {v},
                         !.current = [left.current EXCEPT ![p] = n + 1]]
    BY DEF Published
  <2> QED  BY <2>1, <1>6
<1> HIDE DEF v, p, n, left, current, versions, blobs
<1>10. /\ q \in Registry /\ q.blobs = blobs /\ q.versions = versions /\ q.current = current
       /\ q.peers = r.peers /\ q.authority = r.authority /\ q.next = r.next
       /\ q.transactions = left.transactions
  <2>1. left \in Registry  BY <1>6
  <2>2. q \in Registry  BY <2>1, <1>8, <1>9 DEF Registry
  <2>3. /\ q.blobs = blobs /\ q.versions = versions /\ q.current = current
        /\ q.peers = left.peers /\ q.authority = left.authority /\ q.next = left.next
        /\ q.transactions = left.transactions
    BY <2>1, <1>9 DEF Registry
  <2> QED  BY <2>2, <2>3, <1>6
<1>11. PeersOK(q) /\ DraftsOK(q) /\ Moves(r, q)
  BY <1>5, <1>6, <1>10 DEF PeersOK, DraftsOK, Moves, Contract, RegistryOK
<1>12. /\ IsFiniteSet(r.versions) /\ IsFiniteSet(r.blobs) /\ {w.png : w \in r.versions} = r.blobs
       /\ \A owner \in Player : Chained(snapshot(r), owner)
       /\ Cardinality(r.versions) <= MaxVersions /\ Cardinality(r.blobs) <= MaxBlobs
  BY DEF RegistryOK, Whole, snapshot
<1> DEFINE chain == {w \in r.versions : w.owner = p}
<1>13. /\ {w.revision : w \in chain} = 1..Cardinality(chain) /\ n = Cardinality(chain)
       /\ \A w \in chain : w.parent = w.revision - 1 /\ w.png \in r.blobs
  <2>1. Chained(snapshot(r), p)  BY <1>2, <1>12
  <2>2. r.current[p] = n  BY <1>0 DEF p, n
  <2> QED  BY <2>1, <2>2 DEF Chained, snapshot
<1>14. v \notin chain /\ v \notin r.versions
  <2>1. v \notin chain
    <3>1. SUFFICES ASSUME v \in chain PROVE FALSE  OBVIOUS
    <3>2. n + 1 \in 1..n  BY <3>1, <1>13, <1>3
    <3> QED  BY <3>2, <1>2
  <2> QED  BY <2>1, <1>3
<1>15. IsFiniteSet(chain)  BY <1>12, FS_Subset
<1>16. Cardinality(chain \cup {v}) = n + 1  BY <1>13, <1>14, <1>15, FS_AddElement
<1>17. /\ IsFiniteSet(versions) /\ Cardinality(versions) = Cardinality(r.versions) + 1
       /\ Cardinality(r.versions) \in Nat
  BY <1>12, <1>14, FS_AddElement, FS_CardinalityType DEF versions
<1>18. Chained(snapshot(q), p)
  <2>1. {w \in versions : w.owner = p} = chain \cup {v}  BY <1>3 DEF versions
  <2>2. {w.revision : w \in chain \cup {v}} = 1..(n + 1)
    <3>1. {w.revision : w \in chain \cup {v}} = {w.revision : w \in chain} \cup {n + 1}  BY <1>3
    <3>2. (1..n) \cup {n + 1} = 1..(n + 1)  BY <1>2
    <3> QED  BY <3>1, <3>2, <1>13
  <2>3. ASSUME NEW w \in chain \cup {v} PROVE w.parent = w.revision - 1 /\ w.png \in blobs
    <3>1. CASE w = v  BY <3>1, <1>2, <1>3 DEF blobs
    <3>2. CASE w \in chain  BY <3>2, <1>13 DEF blobs
    <3> QED  BY <3>1, <3>2
  <2>4. /\ {w.revision : w \in {x \in versions : x.owner = p}} = 1..Cardinality({x \in versions : x.owner = p})
        /\ current[p] = Cardinality({x \in versions : x.owner = p})
        /\ \A w \in {x \in versions : x.owner = p} : w.parent = w.revision - 1 /\ w.png \in blobs
    BY <2>1, <2>2, <2>3, <1>8, <1>16
  <2> QED  BY <2>4, <1>10 DEF Chained, snapshot
<1>19. ASSUME NEW owner \in Player, owner # p PROVE Chained(snapshot(q), owner)
  <2>1. {w \in versions : w.owner = owner} = {w \in r.versions : w.owner = owner}  BY <1>3, <1>19 DEF versions
  <2>2. current[owner] = r.current[owner]  BY <1>8, <1>19
  <2>3. r.blobs \subseteq blobs  BY DEF blobs
  <2>4. Chained(snapshot(r), owner)  BY <1>12
  <2> QED  BY <2>1, <2>2, <2>3, <2>4, <1>10 DEF Chained, snapshot
<1>20. Whole(snapshot(q))
  <2>1. Cardinality(versions) <= MaxVersions
    <3>1. ~(Cardinality(r.versions) >= MaxVersions)  BY <1>0 DEF storage_full
    <3> QED  BY <3>1, <1>17, ContentRegistryConstants
  <2>2. IsFiniteSet(blobs) /\ Cardinality(blobs) <= MaxBlobs
    <3>1. Cardinality(r.blobs) \in Nat  BY <1>12, FS_CardinalityType
    <3>2. draft.png \notin r.blobs => ~(Cardinality(r.blobs) >= MaxBlobs)  BY <1>0 DEF storage_full
    <3>3. /\ IsFiniteSet(blobs)
          /\ Cardinality(blobs) = IF draft.png \in r.blobs THEN Cardinality(r.blobs) ELSE Cardinality(r.blobs) + 1
      BY <1>12, FS_AddElement DEF blobs
    <3> QED  BY <3>1, <3>2, <3>3, <1>12, ContentRegistryConstants
  <2>3. {w.png : w \in versions} = blobs  BY <1>3, <1>12 DEF versions, blobs
  <2>4. \A owner \in Player : Chained(snapshot(q), owner)  BY <1>18, <1>19
  <2> QED  BY <2>1, <2>2, <2>3, <2>4, <1>10, <1>17 DEF Whole, snapshot
<1>21. NumbersOK(q)
  <2>1. IsFiniteSet(DOMAIN r.transactions)  BY DEF RegistryOK, NumbersOK
  <2>2. r.next >= Cardinality(r.versions) + Cardinality(DOMAIN r.transactions)  BY DEF RegistryOK, NumbersOK
  <2>3. /\ IsFiniteSet(DOMAIN left.transactions) /\ Cardinality(DOMAIN r.transactions) \in Nat
        /\ Cardinality(DOMAIN left.transactions) = Cardinality(DOMAIN r.transactions) - 1
    BY <2>1, <1>0, <1>7, FS_RemoveElement, FS_CardinalityType
  <2>4. r.next >= Cardinality(versions) + Cardinality(DOMAIN left.transactions)
    BY <2>2, <2>3, <1>1, <1>17
  <2> QED  BY <2>3, <2>4, <1>10 DEF NumbersOK
<1> QED
  BY <1>3, <1>5, <1>10, <1>11, <1>20, <1>21 DEF Contract, RegistryOK, versions, v, Publication

-----------------------------------------------------------------------------
(* The coordinator, given what was reported: each request it takes keeps   *)
(* every reading it holds on record.                                       *)

SameUpload(u, v) ==
  v.transaction = 0 \/ (v.transaction = u.transaction /\ v.png = u.png /\ v.properties = u.properties)

SameUploads(u, v) ==
  /\ v \in PartialFunction(Nat, Upload) /\ DOMAIN v = DOMAIN u
  /\ \A c \in DOMAIN u : SameUpload(u[c], v[c])

LEMMA ServerFields ==
  ASSUME NEW s \in Server
  PROVE  /\ s.registry \in Registry /\ s.uploads \in PartialFunction(Nat, Upload)
         /\ DOMAIN s.uploads \in SUBSET Nat /\ \A c \in DOMAIN s.uploads : s.uploads[c] \in Upload
<1>1. s.registry \in Registry /\ s.uploads \in PartialFunction(Nat, Upload)  BY DEF Server
<1> QED  BY <1>1, FunctionType

LEMMA NoUploadType == NoUpload \in Upload /\ NoUpload.transaction = 0
  BY DEF NoUpload, Upload, Image, Reading

LEMMA SameUploadsTransitive ==
  ASSUME NEW u, NEW v, NEW w, SameUploads(u, v), SameUploads(v, w)
  PROVE  SameUploads(u, w)
  BY DEF SameUploads, SameUpload

\* What was read on a connection is still on record.
LEMMA UploadsStep ==
  ASSUME NEW s \in Server, NEW reports, UploadsOK(s, reports), DraftsOK(s.registry),
         NEW q \in Registry, Moves(s.registry, q), q.peers = s.registry.peers,
         NEW u, SameUploads(s.uploads, u),
         NEW s2, s2 = [registry |-> q, uploads |-> u]
  PROVE  s2 \in Server /\ UploadsOK(s2, reports)
<1>1. u \in PartialFunction(Nat, Upload) /\ DOMAIN u = DOMAIN s.uploads  BY DEF SameUploads
<1>2. s2 \in Server /\ s2.registry = q /\ s2.uploads = u  BY <1>1 DEF Server
<1> DEFINE r == s.registry
<1>3. /\ r \in Registry /\ r.next \in Nat /\ q.next \in Nat /\ q.next >= r.next
      /\ \A t \in DOMAIN r.transactions : t # 0
      /\ \A t \in DOMAIN q.transactions : t \in Nat
  BY ServerFields, RegistryFields DEF Moves, DraftsOK
<1>4. ASSUME NEW c \in DOMAIN u
      PROVE  /\ u[c].transaction <= q.next
             /\ u[c].transaction \in DOMAIN q.transactions =>
                  LET draft == q.transactions[u[c].transaction] IN
                  /\ Fixed(draft)
                  /\ u[c].png = draft.png => <<c, u[c].png, u[c].properties>> \in reports
  <2>1. u[c] \in Upload /\ s.uploads[c] \in Upload  BY <1>1, <1>2, ServerFields
  <2>2. u[c].transaction \in Nat  BY <2>1 DEF Upload
  <2>3. /\ s.uploads[c].transaction <= r.next
        /\ s.uploads[c].transaction \in DOMAIN r.transactions =>
             LET draft == r.transactions[s.uploads[c].transaction] IN
             /\ Fixed(draft)
             /\ s.uploads[c].png = draft.png => <<c, s.uploads[c].png, s.uploads[c].properties>> \in reports
    BY <1>1 DEF UploadsOK
  <2>4. CASE u[c].transaction = 0
    <3>1. 0 \notin DOMAIN q.transactions
      <4>1. SUFFICES ASSUME 0 \in DOMAIN q.transactions PROVE FALSE  OBVIOUS
      <4>2. 0 \in DOMAIN r.transactions \/ 0 > r.next  BY <4>1 DEF Moves
      <4> QED  BY <4>2, <1>3
    <3> QED  BY <2>4, <3>1, <1>3
  <2>5. CASE /\ u[c].transaction = s.uploads[c].transaction /\ u[c].png = s.uploads[c].png
             /\ u[c].properties = s.uploads[c].properties
    <3>1. u[c].transaction <= q.next  BY <2>2, <2>3, <2>5, <1>3
    <3>2. ASSUME u[c].transaction \in DOMAIN q.transactions
          PROVE  /\ u[c].transaction \in DOMAIN r.transactions
                 /\ DraftStep(r.transactions[u[c].transaction], q.transactions[u[c].transaction])
      <4>1. ~(u[c].transaction > r.next)  BY <2>2, <2>3, <2>5, <1>3
      <4> QED  BY <3>2, <4>1 DEF Moves
    <3> QED  BY <2>3, <2>5, <3>1, <3>2 DEF DraftStep
  <2> QED  BY <2>4, <2>5, <1>1 DEF SameUploads, SameUpload
<1> QED  BY <1>1, <1>2, <1>4 DEF UploadsOK

\* The drafts validated and the versions say what they said.
SameReadings(r, q) ==
  /\ q.versions = r.versions /\ q.authority = r.authority
  /\ \A d \in Validated(q) : \E e \in Validated(r) : e.png = d.png /\ e.properties = d.properties

LEMMA ReadingsStep ==
  ASSUME NEW s \in Server, NEW b, ReadingsOK(s, b), PeersOK(s.registry),
         DOMAIN s.uploads = DOMAIN s.registry.peers,
         NEW q, SameReadings(s.registry, q), NEW u, SameUploads(s.uploads, u),
         NEW s2, s2 = [registry |-> q, uploads |-> u]
  PROVE  ReadingsOK(s2, b)
<1>1. s2.registry = q /\ s2.uploads = u  OBVIOUS
<1> DEFINE r == s.registry
<1>2. OneReading(q.versions)  BY DEF SameReadings, ReadingsOK
<1>3. \A d, e \in Validated(q) : d.properties = e.properties  BY DEF SameReadings, ReadingsOK
<1>4. \A d \in Validated(q), v \in q.versions : v.png = d.png => v.properties = d.properties
  BY DEF SameReadings, ReadingsOK
<1>5. ASSUME q.authority # 0, b.link = q.authority
      PROVE  /\ \A d \in Validated(q) : d.properties = b.reads
             /\ u[q.authority].transaction # 0 => u[q.authority].properties = b.reads
  <2>1. /\ \A d \in Validated(r) : d.properties = b.reads
        /\ s.uploads[q.authority].transaction # 0 => s.uploads[q.authority].properties = b.reads
    BY <1>5 DEF SameReadings, ReadingsOK
  <2>2. q.authority \in DOMAIN s.uploads  BY <1>5 DEF SameReadings, PeersOK
  <2>3. SameUpload(s.uploads[q.authority], u[q.authority])  BY <2>2 DEF SameUploads
  <2> QED  BY <2>1, <2>3 DEF SameReadings, SameUpload
<1> QED  BY <1>1, <1>2, <1>3, <1>4, <1>5 DEF ReadingsOK

\* What adds no reading leaves all as it was.
LEMMA MildServer ==
  ASSUME NEW s, NEW reports, ServerOK(s, reports), NEW q, Contract(s.registry, q), Mild(s.registry, q),
         NEW u, SameUploads(s.uploads, u), NEW s2, s2 = [registry |-> q, uploads |-> u]
  PROVE  ServerOK(s2, reports) /\ \A b : ReadingsOK(s, b) => ReadingsOK(s2, b)
<1> DEFINE r == s.registry
<1>1. s \in Server /\ r \in Registry /\ q \in Registry /\ s2.registry = q  BY ServerFields DEF ServerOK, Contract
<1>2. s2 \in Server /\ UploadsOK(s2, reports)
  BY <1>1, UploadsStep DEF ServerOK, Contract, RegistryOK
<1>3. MappingsOK(q, reports)
  <2> SUFFICES ASSUME NEW t \in DOMAIN q.transactions, NEW c \in q.transactions[t].mappings
               PROVE  <<c, q.transactions[t].png, q.transactions[t].properties>> \in reports
    BY DEF MappingsOK
  <2>1. /\ t \in DOMAIN r.transactions /\ c \in r.transactions[t].mappings
        /\ q.transactions[t].png = r.transactions[t].png
        /\ q.transactions[t].properties = r.transactions[t].properties
    BY DEF Mild
  <2> QED  BY <2>1 DEF ServerOK, MappingsOK
<1>4. SameReadings(r, q)
  <2>1. ASSUME NEW d \in Validated(q)
        PROVE  \E e \in Validated(r) : e.png = d.png /\ e.properties = d.properties
    <3>1. PICK t \in DOMAIN q.transactions : q.transactions[t].phase = "validated" /\ d = q.transactions[t]
      BY DEF Validated
    <3>2. /\ t \in DOMAIN r.transactions /\ r.transactions[t].phase = "validated"
          /\ r.transactions[t].png = d.png /\ r.transactions[t].properties = d.properties
      BY <3>1 DEF Mild
    <3> QED  BY <3>2 DEF Validated
  <2> QED  BY <2>1 DEF SameReadings, Mild, Contract
<1>5. ASSUME NEW b, ReadingsOK(s, b) PROVE ReadingsOK(s2, b)
  <2>1. PeersOK(r) /\ DOMAIN s.uploads = DOMAIN r.peers  BY DEF ServerOK, RegistryOK, UploadsOK
  <2> QED  BY <1>1, <1>4, <1>5, <2>1, ReadingsStep
<1> QED  BY <1>1, <1>2, <1>3, <1>5 DEF ServerOK, Contract

LEMMA DropUnadmitted ==
  ASSUME NEW s, NEW reports, ServerOK(s, reports), NEW s1, s1 = drop_unadmitted_observations(s)
  PROVE  /\ s1 = [registry |-> s1.registry, uploads |-> s1.uploads]
         /\ Contract(s.registry, s1.registry) /\ Mild(s.registry, s1.registry)
         /\ SameUploads(s.uploads, s1.uploads)
         /\ snapshot(s1.registry) = snapshot(s.registry)
         /\ DOMAIN s1.registry.transactions \subseteq DOMAIN s.registry.transactions
         /\ \A t \in DOMAIN s1.registry.transactions : s1.registry.transactions[t] = s.registry.transactions[t]
         /\ \A c \in DOMAIN s.uploads : s1.uploads[c] \in {s.uploads[c], NoUpload}
<1>1. s \in Server /\ s.registry \in Registry /\ RegistryOK(s.registry)  BY ServerFields DEF ServerOK
<1>2. PICK S, R : s1 = [registry |-> [s.registry EXCEPT !.transactions = Without(@, S)],
                        uploads |-> [c \in DOMAIN s.uploads |-> IF c \in R THEN NoUpload ELSE s.uploads[c]]]
  BY DEF drop_unadmitted_observations
<1>3. Drops(s.registry, s1.registry)  BY <1>2 DEF Drops
<1>4. /\ Contract(s.registry, s1.registry) /\ Mild(s.registry, s1.registry)
      /\ snapshot(s1.registry) = snapshot(s.registry)
      /\ DOMAIN s1.registry.transactions \subseteq DOMAIN s.registry.transactions
      /\ \A t \in DOMAIN s1.registry.transactions : s1.registry.transactions[t] = s.registry.transactions[t]
  BY <1>1, <1>3, DropsContract
<1>5. /\ DOMAIN s.uploads \in SUBSET Nat /\ \A c \in DOMAIN s.uploads : s.uploads[c] \in Upload
  BY <1>1, ServerFields
<1> DEFINE u == [c \in DOMAIN s.uploads |-> IF c \in R THEN NoUpload ELSE s.uploads[c]]
<1>6. u \in PartialFunction(Nat, Upload)
  <2>1. u \in [DOMAIN s.uploads -> Upload]  BY <1>5, NoUploadType
  <2> QED  BY <2>1, <1>5 DEF PartialFunction
<1>7. SameUploads(s.uploads, u)
  <2>1. \A c \in DOMAIN s.uploads : SameUpload(s.uploads[c], u[c])  BY NoUploadType DEF SameUpload
  <2> QED  BY <1>6, <2>1 DEF SameUploads
<1> QED  BY <1>2, <1>4, <1>7

-----------------------------------------------------------------------------
(* The operations that add no reading.                                     *)

MildDecision(r, d) == d.failure \in Failure /\ Contract(r, d.registry) /\ Mild(r, d.registry)

LEMMA NoFailure == "none" \in Failure
  BY DEF Failure

LEMMA RefusedMild ==
  ASSUME NEW r \in Registry, RegistryOK(r), NEW d, Refused(r, d)
  PROVE  MildDecision(r, d)
  BY DropsContract DEF Refused, MildDecision

LEMMA GrantsMild ==
  ASSUME NEW r \in Registry, RegistryOK(r), NEW d, NEW t, Grants(r, t, d)
  PROVE  MildDecision(r, d)
  BY ContractStays, NoFailure DEF Grants, MildDecision

\* A draft that is not validated before or after, or that some peer unloads.
LEMMA ChangesMild ==
  ASSUME NEW r \in Registry, RegistryOK(r), NEW t \in DOMAIN r.transactions,
         NEW old, old = r.transactions[t], NEW e \in Draft, NEW d, Changes(r, t, e, d),
         DraftStep(old, e), e.mappings \subseteq old.mappings, e.properties = old.properties,
         \/ old.phase # "validated" /\ e.phase # "validated"
         \/ e.phase = old.phase /\ e.png = old.png
  PROVE  /\ MildDecision(r, d) /\ d.failure = "none"
         /\ t \in DOMAIN d.registry.transactions /\ d.registry.transactions[t] = e
<1> DEFINE q == d.registry
<1>1. /\ old.mappings \subseteq DOMAIN r.peers
      /\ old.phase # "validated" => old.properties = NoProperties /\ old.mappings = {}
  BY DEF RegistryOK, DraftsOK
<1>2. q = [r EXCEPT !.transactions[t] = e] /\ d.failure = "none"  BY DEF Changes
<1>3. e.phase # "validated" => e.properties = NoProperties /\ e.mappings = {}
  BY <1>1
<1> HIDE DEF q
<1>4. /\ Contract(r, q) /\ snapshot(q) = snapshot(r)
      /\ DOMAIN q.transactions = DOMAIN r.transactions /\ q.transactions[t] = e
      /\ \A u \in DOMAIN r.transactions \ {t} : q.transactions[u] = r.transactions[u]
  <2>1. e.mappings \subseteq DOMAIN r.peers  BY <1>1
  <2> QED  BY <1>2, <1>3, <2>1, ChangesContract
<1>5. Mild(r, q)
  <2>1. q.versions = r.versions  BY <1>4 DEF snapshot
  <2>2. ASSUME NEW u \in DOMAIN q.transactions
        PROVE  \/ q.transactions[u].phase # "validated" /\ q.transactions[u].mappings = {}
               \/ /\ u \in DOMAIN r.transactions
                  /\ q.transactions[u].mappings \subseteq r.transactions[u].mappings
                  /\ q.transactions[u].phase = r.transactions[u].phase
                  /\ q.transactions[u].png = r.transactions[u].png
                  /\ q.transactions[u].properties = r.transactions[u].properties
    <3>1. CASE u = t  BY <3>1, <1>1, <1>4
    <3>2. CASE u # t  BY <3>2, <1>4
    <3> QED  BY <3>1, <3>2
  <2> QED  BY <2>1, <2>2 DEF Mild
<1> QED  BY <1>2, <1>4, <1>5, NoFailure DEF MildDecision, q

LEMMA OfferMild ==
  ASSUME NEW r \in Registry, RegistryOK(r), NEW c, NEW t, NEW png \in Image, NEW d, d = offer(r, c, t, png)
  PROVE  MildDecision(r, d)
<1>1. CASE Refused(r, d)  BY <1>1, RefusedMild
<1>2. CASE /\ t \in DOMAIN r.transactions /\ r.transactions[t].phase = "draft"
           /\ Changes(r, t, [r.transactions[t] EXCEPT !.png = png, !.phase = "upload"], d)
  <2> DEFINE old == r.transactions[t]
             e == [old EXCEPT !.png = png, !.phase = "upload"]
  <2>1. old \in Draft  BY <1>2, RegistryFields
  <2>2. /\ e \in Draft /\ e.phase = "upload" /\ e.mappings = old.mappings /\ e.properties = old.properties
    BY <2>1 DEF Draft
  <2>3. Changes(r, t, e, d) /\ DraftStep(old, e)  BY <1>2 DEF DraftStep, Fixed
  <2>4. old.phase # "validated" /\ e.phase # "validated"  BY <1>2, <2>2
  <2> HIDE DEF e
  <2> QED  BY <1>2, <2>2, <2>3, <2>4, ChangesMild
<1> QED  BY <1>1, <1>2, OfferCases

LEMMA AppendMild ==
  ASSUME NEW r \in Registry, RegistryOK(r), NEW c, NEW t, NEW bytes \in {"none", "whole", "other"},
         NEW d, d = append(r, c, t, bytes)
  PROVE  MildDecision(r, d)
<1>1. CASE Refused(r, d)  BY <1>1, RefusedMild
<1>2. CASE /\ t \in DOMAIN r.transactions /\ r.transactions[t].phase = "upload"
           /\ Changes(r, t, [r.transactions[t] EXCEPT !.data = bytes], d)
  <2> DEFINE old == r.transactions[t]
             e == [old EXCEPT !.data = bytes]
  <2>1. old \in Draft  BY <1>2, RegistryFields
  <2>2. /\ e \in Draft /\ e.phase = old.phase /\ e.mappings = old.mappings /\ e.properties = old.properties
    BY <2>1 DEF Draft
  <2>3. Changes(r, t, e, d) /\ DraftStep(old, e)  BY <1>2 DEF DraftStep, Fixed
  <2>4. old.phase # "validated" /\ e.phase # "validated"  BY <1>2, <2>2
  <2> HIDE DEF e
  <2> QED  BY <1>2, <2>2, <2>3, <2>4, ChangesMild
<1> QED  BY <1>1, <1>2, AppendCases

\* A draft whose seal is granted is as it was offered.
LEMMA SealMild ==
  ASSUME NEW r \in Registry, RegistryOK(r), NEW c, NEW t, NEW d, d = seal(r, c, t)
  PROVE  /\ MildDecision(r, d)
         /\ d.failure = "none" => t \in DOMAIN d.registry.transactions /\ Fixed(d.registry.transactions[t])
<1>1. CASE Refused(r, d)  BY <1>1, RefusedMild DEF Refused
<1>2. CASE /\ t \in DOMAIN r.transactions /\ r.transactions[t].phase = "upload"
           /\ Changes(r, t, [r.transactions[t] EXCEPT !.phase = "sealed"], d)
  <2> DEFINE old == r.transactions[t]
             e == [old EXCEPT !.phase = "sealed"]
  <2>1. old \in Draft  BY <1>2, RegistryFields
  <2>2. /\ e \in Draft /\ e.phase = "sealed" /\ e.mappings = old.mappings /\ e.properties = old.properties
    BY <2>1 DEF Draft
  <2>3. Changes(r, t, e, d) /\ DraftStep(old, e)  BY <1>2 DEF DraftStep, Fixed
  <2>4. old.phase # "validated" /\ e.phase # "validated" /\ Fixed(e)  BY <1>2, <2>2 DEF Fixed
  <2> HIDE DEF e
  <2> QED  BY <1>2, <2>2, <2>3, <2>4, ChangesMild
<1> QED  BY <1>1, <1>2, SealCases

LEMMA DependencyFailureMild ==
  ASSUME NEW r \in Registry, RegistryOK(r), NEW c, NEW t, NEW d, d = dependency_failure(r, c, t)
  PROVE  MildDecision(r, d)
<1>1. CASE Refused(r, d)  BY <1>1, RefusedMild
<1>2. CASE /\ t \in DOMAIN r.transactions /\ r.transactions[t].phase = "validated"
           /\ Changes(r, t, [r.transactions[t] EXCEPT !.mappings = @ \ {c}], d)
  <2> DEFINE old == r.transactions[t]
             e == [old EXCEPT !.mappings = @ \ {c}]
  <2>1. old \in Draft  BY <1>2, RegistryFields
  <2>2. /\ e \in Draft /\ e.phase = old.phase /\ e.mappings \subseteq old.mappings
        /\ e.properties = old.properties /\ e.png = old.png
    BY <2>1 DEF Draft
  <2>3. Changes(r, t, e, d) /\ DraftStep(old, e)  BY <1>2, <2>2 DEF DraftStep, Fixed
  <2> HIDE DEF e
  <2> QED  BY <1>2, <2>2, <2>3, ChangesMild
<1> QED  BY <1>1, <1>2, DependencyFailureCases

LEMMA CancelMild ==
  ASSUME NEW r \in Registry, RegistryOK(r), NEW c, NEW t, NEW d, d = cancel(r, c, t)
  PROVE  MildDecision(r, d)
<1>1. CASE Refused(r, d)  BY <1>1, RefusedMild
<1>2. CASE d.failure = "none" /\ Drops(r, d.registry)
  BY <1>2, DropsContract, NoFailure DEF MildDecision
<1> QED  BY <1>1, <1>2, CancelCases

LEMMA AdmissionMild ==
  ASSUME NEW r \in Registry, RegistryOK(r), NEW c, NEW t, NEW d, d = observation_admission(r, c, t)
  PROVE  /\ MildDecision(r, d)
         /\ d.failure = "none" =>
              d.registry = r /\ t \in DOMAIN r.transactions /\ Fixed(r.transactions[t]) /\ c \in DOMAIN r.peers
<1>1. CASE Refused(r, d)  BY <1>1, RefusedMild DEF Refused
<1>2. CASE /\ Grants(r, t, d) /\ t \in DOMAIN r.transactions /\ Fixed(r.transactions[t])
           /\ c \in DOMAIN r.peers
  <2>1. MildDecision(r, d)  BY <1>2, GrantsMild
  <2> QED  BY <1>2, <2>1 DEF Grants
<1> QED  BY <1>1, <1>2, AdmissionCases

LEMMA CandidateMild ==
  ASSUME NEW r \in Registry, RegistryOK(r), NEW c, NEW t, NEW d, d = candidate(r, c, t)
  PROVE  /\ MildDecision(r, d)
         /\ d.failure = "none" =>
              t \in DOMAIN d.registry.transactions /\ Fixed(d.registry.transactions[t])
<1>1. CASE Refused(r, d)  BY <1>1, RefusedMild DEF Refused
<1>2. CASE Grants(r, t, d) /\ t \in DOMAIN r.transactions /\ Fixed(r.transactions[t])
  <2>1. MildDecision(r, d)  BY <1>2, GrantsMild
  <2> QED  BY <1>2, <2>1 DEF Grants
<1> QED  BY <1>1, <1>2, CandidateCases

LEMMA BeginMild ==
  ASSUME NEW r \in Registry, RegistryOK(r), NEW c, NEW base \in Nat, NEW d, d = begin(r, c, base)
  PROVE  MildDecision(r, d)
<1> DEFINE q == expire(r)
<1>1. Drops(r, q) /\ Begins(q, c, base, d)  BY BeginCases
<1> HIDE DEF q
<1>2. Contract(r, q) /\ Mild(r, q)  BY <1>1, DropsContract
<1>3. q \in Registry /\ RegistryOK(q)  BY <1>2 DEF Contract
<1>4. CASE d.failure \in Failure \ {"none"} /\ d.registry = q  BY <1>2, <1>4 DEF MildDecision
<1>5. CASE /\ d.failure = "none" /\ c \in DOMAIN q.peers /\ q.peers[c] # 0 /\ q.authority # 0
           /\ d.registry = [q EXCEPT !.next = @ + 1,
                                     !.transactions = With(@, q.next + 1, NewDraft(q, c, base))]
  <2> DEFINE w == d.registry
  <2>1. Contract(q, w) /\ Mild(q, w)
    <3>1. w = [q EXCEPT !.next = @ + 1, !.transactions = With(@, q.next + 1, NewDraft(q, c, base))]  BY <1>5
    <3>2. c \in DOMAIN q.peers /\ q.peers[c] # 0 /\ q.authority # 0  BY <1>5
    <3> HIDE DEF w
    <3> QED  BY <1>3, <3>1, <3>2, BeginContract
  <2>2. Contract(r, d.registry)  BY <1>2, <2>1, ContractTransitive
  <2>3. Mild(r, d.registry)  BY <1>2, <2>1, MildTransitive
  <2> QED  BY <1>5, <2>2, <2>3, NoFailure DEF MildDecision
<1> QED  BY <1>1, <1>4, <1>5 DEF Begins

-----------------------------------------------------------------------------
(* A reading is taken from an upload.                                      *)

\* A draft takes the reading one peer reported.
Loads(r, t, c, e, q) ==
  /\ t \in DOMAIN r.transactions /\ Fixed(r.transactions[t]) /\ c \in DOMAIN r.peers
  /\ e \in Draft /\ e.phase = "validated" /\ e.png = r.transactions[t].png
  /\ e.mappings = r.transactions[t].mappings \cup {c}
  /\ r.transactions[t].phase = "validated" => e.properties = r.transactions[t].properties
  /\ q = [r EXCEPT !.transactions[t] = e]

LoadsTruly(s, reports, t, c, e, q, u) ==
  /\ ServerOK(s, reports) /\ Loads(s.registry, t, c, e, q)
  /\ <<c, e.png, e.properties>> \in reports /\ SameUploads(s.uploads, u)

Loaded(s, reports, t, e, q, u) ==
  /\ ServerOK([registry |-> q, uploads |-> u], reports) /\ Contract(s.registry, q)
  /\ q.versions = s.registry.versions
  /\ DOMAIN q.transactions = DOMAIN s.registry.transactions /\ q.transactions[t] = e
  /\ \A v \in DOMAIN s.registry.transactions \ {t} : q.transactions[v] = s.registry.transactions[v]

LEMMA LoadedServer ==
  ASSUME NEW s, NEW reports, NEW t, NEW c, NEW e, NEW q, NEW u, LoadsTruly(s, reports, t, c, e, q, u)
  PROVE  Loaded(s, reports, t, e, q, u)
<1> USE DEF LoadsTruly
<1> DEFINE r == s.registry
           old == r.transactions[t]
           s2 == [registry |-> q, uploads |-> u]
<1>0. /\ t \in DOMAIN r.transactions /\ Fixed(old) /\ c \in DOMAIN r.peers
      /\ e \in Draft /\ e.phase = "validated" /\ e.png = old.png /\ e.mappings = old.mappings \cup {c}
      /\ old.phase = "validated" => e.properties = old.properties
      /\ q = [r EXCEPT !.transactions[t] = e]
  BY DEF Loads
<1>1. s \in Server /\ r \in Registry /\ RegistryOK(r)  BY ServerFields DEF ServerOK
<1>2. /\ old.mappings \subseteq DOMAIN r.peers
      /\ old.phase # "validated" => old.mappings = {}
  BY <1>0, <1>1 DEF RegistryOK, DraftsOK
<1>3. DraftStep(old, e)  BY <1>0 DEF DraftStep, Fixed
<1>4. e.mappings \subseteq DOMAIN r.peers  BY <1>0, <1>2
<1>5. /\ Contract(r, q) /\ snapshot(q) = snapshot(r)
      /\ DOMAIN q.transactions = DOMAIN r.transactions /\ q.transactions[t] = e
      /\ \A v \in DOMAIN r.transactions \ {t} : q.transactions[v] = r.transactions[v]
  BY <1>0, <1>1, <1>3, <1>4, ChangesContract
<1>6. s2 \in Server /\ UploadsOK(s2, reports)
  BY <1>1, <1>5, UploadsStep DEF ServerOK, Contract, RegistryOK
<1>7. MappingsOK(q, reports)
  <2> SUFFICES ASSUME NEW v \in DOMAIN q.transactions, NEW d \in q.transactions[v].mappings
               PROVE  <<d, q.transactions[v].png, q.transactions[v].properties>> \in reports
    BY DEF MappingsOK
  <2>1. CASE v # t  BY <2>1, <1>5 DEF ServerOK, MappingsOK
  <2>2. CASE v = t
    <3>1. CASE d = c  BY <2>2, <3>1, <1>5
    <3>2. CASE d \in old.mappings
      <4>1. old.phase = "validated"  BY <3>2, <1>2
      <4>2. <<d, old.png, old.properties>> \in reports  BY <3>2, <1>0 DEF ServerOK, MappingsOK
      <4> QED  BY <2>2, <4>1, <4>2, <1>0, <1>5
    <3> QED  BY <2>2, <3>1, <3>2, <1>0, <1>5
  <2> QED  BY <2>1, <2>2
<1>8. q.versions = r.versions  BY <1>5 DEF snapshot
<1> QED  BY <1>5, <1>6, <1>7, <1>8 DEF ServerOK, Contract, Loaded

Served(s, reports, b, a) ==
  LET left == [registry |-> a.registry, uploads |-> a.uploads]
  IN  /\ ServerOK(left, reports) /\ (Steady => ReadingsOK(left, b))
      /\ Contract(s.registry, a.registry) /\ a.failure \in Failure

LEMMA MildServed ==
  ASSUME NEW s, NEW reports, NEW b, ServerOK(s, reports), Steady => ReadingsOK(s, b),
         NEW d, MildDecision(s.registry, d), NEW a, a.registry = d.registry, a.failure \in Failure,
         SameUploads(s.uploads, a.uploads)
  PROVE  Served(s, reports, b, a) /\ Mild(s.registry, a.registry)
<1> DEFINE left == [registry |-> a.registry, uploads |-> a.uploads]
<1>1. Contract(s.registry, a.registry) /\ Mild(s.registry, a.registry)  BY DEF MildDecision
<1>2. ServerOK(left, reports) /\ \A x : ReadingsOK(s, x) => ReadingsOK(left, x)  BY <1>1, MildServer
<1> QED  BY <1>1, <1>2 DEF Served

LEMMA UploadsStay ==
  ASSUME NEW s \in Server
  PROVE  SameUploads(s.uploads, s.uploads)
  BY ServerFields DEF SameUploads, SameUpload

\* One upload is dropped, or gets its bytes.
LEMMA OneUpload ==
  ASSUME NEW s \in Server, NEW c \in DOMAIN s.uploads, NEW v \in Upload, SameUpload(s.uploads[c], v)
  PROVE  SameUploads(s.uploads, [s.uploads EXCEPT ![c] = v])
<1>1. s.uploads \in PartialFunction(Nat, Upload)  BY ServerFields
<1> DEFINE f == [s.uploads EXCEPT ![c] = v]
<1>2. /\ f \in PartialFunction(Nat, Upload) /\ DOMAIN f = DOMAIN s.uploads /\ f[c] = v
      /\ \A x \in DOMAIN s.uploads \ {c} : f[x] = s.uploads[x]
  BY <1>1, ChangeType
<1> HIDE DEF f
<1>3. \A d \in DOMAIN s.uploads : SameUpload(s.uploads[d], f[d])
  <2> TAKE d \in DOMAIN s.uploads
  <2>1. CASE d = c  BY <2>1, <1>2
  <2>2. CASE d # c  BY <2>2, <1>2 DEF SameUpload
  <2> QED  BY <2>1, <2>2
<1> QED  BY <1>2, <1>3 DEF SameUploads, f

LEMMA AnswerIs ==
  ASSUME NEW s, NEW d
  PROVE  /\ Answer(s, d).failure = d.failure
         /\ Answer(s, d) = [failure |-> d.failure, uploads |-> s.uploads, registry |-> d.registry]
  BY DEF Answer

LEMMA RefuseIs ==
  ASSUME NEW s, NEW d, NEW reason
  PROVE  Refuse(Answer(s, d), reason) = [failure |-> reason, uploads |-> s.uploads, registry |-> d.registry]
<1> DEFINE a == Answer(s, d)
<1>1. a = [failure |-> d.failure, uploads |-> s.uploads, registry |-> d.registry]  BY DEF Answer
<1>2. Refuse(a, reason) = [a EXCEPT !.failure = reason]  BY DEF Refuse
<1> HIDE DEF a
<1>3. [a EXCEPT !.failure = reason] = [failure |-> reason, uploads |-> s.uploads, registry |-> d.registry]
  BY <1>1
<1> QED  BY <1>2, <1>3 DEF a

LEMMA WithUploadIs ==
  ASSUME NEW s, NEW d, NEW c, NEW v
  PROVE  WithUpload(Answer(s, d), c, v)
           = [failure |-> d.failure, uploads |-> [s.uploads EXCEPT ![c] = v], registry |-> d.registry]
<1> DEFINE a == Answer(s, d)
           other == [s.uploads EXCEPT ![c] = v]
<1>1. a = [failure |-> d.failure, uploads |-> s.uploads, registry |-> d.registry]  BY DEF Answer
<1>2. WithUpload(a, c, v) = [a EXCEPT !.uploads = other]  BY <1>1 DEF WithUpload
<1> HIDE DEF a, other
<1>3. [a EXCEPT !.uploads = other] = [failure |-> d.failure, uploads |-> other, registry |-> d.registry]
  BY <1>1
<1> QED  BY <1>2, <1>3 DEF a, other

\* An upload begins with what was reported.
BeginsTruly(s, c, frame, reports, b) ==
  /\ <<c, frame.png, frame.properties>> \in reports
  /\ Steady /\ c = s.registry.authority => frame.properties = b.reads

ObservationBegun(s, c, frame, reports, b, a) ==
  /\ Served(s, reports, b, a) /\ Mild(s.registry, a.registry)
  /\ \A d \in DOMAIN s.uploads \ {c} : a.uploads[d] = s.uploads[d]
  /\ \/ a.uploads[c] = s.uploads[c]
     \/ a.uploads[c] = [transaction |-> frame.transaction, png |-> frame.png,
                        properties |-> frame.properties, whole |-> FALSE]

LEMMA BeginObservationServed ==
  ASSUME NEW s, NEW reports, NEW b, ServerOK(s, reports), Steady => ReadingsOK(s, b),
         NEW c \in DOMAIN s.registry.peers, NEW frame \in Frame, BeginsTruly(s, c, frame, reports, b),
         NEW a, a = begin_observation(s, c, frame)
  PROVE  ObservationBegun(s, c, frame, reports, b, a)
<1> USE DEF ObservationBegun
<1> DEFINE r == s.registry
           t == frame.transaction
           d == observation_admission(r, c, t)
           v == [transaction |-> t, png |-> frame.png, properties |-> frame.properties, whole |-> FALSE]
<1>1. /\ s \in Server /\ r \in Registry /\ RegistryOK(r) /\ DOMAIN s.uploads = DOMAIN r.peers
      /\ s.uploads \in PartialFunction(Nat, Upload)
  BY ServerFields DEF ServerOK, UploadsOK
<1>2. /\ MildDecision(r, d)
      /\ d.failure = "none" => d.registry = r /\ t \in DOMAIN r.transactions /\ Fixed(r.transactions[t])
  BY <1>1, AdmissionMild
<1>3. SameUploads(s.uploads, s.uploads)  BY <1>1, UploadsStay
<1>4. a = IF d.failure # "none" THEN [failure |-> d.failure, uploads |-> s.uploads, registry |-> d.registry]
          ELSE IF s.uploads[c].transaction # 0
          THEN [failure |-> "transaction_exists", uploads |-> s.uploads, registry |-> d.registry]
          ELSE [failure |-> d.failure, uploads |-> [s.uploads EXCEPT ![c] = v], registry |-> d.registry]
  <2> DEFINE adm == Answer(s, d)
  <2>1. a = IF adm.failure # "none" THEN adm
            ELSE IF s.uploads[c].transaction # 0 THEN Refuse(adm, "transaction_exists")
            ELSE WithUpload(adm, c, v)
    BY DEF begin_observation
  <2> HIDE DEF d, v
  <2>2. adm.failure = d.failure /\ adm = [failure |-> d.failure, uploads |-> s.uploads, registry |-> d.registry]
    BY AnswerIs
  <2>3. Refuse(adm, "transaction_exists")
        = [failure |-> "transaction_exists", uploads |-> s.uploads, registry |-> d.registry]
    BY RefuseIs
  <2>4. WithUpload(adm, c, v)
        = [failure |-> d.failure, uploads |-> [s.uploads EXCEPT ![c] = v], registry |-> d.registry]
    BY WithUploadIs
  <2> HIDE DEF adm
  <2> QED  BY <2>1, <2>2, <2>3, <2>4
<1>5. v \in Upload  BY DEF Frame, Upload
<1> HIDE DEF d, v
<1>6. CASE a.uploads = s.uploads /\ a.registry = d.registry /\ a.failure \in Failure
  <2>1. Served(s, reports, b, a) /\ Mild(s.registry, a.registry)
    BY <1>2, <1>3, <1>6, MildServed
  <2> QED  BY <2>1, <1>6
<1>7. CASE d.failure = "none" /\ s.uploads[c].transaction = 0
  <2> DEFINE f == [s.uploads EXCEPT ![c] = v]
  <2>1. a.uploads = f /\ a.registry = r /\ a.failure = "none"  BY <1>2, <1>4, <1>7
  <2>2. /\ f \in PartialFunction(Nat, Upload) /\ DOMAIN f = DOMAIN s.uploads /\ f[c] = v
        /\ \A x \in DOMAIN s.uploads \ {c} : f[x] = s.uploads[x]
    BY <1>1, <1>5, ChangeType
  <2> DEFINE left == [registry |-> r, uploads |-> f]
  <2> HIDE DEF f
  <2>3. left \in Server  BY <1>1, <2>2 DEF Server
  <2>4. UploadsOK(left, reports)
    <3>1. /\ v.transaction = t /\ v.png = frame.png /\ v.properties = frame.properties  BY DEF v
    <3>2. t <= r.next  BY <1>1, <1>2, <1>7 DEF RegistryOK, DraftsOK
    <3>3. <<c, v.png, v.properties>> \in reports  BY <3>1 DEF BeginsTruly
    <3>4. ASSUME NEW x \in DOMAIN f
          PROVE  /\ f[x].transaction <= r.next
                 /\ f[x].transaction \in DOMAIN r.transactions =>
                      LET draft == r.transactions[f[x].transaction] IN
                      /\ Fixed(draft)
                      /\ f[x].png = draft.png => <<x, f[x].png, f[x].properties>> \in reports
      <4>1. CASE x = c  BY <4>1, <3>1, <3>2, <3>3, <1>2, <1>7, <2>2
      <4>2. CASE x # c  BY <4>2, <2>2 DEF ServerOK, UploadsOK
      <4> QED  BY <4>1, <4>2
    <3> QED  BY <3>4, <1>1, <2>2 DEF UploadsOK
  <2>5. ServerOK(left, reports)  BY <2>3, <2>4 DEF ServerOK
  <2>6. ASSUME Steady PROVE ReadingsOK(left, b)
    <3>1. ReadingsOK(s, b)  BY <2>6
    <3>2. ASSUME r.authority # 0, b.link = r.authority, f[r.authority].transaction # 0
          PROVE  f[r.authority].properties = b.reads
      <4>1. r.authority \in DOMAIN s.uploads  BY <3>2, <1>1 DEF RegistryOK, PeersOK
      <4>2. CASE r.authority = c  BY <4>2, <2>2, <2>6 DEF v, BeginsTruly
      <4>3. CASE r.authority # c  BY <4>1, <4>3, <2>2, <3>1, <3>2 DEF ReadingsOK
      <4> QED  BY <4>2, <4>3
    <3> QED  BY <3>1, <3>2 DEF ReadingsOK
  <2>7. Contract(r, r) /\ Mild(r, r)  BY <1>1, ContractStays
  <2>8. left = [registry |-> a.registry, uploads |-> a.uploads]  BY <2>1
  <2>9. Served(s, reports, b, a)  BY <2>1, <2>5, <2>6, <2>7, <2>8, NoFailure DEF Served
  <2> QED  BY <2>1, <2>2, <2>7, <2>9 DEF v
<1>8. d.failure \in Failure /\ "transaction_exists" \in Failure  BY <1>2 DEF MildDecision, Failure
<1> QED  BY <1>4, <1>6, <1>7, <1>8

ObservationAppended(s, c, frame, reports, b, a) ==
  /\ Served(s, reports, b, a) /\ Mild(s.registry, a.registry) /\ SameUploads(s.uploads, a.uploads)
  /\ \A d \in DOMAIN s.uploads \ {c} : a.uploads[d] = s.uploads[d]
  /\ \/ a.uploads[c].transaction = 0
     \/ a.uploads[c] = s.uploads[c] /\ (s.uploads[c].transaction # frame.transaction \/ s.uploads[c].whole)
     \/ a.uploads[c] = [s.uploads[c] EXCEPT !.whole = TRUE]

LEMMA AppendObservationServed ==
  ASSUME NEW s, NEW reports, NEW b, ServerOK(s, reports), Steady => ReadingsOK(s, b),
         NEW c \in DOMAIN s.registry.peers, NEW frame \in Frame, NEW a, a = append_observation(s, c, frame)
  PROVE  ObservationAppended(s, c, frame, reports, b, a)
<1> USE DEF ObservationAppended
<1> DEFINE r == s.registry
           t == frame.transaction
           d == observation_admission(r, c, t)
           v == [s.uploads[c] EXCEPT !.whole = TRUE]
<1>1. /\ s \in Server /\ r \in Registry /\ RegistryOK(r) /\ DOMAIN s.uploads = DOMAIN r.peers
      /\ s.uploads[c] \in Upload
  BY ServerFields DEF ServerOK, UploadsOK
<1>2. MildDecision(r, d)  BY <1>1, AdmissionMild
<1>3. a = IF d.failure # "none"
          THEN [failure |-> d.failure, uploads |-> [s.uploads EXCEPT ![c] = NoUpload], registry |-> d.registry]
          ELSE IF s.uploads[c].transaction # t
          THEN [failure |-> "unknown_transaction", uploads |-> s.uploads, registry |-> d.registry]
          ELSE IF s.uploads[c].whole
          THEN [failure |-> "invalid_offset", uploads |-> s.uploads, registry |-> d.registry]
          ELSE [failure |-> d.failure, uploads |-> [s.uploads EXCEPT ![c] = v], registry |-> d.registry]
  <2> DEFINE adm == Answer(s, d)
  <2>1. a = IF adm.failure # "none" THEN WithUpload(adm, c, NoUpload)
            ELSE IF s.uploads[c].transaction # t THEN Refuse(adm, "unknown_transaction")
            ELSE IF s.uploads[c].whole THEN Refuse(adm, "invalid_offset")
            ELSE [adm EXCEPT !.uploads[c].whole = TRUE]
    BY DEF append_observation
  <2> HIDE DEF d
  <2>2. adm.failure = d.failure  BY AnswerIs
  <2>3. \A reason \in {"unknown_transaction", "invalid_offset"} :
          Refuse(adm, reason) = [failure |-> reason, uploads |-> s.uploads, registry |-> d.registry]
    BY RefuseIs
  <2>4. WithUpload(adm, c, NoUpload)
        = [failure |-> d.failure, uploads |-> [s.uploads EXCEPT ![c] = NoUpload], registry |-> d.registry]
    BY WithUploadIs
  <2>5. [adm EXCEPT !.uploads[c].whole = TRUE]
        = [failure |-> d.failure, uploads |-> [s.uploads EXCEPT ![c] = v], registry |-> d.registry]
    <3>1. adm = [failure |-> d.failure, uploads |-> s.uploads, registry |-> d.registry]  BY AnswerIs
    <3>2. [adm EXCEPT !.uploads[c].whole = TRUE]
          = [adm EXCEPT !.uploads = [adm.uploads EXCEPT ![c] = [adm.uploads[c] EXCEPT !.whole = TRUE]]]
      OBVIOUS
    <3> DEFINE f == [s.uploads EXCEPT ![c] = v]
    <3>3. [adm EXCEPT !.uploads[c].whole = TRUE] = [adm EXCEPT !.uploads = f]  BY <3>1, <3>2
    <3> HIDE DEF adm, f
    <3>4. [adm EXCEPT !.uploads = f] = [failure |-> d.failure, uploads |-> f, registry |-> d.registry]
      BY <3>1
    <3> QED  BY <3>3, <3>4 DEF f
  <2> HIDE DEF adm, v
  <2> QED  BY <2>1, <2>2, <2>3, <2>4, <2>5
<1>4. /\ SameUploads(s.uploads, s.uploads)
      /\ SameUploads(s.uploads, [s.uploads EXCEPT ![c] = NoUpload])
      /\ SameUploads(s.uploads, [s.uploads EXCEPT ![c] = v])
  <2>1. v \in Upload /\ SameUpload(s.uploads[c], v)  BY <1>1 DEF Upload, SameUpload
  <2>2. NoUpload \in Upload /\ SameUpload(s.uploads[c], NoUpload)  BY NoUploadType DEF SameUpload
  <2> HIDE DEF v
  <2> QED  BY <1>1, <2>1, <2>2, UploadsStay, OneUpload
<1>5. d.failure \in Failure /\ {"unknown_transaction", "invalid_offset"} \subseteq Failure
  BY <1>2 DEF MildDecision, Failure
<1> HIDE DEF d, v
<1>6. a.registry = d.registry /\ a.failure \in Failure /\ SameUploads(s.uploads, a.uploads)
  BY <1>3, <1>4, <1>5
<1>7. Served(s, reports, b, a) /\ Mild(s.registry, a.registry)  BY <1>2, <1>6, MildServed
<1> QED  BY <1>1, <1>3, <1>6, <1>7, NoUploadType DEF v

\* The outcome of an observation's end.
ObservationEnds(s, reports, b, a) ==
  /\ Served(s, reports, b, a) /\ a.registry.versions = s.registry.versions
  /\ a.failure # "none" => Mild(s.registry, a.registry)

LEMMA AttestServed ==
  ASSUME NEW s, NEW reports, NEW b, ServerOK(s, reports), Steady => ReadingsOK(s, b),
         NEW c \in DOMAIN s.registry.peers, c = s.registry.authority, b.link = c,
         NEW t, s.uploads[c].transaction = t, NEW k, k = attest(s.registry, c, t, s.uploads[c]),
         NEW u, SameUploads(s.uploads, u), NEW a, a = [failure |-> k.failure, uploads |-> u, registry |-> k.registry]
  PROVE  ObservationEnds(s, reports, b, a)
<1> USE DEF ObservationEnds
<1> DEFINE r == s.registry
<1>1. /\ s \in Server /\ r \in Registry /\ RegistryOK(r) /\ DOMAIN s.uploads = DOMAIN r.peers
      /\ s.uploads[c] \in Upload /\ DOMAIN r.peers \in SUBSET Nat
  BY ServerFields, RegistryFields DEF ServerOK, UploadsOK
<1>2. CASE Refused(r, k)
  <2>1. MildDecision(r, k)  BY <1>1, <1>2, RefusedMild
  <2>2. Served(s, reports, b, a) /\ Mild(r, a.registry)  BY <2>1, MildServed DEF MildDecision
  <2> QED  BY <2>2 DEF Mild
<1> DEFINE old == r.transactions[t]
           observed == s.uploads[c]
           e == Attested(old, c, observed.properties)
<1>3. CASE Attests(r, c, t, observed, k)
  <2>0. /\ t \in DOMAIN r.transactions /\ old.phase = "sealed" /\ observed.png = old.png
        /\ ~properties_conflict(r.versions, old.png, observed.properties) /\ Changes(r, t, e, k)
    BY <1>3 DEF Attests
  <2>1. old \in Draft /\ observed.properties \in Reading /\ c \in Nat /\ t # 0
    BY <1>1, <2>0, RegistryFields DEF Upload, RegistryOK, DraftsOK
  <2>2. /\ e \in Draft /\ e.phase = "validated" /\ e.properties = observed.properties
        /\ e.mappings = old.mappings \cup {c} /\ e.png = old.png
    BY <2>1 DEF Draft, Attested
  <2>3. k.failure = "none" /\ k.registry = [r EXCEPT !.transactions[t] = e]  BY <2>0 DEF Changes
  <2> HIDE DEF e
  <2> DEFINE q == k.registry
             left == [registry |-> q, uploads |-> u]
  <2>4. <<c, e.png, e.properties>> \in reports
    BY <1>1, <2>0, <2>2 DEF ServerOK, UploadsOK
  <2>5. Fixed(old) /\ old.phase # "validated"  BY <2>0 DEF Fixed
  <2> HIDE DEF q
  <2>6. q = [r EXCEPT !.transactions[t] = e]  BY <2>3 DEF q
  <2>7. /\ ServerOK(left, reports) /\ Contract(r, q) /\ q.versions = r.versions
        /\ DOMAIN q.transactions = DOMAIN r.transactions /\ q.transactions[t] = e
        /\ \A v \in DOMAIN r.transactions \ {t} : q.transactions[v] = r.transactions[v]
    <3>1. Loads(s.registry, t, c, e, q)  BY <2>0, <2>2, <2>5, <2>6 DEF Loads
    <3>2. LoadsTruly(s, reports, t, c, e, q, u)  BY <2>4, <3>1 DEF LoadsTruly
    <3>3. Loaded(s, reports, t, e, q, u)  BY <3>2, LoadedServer
    <3> QED  BY <3>3 DEF Loaded
  <2>8. ASSUME Steady PROVE ReadingsOK(left, b)
    <3>1. ReadingsOK(s, b)  BY <2>8
    <3>2. /\ r.authority # 0 /\ q.authority = r.authority
          /\ \A d \in Validated(r) : d.properties = b.reads
          /\ e.properties = b.reads
      BY <1>1, <2>1, <2>2, <2>7, <3>1 DEF ReadingsOK, RegistryOK, PeersOK, Contract
    <3>3. \A d \in Validated(q) : d = e \/ d \in Validated(r)
      BY <2>7 DEF Validated
    <3>4. \A v \in r.versions : v.png = e.png => v.properties = e.properties
      BY <2>0, <2>2 DEF properties_conflict
    <3>5. \A d \in Validated(q) : d.properties = b.reads  BY <3>2, <3>3
    <3>6. \A d \in Validated(q), v \in q.versions : v.png = d.png => v.properties = d.properties
      BY <2>7, <3>1, <3>3, <3>4 DEF ReadingsOK
    <3>7. u[q.authority].transaction # 0 => u[q.authority].properties = b.reads
      <4>1. SameUpload(s.uploads[c], u[c])  BY <1>1 DEF SameUploads
      <4>2. observed.properties = b.reads  BY <2>2, <3>2
      <4> QED  BY <4>1, <4>2, <3>2 DEF SameUpload
    <3>8. OneReading(q.versions)  BY <2>7, <3>1 DEF ReadingsOK
    <3>9. left.registry = q /\ left.uploads = u  OBVIOUS
    <3>10. \A d, f \in Validated(q) : d.properties = f.properties  BY <3>5
    <3> HIDE DEF left
    <3> QED  BY <3>5, <3>6, <3>7, <3>8, <3>9, <3>10 DEF ReadingsOK
  <2>9. a.registry = q /\ a.uploads = u /\ a.failure = "none"  BY <2>3 DEF q
  <2> QED  BY <2>7, <2>8, <2>9, NoFailure DEF Served
<1> QED  BY <1>2, <1>3, AttestCases

LEMMA ReadyServed ==
  ASSUME NEW s, NEW reports, NEW b, ServerOK(s, reports), Steady => ReadingsOK(s, b),
         NEW c \in DOMAIN s.registry.peers,
         NEW t, s.uploads[c].transaction = t, NEW k, k = ready(s.registry, c, t, s.uploads[c]),
         NEW u, SameUploads(s.uploads, u), NEW a, a = [failure |-> k.failure, uploads |-> u, registry |-> k.registry]
  PROVE  ObservationEnds(s, reports, b, a)
<1> USE DEF ObservationEnds
<1> DEFINE r == s.registry
<1>1. /\ s \in Server /\ r \in Registry /\ RegistryOK(r) /\ DOMAIN s.uploads = DOMAIN r.peers
      /\ s.uploads[c] \in Upload /\ DOMAIN r.peers \in SUBSET Nat
  BY ServerFields, RegistryFields DEF ServerOK, UploadsOK
<1>2. CASE Refused(r, k)
  <2>1. MildDecision(r, k)  BY <1>1, <1>2, RefusedMild
  <2>2. Served(s, reports, b, a) /\ Mild(r, a.registry)  BY <2>1, MildServed DEF MildDecision
  <2> QED  BY <2>2 DEF Mild
<1> DEFINE old == r.transactions[t]
           observed == s.uploads[c]
           e == Readied(old, c)
<1>3. CASE Readies(r, c, t, observed, k)
  <2>0. /\ t \in DOMAIN r.transactions /\ old.phase = "validated" /\ observed.png = old.png
        /\ observed.properties = old.properties /\ Changes(r, t, e, k)
    BY <1>3 DEF Readies
  <2>1. old \in Draft /\ c \in Nat  BY <1>1, <2>0, RegistryFields
  <2>2. /\ e \in Draft /\ e.phase = "validated" /\ e.properties = old.properties
        /\ e.mappings = old.mappings \cup {c} /\ e.png = old.png
    BY <2>0, <2>1 DEF Draft, Readied
  <2>3. k.failure = "none" /\ k.registry = [r EXCEPT !.transactions[t] = e]  BY <2>0 DEF Changes
  <2> HIDE DEF e
  <2> DEFINE q == k.registry
             left == [registry |-> q, uploads |-> u]
  <2>4. <<c, e.png, e.properties>> \in reports
    BY <1>1, <2>0, <2>2 DEF ServerOK, UploadsOK
  <2>5. Fixed(old)  BY <2>0 DEF Fixed
  <2> HIDE DEF q
  <2>6. q = [r EXCEPT !.transactions[t] = e]  BY <2>3 DEF q
  <2>7. /\ ServerOK(left, reports) /\ Contract(r, q) /\ q.versions = r.versions
        /\ DOMAIN q.transactions = DOMAIN r.transactions /\ q.transactions[t] = e
        /\ \A v \in DOMAIN r.transactions \ {t} : q.transactions[v] = r.transactions[v]
    <3>1. Loads(s.registry, t, c, e, q)  BY <2>0, <2>2, <2>5, <2>6 DEF Loads
    <3>2. LoadsTruly(s, reports, t, c, e, q, u)  BY <2>4, <3>1 DEF LoadsTruly
    <3>3. Loaded(s, reports, t, e, q, u)  BY <3>2, LoadedServer
    <3> QED  BY <3>3 DEF Loaded
  <2>8. ASSUME Steady PROVE ReadingsOK(left, b)
    <3>1. SameReadings(r, q)
      <4>1. ASSUME NEW d \in Validated(q)
            PROVE  \E f \in Validated(r) : f.png = d.png /\ f.properties = d.properties
        <5>1. PICK v \in DOMAIN q.transactions : q.transactions[v].phase = "validated" /\ d = q.transactions[v]
          BY DEF Validated
        <5>2. /\ r.transactions[v].phase = "validated" /\ v \in DOMAIN r.transactions
              /\ r.transactions[v].png = d.png /\ r.transactions[v].properties = d.properties
          <6>1. CASE v = t  BY <6>1, <5>1, <2>0, <2>2, <2>7
          <6>2. CASE v # t  BY <6>2, <5>1, <2>7
          <6> QED  BY <6>1, <6>2
        <5> QED  BY <5>2 DEF Validated
      <4> QED  BY <4>1, <2>7 DEF SameReadings, Contract
    <3>2. ReadingsOK(s, b) /\ PeersOK(r)  BY <1>1, <2>8 DEF RegistryOK
    <3> QED  BY <1>1, <3>1, <3>2, ReadingsStep
  <2>9. a.registry = q /\ a.uploads = u /\ a.failure = "none"  BY <2>3 DEF q
  <2> QED  BY <2>7, <2>8, <2>9, NoFailure DEF Served
<1> QED  BY <1>2, <1>3, ReadyCases

ObservationEnded(s, c, frame, reports, b, a) ==
  /\ Served(s, reports, b, a) /\ SameUploads(s.uploads, a.uploads)
  /\ a.registry.versions = s.registry.versions
  /\ a.failure # "none" => Mild(s.registry, a.registry)
  /\ \A d \in DOMAIN s.uploads \ {c} : a.uploads[d] = s.uploads[d]
  /\ \/ a.uploads[c].transaction = 0
     \/ a.uploads[c] = s.uploads[c] /\ (s.uploads[c].transaction # frame.transaction \/ ~s.uploads[c].whole)

LEMMA EndObservationServed ==
  ASSUME NEW s, NEW reports, NEW b, ServerOK(s, reports), Steady => ReadingsOK(s, b),
         NEW c \in DOMAIN s.registry.peers, c = s.registry.authority => b.link = c,
         NEW frame \in Frame, NEW a, a = end_observation(s, c, frame)
  PROVE  ObservationEnded(s, c, frame, reports, b, a)
<1> USE DEF ObservationEnded
<1> DEFINE r == s.registry
           t == frame.transaction
           d == observation_admission(r, c, t)
           k == IF c = r.authority THEN attest(r, c, t, s.uploads[c]) ELSE ready(r, c, t, s.uploads[c])
           u == [s.uploads EXCEPT ![c] = NoUpload]
<1>1. /\ s \in Server /\ r \in Registry /\ RegistryOK(r) /\ DOMAIN s.uploads = DOMAIN r.peers
      /\ s.uploads \in PartialFunction(Nat, Upload)
  BY ServerFields DEF ServerOK, UploadsOK
<1>2. MildDecision(r, d)  BY <1>1, AdmissionMild
<1>3. a = IF d.failure # "none" THEN [failure |-> d.failure, uploads |-> u, registry |-> d.registry]
          ELSE IF s.uploads[c].transaction # t
          THEN [failure |-> "unknown_transaction", uploads |-> s.uploads, registry |-> d.registry]
          ELSE IF ~s.uploads[c].whole
          THEN [failure |-> "invalid_size", uploads |-> s.uploads, registry |-> d.registry]
          ELSE [failure |-> k.failure, uploads |-> u, registry |-> k.registry]
  <2> DEFINE adm == Answer(s, d)
  <2>1. a = IF adm.failure # "none" THEN WithUpload(adm, c, NoUpload)
            ELSE IF s.uploads[c].transaction # t THEN Refuse(adm, "unknown_transaction")
            ELSE IF ~s.uploads[c].whole THEN Refuse(adm, "invalid_size")
            ELSE WithUpload(Answer(s, k), c, NoUpload)
    BY DEF end_observation
  <2> HIDE DEF d, k
  <2>2. adm.failure = d.failure  BY AnswerIs
  <2>3. \A reason \in {"unknown_transaction", "invalid_size"} :
          Refuse(adm, reason) = [failure |-> reason, uploads |-> s.uploads, registry |-> d.registry]
    BY RefuseIs
  <2>4. WithUpload(adm, c, NoUpload) = [failure |-> d.failure, uploads |-> u, registry |-> d.registry]
    BY WithUploadIs
  <2>5. WithUpload(Answer(s, k), c, NoUpload) = [failure |-> k.failure, uploads |-> u, registry |-> k.registry]
    BY WithUploadIs
  <2> HIDE DEF adm, u
  <2> QED  BY <2>1, <2>2, <2>3, <2>4, <2>5
<1>4. SameUploads(s.uploads, s.uploads) /\ SameUploads(s.uploads, u)
  <2>1. NoUpload \in Upload /\ SameUpload(s.uploads[c], NoUpload)  BY NoUploadType DEF SameUpload
  <2> QED  BY <1>1, <2>1, UploadsStay, OneUpload
<1>5. u[c].transaction = 0 /\ \A x \in DOMAIN s.uploads \ {c} : u[x] = s.uploads[x]
  BY <1>1, NoUploadType DEF PartialFunction
<1>6. d.failure \in Failure /\ {"unknown_transaction", "invalid_size"} \subseteq Failure
  BY <1>2 DEF MildDecision, Failure
<1> HIDE DEF d, u
<1>7. CASE d.failure # "none" \/ s.uploads[c].transaction # t \/ ~s.uploads[c].whole
  <2> HIDE DEF k
  <2>1. /\ a.registry = d.registry /\ a.failure \in Failure
        /\ a.uploads = u \/ (a.uploads = s.uploads /\ (s.uploads[c].transaction # t \/ ~s.uploads[c].whole))
    BY <1>3, <1>6, <1>7
  <2>2. SameUploads(s.uploads, a.uploads)  BY <2>1, <1>4
  <2>3. Served(s, reports, b, a) /\ Mild(r, a.registry)  BY <1>2, <2>1, <2>2, MildServed
  <2>4. a.registry.versions = r.versions  BY <2>3 DEF Mild
  <2> QED  BY <1>5, <2>1, <2>2, <2>3, <2>4
<1>8. CASE s.uploads[c].transaction = t /\ a = [failure |-> k.failure, uploads |-> u, registry |-> k.registry]
  <2>1. /\ Served(s, reports, b, a) /\ a.registry.versions = r.versions
        /\ a.failure # "none" => Mild(r, a.registry)
    <3>1. CASE c = r.authority
      <4>1. k = attest(r, c, t, s.uploads[c])  BY <3>1
      <4> HIDE DEF k
      <4>2. ObservationEnds(s, reports, b, a)  BY <3>1, <4>1, <1>4, <1>8, AttestServed
      <4> QED  BY <4>2 DEF ObservationEnds
    <3>2. CASE c # r.authority
      <4>1. k = ready(r, c, t, s.uploads[c])  BY <3>2
      <4> HIDE DEF k
      <4>2. ObservationEnds(s, reports, b, a)  BY <3>2, <4>1, <1>4, <1>8, ReadyServed
      <4> QED  BY <4>2 DEF ObservationEnds
    <3> QED  BY <3>1, <3>2
  <2> HIDE DEF k
  <2>2. a.uploads = u  BY <1>8
  <2> QED  BY <1>4, <1>5, <2>1, <2>2
<1> HIDE DEF k
<1> QED  BY <1>3, <1>7, <1>8

-----------------------------------------------------------------------------
(* A request is carried out.                                               *)

\* What is published was written, and loaded by every peer.
Publishes(r, q, written) ==
  \/ q.versions = r.versions
  \/ /\ written
     /\ \E t \in DOMAIN r.transactions :
          /\ q.versions = r.versions \cup {manifest(r.transactions[t])}
          /\ DOMAIN r.peers \subseteq r.transactions[t].mappings

LEMMA CommitServed ==
  ASSUME NEW s, NEW reports, NEW b, ServerOK(s, reports), Steady => ReadingsOK(s, b),
         NEW c, NEW t, NEW written, NEW k, k = commit(s.registry, c, t, written),
         NEW a, a = [failure |-> k.failure, uploads |-> s.uploads, registry |-> k.registry]
  PROVE  Served(s, reports, b, a) /\ Publishes(s.registry, a.registry, written)
<1> DEFINE r == s.registry
           draft == r.transactions[t]
<1>1. s \in Server /\ r \in Registry /\ RegistryOK(r)  BY ServerFields DEF ServerOK
<1>2. a.registry = k.registry /\ a.failure = k.failure /\ a.uploads = s.uploads  OBVIOUS
<1>3. SameUploads(s.uploads, s.uploads)  BY <1>1, UploadsStay
<1>4. CASE k.failure \in Failure \ {"none"} /\ Drops(r, k.registry)
  <2>1. MildDecision(r, k)
    <3>1. Contract(r, k.registry) /\ Mild(r, k.registry)  BY <1>1, <1>4, DropsContract
    <3> QED  BY <1>4, <3>1 DEF MildDecision
  <2>2. Served(s, reports, b, a) /\ Mild(r, a.registry)  BY <1>2, <1>3, <1>4, <2>1, MildServed
  <2> QED  BY <2>2 DEF Mild, Publishes
<1>5. CASE /\ k.failure = "none" /\ k.registry = Published(r, t) /\ written
           /\ t \in DOMAIN r.transactions /\ r.transactions[t].phase = "validated"
           /\ r.current[r.transactions[t].player] = r.transactions[t].base
           /\ DOMAIN r.peers \subseteq r.transactions[t].mappings
           /\ ~storage_full(r, r.transactions[t].png)
  <2> DEFINE q == k.registry
             m == manifest(draft)
             left == [registry |-> q, uploads |-> s.uploads]
  <2> HIDE DEF q
  <2>1. q = Published(r, t)  BY <1>5 DEF q
  <2>2. /\ Contract(r, q) /\ q.versions = r.versions \cup {m}
        /\ DOMAIN q.transactions \subseteq DOMAIN r.transactions
        /\ \A u \in DOMAIN q.transactions : q.transactions[u] = r.transactions[u]
    <3>1. Publication(r, t, q)  BY <1>1, <1>5, <2>1, PublishedContract DEF Publishable
    <3> QED  BY <3>1 DEF Publication
  <2>3. left \in Server /\ UploadsOK(left, reports)
    <3>1. q \in Registry /\ Moves(r, q) /\ q.peers = r.peers  BY <2>2 DEF Contract
    <3>2. UploadsOK(s, reports) /\ DraftsOK(r)  BY <1>1 DEF ServerOK, RegistryOK
    <3> QED  BY <1>1, <1>3, <3>1, <3>2, UploadsStep
  <2>4. MappingsOK(q, reports)  BY <2>2 DEF MappingsOK, ServerOK
  <2>5. ServerOK(left, reports)  BY <2>2, <2>3, <2>4 DEF ServerOK, Contract
  <2>6. ASSUME Steady PROVE ReadingsOK(left, b)
    <3>1. ReadingsOK(s, b)  BY <2>6
    <3>2. draft \in Validated(r)  BY <1>5 DEF Validated
    <3>3. Validated(q) \subseteq Validated(r)  BY <2>2 DEF Validated
    <3>4. m.png = draft.png /\ m.properties = draft.properties  BY DEF manifest
    <3>5. /\ OneReading(r.versions) /\ \A d, e \in Validated(r) : d.properties = e.properties
          /\ \A d \in Validated(r), v \in r.versions : v.png = d.png => v.properties = d.properties
      BY <3>1 DEF ReadingsOK
    <3> HIDE DEF m, draft
    <3>6. OneReading(r.versions \cup {m})  BY <3>2, <3>4, <3>5 DEF OneReading
    <3>7. \A d \in Validated(r), v \in r.versions \cup {m} : v.png = d.png => v.properties = d.properties
      BY <3>2, <3>4, <3>5
    <3>8. r.authority # 0 /\ b.link = r.authority =>
            /\ \A d \in Validated(r) : d.properties = b.reads
            /\ s.uploads[r.authority].transaction # 0 => s.uploads[r.authority].properties = b.reads
      BY <3>1 DEF ReadingsOK
    <3>9. left.registry = q /\ left.uploads = s.uploads /\ q.authority = r.authority  BY <2>2 DEF Contract
    <3> HIDE DEF left
    <3>10. q.versions = r.versions \cup {m}  BY <2>2 DEF m, draft
    <3> QED  BY <3>3, <3>5, <3>6, <3>7, <3>8, <3>9, <3>10 DEF ReadingsOK
  <2>7. Served(s, reports, b, a)  BY <1>2, <1>5, <2>2, <2>5, <2>6, NoFailure DEF Served, q
  <2>8. Publishes(r, q, written)  BY <1>5, <2>2 DEF Publishes
  <2> QED  BY <2>7, <2>8, <1>2 DEF q
<1> QED  BY <1>4, <1>5, CommitCases

\* A request the coordinator may get.
Asked(s, c, frame, reports, b) ==
  /\ ServerOK(s, reports) /\ (Steady => ReadingsOK(s, b))
  /\ c \in DOMAIN s.registry.peers /\ (c = s.registry.authority => b.link = c)
  /\ frame \in Frame /\ frame.transaction <= s.registry.next
  /\ frame.op = "observation_begin" => BeginsTruly(s, c, frame, reports, b)

ObservationOp == {"observation_begin", "observation_chunk", "observation_end"}

\* What an observation's requests leave of its upload, and of all others.
Observes(s, c, frame, a) ==
  /\ \A d \in DOMAIN s.uploads : d # c \/ frame.op \notin ObservationOp => a.uploads[d] = s.uploads[d]
  /\ frame.op \in {"observation_begin", "observation_chunk"}
     \/ (frame.op = "observation_end" /\ a.failure # "none") => Mild(s.registry, a.registry)
  /\ frame.op = "observation_begin" =>
       \/ a.uploads[c] = s.uploads[c]
       \/ a.uploads[c] = [transaction |-> frame.transaction, png |-> frame.png,
                          properties |-> frame.properties, whole |-> FALSE]
  /\ frame.op = "observation_chunk" =>
       \/ a.uploads[c].transaction = 0
       \/ a.uploads[c] = s.uploads[c] /\ (s.uploads[c].transaction # frame.transaction \/ s.uploads[c].whole)
       \/ a.uploads[c] = [s.uploads[c] EXCEPT !.whole = TRUE]
  /\ frame.op = "observation_end" =>
       \/ a.uploads[c].transaction = 0
       \/ a.uploads[c] = s.uploads[c] /\ (s.uploads[c].transaction # frame.transaction \/ ~s.uploads[c].whole)

Applied(s, c, frame, reports, b, written, a) ==
  /\ Served(s, reports, b, a) /\ Publishes(s.registry, a.registry, written)
  /\ /\ a.failure = "none" /\ frame.op \in {"seal", "fetch"}
     /\ frame.transaction \in DOMAIN a.registry.transactions
     => Fixed(a.registry.transactions[frame.transaction])

\* Operations that are no part of an observation, and no commit.
LEMMA MildApplied ==
  ASSUME NEW s, NEW c, NEW frame, NEW reports, NEW b, Asked(s, c, frame, reports, b), NEW written,
         NEW d, MildDecision(s.registry, d), NEW a, a = Answer(s, d),
         frame.op \notin ObservationOp,
         /\ d.failure = "none" /\ frame.op \in {"seal", "fetch"}
         /\ frame.transaction \in DOMAIN d.registry.transactions
         => Fixed(d.registry.transactions[frame.transaction])
  PROVE  Applied(s, c, frame, reports, b, written, a) /\ Observes(s, c, frame, a)
<1>1. a.registry = d.registry /\ a.failure = d.failure /\ a.uploads = s.uploads  BY DEF Answer
<1>2. d.failure \in Failure  BY DEF MildDecision
<1>3. s \in Server /\ ServerOK(s, reports) /\ (Steady => ReadingsOK(s, b))  BY DEF Asked, ServerOK
<1>4. SameUploads(s.uploads, a.uploads)  BY <1>1, <1>3, UploadsStay
<1>5. Served(s, reports, b, a) /\ Mild(s.registry, a.registry)  BY <1>1, <1>2, <1>3, <1>4, MildServed
<1>6. Publishes(s.registry, a.registry, written)  BY <1>5 DEF Mild, Publishes
<1>7. Observes(s, c, frame, a)  BY <1>1 DEF Observes, ObservationOp
<1> QED  BY <1>1, <1>5, <1>6, <1>7 DEF Applied

LEMMA ApplyRequest ==
  ASSUME NEW s, NEW c, NEW frame, NEW reports, NEW b, Asked(s, c, frame, reports, b), NEW written,
         NEW a, a = apply_request(s, c, frame, written)
  PROVE  Applied(s, c, frame, reports, b, written, a) /\ Observes(s, c, frame, a)
<1> DEFINE r == s.registry
           t == frame.transaction
<1>1. /\ ServerOK(s, reports) /\ (Steady => ReadingsOK(s, b)) /\ c \in DOMAIN r.peers
      /\ (c = r.authority => b.link = c) /\ frame \in Frame /\ s \in Server /\ r \in Registry /\ RegistryOK(r)
      /\ frame.op = "observation_begin" => BeginsTruly(s, c, frame, reports, b)
  BY ServerFields DEF Asked, ServerOK
<1>2. /\ frame.op \in RequestOp /\ t \in Nat /\ frame.base \in Nat /\ frame.png \in Image
      /\ frame.bytes \in {"none", "whole", "other"}
  BY <1>1 DEF Frame
<1>3. CASE frame.op = "begin"
  <2> DEFINE d == begin(r, c, frame.base)
  <2>1. a = Answer(s, d)  BY <1>3 DEF apply_request
  <2>2. MildDecision(r, d)  BY <1>1, <1>2, BeginMild
  <2> HIDE DEF d
  <2> QED  BY <1>3, <2>1, <2>2, MildApplied DEF ObservationOp
<1>4. CASE frame.op = "offer"
  <2> DEFINE d == offer(r, c, t, frame.png)
  <2>1. a = Answer(s, d)  BY <1>4 DEF apply_request
  <2>2. MildDecision(r, d)  BY <1>1, <1>2, OfferMild
  <2> HIDE DEF d
  <2> QED  BY <1>4, <2>1, <2>2, MildApplied DEF ObservationOp
<1>5. CASE frame.op = "chunk"
  <2> DEFINE d == append(r, c, t, frame.bytes)
  <2>1. a = Answer(s, d)  BY <1>5 DEF apply_request
  <2>2. MildDecision(r, d)  BY <1>1, <1>2, AppendMild
  <2> HIDE DEF d
  <2> QED  BY <1>5, <2>1, <2>2, MildApplied DEF ObservationOp
<1>6. CASE frame.op = "seal"
  <2> DEFINE d == seal(r, c, t)
  <2>1. a = Answer(s, d)  BY <1>6 DEF apply_request
  <2>2. /\ MildDecision(r, d)
        /\ d.failure = "none" => t \in DOMAIN d.registry.transactions /\ Fixed(d.registry.transactions[t])
    BY <1>1, SealMild
  <2> HIDE DEF d
  <2> QED  BY <1>6, <2>1, <2>2, MildApplied DEF ObservationOp
<1>7. CASE frame.op = "cancel"
  <2> DEFINE d == cancel(r, c, t)
  <2>1. a = Answer(s, d)  BY <1>7 DEF apply_request
  <2>2. MildDecision(r, d)  BY <1>1, CancelMild
  <2> HIDE DEF d
  <2> QED  BY <1>7, <2>1, <2>2, MildApplied DEF ObservationOp
<1>8. CASE frame.op = "dependency_failure"
  <2> DEFINE d == dependency_failure(r, c, t)
  <2>1. a = Answer(s, d)  BY <1>8 DEF apply_request
  <2>2. MildDecision(r, d)  BY <1>1, DependencyFailureMild
  <2> HIDE DEF d
  <2> QED  BY <1>8, <2>1, <2>2, MildApplied DEF ObservationOp
<1>9. CASE frame.op = "dependencies"
  <2> DEFINE admission == observation_admission(r, c, t)
             d == IF admission.failure = "none" /\ ~proposed(r, t) THEN failure(r, "not_ready") ELSE admission
  <2>1. a = Answer(s, d)  BY <1>9 DEF apply_request
  <2>2. MildDecision(r, admission)  BY <1>1, AdmissionMild
  <2>3. MildDecision(r, failure(r, "not_ready"))
    <3>1. Refused(r, failure(r, "not_ready"))  BY Refuses DEF Failure
    <3> QED  BY <3>1, <1>1, RefusedMild
  <2> HIDE DEF admission
  <2>4. MildDecision(r, d)  BY <2>2, <2>3
  <2> HIDE DEF d
  <2> QED  BY <1>9, <2>1, <2>4, MildApplied DEF ObservationOp
<1>10. CASE frame.op = "fetch"
  <2> DEFINE d == candidate(r, c, t)
  <2>1. a = Answer(s, d)  BY <1>10 DEF apply_request
  <2>2. /\ MildDecision(r, d)
        /\ d.failure = "none" => t \in DOMAIN d.registry.transactions /\ Fixed(d.registry.transactions[t])
    BY <1>1, CandidateMild
  <2> HIDE DEF d
  <2> QED  BY <1>10, <2>1, <2>2, MildApplied DEF ObservationOp
<1>11. CASE frame.op = "observation_begin"
  <2>1. a = begin_observation(s, c, frame)  BY <1>11 DEF apply_request
  <2>2. ObservationBegun(s, c, frame, reports, b, a)
    BY <1>1, <1>11, <2>1, BeginObservationServed
  <2>3. Publishes(r, a.registry, written)  BY <2>2 DEF Mild, Publishes, ObservationBegun
  <2>4. Observes(s, c, frame, a)  BY <1>11, <2>2 DEF Observes, ObservationOp, ObservationBegun
  <2> QED  BY <1>11, <2>2, <2>3, <2>4 DEF Applied, ObservationBegun
<1>12. CASE frame.op = "observation_chunk"
  <2>1. a = append_observation(s, c, frame)  BY <1>12 DEF apply_request
  <2>2. ObservationAppended(s, c, frame, reports, b, a)
    BY <1>1, <2>1, AppendObservationServed
  <2>3. Publishes(r, a.registry, written)  BY <2>2 DEF Mild, Publishes, ObservationAppended
  <2>4. Observes(s, c, frame, a)  BY <1>12, <2>2 DEF Observes, ObservationOp, ObservationAppended
  <2> QED  BY <1>12, <2>2, <2>3, <2>4 DEF Applied, ObservationAppended
<1>13. CASE frame.op = "observation_end"
  <2>1. a = end_observation(s, c, frame)  BY <1>13 DEF apply_request
  <2>2. ObservationEnded(s, c, frame, reports, b, a)
    BY <1>1, <2>1, EndObservationServed
  <2>3. Publishes(r, a.registry, written)  BY <2>2 DEF Publishes, ObservationEnded
  <2>4. Observes(s, c, frame, a)  BY <1>13, <2>2 DEF Observes, ObservationOp, ObservationEnded
  <2> QED  BY <1>13, <2>2, <2>3, <2>4 DEF Applied, ObservationEnded
<1>14. CASE frame.op = "commit"
  <2> DEFINE k == commit(r, c, t, written)
  <2>1. a = Answer(s, k)  BY <1>14 DEF apply_request
  <2>2. a = [failure |-> k.failure, uploads |-> s.uploads, registry |-> k.registry]  BY <2>1 DEF Answer
  <2>3. Served(s, reports, b, a) /\ Publishes(r, a.registry, written)  BY <1>1, <2>2, CommitServed
  <2>4. Observes(s, c, frame, a)  BY <1>14, <2>2 DEF Observes, ObservationOp
  <2> QED  BY <1>14, <2>3, <2>4 DEF Applied
<1> QED  BY <1>2, <1>3, <1>4, <1>5, <1>6, <1>7, <1>8, <1>9, <1>10, <1>11, <1>12, <1>13, <1>14 DEF RequestOp

\* A message that says what the registry says.
Told(m, r) == m \in Heard /\ MessageOK(m, r)

LEMMA MessageTold ==
  ASSUME NEW r \in Registry, NEW t \in Nat, t <= r.next, NEW kind \in {"event", "response"},
         NEW op \in RequestOp \cup EventOp, NEW reason \in Failure,
         /\ t \in DOMAIN r.transactions
         /\ op \in {"validate_event", "load_event"} \/ (op = "fetch" /\ reason = "none")
         => Fixed(r.transactions[t])
  PROVE  Told(Message(kind, op, reason, r, t), r)
<1> DEFINE known == t \in DOMAIN r.transactions
           png == IF known THEN r.transactions[t].png ELSE NoPNG
           properties == IF known THEN r.transactions[t].properties ELSE NoProperties
           m == Message(kind, op, reason, r, t)
<1>1. png \in Image /\ properties \in Reading
  <2>1. known => r.transactions[t] \in Draft  BY RegistryFields
  <2> QED  BY <2>1 DEF Draft, Image, Reading
<1>2. m = [kind |-> kind, op |-> op, failure |-> reason, transaction |-> t, png |-> png, properties |-> properties]
  BY DEF Message
<1>3. known => png = r.transactions[t].png /\ properties = r.transactions[t].properties  OBVIOUS
<1> HIDE DEF m, png, properties
<1>4. /\ m \in Heard /\ m.op = op /\ m.failure = reason /\ m.transaction = t /\ m.png = png
      /\ m.properties = properties
  BY <1>1, <1>2 DEF Heard
<1>5. MessageOK(m, r)  BY <1>3, <1>4 DEF MessageOK
<1> QED  BY <1>4, <1>5 DEF Told, m

\* Every event heard of a request.
AnnouncedAs(x, r, frame) ==
  \E p : \E op \in EventOp :
    /\ x = <<p, Event(op, r, frame.transaction)>>
    /\ op = "validate_event" => frame.op = "seal"
    /\ op = "load_event" => proposed(r, frame.transaction)

LEMMA AnnouncedCases ==
  ASSUME NEW s, NEW c, NEW frame, NEW x \in Announced(s, c, frame)
  PROVE  AnnouncedAs(x, s.registry, frame)
<1> DEFINE r == s.registry
           t == frame.transaction
           authorities == {p \in DOMAIN r.peers : r.peers[p] = 0}
           To(peers, op) == {<<p, Event(op, r, t)>> : p \in peers}
<1>1. ASSUME NEW peers, NEW op \in EventOp, op = "validate_event" => frame.op = "seal",
             op = "load_event" => proposed(r, t), x \in To(peers, op)
      PROVE  AnnouncedAs(x, r, frame)
  BY <1>1 DEF AnnouncedAs
<1>2. /\ "validate_event" \in EventOp /\ "load_event" \in EventOp /\ "dependency_event" \in EventOp
      /\ "published_event" \in EventOp /\ "cancelled_event" \in EventOp
  BY DEF EventOp
<1>3. CASE frame.op = "seal"
  <2>1. x \in To(authorities, "validate_event")  BY <1>3 DEF Announced
  <2> HIDE DEF To, r
  <2> QED  BY <1>1, <1>2, <1>3, <2>1 DEF r
<1>4. CASE frame.op = "observation_end"
  <2>1. CASE c \in authorities /\ proposed(r, t)
    <3>1. x \in To(DOMAIN r.peers \ authorities, "load_event")  BY <1>4, <2>1 DEF Announced
    <3> HIDE DEF To, r, authorities
    <3> QED  BY <1>1, <1>2, <2>1, <3>1 DEF r
  <2>2. CASE ~(c \in authorities /\ proposed(r, t))
    BY <1>4, <2>2 DEF Announced
  <2> QED  BY <2>1, <2>2
<1>5. CASE frame.op = "dependency_failure"
  <2> DEFINE owners == {p \in DOMAIN r.peers : r.peers[p] = r.transactions[t].player}
  <2>1. x \in To(owners, "dependency_event")  BY <1>5 DEF Announced
  <2> HIDE DEF To, r, owners
  <2> QED  BY <1>1, <1>2, <2>1 DEF r
<1>6. CASE frame.op = "commit"
  <2>1. x \in To(DOMAIN r.peers, "published_event")  BY <1>6 DEF Announced
  <2> HIDE DEF To, r
  <2> QED  BY <1>1, <1>2, <2>1 DEF r
<1>7. CASE frame.op = "cancel"
  <2>1. x \in To(DOMAIN r.peers, "cancelled_event")  BY <1>7 DEF Announced
  <2> HIDE DEF To, r
  <2> QED  BY <1>1, <1>2, <2>1 DEF r
<1>8. CASE frame.op \notin {"seal", "observation_end", "dependency_failure", "commit", "cancel"}
  BY <1>8 DEF Announced
<1> QED  BY <1>3, <1>4, <1>5, <1>6, <1>7, <1>8

LEMMA AnnouncedTold ==
  ASSUME NEW s, s.registry \in Registry, DraftsOK(s.registry), NEW c, NEW frame,
         frame.transaction \in Nat, frame.transaction <= s.registry.next,
         /\ frame.op = "seal" /\ frame.transaction \in DOMAIN s.registry.transactions
         => Fixed(s.registry.transactions[frame.transaction])
  PROVE  \A x \in Announced(s, c, frame) : Told(x[2], s.registry)
<1> DEFINE r == s.registry
           t == frame.transaction
<1>1. "none" \in Failure /\ EventOp \subseteq RequestOp \cup EventOp /\ "event" \in {"event", "response"}
  BY NoFailure
<1>2. ASSUME NEW op \in EventOp, op \in {"validate_event", "load_event"} /\ t \in DOMAIN r.transactions =>
                                   Fixed(r.transactions[t])
      PROVE  Told(Event(op, r, t), r)
  <2>1. op \in RequestOp \cup EventOp /\ op # "fetch"  BY DEF EventOp
  <2> QED  BY <1>1, <1>2, <2>1, MessageTold DEF Event
<1>3. proposed(r, t) => Fixed(r.transactions[t])  BY DEF proposed, Fixed
<1>4. ASSUME NEW x \in Announced(s, c, frame)
      PROVE  Told(x[2], r)
  <2>1. AnnouncedAs(x, r, frame)  BY AnnouncedCases
  <2>2. PICK p : \E op \in EventOp : /\ x = <<p, Event(op, r, t)>>
                                     /\ op = "validate_event" => frame.op = "seal"
                                     /\ op = "load_event" => proposed(r, t)
    BY <2>1 DEF AnnouncedAs
  <2>3. PICK op \in EventOp : /\ x = <<p, Event(op, r, t)>>
                              /\ op = "validate_event" => frame.op = "seal"
                              /\ op = "load_event" => proposed(r, t)
    BY <2>2
  <2>4. op \in {"validate_event", "load_event"} /\ t \in DOMAIN r.transactions => Fixed(r.transactions[t])
    BY <2>3, <1>3
  <2>5. x[2] = Event(op, r, t)  BY <2>3
  <2> QED  BY <1>2, <2>4, <2>5
<1> QED  BY <1>4

\* What a bridge or a tool may rely on of a request's outcome.
Received(s, reports, b, written, result) ==
  LET q == result.server.registry
  IN  /\ ServerOK(result.server, reports) /\ (Steady => ReadingsOK(result.server, b))
      /\ Contract(s.registry, q) /\ Publishes(s.registry, q, written) /\ result.failure \in Failure
      /\ Told(result.reply, q) /\ \A x \in result.told : Told(x[2], q)

\* An observation's three requests, each after the one before.
ObservedSteps(s, c, frame, result) ==
  LET v == result.server.uploads
      t == frame.transaction
  IN  /\ \A d \in DOMAIN s.uploads : d # c \/ frame.op \notin ObservationOp => SameUpload(s.uploads[d], v[d])
      /\ frame.op \in {"observation_begin", "observation_chunk"}
         \/ (frame.op = "observation_end" /\ result.failure # "none") => Mild(s.registry, result.server.registry)
      /\ frame.op = "observation_begin" /\ s.uploads[c].transaction = 0 =>
           v[c].transaction = 0 \/ (v[c].transaction = t /\ ~v[c].whole)
      /\ /\ frame.op = "observation_chunk"
         /\ s.uploads[c].transaction = 0 \/ (s.uploads[c].transaction = t /\ ~s.uploads[c].whole)
         => v[c].transaction = 0 \/ (v[c].transaction = t /\ v[c].whole)
      /\ /\ frame.op = "observation_end"
         /\ s.uploads[c].transaction = 0 \/ (s.uploads[c].transaction = t /\ s.uploads[c].whole)
         => v[c].transaction = 0

LEMMA ClosedUploads ==
  ASSUME NEW u \in PartialFunction(Nat, Upload), NEW a, a.uploads = u, NEW frame
  PROVE  /\ SameUploads(u, Closed(a, frame))
         /\ frame.op \in ObservationOp => Closed(a, frame) = u
<1>1. /\ DOMAIN u \in SUBSET Nat /\ \A c \in DOMAIN u : u[c] \in Upload  BY FunctionType
<1> DEFINE f == [c \in DOMAIN u |-> IF u[c].transaction = frame.transaction THEN NoUpload ELSE u[c]]
<1>2. f \in PartialFunction(Nat, Upload)
  <2>1. f \in [DOMAIN u -> Upload]  BY <1>1, NoUploadType
  <2> QED  BY <2>1, <1>1 DEF PartialFunction
<1>3. SameUploads(u, f)
  <2>1. \A c \in DOMAIN u : SameUpload(u[c], f[c])  BY NoUploadType DEF SameUpload
  <2> QED  BY <1>2, <2>1 DEF SameUploads
<1>4. SameUploads(u, u)  BY DEF SameUploads, SameUpload
<1>5. Closed(a, frame) \in {u, f}  BY DEF Closed
<1>6. frame.op \in ObservationOp => Closed(a, frame) = u
  BY DEF Closed, ObservationOp
<1> HIDE DEF f
<1> QED  BY <1>3, <1>4, <1>5, <1>6

LEMMA ReceiveServes ==
  ASSUME NEW s, NEW c, NEW frame, NEW reports, NEW b, Asked(s, c, frame, reports, b), NEW written,
         NEW result, result = receive(s, c, frame, written)
  PROVE  Received(s, reports, b, written, result) /\ ObservedSteps(s, c, frame, result)
<1> DEFINE r == s.registry
           t == frame.transaction
           s1 == drop_unadmitted_observations(s)
           a == apply_request(s1, c, frame, written)
           left == [registry |-> a.registry, uploads |-> Closed(a, frame)]
           q == a.registry
<1>1. /\ ServerOK(s, reports) /\ (Steady => ReadingsOK(s, b)) /\ c \in DOMAIN r.peers
      /\ (c = r.authority => b.link = c) /\ frame \in Frame /\ t <= r.next
      /\ frame.op = "observation_begin" => BeginsTruly(s, c, frame, reports, b)
  BY DEF Asked
<1>2. /\ s \in Server /\ r \in Registry /\ RegistryOK(r) /\ t \in Nat /\ frame.op \in RequestOp
      /\ DOMAIN s.uploads = DOMAIN r.peers
  BY <1>1, ServerFields DEF ServerOK, Frame, UploadsOK
<1>3. /\ s1 = [registry |-> s1.registry, uploads |-> s1.uploads]
      /\ Contract(r, s1.registry) /\ Mild(r, s1.registry)
      /\ SameUploads(s.uploads, s1.uploads)
      /\ DOMAIN s1.registry.transactions \subseteq DOMAIN r.transactions
      /\ \A u \in DOMAIN s1.registry.transactions : s1.registry.transactions[u] = r.transactions[u]
      /\ \A d \in DOMAIN s.uploads : s1.uploads[d] \in {s.uploads[d], NoUpload}
  BY <1>1, DropUnadmitted
<1> HIDE DEF s1
<1>4. ServerOK(s1, reports) /\ (Steady => ReadingsOK(s1, b))
  <2>1. ServerOK(s1, reports) /\ \A x : ReadingsOK(s, x) => ReadingsOK(s1, x)
    BY <1>1, <1>3, MildServer
  <2> QED  BY <1>1, <2>1
<1>5. /\ s1.registry.peers = r.peers /\ s1.registry.authority = r.authority
      /\ s1.registry \in Registry /\ s1.registry.next >= r.next /\ s1.registry.next \in Nat /\ r.next \in Nat
      /\ Moves(r, s1.registry) /\ RegistryOK(s1.registry)
  BY <1>2, <1>3, RegistryFields DEF Contract, Moves
<1>6. Asked(s1, c, frame, reports, b)
  <2>1. t <= s1.registry.next  BY <1>1, <1>2, <1>5
  <2> QED  BY <1>1, <1>4, <1>5, <2>1 DEF Asked, BeginsTruly
<1>7. Applied(s1, c, frame, reports, b, written, a) /\ Observes(s1, c, frame, a)
  BY <1>6, ApplyRequest
<1>8. result = [server |-> left, failure |-> a.failure,
                reply |-> Message("response", frame.op, a.failure, left.registry, t),
                told |-> IF a.failure = "none" THEN Announced(left, c, frame) ELSE {}]
  BY DEF receive, s1
<1> HIDE DEF a
<1>9. /\ Served(s1, reports, b, a) /\ Publishes(s1.registry, q, written)
      /\ /\ a.failure = "none" /\ frame.op \in {"seal", "fetch"} /\ t \in DOMAIN q.transactions
         => Fixed(q.transactions[t])
  BY <1>7 DEF Applied
<1> DEFINE mid == [registry |-> q, uploads |-> a.uploads]
<1>10. /\ ServerOK(mid, reports) /\ (Steady => ReadingsOK(mid, b)) /\ Contract(s1.registry, q)
       /\ a.failure \in Failure
  BY <1>9 DEF Served
<1>11. /\ mid \in Server /\ mid.registry = q /\ mid.uploads = a.uploads /\ q \in Registry /\ RegistryOK(q)
       /\ a.uploads \in PartialFunction(Nat, Upload)
  <2>1. mid \in Server  BY <1>10 DEF ServerOK
  <2> QED  BY <2>1, <1>10, ServerFields DEF ServerOK
<1>12. /\ SameUploads(a.uploads, Closed(a, frame))
       /\ frame.op \in ObservationOp => Closed(a, frame) = a.uploads
  BY <1>11, ClosedUploads
<1>13. ServerOK(left, reports) /\ (Steady => ReadingsOK(left, b))
  <2>1. Contract(q, q) /\ Mild(q, q)  BY <1>11, ContractStays
  <2>2. ServerOK(left, reports) /\ \A x : ReadingsOK(mid, x) => ReadingsOK(left, x)
    <3> HIDE DEF mid
    <3>1. Contract(mid.registry, q) /\ Mild(mid.registry, q) /\ SameUploads(mid.uploads, Closed(a, frame))
      BY <2>1, <1>11, <1>12
    <3> QED  BY <1>10, <3>1, MildServer
  <2> QED  BY <1>10, <2>2
<1>14. Contract(r, q)  BY <1>2, <1>3, <1>10, ContractTransitive
<1>15. Publishes(r, q, written)
  <2>1. CASE q.versions = s1.registry.versions  BY <2>1, <1>3 DEF Publishes, Mild
  <2>2. ASSUME NEW u \in DOMAIN s1.registry.transactions, written,
               q.versions = s1.registry.versions \cup {manifest(s1.registry.transactions[u])},
               DOMAIN s1.registry.peers \subseteq s1.registry.transactions[u].mappings
        PROVE  Publishes(r, q, written)
    <3>1. s1.registry.versions = r.versions  BY <1>3 DEF Mild
    <3>2. u \in DOMAIN r.transactions /\ s1.registry.transactions[u] = r.transactions[u]  BY <1>3
    <3>3. s1.registry.peers = r.peers  BY <1>5
    <3> QED  BY <2>2, <3>1, <3>2, <3>3 DEF Publishes
  <2> QED  BY <1>9, <2>1, <2>2 DEF Publishes
<1>16. left.registry = q /\ left.uploads = Closed(a, frame)  OBVIOUS
<1>17. t <= q.next
  <2>1. q.next >= r.next /\ q.next \in Nat  BY <1>14, <1>11, RegistryFields DEF Contract, Moves
  <2> QED  BY <2>1, <1>1, <1>2, <1>5
<1>18. Told(Message("response", frame.op, a.failure, q, t), q)
  <2>1. frame.op \in RequestOp \cup EventOp /\ frame.op \notin {"validate_event", "load_event"}
    BY <1>2 DEF RequestOp
  <2> QED  BY <1>2, <1>9, <1>10, <1>11, <1>17, <2>1, MessageTold
<1>19. a.failure = "none" => \A x \in Announced(left, c, frame) : Told(x[2], q)
  <2> HIDE DEF left, q
  <2> QED  BY <1>2, <1>9, <1>11, <1>16, <1>17, AnnouncedTold DEF RegistryOK
<1>20. Received(s, reports, b, written, result)
  <2>1. /\ result.server = left /\ result.failure = a.failure
        /\ result.reply = Message("response", frame.op, a.failure, q, t)
        /\ result.told = IF a.failure = "none" THEN Announced(left, c, frame) ELSE {}
    BY <1>8
  <2> HIDE DEF left, q
  <2>2. \A x \in result.told : Told(x[2], q)  BY <2>1, <1>19
  <2> QED  BY <2>1, <2>2, <1>10, <1>13, <1>14, <1>15, <1>16, <1>18 DEF Received
<1>21. ObservedSteps(s, c, frame, result)
  <2>1. result.server.registry = q /\ result.server.uploads = Closed(a, frame) /\ result.failure = a.failure
    BY <1>8
  <2> DEFINE v == Closed(a, frame)
             w == s1.uploads
  <2>2. w[c] \in {s.uploads[c], NoUpload} /\ NoUpload.transaction = 0 /\ DOMAIN w = DOMAIN s.uploads
    BY <1>1, <1>2, <1>3, NoUploadType DEF SameUploads
  <2>3. Mild(s1.registry, q) => Mild(r, q)  BY <1>3, MildTransitive
  <2>4. Observes(s1, c, frame, a)  BY <1>7
  <2>5. frame.op \in ObservationOp => v = a.uploads  BY <1>12
  <2>6. ASSUME NEW d \in DOMAIN s.uploads, d # c \/ frame.op \notin ObservationOp
        PROVE  SameUpload(s.uploads[d], v[d])
    <3>1. a.uploads[d] = w[d] /\ d \in DOMAIN a.uploads
      <4>1. a.uploads[d] = w[d]  BY <2>2, <2>4, <2>6 DEF Observes
      <4>2. DOMAIN a.uploads = DOMAIN s.uploads
        <5>1. DOMAIN a.uploads = DOMAIN q.peers  BY <1>10, <1>11 DEF ServerOK, UploadsOK
        <5>2. q.peers = r.peers  BY <1>14 DEF Contract
        <5> QED  BY <5>1, <5>2, <1>2
      <4> QED  BY <4>1, <4>2
    <3>2. SameUpload(s.uploads[d], w[d])  BY <1>3, <2>6 DEF SameUploads
    <3>3. SameUpload(a.uploads[d], v[d])  BY <1>12, <3>1 DEF SameUploads
    <3> HIDE DEF v, w
    <3> QED  BY <3>1, <3>2, <3>3 DEF SameUpload
  <2>7. \/ frame.op \in {"observation_begin", "observation_chunk"}
        \/ frame.op = "observation_end" /\ a.failure # "none"
        => Mild(r, q)
    BY <2>3, <2>4 DEF Observes
  <2> HIDE DEF v, q
  <2>8. frame.op = "observation_begin" /\ s.uploads[c].transaction = 0 =>
          v[c].transaction = 0 \/ (v[c].transaction = t /\ ~v[c].whole)
    BY <2>2, <2>4, <2>5 DEF Observes, ObservationOp
  <2>9. /\ frame.op = "observation_chunk"
        /\ s.uploads[c].transaction = 0 \/ (s.uploads[c].transaction = t /\ ~s.uploads[c].whole)
        => v[c].transaction = 0 \/ (v[c].transaction = t /\ v[c].whole)
    <3>1. w[c] \in Upload  BY <1>1, <1>2, <1>4, ServerFields, <2>2 DEF ServerOK
    <3>2. [w[c] EXCEPT !.whole = TRUE].transaction = w[c].transaction /\ [w[c] EXCEPT !.whole = TRUE].whole
      BY <3>1 DEF Upload
    <3> QED  BY <2>2, <2>4, <2>5, <3>2 DEF Observes, ObservationOp
  <2>10. /\ frame.op = "observation_end"
         /\ s.uploads[c].transaction = 0 \/ (s.uploads[c].transaction = t /\ s.uploads[c].whole)
         => v[c].transaction = 0
    BY <2>2, <2>4, <2>5 DEF Observes, ObservationOp
  <2> QED  BY <2>1, <2>6, <2>7, <2>8, <2>9, <2>10 DEF ObservedSteps, v
<1> QED  BY <1>20, <1>21

-----------------------------------------------------------------------------
(* What is kept of the reports.                                            *)

KeptFor(r, reports) ==
  {l \in reports : /\ l[1] \in DOMAIN r.peers
                   /\ \E t \in DOMAIN r.transactions : r.transactions[t].png = l[2]}

\* What the registry relies on is a live connection's report of a draft's image.
LEMMA KeptReports ==
  ASSUME NEW s, NEW reports, ServerOK(s, reports)
  PROVE  ServerOK(s, KeptFor(s.registry, reports))
<1> DEFINE r == s.registry
           kept == KeptFor(r, reports)
<1>1. /\ DraftsOK(r) /\ UploadsOK(s, reports) /\ MappingsOK(r, reports)  BY DEF ServerOK, RegistryOK
<1>2. ASSUME NEW c \in DOMAIN r.peers, NEW t \in DOMAIN r.transactions, NEW properties,
             <<c, r.transactions[t].png, properties>> \in reports
      PROVE  <<c, r.transactions[t].png, properties>> \in kept
  <2> DEFINE l == <<c, r.transactions[t].png, properties>>
  <2>1. l[1] = c /\ l[2] = r.transactions[t].png  OBVIOUS
  <2> HIDE DEF l, r
  <2>2. l \in kept  BY <1>2, <2>1 DEF KeptFor, l
  <2> QED  BY <2>2 DEF l
<1> HIDE DEF kept
<1>3. UploadsOK(s, kept)
  <2> SUFFICES ASSUME NEW c \in DOMAIN s.uploads, s.uploads[c].transaction \in DOMAIN r.transactions,
                      s.uploads[c].png = r.transactions[s.uploads[c].transaction].png
               PROVE  <<c, s.uploads[c].png, s.uploads[c].properties>> \in kept
    BY <1>1 DEF UploadsOK
  <2> DEFINE t == s.uploads[c].transaction
             draft == r.transactions[t]
  <2>1. c \in DOMAIN r.peers /\ <<c, s.uploads[c].png, s.uploads[c].properties>> \in reports
    BY <1>1 DEF UploadsOK
  <2>2. s.uploads[c].png = draft.png  OBVIOUS
  <2> QED  BY <1>2, <2>1, <2>2
<1>4. MappingsOK(r, kept)
  <2>1. ASSUME NEW t \in DOMAIN r.transactions, NEW c \in r.transactions[t].mappings
        PROVE  <<c, r.transactions[t].png, r.transactions[t].properties>> \in kept
    <3>1. c \in DOMAIN r.peers  BY <1>1 DEF DraftsOK
    <3>2. <<c, r.transactions[t].png, r.transactions[t].properties>> \in reports  BY <1>1 DEF MappingsOK
    <3> QED  BY <1>2, <3>1, <3>2
  <2> QED  BY <2>1 DEF MappingsOK
<1> QED  BY <1>3, <1>4 DEF ServerOK, kept

\* More reports do no harm.
LEMMA MoreReports ==
  ASSUME NEW s, NEW reports, ServerOK(s, reports), NEW more, reports \subseteq more
  PROVE  ServerOK(s, more)
<1>1. UploadsOK(s, more)
  <2>1. UploadsOK(s, reports)  BY DEF ServerOK
  <2> QED  BY <2>1 DEF UploadsOK
<1>2. MappingsOK(s.registry, more)
  <2>1. MappingsOK(s.registry, reports)  BY DEF ServerOK
  <2> QED  BY <2>1 DEF MappingsOK
<1> QED  BY <1>1, <1>2 DEF ServerOK

-----------------------------------------------------------------------------
(* What was said of a draft stays true of it for as long as it is there.   *)

LEMMA MessageMoves ==
  ASSUME NEW r \in Registry, NEW q \in Registry, Moves(r, q), DraftsOK(r), NEW m \in Heard, MessageOK(m, r)
  PROVE  MessageOK(m, q)
<1>1. /\ m.transaction \in Nat /\ m.properties \in Reading /\ r.next \in Nat /\ q.next \in Nat
      /\ q.next >= r.next /\ m.transaction <= r.next
  BY RegistryFields DEF Heard, Moves, MessageOK
<1>2. SUFFICES ASSUME m.transaction \in DOMAIN q.transactions,
                      \/ m.op \in {"validate_event", "load_event"}
                      \/ m.op = "fetch" /\ m.failure = "none"
               PROVE  /\ Fixed(q.transactions[m.transaction]) /\ m.png = q.transactions[m.transaction].png
                      /\ m.properties \in {NoProperties, q.transactions[m.transaction].properties}
  BY <1>1 DEF MessageOK
<1> DEFINE t == m.transaction
           d == r.transactions[t]
           e == q.transactions[t]
<1>3. t \in DOMAIN r.transactions /\ DraftStep(d, e)  BY <1>1, <1>2 DEF Moves
<1>4. Fixed(d) /\ m.png = d.png /\ m.properties \in {NoProperties, d.properties}  BY <1>2, <1>3 DEF MessageOK
<1>5. d.phase # "validated" => d.properties = NoProperties  BY <1>3 DEF DraftsOK
<1> HIDE DEF d, e
<1>6. Fixed(e) /\ e.png = d.png /\ (d.phase = "validated" => e.properties = d.properties)
  BY <1>3, <1>4 DEF DraftStep
<1> QED  BY <1>4, <1>5, <1>6 DEF d, e

LEMMA JobMoves ==
  ASSUME NEW r \in Registry, NEW q \in Registry, Moves(r, q), DraftsOK(r), NEW t \in Nat, NEW job, JobOK(job, t, r)
  PROVE  JobOK(job, t, q)
<1>1. /\ r.next \in Nat /\ q.next \in Nat /\ q.next >= r.next /\ t <= r.next
  BY RegistryFields DEF Moves, JobOK
<1>2. SUFFICES ASSUME t \in DOMAIN q.transactions
               PROVE  /\ Fixed(q.transactions[t])
                      /\ {job.expected, job.png} \subseteq {NoPNG, q.transactions[t].png}
                      /\ job.announced \in {NoProperties, q.transactions[t].properties}
  BY <1>1 DEF JobOK
<1> DEFINE d == r.transactions[t]
           e == q.transactions[t]
<1>3. t \in DOMAIN r.transactions /\ DraftStep(d, e)  BY <1>1, <1>2 DEF Moves
<1>4. Fixed(d) /\ {job.expected, job.png} \subseteq {NoPNG, d.png} /\ job.announced \in {NoProperties, d.properties}
  BY <1>2, <1>3 DEF JobOK
<1>5. d.phase # "validated" => d.properties = NoProperties  BY <1>3 DEF DraftsOK
<1> HIDE DEF d, e
<1>6. Fixed(e) /\ e.png = d.png /\ (d.phase = "validated" => e.properties = d.properties)
  BY <1>3, <1>4 DEF DraftStep
<1> QED  BY <1>4, <1>5, <1>6 DEF d, e

LEMMA BridgeFields ==
  ASSUME NEW b \in Bridge
  PROVE  /\ b.link \in Int /\ b.jobs \in PartialFunction(Nat, Job) /\ b.asked \in PartialFunction(Nat, RequestOp)
         /\ b.inbox \in Seq(Heard) /\ b.outbox \in Seq(Frame) /\ b.imported \in SUBSET Image
         /\ b.staged \in SUBSET Image /\ b.approved \in BOOLEAN /\ b.reads \in Properties
         /\ DOMAIN b.jobs \in SUBSET Nat /\ \A t \in DOMAIN b.jobs : b.jobs[t] \in Job
<1>1. /\ b.link \in Int /\ b.jobs \in PartialFunction(Nat, Job) /\ b.asked \in PartialFunction(Nat, RequestOp)
      /\ b.inbox \in Seq(Heard) /\ b.outbox \in Seq(Frame) /\ b.imported \in SUBSET Image
      /\ b.staged \in SUBSET Image /\ b.approved \in BOOLEAN /\ b.reads \in Properties
  BY DEF Bridge
<1> QED  BY <1>1, FunctionType

LEMMA TalkMoves ==
  ASSUME NEW r \in Registry, NEW q \in Registry, Moves(r, q), DraftsOK(r), NEW b \in Bridge, TalkOK(b, r)
  PROVE  TalkOK(b, q)
<1>1. b.inbox \in Seq(Heard) /\ DOMAIN b.jobs \in SUBSET Nat  BY BridgeFields
<1>2. \A i \in 1..Len(b.inbox) : b.inbox[i] \in Heard /\ MessageOK(b.inbox[i], r)  BY <1>1 DEF TalkOK
<1>3. \A i \in 1..Len(b.inbox) : MessageOK(b.inbox[i], q)  BY <1>2, MessageMoves
<1>4. \A t \in DOMAIN b.jobs : JobOK(b.jobs[t], t, q)  BY <1>1, JobMoves DEF TalkOK
<1> QED  BY <1>3, <1>4 DEF TalkOK

\* A registry may also forget connections.
LEMMA BridgeMoves ==
  ASSUME NEW r \in Registry, NEW q \in Registry, Moves(r, q), DraftsOK(r),
         DOMAIN q.peers \subseteq DOMAIN r.peers, \A c \in DOMAIN q.peers : q.peers[c] = r.peers[c],
         NEW p, NEW b \in Bridge, BridgeOK(p, b, r)
  PROVE  BridgeOK(p, b, q)
<1>1. b.link \in DOMAIN q.peers => q.peers[b.link] = p /\ TalkOK(b, q)
  BY TalkMoves DEF BridgeOK
<1> QED  BY <1>1 DEF BridgeOK

LEMMA ToldMore ==
  ASSUME NEW x \in Seq(Heard), NEW r, NEW more, more = <<>> \/ \E m : Told(m, r) /\ more = <<m>>
  PROVE  /\ x \o more \in Seq(Heard)
         /\ (\A i \in 1..Len(x) : MessageOK(x[i], r)) =>
              \A i \in 1..Len(x \o more) : MessageOK((x \o more)[i], r)
<1>1. CASE more = <<>>
  <2>1. x \o more = x  BY <1>1
  <2> QED  BY <2>1
<1>2. ASSUME NEW m, Told(m, r), more = <<m>>
      PROVE  /\ x \o more \in Seq(Heard)
             /\ (\A i \in 1..Len(x) : MessageOK(x[i], r)) =>
                  \A i \in 1..Len(x \o more) : MessageOK((x \o more)[i], r)
  <2>1. m \in Heard /\ MessageOK(m, r)  BY <1>2 DEF Told
  <2>2. more \in Seq(Heard) /\ Len(more) = 1 /\ more[1] = m  BY <1>2, <2>1
  <2>3. /\ x \o more \in Seq(Heard) /\ Len(x \o more) = Len(x) + 1 /\ Len(x) \in Nat
        /\ \A i \in 1..Len(x) + 1 : (x \o more)[i] = IF i <= Len(x) THEN x[i] ELSE more[i - Len(x)]
    <3> HIDE <1>2
    <3>1. /\ x \o more \in Seq(Heard) /\ Len(x \o more) = Len(x) + Len(more)
          /\ \A i \in 1..Len(x) + Len(more) : (x \o more)[i] = IF i <= Len(x) THEN x[i] ELSE more[i - Len(x)]
      BY <2>2, ConcatProperties
    <3>2. Len(x) \in Nat  OBVIOUS
    <3> QED  BY <3>1, <3>2, <2>2
  <2>4. ASSUME NEW i \in 1..Len(x \o more)
        PROVE  (i \in 1..Len(x) /\ (x \o more)[i] = x[i]) \/ (x \o more)[i] = m
    <3>1. i \in 1..Len(x) \/ i = Len(x) + 1  BY <2>3
    <3> QED  BY <2>2, <2>3, <3>1
  <2> QED  BY <2>1, <2>3, <2>4
<1> QED  BY <1>1, <1>2

\* What a request's outcome has everyone hear is so.
Tells(result, r) == Told(result.reply, r) /\ \A x \in result.told : Told(x[2], r)

LEMMA DeliveredOK ==
  ASSUME NEW p, NEW b \in Bridge, NEW r, BridgeOK(p, b, r), NEW c,
         NEW result, Tells(result, r), NEW n, n = Delivered(b, c, result), 0 \notin DOMAIN r.peers
  PROVE  n \in Bridge /\ BridgeOK(p, n, r) /\ n.link = b.link /\ n.reads = b.reads
<1>1. CASE b.link \in {0, Ended}
  <2>1. n = b  BY <1>1 DEF Delivered
  <2> QED  BY <2>1
<1>2. CASE b.link \notin {0, Ended}
  <2> DEFINE replies == IF b.link = c THEN <<result.reply>> ELSE <<>>
             events == {told \in result.told : told[1] = b.link}
             others == IF events = {} THEN <<>> ELSE <<(CHOOSE e \in events : TRUE)[2]>>
             inbox == b.inbox \o replies \o others
  <2>1. n = [b EXCEPT !.inbox = inbox]  BY <1>2 DEF Delivered
  <2>2. replies = <<>> \/ \E m : Told(m, r) /\ replies = <<m>>
    <3>1. CASE b.link = c
      <4>1. replies = <<result.reply>>  BY <3>1
      <4> HIDE DEF replies
      <4> QED  BY <4>1 DEF Tells
    <3> QED  BY <3>1
  <2>3. others = <<>> \/ \E m : Told(m, r) /\ others = <<m>>
    <3>1. CASE events # {}
      <4> DEFINE e == CHOOSE e \in events : TRUE
      <4>1. e \in events  BY <3>1
      <4>2. Told(e[2], r)  BY <4>1 DEF Tells
      <4>3. others = <<e[2]>>  BY <3>1
      <4> HIDE DEF others, e
      <4> QED  BY <4>2, <4>3
    <3> QED  BY <3>1
  <2>4. b.inbox \in Seq(Heard)  BY BridgeFields
  <2> HIDE DEF replies, others
  <2> DEFINE first == b.inbox \o replies
  <2>5. /\ first \in Seq(Heard)
        /\ (\A i \in 1..Len(b.inbox) : MessageOK(b.inbox[i], r)) =>
             \A i \in 1..Len(first) : MessageOK(first[i], r)
    BY <2>2, <2>4, ToldMore
  <2> HIDE DEF first
  <2>6. /\ first \o others \in Seq(Heard)
        /\ (\A i \in 1..Len(first) : MessageOK(first[i], r)) =>
             \A i \in 1..Len(first \o others) : MessageOK((first \o others)[i], r)
    BY <2>3, <2>5, ToldMore
  <2>7. inbox = first \o others  BY DEF first
  <2>8. /\ inbox \in Seq(Heard)
        /\ (\A i \in 1..Len(b.inbox) : MessageOK(b.inbox[i], r)) => \A i \in 1..Len(inbox) : MessageOK(inbox[i], r)
    BY <2>5, <2>6, <2>7
  <2> HIDE DEF inbox
  <2>9. /\ n \in Bridge /\ n.inbox = inbox /\ n.link = b.link /\ n.reads = b.reads /\ n.jobs = b.jobs
        /\ n.outbox = b.outbox
    BY <2>1, <2>8 DEF Bridge
  <2>10. TalkOK(b, r) => TalkOK(n, r)  BY <2>8, <2>9 DEF TalkOK
  <2>11. BridgeOK(p, n, r)  BY <1>2, <2>9, <2>10 DEF BridgeOK
  <2> QED  BY <2>9, <2>11
<1> QED  BY <1>1, <1>2

-----------------------------------------------------------------------------
(* A bridge's step: what it sends, and what its jobs still say.            *)

\* One request at most, of its job t; an observation is of this image read
\* this way.
Says(n, t, png, reads) ==
  \/ n.outbox = <<>>
  \/ \E frame \in Frame :
       /\ n.outbox = <<frame>> /\ frame.transaction = t /\ t \in DOMAIN n.jobs
       /\ frame.op = "observation_begin" => frame.png = png /\ frame.properties = reads

Quiet(n) == n.outbox = <<>> \/ \E frame \in Frame : /\ n.outbox = <<frame>> /\ frame.transaction \in DOMAIN n.jobs
                                                     /\ frame.op # "observation_begin"

\* The same bridge, with other jobs.
Works(b, n) == n \in Bridge /\ n.link = b.link /\ n.reads = b.reads /\ n.inbox = b.inbox

JobsOK(b, r) == \A t \in DOMAIN b.jobs : JobOK(b.jobs[t], t, r)

LEMMA WorksTransitive ==
  ASSUME NEW b, NEW n, NEW m, Works(b, n), Works(n, m)
  PROVE  Works(b, m)
BY DEF Works

LEMMA RemoveWorks ==
  ASSUME NEW b \in Bridge, b.outbox = <<>>, NEW t, NEW n, n = remove(b, t)
  PROVE  Works(b, n) /\ n.outbox = <<>> /\ \A r : JobsOK(b, r) => JobsOK(n, r)
<1> DEFINE jobs == Without(b.jobs, {t})
           asked == Without(b.asked, {t})
<1>1. jobs \in PartialFunction(Nat, Job) /\ asked \in PartialFunction(Nat, RequestOp)
  BY BridgeFields, WithoutType
<1>2. DOMAIN jobs \subseteq DOMAIN b.jobs /\ \A u \in DOMAIN jobs : jobs[u] = b.jobs[u]
  <2> DEFINE f == b.jobs
  <2>1. jobs = Without(f, {t})  OBVIOUS
  <2> HIDE DEF f, jobs
  <2>2. DOMAIN Without(f, {t}) = DOMAIN f \ {t} /\ \A u \in DOMAIN f \ {t} : Without(f, {t})[u] = f[u]
    BY WithoutIs
  <2>3. DOMAIN jobs \subseteq DOMAIN f /\ \A u \in DOMAIN jobs : jobs[u] = f[u]  BY <2>1, <2>2
  <2> QED  BY <2>3 DEF f
<1>3. n = [b EXCEPT !.jobs = jobs, !.asked = asked]  BY DEF remove
<1> HIDE DEF jobs, asked
<1>4. /\ n \in Bridge /\ n.jobs = jobs /\ n.link = b.link /\ n.reads = b.reads /\ n.inbox = b.inbox
      /\ n.outbox = b.outbox
  BY <1>1, <1>3 DEF Bridge
<1>5. \A r : JobsOK(b, r) => JobsOK(n, r)  BY <1>2, <1>4 DEF JobsOK
<1> QED  BY <1>4, <1>5 DEF Works

LEMMA EmptyFunction ==
  ASSUME NEW S, NEW T
  PROVE  <<>> \in PartialFunction(S, T) /\ DOMAIN <<>> = {}
<1>1. <<>> \in Seq(T) /\ Len(<<>>) = 0  OBVIOUS
<1>2. <<>> \in [1..0 -> T]  BY <1>1, LenProperties
<1>3. 1..0 = {}  OBVIOUS
<1>4. <<>> \in [{} -> T] /\ DOMAIN <<>> = {}  BY <1>2, <1>3
<1> QED  BY <1>4 DEF PartialFunction

LEMMA FenceWorks ==
  ASSUME NEW b \in Bridge, b.outbox = <<>>
  PROVE  /\ Works(b, fence_native_content_network(b)) /\ fence_native_content_network(b).outbox = <<>>
         /\ Works(b, Unapproved(b)) /\ Unapproved(b).outbox = <<>>
         /\ DOMAIN fence_native_content_network(b).jobs = {} /\ DOMAIN Unapproved(b).jobs = {}
<1>1. /\ <<>> \in PartialFunction(Nat, Job) /\ <<>> \in PartialFunction(Nat, RequestOp) /\ DOMAIN <<>> = {}
  BY EmptyFunction
<1> DEFINE n == fence_native_content_network(b)
<1>2. n = [b EXCEPT !.jobs = <<>>, !.asked = <<>>]  BY DEF fence_native_content_network
<1>3. Unapproved(b) = [n EXCEPT !.approved = FALSE]  BY DEF Unapproved
<1> HIDE DEF n
<1>4. /\ n \in Bridge /\ n.jobs = <<>> /\ n.link = b.link /\ n.reads = b.reads /\ n.inbox = b.inbox
      /\ n.outbox = <<>>
  BY <1>1, <1>2 DEF Bridge
<1> DEFINE m == Unapproved(b)
<1> HIDE DEF m
<1>5. /\ m \in Bridge /\ m.jobs = <<>> /\ m.link = b.link /\ m.reads = b.reads /\ m.inbox = b.inbox
      /\ m.outbox = <<>>
  <2>1. m = [n EXCEPT !.approved = FALSE]  BY <1>3 DEF m
  <2> QED  BY <2>1, <1>4 DEF Bridge
<1> QED  BY <1>1, <1>4, <1>5 DEF Works, n, m

LEMMA SendNextWorks ==
  ASSUME NEW b \in Bridge, b.outbox = <<>>, NEW t \in DOMAIN b.jobs, b.jobs[t].phase \notin {"check_parts", "import"},
         NEW n, n = send_next(b, t)
  PROVE  /\ Works(b, n) /\ \A r : JobsOK(b, r) => JobsOK(n, r)
         /\ Says(n, t, b.jobs[t].png, b.jobs[t].read)
         /\ b.jobs[t].phase # "observe_begin" => Quiet(n)
<1> DEFINE job == b.jobs[t]
           frame == [Request(Asks[job.phase], t) EXCEPT !.png = job.png, !.properties = job.read]
<1>1. CASE b.link = 0 \/ Cardinality(DOMAIN b.asked) >= 2
  <2>1. n = remove(b, t)  BY <1>1 DEF send_next
  <2>2. Works(b, n) /\ n.outbox = <<>> /\ \A r : JobsOK(b, r) => JobsOK(n, r)  BY <2>1, RemoveWorks
  <2> QED  BY <2>2 DEF Says, Quiet
<1>2. CASE ~(b.link = 0 \/ Cardinality(DOMAIN b.asked) >= 2)
  <2> DEFINE asked == With(b.asked, t, frame.op)
             outbox == Append(b.outbox, frame)
  <2>1. n = [b EXCEPT !.asked = asked, !.outbox = outbox]  BY <1>2 DEF send_next
  <2>2. /\ job \in Job /\ t \in Nat /\ b.asked \in PartialFunction(Nat, RequestOp)  BY BridgeFields
  <2>3. /\ job.phase \in JobPhase \ {"check_parts", "import"} /\ job.png \in Image /\ job.read \in Reading
    BY <2>2 DEF Job
  <2>4. /\ Asks[job.phase] \in RequestOp
        /\ Asks[job.phase] = "observation_begin" => job.phase = "observe_begin"
    BY <2>3 DEF JobPhase, Asks, RequestOp
  <2>5. NoPNG \in Image /\ NoProperties \in Reading  BY DEF Image, Reading
  <2> HIDE DEF job
  <2> DEFINE asks == Request(Asks[job.phase], t)
  <2>6. asks \in Frame /\ asks.op = Asks[job.phase] /\ asks.transaction = t
    BY <2>2, <2>4, <2>5 DEF Request, Frame
  <2>7. frame = [asks EXCEPT !.png = job.png, !.properties = job.read]  OBVIOUS
  <2> HIDE DEF asks, frame
  <2>8. /\ frame \in Frame /\ frame.op = Asks[job.phase] /\ frame.transaction = t
        /\ frame.png = job.png /\ frame.properties = job.read
    BY <2>3, <2>6, <2>7 DEF Frame
  <2>9. asked \in PartialFunction(Nat, RequestOp)  BY <2>2, <2>4, <2>8, WithType
  <2>10. outbox = <<frame>> /\ outbox \in Seq(Frame)  BY <2>8
  <2> HIDE DEF asked, outbox
  <2>11. /\ n \in Bridge /\ n.jobs = b.jobs /\ n.link = b.link /\ n.reads = b.reads /\ n.inbox = b.inbox
         /\ n.outbox = <<frame>>
    BY <2>1, <2>9, <2>10 DEF Bridge
  <2>12. Says(n, t, job.png, job.read)  BY <2>8, <2>11 DEF Says
  <2>13. job.phase # "observe_begin" => Quiet(n)  BY <2>4, <2>8, <2>11 DEF Quiet
  <2>14. Works(b, n) /\ \A r : JobsOK(b, r) => JobsOK(n, r)  BY <2>11 DEF Works, JobsOK
  <2> QED  BY <2>12, <2>13, <2>14 DEF job
<1> QED  BY <1>1, <1>2

LEMMA HeardWorks ==
  ASSUME NEW b \in Bridge, NEW t, NEW n, n = [b EXCEPT !.asked = Without(@, {t})]
  PROVE  Works(b, n) /\ n.outbox = b.outbox /\ n.jobs = b.jobs
<1> DEFINE asked == Without(b.asked, {t})
<1>1. asked \in PartialFunction(Nat, RequestOp)  BY BridgeFields, WithoutType
<1>2. n = [b EXCEPT !.asked = asked]  OBVIOUS
<1> HIDE DEF asked
<1> QED  BY <1>1, <1>2 DEF Bridge, Works

LEMMA JobChanged ==
  ASSUME NEW b \in Bridge, NEW t \in DOMAIN b.jobs, NEW e \in Job, NEW n, n = [b EXCEPT !.jobs[t] = e]
  PROVE  /\ Works(b, n) /\ n.outbox = b.outbox /\ t \in DOMAIN n.jobs /\ n.jobs[t] = e
         /\ \A r : JobsOK(b, r) /\ JobOK(e, t, r) => JobsOK(n, r)
<1> DEFINE jobs == [b.jobs EXCEPT ![t] = e]
<1>1. /\ jobs \in PartialFunction(Nat, Job) /\ DOMAIN jobs = DOMAIN b.jobs /\ jobs[t] = e
      /\ \A u \in DOMAIN b.jobs \ {t} : jobs[u] = b.jobs[u]
  BY BridgeFields, ChangeType
<1>2. n = [b EXCEPT !.jobs = jobs]  OBVIOUS
<1> HIDE DEF jobs
<1>3. Works(b, n) /\ n.outbox = b.outbox /\ n.jobs = jobs  BY <1>1, <1>2 DEF Bridge, Works
<1>4. \A r : JobsOK(b, r) /\ JobOK(e, t, r) => JobsOK(n, r)  BY <1>1, <1>3 DEF JobsOK
<1> QED  BY <1>1, <1>3, <1>4

\* A job's phase is not part of what it says of its draft.
LEMMA PhaseChanged ==
  ASSUME NEW b \in Bridge, NEW t \in DOMAIN b.jobs, NEW phase \in JobPhase,
         NEW n, n = [b EXCEPT !.jobs[t].phase = phase]
  PROVE  /\ Works(b, n) /\ n.outbox = b.outbox /\ t \in DOMAIN n.jobs /\ n.jobs[t].phase = phase
         /\ n.jobs[t].png = b.jobs[t].png /\ n.jobs[t].read = b.jobs[t].read
         /\ \A r : JobsOK(b, r) => JobsOK(n, r)
<1> DEFINE job == b.jobs[t]
           e == [job EXCEPT !.phase = phase]
<1>1. job \in Job  BY BridgeFields
<1>2. n = [b EXCEPT !.jobs[t] = e]  OBVIOUS
<1>3. \A r : JobsOK(b, r) => JobOK(job, t, r)  BY DEF JobsOK
<1> HIDE DEF job
<1>4. /\ e \in Job /\ e.phase = phase /\ e.png = job.png /\ e.read = job.read
      /\ e.expected = job.expected /\ e.announced = job.announced
  BY <1>1 DEF Job
<1> HIDE DEF e
<1>5. \A r : JobOK(job, t, r) => JobOK(e, t, r)  BY <1>4 DEF JobOK
<1>6. /\ Works(b, n) /\ n.outbox = b.outbox /\ t \in DOMAIN n.jobs /\ n.jobs[t] = e
      /\ \A r : JobsOK(b, r) /\ JobOK(e, t, r) => JobsOK(n, r)
  BY <1>2, <1>4, JobChanged
<1> QED  BY <1>3, <1>4, <1>5, <1>6 DEF job

LEMMA SendInWorks ==
  ASSUME NEW b \in Bridge, b.outbox = <<>>, NEW t \in DOMAIN b.jobs,
         NEW phase \in JobPhase \ {"check_parts", "import"}, NEW n, n = SendIn(b, t, phase)
  PROVE  /\ Works(b, n) /\ \A r : JobsOK(b, r) => JobsOK(n, r)
         /\ Says(n, t, b.jobs[t].png, b.jobs[t].read)
         /\ phase # "observe_begin" => Quiet(n)
<1> DEFINE m == [b EXCEPT !.jobs[t].phase = phase]
<1>1. n = send_next(m, t)  BY DEF SendIn
<1>2. /\ Works(b, m) /\ m.outbox = <<>> /\ t \in DOMAIN m.jobs /\ m.jobs[t].phase = phase
      /\ m.jobs[t].png = b.jobs[t].png /\ m.jobs[t].read = b.jobs[t].read
      /\ \A r : JobsOK(b, r) => JobsOK(m, r)
  BY PhaseChanged
<1> HIDE DEF m
<1>3. m \in Bridge /\ m.jobs[t].phase \notin {"check_parts", "import"}  BY <1>2 DEF Works
<1>4. /\ Works(m, n) /\ \A r : JobsOK(m, r) => JobsOK(n, r)
      /\ Says(n, t, m.jobs[t].png, m.jobs[t].read)
      /\ m.jobs[t].phase # "observe_begin" => Quiet(n)
  BY <1>1, <1>2, <1>3, SendNextWorks
<1>5. Works(b, n)  BY <1>2, <1>4, WorksTransitive
<1>6. \A r : JobsOK(b, r) => JobsOK(n, r)  BY <1>2, <1>4
<1> QED  BY <1>2, <1>4, <1>5, <1>6

\* What a bridge makes of a message that says what is.
Heeds(b, m, n) ==
  Works(b, n) /\ Quiet(n) /\ \A r : JobsOK(b, r) /\ MessageOK(m, r) => JobsOK(n, r)

LEMMA NothingHeeds ==
  ASSUME NEW b \in Bridge, b.outbox = <<>>, NEW m
  PROVE  Heeds(b, m, b)
BY DEF Heeds, Works, Quiet

LEMMA EmptiesHeed ==
  ASSUME NEW b \in Bridge, b.outbox = <<>>, NEW m
  PROVE  /\ Heeds(b, m, remove(b, m.transaction)) /\ Heeds(b, m, fence_native_content_network(b))
         /\ Heeds(b, m, Unapproved(b))
<1>1. Heeds(b, m, remove(b, m.transaction))
  <2> DEFINE n == remove(b, m.transaction)
  <2>1. Works(b, n) /\ n.outbox = <<>> /\ \A r : JobsOK(b, r) => JobsOK(n, r)  BY RemoveWorks
  <2> HIDE DEF n
  <2>2. Heeds(b, m, n)  BY <2>1 DEF Heeds, Quiet
  <2> QED  BY <2>2 DEF n
<1>2. ASSUME NEW n, Works(b, n), n.outbox = <<>>, DOMAIN n.jobs = {}
      PROVE  Heeds(b, m, n)
  <2>1. \A r : JobsOK(n, r)  BY <1>2 DEF JobsOK
  <2> QED  BY <1>2, <2>1 DEF Heeds, Quiet
<1> QED  BY <1>1, <1>2, FenceWorks

LEMMA ReceiveResponseHeeds ==
  ASSUME NEW b \in Bridge, b.outbox = <<>>, NEW m \in Heard, NEW n, n = receive_response(b, m)
  PROVE  Heeds(b, m, n)
<1> DEFINE t == m.transaction
           heard == [b EXCEPT !.asked = Without(@, {t})]
<1>1. Works(b, heard) /\ heard.outbox = <<>> /\ heard.jobs = b.jobs  BY HeardWorks
<1>2. heard \in Bridge /\ \A r : JobsOK(b, r) <=> JobsOK(heard, r)
  <2> HIDE DEF heard
  <2> QED  BY <1>1 DEF Works, JobsOK
<1>3. CASE t \notin DOMAIN b.asked
  <2>1. n = b  BY <1>3 DEF receive_response
  <2> QED  BY <2>1, NothingHeeds
<1>4. CASE t \in DOMAIN b.asked /\ t \notin DOMAIN b.jobs
  <2>1. n = heard  BY <1>4 DEF receive_response
  <2> HIDE DEF heard
  <2> QED  BY <1>1, <1>2, <2>1 DEF Heeds, Quiet
<1>5. ASSUME t \in DOMAIN b.jobs, NEW k, Works(heard, k), Quiet(k),
             \A r : JobsOK(heard, r) /\ MessageOK(m, r) => JobsOK(k, r)
      PROVE  Heeds(b, m, k)
  <2> HIDE DEF heard
  <2>1. Works(b, k)  BY <1>1, <1>5, WorksTransitive
  <2> QED  BY <1>2, <1>5, <2>1 DEF Heeds
<1>6. CASE t \in DOMAIN b.asked /\ t \in DOMAIN b.jobs
  <2> DEFINE over == \/ m.op # b.asked[t] \/ m.failure # "none"
                     \/ m.op \in {"dependency_failure", "observation_end"}
  <2>1. CASE over
    <3>1. n = remove(b, t)  BY <1>6, <2>1 DEF receive_response
    <3> QED  BY <3>1, EmptiesHeed
  <2>2. CASE ~over /\ m.op = "dependencies"
    <3>1. n = receive_dependencies(heard, t, m)  BY <1>6, <2>2 DEF receive_response
    <3> HIDE DEF heard
    <3>2. CASE n = remove(heard, t)
      <4>1. Works(heard, n) /\ n.outbox = <<>> /\ \A r : JobsOK(heard, r) => JobsOK(n, r)
        BY <1>1, <1>2, <3>2, RemoveWorks
      <4> QED  BY <1>5, <1>6, <4>1 DEF Quiet
    <3>3. CASE n = [heard EXCEPT !.jobs[t].phase = "check_parts"]
      <4>1. t \in DOMAIN heard.jobs /\ "check_parts" \in JobPhase  BY <1>1, <1>6 DEF JobPhase
      <4>2. Works(heard, n) /\ n.outbox = <<>> /\ \A r : JobsOK(heard, r) => JobsOK(n, r)
        BY <1>1, <1>2, <3>3, <4>1, PhaseChanged
      <4> QED  BY <1>5, <1>6, <4>2 DEF Quiet
    <3> QED  BY <3>1, <3>2, <3>3 DEF receive_dependencies
  <2>3. CASE ~over /\ m.op = "fetch"
    <3>1. n = [heard EXCEPT !.jobs[t].png = m.png, !.jobs[t].phase = "import"]
      BY <1>6, <2>3 DEF receive_response
    <3> DEFINE job == heard.jobs[t]
               e == [job EXCEPT !.png = m.png, !.phase = "import"]
    <3>2. t \in DOMAIN heard.jobs /\ job \in Job /\ heard.jobs \in PartialFunction(Nat, Job)
      <4> HIDE DEF heard
      <4> QED  BY <1>1, <1>2, <1>6, BridgeFields
    <3>3. m.png \in Image /\ "import" \in JobPhase  BY DEF Heard, JobPhase
    <3> HIDE DEF heard
    <3>4. n = [heard EXCEPT !.jobs[t] = e]
      <4>1. [[heard.jobs EXCEPT ![t].png = m.png] EXCEPT ![t].phase = "import"] = [heard.jobs EXCEPT ![t] = e]
        BY <3>2 DEF PartialFunction
      <4> QED  BY <3>1, <4>1, <1>2 DEF Bridge
    <3> HIDE DEF job
    <3>5. e \in Job /\ e.png = m.png /\ e.expected = job.expected /\ e.announced = job.announced
      BY <3>2, <3>3 DEF Job
    <3>6. ASSUME NEW r, JobsOK(heard, r), MessageOK(m, r)
          PROVE  JobOK(e, t, r)
      <4>1. JobOK(job, t, r)  BY <3>2, <3>6 DEF JobsOK, job
      <4>2. t \in DOMAIN r.transactions => e.png = r.transactions[t].png
        BY <2>3, <3>5, <3>6 DEF MessageOK
      <4> HIDE DEF e
      <4> QED  BY <3>5, <4>1, <4>2 DEF JobOK
    <3> HIDE DEF e
    <3>7. /\ Works(heard, n) /\ n.outbox = <<>>
          /\ \A r : JobsOK(heard, r) /\ JobOK(e, t, r) => JobsOK(n, r)
      BY <1>1, <1>2, <3>2, <3>4, <3>5, JobChanged
    <3> QED  BY <1>5, <1>6, <3>6, <3>7 DEF Quiet
  <2>4. CASE ~over /\ m.op \notin {"dependencies", "fetch"}
    <3> DEFINE phase == IF m.op = "observation_begin" THEN "observe_chunk" ELSE "observe_end"
    <3>1. n = SendIn(heard, t, phase)  BY <1>6, <2>4 DEF receive_response
    <3>2. phase \in JobPhase \ {"check_parts", "import"} /\ phase # "observe_begin"  BY DEF JobPhase
    <3> HIDE DEF heard, phase
    <3>3. Works(heard, n) /\ Quiet(n) /\ \A r : JobsOK(heard, r) => JobsOK(n, r)
      BY <1>1, <1>2, <1>6, <3>1, <3>2, SendInWorks
    <3> QED  BY <1>5, <1>6, <3>3
  <2> QED  BY <2>1, <2>2, <2>3, <2>4
<1> QED  BY <1>3, <1>4, <1>6

LEMMA BeginJobHeeds ==
  ASSUME NEW b \in Bridge, b.outbox = <<>>, NEW m \in Heard, NEW p, NEW listed, NEW n, n = begin_job(b, p, m, listed)
  PROVE  Heeds(b, m, n)
<1> DEFINE first == IF p = 0 THEN "fetch" ELSE "dependencies"
           job == [phase |-> first, expected |-> m.png, announced |-> m.properties, png |-> NoPNG,
                   read |-> NoProperties]
           t == m.transaction
           jobs == With(b.jobs, t, job)
           a == [b EXCEPT !.jobs = jobs]
<1>1. \/ n = b \/ n = Unapproved(b)
      \/ m.op = (IF p = 0 THEN "validate_event" ELSE "load_event") /\ n = send_next(a, t)
  BY DEF begin_job
<1>2. ASSUME m.op \in {"validate_event", "load_event"}, n = send_next(a, t)
      PROVE  Heeds(b, m, n)
  <2>1. job \in Job /\ t \in Nat /\ first \notin {"check_parts", "import", "observe_begin"} /\ job.phase = first
    BY DEF Job, JobPhase, Heard, Image, Reading
  <2>2. job.expected = m.png /\ job.announced = m.properties /\ job.png = NoPNG  OBVIOUS
  <2>3. b.jobs \in PartialFunction(Nat, Job)  BY BridgeFields
  <2> HIDE DEF job, first
  <2>4. jobs \in PartialFunction(Nat, Job) /\ t \in DOMAIN jobs /\ jobs[t] = job
        /\ \A u \in DOMAIN jobs : u = t \/ (u \in DOMAIN b.jobs /\ jobs[u] = b.jobs[u])
    <3>1. jobs \in PartialFunction(Nat, Job)  BY <2>1, <2>3, WithType
    <3>2. t \in DOMAIN jobs /\ jobs[t] = job
          /\ \A u \in DOMAIN jobs : u = t \/ (u \in DOMAIN b.jobs /\ jobs[u] = b.jobs[u])
      BY DEF With
    <3> QED  BY <3>1, <3>2
  <2> HIDE DEF jobs
  <2>5. Works(b, a) /\ a.outbox = <<>> /\ a.jobs = jobs  BY <2>4 DEF Bridge, Works
  <2> HIDE DEF a
  <2>6. a \in Bridge /\ t \in DOMAIN a.jobs /\ a.jobs[t].phase \notin {"check_parts", "import", "observe_begin"}
    BY <2>1, <2>4, <2>5 DEF Works
  <2>7. Works(a, n) /\ Quiet(n) /\ \A r : JobsOK(a, r) => JobsOK(n, r)
    BY <1>2, <2>5, <2>6, SendNextWorks
  <2>8. Works(b, n)  BY <2>5, <2>7, WorksTransitive
  <2>9. ASSUME NEW r, JobsOK(b, r), MessageOK(m, r)
        PROVE  JobsOK(a, r)
    <3>1. JobOK(job, t, r)
      <4>1. /\ t <= r.next
            /\ t \in DOMAIN r.transactions =>
                 /\ Fixed(r.transactions[t]) /\ m.png = r.transactions[t].png
                 /\ m.properties \in {NoProperties, r.transactions[t].properties}
        BY <1>2, <2>9 DEF MessageOK
      <4> QED  BY <2>2, <4>1 DEF JobOK
    <3> QED  BY <2>4, <2>5, <2>9, <3>1 DEF JobsOK
  <2> QED  BY <2>7, <2>8, <2>9 DEF Heeds
<1> HIDE DEF a
<1>3. CASE n = b  BY <1>3, NothingHeeds
<1>4. CASE n = Unapproved(b)  BY <1>4, EmptiesHeed
<1>5. CASE m.op = (IF p = 0 THEN "validate_event" ELSE "load_event") /\ n = send_next(a, t)
  BY <1>2, <1>5
<1> QED  BY <1>1, <1>3, <1>4, <1>5

LEMMA NetworkHeeds ==
  ASSUME NEW b \in Bridge, b.outbox = <<>>, NEW m \in Heard, NEW p, NEW listed,
         NEW n, n = receive_native_content_network(b, p, m, listed)
  PROVE  Heeds(b, m, n)
<1>1. \/ n \in {b, remove(b, m.transaction), fence_native_content_network(b)}
      \/ n = receive_response(b, m)
      \/ n = begin_job(b, p, m, listed)
  BY DEF receive_native_content_network
<1>2. CASE n = receive_response(b, m)  BY <1>2, ReceiveResponseHeeds
<1>3. CASE n = begin_job(b, p, m, listed)  BY <1>3, BeginJobHeeds
<1>4. CASE n \in {b, remove(b, m.transaction), fence_native_content_network(b)}
  BY <1>4, EmptiesHeed, NothingHeeds
<1> QED  BY <1>1, <1>2, <1>3, <1>4

\* What a bridge makes of a job that waits for the original.
Updates(b, t, png, reads, n) ==
  Works(b, n) /\ Says(n, t, png, reads) /\ \A r : JobsOK(b, r) => JobsOK(n, r)

LEMMA RemoveUpdates ==
  ASSUME NEW b, NEW a \in Bridge, Works(b, a), a.outbox = <<>>, \A r : JobsOK(b, r) => JobsOK(a, r),
         NEW t, NEW png, NEW reads
  PROVE  Updates(b, t, png, reads, remove(a, t))
<1> DEFINE n == remove(a, t)
<1>1. Works(a, n) /\ n.outbox = <<>> /\ \A r : JobsOK(a, r) => JobsOK(n, r)  BY RemoveWorks
<1> HIDE DEF n
<1>2. Works(b, n)  BY <1>1, WorksTransitive
<1>3. Updates(b, t, png, reads, n)  BY <1>1, <1>2 DEF Updates, Says
<1> QED  BY <1>3 DEF n

LEMMA CheckPartsUpdates ==
  ASSUME NEW b \in Bridge, b.outbox = <<>>, NEW t \in DOMAIN b.jobs, NEW n \in check_job_parts(b, t), NEW png, NEW reads
  PROVE  Updates(b, t, png, reads, n) /\ Quiet(n)
<1>1. CASE n = remove(b, t)
  <2>1. Works(b, n) /\ n.outbox = <<>> /\ \A r : JobsOK(b, r) => JobsOK(n, r)  BY <1>1, RemoveWorks
  <2> QED  BY <2>1 DEF Updates, Says, Quiet
<1>2. ASSUME NEW phase \in {"fetch", "report_dependency"}, n = SendIn(b, t, phase)
      PROVE  Updates(b, t, png, reads, n) /\ Quiet(n)
  <2>1. phase \in JobPhase \ {"check_parts", "import"} /\ phase # "observe_begin"  BY DEF JobPhase
  <2>2. Works(b, n) /\ Quiet(n) /\ Says(n, t, b.jobs[t].png, b.jobs[t].read) /\ \A r : JobsOK(b, r) => JobsOK(n, r)
    BY <1>2, <2>1, SendInWorks
  <2>3. Says(n, t, png, reads)
    <3>1. CASE n.outbox = <<>>  BY <3>1 DEF Says
    <3>2. CASE n.outbox # <<>>
      <4>1. PICK frame \in Frame : n.outbox = <<frame>> /\ frame.transaction = t /\ t \in DOMAIN n.jobs
        BY <2>2, <3>2 DEF Says
      <4>2. PICK other \in Frame : n.outbox = <<other>> /\ other.op # "observation_begin"
        BY <2>2, <3>2 DEF Quiet
      <4>3. frame = other
        <5>1. <<frame>>[1] = <<other>>[1]  BY <4>1, <4>2
        <5> QED  BY <5>1
      <4> QED  BY <4>1, <4>2, <4>3 DEF Says
    <3> QED  BY <3>1, <3>2
  <2> QED  BY <2>2, <2>3 DEF Updates
<1> QED  BY <1>1, <1>2 DEF check_job_parts

LEMMA LoadContentUpdates ==
  ASSUME NEW b \in Bridge, b.outbox = <<>>, NEW t \in DOMAIN b.jobs, NEW png, png = b.jobs[t].png,
         NEW reads \in Properties, NEW n \in load_content(b, t, png, reads)
  PROVE  Updates(b, t, png, reads, n)
<1> DEFINE job == b.jobs[t]
           e == [[job EXCEPT !.read = reads] EXCEPT !.png = png]
           seen == [b EXCEPT !.jobs[t].read = reads, !.jobs[t].png = png]
<1>1. job \in Job /\ b.jobs \in PartialFunction(Nat, Job) /\ png \in Image
  <2>1. job \in Job /\ b.jobs \in PartialFunction(Nat, Job)  BY BridgeFields
  <2> QED  BY <2>1 DEF Job
<1>2. seen = [b EXCEPT !.jobs[t] = e]
  <2>1. [[b.jobs EXCEPT ![t].read = reads] EXCEPT ![t].png = png] = [b.jobs EXCEPT ![t] = e]
    BY <1>1 DEF PartialFunction
  <2> QED  BY <2>1 DEF Bridge
<1>3. \A r : JobsOK(b, r) => JobOK(job, t, r)  BY DEF JobsOK
<1> HIDE DEF job, seen
<1>4. /\ e \in Job /\ e.png = png /\ e.read = reads /\ e.expected = job.expected /\ e.announced = job.announced
      /\ job.png = png
  <2>1. job.png = png  BY DEF job
  <2> QED  BY <1>1, <2>1 DEF Job, Reading
<1> HIDE DEF e
<1>5. \A r : JobOK(job, t, r) => JobOK(e, t, r)  BY <1>4 DEF JobOK
<1>6. /\ Works(b, seen) /\ seen.outbox = <<>> /\ t \in DOMAIN seen.jobs /\ seen.jobs[t] = e
      /\ \A r : JobsOK(b, r) => JobsOK(seen, r)
  <2>1. /\ Works(b, seen) /\ seen.outbox = b.outbox /\ t \in DOMAIN seen.jobs /\ seen.jobs[t] = e
        /\ \A r : JobsOK(b, r) /\ JobOK(e, t, r) => JobsOK(seen, r)
    BY <1>2, <1>4, JobChanged
  <2> QED  BY <2>1, <1>3, <1>5
<1>7. ASSUME NEW a, Works(b, a), a.outbox = <<>>, t \in DOMAIN a.jobs, a.jobs[t] = e,
             \A r : JobsOK(b, r) => JobsOK(a, r), n = SendIn(a, t, "observe_begin")
      PROVE  Updates(b, t, png, reads, n)
  <2>1. a \in Bridge /\ "observe_begin" \in JobPhase \ {"check_parts", "import"}  BY <1>7 DEF Works, JobPhase
  <2>2. Works(a, n) /\ Says(n, t, a.jobs[t].png, a.jobs[t].read) /\ \A r : JobsOK(a, r) => JobsOK(n, r)
    BY <1>7, <2>1, SendInWorks
  <2>3. Works(b, n)  BY <1>7, <2>2, WorksTransitive
  <2>4. Says(n, t, png, reads)  BY <2>2, <1>4, <1>7
  <2> QED  BY <1>7, <2>2, <2>3, <2>4 DEF Updates
<1> DEFINE staged == [seen EXCEPT !.staged = @ \cup {png}]
           imported == [staged EXCEPT !.imported = @ \cup {png}]
<1>8. /\ Works(b, staged) /\ staged.outbox = <<>> /\ staged.jobs = seen.jobs
      /\ \A r : JobsOK(b, r) => JobsOK(staged, r)
  <2>1. seen \in Bridge  BY <1>6 DEF Works
  <2>2. Works(seen, staged) /\ staged.outbox = seen.outbox /\ staged.jobs = seen.jobs
    BY <2>1, <1>1 DEF Bridge, Works
  <2> HIDE DEF staged
  <2>3. Works(b, staged)  BY <1>6, <2>2, WorksTransitive
  <2> QED  BY <1>6, <2>2, <2>3 DEF JobsOK
<1>9. /\ Works(b, imported) /\ imported.outbox = <<>> /\ imported.jobs = seen.jobs
      /\ \A r : JobsOK(b, r) => JobsOK(imported, r)
  <2> HIDE DEF staged
  <2>1. staged \in Bridge  BY <1>8 DEF Works
  <2>2. Works(staged, imported) /\ imported.outbox = staged.outbox /\ imported.jobs = staged.jobs
    BY <2>1, <1>1 DEF Bridge, Works
  <2> HIDE DEF imported
  <2>3. Works(b, imported)  BY <1>8, <2>2, WorksTransitive
  <2> QED  BY <1>8, <2>2, <2>3 DEF JobsOK
<1>10. \/ n = SendIn(seen, t, "observe_begin") \/ n = SendIn(imported, t, "observe_begin")
       \/ n = remove(b, t) \/ n = remove(staged, t)
  BY DEF load_content, seen
<1> HIDE DEF staged, imported
<1>11. CASE n = SendIn(seen, t, "observe_begin")  BY <1>6, <1>7, <1>11
<1>12. CASE n = SendIn(imported, t, "observe_begin")  BY <1>6, <1>7, <1>9, <1>12
<1>13. CASE n = remove(b, t)
  <2>1. Works(b, b)  BY DEF Works
  <2> QED  BY <1>13, <2>1, RemoveUpdates
<1>14. CASE n = remove(staged, t)
  <2>1. staged \in Bridge  BY <1>8 DEF Works
  <2> QED  BY <1>8, <1>14, <2>1, RemoveUpdates
<1> QED  BY <1>10, <1>11, <1>12, <1>13, <1>14

LEMMA ImportUpdates ==
  ASSUME NEW b \in Bridge, b.outbox = <<>>, NEW t \in DOMAIN b.jobs, NEW reads \in Properties, NEW listed,
         NEW n \in import_job(b, t, listed, reads)
  PROVE  Updates(b, t, b.jobs[t].png, reads, n)
<1> DEFINE png == b.jobs[t].png
<1>1. \/ n \in load_content(b, t, png, reads) \/ n = Unapproved(b) \/ n = remove(b, t)
  BY DEF import_job
<1> HIDE DEF png
<1>2. CASE n \in load_content(b, t, png, reads)  BY <1>2, LoadContentUpdates DEF png
<1>3. CASE n = Unapproved(b)
  <2>1. Works(b, n) /\ n.outbox = <<>> /\ DOMAIN n.jobs = {}  BY <1>3, FenceWorks
  <2>2. \A r : JobsOK(n, r)  BY <2>1 DEF JobsOK
  <2>3. Updates(b, t, png, reads, n)  BY <2>1, <2>2 DEF Updates, Says
  <2> QED  BY <2>3 DEF png
<1>4. CASE n = remove(b, t)
  <2>1. Works(b, b)  BY DEF Works
  <2> QED  BY <1>4, <2>1, RemoveUpdates
<1> QED  BY <1>1, <1>2, <1>3, <1>4

-----------------------------------------------------------------------------
(* A request served: every bridge hears of it, and the invariant holds.    *)

LEMMA ReadingsKeep ==
  ASSUME NEW s, NEW b, ReadingsOK(s, b), NEW n, n.link = 0 \/ (n.link = b.link /\ n.reads = b.reads)
  PROVE  ReadingsOK(s, n)
BY DEF ReadingsOK

LEMMA DiskKept ==
  ASSUME NEW s, NEW k, DiskOK(s, k), NEW v, v.registry.versions = s.registry.versions
  PROVE  DiskOK(v, k)
BY DEF DiskOK

Hearing(f, c, result) == [p \in Process |-> Delivered(f[p], c, result)]

SameLinks(f, g) == \A p \in Process : g[p].link = f[p].link /\ g[p].reads = f[p].reads

\* A request asked over connection c, on the way to it the bridges as g.
Asking(s, f, T, reports, n, g, c, frame, more) ==
  /\ SessionOK(s, f, T, reports, n) /\ BridgesOK(g, s.registry) /\ SameLinks(f, g)
  /\ reports \subseteq more /\ Asked(s, c, frame, more, f[0])
  /\ frame.op \notin ObservationOp \/ c \notin T

LEMMA HearingOK ==
  ASSUME NEW g, NEW r, BridgesOK(g, r), 0 \notin DOMAIN r.peers, NEW c, NEW result, Tells(result, r)
  PROVE  BridgesOK(Hearing(g, c, result), r) /\ SameLinks(g, Hearing(g, c, result))
<1> DEFINE h == Hearing(g, c, result)
<1>1. ASSUME NEW p \in Process
      PROVE  h[p] \in Bridge /\ BridgeOK(p, h[p], r) /\ h[p].link = g[p].link /\ h[p].reads = g[p].reads
  <2>1. g[p] \in Bridge /\ BridgeOK(p, g[p], r) /\ h[p] = Delivered(g[p], c, result)
    BY DEF BridgesOK, Hearing
  <2> HIDE DEF h
  <2> QED  BY <2>1, DeliveredOK
<1>2. h \in [Process -> Bridge]
  <2>1. h = [p \in Process |-> h[p]]  BY DEF Hearing
  <2> HIDE DEF h
  <2> QED  BY <2>1, <1>1
<1> QED  BY <1>1, <1>2 DEF BridgesOK, SameLinks

LEMMA ServedSession ==
  ASSUME NEW s, NEW f, NEW T, NEW reports, NEW n, NEW g, NEW c, NEW frame, NEW more,
         Asking(s, f, T, reports, n, g, c, frame, more), NEW written,
         NEW result, result = receive(s, c, frame, written)
  PROVE  /\ SessionOK(result.server, Hearing(g, c, result), T, KeptFor(result.server.registry, more), n)
         /\ Publishes(s.registry, result.server.registry, written)
         /\ Received(s, more, f[0], written, result) /\ ObservedSteps(s, c, frame, result)
<1> DEFINE v == result.server
           q == v.registry
           r == s.registry
           h == Hearing(g, c, result)
<1>1. /\ ServerOK(s, reports) /\ BridgesOK(f, r) /\ ToolsOK(s, f, T) /\ LastOK(s, f, n) /\ BridgesOK(g, r)
      /\ SameLinks(f, g) /\ Asked(s, c, frame, more, f[0]) /\ (frame.op \notin ObservationOp \/ c \notin T)
  BY DEF Asking, SessionOK
<1>2. Received(s, more, f[0], written, result) /\ ObservedSteps(s, c, frame, result)
  BY <1>1, ReceiveServes
<1>3. /\ ServerOK(v, more) /\ (Steady => ReadingsOK(v, f[0])) /\ Contract(r, q)
      /\ Publishes(r, q, written) /\ Told(result.reply, q) /\ \A x \in result.told : Told(x[2], q)
  BY <1>2 DEF Received
<1>4. /\ r \in Registry /\ q \in Registry /\ DraftsOK(r) /\ Moves(r, q) /\ q.peers = r.peers /\ 0 \notin DOMAIN q.peers
      /\ DOMAIN s.uploads = DOMAIN r.peers
  BY <1>1, <1>3, ServerFields DEF ServerOK, RegistryOK, Contract, PeersOK, UploadsOK
<1>5. BridgesOK(g, q)
  <2>1. \A p \in Process : BridgeOK(p, g[p], q)
    <3>1. \A p \in Process : g[p] \in Bridge /\ BridgeOK(p, g[p], r)  BY <1>1 DEF BridgesOK
    <3> QED  BY <3>1, <1>4, BridgeMoves
  <2> QED  BY <1>1, <2>1 DEF BridgesOK
<1>6. BridgesOK(h, q) /\ SameLinks(g, h)
  <2>1. Tells(result, q)  BY <1>3 DEF Tells
  <2> QED  BY <1>4, <1>5, <2>1, HearingOK
<1> HIDE DEF h
<1>7. SameLinks(f, h)  BY <1>1, <1>6 DEF SameLinks
<1>8. Steady => ReadingsOK(v, h[0])
  <2>1. 0 \in Process  BY DEF Process
  <2>2. h[0].link = f[0].link /\ h[0].reads = f[0].reads  BY <1>7, <2>1 DEF SameLinks
  <2> HIDE DEF v
  <2> QED  BY <1>3, <2>2, ReadingsKeep DEF v
<1>9. ServerOK(v, KeptFor(q, more))  BY <1>3, KeptReports
<1>10. ToolsOK(v, h, T)
  <2>1. ASSUME NEW d \in T
        PROVE  /\ d \in DOMAIN q.peers /\ q.peers[d] # 0 /\ v.uploads[d].transaction = 0
              /\ \A p \in Process : h[p].link # d
    <3>1. /\ d \in DOMAIN r.peers /\ r.peers[d] # 0 /\ s.uploads[d].transaction = 0
          /\ \A p \in Process : f[p].link # d
      BY <1>1 DEF ToolsOK
    <3>2. SameUpload(s.uploads[d], v.uploads[d])
      <4>1. d # c \/ frame.op \notin ObservationOp  BY <1>1
      <4> QED  BY <1>2, <1>4, <3>1, <4>1 DEF ObservedSteps
    <3>3. v.uploads[d].transaction = 0  BY <3>1, <3>2 DEF SameUpload
    <3> QED  BY <1>4, <1>7, <3>1, <3>3 DEF SameLinks
  <2> QED  BY <2>1 DEF ToolsOK
<1>11. LastOK(v, h, n)
  <2> HIDE DEF v
  <2> QED  BY <1>1, <1>4, <1>7 DEF LastOK, SameLinks, v
<1>12. SessionOK(v, h, T, KeptFor(q, more), n)  BY <1>6, <1>8, <1>9, <1>10, <1>11 DEF SessionOK
<1> QED  BY <1>2, <1>3, <1>12 DEF h

LEMMA UnservedSession ==
  ASSUME NEW s, NEW f, NEW T, NEW reports, NEW n, SessionOK(s, f, T, reports, n), NEW g, BridgesOK(g, s.registry),
         SameLinks(f, g), NEW more, reports \subseteq more
  PROVE  SessionOK(s, g, T, KeptFor(s.registry, more), n)
<1>1. ServerOK(s, KeptFor(s.registry, more))
  <2>1. ServerOK(s, reports)  BY DEF SessionOK
  <2>2. ServerOK(s, more)  BY <2>1, MoreReports
  <2> QED  BY <2>2, KeptReports
<1>2. Steady => ReadingsOK(s, g[0])
  <2>1. 0 \in Process  BY DEF Process
  <2>2. g[0].link = f[0].link /\ g[0].reads = f[0].reads  BY <2>1 DEF SameLinks
  <2>3. Steady => ReadingsOK(s, f[0])  BY DEF SessionOK
  <2> QED  BY <2>2, <2>3, ReadingsKeep
<1>3. ToolsOK(s, g, T) /\ LastOK(s, g, n)
  <2>1. ToolsOK(s, f, T) /\ LastOK(s, f, n)  BY DEF SessionOK
  <2> QED  BY <2>1 DEF ToolsOK, LastOK, SameLinks
<1> QED  BY <1>1, <1>2, <1>3 DEF SessionOK

\* A bridge's step, what it sends included, over the connection it holds.
Sayable(b, more) ==
  \/ b.outbox = <<>>
  \/ \E frame \in Frame :
       /\ b.outbox = <<frame>> /\ frame.transaction \in DOMAIN b.jobs
       /\ frame.op = "observation_begin" =>
            <<b.link, frame.png, frame.properties>> \in more /\ (Steady => frame.properties = b.reads)

Speaks(s, old, b, more) ==
  /\ b \in Bridge /\ b.link = old.link /\ b.reads = old.reads /\ b.link # 0
  /\ b.link \in DOMAIN s.registry.peers => TalkOK(b, s.registry)
  /\ Sayable(b, more)

Silenced(f, p, b) == [f EXCEPT ![p] = [b EXCEPT !.outbox = <<>>]]

LEMMA SilencedOK ==
  ASSUME NEW s, NEW f, BridgesOK(f, s.registry), NEW p \in Process, NEW b, NEW more, Speaks(s, f[p], b, more)
  PROVE  BridgesOK(Silenced(f, p, b), s.registry) /\ SameLinks(f, Silenced(f, p, b))
<1> DEFINE r == s.registry
           m == [b EXCEPT !.outbox = <<>>]
           g == Silenced(f, p, b)
<1>1. /\ f \in [Process -> Bridge] /\ \A x \in Process : f[x] \in Bridge /\ BridgeOK(x, f[x], r)
      /\ b \in Bridge /\ b.link = f[p].link /\ b.reads = f[p].reads /\ b.link # 0
      /\ b.link \in DOMAIN r.peers => TalkOK(b, r)
  BY DEF BridgesOK, Speaks
<1>2. /\ m \in Bridge /\ m.link = b.link /\ m.reads = b.reads /\ m.jobs = b.jobs /\ m.inbox = b.inbox
      /\ m.outbox = <<>>
  <2>1. <<>> \in Seq(Frame)  OBVIOUS
  <2> QED  BY <1>1, <2>1 DEF Bridge
<1>3. BridgeOK(p, m, r)
  <2>1. b.link \in DOMAIN r.peers => r.peers[b.link] = p  BY <1>1 DEF BridgeOK
  <2>2. TalkOK(b, r) => TalkOK(m, r)  BY <1>2 DEF TalkOK
  <2> HIDE DEF m
  <2> QED  BY <1>1, <1>2, <2>1, <2>2 DEF BridgeOK
<1>4. g = [f EXCEPT ![p] = m]  BY DEF Silenced
<1> HIDE DEF m
<1>5. g \in [Process -> Bridge] /\ g[p] = m /\ \A x \in Process \ {p} : g[x] = f[x]  BY <1>1, <1>2, <1>4
<1> HIDE DEF g
<1>6. BridgesOK(g, r)  BY <1>1, <1>3, <1>5 DEF BridgesOK
<1>7. SameLinks(f, g)  BY <1>1, <1>2, <1>5 DEF SameLinks
<1> QED  BY <1>6, <1>7 DEF g

LEMMA SpokenIsAsked ==
  ASSUME NEW s, NEW f, NEW T, NEW reports, NEW n, SessionOK(s, f, T, reports, n), NEW p \in Process, NEW b, NEW more,
         reports \subseteq more, Speaks(s, f[p], b, more), b.outbox # <<>>, b.link \in DOMAIN s.registry.peers
  PROVE  Asking(s, f, T, reports, n, Silenced(f, p, b), b.link, Head(b.outbox), more)
<1> DEFINE r == s.registry
           g == Silenced(f, p, b)
<1>1. /\ ServerOK(s, reports) /\ BridgesOK(f, r) /\ ToolsOK(s, f, T) /\ PeersOK(r) /\ (Steady => ReadingsOK(s, f[0]))
  BY DEF SessionOK, ServerOK, RegistryOK
<1>2. BridgesOK(g, r) /\ SameLinks(f, g)  BY <1>1, SilencedOK
<1>3. PICK frame \in Frame :
        /\ b.outbox = <<frame>> /\ frame.transaction \in DOMAIN b.jobs
        /\ frame.op = "observation_begin" =>
             <<b.link, frame.png, frame.properties>> \in more /\ (Steady => frame.properties = b.reads)
  BY DEF Speaks, Sayable
<1>4. Head(b.outbox) = frame  BY <1>3
<1>5. /\ b.link = f[p].link /\ b.reads = f[p].reads /\ TalkOK(b, r) /\ b \in Bridge
  BY DEF Speaks
<1>6. r.peers[b.link] = p
  <2>1. BridgeOK(p, f[p], r)  BY <1>1 DEF BridgesOK
  <2> QED  BY <2>1, <1>5 DEF BridgeOK
<1>7. b.link = r.authority => p = 0  BY <1>1, <1>6 DEF PeersOK
<1>8. frame.transaction <= r.next  BY <1>3, <1>5 DEF TalkOK, JobOK
<1>9. b.link \notin T  BY <1>1, <1>5 DEF ToolsOK
<1>10. ServerOK(s, more)  BY <1>1, MoreReports
<1>11. BeginsTruly(s, b.link, frame, more, f[0]) \/ frame.op # "observation_begin"
  BY <1>3, <1>5, <1>7 DEF BeginsTruly
<1>12. Asked(s, b.link, frame, more, f[0])
  <2>1. b.link = r.authority => f[0].link = b.link  BY <1>5, <1>7
  <2> QED  BY <1>1, <1>8, <1>10, <1>11, <2>1 DEF Asked
<1> HIDE DEF g
<1>13. Asking(s, f, T, reports, n, g, b.link, frame, more)  BY <1>2, <1>9, <1>12 DEF Asking
<1> QED  BY <1>4, <1>13 DEF g

LEMMA SendsKeeps ==
  ASSUME IInv, NEW p \in Process, NEW b, NEW more, loaded \subseteq more, Speaks(server, bridge[p], b, more),
         Sends(p, b), loaded' = KeptFor(server'.registry, more), tools' = tools, budget'.last = budget.last
  PROVE  IInv' /\ server'.registry.versions = server.registry.versions /\ disk' = disk
<1> DEFINE g == Silenced(bridge, p, b)
           c == b.link
           result == receive(server, c, Head(b.outbox), FALSE)
<1>1. /\ SessionOK(server, bridge, tools, loaded, budget.last)
      /\ DiskOK(server, disk) /\ BridgesOK(bridge, server.registry)
  BY DEF IInv, SessionOK
<1>2. BridgesOK(g, server.registry) /\ SameLinks(bridge, g)  BY <1>1, SilencedOK
<1>3. CASE b.outbox # <<>> /\ c \in DOMAIN server.registry.peers
  <2>1. server' = result.server /\ bridge' = Hearing(g, c, result) /\ disk' = disk
    BY <1>3 DEF Sends, Serves, Answers, Hearing, Silenced
  <2>2. Asking(server, bridge, tools, loaded, budget.last, g, c, Head(b.outbox), more)
    BY <1>1, <1>3, SpokenIsAsked
  <2> DEFINE frame == Head(b.outbox)
             v == result.server
             h == Hearing(g, c, result)
  <2> HIDE DEF g, frame
  <2>3. /\ SessionOK(v, h, tools, KeptFor(v.registry, more), budget.last)
        /\ Publishes(server.registry, v.registry, FALSE)
    BY <2>2, ServedSession DEF frame
  <2>4. v.registry.versions = server.registry.versions  BY <2>3 DEF Publishes
  <2>5. DiskOK(v, disk)
    <3> HIDE DEF v
    <3> QED  BY <1>1, <2>4, DiskKept
  <2> HIDE DEF result, h
  <2> QED  BY <2>1, <2>3, <2>4, <2>5 DEF IInv, h
<1>4. CASE ~(b.outbox # <<>> /\ c \in DOMAIN server.registry.peers)
  <2>1. server' = server /\ bridge' = g /\ disk' = disk  BY <1>4 DEF Sends, Silenced
  <2> HIDE DEF g
  <2>2. SessionOK(server, g, tools, KeptFor(server.registry, more), budget.last)
    BY <1>1, <1>2, UnservedSession
  <2> QED  BY <1>1, <2>1, <2>2 DEF IInv
<1> QED  BY <1>3, <1>4

-----------------------------------------------------------------------------
(* The steps of the bridges.                                               *)

LEMMA SpendKeeps ==
  ASSUME budget \in Budget, Spend
  PROVE  budget' \in Budget /\ budget'.last = budget.last
<1> DEFINE n == budget.faults - 1
<1>1. n \in Int /\ budget' = [budget EXCEPT !.faults = n]  BY DEF Budget, Spend
<1> HIDE DEF n
<1> QED  BY <1>1 DEF Budget

LEMMA TypesFollow ==
  ASSUME IInv, budget \in Budget
  PROVE  TypeOK
<1>1. server \in Server /\ disk \in [stored : Stored, broken : BOOLEAN] /\ bridge \in [Process -> Bridge]
  BY DEF IInv, SessionOK, ServerOK, DiskOK, BridgesOK
<1>2. \A c \in tools : c \in Nat
  <2>1. \A c \in tools : c \in DOMAIN server.registry.peers  BY DEF IInv, SessionOK, ToolsOK
  <2>2. DOMAIN server.registry.peers \in SUBSET Nat  BY <1>1, ServerFields, RegistryFields
  <2> QED  BY <2>1, <2>2
<1> QED  BY <1>1, <1>2 DEF TypeOK

LEMMA QuietIsSayable ==
  ASSUME NEW b, Quiet(b), NEW more
  PROVE  Sayable(b, more)
BY DEF Quiet, Sayable

LEMMA BridgeHolds ==
  ASSUME IInv, NEW p \in Process
  PROVE  /\ bridge[p] \in Bridge /\ BridgeOK(p, bridge[p], server.registry) /\ bridge[p].outbox = <<>>
         /\ bridge[p].link = 0 => bridge[p].inbox = <<>> /\ DOMAIN bridge[p].jobs = {}
         /\ bridge[p].link \in DOMAIN server.registry.peers => TalkOK(bridge[p], server.registry)
BY DEF IInv, SessionOK, BridgesOK, BridgeOK

\* TypeOK is also what a step needs of the variables it leaves alone.
LEMMA BridgeReceivesKeeps ==
  ASSUME TypeOK, IInv, NEW p \in Process, BridgeReceives(p)
  PROVE  IInv' /\ budget' \in Budget /\ server'.registry.versions = server.registry.versions /\ disk' = disk
<1> DEFINE b == [bridge[p] EXCEPT !.inbox = Tail(@)]
           r == server.registry
           m == Head(bridge[p].inbox)
<1>1. /\ bridge[p].inbox # <<>> /\ tools' = tools /\ loaded' = KeptFor(server'.registry, loaded)
  BY DEF BridgeReceives, Kept, KeptFor
<1>2. PICK listed \in Listed(b) :
        /\ Sends(p, receive_native_content_network(b, p, m, listed))
        /\ IF bridge'[p].approved = b.approved THEN listed /\ UNCHANGED budget ELSE Spend
  BY DEF BridgeReceives
<1>3. budget' \in Budget /\ budget'.last = budget.last  BY <1>2, SpendKeeps DEF TypeOK
<1>4. /\ bridge[p] \in Bridge /\ bridge[p].outbox = <<>> /\ bridge[p].link # 0
      /\ bridge[p].link \in DOMAIN r.peers => TalkOK(bridge[p], r)
  BY <1>1, BridgeHolds
<1>5. bridge[p].inbox \in Seq(Heard)  BY <1>4, BridgeFields
<1>6. /\ Tail(bridge[p].inbox) \in Seq(Heard) /\ m \in Heard /\ Len(bridge[p].inbox) \in Nat \ {0}
      /\ Len(Tail(bridge[p].inbox)) = Len(bridge[p].inbox) - 1
      /\ \A i \in 1..Len(Tail(bridge[p].inbox)) : Tail(bridge[p].inbox)[i] = bridge[p].inbox[i + 1]
  BY <1>1, <1>5
<1>7. /\ b \in Bridge /\ b.outbox = <<>> /\ b.inbox = Tail(bridge[p].inbox) /\ b.link = bridge[p].link
      /\ b.reads = bridge[p].reads /\ b.jobs = bridge[p].jobs
  BY <1>4, <1>6 DEF Bridge
<1> DEFINE next == receive_native_content_network(b, p, m, listed)
<1> HIDE DEF b, m
<1>8. Heeds(b, m, next)  BY <1>6, <1>7, NetworkHeeds
<1> HIDE DEF next
<1>9. TalkOK(bridge[p], r) => TalkOK(next, r)
  <2> SUFFICES ASSUME TalkOK(bridge[p], r)
               PROVE  TalkOK(next, r)
    OBVIOUS
  <2>1. MessageOK(m, r)  BY <1>5, <1>6 DEF TalkOK, m
  <2>2. JobsOK(b, r)  BY <1>7 DEF TalkOK, JobsOK
  <2>3. JobsOK(next, r) /\ next.inbox = b.inbox  BY <1>8, <2>1, <2>2 DEF Heeds, Works
  <2>4. \A i \in 1..Len(b.inbox) : MessageOK(b.inbox[i], r)
    <3>1. ASSUME NEW i \in 1..Len(b.inbox)
          PROVE  b.inbox[i] = bridge[p].inbox[i + 1] /\ i + 1 \in 1..Len(bridge[p].inbox)
      BY <1>6, <1>7
    <3> QED  BY <3>1 DEF TalkOK
  <2> QED  BY <2>3, <2>4 DEF TalkOK, JobsOK
<1>10. Speaks(server, bridge[p], next, loaded)
  <2>1. Works(b, next) /\ Sayable(next, loaded)  BY <1>8, QuietIsSayable DEF Heeds
  <2> QED  BY <1>4, <1>7, <1>9, <2>1 DEF Works, Speaks
<1>11. Sends(p, next)  BY <1>2 DEF next
<1> QED  BY <1>1, <1>3, <1>10, <1>11, SendsKeeps

LEMMA BridgeUpdatesKeeps ==
  ASSUME TypeOK, IInv, NEW p \in Process, BridgeUpdates(p)
  PROVE  IInv' /\ budget' \in Budget /\ server'.registry.versions = server.registry.versions /\ disk' = disk
<1> DEFINE b == bridge[p]
           t == FirstWaiting(b)
           r == server.registry
<1>1. b.approved /\ Waiting(b) # {} /\ tools' = tools  BY DEF BridgeUpdates
<1>2. PICK reads \in IF Steady THEN {b.reads} ELSE Properties, listed \in Listed(b) :
        IF b.jobs[t].phase = "check_parts"
        THEN /\ listed /\ reads = b.reads
             /\ \E next \in check_job_parts(b, t) :
                  /\ Sends(p, next)
                  /\ IF t \in DOMAIN next.jobs /\ next.jobs[t].phase = "fetch"
                     THEN UNCHANGED budget ELSE Spend
             /\ loaded' = Kept(loaded)
        ELSE \E next \in import_job(b, t, listed, reads) :
               /\ Sends(p, next)
               /\ IF t \in DOMAIN next.jobs
                  THEN /\ Reported(b.link, b.jobs[t].png, reads)
                       /\ UNCHANGED budget
                  ELSE Spend /\ loaded' = Kept(loaded)
  BY DEF BridgeUpdates
<1>3. /\ b \in Bridge /\ b.outbox = <<>> /\ (b.link \in DOMAIN r.peers => TalkOK(b, r))
      /\ b.link = 0 => DOMAIN b.jobs = {}
  BY BridgeHolds
<1>4. DOMAIN b.jobs \in SUBSET Nat /\ b.reads \in Properties  BY <1>3, BridgeFields
<1>5. t \in DOMAIN b.jobs
  <2>1. Waiting(b) \subseteq DOMAIN b.jobs  BY DEF Waiting
  <2>2. \E x \in Waiting(b) : \A y \in Waiting(b) : x <= y
    <3> DEFINE W == Waiting(b)
    <3>1. W \subseteq Nat /\ W # {}  BY <1>1, <1>4, <2>1
    <3> HIDE DEF W
    <3>2. \E x \in W : \A y \in W : <<y, x>> \notin OpToRel(<, Nat)
      BY <3>1, NatLessThanWellFounded, WFMin
    <3>3. PICK x \in W : \A y \in W : <<y, x>> \notin OpToRel(<, Nat)  BY <3>2
    <3>4. ASSUME NEW y \in W  PROVE x <= y
      <4>1. ~(y < x)  BY <3>1, <3>3 DEF OpToRel
      <4> QED  BY <3>1, <4>1
    <3> QED  BY <3>4 DEF W
  <2>3. t \in Waiting(b)  BY <2>2 DEF FirstWaiting
  <2> QED  BY <2>1, <2>3
<1>6. b.link # 0  BY <1>3, <1>5
<1>7. reads \in Properties /\ (Steady => reads = b.reads)  BY <1>2, <1>4
<1>8. ASSUME NEW next, Works(b, next), \A x : JobsOK(b, x) => JobsOK(next, x), NEW more, Sayable(next, more)
      PROVE  Speaks(server, bridge[p], next, more)
  <2>1. TalkOK(b, r) => TalkOK(next, r)
    <3>1. next.inbox = b.inbox /\ (JobsOK(b, r) => JobsOK(next, r))  BY <1>8 DEF Works
    <3> QED  BY <3>1 DEF TalkOK, JobsOK
  <2> QED  BY <1>3, <1>6, <1>8, <2>1 DEF Works, Speaks
<1> HIDE DEF t
<1>9. CASE b.jobs[t].phase = "check_parts"
  <2>1. PICK next \in check_job_parts(b, t) :
          /\ Sends(p, next)
          /\ IF t \in DOMAIN next.jobs /\ next.jobs[t].phase = "fetch" THEN UNCHANGED budget ELSE Spend
    BY <1>2, <1>9
  <2>2. budget' \in Budget /\ budget'.last = budget.last  BY <2>1, SpendKeeps DEF TypeOK
  <2>3. loaded' = KeptFor(server'.registry, loaded)  BY <1>2, <1>9 DEF Kept, KeptFor
  <2>4. Updates(b, t, NoPNG, reads, next) /\ Quiet(next)
    <3> HIDE DEF b
    <3> QED  BY <1>3, <1>5, CheckPartsUpdates
  <2>5. Sayable(next, loaded) /\ Works(b, next) /\ \A x : JobsOK(b, x) => JobsOK(next, x)
    BY <2>4, QuietIsSayable DEF Updates
  <2>6. Speaks(server, bridge[p], next, loaded)  BY <1>8, <2>5
  <2> QED  BY <1>1, <2>1, <2>2, <2>3, <2>6, SendsKeeps
<1>10. CASE b.jobs[t].phase # "check_parts"
  <2> DEFINE png == b.jobs[t].png
  <2>1. PICK next \in import_job(b, t, listed, reads) :
          /\ Sends(p, next)
          /\ IF t \in DOMAIN next.jobs
             THEN Reported(b.link, png, reads) /\ UNCHANGED budget
             ELSE Spend /\ loaded' = Kept(loaded)
    BY <1>2, <1>10
  <2>2. budget' \in Budget /\ budget'.last = budget.last  BY <2>1, SpendKeeps DEF TypeOK
  <2>3. Updates(b, t, png, reads, next)
    <3> HIDE DEF b
    <3> QED  BY <1>3, <1>5, <1>7, ImportUpdates
  <2> DEFINE more == IF t \in DOMAIN next.jobs THEN loaded \cup {<<b.link, png, reads>>} ELSE loaded
  <2>4. loaded' = KeptFor(server'.registry, more)  BY <2>1 DEF Reported, Kept, KeptFor
  <2>5. loaded \subseteq more /\ (t \in DOMAIN next.jobs => <<b.link, png, reads>> \in more)  OBVIOUS
  <2> HIDE DEF more, png
  <2>6. next.link = b.link /\ next.reads = b.reads /\ Works(b, next) /\ \A x : JobsOK(b, x) => JobsOK(next, x)
    BY <2>3 DEF Updates, Works
  <2>7. Sayable(next, more)
    <3>1. CASE next.outbox = <<>>  BY <3>1 DEF Sayable
    <3>2. CASE next.outbox # <<>>
      <4>1. PICK frame \in Frame :
              /\ next.outbox = <<frame>> /\ frame.transaction = t /\ t \in DOMAIN next.jobs
              /\ frame.op = "observation_begin" => frame.png = png /\ frame.properties = reads
        BY <2>3, <3>2 DEF Updates, Says
      <4> QED  BY <1>7, <2>5, <2>6, <4>1 DEF Sayable
    <3> QED  BY <3>1, <3>2
  <2>8. Speaks(server, bridge[p], next, more)  BY <1>8, <2>6, <2>7
  <2> QED  BY <1>1, <2>1, <2>2, <2>4, <2>5, <2>8, SendsKeeps
<1> QED  BY <1>9, <1>10

-----------------------------------------------------------------------------
(* The steps of the bridges alone.                                         *)

\* A bridge that has nothing more to say on its link.
Cleared(old, b) ==
  /\ b \in Bridge /\ b.outbox = <<>>
  /\ \/ b.link = 0 /\ b.inbox = <<>> /\ DOMAIN b.jobs = {}
     \/ /\ b.link = old.link /\ b.reads = old.reads /\ b.inbox = old.inbox
        /\ \A r : JobsOK(old, r) => JobsOK(b, r)
        /\ b.link = 0 => DOMAIN b.jobs = {}

LEMMA ClearedKeeps ==
  ASSUME IInv, NEW p \in Process, NEW b, Cleared(bridge[p], b), bridge' = [bridge EXCEPT ![p] = b],
         UNCHANGED <<server, disk, tools, loaded>>, budget'.last = budget.last, budget.last \in Nat
  PROVE  IInv'
<1> DEFINE r == server.registry
           old == bridge[p]
<1>1. /\ bridge \in [Process -> Bridge] /\ \A x \in Process : BridgeOK(x, bridge[x], r)
      /\ ServerOK(server, loaded) /\ (Steady => ReadingsOK(server, bridge[0])) /\ DiskOK(server, disk)
      /\ ToolsOK(server, bridge, tools) /\ LastOK(server, bridge, budget.last)
  BY DEF IInv, SessionOK, BridgesOK
<1>2. /\ b \in Bridge /\ b.outbox = <<>>
      /\ \/ b.link = 0 /\ b.inbox = <<>> /\ DOMAIN b.jobs = {}
         \/ /\ b.link = old.link /\ b.reads = old.reads /\ b.inbox = old.inbox
            /\ \A x : JobsOK(old, x) => JobsOK(b, x)
            /\ b.link = 0 => DOMAIN b.jobs = {}
  BY DEF Cleared
<1>3. bridge' \in [Process -> Bridge] /\ bridge'[p] = b /\ \A x \in Process \ {p} : bridge'[x] = bridge[x]
  BY <1>1, <1>2
<1>4. 0 \notin DOMAIN r.peers  BY <1>1 DEF ServerOK, RegistryOK, PeersOK
<1>5. BridgeOK(p, b, r)
  <2>1. CASE b.link = 0 /\ b.inbox = <<>> /\ DOMAIN b.jobs = {}
    BY <1>2, <1>4, <2>1 DEF BridgeOK
  <2>2. CASE /\ b.link = old.link /\ b.reads = old.reads /\ b.inbox = old.inbox
             /\ \A x : JobsOK(old, x) => JobsOK(b, x)
             /\ b.link = 0 => DOMAIN b.jobs = {}
    <3>1. BridgeOK(p, old, r)  BY <1>1
    <3>2. TalkOK(old, r) => TalkOK(b, r)  BY <2>2 DEF TalkOK, JobsOK
    <3> HIDE DEF old, r
    <3> QED  BY <1>2, <2>2, <3>1, <3>2 DEF BridgeOK
  <2> QED  BY <1>2, <2>1, <2>2
<1>6. BridgesOK(bridge', r)  BY <1>1, <1>3, <1>5 DEF BridgesOK
<1>7. ToolsOK(server, bridge', tools)
  <2>1. \A c \in tools : c # 0  BY <1>1, <1>4 DEF ToolsOK
  <2>2. \A c \in tools : bridge'[p].link # c  BY <1>1, <1>2, <1>3, <2>1 DEF ToolsOK
  <2> QED  BY <1>1, <1>3, <2>2 DEF ToolsOK
<1>8. LastOK(server, bridge', budget.last)
  <2>1. bridge'[p].link <= budget.last /\ bridge'[p].link >= Ended
    <3>1. b.link = 0 \/ b.link = old.link  BY <1>2
    <3>2. old.link <= budget.last /\ old.link >= Ended  BY <1>1 DEF LastOK
    <3> HIDE DEF old
    <3> QED  BY <1>3, <3>1, <3>2 DEF Ended
  <2> QED  BY <1>1, <1>3, <2>1 DEF LastOK
<1>9. Steady => ReadingsOK(server, bridge'[0])
  <2>1. bridge'[0].link = 0 \/ (bridge'[0].link = bridge[0].link /\ bridge'[0].reads = bridge[0].reads)
    <3>1. 0 \in Process  BY DEF Process
    <3> QED  BY <1>2, <1>3, <3>1
  <2> DEFINE n == bridge'[0]
             o == bridge[0]
  <2> HIDE DEF n, o
  <2>2. ReadingsOK(server, o) => ReadingsOK(server, n)  BY <2>1, ReadingsKeep DEF n, o
  <2> QED  BY <1>1, <2>2 DEF n, o
<1>10. SessionOK(server, bridge', tools, loaded, budget.last)
  BY <1>1, <1>6, <1>7, <1>8, <1>9 DEF SessionOK
<1> QED  BY <1>1, <1>10 DEF IInv

LEMMA JobExpiresKeeps ==
  ASSUME TypeOK, IInv, NEW p \in Process, JobExpires(p)
  PROVE  IInv' /\ budget' \in Budget
<1>1. budget' \in Budget /\ budget'.last = budget.last /\ budget.last \in Nat
  BY SpendKeeps DEF TypeOK, JobExpires, Budget
<1>2. PICK t \in DOMAIN bridge[p].jobs : bridge' = [bridge EXCEPT ![p] = remove(@, t)]  BY DEF JobExpires
<1>3. bridge[p] \in Bridge /\ bridge[p].outbox = <<>> /\ (bridge[p].link = 0 => DOMAIN bridge[p].jobs = {})
  BY BridgeHolds
<1> DEFINE b == remove(bridge[p], t)
           old == bridge[p]
<1>4. bridge' = [bridge EXCEPT ![p] = b]  BY <1>2
<1>5. Cleared(old, b)
  <2>1. Works(old, b) /\ b.outbox = <<>> /\ \A r : JobsOK(old, r) => JobsOK(b, r)
    <3> HIDE DEF old
    <3> QED  BY <1>3, RemoveWorks DEF old
  <2>2. old.link # 0  BY <1>2, <1>3
  <2> HIDE DEF b, old
  <2> QED  BY <2>1, <2>2 DEF Cleared, Works
<1> HIDE DEF b
<1>6. UNCHANGED <<server, disk, tools, loaded>>  BY DEF JobExpires
<1> QED  BY <1>1, <1>4, <1>5, <1>6, ClearedKeeps

LEMMA BridgeLosesLinkKeeps ==
  ASSUME TypeOK, IInv, NEW p \in Process, BridgeLosesLink(p)
  PROVE  IInv' /\ budget' \in Budget
<1>1. budget' \in Budget /\ budget'.last = budget.last /\ budget.last \in Nat
  <2>1. Spend \/ budget' = budget  BY DEF BridgeLosesLink
  <2> QED  BY <2>1, SpendKeeps DEF TypeOK, Budget
<1> DEFINE old == bridge[p]
           fenced == fence_native_content_network(old)
           b == connection_lost(old)
<1>2. old \in Bridge /\ old.outbox = <<>>  BY BridgeHolds
<1>3. bridge' = [bridge EXCEPT ![p] = b]  BY DEF BridgeLosesLink
<1>4. b = [fenced EXCEPT !.link = 0, !.inbox = <<>>, !.outbox = <<>>]  BY DEF connection_lost
<1>5. fenced \in Bridge /\ DOMAIN fenced.jobs = {}
  <2> HIDE DEF old
  <2> QED  BY <1>2, FenceWorks DEF Works
<1> HIDE DEF fenced, b
<1>6. Cleared(old, b)
  <2>1. <<>> \in Seq(Heard) /\ <<>> \in Seq(Frame) /\ 0 \in Int  OBVIOUS
  <2>2. b \in Bridge /\ b.link = 0 /\ b.inbox = <<>> /\ b.outbox = <<>> /\ b.jobs = fenced.jobs
    BY <1>4, <1>5, <2>1 DEF Bridge
  <2> QED  BY <1>5, <2>2 DEF Cleared
<1>7. UNCHANGED <<server, disk, tools, loaded>>  BY DEF BridgeLosesLink
<1> QED  BY <1>1, <1>3, <1>6, <1>7, ClearedKeeps

LEMMA NewBridgeType ==
  ASSUME NEW reads \in Properties
  PROVE  /\ NewBridge(reads) \in Bridge /\ NewBridge(reads).link = 0 /\ NewBridge(reads).inbox = <<>>
         /\ NewBridge(reads).outbox = <<>> /\ NewBridge(reads).jobs = <<>> /\ NewBridge(reads).reads = reads
<1>1. /\ <<>> \in PartialFunction(Nat, Job) /\ <<>> \in PartialFunction(Nat, RequestOp)  BY EmptyFunction
<1>2. <<>> \in Seq(Heard) /\ <<>> \in Seq(Frame)  OBVIOUS
<1> QED  BY <1>1, <1>2 DEF NewBridge, Bridge

LEMMA GameRestartsKeeps ==
  ASSUME TypeOK, IInv, NEW p \in Process, GameRestarts(p)
  PROVE  IInv' /\ budget' \in Budget
<1>1. budget' \in Budget /\ budget'.last = budget.last /\ budget.last \in Nat
  BY SpendKeeps DEF TypeOK, GameRestarts, Budget
<1>2. PICK reads \in Properties : bridge' = [bridge EXCEPT ![p] = NewBridge(reads)]  BY DEF GameRestarts
<1> DEFINE b == NewBridge(reads)
<1>3. b \in Bridge /\ b.link = 0 /\ b.inbox = <<>> /\ b.outbox = <<>> /\ DOMAIN b.jobs = {}
  BY NewBridgeType, EmptyFunction
<1>4. bridge' = [bridge EXCEPT ![p] = b]  BY <1>2
<1> HIDE DEF b
<1>5. Cleared(bridge[p], b)  BY <1>3 DEF Cleared
<1>6. UNCHANGED <<server, disk, tools, loaded>>  BY DEF GameRestarts
<1> QED  BY <1>1, <1>4, <1>5, <1>6, ClearedKeeps

-----------------------------------------------------------------------------
(* The steps of the content tools.                                         *)

\* A version enters the store only as every peer reported it.
NewAsLoaded ==
  \A v \in disk'.stored.versions \ disk.stored.versions :
    \A c \in DOMAIN server.registry.peers : <<c, v.png, v.properties>> \in loaded

LEMMA RequestType ==
  ASSUME NEW op \in RequestOp, NEW t \in Nat
  PROVE  /\ Request(op, t) \in Frame /\ Request(op, t).op = op /\ Request(op, t).transaction = t
<1>1. NoPNG \in Image /\ NoProperties \in Reading  BY DEF Image, Reading
<1> QED  BY <1>1 DEF Request, Frame

LEMMA ToolAsks ==
  ASSUME IInv, NEW c \in tools, NEW frame \in Frame, frame.transaction <= server.registry.next,
         NEW more, loaded \subseteq more,
         frame.op = "observation_begin" => <<c, frame.png, frame.properties>> \in more
  PROVE  Asked(server, c, frame, more, bridge[0])
<1>1. /\ ServerOK(server, loaded) /\ (Steady => ReadingsOK(server, bridge[0])) /\ PeersOK(server.registry)
      /\ c \in DOMAIN server.registry.peers /\ server.registry.peers[c] # 0
  BY DEF IInv, SessionOK, ServerOK, RegistryOK, ToolsOK
<1>2. c # server.registry.authority  BY <1>1 DEF PeersOK
<1>3. ServerOK(server, more)  BY <1>1, MoreReports
<1> QED  BY <1>1, <1>2, <1>3 DEF Asked, BeginsTruly

LEMMA ToolServesKeeps ==
  ASSUME IInv, NEW c \in tools, NEW frame \in Frame, frame.transaction <= server.registry.next,
         frame.op \notin ObservationOp, Serves(c, frame, bridge), loaded' = KeptFor(server'.registry, loaded),
         tools' = tools, budget'.last = budget.last
  PROVE  IInv' /\ disk' = disk
<1> DEFINE result == receive(server, c, frame, FALSE)
           v == result.server
           h == Hearing(bridge, c, result)
<1>1. Asked(server, c, frame, loaded, bridge[0])  BY ToolAsks DEF ObservationOp
<1>2. /\ SessionOK(server, bridge, tools, loaded, budget.last)
      /\ BridgesOK(bridge, server.registry) /\ DiskOK(server, disk)
  BY DEF IInv, SessionOK
<1>3. SameLinks(bridge, bridge)  BY DEF SameLinks
<1>4. Asking(server, bridge, tools, loaded, budget.last, bridge, c, frame, loaded)
  BY <1>1, <1>2, <1>3 DEF Asking
<1>5. /\ SessionOK(v, h, tools, KeptFor(v.registry, loaded), budget.last)
      /\ Publishes(server.registry, v.registry, FALSE)
  BY <1>4, ServedSession
<1>6. server' = v /\ bridge' = h /\ disk' = disk  BY DEF Serves, Answers, Hearing
<1>7. v.registry.versions = server.registry.versions  BY <1>5 DEF Publishes
<1> HIDE DEF v, h
<1>8. DiskOK(v, disk)  BY <1>2, <1>7, DiskKept
<1> QED  BY <1>5, <1>6, <1>8 DEF IInv

LEMMA DraftsAreNumbered ==
  ASSUME IInv, NEW t \in DOMAIN server.registry.transactions
  PROVE  t \in Nat /\ t <= server.registry.next
<1>1. server \in Server /\ DraftsOK(server.registry)  BY DEF IInv, SessionOK, ServerOK, RegistryOK
<1>2. DOMAIN server.registry.transactions \in SUBSET Nat  BY <1>1, ServerFields, RegistryFields
<1> QED  BY <1>1, <1>2 DEF DraftsOK

LEMMA ToolFramesType ==
  ASSUME NEW t \in Nat, NEW frame \in ToolFrames(t)
  PROVE  frame \in Frame /\ frame.transaction = t /\ frame.op \notin ObservationOp
<1>1. ASSUME NEW png \in PNG, frame = [Request("offer", t) EXCEPT !.png = png]
      PROVE  frame \in Frame /\ frame.transaction = t /\ frame.op = "offer"
  <2> DEFINE asks == Request("offer", t)
  <2>1. asks \in Frame /\ asks.op = "offer" /\ asks.transaction = t  BY RequestType DEF RequestOp
  <2>2. png \in Image /\ frame = [asks EXCEPT !.png = png]  BY <1>1 DEF Image
  <2> HIDE DEF asks
  <2> QED  BY <2>1, <2>2 DEF Frame
<1>2. ASSUME NEW bytes \in {"whole", "other"}, frame = [Request("chunk", t) EXCEPT !.bytes = bytes]
      PROVE  frame \in Frame /\ frame.transaction = t /\ frame.op = "chunk"
  <2> DEFINE asks == Request("chunk", t)
  <2>1. asks \in Frame /\ asks.op = "chunk" /\ asks.transaction = t  BY RequestType DEF RequestOp
  <2>2. bytes \in {"none", "whole", "other"} /\ frame = [asks EXCEPT !.bytes = bytes]  BY <1>2
  <2> HIDE DEF asks
  <2> QED  BY <2>1, <2>2 DEF Frame
<1>3. ASSUME NEW op \in {"seal", "cancel", "dependency_failure"}, frame = Request(op, t)
      PROVE  frame \in Frame /\ frame.transaction = t /\ frame.op \in {"seal", "cancel", "dependency_failure"}
  <2>1. op \in RequestOp  BY DEF RequestOp
  <2> QED  BY <1>3, <2>1, RequestType
<1>4. \/ \E png \in PNG : frame = [Request("offer", t) EXCEPT !.png = png]
      \/ \E bytes \in {"whole", "other"} : frame = [Request("chunk", t) EXCEPT !.bytes = bytes]
      \/ \E op \in {"seal", "cancel", "dependency_failure"} : frame = Request(op, t)
  BY DEF ToolFrames
<1> QED  BY <1>1, <1>2, <1>3, <1>4 DEF ObservationOp

LEMMA ToolBeginsKeeps ==
  ASSUME TypeOK, IInv, NEW c \in tools, NEW base \in {v.revision : v \in server.registry.versions} \cup {0},
         Serves(c, [Request("begin", 0) EXCEPT !.base = base], bridge), loaded' = KeptFor(server'.registry, loaded),
         tools' = tools, budget'.last = budget.last
  PROVE  IInv' /\ disk' = disk
<1> DEFINE asks == Request("begin", 0)
           frame == [asks EXCEPT !.base = base]
<1>1. asks \in Frame /\ asks.op = "begin" /\ asks.transaction = 0  BY RequestType DEF RequestOp
<1>2. server.registry \in Registry  BY ServerFields DEF TypeOK
<1>3. base \in Nat
  <2>1. \A v \in server.registry.versions : v.revision \in Nat  BY <1>2, RegistryFields DEF Version
  <2> QED  BY <2>1
<1>4. Serves(c, frame, bridge)  OBVIOUS
<1> HIDE DEF asks
<1>5. frame \in Frame /\ frame.transaction = 0 /\ frame.op = "begin"  BY <1>1, <1>3 DEF Frame
<1> HIDE DEF frame
<1>6. frame.transaction <= server.registry.next /\ frame.op \notin ObservationOp
  BY <1>2, <1>5, RegistryFields DEF ObservationOp
<1> QED  BY <1>4, <1>5, <1>6, ToolServesKeeps

LEMMA ToolFramesKeep ==
  ASSUME TypeOK, IInv, NEW c \in tools, NEW t \in DOMAIN server.registry.transactions, NEW frame \in ToolFrames(t),
         Serves(c, frame, bridge), loaded' = KeptFor(server'.registry, loaded),
         tools' = tools, budget'.last = budget.last
  PROVE  IInv' /\ disk' = disk
<1>1. t \in Nat /\ t <= server.registry.next  BY DraftsAreNumbered
<1>2. frame \in Frame /\ frame.transaction = t /\ frame.op \notin ObservationOp  BY <1>1, ToolFramesType
<1>3. frame.transaction <= server.registry.next  BY <1>1, <1>2
<1> QED  BY <1>2, <1>3, ToolServesKeeps

\* What a commit wrote, or left half written.
LEMMA SnapshotDisk ==
  ASSUME NEW v, NEW reports, ServerOK(v, reports), NEW b, Steady => ReadingsOK(v, b), NEW s, NEW broken \in BOOLEAN,
         s.registry.versions \subseteq v.registry.versions,
         ~broken => s.registry.versions = v.registry.versions,
         NEW k, k = [stored |-> snapshot(v.registry), broken |-> broken]
  PROVE  DiskOK(s, k)
<1> DEFINE q == v.registry
           new == snapshot(q)
<1>1. q \in Registry /\ Whole(new) /\ NumbersOK(q)  BY ServerFields DEF ServerOK, RegistryOK
<1>2. /\ new \in Stored /\ new.versions = q.versions /\ new.next = q.next
  BY <1>1, RegistryFields DEF snapshot, Stored
<1>3. new.next >= Cardinality(new.versions)
  <2>1. IsFiniteSet(q.versions) /\ IsFiniteSet(DOMAIN q.transactions)
    BY <1>1, <1>2 DEF Whole, NumbersOK
  <2>2. Cardinality(q.versions) \in Nat /\ Cardinality(DOMAIN q.transactions) \in Nat
    BY <2>1, FS_CardinalityType
  <2>3. q.next \in Nat /\ q.next >= Cardinality(q.versions) + Cardinality(DOMAIN q.transactions)
    BY <1>1, RegistryFields DEF NumbersOK
  <2> QED  BY <1>2, <2>2, <2>3
<1>4. Steady => OneReading(q.versions)  BY DEF ReadingsOK
<1> HIDE DEF new
<1>5. k.stored = new /\ k.broken = broken /\ k \in [stored : Stored, broken : BOOLEAN]  BY <1>2 DEF new
<1> QED  BY <1>1, <1>2, <1>3, <1>4, <1>5 DEF DiskOK

LEMMA CommitsKeeps ==
  ASSUME TypeOK, IInv, NEW c \in tools, NEW t \in DOMAIN server.registry.transactions, Commits(c, t),
         loaded' = KeptFor(server'.registry, loaded), tools' = tools
  PROVE  IInv' /\ budget' \in Budget /\ NewAsLoaded
<1> DEFINE frame == Request("commit", t)
           stored == receive(server, c, frame, TRUE)
           refused == receive(server, c, frame, FALSE)
           new == snapshot(stored.server.registry)
           r == server.registry
<1>1. t \in Nat /\ t <= r.next  BY DraftsAreNumbered
<1>2. frame \in Frame /\ frame.op = "commit" /\ frame.transaction = t  BY <1>1, RequestType DEF RequestOp
<1>3. \/ Answers(c, refused, bridge) /\ UNCHANGED <<disk, budget>>
      \/ /\ ~disk.broken /\ Answers(c, stored, bridge) /\ disk' = [disk EXCEPT !.stored = new] /\ UNCHANGED budget
      \/ /\ ~disk.broken /\ Spend /\ Answers(c, refused, bridge)
         /\ \E kept \in {disk.stored, new} : disk' = [stored |-> kept, broken |-> TRUE]
  BY DEF Commits
<1> HIDE DEF frame
<1>4. /\ SessionOK(server, bridge, tools, loaded, budget.last) /\ BridgesOK(bridge, r) /\ DiskOK(server, disk)
      /\ MappingsOK(r, loaded)
  BY DEF IInv, SessionOK, ServerOK
<1>5. Asking(server, bridge, tools, loaded, budget.last, bridge, c, frame, loaded)
  <2>1. Asked(server, c, frame, loaded, bridge[0])  BY <1>1, <1>2, ToolAsks
  <2>2. SameLinks(bridge, bridge)  BY DEF SameLinks
  <2> QED  BY <1>2, <1>4, <2>1, <2>2 DEF Asking, ObservationOp
<1> DEFINE v == stored.server
           u == refused.server
           hv == Hearing(bridge, c, stored)
           hu == Hearing(bridge, c, refused)
<1>6. /\ SessionOK(v, hv, tools, KeptFor(v.registry, loaded), budget.last) /\ Publishes(r, v.registry, TRUE)
  BY <1>5, ServedSession
<1>7. /\ SessionOK(u, hu, tools, KeptFor(u.registry, loaded), budget.last) /\ Publishes(r, u.registry, FALSE)
  BY <1>5, ServedSession
<1>8. u.registry.versions = r.versions  BY <1>7 DEF Publishes
<1>9. r.versions \subseteq v.registry.versions  BY <1>6 DEF Publishes
<1>10. ASSUME NEW m \in v.registry.versions \ r.versions, NEW d \in DOMAIN r.peers
       PROVE  <<d, m.png, m.properties>> \in loaded
  <2>1. PICK x \in DOMAIN r.transactions : /\ v.registry.versions = r.versions \cup {manifest(r.transactions[x])}
                                           /\ DOMAIN r.peers \subseteq r.transactions[x].mappings
    BY <1>6, <1>10 DEF Publishes
  <2>2. m = manifest(r.transactions[x])  BY <1>10, <2>1
  <2>3. m.png = r.transactions[x].png /\ m.properties = r.transactions[x].properties  BY <2>2 DEF manifest
  <2>4. d \in r.transactions[x].mappings  BY <1>10, <2>1
  <2> HIDE DEF r
  <2> QED  BY <1>4, <2>3, <2>4 DEF MappingsOK
<1>11. ServerOK(v, KeptFor(v.registry, loaded)) /\ (Steady => ReadingsOK(v, hv[0]))  BY <1>6 DEF SessionOK
<1>12. new.versions = v.registry.versions  BY DEF snapshot
<1>13. disk \in [stored : Stored, broken : BOOLEAN] /\ budget \in Budget  BY DEF TypeOK
<1>14. ~disk.broken => disk.stored.versions = r.versions  BY <1>4 DEF DiskOK
<1>15. CASE Answers(c, refused, bridge) /\ UNCHANGED <<disk, budget>>
  <2>1. server' = u /\ bridge' = hu  BY <1>15 DEF Answers, Hearing
  <2> HIDE DEF u, hu
  <2>2. DiskOK(u, disk)  BY <1>4, <1>8, DiskKept
  <2>3. IInv'  BY <1>7, <1>15, <2>1, <2>2 DEF IInv
  <2> QED  BY <1>13, <1>15, <2>3 DEF NewAsLoaded
<1>16. CASE /\ ~disk.broken /\ Answers(c, stored, bridge) /\ disk' = [disk EXCEPT !.stored = new] /\ UNCHANGED budget
  <2>1. server' = v /\ bridge' = hv  BY <1>16 DEF Answers, Hearing
  <2>2. disk' = [stored |-> new, broken |-> FALSE]  BY <1>13, <1>16
  <2>3. new = snapshot(v.registry)  OBVIOUS
  <2> HIDE DEF v, hv, new
  <2>4. DiskOK(v, disk')  BY <1>11, <2>2, <2>3, SnapshotDisk
  <2>5. IInv'  BY <1>6, <1>16, <2>1, <2>4 DEF IInv
  <2>6. disk'.stored.versions = v.registry.versions  BY <1>12, <2>2
  <2>7. NewAsLoaded  BY <1>10, <1>14, <1>16, <2>6 DEF NewAsLoaded
  <2> QED  BY <1>13, <1>16, <2>5, <2>7
<1>17. ASSUME NEW kept \in {disk.stored, new}, ~disk.broken, Spend, Answers(c, refused, bridge),
              disk' = [stored |-> kept, broken |-> TRUE]
       PROVE  IInv' /\ budget' \in Budget /\ NewAsLoaded
  <2>1. server' = u /\ bridge' = hu  BY <1>17 DEF Answers, Hearing
  <2>2. budget' \in Budget /\ budget'.last = budget.last  BY <1>13, <1>17, SpendKeeps
  <2>3. new = snapshot(v.registry)  OBVIOUS
  <2> HIDE DEF v, hv, u, hu, new
  <2>4. DiskOK(u, disk')
    <3>1. CASE kept = new
      <4>1. u.registry.versions \subseteq v.registry.versions  BY <1>8, <1>9
      <4> QED  BY <1>11, <1>17, <2>3, <3>1, <4>1, SnapshotDisk
    <3>2. CASE kept = disk.stored
      <4>1. disk'.stored = disk.stored /\ disk'.broken = TRUE /\ disk' \in [stored : Stored, broken : BOOLEAN]
        BY <1>13, <1>17, <3>2
      <4> QED  BY <1>4, <1>8, <4>1 DEF DiskOK
    <3> QED  BY <1>17, <3>1, <3>2
  <2>5. IInv'  BY <1>7, <1>17, <2>1, <2>2, <2>4 DEF IInv
  <2>6. disk'.stored.versions \in {disk.stored.versions, v.registry.versions}  BY <1>12, <1>17
  <2>7. NewAsLoaded  BY <1>10, <1>14, <1>17, <2>6 DEF NewAsLoaded
  <2> QED  BY <2>2, <2>5, <2>7
<1> HIDE DEF stored, refused, new
<1> QED  BY <1>3, <1>15, <1>16, <1>17

\* A request that is one of an observation's own: what holds before and after.
Observing(s, c, more, b) ==
  ServerOK(s, more) /\ (Steady => ReadingsOK(s, b)) /\ c \in DOMAIN s.registry.peers /\ c # s.registry.authority

Observe(s, c, t, v, failed) ==
  /\ Contract(s.registry, v.registry) /\ v.registry.versions = s.registry.versions
  /\ \A d \in DOMAIN s.uploads \ {c} : SameUpload(s.uploads[d], v.uploads[d])
  /\ DOMAIN v.uploads = DOMAIN s.uploads
  /\ failed => Mild(s.registry, v.registry)

LEMMA ObservingStep ==
  ASSUME NEW s, NEW c, NEW more, NEW b, Observing(s, c, more, b), NEW frame \in Frame,
         frame.transaction <= s.registry.next, frame.op \in ObservationOp,
         frame.op = "observation_begin" => <<c, frame.png, frame.properties>> \in more,
         NEW result, result = receive(s, c, frame, FALSE)
  PROVE  /\ Observing(result.server, c, more, b) /\ ObservedSteps(s, c, frame, result)
         /\ Observe(s, c, frame.transaction, result.server, frame.op # "observation_end" \/ result.failure # "none")
<1> DEFINE v == result.server
           r == s.registry
           q == v.registry
<1>1. Asked(s, c, frame, more, b)  BY DEF Asked, Observing, BeginsTruly
<1>2. Received(s, more, b, FALSE, result) /\ ObservedSteps(s, c, frame, result)  BY <1>1, ReceiveServes
<1>3. /\ ServerOK(v, more) /\ (Steady => ReadingsOK(v, b)) /\ Contract(r, q) /\ Publishes(r, q, FALSE)
  BY <1>2 DEF Received
<1>4. q.peers = r.peers /\ q.authority = r.authority /\ q.versions = r.versions
  BY <1>3 DEF Contract, Publishes
<1>5. DOMAIN s.uploads = DOMAIN r.peers /\ DOMAIN v.uploads = DOMAIN q.peers
  BY <1>3 DEF Observing, ServerOK, UploadsOK
<1> HIDE DEF v
<1>6. Observing(v, c, more, b)  BY <1>3, <1>4 DEF Observing
<1>7. Observe(s, c, frame.transaction, v, frame.op # "observation_end" \/ result.failure # "none")
  <2>1. \A d \in DOMAIN s.uploads \ {c} : SameUpload(s.uploads[d], v.uploads[d])
    BY <1>2 DEF ObservedSteps, v
  <2>2. frame.op # "observation_end" \/ result.failure # "none" => Mild(r, q)
    BY <1>2 DEF ObservedSteps, ObservationOp, v
  <2> QED  BY <1>3, <1>4, <1>5, <2>1, <2>2 DEF Observe
<1> QED  BY <1>2, <1>6, <1>7 DEF v

LEMMA ObserveTransitive ==
  ASSUME NEW s, s.registry \in Registry, NEW v, NEW w, NEW c, NEW t, NEW first, NEW second,
         Observe(s, c, t, v, first), Observe(v, c, t, w, second), first
  PROVE  Observe(s, c, t, w, second)
<1>1. Contract(s.registry, w.registry)  BY ContractTransitive DEF Observe
<1>2. second => Mild(s.registry, w.registry)  BY MildTransitive DEF Observe
<1>3. \A d \in DOMAIN s.uploads \ {c} : SameUpload(s.uploads[d], w.uploads[d])
  BY DEF Observe, SameUpload
<1> QED  BY <1>1, <1>2, <1>3 DEF Observe

\* An observation's three requests in a row.
ObservedWhole(s, c, more, b, result) ==
  /\ Observing(result.server, c, more, b) /\ result.server.uploads[c].transaction = 0
  /\ Observe(s, c, 0, result.server, result.failure # "none")

LEMMA ObservedServes ==
  ASSUME NEW s, NEW c, NEW more, NEW b, Observing(s, c, more, b), s.uploads[c].transaction = 0,
         NEW frame \in Frame, frame.transaction <= s.registry.next, frame.op = "observation_begin",
         <<c, frame.png, frame.properties>> \in more, NEW result, result = Observed(c, frame), s = server
  PROVE  ObservedWhole(s, c, more, b, result)
<1> DEFINE t == frame.transaction
           chunk == Request("observation_chunk", t)
           end == Request("observation_end", t)
           R1 == receive(s, c, frame, FALSE)
           s1 == R1.server
           R2 == receive(s1, c, chunk, FALSE)
           s2 == R2.server
           R3 == receive(s2, c, end, FALSE)
           s3 == R3.server
<1>1. result = R3  BY DEF Observed
<1>2. t \in Nat  BY DEF Frame
<1>3. /\ chunk \in Frame /\ chunk.op = "observation_chunk" /\ chunk.transaction = t
      /\ end \in Frame /\ end.op = "observation_end" /\ end.transaction = t
  BY <1>2, RequestType DEF RequestOp
<1> HIDE DEF chunk, end
<1>4. s \in Server /\ s.registry \in Registry /\ c \in DOMAIN s.uploads
  BY ServerFields DEF Observing, ServerOK, UploadsOK
<1>5. /\ Observing(s1, c, more, b) /\ ObservedSteps(s, c, frame, R1)
      /\ Observe(s, c, t, s1, frame.op # "observation_end" \/ R1.failure # "none")
  BY ObservingStep DEF ObservationOp
<1> HIDE DEF R1
<1>6. t <= s1.registry.next /\ s1.registry \in Registry
  <2>1. s1.registry \in Registry /\ s1.registry.next >= s.registry.next
    BY <1>5 DEF Observe, Contract, Moves
  <2>2. s1.registry.next \in Nat /\ s.registry.next \in Nat  BY <1>4, <2>1, RegistryFields
  <2> QED  BY <1>2, <2>1, <2>2
<1>7. /\ Observing(s2, c, more, b) /\ ObservedSteps(s1, c, chunk, R2)
      /\ Observe(s1, c, t, s2, chunk.op # "observation_end" \/ R2.failure # "none")
  <2>1. chunk.transaction <= s1.registry.next /\ chunk.op \in ObservationOp /\ chunk.op # "observation_begin"
    BY <1>3, <1>6 DEF ObservationOp
  <2>2. Observing(s1, c, more, b) /\ R2 = receive(s1, c, chunk, FALSE)  BY <1>5
  <2> HIDE DEF s1, R2
  <2>3. /\ Observing(R2.server, c, more, b) /\ ObservedSteps(s1, c, chunk, R2)
        /\ Observe(s1, c, chunk.transaction, R2.server, chunk.op # "observation_end" \/ R2.failure # "none")
    BY <1>3, <2>1, <2>2, ObservingStep
  <2> QED  BY <1>3, <2>3
<1> HIDE DEF R2
<1>8. t <= s2.registry.next /\ s2.registry \in Registry
  <2>1. s2.registry \in Registry /\ s2.registry.next >= s1.registry.next
    BY <1>7 DEF Observe, Contract, Moves
  <2>2. s2.registry.next \in Nat /\ s1.registry.next \in Nat  BY <1>6, <2>1, RegistryFields
  <2> QED  BY <1>2, <1>6, <2>1, <2>2
<1>9. /\ Observing(s3, c, more, b) /\ ObservedSteps(s2, c, end, R3)
      /\ Observe(s2, c, t, s3, end.op # "observation_end" \/ R3.failure # "none")
  <2>1. end.transaction <= s2.registry.next /\ end.op \in ObservationOp /\ end.op # "observation_begin"
    BY <1>3, <1>8 DEF ObservationOp
  <2>2. Observing(s2, c, more, b) /\ R3 = receive(s2, c, end, FALSE)  BY <1>7
  <2> HIDE DEF s2, R3
  <2>3. /\ Observing(R3.server, c, more, b) /\ ObservedSteps(s2, c, end, R3)
        /\ Observe(s2, c, end.transaction, R3.server, end.op # "observation_end" \/ R3.failure # "none")
    BY <1>3, <2>1, <2>2, ObservingStep
  <2> QED  BY <1>3, <2>3
<1> HIDE DEF R3
<1>10. s3.uploads[c].transaction = 0
  <2>1. s1.uploads[c].transaction = 0 \/ (s1.uploads[c].transaction = t /\ ~s1.uploads[c].whole)
    BY <1>5 DEF ObservedSteps
  <2>2. s2.uploads[c].transaction = 0 \/ (s2.uploads[c].transaction = t /\ s2.uploads[c].whole)
    BY <1>3, <1>7, <2>1 DEF ObservedSteps
  <2> QED  BY <1>3, <1>9, <2>2 DEF ObservedSteps
<1>11. Observe(s, c, t, s2, TRUE)
  <2>1. Observe(s, c, t, s1, TRUE)  BY <1>5 DEF Observe
  <2>2. Observe(s1, c, t, s2, TRUE)  BY <1>3, <1>7 DEF Observe
  <2> HIDE DEF s1, s2
  <2> QED  BY <1>4, <2>1, <2>2, ObserveTransitive
<1>12. Observe(s, c, t, s3, R3.failure # "none")
  <2>1. Observe(s2, c, t, s3, R3.failure # "none")  BY <1>3, <1>9 DEF Observe
  <2> HIDE DEF s2, s3
  <2> QED  BY <1>4, <1>11, <2>1, ObserveTransitive
<1>13. Observe(s, c, 0, s3, R3.failure # "none")  BY <1>12 DEF Observe
<1> QED  BY <1>1, <1>9, <1>10, <1>13 DEF ObservedWhole

LEMMA ObservedKeeps ==
  ASSUME TypeOK, IInv, NEW c \in tools, NEW t \in DOMAIN server.registry.transactions, NEW said \in Reports(c, t),
         NEW result,
         result = Observed(c, [Request("observation_begin", t) EXCEPT !.png = said[1], !.properties = said[2]]),
         server' = result.server,
         loaded' = KeptFor(server'.registry,
                           IF result.failure = "none" THEN loaded \cup {<<c, said[1], said[2]>>} ELSE loaded),
         UNCHANGED <<tools, disk, bridge, budget>>
  PROVE  IInv'
<1> DEFINE asks == Request("observation_begin", t)
           frame == [asks EXCEPT !.png = said[1], !.properties = said[2]]
           more == loaded \cup {<<c, said[1], said[2]>>}
           reports == IF result.failure = "none" THEN more ELSE loaded
           v == result.server
           r == server.registry
           q == v.registry
<1>1. t \in Nat /\ t <= r.next  BY DraftsAreNumbered
<1>2. said[1] \in Image /\ said[2] \in Reading
  <2>1. said \in PNG \X (Properties \cup {NoProperties}) \/ said = <<NoPNG, NoProperties>>  BY DEF Reports
  <2> QED  BY <2>1 DEF Image, Reading
<1>3. asks \in Frame /\ asks.op = "observation_begin" /\ asks.transaction = t
  BY <1>1, RequestType DEF RequestOp
<1>4. result = Observed(c, frame)  OBVIOUS
<1> HIDE DEF asks
<1>5. /\ frame \in Frame /\ frame.op = "observation_begin" /\ frame.transaction = t
      /\ frame.png = said[1] /\ frame.properties = said[2]
  BY <1>2, <1>3 DEF Frame
<1> HIDE DEF frame
<1>6. /\ ServerOK(server, loaded) /\ (Steady => ReadingsOK(server, bridge[0])) /\ BridgesOK(bridge, r)
      /\ ToolsOK(server, bridge, tools) /\ LastOK(server, bridge, budget.last) /\ DiskOK(server, disk)
      /\ PeersOK(r) /\ DraftsOK(r) /\ r \in Registry /\ DOMAIN server.uploads = DOMAIN r.peers
  BY ServerFields DEF IInv, SessionOK, ServerOK, RegistryOK, UploadsOK
<1>7. c \in DOMAIN r.peers /\ c # r.authority /\ server.uploads[c].transaction = 0  BY <1>6 DEF ToolsOK, PeersOK
<1>8. loaded \subseteq more /\ <<c, said[1], said[2]>> \in more  OBVIOUS
<1> HIDE DEF more
<1>9. Observing(server, c, more, bridge[0])
  <2>1. ServerOK(server, more)  BY <1>6, <1>8, MoreReports
  <2> QED  BY <1>6, <1>7, <2>1 DEF Observing
<1>10. ObservedWhole(server, c, more, bridge[0], result)
  BY <1>1, <1>4, <1>5, <1>7, <1>8, <1>9, ObservedServes
<1>11. /\ Observing(v, c, more, bridge[0]) /\ v.uploads[c].transaction = 0
       /\ Observe(server, c, 0, v, result.failure # "none")
  BY <1>10 DEF ObservedWhole
<1>12. /\ ServerOK(v, more) /\ (Steady => ReadingsOK(v, bridge[0])) /\ v \in Server
       /\ Contract(r, q) /\ q.versions = r.versions /\ DOMAIN v.uploads = DOMAIN server.uploads
       /\ \A d \in DOMAIN server.uploads \ {c} : SameUpload(server.uploads[d], v.uploads[d])
       /\ result.failure # "none" => Mild(r, q)
  BY <1>11 DEF Observing, Observe, ServerOK
<1>13. q \in Registry /\ Moves(r, q) /\ q.peers = r.peers  BY <1>12 DEF Contract
<1>14. SameUploads(server.uploads, v.uploads)
  <2>1. v.uploads \in PartialFunction(Nat, Upload)  BY <1>12, ServerFields
  <2>2. \A d \in DOMAIN server.uploads : SameUpload(server.uploads[d], v.uploads[d])
    BY <1>11, <1>12 DEF SameUpload
  <2> QED  BY <1>12, <2>1, <2>2 DEF SameUploads
<1>15. ServerOK(v, reports)
  <2>1. CASE result.failure # "none"
    <3>1. v = [registry |-> q, uploads |-> v.uploads]  BY <1>12 DEF Server
    <3> DEFINE u == v.uploads
    <3> HIDE DEF v, u
    <3>2. ServerOK(v, loaded)  BY <1>6, <1>12, <1>14, <2>1, <3>1, MildServer DEF u
    <3> QED  BY <2>1, <3>2
  <2> QED  BY <1>12, <2>1
<1> HIDE DEF reports
<1>16. BridgesOK(bridge, q)
  <2>1. \A p \in Process : bridge[p] \in Bridge /\ BridgeOK(p, bridge[p], r)  BY <1>6 DEF BridgesOK
  <2>2. \A p \in Process : BridgeOK(p, bridge[p], q)  BY <1>6, <1>13, <2>1, BridgeMoves
  <2> QED  BY <1>6, <2>2 DEF BridgesOK
<1>17. ToolsOK(v, bridge, tools)
  <2>1. ASSUME NEW d \in tools
        PROVE  /\ d \in DOMAIN q.peers /\ q.peers[d] # 0 /\ v.uploads[d].transaction = 0
               /\ \A p \in Process : bridge[p].link # d
    <3>1. /\ d \in DOMAIN r.peers /\ r.peers[d] # 0 /\ server.uploads[d].transaction = 0
          /\ \A p \in Process : bridge[p].link # d
      BY <1>6 DEF ToolsOK
    <3>2. SameUpload(server.uploads[d], v.uploads[d])  BY <1>6, <1>14, <3>1 DEF SameUploads
    <3> QED  BY <1>13, <3>1, <3>2 DEF SameUpload
  <2> QED  BY <2>1 DEF ToolsOK
<1>18. LastOK(v, bridge, budget.last)
  <2> HIDE DEF v
  <2> QED  BY <1>6, <1>13 DEF LastOK, v
<1>19. SessionOK(v, bridge, tools, KeptFor(q, reports), budget.last)
  <2>1. ServerOK(v, KeptFor(q, reports))  BY <1>15, KeptReports
  <2> QED  BY <1>12, <1>16, <1>17, <1>18, <2>1 DEF SessionOK
<1>20. DiskOK(v, disk)
  <2> HIDE DEF v
  <2> QED  BY <1>6, <1>12, DiskKept DEF v
<1>21. loaded' = KeptFor(server'.registry, reports)  BY DEF reports, more
<1> HIDE DEF v
<1>22. server' = v  BY DEF v
<1> QED  BY <1>19, <1>20, <1>21, <1>22 DEF IInv

LEMMA ToolRequestsKeeps ==
  ASSUME TypeOK, IInv, NEW c \in tools, ToolRequests(c)
  PROVE  IInv' /\ budget' \in Budget /\ NewAsLoaded
<1>1. tools' = tools /\ budget \in Budget  BY DEF ToolRequests, TypeOK
<1>2. ASSUME NEW base \in {v.revision : v \in server.registry.versions} \cup {0},
             Serves(c, [Request("begin", 0) EXCEPT !.base = base], bridge), loaded' = Kept(loaded),
             budget' = IF server'.registry.next = server.registry.next THEN budget
                       ELSE [budget EXCEPT !.drafts = @ - 1]
      PROVE  IInv' /\ budget' \in Budget /\ NewAsLoaded
  <2>1. loaded' = KeptFor(server'.registry, loaded)  BY <1>2 DEF Kept, KeptFor
  <2>2. budget' \in Budget /\ budget'.last = budget.last
    <3> DEFINE n == budget.drafts - 1
    <3>1. n \in Int /\ (budget' = budget \/ budget' = [budget EXCEPT !.drafts = n])  BY <1>1, <1>2 DEF Budget
    <3> HIDE DEF n
    <3> QED  BY <1>1, <3>1 DEF Budget
  <2>3. IInv' /\ disk' = disk  BY <1>1, <1>2, <2>1, <2>2, ToolBeginsKeeps
  <2> QED  BY <2>2, <2>3 DEF NewAsLoaded
<1>3. ASSUME NEW t \in DOMAIN server.registry.transactions, NEW frame \in ToolFrames(t),
             Serves(c, frame, bridge), loaded' = Kept(loaded),
             IF frame.bytes = "other" THEN Spend ELSE UNCHANGED budget
      PROVE  IInv' /\ budget' \in Budget /\ NewAsLoaded
  <2>1. loaded' = KeptFor(server'.registry, loaded)  BY <1>3 DEF Kept, KeptFor
  <2>2. budget' \in Budget /\ budget'.last = budget.last  BY <1>1, <1>3, SpendKeeps
  <2>3. IInv' /\ disk' = disk  BY <1>1, <1>3, <2>1, <2>2, ToolFramesKeep
  <2> QED  BY <2>2, <2>3 DEF NewAsLoaded
<1>4. ASSUME NEW t \in DOMAIN server.registry.transactions, Commits(c, t), loaded' = Kept(loaded)
      PROVE  IInv' /\ budget' \in Budget /\ NewAsLoaded
  <2>1. loaded' = KeptFor(server'.registry, loaded)  BY <1>4 DEF Kept, KeptFor
  <2> QED  BY <1>1, <1>4, <2>1, CommitsKeeps
<1>5. ASSUME NEW t \in DOMAIN server.registry.transactions, NEW said \in Reports(c, t), NEW result,
             result = Observed(c, [Request("observation_begin", t) EXCEPT !.png = said[1], !.properties = said[2]]),
             server' = result.server,
             IF result.failure = "none" THEN Reported(c, said[1], said[2]) ELSE loaded' = Kept(loaded),
             UNCHANGED <<disk, bridge, budget>>
      PROVE  IInv' /\ budget' \in Budget /\ NewAsLoaded
  <2>1. loaded' = KeptFor(server'.registry,
                          IF result.failure = "none" THEN loaded \cup {<<c, said[1], said[2]>>} ELSE loaded)
    BY <1>5 DEF Reported, Kept, KeptFor
  <2>2. IInv'  BY <1>1, <1>5, <2>1, ObservedKeeps
  <2> QED  BY <1>1, <1>5, <2>2 DEF NewAsLoaded
<1> QED  BY <1>2, <1>3, <1>4, <1>5 DEF ToolRequests

-----------------------------------------------------------------------------
(* Connections come and go: the registry forgets drafts and what was       *)
(* loaded, and nothing that was published.                                 *)

Lessens(r, q) ==
  /\ q \in Registry /\ PeersOK(q) /\ DOMAIN q.transactions \subseteq DOMAIN r.transactions
  /\ q.versions = r.versions /\ q.blobs = r.blobs /\ q.current = r.current /\ q.next = r.next
  /\ \A t \in DOMAIN q.transactions :
       /\ q.transactions[t].phase = r.transactions[t].phase
       /\ q.transactions[t].png = r.transactions[t].png
       /\ q.transactions[t].properties = r.transactions[t].properties
       /\ q.transactions[t].mappings \subseteq r.transactions[t].mappings \cap DOMAIN q.peers

LEMMA LessensContract ==
  ASSUME NEW r \in Registry, RegistryOK(r), NEW q, Lessens(r, q)
  PROVE  RegistryOK(q) /\ Moves(r, q) /\ Mild(r, q) /\ q \in Registry
<1>1. /\ q \in Registry /\ PeersOK(q) /\ DOMAIN q.transactions \subseteq DOMAIN r.transactions
      /\ q.versions = r.versions /\ q.blobs = r.blobs /\ q.current = r.current /\ q.next = r.next
      /\ \A t \in DOMAIN q.transactions :
           /\ q.transactions[t].phase = r.transactions[t].phase
           /\ q.transactions[t].png = r.transactions[t].png
           /\ q.transactions[t].properties = r.transactions[t].properties
           /\ q.transactions[t].mappings \subseteq r.transactions[t].mappings
           /\ q.transactions[t].mappings \subseteq DOMAIN q.peers
  BY DEF Lessens
<1>2. r.next \in Nat  BY RegistryFields
<1>3. snapshot(q) = snapshot(r)  BY <1>1 DEF snapshot
<1>4. DraftsOK(q)  BY <1>1 DEF DraftsOK, RegistryOK
<1>5. NumbersOK(q)
  <2>1. IsFiniteSet(DOMAIN r.transactions) /\ IsFiniteSet(r.versions)
    BY DEF RegistryOK, NumbersOK, Whole, snapshot
  <2>2. /\ IsFiniteSet(DOMAIN q.transactions)
        /\ Cardinality(DOMAIN q.transactions) <= Cardinality(DOMAIN r.transactions)
    BY <1>1, <2>1, FS_Subset
  <2>3. /\ Cardinality(DOMAIN q.transactions) \in Nat /\ Cardinality(DOMAIN r.transactions) \in Nat
        /\ Cardinality(r.versions) \in Nat
    BY <2>1, <2>2, FS_CardinalityType
  <2> QED  BY <1>1, <1>2, <2>2, <2>3 DEF NumbersOK, RegistryOK
<1>6. Moves(r, q)  BY <1>1, <1>2 DEF Moves, DraftStep, Fixed
<1>7. Mild(r, q)  BY <1>1 DEF Mild
<1> QED  BY <1>1, <1>3, <1>4, <1>5, <1>6, <1>7 DEF RegistryOK

\* A disconnection forgets its connection, and no authority is made by it.
Leaves(r, c, q) ==
  /\ Lessens(r, q) /\ DOMAIN q.peers = DOMAIN r.peers \ {c}
  /\ \A d \in DOMAIN q.peers : q.peers[d] = r.peers[d]
  /\ q.authority = IF c = r.authority THEN 0 ELSE r.authority

LEMMA DisconnectLeaves ==
  ASSUME NEW r \in Registry, RegistryOK(r), NEW c \in DOMAIN r.peers, NEW q, q = disconnect(r, c)
  PROVE  Leaves(r, c, q)
<1> DEFINE P == Without(r.peers, {c})
           T == r.transactions
<1>1. /\ r.peers \in PartialFunction(Nat, Player \cup {0}) /\ T \in PartialFunction(Nat, Draft)
      /\ \A t \in DOMAIN T : T[t] \in Draft /\ T[t].mappings \subseteq DOMAIN r.peers
      /\ DOMAIN T \in SUBSET Nat /\ PeersOK(r)
  BY RegistryFields DEF RegistryOK, DraftsOK
<1>2. /\ P \in PartialFunction(Nat, Player \cup {0}) /\ DOMAIN P = DOMAIN r.peers \ {c}
      /\ \A d \in DOMAIN r.peers \ {c} : P[d] = r.peers[d]
  BY <1>1, WithoutType, WithoutIs
<1> DEFINE gone == [r EXCEPT !.peers = P]
<1>3. q = IF c = r.authority THEN [[gone EXCEPT !.authority = 0] EXCEPT !.transactions = <<>>]
          ELSE [gone EXCEPT !.transactions = Forgotten(gone.transactions, c)]
  BY DEF disconnect, fence
<1> HIDE DEF P
<1>4. /\ gone \in Registry /\ gone.peers = P /\ gone.authority = r.authority /\ gone.transactions = T
      /\ gone.versions = r.versions /\ gone.blobs = r.blobs /\ gone.current = r.current /\ gone.next = r.next
  BY <1>2 DEF Registry
<1> HIDE DEF gone
<1>5. CASE c = r.authority
  <2> DEFINE lost == [gone EXCEPT !.authority = 0]
  <2>1. /\ lost \in Registry /\ lost.peers = P /\ lost.authority = 0
        /\ lost.versions = r.versions /\ lost.blobs = r.blobs /\ lost.current = r.current /\ lost.next = r.next
    BY <1>4 DEF Registry
  <2>2. q = [lost EXCEPT !.transactions = <<>>]  BY <1>3, <1>5
  <2>3. <<>> \in PartialFunction(Nat, Draft) /\ DOMAIN <<>> = {}  BY EmptyFunction
  <2> HIDE DEF lost
  <2>4. /\ q \in Registry /\ q.peers = P /\ q.authority = 0 /\ DOMAIN q.transactions = {}
        /\ q.versions = r.versions /\ q.blobs = r.blobs /\ q.current = r.current /\ q.next = r.next
    BY <2>1, <2>2, <2>3 DEF Registry
  <2>5. PeersOK(q)  BY <1>1, <1>2, <1>5, <2>4 DEF PeersOK
  <2> QED  BY <1>2, <1>5, <2>4, <2>5 DEF Leaves, Lessens
<1>6. CASE c # r.authority
  <2> DEFINE f == Forgotten(T, c)
             kept == {t \in DOMAIN T : T[t].connection # c}
  <2>1. f = [t \in kept |-> [T[t] EXCEPT !.mappings = @ \ {c}]]  BY DEF Forgotten
  <2>2. ASSUME NEW t \in DOMAIN T
        PROVE  /\ [T[t] EXCEPT !.mappings = @ \ {c}] \in Draft
               /\ [T[t] EXCEPT !.mappings = @ \ {c}].mappings = T[t].mappings \ {c}
               /\ [T[t] EXCEPT !.mappings = @ \ {c}].phase = T[t].phase
               /\ [T[t] EXCEPT !.mappings = @ \ {c}].png = T[t].png
               /\ [T[t] EXCEPT !.mappings = @ \ {c}].properties = T[t].properties
    BY <1>1 DEF Draft
  <2>3. /\ DOMAIN f = kept /\ \A t \in kept : f[t] = [T[t] EXCEPT !.mappings = @ \ {c}]
        /\ kept \subseteq DOMAIN T
    BY <2>1
  <2>4. f \in PartialFunction(Nat, Draft)
    <3>1. f \in [kept -> Draft]  BY <2>1, <2>2
    <3>2. kept \in SUBSET Nat  BY <1>1
    <3> QED  BY <3>1, <3>2 DEF PartialFunction
  <2>5. q = [gone EXCEPT !.transactions = f]  BY <1>3, <1>4, <1>6
  <2> HIDE DEF f, kept
  <2>6. /\ q \in Registry /\ q.peers = P /\ q.authority = r.authority /\ q.transactions = f
        /\ q.versions = r.versions /\ q.blobs = r.blobs /\ q.current = r.current /\ q.next = r.next
    BY <1>4, <2>4, <2>5 DEF Registry
  <2>7. PeersOK(q)
    <3>1. r.authority = 0 => DOMAIN f = {}  BY <1>1, <2>3 DEF PeersOK
    <3> QED  BY <1>1, <1>2, <1>6, <2>6, <3>1 DEF PeersOK
  <2>8. ASSUME NEW t \in DOMAIN f
        PROVE  /\ t \in DOMAIN T /\ f[t].phase = T[t].phase /\ f[t].png = T[t].png
               /\ f[t].properties = T[t].properties
               /\ f[t].mappings \subseteq T[t].mappings \cap DOMAIN P
    <3>1. t \in DOMAIN T /\ f[t] = [T[t] EXCEPT !.mappings = @ \ {c}]  BY <2>3
    <3>2. f[t].mappings = T[t].mappings \ {c}  BY <2>2, <3>1
    <3>3. T[t].mappings \subseteq DOMAIN r.peers  BY <1>1, <3>1
    <3> QED  BY <1>2, <2>2, <3>1, <3>2, <3>3
  <2>9. Lessens(r, q)  BY <2>6, <2>7, <2>8 DEF Lessens
  <2> QED  BY <1>2, <1>6, <2>6, <2>9 DEF Leaves
<1> QED  BY <1>5, <1>6

\* A connection takes the place of the player's previous one.
Arrives(r, c, player, q) ==
  /\ Lessens(r, q) /\ DOMAIN q.peers = (DOMAIN r.peers \ PreviousConnections(r, player)) \cup {c}
  /\ q.peers[c] = player /\ \A d \in DOMAIN q.peers \ {c} : q.peers[d] = r.peers[d]
  /\ q.authority = IF player = 0 THEN c ELSE r.authority

LEMMA ConnectArrives ==
  ASSUME NEW r \in Registry, RegistryOK(r), NEW c \in Nat \ {0}, NEW player \in Player \cup {0},
         may_connect(r, c, player), NEW q, q = connect(r, c, player)
  PROVE  Arrives(r, c, player, q)
<1> DEFINE previous == PreviousConnections(r, player)
           d == CHOOSE p \in previous : TRUE
           left == IF previous = {} THEN r ELSE disconnect(r, d)
<1>1. q = [left EXCEPT !.peers = With(@, c, player), !.authority = IF player = 0 THEN c ELSE @]
  BY DEF connect
<1>2. /\ PeersOK(r) /\ DraftsOK(r) /\ c \notin DOMAIN r.peers /\ (player = 0 => r.authority = 0)
  BY DEF RegistryOK, may_connect
<1>3. /\ previous \subseteq DOMAIN r.peers /\ \A x \in previous : player # 0 /\ r.peers[x] = player
      /\ \A x \in DOMAIN r.peers : player # 0 /\ r.peers[x] = player => x \in previous
  BY DEF PreviousConnections
<1>4. /\ Lessens(r, left) /\ DOMAIN left.peers = DOMAIN r.peers \ previous
      /\ \A x \in DOMAIN left.peers : left.peers[x] = r.peers[x]
      /\ left.authority = r.authority
  <2>1. CASE previous = {}
    <3>1. left = r  BY <2>1
    <3>2. Lessens(r, r)  BY <1>2 DEF Lessens, DraftsOK
    <3> QED  BY <2>1, <3>1, <3>2
  <2>2. CASE previous # {}
    <3>1. d \in previous  BY <2>2
    <3>2. left = disconnect(r, d)  BY <2>2
    <3> HIDE DEF d, left, previous
    <3>3. previous = {d}  BY <1>2, <1>3, <3>1 DEF PeersOK
    <3>4. d # r.authority
      <4>1. r.peers[d] # 0 /\ d \in DOMAIN r.peers  BY <1>3, <3>1
      <4>2. d # 0  BY <1>2, <4>1 DEF PeersOK
      <4> QED  BY <1>2, <4>1, <4>2 DEF PeersOK
    <3>5. d \in DOMAIN r.peers  BY <1>3, <3>1
    <3>6. Leaves(r, d, left)  BY <3>2, <3>5, DisconnectLeaves
    <3> QED  BY <3>3, <3>4, <3>6 DEF Leaves
  <2> QED  BY <2>1, <2>2
<1> HIDE DEF left
<1>5. /\ left \in Registry /\ PeersOK(left) /\ left.peers \in PartialFunction(Nat, Player \cup {0})
      /\ left.authority \in Nat
  BY <1>4, RegistryFields DEF Lessens
<1> DEFINE P == With(left.peers, c, player)
           A == IF player = 0 THEN c ELSE r.authority
<1>6. /\ P \in PartialFunction(Nat, Player \cup {0}) /\ DOMAIN P = DOMAIN left.peers \cup {c} /\ P[c] = player
      /\ \A x \in DOMAIN left.peers \ {c} : P[x] = left.peers[x]
  <2>1. P \in PartialFunction(Nat, Player \cup {0})  BY <1>5, WithType
  <2> QED  BY <2>1, WithIs DEF With
<1>7. q = [[left EXCEPT !.peers = P] EXCEPT !.authority = A]  BY <1>1, <1>4, <1>5 DEF Registry
<1>8. A \in Nat  BY <1>4, <1>5
<1> HIDE DEF P, A
<1>9. /\ q \in Registry /\ q.peers = P /\ q.authority = A /\ q.transactions = left.transactions
      /\ q.versions = left.versions /\ q.blobs = left.blobs /\ q.current = left.current /\ q.next = left.next
  BY <1>5, <1>6, <1>7, <1>8 DEF Registry
<1>10. c \notin DOMAIN left.peers  BY <1>2, <1>4
<1>11. \A x \in DOMAIN left.peers : left.peers[x] # player
  <2>1. CASE player = 0
    <3> SUFFICES ASSUME NEW x \in DOMAIN left.peers, left.peers[x] = 0 PROVE FALSE
      BY <2>1
    <3>1. x = left.authority /\ left.authority = 0  BY <1>2, <1>4, <1>5, <2>1 DEF PeersOK
    <3> QED  BY <1>5, <3>1 DEF PeersOK
  <2>2. CASE player # 0  BY <1>3, <1>4, <2>2
  <2> QED  BY <2>1, <2>2
<1>12. PeersOK(q)
  <2>1. 0 \notin DOMAIN P /\ \A x, y \in DOMAIN P : P[x] = P[y] => x = y
    BY <1>5, <1>6, <1>10, <1>11 DEF PeersOK
  <2>2. A # 0 => A \in DOMAIN P /\ P[A] = 0  BY <1>4, <1>5, <1>6, <1>10 DEF PeersOK, A
  <2>3. \A x \in DOMAIN P : P[x] = 0 => x = A  BY <1>4, <1>5, <1>6, <1>10, <1>11 DEF PeersOK, A
  <2>4. A = 0 => DOMAIN left.transactions = {}  BY <1>4, <1>5 DEF PeersOK, A
  <2> QED  BY <1>9, <2>1, <2>2, <2>3, <2>4 DEF PeersOK
<1>13. Lessens(r, q)  BY <1>4, <1>6, <1>9, <1>12 DEF Lessens
<1> QED  BY <1>4, <1>6, <1>9, <1>10, <1>13 DEF Arrives, A

LEMMA FenceLessens ==
  ASSUME NEW r \in Registry, RegistryOK(r), NEW q, q = fence(r)
  PROVE  Lessens(r, q) /\ q.peers = r.peers /\ q.authority = r.authority /\ DOMAIN q.transactions = {}
<1>1. <<>> \in PartialFunction(Nat, Draft) /\ DOMAIN <<>> = {}  BY EmptyFunction
<1>2. /\ q \in Registry /\ q.peers = r.peers /\ q.authority = r.authority /\ q.transactions = <<>>
      /\ q.versions = r.versions /\ q.blobs = r.blobs /\ q.current = r.current /\ q.next = r.next
  BY <1>1 DEF fence, Registry
<1>3. PeersOK(q)  BY <1>1, <1>2 DEF PeersOK, RegistryOK
<1> QED  BY <1>1, <1>2, <1>3 DEF Lessens

\* Drafts grow late.
LEMMA LateLessens ==
  ASSUME NEW r \in Registry, RegistryOK(r), NEW t \in DOMAIN r.transactions, NEW f,
         f = [u \in DOMAIN r.transactions |-> IF u <= t THEN [r.transactions[u] EXCEPT !.late = TRUE]
                                              ELSE r.transactions[u]],
         NEW q, q = [r EXCEPT !.transactions = f]
  PROVE  Lessens(r, q) /\ q.peers = r.peers /\ q.authority = r.authority
<1> DEFINE T == r.transactions
<1>1. /\ T \in PartialFunction(Nat, Draft) /\ DOMAIN T \in SUBSET Nat /\ PeersOK(r)
      /\ \A u \in DOMAIN T : T[u] \in Draft /\ T[u].mappings \subseteq DOMAIN r.peers
  BY RegistryFields DEF RegistryOK, DraftsOK
<1>2. ASSUME NEW u \in DOMAIN T
      PROVE  /\ f[u] \in Draft /\ f[u].phase = T[u].phase /\ f[u].png = T[u].png
             /\ f[u].properties = T[u].properties /\ f[u].mappings = T[u].mappings
  <2> DEFINE late == [T[u] EXCEPT !.late = TRUE]
             d == T[u]
             yes == TRUE
  <2>1. f[u] = late \/ f[u] = T[u]  OBVIOUS
  <2>2. d \in Draft /\ late = [d EXCEPT !.late = yes] /\ yes \in BOOLEAN  BY <1>1
  <2> HIDE DEF d, yes, late
  <2>3. /\ late \in Draft /\ late.phase = d.phase /\ late.png = d.png
        /\ late.properties = d.properties /\ late.mappings = d.mappings
    BY <2>2 DEF Draft
  <2> QED  BY <1>1, <2>1, <2>3 DEF d
<1>3. DOMAIN f = DOMAIN T /\ f \in [DOMAIN T -> Draft]
  <2>1. f = [u \in DOMAIN T |-> f[u]]  OBVIOUS
  <2> QED  BY <1>2, <2>1
<1>4. f \in PartialFunction(Nat, Draft)  BY <1>1, <1>3 DEF PartialFunction
<1> HIDE DEF T
<1>5. /\ q \in Registry /\ q.peers = r.peers /\ q.authority = r.authority /\ q.transactions = f
      /\ q.versions = r.versions /\ q.blobs = r.blobs /\ q.current = r.current /\ q.next = r.next
  BY <1>4 DEF Registry
<1>6. PeersOK(q)  BY <1>1, <1>3, <1>5 DEF PeersOK, T
<1> QED  BY <1>1, <1>2, <1>3, <1>5, <1>6 DEF Lessens, T

\* The uploads that are left are as they were, or empty.
Renewed(s, v) ==
  /\ Lessens(s.registry, v.registry) /\ v = [registry |-> v.registry, uploads |-> v.uploads]
  /\ v.uploads \in PartialFunction(Nat, Upload) /\ DOMAIN v.uploads = DOMAIN v.registry.peers
  /\ \A c \in DOMAIN v.uploads :
       v.uploads[c].transaction = 0 \/ (c \in DOMAIN s.uploads /\ v.uploads[c] = s.uploads[c])

LEMMA RenewedServer ==
  ASSUME NEW s, NEW reports, ServerOK(s, reports), NEW v, Renewed(s, v)
  PROVE  /\ ServerOK(v, reports) /\ Moves(s.registry, v.registry) /\ v.registry \in Registry
         /\ v.registry.versions = s.registry.versions
<1> DEFINE r == s.registry
           q == v.registry
<1>1. s \in Server /\ r \in Registry /\ RegistryOK(r) /\ DraftsOK(r)  BY ServerFields DEF ServerOK, RegistryOK
<1>2. /\ Lessens(r, q) /\ v = [registry |-> q, uploads |-> v.uploads]
      /\ v.uploads \in PartialFunction(Nat, Upload) /\ DOMAIN v.uploads = DOMAIN q.peers
      /\ \A c \in DOMAIN v.uploads :
           v.uploads[c].transaction = 0 \/ (c \in DOMAIN s.uploads /\ v.uploads[c] = s.uploads[c])
  BY DEF Renewed
<1>3. RegistryOK(q) /\ Moves(r, q) /\ Mild(r, q) /\ q \in Registry  BY <1>1, <1>2, LessensContract
<1>4. v \in Server
  <2> DEFINE u == v.uploads
  <2>1. v = [registry |-> q, uploads |-> u] /\ u \in PartialFunction(Nat, Upload)  BY <1>2
  <2> HIDE DEF u, q
  <2> QED  BY <1>3, <2>1 DEF Server
<1>5. /\ DOMAIN q.transactions \subseteq DOMAIN r.transactions /\ q.next = r.next /\ q.next \in Nat
      /\ \A t \in DOMAIN q.transactions :
           q.transactions[t].phase = r.transactions[t].phase /\ q.transactions[t].png = r.transactions[t].png
      /\ 0 \notin DOMAIN q.transactions
  BY <1>1, <1>2, <1>3, RegistryFields DEF Lessens, DraftsOK
<1>6. UploadsOK(v, reports)
  <2>1. ASSUME NEW c \in DOMAIN v.uploads
        PROVE  /\ v.uploads[c].transaction <= q.next
               /\ v.uploads[c].transaction \in DOMAIN q.transactions =>
                    LET draft == q.transactions[v.uploads[c].transaction] IN
                    /\ Fixed(draft)
                    /\ v.uploads[c].png = draft.png => <<c, v.uploads[c].png, v.uploads[c].properties>> \in reports
    <3>1. CASE v.uploads[c].transaction = 0  BY <1>5, <3>1
    <3>2. CASE c \in DOMAIN s.uploads /\ v.uploads[c] = s.uploads[c]
      <4> DEFINE u == s.uploads[c]
                 t == u.transaction
      <4>1. /\ t <= r.next
            /\ t \in DOMAIN r.transactions =>
                 /\ Fixed(r.transactions[t])
                 /\ u.png = r.transactions[t].png => <<c, u.png, u.properties>> \in reports
        BY <3>2 DEF ServerOK, UploadsOK
      <4>2. v.uploads[c] = u  BY <3>2
      <4> HIDE DEF u
      <4> QED  BY <1>5, <4>1, <4>2 DEF Fixed
    <3> QED  BY <1>2, <3>1, <3>2
  <2> QED  BY <1>2, <2>1 DEF UploadsOK
<1>7. MappingsOK(q, reports)
  <2>1. ASSUME NEW t \in DOMAIN q.transactions, NEW c \in q.transactions[t].mappings
        PROVE  <<c, q.transactions[t].png, q.transactions[t].properties>> \in reports
    <3>1. /\ t \in DOMAIN r.transactions /\ c \in r.transactions[t].mappings
          /\ q.transactions[t].png = r.transactions[t].png
          /\ q.transactions[t].properties = r.transactions[t].properties
      BY <1>2 DEF Lessens
    <3> QED  BY <3>1 DEF ServerOK, MappingsOK
  <2> QED  BY <2>1 DEF MappingsOK
<1> QED  BY <1>2, <1>3, <1>4, <1>6, <1>7 DEF ServerOK, Lessens

\* There is no authority, the same one, or a new one with nothing to look at.
LEMMA RenewedReadings ==
  ASSUME NEW s, NEW reports, ServerOK(s, reports), NEW b, ReadingsOK(s, b), NEW v, Renewed(s, v), NEW n,
         \/ v.registry.authority = 0
         \/ v.registry.authority = s.registry.authority /\ n.link = b.link /\ n.reads = b.reads
         \/ s.registry.authority = 0 /\ v.uploads[v.registry.authority].transaction = 0
  PROVE  ReadingsOK(v, n)
<1> DEFINE r == s.registry
           q == v.registry
<1>1. PeersOK(r) /\ PeersOK(q) /\ Lessens(r, q)  BY DEF ServerOK, RegistryOK, Renewed, Lessens
<1>2. ASSUME NEW d \in Validated(q)
      PROVE  \E e \in Validated(r) : e.png = d.png /\ e.properties = d.properties
  <2>1. PICK t \in DOMAIN q.transactions : q.transactions[t].phase = "validated" /\ d = q.transactions[t]
    BY DEF Validated
  <2>2. /\ t \in DOMAIN r.transactions /\ r.transactions[t].phase = "validated"
        /\ r.transactions[t].png = d.png /\ r.transactions[t].properties = d.properties
    BY <1>1, <2>1 DEF Lessens
  <2> QED  BY <2>2 DEF Validated
<1>3. q.versions = r.versions  BY <1>1 DEF Lessens
<1>4. OneReading(q.versions)  BY <1>3 DEF ReadingsOK
<1>5. \A d, e \in Validated(q) : d.properties = e.properties  BY <1>2 DEF ReadingsOK
<1>6. \A d \in Validated(q), w \in q.versions : w.png = d.png => w.properties = d.properties
  BY <1>2, <1>3 DEF ReadingsOK
<1>7. ASSUME q.authority # 0, n.link = q.authority
      PROVE  /\ \A d \in Validated(q) : d.properties = n.reads
             /\ v.uploads[q.authority].transaction # 0 => v.uploads[q.authority].properties = n.reads
  <2>1. CASE r.authority = q.authority /\ n.link = b.link /\ n.reads = b.reads
    <3>1. /\ \A d \in Validated(r) : d.properties = b.reads
          /\ s.uploads[r.authority].transaction # 0 => s.uploads[r.authority].properties = b.reads
      BY <1>7, <2>1 DEF ReadingsOK
    <3>2. q.authority \in DOMAIN v.uploads  BY <1>1, <1>7 DEF PeersOK, Renewed
    <3>3. v.uploads[q.authority].transaction = 0 \/ v.uploads[q.authority] = s.uploads[q.authority]
      BY <3>2 DEF Renewed
    <3> QED  BY <1>2, <2>1, <3>1, <3>3
  <2>2. CASE r.authority = 0 /\ v.uploads[q.authority].transaction = 0
    <3>1. DOMAIN r.transactions = {}  BY <1>1, <2>2 DEF PeersOK
    <3>2. Validated(r) = {}  BY <3>1 DEF Validated
    <3> QED  BY <1>2, <2>2, <3>2
  <2> QED  BY <1>7, <2>1, <2>2
<1> QED  BY <1>4, <1>5, <1>6, <1>7 DEF ReadingsOK

\* A bridge whose connection is one that was.
LEMMA BridgeStays ==
  ASSUME NEW r \in Registry, NEW q \in Registry, Moves(r, q), DraftsOK(r), NEW p, NEW b \in Bridge, BridgeOK(p, b, r),
         b.link \in DOMAIN q.peers => b.link \in DOMAIN r.peers /\ q.peers[b.link] = r.peers[b.link]
  PROVE  BridgeOK(p, b, q)
<1>1. b.link \in DOMAIN q.peers => q.peers[b.link] = p /\ TalkOK(b, q)
  BY TalkMoves DEF BridgeOK
<1> QED  BY <1>1 DEF BridgeOK

\* The links of this step are links the last connection's number bounds.
LEMMA RenewedKeeps ==
  ASSUME IInv, Renewed(server, server'), disk' = disk,
         loaded' = loaded \/ loaded' = KeptFor(server'.registry, loaded),
         Steady => ReadingsOK(server', bridge'[0]), BridgesOK(bridge', server'.registry),
         ToolsOK(server', bridge', tools'), LastOK(server', bridge', budget'.last)
  PROVE  IInv'
<1>1. ServerOK(server, loaded) /\ DiskOK(server, disk)  BY DEF IInv, SessionOK
<1> DEFINE v == server'
<1>2. Renewed(server, v)  OBVIOUS
<1> HIDE DEF v
<1>3. ServerOK(v, loaded) /\ v.registry.versions = server.registry.versions  BY <1>1, <1>2, RenewedServer
<1>4. ServerOK(v, KeptFor(v.registry, loaded))  BY <1>3, KeptReports
<1>5. DiskOK(v, disk)  BY <1>1, <1>3, DiskKept
<1>6. ServerOK(v, loaded')  BY <1>3, <1>4 DEF v
<1> QED  BY <1>5, <1>6 DEF IInv, SessionOK, v

LEMMA SessionFacts ==
  ASSUME TypeOK, IInv
  PROVE  /\ server \in Server /\ server.registry \in Registry /\ RegistryOK(server.registry)
         /\ PeersOK(server.registry) /\ DraftsOK(server.registry)
         /\ server.uploads \in PartialFunction(Nat, Upload)
         /\ DOMAIN server.uploads = DOMAIN server.registry.peers
         /\ ServerOK(server, loaded) /\ (Steady => ReadingsOK(server, bridge[0]))
         /\ bridge \in [Process -> Bridge] /\ (\A x \in Process : BridgeOK(x, bridge[x], server.registry))
         /\ ToolsOK(server, bridge, tools) /\ LastOK(server, bridge, budget.last) /\ DiskOK(server, disk)
         /\ budget.last \in Nat /\ budget \in Budget
<1>1. budget \in Budget /\ budget.last \in Nat  BY DEF TypeOK, Budget
<1>2. /\ ServerOK(server, loaded) /\ (Steady => ReadingsOK(server, bridge[0])) /\ BridgesOK(bridge, server.registry)
      /\ ToolsOK(server, bridge, tools) /\ LastOK(server, bridge, budget.last) /\ DiskOK(server, disk)
  BY DEF IInv, SessionOK
<1>3. server \in Server /\ RegistryOK(server.registry) /\ UploadsOK(server, loaded)  BY <1>2 DEF ServerOK
<1>4. server.registry \in Registry /\ server.uploads \in PartialFunction(Nat, Upload)  BY <1>3, ServerFields
<1> QED  BY <1>1, <1>2, <1>3, <1>4 DEF RegistryOK, UploadsOK, BridgesOK

LEMMA DisconnectsKeeps ==
  ASSUME TypeOK, IInv, NEW c \in DOMAIN server.registry.peers, Disconnects(c)
  PROVE  IInv' /\ budget' \in Budget /\ disk' = disk
<1> DEFINE r == server.registry
           q == disconnect(r, c)
           U == server.uploads
           left == Without(U, {c})
           u == [d \in DOMAIN left |-> IF c = r.authority THEN NoUpload ELSE left[d]]
           v == [registry |-> q, uploads |-> u]
<1>1. /\ server' = v /\ tools' = tools \ {c} /\ loaded' = KeptFor(server'.registry, loaded)
      /\ disk' = disk /\ bridge' = bridge
  BY DEF Disconnects, control_disconnect, Kept, KeptFor
<1>2. budget' \in Budget /\ budget'.last = budget.last
  <2>1. Spend \/ budget' = budget  BY DEF Disconnects
  <2> QED  BY <2>1, SpendKeeps DEF TypeOK
<1>3. /\ r \in Registry /\ RegistryOK(r) /\ DraftsOK(r) /\ U \in PartialFunction(Nat, Upload)
      /\ DOMAIN U = DOMAIN r.peers
      /\ ServerOK(server, loaded) /\ (Steady => ReadingsOK(server, bridge[0]))
      /\ bridge \in [Process -> Bridge] /\ (\A x \in Process : BridgeOK(x, bridge[x], r))
      /\ ToolsOK(server, bridge, tools) /\ LastOK(server, bridge, budget.last)
  BY SessionFacts
<1>4. Leaves(r, c, q)  BY <1>3, DisconnectLeaves
<1>5. /\ left \in PartialFunction(Nat, Upload) /\ DOMAIN left = DOMAIN U \ {c}
      /\ \A d \in DOMAIN U \ {c} : left[d] = U[d]
  BY <1>3, WithoutType, WithoutIs
<1>6. /\ DOMAIN u = DOMAIN U \ {c} /\ \A d \in DOMAIN u : u[d] = NoUpload \/ u[d] = U[d]
  BY <1>5
<1>7. u \in PartialFunction(Nat, Upload)
  <2> HIDE DEF left
  <2>1. DOMAIN left \in SUBSET Nat /\ \A d \in DOMAIN left : left[d] \in Upload  BY <1>5, FunctionType
  <2>2. u \in [DOMAIN left -> Upload]  BY <2>1, NoUploadType
  <2> QED  BY <2>1, <2>2 DEF PartialFunction
<1> HIDE DEF q, u, left
<1>8. v.registry = q /\ v.uploads = u /\ v = [registry |-> v.registry, uploads |-> v.uploads]  OBVIOUS
<1>9. Renewed(server, v)
  <2>1. Lessens(r, q) /\ DOMAIN q.peers = DOMAIN r.peers \ {c}  BY <1>4 DEF Leaves
  <2>2. \A d \in DOMAIN u : u[d].transaction = 0 \/ (d \in DOMAIN U /\ u[d] = U[d])  BY <1>6, NoUploadType
  <2> QED  BY <1>3, <1>6, <1>7, <1>8, <2>1, <2>2 DEF Renewed
<1> HIDE DEF v
<1>10. Moves(r, q) /\ q \in Registry  BY <1>3, <1>8, <1>9, RenewedServer
<1>11. Steady => ReadingsOK(v, bridge[0])
  <2>1. q.authority = 0 \/ q.authority = r.authority  BY <1>4 DEF Leaves
  <2> QED  BY <1>3, <1>8, <1>9, <2>1, RenewedReadings
<1>12. BridgesOK(bridge, q)
  <2>1. ASSUME NEW x \in Process PROVE BridgeOK(x, bridge[x], q)
    <3>1. bridge[x].link \in DOMAIN q.peers =>
            bridge[x].link \in DOMAIN r.peers /\ q.peers[bridge[x].link] = r.peers[bridge[x].link]
      BY <1>4 DEF Leaves
    <3> QED  BY <1>3, <1>10, <3>1, BridgeStays
  <2> QED  BY <1>3, <2>1 DEF BridgesOK
<1>13. ToolsOK(v, bridge, tools \ {c})
  <2>1. ASSUME NEW d \in tools \ {c}
        PROVE  /\ d \in DOMAIN q.peers /\ q.peers[d] # 0 /\ u[d].transaction = 0
               /\ \A p \in Process : bridge[p].link # d
    <3>1. /\ d \in DOMAIN r.peers /\ r.peers[d] # 0 /\ U[d].transaction = 0
          /\ \A p \in Process : bridge[p].link # d
      BY <1>3 DEF ToolsOK
    <3> QED  BY <1>3, <1>4, <1>6, <3>1, NoUploadType DEF Leaves
  <2> QED  BY <1>8, <2>1 DEF ToolsOK
<1>14. LastOK(v, bridge, budget.last)
  <2>1. DOMAIN q.peers \subseteq DOMAIN r.peers  BY <1>4 DEF Leaves
  <2> QED  BY <1>3, <1>8, <2>1 DEF LastOK
<1> QED  BY <1>1, <1>2, <1>8, <1>9, <1>11, <1>12, <1>13, <1>14, RenewedKeeps

\* The coordinator's side of a new connection.
Welcomed(player) ==
  LET r == server.registry
      n == budget.last + 1
      q == server'.registry
  IN  /\ Renewed(server, server') /\ q \in Registry /\ Moves(r, q)
      /\ n \in DOMAIN q.peers /\ q.peers[n] = player /\ n \notin DOMAIN r.peers
      /\ server'.uploads[n].transaction = 0
      /\ \A c \in DOMAIN q.peers \ {n} : c \in DOMAIN r.peers /\ q.peers[c] = r.peers[c]
      /\ q.authority = IF player = 0 THEN n ELSE r.authority
      /\ player = 0 => r.authority = 0
      /\ disk' = disk /\ loaded' = KeptFor(q, loaded)
      /\ budget' \in Budget /\ budget'.last = n

LEMMA ConnectsWelcomes ==
  ASSUME TypeOK, IInv, NEW player \in Player \cup {0}, Connects(player)
  PROVE  Welcomed(player)
<1> DEFINE r == server.registry
           n == budget.last + 1
           q == connect(r, n, player)
           U == server.uploads
           S == PreviousConnections(r, player)
           left == Without(U, S)
           u == With(left, n, NoUpload)
           v == [registry |-> q, uploads |-> u]
<1>1. /\ server' = v /\ loaded' = KeptFor(server'.registry, loaded) /\ disk' = disk /\ may_connect(r, n, player)
  BY DEF Connects, control_connect, Kept, KeptFor
<1>2. budget' = [budget EXCEPT !.last = @ + 1, !.connections = @ - 1]  BY DEF Connects
<1>3. /\ r \in Registry /\ RegistryOK(r) /\ PeersOK(r) /\ U \in PartialFunction(Nat, Upload)
      /\ DOMAIN U = DOMAIN r.peers
      /\ ServerOK(server, loaded) /\ budget \in Budget /\ budget.last \in Nat
  BY SessionFacts
<1>4. budget' \in Budget /\ budget'.last = n
  <2> DEFINE k == budget.connections - 1
  <2>1. budget' = [budget EXCEPT !.last = n, !.connections = k] /\ k \in Int /\ n \in Nat  BY <1>2, <1>3 DEF Budget
  <2> HIDE DEF k, n
  <2> QED  BY <1>3, <2>1 DEF Budget
<1>5. n \in Nat \ {0}  BY <1>3
<1> HIDE DEF n
<1>6. Arrives(r, n, player, q)  BY <1>1, <1>3, <1>5, ConnectArrives
<1>7. /\ left \in PartialFunction(Nat, Upload) /\ DOMAIN left = DOMAIN U \ S
      /\ \A d \in DOMAIN U \ S : left[d] = U[d]
  BY <1>3, WithoutType, WithoutIs
<1> HIDE DEF left, q
<1>8. u \in PartialFunction(Nat, Upload)  BY <1>5, <1>7, WithType, NoUploadType
<1>9. DOMAIN u = DOMAIN left \cup {n} /\ u[n] = NoUpload /\ \A d \in DOMAIN left \ {n} : u[d] = left[d]
  BY DEF With
<1> HIDE DEF u
<1>10. v.registry = q /\ v.uploads = u /\ v = [registry |-> v.registry, uploads |-> v.uploads]  OBVIOUS
<1>11. Renewed(server, v)
  <2>1. Lessens(r, q) /\ DOMAIN q.peers = (DOMAIN r.peers \ S) \cup {n}  BY <1>6 DEF Arrives
  <2>2. \A d \in DOMAIN u : u[d].transaction = 0 \/ (d \in DOMAIN U /\ u[d] = U[d])
    BY <1>7, <1>9, NoUploadType
  <2> QED  BY <1>3, <1>7, <1>8, <1>9, <1>10, <2>1, <2>2 DEF Renewed
<1> HIDE DEF v
<1>12. Moves(r, q) /\ q \in Registry  BY <1>3, <1>10, <1>11, RenewedServer
<1>13. n \notin DOMAIN r.peers /\ (player = 0 => r.authority = 0)  BY <1>1 DEF may_connect
<1>14. /\ n \in DOMAIN q.peers /\ q.peers[n] = player
       /\ \A c \in DOMAIN q.peers \ {n} : c \in DOMAIN r.peers /\ q.peers[c] = r.peers[c]
       /\ q.authority = IF player = 0 THEN n ELSE r.authority
  BY <1>6 DEF Arrives
<1>15. u[n].transaction = 0  BY <1>9, NoUploadType
<1> QED  BY <1>1, <1>4, <1>10, <1>11, <1>12, <1>13, <1>14, <1>15 DEF Welcomed, n

LEMMA PlayersAreNumbered ==
  /\ Player \subseteq Nat \ {0} /\ Cardinality(Player) \in Nat /\ \A p \in Player : p <= Cardinality(Player)
<1> DEFINE n == Cardinality(Player)
<1>1. Player = 1..n /\ n \in Nat  BY ContentRegistryConstants, FS_CardinalityType
<1> HIDE DEF n
<1> QED  BY <1>1 DEF n

LEMMA ToolConnectsKeeps ==
  ASSUME TypeOK, IInv, NEW player \in Tooled, ToolConnects(player)
  PROVE  IInv' /\ budget' \in Budget /\ disk' = disk
<1> DEFINE r == server.registry
           n == budget.last + 1
           q == server'.registry
<1>1. player \in Player /\ player # 0  BY PlayersAreNumbered, ContentExchangeConstants
<1>2. Welcomed(player)  BY <1>1, ConnectsWelcomes DEF ToolConnects
<1>3. /\ Renewed(server, server') /\ q \in Registry /\ Moves(r, q)
      /\ n \in DOMAIN q.peers /\ q.peers[n] = player /\ n \notin DOMAIN r.peers
      /\ server'.uploads[n].transaction = 0
      /\ \A c \in DOMAIN q.peers \ {n} : c \in DOMAIN r.peers /\ q.peers[c] = r.peers[c]
      /\ q.authority = r.authority /\ disk' = disk /\ loaded' = KeptFor(q, loaded)
      /\ budget' \in Budget /\ budget'.last = n
  BY <1>1, <1>2 DEF Welcomed
<1>4. bridge' = bridge /\ tools' = {c \in tools \cup {n} : c \in DOMAIN q.peers}  BY DEF ToolConnects
<1>5. /\ r \in Registry /\ DraftsOK(r) /\ ServerOK(server, loaded) /\ (Steady => ReadingsOK(server, bridge[0]))
      /\ bridge \in [Process -> Bridge] /\ (\A x \in Process : BridgeOK(x, bridge[x], r))
      /\ ToolsOK(server, bridge, tools) /\ LastOK(server, bridge, budget.last) /\ budget.last \in Nat
      /\ DOMAIN server.uploads = DOMAIN r.peers
  BY SessionFacts
<1>6. \A x \in Process : bridge[x].link \in Int /\ bridge[x].link <= budget.last /\ bridge[x].link >= Ended
  BY <1>5, BridgeFields DEF LastOK
<1>7. \A x \in Process : bridge[x].link # n  BY <1>5, <1>6
<1> DEFINE v == server'
<1>8. v.registry = q /\ Renewed(server, v) /\ v.registry.authority = r.authority /\ v.uploads[n].transaction = 0
  BY <1>3
<1>9. \A c \in DOMAIN r.peers : c \in Nat /\ c <= budget.last  BY <1>5, RegistryFields DEF LastOK
<1> HIDE DEF n, v, q
<1>10. Steady => ReadingsOK(v, bridge[0])  BY <1>5, <1>8, RenewedReadings
<1>11. BridgesOK(bridge, q)
  <2>1. ASSUME NEW x \in Process PROVE BridgeOK(x, bridge[x], q)
    <3>1. bridge[x].link \in DOMAIN q.peers =>
            bridge[x].link \in DOMAIN r.peers /\ q.peers[bridge[x].link] = r.peers[bridge[x].link]
      BY <1>3, <1>7
    <3> QED  BY <1>3, <1>5, <3>1, BridgeStays
  <2> QED  BY <1>5, <2>1 DEF BridgesOK
<1>12. ToolsOK(v, bridge, tools')
  <2>1. ASSUME NEW d \in tools'
        PROVE  /\ d \in DOMAIN q.peers /\ q.peers[d] # 0 /\ v.uploads[d].transaction = 0
               /\ \A p \in Process : bridge[p].link # d
    <3>1. CASE d = n  BY <1>1, <1>3, <1>7, <1>8, <3>1
    <3>2. CASE d # n
      <4>1. d \in DOMAIN q.peers /\ d \in tools /\ d \in DOMAIN r.peers /\ q.peers[d] = r.peers[d]
        BY <1>3, <1>4, <3>2
      <4>2. /\ r.peers[d] # 0 /\ server.uploads[d].transaction = 0 /\ \A p \in Process : bridge[p].link # d
        BY <1>5, <4>1 DEF ToolsOK
      <4>3. v.uploads[d].transaction = 0 \/ v.uploads[d] = server.uploads[d]  BY <1>8, <4>1 DEF Renewed
      <4> QED  BY <4>1, <4>2, <4>3
    <3> QED  BY <3>1, <3>2
  <2> QED  BY <1>8, <2>1 DEF ToolsOK
<1>13. LastOK(v, bridge, n)
  <2>1. \A c \in DOMAIN q.peers : c = n \/ (c \in Nat /\ c <= budget.last)  BY <1>3, <1>9
  <2>2. n \in Nat /\ n = budget.last + 1  BY <1>5 DEF n
  <2> QED  BY <1>5, <1>6, <1>8, <2>1, <2>2 DEF LastOK
<1> QED  BY <1>3, <1>4, <1>8, <1>10, <1>11, <1>12, <1>13, RenewedKeeps DEF v, q

LEMMA BridgeConnectsKeeps ==
  ASSUME TypeOK, IInv, NEW p \in Process, BridgeConnects(p)
  PROVE  IInv' /\ budget' \in Budget /\ disk' = disk
<1> DEFINE r == server.registry
           n == budget.last + 1
           q == server'.registry
           b == [bridge[p] EXCEPT !.link = n]
<1>1. p \in Player \cup {0}  BY ContentExchangeConstants DEF Process
<1>2. Welcomed(p)  BY <1>1, ConnectsWelcomes DEF BridgeConnects
<1>3. /\ Renewed(server, server') /\ q \in Registry /\ Moves(r, q)
      /\ n \in DOMAIN q.peers /\ q.peers[n] = p /\ n \notin DOMAIN r.peers
      /\ server'.uploads[n].transaction = 0
      /\ \A c \in DOMAIN q.peers \ {n} : c \in DOMAIN r.peers /\ q.peers[c] = r.peers[c]
      /\ q.authority = IF p = 0 THEN n ELSE r.authority
      /\ p = 0 => r.authority = 0
      /\ disk' = disk /\ loaded' = KeptFor(q, loaded)
      /\ budget' \in Budget /\ budget'.last = n
  BY <1>2 DEF Welcomed
<1>4. bridge[p].link = 0 /\ tools' = tools \cap DOMAIN q.peers /\ bridge' = [bridge EXCEPT ![p] = b]
  BY DEF BridgeConnects
<1>5. /\ r \in Registry /\ DraftsOK(r) /\ ServerOK(server, loaded) /\ (Steady => ReadingsOK(server, bridge[0]))
      /\ bridge \in [Process -> Bridge] /\ (\A x \in Process : BridgeOK(x, bridge[x], r))
      /\ ToolsOK(server, bridge, tools) /\ LastOK(server, bridge, budget.last) /\ budget.last \in Nat
      /\ DOMAIN server.uploads = DOMAIN r.peers
  BY SessionFacts
<1>6. \A x \in Process : bridge[x].link \in Int /\ bridge[x].link <= budget.last /\ bridge[x].link >= Ended
  BY <1>5, BridgeFields DEF LastOK
<1>7. \A x \in Process : bridge[x].link # n  BY <1>5, <1>6
<1> DEFINE v == server'
<1>8. /\ v.registry = q /\ Renewed(server, v) /\ v.uploads[n].transaction = 0
      /\ q.authority = (IF p = 0 THEN n ELSE r.authority) /\ (p = 0 => r.authority = 0)
  BY <1>3
<1>9. \A c \in DOMAIN r.peers : c \in Nat /\ c <= budget.last  BY <1>5, RegistryFields DEF LastOK
<1>10. n \in Nat /\ n = budget.last + 1  BY <1>5
<1>11. bridge[p] \in Bridge /\ bridge[p].outbox = <<>> /\ bridge[p].inbox = <<>> /\ DOMAIN bridge[p].jobs = {}
  BY <1>4, BridgeHolds
<1> HIDE DEF n, v, q
<1>12. /\ b \in Bridge /\ b.link = n /\ b.outbox = <<>> /\ b.inbox = <<>> /\ DOMAIN b.jobs = {}
  BY <1>10, <1>11 DEF Bridge
<1> HIDE DEF b
<1>13. /\ bridge' \in [Process -> Bridge] /\ bridge'[p] = b /\ \A x \in Process \ {p} : bridge'[x] = bridge[x]
  BY <1>4, <1>5, <1>12
<1>14. Steady => ReadingsOK(v, bridge'[0])
  <2>1. 0 \in Process  BY DEF Process
  <2>2. CASE p = 0
    <3> DEFINE m == bridge'[0]
    <3>1. r.authority = 0 /\ v.uploads[v.registry.authority].transaction = 0  BY <1>8, <2>2
    <3> HIDE DEF m
    <3>2. Steady => ReadingsOK(v, m)  BY <1>5, <1>8, <3>1, RenewedReadings
    <3> QED  BY <3>2 DEF m
  <2>3. CASE p # 0
    <3>1. v.registry.authority = r.authority /\ bridge'[0] = bridge[0]  BY <1>8, <1>13, <2>1, <2>3
    <3>2. Steady => ReadingsOK(v, bridge[0])  BY <1>5, <1>8, <3>1, RenewedReadings
    <3> QED  BY <3>1, <3>2
  <2> QED  BY <2>2, <2>3
<1>15. BridgesOK(bridge', q)
  <2>1. ASSUME NEW x \in Process \ {p} PROVE BridgeOK(x, bridge[x], q)
    <3>1. bridge[x].link \in DOMAIN q.peers =>
            bridge[x].link \in DOMAIN r.peers /\ q.peers[bridge[x].link] = r.peers[bridge[x].link]
      BY <1>3, <1>7
    <3> QED  BY <1>3, <1>5, <3>1, BridgeStays
  <2>2. BridgeOK(p, b, q)
    <3>1. TalkOK(b, q)  BY <1>12 DEF TalkOK
    <3> QED  BY <1>3, <1>10, <1>12, <3>1 DEF BridgeOK
  <2> QED  BY <1>13, <2>1, <2>2 DEF BridgesOK
<1>16. ToolsOK(v, bridge', tools')
  <2>1. ASSUME NEW d \in tools'
        PROVE  /\ d \in DOMAIN q.peers /\ q.peers[d] # 0 /\ v.uploads[d].transaction = 0
               /\ \A x \in Process : bridge'[x].link # d
    <3>1. d \in tools /\ d \in DOMAIN q.peers  BY <1>4
    <3>2. /\ d \in DOMAIN r.peers /\ r.peers[d] # 0 /\ server.uploads[d].transaction = 0
          /\ \A x \in Process : bridge[x].link # d
      BY <1>5, <3>1 DEF ToolsOK
    <3>3. d # n  BY <1>3, <3>2
    <3>4. v.uploads[d].transaction = 0 \/ v.uploads[d] = server.uploads[d]  BY <1>8, <3>1 DEF Renewed
    <3> QED  BY <1>3, <1>12, <1>13, <3>1, <3>2, <3>3, <3>4
  <2> QED  BY <1>8, <2>1 DEF ToolsOK
<1>17. LastOK(v, bridge', n)
  <2>1. \A c \in DOMAIN q.peers : c = n \/ (c \in Nat /\ c <= budget.last)  BY <1>3, <1>9
  <2>2. \A x \in Process : bridge'[x].link = n \/ bridge'[x] = bridge[x]  BY <1>12, <1>13
  <2> QED  BY <1>5, <1>6, <1>8, <1>10, <2>1, <2>2 DEF LastOK, Ended
<1> QED  BY <1>3, <1>8, <1>14, <1>15, <1>16, <1>17, RenewedKeeps DEF v, q

LEMMA SceneBeginKeeps ==
  ASSUME TypeOK, IInv, receive_scene_begin
  PROVE  IInv' /\ budget' \in Budget /\ disk' = disk
<1> DEFINE r == server.registry
           q == fence(r)
           U == server.uploads
           u == [c \in DOMAIN U |-> NoUpload]
           v == [registry |-> q, uploads |-> u]
           m == Event("scene_begin", EmptyRegistry, 0)
<1>1. server' = v /\ loaded' = KeptFor(server'.registry, loaded) /\ disk' = disk /\ tools' = tools /\ Spend
  BY DEF receive_scene_begin, control_fence, Kept, KeptFor
<1>2. budget' \in Budget /\ budget'.last = budget.last  BY <1>1, SpendKeeps DEF TypeOK
<1>3. PICK told \in SUBSET (Process \ {0}) :
        bridge' = [p \in Process |-> IF p \in told /\ bridge[p].link # 0
                                     THEN [bridge[p] EXCEPT !.inbox = Append(@, m)] ELSE bridge[p]]
  BY DEF receive_scene_begin
<1>4. /\ r \in Registry /\ RegistryOK(r) /\ DraftsOK(r) /\ U \in PartialFunction(Nat, Upload)
      /\ DOMAIN U = DOMAIN r.peers
      /\ ServerOK(server, loaded) /\ (Steady => ReadingsOK(server, bridge[0]))
      /\ bridge \in [Process -> Bridge] /\ (\A x \in Process : BridgeOK(x, bridge[x], r))
      /\ ToolsOK(server, bridge, tools) /\ LastOK(server, bridge, budget.last)
  BY SessionFacts
<1>5. /\ Lessens(r, q) /\ q.peers = r.peers /\ q.authority = r.authority /\ DOMAIN q.transactions = {}
  BY <1>4, FenceLessens
<1>6. DOMAIN u = DOMAIN U /\ u \in PartialFunction(Nat, Upload) /\ \A c \in DOMAIN u : u[c].transaction = 0
  <2>1. u \in [DOMAIN U -> Upload]  BY NoUploadType
  <2>2. DOMAIN U \in SUBSET Nat  BY <1>4, FunctionType
  <2>3. \A c \in DOMAIN u : u[c].transaction = 0  BY NoUploadType
  <2> QED  BY <2>1, <2>2, <2>3 DEF PartialFunction
<1> HIDE DEF q, u
<1>7. v.registry = q /\ v.uploads = u /\ v = [registry |-> v.registry, uploads |-> v.uploads]  OBVIOUS
<1>8. Renewed(server, v)  BY <1>4, <1>5, <1>6, <1>7 DEF Renewed
<1> HIDE DEF v
<1>9. Moves(r, q) /\ q \in Registry  BY <1>4, <1>7, <1>8, RenewedServer
<1>10. m \in Heard /\ MessageOK(m, q)
  <2>1. DOMAIN EmptyRegistry.transactions = {}  BY EmptyFunction DEF EmptyRegistry
  <2>2. m = [kind |-> "event", op |-> "scene_begin", failure |-> "none", transaction |-> 0, png |-> NoPNG,
             properties |-> NoProperties]
    BY <2>1 DEF Event, Message
  <2> HIDE DEF m
  <2>3. m \in Heard  BY <2>2 DEF Heard, EventOp, Failure, Image, Reading
  <2>4. q.next \in Nat  BY <1>9, RegistryFields
  <2> QED  BY <1>5, <2>2, <2>3, <2>4 DEF MessageOK
<1> HIDE DEF m
<1>11. ASSUME NEW x \in Process
       PROVE  /\ bridge'[x] \in Bridge /\ BridgeOK(x, bridge'[x], q)
              /\ bridge'[x].link = bridge[x].link /\ bridge'[x].reads = bridge[x].reads
  <2> DEFINE b == bridge[x]
  <2>1. b \in Bridge /\ BridgeOK(x, b, r)  BY <1>4
  <2>2. BridgeOK(x, b, q)
    <3> HIDE DEF b
    <3> QED  BY <1>4, <1>5, <1>9, <2>1, BridgeStays
  <2>3. CASE bridge'[x] = b  BY <2>1, <2>2, <2>3
  <2>4. CASE b.link # 0 /\ bridge'[x] = [b EXCEPT !.inbox = Append(@, m)]
    <3> DEFINE old == b.inbox
               new == Append(old, m)
               n == bridge'[x]
    <3>1. old \in Seq(Heard)  BY <2>1, BridgeFields
    <3>2. n = [b EXCEPT !.inbox = new]  BY <2>4
    <3> HIDE DEF b, old
    <3>3. /\ new \in Seq(Heard) /\ Len(new) = Len(old) + 1 /\ new[Len(new)] = m
          /\ Len(old) \in Nat /\ \A i \in 1..Len(old) : new[i] = old[i]
      BY <1>10, <3>1, AppendProperties
    <3> HIDE DEF new, n
    <3>4. /\ n \in Bridge /\ n.inbox = new /\ n.link = b.link /\ n.reads = b.reads /\ n.jobs = b.jobs
          /\ n.outbox = b.outbox
      BY <2>1, <3>2, <3>3 DEF Bridge
    <3>5. TalkOK(b, q) => TalkOK(n, q)
      <4> SUFFICES ASSUME TalkOK(b, q) PROVE TalkOK(n, q)  OBVIOUS
      <4>1. ASSUME NEW i \in 1..Len(new) PROVE MessageOK(new[i], q)
        <5>1. (i \in 1..Len(old) /\ new[i] = old[i]) \/ new[i] = m  BY <3>3
        <5> QED  BY <1>10, <5>1 DEF TalkOK, old
      <4> QED  BY <3>4, <4>1 DEF TalkOK
    <3>6. BridgeOK(x, n, q)  BY <2>2, <2>4, <3>4, <3>5 DEF BridgeOK
    <3> QED  BY <3>4, <3>6 DEF n, b
  <2> QED  BY <1>3, <2>3, <2>4
<1>12. BridgesOK(bridge', q)
  <2>1. bridge' = [x \in Process |-> bridge'[x]]  BY <1>3
  <2>2. bridge' \in [Process -> Bridge]  BY <1>11, <2>1
  <2> QED  BY <1>11, <2>2 DEF BridgesOK
<1>13. Steady => ReadingsOK(v, bridge'[0])
  <2> DEFINE n == bridge'[0]
  <2>1. n.link = bridge[0].link /\ n.reads = bridge[0].reads
    <3>1. 0 \in Process  BY DEF Process
    <3> QED  BY <1>11, <3>1
  <2> HIDE DEF n
  <2>2. Steady => ReadingsOK(v, n)  BY <1>4, <1>5, <1>7, <1>8, <2>1, RenewedReadings
  <2> QED  BY <2>2 DEF n
<1>14. ToolsOK(v, bridge', tools)  BY <1>4, <1>5, <1>6, <1>7, <1>11 DEF ToolsOK
<1>15. LastOK(v, bridge', budget.last)  BY <1>4, <1>5, <1>7, <1>11 DEF LastOK
<1> QED  BY <1>1, <1>2, <1>7, <1>8, <1>12, <1>13, <1>14, <1>15, RenewedKeeps

LEMMA TimePassesKeeps ==
  ASSUME TypeOK, IInv, TimePasses
  PROVE  IInv' /\ budget' \in Budget /\ disk' = disk
<1> DEFINE r == server.registry
           T == r.transactions
<1>1. Spend /\ disk' = disk /\ bridge' = bridge /\ tools' = tools /\ loaded' = loaded  BY DEF TimePasses
<1>2. budget' \in Budget /\ budget'.last = budget.last  BY <1>1, SpendKeeps DEF TypeOK
<1>3. /\ server \in Server /\ r \in Registry /\ RegistryOK(r) /\ DraftsOK(r)
      /\ server.uploads \in PartialFunction(Nat, Upload) /\ DOMAIN server.uploads = DOMAIN r.peers
      /\ ServerOK(server, loaded) /\ (Steady => ReadingsOK(server, bridge[0]))
      /\ bridge \in [Process -> Bridge] /\ (\A x \in Process : BridgeOK(x, bridge[x], r))
      /\ ToolsOK(server, bridge, tools) /\ LastOK(server, bridge, budget.last)
  BY SessionFacts
<1>4. PICK t \in DOMAIN T :
        server' = [server EXCEPT !.registry.transactions =
                     [u \in DOMAIN @ |-> IF u <= t THEN [@[u] EXCEPT !.late = TRUE] ELSE @[u]]]
  BY DEF TimePasses
<1> DEFINE f == [u \in DOMAIN r.transactions |-> IF u <= t THEN [r.transactions[u] EXCEPT !.late = TRUE]
                                                 ELSE r.transactions[u]]
           q == [r EXCEPT !.transactions = f]
           v == server'
<1>5. v = [server EXCEPT !.registry = q]  BY <1>4
<1>6. Lessens(r, q) /\ q.peers = r.peers /\ q.authority = r.authority
  <2>1. f = [u \in DOMAIN r.transactions |-> IF u <= t THEN [r.transactions[u] EXCEPT !.late = TRUE]
                                            ELSE r.transactions[u]]
    OBVIOUS
  <2>2. q = [r EXCEPT !.transactions = f] /\ t \in DOMAIN r.transactions  OBVIOUS
  <2> HIDE DEF v, f, q, r
  <2> QED  BY <1>3, <2>1, <2>2, LateLessens
<1> HIDE DEF q, v
<1>7. v.registry = q /\ v.uploads = server.uploads /\ v = [registry |-> v.registry, uploads |-> v.uploads]
  BY <1>3, <1>5 DEF Server
<1>8. Renewed(server, v)  BY <1>3, <1>6, <1>7 DEF Renewed
<1>9. Moves(r, q) /\ q \in Registry  BY <1>3, <1>7, <1>8, RenewedServer
<1>10. Steady => ReadingsOK(v, bridge[0])  BY <1>3, <1>6, <1>7, <1>8, RenewedReadings
<1>11. BridgesOK(bridge, q)
  <2>1. \A x \in Process : BridgeOK(x, bridge[x], q)  BY <1>3, <1>6, <1>9, BridgeStays
  <2> QED  BY <1>3, <2>1 DEF BridgesOK
<1>12. ToolsOK(v, bridge, tools) /\ LastOK(v, bridge, budget.last)
  BY <1>3, <1>6, <1>7 DEF ToolsOK, LastOK
<1> QED  BY <1>1, <1>2, <1>7, <1>8, <1>10, <1>11, <1>12, RenewedKeeps DEF v

\* A coordinator opened again has the store, and no connection.
LEMMA RestoredOK ==
  ASSUME NEW s, NEW k, DiskOK(s, k), NEW v, v = [registry |-> restore(k.stored), uploads |-> <<>>]
  PROVE  /\ ServerOK(v, {}) /\ DOMAIN v.registry.peers = {} /\ v.registry.versions = k.stored.versions
         /\ \A b : Steady => ReadingsOK(v, b)
<1> DEFINE stored == k.stored
           q == restore(stored)
<1>1. /\ stored \in Stored /\ Whole(stored) /\ stored.next >= Cardinality(stored.versions)
      /\ Steady => OneReading(stored.versions)
  BY DEF DiskOK
<1>2. /\ <<>> \in PartialFunction(Nat, Player \cup {0}) /\ <<>> \in PartialFunction(Nat, Draft)
      /\ <<>> \in PartialFunction(Nat, Upload) /\ DOMAIN <<>> = {}
  BY EmptyFunction
<1>3. q = [peers |-> <<>>, authority |-> 0, transactions |-> <<>>, versions |-> stored.versions,
           blobs |-> stored.blobs, current |-> stored.current, next |-> stored.next]
  <2> DEFINE e == EmptyRegistry
             z == [p \in Player |-> 0]
  <2>1. e = [peers |-> <<>>, authority |-> 0, transactions |-> <<>>, versions |-> {}, blobs |-> {},
             current |-> z, next |-> 0]
    BY DEF EmptyRegistry
  <2>2. q = [e EXCEPT !.versions = stored.versions, !.blobs = stored.blobs, !.current = stored.current,
                      !.next = stored.next]
    BY DEF restore
  <2> HIDE DEF e, z, q, stored
  <2> QED  BY <2>1, <2>2
<1>4. v = [registry |-> q, uploads |-> <<>>]  OBVIOUS
<1> HIDE DEF q, stored
<1>5. q \in Registry  BY <1>1, <1>2, <1>3 DEF Registry, Stored
<1>6. v \in Server /\ v.registry = q /\ v.uploads = <<>>  BY <1>2, <1>4, <1>5 DEF Server
<1>7. DOMAIN q.peers = {} /\ DOMAIN q.transactions = {} /\ q.authority = 0  BY <1>2, <1>3
<1>8. PeersOK(q) /\ DraftsOK(q)  BY <1>7 DEF PeersOK, DraftsOK
<1>9. snapshot(q) = stored  BY <1>1, <1>3 DEF snapshot, Stored
<1>10. NumbersOK(q)
  <2>1. IsFiniteSet({}) /\ Cardinality({}) = 0  BY FS_EmptySet
  <2>2. Cardinality(stored.versions) \in Nat  BY <1>1, FS_CardinalityType DEF Whole
  <2>3. stored.next \in Nat  BY <1>1 DEF Stored
  <2> QED  BY <1>1, <1>3, <1>7, <2>1, <2>2, <2>3 DEF NumbersOK
<1>11. UploadsOK(v, {}) /\ MappingsOK(q, {})  BY <1>2, <1>6, <1>7 DEF UploadsOK, MappingsOK
<1>12. ServerOK(v, {})  BY <1>1, <1>6, <1>8, <1>9, <1>10, <1>11 DEF ServerOK, RegistryOK
<1>13. q.versions = stored.versions  BY <1>3
<1>14. Validated(q) = {}  BY <1>7 DEF Validated
<1>15. ASSUME NEW b, Steady PROVE ReadingsOK(v, b)
  BY <1>1, <1>6, <1>7, <1>13, <1>14, <1>15 DEF ReadingsOK
<1> QED  BY <1>6, <1>7, <1>12, <1>13, <1>15 DEF stored

LEMMA ReopensKeeps ==
  ASSUME TypeOK, IInv, Reopens
  PROVE  IInv' /\ budget' \in Budget /\ disk'.stored = disk.stored
<1> DEFINE v == [registry |-> restore(disk.stored), uploads |-> <<>>]
<1>1. server' = v /\ tools' = {} /\ loaded' = {}  BY DEF Reopens
<1>2. bridge' = [p \in Process |-> [bridge[p] EXCEPT !.link = IF @ = 0 THEN 0 ELSE Ended, !.inbox = <<>>]]
  BY DEF Reopens
<1>3. budget' = [budget EXCEPT !.last = 0, !.faults = @ - 1]  BY DEF Reopens
<1>4. disk' = [disk EXCEPT !.broken = FALSE]  BY DEF Reopens
<1>5. /\ bridge \in [Process -> Bridge] /\ (\A x \in Process : BridgeOK(x, bridge[x], server.registry))
      /\ DiskOK(server, disk) /\ budget \in Budget
  BY SessionFacts
<1>6. budget' \in Budget /\ budget'.last = 0
  <2> DEFINE k == budget.faults - 1
  <2>1. budget' = [budget EXCEPT !.last = 0, !.faults = k] /\ k \in Int  BY <1>3, <1>5 DEF Budget
  <2> HIDE DEF k
  <2> QED  BY <1>5, <2>1 DEF Budget
<1>7. /\ ServerOK(v, {}) /\ DOMAIN v.registry.peers = {} /\ v.registry.versions = disk.stored.versions
      /\ \A b : Steady => ReadingsOK(v, b)
  BY <1>5, RestoredOK
<1> HIDE DEF v
<1>8. disk' \in [stored : Stored, broken : BOOLEAN] /\ disk'.stored = disk.stored
  BY <1>4, <1>5 DEF DiskOK
<1>9. DiskOK(v, disk')  BY <1>5, <1>7, <1>8 DEF DiskOK
<1>10. ASSUME NEW x \in Process
       PROVE  /\ bridge'[x] \in Bridge /\ BridgeOK(x, bridge'[x], v.registry)
              /\ bridge'[x].link <= 0 /\ bridge'[x].link >= Ended
  <2> DEFINE b == bridge[x]
             link == IF b.link = 0 THEN 0 ELSE Ended
             n == bridge'[x]
  <2>1. n = [b EXCEPT !.link = link, !.inbox = <<>>]  BY <1>2
  <2>2. b \in Bridge /\ b.outbox = <<>> /\ (b.link = 0 => DOMAIN b.jobs = {})  BY <1>5 DEF BridgeOK
  <2>3. link \in Int /\ link <= 0 /\ link >= Ended /\ (link = 0 => b.link = 0)  BY DEF Ended
  <2>4. <<>> \in Seq(Heard)  OBVIOUS
  <2> HIDE DEF b, link, n
  <2>5. /\ n \in Bridge /\ n.link = link /\ n.inbox = <<>> /\ n.jobs = b.jobs /\ n.outbox = b.outbox
    BY <2>1, <2>2, <2>3, <2>4 DEF Bridge
  <2>6. BridgeOK(x, n, v.registry)  BY <1>7, <2>2, <2>3, <2>5 DEF BridgeOK
  <2> QED  BY <2>3, <2>5, <2>6 DEF n
<1>11. BridgesOK(bridge', v.registry)
  <2>1. bridge' = [x \in Process |-> bridge'[x]]  BY <1>2
  <2>2. bridge' \in [Process -> Bridge]  BY <1>10, <2>1
  <2> QED  BY <1>10, <2>2 DEF BridgesOK
<1>12. ToolsOK(v, bridge', {})  BY DEF ToolsOK
<1>13. LastOK(v, bridge', 0)  BY <1>7, <1>10 DEF LastOK
<1>14. Steady => ReadingsOK(v, bridge'[0])  BY <1>7
<1>15. SessionOK(v, bridge', {}, {}, 0)  BY <1>7, <1>11, <1>12, <1>13, <1>14 DEF SessionOK
<1> QED  BY <1>1, <1>6, <1>8, <1>9, <1>15 DEF IInv

-----------------------------------------------------------------------------
(* A new universe.                                                         *)

LEMMA InitKeeps ==
  ASSUME Init
  PROVE  TypeOK /\ IInv
<1> DEFINE F == {p + 1 : p \in FirstPeers}
           P == [c \in F |-> c - 1]
           q == server.registry
<1>1. /\ Process \subseteq Player \cup {0} /\ FirstTools \subseteq Player /\ FirstPeers = Process \cup FirstTools
      /\ 0 \in Process /\ FirstTools \cap Process = {} /\ MaxConnection \in Nat /\ MaxTransaction \in Nat
      /\ MaxFault \in Nat
  BY ContentExchangeConstants, PlayersAreNumbered DEF Process, FirstTools, FirstPeers
<1>2. /\ FirstPeers \subseteq Player \cup {0} /\ Player \subseteq Nat \ {0} /\ Cardinality(Player) \in Nat
      /\ \A p \in FirstPeers : p \in Nat /\ p <= Cardinality(Player)
  BY <1>1, PlayersAreNumbered
<1>3. /\ F \in SUBSET Nat /\ 0 \notin F /\ 1 \in F
      /\ \A p \in FirstPeers : p + 1 \in F
      /\ \A c \in F : /\ c \in Nat /\ c - 1 \in FirstPeers /\ c <= Cardinality(Player) + 1
                      /\ (c - 1 = 0 => c = 1)
  <2>1. F \in SUBSET Nat /\ 0 \notin F  BY <1>2
  <2>2. 1 \in F
    <3>1. 0 \in FirstPeers  BY <1>1
    <3>2. 0 + 1 \in F  BY <3>1
    <3> QED  BY <3>2
  <2>3. \A c \in F : c \in Nat /\ c - 1 \in FirstPeers /\ c <= Cardinality(Player) + 1 /\ (c - 1 = 0 => c = 1)
    <3> SUFFICES ASSUME NEW c \in F
                 PROVE  c \in Nat /\ c - 1 \in FirstPeers /\ c <= Cardinality(Player) + 1 /\ (c - 1 = 0 => c = 1)
      OBVIOUS
    <3>1. PICK p \in FirstPeers : c = p + 1  OBVIOUS
    <3>2. p \in Nat /\ p <= Cardinality(Player)  BY <1>2
    <3>3. c - 1 = p /\ c \in Nat /\ c <= Cardinality(Player) + 1  BY <1>2, <3>1, <3>2
    <3> QED  BY <3>1, <3>2, <3>3
  <2> QED  BY <2>1, <2>2, <2>3
<1> HIDE DEF F
<1>4. DOMAIN P = F /\ P \in [F -> Player \cup {0}] /\ \A c \in F : P[c] = c - 1  BY <1>2, <1>3
<1>5. P \in PartialFunction(Nat, Player \cup {0})  BY <1>3, <1>4 DEF PartialFunction
<1>6. \A c, d \in F : P[c] = P[d] => c = d
  <2> SUFFICES ASSUME NEW c \in F, NEW d \in F, P[c] = P[d] PROVE c = d  OBVIOUS
  <2>1. c \in Nat /\ d \in Nat /\ c - 1 = d - 1  BY <1>3, <1>4
  <2> QED  BY <2>1
<1> DEFINE u == [c \in F |-> NoUpload]
           z == [p \in Player |-> 0]
<1>7. server = [registry |-> [EmptyRegistry EXCEPT !.peers = P, !.authority = 1], uploads |-> u]
  BY DEF Init, F
<1>8. /\ u \in PartialFunction(Nat, Upload) /\ DOMAIN u = F /\ \A c \in F : u[c].transaction = 0
  <2>1. u \in [F -> Upload]  BY NoUploadType
  <2> QED  BY <1>3, <2>1, NoUploadType DEF PartialFunction
<1>9. z \in [Player -> Nat] /\ \A p \in Player : z[p] = 0  OBVIOUS
<1>10. EmptyRegistry = [peers |-> <<>>, authority |-> 0, transactions |-> <<>>, versions |-> {}, blobs |-> {},
                        current |-> z, next |-> 0]
  BY DEF EmptyRegistry
<1> HIDE DEF P, u, z
<1>11. q = [peers |-> P, authority |-> 1, transactions |-> <<>>, versions |-> {}, blobs |-> {},
            current |-> z, next |-> 0]
  <2> DEFINE e == EmptyRegistry
  <2>1. q = [e EXCEPT !.peers = P, !.authority = 1]  BY <1>7
  <2>2. e = [peers |-> <<>>, authority |-> 0, transactions |-> <<>>, versions |-> {}, blobs |-> {},
             current |-> z, next |-> 0]
    BY <1>10
  <2> HIDE DEF e, q
  <2> QED  BY <2>1, <2>2
<1>12. server = [registry |-> q, uploads |-> u]  BY <1>7
<1> HIDE DEF q
<1>13. <<>> \in PartialFunction(Nat, Draft) /\ DOMAIN <<>> = {}  BY EmptyFunction
<1>14. q \in Registry  BY <1>5, <1>9, <1>11, <1>13 DEF Registry
<1>15. server \in Server /\ server.registry = q /\ server.uploads = u  BY <1>8, <1>12, <1>14 DEF Server
<1>16. PeersOK(q) /\ DraftsOK(q)
  <2>1. P[1] = 0 /\ \A c \in F : P[c] = 0 => c = 1  BY <1>3, <1>4
  <2> QED  BY <1>3, <1>4, <1>6, <1>11, <1>13, <2>1 DEF PeersOK, DraftsOK
<1> DEFINE s == [versions |-> {}, blobs |-> {}, current |-> z, next |-> 0]
<1>17. s \in Stored /\ Whole(s) /\ s.versions = {} /\ s.next = 0
  <2>1. s \in Stored /\ s.versions = {} /\ s.blobs = {} /\ s.current = z /\ s.next = 0  BY <1>9 DEF Stored
  <2> HIDE DEF s
  <2>2. IsFiniteSet({}) /\ Cardinality({}) = 0  BY FS_EmptySet
  <2>3. ASSUME NEW owner \in Player PROVE Chained(s, owner)
    <3> DEFINE chain == {v \in s.versions : v.owner = owner}
    <3>1. chain = {}  BY <2>1
    <3>2. {v.revision : v \in chain} = {} /\ 1..0 = {}  BY <3>1
    <3>3. \A v \in chain : v.parent = v.revision - 1 /\ v.png \in s.blobs  BY <3>1
    <3>4. s.current[owner] = 0  BY <1>9, <2>1
    <3> HIDE DEF chain
    <3>5. Cardinality(chain) = 0  BY <2>2, <3>1
    <3>6. {v.revision : v \in chain} = 1..Cardinality(chain)  BY <3>2, <3>5
    <3> QED  BY <3>3, <3>4, <3>5, <3>6 DEF Chained, chain
  <2>4. {v.png : v \in s.versions} = s.blobs  BY <2>1
  <2>5. MaxVersions \in Nat /\ MaxBlobs \in Nat  BY ContentRegistryConstants
  <2>6. /\ IsFiniteSet(s.versions) /\ IsFiniteSet(s.blobs)
        /\ Cardinality(s.versions) <= MaxVersions /\ Cardinality(s.blobs) <= MaxBlobs
    BY <2>1, <2>2, <2>5
  <2> QED  BY <2>1, <2>3, <2>4, <2>6 DEF Whole
<1>18. snapshot(q) = s /\ snapshot(EmptyRegistry) = s  BY <1>10, <1>11 DEF snapshot
<1> HIDE DEF s
<1>19. NumbersOK(q)
  <2>1. IsFiniteSet({}) /\ Cardinality({}) = 0  BY FS_EmptySet
  <2> QED  BY <1>11, <1>13, <2>1 DEF NumbersOK
<1>20. UploadsOK(server, {}) /\ MappingsOK(q, {})
  BY <1>4, <1>8, <1>11, <1>13, <1>15 DEF UploadsOK, MappingsOK
<1>21. ServerOK(server, {})  BY <1>15, <1>16, <1>17, <1>18, <1>19, <1>20 DEF ServerOK, RegistryOK
<1>22. ReadingsOK(server, bridge[0])
  <2>1. Validated(q) = {} /\ q.versions = {} /\ q.authority = 1  BY <1>11, <1>13 DEF Validated
  <2> QED  BY <1>3, <1>8, <1>15, <2>1 DEF ReadingsOK, OneReading
<1>23. PICK reads \in [Process -> Properties] :
         bridge = [p \in Process |-> [NewBridge(reads[p]) EXCEPT !.link = p + 1]]
  BY DEF Init
<1>24. ASSUME NEW p \in Process
       PROVE  bridge[p] \in Bridge /\ BridgeOK(p, bridge[p], q) /\ bridge[p].link = p + 1 /\ p \in FirstPeers
  <2> DEFINE n == NewBridge(reads[p])
             b == bridge[p]
  <2>1. n \in Bridge /\ n.inbox = <<>> /\ n.outbox = <<>> /\ n.jobs = <<>>  BY NewBridgeType
  <2>2. p \in FirstPeers /\ p + 1 \in Int /\ p + 1 # 0 /\ P[p + 1] = p
    <3>1. p \in FirstPeers /\ p \in Nat  BY <1>1, <1>2
    <3>2. P[p + 1] = (p + 1) - 1  BY <1>3, <1>4, <3>1
    <3> QED  BY <3>1, <3>2
  <2> DEFINE k == p + 1
  <2>3. b = [n EXCEPT !.link = k]  BY <1>23
  <2> HIDE DEF n, b, k
  <2>4. b \in Bridge /\ b.link = k /\ b.inbox = <<>> /\ b.outbox = <<>> /\ DOMAIN b.jobs = {}
    BY <2>1, <2>2, <2>3, EmptyFunction DEF Bridge, k
  <2>5. TalkOK(b, q)  BY <2>4 DEF TalkOK
  <2>6. BridgeOK(p, b, q)  BY <1>11, <2>2, <2>4, <2>5 DEF BridgeOK, k
  <2> QED  BY <2>2, <2>4, <2>6 DEF b, k
<1>25. BridgesOK(bridge, q)
  <2>1. bridge = [p \in Process |-> bridge[p]]  BY <1>23
  <2>2. bridge \in [Process -> Bridge]  BY <1>24, <2>1
  <2> QED  BY <1>24, <2>2 DEF BridgesOK
<1>26. tools = {p + 1 : p \in FirstTools} /\ loaded = {}  BY DEF Init
<1>27. ToolsOK(server, bridge, tools)
  <2>1. ASSUME NEW c \in tools
        PROVE  /\ c \in F /\ P[c] # 0 /\ u[c].transaction = 0 /\ \A p \in Process : bridge[p].link # c
    <3>1. PICK x \in FirstTools : c = x + 1  BY <1>26
    <3>2. x \in FirstPeers /\ x \in Nat /\ x # 0 /\ x \notin Process  BY <1>1, <1>2, <3>1
    <3>3. c \in F /\ P[c] = c - 1  BY <1>3, <1>4, <3>1, <3>2
    <3>4. ASSUME NEW p \in Process PROVE bridge[p].link # c
      <4>1. bridge[p].link = p + 1 /\ p \in Nat  BY <1>2, <1>24
      <4>2. p # x  BY <3>2
      <4> QED  BY <3>1, <3>2, <4>1, <4>2
    <3> QED  BY <1>8, <3>1, <3>2, <3>3, <3>4
  <2> QED  BY <1>4, <1>11, <1>15, <2>1 DEF ToolsOK
<1>28. budget = [last |-> Cardinality(Player) + 1, connections |-> MaxConnection, drafts |-> MaxTransaction,
                 faults |-> MaxFault]
  BY DEF Init
<1>29. budget.last = Cardinality(Player) + 1 /\ budget \in Budget  BY <1>1, <1>2, <1>28 DEF Budget
<1>30. LastOK(server, bridge, budget.last)
  <2>1. \A c \in F : c <= budget.last  BY <1>3, <1>29
  <2>2. ASSUME NEW p \in Process PROVE bridge[p].link <= budget.last /\ bridge[p].link >= Ended
    <3>1. bridge[p].link = p + 1 /\ p \in Nat /\ p <= Cardinality(Player)  BY <1>2, <1>24
    <3> QED  BY <1>2, <1>29, <3>1 DEF Ended
  <2> QED  BY <1>4, <1>11, <1>15, <2>1, <2>2 DEF LastOK
<1>31. disk = [stored |-> s, broken |-> FALSE]  BY <1>18 DEF Init
<1>32. DiskOK(server, disk)
  <2>1. disk.stored = s /\ disk \in [stored : Stored, broken : BOOLEAN]  BY <1>17, <1>31
  <2>2. q.versions = {}  BY <1>11
  <2>3. s.next >= Cardinality(s.versions)
    <3>1. Cardinality({}) = 0  BY FS_EmptySet
    <3> QED  BY <1>17, <3>1
  <2>4. OneReading(s.versions)  BY <1>17 DEF OneReading
  <2> QED  BY <1>15, <1>17, <2>1, <2>2, <2>3, <2>4 DEF DiskOK
<1>33. IInv
  <2>1. ServerOK(server, loaded)  BY <1>21, <1>26
  <2> QED  BY <1>15, <1>22, <1>25, <1>27, <1>30, <1>32, <2>1 DEF IInv, SessionOK
<1> QED  BY <1>29, <1>33, TypesFollow

-----------------------------------------------------------------------------
(* The theorems.                                                           *)

LEMMA NextKeeps ==
  ASSUME TypeOK, IInv, [Next]_vars
  PROVE  IInv' /\ budget' \in Budget /\ NewAsLoaded
<1> USE DEF NewAsLoaded
<1>1. ASSUME NEW p \in Tooled, ToolConnects(p) PROVE IInv' /\ budget' \in Budget /\ NewAsLoaded
  BY <1>1, ToolConnectsKeeps
<1>2. ASSUME NEW p \in Process, BridgeConnects(p) PROVE IInv' /\ budget' \in Budget /\ NewAsLoaded
  BY <1>2, BridgeConnectsKeeps
<1>3. ASSUME NEW p \in Process, BridgeReceives(p) PROVE IInv' /\ budget' \in Budget /\ NewAsLoaded
  BY <1>3, BridgeReceivesKeeps
<1>4. ASSUME NEW p \in Process, BridgeUpdates(p) PROVE IInv' /\ budget' \in Budget /\ NewAsLoaded
  BY <1>4, BridgeUpdatesKeeps
<1>5. ASSUME NEW p \in Process, JobExpires(p) PROVE IInv' /\ budget' \in Budget /\ NewAsLoaded
  BY <1>5, JobExpiresKeeps DEF JobExpires
<1>6. ASSUME NEW p \in Process, BridgeLosesLink(p) PROVE IInv' /\ budget' \in Budget /\ NewAsLoaded
  BY <1>6, BridgeLosesLinkKeeps DEF BridgeLosesLink
<1>7. ASSUME NEW p \in Process, GameRestarts(p) PROVE IInv' /\ budget' \in Budget /\ NewAsLoaded
  BY <1>7, GameRestartsKeeps DEF GameRestarts
<1>8. ASSUME NEW c \in DOMAIN server.registry.peers, Disconnects(c)
      PROVE  IInv' /\ budget' \in Budget /\ NewAsLoaded
  BY <1>8, DisconnectsKeeps
<1>9. ASSUME NEW c \in tools, ToolRequests(c) PROVE IInv' /\ budget' \in Budget /\ NewAsLoaded
  BY <1>9, ToolRequestsKeeps
<1>10. CASE receive_scene_begin  BY <1>10, SceneBeginKeeps
<1>11. CASE TimePasses  BY <1>11, TimePassesKeeps
<1>12. CASE Reopens  BY <1>12, ReopensKeeps
<1>13. CASE UNCHANGED vars
  <2>1. /\ server' = server /\ disk' = disk /\ bridge' = bridge /\ tools' = tools /\ loaded' = loaded
        /\ budget' = budget
    BY <1>13 DEF vars
  <2>2. IInv'  BY <2>1 DEF IInv
  <2> QED  BY <2>1, <2>2 DEF TypeOK
<1> QED
  BY <1>1, <1>2, <1>3, <1>4, <1>5, <1>6, <1>7, <1>8, <1>9, <1>10, <1>11, <1>12, <1>13 DEF Next

\* Whatever connections, tools and bridges do, and whenever the coordinator is
\* opened again, every state is of its type and the registry, the uploads, the
\* bridges' messages and jobs and the store agree.
THEOREM ContentInvariant == Spec => [](TypeOK /\ IInv)
<1>1. Init => TypeOK /\ IInv  BY InitKeeps
<1>2. TypeOK /\ IInv /\ [Next]_vars => (TypeOK /\ IInv)'
  <2> SUFFICES ASSUME TypeOK, IInv, [Next]_vars PROVE TypeOK' /\ IInv'  OBVIOUS
  <2>1. IInv' /\ budget' \in Budget  BY NextKeeps
  <2>2. TypeOK'
    <3>1. /\ server' \in Server /\ disk' \in [stored : Stored, broken : BOOLEAN] /\ bridge' \in [Process -> Bridge]
      BY <2>1 DEF IInv, SessionOK, ServerOK, DiskOK, BridgesOK
    <3>2. \A c \in tools' : c \in DOMAIN server'.registry.peers  BY <2>1 DEF IInv, SessionOK, ToolsOK
    <3> DEFINE v == server'
    <3>3. v \in Server  BY <3>1
    <3> HIDE DEF v
    <3>4. DOMAIN v.registry.peers \in SUBSET Nat  BY <3>3, ServerFields, RegistryFields
    <3> QED  BY <2>1, <3>1, <3>2, <3>4 DEF TypeOK, v
  <2> QED  BY <2>1, <2>2
<1> QED  BY <1>1, <1>2, PTL DEF Spec

\* A bridge never carries a job of one draft on into another: what a job on a
\* live connection fetched or was told is its draft's.
THEOREM JobsAlwaysCurrent == Spec => []JobsAreCurrent
<1>1. TypeOK /\ IInv => JobsAreCurrent
  <2> SUFFICES ASSUME IInv, NEW p \in Process, bridge[p].link \in DOMAIN server.registry.peers,
                      NEW t \in DOMAIN bridge[p].jobs \intersect DOMAIN server.registry.transactions
               PROVE  LET job == bridge[p].jobs[t]
                          draft == server.registry.transactions[t]
                      IN  /\ {job.expected, job.png} \subseteq {NoPNG, draft.png}
                          /\ job.announced \in {NoProperties, draft.properties}
    BY DEF JobsAreCurrent
  <2>1. TalkOK(bridge[p], server.registry)  BY BridgeHolds
  <2>2. JobOK(bridge[p].jobs[t], t, server.registry)  BY <2>1 DEF TalkOK
  <2> QED  BY <2>2 DEF JobOK
<1> QED  BY <1>1, ContentInvariant, PTL

\* What a coordinator serves, announces or builds on is in its store, whatever
\* write failed and however it failed.
THEOREM PublishedAlwaysStored == Spec => []PublishedIsStored
<1>1. TypeOK /\ IInv => PublishedIsStored  BY DEF IInv, DiskOK, PublishedIsStored
<1> QED  BY <1>1, ContentInvariant, PTL

\* Where one process always reads one image the same way, what a coordinator
\* serves is in its store and that store passes restore's checks.
THEOREM PublishedAlwaysReopens ==
  ASSUME Steady
  PROVE  Spec => []PublishedReopens
<1>1. TypeOK /\ IInv => PublishedReopens
  <2> SUFFICES ASSUME IInv PROVE PublishedReopens  OBVIOUS
  <2> DEFINE s == disk.stored
  <2>1. /\ server.registry.versions \subseteq s.versions /\ Whole(s) /\ s.next >= Cardinality(s.versions)
        /\ OneReading(s.versions)
    BY DEF IInv, DiskOK
  <2> HIDE DEF s
  <2>2. \A owner \in Player : lineage_valid(s, owner)
    <3>1. ASSUME NEW owner \in Player PROVE lineage_valid(s, owner)
      <4>1. Chained(s, owner)  BY <2>1 DEF Whole
      <4>2. \A v \in s.versions : ~properties_conflict(s.versions, v.png, v.properties)
        BY <2>1 DEF OneReading, properties_conflict
      <4> QED  BY <4>1, <4>2 DEF Chained, lineage_valid
    <3> QED  BY <3>1
  <2>3. restorable(s)  BY <2>1, <2>2 DEF restorable, Whole
  <2> QED  BY <2>1, <2>3 DEF PublishedReopens, PublishedIsStored, SnapshotReopens, s
<1> QED  BY <1>1, ContentInvariant, PTL

\* A version enters the store only after every peer connected then reported,
\* on that very connection, the properties it is published with.
THEOREM AlwaysPublishedAsLoaded == Spec => PublishedAsLoaded
<1>1. TypeOK /\ IInv /\ [Next]_vars =>
        [\A v \in disk'.stored.versions \ disk.stored.versions :
           \A c \in DOMAIN server.registry.peers : <<c, v.png, v.properties>> \in loaded]_vars
  BY NextKeeps DEF NewAsLoaded
<1> QED  BY <1>1, ContentInvariant, PTL DEF Spec, PublishedAsLoaded
=============================================================================
