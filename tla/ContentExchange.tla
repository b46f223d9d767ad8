--------------------------- MODULE ContentExchange ---------------------------
(* Content transactions end to end: ContentControl and its registry on the *)
(* coordinator, the durable store behind it, the bridges that validate and *)
(* load content inside the original game, and the players' content tools.  *)
(* An observation's chunks, as an image's, are one chunk here.             *)
EXTENDS ContentRegistry, Sequences

CONSTANTS
  Bridged,        \* the players whose game may run with a bridge
  Tooled,         \* the players who may use the content tool
  Steady,         \* whether one process always reads one image the same way
  MaxConnection,  \* bound: connections after the first ones
  MaxTransaction, \* bound: drafts of the whole run
  MaxFault        \* bound: links, processes, writes, uploads, scenes and parts lost

ASSUME ContentExchangeConstants ==
  /\ Bridged \union Tooled \subseteq Player /\ Steady \in BOOLEAN
  /\ MaxConnection \in Nat /\ MaxTransaction \in Nat /\ MaxFault \in Nat

VARIABLES
  server, \* ContentControl: its registry and the peers' observation uploads
  disk,   \* the last stored registry, and whether the store has failed closed
  bridge, \* per bridge (0 is the authority's): link, messages and jobs
  tools,  \* the connections held by a player's content tool
  loaded, \* what each live connection's engine read, or its tool reported
  budget  \* what is left of the bounds, with the last connection's number

vars == <<server, disk, bridge, tools, loaded, budget>>

Process == {0} \union Bridged
Ended == -1 \* the link of a bridge whose coordinator ended
NoUpload == [transaction |-> 0, png |-> NoPNG, properties |-> NoProperties, whole |-> FALSE]
NewBridge(reads) == [link |-> 0, jobs |-> <<>>, asked |-> <<>>, inbox |-> <<>>, outbox |-> <<>>,
                     imported |-> {}, staged |-> {}, approved |-> TRUE, reads |-> reads]

\* A new universe, with its authority, each player's bridge and the tools of
\* the players without one connected.
FirstTools == Tooled \ Bridged
FirstPeers == Process \union FirstTools

Init ==
  /\ server = [registry |-> [EmptyRegistry EXCEPT !.peers = [c \in {p + 1 : p \in FirstPeers} |-> c - 1],
                                                 !.authority = 1],
               uploads |-> [c \in {p + 1 : p \in FirstPeers} |-> NoUpload]]
  /\ disk = [stored |-> snapshot(EmptyRegistry), broken |-> FALSE]
  /\ \E reads \in [Process -> Properties] :
       bridge = [p \in Process |-> [NewBridge(reads[p]) EXCEPT !.link = p + 1]]
  /\ tools = {p + 1 : p \in FirstTools}
  /\ loaded = {}
  /\ budget = [last |-> Cardinality(Player) + 1, connections |-> MaxConnection, drafts |-> MaxTransaction,
               faults |-> MaxFault]

Spend == budget.faults > 0 /\ budget' = [budget EXCEPT !.faults = @ - 1]

(* ContentControl on the coordinator                                       *)

\* A request, without what only some operations carry.
Request(op, t) == [op |-> op, transaction |-> t, base |-> 0, bytes |-> "none",
                   png |-> NoPNG, properties |-> NoProperties]

drop_unadmitted_observations(s) ==
  LET refusals == {c \in DOMAIN s.uploads :
                     /\ s.uploads[c].transaction # 0
                     /\ observation_admission(s.registry, c, s.uploads[c].transaction).failure # "none"}
      tried == {s.uploads[c].transaction : c \in refusals} \intersect DOMAIN s.registry.transactions
  IN  [registry |-> [s.registry EXCEPT !.transactions =
                       Without(@, {t \in tried : s.registry.transactions[t].late})],
       uploads |-> [c \in DOMAIN s.uploads |-> IF c \in refusals THEN NoUpload ELSE s.uploads[c]]]

control_connect(s, c, player) ==
  [registry |-> connect(s.registry, c, player),
   uploads |-> With(Without(s.uploads, PreviousConnections(s.registry, player)), c, NoUpload)]

control_disconnect(s, c) ==
  LET authority == c = s.registry.authority
      left == Without(s.uploads, {c})
  IN  [registry |-> disconnect(s.registry, c),
       uploads |-> [d \in DOMAIN left |-> IF authority THEN NoUpload ELSE left[d]]]

control_fence(s) ==
  [registry |-> fence(s.registry), uploads |-> [c \in DOMAIN s.uploads |-> NoUpload]]

\* The answer of one operation, with the uploads it leaves.
Answer(s, decided) == [failure |-> decided.failure, uploads |-> s.uploads, registry |-> decided.registry]
WithUpload(answer, c, upload) == [answer EXCEPT !.uploads[c] = upload]
Refuse(answer, reason) == [answer EXCEPT !.failure = reason]

begin_observation(s, c, frame) ==
  LET admission == Answer(s, observation_admission(s.registry, c, frame.transaction))
  IN  IF admission.failure # "none" THEN admission
      ELSE IF s.uploads[c].transaction # 0 THEN Refuse(admission, "transaction_exists")
      ELSE WithUpload(admission, c, [transaction |-> frame.transaction, png |-> frame.png,
                                     properties |-> frame.properties, whole |-> FALSE])

append_observation(s, c, frame) ==
  LET admission == Answer(s, observation_admission(s.registry, c, frame.transaction))
  IN  IF admission.failure # "none" THEN WithUpload(admission, c, NoUpload)
      ELSE IF s.uploads[c].transaction # frame.transaction THEN Refuse(admission, "unknown_transaction")
      ELSE IF s.uploads[c].whole THEN Refuse(admission, "invalid_offset")
      ELSE [admission EXCEPT !.uploads[c].whole = TRUE]

end_observation(s, c, frame) ==
  LET admission == Answer(s, observation_admission(s.registry, c, frame.transaction))
      observed == s.uploads[c]
  IN  IF admission.failure # "none" THEN WithUpload(admission, c, NoUpload)
      ELSE IF observed.transaction # frame.transaction THEN Refuse(admission, "unknown_transaction")
      ELSE IF ~observed.whole THEN Refuse(admission, "invalid_size")
      ELSE WithUpload(Answer(s, IF c = s.registry.authority
                                THEN attest(s.registry, c, frame.transaction, observed)
                                ELSE ready(s.registry, c, frame.transaction, observed)), c, NoUpload)

commit_early(r, c, t, written) ==
  LET candidate_ == commit_unpersisted(r, c, t)
  IN  IF candidate_.failure # "none" THEN failure(r, candidate_.failure)
      ELSE IF ~written THEN failure(candidate_.registry, "storage_failed")
      ELSE candidate_

\* The candidate is published only once the store has it.
commit(r, c, t, written) ==
  LET candidate_ == commit_unpersisted(r, c, t)
  IN  IF candidate_.failure # "none" THEN failure(r, candidate_.failure)
      ELSE IF ~written THEN failure(r, "storage_failed")
      ELSE candidate_

apply_request(s, c, frame, written) ==
  LET r == s.registry
      t == frame.transaction
  IN  CASE frame.op = "begin" -> Answer(s, begin(r, c, frame.base))
        [] frame.op = "offer" -> Answer(s, offer(r, c, t, frame.png))
        [] frame.op = "chunk" -> Answer(s, append(r, c, t, frame.bytes))
        [] frame.op = "seal" -> Answer(s, seal(r, c, t))
        [] frame.op = "cancel" -> Answer(s, cancel(r, c, t))
        [] frame.op = "dependency_failure" -> Answer(s, dependency_failure(r, c, t))
        [] frame.op = "dependencies" ->
             LET admission == observation_admission(r, c, t)
             IN  Answer(s, IF admission.failure = "none" /\ ~proposed(r, t)
                           THEN failure(r, "not_ready") ELSE admission)
        [] frame.op = "fetch" -> Answer(s, candidate(r, c, t))
        [] frame.op = "observation_begin" -> begin_observation(s, c, frame)
        [] frame.op = "observation_chunk" -> append_observation(s, c, frame)
        [] frame.op = "observation_end" -> end_observation(s, c, frame)
        [] frame.op = "commit" -> Answer(s, commit(r, c, t, written))

\* What a draft is announced as, with the fields the bridges use.
Message(kind, op, reason, r, t) ==
  LET known == t \in DOMAIN r.transactions
  IN  [kind |-> kind, op |-> op, failure |-> reason, transaction |-> t,
       png |-> IF known THEN r.transactions[t].png ELSE NoPNG,
       properties |-> IF known THEN r.transactions[t].properties ELSE NoProperties]
Event(op, r, t) == Message("event", op, "none", r, t)

\* Who hears of a request that was carried out, and what.
Announced(s, c, frame) ==
  LET r == s.registry
      To(peers, op) == {<<p, Event(op, r, frame.transaction)>> : p \in peers}
      authorities == {p \in DOMAIN r.peers : r.peers[p] = 0}
  IN  CASE frame.op = "seal" -> To(authorities, "validate_event")
        [] frame.op = "observation_end" /\ c \in authorities /\ proposed(r, frame.transaction) ->
             To(DOMAIN r.peers \ authorities, "load_event")
        [] frame.op = "dependency_failure" /\ proposed(r, frame.transaction) ->
             To({p \in DOMAIN r.peers : r.peers[p] = r.transactions[frame.transaction].player}, "dependency_event")
        [] frame.op \in {"commit", "cancel"} ->
             To(DOMAIN r.peers, IF frame.op = "commit" THEN "published_event" ELSE "cancelled_event")
        [] OTHER -> {}

\* An end announced closes the uploads still open for it.
Closed(answer, frame) ==
  IF answer.failure = "none" /\ frame.op \in {"commit", "cancel"}
  THEN [c \in DOMAIN answer.uploads |-> IF answer.uploads[c].transaction = frame.transaction
                                        THEN NoUpload ELSE answer.uploads[c]]
  ELSE answer.uploads

\* One request, once the uploads no longer admitted are dropped.
receive(s, c, frame, written) ==
  LET Dispatched(answer, left) ==
        [server |-> left, failure |-> answer.failure,
         reply |-> Message("response", frame.op, answer.failure, left.registry, frame.transaction),
         told |-> IF answer.failure = "none" THEN Announced(left, c, frame) ELSE {}]
      Answered(answer) ==
        Dispatched(answer, [registry |-> answer.registry, uploads |-> Closed(answer, frame)])
  IN  Answered(apply_request(drop_unadmitted_observations(s), c, frame, written))

\* The dispatches of a request reach the bridges' connections in order.
Delivered(b, c, result) ==
  LET replies == IF b.link = c THEN <<result.reply>> ELSE <<>>
      events == {told \in result.told : told[1] = b.link}
  IN  IF b.link \in {0, Ended} THEN b
      ELSE [b EXCEPT !.inbox = @ \o replies \o
              (IF events = {} THEN <<>> ELSE <<(CHOOSE e \in events : TRUE)[2]>>)]

\* The coordinator carries out one request that writes nothing.
Answers(c, result, bridges) ==
  /\ server' = result.server
  /\ bridge' = [p \in Process |-> Delivered(bridges[p], c, result)]
Serves(c, frame, bridges) ==
  Answers(c, receive(server, c, frame, FALSE), bridges) /\ UNCHANGED disk

\* A commit; its write succeeds, or fails before or after the record is in
\* place and closes the store.
Commits(c, t) ==
  LET Ends(stored, refused, new, writes) ==
        \/ ~writes /\ Answers(c, refused, bridge) /\ UNCHANGED <<disk, budget>>
        \/ writes /\ Answers(c, stored, bridge) /\ disk' = [disk EXCEPT !.stored = new] /\ UNCHANGED budget
        \/ /\ writes /\ Spend
           /\ Answers(c, refused, bridge)
           /\ \E kept \in {disk.stored, new} : disk' = [stored |-> kept, broken |-> TRUE]
      Writes(stored, refused) ==
        Ends(stored, refused, snapshot(stored.server.registry), ~disk.broken /\ stored.failure = "none")
  IN  Writes(receive(server, c, Request("commit", t), TRUE), receive(server, c, Request("commit", t), FALSE))

\* What is kept of the reports: live connections', of the drafts' images.
Kept(reports) == {l \in reports : /\ l[1] \in DOMAIN server'.registry.peers
                                  /\ \E t \in DOMAIN server'.registry.transactions :
                                       server'.registry.transactions[t].png = l[2]}
Reported(c, png, properties) == loaded' = Kept(loaded \union {<<c, png, properties>>})
(* Connections                                                             *)

Connects(player) ==
  /\ budget.connections > 0
  /\ may_connect(server.registry, budget.last + 1, player)
  /\ server' = control_connect(server, budget.last + 1, player)
  /\ loaded' = Kept(loaded)
  /\ budget' = [budget EXCEPT !.last = @ + 1, !.connections = @ - 1]
  /\ UNCHANGED disk

ToolConnects(player) ==
  /\ Connects(player)
  /\ tools' = {c \in tools \union {budget.last + 1} : c \in DOMAIN server'.registry.peers}
  /\ UNCHANGED bridge

BridgeConnects(p) ==
  /\ bridge[p].link = 0
  /\ Connects(p)
  /\ bridge' = [bridge EXCEPT ![p].link = budget.last + 1]
  /\ tools' = tools \intersect DOMAIN server'.registry.peers

\* The session loses a connection: its process ended, or the link or lease did.
Held(c) == c \in tools \/ \E p \in Process : bridge[p].link = c
Disconnects(c) ==
  /\ IF Held(c) THEN Spend ELSE UNCHANGED budget
  /\ server' = control_disconnect(server, c)
  /\ tools' = tools \ {c}
  /\ loaded' = Kept(loaded)
  /\ UNCHANGED <<disk, bridge>>

\* Any location's authority begins a scene: every draft is fenced, and the
\* players there are told of the new scene.
receive_scene_begin ==
  /\ Spend
  /\ server' = control_fence(server)
  /\ \E told \in SUBSET (Process \ {0}) :
       bridge' = [p \in Process |->
         IF p \in told /\ bridge[p].link # 0
         THEN [bridge[p] EXCEPT !.inbox = Append(@, Event("scene_begin", EmptyRegistry, 0))]
         ELSE bridge[p]]
  /\ loaded' = Kept(loaded)
  /\ UNCHANGED <<disk, tools>>

\* A draft's five minutes pass, and those of every draft before it.
TimePasses ==
  /\ \E t \in DOMAIN server.registry.transactions :
       /\ ~server.registry.transactions[t].late
       /\ server' = [server EXCEPT !.registry.transactions =
            [u \in DOMAIN @ |-> IF u <= t THEN [@[u] EXCEPT !.late = TRUE] ELSE @[u]]]
  /\ Spend
  /\ UNCHANGED <<disk, bridge, tools, loaded>>

\* The coordinator ends and opens its universe again: only the store is left,
\* what was on its way is lost, and the counters of connections and drafts start over.
Reopens ==
  /\ budget.faults > 0
  /\ restorable(disk.stored)
  /\ server' = [registry |-> restore(disk.stored), uploads |-> <<>>]
  /\ disk' = [disk EXCEPT !.broken = FALSE]
  /\ tools' = {} /\ loaded' = {}
  /\ bridge' = [p \in Process |-> [bridge[p] EXCEPT !.link = IF @ = 0 THEN 0 ELSE Ended, !.inbox = <<>>]]
  /\ budget' = [budget EXCEPT !.last = 0, !.faults = @ - 1]

(* A player's content tool: its requests, in any order                     *)

\* A tool's observation is its own three requests in a row.
Observed(c, frame) ==
  LET begun == receive(server, c, frame, FALSE).server
      sent == receive(begun, c, Request("observation_chunk", frame.transaction), FALSE).server
  IN  receive(sent, c, Request("observation_end", frame.transaction), FALSE)

\* What it says matters only where an observation is admitted.
Reports(c, t) ==
  IF observation_admission(server.registry, c, t).failure = "none"
  THEN PNG \X (Properties \union {NoProperties}) ELSE {<<NoPNG, NoProperties>>}

\* Its other requests for a draft.
ToolFrames(t) ==
  {[Request("offer", t) EXCEPT !.png = png] : png \in PNG}
    \union {[Request("chunk", t) EXCEPT !.bytes = bytes] : bytes \in {"whole", "other"}}
    \union {Request(op, t) : op \in {"seal", "cancel", "dependency_failure"}}

ToolRequests(c) ==
  /\ \/ /\ budget.drafts > 0
        /\ \E base \in {v.revision : v \in server.registry.versions} \union {0} :
             Serves(c, [Request("begin", 0) EXCEPT !.base = base], bridge)
        /\ loaded' = Kept(loaded)
        /\ budget' = IF server'.registry.next = server.registry.next THEN budget
                     ELSE [budget EXCEPT !.drafts = @ - 1]
     \/ \E t \in DOMAIN server.registry.transactions :
          \/ \E frame \in ToolFrames(t) :
               /\ Serves(c, frame, bridge)
               /\ loaded' = Kept(loaded)
               /\ IF frame.bytes = "other" THEN Spend ELSE UNCHANGED budget
          \/ Commits(c, t) /\ loaded' = Kept(loaded)
          \/ /\ \E said \in Reports(c, t) :
                  LET Takes(observed) ==
                        /\ server' = observed.server
                        /\ IF observed.failure = "none" THEN Reported(c, said[1], said[2]) ELSE loaded' = Kept(loaded)
                  IN  Takes(Observed(c, [Request("observation_begin", t) EXCEPT
                                           !.png = said[1], !.properties = said[2]]))
             /\ UNCHANGED <<disk, bridge, budget>>
  /\ UNCHANGED tools

(* The bridge's content jobs                                               *)

fence_native_content_network(b) == [b EXCEPT !.jobs = <<>>, !.asked = <<>>]
remove(b, t) == [b EXCEPT !.jobs = Without(@, {t}), !.asked = Without(@, {t})]

\* The request of each phase, one at a time per job and two in all.
Asks == [dependencies |-> "dependencies", report_dependency |-> "dependency_failure", fetch |-> "fetch",
         observe_begin |-> "observation_begin", observe_chunk |-> "observation_chunk",
         observe_end |-> "observation_end"]

send_next(b, t) ==
  LET job == b.jobs[t]
      frame == [Request(Asks[job.phase], t) EXCEPT !.png = job.png, !.properties = job.read]
  IN  IF b.link = 0 \/ Cardinality(DOMAIN b.asked) >= 2 THEN remove(b, t)
      ELSE [b EXCEPT !.asked = With(@, t, frame.op), !.outbox = Append(@, frame)]

SendIn(b, t, phase) == send_next([b EXCEPT !.jobs[t].phase = phase], t)

\* The list of approvals is gone: exchange stops for this process.
Unapproved(b) == [fence_native_content_network(b) EXCEPT !.approved = FALSE]

\* A complete dependency manifest must be the one the load event announced.
receive_dependencies(b, t, m) ==
  LET job == b.jobs[t]
  IN  IF m.png # job.expected \/ m.properties # job.announced THEN remove(b, t)
      ELSE [b EXCEPT !.jobs[t].phase = "check_parts"]

receive_response(b, m) ==
  LET t == m.transaction
      heard == [b EXCEPT !.asked = Without(@, {t})]
  IN  CASE t \notin DOMAIN b.asked -> b
        [] t \in DOMAIN b.asked /\ t \notin DOMAIN b.jobs -> heard
        [] OTHER ->
             IF \/ m.op # b.asked[t] \/ m.failure # "none"
                \/ m.op \in {"dependency_failure", "observation_end"}
             THEN remove(b, t)
             ELSE IF m.op = "dependencies" THEN receive_dependencies(heard, t, m)
             ELSE IF m.op = "fetch" THEN [heard EXCEPT !.jobs[t].png = m.png, !.jobs[t].phase = "import"]
             ELSE SendIn(heard, t, IF m.op = "observation_begin" THEN "observe_chunk" ELSE "observe_end")

begin_job(b, p, m, listed) ==
  LET first == IF p = 0 THEN "fetch" ELSE "dependencies"
      job == [phase |-> first, expected |-> m.png, announced |-> m.properties, png |-> NoPNG,
              read |-> NoProperties]
  IN  IF m.op # (IF p = 0 THEN "validate_event" ELSE "load_event") THEN b
      ELSE IF ~listed THEN Unapproved(b)
      ELSE IF m.transaction \in DOMAIN b.jobs \/ Cardinality(DOMAIN b.jobs) >= 2 THEN b
      ELSE send_next([b EXCEPT !.jobs = With(@, m.transaction, job)], m.transaction)

receive_native_content_network(b, p, m, listed) ==
  IF m.op = "scene_begin" THEN fence_native_content_network(b)
  ELSE IF ~b.approved THEN b
  ELSE IF m.kind = "response" THEN receive_response(b, m)
  ELSE IF m.op \in {"published_event", "cancelled_event"} THEN remove(b, m.transaction)
  ELSE begin_job(b, p, m, listed)

\* The operator's list is there, or was taken away.
Listed(b) == {TRUE} \union (IF b.approved /\ budget.faults > 0 THEN {FALSE} ELSE {})

\* A request the bridge sends in a step is with the coordinator when that
\* carries it out: until its answer the job only waits, so the coordinator
\* may as well take it at once.  On a connection that ended it is lost.
Sends(p, b) ==
  IF b.outbox # <<>> /\ b.link \in DOMAIN server.registry.peers
  THEN Serves(b.link, Head(b.outbox), [bridge EXCEPT ![p] = [b EXCEPT !.outbox = <<>>]])
  ELSE /\ bridge' = [bridge EXCEPT ![p] = [b EXCEPT !.outbox = <<>>]]
       /\ UNCHANGED <<server, disk>>

BridgeReceives(p) ==
  /\ bridge[p].inbox # <<>>
  /\ LET b == [bridge[p] EXCEPT !.inbox = Tail(@)]
     IN  \E listed \in Listed(b) :
           /\ Sends(p, receive_native_content_network(b, p, Head(bridge[p].inbox), listed))
           /\ IF bridge'[p].approved = b.approved THEN listed /\ UNCHANGED budget ELSE Spend
  /\ loaded' = Kept(loaded)
  /\ UNCHANGED tools

\* The first job that waits for the original.
Waiting(b) == {t \in DOMAIN b.jobs : b.jobs[t].phase \in {"check_parts", "import"}}
FirstWaiting(b) == CHOOSE t \in Waiting(b) : \A u \in Waiting(b) : t <= u

\* The original holds every part, lacks one, or can not look them up.
check_job_parts(b, t) == {SendIn(b, t, "fetch"), SendIn(b, t, "report_dependency"), remove(b, t)}

\* The original's own reading: of an image this process imported before, or
\* of one staged now; a staged file is never replaced.
load_content(b, t, png, reads) ==
  LET seen == [b EXCEPT !.jobs[t].read = reads, !.jobs[t].png = png]
      staged == [seen EXCEPT !.staged = @ \union {png}]
  IN  IF png \in b.imported THEN {SendIn(seen, t, "observe_begin"), remove(b, t)}
      ELSE IF png \in b.staged THEN {remove(b, t)}
      ELSE {SendIn([staged EXCEPT !.imported = @ \union {png}], t, "observe_begin"), remove(staged, t)}

import_job(b, t, listed, reads) ==
  LET job == b.jobs[t]
  IN  IF ~listed THEN {Unapproved(b)}
      ELSE IF job.expected \notin {NoPNG, job.png} THEN {remove(b, t)}
      ELSE load_content(b, t, job.png, reads)

BridgeUpdates(p) ==
  /\ bridge[p].approved /\ Waiting(bridge[p]) # {}
  /\ LET b == bridge[p]
         t == FirstWaiting(b)
     IN  \E reads \in IF Steady THEN {b.reads} ELSE Properties, listed \in Listed(b) :
           IF b.jobs[t].phase = "check_parts"
           THEN /\ listed /\ reads = b.reads
                /\ \E next \in check_job_parts(b, t) :
                     /\ Sends(p, next)
                     /\ IF t \in DOMAIN next.jobs /\ next.jobs[t].phase = "fetch"
                        THEN UNCHANGED budget ELSE Spend
                /\ loaded' = Kept(loaded)
           ELSE \E next \in import_job(b, t, listed, reads) :
                  /\ Sends(p, next)
                  /\ IF t \in DOMAIN next.jobs
                     THEN /\ Reported(b.link, b.jobs[t].png, reads)
                          /\ UNCHANGED budget
                     ELSE Spend /\ loaded' = Kept(loaded)
  /\ UNCHANGED tools

\* A job's two minutes pass.
JobExpires(p) ==
  /\ Spend
  /\ bridge[p].approved
  /\ \E t \in DOMAIN bridge[p].jobs : bridge' = [bridge EXCEPT ![p] = remove(@, t)]
  /\ UNCHANGED <<server, disk, tools, loaded>>

\* The bridge learns that its connection closed, or closes it itself first.
connection_lost_unfenced(b) == [b EXCEPT !.link = 0, !.inbox = <<>>, !.outbox = <<>>]
connection_lost(b) == [fence_native_content_network(b) EXCEPT !.link = 0, !.inbox = <<>>, !.outbox = <<>>]
BridgeLosesLink(p) ==
  /\ bridge[p].link # 0
  /\ bridge' = [bridge EXCEPT ![p] = connection_lost(@)]
  /\ IF bridge[p].link \in DOMAIN server.registry.peers THEN Spend ELSE UNCHANGED budget
  /\ UNCHANGED <<server, disk, tools, loaded>>

\* The game ends; another process takes its place.
GameRestarts(p) ==
  /\ Spend
  /\ \E reads \in Properties : bridge' = [bridge EXCEPT ![p] = NewBridge(reads)]
  /\ UNCHANGED <<server, disk, tools, loaded>>

Next ==
  \/ \E p \in Tooled : ToolConnects(p)
  \/ \E p \in Process : \/ BridgeConnects(p) \/ BridgeReceives(p) \/ BridgeUpdates(p)
                        \/ JobExpires(p) \/ BridgeLosesLink(p) \/ GameRestarts(p)
  \/ \E c \in DOMAIN server.registry.peers : Disconnects(c)
  \/ \E c \in tools : ToolRequests(c)
  \/ receive_scene_begin \/ TimePasses \/ Reopens

Spec == Init /\ [][Next]_vars

(* Properties                                                              *)

\* What is published is stored: no version is served, announced or built on
\* that a coordinator opened again would not have.
\* (content_registry.cpp:690, commit writes the candidate before it is live)
PublishedIsStored == server.registry.versions \subseteq disk.stored.versions

\* The stored registry can always be opened again: whatever the drafts went
\* through, what commit wrote passes restore's checks.
\* (content_registry.cpp:865, restore; :89, no image under two readings)
SnapshotReopens == restorable(disk.stored)

\* A coordinator opened again after any fault has every version that was served.
PublishedReopens == PublishedIsStored /\ SnapshotReopens

\* A bridge never carries a job of one draft on into another: on a live
\* connection, what a job fetched or was told is its draft's.
\* (native_content_network.cpp:536, the fences; counters restart at :841)
JobsAreCurrent ==
  \A p \in Process : bridge[p].link \in DOMAIN server.registry.peers =>
    \A t \in DOMAIN bridge[p].jobs \intersect DOMAIN server.registry.transactions :
      LET job == bridge[p].jobs[t]
          draft == server.registry.transactions[t]
      IN  /\ {job.expected, job.png} \subseteq {NoPNG, draft.png}
          /\ job.announced \in {NoProperties, draft.properties}

\* A version enters the store, which is how it is published at once or when a
\* coordinator opens what a failed write left, only after every peer connected
\* then, on that very connection, reported the properties it is published with.
\* (content_registry.cpp:713, every live peer; :388, readiness not inherited)
PublishedAsLoaded ==
  [][\A v \in disk'.stored.versions \ disk.stored.versions :
       \A c \in DOMAIN server.registry.peers : <<c, v.png, v.properties>> \in loaded]_vars
=============================================================================
