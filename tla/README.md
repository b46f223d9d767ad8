# SporeMP: a TLA+ model of the shared universe

SporeMP lets several original SPORE processes share one universe. A *coordinator*
(C++, `src/network`) keeps the universe record, decides which *worker* (a SPORE
process with the bridge injected) may speak for which location, player avatar and
global system, moves an avatar from one worker to another, and relays a location's
scene to the players. The *bridge* (`src/bridge`) lives inside each original game: it
publishes the scene, projects it into a player's game, carries out the players' orders,
and keeps a second player in a game written for one. A *supervisor* (`src/worker`)
runs each worker. This directory models the parts that decide, what they store, and
what they may assume after a crash, a lost connection or a late message. Paths below
are relative to `src/` of the repository.

Contents: 1 inventory, 2 modules, 3 runs and bounds, 4 properties, 5 fairness,
6 proofs, 7 findings, 8 what is left out, 9 plan.

## 1. Inventory

| Component (source) | State | Operations | Hard behaviour | What makes it correct |
|---|---|---|---|---|
| Location ledger (`network/location_ledger.*`) | leases of locations, avatars, interests, global systems; transfers; event ids | 17 mutating calls, acceptance predicates, snapshot/restore | any call order; loss and replacement of a worker between two phases; generations at their last value | one lease at a time is accepted for an avatar; nothing accepted can produce a ledger that `restore` refuses; an inactive avatar can be brought back |
| Durable store (`network/durable_store.*`) | `CURRENT`, sealed records, `writer.lock` | open, commit | crash or failure between any two file operations; two processes; damaged files | an acknowledged record is what recovery reads; never reinitialised |
| Coordinator: reservations, replacement, native transfers (`coordinator.cpp`, `coordinator_transfer.inc`) | the universe record and, in memory, sessions and registered processes | prepare, cancel, begin, receipts, bind, request, commit, finish, recover, replace, restart | receipts, process deaths, disconnections, crashes and requests in any order | the published record always opens again; one running copy of an avatar; no older copy shown |
| Location session (`session.*`) | connections, scene, baselines, captured leases, maintenance | hello, scene, entity, acknowledgment, fence, rebind, release | leases and maintenance change under open connections | publishes only under current leases and outside maintenance; ready means applied |
| Shared scene in the bridge (`bridge/native_network.cpp`) | staged and applied snapshot, changes, tombstones | receive, apply, retry, quarantine | broken connections, deferred snapshots, replaced authorities | a replica follows the session's scene and ends up joined |
| Scene projection (`bridge/native_scene.cpp`) | nouns captured, bindings to local nouns | capture, project, admit, retire, rollback | two games free and reuse numbers by themselves | what is shown is the scene; an action reaches what was shown |
| Actor commands (`bridge/actor_commands.cpp`, `native_actors.cpp`) | queue, epoch, bindings, intentions, steering | admit, dispatch, update, fence | death, reuse of numbers, holds and lost links between admission and execution | an order reaches what it named; a fenced creature stands |
| Native transfer (`native_quiescence_probe.cpp`, `native_player_transfer_probe.cpp`, `native_network.cpp`) | counted pause, measurement, retained source, receipt | seven commands, resume, deadline | repeated commands, others pausing or changing the world | a receipt is true and stays true |
| The second player's fights and rewards (`native_relationship_context.cpp`, `native_history_context.cpp`, `native_award_context.cpp`, `native_pickup.cpp`, `native_social.cpp`) | a second Stage, relations, history, counters, grants | scopes around original callbacks | callbacks nested in callbacks; death and reload inside them | each result goes to its player, once |
| Deaths, tutorials, lessons (`native_death.cpp`, `native_hatch.cpp`, `native_award_context.cpp`) | what is held back, what was confirmed | hold, offer, present, confirm | late confirmations, lost clients, replaced workers, saves | nothing is released unseen or lost in a save |
| Content (`content_registry.cpp`, `content_control.cpp`, `native_content_network.cpp`) | versions, blobs, drafts, jobs | upload, attest, load, publish, reopen | peers and drafts change under a job; storage limits; failing store | a version is used only once stored and loaded by all |
| Supervisor and control pipe (`worker/*`, `native_worker.cpp`, `native_persistence.cpp`) | pending command, deadlines, pipes | start, forward, answer, stop | timeouts racing replies; a hung game | an answer is that command's; a stop ends |
| Request file, paired global checkpoint, peer/channel/TLS, wire codecs, world identity, command lines, observers and interface of the bridge, launcher | - | - | - | see section 8 |

How they interact: a worker or player connects through TLS and a channel to
`Coordinator::poll`, which routes packets to the session of a location. A session reads
the ledger through the `LocationLedger` it was given and reports transfer receipts to
the coordinator by callback. Every durable operation copies the ledger and the records,
edits the copies, commits one universe record through the store, and only then replaces
what is in memory. The administrator's operations come through the request file. Inside
a game everything runs on its engine thread, between or inside the original's own calls.

## 2. Modules

| Module | What it models |
|---|---|
| `LedgerOperations` | the ledger as a value: for each member function a guard (`CanX`) and a result (`X`), and `valid()` as `Valid` |
| `LocationLedger` | the ledger as a state machine, one action per member function, any caller |
| `AvatarAuthority` | abstract: per player one grant of authority, revoked and re-issued only under higher numbers |
| `DurableStore` | `open` and `commit` step by step, processes, crashes, failures, damage |
| `DurableRegister` | abstract: one register, one writer, a write takes effect in one step |
| `TransferRecords` | the universe record as a value: reservations, native transfers, starts, and everything `recover()` checks |
| `Coordinator` | the coordinator with its sessions, processes and administrator |
| `SceneSession` | one `Session`'s scene as operations: hello, baseline, entities, acknowledgments, maintenance, fence |
| `SceneReplica` | the bridge's two ends of a scene as operations: a player's replica, the authority |
| `SharedScene` | session, authority and players over connections that break |
| `SceneProjection` | the authority's nouns and a player's game that shows them |
| `ActorCommands` | bindings, the command queue and its epoch |
| `ActorInputs` | from a received action to the creature: admission, dispatch, updates, fences |
| `NativePause` | the counted pause and the measurement of a held world |
| `WorkerTransfer` | the authority's bridge under a transfer's commands |
| `WorkerSupervisor` | one supervisor as operations on its record |
| `WorkerControl` | tools, supervisor, host and engine thread |
| `ContentRegistry` | the registry as operations that answer a failure and the registry they leave |
| `ContentExchange` | `ContentControl`, the store, bridges and tools |
| `FollowedFight`, `SecondRewards` | a second player in one original game: blows; feeding, herd, social results |
| `SharedMoments` | deaths, tutorials and lessons between worker, session and clients |
| `LedgerLemmas` | what each operation of the ledger keeps, stated of values |
| `*Proofs` | the theorems of a component, after the lemmas they rest on |
| `MC*` | symmetry sets, small constants and the parts (`focus`) a run explores one by one |

`Coordinator` EXTENDS `TransferRecords`, which EXTENDS `LedgerOperations`: the
coordinator calls the very operators that `LocationLedger` and its proofs are about. The
store is composed by abstraction: `DurableStore` implements `DurableRegister`, so in
`Coordinator` a publication is one step on `head`, and a crash during it is the old or
the new record followed by `Restart`. `SharedScene` composes `SceneSession` with
`SceneReplica`; `MCSecondPlayer` puts `FollowedFight` and `SecondRewards` side by side.

Correspondence of state:

| Module: variable | Code |
|---|---|
| `Coordinator`: `head` | the universe record: `locations`, `preparations`, `native_transfers`, `maintenance_starts` (memory and store agree between operations) |
| `sessions` | `location_sessions`: captured leases (`view`), `permitted_owners`, `lease_fenced_`, `maintenance_`, `config_.maintenance_transfer` (`start`), `authority_`, `complete_`, `scene_` |
| `local_processes`, `home`, `dead` | `register_local_worker_process`; which location a process was given the credential of; ended processes |
| `live`, `held`, `runs` | history: which process may run a copy of an avatar, which export it contains; starts of the coordinator |
| `SharedScene`: `session` | `connections_`, `authority_`, `complete_`, `building_`, `staging_`, `entities_`, `tombstones_`, `scene_`, `source_baseline_` |
| `authority`, `clients` | the statics of `native_network.cpp` in each process |
| `served`, `closing`, `link`, `up`, `down` | the coordinator's channels, and TCP between two `Channel`s |
| `SceneProjection`: `nouns`, `incarnation` | the authority's `Manager::mNouns`, and the identity the original has but no number shows |
| `observed`, `minted`, `published`, `game` | the capture memory, the generations given, the published scene, a client's `bindings`, `replica_owned` and game |
| `ActorInputs`: `bridge` | `actor_commands` (`commands`), the owner details, intentions and steering of `native_actors.cpp`, session scope and creatures |
| `WorkerTransfer`: `worker`, `asked` | `transfer`, `status` of the probe, the game's pause count and second player; the coordinator's last command |
| `WorkerControl`: `sup`, `tools`, `engine` | `Supervisor`, `control.cpp`'s processes, the listener and persistence state of `native_worker.cpp`, `native_persistence.cpp` |
| `ContentExchange`: `server`, `disk`, `bridge`, `tools` | `ContentControl` with its `ContentRegistry`, the record the store holds, the jobs of each bridge, the content tool |
| `FollowedFight`: `bond`, `stack`, `account` | the followed creature and its manager, the damage scopes on the C++ stack, what each player's state says |
| `SecondRewards`: `award`, `ticks`, `grants`, `herd`, `receipt` | the two Stages and counters, nested eating ticks, first-feed grants, `field_48` and `b_world_pending`, the objective receipt |
| `SharedMoments`: `worker`, `session`, `clients`, `inbox` | the death and hatch records, deferred tutorials; the session's memory of them; each client's presentation |

Variables such as `truth`, `deeds`, `excuse`, `seen`, `served` are history: what really
happened, for the properties to compare with. Variables named `budget`, `faults`,
`lost`, `changes` are bounds.

Actions carry the names of the functions. In `Coordinator`, `Receipt` is
`native_receipt` with one disjunct per `accept_*`; a receipt is accepted only under the
scope of the session the command was issued in and from the pinned process. The external
assumption about a worker is what its receipts claim (`Holds`, `Stops`, `live`);
`WorkerTransfer` is the other end, and `ReceiptsTellTheState` that assumption. The
original game is external everywhere: it may do by itself whatever the hooks are there
for.

## 3. Runs and bounds

Every bound is a constant of a cfg or named in an MC module. The runs disable the
deadlock check: each model really stops at its bounds (ids, generations and faults are
used up), and some processes end.

| Run | Shows | Bounds, and why they suffice |
|---|---|---|
| `ledger_store` | any order of ledger calls; every crash, failure and damage point of the store | calls: 2 locations and 2 players (the program's own numbers), 3 workers, transfer ids to 2, 3 checkpoint revisions, generations to 4: a fence, a commit or abort, losses and replacements between them, and the last generation is reached, so the overflow guards matter. Avatars and global systems are explored apart, as no call reads both but the rotation, which both parts have. Store: 2 processes, 2 payloads, 3 revisions: two different records of one revision exist, and the last revision is reached |
| `coordinator_transfers` | transfers with everything around them | 2 homes, 3 processes, 1 or 2 players, transfer ids to 2, generations to 6. `MCCoordinator` explores five parts. Recovery: two processes end, or one and the coordinator crashes once (its first start counts as one of three). No crash of it in the other parts. Return: a home left and entered again. Replacement: both homes may be replaced, with one process that ends, disconnections, cancellations and recoveries. Two players: each with an avatar and a slot of the same number, reservations, cancellations and recoveries beside one another, the global system at the first player's home, one process that ends. Another attempt: the same player's next transfer, one process that ends |
| `shared_scene` | joining and following a scene | 1 player's creature and an animal, 3 connections, two of: a change, a break, a transfer, a crash, a moved lease |
| `worker_control` | commands, stops and a game that hangs or dies | 2 tools with one command each, scene epochs to 3, an unbuffered pipe |
| `worker_transfer` | three transfers through one worker | one repeated command, two faults, a lost link among them |
| `content` | publication | 2 images, 2 readings, 2 drafts, a bridged player and one with the tool, 2 further connections (the second only to a reopened coordinator), one fault. One tool publishes each image once: two versions of one image, and with them the comparison of their readings, are reached by the proof only |
| `actor_inputs` | orders and their targets | 1 owner, 1 wild creature of two incarnations, a queue of 2, 4 orders, 2 faults (a refused call of the game among them) |
| `second_player` | fights and rewards | 2 wild creatures, blows and meals two deep, 2 corpse numbers, 2 bodies, a reload; six parts explored apart, which share no state but the second player's life |
| `shared_moments` | deaths, tutorials, lessons | 2 players, 2 deaths, 3 lessons, 3 baselines, 2 workers; six parts, which share only the creature that dies |
| `scene_projection` | a client's game | 12 numbers, 6 nouns, 5 worlds a client may load, 2 changes, 2 lost connections |
| `cancelled_start`, `overtaken_reservation` | the findings of section 7 | the smallest instances they need |

`Request` names the operations an instance issues and `Replacement` the leases its
administrator assigns. Replacement leases carry generation 2, so a lease is replaced at
most once per location in a run; that is the main limit of `coordinator_transfers`.
`Scene = {1}` because session epochs are always fresh. Symmetry covers locations,
workers, processes, images and readings (not players, which the code numbers, and not
workers where `Replacement` names one), in runs of safety properties only.

## 4. Properties

Ledger: `SnapshotRestorable` (what is published can be read), `InactiveAvatarRecoverable`
(an avatar that is not active waits for a worker, or a transfer can give it
back), `RestorationNotAhead`, `GlobalsStayOwned` (the lease of a global system
only advances, never leaves a live producer, and no location takes back one whose
producer it lost), and `ImplementsAuthority`: seen through
`accepts_avatar_outcome`, the ledger grants an avatar to one location and worker at a
time, and never again under a number that was already used.

Store: `OneWriter`, `AcknowledgedSurvives`, `AcknowledgedReopens`, `NeverReinitialized`,
`ImplementsRegister`.

Coordinator: `LedgerReopens` and `RecordsReopen` (reservations, transfers and starts)
say that `recover()` accepts whatever was published. They are the sharpest consistency
check the code itself contains, and the code runs it only at the next start, when it is
too late. `OneLiveCopy`: no two complete scenes have a running copy of an avatar.
`WithheldUntilActive`: a source that still owns the avatar and a destination that has
not activated it publish nothing. `StaleNotExposed`: a ready authority has the newest
retained state of each of its residents. `ArtifactRetained`: no step forgets a player's
newest artifact for an older one.

The orders of requests under which the code does not keep these (section 7) are in the
runs, and the properties name them as their exceptions, each an operator of its own:
`RecordsReopen` excepts reservations and unfinished transfers that the other player's
recovery overtook (`Overtaken`, `OvertakenTransfer`), a transfer recovered after an abort
over a replaced destination (`ReopenedOverReplacement`), and the starts of reservations
that were cancelled (`BegunStartsReopen` speaks of transfers that began);
`WithheldUntilActive` excepts the overtaken transfer, and `StaleNotExposed` a resident
whose home was recovered for the other player (`RecoveredForAnother`). Two of them
contradict what the repository says, `StartsReopen` and
`ReservationsFollowTheirWorkers`, and have a run that shows it.

Scene: `ReadyMeansApplied`, `StreamsAgree`, `NothingLeavesWithheld`, `PlayersJoin`;
`ShowsTheScene`, `ActionsReachTheirTarget`. Worker: `OutcomeTruthful`, `StopEnds`;
`ReceiptsTellTheState`, `OutcomeHolds`, `CommandsAnswered`. Content: `PublishedReopens`,
`JobsAreCurrent`, `PublishedAsLoaded`. Orders: `OrdersReachWhatTheyNamed`,
`FencedOwnersAreStill`. Second player: `ResultsStayWithTheirHunter`,
`AlarmsAreJustified`, `BlowsKeepTheirManager`, `RewardsStayWithTheirEarner`,
`EarningsAreKept`. Moments: `WatchedIsAwaited`, `AuthorityKeepsTheProtocol`,
`SeenThrough`. Each is stated above its definition.

`CommandsAnswered` holds of a link lost after the work has ended, too: the activation
receipt goes with the link, the bridge reconnects, is refused by a coordinator that still
waits for the receipt, and fails, so that the coordinator recovers it.
`WatchedIsAwaited` ties a player's process to the worker's: a player watches what the
worker waits for, once, and no checkpoint is written meanwhile; with `SeenThrough` that is
what keeps a save from holding half a death or tutorial. `FencedOwnersAreStill` excepts a
creature whose object refuses the call that stops it, which the bridge records and no
more.

## 5. Fairness

Only three specifications state fairness, where the code's own loops give it.
`SharedScene`: each process's update loop and the coordinator's poll run, packets that
were read are handled; nothing is assumed of breaks, changes or the administrator.
`WorkerControl`: the host ticks, time passes, a tool reads its pipe or gives up after its
deadline; nothing is assumed of the engine thread, which may hang for ever.
`WorkerTransfer`: the bridge's update runs, its clock moves, and a link that was lost is
tried again until the coordinator answers it (`update_session` retries every second).
`Coordinator` states none: a transfer advances only by requests of an administrator and
reports of game processes, and the code neither retries nor times out on its own.

## 6. Proofs

The constants are arbitrary throughout. The assumptions are `LedgerAssumption`,
`StoreAssumption`, `CoordinatorAssumption`, `FightAssumption`, `ActorCommandsConstants`
(the slots of players are 1 and 2, and no wild creature is one of them),
`WorkerTransferConstants` (bounds are numbers), `WorkerConstants` (tools are numbers
other than nobody's, and ask what the tool can), `ContentRegistryConstants` (players are
numbered from one, as `content_registry.cpp:354` demands; there is room for one version)
`ContentExchangeConstants`, `MomentsAssumption` (the bounds are numbers, and a scene is
native or foreign) and `ProjectionAssumption` (nouns and loaded worlds are typed and
numbered from one, the two players' creatures are there and distinct, no herd has two
nests at first, a loaded nest belongs to a herd of the loaded game, and the herd a client
makes is none of those), which TLC evaluates on the runs. The coordinator's says
what the offline bootstrap refuses (more locations or avatars than the limits), the
fights' that the two players, the third species and nobody are distinct and the bounds
are numbers.

- `LedgerLemmas`: one lemma per operation of the ledger (`FenceSourceGood`,
  `ReplaceWorkerGood`, `RotateCheckpointGood`, ...): it keeps `Good(L)` (typed, finite and
  `Valid`) and `AllSettled(L)` (a fenced avatar lies below the last generation, a reported
  generation is not ahead). They speak of ledgers, not of a state machine, so the
  coordinator's proofs cite them too.
- `LedgerProofs`: `Good(L)` is inductive. `LedgerAlwaysGood` gives `TypeCorrect` and `SnapshotAlwaysRestorable`. Validity alone
  is not inductive: without typing and finiteness a counter cannot be compared.
  `AllSettled` beside it gives `GenerationAlwaysLeft` and `RestorationNeverAhead`;
  `InactiveAlwaysRecoverable` follows from `Good` alone. Fourteen of seventeen calls leave
  the global leases alone (`GlobalCases`); the rest by `RotationFacts`.
  With `LocationAdvances` (no call gives a location back a lease it lost) they give
  `GlobalsAlwaysStayOwned`.
  The same module shows that the ledger implements `AvatarAuthority`; `AuthorityStep`: each
  call keeps, revokes or reissues. `Good` is needed: an active avatar is at an active location.
- `LedgerProofs` also has the store the ledger is kept in: the inductive invariant is `WriterKnowsHead`, `AttemptValid` and
  `Sealed` with the typing; it gives `AcknowledgedAlwaysSurvives`, `AlwaysOneWriter`,
  `AcknowledgedAlwaysReopens`, `AcknowledgedNeverReinitialized` and `StoreImplementsRegister`.

- `CoordinatorProofs`: the inductive invariant is `HeadOK`,
  `SessionsOK` and `ProcessesOK`. `HeadOK` says that the record's ledger is `LedgerOK`,
  that each native record agrees with it (`OfTransfer`: its player has an avatar, any
  other ledger transfer of that player is later, a fenced record finds its transfer
  fenced) and with itself (`Sound`: its phase tells whether it has an artifact, is
  committed, is pinned). Readability of the ledger alone is not inductive: what a receipt
  may do to the ledger follows from the record's phase, and an older record of a player
  may only go when no later one is live. `Follows(L, M, S)` is the frame: what any call of
  the ledger keeps for the records of transfers not in `S`. There is one lemma per action.
  They give `CoordinatorTypeCorrect`, `LedgerAlwaysReopens` and `ArtifactsAlwaysRetained`
  (an action property: displacement of records never drops a player's latest artifact).

- `SecondPlayerProofs`: the fights and the rewards of the second player, over `Spec` of
  `FollowedFight` and `RewardsSpec` of `SecondRewards`: all parts together, without the
  `focus` the run looks at one at a time. The fights' invariant is `BlowsInv` (only the
  innermost blow has settled anything, one of the second player's has its manager),
  `OwnerInv` (what retires and what fails an owner), `AccountsInv` and `FightInv`. That an
  alarm has a reason is not inductive: the comparison a blow makes holds only because
  the baseline is the first player's state, or the blow of the first player's in progress
  is about to take a new one (`Compared`), and no blow of the second's lies under that
  one (`Followed`). One lemma per action gives `ResultsAlwaysStay`,
  `AlarmsAlwaysJustified` and `BlowsAlwaysKeepTheirManager`. The rewards' invariant is
  `Counted`, `Inputs` (where each player's herd input is while an update stands one in for
  the other) and `KeptWell` (the same of a checkpoint, or a reload would lose it); it
  gives `EarningsAlwaysKept`. `PaymentsInv` is what `RewardsAlwaysStay` rests on: a
  corpse that was paid for has its grant or the tick that will leave it is still in
  progress (`OwedOrGranted`), a tick between its first feeding and its reward has a body
  nobody was paid for (`TickOK`), and the receipt of a result is as it was left until the
  mission looks, or what spoiled it is recorded (`ReceiptOK`).

- `ActorInputsProofs`: a player's orders. That an order is right when it is given is not
  inductive. The invariant says that a binding, and what the census knows, is of the
  incarnation that is there (`Bindings`, `Census`); that a command that is queued or
  carried on was bound to what its player named, under the baseline that stands (`Meant`,
  `Based`: a new baseline finds nothing waiting); and that a fence leaves nothing
  (`Fenced`), which a hold that is released needs. Within an update `RightOrder` shows
  that nothing can be noted of an authorized order, so each step of it goes on from a
  state as good as the one before (`Going`), callbacks that doom a creature included.
  They give `OrdersAlwaysReach` and `FencedAlwaysStill`, for any creatures and bounds.

- `WorkerProofs`: the authority's bridge under a transfer's commands. That a
  receipt is true is not inductive: what the game is left with is decided several steps
  before the receipt is sealed, and a command given again can find the work at any of
  them. `BridgeOK` says, for a process that serves, what each stage of the work is about
  and what has been reached by then (`PausingHolds` to `ResumingHolds`), with the counted
  pause it holds. `AllKnown`, `InFlight`, `Order` and `AnswersHold` say that the commands
  on their way, the bridge's and the receipts are one history that ends with the
  coordinator's last command, so an answer is never one to an older question. Every
  handler leads to an `Outcome`: it keeps `BridgeOK` or stops serving, and seals only a
  true receipt. They give `OutcomeAlwaysHolds` and the action property
  `ReceiptsAlwaysTrue`.
  The same module has the supervisor and its control pipe, for any tools, scene epochs
  and messages an engine's pipe holds. That a tool's answer is about its own command is
  not inductive: one connection follows another, and the reply of a command whose tool
  has gone may still be on its way. `ControlInv` says that one command is in flight at a
  time, unread by the engine, or with its one reply among the messages to come, or lost
  with the engine (`FlightOK`); and that the connection is its client's alone and at one
  stage: asked, in flight, answered (`RequestOK`, `AnswersOK`, `ClientOK`). A tick is
  shown to keep it stage by stage, wherever it stops. The messages a tick finds are
  taken in order by a recursive function; that there is one, and that each message
  leaves the invariant as it was, is shown by the least number of messages for which it
  would fail (`LeastNumber`, from `WFMin`), which needs no induction theorem with an
  operator parameter. They give `OutcomeAlwaysTruthful`.

- `ContentExchangeProofs`: content transactions between the coordinator, its store, the
  bridges and the tools. The invariant is `SessionOK` and `DiskOK`. `SessionOK` says that
  the registry agrees with itself (`PeersOK`, `DraftsOK`, `Whole`, `NumbersOK`) and with
  the uploads in progress and what live connections reported (`UploadsOK`, `MappingsOK`,
  and `ReadingsOK` while images are read one way); that whatever a bridge sends, is sent
  or works on says what the draft of that number says, on a connection that is its own
  (`BridgesOK`); and which connections are tools' (`ToolsOK`). `DiskOK`: what is served
  is what is stored, or the store failed closed. Numbers of drafts and connections come
  again after a reopening, so none of this follows from the numbers alone. The proof goes
  outwards from the registry: a `Contract` for each operation, what a connection that
  ends or arrives changes (`Lessens`, `Leaves`, `Arrives`), a request served, its answer
  heard (`Heeds`), and then each step. It gives every property of the run:
  `JobsAlwaysCurrent`, `PublishedAlwaysReopens` (`ASSUME Steady`, the run's own setting),
  of which the half `PublishedAlwaysStored` needs no such assumption, and the action
  property `AlwaysPublishedAsLoaded`. The proof corrected the last one: it had spoken of
  the served registry, and with two faults a version that a failed write left in the
  store is served by the next coordinator although the peers of its publication are gone
  and new ones, who never loaded it, are connected. What the code promises, and the
  property now says, is about the step in which a version enters the store.

- `PlayersViewProofs`: deaths, tutorials and lessons between worker, session and
  clients. That nothing ends unseen is not inductive: the step that ends a death or
  records a tutorial looks only at a number in a confirmation, which passed three
  queues and two processes and may be of an earlier death, connection or scene. The
  invariant follows it: whatever says that a player is done (`ClientDeath`,
  `ClientTutorial`, the packets in `Up`, the confirmations in `Inbox`) says it of a
  moment that player has seen, if that is still what the worker waits for (`DeathSeen`,
  `TutorialSeen`); what offers it (`Down`) offers something the worker raised. All that is
  said of a past state of the worker, and stays true because within a scene a worker only
  goes forward (`Advances`: its numbers grow, a pending death is kept, ended or replaced by
  a later one) and a new scene numbers its connections after all earlier ones
  (`SessionOK`, `ClientConnected`). `HeldBack` (a tutorial that waits has its second player)
  is what a confirmation needs, `TutorialsOffered`, and `Lessons` with `HatchOffered`, what
  the session's checks need: an offer it has already is offered unchanged or not at all. One
  lemma per action gives `AuthorityAlwaysKeepsTheProtocol` and the action property
  `AlwaysSeenThrough`, for any number of deaths, lessons, lost connections and
  scenes.
  The same module has the scene in a player's own game. That a player sees the scene is
  nearly inductive as it stands; what it lacks is what makes a step of the projection
  possible. `ProjectionInv` says that a live binding has a noun no other live binding has
  (`LiveOK`); that in a game that is ready every noun but fruit stands for an entity that
  is followed, of its kind and species (`Follows`: the species alone does not survive a
  projection, which looks at the kind too); that what the authority remembers of a noun
  is what it was first captured under, and that it remembers nothing of one that is gone
  (`AuthorityOK`); and that the published scene names the two players' creatures and has
  one nest in a herd (`FrameOK`: a nest is matched by its herd, so two of one herd would
  share a noun). `game` also has its type, in which a nest is of its herd's species. A
  baseline is a dozen operations on one state that any of them may reject: each has its
  lemma, from the two players' creatures (`AdoptedIs`, `ResolvedIs`, `PreparedIs`) through
  matching (`MatchedIs`), making (`SpawnIs`, `RealizeIs`) and removing (`RemovedIs`) to the
  rollback (`RolledBackIs`) and `BaselineIs`. The entities are realized, and projected, one
  number after another by a recursive function; that there is one (`RealizingExists`,
  `ProjectingExists`) and that it keeps what it should up to each number (`Realized`) again
  goes by the least number for which it would not (`Numbered`). They give
  `AlwaysShowsTheScene` and `ActionsAlwaysReach`, for any nouns, loads, changes and lost
  connections.

Every safety property of `ledger_store`, `worker_control`, `worker_transfer`,
`second_player`, `actor_inputs`, `content` and `scene_projection` is a theorem, all but one
of `shared_moments`, and two of `coordinator_transfers`. Those that stay with TLC:

- Of the coordinator, `RecordsReopen`, `OneLiveCopy`, `WithheldUntilActive` and
  `StaleNotExposed` relate a process's copy of an avatar to the receipts, sessions and
  exports of a whole transfer. With the exceptions section 4 names they hold of the
  requests the five parts of the run make; `Spec` allows more of them at once (two players
  in the parts that have one), which no run has checked, so they are not yet candidates for
  a proof.
- `WatchedIsAwaited` speaks of the order in which offers and confirmations pass the queues
  between worker, session and client, which the invariant of `PlayersViewProofs` leaves out.
- `ReadyMeansApplied`, `StreamsAgree` and `NothingLeavesWithheld` of `SharedScene` rest on
  the order in which `SetToSortSeq` sends the entities of a snapshot, which needs lemmas
  about the folds of `SequencesExt` that no library has.
- `PlayersJoin`, `StopEnds` and `CommandsAnswered` are liveness.

## 7. Findings

`cancelled_start`: `cancel_transfer` (`network/coordinator.cpp:1520`) removes a
reservation that `prepare_transfer_maintenance` made, but not its `maintenance_starts`
entry. The next start of the coordinator refuses the record with
`transfer_maintenance_record_invalid`. `publish_replacement` has the same omission.

`overtaken_reservation`: while player 2's transfer waits to be finished, player 1
reserves a move out of the same home; the worker dies and
`recover_native_transfer_worker` replaces it. `cancel_later_reservations`
(`network/coordinator_transfer.inc:1291`) cancels only reservations of the recovered
transfer's own player, so the other's stays, and fails `preparation_record` at the next
start. `docs/m10-locations.md:398-399` has the replacement of either worker cancel it.

Met while modelling and not kept as runs. The passing runs make these steps; where one
breaks a property, the property names it as an exception (section 4):

- A reservation that begins before such a recovery becomes an unfinished transfer under a
  lease that was replaced: `native_record_workers_valid` refuses it at the next start, and
  its home may show the avatar meanwhile (`OvertakenTransfer`).
- After an abort the destination's worker is replaced, then the source's is recovered:
  the record is unfinished again with the destination lease of before the replacement,
  and `native_record_workers_valid` refuses it at the next start
  (`ReopenedOverReplacement`).
- Both players live in one home and both have artifacts: recovering it for one transfer
  shows the other player's avatar as the older checkpoint has it (`RecoveredForAnother`).
- Generations count per location. A worker that lost a global system's lease is heard
  under it again when another location is given to it under the same number
  (`location_ledger.cpp:535` compares only with its own location); `LostLeasesStayLost`
  says how far the ledger goes.
- The receipt of an activation is queued and the work ends
  (`native_network.cpp:1434-1438`); if the link is lost then, the receipt is lost too. The
  bridge serves on, reconnects, is refused and quarantined, and the coordinator has to
  recover a transfer that had worked.
- A tutorial that is raised again with another caption while one is held back is shown by
  the original on the worker (`native_award_context.cpp:578-582`), and is on record before
  its player has seen the first.
- An acknowledgment in flight when a transfer's maintenance begins is refused
  (`session.cpp:600-672`), though `docs/m06-network.md:51` says obsolete ones are ignored.
- A removed entity's tombstone and a generation made again between two snapshots are
  told apart only within one snapshot (`native_network.cpp:2391-2405`).
- A player whose welcome never came does not try again (`native_network.cpp:285-292`).
- A process that reads one image differently at two times can leave two readings of one
  image; `content` therefore has `Steady = TRUE`.
- A jump that was released is not cancelled in the air by a fence.

## 8. Not modelled

- `saved_secondary` and `commit_location_checkpoint`: one checkpoint stays selected in
  `Coordinator` (rotation is modelled in the ledger).
- Revision numbers of requests, exact retries and their receipts, and the request file's
  own protocol: a stale request is refused and a repeated one is answered without a step.
- Measurements, digests and challenges of transfer frames, artifact bytes, approvals.
- `commit_locations` (offline) is the initial state. Operating system errors outside the
  store, random numbers, allocation.
- In `DurableStore`, an unreadable `CURRENT` and a deleted one are one case
  (`head_damaged`): since a `CURRENT` only ever exists over a sealed record, the code
  refuses both.
- Session: rate limits, the views of social, relationship, history and inventory data.
- Orders: the binding limit, console commands, cancelled social exchanges, the 30 s
  expiry. Projection: same-species baselines, portraits, recharge display, drift of
  models, health maxima, reload of an authority, fruit placement. Moments: maintenance.
- Content: the rate limit, monotonic request numbers, chunking, the per-connection key
  map, the list of approvals.
- Frame codecs, TLS, hashes, command lines, the observers and interface of the bridge,
  the launcher.

## 9. Plan

1. `GlobalCheckpoint`: `commit_location_checkpoint` and `saved_secondary` over
   `TransferRecords`.
2. The request file with its exact retries.
3. Proofs: `OneLiveCopy` of the coordinator, once a run with both players in every part
   has checked it; `WatchedIsAwaited`, with the order of the queues.
