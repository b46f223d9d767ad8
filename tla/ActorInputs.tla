----------------------------- MODULE ActorInputs -----------------------------
(* From a player's action to the original creature: the authority's bridge *)
(* admits an action against the scene it published, queues it as a command *)
(* of the player's creature, and carries it out over the updates that      *)
(* follow, while creatures die and return, the link is lost and transfers  *)
(* hold the scene.                                                         *)
EXTENDS ActorCommands

CONSTANTS
  MaxCommand, \* bound: commands admitted
  MaxFault,   \* bound: deaths, retirements, lost links, holds, failures
  MaxBorn     \* bound: incarnations that take one creature's address and number

ASSUME ActorInputsConstants == MaxCommand \in Nat /\ MaxFault \in Nat /\ MaxBorn \in Nat \ {0}

VARIABLES
  bridge, \* the game thread: policy, what it keeps of each owner, session, scene, the creatures
  budget  \* what is left of the bounds

vars == <<bridge, budget>>

Idle == [intention |-> NoCommand, steering |-> NoSteering, jump_command |-> 0]
\* `refuses`: calls whose binding the creature's object does not pass.
Call == {"walk", "target"}
Still == [walk |-> 0, target |-> FALSE, air |-> FALSE, refuses |-> {}]
Unseen == [generation |-> 0, life |-> "gone"]

\* The scene is entered, its creatures are not yet published to anyone.
Init ==
  /\ bridge =
       [commands |-> NewCommands,
        detail |-> [o \in Owner |-> Idle],
        acts |-> [o \in Owner |-> Still],          \* of the original: what each owner's creature does
        game |-> [c \in Creature |-> [born |-> 1, life |-> "living"]],
        seen |-> [c \in Creature |-> 0],           \* the census: generation of the noun it knows
        published |-> [c \in Creature |-> Unseen],
        net |-> [armed |-> FALSE, ready |-> FALSE, link |-> "up", failed |-> FALSE, begun |-> FALSE,
                 work |-> "idle", baseline |-> 0, fence_epoch |-> 0, pause_epoch |-> 0],
        latched |-> FALSE,                         \* a relationship failed for the rest of the scene
        misgiven |-> {}]                           \* what was wrong with orders the original was given
  /\ budget = [commands |-> MaxCommand, faults |-> MaxFault]

(* A handler is an operator from the game thread's state to those it may   *)
(* leave it in.                                                            *)

native_network_authority_inputs_ready(b) ==
  b.net.armed => ~b.net.failed /\ b.net.ready /\ b.net.link = "up" /\ b.net.work = "idle"

\* A creature is looked up again by address and number before each use.
Resolves(b, c) == b.commands.bound[c] # 0 /\ b.game[c].life \in {"living", "dead"}
Alive(b, c) == Resolves(b, c) /\ b.game[c].life = "living"

Available(b, command) ==
  LET c == command.target IN
  IF command.verb = "pickup" THEN Resolves(b, c) /\ b.game[c].life = "dead" ELSE Alive(b, c)

\* Of an order as it reaches the original: the scene it was meant for is no
\* longer the one that is served, or a creature is not the one it named.
Wrongs(b, command) ==
  (IF command.named.baseline = b.net.baseline /\ native_network_authority_inputs_ready(b) THEN {} ELSE {"outdated"})
  \cup (IF /\ command.named.of = b.game[command.owner].born
           /\ command.verb \in targets_creature => command.named.at = b.game[command.target].born
        THEN {} ELSE {"mistaken"})

-----------------------------------------------------------------------------
(* Fencing the inputs.                                                     *)

\* The calls of the original that end what its creature does, or are refused.
stop_native_movement(acts) == IF "walk" \in acts.refuses THEN acts ELSE [acts EXCEPT !.walk = 0]
clear_creature_target(acts) == IF "target" \in acts.refuses THEN acts ELSE [acts EXCEPT !.target = FALSE]

\* Either call may be refused, which is recorded and no more.  A creature that
\* is lost within one of them might as well be lost after both.
stop_native(b) ==
  [b EXCEPT !.acts = [o \in Owner |->
     IF Alive(b, o) THEN stop_native_movement(clear_creature_target(b.acts[o])) ELSE b.acts[o]]]

\* Mutant: the fence takes the queue and leaves what is carried out across updates.
native_actor_fence_queue_only(b, stop) ==
  LET fenced == [b EXCEPT !.commands = fence_inputs(@)]
  IN IF b.commands.inputs_ready /\ stop THEN stop_native(fenced) ELSE fenced

\* Every fence forgets what was retained; only the first stops the creatures.
native_actor_fence_network_inputs(b, stop) ==
  LET fenced == [b EXCEPT !.commands = fence_inputs(@),
                          !.detail = [o \in Owner |-> [@[o] EXCEPT !.intention = NoCommand, !.steering = NoSteering]]]
  IN IF b.commands.inputs_ready /\ stop THEN stop_native(fenced) ELSE fenced

FenceKept(b, reason_stops) ==
  LET fenced == native_actor_fence_network_inputs(b, reason_stops)
  IN [fenced EXCEPT !.net.fence_epoch = fenced.commands.input_epoch]

may_resume(b, epoch) == ~b.latched /\ may_resume_inputs(b.commands, epoch)

\* Terminal: the session has failed and its inputs stay fenced.
quarantine(b, stop) ==
  IF b.net.failed THEN b
  ELSE LET left == [b EXCEPT !.net.failed = TRUE, !.net.ready = FALSE]
       IN IF b.net.armed THEN FenceKept(left, stop) ELSE left

-----------------------------------------------------------------------------
(* An action is admitted and queued.                                       *)

Unchanged(b, c) ==
  /\ b.published[c].generation # 0 /\ b.seen[c] = b.published[c].generation
  /\ b.game[c].life \in {"living", "dead"} /\ b.published[c].life = b.game[c].life

\* The packet names generations and a baseline the player saw.
action_refused(b, o, baseline, generation) ==
  \/ ~native_network_authority_inputs_ready(b) \/ ~b.net.ready
  \/ b.published[o].generation # generation \/ baseline # b.net.baseline
  \/ b.published[o].life # "living" \/ ~Unchanged(b, o)

\* Mutant: the census is not asked whether the noun is still the published one.
target_refused_unchecked(b, verb, c, generation) ==
  /\ verb \in targets_creature
  /\ \/ b.published[c].generation # generation \/ c \in Owner
     \/ b.game[c].life # (IF verb = "pickup" THEN "dead" ELSE "living")

target_refused(b, verb, c, generation) ==
  /\ verb \in targets_creature
  /\ \/ b.published[c].generation # generation \/ c \in Owner
     \/ b.published[c].life # (IF verb = "pickup" THEN "dead" ELSE "living")
     \/ ~Unchanged(b, c)

native_actor_network_command(b, o, verb, c, named) ==
  LET policy == IF verb \in targets_creature THEN bind(b.commands, c, b.game[c].born) ELSE b.commands
      command == [NoCommand EXCEPT !.owner = o, !.verb = verb, !.actor = policy.bound[o], !.target = c,
                                   !.aim = IF c = Nobody THEN 0 ELSE policy.bound[c], !.named = named]
  IN IF b.commands.inputs_ready /\ Alive(b, o) /\ may_enqueue(policy, command)
     THEN [b EXCEPT !.commands = enqueue(policy, command)] ELSE b

-----------------------------------------------------------------------------
(* A command is carried out.  Orders to the original go through Order,     *)
(* which notes what was wrong with them.                                   *)

Order(b, command) == [b EXCEPT !.misgiven = @ \cup Wrongs(b, command)]

\* Selecting a target calls back into the game, where a creature may be lost.
set_creature_target(b, command) ==
  LET o == command.owner
      aimed == [Order(b, command) EXCEPT !.acts[o].target = TRUE]
  IN {aimed} \cup {[aimed EXCEPT !.game[c].life = "doomed"] : c \in {o, command.target}}

\* After the callback the creatures are looked up again.
perform_attack(b, command) ==
  IF "target" \in b.acts[command.owner].refuses THEN {b}
  ELSE {IF Alive(a, command.owner) /\ Alive(a, command.target) THEN Order(a, command) ELSE a
          : a \in set_creature_target(b, command)}

cancel_intention(b, o) == [b EXCEPT !.detail[o].intention = NoCommand]

begin_intention(b, command) == [b EXCEPT !.detail[command.owner].intention = command]

WalkTo(b, command) == [Order(b, command) EXCEPT !.acts[command.owner].walk = command.sequence]

\* Refused by the original: on the ground for want of the ability, or in the air.
perform_jump(b, command) ==
  LET o == command.owner IN
  {[Order(b, command) EXCEPT !.acts[o].air = TRUE, !.detail[o].jump_command = command.sequence],
   [Order(b, command) EXCEPT !.detail[o].jump_command = 0]}

\* A steering direction that points out of the ground is given up.
perform(b, command) ==
  CASE command.verb = "steer_stop" -> {b}
    [] command.verb \in retained -> {begin_intention(b, command)}
    [] command.verb = "steer" -> {WalkTo(b, command), b}
    [] command.verb \in walks \ {"steer"} -> {WalkTo(b, command)}
    [] command.verb = "jump" -> perform_jump(b, command)
    [] command.verb = "attack" -> perform_attack(b, command)
    [] command.verb = "stop" -> {[Order(b, command) EXCEPT !.acts[command.owner] = clear_creature_target(@)]}
    [] OTHER -> {Order(b, command)}

admit_command(b, command) ==
  /\ native_network_authority_inputs_ready(b)
  /\ authorize(b.commands, command)
  /\ Alive(b, command.owner)
  /\ command.verb \in targets_creature => Available(b, command)

\* A release alone leaves a retained intention as it is.
Superseded(b, command) == IF command.verb = "steer_stop" THEN b ELSE cancel_intention(b, command.owner)

execute(b, command) ==
  IF ~admit_command(b, command) THEN {b}
  ELSE perform([Superseded(b, command) EXCEPT !.detail[command.owner].steering = observe(@, command)], command)

NextCommand(b) ==
  IF b.commands.queue = <<>> THEN {b}
  ELSE execute([b EXCEPT !.commands = pop(@)], Head(b.commands.queue))

\* The walk ends on an update after the landing, never from within it.
dispatch_keyboard_release(b, o) ==
  LET release == b.detail[o].steering.release
      cleared == [b EXCEPT !.detail[o].steering = NoSteering]
  IN
  IF release.sequence = 0 THEN b
  ELSE IF ~(authorize(b.commands, release) /\ Alive(b, o)) THEN cleared
  ELSE IF b.detail[o].jump_command # 0 THEN b
  ELSE [cleared EXCEPT !.acts[o] = stop_native_movement(@)]

\* The target is selected, and the ability played if all still stands.
submit_intention_attack(b, command) ==
  LET o == command.owner IN
  IF "target" \in b.acts[o].refuses THEN {cancel_intention(b, o)}
  ELSE {IF Alive(a, o) /\ Alive(a, command.target) THEN Order(a, command)
        ELSE LET c == cancel_intention(a, o) IN
             IF Resolves(a, o)
             THEN [c EXCEPT !.acts[o] = stop_native_movement(clear_creature_target(@))] ELSE c
          : a \in set_creature_target(b, command)}

\* At most four times a second: a walk closer, an attack, a wait for the
\* ability, or after thirty seconds given up.
step_intention(b, o) ==
  LET command == b.detail[o].intention IN
  IF command.sequence = 0 THEN {b}
  ELSE IF ~authorize(b.commands, command) \/ ~Alive(b, o) \/ ~Alive(b, command.target)
       THEN {cancel_intention(b, o)}
  ELSE {b, cancel_intention(b, o), WalkTo(b, command)} \cup submit_intention_attack(b, command)

\* Each owner in turn.
ForEachOwner(Step(_, _), b) ==
  UNION {IF 2 \in Owner THEN Step(a, 2) ELSE {a} : a \in IF 1 \in Owner THEN Step(b, 1) ELSE {b}}

dispatch_keyboard_releases(b) ==
  LET Step(a, o) == {dispatch_keyboard_release(a, o)} IN ForEachOwner(Step, b)

dispatch_intentions(b) == ForEachOwner(step_intention, b)

\* One update of the scene: a command, then the work that continues.
update_scene(b) ==
  IF ~native_network_authority_inputs_ready(b) \/ b.latched
  THEN {native_actor_fence_network_inputs(b, TRUE)}
  ELSE UNION {UNION {dispatch_intentions(r) : r \in dispatch_keyboard_releases(a)} : a \in NextCommand(b)}

-----------------------------------------------------------------------------
(* The session and the scene around it.                                    *)

\* A capture finds every owner's creature, dead or alive, or fails.
capture_native_scene(b) ==
  [c \in Creature |-> IF b.game[c].life \in {"living", "dead"} THEN b.game[c].born ELSE 0]

CaptureFails(b) == \E o \in Owner : ~Resolves(b, o)

\* A baseline that ends gives the inputs back, or the session is over.
end_scene_baseline(b) ==
  IF b.net.fence_epoch # 0 /\ ~may_resume(b, b.net.fence_epoch) THEN quarantine(b, TRUE)
  ELSE [b EXCEPT !.net.armed = TRUE, !.net.ready = TRUE, !.net.fence_epoch = 0,
                 !.commands = IF b.net.fence_epoch # 0 THEN resume_inputs(@) ELSE @]

publish_scene(b) ==
  IF CaptureFails(b) THEN quarantine(b, TRUE)
  ELSE LET seen == capture_native_scene(b)
           sent == [b EXCEPT !.seen = seen, !.net.begun = TRUE,
                             !.net.baseline = IF b.net.begun THEN @ ELSE @ + 1,
                             !.published = [c \in Creature |->
                                IF seen[c] = 0 THEN Unseen ELSE [generation |-> seen[c], life |-> b.game[c].life]]]
       IN IF b.net.begun THEN sent ELSE end_scene_baseline(sent)

Unpublished(b) == [b EXCEPT !.net.begun = FALSE, !.published = [c \in Creature |-> Unseen]]

connection_lost(b) ==
  LET lost == [b EXCEPT !.net.link = "down"] IN
  IF b.net.work # "idle" THEN quarantine(lost, TRUE)
  ELSE LET waiting == [lost EXCEPT !.net.ready = FALSE]
       IN Unpublished(IF b.net.armed THEN FenceKept(waiting, TRUE) ELSE waiting)

\* The transfer's pause fences the inputs itself, or can not be taken.
begin_transfer(b) ==
  LET held == native_actor_fence_network_inputs([b EXCEPT !.net.ready = FALSE, !.net.work = "paused"], TRUE)
  IN {[held EXCEPT !.net.pause_epoch = held.commands.input_epoch],
      quarantine([b EXCEPT !.net.ready = FALSE, !.net.work = "paused"], TRUE)}

\* The pause gives its inputs back, and they are fenced again until a baseline.
release_transfer_pause(b) ==
  IF ~may_resume(b, b.net.pause_epoch) THEN quarantine(b, TRUE)
  ELSE LET resumed == [b EXCEPT !.commands = resume_inputs(@), !.net.work = "resuming", !.net.pause_epoch = 0]
       IN FenceKept(resumed, FALSE)

finish_transfer_resume(b) == Unpublished([b EXCEPT !.net.work = "idle"])

\* The creature's incarnation ends before the original destroys or pools it.
retire_native_incarnation(b, c) == [b EXCEPT !.seen[c] = 0, !.commands = invalidate(@, c)]

leave_scene(b) ==
  LET left == quarantine(b, FALSE)
  IN [left EXCEPT !.commands = scene_exit(@),
                  !.detail = [o \in Owner |-> Idle],
                  !.acts = [o \in Owner |-> Still],
                  !.game = [c \in Creature |-> [@[c] EXCEPT !.life = "gone"]],
                  !.seen = [c \in Creature |-> 0]]

-----------------------------------------------------------------------------
Serving == ~bridge.net.failed /\ bridge.net.link # "down"

\* The packet may have waited through another baseline or another incarnation.
AuthorityAction(o, verb, c) ==
  /\ Serving /\ bridge.net.work = "idle" /\ budget.commands > 0
  /\ \E baseline \in 1..bridge.net.baseline, of \in 1..bridge.game[o].born,
        at \in IF c = Nobody THEN {0} ELSE 1..bridge.game[c].born :
       /\ ~action_refused(bridge, o, baseline, of) /\ ~target_refused(bridge, verb, c, at)
       /\ bridge' = native_actor_network_command(bridge, o, verb, c,
                      [baseline |-> baseline, of |-> of, at |-> at])
  /\ bridge'.commands.next_sequence # bridge.commands.next_sequence
  /\ budget' = [budget EXCEPT !.commands = @ - 1]

UpdateScene == bridge' \in update_scene(bridge) /\ UNCHANGED budget

PublishScene ==
  /\ ~bridge.net.failed /\ bridge.net.link = "up" /\ bridge.net.work = "idle"
  /\ bridge' = publish_scene(bridge)
  /\ UNCHANGED budget

ConnectionLost == Serving /\ bridge.net.link = "silent" /\ bridge' = connection_lost(bridge) /\ UNCHANGED budget

Reconnect ==
  /\ ~bridge.net.failed /\ bridge.net.link = "down"
  /\ bridge' = [bridge EXCEPT !.net.link = "up"]
  /\ UNCHANGED budget

ReleaseTransferPause ==
  /\ Serving /\ bridge.net.work = "paused"
  /\ bridge' = release_transfer_pause(bridge)
  /\ UNCHANGED budget

FinishTransferResume ==
  /\ Serving /\ bridge.net.work = "resuming"
  /\ bridge' = finish_transfer_resume(bridge)
  /\ UNCHANGED budget

\* A landing clears the token that holds a release back; a paused game has none.
Land(o) ==
  /\ bridge.acts[o].air /\ bridge.net.work # "paused"
  /\ bridge' = [bridge EXCEPT !.acts[o].air = FALSE, !.detail[o].jump_command = 0]
  /\ UNCHANGED budget

(* What happens to the thread.                                             *)
Fault == budget.faults > 0 /\ budget' = [budget EXCEPT !.faults = @ - 1]

\* The network thread knows before the game thread does.
LinkLost ==
  Fault /\ Serving /\ bridge.net.link = "up" /\ bridge' = [bridge EXCEPT !.net.link = "silent"]

BeginTransfer ==
  /\ Fault /\ Serving /\ bridge.net.link = "up" /\ bridge.net.work = "idle" /\ bridge.net.ready
  /\ bridge' \in begin_transfer(bridge)

\* A developer's fence, a rejected packet or a component that gave up.
Quarantine == Fault /\ ~bridge.net.failed /\ bridge' = quarantine(bridge, TRUE)

RelationshipFails == Fault /\ ~bridge.latched /\ bridge' = [bridge EXCEPT !.latched = TRUE]

LeaveScene == Fault /\ bridge.game # leave_scene(bridge).game /\ bridge' = leave_scene(bridge)

\* Death ends what the creature does; the noun stays.
Die(c) ==
  /\ Fault /\ bridge.game[c].life = "living" /\ bridge.net.work # "paused"
  /\ bridge' = [bridge EXCEPT !.game[c].life = "dead",
                              !.acts = [o \in Owner |-> IF o = c THEN [@[o] EXCEPT !.walk = 0, !.target = FALSE]
                                                        ELSE @[o]]]

Doom(c) ==
  /\ Fault /\ bridge.game[c].life \in {"living", "dead"} /\ bridge.net.work # "paused"
  /\ bridge' = [bridge EXCEPT !.game[c].life = "doomed"]

\* A creature's object no longer has the call that the bridge knows.
BindingRejected(o, call) ==
  /\ Fault /\ bridge.game[o].life \in {"living", "dead"} /\ call \notin bridge.acts[o].refuses
  /\ bridge' = [bridge EXCEPT !.acts[o].refuses = @ \cup {call}]

\* Destroyed, or returned to the pool, where its address and number wait.
Destroy(c) ==
  /\ bridge.game[c].life = "doomed"
  /\ bridge' = [retire_native_incarnation(bridge, c) EXCEPT
                  !.game[c].life = "gone",
                  !.acts = [o \in Owner |-> IF o = c THEN Still ELSE @[o]]]
  /\ UNCHANGED budget

\* Another creature of the original's own takes them.
Appear(c) ==
  /\ bridge.game[c].life = "gone" /\ bridge.game[c].born < MaxBorn
  /\ bridge' = [bridge EXCEPT !.game[c] = [born |-> @.born + 1, life |-> "living"]]
  /\ UNCHANGED budget

Next ==
  \/ \E o \in Owner : \E verb \in Verbs[o], c \in Creature \cup {Nobody} :
       (verb \in targets_creature) = (c # Nobody) /\ AuthorityAction(o, verb, c)
  \/ UpdateScene
  \/ PublishScene
  \/ ConnectionLost
  \/ Reconnect
  \/ ReleaseTransferPause
  \/ FinishTransferResume
  \/ \E o \in Owner : Land(o) \/ \E call \in Call : BindingRejected(o, call)
  \/ LinkLost
  \/ BeginTransfer
  \/ Quarantine
  \/ RelationshipFails
  \/ LeaveScene
  \/ \E c \in Creature : Die(c) \/ Doom(c) \/ Destroy(c)
  \/ \E c \in Wild : Appear(c)

Spec == Init /\ [][Next]_vars

-----------------------------------------------------------------------------

\* An order reaches the incarnation the player named, no creature that took its
\* address and number since, under the baseline the player saw, and never while
\* the scene is held, unserved or cut off: whatever was queued, retained or
\* waiting when the authority stopped is forgotten.
\* (native_actors.cpp: destroy_hook, resolve; native_network.cpp:2164)
OrdersReachWhatTheyNamed == bridge.misgiven = {}

\* A creature of a fenced player neither walks nor has a target, unless its object
\* refuses the call that ends it, and nothing of the player's is left to be
\* carried out.
FencedOwnersAreStill ==
  ~bridge.commands.inputs_ready =>
    /\ bridge.commands.queue = <<>>
    /\ \A o \in Owner :
         /\ bridge.detail[o].intention.sequence = 0 /\ bridge.detail[o].steering = NoSteering
         /\ Alive(bridge, o) /\ bridge.acts[o].walk # 0 => "walk" \in bridge.acts[o].refuses
         /\ Alive(bridge, o) /\ bridge.acts[o].target => "target" \in bridge.acts[o].refuses

=============================================================================
