-------------------------- MODULE ActorInputsProofs --------------------------
(***************************************************************************)
(* A player's orders, proved for any creatures, any length of the queue    *)
(* and any number of commands, faults and incarnations.                    *)
(*                                                                         *)
(* An order is right when it is given because the three names it went by   *)
(* agree: what the player saw, what the command was bound to when it was   *)
(* admitted, and what is bound now.  The invariant says so of every        *)
(* command that waits or is carried on with, and that none waits across    *)
(* the change of a baseline or of the inputs.                              *)
(***************************************************************************)
EXTENDS ActorInputs, TLAPS

-----------------------------------------------------------------------------
(* The inductive invariant                                                 *)

Verb == {"none", "move", "steer", "steer_stop", "jump", "stop", "attack", "approach",
         "engage", "combat", "pickup", "social", "collect", "forage"}
Life == {"living", "dead", "doomed", "gone"}

Named == [baseline : Nat, of : Nat, at : Nat]
Command == [owner : Owner \cup {0}, verb : Verb, actor : Nat, target : Creature \cup {Nobody},
            aim : Nat, input_epoch : Nat, sequence : Nat, named : Named]
Steering == [active : BOOLEAN, release : Command]
Policy == [bound : [Creature -> Nat], queue : Seq(Command), next_sequence : Nat,
           input_epoch : Nat, inputs_ready : BOOLEAN]
Detail == [intention : Command, steering : Steering, jump_command : Nat]
Acts == [walk : Nat, target : BOOLEAN, air : BOOLEAN, refuses : SUBSET Call]
Noun == [born : Nat, life : Life]
Shown == [generation : Nat, life : Life]
Net == [armed : BOOLEAN, ready : BOOLEAN, link : {"up", "silent", "down"}, failed : BOOLEAN,
        begun : BOOLEAN, work : {"idle", "paused", "resuming"}, baseline : Nat,
        fence_epoch : Nat, pause_epoch : Nat]
Bridge == [commands : Policy, detail : [Owner -> Detail], acts : [Owner -> Acts],
           game : [Creature -> Noun], seen : [Creature -> Nat], published : [Creature -> Shown],
           net : Net, latched : BOOLEAN, misgiven : SUBSET {"outdated", "mistaken"}]

\* A binding, and what the census knows, is of the incarnation that is there.
Bindings(b) ==
  \A c \in Creature : b.commands.bound[c] # 0 =>
    b.commands.bound[c] = b.game[c].born /\ b.game[c].life # "gone"

Census(b) ==
  \A c \in Creature : b.seen[c] # 0 =>
    b.seen[c] = b.game[c].born /\ b.game[c].life # "gone"

\* A command was bound to what the player named, in the baseline that stands.
Meant(b, q) ==
  /\ q.owner \in Owner
  /\ q.named.baseline = b.net.baseline /\ q.named.of = q.actor
  /\ q.verb \in targets_creature => q.target \in Creature /\ q.named.at = q.aim

Queued(b) == \A i \in DOMAIN b.commands.queue : Meant(b, b.commands.queue[i])

Carried(b, q) == q.sequence # 0 => Meant(b, q) /\ q.verb \in retained

Retained(b) == \A o \in Owner : Carried(b, b.detail[o].intention)

\* Nothing is left to be carried out as a command of a player.
Empty(b) ==
  /\ b.commands.queue = <<>>
  /\ \A o \in Owner : b.detail[o].intention.sequence = 0

\* Commands wait only where a baseline stands.
Based(b) == Empty(b) \/ (b.net.armed /\ b.net.begun)

Ready(n) == n.ready => n.armed /\ n.begun /\ n.work = "idle"

Phases(b) == Ready(b.net) /\ (b.net.work = "resuming" => ~b.commands.inputs_ready)

\* Still, but for what the creature's object refuses to end.
Quiet(acts) ==
  /\ acts.walk # 0 => "walk" \in acts.refuses
  /\ acts.target => "target" \in acts.refuses

Standing(b) == \A o \in Owner : Alive(b, o) => Quiet(b.acts[o])

Unsteered(b) == \A o \in Owner : b.detail[o].steering = NoSteering

Fenced(b) == ~b.commands.inputs_ready => Empty(b) /\ Unsteered(b) /\ Standing(b)

BridgeOK(b) ==
  /\ b \in Bridge /\ b.misgiven = {}
  /\ Bindings(b) /\ Census(b) /\ Queued(b) /\ Retained(b)
  /\ Based(b) /\ Phases(b) /\ Fenced(b)

InputsInv == BridgeOK(bridge)

-----------------------------------------------------------------------------
(* The parts of the state                                                  *)

LEMMA ConstantFacts ==
  /\ Owner \subseteq {1, 2} /\ Owner \subseteq Creature /\ Owner \subseteq Nat
  /\ \A c \in Wild : c \in Creature /\ c \notin Owner
  /\ \A o \in Owner : Verbs[o] \subseteq Verb
  /\ NoCommand \in Command /\ NoCommand.sequence = 0 /\ NoSteering \in Steering
  /\ Idle \in Detail /\ Idle.intention = NoCommand /\ Idle.steering = NoSteering
  /\ Still \in Acts /\ Quiet(Still)
  /\ Unseen \in Shown
<1>1. /\ Owner \subseteq {1, 2} /\ Owner \subseteq Creature /\ Owner \subseteq Nat
      /\ \A c \in Wild : c \in Creature /\ c \notin Owner
      /\ \A o \in Owner : Verbs[o] \subseteq Verb
  BY ActorCommandsConstants DEF Creature, Verb
<1>2. NoCommand \in Command /\ NoCommand.sequence = 0
  BY DEF NoCommand, Command, Verb, Named, Nobody
<1>3. NoSteering \in Steering
  BY <1>2 DEF NoSteering, Steering
<1>4. Idle \in Detail /\ Idle.intention = NoCommand /\ Idle.steering = NoSteering
  BY <1>2, <1>3 DEF Idle, Detail
<1>5. /\ Still \in Acts /\ Quiet(Still) /\ Unseen \in Shown
  BY DEF Still, Acts, Quiet, Unseen, Shown, Life
<1> QED BY <1>1, <1>2, <1>3, <1>4, <1>5

\* The calls that end what a creature does.
LEMMA EndFacts ==
  ASSUME NEW acts \in Acts
  PROVE  /\ stop_native_movement(acts) \in Acts /\ clear_creature_target(acts) \in Acts
         /\ Quiet(stop_native_movement(clear_creature_target(acts)))
BY DEF Acts, Quiet, stop_native_movement, clear_creature_target

\* The fields of a state keep their types.
LEMMA DetailFields ==
  ASSUME NEW b \in Bridge, NEW o \in Owner
  PROVE  /\ b.detail[o] \in Detail /\ b.detail[o].intention \in Command
         /\ b.detail[o].steering \in Steering /\ b.detail[o].steering.release \in Command
         /\ b.detail[o].jump_command \in Nat
         /\ b.acts[o] \in Acts
BY DEF Bridge, Detail, Steering

LEMMA NounFields ==
  ASSUME NEW b \in Bridge, NEW c \in Creature
  PROVE  /\ b.game[c].born \in Nat /\ b.game[c].life \in Life
         /\ b.commands.bound[c] \in Nat /\ b.seen[c] \in Nat
         /\ b.published[c].generation \in Nat /\ b.published[c].life \in Life
BY DEF Bridge, Noun, Policy, Shown

\* A step that leaves the commands, the nouns and the acts alone.
LEMMA NetStep ==
  ASSUME NEW b, BridgeOK(b), NEW n \in Net, Ready(n),
         n.work = "resuming" => ~b.commands.inputs_ready,
         n.baseline = b.net.baseline \/ Empty(b),
         Empty(b) \/ (n.armed /\ n.begun)
  PROVE  BridgeOK([b EXCEPT !.net = n])
<1> DEFINE a == [b EXCEPT !.net = n]
<1>1. /\ a \in Bridge /\ a.misgiven = b.misgiven /\ a.net = n /\ a.commands = b.commands
      /\ a.detail = b.detail /\ a.acts = b.acts /\ a.game = b.game /\ a.seen = b.seen
  BY DEF BridgeOK, Bridge
<1> HIDE DEF a
<1>2. a.misgiven = {} /\ Bindings(a) /\ Census(a)
  BY <1>1 DEF BridgeOK, Bindings, Census
<1>3. Empty(a) <=> Empty(b)
  BY <1>1 DEF Empty
<1>4. Queued(a) /\ Retained(a)
  <2>1. CASE Empty(b)
    BY <1>1, <2>1 DEF Queued, Retained, Carried, Empty
  <2>2. CASE n.baseline = b.net.baseline
    <3>1. \A q : Meant(a, q) <=> Meant(b, q)
      BY <1>1, <2>2 DEF Meant
    <3> QED BY <1>1, <3>1 DEF BridgeOK, Queued, Retained, Carried
  <2> QED BY <2>1, <2>2
<1>5. Based(a) /\ Phases(a)
  BY <1>1, <1>3 DEF Based, Phases
<1>6. Fenced(a)
  BY <1>1, <1>3 DEF BridgeOK, Fenced, Unsteered, Standing, Alive, Resolves
<1> QED BY <1>1, <1>2, <1>4, <1>5, <1>6 DEF BridgeOK, a

-----------------------------------------------------------------------------
(* Fencing the inputs                                                      *)

LEMMA FenceShape ==
  ASSUME NEW b \in Bridge, NEW stop \in BOOLEAN,
         NEW a, a = native_actor_fence_network_inputs(b, stop)
  PROVE  /\ a \in Bridge /\ a.net = b.net /\ a.game = b.game /\ a.seen = b.seen
         /\ a.latched = b.latched /\ a.misgiven = b.misgiven
         /\ a.commands.bound = b.commands.bound /\ ~a.commands.inputs_ready
         /\ Empty(a) /\ Unsteered(a)
         /\ \A o \in Owner : Alive(a, o) <=> Alive(b, o)
         /\ IF b.commands.inputs_ready /\ stop THEN Standing(a) ELSE a.acts = b.acts
<1> DEFINE k == fence_inputs(b.commands)
           d == [o \in Owner |-> [b.detail[o] EXCEPT !.intention = NoCommand, !.steering = NoSteering]]
           f == [b EXCEPT !.commands = k, !.detail = d]
           s == [o \in Owner |-> IF Alive(f, o)
                                 THEN stop_native_movement(clear_creature_target(f.acts[o]))
                                 ELSE f.acts[o]]
<1>1. /\ k \in Policy /\ k.bound = b.commands.bound /\ k.queue = <<>> /\ ~k.inputs_ready
  <2>1. b.commands \in Policy
    BY DEF Bridge
  <2> DEFINE e == IF b.commands.inputs_ready THEN b.commands.input_epoch + 1
                  ELSE b.commands.input_epoch
  <2>2. e \in Nat /\ <<>> \in Seq(Command)
    BY <2>1 DEF Policy
  <2>3. k = [b.commands EXCEPT !.inputs_ready = FALSE, !.input_epoch = e, !.queue = <<>>]
    BY DEF fence_inputs
  <2> HIDE DEF e
  <2> QED BY <2>1, <2>2, <2>3 DEF Policy
<1>2. /\ d \in [Owner -> Detail]
      /\ \A o \in Owner : d[o].intention = NoCommand /\ d[o].steering = NoSteering
  <2>1. \A o \in Owner : b.detail[o] \in Detail
    BY DEF Bridge
  <2>2. NoCommand \in Command /\ NoSteering \in Steering
    BY ConstantFacts
  <2> QED BY <2>1, <2>2 DEF Detail
<1>3. /\ f \in Bridge /\ f.commands = k /\ f.detail = d /\ f.net = b.net /\ f.acts = b.acts
      /\ f.game = b.game /\ f.seen = b.seen /\ f.latched = b.latched /\ f.misgiven = b.misgiven
  <2> HIDE DEF k, d
  <2> QED BY <1>1, <1>2 DEF Bridge
<1>4. a = IF b.commands.inputs_ready /\ stop THEN [f EXCEPT !.acts = s] ELSE f
  BY Zenon DEF native_actor_fence_network_inputs, stop_native
<1> HIDE DEF k, d, f
<1>5. /\ s \in [Owner -> Acts]
      /\ \A o \in Owner : Alive(f, o) => Quiet(s[o])
  <2>1. \A o \in Owner : f.acts[o] \in Acts
    BY <1>3 DEF Bridge
  <2> QED BY <2>1, EndFacts
<1> HIDE DEF s
<1>6. /\ a \in Bridge /\ a.commands = k /\ a.detail = d /\ a.net = b.net
      /\ a.game = b.game /\ a.seen = b.seen /\ a.latched = b.latched /\ a.misgiven = b.misgiven
      /\ a.acts = IF b.commands.inputs_ready /\ stop THEN s ELSE b.acts
  <2>1. CASE b.commands.inputs_ready /\ stop
    <3>1. a = [f EXCEPT !.acts = s]
      BY <2>1, <1>4
    <3>2. /\ a \in Bridge /\ a.commands = f.commands /\ a.detail = f.detail /\ a.net = f.net
          /\ a.game = f.game /\ a.seen = f.seen /\ a.latched = f.latched
          /\ a.misgiven = f.misgiven /\ a.acts = s
      BY <3>1, <1>3, <1>5 DEF Bridge
    <3> QED BY <2>1, <3>2, <1>3
  <2>2. CASE ~(b.commands.inputs_ready /\ stop)
    BY <2>2, <1>3, <1>4
  <2> QED BY <2>1, <2>2
<1>7. \A o \in Owner : (Alive(a, o) <=> Alive(b, o)) /\ (Alive(f, o) <=> Alive(b, o))
  BY <1>1, <1>3, <1>6 DEF Alive, Resolves
<1>8. Empty(a) /\ Unsteered(a)
  BY <1>1, <1>2, <1>6, ConstantFacts DEF Empty, Unsteered
<1>9. b.commands.inputs_ready /\ stop => Standing(a)
  BY <1>5, <1>6, <1>7 DEF Standing
<1> QED BY <1>1, <1>6, <1>7, <1>8, <1>9

\* What a fence needs of the state it is called in.
Fenceable(b) ==
  /\ b \in Bridge /\ b.misgiven = {} /\ Bindings(b) /\ Census(b) /\ Ready(b.net)

LEMMA FenceableOK == ASSUME NEW b, BridgeOK(b) PROVE Fenceable(b)
BY DEF BridgeOK, Fenceable, Phases

LEMMA FenceFacts ==
  ASSUME NEW b, Fenceable(b), NEW stop \in BOOLEAN,
         (stop /\ b.commands.inputs_ready) \/ Standing(b),
         NEW a, a = native_actor_fence_network_inputs(b, stop)
  PROVE  /\ BridgeOK(a) /\ a.net = b.net /\ ~a.commands.inputs_ready
         /\ a.game = b.game /\ a.latched = b.latched
<1>1. /\ a \in Bridge /\ a.net = b.net /\ a.game = b.game /\ a.seen = b.seen
      /\ a.latched = b.latched /\ a.misgiven = b.misgiven
      /\ a.commands.bound = b.commands.bound /\ ~a.commands.inputs_ready
      /\ Empty(a) /\ Unsteered(a)
      /\ \A o \in Owner : Alive(a, o) <=> Alive(b, o)
      /\ IF b.commands.inputs_ready /\ stop THEN Standing(a) ELSE a.acts = b.acts
  BY FenceShape DEF Fenceable
<1>2. Standing(a)
  BY <1>1 DEF Standing
<1>3. Bindings(a) /\ Census(a)
  BY <1>1 DEF Fenceable, Bindings, Census
<1>4. Queued(a) /\ Retained(a) /\ Based(a)
  BY <1>1 DEF Empty, Queued, Retained, Carried, Based
<1>5. Phases(a) /\ Fenced(a)
  BY <1>1, <1>2 DEF Fenceable, Phases, Fenced
<1> QED BY <1>1, <1>3, <1>4, <1>5 DEF BridgeOK, Fenceable

-----------------------------------------------------------------------------
(* Within one update of the scene                                          *)

\* The update goes on: commands are authorized and orders are given.
Going(b) == BridgeOK(b) /\ native_network_authority_inputs_ready(b)

\* A command at hand.
AtHand(b, q) == q \in Command /\ Meant(b, q) /\ b.net.armed /\ b.net.begun

\* An order of an authorized command is right, so that nothing is noted of it.
LEMMA RightOrder ==
  ASSUME NEW b, Going(b), NEW q, AtHand(b, q), authorize(b.commands, q)
  PROVE  Order(b, q) = b
<1>1. /\ b \in Bridge /\ b.misgiven = {} /\ Bindings(b) /\ q.owner \in Owner
      /\ q.owner \in Creature
  BY ConstantFacts DEF Going, BridgeOK, AtHand, Meant
<1>2. q.named.of = b.game[q.owner].born
  BY <1>1 DEF AtHand, Meant, authorize, Bindings
<1>3. q.verb \in targets_creature => q.named.at = b.game[q.target].born
  BY <1>1 DEF AtHand, Meant, authorize, Bindings
<1>4. q.named.baseline = b.net.baseline
  BY DEF AtHand, Meant
<1>5. Wrongs(b, q) = {}
  BY <1>2, <1>3, <1>4 DEF Wrongs, Going
<1>6. Order(b, q) = [b EXCEPT !.misgiven = b.misgiven]
  BY <1>1, <1>5 DEF Order
<1> QED BY <1>1, <1>6 DEF Bridge

\* What a step of the update leaves as it was.
Kept(b, a) ==
  /\ a \in Bridge /\ a.misgiven = b.misgiven /\ a.net = b.net /\ a.seen = b.seen
  /\ a.commands = b.commands
  /\ \A c \in Creature : a.game[c].born = b.game[c].born
                         /\ (b.game[c].life # "gone" => a.game[c].life # "gone")

LEMMA KeptGoing ==
  ASSUME NEW b, Going(b), b.commands.inputs_ready, NEW a, Kept(b, a),
         \A o \in Owner :
           \/ a.detail[o].intention = b.detail[o].intention
           \/ a.detail[o].intention.sequence = 0
           \/ AtHand(b, a.detail[o].intention) /\ a.detail[o].intention.verb \in retained
  PROVE  Going(a) /\ a.commands = b.commands /\ a.net = b.net
<1>1. /\ a \in Bridge /\ a.misgiven = {} /\ a.net = b.net /\ a.seen = b.seen
      /\ a.commands = b.commands
  BY DEF Kept, Going, BridgeOK
<1>2. Bindings(a) /\ Census(a)
  BY <1>1 DEF Kept, Going, BridgeOK, Bindings, Census
<1>3. \A q : Meant(a, q) <=> Meant(b, q)
  BY <1>1 DEF Meant
<1>4. Queued(a) /\ Retained(a)
  BY <1>1, <1>3 DEF Going, BridgeOK, Queued, Retained, Carried, AtHand
<1>5. Based(a)
  BY <1>1 DEF Going, BridgeOK, Based, Empty, AtHand
<1>6. Phases(a) /\ Fenced(a) /\ native_network_authority_inputs_ready(a)
  BY <1>1 DEF Going, BridgeOK, Phases, Fenced, native_network_authority_inputs_ready
<1> QED BY <1>1, <1>2, <1>4, <1>5, <1>6 DEF Going, BridgeOK

\* A target is selected, and a callback may doom a creature.
LEMMA KeptAim ==
  ASSUME NEW b, Going(b), b.commands.inputs_ready, NEW q, AtHand(b, q),
         authorize(b.commands, q), q.verb \in targets_creature,
         NEW a \in set_creature_target(b, q)
  PROVE  Going(a) /\ a.commands = b.commands /\ a.net = b.net
<1> DEFINE o == q.owner
           act == [b.acts[o] EXCEPT !.target = TRUE]
           aimed == [b EXCEPT !.acts[o] = act]
<1>1. /\ b \in Bridge /\ o \in Owner /\ o \in Creature /\ q.target \in Creature
  BY ConstantFacts DEF Going, BridgeOK, AtHand, Meant
<1>2. act \in Acts /\ [b.acts EXCEPT ![o] = act] \in [Owner -> Acts]
  <2>1. b.acts \in [Owner -> Acts] /\ b.acts[o] \in Acts
    BY <1>1 DEF Bridge
  <2>2. act \in Acts
    BY <2>1 DEF Acts
  <2> HIDE DEF act
  <2> QED BY <2>1, <2>2, <1>1
<1>3. [Order(b, q) EXCEPT !.acts[o].target = TRUE] = aimed
  BY RightOrder DEF aimed, act
<1> HIDE DEF act
<1>4. /\ aimed \in Bridge /\ aimed.misgiven = b.misgiven /\ aimed.net = b.net
      /\ aimed.seen = b.seen /\ aimed.commands = b.commands /\ aimed.game = b.game
      /\ aimed.detail = b.detail
  BY <1>1, <1>2 DEF Bridge
<1> HIDE DEF aimed
<1>5. Kept(b, aimed)
  BY <1>4 DEF Kept
<1>6. ASSUME NEW c \in {o, q.target}, a = [aimed EXCEPT !.game[c].life = "doomed"]
      PROVE  Kept(b, a) /\ a.detail = b.detail
  <2>1. c \in Creature
    BY <1>1
  <2> DEFINE n == [b.game[c] EXCEPT !.life = "doomed"]
             g == [b.game EXCEPT ![c] = n]
  <2>2. b.game \in [Creature -> Noun] /\ b.game[c] \in Noun
    BY <1>1, <2>1 DEF Bridge
  <2>3. n \in Noun /\ n.born = b.game[c].born /\ n.life = "doomed"
    BY <2>2 DEF Noun, Life
  <2>4. a = [aimed EXCEPT !.game = g]
    BY <1>4, <1>6
  <2> HIDE DEF n
  <2>5. /\ g \in [Creature -> Noun]
        /\ \A e \in Creature : g[e].born = b.game[e].born
                               /\ (b.game[e].life # "gone" => g[e].life # "gone")
    BY <2>1, <2>2, <2>3
  <2> HIDE DEF g
  <2>6. /\ a \in Bridge /\ a.misgiven = b.misgiven /\ a.net = b.net /\ a.seen = b.seen
        /\ a.commands = b.commands /\ a.detail = b.detail /\ a.game = g
    BY <1>4, <2>4, <2>5 DEF Bridge
  <2> QED BY <2>5, <2>6 DEF Kept
<1>7. a = aimed \/ \E c \in {o, q.target} : a = [aimed EXCEPT !.game[c].life = "doomed"]
  BY <1>3 DEF set_creature_target
<1>8. Kept(b, a) /\ a.detail = b.detail
  BY <1>4, <1>5, <1>6, <1>7
<1> QED BY <1>8, KeptGoing

\* The acts of one owner change.
LEMMA KeptAct ==
  ASSUME NEW b, Going(b), b.commands.inputs_ready, NEW o \in Owner, NEW act \in Acts
  PROVE  /\ Going([b EXCEPT !.acts[o] = act])
         /\ [b EXCEPT !.acts[o] = act].commands = b.commands
<1> DEFINE a == [b EXCEPT !.acts[o] = act]
<1>1. b \in Bridge
  BY DEF Going, BridgeOK
<1>2. [b.acts EXCEPT ![o] = act] \in [Owner -> Acts]
  BY <1>1 DEF Bridge
<1>3. /\ a \in Bridge /\ a.misgiven = b.misgiven /\ a.net = b.net /\ a.seen = b.seen
      /\ a.commands = b.commands /\ a.game = b.game /\ a.detail = b.detail
  BY <1>1, <1>2 DEF Bridge
<1> HIDE DEF a
<1>4. Kept(b, a)
  BY <1>3 DEF Kept
<1>5. Going(a) /\ a.commands = b.commands
  BY <1>3, <1>4, KeptGoing
<1> QED BY <1>5 DEF a

\* What is kept of one owner changes.
LEMMA KeptDetail ==
  ASSUME NEW b, Going(b), b.commands.inputs_ready, NEW o \in Owner, NEW d \in Detail,
         \/ d.intention = b.detail[o].intention
         \/ d.intention.sequence = 0
         \/ AtHand(b, d.intention) /\ d.intention.verb \in retained
  PROVE  /\ Going([b EXCEPT !.detail[o] = d])
         /\ [b EXCEPT !.detail[o] = d].commands = b.commands
         /\ [b EXCEPT !.detail[o] = d].net = b.net
         /\ [b EXCEPT !.detail[o] = d].game = b.game
         /\ [b EXCEPT !.detail[o] = d].acts = b.acts
         /\ [b EXCEPT !.detail[o] = d].detail[o] = d
<1> DEFINE a == [b EXCEPT !.detail[o] = d]
<1>1. b \in Bridge
  BY DEF Going, BridgeOK
<1>2. /\ [b.detail EXCEPT ![o] = d] \in [Owner -> Detail]
      /\ \A e \in Owner : [b.detail EXCEPT ![o] = d][e] = IF e = o THEN d ELSE b.detail[e]
  BY <1>1 DEF Bridge
<1>3. /\ a \in Bridge /\ a.misgiven = b.misgiven /\ a.net = b.net /\ a.seen = b.seen
      /\ a.commands = b.commands /\ a.game = b.game /\ a.acts = b.acts
      /\ a.detail = [b.detail EXCEPT ![o] = d]
  BY <1>1, <1>2 DEF Bridge
<1> HIDE DEF a
<1>4. Kept(b, a)
  BY <1>3 DEF Kept
<1>5. Going(a) /\ a.commands = b.commands
  BY <1>2, <1>3, <1>4, KeptGoing
<1>6. a.detail[o] = d
  BY <1>2, <1>3
<1> QED BY <1>3, <1>5, <1>6 DEF a

\* A later state of the same update, and the commands are as they were.
On(b, a) == Going(a) /\ a.commands = b.commands /\ a.net = b.net

LEMMA OnNet ==
  ASSUME NEW b, Going(b), NEW q, AtHand(b, q), NEW a, On(b, a)
  PROVE  AtHand(a, q)
BY DEF On, AtHand, Meant

LEMMA CancelOn ==
  ASSUME NEW b, Going(b), b.commands.inputs_ready, NEW o \in Owner
  PROVE  On(b, cancel_intention(b, o))
<1> DEFINE d == [b.detail[o] EXCEPT !.intention = NoCommand]
<1>1. b.detail[o] \in Detail
  BY DetailFields DEF Going, BridgeOK
<1>2. d \in Detail /\ d.intention.sequence = 0
  BY <1>1, ConstantFacts DEF Detail
<1>3. cancel_intention(b, o) = [b EXCEPT !.detail[o] = d]
  BY DEF cancel_intention
<1> HIDE DEF d
<1> QED BY <1>2, <1>3, KeptDetail DEF On

LEMMA BeginOn ==
  ASSUME NEW b, Going(b), b.commands.inputs_ready, NEW q, AtHand(b, q), q.verb \in retained
  PROVE  On(b, begin_intention(b, q))
<1> DEFINE o == q.owner
           d == [b.detail[o] EXCEPT !.intention = q]
<1>1. o \in Owner /\ q \in Command
  BY DEF AtHand, Meant
<1>2. b.detail[o] \in Detail
  BY <1>1, DetailFields DEF Going, BridgeOK
<1>3. d \in Detail /\ d.intention = q
  BY <1>1, <1>2 DEF Detail
<1>4. begin_intention(b, q) = [b EXCEPT !.detail[o] = d]
  BY DEF begin_intention
<1> HIDE DEF d, o
<1> QED BY <1>1, <1>3, <1>4, KeptDetail DEF On

LEMMA ActOn ==
  ASSUME NEW b, Going(b), b.commands.inputs_ready, NEW o \in Owner, NEW act \in Acts
  PROVE  On(b, [b EXCEPT !.acts[o] = act])
BY KeptAct DEF On, Going, BridgeOK, Bridge

LEMMA ActFields ==
  ASSUME NEW b, Going(b), NEW o \in Owner, NEW w \in Nat, NEW t \in BOOLEAN
  PROVE  /\ [b.acts[o] EXCEPT !.walk = w] \in Acts
         /\ [b.acts[o] EXCEPT !.target = t] \in Acts
         /\ [b.acts[o] EXCEPT !.air = t] \in Acts
         /\ stop_native_movement(b.acts[o]) \in Acts /\ clear_creature_target(b.acts[o]) \in Acts
         /\ stop_native_movement(clear_creature_target(b.acts[o])) \in Acts
<1>1. b.acts[o] \in Acts
  BY DEF Going, BridgeOK, Bridge
<1>2. /\ stop_native_movement(b.acts[o]) \in Acts /\ clear_creature_target(b.acts[o]) \in Acts
      /\ stop_native_movement(clear_creature_target(b.acts[o])) \in Acts
  BY <1>1, EndFacts
<1> QED BY <1>1, <1>2 DEF Acts

LEMMA WalkOn ==
  ASSUME NEW b, Going(b), NEW q, AtHand(b, q), authorize(b.commands, q)
  PROVE  On(b, WalkTo(b, q))
<1>1. q.owner \in Owner /\ q.sequence \in Nat /\ b.commands.inputs_ready
  BY DEF AtHand, Meant, Command, authorize
<1>2. [b.acts[q.owner] EXCEPT !.walk = q.sequence] \in Acts
  BY <1>1, ActFields
<1>3. WalkTo(b, q) = [b EXCEPT !.acts[q.owner] = [b.acts[q.owner] EXCEPT !.walk = q.sequence]]
  BY RightOrder DEF WalkTo
<1> QED BY <1>1, <1>2, <1>3, ActOn

LEMMA JumpOn ==
  ASSUME NEW b, Going(b), NEW q, AtHand(b, q), authorize(b.commands, q),
         NEW a \in perform_jump(b, q)
  PROVE  On(b, a)
<1> DEFINE o == q.owner
           act == [b.acts[o] EXCEPT !.air = TRUE]
           left == [b EXCEPT !.acts[o] = act]
           D(x, n) == [x.detail[o] EXCEPT !.jump_command = n]
<1>1. o \in Owner /\ q.sequence \in Nat /\ b.commands.inputs_ready
  BY DEF AtHand, Meant, Command, authorize
<1>2. On(b, left)
  BY <1>1, ActFields, ActOn
<1>3. ASSUME NEW x, Going(x), x.commands.inputs_ready, NEW n \in Nat
      PROVE  On(x, [x EXCEPT !.detail[o] = D(x, n)])
  <2>1. x.detail[o] \in Detail
    BY <1>1, <1>3, DetailFields DEF Going, BridgeOK
  <2>2. D(x, n) \in Detail /\ D(x, n).intention = x.detail[o].intention
    BY <2>1, <1>3 DEF Detail
  <2> HIDE DEF D
  <2> QED BY <1>1, <1>3, <2>2, KeptDetail DEF On
<1>4. CASE a = [Order(b, q) EXCEPT !.acts[o].air = TRUE, !.detail[o].jump_command = q.sequence]
  <2>1. a = [left EXCEPT !.detail[o] = D(left, q.sequence)]
    BY <1>4, RightOrder
  <2> HIDE DEF left, D
  <2> QED BY <2>1, <1>1, <1>2, <1>3 DEF On
<1>5. CASE a = [Order(b, q) EXCEPT !.detail[o].jump_command = 0]
  <2>1. a = [b EXCEPT !.detail[o] = D(b, 0)]
    BY <1>5, RightOrder
  <2> HIDE DEF D
  <2> QED BY <2>1, <1>1, <1>3
<1> QED BY <1>4, <1>5 DEF perform_jump

LEMMA AimOn ==
  ASSUME NEW b, Going(b), NEW q, AtHand(b, q), authorize(b.commands, q),
         q.verb \in targets_creature, NEW a \in set_creature_target(b, q)
  PROVE  On(b, a) /\ Order(a, q) = a
<1>1. Going(a) /\ a.commands = b.commands /\ a.net = b.net
  <2>1. b.commands.inputs_ready
    BY DEF authorize
  <2> QED BY <2>1, KeptAim
<1>2. On(b, a)
  BY <1>1 DEF On
<1>3. AtHand(a, q) /\ authorize(a.commands, q)
  BY <1>1, <1>2, OnNet
<1> QED BY <1>1, <1>2, <1>3, RightOrder

LEMMA OnItself == ASSUME NEW b, Going(b) PROVE On(b, b)
BY DEF On

LEMMA OnOn == ASSUME NEW b, NEW c, NEW a, On(b, c), On(c, a) PROVE On(b, a)
BY DEF On

LEMMA PerformOn ==
  ASSUME NEW b, Going(b), NEW q, AtHand(b, q), authorize(b.commands, q),
         NEW a \in perform(b, q)
  PROVE  On(b, a)
<1>1. q.owner \in Owner /\ q.verb \in Verb /\ b.commands.inputs_ready
  BY DEF AtHand, Meant, Command, authorize
<1>2. Order(b, q) = b /\ On(b, b)
  BY RightOrder, OnItself
<1>3. CASE q.verb \in retained
  <2>1. a = begin_intention(b, q)
    BY <1>3 DEF perform, retained, walks
  <2> QED BY <2>1, <1>1, <1>3, BeginOn
<1>4. CASE q.verb \in walks
  <2>1. a \in {WalkTo(b, q), b}
    BY <1>4 DEF perform, retained, walks
  <2> QED BY <2>1, <1>2, WalkOn
<1>5. CASE q.verb = "jump"
  <2>1. a \in perform_jump(b, q)
    BY <1>5 DEF perform, retained, walks
  <2> QED BY <2>1, JumpOn
<1>6. CASE q.verb = "attack"
  <2>1. a \in perform_attack(b, q)
    BY <1>6 DEF perform, retained, walks
  <2>2. q.verb \in targets_creature
    BY <1>6 DEF targets_creature
  <2>3. CASE "target" \in b.acts[q.owner].refuses
    BY <1>2, <2>1, <2>3 DEF perform_attack
  <2>4. CASE "target" \notin b.acts[q.owner].refuses
    <3>1. PICK x \in set_creature_target(b, q) :
            a = IF Alive(x, q.owner) /\ Alive(x, q.target) THEN Order(x, q) ELSE x
      BY <2>1, <2>4 DEF perform_attack
    <3> QED BY <2>2, <3>1, AimOn
  <2> QED BY <2>3, <2>4
<1>7. CASE q.verb = "stop"
  <2>1. a = [b EXCEPT !.acts[q.owner] = clear_creature_target(b.acts[q.owner])]
    BY <1>2, <1>7 DEF perform, retained, walks
  <2> QED BY <2>1, <1>1, ActFields, ActOn
<1>8. CASE q.verb \in {"none", "steer_stop", "pickup", "social", "collect", "forage"}
  <2>1. a = b
    BY <1>2, <1>8 DEF perform, retained, walks
  <2> QED BY <2>1, <1>2
<1> QED BY <1>1, <1>3, <1>4, <1>5, <1>6, <1>7, <1>8 DEF Verb, retained, walks

LEMMA ExecuteOn ==
  ASSUME NEW b, Going(b), NEW q, AtHand(b, q), NEW a \in execute(b, q)
  PROVE  On(b, a)
<1> DEFINE o == q.owner
           s == Superseded(b, q)
           steering == observe(s.detail[o].steering, q)
           c == [s EXCEPT !.detail[o].steering = steering]
           d == [s.detail[o] EXCEPT !.steering = steering]
<1>1. CASE ~admit_command(b, q)
  BY <1>1, OnItself DEF execute
<1>2. CASE admit_command(b, q)
  <2>1. a \in perform(c, q)
    BY <1>2 DEF execute
  <2>2. authorize(b.commands, q) /\ b.commands.inputs_ready
    BY <1>2 DEF admit_command, authorize
  <2>3. o \in Owner /\ q \in Command
    BY DEF AtHand, Meant
  <2>4. On(b, s)
    BY <2>2, <2>3, CancelOn, OnItself DEF Superseded
  <2> HIDE DEF s
  <2>5. s.detail[o] \in Detail /\ s.detail[o].steering \in Steering
    BY <2>3, <2>4, DetailFields DEF On, Going, BridgeOK
  <2>6. steering \in Steering
    <3>1. \A z \in Steering : z.release \in Command
      BY DEF Steering
    <3>2. \A t \in BOOLEAN, r \in Command : [active |-> t, release |-> r] \in Steering
      BY DEF Steering
    <3> QED BY <2>3, <2>5, <3>1, <3>2, ConstantFacts DEF observe
  <2> HIDE DEF steering
  <2>7. d \in Detail /\ d.intention = s.detail[o].intention
    BY <2>5, <2>6 DEF Detail
  <2>8. c = [s EXCEPT !.detail[o] = d]
    OBVIOUS
  <2> HIDE DEF d, c
  <2>9. On(s, c)
    BY <2>2, <2>3, <2>4, <2>7, <2>8, KeptDetail DEF On
  <2>10. On(b, c) /\ Going(c) /\ authorize(c.commands, q)
    BY <2>2, <2>4, <2>9, OnOn DEF On
  <2>11. AtHand(c, q)
    BY <2>10, OnNet
  <2> QED BY <2>1, <2>10, <2>11, PerformOn, OnOn
<1> QED BY <1>1, <1>2

LEMMA NextCommandGoing ==
  ASSUME NEW b, Going(b), NEW a \in NextCommand(b)
  PROVE  Going(a)
<1>1. CASE b.commands.queue = <<>>
  BY <1>1 DEF NextCommand
<1>2. CASE b.commands.queue # <<>>
  <2> DEFINE k == pop(b.commands)
             c == [b EXCEPT !.commands = k]
             q == Head(b.commands.queue)
  <2>1. a \in execute(c, q)
    BY <1>2 DEF NextCommand
  <2>2. b \in Bridge /\ b.commands \in Policy /\ b.commands.queue \in Seq(Command)
    BY DEF Going, BridgeOK, Bridge, Policy
  <2>3. /\ Tail(b.commands.queue) \in Seq(Command) /\ q \in Command
        /\ 1 \in DOMAIN b.commands.queue /\ q = b.commands.queue[1]
        /\ \A i \in DOMAIN Tail(b.commands.queue) :
             i + 1 \in DOMAIN b.commands.queue
             /\ Tail(b.commands.queue)[i] = b.commands.queue[i + 1]
    BY <1>2, <2>2
  <2>4. /\ k \in Policy /\ k.bound = b.commands.bound /\ k.queue = Tail(b.commands.queue)
        /\ k.inputs_ready = b.commands.inputs_ready
    BY <2>2, <2>3 DEF pop, Policy
  <2> HIDE DEF k, q
  <2>5. /\ c \in Bridge /\ c.misgiven = b.misgiven /\ c.net = b.net /\ c.seen = b.seen
        /\ c.commands = k /\ c.game = b.game /\ c.detail = b.detail /\ c.acts = b.acts
    BY <2>2, <2>4 DEF Bridge
  <2> HIDE DEF c
  <2>6. b.net.armed /\ b.net.begun /\ b.commands.inputs_ready
    BY <1>2 DEF Going, BridgeOK, Based, Empty, Fenced
  <2>7. Meant(b, q)
    BY <2>3 DEF Going, BridgeOK, Queued
  <2>8. \A p : Meant(c, p) <=> Meant(b, p)
    BY <2>5 DEF Meant
  <2>9. Bindings(c) /\ Census(c)
    BY <2>4, <2>5 DEF Going, BridgeOK, Bindings, Census
  <2>10. Queued(c) /\ Retained(c)
    BY <2>3, <2>4, <2>5, <2>8 DEF Going, BridgeOK, Queued, Retained, Carried
  <2>11. Based(c) /\ Phases(c) /\ Fenced(c)
    BY <2>4, <2>5, <2>6 DEF Going, BridgeOK, Based, Phases, Fenced
  <2>12. Going(c)
    BY <2>5, <2>9, <2>10, <2>11 DEF Going, BridgeOK, native_network_authority_inputs_ready
  <2>13. AtHand(c, q)
    BY <2>3, <2>5, <2>6, <2>7, <2>8 DEF AtHand
  <2> QED BY <2>1, <2>12, <2>13, ExecuteOn DEF On
<1> QED BY <1>1, <1>2

LEMMA ReleaseGoing ==
  ASSUME NEW b, Going(b), NEW o \in Owner
  PROVE  Going(dispatch_keyboard_release(b, o))
<1> DEFINE a == dispatch_keyboard_release(b, o)
           d == [b.detail[o] EXCEPT !.steering = NoSteering]
           cleared == [b EXCEPT !.detail[o] = d]
           stopped == [cleared EXCEPT !.acts[o] = stop_native_movement(cleared.acts[o])]
<1>1. a \in {b, cleared, stopped}
  BY DEF dispatch_keyboard_release
<1>2. CASE b.commands.inputs_ready
  <2>1. b.detail[o] \in Detail
    BY DetailFields DEF Going, BridgeOK
  <2>2. d \in Detail /\ d.intention = b.detail[o].intention
    BY <2>1, ConstantFacts DEF Detail
  <2> HIDE DEF d
  <2>3. Going(cleared) /\ cleared.commands = b.commands
    BY <1>2, <2>2, KeptDetail
  <2> HIDE DEF cleared
  <2>4. stop_native_movement(cleared.acts[o]) \in Acts
    BY <2>3, ActFields
  <2>5. Going(stopped)
    BY <1>2, <2>3, <2>4, KeptAct
  <2> QED BY <1>1, <2>3, <2>5
<1>3. CASE ~b.commands.inputs_ready
  <2>1. b.detail[o].steering.release.sequence = 0
    BY <1>3, ConstantFacts DEF Going, BridgeOK, Fenced, Unsteered, NoSteering
  <2> QED BY <2>1 DEF dispatch_keyboard_release
<1> QED BY <1>2, <1>3, Going(b) DEF Going, BridgeOK, Bridge, Policy

LEMMA IntentionGoing ==
  ASSUME NEW b, Going(b), NEW o \in Owner, NEW a \in step_intention(b, o)
  PROVE  Going(a)
<1> DEFINE q == b.detail[o].intention
           c(x) == cancel_intention(x, q.owner)
           halted(x) == [x EXCEPT !.acts[q.owner] =
                           stop_native_movement(clear_creature_target(x.acts[q.owner]))]
<1>1. CASE q.sequence = 0
  BY <1>1 DEF step_intention
<1>2. CASE q.sequence # 0
  <2>1. Meant(b, q) /\ q.verb \in retained /\ q \in Command /\ q.owner \in Owner
    BY <1>2, DetailFields DEF Going, BridgeOK, Retained, Carried, Meant
  <2>2. b.commands.inputs_ready /\ b.net.armed /\ b.net.begun
    BY <1>2 DEF Going, BridgeOK, Fenced, Empty, Based
  <2>3. AtHand(b, q) /\ q.verb \in targets_creature
    BY <2>1, <2>2 DEF AtHand, retained, targets_creature
  <2> HIDE DEF q
  <2>4. CASE a \in {b, cancel_intention(b, o)}
    BY <2>2, <2>4, CancelOn DEF On
  <2>5. CASE authorize(b.commands, q) /\ a \in {WalkTo(b, q)} \cup submit_intention_attack(b, q)
    <3>1. CASE a = WalkTo(b, q)
      BY <2>3, <2>5, <3>1, WalkOn DEF On
    <3>2. ASSUME NEW x \in set_creature_target(b, q)
          PROVE  Going(x) /\ Going(Order(x, q)) /\ Going(c(x))
                 /\ Going(halted(c(x)))
      <4>1. Going(x) /\ Order(x, q) = x /\ x.commands.inputs_ready
        BY <2>2, <2>3, <2>5, AimOn DEF On
      <4>2. Going(c(x)) /\ c(x).commands.inputs_ready
        BY <2>1, <4>1, CancelOn DEF On
      <4> HIDE DEF c
      <4>3. stop_native_movement(clear_creature_target(c(x).acts[q.owner])) \in Acts
        BY <2>1, <4>2, ActFields
      <4>4. Going(halted(c(x)))
        BY <2>1, <4>2, <4>3, KeptAct
      <4> QED BY <4>1, <4>2, <4>4
    <3>3. CASE a \in submit_intention_attack(b, q)
      <4>1. a = c(b) \/ \E x \in set_creature_target(b, q) : a \in {Order(x, q), c(x), halted(c(x))}
        BY <3>3 DEF submit_intention_attack
      <4>2. Going(c(b))
        BY <2>1, <2>2, CancelOn DEF On
      <4> HIDE DEF c, halted
      <4> QED BY <4>1, <4>2, <3>2
    <3> QED BY <2>5, <3>1, <3>3
  <2> QED BY <1>2, <2>4, <2>5 DEF step_intention, q
<1> QED BY <1>1, <1>2

LEMMA ReleasesGoing ==
  ASSUME NEW b, Going(b), NEW a \in dispatch_keyboard_releases(b)
  PROVE  Going(a)
<1> DEFINE F(x, o) == {dispatch_keyboard_release(x, o)}
           T == IF 1 \in Owner THEN F(b, 1) ELSE {b}
<1>1. a \in UNION {IF 2 \in Owner THEN F(x, 2) ELSE {x} : x \in T}
  BY DEF dispatch_keyboard_releases, ForEachOwner
<1>2. \A x \in T : Going(x)
  BY ReleaseGoing
<1> HIDE DEF T
<1>3. PICK x \in T : a \in IF 2 \in Owner THEN F(x, 2) ELSE {x}
  BY <1>1
<1> QED BY <1>2, <1>3, ReleaseGoing

LEMMA IntentionsGoing ==
  ASSUME NEW b, Going(b), NEW a \in dispatch_intentions(b)
  PROVE  Going(a)
<1> DEFINE T == IF 1 \in Owner THEN step_intention(b, 1) ELSE {b}
<1>1. a \in UNION {IF 2 \in Owner THEN step_intention(x, 2) ELSE {x} : x \in T}
  BY DEF dispatch_intentions, ForEachOwner
<1>2. \A x \in T : Going(x)
  BY IntentionGoing
<1> HIDE DEF T
<1>3. PICK x \in T : a \in IF 2 \in Owner THEN step_intention(x, 2) ELSE {x}
  BY <1>1
<1> QED BY <1>2, <1>3, IntentionGoing

LEMMA UpdateSceneInv ==
  ASSUME InputsInv, UpdateScene  PROVE InputsInv'
<1>1. CASE ~native_network_authority_inputs_ready(bridge) \/ bridge.latched
  <2>1. bridge' = native_actor_fence_network_inputs(bridge, TRUE)
    BY <1>1 DEF UpdateScene, update_scene
  <2>2. Fenceable(bridge) /\ (bridge.commands.inputs_ready \/ Standing(bridge))
    BY FenceableOK DEF InputsInv, BridgeOK, Fenced
  <2>3. BridgeOK(bridge')
    BY <2>1, <2>2, FenceFacts
  <2> QED BY <2>3 DEF InputsInv
<1>2. CASE native_network_authority_inputs_ready(bridge) /\ ~bridge.latched
  <2>1. bridge' \in UNION {UNION {dispatch_intentions(r) : r \in dispatch_keyboard_releases(a)}
                             : a \in NextCommand(bridge)}
    BY <1>2 DEF UpdateScene, update_scene
  <2>2. PICK a \in NextCommand(bridge) :
          bridge' \in UNION {dispatch_intentions(r) : r \in dispatch_keyboard_releases(a)}
    BY <2>1
  <2>3. PICK r \in dispatch_keyboard_releases(a) : bridge' \in dispatch_intentions(r)
    BY <2>2
  <2>4. Going(bridge)
    BY <1>2 DEF InputsInv, Going
  <2>5. Going(a)
    BY <2>4, NextCommandGoing
  <2>6. Going(r)
    BY <2>5, ReleasesGoing
  <2>7. Going(bridge')
    BY <2>3, <2>6, IntentionsGoing
  <2> QED BY <2>7 DEF Going, InputsInv
<1> QED BY <1>1, <1>2

-----------------------------------------------------------------------------
(* The session around the scene                                            *)

\* A session that has failed keeps its inputs fenced.
LEMMA QuarantineFacts ==
  ASSUME NEW b, BridgeOK(b)
  PROVE  BridgeOK(quarantine(b, TRUE))
<1> DEFINE n == [b.net EXCEPT !.failed = TRUE, !.ready = FALSE]
           left == [b EXCEPT !.net = n]
           fenced == native_actor_fence_network_inputs(left, TRUE)
           e == fenced.commands.input_epoch
           m == [fenced.net EXCEPT !.fence_epoch = e]
<1>1. /\ b \in Bridge /\ n \in Net /\ ~n.ready /\ n.work = b.net.work /\ n.begun = b.net.begun
      /\ n.armed = b.net.armed /\ n.baseline = b.net.baseline
  BY DEF BridgeOK, Bridge, Net
<1>2. quarantine(b, TRUE) \in {b, left, FenceKept(left, TRUE)}
  <2>1. [b EXCEPT !.net.failed = TRUE, !.net.ready = FALSE] = left
    <3> DEFINE m1 == [b.net EXCEPT !.failed = TRUE]
    <3>1. b.net \in Net /\ b \in Bridge
      BY <1>1 DEF Bridge
    <3>2. n = [m1 EXCEPT !.ready = FALSE]
      BY <3>1 DEF Net
    <3> QED BY <3>1, <3>2 DEF Bridge, Net
  <2> HIDE DEF left
  <2> QED BY <2>1 DEF quarantine
<1> HIDE DEF n
<1>3. BridgeOK(left) /\ left.net = n
  <2>1. Ready(n) /\ (n.work = "resuming" => ~b.commands.inputs_ready)
    BY <1>1 DEF BridgeOK, Ready, Phases
  <2>2. Empty(b) \/ (n.armed /\ n.begun)
    BY <1>1 DEF BridgeOK, Based
  <2> QED BY <1>1, <2>1, <2>2, NetStep DEF Bridge
<1> HIDE DEF left
<1>4. BridgeOK(fenced) /\ fenced.net = n /\ ~fenced.commands.inputs_ready
  BY <1>3, FenceableOK, FenceFacts DEF BridgeOK, Fenced
<1>5. FenceKept(left, TRUE) = [fenced EXCEPT !.net = m]
  BY DEF FenceKept
<1> HIDE DEF fenced
<1>6. /\ m \in Net /\ ~m.ready /\ m.work = n.work /\ m.begun = n.begun /\ m.armed = n.armed
      /\ m.baseline = n.baseline
  <2>1. e \in Nat
    BY <1>4 DEF BridgeOK, Bridge, Policy
  <2> HIDE DEF e
  <2> QED BY <1>1, <1>4, <2>1 DEF Net
<1> HIDE DEF m
<1>7. BridgeOK([fenced EXCEPT !.net = m])
  <2>1. Ready(m) /\ (Empty(fenced) \/ (m.armed /\ m.begun)) /\ m.baseline = fenced.net.baseline
    BY <1>1, <1>4, <1>6 DEF BridgeOK, Based, Ready
  <2> QED BY <1>4, <1>6, <2>1, NetStep
<1> QED BY <1>2, <1>3, <1>5, <1>7

\* A fence that is remembered.
LEMMA FenceKeptFacts ==
  ASSUME NEW b, Fenceable(b), NEW stop \in BOOLEAN,
         (stop /\ b.commands.inputs_ready) \/ Standing(b)
  PROVE  /\ BridgeOK(FenceKept(b, stop)) /\ Empty(FenceKept(b, stop))
         /\ ~FenceKept(b, stop).commands.inputs_ready
         /\ FenceKept(b, stop).net.ready = b.net.ready
         /\ FenceKept(b, stop).net.work = b.net.work
<1> DEFINE fenced == native_actor_fence_network_inputs(b, stop)
           e == fenced.commands.input_epoch
           m == [fenced.net EXCEPT !.fence_epoch = e]
           a == [fenced EXCEPT !.net = m]
<1>1. BridgeOK(fenced) /\ fenced.net = b.net /\ ~fenced.commands.inputs_ready
  BY FenceFacts
<1>2. FenceKept(b, stop) = a
  BY DEF FenceKept
<1> HIDE DEF fenced
<1>3. Empty(fenced) /\ fenced \in Bridge /\ fenced.net \in Net /\ e \in Nat
  BY <1>1 DEF BridgeOK, Fenced, Bridge, Policy
<1> HIDE DEF e
<1>4. /\ m \in Net /\ m.ready = b.net.ready /\ m.work = b.net.work /\ m.armed = b.net.armed
      /\ m.begun = b.net.begun /\ m.baseline = b.net.baseline
  BY <1>1, <1>3 DEF Net
<1> HIDE DEF m
<1>5. BridgeOK(a)
  <2>1. Ready(m)
    BY <1>4 DEF Fenceable, Ready
  <2> QED BY <1>1, <1>3, <1>4, <2>1, NetStep
<1>6. a.net = m /\ a.commands = fenced.commands /\ a.detail = fenced.detail
  BY <1>3, <1>4 DEF Bridge
<1> HIDE DEF a
<1> QED BY <1>1, <1>2, <1>3, <1>4, <1>5, <1>6 DEF Empty

LEMMA QuarantineInv ==
  ASSUME InputsInv, Quarantine  PROVE InputsInv'
BY QuarantineFacts DEF InputsInv, Quarantine

LEMMA LinkInv ==
  ASSUME InputsInv, LinkLost \/ Reconnect  PROVE InputsInv'
<1> DEFINE n(l) == [bridge.net EXCEPT !.link = l]
<1>1. PICK l \in {"up", "silent", "down"} : bridge' = [bridge EXCEPT !.net = n(l)]
  BY DEF LinkLost, Reconnect
<1>2. /\ n(l) \in Net /\ n(l).ready = bridge.net.ready /\ n(l).work = bridge.net.work
      /\ n(l).armed = bridge.net.armed /\ n(l).begun = bridge.net.begun
      /\ n(l).baseline = bridge.net.baseline
  BY DEF InputsInv, BridgeOK, Bridge, Net
<1> HIDE DEF n
<1>3. BridgeOK([bridge EXCEPT !.net = n(l)])
  BY <1>2, NetStep DEF InputsInv, BridgeOK, Based, Phases, Ready
<1> QED BY <1>1, <1>3 DEF InputsInv

\* What is published, and what is latched, is not looked at.
LEMMA SameOK ==
  ASSUME NEW c, BridgeOK(c), NEW a \in Bridge, a.misgiven = c.misgiven, a.net = c.net,
         a.seen = c.seen, a.commands = c.commands, a.game = c.game, a.detail = c.detail,
         a.acts = c.acts
  PROVE  BridgeOK(a)
<1>1. a.misgiven = {} /\ Bindings(a) /\ Census(a)
  BY DEF BridgeOK, Bindings, Census
<1>2. Queued(a) /\ Retained(a)
  <2>1. \A q : Meant(a, q) <=> Meant(c, q)
    BY DEF Meant
  <2> QED BY <2>1 DEF BridgeOK, Queued, Retained, Carried
<1>3. Empty(a) <=> Empty(c)
  BY DEF Empty
<1>4. Based(a) /\ Phases(a)
  BY <1>3 DEF BridgeOK, Based, Phases
<1>5. Standing(c) => Standing(a)
  BY DEF Standing, Alive, Resolves
<1>6. Fenced(a)
  BY <1>3, <1>5 DEF BridgeOK, Fenced, Unsteered
<1> QED BY <1>1, <1>2, <1>4, <1>6 DEF BridgeOK

\* Nothing is published any more.
LEMMA UnpublishedFacts ==
  ASSUME NEW b, BridgeOK(b), Empty(b), ~b.net.ready
  PROVE  BridgeOK(Unpublished(b))
<1> DEFINE n == [b.net EXCEPT !.begun = FALSE]
           p == [c \in Creature |-> Unseen]
           c == [b EXCEPT !.net = n]
           a == [c EXCEPT !.published = p]
<1>1. /\ n \in Net /\ ~n.ready /\ n.work = b.net.work /\ n.baseline = b.net.baseline
  BY DEF BridgeOK, Bridge, Net
<1>2. Unpublished(b) = a
  BY DEF Unpublished, BridgeOK, Bridge
<1> HIDE DEF n
<1>3. BridgeOK(c)
  BY <1>1, NetStep DEF BridgeOK, Phases, Ready
<1> HIDE DEF c
<1>4. p \in [Creature -> Shown]
  BY ConstantFacts
<1> HIDE DEF p
<1>5. /\ a \in Bridge /\ a.misgiven = c.misgiven /\ a.net = c.net /\ a.seen = c.seen
      /\ a.commands = c.commands /\ a.game = c.game /\ a.detail = c.detail /\ a.acts = c.acts
  BY <1>3, <1>4 DEF BridgeOK, Bridge
<1> HIDE DEF a
<1>6. BridgeOK(a)
  BY <1>3, <1>5, SameOK
<1> QED BY <1>2, <1>6

LEMMA ConnectionLostInv ==
  ASSUME InputsInv, ConnectionLost  PROVE InputsInv'
<1> DEFINE b == bridge
           n == [b.net EXCEPT !.link = "down"]
           lost == [b EXCEPT !.net.link = "down"]
           m == [n EXCEPT !.ready = FALSE]
           waiting == [lost EXCEPT !.net.ready = FALSE]
           left == IF b.net.armed THEN FenceKept(waiting, TRUE) ELSE waiting
<1>1. BridgeOK(b) /\ b \in Bridge /\ b.net \in Net
  BY DEF InputsInv, BridgeOK, Bridge
<1>2. /\ n \in Net /\ n.ready = b.net.ready /\ n.work = b.net.work
      /\ n.armed = b.net.armed /\ n.begun = b.net.begun /\ n.baseline = b.net.baseline
  BY <1>1 DEF Net
<1>3. /\ m \in Net /\ ~m.ready /\ m.work = b.net.work
      /\ m.armed = b.net.armed /\ m.begun = b.net.begun /\ m.baseline = b.net.baseline
  BY <1>1 DEF Net
<1>4. bridge' = IF b.net.work # "idle" THEN quarantine(lost, TRUE) ELSE Unpublished(left)
  BY DEF ConnectionLost, connection_lost
<1>5. lost = [b EXCEPT !.net = n] /\ waiting = [b EXCEPT !.net = m]
  <2>1. lost = [b EXCEPT !.net = n]
    OBVIOUS
  <2>2. waiting = [lost EXCEPT !.net = [lost.net EXCEPT !.ready = FALSE]]
    OBVIOUS
  <2> HIDE DEF n, lost, waiting
  <2>3. lost.net = n
    BY <1>1, <2>1 DEF Bridge
  <2> QED BY <1>1, <2>1, <2>2, <2>3 DEF Bridge
<1> HIDE DEF n, m
<1> HIDE DEF lost, waiting
<1>6. BridgeOK(lost) /\ BridgeOK(waiting) /\ waiting.net = m
  <2>1. BridgeOK(lost)
    BY <1>1, <1>2, <1>5, NetStep DEF BridgeOK, Based, Phases, Ready
  <2>2. BridgeOK(waiting)
    BY <1>1, <1>3, <1>5, NetStep DEF BridgeOK, Based, Phases, Ready
  <2>3. waiting.net = m
    BY <1>1, <1>5 DEF Bridge
  <2> QED BY <2>1, <2>2, <2>3
<1>7. BridgeOK(left) /\ Empty(left) /\ ~left.net.ready
  <2>1. CASE b.net.armed
    <3>1. Fenceable(waiting) /\ (waiting.commands.inputs_ready \/ Standing(waiting))
      BY <1>6, FenceableOK DEF BridgeOK, Fenced
    <3> QED BY <1>3, <1>6, <2>1, <3>1, FenceKeptFacts
  <2>2. CASE ~b.net.armed
    <3>1. ~waiting.net.armed
      BY <1>3, <1>6, <2>2
    <3> QED BY <1>3, <1>6, <2>2, <3>1 DEF BridgeOK, Based
  <2> QED BY <2>1, <2>2
<1> HIDE DEF left
<1>8. BridgeOK(bridge')
  BY <1>4, <1>6, <1>7, QuarantineFacts, UnpublishedFacts
<1> QED BY <1>8 DEF InputsInv

LEMMA BeginTransferInv ==
  ASSUME InputsInv, BeginTransfer  PROVE InputsInv'
<1> DEFINE b == bridge
           n == [b.net EXCEPT !.ready = FALSE, !.work = "paused"]
           waiting == [b EXCEPT !.net = n]
           held == native_actor_fence_network_inputs(waiting, TRUE)
           e == held.commands.input_epoch
           m == [held.net EXCEPT !.pause_epoch = e]
           a == [held EXCEPT !.net = m]
<1>1. BridgeOK(b) /\ b \in Bridge /\ b.net \in Net
  BY DEF InputsInv, BridgeOK, Bridge
<1>2. /\ n \in Net /\ ~n.ready /\ n.work = "paused"
      /\ n.armed = b.net.armed /\ n.begun = b.net.begun /\ n.baseline = b.net.baseline
  BY <1>1 DEF Net
<1>3. [b EXCEPT !.net.ready = FALSE, !.net.work = "paused"] = waiting
  <2> DEFINE m1 == [b.net EXCEPT !.ready = FALSE]
  <2>1. n = [m1 EXCEPT !.work = "paused"]
    BY <1>1 DEF Net
  <2> QED BY <1>1, <2>1 DEF Bridge, Net
<1> HIDE DEF n, waiting
<1>4. bridge' \in {a, quarantine(waiting, TRUE)}
  BY <1>3 DEF BeginTransfer, begin_transfer
<1>5. BridgeOK(waiting) /\ waiting.net = n
  BY <1>1, <1>2, NetStep DEF waiting, BridgeOK, Bridge, Based, Phases, Ready
<1>6. BridgeOK(held) /\ held.net = n /\ ~held.commands.inputs_ready
  BY <1>5, FenceableOK, FenceFacts DEF BridgeOK, Fenced
<1> HIDE DEF held
<1>7. Empty(held) /\ held \in Bridge /\ e \in Nat
  BY <1>6 DEF BridgeOK, Fenced, Bridge, Policy
<1> HIDE DEF e
<1>8. /\ m \in Net /\ ~m.ready /\ m.work = "paused" /\ m.baseline = held.net.baseline
  BY <1>2, <1>6, <1>7 DEF Net
<1> HIDE DEF m
<1>9. BridgeOK(a)
  BY <1>6, <1>7, <1>8, NetStep DEF Ready
<1> HIDE DEF a
<1>10. BridgeOK(bridge')
  BY <1>4, <1>5, <1>9, QuarantineFacts
<1> QED BY <1>10 DEF InputsInv

LEMMA ReleaseTransferPauseInv ==
  ASSUME InputsInv, ReleaseTransferPause  PROVE InputsInv'
<1> DEFINE b == bridge
           k == resume_inputs(b.commands)
           n == [b.net EXCEPT !.work = "resuming", !.pause_epoch = 0]
           r == [b EXCEPT !.commands = k, !.net = n]
<1>1. BridgeOK(b) /\ b \in Bridge /\ b.net \in Net /\ b.commands \in Policy
  BY DEF InputsInv, BridgeOK, Bridge
<1>2. CASE ~may_resume(b, b.net.pause_epoch)
  BY <1>1, <1>2, QuarantineFacts DEF ReleaseTransferPause, release_transfer_pause, InputsInv
<1>3. CASE may_resume(b, b.net.pause_epoch)
  <2>1. /\ n \in Net /\ ~n.ready
    BY <1>1 DEF Net, ReleaseTransferPause, BridgeOK, Phases, Ready
  <2>2. [b EXCEPT !.commands = resume_inputs(@), !.net.work = "resuming", !.net.pause_epoch = 0] = r
    <3> DEFINE m1 == [b.net EXCEPT !.work = "resuming"]
    <3>1. n = [m1 EXCEPT !.pause_epoch = 0]
      BY <1>1 DEF Net
    <3> HIDE DEF k
    <3> QED BY <1>1, <3>1 DEF Bridge, Net, k
  <2>3. bridge' = FenceKept(r, FALSE)
    BY <1>3, <2>2 DEF ReleaseTransferPause, release_transfer_pause
  <2>4. k \in Policy /\ k.bound = b.commands.bound
    BY <1>1 DEF Policy, resume_inputs
  <2> HIDE DEF n, k
  <2>5. /\ r \in Bridge /\ r.misgiven = b.misgiven /\ r.net = n /\ r.seen = b.seen
        /\ r.commands = k /\ r.game = b.game /\ r.detail = b.detail /\ r.acts = b.acts
    BY <1>1, <2>1, <2>4 DEF Bridge
  <2> HIDE DEF r
  <2>6. Fenceable(r)
    BY <1>1, <2>1, <2>4, <2>5 DEF Fenceable, BridgeOK, Bindings, Census, Ready
  <2>7. Standing(b)
    BY <1>1, <1>3 DEF BridgeOK, Fenced, may_resume, may_resume_inputs
  <2>8. Standing(r)
    BY <2>4, <2>5, <2>7 DEF Standing, Alive, Resolves
  <2>9. BridgeOK(bridge')
    BY <2>3, <2>6, <2>8, FenceKeptFacts
  <2> QED BY <2>9 DEF InputsInv
<1> QED BY <1>2, <1>3

LEMMA FinishTransferResumeInv ==
  ASSUME InputsInv, FinishTransferResume  PROVE InputsInv'
<1> DEFINE b == bridge
           n == [b.net EXCEPT !.work = "idle"]
           c == [b EXCEPT !.net = n]
<1>1. BridgeOK(b) /\ b \in Bridge /\ b.net \in Net /\ Empty(b) /\ ~b.net.ready
  BY DEF InputsInv, BridgeOK, Bridge, FinishTransferResume, Phases, Ready, Fenced
<1>2. /\ n \in Net /\ ~n.ready /\ n.work = "idle" /\ n.baseline = b.net.baseline
  BY <1>1 DEF Net
<1>3. bridge' = Unpublished(c)
  BY DEF FinishTransferResume, finish_transfer_resume
<1> HIDE DEF n
<1>4. BridgeOK(c) /\ c.net = n /\ c.commands = b.commands /\ c.detail = b.detail
  BY <1>1, <1>2, NetStep DEF Bridge, Ready
<1> HIDE DEF c
<1>5. Empty(c)
  BY <1>1, <1>4 DEF Empty
<1>6. BridgeOK(bridge')
  BY <1>2, <1>3, <1>4, <1>5, UnpublishedFacts
<1> QED BY <1>6 DEF InputsInv

\* A scene that is published: the census is that of the capture, and a new
\* baseline finds nothing waiting.
LEMMA PublishSceneInv ==
  ASSUME InputsInv, PublishScene  PROVE InputsInv'
<1> DEFINE b == bridge
           seen == capture_native_scene(b)
           shown == [c \in Creature |-> IF seen[c] = 0 THEN Unseen
                       ELSE [generation |-> seen[c], life |-> b.game[c].life]]
           next == IF b.net.begun THEN b.net.baseline ELSE b.net.baseline + 1
           n == [b.net EXCEPT !.begun = TRUE, !.baseline = next]
           based == [b EXCEPT !.net = n]
           sent == [b EXCEPT !.seen = seen, !.net = n, !.published = shown]
<1>1. BridgeOK(b) /\ b \in Bridge /\ b.net \in Net /\ b.net.work = "idle"
  BY DEF InputsInv, BridgeOK, Bridge, PublishScene
<1>2. CASE CaptureFails(b)
  BY <1>1, <1>2, QuarantineFacts DEF PublishScene, publish_scene, InputsInv
<1>3. CASE ~CaptureFails(b)
  <2>1. /\ n \in Net /\ n.begun /\ n.ready = b.net.ready /\ n.work = "idle"
        /\ n.armed = b.net.armed /\ n.fence_epoch = b.net.fence_epoch
        /\ (b.net.begun => n.baseline = b.net.baseline)
    <3>1. next \in Nat /\ (b.net.begun => next = b.net.baseline)
      BY <1>1 DEF Net
    <3> HIDE DEF next
    <3> QED BY <1>1, <3>1 DEF Net
  <2>2. [b EXCEPT !.seen = seen, !.net.begun = TRUE,
                  !.net.baseline = IF b.net.begun THEN @ ELSE @ + 1, !.published = shown] = sent
    <3> DEFINE m == [b.net EXCEPT !.begun = TRUE]
    <3>1. n = [m EXCEPT !.baseline = IF b.net.begun THEN b.net.baseline ELSE b.net.baseline + 1]
      BY <1>1 DEF Net
    <3> HIDE DEF seen, shown
    <3> QED BY <1>1, <3>1 DEF Bridge, Net
  <2>3. bridge' = IF b.net.begun THEN sent ELSE end_scene_baseline(sent)
    <3> HIDE DEF sent
    <3>1. bridge' = publish_scene(b)
      BY DEF PublishScene
    <3> QED BY <1>3, <2>2, <3>1 DEF publish_scene
  <2>4. /\ seen \in [Creature -> Nat]
        /\ \A c \in Creature : seen[c] # 0 => seen[c] = b.game[c].born /\ b.game[c].life # "gone"
    BY <1>1, NounFields DEF capture_native_scene
  <2>5. shown \in [Creature -> Shown]
    <3>1. \A c \in Creature : b.game[c].life \in Life /\ seen[c] \in Nat
      BY <1>1, <2>4, NounFields
    <3>2. \A c \in Creature : shown[c] \in Shown
      <4> HIDE DEF seen
      <4> QED BY <3>1, ConstantFacts DEF Shown
    <3> HIDE DEF seen
    <3> QED BY <3>2
  <2> HIDE DEF n, seen, shown
  <2>6. BridgeOK(based)
    <3>1. n.baseline = b.net.baseline \/ Empty(b)
      BY <1>1, <2>1 DEF BridgeOK, Based
    <3>2. Empty(b) \/ (n.armed /\ n.begun)
      BY <1>1, <2>1 DEF BridgeOK, Based
    <3>3. Ready(n)
      BY <1>1, <2>1 DEF BridgeOK, Phases, Ready
    <3> QED BY <1>1, <2>1, <3>1, <3>2, <3>3, NetStep
  <2>7. /\ based \in Bridge /\ based.commands = b.commands /\ based.game = b.game
        /\ based.acts = b.acts /\ based.detail = b.detail /\ based.net = n
        /\ based.misgiven = b.misgiven
    BY <1>1, <2>1 DEF Bridge
  <2>8. /\ sent \in Bridge /\ sent.commands = based.commands /\ sent.game = based.game
        /\ sent.acts = based.acts /\ sent.detail = based.detail /\ sent.net = based.net
        /\ sent.misgiven = based.misgiven /\ sent.seen = seen
    BY <1>1, <2>1, <2>4, <2>5, <2>7 DEF Bridge
  <2> HIDE DEF based, sent
  <2>9. BridgeOK(sent)
    <3>2. Census(sent) /\ Bindings(sent) /\ sent.misgiven = {}
      BY <2>4, <2>6, <2>7, <2>8 DEF BridgeOK, Census, Bindings
    <3>3. \A q : Meant(sent, q) <=> Meant(based, q)
      BY <2>8 DEF Meant
    <3>4. Queued(sent) /\ Retained(sent)
      BY <2>6, <2>8, <3>3 DEF BridgeOK, Queued, Retained, Carried
    <3>5. Empty(sent) <=> Empty(based)
      BY <2>8 DEF Empty
    <3>6. Based(sent) /\ Phases(sent)
      BY <2>6, <2>8, <3>5 DEF BridgeOK, Based, Phases
    <3>7. Standing(based) => Standing(sent)
      BY <2>8 DEF Standing, Alive, Resolves
    <3>8. Fenced(sent)
      BY <2>6, <2>8, <3>5, <3>7 DEF BridgeOK, Fenced, Unsteered
    <3> QED BY <2>8, <3>2, <3>4, <3>6, <3>8 DEF BridgeOK
  <2>10. CASE b.net.begun
    BY <2>3, <2>9, <2>10 DEF InputsInv
  <2>11. CASE ~b.net.begun
    <3> DEFINE k == IF sent.net.fence_epoch # 0 THEN resume_inputs(sent.commands) ELSE sent.commands
               m == [sent.net EXCEPT !.armed = TRUE, !.ready = TRUE, !.fence_epoch = 0]
               a == [sent EXCEPT !.net = m, !.commands = k]
    <3>1. Empty(sent)
      BY <1>1, <2>7, <2>8, <2>11 DEF BridgeOK, Based, Empty
    <3>2. sent.net \in Net /\ sent.commands \in Policy
      BY <2>8 DEF Bridge
    <3>3. /\ m \in Net /\ m.armed /\ m.begun /\ m.ready /\ m.work = "idle"
          /\ m.baseline = sent.net.baseline
      BY <2>1, <2>7, <2>8, <3>2 DEF Net
    <3>4. k \in Policy /\ k.bound = sent.commands.bound /\ k.queue = sent.commands.queue
          /\ (k.inputs_ready \/ k = sent.commands)
      BY <3>2 DEF Policy, resume_inputs
    <3>5. [sent EXCEPT !.net.armed = TRUE, !.net.ready = TRUE, !.net.fence_epoch = 0,
             !.commands = IF sent.net.fence_epoch # 0 THEN resume_inputs(@) ELSE @] = a
      <4> DEFINE m1 == [sent.net EXCEPT !.armed = TRUE]
                 m2 == [m1 EXCEPT !.ready = TRUE]
      <4>1. m = [m2 EXCEPT !.fence_epoch = 0]
        BY <3>2 DEF Net
      <4> QED BY <2>8, <3>2, <4>1 DEF Bridge, Net
    <3>6. end_scene_baseline(sent) \in {quarantine(sent, TRUE), a}
      <4> HIDE DEF a
      <4> QED BY <3>5 DEF end_scene_baseline
    <3> HIDE DEF m, k
    <3>7. /\ a \in Bridge /\ a.commands = k /\ a.game = sent.game /\ a.acts = sent.acts
          /\ a.detail = sent.detail /\ a.net = m /\ a.misgiven = sent.misgiven
          /\ a.seen = sent.seen
      BY <2>8, <3>3, <3>4 DEF Bridge
    <3> HIDE DEF a
    <3>8. Empty(a) /\ a.misgiven = {} /\ Bindings(a) /\ Census(a)
      BY <2>9, <3>1, <3>4, <3>7 DEF Empty, BridgeOK, Bindings, Census
    <3>9. Queued(a) /\ Retained(a) /\ Based(a) /\ Phases(a)
      BY <3>3, <3>7, <3>8 DEF Empty, Queued, Retained, Carried, Based, Phases, Ready
    <3>10. Standing(sent) => Standing(a)
      BY <3>4, <3>7 DEF Standing, Alive, Resolves
    <3>11. Fenced(a)
      BY <2>9, <3>4, <3>7, <3>8, <3>10 DEF BridgeOK, Fenced, Unsteered
    <3>12. BridgeOK(a)
      BY <3>7, <3>8, <3>9, <3>11 DEF BridgeOK
    <3> QED BY <2>3, <2>9, <2>11, <3>6, <3>12, QuarantineFacts DEF InputsInv
  <2> QED BY <2>10, <2>11
<1> QED BY <1>2, <1>3

-----------------------------------------------------------------------------
(* An action is admitted                                                   *)

LEMMA AuthorityActionInv ==
  ASSUME InputsInv, NEW o \in Owner, NEW verb \in Verbs[o], NEW c \in Creature \cup {Nobody},
         (verb \in targets_creature) = (c # Nobody), AuthorityAction(o, verb, c)
  PROVE  InputsInv'
<1> DEFINE b == bridge
           k == IF verb \in targets_creature THEN bind(b.commands, c, b.game[c].born)
                ELSE b.commands
<1>1. PICK baseline \in 1..b.net.baseline, of \in 1..b.game[o].born,
           at \in IF c = Nobody THEN {0} ELSE 1..b.game[c].born :
        /\ ~action_refused(b, o, baseline, of) /\ ~target_refused(b, verb, c, at)
        /\ bridge' = native_actor_network_command(b, o, verb, c,
                       [baseline |-> baseline, of |-> of, at |-> at])
  BY DEF AuthorityAction
<1> DEFINE named == [baseline |-> baseline, of |-> of, at |-> at]
           q == [NoCommand EXCEPT !.owner = o, !.verb = verb, !.actor = k.bound[o],
                                  !.target = c, !.aim = IF c = Nobody THEN 0 ELSE k.bound[c],
                                  !.named = named]
           queued == [q EXCEPT !.input_epoch = k.input_epoch, !.sequence = k.next_sequence + 1]
           m == [k EXCEPT !.queue = Append(@, queued), !.next_sequence = @ + 1]
           a == [b EXCEPT !.commands = m]
<1>2. /\ BridgeOK(b) /\ b \in Bridge /\ b.net \in Net /\ b.commands \in Policy
      /\ o \in Creature /\ verb \in Verb
  BY ConstantFacts DEF InputsInv, BridgeOK, Bridge
<1>3. CASE bridge' = b
  BY <1>2, <1>3 DEF InputsInv
<1>4. CASE b.commands.inputs_ready /\ Alive(b, o) /\ bridge' = a
  <2>1. /\ b.net.ready /\ b.net.armed /\ b.net.begun /\ baseline = b.net.baseline
        /\ of = b.game[o].born /\ b.commands.bound[o] = of
    <3>1. /\ b.net.ready /\ baseline = b.net.baseline /\ b.seen[o] = of /\ of # 0
      BY <1>1 DEF action_refused, Unchanged
    <3> QED BY <1>2, <1>4, <3>1 DEF BridgeOK, Phases, Ready, Census, Bindings, Alive, Resolves
  <2>2. ASSUME verb \in targets_creature
        PROVE  /\ c \in Creature /\ c \notin Owner /\ at = b.game[c].born /\ at # 0
               /\ b.game[c].life # "gone"
    <3>1. c \in Creature /\ c # Nobody
      BY <2>2
    <3>2. /\ c \notin Owner /\ b.published[c].generation = at /\ Unchanged(b, c)
      BY <1>1, <2>2 DEF target_refused
    <3>3. b.seen[c] = at /\ at # 0
      BY <3>2 DEF Unchanged
    <3> QED BY <1>2, <3>1, <3>2, <3>3 DEF BridgeOK, Census
  <2>3. /\ k \in Policy /\ k.queue = b.commands.queue /\ k.inputs_ready = b.commands.inputs_ready
        /\ k.bound[o] = b.commands.bound[o]
        /\ \A e \in Creature : k.bound[e] = b.commands.bound[e]
                               \/ (verb \in targets_creature /\ e = c /\ k.bound[e] = b.game[e].born)
        /\ (verb \in targets_creature => k.bound[c] = b.game[c].born)
    <3>1. CASE verb \notin targets_creature \/ b.commands.bound[c] # 0
      <4>1. k = b.commands
        BY <3>1 DEF bind
      <4>2. verb \in targets_creature => b.commands.bound[c] = b.game[c].born
        BY <1>2, <2>2, <3>1 DEF BridgeOK, Bindings
      <4> QED BY <1>2, <4>1, <4>2
    <3>2. CASE verb \in targets_creature /\ b.commands.bound[c] = 0
      <4>1. b.game[c].born \in Nat
        BY <1>2, <2>2, <3>2, NounFields
      <4>2. k = [b.commands EXCEPT !.bound = [b.commands.bound EXCEPT ![c] = b.game[c].born]]
        BY <3>2 DEF bind
      <4>3. b.commands.bound \in [Creature -> Nat]
        BY <1>2 DEF Policy
      <4> HIDE DEF k
      <4> QED BY <1>2, <2>2, <3>2, <4>1, <4>2, <4>3 DEF Policy
    <3> QED BY <3>1, <3>2
  <2> HIDE DEF k
  <2>4. /\ queued \in Command /\ queued.owner = o /\ queued.verb = verb
        /\ queued.actor = k.bound[o] /\ queued.target = c /\ queued.named = named
        /\ (verb \in targets_creature => queued.aim = k.bound[c])
    <3>1. k.bound[o] \in Nat /\ k.input_epoch \in Nat /\ k.next_sequence + 1 \in Nat
          /\ (c \in Creature => k.bound[c] \in Nat)
      BY <1>2, <2>3 DEF Policy
    <3>2. baseline \in Nat /\ of \in Nat /\ at \in Nat
      BY <1>2, NounFields DEF Net
    <3>3. named \in Named
      BY <3>2 DEF Named
    <3> HIDE DEF named
    <3> DEFINE aim == IF c = Nobody THEN 0 ELSE k.bound[c]
    <3>4. aim \in Nat /\ (verb \in targets_creature => aim = k.bound[c])
      BY <3>1
    <3> HIDE DEF aim
    <3>5. NoCommand \in Command
      BY ConstantFacts
    <3>6. q = [NoCommand EXCEPT !.owner = o, !.verb = verb, !.actor = k.bound[o], !.target = c,
                                !.aim = aim, !.named = named]
      BY DEF aim
    <3> HIDE DEF q
    <3>7. /\ q \in Command /\ q.owner = o /\ q.verb = verb /\ q.actor = k.bound[o]
          /\ q.target = c /\ q.aim = aim /\ q.named = named
      BY <1>2, <3>1, <3>3, <3>4, <3>5, <3>6 DEF Command
    <3> QED BY <3>1, <3>4, <3>7 DEF Command
  <2>5. named.baseline = baseline /\ named.of = of /\ named.at = at
    OBVIOUS
  <2> HIDE DEF queued, named
  <2>6. /\ m \in Policy /\ m.bound = k.bound /\ m.inputs_ready
        /\ m.queue \in Seq(Command) /\ m.queue = Append(b.commands.queue, queued)
    <3> DEFINE longer == Append(k.queue, queued)
               next == k.next_sequence + 1
    <3>1. /\ longer \in Seq(Command) /\ longer = Append(b.commands.queue, queued) /\ next \in Nat
          /\ k.inputs_ready
      BY <1>4, <2>3, <2>4 DEF Policy
    <3>2. m = [k EXCEPT !.queue = longer, !.next_sequence = next]
      OBVIOUS
    <3> HIDE DEF longer, next, m
    <3> QED BY <2>3, <3>1, <3>2 DEF Policy
  <2> HIDE DEF m
  <2>7. /\ a \in Bridge /\ a.misgiven = {} /\ a.net = b.net /\ a.seen = b.seen
        /\ a.commands = m /\ a.game = b.game /\ a.detail = b.detail
    BY <1>2, <2>6 DEF Bridge, BridgeOK
  <2> HIDE DEF a
  <2>8. Meant(a, queued)
    BY <2>1, <2>2, <2>3, <2>4, <2>5, <2>7 DEF Meant
  <2>9. Bindings(a) /\ Census(a)
    BY <1>2, <2>2, <2>3, <2>6, <2>7 DEF BridgeOK, Bindings, Census
  <2>10. \A p : Meant(a, p) <=> Meant(b, p)
    BY <2>7 DEF Meant
  <2>11. Queued(a)
    <3>1. b.commands.queue \in Seq(Command)
      BY <1>2 DEF Policy
    <3>2. \A i \in DOMAIN m.queue : m.queue[i] = queued \/ (i \in DOMAIN b.commands.queue
                                                            /\ m.queue[i] = b.commands.queue[i])
      BY <2>4, <2>6, <3>1
    <3> QED BY <1>2, <2>7, <2>8, <2>10, <3>2 DEF BridgeOK, Queued
  <2>12. Retained(a) /\ Based(a) /\ Phases(a) /\ Fenced(a)
    <3>1. b.net.work # "resuming"
      BY <1>2, <2>1 DEF BridgeOK, Phases, Ready
    <3> QED BY <1>2, <2>1, <2>6, <2>7, <2>10, <3>1
         DEF BridgeOK, Retained, Carried, Based, Phases, Ready, Fenced
  <2> QED BY <1>4, <2>7, <2>9, <2>11, <2>12 DEF InputsInv, BridgeOK
<1>5. bridge' = b \/ (b.commands.inputs_ready /\ Alive(b, o) /\ bridge' = a)
  <2> HIDE DEF k, named
  <2>1. native_actor_network_command(b, o, verb, c, named)
          = IF b.commands.inputs_ready /\ Alive(b, o) /\ may_enqueue(k, q)
            THEN [b EXCEPT !.commands = enqueue(k, q)] ELSE b
    BY DEF native_actor_network_command, k
  <2>2. enqueue(k, q) = m
    BY DEF enqueue
  <2> HIDE DEF m, q
  <2> QED BY <1>1, <2>1, <2>2 DEF named
<1> QED BY <1>3, <1>4, <1>5

-----------------------------------------------------------------------------
(* What happens to the creatures and to the scene                          *)

LEMMA LandInv ==
  ASSUME InputsInv, NEW o \in Owner, Land(o)  PROVE InputsInv'
<1> DEFINE b == bridge
           act == [b.acts[o] EXCEPT !.air = FALSE]
           d == [b.detail[o] EXCEPT !.jump_command = 0]
           x == [b.acts EXCEPT ![o] = act]
           y == [b.detail EXCEPT ![o] = d]
           a == [b EXCEPT !.acts = x, !.detail = y]
<1>1. BridgeOK(b) /\ b \in Bridge /\ b.acts \in [Owner -> Acts] /\ b.detail \in [Owner -> Detail]
  BY DEF InputsInv, BridgeOK, Bridge
<1>2. /\ act \in Acts /\ (Quiet(b.acts[o]) => Quiet(act))
      /\ d \in Detail /\ d.intention = b.detail[o].intention /\ d.steering = b.detail[o].steering
  BY <1>1 DEF Acts, Quiet, Detail
<1>3. bridge' = a
  BY DEF Land
<1> HIDE DEF act, d
<1>4. /\ x \in [Owner -> Acts] /\ y \in [Owner -> Detail]
      /\ \A p \in Owner : /\ Quiet(b.acts[p]) => Quiet(x[p])
                          /\ y[p].intention = b.detail[p].intention
                          /\ y[p].steering = b.detail[p].steering
  BY <1>1, <1>2
<1> HIDE DEF x, y
<1>5. /\ a \in Bridge /\ a.misgiven = {} /\ a.net = b.net /\ a.seen = b.seen
      /\ a.commands = b.commands /\ a.game = b.game /\ a.detail = y /\ a.acts = x
  BY <1>1, <1>4 DEF BridgeOK, Bridge
<1> HIDE DEF a
<1>6. Bindings(a) /\ Census(a) /\ Phases(a)
  BY <1>1, <1>5 DEF BridgeOK, Bindings, Census, Phases
<1>7. \A q : Meant(a, q) <=> Meant(b, q)
  BY <1>5 DEF Meant
<1>8. Queued(a) /\ Retained(a)
  BY <1>1, <1>4, <1>5, <1>7 DEF BridgeOK, Queued, Retained, Carried
<1>9. Empty(a) <=> Empty(b)
  BY <1>4, <1>5 DEF Empty
<1>10. Standing(b) => Standing(a)
  BY <1>4, <1>5 DEF Standing, Alive, Resolves
<1>11. Based(a) /\ Fenced(a)
  BY <1>1, <1>4, <1>5, <1>9, <1>10 DEF BridgeOK, Based, Fenced, Unsteered
<1> QED BY <1>3, <1>5, <1>6, <1>8, <1>11 DEF InputsInv, BridgeOK

LEMMA RelationshipFailsInv ==
  ASSUME InputsInv, RelationshipFails  PROVE InputsInv'
<1>1. BridgeOK(bridge) /\ bridge' = [bridge EXCEPT !.latched = TRUE]
  BY DEF InputsInv, RelationshipFails
<1>2. /\ bridge' \in Bridge /\ bridge'.misgiven = bridge.misgiven /\ bridge'.net = bridge.net
      /\ bridge'.seen = bridge.seen /\ bridge'.commands = bridge.commands
      /\ bridge'.game = bridge.game /\ bridge'.detail = bridge.detail
      /\ bridge'.acts = bridge.acts
  BY <1>1 DEF BridgeOK, Bridge
<1> QED BY <1>1, <1>2, SameOK DEF InputsInv

\* Creatures die, are doomed, are destroyed and appear: the bindings, the census
\* and the owners' acts go with them.
LEMMA NounStep ==
  ASSUME NEW b, BridgeOK(b), NEW a \in Bridge, a.misgiven = b.misgiven, a.net = b.net,
         a.detail = b.detail, a.commands.queue = b.commands.queue,
         a.commands.inputs_ready = b.commands.inputs_ready, Bindings(a), Census(a),
         \A o \in Owner : Alive(a, o) =>
           Alive(b, o) /\ (Quiet(b.acts[o]) => Quiet(a.acts[o]))
  PROVE  BridgeOK(a)
<1>1. \A q : Meant(a, q) <=> Meant(b, q)
  BY DEF Meant
<1>2. Queued(a) /\ Retained(a) /\ Phases(a) /\ a.misgiven = {}
  BY <1>1 DEF BridgeOK, Queued, Retained, Carried, Phases
<1>3. Empty(a) <=> Empty(b)
  BY DEF Empty
<1>4. Standing(b) => Standing(a)
  BY DEF Standing
<1>5. Based(a) /\ Fenced(a)
  BY <1>3, <1>4 DEF BridgeOK, Based, Fenced, Unsteered
<1> QED BY <1>2, <1>5 DEF BridgeOK

Living(b, c, l) == [b.game EXCEPT ![c].life = l]

LEMMA LivingFacts ==
  ASSUME NEW b \in Bridge, NEW c \in Creature, NEW l \in Life
  PROVE  /\ Living(b, c, l) \in [Creature -> Noun] /\ Living(b, c, l)[c].life = l
         /\ Living(b, c, l)[c].born = b.game[c].born
         /\ \A e \in Creature : e # c => Living(b, c, l)[e] = b.game[e]
<1> DEFINE n == [b.game[c] EXCEPT !.life = l]
<1>1. b.game \in [Creature -> Noun] /\ b.game[c] \in Noun
  BY DEF Bridge
<1>2. n \in Noun /\ n.life = l /\ n.born = b.game[c].born
  BY <1>1 DEF Noun
<1>3. Living(b, c, l) = [b.game EXCEPT ![c] = n]
  BY DEF Living
<1> HIDE DEF n
<1> QED BY <1>1, <1>2, <1>3

LEMMA DieInv ==
  ASSUME InputsInv, NEW c \in Creature, Die(c)  PROVE InputsInv'
<1> DEFINE b == bridge
           g == Living(b, c, "dead")
           acts == [o \in Owner |-> IF o = c THEN [b.acts[o] EXCEPT !.walk = 0, !.target = FALSE]
                                    ELSE b.acts[o]]
           a == [b EXCEPT !.game = g, !.acts = acts]
<1>1. BridgeOK(b) /\ b \in Bridge /\ b.acts \in [Owner -> Acts]
  BY DEF InputsInv, BridgeOK, Bridge
<1>2. /\ g \in [Creature -> Noun] /\ g[c].life = "dead" /\ g[c].born = b.game[c].born
      /\ \A e \in Creature : e # c => g[e] = b.game[e]
  <2>1. "dead" \in Life
    BY DEF Life
  <2> QED BY <1>1, <2>1, LivingFacts
<1>3. /\ acts \in [Owner -> Acts]
      /\ \A o \in Owner : Quiet(b.acts[o]) => Quiet(acts[o])
  BY <1>1 DEF Acts, Quiet
<1>4. bridge' = a /\ b.game[c].life = "living"
  BY DEF Die, Living
<1> HIDE DEF g, acts
<1>5. /\ a \in Bridge /\ a.misgiven = b.misgiven /\ a.net = b.net /\ a.detail = b.detail
      /\ a.commands = b.commands /\ a.seen = b.seen /\ a.game = g /\ a.acts = acts
  BY <1>1, <1>2, <1>3 DEF Bridge
<1> HIDE DEF a
<1>6. Bindings(a) /\ Census(a)
  BY <1>1, <1>2, <1>4, <1>5 DEF BridgeOK, Bindings, Census
<1>7. \A o \in Owner : Alive(a, o) => Alive(b, o)
  BY <1>2, <1>4, <1>5, ConstantFacts DEF Alive, Resolves
<1>8. BridgeOK(a)
  BY <1>1, <1>3, <1>5, <1>6, <1>7, NounStep
<1> QED BY <1>4, <1>8 DEF InputsInv

LEMMA DoomInv ==
  ASSUME InputsInv, NEW c \in Creature, Doom(c)  PROVE InputsInv'
<1> DEFINE b == bridge
           g == Living(b, c, "doomed")
           a == [b EXCEPT !.game = g]
<1>1. BridgeOK(b) /\ b \in Bridge
  BY DEF InputsInv, BridgeOK
<1>2. /\ g \in [Creature -> Noun] /\ g[c].life = "doomed" /\ g[c].born = b.game[c].born
      /\ \A e \in Creature : e # c => g[e] = b.game[e]
  <2>1. "doomed" \in Life
    BY DEF Life
  <2> QED BY <1>1, <2>1, LivingFacts
<1>3. bridge' = a
  BY DEF Doom, Living
<1> HIDE DEF g
<1>4. /\ a \in Bridge /\ a.misgiven = b.misgiven /\ a.net = b.net /\ a.detail = b.detail
      /\ a.commands = b.commands /\ a.seen = b.seen /\ a.game = g /\ a.acts = b.acts
  BY <1>1, <1>2 DEF Bridge
<1> HIDE DEF a
<1>5. Bindings(a) /\ Census(a)
  BY <1>1, <1>2, <1>4 DEF BridgeOK, Bindings, Census
<1>6. \A o \in Owner : Alive(a, o) => Alive(b, o)
  BY <1>2, <1>4, ConstantFacts DEF Alive, Resolves
<1>7. BridgeOK(a)
  BY <1>1, <1>4, <1>5, <1>6, NounStep
<1> QED BY <1>3, <1>7 DEF InputsInv

LEMMA BindingRejectedInv ==
  ASSUME InputsInv, NEW o \in Owner, NEW call \in Call, BindingRejected(o, call)  PROVE InputsInv'
<1> DEFINE b == bridge
           act == [b.acts[o] EXCEPT !.refuses = @ \cup {call}]
           x == [b.acts EXCEPT ![o] = act]
           a == [b EXCEPT !.acts = x]
<1>1. BridgeOK(b) /\ b \in Bridge /\ b.acts \in [Owner -> Acts]
  BY DEF InputsInv, BridgeOK, Bridge
<1>2. act \in Acts /\ (Quiet(b.acts[o]) => Quiet(act))
  BY <1>1 DEF Acts, Quiet
<1>3. bridge' = a
  BY DEF BindingRejected
<1> HIDE DEF act
<1>4. x \in [Owner -> Acts] /\ \A p \in Owner : Quiet(b.acts[p]) => Quiet(x[p])
  BY <1>1, <1>2
<1> HIDE DEF x
<1>5. /\ a \in Bridge /\ a.misgiven = b.misgiven /\ a.net = b.net /\ a.detail = b.detail
      /\ a.commands = b.commands /\ a.seen = b.seen /\ a.game = b.game /\ a.acts = x
  BY <1>1, <1>4 DEF Bridge
<1> HIDE DEF a
<1>6. Bindings(a) /\ Census(a)
  BY <1>1, <1>5 DEF BridgeOK, Bindings, Census
<1>7. \A p \in Owner : Alive(a, p) => Alive(b, p)
  BY <1>5 DEF Alive, Resolves
<1>8. BridgeOK(a)
  BY <1>1, <1>4, <1>5, <1>6, <1>7, NounStep
<1> QED BY <1>3, <1>8 DEF InputsInv

LEMMA DestroyInv ==
  ASSUME InputsInv, NEW c \in Creature, Destroy(c)  PROVE InputsInv'
<1> DEFINE b == bridge
           g == Living(b, c, "gone")
           acts == [o \in Owner |-> IF o = c THEN Still ELSE b.acts[o]]
           seen == [b.seen EXCEPT ![c] = 0]
           k == invalidate(b.commands, c)
           r == [b EXCEPT !.seen = seen, !.commands = k]
           a == [r EXCEPT !.game = g, !.acts = acts]
<1>1. /\ BridgeOK(b) /\ b \in Bridge /\ b.acts \in [Owner -> Acts] /\ b.commands \in Policy
      /\ b.seen \in [Creature -> Nat]
  BY DEF InputsInv, BridgeOK, Bridge
<1>2. /\ g \in [Creature -> Noun] /\ g[c].life = "gone" /\ g[c].born = b.game[c].born
      /\ \A e \in Creature : e # c => g[e] = b.game[e]
  <2>1. "gone" \in Life
    BY DEF Life
  <2> QED BY <1>1, <2>1, LivingFacts
<1>3. /\ acts \in [Owner -> Acts]
      /\ \A o \in Owner : Quiet(b.acts[o]) => Quiet(acts[o])
  BY <1>1, ConstantFacts
<1>4. /\ seen \in [Creature -> Nat] /\ seen[c] = 0
      /\ \A e \in Creature : e # c => seen[e] = b.seen[e]
  BY <1>1
<1>5. /\ k \in Policy /\ k.queue = b.commands.queue /\ k.inputs_ready = b.commands.inputs_ready
      /\ k.bound[c] = 0 /\ \A e \in Creature : e # c => k.bound[e] = b.commands.bound[e]
  <2> DEFINE bound == [b.commands.bound EXCEPT ![c] = 0]
  <2>1. /\ bound \in [Creature -> Nat] /\ bound[c] = 0
        /\ \A e \in Creature : e # c => bound[e] = b.commands.bound[e]
    BY <1>1 DEF Policy
  <2>2. k = [b.commands EXCEPT !.bound = bound]
    BY DEF invalidate
  <2> HIDE DEF bound, k
  <2> QED BY <1>1, <2>1, <2>2 DEF Policy
<1>6. retire_native_incarnation(b, c) = r
  BY DEF retire_native_incarnation
<1> HIDE DEF seen, k
<1>7. /\ r \in Bridge /\ r.misgiven = b.misgiven /\ r.net = b.net /\ r.detail = b.detail
      /\ r.commands = k /\ r.seen = seen /\ r.game = b.game /\ r.acts = b.acts
  BY <1>1, <1>4, <1>5 DEF Bridge
<1> HIDE DEF r
<1>8. bridge' = a
  BY <1>6, <1>7 DEF Destroy, Living
<1> HIDE DEF g, acts
<1>9. /\ a \in Bridge /\ a.misgiven = b.misgiven /\ a.net = b.net /\ a.detail = b.detail
      /\ a.commands = k /\ a.seen = seen /\ a.game = g /\ a.acts = acts
  BY <1>2, <1>3, <1>7 DEF Bridge
<1> HIDE DEF a
<1>10. Bindings(a) /\ Census(a)
  BY <1>1, <1>2, <1>4, <1>5, <1>9 DEF BridgeOK, Bindings, Census
<1>11. \A o \in Owner : Alive(a, o) => Alive(b, o)
  BY <1>2, <1>5, <1>9, ConstantFacts DEF Alive, Resolves
<1>12. BridgeOK(a)
  BY <1>1, <1>3, <1>5, <1>9, <1>10, <1>11, NounStep
<1> QED BY <1>8, <1>12 DEF InputsInv

LEMMA AppearInv ==
  ASSUME InputsInv, NEW c \in Wild, Appear(c)  PROVE InputsInv'
<1> DEFINE b == bridge
           n == [born |-> b.game[c].born + 1, life |-> "living"]
           g == [b.game EXCEPT ![c] = n]
           a == [b EXCEPT !.game = g]
<1>1. /\ BridgeOK(b) /\ b \in Bridge /\ b.game \in [Creature -> Noun]
      /\ c \in Creature /\ c \notin Owner
  BY ConstantFacts DEF InputsInv, BridgeOK, Bridge
<1>2. bridge' = a /\ b.game[c].life = "gone"
  BY DEF Appear
<1>3. g \in [Creature -> Noun] /\ \A e \in Creature : e # c => g[e] = b.game[e]
  <2>1. n \in Noun
    BY <1>1, NounFields DEF Noun, Life
  <2> HIDE DEF n
  <2> QED BY <1>1, <2>1
<1> HIDE DEF g
<1>4. /\ a \in Bridge /\ a.misgiven = b.misgiven /\ a.net = b.net /\ a.detail = b.detail
      /\ a.commands = b.commands /\ a.seen = b.seen /\ a.game = g /\ a.acts = b.acts
  BY <1>1, <1>3 DEF Bridge
<1> HIDE DEF a
<1>5. Bindings(a) /\ Census(a)
  BY <1>1, <1>2, <1>3, <1>4 DEF BridgeOK, Bindings, Census
<1>6. \A o \in Owner : Alive(a, o) => Alive(b, o)
  BY <1>1, <1>3, <1>4, ConstantFacts DEF Alive, Resolves
<1>7. BridgeOK(a)
  BY <1>1, <1>4, <1>5, <1>6, NounStep
<1> QED BY <1>2, <1>7 DEF InputsInv

\* The scene is left: nothing of it stays, and the session has failed.
LEMMA LeaveSceneInv ==
  ASSUME InputsInv, LeaveScene  PROVE InputsInv'
<1> DEFINE b == bridge
           n == [b.net EXCEPT !.failed = TRUE, !.ready = FALSE]
           c == [b EXCEPT !.net = n]
           f == native_actor_fence_network_inputs(c, FALSE)
           m == [f.net EXCEPT !.fence_epoch = f.commands.input_epoch]
           left == quarantine(b, FALSE)
           k == scene_exit(left.commands)
           d == [o \in Owner |-> Idle]
           acts == [o \in Owner |-> Still]
           g == [e \in Creature |-> [left.game[e] EXCEPT !.life = "gone"]]
           seen == [e \in Creature |-> 0]
           a == [left EXCEPT !.commands = k, !.detail = d, !.acts = acts, !.game = g,
                             !.seen = seen]
<1>1. BridgeOK(b) /\ b \in Bridge /\ b.net \in Net
  BY DEF InputsInv, BridgeOK, Bridge
<1>2. /\ n \in Net /\ ~n.ready /\ n.work = b.net.work
  BY <1>1 DEF Net
<1>3. left = IF b.net.failed THEN b ELSE IF b.net.armed THEN [f EXCEPT !.net = m] ELSE c
  <2>1. [b EXCEPT !.net.failed = TRUE, !.net.ready = FALSE] = c
    <3> DEFINE m1 == [b.net EXCEPT !.failed = TRUE]
    <3>1. n = [m1 EXCEPT !.ready = FALSE]
      BY <1>1 DEF Net
    <3> QED BY <1>1, <3>1 DEF Bridge, Net
  <2>2. c.net.armed = b.net.armed
    BY <1>1 DEF Bridge, Net
  <2> HIDE DEF c
  <2>3. quarantine(b, FALSE) = IF b.net.failed THEN b
          ELSE IF b.net.armed THEN FenceKept(c, FALSE) ELSE c
    BY <2>1 DEF quarantine
  <2> QED BY <2>3 DEF FenceKept
<1> HIDE DEF n
<1>4. /\ c \in Bridge /\ c.net = n /\ c.misgiven = b.misgiven /\ c.commands = b.commands
  BY <1>1, <1>2 DEF Bridge
<1> HIDE DEF c
<1>5. f \in Bridge /\ f.net = n /\ f.misgiven = b.misgiven /\ ~f.commands.inputs_ready
  BY <1>4, FenceShape
<1> HIDE DEF f
<1>6. m \in Net /\ ~m.ready /\ m.work = n.work
  <2>1. f.commands.input_epoch \in Nat
    BY <1>5 DEF Bridge, Policy
  <2> QED BY <1>2, <1>5, <2>1 DEF Net
<1> HIDE DEF m
<1>7. [f EXCEPT !.net = m] \in Bridge /\ [f EXCEPT !.net = m].net = m
      /\ [f EXCEPT !.net = m].misgiven = f.misgiven
      /\ [f EXCEPT !.net = m].commands = f.commands
  BY <1>5, <1>6 DEF Bridge
<1> HIDE DEF left
<1>8. /\ left \in Bridge /\ left.misgiven = {} /\ Phases(left)
  BY <1>1, <1>2, <1>3, <1>4, <1>5, <1>6, <1>7 DEF BridgeOK, Phases, Ready
<1>9. /\ left.commands \in Policy /\ left.game \in [Creature -> Noun]
  BY <1>8 DEF Bridge
<1>10. /\ k \in Policy /\ k.queue = <<>> /\ k.inputs_ready = left.commands.inputs_ready
       /\ \A e \in Creature : k.bound[e] = 0
  <2>1. <<>> \in Seq(Command) /\ [e \in Creature |-> 0] \in [Creature -> Nat]
    OBVIOUS
  <2> QED BY <1>9, <2>1 DEF Policy, scene_exit
<1>11. /\ d \in [Owner -> Detail] /\ acts \in [Owner -> Acts] /\ seen \in [Creature -> Nat]
       /\ \A o \in Owner : /\ d[o].intention = NoCommand /\ d[o].steering = NoSteering
                           /\ Quiet(acts[o])
       /\ \A e \in Creature : seen[e] = 0
  BY ConstantFacts
<1>12. g \in [Creature -> Noun]
  <2>1. \A e \in Creature : left.game[e] \in Noun
    BY <1>9
  <2>2. \A e \in Creature : g[e] \in Noun
    BY <2>1 DEF Noun, Life
  <2> QED BY <2>2
<1>13. bridge' = a
  BY DEF LeaveScene, leave_scene, left
<1> HIDE DEF k, d, acts, g, seen
<1>14. /\ a \in Bridge /\ a.misgiven = {} /\ a.net = left.net /\ a.commands = k
       /\ a.detail = d /\ a.acts = acts /\ a.game = g /\ a.seen = seen
  BY <1>8, <1>10, <1>11, <1>12 DEF Bridge
<1> HIDE DEF a
<1>15. Empty(a) /\ Unsteered(a) /\ Standing(a)
  BY <1>10, <1>11, <1>14, ConstantFacts DEF Empty, Unsteered, Standing
<1>16. Bindings(a) /\ Census(a)
  BY <1>10, <1>11, <1>14 DEF Bindings, Census
<1>17. Queued(a) /\ Retained(a) /\ Based(a) /\ Fenced(a)
  BY <1>15 DEF Empty, Queued, Retained, Carried, Based, Fenced
<1>18. Phases(a)
  BY <1>8, <1>10, <1>14 DEF Phases
<1> QED BY <1>13, <1>14, <1>16, <1>17, <1>18 DEF InputsInv, BridgeOK

-----------------------------------------------------------------------------
(* The theorems                                                            *)

LEMMA InitInv ==
  ASSUME Init  PROVE InputsInv
<1> DEFINE bound == [c \in Creature |-> IF c \in Owner THEN 1 ELSE 0]
           d == [o \in Owner |-> Idle]
           acts == [o \in Owner |-> Still]
           g == [c \in Creature |-> [born |-> 1, life |-> "living"]]
           seen == [c \in Creature |-> 0]
           shown == [c \in Creature |-> Unseen]
           n == [armed |-> FALSE, ready |-> FALSE, link |-> "up", failed |-> FALSE,
                 begun |-> FALSE, work |-> "idle", baseline |-> 0, fence_epoch |-> 0,
                 pause_epoch |-> 0]
<1>1. bridge = [commands |-> NewCommands, detail |-> d, acts |-> acts, game |-> g,
                seen |-> seen, published |-> shown, net |-> n, latched |-> FALSE,
                misgiven |-> {}]
  BY DEF Init
<1>2. bound \in [Creature -> Nat] /\ \A c \in Creature : bound[c] \in {0, 1}
  OBVIOUS
<1>3. /\ NewCommands \in Policy /\ NewCommands.bound = bound /\ NewCommands.queue = <<>>
      /\ NewCommands.inputs_ready
  <2>1. NewCommands = [bound |-> bound, queue |-> <<>>, next_sequence |-> 0,
                       input_epoch |-> 1, inputs_ready |-> TRUE]
    BY DEF NewCommands
  <2> HIDE DEF bound
  <2> QED BY <1>2, <2>1 DEF Policy
<1>4. /\ d \in [Owner -> Detail] /\ acts \in [Owner -> Acts] /\ seen \in [Creature -> Nat]
      /\ shown \in [Creature -> Shown]
      /\ \A o \in Owner : d[o].intention = NoCommand
      /\ \A c \in Creature : seen[c] = 0
  BY ConstantFacts
<1>5. g \in [Creature -> Noun] /\ \A c \in Creature : g[c].born = 1 /\ g[c].life = "living"
  BY DEF Noun, Life
<1>6. n \in Net /\ ~n.ready /\ n.work = "idle"
  BY DEF Net
<1> HIDE DEF bound, d, acts, g, seen, shown, n
<1>7. /\ bridge \in Bridge /\ bridge.misgiven = {} /\ bridge.net = n
      /\ bridge.commands = NewCommands /\ bridge.detail = d /\ bridge.game = g
      /\ bridge.seen = seen
  BY <1>1, <1>3, <1>4, <1>5, <1>6 DEF Bridge
<1>8. Empty(bridge)
  BY <1>3, <1>4, <1>7, ConstantFacts DEF Empty
<1>9. Bindings(bridge) /\ Census(bridge)
  BY <1>2, <1>3, <1>4, <1>5, <1>7 DEF Bindings, Census
<1>10. Queued(bridge) /\ Retained(bridge) /\ Based(bridge)
  BY <1>8 DEF Empty, Queued, Retained, Carried, Based
<1>11. Phases(bridge) /\ Fenced(bridge)
  BY <1>3, <1>6, <1>7 DEF Phases, Ready, Fenced
<1> QED BY <1>7, <1>9, <1>10, <1>11 DEF InputsInv, BridgeOK

LEMMA InputsStep ==
  ASSUME InputsInv, [Next]_vars  PROVE InputsInv'
<1>1. CASE UNCHANGED vars
  BY <1>1 DEF InputsInv, vars
<1>2. CASE Next
  <2>1. ASSUME NEW o \in Owner, NEW verb \in Verbs[o], NEW c \in Creature \cup {Nobody},
               (verb \in targets_creature) = (c # Nobody), AuthorityAction(o, verb, c)
        PROVE  InputsInv'
    BY <2>1, AuthorityActionInv
  <2>2. CASE UpdateScene
    BY <2>2, UpdateSceneInv
  <2>3. CASE PublishScene
    BY <2>3, PublishSceneInv
  <2>4. CASE ConnectionLost
    BY <2>4, ConnectionLostInv
  <2>5. CASE Reconnect \/ LinkLost
    BY <2>5, LinkInv
  <2>6. CASE ReleaseTransferPause
    BY <2>6, ReleaseTransferPauseInv
  <2>7. CASE FinishTransferResume
    BY <2>7, FinishTransferResumeInv
  <2>8. ASSUME NEW o \in Owner, Land(o)  PROVE InputsInv'
    BY <2>8, LandInv
  <2>9. CASE BeginTransfer
    BY <2>9, BeginTransferInv
  <2>10. CASE Quarantine
    BY <2>10, QuarantineInv
  <2>11. CASE RelationshipFails
    BY <2>11, RelationshipFailsInv
  <2>12. CASE LeaveScene
    BY <2>12, LeaveSceneInv
  <2>13. ASSUME NEW c \in Creature, Die(c) \/ Doom(c) \/ Destroy(c)  PROVE InputsInv'
    BY <2>13, DieInv, DoomInv, DestroyInv
  <2>14. ASSUME NEW c \in Wild, Appear(c)  PROVE InputsInv'
    BY <2>14, AppearInv
  <2>15. ASSUME NEW o \in Owner, NEW call \in Call, BindingRejected(o, call)  PROVE InputsInv'
    BY <2>15, BindingRejectedInv
  <2> QED BY <1>2, <2>1, <2>2, <2>3, <2>4, <2>5, <2>6, <2>7, <2>8, <2>9, <2>10, <2>11,
             <2>12, <2>13, <2>14, <2>15 DEF Next
<1> QED BY <1>1, <1>2

\* The inductive invariant: names, bindings and the census agree, what waits was
\* meant for the baseline that stands, and nothing waits for a fenced player.
THEOREM InputsInvariant == Spec => []InputsInv
<1>1. Init => InputsInv
  BY InitInv
<1>2. InputsInv /\ [Next]_vars => InputsInv'
  BY InputsStep
<1> QED BY <1>1, <1>2, PTL DEF Spec

\* An order that reaches the original reaches the incarnation the player named,
\* under the baseline the player saw, whatever died, returned, was cut off or was
\* held between. (native_actors.cpp: destroy_hook, resolve)
THEOREM OrdersAlwaysReach == Spec => []OrdersReachWhatTheyNamed
<1>1. InputsInv => OrdersReachWhatTheyNamed
  BY DEF InputsInv, BridgeOK, OrdersReachWhatTheyNamed
<1> QED BY <1>1, InputsInvariant, PTL

\* A fenced player's creature stands still, as far as its object lets it, and nothing of the player's waits.
\* (native_actors.cpp: native_actor_fence_network_inputs)
THEOREM FencedAlwaysStill == Spec => []FencedOwnersAreStill
<1>1. InputsInv => FencedOwnersAreStill
  BY DEF InputsInv, BridgeOK, Fenced, Empty, Unsteered, Standing, Quiet, FencedOwnersAreStill
<1> QED BY <1>1, InputsInvariant, PTL
=============================================================================
