---------------------------- MODULE ActorCommands ----------------------------
(* The ordering policy of the players' commands on the game thread of an   *)
(* authority: the bindings of creatures, the queue and its input epoch, and *)
(* the memory of a keyboard walk.  No step of it touches the original game. *)
EXTENDS Naturals, Sequences, SequencesExt

CONSTANTS
  Owner,         \* slots of the players, a subset of {1, 2}
  Wild,          \* creatures of no player
  Verbs,         \* of each player: the verbs it uses
  QueueCapacity  \* bound: the code's queue holds 32 commands

ASSUME ActorCommandsConstants ==
  /\ Owner \subseteq {1, 2} /\ Owner # {}
  /\ Wild \cap Owner = {}
  /\ Verbs \in [Owner -> SUBSET {"move", "steer", "steer_stop", "jump", "stop", "attack", "approach",
                                 "engage", "combat", "pickup", "social", "collect", "forage"}]
  /\ QueueCapacity \in Nat \ {0}

Creature == Owner \cup Wild

\* What a verb that names no creature has for its target.
Nobody == 0

targets_creature == {"attack", "approach", "engage", "combat", "pickup", "social"}
retained == {"engage", "combat"}
walks == {"move", "steer", "approach"}

\* The scene was entered and nothing is queued; every owner is bound.
NewCommands == [bound |-> [c \in Creature |-> IF c \in Owner THEN 1 ELSE 0], queue |-> <<>>,
                next_sequence |-> 0, input_epoch |-> 1, inputs_ready |-> TRUE]

\* A binding stands for the one incarnation of a creature it was made for.
bind(k, c, incarnation) == IF k.bound[c] # 0 THEN k ELSE [k EXCEPT !.bound[c] = incarnation]

invalidate(k, c) == [k EXCEPT !.bound[c] = 0]

scene_exit(k) == [k EXCEPT !.bound = [c \in Creature |-> 0], !.queue = <<>>]

\* Only the first fence begins a new input epoch; every one empties the queue.
fence_inputs(k) ==
  [k EXCEPT !.inputs_ready = FALSE, !.input_epoch = IF k.inputs_ready THEN @ + 1 ELSE @, !.queue = <<>>]

may_resume_inputs(k, epoch) == ~k.inputs_ready /\ epoch # 0 /\ epoch = k.input_epoch

resume_inputs(k) == [k EXCEPT !.inputs_ready = TRUE]

\* Asked again before each step of a command, whose epoch is 0 until it is queued.
authorize(k, command) ==
  /\ k.inputs_ready /\ command.input_epoch \in {0, k.input_epoch}
  /\ k.bound[command.owner] # 0 /\ k.bound[command.owner] = command.actor
  /\ command.verb \in targets_creature =>
       command.target \in Creature \ {command.owner} /\ k.bound[command.target] # 0
                          /\ k.bound[command.target] = command.aim

may_enqueue(k, command) == authorize(k, command) /\ Len(k.queue) < QueueCapacity

enqueue(k, command) ==
  [k EXCEPT !.queue = Append(@, [command EXCEPT !.input_epoch = k.input_epoch, !.sequence = k.next_sequence + 1]),
            !.next_sequence = @ + 1]

pop(k) == [k EXCEPT !.queue = Tail(@)]

NoCommand == [owner |-> 0, verb |-> "none", actor |-> 0, target |-> Nobody, aim |-> 0,
              input_epoch |-> 0, sequence |-> 0, named |-> [baseline |-> 0, of |-> 0, at |-> 0]]

NoSteering == [active |-> FALSE, release |-> NoCommand]

\* A release may stop the keyboard walk before it, never a newer interaction.
observe(steering, command) ==
  CASE command.verb = "jump" -> steering
    [] command.verb = "steer" -> [active |-> TRUE, release |-> NoCommand]
    [] command.verb = "steer_stop" ->
         [active |-> FALSE, release |-> IF steering.active THEN command ELSE steering.release]
    [] OTHER -> NoSteering

=============================================================================
