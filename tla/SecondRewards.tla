--------------------------- MODULE SecondRewards ----------------------------
(* What the second player's creature earns in the one original game of a     *)
(* worker (native_award_context.cpp, native_pickup.cpp, native_social.cpp):   *)
(* the game knows one Stage and one player, so every reward is classified by *)
(* the original callback it arises in, and given once under its earner's      *)
(* Stage.  The original game is external: who eats, who dies, when its       *)
(* display counter and its herd evolution move on.                           *)
EXTENDS Integers, Sequences, SequencesExt, FiniteSets

CONSTANTS
  Corpse,        \* the numbers corpses have
  Other,         \* the species that may be befriended
  Needed,        \* good results that befriend one
  Boundary,      \* goal progress at the second player's first brain level
  MaxEarned, MaxBodies, MaxTicks, MaxReloads

ASSUME RewardsAssumption ==
  /\ Corpse # {} /\ Corpse \subseteq Nat \ {0}
  /\ {Needed, Boundary, MaxEarned, MaxBodies, MaxTicks} \subseteq Nat \ {0} /\ MaxReloads \in Nat

Stray == 3              \* a creature of no player
Eater == {1, 2, Stray}
None == 0

VARIABLES
  second,     \* the second player's creature: "alive", "dead"
  foreign,    \* it is of another species than the first player's
  award,      \* per player: what it was given, has queued and has counted
  corpses,    \* by number
  meals,      \* the corpse each eater's behaviour is at
  ticks,      \* the original eating ticks in progress, the innermost last
  grants,     \* by corpse number: whose creature was first to feed
  herd,       \* the herd-evolution input, and each player's share in it
  social,     \* the second player's controller
  relation, objective,  \* the first player's relations, and its missions' view
  receipt,    \* the last result that befriended a species
  kept,       \* the last checkpoint
  truth       \* what really happened, for the properties

rewards == <<second, foreign, award, corpses, meals, ticks, grants, herd, social, relation, objective,
             receipt, kept, truth>>

-----------------------------------------------------------------------------
(* Rewards and the display counters.                                         *)

Alive(p) == p = 1 \/ second = "alive"

NoAward == [dna |-> 0, queue |-> 0, goal |-> 0]

\* An original award under the Stage of p: its DNA, and its display queue.
StageScope(a, p) == [a EXCEPT ![p].dna = @ + 1, ![p].queue = @ + 1]
Room == \A p \in {1, 2} : award[p].dna < MaxEarned

\* The reward for damage dealt; the second player's only while it lives.
damage_rewarded(p) ==
  /\ Room /\ Alive(p) /\ award' = StageScope(award, p)
  /\ UNCHANGED <<second, foreign, corpses, meals, ticks, grants, herd, social, relation, objective, receipt, kept, truth>>

-----------------------------------------------------------------------------
(* The herd-evolution input.  The original keeps one, `field_48`; during an  *)
(* update it may stand for the second player's.                              *)

NoHerd == [field_48 |-> FALSE, b_world_pending |-> FALSE, world_saved_a |-> FALSE, world_selected |-> FALSE,
           alternate_world |-> FALSE, running |-> FALSE, stepped |-> FALSE]

\* The original action that raises the input, under the Stage of p.
world_pending_action(h, p) ==
  IF p = 2 THEN [h EXCEPT !.b_world_pending = TRUE]
  ELSE IF h.world_selected THEN [h EXCEPT !.world_saved_a = TRUE]
  ELSE [h EXCEPT !.field_48 = TRUE]

\* The counter of p takes one queued reward in; the original may then raise
\* the herd's input.  The second player's waits at its first brain level.
counter_tick(p) ==
  /\ award[p].queue > 0 /\ Alive(p)
  /\ p = 2 => award[2].goal < Boundary /\ ~herd.running
  /\ award' = [award EXCEPT ![p].queue = @ - 1, ![p].goal = @ + 1]
  /\ \/ UNCHANGED <<herd, truth>>
     \/ herd' = world_pending_action(herd, p) /\ truth' = [truth EXCEPT !.raised[p] = TRUE]
  /\ UNCHANGED <<second, foreign, corpses, meals, ticks, grants, social, relation, objective, receipt, kept>>

update_begins ==
  /\ ~herd.running /\ ticks = <<>>
  /\ herd' = [herd EXCEPT !.running = TRUE, !.stepped = FALSE, !.world_selected = FALSE]
  /\ UNCHANGED <<second, foreign, award, corpses, meals, ticks, grants, social, relation, objective, receipt, kept, truth>>

\* The herd step of an update: the second player's input stands in when it is
\* alone, and on every other update.
goal_selected(h) ==
  IF Alive(2) /\ ~foreign /\ h.b_world_pending /\ (~h.field_48 \/ h.alternate_world)
  THEN [h EXCEPT !.world_saved_a = h.field_48, !.world_selected = TRUE, !.field_48 = h.b_world_pending]
  ELSE h

\* The original may be done with the input it is given.
goal_hook ==
  LET selected == goal_selected(herd)
      whose == IF selected.world_selected THEN 2 ELSE 1
  IN /\ herd.running /\ ~herd.stepped
     /\ \/ herd' = [selected EXCEPT !.stepped = TRUE] /\ UNCHANGED truth
        \/ /\ selected.field_48
           /\ herd' = [selected EXCEPT !.stepped = TRUE, !.field_48 = FALSE]
           /\ truth' = [truth EXCEPT !.raised[whose] = FALSE]
     /\ UNCHANGED <<second, foreign, award, corpses, meals, ticks, grants, social, relation, objective, receipt, kept>>

\* Mutant: the first player's input is left as the second's was.
update_returns_late(h) ==
  [h EXCEPT !.b_world_pending = IF h.world_selected THEN h.field_48 ELSE @]

update_returns(h) ==
  IF h.world_selected THEN [h EXCEPT !.b_world_pending = h.field_48, !.field_48 = h.world_saved_a] ELSE h

update_hook ==
  /\ herd.running /\ herd.stepped
  /\ herd' = [update_returns(herd) EXCEPT !.world_selected = FALSE, !.world_saved_a = FALSE, !.running = FALSE,
                                          !.stepped = FALSE, !.alternate_world = ~@]
  /\ UNCHANGED <<second, foreign, award, corpses, meals, ticks, grants, social, relation, objective, receipt, kept, truth>>

-----------------------------------------------------------------------------
(* Eating.  A tick is one synchronous call of the original, in which other   *)
(* ticks, deaths and removals may happen.                                    *)

NoCorpse == [body |-> None, claimant |-> None, eaten |-> FALSE]
Inner == Last(ticks)
Ticking == ticks # <<>>
On == corpses[Inner.on]
SetInner(t) == ticks' = [ticks EXCEPT ![Len(ticks)] = t]

\* An eater of no player has no scope, nor has one whose corpse is gone.
scope_of(by) == by \in {1, 2} /\ corpses[meals[by]].body # None

pickup_tick_dispatch(by) ==
  /\ Len(ticks) < MaxTicks /\ meals[by] # None /\ Alive(by) /\ ~herd.running
  /\ \A i \in DOMAIN ticks : ticks[i].by # by
  /\ ticks' = Append(ticks, [by |-> by, on |-> meals[by], body |-> corpses[meals[by]].body, scope |-> scope_of(by),
                             before |-> corpses[meals[by]].eaten, step |-> "entered", observed |-> FALSE])
  /\ UNCHANGED <<second, foreign, award, corpses, meals, grants, herd, social, relation, objective, receipt, kept, truth>>

owned_pickup == Inner.scope /\ Alive(2) /\ On.body = Inner.body /\ On.body # None /\ On.claimant = 2

\* Another player's living creature has claimed the corpse: no avatar's
\* privilege is used against it.
pickup_honor_owned_claim == Inner.scope /\ On.claimant \in {1, 2} \ {Inner.by} /\ Alive(On.claimant)

\* The original lets its avatar take a corpse over, and others only a free one.
TakeClaim ==
  /\ Ticking /\ Inner.step = "entered" /\ On.body = Inner.body /\ On.claimant # Inner.by
  /\ IF On.claimant = None \/ (Inner.by = 1 /\ ~pickup_honor_owned_claim)
     THEN /\ corpses' = [corpses EXCEPT ![Inner.on].claimant = Inner.by]
          /\ UNCHANGED <<ticks, meals>>
     ELSE /\ SetInner([Inner EXCEPT !.step = "returning"])
          /\ meals' = [meals EXCEPT ![Inner.by] = None]
          /\ UNCHANGED corpses
  /\ UNCHANGED <<second, foreign, award, grants, herd, social, relation, objective, receipt, kept, truth>>

\* The first feeding is the avatar's, or the second player's by its scope.
pickup_first_feed_owner == Inner.by = 2 /\ ~On.eaten /\ owned_pickup
FirstFeed == ~On.eaten /\ (Inner.by = 1 \/ pickup_first_feed_owner)

Feed ==
  /\ Ticking /\ Inner.step = "entered" /\ On.body = Inner.body /\ On.claimant = Inner.by
  /\ IF FirstFeed
     THEN /\ corpses' = [corpses EXCEPT ![Inner.on].eaten = TRUE]
          /\ SetInner([Inner EXCEPT !.step = "fed"])
     ELSE UNCHANGED corpses /\ SetInner([Inner EXCEPT !.step = "returning"])
  /\ UNCHANGED <<second, foreign, award, meals, grants, herd, social, relation, objective, receipt, kept, truth>>

\* The reward call of a first feeding: the second player's is given by its
\* scope or refused, never handed to the first player.
award_corpse_first_feed ==
  LET given == Inner.by = 1 \/ owned_pickup IN
  /\ Ticking /\ Inner.step = "fed" /\ Room
  /\ SetInner([Inner EXCEPT !.step = "paid", !.observed = given])
  /\ award' = IF given THEN StageScope(award, Inner.by) ELSE award
  /\ truth' = IF given THEN [truth EXCEPT !.paid = Append(@, [body |-> Inner.body, to |-> Inner.by])] ELSE truth
  /\ UNCHANGED <<second, foreign, corpses, meals, grants, herd, social, relation, objective, receipt, kept>>

\* The action after it; a property of the corpse may give more DNA.
pickup_action ==
  /\ Ticking /\ Inner.step = "paid"
  /\ SetInner([Inner EXCEPT !.step = "returning"])
  /\ \/ UNCHANGED award
     \/ Room /\ (Inner.by = 1 \/ owned_pickup) /\ award' = StageScope(award, Inner.by)
  /\ UNCHANGED <<second, foreign, corpses, meals, grants, herd, social, relation, objective, receipt, kept, truth>>

\* The tick returns.  A first feeding that was rewarded is remembered for the
\* corpse, if that is still the one it was.
observe_first_feed ==
  Inner.scope /\ Inner.observed /\ ~Inner.before /\ On.body = Inner.body /\ On.eaten

TickReturns ==
  /\ Ticking /\ (Inner.step = "returning" \/ On.body # Inner.body)
  /\ ticks' = Front(ticks)
  /\ grants' = IF observe_first_feed THEN [grants EXCEPT ![Inner.on] = Inner.by] ELSE grants
  /\ UNCHANGED <<second, foreign, award, corpses, meals, herd, social, relation, objective, receipt, kept, truth>>

\* An order to eat, on the authority; no tick is in progress when orders are
\* carried out.
native_pickup_order(by, c) ==
  /\ Alive(by) /\ corpses[c].body # None /\ meals[by] # c /\ ticks = <<>>
  /\ meals' = [meals EXCEPT ![by] = c]
  /\ UNCHANGED <<second, foreign, award, corpses, ticks, grants, herd, social, relation, objective, receipt, kept, truth>>

\* Mutant: the grant stays for what takes the number and the address next.
retire_nothing(c) == grants

retire_native_incarnation(c) == [grants EXCEPT ![c] = None]

CorpseVanishes(c) ==
  /\ corpses[c].body # None
  /\ corpses' = [corpses EXCEPT ![c] = NoCorpse]
  /\ meals' = [e \in Eater |-> IF meals[e] = c THEN None ELSE meals[e]]
  /\ grants' = retire_native_incarnation(c)
  /\ UNCHANGED <<second, foreign, award, ticks, herd, social, relation, objective, receipt, kept, truth>>

CorpseAppears(c) ==
  /\ corpses[c].body = None /\ truth.bodies < MaxBodies
  /\ corpses' = [corpses EXCEPT ![c] = [NoCorpse EXCEPT !.body = truth.bodies + 1]]
  /\ truth' = [truth EXCEPT !.bodies = @ + 1]
  /\ UNCHANGED <<second, foreign, award, meals, ticks, grants, herd, social, relation, objective, receipt, kept>>

\* What the scene says of a corpse that was fed on.
native_actor_pickup_owner(c) == IF corpses[c].body # None /\ corpses[c].eaten THEN grants[c] ELSE None

-----------------------------------------------------------------------------
(* Social results.  One meter serves both players; the second player's       *)
(* controller owns it (mode 3) for an exchange.                              *)

NoSocial == [mode |-> 0, completed |-> FALSE, with |-> None, first |-> None]
NoReceipt == [pending |-> FALSE, fresh |-> FALSE, species |-> None, before |-> 0]
Met == [count |-> 0, friend |-> FALSE]

owned_probe_actor == social.mode = 3 /\ Alive(2)
social_meter_free == Alive(2) /\ social.with = None /\ social.first = None

ensure_native_network_player_controller ==
  /\ social.mode = 0 /\ Alive(2) /\ social' = [social EXCEPT !.mode = 1]
  /\ UNCHANGED <<second, foreign, award, corpses, meals, ticks, grants, herd, relation, objective, receipt, kept, truth>>

\* The second player greets a creature of a species.
perform_social(s) ==
  /\ social.with = None
  /\ IF social.mode = 3 THEN owned_probe_actor ELSE social.mode = 1 /\ social_meter_free
  /\ social' = [social EXCEPT !.mode = 3, !.with = s, !.completed = FALSE]
  /\ UNCHANGED <<second, foreign, award, corpses, meals, ticks, grants, herd, relation, objective, receipt, kept, truth>>

\* The first player does, unless the second owns the meter.
first_greets(s) ==
  /\ social.first = None /\ ~owned_probe_actor /\ social' = [social EXCEPT !.first = s]
  /\ UNCHANGED <<second, foreign, award, corpses, meals, ticks, grants, herd, relation, objective, receipt, kept, truth>>

Befriended(r) == [count |-> r.count + 1, friend |-> r.friend \/ r.count + 1 >= Needed]
Transition(s) == ~relation[s].friend /\ Befriended(relation[s]).friend
Caused(s, by) ==
  [truth EXCEPT !.cause[s] = IF Transition(s) THEN by ELSE @,
                !.mixed[s] = @ \/ objective[s] # relation[s]]

\* The original's result for the second player: given under its Stage, and a
\* receipt if it befriended the species.  One of another species than the
\* first player's has relations of its own.
result_hook ==
  LET s == social.with IN
  /\ s # None /\ Room /\ owned_probe_actor
  /\ award' = StageScope(award, 2) /\ social' = [social EXCEPT !.completed = TRUE, !.with = None]
  /\ IF foreign THEN UNCHANGED <<relation, truth>> /\ receipt' = NoReceipt
     ELSE /\ relation' = [relation EXCEPT ![s] = Befriended(@)] /\ truth' = Caused(s, 2)
          /\ receipt' = IF ~Transition(s) THEN [NoReceipt EXCEPT !.species = s]
                        ELSE [pending |-> TRUE, fresh |-> TRUE, species |-> s, before |-> relation[s].count]
  /\ UNCHANGED <<second, foreign, corpses, meals, ticks, grants, herd, objective, kept>>

first_result ==
  LET s == social.first IN
  /\ s # None /\ Room
  /\ award' = StageScope(award, 1) /\ social' = [social EXCEPT !.first = None]
  /\ relation' = [relation EXCEPT ![s] = Befriended(@)] /\ truth' = Caused(s, 1)
  /\ UNCHANGED <<second, foreign, corpses, meals, ticks, grants, herd, objective, receipt, kept>>

\* Is this evaluation the one the receipt is for?
claim(s) ==
  /\ receipt.pending /\ receipt.fresh /\ receipt.species = s
  /\ objective[s] = [count |-> receipt.before, friend |-> FALSE]
  /\ relation[s] = [count |-> receipt.before + 1, friend |-> TRUE]

\* A mission of the first player's looks at a relation again; a species that
\* was befriended is rewarded.
evaluate_objective(s) ==
  LET won == relation[s].friend /\ ~objective[s].friend
      to == IF ~foreign /\ Alive(2) /\ claim(s) THEN 2 ELSE 1
  IN /\ objective[s] # relation[s] /\ Room
     /\ objective' = [objective EXCEPT ![s] = relation[s]]
     /\ award' = IF won THEN StageScope(award, to) ELSE award
     /\ receipt' = IF won /\ to = 2 THEN [receipt EXCEPT !.pending = FALSE] ELSE receipt
     /\ truth' = [truth EXCEPT !.mixed[s] = FALSE,
                               !.won[s] = IF won THEN to ELSE @,
                               !.excused[s] = @ \/ truth.mixed[s] \/ ~Alive(2) \/ receipt.species # s
                                                \/ (receipt.pending /\ ~receipt.fresh)]
     /\ UNCHANGED <<second, foreign, corpses, meals, ticks, grants, herd, social, relation, kept>>

receipt_expires ==
  /\ receipt.fresh /\ receipt' = [receipt EXCEPT !.fresh = FALSE]
  /\ UNCHANGED <<second, foreign, award, corpses, meals, ticks, grants, herd, social, relation, objective, kept, truth>>

-----------------------------------------------------------------------------
(* Checkpoints, the second player's life, and what ends an exchange.         *)

native_awards_checkpoint_idle(allow_foreign) ==
  /\ Alive(2) /\ (foreign => allow_foreign) /\ ~herd.world_selected /\ ticks = <<>>
  /\ ~(receipt.pending /\ receipt.fresh) /\ \A p \in {1, 2} : award[p].queue = 0

\* A command to move takes the controller back from the exchange.
cancel_native_network_social_owner ==
  /\ social.mode = 3 /\ owned_probe_actor /\ native_awards_checkpoint_idle(FALSE)
  /\ social' = [social EXCEPT !.mode = 1, !.completed = FALSE, !.with = None]
  /\ UNCHANGED <<second, foreign, award, corpses, meals, ticks, grants, herd, relation, objective, receipt, kept, truth>>

\* So does the end of an exchange, once nothing is owed.
update_native_network_social_owner ==
  /\ owned_probe_actor /\ social.completed /\ social.with = None /\ native_awards_checkpoint_idle(FALSE)
  /\ social' = [social EXCEPT !.mode = 1, !.completed = FALSE]
  /\ UNCHANGED <<second, foreign, award, corpses, meals, ticks, grants, herd, relation, objective, receipt, kept, truth>>

SecondDies ==
  /\ Alive(2) /\ second' = "dead"
  /\ meals' = [meals EXCEPT ![2] = None] /\ social' = [social EXCEPT !.with = None]
  /\ UNCHANGED <<foreign, award, corpses, ticks, grants, herd, relation, objective, receipt, kept, truth>>

SecondReturns ==
  /\ ~Alive(2) /\ second' = "alive" /\ ticks = <<>>
  /\ UNCHANGED <<foreign, award, corpses, meals, ticks, grants, herd, social, relation, objective, receipt, kept, truth>>

\* The game's own save holds the world, the first player and both players'
\* progress; the bridge's adds the second player's Stage, its pending input and the grants.
snapshot_native_awards ==
  /\ native_awards_checkpoint_idle(TRUE) /\ ~herd.running
  /\ \A c \in Corpse : grants[c] # None => native_actor_pickup_owner(c) # None
  /\ kept' = <<[award |-> award, bodies |-> [c \in Corpse |-> corpses[c].body], grants |-> grants, relation |-> relation,
                field_48 |-> herd.field_48, pending |-> herd.b_world_pending, truth |-> truth]>>
  /\ kept' # kept
  /\ UNCHANGED <<second, foreign, award, corpses, meals, ticks, grants, herd, social, relation, objective, receipt, truth>>

\* The original forgets who was fed on; the grants tell it.
restore_native_pickup_flags(k) ==
  [c \in Corpse |-> [NoCorpse EXCEPT !.body = k.bodies[c], !.eaten = k.grants[c] # None]]

native_awards_restored ==
  LET k == Head(kept) IN
  /\ kept # <<>> /\ truth.reloads < MaxReloads
  /\ second' = "alive" /\ award' = [p \in {1, 2} |-> [k.award[p] EXCEPT !.queue = 0]]
  /\ corpses' = restore_native_pickup_flags(k) /\ grants' = k.grants
  /\ meals' = [e \in Eater |-> None] /\ ticks' = <<>>
  /\ herd' = [NoHerd EXCEPT !.field_48 = k.field_48, !.b_world_pending = k.pending]
  /\ social' = NoSocial /\ relation' = k.relation /\ objective' = k.relation /\ receipt' = NoReceipt
  /\ truth' = [k.truth EXCEPT !.reloads = truth.reloads + 1]
  /\ UNCHANGED <<foreign, kept>>

RewardsInit ==
  /\ second = "alive" /\ foreign \in BOOLEAN /\ award = [p \in {1, 2} |-> NoAward]
  /\ corpses = [c \in Corpse |-> NoCorpse] /\ meals = [e \in Eater |-> None] /\ ticks = <<>>
  /\ grants = [c \in Corpse |-> None] /\ herd = NoHerd /\ social = NoSocial
  /\ relation = [s \in Other |-> Met] /\ objective = relation /\ receipt = NoReceipt /\ kept = <<>>
  /\ truth = [raised |-> [p \in {1, 2} |-> FALSE], paid |-> <<>>, bodies |-> 0, reloads |-> 0,
              cause |-> [s \in Other |-> None], won |-> [s \in Other |-> None], mixed |-> [s \in Other |-> FALSE],
              excused |-> [s \in Other |-> FALSE]]

HerdNext == (\E p \in {1, 2} : damage_rewarded(p) \/ counter_tick(p)) \/ update_begins \/ goal_hook \/ update_hook
MealsNext ==
  \/ \E by \in Eater : pickup_tick_dispatch(by) \/ (\E c \in Corpse : native_pickup_order(by, c))
  \/ TakeClaim \/ Feed \/ award_corpse_first_feed \/ pickup_action \/ TickReturns
  \/ \E c \in Corpse : CorpseVanishes(c) \/ CorpseAppears(c)
SocialNext ==
  \/ ensure_native_network_player_controller \/ result_hook \/ first_result \/ receipt_expires
  \/ \E s \in Other : perform_social(s) \/ first_greets(s) \/ evaluate_objective(s)
  \/ cancel_native_network_social_owner \/ update_native_network_social_owner

RewardsNext ==
  \/ SecondDies \/ SecondReturns \/ HerdNext \/ MealsNext \/ SocialNext
  \/ snapshot_native_awards \/ native_awards_restored

RewardsSpec == RewardsInit /\ [][RewardsNext]_rewards

-----------------------------------------------------------------------------
(* What must hold.                                                           *)

\* A corpse pays for its first feeding once, whoever eats inside whose meal,
\* and the scene names the player that was paid for that very corpse.
MealsPayOnce ==
  /\ \A i, j \in DOMAIN truth.paid : truth.paid[i].body = truth.paid[j].body => i = j
  /\ \A c \in Corpse : native_actor_pickup_owner(c) # None =>
       \E i \in DOMAIN truth.paid : truth.paid[i] = [body |-> corpses[c].body, to |-> native_actor_pickup_owner(c)]
  /\ ticks = <<>> => \A i \in DOMAIN truth.paid, c \in Corpse :
       corpses[c].body = truth.paid[i].body => native_actor_pickup_owner(c) = truth.paid[i].to

\* The reward for befriending a species goes to the player whose result did,
\* and to the first player only when the second's receipt was spoiled.
MissionsPayTheirPlayer ==
  \A s \in Other : truth.won[s] # None =>
    truth.won[s] = truth.cause[s] \/ (truth.won[s] = 1 /\ truth.excused[s])

RewardsStayWithTheirEarner == MealsPayOnce /\ MissionsPayTheirPlayer

\* Every reward is counted towards its player's goal once or still queued, and
\* a herd input raised for a player waits for that player, across deaths,
\* updates that stand one player in for the other, and reloads.
EarningsAreKept ==
  /\ \A p \in {1, 2} : award[p].dna = award[p].goal + award[p].queue
  /\ ~herd.running => truth.raised = <<herd.field_48, herd.b_world_pending>>
=============================================================================
