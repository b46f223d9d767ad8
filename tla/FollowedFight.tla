--------------------------- MODULE FollowedFight ----------------------------
(* The fights of a second player's creature of another species, in a game    *)
(* written for one player (native_relationship_context.cpp,                   *)
(* native_history_context.cpp and the damage scopes of                        *)
(* native_award_context.cpp).  The game has one Stage, one relationship       *)
(* manager and one history, the first player's.  The bridge keeps the second  *)
(* player's beside them, selects them inside that player's blows, and         *)
(* compares the first player's state around each of them: a difference        *)
(* nobody can explain ends combat for the scene.  The game itself is          *)
(* external; its calls reach the hooks in the order of their call sites.      *)
EXTENDS Integers, Sequences, SequencesExt, FiniteSets

CONSTANTS First, Second, Nobody,   \* the two players' creatures
          Wild,                    \* creatures of one third species
          Extinction,              \* kills that end the species
          Samples,                 \* looks at both states after a blow
          MaxDepth, MaxDeeds, MaxEpoch

ASSUME FightAssumption ==
  /\ First # Second /\ {First, Second, Nobody} \cap Wild = {} /\ Nobody \notin {First, Second}
  /\ Extinction \in Nat /\ Samples \in Nat \ {0}
  /\ MaxDepth \in Nat /\ MaxDeeds \in Nat /\ MaxEpoch \in Nat

Creature == Wild \cup {First, Second}
Owner == {1, 2}

VARIABLES
  epoch, life,
  account,   \* what the game and the bridge keep of each player
  bond,      \* the second player's relationships and the fight followed
  ready,     \* its awards are bound
  stack,     \* blows in progress, the innermost last
  saved,     \* the last checkpoint
  deeds,     \* what each player really did
  excuse     \* something happened in this scene that may end combat

vars == <<epoch, life, account, bond, ready, stack, saved, deeds, excuse>>

NoAccount == [dna |-> 0, killed |-> 0, first |-> 0]

\* <<>>: the first player's state can not be read.
NoBond == [manager |-> FALSE, retiring |-> FALSE, retired |-> FALSE, failed |-> 0, target |-> Nobody,
           samples |-> 0, killed |-> FALSE, active |-> FALSE, baseline |-> <<>>, after |-> <<>>]
hunt(p) == <<account[p].killed, account[p].first>>

Idle == stack = <<>>
Top == Last(stack)
\* The game calls back from a blow before it settles the hit.
Open == IF Idle THEN TRUE ELSE Top.step = "entered"
Step(to) == stack' = [stack EXCEPT ![Len(stack)].step = to]
OwnerOf(c) == IF c = Second THEN 2 ELSE 1

-----------------------------------------------------------------------------
owner_present == ready /\ life[Second] # "gone"
live == owner_present /\ life[Second] = "live"

\* A hit in flight keeps its owner if that owner dies in it.
owned_damage == Top.by = Second /\ Top.latched /\ owner_present

\* The second player's relationships can be told apart from the first's.
owner_current ==
  /\ bond.manager /\ ~bond.retiring /\ ~bond.retired
  /\ life[Second] = "live" /\ life[First] # "gone"

primary_state == IF owner_current THEN <<account[1]>> ELSE <<>>
same_primary(a, b) == a # <<>> /\ a = b

failing(b) == [b EXCEPT !.failed = IF @ = 0 THEN epoch ELSE @]
fail_if(condition, b) == IF condition THEN failing(b) ELSE b

\* The first player's state against the baseline, outside the second's calls.
primary_steady(b) ==
  primary_state # <<>> /\ (b.baseline = primary_state \/ b.active)
rebased(b) == IF primary_steady(b) THEN [b EXCEPT !.baseline = primary_state] ELSE b

\* The next kill of the species must leave it short of extinction.
branch == account[2].killed = 0 \/ Extinction - account[2].killed > 1
observed(c) == owner_current /\ c \in Wild /\ life[c] # "gone" /\ branch

forget_followed_fight(b) ==
  [b EXCEPT !.target = Nobody, !.killed = FALSE, !.active = FALSE, !.baseline = <<>>, !.after = <<>>]

target_replaceable == Idle /\ bond.samples = 0

fight_finished(b) ==
  b.target # Nobody /\ b.failed = 0 /\ b.samples = 0 /\ (b.killed \/ life[b.target] = "dead")
release_finished_fight(b) == IF fight_finished(b) THEN forget_followed_fight(b) ELSE b

\* Mutant: the manager goes with its owner.
dispose_at_once(b, blows) == IF b.retiring THEN [NoBond EXCEPT !.failed = b.failed] ELSE b

dispose_if_idle(b, blows) == IF b.retiring /\ blows = <<>> THEN [NoBond EXCEPT !.failed = b.failed] ELSE b

-----------------------------------------------------------------------------
(* A second player joins with results of its own, and leaves.               *)

initialize_relationship_owner ==
  /\ Idle /\ ~bond.manager /\ bond.failed # epoch
  /\ life[Second] = "live" /\ life[First] # "gone"
  /\ bond' = [NoBond EXCEPT !.manager = TRUE]
  /\ ready' = TRUE

enable_native_awards ==
  /\ ~saved.second
  /\ initialize_relationship_owner
  /\ account' = [account EXCEPT ![2] = NoAccount]
  /\ deeds' = [deeds EXCEPT ![2] = NoAccount]
  /\ UNCHANGED <<epoch, life, stack, saved, excuse>>

restore_native_awards ==
  /\ saved.second
  /\ initialize_relationship_owner
  /\ account' = [account EXCEPT ![2] = saved.account[2]]
  /\ deeds' = [deeds EXCEPT ![2] = saved.deeds[2]]
  /\ UNCHANGED <<epoch, life, stack, saved, excuse>>

\* The owner is lost or the player is removed, also from inside a blow: the
\* manager outlives every blow that may still use it.
retire_native_awards ==
  /\ ready /\ Open
  /\ ready' = FALSE
  /\ bond' = dispose_if_idle([bond EXCEPT !.retiring = TRUE], stack)
  /\ UNCHANGED <<epoch, life, account, stack, saved, deeds, excuse>>

checkpoint_idle == Idle /\ owner_current /\ live /\ bond.failed = 0

\* The save holds both players; what the fight followed is not in it.
write_checkpoint ==
  /\ checkpoint_idle
  /\ saved' = [second |-> TRUE, account |-> account, deeds |-> deeds]
  /\ UNCHANGED <<epoch, life, account, bond, ready, stack, deeds, excuse>>

\* The scene is loaded again from the last save.
LoadScene ==
  /\ Idle /\ epoch < MaxEpoch
  /\ epoch' = epoch + 1
  /\ life' = [c \in Creature |-> "live"]
  /\ account' = [account EXCEPT ![1] = saved.account[1]]
  /\ deeds' = [deeds EXCEPT ![1] = saved.deeds[1]]
  /\ bond' = [NoBond EXCEPT !.failed = bond.failed]
  /\ ready' = FALSE /\ excuse' = FALSE
  /\ UNCHANGED <<stack, saved>>

-----------------------------------------------------------------------------
(* Orders and what happens outside of blows.                                *)

\* The second player orders an attack at a creature of the third species.  The
\* fight before it is forgotten before the order can still be refused.
native_relationship_preflight(c) ==
  /\ Idle /\ owner_current /\ bond.failed = 0
  /\ c \in Wild /\ life[c] = "live" /\ c # bond.target
  /\ bond.target = Nobody \/ target_replaceable
  /\ LET b == forget_followed_fight(bond)
     IN bond' = IF observed(c) THEN [b EXCEPT !.target = c, !.baseline = primary_state] ELSE b
  /\ UNCHANGED <<epoch, life, account, ready, stack, saved, deeds, excuse>>

\* The first player orders an attack or a meal.
native_relationship_primary_input_ready ==
  /\ Idle /\ owner_current /\ bond.failed = 0
  /\ bond.target # Nobody /\ ~bond.active
  /\ bond' = [bond EXCEPT !.active = TRUE]
  /\ UNCHANGED <<epoch, life, account, ready, stack, saved, deeds, excuse>>

\* A meal of the first player's, or anything else the game gives it.
PrimaryProgress ==
  /\ Idle /\ life[First] = "live"
  /\ deeds[1].dna + deeds[2].dna < MaxDeeds
  /\ account' = [account EXCEPT ![1].dna = @ + 1]
  /\ deeds' = [deeds EXCEPT ![1].dna = @ + 1]
  /\ excuse' = (excuse \/ (bond.target # Nobody /\ ~bond.active))
  /\ UNCHANGED <<epoch, life, bond, ready, stack, saved>>

\* A noun leaves the world (destroyed or returned to its pool).
invalidate_native_relationship_entity(c) ==
  /\ Idle /\ life[c] # "gone"
  /\ life' = [life EXCEPT ![c] = "gone"]
  /\ LET owned == bond.manager /\ c \in {First, Second}
         followed == bond.manager /\ c = bond.target
         forgotten == followed /\ ~bond.killed /\ bond.failed = 0 /\ target_replaceable
         completed == /\ followed /\ bond.killed /\ bond.samples = 0 /\ bond.failed = 0
                      /\ primary_steady(bond) /\ hunt(2) = bond.after
     IN /\ bond' = CASE owned -> failing([bond EXCEPT !.retired = TRUE])
                     [] forgotten -> forget_followed_fight(bond)
                     [] completed -> forget_followed_fight(rebased(bond))
                     [] followed /\ ~forgotten /\ ~completed -> failing(bond)
                     [] OTHER -> bond
        /\ excuse' = (excuse \/ owned \/ (followed /\ (bond.samples > 0 \/ ~owner_current)))
  /\ UNCHANGED <<epoch, account, ready, stack, saved, deeds>>

\* The update looks at both states some more times after a blow.
sample_native_relationships ==
  /\ Idle /\ bond.manager /\ (bond.samples > 0 \/ fight_finished(bond))
  /\ LET b == release_finished_fight(bond)
         looked == [bond EXCEPT !.samples = @ - 1]
     IN bond' = IF bond.samples = 0 THEN b
                ELSE IF life[Second] = "dead" THEN [bond EXCEPT !.samples = 0]
                ELSE release_finished_fight(
                       fail_if(\/ ~primary_steady(bond)
                               \/ /\ bond.target # Nobody /\ bond.killed
                                  /\ (life[bond.target] = "gone" \/ hunt(2) # bond.after),
                               rebased(looked)))
  /\ UNCHANGED <<epoch, life, account, ready, stack, saved, deeds, excuse>>

-----------------------------------------------------------------------------
(* Blows.  Every one opens a scope, so that a blow inside another is judged *)
(* by its own attacker.  One between wild creatures concerns neither player. *)

DamageOwnerScope(by) == by = Second /\ live
DamageScope(by, on) ==
  [by |-> by, on |-> on, second |-> by = Second /\ owner_current,
   latched |-> DamageOwnerScope(by), step |-> "entered"]

animal_damage_hook(by, on) ==
  /\ by # on /\ {by, on} \cap {First, Second} # {}
  /\ life[by] = "live" /\ life[on] = "live"
  /\ Len(stack) < MaxDepth
  /\ Open
  /\ LET scope == DamageScope(by, on)
         wrong == scope.second /\ (on # bond.target \/ ~observed(on))
     IN /\ stack' = Append(stack, scope)
        /\ bond' = IF scope.second THEN fail_if(wrong, rebased(bond)) ELSE bond
        /\ excuse' = (excuse \/ wrong)
  /\ UNCHANGED <<epoch, life, account, ready, saved, deeds>>

\* The game settles the hit and asks whose it is (owned_hook).
Hit(kill) ==
  /\ ~Idle /\ Top.step = "entered"
  /\ LET killed == kill /\ life[Top.on] = "live"
     IN /\ killed => deeds[1].dna + deeds[2].dna < MaxDeeds
        /\ life' = IF killed THEN [life EXCEPT ![Top.on] = "dead"] ELSE life
        /\ Step(IF killed /\ Top.on \in Wild /\ (Top.by = First \/ owned_damage) THEN "relate" ELSE "done")
  /\ UNCHANGED <<epoch, account, bond, ready, saved, deeds, excuse>>

\* Mutant: the owner is authenticated again at every call.
manager_hook_authenticated == IF owner_current /\ Top.by = Second THEN 2 ELSE 1

\* Whose manager and history the game is given inside the blow.
manager_hook == IF bond.manager /\ Top.second THEN 2 ELSE 1

\* The first kill of a species makes history.
event_hook(a) == IF a.killed = 0 THEN [a EXCEPT !.first = @ + 1] ELSE a
count(a) == [event_hook(a) EXCEPT !.killed = @ + 1]

\* The kill enters the relationships and the history.
followed_action ==
  /\ ~Idle /\ Top.step = "relate"
  /\ LET p == manager_hook
         q == OwnerOf(Top.by)
         unexpected == p = 2 /\ ~observed(Top.on)
     IN /\ account' = [account EXCEPT ![p] = count(@)]
        /\ deeds' = [deeds EXCEPT ![q] = count(@)]
        /\ bond' = IF p = 1 THEN bond
                   ELSE [fail_if(unexpected, bond) EXCEPT
                           !.after = <<account'[2].killed, account'[2].first>>, !.killed = TRUE, !.samples = Samples]
        \* Inside the second player's blow the first may not be given anything.
        /\ excuse' = (excuse \/ unexpected \/ (p = 1 /\ \E i \in DOMAIN stack : stack[i].second))
  /\ Step("reward")
  /\ UNCHANGED <<epoch, life, ready, saved>>

\* The DNA of a kill (dispatch_native_owned_award).
award_damage ==
  /\ ~Idle /\ Top.step = "reward"
  /\ account' = [account EXCEPT ![IF owned_damage THEN 2 ELSE 1].dna = @ + 1]
  /\ deeds' = [deeds EXCEPT ![OwnerOf(Top.by)].dna = @ + 1]
  /\ Step("done")
  /\ UNCHANGED <<epoch, life, bond, ready, saved, excuse>>

\* Mutant: only being struck is taken for the first player's own doing.
damage_return_struck ==
  /\ ~Idle /\ Top.step = "done"
  /\ stack' = Front(stack)
  /\ LET changed == Top.second /\ ~same_primary(bond.baseline, primary_state)
         b == IF Top.second THEN [fail_if(changed, bond) EXCEPT !.samples = Samples]
              ELSE IF bond.target # Nobody /\ First = Top.on THEN [bond EXCEPT !.active = TRUE]
              ELSE bond
     IN /\ bond' = dispose_if_idle(b, stack')
        /\ excuse' = (excuse \/ (Top.second /\ ~owner_current))
  /\ UNCHANGED <<epoch, life, account, ready, saved, deeds>>

\* The scopes close.  What the first player did in a blow is its own.
damage_return ==
  /\ ~Idle /\ Top.step = "done"
  /\ stack' = Front(stack)
  /\ LET changed == Top.second /\ ~same_primary(bond.baseline, primary_state)
         b == IF Top.second THEN [fail_if(changed, bond) EXCEPT !.samples = Samples]
              ELSE IF bond.target # Nobody /\ First \in {Top.by, Top.on} THEN [bond EXCEPT !.active = TRUE]
              ELSE bond
     IN /\ bond' = dispose_if_idle(b, stack')
        \* Nor may the second player die in it.
        /\ excuse' = (excuse \/ (Top.second /\ ~owner_current))
  /\ UNCHANGED <<epoch, life, account, ready, saved, deeds>>

-----------------------------------------------------------------------------
Init ==
  /\ epoch = 1
  /\ life = [c \in Creature |-> "live"]
  /\ account = [p \in Owner |-> NoAccount]
  /\ bond = NoBond
  /\ ready = FALSE
  /\ stack = <<>>
  /\ saved = [second |-> FALSE, account |-> account, deeds |-> account]
  /\ deeds = account
  /\ excuse = FALSE

Blow ==
  \/ \E kill \in BOOLEAN : Hit(kill)
  \/ followed_action
  \/ award_damage
  \/ damage_return

Next ==
  \/ enable_native_awards
  \/ restore_native_awards
  \/ retire_native_awards
  \/ write_checkpoint
  \/ LoadScene
  \/ native_relationship_primary_input_ready
  \/ PrimaryProgress
  \/ sample_native_relationships
  \/ \E c \in Creature :
       \/ native_relationship_preflight(c)
       \/ invalidate_native_relationship_entity(c)
       \/ \E on \in Creature : animal_damage_hook(c, on)
  \/ Blow

Spec == Init /\ [][Next]_vars

-----------------------------------------------------------------------------

\* While the first player's creature is in the world, what each player earned,
\* killed and made history with is its own: through blows inside blows, the
\* death or the removal of the second player in its own blow, and a save and a
\* reload (manager_hook, action_hook, owned_damage, StageScope).
ResultsStayWithTheirHunter ==
  life[First] # "gone" => /\ account[1] = deeds[1]
                          /\ bond.manager => account[2] = deeds[2]

\* Combat ends only for a reason: a blow at another creature than the one
\* followed or one that would end its species, something the first player was
\* given in the second's blow or without having acted, the second's death in
\* its own blow, a creature that left while it was watched, a lost identity.
\* An order or a blow of the first player's between those never ends it.
AlarmsAreJustified == bond.failed = epoch => excuse

\* A relationship manager is never deleted under a blow that selected it
\* (dispose_if_idle).
BlowsKeepTheirManager == (\E i \in DOMAIN stack : stack[i].second) => bond.manager

=============================================================================
