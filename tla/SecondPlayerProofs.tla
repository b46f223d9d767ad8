--------------------------- MODULE SecondPlayerProofs ---------------------------
(***************************************************************************)
(* A second player in one original game, proved for any creatures, any     *)
(* depth of blows inside blows, any number of scenes, results, corpses and *)
(* rewards.                                                                *)
(*                                                                         *)
(* Fights: the invariant says of the blows in progress that only the       *)
(* innermost has settled, of the owner when its manager is there and what  *)
(* its departure leaves, of the accounts that they are what each player    *)
(* did, and of the fight followed that its comparisons hold unless         *)
(* something excuses them.                                                 *)
(*                                                                         *)
(* Rewards: it says where each player's herd input is while an update      *)
(* stands one in for the other, and that a checkpoint was taken between;   *)
(* of meals, that a body is paid for once and its grant is there or the    *)
(* tick that leaves it is; of missions, that a receipt is still as the     *)
(* result left it unless something recorded spoiled it.                    *)
(***************************************************************************)
EXTENDS FollowedFight, SecondRewards, TLAPS

Result == [dna : Nat, killed : Nat, first : Nat]
Results == [Owner -> Result]
Life == {"live", "dead", "gone"}
Settling == {"entered", "relate", "reward", "done"}

Bond == [manager : BOOLEAN, retiring : BOOLEAN, retired : BOOLEAN, failed : Nat,
         target : Creature \cup {Nobody}, samples : Nat, killed : BOOLEAN,
         active : BOOLEAN, baseline : {<<>>} \cup {<<r>> : r \in Result},
         after : {<<>>} \cup (Nat \X Nat)]

Scope == [by : Creature, on : Creature, second : BOOLEAN, latched : BOOLEAN,
          step : Settling]

Save == [second : BOOLEAN, account : Results, deeds : Results]

Typed ==
  /\ epoch \in Nat \ {0} /\ life \in [Creature -> Life]
  /\ account \in Results /\ deeds \in Results
  /\ bond \in Bond /\ ready \in BOOLEAN /\ excuse \in BOOLEAN
  /\ stack \in Seq(Scope) /\ saved \in Save

\* What a blow in progress may say of itself; `i` is its place.
BlowOK(i) ==
  /\ i < Len(stack) => stack[i].step = "entered"
  /\ stack[i].second => stack[i].by = Second /\ bond.manager
  /\ stack[i].latched =>
       stack[i].by = Second /\ (stack[i].second \/ life[First] = "gone")
  /\ stack[i].step \in {"relate", "reward"} =>
       \/ stack[i].by = First
       \/ stack[i].by = Second /\ stack[i].latched /\ owner_present

BlowsInv == \A i \in DOMAIN stack : BlowOK(i)

OwnerInv ==
  /\ ready => bond.manager /\ ~bond.retiring
  /\ bond.retiring => ~Idle
  /\ bond.manager =>
       /\ bond.retired <=> life[First] = "gone" \/ life[Second] = "gone"
       /\ bond.retired => excuse
       /\ bond.failed \in {0, epoch}
  /\ bond.failed <= epoch
  /\ bond.failed = epoch => excuse

AccountsInv ==
  /\ life[First] # "gone" =>
       account[1] = deeds[1] /\ (bond.manager => account[2] = deeds[2])
  /\ saved.account = saved.deeds

SecondStrikes == \E i \in DOMAIN stack : stack[i].second
FirstPaid == ~Idle /\ Top.by = First /\ Top.step \in {"reward", "done"}

\* The first player's state is the one compared with, or will be taken for it.
Compared ==
  \/ bond.baseline = <<account[1]>>
  \/ ~SecondStrikes /\ (bond.active \/ FirstPaid)

Followed ==
  /\ bond.samples > 0 \/ SecondStrikes => bond.target # Nobody
  /\ bond.target # Nobody => life[bond.target] # "gone"
  /\ FirstPaid /\ Top.step = "reward" => ~SecondStrikes
  /\ owner_current /\ bond.target # Nobody => Compared

FightInv ==
  /\ bond.killed => bond.after = hunt(2)
  /\ bond.target # Nobody => bond.manager /\ bond.target \in Wild
  /\ excuse \/ Followed

FightsInv == Typed /\ BlowsInv /\ OwnerInv /\ AccountsInv /\ FightInv

-----------------------------------------------------------------------------
(* The operations on the bond *)

SameManager(b, c) ==
  /\ c.manager = b.manager /\ c.retiring = b.retiring /\ c.retired = b.retired

SameFight(b, c) ==
  /\ c.target = b.target /\ c.samples = b.samples /\ c.killed = b.killed
  /\ c.active = b.active /\ c.after = b.after

LEMMA FailingFacts ==
  ASSUME Typed, NEW b \in Bond
  PROVE  /\ failing(b) \in Bond
         /\ SameManager(b, failing(b)) /\ SameFight(b, failing(b))
         /\ failing(b).baseline = b.baseline
         /\ failing(b).failed = IF b.failed = 0 THEN epoch ELSE b.failed
<1> DEFINE f == IF b.failed = 0 THEN epoch ELSE b.failed
<1>1. f \in Nat /\ failing(b) = [b EXCEPT !.failed = f]
  BY DEF failing, Typed, Bond
<1> HIDE DEF f
<1>2. /\ failing(b) \in Bond /\ failing(b).failed = f
      /\ SameManager(b, failing(b)) /\ SameFight(b, failing(b))
      /\ failing(b).baseline = b.baseline
  BY <1>1 DEF Bond, SameManager, SameFight
<1> QED BY <1>2 DEF f

LEMMA PrimaryState ==
  ASSUME Typed
  PROVE  /\ primary_state = IF owner_current THEN <<account[1]>> ELSE <<>>
         /\ primary_state \in {<<>>} \cup {<<r>> : r \in Result}
         /\ primary_state # <<>> <=> owner_current
BY DEF Typed, primary_state, Results, Owner

LEMMA RebasedFacts ==
  ASSUME Typed, NEW b \in Bond
  PROVE  /\ rebased(b) \in Bond
         /\ SameManager(b, rebased(b)) /\ SameFight(b, rebased(b))
         /\ rebased(b).failed = b.failed
         /\ rebased(b).baseline = IF primary_steady(b) THEN primary_state ELSE b.baseline
BY PrimaryState DEF rebased, Bond, SameManager, SameFight

LEMMA ForgottenFacts ==
  ASSUME NEW b \in Bond
  PROVE  /\ forget_followed_fight(b) \in Bond
         /\ SameManager(b, forget_followed_fight(b))
         /\ forget_followed_fight(b).failed = b.failed
         /\ forget_followed_fight(b).samples = b.samples
         /\ forget_followed_fight(b).target = Nobody
         /\ ~forget_followed_fight(b).killed
BY DEF forget_followed_fight, Bond, SameManager

LEMMA NoBondFacts ==
  ASSUME NEW f \in Nat
  PROVE  /\ [NoBond EXCEPT !.failed = f] \in Bond
         /\ [NoBond EXCEPT !.failed = f].failed = f
         /\ ~[NoBond EXCEPT !.failed = f].manager
         /\ ~[NoBond EXCEPT !.failed = f].retiring
         /\ [NoBond EXCEPT !.failed = f].target = Nobody
         /\ [NoBond EXCEPT !.failed = f].samples = 0
         /\ ~[NoBond EXCEPT !.failed = f].killed
BY DEF NoBond, Bond

-----------------------------------------------------------------------------
(* The blows in progress *)

LEMMA NoBlows ==
  ASSUME stack = <<>>
  PROVE  BlowsInv /\ ~SecondStrikes /\ ~FirstPaid /\ Idle /\ Open
BY DEF BlowsInv, SecondStrikes, FirstPaid, Idle, Open

\* A scope that is opened.
LEMMA OpenedFacts ==
  ASSUME NEW s \in Seq(Scope), NEW t \in Scope
  PROVE  /\ Append(s, t) \in Seq(Scope) /\ Append(s, t) # <<>>
         /\ Len(Append(s, t)) = Len(s) + 1
         /\ DOMAIN Append(s, t) = 1..(Len(s) + 1) /\ DOMAIN s = 1..Len(s)
         /\ Last(Append(s, t)) = t /\ Append(s, t)[Len(s) + 1] = t
         /\ \A i \in DOMAIN s : Append(s, t)[i] = s[i]
BY DEF Last

\* The innermost scope.
LEMMA InnermostFacts ==
  ASSUME NEW s \in Seq(Scope), s # <<>>
  PROVE  /\ Len(s) \in DOMAIN s /\ Len(s) \in Nat /\ DOMAIN s = 1..Len(s)
         /\ Last(s) = s[Len(s)] /\ Last(s) \in Scope
BY DEF Last

\* The innermost scope goes on to its next step.
Stepped(s, to) == [s EXCEPT ![Len(s)].step = to]

LEMMA SteppedFacts ==
  ASSUME NEW s \in Seq(Scope), s # <<>>, NEW to \in Settling
  PROVE  /\ Stepped(s, to) \in Seq(Scope) /\ Stepped(s, to) # <<>>
         /\ Len(Stepped(s, to)) = Len(s) /\ DOMAIN Stepped(s, to) = DOMAIN s
         /\ Stepped(s, to)[Len(s)].step = to
         /\ Last(Stepped(s, to)) = Stepped(s, to)[Len(s)]
         /\ \A i \in DOMAIN s :
              /\ Stepped(s, to)[i].by = s[i].by
              /\ Stepped(s, to)[i].second = s[i].second
              /\ Stepped(s, to)[i].latched = s[i].latched
              /\ i < Len(s) => Stepped(s, to)[i].step = s[i].step
<1>1. Len(s) \in DOMAIN s /\ s[Len(s)] \in Scope
  BY InnermostFacts DEF Last
<1> DEFINE u == [s[Len(s)] EXCEPT !.step = to]
           t == Stepped(s, to)
<1>2. /\ u \in Scope /\ u.step = to /\ u.by = s[Len(s)].by
      /\ u.second = s[Len(s)].second /\ u.latched = s[Len(s)].latched
  BY <1>1 DEF Scope
<1>3. t = [s EXCEPT ![Len(s)] = u]
  BY DEF Stepped
<1> HIDE DEF t, u
<1>4. /\ t \in Seq(Scope) /\ Len(t) = Len(s) /\ DOMAIN t = DOMAIN s
      /\ t[Len(s)] = u /\ \A i \in DOMAIN s : i # Len(s) => t[i] = s[i]
  BY <1>1, <1>2, <1>3
<1>5. t # <<>> /\ Last(t) = t[Len(s)]
  BY <1>1, <1>4 DEF Last
<1> QED BY <1>1, <1>2, <1>4, <1>5 DEF t

\* The innermost scope closes.
LEMMA ClosedFacts ==
  ASSUME NEW s \in Seq(Scope), s # <<>>
  PROVE  /\ Front(s) \in Seq(Scope) /\ Len(Front(s)) = Len(s) - 1
         /\ DOMAIN Front(s) \subseteq DOMAIN s /\ Len(s) \notin DOMAIN Front(s)
         /\ \A i \in DOMAIN s : i = Len(s) \/ i \in DOMAIN Front(s)
         /\ \A i \in DOMAIN Front(s) : Front(s)[i] = s[i] /\ i < Len(s)
<1>1. Len(s) \in Nat \ {0} /\ DOMAIN s = 1..Len(s)
  OBVIOUS
<1>2. Front(s) = SubSeq(s, 1, Len(s) - 1)
  BY DEF Front
<1>3. Front(s) \in Seq(Scope) /\ Len(Front(s)) = Len(s) - 1
      /\ \A i \in 1..(Len(s) - 1) : Front(s)[i] = s[i]
  BY <1>1, <1>2
<1>4. DOMAIN Front(s) = 1..(Len(s) - 1)
  BY <1>3
<1> QED BY <1>1, <1>3, <1>4

-----------------------------------------------------------------------------
(* Between blows: a player joins, leaves, saves, loads.                       *)

\* What the owner's part of the invariant says of a fresh bond.
LEMMA JoinedInv ==
  ASSUME FightsInv, initialize_relationship_owner,
         NEW a \in Result, account' = [account EXCEPT ![2] = a],
         deeds' = [deeds EXCEPT ![2] = a],
         UNCHANGED <<epoch, life, stack, saved, excuse>>
  PROVE  FightsInv'
<1>1. /\ stack = <<>> /\ bond.failed # epoch
      /\ life[Second] = "live" /\ life[First] # "gone"
      /\ bond' = [NoBond EXCEPT !.manager = TRUE] /\ ready'
  BY DEF initialize_relationship_owner, Idle
<1>2. /\ bond' \in Bond /\ bond'.failed = 0 /\ bond'.target = Nobody
      /\ bond'.samples = 0 /\ bond'.manager
      /\ ~bond'.killed /\ ~bond'.retiring /\ ~bond'.retired
  BY <1>1 DEF NoBond, Bond
<1>3. /\ account' \in Results /\ deeds' \in Results
      /\ account'[1] = account[1] /\ deeds'[1] = deeds[1]
      /\ account'[2] = a /\ deeds'[2] = a
  BY DEF FightsInv, Typed, Results, Owner
<1>4. Typed'
  BY <1>1, <1>2, <1>3 DEF FightsInv, Typed, initialize_relationship_owner
<1>5. BlowsInv' /\ ~SecondStrikes' /\ ~FirstPaid'
  BY <1>1 DEF BlowsInv, SecondStrikes, FirstPaid, Idle
<1>6. OwnerInv'
  BY <1>1, <1>2 DEF FightsInv, Typed, OwnerInv
<1>7. AccountsInv'
  BY <1>3 DEF FightsInv, AccountsInv
<1>8. FightInv'
  BY <1>2, <1>5 DEF FightInv, Followed
<1> QED BY <1>4, <1>5, <1>6, <1>7, <1>8 DEF FightsInv

LEMMA EnableInv ==
  ASSUME FightsInv, enable_native_awards  PROVE FightsInv'
<1>1. NoAccount \in Result
  BY DEF NoAccount, Result
<1> QED BY <1>1, JoinedInv DEF enable_native_awards

LEMMA RestoreInv ==
  ASSUME FightsInv, restore_native_awards  PROVE FightsInv'
<1>1. saved.account[2] \in Result /\ saved.deeds[2] = saved.account[2]
  BY DEF FightsInv, Typed, Save, Results, Owner, AccountsInv
<1> QED BY <1>1, JoinedInv DEF restore_native_awards

LEMMA CheckpointInv ==
  ASSUME FightsInv, write_checkpoint  PROVE FightsInv'
<1>1. /\ stack = <<>> /\ life[First] # "gone" /\ bond.manager
      /\ saved' = [second |-> TRUE, account |-> account, deeds |-> deeds]
      /\ UNCHANGED <<epoch, life, account, bond, ready, stack, deeds, excuse>>
  BY DEF write_checkpoint, checkpoint_idle, owner_current, Idle
<1>2. account = deeds
  <2>1. account[1] = deeds[1] /\ account[2] = deeds[2]
    BY <1>1 DEF FightsInv, AccountsInv
  <2>2. account \in [Owner -> Result] /\ deeds \in [Owner -> Result]
    BY DEF FightsInv, Typed, Results
  <2> QED BY <2>1, <2>2 DEF Owner
<1>3. Typed' /\ saved'.account = saved'.deeds
  BY <1>1, <1>2 DEF FightsInv, Typed, Save
<1>4. BlowsInv' /\ OwnerInv' /\ FightInv'
  BY <1>1 DEF FightsInv, BlowsInv, BlowOK, owner_present, OwnerInv, Idle, FightInv,
              Followed, Compared, SecondStrikes, FirstPaid, Top, owner_current, hunt
<1>5. AccountsInv'
  BY <1>1, <1>3 DEF FightsInv, AccountsInv
<1> QED BY <1>3, <1>4, <1>5 DEF FightsInv

LEMMA LoadInv ==
  ASSUME FightsInv, LoadScene  PROVE FightsInv'
<1>1. /\ stack = <<>> /\ stack' = stack /\ epoch' = epoch + 1
      /\ life' = [c \in Creature |-> "live"]
      /\ account' = [account EXCEPT ![1] = saved.account[1]]
      /\ deeds' = [deeds EXCEPT ![1] = saved.deeds[1]]
      /\ bond' = [NoBond EXCEPT !.failed = bond.failed]
      /\ ~ready' /\ ready' \in BOOLEAN /\ ~excuse' /\ excuse' \in BOOLEAN
      /\ saved' = saved
  BY DEF LoadScene, Idle
<1>2. bond.failed \in Nat /\ bond.failed <= epoch /\ epoch \in Nat
  BY DEF FightsInv, Typed, Bond, OwnerInv
<1>3. /\ bond' \in Bond /\ bond'.failed = bond.failed /\ bond'.target = Nobody
      /\ bond'.samples = 0 /\ ~bond'.manager /\ ~bond'.killed /\ ~bond'.retiring
  BY <1>1, <1>2, NoBondFacts
<1>4. saved.account[1] \in Result /\ saved.deeds[1] = saved.account[1]
  BY DEF FightsInv, Typed, Save, Results, Owner, AccountsInv
<1>5. /\ account' \in Results /\ deeds' \in Results /\ account'[1] = deeds'[1]
  BY <1>1, <1>4 DEF FightsInv, Typed, Results, Owner
<1>6. Typed'
  BY <1>1, <1>2, <1>3, <1>5 DEF FightsInv, Typed, Life
<1>7. BlowsInv' /\ ~SecondStrikes' /\ ~FirstPaid'
  BY <1>1 DEF BlowsInv, SecondStrikes, FirstPaid, Idle
<1>8. OwnerInv'
  BY <1>1, <1>2, <1>3 DEF OwnerInv
<1>9. AccountsInv'
  BY <1>1, <1>3, <1>5 DEF FightsInv, AccountsInv
<1>10. FightInv'
  BY <1>3, <1>7 DEF FightInv, Followed
<1> QED BY <1>6, <1>7, <1>8, <1>9, <1>10 DEF FightsInv

-----------------------------------------------------------------------------
(* Between blows: orders, the first player's progress, looks, departures.     *)

\* An owner that can be told apart, when no blow is in progress.
LEMMA IdleOwner ==
  ASSUME FightsInv, Idle, bond.manager, life[Second] # "dead"
  PROVE  owner_current \/ excuse
<1>1. ~bond.retiring /\ (bond.retired => excuse)
      /\ (bond.retired <=> life[First] = "gone" \/ life[Second] = "gone")
  BY DEF FightsInv, OwnerInv
<1>2. life[Second] \in Life
  BY DEF FightsInv, Typed, Creature
<1> QED BY <1>1, <1>2 DEF owner_current, Life

LEMMA PreflightInv ==
  ASSUME FightsInv, NEW c \in Creature, native_relationship_preflight(c)
  PROVE  FightsInv'
<1>1. /\ stack = <<>> /\ owner_current /\ bond.failed = 0
      /\ c \in Wild /\ life[c] = "live"
      /\ UNCHANGED <<epoch, life, account, ready, stack, saved, deeds, excuse>>
  BY DEF native_relationship_preflight, Idle
<1> DEFINE b == forget_followed_fight(bond)
<1>2. /\ b \in Bond /\ SameManager(bond, b) /\ b.failed = bond.failed
      /\ b.samples = bond.samples /\ ~b.killed /\ b.target = Nobody
  BY ForgottenFacts DEF FightsInv, Typed, forget_followed_fight, Bond
<1>3. \/ bond' = b
      \/ bond' = [b EXCEPT !.target = c, !.baseline = primary_state]
  BY DEF native_relationship_preflight
<1> HIDE DEF b
<1>4. primary_state = <<account[1]>>
      /\ primary_state \in {<<>>} \cup {<<r>> : r \in Result}
  BY <1>1, PrimaryState DEF FightsInv
<1>5. /\ bond' \in Bond /\ bond'.failed = 0 /\ ~bond'.killed
      /\ bond'.manager = bond.manager /\ bond'.retiring = bond.retiring
      /\ bond'.retired = bond.retired
      /\ bond'.target = Nobody \/ (bond'.target = c /\ bond'.baseline = <<account[1]>>)
  BY <1>1, <1>2, <1>3, <1>4 DEF Bond, SameManager
<1>6. Typed'
  BY <1>1, <1>5 DEF FightsInv, Typed
<1>7. BlowsInv' /\ ~SecondStrikes' /\ ~FirstPaid'
  BY <1>1 DEF BlowsInv, SecondStrikes, FirstPaid, Idle
<1>8. OwnerInv'
  BY <1>1, <1>5 DEF FightsInv, Typed, OwnerInv, Idle
<1>9. AccountsInv'
  BY <1>1, <1>5 DEF FightsInv, AccountsInv
<1>10. FightInv'
  <2>1. bond.manager /\ c # Nobody /\ c \in Wild
    BY <1>1, FightAssumption DEF owner_current
  <2>2. bond'.target # Nobody => life'[bond'.target] # "gone" /\ Compared'
    BY <1>1, <1>5 DEF Compared
  <2>3. bond'.samples = bond.samples  BY <1>2, <1>3 DEF Bond
  <2>4. (bond.target = Nobody \/ bond.samples = 0) /\ bond.samples \in Nat
    BY DEF native_relationship_preflight, target_replaceable, FightsInv, Typed, Bond
  <2>5. excuse \/ bond'.samples = 0
    BY <2>3, <2>4 DEF FightsInv, FightInv, Followed
  <2> QED BY <1>1, <1>5, <1>7, <2>1, <2>2, <2>5 DEF FightInv, Followed
<1> QED BY <1>6, <1>7, <1>8, <1>9, <1>10 DEF FightsInv

LEMMA PrimaryInputInv ==
  ASSUME FightsInv, native_relationship_primary_input_ready  PROVE FightsInv'
<1>1. /\ stack = <<>> /\ bond' = [bond EXCEPT !.active = TRUE]
      /\ UNCHANGED <<epoch, life, account, ready, stack, saved, deeds, excuse>>
  BY DEF native_relationship_primary_input_ready, Idle
<1>2. /\ bond' \in Bond /\ SameManager(bond, bond') /\ bond'.failed = bond.failed
      /\ bond'.target = bond.target /\ bond'.samples = bond.samples
      /\ bond'.killed = bond.killed /\ bond'.after = bond.after /\ bond'.active
  BY <1>1 DEF FightsInv, Typed, Bond, SameManager
<1>3. Typed'
  BY <1>1, <1>2 DEF FightsInv, Typed
<1>4. BlowsInv' /\ ~SecondStrikes' /\ ~FirstPaid'
  BY <1>1 DEF BlowsInv, SecondStrikes, FirstPaid, Idle
<1>5. OwnerInv'
  BY <1>1, <1>2 DEF FightsInv, OwnerInv, Idle, SameManager
<1>6. AccountsInv'
  BY <1>1, <1>2 DEF FightsInv, AccountsInv, SameManager
<1>7. FightInv'
  BY <1>1, <1>2, <1>4 DEF FightsInv, FightInv, Followed, Compared, hunt, SameManager
<1> QED BY <1>3, <1>4, <1>5, <1>6, <1>7 DEF FightsInv

LEMMA ProgressInv ==
  ASSUME FightsInv, PrimaryProgress  PROVE FightsInv'
<1>1. /\ stack = <<>> /\ life[First] = "live"
      /\ account' = [account EXCEPT ![1].dna = @ + 1]
      /\ deeds' = [deeds EXCEPT ![1].dna = @ + 1]
      /\ excuse' = (excuse \/ (bond.target # Nobody /\ ~bond.active))
      /\ UNCHANGED <<epoch, life, bond, ready, stack, saved>>
  BY DEF PrimaryProgress, Idle
<1>2. /\ account[1] \in Result /\ deeds[1] = account[1]
      /\ account \in Results /\ deeds \in Results
  BY <1>1 DEF FightsInv, Typed, Results, Owner, AccountsInv
<1> DEFINE r == [account[1] EXCEPT !.dna = @ + 1]
<1>3. r \in Result
  BY <1>2 DEF Result
<1>4. account' = [account EXCEPT ![1] = r] /\ deeds' = [deeds EXCEPT ![1] = r]
  BY <1>1, <1>2
<1> HIDE DEF r
<1>5. /\ account' \in Results /\ deeds' \in Results
      /\ account'[1] = r /\ deeds'[1] = r
      /\ account'[2] = account[2] /\ deeds'[2] = deeds[2]
  BY <1>2, <1>3, <1>4 DEF Results, Owner
<1>6. Typed'
  BY <1>1, <1>5 DEF FightsInv, Typed
<1>7. BlowsInv' /\ ~SecondStrikes' /\ ~FirstPaid'
  BY <1>1 DEF BlowsInv, SecondStrikes, FirstPaid, Idle
<1>8. OwnerInv'
  BY <1>1 DEF FightsInv, OwnerInv, Idle
<1>9. AccountsInv'
  BY <1>1, <1>5 DEF FightsInv, AccountsInv
<1>10. FightInv'
  BY <1>1, <1>5, <1>7 DEF FightsInv, FightInv, Followed, Compared, hunt
<1> QED BY <1>6, <1>7, <1>8, <1>9, <1>10 DEF FightsInv

\* A followed creature that leaves fails the fight only for a reason: unless it
\* is forgotten or its death is complete, something excuses the failure.
LEMMA DepartureExcused ==
  ASSUME FightsInv, Idle, bond.manager, bond.target # Nobody,
         bond.samples = 0, owner_current, bond.failed = 0,
         bond.killed => ~primary_steady(bond) \/ hunt(2) # bond.after,
         ~(~bond.killed /\ target_replaceable)
  PROVE  excuse
<1>1. bond.killed /\ hunt(2) = bond.after
  BY DEF FightsInv, FightInv, target_replaceable
<1>2. ~primary_steady(bond)
  BY <1>1
<1>3. primary_state = <<account[1]>> /\ primary_state # <<>>
  BY PrimaryState DEF FightsInv
<1>4. bond.baseline # <<account[1]>> /\ ~bond.active
  BY <1>2, <1>3 DEF primary_steady
<1>5. ~FirstPaid
  BY DEF FirstPaid
<1> QED BY <1>4, <1>5 DEF FightsInv, FightInv, Followed, Compared

LEMMA DepartureInv ==
  ASSUME FightsInv, NEW c \in Creature, invalidate_native_relationship_entity(c)
  PROVE  FightsInv'
<1> DEFINE owned == bond.manager /\ c \in {First, Second}
           followed == bond.manager /\ c = bond.target
           forgotten == followed /\ ~bond.killed /\ bond.failed = 0 /\ target_replaceable
           completed == /\ followed /\ bond.killed /\ bond.samples = 0 /\ bond.failed = 0
                        /\ primary_steady(bond) /\ hunt(2) = bond.after
           b == [bond EXCEPT !.retired = TRUE]
<1>1. /\ stack = <<>> /\ life[c] # "gone" /\ life' = [life EXCEPT ![c] = "gone"]
      /\ UNCHANGED <<epoch, account, ready, stack, saved, deeds>>
      /\ excuse' = (excuse \/ owned \/ (followed /\ (bond.samples > 0 \/ ~owner_current)))
      /\ bond' = CASE owned -> failing(b)
                   [] forgotten -> forget_followed_fight(bond)
                   [] completed -> forget_followed_fight(rebased(bond))
                   [] followed /\ ~forgotten /\ ~completed -> failing(bond)
                   [] OTHER -> bond
  BY DEF invalidate_native_relationship_entity, Idle
<1>2. /\ bond \in Bond /\ epoch \in Nat \ {0} /\ bond.failed \in Nat
      /\ bond.samples \in Nat /\ excuse \in BOOLEAN
  BY DEF FightsInv, Typed, Bond
<1>3. /\ life' \in [Creature -> Life] /\ life'[c] = "gone"
      /\ \A d \in Creature : d # c => life'[d] = life[d]
  BY <1>1 DEF FightsInv, Typed, Life
<1>4. BlowsInv' /\ ~SecondStrikes' /\ ~FirstPaid' /\ Idle' /\ Idle /\ ~bond.retiring
  BY <1>1 DEF FightsInv, OwnerInv, BlowsInv, SecondStrikes, FirstPaid, Idle
<1>5. First \in Creature /\ Second \in Creature /\ First \notin Wild /\ Second \notin Wild
  BY FightAssumption DEF Creature
<1>6. AccountsInv' <=> /\ life'[First] # "gone" =>
                            account[1] = deeds[1] /\ (bond'.manager => account[2] = deeds[2])
                       /\ saved.account = saved.deeds
  BY <1>1 DEF AccountsInv
<1>7. CASE owned
  <2>1. /\ b \in Bond /\ b.manager /\ ~b.retiring /\ b.retired /\ SameFight(bond, b)
        /\ b.failed = bond.failed
    BY <1>2, <1>4, <1>7 DEF Bond, SameFight
  <2> HIDE DEF b
  <2>2. bond' = failing(b) /\ excuse'
    <3>1. ~followed
      BY <1>5, <1>7, FightAssumption DEF FightsInv, FightInv
    <3> HIDE DEF owned, followed
    <3>2. bond' = failing(b)
      BY <1>1, <1>7, <3>1
    <3>3. excuse'
      BY <1>1, <1>7
    <3> QED BY <3>2, <3>3
  <2>3. /\ bond' \in Bond /\ SameManager(b, bond') /\ SameFight(b, bond')
        /\ bond'.failed = IF b.failed = 0 THEN epoch ELSE b.failed
    BY <2>1, <2>2, FailingFacts DEF FightsInv
  <2>4. Typed'
    BY <1>1, <1>3, <2>2, <2>3 DEF FightsInv, Typed
  <2>5. OwnerInv'
    <3>1. life'[First] = "gone" \/ life'[Second] = "gone"
      BY <1>3, <1>7
    <3>2. bond'.manager /\ bond'.retired /\ ~bond'.retiring
      BY <2>1, <2>3 DEF SameManager
    <3>3. bond'.failed \in {0, epoch} /\ bond'.failed <= epoch
      BY <1>2, <1>7, <2>1, <2>3 DEF FightsInv, OwnerInv
    <3> QED BY <1>1, <2>2, <3>1, <3>2, <3>3 DEF OwnerInv
  <2>6. AccountsInv'
    BY <1>3, <1>5, <1>6, <1>7 DEF FightsInv, AccountsInv
  <2>7. FightInv'
    BY <1>1, <1>7, <2>1, <2>2, <2>3
    DEF FightsInv, FightInv, hunt, SameFight, SameManager
  <2> QED BY <1>4, <2>4, <2>5, <2>6, <2>7 DEF FightsInv
<1>8. CASE ~owned /\ (forgotten \/ completed)
  <2>1. PICK x \in {bond, rebased(bond)} : bond' = forget_followed_fight(x)
    BY <1>1, <1>8
  <2>2. /\ x \in Bond /\ SameManager(bond, x)
        /\ x.failed = bond.failed /\ x.samples = bond.samples
    BY <1>2, <2>1, RebasedFacts DEF FightsInv, SameManager, SameFight
  <2>3. /\ bond' \in Bond /\ SameManager(x, bond') /\ bond'.failed = x.failed
        /\ bond'.samples = x.samples /\ bond'.target = Nobody /\ ~bond'.killed
    BY <2>1, <2>2, ForgottenFacts
  <2>4. bond.manager /\ bond.samples = 0 /\ c # First /\ c # Second
    BY <1>8 DEF target_replaceable
  <2>5. Typed'
    BY <1>1, <1>3, <2>3 DEF FightsInv, Typed
  <2>6. life'[First] = life[First] /\ life'[Second] = life[Second]
    BY <1>3, <1>5, <2>4
  <2>7. (excuse => excuse') /\ epoch' = epoch /\ ready' = ready
    BY <1>1
  <2>8. bond'.failed = bond.failed /\ SameManager(bond, bond')
    BY <2>2, <2>3 DEF SameManager
  <2>9. OwnerInv'
    BY <1>4, <2>7, <2>8, <2>6 DEF FightsInv, OwnerInv, SameManager
  <2>10. AccountsInv'
    BY <1>6, <2>4, <2>6 DEF FightsInv, AccountsInv
  <2>11. FightInv'
    BY <1>4, <2>2, <2>3, <2>4 DEF FightInv, Followed
  <2> QED BY <1>4, <2>5, <2>9, <2>10, <2>11 DEF FightsInv
<1>9. CASE ~owned /\ followed /\ ~forgotten /\ ~completed
  <2>1. bond' = failing(bond)
    BY <1>1, <1>9
  <2>2. /\ bond' \in Bond /\ SameManager(bond, bond') /\ SameFight(bond, bond')
        /\ bond'.failed = IF bond.failed = 0 THEN epoch ELSE bond.failed
    BY <1>2, <2>1, FailingFacts DEF FightsInv
  <2>3. excuse'
    <3>1. CASE bond.samples > 0 \/ ~owner_current
      BY <1>1, <1>9, <3>1
    <3>2. CASE bond.failed # 0
      BY <1>1, <1>9, <3>2 DEF FightsInv, OwnerInv
    <3>3. CASE bond.samples = 0 /\ owner_current /\ bond.failed = 0
      <4>1. bond.target # Nobody
        BY <1>9, FightAssumption DEF Creature
      <4>2. ~(~bond.killed /\ target_replaceable)
            /\ (bond.killed => ~primary_steady(bond) \/ hunt(2) # bond.after)
        BY <1>9, <3>3
      <4> QED BY <1>1, <1>4, <1>9, <3>3, <4>1, <4>2, DepartureExcused
    <3> QED BY <1>2, <3>1, <3>2, <3>3
  <2>4. Typed'
    BY <1>1, <1>3, <2>2, <2>3 DEF FightsInv, Typed
  <2>5. life'[First] = life[First] /\ life'[Second] = life[Second]
    BY <1>3, <1>5, <1>9
  <2>6. OwnerInv'
    <3>1. bond'.failed \in {0, epoch} /\ bond'.failed <= epoch
      BY <1>2, <1>9, <2>2 DEF FightsInv, OwnerInv
    <3> QED BY <1>1, <1>4, <2>2, <2>3, <2>5, <3>1 DEF FightsInv, OwnerInv, SameManager
  <2>7. AccountsInv'
    BY <1>6, <1>9, <2>5 DEF FightsInv, AccountsInv
  <2>8. FightInv'
    BY <1>1, <2>2, <2>3 DEF FightsInv, FightInv, hunt, SameFight, SameManager
  <2> QED BY <1>4, <2>4, <2>6, <2>7, <2>8 DEF FightsInv
<1>10. CASE ~owned /\ ~followed
  <2>1. bond' = bond /\ excuse' = excuse
    <3>1. bond' = bond
      BY <1>1, <1>10
    <3>2. excuse' = excuse
      BY <1>1, <1>2, <1>10
    <3> QED BY <3>1, <3>2
  <2>2. Typed'
    BY <1>1, <1>3, <2>1 DEF FightsInv, Typed
  <2>3. bond.manager => life'[First] = life[First] /\ life'[Second] = life[Second]
    BY <1>3, <1>5, <1>10
  <2>4. OwnerInv'
    BY <1>1, <1>4, <2>1, <2>3 DEF FightsInv, OwnerInv
  <2>5. AccountsInv'
    BY <1>3, <1>5, <1>6, <2>1 DEF FightsInv, AccountsInv
  <2>6. bond.target # Nobody => life'[bond.target] = life[bond.target]
    BY <1>3, <1>10 DEF FightsInv, FightInv, Creature
  <2>7. FightInv'
    <3>1. owner_current' => owner_current
      BY <1>3, <1>5, <2>1 DEF owner_current
    <3> QED BY <1>1, <1>4, <2>1, <2>6, <3>1
            DEF FightsInv, FightInv, Followed, Compared, hunt, FirstPaid
  <2> QED BY <1>4, <2>2, <2>4, <2>5, <2>7 DEF FightsInv
<1> QED BY <1>7, <1>8, <1>9, <1>10

\* A step between blows that only looks at the fight.
LEMMA LookedInv ==
  ASSUME FightsInv, Idle,
         UNCHANGED <<epoch, life, account, ready, stack, saved, deeds, excuse>>,
         bond' \in Bond, SameManager(bond, bond'),
         \/ bond'.failed = bond.failed
         \/ excuse /\ bond.failed = 0 /\ bond'.failed = epoch,
         bond'.killed => bond.killed /\ bond'.after = bond.after,
         bond'.target \in {bond.target, Nobody},
         ~excuse => Followed'
  PROVE  FightsInv'
<1>1. Typed'
  BY DEF FightsInv, Typed
<1>2. BlowsInv'
  BY DEF BlowsInv, Idle
<1>3. OwnerInv'
  BY DEF FightsInv, OwnerInv, Typed, Idle, SameManager
<1>4. AccountsInv'
  BY DEF FightsInv, AccountsInv, SameManager
<1>5. FightInv'
  <2>1. bond'.killed => bond'.after = hunt(2)'
    BY DEF FightsInv, FightInv, hunt
  <2> QED BY <2>1 DEF FightsInv, FightInv, SameManager
<1> QED BY <1>1, <1>2, <1>3, <1>4, <1>5 DEF FightsInv

\* A fight that is over is forgotten, or nothing of it changes.
LEMMA ReleasedFacts ==
  ASSUME NEW b \in Bond
  PROVE  /\ release_finished_fight(b) \in Bond
         /\ SameManager(b, release_finished_fight(b))
         /\ release_finished_fight(b).failed = b.failed
         /\ release_finished_fight(b).samples = b.samples
         /\ \/ release_finished_fight(b) = b
            \/ /\ release_finished_fight(b).target = Nobody
               /\ ~release_finished_fight(b).killed /\ b.samples = 0
BY ForgottenFacts DEF release_finished_fight, fight_finished, SameManager

LEMMA SampleInv ==
  ASSUME FightsInv, sample_native_relationships  PROVE FightsInv'
<1> DEFINE looked == [bond EXCEPT !.samples = @ - 1]
           X == \/ ~primary_steady(bond)
                \/ /\ bond.target # Nobody /\ bond.killed
                   /\ (life[bond.target] = "gone" \/ hunt(2) # bond.after)
           b == fail_if(X, rebased(looked))
           spent == [bond EXCEPT !.samples = 0]
<1>1. /\ stack = <<>> /\ bond.manager
      /\ UNCHANGED <<epoch, life, account, ready, stack, saved, deeds, excuse>>
  BY DEF sample_native_relationships, Idle
<1>2. bond' = IF bond.samples = 0 THEN release_finished_fight(bond)
            ELSE IF life[Second] = "dead" THEN spent
            ELSE release_finished_fight(b)
  BY DEF sample_native_relationships, Idle
<1>3. bond \in Bond /\ bond.samples \in Nat
  BY DEF FightsInv, Typed, Bond
<1>4. ~SecondStrikes' /\ ~FirstPaid' /\ Idle /\ ~SecondStrikes /\ ~FirstPaid
  BY <1>1 DEF SecondStrikes, FirstPaid, Idle
<1>5. ~excuse => Followed
  BY DEF FightsInv, FightInv
<1>6. CASE bond.samples = 0
  <2>1. /\ bond' \in Bond /\ SameManager(bond, bond') /\ bond'.failed = bond.failed
        /\ bond'.samples = 0
        /\ bond' = bond \/ (bond'.target = Nobody /\ ~bond'.killed)
    BY <1>2, <1>3, <1>6, ReleasedFacts
  <2>2. ~excuse => Followed'
    <3>1. CASE bond' = bond
      BY <1>1, <1>4, <1>5, <3>1 DEF Followed, Compared, owner_current
    <3>2. CASE bond'.target = Nobody
      BY <1>4, <2>1, <3>2 DEF Followed
    <3> QED BY <2>1, <3>1, <3>2
  <2> QED BY <1>1, <1>4, <2>1, <2>2, LookedInv
<1>7. CASE bond.samples # 0 /\ life[Second] = "dead"
  <2>1. bond' = spent
    BY <1>2, <1>7
  <2>2. /\ bond' \in Bond /\ SameManager(bond, bond') /\ bond'.failed = bond.failed
        /\ bond'.samples = 0 /\ bond'.target = bond.target /\ bond'.killed = bond.killed
        /\ bond'.after = bond.after
    BY <1>3, <2>1 DEF Bond, SameManager
  <2>3. ~owner_current'
    BY <1>1, <1>7 DEF owner_current
  <2> HIDE DEF spent
  <2>4. ~excuse => Followed'
    BY <1>1, <1>4, <1>5, <2>2, <2>3 DEF Followed
  <2> QED BY <1>1, <1>4, <2>2, <2>4, LookedInv
<1>8. CASE bond.samples # 0 /\ life[Second] # "dead"
  <2>1. owner_current \/ excuse
    BY <1>1, <1>4, <1>8, IdleOwner
  <2>2. ~excuse => /\ bond.target # Nobody /\ life[bond.target] # "gone"
                   /\ primary_steady(bond)
    <3>1. ~excuse => bond.target # Nobody /\ life[bond.target] # "gone" /\ Compared
      BY <1>3, <1>5, <1>8, <2>1 DEF Followed
    <3>2. ~excuse => primary_state = <<account[1]>> /\ primary_state # <<>>
      BY <2>1, PrimaryState DEF FightsInv
    <3> QED BY <1>4, <3>1, <3>2 DEF Compared, primary_steady
  <2>3. X => excuse
    BY <2>2 DEF FightsInv, FightInv
  <2>4. /\ looked \in Bond /\ SameManager(bond, looked) /\ looked.failed = bond.failed
        /\ looked.target = bond.target /\ looked.killed = bond.killed
        /\ looked.after = bond.after /\ looked.active = bond.active
        /\ looked.baseline = bond.baseline
    BY <1>3, <1>8 DEF Bond, SameManager
  <2>5. bond' = release_finished_fight(b) /\ b \in {rebased(looked), failing(rebased(looked))}
        /\ (b = rebased(looked) \/ X)
    BY <1>2, <1>8 DEF fail_if
  <2>6. primary_steady(looked) <=> primary_steady(bond)
    BY <2>4 DEF primary_steady
  <2> HIDE DEF looked, X, b
  <2> DEFINE seen == rebased(looked)
  <2>7. /\ seen \in Bond /\ SameManager(looked, seen) /\ SameFight(looked, seen)
        /\ seen.failed = looked.failed
        /\ seen.baseline = IF primary_steady(looked) THEN primary_state ELSE looked.baseline
    BY <2>4, RebasedFacts DEF FightsInv
  <2> HIDE DEF seen
  <2>8. /\ failing(seen) \in Bond /\ SameManager(seen, failing(seen))
        /\ SameFight(seen, failing(seen))
        /\ failing(seen).failed = IF seen.failed = 0 THEN epoch ELSE seen.failed
    BY <2>7, FailingFacts DEF FightsInv
  <2>9. /\ b \in Bond /\ SameManager(bond, b) /\ b.target = bond.target
        /\ b.killed = bond.killed /\ b.after = bond.after
        /\ \/ b.failed = bond.failed
           \/ excuse /\ bond.failed = 0 /\ b.failed = epoch
        /\ ~excuse => b.baseline = primary_state
    <3>1. CASE b = seen
      BY <2>2, <2>4, <2>6, <2>7, <3>1 DEF SameManager, SameFight
    <3>2. CASE b = failing(seen) /\ X
      BY <2>3, <2>4, <2>7, <2>8, <3>2 DEF SameManager, SameFight
    <3> QED BY <2>5, <3>1, <3>2 DEF seen
  <2>10. /\ bond' \in Bond /\ SameManager(b, bond') /\ bond'.failed = b.failed
         /\ bond'.samples = b.samples
         /\ bond' = b \/ (bond'.target = Nobody /\ ~bond'.killed /\ b.samples = 0)
    BY <2>5, <2>9, ReleasedFacts
  <2>11. ~excuse => Followed'
    <3>1. primary_state = IF owner_current THEN <<account[1]>> ELSE <<>>
      BY DEF primary_state
    <3> QED BY <1>1, <1>4, <1>5, <2>1, <2>2, <2>9, <2>10, <3>1 DEF Followed, Compared
  <2> QED BY <1>1, <1>4, <2>9, <2>10, <2>11, LookedInv DEF SameManager
<1> QED BY <1>6, <1>7, <1>8

-----------------------------------------------------------------------------
(* The owner is lost, possibly inside a blow.                                 *)

\* While the game may call back no blow has settled.
LEMMA OpenFacts ==
  ASSUME FightsInv, Open
  PROVE  /\ ~FirstPaid
         /\ \A i \in DOMAIN stack : stack[i].step = "entered"
<1>1. stack \in Seq(Scope)
  BY DEF FightsInv, Typed
<1>2. CASE stack = <<>>
  BY <1>2 DEF FirstPaid, Idle
<1>3. CASE stack # <<>>
  <2>1. Top = stack[Len(stack)] /\ DOMAIN stack = 1..Len(stack) /\ Len(stack) \in Nat
    BY <1>1, <1>3, InnermostFacts DEF Top
  <2>2. stack[Len(stack)].step = "entered"
    BY <1>3, <2>1 DEF Open, Idle
  <2>3. \A i \in DOMAIN stack : i < Len(stack) \/ i = Len(stack)
    BY <2>1
  <2> QED BY <2>1, <2>2, <2>3 DEF FightsInv, BlowsInv, BlowOK, FirstPaid
<1> QED BY <1>2, <1>3

LEMMA DisposedFacts ==
  ASSUME NEW b \in Bond, NEW blows
  PROVE  /\ dispose_if_idle(b, blows) \in Bond
         /\ dispose_if_idle(b, blows).failed = b.failed
         /\ \/ dispose_if_idle(b, blows) = b /\ (b.retiring => blows # <<>>)
            \/ /\ b.retiring /\ blows = <<>>
               /\ ~dispose_if_idle(b, blows).manager
               /\ ~dispose_if_idle(b, blows).retiring
               /\ dispose_if_idle(b, blows).target = Nobody
               /\ dispose_if_idle(b, blows).samples = 0
               /\ ~dispose_if_idle(b, blows).killed
<1>1. b.failed \in Nat
  BY DEF Bond
<1> QED BY <1>1, NoBondFacts DEF dispose_if_idle

LEMMA RetireInv ==
  ASSUME FightsInv, retire_native_awards  PROVE FightsInv'
<1> DEFINE b == [bond EXCEPT !.retiring = TRUE]
<1>1. /\ Open /\ bond' = dispose_if_idle(b, stack)
      /\ ~ready' /\ ready' \in BOOLEAN
      /\ UNCHANGED <<epoch, life, account, stack, saved, deeds, excuse>>
  BY DEF retire_native_awards
<1>2. /\ b \in Bond /\ b.retiring /\ b.manager = bond.manager /\ b.retired = bond.retired
      /\ b.failed = bond.failed /\ SameFight(bond, b)
  BY DEF FightsInv, Typed, Bond, SameFight
<1> HIDE DEF b
<1>3. /\ bond' \in Bond /\ bond'.failed = bond.failed
      /\ \/ bond' = b /\ stack # <<>>
         \/ /\ stack = <<>> /\ ~bond'.manager /\ ~bond'.retiring
            /\ bond'.target = Nobody /\ bond'.samples = 0 /\ ~bond'.killed
  BY <1>1, <1>2, DisposedFacts
<1>4. Typed'
  BY <1>1, <1>3 DEF FightsInv, Typed
<1>5. BlowsInv'
  BY <1>1, <1>2, <1>3, OpenFacts DEF FightsInv, BlowsInv, BlowOK
<1>6. OwnerInv'
  BY <1>1, <1>2, <1>3 DEF FightsInv, OwnerInv, Idle
<1>7. AccountsInv'
  BY <1>1, <1>2, <1>3 DEF FightsInv, AccountsInv
<1>8. ~owner_current' \/ bond'.target = Nobody
  BY <1>2, <1>3 DEF owner_current
<1>9. FightInv'
  <2>1. CASE bond' = b
    <3>1. Followed => Followed'
      BY <1>1, <1>2, <1>8, <2>1
      DEF Followed, SameFight, SecondStrikes, FirstPaid, Idle, Top
    <3> QED BY <1>1, <1>2, <2>1, <3>1 DEF FightsInv, FightInv, SameFight, hunt
  <2>2. CASE /\ stack = <<>> /\ bond'.target = Nobody /\ bond'.samples = 0 /\ ~bond'.killed
    <3>1. ~SecondStrikes' /\ ~FirstPaid'
      BY <1>1, <2>2 DEF SecondStrikes, FirstPaid, Idle
    <3> QED BY <2>2, <3>1 DEF FightInv, Followed
  <2> QED BY <1>3, <2>1, <2>2
<1> QED BY <1>4, <1>5, <1>6, <1>7, <1>9 DEF FightsInv

-----------------------------------------------------------------------------
(* Blows *)

LEMMA StruckInv ==
  ASSUME FightsInv, NEW by \in Creature, NEW on \in Creature, animal_damage_hook(by, on)
  PROVE  FightsInv'
<1> DEFINE scope == DamageScope(by, on)
           wrong == scope.second /\ (on # bond.target \/ ~observed(on))
<1>1. /\ Open /\ stack' = Append(stack, scope)
      /\ bond' = IF scope.second THEN fail_if(wrong, rebased(bond)) ELSE bond
      /\ excuse' = (excuse \/ wrong)
      /\ UNCHANGED <<epoch, life, account, ready, saved, deeds>>
  BY DEF animal_damage_hook
<1>2. /\ scope \in Scope /\ scope.by = by /\ scope.step = "entered"
      /\ scope.second <=> by = Second /\ owner_current
      /\ scope.latched <=> by = Second /\ live
  BY DEF DamageScope, DamageOwnerScope, Scope, Settling
<1> HIDE DEF scope
<1>3. /\ stack \in Seq(Scope) /\ bond \in Bond /\ excuse \in BOOLEAN /\ epoch \in Nat \ {0}
      /\ bond.failed \in Nat
  BY DEF FightsInv, Typed, Bond
<1>4. /\ stack' \in Seq(Scope) /\ ~Idle' /\ Len(stack') = Len(stack) + 1
      /\ DOMAIN stack' = 1..(Len(stack) + 1) /\ DOMAIN stack = 1..Len(stack)
      /\ Top' = scope /\ stack'[Len(stack) + 1] = scope
      /\ \A i \in DOMAIN stack : stack'[i] = stack[i]
  BY <1>1, <1>2, <1>3, OpenedFacts DEF Idle, Top
<1>5. /\ rebased(bond) \in Bond /\ SameManager(bond, rebased(bond))
      /\ SameFight(bond, rebased(bond)) /\ rebased(bond).failed = bond.failed
      /\ rebased(bond).baseline = IF primary_steady(bond) THEN primary_state ELSE bond.baseline
  BY <1>3, RebasedFacts DEF FightsInv
<1>6. /\ failing(rebased(bond)) \in Bond
      /\ SameManager(rebased(bond), failing(rebased(bond)))
      /\ SameFight(rebased(bond), failing(rebased(bond)))
      /\ failing(rebased(bond)).failed = IF bond.failed = 0 THEN epoch ELSE bond.failed
      /\ failing(rebased(bond)).baseline = rebased(bond).baseline
  BY <1>5, FailingFacts DEF FightsInv
<1>7. /\ bond' \in Bond /\ SameManager(bond, bond') /\ SameFight(bond, bond')
      /\ \/ bond'.failed = bond.failed
         \/ wrong /\ bond.failed = 0 /\ bond'.failed = epoch
      /\ scope.second => bond'.baseline = rebased(bond).baseline
      /\ ~scope.second => bond' = bond
  <2>1. CASE scope.second /\ wrong
    BY <1>1, <1>5, <1>6, <2>1 DEF fail_if, SameManager, SameFight
  <2>2. CASE scope.second /\ ~wrong
    <3>1. bond' = rebased(bond)
      BY <1>1, <2>2 DEF fail_if
    <3> QED BY <1>5, <2>2, <3>1
  <2>3. CASE ~scope.second
    BY <1>1, <1>3, <2>3 DEF SameManager, SameFight
  <2> QED BY <2>1, <2>2, <2>3
<1> HIDE DEF wrong
<1>8. Typed'
  BY <1>1, <1>3, <1>4, <1>7 DEF FightsInv, Typed
<1>9. BlowsInv'
  <2> SUFFICES ASSUME NEW i \in DOMAIN stack'  PROVE BlowOK(i)'
    BY DEF BlowsInv
  <2>1. CASE i \in DOMAIN stack
    <3>1. stack'[i] = stack[i] /\ stack[i].step = "entered"
      BY <1>1, <1>4, <2>1, OpenFacts
    <3> QED BY <1>1, <1>7, <2>1, <3>1 DEF FightsInv, BlowsInv, BlowOK, SameManager
  <2>2. CASE i = Len(stack) + 1
    <3>1. stack'[i] = scope
      BY <1>4, <2>2
    <3>2. scope.second => by = Second /\ bond'.manager
      BY <1>2, <1>7 DEF owner_current, SameManager
    <3>3. scope.latched => by = Second /\ (scope.second \/ life[First] = "gone")
      BY <1>2 DEF live, owner_present, FightsInv, OwnerInv, owner_current
    <3> QED BY <1>1, <1>2, <1>4, <2>2, <3>1, <3>2, <3>3 DEF BlowOK
  <2> QED BY <1>3, <1>4, <2>1, <2>2
<1>10. OwnerInv'
  <2>1. wrong => excuse'
    BY <1>1
  <2> QED BY <1>1, <1>3, <1>4, <1>7, <2>1 DEF FightsInv, OwnerInv, SameManager
<1>11. AccountsInv'
  BY <1>1, <1>7 DEF FightsInv, AccountsInv, SameManager
<1>12. ~FirstPaid' /\ ~FirstPaid
  BY <1>1, <1>2, <1>4, OpenFacts DEF FirstPaid
<1>13. (~wrong /\ Followed) => Followed'
  <2> SUFFICES ASSUME ~wrong, Followed  PROVE Followed'
    OBVIOUS
  <2>1. owner_current' <=> owner_current
    BY <1>1, <1>7 DEF owner_current, SameManager
  <2>2. SecondStrikes' <=> SecondStrikes \/ scope.second
    <3>1. \A i \in DOMAIN stack' : i \in DOMAIN stack \/ i = Len(stack) + 1
      BY <1>3, <1>4
    <3>2. DOMAIN stack \subseteq DOMAIN stack' /\ Len(stack) + 1 \in DOMAIN stack'
      BY <1>3, <1>4
    <3> QED BY <1>4, <3>1, <3>2 DEF SecondStrikes
  <2>3. CASE scope.second
    <3>1. on = bond.target /\ on \in Wild /\ owner_current /\ bond.target # Nobody
      BY <1>2, <2>3, FightAssumption DEF wrong, observed
    <3>2. Compared
      BY <3>1 DEF Followed
    <3>3. primary_state = <<account[1]>> /\ primary_state # <<>>
      BY <3>1, PrimaryState DEF FightsInv
    <3>4. primary_steady(bond)
      BY <1>12, <3>2, <3>3 DEF Compared, primary_steady
    <3>5. bond'.baseline = <<account'[1]>>
      BY <1>1, <1>5, <1>7, <2>3, <3>3, <3>4
    <3> QED BY <1>1, <1>7, <1>12, <3>1, <3>5 DEF Followed, Compared, SameFight
  <2>4. CASE ~scope.second
    BY <1>1, <1>7, <1>12, <2>1, <2>2, <2>4 DEF Followed, Compared
  <2> QED BY <2>3, <2>4
<1>14. FightInv'
  <2>1. excuse' \/ Followed'
    BY <1>1, <1>3, <1>13 DEF FightsInv, FightInv
  <2> QED BY <1>1, <1>7, <2>1 DEF FightsInv, FightInv, SameFight, SameManager, hunt
<1> QED BY <1>8, <1>9, <1>10, <1>11, <1>14 DEF FightsInv

\* The innermost blow goes on to its next step.
LEMMA StepFacts ==
  ASSUME FightsInv, ~Idle, NEW to \in Settling, Step(to)
  PROVE  /\ stack' \in Seq(Scope) /\ ~Idle'
         /\ Len(stack') = Len(stack) /\ DOMAIN stack' = DOMAIN stack
         /\ Len(stack) \in DOMAIN stack /\ Top = stack[Len(stack)] /\ Top \in Scope
         /\ Top' = stack'[Len(stack)] /\ Top'.step = to
         /\ Top'.by = Top.by /\ BlowOK(Len(stack))
         /\ \A i \in DOMAIN stack :
              /\ stack'[i].by = stack[i].by /\ stack'[i].second = stack[i].second
              /\ stack'[i].latched = stack[i].latched
              /\ i < Len(stack) => stack'[i].step = stack[i].step
         /\ SecondStrikes' <=> SecondStrikes
         /\ Top.second => SecondStrikes
<1>1. stack \in Seq(Scope) /\ stack # <<>>
  BY DEF FightsInv, Typed, Idle
<1>2. stack' = Stepped(stack, to)
  BY DEF Step, Stepped
<1>3. /\ stack' \in Seq(Scope) /\ stack' # <<>>
      /\ Len(stack') = Len(stack) /\ DOMAIN stack' = DOMAIN stack
      /\ stack'[Len(stack)].step = to /\ Last(stack') = stack'[Len(stack)]
      /\ \A i \in DOMAIN stack :
           /\ stack'[i].by = stack[i].by /\ stack'[i].second = stack[i].second
           /\ stack'[i].latched = stack[i].latched
           /\ i < Len(stack) => stack'[i].step = stack[i].step
  BY <1>1, <1>2, SteppedFacts
<1>4. /\ Len(stack) \in DOMAIN stack /\ Top = stack[Len(stack)] /\ Top \in Scope
  BY <1>1, InnermostFacts DEF Top
<1>5. Top' = stack'[Len(stack)]
  BY <1>3 DEF Top
<1>6. SecondStrikes' <=> SecondStrikes
  BY <1>3 DEF SecondStrikes
<1>7. BlowOK(Len(stack)) /\ (Top.second => SecondStrikes)
  BY <1>4 DEF FightsInv, BlowsInv, SecondStrikes
<1> QED BY <1>3, <1>4, <1>5, <1>6, <1>7 DEF Idle

LEMMA SteppedBlows ==
  ASSUME FightsInv, ~Idle, NEW to \in Settling, Step(to),
         bond'.manager <=> bond.manager, ready' = ready,
         life'[First] = "gone" <=> life[First] = "gone",
         life'[Second] = "gone" <=> life[Second] = "gone",
         to \in {"relate", "reward"} =>
           \/ Top.by = First
           \/ Top.by = Second /\ Top.latched /\ owner_present
  PROVE  BlowsInv'
<1> SUFFICES ASSUME NEW i \in DOMAIN stack'  PROVE BlowOK(i)'
  BY DEF BlowsInv
<1>1. /\ Len(stack') = Len(stack) /\ i \in DOMAIN stack
      /\ stack'[i].by = stack[i].by /\ stack'[i].second = stack[i].second
      /\ stack'[i].latched = stack[i].latched
      /\ i < Len(stack) => stack'[i].step = stack[i].step
  BY StepFacts
<1>2. BlowOK(i)
  BY <1>1 DEF FightsInv, BlowsInv
<1>3. owner_present' <=> owner_present
  BY DEF owner_present
<1>4. CASE i < Len(stack)
  BY <1>1, <1>2, <1>3, <1>4 DEF BlowOK
<1>5. CASE i = Len(stack)
  <2>1. Top = stack[i] /\ stack'[i].step = to
    BY <1>5, StepFacts
  <2> QED BY <1>1, <1>2, <1>3, <1>5, <2>1 DEF BlowOK
<1>6. i < Len(stack) \/ i = Len(stack)
  BY <1>1 DEF FightsInv, Typed
<1> QED BY <1>4, <1>5, <1>6

LEMMA HitInv ==
  ASSUME FightsInv, NEW kill \in BOOLEAN, Hit(kill)  PROVE FightsInv'
<1> DEFINE killed == kill /\ life[Top.on] = "live"
           to == IF killed /\ Top.on \in Wild /\ (Top.by = First \/ owned_damage)
                 THEN "relate" ELSE "done"
<1>1. /\ ~Idle /\ Top.step = "entered" /\ Step(to)
      /\ life' = IF killed THEN [life EXCEPT ![Top.on] = "dead"] ELSE life
      /\ UNCHANGED <<epoch, account, bond, ready, saved, deeds, excuse>>
  BY DEF Hit
<1>2. to \in Settling /\ to # "reward"
  BY DEF Settling
<1>3. to \in {"relate", "reward"} =>
        Top.by = First \/ (Top.by = Second /\ Top.latched /\ owner_present)
  BY DEF owned_damage
<1> HIDE DEF to
<1>4. /\ stack' \in Seq(Scope) /\ ~Idle' /\ Top \in Scope /\ Top'.step = to
      /\ SecondStrikes' <=> SecondStrikes
  BY <1>1, <1>2, StepFacts
<1>5. /\ life' \in [Creature -> Life]
      /\ \A c \in Creature : /\ life'[c] = "gone" <=> life[c] = "gone"
                             /\ life'[c] = "live" => life[c] = "live"
  BY <1>1, <1>4 DEF FightsInv, Typed, Life, Scope
<1>6. First \in Creature /\ Second \in Creature
  BY DEF Creature
<1>7. Typed'
  BY <1>1, <1>4, <1>5 DEF FightsInv, Typed
<1>8. BlowsInv'
  BY <1>1, <1>2, <1>3, <1>5, <1>6, SteppedBlows
<1>9. OwnerInv'
  BY <1>1, <1>4, <1>5, <1>6 DEF FightsInv, OwnerInv
<1>10. AccountsInv'
  BY <1>1, <1>5, <1>6 DEF FightsInv, AccountsInv
<1>11. Followed => Followed'
  <2>1. ~FirstPaid
    BY <1>1 DEF FirstPaid
  <2>2. owner_current' => owner_current
    BY <1>1, <1>5, <1>6 DEF owner_current
  <2>3. bond.target # Nobody => bond.target \in Creature
    BY DEF FightsInv, FightInv, Creature
  <2> QED BY <1>1, <1>2, <1>4, <1>5, <2>1, <2>2, <2>3 DEF Followed, Compared
<1>12. FightInv'
  BY <1>1, <1>11 DEF FightsInv, FightInv, hunt
<1> QED BY <1>7, <1>8, <1>9, <1>10, <1>12 DEF FightsInv

\* A result is given to the player whose blow it is while the first is there.
LEMMA KillInv ==
  ASSUME FightsInv, followed_action  PROVE FightsInv'
<1> DEFINE p == manager_hook
           q == OwnerOf(Top.by)
           unexpected == p = 2 /\ ~observed(Top.on)
           b == fail_if(unexpected, bond)
<1>1. /\ ~Idle /\ Top.step = "relate" /\ Step("reward")
      /\ account' = [account EXCEPT ![p] = count(@)]
      /\ deeds' = [deeds EXCEPT ![q] = count(@)]
      /\ excuse' = (excuse \/ unexpected \/ (p = 1 /\ \E i \in DOMAIN stack : stack[i].second))
      /\ UNCHANGED <<epoch, life, ready, saved>>
  BY DEF followed_action
<1>2. bond' = IF p = 1 THEN bond
              ELSE [b EXCEPT !.after = <<account'[2].killed, account'[2].first>>,
                             !.killed = TRUE, !.samples = Samples]
  BY DEF followed_action
<1>3. "reward" \in Settling
  BY DEF Settling
<1>4. /\ stack' \in Seq(Scope) /\ ~Idle' /\ Top \in Scope /\ BlowOK(Len(stack))
      /\ Top = stack[Len(stack)]
      /\ Top'.step = "reward" /\ Top'.by = Top.by /\ Len(stack) \in DOMAIN stack
      /\ SecondStrikes' <=> SecondStrikes
      /\ Top.second => SecondStrikes
  BY <1>1, <1>3, StepFacts
<1>5. p \in Owner /\ q \in Owner /\ (p = 2 <=> bond.manager /\ Top.second)
  BY DEF manager_hook, OwnerOf, Owner
<1>6. /\ Top.second => Top.by = Second /\ bond.manager
      /\ \/ Top.by = First
         \/ Top.by = Second /\ Top.latched /\ owner_present
      /\ Top.latched => Top.second \/ life[First] = "gone"
  BY <1>1, <1>4 DEF BlowOK
<1>7. life[First] # "gone" => p = q
  BY <1>5, <1>6, FightAssumption DEF OwnerOf, manager_hook
<1>8. \A r \in Result : count(r) \in Result
  BY DEF count, event_hook, Result
<1>9. /\ account \in Results /\ deeds \in Results /\ bond \in Bond
      /\ excuse \in BOOLEAN /\ epoch \in Nat \ {0} /\ bond.failed \in Nat
  BY DEF FightsInv, Typed, Bond
<1> HIDE DEF p, q
<1>10. /\ account' \in Results /\ deeds' \in Results
       /\ account'[p] = count(account[p]) /\ deeds'[q] = count(deeds[q])
       /\ \A o \in Owner : /\ o # p => account'[o] = account[o]
                           /\ o # q => deeds'[o] = deeds[o]
  BY <1>1, <1>5, <1>8, <1>9 DEF Results
<1>11. <<account'[2].killed, account'[2].first>> \in Nat \X Nat
  BY <1>10 DEF Results, Owner, Result
<1>12. /\ b \in Bond /\ SameManager(bond, b) /\ SameFight(bond, b)
       /\ b.baseline = bond.baseline
       /\ \/ b.failed = bond.failed
          \/ unexpected /\ bond.failed = 0 /\ b.failed = epoch
  BY <1>9, FailingFacts DEF FightsInv, fail_if, SameManager, SameFight
<1> HIDE DEF b, unexpected
<1>13. ASSUME p = 2
       PROVE  /\ bond' \in Bond /\ SameManager(bond, bond') /\ bond'.failed = b.failed
              /\ bond'.target = bond.target /\ bond'.active = bond.active
              /\ bond'.baseline = bond.baseline
              /\ bond'.after = <<account'[2].killed, account'[2].first>>
  <2> DEFINE c == [b EXCEPT !.after = <<account'[2].killed, account'[2].first>>]
  <2>1. c \in Bond /\ SameManager(bond, c) /\ c.failed = b.failed
        /\ c.target = bond.target /\ c.active = bond.active /\ c.baseline = bond.baseline
        /\ c.after = <<account'[2].killed, account'[2].first>>
    BY <1>11, <1>12 DEF Bond, SameManager, SameFight
  <2>2. bond' = [c EXCEPT !.killed = TRUE, !.samples = Samples]
    BY <1>2, <1>13
  <2> HIDE DEF c
  <2> QED BY <2>1, <2>2, FightAssumption DEF Bond, SameManager
<1>14. p = 1 => bond' = bond
  BY <1>2
<1>15. bond' \in Bond /\ SameManager(bond, bond')
       /\ \/ bond'.failed = bond.failed
          \/ unexpected /\ bond.failed = 0 /\ bond'.failed = epoch
  BY <1>5, <1>9, <1>12, <1>13, <1>14 DEF Owner, SameManager
<1>16. Typed'
  BY <1>1, <1>4, <1>9, <1>10, <1>15 DEF FightsInv, Typed
<1>17. BlowsInv'
  BY <1>1, <1>3, <1>6, <1>15, SteppedBlows DEF SameManager
<1>18. OwnerInv'
  <2>1. unexpected => excuse'
    BY <1>1
  <2>2. excuse => excuse'
    BY <1>1
  <2> QED BY <1>1, <1>4, <1>9, <1>15, <2>1, <2>2 DEF FightsInv, OwnerInv, SameManager
<1>19. AccountsInv'
  BY <1>1, <1>5, <1>7, <1>10, <1>15 DEF FightsInv, AccountsInv, SameManager, Owner
<1>20. CASE p = 1
  <2>1. bond' = bond /\ account'[2] = account[2]
    BY <1>10, <1>14, <1>20 DEF Owner
  <2>2. ~excuse' => ~excuse /\ ~SecondStrikes
    BY <1>1, <1>9, <1>20 DEF SecondStrikes
  <2>3. ~excuse' => Followed'
    <3> SUFFICES ASSUME ~excuse'  PROVE Followed'
      OBVIOUS
    <3>1. Followed /\ ~SecondStrikes /\ ~SecondStrikes'
      BY <1>4, <2>2 DEF FightsInv, FightInv
    <3>2. Top.by = First \/ ~owner_current'
      BY <1>1, <1>4, <1>6, <3>1 DEF owner_current
    <3>3. Top.by = First => FirstPaid'
      BY <1>4 DEF FirstPaid
    <3> QED BY <1>1, <2>1, <3>1, <3>2, <3>3 DEF Followed, Compared
  <2>4. FightInv'
    BY <2>1, <2>3 DEF FightsInv, FightInv, hunt
  <2> QED BY <1>16, <1>17, <1>18, <1>19, <2>4 DEF FightsInv
<1>21. CASE p = 2
  <2>1. Top.second /\ SecondStrikes /\ account'[1] = account[1]
    BY <1>4, <1>5, <1>10, <1>21 DEF Owner
  <2>2. ~FirstPaid /\ ~FirstPaid'
    BY <1>1, <1>4, <1>6, <2>1, FightAssumption DEF FirstPaid
  <2>3. Followed => Followed'
    <3>1. owner_current' <=> owner_current
      BY <1>1, <1>15 DEF owner_current, SameManager
    <3> QED BY <1>1, <1>4, <1>13, <1>21, <2>1, <2>2, <3>1 DEF Followed, Compared
  <2>4. excuse => excuse'
    BY <1>1
  <2>5. FightInv'
    BY <1>13, <1>21, <2>3, <2>4 DEF FightsInv, FightInv, hunt, SameManager
  <2> QED BY <1>16, <1>17, <1>18, <1>19, <2>5 DEF FightsInv
<1> QED BY <1>5, <1>20, <1>21 DEF Owner

LEMMA RewardInv ==
  ASSUME FightsInv, award_damage  PROVE FightsInv'
<1> DEFINE p == IF owned_damage THEN 2 ELSE 1
           q == OwnerOf(Top.by)
<1>1. /\ ~Idle /\ Top.step = "reward" /\ Step("done")
      /\ account' = [account EXCEPT ![p].dna = @ + 1]
      /\ deeds' = [deeds EXCEPT ![q].dna = @ + 1]
      /\ UNCHANGED <<epoch, life, bond, ready, saved, excuse>>
  BY DEF award_damage
<1>2. "done" \in Settling
  BY DEF Settling
<1>3. /\ stack' \in Seq(Scope) /\ ~Idle' /\ Top \in Scope /\ BlowOK(Len(stack))
      /\ Top = stack[Len(stack)]
      /\ Top'.step = "done" /\ Top'.by = Top.by
      /\ SecondStrikes' <=> SecondStrikes
  BY <1>1, <1>2, StepFacts
<1>4. p \in Owner /\ p = q /\ (p = 1 <=> Top.by = First)
  <2>1. \/ Top.by = First
        \/ Top.by = Second /\ owned_damage
    BY <1>1, <1>3 DEF BlowOK, owned_damage
  <2>2. owned_damage => Top.by = Second
    BY DEF owned_damage
  <2> QED BY <2>1, <2>2, FightAssumption DEF Owner, OwnerOf
<1> HIDE DEF p, q
<1>5. account \in Results /\ deeds \in Results /\ account[p] \in Result /\ deeds[p] \in Result
  BY <1>4 DEF FightsInv, Typed, Results
<1> DEFINE r == [account[p] EXCEPT !.dna = @ + 1]
           d == [deeds[p] EXCEPT !.dna = @ + 1]
<1>6. /\ r \in Result /\ d \in Result /\ (account[p] = deeds[p] => r = d)
      /\ r.killed = account[p].killed /\ r.first = account[p].first
  BY <1>5 DEF Result
<1>7. account' = [account EXCEPT ![p] = r] /\ deeds' = [deeds EXCEPT ![p] = d]
  BY <1>1, <1>4, <1>5 DEF Results
<1> HIDE DEF r, d
<1>8. /\ account' \in Results /\ deeds' \in Results /\ account'[p] = r /\ deeds'[p] = d
      /\ \A o \in Owner : o # p => account'[o] = account[o] /\ deeds'[o] = deeds[o]
  BY <1>4, <1>5, <1>6, <1>7 DEF Results
<1>9. Typed'
  BY <1>1, <1>3, <1>8 DEF FightsInv, Typed
<1>10. BlowsInv'
  BY <1>1, <1>2, SteppedBlows
<1>11. OwnerInv'
  BY <1>1, <1>3 DEF FightsInv, OwnerInv
<1>12. AccountsInv'
  BY <1>1, <1>4, <1>6, <1>8 DEF FightsInv, AccountsInv, Owner
<1>13. hunt(2)' = hunt(2)
  <2>1. account'[2].killed = account[2].killed /\ account'[2].first = account[2].first
    BY <1>4, <1>6, <1>8 DEF Owner
  <2> QED BY <2>1 DEF hunt
<1>14. Followed => Followed'
  <2>1. owner_current' <=> owner_current
    BY <1>1 DEF owner_current
  <2>2. CASE Top.by = First
    <3>1. FirstPaid /\ FirstPaid'
      BY <1>1, <1>3, <2>2 DEF FirstPaid
    <3>2. Followed => ~SecondStrikes'
      BY <1>1, <1>3, <3>1 DEF Followed
    <3> QED BY <1>1, <1>3, <3>1, <3>2 DEF Followed, Compared
  <2>3. CASE Top.by # First
    <3>1. ~FirstPaid /\ ~FirstPaid'
      BY <1>3, <2>3 DEF FirstPaid
    <3>2. account'[1] = account[1]
      BY <1>4, <1>8, <2>3 DEF Owner
    <3> QED BY <1>1, <1>3, <2>1, <3>1, <3>2 DEF Followed, Compared
  <2> QED BY <2>2, <2>3
<1>15. FightInv'
  BY <1>1, <1>13, <1>14 DEF FightsInv, FightInv
<1> QED BY <1>9, <1>10, <1>11, <1>12, <1>15 DEF FightsInv

\* The comparison after a blow fails only for a reason, and the manager goes
\* with the last blow.
LEMMA ReturnInv ==
  ASSUME FightsInv, damage_return  PROVE FightsInv'
<1> DEFINE changed == Top.second /\ ~same_primary(bond.baseline, primary_state)
           compared == [fail_if(changed, bond) EXCEPT !.samples = Samples]
           acted == [bond EXCEPT !.active = TRUE]
           b == IF Top.second THEN compared
                ELSE IF bond.target # Nobody /\ First \in {Top.by, Top.on} THEN acted
                ELSE bond
<1>1. /\ ~Idle /\ Top.step = "done" /\ stack' = Front(stack)
      /\ bond' = dispose_if_idle(b, stack')
      /\ excuse' = (excuse \/ (Top.second /\ ~owner_current))
      /\ UNCHANGED <<epoch, life, account, ready, saved, deeds>>
  BY DEF damage_return
<1>2. /\ stack \in Seq(Scope) /\ stack # <<>> /\ bond \in Bond /\ excuse \in BOOLEAN
      /\ epoch \in Nat \ {0} /\ bond.failed \in Nat /\ bond.samples \in Nat
  BY <1>1 DEF FightsInv, Typed, Idle, Bond
<1>3. /\ Len(stack) \in DOMAIN stack /\ Top = stack[Len(stack)] /\ Top \in Scope
  BY <1>2, InnermostFacts DEF Top
<1>4. BlowOK(Len(stack))
  BY <1>3 DEF FightsInv, BlowsInv
<1>5. /\ stack' \in Seq(Scope)
      /\ DOMAIN stack' \subseteq DOMAIN stack
      /\ \A i \in DOMAIN stack : i = Len(stack) \/ i \in DOMAIN stack'
      /\ \A i \in DOMAIN stack' : stack'[i] = stack[i] /\ i < Len(stack)
  BY <1>1, <1>2, ClosedFacts
<1>6. SecondStrikes' => SecondStrikes
  BY <1>5 DEF SecondStrikes
<1>7. Top.second => SecondStrikes
  BY <1>3 DEF SecondStrikes
<1>8. ~FirstPaid' /\ \A i \in DOMAIN stack' : stack'[i].step = "entered"
  <2>1. \A i \in DOMAIN stack' : stack'[i].step = "entered"
    BY <1>5 DEF FightsInv, BlowsInv, BlowOK
  <2>2. ~Idle' => Top' = stack'[Len(stack')] /\ Len(stack') \in DOMAIN stack'
    BY <1>5, InnermostFacts DEF Idle, Top
  <2> QED BY <2>1, <2>2 DEF FirstPaid
<1>9. changed => excuse'
  <2> SUFFICES ASSUME Top.second, ~same_primary(bond.baseline, primary_state),
                      owner_current, ~excuse
               PROVE  FALSE
    BY <1>1, <1>2
  <2>1. bond.target # Nobody /\ Compared
    BY <1>7 DEF FightsInv, FightInv, Followed
  <2>2. bond.baseline = <<account[1]>>
    BY <1>7, <2>1 DEF Compared
  <2> QED BY <2>2 DEF same_primary, primary_state
<1>10. /\ compared \in Bond /\ SameManager(bond, compared) /\ compared.target = bond.target
       /\ compared.samples = Samples /\ compared.killed = bond.killed
       /\ compared.after = bond.after /\ compared.active = bond.active
       /\ compared.baseline = bond.baseline
       /\ \/ compared.failed = bond.failed
          \/ changed /\ bond.failed = 0 /\ compared.failed = epoch
  <2> DEFINE c == fail_if(changed, bond)
  <2>1. /\ c \in Bond /\ SameManager(bond, c) /\ SameFight(bond, c)
        /\ c.baseline = bond.baseline
        /\ \/ c.failed = bond.failed
           \/ changed /\ bond.failed = 0 /\ c.failed = epoch
    BY <1>2, FailingFacts DEF FightsInv, fail_if, SameManager, SameFight
  <2> HIDE DEF c, changed
  <2>2. compared = [c EXCEPT !.samples = Samples]
    BY DEF c
  <2> QED BY <2>1, <2>2, FightAssumption DEF Bond, SameManager, SameFight
<1>11. /\ acted \in Bond /\ SameManager(bond, acted) /\ acted.target = bond.target
       /\ acted.samples = bond.samples /\ acted.killed = bond.killed
       /\ acted.after = bond.after /\ acted.failed = bond.failed /\ acted.active
       /\ acted.baseline = bond.baseline
  BY <1>2 DEF Bond, SameManager
<1> HIDE DEF changed, compared, acted
<1>12. /\ b \in Bond /\ SameManager(bond, b) /\ b.target = bond.target
       /\ b.killed = bond.killed /\ b.after = bond.after
       /\ \/ b.failed = bond.failed
          \/ changed /\ bond.failed = 0 /\ b.failed = epoch
       /\ Top.second \/ b.samples = bond.samples
       /\ b.baseline = bond.baseline /\ (bond.active => b.active)
       /\ ~Top.second /\ bond.target # Nobody /\ Top.by = First => b.active
  <2>1. CASE Top.second
    BY <1>10, <2>1
  <2>2. CASE ~Top.second /\ bond.target # Nobody /\ First \in {Top.by, Top.on}
    BY <1>11, <2>2
  <2>3. CASE ~Top.second /\ ~(bond.target # Nobody /\ First \in {Top.by, Top.on})
    BY <1>2, <2>3 DEF SameManager
  <2> QED BY <2>1, <2>2, <2>3
<1> HIDE DEF b
<1>13. /\ bond' \in Bond /\ bond'.failed = b.failed
       /\ \/ bond' = b /\ (b.retiring => stack' # <<>>)
          \/ /\ b.retiring /\ stack' = <<>>
             /\ ~bond'.manager /\ ~bond'.retiring
             /\ bond'.target = Nobody /\ bond'.samples = 0 /\ ~bond'.killed
  BY <1>1, <1>12, DisposedFacts
<1>14. excuse => excuse'
  BY <1>1
<1>15. Typed'
  BY <1>1, <1>2, <1>5, <1>13 DEF FightsInv, Typed
<1>16. BlowsInv'
  <2> SUFFICES ASSUME NEW i \in DOMAIN stack'  PROVE BlowOK(i)'
    BY DEF BlowsInv
  <2>1. stack'[i] = stack[i] /\ BlowOK(i) /\ stack'[i].step = "entered"
    BY <1>5, <1>8 DEF FightsInv, BlowsInv
  <2>2. stack' # <<>>
    OBVIOUS
  <2>3. bond' = b
    BY <1>13, <2>2
  <2> QED BY <1>1, <1>12, <2>1, <2>3 DEF BlowOK, SameManager
<1>17. OwnerInv'
  <2>1. bond'.failed = epoch => excuse'
    BY <1>2, <1>9, <1>12, <1>13, <1>14 DEF FightsInv, OwnerInv
  <2>2. bond'.failed <= epoch /\ (bond.manager => bond'.failed \in {0, epoch})
    BY <1>2, <1>12, <1>13 DEF FightsInv, OwnerInv
  <2>3. CASE bond' = b /\ (b.retiring => stack' # <<>>)
    BY <1>1, <1>12, <1>14, <2>1, <2>2, <2>3 DEF FightsInv, OwnerInv, SameManager, Idle
  <2>4. CASE b.retiring /\ ~bond'.manager /\ ~bond'.retiring
    BY <1>1, <1>12, <2>1, <2>2, <2>4 DEF FightsInv, OwnerInv, SameManager
  <2> QED BY <1>13, <2>3, <2>4
<1>18. AccountsInv'
  BY <1>1, <1>12, <1>13 DEF FightsInv, AccountsInv, SameManager
<1>19. FightInv'
  <2>1. CASE bond' = b
    <3>1. Followed => Followed'
      <4> SUFFICES ASSUME Followed  PROVE Followed'
        OBVIOUS
      <4>1. owner_current' <=> owner_current
        BY <1>1, <1>12, <2>1 DEF owner_current, SameManager
      <4>2. bond'.samples > 0 \/ SecondStrikes' => bond'.target # Nobody
        BY <1>6, <1>7, <1>12, <2>1 DEF Followed
      <4>3. bond'.target # Nobody => life'[bond'.target] # "gone"
        BY <1>1, <1>12, <2>1 DEF Followed
      <4>4. owner_current' /\ bond'.target # Nobody => Compared'
        <5> SUFFICES ASSUME owner_current, bond.target # Nobody  PROVE Compared'
          BY <1>12, <2>1, <4>1
        <5>1. Compared
          BY DEF Followed
        <5>2. CASE Top.second
          BY <1>1, <1>7, <1>12, <2>1, <5>1, <5>2 DEF Compared
        <5>3. CASE bond.baseline = <<account[1]>>
          BY <1>1, <1>12, <2>1, <5>3 DEF Compared
        <5>4. CASE ~Top.second /\ ~SecondStrikes /\ (bond.active \/ FirstPaid)
          BY <1>6, <1>12, <2>1, <5>4 DEF Compared, FirstPaid
        <5> QED BY <5>1, <5>2, <5>3, <5>4 DEF Compared
      <4> QED BY <1>8, <4>2, <4>3, <4>4 DEF Followed
    <3> QED BY <1>1, <1>12, <1>14, <2>1, <3>1
            DEF FightsInv, FightInv, SameManager, hunt
  <2>2. CASE /\ stack' = <<>> /\ bond'.target = Nobody /\ bond'.samples = 0 /\ ~bond'.killed
    <3>1. ~SecondStrikes'
      BY <2>2 DEF SecondStrikes
    <3> QED BY <1>8, <2>2, <3>1 DEF FightInv, Followed
  <2> QED BY <1>13, <2>1, <2>2
<1> QED BY <1>15, <1>16, <1>17, <1>18, <1>19 DEF FightsInv

-----------------------------------------------------------------------------
(* The specification *)

LEMMA FightsBegin ==
  Init => FightsInv
<1> SUFFICES ASSUME Init  PROVE FightsInv
  OBVIOUS
<1>1. NoAccount \in Result
  BY DEF NoAccount, Result
<1>2. /\ epoch = 1 /\ life = [c \in Creature |-> "live"] /\ bond = NoBond
      /\ account = [p \in Owner |-> NoAccount] /\ deeds = account
      /\ ready = FALSE /\ excuse = FALSE /\ stack = <<>>
      /\ saved = [second |-> FALSE, account |-> account, deeds |-> account]
  BY DEF Init
<1>3. /\ bond \in Bond /\ bond.failed = 0 /\ bond.target = Nobody /\ bond.samples = 0
      /\ ~bond.manager /\ ~bond.killed /\ ~bond.retiring
  BY <1>2 DEF NoBond, Bond
<1>4. account \in Results
  BY <1>1, <1>2 DEF Results
<1>5. Typed
  <2>1. saved \in Save
    BY <1>2, <1>4 DEF Save
  <2>2. life \in [Creature -> Life] /\ stack \in Seq(Scope)
    BY <1>2 DEF Life
  <2>3. ready \in BOOLEAN /\ excuse \in BOOLEAN
    BY <1>2
  <2>4. epoch \in Nat \ {0} /\ deeds \in Results
    BY <1>2, <1>4
  <2> QED BY <1>3, <1>4, <2>1, <2>2, <2>3, <2>4 DEF Typed
<1>6. BlowsInv /\ ~SecondStrikes /\ ~FirstPaid
  BY <1>2, NoBlows
<1>7. OwnerInv /\ AccountsInv
  BY <1>2, <1>3 DEF OwnerInv, AccountsInv
<1>8. FightInv
  BY <1>3, <1>6 DEF FightInv, Followed
<1> QED BY <1>5, <1>6, <1>7, <1>8 DEF FightsInv

LEMMA FightsIdle ==
  ASSUME FightsInv, UNCHANGED vars  PROVE FightsInv'
<1>1. UNCHANGED <<epoch, life, account, bond, ready, stack, saved, deeds, excuse>>
  BY DEF vars
<1>2. Typed' /\ AccountsInv' /\ OwnerInv'
  BY <1>1 DEF FightsInv, Typed, AccountsInv, OwnerInv, Idle
<1>3. BlowsInv'
  BY <1>1 DEF FightsInv, BlowsInv, BlowOK, owner_present
<1>4. FightInv'
  BY <1>1 DEF FightsInv, FightInv, Followed, Compared, SecondStrikes, FirstPaid, Idle,
              Top, owner_current, hunt
<1> QED BY <1>2, <1>3, <1>4 DEF FightsInv

LEMMA FightsStep ==
  ASSUME FightsInv, Next  PROVE FightsInv'
<1>1. CASE enable_native_awards \/ restore_native_awards \/ retire_native_awards
  BY <1>1, EnableInv, RestoreInv, RetireInv
<1>2. CASE write_checkpoint \/ LoadScene
  BY <1>2, CheckpointInv, LoadInv
<1>3. CASE native_relationship_primary_input_ready \/ PrimaryProgress
  BY <1>3, PrimaryInputInv, ProgressInv
<1>4. CASE sample_native_relationships
  BY <1>4, SampleInv
<1>5. ASSUME NEW c \in Creature,
             \/ native_relationship_preflight(c)
             \/ invalidate_native_relationship_entity(c)
             \/ \E on \in Creature : animal_damage_hook(c, on)
      PROVE  FightsInv'
  BY <1>5, PreflightInv, DepartureInv, StruckInv
<1>6. CASE Blow
  BY <1>6, HitInv, KillInv, RewardInv, ReturnInv DEF Blow
<1> QED BY <1>1, <1>2, <1>3, <1>4, <1>5, <1>6 DEF Next

\* In every reachable state the blows, the owner, the accounts and the fight
\* followed are as FightsInv says, whatever nests inside whatever.
THEOREM FightsInvariant == Spec => []FightsInv
<1>1. FightsInv /\ [Next]_vars => FightsInv'
  BY FightsStep, FightsIdle
<1> QED BY FightsBegin, <1>1, PTL DEF Spec

\* For any depth of blows, any number of scenes, saves and departures: while the
\* first player's creature is in the world each player's results are its own.
THEOREM ResultsAlwaysStay == Spec => []ResultsStayWithTheirHunter
<1>1. FightsInv => ResultsStayWithTheirHunter
  BY DEF FightsInv, AccountsInv, ResultsStayWithTheirHunter
<1> QED BY FightsInvariant, <1>1, PTL

\* Combat never ends for a scene without one of the reasons `excuse` records:
\* the comparisons of sample, damage and departure raise no false alarm.
THEOREM AlarmsAlwaysJustified == Spec => []AlarmsAreJustified
<1>1. FightsInv => AlarmsAreJustified
  BY DEF FightsInv, OwnerInv, AlarmsAreJustified
<1> QED BY FightsInvariant, <1>1, PTL

\* No departure, load or return deletes a manager that a blow in progress uses.
THEOREM BlowsAlwaysKeepTheirManager == Spec => []BlowsKeepTheirManager
<1>1. FightsInv => BlowsKeepTheirManager
  BY DEF FightsInv, BlowsInv, BlowOK, BlowsKeepTheirManager
<1> QED BY FightsInvariant, <1>1, PTL

-----------------------------------------------------------------------------
(* The second player's rewards *)

Players == {1, 2}
Award == [dna : Nat, queue : Nat, goal : Nat]
Herd == [field_48 : BOOLEAN, b_world_pending : BOOLEAN, world_saved_a : BOOLEAN,
         world_selected : BOOLEAN, alternate_world : BOOLEAN, running : BOOLEAN,
         stepped : BOOLEAN]

\* What of the history the herd's inputs are compared with.
Raised(t) == "raised" \in DOMAIN t /\ t.raised \in [Players -> BOOLEAN]

Counted(a) ==
  /\ a \in [Players -> Award]
  /\ \A p \in Players : a[p].dna = a[p].goal + a[p].queue

\* Where each player's input is.
Inputs(h, t) ==
  /\ h \in Herd /\ Raised(t)
  /\ t.raised[1] <=> IF h.world_selected THEN h.world_saved_a ELSE h.field_48
  /\ t.raised[2] <=> IF h.world_selected THEN h.field_48 ELSE h.b_world_pending
  /\ h.world_selected => h.running /\ h.stepped

\* A checkpoint.
KeptWell(k) ==
  /\ Counted(k.award) /\ \A p \in Players : k.award[p].queue = 0
  /\ k.field_48 \in BOOLEAN /\ k.pending \in BOOLEAN /\ Raised(k.truth)
  /\ k.truth.raised[1] <=> k.field_48
  /\ k.truth.raised[2] <=> k.pending

RewardsInv ==
  /\ Counted(award) /\ Inputs(herd, truth)
  /\ kept # <<>> => KeptWell(Head(kept))

LEMMA OutsideUnchanged ==
  ASSUME NEW S, NEW T, NEW f \in [S -> T], NEW p, p \notin S, NEW e
  PROVE  [f EXCEPT ![p] = e] = f
OBVIOUS

LEMMA ScopedCounts ==
  ASSUME NEW a, Counted(a), NEW p
  PROVE  Counted(StageScope(a, p))
<1> DEFINE b == StageScope(a, p)
<1>1. CASE p \in Players
  <2> DEFINE x == [a[p] EXCEPT !.dna = @ + 1]
             w == [x EXCEPT !.queue = @ + 1]
  <2>1. a \in [Players -> Award] /\ a[p] \in Award
    BY <1>1 DEF Counted
  <2>2. b = [a EXCEPT ![p] = w]
    BY <1>1, <2>1 DEF StageScope
  <2>3. /\ x \in Award /\ x.dna = a[p].dna + 1
        /\ x.goal = a[p].goal /\ x.queue = a[p].queue
    BY <2>1 DEF Award
  <2> HIDE DEF b, x
  <2>4. w \in Award /\ w.dna = x.dna /\ w.goal = x.goal /\ w.queue = x.queue + 1
    BY <2>3 DEF Award
  <2>5. a[p].dna = a[p].goal + a[p].queue
    BY <1>1 DEF Counted
  <2>6. w.dna = w.goal + w.queue
    BY <2>1, <2>3, <2>4, <2>5 DEF Award
  <2> HIDE DEF w
  <2> QED BY <2>1, <2>2, <2>4, <2>6 DEF Counted, b
<1>2. CASE p \notin Players
  <2>1. a \in [Players -> Award]
    BY DEF Counted
  <2>2. DOMAIN b = Players
    BY <2>1 DEF StageScope
  <2>3. \A q \in Players : b[q] = a[q]
    BY <1>2, <2>1 DEF StageScope
  <2>4. b = [q \in Players |-> b[q]]
    BY <2>1 DEF StageScope
  <2>5. b = a
    BY <2>1, <2>3, <2>4
  <2> QED BY <2>5 DEF b
<1> QED BY <1>1, <1>2

\* A step that gives at most one reward and leaves the herd's inputs.
LEMMA GivenInv ==
  ASSUME RewardsInv, NEW p, award' \in {award, StageScope(award, p)},
         herd' = herd, truth'.raised = truth.raised, "raised" \in DOMAIN truth',
         kept' = kept
  PROVE  RewardsInv'
<1>1. Counted(award')
  BY ScopedCounts DEF RewardsInv
<1>2. Inputs(herd', truth')
  BY DEF RewardsInv, Inputs, Raised
<1> QED BY <1>1, <1>2 DEF RewardsInv

LEMMA CountedInv ==
  ASSUME RewardsInv, NEW p \in Players, counter_tick(p)  PROVE RewardsInv'
<1>1. award[p].queue > 0 /\ (p = 2 => ~herd.running) /\ kept' = kept
  BY DEF counter_tick
<1>2. \/ herd' = herd /\ truth' = truth
      \/ herd' = world_pending_action(herd, p) /\ truth' = [truth EXCEPT !.raised[p] = TRUE]
  BY DEF counter_tick
<1>3. award' = [award EXCEPT ![p].queue = @ - 1, ![p].goal = @ + 1]
  BY DEF counter_tick
<1> DEFINE x == [award[p] EXCEPT !.queue = @ - 1]
           w == [x EXCEPT !.goal = @ + 1]
<1>4. award \in [Players -> Award] /\ award[p] \in Award
      /\ award[p].dna = award[p].goal + award[p].queue
  BY DEF RewardsInv, Counted
<1>5. award' = [award EXCEPT ![p] = w]
  BY <1>3, <1>4
<1>6. x \in Award /\ x.dna = award[p].dna /\ x.goal = award[p].goal
      /\ x.queue = award[p].queue - 1
  BY <1>1, <1>4 DEF Award
<1> HIDE DEF x
<1>7. w \in Award /\ w.dna = x.dna /\ w.queue = x.queue /\ w.goal = x.goal + 1
  BY <1>6 DEF Award
<1>8. w.dna = w.goal + w.queue
  BY <1>4, <1>6, <1>7 DEF Award
<1> HIDE DEF w
<1>9. Counted(award')
  BY <1>4, <1>5, <1>7, <1>8 DEF RewardsInv, Counted
<1>10. Inputs(herd', truth')
  <2>1. CASE herd' = herd /\ truth' = truth
    BY <2>1 DEF RewardsInv
  <2>2. herd \in Herd /\ (herd.world_selected => herd.running)
    BY DEF RewardsInv, Inputs
  <2>3. CASE /\ herd' = world_pending_action(herd, p)
            /\ truth' = [truth EXCEPT !.raised[p] = TRUE]
    <3>1. /\ Raised(truth') /\ truth'.raised[p]
          /\ \A q \in Players : q # p => truth'.raised[q] = truth.raised[q]
      BY <2>3 DEF RewardsInv, Inputs, Raised
    <3>2. CASE p = 2
      <4>1. herd' = [herd EXCEPT !.b_world_pending = TRUE]
        BY <2>3, <3>2 DEF world_pending_action
      <4>2. /\ herd' \in Herd /\ herd'.b_world_pending /\ herd'.field_48 = herd.field_48
            /\ ~herd'.world_selected /\ ~herd.world_selected
        BY <1>1, <2>2, <3>2, <4>1 DEF Herd
      <4> QED BY <3>1, <3>2, <4>2 DEF RewardsInv, Inputs, Players
    <3>3. CASE p = 1 /\ herd.world_selected
      <4>1. herd' = [herd EXCEPT !.world_saved_a = TRUE]
        BY <2>3, <3>3 DEF world_pending_action
      <4>2. /\ herd' \in Herd /\ herd'.world_saved_a /\ herd'.field_48 = herd.field_48
            /\ herd'.world_selected /\ herd'.running = herd.running
            /\ herd'.stepped = herd.stepped
        BY <2>2, <3>3, <4>1 DEF Herd
      <4> QED BY <3>1, <3>3, <4>2 DEF RewardsInv, Inputs, Players
    <3>4. CASE p = 1 /\ ~herd.world_selected
      <4>1. herd' = [herd EXCEPT !.field_48 = TRUE]
        BY <2>3, <3>4 DEF world_pending_action
      <4>2. /\ herd' \in Herd /\ herd'.field_48 /\ ~herd'.world_selected
            /\ herd'.b_world_pending = herd.b_world_pending
        BY <2>2, <3>4, <4>1 DEF Herd
      <4> QED BY <3>1, <3>4, <4>2 DEF RewardsInv, Inputs, Players
    <3> QED BY <3>2, <3>3, <3>4 DEF Players
  <2> QED BY <1>2, <2>1, <2>3
<1> QED BY <1>1, <1>9, <1>10 DEF RewardsInv

LEMMA UpdateBeginsInv ==
  ASSUME RewardsInv, update_begins  PROVE RewardsInv'
<1>1. /\ ~herd.running
      /\ herd' = [herd EXCEPT !.running = TRUE, !.stepped = FALSE, !.world_selected = FALSE]
      /\ UNCHANGED <<award, kept, truth>>
  BY DEF update_begins
<1>2. /\ herd' \in Herd /\ ~herd'.world_selected /\ ~herd.world_selected
      /\ herd'.field_48 = herd.field_48 /\ herd'.b_world_pending = herd.b_world_pending
  BY <1>1 DEF RewardsInv, Inputs, Herd
<1>3. Inputs(herd', truth')
  BY <1>1, <1>2 DEF RewardsInv, Inputs
<1> QED BY <1>1, <1>3 DEF RewardsInv

LEMMA GoalInv ==
  ASSUME RewardsInv, goal_hook  PROVE RewardsInv'
<1> DEFINE s == goal_selected(herd)
           whose == IF s.world_selected THEN 2 ELSE 1
<1>1. /\ herd.running /\ ~herd.stepped
      /\ \/ herd' = [s EXCEPT !.stepped = TRUE] /\ truth' = truth
         \/ /\ herd' = [s EXCEPT !.stepped = TRUE, !.field_48 = FALSE]
            /\ truth' = [truth EXCEPT !.raised[whose] = FALSE]
      /\ UNCHANGED <<award, kept>>
  BY DEF goal_hook
<1>2. herd \in Herd /\ Raised(truth) /\ ~herd.world_selected
      /\ (truth.raised[1] <=> herd.field_48) /\ (truth.raised[2] <=> herd.b_world_pending)
  BY <1>1 DEF RewardsInv, Inputs
<1>3. /\ s \in Herd /\ s.running
      /\ truth.raised[1] <=> IF s.world_selected THEN s.world_saved_a ELSE s.field_48
      /\ truth.raised[2] <=> IF s.world_selected THEN s.field_48 ELSE s.b_world_pending
  <2>1. CASE s = herd
    BY <1>1, <1>2, <2>1
  <2>2. CASE s = [herd EXCEPT !.world_saved_a = herd.field_48, !.world_selected = TRUE,
                              !.field_48 = herd.b_world_pending]
    <3>1. /\ s \in Herd /\ s.running /\ s.world_selected
          /\ s.world_saved_a = herd.field_48 /\ s.field_48 = herd.b_world_pending
      BY <1>1, <1>2, <2>2 DEF Herd
    <3> QED BY <1>2, <3>1
  <2> QED BY <2>1, <2>2 DEF goal_selected
<1> HIDE DEF s
<1>4. CASE herd' = [s EXCEPT !.stepped = TRUE] /\ truth' = truth
  <2>1. /\ herd' \in Herd /\ herd'.running /\ herd'.stepped
        /\ herd'.world_selected = s.world_selected /\ herd'.field_48 = s.field_48
        /\ herd'.world_saved_a = s.world_saved_a
        /\ herd'.b_world_pending = s.b_world_pending
    BY <1>3, <1>4 DEF Herd
  <2>2. Inputs(herd', truth')
    BY <1>2, <1>3, <1>4, <2>1 DEF Inputs
  <2> QED BY <1>1, <2>2 DEF RewardsInv
<1>5. CASE /\ herd' = [s EXCEPT !.stepped = TRUE, !.field_48 = FALSE]
           /\ truth' = [truth EXCEPT !.raised[whose] = FALSE]
  <2>1. /\ herd' \in Herd /\ herd'.running /\ herd'.stepped
        /\ herd'.world_selected = s.world_selected /\ ~herd'.field_48
        /\ herd'.world_saved_a = s.world_saved_a
        /\ herd'.b_world_pending = s.b_world_pending
    BY <1>3, <1>5 DEF Herd
  <2>2. /\ Raised(truth') /\ ~truth'.raised[whose]
        /\ \A q \in Players : q # whose => truth'.raised[q] = truth.raised[q]
    BY <1>2, <1>5 DEF Raised, Players
  <2>3. Inputs(herd', truth')
    BY <1>3, <2>1, <2>2 DEF Inputs, Players
  <2> QED BY <1>1, <2>3 DEF RewardsInv
<1> QED BY <1>1, <1>4, <1>5

LEMMA UpdateReturnsInv ==
  ASSUME RewardsInv, update_hook  PROVE RewardsInv'
<1> DEFINE h == update_returns(herd)
<1>1. /\ herd' = [h EXCEPT !.world_selected = FALSE, !.world_saved_a = FALSE,
                           !.running = FALSE, !.stepped = FALSE, !.alternate_world = ~@]
      /\ UNCHANGED <<award, kept, truth>>
  BY DEF update_hook
<1>2. /\ h \in Herd
      /\ truth.raised[1] <=> h.field_48
      /\ truth.raised[2] <=> h.b_world_pending
  <2>1. CASE herd.world_selected
    <3>1. h = [herd EXCEPT !.b_world_pending = herd.field_48, !.field_48 = herd.world_saved_a]
      BY <2>1 DEF update_returns
    <3>2. /\ h \in Herd /\ h.field_48 = herd.world_saved_a
          /\ h.b_world_pending = herd.field_48
      BY <3>1 DEF RewardsInv, Inputs, Herd
    <3> QED BY <2>1, <3>2 DEF RewardsInv, Inputs
  <2>2. CASE ~herd.world_selected
    BY <2>2 DEF RewardsInv, Inputs, update_returns
  <2> QED BY <2>1, <2>2
<1> HIDE DEF h
<1>3. /\ herd' \in Herd /\ ~herd'.world_selected /\ herd'.field_48 = h.field_48
      /\ herd'.b_world_pending = h.b_world_pending
  BY <1>1, <1>2 DEF Herd
<1>4. Inputs(herd', truth')
  BY <1>1, <1>2, <1>3 DEF RewardsInv, Inputs
<1> QED BY <1>1, <1>4 DEF RewardsInv

LEMMA DamageRewardInv ==
  ASSUME RewardsInv, NEW p \in Players, damage_rewarded(p)  PROVE RewardsInv'
<1>1. award' = StageScope(award, p) /\ UNCHANGED <<herd, truth, kept>>
  BY DEF damage_rewarded
<1> QED BY <1>1, GivenInv DEF RewardsInv, Inputs, Raised

LEMMA HerdInv ==
  ASSUME RewardsInv, HerdNext  PROVE RewardsInv'
<1>1. ASSUME NEW p \in {1, 2}, damage_rewarded(p) \/ counter_tick(p)  PROVE RewardsInv'
  BY <1>1, DamageRewardInv, CountedInv DEF Players
<1> QED BY <1>1, UpdateBeginsInv, GoalInv, UpdateReturnsInv DEF HerdNext

\* A step that rewards nobody.
LEMMA NothingGivenInv ==
  ASSUME RewardsInv, award' = award, herd' = herd, truth'.raised = truth.raised,
         "raised" \in DOMAIN truth', kept' = kept
  PROVE  RewardsInv'
BY GivenInv

LEMMA MealsInv ==
  ASSUME RewardsInv, MealsNext  PROVE RewardsInv'
<1>1. "raised" \in DOMAIN truth
  BY DEF RewardsInv, Inputs, Raised
<1>2. ASSUME NEW by \in Eater,
             \/ pickup_tick_dispatch(by)
             \/ \E c \in Corpse : native_pickup_order(by, c)
      PROVE  RewardsInv'
  <2>1. UNCHANGED <<award, herd, truth, kept>>
    BY <1>2 DEF pickup_tick_dispatch, native_pickup_order
  <2> QED BY <1>1, <2>1, NothingGivenInv
<1>3. CASE TakeClaim \/ Feed \/ TickReturns
  <2>1. UNCHANGED <<award, herd, truth, kept>>
    BY <1>3 DEF TakeClaim, Feed, TickReturns
  <2> QED BY <1>1, <2>1, NothingGivenInv
<1>4. CASE award_corpse_first_feed
  <2>1. /\ award' \in {award, StageScope(award, Inner.by)}
        /\ herd' = herd /\ kept' = kept
    BY <1>4 DEF award_corpse_first_feed
  <2>2. \/ truth' = truth
        \/ truth' = [truth EXCEPT !.paid = Append(@, [body |-> Inner.body, to |-> Inner.by])]
    BY <1>4 DEF award_corpse_first_feed
  <2>3. truth'.raised = truth.raised /\ "raised" \in DOMAIN truth'
    BY <1>1, <2>2
  <2> QED BY <2>1, <2>3, GivenInv
<1>5. CASE pickup_action
  <2>1. /\ award' \in {award, StageScope(award, Inner.by)}
        /\ UNCHANGED <<herd, truth, kept>>
    BY <1>5 DEF pickup_action
  <2> QED BY <1>1, <2>1, GivenInv
<1>6. ASSUME NEW c \in Corpse, CorpseVanishes(c)  PROVE RewardsInv'
  <2>1. UNCHANGED <<award, herd, truth, kept>>
    BY <1>6 DEF CorpseVanishes
  <2> QED BY <1>1, <2>1, NothingGivenInv
<1>7. ASSUME NEW c \in Corpse, CorpseAppears(c)  PROVE RewardsInv'
  <2>1. /\ UNCHANGED <<award, herd, kept>>
        /\ truth' = [truth EXCEPT !.bodies = @ + 1]
    BY <1>7 DEF CorpseAppears
  <2>2. truth'.raised = truth.raised /\ "raised" \in DOMAIN truth'
    BY <1>1, <2>1
  <2> QED BY <2>1, <2>2, NothingGivenInv
<1> QED BY <1>2, <1>3, <1>4, <1>5, <1>6, <1>7 DEF MealsNext

LEMMA CauseKeeps ==
  ASSUME RewardsInv, NEW s, NEW by
  PROVE  Caused(s, by).raised = truth.raised /\ "raised" \in DOMAIN Caused(s, by)
BY DEF Caused, RewardsInv, Inputs, Raised

LEMMA SocialInv ==
  ASSUME RewardsInv, SocialNext  PROVE RewardsInv'
<1>1. "raised" \in DOMAIN truth
  BY DEF RewardsInv, Inputs, Raised
<1>2. CASE ensure_native_network_player_controller \/ receipt_expires
  <2>1. UNCHANGED <<award, herd, truth, kept>>
    BY <1>2 DEF ensure_native_network_player_controller, receipt_expires
  <2> QED BY <1>1, <2>1, NothingGivenInv
<1>3. CASE \/ cancel_native_network_social_owner
           \/ update_native_network_social_owner
  <2>1. UNCHANGED <<award, herd, truth, kept>>
    BY <1>3 DEF cancel_native_network_social_owner, update_native_network_social_owner
  <2> QED BY <1>1, <2>1, NothingGivenInv
<1>4. CASE result_hook
  <2>1. /\ award' = StageScope(award, 2) /\ herd' = herd /\ kept' = kept
        /\ truth' = truth \/ truth' = Caused(social.with, 2)
    BY <1>4 DEF result_hook
  <2>2. truth'.raised = truth.raised /\ "raised" \in DOMAIN truth'
    BY <1>1, <2>1, CauseKeeps
  <2> QED BY <2>1, <2>2, GivenInv
<1>5. CASE first_result
  <2>1. /\ award' = StageScope(award, 1) /\ herd' = herd /\ kept' = kept
        /\ truth' = Caused(social.first, 1)
    BY <1>5 DEF first_result
  <2>2. truth'.raised = truth.raised /\ "raised" \in DOMAIN truth'
    BY <2>1, CauseKeeps
  <2> QED BY <2>1, <2>2, GivenInv
<1>6. ASSUME NEW s \in Other, perform_social(s) \/ first_greets(s)  PROVE RewardsInv'
  <2>1. UNCHANGED <<award, herd, truth, kept>>
    BY <1>6 DEF perform_social, first_greets
  <2> QED BY <1>1, <2>1, NothingGivenInv
<1>7. ASSUME NEW s \in Other, evaluate_objective(s)  PROVE RewardsInv'
  <2>1. PICK to \in {1, 2} : award' \in {award, StageScope(award, to)}
    BY <1>7 DEF evaluate_objective
  <2>2. herd' = herd /\ kept' = kept
    BY <1>7 DEF evaluate_objective
  <2>3. truth'.raised = truth.raised /\ "raised" \in DOMAIN truth'
    BY <1>1, <1>7 DEF evaluate_objective
  <2> QED BY <2>1, <2>2, <2>3, GivenInv
<1> QED BY <1>2, <1>3, <1>4, <1>5, <1>6, <1>7 DEF SocialNext

LEMMA LivesInv ==
  ASSUME RewardsInv, SecondDies \/ SecondReturns  PROVE RewardsInv'
<1>1. UNCHANGED <<award, herd, truth, kept>>
  BY DEF SecondDies, SecondReturns
<1> QED BY <1>1, NothingGivenInv DEF RewardsInv, Inputs, Raised

\* A checkpoint is taken when nothing is queued and no input stands in.
LEMMA SnapshotInv ==
  ASSUME RewardsInv, snapshot_native_awards  PROVE RewardsInv'
<1> DEFINE k == [award |-> award, bodies |-> [c \in Corpse |-> corpses[c].body],
                 grants |-> grants, relation |-> relation, field_48 |-> herd.field_48,
                 pending |-> herd.b_world_pending, truth |-> truth]
<1>1. /\ ~herd.running /\ kept' = <<k>> /\ UNCHANGED <<award, herd, truth>>
      /\ \A p \in Players : award[p].queue = 0
  BY DEF snapshot_native_awards, native_awards_checkpoint_idle, Players
<1>2. k.award = award /\ k.field_48 = herd.field_48 /\ k.pending = herd.b_world_pending
      /\ k.truth = truth
  OBVIOUS
<1> HIDE DEF k
<1>3. Head(kept') = k
  BY <1>1
<1>4. ~herd.world_selected /\ herd \in Herd
  BY <1>1 DEF RewardsInv, Inputs
<1>5. KeptWell(k)
  BY <1>1, <1>2, <1>4 DEF RewardsInv, KeptWell, Inputs, Herd
<1> QED BY <1>1, <1>3, <1>5 DEF RewardsInv

LEMMA RestoredInv ==
  ASSUME RewardsInv, native_awards_restored  PROVE RewardsInv'
<1> DEFINE k == Head(kept)
<1>1. /\ kept # <<>> /\ kept' = kept
      /\ award' = [p \in {1, 2} |-> [k.award[p] EXCEPT !.queue = 0]]
      /\ herd' = [NoHerd EXCEPT !.field_48 = k.field_48, !.b_world_pending = k.pending]
      /\ truth' = [k.truth EXCEPT !.reloads = truth.reloads + 1]
  BY DEF native_awards_restored
<1>2. KeptWell(k)
  BY <1>1 DEF RewardsInv
<1> HIDE DEF k
<1>3. Counted(award')
  <2>1. ASSUME NEW p \in Players
        PROVE  /\ award'[p] \in Award
               /\ award'[p].dna = award'[p].goal + award'[p].queue
    <3>1. award'[p] = [k.award[p] EXCEPT !.queue = 0]
      BY <1>1 DEF Players
    <3>2. k.award[p] \in Award /\ k.award[p].queue = 0
          /\ k.award[p].dna = k.award[p].goal + k.award[p].queue
      BY <1>2 DEF KeptWell, Counted
    <3> QED BY <3>1, <3>2 DEF Award
  <2>2. award' = [p \in Players |-> award'[p]]
    BY <1>1 DEF Players
  <2> QED BY <2>1, <2>2 DEF Counted
<1>4. /\ herd' \in Herd /\ ~herd'.world_selected
      /\ herd'.field_48 = k.field_48 /\ herd'.b_world_pending = k.pending
  BY <1>1, <1>2 DEF KeptWell, NoHerd, Herd
<1>5. Raised(truth') /\ truth'.raised = k.truth.raised
  BY <1>1, <1>2 DEF KeptWell, Raised
<1>6. Inputs(herd', truth')
  BY <1>2, <1>4, <1>5 DEF KeptWell, Inputs
<1>7. kept' # <<>> => KeptWell(Head(kept'))
  BY <1>1 DEF RewardsInv
<1> QED BY <1>3, <1>6, <1>7 DEF RewardsInv

LEMMA RewardsBegin ==
  RewardsInit => RewardsInv
<1> SUFFICES ASSUME RewardsInit  PROVE RewardsInv
  OBVIOUS
<1>1. Counted(award)
  BY DEF RewardsInit, NoAward, Counted, Award, Players
<1>2. Inputs(herd, truth)
  BY DEF RewardsInit, NoHerd, Inputs, Raised, Herd, Players
<1> QED BY <1>1, <1>2 DEF RewardsInit, RewardsInv

\* In every reachable state the rewards and the herd's inputs are as RewardsInv
\* says, also while the second player's input stands in for the first's.
THEOREM RewardsInvariant == RewardsSpec => []RewardsInv
<1>1. RewardsInv /\ RewardsNext => RewardsInv'
  BY LivesInv, HerdInv, MealsInv, SocialInv, SnapshotInv, RestoredInv DEF RewardsNext
<1>2. RewardsInv /\ UNCHANGED rewards => RewardsInv'
  BY DEF rewards, RewardsInv
<1>3. RewardsInv /\ [RewardsNext]_rewards => RewardsInv'
  BY <1>1, <1>2
<1> QED BY RewardsBegin, <1>3, PTL DEF RewardsSpec

\* Whatever kills, meals, social results, updates, deaths and reloads come: every
\* reward is counted or queued, and a raised herd input waits for its own player.
THEOREM EarningsAlwaysKept == RewardsSpec => []EarningsAreKept
<1>1. RewardsInv => EarningsAreKept
  <2> SUFFICES ASSUME RewardsInv  PROVE EarningsAreKept
    OBVIOUS
  <2>1. \A p \in {1, 2} : award[p].dna = award[p].goal + award[p].queue
    BY DEF RewardsInv, Counted, Players
  <2>2. ASSUME ~herd.running
        PROVE  truth.raised = <<herd.field_48, herd.b_world_pending>>
    <3>1. /\ truth.raised \in [{1, 2} -> BOOLEAN] /\ herd \in Herd
          /\ truth.raised[1] <=> herd.field_48
          /\ truth.raised[2] <=> herd.b_world_pending
      BY <2>2 DEF RewardsInv, Inputs, Raised, Players
    <3>2. truth.raised[1] = herd.field_48 /\ truth.raised[2] = herd.b_world_pending
      BY <3>1 DEF Herd
    <3>3. {1, 2} = 1..2
      OBVIOUS
    <3> QED BY <3>1, <3>2, <3>3
  <2> QED BY <2>1, <2>2 DEF EarningsAreKept
<1> QED BY RewardsInvariant, <1>1, PTL

-----------------------------------------------------------------------------
(* Who is paid: meals and missions                                            *)

History ==
  [raised : [Players -> BOOLEAN], paid : Seq([body : Nat \ {0}, to : Players]),
   bodies : Nat, reloads : Nat, cause : [Other -> 0..2], won : [Other -> 0..2],
   mixed : [Other -> BOOLEAN], excused : [Other -> BOOLEAN]]

Carcass == [body : Nat, claimant : 0..3, eaten : BOOLEAN]
Tick == [by : Eater, on : Corpse, body : Nat, scope : BOOLEAN, before : BOOLEAN,
         step : {"entered", "fed", "paid", "returning"}, observed : BOOLEAN]
Exchange == [mode : Nat, completed : BOOLEAN, with : Other \cup {None}, first : Other \cup {None}]
Relations == [Other -> [count : Nat, friend : BOOLEAN]]
Receipt == [pending : BOOLEAN, fresh : BOOLEAN, species : Other \cup {None}, before : Nat]

PaymentsTyped ==
  /\ foreign \in BOOLEAN /\ truth \in History
  /\ corpses \in [Corpse -> Carcass] /\ meals \in [Eater -> Corpse \cup {None}]
  /\ ticks \in Seq(Tick) /\ grants \in [Corpse -> 0..2]
  /\ social \in Exchange
  /\ relation \in Relations /\ objective \in Relations /\ receipt \in Receipt

\* The body b was paid for, to p.
Paid(t, b, p) == \E i \in DOMAIN t.paid : t.paid[i] = [body |-> b, to |-> p]

\* Every body is one corpse's, and is paid for once.
Numbered(body, t) ==
  /\ \A c \in Corpse : body[c] <= t.bodies
  /\ \A c, d \in Corpse : body[c] = body[d] => c = d \/ body[c] = None
  /\ \A i \in DOMAIN t.paid : t.paid[i].body <= t.bodies
  /\ \A i, j \in DOMAIN t.paid : t.paid[i].body = t.paid[j].body => i = j

\* A grant names whom the corpse was paid to.
Granted(body, g, t) ==
  \A c \in Corpse : g[c] # None => body[c] # None /\ Paid(t, body[c], g[c])

\* Between ticks, a corpse that was paid for has its grant.
Settled(body, g, t) ==
  \A c \in Corpse, p \in Players : Paid(t, body[c], p) => g[c] = p

Bodies == [c \in Corpse |-> corpses[c].body]
PaidFor(t, b) == \E p \in Players : Paid(t, b, p)

\* A tick in progress.
TickOK(T) ==
  /\ T.body \in 1..truth.bodies
  /\ T.by \in Players => T.scope
  /\ \A c \in Corpse : corpses[c].body = T.body => c = T.on
  /\ T.step = "fed" \/ T.observed => T.by \in Players /\ ~T.before
  /\ corpses[T.on].body = T.body /\ (T.before \/ T.step = "fed") => corpses[T.on].eaten
  /\ T.step = "fed" => ~PaidFor(truth, T.body)
  /\ T.step \in {"entered", "fed"} => ~T.observed
  /\ T.observed => Paid(truth, T.body, T.by)

\* Of a corpse that was paid for, the grant is there or the tick that will
\* leave it is in progress.
OwedOrGranted ==
  \A c \in Corpse, p \in Players : Paid(truth, corpses[c].body, p) =>
    /\ corpses[c].eaten
    /\ grants[c] = p \/ \E i \in DOMAIN ticks :
                           ticks[i].observed /\ ticks[i].body = corpses[c].body

MealsOK ==
  /\ Numbered(Bodies, truth) /\ Granted(Bodies, grants, truth) /\ OwedOrGranted
  /\ \A e \in Eater : meals[e] # None => corpses[meals[e]].body # None
  /\ \A i \in DOMAIN ticks : TickOK(ticks[i])
  /\ \A i, j \in DOMAIN ticks :
       ticks[i].step = "fed" /\ ticks[j].step = "fed" /\ ticks[i].body = ticks[j].body => i = j

\* What is said of a species befriended.
MissionOK(s, r, o, t) ==
  /\ t.cause[s] # None <=> r[s].friend
  /\ o[s].friend => r[s].friend
  /\ t.cause[s] = 2 => ~foreign
  /\ t.won[s] # None => /\ o[s].friend
                        /\ t.won[s] = t.cause[s] \/ (t.won[s] = 1 /\ t.excused[s])

\* Until the mission looks, the receipt of the second's result is as it was, or
\* something is recorded that spoiled it.
ReceiptOK(s) ==
  /\ receipt.pending /\ receipt.species = s => truth.cause[s] = 2
  /\ /\ truth.cause[s] = 2 /\ ~objective[s].friend
     /\ receipt.species = s /\ ~truth.mixed[s]
     => /\ receipt.pending
        /\ objective[s] = [count |-> receipt.before, friend |-> FALSE]
        /\ relation[s] = [count |-> receipt.before + 1, friend |-> TRUE]

MissionsOK == \A s \in Other : MissionOK(s, relation, objective, truth) /\ ReceiptOK(s)

\* A checkpoint.
KeptPayments(k) ==
  /\ k.truth \in History /\ k.bodies \in [Corpse -> Nat] /\ k.grants \in [Corpse -> 0..2]
  /\ k.relation \in Relations
  /\ Numbered(k.bodies, k.truth) /\ Granted(k.bodies, k.grants, k.truth)
  /\ Settled(k.bodies, k.grants, k.truth)
  /\ \A s \in Other : MissionOK(s, k.relation, k.relation, k.truth)

PaymentsInv ==
  /\ PaymentsTyped /\ MealsOK /\ MissionsOK
  /\ kept # <<>> => KeptPayments(Head(kept))

\* Pushing, changing and popping the last of a sequence.
LEMMA PushedFacts ==
  ASSUME NEW S, NEW s \in Seq(S), NEW t \in S
  PROVE  /\ Append(s, t) \in Seq(S) /\ Len(Append(s, t)) = Len(s) + 1
         /\ DOMAIN Append(s, t) = DOMAIN s \cup {Len(s) + 1} /\ Len(s) + 1 \notin DOMAIN s
         /\ Append(s, t)[Len(s) + 1] = t
         /\ \A i \in DOMAIN s : Append(s, t)[i] = s[i]
OBVIOUS

LEMMA LastFacts ==
  ASSUME NEW S, NEW s \in Seq(S), s # <<>>
  PROVE  /\ Len(s) \in DOMAIN s /\ Last(s) = s[Len(s)] /\ Last(s) \in S
         /\ \A t \in S : /\ [s EXCEPT ![Len(s)] = t] \in Seq(S)
                         /\ DOMAIN [s EXCEPT ![Len(s)] = t] = DOMAIN s
                         /\ [s EXCEPT ![Len(s)] = t][Len(s)] = t
                         /\ \A i \in DOMAIN s \ {Len(s)} : [s EXCEPT ![Len(s)] = t][i] = s[i]
BY DEF Last

LEMMA PoppedFacts ==
  ASSUME NEW S, NEW s \in Seq(S), s # <<>>
  PROVE  /\ Front(s) \in Seq(S) /\ DOMAIN s = DOMAIN Front(s) \cup {Len(s)}
         /\ Len(s) \notin DOMAIN Front(s)
         /\ \A i \in DOMAIN Front(s) : Front(s)[i] = s[i]
<1>1. Len(s) \in Nat \ {0} /\ DOMAIN s = 1..Len(s)
  OBVIOUS
<1>2. Front(s) = SubSeq(s, 1, Len(s) - 1)
  BY DEF Front
<1>3. Front(s) \in Seq(S) /\ Len(Front(s)) = Len(s) - 1
      /\ \A i \in 1..(Len(s) - 1) : Front(s)[i] = s[i]
  BY <1>1, <1>2
<1>4. DOMAIN Front(s) = 1..(Len(s) - 1)
  BY <1>3
<1> QED BY <1>1, <1>3, <1>4

\* What is kept while meals go on elsewhere.
SamePayments(t) == t.paid = truth.paid /\ t.bodies = truth.bodies
SameMissions(t) ==
  /\ t.cause = truth.cause /\ t.won = truth.won
  /\ t.mixed = truth.mixed /\ t.excused = truth.excused

LEMMA MealsStay ==
  ASSUME MealsOK, UNCHANGED <<corpses, meals, ticks, grants>>, SamePayments(truth')
  PROVE  MealsOK'
<1>1. Bodies' = Bodies
  BY DEF Bodies
<1>2. \A b, p : Paid(truth', b, p) <=> Paid(truth, b, p)
  BY DEF Paid, SamePayments
<1>3. Numbered(Bodies', truth')
  BY <1>1 DEF MealsOK, Numbered, SamePayments
<1>4. Granted(Bodies', grants', truth')
  BY <1>1, <1>2 DEF MealsOK, Granted
<1>5. OwedOrGranted'
  BY <1>2 DEF MealsOK, OwedOrGranted
<1>6. ASSUME NEW i \in DOMAIN ticks  PROVE TickOK(ticks[i])'
  BY <1>2 DEF MealsOK, TickOK, PaidFor, SamePayments
<1> QED BY <1>3, <1>4, <1>5, <1>6 DEF MealsOK

LEMMA MissionsStay ==
  ASSUME MissionsOK, UNCHANGED <<foreign, relation, objective, receipt>>,
         SameMissions(truth')
  PROVE  MissionsOK'
<1>1. ASSUME NEW s \in Other
      PROVE  MissionOK(s, relation, objective, truth)' /\ ReceiptOK(s)'
  <2>1. MissionOK(s, relation, objective, truth) /\ ReceiptOK(s)
    BY DEF MissionsOK
  <2>2. MissionOK(s, relation, objective, truth)'
    BY <2>1 DEF MissionOK, SameMissions
  <2>3. ReceiptOK(s)'
    BY <2>1 DEF ReceiptOK, SameMissions
  <2> QED BY <2>2, <2>3
<1> QED BY <1>1 DEF MissionsOK

LEMMA CheckpointStays ==
  ASSUME PaymentsInv, UNCHANGED <<foreign, kept>>
  PROVE  kept' # <<>> => KeptPayments(Head(kept))'
<1>1. ASSUME NEW k, KeptPayments(k), NEW s \in Other
      PROVE  MissionOK(s, k.relation, k.relation, k.truth)'
  BY <1>1 DEF KeptPayments, MissionOK
<1>2. \A k : KeptPayments(k) => KeptPayments(k)'
  BY <1>1 DEF KeptPayments
<1> QED BY <1>2 DEF PaymentsInv

\* A step outside meals and missions.
LEMMA ElsewhereKeeps ==
  ASSUME PaymentsInv,
         UNCHANGED <<foreign, corpses, meals, ticks, grants, relation, objective, receipt, kept>>,
         social' \in Exchange,
         truth' \in History, SamePayments(truth'), SameMissions(truth')
  PROVE  PaymentsInv'
<1>1. MealsOK' /\ MissionsOK'
  BY MealsStay, MissionsStay DEF PaymentsInv
<1>2. PaymentsTyped'
  BY DEF PaymentsInv, PaymentsTyped
<1> QED BY <1>1, <1>2, CheckpointStays DEF PaymentsInv
\* A step of a meal.
LEMMA MealStepKeeps ==
  ASSUME PaymentsInv, MealsOK',
         UNCHANGED <<foreign, social, relation, objective, receipt, kept>>,
         truth' \in History, SameMissions(truth'),
         corpses' \in [Corpse -> Carcass], meals' \in [Eater -> Corpse \cup {None}],
         ticks' \in Seq(Tick), grants' \in [Corpse -> 0..2]
  PROVE  PaymentsInv'
<1>1. MissionsOK'
  BY MissionsStay DEF PaymentsInv
<1>2. PaymentsTyped'
  BY DEF PaymentsInv, PaymentsTyped
<1> QED BY <1>1, <1>2, CheckpointStays DEF PaymentsInv

\* A corpse's part of MealsOK, for a step that leaves bodies, payments and grants.
LEMMA BodiesStay ==
  ASSUME MealsOK, \A c \in Corpse : corpses'[c].body = corpses[c].body,
         grants' = grants, SamePayments(truth')
  PROVE  /\ Numbered(Bodies', truth') /\ Granted(Bodies', grants', truth')
         /\ \A b, p : Paid(truth', b, p) <=> Paid(truth, b, p)
<1>1. Bodies' = Bodies
  BY DEF Bodies
<1>2. \A b, p : Paid(truth', b, p) <=> Paid(truth, b, p)
  BY DEF Paid, SamePayments
<1>3. Numbered(Bodies', truth')
  BY <1>1 DEF MealsOK, Numbered, SamePayments
<1> QED BY <1>1, <1>2, <1>3 DEF MealsOK, Granted

LEMMA DispatchPays ==
  ASSUME PaymentsInv, NEW by \in Eater, pickup_tick_dispatch(by)  PROVE PaymentsInv'
<1> DEFINE T == [by |-> by, on |-> meals[by], body |-> corpses[meals[by]].body,
                 scope |-> scope_of(by), before |-> corpses[meals[by]].eaten,
                 step |-> "entered", observed |-> FALSE]
           n == Len(ticks) + 1
<1>1. /\ meals[by] # None /\ ticks' = Append(ticks, T)
      /\ UNCHANGED <<foreign, corpses, meals, grants, social, relation, objective, receipt,
                     kept, truth>>
  BY DEF pickup_tick_dispatch
<1>2. PaymentsTyped /\ MealsOK
  BY DEF PaymentsInv
<1>3. meals[by] \in Corpse /\ corpses[meals[by]] \in Carcass /\ corpses[meals[by]].body # None
  BY <1>1, <1>2 DEF PaymentsTyped, MealsOK
<1>4. scope_of(by) = (by \in Players)
  BY <1>3 DEF scope_of, Players
<1>5. T \in Tick
  BY <1>3, <1>4 DEF Tick, Carcass
<1>6. /\ T.body = corpses[T.on].body /\ T.body # None /\ T.on \in Corpse
      /\ T.scope = (T.by \in Players) /\ T.before = corpses[T.on].eaten
      /\ T.step = "entered" /\ ~T.observed
  BY <1>3, <1>4
<1> HIDE DEF T
<1>7. /\ ticks' \in Seq(Tick) /\ DOMAIN ticks' = DOMAIN ticks \cup {n}
      /\ ticks'[n] = T /\ \A i \in DOMAIN ticks : ticks'[i] = ticks[i]
      /\ n \notin DOMAIN ticks
  BY <1>1, <1>2, <1>5, PushedFacts DEF PaymentsTyped
<1> HIDE DEF n
<1>8. TickOK(T)
  <2>1. T.body \in 1..truth.bodies
    BY <1>2, <1>6 DEF PaymentsTyped, MealsOK, Numbered, Bodies, Carcass, None, History
  <2>2. \A c \in Corpse : corpses[c].body = T.body => c = T.on
    BY <1>2, <1>6 DEF MealsOK, Numbered, Bodies
  <2> QED BY <1>6, <2>1, <2>2 DEF TickOK
<1>9. \A t : TickOK(t) => TickOK(t)'
  BY <1>1 DEF TickOK
<1>10. \A i \in DOMAIN ticks' : TickOK(ticks[i])'
  BY <1>2, <1>7, <1>8, <1>9 DEF MealsOK
<1>11. OwedOrGranted'
  BY <1>1, <1>2, <1>7 DEF MealsOK, OwedOrGranted
<1>12. \A i, j \in DOMAIN ticks' :
         ticks'[i].step = "fed" /\ ticks'[j].step = "fed" /\ ticks'[i].body = ticks'[j].body
         => i = j
  BY <1>2, <1>6, <1>7 DEF MealsOK
<1>13. Numbered(Bodies', truth') /\ Granted(Bodies', grants', truth')
  BY <1>1, <1>2, BodiesStay DEF SamePayments
<1>14. MealsOK'
  BY <1>1, <1>2, <1>10, <1>11, <1>12, <1>13 DEF MealsOK
<1> QED BY <1>1, <1>2, <1>7, <1>14, MealStepKeeps DEF PaymentsTyped, SameMissions
\* The innermost tick goes on to `t`, the corpses keep their bodies and nothing is paid.
InnerBecomes(t) ==
  /\ t \in Tick /\ t.by = Inner.by /\ t.on = Inner.on /\ t.body = Inner.body
  /\ t.scope = Inner.scope /\ t.before = Inner.before

LEMMA InnerFacts ==
  ASSUME PaymentsTyped, Ticking
  PROVE  /\ Len(ticks) \in DOMAIN ticks /\ Inner = ticks[Len(ticks)] /\ Inner \in Tick
         /\ \A t \in Tick : SetInner(t) =>
              /\ ticks' \in Seq(Tick) /\ DOMAIN ticks' = DOMAIN ticks
              /\ ticks'[Len(ticks)] = t
              /\ \A i \in DOMAIN ticks \ {Len(ticks)} : ticks'[i] = ticks[i]
BY LastFacts DEF PaymentsTyped, Ticking, Inner, SetInner

\* A step that only ends the innermost tick's eating, or changes who claims.
LEMMA EatingKeeps ==
  ASSUME PaymentsInv, Ticking,
         corpses' \in [Corpse -> Carcass],
         \A c \in Corpse : /\ corpses'[c].body = corpses[c].body
                           /\ corpses'[c].eaten = corpses[c].eaten,
         meals' \in [Eater -> Corpse \cup {None}],
         \A e \in Eater : meals'[e] \in {meals[e], None},
         NEW t, InnerBecomes(t), t.step \in {"paid", "returning"},
         t.observed = Inner.observed, ticks' = ticks \/ SetInner(t),
         UNCHANGED <<foreign, grants, social, relation, objective, receipt, kept, truth>>
  PROVE  PaymentsInv'
<1>1. PaymentsTyped /\ MealsOK
  BY DEF PaymentsInv
<1> DEFINE n == Len(ticks)
<1>2. n \in DOMAIN ticks /\ Inner = ticks[n] /\ Inner \in Tick
  BY <1>1, InnerFacts
<1>4. /\ ticks' \in Seq(Tick) /\ DOMAIN ticks' = DOMAIN ticks
      /\ ticks'[n] = Inner \/ ticks'[n] = t
      /\ \A i \in DOMAIN ticks \ {n} : ticks'[i] = ticks[i]
  BY <1>1, <1>2, InnerFacts DEF InnerBecomes, PaymentsTyped
<1> HIDE DEF n
<1>5. TickOK(Inner)
  BY <1>1, <1>2 DEF MealsOK
<1>6. \A u \in Tick : TickOK(u) => TickOK(u)'
  BY DEF TickOK, Tick
<1>7. TickOK(t)
  BY <1>5 DEF TickOK, InnerBecomes
<1>8. \A i \in DOMAIN ticks' : TickOK(ticks[i])'
  BY <1>1, <1>2, <1>4, <1>5, <1>6, <1>7 DEF MealsOK, PaymentsTyped, InnerBecomes
<1>9. \A i \in DOMAIN ticks' : /\ ticks'[i].body = ticks[i].body
                               /\ ticks'[i].observed = ticks[i].observed
                               /\ ticks'[i].step = "fed" => ticks[i].step = "fed"
  BY <1>2, <1>4 DEF InnerBecomes
<1>10. /\ Numbered(Bodies', truth') /\ Granted(Bodies', grants', truth')
       /\ \A b, p : Paid(truth', b, p) <=> Paid(truth, b, p)
  BY <1>1, BodiesStay DEF SamePayments
<1>11. OwedOrGranted'
  BY <1>1, <1>4, <1>9, <1>10 DEF MealsOK, OwedOrGranted
<1>12. \A i, j \in DOMAIN ticks' :
         ticks'[i].step = "fed" /\ ticks'[j].step = "fed" /\ ticks'[i].body = ticks'[j].body
         => i = j
  BY <1>1, <1>4, <1>9 DEF MealsOK
<1>13. \A e \in Eater : meals'[e] # None => corpses'[meals'[e]].body # None
  BY <1>1 DEF MealsOK, PaymentsTyped
<1>14. MealsOK'
  BY <1>8, <1>10, <1>11, <1>12, <1>13 DEF MealsOK
<1> QED BY <1>1, <1>4, <1>14, MealStepKeeps DEF PaymentsTyped, SameMissions

LEMMA ReturningKeeps ==
  ASSUME PaymentsInv, Ticking,
         corpses' \in [Corpse -> Carcass],
         \A c \in Corpse : /\ corpses'[c].body = corpses[c].body
                           /\ corpses'[c].eaten = corpses[c].eaten,
         meals' \in [Eater -> Corpse \cup {None}],
         \A e \in Eater : meals'[e] \in {meals[e], None},
         ticks' = ticks \/ SetInner([Inner EXCEPT !.step = "returning"]),
         UNCHANGED <<foreign, grants, social, relation, objective, receipt, kept, truth>>
  PROVE  PaymentsInv'
<1> DEFINE t == [Inner EXCEPT !.step = "returning"]
<1>1. Inner \in Tick
  BY InnerFacts DEF PaymentsInv
<1>2. InnerBecomes(t) /\ t.step = "returning" /\ t.observed = Inner.observed
  BY <1>1 DEF InnerBecomes, Tick
<1> HIDE DEF t
<1>3. ticks' = ticks \/ SetInner(t)
  BY DEF t
<1> QED BY <1>2, <1>3, EatingKeeps

LEMMA ClaimPays ==
  ASSUME PaymentsInv, TakeClaim  PROVE PaymentsInv'
<1>1. PaymentsTyped /\ Ticking /\ Inner \in Tick
  BY InnerFacts DEF PaymentsInv, TakeClaim
<1>2. Inner.on \in Corpse /\ Inner.by \in 0..3 /\ Inner.by \in Eater
  BY <1>1 DEF Tick, Eater, Stray
<1>3. UNCHANGED <<foreign, grants, social, relation, objective, receipt, kept, truth>>
  BY DEF TakeClaim
<1>4. CASE /\ corpses' = [corpses EXCEPT ![Inner.on].claimant = Inner.by]
           /\ UNCHANGED <<ticks, meals>>
  <2> DEFINE x == [corpses[Inner.on] EXCEPT !.claimant = Inner.by]
  <2>1. x \in Carcass /\ x.body = corpses[Inner.on].body /\ x.eaten = corpses[Inner.on].eaten
    BY <1>1, <1>2 DEF PaymentsTyped, Carcass
  <2>2. corpses' = [corpses EXCEPT ![Inner.on] = x]
    BY <1>4
  <2> HIDE DEF x
  <2>3. /\ corpses' \in [Corpse -> Carcass]
        /\ \A c \in Corpse : /\ corpses'[c].body = corpses[c].body
                             /\ corpses'[c].eaten = corpses[c].eaten
    BY <1>1, <1>2, <2>1, <2>2 DEF PaymentsTyped
  <2> QED BY <1>1, <1>3, <1>4, <2>3, ReturningKeeps DEF PaymentsTyped
<1>5. CASE /\ SetInner([Inner EXCEPT !.step = "returning"])
           /\ meals' = [meals EXCEPT ![Inner.by] = None] /\ UNCHANGED corpses
  <2>1. /\ meals' \in [Eater -> Corpse \cup {None}]
        /\ \A e \in Eater : meals'[e] \in {meals[e], None}
    BY <1>1, <1>2, <1>5 DEF PaymentsTyped
  <2> QED BY <1>1, <1>3, <1>5, <2>1, ReturningKeeps DEF PaymentsTyped
<1> QED BY <1>4, <1>5 DEF TakeClaim

LEMMA ActionPays ==
  ASSUME PaymentsInv, pickup_action  PROVE PaymentsInv'
<1>1. /\ Ticking /\ SetInner([Inner EXCEPT !.step = "returning"])
      /\ UNCHANGED <<foreign, corpses, meals, grants, social, relation, objective, receipt,
                     kept, truth>>
  BY DEF pickup_action
<1> QED BY <1>1, ReturningKeeps DEF PaymentsInv, PaymentsTyped
\* A first feeding marks the corpse it is at, which nobody was paid for.
LEMMA FeedPays ==
  ASSUME PaymentsInv, Feed  PROVE PaymentsInv'
<1>1. /\ PaymentsTyped /\ MealsOK /\ Ticking /\ Inner.step = "entered" /\ On.body = Inner.body
      /\ UNCHANGED <<foreign, meals, grants, social, relation, objective, receipt, kept, truth>>
  BY DEF PaymentsInv, Feed
<1> DEFINE n == Len(ticks)
           t == [Inner EXCEPT !.step = "fed"]
<1>2. n \in DOMAIN ticks /\ Inner = ticks[n] /\ Inner \in Tick /\ Inner.on \in Corpse
  BY <1>1, InnerFacts DEF Tick
<1>3. CASE ~FirstFeed
  <2>1. UNCHANGED corpses /\ SetInner([Inner EXCEPT !.step = "returning"])
    BY <1>3 DEF Feed
  <2> QED BY <1>1, <2>1, ReturningKeeps DEF PaymentsTyped
<1>4. CASE FirstFeed
  <2>1. corpses' = [corpses EXCEPT ![Inner.on].eaten = TRUE] /\ SetInner(t)
    BY <1>4 DEF Feed
  <2>2. ~corpses[Inner.on].eaten /\ Inner.by \in Players
    BY <1>4 DEF FirstFeed, pickup_first_feed_owner, On, Players
  <2>3. InnerBecomes(t) /\ t.step = "fed" /\ t.observed = Inner.observed
    BY <1>2 DEF InnerBecomes, Tick
  <2> HIDE DEF t
  <2>4. /\ ticks' \in Seq(Tick) /\ DOMAIN ticks' = DOMAIN ticks /\ ticks'[n] = t
        /\ \A i \in DOMAIN ticks \ {n} : ticks'[i] = ticks[i]
    BY <1>1, <2>1, <2>3, InnerFacts DEF InnerBecomes
  <2> HIDE DEF n
  <2> DEFINE x == [corpses[Inner.on] EXCEPT !.eaten = TRUE]
  <2>5. x \in Carcass /\ x.body = corpses[Inner.on].body /\ x.eaten
    BY <1>1, <1>2 DEF PaymentsTyped, Carcass
  <2>6. corpses' = [corpses EXCEPT ![Inner.on] = x]
    BY <2>1
  <2> HIDE DEF x
  <2>7. /\ corpses' \in [Corpse -> Carcass]
        /\ \A c \in Corpse : /\ corpses'[c].body = corpses[c].body
                             /\ corpses[c].eaten => corpses'[c].eaten
        /\ corpses'[Inner.on].eaten
    BY <1>1, <1>2, <2>5, <2>6 DEF PaymentsTyped
  <2>8. /\ Numbered(Bodies', truth') /\ Granted(Bodies', grants', truth')
        /\ \A b, p : Paid(truth', b, p) <=> Paid(truth, b, p)
    BY <1>1, <2>7, BodiesStay DEF SamePayments
  <2>9. TickOK(Inner)
    BY <1>1, <1>2 DEF MealsOK
  <2>10. ~PaidFor(truth, Inner.body)
    BY <1>1, <1>2, <2>2 DEF MealsOK, OwedOrGranted, PaidFor, On
  <2>11. ASSUME NEW u, u = t  PROVE TickOK(u)'
    <3>1. /\ u.by = Inner.by /\ u.on = Inner.on /\ u.body = Inner.body /\ ~u.observed
          /\ u.scope = Inner.scope /\ u.before = Inner.before /\ u.step = "fed"
      BY <1>1, <2>3, <2>9, <2>11 DEF InnerBecomes, TickOK
    <3>2. ~Inner.before
      BY <1>1, <2>2, <2>9 DEF TickOK, On
    <3>3. ~PaidFor(truth', u.body)
      BY <2>8, <2>10, <3>1 DEF PaidFor
    <3>4. \A c \in Corpse : corpses'[c].body = u.body => c = u.on
      BY <2>7, <2>9, <3>1 DEF TickOK
    <3> QED BY <1>1, <2>2, <2>7, <2>9, <3>1, <3>2, <3>3, <3>4 DEF TickOK
  <2>12. \A u \in Tick : TickOK(u) => TickOK(u)'
    BY <1>1, <2>7, <2>8 DEF TickOK, Tick, PaidFor
  <2>13. \A i \in DOMAIN ticks' : TickOK(ticks[i])'
    BY <1>1, <2>4, <2>11, <2>12 DEF MealsOK, PaymentsTyped
  <2>14. \A i \in DOMAIN ticks' : ticks'[i].body = ticks[i].body
                                  /\ ticks'[i].observed = ticks[i].observed
    BY <1>2, <2>3, <2>4 DEF InnerBecomes
  <2>15. OwedOrGranted'
    BY <1>1, <2>4, <2>7, <2>8, <2>14 DEF MealsOK, OwedOrGranted
  <2>16. ASSUME NEW i \in DOMAIN ticks, ticks[i].step = "fed", ticks[i].body = Inner.body
         PROVE  FALSE
    <3>1. TickOK(ticks[i])
      BY <1>1 DEF MealsOK
    <3>2. Inner.on = ticks[i].on
      BY <1>1, <1>2, <2>16, <3>1 DEF TickOK, On
    <3> QED BY <1>1, <2>2, <2>16, <3>1, <3>2 DEF TickOK, On
  <2>17. \A i, j \in DOMAIN ticks' :
           ticks'[i].step = "fed" /\ ticks'[j].step = "fed" /\ ticks'[i].body = ticks'[j].body
           => i = j
    BY <1>1, <1>2, <2>4, <2>14, <2>16 DEF MealsOK
  <2>18. \A e \in Eater : meals'[e] # None => corpses'[meals'[e]].body # None
    BY <1>1, <2>7 DEF MealsOK, PaymentsTyped
  <2>19. MealsOK'
    BY <2>8, <2>13, <2>15, <2>17, <2>18 DEF MealsOK
  <2> QED BY <1>1, <2>4, <2>7, <2>19, MealStepKeeps DEF PaymentsTyped, SameMissions
<1> QED BY <1>3, <1>4
\* The history with one payment more.
LEMMA PaidFacts ==
  ASSUME truth \in History, NEW b \in Nat \ {0}, NEW p \in Players,
         truth' = [truth EXCEPT !.paid = Append(@, [body |-> b, to |-> p])]
  PROVE  /\ truth' \in History /\ SameMissions(truth') /\ truth'.bodies = truth.bodies
         /\ DOMAIN truth'.paid = DOMAIN truth.paid \cup {Len(truth.paid) + 1}
         /\ Len(truth.paid) + 1 \notin DOMAIN truth.paid
         /\ truth'.paid[Len(truth.paid) + 1] = [body |-> b, to |-> p]
         /\ \A i \in DOMAIN truth.paid : truth'.paid[i] = truth.paid[i]
         /\ \A c, q : Paid(truth', c, q) <=> Paid(truth, c, q) \/ (c = b /\ q = p)
<1> DEFINE P == [body : Nat \ {0}, to : Players]
           x == [body |-> b, to |-> p]
<1>1. truth.paid \in Seq(P) /\ x \in P /\ x.body = b /\ x.to = p
  BY DEF History
<1>2. /\ truth' = [truth EXCEPT !.paid = Append(truth.paid, x)]
  OBVIOUS
<1> HIDE DEF P, x
<1> DEFINE n == Len(truth.paid) + 1
           a == Append(truth.paid, x)
<1>3. /\ a \in Seq(P) /\ DOMAIN a = DOMAIN truth.paid \cup {n} /\ n \notin DOMAIN truth.paid
      /\ a[n] = x /\ \A i \in DOMAIN truth.paid : a[i] = truth.paid[i]
  BY <1>1, PushedFacts
<1> HIDE DEF a, n
<1>4. truth' \in History /\ truth'.paid = a /\ truth'.bodies = truth.bodies
  BY <1>2, <1>3 DEF History, P, a
<1>5. SameMissions(truth')
  BY <1>2 DEF SameMissions, History
<1>6. \A c, q : Paid(truth', c, q) <=> Paid(truth, c, q) \/ x = [body |-> c, to |-> q]
  BY <1>3, <1>4 DEF Paid
<1>7. \A c, q : x = [body |-> c, to |-> q] <=> c = b /\ q = p
  BY DEF x
<1> QED BY <1>3, <1>4, <1>5, <1>6, <1>7 DEF n, x

\* The reward of a first feeding is the only one for its corpse, and the tick
\* that remembers it is in progress.
LEMMA AwardPays ==
  ASSUME PaymentsInv, award_corpse_first_feed  PROVE PaymentsInv'
<1> DEFINE given == Inner.by = 1 \/ owned_pickup
           t == [Inner EXCEPT !.step = "paid", !.observed = given]
           n == Len(ticks)
<1>1. /\ PaymentsTyped /\ MealsOK /\ Ticking /\ Inner.step = "fed" /\ SetInner(t)
      /\ truth' = IF given THEN [truth EXCEPT !.paid = Append(@, [body |-> Inner.body, to |-> Inner.by])]
                  ELSE truth
      /\ UNCHANGED <<foreign, corpses, meals, grants, social, relation, objective, receipt, kept>>
  BY DEF PaymentsInv, award_corpse_first_feed
<1>2. n \in DOMAIN ticks /\ Inner = ticks[n] /\ Inner \in Tick
  BY <1>1, InnerFacts
<1>3. given \in BOOLEAN
  OBVIOUS
<1> HIDE DEF given
<1>4. InnerBecomes(t) /\ t.step = "paid" /\ t.observed = given
  BY <1>2, <1>3 DEF InnerBecomes, Tick
<1> HIDE DEF t
<1>5. TickOK(Inner)
  BY <1>1, <1>2 DEF MealsOK
<1>6. CASE ~given
  <2>1. t.observed = Inner.observed
    <3>1. ~Inner.observed /\ Inner.observed \in BOOLEAN
      BY <1>1, <1>2, <1>5 DEF TickOK, Tick
    <3>2. t.observed = FALSE
      BY <1>3, <1>4, <1>6
    <3> QED BY <3>1, <3>2
  <2> QED BY <1>1, <1>4, <1>6, <2>1, EatingKeeps DEF PaymentsTyped
<1>7. CASE given
  <2>1. Inner.by \in Players /\ Inner.body \in 1..truth.bodies /\ ~PaidFor(truth, Inner.body)
    BY <1>1, <1>5 DEF TickOK
  <2>2. truth.bodies \in Nat /\ Inner.body \in Nat \ {0}
    BY <1>1, <2>1 DEF PaymentsTyped, History
  <2>3. /\ truth' \in History /\ SameMissions(truth') /\ truth'.bodies = truth.bodies
        /\ DOMAIN truth'.paid = DOMAIN truth.paid \cup {Len(truth.paid) + 1}
        /\ Len(truth.paid) + 1 \notin DOMAIN truth.paid
        /\ truth'.paid[Len(truth.paid) + 1] = [body |-> Inner.body, to |-> Inner.by]
        /\ \A i \in DOMAIN truth.paid : truth'.paid[i] = truth.paid[i]
        /\ \A c, q : Paid(truth', c, q) <=> Paid(truth, c, q) \/ (c = Inner.body /\ q = Inner.by)
    <3>1. truth' = [truth EXCEPT !.paid = Append(@, [body |-> Inner.body, to |-> Inner.by])]
      BY <1>1, <1>7
    <3>2. truth \in History
      BY <1>1 DEF PaymentsTyped
    <3> QED BY <2>1, <2>2, <3>1, <3>2, PaidFacts
  <2>4. /\ ticks' \in Seq(Tick) /\ DOMAIN ticks' = DOMAIN ticks /\ ticks'[n] = t
        /\ \A i \in DOMAIN ticks \ {n} : ticks'[i] = ticks[i]
    BY <1>1, <1>4, InnerFacts DEF InnerBecomes
  <2> HIDE DEF n
  <2>5. \A i \in DOMAIN truth.paid : truth.paid[i].body # Inner.body
    <3> DEFINE P == [body : Nat \ {0}, to : Players]
    <3>1. \A i \in DOMAIN truth.paid : truth.paid[i] \in P
      <4>1. truth.paid \in Seq(P)
        BY <1>1 DEF PaymentsTyped, History
      <4> HIDE DEF P
      <4> QED BY <4>1
    <3>2. \A i \in DOMAIN truth.paid :
            truth.paid[i] = [body |-> truth.paid[i].body, to |-> truth.paid[i].to]
      BY <3>1
    <3> QED BY <2>1, <3>1, <3>2 DEF PaidFor, Paid
  <2>6. Bodies' = Bodies
    BY <1>1 DEF Bodies
  <2>7. Numbered(Bodies', truth')
    BY <1>1, <2>1, <2>2, <2>3, <2>5, <2>6 DEF MealsOK, Numbered
  <2>8. Granted(Bodies', grants', truth')
    BY <1>1, <2>3, <2>6 DEF MealsOK, Granted
  <2>9. ASSUME NEW i \in DOMAIN ticks, i # n  PROVE TickOK(ticks[i])'
    <3>1. TickOK(ticks[i])
      BY <1>1 DEF MealsOK
    <3>2. ticks[i].step = "fed" => ticks[i].body # Inner.body
      BY <1>1, <1>2, <2>9 DEF MealsOK
    <3>3. ASSUME NEW u, u = ticks[i]  PROVE TickOK(u)'
      BY <1>1, <2>3, <3>1, <3>2, <3>3 DEF TickOK, PaidFor
    <3> QED BY <2>4, <2>9, <3>3
  <2>10. ASSUME NEW u, u = t  PROVE TickOK(u)'
    <3>1. /\ u.by = Inner.by /\ u.on = Inner.on /\ u.body = Inner.body /\ u.observed
          /\ u.scope = Inner.scope /\ u.before = Inner.before /\ u.step = "paid"
      BY <1>4, <1>7, <2>10 DEF InnerBecomes
    <3>2. ~Inner.before
      BY <1>1, <1>5 DEF TickOK
    <3> QED BY <1>1, <1>5, <2>1, <2>3, <3>1, <3>2 DEF TickOK
  <2>11. \A i \in DOMAIN ticks' : TickOK(ticks[i])'
    BY <2>4, <2>9, <2>10
  <2>12. \A i \in DOMAIN ticks' : /\ ticks'[i].body = ticks[i].body
                                  /\ ticks[i].observed => ticks'[i].observed
                                  /\ ticks'[i].step = "fed" => ticks[i].step = "fed"
    BY <1>2, <1>4, <1>7, <2>4 DEF InnerBecomes
  <2>13. OwedOrGranted'
    <3> SUFFICES ASSUME NEW c \in Corpse, NEW p \in Players,
                        Paid(truth', corpses'[c].body, p)
                 PROVE  /\ corpses'[c].eaten
                        /\ grants'[c] = p \/ \E i \in DOMAIN ticks' :
                             ticks'[i].observed /\ ticks'[i].body = corpses'[c].body
      BY DEF OwedOrGranted
    <3>1. CASE Paid(truth, corpses[c].body, p)
      BY <1>1, <2>4, <2>12, <3>1 DEF MealsOK, OwedOrGranted
    <3>2. CASE corpses[c].body = Inner.body
      <4>1. c = Inner.on /\ corpses[c].eaten
        BY <1>1, <1>5, <3>2 DEF TickOK
      <4>2. ticks'[n].observed /\ ticks'[n].body = Inner.body
        BY <1>4, <1>7, <2>4 DEF InnerBecomes
      <4> QED BY <1>1, <1>2, <2>4, <3>2, <4>1, <4>2 DEF n
    <3> QED BY <1>1, <2>3, <3>1, <3>2
  <2>14. \A i, j \in DOMAIN ticks' :
           ticks'[i].step = "fed" /\ ticks'[j].step = "fed" /\ ticks'[i].body = ticks'[j].body
           => i = j
    BY <1>1, <2>4, <2>12 DEF MealsOK
  <2>15. MealsOK'
    BY <1>1, <2>7, <2>8, <2>11, <2>13, <2>14 DEF MealsOK
  <2> QED BY <1>1, <2>3, <2>4, <2>15, MealStepKeeps DEF PaymentsTyped
<1> QED BY <1>6, <1>7
\* A tick that returns leaves its grant if it was paid, and only then.
LEMMA ReturnsPay ==
  ASSUME PaymentsInv, TickReturns  PROVE PaymentsInv'
<1>1. /\ PaymentsTyped /\ MealsOK /\ Ticking /\ ticks' = Front(ticks)
      /\ grants' = IF observe_first_feed THEN [grants EXCEPT ![Inner.on] = Inner.by] ELSE grants
      /\ UNCHANGED <<foreign, corpses, meals, social, relation, objective, receipt, kept, truth>>
  BY DEF PaymentsInv, TickReturns
<1> DEFINE n == Len(ticks)
<1>2. n \in DOMAIN ticks /\ Inner = ticks[n] /\ Inner \in Tick /\ Inner.on \in Corpse
  BY <1>1, InnerFacts DEF Tick
<1>3. /\ ticks' \in Seq(Tick) /\ DOMAIN ticks = DOMAIN ticks' \cup {n}
      /\ \A i \in DOMAIN ticks' : ticks'[i] = ticks[i]
  <2>1. ticks \in Seq(Tick) /\ ticks # <<>>
    BY <1>1 DEF PaymentsTyped, Ticking
  <2> QED BY <1>1, <2>1, PoppedFacts
<1> HIDE DEF n
<1>4. TickOK(Inner)
  BY <1>1, <1>2 DEF MealsOK
<1>5. observe_first_feed =>
        /\ Inner.by \in Players /\ On.body = Inner.body /\ Inner.body # None
        /\ Paid(truth, Inner.body, Inner.by)
  BY <1>1, <1>4 DEF observe_first_feed, TickOK, None
<1>6. grants' \in [Corpse -> 0..2]
  BY <1>1, <1>2, <1>5 DEF PaymentsTyped, Players
<1>7. Bodies' = Bodies /\ Numbered(Bodies', truth')
  BY <1>1 DEF Bodies, MealsOK
<1>8. Granted(Bodies', grants', truth')
  BY <1>1, <1>2, <1>5, <1>7 DEF MealsOK, Granted, Bodies, On, PaymentsTyped
<1>9. \A u : TickOK(u) => TickOK(u)'
  BY <1>1 DEF TickOK
<1>10. \A i \in DOMAIN ticks' : TickOK(ticks[i])'
  BY <1>1, <1>3, <1>9 DEF MealsOK
<1>11. OwedOrGranted'
  <2> SUFFICES ASSUME NEW c \in Corpse, NEW p \in Players, Paid(truth, corpses[c].body, p)
               PROVE  /\ corpses[c].eaten
                      /\ grants'[c] = p \/ \E i \in DOMAIN ticks' :
                           ticks'[i].observed /\ ticks'[i].body = corpses[c].body
    BY <1>1 DEF OwedOrGranted
  <2>1. /\ corpses[c].eaten
        /\ grants[c] = p \/ \E i \in DOMAIN ticks :
              ticks[i].observed /\ ticks[i].body = corpses[c].body
    BY <1>1 DEF MealsOK, OwedOrGranted
  <2>2. ASSUME NEW q \in Players, Paid(truth, corpses[c].body, q)  PROVE q = p
    <3>1. PICK i \in DOMAIN truth.paid :
            truth.paid[i] = [body |-> corpses[c].body, to |-> p]
      BY DEF Paid
    <3>2. PICK j \in DOMAIN truth.paid :
            truth.paid[j] = [body |-> corpses[c].body, to |-> q]
      BY <2>2 DEF Paid
    <3>3. i = j
      BY <1>1, <3>1, <3>2 DEF MealsOK, Numbered
    <3> QED BY <3>1, <3>2, <3>3
  <2>3. CASE Inner.observed /\ Inner.body = corpses[c].body
    <3>1. c = Inner.on /\ Inner.by = p
      BY <1>1, <1>4, <2>2, <2>3 DEF TickOK
    <3>2. observe_first_feed
      BY <1>4, <2>1, <2>3, <3>1 DEF TickOK, observe_first_feed, On
    <3> QED BY <1>1, <2>1, <3>1, <3>2 DEF PaymentsTyped
  <2>4. CASE ~(Inner.observed /\ Inner.body = corpses[c].body)
    <3>1. CASE grants[c] = p
      <4>1. observe_first_feed /\ Inner.on = c => Inner.by = p
        BY <1>5, <2>2 DEF On
      <4> QED BY <1>1, <1>2, <2>1, <3>1, <4>1 DEF PaymentsTyped
    <3>2. CASE grants[c] # p
      BY <1>2, <1>3, <2>1, <2>4, <3>2
    <3> QED BY <3>1, <3>2
  <2> QED BY <2>3, <2>4
<1>12. \A i, j \in DOMAIN ticks' :
         ticks'[i].step = "fed" /\ ticks'[j].step = "fed" /\ ticks'[i].body = ticks'[j].body
         => i = j
  BY <1>1, <1>3 DEF MealsOK
<1>13. MealsOK'
  BY <1>1, <1>7, <1>8, <1>10, <1>11, <1>12 DEF MealsOK
<1> QED BY <1>1, <1>3, <1>6, <1>13, MealStepKeeps DEF PaymentsTyped, SameMissions

LEMMA OrderPays ==
  ASSUME PaymentsInv, NEW by \in Eater, NEW c \in Corpse, native_pickup_order(by, c)
  PROVE  PaymentsInv'
<1>1. /\ PaymentsTyped /\ MealsOK /\ corpses[c].body # None /\ meals' = [meals EXCEPT ![by] = c]
      /\ UNCHANGED <<foreign, corpses, ticks, grants, social, relation, objective, receipt,
                     kept, truth>>
  BY DEF PaymentsInv, native_pickup_order
<1>2. /\ meals' \in [Eater -> Corpse \cup {None}]
      /\ \A e \in Eater : meals'[e] \in {meals[e], c}
  BY <1>1 DEF PaymentsTyped
<1>3. \A e \in Eater : meals'[e] # None => corpses[meals'[e]].body # None
  BY <1>1, <1>2 DEF MealsOK
<1>4. \A u : TickOK(u) => TickOK(u)'
  BY <1>1 DEF TickOK
<1>5. \A i \in DOMAIN ticks' : TickOK(ticks[i])'
  BY <1>1, <1>4 DEF MealsOK
<1>6. OwedOrGranted' /\ Bodies' = Bodies
  BY <1>1 DEF MealsOK, OwedOrGranted, Bodies
<1>7. MealsOK'
  BY <1>1, <1>3, <1>5, <1>6 DEF MealsOK
<1> QED BY <1>1, <1>2, <1>7, MealStepKeeps DEF PaymentsTyped, SameMissions

\* A corpse that is gone takes its grant with it.
LEMMA VanishPays ==
  ASSUME PaymentsInv, NEW c \in Corpse, CorpseVanishes(c)  PROVE PaymentsInv'
<1>1. /\ PaymentsTyped /\ MealsOK /\ corpses' = [corpses EXCEPT ![c] = NoCorpse]
      /\ meals' = [e \in Eater |-> IF meals[e] = c THEN None ELSE meals[e]]
      /\ grants' = [grants EXCEPT ![c] = None]
      /\ UNCHANGED <<foreign, ticks, social, relation, objective, receipt, kept, truth>>
  BY DEF PaymentsInv, CorpseVanishes, retire_native_incarnation
<1>2. NoCorpse \in Carcass /\ NoCorpse.body = None
  BY DEF NoCorpse, Carcass, None
<1>3. /\ corpses' \in [Corpse -> Carcass] /\ corpses'[c].body = None
      /\ \A d \in Corpse : d # c => corpses'[d] = corpses[d]
      /\ meals' \in [Eater -> Corpse \cup {None}]
      /\ \A e \in Eater : meals'[e] # None => meals'[e] = meals[e] /\ meals[e] # c
      /\ grants' \in [Corpse -> 0..2] /\ grants'[c] = None
      /\ \A d \in Corpse : d # c => grants'[d] = grants[d]
  BY <1>1, <1>2 DEF PaymentsTyped, None
<1>4. \A i \in DOMAIN truth.paid : truth.paid[i].body # None
  <2> DEFINE P == [body : Nat \ {0}, to : Players]
  <2>1. truth.paid \in Seq(P)
    BY <1>1 DEF PaymentsTyped, History
  <2>2. \A x \in P : x.body # None
    BY DEF None
  <2> HIDE DEF P
  <2> QED BY <2>1, <2>2
<1>5. \A p : ~Paid(truth, None, p)
  BY <1>4 DEF Paid
<1>6. Bodies'[c] = None /\ \A d \in Corpse : d # c => Bodies'[d] = Bodies[d]
  BY <1>3 DEF Bodies
<1>7. Numbered(Bodies', truth')
  <2>1. Numbered(Bodies, truth) /\ truth.bodies \in Nat
    BY <1>1 DEF MealsOK, PaymentsTyped, History
  <2>2. \A d \in Corpse : Bodies'[d] <= truth.bodies
    BY <1>6, <2>1 DEF Numbered, None
  <2> QED BY <1>1, <1>6, <2>1, <2>2 DEF Numbered
<1>8. Granted(Bodies', grants', truth')
  BY <1>1, <1>3, <1>6 DEF MealsOK, Granted
<1>9. OwedOrGranted'
  BY <1>1, <1>3, <1>5 DEF MealsOK, OwedOrGranted
<1>10. \A u : TickOK(u) => TickOK(u)'
  BY <1>1, <1>3 DEF TickOK, None
<1>11. \A i \in DOMAIN ticks' : TickOK(ticks[i])'
  BY <1>1, <1>10 DEF MealsOK
<1>12. \A e \in Eater : meals'[e] # None => corpses'[meals'[e]].body # None
  BY <1>1, <1>3 DEF MealsOK, PaymentsTyped
<1>13. MealsOK'
  BY <1>1, <1>7, <1>8, <1>9, <1>11, <1>12 DEF MealsOK
<1> QED BY <1>1, <1>3, <1>13, MealStepKeeps DEF PaymentsTyped, SameMissions

LEMMA FreshCorpse ==
  ASSUME NEW b \in Nat
  PROVE  [NoCorpse EXCEPT !.body = b] \in Carcass /\ [NoCorpse EXCEPT !.body = b].body = b
<1>1. NoCorpse \in Carcass
  BY DEF NoCorpse, Carcass, None
<1> QED BY <1>1 DEF Carcass

\* A corpse that appears is one that nobody has eaten of.
LEMMA AppearPays ==
  ASSUME PaymentsInv, NEW c \in Corpse, CorpseAppears(c)  PROVE PaymentsInv'
<1> DEFINE b == truth.bodies + 1
           x == [NoCorpse EXCEPT !.body = b]
<1>1. /\ PaymentsTyped /\ MealsOK /\ corpses[c].body = None /\ corpses' = [corpses EXCEPT ![c] = x]
      /\ truth' = [truth EXCEPT !.bodies = b]
      /\ UNCHANGED <<foreign, meals, ticks, grants, social, relation, objective, receipt, kept>>
  BY DEF PaymentsInv, CorpseAppears
<1>2. truth.bodies \in Nat /\ b \in Nat /\ b > truth.bodies
  BY <1>1 DEF PaymentsTyped, History
<1>3. truth' \in History /\ truth'.paid = truth.paid /\ truth'.bodies = b /\ SameMissions(truth')
  BY <1>1, <1>2 DEF PaymentsTyped, History, SameMissions
<1> HIDE DEF b
<1>4. x \in Carcass /\ x.body = b
  BY <1>2, FreshCorpse
<1> HIDE DEF x
<1>5. /\ corpses' \in [Corpse -> Carcass] /\ corpses'[c].body = b
      /\ \A d \in Corpse : d # c => corpses'[d] = corpses[d]
  BY <1>1, <1>4 DEF PaymentsTyped
<1>6. Bodies'[c] = b /\ Bodies[c] = None /\ \A d \in Corpse : d # c => Bodies'[d] = Bodies[d]
  BY <1>1, <1>5 DEF Bodies
<1>7. \A q, p : Paid(truth', q, p) <=> Paid(truth, q, p)
  BY <1>3 DEF Paid
<1>8. \A i \in DOMAIN truth.paid : truth.paid[i].body \in Nat /\ truth.paid[i].body <= truth.bodies
  <2> DEFINE P == [body : Nat \ {0}, to : Players]
  <2>1. truth.paid \in Seq(P)
    BY <1>1 DEF PaymentsTyped, History
  <2>2. \A y \in P : y.body \in Nat
    OBVIOUS
  <2> HIDE DEF P
  <2> QED BY <1>1, <2>1, <2>2 DEF MealsOK, Numbered
<1>9. \A p : ~Paid(truth, b, p)
  BY <1>2, <1>8 DEF Paid
<1>10. \A d \in Corpse : Bodies[d] \in Nat /\ Bodies[d] <= truth.bodies
  BY <1>1 DEF PaymentsTyped, Carcass, Bodies, MealsOK, Numbered
<1>11. Numbered(Bodies', truth')
  BY <1>1, <1>2, <1>3, <1>6, <1>8, <1>10 DEF MealsOK, Numbered
<1>12. Granted(Bodies', grants', truth')
  BY <1>1, <1>6, <1>7 DEF MealsOK, Granted
<1>13. OwedOrGranted'
  BY <1>1, <1>5, <1>7, <1>9 DEF MealsOK, OwedOrGranted
<1>14. \A u : TickOK(u) => TickOK(u)'
  BY <1>1, <1>2, <1>3, <1>5, <1>7 DEF TickOK, PaidFor
<1>15. \A i \in DOMAIN ticks' : TickOK(ticks[i])'
  BY <1>1, <1>14 DEF MealsOK
<1>16. \A e \in Eater : meals'[e] # None => corpses'[meals'[e]].body # None
  BY <1>1, <1>5 DEF MealsOK, PaymentsTyped
<1>17. MealsOK'
  BY <1>1, <1>11, <1>12, <1>13, <1>15, <1>16 DEF MealsOK
<1> QED BY <1>1, <1>3, <1>5, <1>17, MealStepKeeps DEF PaymentsTyped
\* A step of the missions.
LEMMA MissionStepKeeps ==
  ASSUME PaymentsInv, MissionsOK',
         UNCHANGED <<foreign, corpses, meals, ticks, grants, kept>>,
         truth' \in History, SamePayments(truth'),
         social' \in Exchange,
         relation' \in Relations, objective' \in Relations, receipt' \in Receipt
  PROVE  PaymentsInv'
<1>1. MealsOK'
  BY MealsStay DEF PaymentsInv
<1>2. PaymentsTyped'
  BY DEF PaymentsInv, PaymentsTyped
<1> QED BY <1>1, <1>2, CheckpointStays DEF PaymentsInv

LEMMA BefriendedFacts ==
  ASSUME NEW r \in [count : Nat, friend : BOOLEAN], Needed \in Nat
  PROVE  /\ Befriended(r) \in [count : Nat, friend : BOOLEAN]
         /\ Befriended(r).count = r.count + 1
         /\ Befriended(r) = [count |-> r.count + 1, friend |-> Befriended(r).friend]
         /\ r.friend => Befriended(r).friend
<1> DEFINE f == r.friend \/ r.count + 1 >= Needed
<1>1. f \in BOOLEAN /\ (r.friend => f) /\ r.count \in Nat
  OBVIOUS
<1>2. Befriended(r) = [count |-> r.count + 1, friend |-> f]
  BY DEF Befriended
<1> HIDE DEF f
<1> QED BY <1>1, <1>2

\* A result: at most one player's befriends a species, for ever.
LEMMA CausedFacts ==
  ASSUME PaymentsTyped, NEW s \in Other, NEW by \in Players,
         relation' = [relation EXCEPT ![s] = Befriended(@)], truth' = Caused(s, by)
  PROVE  /\ truth' \in History /\ SamePayments(truth')
         /\ truth'.won = truth.won /\ truth'.excused = truth.excused
         /\ truth'.cause[s] = IF Transition(s) THEN by ELSE truth.cause[s]
         /\ truth'.mixed[s] = (truth.mixed[s] \/ objective[s] # relation[s])
         /\ \A r \in Other \ {s} : truth'.cause[r] = truth.cause[r]
                                   /\ truth'.mixed[r] = truth.mixed[r]
         /\ relation' \in Relations
         /\ relation'[s].count = relation[s].count + 1
         /\ relation'[s] = [count |-> relation[s].count + 1, friend |-> relation'[s].friend]
         /\ relation'[s].friend <=> relation[s].friend \/ Transition(s)
         /\ Transition(s) => ~relation[s].friend
         /\ \A r \in Other \ {s} : relation'[r] = relation[r]
<1> DEFINE x == Befriended(relation[s])
           yes == Transition(s)
           c == IF yes THEN by ELSE truth.cause[s]
           m == truth.mixed[s] \/ objective[s] # relation[s]
           cause == [truth.cause EXCEPT ![s] = c]
           mixed == [truth.mixed EXCEPT ![s] = m]
<1>1. truth \in History /\ relation \in Relations
  BY DEF PaymentsTyped
<1>2. relation[s] \in [count : Nat, friend : BOOLEAN]
  BY <1>1 DEF Relations
<1>3. Needed \in Nat
  BY RewardsAssumption
<1>4. /\ x \in [count : Nat, friend : BOOLEAN] /\ x.count = relation[s].count + 1
      /\ x = [count |-> relation[s].count + 1, friend |-> x.friend]
      /\ relation[s].friend => x.friend
  BY <1>2, <1>3, BefriendedFacts
<1>5. yes <=> ~relation[s].friend /\ x.friend
  BY DEF Transition
<1>6. relation' = [relation EXCEPT ![s] = x]
  OBVIOUS
<1> HIDE DEF x
<1>7. /\ relation' \in Relations /\ relation'[s] = x
      /\ \A r \in Other \ {s} : relation'[r] = relation[r]
  BY <1>1, <1>4, <1>6 DEF Relations
<1>8. truth' = [truth EXCEPT !.cause = cause, !.mixed = mixed]
  BY DEF Caused
<1>9. c \in 0..2 /\ m \in BOOLEAN
  BY <1>1 DEF History, Players
<1> HIDE DEF c, m, yes
<1>10. /\ cause \in [Other -> 0..2] /\ cause[s] = c
       /\ mixed \in [Other -> BOOLEAN] /\ mixed[s] = m
       /\ \A r \in Other \ {s} : cause[r] = truth.cause[r] /\ mixed[r] = truth.mixed[r]
  BY <1>1, <1>9 DEF History
<1> HIDE DEF cause, mixed
<1>11. /\ truth' \in History /\ truth'.cause = cause /\ truth'.mixed = mixed
       /\ truth'.won = truth.won /\ truth'.excused = truth.excused
       /\ truth'.paid = truth.paid /\ truth'.bodies = truth.bodies
  BY <1>1, <1>8, <1>10 DEF History
<1> QED BY <1>2, <1>4, <1>5, <1>7, <1>10, <1>11 DEF SamePayments, c, m, yes

\* What a result leaves of the missions, when its receipt says so much.
LEMMA ResultMissions ==
  ASSUME PaymentsInv, NEW s \in Other, NEW by \in Players,
         relation' = [relation EXCEPT ![s] = Befriended(@)], truth' = Caused(s, by),
         by = 2 => ~foreign, UNCHANGED <<foreign, objective>>,
         receipt' \in Receipt,
         \/ by = 1 /\ receipt' = receipt
         \/ /\ by = 2 /\ Transition(s)
            /\ receipt' = [pending |-> TRUE, fresh |-> TRUE, species |-> s,
                           before |-> relation[s].count]
         \/ by = 2 /\ ~Transition(s) /\ ~receipt'.pending /\ receipt'.species = s
  PROVE  MissionsOK'
<1>1. /\ PaymentsTyped /\ MissionsOK
      /\ \A r \in Other : MissionOK(r, relation, objective, truth) /\ ReceiptOK(r)
  BY DEF PaymentsInv, MissionsOK
<1>2. /\ truth' \in History /\ SamePayments(truth')
      /\ truth'.won = truth.won /\ truth'.excused = truth.excused
      /\ truth'.cause[s] = IF Transition(s) THEN by ELSE truth.cause[s]
      /\ truth'.mixed[s] = (truth.mixed[s] \/ objective[s] # relation[s])
      /\ \A r \in Other \ {s} : truth'.cause[r] = truth.cause[r]
                                /\ truth'.mixed[r] = truth.mixed[r]
      /\ relation' \in Relations
      /\ relation'[s] = [count |-> relation[s].count + 1, friend |-> relation'[s].friend]
      /\ relation'[s].friend <=> relation[s].friend \/ Transition(s)
      /\ Transition(s) => ~relation[s].friend
      /\ \A r \in Other \ {s} : relation'[r] = relation[r]
  BY <1>1, CausedFacts
<1>3. objective[s] \in [count : Nat, friend : BOOLEAN]
      /\ relation[s] \in [count : Nat, friend : BOOLEAN]
      /\ relation'[s] \in [count : Nat, friend : BOOLEAN]
  BY <1>1, <1>2 DEF PaymentsTyped, Relations
<1>4. by # None
  BY DEF Players, None
<1>5. MissionOK(s, relation, objective, truth)'
  BY <1>1, <1>2, <1>4 DEF MissionOK
<1>6. ReceiptOK(s)'
  <2>1. receipt'.pending /\ receipt'.species = s => truth'.cause[s] = 2
    <3>1. CASE by = 1 /\ receipt' = receipt
      BY <1>1, <1>2, <3>1 DEF MissionOK, ReceiptOK, None
    <3>2. CASE by = 2
      BY <1>2, <3>2
    <3> QED BY <3>1, <3>2
  <2> SUFFICES ASSUME truth'.cause[s] = 2, ~objective[s].friend, receipt'.species = s,
                      ~truth'.mixed[s]
               PROVE  /\ receipt'.pending
                      /\ objective[s] = [count |-> receipt'.before, friend |-> FALSE]
                      /\ relation'[s] = [count |-> receipt'.before + 1, friend |-> TRUE]
    BY <2>1 DEF ReceiptOK
  <2>2. objective[s] = relation[s] /\ ~relation[s].friend
    BY <1>2
  <2>3. Transition(s) /\ by = 2
    BY <1>1, <1>2, <2>2 DEF MissionOK, None
  <2>4. receipt'.pending /\ receipt'.before = relation[s].count
    BY <2>3
  <2>5. objective[s] = [count |-> relation[s].count, friend |-> FALSE]
    BY <1>3, <2>2
  <2>6. relation'[s] = [count |-> relation[s].count + 1, friend |-> TRUE]
    BY <1>2, <1>3, <2>3
  <2> QED BY <2>4, <2>5, <2>6
<1>7. ASSUME NEW r \in Other \ {s}
      PROVE  MissionOK(r, relation, objective, truth)' /\ ReceiptOK(r)'
  <2>1. MissionOK(r, relation, objective, truth)'
    BY <1>1, <1>2 DEF MissionOK
  <2>2. ReceiptOK(r)'
    <3>1. CASE by = 1 /\ receipt' = receipt
      <4>1. /\ truth'.cause[r] = truth.cause[r] /\ truth'.mixed[r] = truth.mixed[r]
            /\ relation'[r] = relation[r] /\ objective' = objective
        BY <1>2
      <4>2. ReceiptOK(r)
        BY <1>1
      <4> QED BY ONLY <3>1, <4>1, <4>2 DEF ReceiptOK
    <3>2. CASE by = 2
      <4>1. receipt'.species = s
        BY <3>2
      <4> QED BY <4>1 DEF ReceiptOK
    <3> QED BY <3>1, <3>2
  <2> QED BY <2>1, <2>2
<1> QED BY <1>5, <1>6, <1>7 DEF MissionsOK
LEMMA ResultPays ==
  ASSUME PaymentsInv, result_hook \/ first_result  PROVE PaymentsInv'
<1>1. PaymentsTyped
  BY DEF PaymentsInv
<1>2. CASE first_result
  <2> DEFINE s == social.first
  <2>1. /\ s # None /\ relation' = [relation EXCEPT ![s] = Befriended(@)] /\ truth' = Caused(s, 1)
        /\ social' = [social EXCEPT !.first = None]
        /\ UNCHANGED <<foreign, corpses, meals, ticks, grants, objective, receipt, kept>>
    BY <1>2 DEF first_result
  <2>2. s \in Other /\ receipt' \in Receipt /\ objective' \in Relations
    BY <1>1, <2>1 DEF PaymentsTyped, Exchange
  <2>3. social' \in Exchange
    BY <1>1, <2>1 DEF PaymentsTyped, Exchange
  <2> HIDE DEF s
  <2>4. MissionsOK'
    <3>1. ASSUME NEW by \in Players, by = 1  PROVE MissionsOK'
      <4>1. truth' = Caused(s, by) /\ (by = 2 => ~foreign) /\ receipt' = receipt
        BY <2>1, <3>1
      <4> QED BY <2>1, <2>2, <3>1, <4>1, ResultMissions
    <3> QED BY <3>1 DEF Players
  <2>5. truth' \in History /\ SamePayments(truth') /\ relation' \in Relations
    BY <1>1, <2>1, <2>2, CausedFacts DEF Players
  <2> QED BY <2>1, <2>2, <2>3, <2>4, <2>5, MissionStepKeeps
<1>3. CASE result_hook
  <2> DEFINE s == social.with
  <2>1. /\ s # None /\ social' = [social EXCEPT !.completed = TRUE, !.with = None]
        /\ UNCHANGED <<foreign, corpses, meals, ticks, grants, objective, kept>>
        /\ IF foreign THEN UNCHANGED <<relation, truth>> /\ receipt' = NoReceipt
           ELSE /\ relation' = [relation EXCEPT ![s] = Befriended(@)] /\ truth' = Caused(s, 2)
                /\ receipt' = IF ~Transition(s) THEN [NoReceipt EXCEPT !.species = s]
                              ELSE [pending |-> TRUE, fresh |-> TRUE, species |-> s,
                                    before |-> relation[s].count]
    BY <1>3 DEF result_hook
  <2>2. s \in Other /\ objective' \in Relations
    BY <1>1, <2>1 DEF PaymentsTyped, Exchange
  <2>3. social' \in Exchange
    BY <1>1, <2>1 DEF PaymentsTyped, Exchange
  <2> HIDE DEF s
  <2>4. CASE foreign
    <3>1. receipt' \in Receipt /\ ~receipt'.pending
      <4>1. NoReceipt \in Receipt /\ ~NoReceipt.pending
        BY DEF NoReceipt, Receipt, None
      <4> QED BY <2>1, <2>4, <4>1
    <3>2. MissionsOK'
      BY <2>1, <2>4, <3>1 DEF PaymentsInv, MissionsOK, MissionOK, ReceiptOK
    <3> QED BY <1>1, <2>1, <2>2, <2>3, <2>4, <3>1, <3>2, MissionStepKeeps
            DEF PaymentsTyped, SamePayments
  <2>5. CASE ~foreign
    <3>1. /\ relation' = [relation EXCEPT ![s] = Befriended(@)] /\ truth' = Caused(s, 2)
          /\ receipt' = IF ~Transition(s) THEN [NoReceipt EXCEPT !.species = s]
                        ELSE [pending |-> TRUE, fresh |-> TRUE, species |-> s,
                              before |-> relation[s].count]
      BY <2>1, <2>5
    <3>2. [NoReceipt EXCEPT !.species = s] \in Receipt
          /\ ~[NoReceipt EXCEPT !.species = s].pending
          /\ [NoReceipt EXCEPT !.species = s].species = s
      <4>1. NoReceipt \in Receipt /\ ~NoReceipt.pending
        BY DEF NoReceipt, Receipt, None
      <4> QED BY <2>2, <4>1 DEF Receipt
    <3>3. relation[s].count \in Nat
      BY <1>1, <2>2 DEF PaymentsTyped, Relations
    <3>4. receipt' \in Receipt
      BY <2>2, <3>1, <3>2, <3>3 DEF Receipt
    <3>5. MissionsOK'
      BY <2>1, <2>2, <2>5, <3>1, <3>2, <3>4, ResultMissions DEF Players
    <3>6. truth' \in History /\ SamePayments(truth') /\ relation' \in Relations
      BY <1>1, <2>2, <3>1, CausedFacts DEF Players
    <3> QED BY <2>1, <2>2, <2>3, <3>4, <3>5, <3>6, MissionStepKeeps
  <2> QED BY <2>4, <2>5
<1> QED BY <1>2, <1>3

\* A mission that looks pays the second player by a receipt that is still as it
\* was, and the first player otherwise: for its own result, or recording why not.
LEMMA EvaluatePays ==
  ASSUME PaymentsInv, NEW s \in Other, evaluate_objective(s)  PROVE PaymentsInv'
<1> DEFINE won == relation[s].friend /\ ~objective[s].friend
           to == IF ~foreign /\ Alive(2) /\ claim(s) THEN 2 ELSE 1
           spoiled == truth.excused[s] \/ truth.mixed[s] \/ ~Alive(2) \/ receipt.species # s
                      \/ (receipt.pending /\ ~receipt.fresh)
           w == IF won THEN to ELSE truth.won[s]
<1>1. /\ PaymentsTyped /\ MissionsOK /\ objective' = [objective EXCEPT ![s] = relation[s]]
      /\ receipt' = IF won /\ to = 2 THEN [receipt EXCEPT !.pending = FALSE] ELSE receipt
      /\ truth' = [truth EXCEPT !.mixed[s] = FALSE, !.won[s] = w, !.excused[s] = spoiled]
      /\ UNCHANGED <<foreign, corpses, meals, ticks, grants, social, relation, kept>>
  BY DEF PaymentsInv, evaluate_objective
<1>2. truth \in History /\ to \in Players /\ w \in 0..2 /\ spoiled \in BOOLEAN
  BY <1>1 DEF PaymentsTyped, History, Players
<1> HIDE DEF won, to, spoiled, w
<1>3. /\ truth' \in History /\ SamePayments(truth') /\ truth'.cause = truth.cause
      /\ ~truth'.mixed[s] /\ truth'.won[s] = w /\ truth'.excused[s] = spoiled
      /\ \A r \in Other \ {s} : /\ truth'.mixed[r] = truth.mixed[r]
                                /\ truth'.won[r] = truth.won[r]
                                /\ truth'.excused[r] = truth.excused[r]
  <2> DEFINE mm == [truth.mixed EXCEPT ![s] = FALSE]
             ww == [truth.won EXCEPT ![s] = w]
             ee == [truth.excused EXCEPT ![s] = spoiled]
  <2>1. truth' = [truth EXCEPT !.mixed = mm, !.won = ww, !.excused = ee]
    BY <1>1
  <2>2. /\ mm \in [Other -> BOOLEAN] /\ ~mm[s] /\ ww \in [Other -> 0..2] /\ ww[s] = w
        /\ ee \in [Other -> BOOLEAN] /\ ee[s] = spoiled
        /\ \A r \in Other \ {s} : /\ mm[r] = truth.mixed[r] /\ ww[r] = truth.won[r]
                                  /\ ee[r] = truth.excused[r]
    BY <1>2 DEF History
  <2> HIDE DEF mm, ww, ee
  <2>3. /\ truth' \in History /\ truth'.mixed = mm /\ truth'.won = ww /\ truth'.excused = ee
        /\ truth'.cause = truth.cause /\ truth'.paid = truth.paid
        /\ truth'.bodies = truth.bodies
    BY <1>2, <2>1, <2>2 DEF History
  <2> QED BY <2>2, <2>3 DEF SamePayments
<1>4. /\ objective' \in Relations /\ objective'[s] = relation[s]
      /\ \A r \in Other \ {s} : objective'[r] = objective[r]
  BY <1>1 DEF PaymentsTyped, Relations
<1>5. /\ receipt' \in Receipt /\ receipt'.species = receipt.species
      /\ receipt'.pending => receipt.pending
      /\ receipt'.before = receipt.before
      /\ receipt' = receipt \/ (won /\ to = 2)
  BY <1>1 DEF PaymentsTyped, Receipt
<1>6. to = 2 => receipt.pending /\ receipt.species = s
  BY DEF to, claim
<1>7. MissionOK(s, relation, objective, truth) /\ ReceiptOK(s)
  BY <1>1 DEF MissionsOK
<1>8. ASSUME won  PROVE to = truth.cause[s] \/ (to = 1 /\ spoiled)
  <2>1. truth.cause[s] \in {1, 2}
    <3>1. truth.cause[s] \in 0..2
      BY <1>2 DEF History
    <3> QED BY <1>7, <1>8, <3>1 DEF MissionOK, won, None
  <2>2. CASE to = 2
    BY <1>6, <1>7, <2>2 DEF ReceiptOK
  <2>3. CASE to = 1 /\ truth.cause[s] = 1
    BY <2>3
  <2>4. CASE to = 1 /\ truth.cause[s] = 2
    <3> SUFFICES ASSUME ~spoiled  PROVE FALSE
      BY <2>4
    <3>1. /\ ~truth.mixed[s] /\ Alive(2) /\ receipt.species = s
          /\ receipt.pending => receipt.fresh
      BY DEF spoiled
    <3>2. /\ receipt.pending
          /\ objective[s] = [count |-> receipt.before, friend |-> FALSE]
          /\ relation[s] = [count |-> receipt.before + 1, friend |-> TRUE]
      BY <1>7, <1>8, <2>4, <3>1 DEF ReceiptOK, won
    <3>3. ~foreign
      BY <1>7, <2>4 DEF MissionOK
    <3> QED BY <2>4, <3>1, <3>2, <3>3 DEF to, claim
  <2> QED BY <1>2, <2>1, <2>2, <2>3, <2>4 DEF Players
<1>9. MissionOK(s, relation, objective, truth)'
  <2>1. truth.won[s] # None => objective[s].friend /\ ~won
    BY <1>7 DEF MissionOK, won
  <2>2. truth.excused[s] => spoiled
    BY DEF spoiled
  <2>3. truth'.won[s] # None =>
          /\ relation[s].friend
          /\ truth'.won[s] = truth.cause[s] \/ (truth'.won[s] = 1 /\ spoiled)
    <3>1. CASE won
      BY <1>3, <1>8, <3>1 DEF w, won
    <3>2. CASE ~won
      BY <1>3, <1>7, <2>2, <3>2 DEF w, MissionOK
    <3> QED BY <3>1, <3>2
  <2> QED BY <1>1, <1>3, <1>4, <1>7, <2>3 DEF MissionOK
<1>10. ReceiptOK(s)'
  <2>1. truth.cause[s] = 2 => objective'[s].friend
    BY <1>4, <1>7 DEF MissionOK, None
  <2> QED BY <1>3, <1>5, <1>7, <2>1 DEF ReceiptOK
<1>11. ASSUME NEW r \in Other \ {s}
       PROVE  MissionOK(r, relation, objective, truth)' /\ ReceiptOK(r)'
  <2>1. MissionOK(r, relation, objective, truth) /\ ReceiptOK(r)
    BY <1>1 DEF MissionsOK
  <2>2. MissionOK(r, relation, objective, truth)'
    BY <1>1, <1>3, <1>4, <2>1 DEF MissionOK
  <2>3. receipt' = receipt \/ receipt'.species # r
    BY <1>5, <1>6
  <2>4. ReceiptOK(r)'
    BY <1>1, <1>3, <1>4, <1>5, <2>1, <2>3 DEF ReceiptOK
  <2> QED BY <2>2, <2>4
<1>12. MissionsOK'
  BY <1>9, <1>10, <1>11 DEF MissionsOK
<1> QED BY <1>1, <1>3, <1>4, <1>5, <1>12, MissionStepKeeps DEF PaymentsTyped
\* Everything else of the social results.
LEMMA SocialPays ==
  ASSUME PaymentsInv, SocialNext  PROVE PaymentsInv'
<1>1. PaymentsTyped
  BY DEF PaymentsInv
<1>2. CASE receipt_expires
  <2>1. /\ receipt' = [receipt EXCEPT !.fresh = FALSE]
        /\ UNCHANGED <<foreign, corpses, meals, ticks, grants, social, relation, objective,
                       kept, truth>>
    BY <1>2 DEF receipt_expires
  <2>2. /\ receipt' \in Receipt /\ receipt'.pending = receipt.pending
        /\ receipt'.species = receipt.species /\ receipt'.before = receipt.before
    BY <1>1, <2>1 DEF PaymentsTyped, Receipt
  <2>3. MissionsOK'
    <3>1. ASSUME NEW s \in Other
          PROVE  MissionOK(s, relation, objective, truth)' /\ ReceiptOK(s)'
      <4>1. MissionOK(s, relation, objective, truth) /\ ReceiptOK(s)
        BY DEF PaymentsInv, MissionsOK
      <4>2. MissionOK(s, relation, objective, truth)'
        BY <2>1, <4>1 DEF MissionOK
      <4>3. ReceiptOK(s)'
        BY <2>1, <2>2, <4>1 DEF ReceiptOK
      <4> QED BY <4>2, <4>3
    <3> QED BY <3>1 DEF MissionsOK
  <2> QED BY <1>1, <2>1, <2>2, <2>3, MissionStepKeeps DEF PaymentsTyped, SamePayments
<1>3. CASE ensure_native_network_player_controller
  <2>1. /\ social' = [social EXCEPT !.mode = 1]
        /\ UNCHANGED <<foreign, corpses, meals, ticks, grants, relation, objective, receipt,
                       kept, truth>>
    BY <1>3 DEF ensure_native_network_player_controller
  <2>2. social' \in Exchange
    BY <1>1, <2>1 DEF PaymentsTyped, Exchange
  <2> QED BY <1>1, <2>1, <2>2, ElsewhereKeeps DEF PaymentsTyped, SamePayments, SameMissions
<1>4. CASE \/ cancel_native_network_social_owner
           \/ update_native_network_social_owner
  <2>1. /\ \/ social' = [social EXCEPT !.mode = 1, !.completed = FALSE, !.with = None]
           \/ social' = [social EXCEPT !.mode = 1, !.completed = FALSE]
        /\ UNCHANGED <<foreign, corpses, meals, ticks, grants, relation, objective, receipt,
                       kept, truth>>
    BY <1>4 DEF cancel_native_network_social_owner, update_native_network_social_owner
  <2>2. social' \in Exchange
    <3>1. social \in Exchange
      BY <1>1 DEF PaymentsTyped
    <3>2. CASE social' = [social EXCEPT !.mode = 1, !.completed = FALSE, !.with = None]
      BY <3>1, <3>2 DEF Exchange
    <3>3. CASE social' = [social EXCEPT !.mode = 1, !.completed = FALSE]
      BY <3>1, <3>3 DEF Exchange
    <3> QED BY <2>1, <3>2, <3>3
  <2> QED BY <1>1, <2>1, <2>2, ElsewhereKeeps DEF PaymentsTyped, SamePayments, SameMissions
<1>5. ASSUME NEW s \in Other, perform_social(s) \/ first_greets(s)  PROVE PaymentsInv'
  <2>1. /\ \/ social' = [social EXCEPT !.mode = 3, !.with = s, !.completed = FALSE]
           \/ social' = [social EXCEPT !.first = s]
        /\ UNCHANGED <<foreign, corpses, meals, ticks, grants, relation, objective, receipt,
                       kept, truth>>
    BY <1>5 DEF perform_social, first_greets
  <2>2. social' \in Exchange
    <3>1. social \in Exchange
      BY <1>1 DEF PaymentsTyped
    <3>2. CASE social' = [social EXCEPT !.mode = 3, !.with = s, !.completed = FALSE]
      BY <3>1, <3>2 DEF Exchange
    <3>3. CASE social' = [social EXCEPT !.first = s]
      BY <3>1, <3>3 DEF Exchange
    <3> QED BY <2>1, <3>2, <3>3
  <2> QED BY <1>1, <2>1, <2>2, ElsewhereKeeps DEF PaymentsTyped, SamePayments, SameMissions
<1> QED BY <1>2, <1>3, <1>4, <1>5, ResultPays, EvaluatePays DEF SocialNext

LEMMA MealsPay ==
  ASSUME PaymentsInv, MealsNext  PROVE PaymentsInv'
BY DispatchPays, OrderPays, ClaimPays, FeedPays, AwardPays, ActionPays, ReturnsPay,
   VanishPays, AppearPays DEF MealsNext

\* Only the herd's inputs of the history change.
LEMMA RaisedKeeps ==
  ASSUME PaymentsInv, NEW p \in Players, NEW b \in BOOLEAN,
         truth' = truth \/ truth' = [truth EXCEPT !.raised[p] = b],
         UNCHANGED <<foreign, corpses, meals, ticks, grants, social, relation, objective,
                     receipt, kept>>
  PROVE  PaymentsInv'
<1>1. PaymentsTyped
  BY DEF PaymentsInv
<1> DEFINE r == [truth.raised EXCEPT ![p] = b]
<1>2. truth \in History /\ r \in [Players -> BOOLEAN]
  BY <1>1 DEF PaymentsTyped, History
<1>3. truth' = truth \/ truth' = [truth EXCEPT !.raised = r]
  OBVIOUS
<1> HIDE DEF r
<1>4. truth' \in History /\ SamePayments(truth') /\ SameMissions(truth')
  BY <1>2, <1>3 DEF History, SamePayments, SameMissions
<1> QED BY <1>1, <1>4, ElsewhereKeeps DEF PaymentsTyped

LEMMA HerdPays ==
  ASSUME PaymentsInv, HerdNext  PROVE PaymentsInv'
<1>1. PaymentsTyped
  BY DEF PaymentsInv
<1>2. ASSUME NEW p \in {1, 2}, damage_rewarded(p)  PROVE PaymentsInv'
  <2>1. UNCHANGED <<foreign, corpses, meals, ticks, grants, social, relation, objective,
                    receipt, kept, truth>>
    BY <1>2 DEF damage_rewarded
  <2> QED BY <2>1, RaisedKeeps DEF Players
<1>3. ASSUME NEW p \in {1, 2}, counter_tick(p)  PROVE PaymentsInv'
  <2>1. /\ truth' = truth \/ truth' = [truth EXCEPT !.raised[p] = TRUE]
        /\ UNCHANGED <<foreign, corpses, meals, ticks, grants, social, relation, objective,
                       receipt, kept>>
    BY <1>3 DEF counter_tick
  <2> QED BY <2>1, RaisedKeeps DEF Players
<1>4. CASE update_begins \/ update_hook
  <2>1. UNCHANGED <<foreign, corpses, meals, ticks, grants, social, relation, objective,
                    receipt, kept, truth>>
    BY <1>4 DEF update_begins, update_hook
  <2> QED BY <2>1, RaisedKeeps DEF Players
<1>5. CASE goal_hook
  <2>1. PICK p \in Players : truth' = truth \/ truth' = [truth EXCEPT !.raised[p] = FALSE]
    BY <1>5 DEF goal_hook, Players
  <2>2. UNCHANGED <<foreign, corpses, meals, ticks, grants, social, relation, objective,
                    receipt, kept>>
    BY <1>5 DEF goal_hook
  <2> QED BY <2>1, <2>2, RaisedKeeps
<1> QED BY <1>2, <1>3, <1>4, <1>5 DEF HerdNext

\* The second player's death ends its meal, not its tick.
LEMMA LivesPay ==
  ASSUME PaymentsInv, SecondDies \/ SecondReturns  PROVE PaymentsInv'
<1>1. PaymentsTyped /\ MealsOK
  BY DEF PaymentsInv
<1>2. CASE SecondReturns
  <2>1. UNCHANGED <<foreign, corpses, meals, ticks, grants, social, relation, objective,
                    receipt, kept, truth>>
    BY <1>2 DEF SecondReturns
  <2> QED BY <2>1, RaisedKeeps DEF Players
<1>3. CASE SecondDies
  <2>1. /\ meals' = [meals EXCEPT ![2] = None] /\ social' = [social EXCEPT !.with = None]
        /\ UNCHANGED <<foreign, corpses, ticks, grants, relation, objective, receipt, kept, truth>>
    BY <1>3 DEF SecondDies
  <2>2. /\ meals' \in [Eater -> Corpse \cup {None}]
        /\ \A e \in Eater : meals'[e] # None => meals'[e] = meals[e]
    BY <1>1, <2>1 DEF PaymentsTyped, Exchange
  <2>3. social' \in Exchange
    BY <1>1, <2>1 DEF PaymentsTyped, Exchange
  <2>4. \A u : TickOK(u) => TickOK(u)'
    BY <2>1 DEF TickOK
  <2>5. \A i \in DOMAIN ticks' : TickOK(ticks[i])'
    BY <1>1, <2>1, <2>4 DEF MealsOK
  <2>6. OwedOrGranted' /\ Bodies' = Bodies
    BY <1>1, <2>1 DEF MealsOK, OwedOrGranted, Bodies
  <2>7. \A e \in Eater : meals'[e] # None => corpses'[meals'[e]].body # None
    BY <1>1, <2>1, <2>2 DEF MealsOK
  <2>8. MealsOK'
    BY <1>1, <2>1, <2>5, <2>6, <2>7 DEF MealsOK
  <2>9. MissionsOK'
    BY <2>1, MissionsStay DEF PaymentsInv, SameMissions
  <2>10. PaymentsTyped'
    BY <1>1, <2>1, <2>2, <2>3 DEF PaymentsTyped
  <2> QED BY <2>1, <2>8, <2>9, <2>10, CheckpointStays DEF PaymentsInv
<1> QED BY <1>2, <1>3

\* A checkpoint is taken between ticks: every corpse that was paid for has its
\* grant, and only those are eaten of after a reload.
LEMMA SnapshotPays ==
  ASSUME PaymentsInv, snapshot_native_awards  PROVE PaymentsInv'
<1> DEFINE k == [award |-> award, bodies |-> Bodies, grants |-> grants, relation |-> relation,
                 field_48 |-> herd.field_48, pending |-> herd.b_world_pending, truth |-> truth]
<1>1. /\ PaymentsTyped /\ MealsOK /\ MissionsOK /\ ticks = <<>> /\ kept' = <<k>>
      /\ UNCHANGED <<foreign, corpses, meals, ticks, grants, social, relation, objective,
                     receipt, truth>>
  BY DEF PaymentsInv, snapshot_native_awards, native_awards_checkpoint_idle, Bodies
<1>2. /\ k.bodies = Bodies /\ k.grants = grants /\ k.relation = relation /\ k.truth = truth
  OBVIOUS
<1> HIDE DEF k
<1>3. Settled(Bodies, grants, truth)
  BY <1>1 DEF MealsOK, OwedOrGranted, Settled, Bodies
<1>4. Bodies \in [Corpse -> Nat]
  BY <1>1 DEF PaymentsTyped, Carcass, Bodies
<1>5. \A s \in Other : MissionOK(s, relation, relation, truth)
  BY <1>1 DEF MissionsOK, MissionOK
<1>6. KeptPayments(k)
  BY <1>1, <1>2, <1>3, <1>4, <1>5 DEF KeptPayments, PaymentsTyped, MealsOK
<1>7. ASSUME NEW j, KeptPayments(j)  PROVE KeptPayments(j)'
  <2>1. \A s \in Other : MissionOK(s, j.relation, j.relation, j.truth)'
    BY <1>1, <1>7 DEF KeptPayments, MissionOK
  <2> QED BY <1>7, <2>1 DEF KeptPayments
<1>8. Head(kept') = k
  BY <1>1
<1>9. MealsOK' /\ MissionsOK' /\ PaymentsTyped'
  BY <1>1, MealsStay, MissionsStay DEF SamePayments, SameMissions, PaymentsTyped
<1> QED BY <1>6, <1>7, <1>8, <1>9 DEF PaymentsInv
\* A reload takes the bodies, the grants and the relations of the checkpoint:
\* a corpse with a grant counts as eaten of, and no receipt is pending.
LEMMA RestoredPays ==
  ASSUME PaymentsInv, native_awards_restored  PROVE PaymentsInv'
<1> DEFINE k == Head(kept)
           reloads == truth.reloads + 1
<1>1. /\ kept # <<>> /\ UNCHANGED <<foreign, kept>>
      /\ corpses' = restore_native_pickup_flags(k) /\ grants' = k.grants
      /\ meals' = [e \in Eater |-> None] /\ ticks' = <<>>
      /\ social' = NoSocial /\ relation' = k.relation /\ objective' = k.relation
      /\ receipt' = NoReceipt /\ truth' = [k.truth EXCEPT !.reloads = reloads]
  BY DEF native_awards_restored
<1>2. KeptPayments(k) /\ PaymentsTyped
  BY <1>1 DEF PaymentsInv
<1> HIDE DEF k
<1>3. reloads \in Nat
  BY <1>2 DEF PaymentsTyped, History
<1> HIDE DEF reloads
<1>4. /\ truth' \in History /\ truth'.paid = k.truth.paid /\ truth'.bodies = k.truth.bodies
      /\ truth'.cause = k.truth.cause /\ truth'.won = k.truth.won
      /\ truth'.excused = k.truth.excused
  BY <1>1, <1>2, <1>3 DEF KeptPayments, History
<1>5. k.bodies \in [Corpse -> Nat] /\ k.grants \in [Corpse -> 0..2]
  BY <1>2 DEF KeptPayments
<1>6. ASSUME NEW c \in Corpse
      PROVE  /\ corpses'[c] \in Carcass /\ corpses'[c].body = k.bodies[c]
             /\ corpses'[c].eaten <=> k.grants[c] # None
  <2> DEFINE fed == k.grants[c] # None
             x == [NoCorpse EXCEPT !.body = k.bodies[c], !.eaten = fed]
  <2>1. corpses'[c] = x
    BY <1>1 DEF restore_native_pickup_flags
  <2>2. NoCorpse \in Carcass
    BY DEF NoCorpse, Carcass, None
  <2>3. k.bodies[c] \in Nat /\ fed \in BOOLEAN
    BY <1>5
  <2> HIDE DEF fed
  <2>4. x \in Carcass /\ x.body = k.bodies[c] /\ x.eaten = fed
    BY <2>2, <2>3 DEF Carcass
  <2> QED BY <2>1, <2>4 DEF fed
<1>7. corpses' \in [Corpse -> Carcass] /\ Bodies' = k.bodies
  <2>1. corpses' = [c \in Corpse |-> corpses'[c]]
    BY <1>1 DEF restore_native_pickup_flags
  <2>2. Bodies' = [c \in Corpse |-> k.bodies[c]]
    BY <1>6 DEF Bodies
  <2>3. k.bodies = [c \in Corpse |-> k.bodies[c]]
    BY <1>5
  <2> QED BY <1>6, <2>1, <2>2, <2>3
<1>8. \A b, p : Paid(truth', b, p) <=> Paid(k.truth, b, p)
  BY <1>4 DEF Paid
<1>9. Numbered(Bodies', truth')
  BY <1>2, <1>4, <1>7 DEF KeptPayments, Numbered
<1>10. Granted(Bodies', grants', truth')
  BY <1>1, <1>2, <1>7, <1>8 DEF KeptPayments, Granted
<1>11. OwedOrGranted'
  <2> SUFFICES ASSUME NEW c \in Corpse, NEW p \in Players, Paid(truth', corpses'[c].body, p)
               PROVE  corpses'[c].eaten /\ grants'[c] = p
    BY DEF OwedOrGranted
  <2>1. k.grants[c] = p
    BY <1>2, <1>6, <1>8 DEF KeptPayments, Settled
  <2> QED BY <1>1, <1>6, <2>1 DEF Players, None
<1>12. meals' \in [Eater -> Corpse \cup {None}] /\ \A e \in Eater : meals'[e] = None
  BY <1>1
<1>13. ticks' \in Seq(Tick) /\ DOMAIN ticks' = {}
  BY <1>1
<1>14. MealsOK'
  BY <1>9, <1>10, <1>11, <1>12, <1>13 DEF MealsOK
<1>15. NoReceipt \in Receipt /\ ~NoReceipt.pending /\ NoReceipt.species = None
  BY DEF NoReceipt, Receipt, None
<1>16. ASSUME NEW s \in Other
       PROVE  MissionOK(s, relation, objective, truth)' /\ ReceiptOK(s)'
  <2>1. MissionOK(s, k.relation, k.relation, k.truth)
    BY <1>2 DEF KeptPayments
  <2>2. MissionOK(s, relation, objective, truth)'
    BY <1>1, <1>4, <2>1 DEF MissionOK
  <2>3. truth'.cause[s] = 2 => objective'[s].friend
    BY <1>1, <1>4, <2>1 DEF MissionOK, None
  <2>4. ReceiptOK(s)'
    BY <1>1, <1>15, <2>3 DEF ReceiptOK
  <2> QED BY <2>2, <2>4
<1>17. MissionsOK'
  BY <1>16 DEF MissionsOK
<1>18. NoSocial \in Exchange
  BY DEF NoSocial, Exchange, None
<1>19. PaymentsTyped'
  BY <1>1, <1>2, <1>4, <1>5, <1>7, <1>12, <1>13, <1>15, <1>18 DEF PaymentsTyped, KeptPayments
<1> QED BY <1>1, <1>14, <1>17, <1>19, CheckpointStays DEF PaymentsInv

LEMMA PaymentsBegin ==
  RewardsInit => PaymentsInv
<1> SUFFICES ASSUME RewardsInit  PROVE PaymentsInv
  OBVIOUS
<1>1. /\ kept = <<>> /\ foreign \in BOOLEAN /\ ticks = <<>>
      /\ corpses = [c \in Corpse |-> NoCorpse] /\ meals = [e \in Eater |-> None]
      /\ grants = [c \in Corpse |-> None] /\ social = NoSocial /\ receipt = NoReceipt
      /\ relation = [s \in Other |-> Met] /\ objective = relation
  BY DEF RewardsInit
<1>2. /\ truth \in History /\ truth.paid = <<>> /\ truth.bodies = 0
      /\ \A s \in Other : truth.cause[s] = None /\ truth.won[s] = None
  <2>1. truth = [raised |-> [p \in {1, 2} |-> FALSE], paid |-> <<>>, bodies |-> 0, reloads |-> 0,
                 cause |-> [s \in Other |-> None], won |-> [s \in Other |-> None],
                 mixed |-> [s \in Other |-> FALSE], excused |-> [s \in Other |-> FALSE]]
    BY DEF RewardsInit
  <2> QED BY <2>1 DEF History, Players, None
<1>3. NoCorpse \in Carcass /\ NoCorpse.body = None
  BY DEF NoCorpse, Carcass, None
<1>4. NoReceipt \in Receipt /\ ~NoReceipt.pending /\ NoSocial \in Exchange
  BY DEF NoReceipt, Receipt, NoSocial, Exchange, None
<1>5. Met \in [count : Nat, friend : BOOLEAN] /\ ~Met.friend
  BY DEF Met
<1>6. PaymentsTyped
  BY <1>1, <1>2, <1>3, <1>4, <1>5 DEF PaymentsTyped, Relations, None
<1>7. DOMAIN truth.paid = {} /\ DOMAIN ticks = {}
  BY <1>1, <1>2
<1>8. \A b, p : ~Paid(truth, b, p)
  BY <1>7 DEF Paid
<1>9. Numbered(Bodies, truth)
  BY <1>1, <1>2, <1>3, <1>7 DEF Numbered, Bodies, None
<1>10. MealsOK
  BY <1>1, <1>7, <1>8, <1>9 DEF MealsOK, Granted, OwedOrGranted
<1>11. MissionsOK
  <2>1. ASSUME NEW s \in Other
        PROVE  MissionOK(s, relation, objective, truth) /\ ReceiptOK(s)
    <3>1. ~relation[s].friend /\ ~objective[s].friend
      BY <1>1, <1>5
    <3>2. truth.cause[s] = None /\ truth.won[s] = None /\ ~receipt.pending
      BY <1>1, <1>2, <1>4
    <3> QED BY <3>1, <3>2 DEF MissionOK, ReceiptOK, None
  <2> QED BY <2>1 DEF MissionsOK
<1> QED BY <1>1, <1>6, <1>10, <1>11 DEF PaymentsInv

LEMMA PaymentsIdle ==
  ASSUME PaymentsInv, UNCHANGED rewards  PROVE PaymentsInv'
<1>1. UNCHANGED <<foreign, corpses, meals, ticks, grants, social, relation, objective,
                  receipt, kept, truth>>
  BY DEF rewards
<1> QED BY <1>1, RaisedKeeps DEF Players

\* In every reachable state what was paid for meals and missions, the grants,
\* the ticks in progress and the receipt are as PaymentsInv says.
THEOREM PaymentsInvariant == RewardsSpec => []PaymentsInv
<1>1. PaymentsInv /\ RewardsNext => PaymentsInv'
  BY LivesPay, HerdPays, MealsPay, SocialPays, SnapshotPays, RestoredPays DEF RewardsNext
<1>2. PaymentsInv /\ [RewardsNext]_rewards => PaymentsInv'
  BY <1>1, PaymentsIdle
<1> QED BY PaymentsBegin, <1>2, PTL DEF RewardsSpec

\* Whoever eats inside whose meal, dies, reloads or greets the same species in
\* turn: a corpse pays for its first feeding once and to whom the scene names,
\* and a species befriended is rewarded to the player whose result did it, or to
\* the first player with a reason.
THEOREM RewardsAlwaysStay == RewardsSpec => []RewardsStayWithTheirEarner
<1>1. PaymentsInv => MealsPayOnce
  <2> SUFFICES ASSUME PaymentsInv  PROVE MealsPayOnce
    OBVIOUS
  <2>1. PaymentsTyped /\ MealsOK
    BY DEF PaymentsInv
  <2>2. \A i, j \in DOMAIN truth.paid : truth.paid[i].body = truth.paid[j].body => i = j
    BY <2>1 DEF MealsOK, Numbered
  <2>3. ASSUME NEW c \in Corpse, native_actor_pickup_owner(c) # None
        PROVE  \E i \in DOMAIN truth.paid :
                 truth.paid[i] = [body |-> corpses[c].body, to |-> native_actor_pickup_owner(c)]
    <3>1. grants[c] # None /\ native_actor_pickup_owner(c) = grants[c]
      BY <2>3 DEF native_actor_pickup_owner
    <3>2. Paid(truth, corpses[c].body, grants[c])
      BY <2>1, <3>1 DEF MealsOK, Granted, Bodies
    <3> QED BY <3>1, <3>2 DEF Paid
  <2>4. ASSUME ticks = <<>>, NEW i \in DOMAIN truth.paid, NEW c \in Corpse,
               corpses[c].body = truth.paid[i].body
        PROVE  native_actor_pickup_owner(c) = truth.paid[i].to
    <3> DEFINE P == [body : Nat \ {0}, to : Players]
    <3>1. truth.paid[i] \in P
      <4>1. truth.paid \in Seq(P)
        BY <2>1 DEF PaymentsTyped, History
      <4> HIDE DEF P
      <4> QED BY <4>1
    <3>2. /\ truth.paid[i] = [body |-> truth.paid[i].body, to |-> truth.paid[i].to]
          /\ truth.paid[i].to \in Players /\ truth.paid[i].body # None
      BY <3>1 DEF None
    <3>3. Paid(truth, corpses[c].body, truth.paid[i].to)
      BY <2>4, <3>2 DEF Paid
    <3>4. corpses[c].eaten /\ grants[c] = truth.paid[i].to
      BY <2>1, <2>4, <3>2, <3>3 DEF MealsOK, OwedOrGranted
    <3> QED BY <2>4, <3>2, <3>4 DEF native_actor_pickup_owner
  <2> QED BY <2>2, <2>3, <2>4 DEF MealsPayOnce
<1>2. PaymentsInv => MissionsPayTheirPlayer
  BY DEF PaymentsInv, MissionsOK, MissionOK, MissionsPayTheirPlayer
<1>3. PaymentsInv => RewardsStayWithTheirEarner
  BY <1>1, <1>2 DEF RewardsStayWithTheirEarner
<1> QED BY PaymentsInvariant, <1>3, PTL
=============================================================================
