--------------------------- MODULE MCSecondPlayer ---------------------------
(* What the second player's creature does in the game of a worker, one part   *)
(* at a time.  Its fights: two creatures of a third species of which two      *)
(* kills are admitted, and two results; "nested" has blows two deep in one    *)
(* scene that no wild creature leaves, "reloaded" one at a time in two; once   *)
(* combat has ended for the scene only what is in flight goes on, as the      *)
(* network's inputs are fenced.                                               *)
(* Its rewards: "meals" are eating ticks two deep over two numbers for        *)
(* corpses, "resumed" single ones with the counters and checkpoints, "herd"   *)
(* the herd's input, "friends" the social results.                            *)
EXTENDS FollowedFight, SecondRewards

VARIABLE focus
all == <<vars, rewards, focus>>

Fenced == bond.failed = epoch
Fight ==
  /\ Next /\ UNCHANGED rewards
  /\ Fenced => stack # <<>> \/ epoch' # epoch
  /\ CASE focus = "nested" -> UNCHANGED <<epoch, saved>> /\ \A c \in Wild : life'[c] # "gone"
       [] focus = "reloaded" -> Len(stack') <= 1
       [] OTHER -> FALSE

Rewarded == {"meals", "resumed", "herd", "friends"}
Reward ==
  /\ UNCHANGED vars
  /\ \/ focus \in Rewarded /\ (SecondDies \/ SecondReturns)
     \/ focus \in {"meals", "resumed"} /\ MealsNext
     \/ focus = "herd" /\ HerdNext
     \/ focus = "friends" /\ SocialNext
     \* The counters of rewards the other parts earn.
     \/ focus \in {"resumed", "friends"} /\ (\E p \in {1, 2} : counter_tick(p)) /\ UNCHANGED herd
     \/ focus \in Rewarded \ {"meals"} /\ (snapshot_native_awards \/ native_awards_restored)
  /\ focus = "meals" /\ award' # award => Inner.step = "fed"
  /\ award'[1].dna + award'[2].dna <= IF focus \in {"meals", "resumed"} THEN 2 ELSE 3
  /\ focus = "meals" => Cardinality({e \in Eater : meals'[e] # None}) <= 2
  /\ focus = "resumed" => Len(ticks') <= 1 /\ (\A c \in Corpse \ {1} : corpses'[c] = NoCorpse)

MCInit ==
  /\ Init /\ RewardsInit
  /\ focus \in {"nested", "reloaded"} \cup Rewarded
  /\ focus \notin {"herd", "friends"} => ~foreign

MCSpec == MCInit /\ [][UNCHANGED focus /\ (Fight \/ Reward)]_all
=============================================================================
