-------------------------- MODULE MCSharedMoments --------------------------
(* The moments are explored apart, as they share only the creature that dies: *)
(* the deaths of one player's creature, one death of each, the tutorials of   *)
(* one player, the lessons of the second player's hatched creature.           *)
EXTENDS SharedMoments

VARIABLE focus
Focus == {"first", "second", "both", "first tutorials", "second tutorials", "lessons"}

Away(p) == clients'[p].state = "away"
Spared(s) == worker'.life[s] = "alive"
Untaught == worker'.tutorial = None /\ worker'.recorded = Nothing /\ UNCHANGED worker.deferring
NoLessons == worker'.hatch.serial <= 2 /\ clients'[2].frame.what # "lesson" /\ ~worker'.hatch.active

Only(p) == Away(3 - p) /\ Spared(3 - p) /\ worker'.tutorial[3 - p] = 0 /\ worker'.recorded[3 - p] = {}
Deaths(scene1, scene2) == worker'.occurrence <= (IF worker'.scene = 1 THEN scene1 ELSE scene2)

\* A death is looked at with one tutorial, one connection and no failure.
OneOrAlive(s) ==
  \/ Spared(s) /\ worker'.occurrence = 0
  \/ worker'.tutorial[s] \in {0, 1} /\ worker'.recorded[s] \subseteq {"dna"} /\ session'.next <= 2 /\ worker'.faults = 0

Within ==
  /\ Len(inbox') <= 2
  /\ CASE focus = "first" -> Only(1) /\ Untaught /\ Deaths(2, 1) /\ session'.next <= 3
       [] focus = "second" -> Only(2) /\ Untaught /\ NoLessons /\ Deaths(2, 1) /\ session'.next <= 3
       [] focus = "both" -> /\ Untaught /\ NoLessons /\ Len(inbox') <= 1 /\ worker'.faults = 0 /\ worker'.scene = 1 /\ session'.next <= 3
                            /\ \A p \in Slot : clients[p].state # "away" => ~Away(p)
       [] focus = "first tutorials" -> Only(1) /\ Deaths(1, 0) /\ OneOrAlive(1) /\ session'.next <= 3
       [] focus = "second tutorials" -> Only(2) /\ NoLessons /\ Deaths(1, 0) /\ OneOrAlive(2) /\ (Spared(2) \/ worker.foreign) /\ session'.next <= 3
       [] focus = "lessons" -> Only(2) /\ Untaught /\ worker'.occurrence <= 1 /\ worker'.scene = 1 /\ session'.next <= 2

MCInit ==
  /\ Init /\ focus \in Focus
  /\ worker.foreign => focus \in {"second", "first tutorials", "second tutorials"}
MCNext == Next /\ UNCHANGED focus /\ Within
MCSpec == MCInit /\ [][MCNext]_<<vars, focus>>
=============================================================================
