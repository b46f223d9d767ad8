------------------------- MODULE MCSceneProjection --------------------------
(* Twelve numbers. The first player's creature 1, a creature 2 of the second  *)
(* player's species, its nest 4, a fossil 3 and a fruit 6; the authority      *)
(* numbers the second player's creature 7.                                   *)
EXTENDS SceneProjection, TLC

MCHerdSpecies == [first |-> "f", wild |-> "w"]
MCBegun ==
  1 :> Noun("creature", "f", "first") @@ 2 :> Noun("creature", "w", "wild") @@ 3 :> Noun("fossil", "bone", "")
    @@ 4 :> Noun("nest", "w", "wild") @@ 6 :> Noun("fruit", "", "") @@ 7 :> Noun("creature", "w", "second")

Home == Restrict(MCBegun, {1, 2, 3, 4, 6})
Load(local, restored) == [local |-> local, restored |-> restored, avatar |-> 1]
MCLoads ==
  {Load(Home, 0), Load(Put(Home, 7, MCBegun[7]), 7), Load(Restrict(Home, {1, 2}), 0),
   Load(Put(Home, 3, Noun("fossil", "other", "")), 0), Load(Put(Home, 8, Noun("fossil", "bone", "")), 0)}
MCNewcomers ==
  {Noun("creature", "w", "wild"), Noun("creature", "w", "new"), Noun("creature", "strange", "new"),
   Noun("fossil", "bone", ""), Noun("nest", "w", "wild"), Noun("fruit", "", "")}
=============================================================================
