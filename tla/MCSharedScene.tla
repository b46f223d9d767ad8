---------------------------- MODULE MCSharedScene ----------------------------
(* Small instances of SharedScene.                                         *)
EXTENDS SharedScene

\* Entity p is player p's creature; the last one is an animal.
CreatureOwner == [e \in Entity |-> IF e \in Player THEN e ELSE 0]
StaysOrArrives == {{1}, Player}
=============================================================================
