--------------------------- MODULE MCActorInputs ---------------------------
(* Small instances of ActorInputs: one player does all that is told apart. *)
EXTENDS ActorInputs

MCVerbs == <<{"steer", "steer_stop", "jump", "approach", "combat", "attack", "pickup", "stop"}>>

=============================================================================
