-------------------------- MODULE DurableRegister --------------------------
(***************************************************************************)
(* What the durable store promises to the coordinator: one register that   *)
(* survives every crash, with one writer at a time.  A commit takes effect *)
(* at one instant and is acknowledged later, or never: a writer that dies  *)
(* or fails in between leaves the old value or the new one.  Whoever opens *)
(* the register reads its value, never an older one.                       *)
(***************************************************************************)
EXTENDS Naturals

CONSTANTS Process, Payload, Limit, Nobody

VARIABLES
  value,    \* [revision, payload] of the last commit that took effect
  writer,   \* the process that has the register open, or Nobody
  view      \* what the writer was told: the value it read or had acknowledged

vars == <<value, writer, view>>

Init ==
  /\ value.revision = 0
  /\ writer = Nobody /\ view = value

Open(p) == writer = Nobody /\ writer' = p /\ view' = value /\ UNCHANGED value

Apply(payload) ==
  /\ writer # Nobody /\ view = value /\ value.revision < Limit
  /\ value' = [revision |-> value.revision + 1, payload |-> payload]
  /\ UNCHANGED <<writer, view>>

Acknowledge == writer # Nobody /\ view' = value /\ UNCHANGED <<value, writer>>

Close == writer # Nobody /\ writer' = Nobody /\ UNCHANGED <<value, view>>

Next ==
  \/ \E p \in Process : Open(p)
  \/ \E payload \in Payload : Apply(payload)
  \/ Acknowledge
  \/ Close

Spec == Init /\ [][Next]_vars
=============================================================================
