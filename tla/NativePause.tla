----------------------------- MODULE NativePause -----------------------------
(* The gameplay pause a worker's bridge holds while a player's state is    *)
(* moved, and the measurement that the held world stays as it is           *)
(* (native_quiescence_probe.cpp).  The game's own code may pause and       *)
(* resume too: the original only counts.                                   *)
EXTENDS Integers

(* The game: the gameplay pause counter; the calls of others in it; whether *)
(* the scene the hold names is still loaded; and what has not moved since   *)
(* when: the world and the AI's counter since the observation window        *)
(* opened, the world since a source was sealed, the AI since the release.   *)
Reference == {"world_at_window", "ai_at_window", "world_at_seal", "ai_at_release"}
WorldReference == {"world_at_window", "world_at_seal"}

(* The probe's status.  The counts of zero and other deltas matter as      *)
(* whether there was one since they were reset.                            *)
NoPause == [phase |-> "idle", request |-> 0, owns |-> FALSE, ambiguous |-> FALSE,
            zero |-> FALSE, nonzero |-> FALSE]

reject(p) == [p EXCEPT !.phase = "rejected"]

restart_settling(p) == [p EXCEPT !.phase = "settling", !.zero = FALSE, !.nonzero = FALSE]

\* A second acquisition of the same hold keeps it; nobody else may pause.
may_acquire(p, g, request, context) ==
  /\ context
  /\ IF p.owns THEN p.request = request /\ p.phase # "rejected"
               ELSE ~p.ambiguous /\ g.scene /\ g.count = 0

acquire_pause(p, request) ==
  IF p.owns THEN p ELSE restart_settling([NoPause EXCEPT !.request = request, !.owns = TRUE])
Paused(p, g) == IF p.owns THEN g ELSE [g EXCEPT !.count = @ + 1]

\* After an authorized change of the held world, a new window is needed.
may_reobserve(p, g, context) == context /\ p.owns /\ ~p.ambiguous /\ g.scene /\ g.count = 1

-----------------------------------------------------------------------------
(* One engine update under a held pause.                                   *)

owned_pause_intact(p, g, context) ==
  IF ~context \/ ~g.scene THEN reject(p)
  ELSE IF g.count < 1 THEN [reject(p) EXCEPT !.owns = FALSE, !.ambiguous = TRUE]
  ELSE IF g.count # 1 THEN reject(p)
  ELSE p

\* Opaque: the camera fade is over.  Late: the time to settle is up.
settle(p, opaque, late) ==
  IF ~p.zero THEN IF late THEN reject(p) ELSE p
  ELSE IF p.nonzero THEN reject(p)
  ELSE IF ~opaque THEN IF late THEN reject(p) ELSE p
  ELSE [p EXCEPT !.phase = "observing", !.zero = FALSE]

opens_window(p, q) == p.phase = "settling" /\ q.phase = "observing"

observe(p, g, elapsed) ==
  IF p.nonzero \/ ~({"world_at_window", "ai_at_window"} \subseteq g.same) THEN reject(p)
  ELSE IF p.phase = "observing" /\ elapsed
       THEN IF p.zero THEN [p EXCEPT !.phase = "measured"] ELSE reject(p)
  ELSE p

update_native_quiescence_probe(p, g, context) ==
  LET checked == owned_pause_intact(p, g, context) IN
  IF ~p.owns \/ p.phase = "rejected" THEN {p}
  ELSE IF checked # p THEN {checked}
  ELSE IF p.phase = "settling" THEN {settle(p, opaque, late) : opaque, late \in BOOLEAN}
  ELSE {observe(p, g, elapsed) : elapsed \in BOOLEAN}

-----------------------------------------------------------------------------
(* What a measured pause is asked, and its release.                        *)

claims_ready(p) == p.owns /\ ~p.ambiguous /\ p.phase = "measured"

native_quiescence_probe_ready(p, g, context) ==
  /\ claims_ready(p) /\ context /\ g.scene /\ g.count = 1 /\ ~p.nonzero
  /\ {"world_at_window", "ai_at_window"} \subseteq g.same

\* Asking rejects a measurement that no longer holds.
Asked(p, g, context) ==
  IF claims_ready(p) /\ ~native_quiescence_probe_ready(p, g, context) THEN reject(p) ELSE p

\* A rejected measurement does not prevent the release of a pause still owned.
may_resume(p, g, request, context) == context /\ g.scene /\ p.request = request /\ p.owns /\ ~p.ambiguous

request_native_quiescence_resume(p, g) ==
  IF g.count < 1 THEN [reject(p) EXCEPT !.owns = FALSE, !.ambiguous = TRUE]
                 ELSE [p EXCEPT !.owns = FALSE, !.phase = "released"]
Resumed(g) == IF g.count < 1 THEN g ELSE [g EXCEPT !.count = @ - 1]

-----------------------------------------------------------------------------
(* The hooks of the original's pause, resume and delta.  A call off the    *)
(* engine's thread is counted by the original and not by the hook.         *)

pause_hook(p, seen) == IF p.owns /\ seen THEN reject(p) ELSE p

resume_hook(p, g, seen) ==
  IF ~(p.owns /\ seen) THEN p
  ELSE IF g.count <= 1 THEN [reject(p) EXCEPT !.owns = FALSE, !.ambiguous = TRUE]
  ELSE reject(p)

delta_hook(p, g) ==
  IF ~p.owns THEN p ELSE IF g.count > 0 THEN [p EXCEPT !.zero = TRUE] ELSE [p EXCEPT !.nonzero = TRUE]

\* A frame of a paused game moves nothing; of a running one, what it likes.
Framed(g) ==
  IF g.count > 0 THEN {g}
  ELSE {[g EXCEPT !.same = @ \ moved] : moved \in {{}, WorldReference, Reference}}
=============================================================================
