--------------------------- MODULE WorkerTransfer ---------------------------
(* The native side of a player transfer: the bridge of one location's      *)
(* authority takes the coordinator's commands one after the other, holds   *)
(* the original game under a measured pause, exports, restores or retires  *)
(* the player there, and answers each with a sealed receipt.               *)
EXTENDS NativePause, Sequences

CONSTANTS
  MaxTransfer, \* bound: transfers this process is asked to take part in
  MaxRepeat,   \* bound: commands delivered again
  MaxFault     \* bound: calls of others, changes under the pause, the link or the scene lost

ASSUME WorkerTransferConstants == MaxTransfer \in Nat \ {0} /\ MaxRepeat \in Nat /\ MaxFault \in Nat

VARIABLES
  worker,   \* the authority's process: the bridge, the probe's pause, the game
  toBridge, \* commands on their way to it
  asked,    \* the coordinator: its last command, and whether it has the receipt
  budget    \* what is left of the bounds

vars == <<worker, toBridge, asked, budget>>

Op == {"source_fence", "source_restore", "source_activate", "source_cleanup",
       "destination_restore", "destination_activate", "destination_discard"}
Command == [id : 1..MaxTransfer, op : Op, slot : {1, 2}, baseline : Nat]
NoCommand == [id |-> 0, op |-> "none", slot |-> 0, baseline |-> 0]

\* What begin_transfer and hold_scene_for_recovery reset.
NoTransfer == [work |-> "idle", request |-> 0, command |-> NoCommand, receipt_ready |-> FALSE,
               imported |-> FALSE, finish_after_resume |-> FALSE]

\* An authority that serves its scene, or one started to recover a transfer
\* and not yet connected; of either, with or without a second player.
Init ==
  /\ \E second, recovery \in BOOLEAN :
       worker = [process |-> "running", failed |-> FALSE, ready |-> ~recovery, inputs |-> ~recovery,
                 link |-> IF recovery THEN "starting" ELSE "welcomed", maintenance |-> recovery,
                 has_secondary |-> second, transfer |-> NoTransfer, pause |-> NoPause,
                 game |-> [count |-> 0, foreign |-> 0, scene |-> TRUE, same |-> {}],
                 second |-> second, used |-> FALSE, baseline |-> 1, receipts |-> <<>>]
  /\ toBridge = <<>>
  /\ asked = [command |-> NoCommand, answered |-> TRUE]
  /\ budget = [transfers |-> MaxTransfer, repeats |-> MaxRepeat, faults |-> MaxFault]

Serving == worker.process = "running" /\ ~worker.failed

(* A handler is an operator from the process's state to those it may leave *)
(* it in.                                                                  *)

\* The bridge's transfer and its transport stand behind a hold.
native_network_transfer_context(w) ==
  /\ ~w.failed /\ w.transfer.work # "idle"
  /\ \/ w.link = "welcomed"
     \/ w.transfer.work = "startup" /\ w.maintenance /\ w.link # "lost"

Ready(w) == native_quiescence_probe_ready(w.pause, w.game, native_network_transfer_context(w))

\* Fenced for good; the pause is left to whoever ends the process.
quarantine(w) == [w EXCEPT !.failed = TRUE, !.ready = FALSE, !.inputs = FALSE, !.link = "lost"]

\* An answer that the pause no longer is what was measured rejects it.
QuarantineUnready(w) ==
  quarantine([w EXCEPT !.pause = Asked(@, w.game, native_network_transfer_context(w))])

\* The original was changed in part, or not as it must be: the process ends.
Terminate(w) == [w EXCEPT !.process = "ended"]

transfer_receipt(w) ==
  [w EXCEPT !.transfer.receipt_ready = TRUE, !.receipts = Append(@, w.transfer.command)]

-----------------------------------------------------------------------------
(* The hold and its release.                                               *)

\* Taking the pause fences the players' inputs.
request_native_transfer_quiescence(w) ==
  IF may_acquire(w.pause, w.game, w.transfer.request, native_network_transfer_context(w))
  THEN [w EXCEPT !.pause = acquire_pause(@, w.transfer.request), !.game = Paused(w.pause, @), !.inputs = FALSE]
  ELSE quarantine(w)

\* A recovery worker holds its scene before it connects.
hold_scene_for_recovery(w) ==
  LET held == request_native_transfer_quiescence(
                [w EXCEPT !.transfer = [NoTransfer EXCEPT !.work = "startup", !.request = 1]])
  IN IF held.failed THEN held ELSE [held EXCEPT !.link = "connecting"]

\* Released once; inputs stay fenced until a baseline is accepted.
resume_after_transfer(w) ==
  LET p == w.pause
      may == may_resume(p, w.game, w.transfer.request, native_network_transfer_context(w))
  IN
  IF ~may THEN quarantine(w)
  ELSE IF w.game.count < 1 THEN quarantine([w EXCEPT !.pause = request_native_quiescence_resume(p, w.game)])
  ELSE [w EXCEPT !.pause = request_native_quiescence_resume(p, w.game), !.game = Resumed(@),
                 !.game.same = @ \cup {"ai_at_release"}, !.transfer.work = "resuming"]

\* The state the pause holds was changed: measure what it is now.
Reobserve(w) ==
  IF may_reobserve(w.pause, w.game, native_network_transfer_context(w))
  THEN [w EXCEPT !.pause = restart_settling(@), !.transfer.work = "remeasuring"]
  ELSE quarantine(w)

-----------------------------------------------------------------------------
(* The original's players.                                                 *)

Changed(w) == [w EXCEPT !.game.same = @ \ WorldReference]

\* The avatar, the player and the herd are removed, one after the other.
native_actor_retire_transfer_secondary(w) ==
  [Changed(w) EXCEPT !.second = FALSE, !.used = FALSE]

\* Mutant: the bridge still counts on the player it removed.
retire_selected_secondary_remembered(w) ==
  IF ~(Ready(w) /\ w.second) THEN {QuarantineUnready(w)}
  ELSE {[Reobserve(native_actor_retire_transfer_secondary(w)) EXCEPT !.transfer.finish_after_resume = TRUE]}

\* Refused with nothing changed; whole, and then released once measured; or
\* partial, which ends the process.
retire_selected_secondary(w) ==
  IF ~(Ready(w) /\ w.second) THEN {QuarantineUnready(w)}
  ELSE {quarantine(w), Terminate(w)} \cup
       {IF r.failed THEN r
        ELSE [r EXCEPT !.has_secondary = FALSE, !.transfer.imported = FALSE, !.transfer.finish_after_resume = TRUE]
          : r \in {Reobserve(native_actor_retire_transfer_secondary(w))}}

\* The one import of the process must be free; slot 1 is restored only when
\* there is no second player.
may_import(w, slot) == ~w.used /\ Ready(w) /\ (w.second = (slot = 2 /\ w.has_secondary))

import_player_transfer_impl(w, slot) ==
  [Changed(w) EXCEPT !.used = TRUE, !.second = (slot = 2)]

restore_transfer_player(w) ==
  LET slot == w.transfer.command.slot IN
  IF ~may_import(w, slot) THEN {QuarantineUnready(w)}
  ELSE {quarantine(w), Terminate(w)} \cup
       {Reobserve(IF slot = 2 THEN [r EXCEPT !.has_secondary = TRUE, !.transfer.imported = TRUE] ELSE r)
          : r \in {import_player_transfer_impl(w, slot)}}

\* A traveler who left after the checkpoint this fresh process loaded.
retire_checkpoint_secondary(w) ==
  IF ~w.maintenance \/ ~w.has_secondary THEN {quarantine(w)} ELSE retire_selected_secondary(w)

-----------------------------------------------------------------------------
(* Commands.                                                               *)

\* The first command of a recovery worker, whose pause is already held.
receive_recovery_command(w, c) ==
  IF /\ c.id = w.transfer.request
     /\ \/ c.op \in {"destination_restore", "source_restore"}
        \/ c.op = "source_cleanup" /\ c.slot = 2 /\ w.has_secondary
  THEN [w EXCEPT !.transfer.command = c, !.transfer.work = "pausing"]
  ELSE quarantine(w)

\* What a command asks of a transfer held under its pause.
held_step(c, previous) ==
  CASE c.op = "source_activate" /\ previous.op \in {"source_fence", "source_restore"} -> "activate"
    [] c.op = "destination_activate" /\ previous.op = "destination_restore" -> "activate"
    [] c.op = "destination_discard" /\ previous.op = "destination_restore" -> "discard"
    [] c.op = "source_cleanup" /\ previous.op = "source_fence" /\ previous.slot = 2 -> "cleanup"
    [] c.op = "source_restore" /\ previous.op = "source_fence" -> "retain_source"
    [] OTHER -> "unsupported"

\* Mutant: what stayed paused is taken for what was exported.
revalidate_retained_source_blind(w) == transfer_receipt(w)

\* The same continuous pause: nothing is read over the state that stayed.
revalidate_retained_source(w) == IF Ready(w) THEN transfer_receipt(w) ELSE QuarantineUnready(w)

retire_held_secondary(w, discard) ==
  IF (discard /\ ~w.transfer.imported) \/ ~w.has_secondary THEN {quarantine(w)} ELSE retire_selected_secondary(w)

receive_followup_command(w, c) ==
  LET t == w.transfer
      step == held_step(c, t.command)
      next == [w EXCEPT !.transfer.command = c, !.transfer.receipt_ready = FALSE]
  IN
  IF c = t.command THEN {w}
  ELSE IF c.id # t.command.id \/ ~t.receipt_ready \/ t.work # "held" \/ step = "unsupported" THEN {quarantine(w)}
  ELSE CASE step = "activate" -> {resume_after_transfer(next)}
         [] step = "retain_source" -> {revalidate_retained_source(next)}
         [] OTHER -> retire_held_secondary(next, step = "discard")

\* Stop serving and ask for the pause.
begin_transfer(w, c) ==
  IF \/ ~w.ready \/ c.op \notin {"source_fence", "destination_restore", "source_restore"}
     \/ c.slot = 2 /\ w.has_secondary # (c.op = "source_fence")
  THEN quarantine(w)
  ELSE request_native_transfer_quiescence(
         [w EXCEPT !.transfer = [NoTransfer EXCEPT !.work = "pausing", !.request = c.id, !.command = c],
                   !.ready = FALSE])

\* A command names the baseline it was given for.
receive_transfer(w, c) ==
  IF c.baseline # w.baseline THEN {quarantine(w)}
  ELSE IF w.transfer.receipt_ready /\ c = w.transfer.command THEN {[w EXCEPT !.receipts = Append(@, c)]}
  ELSE IF w.transfer.work = "startup" THEN {receive_recovery_command(w, c)}
  ELSE IF w.transfer.work # "idle" THEN receive_followup_command(w, c)
  ELSE {begin_transfer(w, c)}

-----------------------------------------------------------------------------
(* One update of a transfer.                                               *)

\* Mutant: back to serving, and no word of it.
finish_transfer_resume_silently(w) ==
  IF "ai_at_release" \in w.game.same THEN {w} ELSE {[w EXCEPT !.transfer.work = "idle", !.maintenance = FALSE]}

\* The original AI advanced after the release.
finish_transfer_resume(w) ==
  IF "ai_at_release" \in w.game.same THEN {w}
  ELSE {[transfer_receipt(w) EXCEPT !.transfer.work = "idle", !.maintenance = FALSE]}

finish_transfer_remeasure(w) ==
  IF w.transfer.finish_after_resume THEN {resume_after_transfer(w)}
  ELSE {[transfer_receipt(w) EXCEPT !.transfer.work = "held"]}

\* Refused, or exported and sealed under the same measurement.
export_transfer_source(w) ==
  {quarantine(w),
   [transfer_receipt(w) EXCEPT !.transfer.work = "held", !.game.same = @ \cup {"world_at_seal"}]}

\* The files must be those the durable command names.
load_transfer_approval(w) ==
  {quarantine(w)} \cup (IF w.transfer.command.op = "source_cleanup"
                        THEN retire_checkpoint_secondary(w) ELSE restore_transfer_player(w))

update_transfer(w) ==
  LET t == w.transfer IN
  CASE t.work = "resuming" -> finish_transfer_resume(w)
    [] t.work \in {"pausing", "remeasuring"} /\ ~Ready(w) ->
         {[w EXCEPT !.pause = Asked(@, w.game, native_network_transfer_context(w))]}
    [] t.work = "remeasuring" /\ Ready(w) -> finish_transfer_remeasure(w)
    [] t.work = "pausing" /\ Ready(w) -> IF t.command.op = "source_fence" THEN export_transfer_source(w)
                                                                         ELSE load_transfer_approval(w)
    [] OTHER -> {w}

-----------------------------------------------------------------------------
(* The engine's thread.                                                    *)

Becomes(outcomes) ==
  /\ worker' \in outcomes
  /\ toBridge' = IF worker'.failed \/ worker'.process = "ended" THEN <<>> ELSE toBridge
  /\ UNCHANGED <<asked, budget>>

Starts == Serving /\ worker.link = "starting" /\ Becomes({hold_scene_for_recovery(worker)})
receive_welcome == Serving /\ worker.link = "connecting" /\ Becomes({[worker EXCEPT !.link = "welcomed"]})

Receives ==
  /\ Serving /\ worker.link = "welcomed" /\ toBridge # <<>>
  /\ worker' \in receive_transfer(worker, Head(toBridge))
  /\ toBridge' = IF worker'.failed \/ worker'.process = "ended" THEN <<>> ELSE Tail(toBridge)
  /\ UNCHANGED <<asked, budget>>

Updates == Serving /\ worker.transfer.work # "idle" /\ Becomes(update_transfer(worker))

\* 120 s after the last command that moved it.
TimesOut == Serving /\ worker.transfer.work # "idle" /\ Becomes({quarantine(worker)})

Measures ==
  /\ Serving /\ worker.pause.owns
  /\ Becomes({[worker EXCEPT !.pause = p, !.game.same = IF opens_window(worker.pause, p)
                                                        THEN @ \cup {"world_at_window", "ai_at_window"} ELSE @]
                : p \in update_native_quiescence_probe(worker.pause, worker.game,
                                                       native_network_transfer_context(worker))})

Frame ==
  /\ Serving /\ (worker.pause.owns \/ worker.transfer.work # "idle")
  /\ Becomes({[worker EXCEPT !.pause = delta_hook(@, worker.game), !.game = g] : g \in Framed(worker.game)})

\* The scene is published again, with a baseline of its own, and players act.  To
\* a coordinator that still waits for a command's receipt, after the link it was on
\* is lost, the location is withheld: it refuses the baseline.
publish_scene ==
  /\ Serving /\ worker.transfer.work = "idle" /\ worker.link \in {"welcomed", "readmitted"} /\ ~worker.ready
  /\ Becomes({[worker EXCEPT !.ready = TRUE, !.inputs = TRUE, !.baseline = @ + 1,
                 !.link = IF @ = "readmitted" /\ ~asked.answered THEN "refused" ELSE "welcomed"]})

\* Mutant: the refusal is noted, and the scene goes on.
receive_reject_noted ==
  Serving /\ worker.link = "refused" /\ Becomes({[worker EXCEPT !.link = "welcomed"]})

receive_reject == Serving /\ worker.link = "refused" /\ Becomes({quarantine(worker)})

\* Under the same identity: what was still on the old link is gone.  It is not
\* admitted while the coordinator counts the old link, or in a maintenance that
\* the worker has ended.
retry_connection ==
  /\ Serving /\ worker.link = "retrying"
  /\ Becomes({quarantine(worker), [worker EXCEPT !.link = "readmitted", !.receipts = <<>>]})

-----------------------------------------------------------------------------
(* Faults.                                                                 *)

Faulty(w) ==
  /\ Serving /\ worker.transfer.work # "idle" /\ budget.faults > 0
  /\ worker' = w
  /\ toBridge' = IF w.failed THEN <<>> ELSE toBridge
  /\ budget' = [budget EXCEPT !.faults = @ - 1]
  /\ UNCHANGED asked

ForeignPause ==
  \E seen \in BOOLEAN :
    Faulty([worker EXCEPT !.pause = pause_hook(@, seen), !.game.count = @ + 1, !.game.foreign = @ + 1])

ForeignResume ==
  /\ worker.game.count > 0
  /\ \E seen \in BOOLEAN :
       Faulty([worker EXCEPT !.pause = resume_hook(@, worker.game, seen), !.game.count = @ - 1, !.game.foreign = @ - 1])

\* A paused game is changed all the same, by a menu or a load of assets.
ChangesPaused == Faulty(Changed(worker))

SceneEnds == worker.game.scene /\ Faulty([worker EXCEPT !.game.scene = FALSE])

\* An authority in a transfer cannot go on; one outside stops serving and retries.
connection_lost ==
  /\ worker.link \notin {"starting", "retrying", "lost"}
  /\ \/ Faulty(quarantine(worker))
     \/ /\ Serving /\ worker.transfer.work = "idle" /\ budget.faults > 0
        /\ worker' = [worker EXCEPT !.link = "retrying", !.ready = FALSE, !.inputs = FALSE]
        /\ toBridge' = <<>>
        /\ budget' = [budget EXCEPT !.faults = @ - 1]
        /\ UNCHANGED asked

-----------------------------------------------------------------------------
(* The coordinator.                                                        *)

Commands(c, used) ==
  /\ toBridge' = Append(toBridge, c)
  /\ asked' = [command |-> c, answered |-> FALSE]
  /\ budget' = [budget EXCEPT ![used] = @ - (IF used = "repeats" \/ c.id # asked.command.id THEN 1 ELSE 0)]
  /\ UNCHANGED worker

Reachable == Serving /\ worker.link = "welcomed"

\* A transfer starts at a source or a destination that serves, or with what
\* a recovery worker is started for.
BeginsAt(op, slot) ==
  IF worker.maintenance
  THEN op = "source_restore" \/ op = "destination_restore" \/ (op = "source_cleanup" /\ slot = 2)
  ELSE worker.ready /\ op \in {"source_fence", "destination_restore"}
       /\ (slot = 2 => worker.has_secondary = (op = "source_fence"))

request_native_transfer ==
  /\ Reachable /\ asked.answered /\ budget.transfers > 0
  /\ asked.command.id = 0 \/ worker.ready
  /\ \E op \in Op, slot \in {1, 2} :
       BeginsAt(op, slot) /\ Commands([id |-> asked.command.id + 1, op |-> op, slot |-> slot,
                                      baseline |-> worker.baseline], "transfers")

\* A restore that is not answered may be discarded all the same.
Continues(op) ==
  LET last == asked.command.op IN
  \/ asked.answered /\ last = "source_fence" /\ op = "source_restore"
  \/ asked.answered /\ last = "source_fence" /\ op = "source_cleanup" /\ asked.command.slot = 2
  \/ asked.answered /\ last = "source_restore" /\ op = "source_activate"
  \/ asked.answered /\ last = "destination_restore" /\ op = "destination_activate"
  \/ last = "destination_restore" /\ op = "destination_discard"

request_phase ==
  /\ Reachable /\ asked.command.id # 0
  /\ \E op \in Op : Continues(op) /\ Commands([asked.command EXCEPT !.op = op], "transfers")

Repeats ==
  /\ Reachable /\ ~asked.answered /\ budget.repeats > 0
  /\ Commands(asked.command, "repeats")

\* One that does not answer the last command is refused.
observe_native_receipt ==
  /\ worker.receipts # <<>>
  /\ worker' = [worker EXCEPT !.receipts = Tail(@)]
  /\ asked' = [asked EXCEPT !.answered = @ \/ Head(worker.receipts) = asked.command]
  /\ UNCHANGED <<toBridge, budget>>

-----------------------------------------------------------------------------
Next ==
  \/ Starts \/ receive_welcome \/ Receives \/ Updates \/ TimesOut \/ Measures \/ Frame \/ publish_scene
  \/ receive_reject \/ retry_connection
  \/ ForeignPause \/ ForeignResume \/ ChangesPaused \/ SceneEnds \/ connection_lost
  \/ request_native_transfer \/ request_phase \/ Repeats \/ observe_native_receipt

Spec == Init /\ [][Next]_vars

\* The application's updates go on, and its clock; the transport delivers, and
\* finds the coordinator again when it retries.
FairSpec ==
  /\ Spec
  /\ WF_vars(Receives) /\ WF_vars(TimesOut) /\ WF_vars(observe_native_receipt)
  /\ WF_vars(retry_connection) /\ WF_vars(publish_scene) /\ WF_vars(receive_reject)

-----------------------------------------------------------------------------

\* A receipt for a held state is sealed only while the pause is the bridge's
\* alone and neither the world nor the AI moved since it was measured; that
\* of a source which stayed, only if nothing moved since its export; any
\* other only after the pause was given back and the AI advanced
\* (native_network.cpp:1146, 1305, 1430).
Sealed ==
  /\ Len(worker'.receipts) > Len(worker.receipts)
  /\ ~worker.transfer.receipt_ready \/ worker'.transfer.command # worker.transfer.command

HeldStill == worker'.pause.owns /\ worker'.game.count = 1
             /\ {"world_at_window", "ai_at_window"} \subseteq worker'.game.same

SealsTheTruth ==
  CASE worker'.transfer.command.op \in {"source_fence", "destination_restore"} -> HeldStill
    [] worker'.transfer.command.op = "source_restore" ->
         HeldStill /\ (worker.transfer.command.op = "source_fence" => "world_at_seal" \in worker'.game.same)
    [] OTHER -> ~worker'.pause.owns /\ "ai_at_release" \notin worker'.game.same

ReceiptsTellTheState == [][Sealed => SealsTheTruth]_vars

\* What the coordinator was told of the second player is so in the game, and
\* the bridge knows it (native_network.cpp:1255, 1330, 1590).
OutcomeHolds ==
  Serving =>
    /\ worker.has_secondary = worker.second
    /\ asked.answered /\ asked.command.slot = 2 =>
         worker.second = (asked.command.op \notin {"destination_discard", "source_cleanup"})

\* Every command is answered, or its process fails or ends: no transfer is
\* held for ever, even if the link is lost with the receipt of an activation that
\* the bridge has finished (native_network.cpp:1434, 2618).
CommandsAnswered == ~asked.answered ~> asked.answered \/ ~Serving
=============================================================================
