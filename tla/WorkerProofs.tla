------------------------------ MODULE WorkerProofs ------------------------------
(***************************************************************************)
(* A worker of one location: its bridge in a transfer, and the supervisor  *)
(* that carries an operator's commands to its engine.                      *)
(*                                                                         *)
(* The bridge, for every number of transfers, of commands given again and  *)
(* of faults.  The inductive invariant says, for a process that still      *)
(* serves: what each stage of its work is about and what the game is left  *)
(* with by then (BridgeOK); and that the commands on their way, the        *)
(* bridge's and the receipts are a history that ends with the              *)
(* coordinator's last command (AllKnown to AnswersHold), so that an answer *)
(* is always one to what was asked last.  Every handler is shown to lead   *)
(* to an outcome (Outcome): it keeps BridgeOK or stops serving, and a      *)
(* receipt it seals is true when it is sealed.                             *)
(*                                                                         *)
(* The supervisor, for every number of tools, of scene epochs and of       *)
(* messages the pipe holds.  The inductive invariant (ControlInv) says     *)
(* that one command is in flight at a time, unread, or with its one reply  *)
(* among the messages to come, or lost (FlightOK); and that the connection *)
(* is its client's alone, and at one stage: asked, in flight, answered     *)
(* (RequestOK, AnswersOK, ClientOK).  A tick is taken stage by stage, each *)
(* wherever it may stop.                                                   *)
(***************************************************************************)
EXTENDS WorkerTransfer, WorkerControl, WellFoundedInduction, TLAPS

(* What a bridge's process is, and the coordinator's commands in proofs:   *)
(* their number is not bounded, and there may be none yet.                 *)
AnyCommand == [id : Nat, op : Op \cup {"none"}, slot : {0, 1, 2}, baseline : Nat]
Working == {"idle", "startup", "pausing", "remeasuring", "held", "resuming"}
Transfer == [work : Working, request : Nat, command : AnyCommand, receipt_ready : BOOLEAN,
             imported : BOOLEAN, finish_after_resume : BOOLEAN]
Phase == {"idle", "settling", "observing", "measured", "rejected", "released"}
Pause == [phase : Phase, request : Nat, owns : BOOLEAN, ambiguous : BOOLEAN,
          zero : BOOLEAN, nonzero : BOOLEAN]
Game == [count : Int, foreign : Int, scene : BOOLEAN, same : SUBSET Reference]
Worker == [process : {"running", "ended"}, failed : BOOLEAN, ready : BOOLEAN, inputs : BOOLEAN,
           link : {"starting", "connecting", "welcomed", "lost", "retrying", "readmitted", "refused"},
           maintenance : BOOLEAN, has_secondary : BOOLEAN, transfer : Transfer, pause : Pause, game : Game,
           second : BOOLEAN, used : BOOLEAN, baseline : Nat, receipts : Seq(AnyCommand)]

TypeOK ==
  /\ worker \in Worker /\ toBridge \in Seq(AnyCommand)
  /\ asked \in [command : AnyCommand, answered : BOOLEAN]

Serves(w) == w.process = "running" /\ ~w.failed

Removing == {"destination_discard", "source_cleanup"}
Restoring == {"destination_restore", "source_restore"}
Final == {"source_activate", "destination_activate"} \cup Removing

\* The bridge knows of a second player exactly when the game has one.
SecondKnown(w) == w.has_secondary = w.second

\* A receipt for the second player tells what the game is left with.
ReceiptHolds(w) ==
  w.transfer.receipt_ready /\ w.transfer.command.slot = 2
    => (w.second <=> w.transfer.command.op \notin Removing)

\* What each stage of the work can be about, and what it has reached.
PausingHolds(w) ==
  w.transfer.work = "pausing" =>
    /\ w.transfer.command.op \in Restoring \cup {"source_fence", "source_cleanup"}
    /\ ~w.transfer.receipt_ready
    /\ ~w.transfer.finish_after_resume
    /\ w.transfer.command.slot = 2 /\ w.transfer.command.op = "source_fence" => w.second

RemeasuringHolds(w) ==
  w.transfer.work = "remeasuring" =>
    /\ w.transfer.command.op \in Restoring \cup Removing
    /\ (w.transfer.finish_after_resume <=> w.transfer.command.op \in Removing)
    /\ w.transfer.command.slot = 2 => (w.second <=> w.transfer.command.op \notin Removing)

HeldHolds(w) ==
  w.transfer.work = "held" =>
    /\ w.transfer.receipt_ready
    /\ ~w.transfer.finish_after_resume
    /\ w.transfer.command.op \in Restoring \cup {"source_fence"}

ResumingHolds(w) ==
  w.transfer.work = "resuming" =>
    /\ ~w.pause.owns
    /\ w.transfer.command.op \in Final
    /\ w.transfer.command.slot = 2 => (w.second <=> w.transfer.command.op \notin Removing)

StartupHolds(w) ==
  w.transfer.work = "startup" => ~w.transfer.receipt_ready /\ ~w.transfer.finish_after_resume

\* A recovery worker that has not started has been asked nothing.
StartingHolds(w) ==
  w.link = "starting" => w.transfer.command = NoCommand /\ ~w.transfer.receipt_ready

\* A sealed source is measured for good: what the window has seen move has
\* moved since the export as well.
SealHolds(w) ==
  w.transfer.work = "held" /\ w.transfer.command.op = "source_fence" =>
    /\ w.pause.phase \in {"measured", "rejected"}
    /\ "world_at_window" \in w.game.same => "world_at_seal" \in w.game.same

BridgeOK(w) ==
  /\ SecondKnown(w) /\ ReceiptHolds(w) /\ PausingHolds(w) /\ RemeasuringHolds(w)
  /\ HeldHolds(w) /\ ResumingHolds(w) /\ StartupHolds(w) /\ StartingHolds(w)
  /\ SealHolds(w)

(* The commands: a later one of the same transfer has a higher rank.       *)
Rank(op) ==
  CASE op = "none" -> 0
    [] op \in {"source_fence", "destination_restore"} -> 1
    [] op = "source_restore" -> 2
    [] OTHER -> 3

\* c was given before the coordinator's last command, or is that very one.
Known(c, last) ==
  \/ c.id < last.id
  \/ c.id = last.id /\ (c = last \/ Rank(c.op) < Rank(last.op))

AllKnown ==
  /\ Known(worker.transfer.command, asked.command)
  /\ \A i \in 1..Len(toBridge) : Known(toBridge[i], asked.command)
  /\ \A i \in 1..Len(worker.receipts) : Known(worker.receipts[i], asked.command)

\* Commands on their way are the coordinator's, of one player per transfer.
InFlight ==
  /\ \A i \in 1..Len(toBridge) : toBridge[i].op \in Op /\ toBridge[i].slot \in {1, 2} /\ toBridge[i].id # 0
  /\ \A i \in 1..Len(toBridge), j \in 1..Len(toBridge) :
       toBridge[i].id = toBridge[j].id => toBridge[i].slot = toBridge[j].slot
  /\ \A i \in 1..Len(toBridge) :
       /\ toBridge[i].id = worker.transfer.command.id => toBridge[i].slot = worker.transfer.command.slot
       /\ toBridge[i].id = asked.command.id => toBridge[i].slot = asked.command.slot
  /\ worker.transfer.command.id = asked.command.id => worker.transfer.command.slot = asked.command.slot

\* After the last command only that one is given again.
Order ==
  \A i \in 1..Len(toBridge), j \in 1..Len(toBridge) :
    i < j /\ toBridge[i] = asked.command => toBridge[j] = asked.command

\* The last command has been taken, and nothing else is on its way.
Taken ==
  /\ worker.transfer.command = asked.command
  /\ \A i \in 1..Len(toBridge) : toBridge[i] = asked.command

AnswersHold ==
  /\ worker.transfer.command = asked.command => Taken
  /\ asked.answered => Taken /\ (asked.command.id # 0 => worker.transfer.receipt_ready)
  /\ \A i \in 1..Len(worker.receipts) :
       worker.receipts[i] = asked.command => Taken /\ worker.transfer.receipt_ready

AskedOK ==
  \/ asked.command = NoCommand /\ asked.answered
  \/ asked.command.id # 0 /\ asked.command.op \in Op /\ asked.command.slot \in {1, 2}

IInv == Serving => BridgeOK(worker) /\ AllKnown /\ InFlight /\ Order /\ AnswersHold /\ AskedOK

-----------------------------------------------------------------------------
(* Handlers.                                                               *)

\* A receipt that w does not have yet tells the state r in which it is sealed.
TruthTold(w, r) ==
  Len(r.receipts) > Len(w.receipts) /\ (~w.transfer.receipt_ready \/ r.transfer.command # w.transfer.command) =>
    LET still == r.pause.owns /\ r.game.count = 1 /\ {"world_at_window", "ai_at_window"} \subseteq r.game.same IN
    CASE r.transfer.command.op \in {"source_fence", "destination_restore"} -> still
      [] r.transfer.command.op = "source_restore" ->
           still /\ (w.transfer.command.op = "source_fence" => "world_at_seal" \in r.game.same)
      [] OTHER -> ~r.pause.owns /\ "ai_at_release" \notin r.game.same

\* r serves no more, and says nothing.
Lost(w, r) == r \in Worker /\ ~Serves(r) /\ r.receipts = w.receipts

\* r goes on under command c, with or without a receipt for it.
GoesOn(w, r, c) ==
  /\ r \in Worker /\ Serves(r) /\ BridgeOK(r) /\ r.transfer.command = c
  /\ w.transfer.receipt_ready /\ w.transfer.command = c => r.transfer.receipt_ready
  /\ r.receipts = w.receipts \/ (r.receipts = Append(w.receipts, c) /\ r.transfer.receipt_ready)
  /\ TruthTold(w, r)

Outcome(w, r, c) == Lost(w, r) \/ GoesOn(w, r, c)

LEMMA Stops ==
  ASSUME NEW w \in Worker
  PROVE  /\ Lost(w, quarantine(w)) /\ Lost(w, Terminate(w)) /\ Lost(w, QuarantineUnready(w))
<1>1. Lost(w, quarantine(w))  BY DEF Lost, quarantine, Serves, Worker
<1>2. Lost(w, Terminate(w))  BY DEF Lost, Terminate, Serves, Worker
<1>3. Lost(w, QuarantineUnready(w))
  <2> DEFINE p == Asked(w.pause, w.game, native_network_transfer_context(w))
             v == [w EXCEPT !.pause = p]
  <2>1. p \in Pause  BY DEF Asked, reject, Pause, Worker, Phase
  <2> HIDE DEF p
  <2>2. v \in Worker /\ v.receipts = w.receipts  BY <2>1 DEF Worker
  <2> HIDE DEF v
  <2>3. Lost(v, quarantine(v))  BY <2>2 DEF Lost, quarantine, Serves, Worker
  <2>4. QuarantineUnready(w) = quarantine(v)  BY DEF QuarantineUnready, v, p
  <2> QED  BY <2>2, <2>3, <2>4 DEF Lost
<1> QED  BY <1>1, <1>2, <1>3

\* What the bridge's invariant reads of a process.
Same(w, r) ==
  /\ r.has_secondary = w.has_secondary /\ r.second = w.second
  /\ r.transfer = w.transfer /\ r.receipts = w.receipts
  /\ r.link = "starting" => w.link = "starting"

\* A handler that leaves the transfer alone and does not reopen the window.
LEMMA PauseMoves ==
  ASSUME NEW w \in Worker, BridgeOK(w), Serves(w), NEW r \in Worker, Serves(r), Same(w, r),
         ~w.pause.owns => ~r.pause.owns,
         w.pause.phase \in {"measured", "rejected"} =>
           /\ r.pause.phase \in {"measured", "rejected"}
           /\ "world_at_window" \in r.game.same => "world_at_window" \in w.game.same
           /\ "world_at_seal" \in w.game.same => ("world_at_seal" \in r.game.same \/ "world_at_window" \notin r.game.same)
  PROVE  GoesOn(w, r, w.transfer.command)
<1>1. BridgeOK(r)
  BY DEF BridgeOK, Same, SecondKnown, ReceiptHolds, PausingHolds, RemeasuringHolds, HeldHolds,
         ResumingHolds, StartupHolds, StartingHolds, SealHolds
<1>2. TruthTold(w, r)  BY DEF TruthTold, Same, Worker
<1> QED  BY <1>1, <1>2 DEF GoesOn, Same

\* r goes on with what v was about, with no word of it.
Keeps(v, r) ==
  /\ r \in Worker /\ Serves(r) /\ BridgeOK(r)
  /\ r.transfer.command = v.transfer.command /\ r.transfer.receipt_ready = v.transfer.receipt_ready
  /\ r.receipts = v.receipts

LEMMA KeepsGoesOn ==
  ASSUME NEW w, NEW v, v.receipts = w.receipts,
         w.transfer.receipt_ready /\ w.transfer.command = v.transfer.command => v.transfer.receipt_ready,
         w.receipts \in Seq(AnyCommand),
         NEW r, Lost(v, r) \/ Keeps(v, r)
  PROVE  Outcome(w, r, v.transfer.command)
  BY DEF Outcome, Lost, Keeps, GoesOn, TruthTold

\* Taking the pause.
LEMMA Acquires ==
  ASSUME NEW v \in Worker, Serves(v), BridgeOK(v), v.transfer.work \in {"pausing", "startup"},
         NEW r, r = request_native_transfer_quiescence(v)
  PROVE  Lost(v, r) \/ (Keeps(v, r) /\ r.transfer = v.transfer)
<1>1. CASE ~may_acquire(v.pause, v.game, v.transfer.request, native_network_transfer_context(v))
  BY <1>1, Stops DEF request_native_transfer_quiescence
<1>2. CASE may_acquire(v.pause, v.game, v.transfer.request, native_network_transfer_context(v))
  <2> DEFINE p == acquire_pause(v.pause, v.transfer.request)
             g == Paused(v.pause, v.game)
  <2>0. v.pause \in Pause /\ v.game \in Game /\ v.transfer.request \in Nat  BY DEF Worker, Transfer
  <2>1. p \in Pause /\ g \in Game
    <3>1. g \in Game  BY <2>0 DEF Paused, Game
    <3>2. p \in Pause  BY <2>0 DEF acquire_pause, restart_settling, NoPause, Pause, Phase
    <3> QED  BY <3>1, <3>2
  <2>2. r = [v EXCEPT !.pause = p, !.game = g, !.inputs = FALSE]
    BY <1>2 DEF request_native_transfer_quiescence
  <2> HIDE DEF p, g
  <2>3. r \in Worker /\ Serves(r) /\ r.transfer = v.transfer /\ r.receipts = v.receipts
        /\ r.second = v.second /\ r.has_secondary = v.has_secondary /\ r.link = v.link
    BY <2>1, <2>2 DEF Worker, Serves
  <2>4. BridgeOK(r)
    BY <2>3 DEF BridgeOK, SecondKnown, ReceiptHolds, PausingHolds, RemeasuringHolds, HeldHolds,
                ResumingHolds, StartupHolds, StartingHolds, SealHolds
  <2> QED  BY <2>3, <2>4 DEF Keeps
<1> QED  BY <1>1, <1>2

\* Giving the pause back, for a command that ends the transfer here.
LEMMA Resumes ==
  ASSUME NEW v \in Worker, Serves(v), SecondKnown(v), ReceiptHolds(v), StartingHolds(v),
         v.transfer.command.op \in Final,
         v.transfer.command.slot = 2 => (v.second <=> v.transfer.command.op \notin Removing),
         NEW r, r = resume_after_transfer(v)
  PROVE  Lost(v, r) \/ Keeps(v, r)
<1> DEFINE q == request_native_quiescence_resume(v.pause, v.game)
           may == may_resume(v.pause, v.game, v.transfer.request, native_network_transfer_context(v))
<1>0. q \in Pause /\ ~q.owns
  BY DEF request_native_quiescence_resume, reject, Worker, Pause, Phase
<1> HIDE DEF q
<1>1. CASE ~may
  BY <1>1, Stops DEF resume_after_transfer
<1>2. CASE may /\ v.game.count < 1
  <2> DEFINE u == [v EXCEPT !.pause = q]
  <2>1. u \in Worker /\ u.receipts = v.receipts  BY <1>0 DEF Worker
  <2>2. r = quarantine(u)  BY <1>2 DEF resume_after_transfer, u, q
  <2> HIDE DEF u
  <2> QED  BY <2>1, <2>2, Stops DEF Lost
<1>3. CASE may /\ ~(v.game.count < 1)
  <2> DEFINE g == [Resumed(v.game) EXCEPT !.same = @ \cup {"ai_at_release"}]
             t == [v.transfer EXCEPT !.work = "resuming"]
             x == [v EXCEPT !.pause = q, !.game = g, !.transfer = t]
  <2>1. g \in Game /\ t \in Transfer
    <3>0. v.game \in Game  BY DEF Worker
    <3>1. Resumed(v.game) \in Game  BY <3>0 DEF Resumed, Game
    <3>2. g \in Game  BY <3>1 DEF Game, Reference
    <3>3. t \in Transfer  BY DEF Worker, Transfer, Working
    <3> QED  BY <3>2, <3>3
  <2>2. r = x
    <3>1. r = [v EXCEPT !.pause = q, !.game = Resumed(@),
                        !.game.same = @ \cup {"ai_at_release"}, !.transfer.work = "resuming"]
      BY <1>3 DEF resume_after_transfer, q
    <3> QED  BY <3>1 DEF Worker, Transfer, Game, Resumed
  <2>3. /\ t.command = v.transfer.command /\ t.receipt_ready = v.transfer.receipt_ready
        /\ t.work = "resuming"
    BY DEF Worker, Transfer
  <2> HIDE DEF g, t
  <2>4. /\ x \in Worker /\ Serves(x) /\ x.transfer = t /\ x.receipts = v.receipts /\ x.pause = q
        /\ x.second = v.second /\ x.has_secondary = v.has_secondary /\ x.link = v.link
    BY <1>0, <2>1 DEF Worker, Serves
  <2> HIDE DEF x
  <2>5. BridgeOK(x)
    BY <1>0, <2>3, <2>4 DEF BridgeOK, SecondKnown, ReceiptHolds, PausingHolds, RemeasuringHolds, HeldHolds,
                ResumingHolds, StartupHolds, StartingHolds, SealHolds
  <2> QED  BY <2>2, <2>3, <2>4, <2>5 DEF Keeps
<1> QED  BY <1>1, <1>2, <1>3

\* Asking for a new measurement.
LEMMA Reobserves ==
  ASSUME NEW v \in Worker, Serves(v), NEW r, r = Reobserve(v)
  PROVE  \/ Lost(v, r)
         \/ /\ r \in Worker /\ Serves(r) /\ r.receipts = v.receipts /\ r.link = v.link
            /\ r.second = v.second /\ r.has_secondary = v.has_secondary
            /\ r.transfer = [v.transfer EXCEPT !.work = "remeasuring"]
<1> DEFINE p == restart_settling(v.pause)
           t == [v.transfer EXCEPT !.work = "remeasuring"]
           x == [v EXCEPT !.pause = p, !.transfer = t]
<1>1. CASE ~may_reobserve(v.pause, v.game, native_network_transfer_context(v))
  BY <1>1, Stops DEF Reobserve
<1>2. CASE may_reobserve(v.pause, v.game, native_network_transfer_context(v))
  <2>1. p \in Pause /\ t \in Transfer  BY DEF restart_settling, Worker, Pause, Phase, Transfer, Working
  <2>2. r = x
    <3>1. r = [v EXCEPT !.pause = restart_settling(@), !.transfer.work = "remeasuring"]
      BY <1>2 DEF Reobserve
    <3> QED  BY <3>1 DEF Worker, Transfer
  <2> HIDE DEF p
  <2>3. /\ x \in Worker /\ Serves(x) /\ x.receipts = v.receipts /\ x.link = v.link
        /\ x.second = v.second /\ x.has_secondary = v.has_secondary /\ x.transfer = t
    BY <2>1 DEF Worker, Serves
  <2> QED  BY <2>2, <2>3
<1> QED  BY <1>1, <1>2

\* Removing the second player.
LEMMA Retires ==
  ASSUME NEW v \in Worker, Serves(v), StartingHolds(v),
         v.transfer.command.op \in Removing, ~v.transfer.receipt_ready,
         NEW r \in retire_selected_secondary(v)
  PROVE  Lost(v, r) \/ Keeps(v, r)
<1> DEFINE n == native_actor_retire_transfer_secondary(v)
           o == Reobserve(n)
           x == [o EXCEPT !.has_secondary = FALSE, !.transfer.imported = FALSE,
                          !.transfer.finish_after_resume = TRUE]
<1>1. /\ n \in Worker /\ Serves(n) /\ n.receipts = v.receipts /\ n.link = v.link
      /\ n.second = FALSE /\ n.transfer = v.transfer
  BY DEF native_actor_retire_transfer_secondary, Changed, WorldReference, Worker, Game, Serves
<1>2. r \in {quarantine(v), Terminate(v), QuarantineUnready(v)} \/ r = (IF o.failed THEN o ELSE x)
  BY DEF retire_selected_secondary
<1>3. Lost(n, o) \/ (/\ o \in Worker /\ Serves(o) /\ o.receipts = n.receipts /\ o.link = n.link
                     /\ o.second = n.second
                     /\ o.transfer = [n.transfer EXCEPT !.work = "remeasuring"])
  BY <1>1, Reobserves
<1> HIDE DEF n, o
<1>4. CASE r \in {quarantine(v), Terminate(v), QuarantineUnready(v)}
  BY <1>4, Stops
<1>5. CASE Lost(n, o) /\ r = (IF o.failed THEN o ELSE x)
  <2>1. CASE o.failed  BY <1>1, <1>5, <2>1 DEF Lost
  <2>2. CASE ~o.failed
    <3>1. x \in Worker /\ ~Serves(x) /\ x.receipts = o.receipts
      BY <1>5, <2>2 DEF Lost, Serves, Worker, Transfer
    <3> QED  BY <3>1, <2>2, <1>1, <1>5 DEF Lost
  <2> QED  BY <2>1, <2>2
<1>6. CASE ~Lost(n, o) /\ r = (IF o.failed THEN o ELSE x)
  <2> DEFINE t == [v.transfer EXCEPT !.work = "remeasuring", !.imported = FALSE, !.finish_after_resume = TRUE]
  <2>1. /\ t \in Transfer /\ t.work = "remeasuring" /\ t.command = v.transfer.command
        /\ t.receipt_ready = v.transfer.receipt_ready /\ t.finish_after_resume = TRUE
    BY DEF Worker, Transfer, Working
  <2>2. /\ x \in Worker /\ Serves(x) /\ x.receipts = v.receipts /\ x.link = v.link
        /\ x.second = FALSE /\ x.has_secondary = FALSE /\ x.transfer = t
    <3> DEFINE y == [o EXCEPT !.has_secondary = FALSE, !.transfer = t]
    <3>1. o.transfer = [v.transfer EXCEPT !.work = "remeasuring"] /\ v.transfer \in Transfer
      BY <1>1, <1>3, <1>6 DEF Worker
    <3>2. [o.transfer EXCEPT !.imported = FALSE, !.finish_after_resume = TRUE] = t
      BY <3>1 DEF Transfer
    <3>3. x = y  BY <3>2, <1>3, <1>6 DEF Worker, Transfer
    <3> HIDE DEF x, t
    <3>4. /\ y \in Worker /\ Serves(y) /\ y.receipts = v.receipts /\ y.link = v.link
          /\ y.second = FALSE /\ y.has_secondary = FALSE /\ y.transfer = t
      BY <1>1, <1>3, <1>6, <2>1 DEF Worker, Serves
    <3> QED  BY <3>3, <3>4
  <2>3. r = x  BY <1>3, <1>6 DEF Serves
  <2> HIDE DEF x, t
  <2>4. BridgeOK(x)
    BY <2>1, <2>2 DEF BridgeOK, SecondKnown, ReceiptHolds, PausingHolds, RemeasuringHolds, HeldHolds,
                ResumingHolds, StartupHolds, StartingHolds, SealHolds
  <2> QED  BY <2>1, <2>2, <2>3, <2>4 DEF Keeps
<1> QED  BY <1>2, <1>4, <1>5, <1>6

\* Restoring the player a command names.
LEMMA Restores ==
  ASSUME NEW v \in Worker, Serves(v), SecondKnown(v), StartingHolds(v),
         v.transfer.command.op \in Restoring, ~v.transfer.receipt_ready, ~v.transfer.finish_after_resume,
         NEW r \in restore_transfer_player(v)
  PROVE  Lost(v, r) \/ Keeps(v, r)
<1> DEFINE slot == v.transfer.command.slot
           m == import_player_transfer_impl(v, slot)
           n == IF slot = 2 THEN [m EXCEPT !.has_secondary = TRUE, !.transfer.imported = TRUE] ELSE m
           o == Reobserve(n)
<1>1. /\ m \in Worker /\ Serves(m) /\ m.receipts = v.receipts /\ m.link = v.link
      /\ m.second = (slot = 2) /\ m.transfer = v.transfer /\ m.has_secondary = v.has_secondary
  BY DEF import_player_transfer_impl, Changed, WorldReference, Worker, Game, Serves
<1>2. \/ r \in {quarantine(v), Terminate(v), QuarantineUnready(v)}
      \/ r = o /\ may_import(v, slot)
  BY DEF restore_transfer_player
<1> HIDE DEF m
<1>3. CASE r \in {quarantine(v), Terminate(v), QuarantineUnready(v)}
  BY <1>3, Stops
<1>4. CASE r = o /\ may_import(v, slot)
  <2>1. /\ n \in Worker /\ Serves(n) /\ n.receipts = v.receipts /\ n.link = v.link
        /\ n.second = (slot = 2) /\ n.has_secondary = n.second
        /\ n.transfer \in Transfer /\ n.transfer.command = v.transfer.command
        /\ ~n.transfer.receipt_ready /\ ~n.transfer.finish_after_resume
    <3>1. CASE slot = 2
      BY <1>1, <3>1 DEF Worker, Transfer, Serves
    <3>2. CASE slot # 2
      BY <1>1, <1>4, <3>2 DEF Worker, Serves, may_import, SecondKnown
    <3> QED  BY <3>1, <3>2
  <2> HIDE DEF n
  <2> DEFINE t == [n.transfer EXCEPT !.work = "remeasuring"]
  <2>2. /\ t.work = "remeasuring" /\ t.command = v.transfer.command
        /\ ~t.receipt_ready /\ t.finish_after_resume = FALSE /\ t.receipt_ready = v.transfer.receipt_ready
    BY <2>1 DEF Transfer, Worker
  <2>3. Lost(n, o) \/ (/\ o \in Worker /\ Serves(o) /\ o.receipts = n.receipts /\ o.link = n.link
                       /\ o.second = n.second /\ o.has_secondary = n.has_secondary
                       /\ o.transfer = t)
    BY <2>1, Reobserves
  <2> HIDE DEF o, t
  <2>4. CASE Lost(n, o)  BY <1>4, <2>1, <2>4 DEF Lost
  <2>5. CASE ~Lost(n, o)
    <3>1. BridgeOK(o)
      <4>1. SecondKnown(o) /\ ReceiptHolds(o) /\ PausingHolds(o) /\ HeldHolds(o) /\ ResumingHolds(o)
            /\ StartupHolds(o) /\ StartingHolds(o) /\ SealHolds(o)
        BY <2>1, <2>2, <2>3, <2>5 DEF SecondKnown, ReceiptHolds, PausingHolds, HeldHolds,
                  ResumingHolds, StartupHolds, StartingHolds, SealHolds
      <4>2. RemeasuringHolds(o)
        <5>1. v.transfer.command.op \notin Removing  BY DEF Restoring, Removing
        <5>2. o.transfer.command.slot = 2 => o.second = TRUE
          BY <2>1, <2>2, <2>3, <2>5
        <5>3. /\ o.transfer.command.op \in Restoring /\ o.transfer.command.op \notin Removing
              /\ o.transfer.finish_after_resume = FALSE
          BY <5>1, <2>2, <2>3, <2>5
        <5>4. o.transfer.command.slot = 2 => o.second = TRUE
          BY <5>2, <2>2, <2>3, <2>5
        <5> QED  BY <5>3, <5>4 DEF RemeasuringHolds
      <4> QED  BY <4>1, <4>2 DEF BridgeOK
    <3> QED  BY <1>4, <2>1, <2>2, <2>3, <2>5, <3>1 DEF Keeps
  <2> QED  BY <2>4, <2>5
<1> QED  BY <1>2, <1>3, <1>4

LEMMA Seals ==
  ASSUME NEW v \in Worker, NEW r, r = transfer_receipt(v)
  PROVE  /\ r \in Worker /\ r.receipts = Append(v.receipts, v.transfer.command)
         /\ r.transfer = [v.transfer EXCEPT !.receipt_ready = TRUE]
         /\ r.pause = v.pause /\ r.game = v.game /\ r.link = v.link
         /\ r.second = v.second /\ r.has_secondary = v.has_secondary
         /\ (Serves(r) <=> Serves(v))
<1> DEFINE t == [v.transfer EXCEPT !.receipt_ready = TRUE]
           s == Append(v.receipts, v.transfer.command)
           x == [v EXCEPT !.transfer = t, !.receipts = s]
<1>0. v.transfer \in Transfer /\ v.receipts \in Seq(AnyCommand) /\ v.transfer.command \in AnyCommand
  BY DEF Worker, Transfer
<1>1. t \in Transfer /\ s \in Seq(AnyCommand)
  <2>1. t \in Transfer  BY <1>0 DEF Transfer
  <2>2. s \in Seq(AnyCommand)  BY <1>0
  <2> QED  BY <2>1, <2>2
<1>2. r = x  BY DEF transfer_receipt, Worker, Transfer
<1> HIDE DEF t, s
<1>3. /\ x \in Worker /\ x.receipts = s /\ x.transfer = t
      /\ x.pause = v.pause /\ x.game = v.game /\ x.link = v.link
      /\ x.second = v.second /\ x.has_secondary = v.has_secondary /\ (Serves(x) <=> Serves(v))
  BY <1>1 DEF Worker, Serves
<1> QED  BY <1>2, <1>3 DEF t, s

-----------------------------------------------------------------------------
(* A command received.                                                     *)

Given(c) == c \in AnyCommand /\ c.op \in Op /\ c.slot \in {1, 2}

LEMMA Begins ==
  ASSUME NEW w \in Worker, Serves(w), BridgeOK(w), w.transfer.work = "idle", w.link = "welcomed",
         NEW c, Given(c), c # w.transfer.command \/ ~w.transfer.receipt_ready,
         NEW r, r = begin_transfer(w, c)
  PROVE  Outcome(w, r, c)
<1> DEFINE t == [NoTransfer EXCEPT !.work = "pausing", !.request = c.id, !.command = c]
           v == [w EXCEPT !.transfer = t, !.ready = FALSE]
           refused == \/ ~w.ready \/ c.op \notin {"source_fence", "destination_restore", "source_restore"}
                      \/ c.slot = 2 /\ w.has_secondary # (c.op = "source_fence")
<1>1. CASE refused
  <2>1. r = quarantine(w)  BY <1>1 DEF begin_transfer
  <2> QED  BY <2>1, Stops DEF Outcome
<1>2. CASE ~refused
  <2>1. /\ t \in Transfer /\ t.command = c /\ t.work = "pausing"
        /\ t.receipt_ready = FALSE /\ t.finish_after_resume = FALSE
    BY DEF NoTransfer, NoCommand, Transfer, Given, AnyCommand, Working
  <2>2. r = request_native_transfer_quiescence(v)  BY <1>2 DEF begin_transfer
  <2>3. c.op \in Restoring \cup {"source_fence", "source_cleanup"}
        /\ (c.slot = 2 /\ c.op = "source_fence" => w.second)
    BY <1>2 DEF Restoring, BridgeOK, SecondKnown, Worker
  <2> HIDE DEF t
  <2>4. /\ v \in Worker /\ Serves(v) /\ v.transfer = t /\ v.receipts = w.receipts
        /\ v.second = w.second /\ v.has_secondary = w.has_secondary /\ v.link = w.link
    BY <2>1 DEF Worker, Serves
  <2> HIDE DEF v
  <2>5. BridgeOK(v)
    BY <2>1, <2>3, <2>4 DEF BridgeOK, SecondKnown, ReceiptHolds, PausingHolds, RemeasuringHolds, HeldHolds,
                ResumingHolds, StartupHolds, StartingHolds, SealHolds
  <2>6. Lost(v, r) \/ Keeps(v, r)  BY <2>1, <2>2, <2>4, <2>5, Acquires
  <2>7. w.receipts \in Seq(AnyCommand)  BY DEF Worker
  <2>8. Outcome(w, r, v.transfer.command)  BY <2>1, <2>4, <2>6, <2>7, KeepsGoesOn
  <2> QED  BY <2>1, <2>4, <2>8
<1> QED  BY <1>1, <1>2

LEMMA Recovers ==
  ASSUME NEW w \in Worker, Serves(w), BridgeOK(w), w.transfer.work = "startup", w.link = "welcomed",
         NEW c, Given(c), NEW r, r = receive_recovery_command(w, c)
  PROVE  Outcome(w, r, c)
<1> DEFINE t == [w.transfer EXCEPT !.command = c, !.work = "pausing"]
           v == [w EXCEPT !.transfer = t]
<1>0. w.transfer \in Transfer /\ w.receipts \in Seq(AnyCommand)  BY DEF Worker
<1>1. r = quarantine(w) \/ (r = v /\ c.op \in Restoring \cup {"source_cleanup"})
  BY <1>0 DEF receive_recovery_command, Restoring, Worker
<1>2. CASE r = quarantine(w)  BY <1>2, Stops DEF Outcome
<1>3. CASE r = v /\ c.op \in Restoring \cup {"source_cleanup"}
  <2>1. ~w.transfer.receipt_ready /\ ~w.transfer.finish_after_resume
    BY DEF BridgeOK, StartupHolds
  <2>2. /\ t \in Transfer /\ t.command = c /\ t.work = "pausing"
        /\ ~t.receipt_ready /\ ~t.finish_after_resume
    BY <1>0, <2>1 DEF Transfer, Given, Working
  <2> HIDE DEF t
  <2>3. /\ v \in Worker /\ Serves(v) /\ v.transfer = t /\ v.receipts = w.receipts
        /\ v.second = w.second /\ v.has_secondary = w.has_secondary /\ v.link = w.link
    BY <2>2 DEF Worker, Serves
  <2> HIDE DEF v
  <2>4. c.op # "source_fence"  BY <1>3 DEF Restoring
  <2>5. BridgeOK(v)
    BY <1>3, <2>2, <2>3, <2>4 DEF BridgeOK, SecondKnown, ReceiptHolds, PausingHolds, RemeasuringHolds, HeldHolds,
                ResumingHolds, StartupHolds, StartingHolds, SealHolds
  <2> QED  BY <1>0, <1>3, <2>1, <2>2, <2>3, <2>5, KeepsGoesOn DEF Keeps
<1> QED  BY <1>1, <1>2, <1>3

\* What a held step asks for, and after which command.
LEMMA HeldSteps ==
  ASSUME NEW c, NEW p, Given(c)
  PROVE  /\ held_step(c, p) \in {"activate", "discard", "cleanup", "retain_source", "unsupported"}
         /\ held_step(c, p) = "activate" => c.op \in Final /\ c.op \notin Removing
         /\ held_step(c, p) \in {"discard", "cleanup"} => c.op \in Removing
         /\ held_step(c, p) = "retain_source" => c.op = "source_restore" /\ p.op = "source_fence"
  BY DEF held_step, Final, Removing

\* The source that stayed under its pause is what was exported.
LEMMA Retains ==
  ASSUME NEW w \in Worker, Serves(w), BridgeOK(w), w.transfer.work = "held", w.link = "welcomed",
         NEW c, Given(c), c # w.transfer.command,
         w.transfer.command.slot = c.slot,
         c.op = "source_restore", w.transfer.command.op = "source_fence",
         NEW next \in Worker, Serves(next), next.transfer \in Transfer,
         next.transfer.work = "held", next.transfer.command = c, ~next.transfer.receipt_ready,
         ~next.transfer.finish_after_resume,
         next.receipts = w.receipts, next.pause = w.pause, next.game = w.game, next.link = w.link,
         next.second = w.second, next.has_secondary = w.has_secondary,
         NEW r, r = revalidate_retained_source(next)
  PROVE  Outcome(w, r, c)
<1>0. w.receipts \in Seq(AnyCommand) /\ w.game.same \in SUBSET Reference  BY DEF Worker, Game
<1>1. CASE ~Ready(next)
  <2>1. r = QuarantineUnready(next)  BY <1>1 DEF revalidate_retained_source
  <2>2. Lost(next, r)  BY <2>1, Stops
  <2> QED  BY <2>2 DEF Lost, Outcome
<1>2. CASE Ready(next)
  <2>1. r = transfer_receipt(next)  BY <1>2 DEF revalidate_retained_source
  <2>2. /\ r \in Worker /\ r.receipts = Append(w.receipts, c)
        /\ r.transfer = [next.transfer EXCEPT !.receipt_ready = TRUE]
        /\ r.pause = w.pause /\ r.game = w.game /\ r.link = w.link
        /\ r.second = w.second /\ r.has_secondary = w.has_secondary /\ Serves(r)
    BY <2>1, Seals
  <2>3. /\ r.transfer.work = "held" /\ r.transfer.command = c /\ r.transfer.receipt_ready
        /\ ~r.transfer.finish_after_resume
    BY <2>2 DEF Transfer
  <2>4. /\ w.pause.owns /\ w.pause.phase = "measured" /\ w.game.count = 1
        /\ {"world_at_window", "ai_at_window"} \subseteq w.game.same
    BY <1>2 DEF Ready, native_quiescence_probe_ready, claims_ready
  <2>5. "world_at_seal" \in w.game.same /\ (c.slot = 2 => w.second) /\ w.has_secondary = w.second
    <3>1. w.transfer.receipt_ready /\ w.transfer.command.op \notin Removing
      BY DEF BridgeOK, HeldHolds, Removing
    <3> QED  BY <2>4, <3>1 DEF BridgeOK, SealHolds, ReceiptHolds, SecondKnown
  <2>6. BridgeOK(r)
    BY <2>2, <2>3, <2>4, <2>5 DEF BridgeOK, SecondKnown, ReceiptHolds, PausingHolds, RemeasuringHolds, HeldHolds,
                ResumingHolds, StartupHolds, StartingHolds, SealHolds, Removing, Restoring
  <2>7. TruthTold(w, r)  BY <2>2, <2>3, <2>4, <2>5 DEF TruthTold
  <2> QED  BY <2>2, <2>3, <2>6, <2>7 DEF Outcome, GoesOn
<1> QED  BY <1>1, <1>2

LEMMA FollowsUp ==
  ASSUME NEW w \in Worker, Serves(w), BridgeOK(w), w.link = "welcomed",
         NEW c, Given(c), c.id = w.transfer.command.id => c.slot = w.transfer.command.slot,
         NEW r \in receive_followup_command(w, c)
  PROVE  Outcome(w, r, c)
<1> DEFINE t == [w.transfer EXCEPT !.command = c, !.receipt_ready = FALSE]
           next == [w EXCEPT !.transfer = t]
           step == held_step(c, w.transfer.command)
           refused == c.id # w.transfer.command.id \/ ~w.transfer.receipt_ready \/ w.transfer.work # "held"
                        \/ step = "unsupported"
<1>0. w.transfer \in Transfer /\ w.receipts \in Seq(AnyCommand)  BY DEF Worker
<1>1. /\ t \in Transfer /\ t.command = c /\ t.work = w.transfer.work /\ ~t.receipt_ready
      /\ t.finish_after_resume = w.transfer.finish_after_resume
  BY <1>0 DEF Transfer, Given
<1>2. next = [w EXCEPT !.transfer.command = c, !.transfer.receipt_ready = FALSE]  BY DEF Worker, Transfer
<1> HIDE DEF t
<1>3. /\ next \in Worker /\ Serves(next) /\ next.transfer = t /\ next.receipts = w.receipts
      /\ next.second = w.second /\ next.has_secondary = w.has_secondary /\ next.link = w.link
      /\ next.pause = w.pause /\ next.game = w.game
  BY <1>1 DEF Worker, Serves
<1> HIDE DEF next
<1>4. CASE c = w.transfer.command
  <2>1. r = w  BY <1>4 DEF receive_followup_command
  <2> QED  BY <2>1, <1>4, PauseMoves DEF Same, Outcome
<1>5. CASE c # w.transfer.command /\ refused
  <2>1. r = quarantine(w)  BY <1>5 DEF receive_followup_command
  <2> QED  BY <2>1, Stops DEF Outcome
<1>6. CASE c # w.transfer.command /\ ~refused
  <2>0. /\ SecondKnown(next) /\ ReceiptHolds(next) /\ StartingHolds(next)
        /\ c.slot = w.transfer.command.slot /\ ~w.transfer.finish_after_resume
        /\ (c.slot = 2 => w.second)
    BY <1>1, <1>3, <1>6
       DEF BridgeOK, SecondKnown, ReceiptHolds, StartingHolds, HeldHolds, Restoring, Removing
  <2>1. step \in {"activate", "discard", "cleanup", "retain_source"}
    BY <1>6, HeldSteps
  <2>2. CASE step = "activate"
    <3>1. r = resume_after_transfer(next)
      BY <1>2, <1>6, <2>2 DEF receive_followup_command
    <3>2. Lost(next, r) \/ Keeps(next, r)
      BY <1>1, <1>3, <2>0, <2>2, <3>1, HeldSteps, Resumes
    <3> QED  BY <1>0, <1>1, <1>3, <1>6, <3>2, KeepsGoesOn
  <2>3. CASE step = "retain_source"
    <3>1. r = revalidate_retained_source(next)
      BY <1>2, <1>6, <2>3 DEF receive_followup_command
    <3>2. c.op = "source_restore" /\ w.transfer.command.op = "source_fence"  BY <2>3, HeldSteps
    <3> QED  BY <1>1, <1>3, <1>6, <2>0, <3>1, <3>2, Retains
  <2>4. CASE step \in {"discard", "cleanup"}
    <3>1. r \in retire_held_secondary(next, step = "discard")
      BY <1>2, <1>6, <2>4 DEF receive_followup_command
    <3>2. c.op \in Removing  BY <2>4, HeldSteps
    <3>3. r = quarantine(next) \/ r \in retire_selected_secondary(next)
      BY <3>1 DEF retire_held_secondary
    <3>4. Lost(next, r) \/ Keeps(next, r)
      BY <1>1, <1>3, <2>0, <3>2, <3>3, Stops, Retires
    <3> QED  BY <1>0, <1>1, <1>3, <1>6, <3>4, KeepsGoesOn
  <2> QED  BY <2>1, <2>2, <2>3, <2>4
<1> QED  BY <1>4, <1>5, <1>6

LEMMA ReceivesCommand ==
  ASSUME NEW w \in Worker, Serves(w), BridgeOK(w), w.link = "welcomed",
         NEW c, Given(c), c.id = w.transfer.command.id => c.slot = w.transfer.command.slot,
         NEW r \in receive_transfer(w, c)
  PROVE  Outcome(w, r, c)
<1> DEFINE x == [w EXCEPT !.receipts = Append(@, c)]
<1>1. CASE c.baseline # w.baseline
  <2>1. r = quarantine(w)  BY <1>1 DEF receive_transfer
  <2> QED  BY <2>1, Stops DEF Outcome
<1>2. CASE c.baseline = w.baseline /\ w.transfer.receipt_ready /\ c = w.transfer.command
  <2>1. r = x  BY <1>2 DEF receive_transfer
  <2>2. /\ x \in Worker /\ Serves(x) /\ x.transfer = w.transfer /\ x.receipts = Append(w.receipts, c)
        /\ x.second = w.second /\ x.has_secondary = w.has_secondary /\ x.link = w.link
        /\ x.pause = w.pause /\ x.game = w.game
    BY DEF Worker, Serves, Given
  <2> HIDE DEF x
  <2>3. BridgeOK(x)
    BY <2>2 DEF BridgeOK, SecondKnown, ReceiptHolds, PausingHolds, RemeasuringHolds, HeldHolds,
                ResumingHolds, StartupHolds, StartingHolds, SealHolds
  <2>4. TruthTold(w, x)  BY <1>2, <2>2 DEF TruthTold
  <2> QED  BY <1>2, <2>1, <2>2, <2>3, <2>4 DEF Outcome, GoesOn
<1>3. CASE c.baseline = w.baseline /\ ~(w.transfer.receipt_ready /\ c = w.transfer.command)
  <2>1. CASE w.transfer.work = "startup"
    <3>1. r = receive_recovery_command(w, c)  BY <1>3, <2>1 DEF receive_transfer
    <3> QED  BY <2>1, <3>1, Recovers
  <2>2. CASE w.transfer.work \notin {"startup", "idle"}
    <3>1. r \in receive_followup_command(w, c)  BY <1>3, <2>2 DEF receive_transfer
    <3> QED  BY <3>1, FollowsUp
  <2>3. CASE w.transfer.work = "idle"
    <3>1. r = begin_transfer(w, c)  BY <1>3, <2>3 DEF receive_transfer
    <3> QED  BY <1>3, <2>3, <3>1, Begins
  <2> QED  BY <2>1, <2>2, <2>3
<1> QED  BY <1>1, <1>2, <1>3

-----------------------------------------------------------------------------
(* One update of a transfer.                                               *)

\* A measured pause holds what a receipt for a held state tells.
LEMMA ReadyHolds ==
  ASSUME NEW w, Ready(w)
  PROVE  /\ w.pause.owns /\ w.pause.phase = "measured" /\ w.game.count = 1
         /\ {"world_at_window", "ai_at_window"} \subseteq w.game.same
  BY DEF Ready, native_quiescence_probe_ready, claims_ready

LEMMA EndsResume ==
  ASSUME NEW w \in Worker, Serves(w), BridgeOK(w), w.transfer.work = "resuming",
         NEW r \in finish_transfer_resume(w)
  PROVE  Outcome(w, r, w.transfer.command)
<1> DEFINE s == transfer_receipt(w)
           t == [w.transfer EXCEPT !.receipt_ready = TRUE, !.work = "idle"]
           x == [s EXCEPT !.transfer = t, !.maintenance = FALSE]
<1>1. CASE r = w
  BY <1>1, PauseMoves DEF Same, Outcome
<1>2. CASE r # w
  <2>0. w.transfer \in Transfer /\ "ai_at_release" \notin w.game.same
    BY <1>2 DEF finish_transfer_resume, Worker
  <2>1. /\ s \in Worker /\ s.receipts = Append(w.receipts, w.transfer.command)
        /\ s.transfer = [w.transfer EXCEPT !.receipt_ready = TRUE]
        /\ s.pause = w.pause /\ s.game = w.game /\ s.link = w.link
        /\ s.second = w.second /\ s.has_secondary = w.has_secondary /\ Serves(s)
    BY Seals
  <2>2. r = [s EXCEPT !.transfer.work = "idle", !.maintenance = FALSE]
    BY <1>2 DEF finish_transfer_resume
  <2>3. [s.transfer EXCEPT !.work = "idle"] = t  BY <2>0, <2>1 DEF Transfer
  <2>4. r = x  BY <2>1, <2>2, <2>3 DEF Worker, Transfer
  <2>5. t \in Transfer /\ t.command = w.transfer.command /\ t.receipt_ready /\ t.work = "idle"
    BY <2>0 DEF Transfer, Working
  <2> HIDE DEF s, t
  <2>6. /\ x \in Worker /\ Serves(x) /\ x.receipts = s.receipts /\ x.transfer = t
        /\ x.pause = s.pause /\ x.game = s.game /\ x.link = s.link
        /\ x.second = s.second /\ x.has_secondary = s.has_secondary
    BY <2>1, <2>5 DEF Worker, Serves
  <2> HIDE DEF x
  <2>7. ~w.pause.owns /\ w.transfer.command.op \in Final
        /\ (w.transfer.command.slot = 2 => (w.second <=> w.transfer.command.op \notin Removing))
    BY DEF BridgeOK, ResumingHolds
  <2>8. BridgeOK(x)
    <3>1. StartingHolds(x)  BY <2>1, <2>6, <2>7 DEF BridgeOK, StartingHolds, NoCommand, Final, Removing
    <3> QED
      BY <2>1, <2>5, <2>6, <2>7, <3>1 DEF BridgeOK, SecondKnown, ReceiptHolds, PausingHolds, RemeasuringHolds,
            HeldHolds, ResumingHolds, StartupHolds, SealHolds
  <2>9. TruthTold(w, x)
    <3>1. /\ x.transfer.command.op \notin {"source_fence", "destination_restore"}
          /\ x.transfer.command.op # "source_restore"
      BY <2>5, <2>6, <2>7 DEF Final, Removing
    <3> QED  BY <2>0, <2>1, <2>6, <2>7, <3>1 DEF TruthTold
  <2> QED  BY <2>1, <2>4, <2>5, <2>6, <2>8, <2>9 DEF Outcome, GoesOn
<1> QED  BY <1>1, <1>2

\* Work becomes "held" with a receipt, under a measured pause.
LEMMA Holds ==
  ASSUME NEW w \in Worker, Serves(w), BridgeOK(w), Ready(w), w.transfer.work \in {"pausing", "remeasuring"},
         w.transfer.command.op \in Restoring \cup {"source_fence"}, ~w.transfer.finish_after_resume,
         w.transfer.command.slot = 2 => w.second,
         NEW g \in Game, g.count = w.game.count, {"world_at_window", "ai_at_window"} \subseteq g.same,
         w.transfer.command.op = "source_fence" => "world_at_seal" \in g.same,
         NEW r, r = [transfer_receipt(w) EXCEPT !.transfer.work = "held", !.game = g]
  PROVE  Outcome(w, r, w.transfer.command)
<1> DEFINE s == transfer_receipt(w)
           t == [w.transfer EXCEPT !.receipt_ready = TRUE, !.work = "held"]
           x == [s EXCEPT !.transfer = t, !.game = g]
<1>0. w.transfer \in Transfer  BY DEF Worker
<1>1. /\ s \in Worker /\ s.receipts = Append(w.receipts, w.transfer.command)
      /\ s.transfer = [w.transfer EXCEPT !.receipt_ready = TRUE]
      /\ s.pause = w.pause /\ s.game = w.game /\ s.link = w.link
      /\ s.second = w.second /\ s.has_secondary = w.has_secondary /\ Serves(s)
  BY Seals
<1>2. [s.transfer EXCEPT !.work = "held"] = t  BY <1>0, <1>1 DEF Transfer
<1>3. r = x  BY <1>1, <1>2 DEF Worker, Transfer
<1>4. /\ t \in Transfer /\ t.command = w.transfer.command /\ t.receipt_ready /\ t.work = "held"
      /\ t.finish_after_resume = w.transfer.finish_after_resume
  BY <1>0 DEF Transfer, Working
<1> HIDE DEF s, t
<1>5. /\ x \in Worker /\ Serves(x) /\ x.receipts = s.receipts /\ x.transfer = t
      /\ x.pause = s.pause /\ x.game = g /\ x.link = s.link
      /\ x.second = s.second /\ x.has_secondary = s.has_secondary
  BY <1>1, <1>4 DEF Worker, Serves
<1> HIDE DEF x
<1>6. /\ w.pause.owns /\ w.pause.phase = "measured" /\ w.game.count = 1  BY ReadyHolds
<1>7. w.transfer.command.op \notin Removing /\ w.transfer.command # NoCommand
  BY DEF Restoring, Removing, NoCommand
<1>8. BridgeOK(x)
  BY <1>1, <1>4, <1>5, <1>6, <1>7 DEF BridgeOK, SecondKnown, ReceiptHolds, PausingHolds, RemeasuringHolds,
        HeldHolds, ResumingHolds, StartupHolds, StartingHolds, SealHolds
<1>9. TruthTold(w, x)
  <2>1. w.transfer.command.op \in {"source_fence", "destination_restore", "source_restore"}
    BY DEF Restoring
  <2> QED  BY <1>1, <1>4, <1>5, <1>6, <2>1 DEF TruthTold
<1> QED  BY <1>1, <1>3, <1>4, <1>5, <1>8, <1>9 DEF Outcome, GoesOn

LEMMA EndsRemeasure ==
  ASSUME NEW w \in Worker, Serves(w), BridgeOK(w), Ready(w), w.transfer.work = "remeasuring",
         NEW r \in finish_transfer_remeasure(w)
  PROVE  Outcome(w, r, w.transfer.command)
<1>1. w.transfer.command.op \in Restoring \cup Removing
      /\ (w.transfer.finish_after_resume <=> w.transfer.command.op \in Removing)
      /\ (w.transfer.command.slot = 2 => (w.second <=> w.transfer.command.op \notin Removing))
  BY DEF BridgeOK, RemeasuringHolds
<1>2. CASE w.transfer.finish_after_resume
  <2>1. r = resume_after_transfer(w)  BY <1>2 DEF finish_transfer_remeasure
  <2>2. w.transfer.command.op \in Final  BY <1>1, <1>2 DEF Final
  <2>3. Lost(w, r) \/ Keeps(w, r)  BY <1>1, <2>1, <2>2, Resumes DEF BridgeOK
  <2>4. w.receipts \in Seq(AnyCommand)  BY DEF Worker
  <2> QED  BY <2>3, <2>4, KeepsGoesOn
<1>3. CASE ~w.transfer.finish_after_resume
  <2> DEFINE s == transfer_receipt(w)
  <2>1. r = [s EXCEPT !.transfer.work = "held"]
    BY <1>3 DEF finish_transfer_remeasure
  <2>2. s \in Worker /\ s.game = w.game /\ w.game \in Game  BY Seals DEF Worker
  <2> HIDE DEF s
  <2>3. r = [s EXCEPT !.transfer.work = "held", !.game = w.game]  BY <2>1, <2>2 DEF Worker
  <2>4. w.transfer.command.op \in Restoring /\ w.transfer.command.op # "source_fence"
        /\ (w.transfer.command.slot = 2 => w.second)
    BY <1>1, <1>3 DEF Restoring
  <2>5. {"world_at_window", "ai_at_window"} \subseteq w.game.same  BY ReadyHolds
  <2> QED  BY <1>3, <2>2, <2>3, <2>4, <2>5, Holds DEF s
<1> QED  BY <1>2, <1>3

LEMMA Exports ==
  ASSUME NEW w \in Worker, Serves(w), BridgeOK(w), Ready(w), w.transfer.work = "pausing",
         w.transfer.command.op = "source_fence",
         NEW r \in export_transfer_source(w)
  PROVE  Outcome(w, r, w.transfer.command)
<1> DEFINE s == transfer_receipt(w)
           g == [w.game EXCEPT !.same = @ \cup {"world_at_seal"}]
<1>1. CASE r = quarantine(w)  BY <1>1, Stops DEF Outcome
<1>2. CASE r # quarantine(w)
  <2>1. r = [s EXCEPT !.transfer.work = "held", !.game.same = @ \cup {"world_at_seal"}]
    BY <1>2 DEF export_transfer_source
  <2>2. s \in Worker /\ s.game = w.game /\ w.game \in Game  BY Seals DEF Worker
  <2> HIDE DEF s
  <2>3. r = [s EXCEPT !.transfer.work = "held", !.game = g]  BY <2>1, <2>2 DEF Worker
  <2>4. {"world_at_window", "ai_at_window"} \subseteq w.game.same  BY ReadyHolds
  <2>5. g \in Game /\ g.count = w.game.count /\ {"world_at_window", "ai_at_window"} \subseteq g.same
        /\ "world_at_seal" \in g.same
    BY <2>2, <2>4 DEF Game, Reference
  <2>6. ~w.transfer.finish_after_resume /\ (w.transfer.command.slot = 2 => w.second)
    BY DEF BridgeOK, PausingHolds
  <2> HIDE DEF g
  <2> QED  BY <2>3, <2>5, <2>6, Holds DEF s
<1> QED  BY <1>1, <1>2

LEMMA Approves ==
  ASSUME NEW w \in Worker, Serves(w), BridgeOK(w), w.transfer.work = "pausing",
         w.transfer.command.op # "source_fence",
         NEW r \in load_transfer_approval(w)
  PROVE  Outcome(w, r, w.transfer.command)
<1>1. /\ w.transfer.command.op \in Restoring \cup {"source_cleanup"}
      /\ ~w.transfer.receipt_ready /\ ~w.transfer.finish_after_resume
  BY DEF BridgeOK, PausingHolds
<1>2. \/ r = quarantine(w)
      \/ w.transfer.command.op = "source_cleanup" /\ r \in retire_selected_secondary(w)
      \/ w.transfer.command.op # "source_cleanup" /\ r \in restore_transfer_player(w)
  BY DEF load_transfer_approval, retire_checkpoint_secondary
<1>3. Lost(w, r) \/ Keeps(w, r)
  <2>1. CASE r = quarantine(w)  BY <2>1, Stops
  <2>2. CASE w.transfer.command.op = "source_cleanup" /\ r \in retire_selected_secondary(w)
    BY <1>1, <2>2, Retires DEF BridgeOK, Removing
  <2>3. CASE w.transfer.command.op # "source_cleanup" /\ r \in restore_transfer_player(w)
    BY <1>1, <2>3, Restores DEF BridgeOK
  <2> QED  BY <1>2, <2>1, <2>2, <2>3
<1>4. w.receipts \in Seq(AnyCommand)  BY DEF Worker
<1> QED  BY <1>3, <1>4, KeepsGoesOn

LEMMA UpdatesTransfer ==
  ASSUME NEW w \in Worker, Serves(w), BridgeOK(w), NEW r \in update_transfer(w)
  PROVE  Outcome(w, r, w.transfer.command)
<1> DEFINE p == Asked(w.pause, w.game, native_network_transfer_context(w))
           x == [w EXCEPT !.pause = p]
           work == w.transfer.work
<1>1. CASE work = "resuming"
  BY <1>1, EndsResume DEF update_transfer
<1>2. CASE work \in {"pausing", "remeasuring"} /\ ~Ready(w)
  <2>1. r = x  BY <1>2 DEF update_transfer
  <2>2. p \in Pause /\ (p = w.pause \/ p = reject(w.pause)) /\ w.pause \in Pause
    BY DEF Asked, reject, Pause, Worker, Phase
  <2>3. p.owns = w.pause.owns  BY <2>2 DEF reject, Pause
  <2> HIDE DEF p
  <2>4. x \in Worker /\ Serves(x) /\ Same(w, x) /\ x.pause = p /\ x.game = w.game
    BY <2>2 DEF Worker, Serves, Same
  <2> HIDE DEF x
  <2>5. p.phase = w.pause.phase \/ p.phase = "rejected"  BY <2>2 DEF reject, Pause
  <2> QED  BY <2>1, <2>3, <2>4, <2>5, PauseMoves DEF Outcome
<1>3. CASE work = "remeasuring" /\ Ready(w)
  BY <1>3, EndsRemeasure DEF update_transfer
<1>4. CASE work = "pausing" /\ Ready(w) /\ w.transfer.command.op = "source_fence"
  BY <1>4, Exports DEF update_transfer
<1>5. CASE work = "pausing" /\ Ready(w) /\ w.transfer.command.op # "source_fence"
  BY <1>5, Approves DEF update_transfer
<1>6. CASE work \notin {"resuming", "pausing", "remeasuring"}
  <2>1. r = w  BY <1>6 DEF update_transfer
  <2> QED  BY <2>1, PauseMoves DEF Same, Outcome
<1> QED  BY <1>1, <1>2, <1>3, <1>4, <1>5, <1>6

-----------------------------------------------------------------------------
(* Steps.                                                                  *)

LEMMA AppendIndex ==
  ASSUME NEW S, NEW s \in Seq(S), NEW e \in S
  PROVE  \A i \in 1..Len(Append(s, e)) :
           \/ i \in 1..Len(s) /\ Append(s, e)[i] = s[i]
           \/ i = Len(s) + 1 /\ Append(s, e)[i] = e
  OBVIOUS

\* A step about the bridge's own command keeps the history of commands.
LEMMA OwnStep ==
  ASSUME TypeOK, IInv, Serving, Outcome(worker, worker', worker.transfer.command),
         toBridge' = (IF worker'.failed \/ worker'.process = "ended" THEN <<>> ELSE toBridge),
         UNCHANGED asked
  PROVE  TypeOK' /\ IInv'
<1>1. worker' \in Worker  BY DEF Outcome, Lost, GoesOn
<1>2. TypeOK'  BY <1>1 DEF TypeOK
<1>3. CASE ~Serving'  BY <1>2, <1>3 DEF IInv
<1>4. CASE Serving'
  <2>1. GoesOn(worker, worker', worker.transfer.command)
    BY <1>4 DEF Outcome, Lost, Serving, Serves
  <2>2. toBridge' = toBridge  BY <1>1, <1>4 DEF Serving, Worker
  <2>3. /\ worker'.transfer.command = worker.transfer.command
        /\ worker.transfer.receipt_ready => worker'.transfer.receipt_ready
        /\ \/ worker'.receipts = worker.receipts
           \/ /\ worker'.receipts = Append(worker.receipts, worker.transfer.command)
              /\ worker'.transfer.receipt_ready
        /\ BridgeOK(worker')
    BY <2>1 DEF GoesOn
  <2>4. \A i \in 1..Len(worker'.receipts) :
          \/ i \in 1..Len(worker.receipts) /\ worker'.receipts[i] = worker.receipts[i]
          \/ worker'.receipts[i] = worker.transfer.command /\ worker'.transfer.receipt_ready
    <3>1. worker.receipts \in Seq(AnyCommand) /\ worker.transfer.command \in AnyCommand
      BY DEF TypeOK, Worker, Transfer
    <3>2. CASE worker'.receipts = worker.receipts  BY <3>2
    <3>3. CASE /\ worker'.receipts = Append(worker.receipts, worker.transfer.command)
               /\ worker'.transfer.receipt_ready
      BY <3>1, <3>3, AppendIndex
    <3> QED  BY <2>3, <3>2, <3>3
  <2>5. /\ AllKnown /\ InFlight /\ Order /\ AnswersHold /\ AskedOK  BY DEF IInv
  <2>6. AllKnown'  BY <2>2, <2>3, <2>4, <2>5 DEF AllKnown
  <2>7. InFlight' /\ Order' /\ AskedOK'  BY <2>2, <2>3, <2>5 DEF InFlight, Order, AskedOK
  <2>8. AnswersHold'  BY <2>2, <2>3, <2>4, <2>5 DEF AnswersHold, Taken
  <2> QED  BY <1>2, <2>3, <2>6, <2>7, <2>8 DEF IInv
<1> QED  BY <1>3, <1>4

\* So does one about the command it receives.
LEMMA CommandStep ==
  ASSUME TypeOK, IInv, Serving, toBridge # <<>>, Outcome(worker, worker', Head(toBridge)),
         toBridge' = (IF worker'.failed \/ worker'.process = "ended" THEN <<>> ELSE Tail(toBridge)),
         UNCHANGED asked
  PROVE  TypeOK' /\ IInv'
<1> DEFINE c == Head(toBridge)
<1>0. /\ toBridge \in Seq(AnyCommand) /\ worker.receipts \in Seq(AnyCommand)
      /\ Len(toBridge) \in Nat \ {0} /\ c = toBridge[1]
      /\ Tail(toBridge) \in Seq(AnyCommand) /\ Len(Tail(toBridge)) = Len(toBridge) - 1
      /\ \A i \in 1..Len(Tail(toBridge)) : Tail(toBridge)[i] = toBridge[i + 1] /\ i + 1 \in 1..Len(toBridge)
  BY DEF TypeOK, Worker
<1> HIDE DEF c
<1>1. worker' \in Worker  BY DEF Outcome, Lost, GoesOn
<1>2. TypeOK'  BY <1>0, <1>1 DEF TypeOK
<1>3. CASE ~Serving'  BY <1>2, <1>3 DEF IInv
<1>4. CASE Serving'
  <2>1. GoesOn(worker, worker', c)
    BY <1>4 DEF Outcome, Lost, Serving, Serves, c
  <2>2. toBridge' = Tail(toBridge)  BY <1>1, <1>4 DEF Serving, Worker
  <2>3. /\ worker'.transfer.command = c
        /\ worker.transfer.receipt_ready /\ worker.transfer.command = c => worker'.transfer.receipt_ready
        /\ \/ worker'.receipts = worker.receipts
           \/ worker'.receipts = Append(worker.receipts, c) /\ worker'.transfer.receipt_ready
        /\ BridgeOK(worker')
    BY <2>1 DEF GoesOn
  <2>4. \A i \in 1..Len(worker'.receipts) :
          \/ i \in 1..Len(worker.receipts) /\ worker'.receipts[i] = worker.receipts[i]
          \/ worker'.receipts[i] = c /\ worker'.transfer.receipt_ready
    <3>0. c \in AnyCommand  BY <1>0
    <3>1. CASE worker'.receipts = worker.receipts  BY <3>1
    <3>2. CASE worker'.receipts = Append(worker.receipts, c) /\ worker'.transfer.receipt_ready
      BY <1>0, <3>0, <3>2, AppendIndex
    <3> QED  BY <2>3, <3>1, <3>2
  <2>5. /\ AllKnown /\ InFlight /\ Order /\ AnswersHold /\ AskedOK  BY DEF IInv
  <2>6. \A i \in 1..Len(toBridge') : i + 1 \in 1..Len(toBridge) /\ toBridge'[i] = toBridge[i + 1]
    BY <1>0, <2>2
  <2>7. Known(c, asked.command)  BY <1>0, <2>5 DEF AllKnown
  <2>8. AllKnown'  BY <2>3, <2>4, <2>5, <2>6, <2>7 DEF AllKnown
  <2>9. 1 \in 1..Len(toBridge) /\ Len(toBridge') = Len(toBridge) - 1  BY <1>0, <2>2
  <2>10. InFlight'
    BY <1>0, <2>3, <2>5, <2>6, <2>9 DEF InFlight
  <2>11. Order'
    BY <1>0, <2>5, <2>6, <2>9 DEF Order
  <2>12. Taken \/ c = asked.command => Taken'
    <3>1. CASE Taken  BY <1>0, <2>3, <2>6, <2>9, <3>1 DEF Taken
    <3>2. CASE c = asked.command
      <4>1. toBridge[1] = asked.command  BY <1>0, <3>2
      <4>2. \A j \in 1..Len(toBridge) : 1 < j => toBridge[j] = asked.command
        BY <2>5, <2>9, <4>1 DEF Order
      <4>3. \A i \in 1..Len(toBridge') : toBridge'[i] = asked.command
        <5> TAKE i \in 1..Len(toBridge')
        <5>1. i + 1 \in 1..Len(toBridge) /\ 1 < i + 1  BY <2>6
        <5> QED  BY <2>6, <4>2, <5>1
      <4> QED  BY <2>3, <3>2, <4>3 DEF Taken
    <3> QED  BY <3>1, <3>2
  <2>13. Taken => c = worker.transfer.command  BY <1>0, <2>9 DEF Taken
  <2>14. AnswersHold'
    <3>1. worker'.transfer.command = asked.command => Taken'  BY <2>3, <2>12
    <3>2. asked.answered => Taken' /\ (asked.command.id # 0 => worker'.transfer.receipt_ready)
      BY <2>3, <2>5, <2>12, <2>13 DEF AnswersHold
    <3>3. ASSUME NEW i \in 1..Len(worker'.receipts), worker'.receipts[i] = asked.command
          PROVE  Taken' /\ worker'.transfer.receipt_ready
      BY <2>3, <2>4, <2>5, <2>12, <2>13, <3>3 DEF AnswersHold
    <3> QED  BY <3>1, <3>2, <3>3 DEF AnswersHold
  <2>15. AskedOK'  BY <2>5 DEF AskedOK
  <2> QED  BY <1>2, <2>3, <2>8, <2>10, <2>11, <2>14, <2>15 DEF IInv
<1> QED  BY <1>3, <1>4

\* The coordinator gives a command that is new, or its last one again.
LEMMA GivesCommand ==
  ASSUME TypeOK, IInv, Serving, NEW c, Given(c), c.id # 0,
         \/ c = asked.command
         \/ /\ c.id = asked.command.id /\ c.slot = asked.command.slot
            /\ Rank(asked.command.op) < Rank(c.op)
         \/ asked.answered /\ c.id = asked.command.id + 1,
         toBridge' = Append(toBridge, c), asked' = [command |-> c, answered |-> FALSE],
         UNCHANGED worker
  PROVE  TypeOK' /\ IInv'
<1>0. /\ toBridge \in Seq(AnyCommand) /\ worker.receipts \in Seq(AnyCommand)
      /\ worker.transfer.command \in AnyCommand /\ asked.command \in AnyCommand /\ c \in AnyCommand
      /\ asked'.command = c /\ asked'.answered = FALSE /\ Len(toBridge) \in Nat
  BY DEF TypeOK, Worker, Transfer, Given
<1>1. TypeOK'  BY <1>0 DEF TypeOK
<1>2. /\ AllKnown /\ InFlight /\ Order /\ AnswersHold /\ AskedOK /\ BridgeOK(worker)  BY DEF IInv
<1>3. /\ Len(toBridge') = Len(toBridge) + 1
      /\ \A i \in 1..Len(toBridge') : \/ i \in 1..Len(toBridge) /\ toBridge'[i] = toBridge[i]
                                      \/ i = Len(toBridge) + 1 /\ toBridge'[i] = c
  BY <1>0
<1>4. ASSUME NEW d \in AnyCommand, Known(d, asked.command)
      PROVE  Known(d, c) /\ (d = c => c = asked.command)
  <2>1. Rank(d.op) \in Nat /\ Rank(c.op) \in Nat /\ Rank(asked.command.op) \in Nat  BY DEF Rank
  <2>2. d.id \in Nat /\ c.id \in Nat /\ asked.command.id \in Nat  BY <1>0 DEF AnyCommand
  <2>3. \/ d.id < asked.command.id
        \/ /\ d.id = asked.command.id
           /\ d = asked.command \/ Rank(d.op) < Rank(asked.command.op)
    BY <1>4 DEF Known
  <2>4. CASE c = asked.command  BY <1>4, <2>4
  <2>5. CASE c.id = asked.command.id /\ Rank(asked.command.op) < Rank(c.op)
    <3>1. d.id < c.id \/ (d.id = c.id /\ Rank(d.op) < Rank(c.op))
      BY <2>1, <2>2, <2>3, <2>5
    <3> QED  BY <2>1, <2>2, <3>1 DEF Known
  <2>6. CASE c.id = asked.command.id + 1
    <3>1. d.id < c.id  BY <2>2, <2>3, <2>6
    <3> QED  BY <2>2, <3>1 DEF Known
  <2> QED  BY <2>4, <2>5, <2>6
<1>5. \A i \in 1..Len(toBridge) : toBridge[i] \in AnyCommand  BY <1>0
<1>6. \A i \in 1..Len(worker.receipts) : worker.receipts[i] \in AnyCommand  BY <1>0
<1>7. AllKnown'
  <2>1. Known(c, c)  BY DEF Known
  <2> QED  BY <1>0, <1>2, <1>3, <1>4, <1>5, <1>6, <2>1 DEF AllKnown
<1>8. InFlight'
  <2>0. c.id = asked.command.id => c.slot = asked.command.slot  BY <1>0 DEF AnyCommand
  <2>1. \A i \in 1..Len(toBridge) :
          /\ toBridge[i].id = c.id => toBridge[i].slot = c.slot
          /\ toBridge[i].op \in Op /\ toBridge[i].slot \in {1, 2} /\ toBridge[i].id # 0
    <3> TAKE i \in 1..Len(toBridge)
    <3>1. Known(toBridge[i], asked.command) /\ toBridge[i] \in AnyCommand  BY <1>2, <1>5 DEF AllKnown
    <3>2. toBridge[i].id = c.id => c.id = asked.command.id
      BY <1>0, <3>1 DEF Known, AnyCommand
    <3>3. toBridge[i].op \in Op /\ toBridge[i].slot \in {1, 2} /\ toBridge[i].id # 0
          /\ (toBridge[i].id = asked.command.id => toBridge[i].slot = asked.command.slot)
      BY <1>2 DEF InFlight
    <3> QED  BY <2>0, <3>2, <3>3
  <2>2. worker.transfer.command.id = c.id => worker.transfer.command.slot = c.slot
    <3>1. Known(worker.transfer.command, asked.command)  BY <1>2 DEF AllKnown
    <3>2. worker.transfer.command.id = c.id => c.id = asked.command.id
      BY <1>0, <3>1 DEF Known, AnyCommand
    <3>3. worker.transfer.command.id = asked.command.id => worker.transfer.command.slot = asked.command.slot
      BY <1>2 DEF InFlight
    <3> QED  BY <2>0, <3>2, <3>3
  <2>3. \A i \in 1..Len(toBridge) :
          toBridge[i].id = worker.transfer.command.id => toBridge[i].slot = worker.transfer.command.slot
    BY <1>2 DEF InFlight
  <2>4. \A i, j \in 1..Len(toBridge) : toBridge[i].id = toBridge[j].id => toBridge[i].slot = toBridge[j].slot
    BY <1>2 DEF InFlight
  <2>5. \A i \in 1..Len(toBridge') : toBridge'[i].op \in Op /\ toBridge'[i].slot \in {1, 2} /\ toBridge'[i].id # 0
    BY <1>3, <2>1 DEF Given
  <2>6. \A i, j \in 1..Len(toBridge') : toBridge'[i].id = toBridge'[j].id => toBridge'[i].slot = toBridge'[j].slot
    BY <1>3, <2>1, <2>4
  <2>7. \A i \in 1..Len(toBridge') :
          /\ toBridge'[i].id = worker'.transfer.command.id => toBridge'[i].slot = worker'.transfer.command.slot
          /\ toBridge'[i].id = asked'.command.id => toBridge'[i].slot = asked'.command.slot
    BY <1>0, <1>3, <2>1, <2>2, <2>3
  <2>8. worker'.transfer.command.id = asked'.command.id => worker'.transfer.command.slot = asked'.command.slot
    BY <1>0, <2>2
  <2> QED  BY <2>5, <2>6, <2>7, <2>8 DEF InFlight
<1>9. \A i \in 1..Len(toBridge) : toBridge[i] = c => c = asked.command
  BY <1>2, <1>4, <1>5 DEF AllKnown
<1>10. Order'
  BY <1>0, <1>2, <1>3, <1>9 DEF Order
<1>11. worker.transfer.command = c => c = asked.command
  BY <1>0, <1>2, <1>4 DEF AllKnown
<1>12. c = asked.command /\ Taken => Taken'
  BY <1>0, <1>3 DEF Taken
<1>13. AnswersHold'
  <2>1. worker'.transfer.command = asked'.command => Taken'
    BY <1>0, <1>2, <1>11, <1>12 DEF AnswersHold
  <2>2. ASSUME NEW i \in 1..Len(worker'.receipts), worker'.receipts[i] = asked'.command
        PROVE  Taken' /\ worker'.transfer.receipt_ready
    <3>1. c = asked.command  BY <1>0, <1>2, <1>4, <1>6, <2>2 DEF AllKnown
    <3> QED  BY <1>0, <1>2, <1>12, <2>2, <3>1 DEF AnswersHold
  <2> QED  BY <1>0, <2>1, <2>2 DEF AnswersHold
<1>14. AskedOK' /\ BridgeOK(worker')  BY <1>0, <1>2 DEF AskedOK, Given
<1> QED  BY <1>1, <1>7, <1>8, <1>10, <1>13, <1>14 DEF IInv

\* An answer makes the coordinator's last command an answered one.
LEMMA Observes ==
  ASSUME TypeOK, IInv, observe_native_receipt
  PROVE  TypeOK' /\ IInv' /\ ~Sealed
<1> DEFINE s == worker.receipts
           x == [worker EXCEPT !.receipts = Tail(s)]
<1>0. worker \in Worker /\ s \in Seq(AnyCommand) /\ s # <<>> /\ asked \in [command : AnyCommand, answered : BOOLEAN]
  BY DEF TypeOK, Worker, observe_native_receipt
<1>1. /\ Tail(s) \in Seq(AnyCommand) /\ Len(Tail(s)) = Len(s) - 1 /\ Len(s) \in Nat \ {0} /\ Head(s) = s[1]
      /\ \A i \in 1..Len(Tail(s)) : i + 1 \in 1..Len(s) /\ Tail(s)[i] = s[i + 1]
      /\ 1 \in 1..Len(s)
  BY <1>0
<1> HIDE DEF s
<1>2. /\ x \in Worker /\ x.receipts = Tail(s) /\ x.transfer = worker.transfer /\ (Serves(x) <=> Serves(worker))
      /\ (BridgeOK(worker) => BridgeOK(x))
  <2>1. /\ x \in Worker /\ x.receipts = Tail(s) /\ x.transfer = worker.transfer /\ (Serves(x) <=> Serves(worker))
        /\ x.second = worker.second /\ x.has_secondary = worker.has_secondary /\ x.link = worker.link
        /\ x.pause = worker.pause /\ x.game = worker.game
    BY <1>0, <1>1 DEF Worker, Serves
  <2> HIDE DEF x
  <2> QED
    BY <2>1 DEF BridgeOK, SecondKnown, ReceiptHolds, PausingHolds, RemeasuringHolds, HeldHolds,
                ResumingHolds, StartupHolds, StartingHolds, SealHolds
<1>3. worker' = x /\ toBridge' = toBridge /\ asked' = [asked EXCEPT !.answered = @ \/ s[1] = asked.command]
  BY <1>1 DEF observe_native_receipt, s
<1> HIDE DEF x
<1>4. /\ asked' \in [command : AnyCommand, answered : BOOLEAN] /\ asked'.command = asked.command
      /\ (asked'.answered => asked.answered \/ s[1] = asked.command) /\ (asked.answered => asked'.answered)
  BY <1>0, <1>3
<1>5. TypeOK'  BY <1>2, <1>3, <1>4 DEF TypeOK
<1>5a. /\ worker'.receipts = Tail(s) /\ worker'.transfer = worker.transfer /\ (Serving' <=> Serving)
       /\ (BridgeOK(worker) => BridgeOK(worker)')
  BY <1>2, <1>3 DEF Serving, Serves
<1>6. \A i \in 1..Len(worker'.receipts) :
        \E j \in 1..Len(worker.receipts) : worker'.receipts[i] = worker.receipts[j]
  BY <1>1, <1>5a DEF s
<1>7. IInv'
  <2> SUFFICES ASSUME Serving'
               PROVE  BridgeOK(worker)' /\ AllKnown' /\ InFlight' /\ Order' /\ AnswersHold' /\ AskedOK'
    BY DEF IInv
  <2>2. BridgeOK(worker) /\ AllKnown /\ InFlight /\ Order /\ AnswersHold /\ AskedOK  BY <1>5a DEF IInv
  <2>3. AllKnown'
    <3>1. \A i \in 1..Len(worker.receipts) : Known(worker.receipts[i], asked.command)  BY <2>2 DEF AllKnown
    <3>2. \A i \in 1..Len(worker'.receipts) : Known(worker'.receipts[i], asked.command)
      BY <1>6, <3>1
    <3> QED  BY <1>3, <1>4, <1>5a, <2>2, <3>2 DEF AllKnown, Known
  <2>4. InFlight' /\ Order' /\ AskedOK'  BY <1>5a, <1>3, <1>4, <2>2 DEF InFlight, Order, AskedOK
  <2>5. Taken <=> Taken'  BY <1>5a, <1>3, <1>4 DEF Taken
  <2>6. AnswersHold'
    <3>1. worker'.transfer.command = asked'.command => Taken'
      BY <1>5a, <1>4, <2>2, <2>5 DEF AnswersHold
    <3>2. s[1] = asked.command => Taken /\ worker.transfer.receipt_ready
      BY <1>1, <2>2 DEF AnswersHold, s
    <3>3. asked'.answered => Taken' /\ (asked'.command.id # 0 => worker'.transfer.receipt_ready)
      BY <1>5a, <1>4, <2>2, <2>5, <3>2 DEF AnswersHold
    <3>4. \A i \in 1..Len(worker.receipts) :
            worker.receipts[i] = asked.command => Taken /\ worker.transfer.receipt_ready
      BY <2>2 DEF AnswersHold
    <3>5. \A i \in 1..Len(worker'.receipts) :
            worker'.receipts[i] = asked'.command => Taken' /\ worker'.transfer.receipt_ready
      BY <1>4, <1>5a, <1>6, <2>5, <3>4
    <3> QED  BY <3>1, <3>3, <3>5 DEF AnswersHold
  <2> QED  BY <1>5a, <2>2, <2>3, <2>4, <2>6
<1>8. ~Sealed
  <2>1. Len(worker'.receipts) = Len(worker.receipts) - 1 /\ Len(worker.receipts) \in Nat  BY <1>1, <1>5a DEF s
  <2> QED  BY <2>1 DEF Sealed
<1> QED  BY <1>5, <1>7, <1>8

LEMMA SealedTruth ==
  ASSUME TypeOK, NEW c, Outcome(worker, worker', c)
  PROVE  Sealed => SealsTheTruth
<1>1. CASE Lost(worker, worker')  BY <1>1 DEF Lost, Sealed, TypeOK, Worker
<1>2. CASE TruthTold(worker, worker')  BY <1>2 DEF TruthTold, Sealed, SealsTheTruth, HeldStill
<1> QED  BY <1>1, <1>2 DEF Outcome, GoesOn

LEMMA HoldsAtStart ==
  ASSUME NEW w \in Worker, Serves(w), BridgeOK(w), w.link = "starting", NEW r, r = hold_scene_for_recovery(w)
  PROVE  Outcome(w, r, w.transfer.command)
<1> DEFINE t == [NoTransfer EXCEPT !.work = "startup", !.request = 1]
           v == [w EXCEPT !.transfer = t]
           held == request_native_transfer_quiescence(v)
           x == [held EXCEPT !.link = "connecting"]
<1>0. w.receipts \in Seq(AnyCommand) /\ w.transfer.command = NoCommand /\ ~w.transfer.receipt_ready
  BY DEF Worker, BridgeOK, StartingHolds
<1>1. /\ t \in Transfer /\ t.command = NoCommand /\ t.work = "startup"
      /\ t.receipt_ready = FALSE /\ t.finish_after_resume = FALSE
  BY DEF NoTransfer, NoCommand, Transfer, AnyCommand, Working
<1>2. r = IF held.failed THEN held ELSE x  BY DEF hold_scene_for_recovery
<1> HIDE DEF t
<1>3. /\ v \in Worker /\ Serves(v) /\ v.transfer = t /\ v.receipts = w.receipts
      /\ v.second = w.second /\ v.has_secondary = w.has_secondary /\ v.link = w.link
  BY <1>1 DEF Worker, Serves
<1>4. Lost(v, held) \/ (Keeps(v, held) /\ held.transfer = v.transfer)
  <2> HIDE DEF v
  <2>1. BridgeOK(v)
    BY <1>1, <1>3 DEF BridgeOK, SecondKnown, ReceiptHolds, PausingHolds, RemeasuringHolds, HeldHolds,
                ResumingHolds, StartupHolds, StartingHolds, SealHolds
  <2> QED  BY <1>1, <1>3, <2>1, Acquires
<1> HIDE DEF v, held
<1>5. CASE Lost(v, held)
  <2>1. held \in Worker /\ held.receipts = w.receipts /\ ~Serves(held)  BY <1>3, <1>5 DEF Lost
  <2>2. x \in Worker /\ x.receipts = w.receipts /\ ~Serves(x)  BY <2>1 DEF Worker, Serves
  <2> QED  BY <1>2, <2>1, <2>2 DEF Lost, Outcome
<1>6. CASE Keeps(v, held)
  <2>1. held \in Worker /\ Serves(held) /\ BridgeOK(held)  BY <1>6 DEF Keeps
  <2>2. r = x  BY <1>2, <2>1 DEF Serves
  <2>3. /\ x \in Worker /\ Serves(x) /\ x.transfer = held.transfer /\ x.receipts = held.receipts
        /\ x.second = held.second /\ x.has_secondary = held.has_secondary /\ x.link # "starting"
        /\ x.pause = held.pause /\ x.game = held.game
    BY <2>1 DEF Worker, Serves
  <2> HIDE DEF x
  <2>4. BridgeOK(x)
    BY <2>1, <2>3 DEF BridgeOK, SecondKnown, ReceiptHolds, PausingHolds, RemeasuringHolds, HeldHolds,
                ResumingHolds, StartupHolds, StartingHolds, SealHolds
  <2>5. Keeps(v, x)  BY <1>6, <2>3, <2>4 DEF Keeps
  <2> QED  BY <1>0, <1>1, <1>3, <2>2, <2>5, KeepsGoesOn
<1> QED  BY <1>4, <1>5, <1>6

LEMMA ProbeMoves ==
  ASSUME NEW p \in Pause, NEW g \in Game, NEW context, NEW q \in update_native_quiescence_probe(p, g, context)
  PROVE  /\ q \in Pause /\ (q.owns => p.owns)
         /\ p.phase \in {"measured", "rejected"} => q.phase \in {"measured", "rejected"}
<1> DEFINE checked == owned_pause_intact(p, g, context)
<1>1. checked \in Pause /\ (checked # p => checked.phase = "rejected" /\ (checked.owns => p.owns))
  BY DEF owned_pause_intact, reject, Pause, Phase
<1>2. ASSUME NEW opaque \in BOOLEAN, NEW late \in BOOLEAN, q = settle(p, opaque, late)
      PROVE  q \in Pause /\ (q.owns => p.owns)
  BY <1>2 DEF settle, reject, Pause, Phase
<1>3. ASSUME NEW elapsed \in BOOLEAN, q = observe(p, g, elapsed)
      PROVE  q \in Pause /\ (q.owns => p.owns) /\ q.phase \in {p.phase, "measured", "rejected"}
  BY <1>3 DEF observe, reject, Pause, Phase
<1>4. \/ q = p \/ (q = checked /\ checked # p)
      \/ p.phase = "settling" /\ \E opaque, late \in BOOLEAN : q = settle(p, opaque, late)
      \/ \E elapsed \in BOOLEAN : q = observe(p, g, elapsed)
  BY DEF update_native_quiescence_probe
<1> HIDE DEF checked
<1> QED  BY <1>1, <1>2, <1>3, <1>4

\* A frame of the game under the hook.
LEMMA FrameMoves ==
  ASSUME NEW p \in Pause, NEW g \in Game, NEW h \in Framed(g)
  PROVE  /\ delta_hook(p, g) \in Pause /\ delta_hook(p, g).owns = p.owns /\ delta_hook(p, g).phase = p.phase
         /\ h \in Game /\ h.same \subseteq g.same
         /\ "world_at_seal" \in g.same => ("world_at_seal" \in h.same \/ "world_at_window" \notin h.same)
<1>1. delta_hook(p, g) \in Pause /\ delta_hook(p, g).owns = p.owns /\ delta_hook(p, g).phase = p.phase
  BY DEF delta_hook, Pause
<1>2. h = g \/ \E moved \in {{}, WorldReference, Reference} : h = [g EXCEPT !.same = @ \ moved]
  BY DEF Framed
<1> QED  BY <1>1, <1>2 DEF Game, Reference, WorldReference

-----------------------------------------------------------------------------
(* The invariant.                                                          *)

LEMMA Starting == Init => TypeOK /\ IInv
<1> SUFFICES ASSUME Init PROVE TypeOK /\ IInv  OBVIOUS
<1>1. PICK second \in BOOLEAN, recovery \in BOOLEAN :
        worker = [process |-> "running", failed |-> FALSE, ready |-> ~recovery, inputs |-> ~recovery,
                  link |-> IF recovery THEN "starting" ELSE "welcomed", maintenance |-> recovery,
                  has_secondary |-> second, transfer |-> NoTransfer, pause |-> NoPause,
                  game |-> [count |-> 0, foreign |-> 0, scene |-> TRUE, same |-> {}],
                  second |-> second, used |-> FALSE, baseline |-> 1, receipts |-> <<>>]
  BY DEF Init
<1>2. toBridge = <<>> /\ asked = [command |-> NoCommand, answered |-> TRUE]  BY DEF Init
<1>3. NoTransfer \in Transfer /\ NoCommand \in AnyCommand /\ NoTransfer.command = NoCommand
      /\ NoTransfer.work = "idle" /\ NoTransfer.receipt_ready = FALSE
  BY DEF NoTransfer, NoCommand, Transfer, AnyCommand, Working
<1>4. NoPause \in Pause  BY DEF NoPause, Pause, Phase
<1>5. /\ worker \in Worker /\ worker.transfer = NoTransfer /\ worker.receipts = <<>>
      /\ worker.second = worker.has_secondary
  <2>1. <<>> \in Seq(AnyCommand)  OBVIOUS
  <2>2. [count |-> 0, foreign |-> 0, scene |-> TRUE, same |-> {}] \in Game  BY DEF Game
  <2> QED  BY <1>1, <1>3, <1>4, <2>1, <2>2 DEF Worker
<1>6. TypeOK  BY <1>2, <1>3, <1>5 DEF TypeOK
<1>7. BridgeOK(worker)
  BY <1>3, <1>5 DEF BridgeOK, SecondKnown, ReceiptHolds, PausingHolds, RemeasuringHolds, HeldHolds,
      ResumingHolds, StartupHolds, StartingHolds, SealHolds
<1>8. AllKnown /\ InFlight /\ Order /\ AnswersHold /\ AskedOK
  BY <1>2, <1>3, <1>5 DEF AllKnown, Known, InFlight, Order, AnswersHold, AskedOK, Taken, NoCommand
<1> QED  BY <1>6, <1>7, <1>8 DEF IInv

\* r is w on another link, and what was on the old one may be gone.
Cut(w, r) ==
  /\ r \in Worker /\ Serves(r) /\ r.link # "starting"
  /\ r.receipts \in {w.receipts, <<>>}
  /\ r.transfer = w.transfer /\ r.has_secondary = w.has_secondary /\ r.second = w.second
  /\ r.pause = w.pause /\ r.game = w.game

\* A lost link takes commands and receipts with it, and adds none.
LEMMA CutStep ==
  ASSUME TypeOK, IInv, Serving, Cut(worker, worker'),
         toBridge' \in {toBridge, <<>>}, UNCHANGED asked
  PROVE  TypeOK' /\ IInv' /\ (Sealed => SealsTheTruth)
<1>1. /\ worker' \in Worker /\ BridgeOK(worker)
      /\ AllKnown /\ InFlight /\ Order /\ AnswersHold /\ AskedOK
  BY DEF Cut, IInv
<1>2. TypeOK'
  <2>1. toBridge \in Seq(AnyCommand) /\ <<>> \in Seq(AnyCommand)  BY DEF TypeOK
  <2>2. toBridge' \in Seq(AnyCommand)  BY <2>1
  <2>3. asked' \in [command : AnyCommand, answered : BOOLEAN]  BY DEF TypeOK
  <2> QED  BY <1>1, <2>2, <2>3 DEF TypeOK
<1>3. BridgeOK(worker')
  BY <1>1 DEF Cut, BridgeOK, SecondKnown, ReceiptHolds, PausingHolds, RemeasuringHolds, HeldHolds,
              ResumingHolds, StartupHolds, StartingHolds, SealHolds
<1>4. \A i \in 1..Len(worker'.receipts) : i \in 1..Len(worker.receipts) /\ worker'.receipts[i] = worker.receipts[i]
  BY DEF Cut
<1>5. \A i \in 1..Len(toBridge') : i \in 1..Len(toBridge) /\ toBridge'[i] = toBridge[i]
  OBVIOUS
<1>6. worker'.transfer = worker.transfer  BY DEF Cut
<1>7. AllKnown'  BY <1>1, <1>4, <1>5, <1>6 DEF AllKnown
<1>8. InFlight'  BY <1>1, <1>5, <1>6 DEF InFlight
<1>9. Order' /\ AskedOK'  BY <1>1, <1>5 DEF Order, AskedOK
<1>10. Taken => Taken'  BY <1>5, <1>6 DEF Taken
<1>11. AnswersHold'  BY <1>1, <1>4, <1>6, <1>10 DEF AnswersHold
<1>12. ~Sealed
  <2>1. worker.receipts \in Seq(AnyCommand)  BY DEF TypeOK, Worker
  <2>2. Len(worker'.receipts) <= Len(worker.receipts)  BY <2>1 DEF Cut
  <2>3. Len(worker'.receipts) \in Nat /\ Len(worker.receipts) \in Nat  BY <1>1, <2>1 DEF Worker
  <2> QED  BY <2>2, <2>3 DEF Sealed
<1> QED  BY <1>2, <1>3, <1>7, <1>8, <1>9, <1>11, <1>12 DEF IInv

\* A step of the process on its own, and what it may seal.
LEMMA Becoming ==
  ASSUME TypeOK, IInv, Serving, NEW outcomes, Becomes(outcomes),
         \A r \in outcomes : Outcome(worker, r, worker.transfer.command)
  PROVE  TypeOK' /\ IInv' /\ (Sealed => SealsTheTruth)
<1>1. Outcome(worker, worker', worker.transfer.command)  BY DEF Becomes
<1>2. TypeOK' /\ IInv'  BY <1>1, OwnStep DEF Becomes
<1> QED  BY <1>1, <1>2, SealedTruth

\* A step of the pause or of the game alone.
LEMMA Moving ==
  ASSUME TypeOK, IInv, Serving, NEW r \in Worker, Serves(r), Same(worker, r),
         ~worker.pause.owns => ~r.pause.owns,
         worker.pause.phase \in {"measured", "rejected"} =>
           /\ r.pause.phase \in {"measured", "rejected"}
           /\ "world_at_window" \in r.game.same => "world_at_window" \in worker.game.same
           /\ "world_at_seal" \in worker.game.same =>
                ("world_at_seal" \in r.game.same \/ "world_at_window" \notin r.game.same)
  PROVE  Outcome(worker, r, worker.transfer.command)
<1>1. worker \in Worker /\ BridgeOK(worker) /\ Serves(worker)  BY DEF TypeOK, IInv, Serving, Serves
<1> QED  BY <1>1, PauseMoves DEF Outcome

\* The process's own steps, each as an outcome.
LEMMA ProcessStep ==
  ASSUME TypeOK, IInv,
         \/ Starts \/ receive_welcome \/ Updates \/ TimesOut \/ Measures \/ Frame \/ publish_scene
         \/ receive_reject \/ retry_connection
  PROVE  TypeOK' /\ IInv' /\ (Sealed => SealsTheTruth)
<1>0. Serving /\ Serves(worker) /\ worker \in Worker /\ BridgeOK(worker)
  BY DEF TypeOK, IInv, Serving, Serves, Starts, receive_welcome, Updates, TimesOut, Measures, Frame, publish_scene,
         receive_reject, retry_connection
<1>1. CASE Starts
  BY <1>0, <1>1, HoldsAtStart, Becoming DEF Starts
<1>2. CASE receive_welcome
  <2> DEFINE r == [worker EXCEPT !.link = "welcomed"]
  <2>1. r \in Worker /\ Serves(r) /\ Same(worker, r) /\ r.pause = worker.pause /\ r.game = worker.game
    BY <1>0 DEF Worker, Serves, Same
  <2> HIDE DEF r
  <2>2. Outcome(worker, r, worker.transfer.command)  BY <1>0, <2>1, Moving
  <2>3. Becomes({r})  BY <1>2 DEF receive_welcome, r
  <2> QED  BY <1>0, <2>2, <2>3, Becoming
<1>3. CASE Updates
  BY <1>0, <1>3, UpdatesTransfer, Becoming DEF Updates
<1>4. CASE TimesOut
  <2>1. Outcome(worker, quarantine(worker), worker.transfer.command)  BY <1>0, Stops DEF Outcome
  <2> QED  BY <1>0, <1>4, <2>1, Becoming DEF TimesOut
<1>5. CASE Measures
  <2> DEFINE same(p) == IF opens_window(worker.pause, p)
                        THEN worker.game.same \cup {"world_at_window", "ai_at_window"} ELSE worker.game.same
             probed == update_native_quiescence_probe(worker.pause, worker.game,
                                                      native_network_transfer_context(worker))
             becomes(p) == [worker EXCEPT !.pause = p, !.game.same = same(p)]
  <2>1. ASSUME NEW p \in probed
        PROVE  Outcome(worker, becomes(p), worker.transfer.command)
    <3> DEFINE g == [worker.game EXCEPT !.same = same(p)]
               r == [worker EXCEPT !.pause = p, !.game = g]
    <3>0. worker.pause \in Pause /\ worker.game \in Game  BY <1>0 DEF Worker
    <3>1. /\ p \in Pause /\ (p.owns => worker.pause.owns)
          /\ worker.pause.phase \in {"measured", "rejected"} => p.phase \in {"measured", "rejected"}
      BY <2>1, <3>0, ProbeMoves
    <3>2. g \in Game /\ (worker.pause.phase \in {"measured", "rejected"} => g.same = worker.game.same)
      BY <3>0 DEF opens_window, Game, Reference
    <3>3. becomes(p) = r  BY <1>0, <3>0 DEF Worker, Game
    <3> HIDE DEF g, becomes
    <3>4. r \in Worker /\ Serves(r) /\ Same(worker, r) /\ r.pause = p /\ r.game = g
      BY <1>0, <3>1, <3>2 DEF Worker, Serves, Same
    <3> HIDE DEF r
    <3> QED  BY <1>0, <3>1, <3>2, <3>3, <3>4, Moving
  <2>2. Becomes({becomes(p) : p \in probed})  BY <1>5 DEF Measures
  <2> HIDE DEF becomes, probed
  <2>3. \A r \in {becomes(p) : p \in probed} : Outcome(worker, r, worker.transfer.command)  BY <2>1
  <2> QED  BY <1>0, <2>2, <2>3, Becoming
<1>6. CASE Frame
  <2> DEFINE p == delta_hook(worker.pause, worker.game)
             becomes(g) == [worker EXCEPT !.pause = p, !.game = g]
  <2>1. ASSUME NEW g \in Framed(worker.game)
        PROVE  Outcome(worker, becomes(g), worker.transfer.command)
    <3>0. worker.pause \in Pause /\ worker.game \in Game  BY <1>0 DEF Worker
    <3>1. /\ p \in Pause /\ p.owns = worker.pause.owns /\ p.phase = worker.pause.phase
          /\ g \in Game /\ g.same \subseteq worker.game.same
          /\ "world_at_seal" \in worker.game.same => ("world_at_seal" \in g.same \/ "world_at_window" \notin g.same)
      BY <2>1, <3>0, FrameMoves
    <3> HIDE DEF p
    <3>2. /\ becomes(g) \in Worker /\ Serves(becomes(g)) /\ Same(worker, becomes(g))
          /\ becomes(g).pause = p /\ becomes(g).game = g
      BY <1>0, <3>1 DEF Worker, Serves, Same
    <3> HIDE DEF becomes
    <3> QED  BY <1>0, <3>1, <3>2, Moving
  <2>2. Becomes({becomes(g) : g \in Framed(worker.game)})  BY <1>6 DEF Frame
  <2> HIDE DEF becomes
  <2>3. \A r \in {becomes(g) : g \in Framed(worker.game)} : Outcome(worker, r, worker.transfer.command)  BY <2>1
  <2> QED  BY <1>0, <2>2, <2>3, Becoming
<1>7. CASE publish_scene
  <2> DEFINE link == IF worker.link = "readmitted" /\ ~asked.answered THEN "refused" ELSE "welcomed"
             r == [worker EXCEPT !.ready = TRUE, !.inputs = TRUE, !.baseline = @ + 1, !.link = link]
  <2>1. r \in Worker /\ Serves(r) /\ Same(worker, r) /\ r.pause = worker.pause /\ r.game = worker.game
    <3>1. worker.baseline + 1 \in Nat /\ link \in {"refused", "welcomed"}  BY <1>0 DEF Worker
    <3> HIDE DEF link
    <3>2. r \in Worker  BY <1>0, <3>1 DEF Worker
    <3> QED  BY <1>0, <3>1, <3>2 DEF Serves, Same, Worker
  <2> HIDE DEF r
  <2>2. Outcome(worker, r, worker.transfer.command)  BY <1>0, <2>1, Moving
  <2>3. Becomes({r})  BY <1>7 DEF publish_scene, r
  <2> QED  BY <1>0, <2>2, <2>3, Becoming
<1>8. CASE receive_reject
  <2>1. Outcome(worker, quarantine(worker), worker.transfer.command)  BY <1>0, Stops DEF Outcome
  <2> QED  BY <1>0, <1>8, <2>1, Becoming DEF receive_reject
<1>9. CASE retry_connection
  <2> DEFINE r == [worker EXCEPT !.link = "readmitted", !.receipts = <<>>]
  <2>1. Becomes({quarantine(worker), r})  BY <1>9 DEF retry_connection
  <2>2. Outcome(worker, quarantine(worker), worker.transfer.command)  BY <1>0, Stops DEF Outcome
  <2>3. CASE worker' = quarantine(worker)
    <3>1. Becomes({quarantine(worker)})  BY <2>1, <2>3 DEF Becomes
    <3> QED  BY <1>0, <2>2, <3>1, Becoming
  <2>4. CASE worker' = r
    <3>1. Cut(worker, r)
      <4> DEFINE none == <<>>
      <4>1. none \in Seq(AnyCommand)  OBVIOUS
      <4> HIDE DEF none
      <4>2. [worker EXCEPT !.link = "readmitted", !.receipts = none] \in Worker  BY <1>0, <4>1 DEF Worker
      <4>3. r \in Worker  BY <4>2 DEF none
      <4> QED  BY <1>0, <4>3 DEF Cut, Worker, Serves
    <3>2. toBridge' = toBridge /\ UNCHANGED asked  BY <1>0, <2>1, <2>4 DEF Becomes, Worker, Serves
    <3> HIDE DEF r
    <3> QED  BY <1>0, <2>4, <3>1, <3>2, CutStep
  <2> QED  BY <2>1, <2>3, <2>4 DEF Becomes
<1> QED  BY <1>1, <1>2, <1>3, <1>4, <1>5, <1>6, <1>7, <1>8, <1>9

\* A fault leaves the commands alone, unless the process stops.
LEMMA Faults ==
  ASSUME TypeOK, IInv, NEW r, Faulty(r), r.failed \in BOOLEAN, worker.process = r.process,
         Outcome(worker, r, worker.transfer.command)
  PROVE  TypeOK' /\ IInv' /\ (Sealed => SealsTheTruth)
<1>1. Serving /\ worker' = r /\ UNCHANGED asked
      /\ toBridge' = (IF worker'.failed \/ worker'.process = "ended" THEN <<>> ELSE toBridge)
  BY DEF Faulty, Serving
<1> QED  BY <1>1, OwnStep, SealedTruth

LEMMA FaultStep ==
  ASSUME TypeOK, IInv, ForeignPause \/ ForeignResume \/ ChangesPaused \/ SceneEnds \/ connection_lost
  PROVE  TypeOK' /\ IInv' /\ (Sealed => SealsTheTruth)
<1>0. /\ Serving /\ Serves(worker) /\ worker \in Worker /\ BridgeOK(worker)
      /\ worker.pause \in Pause /\ worker.game \in Game
  BY DEF TypeOK, IInv, Serving, Serves, ForeignPause, ForeignResume, ChangesPaused, SceneEnds, connection_lost,
         Faulty, Worker
<1>1. ASSUME NEW p \in Pause, NEW g \in Game, p.owns => worker.pause.owns,
             worker.pause.phase \in {"measured", "rejected"} => p.phase \in {"measured", "rejected"},
             g.same \subseteq worker.game.same,
             "world_at_seal" \in worker.game.same => ("world_at_seal" \in g.same \/ "world_at_window" \notin g.same),
             Faulty([worker EXCEPT !.pause = p, !.game = g])
      PROVE  TypeOK' /\ IInv' /\ (Sealed => SealsTheTruth)
  <2> DEFINE r == [worker EXCEPT !.pause = p, !.game = g]
  <2>1. /\ r \in Worker /\ Serves(r) /\ Same(worker, r) /\ r.pause = p /\ r.game = g
        /\ r.failed \in BOOLEAN /\ worker.process = r.process
    BY <1>0, <1>1 DEF Worker, Serves, Same
  <2>2. Faulty(r)  BY <1>1
  <2> HIDE DEF r
  <2>3. Outcome(worker, r, worker.transfer.command)  BY <1>0, <1>1, <2>1, Moving
  <2> QED  BY <2>1, <2>2, <2>3, Faults
<1>2. CASE ForeignPause
  <2>1. PICK seen \in BOOLEAN :
          Faulty([worker EXCEPT !.pause = pause_hook(@, seen), !.game.count = @ + 1, !.game.foreign = @ + 1])
    BY <1>2 DEF ForeignPause
  <2> DEFINE p == pause_hook(worker.pause, seen)
             g == [worker.game EXCEPT !.count = worker.game.count + 1, !.foreign = worker.game.foreign + 1]
  <2>2. /\ p \in Pause /\ p.owns = worker.pause.owns /\ p.phase \in {worker.pause.phase, "rejected"}
        /\ g \in Game /\ g.same = worker.game.same
    <3>1. g \in Game /\ g.same = worker.game.same
      <4>1. worker.game.count \in Int /\ worker.game.foreign \in Int  BY <1>0 DEF Game
      <4> DEFINE n == worker.game.count + 1
                 m == worker.game.foreign + 1
      <4>2. n \in Int /\ m \in Int  BY <4>1
      <4> HIDE DEF n, m
      <4>3. [worker.game EXCEPT !.count = n, !.foreign = m] \in Game  BY <1>0, <4>2 DEF Game
      <4>4. [worker.game EXCEPT !.count = n, !.foreign = m].same = worker.game.same  BY <1>0 DEF Game
      <4> QED  BY <4>3, <4>4 DEF n, m
    <3>2. p \in Pause /\ p.owns = worker.pause.owns /\ p.phase \in {worker.pause.phase, "rejected"}
      BY <1>0 DEF pause_hook, reject, Pause, Phase
    <3> QED  BY <3>1, <3>2
  <2>3. Faulty([worker EXCEPT !.pause = p, !.game = g])
    <3>1. [worker EXCEPT !.pause = pause_hook(@, seen), !.game.count = @ + 1, !.game.foreign = @ + 1]
            = [worker EXCEPT !.pause = p, !.game = g]
      BY <1>0 DEF Worker, Game
    <3> QED  BY <2>1, <3>1
  <2> HIDE DEF p, g
  <2> QED  BY <1>1, <2>2, <2>3
<1>3. CASE ForeignResume
  <2>1. PICK seen \in BOOLEAN :
          Faulty([worker EXCEPT !.pause = resume_hook(@, worker.game, seen), !.game.count = @ - 1,
                                !.game.foreign = @ - 1])
    BY <1>3 DEF ForeignResume
  <2> DEFINE p == resume_hook(worker.pause, worker.game, seen)
             g == [worker.game EXCEPT !.count = worker.game.count - 1, !.foreign = worker.game.foreign - 1]
  <2>2. /\ p \in Pause /\ (p.owns => worker.pause.owns) /\ p.phase \in {worker.pause.phase, "rejected"}
        /\ g \in Game /\ g.same = worker.game.same
    <3>1. g \in Game /\ g.same = worker.game.same
      <4>1. worker.game.count \in Int /\ worker.game.foreign \in Int  BY <1>0 DEF Game
      <4> DEFINE n == worker.game.count - 1
                 m == worker.game.foreign - 1
      <4>2. n \in Int /\ m \in Int  BY <4>1
      <4> HIDE DEF n, m
      <4>3. [worker.game EXCEPT !.count = n, !.foreign = m] \in Game  BY <1>0, <4>2 DEF Game
      <4>4. [worker.game EXCEPT !.count = n, !.foreign = m].same = worker.game.same  BY <1>0 DEF Game
      <4> QED  BY <4>3, <4>4 DEF n, m
    <3>2. p \in Pause /\ (p.owns => worker.pause.owns) /\ p.phase \in {worker.pause.phase, "rejected"}
      BY <1>0 DEF resume_hook, reject, Pause, Phase
    <3> QED  BY <3>1, <3>2
  <2>3. Faulty([worker EXCEPT !.pause = p, !.game = g])
    <3>1. [worker EXCEPT !.pause = resume_hook(@, worker.game, seen), !.game.count = @ - 1, !.game.foreign = @ - 1]
            = [worker EXCEPT !.pause = p, !.game = g]
      BY <1>0 DEF Worker, Game
    <3> QED  BY <2>1, <3>1
  <2> HIDE DEF p, g
  <2> QED  BY <1>1, <2>2, <2>3
<1>4. CASE ChangesPaused \/ SceneEnds
  <2>1. \E g \in Game : /\ g.same \subseteq worker.game.same
                        /\ g.same = worker.game.same \/ "world_at_window" \notin g.same
                        /\ Faulty([worker EXCEPT !.pause = worker.pause, !.game = g])
    <3> DEFINE changed == [worker.game EXCEPT !.same = @ \ WorldReference]
               ended == [worker.game EXCEPT !.scene = FALSE]
    <3>1. /\ changed \in Game /\ changed.same \subseteq worker.game.same /\ "world_at_window" \notin changed.same
          /\ ended \in Game /\ ended.same = worker.game.same
      BY <1>0 DEF Game, WorldReference
    <3>2. /\ Changed(worker) = [worker EXCEPT !.pause = worker.pause, !.game = changed]
          /\ [worker EXCEPT !.game.scene = FALSE] = [worker EXCEPT !.pause = worker.pause, !.game = ended]
      BY <1>0 DEF Changed, Worker, Game
    <3> HIDE DEF changed, ended
    <3> QED  BY <1>4, <3>1, <3>2 DEF ChangesPaused, SceneEnds
  <2> QED  BY <1>0, <1>1, <2>1
<1>5. CASE connection_lost /\ Faulty(quarantine(worker))
  <2> DEFINE r == quarantine(worker)
  <2>1. Outcome(worker, r, worker.transfer.command)  BY <1>0, Stops DEF Outcome
  <2>2. r.failed \in BOOLEAN /\ worker.process = r.process  BY <1>0 DEF quarantine, Worker
  <2>3. Faulty(r)  BY <1>5
  <2> HIDE DEF r
  <2> QED  BY <2>1, <2>2, <2>3, Faults
<1>6. CASE connection_lost /\ ~Faulty(quarantine(worker))
  <2> DEFINE r == [worker EXCEPT !.link = "retrying", !.ready = FALSE, !.inputs = FALSE]
  <2>1. worker' = r /\ toBridge' = <<>> /\ UNCHANGED asked  BY <1>6 DEF connection_lost
  <2>2. Cut(worker, r)  BY <1>0 DEF Cut, Worker, Serves
  <2> HIDE DEF r
  <2> QED  BY <1>0, <2>1, <2>2, CutStep
<1> QED  BY <1>2, <1>3, <1>4, <1>5, <1>6

\* The coordinator's steps; a command of the same transfer outranks the last.
LEMMA CoordinatorStep ==
  ASSUME TypeOK, IInv, request_native_transfer \/ request_phase \/ Repeats
  PROVE  TypeOK' /\ IInv' /\ ~Sealed
<1>0. /\ Serving /\ asked.command \in AnyCommand /\ AskedOK
      /\ asked.command.id = 0 => asked.answered
  BY DEF TypeOK, IInv, request_native_transfer, request_phase, Repeats, Reachable, Serving, AskedOK, NoCommand
<1>1. ~Sealed
  <2>0. worker.receipts \in Seq(AnyCommand)  BY DEF TypeOK, Worker
  <2>1. Len(worker.receipts) \in Nat  BY <2>0
  <2>2. worker' = worker  BY DEF request_native_transfer, request_phase, Repeats, Commands
  <2> QED  BY <2>1, <2>2 DEF Sealed
<1>2. CASE request_native_transfer
  <2>1. PICK op \in Op, slot \in {1, 2} :
          Commands([id |-> asked.command.id + 1, op |-> op, slot |-> slot, baseline |-> worker.baseline],
                   "transfers")
    BY <1>2 DEF request_native_transfer
  <2> DEFINE c == [id |-> asked.command.id + 1, op |-> op, slot |-> slot, baseline |-> worker.baseline]
  <2>2. Given(c) /\ c.id # 0 /\ c.id = asked.command.id + 1
    BY <1>0 DEF Given, AnyCommand, TypeOK, Worker
  <2>3. Commands(c, "transfers")  BY <2>1
  <2> HIDE DEF c
  <2>4. asked.answered  BY <1>2 DEF request_native_transfer
  <2> QED  BY <1>0, <1>1, <2>2, <2>3, <2>4, GivesCommand DEF Commands
<1>3. CASE request_phase
  <2>1. PICK op \in Op : Continues(op) /\ Commands([asked.command EXCEPT !.op = op], "transfers")
    BY <1>3 DEF request_phase
  <2> DEFINE c == [asked.command EXCEPT !.op = op]
  <2>0. asked.command.id # 0 /\ asked.command.slot \in {1, 2}
    BY <1>0, <1>3 DEF request_phase, AskedOK, NoCommand
  <2>2. Given(c) /\ c.id # 0 /\ c.id = asked.command.id /\ c.slot = asked.command.slot /\ c.op = op
    BY <1>0, <2>0 DEF Given, AnyCommand
  <2>3. Commands(c, "transfers")  BY <2>1
  <2>4. Rank(asked.command.op) < Rank(op)  BY <2>1 DEF Continues, Rank
  <2> HIDE DEF c
  <2> QED  BY <1>0, <1>1, <2>2, <2>3, <2>4, GivesCommand DEF Commands
<1>4. CASE Repeats
  <2>1. Commands(asked.command, "repeats") /\ ~asked.answered  BY <1>4 DEF Repeats
  <2>2. Given(asked.command) /\ asked.command.id # 0
    BY <1>0, <2>1 DEF Given, AskedOK, AnyCommand, NoCommand
  <2> QED  BY <1>0, <1>1, <2>1, <2>2, GivesCommand DEF Commands
<1> QED  BY <1>2, <1>3, <1>4

LEMMA ReceiveStep ==
  ASSUME TypeOK, IInv, Receives
  PROVE  TypeOK' /\ IInv' /\ (Sealed => SealsTheTruth)
<1> DEFINE c == Head(toBridge)
<1>0. /\ Serving /\ Serves(worker) /\ worker \in Worker /\ BridgeOK(worker) /\ InFlight
      /\ toBridge \in Seq(AnyCommand) /\ toBridge # <<>> /\ worker.link = "welcomed"
  BY DEF TypeOK, IInv, Serving, Serves, Receives
<1>1. 1 \in 1..Len(toBridge) /\ c = toBridge[1] /\ c \in AnyCommand  BY <1>0
<1> HIDE DEF c
<1>2. Given(c) /\ (c.id = worker.transfer.command.id => c.slot = worker.transfer.command.slot)
  BY <1>0, <1>1 DEF InFlight, Given, AnyCommand
<1>3. worker' \in receive_transfer(worker, c)  BY DEF Receives, c
<1>4. Outcome(worker, worker', c)  BY <1>0, <1>2, <1>3, ReceivesCommand
<1>5. TypeOK' /\ IInv'  BY <1>0, <1>4, CommandStep DEF Receives, c
<1> QED  BY <1>4, <1>5, SealedTruth

\* The invariant is inductive, and no step seals a receipt that is not true.
LEMMA NextStep ==
  ASSUME TypeOK, IInv, [Next]_vars
  PROVE  TypeOK' /\ IInv' /\ (Sealed => SealsTheTruth)
<1>1. CASE \/ Starts \/ receive_welcome \/ Updates \/ TimesOut \/ Measures \/ Frame \/ publish_scene
           \/ receive_reject \/ retry_connection
  BY <1>1, ProcessStep
<1>2. CASE Receives  BY <1>2, ReceiveStep
<1>3. CASE ForeignPause \/ ForeignResume \/ ChangesPaused \/ SceneEnds \/ connection_lost
  BY <1>3, FaultStep
<1>4. CASE request_native_transfer \/ request_phase \/ Repeats  BY <1>4, CoordinatorStep
<1>5. CASE observe_native_receipt  BY <1>5, Observes
<1>6. CASE UNCHANGED vars
  <2>1. TypeOK' /\ IInv'
    BY <1>6 DEF vars, TypeOK, IInv, Serving, AllKnown, InFlight, Order, Taken, AnswersHold, AskedOK
  <2>2. ~Sealed  BY <1>6 DEF vars, Sealed, TypeOK, Worker
  <2> QED  BY <2>1, <2>2
<1> QED  BY <1>1, <1>2, <1>3, <1>4, <1>5, <1>6 DEF Next

-----------------------------------------------------------------------------
(* The theorems.                                                           *)

\* The types of the process, of the queue and of the coordinator's record,
\* and the inductive invariant.
THEOREM TransferInvariant == Spec => [](TypeOK /\ IInv)
<1>1. Init => TypeOK /\ IInv  BY Starting
<1>2. TypeOK /\ IInv /\ [Next]_vars => (TypeOK /\ IInv)'  BY NextStep
<1> QED  BY <1>1, <1>2, PTL DEF Spec

\* However often its commands are given again, and whatever is done to the
\* pause: what the coordinator was last told of the second player is so in
\* the game, and the bridge knows it (native_network.cpp:1255, 1330, 1590).
THEOREM OutcomeAlwaysHolds == Spec => []OutcomeHolds
<1>1. TypeOK /\ IInv => OutcomeHolds
  <2> SUFFICES ASSUME TypeOK, IInv, Serving PROVE OutcomeHolds  BY DEF OutcomeHolds
  <2>1. /\ BridgeOK(worker) /\ AnswersHold /\ AskedOK
        /\ worker.second \in BOOLEAN /\ worker.has_secondary \in BOOLEAN
    BY DEF IInv, TypeOK, Worker
  <2>2. worker.has_secondary = worker.second  BY <2>1 DEF BridgeOK, SecondKnown
  <2>3. ASSUME asked.answered, asked.command.slot = 2
        PROVE  worker.second = (asked.command.op \notin {"destination_discard", "source_cleanup"})
    <3>1. worker.transfer.command = asked.command /\ asked.command.id # 0
      BY <2>1, <2>3 DEF AnswersHold, Taken, AskedOK, NoCommand
    <3>2. worker.transfer.receipt_ready  BY <2>1, <2>3, <3>1 DEF AnswersHold
    <3>3. worker.second <=> asked.command.op \notin Removing
      BY <2>1, <2>3, <3>1, <3>2 DEF BridgeOK, ReceiptHolds
    <3> QED  BY <2>1, <3>3, Zenon DEF Removing
  <2> QED  BY <2>2, <2>3 DEF OutcomeHolds
<1> QED  BY <1>1, TransferInvariant, PTL

\* A receipt is sealed only over what it says: a held state under the bridge's
\* own pause with nothing moved, a kept source unchanged since its export, an
\* end only with the pause given back and the AI on its way again
\* (native_network.cpp:1146, 1305, 1430).
THEOREM ReceiptsAlwaysTrue == Spec => ReceiptsTellTheState
<1>1. TypeOK /\ IInv /\ [Next]_vars => [Sealed => SealsTheTruth]_vars  BY NextStep
<1> QED  BY <1>1, TransferInvariant, PTL DEF Spec, ReceiptsTellTheState

-----------------------------------------------------------------------------
(***************************************************************************)
(* The supervisor and its control pipe.                                    *)
(***************************************************************************)

\* What a supervisor, an engine, a message and a tool are.
ToolOp == {"status", "shutdown", "save", "load", "act"}
ToolCommand == {NothingAsked} \cup [tool : Tool, op : ToolOp, epoch : 0..MaxEpoch]
ToolOutcome == {"accepted", "stale", "busy", "unavailable", "failed"}
Answers == [command : ToolCommand, result : ToolOutcome \cup {"none"}, local : BOOLEAN]

Control == [client : Tool \cup {Nobody}, request : Seq(ToolCommand), answer : Seq(Answers),
            closed : BOOLEAN]

Supervisor ==
  [heardOf : BOOLEAN, heartbeat : {"fresh", "stale", "lost"},
   enginePipe : {"open", "broken", "lost"}, lease : {"none", "running", "over"},
   pending : ToolCommand, asker : BOOLEAN, asked : {"fresh", "over"},
   control : Control, connected : BOOLEAN, reply : Answers, ready : BOOLEAN, sent : BOOLEAN,
   requested : BOOLEAN, stopping : {"fresh", "over"}, failed : BOOLEAN,
   toEngine : Seq(ToolCommand)]

Engine ==
  [code : {"none", "zero", "crash", "terminated"}, quitting : BOOLEAN, epoch : 1..MaxEpoch,
   scene : BOOLEAN,
   persistence : {"idle", "save_pending", "saving", "saved", "load_pending", "loading",
                  "loaded", "failed", "torn"},
   at : 0..MaxEpoch, seen : 0..MaxEpoch]

Message == [kind : {"status", "lease", "failed"}]
           \cup [kind : {"reply"}, command : ToolCommand \ {NothingAsked}, result : ToolOutcome]

ToolRecord == [state : {"idle", "waiting", "done"}, command : ToolCommand]

ControlTypeOK ==
  /\ sup \in Supervisor /\ host \in {"running", "draining", "ended"} /\ engine \in Engine
  /\ fromEngine \in Seq(Message) /\ tools \in [Tool -> ToolRecord]
  /\ served \in [Tool -> ToolOutcome \cup {"no"}]
  /\ published \in {"starting", "stopped_forced", "stopped", "crashed"}

-----------------------------------------------------------------------------
(* The invariant, said of what tools know, `T`, and what the engine has      *)
(* answered those that wait, `V`.                                            *)

Waits(T, t) == T[t].state = "waiting"

\* A command is known by its tool: it is the one that tool has asked.
AskedBy(command, T) ==
  /\ command.tool \in Tool /\ T[command.tool].state # "idle"
  /\ Waits(T, command.tool) => command = T[command.tool].command

\* If the tool waits, this is what the engine has answered it.
Stands(t, result, T, V) == Waits(T, t) => V[t] = result

TellsTrue(answer, t, T, V) ==
  Waits(T, t) =>
    /\ answer.command = T[t].command
    /\ ~answer.local => V[t] = answer.result
    /\ answer.local /\ answer.result # "accepted" => V[t] = "no"

ToolsOK(T, V) ==
  \A t \in Tool : IF Waits(T, t) THEN T[t].command.tool = t ELSE V[t] = "no"

\* The replies that are left after the first `n` messages.
Replies(messages, n) == {i \in n + 1..Len(messages) : messages[i].kind = "reply"}

\* The one command in flight: still to be read by the engine, or its reply is
\* among the messages to come, or lost.
FlightOK(s, unread, messages, n, T, V) ==
  /\ s.pending # NothingAsked => AskedBy(s.pending, T)
  /\ s.asker => s.pending # NothingAsked
  /\ unread # <<>> =>
       unread = <<s.pending>> /\ s.pending # NothingAsked /\ Stands(s.pending.tool, "no", T, V)
  /\ \A i \in Replies(messages, n) :
       /\ unread = <<>> /\ messages[i].command = s.pending
       /\ Stands(s.pending.tool, messages[i].result, T, V)
       /\ \A j \in Replies(messages, n) : j = i

Unused(s) == ~s.ready /\ ~s.sent /\ s.control.answer = <<>>

\* The connection is its client's alone, and at one stage: asked, in flight,
\* answered.
RequestOK(s, T, V) ==
  s.control.request # <<>> =>
    LET command == Head(s.control.request) IN
    /\ s.control.request = <<command>>
    /\ Unused(s) /\ ~s.asker /\ s.pending.tool # s.control.client
    /\ command.tool = s.control.client /\ AskedBy(command, T)
    /\ Stands(s.control.client, "no", T, V)

AnswersOK(s, T, V) ==
  /\ s.asker => Unused(s) /\ s.pending.tool = s.control.client
  /\ s.ready \/ s.sent => s.pending.tool # s.control.client
  /\ s.ready /\ ~s.sent => TellsTrue(s.reply, s.control.client, T, V)
  /\ s.control.answer # <<>> => s.sent /\ TellsTrue(Head(s.control.answer), s.control.client, T, V)

ClientOK(s, T) ==
  IF s.control.client = Nobody
  THEN Unused(s) /\ ~s.connected /\ ~s.asker /\ s.control.request = <<>>
  ELSE T[s.control.client].state # "idle"

SupOK(s, unread, messages, n, T, V) ==
  /\ s \in Supervisor /\ FlightOK(s, unread, messages, n, T, V)
  /\ RequestOK(s, T, V) /\ AnswersOK(s, T, V) /\ ClientOK(s, T)

ControlInv ==
  /\ ControlTypeOK /\ ToolsOK(tools, served)
  /\ SupOK(sup, sup.toEngine, fromEngine, 0, tools, served)
  /\ host = "ended" => sup = NewSupervisor

-----------------------------------------------------------------------------
(* What is received in turn is a function defined by recursion.  That there  *)
(* is one, and what holds of each of its values, is shown by the least       *)
(* number for which it would fail.                                           *)

\* A set of numbers that is not empty has a least one.
LEMMA LeastNumber ==
  ASSUME NEW S, S \subseteq Nat, S # {}
  PROVE  \E m \in S : \A k \in S : m <= k
<1>1. \E m \in S : \A k \in S : ~(<<k, m>> \in OpToRel(<, Nat))
  BY WFMin, NatLessThanWellFounded, Zenon
<1>2. \A k, m \in Nat : ~(<<k, m>> \in OpToRel(<, Nat)) => ~(k < m)
  BY Zenon DEF OpToRel
<1>3. \E m \in S : \A k \in S : ~(k < m)
  BY <1>1, <1>2, Zenon
<1> QED BY <1>3

\* A set with 0 and the successor of each of its numbers has them all.
LEMMA Numbered ==
  ASSUME NEW S, 0 \in S, \A k \in Nat : k \in S => k + 1 \in S
  PROVE  Nat \subseteq S
<1> SUFFICES ASSUME NEW x \in Nat, x \notin S PROVE FALSE  OBVIOUS
<1> DEFINE Fails == {k \in Nat : k \notin S}
<1>1. PICK m \in Fails : \A k \in Fails : m <= k
  <2>1. Fails \subseteq Nat /\ Fails # {}  OBVIOUS
  <2> HIDE DEF Fails
  <2> QED BY <2>1, LeastNumber
<1>2. m # 0 /\ m - 1 \in Nat  OBVIOUS
<1>3. m - 1 \in S  BY <1>1, <1>2
<1> QED BY <1>2, <1>3

\* What receive_engine's loop has made of the supervisor after each message.
LEMMA ReceivingExists ==
  ASSUME NEW s, NEW messages, Len(messages) \in Nat
  PROVE  /\ receiving(s, messages)[0] = Goes(s)
         /\ \A n \in 1..Len(messages) :
              LET step == receiving(s, messages)[n - 1] IN
              receiving(s, messages)[n] =
                IF step.goes THEN accept_engine_message(step.s, messages[n]) ELSE step
<1> DEFINE Then(step, n) == IF step.goes THEN accept_engine_message(step.s, messages[n]) ELSE step
           Takes(f, m) == f = [n \in 0..m |-> IF n = 0 THEN Goes(s) ELSE Then(f[n - 1], n)]
           Reached == {m \in Nat : \E f : Takes(f, m)}
<1> HIDE DEF Then
<1>1. 0 \in Reached
  <2>1. Takes([n \in 0..0 |-> Goes(s)], 0)  OBVIOUS
  <2> QED BY <2>1
<1>2. ASSUME NEW m \in Nat, m \in Reached PROVE m + 1 \in Reached
  <2>1. PICK f : Takes(f, m)  BY <1>2
  <2> DEFINE g == [n \in 0..(m + 1) |-> IF n = m + 1 THEN Then(f[m], n) ELSE f[n]]
  <2>2. \A n \in 0..(m + 1) : g[n] = IF n = 0 THEN Goes(s) ELSE Then(g[n - 1], n)
    <3> SUFFICES ASSUME NEW n \in 0..(m + 1)
                 PROVE  g[n] = IF n = 0 THEN Goes(s) ELSE Then(g[n - 1], n)
      OBVIOUS
    <3>1. CASE n = 0  BY <2>1, <3>1
    <3>2. CASE n = m + 1
      <4>1. n # 0 /\ n - 1 = m /\ n - 1 \in 0..(m + 1) /\ n - 1 # m + 1  BY <3>2
      <4> QED BY <3>2, <4>1
    <3>3. CASE n # 0 /\ n # m + 1
      <4>1. n \in 0..m /\ n - 1 \in 0..(m + 1) /\ n - 1 # m + 1  BY <3>3
      <4>2. g[n] = f[n] /\ g[n - 1] = f[n - 1]  BY <3>3, <4>1
      <4>3. f[n] = Then(f[n - 1], n)  BY <2>1, <3>3, <4>1
      <4> QED BY <3>3, <4>2, <4>3
    <3> QED BY <3>1, <3>2, <3>3
  <2>3. Takes(g, m + 1)
    <3> HIDE DEF g
    <3>1. g = [n \in 0..(m + 1) |-> g[n]]  BY DEF g
    <3> QED BY <2>2, <3>1
  <2> HIDE DEF Takes, g
  <2>4. \E h : Takes(h, m + 1)  BY <2>3
  <2> QED BY <2>4
<1>3. Nat \subseteq Reached
  <2> HIDE DEF Reached
  <2> QED BY <1>1, <1>2, Numbered
<1>4. \E f : Takes(f, Len(messages))  BY <1>3
<1>5. Takes(receiving(s, messages), Len(messages))
  BY <1>4 DEF receiving, Then
<1>6. \A n \in 0..Len(messages) :
        receiving(s, messages)[n] = IF n = 0 THEN Goes(s) ELSE Then(receiving(s, messages)[n - 1], n)
  <2> HIDE DEF Then
  <2> QED BY <1>5
<1>7. 0 \in 0..Len(messages) /\ \A n \in 1..Len(messages) : n \in 0..Len(messages) /\ n # 0
  OBVIOUS
<1> QED BY <1>6, <1>7 DEF Then

-----------------------------------------------------------------------------
(* The stages of a tick.                                                     *)

\* No command is no tool's.
LEMMA NothingFacts ==
  /\ NothingAsked.tool = Nobody /\ Nobody \notin Tool /\ NothingAsked \in ToolCommand
  /\ \A c \in ToolCommand : c # NothingAsked <=> c.tool \in Tool
  /\ \A c \in ToolCommand : c.tool \in Tool \cup {Nobody}
  BY WorkerConstants DEF NothingAsked, ToolCommand, Nobody

\* What the tools' part of the invariant looks at.
SameWork(s, r) ==
  /\ r.pending = s.pending /\ r.asker = s.asker /\ r.control = s.control
  /\ r.reply = s.reply /\ r.ready = s.ready /\ r.sent = s.sent

\* A stage that leaves the command in flight and the connection alone.
LEMMA SameWorkOK ==
  ASSUME NEW T, NEW V, NEW s, NEW r \in Supervisor, NEW unread, NEW messages, NEW n,
         SupOK(s, unread, messages, n, T, V), SameWork(s, r),
         r.connected = s.connected \/ r.control.client # Nobody
  PROVE  SupOK(r, unread, messages, n, T, V)
<1>1. FlightOK(r, unread, messages, n, T, V)  BY DEF SupOK, SameWork, FlightOK
<1>2. RequestOK(r, T, V)  BY DEF SupOK, SameWork, RequestOK, Unused
<1>3. AnswersOK(r, T, V)  BY DEF SupOK, SameWork, AnswersOK, Unused
<1>4. ClientOK(r, T)  BY DEF SupOK, SameWork, ClientOK, Unused
<1> QED BY <1>1, <1>2, <1>3, <1>4 DEF SupOK

\* What holds with messages to come holds with fewer.
LEMMA FewerMessages ==
  ASSUME NEW T, NEW V, NEW s, NEW unread, NEW messages, NEW n \in Nat, NEW m \in Nat, n <= m,
         Len(messages) \in Nat, SupOK(s, unread, messages, n, T, V)
  PROVE  SupOK(s, unread, messages, m, T, V)
<1>1. Replies(messages, m) \subseteq Replies(messages, n)  BY DEF Replies
<1> QED BY <1>1 DEF SupOK, FlightOK

\* With no message there is no reply to come.
LEMMA NoMessages ==
  ASSUME NEW T, NEW V, NEW s, NEW unread, NEW messages, Len(messages) \in Nat,
         SupOK(s, unread, messages, Len(messages), T, V)
  PROVE  SupOK(s, unread, <<>>, 0, T, V)
<1>1. Replies(<<>>, 0) = {}  BY DEF Replies
<1> QED BY <1>1 DEF SupOK, FlightOK

\* stop: the worker is to end, and its commands stand.
LEMMA StopOK ==
  ASSUME NEW T, NEW V, NEW s, NEW unread, NEW messages, NEW n, SupOK(s, unread, messages, n, T, V)
  PROVE  /\ SupOK(stop(s), unread, messages, n, T, V)
         /\ stop(s).toEngine = s.toEngine
<1>1. s \in Supervisor  BY DEF SupOK
<1>2. stop(s) \in Supervisor /\ SameWork(s, stop(s)) /\ stop(s).connected = s.connected
      /\ stop(s).toEngine = s.toEngine
  BY <1>1 DEF stop, Supervisor, SameWork
<1> QED BY <1>2, SameWorkOK

\* A connection that is over leaves the command in flight alone.
LEMMA NewControlOK ==
  ASSUME NEW T, NEW V, NEW s, NEW unread, NEW messages, NEW n, SupOK(s, unread, messages, n, T, V)
  PROVE  /\ SupOK(new_control(s), unread, messages, n, T, V)
         /\ new_control(s).toEngine = s.toEngine
<1> DEFINE r == new_control(s)
<1>1. s \in Supervisor  BY DEF SupOK
<1>2. NewControl \in Control /\ NoAnswer \in Answers
  BY NothingFacts DEF NewControl, Control, NoAnswer, Answer, Answers
<1>3. /\ r \in Supervisor /\ r.pending = s.pending /\ ~r.asker /\ r.control = NewControl
      /\ ~r.connected /\ ~r.ready /\ ~r.sent /\ r.toEngine = s.toEngine
  BY <1>1, <1>2 DEF new_control, Supervisor
<1>4. /\ r.control.client = Nobody /\ r.control.request = <<>> /\ r.control.answer = <<>>
  BY <1>3 DEF NewControl
<1> HIDE DEF r
<1>5. FlightOK(r, unread, messages, n, T, V)  BY <1>3 DEF SupOK, FlightOK
<1>6. RequestOK(r, T, V) /\ AnswersOK(r, T, V) /\ ClientOK(r, T)
  BY <1>3, <1>4 DEF RequestOK, AnswersOK, ClientOK, Unused
<1>7. SupOK(r, unread, messages, n, T, V)  BY <1>3, <1>5, <1>6 DEF SupOK
<1> QED BY <1>3, <1>7 DEF r

\* accept_reply: the reply to come is the one told, to the client that asked.
LEMMA AcceptReplyOK ==
  ASSUME NEW T, NEW V, NEW s, NEW unread, NEW messages \in Seq(Message), NEW n \in Nat,
         n < Len(messages), messages[n + 1].kind = "reply",
         SupOK(s, unread, messages, n, T, V)
  PROVE  LET step == accept_reply(s, messages[n + 1]) IN
         /\ SupOK(step.s, unread, messages, n + 1, T, V)
         /\ step.s.toEngine = s.toEngine /\ step.goes \in BOOLEAN
<1> DEFINE message == messages[n + 1]
           step == accept_reply(s, message)
<1>1. n + 1 \in 1..Len(messages) /\ Len(messages) \in Nat /\ message \in Message  OBVIOUS
<1>2. /\ unread = <<>> /\ message.command = s.pending
      /\ Stands(s.pending.tool, message.result, T, V)
      /\ \A j \in Replies(messages, n) : j = n + 1
  BY <1>1 DEF SupOK, FlightOK, Replies
<1>3. Replies(messages, n + 1) = {}  BY <1>1, <1>2 DEF Replies
<1>4. CASE ~Pending(s) \/ message.command # s.pending
  <2>1. step = Ends(stop(s))  BY <1>4 DEF accept_reply
  <2>2. step.s = stop(s) /\ step.goes = FALSE  BY <2>1 DEF Ends
  <2>3. n + 1 \in Nat /\ n <= n + 1  OBVIOUS
  <2>4. SupOK(s, unread, messages, n + 1, T, V)  BY <1>1, <2>3, FewerMessages
  <2>5. SupOK(stop(s), unread, messages, n + 1, T, V) /\ stop(s).toEngine = s.toEngine
    BY <2>4, StopOK
  <2> QED BY <2>2, <2>5
<1>5. CASE Pending(s) /\ message.command = s.pending
  <2> DEFINE mine == s.asker /\ s.connected
             told == IF mine THEN Answer(message.command, message.result, FALSE) ELSE s.reply
             r == [s EXCEPT !.reply = told,
                            !.ready = @ \/ mine, !.pending = NothingAsked, !.asked = "fresh", !.asker = FALSE]
  <2>1. step.s = r /\ step.goes = TRUE  BY <1>5 DEF accept_reply, Goes
  <2>2. s \in Supervisor /\ mine \in BOOLEAN  BY DEF SupOK, Supervisor
  <2>3. message.command \in ToolCommand /\ message.result \in ToolOutcome
    BY <1>1 DEF Message
  <2>4. Answer(message.command, message.result, FALSE) \in Answers
    BY <2>3 DEF Answer, Answers
  <2>5. /\ r \in Supervisor /\ r.pending = NothingAsked /\ ~r.asker /\ r.control = s.control
        /\ r.connected = s.connected /\ r.sent = s.sent /\ r.toEngine = s.toEngine
        /\ r.ready = (s.ready \/ mine)
        /\ r.reply = told
    <3>1. told \in Answers  BY <2>2, <2>4 DEF Supervisor
    <3> HIDE DEF mine, told
    <3> QED BY <2>2, <3>1, NothingFacts DEF Supervisor
  <2> HIDE DEF r
  <2>6. FlightOK(r, unread, messages, n + 1, T, V)
    BY <1>2, <1>3, <2>5 DEF FlightOK
  <2>7. s.pending # NothingAsked /\ AskedBy(s.pending, T) /\ s.pending.tool \in Tool
    BY <1>5 DEF Pending, SupOK, FlightOK, AskedBy
  <2>8. CASE ~mine
    <3>1. RequestOK(r, T, V)
      BY <2>5, <2>8, NothingFacts, WorkerConstants DEF SupOK, RequestOK, Unused, AskedBy
    <3>2. AnswersOK(r, T, V)
      <4>1. s.ready \/ s.sent => s.control.client # Nobody  BY DEF SupOK, ClientOK, Unused
      <4> QED BY <2>5, <2>8, <4>1, NothingFacts DEF SupOK, AnswersOK, TellsTrue
    <3>3. ClientOK(r, T)  BY <2>5, <2>8 DEF SupOK, ClientOK, Unused
    <3> QED BY <2>1, <2>5, <2>6, <3>1, <3>2, <3>3 DEF SupOK
  <2>9. CASE mine
    <3>1. /\ s.asker /\ Unused(s) /\ s.pending.tool = s.control.client
          /\ s.control.client \in Tool /\ s.control.client # Nobody
      BY <2>7, <2>9, NothingFacts DEF SupOK, AnswersOK
    <3>2. s.control.request = <<>>  BY <3>1 DEF SupOK, RequestOK
    <3>3. RequestOK(r, T, V)  BY <2>5, <3>2 DEF RequestOK
    <3>4. TellsTrue(r.reply, r.control.client, T, V)
      BY <1>2, <2>5, <2>7, <2>9, <3>1 DEF TellsTrue, Answer, AskedBy, Stands
    <3>5. AnswersOK(r, T, V)
      BY <2>5, <3>1, <3>4, NothingFacts DEF AnswersOK, Unused
    <3>6. ClientOK(r, T)  BY <2>5, <3>1 DEF SupOK, ClientOK
    <3> QED BY <2>1, <2>5, <2>6, <3>3, <3>5, <3>6 DEF SupOK
  <2> QED BY <2>8, <2>9
<1> QED BY <1>4, <1>5

\* accept_engine_message, for each kind of message.
LEMMA AcceptMessageOK ==
  ASSUME NEW T, NEW V, NEW s, NEW unread, NEW messages \in Seq(Message), NEW n \in Nat,
         n < Len(messages), SupOK(s, unread, messages, n, T, V)
  PROVE  LET step == accept_engine_message(s, messages[n + 1]) IN
         /\ SupOK(step.s, unread, messages, n + 1, T, V)
         /\ step.s.toEngine = s.toEngine /\ step.goes \in BOOLEAN
<1> DEFINE message == messages[n + 1]
           step == accept_engine_message(s, message)
           heard == [s EXCEPT !.heardOf = TRUE, !.heartbeat = "fresh"]
           leased == [heard EXCEPT !.lease = IF @ = "none" THEN "running" ELSE @]
<1>1. n + 1 \in 1..Len(messages) /\ Len(messages) \in Nat /\ n + 1 \in Nat /\ n <= n + 1
  OBVIOUS
<1>2. message.kind \in {"status", "lease", "failed", "reply"}
  BY <1>1 DEF Message
<1>3. s \in Supervisor /\ SupOK(s, unread, messages, n + 1, T, V)
  BY <1>1, FewerMessages DEF SupOK
<1>4. /\ heard \in Supervisor /\ SameWork(s, heard) /\ heard.connected = s.connected
      /\ heard.toEngine = s.toEngine
  BY <1>3 DEF Supervisor, SameWork
<1>5. /\ leased \in Supervisor /\ SameWork(s, leased) /\ leased.connected = s.connected
      /\ leased.toEngine = s.toEngine
  BY <1>3 DEF Supervisor, SameWork
<1>6. CASE message.kind = "failed"
  <2>1. step.s = stop(s) /\ step.goes = FALSE  BY <1>6 DEF accept_engine_message, Ends
  <2> QED BY <1>3, <2>1, StopOK
<1>7. CASE message.kind = "reply"
  <2>1. step = accept_reply(heard, message)  BY <1>7 DEF accept_engine_message
  <2> HIDE DEF heard
  <2>2. SupOK(heard, unread, messages, n, T, V)  BY <1>4, SameWorkOK
  <2> QED BY <1>4, <1>7, <2>1, <2>2, AcceptReplyOK
<1>8. CASE message.kind = "lease"
  <2>1. step.s = leased /\ step.goes = TRUE  BY <1>8 DEF accept_engine_message, Goes
  <2> HIDE DEF leased
  <2> QED BY <1>3, <1>5, <2>1, SameWorkOK
<1>9. CASE message.kind = "status"
  <2>1. step.s = heard /\ step.goes = TRUE  BY <1>9 DEF accept_engine_message, Goes
  <2> HIDE DEF heard
  <2> QED BY <1>3, <1>4, <2>1, SameWorkOK
<1> QED BY <1>2, <1>6, <1>7, <1>8, <1>9

\* receive_engine, message by message.
LEMMA ReceiveOK ==
  ASSUME NEW T, NEW V, NEW s, NEW unread, NEW messages \in Seq(Message),
         SupOK(s, unread, messages, 0, T, V)
  PROVE  LET step == receive_engine(s, messages) IN
         /\ SupOK(step.s, unread, <<>>, 0, T, V)
         /\ step.s.toEngine = s.toEngine /\ step.goes \in BOOLEAN
<1> DEFINE after == receiving(s, messages)
           OK(step, n) ==
             /\ SupOK(step.s, unread, messages, IF step.goes THEN n ELSE Len(messages), T, V)
             /\ step.s.toEngine = s.toEngine /\ step.goes \in BOOLEAN
           Received == {n \in Nat : n <= Len(messages) => OK(after[n], n)}
<1>1. Len(messages) \in Nat  OBVIOUS
<1>2. /\ after[0] = Goes(s)
      /\ \A n \in 1..Len(messages) :
           after[n] = IF after[n - 1].goes THEN accept_engine_message(after[n - 1].s, messages[n])
                                           ELSE after[n - 1]
  BY <1>1, ReceivingExists
<1> HIDE DEF after
<1>3. 0 \in Received
  <2>1. OK(after[0], 0)  BY <1>2 DEF Goes
  <2> QED BY <2>1
<1>4. ASSUME NEW n \in Nat, n \in Received PROVE n + 1 \in Received
  <2> SUFFICES ASSUME n + 1 <= Len(messages) PROVE OK(after[n + 1], n + 1)  OBVIOUS
  <2>1. n < Len(messages) /\ n + 1 \in 1..Len(messages) /\ (n + 1) - 1 = n /\ OK(after[n], n)
    BY <1>1, <1>4
  <2>2. after[n + 1] = IF after[n].goes THEN accept_engine_message(after[n].s, messages[n + 1])
                                        ELSE after[n]
    BY <1>2, <2>1
  <2>3. CASE after[n].goes
    <3> DEFINE step == accept_engine_message(after[n].s, messages[n + 1])
    <3>1. after[n + 1] = step  BY <2>2, <2>3
    <3>2. SupOK(after[n].s, unread, messages, n, T, V) /\ after[n].s.toEngine = s.toEngine
      BY <2>1, <2>3
    <3>3. /\ SupOK(step.s, unread, messages, n + 1, T, V)
          /\ step.s.toEngine = s.toEngine /\ step.goes \in BOOLEAN
      BY <2>1, <3>2, AcceptMessageOK
    <3>4. n + 1 \in Nat /\ n + 1 <= Len(messages)  BY <2>1
    <3> HIDE DEF step
    <3>5. SupOK(step.s, unread, messages, Len(messages), T, V)
      BY <1>1, <3>3, <3>4, FewerMessages
    <3> QED BY <3>1, <3>3, <3>5
  <2>4. CASE ~after[n].goes
    BY <2>1, <2>2, <2>4
  <2> QED BY <2>3, <2>4
<1>5. Len(messages) \in Received
  <2> HIDE DEF Received
  <2> QED BY <1>1, <1>3, <1>4, Numbered
<1>6. OK(after[Len(messages)], Len(messages))  BY <1>1, <1>5
<1>7. SupOK(after[Len(messages)].s, unread, messages, Len(messages), T, V)  BY <1>6
<1>8. SupOK(after[Len(messages)].s, unread, <<>>, 0, T, V)  BY <1>1, <1>7, NoMessages
<1>9. receive_engine(s, messages) = after[Len(messages)]  BY DEF receive_engine, after
<1> QED BY <1>6, <1>8, <1>9

\* A request that was taken from the connection and not answered yet.
InHand(s, command, T, V) ==
  /\ s \in Supervisor /\ s.pending = NothingAsked /\ ~s.asker /\ Unused(s)
  /\ s.control.request = <<>> /\ s.control.client = command.tool
  /\ command \in ToolCommand /\ AskedBy(command, T) /\ Stands(command.tool, "no", T, V)

\* A command answered by the supervisor itself was never served.
LEMMA AnsweredHere ==
  ASSUME NEW T, NEW V, NEW s, NEW command, NEW result \in ToolOutcome, InHand(s, command, T, V)
  PROVE  LET r == AnswerReady(s, command, result) IN
         SupOK(r, <<>>, <<>>, 0, T, V) /\ r.toEngine = s.toEngine
<1> DEFINE r == AnswerReady(s, command, result)
<1>1. Answer(command, result, TRUE) \in Answers  BY DEF InHand, Answer, Answers
<1>2. /\ r \in Supervisor /\ r.reply = Answer(command, result, TRUE) /\ r.ready
      /\ r.pending = NothingAsked /\ ~r.asker /\ r.control = s.control /\ ~r.sent
      /\ r.toEngine = s.toEngine
  BY <1>1 DEF InHand, AnswerReady, Supervisor, Unused
<1> HIDE DEF r
<1>3. r.control.client \in Tool /\ r.control.client # Nobody  BY <1>2, NothingFacts DEF InHand, AskedBy
<1>4. FlightOK(r, <<>>, <<>>, 0, T, V)  BY <1>2 DEF FlightOK, Replies
<1>5. RequestOK(r, T, V)  BY <1>2 DEF InHand, RequestOK
<1>6. TellsTrue(r.reply, r.control.client, T, V)
  BY <1>2 DEF InHand, TellsTrue, Answer, AskedBy, Stands
<1>7. AnswersOK(r, T, V)  BY <1>2, <1>3, <1>6, NothingFacts DEF InHand, AnswersOK, Unused
<1>8. ClientOK(r, T)  BY <1>2, <1>3 DEF InHand, ClientOK, AskedBy
<1> QED BY <1>2, <1>4, <1>5, <1>7, <1>8 DEF SupOK, r

\* What the engine's side knows of the command in flight after a stage.
Unread(s, unread) == IF s.toEngine = <<>> THEN unread ELSE s.toEngine

\* A command goes to the engine's pipe, which may be broken.
LEMMA ForwardOK ==
  ASSUME NEW T, NEW V, NEW s, NEW command, InHand(s, command, T, V), s.toEngine = <<>>
  PROVE  LET r == forward_to_engine(s, command) IN
         SupOK(r, Unread(r, <<>>), <<>>, 0, T, V)
<1> DEFINE r == forward_to_engine(s, command)
<1>1. CASE s.enginePipe # "open"
  <2> DEFINE x == [s EXCEPT !.enginePipe = "lost"]
  <2>1. InHand(x, command, T, V) /\ x.toEngine = <<>>
    BY DEF InHand, Unused, Supervisor
  <2>2. r = AnswerReady(x, command, "failed")  BY <1>1 DEF forward_to_engine
  <2>3. "failed" \in ToolOutcome  BY DEF ToolOutcome
  <2> HIDE DEF x
  <2>4. SupOK(AnswerReady(x, command, "failed"), <<>>, <<>>, 0, T, V)
        /\ AnswerReady(x, command, "failed").toEngine = x.toEngine
    BY <2>1, <2>3, AnsweredHere
  <2> QED BY <2>1, <2>2, <2>4 DEF Unread
<1>2. CASE s.enginePipe = "open"
  <2> DEFINE requested == s.requested \/ command.op = "shutdown"
             stopping == IF command.op = "shutdown" THEN "fresh" ELSE s.stopping
  <2>1. r = [s EXCEPT !.toEngine = <<command>>, !.pending = command, !.asker = TRUE,
                      !.requested = requested, !.stopping = stopping]
    BY <1>2 DEF forward_to_engine
  <2>2. s \in Supervisor /\ command \in ToolCommand /\ <<command>> \in Seq(ToolCommand)
    BY DEF InHand
  <2>3. /\ r \in Supervisor /\ r.toEngine = <<command>> /\ r.pending = command /\ r.asker
        /\ r.control = s.control /\ r.ready = s.ready /\ r.sent = s.sent /\ r.reply = s.reply
    <3>1. requested \in BOOLEAN /\ stopping \in {"fresh", "over"}  BY <2>2 DEF Supervisor
    <3> HIDE DEF requested, stopping, r
    <3> QED BY <2>1, <2>2, <3>1 DEF Supervisor
  <2> HIDE DEF r
  <2>4. command.tool \in Tool /\ command # NothingAsked /\ command.tool # Nobody
    BY NothingFacts DEF InHand, AskedBy
  <2>5. Unread(r, <<>>) = <<command>>  BY <2>3 DEF Unread
  <2>6. FlightOK(r, <<command>>, <<>>, 0, T, V)
    BY <2>3, <2>4 DEF InHand, FlightOK, Replies
  <2>7. RequestOK(r, T, V)  BY <2>3 DEF InHand, RequestOK
  <2>8. AnswersOK(r, T, V)  BY <2>3 DEF InHand, AnswersOK, Unused
  <2>9. ClientOK(r, T)  BY <2>3, <2>4 DEF InHand, ClientOK, AskedBy
  <2>10. SupOK(r, <<command>>, <<>>, 0, T, V)  BY <2>3, <2>6, <2>7, <2>8, <2>9 DEF SupOK
  <2> QED BY <2>5, <2>10 DEF r
<1> QED BY <1>1, <1>2

\* answer_control, for each kind of command.
LEMMA AnswerOK ==
  ASSUME NEW T, NEW V, NEW s, NEW command, InHand(s, command, T, V), s.toEngine = <<>>
  PROVE  LET r == answer_control(s, command) IN
         SupOK(r, Unread(r, <<>>), <<>>, 0, T, V)
<1> DEFINE r == answer_control(s, command)
           x == [s EXCEPT !.requested = TRUE, !.failed = TRUE, !.stopping = "fresh"]
<1>1. {"accepted", "unavailable"} \subseteq ToolOutcome  BY DEF ToolOutcome
<1>2. \A result \in {"accepted", "unavailable"} :
        r = AnswerReady(s, command, result) => SupOK(r, Unread(r, <<>>), <<>>, 0, T, V)
  <2> SUFFICES ASSUME NEW result \in {"accepted", "unavailable"}, r = AnswerReady(s, command, result)
               PROVE  SupOK(r, Unread(r, <<>>), <<>>, 0, T, V)
    OBVIOUS
  <2> HIDE DEF r
  <2>1. SupOK(r, <<>>, <<>>, 0, T, V) /\ r.toEngine = s.toEngine  BY <1>1, AnsweredHere
  <2> QED BY <2>1 DEF Unread
<1>3. InHand(x, command, T, V) /\ x.toEngine = <<>>
  BY DEF InHand, Unused, Supervisor
<1>4. r = AnswerReady(x, command, "accepted") => SupOK(r, Unread(r, <<>>), <<>>, 0, T, V)
  <2> HIDE DEF r, x
  <2> SUFFICES ASSUME r = AnswerReady(x, command, "accepted")
               PROVE  SupOK(r, Unread(r, <<>>), <<>>, 0, T, V)
    OBVIOUS
  <2>1. SupOK(r, <<>>, <<>>, 0, T, V) /\ r.toEngine = x.toEngine  BY <1>1, <1>3, AnsweredHere
  <2> QED BY <1>3, <2>1 DEF Unread
<1>5. \/ \E result \in {"accepted", "unavailable"} : r = AnswerReady(s, command, result)
      \/ r = AnswerReady(x, command, "accepted")
      \/ r = forward_to_engine(s, command)
  BY DEF answer_control
<1> QED BY <1>2, <1>4, <1>5, ForwardOK

\* serve_control: a client's command is read, and one at a time is in flight.
LEMMA ServeOK ==
  ASSUME NEW T, NEW V, NEW s, NEW unread, SupOK(s, unread, <<>>, 0, T, V), s.toEngine = <<>>
  PROVE  LET r == serve_control(s) IN SupOK(r, Unread(r, unread), <<>>, 0, T, V)
<1> DEFINE met == [s EXCEPT !.connected = @ \/ s.control.client # Nobody]
           reads == met.connected /\ ~met.sent /\ ~met.ready /\ ~Pending(met)
           command == Head(met.control.request)
           taken == [met EXCEPT !.control.request = <<>>]
           r == serve_control(s)
<1>1. s \in Supervisor  BY DEF SupOK
<1>2. /\ met \in Supervisor /\ SameWork(s, met) /\ met.toEngine = <<>>
      /\ met.connected = s.connected \/ met.control.client # Nobody
  BY <1>1 DEF Supervisor, SameWork
<1> HIDE DEF met
<1>3. SupOK(met, unread, <<>>, 0, T, V)  BY <1>2, SameWorkOK
<1>4. CASE reads /\ met.control.request # <<>>
  <2>1. r = answer_control(taken, command)  BY <1>4 DEF serve_control, met
  <2>2. met.control \in Control  BY <1>2 DEF Supervisor
  <2>3. command \in ToolCommand
    <3>1. met.control.request \in Seq(ToolCommand)  BY <2>2 DEF Control
    <3> QED BY <1>4, <3>1
  <2>4. /\ taken \in Supervisor /\ taken.pending = met.pending /\ taken.asker = met.asker
        /\ taken.ready = met.ready /\ taken.sent = met.sent /\ taken.toEngine = <<>>
        /\ taken.control = [met.control EXCEPT !.request = <<>>]
    <3> DEFINE nothing == <<>>
    <3>1. nothing \in Seq(ToolCommand)  OBVIOUS
    <3> HIDE DEF nothing
    <3>2. [met.control EXCEPT !.request = nothing] \in Control  BY <2>2, <3>1 DEF Control
    <3>3. [met.control EXCEPT !.request = <<>>] \in Control  BY <3>2 DEF nothing
    <3> QED BY <1>2, <3>3 DEF Supervisor
  <2>5. /\ taken.control.request = <<>> /\ taken.control.answer = met.control.answer
        /\ taken.control.client = met.control.client
    BY <2>2, <2>4 DEF Control
  <2> HIDE DEF taken
  <2>6. InHand(taken, command, T, V)
    BY <1>3, <1>4, <2>3, <2>4, <2>5 DEF InHand, Pending, SupOK, RequestOK, Unused
  <2>7. unread = <<>>  BY <1>3, <1>4 DEF Pending, SupOK, FlightOK
  <2> HIDE DEF r
  <2>8. SupOK(answer_control(taken, command), Unread(answer_control(taken, command), <<>>),
              <<>>, 0, T, V)
    BY <2>4, <2>6, AnswerOK
  <2>9. SupOK(r, Unread(r, unread), <<>>, 0, T, V)  BY <2>1, <2>7, <2>8
  <2> QED BY <2>9 DEF r
<1>5. CASE ~(reads /\ met.control.request # <<>>) /\ reads /\ met.control.closed
  <2>1. r = new_control(met)  BY <1>5 DEF serve_control, met
  <2>2. SupOK(r, unread, <<>>, 0, T, V) /\ r.toEngine = <<>>
    BY <1>2, <1>3, <2>1, NewControlOK
  <2> QED BY <2>2 DEF Unread
<1>6. CASE ~(reads /\ met.control.request # <<>>) /\ ~(reads /\ met.control.closed)
  <2>1. r = met  BY <1>6 DEF serve_control, met
  <2> QED BY <1>2, <1>3, <2>1 DEF Unread
<1> QED BY <1>4, <1>5, <1>6

\* flush_control: the answer is written, and read or the client gone.
LEMMA FlushOK ==
  ASSUME NEW T, NEW V, NEW s, NEW unread, NEW idled, SupOK(s, unread, <<>>, 0, T, V)
  PROVE  LET r == flush_control(s, idled) IN
         SupOK(r, unread, <<>>, 0, T, V) /\ r.toEngine = s.toEngine
<1> DEFINE writes == s.connected /\ s.ready /\ ~s.sent
           written == [s EXCEPT !.sent = TRUE, !.reply = NoAnswer, !.control.answer = <<s.reply>>]
           wrote == IF writes /\ ~s.control.closed THEN written ELSE s
           r == flush_control(s, idled)
<1>1. s \in Supervisor /\ s.control \in Control /\ s.reply \in Answers
  BY DEF SupOK, Supervisor
<1>2. SupOK(wrote, unread, <<>>, 0, T, V) /\ wrote.toEngine = s.toEngine
  <2> SUFFICES ASSUME writes, ~s.control.closed
               PROVE  SupOK(written, unread, <<>>, 0, T, V) /\ written.toEngine = s.toEngine
    OBVIOUS
  <2>1. NoAnswer \in Answers /\ <<s.reply>> \in Seq(Answers)
    BY <1>1, NothingFacts DEF NoAnswer, Answer, Answers
  <2>2. [s.control EXCEPT !.answer = <<s.reply>>] \in Control  BY <1>1, <2>1 DEF Control
  <2>3. /\ written \in Supervisor /\ written.pending = s.pending /\ written.asker = s.asker
        /\ written.ready = s.ready /\ written.sent /\ written.toEngine = s.toEngine
        /\ written.connected = s.connected
        /\ written.control = [s.control EXCEPT !.answer = <<s.reply>>]
    BY <1>1, <2>1, <2>2 DEF Supervisor
  <2>4. /\ written.control.client = s.control.client
        /\ written.control.request = s.control.request
        /\ written.control.answer = <<s.reply>>
    BY <1>1, <2>3 DEF Control
  <2> HIDE DEF written
  <2>5. ~s.asker /\ s.control.request = <<>> /\ s.control.client # Nobody
    BY DEF SupOK, RequestOK, AnswersOK, ClientOK, Unused
  <2>6. FlightOK(written, unread, <<>>, 0, T, V)  BY <2>3 DEF SupOK, FlightOK
  <2>7. RequestOK(written, T, V) /\ ClientOK(written, T)
    BY <2>4, <2>5 DEF SupOK, RequestOK, ClientOK
  <2>8. AnswersOK(written, T, V)
    BY <2>3, <2>4, <2>5 DEF SupOK, AnswersOK
  <2> QED BY <2>3, <2>6, <2>7, <2>8 DEF SupOK
<1> HIDE DEF wrote
<1>3. r = new_control(wrote) \/ r = wrote  BY DEF flush_control, wrote
<1>4. SupOK(new_control(wrote), unread, <<>>, 0, T, V)
      /\ new_control(wrote).toEngine = wrote.toEngine
  BY <1>2, NewControlOK
<1> QED BY <1>2, <1>3, <1>4

\* A whole tick, stage by stage and wherever it stops.
LEMMA TickOK ==
  ASSUME NEW T, NEW V, NEW s, NEW unread, NEW messages \in Seq(Message), NEW idled,
         SupOK(s, unread, messages, 0, T, V), s.toEngine = <<>>,
         NEW r \in tick(s, messages, idled)
  PROVE  SupOK(r, Unread(r, unread), <<>>, 0, T, V)
<1> DEFINE OK(x) == SupOK(x, Unread(x, unread), <<>>, 0, T, V)
           a == receive_engine(s, messages)
           b == IF a.goes THEN engine_within_deadlines(a.s) ELSE a
           c == IF b.goes THEN Goes(serve_control(b.s)) ELSE b
           d == IF c.goes THEN Goes(flush_control(c.s, idled)) ELSE c
<1>1. SupOK(a.s, unread, <<>>, 0, T, V) /\ a.s.toEngine = <<>>
  BY ReceiveOK
<1>2. SupOK(b.s, unread, <<>>, 0, T, V) /\ b.s.toEngine = <<>>
  <2> HIDE DEF a
  <2>1. b = a \/ b.s = stop(a.s) \/ b.s = a.s  BY DEF engine_within_deadlines, Ends, Goes
  <2>2. SupOK(stop(a.s), unread, <<>>, 0, T, V) /\ stop(a.s).toEngine = <<>>
    BY <1>1, StopOK
  <2> QED BY <1>1, <2>1, <2>2
<1>3. OK(c.s)
  <2> HIDE DEF b
  <2>1. OK(b.s)  BY <1>2 DEF Unread
  <2>2. OK(serve_control(b.s))  BY <1>2, ServeOK
  <2>3. c.s = b.s \/ c.s = serve_control(b.s)  BY DEF Goes
  <2> QED BY <2>1, <2>2, <2>3
<1>4. OK(d.s)
  <2> HIDE DEF c
  <2>1. d.s = c.s \/ d.s = flush_control(c.s, idled)  BY DEF Goes
  <2>2. /\ SupOK(flush_control(c.s, idled), Unread(c.s, unread), <<>>, 0, T, V)
        /\ flush_control(c.s, idled).toEngine = c.s.toEngine
    BY <1>3, FlushOK
  <2>3. OK(flush_control(c.s, idled))  BY <2>2 DEF Unread
  <2> QED BY <1>3, <2>1, <2>3
<1>5. OK(stop(d.s))
  <2> HIDE DEF d
  <2>1. SupOK(stop(d.s), Unread(d.s, unread), <<>>, 0, T, V) /\ stop(d.s).toEngine = d.s.toEngine
    BY <1>4, StopOK
  <2> QED BY <2>1 DEF Unread
<1>6. r = IF d.goes THEN finish_tick(d.s) ELSE d.s
  BY DEF tick
<1> HIDE DEF d
<1>7. r = d.s \/ r = stop(d.s)  BY <1>6 DEF finish_tick
<1> QED BY <1>4, <1>5, <1>7

-----------------------------------------------------------------------------
(* The invariant under the steps of the tools, the host and the engine.      *)

\* The command in flight, when only other tools learn or are answered.
LEMMA FlightFrame ==
  ASSUME NEW s, NEW r, NEW unread, NEW messages \in Seq(Message),
         NEW T, NEW V, NEW T2, NEW V2,
         FlightOK(s, unread, messages, 0, T, V),
         r.pending = s.pending, r.asker = s.asker \/ ~r.asker,
         s.pending # NothingAsked =>
           \/ T2[s.pending.tool] = T[s.pending.tool] /\ V2[s.pending.tool] = V[s.pending.tool]
           \/ T2[s.pending.tool].state = "done"
  PROVE  FlightOK(r, unread, messages, 0, T2, V2)
<1>1. s.pending # NothingAsked => AskedBy(s.pending, T2)
  BY DEF FlightOK, AskedBy, Waits
<1>2. \A result : s.pending # NothingAsked /\ Stands(s.pending.tool, result, T, V)
                    => Stands(s.pending.tool, result, T2, V2)
  BY DEF Stands, Waits
<1>3. \A i \in Replies(messages, 0) : messages[i].command # NothingAsked
  BY DEF Replies, Message
<1> QED BY <1>1, <1>2, <1>3 DEF FlightOK

\* A supervisor just started.
LEMMA InitControl == ControlInit => ControlInv
<1> SUFFICES ASSUME ControlInit PROVE ControlInv  OBVIOUS
<1>1. /\ sup = NewSupervisor /\ host = "running" /\ fromEngine = <<>>
      /\ tools = [t \in Tool |-> NotAsking("idle")] /\ served = [t \in Tool |-> "no"]
      /\ published = "starting"
  BY DEF ControlInit
<1>2. NewControl \in Control /\ NoAnswer \in Answers /\ NothingAsked \in ToolCommand
  BY NothingFacts DEF NewControl, Control, NoAnswer, Answer, Answers
<1>3. NewSupervisor \in Supervisor  BY <1>2 DEF NewSupervisor, Supervisor
<1>4. engine \in Engine
  <2>1. NewEngine \in Engine  BY WorkerConstants DEF NewEngine, Engine
  <2>2. PICK scene \in BOOLEAN : engine = [NewEngine EXCEPT !.scene = scene]  BY DEF ControlInit
  <2> QED BY <2>1, <2>2 DEF Engine
<1>5. NotAsking("idle") \in ToolRecord  BY NothingFacts DEF NotAsking, ToolRecord
<1>6. ControlTypeOK  BY <1>1, <1>3, <1>4, <1>5 DEF ControlTypeOK
<1>7. ToolsOK(tools, served)  BY <1>1 DEF ToolsOK, Waits, NotAsking
<1>8. SupOK(NewSupervisor, <<>>, <<>>, 0, tools, served)
  <2>1. Replies(<<>>, 0) = {}  BY DEF Replies
  <2>2. FlightOK(NewSupervisor, <<>>, <<>>, 0, tools, served)
    BY <2>1 DEF NewSupervisor, FlightOK
  <2>3. /\ RequestOK(NewSupervisor, tools, served) /\ AnswersOK(NewSupervisor, tools, served)
        /\ ClientOK(NewSupervisor, tools)
    BY DEF NewSupervisor, NewControl, RequestOK, AnswersOK, ClientOK, Unused
  <2> QED BY <1>3, <2>2, <2>3 DEF SupOK
<1>9. NewSupervisor.toEngine = <<>>  BY DEF NewSupervisor
<1> QED BY <1>1, <1>6, <1>7, <1>8, <1>9 DEF ControlInv

\* What the supervisor is once its host has ended, whatever is known by then.
LEMMA NewSupervisorOK ==
  ASSUME NEW T, NEW V
  PROVE  SupOK(NewSupervisor, <<>>, <<>>, 0, T, V) /\ NewSupervisor.toEngine = <<>>
<1>1. NewControl \in Control /\ NoAnswer \in Answers /\ NothingAsked \in ToolCommand
  BY NothingFacts DEF NewControl, Control, NoAnswer, Answer, Answers
<1>2. NewSupervisor \in Supervisor  BY <1>1 DEF NewSupervisor, Supervisor
<1>3. Replies(<<>>, 0) = {}  BY DEF Replies
<1>4. FlightOK(NewSupervisor, <<>>, <<>>, 0, T, V)  BY <1>3 DEF NewSupervisor, FlightOK
<1>5. RequestOK(NewSupervisor, T, V) /\ AnswersOK(NewSupervisor, T, V) /\ ClientOK(NewSupervisor, T)
  BY DEF NewSupervisor, NewControl, RequestOK, AnswersOK, ClientOK, Unused
<1> QED BY <1>2, <1>4, <1>5 DEF SupOK, NewSupervisor

\* A tool connects and asks.
LEMMA ToolAsksKeeps ==
  ASSUME ControlInv, NEW t \in Tool, ToolAsks(t)  PROVE ControlInv'
<1> USE DEF ControlInv
<1>0. /\ ControlTypeOK /\ ToolsOK(tools, served)
      /\ SupOK(sup, sup.toEngine, fromEngine, 0, tools, served)
  OBVIOUS
<1>1. PICK op \in Asks[t] :
        LET command == [tool |-> t, op |-> op, epoch |-> IF op \in InEpoch THEN engine.epoch ELSE 0] IN
        /\ tools' = [tools EXCEPT ![t] = [state |-> "waiting", command |-> command]]
        /\ sup' = [sup EXCEPT !.control.client = t, !.control.request = <<command>>]
  BY DEF ToolAsks
<1> DEFINE command == [tool |-> t, op |-> op, epoch |-> IF op \in InEpoch THEN engine.epoch ELSE 0]
           asking == [state |-> "waiting", command |-> command]
<1>2. command \in ToolCommand /\ command.tool = t /\ command # NothingAsked
  <2>1. op \in ToolOp  BY WorkerConstants DEF ToolOp
  <2>2. engine.epoch \in 1..MaxEpoch /\ MaxEpoch \in Nat
    BY WorkerConstants DEF ControlTypeOK, Engine
  <2>3. (IF op \in InEpoch THEN engine.epoch ELSE 0) \in 0..MaxEpoch  BY <2>2
  <2>4. command \in [tool : Tool, op : ToolOp, epoch : 0..MaxEpoch]  BY <2>1, <2>3
  <2> QED BY <2>4, NothingFacts DEF ToolCommand
<1> HIDE DEF command
<1>3. /\ tools' = [tools EXCEPT ![t] = asking]
      /\ sup' = [sup EXCEPT !.control.client = t, !.control.request = <<command>>]
  BY <1>1 DEF command
<1>4. /\ host # "ended" /\ tools[t].state = "idle" /\ sup.control.client = Nobody
      /\ UNCHANGED <<host, engine, fromEngine, served, published>>
  BY DEF ToolAsks
<1>5. sup \in Supervisor /\ sup.control \in Control /\ tools \in [Tool -> ToolRecord]
      /\ fromEngine \in Seq(Message)
  BY <1>0 DEF ControlTypeOK, Supervisor
<1>6. asking \in ToolRecord  BY <1>2 DEF ToolRecord
<1>7. /\ tools' \in [Tool -> ToolRecord] /\ tools'[t] = asking
      /\ \A u \in Tool : u # t => tools'[u] = tools[u]
  BY <1>3, <1>5, <1>6
<1>8. /\ sup'.control = [sup.control EXCEPT !.client = t, !.request = <<command>>]
      /\ sup' \in Supervisor /\ sup'.pending = sup.pending /\ sup'.asker = sup.asker
      /\ sup'.ready = sup.ready /\ sup'.sent = sup.sent /\ sup'.toEngine = sup.toEngine
  <2>1. <<command>> \in Seq(ToolCommand)  BY <1>2
  <2>2. [sup.control EXCEPT !.client = t, !.request = <<command>>] \in Control
    BY <1>5, <2>1 DEF Control
  <2>3. sup' = [sup EXCEPT !.control = [sup.control EXCEPT !.client = t, !.request = <<command>>]]
    BY <1>3, <1>5 DEF Supervisor, Control
  <2> QED BY <1>5, <2>2, <2>3 DEF Supervisor
<1>9. /\ sup'.control.client = t /\ sup'.control.request = <<command>>
      /\ sup'.control.answer = sup.control.answer
  BY <1>5, <1>8 DEF Control
<1>10. ControlTypeOK'  BY <1>0, <1>4, <1>7, <1>8 DEF ControlTypeOK
<1>11. served[t] = "no"  BY <1>0, <1>4 DEF ToolsOK, Waits
<1>12. ToolsOK(tools', served')
  BY <1>0, <1>2, <1>4, <1>7 DEF ToolsOK, Waits
<1>13. Unused(sup) /\ ~sup.asker  BY <1>0, <1>4 DEF SupOK, ClientOK
<1>14. sup.pending # NothingAsked => sup.pending.tool \in Tool /\ sup.pending.tool # t
  BY <1>0, <1>4 DEF SupOK, FlightOK, AskedBy
<1>15. FlightOK(sup', sup'.toEngine, fromEngine, 0, tools', served)
  <2>1. FlightOK(sup, sup.toEngine, fromEngine, 0, tools, served)  BY <1>0 DEF SupOK
  <2> QED BY <1>5, <1>7, <1>8, <1>14, <2>1, FlightFrame
<1>16. sup.pending.tool # t
  BY <1>14, NothingFacts
<1>17. RequestOK(sup', tools', served)
  BY <1>2, <1>7, <1>8, <1>9, <1>11, <1>13, <1>16 DEF RequestOK, Unused, AskedBy, Stands, Waits
<1>18. AnswersOK(sup', tools', served)
  BY <1>8, <1>9, <1>13 DEF AnswersOK, Unused
<1>19. ClientOK(sup', tools')  BY <1>7, <1>9, NothingFacts DEF ClientOK
<1> QED BY <1>4, <1>8, <1>10, <1>12, <1>15, <1>17, <1>18, <1>19 DEF SupOK

\* A tool reads its answer, or gives up, and is done.
LEMMA LearnsKeeps ==
  ASSUME ControlInv, NEW t \in Tool, tools[t].state = "waiting", Learns(t)  PROVE ControlInv'
<1> USE DEF ControlInv
<1>0. /\ ControlTypeOK /\ ToolsOK(tools, served)
      /\ SupOK(sup, sup.toEngine, fromEngine, 0, tools, served)
  OBVIOUS
<1>1. /\ tools' = [tools EXCEPT ![t] = NotAsking("done")]
      /\ served' = [served EXCEPT ![t] = "no"]
      /\ UNCHANGED <<host, engine, fromEngine, published>>
  BY DEF Learns
<1>2. sup \in Supervisor /\ sup.control \in Control /\ tools \in [Tool -> ToolRecord]
      /\ fromEngine \in Seq(Message) /\ served \in [Tool -> ToolOutcome \cup {"no"}]
  BY <1>0 DEF ControlTypeOK, Supervisor
<1>3. /\ tools' \in [Tool -> ToolRecord] /\ tools'[t].state = "done"
      /\ \A u \in Tool : u # t => tools'[u] = tools[u]
  <2>1. NotAsking("done") \in ToolRecord /\ NotAsking("done").state = "done"
    BY NothingFacts DEF NotAsking, ToolRecord
  <2> QED BY <1>1, <1>2, <2>1
<1>4. /\ served' \in [Tool -> ToolOutcome \cup {"no"}] /\ served'[t] = "no"
      /\ \A u \in Tool : u # t => served'[u] = served[u]
  BY <1>1, <1>2
<1>5. ToolsOK(tools', served')  BY <1>0, <1>3, <1>4 DEF ToolsOK, Waits
<1>6. /\ sup' \in Supervisor /\ sup'.pending = sup.pending /\ sup'.asker = sup.asker
      /\ sup'.ready = sup.ready /\ sup'.sent = sup.sent /\ sup'.toEngine = sup.toEngine
      /\ sup'.reply = sup.reply /\ sup'.connected = sup.connected
      /\ sup'.control.client = sup.control.client /\ sup'.control.request = sup.control.request
      /\ sup'.control.answer \in {<<>>, sup.control.answer}
  <2>1. CASE sup' = sup  BY <1>2, <2>1
  <2>2. CASE sup' = [sup EXCEPT !.control.answer = <<>>, !.control.closed = TRUE]
    <3> DEFINE nothing == <<>>
               left == [sup.control EXCEPT !.answer = nothing, !.closed = TRUE]
    <3>1. sup' = [sup EXCEPT !.control = left]  BY <1>2, <2>2 DEF Supervisor, Control
    <3>2. nothing \in Seq(Answers)  OBVIOUS
    <3>3. /\ left \in Control /\ left.client = sup.control.client
          /\ left.request = sup.control.request /\ left.answer = nothing
      <4> HIDE DEF nothing
      <4> QED BY <1>2, <3>2 DEF Control
    <3> HIDE DEF left
    <3> QED BY <1>2, <3>1, <3>3 DEF Supervisor
  <2> QED BY <2>1, <2>2 DEF Learns
<1>7. \A u : u # t => (Waits(tools', u) <=> Waits(tools, u)) \/ u \notin Tool
  BY <1>3 DEF Waits
<1>8. FlightOK(sup', sup'.toEngine, fromEngine, 0, tools', served')
  <2>1. FlightOK(sup, sup.toEngine, fromEngine, 0, tools, served)  BY <1>0 DEF SupOK
  <2>2. sup.pending # NothingAsked => sup.pending.tool \in Tool  BY <2>1 DEF FlightOK, AskedBy
  <2>3. sup.pending # NothingAsked =>
           \/ tools'[sup.pending.tool] = tools[sup.pending.tool]
              /\ served'[sup.pending.tool] = served[sup.pending.tool]
           \/ tools'[sup.pending.tool].state = "done"
    BY <1>3, <1>4, <2>2
  <2> QED BY <1>2, <1>6, <2>1, <2>3, FlightFrame
<1>9. sup.control.client \in Tool \cup {Nobody}  BY <1>2 DEF Control
<1>10. \A answer : TellsTrue(answer, sup.control.client, tools, served) /\ sup.control.client # Nobody
                     => TellsTrue(answer, sup.control.client, tools', served')
  BY <1>3, <1>4, <1>9 DEF TellsTrue, Waits
<1>11. RequestOK(sup', tools', served')
  <2>1. SUFFICES ASSUME sup.control.request # <<>>
                 PROVE  RequestOK(sup', tools', served')
    BY <1>6 DEF RequestOK
  <2> DEFINE command == Head(sup.control.request)
  <2>2. /\ sup.control.request = <<command>> /\ Unused(sup) /\ ~sup.asker
        /\ sup.pending.tool # sup.control.client /\ command.tool = sup.control.client
        /\ AskedBy(command, tools) /\ Stands(sup.control.client, "no", tools, served)
    BY <1>0, <2>1 DEF SupOK, RequestOK
  <2>3. AskedBy(command, tools') /\ Stands(sup.control.client, "no", tools', served')
    BY <1>3, <1>4, <2>2 DEF AskedBy, Stands, Waits
  <2>4. Unused(sup')  BY <1>6, <2>2 DEF Unused
  <2> QED BY <1>6, <2>2, <2>3, <2>4 DEF RequestOK
<1>12. AnswersOK(sup', tools', served')
  <2>1. sup.ready \/ sup.sent => sup.control.client # Nobody
    BY <1>0 DEF SupOK, ClientOK, Unused
  <2>2. sup.asker => Unused(sup')  BY <1>0, <1>6 DEF SupOK, AnswersOK, Unused
  <2> QED BY <1>0, <1>6, <1>10, <2>1, <2>2 DEF SupOK, AnswersOK
<1>13. ClientOK(sup', tools')
  BY <1>0, <1>3, <1>6, <1>9 DEF SupOK, ClientOK, Unused
<1>14. ControlTypeOK'  BY <1>0, <1>1, <1>3, <1>4, <1>6 DEF ControlTypeOK
<1>15. host' = "ended" => sup' = NewSupervisor
  BY <1>1 DEF Learns, HoldsControl
<1> QED BY <1>1, <1>5, <1>6, <1>8, <1>11, <1>12, <1>13, <1>14, <1>15 DEF SupOK

\* The host's tick, with what it wrote to the engine's pipe.
LEMMA TickedKeeps ==
  ASSUME ControlInv, NEW broken \in BOOLEAN, NEW idled \in BOOLEAN, host # "ended", Ticked(broken, idled)
  PROVE  ControlInv'
<1> USE DEF ControlInv
<1>0. /\ ControlTypeOK /\ ToolsOK(tools, served)
      /\ SupOK(sup, sup.toEngine, fromEngine, 0, tools, served)
  OBVIOUS
<1> DEFINE pipe == IF Running \/ sup.enginePipe = "lost" THEN sup.enginePipe
                   ELSE IF broken THEN "broken" ELSE "lost"
           x == [sup EXCEPT !.enginePipe = pipe, !.toEngine = <<>>]
           nothing == <<>>
<1>1. /\ fromEngine' = <<>> /\ UNCHANGED <<host, engine, tools, served, published>>
      /\ \E s \in tick(x, fromEngine, idled) :
           sup' = [s EXCEPT !.toEngine = IF @ = <<>> THEN sup.toEngine ELSE @]
  BY DEF Ticked
<1>2. sup \in Supervisor /\ fromEngine \in Seq(Message)  BY <1>0 DEF ControlTypeOK
<1>3. pipe \in {"open", "broken", "lost"}  BY <1>2 DEF Supervisor
<1>4. /\ x \in Supervisor /\ SameWork(sup, x) /\ x.connected = sup.connected /\ x.toEngine = <<>>
  <2>1. nothing \in Seq(ToolCommand) /\ x = [sup EXCEPT !.enginePipe = pipe, !.toEngine = nothing]
    OBVIOUS
  <2> HIDE DEF pipe, nothing, x
  <2>2. /\ x \in Supervisor /\ SameWork(sup, x) /\ x.connected = sup.connected
        /\ x.toEngine = nothing
    BY <1>2, <1>3, <2>1 DEF Supervisor, SameWork
  <2> QED BY <2>2 DEF nothing
<1> HIDE DEF x
<1>5. SupOK(x, sup.toEngine, fromEngine, 0, tools, served)
  BY <1>0, <1>4, SameWorkOK
<1>6. PICK s \in tick(x, fromEngine, idled) :
        sup' = [s EXCEPT !.toEngine = IF @ = <<>> THEN sup.toEngine ELSE @]
  BY <1>1
<1>7. SupOK(s, Unread(s, sup.toEngine), <<>>, 0, tools, served)
  BY <1>2, <1>4, <1>5, TickOK
<1>8. s \in Supervisor  BY <1>7 DEF SupOK
<1>9. Unread(s, sup.toEngine) \in Seq(ToolCommand)
  BY <1>2, <1>8 DEF Unread, Supervisor
<1>10. sup' = [s EXCEPT !.toEngine = Unread(s, sup.toEngine)]
  BY <1>6 DEF Unread
<1>11. /\ sup' \in Supervisor /\ SameWork(s, sup') /\ sup'.connected = s.connected
       /\ sup'.toEngine = Unread(s, sup.toEngine)
  BY <1>8, <1>9, <1>10 DEF Supervisor, SameWork
<1>12. SupOK(sup', sup'.toEngine, <<>>, 0, tools, served)
  BY <1>7, <1>11, SameWorkOK
<1>13. ControlTypeOK'  BY <1>0, <1>1, <1>11 DEF ControlTypeOK
<1> QED BY <1>1, <1>12, <1>13

\* The host ends the process, and everything of the supervisor with it.
LEMMA HostEndsKeeps ==
  ASSUME ControlInv, HostEnds  PROVE ControlInv'
<1>1. /\ host' = "ended" /\ published' = exited(sup, engine.code)
      /\ sup' = NewSupervisor /\ fromEngine' = <<>>
      /\ UNCHANGED <<engine, tools, served>>
  BY DEF HostEnds
<1>2. SupOK(NewSupervisor, <<>>, <<>>, 0, tools, served) /\ NewSupervisor.toEngine = <<>>
  BY NewSupervisorOK
<1>3. NewSupervisor \in Supervisor  BY <1>2 DEF SupOK
<1>4. ControlTypeOK'  BY <1>1, <1>3 DEF ControlInv, ControlTypeOK, exited
<1> QED BY <1>1, <1>2, <1>4 DEF ControlInv

\* A deadline passes.
LEMMA TimePassesKeeps ==
  ASSUME ControlInv, NEW clock \in Clock, TimePasses(clock)  PROVE ControlInv'
<1>1. /\ host = "running" /\ UNCHANGED <<host, engine, fromEngine, tools, served, published>>
  BY DEF TimePasses
<1>2. sup \in Supervisor  BY DEF ControlInv, ControlTypeOK
<1>3. /\ sup' \in Supervisor /\ SameWork(sup, sup') /\ sup'.connected = sup.connected
      /\ sup'.toEngine = sup.toEngine
  <2>1. CASE clock = "heartbeat"
    BY <1>2, <2>1 DEF TimePasses, Ages, Supervisor, SameWork
  <2>2. CASE clock = "asked"
    BY <1>2, <2>2 DEF TimePasses, Ages, Supervisor, SameWork
  <2>3. CASE clock = "stopping"
    BY <1>2, <2>3 DEF TimePasses, Ages, Supervisor, SameWork
  <2>4. CASE clock = "lease"
    BY <1>2, <2>4 DEF TimePasses, Ages, Supervisor, SameWork
  <2> QED BY <2>1, <2>2, <2>3, <2>4 DEF Clock
<1>4. SupOK(sup', sup'.toEngine, fromEngine, 0, tools, served)
  BY <1>3, SameWorkOK DEF ControlInv
<1>5. ControlTypeOK'  BY <1>1, <1>3 DEF ControlInv, ControlTypeOK
<1> QED BY <1>1, <1>4, <1>5 DEF ControlInv

\* A message that is no reply changes nothing for anybody.
LEMMA SaysKeeps ==
  ASSUME ControlInv, NEW kind \in {"status", "lease", "failed"}, Says([kind |-> kind]),
         UNCHANGED <<sup, host, engine, tools, served, published>>
  PROVE  ControlInv'
<1> DEFINE message == [kind |-> kind]
<1>1. fromEngine \in Seq(Message) /\ message \in Message
  BY DEF ControlInv, ControlTypeOK, Message
<1>2. fromEngine' = Append(fromEngine, message)  BY DEF Says
<1>3. /\ fromEngine' \in Seq(Message) /\ Len(fromEngine') = Len(fromEngine) + 1
      /\ fromEngine'[Len(fromEngine) + 1] = message
      /\ \A i \in 1..Len(fromEngine) : fromEngine'[i] = fromEngine[i]
      /\ Len(fromEngine) \in Nat
  BY <1>1, <1>2
<1>4. Replies(fromEngine', 0) = Replies(fromEngine, 0)  BY <1>3 DEF Replies
<1>5. \A i \in Replies(fromEngine, 0) : fromEngine'[i] = fromEngine[i]  BY <1>3 DEF Replies
<1>6. FlightOK(sup, sup.toEngine, fromEngine, 0, tools, served)  BY DEF ControlInv, SupOK
<1>7. FlightOK(sup, sup.toEngine, fromEngine', 0, tools, served)
  BY <1>4, <1>5, <1>6 DEF FlightOK
<1>8. SupOK(sup, sup.toEngine, fromEngine', 0, tools, served)
  BY <1>7 DEF ControlInv, SupOK
<1>9. ControlTypeOK'  BY <1>3 DEF ControlInv, ControlTypeOK
<1> QED BY <1>8, <1>9 DEF ControlInv

\* dispatch: the engine answers the command it reads.
LEMMA EngineServesKeeps ==
  ASSUME ControlInv, EngineServes  PROVE ControlInv'
<1> USE DEF ControlInv
<1>0. /\ ControlTypeOK /\ ToolsOK(tools, served)
      /\ SupOK(sup, sup.toEngine, fromEngine, 0, tools, served)
      /\ FlightOK(sup, sup.toEngine, fromEngine, 0, tools, served)
  BY DEF SupOK
<1> DEFINE command == Head(sup.toEngine)
           result == dispatch(command)
           queues == result = "accepted" /\ command.op \in {"save", "load"}
           told == IF tools[command.tool].state = "waiting" THEN result ELSE served[command.tool]
           message == [kind |-> "reply", command |-> command, result |-> result]
           nothing == <<>>
<1>1. /\ sup.toEngine # <<>> /\ Says(message)
      /\ served' = [served EXCEPT ![command.tool] = told]
      /\ engine' = [engine EXCEPT !.quitting = command.op = "shutdown",
                                  !.persistence = IF queues THEN Queued(command.op) ELSE @,
                                  !.at = IF queues THEN engine.epoch ELSE @]
      /\ sup' = [sup EXCEPT !.toEngine = nothing]
      /\ UNCHANGED <<host, tools, published>>
  BY DEF EngineServes
<1>2. command = sup.pending /\ sup.pending # NothingAsked /\ AskedBy(command, tools)
      /\ Replies(fromEngine, 0) = {} /\ command.tool \in Tool
  BY <1>0, <1>1 DEF FlightOK, AskedBy
<1>3. sup \in Supervisor /\ fromEngine \in Seq(Message) /\ engine \in Engine
      /\ tools \in [Tool -> ToolRecord] /\ served \in [Tool -> ToolOutcome \cup {"no"}]
  BY <1>0 DEF ControlTypeOK
<1>4. command \in ToolCommand \ {NothingAsked} /\ result \in ToolOutcome
  BY <1>2, <1>3 DEF Supervisor, dispatch, ToolOutcome
<1>5. message \in Message  BY <1>4 DEF Message
<1> HIDE DEF command, result
<1>6. /\ fromEngine' \in Seq(Message) /\ Len(fromEngine') = Len(fromEngine) + 1
      /\ fromEngine'[Len(fromEngine) + 1] = message
      /\ \A i \in 1..Len(fromEngine) : fromEngine'[i] = fromEngine[i]
      /\ Len(fromEngine) \in Nat
  <2> HIDE DEF message
  <2> QED BY <1>1, <1>3, <1>5 DEF Says
<1>7. Replies(fromEngine', 0) \subseteq {Len(fromEngine) + 1}
  BY <1>2, <1>6 DEF Replies
<1>8. /\ served' \in [Tool -> ToolOutcome \cup {"no"}] /\ served'[command.tool] = told
      /\ \A t \in Tool : t # command.tool => served'[t] = served[t]
  <2>1. told \in ToolOutcome \cup {"no"}  BY <1>2, <1>3, <1>4
  <2> HIDE DEF told
  <2> QED BY <1>1, <1>2, <1>3, <2>1
<1>9. /\ sup' \in Supervisor /\ SameWork(sup, sup') /\ sup'.connected = sup.connected
      /\ sup'.toEngine = nothing
  <2>1. nothing \in Seq(ToolCommand)  OBVIOUS
  <2> HIDE DEF nothing
  <2> QED BY <1>1, <1>3, <2>1 DEF Supervisor, SameWork
<1>10. engine' \in Engine
  <2>1. Queued(command.op) \in {"save_pending", "load_pending"}  BY DEF Queued
  <2>2. (command.op = "shutdown") \in BOOLEAN  OBVIOUS
  <2>3. engine.epoch \in 0..MaxEpoch  BY <1>3, WorkerConstants DEF Engine
  <2> DEFINE stops == command.op = "shutdown"
             persistence == IF queues THEN Queued(command.op) ELSE engine.persistence
             at == IF queues THEN engine.epoch ELSE engine.at
  <2>4. stops \in BOOLEAN /\ at \in 0..MaxEpoch
        /\ persistence \in {"idle", "save_pending", "saving", "saved", "load_pending", "loading",
                            "loaded", "failed", "torn"}
    BY <1>3, <2>1, <2>2, <2>3 DEF Engine
  <2>5. engine' = [engine EXCEPT !.quitting = stops, !.persistence = persistence, !.at = at]
    BY <1>1
  <2> HIDE DEF stops, persistence, at
  <2> QED BY <1>3, <2>4, <2>5 DEF Engine
<1>11. ControlTypeOK'  BY <1>0, <1>1, <1>6, <1>8, <1>9, <1>10 DEF ControlTypeOK
<1>12. ToolsOK(tools', served')
  BY <1>0, <1>1, <1>2, <1>3, <1>8 DEF ToolsOK, Waits
<1>13. FlightOK(sup', sup'.toEngine, fromEngine', 0, tools, served')
  <2>1. Stands(sup.pending.tool, message.result, tools, served')
    BY <1>2, <1>8 DEF Stands, Waits
  <2>2. \A i \in Replies(fromEngine', 0) : fromEngine'[i] = message
    BY <1>6, <1>7
  <2>3. message.command = sup.pending  BY <1>2
  <2> HIDE DEF message
  <2> QED BY <1>0, <1>2, <1>7, <1>9, <2>1, <2>2, <2>3 DEF FlightOK, SameWork
<1>14. sup.control.client \in Tool \cup {Nobody}  BY <1>3 DEF Supervisor, Control
<1>15. command.tool # sup.control.client /\ sup.control.client # Nobody
         => served'[sup.control.client] = served[sup.control.client]
  BY <1>8, <1>14
<1>16. RequestOK(sup', tools, served')
  <2>1. SUFFICES ASSUME sup.control.request # <<>>  PROVE RequestOK(sup', tools, served')
    BY <1>9 DEF RequestOK, SameWork
  <2>2. /\ sup.pending.tool # sup.control.client
        /\ sup.control.client # Nobody
    BY <1>0, <2>1 DEF SupOK, RequestOK, ClientOK
  <2>3. Stands(sup.control.client, "no", tools, served)
    BY <1>0, <2>1 DEF SupOK, RequestOK
  <2>4. Stands(sup.control.client, "no", tools, served')
    BY <1>2, <1>15, <2>2, <2>3 DEF Stands
  <2> QED BY <1>0, <1>9, <2>1, <2>4 DEF SupOK, RequestOK, SameWork, Unused
<1>17. AnswersOK(sup', tools, served')
  <2>1. sup.ready \/ sup.sent => sup.control.client # Nobody /\ sup.pending.tool # sup.control.client
    BY <1>0 DEF SupOK, AnswersOK, ClientOK, Unused
  <2>2. sup.ready \/ sup.sent => served'[sup.control.client] = served[sup.control.client]
    BY <1>2, <1>15, <2>1
  <2> QED BY <1>0, <1>9, <2>2 DEF SupOK, AnswersOK, SameWork, Unused, TellsTrue
<1>18. ClientOK(sup', tools)  BY <1>0, <1>9 DEF SupOK, ClientOK, SameWork, Unused
<1>19. host' = "ended" => sup' = NewSupervisor
  <2>1. host # "ended"  BY <1>1 DEF NewSupervisor
  <2> QED BY <1>1, <2>1
<1> QED BY <1>1, <1>9, <1>11, <1>12, <1>13, <1>16, <1>17, <1>18, <1>19 DEF SupOK

\* The steps of the engine that answer nobody.
LEMMA PersistedKeeps ==
  ASSUME ControlInv, engine' \in Engine, UNCHANGED <<sup, host, fromEngine, tools, served, published>>
  PROVE  ControlInv'
<1>1. ControlTypeOK'  BY DEF ControlInv, ControlTypeOK
<1> QED BY <1>1 DEF ControlInv

\* Every step of the engine.
LEMMA EngineStepsKeep ==
  ASSUME ControlInv, EngineSteps \/ EngineTerminated  PROVE ControlInv'
<1>1. engine \in Engine  BY DEF ControlInv, ControlTypeOK
<1>2. MaxEpoch \in Nat /\ MaxEpoch >= 1  BY WorkerConstants
<1>3. engine.epoch \in 1..MaxEpoch /\ engine.epoch \in 0..MaxEpoch  BY <1>1, <1>2 DEF Engine
<1>4. CASE EngineServes  BY <1>4, EngineServesKeeps
<1>5. CASE EngineReports  BY <1>5, SaysKeeps DEF EngineReports
<1>6. CASE dispatch_pending
  <2> SUFFICES engine' \in Engine  BY <1>6, PersistedKeeps DEF dispatch_pending, Persisted
  <2>1. PICK p \in {"failed", "saving", "loading"} : engine' = [engine EXCEPT !.persistence = p]
    BY <1>1, <1>6 DEF dispatch_pending, Persisted, Engine
  <2> QED BY <1>1, <2>1 DEF Engine
<1>7. CASE conclude_save
  <2> SUFFICES engine' \in Engine  BY <1>7, PersistedKeeps DEF conclude_save, Persisted
  <2>1. PICK epoch \in 1..MaxEpoch, p \in {"saved", "failed"} :
          engine' = [engine EXCEPT !.epoch = epoch, !.persistence = p]
    BY <1>1, <1>7 DEF conclude_save, Persisted, Engine
  <2> QED BY <1>1, <2>1 DEF Engine
<1>8. CASE watch_load
  <2> SUFFICES engine' \in Engine  BY <1>8, PersistedKeeps DEF watch_load, Persisted
  <2> QED BY <1>1, <1>3, <1>8 DEF watch_load, Persisted, Engine
<1>9. CASE LoadedSceneChanged
  <2> SUFFICES engine' \in Engine  BY <1>9, PersistedKeeps DEF LoadedSceneChanged, Persisted
  <2> QED BY <1>1, <1>9 DEF LoadedSceneChanged, Persisted, Engine
<1>10. CASE EngineQuits \/ EngineCrashes \/ EngineTerminated
  <2>1. PICK code \in {"zero", "crash", "terminated"} : Ended(code)
    BY <1>10 DEF EngineQuits, EngineCrashes, EngineTerminated
  <2> SUFFICES engine' \in Engine  BY <2>1, PersistedKeeps DEF Ended, Persisted
  <2>2. NewEngine \in Engine  BY <1>2 DEF NewEngine, Engine
  <2>3. PICK p \in {"torn", "idle"} : engine' = [NewEngine EXCEPT !.code = code, !.persistence = p]
    BY <2>1 DEF Ended, Persisted
  <2> QED BY <2>2, <2>3 DEF Engine
<1>11. CASE SceneChanges
  <2> SUFFICES engine' \in Engine  BY <1>11, PersistedKeeps DEF SceneChanges, Persisted
  <2>1. PICK scene \in BOOLEAN : engine' = [engine EXCEPT !.epoch = @ + 1, !.scene = scene]
    BY <1>11 DEF SceneChanges, Persisted
  <2>2. engine.epoch + 1 \in 1..MaxEpoch  BY <1>2, <1>3, <1>11 DEF SceneChanges
  <2> QED BY <1>1, <2>1, <2>2 DEF Engine
<1> QED BY <1>4, <1>5, <1>6, <1>7, <1>8, <1>9, <1>10, <1>11 DEF EngineSteps

\* Every step of a supervised worker keeps the invariant.
LEMMA ControlStepKeeps ==
  ASSUME ControlInv, [ControlNext]_control_vars  PROVE ControlInv'
<1>1. CASE Tools
  <2>1. PICK t \in Tool : ToolAsks(t) \/ ToolReads(t) \/ ToolGivesUp(t)  BY <1>1 DEF Tools
  <2> QED BY <2>1, ToolAsksKeeps, LearnsKeeps DEF ToolReads, ToolGivesUp
<1>2. CASE Tick \/ TickBreaks \/ TickIdles
  <2>1. PICK broken \in BOOLEAN, idled \in BOOLEAN : host # "ended" /\ Ticked(broken, idled)
    BY <1>2 DEF Tick, TickBreaks, TickIdles
  <2> QED BY <2>1, TickedKeeps
<1>3. CASE Exited \/ Finish
  BY <1>3, HostEndsKeeps DEF Exited, Finish
<1>4. CASE Drains
  <2>1. /\ host # "ended" /\ host' = "draining"
        /\ UNCHANGED <<sup, engine, fromEngine, tools, served, published>>
    BY <1>4 DEF Drains
  <2>2. ControlTypeOK'  BY <2>1 DEF ControlInv, ControlTypeOK
  <2> QED BY <2>1, <2>2 DEF ControlInv
<1>5. CASE \E clock \in Clock : TimePasses(clock)
  BY <1>5, TimePassesKeeps
<1>6. CASE EngineSteps \/ EngineTerminated
  BY <1>6, EngineStepsKeep
<1>7. CASE UNCHANGED control_vars
  <2>1. ControlTypeOK'  BY <1>7 DEF control_vars, ControlInv, ControlTypeOK
  <2> QED BY <1>7, <2>1 DEF control_vars, ControlInv
<1> QED BY <1>1, <1>2, <1>3, <1>4, <1>5, <1>6, <1>7 DEF ControlNext

\* The invariant of a supervised worker holds of every behaviour.
THEOREM ControlInvariant == ControlSpec => []ControlInv
<1>1. ControlInit => ControlInv  BY InitControl
<1>2. ControlInv /\ [ControlNext]_control_vars => ControlInv'  BY ControlStepKeeps
<1> QED BY <1>1, <1>2, PTL DEF ControlSpec

\* What an operator's tool reads is true of its own command, however late an
\* engine answered, whatever ended or broke meanwhile (answer_control,
\* accept_reply, flush_control).
THEOREM OutcomeAlwaysTruthful == ControlSpec => []OutcomeTruthful
<1>1. ControlInv => OutcomeTruthful
  BY DEF ControlInv, SupOK, AnswersOK, TellsTrue, OutcomeTruthful, HoldsControl, Waits
<1> QED BY <1>1, ControlInvariant, PTL
=============================================================================
