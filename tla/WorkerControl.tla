---------------------------- MODULE WorkerControl ----------------------------
(* One supervised worker: the operator's tools, each with one command, the *)
(* supervisor and its host, and the engine thread of the original game,    *)
(* which saves and loads between updates, may hang, and may crash.         *)
EXTENDS WorkerSupervisor, FiniteSets

CONSTANTS
  Tool,       \* invocations of the control tool, one command each
  Asks,       \* what each may ask
  MaxEpoch,   \* bound: scene epochs
  Slots       \* messages the engine's pipe buffers

ASSUME WorkerConstants == MaxEpoch \in Nat \ {0} /\ Slots \in Nat /\ Tool \subseteq Nat \ {Nobody}
                          /\ Asks \in [Tool -> SUBSET {"status", "shutdown", "save", "load", "act"}]

VARIABLES
  sup,      \* the supervisor
  host,     \* the process that ticks it: running, draining after the exit, ended
  engine,   \* the engine thread of the game
  fromEngine,   \* its messages, in order
  tools,    \* each tool: its command, whether it waits, and what it learned
  served,   \* what the engine answered the command of a tool that waits
  published \* the last status of the worker

control_vars == <<sup, host, engine, fromEngine, tools, served, published>>

\* At the menu, or in a scene it has entered.
NewEngine ==
  [code |-> "none", quitting |-> FALSE, epoch |-> 1, scene |-> FALSE,
   persistence |-> "idle", at |-> 0, seen |-> 0]

\* A tool that has learned its outcome, or given up, keeps nothing.
NotAsking(state) == [state |-> state, command |-> NothingAsked]

ControlInit ==
  /\ sup = NewSupervisor /\ host = "running" /\ fromEngine = <<>>
  /\ \E scene \in BOOLEAN : engine = [NewEngine EXCEPT !.scene = scene]
  /\ tools = [t \in Tool |-> NotAsking("idle")]
  /\ served = [t \in Tool |-> "no"] /\ published = "starting"

Running == engine.code = "none"
Blocked == engine.persistence = "saving"
Writable == Len(fromEngine) <= Slots

-----------------------------------------------------------------------------
(* The control tool.                                                       *)

\* A shutdown or a status names no scene epoch; what the others name was the
\* epoch when they asked.
InEpoch == {"save", "load", "act"}

\* The pipe has one instance: one client at a time.
ToolAsks(t) ==
  /\ host # "ended" /\ tools[t].state = "idle" /\ sup.control.client = Nobody
  /\ \E op \in Asks[t] :
       LET command == [tool |-> t, op |-> op, epoch |-> IF op \in InEpoch THEN engine.epoch ELSE 0] IN
       /\ tools' = [tools EXCEPT ![t] = [state |-> "waiting", command |-> command]]
       /\ sup' = [sup EXCEPT !.control.client = t, !.control.request = <<command>>]
  /\ UNCHANGED <<host, engine, fromEngine, served, published>>

HoldsControl(t) == sup.control.client = t /\ host # "ended"

Learns(t) ==
  /\ tools' = [tools EXCEPT ![t] = NotAsking("done")]
  /\ served' = [served EXCEPT ![t] = "no"]
  /\ sup' = IF HoldsControl(t) THEN [sup EXCEPT !.control.answer = <<>>, !.control.closed = TRUE] ELSE sup
  /\ UNCHANGED <<host, engine, fromEngine, published>>

ToolReads(t) ==
  /\ tools[t].state = "waiting" /\ HoldsControl(t) /\ sup.control.answer # <<>>
  /\ Learns(t)

\* After ten seconds, or with its pipe gone, the outcome is unknown.
ToolGivesUp(t) == tools[t].state = "waiting" /\ Learns(t)

-----------------------------------------------------------------------------
(* The supervisor's host.                                                  *)

\* Ticked every 20 ms, and a few times more once a requested stop has ended
\* the game.  A pipe whose other end is gone is found so when nothing is left
\* to read, and one that breaks within a tick when a command is written.
Ticked(broken, idled) ==
  /\ LET pipe == IF Running \/ sup.enginePipe = "lost" THEN sup.enginePipe
                 ELSE IF broken THEN "broken" ELSE "lost"
     IN \E s \in tick([sup EXCEPT !.enginePipe = pipe, !.toEngine = <<>>], fromEngine, idled) :
          sup' = [s EXCEPT !.toEngine = IF @ = <<>> THEN sup.toEngine ELSE @]
  /\ fromEngine' = <<>>
  /\ UNCHANGED <<host, engine, tools, served, published>>

Tick ==
  /\ host = "running" \/ (host = "draining" /\ (Pending(sup) \/ sup.ready \/ sup.sent))
  /\ Ticked(FALSE, FALSE)

\* The engine's pipe breaks within the tick, or the operator's has idled.
TickBreaks == host = "running" /\ ~Running /\ sup.enginePipe = "open" /\ Ticked(TRUE, FALSE)
TickIdles == host = "running" /\ sup.connected /\ Ticked(FALSE, TRUE)

\* The pipes end with the host.
HostEnds ==
  /\ host' = "ended" /\ published' = exited(sup, engine.code)
  /\ sup' = NewSupervisor /\ fromEngine' = <<>>
  /\ UNCHANGED <<engine, tools, served>>

\* The wait for the exit ends with it; nothing is drained if no stop was asked.
Exited ==
  /\ host = "running" /\ ~Running /\ ~sup.requested
  /\ HostEnds

Drains ==
  /\ host = "running" /\ ~Running /\ sup.requested
  /\ host' = "draining"
  /\ UNCHANGED <<sup, engine, fromEngine, tools, served, published>>

\* Drained, or a quarter of a second later.
Finish == host = "draining" /\ HostEnds

-----------------------------------------------------------------------------
(* Time.                                                                   *)

Ages(field, from, to) == sup[field] = from /\ sup' = [sup EXCEPT ![field] = to]

Clock == {"heartbeat", "asked", "stopping", "lease"}
TimePasses(clock) ==
  /\ host = "running" /\ ~sup.failed
  /\ CASE clock = "heartbeat" -> Ages(clock, "fresh", "stale") \/ Ages(clock, "stale", "lost")
       [] clock = "asked" -> Pending(sup) /\ Ages(clock, "fresh", "over")
       [] clock = "stopping" -> sup.requested /\ Ages(clock, "fresh", "over")
       [] clock = "lease" -> Ages(clock, "running", "over")
  /\ UNCHANGED <<host, engine, fromEngine, tools, served, published>>

-----------------------------------------------------------------------------
(* The engine thread.                                                      *)

Says(message) == fromEngine' = Append(fromEngine, message)
EngineStep == Running /\ ~Blocked

\* What a save or a load asks of the scene: a save its own, a load the menu.
Suits(op) == IF op = "save" THEN engine.scene ELSE ~engine.scene
PersistenceBusy == engine.persistence \in {"save_pending", "saving", "load_pending", "loading"}
Queued(op) == IF op = "save" THEN "save_pending" ELSE "load_pending"

\* The gates in order: status and shutdown always, then the epoch, then a
\* save or load under way.
dispatch(command) ==
  IF command.op \in {"status", "shutdown"} THEN "accepted"
  ELSE IF command.epoch # engine.epoch THEN "stale"
  ELSE IF PersistenceBusy THEN "busy"
  ELSE IF command.op \in {"save", "load"} /\ ~Suits(command.op) THEN "unavailable"
  ELSE "accepted"

\* One request an update, read once the reply has room; a save or a load is
\* only queued.
EngineServes ==
  /\ EngineStep /\ ~engine.quitting /\ Writable /\ sup.toEngine # <<>>
  /\ LET command == Head(sup.toEngine)
         result == dispatch(command)
         queues == result = "accepted" /\ command.op \in {"save", "load"}
     IN /\ Says([kind |-> "reply", command |-> command, result |-> result])
        /\ served' = [served EXCEPT ![command.tool] = IF tools[command.tool].state = "waiting" THEN result ELSE @]
        /\ engine' = [engine EXCEPT !.quitting = command.op = "shutdown",
                                    !.persistence = IF queues THEN Queued(command.op) ELSE @,
                                    !.at = IF queues THEN engine.epoch ELSE @]
  /\ sup' = [sup EXCEPT !.toEngine = <<>>]
  /\ UNCHANGED <<host, tools, published>>

Persists == EngineStep /\ ~engine.quitting /\ Writable
Persisted(fields) == engine' = fields /\ UNCHANGED <<sup, host, fromEngine, tools, served, published>>

\* The first update after the acknowledgement left: the scene must still be
\* the one it was given in.
dispatch_pending ==
  /\ Persists /\ engine.persistence \in {"save_pending", "load_pending"}
  /\ LET same == engine.at = engine.epoch /\ Suits(IF engine.persistence = "save_pending" THEN "save" ELSE "load") IN
     Persisted([engine EXCEPT !.persistence =
       IF ~same THEN "failed" ELSE IF @ = "save_pending" THEN "saving" ELSE "loading"])

\* The original save returns, in the scene it was asked for or another.
conclude_save ==
  /\ Running /\ Blocked
  /\ \E succeeded \in BOOLEAN, epoch \in {engine.epoch, engine.epoch + 1} \cap 1..MaxEpoch :
       Persisted([engine EXCEPT !.epoch = epoch,
                                !.persistence = IF succeeded /\ epoch = engine.at THEN "saved" ELSE "failed"])

\* A load is over once its scene has been seen twice, or it takes too long.
watch_load ==
  /\ Persists /\ engine.persistence = "loading"
  /\ LET arrived == engine.scene /\ engine.epoch # engine.at IN
     \/ Persisted([engine EXCEPT !.persistence = "failed"])
     \/ arrived /\ engine.seen # engine.epoch /\ Persisted([engine EXCEPT !.seen = engine.epoch])
     \/ arrived /\ engine.seen = engine.epoch /\ Persisted([engine EXCEPT !.persistence = "loaded"])

LoadedSceneChanged ==
  /\ Persists /\ engine.persistence = "loaded" /\ (engine.epoch # engine.seen \/ ~engine.scene)
  /\ Persisted([engine EXCEPT !.persistence = "failed"])

\* A save it was in the middle of may be half written.
Ended(code) ==
  Persisted([NewEngine EXCEPT !.code = code, !.persistence = IF Blocked THEN "torn" ELSE "idle"])

\* A native simulation that has begun its checkpoint lease announces it.
EngineReports ==
  /\ EngineStep /\ ~engine.quitting /\ Writable
  /\ \E kind \in {"status", "lease", "failed"} : Says([kind |-> kind])
  /\ UNCHANGED <<sup, host, engine, tools, served, published>>

\* The acknowledgement has left: the game ends by itself.
EngineQuits ==
  /\ EngineStep /\ engine.quitting /\ Writable
  /\ Ended("zero")

SceneChanges ==
  /\ EngineStep /\ engine.epoch < MaxEpoch
  /\ \E scene \in BOOLEAN : Persisted([engine EXCEPT !.epoch = @ + 1, !.scene = scene])

EngineCrashes == Running /\ Ended("crash")

\* The job was terminated.
EngineTerminated == Running /\ sup.failed /\ Ended("terminated")

EngineSteps == EngineServes \/ dispatch_pending \/ conclude_save \/ watch_load \/ LoadedSceneChanged
               \/ EngineReports \/ EngineQuits \/ SceneChanges \/ EngineCrashes
Tools == \E t \in Tool : ToolAsks(t) \/ ToolReads(t) \/ ToolGivesUp(t)
ControlNext == Tools \/ Tick \/ TickBreaks \/ TickIdles \/ Exited \/ Drains \/ Finish \/ (\E clock \in Clock : TimePasses(clock)) \/ EngineSteps \/ EngineTerminated

ControlSpec == ControlInit /\ [][ControlNext]_control_vars

\* The host ticks, clocks run, a terminated process ends, and a tool reads its
\* answer or gives up.  The engine owes nothing: it may hang at any point.
Fairness ==
  /\ WF_control_vars(Tick) /\ (\A clock \in Clock : WF_control_vars(TimePasses(clock))) /\ WF_control_vars(EngineTerminated) /\ WF_control_vars(Exited) /\ WF_control_vars(Drains) /\ WF_control_vars(Finish)
  /\ \A t \in Tool : WF_control_vars(ToolReads(t) \/ ToolGivesUp(t))
ControlFairSpec == ControlSpec /\ Fairness

-----------------------------------------------------------------------------

\* What a tool reads is true of its own command, however late the engine
\* answered an earlier one: a refusal of the supervisor's was never carried
\* out, and the engine's answer is the one it gave this command.
OutcomeTruthful ==
  \A t \in Tool : tools[t].state = "waiting" /\ HoldsControl(t) /\ sup.control.answer # <<>> =>
    LET answer == Head(sup.control.answer) IN
    /\ answer.command = tools[t].command
    /\ ~answer.local => served[t] = answer.result
    /\ answer.local /\ answer.result # "accepted" => served[t] = "no"

\* A worker told to stop, or failed, ends even if its engine never answers.
StopEnds == (sup.requested \/ sup.failed) ~> host = "ended"

=============================================================================
