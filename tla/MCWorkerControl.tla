--------------------------- MODULE MCWorkerControl ---------------------------
(* Small instances of WorkerControl.  The last scene epoch is one that a      *)
(* loaded scene changes to.                                                   *)
EXTENDS WorkerControl

\* One tool saves or loads, the other looks or stops the worker.
SaverAndStopper == <<{"save", "load"}, {"shutdown", "status"}>>
MCNext == ControlNext /\ (engine'.epoch = MaxEpoch => engine.epoch = MaxEpoch \/ engine.persistence = "loaded")
MCFairSpec == ControlInit /\ [][MCNext]_control_vars /\ Fairness
=============================================================================
