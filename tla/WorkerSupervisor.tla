-------------------------- MODULE WorkerSupervisor --------------------------
(* The supervisor of one original game, as operations on its record: what  *)
(* it knows of the engine, the one command in flight, the one operator     *)
(* connection it serves, and why it stops the worker.                      *)
(*                                                                         *)
(* Every wait is bounded; an age says how far a wait has got, in steps the *)
(* code tells apart.  A command is named by the tool that asked for it:    *)
(* the supervisor's own numbering of commands only keeps their order.      *)
EXTENDS Naturals, Sequences

\* Tools are numbered from 1.
Nobody == 0
NothingAsked == [tool |-> Nobody, op |-> "none", epoch |-> 0]

\* Answers: local ones are the supervisor's own, the others the engine's.
Answer(command, result, local) == [command |-> command, result |-> result, local |-> local]
NoAnswer == Answer(NothingAsked, "none", TRUE)

\* The operator pipe: its one client, the command and the answer in it, and
\* whether the client has closed its end.
NewControl == [client |-> Nobody, request |-> <<>>, answer |-> <<>>, closed |-> FALSE]

NewSupervisor ==
  [heardOf |-> FALSE, heartbeat |-> "fresh", enginePipe |-> "open", lease |-> "none",
   pending |-> NothingAsked, asker |-> FALSE, asked |-> "fresh",
   control |-> NewControl, connected |-> FALSE,
   reply |-> NoAnswer, ready |-> FALSE, sent |-> FALSE,
   requested |-> FALSE, stopping |-> "fresh", failed |-> FALSE,
   toEngine |-> <<>>]

Pending(s) == s.pending # NothingAsked
Stale(s) == s.heartbeat # "fresh"

-----------------------------------------------------------------------------

\* Mutant: the next connection inherits the answer.
new_control_ready(s) == [s EXCEPT !.control = NewControl, !.connected = FALSE, !.sent = FALSE, !.asker = FALSE]

\* The current operator connection is replaced; what it asked is no longer its own.
new_control(s) ==
  [s EXCEPT !.control = NewControl, !.connected = FALSE, !.ready = FALSE, !.sent = FALSE,
            !.reply = NoAnswer, !.asker = FALSE]

\* Forced: the job is terminated and the reason published.
stop(s) == [s EXCEPT !.failed = TRUE]

\* A step of the tick: the record it leaves, and whether the tick goes on.
Goes(s) == [s |-> s, goes |-> TRUE]
Ends(s) == [s |-> s, goes |-> FALSE]

\* The supervisor's own answer is ready for the connection.
AnswerReady(s, command, result) == [s EXCEPT !.reply = Answer(command, result, TRUE), !.ready = TRUE]

\* The answer to the one command in flight, for the connection that asked.
accept_reply(s, message) ==
  IF ~Pending(s) \/ message.command # s.pending THEN Ends(stop(s))
  ELSE LET mine == s.asker /\ s.connected IN
       Goes([s EXCEPT !.reply = IF mine THEN Answer(message.command, message.result, FALSE) ELSE @,
                      !.ready = @ \/ mine, !.pending = NothingAsked, !.asked = "fresh", !.asker = FALSE])

\* A lease is announced in every status until the worker is replaced.
accept_engine_message(s, message) ==
  LET heard == [s EXCEPT !.heardOf = TRUE, !.heartbeat = "fresh"] IN
  CASE message.kind = "failed" -> Ends(stop(s))
    [] message.kind = "reply" -> accept_reply(heard, message)
    [] message.kind = "lease" -> Goes([heard EXCEPT !.lease = IF @ = "none" THEN "running" ELSE @])
    [] OTHER -> Goes(heard)

\* What has arrived is taken in order, until a message stops the worker.
receiving(s, messages) ==
  LET after[n \in 0..Len(messages)] ==
        IF n = 0 THEN Goes(s)
        ELSE LET step == after[n - 1] IN
             IF step.goes THEN accept_engine_message(step.s, messages[n]) ELSE step
  IN after
receive_engine(s, messages) == receiving(s, messages)[Len(messages)]

\* What ends the worker.  A native save or a lost coordinator can not extend
\* the lease; a worker told to stop has its own deadline.
Overdue(s) ==
  \/ s.lease = "over"
  \/ s.enginePipe = "lost" /\ ~s.requested /\ Stale(s)
  \/ s.heartbeat = "lost" /\ (~s.heardOf \/ ~s.requested)

engine_within_deadlines(s) == IF Overdue(s) THEN Ends(stop(s)) ELSE Goes(s)

\* One command is in flight at most; a pipe that broke since it was looked at
\* takes none.
forward_to_engine(s, command) ==
  IF s.enginePipe # "open" THEN AnswerReady([s EXCEPT !.enginePipe = "lost"], command, "failed")
  ELSE [s EXCEPT !.toEngine = <<command>>, !.pending = command, !.asker = TRUE, 
                 !.requested = @ \/ command.op = "shutdown",
                 !.stopping = IF command.op = "shutdown" THEN "fresh" ELSE @]

\* A status is answered here, and what can not reach the engine refused; an
\* operator may stop a worker that does not answer.
answer_control(s, command) ==
  LET unreachable == ~s.heardOf \/ Stale(s) \/ s.enginePipe = "lost" IN
  IF command.op = "status" THEN AnswerReady(s, command, "accepted")
  ELSE IF command.op = "shutdown" /\ ~s.requested /\ unreachable
  THEN AnswerReady([s EXCEPT !.requested = TRUE, !.failed = TRUE, !.stopping = "fresh"],
             command, "accepted")
  ELSE IF unreachable \/ s.requested THEN AnswerReady(s, command, "unavailable")
  ELSE forward_to_engine(s, command)

\* One connection carries one command; the next waits for the one in flight.
serve_control(s) ==
  LET met == [s EXCEPT !.connected = @ \/ s.control.client # Nobody]
      reads == met.connected /\ ~met.sent /\ ~met.ready /\ ~Pending(met)
  IN IF reads /\ met.control.request # <<>>
     THEN answer_control([met EXCEPT !.control.request = <<>>], Head(met.control.request))
     ELSE IF reads /\ met.control.closed THEN new_control(met)
     ELSE met

\* The ready answer is written, and a connection that closed, or idled for ten
\* seconds with nothing in flight, replaced.
flush_control(s, idled) ==
  LET writes == s.connected /\ s.ready /\ ~s.sent
      wrote == IF writes /\ ~s.control.closed THEN [s EXCEPT !.sent = TRUE, !.reply = NoAnswer, !.control.answer = <<s.reply>>] ELSE s
      gone == s.control.closed /\ (writes \/ s.sent)
  IN IF gone \/ (s.connected /\ idled /\ ~Pending(s)) THEN new_control(wrote) ELSE wrote

\* Mutant: a stop that was acknowledged is waited for without end.
finish_tick_trusting(s) == IF Pending(s) /\ s.asked = "over" THEN stop(s) ELSE s

\* A command not answered, or a stop not carried out, in fifteen seconds.
finish_tick(s) ==
  LET unanswered == Pending(s) /\ s.asked = "over"
      remains == s.requested /\ s.stopping = "over"
  IN IF unanswered \/ remains THEN stop(s) ELSE s

\* One tick, given what the engine has sent; a stage that stopped the worker is
\* the last.  Each is the set of the one record the stage leaves.
tick(s, messages, idled) ==
  LET received == {receive_engine(s, messages)}
      checked == {IF r.goes THEN engine_within_deadlines(r.s) ELSE r : r \in received}
      answered == {IF c.goes THEN Goes(serve_control(c.s)) ELSE c : c \in checked}
      flushed == {IF a.goes THEN Goes(flush_control(a.s, idled)) ELSE a : a \in answered}
  IN {IF f.goes THEN finish_tick(f.s) ELSE f.s : f \in flushed}

\* What is published once the process has ended.
exited(s, code) ==
  IF s.requested /\ s.failed THEN "stopped_forced"
  ELSE IF code = "zero" /\ s.requested THEN "stopped" ELSE "crashed"
=============================================================================
