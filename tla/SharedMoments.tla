--------------------------- MODULE SharedMoments ----------------------------
(* What the game would show its one player is shown to the player it is      *)
(* about: a death and its confirmation, the two first tutorials, the lessons *)
(* of a hatched creature (native_death.cpp, native_hatch.cpp, the tutorials  *)
(* of native_award_context.cpp, and their packets in native_network.cpp and  *)
(* session.cpp).  The worker holds each moment back until that player's      *)
(* client has seen it through.  The first player's creature is the game's    *)
(* own; the second's has a death handler and a hatching drama of its own.    *)
(* Each end sends again about every second: a packet is on its way once.     *)
EXTENDS Integers, Sequences, SequencesExt, FiniteSets

CONSTANTS Foreign,      \* whether the second player can be of another species
          MaxDeaths,    \* bounds of one scene: deaths,
          MaxLessons,   \*   lessons,
          MaxFaults,    \*   and what goes wrong inside the original game
          MaxJoins,     \* baselines, of all connections and scenes
          MaxScenes     \* worker processes, one after another

ASSUME MomentsAssumption ==
  /\ Foreign \subseteq BOOLEAN /\ Foreign # {}
  /\ \A bound \in {MaxDeaths, MaxLessons, MaxFaults, MaxJoins, MaxScenes} : bound \in Nat

Slot == {1, 2}     \* the first player's creature and the second's
Token == {"dna", "part"}

\* What is offered: the first DNA, under the caption that the player's progress
\* calls for when it is raised, or the first part.
Tutorial == 1..3
TokenOf(t) == IF t = 3 THEN "part" ELSE "dna"

VARIABLES
  worker,     \* the authority's process: creatures, handlers, what is pending
  session,    \* what the location's session keeps of them
  clients,    \* each player's process
  up, down,   \* packets between each player and the session
  inbox,      \* confirmations on their way to the authority
  saved,      \* the tutorials on record in the last checkpoint
  seen        \* what is awaited and each player's process has seen through

vars == <<worker, session, clients, up, down, inbox, saved, seen>>

Packet(kind, base, n, what) == [kind |-> kind, base |-> base, n |-> n, what |-> what]
None == [s \in Slot |-> 0]
Nothing == [s \in Slot |-> {}]   \* no player has anything

-----------------------------------------------------------------------------
(* The worker's process.                                                     *)

NoHatch == [drama |-> "none", blocked |-> FALSE, serial |-> 0, active |-> FALSE,
            finished |-> FALSE, consumed |-> 0, answered |-> 0, twice |-> FALSE]

NewWorker(scene, foreign, recorded) ==
  [scene |-> scene, foreign |-> foreign, life |-> [s \in Slot |-> "alive"], baby |-> FALSE,
   handler |-> [s \in Slot |-> "none"], pending |-> None, observed |-> FALSE, blocked |-> FALSE,
   occurrence |-> 0, hatch |-> NoHatch,
   deferring |-> foreign, tutorial |-> None, recorded |-> recorded,
   showing |-> FALSE, refused |-> FALSE, faults |-> 0]

\* call_native_secondary_death: the second player's Stage can be selected.  A
\* second player of another species never has one.
Selectable(w) == ~w.foreign /\ w.life[2] # "gone"

observe_native_secondary_death(w) == w.observed \/ w.handler[2] = "none"

\* A death is held back for its player.  Where that fails the first player's
\* is shown on the worker, and the second's ends its handler for good.
begin_hook(w, s, good) ==
  IF good /\ w.pending[s] = 0
  THEN [w EXCEPT !.handler[s] = "waiting", !.occurrence = @ + 1, !.pending[s] = w.occurrence + 1]
  ELSE IF s = 2 THEN [w EXCEPT !.blocked = TRUE]
  ELSE [w EXCEPT !.handler[1] = "waiting", !.showing = TRUE]

secondary_action(w) ==
  IF w.handler[2] = "none" /\ Selectable(w) THEN [w EXCEPT !.handler[2] = "acted"] ELSE w
secondary_step(w, good) ==
  IF w.handler[2] = "acted" /\ Selectable(w) THEN begin_hook(w, 2, good) ELSE w

pending_native_death(w, s) ==
  IF w.life[s] = "corpse" /\ w.handler[s] = "waiting" THEN w.pending[s] ELSE 0

native_secondary_hatch_ready(w) ==
  ~w.hatch.blocked /\ ~w.baby /\ w.hatch.drama \in {"none", "over"}

begin_native_secondary_hatch(h) ==
  [h EXCEPT !.drama = "running", !.serial = @ + 1, !.active = FALSE, !.finished = FALSE, !.consumed = 0]

\* The drama did not start, or the first player's was touched.
end_native_secondary_hatch(h, good) == IF good THEN h ELSE [h EXCEPT !.blocked = TRUE]

secondary_restartable(w) ==
  /\ Selectable(w) /\ ~w.showing
  /\ w.life[2] = "corpse" /\ w.handler[2] = "waiting" /\ native_secondary_hatch_ready(w)

\* The original revives the creature at its nest, as a baby; the handler was
\* reset before.
secondary_revive(w, good) ==
  [w EXCEPT !.handler[2] = "reset", !.life[2] = "alive", !.baby = TRUE,
            !.hatch = end_native_secondary_hatch(begin_native_secondary_hatch(@), good)]

\* The original listener revives the first player's creature.
primary_restart(w) == [w EXCEPT !.handler[1] = "none", !.life[1] = "alive"]

\* Only an applied restart ends what is pending.
complete_native_death(w, s, good) ==
  IF s = 1 THEN [primary_restart(w) EXCEPT !.pending[1] = 0]
  ELSE IF ~secondary_restartable(w) THEN w
  ELSE IF ~good THEN secondary_revive(w, good)
  ELSE [secondary_revive(w, good) EXCEPT !.pending[2] = 0, !.handler[2] = "none", !.observed = FALSE]

\* Mutant: only what the second player still has to see is awaited.
idle_but_first_tutorial(w) ==
  /\ w.pending = None /\ ~w.observed /\ w.life[2] = "alive"
  /\ ~w.hatch.blocked /\ w.hatch.drama # "running" /\ ~w.baby
  /\ w.tutorial[2] = 0

checkpoint_idle(w) ==
  /\ w.pending = None /\ ~w.observed /\ w.life[2] = "alive"
  /\ ~w.hatch.blocked /\ w.hatch.drama # "running" /\ ~w.baby
  /\ w.tutorial = None

\* The call of the original is held back for its owner, before anything is
\* recorded.  A fossil gives the second player its part at any time.
tutorial_deferral(w, s, t, fossil) ==
  IF s = 2 THEN w.deferring \/ (TokenOf(t) = "part" /\ fossil)
  ELSE w.foreign /\ w.life[2] = "alive"

\* Mutant: another caption of the tutorial that is held back takes its place.
tutorial_hook_replacing(w, s, t, fossil) ==
  IF tutorial_deferral(w, s, t, fossil) /\ (w.tutorial[s] # 0 => TokenOf(w.tutorial[s]) = TokenOf(t))
  THEN [w EXCEPT !.tutorial[s] = t]
  ELSE [w EXCEPT !.recorded[s] = @ \cup {TokenOf(t)}]

\* What differs from what is held back already goes on as usual, and is
\* recorded by the original.
tutorial_hook(w, s, t, fossil) ==
  IF tutorial_deferral(w, s, t, fossil) /\ w.tutorial[s] \in {0, t}
  THEN [w EXCEPT !.tutorial[s] = t]
  ELSE [w EXCEPT !.recorded[s] = @ \cup {TokenOf(t)}]

pending_native_tutorial(w, s) ==
  IF w.life[2] = "alive" /\ (s = 1 => w.foreign /\ w.life[1] = "alive") THEN w.tutorial[s] ELSE 0

complete_native_tutorial(w, s) ==
  [w EXCEPT !.recorded[s] = @ \cup {TokenOf(w.tutorial[s])}, !.tutorial[s] = 0]

\* The second player's creature is lost: what is pending is cancelled, and
\* the game raises it again some day.
retire_native_awards(w) == [w EXCEPT !.tutorial = None, !.deferring = FALSE]

\* Mutant: the end of the drama keeps the last lesson's number.
captured_under_old_serial(h) ==
  IF h.drama = "over" /\ ~h.finished THEN [h EXCEPT !.active = FALSE, !.finished = TRUE] ELSE h

\* The end of the drama is a lesson of its own, with nothing to do.
captured(h) ==
  IF h.drama = "over" /\ ~h.finished
  THEN [h EXCEPT !.serial = @ + 1, !.active = FALSE, !.finished = TRUE] ELSE h

hatch_capturable(w) == ~w.hatch.blocked /\ w.hatch.serial # 0 /\ w.life[2] # "gone"

lesson_admitted(w, serial) ==
  /\ Selectable(w) /\ w.life[2] = "alive" /\ w.baby /\ w.hatch.drama = "running" /\ ~w.hatch.blocked
  /\ w.hatch.active /\ serial = w.hatch.serial

\* Mutant: a lesson is answered as long as it is shown.
apply_repeatedly(w, serial) ==
  IF lesson_admitted(w, serial)
  THEN [w EXCEPT !.hatch.consumed = serial, !.hatch.answered = serial,
                 !.hatch.twice = @ \/ serial <= w.hatch.answered]
  ELSE w

apply_native_hatch_input(w, serial) ==
  IF lesson_admitted(w, serial) /\ serial # w.hatch.consumed
  THEN [w EXCEPT !.hatch.consumed = serial, !.hatch.answered = serial,
                 !.hatch.twice = @ \/ serial <= w.hatch.answered]
  ELSE w

-----------------------------------------------------------------------------
(* The location's session, in one step with the authority's packet.         *)

NewSession ==
  [life |-> [s \in Slot |-> "alive"], deaths |-> None, tutorials |-> Nothing,
   hatch |-> [n |-> 0, what |-> ""], base |-> None, ready |-> [p \in Slot |-> FALSE], next |-> 1]

\* What becomes of a player's confirmation: it must be of what was offered;
\* one in flight after the revival can not revive again.
receive_death_done(s, p, packet) ==
  IF s.deaths[p] # packet.n \/ s.life[p] = "gone" THEN "reject"
  ELSE IF s.life[p] = "alive" THEN "ignore" ELSE "confirm"

receive_tutorial_done(s, p, packet) ==
  IF packet.n \notin s.tutorials[p] \/ s.life[p] # "alive" THEN "reject" ELSE "confirm"

receive_hatch_input(s, p, packet) ==
  IF s.life[p] = "gone" THEN "reject"
  ELSE IF s.hatch # [n |-> packet.n, what |-> packet.what] \/ s.life[p] # "alive" THEN "ignore"
  ELSE "confirm"

Verdict(s, p, packet) ==
  IF ~s.ready[p] \/ packet.base # s.base[p] THEN "ignore"
  ELSE CASE packet.kind = "death_done" -> receive_death_done(s, p, packet)
         [] packet.kind = "tutorial_done" -> receive_tutorial_done(s, p, packet)
         [] packet.kind = "hatch_input" -> receive_hatch_input(s, p, packet)

\* The authority's offer is refused, which would end its session.
receive_death_refused(s, p, n) == s.life[p] # "corpse" \/ n < s.deaths[p]
receive_tutorial_refused(s, p, t) ==
  s.life[p] # "alive" \/ \E old \in s.tutorials[p] : TokenOf(old) = TokenOf(t) /\ old # t
receive_hatch_refused(s, frame) ==
  s.life[2] # "alive" \/ (frame.n = s.hatch.n /\ frame # s.hatch)

-----------------------------------------------------------------------------
(* A player's process.                                                      *)

NoDeath == [n |-> 0, scene |-> 0, base |-> 0]
NoLesson == [n |-> 0, scene |-> 0, base |-> 0, complete |-> FALSE, due |-> FALSE]
NoFrame == [n |-> 0, what |-> ""]

NewClient ==
  [state |-> "away", scene |-> 0, base |-> 0, view |-> "alive",
   death |-> NoDeath, restart |-> FALSE, fading |-> FALSE,
   tutorial |-> NoLesson, screen |-> "idle",
   film |-> "none",          \* the cinematic that plays
   frame |-> NoFrame]        \* client_hatch

\* reset_native_death stops the fade, never a film that plays.
reset_native_death(c) ==
  [c EXCEPT !.death = NoDeath, !.restart = FALSE, !.fading = FALSE,
            !.film = IF @ = "death" THEN "stale" ELSE @]

\* The view fades back from black before the death is over for the player.
restore_native_death_view(c) ==
  IF c.fading THEN reset_native_death(c) ELSE [c EXCEPT !.fading = TRUE]

native_death_confirmed(c) == c.restart /\ c.film = "none"

present_native_death(c, packet) ==
  [c EXCEPT !.death = [n |-> packet.n, scene |-> c.scene, base |-> packet.base],
            !.restart = FALSE, !.film = "death"]
receive_death(c, packet) ==
  IF c.view # "corpse" THEN c
  ELSE IF c.death.n # 0
  THEN IF c.death.n = packet.n /\ c.death.scene = c.scene THEN [c EXCEPT !.death.base = packet.base] ELSE c
  ELSE IF c.film = "none" /\ c.screen # "active" THEN present_native_death(c, packet) ELSE c

present_native_tutorial(c, packet) ==
  [c EXCEPT !.tutorial = [n |-> packet.n, scene |-> c.scene, base |-> packet.base,
                          complete |-> FALSE, due |-> FALSE],
            !.screen = "active", !.film = "tutorial"]

\* Mutant: what is offered again under another baseline is taken for another.
receive_tutorial_anew(c, packet) ==
  IF c.view # "alive" THEN c
  ELSE IF c.tutorial.n = packet.n /\ c.tutorial.scene = c.scene /\ c.tutorial.base = packet.base
  THEN [c EXCEPT !.tutorial.due = @ \/ c.tutorial.complete]
  ELSE IF c.screen = "active" THEN c
  ELSE IF c.film = "none" THEN present_native_tutorial(c, packet) ELSE [c EXCEPT !.screen = "idle"]

receive_tutorial(c, packet) ==
  IF c.view # "alive" THEN c
  ELSE IF c.tutorial.n = packet.n /\ c.tutorial.scene = c.scene
  THEN [c EXCEPT !.tutorial.base = packet.base, !.tutorial.due = @ \/ c.tutorial.complete]
  ELSE IF c.screen = "active" THEN c
  ELSE IF c.film = "none" THEN present_native_tutorial(c, packet) ELSE [c EXCEPT !.screen = "idle"]

\* An older lesson never replaces a newer one.
receive_hatch(c, packet) ==
  IF c.view = "gone" \/ c.frame.n > packet.n THEN c
  ELSE [c EXCEPT !.frame = [n |-> packet.n, what |-> packet.what]]

receive_baseline(c, packet) ==
  [c EXCEPT !.state = "ready", !.scene = packet.n, !.base = packet.base, !.view = packet.what, !.frame = NoFrame]

\* quarantine: the process must be started again.
receive_reject(c) == [reset_native_death(c) EXCEPT !.state = "expelled", !.frame = NoFrame]

Received(c, packet) ==
  IF packet.kind = "baseline" THEN receive_baseline(c, packet)
  ELSE IF packet.kind = "reject" THEN receive_reject(c)
  ELSE IF c.state # "ready" \/ packet.base # c.base THEN c
  ELSE CASE packet.kind = "entity" -> [c EXCEPT !.view = packet.what]
         [] packet.kind = "death" -> receive_death(c, packet)
         [] packet.kind = "tutorial" -> receive_tutorial(c, packet)
         [] packet.kind = "hatch_view" -> receive_hatch(c, packet)

-----------------------------------------------------------------------------
Init ==
  /\ saved = Nothing
  /\ \E foreign \in Foreign : worker = NewWorker(1, foreign, saved)
  /\ session = NewSession
  /\ clients = [p \in Slot |-> NewClient]
  /\ up = [p \in Slot |-> <<>>] /\ down = [p \in Slot |-> <<>>] /\ inbox = <<>>
  /\ seen = {}

Serves == ~worker.refused
Awaited(w) == {<<s, "death", w.pending[s]>> : s \in Slot} \cup {<<s, "tutorial", w.tutorial[s]>> : s \in Slot}
ends == <<session, clients, up, down, inbox, saved, seen>>

\* The original game goes wrong where the bridge is prepared for it.
Becomes(w, good) ==
  /\ good \/ worker.faults < MaxFaults
  /\ worker' = IF good THEN w ELSE [w EXCEPT !.faults = @ + 1]

\* A packet that is not on its way yet.
Once(queue, packet) == packet \notin ToSet(queue)
SendDown(p, kind, n, what) == down' = [down EXCEPT ![p] = Append(@, Packet(kind, session.base[p], n, what))]
Offered(p, kind, n, what) ==
  IF session.ready[p] THEN Once(down[p], Packet(kind, session.base[p], n, what)) /\ SendDown(p, kind, n, what)
  ELSE UNCHANGED down

-----------------------------------------------------------------------------
(* The original game in the worker.                                         *)

\* Damage kills a player's creature; the second's death is observed.
damage_hook(s) ==
  /\ Serves /\ worker.life[s] = "alive"
  /\ worker.occurrence + Cardinality({t \in Slot : worker.life[t] = "corpse" /\ worker.handler[t] \in {"none", "acted"}})
       < MaxDeaths
  /\ worker' = [worker EXCEPT !.life[s] = "corpse",
                              !.observed = IF s = 2 THEN observe_native_secondary_death(worker) ELSE @]
  /\ UNCHANGED ends

\* The game's own handler begins with the first player's death.
PrimaryDeathBegins ==
  /\ Serves /\ worker.life[1] = "corpse" /\ worker.handler[1] = "none"
  /\ \E good \in BOOLEAN : Becomes(begin_hook(worker, 1, good), good)
  /\ UNCHANGED ends

\* The second player's handler is ticked by the bridge.
update_native_secondary_death ==
  /\ Serves /\ worker.observed /\ ~worker.blocked /\ worker.life[2] = "corpse"
  /\ worker.handler[2] \in {"none", "acted"} /\ Selectable(worker)
  /\ \E good \in BOOLEAN : Becomes(secondary_step(secondary_action(worker), good), good)
  /\ UNCHANGED ends

\* The game removes a corpse after a long time, but none whose player is
\* asked or about to be.
corpse_hook ==
  /\ Serves /\ worker.life[2] = "corpse" /\ pending_native_death(worker, 2) = 0
  /\ ~(worker.observed /\ ~worker.blocked /\ Selectable(worker) /\ worker.handler[2] \in {"none", "acted"})
  /\ worker' = retire_native_awards([worker EXCEPT !.life[2] = "gone"])
  /\ UNCHANGED ends

\* A tutorial of the original, as long as the player has it not on record.
TutorialRaised(s, t) ==
  /\ Serves /\ worker.life[s] = "alive" /\ TokenOf(t) \notin worker.recorded[s]
  /\ \E fossil \in BOOLEAN : worker' = tutorial_hook(worker, s, t, fossil)
  /\ UNCHANGED ends

\* A social exchange gives the second player a player's tutorials.
defer_native_secondary_tutorial ==
  /\ Serves /\ ~worker.deferring /\ worker.life[2] = "alive" /\ worker.tutorial[2] = 0
  /\ worker' = [worker EXCEPT !.deferring = TRUE]
  /\ UNCHANGED ends

\* The drama asks for an ability, which its player has to give.
offer_lesson ==
  /\ Serves /\ worker.hatch.drama = "running" /\ worker.life[2] = "alive" /\ Selectable(worker)
  /\ ~worker.hatch.blocked /\ worker.hatch.serial < MaxLessons
  /\ worker' = [worker EXCEPT !.hatch.serial = @ + 1, !.hatch.active = TRUE, !.hatch.finished = FALSE]
  /\ UNCHANGED ends

\* The original ends the drama and the creature grows up.
HatchEnds ==
  /\ Serves /\ worker.hatch.drama = "running" /\ ~worker.hatch.blocked
  /\ worker.life[2] = "alive" /\ Selectable(worker)
  /\ worker' = [worker EXCEPT !.hatch.drama = "over", !.baby = FALSE]
  /\ UNCHANGED ends

\* A call of the drama is refused, or has touched the first player's.
HatchBlocked ==
  /\ Serves /\ worker.hatch.drama = "running" /\ ~worker.hatch.blocked
  /\ Becomes([worker EXCEPT !.hatch.blocked = TRUE], FALSE)
  /\ UNCHANGED ends

\* The world is saved when no player is waited for.
WriteCheckpoint ==
  /\ Serves /\ checkpoint_idle(worker)
  /\ saved' = worker.recorded
  /\ UNCHANGED <<worker, session, clients, up, down, inbox, seen>>

\* The process dies; another loads the last save and publishes its scene.
WorkerReplaced ==
  /\ worker.scene < MaxScenes
  /\ worker' = NewWorker(worker.scene + 1, worker.foreign, saved)
  /\ LET number(p) == session.next + (IF p = 2 /\ session.base[1] # 0 THEN 1 ELSE 0)
         there == {p \in Slot : session.base[p] # 0}
     IN /\ session' = [NewSession EXCEPT !.base = [p \in Slot |-> IF p \in there THEN number(p) ELSE 0],
                                         !.next = session.next + Cardinality(there)]
        /\ down' = [p \in Slot |-> IF p \in there
                                   THEN Append(down[p], Packet("baseline", number(p), worker.scene + 1, "alive"))
                                   ELSE down[p]]
  /\ inbox' = <<>> /\ seen' = {}
  /\ UNCHANGED <<clients, up, saved>>

-----------------------------------------------------------------------------
(* The worker's bridge.                                                     *)

\* What became of a creature is published, in the order of its offers.
Publish(s) ==
  /\ Serves /\ session.life[s] # worker.life[s]
  /\ session' = [session EXCEPT !.life[s] = worker.life[s]]
  /\ IF session.base[s] # 0 THEN SendDown(s, "entity", 0, worker.life[s]) ELSE UNCHANGED down
  /\ UNCHANGED <<worker, clients, up, inbox, saved, seen>>

\* A location whose authority is refused is quarantined.
Refuses(condition) == worker' = IF condition THEN [worker EXCEPT !.refused = TRUE] ELSE worker

authority_death(s) == pending_native_death(worker, s) # 0 /\ session.life[s] = "corpse"

AuthorityOffersDeath(s) ==
  LET n == pending_native_death(worker, s)
      refused == receive_death_refused(session, s, n)
  IN /\ Serves /\ authority_death(s)
     /\ Refuses(refused)
     /\ session' = IF refused THEN session ELSE [session EXCEPT !.deaths[s] = n]
     /\ IF refused THEN UNCHANGED down ELSE Offered(s, "death", n, "")
     /\ session.deaths[s] = n => session.ready[s]
     /\ UNCHANGED <<clients, up, inbox, saved, seen>>

authority_tutorial(s) == pending_native_tutorial(worker, s) # 0 /\ session.life[s] = "alive"

AuthorityOffersTutorial(s) ==
  LET n == pending_native_tutorial(worker, s)
      refused == receive_tutorial_refused(session, s, n)
  IN /\ Serves /\ authority_tutorial(s)
     /\ Refuses(refused)
     /\ session' = IF refused THEN session ELSE [session EXCEPT !.tutorials[s] = @ \cup {n}]
     /\ IF refused THEN UNCHANGED down ELSE Offered(s, "tutorial", n, "")
     /\ n \in session.tutorials[s] => session.ready[s]
     /\ UNCHANGED <<clients, up, inbox, saved, seen>>

authority_hatch == hatch_capturable(worker) /\ session.life[2] = "alive"
Frame(h) == [n |-> h.serial, what |-> IF h.active THEN "lesson" ELSE "idle"]

AuthorityOffersHatch ==
  LET hatch == captured(worker.hatch)
      frame == Frame(hatch)
      refused == receive_hatch_refused(session, frame)
  IN /\ Serves /\ authority_hatch
     /\ worker' = [worker EXCEPT !.hatch = hatch, !.refused = refused]
     /\ session' = IF refused THEN session ELSE [session EXCEPT !.hatch = frame]
     /\ IF refused THEN UNCHANGED down ELSE Offered(2, "hatch_view", frame.n, frame.what)
     /\ frame = session.hatch => session.ready[2] /\ clients[2].frame # frame
     /\ UNCHANGED <<clients, up, inbox, saved, seen>>

\* Mutant: whatever death is pending is taken for the confirmed one.
death_confirmed_by_player(w, m) == pending_native_death(w, m.player) # 0

death_confirmed(w, m) == pending_native_death(w, m.player) = m.n

tutorial_confirmed(w, m) == pending_native_tutorial(w, m.player) = m.n

\* The first DNA of the second player also ends its social exchange first,
\* which can be too early.
AuthorityReceives ==
  LET m == Head(inbox) w == worker
  IN /\ Serves /\ inbox # <<>>
     /\ inbox' = Tail(inbox)
     /\ \/ /\ m.kind = "death_done"
           /\ \E good \in BOOLEAN :
                /\ Becomes(IF authority_death(m.player) /\ death_confirmed(w, m)
                           THEN complete_native_death(w, m.player, good) ELSE w, good)
        \/ /\ m.kind = "tutorial_done"
           /\ \E released \in {TRUE, m.player = 1 \/ TokenOf(m.n) # "dna"} :
                worker' = IF authority_tutorial(m.player) /\ tutorial_confirmed(w, m) /\ released
                          THEN complete_native_tutorial(w, m.player) ELSE w
        \/ /\ m.kind = "hatch_input"
           /\ worker' = IF authority_hatch THEN apply_native_hatch_input([w EXCEPT !.hatch = captured(@)], m.n) ELSE w
     /\ seen' = seen \cap Awaited(worker')
     /\ UNCHANGED <<session, clients, up, down, saved>>

-----------------------------------------------------------------------------
(* The session and the players.                                             *)

Join(p) ==
  /\ clients[p].state = "away" /\ session.next <= MaxJoins
  /\ session' = [session EXCEPT !.base[p] = session.next, !.ready[p] = FALSE, !.next = @ + 1]
  /\ down' = [down EXCEPT ![p] = <<Packet("baseline", session.next, worker.scene, session.life[p])>>]
  /\ up' = [up EXCEPT ![p] = <<>>]
  /\ clients' = [clients EXCEPT ![p].state = "joining"]
  /\ UNCHANGED <<worker, inbox, saved, seen>>

SessionReceives(p) ==
  LET packet == Head(up[p]) IN
  /\ up[p] # <<>>
  /\ up' = [up EXCEPT ![p] = Tail(@)]
  /\ IF packet.kind = "baseline_ack"
     THEN /\ session' = [session EXCEPT !.ready[p] = @ \/ (packet.base = session.base[p])]
          /\ UNCHANGED <<down, inbox>>
     ELSE LET verdict == Verdict(session, p, packet) IN
          /\ IF verdict = "reject" /\ Once(down[p], Packet("reject", session.base[p], 0, ""))
             THEN SendDown(p, "reject", 0, "") ELSE UNCHANGED down
          /\ inbox' = IF verdict = "confirm"
                      THEN Append(inbox, [kind |-> packet.kind, player |-> p, n |-> packet.n]) ELSE inbox
          /\ UNCHANGED session
  /\ UNCHANGED <<worker, clients, saved, seen>>

ClientReceives(p) ==
  LET packet == Head(down[p]) IN
  /\ down[p] # <<>> /\ clients[p].state \in {"joining", "ready"}
  /\ down' = [down EXCEPT ![p] = Tail(@)]
  /\ clients' = [clients EXCEPT ![p] = Received(clients[p], packet)]
  /\ up' = IF packet.kind = "baseline"
           THEN [up EXCEPT ![p] = Append(@, Packet("baseline_ack", packet.base, 0, ""))] ELSE up
  /\ UNCHANGED <<worker, session, inbox, saved, seen>>

Becoming(p, client) == clients' = [clients EXCEPT ![p] = client]
others == <<worker, session, down, inbox, saved>>

\* The film of a death ends with its player's confirmation, which counts while
\* the creature is still dead.
DeathFilmEnds(p) ==
  LET c == clients[p] IN
  /\ c.film = "death"
  /\ Becoming(p, [c EXCEPT !.film = "none", !.restart = c.view = "corpse"])
  /\ seen' = IF c.death.scene = worker.scene THEN seen \cup ({<<p, "death", c.death.n>>} \cap Awaited(worker)) ELSE seen
  /\ UNCHANGED <<others, up>>

TutorialFilmEnds(p) ==
  LET c == clients[p] IN
  /\ c.film = "tutorial"
  /\ Becoming(p, [c EXCEPT !.film = "none", !.screen = "completed"])
  /\ seen' = IF c.tutorial.scene = worker.scene
             THEN seen \cup ({<<p, "tutorial", c.tutorial.n>>} \cap Awaited(worker)) ELSE seen
  /\ UNCHANGED <<others, up>>

StaleFilmEnds(p) ==
  /\ clients[p].film = "stale"
  /\ Becoming(p, [clients[p] EXCEPT !.film = "none"])
  /\ UNCHANGED <<others, up, seen>>

Sends(p, packet) == Once(up[p], packet) /\ up' = [up EXCEPT ![p] = Append(@, packet)]

\* A scene or creature that is gone ends it; once the creature lives, its view
\* fades back; until then the confirmation is repeated.
update_death(p) ==
  LET c == clients[p] IN
  /\ c.state = "ready" /\ c.death.n # 0
  /\ \/ /\ c.death.scene # c.scene \/ c.view = "gone"
        /\ Becoming(p, reset_native_death(c)) /\ UNCHANGED up
     \/ /\ c.death.scene = c.scene /\ c.view = "alive" /\ native_death_confirmed(c)
        /\ Becoming(p, restore_native_death_view(c))
        /\ UNCHANGED up
     \/ /\ c.death.scene = c.scene /\ c.view = "corpse" /\ c.death.base = c.base /\ native_death_confirmed(c)
        /\ Sends(p, Packet("death_done", c.base, c.death.n, "")) /\ UNCHANGED clients
  /\ UNCHANGED <<others, seen>>

tutorial_completed(c) == c.screen = "completed"

update_tutorial(p) ==
  LET c == clients[p]
      ends_now == ~c.tutorial.complete /\ tutorial_completed(c)
  IN /\ c.state = "ready" /\ c.tutorial.n # 0 /\ c.view = "alive"
     /\ c.tutorial.scene = c.scene /\ c.tutorial.base = c.base
     /\ ends_now \/ c.tutorial.due
     /\ Sends(p, Packet("tutorial_done", c.base, c.tutorial.n, ""))
     /\ Becoming(p, [c EXCEPT !.tutorial.complete = TRUE, !.tutorial.due = FALSE])
     /\ UNCHANGED <<others, seen>>

\* The player gives the ability of the lesson it is shown, perhaps again.
native_network_hatch_input ==
  LET c == clients[2] IN
  /\ c.state = "ready" /\ c.view = "alive" /\ c.death.n = 0 /\ c.frame.what = "lesson"
  /\ Len(up[2]) < 2
  /\ up' = [up EXCEPT ![2] = Append(@, Packet("hatch_input", c.base, c.frame.n, "lesson"))]
  /\ UNCHANGED <<others, clients, seen>>

\* The connection is lost; the process goes on.
LinkLost(p) ==
  /\ clients[p].state \in {"joining", "ready"}
  /\ clients' = [clients EXCEPT ![p].state = "away", ![p].base = 0, ![p].frame = NoFrame]
  /\ session' = [session EXCEPT !.base[p] = 0, !.ready[p] = FALSE]
  /\ up' = [up EXCEPT ![p] = <<>>] /\ down' = [down EXCEPT ![p] = <<>>]
  /\ UNCHANGED <<worker, inbox, saved, seen>>

\* The player starts its game again, which takes longer than a packet.
StartAgain(p) ==
  /\ clients[p].state = "expelled"
  /\ \A i \in DOMAIN inbox : inbox[i].player # p
  /\ clients' = [clients EXCEPT ![p] = NewClient]
  /\ session' = [session EXCEPT !.base[p] = 0, !.ready[p] = FALSE]
  /\ up' = [up EXCEPT ![p] = <<>>] /\ down' = [down EXCEPT ![p] = <<>>]
  /\ seen' = {moment \in seen : moment[1] # p}
  /\ UNCHANGED <<worker, inbox, saved>>

-----------------------------------------------------------------------------
OriginalGame ==
  \/ PrimaryDeathBegins \/ update_native_secondary_death \/ corpse_hook
  \/ defer_native_secondary_tutorial \/ offer_lesson \/ HatchEnds \/ HatchBlocked
  \/ \E s \in Slot : damage_hook(s) \/ \E t \in Tutorial : TutorialRaised(s, t)

Bridge ==
  \/ AuthorityOffersHatch \/ AuthorityReceives
  \/ \E s \in Slot : Publish(s) \/ AuthorityOffersDeath(s) \/ AuthorityOffersTutorial(s)

Players ==
  \/ native_network_hatch_input
  \/ \E p \in Slot : \/ Join(p) \/ SessionReceives(p) \/ ClientReceives(p)
                     \/ DeathFilmEnds(p) \/ TutorialFilmEnds(p) \/ StaleFilmEnds(p)
                     \/ update_death(p) \/ update_tutorial(p) \/ LinkLost(p) \/ StartAgain(p)

Next == OriginalGame \/ Bridge \/ Players \/ WriteCheckpoint \/ WorkerReplaced

Spec == Init /\ [][Next]_vars

-----------------------------------------------------------------------------
\* A player watches a death or a tutorial only while its worker waits for it,
\* unless the second player's loss has cancelled it, and once: never again after
\* it has seen it through, however offers and connections are repeated.  And the
\* world is not saved while a player watches (checkpoint_idle).
WatchedIsAwaited ==
  \A p \in Slot :
    LET film == clients[p].film
        moment == IF film = "death" THEN clients[p].death ELSE clients[p].tutorial
    IN film \in {"death", "tutorial"} /\ moment.scene = worker.scene =>
         /\ <<p, film, moment.n>> \in Awaited(worker) \/ (film = "tutorial" /\ worker.life[2] = "gone")
         /\ <<p, film, moment.n>> \notin seen
         /\ ~checkpoint_idle(worker)

\* The session never refuses what the authority offers, which would end the
\* location: deaths, tutorials and lessons fit what it has published; and a lesson
\* is answered once, however often the player repeats the input.
AuthorityKeepsTheProtocol == ~worker.refused /\ ~worker.hatch.twice

\* What a player must see ends only when that player has seen it through: a dead
\* creature comes back to life in its scene after its own player saw that very
\* death, and a tutorial that is held back waits until its player saw it, unless
\* the second player's loss cancels it.
Revived(s) ==
  worker.life[s] = "corpse" /\ worker.life'[s] = "alive" => <<s, "death", worker.pending[s]>> \in seen
Taught(s) ==
  worker.tutorial[s] \notin {0, worker'.tutorial[s]} /\ worker'.life[2] # "gone" =>
    <<s, "tutorial", worker.tutorial[s]>> \in seen
SeenThrough ==
  [][worker.scene' = worker.scene => \A s \in Slot : Revived(s) /\ Taught(s)]_vars
=============================================================================
