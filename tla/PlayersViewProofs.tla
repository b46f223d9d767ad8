--------------------------- MODULE PlayersViewProofs ---------------------------
(***************************************************************************)
(* What a player sees, proved for any number of deaths, lessons, failures, *)
(* connections and scenes, any nouns and any loads of the game.            *)
(*                                                                         *)
(* The moments shown to the player they are about: the inductive invariant *)
(* follows a confirmation from the player that saw a moment through to the *)
(* authority that acts on it: whatever says that a player is done,         *)
(* wherever it is, says it of something that player has seen if it is      *)
(* still what the worker waits for.  What is on its way was said of an     *)
(* earlier state of the worker; it stays true as that worker only goes     *)
(* forward (Advances), and a new one numbers its connections after all     *)
(* that came before.                                                       *)
(*                                                                         *)
(* The scene in a player's own game: a live binding has a noun of its own  *)
(* (LiveOK), and in a game that is ready every noun but fruit stands for   *)
(* an entity that is followed (Follows).  A baseline is proved step by     *)
(* step (PreparedIs, MatchedIs, RealizeIs, RemovedIs), the entities of it  *)
(* one number after another (Realized).  On the authority, what is         *)
(* remembered of a noun is what it was first captured under.               *)
(***************************************************************************)
EXTENDS SharedMoments, SceneProjection, FiniteSetTheorems, WellFoundedInduction, TLAPS

Life == {"alive", "corpse", "gone"}

\* What a packet says in a word: a creature's state, or a lesson's.
Words == Life \cup {"", "lesson", "idle"}

Hatch == [drama : {"none", "running", "over"}, blocked : BOOLEAN, serial : Nat,
          active : BOOLEAN, finished : BOOLEAN, consumed : Nat, answered : Nat,
          twice : BOOLEAN]

Worker == [scene : Nat \ {0}, foreign : BOOLEAN, life : [Slot -> Life], baby : BOOLEAN,
           handler : [Slot -> {"none", "acted", "waiting", "reset"}],
           pending : [Slot -> Nat], observed : BOOLEAN, blocked : BOOLEAN,
           occurrence : Nat, hatch : Hatch, deferring : BOOLEAN,
           tutorial : [Slot -> {0} \cup Tutorial], recorded : [Slot -> SUBSET Token],
           showing : BOOLEAN, refused : BOOLEAN, faults : Nat]

HatchFrame == [n : Nat, what : Words]

Session == [life : [Slot -> Life], deaths : [Slot -> Nat],
            tutorials : [Slot -> SUBSET Tutorial], hatch : HatchFrame,
            base : [Slot -> Nat], ready : [Slot -> BOOLEAN], next : Nat \ {0}]

Client == [state : {"away", "joining", "ready", "expelled"}, scene : Nat, base : Nat,
           view : Words, death : [n : Nat, scene : Nat, base : Nat],
           restart : BOOLEAN, fading : BOOLEAN,
           tutorial : [n : Nat, scene : Nat, base : Nat, complete : BOOLEAN, due : BOOLEAN],
           screen : {"idle", "active", "completed"},
           film : {"none", "death", "tutorial", "stale"}, frame : HatchFrame]

Confirmations == {"death_done", "tutorial_done", "hatch_input"}
ToPlayer == [kind : {"baseline", "reject", "entity", "death", "tutorial", "hatch_view"},
             base : Nat, n : Nat, what : Words]
ToSession == [kind : Confirmations \cup {"baseline_ack"}, base : Nat, n : Nat, what : Words]
ToAuthority == [kind : Confirmations, player : Slot, n : Nat]

Save == [Slot -> SUBSET Token]

-----------------------------------------------------------------------------
(* The worker, and what the session keeps of its offers.                     *)

DeathNumbers(w) == \A s \in Slot : w.pending[s] <= w.occurrence

\* What is held back is given up with the second player's creature.
HeldBack(w) == \A s \in Slot : w.tutorial[s] # 0 => w.life[2] # "gone"

Lessons(h) ==
  /\ ~h.twice /\ h.answered <= h.serial
  /\ h.active /\ h.answered = h.serial => h.consumed = h.serial

WorkerOK(w) == DeathNumbers(w) /\ HeldBack(w) /\ Lessons(w.hatch) /\ ~w.refused

DeathsOffered(w, s) ==
  \A p \in Slot :
    s.deaths[p] <= w.occurrence /\ (w.pending[p] # 0 => s.deaths[p] <= w.pending[p])

\* What was offered is still held back or is on record since, and nothing else
\* of its kind is held back.
TutorialsOffered(w, s) ==
  w.life[2] # "gone" =>
    \A p \in Slot : \A o \in s.tutorials[p] :
      \/ o = w.tutorial[p]
      \/ /\ TokenOf(o) \in w.recorded[p]
         /\ w.tutorial[p] # 0 => TokenOf(o) # TokenOf(w.tutorial[p])

HatchOffered(h, frame) ==
  /\ frame.n <= h.serial
  /\ frame.n = h.serial /\ frame.n # 0 => frame = Frame(h)

Connections(s) == \A p \in Slot : s.base[p] < s.next /\ (s.ready[p] => s.base[p] # 0)

SessionOK(w, s) ==
  DeathsOffered(w, s) /\ TutorialsOffered(w, s) /\ HatchOffered(w.hatch, s.hatch) /\ Connections(s)

-----------------------------------------------------------------------------
(* What a death's or a tutorial's number `n` is worth, said of player `p`    *)
(* by whatever carries it, with `S` for what has been seen.                  *)

DeathKnown(w, n) == n <= w.occurrence
DeathSeen(w, p, n, S) ==
  DeathKnown(w, n) /\ (n # 0 /\ n = w.pending[p] => <<p, "death", n>> \in S)

TutorialKnown(w, p, n) ==
  n # 0 => n = w.tutorial[p] \/ TokenOf(n) \in w.recorded[p] \/ w.life[2] = "gone"
TutorialSeen(w, p, n, S) ==
  TutorialKnown(w, p, n) /\ (n # 0 /\ n = w.tutorial[p] => <<p, "tutorial", n>> \in S)

\* A client is in the scene its baseline was of, and a film it has seen to the
\* end is one its player has seen through.
ClientConnected(w, s, p, c) ==
  /\ c.state \in {"joining", "ready"} => s.base[p] # 0
  /\ c.state = "ready" => c.base # 0
  /\ c.scene <= w.scene /\ c.base < s.next
  /\ c.state = "ready" => (c.scene = w.scene <=> c.base = s.base[p])

ClientDeath(w, p, c, S) ==
  /\ c.death.scene <= w.scene
  /\ c.death.scene = w.scene =>
       DeathKnown(w, c.death.n) /\ (c.restart => DeathSeen(w, p, c.death.n, S))

ClientTutorial(w, p, c, S) ==
  /\ c.tutorial.scene <= w.scene
  /\ c.tutorial.due => c.tutorial.complete
  /\ c.tutorial.scene = w.scene =>
       /\ TutorialKnown(w, p, c.tutorial.n)
       /\ c.tutorial.complete \/ c.screen = "completed" => TutorialSeen(w, p, c.tutorial.n, S)

ClientOK(w, s, p, c, S) ==
  ClientConnected(w, s, p, c) /\ ClientDeath(w, p, c, S) /\ ClientTutorial(w, p, c, S)

DownOK(w, s, p, m) ==
  /\ m.base # 0 /\ m.base < s.next
  /\ m.kind = "baseline" => m.n <= w.scene /\ (m.n = w.scene <=> m.base = s.base[p])
  /\ m.base = s.base[p] =>
       /\ m.kind = "death" => DeathKnown(w, m.n)
       /\ m.kind = "tutorial" => TutorialKnown(w, p, m.n)

UpOK(w, s, p, m, S) ==
  /\ m.base # 0 /\ m.base < s.next
  /\ m.base = s.base[p] =>
       /\ m.kind = "death_done" => DeathSeen(w, p, m.n, S)
       /\ m.kind = "tutorial_done" => TutorialSeen(w, p, m.n, S)

InboxOK(w, m, S) ==
  /\ m.kind = "death_done" => DeathSeen(w, m.player, m.n, S)
  /\ m.kind = "tutorial_done" => TutorialSeen(w, m.player, m.n, S)

\* The packets that may be on their way.
Down(w, s, p) == {m \in ToPlayer : DownOK(w, s, p, m)}
Up(w, s, p, S) == {m \in ToSession : UpOK(w, s, p, m, S)}
Inbox(w, S) == {m \in ToAuthority : InboxOK(w, m, S)}

-----------------------------------------------------------------------------
StateInv ==
  /\ worker \in Worker /\ WorkerOK(worker)
  /\ session \in Session /\ SessionOK(worker, session)
  /\ saved \in Save

ClientsInv ==
  /\ clients \in [Slot -> Client]
  /\ \A p \in Slot : ClientOK(worker, session, p, clients[p], seen)

PacketsInv ==
  /\ down \in [Slot -> Seq(ToPlayer)] /\ up \in [Slot -> Seq(ToSession)]
  /\ \A p \in Slot : /\ down[p] \in Seq(Down(worker, session, p))
                     /\ up[p] \in Seq(Up(worker, session, p, seen))
  /\ inbox \in Seq(Inbox(worker, seen))

MomentsInv == StateInv /\ ClientsInv /\ PacketsInv

-----------------------------------------------------------------------------
(* How one worker's process goes forward.                                    *)

Advances(w, v) ==
  /\ v.scene = w.scene /\ w.occurrence <= v.occurrence
  /\ w.life[2] = "gone" => v.life[2] = "gone"
  /\ \A p \in Slot :
       /\ v.pending[p] \in {w.pending[p], 0} \/ v.pending[p] > w.occurrence
       /\ w.recorded[p] \subseteq v.recorded[p]
       /\ w.tutorial[p] # 0 =>
            \/ v.tutorial[p] = w.tutorial[p]
            \/ v.tutorial[p] = 0 /\ TokenOf(w.tutorial[p]) \in v.recorded[p]
            \/ v.life[2] = "gone"
       /\ v.tutorial[p] \notin {0, w.tutorial[p]} => TokenOf(v.tutorial[p]) \notin w.recorded[p]
  /\ \/ w.hatch.serial < v.hatch.serial
     \/ w.hatch.serial = v.hatch.serial /\ w.hatch.active = v.hatch.active

\* Nothing a player must see ends in the step.
NothingEnds(w, v) ==
  \A s \in Slot : /\ ~(w.life[s] = "corpse" /\ v.life[s] = "alive")
                  /\ w.tutorial[s] \notin {0, v.tutorial[s]} => v.life[2] = "gone"

LEMMA SeqGrows ==
  ASSUME NEW X, NEW Y, X \subseteq Y, NEW q \in Seq(X) PROVE q \in Seq(Y)
  OBVIOUS

LEMMA DeathSeenAdvances ==
  ASSUME NEW w \in Worker, NEW v \in Worker, WorkerOK(v), Advances(w, v),
         NEW p \in Slot, NEW n \in Nat, NEW S, NEW T, S \cap Awaited(v) \subseteq T
  PROVE  /\ DeathKnown(w, n) => DeathKnown(v, n)
         /\ DeathSeen(w, p, n, S) => DeathSeen(v, p, n, T)
<1>1. DeathKnown(w, n) => DeathKnown(v, n)  BY DEF DeathKnown, Advances, Worker
<1>2. ASSUME DeathSeen(w, p, n, S), n # 0, n = v.pending[p] PROVE <<p, "death", n>> \in T
  <2>1. n <= w.occurrence /\ v.pending[p] = w.pending[p]
    BY <1>2 DEF DeathSeen, DeathKnown, Advances, Worker
  <2>2. <<p, "death", n>> \in S  BY <1>2, <2>1 DEF DeathSeen
  <2>3. <<p, "death", n>> \in Awaited(v)  BY <1>2 DEF Awaited
  <2> QED BY <2>2, <2>3
<1> QED BY <1>1, <1>2 DEF DeathSeen

LEMMA TutorialSeenAdvances ==
  ASSUME NEW w \in Worker, NEW v \in Worker, WorkerOK(v), Advances(w, v),
         NEW p \in Slot, NEW n \in Nat, NEW S, NEW T, S \cap Awaited(v) \subseteq T
  PROVE  /\ TutorialKnown(w, p, n) => TutorialKnown(v, p, n)
         /\ TutorialSeen(w, p, n, S) => TutorialSeen(v, p, n, T)
<1>1. TutorialKnown(w, p, n) => TutorialKnown(v, p, n)  BY DEF TutorialKnown, Advances
<1>2. ASSUME TutorialSeen(w, p, n, S), n # 0, n = v.tutorial[p] PROVE <<p, "tutorial", n>> \in T
  <2>1. v.life[2] # "gone" /\ w.life[2] # "gone"
    BY <1>2 DEF WorkerOK, HeldBack, Advances
  <2>2. n = w.tutorial[p]
    BY <1>2, <2>1 DEF TutorialSeen, TutorialKnown, Advances
  <2>3. <<p, "tutorial", n>> \in S  BY <1>2, <2>2 DEF TutorialSeen
  <2>4. <<p, "tutorial", n>> \in Awaited(v)  BY <1>2 DEF Awaited
  <2> QED BY <2>3, <2>4
<1> QED BY <1>1, <1>2 DEF TutorialSeen

LEMMA SessionAdvances ==
  ASSUME NEW w \in Worker, NEW v \in Worker, Advances(w, v),
         NEW s \in Session, SessionOK(w, s)
  PROVE  SessionOK(v, s)
<1>1. DeathsOffered(v, s)
  <2> SUFFICES ASSUME NEW p \in Slot
      PROVE s.deaths[p] <= v.occurrence /\ (v.pending[p] # 0 => s.deaths[p] <= v.pending[p])
    BY DEF DeathsOffered
  <2>1. s.deaths[p] <= w.occurrence /\ (w.pending[p] # 0 => s.deaths[p] <= w.pending[p])
    BY DEF SessionOK, DeathsOffered
  <2>2. s.deaths[p] \in Nat /\ w.occurrence \in Nat /\ v.occurrence \in Nat
        /\ w.pending[p] \in Nat /\ v.pending[p] \in Nat
    BY DEF Session, Worker
  <2> QED BY <2>1, <2>2 DEF Advances
<1>2. HatchOffered(v.hatch, s.hatch)
  <2>1. w.hatch \in Hatch /\ v.hatch \in Hatch /\ s.hatch \in HatchFrame
    BY DEF Worker, Session
  <2>2. HatchOffered(w.hatch, s.hatch)  BY DEF SessionOK
  <2> QED BY <2>1, <2>2 DEF Advances, HatchOffered, Frame, Hatch, HatchFrame
<1>3. TutorialsOffered(v, s)
  <2> SUFFICES ASSUME v.life[2] # "gone", NEW p \in Slot, NEW o \in s.tutorials[p]
      PROVE \/ o = v.tutorial[p]
            \/ /\ TokenOf(o) \in v.recorded[p]
               /\ v.tutorial[p] # 0 => TokenOf(o) # TokenOf(v.tutorial[p])
    BY DEF TutorialsOffered
  <2>1. \/ o = w.tutorial[p]
        \/ /\ TokenOf(o) \in w.recorded[p]
           /\ w.tutorial[p] # 0 => TokenOf(o) # TokenOf(w.tutorial[p])
    BY DEF SessionOK, TutorialsOffered, Advances
  <2>2. o # 0  BY DEF Session, Tutorial
  <2> QED BY <2>1, <2>2 DEF Advances
<1> QED BY <1>1, <1>2, <1>3 DEF SessionOK

LEMMA ClientAdvances ==
  ASSUME NEW w \in Worker, NEW v \in Worker, WorkerOK(v), Advances(w, v),
         NEW p \in Slot, NEW S, NEW T, S \cap Awaited(v) \subseteq T,
         NEW s \in Session, NEW c \in Client, ClientOK(w, s, p, c, S)
  PROVE  ClientOK(v, s, p, c, T)
<1>1. v.scene = w.scene  BY DEF Advances
<1>2. ClientConnected(v, s, p, c)  BY <1>1 DEF ClientOK, ClientConnected
<1>3. c.death.n \in Nat /\ c.tutorial.n \in Nat  BY DEF Client
<1>4. ClientDeath(v, p, c, T)
  BY <1>1, <1>3, DeathSeenAdvances DEF ClientOK, ClientDeath
<1>5. ClientTutorial(v, p, c, T)
  BY <1>1, <1>3, TutorialSeenAdvances DEF ClientOK, ClientTutorial
<1> QED BY <1>2, <1>4, <1>5 DEF ClientOK

LEMMA PacketsAdvance ==
  ASSUME NEW w \in Worker, NEW v \in Worker, WorkerOK(v), Advances(w, v),
         NEW S, NEW T, S \cap Awaited(v) \subseteq T, NEW s \in Session
  PROVE  /\ \A p \in Slot : Down(w, s, p) \subseteq Down(v, s, p)
         /\ \A p \in Slot : Up(w, s, p, S) \subseteq Up(v, s, p, T)
         /\ Inbox(w, S) \subseteq Inbox(v, T)
<1>1. v.scene = w.scene  BY DEF Advances
<1>2. ASSUME NEW p \in Slot, NEW m \in Down(w, s, p) PROVE m \in Down(v, s, p)
  <2>1. m \in ToPlayer /\ m.n \in Nat /\ DownOK(w, s, p, m)  BY DEF Down, ToPlayer
  <2>2. DownOK(v, s, p, m)
    BY <1>1, <2>1, DeathSeenAdvances, TutorialSeenAdvances DEF DownOK
  <2> QED BY <2>1, <2>2 DEF Down
<1>3. ASSUME NEW p \in Slot, NEW m \in Up(w, s, p, S) PROVE m \in Up(v, s, p, T)
  <2>1. m \in ToSession /\ m.n \in Nat /\ UpOK(w, s, p, m, S)  BY DEF Up, ToSession
  <2>2. UpOK(v, s, p, m, T)
    BY <2>1, DeathSeenAdvances, TutorialSeenAdvances DEF UpOK
  <2> QED BY <2>1, <2>2 DEF Up
<1>4. ASSUME NEW m \in Inbox(w, S) PROVE m \in Inbox(v, T)
  <2>1. m \in ToAuthority /\ m.n \in Nat /\ m.player \in Slot /\ InboxOK(w, m, S)
    BY DEF Inbox, ToAuthority
  <2>2. InboxOK(v, m, T)
    BY <2>1, DeathSeenAdvances, TutorialSeenAdvances DEF InboxOK
  <2> QED BY <2>1, <2>2 DEF Inbox
<1> QED BY <1>2, <1>3, <1>4

\* A step of the worker's process alone, or with the first packet of its inbox.
LEMMA WorkerMoves ==
  ASSUME MomentsInv, worker' \in Worker, WorkerOK(worker'), Advances(worker, worker'),
         UNCHANGED <<session, clients, up, down, saved>>,
         seen \cap Awaited(worker') \subseteq seen',
         inbox' = inbox \/ (inbox # <<>> /\ inbox' = Tail(inbox))
  PROVE  MomentsInv'
<1>1. StateInv'
  BY SessionAdvances DEF MomentsInv, StateInv
<1>2. ClientsInv'
  BY ClientAdvances DEF MomentsInv, StateInv, ClientsInv
<1>3. PacketsInv'
  <2>0. worker \in Worker /\ session \in Session  BY DEF MomentsInv, StateInv
  <2>1. /\ \A p \in Slot : Down(worker, session, p) \subseteq Down(worker', session, p)
        /\ \A p \in Slot : Up(worker, session, p, seen) \subseteq Up(worker', session, p, seen')
        /\ Inbox(worker, seen) \subseteq Inbox(worker', seen')
    BY <2>0, PacketsAdvance
  <2>2. \A p \in Slot : down[p] \in Seq(Down(worker', session, p))
    BY <2>1, SeqGrows DEF MomentsInv, PacketsInv
  <2>3. \A p \in Slot : up[p] \in Seq(Up(worker', session, p, seen'))
    BY <2>1, SeqGrows DEF MomentsInv, PacketsInv
  <2>4. inbox' \in Seq(Inbox(worker, seen))
    <3> DEFINE X == Inbox(worker, seen)
    <3>1. inbox \in Seq(X)  BY DEF MomentsInv, PacketsInv
    <3> HIDE DEF X
    <3>2. inbox # <<>> => Tail(inbox) \in Seq(X)  BY <3>1
    <3>3. inbox' \in Seq(X)  BY <3>1, <3>2
    <3> QED BY <3>3 DEF X
  <2>5. inbox' \in Seq(Inbox(worker', seen'))  BY <2>1, <2>4, SeqGrows
  <2> QED BY <2>2, <2>3, <2>5 DEF MomentsInv, PacketsInv
<1> QED BY <1>1, <1>2, <1>3 DEF MomentsInv
-----------------------------------------------------------------------------
(* The original game, one lemma for each of its steps.                       *)

Goes(w, v) == v \in Worker /\ WorkerOK(v) /\ Advances(w, v) /\ NothingEnds(w, v)

LEMMA StaysTyped ==
  ASSUME NEW w \in Worker
  PROVE  /\ w.scene \in Nat /\ w.occurrence \in Nat /\ w.faults \in Nat /\ w.hatch \in Hatch
         /\ w.hatch.serial \in Nat /\ w.hatch.consumed \in Nat /\ w.hatch.answered \in Nat
         /\ \A s \in Slot : /\ w.pending[s] \in Nat /\ w.tutorial[s] \in {0} \cup Tutorial
                            /\ w.recorded[s] \subseteq Token
                            /\ w.life[s] \in Life
  BY DEF Worker, Hatch

\* A step that touches neither what is pending nor what is recorded, and revives
\* nobody.
LEMMA SameMoments ==
  ASSUME NEW w \in Worker, NEW v \in Worker, WorkerOK(w),
         v.scene = w.scene, v.occurrence = w.occurrence, v.pending = w.pending,
         v.tutorial = w.tutorial, v.recorded = w.recorded, v.refused = w.refused,
         \A s \in Slot : w.life[s] = v.life[s] \/ (w.life[s] = "alive" /\ v.life[s] = "corpse"),
         Lessons(v.hatch),
         \/ w.hatch.serial < v.hatch.serial
         \/ w.hatch.serial = v.hatch.serial /\ w.hatch.active = v.hatch.active
  PROVE  Goes(w, v)
<1> USE StaysTyped
<1>1. WorkerOK(v)  BY DEF WorkerOK, DeathNumbers, HeldBack, Slot
<1>2. Advances(w, v)  BY DEF Advances, Slot
<1>3. NothingEnds(w, v)  BY DEF NothingEnds, WorkerOK, HeldBack
<1> QED BY <1>1, <1>2, <1>3 DEF Goes

LEMMA FaultGoes ==
  ASSUME NEW w \in Worker, NEW v, Goes(w, v), NEW good, Becomes(v, good), worker = w
  PROVE  Goes(w, worker')
<1>1. v \in Worker  BY DEF Goes
<1>2. CASE worker' = v  BY <1>2
<1>3. CASE worker' = [v EXCEPT !.faults = @ + 1]
  <2>1. worker' \in Worker  BY <1>1, <1>3 DEF Worker
  <2>2. WorkerOK(worker')
    BY <1>1, <1>3 DEF Goes, WorkerOK, DeathNumbers, HeldBack, Worker
  <2>3. Advances(w, worker')  BY <1>1, <1>3 DEF Goes, Advances, Worker
  <2>4. NothingEnds(w, worker')  BY <1>1, <1>3 DEF Goes, NothingEnds, Worker
  <2> QED BY <2>1, <2>2, <2>3, <2>4 DEF Goes
<1> QED BY <1>2, <1>3 DEF Becomes

LEMMA DamageGoes ==
  ASSUME NEW s \in Slot, worker \in Worker, WorkerOK(worker), damage_hook(s)
  PROVE  Goes(worker, worker')
<1>1. worker' \in Worker
  BY DEF damage_hook, Worker, Life, observe_native_secondary_death
<1>2. worker'.life = [worker.life EXCEPT ![s] = "corpse"] /\ worker.life[s] = "alive"
  BY DEF damage_hook, Worker
<1>3. /\ worker'.scene = worker.scene /\ worker'.hatch = worker.hatch
      /\ worker'.tutorial = worker.tutorial /\ worker'.recorded = worker.recorded
      /\ worker'.refused = worker.refused
      /\ worker'.occurrence = worker.occurrence /\ worker'.pending = worker.pending
  BY DEF damage_hook, Worker
<1>4. \A t \in Slot : worker.life[t] = worker'.life[t]
                      \/ (worker.life[t] = "alive" /\ worker'.life[t] = "corpse")
  BY <1>2 DEF Worker
<1> QED BY <1>1, <1>3, <1>4, SameMoments DEF WorkerOK

LEMMA BeginGoes ==
  ASSUME NEW w \in Worker, WorkerOK(w), NEW s \in Slot, NEW good \in BOOLEAN
  PROVE  Goes(w, begin_hook(w, s, good))
<1> DEFINE v == begin_hook(w, s, good)
<1>1. CASE good /\ w.pending[s] = 0
  <2>1. v = [w EXCEPT !.handler[s] = "waiting", !.occurrence = @ + 1, !.pending[s] = w.occurrence + 1]
    BY <1>1 DEF begin_hook
  <2> HIDE DEF v
  <2>2. v \in Worker
    <3> DEFINE H == [w.handler EXCEPT ![s] = "waiting"]
               P == [w.pending EXCEPT ![s] = w.occurrence + 1]
               O == w.occurrence + 1
    <3>1. v = [w EXCEPT !.handler = H, !.occurrence = O, !.pending = P]
      BY <2>1 DEF Worker
    <3>2. H \in [Slot -> {"none", "acted", "waiting", "reset"}] /\ P \in [Slot -> Nat] /\ O \in Nat
      BY DEF Worker
    <3> HIDE DEF H, P, O
    <3> QED BY <3>1, <3>2 DEF Worker
  <2>3. v.occurrence = w.occurrence + 1 /\ v.pending = [w.pending EXCEPT ![s] = w.occurrence + 1]
    BY <2>1 DEF Worker
  <2>4. /\ v.scene = w.scene /\ v.life = w.life /\ v.hatch = w.hatch /\ v.tutorial = w.tutorial
        /\ v.recorded = w.recorded  /\ v.refused = w.refused
    BY <2>1 DEF Worker
  <2>5. w.pending \in [Slot -> Nat] /\ w.occurrence \in Nat  BY DEF Worker
  <2>6. WorkerOK(v)
    BY <2>3, <2>4, <2>5 DEF WorkerOK, DeathNumbers, HeldBack
  <2>7. Advances(w, v)  BY <2>3, <2>4, <2>5 DEF Advances
  <2>8. NothingEnds(w, v)  BY <2>4 DEF NothingEnds, WorkerOK, HeldBack
  <2> QED BY <2>2, <2>6, <2>7, <2>8 DEF Goes, v
<1>2. CASE ~(good /\ w.pending[s] = 0)
  <2> DEFINE H == [w.handler EXCEPT ![1] = "waiting"]
  <2>0. H \in [Slot -> {"none", "acted", "waiting", "reset"}]  BY DEF Worker, Slot
  <2>1. \/ v = [w EXCEPT !.blocked = TRUE]
        \/ v = [w EXCEPT !.handler = H, !.showing = TRUE]
    BY <1>2 DEF begin_hook, Worker
  <2> HIDE DEF v, H
  <2> DEFINE Same == /\ v.scene = w.scene /\ v.life = w.life /\ v.hatch = w.hatch
                     /\ v.tutorial = w.tutorial /\ v.recorded = w.recorded 
                     /\ v.refused = w.refused /\ v.occurrence = w.occurrence
                     /\ v.pending = w.pending
  <2>2. ASSUME v = [w EXCEPT !.blocked = TRUE] PROVE Goes(w, v)
    <3>1. v \in Worker  BY <2>2 DEF Worker
    <3>2. Same  BY <2>2 DEF Worker
    <3> QED BY <3>1, <3>2, SameMoments DEF WorkerOK
  <2>3. ASSUME v = [w EXCEPT !.handler = H, !.showing = TRUE] PROVE Goes(w, v)
    <3>1. v \in Worker  BY <2>0, <2>3 DEF Worker
    <3>2. Same  BY <2>3 DEF Worker
    <3> QED BY <3>1, <3>2, SameMoments DEF WorkerOK
  <2>4. Goes(w, v)  BY <2>1, <2>2, <2>3
  <2> QED BY <2>4 DEF v
<1> QED BY <1>1, <1>2

LEMMA PrimaryDeathGoes ==
  ASSUME worker \in Worker, WorkerOK(worker), PrimaryDeathBegins
  PROVE  Goes(worker, worker')
  BY BeginGoes, FaultGoes DEF PrimaryDeathBegins, Slot

LEMMA SecondaryDeathGoes ==
  ASSUME worker \in Worker, WorkerOK(worker), update_native_secondary_death
  PROVE  Goes(worker, worker')
<1> DEFINE v == secondary_action(worker)
<1>1. v \in Worker  BY DEF secondary_action, Worker, Slot
<1>2. /\ v.scene = worker.scene /\ v.life = worker.life /\ v.hatch = worker.hatch
      /\ v.tutorial = worker.tutorial /\ v.recorded = worker.recorded
      /\ v.refused = worker.refused
      /\ v.occurrence = worker.occurrence /\ v.pending = worker.pending
  BY DEF secondary_action, Worker
<1> HIDE DEF v
<1>3. WorkerOK(v)  BY <1>2 DEF WorkerOK, DeathNumbers, HeldBack
<1>4. PICK good \in BOOLEAN : Becomes(secondary_step(v, good), good)
  BY DEF update_native_secondary_death, v
<1> DEFINE u == secondary_step(v, good)
<1>5. u = v \/ u = begin_hook(v, 2, good)  BY DEF secondary_step
<1> HIDE DEF u
<1>6. Goes(v, v)  BY <1>1, <1>3, SameMoments DEF WorkerOK
<1>7. Goes(v, u)  BY <1>1, <1>3, <1>5, <1>6, BeginGoes DEF Slot
<1>8. Goes(worker, u)
  BY <1>2, <1>7 DEF Goes, Advances, NothingEnds
<1> QED BY <1>4, <1>8, FaultGoes DEF u

LEMMA CorpseGoes ==
  ASSUME worker \in Worker, WorkerOK(worker), corpse_hook
  PROVE  Goes(worker, worker')
<1> DEFINE w == worker
           v == worker'
<1>1. v = [w EXCEPT !.life[2] = "gone", !.tutorial = None, !.deferring = FALSE]
  BY DEF corpse_hook, retire_native_awards, Worker
<1>2. v \in Worker  BY <1>1, StaysTyped DEF Worker, None, Life
<1>3. /\ v.scene = w.scene /\ v.hatch = w.hatch /\ v.recorded = w.recorded
      /\ v.refused = w.refused /\ v.occurrence = w.occurrence /\ v.pending = w.pending
      /\ v.life = [w.life EXCEPT ![2] = "gone"] /\ v.tutorial = None
  BY <1>1 DEF Worker
<1>4. w.life \in [Slot -> Life] /\ w.life[2] = "corpse" /\ 2 \in Slot
  BY DEF corpse_hook, Worker, Slot
<1> HIDE DEF v, w
<1>5. WorkerOK(v)
  BY <1>3 DEF WorkerOK, DeathNumbers, HeldBack, None, w
<1>6. Advances(w, v)
  <2>1. w.occurrence \in Nat /\ v.life[2] = "gone"  BY <1>3, <1>4, StaysTyped DEF w
  <2>2. \A p \in Slot : v.tutorial[p] = 0  BY <1>3 DEF None
  <2> QED BY <1>3, <2>1, <2>2 DEF Advances
<1>7. NothingEnds(w, v)  BY <1>3, <1>4 DEF NothingEnds, WorkerOK, HeldBack, w
<1> QED BY <1>2, <1>5, <1>6, <1>7 DEF Goes, v, w

LEMMA TutorialGoes ==
  ASSUME worker \in Worker, WorkerOK(worker), NEW s \in Slot, NEW t \in Tutorial, TutorialRaised(s, t)
  PROVE  Goes(worker, worker')
<1> DEFINE w == worker
           v == worker'
<1>0. /\ w \in Worker /\ WorkerOK(w) /\ TokenOf(t) \notin w.recorded[s] /\ t # 0
      /\ w.life[s] = "alive" /\ TokenOf(t) \in Token
  BY DEF TutorialRaised, Tutorial, TokenOf, Token
<1>1. CASE /\ w.life[2] # "gone" /\ w.tutorial[s] \in {0, t} /\ v = [w EXCEPT !.tutorial[s] = t]
  <2> HIDE DEF v, w
  <2>1. v \in Worker
    <3> DEFINE T == [w.tutorial EXCEPT ![s] = t]
    <3>1. v = [w EXCEPT !.tutorial = T]  BY <1>0, <1>1 DEF Worker
    <3>2. T \in [Slot -> {0} \cup Tutorial]  BY <1>0 DEF Worker
    <3> HIDE DEF T
    <3> QED BY <1>0, <3>1, <3>2 DEF Worker
  <2>2. /\ v.scene = w.scene /\ v.hatch = w.hatch /\ v.recorded = w.recorded /\ v.life = w.life
        /\ v.refused = w.refused /\ v.occurrence = w.occurrence /\ v.pending = w.pending
        /\ v.tutorial = [w.tutorial EXCEPT ![s] = t]
    BY <1>0, <1>1 DEF Worker
  <2>3. w.tutorial \in [Slot -> {0} \cup Tutorial]  BY <1>0 DEF Worker
  <2>4. WorkerOK(v)
    BY <1>0, <1>1, <2>2, <2>3 DEF WorkerOK, DeathNumbers, HeldBack
  <2>5. Advances(w, v)  BY <1>0, <1>1, <2>1, <2>2, <2>3, StaysTyped DEF Advances
  <2>6. NothingEnds(w, v)  BY <1>0, <1>1, <2>2, <2>3 DEF NothingEnds
  <2> QED BY <2>1, <2>4, <2>5, <2>6 DEF Goes, v, w
<1>2. CASE v = [w EXCEPT !.recorded[s] = @ \cup {TokenOf(t)}]
  <2> HIDE DEF v, w
  <2>1. v \in Worker
    <3> DEFINE R == [w.recorded EXCEPT ![s] = @ \cup {TokenOf(t)}]
    <3>1. v = [w EXCEPT !.recorded = R]  BY <1>0, <1>2 DEF Worker
    <3>2. R \in [Slot -> SUBSET Token]  BY <1>0 DEF Worker
    <3> HIDE DEF R
    <3> QED BY <1>0, <3>1, <3>2 DEF Worker
  <2>2. /\ v.scene = w.scene /\ v.hatch = w.hatch /\ v.life = w.life
        /\ v.refused = w.refused /\ v.occurrence = w.occurrence /\ v.pending = w.pending
        /\ v.tutorial = w.tutorial
        /\ v.recorded = [w.recorded EXCEPT ![s] = @ \cup {TokenOf(t)}]
    BY <1>0, <1>2 DEF Worker
  <2>3. w.recorded \in [Slot -> SUBSET Token]  BY <1>0 DEF Worker
  <2>4. WorkerOK(v)
    BY <1>0, <2>2, <2>3 DEF WorkerOK, DeathNumbers, HeldBack
  <2>5. Advances(w, v)  BY <1>0, <2>1, <2>2, <2>3, StaysTyped DEF Advances
  <2>6. NothingEnds(w, v)  BY <1>0, <2>2, <2>3 DEF NothingEnds
  <2> QED BY <2>1, <2>4, <2>5, <2>6 DEF Goes, v, w
<1>3. PICK fossil \in BOOLEAN : v = tutorial_hook(w, s, t, fossil)  BY DEF TutorialRaised
<1>4. tutorial_deferral(w, s, t, fossil) => w.life[2] # "gone"  BY <1>0 DEF tutorial_deferral, Slot
<1> QED BY <1>0, <1>1, <1>2, <1>3, <1>4 DEF tutorial_hook

LEMMA DeferGoes ==
  ASSUME worker \in Worker, WorkerOK(worker), defer_native_secondary_tutorial
  PROVE  Goes(worker, worker')
<1>1. worker' = [worker EXCEPT !.deferring = TRUE]  BY DEF defer_native_secondary_tutorial
<1>2. worker' \in Worker  BY <1>1 DEF Worker
<1>3. /\ worker'.scene = worker.scene /\ worker'.life = worker.life
      /\ worker'.tutorial = worker.tutorial /\ worker'.recorded = worker.recorded
      /\ worker'.refused = worker.refused
      /\ worker'.occurrence = worker.occurrence /\ worker'.pending = worker.pending
      /\ worker'.hatch = worker.hatch
  BY <1>1 DEF Worker
<1> QED BY <1>2, <1>3, SameMoments DEF WorkerOK

\* A step that changes nothing but the drama.
LEMMA HatchGoes ==
  ASSUME NEW w \in Worker, WorkerOK(w), NEW hatch \in Hatch, NEW baby \in BOOLEAN,
         Lessons(hatch),
         \/ w.hatch.serial < hatch.serial
         \/ w.hatch.serial = hatch.serial /\ w.hatch.active = hatch.active
  PROVE  Goes(w, [w EXCEPT !.hatch = hatch, !.baby = baby])
<1> DEFINE v == [w EXCEPT !.hatch = hatch, !.baby = baby]
<1>1. v \in Worker  BY DEF Worker
<1>2. /\ v.scene = w.scene /\ v.life = w.life
      /\ v.tutorial = w.tutorial /\ v.recorded = w.recorded
       /\ v.refused = w.refused
      /\ v.occurrence = w.occurrence /\ v.pending = w.pending
      /\ v.hatch = hatch
  BY DEF Worker
<1> HIDE DEF v
<1>3. Goes(w, v)  BY <1>1, <1>2, SameMoments
<1> QED BY <1>3 DEF v

LEMMA LessonGoes ==
  ASSUME worker \in Worker, WorkerOK(worker), offer_lesson
  PROVE  Goes(worker, worker')
<1> DEFINE h == worker.hatch
           k == [h EXCEPT !.serial = @ + 1, !.active = TRUE, !.finished = FALSE]
<1>1. h \in Hatch /\ worker.baby \in BOOLEAN  BY DEF Worker
<1>2. h.serial \in Nat /\ h.answered \in Nat  BY <1>1 DEF Hatch
<1>3. k \in Hatch
  <2> DEFINE n == h.serial + 1
  <2>1. n \in Nat  BY <1>2
  <2> HIDE DEF n
  <2>2. [h EXCEPT !.serial = n, !.active = TRUE, !.finished = FALSE] \in Hatch  BY <1>1, <2>1 DEF Hatch
  <2> QED BY <2>2 DEF n
<1>4. k.serial = h.serial + 1 /\ k.answered = h.answered /\ k.twice = h.twice
  BY <1>1 DEF Hatch
<1>5. Lessons(k) /\ h.serial < k.serial  BY <1>2, <1>4 DEF WorkerOK, Lessons
<1>6. worker' = [worker EXCEPT !.hatch = k, !.baby = worker.baby]  BY DEF offer_lesson, Worker
<1> HIDE DEF k
<1> QED BY <1>1, <1>3, <1>5, <1>6, HatchGoes

LEMMA HatchEndGoes ==
  ASSUME worker \in Worker, WorkerOK(worker), HatchEnds
  PROVE  Goes(worker, worker')
<1> DEFINE h == worker.hatch
           k == [h EXCEPT !.drama = "over"]
<1>1. h \in Hatch  BY DEF Worker
<1>2. /\ k \in Hatch /\ k.serial = h.serial /\ k.answered = h.answered /\ k.twice = h.twice
      /\ k.active = h.active /\ k.consumed = h.consumed
  BY <1>1 DEF Hatch
<1>4. Lessons(k)  BY <1>2 DEF WorkerOK, Lessons
<1>5. worker' = [worker EXCEPT !.hatch = k, !.baby = FALSE]  BY DEF HatchEnds, Worker
<1> HIDE DEF k
<1> QED BY <1>1, <1>2, <1>4, <1>5, HatchGoes

LEMMA HatchBlockedGoes ==
  ASSUME worker \in Worker, WorkerOK(worker), HatchBlocked
  PROVE  Goes(worker, worker')
<1> DEFINE h == worker.hatch
           k == [h EXCEPT !.blocked = TRUE]
           v == [worker EXCEPT !.hatch = k, !.baby = worker.baby]
<1>1. h \in Hatch /\ worker.baby \in BOOLEAN  BY DEF Worker
<1>2. /\ k \in Hatch /\ k.serial = h.serial /\ k.answered = h.answered /\ k.twice = h.twice
      /\ k.active = h.active /\ k.consumed = h.consumed
  BY <1>1 DEF Hatch
<1>4. Lessons(k)  BY <1>2 DEF WorkerOK, Lessons
<1>5. [worker EXCEPT !.hatch.blocked = TRUE] = v  BY DEF Worker
<1>6. Becomes(v, FALSE)  BY <1>5 DEF HatchBlocked
<1> HIDE DEF k
<1>7. Goes(worker, v)  BY <1>1, <1>2, <1>4, HatchGoes
<1> QED BY <1>6, <1>7, FaultGoes


-----------------------------------------------------------------------------
(* The authority acts on what its players confirm.                           *)

LEMMA CapturedLessons ==
  ASSUME NEW h \in Hatch, Lessons(h)
  PROVE  /\ captured(h) \in Hatch /\ Lessons(captured(h))
         /\ \/ h.serial < captured(h).serial
            \/ h.serial = captured(h).serial /\ h.active = captured(h).active
<1> DEFINE n == h.serial + 1
           k == [h EXCEPT !.serial = n, !.active = FALSE, !.finished = TRUE]
<1>1. h.serial \in Nat /\ h.answered \in Nat /\ n \in Nat  BY DEF Hatch
<1>2. captured(h) = h \/ captured(h) = k  BY DEF captured
<1>3. h.serial < n /\ h.answered <= n  BY <1>1 DEF Lessons
<1> HIDE DEF n
<1>4. k \in Hatch /\ k.serial = n /\ ~k.active /\ k.answered = h.answered /\ k.twice = h.twice
  BY <1>1 DEF Hatch
<1> HIDE DEF k
<1>5. Lessons(k)  BY <1>3, <1>4 DEF Lessons
<1> QED BY <1>2, <1>3, <1>4, <1>5

LEMMA InputGoes ==
  ASSUME NEW w \in Worker, WorkerOK(w), NEW n \in Nat
  PROVE  Goes(w, apply_native_hatch_input([w EXCEPT !.hatch = captured(@)], n))
<1> DEFINE h == captured(w.hatch)
           u == [w EXCEPT !.hatch = h, !.baby = w.baby]
           v == apply_native_hatch_input(u, n)
           k == [h EXCEPT !.consumed = n, !.answered = n, !.twice = @ \/ n <= h.answered]
<1>1. w.hatch \in Hatch /\ w.baby \in BOOLEAN /\ Lessons(w.hatch)  BY DEF Worker, WorkerOK
<1>2. /\ h \in Hatch /\ Lessons(h)
      /\ \/ w.hatch.serial < h.serial
         \/ w.hatch.serial = h.serial /\ w.hatch.active = h.active
  BY <1>1, CapturedLessons
<1>3. [w EXCEPT !.hatch = captured(@)] = u  BY DEF Worker
<1>4. u.hatch = h  BY DEF Worker
<1> HIDE DEF h
<1>5. CASE ~(lesson_admitted(u, n) /\ n # h.consumed)
  <2>1. v = u  BY <1>4, <1>5 DEF apply_native_hatch_input
  <2>2. Goes(w, u)  BY <1>1, <1>2, HatchGoes
  <2> QED BY <1>3, <2>1, <2>2
<1>6. CASE lesson_admitted(u, n) /\ n # h.consumed
  <2>1. h.active /\ n = h.serial  BY <1>4, <1>6 DEF lesson_admitted
  <2>2. h.answered \in Nat /\ h.serial \in Nat /\ ~h.twice /\ h.answered < n
    BY <1>2, <1>6, <2>1 DEF Hatch, Lessons
  <2>3. ~(h.twice \/ n <= h.answered)  BY <2>2
  <2>4. k = [h EXCEPT !.consumed = n, !.answered = n, !.twice = FALSE]  BY <1>2, <2>3 DEF Hatch
  <2>5. /\ k \in Hatch /\ k.serial = h.serial /\ k.active = h.active /\ ~k.twice
        /\ k.answered = n /\ k.consumed = n
    BY <1>2, <2>4 DEF Hatch
  <2>6. Lessons(k)  BY <2>1, <2>2, <2>5 DEF Lessons
  <2>7. v = [w EXCEPT !.hatch = k, !.baby = w.baby]
    BY <1>2, <1>4, <1>6 DEF apply_native_hatch_input, Worker, Hatch
  <2> HIDE DEF k, v
  <2>8. Goes(w, v)  BY <1>1, <1>2, <2>5, <2>6, <2>7, HatchGoes
  <2> QED BY <1>3, <2>8 DEF v
<1> QED BY <1>5, <1>6

\* A step that may end what player `s` must see, and changes nothing for
\* another one.
Ends(w, v, s) ==
  /\ v \in Worker /\ WorkerOK(v) /\ Advances(w, v)
  /\ \A t \in Slot \ {s} : v.life[t] = w.life[t] /\ v.tutorial[t] = w.tutorial[t]

LEMMA GoesEnds ==
  ASSUME NEW w \in Worker, NEW v \in Worker, WorkerOK(w), WorkerOK(v), NEW s \in Slot,
         v.scene = w.scene, v.occurrence = w.occurrence, v.recorded = w.recorded,
         v.tutorial = w.tutorial,
         v.pending = w.pending \/ v.pending = [w.pending EXCEPT ![s] = 0],
         \A t \in Slot \ {s} : v.life[t] = w.life[t], w.life[s] # "gone",
         \/ w.hatch.serial < v.hatch.serial
         \/ w.hatch.serial = v.hatch.serial /\ w.hatch.active = v.hatch.active
  PROVE  Ends(w, v, s) /\ v.tutorial = w.tutorial
<1>1. w.pending \in [Slot -> Nat] /\ w.occurrence \in Nat  BY DEF Worker
<1>2. Advances(w, v)  BY <1>1 DEF Advances, Slot
<1> QED BY <1>2 DEF Ends

LEMMA PrimaryRevives ==
  ASSUME NEW w \in Worker, WorkerOK(w), w.life[1] = "corpse", NEW good
  PROVE  LET v == complete_native_death(w, 1, good) IN Ends(w, v, 1) /\ v.tutorial = w.tutorial
<1> DEFINE v == complete_native_death(w, 1, good)
           H == [w.handler EXCEPT ![1] = "none"]
           L == [w.life EXCEPT ![1] = "alive"]
           P == [w.pending EXCEPT ![1] = 0]
<1>1. v = [w EXCEPT !.handler = H, !.life = L, !.pending = P]
  BY DEF complete_native_death, primary_restart, Worker
<1>2. /\ H \in [Slot -> {"none", "acted", "waiting", "reset"}] /\ L \in [Slot -> Life]
      /\ P \in [Slot -> Nat] /\ 1 \in Slot /\ \A t \in Slot \ {1} : L[t] = w.life[t]
      /\ \A t \in Slot : P[t] \in {0, w.pending[t]}
  BY DEF Worker, Slot, Life
<1> HIDE DEF H, v
<1>3. v \in Worker
  <2> HIDE DEF P, L
  <2> QED BY <1>1, <1>2 DEF Worker
<1>4. /\ v.scene = w.scene /\ v.occurrence = w.occurrence /\ v.recorded = w.recorded
       /\ v.tutorial = w.tutorial /\ v.hatch = w.hatch /\ v.refused = w.refused
      /\ v.life = L /\ v.pending = P
  <2> HIDE DEF P, L
  <2> QED BY <1>1 DEF Worker
<1>5. WorkerOK(v)
  <2> HIDE DEF P, L
  <2>1. DeathNumbers(v)
    BY <1>2, <1>4 DEF WorkerOK, DeathNumbers, Worker
  <2>2. HeldBack(v)  BY <1>2, <1>4 DEF WorkerOK, HeldBack, Slot
  <2> QED BY <1>4, <2>1, <2>2 DEF WorkerOK
<1>6. Ends(w, v, 1) /\ v.tutorial = w.tutorial  BY <1>2, <1>3, <1>4, <1>5, GoesEnds
<1> QED BY <1>6 DEF v

LEMMA SecondaryRevives ==
  ASSUME NEW w \in Worker, WorkerOK(w), w.life[2] = "corpse", NEW good \in BOOLEAN
  PROVE  LET v == complete_native_death(w, 2, good) IN Ends(w, v, 2) /\ v.tutorial = w.tutorial
<1> DEFINE v == complete_native_death(w, 2, good)
           h == w.hatch
           n == h.serial + 1
           k == [h EXCEPT !.drama = "running", !.serial = n, !.active = FALSE,
                          !.finished = FALSE, !.consumed = 0,
                          !.blocked = IF good THEN h.blocked ELSE TRUE]
           H == [w.handler EXCEPT ![2] = IF good THEN "none" ELSE "reset"]
           L == [w.life EXCEPT ![2] = "alive"]
           P == IF good THEN [w.pending EXCEPT ![2] = 0] ELSE w.pending
           O == IF good THEN FALSE ELSE w.observed
<1>1. h \in Hatch /\ h.serial \in Nat /\ h.answered \in Nat /\ n \in Nat  BY DEF Worker, Hatch
<1>2. CASE ~secondary_restartable(w)
  <2>1. v = w  BY <1>2 DEF complete_native_death
  <2>2. Ends(w, w, 2) /\ w.tutorial = w.tutorial  BY GoesEnds DEF Slot
  <2> QED BY <2>1, <2>2
<1>3. CASE secondary_restartable(w)
  <2>1. end_native_secondary_hatch(begin_native_secondary_hatch(h), good) = k
    BY <1>1 DEF end_native_secondary_hatch, begin_native_secondary_hatch, Hatch
  <2>2. secondary_revive(w, good) =
          [w EXCEPT !.handler = [@ EXCEPT ![2] = "reset"], !.life = L, !.baby = TRUE, !.hatch = k]
    BY <2>1 DEF secondary_revive, Worker
  <2> HIDE DEF k
  <2>3. v = [w EXCEPT !.handler = H, !.life = L, !.baby = TRUE, !.hatch = k, !.pending = P,
                      !.observed = O]
    <3>1. CASE ~good
      <4>1. v = secondary_revive(w, good)  BY <1>3, <3>1 DEF complete_native_death
      <4> QED BY <2>2, <3>1, <4>1 DEF Worker
    <3>2. CASE good
      <4>1. v = [secondary_revive(w, good) EXCEPT !.pending[2] = 0, !.handler[2] = "none",
                                                  !.observed = FALSE]
        BY <1>3, <3>2 DEF complete_native_death
      <4>2. H = [[w.handler EXCEPT ![2] = "reset"] EXCEPT ![2] = "none"]
        BY <3>2 DEF Worker, Slot
      <4>3. O = FALSE /\ P = [w.pending EXCEPT ![2] = 0]  BY <3>2
      <4> HIDE DEF H, P, O, L, v
      <4> QED BY <2>2, <4>1, <4>2, <4>3 DEF Worker
    <3> QED BY <3>1, <3>2
  <2>4. /\ H \in [Slot -> {"none", "acted", "waiting", "reset"}] /\ L \in [Slot -> Life]
        /\ P \in [Slot -> Nat] /\ 2 \in Slot /\ \A t \in Slot \ {2} : L[t] = w.life[t]
        /\ \A t \in Slot : P[t] \in {0, w.pending[t]}
        /\ O \in BOOLEAN /\ L[2] = "alive"
    BY DEF Worker, Slot, Life
  <2>5. P = w.pending \/ P = [w.pending EXCEPT ![2] = 0]  OBVIOUS
  <2>6. k \in Hatch /\ k.serial = n /\ ~k.active /\ k.answered = h.answered /\ k.twice = h.twice
    <3> HIDE DEF n
    <3> QED BY <1>1 DEF Hatch, k
  <2>7. h.serial < k.serial /\ Lessons(k)  BY <1>1, <2>6 DEF WorkerOK, Lessons
  <2> HIDE DEF H, L, P, O, v, n
  <2>8. v \in Worker  BY <2>3, <2>4, <2>6 DEF Worker
  <2>9. /\ v.scene = w.scene /\ v.occurrence = w.occurrence /\ v.recorded = w.recorded
         /\ v.tutorial = w.tutorial /\ v.hatch = k /\ v.refused = w.refused
        /\ v.life = L /\ v.pending = P
    BY <2>3 DEF Worker
  <2>10. WorkerOK(v)
    <3>1. DeathNumbers(v)  BY <2>4, <2>9 DEF WorkerOK, DeathNumbers, Worker
    <3>2. HeldBack(v)  BY <2>4, <2>9 DEF WorkerOK, HeldBack
    <3> QED BY <2>7, <2>9, <3>1, <3>2 DEF WorkerOK
  <2>11. Ends(w, v, 2) /\ v.tutorial = w.tutorial
    BY <2>4, <2>5, <2>7, <2>8, <2>9, <2>10, GoesEnds
  <2> QED BY <2>11 DEF v
<1> QED BY <1>2, <1>3

LEMMA TutorialEnds ==
  ASSUME NEW w \in Worker, WorkerOK(w), NEW s \in Slot, w.tutorial[s] # 0
  PROVE  LET v == complete_native_tutorial(w, s) IN Ends(w, v, s) /\ v.life = w.life
<1> DEFINE v == complete_native_tutorial(w, s)
           n == TokenOf(w.tutorial[s])
           R == [w.recorded EXCEPT ![s] = @ \cup {n}]
           T == [w.tutorial EXCEPT ![s] = 0]
<1>1. v = [w EXCEPT !.recorded = R, !.tutorial = T]
  BY DEF complete_native_tutorial, Worker
<1>2. n \in Token  BY DEF Token, TokenOf
<1>3. /\ R \in [Slot -> SUBSET Token] /\ T \in [Slot -> {0} \cup Tutorial]
      /\ R[s] = w.recorded[s] \cup {n} /\ T[s] = 0
      /\ \A t \in Slot \ {s} : R[t] = w.recorded[t] /\ T[t] = w.tutorial[t]
  BY <1>2 DEF Worker
<1> HIDE DEF v, R, T
<1>4. v \in Worker  BY <1>1, <1>3 DEF Worker
<1>5. /\ v.scene = w.scene /\ v.occurrence = w.occurrence /\ v.recorded = R
      /\ v.tutorial = T /\ v.hatch = w.hatch /\ v.refused = w.refused
      /\ v.life = w.life /\ v.pending = w.pending
  BY <1>1 DEF Worker
<1>6. WorkerOK(v)
  <2>1. HeldBack(v)  BY <1>3, <1>5 DEF WorkerOK, HeldBack
  <2> QED BY <1>5, <2>1 DEF WorkerOK, DeathNumbers
<1>7. Advances(w, v)
  <2>1. w.occurrence \in Nat  BY DEF Worker
  <2> QED BY <1>3, <1>5, <2>1 DEF Advances
<1>8. Ends(w, v, s)  BY <1>3, <1>4, <1>5, <1>6, <1>7 DEF Ends
<1> QED BY <1>5, <1>8 DEF v


\* What SeenThrough says of a step.
StepSeen == worker'.scene = worker.scene => \A s \in Slot : Revived(s) /\ Taught(s)

LEMMA GoesSeen ==
  ASSUME Goes(worker, worker') PROVE StepSeen
  BY DEF Goes, NothingEnds, StepSeen, Revived, Taught

LEMMA FaultEnds ==
  ASSUME NEW w \in Worker, NEW v, NEW s \in Slot, Ends(w, v, s), NEW good, Becomes(v, good)
  PROVE  Ends(w, worker', s) /\ worker'.life = v.life /\ worker'.tutorial = v.tutorial
<1>1. v \in Worker  BY DEF Ends
<1>2. CASE worker' = v  BY <1>2
<1>3. CASE worker' = [v EXCEPT !.faults = @ + 1]
  <2>1. worker' \in Worker  BY <1>1, <1>3 DEF Worker
  <2>2. WorkerOK(worker')
    BY <1>1, <1>3 DEF Ends, WorkerOK, DeathNumbers, HeldBack, Worker
  <2>3. Advances(w, worker')  BY <1>1, <1>3 DEF Ends, Advances, Worker
  <2>4. worker'.life = v.life /\ worker'.tutorial = v.tutorial  BY <1>1, <1>3 DEF Worker
  <2> QED BY <2>1, <2>2, <2>3, <2>4 DEF Ends
<1> QED BY <1>2, <1>3 DEF Becomes

LEMMA SameGoes ==
  ASSUME NEW w \in Worker, WorkerOK(w) PROVE Goes(w, w)
  BY SameMoments DEF WorkerOK

LEMMA ReceivesDeath ==
  ASSUME worker \in Worker, WorkerOK(worker), NEW m \in Inbox(worker, seen),
         m.kind = "death_done", NEW good \in BOOLEAN,
         Becomes(IF authority_death(m.player) /\ death_confirmed(worker, m)
                 THEN complete_native_death(worker, m.player, good) ELSE worker, good)
  PROVE  worker' \in Worker /\ WorkerOK(worker') /\ Advances(worker, worker') /\ StepSeen
<1> DEFINE p == m.player
           v == complete_native_death(worker, p, good)
<1>1. p \in Slot /\ InboxOK(worker, m, seen)  BY DEF Inbox, ToAuthority
<1>2. CASE ~(authority_death(p) /\ death_confirmed(worker, m))
  <2>1. Goes(worker, worker')  BY <1>2, SameGoes, FaultGoes
  <2> QED BY <2>1, GoesSeen DEF Goes
<1>3. CASE authority_death(p) /\ death_confirmed(worker, m)
  <2>1. worker.life[p] = "corpse" /\ worker.pending[p] = m.n /\ m.n # 0
    BY <1>3 DEF authority_death, death_confirmed, pending_native_death
  <2>2. <<p, "death", worker.pending[p]>> \in seen  BY <1>1, <2>1 DEF InboxOK, DeathSeen
  <2>3. Ends(worker, v, p) /\ v.tutorial = worker.tutorial
    BY <1>1, <2>1, PrimaryRevives, SecondaryRevives DEF Slot
  <2>4. Becomes(v, good)  BY <1>3
  <2> HIDE DEF v
  <2>5. Ends(worker, worker', p) /\ worker'.tutorial = worker.tutorial
    BY <1>1, <2>3, <2>4, FaultEnds
  <2>6. ASSUME NEW s \in Slot PROVE Revived(s) /\ Taught(s)
    <3>1. Revived(s)  BY <2>2, <2>5 DEF Revived, Ends
    <3>2. Taught(s)  BY <2>5 DEF Taught
    <3> QED BY <3>1, <3>2
  <2> QED BY <2>5, <2>6 DEF Ends, StepSeen
<1> QED BY <1>2, <1>3

LEMMA ReceivesTutorial ==
  ASSUME worker \in Worker, WorkerOK(worker), NEW m \in Inbox(worker, seen),
         m.kind = "tutorial_done",
         \/ worker' = worker
         \/ /\ authority_tutorial(m.player) /\ tutorial_confirmed(worker, m)
            /\ worker' = complete_native_tutorial(worker, m.player)
  PROVE  worker' \in Worker /\ WorkerOK(worker') /\ Advances(worker, worker') /\ StepSeen
<1> DEFINE p == m.player
<1>1. p \in Slot /\ InboxOK(worker, m, seen)  BY DEF Inbox, ToAuthority
<1>2. CASE worker' = worker
  <2>1. Goes(worker, worker')  BY <1>2, SameGoes
  <2> QED BY <2>1, GoesSeen DEF Goes
<1>3. CASE /\ authority_tutorial(p) /\ tutorial_confirmed(worker, m)
           /\ worker' = complete_native_tutorial(worker, p)
  <2>1. worker.tutorial[p] = m.n /\ m.n # 0
    BY <1>3 DEF authority_tutorial, tutorial_confirmed, pending_native_tutorial
  <2>2. <<p, "tutorial", m.n>> \in seen  BY <1>1, <2>1 DEF InboxOK, TutorialSeen
  <2>3. Ends(worker, worker', p) /\ worker'.life = worker.life
    BY <1>1, <1>3, <2>1, TutorialEnds
  <2>4. ASSUME NEW s \in Slot PROVE Revived(s) /\ Taught(s)
    <3>1. Revived(s)  BY <2>3 DEF Revived
    <3>2. Taught(s)  BY <2>1, <2>2, <2>3 DEF Taught, Ends
    <3> QED BY <3>1, <3>2
  <2> QED BY <2>3, <2>4 DEF Ends, StepSeen
<1> QED BY <1>2, <1>3

LEMMA AuthorityReceivesKeeps ==
  ASSUME MomentsInv, AuthorityReceives PROVE MomentsInv' /\ StepSeen
<1> DEFINE X == Inbox(worker, seen)
           m == Head(inbox)
<1>1. worker \in Worker /\ WorkerOK(worker)  BY DEF MomentsInv, StateInv
<1>2. inbox \in Seq(X) /\ inbox # <<>>  BY DEF MomentsInv, PacketsInv, AuthorityReceives
<1>3. m \in X
  <2> HIDE DEF X
  <2> QED BY <1>2
<1>4. m.n \in Nat  BY <1>3 DEF Inbox, ToAuthority
<1> HIDE DEF X, m
<1>5. worker' \in Worker /\ WorkerOK(worker') /\ Advances(worker, worker') /\ StepSeen
  <2>1. CASE /\ m.kind = "death_done"
             /\ \E good \in BOOLEAN :
                   Becomes(IF authority_death(m.player) /\ death_confirmed(worker, m)
                           THEN complete_native_death(worker, m.player, good) ELSE worker, good)
    BY <1>1, <1>3, <2>1, ReceivesDeath DEF X
  <2>2. CASE /\ m.kind = "tutorial_done"
             /\ \E released \in {TRUE, m.player = 1 \/ TokenOf(m.n) # "dna"} :
                   worker' = IF authority_tutorial(m.player) /\ tutorial_confirmed(worker, m) /\ released
                             THEN complete_native_tutorial(worker, m.player) ELSE worker
    BY <1>1, <1>3, <2>2, ReceivesTutorial DEF X
  <2>3. CASE /\ m.kind = "hatch_input"
             /\ worker' = IF authority_hatch
                          THEN apply_native_hatch_input([worker EXCEPT !.hatch = captured(@)], m.n)
                          ELSE worker
    <3>1. Goes(worker, worker')  BY <1>1, <1>4, <2>3, InputGoes, SameGoes
    <3> QED BY <3>1, GoesSeen DEF Goes
  <2> QED BY <2>1, <2>2, <2>3 DEF AuthorityReceives, m
<1>6. MomentsInv'
  BY <1>5, WorkerMoves DEF AuthorityReceives
<1> QED BY <1>5, <1>6

\* The original game's steps change the worker alone.
LEMMA OriginalGameKeeps ==
  ASSUME MomentsInv, OriginalGame PROVE MomentsInv' /\ StepSeen
<1>1. worker \in Worker /\ WorkerOK(worker)  BY DEF MomentsInv, StateInv
<1>2. Goes(worker, worker') /\ UNCHANGED ends
  <2>1. CASE PrimaryDeathBegins  BY <1>1, <2>1, PrimaryDeathGoes DEF PrimaryDeathBegins
  <2>2. CASE update_native_secondary_death
    BY <1>1, <2>2, SecondaryDeathGoes DEF update_native_secondary_death
  <2>3. CASE corpse_hook  BY <1>1, <2>3, CorpseGoes DEF corpse_hook
  <2>4. CASE defer_native_secondary_tutorial
    BY <1>1, <2>4, DeferGoes DEF defer_native_secondary_tutorial
  <2>5. CASE offer_lesson  BY <1>1, <2>5, LessonGoes DEF offer_lesson
  <2>6. CASE HatchEnds  BY <1>1, <2>6, HatchEndGoes DEF HatchEnds
  <2>7. CASE HatchBlocked  BY <1>1, <2>7, HatchBlockedGoes DEF HatchBlocked
  <2>8. CASE \E s \in Slot : damage_hook(s)  BY <1>1, <2>8, DamageGoes DEF damage_hook
  <2>9. CASE \E s \in Slot, t \in Tutorial : TutorialRaised(s, t)
    BY <1>1, <2>9, TutorialGoes DEF TutorialRaised
  <2> QED BY <2>1, <2>2, <2>3, <2>4, <2>5, <2>6, <2>7, <2>8, <2>9 DEF OriginalGame
<1>3. MomentsInv'  BY <1>2, WorkerMoves DEF Goes, ends
<1> QED BY <1>2, <1>3, GoesSeen


-----------------------------------------------------------------------------
(* Packets and connections.                                                  *)

LEMMA AppendIn ==
  ASSUME NEW X, NEW q \in Seq(X), NEW e \in X PROVE Append(q, e) \in Seq(X)
  OBVIOUS

LEMMA TailIn ==
  ASSUME NEW X, NEW q \in Seq(X), q # <<>> PROVE Head(q) \in X /\ Tail(q) \in Seq(X)
  OBVIOUS

LEMMA EmptyIn == ASSUME NEW X PROVE <<>> \in Seq(X)
  OBVIOUS

\* What is on its way between player `p` and the session.
LinkOK(p) ==
  /\ down[p] \in Seq(Down(worker, session, p))
  /\ up[p] \in Seq(Up(worker, session, p, seen))

LEMMA LinkFacts ==
  ASSUME PacketsInv
  PROVE  /\ \A p \in Slot : LinkOK(p)
         /\ DOMAIN down = Slot /\ DOMAIN up = Slot
         /\ inbox \in Seq(Inbox(worker, seen))
  BY DEF PacketsInv, LinkOK

LEMMA PacketsKept ==
  ASSUME NEW w, NEW s, NEW S,
         NEW d, NEW u, d = [p \in Slot |-> d[p]], u = [p \in Slot |-> u[p]],
         \A p \in Slot : d[p] \in Seq(Down(w, s, p)) /\ u[p] \in Seq(Up(w, s, p, S))
  PROVE  d \in [Slot -> Seq(ToPlayer)] /\ u \in [Slot -> Seq(ToSession)]
<1>1. ASSUME NEW p \in Slot PROVE d[p] \in Seq(ToPlayer) /\ u[p] \in Seq(ToSession)
  <2>1. Down(w, s, p) \subseteq ToPlayer /\ Up(w, s, p, S) \subseteq ToSession  BY DEF Down, Up
  <2> QED BY <2>1, SeqGrows
<1> QED BY <1>1

\* The connections stay as they are.
LEMMA SameConnections ==
  ASSUME NEW w, NEW s, NEW r, r.base = s.base, r.next = s.next, NEW p \in Slot, NEW S
  PROVE  /\ Down(w, r, p) = Down(w, s, p) /\ Up(w, r, p, S) = Up(w, s, p, S)
         /\ \A c : ClientOK(w, r, p, c, S) <=> ClientOK(w, s, p, c, S)
<1>1. \A m : DownOK(w, r, p, m) <=> DownOK(w, s, p, m)  BY DEF DownOK
<1>2. \A m : UpOK(w, r, p, m, S) <=> UpOK(w, s, p, m, S)  BY DEF UpOK
<1>3. \A c : ClientConnected(w, r, p, c) <=> ClientConnected(w, s, p, c)  BY DEF ClientConnected
<1> QED BY <1>1, <1>2, <1>3 DEF Down, Up, ClientOK

\* The authority sends a packet of its worker as it now is, or none.
LEMMA AuthoritySends ==
  ASSUME MomentsInv, worker' \in Worker, WorkerOK(worker'), Advances(worker, worker'),
         session' \in Session, SessionOK(worker', session'),
         session'.base = session.base, session'.next = session.next,
         UNCHANGED <<clients, up, inbox, saved, seen>>,
         \/ down' = down
         \/ \E p \in Slot : \E m \in Down(worker', session', p) : down' = [down EXCEPT ![p] = Append(@, m)]
  PROVE  MomentsInv'
<1>0. worker \in Worker /\ session \in Session /\ PacketsInv
  BY DEF MomentsInv, StateInv
<1>1. StateInv'  BY DEF MomentsInv, StateInv
<1>2. ClientsInv'
  <2>1. ASSUME NEW p \in Slot PROVE ClientOK(worker', session', p, clients[p], seen)
    <3>1. clients[p] \in Client /\ ClientOK(worker, session, p, clients[p], seen)
      BY DEF MomentsInv, ClientsInv
    <3>2. ClientOK(worker', session, p, clients[p], seen)  BY <1>0, <3>1, ClientAdvances
    <3> QED BY <3>2, SameConnections
  <2> QED BY <2>1 DEF MomentsInv, ClientsInv
<1>3. PacketsInv'
  <2>1. \A p \in Slot : /\ Down(worker, session, p) \subseteq Down(worker', session', p)
                        /\ Up(worker, session, p, seen) \subseteq Up(worker', session', p, seen)
    <3> TAKE p \in Slot
    <3>1. /\ Down(worker, session, p) \subseteq Down(worker', session, p)
          /\ Up(worker, session, p, seen) \subseteq Up(worker', session, p, seen)
      BY <1>0, PacketsAdvance
    <3>2. /\ Down(worker', session', p) = Down(worker', session, p)
          /\ Up(worker', session', p, seen) = Up(worker', session, p, seen)
      BY SameConnections
    <3> QED BY <3>1, <3>2
  <2>2. \A p \in Slot : /\ down[p] \in Seq(Down(worker', session', p))
                        /\ up[p] \in Seq(Up(worker', session', p, seen))
    BY <1>0, <2>1, SeqGrows, LinkFacts DEF LinkOK
  <2>3. \A p \in Slot : down'[p] \in Seq(Down(worker', session', p))
    <3> TAKE p \in Slot
    <3> DEFINE X == Down(worker', session', p)
    <3>1. down[p] \in Seq(X) /\ DOMAIN down = Slot  BY <1>0, <2>2, LinkFacts
    <3>2. down'[p] = down[p] \/ \E m \in X : down'[p] = Append(down[p], m)
      <4>1. CASE down' = down  BY <4>1
      <4>2. CASE \E r \in Slot : \E m \in Down(worker', session', r) : down' = [down EXCEPT ![r] = Append(@, m)]
        <5>1. PICK r \in Slot : \E m \in Down(worker', session', r) : down' = [down EXCEPT ![r] = Append(@, m)]
          BY <4>2
        <5>2. PICK m \in Down(worker', session', r) : down' = [down EXCEPT ![r] = Append(@, m)]
          BY <5>1
        <5> QED BY <3>1, <5>2
      <4> QED BY <4>1, <4>2
    <3> HIDE DEF X
    <3>3. down'[p] \in Seq(X)  BY <3>1, <3>2, AppendIn
    <3> QED BY <3>3 DEF X
  <2>4. Inbox(worker, seen) \subseteq Inbox(worker', seen)  BY <1>0, PacketsAdvance
  <2>5. inbox \in Seq(Inbox(worker', seen))  BY <1>0, <2>4, SeqGrows, LinkFacts
  <2>6. down' = [p \in Slot |-> down'[p]] /\ up = [p \in Slot |-> up[p]]
    BY <1>0 DEF PacketsInv
  <2>7. down' \in [Slot -> Seq(ToPlayer)] /\ up \in [Slot -> Seq(ToSession)]
    BY <2>2, <2>3, <2>6, PacketsKept
  <2> QED BY <2>2, <2>3, <2>5, <2>7 DEF PacketsInv
<1> QED BY <1>1, <1>2, <1>3 DEF MomentsInv

LEMMA PublishKeeps ==
  ASSUME MomentsInv, NEW s \in Slot, Publish(s) PROVE MomentsInv' /\ StepSeen
<1> DEFINE L == [session.life EXCEPT ![s] = worker.life[s]]
<1>0. worker \in Worker /\ WorkerOK(worker) /\ session \in Session /\ SessionOK(worker, session)
  BY DEF MomentsInv, StateInv
<1>1. session' = [session EXCEPT !.life = L]  BY <1>0 DEF Publish, Session
<1>2. L \in [Slot -> Life]  BY <1>0 DEF Session, Worker
<1> HIDE DEF L
<1>3. session' \in Session  BY <1>0, <1>1, <1>2 DEF Session
<1>4. /\ session'.base = session.base /\ session'.next = session.next /\ session'.ready = session.ready
      /\ session'.deaths = session.deaths /\ session'.hatch = session.hatch
      /\ session'.tutorials = session.tutorials
  BY <1>0, <1>1 DEF Session
<1>5. worker' = worker /\ SessionOK(worker, session')
  BY <1>0, <1>4 DEF SessionOK, DeathsOffered, TutorialsOffered, Connections, Publish
<1>6. Goes(worker, worker')  BY <1>0, <1>5, SameGoes
<1>7. \/ down' = down
      \/ \E m \in Down(worker', session', s) : down' = [down EXCEPT ![s] = Append(@, m)]
  <2> DEFINE m == Packet("entity", session.base[s], 0, worker.life[s])
  <2>1. CASE session.base[s] = 0  BY <2>1 DEF Publish
  <2>2. CASE session.base[s] # 0
    <3>0. worker.life[s] \in Words /\ session.base[s] \in Nat
      BY <1>0 DEF Worker, Session, Words
    <3>1. m \in ToPlayer  BY <3>0 DEF Packet, ToPlayer
    <3>2. DownOK(worker, session', s, m)
      BY <1>0, <1>4, <2>2 DEF Packet, DownOK, SessionOK, Connections
    <3>3. down' = [down EXCEPT ![s] = Append(@, m)]  BY <2>2 DEF Publish, SendDown
    <3> QED BY <1>5, <3>1, <3>2, <3>3 DEF Down
  <2> QED BY <2>1, <2>2
<1>8. MomentsInv'
  BY <1>3, <1>4, <1>5, <1>6, <1>7, AuthoritySends DEF Publish, Goes
<1> QED BY <1>6, <1>8, GoesSeen


\* The session is offered what fits what it has: the authority is not refused.
LEMMA OffersDeathKeeps ==
  ASSUME MomentsInv, NEW s \in Slot, AuthorityOffersDeath(s) PROVE MomentsInv' /\ StepSeen
<1> DEFINE n == pending_native_death(worker, s)
           D == [session.deaths EXCEPT ![s] = n]
           m == Packet("death", session.base[s], n, "")
<1>0. worker \in Worker /\ WorkerOK(worker) /\ session \in Session /\ SessionOK(worker, session)
  BY DEF MomentsInv, StateInv
<1>1. /\ n # 0 /\ n = worker.pending[s] /\ session.life[s] = "corpse"
      /\ n \in Nat /\ n <= worker.occurrence /\ session.deaths[s] <= n /\ session.deaths[s] \in Nat
  BY <1>0 DEF AuthorityOffersDeath, authority_death, pending_native_death, Worker, Session,
              WorkerOK, DeathNumbers, SessionOK, DeathsOffered
<1>2. ~receive_death_refused(session, s, n)  BY <1>1 DEF receive_death_refused
<1> HIDE DEF n
<1>3. worker' = worker /\ session' = [session EXCEPT !.deaths = D] /\ Offered(s, "death", n, "")
  BY <1>0, <1>2 DEF AuthorityOffersDeath, Refuses, Session, n
<1>4. D \in [Slot -> Nat] /\ \A p \in Slot : D[p] = IF p = s THEN n ELSE session.deaths[p]
  BY <1>0, <1>1 DEF Session
<1> HIDE DEF D
<1>5. session' \in Session  BY <1>0, <1>3, <1>4 DEF Session
<1>6. /\ session'.base = session.base /\ session'.next = session.next /\ session'.ready = session.ready
      /\ session'.deaths = D /\ session'.hatch = session.hatch /\ session'.tutorials = session.tutorials
  BY <1>0, <1>3 DEF Session
<1>7. DeathsOffered(worker, session')
  BY <1>0, <1>1, <1>4, <1>6 DEF SessionOK, DeathsOffered
<1>8. SessionOK(worker', session')  BY <1>0, <1>3, <1>6, <1>7 DEF SessionOK, TutorialsOffered, Connections
<1>9. session.ready[s] => m \in Down(worker', session', s)
  <2> SUFFICES ASSUME session.ready[s] PROVE m \in ToPlayer /\ DownOK(worker', session', s, m)
    BY DEF Down
  <2>1. m \in ToPlayer  BY <1>0, <1>1 DEF Packet, ToPlayer, Session, Words
  <2>2. DownOK(worker', session', s, m)
    BY <1>0, <1>1, <1>3, <1>6 DEF Packet, DownOK, SessionOK, Connections, DeathKnown
  <2> QED BY <2>1, <2>2
<1>10. Goes(worker, worker')  BY <1>0, <1>3, SameGoes
<1>11. \/ down' = down
       \/ \E e \in Down(worker', session', s) : down' = [down EXCEPT ![s] = Append(@, e)]
  <2>1. \/ down' = down
        \/ session.ready[s] /\ down' = [down EXCEPT ![s] = Append(@, m)]
    BY <1>3 DEF Offered, SendDown
  <2> HIDE DEF m
  <2> QED BY <1>9, <2>1
<1>12. MomentsInv'
  BY <1>5, <1>6, <1>8, <1>10, <1>11, AuthoritySends DEF AuthorityOffersDeath, Goes
<1> QED BY <1>10, <1>12, GoesSeen

LEMMA OffersTutorialKeeps ==
  ASSUME MomentsInv, NEW s \in Slot, AuthorityOffersTutorial(s) PROVE MomentsInv' /\ StepSeen
<1> DEFINE n == pending_native_tutorial(worker, s)
           D == [session.tutorials EXCEPT ![s] = @ \cup {n}]
           m == Packet("tutorial", session.base[s], n, "")
<1>0. worker \in Worker /\ WorkerOK(worker) /\ session \in Session /\ SessionOK(worker, session)
  BY DEF MomentsInv, StateInv
<1>1. n # 0 /\ n = worker.tutorial[s] /\ session.life[s] = "alive" /\ worker.life[2] = "alive"
  BY DEF AuthorityOffersTutorial, authority_tutorial, pending_native_tutorial
<1>2. n \in Tutorial  BY <1>0, <1>1 DEF Worker
<1> HIDE DEF n
<1>2a. ~receive_tutorial_refused(session, s, n)
  BY <1>0, <1>1 DEF receive_tutorial_refused, SessionOK, TutorialsOffered
<1>3. worker' = worker /\ session' = [session EXCEPT !.tutorials = D] /\ Offered(s, "tutorial", n, "")
  BY <1>0, <1>2a DEF AuthorityOffersTutorial, Refuses, Session, n
<1>4. /\ D \in [Slot -> SUBSET Tutorial]
      /\ \A p \in Slot : D[p] = IF p = s THEN session.tutorials[s] \cup {n} ELSE session.tutorials[p]
  BY <1>0, <1>2 DEF Session
<1> HIDE DEF D
<1>5. session' \in Session  BY <1>0, <1>3, <1>4 DEF Session
<1>6. /\ session'.base = session.base /\ session'.next = session.next /\ session'.ready = session.ready
      /\ session'.deaths = session.deaths /\ session'.hatch = session.hatch /\ session'.tutorials = D
  BY <1>0, <1>3 DEF Session
<1>6a. TutorialsOffered(worker, session')
  BY <1>0, <1>1, <1>4, <1>6 DEF SessionOK, TutorialsOffered
<1>7. SessionOK(worker', session')
  BY <1>0, <1>3, <1>6, <1>6a DEF SessionOK, Connections, DeathsOffered
<1>8. session.ready[s] => m \in Down(worker', session', s)
  <2> SUFFICES ASSUME session.ready[s] PROVE m \in ToPlayer /\ DownOK(worker', session', s, m)
    BY DEF Down
  <2>1. m \in ToPlayer  BY <1>0, <1>2 DEF Packet, ToPlayer, Session, Tutorial, Words
  <2>2. DownOK(worker', session', s, m)
    BY <1>0, <1>1, <1>3, <1>6 DEF Packet, DownOK, SessionOK, Connections, TutorialKnown
  <2> QED BY <2>1, <2>2
<1>9. Goes(worker, worker')  BY <1>0, <1>3, SameGoes
<1>10. \/ down' = down
       \/ \E e \in Down(worker', session', s) : down' = [down EXCEPT ![s] = Append(@, e)]
  <2>1. \/ down' = down
        \/ session.ready[s] /\ down' = [down EXCEPT ![s] = Append(@, m)]
    BY <1>3 DEF Offered, SendDown
  <2> HIDE DEF m
  <2> QED BY <1>8, <2>1
<1>11. MomentsInv'
  BY <1>5, <1>6, <1>7, <1>9, <1>10, AuthoritySends DEF AuthorityOffersTutorial, Goes
<1> QED BY <1>9, <1>11, GoesSeen

LEMMA OffersHatchKeeps ==
  ASSUME MomentsInv, AuthorityOffersHatch PROVE MomentsInv' /\ StepSeen
<1> DEFINE h == worker.hatch
           k == captured(h)
           frame == Frame(k)
           m == Packet("hatch_view", session.base[2], frame.n, frame.what)
<1>0. worker \in Worker /\ WorkerOK(worker) /\ session \in Session /\ SessionOK(worker, session)
  BY DEF MomentsInv, StateInv
<1>1. /\ h \in Hatch /\ Lessons(h) /\ worker.baby \in BOOLEAN /\ session.hatch \in HatchFrame
      /\ HatchOffered(h, session.hatch)
  BY <1>0 DEF Worker, WorkerOK, Session, SessionOK
<1>2. /\ k \in Hatch /\ Lessons(k)
      /\ \/ h.serial < k.serial
         \/ h.serial = k.serial /\ h.active = k.active
  BY <1>1, CapturedLessons
<1>3. /\ h.serial \in Nat /\ k.serial \in Nat
      /\ frame = [n |-> k.serial, what |-> IF k.active THEN "lesson" ELSE "idle"]
      /\ session.life[2] = "alive" /\ h.serial # 0
  BY <1>1, <1>2 DEF Hatch, Frame, AuthorityOffersHatch, authority_hatch, hatch_capturable
<1>4. frame \in HatchFrame  BY <1>3 DEF HatchFrame, Words
<1> HIDE DEF k
<1>5. frame.n = session.hatch.n => frame = session.hatch
  BY <1>1, <1>2, <1>3 DEF HatchOffered, HatchFrame, Frame
<1>6. receive_hatch_refused(session, frame) = FALSE  BY <1>3, <1>5 DEF receive_hatch_refused
<1>7. /\ worker' = [worker EXCEPT !.hatch = k, !.refused = FALSE]
      /\ session' = [session EXCEPT !.hatch = frame]
      /\ Offered(2, "hatch_view", frame.n, frame.what)
  BY <1>6 DEF AuthorityOffersHatch, k
<1>8. worker' = [worker EXCEPT !.hatch = k, !.baby = worker.baby]
  BY <1>0, <1>7 DEF WorkerOK, Worker
<1>9. Goes(worker, worker')  BY <1>0, <1>1, <1>2, <1>8, HatchGoes
<1>10. /\ worker'.hatch = k /\ worker'.pending = worker.pending /\ worker'.life = worker.life
       /\ worker'.occurrence = worker.occurrence /\ worker'.tutorial = worker.tutorial
       /\ worker'.recorded = worker.recorded
  BY <1>0, <1>8 DEF Worker
<1> HIDE DEF frame
<1>11. session' \in Session  BY <1>0, <1>4, <1>7 DEF Session
<1>12. /\ session'.base = session.base /\ session'.next = session.next /\ session'.ready = session.ready
       /\ session'.deaths = session.deaths /\ session'.hatch = frame
       /\ session'.tutorials = session.tutorials
  BY <1>0, <1>7 DEF Session
<1>13. HatchOffered(k, frame)  BY <1>3 DEF HatchOffered, frame
<1>14. SessionOK(worker', session')
  BY <1>0, <1>10, <1>12, <1>13 DEF SessionOK, Connections, DeathsOffered, TutorialsOffered
<1>15. session.ready[2] => m \in Down(worker', session', 2)
  <2> SUFFICES ASSUME session.ready[2] PROVE m \in ToPlayer /\ DownOK(worker', session', 2, m)
    BY DEF Down
  <2>1. m \in ToPlayer  BY <1>0, <1>4 DEF Packet, ToPlayer, Session, HatchFrame, Slot
  <2>2. DownOK(worker', session', 2, m)
    BY <1>0, <1>12 DEF Packet, DownOK, SessionOK, Connections, Slot
  <2> QED BY <2>1, <2>2
<1>16. 2 \in Slot  BY DEF Slot
<1>17. \/ down' = down
       \/ \E e \in Down(worker', session', 2) : down' = [down EXCEPT ![2] = Append(@, e)]
  <2>1. \/ down' = down
        \/ session.ready[2] /\ down' = [down EXCEPT ![2] = Append(@, m)]
    BY <1>7, <1>16 DEF Offered, SendDown
  <2> HIDE DEF m
  <2> QED BY <1>15, <2>1
<1>18. MomentsInv'
  BY <1>9, <1>11, <1>12, <1>14, <1>16, <1>17, AuthoritySends DEF AuthorityOffersHatch, Goes
<1> QED BY <1>9, <1>18, GoesSeen


LEMMA CheckpointKeeps ==
  ASSUME MomentsInv, WriteCheckpoint PROVE MomentsInv' /\ StepSeen
<1>0. worker \in Worker /\ WorkerOK(worker)  BY DEF MomentsInv, StateInv
<1>1. saved' = worker.recorded /\ worker' = worker
      /\ UNCHANGED <<session, clients, up, down, inbox, seen>>
  BY DEF WriteCheckpoint
<1>2. saved' \in Save  BY <1>0, <1>1 DEF Worker, Save
<1>3. MomentsInv'
  BY <1>1, <1>2 DEF MomentsInv, StateInv, ClientsInv, PacketsInv
<1>4. Goes(worker, worker')  BY <1>0, <1>1, SameGoes
<1> QED BY <1>3, <1>4, GoesSeen

-----------------------------------------------------------------------------
(* The players and their connections.                                        *)

LEMMA StillSeen ==
  ASSUME worker \in Worker, WorkerOK(worker), session \in Session,
         NEW T, seen \subseteq T
  PROVE  /\ \A p \in Slot : Up(worker, session, p, seen) \subseteq Up(worker, session, p, T)
         /\ Inbox(worker, seen) \subseteq Inbox(worker, T)
         /\ \A p \in Slot : \A c \in Client :
              ClientOK(worker, session, p, c, seen) => ClientOK(worker, session, p, c, T)
<1>1. Advances(worker, worker)  BY SameGoes DEF Goes
<1>2. seen \cap Awaited(worker) \subseteq T  OBVIOUS
<1>3. /\ \A p \in Slot : Up(worker, session, p, seen) \subseteq Up(worker, session, p, T)
      /\ Inbox(worker, seen) \subseteq Inbox(worker, T)
  BY <1>1, <1>2, PacketsAdvance
<1>4. \A p \in Slot : \A c \in Client :
        ClientOK(worker, session, p, c, seen) => ClientOK(worker, session, p, c, T)
  BY <1>1, <1>2, ClientAdvances
<1> QED BY <1>3, <1>4

LEMMA WorkerStays ==
  ASSUME MomentsInv, UNCHANGED <<worker, saved>>,
         session' \in Session, SessionOK(worker, session'), ClientsInv', PacketsInv'
  PROVE  MomentsInv' /\ StepSeen
<1>1. worker \in Worker /\ WorkerOK(worker)  BY DEF MomentsInv, StateInv
<1>2. StateInv'  BY DEF MomentsInv, StateInv
<1>3. Goes(worker, worker')  BY <1>1, SameGoes
<1> QED BY <1>2, <1>3, GoesSeen DEF MomentsInv

\* A step of one player's process, which may take its next packet and may
\* send one.
LEMMA ClientMoves ==
  ASSUME MomentsInv, NEW p \in Slot, NEW c \in Client,
         UNCHANGED <<worker, session, inbox, saved>>, seen \subseteq seen',
         ClientOK(worker, session, p, c, seen'), clients' = [clients EXCEPT ![p] = c],
         down' = down \/ (down[p] # <<>> /\ down' = [down EXCEPT ![p] = Tail(@)]),
         \/ up' = up
         \/ \E m \in Up(worker, session, p, seen') : up' = [up EXCEPT ![p] = Append(@, m)]
  PROVE  MomentsInv' /\ StepSeen
<1>0. /\ worker \in Worker /\ WorkerOK(worker) /\ session \in Session
      /\ SessionOK(worker, session) /\ PacketsInv /\ ClientsInv
  BY DEF MomentsInv, StateInv
<1>1. ClientsInv'
  <2>1. clients' \in [Slot -> Client]  BY <1>0 DEF ClientsInv
  <2>2. ASSUME NEW r \in Slot PROVE ClientOK(worker, session, r, clients'[r], seen')
    <3>1. CASE r = p  BY <1>0, <3>1 DEF ClientsInv
    <3>2. CASE r # p
      <4>1. clients'[r] = clients[r] /\ clients[r] \in Client
            /\ ClientOK(worker, session, r, clients[r], seen)
        BY <1>0, <3>2 DEF ClientsInv
      <4> QED BY <1>0, <4>1, StillSeen
    <3> QED BY <3>1, <3>2
  <2> QED BY <2>1, <2>2 DEF ClientsInv
<1>2. PacketsInv'
  <2>1. ASSUME NEW r \in Slot PROVE down'[r] \in Seq(Down(worker, session, r))
    <3> DEFINE X == Down(worker, session, r)
    <3>1. down[r] \in Seq(X) /\ DOMAIN down = Slot  BY <1>0, LinkFacts DEF LinkOK
    <3>2. down'[r] = down[r] \/ (down[r] # <<>> /\ down'[r] = Tail(down[r]))  BY <3>1
    <3> HIDE DEF X
    <3>3. down'[r] \in Seq(X)  BY <3>1, <3>2, TailIn
    <3> QED BY <3>3 DEF X
  <2>2. ASSUME NEW r \in Slot PROVE up'[r] \in Seq(Up(worker, session, r, seen'))
    <3> DEFINE X == Up(worker, session, r, seen')
    <3>1. up[r] \in Seq(X) /\ DOMAIN up = Slot
      <4>1. up[r] \in Seq(Up(worker, session, r, seen)) /\ DOMAIN up = Slot
        BY <1>0, LinkFacts DEF LinkOK
      <4>2. Up(worker, session, r, seen) \subseteq X  BY <1>0, StillSeen
      <4> HIDE DEF X
      <4> QED BY <4>1, <4>2, SeqGrows
    <3>2. up'[r] = up[r] \/ \E m \in X : up'[r] = Append(up[r], m)  BY <3>1
    <3> HIDE DEF X
    <3>3. up'[r] \in Seq(X)  BY <3>1, <3>2, AppendIn
    <3> QED BY <3>3 DEF X
  <2>3. inbox \in Seq(Inbox(worker, seen'))
    <3>1. Inbox(worker, seen) \subseteq Inbox(worker, seen')  BY <1>0, StillSeen
    <3> QED BY <1>0, <3>1, LinkFacts, SeqGrows
  <2>4. down' = [r \in Slot |-> down'[r]] /\ up' = [r \in Slot |-> up'[r]]
    BY <1>0 DEF PacketsInv
  <2>5. down' \in [Slot -> Seq(ToPlayer)] /\ up' \in [Slot -> Seq(ToSession)]
    BY <2>1, <2>2, <2>4, PacketsKept
  <2> QED BY <2>1, <2>2, <2>3, <2>5 DEF PacketsInv
<1> QED BY <1>0, <1>1, <1>2, WorkerStays

\* What was seen is forgotten of player `p` at most, and of `p` only when it
\* has nothing on its way to the authority.
Forgets(p) ==
  /\ \A r \in Slot \ {p} : \A kind, n : <<r, kind, n>> \in seen => <<r, kind, n>> \in seen'
  /\ seen' # seen => \A i \in DOMAIN inbox : inbox[i].player # p

\* The inbox, when what was seen of `p` is forgotten.
LEMMA InboxKept ==
  ASSUME PacketsInv, NEW p \in Slot, Forgets(p) PROVE inbox \in Seq(Inbox(worker, seen'))
<1> DEFINE X == Inbox(worker, seen)
           Y == Inbox(worker, seen')
<1>1. inbox \in Seq(X)  BY LinkFacts
<1>2. ASSUME NEW m \in X, m.player # p PROVE m \in Y
  <2>1. m.player \in Slot \ {p}  BY <1>2 DEF Inbox, ToAuthority
  <2> QED BY <1>2, <2>1 DEF Inbox, InboxOK, DeathSeen, TutorialSeen, Forgets
<1>3. CASE seen' = seen  BY <1>1, <1>3
<1>4. CASE \A i \in DOMAIN inbox : inbox[i].player # p
  <2> HIDE DEF X, Y
  <2>1. Len(inbox) \in Nat /\ DOMAIN inbox = 1..Len(inbox)  BY <1>1
  <2>2. \A i \in DOMAIN inbox : inbox[i] \in Y  BY <1>1, <1>2, <1>4
  <2>3. inbox = [i \in 1..Len(inbox) |-> inbox[i]]  BY <1>1
  <2>4. inbox \in [1..Len(inbox) -> Y]  BY <2>1, <2>2, <2>3
  <2> QED BY <2>1, <2>4 DEF Y
<1> QED BY <1>3, <1>4 DEF Forgets

\* One player's connection begins or ends: nothing of an earlier one is left.
LEMMA LinkChanges ==
  ASSUME MomentsInv, NEW p \in Slot, NEW c \in Client, NEW q,
         UNCHANGED <<worker, inbox, saved>>, Forgets(p), session'.tutorials = session.tutorials,
         session' \in Session, Connections(session'), session'.deaths = session.deaths,
         session'.hatch = session.hatch, session.next <= session'.next,
         \A r \in Slot \ {p} : session'.base[r] = session.base[r],
         ClientOK(worker, session', p, c, seen'), clients' = [clients EXCEPT ![p] = c],
         q \in Seq(Down(worker, session', p)),
         up' = [up EXCEPT ![p] = <<>>], down' = [down EXCEPT ![p] = q]
  PROVE  MomentsInv' /\ StepSeen
<1>0. /\ worker \in Worker /\ WorkerOK(worker) /\ session \in Session
      /\ SessionOK(worker, session) /\ PacketsInv /\ ClientsInv
  BY DEF MomentsInv, StateInv
<1>1. SessionOK(worker, session')  BY <1>0 DEF SessionOK, DeathsOffered, TutorialsOffered
<1>2. session.next \in Nat /\ session'.next \in Nat  BY <1>0 DEF Session
<1>3. ASSUME NEW r \in Slot, r # p
      PROVE  /\ Down(worker, session, r) \subseteq Down(worker, session', r)
             /\ Up(worker, session, r, seen) \subseteq Up(worker, session', r, seen')
             /\ \A d \in Client : ClientOK(worker, session, r, d, seen)
                                  => ClientOK(worker, session', r, d, seen')
  <2>1. session'.base[r] = session.base[r]  BY <1>3
  <2>1a. \A n : /\ DeathSeen(worker, r, n, seen) => DeathSeen(worker, r, n, seen')
                /\ TutorialSeen(worker, r, n, seen) => TutorialSeen(worker, r, n, seen')
    BY <1>3 DEF Forgets, DeathSeen, TutorialSeen
  <2>2. \A m \in ToPlayer : DownOK(worker, session, r, m) => DownOK(worker, session', r, m)
    BY <1>2, <2>1 DEF DownOK, ToPlayer
  <2>3. \A m \in ToSession : UpOK(worker, session, r, m, seen) => UpOK(worker, session', r, m, seen')
    BY <1>2, <2>1, <2>1a DEF UpOK, ToSession
  <2>4. \A d \in Client : ClientConnected(worker, session, r, d) => ClientConnected(worker, session', r, d)
    <3>1. \A d \in Client : d.base \in Nat  BY DEF Client
    <3> QED BY <1>2, <2>1, <3>1 DEF ClientConnected
  <2>5. \A d : /\ ClientDeath(worker, r, d, seen) => ClientDeath(worker, r, d, seen')
               /\ ClientTutorial(worker, r, d, seen) => ClientTutorial(worker, r, d, seen')
    BY <2>1a DEF ClientDeath, ClientTutorial
  <2> QED BY <2>2, <2>3, <2>4, <2>5 DEF Down, Up, ClientOK
<1>4. ClientsInv'
  <2>1. clients' \in [Slot -> Client]  BY <1>0 DEF ClientsInv
  <2>2. ASSUME NEW r \in Slot PROVE ClientOK(worker, session', r, clients'[r], seen')
    <3>1. CASE r = p  BY <1>0, <3>1 DEF ClientsInv
    <3>2. CASE r # p
      <4>1. clients'[r] = clients[r] /\ clients[r] \in Client
            /\ ClientOK(worker, session, r, clients[r], seen)
        BY <1>0, <3>2 DEF ClientsInv
      <4> QED BY <1>3, <3>2, <4>1
    <3> QED BY <3>1, <3>2
  <2> QED BY <2>1, <2>2 DEF ClientsInv
<1>5. PacketsInv'
  <2>1. ASSUME NEW r \in Slot
        PROVE  /\ down'[r] \in Seq(Down(worker, session', r))
               /\ up'[r] \in Seq(Up(worker, session', r, seen'))
    <3>1. /\ DOMAIN down = Slot /\ DOMAIN up = Slot
          /\ down[r] \in Seq(Down(worker, session, r)) /\ up[r] \in Seq(Up(worker, session, r, seen))
      BY <1>0, LinkFacts DEF LinkOK
    <3>2. CASE r = p
      <4>1. down'[r] = q /\ up'[r] = <<>>  BY <3>1, <3>2
      <4> QED BY <3>2, <4>1, EmptyIn
    <3>3. CASE r # p
      <4>1. down'[r] = down[r] /\ up'[r] = up[r]  BY <3>1, <3>3
      <4> QED BY <1>3, <3>1, <3>3, <4>1, SeqGrows
    <3> QED BY <3>2, <3>3
  <2>2. inbox \in Seq(Inbox(worker, seen'))  BY <1>0, InboxKept
  <2>3. down' \in [Slot -> Seq(ToPlayer)] /\ up' \in [Slot -> Seq(ToSession)]
    <3>1. Down(worker, session', p) \subseteq ToPlayer  BY DEF Down
    <3>2. q \in Seq(ToPlayer) /\ <<>> \in Seq(ToSession)  BY <3>1, SeqGrows, EmptyIn
    <3> QED BY <1>0, <3>2 DEF PacketsInv
  <2> QED BY <2>1, <2>2, <2>3 DEF PacketsInv
<1> QED BY <1>1, <1>4, <1>5, WorkerStays


LEMMA JoinKeeps ==
  ASSUME MomentsInv, NEW p \in Slot, Join(p) PROVE MomentsInv' /\ StepSeen
<1> DEFINE n == session.next
           B == [session.base EXCEPT ![p] = n]
           R == [session.ready EXCEPT ![p] = FALSE]
           c == [clients[p] EXCEPT !.state = "joining"]
           m == Packet("baseline", n, worker.scene, session.life[p])
<1>0. /\ worker \in Worker /\ session \in Session /\ SessionOK(worker, session)
      /\ clients[p] \in Client /\ ClientOK(worker, session, p, clients[p], seen)
      /\ clients \in [Slot -> Client]
  BY DEF MomentsInv, StateInv, ClientsInv
<1>1. n \in Nat \ {0} /\ n + 1 \in Nat \ {0}  BY <1>0 DEF Session
<1>2. session' = [session EXCEPT !.base = B, !.ready = R, !.next = n + 1]
  BY <1>0 DEF Join, Session
<1>3. /\ B \in [Slot -> Nat] /\ R \in [Slot -> BOOLEAN]
      /\ \A r \in Slot : B[r] = IF r = p THEN n ELSE session.base[r]
      /\ \A r \in Slot : R[r] => r # p /\ session.ready[r]
  BY <1>0, <1>1 DEF Session
<1> HIDE DEF B, R, n
<1>4. session' \in Session  BY <1>0, <1>1, <1>2, <1>3 DEF Session
<1>5. /\ session'.base = B /\ session'.ready = R /\ session'.next = n + 1
      /\ session'.deaths = session.deaths /\ session'.hatch = session.hatch
      /\ session'.tutorials = session.tutorials
  BY <1>0, <1>2 DEF Session
<1>6. session.base \in [Slot -> Nat] /\ session.next = n  BY <1>0 DEF Session, n
<1>7. Connections(session')
  BY <1>0, <1>1, <1>3, <1>5, <1>6 DEF SessionOK, Connections
<1>8. c \in Client /\ clients' = [clients EXCEPT ![p] = c]
  BY <1>0 DEF Join, Client
<1>9. ClientOK(worker, session', p, c, seen)
  <2>1. /\ c.state = "joining" /\ c.scene = clients[p].scene /\ c.base = clients[p].base
        /\ c.death = clients[p].death /\ c.tutorial = clients[p].tutorial
        /\ c.restart = clients[p].restart /\ c.screen = clients[p].screen
        /\ c.base \in Nat
    BY <1>0 DEF Client
  <2> HIDE DEF c
  <2>2. ClientConnected(worker, session', p, c)
    BY <1>0, <1>1, <1>3, <1>5, <1>6, <2>1 DEF ClientOK, ClientConnected
  <2> QED BY <1>0, <2>1, <2>2 DEF ClientOK, ClientDeath, ClientTutorial
<1>10. <<m>> \in Seq(Down(worker, session', p))
  <2>1. m \in ToPlayer  BY <1>0, <1>1 DEF Packet, ToPlayer, Worker, Session, Words
  <2>2. DownOK(worker, session', p, m)
    BY <1>0, <1>1, <1>3, <1>5 DEF Packet, DownOK, Worker
  <2>3. m \in Down(worker, session', p)  BY <2>1, <2>2 DEF Down
  <2> HIDE DEF m
  <2> QED BY <2>3
<1>11. UNCHANGED <<worker, inbox, saved, seen>> /\ up' = [up EXCEPT ![p] = <<>>]
       /\ down' = [down EXCEPT ![p] = <<m>>]
  BY DEF Join, n
<1>12. session.next <= session'.next /\ \A r \in Slot \ {p} : session'.base[r] = session.base[r]
  BY <1>1, <1>3, <1>5, <1>6
<1>13. Forgets(p)  BY <1>11 DEF Forgets
<1> HIDE DEF c, m
<1> QED BY <1>4, <1>5, <1>7, <1>8, <1>9, <1>10, <1>11, <1>12, <1>13, LinkChanges

\* The connection is lost, or the player starts its game again.
LEMMA LinkEnds ==
  ASSUME MomentsInv, NEW p \in Slot, NEW c \in Client,
         c.state = "away", c.scene = clients[p].scene \/ c.scene = 0,
         c.base = 0, c.screen = clients[p].screen \/ c.screen = "idle",
         c.restart => clients[p].restart,
         c.death = clients[p].death \/ c.death.scene = 0,
         c.tutorial = clients[p].tutorial \/ (c.tutorial.scene = 0 /\ ~c.tutorial.due),
         clients' = [clients EXCEPT ![p] = c],
         session' = [session EXCEPT !.base[p] = 0, !.ready[p] = FALSE],
         up' = [up EXCEPT ![p] = <<>>], down' = [down EXCEPT ![p] = <<>>],
         UNCHANGED <<worker, inbox, saved>>, Forgets(p),
         seen' = seen \/ (c.death.scene = 0 /\ c.tutorial.scene = 0)
  PROVE  MomentsInv' /\ StepSeen
<1> DEFINE B == [session.base EXCEPT ![p] = 0]
           R == [session.ready EXCEPT ![p] = FALSE]
<1>0. /\ worker \in Worker /\ session \in Session /\ SessionOK(worker, session)
      /\ ClientOK(worker, session, p, clients[p], seen)
  BY DEF MomentsInv, StateInv, ClientsInv
<1>1. session' = [session EXCEPT !.base = B, !.ready = R]  BY <1>0 DEF Session
<1>2. /\ B \in [Slot -> Nat] /\ R \in [Slot -> BOOLEAN]
      /\ \A r \in Slot : B[r] = IF r = p THEN 0 ELSE session.base[r]
      /\ \A r \in Slot : R[r] => r # p /\ session.ready[r]
  BY <1>0 DEF Session
<1> HIDE DEF B, R
<1>3. session' \in Session  BY <1>0, <1>1, <1>2 DEF Session
<1>4. /\ session'.base = B /\ session'.ready = R /\ session'.next = session.next
      /\ session'.deaths = session.deaths /\ session'.hatch = session.hatch
      /\ session'.tutorials = session.tutorials
  BY <1>0, <1>1 DEF Session
<1>5. session.next \in Nat \ {0}  BY <1>0 DEF Session
<1>6. Connections(session')
  BY <1>0, <1>2, <1>4, <1>5 DEF SessionOK, Connections
<1>7. ClientOK(worker, session', p, c, seen')
  <2>1. worker.scene \in Nat \ {0}  BY <1>0 DEF Worker
  <2>2. ClientConnected(worker, session', p, c)
    BY <1>0, <1>4, <1>5, <2>1 DEF ClientOK, ClientConnected
  <2>3. ClientDeath(worker, p, c, seen')  BY <1>0, <2>1 DEF ClientOK, ClientDeath
  <2>4. ClientTutorial(worker, p, c, seen')  BY <1>0, <2>1 DEF ClientOK, ClientTutorial
  <2> QED BY <2>2, <2>3, <2>4 DEF ClientOK
<1>8. session.next <= session'.next /\ \A r \in Slot \ {p} : session'.base[r] = session.base[r]
  BY <1>2, <1>4, <1>5
<1> QED BY <1>3, <1>4, <1>6, <1>7, <1>8, EmptyIn, LinkChanges

LEMMA LinkLostKeeps ==
  ASSUME MomentsInv, NEW p \in Slot, LinkLost(p) PROVE MomentsInv' /\ StepSeen
<1> DEFINE c == [clients[p] EXCEPT !.state = "away", !.base = 0, !.frame = NoFrame]
<1>1. clients[p] \in Client /\ clients \in [Slot -> Client]  BY DEF MomentsInv, ClientsInv
<1>2. c \in Client  BY <1>1 DEF Client, NoFrame, HatchFrame, Words
<1>3. /\ c.state = "away" /\ c.scene = clients[p].scene /\ c.base = 0
      /\ c.screen = clients[p].screen /\ c.restart = clients[p].restart
      /\ c.death = clients[p].death /\ c.tutorial = clients[p].tutorial
  BY <1>1 DEF Client
<1>4. clients' = [clients EXCEPT ![p] = c]  BY <1>1 DEF LinkLost
<1> HIDE DEF c
<1>5. UNCHANGED <<worker, inbox, saved, seen>> /\ Forgets(p)  BY DEF LinkLost, Forgets
<1> QED BY <1>2, <1>3, <1>4, <1>5, LinkEnds DEF LinkLost

LEMMA StartAgainKeeps ==
  ASSUME MomentsInv, NEW p \in Slot, StartAgain(p) PROVE MomentsInv' /\ StepSeen
<1>1. NewClient \in Client
  BY DEF NewClient, Client, NoDeath, NoLesson, NoFrame, HatchFrame, Words, Life
<1>2. /\ NewClient.state = "away" /\ NewClient.scene = 0 /\ NewClient.base = 0
      /\ NewClient.screen = "idle" /\ ~NewClient.restart /\ NewClient.death.scene = 0
      /\ NewClient.tutorial.scene = 0 /\ ~NewClient.tutorial.due
  BY DEF NewClient, NoDeath, NoLesson
<1>3. Forgets(p)
  <2>1. seen' = {moment \in seen : moment[1] # p} /\ \A i \in DOMAIN inbox : inbox[i].player # p
    BY DEF StartAgain
  <2> QED BY <2>1 DEF Forgets
<1> QED BY <1>1, <1>2, <1>3, LinkEnds DEF StartAgain


LEMMA SessionReceivesKeeps ==
  ASSUME MomentsInv, NEW p \in Slot, SessionReceives(p) PROVE MomentsInv' /\ StepSeen
<1> DEFINE X == Up(worker, session, p, seen)
           packet == Head(up[p])
           e == [kind |-> packet.kind, player |-> p, n |-> packet.n]
           m == Packet("reject", session.base[p], 0, "")
           verdict == Verdict(session, p, packet)
<1>0. /\ worker \in Worker /\ session \in Session /\ SessionOK(worker, session)
      /\ PacketsInv /\ ClientsInv
  BY DEF MomentsInv, StateInv
<1>1. DOMAIN up = Slot /\ DOMAIN down = Slot /\ up[p] \in Seq(X) /\ up[p] # <<>>
  BY <1>0, LinkFacts DEF LinkOK, SessionReceives
<1>2. packet \in X /\ Tail(up[p]) \in Seq(X)
  <2> HIDE DEF X
  <2> QED BY <1>1, TailIn
<1>3. packet \in ToSession /\ UpOK(worker, session, p, packet, seen)  BY <1>2 DEF Up
<1>4. UNCHANGED <<worker, clients, saved, seen>> /\ up' = [up EXCEPT ![p] = Tail(@)]
  BY DEF SessionReceives
<1> HIDE DEF packet
<1>5. CASE packet.kind = "baseline_ack"
  <2> DEFINE R == [session.ready EXCEPT ![p] = @ \/ (packet.base = session.base[p])]
  <2>1. session' = [session EXCEPT !.ready = R] /\ UNCHANGED <<down, inbox>>
    BY <1>0, <1>5 DEF SessionReceives, packet, Session
  <2>2. /\ R \in [Slot -> BOOLEAN]
        /\ \A r \in Slot : R[r] => session.ready[r] \/ (r = p /\ packet.base = session.base[p])
    BY <1>0 DEF Session
  <2> HIDE DEF R
  <2>3. session' \in Session  BY <1>0, <2>1, <2>2 DEF Session
  <2>4. /\ session'.base = session.base /\ session'.next = session.next /\ session'.ready = R
        /\ session'.deaths = session.deaths /\ session'.hatch = session.hatch
        /\ session'.tutorials = session.tutorials
    BY <1>0, <2>1 DEF Session
  <2>5. packet.base # 0  BY <1>3 DEF UpOK
  <2>6. Connections(session')
    BY <1>0, <2>2, <2>4, <2>5 DEF SessionOK, Connections
  <2>7. SessionOK(worker, session')
    BY <1>0, <2>4, <2>6 DEF SessionOK, DeathsOffered, TutorialsOffered
  <2>8. ClientsInv'  BY <1>0, <1>4, <2>4, SameConnections DEF ClientsInv
  <2>9. PacketsInv'
    <3>1. \A r \in Slot : /\ Down(worker, session', r) = Down(worker, session, r)
                         /\ Up(worker, session', r, seen) = Up(worker, session, r, seen)
      BY <2>4, SameConnections
    <3>2. ASSUME NEW r \in Slot PROVE up'[r] \in Seq(Up(worker, session, r, seen))
      <4>1. CASE r = p  BY <1>1, <1>2, <1>4, <4>1
      <4>2. CASE r # p  BY <1>0, <1>1, <1>4, <4>2, LinkFacts DEF LinkOK
      <4> QED BY <4>1, <4>2
    <3>3. up' = [r \in Slot |-> up'[r]] /\ down = [r \in Slot |-> down[r]]
      BY <1>0, <1>4 DEF PacketsInv
    <3>4. \A r \in Slot : down[r] \in Seq(Down(worker, session, r))  BY <1>0, LinkFacts DEF LinkOK
    <3>5. down \in [Slot -> Seq(ToPlayer)] /\ up' \in [Slot -> Seq(ToSession)]
      BY <3>2, <3>3, <3>4, PacketsKept
    <3> QED BY <1>0, <1>4, <2>1, <3>1, <3>2, <3>4, <3>5 DEF PacketsInv
  <2> QED BY <1>4, <2>3, <2>7, <2>8, <2>9, WorkerStays
<1>6. CASE packet.kind # "baseline_ack"
  <2>1. /\ session' = session
        /\ down' = down \/ (verdict = "reject" /\ down' = [down EXCEPT ![p] = Append(@, m)])
        /\ inbox' = IF verdict = "confirm" THEN Append(inbox, e) ELSE inbox
    BY <1>6 DEF SessionReceives, SendDown, packet
  <2>2. packet.kind \in Confirmations  BY <1>3, <1>6 DEF ToSession
  <2>3. verdict # "ignore" => session.ready[p] /\ packet.base = session.base[p]
    BY DEF Verdict
  <2> HIDE DEF verdict
  <2>4. inbox' \in Seq(Inbox(worker, seen))
    <3> DEFINE Y == Inbox(worker, seen)
    <3>1. inbox \in Seq(Y)  BY <1>0, LinkFacts
    <3>2. ASSUME verdict = "confirm" PROVE e \in Y
      <4>1. e \in ToAuthority  BY <1>3, <2>2 DEF ToAuthority, ToSession
      <4>2. InboxOK(worker, e, seen)  BY <1>3, <2>3, <3>2 DEF UpOK, InboxOK
      <4> QED BY <4>1, <4>2 DEF Inbox
    <3> HIDE DEF Y, e
    <3>3. inbox' \in Seq(Y)  BY <2>1, <3>1, <3>2, AppendIn
    <3> QED BY <3>3 DEF Y
  <2>5. verdict = "reject" => m \in Down(worker, session, p)
    <3> SUFFICES ASSUME verdict = "reject" PROVE m \in ToPlayer /\ DownOK(worker, session, p, m)
      BY DEF Down
    <3>1. session.base[p] # 0 /\ session.base[p] < session.next /\ session.base[p] \in Nat
      BY <1>0, <2>3 DEF SessionOK, Connections, Session
    <3> QED BY <3>1 DEF Packet, ToPlayer, DownOK, Words
  <2> HIDE DEF m
  <2>6. \A r \in Slot : /\ down[r] \in Seq(Down(worker, session, r))
                        /\ up[r] \in Seq(Up(worker, session, r, seen))
    BY <1>0, LinkFacts DEF LinkOK
  <2>7. ASSUME NEW r \in Slot PROVE down'[r] \in Seq(Down(worker, session, r))
    <3> DEFINE Y == Down(worker, session, r)
    <3>1. down[r] \in Seq(Y)  BY <2>6
    <3>2. down'[r] = down[r] \/ (m \in Y /\ down'[r] = Append(down[r], m))
      BY <1>1, <2>1, <2>5
    <3> HIDE DEF Y
    <3>3. down'[r] \in Seq(Y)  BY <3>1, <3>2, AppendIn
    <3> QED BY <3>3 DEF Y
  <2>8. ASSUME NEW r \in Slot PROVE up'[r] \in Seq(Up(worker, session, r, seen))
    <3>1. CASE r = p  BY <1>1, <1>2, <1>4, <3>1
    <3>2. CASE r # p  BY <1>1, <1>4, <2>6, <3>2
    <3> QED BY <3>1, <3>2
  <2>9. up' = [r \in Slot |-> up'[r]] /\ down' = [r \in Slot |-> down'[r]]
    BY <1>0, <1>4, <2>1 DEF PacketsInv
  <2>10. down' \in [Slot -> Seq(ToPlayer)] /\ up' \in [Slot -> Seq(ToSession)]
    BY <2>7, <2>8, <2>9, PacketsKept
  <2>11. PacketsInv'  BY <1>4, <2>1, <2>4, <2>7, <2>8, <2>10 DEF PacketsInv
  <2>12. ClientsInv'  BY <1>0, <1>4, <2>1 DEF ClientsInv
  <2> QED BY <1>0, <1>4, <2>1, <2>11, <2>12, WorkerStays
<1> QED BY <1>5, <1>6

LEMMA ClientFacts ==
  ASSUME MomentsInv, NEW p \in Slot
  PROVE  /\ worker \in Worker /\ WorkerOK(worker) /\ session \in Session
         /\ SessionOK(worker, session)
         /\ clients \in [Slot -> Client] /\ clients[p] \in Client
         /\ ClientOK(worker, session, p, clients[p], seen)
         /\ \A T : seen \subseteq T => ClientOK(worker, session, p, clients[p], T)
<1>1. /\ worker \in Worker /\ WorkerOK(worker) /\ session \in Session
      /\ SessionOK(worker, session)
      /\ clients \in [Slot -> Client] /\ clients[p] \in Client
      /\ ClientOK(worker, session, p, clients[p], seen)
  BY DEF MomentsInv, StateInv, ClientsInv
<1> QED BY <1>1, StillSeen

\* A packet sent by a client that is ready: it is of its connection, and of
\* the worker's scene if that is the connection the session knows.
LEMMA ReadySends ==
  ASSUME MomentsInv, NEW p \in Slot, clients[p].state = "ready"
  PROVE  /\ clients[p].base # 0 /\ clients[p].base < session.next
         /\ clients[p].base = session.base[p] <=> clients[p].scene = worker.scene
  BY ClientFacts DEF ClientOK, ClientConnected

\* A death's film ends: its player has now seen that death through.
LEMMA DeathFilmKeeps ==
  ASSUME MomentsInv, NEW p \in Slot, DeathFilmEnds(p) PROVE MomentsInv' /\ StepSeen
<1> DEFINE c == clients[p]
           d == [c EXCEPT !.film = "none", !.restart = c.view = "corpse"]
<1>1. c \in Client /\ clients' = [clients EXCEPT ![p] = d] /\ UNCHANGED <<others, up>>
      /\ seen' = IF c.death.scene = worker.scene
                 THEN seen \cup ({<<p, "death", c.death.n>>} \cap Awaited(worker)) ELSE seen
  BY ClientFacts DEF DeathFilmEnds, Becoming
<1>2. d \in Client  BY <1>1 DEF Client
<1>3. /\ d.state = c.state /\ d.scene = c.scene /\ d.base = c.base /\ d.death = c.death
      /\ d.tutorial = c.tutorial /\ d.screen = c.screen
  BY <1>1 DEF Client
<1>4. ClientOK(worker, session, p, c, seen')  BY <1>1, ClientFacts
<1> HIDE DEF d
<1>5. ASSUME c.death.scene = worker.scene, DeathKnown(worker, c.death.n)
      PROVE  DeathSeen(worker, p, c.death.n, seen')
  <2>1. c.death.n = worker.pending[p] => <<p, "death", c.death.n>> \in Awaited(worker)
    BY DEF Awaited
  <2> QED BY <1>1, <1>5, <2>1 DEF DeathSeen
<1>6. ClientOK(worker, session, p, d, seen')
  BY <1>3, <1>4, <1>5 DEF ClientOK, ClientConnected, ClientDeath, ClientTutorial
<1> QED BY <1>1, <1>2, <1>6, ClientMoves DEF others

LEMMA TutorialFilmKeeps ==
  ASSUME MomentsInv, NEW p \in Slot, TutorialFilmEnds(p) PROVE MomentsInv' /\ StepSeen
<1> DEFINE c == clients[p]
           d == [c EXCEPT !.film = "none", !.screen = "completed"]
<1>1. c \in Client /\ clients' = [clients EXCEPT ![p] = d] /\ UNCHANGED <<others, up>>
      /\ seen' = IF c.tutorial.scene = worker.scene
                 THEN seen \cup ({<<p, "tutorial", c.tutorial.n>>} \cap Awaited(worker)) ELSE seen
  BY ClientFacts DEF TutorialFilmEnds, Becoming
<1>2. d \in Client  BY <1>1 DEF Client
<1>3. /\ d.state = c.state /\ d.scene = c.scene /\ d.base = c.base /\ d.death = c.death
      /\ d.tutorial = c.tutorial /\ d.restart = c.restart
  BY <1>1 DEF Client
<1>4. ClientOK(worker, session, p, c, seen')  BY <1>1, ClientFacts
<1> HIDE DEF d
<1>5. ASSUME c.tutorial.scene = worker.scene, TutorialKnown(worker, p, c.tutorial.n)
      PROVE  TutorialSeen(worker, p, c.tutorial.n, seen')
  <2>1. c.tutorial.n = worker.tutorial[p] => <<p, "tutorial", c.tutorial.n>> \in Awaited(worker)
    BY DEF Awaited
  <2> QED BY <1>1, <1>5, <2>1 DEF TutorialSeen
<1>6. ClientOK(worker, session, p, d, seen')
  BY <1>3, <1>4, <1>5 DEF ClientOK, ClientConnected, ClientDeath, ClientTutorial
<1> QED BY <1>1, <1>2, <1>6, ClientMoves DEF others

LEMMA StaleFilmKeeps ==
  ASSUME MomentsInv, NEW p \in Slot, StaleFilmEnds(p) PROVE MomentsInv' /\ StepSeen
<1> DEFINE c == clients[p]
           d == [c EXCEPT !.film = "none"]
<1>1. c \in Client /\ clients' = [clients EXCEPT ![p] = d] /\ UNCHANGED <<others, up, seen>>
  BY ClientFacts DEF StaleFilmEnds, Becoming
<1>2. d \in Client  BY <1>1 DEF Client
<1>3. /\ d.state = c.state /\ d.scene = c.scene /\ d.base = c.base /\ d.death = c.death
      /\ d.tutorial = c.tutorial /\ d.restart = c.restart /\ d.screen = c.screen
  BY <1>1 DEF Client
<1> HIDE DEF d
<1>4. ClientOK(worker, session, p, d, seen)
  BY <1>3, ClientFacts DEF ClientOK, ClientConnected, ClientDeath, ClientTutorial
<1> QED BY <1>1, <1>2, <1>4, ClientMoves DEF others


\* The death that the client followed is over for it.
LEMMA DeathReset ==
  ASSUME NEW w \in Worker, NEW s, NEW p, NEW S, NEW c \in Client, ClientOK(w, s, p, c, S)
  PROVE  reset_native_death(c) \in Client /\ ClientOK(w, s, p, reset_native_death(c), S)
<1> DEFINE film == IF c.film = "death" THEN "stale" ELSE c.film
           d == [c EXCEPT !.death = NoDeath, !.restart = FALSE, !.fading = FALSE, !.film = film]
<1>1. reset_native_death(c) = d  BY DEF reset_native_death, Client
<1>2. film \in {"none", "death", "tutorial", "stale"}  BY DEF Client
<1>3. NoDeath \in [n : Nat, scene : Nat, base : Nat] /\ NoDeath.scene = 0  BY DEF NoDeath
<1> HIDE DEF film
<1>4. d \in Client  BY <1>2, <1>3 DEF Client
<1>5. /\ d.state = c.state /\ d.scene = c.scene /\ d.base = c.base /\ d.death = NoDeath
      /\ d.tutorial = c.tutorial /\ d.screen = c.screen
  BY DEF Client
<1>6. w.scene \in Nat \ {0}  BY DEF Worker
<1> HIDE DEF d
<1>7. ClientOK(w, s, p, d, S)
  BY <1>3, <1>5, <1>6 DEF ClientOK, ClientConnected, ClientDeath, ClientTutorial
<1> QED BY <1>1, <1>4, <1>7

LEMMA UpdateDeathKeeps ==
  ASSUME MomentsInv, NEW p \in Slot, update_death(p) PROVE MomentsInv' /\ StepSeen
<1> DEFINE c == clients[p]
           m == Packet("death_done", c.base, c.death.n, "")
<1>0. UNCHANGED <<worker, session, down, inbox, saved, seen>>  BY DEF update_death, others
<1>1. ASSUME NEW d \in Client, ClientOK(worker, session, p, d, seen),
             clients' = [clients EXCEPT ![p] = d], up' = up
      PROVE  MomentsInv' /\ StepSeen
  BY <1>0, <1>1, ClientMoves
<1>2. CASE Becoming(p, reset_native_death(c)) /\ UNCHANGED up
  <2>1. reset_native_death(c) \in Client /\ ClientOK(worker, session, p, reset_native_death(c), seen)
    BY ClientFacts, DeathReset
  <2> QED BY <1>1, <1>2, <2>1 DEF Becoming
<1>3. CASE Becoming(p, restore_native_death_view(c)) /\ UNCHANGED up
  <2>1. CASE c.fading
    <3>1. reset_native_death(c) \in Client /\ ClientOK(worker, session, p, reset_native_death(c), seen)
      BY ClientFacts, DeathReset
    <3> QED BY <1>1, <1>3, <2>1, <3>1 DEF Becoming, restore_native_death_view
  <2>2. CASE ~c.fading
    <3> DEFINE d == [c EXCEPT !.fading = TRUE]
    <3>1. c \in Client  BY ClientFacts
    <3>2. /\ d \in Client /\ d.state = c.state /\ d.scene = c.scene /\ d.base = c.base
          /\ d.death = c.death /\ d.restart = c.restart
          /\ d.tutorial = c.tutorial /\ d.screen = c.screen
      BY <3>1 DEF Client
    <3>3. clients' = [clients EXCEPT ![p] = d]
      BY <1>3, <2>2 DEF Becoming, restore_native_death_view
    <3> HIDE DEF d
    <3>4. ClientOK(worker, session, p, d, seen)
      BY <3>2, ClientFacts DEF ClientOK, ClientConnected, ClientDeath, ClientTutorial
    <3> QED BY <1>1, <1>3, <3>2, <3>3, <3>4
  <2> QED BY <2>1, <2>2
<1>4. CASE /\ c.state = "ready" /\ c.death.scene = c.scene /\ native_death_confirmed(c)
           /\ Sends(p, m) /\ UNCHANGED clients
  <2>1. c \in Client /\ c.restart  BY <1>4, ClientFacts DEF native_death_confirmed
  <2>2. m \in ToSession  BY <2>1 DEF Packet, ToSession, Client, Words, Confirmations
  <2>3. UpOK(worker, session, p, m, seen)
    BY <1>4, <2>1, ClientFacts, ReadySends DEF UpOK, Packet, ClientOK, ClientDeath
  <2>4. m \in Up(worker, session, p, seen)  BY <2>2, <2>3 DEF Up
  <2>5. up' = [up EXCEPT ![p] = Append(@, m)]  BY <1>4 DEF Sends
  <2> HIDE DEF m
  <2>6. clients' = [clients EXCEPT ![p] = c] /\ ClientOK(worker, session, p, c, seen)
    BY <1>4, ClientFacts
  <2> QED BY <1>0, <2>1, <2>4, <2>5, <2>6, ClientMoves
<1> QED BY <1>2, <1>3, <1>4 DEF update_death

LEMMA UpdateTutorialKeeps ==
  ASSUME MomentsInv, NEW p \in Slot, update_tutorial(p) PROVE MomentsInv' /\ StepSeen
<1> DEFINE c == clients[p]
           L == [c.tutorial EXCEPT !.complete = TRUE, !.due = FALSE]
           d == [c EXCEPT !.tutorial = L]
           m == Packet("tutorial_done", c.base, c.tutorial.n, "")
<1>0. UNCHANGED <<worker, session, down, inbox, saved, seen>>  BY DEF update_tutorial, others
<1>1. /\ c \in Client /\ c.state = "ready" /\ c.tutorial.scene = c.scene
      /\ tutorial_completed(c) \/ c.tutorial.due
  BY ClientFacts DEF update_tutorial
<1>2. /\ L \in [n : Nat, scene : Nat, base : Nat, complete : BOOLEAN, due : BOOLEAN]
      /\ L.n = c.tutorial.n /\ L.scene = c.tutorial.scene /\ ~L.due
  BY <1>1 DEF Client
<1>3. up' = [up EXCEPT ![p] = Append(@, m)] /\ clients' = [clients EXCEPT ![p] = d]
  BY <1>1 DEF update_tutorial, Sends, Becoming, Client
<1> HIDE DEF L
<1>4. /\ d \in Client /\ d.state = c.state /\ d.scene = c.scene /\ d.base = c.base
      /\ d.death = c.death /\ d.restart = c.restart /\ d.tutorial = L /\ d.screen = c.screen
  BY <1>1, <1>2 DEF Client
<1>5. c.tutorial.scene = worker.scene => TutorialSeen(worker, p, c.tutorial.n, seen)
  BY <1>1, ClientFacts DEF ClientOK, ClientTutorial, tutorial_completed
<1> HIDE DEF d
<1>6. ClientOK(worker, session, p, d, seen)
  BY <1>2, <1>4, <1>5, ClientFacts DEF ClientOK, ClientConnected, ClientDeath, ClientTutorial
<1>7. m \in ToSession  BY <1>1 DEF Packet, ToSession, Client, Words, Confirmations
<1>8. UpOK(worker, session, p, m, seen)
  BY <1>1, <1>5, ReadySends DEF UpOK, Packet
<1>9. m \in Up(worker, session, p, seen)  BY <1>7, <1>8 DEF Up
<1> HIDE DEF m
<1> QED BY <1>0, <1>3, <1>4, <1>6, <1>9, ClientMoves

LEMMA InputKeeps ==
  ASSUME MomentsInv, native_network_hatch_input PROVE MomentsInv' /\ StepSeen
<1> DEFINE c == clients[2]
           m == Packet("hatch_input", c.base, c.frame.n, "lesson")
<1>0. 2 \in Slot  BY DEF Slot
<1>1. c \in Client /\ clients \in [Slot -> Client] /\ ClientOK(worker, session, 2, c, seen)
  BY <1>0, ClientFacts
<1>2. UNCHANGED <<others, clients, seen>> /\ up' = [up EXCEPT ![2] = Append(@, m)] /\ c.state = "ready"
  BY DEF native_network_hatch_input
<1>3. m \in ToSession  BY <1>1 DEF Packet, ToSession, Client, HatchFrame, Words, Confirmations
<1>4. UpOK(worker, session, 2, m, seen)  BY <1>0, <1>2, ReadySends DEF UpOK, Packet
<1>5. m \in Up(worker, session, 2, seen)  BY <1>3, <1>4 DEF Up
<1>6. clients' = [clients EXCEPT ![2] = c]  BY <1>1, <1>2
<1> HIDE DEF m, c
<1> QED BY <1>0, <1>1, <1>2, <1>5, <1>6, ClientMoves DEF others

-----------------------------------------------------------------------------
(* What a client makes of the packets it receives.                           *)

\* Packets that change neither what the client follows nor its connection.
LEMMA SameClient ==
  ASSUME NEW w, NEW s, NEW p, NEW S, NEW c, NEW d, ClientOK(w, s, p, c, S),
         d.state = c.state, d.scene = c.scene, d.base = c.base, d.death = c.death,
         d.restart = c.restart, d.tutorial = c.tutorial,
         d.screen = c.screen \/ d.screen = "idle"
  PROVE  ClientOK(w, s, p, d, S)
  BY DEF ClientOK, ClientConnected, ClientDeath, ClientTutorial

LEMMA ReceivesBaseline ==
  ASSUME NEW w \in Worker, NEW s \in Session, NEW p \in Slot, NEW S, NEW c \in Client,
         ClientOK(w, s, p, c, S), NEW m \in Down(w, s, p), m.kind = "baseline",
         c.state \in {"joining", "ready"}
  PROVE  receive_baseline(c, m) \in Client /\ ClientOK(w, s, p, receive_baseline(c, m), S)
<1> DEFINE d == receive_baseline(c, m)
<1>1. m \in ToPlayer /\ DownOK(w, s, p, m)  BY DEF Down
<1>2. m.n \in Nat /\ m.base \in Nat /\ m.what \in Words  BY <1>1 DEF ToPlayer
<1>3. NoFrame \in HatchFrame  BY DEF NoFrame, HatchFrame, Words
<1>4. d \in Client  BY <1>2, <1>3 DEF receive_baseline, Client
<1>5. /\ d.state = "ready" /\ d.scene = m.n /\ d.base = m.base /\ d.death = c.death
      /\ d.tutorial = c.tutorial /\ d.restart = c.restart /\ d.screen = c.screen
  BY DEF receive_baseline, Client
<1> HIDE DEF d
<1>6. ClientOK(w, s, p, d, S)
  BY <1>1, <1>5 DEF DownOK, ClientOK, ClientConnected, ClientDeath, ClientTutorial
<1> QED BY <1>4, <1>6 DEF d

LEMMA ReceivesDeathOffer ==
  ASSUME NEW w \in Worker, NEW s \in Session, NEW p \in Slot, NEW S, NEW c \in Client,
         ClientOK(w, s, p, c, S), NEW m \in Down(w, s, p), m.kind = "death",
         c.state = "ready", m.base = c.base
  PROVE  receive_death(c, m) \in Client /\ ClientOK(w, s, p, receive_death(c, m), S)
<1>1. m \in ToPlayer /\ DownOK(w, s, p, m)  BY DEF Down
<1>2. m.n \in Nat /\ m.base \in Nat  BY <1>1 DEF ToPlayer
<1>3. c.scene = w.scene => DeathKnown(w, m.n)
  BY <1>1 DEF DownOK, ClientOK, ClientConnected
<1>4. CASE receive_death(c, m) = c  BY <1>4
<1>5. CASE receive_death(c, m) = [c EXCEPT !.death.base = m.base]
  <2> DEFINE D == [c.death EXCEPT !.base = m.base]
             d == [c EXCEPT !.death = D]
  <2>1. D \in [n : Nat, scene : Nat, base : Nat] /\ D.n = c.death.n /\ D.scene = c.death.scene
    BY <1>2 DEF Client
  <2>2. receive_death(c, m) = d  BY <1>5 DEF Client
  <2> HIDE DEF D
  <2>3. /\ d \in Client /\ d.state = c.state /\ d.scene = c.scene /\ d.base = c.base /\ d.death = D
        /\ d.restart = c.restart /\ d.tutorial = c.tutorial /\ d.screen = c.screen
    BY <2>1 DEF Client
  <2> HIDE DEF d
  <2>4. ClientOK(w, s, p, d, S)
    BY <2>1, <2>3 DEF ClientOK, ClientConnected, ClientDeath, ClientTutorial
  <2> QED BY <2>2, <2>3, <2>4
<1>6. CASE receive_death(c, m) = present_native_death(c, m)
  <2> DEFINE D == [n |-> m.n, scene |-> c.scene, base |-> m.base]
             d == [c EXCEPT !.death = D, !.restart = FALSE, !.film = "death"]
  <2>1. D \in [n : Nat, scene : Nat, base : Nat] /\ D.n = m.n /\ D.scene = c.scene
    BY <1>2 DEF Client
  <2>2. receive_death(c, m) = d  BY <1>6 DEF present_native_death
  <2> HIDE DEF D
  <2>3. /\ d \in Client /\ d.state = c.state /\ d.scene = c.scene /\ d.base = c.base /\ d.death = D
        /\ ~d.restart /\ d.tutorial = c.tutorial /\ d.screen = c.screen
    BY <2>1 DEF Client
  <2> HIDE DEF d
  <2>4. ClientOK(w, s, p, d, S)
    BY <1>3, <2>1, <2>3 DEF ClientOK, ClientConnected, ClientDeath, ClientTutorial
  <2> QED BY <2>2, <2>3, <2>4
<1> QED BY <1>4, <1>5, <1>6 DEF receive_death

LEMMA ReceivesTutorialOffer ==
  ASSUME NEW w \in Worker, NEW s \in Session, NEW p \in Slot, NEW S, NEW c \in Client,
         ClientOK(w, s, p, c, S), NEW m \in Down(w, s, p), m.kind = "tutorial",
         c.state = "ready", m.base = c.base
  PROVE  receive_tutorial(c, m) \in Client /\ ClientOK(w, s, p, receive_tutorial(c, m), S)
<1> DEFINE Tutorials == [n : Nat, scene : Nat, base : Nat, complete : BOOLEAN, due : BOOLEAN]
<1>1. m \in ToPlayer /\ DownOK(w, s, p, m)  BY DEF Down
<1>2. m.n \in Nat /\ m.base \in Nat  BY <1>1 DEF ToPlayer
<1>3. c.scene = w.scene => TutorialKnown(w, p, m.n)
  BY <1>1 DEF DownOK, ClientOK, ClientConnected
<1>4. CASE receive_tutorial(c, m) = c  BY <1>4
<1>5. CASE receive_tutorial(c, m) = [c EXCEPT !.tutorial.base = m.base, !.tutorial.due = @ \/ c.tutorial.complete]
  <2> DEFINE D == [c.tutorial EXCEPT !.base = m.base, !.due = @ \/ c.tutorial.complete]
             d == [c EXCEPT !.tutorial = D]
  <2>0. c.tutorial \in Tutorials /\ (c.tutorial.due => c.tutorial.complete)
    BY DEF Client, ClientOK, ClientTutorial
  <2>1. /\ D \in Tutorials /\ D.n = c.tutorial.n /\ D.scene = c.tutorial.scene
        /\ D.complete = c.tutorial.complete /\ (D.due => c.tutorial.due \/ c.tutorial.complete)
    BY <1>2, <2>0
  <2>2. receive_tutorial(c, m) = d  BY <1>5 DEF Client
  <2> HIDE DEF D
  <2>3. /\ d \in Client /\ d.state = c.state /\ d.scene = c.scene /\ d.base = c.base
        /\ d.death = c.death /\ d.restart = c.restart /\ d.tutorial = D /\ d.screen = c.screen
    BY <2>1 DEF Client
  <2> HIDE DEF d
  <2>4. ClientOK(w, s, p, d, S)
    BY <2>0, <2>1, <2>3 DEF ClientOK, ClientConnected, ClientDeath, ClientTutorial
  <2> QED BY <2>2, <2>3, <2>4
<1>6. CASE receive_tutorial(c, m) = present_native_tutorial(c, m)
  <2> DEFINE D == [n |-> m.n, scene |-> c.scene, base |-> m.base, complete |-> FALSE, due |-> FALSE]
             d == [c EXCEPT !.tutorial = D, !.screen = "active", !.film = "tutorial"]
  <2>1. D \in Tutorials /\ D.n = m.n /\ D.scene = c.scene /\ ~D.complete /\ ~D.due
    BY <1>2 DEF Client
  <2>2. receive_tutorial(c, m) = d  BY <1>6 DEF present_native_tutorial
  <2> HIDE DEF D
  <2>3. /\ d \in Client /\ d.state = c.state /\ d.scene = c.scene /\ d.base = c.base
        /\ d.death = c.death /\ d.restart = c.restart /\ d.tutorial = D /\ d.screen = "active"
    BY <2>1 DEF Client
  <2> HIDE DEF d
  <2>4. ClientOK(w, s, p, d, S)
    BY <1>3, <2>1, <2>3 DEF ClientOK, ClientConnected, ClientDeath, ClientTutorial
  <2> QED BY <2>2, <2>3, <2>4
<1>7. CASE receive_tutorial(c, m) = [c EXCEPT !.screen = "idle"]
  <2> DEFINE d == [c EXCEPT !.screen = "idle"]
  <2>1. /\ d \in Client /\ d.state = c.state /\ d.scene = c.scene /\ d.base = c.base
        /\ d.death = c.death /\ d.restart = c.restart /\ d.tutorial = c.tutorial /\ d.screen = "idle"
    BY DEF Client
  <2> HIDE DEF d
  <2>2. ClientOK(w, s, p, d, S)  BY <2>1, SameClient
  <2> QED BY <1>7, <2>1, <2>2 DEF d
<1> QED BY <1>4, <1>5, <1>6, <1>7 DEF receive_tutorial


\* Every packet leaves the client one that could be.
LEMMA ReceivedOK ==
  ASSUME NEW w \in Worker, NEW s \in Session, NEW p \in Slot, NEW S, NEW c \in Client,
         ClientOK(w, s, p, c, S), NEW m \in Down(w, s, p), c.state \in {"joining", "ready"}
  PROVE  Received(c, m) \in Client /\ ClientOK(w, s, p, Received(c, m), S)
<1>1. m \in ToPlayer /\ m.n \in Nat /\ m.what \in Words  BY DEF Down, ToPlayer
<1>2. CASE m.kind = "baseline"  BY <1>2, ReceivesBaseline DEF Received
<1>3. CASE m.kind = "reject"
  <2> DEFINE u == reset_native_death(c)
             d == [u EXCEPT !.state = "expelled", !.frame = NoFrame]
  <2>1. u \in Client /\ ClientOK(w, s, p, u, S)  BY DeathReset
  <2>2. Received(c, m) = d  BY <1>3 DEF Received, receive_reject
  <2>3. NoFrame \in HatchFrame  BY DEF NoFrame, HatchFrame, Words
  <2> HIDE DEF u
  <2>4. /\ d \in Client /\ d.state = "expelled" /\ d.scene = u.scene /\ d.base = u.base
        /\ d.death = u.death /\ d.restart = u.restart /\ d.tutorial = u.tutorial /\ d.screen = u.screen
    BY <2>1, <2>3 DEF Client
  <2> HIDE DEF d
  <2>5. ClientOK(w, s, p, d, S)
    BY <2>1, <2>4 DEF ClientOK, ClientConnected, ClientDeath, ClientTutorial
  <2> QED BY <2>2, <2>4, <2>5
<1>4. CASE m.kind \notin {"baseline", "reject"} /\ (c.state # "ready" \/ m.base # c.base)
  BY <1>4 DEF Received
<1>5. CASE m.kind \notin {"baseline", "reject"} /\ c.state = "ready" /\ m.base = c.base
  <2>1. m.kind \in {"entity", "death", "tutorial", "hatch_view"}  BY <1>1, <1>5 DEF ToPlayer
  <2>2. CASE m.kind = "entity"
    <3> DEFINE d == [c EXCEPT !.view = m.what]
    <3>1. Received(c, m) = d  BY <1>5, <2>2 DEF Received
    <3>2. /\ d \in Client /\ d.state = c.state /\ d.scene = c.scene /\ d.base = c.base
          /\ d.death = c.death /\ d.restart = c.restart /\ d.tutorial = c.tutorial /\ d.screen = c.screen
      BY <1>1 DEF Client
    <3> HIDE DEF d
    <3>3. ClientOK(w, s, p, d, S)  BY <3>2, SameClient
    <3> QED BY <3>1, <3>2, <3>3
  <2>3. CASE m.kind = "death"
    <3>1. Received(c, m) = receive_death(c, m)  BY <1>5, <2>3 DEF Received
    <3> QED BY <1>5, <2>3, <3>1, ReceivesDeathOffer
  <2>4. CASE m.kind = "tutorial"
    <3>1. Received(c, m) = receive_tutorial(c, m)  BY <1>5, <2>4 DEF Received
    <3> QED BY <1>5, <2>4, <3>1, ReceivesTutorialOffer
  <2>5. CASE m.kind = "hatch_view"
    <3> DEFINE F == [n |-> m.n, what |-> m.what]
               d == [c EXCEPT !.frame = F]
    <3>1. Received(c, m) = c \/ Received(c, m) = d  BY <1>5, <2>5 DEF Received, receive_hatch
    <3>2. F \in HatchFrame  BY <1>1 DEF HatchFrame
    <3> HIDE DEF F
    <3>3. /\ d \in Client /\ d.state = c.state /\ d.scene = c.scene /\ d.base = c.base
          /\ d.death = c.death /\ d.restart = c.restart /\ d.tutorial = c.tutorial /\ d.screen = c.screen
      BY <3>2 DEF Client
    <3> HIDE DEF d
    <3>4. ClientOK(w, s, p, d, S)  BY <3>3, SameClient
    <3> QED BY <3>1, <3>3, <3>4
  <2> QED BY <2>1, <2>2, <2>3, <2>4, <2>5
<1> QED BY <1>2, <1>3, <1>4, <1>5

LEMMA ClientReceivesKeeps ==
  ASSUME MomentsInv, NEW p \in Slot, ClientReceives(p) PROVE MomentsInv' /\ StepSeen
<1> DEFINE X == Down(worker, session, p)
           packet == Head(down[p])
           d == Received(clients[p], packet)
           m == Packet("baseline_ack", packet.base, 0, "")
<1>1. down[p] \in Seq(X) /\ down[p] # <<>>
  BY LinkFacts DEF MomentsInv, LinkOK, ClientReceives
<1>2. packet \in X
  <2> HIDE DEF X
  <2> QED BY <1>1, TailIn
<1>3. packet \in ToPlayer /\ DownOK(worker, session, p, packet)  BY <1>2 DEF Down
<1>4. d \in Client /\ ClientOK(worker, session, p, d, seen)
  BY <1>2, ClientFacts, ReceivedOK DEF ClientReceives
<1>5. /\ down' = [down EXCEPT ![p] = Tail(@)] /\ clients' = [clients EXCEPT ![p] = d]
      /\ up' = IF packet.kind = "baseline" THEN [up EXCEPT ![p] = Append(@, m)] ELSE up
      /\ UNCHANGED <<worker, session, inbox, saved, seen>>
  BY DEF ClientReceives
<1>6. m \in Up(worker, session, p, seen)
  <2>1. m \in ToSession  BY <1>3 DEF ToPlayer, Packet, ToSession, Words
  <2>2. UpOK(worker, session, p, m, seen)  BY <1>3 DEF DownOK, UpOK, Packet
  <2> QED BY <2>1, <2>2 DEF Up
<1> HIDE DEF packet, d, m
<1> QED BY <1>1, <1>4, <1>5, <1>6, ClientMoves

LEMMA PlayersKeep ==
  ASSUME MomentsInv, Players PROVE MomentsInv' /\ StepSeen
<1>1. CASE native_network_hatch_input  BY <1>1, InputKeeps
<1>2. ASSUME NEW p \in Slot,
             \/ Join(p) \/ SessionReceives(p) \/ ClientReceives(p)
             \/ DeathFilmEnds(p) \/ TutorialFilmEnds(p) \/ StaleFilmEnds(p)
             \/ update_death(p) \/ update_tutorial(p) \/ LinkLost(p) \/ StartAgain(p)
      PROVE  MomentsInv' /\ StepSeen
  BY <1>2, JoinKeeps, SessionReceivesKeeps, ClientReceivesKeeps, DeathFilmKeeps, TutorialFilmKeeps,
     StaleFilmKeeps, UpdateDeathKeeps, UpdateTutorialKeeps, LinkLostKeeps, StartAgainKeeps
<1> QED BY <1>1, <1>2 DEF Players

LEMMA BridgeKeeps ==
  ASSUME MomentsInv, Bridge PROVE MomentsInv' /\ StepSeen
  BY AuthorityReceivesKeeps, PublishKeeps, OffersDeathKeeps, OffersTutorialKeeps, OffersHatchKeeps
     DEF Bridge

-----------------------------------------------------------------------------
(* Another worker's process.                                                 *)

\* A process loads a save: nobody is waited for.
LEMMA NewWorkerOK ==
  ASSUME NEW scene \in Nat \ {0}, NEW foreign \in BOOLEAN, NEW save \in Save
  PROVE  LET w == NewWorker(scene, foreign, save) IN
         /\ w \in Worker /\ WorkerOK(w)
         /\ w.scene = scene /\ w.hatch.serial = 0 /\ \A p \in Slot : w.pending[p] = 0 /\ w.tutorial[p] = 0
<1> DEFINE w == NewWorker(scene, foreign, save)
<1>1. NoHatch \in Hatch /\ Lessons(NoHatch)  BY DEF NoHatch, Hatch, Lessons
<1>2. /\ w.scene = scene /\ w.hatch = NoHatch /\ w.hatch.serial = 0
      /\ w.occurrence = 0 /\ ~w.refused
      /\ \A p \in Slot : w.pending[p] = 0 /\ w.tutorial[p] = 0
  BY DEF NewWorker, NoHatch, None
<1>3. w \in Worker
  BY <1>1 DEF NewWorker, Worker, Save, None, Life
<1> HIDE DEF w
<1>4. WorkerOK(w)  BY <1>1, <1>2 DEF WorkerOK, DeathNumbers, HeldBack
<1> QED BY <1>2, <1>3, <1>4 DEF w

LEMMA NewSessionOK ==
  /\ NewSession \in Session
  /\ NewSession.hatch.n = 0 /\ NewSession.next = 1
  /\ \A p \in Slot : /\ NewSession.deaths[p] = 0 /\ ~NewSession.ready[p] /\ NewSession.base[p] = 0
                     /\ NewSession.tutorials[p] = {}
<1>1. [n |-> 0, what |-> ""] \in HatchFrame  BY DEF HatchFrame, Words
<1>2. None \in [Slot -> Nat] /\ Nothing \in [Slot -> SUBSET Tutorial]  BY DEF None, Nothing
<1>3. NewSession \in Session
  <2> DEFINE L == [s \in Slot |-> "alive"]
             R == [p \in Slot |-> FALSE]
             H == [n |-> 0, what |-> ""]
  <2>1. L \in [Slot -> Life] /\ R \in [Slot -> BOOLEAN] /\ H \in HatchFrame  BY <1>1 DEF Life
  <2>2. NewSession = [life |-> L, deaths |-> None, tutorials |-> Nothing, hatch |-> H, base |-> None,
                      ready |-> R, next |-> 1]
    BY DEF NewSession
  <2> HIDE DEF L, R, H
  <2> QED BY <1>2, <2>1, <2>2 DEF Session
<1>4. NewSession.hatch.n = 0 /\ NewSession.next = 1  BY DEF NewSession
<1>5. \A p \in Slot : /\ NewSession.deaths[p] = 0 /\ ~NewSession.ready[p] /\ NewSession.base[p] = 0
                       /\ NewSession.tutorials[p] = {}
  BY DEF NewSession, None, Nothing
<1> QED BY <1>3, <1>4, <1>5

\* How many connections a scene's publication numbers anew.
LEMMA Connected ==
  ASSUME NEW there \in SUBSET Slot
  PROVE  /\ Cardinality(there) \in Nat
         /\ there # {} => Cardinality(there) >= 1
         /\ 1 \in there /\ 2 \in there => Cardinality(there) = 2
<1>1. IsFiniteSet(Slot) /\ Cardinality(Slot) = 2
  <2>1. IsFiniteSet({}) /\ Cardinality({}) = 0  BY FS_EmptySet
  <2>2. IsFiniteSet({1}) /\ Cardinality({1}) = 1  BY FS_Singleton
  <2>3. 2 \notin {1} /\ Slot = {1} \cup {2}  BY DEF Slot
  <2> QED BY <2>2, <2>3, FS_AddElement
<1>2. IsFiniteSet(there)  BY <1>1, FS_Subset
<1>3. Cardinality(there) \in Nat  BY <1>2, FS_CardinalityType
<1>4. there # {} => Cardinality(there) >= 1  BY <1>2, <1>3, FS_EmptySet
<1>5. ASSUME 1 \in there, 2 \in there PROVE there = Slot  BY <1>5 DEF Slot
<1> QED BY <1>1, <1>3, <1>4, <1>5

LEMMA WorkerReplacedKeeps ==
  ASSUME MomentsInv, WorkerReplaced PROVE MomentsInv' /\ StepSeen
<1> DEFINE n == worker.scene + 1
           next == session.next
           there == {p \in Slot : session.base[p] # 0}
           number(p) == next + (IF p = 2 /\ session.base[1] # 0 THEN 1 ELSE 0)
           B == [p \in Slot |-> IF p \in there THEN number(p) ELSE 0]
           N == next + Cardinality(there)
           m(p) == Packet("baseline", number(p), n, "alive")
<1>0. /\ worker \in Worker /\ session \in Session /\ SessionOK(worker, session)
      /\ saved \in Save
      /\ worker.scene \in Nat \ {0} /\ next \in Nat \ {0} /\ worker.foreign \in BOOLEAN
      /\ session.base \in [Slot -> Nat]
  BY DEF MomentsInv, StateInv, Worker, Session
<1>1. /\ worker' = NewWorker(n, worker.foreign, saved)
      /\ session' = [NewSession EXCEPT !.base = B, !.next = N]
      /\ down' = [p \in Slot |-> IF p \in there THEN Append(down[p], m(p)) ELSE down[p]]
      /\ inbox' = <<>> /\ seen' = {} /\ UNCHANGED <<clients, up, saved>>
  BY DEF WorkerReplaced
<1>2. /\ worker' \in Worker /\ WorkerOK(worker') /\ worker'.scene = n /\ n \in Nat \ {0}
      /\ worker'.scene > worker.scene /\ worker'.hatch.serial = 0
      /\ \A p \in Slot : worker'.pending[p] = 0
  <2>1. n \in Nat \ {0} /\ n > worker.scene  BY <1>0
  <2> HIDE DEF n
  <2> QED BY <1>0, <1>1, <2>1, NewWorkerOK
<1>3. N \in Nat \ {0} /\ next <= N /\ \A p \in there : next <= number(p) /\ number(p) < N /\ number(p) \in Nat \ {0}
  <2>1. there \in SUBSET Slot  OBVIOUS
  <2>2. Cardinality(there) \in Nat  BY <2>1, Connected
  <2>3. ASSUME NEW p \in there PROVE next <= number(p) /\ number(p) < N /\ number(p) \in Nat \ {0}
    <3>1. CASE p = 2 /\ session.base[1] # 0
      <4>1. 1 \in there /\ 2 \in there  BY <3>1 DEF Slot
      <4>2. Cardinality(there) = 2  BY <2>1, <4>1, Connected
      <4>3. number(p) = next + 1 /\ N = next + 2  BY <3>1, <4>2
      <4> QED BY <1>0, <4>3
    <3>2. CASE ~(p = 2 /\ session.base[1] # 0)
      <4>1. Cardinality(there) >= 1  BY <2>1, Connected
      <4>2. number(p) = next  BY <1>0, <3>2
      <4> QED BY <1>0, <2>2, <4>1, <4>2
    <3> QED BY <3>1, <3>2
  <2> HIDE DEF there
  <2>4. N \in Nat \ {0} /\ next <= N  BY <1>0, <2>2
  <2> QED BY <2>3, <2>4
<1>4. /\ B \in [Slot -> Nat] /\ \A p \in Slot : B[p] < N
      /\ \A p \in Slot : session.base[p] # 0 => B[p] = number(p) /\ next <= B[p] /\ B[p] # 0
      /\ \A p \in Slot : session.base[p] = 0 => B[p] = 0
  <2> HIDE DEF number, N
  <2>1. \A p \in Slot : p \in there <=> session.base[p] # 0  OBVIOUS
  <2>2. \A p \in Slot : B[p] = IF p \in there THEN number(p) ELSE 0  OBVIOUS
  <2> HIDE DEF there
  <2>3. B \in [Slot -> Nat]  BY <1>3
  <2> HIDE DEF B
  <2> QED BY <1>0, <1>3, <2>1, <2>2, <2>3
<1> HIDE DEF B, N, number
<1>5. /\ session' \in Session
      /\ session'.base = B /\ session'.next = N /\ session'.hatch.n = 0
      /\ \A p \in Slot : session'.deaths[p] = 0 /\ ~session'.ready[p] /\ session'.tutorials[p] = {}
  BY <1>1, <1>3, <1>4, NewSessionOK DEF Session
<1>6. SessionOK(worker', session')
  <2>1. HatchOffered(worker'.hatch, session'.hatch)  BY <1>2, <1>5 DEF HatchOffered
  <2>2. DeathsOffered(worker', session')
    BY <1>2, <1>5 DEF DeathsOffered, Worker
  <2>3. Connections(session')  BY <1>4, <1>5 DEF Connections
  <2>4. TutorialsOffered(worker', session')  BY <1>5 DEF TutorialsOffered
  <2> QED BY <2>1, <2>2, <2>3, <2>4 DEF SessionOK
<1>7. StateInv'  BY <1>0, <1>1, <1>2, <1>5, <1>6 DEF StateInv
<1>8. ClientsInv'
  <2>1. ASSUME NEW p \in Slot PROVE ClientOK(worker', session', p, clients[p], seen')
    <3> DEFINE c == clients[p]
    <3>1. /\ c \in Client /\ ClientOK(worker, session, p, c, seen)
          /\ c.scene \in Nat /\ c.base \in Nat /\ c.death.scene \in Nat /\ c.tutorial.scene \in Nat
      BY DEF MomentsInv, ClientsInv, Client
    <3> HIDE DEF c
    <3>2. ClientConnected(worker', session', p, c)
      BY <1>0, <1>2, <1>3, <1>4, <1>5, <3>1 DEF ClientOK, ClientConnected
    <3>3. ClientDeath(worker', p, c, seen') /\ ClientTutorial(worker', p, c, seen')
      BY <1>0, <1>2, <3>1 DEF ClientOK, ClientDeath, ClientTutorial
    <3> QED BY <3>2, <3>3 DEF ClientOK, c
  <2> QED BY <1>1, <2>1 DEF MomentsInv, ClientsInv
<1>9. PacketsInv'
  <2>0. PacketsInv  BY DEF MomentsInv
  <2>1. ASSUME NEW p \in Slot
        PROVE  /\ Down(worker, session, p) \subseteq Down(worker', session', p)
               /\ Up(worker, session, p, seen) \subseteq Up(worker', session', p, seen')
    <3>1. \A b \in Nat : b # 0 /\ b < next => b < N /\ b # B[p]
      BY <1>0, <1>3, <1>4
    <3>2. ASSUME NEW e \in Down(worker, session, p) PROVE e \in Down(worker', session', p)
      <4>1. e \in ToPlayer /\ e.n \in Nat /\ e.base \in Nat /\ DownOK(worker, session, p, e)
        BY DEF Down, ToPlayer
      <4>2. DownOK(worker', session', p, e)  BY <1>0, <1>2, <1>5, <3>1, <4>1 DEF DownOK
      <4> QED BY <4>1, <4>2 DEF Down
    <3>3. ASSUME NEW e \in Up(worker, session, p, seen) PROVE e \in Up(worker', session', p, seen')
      <4>1. e \in ToSession /\ e.base \in Nat /\ UpOK(worker, session, p, e, seen)
        BY DEF Up, ToSession
      <4>2. UpOK(worker', session', p, e, seen')  BY <1>5, <3>1, <4>1 DEF UpOK
      <4> QED BY <4>1, <4>2 DEF Up
    <3> QED BY <3>2, <3>3
  <2>2. ASSUME NEW p \in there PROVE m(p) \in Down(worker', session', p)
    <3>1. session.base[p] # 0 /\ p \in Slot  OBVIOUS
    <3>2. number(p) = B[p] /\ number(p) # 0 /\ number(p) < N /\ number(p) \in Nat
      BY <1>3, <1>4, <3>1
    <3>3. m(p) \in ToPlayer  BY <1>2, <3>2 DEF Packet, ToPlayer, Words, Life
    <3>4. DownOK(worker', session', p, m(p))  BY <1>2, <1>5, <3>2 DEF Packet, DownOK
    <3> QED BY <3>3, <3>4 DEF Down
  <2> HIDE DEF m, there
  <2>3. ASSUME NEW p \in Slot
        PROVE  /\ down'[p] \in Seq(Down(worker', session', p))
               /\ up[p] \in Seq(Up(worker', session', p, seen'))
    <3> DEFINE X == Down(worker', session', p)
    <3>1. down[p] \in Seq(X) /\ up[p] \in Seq(Up(worker', session', p, seen'))
      BY <2>0, <2>1, LinkFacts, SeqGrows DEF LinkOK
    <3>2. down'[p] = down[p] \/ (p \in there /\ down'[p] = Append(down[p], m(p)))  BY <1>1
    <3>3. p \in there => m(p) \in X  BY <2>2
    <3> HIDE DEF X
    <3>4. down'[p] \in Seq(X)  BY <3>1, <3>2, <3>3, AppendIn
    <3> QED BY <3>1, <3>4 DEF X
  <2>4. down' = [p \in Slot |-> down'[p]] /\ up = [p \in Slot |-> up[p]]
    BY <1>1, <2>0 DEF PacketsInv
  <2>5. down' \in [Slot -> Seq(ToPlayer)] /\ up \in [Slot -> Seq(ToSession)]
    BY <2>3, <2>4, PacketsKept
  <2> QED BY <1>1, <2>3, <2>5, EmptyIn DEF PacketsInv
<1>10. StepSeen  BY <1>0, <1>2 DEF StepSeen
<1> QED BY <1>7, <1>8, <1>9, <1>10 DEF MomentsInv

-----------------------------------------------------------------------------
LEMMA InitHolds == Init => MomentsInv
<1> SUFFICES ASSUME Init PROVE MomentsInv  OBVIOUS
<1>1. saved \in Save  BY DEF Init, Save, Nothing
<1>2. PICK foreign \in BOOLEAN : worker = NewWorker(1, foreign, saved)
  BY MomentsAssumption DEF Init
<1>3. /\ worker \in Worker /\ WorkerOK(worker) /\ worker.scene = 1 /\ worker.hatch.serial = 0
      /\ \A p \in Slot : worker.pending[p] = 0
  BY <1>1, <1>2, NewWorkerOK
<1>4. session = NewSession  BY DEF Init
<1>5. SessionOK(worker, session)
  <2>1. DeathsOffered(worker, session)
    BY <1>3, <1>4, NewSessionOK DEF DeathsOffered, Worker
  <2> QED BY <1>3, <1>4, <2>1, NewSessionOK DEF SessionOK, HatchOffered, TutorialsOffered, Connections
<1>6. StateInv  BY <1>1, <1>3, <1>4, <1>5, NewSessionOK DEF StateInv
<1>7. NewClient \in Client
  BY DEF NewClient, Client, NoDeath, NoLesson, NoFrame, HatchFrame, Words, Life
<1>8. \A p \in Slot : ClientOK(worker, session, p, NewClient, seen)
  BY <1>3, <1>4, NewSessionOK
     DEF ClientOK, ClientConnected, ClientDeath, ClientTutorial, NewClient, NoDeath, NoLesson
<1>9. ClientsInv  BY <1>7, <1>8 DEF Init, ClientsInv
<1>10. PacketsInv  BY EmptyIn DEF Init, PacketsInv
<1> QED BY <1>6, <1>9, <1>10 DEF MomentsInv

LEMMA NextKeeps ==
  ASSUME MomentsInv, [Next]_vars
  PROVE  MomentsInv' /\ [worker.scene' = worker.scene => \A s \in Slot : Revived(s) /\ Taught(s)]_vars
<1>1. CASE UNCHANGED vars
  BY <1>1 DEF vars, MomentsInv, StateInv, ClientsInv, PacketsInv
<1>2. CASE Next
  <2>1. MomentsInv' /\ StepSeen
    BY <1>2, OriginalGameKeeps, BridgeKeeps, PlayersKeep, CheckpointKeeps, WorkerReplacedKeeps DEF Next
  <2> QED BY <2>1 DEF StepSeen
<1> QED BY <1>1, <1>2

\* The invariant of the moments holds of every behaviour.
THEOREM MomentsInvariant == Spec => []MomentsInv
<1>1. Init => MomentsInv  BY InitHolds
<1>2. MomentsInv /\ [Next]_vars => MomentsInv'  BY NextKeeps
<1> QED BY <1>1, <1>2, PTL DEF Spec

\* The authority's offers always fit what its session has, and no lesson is
\* answered twice (receive_death, receive_tutorial, receive_hatch, apply_native_hatch_input).
THEOREM AuthorityAlwaysKeepsTheProtocol == Spec => []AuthorityKeepsTheProtocol
<1>1. MomentsInv => AuthorityKeepsTheProtocol
  BY DEF MomentsInv, StateInv, WorkerOK, Lessons, AuthorityKeepsTheProtocol
<1> QED BY <1>1, MomentsInvariant, PTL

\* However its confirmations are delayed, repeated or outlived by another
\* connection, no death ends and no tutorial held back before its own
\* player saw it through (complete_native_death, complete_native_tutorial).
THEOREM AlwaysSeenThrough == Spec => SeenThrough
<1>1. MomentsInv /\ [Next]_vars
        => [worker.scene' = worker.scene => \A s \in Slot : Revived(s) /\ Taught(s)]_vars
  BY NextKeeps
<1> QED BY <1>1, MomentsInvariant, PTL DEF Spec, SeenThrough

-----------------------------------------------------------------------------
(* The scene in a player's own game.                                         *)

Maps(S) == UNION {[D -> S] : D \in SUBSET Num}
Entity == [noun : NativeNoun, owner : 0..2, generation : Nat]
Binding == [generation : Nat, native : Num, live : BOOLEAN, owner : 0..2]
Owned == [known : BOOLEAN, actors : (0..MaxNum) \X (0..MaxNum), admitted : BOOLEAN,
          presentation : BOOLEAN, retired : BOOLEAN]
Reason ==
  {"", "factory", "template", "projection", "nest", "bound", "invalid", "stale", "missing_template",
   "native", "species", "owned", "life", "restored", "retired", "avatar", "preflight"}
Game ==
  [me : {1, 2}, state : {"away", "ready", "failed"}, local : Maps(LoadedNoun), restored : 0..MaxNum,
   avatar : 0..MaxNum, loaded : 0..MaxNum, bindings : Maps(Binding), admitted : BOOLEAN, owned : Owned,
   feed : Maps(Entity), motion : Maps(Entity), loads : Nat, ok : BOOLEAN, presented : BOOLEAN,
   why : Reason]

\* A live binding has a noun of this game, of its own.
LiveOK(s) ==
  \A id \in DOMAIN s.bindings : s.bindings[id].live =>
    /\ s.bindings[id].native \in DOMAIN s.local
    /\ \A other \in DOMAIN s.bindings \ {id} :
         s.bindings[other].live => s.bindings[other].native # s.bindings[id].native

\* What stands for an entity is a noun of its kind and species.
Shows(s, id, e) ==
  /\ Is(s, s.bindings[id].native, e.noun.kind)
  /\ s.local[s.bindings[id].native].species = e.noun.species

Follows(s) ==
  /\ s.admitted
  /\ \A n \in DOMAIN s.local : s.local[n].kind # "fruit" =>
       \E id \in DOMAIN s.motion : Bound(s, id) /\ s.bindings[id].native = n
  /\ \A id \in DOMAIN s.motion :
       /\ id \in DOMAIN s.bindings /\ s.bindings[id].generation = s.motion[id].generation
       /\ s.bindings[id].live => Shows(s, id, s.motion[id])
       /\ s.motion[id].noun.kind = "fossil" => s.bindings[id].live

Fit(s) == s \in Game /\ LiveOK(s) /\ (s.state = "ready" => Follows(s))
GameOK == Fit(game) /\ game.ok

\* A herd has one nest.
NestsApart(f) ==
  \A m, n \in DOMAIN f : f[m].kind = "nest" /\ f[n].kind = "nest" /\ f[m].herd = f[n].herd => m = n

\* What is remembered of a noun that is there is what it was first captured
\* under, and nothing is remembered of one that is not.
AuthorityOK ==
  /\ nouns \in Maps(NativeNoun) /\ NestsApart(nouns)
  /\ observed \in Maps(Nat \ {0}) /\ minted \in Nat
  /\ DOMAIN incarnation = DOMAIN nouns /\ DOMAIN observed \subseteq DOMAIN nouns
  /\ \A n \in DOMAIN nouns : incarnation[n] = IF n \in DOMAIN observed THEN observed[n] ELSE 0

FrameOK(f) ==
  /\ f \in Maps(Entity)
  /\ DOMAIN f # {} => {First, Second} \subseteq DOMAIN f
  /\ \A n \in DOMAIN f : f[n].owner = owner_of(n)
  /\ NestsApart([n \in DOMAIN f |-> f[n].noun])

ProjectionInv ==
  AuthorityOK /\ FrameOK(published) /\ GameOK /\ changes \in Nat /\ lost \in Nat

-----------------------------------------------------------------------------
(* Numbers and functions of numbers.                                         *)

LEMMA LeastNumber ==
  ASSUME NEW S, S \subseteq Nat, S # {}
  PROVE  \E m \in S : \A k \in S : m <= k
<1>1. \E m \in S : \A k \in S : ~(<<k, m>> \in OpToRel(<, Nat))
  BY WFMin, NatLessThanWellFounded, Zenon
<1>2. \A k, m \in Nat : ~(<<k, m>> \in OpToRel(<, Nat)) => ~(k < m)
  BY Zenon DEF OpToRel
<1>3. \E m \in S : \A k \in S : ~(k < m)
  BY <1>1, <1>2, Zenon
<1> QED BY <1>3

LEMMA Numbered ==
  ASSUME NEW S, 0 \in S, \A k \in Nat : k \in S => k + 1 \in S
  PROVE  Nat \subseteq S
<1> SUFFICES ASSUME NEW x \in Nat, x \notin S PROVE FALSE  OBVIOUS
<1> DEFINE Fails == {k \in Nat : k \notin S}
<1>1. PICK m \in Fails : \A k \in Fails : m <= k
  <2>1. Fails \subseteq Nat /\ Fails # {}  OBVIOUS
  <2> HIDE DEF Fails
  <2> QED BY <2>1, LeastNumber
<1>2. m # 0 /\ m - 1 \in Nat  OBVIOUS
<1>3. m - 1 \in S  BY <1>1, <1>2
<1> QED BY <1>2, <1>3

LEMMA LeastIsIn ==
  ASSUME NEW S, S \subseteq Num, S # {}
  PROVE  Min(S) \in S
<1>1. S \subseteq Nat  BY ProjectionAssumption DEF Num
<1>2. \E m \in S : \A k \in S : m <= k  BY <1>1, LeastNumber
<1> QED BY <1>2 DEF Min

LEMMA MapsOf ==
  ASSUME NEW S, NEW f
  PROVE  f \in Maps(S) <=> DOMAIN f \subseteq Num /\ f \in [DOMAIN f -> S]
  BY DEF Maps

LEMMA PutIs ==
  ASSUME NEW S, NEW f \in Maps(S), NEW n \in Num, NEW v \in S
  PROVE  Put(f, n, v) \in Maps(S)
<1>1. DOMAIN f \subseteq Num /\ f \in [DOMAIN f -> S]  BY MapsOf
<1>2. Put(f, n, v) \in [DOMAIN f \cup {n} -> S]  BY <1>1 DEF Put
<1>3. DOMAIN f \cup {n} \subseteq Num  BY <1>1
<1>4. DOMAIN Put(f, n, v) = DOMAIN f \cup {n}  BY DEF Put
<1> QED BY <1>2, <1>3, <1>4, MapsOf

LEMMA DropIs ==
  ASSUME NEW S, NEW f \in Maps(S), NEW T
  PROVE  Drop(f, T) \in Maps(S)
<1>1. DOMAIN f \subseteq Num /\ f \in [DOMAIN f -> S]  BY MapsOf
<1>2. Drop(f, T) \in [DOMAIN f \ T -> S]  BY <1>1 DEF Drop, Restrict
<1>3. DOMAIN f \ T \subseteq Num  BY <1>1
<1>4. DOMAIN Drop(f, T) = DOMAIN f \ T  BY DEF Drop, Restrict
<1> QED BY <1>2, <1>3, <1>4, MapsOf

LEMMA NothingIs ==
  ASSUME NEW S
  PROVE  NoScene \in Maps(S) /\ DOMAIN NoScene = {}
<1>1. DOMAIN NoScene = {} /\ NoScene \in [{} -> S]  BY DEF NoScene
<1> QED BY <1>1, MapsOf

-----------------------------------------------------------------------------
(* What an operation leaves of a client.                                     *)

\* It may have changed nouns, bindings and what is kept of the players.
SameRest(s, r) ==
  /\ r.me = s.me /\ r.state = s.state /\ r.admitted = s.admitted
  /\ r.feed = s.feed /\ r.motion = s.motion

SameNouns(s, r) ==
  /\ SameRest(s, r) /\ r.bindings = s.bindings /\ DOMAIN r.local = DOMAIN s.local
  /\ \A n \in DOMAIN s.local : r.local[n].kind = s.local[n].kind /\ r.local[n].species = s.local[n].species

LEMMA FailedIs ==
  ASSUME NEW s \in Game, NEW reason \in Reason
  PROVE  failed(s, reason) \in Game /\ ~failed(s, reason).ok
  BY DEF failed, Game

LEMMA LocalIs ==
  ASSUME NEW s \in Game
  PROVE  /\ DOMAIN s.local \subseteq Num /\ DOMAIN s.bindings \subseteq Num
         /\ \A n \in DOMAIN s.local : s.local[n] \in LoadedNoun
         /\ \A id \in DOMAIN s.bindings : s.bindings[id] \in Binding
<1>1. s.local \in Maps(LoadedNoun) /\ s.bindings \in Maps(Binding)  BY DEF Game
<1>2. DOMAIN s.local \subseteq Num /\ s.local \in [DOMAIN s.local -> LoadedNoun]  BY <1>1, MapsOf
<1>3. DOMAIN s.bindings \subseteq Num /\ s.bindings \in [DOMAIN s.bindings -> Binding]  BY <1>1, MapsOf
<1> QED BY <1>2, <1>3

LEMMA PoseIs ==
  ASSUME NEW s \in Game, NEW e \in Entity, NEW n \in Num
  PROVE  LET r == apply_pose(s, n, e) IN
         r \in Game /\ (r.ok => s.ok /\ same_species(s, n, e) /\ SameNouns(s, r))
<1> DEFINE r == apply_pose(s, n, e)
<1>1. CASE ~same_species(s, n, e)
  <2>1. r = failed(s, "projection")  BY <1>1 DEF apply_pose
  <2> QED BY <2>1, FailedIs DEF Reason
<1>2. CASE same_species(s, n, e)
  <2> DEFINE posed == [s.local EXCEPT ![n].dead = e.noun.dead]
  <2>1. r = [s EXCEPT !.local = posed]  BY <1>2 DEF apply_pose, Game
  <2>2. s.local \in Maps(LoadedNoun) /\ DOMAIN s.local \subseteq Num /\ s.local \in [DOMAIN s.local -> LoadedNoun]
    <3>1. s.local \in Maps(LoadedNoun)  BY DEF Game
    <3> QED BY <3>1, MapsOf
  <2>3. e.noun.dead \in BOOLEAN /\ n \in DOMAIN s.local
    BY <1>2 DEF Entity, NativeNoun, same_species, Is
  <2>4. [s.local[n] EXCEPT !.dead = e.noun.dead] \in LoadedNoun
    <3>1. s.local[n] \in LoadedNoun  BY <2>2, <2>3
    <3> QED BY <2>3, <3>1 DEF LoadedNoun, NativeNoun
  <2>5. posed = [s.local EXCEPT ![n] = [s.local[n] EXCEPT !.dead = e.noun.dead]]  OBVIOUS
  <2>6. posed \in [DOMAIN s.local -> LoadedNoun] /\ DOMAIN posed = DOMAIN s.local
    BY <2>2, <2>4, <2>5
  <2>7. posed \in Maps(LoadedNoun)  BY <2>2, <2>6, MapsOf
  <2>8. \A m \in DOMAIN s.local : posed[m].kind = s.local[m].kind /\ posed[m].species = s.local[m].species
    <3>1. s.local[n] \in LoadedNoun  BY <2>2, <2>3
    <3>2. /\ [s.local[n] EXCEPT !.dead = e.noun.dead].kind = s.local[n].kind
          /\ [s.local[n] EXCEPT !.dead = e.noun.dead].species = s.local[n].species
      BY <3>1 DEF LoadedNoun, NativeNoun
    <3> QED BY <2>2, <2>3, <3>2
  <2> HIDE DEF posed
  <2>9. r \in Game /\ r.ok = s.ok /\ r.local = posed /\ r.bindings = s.bindings /\ SameRest(s, r)
    BY <2>1, <2>7 DEF Game, SameRest
  <2> QED BY <1>2, <2>6, <2>8, <2>9 DEF SameNouns
<1> QED BY <1>1, <1>2

\* project_entity: what stands for the entity is shown as it is, or it fails.
LEMMA ProjectIs ==
  ASSUME NEW s \in Game, NEW id \in DOMAIN s.bindings, NEW e \in Entity
  PROVE  LET r == project_entity(s, id, e) IN
         r \in Game /\ (r.ok => s.ok /\ s.bindings[id].live /\ SameNouns(s, r) /\ Shows(r, id, e))
<1> DEFINE r == project_entity(s, id, e)
           n == s.bindings[id].native
<1>1. s.bindings[id] \in Binding /\ n \in Num  BY LocalIs DEF Binding
<1>2. CASE ~s.bindings[id].live \/ ~Is(s, n, e.noun.kind) \/ s.bindings[id].owner # e.owner
  <2>1. r = failed(s, "projection")  BY <1>2 DEF project_entity
  <2> QED BY <2>1, FailedIs DEF Reason
<1>3. CASE r = s /\ s.bindings[id].live /\ Is(s, n, e.noun.kind) /\ s.local[n].species = e.noun.species
  BY <1>3 DEF SameNouns, SameRest, Shows
<1>4. CASE r = failed(s, "projection")
  BY <1>4, FailedIs DEF Reason
<1>5. ASSUME ~(~s.bindings[id].live \/ ~Is(s, n, e.noun.kind) \/ s.bindings[id].owner # e.owner)
      PROVE  r \in Game /\ (r.ok => s.ok /\ s.bindings[id].live /\ SameNouns(s, r) /\ Shows(r, id, e))
  <2>1. s.bindings[id].live /\ Is(s, n, e.noun.kind)  BY <1>1, <1>5 DEF Binding
  <2>2. CASE e.noun.kind = "creature"
    <3>1. r = apply_pose(s, n, e)  BY <1>5, <2>2 DEF project_entity
    <3>2. r \in Game /\ (r.ok => s.ok /\ same_species(s, n, e) /\ SameNouns(s, r))
      BY <1>1, <3>1, PoseIs
    <3>3. ASSUME r.ok PROVE Shows(r, id, e)
      <4>1. SameNouns(s, r) /\ same_species(s, n, e)  BY <3>2, <3>3
      <4>2. n \in DOMAIN s.local /\ s.local[n].kind = "creature" /\ s.local[n].species = e.noun.species
        BY <4>1 DEF same_species, Is
      <4> HIDE DEF r
      <4> QED BY <2>2, <4>1, <4>2 DEF Shows, SameNouns, Is
    <3> QED BY <2>1, <3>2, <3>3
  <2>3. CASE e.noun.kind = "fossil"
    <3>1. r = IF fossil_template(s, n, e) # {} THEN s ELSE failed(s, "projection")
      BY <1>5, <2>3 DEF project_entity
    <3>2. fossil_template(s, n, e) # {} => s.local[n].species = e.noun.species
      BY DEF fossil_template
    <3> QED BY <1>3, <1>4, <2>1, <3>1, <3>2
  <2>4. CASE e.noun.kind = "nest"
    <3>1. r = IF n \in nest_template(s, e) THEN s ELSE failed(s, "projection")
      BY <1>5, <2>4 DEF project_entity
    <3>2. ASSUME n \in nest_template(s, e) PROVE s.local[n].species = e.noun.species
      <4>1. /\ n \in DOMAIN s.local /\ s.local[n].kind = "nest" /\ s.local[n].herd = e.noun.herd
            /\ HerdSpecies[e.noun.herd] = e.noun.species
        BY <3>2 DEF nest_template, nest_herd_matches, Is
      <4>2. s.local[n] \in LoadedNoun  BY <4>1, LocalIs
      <4> QED BY <4>1, <4>2 DEF LoadedNoun
    <3> QED BY <1>3, <1>4, <2>1, <3>1, <3>2
  <2>5. CASE e.noun.kind = "fruit"
    <3>1. r = s  BY <1>5, <2>5 DEF project_entity
    <3>2. n \in DOMAIN s.local /\ s.local[n].kind = "fruit"  BY <2>1, <2>5 DEF Is
    <3>3. s.local[n] \in LoadedNoun  BY <3>2, LocalIs
    <3>4. s.local[n].species = "" /\ e.noun.species = ""
      BY <2>5, <3>2, <3>3 DEF LoadedNoun, NativeNoun, Entity
    <3> QED BY <1>3, <2>1, <3>1, <3>4
  <2>6. e.noun.kind \in {"creature", "fossil", "fruit", "nest"}  BY DEF Entity, NativeNoun
  <2> QED BY <2>2, <2>3, <2>4, <2>5, <2>6
<1> QED BY <1>2, <1>5

-----------------------------------------------------------------------------
(* Making a noun for an entity.                                              *)

\* At most one noun more.
Grown(s, r, native) ==
  /\ SameRest(s, r) /\ r.bindings = s.bindings /\ (r.ok => s.ok)
  /\ DOMAIN s.local \subseteq DOMAIN r.local /\ DOMAIN r.local \subseteq DOMAIN s.local \cup {native}
  /\ \A n \in DOMAIN s.local : r.local[n] = s.local[n]

\* The entity has a noun, live and its own, and everything else is as it was.
Spawned(s, r, id, e) ==
  /\ SameRest(s, r) /\ LiveOK(r) /\ Shows(r, id, e)
  /\ DOMAIN r.bindings = DOMAIN s.bindings \cup {id}
  /\ \A other \in DOMAIN s.bindings \ {id} : r.bindings[other] = s.bindings[other]
  /\ r.bindings[id].live /\ r.bindings[id].generation = e.generation
  /\ DOMAIN s.local \subseteq DOMAIN r.local
  /\ DOMAIN r.local \subseteq DOMAIN s.local \cup {r.bindings[id].native}
  /\ \A n \in DOMAIN s.local : r.local[n].kind = s.local[n].kind /\ r.local[n].species = s.local[n].species

LEMMA BindIs ==
  ASSUME NEW s \in Game, NEW id \in Num, NEW e \in Entity, NEW native \in Num
  PROVE  LET r == bind(s, id, e, native) IN
         /\ r \in Game /\ r.ok = s.ok /\ r.local = s.local /\ SameRest(s, r)
         /\ DOMAIN r.bindings = DOMAIN s.bindings \cup {id}
         /\ r.bindings[id] = make_binding(e, native)
         /\ \A other \in DOMAIN s.bindings \ {id} : r.bindings[other] = s.bindings[other]
<1> DEFINE put == Put(s.bindings, id, make_binding(e, native))
<1>1. make_binding(e, native) \in Binding  BY DEF make_binding, Binding, Entity
<1>2. s.bindings \in Maps(Binding)  BY DEF Game
<1>3. /\ put \in Maps(Binding) /\ DOMAIN put = DOMAIN s.bindings \cup {id}
      /\ put[id] = make_binding(e, native) /\ \A m \in DOMAIN s.bindings \ {id} : put[m] = s.bindings[m]
  <2>1. put \in Maps(Binding)  BY <1>1, <1>2, PutIs
  <2> QED BY <2>1 DEF Put
<1>4. bind(s, id, e, native) = [s EXCEPT !.bindings = put]  BY DEF bind, Game
<1> HIDE DEF put
<1> QED BY <1>3, <1>4 DEF Game, SameRest

LEMMA AddIs ==
  ASSUME NEW s \in Game, NEW noun \in LoadedNoun
  PROVE  LET r == Add(s, noun) IN
         /\ r \in Game
         /\ r.ok => /\ Grown(s, r, Fresh(s)) /\ Fresh(s) \in Num \ DOMAIN s.local
                    /\ Fresh(s) \in DOMAIN r.local /\ r.local[Fresh(s)] = noun
<1>1. CASE DOMAIN s.local = Num
  <2>1. Add(s, noun) = failed(s, "factory")  BY <1>1 DEF Add
  <2> QED BY <2>1, FailedIs DEF Reason
<1>2. CASE DOMAIN s.local # Num
  <2> DEFINE put == Put(s.local, Fresh(s), noun)
  <2>1. Fresh(s) \in Num \ DOMAIN s.local
    <3>1. Num \ DOMAIN s.local \subseteq Num /\ Num \ DOMAIN s.local # {}  BY <1>2, LocalIs
    <3> QED BY <3>1, LeastIsIn DEF Fresh
  <2>2. s.local \in Maps(LoadedNoun)  BY DEF Game
  <2>3. /\ put \in Maps(LoadedNoun) /\ DOMAIN put = DOMAIN s.local \cup {Fresh(s)}
        /\ put[Fresh(s)] = noun /\ \A m \in DOMAIN s.local \ {Fresh(s)} : put[m] = s.local[m]
    <3>1. put \in Maps(LoadedNoun)  BY <2>1, <2>2, PutIs
    <3> QED BY <3>1 DEF Put
  <2>4. Add(s, noun) = [s EXCEPT !.local = put]  BY <1>2 DEF Add, Game
  <2> HIDE DEF put
  <2> QED BY <2>1, <2>3, <2>4 DEF Game, SameRest, Grown
<1> QED BY <1>1, <1>2

LEMMA CreateIs ==
  ASSUME NEW s \in Game, NEW e \in Entity, e.noun.kind = "creature"
  PROVE  LET r == create(s, e) IN
         r \in Game /\ (r.ok => Grown(s, r, Fresh(s)) /\ Fresh(s) \in Num \ DOMAIN s.local)
<1> DEFINE templates == template_for(s, e)
           herd == IF templates # {} THEN s.local[Min(templates)].herd ELSE e.noun.herd
           noun == Noun("creature", e.noun.species, herd)
<1>1. CASE templates = {} /\ ~existing_herd_for(e)
  <2>1. create(s, e) = failed(s, "template")  BY <1>1 DEF create
  <2> QED BY <2>1, FailedIs DEF Reason
<1>2. CASE ~(templates = {} /\ ~existing_herd_for(e))
  <2>1. create(s, e) = Add(s, noun)  BY <1>2 DEF create
  <2>2. herd \in STRING
    <3>1. e.noun.herd \in STRING  BY DEF Entity, NativeNoun
    <3>2. ASSUME templates # {} PROVE s.local[Min(templates)].herd \in STRING
      <4>1. templates \subseteq DOMAIN s.local /\ templates \subseteq Num  BY LocalIs DEF template_for
      <4>2. Min(templates) \in templates  BY <3>2, <4>1, LeastIsIn
      <4>3. s.local[Min(templates)] \in LoadedNoun  BY <4>1, <4>2, LocalIs
      <4> QED BY <4>3 DEF LoadedNoun, NativeNoun
    <3> QED BY <3>1, <3>2
  <2>3. noun \in LoadedNoun
    <3> HIDE DEF herd
    <3>1. e.noun.species \in STRING  BY DEF Entity, NativeNoun
    <3> QED BY <2>2, <3>1 DEF Noun, LoadedNoun, NativeNoun
  <2> HIDE DEF noun
  <2> QED BY <2>1, <2>3, AddIs
<1> QED BY <1>1, <1>2

LEMMA BoundThenShown ==
  ASSUME NEW s \in Game, NEW made \in Game, NEW id \in Num, NEW native \in Num, NEW e \in Entity,
         LiveOK(s), ~Bound(s, id), Grown(s, made, native),
         \A other \in DOMAIN s.bindings \ {id} : s.bindings[other].live => s.bindings[other].native # native
  PROVE  LET r == project_entity(bind(made, id, e, native), id, e) IN
         r \in Game /\ (r.ok => s.ok /\ Spawned(s, r, id, e))
<1> DEFINE b == bind(made, id, e, native)
           r == project_entity(b, id, e)
<1>1. /\ b \in Game /\ b.ok = made.ok /\ b.local = made.local /\ SameRest(made, b)
      /\ DOMAIN b.bindings = DOMAIN s.bindings \cup {id}
      /\ b.bindings[id] = make_binding(e, native)
      /\ \A other \in DOMAIN s.bindings \ {id} : b.bindings[other] = s.bindings[other]
  BY BindIs DEF Grown
<1> HIDE DEF b
<1>2. r \in Game /\ (r.ok => b.ok /\ b.bindings[id].live /\ SameNouns(b, r) /\ Shows(r, id, e))
  BY <1>1, ProjectIs
<1> HIDE DEF r
<1>3. ASSUME r.ok PROVE s.ok /\ Spawned(s, r, id, e)
  <2>1. SameNouns(b, r) /\ Shows(r, id, e) /\ s.ok  BY <1>1, <1>2, <1>3 DEF Grown
  <2>2. SameRest(s, r)  BY <1>1, <2>1 DEF SameRest, SameNouns, Grown
  <2>3. /\ r.bindings = b.bindings /\ r.bindings[id].native = native
        /\ r.bindings[id].live /\ r.bindings[id].generation = e.generation
    BY <1>1, <2>1 DEF SameNouns, make_binding
  <2>4. DOMAIN r.local = DOMAIN made.local  BY <1>1, <2>1 DEF SameNouns
  <2>5. DOMAIN s.local \subseteq DOMAIN r.local /\ DOMAIN r.local \subseteq DOMAIN s.local \cup {native}
    BY <2>4 DEF Grown
  <2>6. \A n \in DOMAIN s.local : r.local[n].kind = s.local[n].kind /\ r.local[n].species = s.local[n].species
    BY <1>1, <2>1 DEF SameNouns, Grown
  <2>7. native \in DOMAIN r.local  BY <2>1, <2>3 DEF Shows, Is
  <2>8. LiveOK(r)
    <3> SUFFICES ASSUME NEW i \in DOMAIN r.bindings, r.bindings[i].live
                 PROVE  /\ r.bindings[i].native \in DOMAIN r.local
                        /\ \A j \in DOMAIN r.bindings \ {i} :
                             r.bindings[j].live => r.bindings[j].native # r.bindings[i].native
      BY DEF LiveOK
    <3>1. \A j \in DOMAIN r.bindings : j # id => j \in DOMAIN s.bindings /\ r.bindings[j] = s.bindings[j]
      BY <1>1, <2>3
    <3>2. CASE i = id
      BY <2>3, <2>7, <3>1, <3>2
    <3>3. CASE i # id
      <4>1. /\ r.bindings[i].native \in DOMAIN s.local
            /\ \A j \in DOMAIN s.bindings \ {i} : s.bindings[j].live => s.bindings[j].native # s.bindings[i].native
        BY <3>1, <3>3 DEF LiveOK
      <4>2. r.bindings[i].native # native  BY <3>1, <3>3
      <4> QED BY <2>3, <2>5, <3>1, <3>3, <4>1, <4>2
    <3> QED BY <3>2, <3>3
  <2> QED BY <1>1, <2>1, <2>2, <2>3, <2>5, <2>6, <2>8 DEF Spawned
<1> QED BY <1>2, <1>3 DEF b, r

LEMMA SpawnIs ==
  ASSUME NEW s \in Game, NEW id \in Num, NEW e \in Entity, LiveOK(s), ~Bound(s, id)
  PROVE  LET r == spawn_entity(s, id, e) IN
         r \in Game /\ (r.ok => s.ok /\ Spawned(s, r, id, e))
<1> DEFINE r == spawn_entity(s, id, e)
<1>1. \A m \in Num : ~mapped(s, m) =>
        \A other \in DOMAIN s.bindings \ {id} : s.bindings[other].live => s.bindings[other].native # m
  BY DEF mapped
<1>2. CASE e.noun.kind = "nest"
  <2> DEFINE made == IF nest_template(s, e) = {}
                     THEN Add(s, Noun("nest", e.noun.species, e.noun.herd)) ELSE s
             native == Min(nest_template(made, e))
  <2>1. r = IF ~nest_herd_matches(e) \/ ~made.ok THEN failed(s, "nest")
            ELSE IF mapped(made, native) THEN failed(made, "nest")
            ELSE project_entity(bind(made, id, e, native), id, e)
    BY <1>2 DEF spawn_entity, spawn_nest
  <2>2. CASE ~nest_herd_matches(e) \/ ~made.ok
    <3>1. r = failed(s, "nest")  BY <2>1, <2>2
    <3> QED BY <3>1, FailedIs DEF Reason
  <2>3. CASE nest_herd_matches(e) /\ made.ok
    <3>1. /\ made \in Game /\ nest_template(made, e) # {}
          /\ \A n \in nest_template(made, e) : Grown(s, made, n)
      <4>1. CASE nest_template(s, e) = {}
        <5> DEFINE noun == Noun("nest", e.noun.species, e.noun.herd)
        <5>1. made = Add(s, noun)  BY <4>1
        <5>2. noun \in LoadedNoun
          BY <2>3 DEF Noun, LoadedNoun, NativeNoun, Entity, nest_herd_matches
        <5>3. /\ made \in Game /\ Grown(s, made, Fresh(s)) /\ Fresh(s) \notin DOMAIN s.local
              /\ Fresh(s) \in DOMAIN made.local /\ made.local[Fresh(s)] = noun
          <6> HIDE DEF noun
          <6> QED BY <2>3, <5>1, <5>2, AddIs
        <5> HIDE DEF made
        <5>4. Fresh(s) \in nest_template(made, e)
          BY <2>3, <5>3 DEF nest_template, Is, Noun
        <5>5. \A n \in nest_template(made, e) : n = Fresh(s)
          BY <4>1, <5>3 DEF nest_template, Is, Grown
        <5> QED BY <5>3, <5>4, <5>5
      <4>2. CASE nest_template(s, e) # {}
        <5>1. made = s  BY <4>2
        <5> QED BY <4>2, <5>1 DEF Grown, SameRest
      <4> QED BY <4>1, <4>2
    <3> HIDE DEF made
    <3>2. native \in nest_template(made, e) /\ native \in Num
      <4>1. nest_template(made, e) \subseteq Num  BY <3>1, LocalIs DEF nest_template
      <4> QED BY <3>1, <4>1, LeastIsIn
    <3> HIDE DEF native
    <3>3. CASE mapped(made, native)
      <4>1. r = failed(made, "nest")  BY <2>1, <2>3, <3>3
      <4> QED BY <3>1, <4>1, FailedIs DEF Reason
    <3>4. CASE ~mapped(made, native)
      <4>1. r = project_entity(bind(made, id, e, native), id, e)  BY <2>1, <2>3, <3>4
      <4>2. Grown(s, made, native)  BY <3>1, <3>2
      <4>3. \A other \in DOMAIN s.bindings \ {id} :
              s.bindings[other].live => s.bindings[other].native # native
        BY <3>4, <4>2 DEF mapped, Grown
      <4> QED BY <3>1, <3>2, <4>1, <4>2, <4>3, BoundThenShown
    <3> QED BY <3>3, <3>4
  <2> QED BY <2>2, <2>3
<1>3. CASE e.noun.kind = "creature"
  <2> DEFINE made == create(s, e)
  <2>1. r = IF made.ok THEN project_entity(bind(made, id, e, Fresh(s)), id, e) ELSE made
    BY <1>3 DEF spawn_entity, spawn_creature
  <2>2. made \in Game /\ (made.ok => Grown(s, made, Fresh(s)) /\ Fresh(s) \in Num \ DOMAIN s.local)
    BY <1>3, CreateIs
  <2> HIDE DEF made
  <2>3. CASE made.ok
    <3>1. \A other \in DOMAIN s.bindings \ {id} :
            s.bindings[other].live => s.bindings[other].native # Fresh(s)
      BY <2>2, <2>3 DEF LiveOK
    <3> QED BY <2>1, <2>2, <2>3, <3>1, BoundThenShown
  <2> QED BY <2>1, <2>2, <2>3
<1>4. CASE e.noun.kind \notin {"nest", "creature"}
  <2>1. r = IF mapped(s, id) THEN failed(s, "bound") ELSE project_entity(bind(s, id, e, id), id, e)
    BY <1>4 DEF spawn_entity, spawn_static
  <2>2. CASE mapped(s, id)
    <3>1. r = failed(s, "bound")  BY <2>1, <2>2
    <3> QED BY <3>1, FailedIs DEF Reason
  <2>3. CASE ~mapped(s, id)
    <3>1. r = project_entity(bind(s, id, e, id), id, e)  BY <2>1, <2>3
    <3>2. Grown(s, s, id)  BY DEF Grown, SameRest
    <3> QED BY <1>1, <2>3, <3>1, <3>2, BoundThenShown
  <2> QED BY <2>2, <2>3
<1> QED BY <1>2, <1>3, <1>4

-----------------------------------------------------------------------------
(* Entity after entity: that there is such a function, and its equation.     *)

LEMMA RealizingExists ==
  ASSUME NEW s, NEW f
  PROVE  /\ realizing(s, f)[0] = s
         /\ \A n \in 1..MaxNum :
              LET done == realizing(s, f)[n - 1] IN
              realizing(s, f)[n] = IF n \in DOMAIN f THEN realize_entity(done, n, f[n]) ELSE done
<1> DEFINE Then(done, n) == IF n \in DOMAIN f THEN realize_entity(done, n, f[n]) ELSE done
           Takes(k, m) == k = [n \in 0..m |-> IF n = 0 THEN s ELSE Then(k[n - 1], n)]
           Reached == {m \in Nat : \E k : Takes(k, m)}
<1> HIDE DEF Then
<1>1. 0 \in Reached
  <2>1. Takes([n \in 0..0 |-> s], 0)  OBVIOUS
  <2> QED BY <2>1
<1>2. ASSUME NEW m \in Nat, m \in Reached PROVE m + 1 \in Reached
  <2>1. PICK k : Takes(k, m)  BY <1>2
  <2> DEFINE g == [n \in 0..(m + 1) |-> IF n = m + 1 THEN Then(k[m], n) ELSE k[n]]
  <2>2. \A n \in 0..(m + 1) : g[n] = IF n = 0 THEN s ELSE Then(g[n - 1], n)
    <3> SUFFICES ASSUME NEW n \in 0..(m + 1)
                 PROVE  g[n] = IF n = 0 THEN s ELSE Then(g[n - 1], n)
      OBVIOUS
    <3>1. CASE n = 0  BY <2>1, <3>1
    <3>2. CASE n = m + 1
      <4>1. n # 0 /\ n - 1 = m /\ n - 1 \in 0..(m + 1) /\ n - 1 # m + 1  BY <3>2
      <4> QED BY <3>2, <4>1
    <3>3. CASE n # 0 /\ n # m + 1
      <4>1. n \in 0..m /\ n - 1 \in 0..(m + 1) /\ n - 1 # m + 1  BY <3>3
      <4>2. g[n] = k[n] /\ g[n - 1] = k[n - 1]  BY <3>3, <4>1
      <4>3. k[n] = Then(k[n - 1], n)  BY <2>1, <3>3, <4>1
      <4> QED BY <3>3, <4>2, <4>3
    <3> QED BY <3>1, <3>2, <3>3
  <2>3. Takes(g, m + 1)
    <3> HIDE DEF g
    <3>1. g = [n \in 0..(m + 1) |-> g[n]]  BY DEF g
    <3> QED BY <2>2, <3>1
  <2> HIDE DEF Takes, g
  <2>4. \E h : Takes(h, m + 1)  BY <2>3
  <2> QED BY <2>4
<1>3. Nat \subseteq Reached
  <2> HIDE DEF Reached
  <2> QED BY <1>1, <1>2, Numbered
<1>4. \E g : Takes(g, MaxNum)  BY <1>3, ProjectionAssumption
<1>5. Takes(realizing(s, f), MaxNum)
  BY <1>4 DEF realizing, Then
<1>6. \A n \in 0..MaxNum :
        realizing(s, f)[n] = IF n = 0 THEN s ELSE Then(realizing(s, f)[n - 1], n)
  <2> HIDE DEF Then
  <2> QED BY <1>5
<1>7. 0 \in 0..MaxNum /\ \A n \in 1..MaxNum : n \in 0..MaxNum /\ n # 0
  BY ProjectionAssumption
<1> QED BY <1>6, <1>7 DEF Then

LEMMA ProjectingExists ==
  ASSUME NEW s
  PROVE  /\ projecting(s)[0] = s
         /\ \A n \in 1..MaxNum :
              LET done == projecting(s)[n - 1] IN
              projecting(s)[n] =
                IF n \in DOMAIN s.motion /\ done.ok
                THEN project_native_scene_entity(done, n, s.motion[n]) ELSE done
<1> DEFINE Then(done, n) == IF n \in DOMAIN s.motion /\ done.ok
                            THEN project_native_scene_entity(done, n, s.motion[n]) ELSE done
           Takes(k, m) == k = [n \in 0..m |-> IF n = 0 THEN s ELSE Then(k[n - 1], n)]
           Reached == {m \in Nat : \E k : Takes(k, m)}
<1> HIDE DEF Then
<1>1. 0 \in Reached
  <2>1. Takes([n \in 0..0 |-> s], 0)  OBVIOUS
  <2> QED BY <2>1
<1>2. ASSUME NEW m \in Nat, m \in Reached PROVE m + 1 \in Reached
  <2>1. PICK k : Takes(k, m)  BY <1>2
  <2> DEFINE g == [n \in 0..(m + 1) |-> IF n = m + 1 THEN Then(k[m], n) ELSE k[n]]
  <2>2. \A n \in 0..(m + 1) : g[n] = IF n = 0 THEN s ELSE Then(g[n - 1], n)
    <3> SUFFICES ASSUME NEW n \in 0..(m + 1)
                 PROVE  g[n] = IF n = 0 THEN s ELSE Then(g[n - 1], n)
      OBVIOUS
    <3>1. CASE n = 0  BY <2>1, <3>1
    <3>2. CASE n = m + 1
      <4>1. n # 0 /\ n - 1 = m /\ n - 1 \in 0..(m + 1) /\ n - 1 # m + 1  BY <3>2
      <4> QED BY <3>2, <4>1
    <3>3. CASE n # 0 /\ n # m + 1
      <4>1. n \in 0..m /\ n - 1 \in 0..(m + 1) /\ n - 1 # m + 1  BY <3>3
      <4>2. g[n] = k[n] /\ g[n - 1] = k[n - 1]  BY <3>3, <4>1
      <4>3. k[n] = Then(k[n - 1], n)  BY <2>1, <3>3, <4>1
      <4> QED BY <3>3, <4>2, <4>3
    <3> QED BY <3>1, <3>2, <3>3
  <2>3. Takes(g, m + 1)
    <3> HIDE DEF g
    <3>1. g = [n \in 0..(m + 1) |-> g[n]]  BY DEF g
    <3> QED BY <2>2, <3>1
  <2> HIDE DEF Takes, g
  <2>4. \E h : Takes(h, m + 1)  BY <2>3
  <2> QED BY <2>4
<1>3. Nat \subseteq Reached
  <2> HIDE DEF Reached
  <2> QED BY <1>1, <1>2, Numbered
<1>4. \E g : Takes(g, MaxNum)  BY <1>3, ProjectionAssumption
<1>5. Takes(projecting(s), MaxNum)
  BY <1>4 DEF projecting, Then
<1>6. \A n \in 0..MaxNum :
        projecting(s)[n] = IF n = 0 THEN s ELSE Then(projecting(s)[n - 1], n)
  <2> HIDE DEF Then
  <2> QED BY <1>5
<1>7. 0 \in 0..MaxNum /\ \A n \in 1..MaxNum : n \in 0..MaxNum /\ n # 0
  BY ProjectionAssumption
<1> QED BY <1>6, <1>7 DEF Then

-----------------------------------------------------------------------------
(* Nouns that leave.                                                         *)

LEMMA DestroyedIs ==
  ASSUME NEW s \in Game, NEW S
  PROVE  LET r == destroyed(s, S) IN
         /\ r \in Game /\ r.ok = s.ok /\ SameRest(s, r) /\ r.avatar = s.avatar
         /\ DOMAIN r.local = DOMAIN s.local \ S
         /\ \A n \in DOMAIN s.local \ S : r.local[n] = s.local[n]
         /\ DOMAIN r.bindings = DOMAIN s.bindings
         /\ \A id \in DOMAIN s.bindings :
              /\ r.bindings[id].native = s.bindings[id].native
              /\ r.bindings[id].generation = s.bindings[id].generation
              /\ r.bindings[id].live <=> s.bindings[id].live /\ s.bindings[id].native \notin S
<1> DEFINE b == [id \in DOMAIN s.bindings |->
                  [s.bindings[id] EXCEPT !.live = s.bindings[id].live /\ s.bindings[id].native \notin S]]
           owned == \E i \in {1, 2} : s.owned.actors[i] \in S
           o == IF owned THEN [s.owned EXCEPT !.retired = TRUE, !.admitted = FALSE, !.presentation = FALSE]
                ELSE s.owned
           l == Drop(s.local, S)
           r == destroyed(s, S)
<1>1. \A id \in DOMAIN s.bindings : s.bindings[id] \in Binding  BY LocalIs
<1>2. /\ DOMAIN b = DOMAIN s.bindings /\ b \in Maps(Binding)
      /\ \A id \in DOMAIN s.bindings :
           /\ b[id].native = s.bindings[id].native /\ b[id].generation = s.bindings[id].generation
           /\ b[id].live <=> s.bindings[id].live /\ s.bindings[id].native \notin S
  <2>1. \A id \in DOMAIN s.bindings :
          [s.bindings[id] EXCEPT !.live = s.bindings[id].live /\ s.bindings[id].native \notin S] \in Binding
    BY <1>1 DEF Binding
  <2>2. DOMAIN b = DOMAIN s.bindings /\ b \in [DOMAIN b -> Binding]  BY <2>1
  <2>3. DOMAIN b \subseteq Num  BY <2>2, LocalIs
  <2>4. b \in Maps(Binding)
    <3> HIDE DEF b
    <3> QED BY <2>2, <2>3, MapsOf
  <2> QED BY <1>1, <2>2, <2>4 DEF Binding
<1>3. o \in Owned
  <2>1. s.owned \in Owned  BY DEF Game
  <2> QED BY <2>1 DEF Owned
<1>4. /\ l \in Maps(LoadedNoun) /\ DOMAIN l = DOMAIN s.local \ S
      /\ \A n \in DOMAIN s.local \ S : l[n] = s.local[n]
  <2>1. s.local \in Maps(LoadedNoun)  BY DEF Game
  <2>2. l \in Maps(LoadedNoun)  BY <2>1, DropIs
  <2> QED BY <2>2 DEF Drop, Restrict
<1> DEFINE i == invalidate_native_scene_entity(s, S)
<1>5. i = [s EXCEPT !.bindings = b, !.owned = o]
  <2>1. [id \in DOMAIN s.bindings |-> [s.bindings[id] EXCEPT !.live = @ /\ s.bindings[id].native \notin S]] = b
    BY <1>1
  <2> HIDE DEF b
  <2> QED BY <2>1 DEF invalidate_native_scene_entity, Game
<1> HIDE DEF b, o
<1>6. i.local = s.local /\ i \in Game  BY <1>2, <1>3, <1>5 DEF Game
<1>7. r = [i EXCEPT !.local = l]
  <2> HIDE DEF i
  <2>1. r = [i EXCEPT !.local = Drop(i.local, S)]  BY DEF destroyed, i
  <2> QED BY <1>6, <2>1
<1> HIDE DEF i, l, r
<1>8. r.local = l /\ r.bindings = b /\ r.ok = s.ok /\ r.avatar = s.avatar /\ SameRest(s, r) /\ r \in Game
  BY <1>2, <1>3, <1>4, <1>5, <1>6, <1>7 DEF Game, SameRest
<1> QED BY <1>2, <1>4, <1>8 DEF r

LEMMA DestroyedLive ==
  ASSUME NEW s \in Game, NEW S, LiveOK(s)
  PROVE  LiveOK(destroyed(s, S))
<1> DEFINE r == destroyed(s, S)
<1>1. /\ DOMAIN r.local = DOMAIN s.local \ S /\ DOMAIN r.bindings = DOMAIN s.bindings
      /\ \A id \in DOMAIN s.bindings :
           /\ r.bindings[id].native = s.bindings[id].native
           /\ r.bindings[id].live <=> s.bindings[id].live /\ s.bindings[id].native \notin S
  BY DestroyedIs
<1> HIDE DEF r
<1>2. LiveOK(r)  BY <1>1 DEF LiveOK
<1> QED BY <1>2 DEF r

\* A creature or a nest that leaves is no longer followed, and nothing else
\* changes.
LEMMA DestroyedFollows ==
  ASSUME NEW s \in Game, NEW n, LiveOK(s), Follows(s),
         \A id \in DOMAIN s.motion :
           s.motion[id].noun.kind = "fossil" => s.bindings[id].native # n
  PROVE  Follows(destroyed(s, {n}))
<1> DEFINE r == destroyed(s, {n})
<1>1. /\ SameRest(s, r)
      /\ DOMAIN r.local = DOMAIN s.local \ {n} /\ DOMAIN r.bindings = DOMAIN s.bindings
      /\ \A m \in DOMAIN s.local \ {n} : r.local[m] = s.local[m]
      /\ \A id \in DOMAIN s.bindings :
           /\ r.bindings[id].native = s.bindings[id].native
           /\ r.bindings[id].generation = s.bindings[id].generation
           /\ r.bindings[id].live <=> s.bindings[id].live /\ s.bindings[id].native \notin {n}
  BY DestroyedIs
<1> HIDE DEF r
<1>2. r.admitted /\ r.motion = s.motion  BY <1>1 DEF SameRest, Follows
<1>3. ASSUME NEW m \in DOMAIN r.local, r.local[m].kind # "fruit"
      PROVE  \E id \in DOMAIN r.motion : Bound(r, id) /\ r.bindings[id].native = m
  <2>1. PICK id \in DOMAIN s.motion : Bound(s, id) /\ s.bindings[id].native = m
    BY <1>1, <1>3 DEF Follows
  <2> QED BY <1>1, <1>2, <1>3, <2>1 DEF Bound
<1>4. ASSUME NEW id \in DOMAIN r.motion
      PROVE  /\ id \in DOMAIN r.bindings /\ r.bindings[id].generation = r.motion[id].generation
             /\ r.bindings[id].live => Shows(r, id, r.motion[id])
             /\ r.motion[id].noun.kind = "fossil" => r.bindings[id].live
  <2>1. /\ id \in DOMAIN s.bindings /\ s.bindings[id].generation = s.motion[id].generation
        /\ s.bindings[id].live => Shows(s, id, s.motion[id])
        /\ s.motion[id].noun.kind = "fossil" => s.bindings[id].live
    BY <1>2, <1>4 DEF Follows
  <2> QED BY <1>1, <1>2, <2>1 DEF Shows, Is
<1>5. Follows(r)  BY <1>2, <1>3, <1>4 DEF Follows
<1> QED BY <1>5 DEF r

-----------------------------------------------------------------------------
(* A baseline, entity after entity.                                          *)

\* Every binding is of an entity of the scene, and live.
Matched(s, f) ==
  /\ LiveOK(s)
  /\ \A id \in DOMAIN s.bindings :
       id \in DOMAIN f /\ s.bindings[id].live /\ s.bindings[id].generation = f[id].generation

\* Up to number n, what has a binding is shown, and the rest can be missed.
Realized(s, f, n) ==
  /\ Matched(s, f)
  /\ \A id \in DOMAIN f : id <= n =>
       IF id \in DOMAIN s.bindings THEN Shows(s, id, f[id]) ELSE f[id].noun.kind \in {"fossil", "fruit"}

LEMMA ShownStillIs ==
  ASSUME NEW s, NEW r, NEW id \in DOMAIN s.bindings, NEW e, Shows(s, id, e),
         r.bindings[id] = s.bindings[id], DOMAIN s.local \subseteq DOMAIN r.local,
         \A n \in DOMAIN s.local : r.local[n].kind = s.local[n].kind /\ r.local[n].species = s.local[n].species
  PROVE  Shows(r, id, e)
  BY DEF Shows, Is

LEMMA RealizeOne ==
  ASSUME NEW s \in Game, NEW f \in Maps(Entity), NEW n \in DOMAIN f, n \in 1..MaxNum, Realized(s, f, n - 1)
  PROVE  LET r == realize_entity(s, n, f[n]) IN
         r \in Game /\ (r.ok => s.ok /\ SameRest(s, r) /\ Realized(r, f, n))
<1> DEFINE r == realize_entity(s, n, f[n])
<1>1. f[n] \in Entity /\ n \in Num /\ DOMAIN f \subseteq Num  BY MapsOf DEF Num
<1>2. \A id \in DOMAIN f : id <= n => id = n \/ id <= n - 1
  BY <1>1, ProjectionAssumption DEF Num
<1>3. CASE ~s.ok
  BY <1>3 DEF realize_entity
<1>4. CASE s.ok /\ Bound(s, n)
  <2>1. r = project_entity(s, n, f[n])  BY <1>4 DEF realize_entity
  <2>2. n \in DOMAIN s.bindings  BY <1>4 DEF Bound
  <2>3. r \in Game /\ (r.ok => SameNouns(s, r) /\ Shows(r, n, f[n]))
    BY <1>1, <2>1, <2>2, ProjectIs
  <2> HIDE DEF r
  <2>4. ASSUME r.ok PROVE SameRest(s, r) /\ Realized(r, f, n)
    <3>1. /\ SameRest(s, r) /\ r.bindings = s.bindings /\ DOMAIN r.local = DOMAIN s.local
          /\ \A m \in DOMAIN s.local : r.local[m].kind = s.local[m].kind /\ r.local[m].species = s.local[m].species
      BY <2>3, <2>4 DEF SameNouns
    <3>2. Matched(r, f)  BY <3>1 DEF Realized, Matched, LiveOK
    <3>3. ASSUME NEW id \in DOMAIN f, id <= n
          PROVE  IF id \in DOMAIN r.bindings THEN Shows(r, id, f[id]) ELSE f[id].noun.kind \in {"fossil", "fruit"}
      <4>1. CASE id = n  BY <2>2, <2>3, <2>4, <3>1, <4>1
      <4>2. CASE id <= n - 1
        <5>1. IF id \in DOMAIN s.bindings THEN Shows(s, id, f[id]) ELSE f[id].noun.kind \in {"fossil", "fruit"}
          BY <4>2 DEF Realized
        <5> QED BY <3>1, <5>1, ShownStillIs
      <4> QED BY <1>2, <3>3, <4>1, <4>2
    <3> QED BY <3>1, <3>2, <3>3 DEF Realized
  <2> QED BY <1>4, <2>3, <2>4 DEF r
<1>5. CASE s.ok /\ ~Bound(s, n) /\ f[n].noun.kind \in {"fossil", "fruit"}
  <2>1. r = s  BY <1>5 DEF realize_entity
  <2>2. n \notin DOMAIN s.bindings  BY <1>5 DEF Realized, Matched, Bound
  <2>3. Realized(s, f, n)  BY <1>2, <1>5, <2>2 DEF Realized
  <2> HIDE DEF r
  <2> QED BY <1>5, <2>1, <2>3 DEF SameRest, r
<1>6. CASE s.ok /\ ~Bound(s, n) /\ f[n].noun.kind \notin {"fossil", "fruit"}
  <2>1. r = spawn_entity(s, n, f[n])  BY <1>6 DEF realize_entity
  <2>2. LiveOK(s)  BY DEF Realized, Matched
  <2>3. r \in Game /\ (r.ok => Spawned(s, r, n, f[n]))
    BY <1>1, <1>6, <2>1, <2>2, SpawnIs
  <2> HIDE DEF r
  <2>4. ASSUME r.ok PROVE SameRest(s, r) /\ Realized(r, f, n)
    <3>1. Spawned(s, r, n, f[n])  BY <2>3, <2>4
    <3>2. Matched(r, f)
      <4>1. LiveOK(r)  BY <3>1 DEF Spawned
      <4>2. \A id \in DOMAIN r.bindings :
              id \in DOMAIN f /\ r.bindings[id].live /\ r.bindings[id].generation = f[id].generation
        BY <3>1 DEF Spawned, Realized, Matched
      <4> QED BY <4>1, <4>2 DEF Matched
    <3>3. ASSUME NEW id \in DOMAIN f, id <= n
          PROVE  IF id \in DOMAIN r.bindings THEN Shows(r, id, f[id]) ELSE f[id].noun.kind \in {"fossil", "fruit"}
      <4>1. CASE id = n  BY <3>1, <4>1 DEF Spawned
      <4>2. CASE id # n /\ id <= n - 1
        <5>1. IF id \in DOMAIN s.bindings THEN Shows(s, id, f[id]) ELSE f[id].noun.kind \in {"fossil", "fruit"}
          BY <4>2 DEF Realized
        <5>2. CASE id \in DOMAIN s.bindings
          <6>1. /\ r.bindings[id] = s.bindings[id] /\ id \in DOMAIN r.bindings /\ DOMAIN s.local \subseteq DOMAIN r.local
                /\ \A m \in DOMAIN s.local :
                     r.local[m].kind = s.local[m].kind /\ r.local[m].species = s.local[m].species
            BY <3>1, <4>2, <5>2 DEF Spawned
          <6> QED BY <5>1, <5>2, <6>1, ShownStillIs
        <5>3. CASE id \notin DOMAIN s.bindings
          <6>1. id \notin DOMAIN r.bindings  BY <3>1, <4>2, <5>3 DEF Spawned
          <6> QED BY <5>1, <5>3, <6>1
        <5> QED BY <5>2, <5>3
      <4> QED BY <1>2, <3>3, <4>1, <4>2
    <3> QED BY <3>1, <3>2, <3>3 DEF Realized, Spawned
  <2> QED BY <1>6, <2>3, <2>4 DEF r
<1> QED BY <1>3, <1>4, <1>5, <1>6

LEMMA RealizeIs ==
  ASSUME NEW s \in Game, NEW f \in Maps(Entity), Matched(s, f)
  PROVE  LET r == realize(s, f) IN
         r \in Game /\ (r.ok => s.ok /\ SameRest(s, r) /\ Realized(r, f, MaxNum))
<1> DEFINE After(n) == realizing(s, f)[n]
           Good(n) == /\ After(n) \in Game
                      /\ After(n).ok => s.ok /\ SameRest(s, After(n)) /\ Realized(After(n), f, n)
           Reached == {n \in Nat : n <= MaxNum => Good(n)}
<1>1. Good(0)
  <2>1. After(0) = s  BY RealizingExists
  <2>2. \A id \in DOMAIN f : ~(id <= 0)  BY MapsOf, ProjectionAssumption DEF Num
  <2>3. Realized(s, f, 0)  BY <2>2 DEF Realized
  <2> HIDE DEF After
  <2> QED BY <2>1, <2>3 DEF SameRest
<1>2. ASSUME NEW m \in Nat, m \in Reached PROVE m + 1 \in Reached
  <2> SUFFICES ASSUME m + 1 <= MaxNum PROVE Good(m + 1)  OBVIOUS
  <2>1. m + 1 \in 1..MaxNum /\ (m + 1) - 1 = m  BY ProjectionAssumption
  <2>2. Good(m)  BY <1>2, <2>1, ProjectionAssumption
  <2>3. After(m + 1) = IF m + 1 \in DOMAIN f THEN realize_entity(After(m), m + 1, f[m + 1]) ELSE After(m)
    BY <2>1, RealizingExists
  <2> HIDE DEF After
  <2>4. CASE After(m).ok /\ m + 1 \in DOMAIN f
    <3>1. Realized(After(m), f, (m + 1) - 1)  BY <2>1, <2>2, <2>4
    <3>2. LET r == realize_entity(After(m), m + 1, f[m + 1]) IN
          r \in Game /\ (r.ok => After(m).ok /\ SameRest(After(m), r) /\ Realized(r, f, m + 1))
      BY <2>1, <2>2, <2>4, <3>1, RealizeOne
    <3>3. /\ After(m + 1) \in Game
          /\ After(m + 1).ok => SameRest(After(m), After(m + 1)) /\ Realized(After(m + 1), f, m + 1)
      BY <2>3, <2>4, <3>2
    <3> QED BY <2>2, <2>4, <3>3 DEF SameRest
  <2>5. CASE ~After(m).ok
    <3>1. After(m + 1) = After(m)  BY <2>3, <2>5 DEF realize_entity
    <3> QED BY <2>2, <2>5, <3>1
  <2>6. CASE After(m).ok /\ m + 1 \notin DOMAIN f
    <3>1. After(m + 1) = After(m)  BY <2>3, <2>6
    <3>2. \A id \in DOMAIN f : id <= m + 1 => id <= m
      BY <2>6, MapsOf, ProjectionAssumption DEF Num
    <3>3. Realized(After(m), f, m + 1)  BY <2>2, <2>6, <3>2 DEF Realized
    <3> QED BY <2>2, <2>6, <3>1, <3>3
  <2> QED BY <2>4, <2>5, <2>6
<1>3. Nat \subseteq Reached
  <2>1. 0 \in Reached  BY <1>1
  <2> HIDE DEF Reached
  <2> QED BY <1>2, <2>1, Numbered
<1>4. Good(MaxNum)
  <2>1. MaxNum \in Nat /\ MaxNum <= MaxNum  BY ProjectionAssumption
  <2> QED BY <1>3, <2>1
<1> QED BY <1>4 DEF realize
\* The projection of all that is followed: as many nouns and the same
\* bindings, each live and shown.
LEMMA ProjectingIs ==
  ASSUME NEW s \in Game
  PROVE  LET r == projecting(s)[MaxNum] IN
         /\ r \in Game
         /\ r.ok => /\ SameNouns(s, r)
                    /\ \A id \in DOMAIN s.motion :
                         id \in DOMAIN s.bindings /\ s.bindings[id].live /\ Shows(r, id, s.motion[id])
<1> DEFINE After(n) == projecting(s)[n]
           Good(n) == /\ After(n) \in Game
                      /\ After(n).ok =>
                           /\ SameNouns(s, After(n))
                           /\ \A id \in DOMAIN s.motion : id <= n =>
                                id \in DOMAIN s.bindings /\ s.bindings[id].live /\ Shows(After(n), id, s.motion[id])
           Reached == {n \in Nat : n <= MaxNum => Good(n)}
<1>0. DOMAIN s.motion \subseteq 1..MaxNum /\ \A id \in DOMAIN s.motion : s.motion[id] \in Entity
  <2>1. s.motion \in Maps(Entity)  BY DEF Game
  <2>2. DOMAIN s.motion \subseteq Num /\ s.motion \in [DOMAIN s.motion -> Entity]  BY <2>1, MapsOf
  <2> QED BY <2>2 DEF Num
<1>1. Good(0)
  <2>1. After(0) = s  BY ProjectingExists
  <2>2. \A id \in DOMAIN s.motion : ~(id <= 0)  BY <1>0, ProjectionAssumption
  <2> HIDE DEF After
  <2> QED BY <2>1, <2>2 DEF SameNouns, SameRest
<1>2. ASSUME NEW m \in Nat, m \in Reached PROVE m + 1 \in Reached
  <2> SUFFICES ASSUME m + 1 <= MaxNum PROVE Good(m + 1)  OBVIOUS
  <2>1. m + 1 \in 1..MaxNum /\ (m + 1) - 1 = m  BY ProjectionAssumption
  <2>2. Good(m)  BY <1>2, <2>1, ProjectionAssumption
  <2>3. After(m + 1) = IF m + 1 \in DOMAIN s.motion /\ After(m).ok
                       THEN project_native_scene_entity(After(m), m + 1, s.motion[m + 1]) ELSE After(m)
    BY <2>1, ProjectingExists
  <2>4. \A id \in DOMAIN s.motion : id <= m + 1 => id = m + 1 \/ id <= m
    BY <1>0, ProjectionAssumption
  <2> DEFINE t == After(m)
             r == After(m + 1)
             e == s.motion[m + 1]
  <2> HIDE DEF After
  <2>5. CASE t.ok /\ m + 1 \in DOMAIN s.motion
    <3>1. r = project_native_scene_entity(t, m + 1, e)  BY <2>3, <2>5
    <3>2. e \in Entity  BY <1>0, <2>5
    <3>3. t \in Game /\ SameNouns(s, t)  BY <2>2, <2>5
    <3>4. CASE ~(m + 1 \in DOMAIN t.bindings /\ t.bindings[m + 1].live)
      <4>1. r = failed(t, "stale")  BY <3>1, <3>4 DEF project_native_scene_entity
      <4>2. r \in Game /\ ~r.ok  BY <3>3, <4>1, FailedIs DEF Reason
      <4> QED BY <4>2
    <3>5. CASE m + 1 \in DOMAIN t.bindings /\ t.bindings[m + 1].live
      <4>1. r = failed(t, "stale") \/ r = project_entity(t, m + 1, e)
        BY <3>1, <3>5 DEF project_native_scene_entity
      <4>2. CASE r = failed(t, "stale")
        <5>1. r \in Game /\ ~r.ok  BY <3>3, <4>2, FailedIs DEF Reason
        <5> QED BY <5>1
      <4>3. CASE r = project_entity(t, m + 1, e)
        <5>1. r \in Game /\ (r.ok => SameNouns(t, r) /\ Shows(r, m + 1, e))
          BY <3>2, <3>3, <3>5, <4>3, ProjectIs
        <5>2. ASSUME r.ok PROVE SameNouns(s, r)
          BY <3>3, <5>1, <5>2 DEF SameNouns, SameRest
        <5>3. ASSUME r.ok, NEW id \in DOMAIN s.motion, id <= m + 1
              PROVE  id \in DOMAIN s.bindings /\ s.bindings[id].live /\ Shows(r, id, s.motion[id])
          <6>1. CASE id = m + 1
            BY <3>3, <3>5, <5>1, <5>3, <6>1 DEF SameNouns
          <6>2. CASE id <= m
            <7>1. id \in DOMAIN s.bindings /\ s.bindings[id].live /\ Shows(t, id, s.motion[id])
              BY <2>2, <2>5, <6>2
            <7>2. /\ r.bindings[id] = t.bindings[id] /\ id \in DOMAIN t.bindings
                  /\ DOMAIN t.local \subseteq DOMAIN r.local
                  /\ \A n \in DOMAIN t.local :
                       r.local[n].kind = t.local[n].kind /\ r.local[n].species = t.local[n].species
              BY <3>3, <5>1, <5>3, <7>1 DEF SameNouns
            <7> QED BY <7>1, <7>2, ShownStillIs
          <6> QED BY <2>4, <5>3, <6>1, <6>2
        <5> QED BY <5>1, <5>2, <5>3
      <4> QED BY <4>1, <4>2, <4>3
    <3> QED BY <3>4, <3>5
  <2>6. CASE ~(t.ok /\ m + 1 \in DOMAIN s.motion)
    <3>1. r = t  BY <2>3, <2>6
    <3>2. t.ok => \A id \in DOMAIN s.motion : id <= m + 1 => id <= m
      BY <2>4, <2>6
    <3> QED BY <2>2, <3>1, <3>2
  <2> QED BY <2>5, <2>6
<1>3. Nat \subseteq Reached
  <2>1. 0 \in Reached  BY <1>1
  <2> HIDE DEF Reached
  <2> QED BY <1>2, <2>1, Numbered
<1>4. Good(MaxNum)
  <2>1. MaxNum \in Nat /\ MaxNum <= MaxNum  BY ProjectionAssumption
  <2> QED BY <1>3, <2>1
<1>5. \A id \in DOMAIN s.motion : id <= MaxNum  BY <1>0, ProjectionAssumption
<1> QED BY <1>4, <1>5

-----------------------------------------------------------------------------
(* The two players' creatures.                                               *)

LEMMA PlayersAre ==
  ASSUME NEW f, FrameOK(f), {First, Second} \subseteq DOMAIN f
  PROVE  /\ PlayersNumber(f, 1) = First /\ PlayersNumber(f, 2) = Second
         /\ f[First] \in Entity /\ f[Second] \in Entity /\ First \in Num /\ Second \in Num
<1>1. f \in Maps(Entity) /\ \A n \in DOMAIN f : f[n].owner = owner_of(n)  BY DEF FrameOK
<1>2. \A n \in DOMAIN f : (f[n].owner = 1 <=> n = First) /\ (f[n].owner = 2 <=> n = Second)
  BY <1>1, ProjectionAssumption DEF owner_of
<1>3. PlayersNumber(f, 1) = First /\ PlayersNumber(f, 2) = Second
  BY <1>2 DEF PlayersNumber
<1>4. \A n \in DOMAIN f : f[n] \in Entity  BY <1>1, MapsOf
<1> QED BY <1>3, <1>4, ProjectionAssumption

LEMMA AdoptedIs ==
  ASSUME NEW s \in Game, NEW f
  PROVE  LET r == adopt_owned_epoch(s, f) IN
         /\ r \in Game
         /\ r.ok => s.ok /\ SameRest(s, r) /\ r.bindings = s.bindings
<1> DEFINE r == adopt_owned_epoch(s, f)
           o == [NoOwned EXCEPT !.known = TRUE, !.actors = <<s.avatar, s.restored>>]
<1>1. r = s \/ r = failed(s, "species") \/ r = [s EXCEPT !.owned = o]
  BY DEF adopt_owned_epoch
<1>2. o \in Owned
  <2>1. <<s.avatar, s.restored>> \in (0..MaxNum) \X (0..MaxNum)  BY DEF Game
  <2> QED BY <2>1 DEF NoOwned, Owned
<1> HIDE DEF o
<1>3. CASE r = s  BY <1>3 DEF SameRest
<1>4. CASE r = failed(s, "species")  BY <1>4, FailedIs DEF Reason
<1>5. CASE r = [s EXCEPT !.owned = o]
  <2> HIDE DEF r
  <2>1. r \in Game /\ r.ok = s.ok /\ SameRest(s, r) /\ r.bindings = s.bindings
    BY <1>2, <1>5 DEF Game, SameRest
  <2> QED BY <2>1 DEF r
<1> QED BY <1>1, <1>3, <1>4, <1>5

\* Two creatures of this game, apart.
Apart(r) ==
  /\ Is(r, r.owned.actors[1], "creature") /\ Is(r, r.owned.actors[2], "creature")
  /\ r.owned.actors[1] # r.owned.actors[2]

LEMMA ResolvedIs ==
  ASSUME NEW s \in Game, NEW f, FrameOK(f), {First, Second} \subseteq DOMAIN f
  PROVE  LET r == resolve_owned_actors(s, f) IN
         /\ r \in Game
         /\ r.ok => s.ok /\ SameRest(s, r) /\ r.bindings = s.bindings /\ Apart(r)
<1> DEFINE r == resolve_owned_actors(s, f)
           one == f[First]
           two == f[Second]
           first == s.owned.actors[1]
           made == s.owned.actors[2] = 0
           noun == Noun("creature", two.noun.species, OwnHerd)
           held == IF made THEN Add(s, noun) ELSE s
           second == IF made THEN Fresh(s) ELSE s.owned.actors[2]
           refused == \/ ~held.ok \/ ~owned_herd(held, second, two) \/ second = first
                      \/ Members(held, held.local[second].herd) # {second}
           o == [held.owned EXCEPT !.actors = <<first, second>>]
<1>1. PlayersNumber(f, 1) = First /\ PlayersNumber(f, 2) = Second /\ two \in Entity
  BY PlayersAre
<1>2. /\ held \in Game
      /\ held.ok => /\ s.ok /\ SameRest(s, held) /\ held.bindings = s.bindings
                    /\ DOMAIN s.local \subseteq DOMAIN held.local
                    /\ \A n \in DOMAIN s.local : held.local[n] = s.local[n]
  <2>1. CASE made
    <3>1. noun \in LoadedNoun
      BY <1>1, ProjectionAssumption DEF Noun, LoadedNoun, NativeNoun, Entity
    <3>2. held = Add(s, noun)  BY <2>1
    <3> HIDE DEF noun, held
    <3> QED BY <3>1, <3>2, AddIs DEF Grown
  <2>2. CASE ~made
    <3>1. held = s  BY <2>2
    <3> HIDE DEF held
    <3> QED BY <3>1 DEF SameRest
  <2> QED BY <2>1, <2>2
<1>3. r = IF ~owned_herd(s, first, one) \/ (made /\ template_for(s, two) = {}) THEN failed(s, "owned")
          ELSE IF refused THEN failed(held, "owned")
          ELSE [held EXCEPT !.owned.actors = <<first, second>>]
  BY <1>1 DEF resolve_owned_actors
<1>4. CASE ~owned_herd(s, first, one) \/ (made /\ template_for(s, two) = {})
  <2>1. r = failed(s, "owned")  BY <1>3, <1>4
  <2> QED BY <2>1, FailedIs DEF Reason
<1>5. CASE ~(~owned_herd(s, first, one) \/ (made /\ template_for(s, two) = {})) /\ refused
  <2>1. r = failed(held, "owned")  BY <1>3, <1>5
  <2> HIDE DEF held, r
  <2>2. r \in Game /\ ~r.ok  BY <1>2, <2>1, FailedIs DEF Reason
  <2> QED BY <2>2 DEF r
<1>6. CASE owned_herd(s, first, one) /\ ~refused /\ r = [held EXCEPT !.owned.actors = <<first, second>>]
  <2>1. held.ok /\ owned_herd(held, second, two) /\ second # first  BY <1>6
  <2>2. /\ first \in DOMAIN s.local /\ s.local[first].kind = "creature"
        /\ second \in DOMAIN held.local /\ held.local[second].kind = "creature"
    BY <1>6, <2>1 DEF owned_herd, same_species, Is
  <2> HIDE DEF held, second
  <2>3. r = [held EXCEPT !.owned = o]  BY <1>6
  <2>4. o \in Owned /\ o.actors = <<first, second>>
    <3>1. held.owned \in Owned  BY <1>2 DEF Game
    <3>2. first \in 0..MaxNum /\ second \in 0..MaxNum  BY <1>2, <2>2, LocalIs DEF Num
    <3> HIDE DEF first
    <3>3. <<first, second>> \in (0..MaxNum) \X (0..MaxNum)  BY <3>2
    <3> QED BY <3>1, <3>3 DEF Owned
  <2> HIDE DEF o, first
  <2>5. /\ r \in Game /\ r.owned.actors[1] = first /\ r.owned.actors[2] = second /\ r.local = held.local
        /\ SameRest(held, r) /\ r.bindings = held.bindings
    BY <1>2, <2>3, <2>4 DEF Game, SameRest
  <2> HIDE DEF r
  <2>6. Apart(r)  BY <1>2, <2>1, <2>2, <2>5 DEF Apart, Is
  <2>7. SameRest(s, r) /\ r.bindings = s.bindings /\ s.ok  BY <1>2, <2>1, <2>5 DEF SameRest
  <2> QED BY <2>5, <2>6, <2>7 DEF r
<1> QED BY <1>3, <1>4, <1>5, <1>6

\* prepare_owned: the two players' creatures are bound, and nothing else is.
LEMMA PreparedIs ==
  ASSUME NEW s \in Game, s.bindings = NoScene, NEW f, FrameOK(f), {First, Second} \subseteq DOMAIN f
  PROVE  LET r == prepare_owned(s, f) IN
         /\ r \in Game
         /\ r.ok => /\ s.ok /\ SameRest(s, r) /\ Matched(r, f) /\ DOMAIN r.bindings = {First, Second}
                    /\ \A id \in DOMAIN r.bindings : Is(r, r.bindings[id].native, "creature")
<1> DEFINE r == prepare_owned(s, f)
           adopted == adopt_owned_epoch(s, f)
           resolved == resolve_owned_actors(adopted, f)
           e1 == f[First]
           e2 == f[Second]
           n1 == resolved.owned.actors[1]
           n2 == resolved.owned.actors[2]
           one == bind(resolved, First, e1, n1)
           both == bind(one, Second, e2, n2)
<1>1. /\ PlayersNumber(f, 1) = First /\ PlayersNumber(f, 2) = Second
      /\ f[First] \in Entity /\ f[Second] \in Entity /\ First \in Num /\ Second \in Num
  BY PlayersAre
<1>2. adopted \in Game /\ (adopted.ok => s.ok /\ SameRest(s, adopted) /\ adopted.bindings = s.bindings)
  BY AdoptedIs
<1>3. \/ r = failed(s, "life") \/ r = failed(s, "restored") \/ (r = adopted /\ ~adopted.ok)
      \/ r = failed(adopted, "retired") \/ (r = resolved /\ ~resolved.ok)
      \/ (adopted.ok /\ resolved.ok /\ r = promote_avatar(bind_owned_entities(resolved, f)))
  BY DEF prepare_owned
<1> HIDE DEF adopted
<1>4. /\ resolved \in Game
      /\ resolved.ok => /\ adopted.ok /\ SameRest(adopted, resolved) /\ resolved.bindings = adopted.bindings
                        /\ Apart(resolved)
  BY <1>2, ResolvedIs
<1> HIDE DEF resolved, r
<1>5. CASE r = failed(s, "life") \/ r = failed(s, "restored")
  <2>1. r \in Game /\ ~r.ok  BY <1>5, FailedIs DEF Reason
  <2> QED BY <2>1 DEF r
<1>6. CASE r = failed(adopted, "retired")
  <2>1. r \in Game /\ ~r.ok  BY <1>2, <1>6, FailedIs DEF Reason
  <2> QED BY <2>1 DEF r
<1>7. CASE (r = adopted /\ ~adopted.ok) \/ (r = resolved /\ ~resolved.ok)
  BY <1>2, <1>4, <1>7 DEF r
<1>8. CASE resolved.ok /\ r = promote_avatar(bind_owned_entities(resolved, f))
  <2>1. /\ s.ok /\ SameRest(s, resolved) /\ resolved.bindings = NoScene /\ Apart(resolved)
        /\ DOMAIN resolved.bindings = {}
    BY <1>2, <1>4, <1>8, NothingIs DEF SameRest
  <2>2. resolved.owned.actors[1] \in Num /\ resolved.owned.actors[2] \in Num
    BY <1>4, <2>1, LocalIs DEF Apart, Is
  <2>3. /\ one \in Game /\ one.ok = resolved.ok /\ one.local = resolved.local /\ SameRest(resolved, one)
        /\ DOMAIN one.bindings = {First} /\ one.bindings[First] = make_binding(e1, n1)
    <3>1. resolved \in Game /\ e1 \in Entity /\ n1 \in Num /\ First \in Num  BY <1>1, <1>4, <2>2
    <3> HIDE DEF e1, n1
    <3>2. /\ one \in Game /\ one.ok = resolved.ok /\ one.local = resolved.local /\ SameRest(resolved, one)
          /\ DOMAIN one.bindings = DOMAIN resolved.bindings \cup {First}
          /\ one.bindings[First] = make_binding(e1, n1)
      BY <3>1, BindIs
    <3> HIDE DEF one
    <3> QED BY <2>1, <3>2
  <2>4. one.owned = resolved.owned /\ one.me = resolved.me  BY <1>4 DEF bind, Game
  <2> HIDE DEF one
  <2>5. /\ both \in Game /\ both.ok = one.ok /\ both.local = one.local /\ SameRest(one, both)
        /\ DOMAIN both.bindings = {First, Second} /\ both.bindings[Second] = make_binding(e2, n2)
        /\ both.bindings[First] = one.bindings[First]
    <3>1. one \in Game /\ e2 \in Entity /\ n2 \in Num /\ Second \in Num  BY <1>1, <2>2, <2>3
    <3> HIDE DEF e2, n2
    <3>2. /\ both \in Game /\ both.ok = one.ok /\ both.local = one.local /\ SameRest(one, both)
          /\ DOMAIN both.bindings = DOMAIN one.bindings \cup {Second}
          /\ both.bindings[Second] = make_binding(e2, n2)
          /\ \A other \in DOMAIN one.bindings \ {Second} : both.bindings[other] = one.bindings[other]
      BY <3>1, BindIs
    <3> HIDE DEF both
    <3> QED BY <2>3, <3>2, ProjectionAssumption
  <2>6. both.owned = resolved.owned /\ both.me = resolved.me  BY <2>3, <2>4 DEF bind, Game
  <2>7. both = bind_owned_entities(resolved, f)  BY <1>1 DEF bind_owned_entities, both, one
  <2> HIDE DEF both
  <2>8. r = [both EXCEPT !.avatar = both.owned.actors[both.me]]  BY <1>8, <2>7 DEF promote_avatar
  <2>9. both.owned.actors[both.me] \in 0..MaxNum
    <3>1. both.owned \in Owned /\ both.me \in {1, 2}  BY <2>5 DEF Game
    <3> QED BY <3>1 DEF Owned
  <2>10. r \in Game /\ r.ok /\ r.local = resolved.local /\ r.bindings = both.bindings /\ SameRest(both, r)
    <3>1. both \in Game  BY <2>5
    <3> DEFINE a == both.owned.actors[both.me]
    <3>2. r = [both EXCEPT !.avatar = a] /\ a \in 0..MaxNum  BY <2>8, <2>9
    <3> HIDE DEF a
    <3>3. r \in Game /\ r.ok = both.ok /\ r.local = both.local /\ r.bindings = both.bindings /\ SameRest(both, r)
      BY <3>1, <3>2 DEF Game, SameRest
    <3> QED BY <1>8, <2>3, <2>5, <3>3
  <2>11. SameRest(s, r)  BY <2>1, <2>3, <2>5, <2>10 DEF SameRest
  <2>12. /\ DOMAIN r.bindings = {First, Second}
         /\ r.bindings[First].live /\ r.bindings[Second].live
         /\ r.bindings[First].native = resolved.owned.actors[1]
         /\ r.bindings[Second].native = resolved.owned.actors[2]
         /\ r.bindings[First].generation = f[First].generation
         /\ r.bindings[Second].generation = f[Second].generation
    BY <2>3, <2>5, <2>10 DEF make_binding
  <2>13. \A id \in DOMAIN r.bindings : Is(r, r.bindings[id].native, "creature")
    BY <2>1, <2>10, <2>12 DEF Apart, Is
  <2>14. LiveOK(r)  BY <2>1, <2>12, <2>13 DEF LiveOK, Apart, Is
  <2>15. Matched(r, f)  BY <2>12, <2>14 DEF Matched
  <2> QED BY <2>1, <2>10, <2>11, <2>12, <2>13, <2>15 DEF r
<1> QED BY <1>3, <1>5, <1>6, <1>7, <1>8

\* match_unowned: no noun is given to two entities.
LEMMA MatchedIs ==
  ASSUME NEW s \in Game, s.ok, NEW f, FrameOK(f), {First, Second} \subseteq DOMAIN f,
         Matched(s, f), DOMAIN s.bindings = {First, Second},
         \A id \in DOMAIN s.bindings : Is(s, s.bindings[id].native, "creature")
  PROVE  LET r == match_unowned(s, f) IN
         r \in Game /\ (r.ok => SameRest(s, r) /\ Matched(r, f))
<1> DEFINE r == match_unowned(s, f)
           unowned == {id \in DOMAIN f : f[id].owner = 0}
           matched == {id \in unowned : Match(s, id, f[id]) # {}}
           found(id) == Min(Match(s, id, f[id]))
           b == [id \in matched \cup DOMAIN s.bindings |->
                  IF id \in matched THEN make_binding(f[id], found(id)) ELSE s.bindings[id]]
<1>1. r = failed(s, "missing_template") \/ r = [s EXCEPT !.bindings = b]
  BY DEF match_unowned, Game
<1>2. /\ f \in Maps(Entity) /\ DOMAIN f \subseteq Num /\ \A id \in DOMAIN f : f[id] \in Entity
      /\ \A m, n \in DOMAIN f :
           f[m].noun.kind = "nest" /\ f[n].noun.kind = "nest" /\ f[m].noun.herd = f[n].noun.herd => m = n
  BY MapsOf DEF FrameOK, NestsApart
<1>3. \A id \in matched :
        /\ id \in DOMAIN f /\ f[id].owner = 0 /\ id \notin DOMAIN s.bindings
        /\ found(id) \in Match(s, id, f[id]) /\ found(id) \in Num
  <2> SUFFICES ASSUME NEW id \in matched
               PROVE  /\ id \in DOMAIN f /\ f[id].owner = 0 /\ id \notin DOMAIN s.bindings
                      /\ found(id) \in Match(s, id, f[id]) /\ found(id) \in Num
    OBVIOUS
  <2>1. id \in DOMAIN f /\ f[id].owner = 0 /\ Match(s, id, f[id]) # {}  OBVIOUS
  <2>2. id \notin DOMAIN s.bindings  BY <2>1, ProjectionAssumption DEF FrameOK, owner_of
  <2>3. Match(s, id, f[id]) \subseteq Num
    BY <1>2, <2>1, LocalIs DEF Match, nest_template, fossil_template, Is
  <2> QED BY <2>1, <2>2, <2>3, LeastIsIn
<1>4. \A id \in matched :
        /\ found(id) \in DOMAIN s.local /\ s.local[found(id)].kind = f[id].noun.kind
        /\ f[id].noun.kind = "nest" => s.local[found(id)].herd = f[id].noun.herd
        /\ f[id].noun.kind # "nest" => found(id) = id /\ ~mapped(s, id)
  <2> SUFFICES ASSUME NEW id \in matched
               PROVE  /\ found(id) \in DOMAIN s.local /\ s.local[found(id)].kind = f[id].noun.kind
                      /\ f[id].noun.kind = "nest" => s.local[found(id)].herd = f[id].noun.herd
                      /\ f[id].noun.kind # "nest" => found(id) = id /\ ~mapped(s, id)
    OBVIOUS
  <2> DEFINE n == found(id)
             e == f[id]
  <2>1. n \in Match(s, id, e) /\ e.noun.kind \in {"creature", "fossil", "fruit", "nest"}
    BY <1>2, <1>3 DEF Entity, NativeNoun
  <2> HIDE DEF n
  <2>2. /\ n \in DOMAIN s.local /\ s.local[n].kind = e.noun.kind
        /\ e.noun.kind = "nest" => s.local[n].herd = e.noun.herd
        /\ e.noun.kind # "nest" => n = id /\ ~mapped(s, id)
    BY <2>1 DEF Match, nest_template, fossil_template, same_fixture, same_species, Is
  <2> QED BY <2>2 DEF n
<1> HIDE DEF found, matched
<1>5. /\ b \in Maps(Binding) /\ DOMAIN b = matched \cup DOMAIN s.bindings
      /\ \A id \in matched :
           b[id].live /\ b[id].native = found(id) /\ b[id].generation = f[id].generation
      /\ \A id \in DOMAIN s.bindings : b[id] = s.bindings[id]
  <2>1. \A id \in matched : make_binding(f[id], found(id)) \in Binding
    BY <1>2, <1>3 DEF make_binding, Binding, Entity
  <2>2. \A id \in DOMAIN s.bindings : s.bindings[id] \in Binding  BY LocalIs
  <2>3. b \in [matched \cup DOMAIN s.bindings -> Binding]  BY <2>1, <2>2
  <2>4. matched \cup DOMAIN s.bindings \subseteq Num  BY <1>2, <1>3, LocalIs
  <2>5. b \in Maps(Binding)
    <3>1. DOMAIN b = matched \cup DOMAIN s.bindings  OBVIOUS
    <3> HIDE DEF b
    <3> QED BY <2>3, <2>4, <3>1, MapsOf
  <2> QED BY <1>3, <2>5 DEF make_binding
<1> HIDE DEF b
<1>6. CASE r = failed(s, "missing_template")
  BY <1>6, FailedIs DEF Reason
<1>7. CASE r = [s EXCEPT !.bindings = b]
  <2> HIDE DEF r
  <2>1. r \in Game /\ r.local = s.local /\ r.bindings = b /\ SameRest(s, r)
    BY <1>5, <1>7 DEF Game, SameRest
  <2>2. \A id \in DOMAIN r.bindings :
          /\ id \in DOMAIN f /\ r.bindings[id].live /\ r.bindings[id].generation = f[id].generation
          /\ r.bindings[id].native \in DOMAIN r.local
    BY <1>3, <1>4, <1>5, <2>1 DEF Matched, LiveOK
  <2>3. ASSUME NEW i \in DOMAIN r.bindings, NEW j \in DOMAIN r.bindings, i # j
        PROVE  r.bindings[j].native # r.bindings[i].native
    <3>1. ASSUME NEW k \in matched, NEW l \in DOMAIN s.bindings
          PROVE  b[l].native # b[k].native
      <4>1. mapped(s, s.bindings[l].native) /\ s.local[s.bindings[l].native].kind = "creature"
        BY <3>1 DEF mapped, Is
      <4> QED BY <1>4, <1>5, <3>1, <4>1
    <3>2. ASSUME NEW k \in matched, NEW l \in matched, k # l
          PROVE  b[l].native # b[k].native
      BY <1>2, <1>3, <1>4, <1>5, <3>2
    <3>3. ASSUME NEW k \in DOMAIN s.bindings, NEW l \in DOMAIN s.bindings, k # l
          PROVE  b[l].native # b[k].native
      BY <1>5, <3>3 DEF Matched, LiveOK
    <3> QED BY <1>5, <2>1, <2>3, <3>1, <3>2, <3>3
  <2>4. Matched(r, f)  BY <2>2, <2>3 DEF Matched, LiveOK
  <2> QED BY <2>1, <2>4 DEF r
<1> QED BY <1>1, <1>6, <1>7

LEMMA RemovedIs ==
  ASSUME NEW s \in Game, s.ok, NEW f \in Maps(Entity), Realized(s, f, MaxNum)
  PROVE  LET r == remove_unbound(s) IN
         /\ r \in Game
         /\ r.ok => /\ SameRest(s, r) /\ Realized(r, f, MaxNum)
                    /\ \A n \in DOMAIN r.local : r.local[n].kind # "fruit" =>
                         \E id \in DOMAIN r.bindings : r.bindings[id].native = n
<1> DEFINE r == remove_unbound(s)
<1>1. CASE s.avatar \in unbound(s)
  <2>1. r = failed(s, "avatar")  BY <1>1 DEF remove_unbound
  <2> QED BY <2>1, FailedIs DEF Reason
<1>2. CASE s.avatar \notin unbound(s)
  <2>1. r = destroyed(s, unbound(s))  BY <1>2 DEF remove_unbound
  <2>2. /\ r \in Game /\ SameRest(s, r) /\ DOMAIN r.local = DOMAIN s.local \ unbound(s)
        /\ \A n \in DOMAIN s.local \ unbound(s) : r.local[n] = s.local[n]
        /\ DOMAIN r.bindings = DOMAIN s.bindings
        /\ \A id \in DOMAIN s.bindings :
             /\ r.bindings[id].native = s.bindings[id].native
             /\ r.bindings[id].generation = s.bindings[id].generation
             /\ r.bindings[id].live <=> s.bindings[id].live /\ s.bindings[id].native \notin unbound(s)
    BY <2>1, DestroyedIs
  <2>3. LiveOK(r)  BY <2>1, DestroyedLive DEF Realized, Matched
  <2> HIDE DEF r
  <2>4. \A id \in DOMAIN s.bindings : s.bindings[id].native \notin unbound(s)
    BY DEF unbound, mapped
  <2>5. Matched(r, f)  BY <2>2, <2>3, <2>4 DEF Realized, Matched
  <2>6. ASSUME NEW id \in DOMAIN f, id <= MaxNum, id \in DOMAIN r.bindings
        PROVE  Shows(r, id, f[id])
    <3>1. Shows(s, id, f[id]) /\ id \in DOMAIN s.bindings  BY <2>2, <2>6 DEF Realized
    <3>2. s.bindings[id].native \in DOMAIN r.local  BY <2>2, <2>4, <3>1 DEF Shows, Is
    <3> QED BY <2>2, <3>1, <3>2 DEF Shows, Is
  <2>7. Realized(r, f, MaxNum)  BY <2>2, <2>5, <2>6 DEF Realized
  <2>8. ASSUME NEW n \in DOMAIN r.local, r.local[n].kind # "fruit"
        PROVE  \E id \in DOMAIN r.bindings : r.bindings[id].native = n
    <3>1. n \in DOMAIN s.local /\ n \notin unbound(s) /\ s.local[n].kind # "fruit"  BY <2>2, <2>8
    <3>2. mapped(s, n)  BY <3>1 DEF unbound
    <3> QED BY <2>2, <3>2 DEF mapped
  <2> QED BY <2>2, <2>7, <2>8 DEF r
<1> QED BY <1>1, <1>2

LEMMA RolledBackIs ==
  ASSUME NEW before \in Game, NEW s \in Game
  PROVE  rollback(before, s) \in Game /\ rollback(before, s).ok = s.ok
<1> DEFINE o == [s.owned EXCEPT !.admitted = FALSE, !.presentation = FALSE]
           back == [s EXCEPT !.avatar = before.avatar, !.owned.admitted = FALSE, !.owned.presentation = FALSE]
           kept == [before.owned EXCEPT !.admitted = FALSE]
           over == [o EXCEPT !.retired = TRUE]
<1>1. s.owned \in Owned /\ before.owned \in Owned /\ before.avatar \in 0..MaxNum  BY DEF Game
<1>2. o \in Owned /\ kept \in Owned /\ over \in Owned
  <2>1. o \in Owned /\ kept \in Owned  BY <1>1 DEF Owned
  <2> HIDE DEF o
  <2> QED BY <2>1 DEF Owned
<1>3. back = [s EXCEPT !.avatar = before.avatar, !.owned = o]
  BY <1>1 DEF Game, Owned
<1> HIDE DEF o
<1>4. back \in Game /\ back.owned = o /\ back.ok = s.ok
  <2> HIDE DEF back
  <2> QED BY <1>1, <1>2, <1>3 DEF Game
<1>5. \/ rollback(before, s) = [back EXCEPT !.owned = kept]
      \/ rollback(before, s) = [back EXCEPT !.owned.retired = TRUE]
  BY DEF rollback
<1> HIDE DEF back
<1>6. [back EXCEPT !.owned.retired = TRUE] = [back EXCEPT !.owned = over]
  BY <1>4 DEF Game
<1> HIDE DEF kept, over
<1>7. rollback(before, s) = [back EXCEPT !.owned = kept] \/ rollback(before, s) = [back EXCEPT !.owned = over]
  BY <1>5, <1>6
<1>8. CASE rollback(before, s) = [back EXCEPT !.owned = kept]
  BY <1>2, <1>4, <1>8 DEF Game
<1>9. CASE rollback(before, s) = [back EXCEPT !.owned = over]
  BY <1>2, <1>4, <1>9 DEF Game
<1> QED BY <1>7, <1>8, <1>9

LEMMA AcceptedIs ==
  ASSUME NEW s \in Game
  PROVE  LET r == accepted(s) IN
         /\ r \in Game /\ r.ok = s.ok /\ r.local = s.local /\ r.bindings = s.bindings /\ r.admitted
         /\ r.motion = s.motion /\ r.feed = s.feed /\ r.state = s.state
<1> DEFINE o == [s.owned EXCEPT !.admitted = TRUE, !.presentation = TRUE]
           r == accepted(s)
<1>1. s.owned \in Owned  BY DEF Game
<1>2. o \in Owned  BY <1>1 DEF Owned
<1>3. r = [s EXCEPT !.admitted = TRUE, !.owned = o, !.presented = TRUE]
  BY <1>1 DEF accepted, Game, Owned
<1> HIDE DEF o, r
<1>4. r \in Game /\ r.ok = s.ok /\ r.local = s.local /\ r.bindings = s.bindings /\ r.admitted
      /\ r.motion = s.motion /\ r.feed = s.feed /\ r.state = s.state
  BY <1>2, <1>3 DEF Game
<1> QED BY <1>4 DEF r

LEMMA ResetIs ==
  ASSUME NEW s \in Game
  PROVE  LET r == reset_native_scene_baseline(s) IN
         r \in Game /\ r.ok = s.ok /\ r.bindings = NoScene
<1> DEFINE o == [s.owned EXCEPT !.admitted = FALSE]
           r == reset_native_scene_baseline(s)
<1>1. s.owned \in Owned  BY DEF Game
<1>2. o \in Owned  BY <1>1 DEF Owned
<1>3. r = [s EXCEPT !.bindings = NoScene, !.admitted = FALSE, !.owned = o]
  BY <1>1 DEF reset_native_scene_baseline, Game, Owned
<1> HIDE DEF o, r
<1>4. r \in Game /\ r.ok = s.ok /\ r.bindings = NoScene
  BY <1>2, <1>3, NothingIs DEF Game
<1> QED BY <1>4 DEF r

\* A baseline that is accepted leaves exactly the scene, but fruit.
LEMMA BaselineIs ==
  ASSUME NEW s \in Game, NEW f, FrameOK(f), DOMAIN f # {}
  PROVE  LET r == apply_native_scene_baseline(s, f) IN
         /\ r \in Game
         /\ r.ok => /\ r.admitted /\ Realized(r, f, MaxNum)
                    /\ \A n \in DOMAIN r.local : r.local[n].kind # "fruit" =>
                         \E id \in DOMAIN r.bindings : r.bindings[id].native = n
<1> DEFINE bare == [s EXCEPT !.bindings = NoScene]
           prepared == prepare_owned(bare, f)
           matched == IF prepared.ok THEN match_unowned(prepared, f) ELSE prepared
           realized == IF matched.ok THEN realize(matched, f) ELSE matched
           done == IF realized.ok THEN remove_unbound(realized) ELSE realized
           base == baseline_callback(s, f)
           r == apply_native_scene_baseline(s, f)
<1>1. {First, Second} \subseteq DOMAIN f /\ f \in Maps(Entity)  BY DEF FrameOK
<1>2. base = IF done.ok THEN accepted(done) ELSE rollback(s, done)
  BY DEF baseline_callback
<1>3. bare \in Game /\ bare.bindings = NoScene  BY NothingIs DEF Game
<1> HIDE DEF bare
<1>4. /\ prepared \in Game
      /\ prepared.ok => /\ Matched(prepared, f) /\ DOMAIN prepared.bindings = {First, Second}
                        /\ \A id \in DOMAIN prepared.bindings : Is(prepared, prepared.bindings[id].native, "creature")
  BY <1>1, <1>3, PreparedIs
<1> HIDE DEF prepared
<1>5. matched \in Game /\ (matched.ok => Matched(matched, f))
  BY <1>1, <1>4, MatchedIs
<1> HIDE DEF matched
<1>6. realized \in Game /\ (realized.ok => Realized(realized, f, MaxNum))
  BY <1>1, <1>5, RealizeIs
<1> HIDE DEF realized
<1>7. /\ done \in Game
      /\ done.ok => /\ Realized(done, f, MaxNum)
                    /\ \A n \in DOMAIN done.local : done.local[n].kind # "fruit" =>
                         \E id \in DOMAIN done.bindings : done.bindings[id].native = n
  BY <1>1, <1>6, RemovedIs
<1> HIDE DEF done, base
<1>8. /\ base \in Game
      /\ base.ok => /\ base.admitted /\ Realized(base, f, MaxNum)
                    /\ \A n \in DOMAIN base.local : base.local[n].kind # "fruit" =>
                         \E id \in DOMAIN base.bindings : base.bindings[id].native = n
  <2>1. CASE done.ok
    <3>1. base = accepted(done)  BY <1>2, <2>1
    <3>2. base \in Game /\ base.local = done.local /\ base.bindings = done.bindings /\ base.admitted
      BY <1>7, <3>1, AcceptedIs
    <3>3. Realized(base, f, MaxNum)
      BY <1>7, <2>1, <3>2 DEF Realized, Matched, LiveOK, Shows, Is
    <3> QED BY <1>7, <2>1, <3>2, <3>3
  <2>2. CASE ~done.ok
    BY <1>2, <1>7, <2>2, RolledBackIs
  <2> QED BY <2>1, <2>2
<1>9. CASE ~foreign_owned_preflight(s)
  <2>1. r = failed(s, "preflight")  BY <1>9 DEF apply_native_scene_baseline
  <2> QED BY <2>1, FailedIs DEF Reason
<1>10. CASE foreign_owned_preflight(s)
  <2>1. r = IF base.ok THEN base ELSE reset_native_scene_baseline(base)
    BY <1>10 DEF apply_native_scene_baseline, base
  <2> HIDE DEF r
  <2>2. CASE base.ok  BY <1>8, <2>1, <2>2 DEF r
  <2>3. CASE ~base.ok
    <3>1. r \in Game /\ ~r.ok  BY <1>8, <2>1, <2>3, ResetIs
    <3> QED BY <3>1 DEF r
  <2> QED BY <2>2, <2>3
<1> QED BY <1>9, <1>10

-----------------------------------------------------------------------------
(* What the network does with them.                                          *)

LEMMA FollowsAlike ==
  ASSUME NEW s, NEW r, Follows(s), r.admitted,
         r.local = s.local, r.bindings = s.bindings, r.motion = s.motion
  PROVE  Follows(r)
<1>1. \A n \in DOMAIN r.local : r.local[n].kind # "fruit" =>
        \E id \in DOMAIN r.motion : Bound(r, id) /\ r.bindings[id].native = n
  BY DEF Follows, Bound
<1>2. ASSUME NEW id \in DOMAIN r.motion
      PROVE  /\ id \in DOMAIN r.bindings /\ r.bindings[id].generation = r.motion[id].generation
             /\ r.bindings[id].live => Shows(r, id, r.motion[id])
             /\ r.motion[id].noun.kind = "fossil" => r.bindings[id].live
  <2>1. /\ id \in DOMAIN s.bindings /\ s.bindings[id].generation = s.motion[id].generation
        /\ s.bindings[id].live => Shows(s, id, s.motion[id])
        /\ s.motion[id].noun.kind = "fossil" => s.bindings[id].live
    BY DEF Follows
  <2> QED BY <2>1 DEF Shows, Is
<1> QED BY <1>1, <1>2 DEF Follows

\* What Outcome leaves: the operation's result, or nothing of the scene.
LEMMA OutcomeIs ==
  ASSUME NEW s \in Game, s.ok => Fit(s),
         NEW r, r = [(IF s.ok THEN s ELSE quarantine(s)) EXCEPT !.ok = TRUE]
  PROVE  Fit(r) /\ r.ok
<1>1. CASE s.ok
  <2>1. r \in Game /\ r.ok  BY <1>1 DEF Game
  <2>2. /\ r.local = s.local /\ r.bindings = s.bindings /\ r.motion = s.motion /\ r.state = s.state
        /\ r.admitted = s.admitted
    BY <1>1 DEF Game
  <2>3. LiveOK(r)  BY <1>1, <2>2 DEF Fit, LiveOK
  <2>4. ASSUME r.state = "ready" PROVE Follows(r)
    <3>1. Follows(s)  BY <1>1, <2>2, <2>4 DEF Fit
    <3>2. r.admitted  BY <2>2, <3>1 DEF Follows
    <3> QED BY <2>2, <3>1, <3>2, FollowsAlike
  <2> QED BY <2>1, <2>3, <2>4 DEF Fit
<1>2. CASE ~s.ok
  <2> DEFINE reset == reset_native_scene_baseline(s)
  <2>1. reset \in Game /\ reset.bindings = NoScene  BY ResetIs
  <2>2. r = [[reset EXCEPT !.state = "failed", !.motion = NoScene, !.feed = NoScene] EXCEPT !.ok = TRUE]
    BY <1>2 DEF quarantine
  <2> HIDE DEF reset
  <2>3. r \in Game /\ r.ok /\ r.bindings = NoScene /\ r.state = "failed"
    BY <2>1, <2>2, NothingIs DEF Game
  <2>4. LiveOK(r)  BY <2>3, NothingIs DEF LiveOK
  <2> QED BY <2>3, <2>4 DEF Fit
<1> QED BY <1>1, <1>2

LEMMA BaselineStep ==
  ASSUME NEW s \in Game, NEW f, FrameOK(f), DOMAIN f # {},
         NEW t, t = apply_native_scene_baseline(s, f), t.ok
  PROVE  Fit(forget_unmirrored([t EXCEPT !.state = "ready", !.feed = f, !.motion = f]))
<1> DEFINE u == [t EXCEPT !.state = "ready", !.feed = f, !.motion = f]
           kept == Restrict(f, {id \in DOMAIN f : Bound(u, id)})
           r == forget_unmirrored(u)
<1>1. /\ t \in Game /\ t.admitted /\ Realized(t, f, MaxNum)
      /\ \A n \in DOMAIN t.local : t.local[n].kind # "fruit" =>
           \E id \in DOMAIN t.bindings : t.bindings[id].native = n
  BY BaselineIs
<1>2. f \in Maps(Entity) /\ \A id \in DOMAIN f : id <= MaxNum
  BY MapsOf, ProjectionAssumption DEF FrameOK, Num
<1>3. /\ u \in Game /\ u.motion = f /\ u.bindings = t.bindings /\ u.local = t.local /\ u.admitted
      /\ u.feed = f /\ u.state = "ready"
  BY <1>1, <1>2 DEF Game
<1> HIDE DEF u
<1>4. /\ kept \in Maps(Entity) /\ DOMAIN kept = {id \in DOMAIN f : Bound(u, id)}
      /\ \A id \in DOMAIN kept : kept[id] = f[id]
  <2>1. DOMAIN kept = {id \in DOMAIN f : Bound(u, id)} /\ \A id \in DOMAIN kept : kept[id] = f[id]
    BY DEF Restrict
  <2>2. DOMAIN f \subseteq Num /\ \A id \in DOMAIN f : f[id] \in Entity  BY <1>2, MapsOf
  <2>3. kept \in [DOMAIN kept -> Entity]  BY <2>1, <2>2 DEF Restrict
  <2> HIDE DEF kept
  <2>4. DOMAIN kept \subseteq Num  BY <2>1, <2>2
  <2> QED BY <2>1, <2>3, <2>4, MapsOf
<1>5. r = [u EXCEPT !.motion = kept]
  BY <1>3 DEF forget_unmirrored
<1> HIDE DEF kept, r
<1>6. /\ r \in Game /\ r.motion = kept /\ r.bindings = t.bindings /\ r.local = t.local /\ r.admitted
  BY <1>3, <1>4, <1>5 DEF Game
<1>7. LiveOK(r)  BY <1>1, <1>6 DEF Realized, Matched, LiveOK
<1>8. \A id \in DOMAIN r.bindings : id \in DOMAIN r.motion /\ r.bindings[id].live
  BY <1>1, <1>3, <1>4, <1>6 DEF Realized, Matched, Bound
<1>9. ASSUME NEW n \in DOMAIN r.local, r.local[n].kind # "fruit"
      PROVE  \E id \in DOMAIN r.motion : Bound(r, id) /\ r.bindings[id].native = n
  <2>1. PICK id \in DOMAIN r.bindings : r.bindings[id].native = n  BY <1>1, <1>6, <1>9
  <2> QED BY <1>8, <2>1 DEF Bound
<1>10. ASSUME NEW id \in DOMAIN r.motion
       PROVE  /\ id \in DOMAIN r.bindings /\ r.bindings[id].generation = r.motion[id].generation
              /\ r.bindings[id].live /\ Shows(r, id, r.motion[id])
  <2>1. id \in DOMAIN f /\ id \in DOMAIN t.bindings /\ r.motion[id] = f[id] /\ id <= MaxNum
    BY <1>2, <1>3, <1>4, <1>6, <1>10 DEF Bound
  <2>2. t.bindings[id].generation = f[id].generation /\ t.bindings[id].live /\ Shows(t, id, f[id])
    BY <1>1, <2>1 DEF Realized, Matched
  <2> QED BY <1>6, <2>1, <2>2 DEF Shows, Is
<1>11. Follows(r)  BY <1>6, <1>9, <1>10 DEF Follows
<1>12. Fit(r)  BY <1>6, <1>7, <1>11 DEF Fit
<1> QED BY <1>12 DEF r, u

\* What a game followed before, it follows when it hears of more.
LEMMA ToldIs ==
  ASSUME NEW s \in Game, NEW f \in Maps(Entity)
  PROVE  LET r == [s EXCEPT !.feed = f] IN
         /\ r \in Game /\ r.ok = s.ok /\ r.local = s.local /\ r.bindings = s.bindings /\ r.motion = s.motion
         /\ r.admitted = s.admitted /\ r.state = s.state /\ r.avatar = s.avatar
  BY DEF Game

\* Nothing but what is followed is changed.
LEMMA MotionIs ==
  ASSUME NEW s \in Game, NEW m \in Maps(Entity)
  PROVE  LET r == [s EXCEPT !.motion = m] IN
         /\ r \in Game /\ r.ok = s.ok /\ r.local = s.local /\ r.bindings = s.bindings /\ r.motion = m
         /\ r.admitted = s.admitted /\ r.state = s.state /\ r.avatar = s.avatar
  BY DEF Game

\* The noun of a retired entity is gone, and that of no other.
LEMMA DespawnIs ==
  ASSUME NEW s \in Game, LiveOK(s), NEW id, NEW generation
  PROVE  LET r == despawn_native_scene_entity(s, id, generation) IN
         /\ r \in Game
         /\ r.ok => /\ id \in DOMAIN s.bindings /\ SameRest(s, r)
                    /\ DOMAIN r.local = DOMAIN s.local \ {s.bindings[id].native}
                    /\ \A n \in DOMAIN r.local : r.local[n] = s.local[n]
                    /\ DOMAIN r.bindings = DOMAIN s.bindings
                    /\ \A other \in DOMAIN s.bindings \ {id} :
                         /\ r.bindings[other].native = s.bindings[other].native
                         /\ r.bindings[other].generation = s.bindings[other].generation
                         /\ r.bindings[other].live <=> s.bindings[other].live
                    /\ ~r.bindings[id].live /\ LiveOK(r)
<1> DEFINE n == s.bindings[id].native
           retired == [s EXCEPT !.bindings[id].live = FALSE]
           r == despawn_native_scene_entity(s, id, generation)
<1>1. \/ r = failed(s, "stale") \/ r = failed(s, "native")
      \/ id \in DOMAIN s.bindings /\ s.bindings[id].live /\ r = destroyed(retired, {n})
  BY LocalIs DEF despawn_native_scene_entity, Binding
<1>2. CASE r = failed(s, "stale") \/ r = failed(s, "native")
  <2>1. r \in Game /\ ~r.ok  BY <1>2, FailedIs DEF Reason
  <2> QED BY <2>1
<1>3. CASE id \in DOMAIN s.bindings /\ s.bindings[id].live /\ r = destroyed(retired, {n})
  <2> DEFINE b == [s.bindings EXCEPT ![id] = [s.bindings[id] EXCEPT !.live = FALSE]]
  <2>1. s.bindings \in Maps(Binding) /\ s.bindings[id] \in Binding  BY <1>3, LocalIs DEF Game
  <2>2. DOMAIN s.bindings \subseteq Num /\ s.bindings \in [DOMAIN s.bindings -> Binding]  BY <2>1, MapsOf
  <2>3. /\ DOMAIN b = DOMAIN s.bindings /\ b \in Maps(Binding) /\ ~b[id].live /\ b[id].native = n
        /\ \A other \in DOMAIN s.bindings \ {id} : b[other] = s.bindings[other]
    <3>1. [s.bindings[id] EXCEPT !.live = FALSE] \in Binding  BY <2>1 DEF Binding
    <3>2. DOMAIN b = DOMAIN s.bindings /\ b \in [DOMAIN b -> Binding]  BY <2>2, <3>1
    <3>3. b[id] = [s.bindings[id] EXCEPT !.live = FALSE]  BY <1>3
    <3>4. ~b[id].live /\ b[id].native = n  BY <2>1, <3>3 DEF Binding
    <3>5. \A other \in DOMAIN s.bindings \ {id} : b[other] = s.bindings[other]  OBVIOUS
    <3> HIDE DEF b
    <3>6. b \in Maps(Binding)  BY <2>2, <3>2, MapsOf
    <3> QED BY <3>2, <3>4, <3>5, <3>6
  <2>4. retired = [s EXCEPT !.bindings = b]  BY <1>3, <2>1 DEF Game, Binding
  <2> HIDE DEF b
  <2>5. retired \in Game /\ retired.bindings = b /\ retired.local = s.local /\ SameRest(s, retired)
    <3> HIDE DEF retired
    <3> QED BY <2>3, <2>4 DEF Game, SameRest
  <2> HIDE DEF retired
  <2>6. LiveOK(retired)  BY <2>3, <2>5 DEF LiveOK
  <2>7. /\ r \in Game /\ SameRest(retired, r) /\ DOMAIN r.local = DOMAIN s.local \ {n}
        /\ \A m \in DOMAIN s.local \ {n} : r.local[m] = s.local[m]
        /\ DOMAIN r.bindings = DOMAIN s.bindings
        /\ \A other \in DOMAIN s.bindings :
             /\ r.bindings[other].native = b[other].native
             /\ r.bindings[other].generation = b[other].generation
             /\ r.bindings[other].live <=> b[other].live /\ b[other].native \notin {n}
    <3>1. /\ r \in Game /\ SameRest(retired, r) /\ DOMAIN r.local = DOMAIN retired.local \ {n}
          /\ \A m \in DOMAIN retired.local \ {n} : r.local[m] = retired.local[m]
          /\ DOMAIN r.bindings = DOMAIN retired.bindings
          /\ \A other \in DOMAIN retired.bindings :
               /\ r.bindings[other].native = retired.bindings[other].native
               /\ r.bindings[other].generation = retired.bindings[other].generation
               /\ r.bindings[other].live <=> retired.bindings[other].live /\ retired.bindings[other].native \notin {n}
      BY <1>3, <2>5, DestroyedIs
    <3> HIDE DEF r, n
    <3> QED BY <2>3, <2>5, <3>1
  <2>8. LiveOK(r)  BY <1>3, <2>5, <2>6, DestroyedLive
  <2> HIDE DEF r
  <2>9. \A other \in DOMAIN s.bindings \ {id} : b[other].live => b[other].native # n
    BY <1>3, <2>3 DEF LiveOK
  <2>10. SameRest(s, r)  BY <2>5, <2>7 DEF SameRest
  <2> QED BY <1>3, <2>3, <2>7, <2>8, <2>9, <2>10 DEF r
<1> QED BY <1>1, <1>2, <1>3

LEMMA DespawnStep ==
  ASSUME NEW s \in Game, Fit(s), s.state = "ready", NEW id, NEW generation,
         NEW t, t = despawn_native_scene_entity(s, id, generation)
  PROVE  LET r == [t EXCEPT !.motion = Drop(t.motion, {id})] IN
         r \in Game /\ r.ok = t.ok /\ (r.ok => Fit(r))
<1> DEFINE m == Drop(t.motion, {id})
           r == [t EXCEPT !.motion = m]
<1>1. /\ t \in Game
      /\ t.ok => /\ id \in DOMAIN s.bindings /\ SameRest(s, t)
                 /\ DOMAIN t.local = DOMAIN s.local \ {s.bindings[id].native}
                 /\ \A n \in DOMAIN t.local : t.local[n] = s.local[n]
                 /\ DOMAIN t.bindings = DOMAIN s.bindings
                 /\ \A other \in DOMAIN s.bindings \ {id} :
                      /\ t.bindings[other].native = s.bindings[other].native
                      /\ t.bindings[other].generation = s.bindings[other].generation
                      /\ t.bindings[other].live <=> s.bindings[other].live
                 /\ ~t.bindings[id].live /\ LiveOK(t)
  <2>1. LiveOK(s)  BY DEF Fit
  <2> QED BY <2>1, DespawnIs
<1>2. /\ m \in Maps(Entity) /\ DOMAIN m = DOMAIN t.motion \ {id}
      /\ \A other \in DOMAIN m : m[other] = t.motion[other]
  <2>1. t.motion \in Maps(Entity)  BY <1>1 DEF Game
  <2>2. m \in Maps(Entity)  BY <2>1, DropIs
  <2> QED BY <2>2 DEF Drop, Restrict
<1> HIDE DEF m
<1>3. /\ r \in Game /\ r.ok = t.ok /\ r.local = t.local /\ r.bindings = t.bindings /\ r.motion = m
      /\ r.admitted = t.admitted /\ r.state = t.state
  BY <1>1, <1>2, MotionIs
<1> HIDE DEF r
<1>4. ASSUME r.ok PROVE Fit(r)
  <2>1. Follows(s) /\ LiveOK(s)  BY DEF Fit
  <2>2. /\ SameRest(s, t) /\ LiveOK(t) /\ id \in DOMAIN s.bindings
        /\ DOMAIN t.local = DOMAIN s.local \ {s.bindings[id].native}
        /\ \A n \in DOMAIN t.local : t.local[n] = s.local[n]
        /\ DOMAIN t.bindings = DOMAIN s.bindings
        /\ \A other \in DOMAIN s.bindings \ {id} :
             /\ t.bindings[other].native = s.bindings[other].native
             /\ t.bindings[other].generation = s.bindings[other].generation
             /\ t.bindings[other].live <=> s.bindings[other].live
    BY <1>1, <1>3, <1>4
  <2>3. r.admitted /\ DOMAIN m = DOMAIN s.motion \ {id} /\ \A other \in DOMAIN m : m[other] = s.motion[other]
    BY <1>2, <1>3, <2>1, <2>2 DEF SameRest, Follows
  <2>4. ASSUME NEW n \in DOMAIN r.local, r.local[n].kind # "fruit"
        PROVE  \E other \in DOMAIN r.motion : Bound(r, other) /\ r.bindings[other].native = n
    <3>1. n \in DOMAIN s.local /\ s.local[n].kind # "fruit" /\ n # s.bindings[id].native
      BY <1>3, <2>2, <2>4
    <3>2. PICK other \in DOMAIN s.motion : Bound(s, other) /\ s.bindings[other].native = n
      BY <2>1, <3>1 DEF Follows
    <3>3. other # id  BY <3>1, <3>2
    <3> QED BY <1>3, <2>2, <2>3, <3>2, <3>3 DEF Bound
  <2>5. ASSUME NEW other \in DOMAIN r.motion
        PROVE  /\ other \in DOMAIN r.bindings /\ r.bindings[other].generation = r.motion[other].generation
               /\ r.bindings[other].live => Shows(r, other, r.motion[other])
               /\ r.motion[other].noun.kind = "fossil" => r.bindings[other].live
    <3>1. other \in DOMAIN s.motion /\ other # id /\ r.motion[other] = s.motion[other]
      BY <1>3, <2>3, <2>5
    <3>2. /\ other \in DOMAIN s.bindings /\ s.bindings[other].generation = s.motion[other].generation
          /\ s.bindings[other].live => Shows(s, other, s.motion[other])
          /\ s.motion[other].noun.kind = "fossil" => s.bindings[other].live
      BY <2>1, <3>1 DEF Follows
    <3>3. r.bindings[other].live <=> s.bindings[other].live  BY <1>3, <2>2, <3>1, <3>2
    <3>4. ASSUME r.bindings[other].live PROVE Shows(r, other, r.motion[other])
      <4>1. Shows(s, other, s.motion[other]) /\ r.bindings[other].native = s.bindings[other].native
        BY <1>3, <2>2, <3>1, <3>2, <3>3, <3>4
      <4>2. r.bindings[other].native \in DOMAIN r.local
        BY <1>3, <2>2, <3>1, <3>2, <3>4 DEF LiveOK
      <4> QED BY <1>3, <2>2, <3>1, <4>1, <4>2 DEF Shows, Is
    <3> QED BY <1>3, <2>2, <3>1, <3>2, <3>3, <3>4
  <2>6. Follows(r)  BY <2>3, <2>4, <2>5 DEF Follows
  <2>7. LiveOK(r)  BY <1>3, <2>2 DEF LiveOK
  <2> QED BY <1>3, <2>6, <2>7 DEF Fit
<1> QED BY <1>3, <1>4 DEF r, m

\* A new entity has a noun, and what was followed before still has its own.
LEMMA EntityStep ==
  ASSUME NEW s \in Game, Fit(s), s.state = "ready", NEW id \in Num, NEW e \in Entity,
         NEW t, t = spawn_native_scene_entity(s, id, e)
  PROVE  LET r == [t EXCEPT !.motion = Put(t.motion, id, e)] IN
         r \in Game /\ r.ok = t.ok /\ (r.ok => Fit(r))
<1> DEFINE m == Put(t.motion, id, e)
           r == [t EXCEPT !.motion = m]
<1>1. LiveOK(s) /\ Follows(s)  BY DEF Fit
<1>2. t \in Game /\ (t.ok => ~Bound(s, id) /\ Spawned(s, t, id, e))
  <2>1. \/ t \in {failed(s, "invalid"), failed(s, "stale"), failed(s, "missing_template")}
        \/ ~Bound(s, id) /\ t = spawn_entity(s, id, e)
    BY DEF spawn_native_scene_entity, Bound
  <2>2. CASE t \in {failed(s, "invalid"), failed(s, "stale"), failed(s, "missing_template")}
    BY <2>2, FailedIs DEF Reason
  <2>3. CASE ~Bound(s, id) /\ t = spawn_entity(s, id, e)
    BY <1>1, <2>3, SpawnIs
  <2> QED BY <2>1, <2>2, <2>3
<1>3. /\ m \in Maps(Entity) /\ DOMAIN m = DOMAIN t.motion \cup {id} /\ m[id] = e
      /\ \A other \in DOMAIN t.motion \ {id} : m[other] = t.motion[other]
  <2>1. t.motion \in Maps(Entity)  BY <1>2 DEF Game
  <2>2. m \in Maps(Entity)  BY <2>1, PutIs
  <2> QED BY <2>2 DEF Put
<1> HIDE DEF m
<1>4. /\ r \in Game /\ r.ok = t.ok /\ r.local = t.local /\ r.bindings = t.bindings /\ r.motion = m
      /\ r.admitted = t.admitted /\ r.state = t.state
  BY <1>2, <1>3, MotionIs
<1> HIDE DEF r
<1>5. ASSUME r.ok PROVE Fit(r)
  <2>1. ~Bound(s, id) /\ Spawned(s, t, id, e)  BY <1>2, <1>4, <1>5
  <2>2. SameRest(s, t) /\ LiveOK(t)  BY <2>1 DEF Spawned
  <2>3. r.admitted /\ DOMAIN m = DOMAIN s.motion \cup {id}  BY <1>1, <1>3, <1>4, <2>2 DEF SameRest, Follows
  <2>4. ASSUME NEW n \in DOMAIN r.local, r.local[n].kind # "fruit"
        PROVE  \E other \in DOMAIN r.motion : Bound(r, other) /\ r.bindings[other].native = n
    <3>1. CASE n = t.bindings[id].native
      BY <1>3, <1>4, <2>1, <3>1 DEF Spawned, Bound
    <3>2. CASE n # t.bindings[id].native
      <4>1. n \in DOMAIN s.local /\ s.local[n].kind # "fruit"
        BY <1>4, <2>1, <2>4, <3>2 DEF Spawned
      <4>2. PICK other \in DOMAIN s.motion : Bound(s, other) /\ s.bindings[other].native = n
        BY <1>1, <4>1 DEF Follows
      <4>3. other # id  BY <2>1, <4>2
      <4> QED BY <1>4, <2>1, <2>3, <4>2, <4>3 DEF Spawned, Bound
    <3> QED BY <3>1, <3>2
  <2>5. ASSUME NEW other \in DOMAIN r.motion
        PROVE  /\ other \in DOMAIN r.bindings /\ r.bindings[other].generation = r.motion[other].generation
               /\ r.bindings[other].live => Shows(r, other, r.motion[other])
               /\ r.motion[other].noun.kind = "fossil" => r.bindings[other].live
    <3>1. CASE other = id
      <4>1. /\ id \in DOMAIN t.bindings /\ t.bindings[id].generation = e.generation /\ t.bindings[id].live
            /\ Shows(t, id, e)
        BY <2>1 DEF Spawned
      <4> QED BY <1>3, <1>4, <3>1, <4>1 DEF Shows, Is
    <3>2. CASE other # id
      <4>1. other \in DOMAIN s.motion /\ r.motion[other] = s.motion[other]
        BY <1>3, <1>4, <2>2, <2>3, <2>5, <3>2 DEF SameRest
      <4>2. /\ other \in DOMAIN s.bindings /\ s.bindings[other].generation = s.motion[other].generation
            /\ s.bindings[other].live => Shows(s, other, s.motion[other])
            /\ s.motion[other].noun.kind = "fossil" => s.bindings[other].live
        BY <1>1, <4>1 DEF Follows
      <4>3. /\ r.bindings[other] = s.bindings[other] /\ other \in DOMAIN r.bindings
            /\ DOMAIN s.local \subseteq DOMAIN r.local
            /\ \A n \in DOMAIN s.local :
                 r.local[n].kind = s.local[n].kind /\ r.local[n].species = s.local[n].species
        BY <1>4, <2>1, <3>2, <4>2 DEF Spawned
      <4>4. ASSUME s.bindings[other].live PROVE Shows(r, other, s.motion[other])
        BY <4>2, <4>3, <4>4, ShownStillIs
      <4> QED BY <4>1, <4>2, <4>3, <4>4
    <3> QED BY <3>1, <3>2
  <2>6. Follows(r)  BY <2>3, <2>4, <2>5 DEF Follows
  <2>7. LiveOK(r)  BY <1>4, <2>2 DEF LiveOK
  <2> QED BY <1>4, <2>6, <2>7 DEF Fit
<1> QED BY <1>4, <1>5 DEF r, m

\* Newer samples of what is followed, all carried out.
LEMMA ProjectStep ==
  ASSUME NEW s \in Game, Fit(s), s.state = "ready", NEW m \in Maps(Entity), DOMAIN m = DOMAIN s.motion,
         \A id \in DOMAIN m : m[id].generation = s.motion[id].generation,
         NEW u, u = [s EXCEPT !.motion = m]
  PROVE  LET r == projecting(u)[MaxNum] IN
         r \in Game /\ (r.ok => Fit(r))
<1> DEFINE r == projecting(u)[MaxNum]
<1>1. LiveOK(s) /\ Follows(s)  BY DEF Fit
<1>2. /\ u \in Game /\ u.local = s.local /\ u.bindings = s.bindings /\ u.motion = m
      /\ u.admitted = s.admitted /\ u.state = s.state
  BY MotionIs
<1>3. /\ r \in Game
      /\ r.ok => /\ SameNouns(u, r)
                 /\ \A id \in DOMAIN u.motion :
                      id \in DOMAIN u.bindings /\ u.bindings[id].live /\ Shows(r, id, u.motion[id])
  BY <1>2, ProjectingIs
<1> HIDE DEF r
<1>4. ASSUME r.ok PROVE Fit(r)
  <2>1. /\ SameRest(u, r) /\ r.bindings = s.bindings /\ DOMAIN r.local = DOMAIN s.local /\ r.motion = m
        /\ \A n \in DOMAIN s.local : r.local[n].kind = s.local[n].kind
        /\ \A id \in DOMAIN m : id \in DOMAIN s.bindings /\ s.bindings[id].live /\ Shows(r, id, m[id])
    BY <1>2, <1>3, <1>4 DEF SameNouns, SameRest
  <2>2. r.admitted  BY <1>1, <1>2, <2>1 DEF SameRest, Follows
  <2>3. LiveOK(r)  BY <1>1, <2>1 DEF LiveOK
  <2>4. ASSUME NEW n \in DOMAIN r.local, r.local[n].kind # "fruit"
        PROVE  \E id \in DOMAIN r.motion : Bound(r, id) /\ r.bindings[id].native = n
    <3>1. n \in DOMAIN s.local /\ s.local[n].kind # "fruit"  BY <2>1, <2>4
    <3>2. PICK id \in DOMAIN s.motion : Bound(s, id) /\ s.bindings[id].native = n
      BY <1>1, <3>1 DEF Follows
    <3> QED BY <2>1, <3>2 DEF Bound
  <2>5. ASSUME NEW id \in DOMAIN r.motion
        PROVE  /\ id \in DOMAIN r.bindings /\ r.bindings[id].generation = r.motion[id].generation
               /\ r.bindings[id].live /\ Shows(r, id, r.motion[id])
    BY <1>1, <2>1 DEF Follows
  <2>6. Follows(r)  BY <2>2, <2>4, <2>5 DEF Follows
  <2> QED BY <1>3, <2>3, <2>6 DEF Fit
<1> QED BY <1>3, <1>4 DEF r

\* The game takes a noun away, but no fossil of the scene.
LEMMA RetireStep ==
  ASSUME NEW s \in Game, Fit(s), NEW n, n \in DOMAIN s.local,
         ~(s.admitted /\ \E id \in DOMAIN s.bindings :
             s.bindings[id].live /\ s.bindings[id].native = n /\ Is(s, n, "fossil"))
  PROVE  Fit(destroyed(s, {n})) /\ destroyed(s, {n}).ok = s.ok
<1> DEFINE r == destroyed(s, {n})
<1>1. r \in Game /\ r.ok = s.ok /\ SameRest(s, r)  BY DestroyedIs
<1>2. LiveOK(r)  BY DestroyedLive DEF Fit
<1>3. ASSUME r.state = "ready" PROVE Follows(r)
  <2>1. Follows(s) /\ LiveOK(s)  BY <1>1, <1>3 DEF SameRest, Fit
  <2>2. ASSUME NEW id \in DOMAIN s.motion, s.motion[id].noun.kind = "fossil", s.bindings[id].native = n
        PROVE  FALSE
    <3>1. id \in DOMAIN s.bindings /\ s.bindings[id].live /\ Shows(s, id, s.motion[id]) /\ s.admitted
      BY <2>1, <2>2 DEF Follows
    <3>2. Is(s, n, "fossil")  BY <2>2, <3>1 DEF Shows
    <3> QED BY <2>2, <3>1, <3>2
  <2> QED BY <2>1, <2>2, DestroyedFollows
<1> QED BY <1>1, <1>2, <1>3 DEF Fit

-----------------------------------------------------------------------------
(* The authority's captures.                                                 *)

LEMMA CountIs ==
  ASSUME NEW S, S \subseteq Num
  PROVE  Cardinality(S) \in Nat
<1>1. IsFiniteSet(1..MaxNum)  BY FS_Interval, ProjectionAssumption
<1>2. IsFiniteSet(S)  BY <1>1, FS_Subset DEF Num
<1> QED BY <1>2, FS_CardinalityType

\* What is remembered of a noun that is captured again is kept.
LEMMA ClaimIs ==
  ASSUME AuthorityOK, NEW S, S \subseteq DOMAIN nouns
  PROVE  /\ DOMAIN claim_seen(S) = S /\ claim_seen(S) \in Maps(Nat \ {0})
         /\ \A n \in S : n \in DOMAIN observed => claim_seen(S)[n] = observed[n]
         /\ Minted(S) \in Nat
<1>1. S \subseteq Num /\ minted \in Nat  BY MapsOf DEF AuthorityOK
<1>2. \A n \in DOMAIN observed : observed[n] \in Nat \ {0}  BY MapsOf DEF AuthorityOK
<1>3. \A n \in S : claim_seen(S)[n] \in Nat \ {0}
  <2> SUFFICES ASSUME NEW n \in S PROVE claim_seen(S)[n] \in Nat \ {0}  OBVIOUS
  <2> DEFINE T == {m \in S \ DOMAIN observed : Before(m, n)}
  <2>1. Cardinality(T) \in Nat  BY <1>1, CountIs
  <2>2. claim_seen(S)[n] = IF n \in DOMAIN observed THEN observed[n] ELSE minted + 1 + Cardinality(T)
    BY DEF claim_seen
  <2> HIDE DEF T
  <2> QED BY <1>1, <1>2, <2>1, <2>2
<1>4. DOMAIN claim_seen(S) = S  BY DEF claim_seen
<1>5. claim_seen(S) = [n \in S |-> claim_seen(S)[n]]  BY DEF claim_seen
<1>6. claim_seen(S) \in Maps(Nat \ {0})  BY <1>1, <1>3, <1>4, <1>5, MapsOf
<1>7. \A n \in S : n \in DOMAIN observed => claim_seen(S)[n] = observed[n]  BY DEF claim_seen
<1>8. Minted(S) \in Nat
  <2>1. Cardinality(S \ DOMAIN observed) \in Nat  BY <1>1, CountIs
  <2> QED BY <1>1, <2>1 DEF Minted
<1> QED BY <1>4, <1>6, <1>7, <1>8

LEMMA CaptureKeeps ==
  ASSUME AuthorityOK, capture_native_scene
  PROVE  AuthorityOK' /\ FrameOK(published)'
<1> DEFINE claims == claim_seen(DOMAIN nouns)
<1>1. /\ DOMAIN claims = DOMAIN nouns /\ claims \in Maps(Nat \ {0})
      /\ \A n \in DOMAIN nouns : n \in DOMAIN observed => claims[n] = observed[n]
      /\ Minted(DOMAIN nouns) \in Nat
  BY ClaimIs
<1>2. /\ {First, Second} \subseteq DOMAIN nouns /\ observed' = claims /\ minted' = Minted(DOMAIN nouns)
      /\ incarnation' = FirstCaptured(claims) /\ nouns' = nouns
      /\ published' = [n \in DOMAIN nouns |-> entity_of(n, claims[n])]
  BY DEF capture_native_scene
<1> HIDE DEF claims
<1>3. \A n \in DOMAIN nouns : claims[n] \in Nat \ {0}  BY <1>1, MapsOf
<1>4. AuthorityOK'
  <2>1. /\ DOMAIN incarnation = DOMAIN nouns /\ nouns \in Maps(NativeNoun) /\ NestsApart(nouns)
        /\ \A n \in DOMAIN nouns : incarnation[n] = IF n \in DOMAIN observed THEN observed[n] ELSE 0
        /\ \A n \in DOMAIN observed : observed[n] \in Nat \ {0}
    BY MapsOf DEF AuthorityOK
  <2>2. DOMAIN incarnation' = DOMAIN nouns /\ \A n \in DOMAIN nouns : incarnation'[n] = claims[n]
    BY <1>1, <1>2, <2>1 DEF FirstCaptured
  <2> QED BY <1>1, <1>2, <2>1, <2>2 DEF AuthorityOK
<1>5. FrameOK(published)'
  <2>1. DOMAIN nouns \subseteq Num /\ \A n \in DOMAIN nouns : nouns[n] \in NativeNoun
    BY MapsOf DEF AuthorityOK
  <2>2. /\ DOMAIN published' = DOMAIN nouns
        /\ \A n \in DOMAIN nouns : published'[n].noun = nouns[n] /\ published'[n].owner = owner_of(n)
        /\ \A n \in DOMAIN nouns : published'[n] \in Entity
    BY <1>2, <1>3, <2>1 DEF entity_of, owner_of, Entity
  <2>3. published' \in [DOMAIN published' -> Entity]  BY <1>2, <2>2
  <2>4. published' \in Maps(Entity)  BY <2>1, <2>2, <2>3, MapsOf
  <2>5. NestsApart([n \in DOMAIN published' |-> published'[n].noun])
    BY <2>2 DEF NestsApart, AuthorityOK
  <2>6. \A n \in DOMAIN published' : published'[n].owner = owner_of(n)  BY <2>2
  <2>7. FrameOK(published')  BY <1>2, <2>2, <2>4, <2>5, <2>6 DEF FrameOK
  <2> QED BY <2>7
<1> QED BY <1>4, <1>5

LEMMA FailedCaptureKeeps ==
  ASSUME AuthorityOK, NEW n \in Num, capture_fails(n)
  PROVE  AuthorityOK'
<1> DEFINE upto == {m \in DOMAIN nouns : Rank(m) = 0 /\ m <= n}
           claims == claim_seen(upto)
<1>1. upto \subseteq DOMAIN nouns  OBVIOUS
<1>2. /\ observed' = [m \in upto \cup DOMAIN observed |-> IF m \in upto THEN claims[m] ELSE observed[m]]
      /\ minted' = Minted(upto) /\ incarnation' = FirstCaptured(claims) /\ nouns' = nouns
  BY DEF capture_fails
<1> HIDE DEF upto
<1>3. /\ DOMAIN claims = upto /\ claims \in Maps(Nat \ {0}) /\ Minted(upto) \in Nat
      /\ \A m \in upto : m \in DOMAIN observed => claims[m] = observed[m]
  BY <1>1, ClaimIs
<1> HIDE DEF claims
<1>4. /\ DOMAIN incarnation = DOMAIN nouns /\ nouns \in Maps(NativeNoun) /\ NestsApart(nouns)
      /\ \A m \in DOMAIN nouns : incarnation[m] = IF m \in DOMAIN observed THEN observed[m] ELSE 0
      /\ \A m \in DOMAIN observed : observed[m] \in Nat \ {0}
      /\ DOMAIN observed \subseteq DOMAIN nouns /\ DOMAIN nouns \subseteq Num
  BY MapsOf DEF AuthorityOK
<1>5. \A m \in upto : claims[m] \in Nat \ {0}  BY <1>3, MapsOf
<1>6. observed' \in Maps(Nat \ {0})
  <2>1. DOMAIN observed' = upto \cup DOMAIN observed /\ observed' \in [DOMAIN observed' -> Nat \ {0}]  BY <1>2, <1>4, <1>5
  <2> QED BY <1>1, <1>4, <2>1, MapsOf
<1>7. /\ DOMAIN incarnation' = DOMAIN nouns
      /\ \A m \in DOMAIN nouns : incarnation'[m] = IF m \in DOMAIN observed' THEN observed'[m] ELSE 0
  BY <1>1, <1>2, <1>3, <1>4 DEF FirstCaptured
<1> QED BY <1>1, <1>2, <1>3, <1>4, <1>6, <1>7 DEF AuthorityOK

LEMMA WorldKeeps ==
  ASSUME AuthorityOK, WorldChanges
  PROVE  AuthorityOK'
<1>1. /\ DOMAIN incarnation = DOMAIN nouns /\ nouns \in Maps(NativeNoun) /\ NestsApart(nouns)
      /\ \A m \in DOMAIN nouns : incarnation[m] = IF m \in DOMAIN observed THEN observed[m] ELSE 0
      /\ \A m \in DOMAIN nouns : nouns[m] \in NativeNoun
      /\ DOMAIN observed \subseteq DOMAIN nouns /\ DOMAIN nouns \subseteq Num /\ nouns \in [DOMAIN nouns -> NativeNoun]
      /\ observed \in Maps(Nat \ {0}) /\ minted \in Nat
  BY MapsOf DEF AuthorityOK
<1>2. minted' = minted  BY DEF WorldChanges
<1>3. ASSUME NEW n \in Num, vanish(n) PROVE AuthorityOK'
  <2>1. nouns' = Drop(nouns, {n}) /\ incarnation' = Drop(incarnation, {n}) /\ observed' = Drop(observed, {n})
    BY <1>3 DEF vanish, invalidate_seen
  <2>2. nouns' \in Maps(NativeNoun) /\ observed' \in Maps(Nat \ {0})  BY <1>1, <2>1, DropIs
  <2>3. /\ DOMAIN nouns' = DOMAIN nouns \ {n} /\ DOMAIN incarnation' = DOMAIN nouns \ {n}
        /\ DOMAIN observed' = DOMAIN observed \ {n}
        /\ \A m \in DOMAIN nouns \ {n} : nouns'[m] = nouns[m] /\ incarnation'[m] = incarnation[m]
        /\ \A m \in DOMAIN observed \ {n} : observed'[m] = observed[m]
    BY <1>1, <2>1 DEF Drop, Restrict
  <2>4. NestsApart(nouns)'  BY <1>1, <2>3 DEF NestsApart
  <2> QED BY <1>1, <1>2, <2>2, <2>3, <2>4 DEF AuthorityOK
<1>4. ASSUME NEW n \in Num, die(n) PROVE AuthorityOK'
  <2>1. n \in DOMAIN nouns /\ nouns' = [nouns EXCEPT ![n].dead = TRUE] /\ incarnation' = incarnation /\ observed' = observed
    BY <1>4 DEF die
  <2>2. nouns' = [nouns EXCEPT ![n] = [nouns[n] EXCEPT !.dead = TRUE]]  BY <2>1
  <2>3. /\ [nouns[n] EXCEPT !.dead = TRUE] \in NativeNoun
        /\ [nouns[n] EXCEPT !.dead = TRUE].kind = nouns[n].kind
        /\ [nouns[n] EXCEPT !.dead = TRUE].herd = nouns[n].herd
    <3>1. nouns[n] \in NativeNoun  BY <1>1, <2>1
    <3> QED BY <3>1 DEF NativeNoun
  <2>4. /\ DOMAIN nouns' = DOMAIN nouns /\ nouns' \in [DOMAIN nouns -> NativeNoun]
        /\ \A m \in DOMAIN nouns : nouns'[m].kind = nouns[m].kind /\ nouns'[m].herd = nouns[m].herd
    BY <1>1, <2>2, <2>3
  <2>5. nouns' \in Maps(NativeNoun)  BY <1>1, <2>4, MapsOf
  <2>6. NestsApart(nouns)'  BY <1>1, <2>4 DEF NestsApart
  <2> QED BY <1>1, <1>2, <2>1, <2>4, <2>5, <2>6 DEF AuthorityOK
<1>5. ASSUME NEW noun \in Newcomers, appear(noun) PROVE AuthorityOK'
  <2> DEFINE n == Min(Num \ DOMAIN nouns)
  <2>1. /\ DOMAIN nouns # Num /\ nouns' = Put(nouns, n, noun) /\ incarnation' = Put(incarnation, n, 0)
        /\ observed' = observed /\ noun \in NativeNoun
        /\ noun.kind = "nest" => \A m \in DOMAIN nouns : nouns[m].kind # "nest" \/ nouns[m].herd # noun.herd
    BY <1>5, ProjectionAssumption DEF appear
  <2>2. n \in Num \ DOMAIN nouns
    <3>1. Num \ DOMAIN nouns \subseteq Num /\ Num \ DOMAIN nouns # {}  BY <1>1, <2>1
    <3> QED BY <3>1, LeastIsIn
  <2> HIDE DEF n
  <2>3. nouns' \in Maps(NativeNoun)  BY <1>1, <2>1, <2>2, PutIs
  <2>4. /\ DOMAIN nouns' = DOMAIN nouns \cup {n} /\ DOMAIN incarnation' = DOMAIN nouns \cup {n}
        /\ nouns'[n] = noun /\ incarnation'[n] = 0
        /\ \A m \in DOMAIN nouns : nouns'[m] = nouns[m] /\ incarnation'[m] = incarnation[m]
    BY <1>1, <2>1, <2>2 DEF Put
  <2>5. NestsApart(nouns)'  BY <1>1, <2>1, <2>2, <2>4 DEF NestsApart
  <2>6. n \notin DOMAIN observed  BY <1>1, <2>2
  <2> QED BY <1>1, <1>2, <2>1, <2>3, <2>4, <2>5, <2>6 DEF AuthorityOK
<1>6. \/ \E n \in Num : vanish(n) \/ die(n)
      \/ \E noun \in Newcomers : appear(noun)
  BY DEF WorldChanges
<1> QED BY <1>3, <1>4, <1>5, <1>6

-----------------------------------------------------------------------------
(* The theorems.                                                             *)

LEMMA NewGameIs ==
  ASSUME NEW me \in {1, 2}, NEW load \in Loads, NEW count \in Nat
  PROVE  Fit(NewGame(me, load, count)) /\ NewGame(me, load, count).ok
<1> DEFINE s == NewGame(me, load, count)
<1>1. /\ load.local \in Maps(LoadedNoun) /\ load.avatar \in 0..MaxNum /\ load.restored \in 0..MaxNum
  <2>1. /\ load.local \in [DOMAIN load.local -> LoadedNoun] /\ DOMAIN load.local \subseteq Num
        /\ load.avatar \in Num /\ load.restored \in 0..MaxNum
    BY ProjectionAssumption
  <2> QED BY <2>1, MapsOf, ProjectionAssumption DEF Num
<1>2. NoOwned \in Owned  BY ProjectionAssumption DEF NoOwned, Owned
<1>3. s \in Game  BY <1>1, <1>2, NothingIs DEF NewGame, Game, Reason
<1>4. s.ok /\ s.state = "away" /\ s.bindings = NoScene  BY DEF NewGame
<1> HIDE DEF s
<1>5. LiveOK(s)  BY <1>4, NothingIs DEF LiveOK
<1>6. Fit(s) /\ s.ok  BY <1>3, <1>4, <1>5 DEF Fit
<1> QED BY <1>6 DEF s

LEMMA ProjectionStarts == ProjectionInit => ProjectionInv
<1> SUFFICES ASSUME ProjectionInit PROVE ProjectionInv  OBVIOUS
<1>1. AuthorityOK
  <2>1. nouns \in Maps(NativeNoun)  BY MapsOf, ProjectionAssumption DEF ProjectionInit
  <2>2. NestsApart(nouns)  BY ProjectionAssumption DEF ProjectionInit, NestsApart
  <2> QED BY <2>1, <2>2, NothingIs DEF ProjectionInit, AuthorityOK
<1>2. FrameOK(published)
  <2>1. published \in Maps(Entity) /\ DOMAIN published = {}  BY NothingIs DEF ProjectionInit
  <2> QED BY <2>1 DEF FrameOK, NestsApart
<1>3. GameOK
  <2>1. PICK me \in {1, 2}, load \in Loads : game = NewGame(me, load, 0)  BY DEF ProjectionInit
  <2> QED BY <2>1, NewGameIs DEF GameOK
<1>4. changes \in Nat /\ lost \in Nat  BY DEF ProjectionInit
<1> QED BY <1>1, <1>2, <1>3, <1>4 DEF ProjectionInv

\* What the network does with an operation's result.
LEMMA OutcomeKeeps ==
  ASSUME NEW s \in Game, s.ok => Fit(s), NEW r, r = [(IF s.ok THEN s ELSE quarantine(s)) EXCEPT !.ok = TRUE],
         game' = r
  PROVE  GameOK'
<1>1. Fit(r) /\ r.ok  BY OutcomeIs
<1> QED BY <1>1 DEF GameOK

LEMMA GameKeeps ==
  ASSUME ProjectionInv, ProjectionNext, UNCHANGED <<nouns, incarnation, observed, minted, published>>, game' # game
  PROVE  GameOK'
<1>1. game \in Game /\ game.ok /\ Fit(game) /\ LiveOK(game) /\ FrameOK(published) /\ published \in Maps(Entity)
  BY DEF ProjectionInv, GameOK, Fit, FrameOK
<1>2. /\ game.feed \in Maps(Entity) /\ game.motion \in Maps(Entity)
      /\ \A id \in DOMAIN published : id \in Num /\ published[id] \in Entity
  BY <1>1, MapsOf DEF Game
<1>3. ASSUME apply_baseline PROVE GameOK'
  <2> DEFINE t == apply_native_scene_baseline(game, published)
             u == forget_unmirrored([t EXCEPT !.state = "ready", !.feed = published, !.motion = published])
             done == IF t.ok THEN u ELSE t
  <2>1. DOMAIN published # {} /\ game' = [(IF done.ok THEN done ELSE quarantine(done)) EXCEPT !.ok = TRUE]
    BY <1>3 DEF apply_baseline, Outcome
  <2>2. t \in Game  BY <1>1, <2>1, BaselineIs
  <2>3. t.ok => Fit(u)  BY <1>1, <2>1, BaselineStep
  <2> HIDE DEF t, u
  <2>4. done \in Game /\ (done.ok => Fit(done))  BY <2>2, <2>3 DEF Fit
  <2> HIDE DEF done
  <2> QED BY <2>1, <2>4, OutcomeKeeps
<1>4. ASSUME NEW id \in Num, receive_despawn(id) PROVE GameOK'
  <2> DEFINE told == [game EXCEPT !.feed = Drop(game.feed, {id})]
             generation == game.motion[id].generation
             t == despawn_native_scene_entity(told, id, generation)
             r == [t EXCEPT !.motion = Drop(t.motion, {id})]
             done == IF id \notin DOMAIN game.motion THEN told ELSE r
  <2>1. game.state = "ready" /\ game' = [(IF done.ok THEN done ELSE quarantine(done)) EXCEPT !.ok = TRUE]
    BY <1>1, <1>4 DEF receive_despawn, Outcome, Game
  <2>2. Drop(game.feed, {id}) \in Maps(Entity)  BY <1>2, DropIs
  <2>3. /\ told \in Game /\ told.local = game.local /\ told.bindings = game.bindings /\ told.motion = game.motion
        /\ told.admitted = game.admitted /\ told.state = game.state
    BY <1>1, <2>2, ToldIs
  <2> HIDE DEF told, generation
  <2>4. Fit(told)
    <3>1. LiveOK(told)  BY <1>1, <2>3 DEF LiveOK
    <3>2. Follows(game)  BY <1>1, <2>1 DEF Fit
    <3>3. told.admitted  BY <2>3, <3>2 DEF Follows
    <3>4. Follows(told)  BY <2>3, <3>2, <3>3, FollowsAlike
    <3> QED BY <2>3, <3>1, <3>4 DEF Fit
  <2>5. r \in Game /\ (r.ok => Fit(r))
    BY <2>1, <2>3, <2>4, DespawnStep
  <2> HIDE DEF r
  <2>6. done \in Game /\ (done.ok => Fit(done))  BY <2>3, <2>4, <2>5
  <2> HIDE DEF done
  <2> QED BY <2>1, <2>6, OutcomeKeeps
<1>5. ASSUME NEW id \in Num, receive_entity(id) PROVE GameOK'
  <2> DEFINE e == published[id]
             told == [game EXCEPT !.feed = Put(game.feed, id, e)]
             t == spawn_native_scene_entity(told, id, e)
             r == [t EXCEPT !.motion = Put(t.motion, id, e)]
             unmirrored == ~t.ok /\ t.why = "missing_template" /\ e.noun.kind \in {"fossil", "fruit"}
             done == IF unmirrored THEN told ELSE r
  <2>1. id \in New /\ game.state = "ready"
    <3>1. New \subseteq Num  BY <1>1, MapsOf DEF New
    <3> QED BY <1>5, <3>1, LeastIsIn DEF receive_entity
  <2>2. game' = [(IF done.ok THEN done ELSE quarantine(done)) EXCEPT !.ok = TRUE]
    <3>1. Outcome(done)  BY <1>5, Zenon DEF receive_entity
    <3> HIDE DEF done
    <3> QED BY <3>1 DEF Outcome
  <2>3. e \in Entity  BY <1>2, <2>1 DEF New
  <2> HIDE DEF e
  <2>4. Put(game.feed, id, e) \in Maps(Entity)  BY <1>2, <2>3, PutIs
  <2>5. /\ told \in Game /\ told.local = game.local /\ told.bindings = game.bindings /\ told.motion = game.motion
        /\ told.admitted = game.admitted /\ told.state = game.state
    BY <1>1, <2>4, ToldIs
  <2> HIDE DEF told
  <2>6. Fit(told)
    <3>1. LiveOK(told)  BY <1>1, <2>5 DEF LiveOK
    <3>2. Follows(game)  BY <1>1, <2>1 DEF Fit
    <3>3. told.admitted  BY <2>5, <3>2 DEF Follows
    <3>4. Follows(told)  BY <2>5, <3>2, <3>3, FollowsAlike
    <3> QED BY <2>5, <3>1, <3>4 DEF Fit
  <2>7. r \in Game /\ (r.ok => Fit(r))
    BY <2>1, <2>3, <2>5, <2>6, EntityStep
  <2> HIDE DEF r, unmirrored
  <2>8. done \in Game /\ (done.ok => Fit(done))  BY <2>5, <2>6, <2>7
  <2> HIDE DEF done
  <2> QED BY <2>2, <2>8, OutcomeKeeps
<1>6. ASSUME project_replicas PROVE GameOK'
  <2> DEFINE Latest(id) == IF id \in DOMAIN published /\ published[id].generation = game.motion[id].generation
                           THEN published[id] ELSE game.motion[id]
             m == [id \in DOMAIN game.motion |-> Latest(id)]
             u == [game EXCEPT !.motion = m]
             done == projecting(u)[MaxNum]
  <2>1. game.state = "ready" /\ game' = [(IF done.ok THEN done ELSE quarantine(done)) EXCEPT !.ok = TRUE]
    BY <1>1, <1>6 DEF project_replicas, Outcome, Game
  <2>2. /\ DOMAIN m = DOMAIN game.motion /\ m \in Maps(Entity)
        /\ \A id \in DOMAIN m : m[id].generation = game.motion[id].generation
    <3>1. DOMAIN game.motion \subseteq Num /\ \A id \in DOMAIN game.motion : game.motion[id] \in Entity
      BY <1>2, MapsOf
    <3>2. \A id \in DOMAIN game.motion : Latest(id) \in Entity /\ Latest(id).generation = game.motion[id].generation
      BY <1>2, <3>1
    <3> HIDE DEF Latest
    <3>3. m \in [DOMAIN m -> Entity] /\ DOMAIN m = DOMAIN game.motion  BY <3>2
    <3>4. \A id \in DOMAIN m : m[id].generation = game.motion[id].generation  BY <3>2
    <3> HIDE DEF m
    <3> QED BY <3>1, <3>3, <3>4, MapsOf
  <2> HIDE DEF m
  <2>3. done \in Game /\ (done.ok => Fit(done))
    BY <1>1, <2>1, <2>2, ProjectStep
  <2> HIDE DEF done
  <2> QED BY <2>1, <2>3, OutcomeKeeps
<1>7. ASSUME connection_lost PROVE GameOK'
  <2> DEFINE reset == reset_native_scene_baseline(game)
  <2>1. game' = [reset EXCEPT !.state = "away", !.motion = NoScene, !.feed = NoScene]
    BY <1>7 DEF connection_lost
  <2>2. reset \in Game /\ reset.ok = game.ok /\ reset.bindings = NoScene  BY <1>1, ResetIs
  <2> HIDE DEF reset
  <2>3. game' \in Game /\ game'.ok /\ game'.bindings = NoScene /\ game'.state = "away"
    BY <1>1, <2>1, <2>2, NothingIs DEF Game
  <2>4. LiveOK(game')  BY <2>3, NothingIs DEF LiveOK
  <2>5. Fit(game') /\ game'.ok  BY <2>3, <2>4 DEF Fit
  <2> QED BY <2>5 DEF GameOK
<1>8. ASSUME NEW n \in Num, local_retire(n) PROVE GameOK'
  <2>1. /\ n \in DOMAIN game.local /\ game' = destroyed(game, {n})
        /\ ~(game.admitted /\ \E id \in DOMAIN game.bindings :
               game.bindings[id].live /\ game.bindings[id].native = n /\ Is(game, n, "fossil"))
    BY <1>8 DEF local_retire, preserve_native_scene_fossil
  <2>2. Fit(game') /\ game'.ok  BY <1>1, <2>1, RetireStep
  <2> QED BY <2>2 DEF GameOK
<1>9. ASSUME LoadAgain PROVE GameOK'
  <2>1. PICK load \in Loads : game' = NewGame(game.me, load, game.loads + 1)  BY <1>9 DEF LoadAgain
  <2>2. game.me \in {1, 2} /\ game.loads + 1 \in Nat  BY <1>1 DEF Game
  <2>3. Fit(game') /\ game'.ok  BY <2>1, <2>2, NewGameIs
  <2> QED BY <2>3 DEF GameOK
<1>10. ASSUME capture_native_scene \/ WorldChanges \/ \E n \in Num : capture_fails(n) PROVE FALSE
  BY <1>10 DEF capture_native_scene, WorldChanges, capture_fails
<1> QED BY <1>3, <1>4, <1>5, <1>6, <1>7, <1>8, <1>9, <1>10 DEF ProjectionNext

LEMMA ProjectionKeeps == ProjectionInv /\ [ProjectionNext]_projection_vars => ProjectionInv'
<1> SUFFICES ASSUME ProjectionInv, [ProjectionNext]_projection_vars PROVE ProjectionInv'  OBVIOUS
<1>0. AuthorityOK /\ FrameOK(published) /\ GameOK /\ changes \in Nat /\ lost \in Nat
  BY DEF ProjectionInv
<1>1. CASE capture_native_scene
  <2>1. AuthorityOK' /\ FrameOK(published)'  BY <1>0, <1>1, CaptureKeeps
  <2>2. UNCHANGED <<game, changes, lost>>  BY <1>1 DEF capture_native_scene
  <2> QED BY <1>0, <2>1, <2>2 DEF ProjectionInv, GameOK
<1>2. CASE \E n \in Num : capture_fails(n)
  <2>1. AuthorityOK'  BY <1>0, <1>2, FailedCaptureKeeps
  <2>2. UNCHANGED <<published, game, changes, lost>>  BY <1>2 DEF capture_fails
  <2> QED BY <1>0, <2>1, <2>2 DEF ProjectionInv, GameOK
<1>3. CASE WorldChanges
  <2>1. AuthorityOK'  BY <1>0, <1>3, WorldKeeps
  <2>2. UNCHANGED <<published, game, lost>> /\ changes' \in Nat  BY <1>0, <1>3 DEF WorldChanges
  <2> QED BY <1>0, <2>1, <2>2 DEF ProjectionInv, GameOK
<1>4. CASE UNCHANGED projection_vars
  BY <1>0, <1>4 DEF ProjectionInv, AuthorityOK, GameOK, projection_vars
<1>5. CASE \/ \E n \in Num : receive_despawn(n) \/ receive_entity(n) \/ local_retire(n)
           \/ apply_baseline \/ project_replicas \/ connection_lost \/ LoadAgain
  <2>1. UNCHANGED <<nouns, incarnation, observed, minted, published>> /\ changes' \in Nat /\ lost' \in Nat
    <3>1. CASE \E n \in Num : receive_despawn(n) \/ receive_entity(n)
      <4>1. UNCHANGED <<nouns, incarnation, observed, minted, published, changes, lost>>
        BY <3>1, Zenon DEF receive_despawn, receive_entity
      <4> QED BY <1>0, <4>1
    <3>2. CASE \E n \in Num : local_retire(n)  BY <1>0, <3>2 DEF local_retire
    <3>3. CASE apply_baseline \/ project_replicas
      <4>1. UNCHANGED <<nouns, incarnation, observed, minted, published, changes, lost>>
        BY <3>3, Zenon DEF apply_baseline, project_replicas
      <4> QED BY <1>0, <4>1
    <3>4. CASE connection_lost  BY <1>0, <3>4 DEF connection_lost
    <3>5. CASE LoadAgain
      <4>1. UNCHANGED <<nouns, incarnation, observed, minted, published, changes, lost>>
        BY <3>5, Zenon DEF LoadAgain
      <4> QED BY <1>0, <4>1
    <3> QED BY <1>5, <3>1, <3>2, <3>3, <3>4, <3>5
  <2>2. AuthorityOK'  BY <1>0, <2>1 DEF AuthorityOK
  <2>3. FrameOK(published)'  BY <1>0, <2>1
  <2>4. ProjectionNext  BY <1>5 DEF ProjectionNext
  <2>5. CASE game' = game  BY <1>0, <2>1, <2>2, <2>3, <2>5 DEF ProjectionInv, GameOK
  <2>6. CASE game' # game
    <3>1. GameOK'  BY <2>1, <2>4, <2>6, GameKeeps
    <3> QED BY <2>1, <2>2, <2>3, <3>1 DEF ProjectionInv
  <2> QED BY <2>5, <2>6
<1> QED BY <1>1, <1>2, <1>3, <1>4, <1>5 DEF ProjectionNext

\* What the bridges hold is of its type, what the authority remembers of a
\* noun is what it was first captured under, and a player's game that is
\* ready follows the scene.
THEOREM ProjectionInvariant == ProjectionSpec => []ProjectionInv
<1>1. ProjectionInit => ProjectionInv  BY ProjectionStarts
<1>2. ProjectionInv /\ [ProjectionNext]_projection_vars => ProjectionInv'  BY ProjectionKeeps
<1> QED BY <1>1, <1>2, PTL DEF ProjectionSpec

\* What a player sees is the scene that is followed, noun by noun.
THEOREM AlwaysShowsTheScene == ProjectionSpec => []ShowsTheScene
<1>1. ASSUME ProjectionInv PROVE ShowsTheScene
  <2>1. LiveOK(game) /\ (game.state = "ready" => Follows(game))  BY <1>1 DEF ProjectionInv, GameOK, Fit
  <2>2. ASSUME game.state = "ready", NEW id \in DOMAIN game.motion, game.bindings[id].live
        PROVE  game.local[game.bindings[id].native].species = game.motion[id].noun.species
    BY <2>1, <2>2 DEF Follows, Shows
  <2> QED BY <2>1, <2>2 DEF ShowsTheScene, LiveOK, Follows
<1> QED BY <1>1, ProjectionInvariant, PTL

\* An action on what a player sees reaches the noun captured for it.
THEOREM ActionsAlwaysReach == ProjectionSpec => []ActionsReachTheirTarget
<1>1. ASSUME ProjectionInv PROVE ActionsReachTheirTarget
  BY <1>1 DEF ProjectionInv, AuthorityOK, ActionsReachTheirTarget, validate_native_scene_action_entity
<1> QED BY <1>1, ProjectionInvariant, PTL
=============================================================================
