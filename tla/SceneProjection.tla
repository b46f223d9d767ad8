-------------------------- MODULE SceneProjection ---------------------------
(* A shared scene in two original games (native_scene.cpp).  The authority   *)
(* names its game's nouns by their number and by a generation it gives each  *)
(* incarnation; a player's bridge gives every entity of the scene a noun of  *)
(* its own game, makes that player's creature the avatar, follows the scene  *)
(* noun by noun, and forgets it when anything can not be carried out.  The   *)
(* games are external: nouns come and go by themselves, and a freed number   *)
(* is given out again.                                                       *)
EXTENDS Integers, FiniteSets, FiniteSetsExt, Functions

CONSTANTS
  MaxNum,          \* bound: the games number their nouns from 1
  Begun,           \* the authority's nouns at first, by number
  First, Second,   \* the numbers of the two players' creatures there
  Loads,           \* the worlds a player's game may load, by number
  HerdSpecies,     \* the herds of the loaded game and their species
  OwnHerd,         \* the herd a client makes for the second player
  Newcomers,       \* the nouns that may appear on the authority
  MaxChanges, MaxLost, MaxLoads

Num == 1..MaxNum

\* A fruit is of no species, and a nest this game loaded of its herd's.
NativeNoun ==
  {noun \in [kind : {"creature", "fossil", "fruit", "nest"}, species : STRING, herd : STRING, dead : BOOLEAN] :
     noun.kind = "fruit" => noun.species = ""}
LoadedNoun ==
  {noun \in NativeNoun :
     noun.kind = "nest" => noun.herd \in DOMAIN HerdSpecies /\ HerdSpecies[noun.herd] = noun.species}

ASSUME ProjectionAssumption ==
  /\ MaxNum \in Nat /\ DOMAIN Begun \subseteq Num /\ {First, Second} \subseteq DOMAIN Begun /\ First # Second
  /\ Begun \in [DOMAIN Begun -> NativeNoun] /\ Newcomers \subseteq NativeNoun
  /\ \A m, n \in DOMAIN Begun :
       Begun[m].kind = "nest" /\ Begun[n].kind = "nest" /\ Begun[m].herd = Begun[n].herd => m = n
  /\ \A load \in Loads :
       /\ load.local \in [DOMAIN load.local -> LoadedNoun] /\ DOMAIN load.local \subseteq Num
       /\ load.avatar \in Num /\ load.restored \in 0..MaxNum
  /\ OwnHerd \in STRING \ DOMAIN HerdSpecies
  /\ MaxChanges \in Nat /\ MaxLost \in Nat /\ MaxLoads \in Nat

VARIABLES
  nouns,        \* the authority's game
  incarnation,  \* the generation each of its nouns was first captured under
  observed,     \* the incarnations the bridge there remembers,
  minted,       \* and the generations it gave
  published,    \* the scene as last published: entities by number
  game,         \* a player's game and its bridge
  changes, lost \* bounds: what the games did, connections lost

projection_vars == <<nouns, incarnation, observed, minted, published, game, changes, lost>>

Noun(kind, species, herd) == [kind |-> kind, species |-> species, herd |-> herd, dead |-> FALSE]
Put(f, n, value) == [m \in DOMAIN f \cup {n} |-> IF m = n THEN value ELSE f[m]]
Drop(f, S) == Restrict(f, DOMAIN f \ S)
NoScene == [n \in {} |-> 0]

-----------------------------------------------------------------------------
(* The authority's captures.                                                 *)

owner_of(n) == IF n = First THEN 1 ELSE IF n = Second THEN 2 ELSE 0

\* Creatures are captured first, then fossils, fruits and nests.
Rank(n) == CASE nouns[n].kind = "creature" -> 0 [] nouns[n].kind = "fossil" -> 1
             [] nouns[n].kind = "fruit" -> 2 [] OTHER -> 3
Before(m, n) == Rank(m) < Rank(n) \/ (Rank(m) = Rank(n) /\ m < n)

\* Each noun of S claims its record, a new one a new generation.
claim_seen(S) ==
  [n \in S |-> IF n \in DOMAIN observed THEN observed[n]
               ELSE minted + 1 + Cardinality({m \in S \ DOMAIN observed : Before(m, n)})]

Minted(S) == minted + Cardinality(S \ DOMAIN observed)
FirstCaptured(claims) ==
  [n \in DOMAIN incarnation |-> IF incarnation[n] = 0 /\ n \in DOMAIN claims THEN claims[n] ELSE incarnation[n]]

entity_of(n, generation) == [noun |-> nouns[n], owner |-> owner_of(n), generation |-> generation]

capture_native_scene ==
  LET claims == claim_seen(DOMAIN nouns) IN
  /\ {First, Second} \subseteq DOMAIN nouns
  /\ observed' = claims /\ minted' = Minted(DOMAIN nouns) /\ incarnation' = FirstCaptured(claims)
  /\ published' = [n \in DOMAIN nouns |-> entity_of(n, claims[n])]
  /\ UNCHANGED <<nouns, game, changes, lost>>

\* A creature the scene can not carry: nothing is published, but the records
\* claimed before it are kept.
capture_fails(n) ==
  LET upto == {m \in DOMAIN nouns : Rank(m) = 0 /\ m <= n}
      claims == claim_seen(upto)
  IN /\ n \in DOMAIN nouns /\ Rank(n) = 0 /\ ~(upto \subseteq DOMAIN observed)
     /\ observed' = [m \in upto \cup DOMAIN observed |-> IF m \in upto THEN claims[m] ELSE observed[m]]
     /\ minted' = Minted(upto) /\ incarnation' = FirstCaptured(claims)
     /\ UNCHANGED <<nouns, published, game, changes, lost>>

\* Mutant: the record waits for the next capture.
keep_seen(n) == observed

\* The original's destroy and pool hooks forget the record at once.
invalidate_seen(n) == Drop(observed, {n})

vanish(n) ==
  /\ n \in DOMAIN nouns /\ owner_of(n) = 0
  /\ nouns' = Drop(nouns, {n}) /\ incarnation' = Drop(incarnation, {n})
  /\ observed' = invalidate_seen(n)

appear(noun) ==
  LET n == Min(Num \ DOMAIN nouns) IN
  /\ DOMAIN nouns # Num
  /\ noun.kind = "nest" => \A m \in DOMAIN nouns : nouns[m].kind # "nest" \/ nouns[m].herd # noun.herd
  /\ nouns' = Put(nouns, n, noun) /\ incarnation' = Put(incarnation, n, 0)
  /\ UNCHANGED observed

die(n) ==
  /\ n \in DOMAIN nouns /\ nouns[n].kind = "creature" /\ ~nouns[n].dead
  /\ nouns' = [nouns EXCEPT ![n].dead = TRUE]
  /\ UNCHANGED <<incarnation, observed>>

\* The authority's own game moves on.
WorldChanges ==
  /\ changes < MaxChanges /\ changes' = changes + 1
  /\ (\E n \in Num : vanish(n) \/ die(n)) \/ (\E noun \in Newcomers : appear(noun))
  /\ UNCHANGED <<minted, published, game, lost>>

\* An action names an entity of the scene: is that very noun still there?
validate_native_scene_action_entity(n, e) ==
  /\ n \in DOMAIN observed /\ observed[n] = e.generation
  /\ n \in DOMAIN nouns /\ nouns[n] = e.noun /\ owner_of(n) = e.owner

-----------------------------------------------------------------------------
(* A player's game: `local` nouns by local number, `bindings` by the scene's *)
(* number, and what is kept of the two players' creatures.                   *)

NoOwned == [known |-> FALSE, actors |-> <<0, 0>>, admitted |-> FALSE, presentation |-> FALSE, retired |-> FALSE]

\* A game loaded by a process of player `me`; `restored` is the second
\* player's creature if the save holds it, otherwise 0.
NewGame(me, load, count) ==
  [me |-> me, state |-> "away", local |-> load.local, restored |-> load.restored, avatar |-> load.avatar,
   loaded |-> load.avatar, bindings |-> NoScene, admitted |-> FALSE, owned |-> NoOwned, feed |-> NoScene,
   motion |-> NoScene, loads |-> count, ok |-> TRUE, presented |-> FALSE, why |-> ""]

Is(s, n, kind) == n \in DOMAIN s.local /\ s.local[n].kind = kind
same_species(s, n, e) == Is(s, n, "creature") /\ s.local[n].species = e.noun.species
same_fixture(s, n, e) == same_species(s, n, e) /\ s.local[n].herd = e.noun.herd
Alive(s, n) == Is(s, n, "creature") /\ ~s.local[n].dead
Members(s, herd) == {n \in DOMAIN s.local : s.local[n].kind = "creature" /\ s.local[n].herd = herd}

\* Any binding counts, a retired one too.
mapped(s, n) == \E id \in DOMAIN s.bindings : s.bindings[id].native = n
make_binding(e, native) == [generation |-> e.generation, native |-> native, live |-> TRUE, owner |-> e.owner]
bind(s, id, e, native) == [s EXCEPT !.bindings = Put(@, id, make_binding(e, native))]
failed(s, reason) == [s EXCEPT !.ok = FALSE, !.why = reason]

template_for(s, e) == {n \in DOMAIN s.local : same_species(s, n, e) /\ Alive(s, n)}
existing_herd_for(e) ==
  e.owner = 0 /\ e.noun.herd \in DOMAIN HerdSpecies /\ HerdSpecies[e.noun.herd] = e.noun.species
nest_herd_matches(e) == e.noun.herd \in DOMAIN HerdSpecies /\ HerdSpecies[e.noun.herd] = e.noun.species
nest_template(s, e) ==
  {n \in DOMAIN s.local : nest_herd_matches(e) /\ Is(s, n, "nest") /\ s.local[n].herd = e.noun.herd}
fossil_template(s, n, e) == {m \in {n} : Is(s, m, "fossil") /\ s.local[m].species = e.noun.species}

\* The client's game gives out its lowest free number, if it has one.
Fresh(s) == Min(Num \ DOMAIN s.local)
Add(s, noun) ==
  IF DOMAIN s.local = Num THEN failed(s, "factory") ELSE [s EXCEPT !.local = Put(@, Fresh(s), noun)]

\* The original is destroying or pooling nouns of this game.
invalidate_native_scene_entity(s, S) ==
  LET owned == \E i \in {1, 2} : s.owned.actors[i] \in S IN
  [s EXCEPT !.bindings = [id \in DOMAIN s.bindings |->
              [s.bindings[id] EXCEPT !.live = @ /\ s.bindings[id].native \notin S]],
            !.owned = IF owned THEN [@ EXCEPT !.retired = TRUE, !.admitted = FALSE, !.presentation = FALSE] ELSE @]

destroyed(s, S) == [invalidate_native_scene_entity(s, S) EXCEPT !.local = Drop(@, S)]

\* A creature by the original's factory: beside a living one of its species,
\* in that one's herd, or in a herd this game already holds.
create(s, e) ==
  LET templates == template_for(s, e)
      herd == IF templates # {} THEN s.local[Min(templates)].herd ELSE e.noun.herd
  IN IF templates = {} /\ ~existing_herd_for(e) THEN failed(s, "template")
     ELSE Add(s, Noun("creature", e.noun.species, herd))

reset_native_scene_baseline(s) ==
  [s EXCEPT !.bindings = NoScene, !.admitted = FALSE, !.owned.admitted = FALSE]

-----------------------------------------------------------------------------
(* Following one entity.                                                     *)

apply_pose(s, n, e) ==
  IF same_species(s, n, e) THEN [s EXCEPT !.local[n].dead = e.noun.dead] ELSE failed(s, "projection")

\* The authority's sample, applied to the noun that stands for the entity.
project_entity(s, id, e) ==
  LET n == s.bindings[id].native IN
  IF ~s.bindings[id].live \/ ~Is(s, n, e.noun.kind) \/ s.bindings[id].owner # e.owner THEN failed(s, "projection")
  ELSE CASE e.noun.kind = "creature" -> apply_pose(s, n, e)
         [] e.noun.kind = "fossil" -> IF fossil_template(s, n, e) # {} THEN s ELSE failed(s, "projection")
         [] e.noun.kind = "nest" -> IF n \in nest_template(s, e) THEN s ELSE failed(s, "projection")
         [] OTHER -> s

spawn_nest(s, id, e) ==
  LET made == IF nest_template(s, e) = {} THEN Add(s, Noun("nest", e.noun.species, e.noun.herd)) ELSE s
      native == Min(nest_template(made, e))
  IN IF ~nest_herd_matches(e) \/ ~made.ok THEN failed(s, "nest")
     ELSE IF mapped(made, native) THEN failed(made, "nest")
     ELSE project_entity(bind(made, id, e, native), id, e)

spawn_creature(s, id, e) ==
  LET made == create(s, e) IN
  IF made.ok THEN project_entity(bind(made, id, e, Fresh(s)), id, e) ELSE made

\* A fossil or fruit is this world's own of that number.
spawn_static(s, id, e) ==
  IF mapped(s, id) THEN failed(s, "bound") ELSE project_entity(bind(s, id, e, id), id, e)

spawn_entity(s, id, e) ==
  CASE e.noun.kind = "nest" -> spawn_nest(s, id, e)
    [] e.noun.kind = "creature" -> spawn_creature(s, id, e)
    [] OTHER -> spawn_static(s, id, e)

spawn_source_present(s, id, e) ==
  CASE e.noun.kind = "fruit" -> ~mapped(s, id) /\ Is(s, id, "fruit")
    [] e.noun.kind = "fossil" -> fossil_template(s, id, e) # {}
    [] e.noun.kind = "nest" -> nest_herd_matches(e)
    [] OTHER -> template_for(s, e) # {} \/ existing_herd_for(e)

spawn_native_scene_entity(s, id, e) ==
  LET stale == id \in DOMAIN s.bindings /\ (s.bindings[id].live \/ e.generation <= s.bindings[id].generation)
  IN IF e.owner # 0 THEN failed(s, "invalid")
     ELSE IF stale THEN failed(s, "stale")
     ELSE IF ~spawn_source_present(s, id, e) THEN failed(s, "missing_template")
     ELSE spawn_entity(s, id, e)

\* The binding stays, retired, so that the entity does not come back.
despawn_native_scene_entity(s, id, generation) ==
  LET n == s.bindings[id].native
      retired == [s EXCEPT !.bindings[id].live = FALSE]
  IN IF id \notin DOMAIN s.bindings THEN failed(s, "stale")
     ELSE IF s.bindings[id].generation # generation \/ ~s.bindings[id].live THEN failed(s, "stale")
     ELSE IF n \notin DOMAIN s.local \/ n = s.avatar THEN failed(s, "native")
     ELSE destroyed(retired, {n})

project_native_scene_entity(s, id, e) ==
  IF id \notin DOMAIN s.bindings THEN failed(s, "stale")
  ELSE IF s.bindings[id].generation # e.generation \/ ~s.bindings[id].live THEN failed(s, "stale")
  ELSE project_entity(s, id, e)

-----------------------------------------------------------------------------
(* A baseline.                                                               *)

PlayersNumber(f, player) == CHOOSE n \in DOMAIN f : f[n].owner = player

\* A player's creature: alive, of the entity's species, in its own herd.
owned_herd(s, n, e) == same_species(s, n, e) /\ Alive(s, n)

\* A restored save's two creatures must be the scene's two players'.
read_restored_pair(s, f) ==
  s.restored # 0 =>
    /\ owned_herd(s, s.loaded, f[PlayersNumber(f, 1)]) /\ owned_herd(s, s.restored, f[PlayersNumber(f, 2)])
    /\ s.local[s.loaded].herd # s.local[s.restored].herd

adopt_owned_epoch(s, f) ==
  IF s.owned.known THEN s
  ELSE IF ~same_species(s, s.avatar, f[PlayersNumber(f, 1)]) THEN failed(s, "species")
  ELSE [s EXCEPT !.owned = [NoOwned EXCEPT !.known = TRUE, !.actors = <<s.avatar, s.restored>>]]

\* The second player's creature is found, or made in a herd of its own.
resolve_owned_actors(s, f) ==
  LET one == f[PlayersNumber(f, 1)]
      two == f[PlayersNumber(f, 2)]
      first == s.owned.actors[1]
      made == s.owned.actors[2] = 0
      held == IF made THEN Add(s, Noun("creature", two.noun.species, OwnHerd)) ELSE s
      second == IF made THEN Fresh(s) ELSE s.owned.actors[2]
  IN IF ~owned_herd(s, first, one) \/ (made /\ template_for(s, two) = {}) THEN failed(s, "owned")
     ELSE IF \/ ~held.ok \/ ~owned_herd(held, second, two) \/ second = first
             \/ Members(held, held.local[second].herd) # {second}
          THEN failed(held, "owned")
     ELSE [held EXCEPT !.owned.actors = <<first, second>>]

bind_owned_entities(s, f) ==
  bind(bind(s, PlayersNumber(f, 1), f[PlayersNumber(f, 1)], s.owned.actors[1]),
       PlayersNumber(f, 2), f[PlayersNumber(f, 2)], s.owned.actors[2])

promote_avatar(s) == [s EXCEPT !.avatar = s.owned.actors[s.me]]

prepare_owned(s, f) ==
  LET adopted == adopt_owned_epoch(s, f)
      resolved == resolve_owned_actors(adopted, f)
  IN IF \E n \in DOMAIN f : f[n].owner # 0 /\ f[n].noun.dead THEN failed(s, "life")
     ELSE IF ~read_restored_pair(s, f) THEN failed(s, "restored")
     ELSE IF ~adopted.ok THEN adopted
     ELSE IF adopted.owned.retired THEN failed(adopted, "retired")
     ELSE IF ~resolved.ok THEN resolved
     ELSE promote_avatar(bind_owned_entities(resolved, f))

\* Mutant: a number is matched whoever it stands for already.
match_by_number(s, id, e) ==
  CASE e.noun.kind = "nest" -> nest_template(s, e)
    [] e.noun.kind = "fossil" -> fossil_template(s, id, e)
    [] e.noun.kind = "fruit" -> {n \in {id} : Is(s, n, "fruit")}
    [] OTHER -> {n \in {id} : same_species(s, n, e)}

\* The local noun an entity of no player has already, if any.
Match(s, id, e) ==
  CASE e.noun.kind = "nest" -> nest_template(s, e)
    [] e.noun.kind = "fossil" -> {n \in fossil_template(s, id, e) : ~mapped(s, n)}
    [] e.noun.kind = "fruit" -> {n \in {id} : Is(s, n, "fruit") /\ ~mapped(s, n)}
    [] OTHER -> {n \in {id} : same_fixture(s, n, e) /\ ~mapped(s, n)}

\* What has no match must be absent (a fossil, a fruit) or possible to make.
CanDoWithout(s, id, e) ==
  CASE e.noun.kind = "nest" -> nest_herd_matches(e)
    [] e.noun.kind = "fossil" -> ~mapped(s, id) /\ ~Is(s, id, "fossil")
    [] e.noun.kind = "fruit" -> TRUE
    [] OTHER -> template_for(s, e) # {} \/ existing_herd_for(e)

\* All are matched before anything is made, so that nothing made is matched.
match_unowned(s, f) ==
  LET unowned == {id \in DOMAIN f : f[id].owner = 0}
      matched == {id \in unowned : Match(s, id, f[id]) # {}}
  IN IF \E id \in unowned \ matched : ~CanDoWithout(s, id, f[id]) THEN failed(s, "missing_template")
     ELSE [s EXCEPT !.bindings = [id \in matched \cup DOMAIN @ |->
             IF id \in matched THEN make_binding(f[id], Min(Match(s, id, f[id]))) ELSE @[id]]]

Bound(s, id) == id \in DOMAIN s.bindings /\ s.bindings[id].live

realize_entity(s, id, e) ==
  IF ~s.ok THEN s
  ELSE IF Bound(s, id) THEN project_entity(s, id, e)
  ELSE IF e.noun.kind \in {"fossil", "fruit"} THEN s
  ELSE spawn_entity(s, id, e)

\* Entity by entity.
realizing(s, f) ==
  LET done[n \in 0..MaxNum] ==
        IF n = 0 THEN s ELSE IF n \in DOMAIN f THEN realize_entity(done[n - 1], n, f[n]) ELSE done[n - 1]
  IN done
realize(s, f) == realizing(s, f)[MaxNum]

\* Creatures, fossils and nests the scene does not have leave this world.
unbound(s) == {n \in DOMAIN s.local : s.local[n].kind # "fruit" /\ ~mapped(s, n)}

remove_unbound(s) ==
  IF s.avatar \in unbound(s) THEN failed(s, "avatar")
  ELSE destroyed(s, unbound(s))

\* A rejected baseline puts the avatar back.  What an earlier one committed
\* is kept if it is still whole; otherwise this load of the game is over.
rollback(before, s) ==
  LET back == [s EXCEPT !.avatar = before.avatar, !.owned.admitted = FALSE, !.owned.presentation = FALSE]
      Whole == before.owned.presentation /\ ~s.owned.retired
                 /\ before.avatar = before.owned.actors[s.me]
                 /\ \A i \in {1, 2} : Alive(s, before.owned.actors[i])
  IN IF Whole THEN [back EXCEPT !.owned = [before.owned EXCEPT !.admitted = FALSE]]
     ELSE [back EXCEPT !.owned.retired = TRUE]

accepted(s) ==
  [s EXCEPT !.admitted = TRUE, !.owned.admitted = TRUE, !.owned.presentation = TRUE, !.presented = TRUE]

\* The whole baseline, as one projection into the game.
baseline_callback(before, f) ==
  LET Then(s, Do(_)) == IF s.ok THEN Do(s) ELSE s
      prepared == prepare_owned([before EXCEPT !.bindings = NoScene], f)
      realized == Then(Then(prepared, LAMBDA s: match_unowned(s, f)), LAMBDA s: realize(s, f))
      Ended(done) == IF done.ok THEN accepted(done) ELSE rollback(before, done)
  IN Ended(Then(realized, remove_unbound))

foreign_owned_preflight(s) == Alive(s, s.avatar)

apply_native_scene_baseline(s, f) ==
  IF ~foreign_owned_preflight(s) THEN failed(s, "preflight")
  ELSE LET Kept(done) == IF done.ok THEN done ELSE reset_native_scene_baseline(done)
       IN Kept(baseline_callback(s, f))

-----------------------------------------------------------------------------
(* The network's use of them on a player's machine.                          *)

\* Nothing of the scene is shown any more, until the game is started again.
quarantine(s) ==
  [reset_native_scene_baseline(s) EXCEPT !.state = "failed", !.motion = NoScene, !.feed = NoScene]
Outcome(s) == game' = [(IF s.ok THEN s ELSE quarantine(s)) EXCEPT !.ok = TRUE]

forget_unmirrored(s) == [s EXCEPT !.motion = Restrict(@, {id \in DOMAIN @ : Bound(s, id)})]

apply_baseline ==
  LET Shown(done) ==
        IF done.ok THEN forget_unmirrored([done EXCEPT !.state = "ready", !.feed = published, !.motion = published])
        ELSE done
  IN
  /\ game.state = "away" /\ DOMAIN published # {}
  /\ Outcome(Shown(apply_native_scene_baseline(game, published)))
  /\ UNCHANGED <<nouns, incarnation, observed, minted, published, changes, lost>>

\* What left the scene is told first.
Gone == {id \in DOMAIN game.feed : id \notin DOMAIN published \/ published[id].generation # game.feed[id].generation}

New == DOMAIN published \ DOMAIN game.feed

receive_despawn(id) ==
  LET told == [game EXCEPT !.feed = Drop(@, {id})] IN
  /\ game.state = "ready" /\ Gone # {} /\ id = Min(Gone)
  /\ Outcome(IF id \notin DOMAIN game.motion THEN told
             ELSE [despawn_native_scene_entity(told, id, game.motion[id].generation) EXCEPT !.motion = Drop(@, {id})])
  /\ UNCHANGED <<nouns, incarnation, observed, minted, published, changes, lost>>

\* A fossil or fruit this world can not show is not followed.
receive_entity(id) ==
  LET told == [game EXCEPT !.feed = Put(@, id, published[id])]
      done == spawn_native_scene_entity(told, id, published[id])
      unmirrored == ~done.ok /\ done.why = "missing_template" /\ published[id].noun.kind \in {"fossil", "fruit"}
  IN /\ game.state = "ready" /\ Gone = {} /\ New # {} /\ id = Min(New)
     /\ Outcome(IF unmirrored THEN told ELSE [done EXCEPT !.motion = Put(@, id, published[id])])
     /\ UNCHANGED <<nouns, incarnation, observed, minted, published, changes, lost>>

\* What is followed, projected entity by entity.
projecting(s) ==
  LET done[n \in 0..MaxNum] ==
        IF n = 0 THEN s
        ELSE IF n \in DOMAIN s.motion /\ done[n - 1].ok
        THEN project_native_scene_entity(done[n - 1], n, s.motion[n]) ELSE done[n - 1]
  IN done

\* A newer sample of what is followed, and the scene projected once more.
project_replicas ==
  LET Latest(id) == IF id \in DOMAIN published /\ published[id].generation = game.motion[id].generation
                    THEN published[id] ELSE game.motion[id]
      sampled == [game EXCEPT !.motion = [id \in DOMAIN @ |-> Latest(id)]]
  IN /\ game.state = "ready"
     /\ Outcome(projecting(sampled)[MaxNum])
     /\ game' # game
     /\ UNCHANGED <<nouns, incarnation, observed, minted, published, changes, lost>>

connection_lost ==
  /\ game.state = "ready" /\ lost < MaxLost /\ lost' = lost + 1
  /\ game' = [reset_native_scene_baseline(game) EXCEPT !.state = "away", !.motion = NoScene, !.feed = NoScene]
  /\ UNCHANGED <<nouns, incarnation, observed, minted, published, changes>>

\* The player's own game takes a noun away by itself.  A fossil of the scene
\* is kept: only the authority retires it.
preserve_native_scene_fossil(n) ==
  game.admitted /\ \E id \in DOMAIN game.bindings :
    game.bindings[id].live /\ game.bindings[id].native = n /\ Is(game, n, "fossil")

local_retire(n) ==
  /\ changes < MaxChanges
  /\ n \in DOMAIN game.local /\ n # game.avatar /\ game.local[n].kind \in {"creature", "fossil"}
  /\ ~preserve_native_scene_fossil(n)
  /\ game' = destroyed(game, {n}) /\ changes' = changes + 1
  /\ UNCHANGED <<nouns, incarnation, observed, minted, published, lost>>

\* The player starts the game again after its session ended.
LoadAgain ==
  /\ game.state = "failed" /\ game.loads < MaxLoads
  /\ \E load \in Loads : game' = NewGame(game.me, load, game.loads + 1)
  /\ UNCHANGED <<nouns, incarnation, observed, minted, published, changes, lost>>

ProjectionInit ==
  /\ nouns = Begun /\ incarnation = [n \in DOMAIN Begun |-> 0]
  /\ observed = NoScene /\ minted = 0 /\ published = NoScene
  /\ \E me \in {1, 2}, load \in Loads : game = NewGame(me, load, 0)
  /\ changes = 0 /\ lost = 0

ProjectionNext ==
  \/ capture_native_scene \/ WorldChanges
  \/ \E n \in Num : capture_fails(n) \/ receive_despawn(n) \/ receive_entity(n) \/ local_retire(n)
  \/ apply_baseline \/ project_replicas \/ connection_lost \/ LoadAgain

ProjectionSpec == ProjectionInit /\ [][ProjectionNext]_projection_vars

-----------------------------------------------------------------------------
(* What must hold.                                                           *)

\* Every noun a player sees, but fruit, stands for one entity of the scene
\* that is followed, and every followed entity has one, whatever was lost,
\* made, removed or given a number again.
\* A noun that the game itself took away is missed at its next projection.
ShowsTheScene ==
  /\ \A id \in DOMAIN game.bindings : game.bindings[id].live =>
       /\ game.bindings[id].native \in DOMAIN game.local
       /\ \A other \in DOMAIN game.bindings \ {id} :
            game.bindings[other].live => game.bindings[other].native # game.bindings[id].native
  /\ game.state = "ready" =>
       /\ \A n \in DOMAIN game.local : game.local[n].kind # "fruit" =>
            \E id \in DOMAIN game.motion : Bound(game, id) /\ game.bindings[id].native = n
       /\ \A id \in DOMAIN game.motion :
            /\ id \in DOMAIN game.bindings /\ game.bindings[id].generation = game.motion[id].generation
            /\ game.bindings[id].live => game.local[game.bindings[id].native].species = game.motion[id].noun.species
            /\ game.motion[id].noun.kind = "fossil" => game.bindings[id].live

\* An action on what a player sees reaches the noun that was captured for
\* it, not one that took its number since.
ActionsReachTheirTarget ==
  \A id \in DOMAIN game.motion :
    Bound(game, id) /\ validate_native_scene_action_entity(id, game.motion[id])
      => incarnation[id] = game.motion[id].generation
=============================================================================
