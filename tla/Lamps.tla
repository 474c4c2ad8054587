-------------------------------- MODULE Lamps --------------------------------
(***************************************************************************)
(* Several lamps at once: the handlers of engine.py that walk over lamps   *)
(* (a layers.set on many, someone's call on many, a scene), and what the   *)
(* engine remembers between them: the calls of a retry loop, their first   *)
(* sightings, the members a scene has reached, the debounces and the       *)
(* replays that wait.                                                      *)
(*                                                                         *)
(* The lamps have the policy take_back, are there, and answer; apply is    *)
(* on; the entities that follow layers follow give nothing.  A render      *)
(* that is started lands unless it is stopped.  A person acts after the    *)
(* late window of the last command: Evidence has the reversals, absences   *)
(* and reloads of one lamp.                                                *)
(***************************************************************************)
EXTENDS Services

CONSTANTS
  Rank,         \* the order in which a service call takes the lamps
  Requests,     \* the sets owners send
  Aims,         \* the entities calls name: sets of lamps and rooms
  Calls,        \* the light calls of a person's retry loop
  Scenes,       \* what a scene wants of its members
  Reports,      \* what a lamp can report
  MaxActs       \* how often somebody acts (a bound)

ASSUME LampsAssumption ==
  /\ Rank \in [Lamp -> Nat]
  /\ \A l, k \in Lamp : Rank[l] = Rank[k] => l = k
  /\ Requests \subseteq SetRequest
  /\ \A req \in Requests : WellFormed(req) /\ Asked(req) = req /\ req.lease = "none"
  /\ Aims \subseteq SUBSET (Lamp \cup Rooms)
  /\ Calls \subseteq LightCall
  /\ Scenes \subseteq {c \in Command : c.state # "none"}
  /\ Reports \subseteq Report \ {Away}
  /\ \A o, p \in Reports : o.state = p.state => o = p
  /\ MaxActs \in Nat

VARIABLES
  lamp,         \* what the engine knows of each lamp
  press,        \* the call of a retry loop
  scene,        \* the scene that runs
  carries,      \* whose call each lamp is still to carry out
  stamp,        \* whose context Home Assistant puts on what each lamp reports
  acts,         \* how often somebody acted
  later,        \* the lamps on which an owner set a layer after the press first
                \* came, after the scene ran, after the scene's last call
  dark          \* the lamps nobody acted on since a scene switched them off

vars == <<lamp, press, scene, carries, stamp, acts, later, dark>>

-----------------------------------------------------------------------------

\* `prev` is observed_prev, Away while no debounce waits; `room` that a room's
\* call is remembered for the lamp; `replayed` that a replay is to be put right.
Knowledge == [rec : Record, prev : Report, job : Command,
              room : BOOLEAN, replayed : BOOLEAN]

\* "heard": in _calls, so that reports are put down to it; "seen": only its first
\* sighting is kept; "gone": nothing is, though the loop goes on (Forgets waits
\* for the loop).  `older`: the lamps whose layers changed after that.
NoPress == [memory |-> "none", call |-> Nothing, aim |-> {}, lamps |-> {},
            via |-> {}, older |-> {}, loops |-> FALSE]

\* `older`: the lamps whose layers changed after the scene ran (run.at).  Of the
\* calls it makes under its one context _calls keeps the last, whatever lamp a
\* report is from: `called` are the lamps that one names, `since` those whose
\* layers changed after it.
NoScene == [wanted |-> Nothing, todo |-> {}, reached |-> {}, older |-> {},
            called |-> {}, since |-> {}, over |-> TRUE]

Presses == {NoPress} \cup
  [memory : {"heard", "seen", "gone"}, call : Calls, aim : Aims, lamps : SUBSET Lamp,
   via : SUBSET Lamp, older : SUBSET Lamp, loops : BOOLEAN]

SceneRuns == {NoScene} \cup
  [wanted : Scenes, todo : SUBSET Lamp, reached : SUBSET Lamp, older : SUBSET Lamp,
   called : SUBSET Lamp, since : SUBSET Lamp, over : BOOLEAN]

Dates == {"press", "scene", "call"}

TypeOK ==
  /\ lamp \in [Lamp -> Knowledge]
  /\ press \in Presses
  /\ \A l \in Lamp : lamp[l].room => press.memory = "heard"
  /\ scene \in SceneRuns
  /\ carries \in [Lamp -> {"nothing", "press", "scene"}]
  /\ stamp \in [Lamp -> {"none", "press", "scene"}]
  /\ acts \in 0..MaxActs
  /\ later \in [Dates -> SUBSET Lamp]
  /\ dark \in SUBSET Lamp

Init ==
  /\ \E obs \in [Lamp -> Reports] :
       lamp = [l \in Lamp |-> [rec |-> RecordObservedAsBase(NewRecord(obs[l]), obs[l]),
                               prev |-> Away, job |-> Nothing,
                               room |-> FALSE, replayed |-> FALSE]]
  /\ press = NoPress
  /\ scene = NoScene
  /\ carries = [l \in Lamp |-> "nothing"]
  /\ stamp = [l \in Lamp |-> "none"]
  /\ acts = 0
  /\ later = [c \in Dates |-> {}]
  /\ dark = {}

-----------------------------------------------------------------------------
(* Parts of handlers: each maps what is known of a lamp to what is known then *)

Runs(k) == k.job # Nothing

Settles(k) == [k EXCEPT !.rec.owed = "nothing"]

Wanted(k) == Project(EffectiveNow(k.rec))

\* _render, on a lamp that is there.
Send(k) ==
  CASE Wanted(k) = Nothing -> Settles([k EXCEPT !.job = Nothing])
    [] /\ Wanted(k) # Nothing
       /\ Shows(k.rec, EffectiveNow(k.rec)) = "yes"
       /\ k.job \in {Nothing, Wanted(k)} ->
         Settles([k EXCEPT !.job = Nothing, !.rec.diverged = "none"])
    [] OTHER -> [k EXCEPT !.job = Wanted(k), !.room = FALSE, !.rec.owed = "owed"]

DropStale(k) ==
  IF k.job \in {Nothing, Wanted(k)} THEN k ELSE Settles([k EXCEPT !.job = Nothing])

\* _supersede: what was pending on the lamp goes.
Dropped(k) ==
  [k EXCEPT !.job = Nothing, !.prev = Away, !.replayed = FALSE]

Taken(k, groups, source, chosen) ==
  [Dropped(k) EXCEPT !.rec = Judged(@, groups, source, "take_back", chosen)]

\* A slip: nobody comes back to a replay.
ReplayedQuietly(k) == DropStale(k)

\* The base has learnt an old press; the layers are put back later.
Replayed(k) == DropStale([k EXCEPT !.replayed = TRUE])

\* The debounce is over: a change that held is the device's.
Settled(k) ==
  LET shown == k.rec.observed
      held == ~Close(shown, k.prev) /\ Shows(k.rec, EffectiveNow(k.rec)) # "yes"
  IN IF held
     THEN Taken(k, ChangedGroups(k.prev, shown), "device",
                Chosen(Everything, k.prev, shown))
     ELSE [k EXCEPT !.prev = Away]

Flush(k) == IF k.prev = Away THEN k ELSE Settled(k)

\* A report, put down to a call: an old one teaches the base, any other is taken.
ByCall(k, groups, chosen, o, old) ==
  LET seen == [k EXCEPT !.rec = Showing(@, o)]
  IN IF old
     THEN Replayed([seen EXCEPT
            !.prev = Away,
            !.rec = ApplyReplay([@ EXCEPT !.atDrop = Away], ObservedToCommand(o),
                                groups, "user")])
     ELSE Taken(seen, groups, "user", chosen)

\* A call nothing may report, because the lamp shows it already.
ByIntent(k, cmd, named, old) ==
  LET groups == named \cup {"state"}
      taken == ApplyExternal(Supersede(k.rec), cmd, groups, "user", "take_back", named)
  IN CASE ~IntentHeard(k.rec, cmd) -> k
       [] IntentHeard(k.rec, cmd) /\ old ->
            Replayed([k EXCEPT !.rec = ApplyReplay(@, cmd, groups, "user")])
       [] OTHER ->
            [Dropped(k) EXCEPT !.rec = SeenOffIf(taken, k.rec.observed.state = "off")]

-----------------------------------------------------------------------------

\* What a step made of the lamps: the calls at hand are now older than the
\* layers of those it changed.  The flag of the record is spent on that.
Changed(known) == {l \in Lamp : known[l].rec.changed}

Made(known, pressed, run) ==
  /\ lamp' = [l \in Lamp |-> [known[l] EXCEPT !.rec.changed = FALSE]]
  /\ press' = IF pressed = NoPress THEN NoPress
              ELSE [pressed EXCEPT !.older = @ \cup Changed(known)]
  /\ scene' = IF run = NoScene THEN NoScene
              ELSE [run EXCEPT !.older = @ \cup Changed(known),
                               !.since = @ \cup Changed(known)]

\* Nothing is under way or waiting on a lamp.
AtRest(l) ==
  /\ ~Runs(lamp[l]) /\ lamp[l].prev = Away /\ ~lamp[l].replayed
  /\ carries[l] = "nothing"

Only(l, k) == [lamp EXCEPT ![l] = k]

\* Somebody acted on the lamps in S.
Acts(S) == acts' = acts + 1 /\ dark' = dark \ S

Itself == UNCHANGED <<acts, dark>>

\* The scene that ran last is not done with the lamp.
Pending(l) == ~scene.over \/ l \in scene.todo \/ carries[l] = "scene"

\* What each aim can come to.
Reach == [aim \in Aims |-> Reaches(aim)]

-----------------------------------------------------------------------------
(* Owners *)

\* A slip: only the first lamp is asked.
ValidOnFirst(req, S) ==
  \A l \in S : (\A j \in S : Rank[l] <= Rank[j]) =>
    ApplySet(lamp[l].rec, req).result \notin Refusals

\* validate_set: on copies of the records, before anything is touched.
Valid(req, S) == \A l \in S : ApplySet(lamp[l].rec, req).result \notin Refusals

\* What set_layer has made of a lamp when it comes to the policy.
Ready(l) == [Flush(lamp[l]) EXCEPT !.rec = LearnBase(@)]

SetOn(k, req) == ApplySet(k.rec, req)

\* A change waiting on a lamp is judged only now, so that the policy may refuse
\* what validate_set let through; the lamps that follow are not reached.
Refused(req, S) == {l \in S : SetOn(Ready(l), req).result \in Refusals}

Reached(out) ==
  {l \in DOMAIN out :
     \A j \in DOMAIN out : out[j].result \in Refusals => Rank[l] <= Rank[j]}

\* A set or a clear made `rec` of the record: rendered if that changed the
\* command, or mends a lamp that does not show it.
Commanded(k, rec) ==
  IF \/ EffectiveNow(rec) # EffectiveNow(k.rec)
     \/ rec.diverged \in {"delivery", "partial", "colour"}
  THEN Send([k EXCEPT !.rec = rec]) ELSE [k EXCEPT !.rec = rec]

SetOf(k, out) ==
  IF out.result \in Skips \cup Refusals THEN [k EXCEPT !.rec = out.rec]
  ELSE Commanded(k, out.rec)

\* Where an owner now has a layer they did not have, or another one.
Owned(out) ==
  {l \in Reached(out) : out[l].result \notin Skips \cup Refusals \cup {"refreshed"}}

SetLayer(req, aim) ==
  \E reach \in Reach[aim] :
    /\ reach.lamps # {} /\ Valid(req, reach.lamps)
    /\ \E ready \in {[l \in reach.lamps |-> Ready(l)]} :
         \E out \in {[l \in reach.lamps |-> SetOn(ready[l], req)]} :
           /\ Made([l \in Lamp |-> IF l \in Reached(out) THEN SetOf(ready[l], out[l])
                                     ELSE lamp[l]], press, scene)
           /\ later' = [c \in Dates |-> later[c] \cup Owned(out)]
    /\ UNCHANGED <<carries, stamp>>
    /\ Acts(reach.lamps)

ClearOf(k, i) == Commanded(k, ApplyClear(k.rec, i))

\* A clear that names no lamp is for all that have the layer or its tombstone.
ClearLayer(i) ==
  LET S == {l \in Lamp : \/ Present(lamp[l].rec.layers, i)
                         \/ lamp[l].rec.tombs[i] # NoTomb}
  IN /\ S # {}
     /\ Made([l \in Lamp |-> IF l \in S THEN ClearOf(Flush(lamp[l]), i) ELSE lamp[l]], press, scene)
     /\ UNCHANGED <<carries, stamp, later>>
     /\ Acts({l \in S : Pending(l)})

-----------------------------------------------------------------------------
(* A person's call, and the loop that makes it again *)

\* The call, under its key in `to`, is heard: each lamp may show it already.
Heard(to) ==
  LET cmd == Intent(to.call)
      noted(l) == [lamp[l] EXCEPT !.room = @ \/ l \in to.via]
      known == [l \in Lamp |->
                  IF l \notin to.lamps THEN lamp[l]
                  ELSE ByIntent(noted(l), cmd, NamedBy(to.call), l \in to.older)]
  IN /\ Made(known, to, scene)
     /\ carries' = [l \in Lamp |-> IF l \in to.lamps THEN "press" ELSE carries[l]]
     /\ stamp' = [l \in Lamp |-> IF l \in to.lamps \ to.via THEN "press" ELSE stamp[l]]

Press(call, aim) ==
  \E reach \in Reach[aim] :
    /\ press = NoPress /\ reach.lamps # {}
    /\ \A l \in Lamp : ~lamp[l].room
    /\ Heard([memory |-> "heard", call |-> call, aim |-> aim,
              lamps |-> reach.lamps, via |-> reach.via, older |-> {}, loops |-> TRUE])
    /\ later' = [later EXCEPT !["press"] = {}]
    /\ Acts(reach.lamps)

\* The loop makes the call again: its first sighting stays.
PressAgain ==
  /\ press.loops
  /\ Heard([press EXCEPT !.memory = "heard",
                         !.older = IF press.memory = "gone" THEN {} ELSE @])
  /\ dark' = dark \ press.lamps
  /\ UNCHANGED <<later, acts>>

LoopEnds ==
  /\ press.loops
  /\ press' = [press EXCEPT !.loops = FALSE]
  /\ UNCHANGED <<lamp, scene, carries, stamp, later>>
  /\ Itself

Outstanding(whose) == \E l \in Lamp : whose \in {carries[l], stamp[l]}

\* A slip: the first sighting goes with the call.
ForgetsAll(was) ==
  [to |-> [was EXCEPT !.memory = "gone"],
   may |-> was.memory = "heard" /\ ~Outstanding("press")]

\* _prune_calls: the call 10 s after it was last made, when the lamps have long
\* answered it; its first sighting when the longest gap of a loop is over.
Forgets(was) ==
  IF was.memory = "heard"
  THEN [to |-> [was EXCEPT !.memory = "seen"], may |-> ~Outstanding("press")]
  ELSE [to |-> NoPress, may |-> ~was.loops]

\* A slip: the call is forgotten, the room's call on the lamps is not.
RoomsKept == lamp

RoomsForgotten == [l \in Lamp |-> [lamp[l] EXCEPT !.room = FALSE]]

Prune ==
  /\ press # NoPress /\ Forgets(press).may
  /\ press' = Forgets(press).to
  /\ lamp' = RoomsForgotten
  /\ later' = IF press' = NoPress THEN [later EXCEPT !["press"] = {}] ELSE later
  /\ UNCHANGED <<scene, carries, stamp>>
  /\ Itself

-----------------------------------------------------------------------------
(* A scene *)

Scene(wanted) ==
  /\ scene.over /\ ~Outstanding("scene")
  /\ Made(lamp, press, [wanted |-> wanted, todo |-> Lamp, reached |-> {},
                       older |-> {}, called |-> {}, since |-> {}, over |-> FALSE])
  /\ later' = [later EXCEPT !["scene"] = {}, !["call"] = {}]
  /\ dark' = {l \in Lamp : wanted.state = "off" /\ AtRest(l)}
  /\ UNCHANGED <<carries, stamp>>
  /\ acts' = acts + 1

\* It sends nothing to a member that matches; any other it calls only now, and
\* that call takes the place of the one before under its context (_handle_call).
SceneVisits(l) ==
  /\ l \in scene.todo
  /\ IF lamp[l].rec.observed.state = scene.wanted.state
     THEN /\ scene' = [scene EXCEPT !.todo = @ \ {l}]
          /\ UNCHANGED <<carries, stamp, later>>
     ELSE /\ scene' = [scene EXCEPT !.todo = @ \ {l}, !.called = {l}, !.since = {},
                                   !.reached = IF scene.over THEN @ ELSE @ \cup {l}]
          /\ carries' = [carries EXCEPT ![l] = "scene"]
          /\ stamp' = [stamp EXCEPT ![l] = "scene"]
          /\ later' = [later EXCEPT !["call"] = {}]
  /\ UNCHANGED <<lamp, press>>
  /\ Itself

\* The run is dropped when it settles; what it wanted stays with the lamps that
\* still answer it.
Remembered(run, stamps) ==
  IF /\ run.over /\ run.todo = {}
     /\ \A l \in Lamp : "scene" \notin {carries[l], stamps[l]}
  THEN NoScene ELSE [run EXCEPT !.reached = IF run.over THEN {} ELSE @]

SceneLater ==
  IF scene' = NoScene THEN [later EXCEPT !["scene"] = {}, !["call"] = {}] ELSE later

\* A slip: a member that was skipped is left alone.
ClaimsNothing(run) == {}

\* The members that the scene sent nothing.
Claims(run) == Lamp \ run.reached

\* Two seconds later they are taken to have been sent what it wanted, when it ran.
SceneSettles ==
  LET call == ReproducedCall(scene.wanted)
      known == [l \in Lamp |->
                  IF l \notin Claims(scene) THEN lamp[l]
                  ELSE ByIntent(lamp[l], Intent(call), NamedBy(call), l \in scene.older)]
  IN /\ ~scene.over
     /\ Made(known, press, Remembered([scene EXCEPT !.over = TRUE], stamp))
     /\ later' = SceneLater
     /\ UNCHANGED <<carries, stamp>>
     /\ Itself

-----------------------------------------------------------------------------
(* The lamps, and the engine's timers *)

\* The call a report `o` from lamp l is put down to: by the context on it, or
\* because the room's call does not contradict it.
CallBehind(l, o) ==
  CASE stamp[l] = "scene" -> "scene"
    [] /\ stamp[l] # "scene" /\ press.memory = "heard"
       /\ \/ stamp[l] = "press"
          \/ lamp[l].room /\ ~Contradicts(Intent(press.call), o) -> "press"
    [] OTHER -> "nobody"

\* What the report takes and what a person chose with it.  A call that does not
\* name the lamp takes everything the lamp shows.
TakenBy(call, reaches, before, o) ==
  IF reaches THEN CallGroups(NamedBy(call), before, o) ELSE Everything

ChosenBy(call, before, o) ==
  Chosen(IF Intent(call) = Nothing THEN Everything ELSE NamedBy(call), before, o)

Reported(l, o) ==
  LET k == lamp[l]
      before == k.rec.observed
      whose == CallBehind(l, o)
      call == IF whose = "scene" THEN ReproducedCall(scene.wanted) ELSE press.call
      reaches == whose = "scene" => l \in scene.called
      old == l \in (IF whose = "scene" THEN scene.since ELSE press.older)
  IN IF whose # "nobody"
     THEN ByCall(k, TakenBy(call, reaches, before, o), ChosenBy(call, before, o), o, old)
     ELSE [k EXCEPT !.rec = Showing(@, o),
                    !.prev = IF @ = Away /\ ~Runs(k) THEN k.rec.observed ELSE @]

\* What a lamp shows once it has carried out what it was called to.
Target(l) ==
  CASE carries[l] = "scene" -> scene.wanted
    [] carries[l] = "press" -> Intent(press.call)
    [] OTHER -> lamp[l].job

\* It carries out a call of someone else's first, then our render.
Answers(l) ==
  /\ carries[l] # "nothing"
  /\ IF ShowsTarget(lamp[l].rec.observed, Target(l))
     THEN UNCHANGED <<lamp, press, scene>>
     ELSE \E o \in Reports :
            /\ o # lamp[l].rec.observed
            /\ Target(l) # Nothing => ShowsTarget(o, Target(l))
            /\ Made(Only(l, Reported(l, o)), press, scene)
  /\ carries' = [carries EXCEPT ![l] = "nothing"]
  /\ UNCHANGED <<stamp, later>>
  /\ Itself

\* A render that arrived; the colour may be another (_verified).
Verified(k) ==
  [k EXCEPT !.job = Nothing, !.rec.owed = "nothing",
            !.rec.diverged = IF Matches(k.rec.observed, k.job) = "colour_off"
                             THEN "colour" ELSE "none"]

Landed(k, o) ==
  IF Matches(k.rec.observed, k.job) # "no" THEN Verified(k)
  ELSE Verified([k EXCEPT !.rec = SeenOffIf(Showing(@, o), o.state = "off")])

\* Our command lands and is verified; the lamp's reports are under our context.
OwnLands(l) ==
  /\ Runs(lamp[l]) /\ carries[l] = "nothing"
  /\ \E o \in Reports :
       /\ Matches(o, lamp[l].job) # "no"
       /\ Made(Only(l, Landed(lamp[l], o)), press, scene)
  /\ stamp' = [stamp EXCEPT ![l] = "none"]
  /\ UNCHANGED <<carries, later>>
  /\ Itself

\* Someone at the lamp.
Person(l, o) ==
  /\ o # lamp[l].rec.observed
  /\ Made(Only(l, Reported(l, o)), press, scene)
  /\ UNCHANGED <<carries, stamp, later>>
  /\ Acts({l})

SettleDebounce(l) ==
  /\ lamp[l].prev # Away
  /\ Made(Only(l, Settled(lamp[l])), press, scene)
  /\ UNCHANGED <<carries, stamp, later>>
  /\ Itself

\* 20 s after the last replay, when the loop has gone quiet.
AfterReplay(l) ==
  /\ lamp[l].replayed /\ carries[l] = "nothing"
  /\ Made(Only(l, [Send(Flush(lamp[l])) EXCEPT !.replayed = FALSE]), press, scene)
  /\ UNCHANGED <<carries, stamp, later>>
  /\ Itself

\* Home Assistant puts a context on a lamp's reports for 5 s.
WindowCloses(l) ==
  /\ stamp[l] # "none" /\ carries[l] # stamp[l]
  /\ stamp' = [stamp EXCEPT ![l] = "none"]
  /\ scene' = Remembered(scene, stamp')
  /\ later' = SceneLater
  /\ UNCHANGED <<lamp, press, carries>>
  /\ Itself

-----------------------------------------------------------------------------

Owner ==
  \/ \E req \in Requests, aim \in Aims : SetLayer(req, aim)
  \/ \E i \in Id : ClearLayer(i)

Someone ==
  \/ \E call \in Calls, aim \in Aims : Press(call, aim)
  \/ \E wanted \in Scenes : Scene(wanted)
  \/ \E l \in Lamp, o \in Reports : Person(l, o)

World ==
  \/ PressAgain
  \/ LoopEnds
  \/ \E l \in Lamp : SceneVisits(l) \/ Answers(l) \/ OwnLands(l) \/ WindowCloses(l)

Engine ==
  \/ Prune
  \/ SceneSettles
  \/ \E l \in Lamp : SettleDebounce(l) \/ AfterReplay(l)

Next == (acts < MaxActs /\ (Owner \/ Someone)) \/ World \/ Engine

Spec == Init /\ [][Next]_vars

-----------------------------------------------------------------------------
(* Properties *)

\* A press made again, and a scene that settles, never take back a layer an
\* owner set after the press was made or the scene ran (_replay, the first
\* sightings of _handle_call, run.at).  Nor does a lamp's answer take back one
\* set after the call it is put down to: the press, or the last call made under
\* the scene's context.  (An answer to an earlier call of the scene does take
\* back what was set between the two: _calls has one call per context.)
OldPressStaysOld ==
  [][\A l \in Lamp, i \in Id :
       /\ i \in Live(lamp[l].rec.layers)
       /\ ~Present(lamp'[l].rec.layers, i)
       => /\ PressAgain => l \notin later["press"]
          /\ SceneSettles => l \notin later["scene"]
          /\ carries[l] # "nothing" /\ Answers(l) =>
               l \notin later[IF stamp[l] = "scene" THEN "call" ELSE "press"]]_vars

\* "If a layer is what made it match [...], the layer outlives the scene, and
\* clearing it later puts the old base back: the scene is undone" (scenes.py):
\* a lamp a scene left off stays meant to be off until somebody acts on it.
SceneHolds ==
  \A l \in dark : ~Pending(l) => EffectiveNow(lamp[l].rec).state = "off"

\* When nothing is under way on a lamp any more, it shows what it is meant to
\* show, or its record says that it does not: whatever was replayed is put right.
AllShow ==
  \A l \in Lamp :
    AtRest(l) => \/ Shows(lamp[l].rec, EffectiveNow(lamp[l].rec)) = "yes"
                 \/ lamp[l].rec.diverged # "none"

Led == [aim \in Aims \cup {{}}, vendor \in BOOLEAN |->
          {l \in Lamp : LeadsTo(aim, l, vendor)}]

\* In whatever order a call's entities are taken, it reaches the lamps its rooms
\* list, and is put down to a bridge only where a vendor's room leads, always
\* where nothing else does (expand).
RoomsLead ==
  /\ press.lamps = Led[press.aim, TRUE] \cup Led[press.aim, FALSE]
  /\ press.via \subseteq Led[press.aim, TRUE]
  /\ press.lamps \ press.via \subseteq Led[press.aim, FALSE]

\* A layers.set that names its priority and that validate_set lets through is
\* refused by no lamp but one that bars the layer, so that validate_set did not
\* come to its priority, and whose follow layers hold that priority.
SetGoesThrough ==
  \A req \in Requests :
    req.priority # NoPriority =>
      \A l \in Refused(req, Lamp) :
        (\E S \in SUBSET Lamp : l \in S /\ Valid(req, S)) =>
          /\ LiveTomb(lamp[l].rec, req.layer)
          /\ \E j \in OfMode(lamp[l].rec.layers, "follow") :
               lamp[l].rec.layers[j].prio = req.priority

\* "Raise PolicyError before touching any lamp if one of them would refuse"
\* (validate_set).
SetIsAllOrNothing ==
  \A req \in Requests, S \in SUBSET Lamp : Valid(req, S) => Refused(req, S) = {}

=============================================================================
