------------------------------- MODULE Policy -------------------------------
(***************************************************************************)
(* The policy, logic/policy.py: what a set, a clear, an external change,   *)
(* a replay or an expiry does to a lamp's record.  The code's functions    *)
(* mutate the record and return a small result; here each is an operator   *)
(* from a record to a record with the result beside it.  Nothing here      *)
(* sends anything.                                                         *)
(*                                                                         *)
(* Times are reduced to what the code asks of them.  A lease (expires_at,  *)
(* manual_until) is "none", "running" or "over"; `last` is the last        *)
(* external change while it is young enough to matter; `changed` says that *)
(* last_layers_change is later than the first sighting of the foreign call *)
(* at hand.  Of an owed command only its age is kept: its target is the    *)
(* renderer's.  Owners, transitions, sources of a base and the times kept  *)
(* for the log are left out: nothing modelled depends on them.             *)
(***************************************************************************)
EXTENDS Resolve

CONSTANTS
  Self,         \* this lamp, as an entity a follow request could name
  NoPriority,   \* a set that names no priority
  NoTomb        \* what a lamp holds for an id that is not tombstoned

ASSUME PolicyAssumption ==
  /\ Self \notin Source \cup {NoSource}
  /\ NoPriority \notin Priority
  /\ {"base", "active", "all"} \cap Id = {}

-----------------------------------------------------------------------------

Tomb == [lease : Lease, lift : BOOLEAN]

ASSUME TombAssumption == NoTomb \notin Tomb

\* Whether Layers owes the lamp a command; an old debt is one past
\* OWED_ON_MAX_AGE_S.
Owed == {"nothing", "owed", "old"}

Policies == {"take_back", "edit_active", "base_keep_layers", "reassert"}

ChangeSource == {"user", "automation", "device"}

Divergence == {"none", "delivery", "partial", "manual_keep", "unsynced", "colour"}

\* Every group the change shows (groups=None), as against the ones it names.
Everything == Group \cup {"rest"}

Take == (SUBSET Group) \cup {Everything}

\* The last external change; one nobody asks about any more is Forgotten.
\* `tail`: nothing of Layers' own came since, so a report can be its tail.
External == [policy : Policies \cup {"replay", "none"}, source : ChangeSource,
             groups : Take, tail : BOOLEAN]

Forgotten == [policy |-> "none", source |-> "device", groups |-> {}, tail |-> FALSE]

Record == [base : Command,
           layers : [Id -> Layer \cup {NoLayer}],
           tombs : [Id -> Tomb \cup {NoTomb}],
           observed : Report,          \* the latest report
           atDrop : Report,            \* p_at_drop; Away where it is None
           owed : Owed,
           diverged : Divergence,
           last : External,
           changed : BOOLEAN]

NewRecord(obs) ==
  [base |-> Nothing,
   layers |-> [i \in Id |-> NoLayer],
   tombs |-> [i \in Id |-> NoTomb],
   observed |-> obs,
   atDrop |-> Away,
   owed |-> "nothing",
   diverged |-> "none",
   last |-> Forgotten,
   changed |-> FALSE]

SetRequest == [layer : Id \cup {"base", "active"}, command : Command,
               priority : Priority \cup {NoPriority}, mode : Mode,
               lease : Lease, resume : BOOLEAN, render : BOOLEAN,
               onlyIfPresent : BOOLEAN, source : Source \cup {NoSource, Self},
               manualTimeout : BOOLEAN]

-----------------------------------------------------------------------------
(* Helpers *)

Available(rec) == rec.observed.state # "away"

EffectiveNow(rec) == Effective(rec.base, rec.layers)

\* Layers acts after the last external change: only the cooldown of a
\* reassert still asks about it.
Past(last) ==
  IF last.policy = "reassert" THEN [last EXCEPT !.tail = FALSE] ELSE Forgotten

\* The layers or the base are changed now (last_layers_change).
LayersChanged(rec) == [rec EXCEPT !.changed = TRUE, !.last = Past(@)]

LiveTomb(rec, i) == rec.tombs[i] # NoTomb /\ rec.tombs[i].lease # "over"

\* A slip: only layers of the mode "set" conflict.
PriorityTakenBySet(rec, prio, i) ==
  \E j \in OfMode(rec.layers, "set") \ {i} : rec.layers[j].prio = prio

PriorityTaken(rec, prio, i) ==
  \E j \in Live(rec.layers) \ {i} : rec.layers[j].prio = prio

\* An adjust layer's command with the brightness and colour `over` gives.
MergeAttributes(cmd, over, groups) ==
  Merge(IF cmd.state = "off" THEN Nothing ELSE cmd, over, AttrGroup \cap groups)

\* Does the lamp's latest report show the command: "yes", "no" or "unknown".
Shows(rec, cmd) ==
  CASE ~Available(rec) \/ cmd = Nothing -> "unknown"
    [] Available(rec) /\ cmd # Nothing ->
         IF Matches(rec.observed, Project(cmd)) = "yes" THEN "yes" ELSE "no"

\* A slip: a take-back always counts as shown.
PartialNever(rec, groups) == FALSE

\* A command but for `groups`.
Rest(cmd, groups) ==
  Cmd("on", IF "brightness" \in groups THEN NoValue ELSE cmd.bri,
            IF "color" \in groups THEN NoValue ELSE cmd.col)

\* A change that took only `groups` left the lamp showing something else in
\* the rest of its new effective command.
Partial(rec, groups) ==
  /\ groups # Everything
  /\ EffectiveNow(rec).state = "on"
  /\ Shows(rec, Rest(EffectiveNow(rec), groups)) = "no"

\* A slip: a repeated set takes the lease it names, and so none.
RenewedBare(lay, req, keep) == [lay EXCEPT !.lease = req.lease]

\* The lease of a set: an identical set without an expiry keeps the one there is.
Renewed(lay, req, keep) ==
  [lay EXCEPT !.lease = IF keep /\ req.lease = "none" THEN @ ELSE req.lease]

Optioned(lay, req) ==
  [Renewed(lay, req, FALSE) EXCEPT !.resume = req.resume, !.render = req.render]

\* A slip: a renewal is taken as it was sent.
AsSent(cmd, mode) == cmd

\* A request's command as a layer of `mode` reads it.
AsMode(cmd, mode) ==
  CASE mode = "set" /\ cmd.state = "none" -> [cmd EXCEPT !.state = "on"]
    [] mode = "adjust" /\ cmd.state = "on" -> [cmd EXCEPT !.state = "none"]
    [] OTHER -> cmd

\* An edit turning an adjust layer off; what its owner asked for is kept.
ToSetOff(lay) == [lay EXCEPT !.mode = "set", !.command = OffCommand]

-----------------------------------------------------------------------------
(* layers.set *)

Outcome(rec, result) == [rec |-> rec, result |-> result]

PutLayer(rec, i, lay, result) ==
  Outcome(LayersChanged([rec EXCEPT !.layers[i] = lay]), result)

SetBaseLayer(rec, req) ==
  LET merged == Merge(rec.base, req.command, Everything)
  IN Outcome(LayersChanged([rec EXCEPT !.base = AsMode(merged, "set")]), "base_set")

SetActiveLayer(rec, req) ==
  LET top == EditableLayer(rec.base, rec.layers)
      lay == rec.layers[top]
      edited ==
        CASE lay.mode = "adjust" /\ req.command.state = "off" -> ToSetOff(lay)
          [] lay.mode = "adjust" /\ req.command.state # "off" ->
               [lay EXCEPT !.command = MergeAttributes(@, req.command, Everything)]
          [] lay.mode # "adjust" ->
               [lay EXCEPT !.command = Merge(@, req.command, Everything)]
  IN IF top = NoId THEN SetBaseLayer(rec, req)
     ELSE PutLayer(rec, top, edited, "active_set")

\* A follow request names a source and nothing a source would give.  A
\* renewal may leave the source out.
FollowRefused(rec, req) ==
  \/ req.layer \in {"base", "active"}
  \/ /\ req.source = NoSource
     /\ \/ ~req.onlyIfPresent
        \/ Present(rec.layers, req.layer) /\ rec.layers[req.layer].asked # "follow"
  \/ req.source = Self
  \/ req.source # NoSource /\ Groups(req.command) # {}

RenewsFollow(rec, req) ==
  /\ req.onlyIfPresent
  /\ req.layer \in Live(rec.layers)
  /\ rec.layers[req.layer].asked = "follow"

NewLayer(req) ==
  LET follows == req.mode = "follow"
  IN [prio |-> req.priority, mode |-> req.mode, asked |-> req.mode,
      requested |-> req.command, command |-> req.command, lease |-> req.lease,
      resume |-> req.resume, render |-> req.render,
      source |-> IF follows THEN req.source ELSE NoSource,
      manual |-> {}, manualLease |-> "none",
      manualTimeout |-> follows /\ req.manualTimeout]

CreateLayer(rec, req) ==
  CASE req.onlyIfPresent -> Outcome(rec, "skipped_absent")
    [] ~req.onlyIfPresent /\ req.priority = NoPriority ->
         Outcome(rec, "priority_required")
    [] ~req.onlyIfPresent /\ req.priority # NoPriority ->
         IF PriorityTaken(rec, req.priority, req.layer)
         THEN Outcome(rec, "priority_conflict")
         ELSE PutLayer(rec, req.layer, NewLayer(req), "created")

\* The priority a set of an existing layer asks for.
PriorityOf(lay, req) == IF req.priority = NoPriority THEN lay.prio ELSE req.priority

Moves(lay, req) == PriorityOf(lay, req) # lay.prio

\* A set of an existing follow layer: the same source (or a renewal) only
\* refreshes it.  A new source or priority is an update.
SetFollowLayer(rec, req) ==
  LET lay == rec.layers[req.layer]
      newSource == ~req.onlyIfPresent /\ req.source # lay.source
      timeout == lay.manualTimeout \/ req.manualTimeout
      refreshed == [Renewed(lay, req, TRUE) EXCEPT !.manualTimeout = timeout]
      updated == [Optioned(lay, req) EXCEPT
                    !.prio = PriorityOf(lay, req),
                    !.source = IF newSource THEN req.source ELSE @,
                    !.command = IF newSource THEN Nothing ELSE @,
                    !.manual = {},
                    !.manualLease = "none",
                    !.manualTimeout = timeout]
  IN CASE ~Moves(lay, req) /\ ~newSource ->
            Outcome([rec EXCEPT !.layers[req.layer] = refreshed], "refreshed")
       [] Moves(lay, req) /\ PriorityTaken(rec, req.priority, req.layer) ->
            Outcome(rec, "priority_conflict")
       [] OTHER -> PutLayer(rec, req.layer, updated, "updated")

\* A set of an existing set or adjust layer: what its owner already asked for
\* only refreshes it; anything else replaces it.  A renewal keeps its mode.
UpdateLayer(rec, req) ==
  LET lay == rec.layers[req.layer]
      mode == IF req.onlyIfPresent THEN lay.asked ELSE req.mode
      command == IF req.onlyIfPresent THEN AsMode(req.command, mode) ELSE req.command
      follows == mode = "follow"
      updated == [Optioned(lay, req) EXCEPT
                    !.prio = PriorityOf(lay, req),
                    !.mode = mode, !.asked = mode,
                    !.requested = command, !.command = command,
                    !.source = IF follows THEN req.source ELSE NoSource,
                    !.manual = {},
                    !.manualLease = "none",
                    !.manualTimeout = follows /\ req.manualTimeout]
  IN CASE command = lay.requested /\ mode = lay.asked /\ ~Moves(lay, req) ->
            Outcome([rec EXCEPT !.layers[req.layer] = Renewed(lay, req, TRUE)],
                    "refreshed")
       [] Moves(lay, req) /\ PriorityTaken(rec, req.priority, req.layer) ->
            Outcome(rec, "priority_conflict")
       [] OTHER -> PutLayer(rec, req.layer, updated, "updated")

\* A slip: a tombstone does not stop a set.
SetNamedLayerUnbarred(rec, req) ==
  IF req.layer \notin Live(rec.layers) THEN CreateLayer(rec, req)
  ELSE UpdateLayer(rec, req)

SetNamedLayer(rec, req) ==
  CASE req.lease = "over" -> Outcome(rec, "invalid_request")
    [] req.lease # "over" /\ LiveTomb(rec, req.layer) ->
         Outcome(rec, "skipped_tombstoned")
    [] OTHER ->
         IF req.layer \notin Live(rec.layers) THEN CreateLayer(rec, req)
         ELSE IF /\ rec.layers[req.layer].asked = "follow"
                 /\ req.onlyIfPresent \/ req.mode = "follow"
              THEN SetFollowLayer(rec, req)
              ELSE UpdateLayer(rec, req)

ApplySet(rec, req) ==
  IF \/ req.mode = "follow" /\ FollowRefused(rec, req)
     \/ req.mode # "follow" /\ Groups(req.command) = {} /\ ~RenewsFollow(rec, req)
  THEN Outcome(rec, "invalid_request")
  ELSE CASE req.layer = "base" -> SetBaseLayer(rec, req)
         [] req.layer = "active" -> SetActiveLayer(rec, req)
         [] OTHER -> SetNamedLayer(rec, req)

-----------------------------------------------------------------------------
(* layers.clear *)

Expired(rec) == {i \in Id : Present(rec.layers, i)} \ Live(rec.layers)

\* The layers a clear is about; `active` names at most one.
Cleared(rec, target) ==
  CASE target = "all" -> Id
    [] target = "active" -> {ActiveLayer(rec.base, rec.layers)} \ {NoId}
    [] OTHER -> {target}

\* The live layers go; one that ran out and is still there is marked, for the
\* expiry to render.  `active` lifts no tombstone.
ApplyClear(rec, target) ==
  LET about == Cleared(rec, target)
      removed == about \cap Live(rec.layers)
      expired == about \cap Expired(rec)
      cleared ==
        [rec EXCEPT
           !.layers = [i \in Id |->
                         CASE i \in removed -> NoLayer
                           [] i \in expired -> [@[i] EXCEPT !.render = TRUE]
                           [] OTHER -> @[i]],
           !.tombs = [i \in Id |->
                         IF i \in about /\ target # "active" THEN NoTomb ELSE @[i]]]
  IN IF removed \cup expired = {} THEN cleared ELSE LayersChanged(cleared)

-----------------------------------------------------------------------------
(* A change Layers did not make *)

\* A person chose `chosen`: each live follow layer stops following those.
TakeOver(layers, chosen) ==
  LET hand == chosen \cap AttrGroup
  IN [i \in Id |->
        IF hand # {} /\ i \in OfMode(layers, "follow")
        THEN [layers[i] EXCEPT
                !.manual = @ \cup hand,
                !.manualLease = IF layers[i].manualTimeout THEN "running" ELSE @]
        ELSE layers[i]]

\* A slip: only the layer that decides is taken back.
DroppableTop(rec) == {EditableLayer(rec.base, rec.layers)} \ {NoId}

\* The layers take_back drops: all but the follow layers, run out or not.
Droppable(rec) ==
  {i \in Id : Present(rec.layers, i) /\ rec.layers[i].mode # "follow"}

DropAll(rec) ==
  [rec EXCEPT
     !.layers = [i \in Id |-> IF i \in Droppable(rec) THEN NoLayer ELSE @[i]],
     !.tombs = [i \in Id |->
                  IF i \in Droppable(rec)
                  THEN [lease |-> rec.layers[i].lease, lift |-> rec.layers[i].resume]
                  ELSE @[i]]]

\* A slip: an edit takes only attributes.
EditAttributes(lay, shown, groups) ==
  [lay EXCEPT !.command = MergeAttributes(@, shown, groups)]

\* The active layer's command takes what the lamp shows.
EditFromExternal(lay, shown, groups) ==
  IF lay.mode = "adjust"
  THEN IF "state" \in Groups(shown) \cap groups /\ shown.state = "off"
       THEN ToSetOff(lay)
       ELSE [lay EXCEPT !.command = MergeAttributes(@, shown, groups)]
  ELSE [lay EXCEPT !.command = Merge(@, shown, groups)]

\* A slip: the layers go, the base keeps what it was.
TakeBackLayers(rec, shown, groups) == DropAll(rec)

TakeBack(rec, shown, groups) ==
  LET dropped == DropAll([rec EXCEPT !.base = Merge(@, shown, groups)])
  IN [dropped EXCEPT !.diverged = IF Partial(dropped, groups) THEN "partial" ELSE "none"]

\* A slip: the decision does not reach the base.
EditLayerOnly(rec, shown, groups) ==
  LET top == EditableLayer(rec.base, rec.layers)
  IN [rec EXCEPT !.layers[top] = EditFromExternal(@, shown, groups)]

\* An on/off decision also reaches the base.
EditActive(rec, shown, groups) ==
  LET top == EditableLayer(rec.base, rec.layers)
      decides == "state" \in Groups(shown) \cap groups
      base == CASE decides /\ shown.state = "off" -> OffCommand
                [] decides /\ shown.state # "off" /\ rec.base.state # "on" ->
                     Merge(rec.base, shown, groups)
                [] OTHER -> rec.base
  IN [rec EXCEPT !.layers[top] = EditFromExternal(@, shown, groups), !.base = base]

\* A slip: the divergence of a hidden change is not noted.
BaseKeepSilently(rec, shown, groups) ==
  [rec EXCEPT !.base = Merge(@, shown, groups), !.diverged = "none"]

BaseKeep(rec, shown, groups) ==
  LET kept == [rec EXCEPT !.base = Merge(@, shown, groups)]
      hidden == /\ EditableLayer(kept.base, kept.layers) # NoId
                /\ Shows(kept, EffectiveNow(kept)) = "no"
  IN [kept EXCEPT !.diverged = CASE hidden -> "manual_keep"
                                 [] ~hidden /\ Partial(kept, groups) -> "partial"
                                 [] OTHER -> "none"]

\* Whether a reassert lamp takes this for its device misbehaving.
Reasserts(rec, source, policy) ==
  /\ policy = "reassert"
  /\ source = "device"
  /\ EditableLayer(rec.base, rec.layers) # NoId
  /\ rec.last.policy # "reassert"

\* `chosen` is what a person chose of brightness and colour; Everything stands
\* for the caller's None: the groups the change took.
ApplyExternal(rec, shown, groups, source, policy, chosen) ==
  LET again == Reasserts(rec, source, policy)
      acting == IF policy = "reassert" /\ ~again THEN "take_back" ELSE policy
      hand == IF chosen = Everything THEN Groups(shown) \cap groups ELSE chosen
      over == [rec EXCEPT !.layers = IF again THEN @ ELSE TakeOver(@, hand)]
      done == CASE again -> [over EXCEPT !.diverged = "delivery"]
                [] acting = "base_keep_layers" -> BaseKeep(over, shown, groups)
                [] /\ acting = "edit_active"
                   /\ EditableLayer(over.base, over.layers) # NoId ->
                     EditActive(over, shown, groups)
                [] OTHER -> TakeBack(over, shown, groups)
  IN [done EXCEPT
        !.owed = "nothing",
        !.last = [policy |-> acting, source |-> source, groups |-> groups,
                  tail |-> TRUE]]

\* A retry loop re-applying an old press: the base learns it, the layers stay.
ApplyReplay(rec, shown, groups, source) ==
  [rec EXCEPT
     !.base = Merge(@, shown, groups),
     !.last = [policy |-> "replay", source |-> source, groups |-> groups,
                  tail |-> TRUE]]

-----------------------------------------------------------------------------
(* Expiry, and small helpers *)

\* What a record is once what ran out has been removed.
Swept(rec) ==
  LET swept ==
        [rec EXCEPT
           !.layers = [i \in Id |-> IF i \in Expired(rec) THEN NoLayer ELSE @[i]],
           !.tombs = [i \in Id |-> IF LiveTomb(rec, i) THEN @[i] ELSE NoTomb]]
  IN IF Expired(rec) = {} THEN swept ELSE LayersChanged(swept)

\* The safety rule: no owner holds the lamp, nobody asked for a render, and
\* going to the new effective command would light or brighten it.
HeldBack(rec, shown) ==
  LET swept == Swept(rec)
  IN /\ Expired(rec) # {}
     /\ StateHolder(swept.layers) = NoId
     /\ \A i \in Expired(rec) : ~rec.layers[i].render
     /\ RaisesOutput(shown, EffectiveNow(swept))

\* A slip: the base survives a held-back expiry.
ExpireOnly(rec, shown) == Swept(rec)

\* Remove what ran out; the base becomes what the lamp shows when its new
\* effective command is held back.
Expire(rec, shown) ==
  [Swept(rec) EXCEPT
     !.base = IF HeldBack(rec, shown) THEN ObservedToCommand(shown) ELSE @]

\* Whether the new effective command may be sent.
ExpireRenders(rec, shown) ==
  /\ Expired(rec) # {}
  /\ ~HeldBack(rec, shown)
  /\ EffectiveNow(Swept(rec)) # Nothing

LiftOnOff(rec) ==
  [rec EXCEPT !.tombs =
     [i \in Id |-> IF @[i] # NoTomb /\ @[i].lift THEN NoTomb ELSE @[i]]]

\* The follow layers that follow again: all of them once the lamp is off,
\* else those whose time is over.
Released(rec, off) ==
  {i \in Id : /\ Present(rec.layers, i)
              /\ rec.layers[i].mode = "follow"
              /\ rec.layers[i].manual # {}
              /\ off \/ rec.layers[i].manualLease = "over"}

ReleaseManual(rec, off) ==
  [rec EXCEPT !.layers =
     [i \in Id |-> IF i \in Released(rec, off)
                   THEN [@[i] EXCEPT !.manual = {}, !.manualLease = "none"]
                   ELSE @[i]]]

RecordObservedAsBase(rec, obs) == [rec EXCEPT !.base = ObservedToCommand(obs)]

=============================================================================
