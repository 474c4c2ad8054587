---------------------------- MODULE PolicyProofs ----------------------------
(***************************************************************************)
(* What the policy makes of a record, for every record and every request   *)
(* and change.                                                             *)
(*                                                                         *)
(* Every policy function but a set keeps the record a record and puts no   *)
(* layer in force: what is in force after it was in force before, with the *)
(* same priority, and no tombstone is laid over it.  That is Quiet; it     *)
(* composes, and it carries UniqueIn and BarredIn.  A set may put one      *)
(* layer in force, and only where no live tombstone is and no live layer   *)
(* has the priority.                                                       *)
(***************************************************************************)
EXTENDS SetCalls, TLAPS, FiniteSetTheorems

\* No layer comes into force from r to q, and none is barred.
Quiet(r, q) ==
  \A i \in Live(q.layers) :
    /\ i \in Live(r.layers)
    /\ q.layers[i].prio = r.layers[i].prio
    /\ LiveTomb(q, i) => LiveTomb(r, i)

UniqueIn(r) ==
  \A i, j \in Live(r.layers) : r.layers[i].prio = r.layers[j].prio => i = j

BarredIn(r) == \A i \in Live(r.layers) : ~LiveTomb(r, i)

\* q is a record that r can quietly become.
Becomes(r, q) == q \in Record /\ Quiet(r, q)

\* From r to q the lamp shows what it showed; what it showed when it dropped may
\* be out of date.
SameSight(r, q) == q.observed = r.observed /\ q.atDrop \in {r.atDrop, Away}

\* Besides, every layer in force stays in force.
Retains(r, q) == SameSight(r, q) /\ Live(r.layers) \subseteq Live(q.layers)

-----------------------------------------------------------------------------
(* Commands *)

\* Merging two commands gives a command (merge_command).
LEMMA MergeType ==
  ASSUME NEW below \in Command, NEW over \in Command, NEW groups
  PROVE  Merge(below, over, groups) \in Command
BY DEF Merge, Command, Cmd, OffCommand, Nothing, Groups, Group

\* The off command, no command and an absent lamp's report have their types.
LEMMA ConstantCommands ==
  /\ OffCommand \in Command
  /\ Nothing \in Command
  /\ Away \in Report
BY DEF Command, Cmd, OffCommand, Nothing, Away, Report

\* What a lamp shows is a command (observed_to_command).
LEMMA ObservedType ==
  ASSUME NEW o \in Report
  PROVE  ObservedToCommand(o) \in Command
BY ConstantCommands DEF ObservedToCommand, Report, Command

\* Merging into an adjust layer's command (_merge_attributes).
LEMMA MergeAttributesType ==
  ASSUME NEW cmd \in Command, NEW over \in Command, NEW groups
  PROVE  MergeAttributes(cmd, over, groups) \in Command
<1>1. (IF cmd.state = "off" THEN Nothing ELSE cmd) \in Command
  BY ConstantCommands
<1> QED BY <1>1, MergeType DEF MergeAttributes

\* A request's command read for a layer's mode is a command (_as_mode).
LEMMA AsModeType ==
  ASSUME NEW cmd \in Command, NEW mode
  PROVE  AsMode(cmd, mode) \in Command
BY DEF AsMode, Command

-----------------------------------------------------------------------------
(* Quiet steps *)

\* Two quiet steps make one, so a handler is quiet when its calls are.
LEMMA QuietTransitive ==
  ASSUME NEW p, NEW q, NEW r, Becomes(p, q), Becomes(q, r)
  PROVE  Becomes(p, r)
BY DEF Becomes, Quiet

\* Changing nothing is quiet.
LEMMA QuietReflexive ==
  ASSUME NEW r \in Record
  PROVE  Becomes(r, r)
BY DEF Becomes, Quiet

\* Quiet steps carry what the two invariants say.
LEMMA QuietKeeps ==
  ASSUME NEW r, NEW q, Quiet(r, q), UniqueIn(r), BarredIn(r)
  PROVE  UniqueIn(q) /\ BarredIn(q)
BY DEF Quiet, UniqueIn, BarredIn

\* A record that differs in neither layers nor tombstones.
LEMMA SameLayers ==
  ASSUME NEW r \in Record, NEW q \in Record,
         q.layers = r.layers, q.tombs = r.tombs
  PROVE  Becomes(r, q)
BY DEF Becomes, Quiet, LiveTomb

\* Layers that stay where they are, with their priority and a lease no longer
\* than before.
LEMMA EditedLayers ==
  ASSUME NEW r \in Record, NEW layers \in [Id -> Layer \cup {NoLayer}],
         \A i \in Id : layers[i] # NoLayer =>
           /\ r.layers[i] # NoLayer
           /\ layers[i].prio = r.layers[i].prio
           /\ layers[i].lease \in {r.layers[i].lease, "over"}
  PROVE  Becomes(r, [r EXCEPT !.layers = layers])
<1>1. [r EXCEPT !.layers = layers] \in Record
  BY DEF Record
<1>2. \A i \in Live(layers) : i \in Live(r.layers) /\ layers[i].prio = r.layers[i].prio
  BY DEF Live, Present
<1> QED BY <1>1, <1>2 DEF Becomes, Quiet, LiveTomb, Record

\* Layers acting after an external change leaves a known one behind.
LEMMA PastType ==
  ASSUME NEW last \in External
  PROVE  Past(last) \in External
BY DEF Past, Forgotten, External, Take, ChangeSource, Policies

\* Noting that the layers changed puts none in force (last_layers_change).
LEMMA LayersChangedQuiet ==
  ASSUME NEW r \in Record
  PROVE  Becomes(r, LayersChanged(r))
<1>1. LayersChanged(r) \in Record
  BY PastType DEF LayersChanged, Record
<1> QED BY <1>1, SameLayers DEF LayersChanged, Record

\* A report, or forgetting what the lamp showed, puts no layer in force.
LEMMA ShowingQuiet ==
  ASSUME NEW r \in Record, NEW o \in Report
  PROVE  Becomes(r, Showing(r, o))
<1>1. Showing(r, o) \in Record
  BY DEF Showing, Record
<1> QED BY <1>1, SameLayers DEF Showing, Record

\* Superseding an absence puts no layer in force (_supersede).
LEMMA SupersedeQuiet ==
  ASSUME NEW r \in Record
  PROVE  Becomes(r, Supersede(r))
<1>1. [r EXCEPT !.atDrop = Away] \in Record
  BY ConstantCommands DEF Record
<1>2. Becomes(r, [r EXCEPT !.atDrop = Away])
  BY <1>1, SameLayers DEF Record
<1> QED BY <1>2, QuietReflexive DEF Supersede

\* record_observed_as_base, and a base that is merged.
LEMMA BaseQuiet ==
  ASSUME NEW r \in Record, NEW base \in Command
  PROVE  Becomes(r, [r EXCEPT !.base = base])
<1>1. [r EXCEPT !.base = base] \in Record
  BY DEF Record
<1> QED BY <1>1, SameLayers DEF Record

\* Learning the base from the lamp puts no layer in force (_learn_base).
LEMMA LearnBaseQuiet ==
  ASSUME NEW r \in Record
  PROVE  Becomes(r, LearnBase(r))
<1>1. ObservedToCommand(r.observed) \in Command
  BY ObservedType DEF Record
<1> QED BY <1>1, BaseQuiet, QuietReflexive DEF LearnBase, RecordObservedAsBase

-----------------------------------------------------------------------------
(* A change Layers did not make *)

\* What a lamp is owed, how it diverged and who changed it last do not concern
\* its layers.
LEMMA NotesQuiet ==
  ASSUME NEW r \in Record, NEW owed \in Owed, NEW d \in Divergence,
         NEW last \in External
  PROVE  Becomes(r, [r EXCEPT !.owed = owed, !.diverged = d, !.last = last])
<1>1. [r EXCEPT !.owed = owed, !.diverged = d, !.last = last] \in Record
  BY DEF Record
<1> QED BY <1>1, SameLayers DEF Record

\* Noting a divergence puts no layer in force.
LEMMA DivergedQuiet ==
  ASSUME NEW r \in Record, NEW d \in Divergence
  PROVE  Becomes(r, [r EXCEPT !.diverged = d])
<1>1. [r EXCEPT !.diverged = d] \in Record
  BY DEF Record
<1> QED BY <1>1, SameLayers DEF Record

\* A take-over from the follow layers puts no layer in force (_take_over).
LEMMA TakeOverQuiet ==
  ASSUME NEW r \in Record, NEW chosen
  PROVE  Becomes(r, [r EXCEPT !.layers = TakeOver(@, chosen)])
<1> DEFINE layers == TakeOver(r.layers, chosen)
<1>1. chosen \cap AttrGroup \in SUBSET AttrGroup
  OBVIOUS
<1>2. r.layers \in [Id -> Layer \cup {NoLayer}]
  BY DEF Record
<1>3. \A i \in OfMode(r.layers, "follow") : r.layers[i] \in Layer
  BY <1>2 DEF OfMode, Live, Present
<1>4. layers \in [Id -> Layer \cup {NoLayer}]
  BY <1>1, <1>2, <1>3 DEF TakeOver, Layer, Lease
<1>5. \A i \in Id : layers[i] # NoLayer =>
        /\ r.layers[i] # NoLayer
        /\ layers[i].prio = r.layers[i].prio
        /\ layers[i].lease = r.layers[i].lease
  BY <1>2, <1>3, LayerAssumption DEF TakeOver, Layer
<1> HIDE DEF layers
<1>6. Becomes(r, [r EXCEPT !.layers = layers])
  BY <1>4, <1>5, EditedLayers
<1> QED BY <1>6 DEF layers

\* take_back: what it drops is no longer in force, so what it bars is not.
LEMMA DropAllQuiet ==
  ASSUME NEW r \in Record
  PROVE  Becomes(r, DropAll(r))
<1>1. r.layers \in [Id -> Layer \cup {NoLayer}] /\ r.tombs \in [Id -> Tomb \cup {NoTomb}]
  BY DEF Record
<1>2. \A i \in Droppable(r) : r.layers[i] \in Layer
  BY <1>1 DEF Droppable, Present
<1>3. \A i \in Droppable(r) : [lease |-> r.layers[i].lease, lift |-> r.layers[i].resume] \in Tomb
  BY <1>2 DEF Layer, Tomb
<1>4. DropAll(r) \in Record
  BY <1>1, <1>3 DEF DropAll, Record
<1>5. \A i \in Live(DropAll(r).layers) :
        /\ i \in Live(r.layers)
        /\ DropAll(r).layers[i] = r.layers[i]
        /\ DropAll(r).tombs[i] = r.tombs[i]
  BY <1>1 DEF DropAll, Live, Present, Record
<1> QED BY <1>4, <1>5 DEF Becomes, Quiet, LiveTomb

\* A take-back puts no layer in force (apply_external, take_back).
LEMMA TakeBackQuiet ==
  ASSUME NEW r \in Record, NEW shown \in Command, NEW groups
  PROVE  Becomes(r, TakeBack(r, shown, groups))
<1> DEFINE based == [r EXCEPT !.base = Merge(@, shown, groups)]
           dropped == DropAll(based)
           d == IF Partial(dropped, groups) THEN "partial" ELSE "none"
<1>1. Merge(r.base, shown, groups) \in Command
  BY MergeType DEF Record
<1>2. Becomes(r, based)
  BY <1>1, BaseQuiet
<1>3. Becomes(based, dropped)
  BY <1>2, DropAllQuiet DEF Becomes
<1>4. d \in Divergence
  BY DEF Divergence
<1> HIDE DEF d, dropped, based
<1>5. Becomes(dropped, [dropped EXCEPT !.diverged = d])
  BY <1>3, <1>4, DivergedQuiet DEF Becomes
<1>6. Becomes(r, [dropped EXCEPT !.diverged = d])
  BY <1>2, <1>3, <1>5, QuietTransitive
<1> QED BY <1>6 DEF TakeBack, d, dropped, based

\* Keeping the layers over a changed base puts none in force
\* (base_keep_layers).
LEMMA BaseKeepQuiet ==
  ASSUME NEW r \in Record, NEW shown \in Command, NEW groups
  PROVE  Becomes(r, BaseKeep(r, shown, groups))
<1> DEFINE kept == [r EXCEPT !.base = Merge(@, shown, groups)]
           hidden == /\ EditableLayer(kept.base, kept.layers) # NoId
                     /\ Shows(kept, EffectiveNow(kept)) = "no"
           d == CASE hidden -> "manual_keep"
                  [] ~hidden /\ Partial(kept, groups) -> "partial"
                  [] OTHER -> "none"
<1>1. Merge(r.base, shown, groups) \in Command
  BY MergeType DEF Record
<1>2. Becomes(r, kept)
  BY <1>1, BaseQuiet
<1> HIDE DEF kept
<1>3. d \in Divergence
  <2> HIDE DEF hidden
  <2> QED BY DEF Divergence
<1> HIDE DEF d
<1>4. Becomes(kept, [kept EXCEPT !.diverged = d])
  BY <1>2, <1>3, DivergedQuiet DEF Becomes
<1>5. Becomes(r, [kept EXCEPT !.diverged = d])
  BY <1>2, <1>4, QuietTransitive
<1> QED BY <1>5 DEF BaseKeep, d, kept

\* The topmost of a set of layers is one of them.
LEMMA TopmostIn ==
  ASSUME NEW layers, NEW S, Topmost(layers, S) # NoId
  PROVE  Topmost(layers, S) \in S
BY DEF Topmost, Highest

\* An edit lands on a live layer (editable_layer).
LEMMA EditableIsLive ==
  ASSUME NEW r \in Record, NEW base, EditableLayer(base, r.layers) # NoId
  PROVE  /\ EditableLayer(base, r.layers) \in Live(r.layers)
         /\ r.layers[EditableLayer(base, r.layers)] \in Layer
<1>1. EditableLayer(base, r.layers) \in Live(r.layers)
  BY TopmostIn DEF EditableLayer
<1> QED BY <1>1 DEF Record, Live, Present

\* A layer put in the place of a live one, with its priority and its lease.
LEMMA ReplacedLayer ==
  ASSUME NEW r \in Record, NEW i \in Live(r.layers), NEW lay \in Layer,
         lay.prio = r.layers[i].prio, lay.lease = r.layers[i].lease
  PROVE  Becomes(r, [r EXCEPT !.layers[i] = lay])
<1> DEFINE layers == [r.layers EXCEPT ![i] = lay]
<1>1. r.layers \in [Id -> Layer \cup {NoLayer}] /\ i \in Id /\ r.layers[i] # NoLayer
  BY DEF Record, Live, Present
<1>2. layers \in [Id -> Layer \cup {NoLayer}]
  BY <1>1
<1>3. \A j \in Id : layers[j] # NoLayer =>
        /\ r.layers[j] # NoLayer
        /\ layers[j].prio = r.layers[j].prio
        /\ layers[j].lease = r.layers[j].lease
  BY <1>1
<1> HIDE DEF layers
<1>4. Becomes(r, [r EXCEPT !.layers = layers])
  BY <1>2, <1>3, EditedLayers
<1>5. [r EXCEPT !.layers = layers] = [r EXCEPT !.layers[i] = lay]
  BY DEF layers, Record
<1> QED BY <1>4, <1>5

\* A layer edited to what the lamp shows is a layer (_edit_from_external).
LEMMA EditFromExternalType ==
  ASSUME NEW lay \in Layer, NEW shown \in Command, NEW groups
  PROVE  /\ EditFromExternal(lay, shown, groups) \in Layer
         /\ EditFromExternal(lay, shown, groups).prio = lay.prio
         /\ EditFromExternal(lay, shown, groups).lease = lay.lease
<1>1. lay.command \in Command
  BY DEF Layer
<1>2. MergeAttributes(lay.command, shown, groups) \in Command
  BY <1>1, MergeAttributesType
<1>3. Merge(lay.command, shown, groups) \in Command
  BY <1>1, MergeType
<1> QED
  BY <1>2, <1>3, ConstantCommands DEF EditFromExternal, ToSetOff, Layer, Mode

\* Editing the active layer puts no other in force (edit_active).
LEMMA EditActiveQuiet ==
  ASSUME NEW r \in Record, NEW shown \in Command, NEW groups,
         EditableLayer(r.base, r.layers) # NoId
  PROVE  Becomes(r, EditActive(r, shown, groups))
<1> DEFINE top == EditableLayer(r.base, r.layers)
           lay == EditFromExternal(r.layers[top], shown, groups)
           edited == [r EXCEPT !.layers[top] = lay]
           decides == "state" \in Groups(shown) \cap groups
           base == CASE decides /\ shown.state = "off" -> OffCommand
                     [] decides /\ shown.state # "off" /\ r.base.state # "on" ->
                          Merge(r.base, shown, groups)
                     [] OTHER -> r.base
<1>1. top \in Live(r.layers) /\ r.layers[top] \in Layer
  BY EditableIsLive
<1> HIDE DEF top
<1>2. /\ lay \in Layer
      /\ lay.prio = r.layers[top].prio
      /\ lay.lease = r.layers[top].lease
  BY <1>1, EditFromExternalType
<1> HIDE DEF lay
<1>3. Becomes(r, edited)
  BY <1>1, <1>2, ReplacedLayer
<1>4. r.base \in Command /\ Merge(r.base, shown, groups) \in Command
  BY MergeType DEF Record
<1>5. base \in Command
  <2> HIDE DEF decides
  <2> QED BY <1>4, ConstantCommands
<1> HIDE DEF base, edited
<1>6. Becomes(r, [edited EXCEPT !.base = base])
  BY <1>3, <1>5, BaseQuiet, QuietTransitive DEF Becomes
<1>7. [edited EXCEPT !.base = base] = [r EXCEPT !.layers[top] = lay, !.base = base]
  BY DEF edited
<1> QED BY <1>6, <1>7 DEF EditActive, base, lay, top

\* A change Layers did not make puts no layer in force, whatever the policy
\* (apply_external).
LEMMA ApplyExternalQuiet ==
  ASSUME NEW r \in Record, NEW shown \in Command, NEW groups \in Take,
         NEW source \in ChangeSource, NEW policy \in Policies, NEW chosen
  PROVE  Becomes(r, ApplyExternal(r, shown, groups, source, policy, chosen))
<1> DEFINE again == Reasserts(r, source, policy)
           acting == IF policy = "reassert" /\ ~again THEN "take_back" ELSE policy
           hand == IF chosen = Everything THEN Groups(shown) \cap groups ELSE chosen
           over == [r EXCEPT !.layers = IF again THEN @ ELSE TakeOver(@, hand)]
           edits == acting = "edit_active" /\ EditableLayer(over.base, over.layers) # NoId
           done == CASE again -> [over EXCEPT !.diverged = "delivery"]
                     [] acting = "base_keep_layers" -> BaseKeep(over, shown, groups)
                     [] edits -> EditActive(over, shown, groups)
                     [] OTHER -> TakeBack(over, shown, groups)
           last == [policy |-> acting, source |-> source, groups |-> groups, tail |-> TRUE]
<1>1. Becomes(r, over)
  BY TakeOverQuiet, QuietReflexive DEF Record
<1>2. over \in Record
  BY <1>1 DEF Becomes
<1> HIDE DEF over
<1>3. edits => Becomes(over, EditActive(over, shown, groups))
  BY <1>2, EditActiveQuiet
<1>4. Becomes(over, [over EXCEPT !.diverged = "delivery"])
  BY <1>2, DivergedQuiet DEF Divergence
<1>5. Becomes(over, BaseKeep(over, shown, groups))
  BY <1>2, BaseKeepQuiet
<1>6. Becomes(over, TakeBack(over, shown, groups))
  BY <1>2, TakeBackQuiet
<1>7. acting \in Policies
  BY DEF Policies
<1> HIDE DEF again, acting, edits
<1>8. Becomes(over, done)
  BY <1>3, <1>4, <1>5, <1>6
<1>9. last \in External
  BY <1>7 DEF External
<1> HIDE DEF done, last
<1>10. /\ done \in Record
       /\ [done EXCEPT !.owed = "nothing", !.last = last] \in Record
  BY <1>8, <1>9 DEF Becomes, Record, Owed
<1>11. Becomes(done, [done EXCEPT !.owed = "nothing", !.last = last])
  BY <1>10, SameLayers DEF Record
<1>12. Becomes(r, [done EXCEPT !.owed = "nothing", !.last = last])
  BY <1>1, <1>8, <1>11, QuietTransitive
<1> QED BY <1>12 DEF ApplyExternal, again, acting, over, edits, done, last

\* A replay of an old press puts no layer in force (apply_replay).
LEMMA ApplyReplayQuiet ==
  ASSUME NEW r \in Record, NEW shown \in Command, NEW groups \in Take,
         NEW source \in ChangeSource
  PROVE  Becomes(r, ApplyReplay(r, shown, groups, source))
<1>1. Merge(r.base, shown, groups) \in Command
  BY MergeType DEF Record
<1>2. [policy |-> "replay", source |-> source, groups |-> groups, tail |-> TRUE] \in External
  BY DEF External
<1>3. ApplyReplay(r, shown, groups, source) \in Record
  BY <1>1, <1>2 DEF ApplyReplay, Record
<1> QED BY <1>3, SameLayers DEF ApplyReplay, Record

-----------------------------------------------------------------------------
(* Clears, expiry, and what a lamp seen off gives back *)

\* Layers and tombstones that only go, or stay as they are.
LEMMA FewerLayers ==
  ASSUME NEW r \in Record, NEW q \in Record,
         \A i \in Live(q.layers) :
           /\ i \in Live(r.layers)
           /\ q.layers[i] = r.layers[i]
           /\ q.tombs[i] \in {r.tombs[i], NoTomb}
  PROVE  Becomes(r, q)
BY DEF Becomes, Quiet, LiveTomb

\* A clear puts no layer in force and lays no tombstone (apply_clear).
LEMMA ApplyClearQuiet ==
  ASSUME NEW r \in Record, NEW target
  PROVE  Becomes(r, ApplyClear(r, target))
<1> DEFINE about == Cleared(r, target)
           removed == about \cap Live(r.layers)
           expired == about \cap Expired(r)
           cleared ==
             [r EXCEPT
                !.layers = [i \in Id |->
                              CASE i \in removed -> NoLayer
                                [] i \in expired -> [@[i] EXCEPT !.render = TRUE]
                                [] OTHER -> @[i]],
                !.tombs = [i \in Id |->
                              IF i \in about /\ target # "active" THEN NoTomb ELSE @[i]]]
<1>1. /\ r.layers \in [Id -> Layer \cup {NoLayer}]
      /\ r.tombs \in [Id -> Tomb \cup {NoTomb}]
  BY DEF Record
<1>2. \A i \in expired : /\ r.layers[i] \in Layer
                         /\ [r.layers[i] EXCEPT !.render = TRUE] \in Layer
                         /\ r.layers[i].lease = "over"
  BY <1>1 DEF Expired, Present, Layer, Live
<1> HIDE DEF about
<1>3. cleared \in Record
  BY <1>1, <1>2 DEF Record
<1>4. \A i \in Id : i \in expired => cleared.layers[i].lease = "over"
  BY <1>1, <1>2 DEF Record, Live, Expired, Layer
<1>5. \A i \in Live(cleared.layers) :
        /\ i \in Live(r.layers)
        /\ cleared.layers[i] = r.layers[i]
        /\ cleared.tombs[i] \in {r.tombs[i], NoTomb}
  BY <1>1, <1>4 DEF Live, Present, Record
<1>6. Becomes(r, cleared)
  BY <1>3, <1>5, FewerLayers
<1> HIDE DEF cleared, removed, expired
<1>7. Becomes(r, LayersChanged(cleared))
  BY <1>3, <1>6, LayersChangedQuiet, QuietTransitive
<1> QED BY <1>6, <1>7 DEF ApplyClear, about, removed, expired, cleared

\* Removing what ran out puts no layer in force.
LEMMA SweptQuiet ==
  ASSUME NEW r \in Record
  PROVE  Becomes(r, Swept(r))
<1> DEFINE swept ==
             [r EXCEPT
                !.layers = [i \in Id |-> IF i \in Expired(r) THEN NoLayer ELSE @[i]],
                !.tombs = [i \in Id |-> IF LiveTomb(r, i) THEN @[i] ELSE NoTomb]]
<1>1. /\ r.layers \in [Id -> Layer \cup {NoLayer}]
      /\ r.tombs \in [Id -> Tomb \cup {NoTomb}]
  BY DEF Record
<1>2. swept \in Record
  BY <1>1 DEF Record
<1>3. \A i \in Live(swept.layers) :
        /\ i \in Live(r.layers)
        /\ swept.layers[i] = r.layers[i]
        /\ swept.tombs[i] \in {r.tombs[i], NoTomb}
  BY <1>1 DEF Live, Present, Record
<1>4. Becomes(r, swept)
  BY <1>2, <1>3, FewerLayers
<1> HIDE DEF swept
<1>5. Becomes(r, LayersChanged(swept))
  BY <1>2, <1>4, LayersChangedQuiet, QuietTransitive
<1> QED BY <1>4, <1>5 DEF Swept, swept

\* An expiry puts no layer in force, held back or not (expire).
LEMMA ExpireQuiet ==
  ASSUME NEW r \in Record, NEW shown \in Report
  PROVE  Becomes(r, Expire(r, shown))
<1> DEFINE base == IF HeldBack(r, shown) THEN ObservedToCommand(shown) ELSE Swept(r).base
<1>1. Becomes(r, Swept(r))
  BY SweptQuiet
<1>2. Swept(r) \in Record
  BY <1>1 DEF Becomes
<1>3. base \in Command
  BY <1>2, ObservedType DEF Record
<1> HIDE DEF base
<1>4. Becomes(Swept(r), [Swept(r) EXCEPT !.base = base])
  BY <1>2, <1>3, BaseQuiet
<1>5. Becomes(r, [Swept(r) EXCEPT !.base = base])
  BY <1>1, <1>4, QuietTransitive
<1> QED BY <1>5 DEF Expire, base

\* Lifting tombstones puts no layer in force (lift_on_off).
LEMMA LiftOnOffQuiet ==
  ASSUME NEW r \in Record
  PROVE  Becomes(r, LiftOnOff(r))
<1>1. LiftOnOff(r) \in Record
  BY DEF LiftOnOff, Record
<1> QED BY <1>1, FewerLayers DEF LiftOnOff, Record, Live

\* Follow layers that follow again were in force before (release_manual).
LEMMA ReleaseManualQuiet ==
  ASSUME NEW r \in Record, NEW off
  PROVE  Becomes(r, ReleaseManual(r, off))
<1> DEFINE layers == [i \in Id |-> IF i \in Released(r, off)
                                  THEN [r.layers[i] EXCEPT !.manual = {},
                                                           !.manualLease = "none"]
                                  ELSE r.layers[i]]
<1>1. r.layers \in [Id -> Layer \cup {NoLayer}]
  BY DEF Record
<1>2. \A i \in Released(r, off) : r.layers[i] \in Layer /\ r.layers[i] # NoLayer
  BY <1>1 DEF Released, Present
<1>3. layers \in [Id -> Layer \cup {NoLayer}]
  BY <1>1, <1>2 DEF Layer, Lease
<1>4. \A i \in Id : layers[i] # NoLayer =>
        /\ r.layers[i] # NoLayer
        /\ layers[i].prio = r.layers[i].prio
        /\ layers[i].lease = r.layers[i].lease
  BY <1>2 DEF Layer
<1> HIDE DEF layers
<1>5. Becomes(r, [r EXCEPT !.layers = layers])
  BY <1>3, <1>4, EditedLayers
<1> QED BY <1>5 DEF ReleaseManual, layers

\* A lamp seen off puts no layer in force (_seen_off).
LEMMA SeenOffQuiet ==
  ASSUME NEW r \in Record, NEW off
  PROVE  Becomes(r, SeenOffIf(r, off))
<1>1. Becomes(r, LiftOnOff(r))
  BY LiftOnOffQuiet
<1>2. Becomes(LiftOnOff(r), ReleaseManual(LiftOnOff(r), TRUE))
  BY <1>1, ReleaseManualQuiet DEF Becomes
<1>3. Becomes(r, SeenOff(r))
  BY <1>1, <1>2, QuietTransitive DEF SeenOff
<1> QED BY <1>3, QuietReflexive DEF SeenOffIf

\* A report judged to be someone's puts no layer in force (_external).
LEMMA JudgedQuiet ==
  ASSUME NEW r \in Record, NEW groups \in Take, NEW source \in ChangeSource,
         NEW policy \in Policies, NEW chosen
  PROVE  Becomes(r, Judged(r, groups, source, policy, chosen))
<1> DEFINE acted == Supersede(r)
           shown == ObservedToCommand(r.observed)
           applied == ApplyExternal(acted, shown, groups, source, policy, chosen)
<1>1. Becomes(r, acted)
  BY SupersedeQuiet
<1>2. acted \in Record /\ shown \in Command
  BY <1>1, ObservedType DEF Becomes, Record
<1> HIDE DEF acted, shown
<1>3. Becomes(acted, applied)
  BY <1>2, ApplyExternalQuiet
<1>4. applied \in Record
  BY <1>3 DEF Becomes
<1> HIDE DEF applied
<1>5. Becomes(applied, SeenOffIf(applied, r.observed.state = "off"))
  BY <1>4, SeenOffQuiet
<1>6. Becomes(r, SeenOffIf(applied, r.observed.state = "off"))
  BY <1>1, <1>3, <1>5, QuietTransitive
<1> QED BY <1>6 DEF Judged, applied, acted, shown

\* A follow layer takes what its source gives (_read_source); S are the layers
\* that do.
LEMMA FedQuiet ==
  ASSUME NEW r \in Record, NEW layers, NEW S \in SUBSET Id, NEW f \in [Id -> Command],
         \A i \in S : r.layers[i] # NoLayer,
         layers = [i \in Id |-> IF i \in S
                               THEN [r.layers[i] EXCEPT !.command = f[i]]
                               ELSE r.layers[i]]
  PROVE  Becomes(r, [r EXCEPT !.layers = layers])
<1>1. r.layers \in [Id -> Layer \cup {NoLayer}]
  BY DEF Record
<1>2. layers \in [Id -> Layer \cup {NoLayer}]
  BY <1>1 DEF Layer
<1>3. \A i \in Id : layers[i] # NoLayer =>
        /\ r.layers[i] # NoLayer
        /\ layers[i].prio = r.layers[i].prio
        /\ layers[i].lease = r.layers[i].lease
  BY <1>1 DEF Layer
<1> QED BY <1>2, <1>3, EditedLayers

-----------------------------------------------------------------------------
(* Sets *)

\* A record on which both invariants hold.
Good(r) == r \in Record /\ UniqueIn(r) /\ BarredIn(r)

\* What a good record quietly becomes is good.
LEMMA GoodKept ==
  ASSUME NEW r, NEW q, Good(r), Becomes(r, q)
  PROVE  Good(q)
BY QuietKeeps DEF Good, Becomes

\* A layer may be put where no live tombstone is, with its own priority or one
\* that no other live layer has.
LEMMA PlacedIsGood ==
  ASSUME NEW r, Good(r), NEW i \in Id, NEW lay \in Layer, ~LiveTomb(r, i),
         \/ i \in Live(r.layers) /\ lay.prio = r.layers[i].prio
         \/ ~PriorityTaken(r, lay.prio, i)
  PROVE  Good([r EXCEPT !.layers[i] = lay])
<1> DEFINE q == [r EXCEPT !.layers[i] = lay]
<1>1. r.layers \in [Id -> Layer \cup {NoLayer}]
  BY DEF Good, Record
<1>2. q \in Record
  BY <1>1 DEF Good, Record
<1>3. /\ q.tombs = r.tombs
      /\ q.layers[i] = lay
      /\ \A j \in Id \ {i} : q.layers[j] = r.layers[j]
  BY <1>1 DEF Good, Record
<1>4. \A j \in Live(r.layers) \ {i} : r.layers[j].prio # lay.prio
  BY DEF PriorityTaken, Good, UniqueIn
<1> HIDE DEF q
<1>5. UniqueIn(q)
  BY <1>3, <1>4 DEF UniqueIn, Good, Live, Present
<1>6. BarredIn(q)
  BY <1>3 DEF BarredIn, Good, Live, Present, LiveTomb
<1> QED BY <1>2, <1>5, <1>6 DEF Good, q

\* A set that puts such a layer leaves the record good.
LEMMA PutLayerIsGood ==
  ASSUME NEW r, Good(r), NEW i \in Id, NEW lay \in Layer, ~LiveTomb(r, i), NEW result,
         \/ i \in Live(r.layers) /\ lay.prio = r.layers[i].prio
         \/ ~PriorityTaken(r, lay.prio, i)
  PROVE  Good(PutLayer(r, i, lay, result).rec)
<1> DEFINE q == [r EXCEPT !.layers[i] = lay]
<1>1. Good(q)
  BY PlacedIsGood
<1> HIDE DEF q
<1>2. Good(LayersChanged(q))
  BY <1>1, LayersChangedQuiet, GoodKept DEF Good
<1> QED BY <1>2 DEF PutLayer, Outcome, q

\* Such a set takes no layer out of force, when what it puts is in force.
LEMMA PutLayerRetains ==
  ASSUME NEW r \in Record, NEW i \in Id, NEW lay \in Layer, NEW result,
         i \in Live(r.layers) => lay.lease # "over"
  PROVE  /\ Retains(r, [r EXCEPT !.layers[i] = lay])
         /\ Retains(r, PutLayer(r, i, lay, result).rec)
<1> DEFINE q == [r EXCEPT !.layers[i] = lay]
           p == PutLayer(r, i, lay, result).rec
<1>1. /\ q.layers[i] = lay /\ lay # NoLayer
      /\ \A j \in Id \ {i} : q.layers[j] = r.layers[j]
      /\ SameSight(r, q)
  BY LayerAssumption DEF Record, SameSight
<1>2. p.layers = q.layers /\ p.observed = q.observed /\ p.atDrop = q.atDrop
  BY DEF PutLayer, Outcome, LayersChanged, Record
<1> HIDE DEF p, q
<1>3. Retains(r, q)
  BY <1>1 DEF Retains, Live, Present
<1>4. Retains(r, p)
  BY <1>2, <1>3 DEF Retains, SameSight
<1> QED BY <1>3, <1>4 DEF p, q

\* A record retains itself.
LEMMA RetainsReflexive == \A r : Retains(r, r)
BY DEF Retains, SameSight

\* A set of the base leaves the record good (_set_base_layer).
LEMMA SetBaseIsGood ==
  ASSUME NEW r, Good(r), NEW req \in SetRequest
  PROVE  Good(SetBaseLayer(r, req).rec)
<1> DEFINE base == AsMode(Merge(r.base, req.command, Everything), "set")
           q == [r EXCEPT !.base = base]
<1>1. base \in Command
  BY MergeType, AsModeType DEF Good, Record, SetRequest
<1> HIDE DEF base
<1>2. Good(q)
  BY <1>1, BaseQuiet, GoodKept DEF Good
<1> HIDE DEF q
<1>3. Good(LayersChanged(q))
  BY <1>2, LayersChangedQuiet, GoodKept DEF Good
<1> QED BY <1>3 DEF SetBaseLayer, Outcome, base, q

\* A set of the active layer leaves the record good (_set_active_layer).
LEMMA SetActiveIsGood ==
  ASSUME NEW r, Good(r), NEW req \in SetRequest
  PROVE  Good(SetActiveLayer(r, req).rec)
<1> DEFINE top == EditableLayer(r.base, r.layers)
           lay == r.layers[top]
           edited ==
             CASE lay.mode = "adjust" /\ req.command.state = "off" -> ToSetOff(lay)
               [] lay.mode = "adjust" /\ req.command.state # "off" ->
                    [lay EXCEPT !.command = MergeAttributes(@, req.command, Everything)]
               [] lay.mode # "adjust" ->
                    [lay EXCEPT !.command = Merge(@, req.command, Everything)]
<1>1. CASE top = NoId
  BY <1>1, SetBaseIsGood DEF SetActiveLayer
<1>2. CASE top # NoId
  <2>1. top \in Live(r.layers) /\ lay \in Layer /\ top \in Id
    BY <1>2, EditableIsLive DEF Good, Live
  <2> HIDE DEF top, lay
  <2>2. lay.command \in Command /\ req.command \in Command
    BY <2>1 DEF Layer, SetRequest
  <2>3. /\ MergeAttributes(lay.command, req.command, Everything) \in Command
        /\ Merge(lay.command, req.command, Everything) \in Command
    BY <2>2, MergeType, MergeAttributesType
  <2>4. /\ ToSetOff(lay) \in Layer
        /\ ToSetOff(lay).prio = lay.prio
    BY <2>1, ConstantCommands DEF ToSetOff, Layer, Mode
  <2>5. edited \in Layer /\ edited.prio = lay.prio
    BY <2>1, <2>3, <2>4 DEF Layer
  <2> HIDE DEF edited
  <2>6. ~LiveTomb(r, top)
    BY <2>1 DEF Good, BarredIn
  <2>7. lay = r.layers[top]
    BY DEF lay
  <2>8. Good(PutLayer(r, top, edited, "active_set").rec)
    BY <2>1, <2>5, <2>6, <2>7, PutLayerIsGood
  <2> QED BY <1>2, <2>8 DEF SetActiveLayer, edited, lay, top
<1> QED BY <1>1, <1>2

\* Creating a layer leaves the record good and takes none out of force
\* (_set_named_layer).
LEMMA CreateIsGood ==
  ASSUME NEW r, Good(r), NEW req \in SetRequest, req.layer \in Id,
         ~LiveTomb(r, req.layer), ~(req.mode = "follow" /\ FollowRefused(r, req)),
         req.layer \notin Live(r.layers)
  PROVE  Good(CreateLayer(r, req).rec) /\ Retains(r, CreateLayer(r, req).rec)
<1>1. CASE /\ ~req.onlyIfPresent /\ req.priority # NoPriority
           /\ ~PriorityTaken(r, req.priority, req.layer)
  <2>1. req.mode = "follow" => req.source \in Source \cup {NoSource}
    BY DEF FollowRefused, SetRequest
  <2>2. NewLayer(req) \in Layer /\ NewLayer(req).prio = req.priority
    BY <1>1, <2>1 DEF NewLayer, Layer, SetRequest, Lease
  <2>3. /\ Good(PutLayer(r, req.layer, NewLayer(req), "created").rec)
        /\ Retains(r, PutLayer(r, req.layer, NewLayer(req), "created").rec)
    BY <1>1, <2>2, PutLayerIsGood, PutLayerRetains DEF Good
  <2> QED BY <1>1, <2>3 DEF CreateLayer
<1>2. CASE ~(/\ ~req.onlyIfPresent /\ req.priority # NoPriority
             /\ ~PriorityTaken(r, req.priority, req.layer))
  BY <1>2, RetainsReflexive DEF CreateLayer, Outcome, SetRequest
<1> QED BY <1>1, <1>2

\* What a set of a live layer makes of its lease, options and priority.
LEMMA OptionsType ==
  ASSUME NEW lay \in Layer, NEW req \in SetRequest, NEW keep
  PROVE  /\ Renewed(lay, req, keep) \in Layer
         /\ Renewed(lay, req, keep).prio = lay.prio
         /\ Optioned(lay, req) \in Layer
         /\ PriorityOf(lay, req) \in Priority
         /\ ~Moves(lay, req) => PriorityOf(lay, req) = lay.prio
         /\ Moves(lay, req) => PriorityOf(lay, req) = req.priority
         /\ lay.lease # "over" /\ req.lease # "over" =>
              Renewed(lay, req, keep).lease # "over" /\ Optioned(lay, req).lease # "over"
BY DEF Renewed, Optioned, PriorityOf, Moves, Layer, SetRequest

\* A refreshed follow layer is the same layer with another timeout option.
LEMMA FollowEditType ==
  ASSUME NEW l \in Layer, NEW t \in BOOLEAN
  PROVE  /\ [l EXCEPT !.manualTimeout = t] \in Layer
         /\ [l EXCEPT !.manualTimeout = t].prio = l.prio
         /\ [l EXCEPT !.manualTimeout = t].lease = l.lease
BY DEF Layer, Lease

\* A set of an existing follow layer leaves the record good and the layer in
\* force (_set_follow_layer).
LEMMA SetFollowIsGood ==
  ASSUME NEW r, Good(r), NEW req \in SetRequest, req.layer \in Live(r.layers),
         req.onlyIfPresent \/ req.mode = "follow", req.lease # "over",
         ~(req.mode = "follow" /\ FollowRefused(r, req)), ~LiveTomb(r, req.layer)
  PROVE  Good(SetFollowLayer(r, req).rec) /\ Retains(r, SetFollowLayer(r, req).rec)
<1> DEFINE lay == r.layers[req.layer]
           newSource == ~req.onlyIfPresent /\ req.source # lay.source
           timeout == lay.manualTimeout \/ req.manualTimeout
           refreshed == [Renewed(lay, req, TRUE) EXCEPT !.manualTimeout = timeout]
           updated == [Optioned(lay, req) EXCEPT
                         !.prio = PriorityOf(lay, req),
                         !.source = IF newSource THEN req.source ELSE @,
                         !.command = IF newSource THEN Nothing ELSE @,
                         !.manual = {},
                         !.manualLease = "none",
                         !.manualTimeout = timeout]
<1>1. lay \in Layer /\ req.layer \in Id /\ lay.lease # "over" /\ r \in Record
  BY DEF Good, Record, Live, Present
<1>2. newSource => req.source \in Source \cup {NoSource}
  BY DEF FollowRefused, SetRequest
<1>3. timeout \in BOOLEAN
  BY <1>1 DEF Layer, SetRequest
<1> HIDE DEF newSource, timeout
<1>4. refreshed \in Layer /\ refreshed.prio = lay.prio /\ refreshed.lease # "over"
  <2> HIDE DEF lay
  <2>1. /\ Renewed(lay, req, TRUE) \in Layer /\ Renewed(lay, req, TRUE).prio = lay.prio
        /\ Renewed(lay, req, TRUE).lease # "over"
    BY <1>1, OptionsType
  <2> QED BY <1>1, <1>3, <2>1, FollowEditType, ConstantCommands DEF Layer
<1>5. updated \in Layer /\ updated.prio = PriorityOf(lay, req) /\ updated.lease # "over"
  <2> HIDE DEF lay
  <2>1. /\ Optioned(lay, req) \in Layer /\ PriorityOf(lay, req) \in Priority
        /\ Optioned(lay, req).lease # "over"
    BY <1>1, OptionsType
  <2>2. /\ Optioned(lay, req).source \in Source \cup {NoSource}
        /\ Optioned(lay, req).command \in Command
        /\ Nothing \in Command
    BY <2>1, ConstantCommands DEF Layer
  <2> DEFINE opt == Optioned(lay, req)
             src == IF newSource THEN req.source ELSE opt.source
             cmd == IF newSource THEN Nothing ELSE opt.command
  <2>3. src \in Source \cup {NoSource} /\ cmd \in Command
    BY <1>2, <2>2
  <2>4. updated = [opt EXCEPT !.prio = PriorityOf(lay, req), !.source = src,
                              !.command = cmd, !.manual = {},
                              !.manualLease = "none", !.manualTimeout = timeout]
    OBVIOUS
  <2> HIDE DEF src, cmd, opt, updated
  <2>5. opt \in Layer /\ opt.lease # "over"
    BY <2>1 DEF opt
  <2> DEFINE made == [opt EXCEPT !.prio = PriorityOf(lay, req), !.source = src,
                              !.command = cmd, !.manual = {},
                              !.manualLease = "none", !.manualTimeout = timeout]
  <2>6. made \in Layer /\ made.prio = PriorityOf(lay, req) /\ made.lease # "over"
    <3> HIDE DEF made
    <3> DEFINE prio == PriorityOf(lay, req)
    <3>1. prio \in Priority
      BY <2>1
    <3> HIDE DEF prio
    <3>2. [opt EXCEPT !.prio = prio, !.source = src, !.command = cmd, !.manual = {},
                      !.manualLease = "none", !.manualTimeout = timeout] \in Layer
      BY <1>3, <2>3, <2>5, <3>1 DEF Layer, Lease
    <3>3. /\ [opt EXCEPT !.prio = prio, !.source = src, !.command = cmd, !.manual = {},
                         !.manualLease = "none", !.manualTimeout = timeout].prio = prio
          /\ [opt EXCEPT !.prio = prio, !.source = src, !.command = cmd, !.manual = {},
                         !.manualLease = "none", !.manualTimeout = timeout].lease = opt.lease
      BY <2>5 DEF Layer
    <3> QED BY <2>5, <3>2, <3>3 DEF made, prio
  <2> QED BY <2>4, <2>6
<1> HIDE DEF refreshed, updated
<1>6. CASE ~Moves(lay, req) /\ ~newSource
  <2>1. /\ Good([r EXCEPT !.layers[req.layer] = refreshed])
        /\ Retains(r, [r EXCEPT !.layers[req.layer] = refreshed])
    BY <1>1, <1>4, PlacedIsGood, PutLayerRetains
  <2> QED BY <1>6, <2>1 DEF SetFollowLayer, Outcome, refreshed, newSource, timeout, lay
<1>7. CASE Moves(lay, req) /\ PriorityTaken(r, req.priority, req.layer)
  BY <1>7, RetainsReflexive DEF SetFollowLayer, Outcome, lay
<1>8. CASE /\ ~(~Moves(lay, req) /\ ~newSource)
           /\ ~(Moves(lay, req) /\ PriorityTaken(r, req.priority, req.layer))
  <2>1. updated.prio = lay.prio \/ ~PriorityTaken(r, updated.prio, req.layer)
    BY <1>1, <1>5, <1>8, OptionsType
  <2>2. /\ Good(PutLayer(r, req.layer, updated, "updated").rec)
        /\ Retains(r, PutLayer(r, req.layer, updated, "updated").rec)
    BY <1>1, <1>5, <2>1, PutLayerIsGood, PutLayerRetains
  <2> QED BY <1>8, <2>2 DEF SetFollowLayer, updated, newSource, timeout, lay
<1> QED BY <1>6, <1>7, <1>8

\* A set of another existing layer leaves the record good and the layer in force
\* (_set_named_layer).
LEMMA UpdateIsGood ==
  ASSUME NEW r, Good(r), NEW req \in SetRequest, req.layer \in Live(r.layers),
         ~(/\ r.layers[req.layer].asked = "follow"
           /\ req.onlyIfPresent \/ req.mode = "follow"), req.lease # "over",
         ~(req.mode = "follow" /\ FollowRefused(r, req)), ~LiveTomb(r, req.layer)
  PROVE  Good(UpdateLayer(r, req).rec) /\ Retains(r, UpdateLayer(r, req).rec)
<1> DEFINE lay == r.layers[req.layer]
           mode == IF req.onlyIfPresent THEN lay.asked ELSE req.mode
           command == IF req.onlyIfPresent THEN AsMode(req.command, mode) ELSE req.command
           follows == mode = "follow"
           source == IF follows THEN req.source ELSE NoSource
           timeout == follows /\ req.manualTimeout
           updated == [Optioned(lay, req) EXCEPT
                         !.prio = PriorityOf(lay, req),
                         !.mode = mode, !.asked = mode,
                         !.requested = command, !.command = command,
                         !.source = source,
                         !.manual = {},
                         !.manualLease = "none",
                         !.manualTimeout = timeout]
           same == command = lay.requested /\ mode = lay.asked /\ ~Moves(lay, req)
<1>1. lay \in Layer /\ req.layer \in Id /\ lay.lease # "over" /\ r \in Record
  BY DEF Good, Record, Live, Present
<1>2. mode \in Mode /\ command \in Command
  BY <1>1, AsModeType DEF Layer, SetRequest
<1>3. source \in Source \cup {NoSource}
  BY DEF FollowRefused, SetRequest
<1>4. timeout \in BOOLEAN
  OBVIOUS
<1> HIDE DEF mode, command, follows, source, timeout
<1>5. updated \in Layer /\ updated.prio = PriorityOf(lay, req) /\ updated.lease # "over"
  <2>1. /\ Optioned(lay, req) \in Layer /\ PriorityOf(lay, req) \in Priority
        /\ Optioned(lay, req).lease # "over"
    BY <1>1, OptionsType
  <2> HIDE DEF lay
  <2>2. "none" \in Lease
    BY DEF Lease
  <2> QED BY <1>2, <1>3, <1>4, <2>1, <2>2 DEF Layer
<1>6. /\ Renewed(lay, req, TRUE) \in Layer /\ Renewed(lay, req, TRUE).prio = lay.prio
      /\ Renewed(lay, req, TRUE).lease # "over"
  BY <1>1, OptionsType
<1> HIDE DEF updated
<1>7. CASE same
  <2>1. /\ Good([r EXCEPT !.layers[req.layer] = Renewed(lay, req, TRUE)])
        /\ Retains(r, [r EXCEPT !.layers[req.layer] = Renewed(lay, req, TRUE)])
    BY <1>1, <1>6, PlacedIsGood, PutLayerRetains
  <2> QED BY <1>7, <2>1 DEF UpdateLayer, Outcome, mode, command, lay
<1>8. CASE ~same /\ Moves(lay, req) /\ PriorityTaken(r, req.priority, req.layer)
  BY <1>8, RetainsReflexive DEF UpdateLayer, Outcome, mode, command, lay
<1>9. CASE ~same /\ ~(Moves(lay, req) /\ PriorityTaken(r, req.priority, req.layer))
  <2>1. updated.prio = lay.prio \/ ~PriorityTaken(r, updated.prio, req.layer)
    BY <1>1, <1>5, <1>9, OptionsType
  <2>2. /\ Good(PutLayer(r, req.layer, updated, "updated").rec)
        /\ Retains(r, PutLayer(r, req.layer, updated, "updated").rec)
    BY <1>1, <1>5, <2>1, PutLayerIsGood, PutLayerRetains
  <2> QED BY <1>9, <2>2 DEF UpdateLayer, updated, source, timeout, follows, mode, command, lay
<1> QED BY <1>7, <1>8, <1>9

\* Whatever an owner sends, the record stays good, and a set of a layer takes
\* none out of force (apply_set).
LEMMA ApplySetIsGood ==
  ASSUME NEW r, Good(r), NEW req \in SetRequest
  PROVE  /\ Good(ApplySet(r, req).rec)
         /\ req.layer \in Id => Retains(r, ApplySet(r, req).rec)
<1> DEFINE refused ==
             \/ req.mode = "follow" /\ FollowRefused(r, req)
             \/ /\ req.mode # "follow" /\ Groups(req.command) = {}
                /\ ~RenewsFollow(r, req)
<1>1. CASE refused
  BY <1>1, RetainsReflexive DEF ApplySet, Outcome
<1>2. CASE ~refused /\ req.layer = "base"
  BY <1>2, SetBaseIsGood, PolicyAssumption DEF ApplySet
<1>3. CASE ~refused /\ req.layer = "active"
  BY <1>3, SetActiveIsGood, PolicyAssumption DEF ApplySet
<1>4. CASE ~refused /\ req.layer \notin {"base", "active"}
  <2>1. ~(req.mode = "follow" /\ FollowRefused(r, req)) /\ req.layer \in Id
    BY <1>4 DEF SetRequest
  <2>2. CASE LiveTomb(r, req.layer) \/ req.lease = "over"
    BY <1>4, <2>2, RetainsReflexive DEF ApplySet, SetNamedLayer, Outcome
  <2>3. CASE ~LiveTomb(r, req.layer) /\ req.lease # "over"
    <3>1. req.layer \notin Live(r.layers) => Good(CreateLayer(r, req).rec) /\ Retains(r, CreateLayer(r, req).rec)
      BY <2>1, <2>3, CreateIsGood
    <3>2. /\ req.layer \in Live(r.layers)
          /\ r.layers[req.layer].asked = "follow"
          /\ req.onlyIfPresent \/ req.mode = "follow"
          => Good(SetFollowLayer(r, req).rec) /\ Retains(r, SetFollowLayer(r, req).rec)
      BY <2>1, <2>3, SetFollowIsGood
    <3>3. /\ req.layer \in Live(r.layers)
          /\ ~(/\ r.layers[req.layer].asked = "follow"
               /\ req.onlyIfPresent \/ req.mode = "follow")
          => Good(UpdateLayer(r, req).rec) /\ Retains(r, UpdateLayer(r, req).rec)
      BY <2>1, <2>3, UpdateIsGood
    <3>4. Good(SetNamedLayer(r, req).rec) /\ Retains(r, SetNamedLayer(r, req).rec)
      BY <2>3, <3>1, <3>2, <3>3 DEF SetNamedLayer
    <3> QED BY <1>4, <3>4 DEF ApplySet
  <2> QED BY <2>2, <2>3
<1> QED BY <1>1, <1>2, <1>3, <1>4

\* The groups a change takes are groups a record can keep (_call_groups,
\* changed_groups).
LEMMA TakeTypes ==
  /\ Everything \in Take
  /\ \A named \in SUBSET AttrGroup : \A o, p : CallGroups(named, o, p) \in Take
  /\ \A o, p : ChangedGroups(o, p) \in Take
  /\ \A named \in SUBSET AttrGroup : named \cup {"state"} \in Take
<1>1. Everything \in Take
  BY DEF Take
<1>2. \A groups \in SUBSET AttrGroup : groups \cup {"state"} \in Take
  BY DEF Take, Group, AttrGroup
<1>3. ASSUME NEW named \in SUBSET AttrGroup, NEW o, NEW p
      PROVE  CallGroups(named, o, p) \in Take
  BY <1>1, <1>2 DEF CallGroups
<1>4. ASSUME NEW o, NEW p
      PROVE  ChangedGroups(o, p) \in Take
  <2> DEFINE moved ==
        {g \in AttrGroup :
           \/ g = "brightness" /\ o.bri # p.bri
                /\ (o.bri # NoValue /\ p.bri # NoValue => ~Near(o.bri, p.bri))
           \/ g = "color" /\ o.col # p.col}
  <2>1. moved \in SUBSET AttrGroup
    OBVIOUS
  <2> HIDE DEF moved
  <2>2. moved \cup {"state"} \in Take
    BY <1>2, <2>1
  <2> QED BY <1>1, <2>2 DEF ChangedGroups, moved
<1> QED BY <1>1, <1>2, <1>3, <1>4

-----------------------------------------------------------------------------
(* Who holds the lamp *)

\* What a layer id is worth in a record: its layer is in force, follows, is
\* barred by a tombstone, or the id is free.
Stand(r, i) ==
  IF i \in Live(r.layers)
  THEN IF r.layers[i].mode = "follow" THEN "following" ELSE "held"
  ELSE IF LiveTomb(r, i) THEN "barred" ELSE "free"

\* Whatever layer is left is one its owner asked for in the same words.
Inherits(r, q) ==
  \A i \in Id : q.layers[i] # NoLayer =>
    /\ r.layers[i] # NoLayer
    /\ q.layers[i].asked = r.layers[i].asked
    /\ q.layers[i].requested = r.layers[i].requested
    /\ q.layers[i].source = r.layers[i].source

\* From r to q no id changes hands.
Stays(r, q) ==
  /\ Inherits(r, q)
  /\ \A i \in Id : Stand(q, i) = Stand(r, i)

\* Some bars are lifted.
Lifts(r, q) ==
  /\ Inherits(r, q)
  /\ \A i \in Id : \/ Stand(q, i) = Stand(r, i)
                   \/ Stand(r, i) = "barred" /\ Stand(q, i) = "free"

\* Some ids are freed.
Frees(r, q) ==
  /\ Inherits(r, q)
  /\ \A i \in Id : Stand(q, i) \in {Stand(r, i), "free"}

\* A person has the lamp: nobody holds it any more but the follow layers.
Yields(r, q) ==
  /\ Inherits(r, q)
  /\ \A i \in Id : IF Stand(r, i) \in {"held", "barred"}
                   THEN Stand(q, i) \in {"barred", "free"}
                   ELSE Stand(q, i) = Stand(r, i)

\* Steps in which no id changes hands make one, and change nothing about what
\* comes before or after them.
LEMMA StaysCompose ==
  ASSUME NEW p, NEW q, NEW r
  PROVE  /\ Stays(p, p)
         /\ Stays(p, q) /\ Stays(q, r) => Stays(p, r)
         /\ Stays(p, q) /\ Lifts(q, r) => Lifts(p, r)
         /\ Stays(p, q) /\ Yields(q, r) => Yields(p, r)
         /\ Yields(p, q) /\ Stays(q, r) => Yields(p, r)
         /\ Yields(p, q) /\ Lifts(q, r) => Yields(p, r)
         /\ Stays(p, q) => Lifts(p, q)
         /\ Lifts(p, q) => Frees(p, q)
BY DEF Stays, Lifts, Yields, Frees, Inherits

\* A record that differs in neither layers nor tombstones.
LEMMA SameStays ==
  ASSUME NEW r, NEW q, q.layers = r.layers, q.tombs = r.tombs
  PROVE  Stays(r, q)
BY DEF Stays, Inherits, Stand, LiveTomb

\* Layers edited in place: the lease, what the owner asked for and whether it
\* follows stay.
LEMMA EditedStays ==
  ASSUME NEW r \in Record, NEW layers \in [Id -> Layer \cup {NoLayer}],
         \A i \in Id :
           /\ layers[i] = NoLayer <=> r.layers[i] = NoLayer
           /\ r.layers[i] # NoLayer =>
                /\ layers[i].asked = r.layers[i].asked
                /\ layers[i].requested = r.layers[i].requested
                /\ layers[i].source = r.layers[i].source
                /\ layers[i].lease = r.layers[i].lease
                /\ layers[i].mode = "follow" <=> r.layers[i].mode = "follow"
  PROVE  Stays(r, [r EXCEPT !.layers = layers])
<1> DEFINE q == [r EXCEPT !.layers = layers]
<1>1. q.layers = layers /\ q.tombs = r.tombs
  BY DEF Record
<1> HIDE DEF q
<1>2. Inherits(r, q)
  BY <1>1 DEF Inherits
<1>3. \A i \in Id : i \in Live(q.layers) <=> i \in Live(r.layers)
  BY <1>1 DEF Live, Present
<1>4. \A i \in Live(r.layers) : q.layers[i].mode = "follow" <=> r.layers[i].mode = "follow"
  BY <1>1 DEF Live, Present
<1>5. \A i \in Id : LiveTomb(q, i) <=> LiveTomb(r, i)
  BY <1>1 DEF LiveTomb
<1>6. \A i \in Id : Stand(q, i) = Stand(r, i)
  BY <1>3, <1>4, <1>5 DEF Stand
<1> QED BY <1>2, <1>6 DEF Stays, q

\* A take-over takes no layer out of force (_take_over).
LEMMA TakeOverStays ==
  ASSUME NEW r \in Record, NEW chosen
  PROVE  Stays(r, [r EXCEPT !.layers = TakeOver(@, chosen)])
<1> DEFINE layers == TakeOver(r.layers, chosen)
<1>1. [r EXCEPT !.layers = layers] \in Record
  BY TakeOverQuiet DEF Becomes
<1>2. /\ r.layers \in [Id -> Layer \cup {NoLayer}]
      /\ layers \in [Id -> Layer \cup {NoLayer}]
  BY <1>1 DEF Record
<1>3. \A i \in OfMode(r.layers, "follow") : r.layers[i] \in Layer /\ r.layers[i] # NoLayer
  BY <1>2 DEF OfMode, Live, Present
<1>4. \A i \in Id :
        \/ layers[i] = r.layers[i]
        \/ /\ r.layers[i] \in Layer /\ r.layers[i] # NoLayer
           /\ \E m, l : layers[i] = [r.layers[i] EXCEPT !.manual = m, !.manualLease = l]
  <2> SUFFICES ASSUME NEW i \in Id, layers[i] # r.layers[i]
               PROVE  /\ r.layers[i] \in Layer /\ r.layers[i] # NoLayer
                      /\ \E m, l : layers[i] = [r.layers[i] EXCEPT !.manual = m, !.manualLease = l]
    OBVIOUS
  <2> DEFINE m == r.layers[i].manual \cup (chosen \cap AttrGroup)
             l == IF r.layers[i].manualTimeout THEN "running" ELSE r.layers[i].manualLease
  <2>1. i \in OfMode(r.layers, "follow")
    BY DEF TakeOver
  <2>2. layers[i] = [r.layers[i] EXCEPT !.manual = m, !.manualLease = l]
    BY <1>3, <2>1 DEF TakeOver, Layer
  <2> QED BY <1>3, <2>1, <2>2
<1>5. \A i \in Id : r.layers[i] # NoLayer =>
        /\ layers[i].asked = r.layers[i].asked
        /\ layers[i].requested = r.layers[i].requested
        /\ layers[i].source = r.layers[i].source
        /\ layers[i].lease = r.layers[i].lease
        /\ layers[i].mode = r.layers[i].mode
  BY <1>4 DEF Layer
<1>6. \A i \in Id : layers[i] = NoLayer <=> r.layers[i] = NoLayer
  <2> SUFFICES ASSUME NEW i \in Id, layers[i] # r.layers[i]
               PROVE  layers[i] # NoLayer /\ r.layers[i] # NoLayer
    OBVIOUS
  <2>1. r.layers[i] \in Layer /\ r.layers[i] # NoLayer
    BY <1>4
  <2>2. i \in OfMode(r.layers, "follow")
    BY DEF TakeOver
  <2>3. layers[i] \in Layer
    BY <2>1, <2>2, <1>3 DEF TakeOver, Layer, Lease
  <2> QED BY <2>1, <2>3, LayerAssumption
<1> HIDE DEF layers
<1>7. Stays(r, [r EXCEPT !.layers = layers])
  BY <1>2, <1>5, <1>6, EditedStays
<1> QED BY <1>7 DEF layers

\* A layer edited in place of a live one.
LEMMA ReplacedStays ==
  ASSUME NEW r \in Record, NEW i \in Live(r.layers), NEW lay \in Layer,
         lay.asked = r.layers[i].asked, lay.requested = r.layers[i].requested,
         lay.source = r.layers[i].source, lay.lease = r.layers[i].lease,
         lay.mode = "follow" <=> r.layers[i].mode = "follow"
  PROVE  Stays(r, [r EXCEPT !.layers[i] = lay])
<1> DEFINE layers == [r.layers EXCEPT ![i] = lay]
<1>1. r.layers \in [Id -> Layer \cup {NoLayer}] /\ i \in Id /\ r.layers[i] # NoLayer
  BY DEF Record, Live, Present
<1>2. layers \in [Id -> Layer \cup {NoLayer}]
  BY <1>1
<1>3. \A j \in Id :
        /\ layers[j] = NoLayer <=> r.layers[j] = NoLayer
        /\ r.layers[j] # NoLayer =>
             /\ layers[j].asked = r.layers[j].asked
             /\ layers[j].requested = r.layers[j].requested
             /\ layers[j].source = r.layers[j].source
             /\ layers[j].lease = r.layers[j].lease
             /\ layers[j].mode = "follow" <=> r.layers[j].mode = "follow"
  BY <1>1, LayerAssumption
<1> HIDE DEF layers
<1>4. Stays(r, [r EXCEPT !.layers = layers])
  BY <1>2, <1>3, EditedStays
<1>5. [r EXCEPT !.layers = layers] = [r EXCEPT !.layers[i] = lay]
  BY DEF layers, Record
<1> QED BY <1>4, <1>5

\* An edit leaves what the owner asked for, and no follow layer becomes another
\* (_edit_from_external).
LEMMA EditFromExternalKeeps ==
  ASSUME NEW lay \in Layer, lay.mode # "follow", NEW shown, NEW groups
  PROVE  LET edited == EditFromExternal(lay, shown, groups)
         IN /\ edited.asked = lay.asked
            /\ edited.requested = lay.requested
            /\ edited.source = lay.source
            /\ edited.mode # "follow"
BY DEF EditFromExternal, ToSetOff, Layer

\* The layer an edit lands on does not follow (editable_layer).
LEMMA EditableFollowsNot ==
  ASSUME NEW base, NEW layers, EditableLayer(base, layers) # NoId
  PROVE  /\ EditableLayer(base, layers) \in Live(layers)
         /\ layers[EditableLayer(base, layers)].mode # "follow"
<1>1. EditableLayer(base, layers) \in Live(layers) \ OfMode(layers, "follow")
  BY TopmostIn DEF EditableLayer
<1> QED BY <1>1 DEF OfMode

\* edit_active edits a layer its owner keeps.
LEMMA EditActiveStays ==
  ASSUME NEW r \in Record, NEW shown \in Command, NEW groups,
         EditableLayer(r.base, r.layers) # NoId
  PROVE  Stays(r, EditActive(r, shown, groups))
<1> DEFINE top == EditableLayer(r.base, r.layers)
           lay == EditFromExternal(r.layers[top], shown, groups)
           edited == [r EXCEPT !.layers[top] = lay]
<1>1. top \in Live(r.layers) /\ r.layers[top] \in Layer /\ r.layers[top].mode # "follow"
  BY EditableIsLive, EditableFollowsNot
<1> HIDE DEF top
<1>2. /\ lay \in Layer
      /\ lay.lease = r.layers[top].lease
      /\ lay.asked = r.layers[top].asked
      /\ lay.requested = r.layers[top].requested
      /\ lay.source = r.layers[top].source
      /\ lay.mode # "follow"
  BY <1>1, EditFromExternalType, EditFromExternalKeeps
<1> HIDE DEF lay
<1>3. Stays(r, edited)
  BY <1>1, <1>2, ReplacedStays
<1> DEFINE q == EditActive(r, shown, groups)
<1>4. q.layers = edited.layers /\ q.tombs = edited.tombs
  BY DEF EditActive, lay, top, Record
<1> HIDE DEF edited, q
<1>5. Stays(edited, q)
  BY <1>4, SameStays
<1>6. Stays(r, q)
  BY <1>3, <1>5, StaysCompose
<1> QED BY <1>6 DEF q

\* base_keep_layers keeps every layer where it is.
LEMMA BaseKeepStays ==
  ASSUME NEW r \in Record, NEW shown, NEW groups
  PROVE  Stays(r, BaseKeep(r, shown, groups))
<1>1. /\ BaseKeep(r, shown, groups).layers = r.layers
      /\ BaseKeep(r, shown, groups).tombs = r.tombs
  BY DEF BaseKeep, Record
<1> QED BY <1>1, SameStays

\* A person takes the lamp from every owner at once (_drop_all).
LEMMA DropAllYields ==
  ASSUME NEW r \in Record, BarredIn(r)
  PROVE  Yields(r, DropAll(r))
<1> DEFINE q == DropAll(r)
<1>1. /\ r.layers \in [Id -> Layer \cup {NoLayer}]
      /\ r.tombs \in [Id -> Tomb \cup {NoTomb}]
  BY DEF Record
<1>2. \A i \in Droppable(r) :
        /\ r.layers[i] \in Layer /\ r.layers[i] # NoLayer
        /\ q.layers[i] = NoLayer
        /\ q.tombs[i] = [lease |-> r.layers[i].lease, lift |-> r.layers[i].resume]
  BY <1>1 DEF Droppable, DropAll, Present, Record
<1>3. \A i \in Id \ Droppable(r) : q.layers[i] = r.layers[i] /\ q.tombs[i] = r.tombs[i]
  BY <1>1 DEF DropAll, Record
<1> HIDE DEF q
<1>4. Inherits(r, q)
  BY <1>2, <1>3 DEF Inherits
<1>5. ASSUME NEW i \in Droppable(r)
      PROVE  IF Stand(r, i) \in {"held", "barred"}
             THEN Stand(q, i) \in {"barred", "free"} ELSE Stand(q, i) = Stand(r, i)
  <2>1. i \in Id /\ r.layers[i].mode # "follow" /\ i \notin Live(q.layers)
    BY <1>2 DEF Droppable, Live, Present
  <2>2. [lease |-> r.layers[i].lease, lift |-> r.layers[i].resume] \in Tomb
    BY <1>2 DEF Layer, Tomb
  <2>3. LiveTomb(q, i) <=> r.layers[i].lease # "over"
    BY <1>2, <2>2, TombAssumption DEF LiveTomb
  <2>4. i \in Live(r.layers) <=> r.layers[i].lease # "over"
    BY <1>2, <2>1 DEF Live, Present
  <2> QED BY <2>1, <2>3, <2>4 DEF Stand
<1>6. ASSUME NEW i \in Id \ Droppable(r)
      PROVE  IF Stand(r, i) \in {"held", "barred"}
             THEN Stand(q, i) \in {"barred", "free"} ELSE Stand(q, i) = Stand(r, i)
  <2>1. i \in Live(r.layers) => r.layers[i].mode = "follow"
    BY DEF Droppable, Live
  <2>2. Stand(q, i) = Stand(r, i)
    BY <1>3 DEF Stand, Live, Present, LiveTomb
  <2> QED BY <2>1, <2>2 DEF Stand
<1> QED BY <1>4, <1>5, <1>6 DEF Yields, q

\* A take-back is such a step, whatever it does to the base (take_back).
LEMMA TakeBackYields ==
  ASSUME NEW r \in Record, BarredIn(r), NEW shown \in Command, NEW groups
  PROVE  Yields(r, TakeBack(r, shown, groups))
<1> DEFINE based == [r EXCEPT !.base = Merge(@, shown, groups)]
           dropped == DropAll(based)
           q == TakeBack(r, shown, groups)
<1>1. Merge(r.base, shown, groups) \in Command
  BY MergeType DEF Record
<1>2. Becomes(r, based)
  BY <1>1, BaseQuiet
<1>3. based \in Record /\ based.layers = r.layers /\ based.tombs = r.tombs
  BY <1>2 DEF Becomes, Record
<1> HIDE DEF based
<1>4. Stays(r, based) /\ BarredIn(based)
  BY <1>3, SameStays DEF BarredIn, LiveTomb
<1>5. Yields(based, dropped)
  BY <1>3, <1>4, DropAllYields
<1>6. dropped \in Record
  BY <1>3, DropAllQuiet DEF Becomes
<1>7. q.layers = dropped.layers /\ q.tombs = dropped.tombs
  BY <1>6 DEF TakeBack, based, Record
<1> HIDE DEF dropped, q
<1>8. Stays(dropped, q)
  BY <1>7, SameStays
<1>9. Yields(r, q)
  BY <1>4, <1>5, <1>8, StaysCompose
<1> QED BY <1>9 DEF q

\* A change Layers did not make: either no id changes hands, or every owner
\* yields (apply_external).
LEMMA ApplyExternalYields ==
  ASSUME NEW r \in Record, BarredIn(r), NEW shown \in Command, NEW groups,
         NEW source, NEW policy, NEW chosen
  PROVE  LET q == ApplyExternal(r, shown, groups, source, policy, chosen)
         IN Stays(r, q) \/ Yields(r, q)
<1> DEFINE again == Reasserts(r, source, policy)
           acting == IF policy = "reassert" /\ ~again THEN "take_back" ELSE policy
           hand == IF chosen = Everything THEN Groups(shown) \cap groups ELSE chosen
           over == [r EXCEPT !.layers = IF again THEN @ ELSE TakeOver(@, hand)]
           edits == acting = "edit_active" /\ EditableLayer(over.base, over.layers) # NoId
           done == CASE again -> [over EXCEPT !.diverged = "delivery"]
                     [] acting = "base_keep_layers" -> BaseKeep(over, shown, groups)
                     [] edits -> EditActive(over, shown, groups)
                     [] OTHER -> TakeBack(over, shown, groups)
           q == ApplyExternal(r, shown, groups, source, policy, chosen)
<1>1. Becomes(r, over)
  BY TakeOverQuiet, QuietReflexive DEF Record
<1>2. over \in Record
  BY <1>1 DEF Becomes
<1>3. over.tombs = r.tombs
  BY DEF Record
<1>4. Stays(r, over)
  <2>1. CASE again
    <3>1. over.layers = r.layers
      BY <2>1 DEF Record
    <3> QED BY <1>3, <3>1, SameStays
  <2>2. CASE ~again
    BY <2>2, TakeOverStays
  <2> QED BY <2>1, <2>2
<1>5. BarredIn(over)
  BY <1>1, QuietKeeps DEF Becomes, BarredIn, Quiet
<1> HIDE DEF over
<1>6. edits => Stays(over, EditActive(over, shown, groups))
  BY <1>2, EditActiveStays
<1>7. Stays(over, BaseKeep(over, shown, groups))
  BY <1>2, BaseKeepStays
<1>8. Yields(over, TakeBack(over, shown, groups))
  BY <1>2, <1>5, TakeBackYields
<1>9. Stays(over, [over EXCEPT !.diverged = "delivery"])
  BY <1>2, SameStays DEF Record
<1> HIDE DEF edits, again, acting
<1>10. Stays(over, done) \/ Yields(over, done)
  BY <1>6, <1>7, <1>8, <1>9
<1>11. done \in Record
  <2>1. edits => EditActive(over, shown, groups) \in Record
    BY <1>2, EditActiveQuiet DEF Becomes, edits
  <2>2. [over EXCEPT !.diverged = "delivery"] \in Record
    BY <1>2 DEF Record, Divergence
  <2>3. BaseKeep(over, shown, groups) \in Record /\ TakeBack(over, shown, groups) \in Record
    BY <1>2, BaseKeepQuiet, TakeBackQuiet DEF Becomes
  <2> QED BY <2>1, <2>2, <2>3
<1> HIDE DEF done
<1>12. q.layers = done.layers /\ q.tombs = done.tombs
  BY <1>11 DEF ApplyExternal, done, edits, over, again, acting, Record
<1> HIDE DEF q
<1>13. Stays(done, q)
  BY <1>12, SameStays
<1>14. Stays(r, q) \/ Yields(r, q)
  BY <1>4, <1>10, <1>13, StaysCompose
<1> QED BY <1>14 DEF q

\* Follow layers that follow again do not change hands (release_manual).
LEMMA ReleaseManualStays ==
  ASSUME NEW r \in Record, NEW off
  PROVE  Stays(r, ReleaseManual(r, off))
<1> DEFINE layers == [i \in Id |-> IF i \in Released(r, off)
                                  THEN [r.layers[i] EXCEPT !.manual = {},
                                                           !.manualLease = "none"]
                                  ELSE r.layers[i]]
<1>1. r.layers \in [Id -> Layer \cup {NoLayer}]
  BY DEF Record
<1>2. \A i \in Released(r, off) : r.layers[i] \in Layer /\ r.layers[i] # NoLayer
  BY <1>1 DEF Released, Present
<1>3. layers \in [Id -> Layer \cup {NoLayer}]
  BY <1>1, <1>2 DEF Layer, Lease
<1>4. \A i \in Released(r, off) : layers[i] \in Layer
  BY <1>2 DEF Layer, Lease, Released
<1>5. \A i \in Id :
        /\ layers[i] = NoLayer <=> r.layers[i] = NoLayer
        /\ r.layers[i] # NoLayer =>
             /\ layers[i].asked = r.layers[i].asked
             /\ layers[i].requested = r.layers[i].requested
             /\ layers[i].source = r.layers[i].source
             /\ layers[i].lease = r.layers[i].lease
             /\ layers[i].mode = "follow" <=> r.layers[i].mode = "follow"
  <2> SUFFICES ASSUME NEW i \in Id
               PROVE  /\ layers[i] = NoLayer <=> r.layers[i] = NoLayer
                      /\ r.layers[i] # NoLayer =>
                           /\ layers[i].asked = r.layers[i].asked
                           /\ layers[i].requested = r.layers[i].requested
                           /\ layers[i].source = r.layers[i].source
                           /\ layers[i].lease = r.layers[i].lease
                           /\ layers[i].mode = "follow" <=> r.layers[i].mode = "follow"
    OBVIOUS
  <2>1. CASE i \notin Released(r, off)
    BY <2>1
  <2>2. CASE i \in Released(r, off)
    BY <1>2, <1>4, <2>2, LayerAssumption DEF Layer
  <2> QED BY <2>1, <2>2
<1> HIDE DEF layers
<1>6. Stays(r, [r EXCEPT !.layers = layers])
  BY <1>3, <1>5, EditedStays
<1> QED BY <1>6 DEF ReleaseManual, layers

\* A lamp that goes off lifts bars, and nothing else (lift_on_off).
LEMMA LiftOnOffLifts ==
  ASSUME NEW r \in Record
  PROVE  Lifts(r, LiftOnOff(r))
<1> DEFINE q == LiftOnOff(r)
<1>1. q.layers = r.layers /\ \A i \in Id : q.tombs[i] \in {r.tombs[i], NoTomb}
  BY DEF LiftOnOff, Record
<1> HIDE DEF q
<1> QED BY <1>1 DEF Lifts, Inherits, Stand, LiveTomb, q

\* A lamp seen off lifts bars, and nothing else (_seen_off).
LEMMA SeenOffLifts ==
  ASSUME NEW r \in Record, NEW off
  PROVE  Lifts(r, SeenOffIf(r, off))
<1>1. Lifts(r, LiftOnOff(r))
  BY LiftOnOffLifts
<1>2. LiftOnOff(r) \in Record
  BY LiftOnOffQuiet DEF Becomes
<1>3. Stays(LiftOnOff(r), ReleaseManual(LiftOnOff(r), TRUE))
  BY <1>2, ReleaseManualStays
<1>4. Lifts(r, SeenOff(r))
  BY <1>1, <1>3 DEF SeenOff, Lifts, Stays, Inherits
<1> QED BY <1>4, StaysCompose DEF SeenOffIf

\* A report judged to be someone's: every owner yields, or bars are lifted at
\* most (_external).
LEMMA JudgedYields ==
  ASSUME NEW r \in Record, BarredIn(r), NEW groups \in Take, NEW source \in ChangeSource,
         NEW policy \in Policies, NEW chosen
  PROVE  LET q == Judged(r, groups, source, policy, chosen)
         IN Lifts(r, q) \/ Yields(r, q)
<1> DEFINE acted == Supersede(r)
           shown == ObservedToCommand(r.observed)
           applied == ApplyExternal(acted, shown, groups, source, policy, chosen)
           seen == SeenOffIf(applied, r.observed.state = "off")
<1>1. Becomes(r, acted)
  BY SupersedeQuiet
<1>2. acted \in Record /\ shown \in Command
  BY <1>1, ObservedType DEF Becomes, Record
<1>3. acted.layers = r.layers /\ acted.tombs = r.tombs
  BY DEF Supersede, Record
<1>4. Stays(r, acted) /\ BarredIn(acted)
  BY <1>3, SameStays DEF BarredIn, LiveTomb
<1> HIDE DEF acted, shown
<1>5. Stays(acted, applied) \/ Yields(acted, applied)
  BY <1>2, <1>4, ApplyExternalYields
<1>6. applied \in Record
  BY <1>2, ApplyExternalQuiet DEF Becomes
<1> HIDE DEF applied
<1>7. Lifts(applied, seen)
  BY <1>6, SeenOffLifts
<1> HIDE DEF seen
<1>8. Lifts(r, seen) \/ Yields(r, seen)
  BY <1>4, <1>5, <1>7, StaysCompose
<1> QED BY <1>8 DEF Judged, seen, applied, acted, shown

\* What followed entities give changes no hands (_read_source).
LEMMA FedStays ==
  ASSUME NEW r \in Record, NEW layers, NEW S \in SUBSET Id, NEW f \in [Id -> Command],
         \A i \in S : r.layers[i] # NoLayer,
         layers = [i \in Id |-> IF i \in S
                               THEN [r.layers[i] EXCEPT !.command = f[i]]
                               ELSE r.layers[i]]
  PROVE  Stays(r, [r EXCEPT !.layers = layers])
<1>1. r.layers \in [Id -> Layer \cup {NoLayer}]
  BY DEF Record
<1>2. layers \in [Id -> Layer \cup {NoLayer}]
  BY <1>1 DEF Layer
<1>3. \A i \in S : layers[i] \in Layer
  BY <1>1 DEF Layer
<1>4. \A i \in Id :
        /\ layers[i] = NoLayer <=> r.layers[i] = NoLayer
        /\ r.layers[i] # NoLayer =>
             /\ layers[i].asked = r.layers[i].asked
             /\ layers[i].requested = r.layers[i].requested
             /\ layers[i].source = r.layers[i].source
             /\ layers[i].lease = r.layers[i].lease
             /\ layers[i].mode = "follow" <=> r.layers[i].mode = "follow"
  BY <1>1, <1>3, LayerAssumption DEF Layer
<1> QED BY <1>2, <1>4, EditedStays

\* An owner's clear frees ids, and nothing else (apply_clear).
LEMMA ApplyClearFrees ==
  ASSUME NEW r \in Record, BarredIn(r), NEW target
  PROVE  Frees(r, ApplyClear(r, target))
<1> DEFINE about == Cleared(r, target)
           removed == about \cap Live(r.layers)
           expired == about \cap Expired(r)
           cleared ==
             [r EXCEPT
                !.layers = [i \in Id |->
                              CASE i \in removed -> NoLayer
                                [] i \in expired -> [@[i] EXCEPT !.render = TRUE]
                                [] OTHER -> @[i]],
                !.tombs = [i \in Id |->
                              IF i \in about /\ target # "active" THEN NoTomb ELSE @[i]]]
           q == ApplyClear(r, target)
<1>1. r.layers \in [Id -> Layer \cup {NoLayer}] /\ r.tombs \in [Id -> Tomb \cup {NoTomb}]
  BY DEF Record
<1>2. \A i \in expired : /\ r.layers[i] \in Layer /\ r.layers[i] # NoLayer
                         /\ r.layers[i].lease = "over"
                         /\ i \notin removed
  BY <1>1 DEF Expired, Present, Live
<1>3. \A i \in Id : cleared.tombs[i] \in {r.tombs[i], NoTomb}
  BY <1>1 DEF Record
<1>4. /\ \A i \in removed : cleared.layers[i] = NoLayer
      /\ \A i \in expired : cleared.layers[i] = [r.layers[i] EXCEPT !.render = TRUE]
      /\ \A i \in Id : i \notin removed /\ i \notin expired => cleared.layers[i] = r.layers[i]
  BY <1>1, <1>2 DEF Record, Live, Expired
<1>5. q.layers = cleared.layers /\ q.tombs = cleared.tombs
  <2>1. q = IF removed \cup expired = {} THEN cleared ELSE LayersChanged(cleared)
    BY DEF ApplyClear
  <2>2. /\ LayersChanged(cleared).layers = cleared.layers
        /\ LayersChanged(cleared).tombs = cleared.tombs
    BY DEF LayersChanged, Record
  <2> HIDE DEF cleared, q, removed, expired
  <2> QED BY <2>1, <2>2
<1> HIDE DEF about, cleared, q
<1>6. \A i \in expired : /\ q.layers[i].asked = r.layers[i].asked
                         /\ q.layers[i].requested = r.layers[i].requested
                         /\ q.layers[i].source = r.layers[i].source
                         /\ q.layers[i].lease = "over"
  <2> SUFFICES ASSUME NEW i \in expired
               PROVE  /\ q.layers[i].asked = r.layers[i].asked
                      /\ q.layers[i].requested = r.layers[i].requested
                      /\ q.layers[i].source = r.layers[i].source
                      /\ q.layers[i].lease = "over"
    OBVIOUS
  <2>1. q.layers[i] = [r.layers[i] EXCEPT !.render = TRUE]
    BY <1>4, <1>5
  <2>2. r.layers[i] \in Layer /\ r.layers[i].lease = "over"
    BY <1>2
  <2> HIDE DEF expired
  <2> QED BY <2>1, <2>2 DEF Layer
<1>7. Inherits(r, q)
  BY <1>2, <1>4, <1>5, <1>6 DEF Inherits
<1>8. ASSUME NEW i \in Id
      PROVE  Stand(q, i) \in {Stand(r, i), "free"}
  <2>1. LiveTomb(q, i) => LiveTomb(r, i)
    BY <1>3, <1>5 DEF LiveTomb
  <2>2. CASE i \in removed
    BY <1>4, <1>5, <2>1, <2>2 DEF Stand, BarredIn, Live, Present
  <2>3. CASE i \in expired
    BY <1>2, <1>6, <2>1, <2>3 DEF Stand, Live
  <2>4. CASE i \notin removed /\ i \notin expired
    BY <1>4, <1>5, <2>1, <2>4 DEF Stand, Live, Present
  <2> QED BY <2>2, <2>3, <2>4
<1> QED BY <1>7, <1>8 DEF Frees, q

\* Removing what ran out changes no hands: it was free before.
LEMMA SweptStays ==
  ASSUME NEW r \in Record
  PROVE  Stays(r, Swept(r))
<1> DEFINE q == Swept(r)
<1>1. \A i \in Id :
        /\ q.layers[i] = IF i \in Expired(r) THEN NoLayer ELSE r.layers[i]
        /\ q.tombs[i] = IF LiveTomb(r, i) THEN r.tombs[i] ELSE NoTomb
  BY DEF Swept, LayersChanged, Record
<1> HIDE DEF q
<1>2. Inherits(r, q)
  BY <1>1 DEF Inherits
<1>3. \A i \in Id : Stand(q, i) = Stand(r, i)
  BY <1>1 DEF Stand, Live, Present, LiveTomb, Expired
<1> QED BY <1>2, <1>3 DEF Stays, q

\* Neither does an expiry, held back or not (expire).
LEMMA ExpireStays ==
  ASSUME NEW r \in Record, NEW shown
  PROVE  Stays(r, Expire(r, shown))
<1> DEFINE q == Expire(r, shown)
<1>1. Swept(r) \in Record
  BY SweptQuiet DEF Becomes
<1>2. q.layers = Swept(r).layers /\ q.tombs = Swept(r).tombs
  BY <1>1 DEF Expire, Record
<1> HIDE DEF q
<1>3. Stays(r, Swept(r)) /\ Stays(Swept(r), q)
  BY <1>2, SweptStays, SameStays
<1>4. Stays(r, q)
  BY <1>3, StaysCompose
<1> QED BY <1>4 DEF q

-----------------------------------------------------------------------------
(* Whom a set gives the lamp to, and what the layer remembers of it *)

\* What a layer keeps of what its owner asked for is what a repeated request
\* says again (_set_named_layer).
AskedAs(lay) ==
  /\ lay.asked = "set" => lay.requested.state # "none"
  /\ lay.asked = "adjust" => lay.requested.state # "on"
  /\ lay.asked = "follow" => lay.source # NoSource /\ Groups(lay.requested) = {}

Remembers(r) == \A i \in Id : r.layers[i] # NoLayer => AskedAs(r.layers[i])

\* A free id is taken, or one in force set anew.
Claimed(r, q, i) ==
  /\ Stand(r, i) # "barred"
  /\ Stand(q, i) \in {"held", "following"}
  /\ \A j \in Id \ {i} : Stand(q, j) = Stand(r, j)

\* A set refused or skipped, or one that leaves every layer where it is, or one
\* that claims an id.
Grants(r, q) ==
  /\ Remembers(q)
  /\ Stays(r, q) \/ \E i \in Id : Claimed(r, q, i)

\* What is left of remembered layers is remembered.
LEMMA InheritsRemembers ==
  ASSUME NEW r, NEW q, Remembers(r), Inherits(r, q)
  PROVE  Remembers(q)
BY DEF Remembers, Inherits, AskedAs

\* Changing no hands grants nothing new.
LEMMA StaysGrants ==
  ASSUME NEW r, NEW q, Remembers(r), Stays(r, q)
  PROVE  Grants(r, q)
BY InheritsRemembers DEF Grants, Stays

\* A set whose record then changes no hands any further.
LEMMA GrantsCompose ==
  ASSUME NEW p, NEW q, NEW r
  PROVE  /\ Grants(p, q) /\ Stays(q, r) => Grants(p, r)
         /\ Stays(p, q) /\ Grants(q, r) => Grants(p, r)
<1>1. ASSUME Grants(p, q), Stays(q, r)
      PROVE  Grants(p, r)
  <2>1. Remembers(r)
    BY <1>1, InheritsRemembers DEF Grants, Stays
  <2>2. Stays(p, q) => Stays(p, r)
    BY <1>1, StaysCompose
  <2>3. \A i \in Id : Claimed(p, q, i) => Claimed(p, r, i)
    BY <1>1 DEF Claimed, Stays
  <2> QED BY <1>1, <2>1, <2>2, <2>3 DEF Grants
<1>2. ASSUME Stays(p, q), Grants(q, r)
      PROVE  Grants(p, r)
  <2>1. Stays(q, r) => Stays(p, r)
    BY <1>2, StaysCompose
  <2>2. \A i \in Id : Claimed(q, r, i) => Claimed(p, r, i)
    BY <1>2 DEF Claimed, Stays
  <2> QED BY <1>2, <2>1, <2>2 DEF Grants
<1> QED BY <1>1, <1>2

\* A layer in force put where no live tombstone is claims its id.
LEMMA PlacedGrants ==
  ASSUME NEW r \in Record, Remembers(r), NEW i \in Id, NEW lay \in Layer,
         ~LiveTomb(r, i), lay.lease # "over", AskedAs(lay)
  PROVE  Grants(r, [r EXCEPT !.layers[i] = lay])
<1> DEFINE q == [r EXCEPT !.layers[i] = lay]
<1>1. /\ q.tombs = r.tombs
      /\ q.layers[i] = lay /\ lay # NoLayer
      /\ \A j \in Id \ {i} : q.layers[j] = r.layers[j]
  BY LayerAssumption DEF Record
<1> HIDE DEF q
<1>2. Remembers(q)
  BY <1>1 DEF Remembers
<1>3. Claimed(r, q, i)
  BY <1>1 DEF Claimed, Stand, Live, Present, LiveTomb
<1> QED BY <1>2, <1>3 DEF Grants, q

\* The same with the change noted.
LEMMA PutLayerGrants ==
  ASSUME NEW r \in Record, Remembers(r), NEW i \in Id, NEW lay \in Layer,
         ~LiveTomb(r, i), lay.lease # "over", AskedAs(lay), NEW result
  PROVE  Grants(r, PutLayer(r, i, lay, result).rec)
<1> DEFINE q == [r EXCEPT !.layers[i] = lay]
           p == PutLayer(r, i, lay, result).rec
<1>1. Grants(r, q)
  BY PlacedGrants
<1>2. p.layers = q.layers /\ p.tombs = q.tombs
  BY DEF PutLayer, Outcome, LayersChanged, Record
<1> HIDE DEF q, p
<1>3. Grants(r, p)
  BY <1>1, <1>2, SameStays, GrantsCompose
<1> QED BY <1>3 DEF p

\* A set of the base gives the lamp to nobody (_set_base_layer).
LEMMA SetBaseGrants ==
  ASSUME NEW r \in Record, Remembers(r), NEW req
  PROVE  Grants(r, SetBaseLayer(r, req).rec)
<1> DEFINE q == SetBaseLayer(r, req).rec
<1>1. q.layers = r.layers /\ q.tombs = r.tombs
  BY DEF SetBaseLayer, Outcome, LayersChanged, Record
<1> HIDE DEF q
<1>2. Grants(r, q)
  BY <1>1, SameStays, StaysGrants
<1> QED BY <1>2 DEF q

\* A set of the active layer leaves it with its owner (_set_active_layer).
LEMMA SetActiveGrants ==
  ASSUME NEW r, Good(r), Remembers(r), NEW req \in SetRequest
  PROVE  Grants(r, SetActiveLayer(r, req).rec)
<1> DEFINE top == EditableLayer(r.base, r.layers)
           lay == r.layers[top]
           edited ==
             CASE lay.mode = "adjust" /\ req.command.state = "off" -> ToSetOff(lay)
               [] lay.mode = "adjust" /\ req.command.state # "off" ->
                    [lay EXCEPT !.command = MergeAttributes(@, req.command, Everything)]
               [] lay.mode # "adjust" ->
                    [lay EXCEPT !.command = Merge(@, req.command, Everything)]
<1>1. CASE top = NoId
  BY <1>1, SetBaseGrants DEF SetActiveLayer, Good
<1>2. CASE top # NoId
  <2>1. /\ top \in Live(r.layers) /\ lay \in Layer /\ top \in Id
        /\ lay.lease # "over" /\ AskedAs(lay)
    BY <1>2, EditableIsLive DEF Good, Live, Present, Remembers
  <2> HIDE DEF top, lay
  <2>2. lay.command \in Command /\ req.command \in Command
    BY <2>1 DEF Layer, SetRequest
  <2>3. /\ MergeAttributes(lay.command, req.command, Everything) \in Command
        /\ Merge(lay.command, req.command, Everything) \in Command
    BY <2>2, MergeType, MergeAttributesType
  <2>4. /\ ToSetOff(lay) \in Layer
        /\ ToSetOff(lay).lease = lay.lease
        /\ ToSetOff(lay).asked = lay.asked
        /\ ToSetOff(lay).requested = lay.requested
        /\ ToSetOff(lay).source = lay.source
    BY <2>1, ConstantCommands DEF ToSetOff, Layer, Mode
  <2>5. /\ edited \in Layer
        /\ edited.lease = lay.lease
        /\ edited.asked = lay.asked
        /\ edited.requested = lay.requested
        /\ edited.source = lay.source
    BY <2>1, <2>3, <2>4 DEF Layer
  <2> HIDE DEF edited
  <2>6. AskedAs(edited) /\ edited.lease # "over"
    BY <2>1, <2>5 DEF AskedAs
  <2>7. ~LiveTomb(r, top)
    BY <2>1 DEF Good, BarredIn
  <2>8. Grants(r, PutLayer(r, top, edited, "active_set").rec)
    BY <2>1, <2>5, <2>6, <2>7, PutLayerGrants DEF Good
  <2> QED BY <1>2, <2>8 DEF SetActiveLayer, edited, lay, top
<1> QED BY <1>1, <1>2

\* A layer is created as its owner asked for it (_set_named_layer).
LEMMA CreateGrants ==
  ASSUME NEW r \in Record, Remembers(r), NEW req \in SetRequest, req.layer \in Id,
         WellFormed(req), Asked(req) = req, ~LiveTomb(r, req.layer), req.lease # "over",
         ~(req.mode = "follow" /\ FollowRefused(r, req))
  PROVE  Grants(r, CreateLayer(r, req).rec)
<1>1. CASE /\ ~req.onlyIfPresent /\ req.priority # NoPriority
           /\ ~PriorityTaken(r, req.priority, req.layer)
  <2>1. req.mode = "follow" => req.source \in Source /\ Groups(req.command) = {}
    BY <1>1 DEF FollowRefused, SetRequest
  <2>2. NewLayer(req) \in Layer /\ NewLayer(req).lease = req.lease
    BY <1>1, <2>1 DEF NewLayer, Layer, SetRequest, Lease
  <2>3. req.mode = "set" => req.command.state # "none"
    <3> SUFFICES ASSUME req.mode = "set", req.command.state = "none" PROVE FALSE
      OBVIOUS
    <3>1. req.layer \notin {"base", "active"}
      BY PolicyAssumption
    <3>2. Asked(req).command.state = "on"
      BY <1>1, <3>1 DEF Asked, SetRequest, Command
    <3> QED BY <3>2
  <2>4. req.mode = "adjust" => req.command.state = "none"
    BY DEF WellFormed
  <2>5. AskedAs(NewLayer(req))
    BY <2>1, <2>3, <2>4, ResolveAssumption DEF AskedAs, NewLayer
  <2>6. Grants(r, PutLayer(r, req.layer, NewLayer(req), "created").rec)
    BY <1>1, <2>2, <2>5, PutLayerGrants
  <2> QED BY <1>1, <2>6 DEF CreateLayer
<1>2. CASE ~(/\ ~req.onlyIfPresent /\ req.priority # NoPriority
             /\ ~PriorityTaken(r, req.priority, req.layer))
  <2>1. CreateLayer(r, req).rec = r
    BY <1>2 DEF CreateLayer, Outcome, SetRequest
  <2> QED BY <2>1, StaysCompose, StaysGrants
<1> QED BY <1>1, <1>2

\* The parts of a layer that sets leave or change together.
LEMMA OptionsKeep ==
  ASSUME NEW lay \in Layer, NEW req \in SetRequest, NEW keep, req.lease # "over",
         lay.lease # "over"
  PROVE  /\ Renewed(lay, req, keep).lease # "over"
         /\ Renewed(lay, req, keep).asked = lay.asked
         /\ Renewed(lay, req, keep).requested = lay.requested
         /\ Renewed(lay, req, keep).source = lay.source
         /\ Optioned(lay, req).lease = req.lease
         /\ Optioned(lay, req).asked = lay.asked
         /\ Optioned(lay, req).requested = lay.requested
         /\ Optioned(lay, req).source = lay.source
BY DEF Renewed, Optioned, Layer, SetRequest

\* A follow layer set again still follows a source (_set_follow_layer).
LEMMA SetFollowGrants ==
  ASSUME NEW r, Good(r), Remembers(r), NEW req \in SetRequest, req.layer \in Live(r.layers),
         req.lease # "over", r.layers[req.layer].asked = "follow",
         req.onlyIfPresent \/ req.mode = "follow",
         ~(req.mode = "follow" /\ FollowRefused(r, req)), ~LiveTomb(r, req.layer)
  PROVE  Grants(r, SetFollowLayer(r, req).rec)
<1> DEFINE lay == r.layers[req.layer]
           newSource == ~req.onlyIfPresent /\ req.source # lay.source
           timeout == lay.manualTimeout \/ req.manualTimeout
           refreshed == [Renewed(lay, req, TRUE) EXCEPT !.manualTimeout = timeout]
           opt == Optioned(lay, req)
           prio == PriorityOf(lay, req)
           src == IF newSource THEN req.source ELSE opt.source
           cmd == IF newSource THEN Nothing ELSE opt.command
           updated == [opt EXCEPT !.prio = prio, !.source = src, !.command = cmd,
                                  !.manual = {}, !.manualLease = "none",
                                  !.manualTimeout = timeout]
<1>1. lay \in Layer /\ req.layer \in Id /\ lay.lease # "over" /\ AskedAs(lay)
  BY DEF Good, Record, Live, Present, Remembers
<1>2. newSource => req.source \in Source
  BY DEF FollowRefused, SetRequest
<1>3. timeout \in BOOLEAN
  BY <1>1 DEF Layer, SetRequest
<1>4. lay.asked = "follow"
  OBVIOUS
<1> HIDE DEF newSource, timeout, lay
<1>5. /\ refreshed \in Layer
      /\ refreshed.lease # "over"
      /\ AskedAs(refreshed)
  <2>1. Renewed(lay, req, TRUE) \in Layer
    BY <1>1, OptionsType
  <2>2. /\ Renewed(lay, req, TRUE).lease # "over"
        /\ AskedAs(Renewed(lay, req, TRUE))
    BY <1>1, OptionsKeep DEF AskedAs
  <2> DEFINE l == Renewed(lay, req, TRUE)
  <2> HIDE DEF l
  <2>3. l \in Layer /\ l.lease # "over" /\ AskedAs(l)
    BY <2>1, <2>2 DEF l
  <2>4. [l EXCEPT !.manualTimeout = timeout] \in Layer
    BY <1>3, <2>3, FollowEditType
  <2>5. /\ [l EXCEPT !.manualTimeout = timeout].lease # "over"
        /\ AskedAs([l EXCEPT !.manualTimeout = timeout])
    BY <2>3 DEF AskedAs, Layer
  <2> QED BY <2>4, <2>5 DEF l
<1>6. /\ updated \in Layer
      /\ updated.lease # "over"
      /\ AskedAs(updated)
  <2>1. opt \in Layer /\ prio \in Priority
    BY <1>1, OptionsType
  <2>2. opt.lease # "over" /\ AskedAs(opt) /\ opt.asked = "follow"
    BY <1>1, <1>4, OptionsKeep DEF AskedAs
  <2>3. opt.source \in Source \cup {NoSource} /\ opt.command \in Command /\ Nothing \in Command
    BY <2>1, ConstantCommands DEF Layer
  <2> HIDE DEF opt, prio
  <2>4. src \in Source /\ cmd \in Command
    BY <1>2, <2>2, <2>3 DEF AskedAs
  <2> HIDE DEF src, cmd
  <2>5. updated \in Layer
    BY <1>3, <2>1, <2>4 DEF Layer, Lease
  <2>6. /\ updated.lease = opt.lease
        /\ updated.asked = opt.asked
        /\ updated.requested = opt.requested
        /\ updated.source = src
    BY <2>1 DEF Layer
  <2> HIDE DEF updated
  <2>7. AskedAs(updated)
    BY <2>2, <2>4, <2>6, ResolveAssumption DEF AskedAs
  <2> QED BY <2>2, <2>5, <2>6, <2>7
<1> HIDE DEF refreshed, updated
<1>7. CASE ~Moves(lay, req) /\ ~newSource
  <2>1. Grants(r, [r EXCEPT !.layers[req.layer] = refreshed])
    BY <1>1, <1>5, PlacedGrants DEF Good
  <2> QED BY <1>7, <2>1 DEF SetFollowLayer, Outcome, refreshed, newSource, timeout, lay
<1>8. CASE Moves(lay, req) /\ PriorityTaken(r, req.priority, req.layer)
  <2>1. SetFollowLayer(r, req).rec = r
    BY <1>8 DEF SetFollowLayer, Outcome, lay
  <2> QED BY <2>1, StaysCompose, StaysGrants
<1>9. CASE /\ ~(~Moves(lay, req) /\ ~newSource)
           /\ ~(Moves(lay, req) /\ PriorityTaken(r, req.priority, req.layer))
  <2>1. Grants(r, PutLayer(r, req.layer, updated, "updated").rec)
    BY <1>1, <1>6, PutLayerGrants DEF Good
  <2> QED BY <1>9, <2>1 DEF SetFollowLayer, updated, src, cmd, prio, opt, newSource, timeout, lay
<1> QED BY <1>7, <1>8, <1>9

\* A layer set anew remembers what it is asked now (_set_named_layer).
LEMMA UpdateGrants ==
  ASSUME NEW r, Good(r), Remembers(r), NEW req \in SetRequest, req.layer \in Live(r.layers),
         WellFormed(req), Asked(req) = req, req.lease # "over",
         ~(/\ r.layers[req.layer].asked = "follow"
           /\ req.onlyIfPresent \/ req.mode = "follow"),
         ~(req.mode = "follow" /\ FollowRefused(r, req)), ~LiveTomb(r, req.layer)
  PROVE  Grants(r, UpdateLayer(r, req).rec)
<1> DEFINE lay == r.layers[req.layer]
           mode == IF req.onlyIfPresent THEN lay.asked ELSE req.mode
           command == IF req.onlyIfPresent THEN AsMode(req.command, mode) ELSE req.command
           follows == mode = "follow"
           source == IF follows THEN req.source ELSE NoSource
           timeout == follows /\ req.manualTimeout
           updated == [Optioned(lay, req) EXCEPT
                         !.prio = PriorityOf(lay, req),
                         !.mode = mode, !.asked = mode,
                         !.requested = command, !.command = command,
                         !.source = source,
                         !.manual = {},
                         !.manualLease = "none",
                         !.manualTimeout = timeout]
           same == command = lay.requested /\ mode = lay.asked /\ ~Moves(lay, req)
<1>1. lay \in Layer /\ req.layer \in Id /\ lay.lease # "over" /\ AskedAs(lay)
  BY DEF Good, Record, Live, Present, Remembers
<1>2. mode \in Mode /\ command \in Command
  BY <1>1, AsModeType DEF Layer, SetRequest
<1>3. source \in Source \cup {NoSource}
  BY DEF FollowRefused, SetRequest
<1>4. mode = "follow" => ~req.onlyIfPresent /\ req.mode = "follow"
  OBVIOUS
<1>5. mode = "follow" => source # NoSource /\ Groups(command) = {}
  BY <1>4 DEF FollowRefused
<1>6. mode = "set" => command.state # "none"
  <2>1. CASE req.onlyIfPresent
    BY <2>1 DEF AsMode, SetRequest, Command
  <2>2. CASE ~req.onlyIfPresent
    <3> SUFFICES ASSUME req.mode = "set", req.command.state = "none" PROVE FALSE
      BY <2>2
    <3>1. req.layer \notin {"base", "active"}
      BY <1>1, PolicyAssumption
    <3>2. Asked(req).command.state = "on"
      BY <2>2, <3>1 DEF Asked, SetRequest, Command
    <3> QED BY <3>2
  <2> QED BY <2>1, <2>2
<1>7. mode = "adjust" => command.state # "on"
  <2>1. CASE req.onlyIfPresent
    BY <2>1 DEF AsMode, SetRequest, Command
  <2>2. CASE ~req.onlyIfPresent
    BY <2>2 DEF WellFormed
  <2> QED BY <2>1, <2>2
<1>8. timeout \in BOOLEAN
  OBVIOUS
<1> HIDE DEF mode, command, follows, source, timeout
<1>9. updated \in Layer /\ updated.lease # "over" /\ AskedAs(updated)
  <2> DEFINE opt == Optioned(lay, req)
  <2>1. opt \in Layer /\ PriorityOf(lay, req) \in Priority /\ opt.lease # "over"
    BY <1>1, OptionsType, OptionsKeep
  <2> HIDE DEF lay, opt
  <2>2. "none" \in Lease
    BY DEF Lease
  <2>3. [opt EXCEPT !.prio = PriorityOf(lay, req),
                    !.mode = mode, !.asked = mode,
                    !.requested = command, !.command = command,
                    !.source = source,
                    !.manual = {},
                    !.manualLease = "none",
                    !.manualTimeout = timeout] \in Layer
    BY <1>2, <1>3, <1>8, <2>1, <2>2 DEF Layer
  <2>4. updated \in Layer
    BY <2>3 DEF opt
  <2>5. /\ updated.lease = opt.lease
        /\ updated.asked = mode
        /\ updated.requested = command
        /\ updated.source = source
    BY <2>1 DEF Layer, opt
  <2> HIDE DEF updated
  <2>6. AskedAs(updated)
    BY <1>5, <1>6, <1>7, <2>5 DEF AskedAs
  <2> QED BY <2>1, <2>4, <2>5, <2>6
<1> HIDE DEF updated
<1>10. /\ Renewed(lay, req, TRUE) \in Layer
       /\ Renewed(lay, req, TRUE).lease # "over"
       /\ AskedAs(Renewed(lay, req, TRUE))
  <2> HIDE DEF lay
  <2>1. Renewed(lay, req, TRUE) \in Layer
    BY <1>1, OptionsType
  <2>2. /\ Renewed(lay, req, TRUE).lease # "over"
        /\ Renewed(lay, req, TRUE).asked = lay.asked
        /\ Renewed(lay, req, TRUE).requested = lay.requested
        /\ Renewed(lay, req, TRUE).source = lay.source
    BY <1>1, OptionsKeep
  <2>3. AskedAs(Renewed(lay, req, TRUE))
    BY <1>1, <2>2 DEF AskedAs
  <2> QED BY <2>1, <2>2, <2>3
<1>11. CASE same
  <2>1. Grants(r, [r EXCEPT !.layers[req.layer] = Renewed(lay, req, TRUE)])
    BY <1>1, <1>10, PlacedGrants DEF Good
  <2> QED BY <1>11, <2>1 DEF UpdateLayer, Outcome, mode, command, lay
<1>12. CASE ~same /\ Moves(lay, req) /\ PriorityTaken(r, req.priority, req.layer)
  <2>1. UpdateLayer(r, req).rec = r
    BY <1>12 DEF UpdateLayer, Outcome, mode, command, lay
  <2> QED BY <2>1, StaysCompose, StaysGrants
<1>13. CASE ~same /\ ~(Moves(lay, req) /\ PriorityTaken(r, req.priority, req.layer))
  <2>1. Grants(r, PutLayer(r, req.layer, updated, "updated").rec)
    BY <1>1, <1>9, PutLayerGrants DEF Good
  <2> QED BY <1>13, <2>1 DEF UpdateLayer, updated, source, timeout, follows, mode, command, lay
<1> QED BY <1>11, <1>12, <1>13

\* Whatever an owner sends, it claims at most the id it names, and never a
\* barred one (apply_set).
LEMMA ApplySetGrants ==
  ASSUME NEW r, Good(r), Remembers(r), NEW req \in SetRequest,
         WellFormed(req), Asked(req) = req
  PROVE  Grants(r, ApplySet(r, req).rec)
<1> DEFINE refused ==
             \/ req.mode = "follow" /\ FollowRefused(r, req)
             \/ /\ req.mode # "follow" /\ Groups(req.command) = {}
                /\ ~RenewsFollow(r, req)
<1>1. CASE refused
  <2>1. ApplySet(r, req).rec = r
    BY <1>1 DEF ApplySet, Outcome
  <2> QED BY <2>1, StaysCompose, StaysGrants
<1>2. CASE ~refused /\ req.layer = "base"
  BY <1>2, SetBaseGrants DEF ApplySet, Good
<1>3. CASE ~refused /\ req.layer = "active"
  BY <1>3, SetActiveGrants DEF ApplySet
<1>4. CASE ~refused /\ req.layer \notin {"base", "active"}
  <2>1. ~(req.mode = "follow" /\ FollowRefused(r, req)) /\ req.layer \in Id
    BY <1>4 DEF SetRequest
  <2>2. CASE LiveTomb(r, req.layer) \/ req.lease = "over"
    <3>1. ApplySet(r, req).rec = r
      BY <1>4, <2>2 DEF ApplySet, SetNamedLayer, Outcome
    <3> QED BY <3>1, StaysCompose, StaysGrants
  <2>3. CASE ~LiveTomb(r, req.layer) /\ req.lease # "over"
    <3>1. req.layer \notin Live(r.layers) => Grants(r, CreateLayer(r, req).rec)
      BY <2>1, <2>3, CreateGrants DEF Good
    <3>2. /\ req.layer \in Live(r.layers)
          /\ r.layers[req.layer].asked = "follow"
          /\ req.onlyIfPresent \/ req.mode = "follow"
          => Grants(r, SetFollowLayer(r, req).rec)
      BY <2>1, <2>3, SetFollowGrants
    <3>3. /\ req.layer \in Live(r.layers)
          /\ ~(/\ r.layers[req.layer].asked = "follow"
               /\ req.onlyIfPresent \/ req.mode = "follow")
          => Grants(r, UpdateLayer(r, req).rec)
      BY <2>1, <2>3, UpdateGrants
    <3>4. Grants(r, SetNamedLayer(r, req).rec)
      BY <2>3, <3>1, <3>2, <3>3 DEF SetNamedLayer
    <3> QED BY <1>4, <3>4 DEF ApplySet
  <2> QED BY <2>2, <2>3
<1> QED BY <1>1, <1>2, <1>3, <1>4


-----------------------------------------------------------------------------
(* What the lamp is meant to be *)

\* What a lamp can be sent is a command (project).
LEMMA ProjectType ==
  ASSUME NEW cmd \in Command
  PROVE  Project(cmd) \in Command
<1>1. cmd.bri \in Level \cup {NoValue} /\ cmd.col \in Color \cup {NoValue}
  BY DEF Command
<1>2. cmd.col # NoValue => Takes[cmd.col] \in Color \cup {NoValue}
  BY <1>1, CommandAssumption
<1>3. 1 \in Level
  BY CommandAssumption
<1> QED BY <1>1, <1>2, <1>3, ConstantCommands DEF Project, Command, Cmd

\* A layer of the stack that is the topmost of some is a layer.
LEMMA TopmostIsLayer ==
  ASSUME NEW r \in Record, NEW S \in SUBSET Live(r.layers), Topmost(r.layers, S) # NoId
  PROVE  r.layers[Topmost(r.layers, S)] \in Layer
<1>1. Topmost(r.layers, S) \in Live(r.layers)
  BY TopmostIn
<1> QED BY <1>1 DEF Live, Present, Record

\* The effective command is a command (resolve).
LEMMA EffectiveType ==
  ASSUME NEW r \in Record
  PROVE  EffectiveNow(r) \in Command
<1>1. ASSUME NEW group
      PROVE  Said(r.base, r.layers, Giver(r.base, r.layers, Live(r.layers), group)) \in Command
  <2> DEFINE i == Giver(r.base, r.layers, Live(r.layers), group)
  <2>1. i # NoId => r.layers[i] \in Layer
    BY TopmostIsLayer DEF Giver
  <2> HIDE DEF i
  <2>2. Said(r.base, r.layers, i) \in Command
    BY <2>1 DEF Said, Layer, Record
  <2> QED BY <2>2 DEF i
<1> DEFINE bri == Said(r.base, r.layers, Giver(r.base, r.layers, Live(r.layers), "brightness"))
           col == Said(r.base, r.layers, Giver(r.base, r.layers, Live(r.layers), "color"))
<1>2. bri \in Command /\ col \in Command
  BY <1>1
<1> HIDE DEF bri, col
<1>3. Cmd("on", bri.bri, col.col) \in Command
  BY <1>2 DEF Cmd, Command
<1> QED BY <1>3, ConstantCommands DEF EffectiveNow, Effective, EffectiveOf, bri, col

\* The on/off Layers wants is what the set layers, or else the base, say
\* (effective).
LEMMA EffectiveState ==
  ASSUME NEW r \in Record
  PROVE  EffectiveNow(r).state = StateOf(r.base, r.layers, OfMode(r.layers, "set"))
<1> DEFINE state == StateOf(r.base, r.layers, OfMode(r.layers, "set"))
<1>1. r.base.state \in {"on", "off", "none"}
  BY DEF Record, Command
<1>2. state \in {"on", "off", "none"}
  BY <1>1 DEF StateOf
<1> HIDE DEF state
<1>3. CASE state = "none"
  <2>1. EffectiveNow(r) = Nothing
    BY <1>3 DEF EffectiveNow, Effective, EffectiveOf, state
  <2> QED BY <1>3, <2>1 DEF Nothing, Cmd, state
<1>4. CASE state = "off"
  <2>1. EffectiveNow(r) = OffCommand
    BY <1>4 DEF EffectiveNow, Effective, EffectiveOf, state
  <2> QED BY <1>4, <2>1 DEF OffCommand, Cmd, state
<1>5. CASE state = "on"
  <2>1. PICK bri, col : EffectiveNow(r) = Cmd("on", bri, col)
    BY <1>5 DEF EffectiveNow, Effective, EffectiveOf, state
  <2> QED BY <1>5, <2>1 DEF Cmd, state
<1> QED BY <1>2, <1>3, <1>4, <1>5

\* A bounded set of numbers has a highest one.
LEMMA HighestNumber ==
  ASSUME NEW N \in Nat, NEW T \in SUBSET (1..N), T # {}
  PROVE  \E m \in T : \A n \in T : n <= m
<1> DEFINE ups == {m..N : m \in T}
<1>1. ASSUME NEW m \in T
      PROVE  m..N \in FiniteSubsetsOf(1..N)
  <2>1. m \in Int /\ N \in Int /\ 1 <= m
    OBVIOUS
  <2>2. IsFiniteSet(m..N)
    BY <2>1, FS_Interval
  <2>3. m..N \in SUBSET (1..N)
    BY <2>1
  <2> QED BY <2>2, <2>3 DEF FiniteSubsetsOf
<1>2. ups \subseteq FiniteSubsetsOf(1..N) /\ ups # {}
  BY <1>1
<1> HIDE DEF ups
<1>3. PICK up \in ups : \A lower \in ups : ~(<<lower, up>> \in StrictSubsetOrdering(1..N))
  BY <1>2, FS_StrictSubsetOrderingWellFounded, WFMin
<1>4. PICK m \in T : up = m..N
  BY DEF ups
<1>5. ASSUME NEW n \in T
      PROVE  n <= m
  <2>1. n..N \in ups
    BY DEF ups
  <2>2. ~(<<n..N, m..N>> \in StrictSubsetOrdering(1..N))
    BY <1>3, <1>4, <2>1
  <2>3. n..N \in SUBSET (1..N) /\ m..N \in SUBSET (1..N)
    OBVIOUS
  <2>4. ~(n..N \subseteq m..N /\ n..N # m..N)
    BY <2>2, <2>3 DEF StrictSubsetOrdering
  <2>5. CASE m < n
    <3>1. n..N \subseteq m..N
      BY <2>5
    <3>2. m \in m..N /\ ~(m \in n..N)
      BY <2>5
    <3> QED BY <2>4, <3>1, <3>2
  <2> QED BY <2>5
<1> QED BY <1>5

\* Of a set of layers in force one is the highest: priorities are bounded
\* (PRIORITY_MAX).
LEMMA StackHasTop ==
  ASSUME NEW layers \in [Id -> Layer \cup {NoLayer}], NEW S \in SUBSET Live(layers), S # {}
  PROVE  /\ Topmost(layers, S) \in S
         /\ \A j \in S : layers[j].prio <= layers[Topmost(layers, S)].prio
<1> DEFINE T == {layers[i].prio : i \in S}
<1>1. \A i \in S : layers[i].prio \in 1..99
  BY ResolveAssumption DEF Live, Present, Layer
<1>2. T \in SUBSET (1..99) /\ T # {} /\ 99 \in Nat
  BY <1>1
<1>3. PICK m \in T : \A n \in T : n <= m
  BY <1>2, HighestNumber
<1>4. PICK i \in S : m = layers[i].prio
  BY <1>3
<1>5. i \in Highest(layers, S)
  BY <1>3, <1>4 DEF Highest
<1>6. Topmost(layers, S) \in Highest(layers, S)
  BY <1>5 DEF Topmost
<1> QED BY <1>6 DEF Highest

\* The topmost layer depends on the priorities only.
LEMMA TopmostSame ==
  ASSUME NEW l, NEW m, NEW S, \A i \in S : m[i].prio = l[i].prio
  PROVE  Topmost(m, S) = Topmost(l, S)
<1>1. Highest(m, S) = Highest(l, S)
  BY DEF Highest
<1> QED BY <1>1 DEF Topmost

\* Giving the follow layers back leaves the set layers (release_manual).
LEMMA ReleaseManualSets ==
  ASSUME NEW r \in Record, NEW off
  PROVE  LET q == ReleaseManual(r, off)
         IN /\ q.base = r.base
            /\ OfMode(q.layers, "set") = OfMode(r.layers, "set")
            /\ \A i \in OfMode(r.layers, "set") : q.layers[i] = r.layers[i]
<1> DEFINE q == ReleaseManual(r, off)
           lay(i) == [r.layers[i] EXCEPT !.manual = {}, !.manualLease = "none"]
<1>1. r.layers \in [Id -> Layer \cup {NoLayer}]
  BY DEF Record
<1>2. \A i \in Id : q.layers[i] = IF i \in Released(r, off) THEN lay(i) ELSE r.layers[i]
  BY DEF ReleaseManual, Record
<1>3. q.base = r.base
  BY DEF ReleaseManual, Record
<1> HIDE DEF q
<1>4. \A i \in Released(r, off) : lay(i) \in Layer /\ lay(i).mode = "follow"
  <2> SUFFICES ASSUME NEW i \in Released(r, off)
               PROVE  lay(i) \in Layer /\ lay(i).mode = "follow"
    OBVIOUS
  <2>1. r.layers[i] \in Layer /\ r.layers[i].mode = "follow"
    BY <1>1 DEF Released, Present
  <2> QED BY <2>1 DEF Layer, Lease
<1>5. \A i \in Released(r, off) : i \notin OfMode(r.layers, "set") /\ i \notin OfMode(q.layers, "set")
  BY <1>2, <1>4 DEF OfMode, Released
<1>6. OfMode(q.layers, "set") = OfMode(r.layers, "set")
  BY <1>2, <1>5 DEF OfMode, Live, Present
<1>7. \A i \in OfMode(r.layers, "set") : q.layers[i] = r.layers[i]
  BY <1>2, <1>5 DEF OfMode, Live
<1> QED BY <1>3, <1>6, <1>7 DEF q

\* A lamp an expiry was held back from lighting is not wanted on (expire,
\* release_manual).
LEMMA HeldBackWantsDark ==
  ASSUME NEW r \in Record, NEW shown \in Report, HeldBack(r, shown), shown.state # "on"
  PROVE  EffectiveNow(ReleaseManual(Expire(r, shown), FALSE)).state # "on"
<1> DEFINE swept == Swept(r)
           expired == Expire(r, shown)
           q == ReleaseManual(expired, FALSE)
           S == OfMode(swept.layers, "set")
<1>1. swept \in Record /\ expired \in Record
  BY SweptQuiet, ExpireQuiet DEF Becomes
<1>2. q \in Record
  BY <1>1, ReleaseManualQuiet DEF Becomes
<1>3. Topmost(swept.layers, S) = NoId
  BY DEF HeldBack, StateHolder
<1>4. /\ expired.layers = swept.layers
      /\ expired.base = ObservedToCommand(shown)
  BY <1>1 DEF Expire, Record
<1>5. ObservedToCommand(shown).state # "on"
  BY DEF ObservedToCommand, OffCommand, Nothing, Cmd
<1> HIDE DEF swept, expired
<1>6. /\ q.base = expired.base
      /\ OfMode(q.layers, "set") = S
      /\ \A i \in S : q.layers[i] = swept.layers[i]
  <2>1. /\ q.base = expired.base
        /\ OfMode(q.layers, "set") = OfMode(expired.layers, "set")
        /\ \A i \in OfMode(expired.layers, "set") : q.layers[i] = expired.layers[i]
    BY <1>1, ReleaseManualSets
  <2> HIDE DEF q
  <2> QED BY <1>4, <2>1
<1> HIDE DEF q, S
<1>7. Topmost(q.layers, S) = NoId
  BY <1>3, <1>6, TopmostSame
<1>8. StateOf(q.base, q.layers, OfMode(q.layers, "set")) = q.base.state
  BY <1>6, <1>7 DEF StateOf
<1>9. EffectiveNow(q).state # "on"
  BY <1>2, <1>4, <1>5, <1>6, <1>8, EffectiveState
<1> QED BY <1>9 DEF q, expired

-----------------------------------------------------------------------------
(* What a person's change leaves shown *)

\* The layers in force differ in nothing but what a person took over.
SaysSame(l, m) ==
  /\ Live(m) = Live(l)
  /\ \A i \in Live(l) : /\ m[i].prio = l[i].prio /\ m[i].mode = l[i].mode
                        /\ m[i].command = l[i].command

\* The follow layers in force give neither brightness nor colour.
SilentFollows(layers) ==
  \A i \in OfMode(layers, "follow") : Groups(layers[i].command) \cap AttrGroup = {}

LEMMA SaysSameComposes ==
  ASSUME NEW l, NEW m, NEW n, SaysSame(l, m), SaysSame(m, n)
  PROVE  SaysSame(l, n)
BY DEF SaysSame

LEMMA StaysSilent ==
  ASSUME NEW l, NEW m, SaysSame(l, m), SilentFollows(l)
  PROVE  SilentFollows(m)
BY DEF SaysSame, SilentFollows, OfMode

\* Taking follow layers over changes nothing else of them (_take_over).
LEMMA TakeOverSays ==
  ASSUME NEW layers \in [Id -> Layer \cup {NoLayer}], NEW chosen
  PROVE  SaysSame(layers, TakeOver(layers, chosen))
<1> DEFINE hand == chosen \cap AttrGroup
           taken(i) == [layers[i] EXCEPT
                          !.manual = @ \cup hand,
                          !.manualLease = IF layers[i].manualTimeout THEN "running" ELSE @]
           m == TakeOver(layers, chosen)
<1>1. \A i \in Id : m[i] = IF hand # {} /\ i \in OfMode(layers, "follow") THEN taken(i)
                           ELSE layers[i]
  BY DEF TakeOver
<1>2. ASSUME NEW i \in Id
      PROVE  \/ m[i] = layers[i]
             \/ /\ i \in Live(layers) /\ layers[i] \in Layer /\ m[i] \in Layer
                /\ m[i].lease = layers[i].lease /\ m[i].prio = layers[i].prio
                /\ m[i].mode = layers[i].mode /\ m[i].command = layers[i].command
  <2>1. CASE i \in OfMode(layers, "follow") /\ hand # {}
    <3>1. i \in Live(layers) /\ layers[i] \in Layer
      BY <2>1 DEF OfMode, Live, Present
    <3>2. m[i] = taken(i)
      BY <1>1, <2>1
    <3> HIDE DEF m
    <3>3. m[i] \in Layer
      BY <3>1, <3>2 DEF Layer, Lease
    <3> QED BY <3>1, <3>2, <3>3 DEF Layer
  <2>2. CASE ~(i \in OfMode(layers, "follow") /\ hand # {})
    BY <1>1, <2>2
  <2> QED BY <2>1, <2>2
<1> HIDE DEF m
<1>3. Live(m) = Live(layers)
  BY <1>2, LayerAssumption DEF Live, Present
<1>4. \A i \in Live(layers) : /\ m[i].prio = layers[i].prio /\ m[i].mode = layers[i].mode
                              /\ m[i].command = layers[i].command
  BY <1>2 DEF Live
<1> QED BY <1>3, <1>4 DEF SaysSame, m

\* A lamp seen off has the follow layers back, and no layer says anything else
\* (seen_off, release_manual).
LEMMA SeenOffSays ==
  ASSUME NEW r \in Record, NEW off
  PROVE  LET q == SeenOffIf(r, off)
         IN /\ q.base = r.base /\ q.observed = r.observed /\ q.diverged = r.diverged
            /\ SaysSame(r.layers, q.layers)
<1> DEFINE lifted == LiftOnOff(r)
           q == ReleaseManual(lifted, TRUE)
           lay(i) == [r.layers[i] EXCEPT !.manual = {}, !.manualLease = "none"]
<1>1. lifted \in Record
  BY LiftOnOffQuiet DEF Becomes
<1>2. /\ lifted.base = r.base /\ lifted.layers = r.layers
      /\ lifted.observed = r.observed /\ lifted.diverged = r.diverged
  BY DEF LiftOnOff, Record
<1> HIDE DEF lifted
<1>3. /\ q.base = r.base /\ q.observed = r.observed /\ q.diverged = r.diverged
      /\ \A i \in Id : q.layers[i] = IF i \in Released(lifted, TRUE) THEN lay(i) ELSE r.layers[i]
  BY <1>1, <1>2 DEF ReleaseManual, Record
<1> HIDE DEF q
<1>4. ASSUME NEW i \in Id
      PROVE  \/ q.layers[i] = r.layers[i]
             \/ /\ r.layers[i] \in Layer /\ q.layers[i] \in Layer
                /\ q.layers[i].lease = r.layers[i].lease
                /\ q.layers[i].prio = r.layers[i].prio
                /\ q.layers[i].mode = r.layers[i].mode
                /\ q.layers[i].command = r.layers[i].command
  <2>1. CASE i \in Released(lifted, TRUE)
    <3>1. r.layers[i] \in Layer
      BY <1>2, <2>1 DEF Released, Present, Record
    <3>2. q.layers[i] = lay(i)
      BY <1>3, <2>1
    <3>3. lay(i) \in Layer
      BY <3>1 DEF Layer, Lease
    <3> QED BY <3>1, <3>2, <3>3 DEF Layer
  <2>2. CASE i \notin Released(lifted, TRUE)
    BY <1>3, <2>2
  <2> QED BY <2>1, <2>2
<1>5. Live(q.layers) = Live(r.layers)
  BY <1>4, LayerAssumption DEF Live, Present
<1>6. \A i \in Live(r.layers) : /\ q.layers[i].prio = r.layers[i].prio
                                /\ q.layers[i].mode = r.layers[i].mode
                                /\ q.layers[i].command = r.layers[i].command
  BY <1>4 DEF Live
<1>7. SaysSame(r.layers, r.layers)
  BY DEF SaysSame
<1> QED BY <1>3, <1>5, <1>6, <1>7 DEF SaysSame, SeenOffIf, SeenOff, lifted, q

\* What Layers wants depends on the base and on what the layers in force say:
\* where the follow layers give nothing, not on what a person took over.
LEMMA EffectiveSame ==
  ASSUME NEW r, NEW q, q.base = r.base, SaysSame(r.layers, q.layers), SilentFollows(r.layers)
  PROVE  EffectiveNow(q) = EffectiveNow(r)
<1> DEFINE sets == OfMode(r.layers, "set")
           live == Live(r.layers)
<1>1. /\ OfMode(q.layers, "set") = sets /\ sets \subseteq live /\ Live(q.layers) = live
      /\ \A i \in live : /\ q.layers[i].prio = r.layers[i].prio
                         /\ q.layers[i].mode = r.layers[i].mode
                         /\ q.layers[i].command = r.layers[i].command
  BY DEF OfMode, SaysSame
<1>2. ASSUME NEW S \in SUBSET live
      PROVE  Topmost(q.layers, S) = Topmost(r.layers, S)
  BY <1>1, TopmostSame
<1>3. ASSUME NEW S \in SUBSET live
      PROVE  StateOf(q.base, q.layers, S) = StateOf(r.base, r.layers, S)
  <2>1. Topmost(r.layers, S) # NoId => Topmost(r.layers, S) \in live
    BY TopmostIn
  <2> QED BY <1>1, <1>2, <2>1 DEF StateOf
<1>4. ASSUME NEW i \in live
      PROVE  Gives(q.base, q.layers, i) = Gives(r.base, r.layers, i)
  <2>1. Below(q.layers, sets, i) = Below(r.layers, sets, i)
    BY <1>1 DEF Below
  <2>2. Below(r.layers, sets, i) \in SUBSET live
    BY <1>1 DEF Below
  <2>3. r.layers[i].mode = "follow" => Groups(r.layers[i].command) \cap AttrGroup = {}
    BY DEF SilentFollows, OfMode
  <2> HIDE DEF sets, live
  <2>4. StateOf(q.base, q.layers, Below(r.layers, sets, i))
          = StateOf(r.base, r.layers, Below(r.layers, sets, i))
    BY <1>3, <2>2
  <2> DEFINE given == Groups(r.layers[i].command) \cap AttrGroup
             below == StateOf(r.base, r.layers, Below(r.layers, sets, i))
             What(lay) ==
               CASE lay.mode = "set" -> IF lay.command.state = "off" THEN {} ELSE given
                 [] lay.mode = "adjust" -> IF below = "on" THEN given ELSE {}
                 [] lay.mode = "follow" -> IF below = "on" THEN given \ lay.manual ELSE {}
  <2>5. /\ Gives(q.base, q.layers, i) = What(q.layers[i])
        /\ Gives(r.base, r.layers, i) = What(r.layers[i])
    BY <1>1, <2>1, <2>4 DEF Gives, sets
  <2>6. given = {} \/ r.layers[i].mode # "follow"
    BY <2>3
  <2> HIDE DEF given, below
  <2>7. q.layers[i].mode = r.layers[i].mode /\ q.layers[i].command = r.layers[i].command
    BY <1>1
  <2>8. What(q.layers[i]) = What(r.layers[i])
    BY <2>6, <2>7
  <2> QED BY <2>5, <2>8
<1>5. ASSUME NEW group
      PROVE  Said(q.base, q.layers, Giver(q.base, q.layers, Live(q.layers), group))
               = Said(r.base, r.layers, Giver(r.base, r.layers, live, group))
  <2> DEFINE S == {i \in live : group \in Gives(r.base, r.layers, i)}
  <2>1. {i \in Live(q.layers) : group \in Gives(q.base, q.layers, i)} = S
    BY <1>1, <1>4
  <2>2. Topmost(q.layers, S) = Topmost(r.layers, S)
    BY <1>2
  <2>3. Topmost(r.layers, S) # NoId => Topmost(r.layers, S) \in live
    BY TopmostIn
  <2> HIDE DEF S
  <2>4. /\ Giver(q.base, q.layers, Live(q.layers), group) = Topmost(r.layers, S)
        /\ Giver(r.base, r.layers, live, group) = Topmost(r.layers, S)
    BY <2>1, <2>2 DEF Giver, S
  <2> QED BY <1>1, <2>3, <2>4 DEF Said
<1>6. StateOf(q.base, q.layers, OfMode(q.layers, "set")) = StateOf(r.base, r.layers, sets)
  BY <1>1, <1>3
<1> QED BY <1>5, <1>6 DEF EffectiveNow, Effective, EffectiveOf

\* Where no layer that can be edited decides, and none that follows gives
\* anything, the base is what Layers wants (editable_layer).
LEMMA BaseIsWanted ==
  ASSUME NEW r \in Record, SilentFollows(r.layers), EditableLayer(r.base, r.layers) = NoId
  PROVE  EffectiveNow(r) = CASE r.base.state = "on" -> r.base
                             [] r.base.state = "off" -> OffCommand
                             [] OTHER -> Nothing
<1> DEFINE sets == OfMode(r.layers, "set")
           editable == Live(r.layers) \ OfMode(r.layers, "follow")
           deciding == {i \in editable : Decides(r.base, r.layers, i)}
<1>1. r.layers \in [Id -> Layer \cup {NoLayer}] /\ r.base \in Command
  BY DEF Record
<1>2. Topmost(r.layers, deciding) = NoId
  BY DEF EditableLayer
<1>3. NoId \notin deciding
  BY ResolveAssumption DEF Live
<1>4. deciding = {}
  <2>1. deciding \in SUBSET Live(r.layers)
    OBVIOUS
  <2> HIDE DEF deciding
  <2> QED BY <1>1, <1>2, <1>3, <2>1, StackHasTop
<1>5. sets = {}
  BY <1>4 DEF Decides, OfMode
<1>6. Topmost(r.layers, {}) = NoId
  BY DEF Topmost, Highest
<1>7. \A S \in SUBSET sets : StateOf(r.base, r.layers, S) = r.base.state
  BY <1>5, <1>6 DEF StateOf
<1>8. CASE r.base.state = "on"
  <2>1. ASSUME NEW i \in Live(r.layers), NEW group, group \in Gives(r.base, r.layers, i)
        PROVE  FALSE
    <3>1. r.layers[i] \in Layer
      BY <1>1 DEF Live, Present
    <3>2. r.layers[i].mode \in {"adjust", "follow"}
      BY <1>5, <3>1 DEF Layer, Mode, OfMode
    <3>3. Below(r.layers, sets, i) \in SUBSET sets
      BY DEF Below
    <3>4. CASE r.layers[i].mode = "adjust"
      <4>1. Decides(r.base, r.layers, i)
        BY <1>7, <1>8, <3>3, <3>4 DEF Decides
      <4>2. i \in editable
        BY <3>4 DEF OfMode
      <4> QED BY <1>4, <4>1, <4>2
    <3>5. CASE r.layers[i].mode = "follow"
      <4>1. Groups(r.layers[i].command) \cap AttrGroup = {}
        BY <3>5 DEF SilentFollows, OfMode
      <4> QED BY <2>1, <3>5, <4>1 DEF Gives
    <3> QED BY <3>2, <3>4, <3>5
  <2>2. \A group : Giver(r.base, r.layers, Live(r.layers), group) = NoId
    BY <1>6, <2>1 DEF Giver
  <2>3. EffectiveNow(r) = Cmd("on", r.base.bri, r.base.col)
    BY <1>7, <1>8, <2>2 DEF EffectiveNow, Effective, EffectiveOf, Said
  <2>4. Cmd("on", r.base.bri, r.base.col) = r.base
    BY <1>1, <1>8 DEF Cmd, Command
  <2> QED BY <1>8, <2>3, <2>4
<1>9. CASE r.base.state # "on"
  <2>1. r.base.state \in {"off", "none"}
    BY <1>1, <1>9 DEF Command
  <2> QED BY <1>7, <2>1 DEF EffectiveNow, Effective, EffectiveOf
<1> QED BY <1>8, <1>9

\* A lamp that is sent what it reports shows it: a brightness of 0 is as good as
\* the 1 it is sent, and where a colour can be compared it reports the one it takes.
TellsAll(o) ==
  o.state = "on" =>
    /\ o.bri = 0 => Near(0, 1)
    /\ \A c \in Color :
         o.col \in {NoValue, c} => Takes[c] \in Uncompared \cup {NoValue, o.col}

\* Where what a change took is shown, and the rest is, all is (_partial).
LEMMA PartsShown ==
  ASSUME NEW r, r.observed.state = "on", NEW cmd, cmd.state = "on", NEW groups,
         "brightness" \in groups => BothNear(r.observed.bri, Project(cmd).bri),
         "color" \in groups =>
           Project(cmd).col \in Uncompared \cup {NoValue, r.observed.col},
         groups = Everything \/ Shows(r, Rest(cmd, groups)) # "no"
  PROVE  Shows(r, cmd) # "no"
<1> DEFINE o == r.observed
           call == Project(cmd)
<1>1. call = Cmd("on", IF ~Dims THEN NoValue ELSE IF cmd.bri = 0 THEN 1 ELSE cmd.bri,
                       IF cmd.col = NoValue THEN NoValue ELSE Takes[cmd.col])
  BY DEF Project
<1>2. ASSUME groups # Everything
      PROVE  /\ "brightness" \notin groups => BothNear(o.bri, call.bri)
             /\ "color" \notin groups => call.col \in Uncompared \cup {NoValue, o.col}
  <2> DEFINE rest == Rest(cmd, groups)
             sent == Project(rest)
  <2>1. rest.state = "on" /\ rest # Nothing
    BY DEF Rest, Nothing, Cmd
  <2>2. Matches(o, sent) = "yes"
    BY <1>2, <2>1 DEF Shows, Available
  <2>3. sent.state = "on"
    BY <2>1 DEF Project, Cmd
  <2>4. /\ BothNear(o.bri, sent.bri)
        /\ sent.col \in Uncompared \cup {NoValue, o.col}
    BY <2>2, <2>3 DEF Matches
  <2>5. /\ "brightness" \notin groups => sent.bri = call.bri
        /\ "color" \notin groups => sent.col = call.col
    BY <1>1, <2>1 DEF Project, Rest, Cmd
  <2> QED BY <2>4, <2>5
<1>3. "brightness" \in Everything /\ "color" \in Everything
  BY DEF Everything, Group
<1>4. BothNear(o.bri, call.bri) /\ call.col \in Uncompared \cup {NoValue, o.col}
  BY <1>2, <1>3
<1>5. call.state = "on"
  BY <1>1 DEF Cmd
<1>6. Matches(o, call) = "yes"
  BY <1>4, <1>5 DEF Matches
<1> QED BY <1>6 DEF Shows

\* The groups a change took are shown, and where it left the rest showing, all
\* is (_partial).
LEMMA MergedIsShown ==
  ASSUME NEW r \in Record, NEW below \in Command, NEW groups, "state" \in groups,
         Available(r), TellsAll(r.observed),
         NEW cmd, cmd = Merge(below, ObservedToCommand(r.observed), groups),
         \/ groups = Everything
         \/ cmd.state # "on"
         \/ Shows(r, Rest(cmd, groups)) # "no"
  PROVE  Shows(r, cmd) # "no"
<1> DEFINE o == r.observed
<1>1. o \in Report /\ o.state \in {"on", "off"}
  BY DEF Record, Report, Available
<1>2. cmd \in Command
  BY MergeType, ObservedType, <1>1
<1>3. CASE o.state = "off"
  <2>1. cmd = OffCommand
    BY <1>3 DEF ObservedToCommand, Merge, Groups, Group, OffCommand, Cmd
  <2>2. o.bri = NoValue
    BY <1>1, <1>3 DEF Report
  <2>3. Matches(o, Project(cmd)) = "yes"
    BY <1>3, <2>1, <2>2 DEF Matches, Project, OffCommand, Cmd, BothNear
  <2> QED BY <2>3 DEF Shows
<1>4. CASE o.state = "on"
  <2> DEFINE kept == IF below.state = "off" THEN Nothing ELSE below
             call == Project(cmd)
  <2>1. ObservedToCommand(o) = o
    BY <1>4 DEF ObservedToCommand
  <2>2. /\ cmd.state = "on"
        /\ "brightness" \in groups /\ o.bri # NoValue => cmd.bri = o.bri
        /\ "color" \in groups /\ o.col # NoValue => cmd.col = o.col
    BY <1>4, <2>1 DEF Merge, Groups, Group, Cmd
  <2>3. call = Cmd("on", IF ~Dims THEN NoValue ELSE IF cmd.bri = 0 THEN 1 ELSE cmd.bri,
                         IF cmd.col = NoValue THEN NoValue ELSE Takes[cmd.col])
    BY <2>2 DEF Project
  <2>4. ASSUME "brightness" \in groups
        PROVE  BothNear(o.bri, call.bri)
    <3>1. CASE o.bri = NoValue
      BY <3>1 DEF BothNear
    <3>2. CASE o.bri # NoValue
      <4>1. cmd.bri = o.bri
        BY <2>2, <2>4, <3>2
      <4>2. o.bri = 0 => Near(0, 1)
        BY <1>4 DEF TellsAll
      <4>3. o.bri \in Int
        <5>1. \A x \in Report : x.bri \in Level \cup {NoValue}
          BY DEF Report
        <5>2. o.bri \in Level
          BY <1>1, <3>2, <5>1
        <5>3. \A bri \in Level : bri \in Int
          BY CommandAssumption
        <5> QED BY <5>2, <5>3
      <4>4. call.bri \in {NoValue, o.bri} \/ (o.bri = 0 /\ call.bri = 1)
        <5>1. call.bri = IF ~Dims THEN NoValue ELSE IF cmd.bri = 0 THEN 1 ELSE cmd.bri
          BY <2>3 DEF Cmd
        <5> QED BY <4>1, <5>1
      <4>5. Near(o.bri, o.bri)
        BY <4>3, CommandAssumption DEF Near
      <4>6. CASE call.bri \in {NoValue, o.bri}
        BY <4>5, <4>6 DEF BothNear
      <4>7. CASE o.bri = 0 /\ call.bri = 1
        <5>1. Near(o.bri, call.bri)
          BY <4>2, <4>7
        <5> QED BY <5>1 DEF BothNear
      <4> QED BY <4>4, <4>6, <4>7
    <3> QED BY <3>1, <3>2
  <2>5. ASSUME "color" \in groups
        PROVE  call.col \in Uncompared \cup {NoValue, o.col}
    <3>1. cmd.col \in Color \cup {NoValue}
      BY <1>2 DEF Command
    <3>2. cmd.col # NoValue => o.col \in {NoValue, cmd.col}
      BY <2>2, <2>5
    <3>3. cmd.col # NoValue => Takes[cmd.col] \in Uncompared \cup {NoValue, o.col}
      BY <1>4, <3>1, <3>2 DEF TellsAll
    <3> QED BY <2>3, <3>3 DEF Cmd
  <2> HIDE DEF call
  <2> QED BY <1>4, <2>2, <2>4, <2>5, PartsShown DEF call
<1> QED BY <1>1, <1>3, <1>4

\* Only what a lamp reports decides whether it shows a command.
LEMMA ShowsSame ==
  ASSUME NEW r, NEW q, q.observed = r.observed, NEW cmd
  PROVE  Shows(q, cmd) = Shows(r, cmd)
BY DEF Shows, Available

\* Taking the lamp back from all its set and adjust layers leaves the base
\* wanted, and shown or known not to be (take_back).
LEMMA TakeBackLeaves ==
  ASSUME NEW r \in Record, NEW shown \in Command, NEW groups,
         SilentFollows(r.layers), Available(r),
         NEW merged, merged = Merge(r.base, shown, groups), merged.state \in {"on", "off"},
         \/ groups = Everything
         \/ merged.state # "on"
         \/ Shows(r, Rest(merged, groups)) # "no"
         => Shows(r, merged) # "no"
  PROVE  LET q == TakeBack(r, shown, groups)
         IN /\ SilentFollows(q.layers) /\ q.base = merged /\ q.observed = r.observed
            /\ EffectiveNow(q) = merged
            /\ Shows(q, EffectiveNow(q)) # "no" \/ q.diverged = "partial"
<1> DEFINE o == r.observed
           based == [r EXCEPT !.base = merged]
           dropped == DropAll(based)
           q == TakeBack(r, shown, groups)
<1>1. merged \in Command /\ based \in Record
  BY MergeType DEF Record
<1>2. based.base = merged /\ based.layers = r.layers /\ based.observed = o
  BY DEF Record
<1>3. dropped \in Record
  BY <1>1, DropAllQuiet DEF Becomes
<1>4. /\ dropped.base = merged /\ dropped.observed = o
      /\ \A i \in Id : dropped.layers[i] = IF i \in Droppable(based) THEN NoLayer ELSE r.layers[i]
  BY <1>1, <1>2 DEF DropAll, Record
<1>5. q = [dropped EXCEPT !.diverged = IF Partial(dropped, groups) THEN "partial" ELSE "none"]
  BY DEF TakeBack
<1> HIDE DEF dropped, based
<1>6. \A i \in Live(dropped.layers) : dropped.layers[i].mode = "follow"
  BY <1>2, <1>4 DEF Droppable, Live, Present
<1>7. SilentFollows(dropped.layers)
  BY <1>4 DEF SilentFollows, OfMode, Live, Present
<1>8. EditableLayer(dropped.base, dropped.layers) = NoId
  <2>1. Live(dropped.layers) \ OfMode(dropped.layers, "follow") = {}
    BY <1>6 DEF OfMode
  <2> QED BY <2>1 DEF EditableLayer, Topmost, Highest
<1> HIDE DEF o
<1>9. /\ q.layers = dropped.layers /\ q.base = dropped.base /\ q.observed = o
      /\ q.diverged = IF Partial(dropped, groups) THEN "partial" ELSE "none"
  BY <1>3, <1>4, <1>5 DEF Record
<1> HIDE DEF q
<1>10. EffectiveNow(q) = EffectiveNow(dropped)
  BY <1>9 DEF EffectiveNow
<1>11. EffectiveNow(dropped) = merged
  <2>1. merged.state = "off" => merged = OffCommand
    BY <1>1 DEF Command, OffCommand, Cmd
  <2> QED BY <1>3, <1>4, <1>7, <1>8, <2>1, BaseIsWanted
<1>12. ASSUME ~Partial(dropped, groups)
       PROVE  Shows(q, merged) # "no"
  <2>1. \/ groups = Everything
        \/ merged.state # "on"
        \/ Shows(dropped, Rest(merged, groups)) # "no"
    BY <1>11, <1>12 DEF Partial
  <2>2. Shows(dropped, Rest(merged, groups)) = Shows(r, Rest(merged, groups))
    BY <1>4, ShowsSame DEF o
  <2>3. Shows(q, merged) = Shows(r, merged)
    BY <1>9, ShowsSame DEF o
  <2> QED BY <2>1, <2>2, <2>3
<1> QED BY <1>4, <1>7, <1>9, <1>10, <1>11, <1>12 DEF q, o

\* A report that a take-back takes on or off leaves the lamp on or off.
LEMMA ReportMerged ==
  ASSUME NEW r \in Record, Available(r), NEW below, NEW groups, "state" \in groups
  PROVE  /\ Merge(below, ObservedToCommand(r.observed), groups).state = r.observed.state
         /\ r.observed.state \in {"on", "off"}
<1> DEFINE o == r.observed
<1>1. o.state \in {"on", "off"}
  BY DEF Record, Report, Available
<1>2. ObservedToCommand(o).state = o.state
  BY <1>1 DEF ObservedToCommand, OffCommand, Cmd
<1> HIDE DEF o
<1>3. Merge(below, ObservedToCommand(o), groups).state = o.state
  BY <1>1, <1>2 DEF Merge, Groups, Group, Cmd, OffCommand
<1> QED BY <1>1, <1>3 DEF o

\* Taking back what the lamp reports.
LEMMA TakeBackShown ==
  ASSUME NEW r \in Record, NEW groups, "state" \in groups,
         SilentFollows(r.layers), Available(r), TellsAll(r.observed)
  PROVE  LET q == TakeBack(r, ObservedToCommand(r.observed), groups)
         IN /\ SilentFollows(q.layers) /\ q.observed = r.observed
            /\ q.base.state \in {"on", "off"}
            /\ Shows(q, EffectiveNow(q)) # "no" \/ q.diverged = "partial"
<1> DEFINE shown == ObservedToCommand(r.observed)
           merged == Merge(r.base, shown, groups)
<1>1. shown \in Command /\ r.base \in Command
  BY ObservedType DEF Record
<1>2. merged.state \in {"on", "off"}
  BY ReportMerged
<1>3. \/ groups = Everything
      \/ merged.state # "on"
      \/ Shows(r, Rest(merged, groups)) # "no"
      => Shows(r, merged) # "no"
  BY <1>1, MergedIsShown
<1> HIDE DEF merged
<1>4. merged = Merge(r.base, shown, groups)
  BY DEF merged
<1> HIDE DEF shown
<1> DEFINE q == TakeBack(r, shown, groups)
<1>5. /\ SilentFollows(q.layers) /\ q.base = merged /\ q.observed = r.observed
      /\ Shows(q, EffectiveNow(q)) # "no" \/ q.diverged = "partial"
  BY <1>1, <1>2, <1>3, <1>4, TakeBackLeaves
<1> HIDE DEF q
<1> QED BY <1>2, <1>5 DEF q, shown
=============================================================================
