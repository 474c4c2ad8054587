------------------------- MODULE LampDecisionProofs -------------------------
(***************************************************************************)
(* A person's decision stands: proofs about LampDecision.                  *)
(*                                                                         *)
(* What a person decided is upheld when the base says it and no live set   *)
(* layer says otherwise.  A change that decides makes it so (Upholds), and *)
(* a step nobody decides leaves the base and takes set layers away at most *)
(* (Leaves).                                                               *)
(***************************************************************************)
EXTENDS LampDecision, LampRecordProofs

\* The base and every live set layer say `d`.
Upholds(r, d) ==
  /\ r.base.state = d
  /\ \A i \in OfMode(r.layers, "set") : r.layers[i].command.state = "off" <=> d = "off"

\* From r to q the base stays, and no layer comes into force or is edited.
Leaves(r, q) ==
  /\ q.base = r.base
  /\ \A i \in Live(q.layers) :
       /\ i \in Live(r.layers)
       /\ q.layers[i].mode = r.layers[i].mode
       /\ r.layers[i].mode # "follow" => q.layers[i].command = r.layers[i].command

\* No follow layer gets back what a person took over from it.
Grips(r, q) == \A i \in Live(q.layers) : r.layers[i].manual \subseteq q.layers[i].manual

\* A brightness chosen by hand: the base has it, and only follow layers it was
\* taken from are in force.
Chose(r, bri) ==
  /\ r.base.state = "on" /\ r.base.bri = bri
  /\ \A i \in Live(r.layers) :
       r.layers[i].mode = "follow" /\ "brightness" \in r.layers[i].manual

-----------------------------------------------------------------------------
(* What upholds a decision *)

\* Leaving composes.
LEMMA LeavesCompose ==
  ASSUME NEW p, NEW q, NEW r
  PROVE  /\ Leaves(p, p) /\ Grips(p, p)
         /\ Leaves(p, q) /\ Leaves(q, r) => Leaves(p, r)
         /\ Leaves(p, q) /\ Leaves(q, r) /\ Grips(p, q) /\ Grips(q, r) => Grips(p, r)
BY DEF Leaves, Grips

\* What is left as it was says what it said.
LEMMA LeavesUpholds ==
  ASSUME NEW r, NEW q, NEW d, Leaves(r, q), Upholds(r, d)
  PROVE  Upholds(q, d)
BY DEF Leaves, Upholds, OfMode

\* And keeps a chosen brightness, while nothing is given back.
LEMMA LeavesChose ==
  ASSUME NEW r, NEW q, NEW bri, Leaves(r, q), Grips(r, q), Chose(r, bri)
  PROVE  Chose(q, bri)
BY DEF Leaves, Grips, Chose

\* A record that differs in neither its base nor its layers.
LEMMA SameLeaves ==
  ASSUME NEW r, NEW q, q.base = r.base, q.layers = r.layers
  PROVE  Leaves(r, q) /\ Grips(r, q)
BY DEF Leaves, Grips

\* What is upheld is what Layers wants (effective).
LEMMA UpheldIsWanted ==
  ASSUME NEW r \in Record, NEW d \in {"on", "off"}, Upholds(r, d)
  PROVE  EffectiveNow(r).state = d
<1> DEFINE S == OfMode(r.layers, "set")
           top == Topmost(r.layers, S)
<1>1. top # NoId => top \in S
  BY TopmostIn
<1>2. StateOf(r.base, r.layers, S) = d
  BY <1>1 DEF StateOf, Upholds
<1> QED BY <1>2, EffectiveState

\* A chosen brightness is the one Layers wants (effective).
LEMMA ChosenIsWanted ==
  ASSUME NEW r \in Record, NEW bri, Chose(r, bri)
  PROVE  EffectiveNow(r).bri = bri
<1> DEFINE S == {i \in Live(r.layers) : "brightness" \in Gives(r.base, r.layers, i)}
           col == Said(r.base, r.layers,
                       Giver(r.base, r.layers, Live(r.layers), "color")).col
<1>1. OfMode(r.layers, "set") = {}
  BY DEF Chose, OfMode
<1>2. Topmost(r.layers, {}) = NoId
  BY DEF Topmost, Highest
<1>3. StateOf(r.base, r.layers, OfMode(r.layers, "set")) = "on"
  BY <1>1, <1>2 DEF StateOf, Chose
<1>4. \A i \in Live(r.layers) : "brightness" \notin Gives(r.base, r.layers, i)
  BY DEF Chose, Gives
<1>5. S = {}
  BY <1>4
<1>6. Giver(r.base, r.layers, Live(r.layers), "brightness") = NoId
  BY <1>2, <1>5 DEF Giver
<1>7. Said(r.base, r.layers, NoId).bri = bri
  BY DEF Said, Chose
<1>8. EffectiveNow(r) = Cmd("on", bri, col)
  BY <1>3, <1>6, <1>7 DEF EffectiveNow, Effective, EffectiveOf
<1> HIDE DEF col
<1> QED BY <1>8 DEF Cmd

-----------------------------------------------------------------------------
(* Policy functions that leave *)

\* Layers that go or stay: no new one, none edited but the follow layers.
LEMMA EditedLeaves ==
  ASSUME NEW r \in Record, NEW layers,
         \A i \in Id : layers[i] # NoLayer =>
           /\ r.layers[i] # NoLayer
           /\ layers[i].lease # "over" => r.layers[i].lease # "over"
           /\ layers[i].mode = r.layers[i].mode
           /\ r.layers[i].mode # "follow" => layers[i].command = r.layers[i].command
  PROVE  Leaves(r, [r EXCEPT !.layers = layers])
<1> DEFINE q == [r EXCEPT !.layers = layers]
<1>1. q.base = r.base /\ q.layers = layers
  BY DEF Record
<1> HIDE DEF q
<1> QED BY <1>1 DEF Leaves, Live, Present, q

\* A take-over leaves all but what the follow layers give (_take_over).
LEMMA TakeOverLeaves ==
  ASSUME NEW r \in Record, NEW chosen
  PROVE  LET q == [r EXCEPT !.layers = TakeOver(@, chosen)]
         IN /\ Leaves(r, q)
            /\ \A i \in Live(q.layers) :
                 q.layers[i].mode = "follow" =>
                   chosen \cap AttrGroup \subseteq q.layers[i].manual
<1> DEFINE hand == chosen \cap AttrGroup
           layers == TakeOver(r.layers, chosen)
           q == [r EXCEPT !.layers = layers]
           m(i) == r.layers[i].manual \cup hand
           l(i) == IF r.layers[i].manualTimeout THEN "running" ELSE r.layers[i].manualLease
           lay(i) == [r.layers[i] EXCEPT !.manual = m(i), !.manualLease = l(i)]
<1>1. r.layers \in [Id -> Layer \cup {NoLayer}]
  BY DEF Record
<1>2. \A i \in OfMode(r.layers, "follow") : r.layers[i] \in Layer
  BY <1>1 DEF OfMode, Live, Present
<1>3. \A i \in Id : layers[i] = IF hand # {} /\ i \in OfMode(r.layers, "follow")
                               THEN lay(i) ELSE r.layers[i]
  BY DEF TakeOver
<1>4. \A i \in OfMode(r.layers, "follow") :
        /\ lay(i).mode = "follow" /\ lay(i).lease = r.layers[i].lease
        /\ lay(i).manual = m(i)
        /\ r.layers[i] # NoLayer
  <2> SUFFICES ASSUME NEW i \in OfMode(r.layers, "follow")
               PROVE  /\ lay(i).mode = "follow" /\ lay(i).lease = r.layers[i].lease
                      /\ lay(i).manual = m(i)
                      /\ r.layers[i] # NoLayer
    OBVIOUS
  <2>1. r.layers[i] \in Layer /\ r.layers[i].mode = "follow" /\ r.layers[i] # NoLayer
    BY <1>2, LayerAssumption DEF OfMode
  <2> HIDE DEF m, l
  <2> QED BY <2>1 DEF Layer
<1> HIDE DEF layers, lay, m
<1>5. \A i \in Id : layers[i] # NoLayer =>
        /\ r.layers[i] # NoLayer
        /\ layers[i].lease # "over" => r.layers[i].lease # "over"
        /\ layers[i].mode = r.layers[i].mode
        /\ r.layers[i].mode # "follow" => layers[i].command = r.layers[i].command
  BY <1>3, <1>4 DEF OfMode
<1>6. Leaves(r, q)
  BY <1>5, EditedLeaves
<1>7. q.layers = layers
  BY DEF Record
<1> HIDE DEF q
<1>8. \A i \in Live(q.layers) : q.layers[i].mode = "follow" => hand \subseteq q.layers[i].manual
  <2> SUFFICES ASSUME NEW i \in Live(q.layers), q.layers[i].mode = "follow"
               PROVE  hand \subseteq q.layers[i].manual
    OBVIOUS
  <2>1. i \in Id /\ i \in OfMode(r.layers, "follow")
    BY <1>6 DEF Leaves, OfMode, Live
  <2>2. hand # {} => q.layers[i].manual = m(i)
    BY <1>3, <1>4, <1>7, <2>1
  <2> QED BY <2>2 DEF m
<1> QED BY <1>6, <1>8 DEF q, layers

\* Follow layers that follow again say no more than they gave
\* (release_manual).
LEMMA ReleaseManualLeaves ==
  ASSUME NEW r \in Record, NEW off
  PROVE  Leaves(r, ReleaseManual(r, off))
<1> DEFINE q == ReleaseManual(r, off)
           lay(i) == [r.layers[i] EXCEPT !.manual = {}, !.manualLease = "none"]
           layers == [i \in Id |-> IF i \in Released(r, off) THEN lay(i) ELSE r.layers[i]]
<1>1. r.layers \in [Id -> Layer \cup {NoLayer}]
  BY DEF Record
<1>2. q = [r EXCEPT !.layers = layers]
  BY DEF ReleaseManual
<1>3. \A i \in Released(r, off) :
        /\ r.layers[i] # NoLayer
        /\ lay(i).mode = r.layers[i].mode /\ r.layers[i].mode = "follow"
        /\ lay(i).lease = r.layers[i].lease
  <2> SUFFICES ASSUME NEW i \in Released(r, off)
               PROVE  /\ r.layers[i] # NoLayer
                      /\ lay(i).mode = r.layers[i].mode /\ r.layers[i].mode = "follow"
                      /\ lay(i).lease = r.layers[i].lease
    OBVIOUS
  <2>1. r.layers[i] \in Layer /\ r.layers[i].mode = "follow" /\ r.layers[i] # NoLayer
    BY <1>1 DEF Released, Present
  <2> QED BY <2>1 DEF Layer
<1> HIDE DEF q, lay
<1>4. \A i \in Id : layers[i] # NoLayer =>
        /\ r.layers[i] # NoLayer
        /\ layers[i].lease # "over" => r.layers[i].lease # "over"
        /\ layers[i].mode = r.layers[i].mode
        /\ r.layers[i].mode # "follow" => layers[i].command = r.layers[i].command
  BY <1>3
<1> HIDE DEF layers
<1> QED BY <1>2, <1>4, EditedLeaves DEF q

\* A lamp seen off leaves what upholds a decision; one not seen off, all
\* (_seen_off).
LEMMA SeenOffLeaves ==
  ASSUME NEW r \in Record, NEW off
  PROVE  /\ Leaves(r, SeenOffIf(r, off))
         /\ ~off => Grips(r, SeenOffIf(r, off))
         /\ SeenOffIf(r, off).last = r.last
         /\ SeenOffIf(r, off).observed = r.observed
<1> DEFINE lifted == LiftOnOff(r)
<1>1. lifted \in Record
  BY LiftOnOffQuiet DEF Becomes
<1>2. /\ lifted.base = r.base /\ lifted.layers = r.layers
      /\ lifted.last = r.last /\ lifted.observed = r.observed
  BY DEF LiftOnOff, Record
<1> HIDE DEF lifted
<1>3. Leaves(r, ReleaseManual(lifted, TRUE))
  BY <1>1, <1>2, SameLeaves, ReleaseManualLeaves, LeavesCompose
<1>4. /\ ReleaseManual(lifted, TRUE).last = r.last
      /\ ReleaseManual(lifted, TRUE).observed = r.observed
  BY <1>1, <1>2 DEF ReleaseManual, Record
<1> QED BY <1>3, <1>4, LeavesCompose DEF SeenOffIf, SeenOff, lifted

-----------------------------------------------------------------------------
(* A change someone made *)

\* The option of a lamp, and the policies its changes can be taken by.
Acts(policy) == IF policy = "reassert" THEN {"reassert", "take_back"} ELSE {policy}

\* A change's on/off is what the merge says.
LEMMA MergeState ==
  ASSUME NEW below, NEW over, over.state \in {"on", "off"}, NEW groups, "state" \in groups
  PROVE  Merge(below, over, groups).state = over.state
BY DEF Merge, Groups, Group, Cmd, OffCommand

\* A change that turns the lamp on brings the brightness it has.
LEMMA MergeBrightness ==
  ASSUME NEW below, NEW over, over.state = "on", over.bri # NoValue,
         NEW groups, "state" \in groups, "brightness" \in groups
  PROVE  Merge(below, over, groups).bri = over.bri
BY DEF Merge, Groups, Group, Cmd

\* A person who takes the lamp back leaves the follow layers as they were, and
\* the base says what they chose (take_back).
LEMMA TakeBackLeavesFollow ==
  ASSUME NEW r \in Record, NEW shown, NEW groups
  PROVE  LET q == TakeBack(r, shown, groups)
         IN /\ q.base = Merge(r.base, shown, groups)
            /\ \A i \in Live(q.layers) :
                 /\ i \in Live(r.layers)
                 /\ r.layers[i].mode = "follow"
                 /\ q.layers[i] = r.layers[i]
<1> DEFINE based == [r EXCEPT !.base = Merge(@, shown, groups)]
           dropped == DropAll(based)
           q == TakeBack(r, shown, groups)
           S == Droppable(based)
<1>1. based.layers = r.layers /\ based.base = Merge(r.base, shown, groups)
  BY DEF Record
<1>2. \A i \in Id : i \in S <=> Present(r.layers, i) /\ r.layers[i].mode # "follow"
  BY <1>1 DEF Droppable
<1>3. /\ dropped.base = based.base
      /\ \A i \in Id : dropped.layers[i] = IF i \in S THEN NoLayer ELSE r.layers[i]
  BY <1>1 DEF DropAll, Record
<1>4. q.base = dropped.base /\ q.layers = dropped.layers
  BY DEF TakeBack, DropAll, Record
<1> HIDE DEF based, dropped, S, q
<1>5. ASSUME NEW i \in Live(q.layers)
      PROVE  /\ i \in Live(r.layers)
             /\ r.layers[i].mode = "follow"
             /\ q.layers[i] = r.layers[i]
  <2>1. i \in Id /\ q.layers[i] # NoLayer /\ q.layers[i].lease # "over"
    BY DEF Live, Present
  <2>2. q.layers[i] = r.layers[i] /\ i \notin S
    BY <1>3, <1>4, <2>1
  <2> QED BY <1>2, <2>1, <2>2 DEF Live, Present
<1> QED BY <1>1, <1>3, <1>4, <1>5 DEF q

\* So their decision is upheld.
LEMMA TakeBackUpholds ==
  ASSUME NEW r \in Record, NEW shown, shown.state \in {"on", "off"},
         NEW groups, "state" \in groups
  PROVE  Upholds(TakeBack(r, shown, groups), shown.state)
<1> DEFINE q == TakeBack(r, shown, groups)
<1>1. /\ q.base = Merge(r.base, shown, groups)
      /\ \A i \in Live(q.layers) :
           /\ i \in Live(r.layers)
           /\ r.layers[i].mode = "follow"
           /\ q.layers[i] = r.layers[i]
  BY TakeBackLeavesFollow
<1> HIDE DEF q
<1>2. OfMode(q.layers, "set") = {}
  BY <1>1 DEF OfMode
<1>3. q.base.state = shown.state
  BY <1>1, MergeState
<1>4. Upholds(q, shown.state)
  BY <1>2, <1>3 DEF Upholds
<1> QED BY <1>4 DEF q

\* An edit of the only layer a lamp can have says the same in the layer and in
\* the base (edit_active).
LEMMA EditActiveUpholds ==
  ASSUME \A i, j \in Id : i = j,
         NEW r \in Record, NEW shown, shown.state \in {"on", "off"},
         NEW groups, "state" \in groups, EditableLayer(r.base, r.layers) # NoId
  PROVE  Upholds(EditActive(r, shown, groups), shown.state)
<1> DEFINE top == EditableLayer(r.base, r.layers)
           lay == EditFromExternal(r.layers[top], shown, groups)
           decides == "state" \in Groups(shown) \cap groups
           base == CASE decides /\ shown.state = "off" -> OffCommand
                     [] decides /\ shown.state # "off" /\ r.base.state # "on" ->
                          Merge(r.base, shown, groups)
                     [] OTHER -> r.base
           q == EditActive(r, shown, groups)
<1>1. top \in Id /\ r.layers[top] \in Layer /\ r.layers[top].mode # "follow"
  BY EditableIsLive, EditableFollowsNot DEF Live
<1>2. decides
  BY DEF Groups, Group
<1>3. base.state = shown.state
  BY <1>2, MergeState DEF OffCommand, Cmd
<1>4. lay.mode = "set" => (lay.command.state = "off" <=> shown.state = "off")
  <2>1. CASE r.layers[top].mode = "adjust" /\ shown.state = "off"
    BY <1>1, <1>2, <2>1 DEF EditFromExternal, ToSetOff, Layer, OffCommand, Cmd
  <2>2. CASE r.layers[top].mode = "adjust" /\ shown.state # "off"
    BY <1>1, <2>2 DEF EditFromExternal, Layer
  <2>3. CASE r.layers[top].mode = "set"
    <3>1. lay.command = Merge(r.layers[top].command, shown, groups)
      BY <1>1, <2>3 DEF EditFromExternal, Layer
    <3> QED BY <3>1, MergeState
  <2> QED BY <1>1, <2>1, <2>2, <2>3 DEF Layer, Mode
<1>5. q.layers[top] = lay /\ q.base = base
  BY <1>1 DEF EditActive, Record
<1> HIDE DEF top, lay, base, q, decides
<1>6. \A i \in OfMode(q.layers, "set") : i = top
  BY <1>1 DEF OfMode, Live
<1>7. Upholds(q, shown.state)
  BY <1>3, <1>4, <1>5, <1>6 DEF Upholds, OfMode
<1> QED BY <1>7 DEF q

\* What a change decides is upheld, unless the lamp reasserts, which leaves
\* things as they are, or keeps changes to the base (apply_external).
LEMMA ApplyExternalDecides ==
  ASSUME NEW r \in Record, NEW shown \in Command, shown.state \in {"on", "off"},
         NEW groups \in Take, "state" \in groups, NEW source \in ChangeSource,
         NEW policy \in Policies, NEW chosen,
         policy # "edit_active" \/ \A i, j \in Id : i = j
  PROVE  LET q == ApplyExternal(r, shown, groups, source, policy, chosen)
         IN /\ q.last.policy \in Acts(policy) /\ q.last.groups = groups
            /\ q.last.policy \in {"take_back", "edit_active"} => Upholds(q, shown.state)
            /\ q.last.policy = "reassert" => Leaves(r, q)
<1> DEFINE again == Reasserts(r, source, policy)
           acting == IF policy = "reassert" /\ ~again THEN "take_back" ELSE policy
           hand == IF chosen = Everything THEN Groups(shown) \cap groups ELSE chosen
           layers == IF again THEN r.layers ELSE TakeOver(r.layers, hand)
           over == [r EXCEPT !.layers = layers]
           edits == acting = "edit_active" /\ EditableLayer(over.base, over.layers) # NoId
           done == CASE again -> [over EXCEPT !.diverged = "delivery"]
                     [] acting = "base_keep_layers" -> BaseKeep(over, shown, groups)
                     [] edits -> EditActive(over, shown, groups)
                     [] OTHER -> TakeBack(over, shown, groups)
           last == [policy |-> acting, source |-> source, groups |-> groups, tail |-> TRUE]
           q == [done EXCEPT !.owed = "nothing", !.last = last]
<1>1. over \in Record
  <2>1. [r EXCEPT !.layers = TakeOver(@, hand)] \in Record
    BY TakeOverQuiet DEF Becomes
  <2>2. again => over = r
    BY DEF Record
  <2> QED BY <2>1, <2>2
<1>2. ApplyExternal(r, shown, groups, source, policy, chosen) = q
  BY DEF ApplyExternal
<1>3. again => policy = "reassert"
  BY DEF Reasserts
<1>4. acting \in Acts(policy) /\ (policy = "edit_active" <=> acting = "edit_active")
  BY DEF Acts, Policies
<1>5. over.base = r.base /\ over.layers = layers
  BY DEF Record
<1>6. CASE again
  <2>1. layers = r.layers
    BY <1>6
  <2>3. acting = "reassert" /\ ~edits
    BY <1>3, <1>6
  <2> HIDE DEF layers, over, again, acting, edits
  <2>2. done = [over EXCEPT !.diverged = "delivery"]
    BY <1>6, <2>3
  <2> HIDE DEF done
  <2>5. done.base = r.base /\ done.layers = r.layers /\ done \in Record
    BY <1>1, <1>5, <2>1, <2>2 DEF Record, Divergence
  <2>6. /\ q.base = r.base /\ q.layers = r.layers
        /\ q.last.policy = acting /\ q.last.groups = groups
    BY <2>5 DEF Record
  <2> HIDE DEF q
  <2> QED BY <1>2, <1>4, <2>6, <2>3, SameLeaves
<1>7. CASE ~again
  <2>1. acting # "reassert"
    BY <1>7
  <2> HIDE DEF layers, over, again
  <2>2. acting \in {"take_back", "edit_active"} => Upholds(done, shown.state)
    BY <1>1, <1>4, <1>7, TakeBackUpholds, EditActiveUpholds
  <2>3. done \in Record
    BY <1>1, <1>7, BaseKeepQuiet, EditActiveQuiet, TakeBackQuiet DEF Becomes
  <2> HIDE DEF acting, done
  <2>4. /\ q.base = done.base /\ q.layers = done.layers
        /\ q.last.policy = acting /\ q.last.groups = groups
    BY <2>3 DEF Record
  <2> HIDE DEF q
  <2>5. acting \in {"take_back", "edit_active"} => Upholds(q, shown.state)
    BY <2>2, <2>4 DEF Upholds
  <2> QED BY <1>2, <1>4, <2>1, <2>4, <2>5
<1> QED BY <1>6, <1>7

\* On a take_back lamp a brightness chosen by hand goes into the base and is
\* taken from every follow layer (apply_external, _take_over).
LEMMA ApplyExternalChooses ==
  ASSUME NEW r \in Record, NEW shown \in Command, shown.state = "on",
         shown.bri # NoValue, NEW groups, "state" \in groups, "brightness" \in groups,
         NEW source, NEW chosen, chosen # Everything, "brightness" \in chosen
  PROVE  Chose(ApplyExternal(r, shown, groups, source, "take_back", chosen), shown.bri)
<1> DEFINE layers == TakeOver(r.layers, chosen)
           over == [r EXCEPT !.layers = TakeOver(@, chosen)]
           done == TakeBack(over, shown, groups)
           last == [policy |-> "take_back", source |-> source, groups |-> groups,
                    tail |-> TRUE]
           q == [done EXCEPT !.owed = "nothing", !.last = last]
<1>1. over \in Record
  BY TakeOverQuiet DEF Becomes
<1>2. /\ Leaves(r, over)
      /\ \A i \in Live(over.layers) :
           over.layers[i].mode = "follow" =>
             chosen \cap AttrGroup \subseteq over.layers[i].manual
  BY TakeOverLeaves
<1>3. ApplyExternal(r, shown, groups, source, "take_back", chosen) = q
  BY DEF ApplyExternal, Reasserts
<1> HIDE DEF over
<1>4. /\ done.base = Merge(over.base, shown, groups)
      /\ \A i \in Live(done.layers) :
           /\ i \in Live(over.layers)
           /\ over.layers[i].mode = "follow"
           /\ done.layers[i] = over.layers[i]
  BY <1>1, TakeBackLeavesFollow
<1>5. done \in Record
  BY <1>1, TakeBackQuiet DEF Becomes
<1> HIDE DEF done
<1>6. q.base = done.base /\ q.layers = done.layers
  BY <1>5 DEF Record
<1> HIDE DEF q
<1>7. q.base.state = "on" /\ q.base.bri = shown.bri
  BY <1>4, <1>6, MergeState, MergeBrightness
<1>8. "brightness" \in chosen \cap AttrGroup
  BY DEF AttrGroup
<1> QED BY <1>2, <1>3, <1>4, <1>6, <1>7, <1>8 DEF Chose

\* A change leaves the latest report as it is.
LEMMA ApplyExternalObserved ==
  ASSUME NEW r \in Record, NEW shown, NEW groups, NEW source, NEW policy, NEW chosen
  PROVE  ApplyExternal(r, shown, groups, source, policy, chosen).observed = r.observed
<1> DEFINE again == Reasserts(r, source, policy)
           acting == IF policy = "reassert" /\ ~again THEN "take_back" ELSE policy
           hand == IF chosen = Everything THEN Groups(shown) \cap groups ELSE chosen
           over == [r EXCEPT !.layers = IF again THEN @ ELSE TakeOver(@, hand)]
           edits == acting = "edit_active" /\ EditableLayer(over.base, over.layers) # NoId
           done == CASE again -> [over EXCEPT !.diverged = "delivery"]
                     [] acting = "base_keep_layers" -> BaseKeep(over, shown, groups)
                     [] edits -> EditActive(over, shown, groups)
                     [] OTHER -> TakeBack(over, shown, groups)
           last == [policy |-> acting, source |-> source, groups |-> groups, tail |-> TRUE]
<1>1. over \in Record /\ over.observed = r.observed
  <2>1. [r EXCEPT !.layers = TakeOver(@, hand)] \in Record
    BY TakeOverQuiet DEF Becomes
  <2>2. again => over = r
    BY DEF Record
  <2>3. ~again => over = [r EXCEPT !.layers = TakeOver(@, hand)]
    OBVIOUS
  <2> QED BY <2>1, <2>2, <2>3
<1> HIDE DEF over
<1>2. [over EXCEPT !.diverged = "delivery"].observed = over.observed
  BY <1>1 DEF Record
<1>3. /\ BaseKeep(over, shown, groups).observed = over.observed
      /\ EditActive(over, shown, groups).observed = over.observed
      /\ TakeBack(over, shown, groups).observed = over.observed
  BY <1>1 DEF BaseKeep, EditActive, TakeBack, DropAll, Record
<1> HIDE DEF again, acting, edits
<1>4. done.observed = r.observed
  BY <1>1, <1>2, <1>3
<1> HIDE DEF done, last
<1>5. [done EXCEPT !.owed = "nothing", !.last = last].observed = r.observed
  BY <1>4
<1> QED BY <1>5 DEF ApplyExternal, again, acting, over, edits, done, last

\* The same of a report judged to be someone's (_external).
LEMMA JudgedDecides ==
  ASSUME NEW r \in Record, r.observed.state \in {"on", "off"},
         NEW groups \in Take, "state" \in groups, NEW source \in ChangeSource,
         NEW policy \in Policies, NEW chosen,
         policy # "edit_active" \/ \A i, j \in Id : i = j
  PROVE  LET q == Judged(r, groups, source, policy, chosen)
         IN /\ q.last.policy \in Acts(policy) /\ q.last.groups = groups
            /\ q.last.policy \in {"take_back", "edit_active"} =>
                 Upholds(q, r.observed.state)
            /\ q.last.policy = "reassert" => Leaves(r, q)
            /\ q.observed = r.observed
<1> DEFINE s == Supersede(r)
           o == r.observed
           cmd == ObservedToCommand(o)
           taken == ApplyExternal(s, cmd, groups, source, policy, chosen)
           off == o.state = "off"
           q == SeenOffIf(taken, off)
<1>1. s \in Record /\ s.base = r.base /\ s.layers = r.layers /\ s.observed = o
  BY SupersedeQuiet DEF Supersede, Becomes, Record
<1>2. cmd \in Command /\ cmd.state = o.state
  BY ObservedType DEF ObservedToCommand, OffCommand, Cmd, Record
<1> HIDE DEF s, cmd
<1>3. /\ taken.last.policy \in Acts(policy) /\ taken.last.groups = groups
      /\ taken.last.policy \in {"take_back", "edit_active"} => Upholds(taken, cmd.state)
      /\ taken.last.policy = "reassert" => Leaves(s, taken)
  BY <1>1, <1>2, ApplyExternalDecides
<1>4. taken \in Record
  BY <1>1, <1>2, ApplyExternalQuiet DEF Becomes
<1>5. taken.observed = o
  BY <1>1, ApplyExternalObserved
<1> HIDE DEF taken, off
<1>6. /\ Leaves(taken, q) /\ q.last = taken.last /\ q.observed = taken.observed
  BY <1>4, SeenOffLeaves
<1> HIDE DEF q
<1>7. Leaves(r, s)
  BY <1>1, SameLeaves
<1>8. /\ q.last.policy \in Acts(policy) /\ q.last.groups = groups
      /\ q.last.policy \in {"take_back", "edit_active"} => Upholds(q, o.state)
      /\ q.last.policy = "reassert" => Leaves(r, q)
      /\ q.observed = o
  BY <1>2, <1>3, <1>5, <1>6, <1>7, LeavesUpholds, LeavesCompose
<1> QED BY <1>8 DEF Judged, q, taken, s, cmd, off

\* A report of a lamp that is on chooses the brightness it brings.
LEMMA JudgedChooses ==
  ASSUME NEW r \in Record, r.observed.state = "on", r.observed.bri # NoValue,
         NEW groups \in Take, "state" \in groups, "brightness" \in groups,
         NEW source \in ChangeSource, NEW chosen, chosen # Everything,
         "brightness" \in chosen
  PROVE  Chose(Judged(r, groups, source, "take_back", chosen), r.observed.bri)
<1> DEFINE s == Supersede(r)
           cmd == ObservedToCommand(r.observed)
           taken == ApplyExternal(s, cmd, groups, source, "take_back", chosen)
<1>1. s \in Record /\ s.observed = r.observed
  BY SupersedeQuiet DEF Supersede, Becomes, Record
<1>2. cmd \in Command /\ cmd.state = "on" /\ cmd.bri = r.observed.bri
  BY ObservedType DEF ObservedToCommand, Record
<1> HIDE DEF s, cmd
<1>3. Chose(taken, r.observed.bri)
  BY <1>1, <1>2, ApplyExternalChooses
<1> QED BY <1>3 DEF Judged, SeenOffIf, s, cmd

-----------------------------------------------------------------------------
(* What nobody with a say did *)

\* The last external change is forgotten, or remembered as it was taken.
Ages(last, later) ==
  \/ later.policy = "none"
  \/ later.policy = last.policy /\ later.groups = last.groups

\* The tail of a change ends with Layers' own steps.
LEMMA PastAges == ASSUME NEW last \in External PROVE Ages(last, Past(last))
BY DEF Ages, Past, Forgotten, External

\* Clearing layers takes them away (apply_clear).
LEMMA ApplyClearLeaves ==
  ASSUME NEW r \in Record, NEW target
  PROVE  Leaves(r, ApplyClear(r, target)) /\ Ages(r.last, ApplyClear(r, target).last)
<1> DEFINE about == Cleared(r, target)
           removed == about \cap Live(r.layers)
           expired == about \cap Expired(r)
           layers == [i \in Id |->
                        CASE i \in removed -> NoLayer
                          [] i \in expired -> [r.layers[i] EXCEPT !.render = TRUE]
                          [] OTHER -> r.layers[i]]
           tombs == [i \in Id |->
                        IF i \in about /\ target # "active" THEN NoTomb ELSE r.tombs[i]]
           stripped == [r EXCEPT !.layers = layers]
           cleared == [stripped EXCEPT !.tombs = tombs]
           q == IF removed \cup expired = {} THEN cleared ELSE LayersChanged(cleared)
<1>1. \A i \in expired : r.layers[i] \in Layer /\ r.layers[i] # NoLayer
  BY DEF Expired, Present, Record
<1>2. \A i \in removed : i \notin expired
  BY DEF Expired
<1>3. \A i \in Id : layers[i] # NoLayer =>
        /\ r.layers[i] # NoLayer
        /\ layers[i].lease # "over" => r.layers[i].lease # "over"
        /\ layers[i].mode = r.layers[i].mode
        /\ r.layers[i].mode # "follow" => layers[i].command = r.layers[i].command
  <2> SUFFICES ASSUME NEW i \in Id, layers[i] # NoLayer
               PROVE  /\ r.layers[i] # NoLayer
                      /\ layers[i].lease # "over" => r.layers[i].lease # "over"
                      /\ layers[i].mode = r.layers[i].mode
                      /\ r.layers[i].mode # "follow" => layers[i].command = r.layers[i].command
    OBVIOUS
  <2>1. CASE i \in expired
    <3>1. layers[i] = [r.layers[i] EXCEPT !.render = TRUE]
      BY <1>2, <2>1
    <3> QED BY <1>1, <2>1, <3>1 DEF Layer
  <2>2. CASE i \notin expired
    <3>1. i \notin removed
      BY <2>2
    <3>2. layers[i] = r.layers[i]
      BY <2>2, <3>1
    <3> QED BY <3>2
  <2> QED BY <2>1, <2>2
<1> HIDE DEF layers
<1>4. Leaves(r, stripped)
  BY <1>3, EditedLeaves
<1>5. cleared.base = stripped.base /\ cleared.layers = stripped.layers /\ cleared.last = r.last
  BY DEF Record
<1> HIDE DEF cleared, removed, expired
<1>6. q.base = cleared.base /\ q.layers = cleared.layers /\ q.last \in {cleared.last, Past(cleared.last)}
  BY DEF LayersChanged
<1>7. Leaves(r, q)
  BY <1>4, <1>5, <1>6, SameLeaves, LeavesCompose
<1>8. Ages(r.last, q.last)
  BY <1>5, <1>6, PastAges DEF Ages, Record
<1>9. ApplyClear(r, target) = q
  BY DEF ApplyClear, cleared, layers, removed, expired
<1> QED BY <1>7, <1>8, <1>9

\* Reading the sources changes only what follow layers give (_read_sources).
LEMMA FedLeaves ==
  ASSUME NEW r \in Record, NEW layers, NEW S \in SUBSET Id, NEW f,
         \A i \in S : r.layers[i] # NoLayer /\ r.layers[i].mode = "follow",
         layers = [i \in Id |-> IF i \in S THEN [r.layers[i] EXCEPT !.command = f[i]]
                                ELSE r.layers[i]]
  PROVE  LET q == [r EXCEPT !.layers = layers]
         IN Leaves(r, q) /\ Grips(r, q) /\ q.last = r.last /\ q.observed = r.observed
<1> DEFINE q == [r EXCEPT !.layers = layers]
<1>1. \A i \in S : r.layers[i] \in Layer
  BY DEF Record
<1>2. \A i \in Id : layers[i] # NoLayer =>
        /\ r.layers[i] # NoLayer
        /\ layers[i].lease # "over" => r.layers[i].lease # "over"
        /\ layers[i].mode = r.layers[i].mode
        /\ r.layers[i].mode # "follow" => layers[i].command = r.layers[i].command
  BY <1>1 DEF Layer
<1>3. \A i \in Id : r.layers[i] # NoLayer => layers[i].manual = r.layers[i].manual
  BY <1>1 DEF Layer
<1>4. Leaves(r, q)
  BY <1>2, EditedLeaves
<1>5. q.layers = layers /\ q.last = r.last /\ q.observed = r.observed
  BY DEF Record
<1> HIDE DEF q
<1>6. Grips(r, q)
  BY <1>3, <1>4, <1>5 DEF Grips, Leaves, Live, Present
<1> QED BY <1>4, <1>5, <1>6 DEF q

\* A layer that lasts, or runs out: the same but for what no one is shown.
LEMMA RefreshedLeaves ==
  ASSUME NEW r \in Record, NEW i \in Id, r.layers[i] # NoLayer, NEW lay \in Layer,
         lay.lease # "over" => r.layers[i].lease # "over", lay.mode = r.layers[i].mode, lay.command = r.layers[i].command,
         lay.manual = r.layers[i].manual
  PROVE  LET q == [r EXCEPT !.layers[i] = lay]
         IN Leaves(r, q) /\ Grips(r, q) /\ q.last = r.last /\ q.observed = r.observed
<1> DEFINE q == [r EXCEPT !.layers[i] = lay]
<1>1. /\ q.base = r.base /\ q.last = r.last /\ q.observed = r.observed
      /\ \A j \in Id : q.layers[j] = IF j = i THEN lay ELSE r.layers[j]
  BY DEF Record
<1> HIDE DEF q
<1>2. Leaves(r, q) /\ Grips(r, q)
  BY <1>1 DEF Leaves, Grips, Live, Present
<1> QED BY <1>1, <1>2 DEF q

\* A set that is skipped, or that only keeps a layer alive, leaves the lamp as
\* it was.
SameAs(r, out) ==
  out.result \in Skips \cup {"refreshed"} =>
    Leaves(r, out.rec) /\ Grips(r, out.rec) /\ out.rec.last = r.last

\* A set that is skipped changes nothing; one that is accepted does not
\* refresh.
LEMMA PlainOutcomes ==
  ASSUME NEW r \in Record, NEW result
  PROVE  /\ SameAs(r, Outcome(r, result)) /\ Ages(r.last, Outcome(r, result).rec.last)
         /\ \A q : result \notin Skips \cup {"refreshed"} => SameAs(r, Outcome(q, result))
BY SameLeaves DEF SameAs, Outcome, Ages

\* A layer put in force leaves the past behind.
LEMMA PutLayerAges ==
  ASSUME NEW r \in Record, NEW i, NEW lay, NEW result
  PROVE  /\ Ages(r.last, PutLayer(r, i, lay, result).rec.last)
         /\ result \notin Skips \cup {"refreshed"} => SameAs(r, PutLayer(r, i, lay, result))
<1> DEFINE placed == [r EXCEPT !.layers[i] = lay]
           q == LayersChanged(placed)
<1>1. placed.last = r.last
  BY DEF Record
<1> HIDE DEF placed
<1>2. q.last \in {placed.last, Past(placed.last)}
  BY DEF LayersChanged
<1>3. Ages(r.last, q.last)
  BY <1>1, <1>2, PastAges DEF Ages, Record
<1>4. PutLayer(r, i, lay, result) = Outcome(q, result)
  BY DEF PutLayer, placed
<1> HIDE DEF q
<1>5. Outcome(q, result).rec = q /\ Outcome(q, result).result = result
  BY DEF Outcome
<1> QED BY <1>3, <1>4, <1>5 DEF SameAs

\* So does a set of the base (set_layer, base).
LEMMA SetBaseAges ==
  ASSUME NEW r \in Record, NEW req
  PROVE  Ages(r.last, SetBaseLayer(r, req).rec.last) /\ SameAs(r, SetBaseLayer(r, req))
<1> DEFINE based == [r EXCEPT !.base = AsMode(Merge(r.base, req.command, Everything), "set")]
           q == LayersChanged(based)
<1>1. based.last = r.last
  BY DEF Record
<1>2. SetBaseLayer(r, req) = Outcome(q, "base_set")
  BY DEF SetBaseLayer
<1> HIDE DEF based
<1>3. q.last \in {based.last, Past(based.last)}
  BY DEF LayersChanged
<1>4. Ages(r.last, q.last)
  BY <1>1, <1>3, PastAges DEF Ages, Record
<1> HIDE DEF q
<1>5. Outcome(q, "base_set").rec = q /\ Outcome(q, "base_set").result = "base_set"
  BY DEF Outcome
<1> QED BY <1>2, <1>4, <1>5 DEF SameAs, Skips

\* A repeated set and a renewal of a follow layer (_set_follow_layer).
LEMMA SetFollowLeaves ==
  ASSUME NEW r \in Record, NEW req \in SetRequest, req.layer \in Live(r.layers)
  PROVE  /\ SameAs(r, SetFollowLayer(r, req))
         /\ Ages(r.last, SetFollowLayer(r, req).rec.last)
<1> DEFINE lay == r.layers[req.layer]
           newSource == ~req.onlyIfPresent /\ req.source # lay.source
           timeout == lay.manualTimeout \/ req.manualTimeout
           refreshed == [Renewed(lay, req, TRUE) EXCEPT !.manualTimeout = timeout]
           updated == [Optioned(lay, req) EXCEPT
                         !.prio = PriorityOf(lay, req),
                         !.source = IF newSource THEN req.source ELSE @,
                         !.command = IF newSource THEN Nothing ELSE @,
                         !.manual = {},
                         !.manualLease = "none",
                         !.manualTimeout = timeout]
           out == SetFollowLayer(r, req)
<1>1. /\ req.layer \in Id /\ lay \in Layer /\ lay # NoLayer /\ lay.lease # "over"
      /\ timeout \in BOOLEAN
  BY DEF Live, Present, Record, Layer, SetRequest
<1>2. Renewed(lay, req, TRUE) = [lay EXCEPT !.lease = Renewed(lay, req, TRUE).lease]
  BY <1>1 DEF Renewed, Layer
<1>3. Renewed(lay, req, TRUE) \in Layer
  BY <1>1, OptionsType
<1> HIDE DEF lay, timeout
<1>4. /\ refreshed \in Layer /\ refreshed.mode = lay.mode
      /\ refreshed.command = lay.command /\ refreshed.manual = lay.manual
  BY <1>1, <1>2, <1>3 DEF Layer
<1> HIDE DEF refreshed, updated
<1>5. LET q == [r EXCEPT !.layers[req.layer] = refreshed]
      IN Leaves(r, q) /\ Grips(r, q) /\ q.last = r.last
  BY <1>1, <1>4, RefreshedLeaves DEF lay
<1>6. CASE ~Moves(lay, req) /\ ~newSource
  <2>1. out = Outcome([r EXCEPT !.layers[req.layer] = refreshed], "refreshed")
    BY <1>6 DEF SetFollowLayer, lay, timeout, refreshed
  <2>2. out.rec = [r EXCEPT !.layers[req.layer] = refreshed]
    BY <2>1 DEF Outcome
  <2> HIDE DEF out
  <2>3. Leaves(r, out.rec) /\ Grips(r, out.rec) /\ out.rec.last = r.last
    BY <1>5, <2>2
  <2> QED BY <2>3 DEF SameAs, Ages, out
<1>7. CASE ~(~Moves(lay, req) /\ ~newSource)
  <2>1. \/ out = Outcome(r, "priority_conflict")
        \/ out = PutLayer(r, req.layer, updated, "updated")
    BY <1>7 DEF SetFollowLayer, lay, timeout, updated
  <2> HIDE DEF out
  <2> QED BY <2>1, PlainOutcomes, PutLayerAges DEF out, Skips
<1> QED BY <1>6, <1>7

\* A repeated set and a renewal of a set or adjust layer (_set_named_layer).
LEMMA UpdateLeaves ==
  ASSUME NEW r \in Record, NEW req \in SetRequest, req.layer \in Live(r.layers)
  PROVE  /\ SameAs(r, UpdateLayer(r, req))
         /\ Ages(r.last, UpdateLayer(r, req).rec.last)
<1> DEFINE lay == r.layers[req.layer]
           mode == IF req.onlyIfPresent THEN lay.asked ELSE req.mode
           command == IF req.onlyIfPresent THEN AsMode(req.command, mode) ELSE req.command
           follows == mode = "follow"
           updated == [Optioned(lay, req) EXCEPT
                         !.prio = PriorityOf(lay, req),
                         !.mode = mode, !.asked = mode,
                         !.requested = command, !.command = command,
                         !.source = IF follows THEN req.source ELSE NoSource,
                         !.manual = {},
                         !.manualLease = "none",
                         !.manualTimeout = follows /\ req.manualTimeout]
           refreshed == Renewed(lay, req, TRUE)
           repeats == command = lay.requested /\ mode = lay.asked /\ ~Moves(lay, req)
           out == UpdateLayer(r, req)
<1>1. req.layer \in Id /\ lay \in Layer /\ lay # NoLayer /\ lay.lease # "over"
  BY DEF Live, Present, Record
<1>2. /\ refreshed \in Layer /\ refreshed.mode = lay.mode
      /\ refreshed.command = lay.command /\ refreshed.manual = lay.manual
  BY <1>1, OptionsType DEF Renewed, Layer
<1>3. \/ repeats /\ out = Outcome([r EXCEPT !.layers[req.layer] = refreshed], "refreshed")
      \/ out = Outcome(r, "priority_conflict")
      \/ out = PutLayer(r, req.layer, updated, "updated")
  <2> HIDE DEF lay, refreshed, updated, command, mode
  <2> QED BY DEF UpdateLayer, lay, refreshed, updated, command, mode
<1> HIDE DEF lay, updated, refreshed, repeats
<1>4. LET q == [r EXCEPT !.layers[req.layer] = refreshed]
      IN Leaves(r, q) /\ Grips(r, q) /\ q.last = r.last
  BY <1>1, <1>2, RefreshedLeaves DEF lay
<1>5. CASE out = Outcome([r EXCEPT !.layers[req.layer] = refreshed], "refreshed")
  <2>1. out.rec = [r EXCEPT !.layers[req.layer] = refreshed]
    BY <1>5 DEF Outcome
  <2> HIDE DEF out
  <2>2. Leaves(r, out.rec) /\ Grips(r, out.rec) /\ out.rec.last = r.last
    BY <1>4, <2>1
  <2> QED BY <2>2 DEF SameAs, Ages, out
<1>6. CASE \/ out = Outcome(r, "priority_conflict")
           \/ out = PutLayer(r, req.layer, updated, "updated")
  <2> HIDE DEF out
  <2> QED BY <1>6, PlainOutcomes, PutLayerAges DEF out, Skips
<1> QED BY <1>3, <1>5, <1>6

\* A set of the active layer (set_layer, active).
LEMMA SetActiveAges ==
  ASSUME NEW r \in Record, NEW req
  PROVE  /\ SameAs(r, SetActiveLayer(r, req))
         /\ Ages(r.last, SetActiveLayer(r, req).rec.last)
<1> DEFINE out == SetActiveLayer(r, req)
           top == EditableLayer(r.base, r.layers)
           lay == r.layers[top]
           edited ==
             CASE lay.mode = "adjust" /\ req.command.state = "off" -> ToSetOff(lay)
               [] lay.mode = "adjust" /\ req.command.state # "off" ->
                    [lay EXCEPT !.command = MergeAttributes(@, req.command, Everything)]
               [] lay.mode # "adjust" ->
                    [lay EXCEPT !.command = Merge(@, req.command, Everything)]
<1>1. out = IF top = NoId THEN SetBaseLayer(r, req) ELSE PutLayer(r, top, edited, "active_set")
  BY DEF SetActiveLayer
<1> HIDE DEF out, edited, top
<1>2. SameAs(r, out) /\ Ages(r.last, out.rec.last)
  BY <1>1, SetBaseAges, PutLayerAges DEF Skips
<1> QED BY <1>2 DEF out

\* A set of a lamp (set_layer): one that is skipped or refreshes leaves it.
LEMMA ApplySetLeaves ==
  ASSUME NEW r \in Record, NEW req \in SetRequest
  PROVE  /\ SameAs(r, ApplySet(r, req))
         /\ Ages(r.last, ApplySet(r, req).rec.last)
<1> DEFINE out == ApplySet(r, req)
<1>1. \/ \E result : out = Outcome(r, result)
      \/ out = SetBaseLayer(r, req) \/ out = SetActiveLayer(r, req)
      \/ out = SetNamedLayer(r, req)
  BY DEF ApplySet
<1>2. ASSUME out = SetNamedLayer(r, req)
      PROVE  \/ \E result : out = Outcome(r, result)
             \/ out = CreateLayer(r, req)
             \/ /\ req.layer \in Live(r.layers)
                /\ out = SetFollowLayer(r, req) \/ out = UpdateLayer(r, req)
  BY <1>2 DEF SetNamedLayer
<1>3. ASSUME out = CreateLayer(r, req)
      PROVE  \/ \E result : out = Outcome(r, result)
             \/ out = PutLayer(r, req.layer, NewLayer(req), "created")
  BY <1>3 DEF CreateLayer, SetRequest
<1> HIDE DEF out
<1>4. SameAs(r, out) /\ Ages(r.last, out.rec.last)
  BY <1>1, <1>2, <1>3, PlainOutcomes, SetBaseAges, SetActiveAges, SetFollowLeaves,
     UpdateLeaves, PutLayerAges DEF Skips
<1> QED BY <1>4 DEF out

\* What ran out goes; unless that is held back, the base stays (expire).
LEMMA ExpireLeaves ==
  ASSUME NEW r \in Record, NEW shown
  PROVE  /\ ~HeldBack(r, shown) => Leaves(r, Expire(r, shown))
         /\ Ages(r.last, Expire(r, shown).last)
<1> DEFINE layers == [i \in Id |-> IF i \in Expired(r) THEN NoLayer ELSE r.layers[i]]
           tombs == [i \in Id |-> IF LiveTomb(r, i) THEN r.tombs[i] ELSE NoTomb]
           stripped == [r EXCEPT !.layers = layers]
           swept == [stripped EXCEPT !.tombs = tombs]
           base == IF HeldBack(r, shown) THEN ObservedToCommand(shown) ELSE Swept(r).base
           q == [Swept(r) EXCEPT !.base = base]
<1>1. \A i \in Id : layers[i] # NoLayer =>
        /\ r.layers[i] # NoLayer
        /\ layers[i].lease # "over" => r.layers[i].lease # "over"
        /\ layers[i].mode = r.layers[i].mode
        /\ r.layers[i].mode # "follow" => layers[i].command = r.layers[i].command
  OBVIOUS
<1> HIDE DEF layers
<1>2. Leaves(r, stripped)
  BY <1>1, EditedLeaves
<1>3. swept.base = stripped.base /\ swept.layers = stripped.layers /\ swept.last = r.last
  BY DEF Record
<1>4. Swept(r) = IF Expired(r) = {} THEN swept ELSE LayersChanged(swept)
  BY DEF Swept, layers
<1> HIDE DEF swept
<1>5. /\ Swept(r).base = swept.base /\ Swept(r).layers = swept.layers
      /\ Swept(r).last \in {swept.last, Past(swept.last)}
  BY <1>4 DEF LayersChanged
<1>6. Swept(r) \in Record
  BY SweptQuiet DEF Becomes
<1>7. Expire(r, shown) = q
  BY DEF Expire
<1>8. q.layers = Swept(r).layers /\ q.last = Swept(r).last /\ q.base = base
  BY <1>6 DEF Record
<1>9. ~HeldBack(r, shown) => base = Swept(r).base
  OBVIOUS
<1> HIDE DEF q, base
<1>10. Ages(r.last, q.last)
  BY <1>3, <1>5, <1>8, PastAges DEF Ages, Record
<1>11. ~HeldBack(r, shown) => Leaves(r, q)
  BY <1>2, <1>3, <1>5, <1>8, <1>9, SameLeaves, LeavesCompose
<1> QED BY <1>7, <1>10, <1>11

\* Reading the sources (_read_sources).
LEMMA ReadSourcesLeaves ==
  ASSUME NEW r \in Record
  PROVE  LET q == [r EXCEPT !.layers = ReadSources(@)]
         IN Leaves(r, q) /\ Grips(r, q) /\ q.last = r.last
<1> DEFINE S == {i \in Id : /\ Present(r.layers, i)
                           /\ r.layers[i].mode = "follow"
                           /\ r.layers[i].source # NoSource
                           /\ feed[r.layers[i].source] # Away}
           f == [i \in Id |-> IF i \in S THEN feed[r.layers[i].source] ELSE Nothing]
           layers == ReadSources(r.layers)
<1>1. layers = [i \in Id |-> IF i \in S
                             THEN [r.layers[i] EXCEPT !.command = f[i]]
                             ELSE r.layers[i]]
  BY DEF ReadSources
<1>2. \A i \in S : r.layers[i] # NoLayer /\ r.layers[i].mode = "follow"
  BY DEF Present
<1>3. S \in SUBSET Id
  OBVIOUS
<1> HIDE DEF S, f, layers
<1>4. LET q == [r EXCEPT !.layers = layers]
      IN Leaves(r, q) /\ Grips(r, q) /\ q.last = r.last
  BY <1>1, <1>2, <1>3, FedLeaves
<1> QED BY <1>4 DEF layers

\* A lamp that has a base learns none (_learn_base).
LEMMA LearnBaseLeaves ==
  ASSUME NEW r \in Record
  PROVE  /\ LearnBase(r) \in Record /\ LearnBase(r).last = r.last
         /\ r.base # Nothing => LearnBase(r) = r
<1>1. LearnBase(r).last = r.last
  BY DEF LearnBase, RecordObservedAsBase, Record
<1> QED BY <1>1, LearnBaseQuiet DEF LearnBase, Becomes

-----------------------------------------------------------------------------
(* The invariant *)

\* A change is remembered by a policy the lamp has, and with its on/off.  A
\* lamp kept to its base, and a replay, decide nothing.
LastFits ==
  /\ rec.last.policy \in {"none", "replay"} \cup Acts(lampPolicy)
  /\ rec.last.policy # "none" => "state" \in rec.last.groups
  /\ rec.last.policy = "replay" => decided = "none"
  /\ lampPolicy = "base_keep_layers" => decided = "none"

\* What was decided is upheld.
Stands == LastFits /\ (decided # "none" => Upholds(rec, decided))

\* The inductive invariant.
DInv ==
  /\ IInv
  /\ decided \in {"none", "on", "off"} /\ chose \in Level \cup {NoValue}
  /\ Stands

\* A step nobody with a say took keeps what was decided.
LEMMA AgingStands ==
  ASSUME DInv, Ages(rec.last, rec'.last), UNCHANGED lampPolicy,
         decided' \in {"none", decided}, decided' # "none" => Leaves(rec, rec')
  PROVE  Stands'
<1>1. decided' # "none" => Upholds(rec', decided')
  BY LeavesUpholds DEF DInv, Stands
<1>2. LastFits'
  BY DEF DInv, Stands, LastFits, Ages
<1> QED BY <1>1, <1>2 DEF Stands

\* An owner who decides nothing leaves a lamp that has a base as it was
\* (set_layer).
LEMMA SetLayerLeaves ==
  ASSUME IInv, NEW req \in Requests, SetLayer(req)
  PROVE  /\ Ages(rec.last, rec'.last)
         /\ ~OwnerDecides(req) /\ rec.base # Nothing =>
              Leaves(rec, rec') /\ Grips(rec, rec')
<1> DEFINE learnt == LearnBase(rec)
           out == ApplySet(learnt, req)
           read == [out.rec EXCEPT !.layers = ReadSources(@)]
<1>1. Good(rec) /\ req \in SetRequest
  BY IInvGood, LampAssumption
<1>2. learnt \in Record /\ learnt.last = rec.last /\ (rec.base # Nothing => learnt = rec)
  BY <1>1, LearnBaseLeaves DEF Good
<1>3. Good(learnt)
  BY <1>1, LearnBaseQuiet, GoodKept DEF Good
<1>4. ~OwnerDecides(req) => out.result \in Skips \cup {"refreshed"}
  BY DEF OwnerDecides
<1> HIDE DEF learnt
<1>5. SameAs(learnt, out) /\ Ages(learnt.last, out.rec.last)
  BY <1>1, <1>2, ApplySetLeaves
<1>6. out.rec \in Record
  BY <1>1, <1>3, ApplySetIsGood DEF Good
<1>7. rec' \in {out.rec, read}
  BY DEF SetLayer, learnt
<1> HIDE DEF out
<1>8. Leaves(out.rec, read) /\ Grips(out.rec, read) /\ read.last = out.rec.last
  BY <1>6, ReadSourcesLeaves
<1> HIDE DEF read
<1>9. Leaves(out.rec, rec') /\ Grips(out.rec, rec') /\ rec'.last = out.rec.last
  BY <1>7, <1>8, LeavesCompose
<1>10. ASSUME ~OwnerDecides(req), rec.base # Nothing
       PROVE  Leaves(rec, rec') /\ Grips(rec, rec')
  <2>1. Leaves(rec, out.rec) /\ Grips(rec, out.rec)
    BY <1>2, <1>4, <1>5, <1>10 DEF SameAs
  <2> QED BY <1>9, <2>1, LeavesCompose
<1> QED BY <1>2, <1>5, <1>9, <1>10 DEF Ages

\* What an owner does keeps what was decided, or puts an end to it.
LEMMA OwnerStands ==
  ASSUME DInv, DOwner
  PROVE  Stands'
<1>1. IInv /\ rec \in Record /\ (decided # "none" => rec.base # Nothing)
  BY IInvGood DEF DInv, Stands, Upholds, Good, Nothing, Cmd
<1>2. ASSUME NEW req \in Requests, SetLayer(req),
             decided' = IF OwnerDecides(req) THEN "none" ELSE decided
      PROVE  Stands'
  BY <1>1, <1>2, SetLayerLeaves, AgingStands DEF SetLayer
<1>3. ASSUME NEW target \in Targets, ClearLayer(target), decided' = "none"
      PROVE  Stands'
  BY <1>1, <1>3, ApplyClearLeaves, AgingStands DEF ClearLayer
<1>4. ASSUME Sync, UNCHANGED decided
      PROVE  Stands'
  <2>1. rec'.base = rec.base /\ rec'.layers = rec.layers /\ rec'.last = rec.last
    BY <1>1, <1>4 DEF Sync, Record
  <2> QED BY <1>4, <2>1, SameLeaves, AgingStands DEF Sync, Ages
<1> QED BY <1>2, <1>3, <1>4 DEF DOwner

\* A report nobody acts on, a drop, a return, or what a followed entity gives.
LEMMA SurroundingsLeaves ==
  ASSUME IInv, Surroundings
  PROVE  /\ Leaves(rec, rec') /\ Ages(rec.last, rec'.last)
         /\ rec'.observed.state # "off" => Grips(rec, rec')
<1>1. rec \in Record
  BY IInvGood DEF Good
<1>2. ASSUME NEW o \in Reports, NEW ours \in BOOLEAN, Reported(o, ours)
      PROVE  /\ Leaves(rec, rec') /\ Ages(rec.last, rec'.last)
             /\ rec'.observed.state # "off" => Grips(rec, rec')
  <2> DEFINE r == Showing(rec, o)
             off == ours /\ o.state = "off"
  <2>1. /\ r \in Record /\ r.base = rec.base /\ r.layers = rec.layers
        /\ r.last = rec.last /\ r.observed = o
    BY <1>1, ShowingQuiet, LampAssumption DEF Showing, Becomes, Record
  <2>2. rec' = SeenOffIf(r, off)
    BY <1>2 DEF Reported
  <2>3. ~off <=> ~ours \/ o.state # "off"
    OBVIOUS
  <2> HIDE DEF r, off
  <2>4. /\ Leaves(r, rec') /\ rec'.last = r.last /\ rec'.observed = o
        /\ ~off => Grips(r, rec')
    BY <2>1, <2>2, SeenOffLeaves
  <2>5. Leaves(rec, r) /\ Grips(rec, r)
    BY <2>1, SameLeaves
  <2> QED BY <2>1, <2>3, <2>4, <2>5, LeavesCompose DEF Ages
<1>3. ASSUME rec'.base = rec.base, rec'.layers = rec.layers, rec'.last = rec.last
      PROVE  Leaves(rec, rec') /\ Grips(rec, rec') /\ Ages(rec.last, rec'.last)
  BY <1>3, SameLeaves DEF Ages
<1>4. CASE Drop
  <2>1. rec'.base = rec.base /\ rec'.layers = rec.layers /\ rec'.last = rec.last
    BY <1>1, <1>4 DEF Drop, Showing, Record
  <2> QED BY <1>3, <2>1
<1>5. ASSUME NEW o \in Reports, ComeBack(o)
      PROVE  Leaves(rec, rec') /\ Grips(rec, rec') /\ Ages(rec.last, rec'.last)
  <2>1. rec'.base = rec.base /\ rec'.layers = rec.layers /\ rec'.last = rec.last
    BY <1>1, <1>5 DEF ComeBack, Showing, Record
  <2> QED BY <1>3, <2>1
<1>6. ASSUME NEW s \in Source, NEW values \in Feeds, SourceReports(s, values)
      PROVE  Leaves(rec, rec') /\ Grips(rec, rec') /\ Ages(rec.last, rec'.last)
  <2>1. CASE values = Away
    BY <1>3, <1>6, <2>1 DEF SourceReports
  <2>2. CASE values # Away
    <3> DEFINE S == {i \in Id : /\ Present(rec.layers, i)
                               /\ rec.layers[i].mode = "follow"
                               /\ rec.layers[i].source = s}
               f == [i \in Id |-> values]
               layers == [i \in Id |-> IF i \in S
                                      THEN [rec.layers[i] EXCEPT !.command = f[i]]
                                      ELSE rec.layers[i]]
    <3>1. \A i \in S : rec.layers[i] # NoLayer /\ rec.layers[i].mode = "follow"
      BY DEF Present
    <3>2. rec' = [rec EXCEPT !.layers = layers]
      BY <1>6, <2>2 DEF SourceReports
    <3>3. /\ S \in SUBSET Id
          /\ layers = [i \in Id |-> IF i \in S THEN [rec.layers[i] EXCEPT !.command = f[i]]
                                   ELSE rec.layers[i]]
      OBVIOUS
    <3> HIDE DEF S, f, layers
    <3>4. LET q == [rec EXCEPT !.layers = layers]
          IN Leaves(rec, q) /\ Grips(rec, q) /\ q.last = rec.last
      BY <1>1, <3>1, <3>3, FedLeaves
    <3> QED BY <3>2, <3>4 DEF Ages
  <2> QED BY <2>1, <2>2
<1> QED BY <1>2, <1>3, <1>4, <1>5, <1>6 DEF Surroundings

\* Something runs out: it goes out of force, or stays what it was.
LEMMA RunOutLeaves ==
  ASSUME IInv, NEW i \in Id, RunOut(i)
  PROVE  Leaves(rec, rec') /\ Grips(rec, rec') /\ rec'.last = rec.last
<1>1. rec \in Record
  BY IInvGood DEF Good
<1>2. ASSUME Present(rec.layers, i), NEW lay, rec' = [rec EXCEPT !.layers[i] = lay],
             \/ lay = [rec.layers[i] EXCEPT !.lease = "over"]
             \/ lay = [rec.layers[i] EXCEPT !.manualLease = "over"]
      PROVE  Leaves(rec, rec') /\ Grips(rec, rec') /\ rec'.last = rec.last
  <2>1. rec.layers[i] \in Layer /\ rec.layers[i] # NoLayer
    BY <1>1, <1>2 DEF Present, Record
  <2>2. /\ lay \in Layer
        /\ lay.lease # "over" => rec.layers[i].lease # "over"
        /\ lay.mode = rec.layers[i].mode /\ lay.command = rec.layers[i].command
        /\ lay.manual = rec.layers[i].manual
    BY <1>2, <2>1 DEF Layer, Lease
  <2>3. LET q == [rec EXCEPT !.layers[i] = lay]
        IN Leaves(rec, q) /\ Grips(rec, q) /\ q.last = rec.last /\ q.observed = rec.observed
    BY <1>1, <2>1, <2>2, RefreshedLeaves
  <2> QED BY <1>2, <2>3
<1>3. CASE /\ Present(rec.layers, i)
           /\ rec' = [rec EXCEPT !.layers[i].lease = "over"]
  <2> DEFINE lay == [rec.layers[i] EXCEPT !.lease = "over"]
  <2>1. rec' = [rec EXCEPT !.layers[i] = lay]
    BY <1>1, <1>3 DEF Record
  <2> QED BY <1>2, <1>3, <2>1
<1>4. CASE /\ Present(rec.layers, i)
           /\ rec' = [rec EXCEPT !.layers[i].manualLease = "over"]
  <2> DEFINE lay == [rec.layers[i] EXCEPT !.manualLease = "over"]
  <2>1. rec' = [rec EXCEPT !.layers[i] = lay]
    BY <1>1, <1>4 DEF Record
  <2> QED BY <1>2, <1>4, <2>1
<1>5. CASE rec.tombs[i] # NoTomb /\ rec' = [rec EXCEPT !.tombs[i].lease = "over"]
  <2>1. rec'.base = rec.base /\ rec'.layers = rec.layers /\ rec'.last = rec.last
    BY <1>1, <1>5 DEF Record
  <2> QED BY <2>1, SameLeaves
<1> QED BY <1>3, <1>4, <1>5 DEF RunOut

\* Time and the renderer leave the lamp what it is meant to show, unless an
\* expiry is held back (expire_lamp).
LEMMA ClockLeaves ==
  ASSUME IInv, Clock
  PROVE  /\ Ages(rec.last, rec'.last)
         /\ ~(ExpireLamp /\ HeldBack(rec, Shown(rec))) => Leaves(rec, rec')
         /\ ~ExpireLamp => Grips(rec, rec')
<1>1. rec \in Record
  BY IInvGood DEF Good
<1>2. CASE ExpireLamp
  <2> DEFINE r == Expire(rec, Shown(rec))
  <2>1. Shown(rec) \in Report
    BY <1>1 DEF Shown, Record
  <2>2. r \in Record /\ Ages(rec.last, r.last)
        /\ (~HeldBack(rec, Shown(rec)) => Leaves(rec, r))
    BY <1>1, <2>1, ExpireQuiet, ExpireLeaves DEF Becomes
  <2>3. rec' = ReleaseManual(r, FALSE)
    BY <1>2 DEF ExpireLamp
  <2> HIDE DEF r
  <2>4. Leaves(r, rec') /\ rec'.last = r.last
    BY <2>2, <2>3, ReleaseManualLeaves DEF ReleaseManual, Record
  <2>5. Ages(rec.last, rec'.last)
    BY <2>2, <2>4
  <2> QED BY <1>2, <2>2, <2>4, <2>5, LeavesCompose
<1>3. ASSUME rec'.base = rec.base, rec'.layers = rec.layers,
             rec'.last \in {rec.last, Past(rec.last), Forgotten}
      PROVE  Leaves(rec, rec') /\ Grips(rec, rec') /\ Ages(rec.last, rec'.last)
  BY <1>1, <1>3, SameLeaves, PastAges DEF Ages, Forgotten, Record
<1>4. CASE Forget
  <2>1. /\ rec'.base = rec.base /\ rec'.layers = rec.layers
        /\ rec'.last \in {rec.last, Past(rec.last), Forgotten}
    BY <1>1, <1>4 DEF Forget, Record
  <2> QED BY <1>3, <2>1
<1>5. CASE RendererWrites
  <2>1. /\ rec'.base = rec.base /\ rec'.layers = rec.layers
        /\ rec'.last \in {rec.last, Past(rec.last), Forgotten}
    BY <1>1, <1>5 DEF RendererWrites, Record
  <2> QED BY <1>3, <2>1
<1>6. ASSUME NEW i \in Id, RunOut(i)
      PROVE  Leaves(rec, rec') /\ Grips(rec, rec') /\ Ages(rec.last, rec'.last)
  BY <1>6, RunOutLeaves DEF Ages
<1> QED BY <1>2, <1>4, <1>5, <1>6 DEF Clock

\* What nobody with a say did keeps what was decided.
LEMMA RestStands ==
  ASSUME DInv, DRest
  PROVE  Stands'
<1>1. UNCHANGED lampPolicy
  BY DEF DRest, Surroundings, Clock, Reported, Drop, ComeBack, SourceReports,
         ExpireLamp, RunOut, Forget, RendererWrites
<1>2. decided' = IF ExpireLamp /\ HeldBack(rec, Shown(rec)) THEN "none" ELSE decided
  BY DEF DRest
<1>3. Ages(rec.last, rec'.last) /\ (decided' # "none" => Leaves(rec, rec'))
  BY <1>2, SurroundingsLeaves, ClockLeaves DEF DRest, DInv
<1> QED BY <1>1, <1>2, <1>3, AgingStands

\* edit_active is left out, or a lamp has one layer.
Editable == "edit_active" \notin LampPolicies \/ \A i, j \in Id : i = j

\* A change decides where the policy it was taken by lets it.
LEMMA DecidingStands ==
  ASSUME DInv, UNCHANGED lampPolicy, NEW d, decided' = Decided(d),
         rec'.last.policy \in Acts(lampPolicy), "state" \in rec'.last.groups,
         rec'.last.policy \in {"take_back", "edit_active"} => d \in {"on", "off"} /\ Upholds(rec', d),
         rec'.last.policy = "reassert" => Leaves(rec, rec')
  PROVE  Stands'
<1>1. lampPolicy \in Policies
  BY OptionType DEF DInv
<1>2. decided' # "none" => Upholds(rec', decided')
  <2>1. CASE rec'.last.policy \in {"take_back", "edit_active"}
    BY <2>1 DEF Decided
  <2>2. CASE rec'.last.policy = "reassert"
    BY <2>2, LeavesUpholds DEF Decided, DInv, Stands
  <2>3. CASE rec'.last.policy = "base_keep_layers"
    <3>1. lampPolicy = "base_keep_layers"
      BY <2>3, <1>1 DEF Acts
    <3> QED BY <2>3, <3>1 DEF Decided, DInv, Stands, LastFits
  <2> QED BY <1>1, <2>1, <2>2, <2>3 DEF Acts, Policies
<1>3. LastFits'
  <2>1. rec'.last.policy # "replay"
    BY <1>1 DEF Acts, Policies
  <2>2. lampPolicy = "base_keep_layers" => decided' = "none"
    BY DEF Acts, Decided, DInv, Stands, LastFits
  <2> QED BY <2>1, <2>2 DEF LastFits
<1> QED BY <1>2, <1>3 DEF Stands

\* The groups a change takes always have its on/off.
LEMMA TakesState ==
  /\ "state" \in Everything
  /\ \A named, o, p : "state" \in CallGroups(named, o, p)
  /\ \A o, p : "state" \in ChangedGroups(o, p)
BY DEF Everything, Group, CallGroups, ChangedGroups

\* What a lamp that is there shows is on or off.
LEMMA ReportsOnOff ==
  ASSUME NEW o \in Report, o # Away
  PROVE  o.state \in {"on", "off"}
BY DEF Report, Away, Cmd

\* A change that is reported (_handle_state).
LEMMA ChangeReportedTaken ==
  ASSUME IInv, Editable, NEW o \in Reports, NEW before \in Reports,
         NEW named \in Named \cup {Everything}, NEW source \in Sources,
         ChangeReported(o, before, named, source)
  PROVE  /\ rec'.last.policy \in Acts(lampPolicy) /\ "state" \in rec'.last.groups
         /\ rec'.last.policy \in {"take_back", "edit_active"} => Upholds(rec', o.state)
         /\ rec'.last.policy = "reassert" => Leaves(rec, rec')
         /\ rec'.observed = o
         /\ /\ lampPolicy = "take_back" /\ o.state = "on" /\ o.bri # NoValue
            /\ Chosen(named, before, o) # Everything
            /\ "brightness" \in Chosen(named, before, o)
            /\ "brightness" \in rec'.last.groups
            => Chose(rec', o.bri)
<1> DEFINE r == Showing(rec, o)
           chosen == Chosen(named, before, o)
<1>1. /\ r \in Record /\ r.base = rec.base /\ r.layers = rec.layers /\ r.observed = o
  BY IInvGood, ShowingQuiet, LampAssumption DEF Showing, Becomes, Record, Good
<1>2. named # Everything => named \in SUBSET AttrGroup
  BY DEF Named
<1>3. PICK groups \in IF named = Everything THEN {Everything, ChangedGroups(before, o)}
                     ELSE {CallGroups(named, rec.observed, o)} :
        rec' = Judged(r, groups, source, lampPolicy, chosen)
  BY DEF ChangeReported
<1>4. groups \in Take /\ "state" \in groups
  BY <1>2, <1>3, TakeTypes, TakesState
<1>5. o.state \in {"on", "off"} /\ source \in ChangeSource
  BY ReportsOnOff, LampAssumption
<1>6. /\ lampPolicy \in Policies
      /\ lampPolicy # "edit_active" \/ \A i, j \in Id : i = j
  BY OptionType DEF IInv, TypeOK, Editable
<1> HIDE DEF r, chosen
<1>7. LET q == Judged(r, groups, source, lampPolicy, chosen)
      IN /\ q.last.policy \in Acts(lampPolicy) /\ q.last.groups = groups
         /\ q.last.policy \in {"take_back", "edit_active"} => Upholds(q, r.observed.state)
         /\ q.last.policy = "reassert" => Leaves(r, q)
         /\ q.observed = r.observed
  BY <1>1, <1>4, <1>5, <1>6, JudgedDecides
<1>8. Leaves(rec, r)
  BY <1>1, SameLeaves
<1>9. ASSUME lampPolicy = "take_back", o.state = "on", o.bri # NoValue,
             chosen # Everything, "brightness" \in chosen,
             "brightness" \in rec'.last.groups
      PROVE  Chose(rec', o.bri)
  BY <1>1, <1>3, <1>4, <1>5, <1>7, <1>9, JudgedChooses
<1> QED BY <1>1, <1>3, <1>4, <1>7, <1>8, <1>9, LeavesCompose DEF chosen

\* The tail of a change is taken as the change was (_follow_up).
LEMMA FollowUpStands ==
  ASSUME DInv, Editable, NEW o \in Reports, FollowUp(o), decided' = Decided(o.state)
  PROVE  Stands'
<1>1. /\ rec \in Record /\ rec.last.policy # "none" /\ UNCHANGED lampPolicy
      /\ rec.last.groups \in Take /\ rec.last.source \in ChangeSource
  BY IInvGood DEF DInv, Good, Record, External, FollowUp
<1>2. /\ rec.last.policy \in {"replay"} \cup Acts(lampPolicy)
      /\ "state" \in rec.last.groups
      /\ rec.last.policy = "replay" => decided = "none"
      /\ lampPolicy = "base_keep_layers" => decided = "none"
  BY <1>1 DEF DInv, Stands, LastFits
<1>3. CASE rec.last.policy = "replay"
  <2> DEFINE r == [Showing(rec, o) EXCEPT !.atDrop = Away]
  <2>1. rec' = ApplyReplay(r, ObservedToCommand(o), rec.last.groups, rec.last.source)
    BY <1>3 DEF FollowUp
  <2>2. r \in Record
    <3>1. Showing(rec, o) \in Record
      BY <1>1, ShowingQuiet, LampAssumption DEF Becomes
    <3> QED BY <3>1, ConstantCommands DEF Record
  <2> HIDE DEF r
  <2>3. rec'.last.policy = "replay" /\ rec'.last.groups = rec.last.groups
    BY <2>1, <2>2 DEF ApplyReplay, Record
  <2>4. decided' = "none"
    BY <1>2, <1>3, <2>3 DEF Decided
  <2> QED BY <1>2, <2>3, <2>4 DEF Stands, LastFits
<1>4. CASE rec.last.policy # "replay"
  <2> DEFINE r == Showing(rec, o)
             policy == rec.last.policy
             groups == rec.last.groups
  <2>1. rec' = Judged(r, groups, rec.last.source, policy, {})
    BY <1>4 DEF FollowUp
  <2>2. /\ r \in Record /\ r.base = rec.base /\ r.layers = rec.layers /\ r.observed = o
    BY <1>1, ShowingQuiet, LampAssumption DEF Showing, Becomes, Record
  <2>3. o.state \in {"on", "off"}
    BY ReportsOnOff, LampAssumption
  <2>4. lampPolicy \in Policies /\ lampPolicy \in LampPolicies
    BY OptionType DEF DInv, IInv, TypeOK
  <2>5. policy \in Policies /\ Acts(policy) \subseteq Acts(lampPolicy)
    BY <1>2, <1>4, <2>4 DEF Acts, Policies
  <2>6. policy # "edit_active" \/ \A i, j \in Id : i = j
    BY <1>2, <1>4, <2>4 DEF Acts, Editable
  <2> HIDE DEF r, policy, groups
  <2>7. groups \in Take /\ "state" \in groups
    BY <1>1, <1>2 DEF groups
  <2>8. LET q == Judged(r, groups, rec.last.source, policy, {})
        IN /\ q.last.policy \in Acts(policy) /\ q.last.groups = groups
           /\ q.last.policy \in {"take_back", "edit_active"} => Upholds(q, r.observed.state)
           /\ q.last.policy = "reassert" => Leaves(r, q)
           /\ q.observed = r.observed
    BY <1>1, <2>2, <2>3, <2>5, <2>6, <2>7, JudgedDecides
  <2>9. /\ rec'.last.policy \in Acts(lampPolicy) /\ "state" \in rec'.last.groups
        /\ rec'.last.policy \in {"take_back", "edit_active"} => Upholds(rec', o.state)
        /\ rec'.last.policy = "reassert" => Leaves(rec, rec')
    BY <2>1, <2>2, <2>5, <2>7, <2>8, SameLeaves, LeavesCompose
  <2> QED BY <1>1, <2>3, <2>9, DecidingStands
<1> QED BY <1>3, <1>4

\* A foreign call acted on as it is heard (_handle_call).
LEMMA CallHeardTaken ==
  ASSUME IInv, Editable, NEW cmd \in Calls, NEW source \in Sources \ {"device"},
         CallHeard(cmd, source)
  PROVE  /\ rec'.last.policy \in Acts(lampPolicy) /\ "state" \in rec'.last.groups
         /\ rec'.last.policy \in {"take_back", "edit_active"} => Upholds(rec', cmd.state)
         /\ rec'.last.policy = "reassert" => Leaves(rec, rec')
         /\ lampPolicy = "take_back" /\ cmd.bri # NoValue => Chose(rec', cmd.bri)
<1> DEFINE named == IF cmd.state = "off" THEN {} ELSE Groups(cmd) \cap AttrGroup
           groups == named \cup {"state"}
           s == Supersede(rec)
           taken == ApplyExternal(s, cmd, groups, source, lampPolicy, named)
           owed == IF EffectiveNow(taken) = Nothing THEN "nothing" ELSE "owed"
           off == rec.observed.state = "off"
<1>1. /\ s \in Record /\ s.base = rec.base /\ s.layers = rec.layers
  BY IInvGood, SupersedeQuiet DEF Supersede, Becomes, Record, Good
<1>2. /\ cmd \in Command /\ cmd.state \in {"on", "off"} /\ source \in ChangeSource
      /\ cmd.bri # NoValue => cmd.state = "on"
  BY LampAssumption DEF Command
<1>3. groups \in Take /\ "state" \in groups /\ named # Everything
  <2>1. named \in SUBSET AttrGroup
    OBVIOUS
  <2> HIDE DEF named
  <2>2. "rest" \in Everything /\ "rest" \notin AttrGroup
    BY DEF Everything, AttrGroup
  <2> QED BY <2>1, <2>2, TakeTypes
<1>4. cmd.bri # NoValue => "brightness" \in named
  BY <1>2 DEF Groups, Group, AttrGroup
<1>5. /\ lampPolicy \in Policies
      /\ lampPolicy # "edit_active" \/ \A i, j \in Id : i = j
  BY OptionType DEF IInv, TypeOK, Editable
<1>6. IF Available(rec) THEN rec' = SeenOffIf(taken, off)
      ELSE rec' = [taken EXCEPT !.owed = owed]
  BY DEF CallHeard
<1>7. Available(rec) /\ cmd.state = "on" => ~off
  BY DEF CallHeard, IntentHeard, AlreadyShows, Matches, Project, Merge, Cmd, Groups, AttrGroup,
         Nothing, OffCommand
<1>8. "brightness" \in named => "brightness" \in groups
  OBVIOUS
<1> HIDE DEF s, named, groups, off
<1>9. /\ taken.last.policy \in Acts(lampPolicy) /\ taken.last.groups = groups
      /\ taken.last.policy \in {"take_back", "edit_active"} => Upholds(taken, cmd.state)
      /\ taken.last.policy = "reassert" => Leaves(s, taken)
  BY <1>1, <1>2, <1>3, <1>5, ApplyExternalDecides
<1>10. lampPolicy = "take_back" /\ cmd.bri # NoValue => Chose(taken, cmd.bri)
  BY <1>1, <1>2, <1>3, <1>4, <1>8, ApplyExternalChooses
<1>11. taken \in Record
  BY <1>1, <1>2, <1>3, <1>5, ApplyExternalQuiet DEF Becomes
<1> HIDE DEF taken, owed
<1>12. /\ Leaves(taken, rec') /\ rec'.last = taken.last
       /\ cmd.state = "on" => Grips(taken, rec')
  <2>1. CASE Available(rec)
    BY <1>6, <1>7, <1>11, <2>1, SeenOffLeaves
  <2>2. CASE ~Available(rec)
    <3>1. rec'.base = taken.base /\ rec'.layers = taken.layers /\ rec'.last = taken.last
      BY <1>6, <1>11, <2>2 DEF Record
    <3> QED BY <3>1, SameLeaves
  <2> QED BY <2>1, <2>2
<1>13. Leaves(rec, s)
  BY <1>1, SameLeaves
<1> QED BY <1>2, <1>3, <1>9, <1>10, <1>12, <1>13, LeavesUpholds, LeavesChose, LeavesCompose

\* A lamp that came back: recorded or judged it decides anew, else it is left
\* (_judge_return).
LEMMA JudgeReturnStands ==
  ASSUME DInv, Editable, JudgeReturn,
         decided' = IF DecideReturn(rec, rec.observed) \in {"record", "external"}
                    THEN "none" ELSE decided
  PROVE  Stands'
<1> DEFINE o == rec.observed
           decision == DecideReturn(rec, o)
           settled == [rec EXCEPT !.owed = "nothing"]
           chosen == Chosen(Everything, rec.atDrop, o)
           judged == Judged(settled, Everything, "device", lampPolicy, chosen)
           recorded == RecordObservedAsBase(settled, o)
           done ==
             CASE decision = "record" -> recorded
               [] decision = "nothing" -> settled
               [] decision = "send" -> rec
               [] decision = "external" -> judged
           off == o.state = "off"
           seen == SeenOffIf(done, off)
<1>1. rec \in Record /\ o \in Report /\ o # Away /\ UNCHANGED lampPolicy
  BY IInvGood DEF DInv, Good, Record, JudgeReturn, Available, Away, Cmd
<1>2. /\ settled \in Record /\ settled.base = rec.base /\ settled.layers = rec.layers
      /\ settled.last = rec.last /\ settled.observed = o
  BY <1>1 DEF Record, Owed
<1>3. o.state \in {"on", "off"}
  BY <1>1, ReportsOnOff
<1>4. decision \in {"record", "nothing", "send", "external"}
  BY <1>3 DEF DecideReturn
<1>5. rec' = [seen EXCEPT !.atDrop = Away]
  BY DEF JudgeReturn
<1> HIDE DEF settled, chosen, off
<1>6. recorded \in Record /\ recorded.last = rec.last
  <2>1. ObservedToCommand(o) \in Command
    BY <1>1, ObservedType
  <2> QED BY <1>2, <2>1 DEF RecordObservedAsBase, Record
<1>7. /\ lampPolicy \in Policies
      /\ lampPolicy # "edit_active" \/ \A i, j \in Id : i = j
  BY OptionType DEF DInv, IInv, TypeOK, Editable
<1>8. Everything \in Take /\ "state" \in Everything /\ "device" \in ChangeSource
  BY TakeTypes, TakesState DEF ChangeSource
<1>9. judged.last.policy \in Acts(lampPolicy) /\ judged.last.groups = Everything
  BY <1>2, <1>3, <1>7, <1>8, JudgedDecides
<1>10. judged \in Record
  BY <1>2, <1>7, <1>8, JudgedQuiet DEF Becomes
<1> HIDE DEF decision, judged, recorded
<1>11. /\ done \in Record
       /\ done.last = rec.last \/ (decision = "external" /\ done.last = judged.last)
       /\ decision \in {"nothing", "send"} => Leaves(rec, done)
  <2>1. /\ decision = "record" => done = recorded
        /\ decision = "nothing" => done = settled
        /\ decision = "send" => done = rec
        /\ decision = "external" => done = judged
    OBVIOUS
  <2> HIDE DEF done
  <2>2. Leaves(rec, settled) /\ Leaves(rec, rec)
    BY <1>2, SameLeaves
  <2> QED BY <1>1, <1>2, <1>4, <1>6, <1>10, <2>1, <2>2
<1> HIDE DEF done
<1>12. seen \in Record /\ Leaves(done, seen) /\ seen.last = done.last
  BY <1>11, SeenOffLeaves, SeenOffQuiet DEF Becomes
<1> HIDE DEF seen
<1>13. rec'.base = seen.base /\ rec'.layers = seen.layers /\ rec'.last = seen.last
  BY <1>5, <1>12 DEF Record
<1>14. CASE decision = "external"
  <2>1. decided' = "none"
    BY <1>14 DEF decision
  <2>2. \/ Ages(rec.last, rec'.last)
        \/ /\ rec'.last.policy \in Acts(lampPolicy) /\ rec'.last.groups = Everything
    BY <1>9, <1>11, <1>12, <1>13 DEF Ages
  <2>3. "replay" \notin Acts(lampPolicy)
    BY <1>7 DEF Acts, Policies
  <2> QED BY <1>1, <1>8, <2>1, <2>2, <2>3, AgingStands DEF Stands, LastFits
<1>15. CASE decision # "external"
  <2>1. Ages(rec.last, rec'.last)
    BY <1>11, <1>12, <1>13, <1>15 DEF Ages
  <2>2. decided' # "none" => decision \in {"nothing", "send"}
    BY <1>4, <1>15 DEF decision
  <2>3. decided' \in {"none", decided}
    OBVIOUS
  <2>4. decided' # "none" => Leaves(rec, rec')
    BY <1>11, <1>12, <1>13, <2>2, SameLeaves, LeavesCompose
  <2> QED BY <1>1, <2>1, <2>3, <2>4, AgingStands
<1> QED BY <1>14, <1>15

\* A replay decides nothing (_replay).
LEMMA ReplayStands ==
  ASSUME DInv, DReplay
  PROVE  Stands'
<1>1. rec \in Record /\ UNCHANGED lampPolicy /\ decided' = "none"
  BY IInvGood DEF DInv, Good, DReplay, Replay, ReplayReported, ReplayHeard
<1>2. ASSUME NEW r \in Record, NEW shown, NEW groups, NEW source, "state" \in groups,
             rec' = ApplyReplay(r, shown, groups, source)
      PROVE  Stands'
  <2>1. rec'.last.policy = "replay" /\ rec'.last.groups = groups
    BY <1>2 DEF ApplyReplay, Record
  <2> QED BY <1>1, <1>2, <2>1 DEF Stands, LastFits
<1>3. ASSUME NEW o \in Reports, NEW named \in Named, NEW source \in Sources \ {"device"},
             ReplayReported(o, named, source)
      PROVE  Stands'
  <2> DEFINE r == [Showing(rec, o) EXCEPT !.atDrop = Away]
  <2>1. r \in Record
    <3>1. Showing(rec, o) \in Record
      BY <1>1, ShowingQuiet, LampAssumption DEF Becomes
    <3> QED BY <3>1, ConstantCommands DEF Record
  <2>2. rec' = ApplyReplay(r, ObservedToCommand(o), CallGroups(named, rec.observed, o), source)
    BY <1>3 DEF ReplayReported
  <2> HIDE DEF r
  <2> QED BY <1>2, <2>1, <2>2, TakesState
<1>4. ASSUME NEW cmd \in Calls, NEW source \in Sources \ {"device"},
             ReplayHeard(cmd, source)
      PROVE  Stands'
  BY <1>1, <1>2, <1>4 DEF ReplayHeard
<1> QED BY <1>3, <1>4 DEF DReplay, Replay

\* What a person does is decided, where the policy lets it be.
LEMMA PersonStands ==
  ASSUME DInv, Editable, DPerson
  PROVE  Stands'
<1>1. ASSUME NEW o \in Reports, NEW before \in Reports, NEW named \in Named \cup {Everything},
             NEW source \in Sources, ChangeReported(o, before, named, source),
             decided' = Decided(o.state)
      PROVE  Stands'
  <2>1. o.state \in {"on", "off"}
    BY ReportsOnOff, LampAssumption
  <2>2. UNCHANGED lampPolicy
    BY <1>1 DEF ChangeReported
  <2> QED BY <1>1, <2>1, <2>2, ChangeReportedTaken, DecidingStands DEF DInv
<1>2. ASSUME NEW cmd \in Calls, NEW source \in Sources \ {"device"}, CallHeard(cmd, source),
             decided' = Decided(cmd.state)
      PROVE  Stands'
  <2>1. cmd.state \in {"on", "off"}
    BY LampAssumption DEF Command
  <2>2. UNCHANGED lampPolicy
    BY <1>2 DEF CallHeard
  <2> QED BY <1>2, <2>1, <2>2, CallHeardTaken, DecidingStands DEF DInv
<1> QED BY <1>1, <1>2, FollowUpStands, JudgeReturnStands DEF DPerson

\* Every step is one of LampRecord's.
LEMMA DStep == DNext => Next
BY DEF DNext, DOwner, DPerson, DRest, DReplay, Next, Owner, PersonActs

\* What is remembered of a person keeps its type.
LEMMA MemoryTypes ==
  ASSUME DTypeOK, DNext
  PROVE  decided' \in {"none", "on", "off"} /\ chose' \in Level \cup {NoValue}
<1>1. \A o \in Reports : o.state \in {"on", "off"} /\ o.bri \in Level \cup {NoValue}
  BY ReportsOnOff, LampAssumption DEF Report
<1>2. \A c \in Calls : c.state \in {"on", "off"} /\ c.bri \in Level \cup {NoValue}
  BY LampAssumption DEF Command
<1>3. decided \in {"none", "on", "off"} /\ chose \in Level \cup {NoValue}
  BY DEF DTypeOK
<1>4. CASE DOwner
  BY <1>3, <1>4 DEF DOwner
<1>5. CASE DPerson
  BY <1>1, <1>2, <1>3, <1>5 DEF DPerson, Decided
<1>6. CASE DRest \/ DReplay
  BY <1>3, <1>6 DEF DRest, DReplay
<1> QED BY <1>4, <1>5, <1>6 DEF DNext

\* What holds at the start.
LEMMA DInitGood == DInit => DInv
<1> SUFFICES ASSUME DInit PROVE DInv
  OBVIOUS
<1>1. IInv
  BY InitGood DEF DInit
<1>2. rec.last.policy = "none"
  BY DEF DInit, Init, NewRecord, Forgotten
<1> QED BY <1>1, <1>2 DEF DInit, DInv, Stands, LastFits

\* Every step keeps it.
LEMMA DStepGood ==
  ASSUME Editable
  PROVE  DInv /\ [DNext]_dvars => DInv'
<1> SUFFICES ASSUME DInv, [DNext]_dvars PROVE DInv'
  OBVIOUS
<1>1. CASE UNCHANGED dvars
  BY <1>1 DEF dvars, vars, DInv, Stands, LastFits, IInv, TypeOK, PriorityUnique,
             BarredNotHeld
<1>2. CASE DNext
  <2>1. IInv'
    BY <1>2, DStep, StepGood DEF DInv
  <2>2. Stands'
    BY <1>2, OwnerStands, PersonStands, RestStands, ReplayStands DEF DNext
  <2>3. DTypeOK
    BY DEF DTypeOK, DInv, IInv
  <2> QED BY <1>2, <2>1, <2>2, <2>3, MemoryTypes DEF DInv
<1> QED BY <1>1, <1>2

\* The invariant, with a brightness chosen by hand.
Keeps == chose # NoValue => Chose(rec, chose)

CInv == DInv /\ Keeps

\* On take_back lamps a chosen brightness is kept.
LEMMA StepKeeps ==
  ASSUME LampPolicies \subseteq {"take_back"}, Editable, CInv, DNext
  PROVE  Keeps'
<1>1. IInv /\ lampPolicy = "take_back"
  BY DEF CInv, DInv, IInv, TypeOK
<1>2. ASSUME chose' # NoValue => chose' = chose /\ Leaves(rec, rec') /\ Grips(rec, rec')
      PROVE  Keeps'
  BY <1>2, LeavesChose DEF CInv, Keeps
<1>3. CASE DOwner
  <2>1. ASSUME NEW req \in Requests, SetLayer(req),
               chose' = IF OwnerDecides(req) THEN NoValue ELSE chose
        PROVE  Keeps'
    <3>1. chose # NoValue => rec.base # Nothing
      BY DEF CInv, Keeps, Chose, Nothing, Cmd
    <3> QED BY <1>1, <1>2, <2>1, <3>1, SetLayerLeaves
  <2>2. ASSUME Sync, UNCHANGED chose
        PROVE  Keeps'
    <3>1. rec'.base = rec.base /\ rec'.layers = rec.layers
      BY <1>1, <2>2, IInvGood DEF Sync, Good, Record
    <3> QED BY <1>2, <2>2, <3>1, SameLeaves
  <2> QED BY <1>2, <1>3, <2>1, <2>2 DEF DOwner
<1>4. CASE DPerson
  <2>1. ASSUME NEW o \in Reports, NEW before \in Reports, NEW named \in Named \cup {Everything},
               NEW source \in Sources, ChangeReported(o, before, named, source),
               chose' = IF /\ o.state = "on"
                           /\ Chosen(named, before, o) # Everything
                           /\ "brightness" \in Chosen(named, before, o)
                           /\ "brightness" \in rec'.last.groups
                        THEN o.bri ELSE NoValue
        PROVE  Keeps'
    BY <1>1, <2>1, ChangeReportedTaken DEF Keeps
  <2>2. ASSUME NEW cmd \in Calls, NEW source \in Sources \ {"device"},
               CallHeard(cmd, source), chose' = cmd.bri
        PROVE  Keeps'
    BY <1>1, <2>2, CallHeardTaken DEF Keeps
  <2> QED BY <1>2, <1>4, <2>1, <2>2 DEF DPerson
<1>5. CASE DRest
  BY <1>1, <1>2, <1>5, SurroundingsLeaves, ClockLeaves DEF DRest
<1>6. CASE DReplay
  BY <1>2, <1>6 DEF DReplay
<1> QED BY <1>3, <1>4, <1>5, <1>6 DEF DNext

-----------------------------------------------------------------------------
(* Theorems *)

\* The memory only watches: a lamp with it does what a lamp does (LampRecord),
\* so all that is proved of LampRecord holds of LampDecision.
THEOREM MemoryWatches == DSpec => Spec
<1>1. DInit => Init
  BY DEF DInit
<1>2. [DNext]_dvars => [Next]_vars
  BY DStep DEF dvars
<1> QED BY <1>1, <1>2, PTL DEF DSpec, Spec

\* The inductive invariant holds throughout, where edit_active is left out or
\* meets one layer only.
THEOREM DecisionInvariance ==
  ASSUME "edit_active" \notin LampPolicies \/ \A i, j \in Id : i = j
  PROVE  DSpec => []DInv
<1>1. Editable
  BY DEF Editable
<1>2. DInv /\ [DNext]_dvars => DInv'
  BY <1>1, DStepGood
<1> QED BY <1>2, DInitGood, PTL DEF DSpec

\* Whatever anyone does under whatever policy, the record and the memory keep
\* their types (apply_external, set_layer).
THEOREM DecisionTypeCorrect == DSpec => []DTypeOK
<1> DEFINE TInv == IInv /\ DTypeOK
<1>1. DInit => TInv
  BY DInitGood DEF DInv, IInv, DTypeOK
<1>2. TInv /\ [DNext]_dvars => TInv'
  <2> SUFFICES ASSUME TInv, [DNext]_dvars PROVE TInv'
    OBVIOUS
  <2>1. CASE UNCHANGED dvars
    BY <2>1 DEF dvars, vars, IInv, TypeOK, DTypeOK, PriorityUnique, BarredNotHeld
  <2>2. CASE DNext
    <3>1. IInv'
      BY <2>2, DStep, StepGood
    <3>2. decided' \in {"none", "on", "off"} /\ chose' \in Level \cup {NoValue}
      BY <2>2, MemoryTypes
    <3>3. TypeOK'
      BY <3>1 DEF IInv
    <3> QED BY <3>1, <3>2, <3>3 DEF DTypeOK
  <2> QED BY <2>1, <2>2
<1>3. TInv => DTypeOK
  OBVIOUS
<1> QED BY <1>1, <1>2, <1>3, PTL DEF DSpec

\* Once a person has turned the lamp on or off, Layers wants it so until an
\* owner acts or the lamp's return is judged: no renewal, attribute tail,
\* expiry, followed entity or late writer undoes it (apply_external, take_back,
\* expire).  With edit_active and two layers it does not hold.
THEOREM DecisionsStand ==
  ASSUME "edit_active" \notin LampPolicies \/ \A i, j \in Id : i = j
  PROVE  DSpec => []DecisionHolds
<1>1. DInv => DecisionHolds
  <2> SUFFICES ASSUME DInv, decided # "none" PROVE EffectiveNow(rec).state = decided
    BY DEF DecisionHolds
  <2>1. rec \in Record /\ decided \in {"on", "off"} /\ Upholds(rec, decided)
    BY IInvGood DEF DInv, Stands, Good
  <2> QED BY <2>1, UpheldIsWanted
<1> QED BY <1>1, DecisionInvariance, PTL

\* Clearing layers never undoes a decision, because it reached the base
\* (apply_external, edit_active).
THEOREM ClearingKeepsDecisions ==
  ASSUME "edit_active" \notin LampPolicies \/ \A i, j \in Id : i = j
  PROVE  DSpec => ClearKeepsDecision
<1>1. ASSUME DInv, decided # "none", NEW target \in Targets, ClearLayer(target)
      PROVE  EffectiveNow(rec').state = decided
  <2>1. Good(rec) /\ decided \in {"on", "off"} /\ Upholds(rec, decided)
    BY <1>1, IInvGood DEF DInv, Stands
  <2>2. rec' \in Record /\ Leaves(rec, rec')
    BY <1>1, <2>1, ApplyClearQuiet, ApplyClearLeaves DEF ClearLayer, Becomes, Good
  <2> QED BY <2>1, <2>2, LeavesUpholds, UpheldIsWanted
<1>2. DInv /\ [DNext]_dvars =>
        [decided # "none" /\ (\E target \in Targets : ClearLayer(target))
         => EffectiveNow(rec').state = decided]_dvars
  BY <1>1
<1> QED BY <1>2, DecisionInvariance, PTL DEF ClearKeepsDecision, DSpec

\* On take_back lamps a brightness set by hand is the one Layers wants until
\* the lamp is off, the take-over runs out or an owner acts (_take_over).
THEOREM ChoicesStand ==
  ASSUME LampPolicies \subseteq {"take_back"}
  PROVE  DSpec => []ChoiceHolds
<1>1. Editable
  BY DEF Editable
<1>2. DInit => CInv
  BY DInitGood DEF CInv, Keeps, DInit
<1>3. CInv /\ [DNext]_dvars => CInv'
  <2>1. CInv /\ DNext => Keeps'
    BY <1>1, StepKeeps
  <2>2. CInv /\ UNCHANGED dvars => Keeps'
    BY DEF CInv, Keeps, dvars, vars
  <2> QED BY <1>1, <2>1, <2>2, DStepGood DEF CInv
<1>4. CInv => ChoiceHolds
  BY IInvGood, ChosenIsWanted DEF CInv, Keeps, DInv, ChoiceHolds, Good
<1> QED BY <1>2, <1>3, <1>4, PTL DEF DSpec
=============================================================================
