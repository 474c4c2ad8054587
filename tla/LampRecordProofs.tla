-------------------------- MODULE LampRecordProofs --------------------------
(***************************************************************************)
(* Proofs about LampRecord, for every lamp, policy, set of requests and    *)
(* set of happenings: each handler is a composition of what PolicyProofs   *)
(* shows of the policy.  In three parts: the invariant, what a lamp shows  *)
(* after a person's change, and who holds the lamp.                        *)
(***************************************************************************)
EXTENDS LampRecord, PolicyProofs

-----------------------------------------------------------------------------
(* The handlers *)

\* The inductive invariant.
IInv == TypeOK /\ PriorityUnique /\ BarredNotHeld

\* The invariant says of the lamp's record that it is good.
LEMMA IInvGood == IInv <=> /\ Good(rec)
                          /\ feed \in [Source -> {c \in Command : c.state = "none"} \cup {Away}]
                          /\ returning \in BOOLEAN
                          /\ lampPolicy \in LampPolicies
BY DEF IInv, Good, TypeOK, PriorityUnique, BarredNotHeld, UniqueIn, BarredIn

\* The lamp's option is one of the four policies.
LEMMA OptionType == IInv => lampPolicy \in Policies
BY IInvGood, LampAssumption

\* Reading the sources puts no layer in force (_read_sources).
LEMMA ReadSourcesQuiet ==
  ASSUME IInv, NEW r \in Record
  PROVE  Becomes(r, [r EXCEPT !.layers = ReadSources(@)])
<1> DEFINE S == {i \in Id : /\ Present(r.layers, i)
                           /\ r.layers[i].mode = "follow"
                           /\ r.layers[i].source # NoSource
                           /\ feed[r.layers[i].source] # Away}
           f == [i \in Id |-> IF i \in S THEN feed[r.layers[i].source] ELSE Nothing]
           layers == ReadSources(r.layers)
<1>1. \A i \in S : r.layers[i].source \in Source
  BY DEF Record, Layer, Present
<1>2. f \in [Id -> Command]
  BY <1>1, ConstantCommands DEF IInv, TypeOK
<1>3. layers = [i \in Id |-> IF i \in S
                             THEN [r.layers[i] EXCEPT !.command = f[i]]
                             ELSE r.layers[i]]
  BY DEF ReadSources
<1>4. \A i \in S : r.layers[i] # NoLayer
  BY DEF Present
<1>5. S \in SUBSET Id
  OBVIOUS
<1> HIDE DEF S, f, layers
<1>6. Becomes(r, [r EXCEPT !.layers = layers])
  BY <1>2, <1>3, <1>4, <1>5, FedQuiet
<1> QED BY <1>6 DEF layers

\* layers.set keeps the invariant (set_layer).
LEMMA SetLayerStep ==
  ASSUME IInv, NEW req \in Requests, SetLayer(req)
  PROVE  Good(rec')
<1> DEFINE out == ApplySet(LearnBase(rec), req)
<1>1. Good(LearnBase(rec))
  BY IInvGood, LearnBaseQuiet, GoodKept DEF Good
<1>2. Good(out.rec)
  BY <1>1, ApplySetIsGood, LampAssumption
<1> HIDE DEF out
<1>3. Good([out.rec EXCEPT !.layers = ReadSources(@)])
  BY <1>2, ReadSourcesQuiet, GoodKept DEF Good
<1> QED BY <1>2, <1>3 DEF SetLayer, out

\* A report of someone's change keeps the invariant (_handle_state).
LEMMA ChangeReportedStep ==
  ASSUME IInv, NEW o \in Reports, NEW before \in Reports,
         NEW named \in Named \cup {Everything}, NEW source \in Sources,
         ChangeReported(o, before, named, source)
  PROVE  Good(rec')
<1>1. Good(Showing(rec, o))
  BY IInvGood, ShowingQuiet, GoodKept, LampAssumption DEF Good
<1>2. named # Everything => named \in SUBSET AttrGroup
  BY DEF Named
<1>3. PICK groups \in IF named = Everything THEN {Everything, ChangedGroups(before, o)}
                     ELSE {CallGroups(named, rec.observed, o)} :
        rec' = Judged(Showing(rec, o), groups, source, lampPolicy, Chosen(named, before, o))
  BY DEF ChangeReported
<1>4. groups \in Take
  BY <1>2, <1>3, TakeTypes
<1> QED BY <1>1, <1>3, <1>4, JudgedQuiet, GoodKept, OptionType, LampAssumption DEF Good

\* The tail of a change keeps the invariant (_follow_up).
LEMMA FollowUpStep ==
  ASSUME IInv, NEW o \in Reports, FollowUp(o)
  PROVE  Good(rec')
<1>1. /\ rec.last.groups \in Take
      /\ rec.last.source \in ChangeSource
      /\ rec.last.policy # "replay" => rec.last.policy \in Policies
  BY IInvGood DEF FollowUp, Good, Record, External
<1>2. Good(Showing(rec, o)) /\ o \in Report
  BY IInvGood, ShowingQuiet, GoodKept, LampAssumption DEF Good
<1>3. CASE rec.last.policy = "replay"
  <2> DEFINE r == [Showing(rec, o) EXCEPT !.atDrop = Away]
  <2>1. r \in Record
    BY <1>2, ConstantCommands DEF Good, Record
  <2>2. Good(r)
    BY <1>2, <2>1, SameLayers, GoodKept DEF Good, Record
  <2> HIDE DEF r
  <2>3. Good(ApplyReplay(r, ObservedToCommand(o), rec.last.groups, rec.last.source))
    BY <1>1, <1>2, <2>2, ApplyReplayQuiet, ObservedType, GoodKept DEF Good
  <2> QED BY <1>3, <2>3 DEF FollowUp, r
<1>4. CASE rec.last.policy # "replay"
  BY <1>1, <1>2, <1>4, JudgedQuiet, GoodKept DEF FollowUp, Good
<1> QED BY <1>3, <1>4

\* A foreign call acted on as it is heard keeps the invariant (_handle_call).
LEMMA CallHeardStep ==
  ASSUME IInv, NEW cmd \in Calls, NEW source \in Sources, CallHeard(cmd, source)
  PROVE  Good(rec')
<1> DEFINE named == IF cmd.state = "off" THEN {} ELSE Groups(cmd) \cap AttrGroup
           taken == ApplyExternal(Supersede(rec), cmd, named \cup {"state"}, source,
                                  lampPolicy, named)
           owed == IF EffectiveNow(taken) = Nothing THEN "nothing" ELSE "owed"
<1>1. Good(Supersede(rec))
  BY IInvGood, SupersedeQuiet, GoodKept DEF Good
<1>2. named \cup {"state"} \in Take
  BY TakeTypes
<1>3. Good(taken)
  BY <1>1, <1>2, ApplyExternalQuiet, GoodKept, OptionType, LampAssumption DEF Good
<1>4. owed \in Owed
  BY DEF Owed
<1> HIDE DEF taken, owed
<1>5. Good(SeenOffIf(taken, rec.observed.state = "off"))
  BY <1>3, SeenOffQuiet, GoodKept DEF Good
<1>6. [taken EXCEPT !.owed = owed] \in Record
  BY <1>3, <1>4 DEF Good, Record
<1>7. Good([taken EXCEPT !.owed = owed])
  BY <1>3, <1>6, SameLayers, GoodKept DEF Good, Record
<1> QED BY <1>5, <1>7 DEF CallHeard, taken, owed

\* Replays, seen or heard, keep the invariant (_replay).
LEMMA ReplayStep ==
  ASSUME IInv, Replay
  PROVE  Good(rec')
<1>1. Good(rec) /\ \A cmd \in Calls : cmd \in Command
  BY IInvGood, LampAssumption
<1>2. ASSUME NEW o \in Reports, NEW named \in Named, NEW source \in Sources,
             ReplayReported(o, named, source)
      PROVE  Good(rec')
  <2> DEFINE r == [Showing(rec, o) EXCEPT !.atDrop = Away]
  <2>1. Good(Showing(rec, o)) /\ o \in Report
    BY <1>1, ShowingQuiet, GoodKept, LampAssumption DEF Good
  <2>2. r \in Record
    BY <2>1, ConstantCommands DEF Good, Record
  <2>3. Good(r)
    BY <2>1, <2>2, SameLayers, GoodKept DEF Good, Record
  <2> HIDE DEF r
  <2>4. CallGroups(named, rec.observed, o) \in Take
    BY TakeTypes DEF Named
  <2>5. source \in ChangeSource
    BY LampAssumption
  <2>6. Good(ApplyReplay(r, ObservedToCommand(o), CallGroups(named, rec.observed, o), source))
    BY <2>1, <2>3, <2>4, <2>5, ApplyReplayQuiet, ObservedType, GoodKept DEF Good
  <2> QED BY <1>2, <2>6 DEF ReplayReported, r
<1>3. ASSUME NEW cmd \in Calls, NEW source \in Sources, ReplayHeard(cmd, source)
      PROVE  Good(rec')
  <2>1. (Groups(cmd) \cap AttrGroup) \cup {"state"} \in Take
    BY TakeTypes
  <2> QED BY <1>1, <1>3, <2>1, ApplyReplayQuiet, GoodKept, LampAssumption
          DEF ReplayHeard, Good
<1> QED BY <1>2, <1>3 DEF Replay

\* The decision on a lamp that came back keeps the invariant (_judge_return).
LEMMA JudgeReturnStep ==
  ASSUME IInv, JudgeReturn
  PROVE  Good(rec')
<1> DEFINE o == rec.observed
           decision == DecideReturn(rec, o)
           settled == [rec EXCEPT !.owed = "nothing"]
           judged == Judged(settled, Everything, "device", lampPolicy,
                            Chosen(Everything, rec.atDrop, o))
           recorded == RecordObservedAsBase(settled, o)
           decided ==
             CASE decision = "record" -> recorded
               [] decision = "nothing" -> settled
               [] decision = "send" -> rec
               [] decision = "external" -> judged
           seen == SeenOffIf(decided, o.state = "off")
<1>1. Good(rec) /\ o \in Report
  BY IInvGood DEF Good, Record
<1>2. settled \in Record
  BY <1>1 DEF Good, Record, Owed
<1>3. Good(settled)
  BY <1>1, <1>2, SameLayers, GoodKept DEF Good, Record
<1> HIDE DEF settled
<1>4. Good(judged)
  BY <1>3, TakeTypes, JudgedQuiet, GoodKept, OptionType, LampAssumption DEF Good, ChangeSource
<1>5. Good(recorded)
  BY <1>1, <1>3, ObservedType, BaseQuiet, GoodKept DEF Good, RecordObservedAsBase
<1>6. decision \in {"record", "nothing", "send", "external"}
  <2>1. o.state # "away"
    BY DEF JudgeReturn, Available
  <2> QED BY <2>1 DEF DecideReturn
<1> HIDE DEF decision, judged, recorded
<1>7. Good(decided)
  BY <1>1, <1>3, <1>4, <1>5, <1>6
<1> HIDE DEF decided
<1>8. Good(seen)
  BY <1>7, SeenOffQuiet, GoodKept DEF Good
<1> HIDE DEF seen
<1>9. [seen EXCEPT !.atDrop = Away] \in Record
  BY <1>8, ConstantCommands DEF Good, Record
<1>10. Good([seen EXCEPT !.atDrop = Away])
  BY <1>8, <1>9, SameLayers, GoodKept DEF Good, Record
<1> QED
  BY <1>10 DEF JudgeReturn, seen, decided, judged, recorded, settled, decision

\* Reports, drops, returns and followed entities keep the invariant.
LEMMA SurroundingsStep ==
  ASSUME IInv, Surroundings
  PROVE  Good(rec')
<1>1. Good(rec)
  BY IInvGood
<1>2. ASSUME NEW o \in Reports, NEW ours \in BOOLEAN, Reported(o, ours)
      PROVE  Good(rec')
  <2>1. Good(Showing(rec, o))
    BY <1>1, ShowingQuiet, GoodKept, LampAssumption DEF Good
  <2> QED BY <1>2, <2>1, SeenOffQuiet, GoodKept DEF Reported, Good
<1>3. CASE Drop
  <2>1. [Showing(rec, Away) EXCEPT !.atDrop = IF @ = Away THEN rec.observed ELSE @] \in Record
    BY <1>1, ConstantCommands DEF Showing, Good, Record
  <2> QED BY <1>1, <1>3, <2>1, SameLayers, GoodKept DEF Drop, Showing, Good, Record
<1>4. ASSUME NEW o \in Reports, ComeBack(o)
      PROVE  Good(rec')
  BY <1>1, <1>4, ShowingQuiet, GoodKept, LampAssumption DEF ComeBack, Good
<1>5. ASSUME NEW s \in Source, NEW values \in Feeds, SourceReports(s, values)
      PROVE  Good(rec')
  <2>1. CASE values = Away
    BY <1>1, <1>5, <2>1 DEF SourceReports
  <2>2. CASE values # Away
    <3> DEFINE S == {i \in Id : /\ Present(rec.layers, i)
                               /\ rec.layers[i].mode = "follow"
                               /\ rec.layers[i].source = s}
               f == [i \in Id |-> values]
               layers == [i \in Id |-> IF i \in S
                                      THEN [rec.layers[i] EXCEPT !.command = f[i]]
                                      ELSE rec.layers[i]]
    <3>1. f \in [Id -> Command]
      BY <2>2, LampAssumption
    <3>2. \A i \in S : rec.layers[i] # NoLayer
      BY DEF Present
    <3>3. Becomes(rec, [rec EXCEPT !.layers = layers])
      BY <1>1, <3>1, <3>2, FedQuiet DEF Good
    <3>4. rec' = [rec EXCEPT !.layers = layers]
      BY <1>5, <2>2 DEF SourceReports
    <3> QED BY <1>1, <3>3, <3>4, GoodKept
  <2> QED BY <2>1, <2>2
<1> QED BY <1>2, <1>3, <1>4, <1>5 DEF Surroundings

\* Time running out takes layers out of force, and keeps the invariant.
LEMMA RunOutStep ==
  ASSUME IInv, NEW i \in Id, RunOut(i)
  PROVE  Good(rec')
<1>1. /\ Good(rec)
      /\ rec.layers \in [Id -> Layer \cup {NoLayer}]
      /\ rec.tombs \in [Id -> Tomb \cup {NoTomb}]
  BY IInvGood DEF Good, Record
<1>2. ASSUME Present(rec.layers, i), NEW lay \in Layer, lay.prio = rec.layers[i].prio,
             lay.lease \in {rec.layers[i].lease, "over"},
             rec' = [rec EXCEPT !.layers[i] = lay]
      PROVE  Good(rec')
  <2> DEFINE layers == [rec.layers EXCEPT ![i] = lay]
  <2>1. layers \in [Id -> Layer \cup {NoLayer}]
    BY <1>1
  <2>2. \A j \in Id : layers[j] # NoLayer =>
          /\ rec.layers[j] # NoLayer
          /\ layers[j].prio = rec.layers[j].prio
          /\ layers[j].lease \in {rec.layers[j].lease, "over"}
    BY <1>1, <1>2 DEF Present
  <2>3. rec' = [rec EXCEPT !.layers = layers]
    BY <1>1, <1>2 DEF Good, Record
  <2> HIDE DEF layers
  <2> QED BY <1>1, <2>1, <2>2, <2>3, EditedLayers, GoodKept DEF Good
<1>3. CASE /\ Present(rec.layers, i)
           /\ rec' = [rec EXCEPT !.layers[i].lease = "over"]
  <2> DEFINE lay == [rec.layers[i] EXCEPT !.lease = "over"]
  <2>1. rec.layers[i] \in Layer
    BY <1>1, <1>3 DEF Present
  <2>2. lay \in Layer /\ lay.prio = rec.layers[i].prio /\ lay.lease = "over"
    BY <2>1 DEF Layer, Lease
  <2>3. rec' = [rec EXCEPT !.layers[i] = lay]
    BY <1>1, <1>3 DEF Good, Record
  <2> HIDE DEF lay
  <2> QED BY <1>2, <1>3, <2>2, <2>3
<1>4. CASE /\ Present(rec.layers, i)
           /\ rec' = [rec EXCEPT !.layers[i].manualLease = "over"]
  <2> DEFINE lay == [rec.layers[i] EXCEPT !.manualLease = "over"]
  <2>1. rec.layers[i] \in Layer
    BY <1>1, <1>4 DEF Present
  <2>2. lay \in Layer /\ lay.prio = rec.layers[i].prio /\ lay.lease = rec.layers[i].lease
    BY <2>1 DEF Layer, Lease
  <2>3. rec' = [rec EXCEPT !.layers[i] = lay]
    BY <1>1, <1>4 DEF Good, Record
  <2> HIDE DEF lay
  <2> QED BY <1>2, <1>4, <2>2, <2>3
<1>5. CASE /\ rec.tombs[i] # NoTomb
           /\ rec' = [rec EXCEPT !.tombs[i].lease = "over"]
  <2>1. rec.tombs[i] \in Tomb
    BY <1>1, <1>5
  <2>2. [rec.tombs[i] EXCEPT !.lease = "over"] \in Tomb
    BY <2>1 DEF Tomb, Lease
  <2>3. rec' \in Record
    BY <1>1, <1>5, <2>2 DEF Good, Record
  <2>4. rec'.layers = rec.layers
    BY <1>1, <1>5 DEF Good, Record
  <2>5. \A j \in Id : LiveTomb(rec', j) => LiveTomb(rec, j)
    BY <1>1, <1>5, <2>1 DEF LiveTomb, Good, Record, Tomb
  <2>6. Becomes(rec, rec')
    BY <2>3, <2>4, <2>5 DEF Becomes, Quiet, Live
  <2> QED BY <1>1, <2>6, GoodKept
<1> QED BY <1>3, <1>4, <1>5 DEF RunOut

\* Timers, windows and the renderer keep the invariant.
LEMMA ClockStep ==
  ASSUME IInv, Clock
  PROVE  Good(rec')
<1>1. Good(rec) /\ Shown(rec) \in Report
  BY IInvGood DEF Good, Record, Shown
<1>2. CASE ExpireLamp
  <2>1. Good(Expire(rec, Shown(rec)))
    BY <1>1, ExpireQuiet, GoodKept DEF Good
  <2> QED BY <1>2, <2>1, ReleaseManualQuiet, GoodKept DEF ExpireLamp, Good
<1>3. CASE Forget
  <2>1. PICK last \in External, owed \in Owed, changed \in BOOLEAN :
          rec' = [rec EXCEPT !.last = last, !.owed = owed, !.changed = changed]
    <3>1. /\ rec.last \in External /\ rec.owed \in Owed /\ rec.changed \in BOOLEAN
          /\ rec = [rec EXCEPT !.last = rec.last, !.owed = rec.owed,
                              !.changed = rec.changed]
      BY <1>1 DEF Good, Record
    <3>2. Forgotten \in External /\ "old" \in Owed
      BY DEF Forgotten, External, Owed, Take, ChangeSource
    <3>3. CASE rec' = [rec EXCEPT !.last = Forgotten]
      <4>1. rec' = [rec EXCEPT !.last = Forgotten, !.owed = rec.owed, !.changed = rec.changed]
        BY <1>1, <3>3 DEF Good, Record
      <4> QED BY <3>1, <3>2, <4>1
    <3>4. CASE rec' = [rec EXCEPT !.owed = "old"]
      <4>1. rec' = [rec EXCEPT !.last = rec.last, !.owed = "old", !.changed = rec.changed]
        BY <1>1, <3>4 DEF Good, Record
      <4> QED BY <3>1, <3>2, <4>1
    <3>5. CASE rec' = [rec EXCEPT !.changed = FALSE]
      <4>1. rec' = [rec EXCEPT !.last = rec.last, !.owed = rec.owed, !.changed = FALSE]
        BY <1>1, <3>5 DEF Good, Record
      <4> QED BY <3>1, <4>1
    <3> QED BY <1>3, <3>3, <3>4, <3>5 DEF Forget
  <2>2. rec' \in Record
    BY <1>1, <2>1 DEF Good, Record
  <2> QED BY <1>1, <2>1, <2>2, SameLayers, GoodKept DEF Good, Record
<1>4. CASE RendererWrites
  <2>1. Past(rec.last) \in External
    BY <1>1, PastType DEF Good, Record
  <2>2. rec.diverged \in Divergence
    BY <1>1 DEF Good, Record
  <2>3. \A d \in {"none", "colour", "delivery", "unsynced", rec.diverged} : d \in Divergence
    BY <2>2 DEF Divergence
  <2>4. CASE rec' = [rec EXCEPT !.owed = "owed", !.last = Past(@)]
    <3>1. rec' \in Record /\ rec'.layers = rec.layers /\ rec'.tombs = rec.tombs
      BY <1>1, <2>1, <2>4 DEF Good, Record, Owed
    <3> QED BY <1>1, <3>1, SameLayers, GoodKept DEF Good
  <2>5. ASSUME NEW d \in {"none", "colour", "delivery", "unsynced", rec.diverged},
               rec' = [rec EXCEPT !.owed = "nothing", !.diverged = d]
        PROVE  Good(rec')
    <3>1. d \in Divergence
      BY <2>3
    <3>2. rec' \in Record /\ rec'.layers = rec.layers /\ rec'.tombs = rec.tombs
      BY <1>1, <2>5, <3>1 DEF Good, Record, Owed
    <3> QED BY <1>1, <3>2, SameLayers, GoodKept DEF Good
  <2> QED BY <1>4, <2>4, <2>5 DEF RendererWrites
<1> QED BY <1>2, <1>3, <1>4, RunOutStep DEF Clock

\* Whatever an owner does keeps the invariant.
LEMMA OwnerStep ==
  ASSUME IInv, Owner
  PROVE  Good(rec')
<1>1. Good(rec)
  BY IInvGood
<1>2. ASSUME NEW target \in Targets, ClearLayer(target)
      PROVE  Good(rec')
  BY <1>1, <1>2, ApplyClearQuiet, GoodKept DEF ClearLayer, Good
<1>3. CASE Sync
  <2> DEFINE d == IF rec.diverged \in {"manual_keep", "unsynced"} THEN "none"
                  ELSE rec.diverged
  <2>1. d \in Divergence
    BY <1>1 DEF Good, Record, Divergence
  <2>2. rec' = [rec EXCEPT !.diverged = d]
    BY <1>3 DEF Sync
  <2> HIDE DEF d
  <2> QED BY <1>1, <2>1, <2>2, DivergedQuiet, GoodKept DEF Good
<1> QED BY <1>2, <1>3, SetLayerStep DEF Owner

\* Whatever a person does keeps the invariant.
LEMMA PersonStep ==
  ASSUME IInv, PersonActs
  PROVE  Good(rec')
BY ChangeReportedStep, FollowUpStep, CallHeardStep, JudgeReturnStep DEF PersonActs

\* What a followed entity gives and whether the lamp is returning keep their
\* types.
LEMMA RestTypes ==
  ASSUME IInv, [Next]_vars
  PROVE  /\ feed' \in [Source -> {c \in Command : c.state = "none"} \cup {Away}]
         /\ returning' \in BOOLEAN
         /\ lampPolicy' \in LampPolicies
<1>1. /\ feed \in [Source -> {c \in Command : c.state = "none"} \cup {Away}]
      /\ returning \in BOOLEAN
      /\ lampPolicy \in LampPolicies
  BY DEF IInv, TypeOK
<1>2. CASE Owner
  BY <1>1, <1>2 DEF Owner, SetLayer, ClearLayer, Sync
<1>3. CASE PersonActs
  BY <1>1, <1>3 DEF PersonActs, ChangeReported, FollowUp, CallHeard, JudgeReturn
<1>4. CASE Replay
  BY <1>1, <1>4 DEF Replay, ReplayReported, ReplayHeard
<1>5. CASE Surroundings
  BY <1>1, <1>5, LampAssumption DEF Surroundings, Reported, Drop, ComeBack, SourceReports
<1>6. CASE Clock
  BY <1>1, <1>6 DEF Clock, ExpireLamp, RunOut, Forget, RendererWrites
<1>7. CASE UNCHANGED vars
  BY <1>1, <1>7 DEF vars
<1> QED BY <1>2, <1>3, <1>4, <1>5, <1>6, <1>7 DEF Next

\* A new record satisfies the invariant.
LEMMA InitGood == Init => IInv
<1> SUFFICES ASSUME Init PROVE IInv
  OBVIOUS
<1>1. PICK o \in Reports \cup {Away} : rec = NewRecord(o)
  BY DEF Init
<1>2. o \in Report
  BY ConstantCommands, LampAssumption
<1>3. Forgotten \in External
  BY DEF Forgotten, External, Take, ChangeSource
<1>4. rec \in Record
  BY <1>1, <1>2, <1>3, ConstantCommands DEF NewRecord, Record, Owed, Divergence
<1>5. Live(rec.layers) = {}
  BY <1>1 DEF NewRecord, Live, Present
<1>6. /\ feed \in [Source -> {c \in Command : c.state = "none"} \cup {Away}]
      /\ returning \in BOOLEAN
      /\ lampPolicy \in LampPolicies
  BY LampAssumption DEF Init
<1> QED BY <1>4, <1>5, <1>6 DEF IInv, TypeOK, PriorityUnique, BarredNotHeld

\* Every step keeps the invariant.
LEMMA StepGood == IInv /\ [Next]_vars => IInv'
<1> SUFFICES ASSUME IInv, [Next]_vars PROVE IInv'
  OBVIOUS
<1>1. Good(rec')
  <2>1. CASE UNCHANGED vars
    BY <2>1, IInvGood DEF vars
  <2> QED BY <2>1, OwnerStep, PersonStep, ReplayStep, SurroundingsStep, ClockStep DEF Next
<1>2. /\ feed' \in [Source -> {c \in Command : c.state = "none"} \cup {Away}]
      /\ returning' \in BOOLEAN
      /\ lampPolicy' \in LampPolicies
  BY RestTypes
<1> QED
  BY <1>1, <1>2 DEF IInv, Good, TypeOK, PriorityUnique, BarredNotHeld, UniqueIn, BarredIn

-----------------------------------------------------------------------------
(* What a lamp shows after a person's change *)

\* Keeping the layers over the new base leaves what they decide shown, or known
\* not to be (base_keep_layers).
LEMMA BaseKeepShown ==
  ASSUME NEW r \in Record, NEW groups, "state" \in groups,
         SilentFollows(r.layers), Available(r), TellsAll(r.observed)
  PROVE  LET q == BaseKeep(r, ObservedToCommand(r.observed), groups)
         IN /\ SilentFollows(q.layers)
            /\ \/ Shows(q, EffectiveNow(q)) # "no"
               \/ q.diverged \in {"partial", "manual_keep"}
<1> DEFINE o == r.observed
           merged == Merge(r.base, ObservedToCommand(o), groups)
           kept == [r EXCEPT !.base = merged]
           q == BaseKeep(r, ObservedToCommand(o), groups)
           hidden == /\ EditableLayer(kept.base, kept.layers) # NoId
                     /\ Shows(kept, EffectiveNow(kept)) = "no"
           d == CASE hidden -> "manual_keep"
                  [] ~hidden /\ Partial(kept, groups) -> "partial"
                  [] OTHER -> "none"
<1>1. o \in Report /\ merged \in Command /\ kept \in Record
  BY ObservedType, MergeType DEF Record
<1>2. kept.base = merged /\ kept.layers = r.layers /\ kept.observed = o
  BY DEF Record
<1>3. q = [kept EXCEPT !.diverged = d]
  BY DEF BaseKeep
<1> HIDE DEF kept, merged, o, d, hidden
<1>4. /\ q.layers = kept.layers /\ q.base = kept.base /\ q.observed = o
      /\ q.diverged = d
  BY <1>1, <1>2, <1>3 DEF Record
<1> HIDE DEF q
<1>5. EffectiveNow(q) = EffectiveNow(kept)
  BY <1>4 DEF EffectiveNow
<1>6. Shows(q, EffectiveNow(q)) = Shows(kept, EffectiveNow(kept))
  BY <1>2, <1>4, <1>5, ShowsSame
<1>7. SilentFollows(q.layers)
  BY <1>2, <1>4
<1>8. CASE hidden
  <2>1. d = "manual_keep"
    BY <1>8 DEF d
  <2> QED BY <1>4, <1>7, <2>1 DEF q, o
<1>9. CASE ~hidden /\ Partial(kept, groups)
  <2>1. d = "partial"
    BY <1>9 DEF d
  <2> QED BY <1>4, <1>7, <2>1 DEF q, o
<1>10. CASE Shows(kept, EffectiveNow(kept)) # "no"
  BY <1>6, <1>7, <1>10 DEF q, o
<1>11. CASE /\ EditableLayer(kept.base, kept.layers) = NoId
            /\ ~Partial(kept, groups)
  <2>1. merged.state = o.state /\ o.state \in {"on", "off"}
    <3>1. o.state \in {"on", "off"}
      BY <1>1 DEF Report, Available, o
    <3>2. ObservedToCommand(o).state = o.state
      BY <3>1 DEF ObservedToCommand, OffCommand, Cmd
    <3> QED BY <3>1, <3>2 DEF Merge, Groups, Group, Cmd, OffCommand, merged
  <2>2. merged.state = "off" => merged = OffCommand
    BY <1>1 DEF Command, OffCommand, Cmd
  <2>3. EffectiveNow(kept) = merged
    BY <1>1, <1>2, <1>11, <2>1, <2>2, BaseIsWanted
  <2>4. \/ groups = Everything
        \/ merged.state # "on"
        \/ Shows(r, Rest(merged, groups)) # "no"
    BY <1>2, <1>11, <2>3, ShowsSame DEF Partial, o
  <2>5. r.base \in Command
    BY DEF Record
  <2>6. Shows(r, merged) # "no"
    BY <2>4, <2>5, MergedIsShown DEF merged, o
  <2>7. Shows(kept, merged) = Shows(r, merged)
    BY <1>2, ShowsSame DEF o
  <2> QED BY <1>6, <1>7, <2>3, <2>6, <2>7 DEF q, o
<1> QED BY <1>8, <1>9, <1>10, <1>11 DEF hidden

-----------------------------------------------------------------------------
(* Theorems *)

\* The inductive invariant holds throughout, for every lamp.
THEOREM Invariance == Spec => []IInv
BY InitGood, StepGood, PTL DEF Spec

\* Every handler, in any order, leaves a well-formed record: the edits of
\* policy.py never make a layer of a missing one, an off with attributes, or a
\* tombstone without a lease.
THEOREM TypeCorrect == Spec => []TypeOK
<1>1. IInv => TypeOK
  BY DEF IInv
<1> QED BY <1>1, Invariance, PTL

\* No two live layers of a lamp ever share a priority (_check_priority), so the
\* code's tie-break by age is never needed and the stack has one order.
THEOREM StackIsOrdered == Spec => []PriorityUnique
<1>1. IInv => PriorityUnique
  BY DEF IInv
<1> QED BY <1>1, Invariance, PTL

\* A layer id is never in force while a live tombstone bars it, whatever its
\* owner sends (_set_named_layer, _drop_all).
THEOREM TombstonesHold == Spec => []BarredNotHeld
<1>1. IInv => BarredNotHeld
  BY DEF IInv
<1> QED BY <1>1, Invariance, PTL


\* A dark lamp an expiry was held back from lighting is not wanted on
\* afterwards either (expire, expire_lamp).
THEOREM ExpiryKeepsDark == Spec => HeldBackStaysDark
<1>1. ASSUME IInv, ExpireLamp, HeldBack(rec, Shown(rec)), Shown(rec).state # "on"
      PROVE  EffectiveNow(rec').state # "on"
  <2>1. rec \in Record /\ Shown(rec) \in Report
    BY <1>1, IInvGood DEF Good, Record, Shown
  <2>2. rec' = ReleaseManual(Expire(rec, Shown(rec)), FALSE)
    BY <1>1 DEF ExpireLamp
  <2> QED BY <1>1, <2>1, <2>2, HeldBackWantsDark
<1> QED BY <1>1, Invariance, PTL DEF HeldBackStaysDark

\* After a person's change the lamp shows what it is meant to show, or the
\* record says that it does not: for every lamp that reports what it can be
\* sent, and every policy that takes the change (apply_external, _partial).
\* The proviso is what the code needs: a base that keeps the colour the lamp did
\* not report, or is one the lamp takes as another, would read as a mismatch.
THEOREM ChangesShow ==
  ASSUME \A o \in Reports : TellsAll(o)
  PROVE  Spec => PersonShown
<1>1. ASSUME IInv, NEW before \in Reports, NEW named \in Named \cup {Everything},
             NEW source \in Sources, NEW o \in Reports, rec'.observed = o,
             ChangeReported(o, before, named, source),
             SilentFollows(rec.layers),
             lampPolicy \in {"take_back", "base_keep_layers"}
      PROVE  \/ Shows(rec', EffectiveNow(rec')) # "no"
             \/ rec'.diverged \in {"partial", "manual_keep", "delivery"}
  <2> DEFINE r == Supersede(Showing(rec, o))
             shown == ObservedToCommand(o)
             chosen == Chosen(named, before, o)
  <2>1. named # Everything => named \in SUBSET AttrGroup
    BY DEF Named
  <2>2. PICK groups \in IF named = Everything THEN {Everything, ChangedGroups(before, o)}
                       ELSE {CallGroups(named, rec.observed, o)} :
          rec' = Judged(Showing(rec, o), groups, source, lampPolicy, chosen)
    BY <1>1 DEF ChangeReported
  <2>3. "state" \in groups
    BY <2>2 DEF Everything, Group, CallGroups, ChangedGroups
  <2>4. Showing(rec, o) \in Record /\ o \in Report /\ o # Away
    BY <1>1, IInvGood, ShowingQuiet, LampAssumption DEF Good, Becomes
  <2>5. Showing(rec, o).observed = o /\ Showing(rec, o).layers = rec.layers
    BY <1>1, IInvGood DEF Showing, Record, Good
  <2>6. r \in Record
    BY <2>4, SupersedeQuiet DEF Becomes
  <2>7. r.observed = o /\ r.layers = rec.layers
    BY <2>4, <2>5 DEF Supersede, Record
  <2>8. Available(r)
    BY <2>4, <2>7 DEF Available, Report, Away, Cmd
  <2> HIDE DEF r, chosen
  <2>9. PICK hand : ApplyExternal(r, shown, groups, source, lampPolicy, chosen) =
          LET over == [r EXCEPT !.layers = TakeOver(@, hand)]
              done == IF lampPolicy = "take_back" THEN TakeBack(over, shown, groups)
                      ELSE BaseKeep(over, shown, groups)
          IN [done EXCEPT !.owed = "nothing",
                          !.last = [policy |-> lampPolicy, source |-> source,
                                    groups |-> groups, tail |-> TRUE]]
    BY <1>1 DEF ApplyExternal, Reasserts
  <2> DEFINE over == [r EXCEPT !.layers = TakeOver(@, hand)]
             done == IF lampPolicy = "take_back" THEN TakeBack(over, shown, groups)
                     ELSE BaseKeep(over, shown, groups)
             applied == ApplyExternal(r, shown, groups, source, lampPolicy, chosen)
  <2>10. /\ over \in Record /\ over.observed = o
         /\ SilentFollows(over.layers)
    <3>1. over \in Record /\ over.observed = o
      BY <2>6, <2>7, TakeOverQuiet DEF Becomes, Record
    <3>2. SaysSame(r.layers, over.layers)
      BY <2>6, TakeOverSays DEF Record
    <3>3. SilentFollows(over.layers)
      BY <1>1, <2>7, <3>2, StaysSilent
    <3> QED BY <3>1, <3>3
  <2>11. Available(over)
    BY <2>7, <2>8, <2>10 DEF Available
  <2> HIDE DEF over
  <2>12. /\ SilentFollows(done.layers)
         /\ \/ Shows(done, EffectiveNow(done)) # "no"
            \/ done.diverged \in {"partial", "manual_keep"}
    BY <1>1, <2>3, <2>10, <2>11, TakeBackShown, BaseKeepShown
  <2>13. done \in Record
    BY <2>10, ObservedType, TakeBackQuiet, BaseKeepQuiet DEF Becomes, Record
  <2> HIDE DEF done
  <2>14. applied = [done EXCEPT !.owed = "nothing",
                                !.last = [policy |-> lampPolicy, source |-> source,
                                          groups |-> groups, tail |-> TRUE]]
    BY <2>9 DEF over, done
  <2> HIDE DEF applied
  <2>15. /\ applied.layers = done.layers /\ applied.base = done.base
         /\ applied.observed = done.observed /\ applied.diverged = done.diverged
    BY <2>13, <2>14 DEF Record
  <2>16. applied \in Record
    BY <1>1, <2>2, <2>1, <2>6, TakeTypes, OptionType, ObservedType, <2>4, ApplyExternalQuiet, LampAssumption
      DEF Becomes, applied
  <2>17. rec' = SeenOffIf(applied, o.state = "off")
    BY <2>2, <2>5 DEF Judged, applied, r
  <2>18. /\ rec'.base = applied.base /\ rec'.observed = applied.observed
         /\ rec'.diverged = applied.diverged
         /\ SaysSame(applied.layers, rec'.layers)
    BY <2>16, <2>17, SeenOffSays
  <2>19. EffectiveNow(rec') = EffectiveNow(applied)
    BY <2>12, <2>15, <2>18, EffectiveSame
  <2>20. EffectiveNow(applied) = EffectiveNow(done)
    BY <2>15 DEF EffectiveNow
  <2>21. Shows(rec', EffectiveNow(rec')) = Shows(done, EffectiveNow(done))
    BY <2>15, <2>18, <2>19, <2>20, ShowsSame
  <2> QED BY <2>12, <2>15, <2>18, <2>21
<1>2. ASSUME IInv, SilentFollows(rec.layers),
             lampPolicy \in {"take_back", "base_keep_layers"},
             PersonChanges(rec'.observed)
      PROVE  \/ Shows(rec', EffectiveNow(rec')) # "no"
             \/ rec'.diverged \in {"partial", "manual_keep", "delivery"}
  BY <1>1, <1>2 DEF PersonChanges
<1>3. IInv /\ [Next]_vars =>
        [\/ Shows(rec', EffectiveNow(rec')) # "no"
         \/ rec'.diverged \in {"partial", "manual_keep", "delivery"}
         \/ \E i \in OfMode(rec.layers, "follow") :
              Groups(rec.layers[i].command) \cap AttrGroup # {}
         \/ lampPolicy \notin {"take_back", "base_keep_layers"}
         \/ ~PersonChanges(rec'.observed)]_vars
  BY <1>2 DEF SilentFollows
<1> QED BY <1>3, Invariance, PTL DEF PersonShown, Spec

-----------------------------------------------------------------------------
(***************************************************************************)
(* Who holds the lamp                                                      *)
(*                                                                         *)
(* LampRecord implements Ownership, and a repeated request only refreshes  *)
(* its layer.  Each handler frees ids, lets a person take the lamp from    *)
(* all who hold it, or grants at most one id to an owner: Hands.  What is  *)
(* left of a layer remembers what its owner asked for, so the two results  *)
(* share one invariant and one case for each handler.                      *)
(***************************************************************************)

\* What a handler may do to who holds the lamp.
Hands(r, q) == Frees(r, q) \/ Yields(r, q) \/ Grants(r, q)

\* Every layer remembers its request, besides the record being good.
HInv == IInv /\ Remembers(rec)

-----------------------------------------------------------------------------
(* The handlers *)

\* Handing over keeps what is remembered.
LEMMA HandsRemember ==
  ASSUME NEW r, NEW q, Remembers(r), Hands(r, q)
  PROVE  Remembers(q)
BY InheritsRemembers DEF Hands, Frees, Yields, Grants

\* A record whose layers and tombstones stay hands nothing over.
LEMMA SameHands ==
  ASSUME NEW r, NEW q, q.layers = r.layers, q.tombs = r.tombs
  PROVE  Hands(r, q)
BY SameStays, StaysCompose DEF Hands

\* The two forms in which the policy's steps are known.
LEMMA PolicyHands ==
  ASSUME NEW p, NEW q, NEW r, Stays(p, q)
  PROVE  /\ Stays(q, r) => Hands(p, r)
         /\ Lifts(q, r) => Hands(p, r)
         /\ Yields(q, r) => Hands(p, r)
BY StaysCompose DEF Hands

\* Bars lifted in two steps, or after a person took the lamp.
LEMMA LiftsCompose ==
  ASSUME NEW p, NEW q, NEW r, NEW s, Lifts(q, r), Stays(r, s)
  PROVE  /\ Lifts(p, q) => Frees(p, s)
         /\ Yields(p, q) => Yields(p, s)
BY DEF Lifts, Stays, Yields, Frees, Inherits

\* Reading the sources changes no hands (_read_sources).
LEMMA ReadSourcesStays ==
  ASSUME IInv, NEW r \in Record
  PROVE  Stays(r, [r EXCEPT !.layers = ReadSources(@)])
<1> DEFINE S == {i \in Id : /\ Present(r.layers, i)
                           /\ r.layers[i].mode = "follow"
                           /\ r.layers[i].source # NoSource
                           /\ feed[r.layers[i].source] # Away}
           f == [i \in Id |-> IF i \in S THEN feed[r.layers[i].source] ELSE Nothing]
           layers == ReadSources(r.layers)
<1>1. \A i \in S : r.layers[i].source \in Source
  BY DEF Record, Layer, Present
<1>2. f \in [Id -> Command]
  BY <1>1, ConstantCommands DEF IInv, TypeOK
<1>3. layers = [i \in Id |-> IF i \in S
                             THEN [r.layers[i] EXCEPT !.command = f[i]]
                             ELSE r.layers[i]]
  BY DEF ReadSources
<1>4. \A i \in S : r.layers[i] # NoLayer
  BY DEF Present
<1>5. S \in SUBSET Id
  OBVIOUS
<1> HIDE DEF S, f, layers
<1>6. Stays(r, [r EXCEPT !.layers = layers])
  BY <1>2, <1>3, <1>4, <1>5, FedStays
<1> QED BY <1>6 DEF layers

\* A set grants at most the id it names, or one it finds active (set_layer).
LEMMA SetLayerHands ==
  ASSUME HInv, NEW req \in Requests, SetLayer(req)
  PROVE  Hands(rec, rec')
<1> DEFINE learnt == LearnBase(rec)
           out == ApplySet(learnt, req)
<1>1. Good(rec) /\ IInv /\ Remembers(rec)
  BY IInvGood DEF HInv
<1>2. Good(learnt)
  BY <1>1, LearnBaseQuiet, GoodKept DEF Good
<1>3. learnt.layers = rec.layers /\ learnt.tombs = rec.tombs
  BY <1>1 DEF LearnBase, RecordObservedAsBase, Good, Record
<1> HIDE DEF learnt
<1>4. Stays(rec, learnt) /\ Remembers(learnt)
  BY <1>1, <1>3, SameStays DEF Remembers
<1>5. Grants(learnt, out.rec) /\ Good(out.rec)
  BY <1>2, <1>4, ApplySetGrants, ApplySetIsGood, LampAssumption
<1> HIDE DEF out
<1>6. Stays(out.rec, [out.rec EXCEPT !.layers = ReadSources(@)])
  BY <1>1, <1>5, ReadSourcesStays DEF Good
<1>7. Grants(rec, out.rec)
  BY <1>4, <1>5, GrantsCompose
<1>8. Grants(rec, [out.rec EXCEPT !.layers = ReadSources(@)])
  BY <1>6, <1>7, GrantsCompose
<1> QED BY <1>7, <1>8 DEF SetLayer, out, learnt, Hands

\* What an owner does (set_layer, clear_layer, sync).
LEMMA OwnerHands ==
  ASSUME HInv, Owner
  PROVE  Hands(rec, rec')
<1>1. Good(rec)
  BY IInvGood DEF HInv
<1>2. ASSUME NEW target \in Targets, ClearLayer(target)
      PROVE  Hands(rec, rec')
  BY <1>1, <1>2, ApplyClearFrees DEF ClearLayer, Hands, Good
<1>3. CASE Sync
  <2>1. rec'.layers = rec.layers /\ rec'.tombs = rec.tombs
    BY <1>1, <1>3 DEF Sync, Good, Record
  <2> QED BY <2>1, SameHands
<1> QED BY <1>2, <1>3, SetLayerHands DEF Owner

\* A report of someone's change (_handle_state).
LEMMA ChangeReportedHands ==
  ASSUME HInv, NEW o \in Reports, NEW before \in Reports,
         NEW named \in Named \cup {Everything}, NEW source \in Sources,
         ChangeReported(o, before, named, source)
  PROVE  Hands(rec, rec')
<1>1. Good(rec) /\ IInv
  BY IInvGood DEF HInv
<1>2. Good(Showing(rec, o))
  BY <1>1, ShowingQuiet, GoodKept, LampAssumption DEF Good
<1>3. named # Everything => named \in SUBSET AttrGroup
  BY DEF Named
<1>4. PICK groups \in IF named = Everything THEN {Everything, ChangedGroups(before, o)}
                     ELSE {CallGroups(named, rec.observed, o)} :
        rec' = Judged(Showing(rec, o), groups, source, lampPolicy, Chosen(named, before, o))
  BY DEF ChangeReported
<1>5. groups \in Take
  BY <1>3, <1>4, TakeTypes
<1>6. Stays(rec, Showing(rec, o))
  BY <1>1, SameStays DEF Showing, Good, Record
<1>7. Lifts(Showing(rec, o), rec') \/ Yields(Showing(rec, o), rec')
  BY <1>1, <1>2, <1>4, <1>5, JudgedYields, OptionType, LampAssumption DEF Good
<1> QED BY <1>6, <1>7, PolicyHands

\* The tail of a change (_follow_up).
LEMMA FollowUpHands ==
  ASSUME HInv, NEW o \in Reports, FollowUp(o)
  PROVE  Hands(rec, rec')
<1>1. Good(rec)
  BY IInvGood DEF HInv
<1>2. /\ rec.last.groups \in Take
      /\ rec.last.source \in ChangeSource
      /\ rec.last.policy # "replay" => rec.last.policy \in Policies
  BY <1>1 DEF FollowUp, Good, Record, External
<1>3. Good(Showing(rec, o)) /\ o \in Report
  BY <1>1, ShowingQuiet, GoodKept, LampAssumption DEF Good
<1>4. /\ Stays(rec, Showing(rec, o))
      /\ Showing(rec, o).layers = rec.layers
      /\ Showing(rec, o).tombs = rec.tombs
  BY <1>1, SameStays DEF Showing, Good, Record
<1>5. CASE rec.last.policy = "replay"
  <2>1. rec'.layers = rec.layers /\ rec'.tombs = rec.tombs
    BY <1>1, <1>4, <1>5 DEF FollowUp, ApplyReplay, Good, Record, Showing
  <2> QED BY <2>1, SameHands
<1>6. CASE rec.last.policy # "replay"
  <2>1. rec' = Judged(Showing(rec, o), rec.last.groups, rec.last.source,
                      rec.last.policy, {})
    BY <1>6 DEF FollowUp
  <2>2. Lifts(Showing(rec, o), rec') \/ Yields(Showing(rec, o), rec')
    BY <1>2, <1>3, <1>6, <2>1, JudgedYields DEF Good
  <2> QED BY <1>4, <2>2, PolicyHands
<1> QED BY <1>5, <1>6

\* A foreign call acted on as it is heard (_handle_call).
LEMMA CallHeardHands ==
  ASSUME HInv, NEW cmd \in Calls, NEW source \in Sources, CallHeard(cmd, source)
  PROVE  Hands(rec, rec')
<1> DEFINE named == IF cmd.state = "off" THEN {} ELSE Groups(cmd) \cap AttrGroup
           acted == Supersede(rec)
           taken == ApplyExternal(acted, cmd, named \cup {"state"}, source,
                                  lampPolicy, named)
           owed == IF EffectiveNow(taken) = Nothing THEN "nothing" ELSE "owed"
           seen == SeenOffIf(taken, rec.observed.state = "off")
           owing == [taken EXCEPT !.owed = owed]
<1>1. Good(rec) /\ IInv
  BY IInvGood DEF HInv
<1>2. Good(acted) /\ cmd \in Command
  BY <1>1, SupersedeQuiet, GoodKept, LampAssumption DEF Good
<1>3. acted.layers = rec.layers /\ acted.tombs = rec.tombs
  BY <1>1 DEF Supersede, Good, Record
<1>4. named \cup {"state"} \in Take
  BY TakeTypes
<1> HIDE DEF acted, named
<1>5. Stays(rec, acted)
  BY <1>3, SameStays
<1>6. Stays(acted, taken) \/ Yields(acted, taken)
  BY <1>2, ApplyExternalYields DEF Good
<1>7. taken \in Record
  BY <1>1, <1>2, <1>4, ApplyExternalQuiet, OptionType, LampAssumption DEF Good, Becomes
<1> HIDE DEF taken
<1>8. Lifts(taken, seen)
  BY <1>7, SeenOffLifts
<1>9. Stays(taken, owing)
  BY <1>7, SameStays DEF Record
<1> HIDE DEF seen, owing
<1>10. Hands(rec, seen) /\ Hands(rec, owing)
  BY <1>5, <1>6, <1>8, <1>9, StaysCompose DEF Hands
<1>11. rec' = seen \/ rec' = owing
  BY DEF CallHeard, seen, owing, taken, acted, named
<1> QED BY <1>10, <1>11

\* The decision on a lamp that came back (_judge_return).
LEMMA JudgeReturnHands ==
  ASSUME HInv, JudgeReturn
  PROVE  Hands(rec, rec')
<1> DEFINE o == rec.observed
           decision == DecideReturn(rec, o)
           settled == [rec EXCEPT !.owed = "nothing"]
           judged == Judged(settled, Everything, "device", lampPolicy,
                            Chosen(Everything, rec.atDrop, o))
           recorded == RecordObservedAsBase(settled, o)
           decided ==
             CASE decision = "record" -> recorded
               [] decision = "nothing" -> settled
               [] decision = "send" -> rec
               [] decision = "external" -> judged
           seen == SeenOffIf(decided, o.state = "off")
           done == [seen EXCEPT !.atDrop = Away]
<1>1. Good(rec) /\ o \in Report /\ IInv
  BY IInvGood DEF Good, Record, HInv
<1>2. settled \in Record /\ settled.layers = rec.layers /\ settled.tombs = rec.tombs
  BY <1>1 DEF Good, Record, Owed
<1>3. Good(settled)
  BY <1>1, <1>2, SameLayers, GoodKept DEF Good
<1>4. /\ recorded.layers = rec.layers
      /\ recorded.tombs = rec.tombs
  BY <1>1 DEF RecordObservedAsBase, Good, Record
<1> HIDE DEF settled
<1>5. Lifts(settled, judged) \/ Yields(settled, judged)
  BY <1>1, <1>3, TakeTypes, JudgedYields, OptionType DEF Good, ChangeSource
<1>6. judged \in Record
  BY <1>1, <1>3, TakeTypes, JudgedQuiet, OptionType DEF Good, ChangeSource, Becomes
<1>7. recorded \in Record
  BY <1>1, <1>3, ObservedType, BaseQuiet DEF Good, RecordObservedAsBase, Becomes
<1>8. Stays(rec, settled) /\ Stays(rec, recorded) /\ Stays(rec, rec)
  BY <1>2, <1>4, SameStays
<1>9. Lifts(rec, judged) \/ Yields(rec, judged)
  BY <1>5, <1>8, StaysCompose
<1>10. decision \in {"record", "nothing", "send", "external"}
  <2>1. o.state # "away"
    BY DEF JudgeReturn, Available
  <2> QED BY <2>1 DEF DecideReturn
<1> HIDE DEF decision, judged, recorded
<1>11. /\ decided \in Record
       /\ Stays(rec, decided) \/ Lifts(rec, decided) \/ Yields(rec, decided)
  BY <1>1, <1>2, <1>6, <1>7, <1>8, <1>9, <1>10 DEF Good
<1> HIDE DEF decided
<1>12. Lifts(decided, seen)
  BY <1>11, SeenOffLifts
<1>13. seen \in Record
  BY <1>11, SeenOffQuiet DEF Becomes
<1> HIDE DEF seen
<1>14. Stays(seen, done)
  BY <1>13, SameStays DEF Record
<1> HIDE DEF done
<1>15. Lifts(rec, decided) \/ Yields(rec, decided)
  BY <1>11, StaysCompose
<1>16. Hands(rec, done)
  BY <1>12, <1>14, <1>15, LiftsCompose DEF Hands
<1> QED
  BY <1>16 DEF JudgeReturn, done, seen, decided, judged, recorded, settled, decision

\* A replay changes the base and nobody's hold (_replay).
LEMMA ReplayHands ==
  ASSUME HInv, Replay
  PROVE  Hands(rec, rec')
<1>1. Good(rec)
  BY IInvGood DEF HInv
<1>2. rec'.layers = rec.layers /\ rec'.tombs = rec.tombs
  BY <1>1 DEF Replay, ReplayReported, ReplayHeard, ApplyReplay, Showing, Good, Record
<1> QED BY <1>2, SameHands

\* Reports nobody acts on, drops, returns and followed entities.
LEMMA SurroundingsHands ==
  ASSUME HInv, Surroundings
  PROVE  Hands(rec, rec')
<1>1. Good(rec)
  BY IInvGood DEF HInv
<1>2. ASSUME NEW o \in Reports, NEW ours \in BOOLEAN, Reported(o, ours)
      PROVE  Hands(rec, rec')
  <2>1. Good(Showing(rec, o))
    BY <1>1, ShowingQuiet, GoodKept, LampAssumption DEF Good
  <2>2. Stays(rec, Showing(rec, o))
    BY <1>1, SameStays DEF Showing, Good, Record
  <2>3. Lifts(Showing(rec, o), rec')
    BY <1>2, <2>1, SeenOffLifts DEF Reported, Good
  <2> QED BY <2>2, <2>3, PolicyHands
<1>3. CASE Drop
  <2>1. rec'.layers = rec.layers /\ rec'.tombs = rec.tombs
    BY <1>1, <1>3 DEF Drop, Showing, Good, Record
  <2> QED BY <2>1, SameHands
<1>4. ASSUME NEW o \in Reports, ComeBack(o)
      PROVE  Hands(rec, rec')
  <2>1. rec'.layers = rec.layers /\ rec'.tombs = rec.tombs
    BY <1>1, <1>4 DEF ComeBack, Showing, Good, Record
  <2> QED BY <2>1, SameHands
<1>5. ASSUME NEW s \in Source, NEW values \in Feeds, SourceReports(s, values)
      PROVE  Hands(rec, rec')
  <2>1. CASE values = Away
    BY <1>5, <2>1, SameHands DEF SourceReports
  <2>2. CASE values # Away
    <3> DEFINE S == {i \in Id : /\ Present(rec.layers, i)
                               /\ rec.layers[i].mode = "follow"
                               /\ rec.layers[i].source = s}
               f == [i \in Id |-> values]
               layers == [i \in Id |-> IF i \in S
                                      THEN [rec.layers[i] EXCEPT !.command = f[i]]
                                      ELSE rec.layers[i]]
    <3>1. f \in [Id -> Command]
      BY <2>2, LampAssumption
    <3>2. \A i \in S : rec.layers[i] # NoLayer
      BY DEF Present
    <3>3. Stays(rec, [rec EXCEPT !.layers = layers])
      BY <1>1, <3>1, <3>2, FedStays DEF Good
    <3>4. rec' = [rec EXCEPT !.layers = layers]
      BY <1>5, <2>2 DEF SourceReports
    <3> QED BY <3>3, <3>4, StaysCompose DEF Hands
  <2> QED BY <2>1, <2>2
<1> QED BY <1>2, <1>3, <1>4, <1>5 DEF Surroundings

\* Time that runs out frees the id of a layer or of a bar.
LEMMA RunOutHands ==
  ASSUME HInv, NEW i \in Id, RunOut(i)
  PROVE  Hands(rec, rec')
<1>1. /\ rec \in Record
      /\ BarredIn(rec)
      /\ rec.layers \in [Id -> Layer \cup {NoLayer}]
      /\ rec.tombs \in [Id -> Tomb \cup {NoTomb}]
  BY IInvGood DEF HInv, Good, Record
<1>2. CASE /\ Present(rec.layers, i) /\ rec.layers[i].lease = "running"
           /\ rec' = [rec EXCEPT !.layers[i].lease = "over"]
  <2>1. rec.layers[i] \in Layer
    BY <1>1, <1>2 DEF Present
  <2>2. /\ rec'.layers[i] # NoLayer
        /\ rec'.layers[i].lease = "over"
        /\ rec'.layers[i].asked = rec.layers[i].asked
        /\ rec'.layers[i].requested = rec.layers[i].requested
        /\ rec'.layers[i].source = rec.layers[i].source
    <3> DEFINE lay == [rec.layers[i] EXCEPT !.lease = "over"]
    <3>1. /\ lay \in Layer
          /\ lay.lease = "over"
          /\ lay.asked = rec.layers[i].asked
          /\ lay.requested = rec.layers[i].requested
          /\ lay.source = rec.layers[i].source
      BY <2>1 DEF Layer, Lease
    <3>2. rec'.layers[i] = lay
      BY <1>1, <1>2 DEF Record
    <3> HIDE DEF lay
    <3> QED BY <3>1, <3>2, LayerAssumption
  <2>3. /\ rec'.tombs = rec.tombs
        /\ \A j \in Id \ {i} : rec'.layers[j] = rec.layers[j]
    BY <1>1, <1>2 DEF Record
  <2>4. Inherits(rec, rec')
    BY <1>2, <2>2, <2>3 DEF Inherits, Present
  <2>5. ~LiveTomb(rec', i)
    BY <1>1, <1>2, <2>3 DEF BarredIn, Live, LiveTomb
  <2>6. \A j \in Id : Stand(rec', j) \in {Stand(rec, j), "free"}
    BY <2>2, <2>3, <2>5 DEF Stand, Live, Present, LiveTomb
  <2> QED BY <2>4, <2>6 DEF Hands, Frees
<1>3. CASE /\ Present(rec.layers, i)
           /\ rec' = [rec EXCEPT !.layers[i].manualLease = "over"]
  <2> DEFINE lay == [rec.layers[i] EXCEPT !.manualLease = "over"]
  <2>1. rec.layers[i] \in Layer
    BY <1>1, <1>3 DEF Present
  <2>2. /\ lay \in Layer
        /\ lay.lease = rec.layers[i].lease
        /\ lay.asked = rec.layers[i].asked
        /\ lay.requested = rec.layers[i].requested
        /\ lay.source = rec.layers[i].source
        /\ lay.mode = rec.layers[i].mode
    BY <2>1 DEF Layer, Lease
  <2>3. rec'.tombs = rec.tombs /\ rec'.layers = [rec.layers EXCEPT ![i] = lay]
    BY <1>1, <1>3 DEF Record
  <2> HIDE DEF lay
  <2>4. \A j \in Id : j # i => rec'.layers[j] = rec.layers[j]
    BY <1>1, <2>3
  <2>5. rec'.layers[i] = lay /\ lay # NoLayer
    BY <1>1, <2>2, <2>3, LayerAssumption
  <2>6. Inherits(rec, rec')
    BY <1>3, <2>2, <2>4, <2>5 DEF Inherits, Present
  <2>7. \A j \in Id : Stand(rec', j) = Stand(rec, j)
    BY <1>3, <2>2, <2>3, <2>4, <2>5 DEF Stand, Live, Present, LiveTomb
  <2> QED BY <2>6, <2>7 DEF Hands, Frees
<1>4. CASE /\ rec.tombs[i] # NoTomb
           /\ rec' = [rec EXCEPT !.tombs[i].lease = "over"]
  <2>1. rec.tombs[i] \in Tomb
    BY <1>1, <1>4
  <2>2. rec'.layers = rec.layers
    BY <1>1, <1>4 DEF Record
  <2>3. \A j \in Id : j # i => rec'.tombs[j] = rec.tombs[j]
    BY <1>1, <1>4 DEF Record
  <2>4. rec'.tombs[i].lease = "over"
    BY <1>1, <1>4, <2>1 DEF Record, Tomb
  <2>5. Inherits(rec, rec')
    BY <2>2 DEF Inherits
  <2>6. \A j \in Id : Stand(rec', j) \in {Stand(rec, j), "free"}
    BY <2>2, <2>3, <2>4 DEF Stand, Live, Present, LiveTomb
  <2> QED BY <2>5, <2>6 DEF Hands, Frees
<1> QED BY <1>2, <1>3, <1>4 DEF RunOut

\* Timers, windows and the renderer.
LEMMA ClockHands ==
  ASSUME HInv, Clock
  PROVE  Hands(rec, rec')
<1>1. rec \in Record
  BY IInvGood DEF HInv, Good
<1>2. CASE ExpireLamp
  <2> DEFINE expired == Expire(rec, Shown(rec))
  <2>1. Shown(rec) \in Report
    BY <1>1 DEF Record, Shown
  <2>2. expired \in Record
    BY <1>1, <2>1, ExpireQuiet DEF Becomes
  <2>3. Stays(rec, expired)
    BY <1>1, ExpireStays
  <2> HIDE DEF expired
  <2>4. Stays(expired, ReleaseManual(expired, FALSE))
    BY <2>2, ReleaseManualStays
  <2> QED BY <1>2, <2>3, <2>4, PolicyHands DEF ExpireLamp, expired
<1>3. CASE Forget \/ RendererWrites
  <2>1. rec'.layers = rec.layers /\ rec'.tombs = rec.tombs
    BY <1>1, <1>3 DEF Forget, RendererWrites, Record
  <2> QED BY <2>1, SameHands
<1> QED BY <1>2, <1>3, RunOutHands DEF Clock

\* Every step.
LEMMA StepHands == HInv /\ [Next]_vars => Hands(rec, rec')
<1> SUFFICES ASSUME HInv, [Next]_vars PROVE Hands(rec, rec')
  OBVIOUS
<1>1. CASE PersonActs
  BY <1>1, ChangeReportedHands, FollowUpHands, CallHeardHands, JudgeReturnHands
  DEF PersonActs
<1>2. CASE UNCHANGED vars
  BY <1>2, SameHands DEF vars
<1> QED
  BY <1>1, <1>2, OwnerHands, ReplayHands, SurroundingsHands, ClockHands DEF Next

\* So every layer goes on remembering what its owner asked for.
LEMMA StepRemembers == HInv /\ [Next]_vars => HInv'
<1> SUFFICES ASSUME HInv, [Next]_vars PROVE HInv'
  OBVIOUS
<1>1. IInv'
  BY StepGood DEF HInv
<1>2. Remembers(rec')
  BY StepHands, HandsRemember DEF HInv
<1> QED BY <1>1, <1>2 DEF HInv, Remembers, AskedAs

\* A new record holds no layer to remember.
LEMMA InitRemembers == Init => HInv
<1> SUFFICES ASSUME Init PROVE HInv
  OBVIOUS
<1>1. Remembers(rec)
  BY DEF Init, NewRecord, Remembers
<1> QED BY <1>1, InitGood DEF HInv

-----------------------------------------------------------------------------
(* What a repeated request does *)

\* A set that names no priority moves nothing.
LEMMA StaysPut ==
  ASSUME NEW lay, NEW req, req.priority = NoPriority
  PROVE  ~Moves(lay, req)
BY DEF Moves, PriorityOf

\* A follow layer asked for again, or renewed, is refreshed.
LEMMA FollowRefreshed ==
  ASSUME NEW r \in Record, NEW i \in Live(r.layers), NEW req, req.layer = i,
         req.priority = NoPriority, ~req.manualTimeout,
         req.onlyIfPresent \/ req.source = r.layers[i].source
  PROVE  SetFollowLayer(r, req) =
           Outcome([r EXCEPT !.layers[i] = Renewed(r.layers[i], req, TRUE)], "refreshed")
<1> DEFINE lay == r.layers[i]
           l == Renewed(lay, req, TRUE)
           timeout == lay.manualTimeout \/ req.manualTimeout
<1>1. lay \in Layer
  BY DEF Record, Live, Present
<1>2. lay.manualTimeout \in BOOLEAN
  BY <1>1 DEF Layer
<1>3. timeout = lay.manualTimeout
  BY <1>2
<1>4. [l EXCEPT !.manualTimeout = lay.manualTimeout] = l
  BY <1>1 DEF Renewed, Layer
<1>5. [l EXCEPT !.manualTimeout = timeout] = l
  BY <1>3, <1>4
<1>6. ~Moves(lay, req)
  BY StaysPut
<1>7. ~(~req.onlyIfPresent /\ req.source # lay.source)
  OBVIOUS
<1> HIDE DEF l
<1>8. SetFollowLayer(r, req) =
        Outcome([r EXCEPT !.layers[i] = [l EXCEPT !.manualTimeout = timeout]], "refreshed")
  BY <1>6, <1>7 DEF SetFollowLayer, l
<1> QED BY <1>5, <1>8 DEF l

\* A renewal says, in the mode of its layer, what the owner asked for.
LEMMA RenewalSays ==
  ASSUME NEW cmd \in Command, NEW mode \in {"set", "adjust"},
         mode = "set" => cmd.state # "none", mode = "adjust" => cmd.state # "on"
  PROVE  AsMode(Bare(cmd), mode) = cmd
<1> DEFINE bare == Bare(cmd)
<1>1. /\ cmd \in [state : {"on", "off", "none"}, bri : Level \cup {NoValue},
                 col : Color \cup {NoValue}]
  BY DEF Command
<1>2. CASE cmd.state = "off"
  BY <1>1, <1>2 DEF AsMode, Bare
<1>3. CASE cmd.state = "on"
  <2>1. bare.state = "none" /\ mode = "set"
    BY <1>1, <1>3 DEF Bare
  <2>2. AsMode(bare, mode) = [bare EXCEPT !.state = "on"]
    BY <2>1 DEF AsMode
  <2>3. [bare EXCEPT !.state = "on"] = cmd
    BY <1>1, <1>3 DEF Bare
  <2> QED BY <2>2, <2>3
<1>4. CASE cmd.state = "none"
  <2>1. bare = cmd /\ mode = "adjust"
    BY <1>1, <1>4 DEF Bare
  <2>2. AsMode(bare, mode) = bare
    BY <2>1, <1>4 DEF AsMode
  <2> QED BY <2>1, <2>2
<1> QED BY <1>1, <1>2, <1>3, <1>4

\* What an owner sends to keep its layer.
LEMMA RepeatSays ==
  ASSUME NEW i, NEW lease
  PROVE  /\ Repeat(i, lease).layer = i
         /\ Repeat(i, lease).lease = lease
         /\ Repeat(i, lease).priority = NoPriority
         /\ ~Repeat(i, lease).manualTimeout
         /\ ~Repeat(i, lease).onlyIfPresent
         /\ Repeat(i, lease).mode = rec.layers[i].asked
         /\ Repeat(i, lease).source = rec.layers[i].source
         /\ Repeat(i, lease).command = rec.layers[i].requested
BY DEF Repeat

\* What a renewal leaves of that.
LEMMA RenewalLeaves ==
  ASSUME NEW i, NEW lease
  PROVE  /\ Renewal(i, lease).layer = i
         /\ Renewal(i, lease).lease = lease
         /\ Renewal(i, lease).priority = NoPriority
         /\ ~Renewal(i, lease).manualTimeout
         /\ Renewal(i, lease).onlyIfPresent
         /\ Renewal(i, lease).mode = "set"
         /\ Renewal(i, lease).command = Bare(rec.layers[i].requested)
BY DEF Renewal, Repeat

\* A set or adjust layer asked for again, or renewed, is refreshed.
LEMMA SetRefreshed ==
  ASSUME NEW r \in Record, Remembers(r), NEW i \in Live(r.layers),
         NEW lease, NEW req, req = Repeat(i, lease) \/ req = Renewal(i, lease), r = rec,
         rec.layers[i].asked # "follow"
  PROVE  UpdateLayer(r, req) =
           Outcome([r EXCEPT !.layers[i] = Renewed(r.layers[i], req, TRUE)], "refreshed")
<1> DEFINE lay == r.layers[i]
           mode == IF req.onlyIfPresent THEN lay.asked ELSE req.mode
           command == IF req.onlyIfPresent THEN AsMode(req.command, mode) ELSE req.command
<1>1. lay \in Layer /\ AskedAs(lay)
  BY DEF Record, Live, Present, Remembers
<1>2. /\ req.priority = NoPriority /\ req.layer = i
      /\ req.onlyIfPresent \/ req.mode = lay.asked
  <2>1. CASE req = Repeat(i, lease)
    BY <2>1, RepeatSays
  <2>2. CASE req = Renewal(i, lease)
    BY <2>2, RenewalLeaves
  <2> QED BY <2>1, <2>2
<1>3. mode = lay.asked
  BY <1>2
<1>4. command = lay.requested
  <2>1. CASE req = Repeat(i, lease)
    BY <2>1, RepeatSays
  <2>2. CASE req = Renewal(i, lease)
    <3>1. /\ req.onlyIfPresent
          /\ req.command = Bare(lay.requested)
      BY <2>2, RenewalLeaves
    <3>2. lay.requested \in Command /\ lay.asked \in {"set", "adjust"}
      BY <1>1 DEF Layer, Mode
    <3>3. /\ lay.asked = "set" => lay.requested.state # "none"
          /\ lay.asked = "adjust" => lay.requested.state # "on"
      BY <1>1 DEF AskedAs
    <3> HIDE DEF lay, mode
    <3>4. AsMode(req.command, lay.asked) = lay.requested
      BY <3>1, <3>2, <3>3, RenewalSays
    <3> QED BY <1>3, <3>1, <3>4
  <2> QED BY <2>1, <2>2
<1>5. ~Moves(lay, req)
  BY <1>2, StaysPut
<1> HIDE DEF mode, command
<1> QED BY <1>2, <1>3, <1>4, <1>5 DEF UpdateLayer, mode, command

\* Whatever the owner repeats, the policy takes it for that (apply_set).
LEMMA RepeatRefreshes == HInv => RepeatOnlyRefreshes
<1> SUFFICES ASSUME HInv, NEW i \in Live(rec.layers), NEW lease \in {"none", "running"},
                    NEW req, req = Repeat(i, lease) \/ req = Renewal(i, lease),
                    Groups(req.command) # {} \/ rec.layers[i].asked = "follow"
             PROVE  ApplySet(rec, req) =
                      [result |-> "refreshed",
                       rec |-> [rec EXCEPT !.layers[i].lease =
                                  IF lease = "none" THEN @ ELSE lease]]
  BY DEF RepeatOnlyRefreshes
<1> DEFINE lay == rec.layers[i]
           renewed == [rec EXCEPT !.layers[i] = Renewed(lay, req, TRUE)]
<1>1. rec \in Record /\ Remembers(rec) /\ ~LiveTomb(rec, i) /\ i \in Id
  BY IInvGood DEF HInv, Good, BarredIn, Live
<1>2. lay \in Layer /\ AskedAs(lay)
  BY <1>1 DEF Record, Live, Present, Remembers
<1>3. /\ req.layer = i /\ req.lease = lease
      /\ req.priority = NoPriority
      /\ ~req.manualTimeout
      /\ \/ /\ req.mode = lay.asked /\ req.source = lay.source
            /\ req.command = lay.requested
            /\ ~req.onlyIfPresent
         \/ req.mode = "set" /\ req.onlyIfPresent
  <2>1. CASE req = Repeat(i, lease)
    BY <2>1, RepeatSays
  <2>2. CASE req = Renewal(i, lease)
    BY <2>2, RenewalLeaves
  <2> QED BY <2>1, <2>2
<1>4. renewed = [rec EXCEPT !.layers[i].lease = IF lease = "none" THEN @ ELSE lease]
  <2>1. Renewed(lay, req, TRUE) = [lay EXCEPT !.lease = IF lease = "none" THEN @ ELSE lease]
    BY <1>3 DEF Renewed
  <2> QED BY <2>1
<1>5. i \notin {"base", "active"}
  BY <1>1, PolicyAssumption
<1>6. ~(req.mode = "follow" /\ FollowRefused(rec, req))
  <2> SUFFICES ASSUME req.mode = "follow" PROVE ~FollowRefused(rec, req)
    OBVIOUS
  <2>1. lay.asked = "follow" /\ req.source = lay.source /\ Groups(req.command) = {}
    BY <1>2, <1>3 DEF AskedAs
  <2>2. req.source \in Source
    BY <1>2, <2>1 DEF AskedAs, Layer
  <2>3. req.source # Self /\ req.source # NoSource
    BY <2>2, PolicyAssumption, ResolveAssumption
  <2> QED BY <1>3, <1>5, <2>1, <2>3 DEF FollowRefused
<1>7. ~(/\ req.mode # "follow" /\ Groups(req.command) = {}
        /\ ~RenewsFollow(rec, req))
  BY <1>3 DEF RenewsFollow
<1>8. SetNamedLayer(rec, req) = Outcome(renewed, "refreshed")
  <2>1. CASE lay.asked = "follow"
    <3>1. req.onlyIfPresent \/ req.mode = "follow"
      BY <1>3, <2>1
    <3>2. SetNamedLayer(rec, req) = SetFollowLayer(rec, req)
      BY <1>1, <1>3, <2>1, <3>1 DEF SetNamedLayer
    <3>3. SetFollowLayer(rec, req) = Outcome(renewed, "refreshed")
      BY <1>1, <1>3, FollowRefreshed
    <3> QED BY <3>2, <3>3
  <2>2. CASE lay.asked # "follow"
    <3>1. SetNamedLayer(rec, req) = UpdateLayer(rec, req)
      BY <1>1, <1>3, <2>2 DEF SetNamedLayer
    <3> QED BY <1>1, <2>2, <3>1, SetRefreshed
  <2> QED BY <2>1, <2>2
<1>9. ApplySet(rec, req) = SetNamedLayer(rec, req)
  BY <1>3, <1>5, <1>6, <1>7 DEF ApplySet
<1> QED BY <1>4, <1>8, <1>9 DEF Outcome

-----------------------------------------------------------------------------
(* The refinement *)

\* What an id is worth is what the policy's steps speak of.
LEMMA OwnStands ==
  /\ Own = [i \in Id |-> Stand(rec, i)]
  /\ \A i \in Id : Stand(rec, i) \in O!Standing
BY DEF Own, Stand, O!Standing

\* A new record has nobody's layer.
LEMMA OwnInit == Init => O!Init
<1> SUFFICES ASSUME Init PROVE O!Init
  OBVIOUS
<1>1. /\ rec.layers = [i \in Id |-> NoLayer]
      /\ rec.tombs = [i \in Id |-> NoTomb]
  BY DEF Init, NewRecord
<1> QED BY <1>1 DEF O!Init, Own, Live, Present, LiveTomb

\* Every step is one of Ownership's, or leaves every id where it was.
LEMMA OwnStep == HInv /\ [Next]_vars => [O!Next]_Own
<1> SUFFICES ASSUME HInv, [Next]_vars PROVE O!Next \/ Own' = Own
  OBVIOUS
<1> DEFINE freed == {i \in Id : Stand(rec', i) = "free"}
<1>1. Own = [i \in Id |-> Stand(rec, i)]
  BY OwnStands
<1>2. Own' = [i \in Id |-> Stand(rec', i)]
  BY DEF Own, Stand
<1>3. \A i \in Id : Own[i] = Stand(rec, i)
  BY <1>1
<1>4. Hands(rec, rec')
  BY StepHands
<1>5. CASE Frees(rec, rec')
  <2>1. Own' = [i \in Id |-> IF i \in freed THEN "free" ELSE Own[i]]
    BY <1>2, <1>3, <1>5 DEF Frees
  <2>2. freed \in SUBSET Id
    OBVIOUS
  <2> HIDE DEF freed
  <2> QED BY <2>1, <2>2 DEF O!Next, O!Release
<1>6. CASE Yields(rec, rec')
  <2>1. Own' = [i \in Id |-> IF Own[i] \in {"held", "barred"}
                            THEN IF i \in freed THEN "free" ELSE "barred"
                            ELSE Own[i]]
    BY <1>2, <1>3, <1>6 DEF Yields
  <2>2. freed \in SUBSET Id
    OBVIOUS
  <2> HIDE DEF freed
  <2> QED BY <2>1, <2>2 DEF O!Next, O!TakeBack
<1>7. CASE Grants(rec, rec')
  <2>1. CASE Stays(rec, rec')
    BY <1>1, <1>2, <2>1 DEF Stays
  <2>2. CASE \E i \in Id : Claimed(rec, rec', i)
    <3>1. PICK i \in Id : Claimed(rec, rec', i)
      BY <2>2
    <3>2. Own[i] # "barred" /\ Stand(rec', i) \in O!InForce
      BY <1>3, <3>1 DEF Claimed, O!InForce
    <3>3. Own' = [Own EXCEPT ![i] = Stand(rec', i)]
      BY <1>1, <1>2, <3>1 DEF Claimed
    <3>4. O!Claim(i)
      BY <3>2, <3>3 DEF O!Claim
    <3> QED BY <3>4 DEF O!Next
  <2> QED BY <1>7, <2>1, <2>2 DEF Grants
<1> QED BY <1>4, <1>5, <1>6, <1>7 DEF Hands

-----------------------------------------------------------------------------
(* Theorems *)

\* Every layer remembers its request, throughout.
THEOREM Remembrance == Spec => []HInv
BY InitRemembers, StepRemembers, PTL DEF Spec

\* An owner who says again what it asked for, or renews it, only extends the
\* lease, whatever an edit, an expiry or a person did to the layer since
\* (_renew, _set_follow_layer, _as_mode).
THEOREM RepeatsAreHarmless == Spec => []RepeatOnlyRefreshes
BY Remembrance, RepeatRefreshes, PTL

\* A person takes a lamp from all its owners at once and never from a follow
\* layer; an owner claims one id at a time and never a barred one; the rest
\* only frees ids (engine.py's handlers through policy.py).
THEOREM OwnershipImplemented == Spec => ImplementsOwnership
BY OwnInit, OwnStep, Remembrance, PTL DEF Spec, ImplementsOwnership, O!Spec

=============================================================================
