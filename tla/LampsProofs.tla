----------------------------- MODULE LampsProofs -----------------------------
(***************************************************************************)
(* Proofs about Lamps, for every set of lamps, rooms, requests, calls,     *)
(* scenes and reports and any number of acts.                              *)
(*                                                                         *)
(* What is known of a lamp is fit when it is well-typed and its record is  *)
(* good.  Each part of a handler keeps it fit; what the part leaves alone  *)
(* beside that is said with it.                                            *)
(***************************************************************************)
EXTENDS Lamps, PolicyProofs

Fit(k) == k \in Knowledge /\ Good(k.rec) /\ Available(k.rec)

\* From k to q the stack, the base and what the lamp shows stay as they are.
SameStack(k, q) ==
  /\ q.rec.layers = k.rec.layers /\ q.rec.tombs = k.rec.tombs
  /\ q.rec.base = k.rec.base /\ q.rec.observed = k.rec.observed
  /\ q.rec.changed = k.rec.changed

\* Nothing of Layers' is under way on the lamp, and nothing waits to be judged.
Calm(k) == ~Runs(k) /\ k.prev = Away /\ ~k.replayed

-----------------------------------------------------------------------------
(* Parts of handlers *)

\* A good record in place of another.
LEMMA OtherRecord ==
  ASSUME NEW k, Fit(k), NEW r, Good(r), Available(r)
  PROVE  /\ Fit([k EXCEPT !.rec = r])
         /\ [k EXCEPT !.rec = r].rec = r
         /\ [k EXCEPT !.rec = r].prev = k.prev
         /\ [k EXCEPT !.rec = r].job = k.job
         /\ [k EXCEPT !.rec = r].room = k.room
         /\ [k EXCEPT !.rec = r].replayed = k.replayed
BY DEF Fit, Good, Knowledge

\* The marks on what is known of a lamp are free.
LEMMA OtherMarks ==
  ASSUME NEW k, Fit(k), NEW o \in Report, NEW c \in Command, NEW x \in BOOLEAN
  PROVE  /\ Fit([k EXCEPT !.prev = o]) /\ Fit([k EXCEPT !.job = c])
         /\ Fit([k EXCEPT !.room = x]) /\ Fit([k EXCEPT !.replayed = x])
BY DEF Fit, Knowledge

\* So is what is owed or diverged.
LEMMA OtherNotes ==
  ASSUME NEW k, Fit(k), NEW owed \in Owed, NEW d \in Divergence
  PROVE  /\ Fit([k EXCEPT !.rec.owed = owed]) /\ SameStack(k, [k EXCEPT !.rec.owed = owed])
         /\ Fit([k EXCEPT !.rec.diverged = d]) /\ SameStack(k, [k EXCEPT !.rec.diverged = d])
<1> DEFINE p == [k.rec EXCEPT !.owed = owed]
           q == [k.rec EXCEPT !.diverged = d]
<1>1. k.rec \in Record
  BY DEF Fit, Good
<1>2. p \in Record /\ q \in Record
  BY <1>1 DEF Record
<1>3. /\ p.layers = k.rec.layers /\ p.tombs = k.rec.tombs /\ p.base = k.rec.base
      /\ p.observed = k.rec.observed /\ p.changed = k.rec.changed
      /\ q.layers = k.rec.layers /\ q.tombs = k.rec.tombs /\ q.base = k.rec.base
      /\ q.observed = k.rec.observed /\ q.changed = k.rec.changed
  BY <1>1 DEF Record
<1>4. Good(p) /\ Good(q) /\ Available(p) /\ Available(q)
  BY <1>1, <1>2, <1>3, SameLayers, GoodKept DEF Fit, Available
<1>5. /\ [k EXCEPT !.rec.owed = owed] = [k EXCEPT !.rec = p]
      /\ [k EXCEPT !.rec.diverged = d] = [k EXCEPT !.rec = q]
  BY DEF Fit, Knowledge
<1> HIDE DEF p, q
<1>6. Fit([k EXCEPT !.rec = p]) /\ [k EXCEPT !.rec = p].rec = p
  BY <1>4, OtherRecord
<1>7. Fit([k EXCEPT !.rec = q]) /\ [k EXCEPT !.rec = q].rec = q
  BY <1>4, OtherRecord
<1> QED BY <1>3, <1>5, <1>6, <1>7 DEF SameStack

LEMMA Notes == {"nothing", "owed"} \subseteq Owed /\ "none" \in Divergence
BY DEF Owed, Divergence

\* What a lamp is to be sent is a command.
LEMMA WantedType ==
  ASSUME NEW k, Fit(k)
  PROVE  Wanted(k) \in Command
BY EffectiveType, ProjectType DEF Wanted, Fit, Good

\* Nothing is owed any more.
LEMMA SettlesFit ==
  ASSUME NEW k, Fit(k)
  PROVE  /\ Fit(Settles(k)) /\ SameStack(k, Settles(k))
         /\ Settles(k).prev = k.prev /\ Settles(k).job = k.job
         /\ Settles(k).room = k.room /\ Settles(k).replayed = k.replayed
<1>1. Fit(Settles(k)) /\ SameStack(k, Settles(k))
  BY OtherNotes, Notes DEF Settles
<1> QED BY <1>1 DEF Settles, Fit, Knowledge

LEMMA SameStackComposes ==
  ASSUME NEW p, NEW q, NEW r
  PROVE  /\ SameStack(p, p)
         /\ SameStack(p, q) /\ SameStack(q, r) => SameStack(p, r)
BY DEF SameStack

\* A render is started, or there is none (_render).
LEMMA SendFit ==
  ASSUME NEW k, Fit(k)
  PROVE  /\ Fit(Send(k)) /\ SameStack(k, Send(k))
         /\ Send(k).prev = k.prev /\ Send(k).replayed = k.replayed
         /\ Send(k).room => k.room
<1> DEFINE idle == [k EXCEPT !.job = Nothing]
           clean == [k EXCEPT !.job = Nothing, !.rec.diverged = "none"]
           begun == [k EXCEPT !.job = Wanted(k), !.room = FALSE, !.rec.owed = "owed"]
<1>1. /\ Fit(idle) /\ SameStack(k, idle) /\ idle.prev = k.prev
      /\ idle.replayed = k.replayed /\ idle.room = k.room
  BY OtherMarks, ConstantCommands DEF Fit, Knowledge, SameStack
<1>2. /\ Fit(clean) /\ SameStack(k, clean) /\ clean.prev = k.prev
      /\ clean.replayed = k.replayed /\ clean.room = k.room
  <2>1. clean = [idle EXCEPT !.rec.diverged = "none"]
    BY DEF Fit, Knowledge
  <2> HIDE DEF clean, idle
  <2>2. Fit(clean) /\ SameStack(idle, clean)
    BY <1>1, <2>1, OtherNotes, Notes
  <2>3. clean.prev = idle.prev /\ clean.replayed = idle.replayed /\ clean.room = idle.room
    BY <1>1, <2>1 DEF Fit, Knowledge
  <2> QED BY <1>1, <2>2, <2>3, SameStackComposes
<1>3. /\ Fit(begun) /\ SameStack(k, begun) /\ begun.prev = k.prev
      /\ begun.replayed = k.replayed /\ ~begun.room
  <2> DEFINE ready == [k EXCEPT !.job = Wanted(k), !.room = FALSE]
  <2>1. Wanted(k) \in Command
    BY WantedType
  <2>2. /\ Fit(ready) /\ SameStack(k, ready) /\ ready.prev = k.prev
        /\ ready.replayed = k.replayed /\ ~ready.room
    BY <2>1 DEF Fit, Knowledge, SameStack
  <2>3. begun = [ready EXCEPT !.rec.owed = "owed"]
    BY <2>1 DEF Fit, Knowledge
  <2> HIDE DEF begun, ready
  <2>4. Fit(begun) /\ SameStack(ready, begun)
    BY <2>2, <2>3, OtherNotes, Notes
  <2>5. begun.prev = ready.prev /\ begun.replayed = ready.replayed /\ begun.room = ready.room
    BY <2>2, <2>3 DEF Fit, Knowledge
  <2> QED BY <2>2, <2>4, <2>5, SameStackComposes
<1> HIDE DEF idle, clean, begun
<1>4. /\ Fit(Settles(idle)) /\ SameStack(k, Settles(idle))
      /\ Settles(idle).prev = k.prev /\ Settles(idle).replayed = k.replayed
      /\ Settles(idle).room = k.room
  BY <1>1, SettlesFit, SameStackComposes
<1>5. /\ Fit(Settles(clean)) /\ SameStack(k, Settles(clean))
      /\ Settles(clean).prev = k.prev /\ Settles(clean).replayed = k.replayed
      /\ Settles(clean).room = k.room
  BY <1>2, SettlesFit, SameStackComposes
<1> DEFINE unknown == Wanted(k) = Nothing
           shown == /\ Shows(k.rec, EffectiveNow(k.rec)) = "yes"
                    /\ k.job \in {Nothing, Wanted(k)}
<1>6. Send(k) = CASE unknown -> Settles(idle)
                  [] ~unknown /\ shown -> Settles(clean)
                  [] OTHER -> begun
  BY DEF Send, idle, clean, begun
<1> HIDE DEF unknown, shown
<1>7. CASE unknown
  BY <1>4, <1>6, <1>7
<1>8. CASE ~unknown /\ shown
  BY <1>5, <1>6, <1>8
<1>9. CASE ~unknown /\ ~shown
  BY <1>3, <1>6, <1>9
<1> QED BY <1>7, <1>8, <1>9

\* A render that is out of date is dropped (_drop_stale_render).
LEMMA DropStaleFit ==
  ASSUME NEW k, Fit(k)
  PROVE  /\ Fit(DropStale(k)) /\ SameStack(k, DropStale(k))
         /\ DropStale(k).prev = k.prev /\ DropStale(k).replayed = k.replayed
         /\ DropStale(k).room = k.room
<1> DEFINE idle == [k EXCEPT !.job = Nothing]
<1>1. /\ Fit(idle) /\ SameStack(k, idle) /\ idle.prev = k.prev
      /\ idle.replayed = k.replayed /\ idle.room = k.room
  BY OtherMarks, ConstantCommands DEF Fit, Knowledge, SameStack
<1> HIDE DEF idle
<1>2. /\ Fit(Settles(idle)) /\ SameStack(k, Settles(idle))
      /\ Settles(idle).prev = k.prev /\ Settles(idle).replayed = k.replayed
      /\ Settles(idle).room = k.room
  BY <1>1, SettlesFit, SameStackComposes
<1> QED BY <1>2, SameStackComposes DEF DropStale, idle

\* The layers are put back when the loop has gone quiet.
LEMMA ReplayedFit ==
  ASSUME NEW k, Fit(k)
  PROVE  /\ Fit(Replayed(k)) /\ SameStack(k, Replayed(k))
         /\ Replayed(k).room = k.room
<1> DEFINE marked == [k EXCEPT !.replayed = TRUE]
<1>1. Fit(marked) /\ SameStack(k, marked) /\ marked.room = k.room
  BY OtherMarks DEF Fit, Knowledge, SameStack
<1> HIDE DEF marked
<1> QED BY <1>1, DropStaleFit, SameStackComposes DEF Replayed, marked

\* What was pending on the lamp goes (_supersede).
LEMMA DroppedFit ==
  ASSUME NEW k, Fit(k)
  PROVE  /\ Fit(Dropped(k)) /\ Calm(Dropped(k))
         /\ Dropped(k).rec = k.rec /\ Dropped(k).room = k.room
BY ConstantCommands DEF Fit, Knowledge, Dropped, Calm, Runs

-----------------------------------------------------------------------------
(* What a change of somebody's leaves of the record *)

\* Only follow layers are left.
OnlyFollows(r) == \A i \in Id : Present(r.layers, i) => r.layers[i].mode = "follow"

\* Taking back leaves only follow layers, which followed before (take_back).
LEMMA TakenBack ==
  ASSUME NEW r \in Record, NEW shown \in Command, NEW groups, NEW source, NEW chosen
  PROVE  LET q == ApplyExternal(r, shown, groups, source, "take_back", chosen)
         IN /\ q.observed = r.observed /\ q.changed = r.changed
            /\ q.base = Merge(r.base, shown, groups)
            /\ \A i \in Id : Present(q.layers, i) =>
                 q.layers[i].mode = "follow" /\ r.layers[i].mode = "follow"
<1> DEFINE hand == IF chosen = Everything THEN Groups(shown) \cap groups ELSE chosen
           layers == TakeOver(r.layers, hand)
           over == [r EXCEPT !.layers = layers]
           base == Merge(r.base, shown, groups)
           based == [over EXCEPT !.base = base]
           dropped == DropAll(based)
           d == IF Partial(dropped, groups) THEN "partial" ELSE "none"
           done == [dropped EXCEPT !.diverged = d]
           last == [policy |-> "take_back", source |-> source, groups |-> groups, tail |-> TRUE]
           q == [done EXCEPT !.owed = "nothing", !.last = last]
<1>1. ApplyExternal(r, shown, groups, source, "take_back", chosen) = q
  <2>1. ~Reasserts(r, source, "take_back")
    BY DEF Reasserts
  <2> QED BY <2>1 DEF ApplyExternal, TakeBack
<1>2. /\ layers \in [Id -> Layer \cup {NoLayer}]
      /\ \A i \in Id : /\ layers[i] = NoLayer <=> r.layers[i] = NoLayer
                       /\ r.layers[i] # NoLayer => layers[i].mode = r.layers[i].mode
  <2> SUFFICES ASSUME NEW i \in Id
               PROVE  /\ layers[i] \in Layer \cup {NoLayer}
                      /\ layers[i] = NoLayer <=> r.layers[i] = NoLayer
                      /\ r.layers[i] # NoLayer => layers[i].mode = r.layers[i].mode
    BY DEF TakeOver
  <2>1. r.layers[i] \in Layer \cup {NoLayer}
    BY DEF Record
  <2>2. CASE hand \cap AttrGroup # {} /\ i \in OfMode(r.layers, "follow")
    <3> DEFINE lay == r.layers[i]
               manual == lay.manual \cup (hand \cap AttrGroup)
               lease == IF lay.manualTimeout THEN "running" ELSE lay.manualLease
               taken == [lay EXCEPT !.manual = manual, !.manualLease = lease]
    <3>1. lay \in Layer
      BY <2>1, <2>2 DEF OfMode, Live, Present
    <3>2. layers[i] = taken
      BY <2>2 DEF TakeOver
    <3>3. manual \in SUBSET AttrGroup /\ lease \in Lease
      BY <3>1 DEF Layer, Lease
    <3> HIDE DEF manual, lease, lay, layers
    <3>4. taken \in Layer /\ taken.mode = lay.mode
      BY <3>1, <3>3 DEF Layer
    <3> QED BY <3>1, <3>2, <3>4, LayerAssumption DEF lay
  <2>3. CASE ~(hand \cap AttrGroup # {} /\ i \in OfMode(r.layers, "follow"))
    <3>1. layers[i] = r.layers[i]
      BY <2>3 DEF TakeOver
    <3> QED BY <2>1, <3>1
  <2> QED BY <2>2, <2>3
<1> HIDE DEF layers, base
<1>3. /\ based.observed = r.observed /\ based.changed = r.changed /\ based.base = base
      /\ based.layers = layers /\ based.tombs = r.tombs
      /\ DOMAIN based = DOMAIN r
  BY DEF Record
<1>4. /\ dropped.observed = r.observed /\ dropped.changed = r.changed /\ dropped.base = base
      /\ \A i \in Id : Present(dropped.layers, i) =>
           dropped.layers[i].mode = "follow" /\ r.layers[i].mode = "follow"
  <2> DEFINE kept == [i \in Id |-> IF i \in Droppable(based) THEN NoLayer ELSE based.layers[i]]
  <2>1. /\ dropped.observed = based.observed /\ dropped.changed = based.changed
        /\ dropped.base = based.base /\ dropped.layers = kept
    BY <1>3 DEF DropAll, Record
  <2>2. ASSUME NEW i \in Id, Present(kept, i)
        PROVE  kept[i].mode = "follow" /\ r.layers[i].mode = "follow"
    <3>1. i \notin Droppable(based) /\ kept[i] = layers[i] /\ layers[i] # NoLayer
      BY <1>3, <2>2 DEF Present
    <3>2. layers[i].mode = "follow"
      BY <1>3, <3>1 DEF Droppable, Present
    <3> QED BY <1>2, <3>1, <3>2
  <2> HIDE DEF kept, dropped
  <2> QED BY <1>3, <2>1, <2>2
<1> HIDE DEF based, dropped, d
<1>5. /\ q.observed = dropped.observed /\ q.changed = dropped.changed
      /\ q.base = dropped.base /\ q.layers = dropped.layers
  OBVIOUS
<1> HIDE DEF q
<1> QED BY <1>1, <1>4, <1>5 DEF base

\* A lamp seen off gives up its barriers and take-overs, and no more
\* (lift_on_off, release_manual).
LEMMA SeenOffSpares ==
  ASSUME NEW r \in Record, NEW off
  PROVE  LET q == SeenOffIf(r, off)
         IN /\ q.observed = r.observed /\ q.changed = r.changed /\ q.base = r.base
            /\ \A i \in Id : Present(q.layers, i) =>
                 r.layers[i] # NoLayer /\ q.layers[i].mode = r.layers[i].mode
<1> DEFINE lifted == LiftOnOff(r)
           q == ReleaseManual(lifted, TRUE)
<1>1. /\ lifted.observed = r.observed /\ lifted.changed = r.changed /\ lifted.base = r.base
      /\ lifted.layers = r.layers /\ DOMAIN lifted = DOMAIN r
  BY DEF LiftOnOff, Record
<1> DEFINE layers == [i \in Id |-> IF i \in Released(lifted, TRUE)
                                  THEN [r.layers[i] EXCEPT !.manual = {}, !.manualLease = "none"]
                                  ELSE r.layers[i]]
<1>2. /\ q.observed = r.observed /\ q.changed = r.changed /\ q.base = r.base
      /\ q.layers = layers
  BY <1>1 DEF ReleaseManual, Record
<1>3. ASSUME NEW i \in Id, layers[i] # NoLayer
      PROVE  r.layers[i] # NoLayer /\ layers[i].mode = r.layers[i].mode
  <2>1. CASE i \in Released(lifted, TRUE)
    <3>1. r.layers[i] \in Layer
      BY <1>1, <2>1 DEF Released, Present, Record
    <3> QED BY <2>1, <3>1, LayerAssumption DEF Layer
  <2>2. CASE i \notin Released(lifted, TRUE)
    BY <1>3, <2>2
  <2> QED BY <2>1, <2>2
<1> HIDE DEF q, layers, lifted
<1> QED BY <1>2, <1>3 DEF SeenOffIf, SeenOff, Present, q, lifted

\* A report judged to be someone's (_external).
LEMMA JudgedLeaves ==
  ASSUME NEW r, Good(r), NEW groups \in Take, NEW source \in ChangeSource, NEW chosen
  PROVE  LET q == Judged(r, groups, source, "take_back", chosen)
         IN /\ Good(q)
            /\ q.observed = r.observed /\ q.changed = r.changed
            /\ q.base = Merge(r.base, ObservedToCommand(r.observed), groups)
            /\ \A i \in Id : Present(q.layers, i) =>
                 q.layers[i].mode = "follow" /\ r.layers[i].mode = "follow"
<1> DEFINE s == Supersede(r)
           shown == ObservedToCommand(r.observed)
           t == ApplyExternal(s, shown, groups, source, "take_back", chosen)
           q == SeenOffIf(t, r.observed.state = "off")
<1>1. r \in Record /\ "take_back" \in Policies
  BY DEF Good, Policies
<1>2. /\ s \in Record /\ s.observed = r.observed /\ s.changed = r.changed
      /\ s.base = r.base /\ s.layers = r.layers
  BY <1>1, SupersedeQuiet DEF Becomes, Supersede, Record
<1>3. shown \in Command
  BY <1>1, ObservedType DEF Record
<1> HIDE DEF s, shown
<1>4. t \in Record
  BY <1>1, <1>2, <1>3, ApplyExternalQuiet DEF Becomes
<1>5. /\ t.observed = s.observed /\ t.changed = s.changed
      /\ t.base = Merge(s.base, shown, groups)
      /\ \A i \in Id : Present(t.layers, i) =>
           t.layers[i].mode = "follow" /\ s.layers[i].mode = "follow"
  BY <1>2, <1>3, TakenBack
<1> HIDE DEF t
<1>6. /\ q.observed = t.observed /\ q.changed = t.changed /\ q.base = t.base
      /\ \A i \in Id : Present(q.layers, i) =>
           t.layers[i] # NoLayer /\ q.layers[i].mode = t.layers[i].mode
  BY <1>4, SeenOffSpares
<1>7. Judged(r, groups, source, "take_back", chosen) = q
  BY DEF Judged, q, t, s, shown
<1>8. Good(Judged(r, groups, source, "take_back", chosen))
  BY <1>1, JudgedQuiet, GoodKept
<1> HIDE DEF q
<1> QED BY <1>2, <1>5, <1>6, <1>7, <1>8 DEF shown, Present

\* A replay teaches the base and leaves the layers (apply_replay).
LEMMA ReplayLeaves ==
  ASSUME NEW r, Good(r), NEW shown \in Command, NEW groups \in Take,
         NEW source \in ChangeSource
  PROVE  LET q == ApplyReplay(r, shown, groups, source)
         IN /\ Good(q) /\ q.layers = r.layers
            /\ q.observed = r.observed /\ q.changed = r.changed
<1>1. Good(ApplyReplay(r, shown, groups, source))
  BY ApplyReplayQuiet, GoodKept DEF Good
<1> QED BY <1>1 DEF ApplyReplay, Good, Record
-----------------------------------------------------------------------------
(* Handlers, on what is known of one lamp *)

\* Fit afterwards, with the flag that layers changed where it was, and with a
\* room's call remembered only if it was before.
Steady(k, q) ==
  Fit(q) /\ q.rec.changed = k.rec.changed /\ (q.room => k.room)

LEMMA SteadyComposes ==
  ASSUME NEW p, NEW q, NEW r
  PROVE  /\ Fit(p) => Steady(p, p)
         /\ Steady(p, q) /\ Steady(q, r) => Steady(p, r)
BY DEF Steady

\* What the parts of handlers so far come to.
LEMMA PartsSteady ==
  ASSUME NEW k, Fit(k)
  PROVE  /\ Steady(k, Send(k)) /\ Steady(k, DropStale(k)) /\ Steady(k, Replayed(k))
         /\ Steady(k, Dropped(k))
BY SendFit, DropStaleFit, ReplayedFit, DroppedFit DEF Steady, SameStack

LEMMA OtherRecordSteady ==
  ASSUME NEW k, Fit(k), NEW r, Good(r), Available(r), r.changed = k.rec.changed
  PROVE  Steady(k, [k EXCEPT !.rec = r])
BY OtherRecord DEF Steady

LEMMA Sources == {"user", "device"} \subseteq ChangeSource
BY DEF ChangeSource

\* A change that is somebody's takes the layers back (_external).
LEMMA TakenFit ==
  ASSUME NEW k, Fit(k), NEW groups \in Take, NEW source \in ChangeSource, NEW chosen
  PROVE  LET q == Taken(k, groups, source, chosen)
         IN /\ Steady(k, q) /\ Calm(q)
            /\ q.rec = Judged(k.rec, groups, source, "take_back", chosen)
<1> DEFINE dropped == Dropped(k)
           judged == Judged(dropped.rec, groups, source, "take_back", chosen)
<1>1. /\ Fit(dropped) /\ Calm(dropped) /\ dropped.rec = k.rec /\ dropped.room = k.room
  BY DroppedFit
<1> HIDE DEF dropped
<1>2. Good(judged) /\ Available(judged) /\ judged.changed = dropped.rec.changed
  BY <1>1, JudgedLeaves DEF Fit, Available
<1>3. /\ Fit([dropped EXCEPT !.rec = judged])
      /\ [dropped EXCEPT !.rec = judged].rec = judged
      /\ [dropped EXCEPT !.rec = judged].prev = dropped.prev
      /\ [dropped EXCEPT !.rec = judged].job = dropped.job
      /\ [dropped EXCEPT !.rec = judged].room = dropped.room
      /\ [dropped EXCEPT !.rec = judged].replayed = dropped.replayed
  BY <1>1, <1>2, OtherRecord
<1>4. Taken(k, groups, source, chosen) = [dropped EXCEPT !.rec = judged]
  BY DEF Taken, dropped, judged
<1>5. judged = Judged(k.rec, groups, source, "take_back", chosen)
  BY <1>1 DEF judged
<1> HIDE DEF judged
<1> QED BY <1>1, <1>2, <1>3, <1>4, <1>5 DEF Steady, Calm, Runs

\* What a person chose with a change is among what it can change (_chosen).
LEMMA ChosenType ==
  ASSUME NEW named, NEW before, NEW o
  PROVE  Chosen(named, before, o) \in SUBSET Everything
<1>1. AttrGroup \subseteq Everything
  BY DEF AttrGroup, Everything, Group
<1>2. CASE named # Everything
  BY <1>1, <1>2 DEF Chosen
<1>3. CASE named = Everything
  BY <1>1, <1>3 DEF Chosen
<1> QED BY <1>2, <1>3

\* The end of a debounce (_settle_debounce).
LEMMA SettledFit ==
  ASSUME NEW k, Fit(k)
  PROVE  LET q == Settled(k)
         IN /\ Steady(k, q) /\ q.prev = Away
            /\ \/ q = [k EXCEPT !.prev = Away]
               \/ \E groups \in Take, chosen \in SUBSET Everything :
                    q.rec = Judged(k.rec, groups, "device", "take_back", chosen)
<1> DEFINE idle == [k EXCEPT !.prev = Away]
           groups == ChangedGroups(k.prev, k.rec.observed)
           chosen == Chosen(Everything, k.prev, k.rec.observed)
           taken == Taken(k, groups, "device", chosen)
<1>1. Steady(k, idle) /\ idle.prev = Away
  BY OtherMarks, ConstantCommands DEF Steady, Fit, Knowledge
<1>2. groups \in Take /\ chosen \in SUBSET Everything
  BY TakeTypes, ChosenType
<1>3. Settled(k) \in {taken, idle}
  BY DEF Settled, taken, idle, groups, chosen
<1> HIDE DEF idle, groups, chosen
<1>4. /\ Steady(k, taken) /\ taken.prev = Away
      /\ taken.rec = Judged(k.rec, groups, "device", "take_back", chosen)
  BY <1>2, TakenFit, Sources DEF Calm
<1> HIDE DEF taken
<1> QED BY <1>1, <1>2, <1>3, <1>4 DEF idle

\* A change that waits is judged first (_flush_debounce).
LEMMA FlushFit ==
  ASSUME NEW k, Fit(k)
  PROVE  Steady(k, Flush(k)) /\ Flush(k).prev = Away
BY SettledFit, SteadyComposes DEF Flush

\* A report is noted.
LEMMA SeenFit ==
  ASSUME NEW k, Fit(k), NEW o \in Report \ {Away}
  PROVE  LET seen == [k EXCEPT !.rec = Showing(@, o)]
         IN /\ Steady(k, seen)
            /\ seen.rec.layers = k.rec.layers /\ seen.rec.tombs = k.rec.tombs
            /\ seen.rec.base = k.rec.base /\ seen.rec.observed = o
            /\ seen.prev = k.prev /\ seen.job = k.job /\ seen.replayed = k.replayed
<1> DEFINE r == Showing(k.rec, o)
<1>1. k.rec \in Record /\ Good(k.rec)
  BY DEF Fit, Good
<1>2. /\ r.layers = k.rec.layers /\ r.tombs = k.rec.tombs /\ r.base = k.rec.base
      /\ r.observed = o /\ r.changed = k.rec.changed
  BY <1>1 DEF Showing, Record
<1>3. Good(r) /\ Available(r)
  <2>1. Good(r)
    BY <1>1, ShowingQuiet, GoodKept
  <2>2. o.state # "away"
    BY DEF Report, Away, Cmd
  <2> QED BY <1>2, <2>1, <2>2 DEF Available
<1> HIDE DEF r
<1>4. /\ Steady(k, [k EXCEPT !.rec = r]) /\ [k EXCEPT !.rec = r].rec = r
      /\ [k EXCEPT !.rec = r].prev = k.prev /\ [k EXCEPT !.rec = r].job = k.job
      /\ [k EXCEPT !.rec = r].replayed = k.replayed
  BY <1>2, <1>3, OtherRecord, OtherRecordSteady
<1> QED BY <1>2, <1>4 DEF r

\* What a call names is brightness and colour.
LEMMA NamedType ==
  ASSUME NEW call
  PROVE  NamedBy(call) \in SUBSET AttrGroup
BY DEF NamedBy

\* A report put down to a call (_handle_state).
LEMMA ByCallFit ==
  ASSUME NEW k, Fit(k), NEW groups \in Take, NEW chosen, NEW o \in Report \ {Away}, NEW old
  PROVE  LET q == ByCall(k, groups, chosen, o, old)
         IN /\ Steady(k, q)
            /\ old => q.rec.layers = k.rec.layers
            /\ ~old => /\ Calm(q)
                       /\ q.rec = Judged(Showing(k.rec, o), groups, "user", "take_back", chosen)
<1> DEFINE seen == [k EXCEPT !.rec = Showing(@, o)]
           r == [seen.rec EXCEPT !.atDrop = Away]
           learnt == ApplyReplay(r, ObservedToCommand(o), groups, "user")
           noted == [seen EXCEPT !.prev = Away]
           taught == [noted EXCEPT !.rec = learnt]
<1>1. /\ Steady(k, seen) /\ seen.rec.layers = k.rec.layers /\ seen.rec.observed = o
  BY SeenFit
<1>3. seen.rec = Showing(k.rec, o)
  BY DEF Fit, Knowledge
<1>4. ByCall(k, groups, chosen, o, old) =
        IF old THEN Replayed([seen EXCEPT !.prev = Away, !.rec = learnt])
        ELSE Taken(seen, groups, "user", chosen)
  BY DEF ByCall, learnt, r, seen
<1>5. [seen EXCEPT !.prev = Away, !.rec = learnt] = taught
  BY <1>1 DEF Steady, Fit, Knowledge
<1>6. Fit(seen) /\ seen.rec \in Record
  BY <1>1 DEF Steady, Fit, Good
<1> HIDE DEF seen
<1>7. /\ Fit(noted) /\ noted.rec = seen.rec /\ noted.room = seen.room
  BY <1>6, OtherMarks, ConstantCommands DEF Fit, Knowledge
<1>8. /\ Good(r) /\ Available(r)
      /\ r.layers = seen.rec.layers /\ r.changed = seen.rec.changed
  <2>1. r \in Record /\ r.layers = seen.rec.layers /\ r.tombs = seen.rec.tombs
        /\ r.changed = seen.rec.changed /\ r.observed = seen.rec.observed
    BY <1>6, ConstantCommands DEF Record
  <2> QED BY <1>6, <2>1, SameLayers, GoodKept DEF Fit, Available
<1> HIDE DEF r
<1>9. /\ Good(learnt) /\ Available(learnt)
      /\ learnt.layers = r.layers /\ learnt.changed = r.changed
  BY <1>8, ObservedType, Sources, ReplayLeaves DEF Available
<1> HIDE DEF learnt, noted
<1>10. Steady(noted, taught) /\ taught.rec = learnt
  BY <1>7, <1>8, <1>9, OtherRecord, OtherRecordSteady
<1> HIDE DEF taught
<1>11. /\ Steady(k, Replayed(taught))
       /\ Replayed(taught).rec.layers = k.rec.layers
  <2>1. Steady(k, noted)
    BY <1>1, <1>7 DEF Steady
  <2>2. Steady(taught, Replayed(taught)) /\ SameStack(taught, Replayed(taught))
    BY <1>10, PartsSteady, ReplayedFit DEF Steady
  <2> QED BY <1>1, <1>8, <1>9, <1>10, <2>1, <2>2, SteadyComposes DEF SameStack
<1>12. /\ Steady(k, Taken(seen, groups, "user", chosen))
       /\ Calm(Taken(seen, groups, "user", chosen))
       /\ Taken(seen, groups, "user", chosen).rec =
            Judged(seen.rec, groups, "user", "take_back", chosen)
  BY <1>1, <1>6, TakenFit, Sources, SteadyComposes
<1> QED BY <1>3, <1>4, <1>5, <1>11, <1>12

\* What a call no report may reveal leaves of the record, when it is acted on.
Intended(r, cmd, named) ==
  SeenOffIf(ApplyExternal(Supersede(r), cmd, named \cup {"state"}, "user", "take_back", named),
            r.observed.state = "off")

LEMMA IntendedLeaves ==
  ASSUME NEW r, Good(r), NEW cmd \in Command, NEW named \in SUBSET AttrGroup
  PROVE  LET q == Intended(r, cmd, named)
         IN /\ Good(q)
            /\ q.observed = r.observed /\ q.changed = r.changed
            /\ q.base = Merge(r.base, cmd, named \cup {"state"})
            /\ OnlyFollows(q)
<1> DEFINE s == Supersede(r)
           groups == named \cup {"state"}
           t == ApplyExternal(s, cmd, groups, "user", "take_back", named)
           q == SeenOffIf(t, r.observed.state = "off")
<1>1. r \in Record /\ "take_back" \in Policies /\ "user" \in ChangeSource
  BY DEF Good, Policies, ChangeSource
<1>2. groups \in Take
  BY TakeTypes
<1>3. /\ Becomes(r, s) /\ s \in Record /\ s.observed = r.observed /\ s.changed = r.changed
      /\ s.base = r.base /\ s.layers = r.layers
  BY <1>1, SupersedeQuiet DEF Becomes, Supersede, Record
<1> HIDE DEF s, groups
<1>4. Becomes(s, t) /\ t \in Record
  BY <1>1, <1>2, <1>3, ApplyExternalQuiet DEF Becomes
<1>5. /\ t.observed = s.observed /\ t.changed = s.changed
      /\ t.base = Merge(s.base, cmd, groups)
      /\ \A i \in Id : Present(t.layers, i) => t.layers[i].mode = "follow"
  BY <1>3, TakenBack
<1> HIDE DEF t
<1>6. /\ q.observed = t.observed /\ q.changed = t.changed /\ q.base = t.base
      /\ \A i \in Id : Present(q.layers, i) =>
           t.layers[i] # NoLayer /\ q.layers[i].mode = t.layers[i].mode
  BY <1>4, SeenOffSpares
<1>7. Becomes(t, q)
  BY <1>4, SeenOffQuiet
<1>8. Good(q)
  BY <1>3, <1>4, <1>7, GoodKept
<1>9. Intended(r, cmd, named) = q
  BY DEF Intended, q, t, s, groups
<1> HIDE DEF q
<1> QED BY <1>3, <1>5, <1>6, <1>8, <1>9 DEF groups, Present, OnlyFollows

\* A call that nothing may report (the intent path of _handle_call).
LEMMA ByIntentFit ==
  ASSUME NEW k, Fit(k), NEW cmd \in Command, NEW named \in SUBSET AttrGroup, NEW old
  PROVE  LET q == ByIntent(k, cmd, named, old)
         IN /\ Steady(k, q)
            /\ ~IntentHeard(k.rec, cmd) => q = k
            /\ old => q.rec.layers = k.rec.layers
            /\ IntentHeard(k.rec, cmd) /\ ~old =>
                 Calm(q) /\ q.rec = Intended(k.rec, cmd, named)
<1> DEFINE groups == named \cup {"state"}
           learnt == ApplyReplay(k.rec, cmd, groups, "user")
           taught == [k EXCEPT !.rec = learnt]
           dropped == Dropped(k)
           intended == Intended(k.rec, cmd, named)
           taken == [dropped EXCEPT !.rec = intended]
<1>1. Good(k.rec)
  BY DEF Fit
<1>2. groups \in Take
  BY TakeTypes
<1>3. ByIntent(k, cmd, named, old) =
        CASE ~IntentHeard(k.rec, cmd) -> k
          [] IntentHeard(k.rec, cmd) /\ old -> Replayed(taught)
          [] OTHER -> taken
  <2>1. /\ learnt = ApplyReplay(k.rec, cmd, groups, "user")
        /\ intended = SeenOffIf(ApplyExternal(Supersede(k.rec), cmd, groups, "user",
                                              "take_back", named),
                                k.rec.observed.state = "off")
    BY DEF Intended
  <2>2. intended.observed = k.rec.observed
    BY <1>1, IntendedLeaves
  <2>3. taken = [Dropped(k) EXCEPT !.rec = intended]
    OBVIOUS
  <2> DEFINE t == ApplyExternal(Supersede(k.rec), cmd, groups, "user", "take_back", named)
  <2>4. ByIntent(k, cmd, named, old) =
          CASE ~IntentHeard(k.rec, cmd) -> k
            [] IntentHeard(k.rec, cmd) /\ old ->
                 Replayed([k EXCEPT !.rec = ApplyReplay(@, cmd, groups, "user")])
            [] OTHER -> [Dropped(k) EXCEPT !.rec = SeenOffIf(t, k.rec.observed.state = "off")]
    BY DEF ByIntent
  <2> QED BY <2>1, <2>3, <2>4
<1> HIDE DEF groups
<1>4. /\ Good(learnt) /\ Available(learnt)
      /\ learnt.layers = k.rec.layers /\ learnt.changed = k.rec.changed
  BY <1>1, <1>2, ReplayLeaves, Sources DEF Available, Fit
<1> HIDE DEF learnt
<1>5. Steady(k, taught) /\ taught.rec = learnt
  BY <1>4, OtherRecord, OtherRecordSteady
<1> HIDE DEF taught
<1>6. Steady(k, Replayed(taught)) /\ Replayed(taught).rec.layers = k.rec.layers
  <2>1. Steady(taught, Replayed(taught)) /\ SameStack(taught, Replayed(taught))
    BY <1>5, PartsSteady, ReplayedFit DEF Steady
  <2> QED BY <1>4, <1>5, <2>1, SteadyComposes DEF SameStack
<1>7. Fit(dropped) /\ Calm(dropped) /\ dropped.rec = k.rec /\ dropped.room = k.room
  BY DroppedFit
<1>8. Good(intended) /\ Available(intended) /\ intended.changed = k.rec.changed
  BY <1>1, IntendedLeaves DEF Available, Fit
<1> HIDE DEF dropped, intended
<1>9. Steady(k, taken) /\ Calm(taken) /\ taken.rec = intended
  <2>1. Fit(taken) /\ taken.rec = intended /\ taken.prev = dropped.prev
        /\ taken.job = dropped.job /\ taken.room = dropped.room
        /\ taken.replayed = dropped.replayed
    BY <1>7, <1>8, OtherRecord
  <2> QED BY <1>7, <1>8, <2>1 DEF Steady, Calm, Runs
<1> HIDE DEF taken
<1>10. CASE ~IntentHeard(k.rec, cmd)
  BY <1>3, <1>10, SteadyComposes
<1>11. CASE IntentHeard(k.rec, cmd) /\ old
  BY <1>3, <1>6, <1>11
<1>12. CASE IntentHeard(k.rec, cmd) /\ ~old
  BY <1>3, <1>9, <1>12 DEF intended
<1> QED BY <1>10, <1>11, <1>12
-----------------------------------------------------------------------------
(* Sets and clears *)

\* Whatever a set is, but refused, skipped or a repetition, the layers are
\* changed (last_layers_change).
LEMMA SetNotes ==
  ASSUME NEW r \in Record, NEW req \in SetRequest
  PROVE  LET out == ApplySet(r, req)
         IN /\ out.rec.observed = r.observed
            /\ \/ out.result \in Skips \cup Refusals \cup {"refreshed"}
               \/ out.rec.changed
<1> DEFINE Fine(out) == /\ out.rec.observed = r.observed
                        /\ \/ out.result \in Skips \cup Refusals \cup {"refreshed"}
                           \/ out.rec.changed
<1>1. ASSUME NEW i, NEW lay, NEW result \in Skips \cup Refusals \cup {"refreshed"}
      PROVE  /\ Fine(Outcome(r, result))
             /\ Fine(Outcome([r EXCEPT !.layers[i] = lay], result))
  BY DEF Outcome, Record
<1>3. ASSUME NEW i, NEW lay, NEW result
      PROVE  Fine(PutLayer(r, i, lay, result))
  <2>1. /\ LayersChanged([r EXCEPT !.layers[i] = lay]).changed
        /\ LayersChanged([r EXCEPT !.layers[i] = lay]).observed = r.observed
    BY DEF LayersChanged, Record
  <2> QED BY <2>1 DEF PutLayer, Outcome
<1>4. Fine(SetBaseLayer(r, req))
  <2>1. \A base : /\ LayersChanged([r EXCEPT !.base = base]).changed
                   /\ LayersChanged([r EXCEPT !.base = base]).observed = r.observed
    BY DEF LayersChanged, Record
  <2> QED BY <2>1 DEF SetBaseLayer, Outcome
<1>5. {"invalid_request", "priority_required", "priority_conflict", "skipped_tombstoned",
       "skipped_absent", "refreshed"} \subseteq Skips \cup Refusals \cup {"refreshed"}
  BY DEF Skips, Refusals
<1> HIDE DEF Fine
<1>6. Fine(SetActiveLayer(r, req))
  BY <1>3, <1>4 DEF SetActiveLayer
<1>7. Fine(CreateLayer(r, req))
  BY <1>1, <1>3, <1>5 DEF CreateLayer
<1>8. Fine(SetFollowLayer(r, req))
  BY <1>1, <1>3, <1>5 DEF SetFollowLayer
<1>9. Fine(UpdateLayer(r, req))
  BY <1>1, <1>3, <1>5 DEF UpdateLayer
<1>10. Fine(SetNamedLayer(r, req))
  BY <1>1, <1>5, <1>7, <1>8, <1>9 DEF SetNamedLayer
<1>11. Fine(ApplySet(r, req))
  BY <1>1, <1>4, <1>5, <1>6, <1>10 DEF ApplySet
<1> QED BY <1>11 DEF Fine

\* What a set comes to on a lamp whose waiting change has been judged.
LEMMA ReadyFit ==
  ASSUME NEW l \in Lamp, Fit(lamp[l])
  PROVE  /\ Steady(lamp[l], Ready(l)) /\ Ready(l).prev = Away
         /\ Becomes(Flush(lamp[l]).rec, Ready(l).rec)
         /\ Ready(l).rec.layers = Flush(lamp[l]).rec.layers
         /\ Ready(l).rec.tombs = Flush(lamp[l]).rec.tombs
<1> DEFINE k == Flush(lamp[l])
           r == LearnBase(k.rec)
<1>1. Steady(lamp[l], k) /\ k.prev = Away /\ Fit(k)
  BY FlushFit DEF Steady
<1> HIDE DEF k
<1>2. k.rec \in Record /\ Good(k.rec)
  BY <1>1 DEF Fit, Good
<1>3. Becomes(k.rec, r)
  BY <1>2, LearnBaseQuiet
<1>4. r.layers = k.rec.layers /\ r.tombs = k.rec.tombs /\ r.changed = k.rec.changed
  BY <1>2 DEF LearnBase, RecordObservedAsBase, Record
<1>5. Good(r) /\ Available(r)
  <2>1. r.observed = k.rec.observed
    BY <1>2 DEF LearnBase, RecordObservedAsBase, Record
  <2> QED BY <1>1, <1>2, <1>3, <2>1, GoodKept DEF Fit, Available
<1>6. Ready(l) = [k EXCEPT !.rec = r]
  BY <1>1 DEF Ready, k, r, Fit, Knowledge
<1> HIDE DEF r
<1>7. /\ Steady(k, [k EXCEPT !.rec = r]) /\ [k EXCEPT !.rec = r].rec = r
      /\ [k EXCEPT !.rec = r].prev = k.prev
  BY <1>1, <1>4, <1>5, OtherRecord, OtherRecordSteady
<1> QED BY <1>1, <1>3, <1>4, <1>6, <1>7, SteadyComposes DEF k

\* A command that changed is rendered, one that did not is not (set_layer,
\* clear_layer).
LEMMA CommandedFit ==
  ASSUME NEW k, Fit(k), NEW r, Good(r), Available(r)
  PROVE  LET q == Commanded(k, r)
         IN /\ Fit(q) /\ (q.room => k.room)
            /\ q.rec.layers = r.layers /\ q.rec.base = r.base
            /\ q.rec.observed = r.observed /\ q.rec.changed = r.changed
            /\ q.prev = k.prev /\ q.replayed = k.replayed
            /\ q \in {[k EXCEPT !.rec = r], Send([k EXCEPT !.rec = r])}
<1> DEFINE p == [k EXCEPT !.rec = r]
<1>1. Fit(p) /\ p.rec = r /\ p.room = k.room /\ p.prev = k.prev /\ p.replayed = k.replayed
  BY OtherRecord
<1>2. Commanded(k, r) \in {p, Send(p)}
  BY DEF Commanded
<1> HIDE DEF p
<1>3. /\ Fit(Send(p)) /\ SameStack(p, Send(p)) /\ (Send(p).room => p.room)
      /\ Send(p).prev = p.prev /\ Send(p).replayed = p.replayed
  BY <1>1, SendFit
<1>4. Commanded(k, r) \in {[k EXCEPT !.rec = r], Send([k EXCEPT !.rec = r])}
  BY <1>2 DEF p
<1>5. CASE Commanded(k, r) = p
  BY <1>1, <1>4, <1>5
<1>6. CASE Commanded(k, r) = Send(p)
  BY <1>1, <1>3, <1>4, <1>6 DEF SameStack
<1> QED BY <1>2, <1>5, <1>6

\* What a set leaves of a lamp (set_layer).
LEMMA SetOfFit ==
  ASSUME NEW k, Fit(k), NEW req \in SetRequest
  PROVE  LET out == SetOn(k, req)
             q == SetOf(k, out)
         IN /\ Fit(q) /\ (q.room => k.room)
            /\ out.result \in Skips \cup Refusals \cup {"refreshed"} \/ q.rec.changed
<1> DEFINE out == SetOn(k, req)
<1>1. k.rec \in Record /\ Good(k.rec)
  BY DEF Fit, Good
<1>2. /\ Good(out.rec) /\ Available(out.rec)
      /\ out.result \in Skips \cup Refusals \cup {"refreshed"} \/ out.rec.changed
  BY <1>1, ApplySetIsGood, SetNotes DEF SetOn, Available, Fit
<1> HIDE DEF out
<1>3. Fit([k EXCEPT !.rec = out.rec]) /\ [k EXCEPT !.rec = out.rec].room = k.room
  BY <1>2, OtherRecord
<1>4. /\ Fit(Commanded(k, out.rec)) /\ (Commanded(k, out.rec).room => k.room)
      /\ Commanded(k, out.rec).rec.changed = out.rec.changed
  BY <1>2, CommandedFit
<1>5. CASE out.result \in Skips \cup Refusals
  BY <1>3, <1>5 DEF SetOf, out
<1>6. CASE out.result \notin Skips \cup Refusals
  BY <1>2, <1>4, <1>6 DEF SetOf, out
<1> QED BY <1>5, <1>6

\* A clear leaves what the lamp shows and its base alone, and of the layers it
\* leaves some as they are (apply_clear).
LEMMA ClearLeaves ==
  ASSUME NEW r \in Record, NEW i \in Id
  PROVE  LET q == ApplyClear(r, i)
         IN /\ q.observed = r.observed /\ q.base = r.base
            /\ \A j \in Id : Present(q.layers, j) =>
                 Present(r.layers, j) /\ q.layers[j].mode = r.layers[j].mode
<1> DEFINE about == Cleared(r, i)
           removed == about \cap Live(r.layers)
           expired == about \cap Expired(r)
           layers == [j \in Id |-> CASE j \in removed -> NoLayer
                                     [] j \in expired -> [r.layers[j] EXCEPT !.render = TRUE]
                                     [] OTHER -> r.layers[j]]
           tombs == [j \in Id |-> IF j \in about /\ i # "active" THEN NoTomb ELSE r.tombs[j]]
           cleared == [r EXCEPT !.layers = layers, !.tombs = tombs]
<1>1. ApplyClear(r, i) \in {cleared, LayersChanged(cleared)}
  <2>1. cleared =
        [r EXCEPT
           !.layers = [j \in Id |->
                         CASE j \in removed -> NoLayer
                           [] j \in expired -> [@[j] EXCEPT !.render = TRUE]
                           [] OTHER -> @[j]],
           !.tombs = [j \in Id |->
                         IF j \in about /\ i # "active" THEN NoTomb ELSE @[j]]]
    BY DEF Record
  <2> QED BY <2>1 DEF ApplyClear
<1>2. \A j \in Id : layers[j] # NoLayer =>
        r.layers[j] # NoLayer /\ layers[j].mode = r.layers[j].mode
  <2> SUFFICES ASSUME NEW j \in Id, layers[j] # NoLayer
               PROVE  r.layers[j] # NoLayer /\ layers[j].mode = r.layers[j].mode
    OBVIOUS
  <2>1. r.layers[j] \in Layer \cup {NoLayer}
    BY DEF Record
  <2>2. CASE j \in expired
    <3>1. r.layers[j] \in Layer /\ r.layers[j] # NoLayer
      BY <2>1, <2>2 DEF Expired, Present
    <3>2. j \notin removed
      BY <2>2 DEF Expired
    <3> QED BY <2>2, <3>1, <3>2 DEF Layer
  <2>3. CASE j \notin expired
    BY <2>3
  <2> QED BY <2>2, <2>3
<1> HIDE DEF layers, tombs
<1>3. /\ cleared.observed = r.observed /\ cleared.base = r.base /\ cleared.layers = layers
      /\ LayersChanged(cleared).observed = r.observed
      /\ LayersChanged(cleared).base = r.base
      /\ LayersChanged(cleared).layers = layers
  BY DEF Record, LayersChanged
<1> HIDE DEF cleared
<1> QED BY <1>1, <1>2, <1>3 DEF Present

\* What a clear leaves of a lamp (clear_layer).
LEMMA ClearOfFit ==
  ASSUME NEW k, Fit(k), NEW i \in Id
  PROVE  /\ Fit(ClearOf(k, i)) /\ (ClearOf(k, i).room => k.room)
<1>1. Good(ApplyClear(k.rec, i)) /\ Available(ApplyClear(k.rec, i))
  BY ApplyClearQuiet, ClearLeaves, GoodKept DEF Fit, Good, Available
<1> QED BY <1>1, CommandedFit DEF ClearOf
-----------------------------------------------------------------------------
(* The invariant *)

\* What a lamp is to carry out, or puts on its reports, is known: the call is
\* in _calls, the scene is remembered; a call the lamp is to carry out for a
\* scene is still on its reports.
Attributed ==
  /\ press.memory # "gone"
  /\ \A l \in Lamp : "press" \in {carries[l], stamp[l]} => press.memory = "heard"
  /\ \A l \in Lamp : "scene" \in {carries[l], stamp[l]} => scene # NoScene
  /\ \A l \in Lamp : carries[l] = "scene" => stamp[l] = "scene"

\* The lamps on which an owner set a layer after a press, a scene or the scene's
\* last call are known to be such.
Dated ==
  /\ \A l \in Lamp : ~lamp[l].rec.changed
  /\ press # NoPress => later["press"] \subseteq press.older
  /\ scene # NoScene => /\ later["scene"] \subseteq scene.older
                        /\ later["call"] \subseteq scene.since

\* The records are good, and the lamps are there.
Sound == \A l \in Lamp : Good(lamp[l].rec) /\ Available(lamp[l].rec)

IInv == TypeOK /\ Sound /\ Attributed /\ Dated

\* What the invariant says of one lamp.
LEMMA LampFit ==
  ASSUME IInv, NEW l \in Lamp
  PROVE  Fit(lamp[l]) /\ lamp[l] \in Knowledge
BY DEF IInv, TypeOK, Fit, Sound

\* A press and a scene that are none differ from the others.
LEMMA SomePress ==
  ASSUME NEW p \in Presses, p # NoPress
  PROVE  /\ p \in [memory : {"heard", "seen", "gone"}, call : Calls, aim : Aims,
                   lamps : SUBSET Lamp, via : SUBSET Lamp, older : SUBSET Lamp,
                   loops : BOOLEAN]
         /\ p.memory # "none"
BY DEF Presses

LEMMA SomeScene ==
  ASSUME NEW s \in SceneRuns, s # NoScene
  PROVE  /\ s \in [wanted : Scenes, todo : SUBSET Lamp, reached : SUBSET Lamp,
                   older : SUBSET Lamp, called : SUBSET Lamp, since : SUBSET Lamp,
                   over : BOOLEAN]
         /\ s.wanted # Nothing /\ s.wanted \in Command
BY LampsAssumption DEF SceneRuns, Nothing, Cmd

LEMMA NonePressed ==
  /\ NoPress \in Presses /\ NoPress.memory = "none" /\ ~NoPress.loops /\ NoPress.lamps = {}
  /\ NoScene \in SceneRuns /\ NoScene.over /\ NoScene.todo = {} /\ NoScene.wanted = Nothing
BY DEF NoPress, Presses, NoScene, SceneRuns

\* What a step makes of what its handler made of the lamps, the call and the
\* scene.
LEMMA MadeOf ==
  ASSUME NEW known \in [Lamp -> Knowledge], \A l \in Lamp : Fit(known[l]),
         NEW pressed \in Presses, NEW run \in SceneRuns, Made(known, pressed, run)
  PROVE  /\ lamp' \in [Lamp -> Knowledge]
         /\ \A l \in Lamp :
              /\ Fit(lamp'[l]) /\ ~lamp'[l].rec.changed
              /\ lamp'[l].room = known[l].room /\ lamp'[l].prev = known[l].prev
              /\ lamp'[l].job = known[l].job /\ lamp'[l].replayed = known[l].replayed
              /\ lamp'[l].rec.layers = known[l].rec.layers
              /\ lamp'[l].rec.base = known[l].rec.base
              /\ lamp'[l].rec.observed = known[l].rec.observed
         /\ press' \in Presses /\ press'.memory = pressed.memory
         /\ press' = NoPress <=> pressed = NoPress
         /\ press' # NoPress => press'.older = pressed.older \cup Changed(known)
         /\ scene' \in SceneRuns /\ scene'.wanted = run.wanted /\ scene'.todo = run.todo
         /\ scene'.reached = run.reached /\ scene'.over = run.over
         /\ scene' = NoScene <=> run = NoScene
         /\ scene' # NoScene => /\ scene'.older = run.older \cup Changed(known)
                                /\ scene'.since = run.since \cup Changed(known)
<1>1. ASSUME NEW l \in Lamp
      PROVE  /\ lamp'[l] \in Knowledge
             /\ Fit(lamp'[l]) /\ ~lamp'[l].rec.changed
             /\ lamp'[l].room = known[l].room /\ lamp'[l].prev = known[l].prev
             /\ lamp'[l].job = known[l].job /\ lamp'[l].replayed = known[l].replayed
             /\ lamp'[l].rec.layers = known[l].rec.layers
             /\ lamp'[l].rec.base = known[l].rec.base
             /\ lamp'[l].rec.observed = known[l].rec.observed
  <2> DEFINE k == known[l]
             r == [k.rec EXCEPT !.changed = FALSE]
  <2>1. Fit(k) /\ k.rec \in Record /\ Good(k.rec)
    BY DEF Fit, Good
  <2>2. /\ r \in Record /\ r.layers = k.rec.layers /\ r.tombs = k.rec.tombs
        /\ r.base = k.rec.base /\ r.observed = k.rec.observed /\ ~r.changed
    BY <2>1 DEF Record
  <2>3. Good(r) /\ Available(r)
    BY <2>1, <2>2, SameLayers, GoodKept DEF Fit, Available
  <2>4. lamp'[l] = [k EXCEPT !.rec = r]
    BY <2>1 DEF Made, Fit, Knowledge
  <2> HIDE DEF k, r
  <2>5. /\ Fit([k EXCEPT !.rec = r]) /\ [k EXCEPT !.rec = r].rec = r
        /\ [k EXCEPT !.rec = r].prev = k.prev /\ [k EXCEPT !.rec = r].job = k.job
        /\ [k EXCEPT !.rec = r].room = k.room /\ [k EXCEPT !.rec = r].replayed = k.replayed
    BY <2>1, <2>3, OtherRecord
  <2> QED BY <2>2, <2>4, <2>5 DEF k, Fit
<1>2. lamp' \in [Lamp -> Knowledge]
  <2>1. lamp' = [l \in Lamp |-> [known[l] EXCEPT !.rec.changed = FALSE]]
    BY DEF Made
  <2>2. lamp' = [l \in Lamp |-> lamp'[l]]
    BY <2>1
  <2> QED BY <1>1, <2>2
<1>3. Changed(known) \in SUBSET Lamp
  BY DEF Changed
<1>4. /\ press' \in Presses /\ press'.memory = pressed.memory
      /\ press' = NoPress <=> pressed = NoPress
      /\ press' # NoPress => press'.older = pressed.older \cup Changed(known)
  <2>1. CASE pressed = NoPress
    BY <2>1, NonePressed DEF Made
  <2>2. CASE pressed # NoPress
    <3>1. press' = [pressed EXCEPT !.older = @ \cup Changed(known)]
      BY <2>2 DEF Made
    <3>2. /\ pressed \in [memory : {"heard", "seen", "gone"}, call : Calls, aim : Aims,
                          lamps : SUBSET Lamp, via : SUBSET Lamp, older : SUBSET Lamp,
                          loops : BOOLEAN]
          /\ pressed.memory # "none"
      BY <2>2, SomePress
    <3>3. press' \in [memory : {"heard", "seen", "gone"}, call : Calls, aim : Aims,
                      lamps : SUBSET Lamp, via : SUBSET Lamp, older : SUBSET Lamp,
                      loops : BOOLEAN]
          /\ press'.memory = pressed.memory
          /\ press'.older = pressed.older \cup Changed(known)
      BY <1>3, <3>1, <3>2
    <3>4. press' # NoPress
      BY <3>2, <3>3, NonePressed
    <3> QED BY <2>2, <3>3, <3>4 DEF Presses
  <2> QED BY <2>1, <2>2
<1>5. /\ scene' \in SceneRuns /\ scene'.wanted = run.wanted /\ scene'.todo = run.todo
      /\ scene'.reached = run.reached /\ scene'.over = run.over
      /\ scene' = NoScene <=> run = NoScene
      /\ scene' # NoScene => /\ scene'.older = run.older \cup Changed(known)
                             /\ scene'.since = run.since \cup Changed(known)
  <2>1. CASE run = NoScene
    BY <2>1, NonePressed DEF Made
  <2>2. CASE run # NoScene
    <3>1. scene' = [run EXCEPT !.older = @ \cup Changed(known),
                               !.since = @ \cup Changed(known)]
      BY <2>2 DEF Made
    <3>2. /\ run \in [wanted : Scenes, todo : SUBSET Lamp, reached : SUBSET Lamp,
                      older : SUBSET Lamp, called : SUBSET Lamp, since : SUBSET Lamp,
                      over : BOOLEAN]
          /\ run.wanted # Nothing
      BY <2>2, SomeScene
    <3>3. /\ scene' \in [wanted : Scenes, todo : SUBSET Lamp, reached : SUBSET Lamp,
                        older : SUBSET Lamp, called : SUBSET Lamp, since : SUBSET Lamp,
                        over : BOOLEAN]
          /\ scene'.wanted = run.wanted /\ scene'.todo = run.todo
          /\ scene'.reached = run.reached /\ scene'.over = run.over
          /\ scene'.older = run.older \cup Changed(known)
          /\ scene'.since = run.since \cup Changed(known)
      BY <1>3, <3>1, <3>2
    <3>4. scene' # NoScene
      BY <3>2, <3>3, NonePressed
    <3> QED BY <2>2, <3>3, <3>4 DEF SceneRuns
  <2> QED BY <2>1, <2>2
<1> QED BY <1>1, <1>2, <1>4, <1>5

\* A step that keeps the marks on the lamps, the calls and the histories in
\* line keeps the invariant.
LEMMA StepKeeps ==
  ASSUME NEW known \in [Lamp -> Knowledge], \A l \in Lamp : Fit(known[l]),
         NEW pressed \in Presses, NEW run \in SceneRuns, Made(known, pressed, run),
         carries' \in [Lamp -> {"nothing", "press", "scene"}],
         stamp' \in [Lamp -> {"none", "press", "scene"}],
         acts' \in 0..MaxActs, later' \in [Dates -> SUBSET Lamp],
         dark' \in SUBSET Lamp,
         \A l \in Lamp : known[l].room => pressed.memory = "heard",
         pressed.memory # "gone",
         \A l \in Lamp : "press" \in {carries'[l], stamp'[l]} => pressed.memory = "heard",
         \A l \in Lamp : "scene" \in {carries'[l], stamp'[l]} => run # NoScene,
         \A l \in Lamp : carries'[l] = "scene" => stamp'[l] = "scene",
         pressed # NoPress => later'["press"] \subseteq pressed.older \cup Changed(known),
         run # NoScene => /\ later'["scene"] \subseteq run.older \cup Changed(known)
                          /\ later'["call"] \subseteq run.since \cup Changed(known)
  PROVE  IInv'
<1>1. /\ lamp' \in [Lamp -> Knowledge]
      /\ \A l \in Lamp : /\ Fit(lamp'[l]) /\ ~lamp'[l].rec.changed
                         /\ lamp'[l].room = known[l].room
      /\ press' \in Presses /\ press'.memory = pressed.memory
      /\ press' = NoPress <=> pressed = NoPress
      /\ press' # NoPress => press'.older = pressed.older \cup Changed(known)
      /\ scene' \in SceneRuns /\ (scene' = NoScene <=> run = NoScene)
      /\ scene' # NoScene => /\ scene'.older = run.older \cup Changed(known)
                             /\ scene'.since = run.since \cup Changed(known)
  BY MadeOf
<1>2. TypeOK'
  BY <1>1 DEF TypeOK
<1>3. Sound'
  BY <1>1 DEF Fit, Sound
<1>4. Attributed'
  BY <1>1 DEF Attributed
<1>5. Dated'
  BY <1>1 DEF Dated
<1> QED BY <1>2, <1>3, <1>4, <1>5 DEF IInv

\* So does one that only touches the lamps.
LEMMA LampsOnly ==
  ASSUME IInv, NEW known \in [Lamp -> Knowledge],
         \A l \in Lamp : Fit(known[l]) /\ (known[l].room => lamp[l].room),
         Made(known, press, scene), UNCHANGED <<carries, stamp, later>>,
         acts' \in 0..MaxActs, dark' \in SUBSET Lamp
  PROVE  IInv'
<1>1. TypeOK /\ Attributed /\ Dated
  BY DEF IInv
<1>2. /\ press \in Presses /\ scene \in SceneRuns
      /\ carries' \in [Lamp -> {"nothing", "press", "scene"}]
      /\ stamp' \in [Lamp -> {"none", "press", "scene"}]
      /\ later' \in [Dates -> SUBSET Lamp]
      /\ \A l \in Lamp : known[l].room => press.memory = "heard"
  BY <1>1 DEF TypeOK
<1>3. /\ press.memory # "gone"
      /\ \A l \in Lamp : "press" \in {carries'[l], stamp'[l]} => press.memory = "heard"
      /\ \A l \in Lamp : "scene" \in {carries'[l], stamp'[l]} => scene # NoScene
      /\ \A l \in Lamp : carries'[l] = "scene" => stamp'[l] = "scene"
  BY <1>1 DEF Attributed
<1>4. /\ press # NoPress => later'["press"] \subseteq press.older \cup Changed(known)
      /\ scene # NoScene => /\ later'["scene"] \subseteq scene.older \cup Changed(known)
                            /\ later'["call"] \subseteq scene.since \cup Changed(known)
  BY <1>1 DEF Dated
<1> QED BY <1>2, <1>3, <1>4, StepKeeps

\* One lamp is changed.
LEMMA OneLamp ==
  ASSUME IInv, NEW l \in Lamp, NEW k, Fit(k), k.room => lamp[l].room
  PROVE  /\ Only(l, k) \in [Lamp -> Knowledge]
         /\ Only(l, k)[l] = k
         /\ \A j \in Lamp : j # l => Only(l, k)[j] = lamp[j]
         /\ \A j \in Lamp : /\ Fit(Only(l, k)[j])
                            /\ Only(l, k)[j].room => lamp[j].room
<1>1. lamp \in [Lamp -> Knowledge]
  BY DEF IInv, TypeOK
<1>2. Only(l, k) \in [Lamp -> Knowledge] /\ Only(l, k)[l] = k
      /\ \A j \in Lamp : j # l => Only(l, k)[j] = lamp[j]
  BY <1>1 DEF Only, Fit
<1> QED BY <1>2, LampFit
-----------------------------------------------------------------------------
(* Every step keeps the invariant *)

\* A call reaches lamps (expand).
LEMMA ReachType ==
  ASSUME NEW aim \in Aims, NEW reach \in Reach[aim]
  PROVE  reach.lamps \in SUBSET Lamp /\ reach.via \in SUBSET Lamp
<1>1. reach \in Reaches(aim)
  BY DEF Reach
<1>2. PICK x \in Expansions(aim) :
        reach = [lamps |-> x.lamps \cap Lamp, via |-> x.via \cap Lamp]
  BY <1>1 DEF Reaches
<1> QED BY <1>2

LEMMA RequestType ==
  ASSUME NEW req \in Requests
  PROVE  req \in SetRequest /\ WellFormed(req) /\ req.lease = "none"
BY LampsAssumption

\* What a call asks for is a command.
LEMMA IntentType ==
  ASSUME NEW call \in LightCall
  PROVE  Intent(call) \in Command
<1>1. ASSUME ~TurnsOff(call), call.service = "turn_on", ~call.unknown
      PROVE  Cmd("on", call.bri, call.col) \in Command
  BY <1>1 DEF TurnsOff, LightCall, Cmd, Command
<1> QED BY <1>1, ConstantCommands DEF Intent

\* A scene wants its members to show a command, and calls them to it.
LEMMA WantedOfScene ==
  ASSUME NEW s \in SceneRuns
  PROVE  s.wanted \in Command /\ ReproducedCall(s.wanted) \in LightCall
<1>1. s.wanted \in Command
  BY SomeScene, NonePressed, ConstantCommands
<1> QED BY <1>1 DEF ReproducedCall, LightCall, Command

LEMMA ActsType ==
  ASSUME IInv, acts < MaxActs
  PROVE  acts + 1 \in 0..MaxActs
BY LampsAssumption DEF IInv, TypeOK

LEMMA ItselfType ==
  ASSUME IInv, Itself
  PROVE  acts' \in 0..MaxActs /\ dark' \in SUBSET Lamp /\ acts' = acts /\ dark' = dark
BY DEF IInv, TypeOK, Itself

LEMMA ActsKeeps ==
  ASSUME IInv, acts < MaxActs, NEW S, Acts(S)
  PROVE  acts' \in 0..MaxActs /\ dark' \in SUBSET Lamp
BY ActsType DEF Acts, IInv, TypeOK

\* At first no lamp has a layer, and nothing is under way.
LEMMA InitKeeps ==
  ASSUME Init
  PROVE  IInv
<1>1. PICK obs \in [Lamp -> Reports] :
        lamp = [l \in Lamp |-> [rec |-> RecordObservedAsBase(NewRecord(obs[l]), obs[l]),
                                prev |-> Away, job |-> Nothing,
                                room |-> FALSE, replayed |-> FALSE]]
  BY DEF Init
<1>2. ASSUME NEW o \in Report \ {Away}
      PROVE  LET r == RecordObservedAsBase(NewRecord(o), o)
             IN /\ Good(r) /\ Available(r) /\ ~r.changed
                /\ \A i \in Id : r.layers[i] = NoLayer
  <2> DEFINE r == RecordObservedAsBase(NewRecord(o), o)
  <2>1. NewRecord(o) \in Record
    BY ConstantCommands DEF NewRecord, Record, Forgotten, External, Take, ChangeSource,
                            Owed, Divergence
  <2>2. r \in Record
    BY <2>1, ObservedType DEF RecordObservedAsBase, Record
  <2>3. r.observed = o /\ ~r.changed /\ \A i \in Id : r.layers[i] = NoLayer
    BY DEF RecordObservedAsBase, NewRecord
  <2> HIDE DEF r
  <2>4. Good(r)
    BY <2>2, <2>3 DEF Good, UniqueIn, BarredIn, Live, Present
  <2>5. Available(r)
    BY <2>3 DEF Available, Report, Away, Cmd
  <2> QED BY <2>3, <2>4, <2>5 DEF r
<1>3. ASSUME NEW l \in Lamp
      PROVE  /\ lamp[l] \in Knowledge /\ Good(lamp[l].rec) /\ Available(lamp[l].rec)
             /\ ~lamp[l].rec.changed /\ ~lamp[l].room
  <2> DEFINE r == RecordObservedAsBase(NewRecord(obs[l]), obs[l])
  <2>1. obs[l] \in Report \ {Away}
    BY LampsAssumption
  <2>2. lamp[l] = [rec |-> r, prev |-> Away, job |-> Nothing, room |-> FALSE, replayed |-> FALSE]
    BY <1>1
  <2>3. Good(r) /\ Available(r) /\ ~r.changed
    BY <1>2, <2>1
  <2> HIDE DEF r
  <2> QED BY <2>2, <2>3, ConstantCommands DEF Knowledge, Good
<1>4. lamp \in [Lamp -> Knowledge]
  <2>1. lamp = [l \in Lamp |-> lamp[l]]
    BY <1>1
  <2> QED BY <1>3, <2>1
<1>5. TypeOK
  BY <1>3, <1>4, NonePressed, LampsAssumption DEF TypeOK, Init
<1>6. Attributed /\ Dated
  BY <1>3, NonePressed DEF Attributed, Dated, Dates, Init
<1> QED BY <1>3, <1>5, <1>6 DEF IInv, Sound

\* layers.set: the lamps it is later on than a call are noted as such.
LEMMA SetLayerKeeps ==
  ASSUME IInv, acts < MaxActs, NEW req \in Requests, NEW aim \in Aims, SetLayer(req, aim)
  PROVE  IInv'
<1>1. PICK reach \in Reach[aim] :
        /\ \E ready \in {[l \in reach.lamps |-> Ready(l)]} :
             \E out \in {[l \in reach.lamps |-> SetOn(ready[l], req)]} :
               /\ Made([l \in Lamp |-> IF l \in Reached(out) THEN SetOf(ready[l], out[l])
                                       ELSE lamp[l]], press, scene)
               /\ later' = [c \in Dates |-> later[c] \cup Owned(out)]
        /\ UNCHANGED <<carries, stamp>>
        /\ Acts(reach.lamps)
  BY DEF SetLayer
<1> DEFINE ready == [l \in reach.lamps |-> Ready(l)]
           out == [l \in reach.lamps |-> SetOn(ready[l], req)]
           known == [l \in Lamp |-> IF l \in Reached(out) THEN SetOf(ready[l], out[l])
                                    ELSE lamp[l]]
<1>2. Made(known, press, scene) /\ later' = [c \in Dates |-> later[c] \cup Owned(out)]
  BY <1>1
<1>3. reach.lamps \in SUBSET Lamp /\ Reached(out) \in SUBSET reach.lamps
  BY ReachType DEF Reached
<1>4. ASSUME NEW l \in reach.lamps
      PROVE  /\ Fit(SetOf(ready[l], out[l])) /\ (SetOf(ready[l], out[l]).room => lamp[l].room)
             /\ \/ out[l].result \in Skips \cup Refusals \cup {"refreshed"}
                \/ SetOf(ready[l], out[l]).rec.changed
  <2>1. Fit(lamp[l]) /\ l \in Lamp
    BY <1>3, LampFit
  <2>2. Steady(lamp[l], Ready(l))
    BY <2>1, ReadyFit
  <2>3. ready[l] = Ready(l) /\ out[l] = SetOn(Ready(l), req)
    OBVIOUS
  <2> HIDE DEF ready, out
  <2>4. Fit(Ready(l)) /\ (Ready(l).room => lamp[l].room)
    BY <2>2 DEF Steady
  <2> QED BY <2>3, <2>4, RequestType, SetOfFit
<1>5. ASSUME NEW l \in Lamp
      PROVE  Fit(known[l]) /\ (known[l].room => lamp[l].room)
  <2>1. CASE l \in Reached(out)
    <3>1. l \in reach.lamps /\ known[l] = SetOf(ready[l], out[l])
      BY <1>3, <2>1
    <3> HIDE DEF known, ready, out
    <3> QED BY <1>4, <3>1
  <2>2. CASE l \notin Reached(out)
    <3>1. known[l] = lamp[l]
      BY <2>2
    <3> HIDE DEF known
    <3> QED BY <3>1, LampFit
  <2> QED BY <2>1, <2>2
<1>6. Owned(out) \in SUBSET Changed(known)
  <2> SUFFICES ASSUME NEW l \in Owned(out)
               PROVE  l \in Changed(known)
    OBVIOUS
  <2>1. /\ l \in Reached(out) /\ l \in reach.lamps /\ l \in Lamp
        /\ out[l].result \notin Skips \cup Refusals \cup {"refreshed"}
    BY <1>3 DEF Owned
  <2>2. known[l] = SetOf(ready[l], out[l])
    BY <2>1
  <2> HIDE DEF known, ready, out
  <2>3. known[l].rec.changed
    BY <1>4, <2>1, <2>2
  <2> QED BY <2>1, <2>3 DEF Changed
<1>7. known \in [Lamp -> Knowledge]
  <2>1. \A l \in Lamp : known[l] \in Knowledge
    BY <1>5 DEF Fit
  <2>2. known = [l \in Lamp |-> known[l]]
    OBVIOUS
  <2> HIDE DEF known
  <2> QED BY <2>1, <2>2
<1>8. Owned(out) \in SUBSET Lamp
  BY <1>3 DEF Owned
<1> HIDE DEF known, ready, out
<1>9. TypeOK /\ Attributed /\ Dated
  BY DEF IInv
<1>10. /\ press \in Presses /\ scene \in SceneRuns
       /\ carries' \in [Lamp -> {"nothing", "press", "scene"}]
       /\ stamp' \in [Lamp -> {"none", "press", "scene"}]
       /\ later' \in [Dates -> SUBSET Lamp]
       /\ \A l \in Lamp : known[l].room => press.memory = "heard"
  BY <1>1, <1>2, <1>5, <1>8, <1>9 DEF TypeOK
<1>11. acts' \in 0..MaxActs /\ dark' \in SUBSET Lamp
  BY <1>1, ActsKeeps
<1>12. /\ press.memory # "gone"
       /\ \A l \in Lamp : "press" \in {carries'[l], stamp'[l]} => press.memory = "heard"
       /\ \A l \in Lamp : "scene" \in {carries'[l], stamp'[l]} => scene # NoScene
       /\ \A l \in Lamp : carries'[l] = "scene" => stamp'[l] = "scene"
  BY <1>1, <1>9 DEF Attributed
<1>13. \A c \in {"press", "scene", "call"} : later'[c] = later[c] \cup Owned(out)
  BY <1>2 DEF Dates
<1>14. /\ press # NoPress => later'["press"] \subseteq press.older \cup Changed(known)
       /\ scene # NoScene => /\ later'["scene"] \subseteq scene.older \cup Changed(known)
                             /\ later'["call"] \subseteq scene.since \cup Changed(known)
  BY <1>6, <1>9, <1>13 DEF Dated
<1> QED BY <1>2, <1>5, <1>7, <1>10, <1>11, <1>12, <1>14, StepKeeps

\* layers.clear.
LEMMA ClearLayerKeeps ==
  ASSUME IInv, acts < MaxActs, NEW i \in Id, ClearLayer(i)
  PROVE  IInv'
<1> DEFINE S == {l \in Lamp : \/ Present(lamp[l].rec.layers, i)
                              \/ lamp[l].rec.tombs[i] # NoTomb}
           known == [l \in Lamp |-> IF l \in S THEN ClearOf(Flush(lamp[l]), i) ELSE lamp[l]]
<1>1. /\ Made(known, press, scene) /\ UNCHANGED <<carries, stamp, later>>
      /\ Acts({l \in S : Pending(l)})
  BY DEF ClearLayer
<1>2. ASSUME NEW l \in Lamp
      PROVE  Fit(known[l]) /\ (known[l].room => lamp[l].room)
  <2>1. Steady(lamp[l], Flush(lamp[l])) /\ Fit(lamp[l])
    BY LampFit, FlushFit
  <2>2. /\ Fit(ClearOf(Flush(lamp[l]), i))
        /\ ClearOf(Flush(lamp[l]), i).room => lamp[l].room
    BY <2>1, ClearOfFit DEF Steady
  <2>3. known[l] \in {ClearOf(Flush(lamp[l]), i), lamp[l]}
    OBVIOUS
  <2> HIDE DEF known
  <2> QED BY <2>1, <2>2, <2>3
<1>3. known \in [Lamp -> Knowledge]
  <2>1. \A l \in Lamp : known[l] \in Knowledge
    BY <1>2 DEF Fit
  <2>2. known = [l \in Lamp |-> known[l]]
    OBVIOUS
  <2> HIDE DEF known
  <2> QED BY <2>1, <2>2
<1> HIDE DEF known
<1>4. acts' \in 0..MaxActs /\ dark' \in SUBSET Lamp
  BY <1>1, ActsKeeps
<1> QED BY <1>1, <1>2, <1>3, <1>4, LampsOnly
\* What a lamp is known to be once a call is heard, before that is acted on.
Listening(to, l) == [lamp[l] EXCEPT !.room = @ \/ l \in to.via]

LEMMA ListeningFit ==
  ASSUME IInv, NEW to, NEW l \in Lamp
  PROVE  /\ Fit(Listening(to, l)) /\ Listening(to, l).rec = lamp[l].rec
         /\ Listening(to, l).prev = lamp[l].prev /\ Listening(to, l).job = lamp[l].job
         /\ Listening(to, l).replayed = lamp[l].replayed
<1> DEFINE x == lamp[l].room \/ l \in to.via
<1>1. Fit(lamp[l]) /\ x \in BOOLEAN
  BY LampFit
<1>2. Listening(to, l) = [lamp[l] EXCEPT !.room = x]
  BY DEF Listening
<1> HIDE DEF x
<1> QED BY <1>1, <1>2, OtherMarks, ConstantCommands DEF Fit, Knowledge

\* A call is heard, the first time or again.
LEMMA HeardKeeps ==
  ASSUME IInv, NEW to \in Presses, to.memory = "heard", Heard(to),
         acts' \in 0..MaxActs, dark' \in SUBSET Lamp,
         later' \in [Dates -> SUBSET Lamp],
         later'["press"] \subseteq to.older, later'["scene"] = later["scene"],
         later'["call"] = later["call"]
  PROVE  IInv'
<1> DEFINE cmd == Intent(to.call)
           known == [l \in Lamp |->
                       IF l \notin to.lamps THEN lamp[l]
                       ELSE ByIntent(Listening(to, l), cmd, NamedBy(to.call), l \in to.older)]
<1>1. /\ Made(known, to, scene)
      /\ carries' = [l \in Lamp |-> IF l \in to.lamps THEN "press" ELSE carries[l]]
      /\ stamp' = [l \in Lamp |-> IF l \in to.lamps \ to.via THEN "press" ELSE stamp[l]]
  BY DEF Heard, Listening
<1>2. to.call \in LightCall
  BY SomePress, NonePressed, LampsAssumption
<1>3. cmd \in Command
  BY <1>2, IntentType
<1> HIDE DEF cmd
<1>4. ASSUME NEW l \in Lamp
      PROVE  Fit(known[l])
  <2> DEFINE k == Listening(to, l)
             q == ByIntent(k, cmd, NamedBy(to.call), l \in to.older)
  <2>1. Fit(k) /\ Fit(lamp[l])
    BY ListeningFit, LampFit
  <2> HIDE DEF k
  <2>2. Fit(q)
    BY <1>3, <2>1, NamedType, ByIntentFit DEF Steady
  <2>3. known[l] \in {lamp[l], q}
    BY DEF k
  <2> HIDE DEF q, known
  <2> QED BY <2>1, <2>2, <2>3
<1>5. known \in [Lamp -> Knowledge]
  <2>1. \A l \in Lamp : known[l] \in Knowledge
    BY <1>4 DEF Fit
  <2>2. known = [l \in Lamp |-> known[l]]
    OBVIOUS
  <2> HIDE DEF known
  <2> QED BY <2>1, <2>2
<1> HIDE DEF known
<1>6. TypeOK /\ Attributed /\ Dated
  BY DEF IInv
<1>7. /\ scene \in SceneRuns
      /\ carries' \in [Lamp -> {"nothing", "press", "scene"}]
      /\ stamp' \in [Lamp -> {"none", "press", "scene"}]
  BY <1>1, <1>6 DEF TypeOK
<1>8. /\ \A l \in Lamp : "scene" \in {carries'[l], stamp'[l]} => scene # NoScene
      /\ \A l \in Lamp : carries'[l] = "scene" => stamp'[l] = "scene"
  BY <1>1, <1>6 DEF Attributed
<1>9. /\ later'["press"] \subseteq to.older \cup Changed(known)
      /\ scene # NoScene => /\ later'["scene"] \subseteq scene.older \cup Changed(known)
                            /\ later'["call"] \subseteq scene.since \cup Changed(known)
  BY <1>6 DEF Dated
<1> QED BY <1>1, <1>4, <1>5, <1>7, <1>8, <1>9, StepKeeps

LEMMA PressKeeps ==
  ASSUME IInv, acts < MaxActs, NEW call \in Calls, NEW aim \in Aims, Press(call, aim)
  PROVE  IInv'
<1>1. PICK reach \in Reach[aim] :
        /\ Heard([memory |-> "heard", call |-> call, aim |-> aim, lamps |-> reach.lamps,
                  via |-> reach.via, older |-> {}, loops |-> TRUE])
        /\ later' = [later EXCEPT !["press"] = {}]
        /\ Acts(reach.lamps)
  BY DEF Press
<1> DEFINE to == [memory |-> "heard", call |-> call, aim |-> aim, lamps |-> reach.lamps,
                  via |-> reach.via, older |-> {}, loops |-> TRUE]
<1>2. reach.lamps \in SUBSET Lamp /\ reach.via \in SUBSET Lamp
  BY ReachType
<1>3. to \in Presses /\ to.memory = "heard" /\ to.older = {} /\ Heard(to)
  BY <1>1, <1>2 DEF Presses
<1> HIDE DEF to
<1>4. later \in [Dates -> SUBSET Lamp]
  BY DEF IInv, TypeOK
<1>5. /\ later' \in [Dates -> SUBSET Lamp]
      /\ later'["press"] = {} /\ later'["scene"] = later["scene"]
      /\ later'["call"] = later["call"]
  BY <1>1, <1>4 DEF Dates
<1> QED BY <1>1, <1>3, <1>5, ActsKeeps, HeardKeeps

LEMMA PressAgainKeeps ==
  ASSUME IInv, PressAgain
  PROVE  IInv'
<1> DEFINE to == [press EXCEPT !.memory = "heard",
                               !.older = IF press.memory = "gone" THEN {} ELSE @]
<1>1. TypeOK /\ Attributed /\ Dated
  BY DEF IInv
<1>2. press \in Presses /\ press # NoPress
  BY <1>1, NonePressed DEF TypeOK, PressAgain
<1>3. to \in Presses /\ to.memory = "heard" /\ to.older = press.older
  BY <1>1, <1>2, SomePress DEF Attributed, Presses
<1>4. Heard(to) /\ UNCHANGED <<later, acts>> /\ dark' = dark \ press.lamps
  BY DEF PressAgain
<1> HIDE DEF to
<1>5. /\ later' \in [Dates -> SUBSET Lamp]
      /\ later'["press"] \subseteq to.older /\ later'["scene"] = later["scene"]
      /\ later'["call"] = later["call"]
      /\ acts' \in 0..MaxActs /\ dark' \in SUBSET Lamp
  BY <1>1, <1>2, <1>3, <1>4 DEF TypeOK, Dated
<1> QED BY <1>3, <1>4, <1>5, HeardKeeps

LEMMA LoopEndsKeeps ==
  ASSUME IInv, LoopEnds
  PROVE  IInv'
<1>1. press \in Presses /\ press # NoPress
  BY NonePressed DEF IInv, TypeOK, LoopEnds
<1>2. press' = [press EXCEPT !.loops = FALSE]
  BY DEF LoopEnds
<1>3. press' \in Presses /\ press'.memory = press.memory /\ press'.older = press.older
  BY <1>1, <1>2, SomePress DEF Presses
<1>4. TypeOK'
  BY <1>3, ItselfType DEF IInv, TypeOK, LoopEnds
<1>5. Attributed' /\ Dated' /\ Sound'
  BY <1>1, <1>3 DEF IInv, Attributed, Dated, LoopEnds, Sound
<1> QED BY <1>4, <1>5 DEF IInv

\* The room's calls are forgotten with the call.
LEMMA RoomsForgottenFit ==
  ASSUME IInv
  PROVE  /\ RoomsForgotten \in [Lamp -> Knowledge]
         /\ \A l \in Lamp : /\ ~RoomsForgotten[l].room /\ RoomsForgotten[l].rec = lamp[l].rec
                            /\ RoomsForgotten[l].job = lamp[l].job
                            /\ RoomsForgotten[l].prev = lamp[l].prev
                            /\ RoomsForgotten[l].replayed = lamp[l].replayed
<1>1. ASSUME NEW l \in Lamp
      PROVE  /\ RoomsForgotten[l] \in Knowledge
             /\ ~RoomsForgotten[l].room /\ RoomsForgotten[l].rec = lamp[l].rec
             /\ RoomsForgotten[l].job = lamp[l].job /\ RoomsForgotten[l].prev = lamp[l].prev
             /\ RoomsForgotten[l].replayed = lamp[l].replayed
  BY LampFit DEF RoomsForgotten, Knowledge
<1>2. RoomsForgotten = [l \in Lamp |-> RoomsForgotten[l]]
  BY DEF RoomsForgotten
<1> QED BY <1>1, <1>2

LEMMA PruneKeeps ==
  ASSUME IInv, Prune
  PROVE  IInv'
<1>1. TypeOK /\ Attributed /\ Dated /\ Sound
  BY DEF IInv
<1>2. /\ press # NoPress /\ Forgets(press).may /\ press' = Forgets(press).to
      /\ lamp' = RoomsForgotten /\ UNCHANGED <<scene, carries, stamp>> /\ Itself
      /\ later' = IF press' = NoPress THEN [later EXCEPT !["press"] = {}] ELSE later
  BY DEF Prune
<1>3. press \in Presses /\ press.memory # "none"
  BY <1>1, <1>2, SomePress DEF TypeOK
<1>4. /\ lamp' \in [Lamp -> Knowledge]
      /\ \A l \in Lamp : ~lamp'[l].room /\ lamp'[l].rec = lamp[l].rec
  BY <1>2, RoomsForgottenFit
<1>5. \A l \in Lamp : "press" \notin {carries[l], stamp[l]}
  <2>1. CASE press.memory = "heard"
    BY <1>2, <2>1 DEF Forgets, Outstanding
  <2>2. CASE press.memory # "heard"
    BY <1>1, <2>2 DEF Attributed
  <2> QED BY <2>1, <2>2
<1>6. /\ press' \in Presses /\ press'.memory # "gone"
      /\ press' # NoPress => press'.older = press.older
  <2>1. CASE press.memory = "heard"
    <3>1. press' = [press EXCEPT !.memory = "seen"]
      BY <1>2, <2>1 DEF Forgets
    <3> QED BY <1>2, <1>3, <3>1, SomePress DEF Presses
  <2>2. CASE press.memory # "heard"
    <3>1. press' = NoPress
      BY <1>2, <2>2 DEF Forgets
    <3> QED BY <3>1, NonePressed
  <2> QED BY <2>1, <2>2
<1>7. /\ later' \in [Dates -> SUBSET Lamp] /\ later'["scene"] = later["scene"]
      /\ later'["call"] = later["call"]
      /\ press' # NoPress => later'["press"] = later["press"]
  BY <1>1, <1>2 DEF TypeOK, Dates
<1>8. TypeOK'
  BY <1>1, <1>2, <1>4, <1>6, <1>7, ItselfType DEF TypeOK
<1>9. Attributed'
  BY <1>1, <1>2, <1>5, <1>6 DEF Attributed
<1>10. Dated'
  BY <1>1, <1>2, <1>4, <1>6, <1>7 DEF Dated
<1>11. Sound'
  BY <1>1, <1>4 DEF Sound
<1> QED BY <1>8, <1>9, <1>10, <1>11 DEF IInv

LEMMA SceneKeeps ==
  ASSUME IInv, acts < MaxActs, NEW wanted \in Scenes, Scene(wanted)
  PROVE  IInv'
<1> DEFINE run == [wanted |-> wanted, todo |-> Lamp, reached |-> {}, older |-> {},
                   called |-> {}, since |-> {}, over |-> FALSE]
<1>1. /\ Made(lamp, press, run) /\ ~Outstanding("scene")
      /\ later' = [later EXCEPT !["scene"] = {}, !["call"] = {}]
      /\ dark' = {l \in Lamp : wanted.state = "off" /\ AtRest(l)}
      /\ UNCHANGED <<carries, stamp>> /\ acts' = acts + 1
  BY DEF Scene
<1>2. run \in SceneRuns /\ run # NoScene
  BY NonePressed DEF SceneRuns
<1> HIDE DEF run
<1>3. TypeOK /\ Attributed /\ Dated
  BY DEF IInv
<1>4. /\ lamp \in [Lamp -> Knowledge] /\ press \in Presses
      /\ carries' \in [Lamp -> {"nothing", "press", "scene"}]
      /\ stamp' \in [Lamp -> {"none", "press", "scene"}]
      /\ later' \in [Dates -> SUBSET Lamp]
      /\ dark' \in SUBSET Lamp /\ acts' \in 0..MaxActs
      /\ \A l \in Lamp : lamp[l].room => press.memory = "heard"
      /\ later'["scene"] = {} /\ later'["call"] = {} /\ later'["press"] = later["press"]
  BY <1>1, <1>3, ActsType DEF TypeOK, Dates
<1>5. \A l \in Lamp : Fit(lamp[l])
  BY LampFit
<1>6. /\ press.memory # "gone"
      /\ \A l \in Lamp : "press" \in {carries'[l], stamp'[l]} => press.memory = "heard"
      /\ \A l \in Lamp : "scene" \in {carries'[l], stamp'[l]} => run # NoScene
      /\ \A l \in Lamp : carries'[l] = "scene" => stamp'[l] = "scene"
  BY <1>1, <1>2, <1>3 DEF Attributed
<1>7. /\ press # NoPress => later'["press"] \subseteq press.older \cup Changed(lamp)
      /\ run # NoScene => /\ later'["scene"] \subseteq run.older \cup Changed(lamp)
                          /\ later'["call"] \subseteq run.since \cup Changed(lamp)
  BY <1>3, <1>4 DEF Dated
<1> QED BY <1>1, <1>2, <1>4, <1>5, <1>6, <1>7, StepKeeps

LEMMA SceneVisitsKeeps ==
  ASSUME IInv, NEW l \in Lamp, SceneVisits(l)
  PROVE  IInv'
<1>1. TypeOK /\ Attributed /\ Dated /\ Sound
  BY DEF IInv
<1>2. scene # NoScene /\ scene \in SceneRuns
  BY <1>1, NonePressed DEF SceneVisits, TypeOK
<1>3. scene \in [wanted : Scenes, todo : SUBSET Lamp, reached : SUBSET Lamp,
                 older : SUBSET Lamp, called : SUBSET Lamp, since : SUBSET Lamp,
                 over : BOOLEAN]
  BY <1>2, SomeScene
<1>4. UNCHANGED <<lamp, press>> /\ acts' = acts /\ dark' = dark
  BY DEF SceneVisits, Itself
<1>5. CASE lamp[l].rec.observed.state = scene.wanted.state
  <2>1. scene' = [scene EXCEPT !.todo = @ \ {l}] /\ UNCHANGED <<carries, stamp, later>>
    BY <1>5 DEF SceneVisits
  <2>2. /\ scene' \in [wanted : Scenes, todo : SUBSET Lamp, reached : SUBSET Lamp,
                       older : SUBSET Lamp, called : SUBSET Lamp, since : SUBSET Lamp,
                       over : BOOLEAN]
        /\ scene'.wanted = scene.wanted /\ scene'.older = scene.older
        /\ scene'.since = scene.since
    BY <1>3, <2>1
  <2>3. scene' # NoScene /\ scene' \in SceneRuns
    BY <1>2, <2>2, SomeScene, NonePressed DEF SceneRuns
  <2>4. TypeOK' /\ Attributed' /\ Dated' /\ Sound'
    BY <1>1, <1>2, <1>4, <2>1, <2>2, <2>3 DEF TypeOK, Attributed, Dated, Sound
  <2> QED BY <2>4 DEF IInv
<1>6. CASE lamp[l].rec.observed.state # scene.wanted.state
  <2> DEFINE reached == IF scene.over THEN scene.reached ELSE scene.reached \cup {l}
  <2>1. /\ scene' = [scene EXCEPT !.todo = @ \ {l}, !.called = {l}, !.since = {},
                                  !.reached = reached]
        /\ carries' = [carries EXCEPT ![l] = "scene"]
        /\ stamp' = [stamp EXCEPT ![l] = "scene"]
        /\ later' = [later EXCEPT !["call"] = {}]
    BY <1>6 DEF SceneVisits
  <2>2. reached \in SUBSET Lamp
    BY <1>3
  <2> HIDE DEF reached
  <2>3. /\ scene' \in [wanted : Scenes, todo : SUBSET Lamp, reached : SUBSET Lamp,
                       older : SUBSET Lamp, called : SUBSET Lamp, since : SUBSET Lamp,
                       over : BOOLEAN]
        /\ scene'.wanted = scene.wanted /\ scene'.older = scene.older
    BY <1>3, <2>1, <2>2
  <2>4. scene' # NoScene /\ scene' \in SceneRuns
    BY <1>2, <2>3, SomeScene, NonePressed DEF SceneRuns
  <2>5. /\ carries' \in [Lamp -> {"nothing", "press", "scene"}]
        /\ stamp' \in [Lamp -> {"none", "press", "scene"}]
        /\ \A j \in Lamp : /\ "press" \in {carries'[j], stamp'[j]} =>
                                 "press" \in {carries[j], stamp[j]}
                           /\ carries'[j] = "scene" => carries[j] = "scene" \/ j = l
                           /\ j # l => stamp'[j] = stamp[j]
        /\ stamp'[l] = "scene"
    BY <1>1, <2>1 DEF TypeOK
  <2>6. /\ later' \in [Dates -> SUBSET Lamp]
        /\ later'["press"] = later["press"] /\ later'["scene"] = later["scene"]
        /\ later'["call"] = {}
    BY <1>1, <2>1 DEF TypeOK, Dates
  <2>7. TypeOK'
    BY <1>1, <1>4, <2>4, <2>5, <2>6 DEF TypeOK
  <2>8. Attributed'
    BY <1>1, <1>4, <2>4, <2>5 DEF Attributed
  <2>9. Dated' /\ Sound'
    BY <1>1, <1>2, <1>4, <2>3, <2>6 DEF Dated, Sound
  <2> QED BY <2>7, <2>8, <2>9 DEF IInv
<1> QED BY <1>5, <1>6

\* What is remembered of a scene: all of it while a lamp answers it.
LEMMA RememberedRun ==
  ASSUME NEW run \in SceneRuns, run # NoScene, NEW stamps
  PROVE  LET s == Remembered(run, stamps)
         IN /\ s \in SceneRuns
            /\ s = NoScene => run.over /\ run.todo = {}
                              /\ \A l \in Lamp : "scene" \notin {carries[l], stamps[l]}
            /\ s # NoScene => /\ s.wanted = run.wanted /\ s.todo = run.todo
                              /\ s.older = run.older /\ s.since = run.since
                              /\ s.over = run.over
                              /\ ~run.over => s.reached = run.reached
<1> DEFINE kept == [run EXCEPT !.reached = IF run.over THEN {} ELSE @]
<1>1. run \in [wanted : Scenes, todo : SUBSET Lamp, reached : SUBSET Lamp,
               older : SUBSET Lamp, called : SUBSET Lamp, since : SUBSET Lamp,
               over : BOOLEAN]
  BY SomeScene
<1>2. /\ kept \in [wanted : Scenes, todo : SUBSET Lamp, reached : SUBSET Lamp,
                   older : SUBSET Lamp, called : SUBSET Lamp, since : SUBSET Lamp,
                   over : BOOLEAN]
      /\ kept.wanted = run.wanted /\ kept.todo = run.todo /\ kept.older = run.older
      /\ kept.since = run.since /\ kept.over = run.over
      /\ ~run.over => kept.reached = run.reached
  BY <1>1
<1>3. kept \in SceneRuns /\ kept # NoScene
  BY <1>2, SomeScene, NonePressed DEF SceneRuns
<1>4. Remembered(run, stamps) =
        IF /\ run.over /\ run.todo = {}
           /\ \A l \in Lamp : "scene" \notin {carries[l], stamps[l]}
        THEN NoScene ELSE kept
  BY DEF Remembered
<1> HIDE DEF kept
<1> QED BY <1>2, <1>3, <1>4, NonePressed

LEMMA SceneLaterType ==
  ASSUME IInv, later' = SceneLater
  PROVE  /\ later' \in [Dates -> SUBSET Lamp]
         /\ later'["press"] = later["press"]
         /\ scene' # NoScene => /\ later'["scene"] = later["scene"]
                                /\ later'["call"] = later["call"]
BY DEF IInv, TypeOK, SceneLater, Dates

\* What the members that a scene skipped are taken to have been told.
Skipped(l) ==
  IF l \notin Claims(scene) THEN lamp[l]
  ELSE LET call == ReproducedCall(scene.wanted)
       IN ByIntent(lamp[l], Intent(call), NamedBy(call), l \in scene.older)

LEMMA SkippedFit ==
  ASSUME IInv, NEW l \in Lamp
  PROVE  Steady(lamp[l], Skipped(l))
<1> DEFINE call == ReproducedCall(scene.wanted)
           q == ByIntent(lamp[l], Intent(call), NamedBy(call), l \in scene.older)
<1>1. call \in LightCall
  BY WantedOfScene DEF IInv, TypeOK
<1>2. Skipped(l) \in {lamp[l], q}
  BY DEF Skipped
<1> HIDE DEF call
<1>3. Steady(lamp[l], q)
  BY <1>1, IntentType, NamedType, LampFit, ByIntentFit
<1> HIDE DEF q
<1> QED BY <1>2, <1>3, LampFit, SteadyComposes

LEMMA SceneSettlesKeeps ==
  ASSUME IInv, SceneSettles
  PROVE  IInv'
<1> DEFINE known == [l \in Lamp |-> Skipped(l)]
           over == [scene EXCEPT !.over = TRUE]
           run == Remembered(over, stamp)
<1>1. /\ ~scene.over /\ Made(known, press, run) /\ later' = SceneLater
      /\ UNCHANGED <<carries, stamp>> /\ Itself
  BY DEF SceneSettles, Skipped
<1>2. TypeOK /\ Attributed /\ Dated
  BY DEF IInv
<1>3. scene \in SceneRuns /\ scene # NoScene
  BY <1>1, <1>2, NonePressed DEF TypeOK
<1>4. /\ over \in SceneRuns /\ over # NoScene
      /\ over.older = scene.older /\ over.since = scene.since
  BY <1>3, SomeScene, NonePressed DEF SceneRuns
<1> HIDE DEF over
<1>5. /\ run \in SceneRuns
      /\ run = NoScene => \A l \in Lamp : "scene" \notin {carries[l], stamp[l]}
      /\ run # NoScene => run.older = scene.older /\ run.since = scene.since
  BY <1>4, RememberedRun
<1> HIDE DEF run
<1>6. ASSUME NEW l \in Lamp
      PROVE  Fit(known[l]) /\ (known[l].room => lamp[l].room)
  BY SkippedFit DEF Steady
<1>7. known \in [Lamp -> Knowledge]
  BY <1>6 DEF Fit
<1> HIDE DEF known
<1>8. press \in Presses /\ (scene' = NoScene <=> run = NoScene)
  BY <1>1, <1>2, <1>5, <1>6, <1>7, MadeOf DEF TypeOK
<1>9. /\ later' \in [Dates -> SUBSET Lamp] /\ later'["press"] = later["press"]
      /\ run # NoScene => later'["scene"] = later["scene"] /\ later'["call"] = later["call"]
  BY <1>1, <1>8, SceneLaterType
<1>10. /\ carries' \in [Lamp -> {"nothing", "press", "scene"}]
       /\ stamp' \in [Lamp -> {"none", "press", "scene"}]
       /\ \A l \in Lamp : known[l].room => press.memory = "heard"
  BY <1>1, <1>2, <1>6 DEF TypeOK
<1>11. /\ press.memory # "gone"
       /\ \A l \in Lamp : "press" \in {carries'[l], stamp'[l]} => press.memory = "heard"
       /\ \A l \in Lamp : "scene" \in {carries'[l], stamp'[l]} => run # NoScene
       /\ \A l \in Lamp : carries'[l] = "scene" => stamp'[l] = "scene"
  BY <1>1, <1>2, <1>5 DEF Attributed
<1>12. /\ press # NoPress => later'["press"] \subseteq press.older \cup Changed(known)
       /\ run # NoScene => /\ later'["scene"] \subseteq run.older \cup Changed(known)
                           /\ later'["call"] \subseteq run.since \cup Changed(known)
  BY <1>2, <1>3, <1>5, <1>9 DEF Dated
<1>13. acts' \in 0..MaxActs /\ dark' \in SUBSET Lamp
  BY <1>1, ItselfType
<1> QED BY <1>1, <1>5, <1>6, <1>7, <1>8, <1>9, <1>10, <1>11, <1>12, <1>13, StepKeeps

-----------------------------------------------------------------------------
(* Reports and timers *)

\* A report nobody's call is behind starts a debounce, or goes with one.
Noticed(k, o) ==
  [k EXCEPT !.rec = Showing(@, o),
            !.prev = IF @ = Away /\ ~Runs(k) THEN k.rec.observed ELSE @]

LEMMA NoticedFit ==
  ASSUME NEW k, Fit(k), NEW o \in Report \ {Away}
  PROVE  /\ Steady(k, Noticed(k, o))
         /\ Noticed(k, o).rec.layers = k.rec.layers
<1> DEFINE seen == [k EXCEPT !.rec = Showing(@, o)]
           prev == IF k.prev = Away /\ ~Runs(k) THEN k.rec.observed ELSE k.prev
<1>1. Steady(k, seen) /\ seen.rec.layers = k.rec.layers
  BY SeenFit
<1>2. prev \in Report
  BY DEF Fit, Good, Knowledge, Record
<1>3. Noticed(k, o) = [seen EXCEPT !.prev = prev]
  BY DEF Noticed, Fit, Knowledge
<1> HIDE DEF seen, prev
<1>4. Fit([seen EXCEPT !.prev = prev])
  BY <1>1, <1>2, OtherMarks, ConstantCommands DEF Steady
<1>5. /\ [seen EXCEPT !.prev = prev].rec = seen.rec
      /\ [seen EXCEPT !.prev = prev].room = seen.room
  BY <1>1 DEF Steady, Fit, Knowledge
<1> QED BY <1>1, <1>3, <1>4, <1>5 DEF Steady

\* What a report put down to a call takes includes on and off.
LEMMA TakenByType ==
  ASSUME NEW call, NEW reaches, NEW before, NEW o
  PROVE  /\ TakenBy(call, reaches, before, o) \in Take
         /\ "state" \in TakenBy(call, reaches, before, o)
<1>1. Everything \in Take /\ "state" \in Everything
  BY TakeTypes DEF Everything, Group
<1>2. CallGroups(NamedBy(call), before, o) \in Take
  BY TakeTypes, NamedType
<1>3. "state" \in CallGroups(NamedBy(call), before, o)
  BY <1>1 DEF CallGroups
<1>4. CASE reaches
  BY <1>2, <1>3, <1>4 DEF TakenBy
<1>5. CASE ~reaches
  BY <1>1, <1>5 DEF TakenBy
<1> QED BY <1>4, <1>5

\* A report, whoever is behind it: an old call leaves the layers, any other
\* takes them back, and one that nobody called for waits for the debounce.
LEMMA ReportedFit ==
  ASSUME IInv, NEW l \in Lamp, NEW o \in Report \ {Away}
  PROVE  LET whose == CallBehind(l, o)
             before == lamp[l].rec.observed
             old == l \in (IF whose = "scene" THEN scene.since ELSE press.older)
             call == IF whose = "scene" THEN ReproducedCall(scene.wanted) ELSE press.call
             reaches == whose = "scene" => l \in scene.called
         IN /\ Steady(lamp[l], Reported(l, o))
            /\ whose = "nobody" => Reported(l, o) = Noticed(lamp[l], o)
            /\ whose # "nobody" =>
                 Reported(l, o) = ByCall(lamp[l], TakenBy(call, reaches, before, o),
                                         ChosenBy(call, before, o), o, old)
            /\ whose = "nobody" \/ old =>
                 Reported(l, o).rec.layers = lamp[l].rec.layers
<1> DEFINE whose == CallBehind(l, o)
           before == lamp[l].rec.observed
           old == l \in (IF whose = "scene" THEN scene.since ELSE press.older)
           call == IF whose = "scene" THEN ReproducedCall(scene.wanted) ELSE press.call
           reaches == whose = "scene" => l \in scene.called
           groups == TakenBy(call, reaches, before, o)
           called == ByCall(lamp[l], groups, ChosenBy(call, before, o), o, old)
<1>1. Reported(l, o) = IF whose # "nobody" THEN called ELSE Noticed(lamp[l], o)
  BY DEF Reported, Noticed
<1> HIDE DEF whose, old, call, reaches, before
<1>2. Steady(lamp[l], called) /\ (old => called.rec.layers = lamp[l].rec.layers)
  <2>1. groups \in Take
    BY TakenByType
  <2> HIDE DEF groups
  <2> QED BY <2>1, LampFit, ByCallFit
<1>3. /\ Steady(lamp[l], Noticed(lamp[l], o))
      /\ Noticed(lamp[l], o).rec.layers = lamp[l].rec.layers
  BY LampFit, NoticedFit
<1>4. /\ Steady(lamp[l], Reported(l, o))
      /\ whose = "nobody" => Reported(l, o) = Noticed(lamp[l], o)
      /\ whose # "nobody" => Reported(l, o) = called
      /\ whose = "nobody" \/ old => Reported(l, o).rec.layers = lamp[l].rec.layers
  BY <1>1, <1>2, <1>3
<1> QED BY <1>4 DEF whose, old, call, reaches, before

\* A lamp carries out the call it is to carry out.
LEMMA AnswersKeeps ==
  ASSUME IInv, NEW l \in Lamp, Answers(l)
  PROVE  IInv'
<1>1. TypeOK /\ Attributed /\ Dated /\ Sound
  BY DEF IInv
<1>2. /\ carries' = [carries EXCEPT ![l] = "nothing"]
      /\ UNCHANGED <<stamp, later>> /\ acts' = acts /\ dark' = dark
  BY DEF Answers, Itself
<1>3. /\ carries' \in [Lamp -> {"nothing", "press", "scene"}]
      /\ stamp' \in [Lamp -> {"none", "press", "scene"}]
      /\ later' \in [Dates -> SUBSET Lamp]
      /\ acts' \in 0..MaxActs /\ dark' \in SUBSET Lamp
      /\ press \in Presses /\ scene \in SceneRuns
      /\ \A j \in Lamp : carries'[j] \in {carries[j], "nothing"}
  BY <1>1, <1>2 DEF TypeOK
<1>4. /\ press.memory # "gone"
      /\ \A j \in Lamp : "press" \in {carries'[j], stamp'[j]} => press.memory = "heard"
      /\ \A j \in Lamp : "scene" \in {carries'[j], stamp'[j]} => scene # NoScene
      /\ \A j \in Lamp : carries'[j] = "scene" => stamp'[j] = "scene"
  BY <1>1, <1>2, <1>3 DEF Attributed
<1>5. CASE UNCHANGED <<lamp, press, scene>>
  <2>1. TypeOK' /\ Sound'
    BY <1>1, <1>3, <1>5 DEF TypeOK, Sound
  <2>2. Attributed' /\ Dated'
    BY <1>1, <1>2, <1>4, <1>5 DEF Attributed, Dated
  <2> QED BY <2>1, <2>2 DEF IInv
<1>6. CASE ~UNCHANGED <<lamp, press, scene>>
  <2>1. PICK o \in Reports : Made(Only(l, Reported(l, o)), press, scene)
    BY <1>6 DEF Answers
  <2>2. Steady(lamp[l], Reported(l, o))
    BY LampsAssumption, ReportedFit
  <2> DEFINE known == Only(l, Reported(l, o))
  <2>3. /\ known \in [Lamp -> Knowledge]
        /\ \A j \in Lamp : Fit(known[j]) /\ (known[j].room => lamp[j].room)
    BY <2>2, OneLamp DEF Steady
  <2> HIDE DEF known
  <2>4. \A j \in Lamp : known[j].room => press.memory = "heard"
    BY <1>1, <2>3 DEF TypeOK
  <2>5. /\ press # NoPress => later'["press"] \subseteq press.older \cup Changed(known)
        /\ scene # NoScene => /\ later'["scene"] \subseteq scene.older \cup Changed(known)
                              /\ later'["call"] \subseteq scene.since \cup Changed(known)
    BY <1>1, <1>2 DEF Dated
  <2> QED BY <1>3, <1>4, <2>1, <2>3, <2>4, <2>5, StepKeeps DEF known
<1> QED BY <1>5, <1>6

\* A render that arrived leaves the stack, and notes a colour that is another
\* (_verified).
LEMMA VerifiedFit ==
  ASSUME NEW k, Fit(k)
  PROVE  LET q == Verified(k)
         IN /\ Steady(k, q) /\ SameStack(k, q)
            /\ q.job = Nothing /\ q.prev = k.prev /\ q.replayed = k.replayed
            /\ q.rec.diverged = IF Matches(k.rec.observed, k.job) = "colour_off"
                                THEN "colour" ELSE "none"
<1> DEFINE d == IF Matches(k.rec.observed, k.job) = "colour_off" THEN "colour" ELSE "none"
           idle == [k EXCEPT !.job = Nothing]
           paid == Settles(idle)
           q == [paid EXCEPT !.rec.diverged = d]
<1>1. /\ Fit(idle) /\ SameStack(k, idle) /\ idle.room = k.room
      /\ idle.job = Nothing /\ idle.prev = k.prev /\ idle.replayed = k.replayed
  BY OtherMarks, ConstantCommands DEF Fit, Knowledge, SameStack
<1>2. d \in Divergence
  BY DEF Divergence
<1>3. Verified(k) = q
  BY DEF Verified, Settles, Fit, Knowledge
<1> HIDE DEF d, idle
<1>4. /\ Fit(paid) /\ SameStack(idle, paid) /\ paid.room = idle.room
      /\ paid.job = idle.job /\ paid.prev = idle.prev /\ paid.replayed = idle.replayed
  BY <1>1, SettlesFit
<1> HIDE DEF paid
<1>5. /\ Fit(q) /\ SameStack(paid, q) /\ q.room = paid.room
      /\ q.job = paid.job /\ q.prev = paid.prev /\ q.replayed = paid.replayed
      /\ q.rec.diverged = d
  BY <1>2, <1>4, OtherNotes DEF Fit, Good, Knowledge, Record
<1> HIDE DEF q
<1>6. SameStack(k, q)
  BY <1>1, <1>4, <1>5, SameStackComposes
<1> QED BY <1>1, <1>3, <1>4, <1>5, <1>6 DEF Steady, SameStack, d

\* Our command lands: the lamp shows it, and that it is off is noted (_handle_state).
LEMMA LandsFit ==
  ASSUME NEW k, Fit(k), NEW o \in Report \ {Away}
  PROVE  LET r == SeenOffIf(Showing(k.rec, o), o.state = "off")
             seen == [k EXCEPT !.rec = r]
         IN /\ Steady(k, seen) /\ seen.rec = r
            /\ seen.prev = k.prev /\ seen.job = k.job /\ seen.replayed = k.replayed
            /\ r.base = k.rec.base /\ r.observed = o
            /\ SaysSame(k.rec.layers, r.layers)
<1> DEFINE s == Showing(k.rec, o)
           r == SeenOffIf(s, o.state = "off")
<1>1. Good(k.rec) /\ k.rec \in Record
  BY DEF Fit, Good
<1>2. /\ s \in Record /\ Good(s) /\ s.observed = o /\ s.changed = k.rec.changed
      /\ s.base = k.rec.base /\ s.layers = k.rec.layers
  BY <1>1, ShowingQuiet, GoodKept DEF Becomes, Showing, Record
<1> HIDE DEF s
<1>3. /\ r.base = s.base /\ r.observed = s.observed /\ SaysSame(s.layers, r.layers)
  BY <1>2, SeenOffSays
<1>4. r.changed = s.changed
  BY <1>2, SeenOffSpares
<1>5. Good(r)
  BY <1>2, SeenOffQuiet, GoodKept
<1>6. o.state # "away"
  BY DEF Report, Away, Cmd
<1> HIDE DEF r
<1>7. Available(r)
  BY <1>2, <1>3, <1>6 DEF Available
<1>8. /\ Steady(k, [k EXCEPT !.rec = r]) /\ [k EXCEPT !.rec = r].rec = r
      /\ [k EXCEPT !.rec = r].prev = k.prev /\ [k EXCEPT !.rec = r].job = k.job
      /\ [k EXCEPT !.rec = r].replayed = k.replayed
  BY <1>2, <1>4, <1>5, <1>7, OtherRecord, OtherRecordSteady
<1> QED BY <1>2, <1>3, <1>8 DEF r, s

LEMMA LandedFit ==
  ASSUME NEW k, Fit(k), NEW o \in Report \ {Away}
  PROVE  Steady(k, Landed(k, o))
<1> DEFINE seen == [k EXCEPT !.rec = SeenOffIf(Showing(@, o), o.state = "off")]
<1>1. Steady(k, seen)
  BY LandsFit
<1>2. Landed(k, o) = IF Matches(k.rec.observed, k.job) # "no" THEN Verified(k)
                     ELSE Verified(seen)
  BY DEF Landed
<1> HIDE DEF seen
<1>3. Steady(k, Verified(k)) /\ Steady(k, Verified(seen))
  BY <1>1, VerifiedFit, SteadyComposes DEF Steady
<1> QED BY <1>2, <1>3

LEMMA OwnLandsKeeps ==
  ASSUME IInv, NEW l \in Lamp, OwnLands(l)
  PROVE  IInv'
<1>1. PICK o \in Reports : Made(Only(l, Landed(lamp[l], o)), press, scene)
  BY DEF OwnLands
<1>2. /\ stamp' = [stamp EXCEPT ![l] = "none"] /\ carries[l] = "nothing"
      /\ UNCHANGED <<carries, later>> /\ acts' = acts /\ dark' = dark
  BY DEF OwnLands, Itself
<1> DEFINE known == Only(l, Landed(lamp[l], o))
<1>3. /\ known \in [Lamp -> Knowledge]
      /\ \A j \in Lamp : Fit(known[j]) /\ (known[j].room => lamp[j].room)
  BY LampFit, LandedFit, OneLamp, LampsAssumption DEF Steady
<1> HIDE DEF known
<1>4. TypeOK /\ Attributed /\ Dated
  BY DEF IInv
<1>5. /\ carries' \in [Lamp -> {"nothing", "press", "scene"}]
      /\ stamp' \in [Lamp -> {"none", "press", "scene"}]
      /\ later' \in [Dates -> SUBSET Lamp]
      /\ acts' \in 0..MaxActs /\ dark' \in SUBSET Lamp
      /\ press \in Presses /\ scene \in SceneRuns
      /\ \A j \in Lamp : stamp'[j] \in {stamp[j], "none"}
      /\ \A j \in Lamp : j # l => stamp'[j] = stamp[j]
      /\ \A j \in Lamp : known[j].room => press.memory = "heard"
  BY <1>2, <1>3, <1>4 DEF TypeOK
<1>6. /\ press.memory # "gone"
      /\ \A j \in Lamp : "press" \in {carries'[j], stamp'[j]} => press.memory = "heard"
      /\ \A j \in Lamp : "scene" \in {carries'[j], stamp'[j]} => scene # NoScene
      /\ \A j \in Lamp : carries'[j] = "scene" => stamp'[j] = "scene"
  BY <1>2, <1>4, <1>5 DEF Attributed
<1>7. /\ press # NoPress => later'["press"] \subseteq press.older \cup Changed(known)
      /\ scene # NoScene => /\ later'["scene"] \subseteq scene.older \cup Changed(known)
                            /\ later'["call"] \subseteq scene.since \cup Changed(known)
  BY <1>2, <1>4 DEF Dated
<1> QED BY <1>1, <1>3, <1>5, <1>6, <1>7, StepKeeps DEF known

\* What only touches one lamp keeps the invariant.
LEMMA OneLampKeeps ==
  ASSUME IInv, NEW l \in Lamp, NEW k, Steady(lamp[l], k), Made(Only(l, k), press, scene),
         UNCHANGED <<carries, stamp, later>>, acts' \in 0..MaxActs, dark' \in SUBSET Lamp
  PROVE  IInv'
BY LampsOnly, OneLamp DEF Steady

LEMMA PersonKeeps ==
  ASSUME IInv, acts < MaxActs, NEW l \in Lamp, NEW o \in Reports, Person(l, o)
  PROVE  IInv'
<1>1. /\ Made(Only(l, Reported(l, o)), press, scene)
      /\ UNCHANGED <<carries, stamp, later>> /\ Acts({l})
  BY DEF Person
<1>2. Steady(lamp[l], Reported(l, o))
  BY LampsAssumption, ReportedFit
<1> QED BY <1>1, <1>2, ActsKeeps, OneLampKeeps

LEMMA SettleDebounceKeeps ==
  ASSUME IInv, NEW l \in Lamp, SettleDebounce(l)
  PROVE  IInv'
<1>1. /\ Made(Only(l, Settled(lamp[l])), press, scene)
      /\ UNCHANGED <<carries, stamp, later>> /\ Itself
  BY DEF SettleDebounce
<1>2. Steady(lamp[l], Settled(lamp[l]))
  BY LampFit, SettledFit
<1> QED BY <1>1, <1>2, ItselfType, OneLampKeeps

\* What the replay put off is put right (_reproject_later).
PutRight(k) == [Send(Flush(k)) EXCEPT !.replayed = FALSE]

LEMMA PutRightFit ==
  ASSUME NEW k, Fit(k)
  PROVE  Steady(k, PutRight(k)) /\ PutRight(k).rec = Send(Flush(k)).rec
<1> DEFINE sent == Send(Flush(k))
<1>1. Steady(k, sent)
  <2>1. Steady(k, Flush(k))
    BY FlushFit
  <2>2. Steady(Flush(k), sent)
    BY <2>1, PartsSteady DEF Steady
  <2> QED BY <2>1, <2>2, SteadyComposes
<1> HIDE DEF sent
<1>2. /\ Fit([sent EXCEPT !.replayed = FALSE])
      /\ [sent EXCEPT !.replayed = FALSE].rec = sent.rec
      /\ [sent EXCEPT !.replayed = FALSE].room = sent.room
  BY <1>1, OtherMarks, ConstantCommands DEF Steady, Fit, Knowledge
<1> QED BY <1>1, <1>2 DEF PutRight, sent, Steady

LEMMA AfterReplayKeeps ==
  ASSUME IInv, NEW l \in Lamp, AfterReplay(l)
  PROVE  IInv'
<1>1. /\ Made(Only(l, PutRight(lamp[l])), press, scene)
      /\ UNCHANGED <<carries, stamp, later>> /\ Itself
  BY DEF AfterReplay, PutRight
<1>2. Steady(lamp[l], PutRight(lamp[l]))
  BY LampFit, PutRightFit
<1> QED BY <1>1, <1>2, ItselfType, OneLampKeeps

LEMMA WindowClosesKeeps ==
  ASSUME IInv, NEW l \in Lamp, WindowCloses(l)
  PROVE  IInv'
<1>1. TypeOK /\ Attributed /\ Dated /\ Sound
  BY DEF IInv
<1>2. /\ stamp' = [stamp EXCEPT ![l] = "none"] /\ carries[l] # stamp[l]
      /\ scene' = Remembered(scene, stamp') /\ later' = SceneLater
      /\ UNCHANGED <<lamp, press, carries>> /\ Itself
  BY DEF WindowCloses
<1>3. /\ acts' \in 0..MaxActs /\ dark' \in SUBSET Lamp
  BY <1>2, ItselfType
<1>4. /\ stamp' \in [Lamp -> {"none", "press", "scene"}]
      /\ \A j \in Lamp : stamp'[j] \in {stamp[j], "none"}
      /\ \A j \in Lamp : j # l => stamp'[j] = stamp[j]
  BY <1>1, <1>2 DEF TypeOK
<1>5. /\ scene' \in SceneRuns
      /\ scene' = NoScene => \A j \in Lamp : "scene" \notin {carries[j], stamp'[j]}
      /\ scene' # NoScene => /\ scene # NoScene /\ scene'.older = scene.older
                             /\ scene'.since = scene.since
  <2>1. CASE scene = NoScene
    <3>1. scene' = NoScene
      <4>1. \A j \in Lamp : "scene" \notin {carries[j], stamp'[j]}
        BY <1>1, <1>4, <2>1 DEF Attributed
      <4> QED BY <1>2, <2>1, <4>1, NonePressed DEF Remembered
    <3>2. \A j \in Lamp : "scene" \notin {carries[j], stamp'[j]}
      BY <1>1, <1>4, <2>1 DEF Attributed
    <3> QED BY <3>1, <3>2, NonePressed
  <2>2. CASE scene # NoScene
    <3>1. scene \in SceneRuns
      BY <1>1 DEF TypeOK
    <3> QED BY <1>2, <2>2, <3>1, RememberedRun
  <2> QED BY <2>1, <2>2
<1>6. /\ later' \in [Dates -> SUBSET Lamp] /\ later'["press"] = later["press"]
      /\ scene' # NoScene => later'["scene"] = later["scene"] /\ later'["call"] = later["call"]
  BY <1>2, SceneLaterType
<1>7. TypeOK' /\ Sound'
  BY <1>1, <1>2, <1>3, <1>4, <1>5, <1>6 DEF TypeOK, Sound
<1>8. Attributed'
  BY <1>1, <1>2, <1>4, <1>5 DEF Attributed
<1>9. Dated'
  BY <1>1, <1>2, <1>5, <1>6 DEF Dated
<1> QED BY <1>7, <1>8, <1>9 DEF IInv

LEMMA NextKeeps ==
  ASSUME IInv, [Next]_vars
  PROVE  IInv'
<1>1. CASE UNCHANGED vars
  BY <1>1 DEF vars, IInv, TypeOK, Attributed, Dated, Presses, SceneRuns, Sound
<1>2. CASE acts < MaxActs /\ Owner
  BY <1>2, SetLayerKeeps, ClearLayerKeeps DEF Owner
<1>3. CASE acts < MaxActs /\ Someone
  BY <1>3, PressKeeps, SceneKeeps, PersonKeeps DEF Someone
<1>4. CASE World
  BY <1>4, PressAgainKeeps, LoopEndsKeeps, SceneVisitsKeeps, AnswersKeeps, OwnLandsKeeps,
     WindowClosesKeeps DEF World
<1>5. CASE Engine
  BY <1>5, PruneKeeps, SceneSettlesKeeps, SettleDebounceKeeps, AfterReplayKeeps DEF Engine
<1> QED BY <1>1, <1>2, <1>3, <1>4, <1>5 DEF Next

\* In every reachable state the invariant holds, whatever lamps, rooms, owners,
\* loops and scenes there are.
THEOREM Invariance == Spec => []IInv
<1>1. Init => IInv
  BY InitKeeps
<1>2. IInv /\ [Next]_vars => IInv'
  BY NextKeeps
<1> QED BY <1>1, <1>2, PTL DEF Spec

\* What the engine keeps of the lamps, the calls and the scenes is well-typed.
THEOREM TypeCorrect == Spec => []TypeOK
<1>1. IInv => TypeOK
  BY DEF IInv
<1> QED BY <1>1, Invariance, PTL

-----------------------------------------------------------------------------
(* Old calls *)

\* What was dated before an owner's set is replayed: no layer goes.
LEMMA OldLeaves ==
  ASSUME IInv, NEW l \in Lamp
  PROVE  /\ PressAgain /\ l \in later["press"] =>
              lamp'[l].rec.layers = lamp[l].rec.layers
         /\ SceneSettles /\ l \in later["scene"] =>
              lamp'[l].rec.layers = lamp[l].rec.layers
         /\ /\ carries[l] # "nothing" /\ Answers(l)
            /\ l \in later[IF stamp[l] = "scene" THEN "call" ELSE "press"]
            => lamp'[l].rec.layers = lamp[l].rec.layers
<1>1. TypeOK /\ Attributed /\ Dated
  BY DEF IInv
<1>2. lamp[l] \in Knowledge /\ Fit(lamp[l])
  BY LampFit
<1>3. ASSUME NEW known, NEW pressed, NEW run, Made(known, pressed, run),
             Fit(known[l])
      PROVE  lamp'[l].rec.layers = known[l].rec.layers
  BY <1>3 DEF Made, Fit, Good, Knowledge, Record
<1>4. ASSUME PressAgain, l \in later["press"]
      PROVE  lamp'[l].rec.layers = lamp[l].rec.layers
  <2> DEFINE to == [press EXCEPT !.memory = "heard",
                                 !.older = IF press.memory = "gone" THEN {} ELSE @]
             known == [j \in Lamp |->
                         IF j \notin to.lamps THEN lamp[j]
                         ELSE ByIntent(Listening(to, j), Intent(to.call), NamedBy(to.call),
                                       j \in to.older)]
             old == l \in to.older
             heard == ByIntent(Listening(to, l), Intent(to.call), NamedBy(to.call), old)
  <2>1. press \in Presses /\ press # NoPress
    BY <1>1, <1>4, NonePressed DEF TypeOK, PressAgain
  <2>2. to.older = press.older /\ to.call = press.call /\ press.call \in LightCall
    BY <1>1, <2>1, SomePress, LampsAssumption DEF Attributed
  <2>3. old
    BY <1>1, <1>4, <2>1, <2>2 DEF Dated
  <2>4. Made(known, to, scene)
    BY <1>4 DEF PressAgain, Heard, Listening
  <2>5. known[l] \in {lamp[l], heard}
    OBVIOUS
  <2> HIDE DEF known, to, old
  <2>6. Fit(Listening(to, l)) /\ Listening(to, l).rec = lamp[l].rec
    BY ListeningFit
  <2>7. Fit(heard) /\ heard.rec.layers = lamp[l].rec.layers
    <3> DEFINE k == Listening(to, l)
               cmd == Intent(to.call)
               named == NamedBy(to.call)
    <3>1. cmd \in Command /\ named \in SUBSET AttrGroup
      BY <2>2, IntentType, NamedType
    <3>2. Fit(k) /\ k.rec = lamp[l].rec
      BY <2>6
    <3> HIDE DEF k, cmd, named
    <3>3. /\ Steady(k, ByIntent(k, cmd, named, old))
          /\ old => ByIntent(k, cmd, named, old).rec.layers = k.rec.layers
      BY <3>1, <3>2, ByIntentFit
    <3> QED BY <2>3, <3>2, <3>3 DEF Steady, k, cmd, named
  <2> HIDE DEF heard
  <2> QED BY <1>2, <1>3, <2>4, <2>5, <2>7
<1>5. ASSUME SceneSettles, l \in later["scene"]
      PROVE  lamp'[l].rec.layers = lamp[l].rec.layers
  <2> DEFINE known == [j \in Lamp |-> Skipped(j)]
             call == ReproducedCall(scene.wanted)
             old == l \in scene.older
             told == ByIntent(lamp[l], Intent(call), NamedBy(call), old)
  <2>1. ~scene.over /\ Made(known, press, Remembered([scene EXCEPT !.over = TRUE], stamp))
    BY <1>5 DEF SceneSettles, Skipped
  <2>2. old
    BY <1>1, <1>5, <2>1, NonePressed DEF Dated
  <2>3. call \in LightCall
    BY <1>1, WantedOfScene DEF TypeOK
  <2>4. known[l] \in {lamp[l], told}
    BY DEF Skipped
  <2> HIDE DEF known, call, old
  <2>5. Fit(told) /\ told.rec.layers = lamp[l].rec.layers
    <3> DEFINE k == lamp[l]
               cmd == Intent(call)
               named == NamedBy(call)
    <3>1. cmd \in Command /\ named \in SUBSET AttrGroup
      BY <2>3, IntentType, NamedType
    <3> HIDE DEF k, cmd, named
    <3>2. Fit(k)
      BY <1>2 DEF k
    <3>3. /\ Steady(k, ByIntent(k, cmd, named, old))
          /\ old => ByIntent(k, cmd, named, old).rec.layers = k.rec.layers
      BY <3>1, <3>2, ByIntentFit
    <3> QED BY <2>2, <3>3 DEF Steady, k, cmd, named
  <2> HIDE DEF told
  <2> QED BY <1>2, <1>3, <2>1, <2>4, <2>5
<1>6. ASSUME carries[l] # "nothing", Answers(l),
             l \in later[IF stamp[l] = "scene" THEN "call" ELSE "press"]
      PROVE  lamp'[l].rec.layers = lamp[l].rec.layers
  <2>1. CASE UNCHANGED lamp
    BY <2>1
  <2>2. CASE ~UNCHANGED lamp
    <3>1. PICK o \in Reports : Made(Only(l, Reported(l, o)), press, scene)
      BY <1>6, <2>2 DEF Answers
    <3> DEFINE whose == CallBehind(l, o)
               old == l \in (IF whose = "scene" THEN scene.since ELSE press.older)
    <3>2. whose # "nobody" => old
      <4>1. /\ carries[l] \in {"nothing", "press", "scene"}
            /\ stamp[l] \in {"none", "press", "scene"}
        BY <1>1 DEF TypeOK
      <4>2. CASE stamp[l] = "scene"
        <5>1. whose = "scene" /\ l \in later["call"] /\ scene # NoScene
          BY <1>1, <1>6, <4>2 DEF CallBehind, Attributed
        <5> QED BY <1>1, <5>1 DEF Dated
      <4>3. CASE stamp[l] # "scene" /\ whose # "nobody"
        <5>1. whose = "press" /\ press.memory = "heard"
          BY <4>3 DEF CallBehind
        <5>2. l \in later["press"]
          BY <1>1, <1>6, <4>1, <4>3 DEF Attributed
        <5>3. press # NoPress
          BY <5>1, NonePressed
        <5> QED BY <1>1, <5>1, <5>2, <5>3 DEF Dated
      <4> QED BY <4>2, <4>3
    <3>3. /\ Steady(lamp[l], Reported(l, o))
          /\ whose = "nobody" \/ old => Reported(l, o).rec.layers = lamp[l].rec.layers
      BY LampsAssumption, ReportedFit
    <3> HIDE DEF whose, old
    <3>4. Only(l, Reported(l, o))[l] = Reported(l, o) /\ Fit(Reported(l, o))
      BY <3>3, OneLamp DEF Steady
    <3> QED BY <1>3, <3>1, <3>2, <3>3, <3>4
  <2> QED BY <2>1, <2>2
<1> QED BY <1>4, <1>5, <1>6

\* No press made again and no scene that settles takes back a layer an owner set
\* after the press was made or the scene ran, and no lamp's answer one set after
\* the call it is put down to, the press or the last call under the scene's
\* context, however many owners, loops and scenes meet on a lamp (_replay, the
\* first sightings of _handle_call, run.at, _calls).
THEOREM OldPressesStayOld == Spec => OldPressStaysOld
<1> DEFINE P == \A l \in Lamp, i \in Id :
                  /\ i \in Live(lamp[l].rec.layers)
                  /\ ~Present(lamp'[l].rec.layers, i)
                  => /\ PressAgain => l \notin later["press"]
                     /\ SceneSettles => l \notin later["scene"]
                     /\ carries[l] # "nothing" /\ Answers(l) =>
                          l \notin later[IF stamp[l] = "scene" THEN "call" ELSE "press"]
<1>1. IInv => P
  BY OldLeaves DEF Live
<1> HIDE DEF P
<1>2. IInv /\ [Next]_vars => [P]_vars
  BY <1>1
<1>3. Spec => [][P]_vars
  BY <1>2, Invariance, PTL DEF Spec
<1> QED BY <1>3 DEF OldPressStaysOld, P

-----------------------------------------------------------------------------
(* Sets that validate_set lets through *)

\* What a lamp's stack is once its waiting change has been judged.
LEMMA ReadyStack ==
  ASSUME NEW l \in Lamp, Fit(lamp[l])
  PROVE  LET r == lamp[l].rec
             q == Ready(l).rec
         IN /\ Good(q)
            /\ \/ q.layers = r.layers /\ q.tombs = r.tombs
               \/ \E groups \in Take, chosen \in SUBSET Everything :
                    LET judged == Judged(r, groups, "device", "take_back", chosen)
                    IN q.layers = judged.layers /\ q.tombs = judged.tombs
<1> DEFINE k == lamp[l]
           f == Flush(k)
<1>1. /\ Ready(l).rec.layers = f.rec.layers /\ Ready(l).rec.tombs = f.rec.tombs
      /\ Good(Ready(l).rec)
  BY ReadyFit DEF Steady, Fit
<1>2. f \in {k, Settled(k)}
  BY DEF Flush
<1>3. \/ Settled(k) = [k EXCEPT !.prev = Away]
      \/ \E groups \in Take, chosen \in SUBSET Everything :
           Settled(k).rec = Judged(k.rec, groups, "device", "take_back", chosen)
  BY SettledFit
<1>4. [k EXCEPT !.prev = Away].rec = k.rec
  BY DEF Fit, Knowledge
<1> HIDE DEF f
<1> QED BY <1>1, <1>2, <1>3, <1>4

\* Why a set that names its priority can be refused (_check_priority).
LEMMA Refusal ==
  ASSUME NEW req \in SetRequest, WellFormed(req), req.lease = "none",
         req.priority # NoPriority, NEW q, ApplySet(q, req).result \in Refusals
  PROVE  /\ req.layer \in Id
         /\ \/ req.mode = "follow" /\ FollowRefused(q, req)
            \/ /\ ~LiveTomb(q, req.layer)
               /\ PriorityTaken(q, req.priority, req.layer)
               /\ req.onlyIfPresent => req.layer \in Live(q.layers)
<1> DEFINE i == req.layer
           lay == q.layers[i]
<1>1. i \in Id /\ i \notin {"base", "active"}
  BY DEF SetRequest, WellFormed
<1>2. req.mode # "follow" => Groups(req.command) # {}
  BY DEF WellFormed
<1>3. CASE req.mode = "follow" /\ FollowRefused(q, req)
  BY <1>1, <1>3
<1>4. CASE ~(req.mode = "follow" /\ FollowRefused(q, req))
  <2>1. SetNamedLayer(q, req).result \in Refusals
    BY <1>1, <1>2, <1>4 DEF ApplySet
  <2>2. ~LiveTomb(q, i)
    BY <2>1 DEF SetNamedLayer, Outcome, Refusals
  <2>3. CASE i \notin Live(q.layers)
    <3>1. CreateLayer(q, req).result \in Refusals
      BY <2>1, <2>2, <2>3 DEF SetNamedLayer
    <3>2. ~req.onlyIfPresent /\ PriorityTaken(q, req.priority, i)
      BY <3>1 DEF CreateLayer, Outcome, PutLayer, Refusals
    <3> QED BY <1>1, <2>2, <3>2
  <2>4. CASE i \in Live(q.layers)
    <3>1. \/ SetFollowLayer(q, req).result \in Refusals
          \/ UpdateLayer(q, req).result \in Refusals
      BY <2>1, <2>2, <2>4 DEF SetNamedLayer
    <3>2. PriorityTaken(q, req.priority, i)
      <4>1. ASSUME SetFollowLayer(q, req).result \in Refusals
            PROVE  PriorityTaken(q, req.priority, i)
        BY <4>1 DEF SetFollowLayer, Outcome, PutLayer, Refusals
      <4>2. ASSUME UpdateLayer(q, req).result \in Refusals
            PROVE  PriorityTaken(q, req.priority, i)
        BY <4>2 DEF UpdateLayer, Outcome, PutLayer, Refusals
      <4> QED BY <3>1, <4>1, <4>2
    <3> QED BY <1>1, <2>2, <2>4, <3>2
  <2> QED BY <2>3, <2>4
<1> QED BY <1>3, <1>4

\* When it is refused for sure: its priority is another's, it is not barred,
\* and it is no renewal of a layer that is gone.
LEMMA ConflictRefuses ==
  ASSUME NEW req \in SetRequest, req.lease = "none", req.priority # NoPriority,
         req.layer \in Id, NEW r, UniqueIn(r), ~LiveTomb(r, req.layer),
         PriorityTaken(r, req.priority, req.layer),
         req.onlyIfPresent => req.layer \in Live(r.layers)
  PROVE  \/ req.layer \in {"base", "active"}
         \/ ApplySet(r, req).result \in Refusals
<1> DEFINE i == req.layer
           lay == r.layers[i]
<1>1. {"invalid_request", "priority_conflict"} \subseteq Refusals
  BY DEF Refusals
<1>2. SetNamedLayer(r, req).result \in Refusals
  <2>1. CASE i \notin Live(r.layers)
    <3>1. CreateLayer(r, req).result = "priority_conflict"
      BY <2>1 DEF CreateLayer, Outcome
    <3> QED BY <1>1, <2>1, <3>1 DEF SetNamedLayer
  <2>2. CASE i \in Live(r.layers)
    <3>1. Moves(lay, req)
      <4>1. PICK j \in Live(r.layers) \ {i} : r.layers[j].prio = req.priority
        BY DEF PriorityTaken
      <4>2. r.layers[j].prio # lay.prio
        BY <2>2, <4>1 DEF UniqueIn
      <4> QED BY <4>1, <4>2 DEF Moves, PriorityOf
    <3>2. SetFollowLayer(r, req).result = "priority_conflict"
      BY <3>1 DEF SetFollowLayer, Outcome
    <3>3. UpdateLayer(r, req).result = "priority_conflict"
      BY <3>1 DEF UpdateLayer, Outcome
    <3> QED BY <1>1, <2>2, <3>2, <3>3 DEF SetNamedLayer
  <2> QED BY <2>1, <2>2
<1> QED BY <1>1, <1>2 DEF ApplySet, Outcome

\* A set that names its priority and that validate_set lets through is refused
\* by no lamp but one on which a tombstone kept validate_set from looking at the
\* priority of a follow layer (set_layer judges a waiting change only then).
LEMMA PassedSetsGoThrough ==
  ASSUME IInv
  PROVE  SetGoesThrough
<1> SUFFICES ASSUME NEW req \in Requests, req.priority # NoPriority,
                    NEW l \in Refused(req, Lamp),
                    NEW S \in SUBSET Lamp, l \in S, Valid(req, S)
             PROVE  /\ LiveTomb(lamp[l].rec, req.layer)
                    /\ \E j \in OfMode(lamp[l].rec.layers, "follow") :
                         lamp[l].rec.layers[j].prio = req.priority
  BY DEF SetGoesThrough
<1> DEFINE r == lamp[l].rec
           q == Ready(l).rec
           i == req.layer
<1>1. /\ req \in SetRequest /\ WellFormed(req) /\ req.lease = "none"
  BY RequestType
<1>2. l \in S /\ l \in Lamp /\ ApplySet(q, req).result \in Refusals
      /\ ApplySet(r, req).result \notin Refusals
  BY DEF Refused, Valid, SetOn
<1>3. Good(r) /\ Good(q) /\ Fit(lamp[l])
      /\ \/ q.layers = r.layers /\ q.tombs = r.tombs
         \/ \E groups \in Take, chosen \in SUBSET Everything :
              LET judged == Judged(r, groups, "device", "take_back", chosen)
              IN q.layers = judged.layers /\ q.tombs = judged.tombs
  BY <1>2, LampFit, ReadyStack DEF Fit
<1> HIDE DEF q
<1>4. /\ Inherits(r, q) /\ Quiet(r, q)
      /\ \/ q.tombs = r.tombs /\ q.layers = r.layers
         \/ \A j \in Id : Present(q.layers, j) => r.layers[j].mode = "follow"
  <2>1. CASE q.layers = r.layers /\ q.tombs = r.tombs
    BY <2>1 DEF Inherits, Quiet, LiveTomb
  <2>2. ASSUME NEW groups \in Take, NEW chosen \in SUBSET Everything,
               q.layers = Judged(r, groups, "device", "take_back", chosen).layers,
               q.tombs = Judged(r, groups, "device", "take_back", chosen).tombs
        PROVE  /\ Inherits(r, q) /\ Quiet(r, q)
               /\ \A j \in Id : Present(q.layers, j) => r.layers[j].mode = "follow"
    <3> DEFINE judged == Judged(r, groups, "device", "take_back", chosen)
    <3>1. r \in Record /\ BarredIn(r) /\ "take_back" \in Policies
      BY <1>3 DEF Good, Policies
    <3>2. Inherits(r, judged)
      BY <3>1, Sources, JudgedYields DEF Lifts, Yields
    <3>3. Quiet(r, judged)
      BY <3>1, Sources, JudgedQuiet DEF Becomes
    <3>4. \A j \in Id : Present(judged.layers, j) => r.layers[j].mode = "follow"
      BY <1>3, Sources, JudgedLeaves
    <3>5. q.layers = judged.layers /\ q.tombs = judged.tombs
      BY <2>2
    <3> HIDE DEF judged, r
    <3> QED BY <3>2, <3>3, <3>4, <3>5 DEF Inherits, Quiet, LiveTomb
  <2> QED BY <1>3, <2>1, <2>2
<1>5. /\ i \in Id
      /\ \/ req.mode = "follow" /\ FollowRefused(q, req)
         \/ /\ ~LiveTomb(q, i) /\ PriorityTaken(q, req.priority, i)
            /\ req.onlyIfPresent => i \in Live(q.layers)
  BY <1>1, <1>2, Refusal
<1>6. i \notin {"base", "active"}
  BY <1>1 DEF WellFormed
<1>7. ~(req.mode = "follow" /\ FollowRefused(q, req))
  <2> SUFFICES ASSUME req.mode = "follow", FollowRefused(q, req)
               PROVE  FALSE
    OBVIOUS
  <2>1. FollowRefused(r, req)
    BY <1>1, <1>4, <1>5, <1>6 DEF FollowRefused, Inherits, Present, WellFormed
  <2> QED BY <1>2, <2>1 DEF ApplySet, Outcome, Refusals
<1>8. PICK j \in Live(q.layers) \ {i} : q.layers[j].prio = req.priority
  BY <1>5, <1>7 DEF PriorityTaken
<1>9. j \in Live(r.layers) \ {i} /\ r.layers[j].prio = req.priority
  BY <1>4, <1>8 DEF Quiet
<1>10. req.onlyIfPresent => i \in Live(r.layers)
  BY <1>4, <1>5, <1>7 DEF Quiet
<1>11. LiveTomb(r, i)
  <2>1. UniqueIn(r) /\ PriorityTaken(r, req.priority, i)
    BY <1>3, <1>9 DEF Good, PriorityTaken
  <2> QED BY <1>1, <1>2, <1>5, <1>6, <1>10, <2>1, ConflictRefuses
<1>12. r.layers[j].mode = "follow"
  BY <1>4, <1>5, <1>7, <1>8, <1>11 DEF LiveTomb, Live
<1> QED BY <1>9, <1>11, <1>12 DEF OfMode

\* In every reachable state, for every request, a set that names its priority
\* and passes validate_set goes through, but where a tombstone hid a follow
\* layer's priority from it (validate_set, set_layer).
THEOREM SetsGoThrough == Spec => []SetGoesThrough
<1>1. IInv => SetGoesThrough
  BY PassedSetsGoThrough
<1> QED BY <1>1, Invariance, PTL

-----------------------------------------------------------------------------
(* Lamps a scene left off *)

\* The lamp shows off, and no set or adjust layer is over a base that is off.
Unlit(r) == r.observed.state = "off" /\ r.base.state = "off" /\ OnlyFollows(r)

\* The scene is to switch the lamp off yet: the visit is to come, its call is
\* under way, or the lamp was skipped and is to be taken to have been told.
Waits(l) ==
  /\ scene.wanted.state = "off" /\ l \notin scene.older
  /\ \/ /\ l \in scene.todo /\ l \notin scene.reached /\ carries[l] = "nothing"
        /\ scene.over => lamp[l].rec.observed.state # "off"
     \/ /\ l \notin scene.todo /\ carries[l] = "scene" /\ l \notin scene.since
        /\ ~scene.over => l \in scene.reached
        /\ lamp[l].rec.observed.state # "off"
     \/ /\ l \notin scene.todo /\ l \notin scene.reached
        /\ carries[l] = "nothing" /\ ~scene.over
        /\ lamp[l].rec.observed.state = "off"

\* A lamp nobody acts on after a scene is off for it, or will be.
Off(l) ==
  /\ Calm(lamp[l])
  /\ ~scene.over \/ l \in scene.todo =>
       scene.wanted.state = "off" /\ l \notin scene.older
  /\ (carries[l] = "nothing" /\ Unlit(lamp[l].rec)) \/ Waits(l)

SInv == IInv /\ \A l \in dark : Off(l)

\* An unlit lamp is meant to be off, and shows that it is (effective).
LEMMA UnlitWantsOff ==
  ASSUME NEW r \in Record, Unlit(r)
  PROVE  EffectiveNow(r) = OffCommand /\ Shows(r, EffectiveNow(r)) = "yes"
<1>1. OfMode(r.layers, "set") = {}
  BY DEF Unlit, OnlyFollows, OfMode, Live
<1>2. StateOf(r.base, r.layers, OfMode(r.layers, "set")) = "off"
  BY <1>1 DEF StateOf, Topmost, Highest, Unlit
<1>3. EffectiveNow(r) = OffCommand
  BY <1>2 DEF EffectiveNow, Effective, EffectiveOf
<1>4. Project(OffCommand) = OffCommand
  BY DEF Project, OffCommand, Cmd
<1>5. Matches(r.observed, OffCommand) = "yes"
  BY DEF Matches, OffCommand, Cmd, BothNear, Unlit
<1>6. OffCommand # Nothing
  BY DEF OffCommand, Nothing, Cmd
<1> QED BY <1>3, <1>4, <1>5, <1>6 DEF Shows, Available, Unlit

\* What a step leaves of a lamp its handler did not touch, or did: all but the
\* flag that layers changed.
LEMMA MadeHere ==
  ASSUME NEW known, NEW pressed, NEW run, Made(known, pressed, run),
         NEW l \in Lamp, Fit(known[l])
  PROVE  /\ Calm(known[l]) => Calm(lamp'[l])
         /\ Unlit(known[l].rec) => Unlit(lamp'[l].rec)
         /\ lamp'[l].rec.observed = known[l].rec.observed
<1> DEFINE k == known[l]
           q == lamp'[l]
<1>1. q = [k EXCEPT !.rec.changed = FALSE]
  BY DEF Made
<1>2. /\ q.job = k.job /\ q.prev = k.prev /\ q.replayed = k.replayed
      /\ q.rec.observed = k.rec.observed /\ q.rec.base = k.rec.base
      /\ q.rec.layers = k.rec.layers
  BY <1>1 DEF Fit, Good, Knowledge, Record
<1> HIDE DEF k, q
<1>3. Calm(k) => Calm(q)
  BY <1>2 DEF Calm, Runs
<1>4. Unlit(k.rec) => Unlit(q.rec)
  BY <1>2 DEF Unlit, OnlyFollows
<1> QED BY <1>2, <1>3, <1>4 DEF k, q

\* What a step leaves of the scene.
LEMMA SceneMade ==
  ASSUME NEW known, NEW pressed, NEW run \in SceneRuns, Made(known, pressed, run)
  PROVE  /\ scene'.wanted = run.wanted /\ scene'.todo = run.todo
         /\ scene'.reached = run.reached /\ scene'.over = run.over
         /\ \A l \in Lamp :
              /\ l \in scene'.older => l \in run.older \/ known[l].rec.changed
              /\ l \in scene'.since => l \in run.since \/ known[l].rec.changed
<1>1. CASE run = NoScene
  BY <1>1 DEF Made
<1>2. CASE run # NoScene
  <2>1. scene' = [run EXCEPT !.older = @ \cup Changed(known),
                             !.since = @ \cup Changed(known)]
    BY <1>2 DEF Made
  <2>2. run \in [wanted : Scenes, todo : SUBSET Lamp, reached : SUBSET Lamp,
                 older : SUBSET Lamp, called : SUBSET Lamp, since : SUBSET Lamp,
                 over : BOOLEAN]
    BY <1>2, SomeScene
  <2> QED BY <2>1, <2>2 DEF Changed
<1> QED BY <1>1, <1>2

\* A lamp the step spares stays off.
LEMMA Spared ==
  ASSUME IInv, NEW l \in Lamp, Off(l), NEW known, NEW pressed, Made(known, pressed, scene),
         known[l] = lamp[l], carries'[l] = carries[l]
  PROVE  Off(l)'
<1>1. /\ Calm(lamp[l]) => Calm(lamp'[l])
      /\ Unlit(lamp[l].rec) => Unlit(lamp'[l].rec)
      /\ lamp'[l].rec.observed = lamp[l].rec.observed
  BY LampFit, MadeHere
<1>2. /\ scene'.wanted = scene.wanted /\ scene'.todo = scene.todo
      /\ scene'.reached = scene.reached /\ scene'.over = scene.over
      /\ l \in scene'.older => l \in scene.older
      /\ l \in scene'.since => l \in scene.since
  <2>1. scene \in SceneRuns /\ ~lamp[l].rec.changed
    BY DEF IInv, TypeOK, Dated
  <2> QED BY <2>1, SceneMade
<1> QED BY <1>1, <1>2 DEF Off, Waits

\* A scene that switches off calls for nothing but that.
LEMMA SwitchesOff ==
  ASSUME NEW wanted, wanted.state = "off"
  PROVE  /\ Intent(ReproducedCall(wanted)) = OffCommand
         /\ NamedBy(ReproducedCall(wanted)) = {}
<1>1. Intent(ReproducedCall(wanted)) = OffCommand
  BY DEF Intent, ReproducedCall, TurnsOff
<1> QED BY <1>1 DEF NamedBy, OffCommand, Cmd

\* A clear leaves an unlit lamp unlit and starts nothing (clear_layer).
LEMMA ClearedUnlit ==
  ASSUME NEW k, Fit(k), Calm(k), Unlit(k.rec), NEW i \in Id
  PROVE  Calm(ClearOf(k, i)) /\ Unlit(ClearOf(k, i).rec)
<1> DEFINE r == ApplyClear(k.rec, i)
           p == [k EXCEPT !.rec = r]
<1>1. k.rec \in Record
  BY DEF Fit, Good
<1>2. /\ Good(r) /\ Available(r) /\ r \in Record
      /\ r.observed = k.rec.observed /\ r.base = k.rec.base
      /\ \A j \in Id : Present(r.layers, j) =>
           Present(k.rec.layers, j) /\ r.layers[j].mode = k.rec.layers[j].mode
  BY <1>1, ApplyClearQuiet, ClearLeaves, GoodKept DEF Fit, Good, Available
<1> HIDE DEF r
<1>3. Unlit(r)
  BY <1>2 DEF Unlit, OnlyFollows
<1>4. Fit(p) /\ p.rec = r /\ Calm(p)
  <2>1. /\ Fit(p) /\ p.rec = r /\ p.prev = k.prev /\ p.job = k.job
        /\ p.replayed = k.replayed
    BY <1>2, OtherRecord
  <2> HIDE DEF p
  <2> QED BY <2>1 DEF Calm, Runs
<1>5. ClearOf(k, i) \in {p, Send(p)}
  BY DEF ClearOf, Commanded, r
<1> HIDE DEF p
<1>6. Calm(Send(p)) /\ Unlit(Send(p).rec)
  <2> DEFINE idle == [p EXCEPT !.job = Nothing]
             clean == [p EXCEPT !.job = Nothing, !.rec.diverged = "none"]
  <2>1. EffectiveNow(p.rec) = OffCommand /\ Shows(p.rec, EffectiveNow(p.rec)) = "yes"
    BY <1>2, <1>3, <1>4, UnlitWantsOff
  <2>2. Wanted(p) # Nothing /\ p.job = Nothing
    BY <1>4, <2>1 DEF Wanted, Project, OffCommand, Nothing, Cmd, Calm, Runs
  <2>3. Send(p) = Settles(clean)
    BY <2>1, <2>2 DEF Send
  <2>4. /\ Settles(clean).job = Nothing
    BY <1>4 DEF Settles, Fit, Knowledge
  <2>5. /\ SameStack(p, Send(p)) /\ Send(p).prev = p.prev /\ Send(p).replayed = p.replayed
    BY <1>4, SendFit
  <2> HIDE DEF clean
  <2>6. Unlit(Send(p).rec)
    BY <1>3, <1>4, <2>5 DEF SameStack, Unlit, OnlyFollows
  <2> QED BY <1>4, <2>3, <2>4, <2>5, <2>6 DEF Calm, Runs
<1> QED BY <1>3, <1>4, <1>5, <1>6

\* A lamp that is off, told to be off by no report, is unlit then; one that is
\* not off is not told so (the intent path).
LEMMA ToldOff ==
  ASSUME NEW k, Fit(k)
  PROVE  LET q == ByIntent(k, OffCommand, {}, FALSE)
         IN /\ k.rec.observed.state = "off" => Fit(q) /\ Calm(q) /\ Unlit(q.rec)
            /\ k.rec.observed.state # "off" => q = k
            /\ q.rec.changed = k.rec.changed
<1> DEFINE q == ByIntent(k, OffCommand, {}, FALSE)
           r == Intended(k.rec, OffCommand, {})
<1>1. OffCommand.state = "off" /\ OffCommand \in Command
  BY ConstantCommands DEF OffCommand, Cmd
<1>2. IntentHeard(k.rec, OffCommand) <=> k.rec.observed.state = "off"
  BY <1>1 DEF IntentHeard, Fit
<1>3. /\ Steady(k, q)
      /\ ~IntentHeard(k.rec, OffCommand) => q = k
      /\ IntentHeard(k.rec, OffCommand) => Calm(q) /\ q.rec = r
  <2> DEFINE named == {}
             old == FALSE
             p == ByIntent(k, OffCommand, named, old)
  <2>1. named \in SUBSET AttrGroup /\ ~old
    OBVIOUS
  <2> HIDE DEF named, old
  <2>2. /\ Steady(k, p)
        /\ ~IntentHeard(k.rec, OffCommand) => p = k
        /\ IntentHeard(k.rec, OffCommand) =>
             Calm(p) /\ p.rec = Intended(k.rec, OffCommand, named)
    BY <1>1, <2>1, ByIntentFit
  <2> QED BY <2>2 DEF named, old
<1>4. /\ r.observed = k.rec.observed /\ OnlyFollows(r)
      /\ r.base = Merge(k.rec.base, OffCommand, {} \cup {"state"})
  BY <1>1, IntendedLeaves DEF Fit
<1>5. Merge(k.rec.base, OffCommand, {} \cup {"state"}) = OffCommand
  <2>1. "state" \in Groups(OffCommand) \cap ({} \cup {"state"})
    BY <1>1 DEF Groups, Group
  <2> QED BY <1>1, <2>1 DEF Merge
<1> HIDE DEF q, r
<1>6. k.rec.observed.state = "off" => Unlit(r)
  BY <1>1, <1>4, <1>5 DEF Unlit
<1> QED BY <1>2, <1>3, <1>6 DEF Steady, q

\* A lamp that turns off for a call that is not old is unlit then.
LEMMA TurnsUnlit ==
  ASSUME NEW k, Fit(k), NEW o \in Report \ {Away}, o.state = "off", NEW chosen
  PROVE  LET q == ByCall(k, Everything, chosen, o, FALSE)
         IN Fit(q) /\ Calm(q) /\ Unlit(q.rec) /\ q.rec.changed = k.rec.changed
<1> DEFINE seen == Showing(k.rec, o)
           q == ByCall(k, Everything, chosen, o, FALSE)
           r == Judged(seen, Everything, "user", "take_back", chosen)
<1>1. Steady(k, q) /\ Calm(q) /\ q.rec = r
  <2> DEFINE groups == Everything
             old == FALSE
  <2>1. groups \in Take /\ ~old
    BY TakeTypes
  <2> HIDE DEF groups, old
  <2>2. /\ Steady(k, ByCall(k, groups, chosen, o, old))
        /\ Calm(ByCall(k, groups, chosen, o, old))
        /\ ByCall(k, groups, chosen, o, old).rec =
             Judged(Showing(k.rec, o), groups, "user", "take_back", chosen)
    BY <2>1, ByCallFit
  <2> QED BY <2>2 DEF groups, old
<1>3. Good(seen) /\ seen.observed = o
  <2>1. k.rec \in Record /\ Good(k.rec)
    BY DEF Fit, Good
  <2>2. seen.observed = o
    BY <2>1 DEF Showing, Record
  <2> QED BY <2>1, <2>2, ShowingQuiet, GoodKept
<1> HIDE DEF seen
<1>4. Everything \in Take
  BY TakeTypes
<1>5. /\ r.observed = o /\ OnlyFollows(r)
      /\ r.base = Merge(seen.base, ObservedToCommand(o), Everything)
  BY <1>3, <1>4, Sources, JudgedLeaves DEF OnlyFollows
<1>6. Merge(seen.base, ObservedToCommand(o), Everything) = OffCommand
  <2>1. ObservedToCommand(o) = OffCommand
    BY DEF ObservedToCommand
  <2>2. OffCommand.state = "off" /\ "state" \in Groups(OffCommand) \cap Everything
    BY DEF OffCommand, Cmd, Groups, Group, Everything
  <2> QED BY <2>1, <2>2 DEF Merge
<1> HIDE DEF r, q
<1>7. Unlit(r)
  BY <1>5, <1>6 DEF Unlit, OffCommand, Cmd
<1> QED BY <1>1, <1>7 DEF Steady, q

\* What the invariant says of a lamp that is dark.
LEMMA DarkLamp ==
  ASSUME SInv, NEW l \in dark
  PROVE  l \in Lamp /\ Off(l) /\ Fit(lamp[l])
BY LampFit DEF SInv, IInv, TypeOK

LEMMA SetLayerSpares ==
  ASSUME SInv, NEW req, NEW aim, SetLayer(req, aim), NEW l \in dark'
  PROVE  Off(l)'
<1>1. PICK reach \in Reach[aim] :
        /\ \E ready \in {[j \in reach.lamps |-> Ready(j)]} :
             \E out \in {[j \in reach.lamps |-> SetOn(ready[j], req)]} :
               Made([j \in Lamp |-> IF j \in Reached(out) THEN SetOf(ready[j], out[j])
                                    ELSE lamp[j]], press, scene)
        /\ UNCHANGED carries
        /\ Acts(reach.lamps)
  BY DEF SetLayer
<1> DEFINE ready == [j \in reach.lamps |-> Ready(j)]
           out == [j \in reach.lamps |-> SetOn(ready[j], req)]
           known == [j \in Lamp |-> IF j \in Reached(out) THEN SetOf(ready[j], out[j])
                                    ELSE lamp[j]]
<1>2. Made(known, press, scene)
  BY <1>1
<1>3. l \in dark /\ l \notin reach.lamps
  BY <1>1 DEF Acts
<1>4. l \in Lamp /\ Off(l)
  BY <1>3, DarkLamp
<1>5. known[l] = lamp[l]
  BY <1>3, <1>4 DEF Reached
<1> HIDE DEF known
<1> QED BY <1>1, <1>2, <1>4, <1>5, Spared DEF SInv

\* A clear of what is left on a dark lamp, once the scene is done with it,
\* leaves it dark.
LEMMA ClearLayerSpares ==
  ASSUME SInv, NEW i \in Id, ClearLayer(i), NEW l \in dark'
  PROVE  Off(l)'
<1> DEFINE S == {j \in Lamp : \/ Present(lamp[j].rec.layers, i)
                              \/ lamp[j].rec.tombs[i] # NoTomb}
           known == [j \in Lamp |-> IF j \in S THEN ClearOf(Flush(lamp[j]), i) ELSE lamp[j]]
<1>1. /\ Made(known, press, scene) /\ UNCHANGED carries
      /\ Acts({j \in S : Pending(j)})
  BY DEF ClearLayer
<1>2. l \in dark /\ (l \in S => ~Pending(l))
  BY <1>1 DEF Acts
<1>3. l \in Lamp /\ Off(l) /\ Fit(lamp[l])
  BY <1>2, DarkLamp
<1>4. CASE l \notin S
  <2>1. known[l] = lamp[l]
    BY <1>3, <1>4
  <2> HIDE DEF known
  <2> QED BY <1>1, <1>3, <2>1, Spared DEF SInv
<1>5. CASE l \in S
  <2>1. scene.over /\ l \notin scene.todo /\ carries[l] # "scene"
    BY <1>2, <1>5 DEF Pending
  <2>2. Calm(lamp[l]) /\ Unlit(lamp[l].rec) /\ carries[l] = "nothing"
    BY <1>3, <2>1 DEF Off, Waits
  <2>3. known[l] = ClearOf(lamp[l], i)
    BY <1>3, <1>5, <2>2 DEF Flush, Calm
  <2> HIDE DEF known, S
  <2>4. Fit(known[l]) /\ Calm(known[l]) /\ Unlit(known[l].rec)
    BY <1>3, <2>2, <2>3, ClearOfFit, ClearedUnlit
  <2>5. Calm(lamp'[l]) /\ Unlit(lamp'[l].rec)
    BY <1>1, <1>3, <2>4, MadeHere
  <2>6. scene'.over = scene.over /\ scene'.todo = scene.todo
    BY <1>1, SceneMade DEF SInv, IInv, TypeOK
  <2> QED BY <1>1, <2>1, <2>2, <2>5, <2>6 DEF Off
<1> QED BY <1>4, <1>5

\* A call somebody makes on other lamps.
LEMMA HeardSpares ==
  ASSUME SInv, NEW to, Heard(to), NEW l \in dark, l \notin to.lamps
  PROVE  Off(l)'
<1> DEFINE known == [j \in Lamp |->
                       IF j \notin to.lamps THEN lamp[j]
                       ELSE ByIntent(Listening(to, j), Intent(to.call), NamedBy(to.call),
                                     j \in to.older)]
<1>1. /\ Made(known, to, scene)
      /\ carries' = [j \in Lamp |-> IF j \in to.lamps THEN "press" ELSE carries[j]]
  BY DEF Heard, Listening
<1>2. l \in Lamp /\ Off(l)
  BY DarkLamp
<1>3. known[l] = lamp[l] /\ carries'[l] = carries[l]
  BY <1>1, <1>2
<1> HIDE DEF known
<1> QED BY <1>1, <1>2, <1>3, Spared DEF SInv

LEMMA PressSpares ==
  ASSUME SInv, NEW call, NEW aim, Press(call, aim), NEW l \in dark'
  PROVE  Off(l)'
<1>1. PICK reach \in Reach[aim] :
        /\ Heard([memory |-> "heard", call |-> call, aim |-> aim, lamps |-> reach.lamps,
                  via |-> reach.via, older |-> {}, loops |-> TRUE])
        /\ Acts(reach.lamps)
  BY DEF Press
<1> DEFINE to == [memory |-> "heard", call |-> call, aim |-> aim, lamps |-> reach.lamps,
                  via |-> reach.via, older |-> {}, loops |-> TRUE]
<1>2. Heard(to) /\ to.lamps = reach.lamps
  BY <1>1
<1>3. l \in dark /\ l \notin reach.lamps
  BY <1>1 DEF Acts
<1> HIDE DEF to
<1> QED BY <1>2, <1>3, HeardSpares

LEMMA PressAgainSpares ==
  ASSUME SInv, PressAgain, NEW l \in dark'
  PROVE  Off(l)'
<1> DEFINE to == [press EXCEPT !.memory = "heard",
                               !.older = IF press.memory = "gone" THEN {} ELSE @]
<1>1. Heard(to) /\ l \in dark /\ l \notin press.lamps
  BY DEF PressAgain
<1>2. to.lamps = press.lamps
  <2>1. press \in Presses /\ press # NoPress
    BY NonePressed DEF SInv, IInv, TypeOK, PressAgain
  <2> QED BY <2>1, SomePress
<1> HIDE DEF to
<1> QED BY <1>1, <1>2, HeardSpares

\* When nothing of what is said of a dark lamp changes.
LEMMA Unmoved ==
  ASSUME NEW l, Off(l), lamp'[l].rec = lamp[l].rec, lamp'[l].job = lamp[l].job,
         lamp'[l].prev = lamp[l].prev, lamp'[l].replayed = lamp[l].replayed,
         UNCHANGED <<scene, carries>>
  PROVE  Off(l)'
BY DEF Off, Waits, Calm, Runs

LEMMA LoopEndsSpares ==
  ASSUME SInv, LoopEnds, NEW l \in dark'
  PROVE  Off(l)'
<1>1. l \in dark /\ UNCHANGED <<lamp, scene, carries>>
  BY DEF LoopEnds, Itself
<1> QED BY <1>1, DarkLamp, Unmoved

LEMMA PruneSpares ==
  ASSUME SInv, Prune, NEW l \in dark'
  PROVE  Off(l)'
<1>1. l \in dark /\ lamp' = RoomsForgotten /\ UNCHANGED <<scene, carries>>
  BY DEF Prune, Itself
<1>2. l \in Lamp /\ Off(l)
  BY <1>1, DarkLamp
<1>3. /\ lamp'[l].rec = lamp[l].rec /\ lamp'[l].job = lamp[l].job
      /\ lamp'[l].prev = lamp[l].prev /\ lamp'[l].replayed = lamp[l].replayed
  BY <1>1, <1>2, RoomsForgottenFit DEF SInv
<1> QED BY <1>1, <1>2, <1>3, Unmoved

\* A scene that switches off has all its lamps to do.
LEMMA SceneBegins ==
  ASSUME SInv, NEW wanted \in Scenes, Scene(wanted), NEW l \in dark'
  PROVE  Off(l)'
<1> DEFINE run == [wanted |-> wanted, todo |-> Lamp, reached |-> {}, older |-> {},
                   called |-> {}, since |-> {}, over |-> FALSE]
<1>1. /\ Made(lamp, press, run) /\ UNCHANGED carries
      /\ l \in Lamp /\ wanted.state = "off" /\ AtRest(l)
  BY DEF Scene
<1>2. run \in SceneRuns
  BY DEF SceneRuns
<1>3. /\ run.wanted = wanted /\ run.todo = Lamp /\ run.reached = {} /\ run.older = {}
      /\ ~run.over
  OBVIOUS
<1> HIDE DEF run
<1>4. ~lamp[l].rec.changed /\ Fit(lamp[l])
  BY <1>1, LampFit DEF SInv, IInv, Dated
<1>5. /\ scene'.wanted = wanted /\ scene'.todo = Lamp /\ scene'.reached = {}
      /\ ~scene'.over /\ l \notin scene'.older
  BY <1>1, <1>2, <1>3, <1>4, SceneMade
<1>6. Calm(lamp[l]) /\ carries'[l] = "nothing"
  BY <1>1 DEF AtRest, Calm
<1>7. Calm(lamp'[l])
  BY <1>1, <1>4, <1>6, MadeHere
<1> QED BY <1>1, <1>5, <1>6, <1>7 DEF Off, Waits

LEMMA SceneVisitsSpares ==
  ASSUME SInv, NEW j \in Lamp, SceneVisits(j), NEW l \in dark'
  PROVE  Off(l)'
<1>1. l \in dark /\ lamp' = lamp /\ j \in scene.todo
  BY DEF SceneVisits, Itself
<1>2. l \in Lamp /\ Off(l) /\ Fit(lamp[l])
  BY <1>1, DarkLamp
<1>3. scene # NoScene /\ scene \in SceneRuns /\ carries \in [Lamp -> {"nothing", "press", "scene"}]
  BY <1>1, NonePressed DEF SInv, IInv, TypeOK
<1>4. scene \in [wanted : Scenes, todo : SUBSET Lamp, reached : SUBSET Lamp,
                 older : SUBSET Lamp, called : SUBSET Lamp, since : SUBSET Lamp,
                 over : BOOLEAN]
  BY <1>3, SomeScene
<1>5. CASE lamp[j].rec.observed.state = scene.wanted.state
  <2>1. scene' = [scene EXCEPT !.todo = @ \ {j}] /\ carries' = carries
    BY <1>5 DEF SceneVisits
  <2>2. /\ scene'.wanted = scene.wanted /\ scene'.todo = scene.todo \ {j}
        /\ scene'.reached = scene.reached /\ scene'.older = scene.older
        /\ scene'.since = scene.since /\ scene'.over = scene.over
    BY <1>4, <2>1
  <2> QED BY <1>1, <1>2, <1>5, <2>1, <2>2 DEF Off, Waits
<1>6. CASE lamp[j].rec.observed.state # scene.wanted.state
  <2> DEFINE reached == IF scene.over THEN scene.reached ELSE scene.reached \cup {j}
  <2>1. /\ scene' = [scene EXCEPT !.todo = @ \ {j}, !.called = {j}, !.since = {},
                                  !.reached = reached]
        /\ carries' = [carries EXCEPT ![j] = "scene"]
    BY <1>6 DEF SceneVisits
  <2>2. /\ scene'.wanted = scene.wanted /\ scene'.todo = scene.todo \ {j}
        /\ scene'.older = scene.older /\ scene'.since = {} /\ scene'.over = scene.over
        /\ scene'.reached = reached
        /\ carries'[l] = IF l = j THEN "scene" ELSE carries[l]
    BY <1>2, <1>3, <1>4, <2>1
  <2>3. CASE l # j
    <3>1. l \in scene'.reached <=> l \in scene.reached
      BY <2>2, <2>3
    <3> QED BY <1>1, <1>2, <2>2, <2>3, <3>1 DEF Off, Waits
  <2>4. CASE l = j
    <3>1. scene.wanted.state = "off" /\ l \notin scene.older /\ Calm(lamp[l])
      BY <1>1, <1>2, <2>4 DEF Off
    <3>2. lamp[l].rec.observed.state # "off"
      BY <1>6, <2>4, <3>1
    <3>3. ~scene'.over => l \in scene'.reached
      BY <2>2, <2>4
    <3> HIDE DEF reached
    <3> QED BY <1>1, <2>2, <2>4, <3>1, <3>2, <3>3 DEF Off, Waits
  <2> QED BY <2>3, <2>4
<1> QED BY <1>5, <1>6

\* A skipped lamp that is off is told so; one that is not has its visit or its
\* call to come.
LEMMA SceneSettlesSpares ==
  ASSUME SInv, SceneSettles, NEW l \in dark'
  PROVE  Off(l)'
<1> DEFINE known == [j \in Lamp |-> Skipped(j)]
           over == [scene EXCEPT !.over = TRUE]
           run == Remembered(over, stamp)
<1>1. /\ ~scene.over /\ Made(known, press, run) /\ UNCHANGED carries /\ l \in dark
  BY DEF SceneSettles, Skipped, Itself
<1>2. l \in Lamp /\ Off(l) /\ Fit(lamp[l])
  BY <1>1, DarkLamp
<1>3. scene.wanted.state = "off" /\ l \notin scene.older /\ Calm(lamp[l])
  BY <1>1, <1>2 DEF Off
<1>4. scene \in SceneRuns /\ scene # NoScene
  BY <1>1, NonePressed DEF SInv, IInv, TypeOK
<1>5. /\ over \in SceneRuns /\ over # NoScene /\ over.over /\ over.older = scene.older
      /\ over.wanted = scene.wanted /\ over.todo = scene.todo /\ over.since = scene.since
  BY <1>4, SomeScene, NonePressed DEF SceneRuns
<1> HIDE DEF over
<1>6. /\ run \in SceneRuns
      /\ run = NoScene => scene.todo = {} /\ carries[l] # "scene"
      /\ run # NoScene => /\ run.wanted = scene.wanted /\ run.todo = scene.todo
                          /\ run.older = scene.older /\ run.since = scene.since
                          /\ run.over /\ run.reached = {}
  <2>1. /\ run \in SceneRuns
        /\ run = NoScene => scene.todo = {} /\ carries[l] # "scene"
        /\ run # NoScene => /\ run.wanted = scene.wanted /\ run.todo = scene.todo
                            /\ run.older = scene.older /\ run.since = scene.since
                            /\ run.over
    BY <1>2, <1>5, RememberedRun
  <2>2. run # NoScene => run.reached = {}
    <3>1. run # NoScene => run = [over EXCEPT !.reached = IF over.over THEN {} ELSE @]
      BY DEF Remembered
    <3>2. over \in [wanted : Scenes, todo : SUBSET Lamp, reached : SUBSET Lamp,
                    older : SUBSET Lamp, called : SUBSET Lamp, since : SUBSET Lamp,
                    over : BOOLEAN]
      BY <1>5, SomeScene
    <3> HIDE DEF run
    <3> QED BY <1>5, <3>1, <3>2
  <2> QED BY <2>1, <2>2
<1> HIDE DEF run
<1>7. /\ l \notin scene.reached /\ lamp[l].rec.observed.state = "off" =>
           Fit(known[l]) /\ Calm(known[l]) /\ Unlit(known[l].rec)
      /\ l \in scene.reached \/ lamp[l].rec.observed.state # "off" =>
           known[l] = lamp[l]
      /\ ~known[l].rec.changed
  <2> DEFINE q == ByIntent(lamp[l], OffCommand, {}, FALSE)
  <2>1. Skipped(l) = IF l \in scene.reached THEN lamp[l] ELSE q
    <3>1. (l \in scene.older) = FALSE
      BY <1>3
    <3>2. /\ Intent(ReproducedCall(scene.wanted)) = OffCommand
          /\ NamedBy(ReproducedCall(scene.wanted)) = {}
      BY <1>3, SwitchesOff
    <3> QED BY <1>2, <3>1, <3>2 DEF Skipped, Claims
  <2>2. ~lamp[l].rec.changed
    BY <1>2 DEF SInv, IInv, Dated
  <2>3. /\ lamp[l].rec.observed.state = "off" => Fit(q) /\ Calm(q) /\ Unlit(q.rec)
        /\ lamp[l].rec.observed.state # "off" => q = lamp[l]
        /\ q.rec.changed = lamp[l].rec.changed
    BY <1>2, ToldOff
  <2>4. known[l] = Skipped(l)
    BY <1>2
  <2> HIDE DEF q, known
  <2> QED BY <2>1, <2>2, <2>3, <2>4
<1> HIDE DEF known
<1>8. /\ scene'.wanted = run.wanted /\ scene'.todo = run.todo /\ scene'.reached = run.reached
      /\ scene'.over = run.over /\ (l \in scene'.older => l \in run.older)
      /\ l \in scene'.since => l \in run.since
  BY <1>1, <1>2, <1>6, <1>7, SceneMade
<1>9. scene'.over
  BY <1>6, <1>8, NonePressed
<1>10. l \in scene'.todo => /\ l \in scene.todo /\ scene'.wanted = scene.wanted
                            /\ l \notin scene'.older
  BY <1>3, <1>6, <1>8, NonePressed
<1>11. CASE l \notin scene.reached /\ lamp[l].rec.observed.state = "off"
  <2>1. Fit(known[l]) /\ Calm(known[l]) /\ Unlit(known[l].rec)
    BY <1>7, <1>11
  <2>2. Calm(lamp'[l]) /\ Unlit(lamp'[l].rec)
    BY <1>1, <1>2, <2>1, MadeHere
  <2>3. carries[l] = "nothing"
    BY <1>1, <1>2, <1>11 DEF Off, Waits
  <2> QED BY <1>1, <1>3, <1>9, <1>10, <2>2, <2>3 DEF Off
<1>12. CASE l \in scene.reached \/ lamp[l].rec.observed.state # "off"
  <2>1. known[l] = lamp[l]
    BY <1>7, <1>12
  <2>2. /\ Calm(lamp'[l]) /\ (Unlit(lamp[l].rec) => Unlit(lamp'[l].rec))
        /\ lamp'[l].rec.observed = lamp[l].rec.observed
    BY <1>1, <1>2, <1>3, <2>1, MadeHere
  <2>3. CASE carries[l] = "nothing" /\ Unlit(lamp[l].rec)
    BY <1>1, <1>3, <1>9, <1>10, <2>2, <2>3 DEF Off
  <2>4. CASE Waits(l)
    <3>1. run # NoScene
      BY <1>1, <1>6, <1>12, <2>4 DEF Waits
    <3>2. /\ scene'.wanted = scene.wanted /\ scene'.todo = scene.todo
          /\ l \notin scene'.older /\ l \notin scene'.reached
          /\ l \in scene'.since => l \in scene.since
      BY <1>3, <1>6, <1>8, <3>1
    <3>3. /\ lamp[l].rec.observed.state # "off"
          /\ \/ l \in scene.todo /\ carries[l] = "nothing"
             \/ l \notin scene.todo /\ carries[l] = "scene" /\ l \notin scene.since
      BY <1>1, <1>12, <2>4 DEF Waits
    <3> QED BY <1>1, <1>3, <1>9, <2>2, <3>2, <3>3 DEF Off, Waits
  <2> QED BY <1>2, <2>3, <2>4 DEF Off
<1> QED BY <1>11, <1>12

\* One lamp is changed, and it is not this one.
LEMMA OthersSpared ==
  ASSUME SInv, NEW j, NEW k, Made(Only(j, k), press, scene), NEW l \in dark, l # j,
         carries'[l] = carries[l]
  PROVE  Off(l)'
<1>1. l \in Lamp /\ Off(l)
  BY DarkLamp
<1>2. Only(j, k)[l] = lamp[l]
  BY <1>1 DEF Only, SInv, IInv, TypeOK
<1> QED BY <1>1, <1>2, Spared DEF SInv

\* The lamp carries out the scene's call and goes off.
LEMMA AnswersSpares ==
  ASSUME SInv, NEW j \in Lamp, Answers(j), NEW l \in dark'
  PROVE  Off(l)'
<1>1. /\ l \in dark /\ carries[j] # "nothing" /\ carries' = [carries EXCEPT ![j] = "nothing"]
  BY DEF Answers, Itself
<1>2. l \in Lamp /\ Off(l) /\ Fit(lamp[l])
  BY <1>1, DarkLamp
<1>3. /\ carries \in [Lamp -> {"nothing", "press", "scene"}] /\ scene \in SceneRuns
      /\ ~lamp[l].rec.changed
      /\ carries[l] = "scene" => stamp[l] = "scene"
  BY <1>2 DEF SInv, IInv, TypeOK, Dated, Attributed
<1>4. CASE l # j
  <2>1. carries'[l] = carries[l]
    BY <1>1, <1>2, <1>3, <1>4
  <2>2. CASE UNCHANGED <<lamp, press, scene>>
    BY <1>2, <2>1, <2>2 DEF Off, Waits
  <2>3. CASE ~UNCHANGED <<lamp, press, scene>>
    <3>1. PICK o \in Reports : Made(Only(j, Reported(j, o)), press, scene)
      BY <2>3 DEF Answers
    <3> QED BY <1>1, <1>4, <2>1, <3>1, OthersSpared
  <2> QED BY <2>2, <2>3
<1>5. CASE l = j
  <2>1. /\ Calm(lamp[l]) /\ carries[l] = "scene" /\ l \notin scene.older
        /\ l \notin scene.since /\ l \notin scene.todo /\ scene.wanted.state = "off"
        /\ lamp[l].rec.observed.state # "off"
    BY <1>1, <1>2, <1>5 DEF Off, Waits
  <2>2. Target(l) = scene.wanted
    BY <2>1 DEF Target
  <2>3. scene.wanted = OffCommand /\ scene.wanted # Nothing
    <3>1. scene.wanted \in Command
      BY <1>3, WantedOfScene
    <3> QED BY <2>1, <3>1 DEF Command, OffCommand, Nothing, Cmd
  <2>4. \A o : ShowsTarget(o, OffCommand) => o.state = "off"
    BY DEF ShowsTarget, Matches, Project, OffCommand, Cmd
  <2>5. PICK o \in Reports :
          o.state = "off" /\ Made(Only(l, Reported(l, o)), press, scene)
    BY <1>5, <2>1, <2>2, <2>3, <2>4 DEF Answers
  <2> DEFINE chosen == ChosenBy(ReproducedCall(scene.wanted), lamp[l].rec.observed, o)
  <2>6. Reported(l, o) = ByCall(lamp[l], Everything, chosen, o, FALSE)
    <3> DEFINE whose == CallBehind(l, o)
               before == lamp[l].rec.observed
               old == l \in (IF whose = "scene" THEN scene.since ELSE press.older)
               call == IF whose = "scene" THEN ReproducedCall(scene.wanted) ELSE press.call
               reaches == whose = "scene" => l \in scene.called
               groups == TakenBy(call, reaches, before, o)
    <3>1. whose = "scene"
      BY <1>3, <2>1 DEF CallBehind
    <3>2. old = FALSE /\ call = ReproducedCall(scene.wanted)
      BY <2>1, <3>1
    <3>3. Reported(l, o) = ByCall(lamp[l], groups, ChosenBy(call, before, o), o, old)
      BY <1>2, <3>1, ReportedFit, LampsAssumption DEF SInv
    <3> HIDE DEF whose, old, call, reaches
    <3>4. NamedBy(call) = {}
      BY <2>1, <3>2, SwitchesOff
    <3>5. groups = Everything
      <4>1. CASE reaches
        BY <3>4, <4>1 DEF TakenBy, CallGroups
      <4>2. CASE ~reaches
        BY <4>2 DEF TakenBy
      <4> QED BY <4>1, <4>2
    <3>6. ChosenBy(call, before, o) = chosen
      BY <3>2
    <3> HIDE DEF groups, before, chosen
    <3> QED BY <3>2, <3>3, <3>5, <3>6
  <2> HIDE DEF chosen
  <2> DEFINE q == Reported(l, o)
             known == Only(l, q)
  <2>7. Fit(q) /\ Calm(q) /\ Unlit(q.rec) /\ q.rec.changed = lamp[l].rec.changed
    <3> DEFINE k == lamp[l]
               p == ByCall(k, Everything, chosen, o, FALSE)
    <3>1. o \in Report \ {Away} /\ o.state = "off" /\ Fit(k)
      BY <1>2, <2>5, LampsAssumption
    <3> HIDE DEF k
    <3>2. Fit(p) /\ Calm(p) /\ Unlit(p.rec) /\ p.rec.changed = k.rec.changed
      BY <3>1, TurnsUnlit
    <3>3. q = p
      BY <2>6 DEF k
    <3> HIDE DEF p, q
    <3> QED BY <3>2, <3>3 DEF k
  <2> HIDE DEF q
  <2>8. known[l] = q
    BY <1>2 DEF Only, SInv, IInv, TypeOK
  <2>9. Made(known, press, scene)
    BY <2>5 DEF q
  <2> HIDE DEF known
  <2>10. Calm(lamp'[l]) /\ Unlit(lamp'[l].rec)
    BY <1>2, <2>7, <2>8, <2>9, MadeHere
  <2>11. /\ scene'.over = scene.over /\ scene'.todo = scene.todo
         /\ scene'.wanted = scene.wanted /\ l \notin scene'.older
    BY <1>2, <1>3, <2>1, <2>7, <2>8, <2>9, SceneMade
  <2>12. carries'[l] = "nothing"
    BY <1>1, <1>2, <1>3, <1>5
  <2> QED BY <2>1, <2>10, <2>11, <2>12 DEF Off
<1> QED BY <1>4, <1>5

LEMMA OwnLandsSpares ==
  ASSUME SInv, NEW j \in Lamp, OwnLands(j), NEW l \in dark'
  PROVE  Off(l)'
<1>1. l \in dark /\ Runs(lamp[j]) /\ UNCHANGED carries
  BY DEF OwnLands, Itself
<1>2. PICK o \in Reports : Made(Only(j, Landed(lamp[j], o)), press, scene)
  BY DEF OwnLands
<1>3. l # j
  BY <1>1, DarkLamp DEF Off, Calm
<1> QED BY <1>1, <1>2, <1>3, OthersSpared

LEMMA PersonSpares ==
  ASSUME SInv, NEW j \in Lamp, NEW o \in Reports, Person(j, o), NEW l \in dark'
  PROVE  Off(l)'
<1>1. /\ Made(Only(j, Reported(j, o)), press, scene) /\ UNCHANGED carries
      /\ l \in dark /\ l # j
  BY DEF Person, Acts
<1> QED BY <1>1, OthersSpared

LEMMA SettleDebounceSpares ==
  ASSUME SInv, NEW j \in Lamp, SettleDebounce(j), NEW l \in dark'
  PROVE  Off(l)'
<1>1. /\ Made(Only(j, Settled(lamp[j])), press, scene) /\ UNCHANGED carries
      /\ l \in dark /\ lamp[j].prev # Away
  BY DEF SettleDebounce, Itself
<1>2. l # j
  BY <1>1, DarkLamp DEF Off, Calm
<1> QED BY <1>1, <1>2, OthersSpared

LEMMA AfterReplaySpares ==
  ASSUME SInv, NEW j \in Lamp, AfterReplay(j), NEW l \in dark'
  PROVE  Off(l)'
<1>1. /\ Made(Only(j, PutRight(lamp[j])), press, scene) /\ UNCHANGED carries
      /\ l \in dark /\ lamp[j].replayed
  BY DEF AfterReplay, PutRight, Itself
<1>2. l # j
  BY <1>1, DarkLamp DEF Off, Calm
<1> QED BY <1>1, <1>2, OthersSpared

LEMMA WindowClosesSpares ==
  ASSUME SInv, NEW j \in Lamp, WindowCloses(j), NEW l \in dark'
  PROVE  Off(l)'
<1>1. /\ scene' = Remembered(scene, stamp') /\ UNCHANGED <<lamp, carries>> /\ l \in dark
  BY DEF WindowCloses, Itself
<1>2. l \in Lamp /\ Off(l)
  BY <1>1, DarkLamp
<1>3. CASE scene = NoScene
  <2>1. /\ \A m \in Lamp : "scene" \notin {carries[m], stamp[m]}
        /\ stamp' = [stamp EXCEPT ![j] = "none"]
        /\ stamp \in [Lamp -> {"none", "press", "scene"}]
    BY <1>3 DEF SInv, IInv, TypeOK, Attributed, WindowCloses
  <2>2. \A m \in Lamp : "scene" \notin {carries[m], stamp'[m]}
    BY <2>1
  <2>3. scene' = NoScene
    BY <1>1, <1>3, <2>2, NonePressed DEF Remembered
  <2> QED BY <1>1, <1>2, <1>3, <2>3 DEF Off, Waits
<1>4. CASE scene # NoScene
  <2>1. scene \in SceneRuns
    BY DEF SInv, IInv, TypeOK
  <2>2. scene \in [wanted : Scenes, todo : SUBSET Lamp, reached : SUBSET Lamp,
                   older : SUBSET Lamp, called : SUBSET Lamp, since : SUBSET Lamp,
                   over : BOOLEAN]
    BY <1>4, <2>1, SomeScene
  <2>3. CASE scene' = NoScene
    <3>1. scene.over /\ scene.todo = {} /\ carries[l] # "scene"
      BY <1>1, <1>2, <1>4, <2>1, <2>3, RememberedRun
    <3>2. carries[l] = "nothing" /\ Unlit(lamp[l].rec) /\ Calm(lamp[l])
      BY <1>2, <3>1 DEF Off, Waits
    <3> QED BY <1>1, <2>3, <3>2, NonePressed DEF Off
  <2>4. CASE scene' # NoScene
    <3>1. scene' = [scene EXCEPT !.reached = IF scene.over THEN {} ELSE @]
      BY <1>1, <2>4 DEF Remembered
    <3>2. /\ scene'.wanted = scene.wanted /\ scene'.todo = scene.todo
          /\ scene'.older = scene.older /\ scene'.since = scene.since
          /\ scene'.over = scene.over
          /\ l \in scene'.reached => l \in scene.reached
          /\ ~scene.over => scene'.reached = scene.reached
      BY <2>2, <3>1
    <3> QED BY <1>1, <1>2, <3>2 DEF Off, Waits
  <2> QED BY <2>3, <2>4
<1> QED BY <1>3, <1>4

LEMMA NextSpares ==
  ASSUME SInv, [Next]_vars
  PROVE  SInv'
<1>1. IInv'
  BY NextKeeps DEF SInv
<1>2. ASSUME NEW l \in dark'
      PROVE  Off(l)'
  <2>1. CASE UNCHANGED vars
    <3>1. l \in dark /\ UNCHANGED <<lamp, scene, carries>>
      BY <2>1 DEF vars
    <3> QED BY <3>1, DarkLamp, Unmoved
  <2>2. CASE Owner
    BY <2>2, SetLayerSpares, ClearLayerSpares DEF Owner
  <2>3. CASE Someone
    BY <2>3, PressSpares, SceneBegins, PersonSpares DEF Someone
  <2>4. CASE World
    BY <2>4, PressAgainSpares, LoopEndsSpares, SceneVisitsSpares, AnswersSpares,
       OwnLandsSpares, WindowClosesSpares DEF World
  <2>5. CASE Engine
    BY <2>5, PruneSpares, SceneSettlesSpares, SettleDebounceSpares, AfterReplaySpares
    DEF Engine
  <2> QED BY <2>1, <2>2, <2>3, <2>4, <2>5 DEF Next
<1> QED BY <1>1, <1>2 DEF SInv

\* A lamp a scene left off stays meant to be off until somebody acts on it,
\* whatever owners clear and loops press elsewhere, and whenever the scene's
\* visits, its lamps' answers and its end come (run_settled, _apply_scene_skip).
THEOREM ScenesHold == Spec => []SceneHolds
<1>1. Init => SInv
  BY InitKeeps DEF SInv, Init
<1>2. SInv /\ [Next]_vars => SInv'
  BY NextSpares
<1>3. SInv => SceneHolds
  <2> SUFFICES ASSUME SInv, NEW l \in dark, ~Pending(l)
               PROVE  EffectiveNow(lamp[l].rec).state = "off"
    BY DEF SceneHolds
  <2>1. Off(l) /\ Fit(lamp[l])
    BY DarkLamp
  <2>2. scene.over /\ l \notin scene.todo /\ carries[l] # "scene"
    BY DEF Pending
  <2>3. Unlit(lamp[l].rec) /\ lamp[l].rec \in Record
    BY <2>1, <2>2 DEF Off, Waits, Fit, Good
  <2> QED BY <2>3, UnlitWantsOff DEF OffCommand, Cmd
<1> QED BY <1>1, <1>2, <1>3, PTL DEF Spec
-----------------------------------------------------------------------------
(***************************************************************************)
(* What every lamp shows                                                   *)
(*                                                                         *)
(* At rest a lamp shows what it is meant to show only because of what is   *)
(* so before: a render under way is of what is wanted now, a debounce that *)
(* waits remembers a report that was right, and what a replay taught the   *)
(* base is marked until it is put right.                                   *)
(***************************************************************************)

\* Layers knows what it wants of the lamp, and no entity it follows has a say.
Grounded(r) ==
  /\ SilentFollows(r.layers) /\ r.base.state \in {"on", "off"} /\ r.observed \in Reports

\* The lamp shows what it is meant to show, or its record says that it does not.
Holds(r) == Grounded(r) /\ (Shows(r, EffectiveNow(r)) # "no" \/ r.diverged # "none")

\* The last report that nothing waits on.
Before(k) == IF k.prev = Away THEN k.rec.observed ELSE k.prev

Honest(k, o) == Matches(o, Wanted(k)) = "yes" \/ k.rec.diverged # "none"

Right(k) ==
  /\ Grounded(k.rec)
  /\ k.prev \in Reports \cup {Away}
  /\ k.job \in {Nothing, Wanted(k)}
  /\ Runs(k) => k.prev = Away
  /\ ~Runs(k) /\ ~k.replayed => Honest(k, Before(k))

\* A lamp that reports what it can be sent.
Telling == \A o \in Reports : TellsAll(o)

\* On or off is always wanted where the base is known (resolve).
LEMMA SomethingWanted ==
  ASSUME NEW k, Fit(k), Grounded(k.rec)
  PROVE  /\ Wanted(k) # Nothing /\ EffectiveNow(k.rec) # Nothing
         /\ Shows(k.rec, EffectiveNow(k.rec)) \in {"yes", "no"}
         /\ Shows(k.rec, EffectiveNow(k.rec)) = "yes" <=>
              Matches(k.rec.observed, Wanted(k)) = "yes"
<1> DEFINE r == k.rec
           cmd == EffectiveNow(r)
           state == StateOf(r.base, r.layers, OfMode(r.layers, "set"))
<1>1. state \in {"on", "off"}
  BY DEF StateOf, Grounded
<1>2. cmd = IF state = "off" THEN OffCommand
            ELSE Cmd("on",
                     Said(r.base, r.layers, Giver(r.base, r.layers, Live(r.layers), "brightness")).bri,
                     Said(r.base, r.layers, Giver(r.base, r.layers, Live(r.layers), "color")).col)
  BY <1>1 DEF EffectiveNow, Effective, EffectiveOf
<1>3. cmd.state \in {"on", "off"}
  BY <1>1, <1>2 DEF OffCommand, Cmd
<1> HIDE DEF cmd
<1>4. cmd # Nothing /\ Project(cmd) # Nothing
  BY <1>3 DEF Nothing, Cmd, Project, OffCommand
<1>5. Available(r)
  BY DEF Fit
<1> QED BY <1>4, <1>5 DEF Shows, Wanted, cmd

\* What is wanted depends on the base and the layers.
LEMMA WantedSame ==
  ASSUME NEW k, NEW q, q.rec.base = k.rec.base, q.rec.layers = k.rec.layers
  PROVE  Wanted(q) = Wanted(k)
BY DEF Wanted, EffectiveNow

\* A lamp nothing is under way on is right where its record holds.
LEMMA CalmRight ==
  ASSUME NEW k, Fit(k), Calm(k), Holds(k.rec)
  PROVE  Right(k)
<1>1. Grounded(k.rec)
  BY DEF Holds
<1>2. Honest(k, k.rec.observed)
  BY <1>1, SomethingWanted DEF Holds, Honest
<1> QED BY <1>1, <1>2 DEF Right, Calm, Runs, Before

\* A render sends what is wanted, or the lamp shows it (_render).
LEMMA SendRight ==
  ASSUME NEW k, Fit(k), Grounded(k.rec), k.prev = Away
  PROVE  LET q == Send(k)
         IN /\ Right(q)
            /\ ~Runs(q) => Honest(q, q.rec.observed)
<1> DEFINE q == Send(k)
           clean == [k EXCEPT !.job = Nothing, !.rec.diverged = "none"]
           begun == [k EXCEPT !.job = Wanted(k), !.room = FALSE, !.rec.owed = "owed"]
           showing == /\ Shows(k.rec, EffectiveNow(k.rec)) = "yes"
                      /\ k.job \in {Nothing, Wanted(k)}
<1>1. Wanted(k) # Nothing
  BY SomethingWanted
<1>2. q = IF showing THEN Settles(clean) ELSE begun
  BY <1>1 DEF Send
<1>3. clean.job = Nothing /\ begun.job = Wanted(k)
  BY DEF Fit, Knowledge
<1>4. Settles(clean).job = clean.job
  BY DEF Settles, Fit, Knowledge
<1>5. q.job = IF showing THEN Nothing ELSE Wanted(k)
  BY <1>2, <1>3, <1>4
<1>6. /\ Fit(q) /\ SameStack(k, q) /\ q.prev = Away
  BY SendFit
<1> HIDE DEF q, clean, begun
<1>7. Wanted(q) = Wanted(k) /\ Grounded(q.rec)
  BY <1>6, WantedSame DEF SameStack, Grounded
<1>8. ASSUME ~Runs(q)
      PROVE  Honest(q, q.rec.observed)
  <2>1. showing
    BY <1>1, <1>5, <1>8 DEF Runs
  <2>2. Matches(k.rec.observed, Wanted(k)) = "yes"
    BY <2>1, SomethingWanted
  <2> QED BY <1>6, <1>7, <2>2 DEF Honest, SameStack
<1>9. Right(q)
  BY <1>5, <1>6, <1>7, <1>8 DEF Right, Before
<1> QED BY <1>8, <1>9 DEF q

\* What a replay taught waits to be put right (_replay).
LEMMA ReplayedRight ==
  ASSUME NEW k, Fit(k), Grounded(k.rec), k.prev \in Reports \cup {Away},
         Runs(k) => k.prev = Away
  PROVE  Right(Replayed(k))
<1> DEFINE marked == [k EXCEPT !.replayed = TRUE]
           idle == [marked EXCEPT !.job = Nothing]
           q == Replayed(k)
<1>1. /\ Fit(marked) /\ marked.replayed /\ marked.job = k.job /\ marked.prev = k.prev
      /\ marked.rec = k.rec
  BY OtherMarks DEF Fit, Knowledge
<1> HIDE DEF marked
<1>2. q = IF marked.job \in {Nothing, Wanted(marked)} THEN marked ELSE Settles(idle)
  BY DEF Replayed, DropStale, marked
<1>3. Settles(idle).job = Nothing
  BY <1>1 DEF Settles, Fit, Knowledge
<1>4. /\ Fit(q) /\ SameStack(marked, q) /\ q.prev = marked.prev /\ q.replayed
  BY <1>1, DropStaleFit DEF Replayed, marked
<1> HIDE DEF q, idle
<1>5. Wanted(q) = Wanted(marked) /\ Grounded(q.rec)
  BY <1>1, <1>4, WantedSame DEF SameStack, Grounded
<1>6. q.job \in {Nothing, Wanted(q)} /\ (Runs(q) => Runs(k))
  BY <1>1, <1>2, <1>3, <1>5 DEF Runs
<1>7. Right(q)
  BY <1>1, <1>4, <1>5, <1>6 DEF Right
<1> QED BY <1>7 DEF q

\* A lamp seen off holds as before (seen_off).
LEMMA SeenOffHolds ==
  ASSUME NEW r \in Record, Holds(r), NEW off
  PROVE  Holds(SeenOffIf(r, off))
<1> DEFINE q == SeenOffIf(r, off)
<1>1. /\ q.base = r.base /\ q.observed = r.observed /\ q.diverged = r.diverged
      /\ SaysSame(r.layers, q.layers)
  BY SeenOffSays
<1> HIDE DEF q
<1>2. SilentFollows(r.layers)
  BY DEF Holds, Grounded
<1>3. SilentFollows(q.layers) /\ EffectiveNow(q) = EffectiveNow(r)
  BY <1>1, <1>2, StaysSilent, EffectiveSame
<1>4. Shows(q, EffectiveNow(q)) = Shows(r, EffectiveNow(r))
  BY <1>1, <1>3, ShowsSame
<1> QED BY <1>1, <1>3, <1>4 DEF Holds, Grounded, q

\* A change that is taken holds, where what it took is shown if the rest is.
LEMMA ExternalHolds ==
  ASSUME NEW r \in Record, Grounded(r), Available(r), NEW shown \in Command,
         NEW groups \in Take, NEW source \in ChangeSource, NEW chosen,
         NEW merged, merged = Merge(r.base, shown, groups), merged.state \in {"on", "off"},
         \/ groups = Everything
         \/ merged.state # "on"
         \/ Shows(r, Rest(merged, groups)) # "no"
         => Shows(r, merged) # "no"
  PROVE  Holds(ApplyExternal(r, shown, groups, source, "take_back", chosen))
<1> DEFINE hand == IF chosen = Everything THEN Groups(shown) \cap groups ELSE chosen
           over == [r EXCEPT !.layers = TakeOver(@, hand)]
           done == TakeBack(over, shown, groups)
           last == [policy |-> "take_back", source |-> source, groups |-> groups, tail |-> TRUE]
           q == [done EXCEPT !.owed = "nothing", !.last = last]
<1>1. ApplyExternal(r, shown, groups, source, "take_back", chosen) = q
  BY DEF ApplyExternal, Reasserts
<1>2. /\ over \in Record /\ over.base = r.base /\ over.observed = r.observed
      /\ over.layers = TakeOver(r.layers, hand)
  BY TakeOverQuiet DEF Becomes, Record
<1> HIDE DEF over, hand
<1>3. SilentFollows(over.layers)
  <2>1. SaysSame(r.layers, over.layers)
    BY <1>2, TakeOverSays DEF Record
  <2> QED BY <2>1, StaysSilent DEF Grounded
<1>4. Available(over)
  BY <1>2 DEF Available
<1>5. \A cmd : Shows(over, cmd) = Shows(r, cmd)
  BY <1>2, ShowsSame
<1>6. merged = Merge(over.base, shown, groups)
  BY <1>2
<1>7. /\ SilentFollows(done.layers) /\ done.base = merged /\ done.observed = over.observed
      /\ Shows(done, EffectiveNow(done)) # "no" \/ done.diverged = "partial"
  BY <1>2, <1>3, <1>4, <1>5, <1>6, TakeBackLeaves
<1>8. done \in Record
  BY <1>2, TakeBackQuiet DEF Becomes
<1> HIDE DEF done
<1>9. /\ q.layers = done.layers /\ q.base = done.base /\ q.observed = done.observed
      /\ q.diverged = done.diverged
  BY <1>8 DEF Record
<1> HIDE DEF q
<1>10. Shows(q, EffectiveNow(q)) = Shows(done, EffectiveNow(done))
  BY <1>9, ShowsSame DEF EffectiveNow
<1> QED BY <1>1, <1>2, <1>7, <1>9, <1>10 DEF Holds, Grounded

\* A report judged to be someone's (_external).
LEMMA JudgedHolds ==
  ASSUME Telling, NEW r, Good(r), Available(r), Grounded(r), NEW groups \in Take,
         "state" \in groups, NEW source \in ChangeSource, NEW chosen
  PROVE  Holds(Judged(r, groups, source, "take_back", chosen))
<1> DEFINE s == Supersede(r)
           shown == ObservedToCommand(r.observed)
           merged == Merge(r.base, shown, groups)
           t == ApplyExternal(s, shown, groups, source, "take_back", chosen)
<1>1. r \in Record /\ "take_back" \in Policies
  BY DEF Good, Policies
<1>2. /\ s \in Record /\ s.observed = r.observed /\ s.base = r.base /\ s.layers = r.layers
  BY <1>1, SupersedeQuiet DEF Becomes, Supersede, Record
<1>3. shown \in Command /\ merged.state \in {"on", "off"}
  BY <1>1, ObservedType, ReportMerged DEF Record
<1> HIDE DEF s
<1>4. Grounded(s) /\ Available(s)
  BY <1>2 DEF Grounded, Available
<1>5. TellsAll(s.observed) /\ s.base \in Command
  BY <1>2, <1>4 DEF Telling, Grounded, Record
<1>6. \/ groups = Everything
      \/ merged.state # "on"
      \/ Shows(s, Rest(merged, groups)) # "no"
      => Shows(s, merged) # "no"
  BY <1>2, <1>4, <1>5, MergedIsShown
<1>7. merged = Merge(s.base, shown, groups)
  BY <1>2
<1> HIDE DEF merged, shown
<1>8. Holds(t)
  BY <1>2, <1>3, <1>4, <1>6, <1>7, ExternalHolds
<1>9. t \in Record
  BY <1>1, <1>2, <1>3, ApplyExternalQuiet DEF Becomes
<1>10. Judged(r, groups, source, "take_back", chosen) = SeenOffIf(t, r.observed.state = "off")
  BY DEF Judged, t, s, shown
<1> HIDE DEF t
<1> QED BY <1>8, <1>9, <1>10, SeenOffHolds

\* A change that is taken is right (_external).
LEMMA TakenRight ==
  ASSUME Telling, NEW k, Fit(k), Grounded(k.rec), NEW groups \in Take, "state" \in groups,
         NEW source \in ChangeSource, NEW chosen
  PROVE  Right(Taken(k, groups, source, chosen))
<1>1. Good(k.rec) /\ Available(k.rec)
  BY DEF Fit
<1>2. Holds(Judged(k.rec, groups, source, "take_back", chosen))
  BY <1>1, JudgedHolds
<1> QED BY <1>2, TakenFit, CalmRight DEF Steady

\* The groups a change takes have its on/off.
LEMMA TakesState ==
  /\ \A named, o, p : "state" \in CallGroups(named, o, p)
  /\ \A o, p : "state" \in ChangedGroups(o, p)
<1>1. "state" \in Everything
  BY DEF Everything, Group
<1> QED BY <1>1 DEF CallGroups, ChangedGroups

\* A change that did not hold is none: the lamp shows what it showed before
\* (_settle_debounce).
LEMMA SettledRight ==
  ASSUME Telling, NEW k, Fit(k), Right(k)
  PROVE  Right(Settled(k))
<1> DEFINE shown == k.rec.observed
           held == ~Close(shown, k.prev) /\ Shows(k.rec, EffectiveNow(k.rec)) # "yes"
           groups == ChangedGroups(k.prev, shown)
           chosen == Chosen(Everything, k.prev, shown)
           idle == [k EXCEPT !.prev = Away]
<1>1. Settled(k) = IF held THEN Taken(k, groups, "device", chosen) ELSE idle
  BY DEF Settled
<1>2. Grounded(k.rec) /\ groups \in Take /\ "state" \in groups /\ "device" \in ChangeSource
  BY TakeTypes, TakesState, Sources DEF Right
<1>3. CASE held
  <2>1. Right(Taken(k, groups, "device", chosen))
    BY <1>2, TakenRight
  <2> QED BY <1>1, <1>3, <2>1
<1>4. CASE ~held
  <2>1. idle.prev = Away /\ idle.rec = k.rec /\ idle.job = k.job
        /\ idle.replayed = k.replayed
    BY DEF Fit, Knowledge
  <2>2. Settled(k) = idle
    BY <1>1, <1>4
  <2> HIDE DEF idle
  <2>3. Wanted(idle) = Wanted(k)
    BY <2>1, WantedSame
  <2>4. ASSUME ~Runs(k), ~k.replayed
        PROVE  Honest(k, shown)
    <3>1. CASE Shows(k.rec, EffectiveNow(k.rec)) = "yes"
      BY <1>2, <3>1, SomethingWanted DEF Honest
    <3>2. CASE Close(shown, k.prev)
      <4>1. shown.state = k.prev.state
        BY <3>2 DEF Close
      <4>2. shown \in Reports /\ k.prev \in Reports \cup {Away} /\ shown.state # "away"
        BY DEF Right, Grounded, Fit, Available
      <4>3. k.prev = shown \/ k.prev = Away
        BY <4>1, <4>2, LampsAssumption
      <4> QED BY <2>4, <4>3 DEF Right, Before
    <3> QED BY <1>4, <3>1, <3>2
  <2>5. Right(idle)
    BY <2>1, <2>3, <2>4 DEF Right, Before, Honest, Runs
  <2> QED BY <2>2, <2>5
<1> QED BY <1>3, <1>4

\* So is a lamp whose waiting change has been judged (_flush_debounce).
LEMMA FlushRight ==
  ASSUME Telling, NEW k, Fit(k), Right(k)
  PROVE  Right(Flush(k))
BY SettledRight DEF Flush

\* A base that is known stays known.
LEMMA MergeKnown ==
  ASSUME NEW below, below.state \in {"on", "off"}, NEW over \in Command, NEW groups
  PROVE  Merge(below, over, groups).state \in {"on", "off"}
<1>1. over.state \in {"on", "off", "none"}
  BY DEF Command
<1> QED BY <1>1 DEF Merge, Groups, Group, OffCommand, Cmd

\* What a replay teaches leaves the base known (apply_replay).
LEMMA ReplayGrounded ==
  ASSUME NEW r, Good(r), Grounded(r), NEW cmd \in Command, NEW groups \in Take
  PROVE  Grounded(ApplyReplay(r, cmd, groups, "user"))
<1>1. LET q == ApplyReplay(r, cmd, groups, "user")
      IN /\ q.layers = r.layers /\ q.observed = r.observed
         /\ q.base = Merge(r.base, cmd, groups)
  BY DEF ApplyReplay, Good, Record
<1>2. Merge(r.base, cmd, groups).state \in {"on", "off"}
  BY MergeKnown DEF Grounded
<1> QED BY <1>1, <1>2 DEF Grounded

\* A report put down to a call leaves the lamp right (_handle_state).
LEMMA ByCallRight ==
  ASSUME Telling, NEW k, Fit(k), Right(k), NEW groups \in Take, "state" \in groups,
         NEW chosen, NEW o \in Reports, NEW old
  PROVE  Right(ByCall(k, groups, chosen, o, old))
<1> DEFINE seen == [k EXCEPT !.rec = Showing(@, o)]
           r == [seen.rec EXCEPT !.atDrop = Away]
           learnt == ApplyReplay(r, ObservedToCommand(o), groups, "user")
           noted == [seen EXCEPT !.prev = Away]
           taught == [noted EXCEPT !.rec = learnt]
<1>1. o \in Report \ {Away} /\ o \in Report
  BY LampsAssumption
<1>2. /\ Fit(seen) /\ seen.rec.layers = k.rec.layers /\ seen.rec.base = k.rec.base
      /\ seen.rec.observed = o /\ seen.rec \in Record
  BY <1>1, SeenFit DEF Steady, Fit, Good
<1>3. "user" \in ChangeSource
  BY Sources
<1>4. ByCall(k, groups, chosen, o, old) =
        IF old THEN Replayed([seen EXCEPT !.prev = Away, !.rec = learnt])
        ELSE Taken(seen, groups, "user", chosen)
  BY DEF ByCall
<1>5. [seen EXCEPT !.prev = Away, !.rec = learnt] = taught
  BY <1>2 DEF Fit, Knowledge
<1> HIDE DEF seen
<1>6. Grounded(seen.rec)
  BY <1>2 DEF Grounded, Right
<1>7. Right(Taken(seen, groups, "user", chosen))
  BY <1>2, <1>3, <1>6, TakenRight
<1>8. /\ Good(r) /\ Available(r) /\ Grounded(r)
  <2>1. r \in Record /\ r.layers = seen.rec.layers /\ r.tombs = seen.rec.tombs
        /\ r.base = seen.rec.base /\ r.observed = seen.rec.observed
    BY <1>2, ConstantCommands DEF Record
  <2>2. Good(r)
    BY <1>2, <2>1, SameLayers, GoodKept DEF Fit
  <2> QED BY <1>2, <1>6, <2>1, <2>2 DEF Fit, Available, Grounded
<1>9. /\ Fit(noted) /\ noted.rec = seen.rec /\ noted.prev = Away
  BY <1>2, OtherMarks, ConstantCommands DEF Fit, Knowledge
<1> HIDE DEF r, noted
<1>10. Good(learnt) /\ Available(learnt) /\ Grounded(learnt)
  BY <1>1, <1>3, <1>8, ObservedType, ReplayLeaves, ReplayGrounded DEF Available
<1> HIDE DEF learnt
<1>11. Fit(taught) /\ taught.rec = learnt /\ taught.prev = Away
  BY <1>9, <1>10, OtherRecord
<1> HIDE DEF taught
<1>12. Right(Replayed(taught))
  BY <1>10, <1>11, ReplayedRight
<1> QED BY <1>4, <1>5, <1>7, <1>12

\* A call that is taken although nothing reports it is shown already, so that
\* what it took is shown (already_shows, _foreign_intent).
LEMMA IntentShown ==
  ASSUME NEW r \in Record, Available(r), NEW below \in Command, NEW call \in LightCall,
         IntentHeard(r, Intent(call)), NEW groups, groups = NamedBy(call) \cup {"state"},
         NEW merged, merged = Merge(below, Intent(call), groups)
  PROVE  /\ merged.state \in {"on", "off"}
         /\ \/ groups = Everything
            \/ merged.state # "on"
            \/ Shows(r, Rest(merged, groups)) # "no"
            => Shows(r, merged) # "no"
<1> DEFINE cmd == Intent(call)
           o == r.observed
           sent == Project(cmd)
<1>1. cmd \in Command /\ o \in Report /\ o.state \in {"on", "off"}
  BY IntentType DEF Record, Report, Available
<1>2. NamedBy(call) = IF cmd.state = "on" THEN Groups(cmd) \cap AttrGroup ELSE {}
  BY DEF NamedBy
<1>3. cmd.state = "none" => cmd = Nothing
  BY DEF Intent, OffCommand, Cmd
<1>4. /\ cmd.state = "off" => o.state = "off"
      /\ cmd.state # "off" => AlreadyShows(o, cmd)
  BY DEF IntentHeard
<1> HIDE DEF cmd
<1>5. CASE cmd.state = "off"
  <2>1. merged = OffCommand
    BY <1>5 DEF cmd, Merge, Groups, Group, OffCommand, Cmd
  <2>2. o.bri = NoValue /\ o.state = "off"
    BY <1>1, <1>4, <1>5 DEF Report
  <2>3. Matches(o, Project(merged)) = "yes"
    BY <2>1, <2>2 DEF Matches, Project, OffCommand, Cmd, BothNear
  <2> QED BY <2>1, <2>3 DEF Shows, OffCommand, Cmd
<1>6. CASE cmd.state = "on"
  <2>1. Merge(Cmd("on", NoValue, NoValue), cmd, AttrGroup) = cmd
    BY <1>1, <1>6 DEF Merge, Cmd, Groups, Group, AttrGroup, Command
  <2>2. Matches(o, sent) = "yes"
    BY <1>4, <1>6, <2>1 DEF AlreadyShows
  <2>3. sent = Cmd("on", IF ~Dims THEN NoValue ELSE IF cmd.bri = 0 THEN 1 ELSE cmd.bri,
                         IF cmd.col = NoValue THEN NoValue ELSE Takes[cmd.col])
    BY <1>6 DEF Project
  <2>4. /\ o.state = "on" /\ BothNear(o.bri, sent.bri)
        /\ sent.col \in Uncompared \cup {NoValue, o.col}
    BY <2>2, <2>3 DEF Matches, Cmd
  <2>5. /\ merged.state = "on"
        /\ "brightness" \in groups => merged.bri = cmd.bri
        /\ "color" \in groups => merged.col = cmd.col
    BY <1>2, <1>6 DEF cmd, Merge, Groups, Group, AttrGroup, Cmd
  <2>6. Project(merged) =
          Cmd("on", IF ~Dims THEN NoValue ELSE IF merged.bri = 0 THEN 1 ELSE merged.bri,
                    IF merged.col = NoValue THEN NoValue ELSE Takes[merged.col])
    BY <2>5 DEF Project
  <2>7. /\ "brightness" \in groups => BothNear(o.bri, Project(merged).bri)
        /\ "color" \in groups => Project(merged).col \in Uncompared \cup {NoValue, o.col}
    BY <2>3, <2>4, <2>5, <2>6 DEF Cmd
  <2> QED BY <2>4, <2>5, <2>7, PartsShown
<1>7. CASE cmd.state = "none"
  <2> DEFINE bare == Cmd("on", NoValue, NoValue)
  <2>1. Merge(bare, cmd, AttrGroup) = bare
    BY <1>3, <1>7 DEF Merge, Nothing, Cmd, Groups, Group, AttrGroup
  <2>2. Project(bare) = bare
    <3>1. NoValue # 0
      BY CommandAssumption
    <3>2. bare.state = "on" /\ bare.bri = NoValue /\ bare.col = NoValue
      BY DEF Cmd
    <3> QED BY <3>1, <3>2 DEF Project
  <2>3. ComparedGroups(o, bare) = {}
    BY DEF ComparedGroups, Cmd
  <2> QED BY <1>4, <1>7, <2>1, <2>2, <2>3 DEF AlreadyShows
<1> QED BY <1>1, <1>5, <1>6, <1>7 DEF Command

\* A call nothing reports is taken and holds (the intent path of _handle_call).
LEMMA IntendedHolds ==
  ASSUME NEW r, Good(r), Available(r), Grounded(r), NEW call \in LightCall,
         IntentHeard(r, Intent(call))
  PROVE  Holds(Intended(r, Intent(call), NamedBy(call)))
<1> DEFINE cmd == Intent(call)
           named == NamedBy(call)
           groups == named \cup {"state"}
           s == Supersede(r)
           merged == Merge(r.base, cmd, groups)
           t == ApplyExternal(s, cmd, groups, "user", "take_back", named)
<1>1. r \in Record /\ "take_back" \in Policies /\ r.base \in Command
  BY DEF Good, Policies, Record
<1>2. cmd \in Command /\ groups \in Take /\ "user" \in ChangeSource
  BY IntentType, NamedType, TakeTypes, Sources
<1>3. /\ s \in Record /\ s.observed = r.observed /\ s.base = r.base /\ s.layers = r.layers
  BY <1>1, SupersedeQuiet DEF Becomes, Supersede, Record
<1> HIDE DEF s
<1>4. /\ merged.state \in {"on", "off"}
      /\ \/ groups = Everything
         \/ merged.state # "on"
         \/ Shows(r, Rest(merged, groups)) # "no"
         => Shows(r, merged) # "no"
  BY <1>1, IntentShown
<1>5. \A c : Shows(s, c) = Shows(r, c)
  BY <1>3, ShowsSame
<1>6. Grounded(s) /\ Available(s)
  BY <1>3 DEF Grounded, Available
<1>7. merged = Merge(s.base, cmd, groups)
  BY <1>3
<1> HIDE DEF merged, cmd, groups, named
<1>8. Holds(t)
  BY <1>2, <1>3, <1>4, <1>5, <1>6, <1>7, ExternalHolds
<1>9. t \in Record
  BY <1>1, <1>2, <1>3, ApplyExternalQuiet DEF Becomes
<1>10. Intended(r, Intent(call), NamedBy(call)) = SeenOffIf(t, r.observed.state = "off")
  BY DEF Intended, t, s, groups, named, cmd
<1> HIDE DEF t
<1> QED BY <1>8, <1>9, <1>10, SeenOffHolds

\* A call leaves a lamp right, reported or not, old or not (_handle_call).
LEMMA ByIntentRight ==
  ASSUME NEW k, Fit(k), Right(k), NEW call \in LightCall, NEW old
  PROVE  Right(ByIntent(k, Intent(call), NamedBy(call), old))
<1> DEFINE cmd == Intent(call)
           named == NamedBy(call)
           groups == named \cup {"state"}
           learnt == ApplyReplay(k.rec, cmd, groups, "user")
           taught == [k EXCEPT !.rec = learnt]
           q == ByIntent(k, cmd, named, old)
<1>1. /\ cmd \in Command /\ named \in SUBSET AttrGroup /\ groups \in Take
      /\ "user" \in ChangeSource /\ Good(k.rec) /\ Available(k.rec) /\ Grounded(k.rec)
  BY IntentType, NamedType, TakeTypes, Sources DEF Fit, Right
<1>2. CASE ~IntentHeard(k.rec, cmd)
  <2>1. q = k
    BY <1>1, <1>2, ByIntentFit
  <2> QED BY <2>1
<1>3. CASE IntentHeard(k.rec, cmd) /\ old
  <2>1. q = Replayed(taught)
    BY <1>3 DEF ByIntent
  <2> HIDE DEF cmd, groups, named
  <2>2. Good(learnt) /\ Available(learnt) /\ Grounded(learnt)
    BY <1>1, ReplayLeaves, ReplayGrounded DEF Available
  <2> HIDE DEF learnt, q
  <2>3. Fit(taught) /\ taught.rec = learnt /\ taught.prev = k.prev /\ taught.job = k.job
    BY <2>2, OtherRecord
  <2> HIDE DEF taught
  <2>4. Right(Replayed(taught))
    BY <2>2, <2>3, ReplayedRight DEF Right, Runs
  <2> QED BY <2>1, <2>4 DEF q, cmd, named
<1>4. CASE IntentHeard(k.rec, cmd) /\ ~old
  <2>1. Holds(Intended(k.rec, cmd, named))
    BY <1>1, <1>4, IntendedHolds
  <2> HIDE DEF cmd, named, groups
  <2>2. Fit(q) /\ Calm(q) /\ q.rec = Intended(k.rec, cmd, named)
    BY <1>1, <1>4, ByIntentFit DEF Steady
  <2> HIDE DEF q
  <2>3. Right(q)
    BY <2>1, <2>2, CalmRight
  <2> QED BY <2>3 DEF q, cmd, named
<1> QED BY <1>2, <1>3, <1>4

\* A report nobody's call is behind waits, and what the lamp showed before is
\* remembered (_handle_state).
LEMMA NoticedRight ==
  ASSUME NEW k, Fit(k), Right(k), NEW o \in Reports
  PROVE  Right(Noticed(k, o))
<1> DEFINE prev == IF k.prev = Away /\ ~Runs(k) THEN k.rec.observed ELSE k.prev
           q == Noticed(k, o)
<1>1. Fit(q)
  BY LampsAssumption, NoticedFit DEF Steady
<1>2. /\ q.rec.layers = k.rec.layers /\ q.rec.base = k.rec.base /\ q.rec.observed = o
      /\ q.rec.diverged = k.rec.diverged
      /\ q.prev = prev /\ q.job = k.job /\ q.replayed = k.replayed
  BY DEF Noticed, Showing, Fit, Knowledge, Good, Record
<1> HIDE DEF q
<1>3. Wanted(q) = Wanted(k)
  BY <1>2, WantedSame
<1>4. /\ prev \in Reports \cup {Away} /\ (Runs(k) => prev = Away)
      /\ ~Runs(k) => prev = Before(k) /\ prev # Away
  BY DEF Right, Grounded, Before, Fit, Available, Away, Cmd
<1> HIDE DEF prev
<1>5. Right(q)
  BY <1>2, <1>3, <1>4 DEF Right, Grounded, Honest, Before, Runs
<1> QED BY <1>5 DEF q

\* A layer that gives nothing if it follows.
Mute(lay) == lay.mode = "follow" => Groups(lay.command) \cap AttrGroup = {}

\* What a set makes of a record keeps its base known and its follow layers
\* without a say; a set that is refused or skipped leaves it (apply_set).
LEMMA SetGrounds ==
  ASSUME NEW r, Good(r), Grounded(r), NEW req \in Requests
  PROVE  LET out == ApplySet(r, req)
         IN /\ Grounded(out.rec) /\ out.rec.observed = r.observed
            /\ out.rec.diverged = r.diverged
            /\ out.result \in Skips \cup Refusals => out.rec = r
<1> DEFINE Fine(out) == /\ Grounded(out.rec) /\ out.rec.observed = r.observed
                        /\ out.rec.diverged = r.diverged
                        /\ out.result \in Skips \cup Refusals => out.rec = r
           done == {"refreshed", "created", "updated", "active_set", "base_set"}
<1>1. r \in Record /\ req \in SetRequest /\ WellFormed(req)
  BY LampsAssumption DEF Good
<1>2. \A result : Fine(Outcome(r, result))
  BY DEF Outcome
<1>3. done \cap (Skips \cup Refusals) = {}
  BY DEF Skips, Refusals
<1>4. ASSUME NEW i \in Id, NEW lay, Mute(lay)
      PROVE  SilentFollows([r.layers EXCEPT ![i] = lay])
  <2>1. r.layers \in [Id -> Layer \cup {NoLayer}] /\ SilentFollows(r.layers)
    BY <1>1 DEF Record, Grounded
  <2> QED BY <1>4, <2>1 DEF SilentFollows, Mute, OfMode, Live, Present
<1>5. ASSUME NEW i \in Id, NEW lay, Mute(lay), NEW result \in done
      PROVE  /\ Fine(Outcome([r EXCEPT !.layers[i] = lay], result))
             /\ Fine(PutLayer(r, i, lay, result))
  <2> DEFINE q == [r EXCEPT !.layers[i] = lay]
             p == LayersChanged(q)
  <2>1. /\ q.layers = [r.layers EXCEPT ![i] = lay] /\ q.base = r.base
        /\ q.observed = r.observed /\ q.diverged = r.diverged
        /\ p.layers = [r.layers EXCEPT ![i] = lay] /\ p.base = r.base
        /\ p.observed = r.observed /\ p.diverged = r.diverged
    BY <1>1 DEF Record, LayersChanged
  <2> HIDE DEF q, p
  <2>2. Grounded(q) /\ Grounded(p)
    BY <1>4, <1>5, <2>1 DEF Grounded
  <2>3. result \notin Skips \cup Refusals
    BY <1>3
  <2>4. PutLayer(r, i, lay, result) = Outcome(p, result)
    BY DEF PutLayer, p, q
  <2>5. Fine(Outcome(q, result)) /\ Fine(Outcome(p, result))
    BY <2>1, <2>2, <2>3 DEF Outcome
  <2> HIDE DEF Fine
  <2> QED BY <2>4, <2>5 DEF q
<1>6. Fine(SetBaseLayer(r, req))
  <2> DEFINE merged == Merge(r.base, req.command, Everything)
             base == AsMode(merged, "set")
             q == LayersChanged([r EXCEPT !.base = base])
  <2>1. merged.state \in {"on", "off"}
    BY <1>1, MergeKnown DEF Grounded, SetRequest
  <2>2. base = merged
    BY <2>1 DEF AsMode
  <2> HIDE DEF base, merged
  <2>3. /\ q.layers = r.layers /\ q.base = base
        /\ q.observed = r.observed /\ q.diverged = r.diverged
    BY <1>1 DEF Record, LayersChanged
  <2>4. SetBaseLayer(r, req) = Outcome(q, "base_set")
    BY DEF SetBaseLayer, q, base, merged
  <2> HIDE DEF q
  <2> QED BY <1>3, <2>1, <2>2, <2>3, <2>4 DEF Outcome, Grounded
<1> HIDE DEF Fine
<1>7. Fine(SetActiveLayer(r, req))
  <2> DEFINE top == EditableLayer(r.base, r.layers)
             lay == r.layers[top]
             edited ==
               CASE lay.mode = "adjust" /\ req.command.state = "off" -> ToSetOff(lay)
                 [] lay.mode = "adjust" /\ req.command.state # "off" ->
                      [lay EXCEPT !.command = MergeAttributes(@, req.command, Everything)]
                 [] lay.mode # "adjust" ->
                      [lay EXCEPT !.command = Merge(@, req.command, Everything)]
  <2>1. CASE top = NoId
    BY <1>6, <2>1 DEF SetActiveLayer
  <2>2. CASE top # NoId
    <3>1. lay \in Layer /\ top \in Live(r.layers) /\ top \in Id
      BY <1>1, <2>2, EditableIsLive DEF Live
    <3>2. lay.mode # "follow"
      <4>1. top \in Live(r.layers) \ OfMode(r.layers, "follow")
        BY <2>2, TopmostIn DEF EditableLayer
      <4> QED BY <4>1 DEF OfMode
    <3> HIDE DEF top
    <3>3. Mute(edited)
      <4> HIDE DEF lay
      <4>1. \A command : [lay EXCEPT !.command = command].mode = lay.mode
        BY <3>1 DEF Layer
      <4>2. ToSetOff(lay).mode # "follow"
        BY <3>1 DEF ToSetOff, Layer
      <4>3. edited.mode # "follow"
        BY <3>2, <4>1, <4>2
      <4> QED BY <4>3 DEF Mute
    <3>4. SetActiveLayer(r, req) = PutLayer(r, top, edited, "active_set")
      BY <2>2 DEF SetActiveLayer, top
    <3> HIDE DEF edited
    <3> QED BY <1>5, <3>1, <3>3, <3>4
  <2> QED BY <2>1, <2>2
<1>8. ASSUME req.layer \in Id
      PROVE  Fine(CreateLayer(r, req))
  <2>1. Mute(NewLayer(req))
    BY <1>1 DEF Mute, NewLayer, WellFormed
  <2> QED BY <1>2, <1>5, <1>8, <2>1 DEF CreateLayer
<1>9. ASSUME req.layer \in Live(r.layers)
      PROVE  /\ r.layers[req.layer] \in Layer /\ Mute(r.layers[req.layer])
             /\ req.layer \in Id
  <2>1. r.layers[req.layer] \in Layer /\ req.layer \in Id
    BY <1>1, <1>9 DEF Record, Live, Present
  <2>2. Mute(r.layers[req.layer])
    BY <1>9 DEF Grounded, SilentFollows, OfMode, Mute
  <2> QED BY <2>1, <2>2
<1>10. ASSUME req.layer \in Live(r.layers)
       PROVE  Fine(SetFollowLayer(r, req))
  <2> DEFINE lay == r.layers[req.layer]
             newSource == ~req.onlyIfPresent /\ req.source # lay.source
             timeout == lay.manualTimeout \/ req.manualTimeout
             refreshed == [Renewed(lay, req, TRUE) EXCEPT !.manualTimeout = timeout]
             updated == [Optioned(lay, req) EXCEPT
                           !.prio = PriorityOf(lay, req),
                           !.source = IF newSource THEN req.source ELSE @,
                           !.command = IF newSource THEN Nothing ELSE @,
                           !.manual = {},
                           !.manualLease = "none",
                           !.manualTimeout = timeout]
  <2>1. Groups(Nothing) = {}
    BY DEF Groups, Group, Nothing, Cmd
  <2>2. lay \in Layer /\ Mute(lay) /\ req.layer \in Id
    BY <1>9, <1>10
  <2>3. /\ refreshed.mode = lay.mode /\ refreshed.command = lay.command
        /\ updated.mode = lay.mode /\ updated.command \in {Nothing, lay.command}
    <3> HIDE DEF lay, newSource, timeout
    <3> QED BY <2>2 DEF Renewed, Optioned, Layer
  <2>4. /\ SetFollowLayer(r, req) \in
             {Outcome([r EXCEPT !.layers[req.layer] = refreshed], "refreshed"),
              Outcome(r, "priority_conflict"),
              PutLayer(r, req.layer, updated, "updated")}
    BY DEF SetFollowLayer
  <2> HIDE DEF refreshed, updated, lay
  <2>5. Mute(refreshed) /\ Mute(updated)
    BY <2>1, <2>2, <2>3 DEF Mute
  <2> QED BY <1>2, <1>5, <2>2, <2>4, <2>5
<1>11. ASSUME req.layer \in Live(r.layers),
              ~(/\ r.layers[req.layer].asked = "follow"
                /\ req.onlyIfPresent \/ req.mode = "follow")
       PROVE  Fine(UpdateLayer(r, req))
  <2> DEFINE lay == r.layers[req.layer]
             mode == IF req.onlyIfPresent THEN lay.asked ELSE req.mode
             command == IF req.onlyIfPresent THEN AsMode(req.command, mode) ELSE req.command
             follows == mode = "follow"
             source == IF follows THEN req.source ELSE NoSource
             timeout == follows /\ req.manualTimeout
             updated == [Optioned(lay, req) EXCEPT
                           !.prio = PriorityOf(lay, req),
                           !.mode = mode, !.asked = mode,
                           !.requested = command, !.command = command,
                           !.source = source,
                           !.manual = {},
                           !.manualLease = "none",
                           !.manualTimeout = timeout]
  <2>1. lay \in Layer /\ Mute(lay) /\ req.layer \in Id
    BY <1>9, <1>11
  <2>2. mode = "follow" => Groups(command) = {}
    BY <1>1, <1>11 DEF WellFormed
  <2>3. UpdateLayer(r, req) \in
          {Outcome([r EXCEPT !.layers[req.layer] = Renewed(lay, req, TRUE)], "refreshed"),
           Outcome(r, "priority_conflict"),
           PutLayer(r, req.layer, updated, "updated")}
    BY DEF UpdateLayer
  <2> HIDE DEF lay, mode, command, source, timeout
  <2>4. /\ Renewed(lay, req, TRUE).mode = lay.mode
        /\ Renewed(lay, req, TRUE).command = lay.command
        /\ updated.mode = mode /\ updated.command = command
    BY <2>1 DEF Renewed, Optioned, Layer
  <2> HIDE DEF updated
  <2>5. Mute(Renewed(lay, req, TRUE)) /\ Mute(updated)
    BY <2>1, <2>2, <2>4 DEF Mute
  <2> QED BY <1>2, <1>5, <2>1, <2>3, <2>5
<1>12. ASSUME req.layer \in Id
       PROVE  Fine(SetNamedLayer(r, req))
  BY <1>2, <1>8, <1>10, <1>11, <1>12 DEF SetNamedLayer
<1>13. Fine(ApplySet(r, req))
  <2>1. req.layer \in Id \cup {"base", "active"}
    BY <1>1 DEF SetRequest
  <2> QED BY <1>2, <1>6, <1>7, <1>12, <2>1 DEF ApplySet
<1> QED BY <1>13 DEF Fine

\* So does a clear (apply_clear).
LEMMA ClearGrounds ==
  ASSUME NEW r, Good(r), Grounded(r), NEW i \in Id
  PROVE  LET q == ApplyClear(r, i)
         IN Grounded(q) /\ q.observed = r.observed /\ q.diverged = r.diverged
<1> DEFINE about == Cleared(r, i)
           removed == about \cap Live(r.layers)
           expired == about \cap Expired(r)
           marked(j) == [r.layers[j] EXCEPT !.render = TRUE]
           layers == [j \in Id |-> CASE j \in removed -> NoLayer
                                     [] j \in expired -> marked(j)
                                     [] OTHER -> r.layers[j]]
           tombs == [j \in Id |-> IF j \in about /\ i # "active" THEN NoTomb ELSE r.tombs[j]]
           cleared == [r EXCEPT !.layers = layers, !.tombs = tombs]
<1>1. r \in Record
  BY DEF Good
<1>2. ApplyClear(r, i) \in {cleared, LayersChanged(cleared)}
  <2>1. cleared =
        [r EXCEPT
           !.layers = [j \in Id |->
                         CASE j \in removed -> NoLayer
                           [] j \in expired -> [@[j] EXCEPT !.render = TRUE]
                           [] OTHER -> @[j]],
           !.tombs = [j \in Id |->
                         IF j \in about /\ i # "active" THEN NoTomb ELSE @[j]]]
    BY <1>1 DEF Record
  <2> QED BY <2>1 DEF ApplyClear
<1>3. \A j \in Live(layers) : j \in Live(r.layers) /\ layers[j] = r.layers[j]
  <2> SUFFICES ASSUME NEW j \in Live(layers)
               PROVE  j \in Live(r.layers) /\ layers[j] = r.layers[j]
    OBVIOUS
  <2>1. r.layers[j] \in Layer \cup {NoLayer} /\ j \in Id
    BY <1>1 DEF Record, Live
  <2>2. layers[j] # NoLayer /\ layers[j].lease # "over"
    BY DEF Live, Present
  <2>3. layers[j] = IF j \in removed THEN NoLayer
                    ELSE IF j \in expired THEN marked(j)
                    ELSE r.layers[j]
    <3>1. j \notin removed \/ j \notin expired
      BY DEF Expired
    <3> HIDE DEF removed, expired, marked
    <3> QED BY <2>1, <3>1
  <2> HIDE DEF layers
  <2>4. CASE j \in expired
    <3>1. /\ r.layers[j] \in Layer /\ r.layers[j].lease = "over" /\ j \notin removed
      BY <2>1, <2>4 DEF Expired, Present, Live
    <3>2. marked(j).lease = "over"
      BY <3>1 DEF Layer
    <3> QED BY <2>2, <2>3, <2>4, <3>1, <3>2
  <2>5. CASE j \notin expired
    BY <2>1, <2>2, <2>3, <2>5 DEF Live, Present
  <2> QED BY <2>4, <2>5
<1> HIDE DEF layers, tombs
<1>4. SilentFollows(layers)
  BY <1>3 DEF Grounded, SilentFollows, OfMode
<1>5. \A q \in {cleared, LayersChanged(cleared)} :
        /\ q.observed = r.observed /\ q.base = r.base /\ q.layers = layers
        /\ q.diverged = r.diverged
  BY <1>1 DEF Record, LayersChanged
<1> HIDE DEF cleared
<1> QED BY <1>2, <1>4, <1>5 DEF Grounded

\* A lamp is right whatever its other marks are.
LEMMA RightSame ==
  ASSUME NEW k, Right(k), NEW q,
         q.rec.base = k.rec.base, q.rec.layers = k.rec.layers,
         q.rec.observed = k.rec.observed, q.rec.diverged = k.rec.diverged,
         q.prev = k.prev, q.job = k.job, q.replayed = k.replayed
  PROVE  Right(q)
<1>1. Wanted(q) = Wanted(k)
  BY WantedSame
<1> QED BY <1>1 DEF Right, Grounded, Honest, Before, Runs

\* A set or a clear renders what it changed (set_layer, clear_layer).
LEMMA CommandedRight ==
  ASSUME NEW k, Fit(k), Right(k), k.prev = Away,
         NEW r, Good(r), Available(r), Grounded(r),
         r.observed = k.rec.observed, r.diverged = k.rec.diverged
  PROVE  Right(Commanded(k, r))
<1> DEFINE p == [k EXCEPT !.rec = r]
           renders == \/ EffectiveNow(r) # EffectiveNow(k.rec)
                      \/ r.diverged \in {"delivery", "partial", "colour"}
<1>1. /\ Fit(p) /\ p.rec = r /\ p.prev = k.prev /\ p.job = k.job
      /\ p.replayed = k.replayed
  BY OtherRecord
<1>2. Commanded(k, r) = IF renders THEN Send(p) ELSE p
  BY DEF Commanded
<1> HIDE DEF p
<1>3. Right(Send(p))
  BY <1>1, SendRight
<1>4. ASSUME ~renders
      PROVE  Right(p)
  <2>1. Wanted(p) = Wanted(k)
    BY <1>1, <1>4 DEF Wanted
  <2> QED BY <1>1, <2>1 DEF Right, Honest, Before, Runs
<1> QED BY <1>2, <1>3, <1>4

LEMMA SetOfRight ==
  ASSUME NEW k, Fit(k), Right(k), k.prev = Away, NEW req \in Requests
  PROVE  Right(SetOf(k, SetOn(k, req)))
<1> DEFINE out == SetOn(k, req)
<1>1. Good(k.rec) /\ Available(k.rec) /\ Grounded(k.rec) /\ k \in Knowledge
  BY DEF Fit, Right
<1>2. /\ Grounded(out.rec) /\ out.rec.observed = k.rec.observed
      /\ out.rec.diverged = k.rec.diverged
      /\ out.result \in Skips \cup Refusals => out.rec = k.rec
  BY <1>1, SetGrounds DEF SetOn
<1>3. Good(out.rec) /\ Available(out.rec)
  BY <1>1, <1>2, RequestType, ApplySetIsGood DEF SetOn, Available
<1> HIDE DEF out
<1>4. Right(Commanded(k, out.rec))
  BY <1>2, <1>3, CommandedRight
<1>5. out.result \in Skips \cup Refusals => [k EXCEPT !.rec = out.rec] = k
  BY <1>1, <1>2 DEF Knowledge
<1>6. Right(SetOf(k, out))
  BY <1>4, <1>5 DEF SetOf
<1> QED BY <1>6 DEF out

\* A set finds the base known, and so learns nothing.
LEMMA ReadyRight ==
  ASSUME Telling, NEW l \in Lamp, Fit(lamp[l]), Right(lamp[l])
  PROVE  Right(Ready(l))
<1> DEFINE k == Flush(lamp[l])
<1>1. Right(k) /\ Fit(k)
  BY FlushRight, FlushFit DEF Steady
<1>2. Ready(l) = [k EXCEPT !.rec = LearnBase(k.rec)]
  BY <1>1 DEF Ready, Fit, Knowledge
<1> HIDE DEF k
<1>3. k.rec.base # Nothing
  BY <1>1 DEF Right, Grounded, Nothing, Cmd
<1>4. LearnBase(k.rec) = k.rec
  BY <1>3 DEF LearnBase
<1>5. Ready(l) = k
  BY <1>1, <1>2, <1>4 DEF Fit, Knowledge
<1> QED BY <1>1, <1>5

LEMMA ClearOfRight ==
  ASSUME NEW k, Fit(k), Right(k), k.prev = Away, NEW i \in Id
  PROVE  Right(ClearOf(k, i))
<1> DEFINE r == ApplyClear(k.rec, i)
<1>1. Good(k.rec) /\ Available(k.rec) /\ Grounded(k.rec) /\ k.rec \in Record
  BY DEF Fit, Right, Good
<1>2. Grounded(r) /\ r.observed = k.rec.observed /\ r.diverged = k.rec.diverged
  BY <1>1, ClearGrounds
<1>3. Good(r) /\ Available(r)
  BY <1>1, <1>2, ApplyClearQuiet, GoodKept DEF Available
<1> HIDE DEF r
<1>4. Right(Commanded(k, r))
  BY <1>2, <1>3, CommandedRight
<1> QED BY <1>4 DEF ClearOf, r

\* A render that arrived is of what is wanted (_verified).
LEMMA VerifiedRight ==
  ASSUME NEW k, Fit(k), Grounded(k.rec), k.prev = Away, k.job = Wanted(k),
         Matches(k.rec.observed, k.job) # "no"
  PROVE  Right(Verified(k))
<1> DEFINE q == Verified(k)
<1>1. /\ SameStack(k, q) /\ q.job = Nothing /\ q.prev = k.prev
      /\ q.rec.diverged = IF Matches(k.rec.observed, k.job) = "colour_off"
                          THEN "colour" ELSE "none"
  BY VerifiedFit
<1> HIDE DEF q
<1>2. Wanted(q) = k.job /\ q.rec.observed = k.rec.observed /\ Grounded(q.rec)
  BY <1>1, WantedSame DEF SameStack, Grounded
<1>3. Matches(k.rec.observed, k.job) \in {"yes", "colour_off"}
  BY DEF Matches
<1>4. Honest(q, q.rec.observed)
  BY <1>1, <1>2, <1>3 DEF Honest
<1>5. Right(q)
  BY <1>1, <1>2, <1>4 DEF Right, Before, Runs
<1> QED BY <1>5 DEF q

LEMMA LandedRight ==
  ASSUME NEW k, Fit(k), Right(k), Runs(k), NEW o \in Reports, Matches(o, k.job) # "no"
  PROVE  Right(Landed(k, o))
<1> DEFINE r == SeenOffIf(Showing(k.rec, o), o.state = "off")
           seen == [k EXCEPT !.rec = r]
<1>1. Grounded(k.rec) /\ k.prev = Away /\ k.job = Wanted(k) /\ o \in Report \ {Away}
  BY LampsAssumption DEF Right, Runs
<1>2. /\ Fit(seen) /\ seen.rec = r /\ seen.prev = Away /\ seen.job = k.job
      /\ r.base = k.rec.base /\ r.observed = o /\ SaysSame(k.rec.layers, r.layers)
  BY <1>1, LandsFit DEF Steady
<1>3. Landed(k, o) = IF Matches(k.rec.observed, k.job) # "no" THEN Verified(k)
                     ELSE Verified(seen)
  BY DEF Landed, Fit, Knowledge
<1> HIDE DEF r, seen
<1>4. EffectiveNow(r) = EffectiveNow(k.rec) /\ SilentFollows(r.layers)
  BY <1>1, <1>2, EffectiveSame, StaysSilent DEF Grounded
<1>5. Grounded(seen.rec) /\ Wanted(seen) = seen.job
  BY <1>1, <1>2, <1>4 DEF Grounded, Wanted
<1>6. Right(Verified(seen))
  BY <1>2, <1>5, VerifiedRight
<1>7. Matches(k.rec.observed, k.job) # "no" => Right(Verified(k))
  BY <1>1, VerifiedRight
<1> QED BY <1>3, <1>6, <1>7

\* What was replayed is put right (_after_replay).
LEMMA PutRightRight ==
  ASSUME Telling, NEW k, Fit(k), Right(k)
  PROVE  Right(PutRight(k))
<1> DEFINE p == Flush(k)
           sent == Send(p)
           q == PutRight(k)
<1>1. Right(p) /\ Fit(p) /\ p.prev = Away
  BY FlushRight, FlushFit DEF Steady
<1> HIDE DEF p
<1>2. /\ Right(sent) /\ Fit(sent) /\ sent.prev = Away
      /\ ~Runs(sent) => Honest(sent, sent.rec.observed)
  BY <1>1, SendFit, SendRight DEF Right
<1>3. q = [sent EXCEPT !.replayed = FALSE]
  BY DEF PutRight, p
<1> HIDE DEF sent, q
<1>4. q.rec = sent.rec /\ q.prev = sent.prev /\ q.job = sent.job
  BY <1>2, <1>3 DEF Fit, Knowledge
<1>5. Wanted(q) = Wanted(sent)
  BY <1>4, WantedSame
<1>6. Right(q)
  BY <1>2, <1>4, <1>5 DEF Right, Honest, Before, Runs
<1> QED BY <1>6 DEF q

\* A lamp Layers is told of shows what it is meant to: that is its base.
LEMMA NewRight ==
  ASSUME Telling, NEW o \in Reports, NEW k,
         k.rec = RecordObservedAsBase(NewRecord(o), o), Fit(k), Calm(k)
  PROVE  Right(k)
<1> DEFINE r == k.rec
           cmd == ObservedToCommand(o)
<1>1. r \in Record /\ Available(r)
  BY DEF Fit, Good
<1>2. r.base = cmd /\ r.observed = o /\ \A i \in Id : ~Present(r.layers, i)
  BY DEF RecordObservedAsBase, NewRecord, Present
<1>3. /\ cmd = Merge(Nothing, cmd, Everything) /\ cmd \in Command
      /\ cmd.state \in {"on", "off"} /\ (cmd.state = "off" => cmd = OffCommand)
  <2>1. o \in Report /\ o.state \in {"on", "off"}
    BY <1>1, <1>2 DEF Record, Report, Available
  <2>2. cmd.state \in {"on", "off"} /\ (cmd.state = "off" => cmd = OffCommand)
    BY <2>1 DEF ObservedToCommand, OffCommand, Cmd
  <2>3. cmd \in Command
    BY <2>1, ObservedType
  <2> HIDE DEF cmd
  <2>4. cmd = Merge(Nothing, cmd, Everything)
    BY <2>2, <2>3 DEF Merge, Groups, Group, Everything, Nothing, OffCommand, Cmd, Command
  <2> QED BY <2>2, <2>3, <2>4
<1>4. Live(r.layers) = {}
  BY <1>2 DEF Live
<1>5. EditableLayer(r.base, r.layers) = NoId /\ SilentFollows(r.layers)
  BY <1>4, TopmostIn DEF EditableLayer, OfMode, SilentFollows
<1>6. EffectiveNow(r) = cmd
  BY <1>1, <1>2, <1>3, <1>5, BaseIsWanted
<1>7. Shows(r, cmd) # "no"
  <2>1. "state" \in Everything /\ Nothing \in Command
    BY ConstantCommands DEF Everything, Group
  <2>2. TellsAll(r.observed) /\ cmd = Merge(Nothing, ObservedToCommand(r.observed), Everything)
    BY <1>2, <1>3 DEF Telling
  <2> HIDE DEF cmd, r
  <2> QED BY <1>1, <2>1, <2>2, MergedIsShown
<1>8. Holds(r)
  BY <1>2, <1>3, <1>5, <1>6, <1>7 DEF Holds, Grounded
<1> QED BY <1>8, CalmRight

-----------------------------------------------------------------------------
(* Every step leaves every lamp right *)

RInv == IInv /\ \A l \in Lamp : Right(lamp[l])

\* What a step makes of the lamps is what its handler made of them.
LEMMA MadeRight ==
  ASSUME NEW known, NEW pressed, NEW run, Made(known, pressed, run),
         NEW l \in Lamp, Fit(known[l]), Right(known[l])
  PROVE  Right(lamp'[l])
<1> DEFINE k == known[l]
           q == lamp'[l]
<1>1. q = [k EXCEPT !.rec.changed = FALSE]
  BY DEF Made
<1>2. /\ q.job = k.job /\ q.prev = k.prev /\ q.replayed = k.replayed
      /\ q.rec.observed = k.rec.observed /\ q.rec.base = k.rec.base
      /\ q.rec.layers = k.rec.layers /\ q.rec.diverged = k.rec.diverged
  BY <1>1 DEF Fit, Good, Knowledge, Record
<1> HIDE DEF q, k
<1>3. Right(k) => Right(q)
  BY <1>2, RightSame
<1> QED BY <1>3 DEF k, q

LEMMA OneLampRight ==
  ASSUME RInv, NEW j \in Lamp, NEW k, Steady(lamp[j], k), Right(k),
         Made(Only(j, k), press, scene), NEW l \in Lamp
  PROVE  Right(lamp'[l])
<1> DEFINE known == Only(j, k)
<1>1. Fit(known[l])
  BY OneLamp DEF RInv, Steady
<1>2. known[l] = IF l = j THEN k ELSE lamp[l]
  BY OneLamp DEF RInv, Steady
<1> HIDE DEF known
<1>3. Right(known[l])
  BY <1>2 DEF RInv
<1> QED BY <1>1, <1>3, MadeRight DEF known

\* layers.set.
LEMMA SetLayerRight ==
  ASSUME Telling, RInv, NEW req \in Requests, NEW aim \in Aims, SetLayer(req, aim),
         NEW l \in Lamp
  PROVE  Right(lamp'[l])
<1>1. PICK reach \in Reach[aim] :
        \E ready \in {[j \in reach.lamps |-> Ready(j)]} :
          \E out \in {[j \in reach.lamps |-> SetOn(ready[j], req)]} :
            Made([j \in Lamp |-> IF j \in Reached(out) THEN SetOf(ready[j], out[j])
                                 ELSE lamp[j]], press, scene)
  BY DEF SetLayer
<1> DEFINE ready == [j \in reach.lamps |-> Ready(j)]
           out == [j \in reach.lamps |-> SetOn(ready[j], req)]
           known == [j \in Lamp |-> IF j \in Reached(out) THEN SetOf(ready[j], out[j])
                                    ELSE lamp[j]]
<1>2. Made(known, press, scene)
  BY <1>1
<1>3. Fit(lamp[l]) /\ Right(lamp[l])
  BY LampFit DEF RInv
<1>4. l \in Reached(out) => known[l] = SetOf(Ready(l), SetOn(Ready(l), req))
  BY DEF Reached
<1>5. l \notin Reached(out) => known[l] = lamp[l]
  OBVIOUS
<1> HIDE DEF known, out, ready
<1>6. /\ Fit(Ready(l)) /\ Right(Ready(l)) /\ Ready(l).prev = Away
  BY <1>3, ReadyFit, ReadyRight DEF Steady
<1>7. Fit(SetOf(Ready(l), SetOn(Ready(l), req))) /\ Right(SetOf(Ready(l), SetOn(Ready(l), req)))
  BY <1>6, RequestType, SetOfFit, SetOfRight
<1>8. Fit(known[l]) /\ Right(known[l])
  BY <1>3, <1>4, <1>5, <1>7
<1> QED BY <1>2, <1>8, MadeRight

\* layers.clear.
LEMMA ClearLayerRight ==
  ASSUME Telling, RInv, NEW i \in Id, ClearLayer(i), NEW l \in Lamp
  PROVE  Right(lamp'[l])
<1> DEFINE S == {j \in Lamp : \/ Present(lamp[j].rec.layers, i)
                              \/ lamp[j].rec.tombs[i] # NoTomb}
           known == [j \in Lamp |-> IF j \in S THEN ClearOf(Flush(lamp[j]), i) ELSE lamp[j]]
           k == Flush(lamp[l])
<1>1. Made(known, press, scene)
  BY DEF ClearLayer
<1>2. known[l] \in {ClearOf(k, i), lamp[l]}
  OBVIOUS
<1> HIDE DEF known
<1>3. Fit(lamp[l]) /\ Right(lamp[l])
  BY LampFit DEF RInv
<1>4. Fit(k) /\ Right(k) /\ k.prev = Away
  BY <1>3, FlushFit, FlushRight DEF Steady
<1> HIDE DEF k
<1>5. Fit(ClearOf(k, i)) /\ Right(ClearOf(k, i))
  BY <1>4, ClearOfFit, ClearOfRight
<1>6. Fit(known[l]) /\ Right(known[l])
  BY <1>2, <1>3, <1>5
<1> QED BY <1>1, <1>6, MadeRight

\* A call somebody makes.
LEMMA HeardRight ==
  ASSUME RInv, NEW to \in Presses, to.memory = "heard", Heard(to), NEW l \in Lamp
  PROVE  Right(lamp'[l])
<1> DEFINE known == [j \in Lamp |->
                       IF j \notin to.lamps THEN lamp[j]
                       ELSE ByIntent(Listening(to, j), Intent(to.call), NamedBy(to.call),
                                     j \in to.older)]
           k == Listening(to, l)
           q == ByIntent(k, Intent(to.call), NamedBy(to.call), l \in to.older)
<1>1. Made(known, to, scene)
  BY DEF Heard, Listening
<1>2. known[l] \in {lamp[l], q}
  OBVIOUS
<1> HIDE DEF known
<1>3. to.call \in LightCall
  BY SomePress, NonePressed, LampsAssumption
<1>4. /\ Fit(lamp[l]) /\ Right(lamp[l]) /\ Fit(k)
      /\ k.rec = lamp[l].rec /\ k.prev = lamp[l].prev /\ k.job = lamp[l].job
      /\ k.replayed = lamp[l].replayed
  BY LampFit, ListeningFit DEF RInv
<1> HIDE DEF k
<1>5. Right(k)
  BY <1>4, RightSame
<1>6. Right(q)
  BY <1>3, <1>4, <1>5, ByIntentRight
<1>7. Fit(q)
  BY <1>3, <1>4, IntentType, NamedType, ByIntentFit DEF Steady
<1> HIDE DEF q
<1>8. Fit(known[l]) /\ Right(known[l])
  BY <1>2, <1>4, <1>6, <1>7
<1> QED BY <1>1, <1>8, MadeRight

LEMMA PressRight ==
  ASSUME RInv, NEW call \in Calls, NEW aim \in Aims, Press(call, aim), NEW l \in Lamp
  PROVE  Right(lamp'[l])
<1>1. PICK reach \in Reach[aim] :
        Heard([memory |-> "heard", call |-> call, aim |-> aim, lamps |-> reach.lamps,
               via |-> reach.via, older |-> {}, loops |-> TRUE])
  BY DEF Press
<1> DEFINE to == [memory |-> "heard", call |-> call, aim |-> aim, lamps |-> reach.lamps,
                  via |-> reach.via, older |-> {}, loops |-> TRUE]
<1>2. reach.lamps \in SUBSET Lamp /\ reach.via \in SUBSET Lamp
  BY ReachType
<1>3. to \in Presses /\ to.memory = "heard" /\ Heard(to)
  BY <1>1, <1>2 DEF Presses
<1> HIDE DEF to
<1> QED BY <1>3, HeardRight

LEMMA PressAgainRight ==
  ASSUME RInv, PressAgain, NEW l \in Lamp
  PROVE  Right(lamp'[l])
<1> DEFINE to == [press EXCEPT !.memory = "heard",
                               !.older = IF press.memory = "gone" THEN {} ELSE @]
<1>1. press \in Presses /\ press # NoPress
  BY NonePressed DEF RInv, IInv, TypeOK, PressAgain
<1>2. to \in Presses /\ to.memory = "heard" /\ Heard(to)
  BY <1>1, SomePress DEF Presses, PressAgain
<1> HIDE DEF to
<1> QED BY <1>2, HeardRight

\* What is forgotten of a call says nothing of what a lamp shows.
LEMMA PruneRight ==
  ASSUME RInv, Prune, NEW l \in Lamp
  PROVE  Right(lamp'[l])
<1>1. lamp' = RoomsForgotten /\ Right(lamp[l])
  BY DEF Prune, RInv
<1>2. /\ lamp'[l].rec = lamp[l].rec /\ lamp'[l].job = lamp[l].job
      /\ lamp'[l].prev = lamp[l].prev /\ lamp'[l].replayed = lamp[l].replayed
  BY <1>1, RoomsForgottenFit DEF RInv
<1> QED BY <1>1, <1>2, RightSame

LEMMA SceneRight ==
  ASSUME RInv, NEW wanted, Scene(wanted), NEW l \in Lamp
  PROVE  Right(lamp'[l])
<1>1. PICK run : Made(lamp, press, run)
  BY DEF Scene
<1> QED BY <1>1, LampFit, MadeRight DEF RInv

LEMMA SceneSettlesRight ==
  ASSUME RInv, SceneSettles, NEW l \in Lamp
  PROVE  Right(lamp'[l])
<1> DEFINE known == [j \in Lamp |-> Skipped(j)]
           call == ReproducedCall(scene.wanted)
           q == ByIntent(lamp[l], Intent(call), NamedBy(call), l \in scene.older)
<1>1. Made(known, press, Remembered([scene EXCEPT !.over = TRUE], stamp))
  BY DEF SceneSettles, Skipped
<1>2. known[l] \in {lamp[l], q}
  BY DEF Skipped
<1>3. Fit(known[l])
  BY SkippedFit DEF RInv, Steady
<1> HIDE DEF known
<1>4. call \in LightCall
  BY WantedOfScene DEF RInv, IInv, TypeOK
<1> HIDE DEF call
<1>5. Right(lamp[l]) /\ Fit(lamp[l])
  BY LampFit DEF RInv
<1>6. Right(q)
  BY <1>4, <1>5, ByIntentRight
<1> HIDE DEF q
<1>7. Right(known[l])
  BY <1>2, <1>5, <1>6
<1> QED BY <1>1, <1>3, <1>7, MadeRight

\* A report, whoever is behind it.
LEMMA ReportedRight ==
  ASSUME Telling, RInv, NEW l \in Lamp, NEW o \in Reports
  PROVE  Steady(lamp[l], Reported(l, o)) /\ Right(Reported(l, o))
<1> DEFINE whose == CallBehind(l, o)
           before == lamp[l].rec.observed
           old == l \in (IF whose = "scene" THEN scene.since ELSE press.older)
           call == IF whose = "scene" THEN ReproducedCall(scene.wanted) ELSE press.call
           reaches == whose = "scene" => l \in scene.called
           groups == TakenBy(call, reaches, before, o)
           called == ByCall(lamp[l], groups, ChosenBy(call, before, o), o, old)
<1>1. /\ Steady(lamp[l], Reported(l, o))
      /\ whose = "nobody" => Reported(l, o) = Noticed(lamp[l], o)
      /\ whose # "nobody" => Reported(l, o) = called
  BY LampsAssumption, ReportedFit DEF RInv
<1> HIDE DEF whose, old, call, reaches, before
<1>2. Fit(lamp[l]) /\ Right(lamp[l])
  BY LampFit DEF RInv
<1>3. Right(Noticed(lamp[l], o))
  BY <1>2, NoticedRight
<1>4. Right(called)
  <2>1. groups \in Take /\ "state" \in groups
    BY TakenByType
  <2> HIDE DEF groups
  <2> QED BY <1>2, <2>1, ByCallRight
<1> QED BY <1>1, <1>3, <1>4

LEMMA AnswersRight ==
  ASSUME Telling, RInv, NEW j \in Lamp, Answers(j), NEW l \in Lamp
  PROVE  Right(lamp'[l])
<1>1. CASE UNCHANGED <<lamp, press, scene>>
  BY <1>1 DEF RInv
<1>2. CASE ~UNCHANGED <<lamp, press, scene>>
  <2>1. PICK o \in Reports : Made(Only(j, Reported(j, o)), press, scene)
    BY <1>2 DEF Answers
  <2> QED BY <2>1, ReportedRight, OneLampRight
<1> QED BY <1>1, <1>2

LEMMA OwnLandsRight ==
  ASSUME RInv, NEW j \in Lamp, OwnLands(j), NEW l \in Lamp
  PROVE  Right(lamp'[l])
<1>1. PICK o \in Reports :
        Matches(o, lamp[j].job) # "no" /\ Made(Only(j, Landed(lamp[j], o)), press, scene)
  BY DEF OwnLands
<1>2. Runs(lamp[j]) /\ Fit(lamp[j]) /\ Right(lamp[j])
  BY LampFit DEF OwnLands, RInv
<1>3. Steady(lamp[j], Landed(lamp[j], o)) /\ Right(Landed(lamp[j], o))
  BY <1>1, <1>2, LampsAssumption, LandedFit, LandedRight
<1> QED BY <1>1, <1>3, OneLampRight

LEMMA PersonRight ==
  ASSUME Telling, RInv, NEW j \in Lamp, NEW o \in Reports, Person(j, o), NEW l \in Lamp
  PROVE  Right(lamp'[l])
BY ReportedRight, OneLampRight DEF Person

LEMMA SettleDebounceRight ==
  ASSUME Telling, RInv, NEW j \in Lamp, SettleDebounce(j), NEW l \in Lamp
  PROVE  Right(lamp'[l])
<1>1. Fit(lamp[j]) /\ Right(lamp[j])
  BY LampFit DEF RInv
<1>2. Steady(lamp[j], Settled(lamp[j])) /\ Right(Settled(lamp[j]))
  BY <1>1, SettledFit, SettledRight
<1> QED BY <1>2, OneLampRight DEF SettleDebounce

LEMMA AfterReplayRight ==
  ASSUME Telling, RInv, NEW j \in Lamp, AfterReplay(j), NEW l \in Lamp
  PROVE  Right(lamp'[l])
<1>1. Fit(lamp[j]) /\ Right(lamp[j])
  BY LampFit DEF RInv
<1>2. Steady(lamp[j], PutRight(lamp[j])) /\ Right(PutRight(lamp[j]))
  BY <1>1, PutRightFit, PutRightRight
<1> QED BY <1>2, OneLampRight DEF AfterReplay, PutRight

LEMMA InitRight ==
  ASSUME Telling, Init
  PROVE  RInv
<1>1. IInv
  BY InitKeeps
<1>2. ASSUME NEW l \in Lamp
      PROVE  Right(lamp[l])
  <2>1. PICK obs \in [Lamp -> Reports] :
          lamp = [j \in Lamp |-> [rec |-> RecordObservedAsBase(NewRecord(obs[j]), obs[j]),
                                  prev |-> Away, job |-> Nothing,
                                  room |-> FALSE, replayed |-> FALSE]]
    BY DEF Init
  <2>2. /\ lamp[l].rec = RecordObservedAsBase(NewRecord(obs[l]), obs[l])
        /\ Calm(lamp[l]) /\ obs[l] \in Reports
    BY <2>1 DEF Calm, Runs
  <2> QED BY <1>1, <2>2, LampFit, NewRight
<1> QED BY <1>1, <1>2 DEF RInv

LEMMA NextRight ==
  ASSUME Telling, RInv, [Next]_vars
  PROVE  RInv'
<1>1. IInv'
  BY NextKeeps DEF RInv
<1>2. ASSUME NEW l \in Lamp
      PROVE  Right(lamp'[l])
  <2>1. ASSUME UNCHANGED lamp
        PROVE  Right(lamp'[l])
    BY <2>1 DEF RInv
  <2>2. CASE UNCHANGED vars
    BY <2>1, <2>2 DEF vars
  <2>3. CASE Owner
    BY <2>3, SetLayerRight, ClearLayerRight DEF Owner
  <2>4. CASE Someone
    BY <2>4, PressRight, SceneRight, PersonRight DEF Someone
  <2>5. CASE World
    <3>1. CASE PressAgain
      BY <3>1, PressAgainRight
    <3>2. CASE LoopEnds
      BY <2>1, <3>2 DEF LoopEnds
    <3>3. CASE \E j \in Lamp : SceneVisits(j) \/ WindowCloses(j)
      BY <2>1, <3>3 DEF SceneVisits, WindowCloses
    <3>4. CASE \E j \in Lamp : Answers(j) \/ OwnLands(j)
      BY <3>4, AnswersRight, OwnLandsRight
    <3> QED BY <2>5, <3>1, <3>2, <3>3, <3>4 DEF World
  <2>6. CASE Engine
    BY <2>6, PruneRight, SceneSettlesRight, SettleDebounceRight, AfterReplayRight DEF Engine
  <2> QED BY <2>2, <2>3, <2>4, <2>5, <2>6 DEF Next
<1> QED BY <1>1, <1>2 DEF RInv

\* A lamp on which nothing is under way shows what it is meant to show, or its
\* record says that it does not, where lamps report what they can be sent:
\* however owners' sets and clears, presses and their loops, scenes, answers,
\* debounces and replays come between each other (_render, _settle_debounce,
\* _replay, _after_replay).
THEOREM AllIsShown ==
  ASSUME \A o \in Reports : TellsAll(o)
  PROVE  Spec => []AllShow
<1>1. Telling
  BY DEF Telling
<1>2. Init => RInv
  BY <1>1, InitRight
<1>3. RInv /\ [Next]_vars => RInv'
  BY <1>1, NextRight
<1>4. RInv => AllShow
  <2> SUFFICES ASSUME RInv, NEW l \in Lamp, AtRest(l)
               PROVE  \/ Shows(lamp[l].rec, EffectiveNow(lamp[l].rec)) = "yes"
                      \/ lamp[l].rec.diverged # "none"
    BY DEF AllShow
  <2> DEFINE k == lamp[l]
  <2>1. Fit(k) /\ Right(k) /\ ~Runs(k) /\ k.prev = Away /\ ~k.replayed
    BY LampFit DEF RInv, AtRest
  <2> HIDE DEF k
  <2>2. Grounded(k.rec) /\ Honest(k, k.rec.observed)
    BY <2>1 DEF Right, Before
  <2>3. \/ Shows(k.rec, EffectiveNow(k.rec)) = "yes"
        \/ k.rec.diverged # "none"
    BY <2>1, <2>2, SomethingWanted DEF Honest
  <2> QED BY <2>3 DEF k
<1> QED BY <1>2, <1>3, <1>4, PTL DEF Spec
=============================================================================
