--------------------------- MODULE EvidenceProofs ---------------------------
(***************************************************************************)
(* Proofs about Evidence, for every set of requests, reports and calls and *)
(* any number of acts.                                                     *)
(*                                                                         *)
(* What the engine knows of the lamp is fit when it is well-typed, its     *)
(* record is good, and a change waits only on a lamp that is there, with   *)
(* no task and no other timer running.  Each part of a handler either      *)
(* ends the wait or leaves what it depends on alone.                       *)
(*                                                                         *)
(* That no layer is taken back for what Layers did itself rests on a       *)
(* second invariant, OInv: whatever the engine could take for a person's   *)
(* has someone behind it (Explained), and while the lamp carries out our   *)
(* command its answer is known for ours (OwnAnswer).                       *)
(***************************************************************************)
EXTENDS Evidence, PolicyProofs

\* A change that waits to be judged waits alone.
WaitsAlone(e) ==
  e.prev # Away => ~Alive(e) /\ e.timers = {} /\ Available(e.rec)

Fit(e) == e \in Engine /\ Good(e.rec)

\* From e to f the reports, the debounce and the timers stay as they are, and
\* (Spares) the render task too.
Keeps(e, f) ==
  f.prev = e.prev /\ f.timers = e.timers /\ f.rec.observed = e.rec.observed

Spares(e, f) == Keeps(e, f) /\ f.job = e.job

\* No task is started from e to f.
StartsNone(e, f) == Alive(f) => Alive(e)

IInv == TypeOK /\ Good(eng.rec) /\ WaitsAlone(eng)

-----------------------------------------------------------------------------
(* Parts of handlers *)

\* What the lamp is to be sent is a command (_render).
LEMMA WantedType ==
  ASSUME NEW e \in Engine
  PROVE  Wanted(e) \in Command
BY EffectiveType, ProjectType DEF Wanted, Engine

\* A good record in place of another.
LEMMA OtherRecord ==
  ASSUME NEW e, Fit(e), NEW r, Good(r)
  PROVE  /\ Fit([e EXCEPT !.rec = r])
         /\ [e EXCEPT !.rec = r].rec = r
         /\ [e EXCEPT !.rec = r].prev = e.prev
         /\ [e EXCEPT !.rec = r].job = e.job
         /\ [e EXCEPT !.rec = r].timers = e.timers
         /\ r.observed = e.rec.observed => Spares(e, [e EXCEPT !.rec = r])
BY DEF Fit, Good, Engine, Spares, Keeps

\* What is owed or diverged may be anything of its type.
LEMMA OtherNotes ==
  ASSUME NEW e, Fit(e), NEW owed \in Owed, NEW d \in Divergence
  PROVE  /\ Fit([e EXCEPT !.rec.owed = owed])
         /\ Spares(e, [e EXCEPT !.rec.owed = owed])
         /\ Fit([e EXCEPT !.rec.diverged = d])
         /\ Spares(e, [e EXCEPT !.rec.diverged = d])
<1> DEFINE p == [e.rec EXCEPT !.owed = owed]
           q == [e.rec EXCEPT !.diverged = d]
<1>1. e.rec \in Record
  BY DEF Fit, Good
<1>2. p \in Record /\ q \in Record
  BY <1>1 DEF Record
<1>3. Good(p) /\ Good(q)
  BY <1>1, <1>2, SameLayers, GoodKept DEF Fit, Record
<1>4. /\ [e EXCEPT !.rec.owed = owed] = [e EXCEPT !.rec = p]
      /\ [e EXCEPT !.rec.diverged = d] = [e EXCEPT !.rec = q]
  BY DEF Fit, Engine
<1>5. p.observed = e.rec.observed /\ q.observed = e.rec.observed
  BY <1>1 DEF Record
<1> HIDE DEF p, q
<1>6. Fit([e EXCEPT !.rec = p]) /\ Spares(e, [e EXCEPT !.rec = p])
  BY <1>3, <1>5, OtherRecord
<1>7. Fit([e EXCEPT !.rec = q]) /\ Spares(e, [e EXCEPT !.rec = q])
  BY <1>3, <1>5, OtherRecord
<1> QED BY <1>4, <1>6, <1>7

\* Nothing owed, nothing diverged.
LEMMA NoNotes == "nothing" \in Owed /\ "owed" \in Owed /\ "old" \in Owed
                 /\ {"none", "delivery", "unsynced"} \subseteq Divergence
BY DEF Owed, Divergence

\* Cancelling a render (Renderer.cancel).
LEMMA CancelFit ==
  ASSUME NEW e, Fit(e)
  PROVE  /\ Fit(Cancel(e)) /\ ~Alive(Cancel(e)) /\ Keeps(e, Cancel(e))
         /\ Cancel(e).rec = e.rec
<1>1. NoJob \in Job /\ Nothing \in Command
  BY ConstantCommands DEF Job
<1> QED BY <1>1 DEF Fit, Engine, Cancel, Alive, Keeps

\* Nothing is owed any more.
LEMMA SettlesFit ==
  ASSUME NEW e, Fit(e)
  PROVE  Fit(Settles(e)) /\ Spares(e, Settles(e))
BY OtherNotes, NoNotes DEF Settles

\* Two parts in a row.
LEMMA KeepsTransitive ==
  ASSUME NEW e, NEW f, NEW g
  PROVE  /\ Keeps(e, f) /\ Keeps(f, g) => Keeps(e, g)
         /\ Spares(e, f) /\ Spares(f, g) => Spares(e, g)
         /\ Spares(e, f) => Keeps(e, f)
         /\ Spares(e, f) => (Alive(e) <=> Alive(f))
BY DEF Keeps, Spares, Alive

\* A part that spares the wait lets it be; with nothing waiting, so does any that
\* keeps it so.
LEMMA StillAlone ==
  ASSUME NEW e, NEW f, WaitsAlone(e),
         Spares(e, f) \/ (Keeps(e, f) /\ e.prev = Away) \/ f.prev = Away
  PROVE  WaitsAlone(f)
BY DEF WaitsAlone, Spares, Keeps, Alive, Available

\* Starting a render (Renderer.start).
LEMMA StartFit ==
  ASSUME NEW e, Fit(e), ~Unknown(e)
  PROVE  Fit(Start(e)) /\ Keeps(e, Start(e))
<1> DEFINE stopped == Cancel(e)
           job == [call |-> Wanted(e), phase |-> "new"]
           begun == [stopped EXCEPT !.job = job]
<1>1. Fit(stopped) /\ Keeps(e, stopped)
  BY CancelFit
<1>2. job \in Job
  BY WantedType DEF Unknown, Job, Fit
<1> HIDE DEF stopped, job
<1>3. Fit(begun) /\ Keeps(stopped, begun)
  BY <1>1, <1>2 DEF Fit, Engine, Keeps
<1> HIDE DEF begun
<1>4. Fit([begun EXCEPT !.rec.owed = "owed"]) /\ Keeps(begun, [begun EXCEPT !.rec.owed = "owed"])
  BY <1>3, OtherNotes, NoNotes, KeepsTransitive
<1>5. [stopped EXCEPT !.job = job, !.rec.owed = "owed"] = [begun EXCEPT !.rec.owed = "owed"]
  BY <1>1 DEF begun, Fit, Engine
<1>6. CASE e.job.call = Wanted(e)
  BY <1>6 DEF Start, Keeps
<1>7. CASE e.job.call # Wanted(e)
  <2>1. Start(e) = [begun EXCEPT !.rec.owed = "owed"]
    BY <1>5, <1>7 DEF Start, stopped, job
  <2> QED BY <1>1, <1>3, <1>4, <2>1, KeepsTransitive
<1> QED BY <1>6, <1>7

\* _render keeps what waits, and what it sends is a command.
LEMMA SendFit ==
  ASSUME NEW e, Fit(e), NEW reason
  PROVE  Fit(Send(e, reason)) /\ Keeps(e, Send(e, reason))
<1> DEFINE quiet == Settles(Cancel(e))
           lifted == IF e.rec.diverged \in {"manual_keep", "unsynced"}
                     THEN [e EXCEPT !.rec.diverged = "none"] ELSE e
           still == lifted.retried /\ reason = "again"
           ready == [lifted EXCEPT !.retried = still, !.room = Nothing]
<1>1. Fit(Settles(e)) /\ Keeps(e, Settles(e))
  BY SettlesFit, KeepsTransitive
<1>2. Fit(quiet) /\ Keeps(e, quiet)
  BY CancelFit, SettlesFit, KeepsTransitive
<1>3. Fit(lifted) /\ Spares(e, lifted) /\ lifted.rec.base = e.rec.base
      /\ lifted.rec.layers = e.rec.layers
  <2>1. e.rec \in Record /\ e \in Engine
    BY DEF Fit, Good
  <2>2. [e EXCEPT !.rec.diverged = "none"].rec.base = e.rec.base
        /\ [e EXCEPT !.rec.diverged = "none"].rec.layers = e.rec.layers
    BY <2>1 DEF Engine, Record
  <2>3. Fit([e EXCEPT !.rec.diverged = "none"]) /\ Spares(e, [e EXCEPT !.rec.diverged = "none"])
    BY OtherNotes, NoNotes
  <2>4. Fit(e) /\ Spares(e, e)
    BY DEF Spares, Keeps
  <2> QED BY <2>2, <2>3, <2>4
<1> HIDE DEF quiet, lifted
<1>4. Fit([quiet EXCEPT !.rec.diverged = "none"]) /\ Keeps(e, [quiet EXCEPT !.rec.diverged = "none"])
  <2>1. /\ Fit([quiet EXCEPT !.rec.diverged = "none"])
        /\ Spares(quiet, [quiet EXCEPT !.rec.diverged = "none"])
    BY <1>2, OtherNotes, NoNotes
  <2> QED BY <1>2, <2>1, KeepsTransitive
<1>5. Fit([Cancel(lifted) EXCEPT !.rec.owed = "owed"])
      /\ Keeps(e, [Cancel(lifted) EXCEPT !.rec.owed = "owed"])
  <2> DEFINE stopped == Cancel(lifted)
  <2>1. Fit(stopped) /\ Keeps(lifted, stopped)
    BY <1>3, CancelFit
  <2> HIDE DEF stopped
  <2>2. Fit([stopped EXCEPT !.rec.owed = "owed"])
        /\ Spares(stopped, [stopped EXCEPT !.rec.owed = "owed"])
    BY <2>1, OtherNotes, NoNotes
  <2>3. Keeps(e, [stopped EXCEPT !.rec.owed = "owed"])
    BY <1>3, <2>1, <2>2, KeepsTransitive
  <2> QED BY <2>2, <2>3 DEF stopped
<1>6. Fit(ready) /\ Keeps(e, ready) /\ ready.rec = lifted.rec
  <2>1. still \in BOOLEAN
    OBVIOUS
  <2> HIDE DEF still
  <2> QED BY <1>3, <2>1, ConstantCommands DEF Fit, Engine, Keeps, Spares
<1>7. Unknown(ready) <=> Unknown(e)
  BY <1>3, <1>6 DEF Unknown, Wanted, EffectiveNow
<1> HIDE DEF ready
<1>8. ~Unknown(e) => Fit(Start(ready)) /\ Keeps(e, Start(ready))
  BY <1>6, <1>7, StartFit, KeepsTransitive
<1> QED BY <1>1, <1>2, <1>4, <1>5, <1>8 DEF Send, quiet, lifted, still, ready

\* Dropping a render that is out of date (_drop_stale_render).
LEMMA DropStaleFit ==
  ASSUME NEW e, Fit(e)
  PROVE  /\ Fit(DropStale(e)) /\ Keeps(e, DropStale(e)) /\ StartsNone(e, DropStale(e))
<1> DEFINE quiet == Settles(Cancel(e))
<1>1. Fit(quiet) /\ Keeps(e, quiet) /\ ~Alive(quiet)
  BY CancelFit, SettlesFit, KeepsTransitive
<1> HIDE DEF quiet
<1>2. Keeps(e, e)
  BY DEF Keeps
<1> QED BY <1>1, <1>2 DEF DropStale, StartsNone, quiet

\* Someone acted: nothing of ours is pending on the lamp (_supersede).
LEMMA DroppedFit ==
  ASSUME NEW e, Fit(e)
  PROVE  /\ Fit(Dropped(e)) /\ ~Alive(Dropped(e)) /\ Dropped(e).prev = Away
         /\ Dropped(e).rec = e.rec
<1> DEFINE stopped == Cancel(e)
<1>1. Fit(stopped) /\ ~Alive(stopped) /\ stopped.rec = e.rec
  BY CancelFit
<1> HIDE DEF stopped
<1>2. /\ Fit([stopped EXCEPT !.prev = Away, !.timers = @ \ {"return"}])
      /\ ~Alive([stopped EXCEPT !.prev = Away, !.timers = @ \ {"return"}])
      /\ [stopped EXCEPT !.prev = Away, !.timers = @ \ {"return"}].prev = Away
      /\ [stopped EXCEPT !.prev = Away, !.timers = @ \ {"return"}].rec = e.rec
  BY <1>1, ConstantCommands DEF Fit, Engine, Alive
<1> QED BY <1>2 DEF Dropped, stopped

\* What a change can be put down to, and how it is judged here.
LEMMA Sources == {"device", "user", "automation"} \subseteq ChangeSource
                 /\ "take_back" \in Policies
BY DEF ChangeSource, Policies

\* A change that is someone's (_external).
LEMMA TakenFit ==
  ASSUME NEW e, Fit(e), NEW groups \in Take, NEW source \in ChangeSource
  PROVE  /\ Fit(Taken(e, groups, source)) /\ ~Alive(Taken(e, groups, source))
         /\ Taken(e, groups, source).prev = Away
<1> DEFINE dropped == Dropped(e)
           judged == Judged(dropped.rec, groups, source, "take_back", {})
<1>1. Fit(dropped) /\ ~Alive(dropped) /\ dropped.prev = Away
  BY DroppedFit
<1> HIDE DEF dropped
<1>2. Good(judged)
  BY <1>1, JudgedQuiet, GoodKept, Sources DEF Fit, Good
<1> HIDE DEF judged
<1>3. /\ Fit([dropped EXCEPT !.rec = judged]) /\ ~Alive([dropped EXCEPT !.rec = judged])
      /\ [dropped EXCEPT !.rec = judged].prev = Away
  BY <1>1, <1>2, OtherRecord DEF Alive
<1> QED BY <1>3 DEF Taken, dropped, judged

\* The end of a debounce (_settle_debounce).
LEMMA SettledFit ==
  ASSUME NEW e, Fit(e)
  PROVE  Fit(Settled(e)) /\ StartsNone(e, Settled(e)) /\ Settled(e).prev = Away
<1> DEFINE forgotten == [e EXCEPT !.prev = Away]
           taken == Taken(e, ChangedGroups(e.prev, e.rec.observed), "device")
<1>1. Fit(forgotten) /\ StartsNone(e, forgotten) /\ forgotten.prev = Away
  BY ConstantCommands DEF Fit, Engine, StartsNone, Alive
<1>2. Fit(taken) /\ StartsNone(e, taken) /\ taken.prev = Away
  BY TakenFit, TakeTypes, Sources DEF StartsNone
<1> HIDE DEF forgotten, taken
<1> QED BY <1>1, <1>2 DEF Settled, forgotten, taken

\* A waiting change is judged first (_flush_debounce).
LEMMA FlushFit ==
  ASSUME NEW e, Fit(e)
  PROVE  /\ Fit(Flush(e)) /\ StartsNone(e, Flush(e)) /\ Flush(e).prev = Away
BY SettledFit DEF Flush, StartsNone

\* Sent or dropped, nothing waits behind a flush.
LEMMA NothingWaits ==
  ASSUME NEW e, Fit(e), e.prev = Away, NEW reason
  PROVE  /\ Fit(Send(e, reason)) /\ Send(e, reason).prev = Away
         /\ Fit(DropStale(e)) /\ DropStale(e).prev = Away
BY SendFit, DropStaleFit DEF Keeps

-----------------------------------------------------------------------------
(* A step: the record's `changed` is cleared, the history follows *)

\* What the engine knows after a step, when `e` is what its handler made of it.
LEMMA StepsFit ==
  ASSUME NEW e, Fit(e), Steps(e)
  PROVE  /\ Fit(eng') /\ Spares(e, eng')
         /\ eng'.rec.last = e.rec.last /\ eng'.rec.atDrop = e.rec.atDrop
<1> DEFINE r == [e.rec EXCEPT !.changed = FALSE]
<1>1. e.rec \in Record
  BY DEF Fit, Good
<1>2. r \in Record /\ r.layers = e.rec.layers /\ r.tombs = e.rec.tombs
      /\ r.observed = e.rec.observed /\ r.last = e.rec.last /\ r.atDrop = e.rec.atDrop
  BY <1>1 DEF Record
<1>3. Good(r)
  BY <1>1, <1>2, SameLayers, GoodKept DEF Fit
<1>4. eng' = [e EXCEPT !.rec = r]
  BY DEF Steps, Fit, Engine
<1> HIDE DEF r
<1> QED BY <1>2, <1>3, <1>4, OtherRecord

\* The history stays Boolean.
LEMMA BlameTypes ==
  ASSUME TypeOK, NEW someone \in BOOLEAN
  PROVE  /\ Noted(someone) => touched' \in BOOLEAN /\ moved' \in BOOLEAN
         /\ \A ours \in BOOLEAN : Claims(ours) => claimed' \in BOOLEAN
         /\ Blame(someone) => /\ touched' \in BOOLEAN /\ moved' \in BOOLEAN
                              /\ claimed' \in BOOLEAN
BY DEF TypeOK, Noted, Claims, Blame

\* The count of acts.
LEMMA ActsTypes ==
  ASSUME TypeOK
  PROVE  (Acts => acts' \in 0..MaxActs) /\ (Runs => acts' \in 0..MaxActs)
BY EvidenceAssumption DEF TypeOK, Acts, Runs

-----------------------------------------------------------------------------
(* What a handler leaves of what the others read *)

\* A lamp seen off shows what it showed (_seen_off).
LEMMA SeenOffShows ==
  ASSUME NEW r \in Record, NEW off
  PROVE  /\ SeenOffIf(r, off).observed = r.observed
         /\ SeenOffIf(r, off).atDrop = r.atDrop
<1> DEFINE lifted == LiftOnOff(r)
<1>1. lifted \in Record
  BY LiftOnOffQuiet DEF Becomes
<1>2. lifted.observed = r.observed /\ lifted.atDrop = r.atDrop
  BY DEF LiftOnOff, Record
<1> HIDE DEF lifted
<1>3. /\ ReleaseManual(lifted, TRUE).observed = lifted.observed
      /\ ReleaseManual(lifted, TRUE).atDrop = lifted.atDrop
  BY <1>1 DEF ReleaseManual, Record
<1> QED BY <1>2, <1>3 DEF SeenOffIf, SeenOff, lifted

\* So does a lamp whose layers are taken back (_take_back).
LEMMA TakeBackShows ==
  ASSUME NEW r \in Record, NEW shown \in Command, NEW groups
  PROVE  /\ TakeBack(r, shown, groups).observed = r.observed
         /\ TakeBack(r, shown, groups).atDrop = r.atDrop
<1> DEFINE base == Merge(r.base, shown, groups)
           merged == [r EXCEPT !.base = base]
           dropped == DropAll(merged)
<1>1. base \in Command
  BY MergeType DEF Record
<1> HIDE DEF base
<1>2. merged \in Record /\ merged.observed = r.observed /\ merged.atDrop = r.atDrop
  BY <1>1, BaseQuiet DEF Becomes, Record
<1> HIDE DEF merged
<1>3. dropped \in Record
  BY <1>2, DropAllQuiet DEF Becomes
<1>4. dropped.observed = merged.observed /\ dropped.atDrop = merged.atDrop
  BY <1>2 DEF DropAll, Record
<1> HIDE DEF dropped
<1>5. \A d : /\ [dropped EXCEPT !.diverged = d].observed = dropped.observed
             /\ [dropped EXCEPT !.diverged = d].atDrop = dropped.atDrop
  BY <1>3 DEF Record
<1> QED BY <1>2, <1>4, <1>5 DEF TakeBack, dropped, merged, base

\* So does one given to someone who acted on it (apply_external).
LEMMA AppliedShows ==
  ASSUME NEW r \in Record, NEW shown \in Command, NEW groups \in Take, NEW source \in ChangeSource
  PROVE  /\ ApplyExternal(r, shown, groups, source, "take_back", {}).observed = r.observed
         /\ ApplyExternal(r, shown, groups, source, "take_back", {}).atDrop = r.atDrop
<1> DEFINE over == [r EXCEPT !.layers = TakeOver(@, {})]
           done == TakeBack(over, shown, groups)
           applied == ApplyExternal(r, shown, groups, source, "take_back", {})
<1>1. over \in Record /\ over.observed = r.observed /\ over.atDrop = r.atDrop
  BY TakeOverQuiet, QuietReflexive DEF Becomes, Record
<1> HIDE DEF over
<1>2. done.observed = over.observed /\ done \in Record /\ done.atDrop = over.atDrop
  BY <1>1, TakeBackShows, TakeBackQuiet DEF Becomes
<1>3. applied = [done EXCEPT !.owed = "nothing",
                             !.last = [policy |-> "take_back", source |-> source,
                                       groups |-> groups, tail |-> TRUE]]
  <2>1. {} # Everything
    BY DEF Everything
  <2>2. /\ ~Reasserts(r, source, "take_back")
        /\ "take_back" # "base_keep_layers" /\ "take_back" # "edit_active"
    BY DEF Reasserts
  <2> QED BY <2>1, <2>2 DEF ApplyExternal, applied, done, over
<1> HIDE DEF done
<1>4. applied.observed = done.observed /\ applied.atDrop = done.atDrop
  BY <1>2, <1>3 DEF Record
<1> QED BY <1>1, <1>2, <1>4 DEF applied

\* So does one whose change was judged to be someone's (_external); what it
\* showed when it dropped is then out of date.
LEMMA JudgedShows ==
  ASSUME NEW r \in Record, NEW groups \in Take, NEW source \in ChangeSource
  PROVE  /\ Judged(r, groups, source, "take_back", {}).observed = r.observed
         /\ Judged(r, groups, source, "take_back", {}).atDrop = Supersede(r).atDrop
<1> DEFINE acted == Supersede(r)
           shown == ObservedToCommand(r.observed)
           applied == ApplyExternal(acted, shown, groups, source, "take_back", {})
<1>1. acted \in Record /\ acted.observed = r.observed
  BY SupersedeQuiet DEF Becomes, Supersede, Record
<1>2. shown \in Command
  BY ObservedType DEF Record
<1> HIDE DEF acted, shown
<1>3. applied.observed = acted.observed /\ applied.atDrop = acted.atDrop
  BY <1>1, <1>2, AppliedShows
<1>4. applied \in Record
  BY <1>1, <1>2, ApplyExternalQuiet, Sources DEF Becomes, applied
<1> HIDE DEF applied
<1>5. /\ SeenOffIf(applied, r.observed.state = "off").observed = applied.observed
      /\ SeenOffIf(applied, r.observed.state = "off").atDrop = applied.atDrop
  BY <1>4, SeenOffShows
<1> QED BY <1>1, <1>3, <1>5 DEF Judged, applied, acted, shown

\* A change taken for someone's is the lamp's as it was, with fewer timers.
Calms(e, f) ==
  /\ f.rec.observed = e.rec.observed /\ f.timers \subseteq e.timers
  /\ f.last = e.last /\ f.retried = e.retried

\* Dropping what is pending calms the lamp (_supersede).
LEMMA DroppedCalms ==
  ASSUME NEW e, Fit(e)
  PROVE  Calms(e, Dropped(e))
<1> DEFINE stopped == Cancel(e)
<1>1. Fit(stopped) /\ Calms(e, stopped) /\ stopped.timers = e.timers
  BY CancelFit DEF Cancel, Calms, Fit, Engine
<1> HIDE DEF stopped
<1>2. Calms(stopped, [stopped EXCEPT !.prev = Away, !.timers = @ \ {"return"}])
  BY <1>1 DEF Calms, Fit, Engine
<1> QED BY <1>1, <1>2 DEF Calms, Dropped, stopped

\* So does taking a change for someone's (_external).
LEMMA TakenCalms ==
  ASSUME NEW e, Fit(e), NEW groups \in Take, NEW source \in ChangeSource
  PROVE  Calms(e, Taken(e, groups, source))
<1> DEFINE dropped == Dropped(e)
           judged == Judged(dropped.rec, groups, source, "take_back", {})
<1>1. Fit(dropped) /\ Calms(e, dropped)
  BY DroppedFit, DroppedCalms
<1> HIDE DEF dropped
<1>2. judged.observed = dropped.rec.observed
  BY <1>1, JudgedShows DEF Fit, Good
<1> HIDE DEF judged
<1>3. Calms(dropped, [dropped EXCEPT !.rec = judged])
  BY <1>1, <1>2 DEF Calms, Fit, Engine
<1> QED BY <1>1, <1>3 DEF Calms, Taken, dropped, judged

\* So does judging what waits (_flush_debounce).
LEMMA FlushCalms ==
  ASSUME NEW e, Fit(e)
  PROVE  Calms(e, Flush(e))
<1>1. Calms(e, e) /\ Calms(e, [e EXCEPT !.prev = Away])
  BY DEF Calms, Fit, Engine
<1>2. Calms(e, Taken(e, ChangedGroups(e.prev, e.rec.observed), "device"))
  BY TakenCalms, TakeTypes, Sources
<1> QED BY <1>1, <1>2 DEF Flush, Settled

-----------------------------------------------------------------------------
(* Reports *)

\* What a verdict says of a change can be kept in a record, and a reversal of our
\* own command is one of a command that no task is sending (classify_state).
LEMMA JudgeTypes ==
  ASSUME NEW e, Fit(e), NEW new, NEW ctx
  PROVE  /\ Judge(e, new, ctx).kind \in {"external", "follow_up"} =>
              /\ Judge(e, new, ctx).groups \in Take
              /\ Judge(e, new, ctx).source \in ChangeSource
         /\ Judge(e, new, ctx).kind = "debounce" => ~Alive(e)
         /\ Judge(e, new, ctx).kind = "failed" /\ e.last.by = "ours" => ~Alive(e)
<1> DEFINE old == e.rec.observed
           mine == ctx = "ours" /\ e.named # Nothing
           reused == mine /\ ~Consistent(old, new, e.named)
           chosen(cmd) == CallGroups(Groups(cmd) \cap AttrGroup, old, new)
<1>1. /\ e.rec.last.groups \in Take /\ e.rec.last.source \in ChangeSource
      /\ Everything \in Take
  BY TakeTypes DEF Fit, Good, Record, External
<1>2. chosen(e.named) \in Take /\ chosen(e.room) \in Take
  BY TakeTypes
<1> HIDE DEF old, mine, chosen
<1> QED BY <1>1, <1>2, Sources
        DEF Judge, Verdict, old, mine, reused, chosen

\* How long a command has been shown (matched_at).
LEMMA ArrivingType ==
  ASSUME NEW last \in LastCommand, NEW new
  PROVE  Arriving(last, new) \in LastCommand /\ Arriving(last, new).by = last.by
BY DEF Arriving, LastCommand

\* A report is on the record before it is judged (_handle_state).
Seen(e, new) == [e EXCEPT !.rec = Showing(@, new), !.last = Arriving(@, new)]

\* That leaves everything but the lamp's state and its last command alone.
LEMMA SeenFit ==
  ASSUME NEW e, Fit(e), NEW new \in Report
  PROVE  /\ Fit(Seen(e, new)) /\ Seen(e, new).rec.observed = new
         /\ Seen(e, new).job = e.job /\ Seen(e, new).prev = e.prev
         /\ Seen(e, new).timers = e.timers /\ Seen(e, new).retried = e.retried
         /\ Seen(e, new).last.by = e.last.by
<1> DEFINE f == Seen(e, new)
           r == Showing(e.rec, new)
           l == Arriving(e.last, new)
           g == [e EXCEPT !.rec = r]
<1>1. e.rec \in Record /\ e.last \in LastCommand
  BY DEF Fit, Good, Engine
<1>2. Good(r) /\ r.observed = new
  BY <1>1, ShowingQuiet, GoodKept DEF Fit, Showing, Record
<1>3. l \in LastCommand /\ l.by = e.last.by
  BY <1>1, ArrivingType
<1>4. f = [g EXCEPT !.last = l]
  BY DEF Seen, Fit, Engine
<1> HIDE DEF r, l, f
<1>5. Fit(g) /\ g.rec = r /\ g.job = e.job /\ g.prev = e.prev /\ g.timers = e.timers
      /\ g.retried = e.retried
  BY <1>2, OtherRecord DEF Fit, Engine
<1> HIDE DEF g
<1>6. /\ Fit(f) /\ f.rec.observed = new /\ f.job = e.job /\ f.prev = e.prev
      /\ f.timers = e.timers /\ f.retried = e.retried /\ f.last.by = e.last.by
  BY <1>2, <1>3, <1>4, <1>5 DEF Fit, Engine
<1> QED BY <1>6 DEF f

\* The lamp is off: what waits for that has seen it (_seen_off).
LEMMA OffSeenFit ==
  ASSUME NEW e, Fit(e)
  PROVE  Fit(OffSeen(e)) /\ Spares(e, OffSeen(e))
<1> DEFINE r == SeenOffIf(e.rec, e.rec.observed.state = "off")
<1>1. Good(r) /\ r.observed = e.rec.observed
  BY SeenOffQuiet, SeenOffShows, GoodKept DEF Fit, Good
<1> HIDE DEF r
<1> QED BY <1>1, OtherRecord DEF OffSeen, r

\* What the lamp showed before it dropped is out of date.
LEMMA KnownFit ==
  ASSUME NEW e, Fit(e)
  PROVE  Fit(Known(e)) /\ Spares(e, Known(e))
<1> DEFINE r == Supersede(e.rec)
<1>1. Good(r) /\ r.observed = e.rec.observed
  BY SupersedeQuiet, GoodKept DEF Fit, Good, Supersede, Record
<1> HIDE DEF r
<1> QED BY <1>1, OtherRecord DEF Known, r

\* A reversed command (_failed_delivery), once nothing else waits.
LEMMA FailedFit ==
  ASSUME NEW e, Fit(e), e.prev = Away, NEW old \in Report,
         e.timers = {}, Available(e.rec), e.last.by = "ours" => ~Alive(e)
  PROVE  /\ Fit(FailedDelivery(e, old)) /\ WaitsAlone(FailedDelivery(e, old))
         /\ e.retried => StartsNone(e, FailedDelivery(e, old))
<1> DEFINE noted == [e EXCEPT !.rec.diverged = "delivery"]
           waits == StartDebounce(e, old)
           again == [e EXCEPT !.retried = TRUE]
<1>1. Fit(noted) /\ WaitsAlone(noted) /\ StartsNone(e, noted)
  BY OtherNotes, NoNotes, StillAlone DEF WaitsAlone, StartsNone, Spares, Keeps, Alive
<1>2. waits = [e EXCEPT !.prev = old]
  BY DEF StartDebounce, Fit, Engine
<1>3. e.last.by = "ours" => Fit(waits) /\ WaitsAlone(waits) /\ StartsNone(e, waits)
  BY <1>2 DEF Fit, Engine, WaitsAlone, StartsNone, Alive
<1>4. Fit(again) /\ again.prev = Away
  BY DEF Fit, Engine
<1> HIDE DEF noted, waits, again
<1>5. Fit(Send(again, "again")) /\ WaitsAlone(Send(again, "again"))
  BY <1>4, NothingWaits DEF WaitsAlone
<1>6. e.retried \in BOOLEAN
  BY DEF Fit, Engine
<1>7. CASE e.last.by # "ours"
  BY <1>1, <1>7 DEF FailedDelivery, noted
<1>8. CASE e.last.by = "ours" /\ e.retried
  BY <1>3, <1>8 DEF FailedDelivery, waits
<1>9. CASE e.last.by = "ours" /\ ~e.retried
  BY <1>5, <1>9 DEF FailedDelivery, again
<1> QED BY <1>6, <1>7, <1>8, <1>9

\* Whatever a report is taken for (_handle_state).
LEMMA HandledFit ==
  ASSUME NEW e, Fit(e), WaitsAlone(e), NEW new \in Report \ {Away}, NEW ctx
  PROVE  /\ Fit(Handled(e, new, ctx)) /\ WaitsAlone(Handled(e, new, ctx))
         /\ e.retried => StartsNone(e, Handled(e, new, ctx))
<1> DEFINE seen == Seen(e, new)
           old == e.rec.observed
           v == Judge(e, new, ctx)
           flushed == Flush(seen)
           f == ActedOn(seen, old, v)
<1>1. /\ Fit(seen) /\ seen.rec.observed = new /\ seen.job = e.job /\ seen.prev = e.prev
      /\ seen.timers = e.timers /\ seen.retried = e.retried /\ seen.last.by = e.last.by
  BY SeenFit
<1>2. new.state # "away"
  BY DEF Report, Away, Cmd
<1>3. /\ v.kind \in {"external", "follow_up"} => v.groups \in Take /\ v.source \in ChangeSource
      /\ v.kind = "debounce" => ~Alive(e)
      /\ v.kind = "failed" /\ e.last.by = "ours" => ~Alive(e)
  BY JudgeTypes
<1>4. old \in Report
  BY DEF Fit, Good, Record
<1>5. Handled(e, new, ctx) = f
  BY DEF Handled, Seen, seen, old, v
<1> HIDE DEF seen, old, v, f, flushed
<1>6. /\ WaitsAlone(seen) /\ Available(seen.rec)
      /\ Alive(seen) <=> Alive(e)
  BY <1>1, <1>2 DEF WaitsAlone, Alive, Available
<1> SUFFICES Fit(f) /\ WaitsAlone(f) /\ (e.retried => StartsNone(seen, f))
  BY <1>5, <1>6 DEF StartsNone
<1>7. CASE v.kind = "ours"
  <2>1. Fit(OffSeen(seen)) /\ Spares(seen, OffSeen(seen))
    BY <1>1, OffSeenFit
  <2>2. f = OffSeen(seen)
    BY <1>7 DEF ActedOn, f
  <2> QED BY <1>6, <2>1, <2>2, StillAlone, KeepsTransitive DEF StartsNone
<1>8. CASE v.kind \in {"external", "follow_up"}
  <2>1. Fit(Taken(seen, v.groups, v.source)) /\ ~Alive(Taken(seen, v.groups, v.source))
        /\ Taken(seen, v.groups, v.source).prev = Away
    BY <1>1, <1>3, <1>8, TakenFit
  <2>2. f \in {Taken(seen, v.groups, v.source), seen}
    BY <1>8 DEF ActedOn, f
  <2> QED BY <1>1, <1>6, <2>1, <2>2 DEF WaitsAlone, StartsNone
<1>9. CASE v.kind = "failed" /\ seen.timers = {}
  <2>1. /\ Fit(flushed) /\ StartsNone(seen, flushed) /\ flushed.prev = Away
        /\ Calms(seen, flushed)
    BY <1>1, FlushFit, FlushCalms DEF flushed
  <2>2. /\ flushed.timers = {} /\ Available(flushed.rec)
        /\ flushed.last.by = e.last.by /\ flushed.retried = e.retried
    BY <1>1, <1>6, <1>9, <2>1 DEF Calms, Available
  <2>3. flushed.last.by = "ours" => ~Alive(flushed)
    BY <1>3, <1>6, <1>9, <2>1, <2>2 DEF StartsNone
  <2>4. /\ Fit(FailedDelivery(flushed, old)) /\ WaitsAlone(FailedDelivery(flushed, old))
        /\ flushed.retried => StartsNone(flushed, FailedDelivery(flushed, old))
    BY <1>4, <2>1, <2>2, <2>3, FailedFit
  <2>5. f = FailedDelivery(flushed, old)
    BY <1>9 DEF ActedOn, flushed, f
  <2> QED BY <2>1, <2>2, <2>4, <2>5 DEF StartsNone
<1>10. CASE v.kind = "debounce" /\ seen.timers = {}
  <2> DEFINE waits == StartDebounce(seen, old)
  <2>1. waits.prev \in {seen.prev, old} /\ waits = [seen EXCEPT !.prev = waits.prev]
    BY <1>1 DEF StartDebounce, Fit, Engine
  <2>2. seen.prev \in Report
    BY <1>1 DEF Fit, Engine
  <2>3. f = waits
    BY <1>10 DEF ActedOn, f
  <2> HIDE DEF waits
  <2>4. waits.prev \in Report
    BY <1>4, <2>1, <2>2
  <2>5. \A p \in Report : Fit([seen EXCEPT !.prev = p])
    BY <1>1 DEF Fit, Engine
  <2>6. Fit(waits) /\ (Alive(waits) <=> Alive(seen)) /\ waits.timers = seen.timers
        /\ waits.rec = seen.rec
    BY <1>1, <2>1, <2>4, <2>5 DEF Fit, Engine, Alive
  <2> QED BY <1>3, <1>6, <1>10, <2>3, <2>6 DEF WaitsAlone, StartsNone
<1>11. CASE /\ v.kind \notin {"ours", "external", "follow_up"}
            /\ ~(v.kind = "failed" /\ seen.timers = {})
            /\ ~(v.kind = "debounce" /\ seen.timers = {})
  <2>1. f = seen
    BY <1>11 DEF ActedOn, f
  <2> QED BY <1>1, <1>6, <2>1 DEF StartsNone
<1> QED BY <1>7, <1>8, <1>9, <1>10, <1>11

-----------------------------------------------------------------------------
(* Handlers that act once nothing waits *)

\* The lamp has nothing waiting, from e to f shows what it showed, and no timer
\* was started.
Leaves(e, f) ==
  /\ Fit(f) /\ f.prev = Away
  /\ f.rec.observed = e.rec.observed /\ f.timers \subseteq e.timers

\* Two parts in a row.
LEMMA LeavesTransitive ==
  ASSUME NEW e, NEW f, NEW g, Leaves(e, f), Leaves(f, g)
  PROVE  Leaves(e, g)
BY DEF Leaves

\* Sending, dropping and taking leave nothing waiting.
LEMMA PartsLeave ==
  ASSUME NEW e, Fit(e), e.prev = Away
  PROVE  /\ Leaves(e, e)
         /\ \A reason : Leaves(e, Send(e, reason))
         /\ Leaves(e, DropStale(e)) /\ Leaves(e, Settles(e))
         /\ Leaves(e, OffSeen(e)) /\ Leaves(e, Known(e))
         /\ Leaves(e, Taken(e, Everything, "device"))
<1>1. \A reason : Fit(Send(e, reason)) /\ Keeps(e, Send(e, reason))
  BY SendFit
<1>2. Fit(DropStale(e)) /\ Keeps(e, DropStale(e))
  BY DropStaleFit
<1>3. Fit(Settles(e)) /\ Keeps(e, Settles(e))
  BY SettlesFit, KeepsTransitive
<1>4. /\ Fit(OffSeen(e)) /\ Keeps(e, OffSeen(e))
      /\ Fit(Known(e)) /\ Keeps(e, Known(e))
  BY OffSeenFit, KnownFit, KeepsTransitive
<1>5. /\ Fit(Taken(e, Everything, "device")) /\ Taken(e, Everything, "device").prev = Away
      /\ Calms(e, Taken(e, Everything, "device"))
  BY TakenFit, TakenCalms, TakeTypes, Sources
<1> QED BY <1>1, <1>2, <1>3, <1>4, <1>5 DEF Leaves, Keeps, Calms

\* Another good record of a lamp that shows the same.
LEMMA RecordLeaves ==
  ASSUME NEW e, Fit(e), e.prev = Away, NEW r, Good(r), r.observed = e.rec.observed
  PROVE  Leaves(e, [e EXCEPT !.rec = r])
BY OtherRecord DEF Leaves

\* What a lamp shows becomes its base (record_observed_as_base).
LEMMA BaseRecorded ==
  ASSUME NEW r, Good(r)
  PROVE  /\ Good(RecordObservedAsBase(r, r.observed))
         /\ RecordObservedAsBase(r, r.observed).observed = r.observed
<1>1. r \in Record /\ ObservedToCommand(r.observed) \in Command
  BY ObservedType DEF Good, Record
<1>2. Becomes(r, RecordObservedAsBase(r, r.observed))
  BY <1>1, BaseQuiet DEF RecordObservedAsBase
<1> QED BY <1>1, <1>2, GoodKept DEF RecordObservedAsBase, Record

\* What the record decides of a lamp that came back (_return_decision).
LEMMA DecidedLeaves ==
  ASSUME NEW e, Fit(e), e.prev = Away, NEW shown
  PROVE  Leaves(e, Decided(e, DecideReturn(e.rec, shown)))
<1> DEFINE d == DecideReturn(e.rec, shown)
           settled == Settles(e)
           r == RecordObservedAsBase(settled.rec, settled.rec.observed)
           recorded == [settled EXCEPT !.rec = r]
<1>1. d \in {"send", "record", "nothing", "external", "wait"}
  BY DEF DecideReturn
<1>2. Leaves(e, settled)
  BY PartsLeave
<1> HIDE DEF d, settled
<1>3. Good(r) /\ r.observed = settled.rec.observed
  BY <1>2, BaseRecorded DEF Leaves, Fit
<1> HIDE DEF r
<1>4. Leaves(e, recorded)
  BY <1>2, <1>3, RecordLeaves, LeavesTransitive DEF Leaves
<1> HIDE DEF recorded
<1>5. Leaves(e, DropStale(recorded)) /\ Leaves(e, DropStale(settled))
  BY <1>2, <1>4, PartsLeave, LeavesTransitive DEF Leaves
<1>6. Leaves(e, Taken(settled, Everything, "device"))
  BY <1>2, PartsLeave, LeavesTransitive DEF Leaves
<1>7. Leaves(e, Send(e, "deferred")) /\ Leaves(e, e)
  BY PartsLeave
<1>8. /\ d = "send" => Decided(e, d) = Send(e, "deferred")
      /\ d = "record" => Decided(e, d) = DropStale(recorded)
      /\ d = "nothing" => Decided(e, d) = DropStale(settled)
      /\ d = "external" => Decided(e, d) = Taken(settled, Everything, "device")
      /\ d = "wait" => Decided(e, d) = e
  BY DEF Decided, settled, recorded, r
<1>9. Leaves(e, Decided(e, d))
  BY <1>1, <1>5, <1>6, <1>7, <1>8
<1> QED BY <1>9 DEF d

\* A lamp that came back (_judge_return).
LEMMA ReturnedLeaves ==
  ASSUME NEW e, Fit(e), e.prev = Away
  PROVE  Leaves(e, Returned(e))
<1> DEFINE decided == Decided(e, DecideReturn(e.rec, e.rec.observed))
           known == Known(decided)
<1>1. Leaves(e, decided)
  BY DecidedLeaves
<1> HIDE DEF decided
<1>2. Leaves(e, known)
  BY <1>1, PartsLeave, LeavesTransitive DEF Leaves
<1> HIDE DEF known
<1>3. Leaves(e, OffSeen(known))
  BY <1>2, PartsLeave, LeavesTransitive DEF Leaves
<1> QED BY <1>3 DEF Returned, known, decided

\* What ran out goes (expire), and the lamp shows what it showed.
LEMMA SweptLeaves ==
  ASSUME NEW e, Fit(e), e.prev = Away
  PROVE  Leaves(e, SweptOf(e))
<1> DEFINE r == Expire(e.rec, Shown(e.rec))
           swept == Swept(e.rec)
<1>1. e.rec \in Record /\ Shown(e.rec) \in Report
  BY DEF Fit, Good, Record, Shown
<1>2. Good(r)
  BY <1>1, ExpireQuiet, GoodKept DEF Fit
<1>3. swept \in Record
  BY <1>1, SweptQuiet DEF Becomes
<1>4. swept.observed = e.rec.observed
  BY <1>1 DEF Swept, LayersChanged, Record
<1> HIDE DEF swept
<1>5. r.observed = swept.observed
  BY <1>3 DEF Expire, Record, swept
<1> HIDE DEF r
<1>6. Leaves(e, [e EXCEPT !.rec = r])
  BY <1>2, <1>4, <1>5, RecordLeaves
<1> QED BY <1>6 DEF SweptOf, r

\* The expiry of a lamp, with the render it asks for (_expire_lamp).
LEMMA RanOutLeaves ==
  ASSUME NEW e, Fit(e), e.prev = Away
  PROVE  Leaves(e, RanOut(e))
<1>1. Leaves(e, SweptOf(e))
  BY SweptLeaves
<1>2. Leaves(e, Send(SweptOf(e), "deferred")) /\ Leaves(e, DropStale(SweptOf(e)))
  BY <1>1, PartsLeave, LeavesTransitive DEF Leaves
<1> QED BY <1>2 DEF RanOut

\* The end of the startup (_end_grace_lamp).
LEMMA LeftAloneLeaves ==
  ASSUME NEW e, Fit(e), e.prev = Away
  PROVE  Leaves(e, LeftAlone(e))
<1> DEFINE r == RecordObservedAsBase(e.rec, e.rec.observed)
           q == [r EXCEPT !.diverged = "none"]
<1>1. Leaves(e, Returned(e)) /\ Leaves(e, e) /\ Leaves(e, Taken(e, Everything, "device"))
  BY ReturnedLeaves, PartsLeave
<1>2. Leaves(e, [e EXCEPT !.rec.diverged = "unsynced"])
  BY OtherNotes, NoNotes DEF Leaves, Spares, Keeps
<1>3. Good(r) /\ r.observed = e.rec.observed
  BY BaseRecorded DEF Fit
<1> HIDE DEF r
<1>4. Good(q) /\ q.observed = e.rec.observed
  <2>1. Becomes(r, q)
    BY <1>3, NoNotes, DivergedQuiet DEF Good
  <2> QED BY <1>3, <2>1, GoodKept DEF Good, Record
<1> HIDE DEF q
<1>5. Leaves(e, [e EXCEPT !.rec = q])
  BY <1>4, RecordLeaves
<1>6. Leaves(e, Mismatched(e))
  BY <1>1, <1>2 DEF Mismatched
<1> QED BY <1>1, <1>5, <1>6 DEF LeftAlone, q, r

\* What ran out meanwhile, an owner's render, or the lamp on its own.
LEMMA StartedUpLeaves ==
  ASSUME NEW e, Fit(e), e.prev = Away
  PROVE  Leaves(e, StartedUp(e))
<1>1. Leaves(e, RanOut(e)) /\ Leaves(e, SweptOf(e))
  BY RanOutLeaves, SweptLeaves
<1>2. Leaves(e, LeftAlone(SweptOf(e)))
  BY <1>1, LeftAloneLeaves, LeavesTransitive DEF Leaves
<1> QED BY <1>1, <1>2 DEF StartedUp

\* The late re-check (late_recheck).
LEMMA RecheckedLeaves ==
  ASSUME NEW e, Fit(e), e.prev = Away, NEW cmd
  PROVE  Leaves(e, Rechecked(e, cmd))
<1> DEFINE again == [e EXCEPT !.retried = TRUE]
<1>1. Leaves(e, again)
  BY DEF Fit, Engine, Leaves
<1> HIDE DEF again
<1>2. Leaves(again, Send(again, "again"))
  BY <1>1, PartsLeave DEF Leaves
<1>3. Leaves(e, e)
  BY PartsLeave
<1> QED BY <1>1, <1>2, <1>3, LeavesTransitive DEF Rechecked, again

\* A set or a clear that changed the record (set_layer, clear_layer).
LEMMA CommandedFit ==
  ASSUME NEW e, Fit(e), e.prev = Away, NEW r, Good(r)
  PROVE  Fit(Commanded(e, r)) /\ Commanded(e, r).prev = Away
<1> DEFINE f == [e EXCEPT !.rec = r]
<1>1. Fit(f) /\ f.prev = Away
  BY OtherRecord
<1> HIDE DEF f
<1>2. Fit(Send(f, "owner")) /\ Send(f, "owner").prev = Away
  BY <1>1, NothingWaits
<1> QED BY <1>1, <1>2 DEF Commanded, f

\* What a call heard does at once.
LEMMA AfterCallFit ==
  ASSUME NEW e, Fit(e), e.prev = Away
  PROVE  /\ Fit(AfterCall(e)) /\ AfterCall(e).prev = Away
         /\ AfterCall(e).job = e.job
         /\ AfterCall(e).rec.observed = e.rec.observed
         /\ AfterCall(e).rec.atDrop = e.rec.atDrop
<1>1. /\ Fit(OffSeen(e)) /\ Spares(e, OffSeen(e))
      /\ OffSeen(e).rec.atDrop = e.rec.atDrop
  <2>1. OffSeen(e).rec = SeenOffIf(e.rec, e.rec.observed.state = "off")
    BY DEF OffSeen, Fit, Engine
  <2> QED BY <2>1, OffSeenFit, SeenOffShows DEF Fit, Good
<1>2. \A owed \in Owed : /\ Fit([e EXCEPT !.rec.owed = owed])
                         /\ Spares(e, [e EXCEPT !.rec.owed = owed])
                         /\ [e EXCEPT !.rec.owed = owed].rec.atDrop = e.rec.atDrop
  BY OtherNotes, NoNotes DEF Fit, Good, Engine, Record
<1> QED BY <1>1, <1>2, NoNotes DEF AfterCall, Spares, Keeps

-----------------------------------------------------------------------------
(* The actions *)

\* A step that leaves the engine fit, and what waits alone.
LEMMA StepHolds ==
  ASSUME IInv, NEW e, Fit(e), WaitsAlone(e), Steps(e),
         stamp' \in {"none", "ours", "call", "other"},
         answering' \in [cmd : Command, by : {"nobody", "ours", "call", "room"}],
         acts' \in 0..MaxActs, touched' \in BOOLEAN, claimed' \in BOOLEAN,
         moved' \in BOOLEAN
  PROVE  IInv' /\ (Alive(eng') => Alive(e))
<1>1. Fit(eng') /\ Spares(e, eng')
  BY StepsFit
<1>2. WaitsAlone(eng')
  BY <1>1, StillAlone
<1> QED BY <1>1, <1>2, KeepsTransitive DEF IInv, TypeOK, Fit

\* What is left alone keeps its type.
LEMMA OthersKeep ==
  ASSUME IInv
  PROVE  /\ UNCHANGED stamp => stamp' \in {"none", "ours", "call", "other"}
         /\ UNCHANGED answering =>
              answering' \in [cmd : Command, by : {"nobody", "ours", "call", "room"}]
         /\ answering' = Idle =>
              answering' \in [cmd : Command, by : {"nobody", "ours", "call", "room"}]
BY ConstantCommands DEF IInv, TypeOK, Idle

\* The engine is fit, and what waits waits alone.
LEMMA EngineFit ==
  ASSUME IInv
  PROVE  Fit(eng) /\ WaitsAlone(eng) /\ TypeOK
BY DEF IInv, Fit, TypeOK

\* The history is Boolean after a step that blames someone or nobody.
LEMMA Blamed ==
  ASSUME IInv, NEW someone \in BOOLEAN, Blame(someone)
  PROVE  touched' \in BOOLEAN /\ claimed' \in BOOLEAN /\ moved' \in BOOLEAN
BY EngineFit, BlameTypes

\* A set (set_layer).
LEMMA SetKeeps ==
  ASSUME IInv, NEW req \in Requests, SetLayer(req)
  PROVE  IInv'
<1> DEFINE flushed == Flush(eng)
           learnt == [flushed EXCEPT !.rec = LearnBase(@)]
           out == ApplySet(learnt.rec, req)
           skipped == [learnt EXCEPT !.rec = out.rec]
           e == IF out.result \in Skips THEN skipped ELSE Commanded(learnt, out.rec)
<1>1. Steps(e)
  BY DEF SetLayer
<1>2. Fit(flushed) /\ flushed.prev = Away
  BY EngineFit, FlushFit
<1> HIDE DEF flushed
<1>3. Good(LearnBase(flushed.rec))
  BY <1>2, LearnBaseQuiet, GoodKept DEF Fit, Good
<1>4. Fit(learnt) /\ learnt.prev = Away
  BY <1>2, <1>3, OtherRecord
<1> HIDE DEF learnt
<1>5. Good(out.rec)
  BY <1>4, ApplySetIsGood, EvidenceAssumption DEF Fit
<1> HIDE DEF out
<1>6. /\ Fit(skipped) /\ skipped.prev = Away
      /\ Fit(Commanded(learnt, out.rec)) /\ Commanded(learnt, out.rec).prev = Away
  BY <1>4, <1>5, OtherRecord, CommandedFit
<1> HIDE DEF skipped
<1>7. Fit(e) /\ WaitsAlone(e)
  BY <1>6 DEF WaitsAlone
<1> HIDE DEF e
<1> QED BY <1>1, <1>7, StepHolds, OthersKeep, Blamed, EngineFit, ActsTypes DEF SetLayer

\* A clear (clear_layer).
LEMMA ClearKeeps ==
  ASSUME IInv, NEW i, ClearLayer(i)
  PROVE  IInv'
<1> DEFINE flushed == Flush(eng)
           r == ApplyClear(flushed.rec, i)
           e == Commanded(flushed, r)
<1>1. Steps(e)
  BY DEF ClearLayer
<1>2. Fit(flushed) /\ flushed.prev = Away
  BY EngineFit, FlushFit
<1> HIDE DEF flushed
<1>3. Good(r)
  BY <1>2, ApplyClearQuiet, GoodKept DEF Fit, Good
<1> HIDE DEF r
<1>4. Fit(e) /\ WaitsAlone(e)
  BY <1>2, <1>3, CommandedFit DEF WaitsAlone
<1> HIDE DEF e
<1> QED BY <1>1, <1>4, StepHolds, OthersKeep, Blamed, EngineFit, ActsTypes DEF ClearLayer

\* What the lamp reports (_handle_state), and the history then.
LEMMA AppearsHolds ==
  ASSUME IInv, NEW o \in Reports, NEW ctx, NEW someone \in BOOLEAN,
         Appears(o, ctx, someone),
         stamp' \in {"none", "ours", "call", "other"},
         answering' \in [cmd : Command, by : {"nobody", "ours", "call", "room"}],
         acts' \in 0..MaxActs
  PROVE  IInv' /\ (eng.retried /\ Alive(eng') => Alive(eng))
<1> DEFINE e == Handled(eng, o, ctx)
           ours == Judge(eng, o, ctx).kind = "ours" \/ (claimed /\ eng'.prev # Away)
<1>1. Steps(e) /\ Noted(someone) /\ Claims(ours)
  BY DEF Appears
<1>2. Fit(e) /\ WaitsAlone(e) /\ (eng.retried => StartsNone(eng, e))
  BY EngineFit, HandledFit, EvidenceAssumption
<1>3. ours \in BOOLEAN
  OBVIOUS
<1> HIDE DEF e, ours
<1>4. touched' \in BOOLEAN /\ claimed' \in BOOLEAN /\ moved' \in BOOLEAN
  BY <1>1, <1>3, EngineFit, BlameTypes
<1> QED BY <1>1, <1>2, <1>4, StepHolds DEF StartsNone

\* The lamp answers a command.
LEMMA AnswerKeeps ==
  ASSUME IInv, NEW o \in Reports, Answer(o)
  PROVE  IInv' /\ (eng.retried /\ Alive(eng') => Alive(eng))
<1> DEFINE someone == answering.by # "ours"
<1>1. Appears(o, stamp, someone) /\ someone \in BOOLEAN
  BY DEF Answer
<1>2. answering' \in {answering, Idle}
  BY DEF Answer
<1> HIDE DEF someone
<1>3. answering' \in [cmd : Command, by : {"nobody", "ours", "call", "room"}]
  BY <1>2, OthersKeep
<1> QED BY <1>1, <1>3, AppearsHolds, OthersKeep, EngineFit, ActsTypes DEF Answer

\* Someone uses the lamp.
LEMMA PersonKeeps ==
  ASSUME IInv, NEW o \in Reports, NEW named \in BOOLEAN, Person(o, named)
  PROVE  IInv' /\ (eng.retried /\ Alive(eng') => Alive(eng))
<1> DEFINE ctx == IF named THEN "other" ELSE stamp
<1>1. Appears(o, ctx, TRUE) /\ stamp' = ctx /\ answering' = Idle /\ Acts
  BY DEF Person
<1>2. ctx \in {"none", "ours", "call", "other"}
  BY EngineFit DEF TypeOK
<1> HIDE DEF ctx
<1> QED BY <1>1, <1>2, AppearsHolds, OthersKeep, EngineFit, ActsTypes

\* The bridge undoes a command.
LEMMA RevertKeeps ==
  ASSUME IInv, NEW o \in Reports, BridgeReverts(o)
  PROVE  IInv' /\ (eng.retried /\ Alive(eng') => Alive(eng))
<1> DEFINE someone == eng.last.by # "ours" \/ eng.retried \/ Pending
<1>1. Appears(o, "none", someone) /\ answering' = Idle /\ UNCHANGED stamp /\ Acts
  BY DEF BridgeReverts
<1>2. someone \in BOOLEAN
  BY EngineFit DEF TypeOK, Engine, Pending
<1> HIDE DEF someone
<1> QED BY <1>1, <1>2, AppearsHolds, OthersKeep, EngineFit, ActsTypes

\* Any other value of its type.
LEMMA OtherFields ==
  ASSUME NEW e, Fit(e)
  PROVE  /\ \A j \in Job : /\ Fit([e EXCEPT !.job = j])
                           /\ Keeps(e, [e EXCEPT !.job = j])
         /\ \A c \in Command : /\ Fit([e EXCEPT !.named = c]) /\ Spares(e, [e EXCEPT !.named = c])
                               /\ Fit([e EXCEPT !.room = c]) /\ Spares(e, [e EXCEPT !.room = c])
                               /\ Fit([e EXCEPT !.late = c]) /\ Spares(e, [e EXCEPT !.late = c])
         /\ \A l \in LastCommand : /\ Fit([e EXCEPT !.last = l])
                                   /\ Spares(e, [e EXCEPT !.last = l])
BY DEF Fit, Engine, Spares, Keeps

\* A step that blames nobody, or someone, and leaves Home Assistant and the lamp
\* alone.
LEMMA QuietStep ==
  ASSUME IInv, NEW e, Fit(e), WaitsAlone(e), Steps(e), NEW someone \in BOOLEAN,
         Blame(someone), UNCHANGED stamp,
         UNCHANGED answering \/ answering' = Idle, Runs \/ Acts
  PROVE  IInv' /\ (Alive(eng') => Alive(e))
BY StepHolds, OthersKeep, Blamed, EngineFit, ActsTypes

\* The lamp reports nothing.
LEMMA SilentKeeps ==
  ASSUME IInv, Silent
  PROVE  IInv' /\ (eng.retried /\ Alive(eng') => Alive(eng))
<1>1. acts' \in 0..MaxActs
  BY EngineFit, ActsTypes DEF Silent
<1>2. answering' \in [cmd : Command, by : {"nobody", "ours", "call", "room"}]
  BY OthersKeep DEF Silent
<1> QED BY <1>1, <1>2 DEF Silent, IInv, TypeOK, WaitsAlone, Alive

\* The lamp drops out.
LEMMA DropKeeps ==
  ASSUME IInv, Drop
  PROVE  IInv' /\ (eng.retried /\ Alive(eng') => Alive(eng))
<1> DEFINE atDrop == IF eng.rec.atDrop = Away THEN eng.rec.observed ELSE eng.rec.atDrop
           r == [eng.rec EXCEPT !.observed = Away, !.atDrop = atDrop]
           f == [eng EXCEPT !.rec = r]
           e == [f EXCEPT !.prev = Away, !.timers = @ \ {"return"}]
<1>1. Fit(eng) /\ eng.rec \in Record
  BY EngineFit DEF Fit, Good
<1>2. atDrop \in Report
  BY <1>1 DEF Record
<1> HIDE DEF atDrop
<1>3. r \in Record /\ r.layers = eng.rec.layers /\ r.tombs = eng.rec.tombs
  BY <1>1, <1>2, ConstantCommands DEF Record
<1>4. Good(r)
  BY <1>1, <1>3, SameLayers, GoodKept DEF Fit
<1>5. Steps(e)
  <2>1. [eng EXCEPT !.rec.observed = Away,
                    !.rec.atDrop = IF @ = Away THEN eng.rec.observed ELSE @,
                    !.prev = Away, !.timers = @ \ {"return"}] = e
    BY <1>1 DEF Fit, Engine, Record, atDrop
  <2> HIDE DEF e
  <2> QED BY <2>1 DEF Drop
<1> HIDE DEF r
<1>6. Fit(f) /\ f.job = eng.job
  BY <1>1, <1>4, OtherRecord
<1> HIDE DEF f
<1>7. Fit(e) /\ e.prev = Away /\ e.job = eng.job
  BY <1>6, ConstantCommands DEF Fit, Engine
<1> HIDE DEF e
<1>8. WaitsAlone(e) /\ (Alive(e) => Alive(eng))
  BY <1>7 DEF WaitsAlone, Alive
<1> QED BY <1>5, <1>7, <1>8, QuietStep DEF Drop

\* The lamp comes back.
LEMMA ComeBackKeeps ==
  ASSUME IInv, NEW o \in Reports, ComeBack(o)
  PROVE  IInv' /\ (eng.retried /\ Alive(eng') => Alive(eng))
<1> DEFINE r == Showing(eng.rec, o)
           timers == IF "grace" \in eng.timers THEN eng.timers ELSE eng.timers \cup {"return"}
           f == [eng EXCEPT !.rec = r]
           e == [f EXCEPT !.timers = timers]
           someone == ~Close(o, eng.rec.atDrop)
<1>1. Fit(eng) /\ eng.prev = Away
  BY EngineFit DEF ComeBack, WaitsAlone
<1>2. Good(r)
  BY <1>1, ShowingQuiet, GoodKept, EvidenceAssumption DEF Fit, Good
<1>3. Steps(e) /\ Blame(someone) /\ someone \in BOOLEAN
  <2>1. [eng EXCEPT !.rec = Showing(@, o),
                    !.timers = IF "grace" \in @ THEN @ ELSE @ \cup {"return"}] = e
    BY <1>1 DEF Fit, Engine
  <2> HIDE DEF e
  <2> QED BY <2>1 DEF ComeBack, Close
<1> HIDE DEF r, someone
<1>4. Fit(f) /\ f.job = eng.job /\ f.prev = Away
  BY <1>1, <1>2, OtherRecord
<1>5. timers \in SUBSET {"return", "grace"}
  BY <1>1 DEF Fit, Engine
<1> HIDE DEF f, timers
<1>6. Fit(e) /\ e.prev = Away /\ e.job = eng.job
  BY <1>4, <1>5 DEF Fit, Engine
<1> HIDE DEF e
<1>7. WaitsAlone(e) /\ (Alive(e) => Alive(eng))
  BY <1>6 DEF WaitsAlone, Alive
<1> QED BY <1>3, <1>6, <1>7, QuietStep DEF ComeBack

\* The debounce ends.
LEMMA SettleKeeps ==
  ASSUME IInv, SettleDebounce
  PROVE  IInv' /\ (eng.retried /\ Alive(eng') => Alive(eng))
<1> DEFINE e == Settled(eng)
<1>1. Fit(e) /\ e.prev = Away /\ StartsNone(eng, e)
  BY EngineFit, SettledFit
<1>2. Steps(e)
  BY DEF SettleDebounce
<1> HIDE DEF e
<1>3. WaitsAlone(e)
  BY <1>1 DEF WaitsAlone
<1> QED BY <1>1, <1>2, <1>3, QuietStep DEF SettleDebounce, StartsNone

\* A timer of the lamp ends: nothing waits then.
LEMMA TimerFit ==
  ASSUME IInv, NEW timer \in eng.timers, NEW e, e = [eng EXCEPT !.timers = @ \ {timer}]
  PROVE  Fit(e) /\ e.prev = Away
BY EngineFit DEF Fit, Engine, WaitsAlone

\* A lamp that came back is judged.
LEMMA JudgeReturnKeeps ==
  ASSUME IInv, JudgeReturn
  PROVE  IInv'
<1> DEFINE settled == [eng EXCEPT !.timers = @ \ {"return"}]
           e == Returned(settled)
<1>1. Fit(settled) /\ settled.prev = Away
  BY TimerFit DEF JudgeReturn
<1>2. Steps(e)
  BY DEF JudgeReturn
<1> HIDE DEF settled
<1>3. Leaves(settled, e)
  BY <1>1, ReturnedLeaves
<1> HIDE DEF e
<1>4. Fit(e) /\ WaitsAlone(e)
  BY <1>3 DEF Leaves, WaitsAlone
<1> QED BY <1>2, <1>4, QuietStep DEF JudgeReturn

\* What ran out is removed.
LEMMA ExpireKeeps ==
  ASSUME IInv, ExpireLamp
  PROVE  IInv'
<1> DEFINE flushed == Flush(eng)
           e == RanOut(flushed)
<1>1. Fit(flushed) /\ flushed.prev = Away
  BY EngineFit, FlushFit
<1>2. Steps(e)
  BY DEF ExpireLamp
<1> HIDE DEF flushed
<1>3. Leaves(flushed, e)
  BY <1>1, RanOutLeaves
<1> HIDE DEF e
<1>4. Fit(e) /\ WaitsAlone(e)
  BY <1>3 DEF Leaves, WaitsAlone
<1> QED BY <1>2, <1>4, QuietStep DEF ExpireLamp

\* The startup is over.
LEMMA EndGraceKeeps ==
  ASSUME IInv, EndGrace
  PROVE  IInv'
<1> DEFINE settled == [eng EXCEPT !.timers = @ \ {"grace"}]
           started == StartedUp(settled)
           e == Known(started)
<1>1. Fit(settled) /\ settled.prev = Away
  BY TimerFit DEF EndGrace
<1>2. Steps(e)
  BY DEF EndGrace
<1> HIDE DEF settled
<1>3. Leaves(settled, started)
  BY <1>1, StartedUpLeaves
<1> HIDE DEF started
<1>4. Leaves(started, e)
  BY <1>3, PartsLeave DEF Leaves
<1> HIDE DEF e
<1>5. Fit(e) /\ WaitsAlone(e)
  BY <1>4 DEF Leaves, WaitsAlone
<1> QED BY <1>2, <1>5, QuietStep DEF EndGrace

\* A verified command is checked once more; a retry of it is spent only once.
LEMMA LateCheckKeeps ==
  ASSUME IInv, LateCheck
  PROVE  IInv' /\ (eng.retried /\ Alive(eng') => Alive(eng))
<1> DEFINE f == [eng EXCEPT !.late = Nothing]
           flushed == Flush(f)
           e == Rechecked(flushed, eng.late)
           given == \/ Alive(eng) \/ ~Available(eng.rec)
                    \/ eng.retried \/ "return" \in eng.timers
<1>1. Fit(f) /\ Spares(eng, f)
  BY EngineFit, OtherFields, ConstantCommands
<1>2. WaitsAlone(f) /\ (Alive(f) <=> Alive(eng))
  BY <1>1, EngineFit, StillAlone, KeepsTransitive
<1>3. Steps(IF given THEN f ELSE e)
  BY DEF LateCheck
<1>4. eng.retried => given
  OBVIOUS
<1> HIDE DEF f, given
<1>5. Fit(flushed) /\ flushed.prev = Away
  BY <1>1, FlushFit
<1> HIDE DEF flushed
<1>6. Leaves(flushed, e)
  BY <1>5, RecheckedLeaves
<1> HIDE DEF e
<1>7. Fit(e) /\ WaitsAlone(e)
  BY <1>6 DEF Leaves, WaitsAlone
<1>8. CASE given
  BY <1>1, <1>2, <1>3, <1>8, QuietStep DEF LateCheck
<1>9. CASE ~given
  BY <1>3, <1>4, <1>7, <1>9, QuietStep DEF LateCheck
<1> QED BY <1>8, <1>9

\* The last command is one, whoever sent it.
LEMMA LastTypes ==
  ASSUME NEW e, Fit(e), NEW cmd \in Command
  PROVE  /\ [by |-> "ours", target |-> cmd, from |-> OnOff(e.rec.observed),
             open |-> TRUE, arrived |-> "no"] \in LastCommand
         /\ NoteCommand(e.last, [by |-> "theirs", target |-> cmd,
                                 from |-> OnOff(e.rec.observed),
                                 open |-> TRUE, arrived |-> "no"]) \in LastCommand
         /\ Closed(e.last) \in LastCommand
         /\ [e.last EXCEPT !.arrived = "no"] \in LastCommand
         /\ [e.last EXCEPT !.arrived = "held"] \in LastCommand
         /\ NoCommandYet \in LastCommand
<1>1. e.last \in LastCommand /\ e.rec.observed \in Report
  BY DEF Fit, Engine, Good, Record
<1>2. OnOff(e.rec.observed) \in {"on", "off", "none"}
  BY <1>1 DEF OnOff, Report
<1> QED BY <1>1, <1>2, ConstantCommands DEF LastCommand, NoteCommand, Closed, NoCommandYet

\* A person's call (_on_call).
LEMMA CallKeeps ==
  ASSUME IInv, NEW cmd \in Calls, NEW room \in BOOLEAN, Call(cmd, room)
  PROVE  /\ IInv' /\ (eng.retried /\ Alive(eng') => Alive(eng))
         /\ eng'.rec.observed = eng.rec.observed
         /\ \/ Available(eng.rec) => eng'.rec.atDrop = Away
            \/ eng'.rec.atDrop = eng.rec.atDrop /\ eng'.timers = eng.timers
<1> DEFINE groups == (IF cmd.state = "off" THEN {} ELSE Groups(cmd) \cap AttrGroup)
                       \cup {"state"}
           last == NoteCommand(eng.last, [by |-> "theirs", target |-> cmd,
                                          from |-> OnOff(eng.rec.observed),
                                          open |-> TRUE, arrived |-> "no"])
           called == IF room \/ ~Available(eng.rec) THEN eng.named ELSE cmd
           roomed == IF room THEN cmd ELSE eng.room
           e1 == [eng EXCEPT !.last = last]
           e2 == [e1 EXCEPT !.named = called]
           noted == [e2 EXCEPT !.room = roomed]
           dropped == Dropped(noted)
           r == ApplyExternal(Supersede(dropped.rec), cmd, groups, "user", "take_back", {})
           taken == [dropped EXCEPT !.rec = r]
           e == IF IntentHeard(eng.rec, cmd) THEN AfterCall(taken) ELSE noted
<1>1. Fit(eng) /\ WaitsAlone(eng) /\ cmd \in Command
  BY EngineFit, EvidenceAssumption
<1>2. last \in LastCommand
  BY <1>1, LastTypes
<1>3. called \in Command /\ roomed \in Command
  BY <1>1 DEF Fit, Engine
<1>4. Steps(e)
  <2>1. noted = [eng EXCEPT
                   !.last = NoteCommand(@, [by |-> "theirs", target |-> cmd,
                                            from |-> OnOff(eng.rec.observed),
                                            open |-> TRUE, arrived |-> "no"]),
                   !.named = IF room \/ ~Available(eng.rec) THEN @ ELSE cmd,
                   !.room = IF room THEN cmd ELSE @]
    BY <1>1 DEF Fit, Engine
  <2> HIDE DEF noted
  <2> QED BY <2>1 DEF Call
<1>5. groups \in Take
  <2>1. (IF cmd.state = "off" THEN {} ELSE Groups(cmd) \cap AttrGroup) \in SUBSET AttrGroup
    OBVIOUS
  <2> QED BY <2>1, TakeTypes
<1>6. answering' \in [cmd : Command, by : {"nobody", "ours", "call", "room"}]
  BY <1>1, EngineFit DEF Call, TypeOK
<1>7. stamp' \in {"none", "ours", "call", "other"}
  BY EngineFit DEF Call, TypeOK
<1> HIDE DEF groups, last, called, roomed
<1>8. Fit(e1) /\ Spares(eng, e1) /\ e1.rec = eng.rec
  BY <1>1, <1>2, OtherFields DEF Fit, Engine
<1> HIDE DEF e1
<1>9. Fit(e2) /\ Spares(eng, e2) /\ e2.rec = eng.rec
  BY <1>3, <1>8, OtherFields, KeepsTransitive DEF Fit, Engine
<1> HIDE DEF e2
<1>10. Fit(noted) /\ Spares(eng, noted) /\ noted.rec = eng.rec
  BY <1>3, <1>9, OtherFields, KeepsTransitive DEF Fit, Engine
<1> HIDE DEF noted
<1>11. Fit(dropped) /\ ~Alive(dropped) /\ dropped.prev = Away /\ dropped.rec = eng.rec
  BY <1>10, DroppedFit
<1> HIDE DEF dropped
<1>12. /\ Good(r) /\ r.observed = eng.rec.observed
       /\ Available(eng.rec) => r.atDrop = Away
  <2>1. Becomes(dropped.rec, Supersede(dropped.rec))
    BY <1>11, SupersedeQuiet DEF Fit, Good
  <2>2. Becomes(Supersede(dropped.rec), r)
    BY <1>1, <1>5, <2>1, ApplyExternalQuiet, Sources DEF Becomes
  <2>3. /\ r.observed = Supersede(dropped.rec).observed
        /\ r.atDrop = Supersede(dropped.rec).atDrop
    BY <1>1, <1>5, <2>1, AppliedShows, Sources DEF Becomes
  <2>4. /\ Supersede(dropped.rec).observed = eng.rec.observed
        /\ Available(eng.rec) => Supersede(dropped.rec).atDrop = Away
    BY <1>11 DEF Supersede, Fit, Good, Record
  <2> HIDE DEF r
  <2> QED BY <1>11, <2>1, <2>2, <2>3, <2>4, QuietTransitive, GoodKept DEF Fit
<1> HIDE DEF r
<1>13. Fit(taken) /\ ~Alive(taken) /\ taken.prev = Away /\ taken.rec = r
  BY <1>11, <1>12, OtherRecord DEF Alive
<1> HIDE DEF taken
<1>14. /\ Fit(AfterCall(taken)) /\ ~Alive(AfterCall(taken)) /\ AfterCall(taken).prev = Away
       /\ AfterCall(taken).rec.observed = taken.rec.observed
       /\ AfterCall(taken).rec.atDrop = taken.rec.atDrop
  BY <1>13, AfterCallFit DEF Alive
<1>15. Fit(e) /\ WaitsAlone(e) /\ (Alive(e) => Alive(eng))
  BY <1>1, <1>10, <1>14, StillAlone, KeepsTransitive DEF WaitsAlone
<1>16. /\ e.rec.observed = eng.rec.observed
       /\ \/ Available(eng.rec) => e.rec.atDrop = Away
          \/ e.rec.atDrop = eng.rec.atDrop /\ e.timers = eng.timers
  BY <1>10, <1>12, <1>13, <1>14 DEF Spares, Keeps
<1> HIDE DEF e
<1>17. /\ eng'.rec.observed = e.rec.observed /\ eng'.rec.atDrop = e.rec.atDrop
       /\ eng'.timers = e.timers
  BY <1>4, <1>15, StepsFit DEF Spares, Keeps
<1>18. IInv' /\ (Alive(eng') => Alive(e))
  BY <1>4, <1>6, <1>7, <1>15, StepHolds, Blamed, EngineFit, ActsTypes DEF Call
<1> QED BY <1>15, <1>16, <1>17, <1>18

-----------------------------------------------------------------------------
(* Stopping and starting *)

\* A new record is good.
LEMMA NewRecordGood ==
  ASSUME NEW o \in Report
  PROVE  Good(NewRecord(o))
<1> DEFINE r == NewRecord(o)
<1>1. Forgotten \in External
  BY DEF Forgotten, External, Take, ChangeSource
<1>2. r \in Record
  BY <1>1, ConstantCommands, NoNotes DEF NewRecord, Record
<1>3. Live(r.layers) = {}
  BY DEF NewRecord, Live, Present
<1> HIDE DEF r
<1>4. Good(r)
  BY <1>2, <1>3 DEF Good, UniqueIn, BarredIn
<1> QED BY <1>4 DEF r

\* A lamp Layers meets for the first time.
LEMMA FreshFit ==
  ASSUME NEW o \in Report
  PROVE  Fit(Fresh(o)) /\ Fresh(o).prev = Away /\ ~Alive(Fresh(o))
<1> DEFINE r == NewRecord(o)
<1>1. Good(r)
  BY NewRecordGood
<1> HIDE DEF r
<1>2. NoCommandYet \in LastCommand /\ NoJob \in Job
  BY ConstantCommands DEF NoCommandYet, LastCommand, Job
<1>3. Fit([rec |-> r, job |-> NoJob, late |-> Nothing, retried |-> FALSE,
           last |-> NoCommandYet, named |-> Nothing, room |-> Nothing,
           prev |-> Away, timers |-> {"grace"}])
  BY <1>1, <1>2, ConstantCommands DEF Fit, Good, Engine
<1> QED BY <1>3 DEF Fresh, Alive, r

\* What the store gives back is good (load).
LEMMA LoadedFit ==
  ASSUME NEW e, Fit(e), NEW o \in Report
  PROVE  Fit(Loaded(e, o)) /\ Loaded(e, o).prev = Away /\ ~Alive(Loaded(e, o))
<1> DEFINE rec == Stored(e.rec)
           atDrop == IF rec.atDrop = Away THEN rec.observed ELSE rec.atDrop
           shown == Showing(rec, o)
           r == [shown EXCEPT !.atDrop = atDrop]
           last == IF rec = e.rec THEN [e.last EXCEPT !.arrived = "no"] ELSE NoCommandYet
           f == [Fresh(o) EXCEPT !.rec = r]
<1>1. Good(rec)
  BY NewRecordGood, ConstantCommands DEF Fit, Stored
<1> HIDE DEF rec
<1>2. last \in LastCommand
  BY LastTypes, ConstantCommands
<1>3. atDrop \in Report
  BY <1>1 DEF Good, Record
<1>4. Good(shown) /\ shown.atDrop = rec.atDrop
  BY <1>1, ShowingQuiet, GoodKept DEF Good, Showing, Record
<1>5. Loaded(e, o) = [f EXCEPT !.last = last]
  BY <1>4 DEF Loaded, Fresh, rec
<1> HIDE DEF shown, atDrop, last
<1>6. r \in Record /\ r.layers = shown.layers /\ r.tombs = shown.tombs
  BY <1>3, <1>4 DEF Good, Record
<1>7. Good(r)
  BY <1>4, <1>6, SameLayers, GoodKept DEF Good
<1> HIDE DEF r
<1>8. Fit(f) /\ f.prev = Away /\ ~Alive(f)
  BY <1>7, FreshFit, OtherRecord DEF Alive
<1> HIDE DEF f
<1>9. Fit([f EXCEPT !.last = last]) /\ Spares(f, [f EXCEPT !.last = last])
  BY <1>2, <1>8, OtherFields
<1> QED BY <1>5, <1>8, <1>9 DEF Spares, Keeps, Alive

\* The entry reloads.
LEMMA ReloadKeeps ==
  ASSUME IInv, Reload
  PROVE  IInv' /\ (eng.retried /\ Alive(eng') => Alive(eng))
<1> DEFINE loaded == Loaded(eng, eng.rec.observed)
           named == IF stamp = "ours" THEN eng.named ELSE loaded.named
           e == [loaded EXCEPT !.named = named]
<1>1. Fit(loaded) /\ loaded.prev = Away /\ ~Alive(loaded)
  BY EngineFit, LoadedFit DEF Fit, Good, Record
<1>2. Steps(e)
  BY DEF Reload, Reloaded
<1> HIDE DEF loaded
<1>3. named \in Command
  BY <1>1, EngineFit DEF Fit, Engine
<1> HIDE DEF named
<1>4. Fit(e) /\ Spares(loaded, e)
  BY <1>1, <1>3, OtherFields
<1> HIDE DEF e
<1>5. WaitsAlone(e) /\ ~Alive(e)
  BY <1>1, <1>4 DEF WaitsAlone, Spares, Keeps, Alive
<1> QED BY <1>2, <1>4, <1>5, QuietStep DEF Reload

\* Home Assistant restarts.
LEMMA RestartKeeps ==
  ASSUME IInv, NEW o \in Reports \cup {Away}, Restart(o)
  PROVE  IInv' /\ (eng.retried /\ Alive(eng') => Alive(eng))
<1> DEFINE e == Loaded(eng, o)
           was == Shown(eng.rec)
           used == \/ ~Close(o, was)
                   \/ Close(was, eng.rec.atDrop) /\ ~Close(o, eng.rec.atDrop)
           someone == o # Away /\ used
<1>1. o \in Report
  BY EvidenceAssumption, ConstantCommands
<1>2. Fit(e) /\ e.prev = Away /\ ~Alive(e)
  BY <1>1, EngineFit, LoadedFit
<1>3. Steps(e) /\ Blame(someone) /\ someone \in BOOLEAN
  BY DEF Restart
<1> HIDE DEF e, someone
<1>4. WaitsAlone(e)
  BY <1>2 DEF WaitsAlone
<1>5. stamp' \in {"none", "ours", "call", "other"}
  BY DEF Restart
<1> QED BY <1>2, <1>3, <1>4, <1>5, StepHolds, OthersKeep, Blamed, EngineFit, ActsTypes
        DEF Restart

-----------------------------------------------------------------------------
(* The render task *)

\* Nothing waits while the task runs.
LEMMA NothingBesideTask ==
  ASSUME IInv, eng.job.phase # "none"
  PROVE  /\ Fit(eng) /\ Alive(eng) /\ eng.prev = Away
         /\ eng.job \in [call : Command \ {Nothing}, phase : {"new", "sent", "again", "resent"}]
<1>1. Alive(eng)
  BY DEF Alive, NoJob
<1> QED BY <1>1, EngineFit DEF Fit, WaitsAlone, Engine, Job, Alive

\* A task that ended, with nothing owed.
LEMMA EndedFit ==
  ASSUME NEW e, Fit(e), e.prev = Away
  PROVE  /\ Fit(Ended(e)) /\ Ended(e).prev = Away
         /\ Fit(Settles(Ended(e))) /\ Settles(Ended(e)).prev = Away
<1>1. NoJob \in Job
  BY DEF Job
<1>2. Fit(Ended(e)) /\ Ended(e).prev = Away
  BY <1>1, OtherFields DEF Ended, Keeps
<1> QED BY <1>2, SettlesFit DEF Spares, Keeps

\* An attempt (_run).
LEMMA AttemptKeeps ==
  ASSUME IInv, Attempt
  PROVE  IInv' /\ (eng.retried /\ Alive(eng') => Alive(eng))
<1> DEFINE cmd == eng.job.call
           stale == eng.job.phase = "again" /\ Wanted(eng) # cmd
           reached == ~stale /\ Available(eng.rec)
           job == [eng.job EXCEPT !.phase = IF @ = "new" THEN "sent" ELSE "resent"]
           r == [eng.rec EXCEPT !.owed = "owed", !.last = Past(@)]
           named == IF reached THEN cmd ELSE eng.named
           last == [by |-> "ours", target |-> cmd, from |-> OnOff(eng.rec.observed),
                    open |-> TRUE, arrived |-> "no"]
           e1 == [eng EXCEPT !.job = job]
           e2 == [e1 EXCEPT !.rec = r]
           e3 == [e2 EXCEPT !.named = named]
           sent == [e3 EXCEPT !.last = last]
           over == Settles(Ended(eng))
           e == IF stale THEN over ELSE sent
<1>1. /\ Fit(eng) /\ Alive(eng) /\ eng.prev = Away /\ cmd \in Command
      /\ eng.job \in [call : Command \ {Nothing}, phase : {"new", "sent", "again", "resent"}]
  BY NothingBesideTask DEF Attempt
<1>2. Steps(e)
  <2>1. sent = [eng EXCEPT
                  !.job.phase = IF @ = "new" THEN "sent" ELSE "resent",
                  !.rec.owed = "owed", !.rec.last = Past(@),
                  !.named = IF reached THEN cmd ELSE @,
                  !.last = [by |-> "ours", target |-> cmd,
                            from |-> OnOff(eng.rec.observed),
                            open |-> TRUE, arrived |-> "no"]]
    BY <1>1 DEF Fit, Engine, Good, Record
  <2> HIDE DEF sent
  <2> QED BY <2>1 DEF Attempt
<1>3. job \in Job
  BY <1>1 DEF Job
<1>4. Good(r)
  <2>1. eng.rec \in Record
    BY <1>1 DEF Fit, Good
  <2>2. Past(eng.rec.last) \in External
    BY <2>1, PastType DEF Record
  <2>3. r \in Record /\ r.layers = eng.rec.layers /\ r.tombs = eng.rec.tombs
    BY <2>1, <2>2, NoNotes DEF Record
  <2> HIDE DEF r
  <2> QED BY <1>1, <2>1, <2>3, SameLayers, GoodKept DEF Fit
<1>5. last \in LastCommand
  BY <1>1, LastTypes
<1>6. /\ stamp' \in {"none", "ours", "call", "other"}
      /\ answering' \in [cmd : Command, by : {"nobody", "ours", "call", "room"}]
  BY <1>1, EngineFit DEF Attempt, TypeOK
<1>7. named \in Command
  BY <1>1 DEF Fit, Engine
<1> HIDE DEF job, r, named, last
<1>8. Fit(e1) /\ Keeps(eng, e1)
  BY <1>1, <1>3, OtherFields
<1> HIDE DEF e1
<1>9. Fit(e2) /\ e2.prev = Away
  BY <1>1, <1>4, <1>8, OtherRecord DEF Keeps
<1> HIDE DEF e2
<1>10. Fit(e3) /\ e3.prev = Away
  BY <1>7, <1>9, OtherFields DEF Spares, Keeps
<1> HIDE DEF e3
<1>11. Fit(sent) /\ sent.prev = Away
  BY <1>5, <1>10, OtherFields DEF Spares, Keeps
<1>12. Fit(over) /\ over.prev = Away
  BY <1>1, EndedFit
<1> HIDE DEF sent, over
<1>13. Fit(e) /\ WaitsAlone(e)
  BY <1>11, <1>12 DEF WaitsAlone
<1> HIDE DEF e
<1> QED BY <1>1, <1>2, <1>6, <1>13, StepHolds, Blamed, EngineFit, ActsTypes DEF Attempt

\* A read-back (_run).
LEMMA ReadBackKeeps ==
  ASSUME IInv, ReadBack
  PROVE  IInv' /\ (eng.retried /\ Alive(eng') => Alive(eng))
<1> DEFINE ended == Ended(eng)
           over == Settles(ended)
           sure == [over EXCEPT !.rec.diverged = "none"]
           verified == [sure EXCEPT !.late = eng.job.call]
           failed == [over EXCEPT !.rec.diverged = "delivery"]
           job == [eng.job EXCEPT !.phase = "again"]
           again == [eng EXCEPT !.job = job]
<1>1. /\ Fit(eng) /\ Alive(eng) /\ eng.prev = Away
      /\ eng.job \in [call : Command \ {Nothing}, phase : {"new", "sent", "again", "resent"}]
  BY NothingBesideTask DEF ReadBack
<1>2. /\ [over EXCEPT !.rec.diverged = "none", !.late = eng.job.call] = verified
      /\ [eng EXCEPT !.job.phase = "again"] = again
  BY <1>1 DEF Fit, Engine
<1>3. Fit(ended) /\ ended.prev = Away /\ Fit(over) /\ over.prev = Away
  BY <1>1, EndedFit
<1>4. Steps(ended) \/ Steps(over) \/ Steps(verified) \/ Steps(failed) \/ Steps(again)
  <2> HIDE DEF verified, again
  <2> QED BY <1>2 DEF ReadBack
<1> HIDE DEF ended, over
<1>5. Fit(sure) /\ sure.prev = Away /\ Fit(failed) /\ failed.prev = Away
  BY <1>3, OtherNotes, NoNotes DEF Spares, Keeps
<1> HIDE DEF sure, failed
<1>6. Fit(verified) /\ verified.prev = Away
  BY <1>1, <1>5, OtherFields DEF Spares, Keeps
<1>7. job \in Job
  BY <1>1 DEF Job
<1> HIDE DEF job, verified
<1>8. Fit(again) /\ again.prev = Away
  BY <1>1, <1>7, OtherFields DEF Keeps
<1> HIDE DEF again
<1>9. PICK e : Steps(e) /\ Fit(e) /\ e.prev = Away
  BY <1>3, <1>4, <1>5, <1>6, <1>8
<1>10. WaitsAlone(e)
  BY <1>9 DEF WaitsAlone
<1> QED BY <1>1, <1>9, <1>10, QuietStep DEF ReadBack

-----------------------------------------------------------------------------
(* Time *)

\* A window closes.
LEMMA WindowKeeps ==
  ASSUME IInv, WindowCloses
  PROVE  IInv' /\ (eng.retried /\ Alive(eng') => Alive(eng))
<1> DEFINE named == [eng EXCEPT !.named = Nothing]
           roomed == [eng EXCEPT !.room = Nothing]
           closed == [eng EXCEPT !.last = Closed(eng.last)]
           held == [eng EXCEPT !.last = [eng.last EXCEPT !.arrived = "held"]]
<1>1. Fit(eng) /\ WaitsAlone(eng)
  BY EngineFit
<1>2. /\ [eng EXCEPT !.last.arrived = "held"] = held
      /\ [eng EXCEPT !.last = Closed(@)] = closed
  BY <1>1 DEF Fit, Engine
<1>3. Steps(named) \/ Steps(roomed) \/ Steps(closed) \/ Steps(held)
  <2> HIDE DEF held, closed
  <2> QED BY <1>2 DEF WindowCloses
<1>4. \A f \in {named, roomed, closed, held} : Fit(f) /\ Spares(eng, f)
  <2>1. Closed(eng.last) \in LastCommand /\ [eng.last EXCEPT !.arrived = "held"] \in LastCommand
    BY <1>1, LastTypes, ConstantCommands
  <2>2. Fit(closed) /\ Spares(eng, closed) /\ Fit(held) /\ Spares(eng, held)
    BY <1>1, <2>1, OtherFields
  <2>3. Fit(named) /\ Spares(eng, named) /\ Fit(roomed) /\ Spares(eng, roomed)
    BY <1>1, OtherFields, ConstantCommands
  <2> HIDE DEF named, roomed, closed, held
  <2> QED BY <2>2, <2>3
<1> HIDE DEF named, roomed, closed, held
<1>5. PICK e : Steps(e) /\ Fit(e) /\ Spares(eng, e)
  BY <1>3, <1>4
<1>6. WaitsAlone(e) /\ (Alive(e) => Alive(eng))
  BY <1>1, <1>5, StillAlone, KeepsTransitive
<1>7. stamp' \in {"none", "ours", "call", "other"}
  BY OthersKeep DEF WindowCloses
<1> QED BY <1>5, <1>6, <1>7, StepHolds, OthersKeep, Blamed, EngineFit, ActsTypes
        DEF WindowCloses

\* A lease that is over leaves a good record good.
LEMMA LeaseOver ==
  ASSUME NEW r, Good(r), NEW i \in Id
  PROVE  /\ Present(r.layers, i) =>
              /\ Good([r EXCEPT !.layers[i].lease = "over"])
              /\ [r EXCEPT !.layers[i].lease = "over"].observed = r.observed
         /\ r.tombs[i] # NoTomb =>
              /\ Good([r EXCEPT !.tombs[i].lease = "over"])
              /\ [r EXCEPT !.tombs[i].lease = "over"].observed = r.observed
<1>1. /\ r \in Record
      /\ r.layers \in [Id -> Layer \cup {NoLayer}]
      /\ r.tombs \in [Id -> Tomb \cup {NoTomb}]
  BY DEF Good, Record
<1>2. ASSUME Present(r.layers, i)
      PROVE  /\ Good([r EXCEPT !.layers[i].lease = "over"])
             /\ [r EXCEPT !.layers[i].lease = "over"].observed = r.observed
  <2> DEFINE lay == [r.layers[i] EXCEPT !.lease = "over"]
             layers == [r.layers EXCEPT ![i] = lay]
             q == [r EXCEPT !.layers = layers]
  <2>1. r.layers[i] \in Layer
    BY <1>1, <1>2 DEF Present
  <2>2. lay \in Layer /\ lay.prio = r.layers[i].prio /\ lay.lease = "over"
    BY <2>1 DEF Layer, Lease
  <2>3. [r EXCEPT !.layers[i].lease = "over"] = q
    BY <1>1 DEF Record
  <2> HIDE DEF lay
  <2>4. layers \in [Id -> Layer \cup {NoLayer}]
    BY <1>1, <2>2
  <2>5. \A j \in Id : layers[j] # NoLayer =>
          /\ r.layers[j] # NoLayer
          /\ layers[j].prio = r.layers[j].prio
          /\ layers[j].lease \in {r.layers[j].lease, "over"}
    BY <1>1, <1>2, <2>2 DEF Present
  <2>6. q.observed = r.observed
    BY <1>1 DEF Record
  <2> HIDE DEF layers
  <2>7. Becomes(r, q)
    BY <1>1, <2>4, <2>5, EditedLayers
  <2> HIDE DEF q
  <2> QED BY <2>3, <2>6, <2>7, GoodKept
<1>3. ASSUME r.tombs[i] # NoTomb
      PROVE  /\ Good([r EXCEPT !.tombs[i].lease = "over"])
             /\ [r EXCEPT !.tombs[i].lease = "over"].observed = r.observed
  <2> DEFINE q == [r EXCEPT !.tombs[i].lease = "over"]
  <2>1. r.tombs[i] \in Tomb
    BY <1>1, <1>3
  <2>2. [r.tombs[i] EXCEPT !.lease = "over"] \in Tomb
    BY <2>1 DEF Tomb, Lease
  <2>3. q \in Record
    BY <1>1, <2>2 DEF Record
  <2>4. q.layers = r.layers /\ q.observed = r.observed
    BY <1>1 DEF Record
  <2>5. \A j \in Id : LiveTomb(q, j) => LiveTomb(r, j)
    BY <1>1, <2>1 DEF LiveTomb, Record, Tomb
  <2> HIDE DEF q
  <2>6. Becomes(r, q)
    BY <2>3, <2>4, <2>5 DEF Becomes, Quiet, Live
  <2>7. Good(q) /\ q.observed = r.observed
    BY <2>4, <2>6, GoodKept
  <2> QED BY <2>7 DEF q
<1> QED BY <1>2, <1>3

\* A step that only changes the record, of a lamp that shows what it showed.
LEMMA RecordStep ==
  ASSUME IInv, NEW r, Good(r), r.observed = eng.rec.observed,
         Steps([eng EXCEPT !.rec = r]), Blame(FALSE),
         UNCHANGED <<stamp, answering>>, Runs
  PROVE  IInv' /\ (eng.retried /\ Alive(eng') => Alive(eng))
<1> DEFINE e == [eng EXCEPT !.rec = r]
<1>1. Fit(e) /\ Spares(eng, e)
  BY EngineFit, OtherRecord
<1>2. Steps(e)
  OBVIOUS
<1> HIDE DEF e
<1>3. WaitsAlone(e) /\ (Alive(e) => Alive(eng))
  BY <1>1, EngineFit, StillAlone, KeepsTransitive
<1> QED BY <1>1, <1>2, <1>3, QuietStep

\* A lease ends.
LEMMA RunOutKeeps ==
  ASSUME IInv, NEW i \in Id, RunOut(i)
  PROVE  IInv' /\ (eng.retried /\ Alive(eng') => Alive(eng))
<1> DEFINE p == [eng.rec EXCEPT !.layers[i].lease = "over"]
           q == [eng.rec EXCEPT !.tombs[i].lease = "over"]
<1>1. Fit(eng)
  BY EngineFit
<1>2. /\ Present(eng.rec.layers, i) => Good(p) /\ p.observed = eng.rec.observed
      /\ eng.rec.tombs[i] # NoTomb => Good(q) /\ q.observed = eng.rec.observed
  BY <1>1, LeaseOver DEF Fit
<1>3. /\ [eng EXCEPT !.rec.layers[i].lease = "over"] = [eng EXCEPT !.rec = p]
      /\ [eng EXCEPT !.rec.tombs[i].lease = "over"] = [eng EXCEPT !.rec = q]
  BY <1>1 DEF Fit, Engine
<1> HIDE DEF p, q
<1>4. \/ Present(eng.rec.layers, i) /\ Steps([eng EXCEPT !.rec = p])
      \/ eng.rec.tombs[i] # NoTomb /\ Steps([eng EXCEPT !.rec = q])
  BY <1>3 DEF RunOut
<1>5. Blame(FALSE) /\ UNCHANGED <<stamp, answering>> /\ Runs
  BY DEF RunOut
<1>6. CASE Present(eng.rec.layers, i) /\ Steps([eng EXCEPT !.rec = p])
  BY <1>2, <1>5, <1>6, RecordStep
<1>7. CASE eng.rec.tombs[i] # NoTomb /\ Steps([eng EXCEPT !.rec = q])
  BY <1>2, <1>5, <1>7, RecordStep
<1> QED BY <1>4, <1>6, <1>7

\* What nobody asks about any more is forgotten.
LEMMA ForgetKeeps ==
  ASSUME IInv, Forget
  PROVE  IInv' /\ (eng.retried /\ Alive(eng') => Alive(eng))
<1> DEFINE p == [eng.rec EXCEPT !.last = Forgotten]
           q == [eng.rec EXCEPT !.owed = "old"]
<1>1. Fit(eng) /\ eng.rec \in Record
  BY EngineFit DEF Fit, Good
<1>2. Forgotten \in External
  BY DEF Forgotten, External, Take, ChangeSource
<1>3. /\ p \in Record /\ p.layers = eng.rec.layers /\ p.tombs = eng.rec.tombs
      /\ p.observed = eng.rec.observed
      /\ q \in Record /\ q.layers = eng.rec.layers /\ q.tombs = eng.rec.tombs
      /\ q.observed = eng.rec.observed
  BY <1>1, <1>2, NoNotes DEF Record
<1>4. /\ [eng EXCEPT !.rec.last = Forgotten] = [eng EXCEPT !.rec = p]
      /\ [eng EXCEPT !.rec.owed = "old"] = [eng EXCEPT !.rec = q]
  BY <1>1 DEF Fit, Engine
<1> HIDE DEF p, q
<1>5. Good(p) /\ Good(q)
  BY <1>1, <1>3, SameLayers, GoodKept DEF Fit
<1>6. Steps([eng EXCEPT !.rec = p]) \/ Steps([eng EXCEPT !.rec = q])
  BY <1>4 DEF Forget
<1>7. Blame(FALSE) /\ UNCHANGED <<stamp, answering>> /\ Runs
  BY DEF Forget
<1>8. CASE Steps([eng EXCEPT !.rec = p])
  BY <1>3, <1>5, <1>7, <1>8, RecordStep
<1>9. CASE Steps([eng EXCEPT !.rec = q])
  BY <1>3, <1>5, <1>7, <1>9, RecordStep
<1> QED BY <1>6, <1>8, <1>9

-----------------------------------------------------------------------------
(* The theorems *)

\* A lamp Layers meets for the first time satisfies the invariant.
LEMMA InitHolds == Init => IInv
<1> SUFFICES ASSUME Init PROVE IInv
  OBVIOUS
<1>1. PICK o \in Reports : eng = Fresh(o)
  BY DEF Init
<1>2. Fit(eng) /\ eng.prev = Away
  BY <1>1, FreshFit, EvidenceAssumption
<1>3. /\ stamp \in {"none", "ours", "call", "other"}
      /\ answering \in [cmd : Command, by : {"nobody", "ours", "call", "room"}]
  BY ConstantCommands DEF Init, Idle
<1>4. acts \in 0..MaxActs
  BY EvidenceAssumption DEF Init
<1>5. touched \in BOOLEAN /\ claimed \in BOOLEAN /\ moved \in BOOLEAN
  BY DEF Init
<1> QED BY <1>2, <1>3, <1>4, <1>5 DEF IInv, TypeOK, Fit, WaitsAlone

\* The steps that start a render over a spent retry: an owner's, and those of the
\* record's timers.
MaySend == Owner \/ ExpireLamp \/ JudgeReturn \/ EndGrace

\* Every step keeps the invariant, and no other step starts a render again.
LEMMA StepKeeps ==
  ASSUME IInv, [Next]_vars
  PROVE  IInv' /\ (eng.retried /\ Alive(eng') => Alive(eng) \/ MaySend)
<1>1. CASE Owner
  BY <1>1, SetKeeps, ClearKeeps DEF Owner, MaySend
<1>2. CASE Someone
  BY <1>2, PersonKeeps, CallKeeps DEF Someone
<1>3. CASE World
  BY <1>3, AnswerKeeps, SilentKeeps, RevertKeeps, DropKeeps, ComeBackKeeps,
     ReloadKeeps, RestartKeeps DEF World
<1>4. CASE Timers
  BY <1>4, SettleKeeps, JudgeReturnKeeps, ExpireKeeps, EndGraceKeeps, LateCheckKeeps
     DEF Timers, MaySend
<1>5. CASE Clock
  BY <1>5, WindowKeeps, ForgetKeeps, RunOutKeeps DEF Clock
<1>6. CASE Task
  BY <1>6, AttemptKeeps, ReadBackKeeps DEF Task
<1>7. CASE UNCHANGED vars
  BY <1>7 DEF vars, IInv, TypeOK, WaitsAlone, Alive
<1> QED BY <1>1, <1>2, <1>3, <1>4, <1>5, <1>6, <1>7 DEF Next

\* Whatever is reported, called, sent, lost or restarted, what the engine knows of
\* the lamp is well-formed, its stack is in order, and a change that waits to be
\* judged waits alone.
THEOREM Invariance == Spec => []IInv
<1>1. IInv /\ [Next]_vars => IInv'
  BY StepKeeps
<1> QED BY InitHolds, <1>1, PTL DEF Spec

\* Every handler leaves what the engine knows well-typed.
THEOREM TypeCorrect == Spec => []TypeOK
<1>1. IInv => TypeOK
  BY DEF IInv
<1> QED BY Invariance, <1>1, PTL

\* No render is on its way to a lamp while a change of it waits to be judged
\* (_flush_debounce before everything that sends).
THEOREM NothingIsSentOver == Spec => []NotSentOver
<1>1. IInv => NotSentOver
  BY DEF IInv, WaitsAlone, NotSentOver
<1> QED BY Invariance, <1>1, PTL

\* Once its retry is spent, a command is sent again only by an owner or by a timer
\* of the record: Layers and a bridge do not undo each other for ever.
THEOREM NoFight == Spec => RetriedOnce
<1>1. IInv /\ [Next]_vars =>
        [~Alive(eng) /\ Alive(eng') /\ eng.retried
           => Owner \/ ExpireLamp \/ JudgeReturn \/ EndGrace]_vars
  BY StepKeeps DEF MaySend
<1> QED BY Invariance, <1>1, PTL DEF Spec, RetriedOnce

-----------------------------------------------------------------------------
(* What a handler takes from owners, and what it learns of who acted *)

\* From e to f nothing more is known of who acted: what waits, a room's call and
\* what the lamp showed when it dropped are as they were, or out of date.
LearnsNothing(e, f) ==
  /\ f.prev \in {e.prev, Away} /\ f.room \in {e.room, Nothing}
  /\ f.named = e.named /\ f.last = e.last
  /\ SameSight(e.rec, f.rec)
  /\ f.timers = e.timers \/ (Available(e.rec) => f.rec.atDrop = Away)

\* Besides, no layer in force goes.
TakesNone(e, f) ==
  LearnsNothing(e, f) /\ Live(e.rec.layers) \subseteq Live(f.rec.layers)

\* Two parts in a row.
LEMMA TakesTransitive ==
  ASSUME NEW e, NEW f, NEW g
  PROVE  /\ LearnsNothing(e, f) /\ LearnsNothing(f, g) => LearnsNothing(e, g)
         /\ TakesNone(e, f) /\ TakesNone(f, g) => TakesNone(e, g)
         /\ TakesNone(e, e)
         /\ TakesNone(e, f) => LearnsNothing(e, f)
BY DEF LearnsNothing, TakesNone, SameSight, Available

\* Another record, with the same layers in force or others besides.
LEMMA RecordTakes ==
  ASSUME NEW e, Fit(e), NEW r
  PROVE  /\ Retains(e.rec, r) => TakesNone(e, [e EXCEPT !.rec = r])
         /\ SameSight(e.rec, r) => LearnsNothing(e, [e EXCEPT !.rec = r])
BY DEF Fit, Engine, TakesNone, LearnsNothing, Retains

\* What is owed or diverged, the task and its re-check say nothing of it.
LEMMA FieldsTake ==
  ASSUME NEW e, Fit(e), NEW x
  PROVE  /\ TakesNone(e, [e EXCEPT !.rec.owed = x])
         /\ TakesNone(e, [e EXCEPT !.rec.diverged = x])
         /\ TakesNone(e, [e EXCEPT !.job = x])
         /\ TakesNone(e, [e EXCEPT !.late = x])
         /\ TakesNone(e, [e EXCEPT !.retried = x])
         /\ TakesNone(e, [e EXCEPT !.room = Nothing])
         /\ TakesNone(e, [e EXCEPT !.prev = Away])
BY DEF Fit, Good, Engine, Record, TakesNone, LearnsNothing, SameSight

\* Cancelling and settling (Renderer.cancel).
LEMMA CancelTakes ==
  ASSUME NEW e, Fit(e)
  PROVE  TakesNone(e, Cancel(e)) /\ TakesNone(e, Settles(e)) /\ TakesNone(e, Settles(Cancel(e)))
<1> DEFINE stopped == [e EXCEPT !.job = NoJob]
<1>1. NoJob \in Job
  BY DEF Job
<1>2. Fit(stopped) /\ TakesNone(e, stopped)
  BY <1>1, OtherFields, FieldsTake
<1>3. Cancel(e) = [stopped EXCEPT !.late = Nothing]
  BY DEF Cancel, Fit, Engine
<1> HIDE DEF stopped
<1>4. TakesNone(e, Cancel(e))
  BY <1>2, <1>3, FieldsTake, TakesTransitive
<1>5. TakesNone(e, Settles(e)) /\ TakesNone(Cancel(e), Settles(Cancel(e)))
  BY CancelFit, FieldsTake DEF Settles
<1> QED BY <1>4, <1>5, TakesTransitive

\* Starting a render (Renderer.start).
LEMMA StartTakes ==
  ASSUME NEW e, Fit(e), ~Unknown(e)
  PROVE  TakesNone(e, Start(e))
<1> DEFINE stopped == Cancel(e)
           job == [call |-> Wanted(e), phase |-> "new"]
           begun == [stopped EXCEPT !.job = job]
<1>1. Fit(stopped) /\ TakesNone(e, stopped)
  BY CancelFit, CancelTakes
<1>2. job \in Job
  BY WantedType DEF Unknown, Job, Fit
<1> HIDE DEF stopped, job
<1>3. Fit(begun) /\ TakesNone(stopped, begun)
  BY <1>1, <1>2, OtherFields, FieldsTake
<1>4. [stopped EXCEPT !.job = job, !.rec.owed = "owed"] = [begun EXCEPT !.rec.owed = "owed"]
  BY <1>1 DEF begun, Fit, Engine
<1> HIDE DEF begun
<1>5. TakesNone(begun, [begun EXCEPT !.rec.owed = "owed"])
  BY <1>3, FieldsTake
<1>6. Start(e) \in {e, [begun EXCEPT !.rec.owed = "owed"]}
  BY <1>4 DEF Start, stopped, job
<1> QED BY <1>1, <1>3, <1>5, <1>6, TakesTransitive

\* _render.
LEMMA SendTakes ==
  ASSUME NEW e, Fit(e), NEW reason
  PROVE  TakesNone(e, Send(e, reason))
<1> DEFINE quiet == Settles(Cancel(e))
           lifted == IF e.rec.diverged \in {"manual_keep", "unsynced"}
                     THEN [e EXCEPT !.rec.diverged = "none"] ELSE e
           stopped == Cancel(lifted)
           still == lifted.retried /\ reason = "again"
           apart == [lifted EXCEPT !.retried = still]
           ready == [apart EXCEPT !.room = Nothing]
<1>1. Fit(quiet) /\ TakesNone(e, Settles(e)) /\ TakesNone(e, quiet)
  BY CancelFit, SettlesFit, CancelTakes
<1>2. /\ Fit(lifted) /\ TakesNone(e, lifted)
      /\ lifted.rec.base = e.rec.base /\ lifted.rec.layers = e.rec.layers
  <2>1. [e EXCEPT !.rec.diverged = "none"].rec.base = e.rec.base
        /\ [e EXCEPT !.rec.diverged = "none"].rec.layers = e.rec.layers
    BY DEF Fit, Good, Engine, Record
  <2>2. Fit([e EXCEPT !.rec.diverged = "none"]) /\ TakesNone(e, [e EXCEPT !.rec.diverged = "none"])
    BY OtherNotes, NoNotes, FieldsTake
  <2> QED BY <2>1, <2>2, TakesTransitive
<1>3. [lifted EXCEPT !.retried = @ /\ reason = "again", !.room = Nothing] = ready
  BY <1>2 DEF Fit, Engine
<1> HIDE DEF quiet, lifted
<1>4. TakesNone(e, [quiet EXCEPT !.rec.diverged = "none"])
  BY <1>1, FieldsTake, TakesTransitive
<1>5. Fit(stopped) /\ TakesNone(e, stopped)
  BY <1>2, CancelFit, CancelTakes, TakesTransitive
<1>6. still \in BOOLEAN
  OBVIOUS
<1> HIDE DEF stopped, still
<1>7. TakesNone(e, [stopped EXCEPT !.rec.owed = "owed"])
  BY <1>5, FieldsTake, TakesTransitive
<1>8. Fit(apart) /\ TakesNone(e, apart) /\ apart.rec = lifted.rec
  <2>1. Fit(apart) /\ apart.rec = lifted.rec
    BY <1>2, <1>6 DEF Fit, Engine
  <2> QED BY <1>2, <2>1, FieldsTake, TakesTransitive
<1> HIDE DEF apart
<1>9. Fit(ready) /\ TakesNone(e, ready) /\ ready.rec = lifted.rec
  <2>1. Fit(ready) /\ ready.rec = lifted.rec
    BY <1>8, ConstantCommands DEF Fit, Engine
  <2> QED BY <1>8, <2>1, FieldsTake, TakesTransitive
<1>10. Unknown(ready) <=> Unknown(e)
  BY <1>2, <1>9 DEF Unknown, Wanted, EffectiveNow
<1> HIDE DEF ready
<1>11. ~Unknown(e) => TakesNone(e, Start(ready))
  BY <1>9, <1>10, StartTakes, TakesTransitive
<1>12. Send(e, reason) \in {Settles(e), quiet, [quiet EXCEPT !.rec.diverged = "none"],
                            [stopped EXCEPT !.rec.owed = "owed"]}
       \/ (~Unknown(e) /\ Send(e, reason) = Start(ready))
  BY <1>3 DEF Send, quiet, lifted, stopped
<1> QED BY <1>1, <1>4, <1>7, <1>11, <1>12

\* Dropping a render that is out of date (_drop_stale_render).
LEMMA DropStaleTakes ==
  ASSUME NEW e, Fit(e)
  PROVE  TakesNone(e, DropStale(e))
BY CancelTakes, TakesTransitive DEF DropStale

\* Two records in a row.
LEMMA RetainsTransitive ==
  ASSUME NEW p, NEW q, NEW r, Retains(p, q), Retains(q, r)
  PROVE  Retains(p, r)
BY DEF Retains, SameSight

\* What the lamp showed when it dropped is out of date; the lamp is off; what it
\* shows is its base.
LEMMA PartsRetain ==
  ASSUME NEW r \in Record, NEW off
  PROVE  /\ Retains(r, Supersede(r)) /\ Retains(r, SeenOffIf(r, off))
         /\ \A b : Retains(r, [r EXCEPT !.base = b])
         /\ Retains(r, LearnBase(r))
<1>1. Retains(r, Supersede(r))
  BY DEF Supersede, Retains, SameSight, Record
<1>2. Live(r.layers) \subseteq Live(SeenOffIf(r, off).layers)
  <2>1. \A i \in Id : Stand(SeenOffIf(r, off), i) \in {Stand(r, i), "free"}
    BY SeenOffLifts DEF Lifts
  <2>2. \A i \in Id : i \in Live(r.layers) => Stand(SeenOffIf(r, off), i) = Stand(r, i)
    BY SeenOffLifts DEF Lifts, Stand
  <2>3. \A q : \A i \in Id : i \in Live(q.layers) <=> Stand(q, i) \in {"held", "following"}
    BY DEF Stand
  <2> QED BY <2>2, <2>3 DEF Live
<1>3. Retains(r, SeenOffIf(r, off))
  BY <1>2, SeenOffShows DEF Retains, SameSight
<1>4. \A b : Retains(r, [r EXCEPT !.base = b])
  BY DEF Retains, SameSight, Record
<1>5. Retains(r, LearnBase(r))
  BY <1>4, RetainsReflexive DEF LearnBase, RecordObservedAsBase
<1> QED BY <1>1, <1>3, <1>4, <1>5

\* What ran out goes, nothing else (expire).
LEMMA ExpireRetains ==
  ASSUME NEW r \in Record, NEW shown
  PROVE  Retains(r, Expire(r, shown))
<1> DEFINE swept == Swept(r)
<1>1. /\ swept.observed = r.observed /\ swept.atDrop = r.atDrop
      /\ \A i \in Id : i \notin Expired(r) => swept.layers[i] = r.layers[i]
  BY DEF Swept, LayersChanged, Record
<1>2. swept \in Record
  BY SweptQuiet DEF Becomes
<1> HIDE DEF swept
<1>3. Retains(r, swept)
  BY <1>1 DEF Retains, SameSight, Live, Present, Expired
<1>4. Retains(swept, Expire(r, shown))
  BY <1>2, PartsRetain DEF Expire, swept
<1> QED BY <1>3, <1>4, RetainsTransitive

\* Someone is given the lamp (_external): nothing is learnt of who acted.
LEMMA TakenTakes ==
  ASSUME NEW e, Fit(e), NEW groups \in Take, NEW source \in ChangeSource
  PROVE  LearnsNothing(e, Taken(e, groups, source))
<1> DEFINE stopped == Cancel(e)
           dropped == Dropped(e)
           judged == Judged(dropped.rec, groups, source, "take_back", {})
           f == [dropped EXCEPT !.rec = judged]
<1>1. Fit(stopped) /\ TakesNone(e, stopped) /\ stopped.rec = e.rec
  BY CancelFit, CancelTakes
<1>2. dropped = [stopped EXCEPT !.prev = Away, !.timers = @ \ {"return"}]
  BY DEF Dropped
<1> HIDE DEF stopped
<1>3. /\ dropped.prev = Away /\ dropped.room = stopped.room /\ dropped.named = stopped.named
      /\ dropped.last = stopped.last /\ dropped.rec = e.rec
  BY <1>1, <1>2 DEF Fit, Engine
<1>4. Fit(dropped)
  BY DroppedFit
<1> HIDE DEF dropped
<1>5. judged.observed = dropped.rec.observed /\ judged.atDrop = Supersede(dropped.rec).atDrop
  BY <1>4, JudgedShows DEF Fit, Good
<1> HIDE DEF judged
<1>6. /\ f.rec = judged /\ f.prev = Away /\ f.room = dropped.room /\ f.named = dropped.named
      /\ f.last = dropped.last
  BY <1>3, <1>4 DEF Fit, Engine
<1>7. SameSight(e.rec, f.rec) /\ (Available(e.rec) => f.rec.atDrop = Away)
  BY <1>3, <1>4, <1>5, <1>6 DEF SameSight, Supersede, Fit, Good, Record
<1>8. f = Taken(e, groups, source)
  BY DEF Taken, f, judged, dropped
<1> HIDE DEF f
<1>9. LearnsNothing(e, f)
  BY <1>1, <1>3, <1>6, <1>7 DEF LearnsNothing, TakesNone
<1> QED BY <1>8, <1>9

\* The end of a debounce, and judging what waits (_settle_debounce).
LEMMA SettledTakes ==
  ASSUME NEW e, Fit(e)
  PROVE  /\ LearnsNothing(e, Settled(e)) /\ LearnsNothing(e, Flush(e))
         /\ e.prev = Away => Flush(e) = e
<1>1. LearnsNothing(e, Taken(e, ChangedGroups(e.prev, e.rec.observed), "device"))
  BY TakenTakes, TakeTypes, Sources
<1>2. LearnsNothing(e, [e EXCEPT !.prev = Away]) /\ LearnsNothing(e, e)
  BY FieldsTake, TakesTransitive
<1>3. LearnsNothing(e, Settled(e))
  BY <1>1, <1>2 DEF Settled
<1> QED BY <1>2, <1>3 DEF Flush

\* The lamp is off, what it showed when it dropped is out of date, what ran out
\* goes.
LEMMA PartsTake ==
  ASSUME NEW e, Fit(e)
  PROVE  /\ TakesNone(e, OffSeen(e)) /\ TakesNone(e, Known(e)) /\ TakesNone(e, SweptOf(e))
         /\ TakesNone(e, [e EXCEPT !.rec = RecordObservedAsBase(@, @.observed)])
<1>1. e.rec \in Record
  BY DEF Fit, Good
<1>2. Retains(e.rec, SeenOffIf(e.rec, e.rec.observed.state = "off"))
  BY <1>1, PartsRetain
<1>3. Retains(e.rec, Supersede(e.rec)) /\ Retains(e.rec, Expire(e.rec, Shown(e.rec)))
  BY <1>1, PartsRetain, ExpireRetains
<1>4. Retains(e.rec, RecordObservedAsBase(e.rec, e.rec.observed))
  BY <1>1, PartsRetain DEF RecordObservedAsBase
<1> QED BY <1>2, <1>3, <1>4, RecordTakes DEF OffSeen, Known, SweptOf

\* The lamp is another than it was when it dropped.
Otherwise(r) ==
  Available(r) /\ r.atDrop # Away /\ ~Close(r.observed, r.atDrop)

\* What the record decides of a lamp that came back takes layers only where the
\* lamp is another (_return_decision).
LEMMA DecidedTakes ==
  ASSUME NEW e, Fit(e), e.prev = Away
  PROVE  LET d == Decided(e, DecideReturn(e.rec, e.rec.observed))
         IN LearnsNothing(e, d) /\ (TakesNone(e, d) \/ Otherwise(e.rec))
<1> DEFINE d == DecideReturn(e.rec, e.rec.observed)
           settled == Settles(e)
           recorded == [settled EXCEPT !.rec = RecordObservedAsBase(@, @.observed)]
<1>1. d \in {"send", "record", "nothing", "external", "wait"}
  BY DEF DecideReturn
<1>2. d = "external" => Otherwise(e.rec)
  <2>1. Away.state = "away"
    BY DEF Away, Cmd
  <2> QED BY <2>1 DEF DecideReturn, Otherwise, Available
<1> HIDE DEF d
<1>3. Fit(settled) /\ TakesNone(e, settled)
  BY SettlesFit, CancelTakes
<1> HIDE DEF settled
<1>4. Fit(recorded) /\ TakesNone(settled, recorded)
  <2>1. Good(RecordObservedAsBase(settled.rec, settled.rec.observed))
    BY <1>3, BaseRecorded DEF Fit
  <2> QED BY <1>3, <2>1, OtherRecord, PartsTake
<1> HIDE DEF recorded
<1>5. TakesNone(e, Send(e, "deferred")) /\ TakesNone(e, DropStale(settled)) /\ TakesNone(e, e)
  BY <1>3, SendTakes, DropStaleTakes, TakesTransitive
<1>6. TakesNone(e, DropStale(recorded))
  BY <1>3, <1>4, DropStaleTakes, TakesTransitive
<1>7. LearnsNothing(e, Taken(settled, Everything, "device"))
  BY <1>3, TakenTakes, TakeTypes, Sources, TakesTransitive
<1>8. /\ d = "send" => Decided(e, d) = Send(e, "deferred")
      /\ d = "record" => Decided(e, d) = DropStale(recorded)
      /\ d = "nothing" => Decided(e, d) = DropStale(settled)
      /\ d = "external" => Decided(e, d) = Taken(settled, Everything, "device")
      /\ d = "wait" => Decided(e, d) = e
  BY DEF Decided, settled, recorded
<1>9. LearnsNothing(e, Decided(e, d)) /\ (TakesNone(e, Decided(e, d)) \/ Otherwise(e.rec))
  BY <1>1, <1>2, <1>5, <1>6, <1>7, <1>8, TakesTransitive
<1> QED BY <1>9 DEF d

\* A lamp that came back (_judge_return); what it showed when it dropped is then
\* out of date.
LEMMA ReturnedTakes ==
  ASSUME NEW e, Fit(e), e.prev = Away
  PROVE  /\ LearnsNothing(e, Returned(e))
         /\ TakesNone(e, Returned(e)) \/ Otherwise(e.rec)
         /\ Available(e.rec) => Returned(e).rec.atDrop = Away
<1> DEFINE decided == Decided(e, DecideReturn(e.rec, e.rec.observed))
           known == Known(decided)
           off == OffSeen(known)
<1>1. Fit(decided) /\ decided.prev = Away /\ decided.rec.observed = e.rec.observed
  BY DecidedLeaves DEF Leaves
<1>2. LearnsNothing(e, decided) /\ (TakesNone(e, decided) \/ Otherwise(e.rec))
  BY DecidedTakes
<1>3. Returned(e) = off
  BY DEF Returned
<1> HIDE DEF decided
<1>4. Fit(known) /\ TakesNone(decided, known)
  BY <1>1, KnownFit, PartsTake
<1>5. Available(e.rec) => known.rec.atDrop = Away
  BY <1>1 DEF Known, Supersede, Available, Fit, Good, Engine, Record
<1> HIDE DEF known
<1>6. TakesNone(known, off) /\ off.rec.atDrop \in {known.rec.atDrop, Away}
  BY <1>4, PartsTake DEF TakesNone, LearnsNothing, SameSight
<1> HIDE DEF off
<1> QED BY <1>2, <1>3, <1>4, <1>5, <1>6, TakesTransitive

\* The expiry of a lamp takes nothing that has not run out (_expire_lamp).
LEMMA RanOutTakes ==
  ASSUME NEW e, Fit(e), e.prev = Away
  PROVE  TakesNone(e, RanOut(e))
<1> DEFINE swept == SweptOf(e)
<1>1. Fit(swept) /\ TakesNone(e, swept)
  BY SweptLeaves, PartsTake DEF Leaves
<1>2. RanOut(e) \in {Send(swept, "deferred"), DropStale(swept)}
  BY DEF RanOut
<1> HIDE DEF swept
<1> QED BY <1>1, <1>2, SendTakes, DropStaleTakes, TakesTransitive

\* A lamp that has to show its command after the startup.
LEMMA MismatchedTakes ==
  ASSUME NEW e, Fit(e)
  PROVE  /\ LearnsNothing(e, Mismatched(e))
         /\ TakesNone(e, Mismatched(e)) \/ Otherwise(e.rec) \/ ~Available(e.rec)
<1>1. LearnsNothing(e, Taken(e, Everything, "device"))
  BY TakenTakes, TakeTypes, Sources
<1>2. TakesNone(e, e) /\ TakesNone(e, [e EXCEPT !.rec.diverged = "unsynced"])
  BY FieldsTake, TakesTransitive
<1> QED BY <1>1, <1>2, TakesTransitive DEF Mismatched, Otherwise

\* The end of the startup takes layers only where the lamp is another than it was
\* (_end_grace_lamp).
LEMMA StartedUpTakes ==
  ASSUME NEW e, Fit(e), e.prev = Away
  PROVE  /\ LearnsNothing(e, StartedUp(e))
         /\ TakesNone(e, StartedUp(e)) \/ Otherwise(e.rec)
<1> DEFINE swept == SweptOf(e)
           recorded == [swept EXCEPT !.rec = RecordObservedAsBase(@, @.observed)]
           plain == [recorded EXCEPT !.rec.diverged = "none"]
<1>1. Fit(swept) /\ swept.prev = Away /\ TakesNone(e, swept)
  BY SweptLeaves, PartsTake DEF Leaves
<1>2. Otherwise(swept.rec) => Otherwise(e.rec)
  BY <1>1 DEF TakesNone, LearnsNothing, SameSight, Otherwise, Available
<1>3. Available(swept.rec) <=> Available(e.rec)
  BY <1>1 DEF TakesNone, LearnsNothing, SameSight, Available
<1>4. LeftAlone(swept) \in {Returned(swept), plain, Mismatched(swept)}
  <2>1. [swept EXCEPT !.rec = [RecordObservedAsBase(@, @.observed) EXCEPT !.diverged = "none"]]
        = plain
    BY <1>1 DEF Fit, Engine
  <2> QED BY <2>1 DEF LeftAlone, swept
<1>5. StartedUp(e) \in {RanOut(e), swept}
      \/ (Available(e.rec) /\ StartedUp(e) = LeftAlone(swept))
  BY DEF StartedUp, swept
<1> HIDE DEF swept
<1>6. Fit(recorded) /\ TakesNone(swept, recorded)
  <2>1. Good(RecordObservedAsBase(swept.rec, swept.rec.observed))
    BY <1>1, BaseRecorded DEF Fit
  <2> QED BY <1>1, <2>1, OtherRecord, PartsTake
<1> HIDE DEF recorded
<1>7. TakesNone(swept, plain)
  BY <1>6, FieldsTake, TakesTransitive
<1> HIDE DEF plain
<1>8. /\ LearnsNothing(swept, Returned(swept)) /\ LearnsNothing(swept, Mismatched(swept))
      /\ TakesNone(swept, Returned(swept)) \/ Otherwise(swept.rec)
      /\ Available(e.rec) => TakesNone(swept, Mismatched(swept)) \/ Otherwise(swept.rec)
  BY <1>1, <1>3, ReturnedTakes, MismatchedTakes
<1>9. TakesNone(e, RanOut(e))
  BY RanOutTakes
<1> QED BY <1>1, <1>2, <1>4, <1>5, <1>7, <1>8, <1>9, TakesTransitive

\* The late re-check (late_recheck).
LEMMA RecheckedTakes ==
  ASSUME NEW e, Fit(e), NEW cmd
  PROVE  TakesNone(e, Rechecked(e, cmd))
<1> DEFINE again == [e EXCEPT !.retried = TRUE]
<1>1. Fit(again) /\ TakesNone(e, again)
  BY FieldsTake DEF Fit, Engine
<1> HIDE DEF again
<1> QED BY <1>1, SendTakes, TakesTransitive DEF Rechecked, again

\* _render touches no layer and no tombstone.
LEMMA SendStack ==
  ASSUME NEW e, Fit(e), NEW reason
  PROVE  /\ Send(e, reason).rec.layers = e.rec.layers
         /\ Send(e, reason).rec.tombs = e.rec.tombs
<1>1. e.rec \in Record /\ e \in Engine
  BY DEF Fit, Good
<1> HIDE DEF Fit
<1> QED BY <1>1 DEF Send, Start, Settles, Cancel, Engine, Record

\* A set or a clear that changed the record (set_layer, clear_layer).
LEMMA CommandedTakes ==
  ASSUME NEW e, Fit(e), NEW r, Good(r)
  PROVE  /\ SameSight(e.rec, r) => LearnsNothing(e, Commanded(e, r))
         /\ Retains(e.rec, r) => TakesNone(e, Commanded(e, r))
         /\ Commanded(e, r).rec.layers = r.layers /\ Commanded(e, r).rec.tombs = r.tombs
<1> DEFINE f == [e EXCEPT !.rec = r]
<1>1. /\ Fit(f) /\ f.rec = r
      /\ SameSight(e.rec, r) => LearnsNothing(e, f)
      /\ Retains(e.rec, r) => TakesNone(e, f)
  BY OtherRecord, RecordTakes
<1>2. Commanded(e, r) \in {f, Send(f, "owner")}
  BY DEF Commanded
<1> HIDE DEF f
<1> QED BY <1>1, <1>2, SendTakes, SendStack, TakesTransitive

\* A clear removes layers and their tombstones (apply_clear).
LEMMA ClearTakes ==
  ASSUME NEW r \in Record, NEW i \in Id
  PROVE  /\ SameSight(r, ApplyClear(r, i))
         /\ \A j \in Live(r.layers) : \/ Present(ApplyClear(r, i).layers, j)
                                      \/ ApplyClear(r, i).tombs[j] = NoTomb
<1> DEFINE about == Cleared(r, i)
           removed == about \cap Live(r.layers)
           expired == about \cap Expired(r)
           layers == [j \in Id |->
                        CASE j \in removed -> NoLayer
                          [] j \in expired -> [r.layers[j] EXCEPT !.render = TRUE]
                          [] OTHER -> r.layers[j]]
           tombs == [j \in Id |-> IF j \in about /\ i # "active" THEN NoTomb ELSE r.tombs[j]]
           cleared == [r EXCEPT !.layers = layers, !.tombs = tombs]
<1>1. ApplyClear(r, i) \in {cleared, LayersChanged(cleared)}
  BY DEF ApplyClear, Record
<1>2. \A j \in Live(r.layers) : Present(layers, j) \/ tombs[j] = NoTomb
  <2>1. i # "active"
    BY PolicyAssumption
  <2> QED BY <2>1 DEF Live, Present, Expired
<1> HIDE DEF layers, tombs
<1>3. /\ cleared.layers = layers /\ cleared.tombs = tombs
      /\ SameSight(r, cleared)
  BY DEF Record, SameSight
<1>4. /\ LayersChanged(cleared).layers = layers /\ LayersChanged(cleared).tombs = tombs
      /\ SameSight(r, LayersChanged(cleared))
  BY <1>3 DEF Record, SameSight, LayersChanged
<1> QED BY <1>1, <1>2, <1>3, <1>4 DEF Present

\* The end of a step changes nothing of that.
LEMMA StepsTake ==
  ASSUME NEW e, Fit(e), Steps(e)
  PROVE  /\ TakesNone(e, eng')
         /\ eng'.rec.layers = e.rec.layers /\ eng'.rec.tombs = e.rec.tombs
         /\ eng'.rec.atDrop = e.rec.atDrop /\ eng'.rec.observed = e.rec.observed
         /\ eng'.prev = e.prev /\ eng'.room = e.room /\ eng'.timers = e.timers
         /\ eng'.named = e.named /\ eng'.last = e.last
<1>1. e.rec \in Record /\ e \in Engine
  BY DEF Fit, Good
<1> QED BY <1>1 DEF Steps, Engine, Record, TakesNone, LearnsNothing, SameSight

-----------------------------------------------------------------------------
(* Who acted: what a step leaves to be judged is someone's *)

\* All that is still to be judged of the lamp is someone's, but that it came back
\* another than it went may be a command of ours that was under way.
Explained ==
  /\ eng.prev # Away => touched
  /\ eng.room # Nothing => touched
  /\ Otherwise(eng.rec) => touched \/ moved
  /\ Available(eng.rec) /\ eng.timers = {} => eng.rec.atDrop = Away

\* While the lamp carries out a command of ours, nobody has sent another since:
\* its context is ours if there is one, and it has not arrived.
OwnAnswer ==
  answering.by = "ours" =>
    /\ Available(eng.rec) /\ answering.cmd # Nothing
    /\ stamp \in {"ours", "none"}
    /\ stamp = "ours" => eng.named = answering.cmd
    /\ eng.last.by # "theirs"
    /\ eng.last.by = "ours" => eng.last.target = answering.cmd /\ eng.last.arrived = "no"

OInv == IInv /\ Explained /\ OwnAnswer

\* A step keeps that, and takes a layer back only where someone acted.
Accounts == Explained' /\ OwnAnswer' /\ (TakesBack => touched')

\* What was someone's still is, until it is judged.
LEMMA StillSomeones ==
  ASSUME OInv, Noted(FALSE)
  PROVE  /\ eng.prev # Away => touched'
         /\ eng.room # Nothing => touched'
         /\ touched /\ eng.timers # {} => touched'
         /\ Otherwise(eng.rec) => touched' \/ (moved /\ ~touched)
         /\ moved /\ eng'.rec.atDrop # Away => moved'
BY DEF OInv, Explained, Noted, Pending, Otherwise

\* Where nothing is learnt, nothing becomes unexplained.
LEMMA ExplainedStays ==
  ASSUME OInv, Noted(FALSE),
         eng'.prev \in {eng.prev, Away}, eng'.room \in {eng.room, Nothing},
         SameSight(eng.rec, eng'.rec),
         eng'.timers = eng.timers \/ (Available(eng.rec) => eng'.rec.atDrop = Away)
  PROVE  Explained'
<1>1. (eng'.prev # Away => touched') /\ (eng'.room # Nothing => touched')
  BY StillSomeones
<1>2. Otherwise(eng'.rec) => Otherwise(eng.rec) /\ eng'.rec.atDrop # Away
  BY DEF SameSight, Otherwise, Available
<1>3. Otherwise(eng'.rec) => touched' \/ moved'
  BY <1>2, StillSomeones
<1>4. Available(eng'.rec) /\ eng'.timers = {} => eng'.rec.atDrop = Away
  BY DEF OInv, Explained, SameSight, Available
<1> QED BY <1>1, <1>3, <1>4 DEF Explained

\* Someone acted: only what a lamp that dropped showed is left to say.
LEMMA ExplainedBy ==
  ASSUME Noted(TRUE), Available(eng'.rec) /\ eng'.timers = {} => eng'.rec.atDrop = Away
  PROVE  Explained' /\ touched'
BY DEF Explained, Noted

\* The command under way is as it was.
LEMMA AnswerStays ==
  ASSUME OInv, UNCHANGED <<stamp, answering>>, eng'.named = eng.named,
         eng'.last = eng.last, eng'.rec.observed = eng.rec.observed
  PROVE  OwnAnswer'
BY DEF OInv, OwnAnswer, Available

\* The lamp carries out nothing of ours.
LEMMA NoAnswer ==
  ASSUME answering'.by # "ours"
  PROVE  OwnAnswer'
BY DEF OwnAnswer

\* A lamp carries out something only while it is there.
LEMMA AwayAnswersNothing ==
  ASSUME OInv, ~Available(eng.rec)
  PROVE  answering.by # "ours"
BY DEF OInv, OwnAnswer

\* A handler that leaves every layer in force, or leaves no tombstone, takes none.
LEMMA NoneTaken ==
  ASSUME OInv, NEW e, Fit(e), Steps(e),
         \/ TakesNone(eng, e)
         \/ \A i \in Live(eng.rec.layers) : Present(e.rec.layers, i) \/ e.rec.tombs[i] = NoTomb
  PROVE  ~TakesBack
<1>1. eng'.rec.layers = e.rec.layers /\ eng'.rec.tombs = e.rec.tombs
  BY StepsTake
<1>2. TakesNone(eng, e) => \A i \in Live(eng.rec.layers) : Present(e.rec.layers, i)
  BY DEF TakesNone, Live
<1> QED BY <1>1, <1>2 DEF TakesBack

\* A handler that learns nothing, of which nobody else is told.
LEMMA LearntNothing ==
  ASSUME OInv, NEW e, Fit(e), Steps(e), LearnsNothing(eng, e), Noted(FALSE),
         UNCHANGED <<stamp, answering>>
  PROVE  Explained' /\ OwnAnswer'
<1>1. LearnsNothing(eng, eng')
  BY StepsTake, TakesTransitive
<1> QED BY <1>1, ExplainedStays, AnswerStays DEF LearnsNothing, SameSight

\* One that takes nothing besides.
LEMMA TookNothing ==
  ASSUME OInv, NEW e, Fit(e), Steps(e), TakesNone(eng, e), Blame(FALSE),
         UNCHANGED <<stamp, answering>>
  PROVE  Accounts
BY LearntNothing, NoneTaken, TakesTransitive DEF Accounts, Blame

\* One that judges what waits first: a change that waits is someone's.
LEMMA FlushedFirst ==
  ASSUME OInv, NEW e, Fit(e), Steps(e), LearnsNothing(eng, e), Blame(FALSE),
         UNCHANGED <<stamp, answering>>,
         eng.prev = Away => ~TakesBack
  PROVE  Accounts
BY LearntNothing, StillSomeones DEF Accounts, Blame

\* The engine is fit, and what waits waits alone.
LEMMA OwnEngine ==
  ASSUME OInv
  PROVE  Fit(eng) /\ WaitsAlone(eng) /\ TypeOK /\ IInv
BY EngineFit DEF OInv

\* A set (set_layer) takes no layer in force.
LEMMA SetAccounts ==
  ASSUME OInv, NEW req \in Requests, SetLayer(req)
  PROVE  Accounts
<1> DEFINE flushed == Flush(eng)
           learnt == [flushed EXCEPT !.rec = LearnBase(@)]
           out == ApplySet(learnt.rec, req)
           skipped == [learnt EXCEPT !.rec = out.rec]
           e == IF out.result \in Skips THEN skipped ELSE Commanded(learnt, out.rec)
<1>1. Steps(e) /\ Blame(FALSE) /\ UNCHANGED <<stamp, answering>>
  BY DEF SetLayer
<1>2. /\ Fit(flushed) /\ LearnsNothing(eng, flushed)
      /\ eng.prev = Away => flushed = eng
  BY OwnEngine, FlushFit, SettledTakes
<1> HIDE DEF flushed
<1>3. Good(LearnBase(flushed.rec)) /\ Retains(flushed.rec, LearnBase(flushed.rec))
  BY <1>2, LearnBaseQuiet, GoodKept, PartsRetain DEF Fit, Good
<1>4. Fit(learnt) /\ TakesNone(flushed, learnt)
  BY <1>2, <1>3, OtherRecord, RecordTakes
<1> HIDE DEF learnt
<1>5. Good(out.rec) /\ Retains(learnt.rec, out.rec)
  BY <1>4, ApplySetIsGood, EvidenceAssumption DEF Fit
<1> HIDE DEF out
<1>6. /\ Fit(skipped) /\ TakesNone(learnt, skipped)
      /\ Fit(Commanded(learnt, out.rec)) /\ TakesNone(learnt, Commanded(learnt, out.rec))
  <2>1. /\ Fit(skipped) /\ TakesNone(learnt, skipped)
        /\ TakesNone(learnt, Commanded(learnt, out.rec))
    BY <1>4, <1>5, OtherRecord, RecordTakes, CommandedTakes
  <2>2. Fit([learnt EXCEPT !.rec = out.rec]) /\ Fit(Send([learnt EXCEPT !.rec = out.rec], "owner"))
    BY <1>4, <1>5, OtherRecord, SendFit
  <2> QED BY <2>1, <2>2 DEF Commanded
<1> HIDE DEF skipped
<1>7. Fit(e) /\ TakesNone(flushed, e)
  BY <1>4, <1>6, TakesTransitive
<1> HIDE DEF e
<1>8. eng.prev = Away => TakesNone(eng, e)
  BY <1>2, <1>7
<1>9. LearnsNothing(eng, e)
  BY <1>2, <1>7, TakesTransitive
<1> QED BY <1>1, <1>7, <1>8, <1>9, FlushedFirst, NoneTaken

\* A clear (clear_layer) leaves no tombstone.
LEMMA ClearAccounts ==
  ASSUME OInv, NEW i \in Id, ClearLayer(i)
  PROVE  Accounts
<1> DEFINE flushed == Flush(eng)
           r == ApplyClear(flushed.rec, i)
           e == Commanded(flushed, r)
<1>1. Steps(e) /\ Blame(FALSE) /\ UNCHANGED <<stamp, answering>>
  BY DEF ClearLayer
<1>2. /\ Fit(flushed) /\ LearnsNothing(eng, flushed) /\ flushed.prev = Away
      /\ eng.prev = Away => flushed = eng
  BY OwnEngine, FlushFit, SettledTakes
<1> HIDE DEF flushed
<1>3. Good(r) /\ SameSight(flushed.rec, r)
      /\ \A j \in Live(flushed.rec.layers) : Present(r.layers, j) \/ r.tombs[j] = NoTomb
  BY <1>2, ApplyClearQuiet, GoodKept, ClearTakes DEF Fit, Good
<1> HIDE DEF r
<1>4. Fit(e) /\ LearnsNothing(flushed, e) /\ e.rec.layers = r.layers /\ e.rec.tombs = r.tombs
  BY <1>2, <1>3, CommandedFit, CommandedTakes
<1> HIDE DEF e
<1>5. LearnsNothing(eng, e)
  BY <1>2, <1>4, TakesTransitive
<1>6. eng.prev = Away => ~TakesBack
  BY <1>1, <1>2, <1>3, <1>4, NoneTaken DEF Present
<1> QED BY <1>1, <1>4, <1>5, <1>6, FlushedFirst

\* The debounce ends: the change that waited is someone's.
LEMMA SettleAccounts ==
  ASSUME OInv, SettleDebounce
  PROVE  Accounts
<1>1. Fit(Settled(eng)) /\ LearnsNothing(eng, Settled(eng))
  BY OwnEngine, SettledFit, SettledTakes
<1> QED BY <1>1, FlushedFirst DEF SettleDebounce

\* What ran out is removed.
LEMMA ExpireAccounts ==
  ASSUME OInv, ExpireLamp
  PROVE  Accounts
<1> DEFINE flushed == Flush(eng)
           e == RanOut(flushed)
<1>1. Steps(e) /\ Blame(FALSE) /\ UNCHANGED <<stamp, answering>>
  BY DEF ExpireLamp
<1>2. /\ Fit(flushed) /\ flushed.prev = Away /\ LearnsNothing(eng, flushed)
      /\ eng.prev = Away => flushed = eng
  BY OwnEngine, FlushFit, SettledTakes
<1> HIDE DEF flushed
<1>3. Fit(e) /\ TakesNone(flushed, e)
  BY <1>2, RanOutLeaves, RanOutTakes DEF Leaves
<1> HIDE DEF e
<1>4. LearnsNothing(eng, e) /\ (eng.prev = Away => TakesNone(eng, e))
  BY <1>2, <1>3, TakesTransitive
<1> QED BY <1>1, <1>3, <1>4, FlushedFirst, NoneTaken

\* A verified command is checked once more.
LEMMA LateCheckAccounts ==
  ASSUME OInv, LateCheck
  PROVE  Accounts
<1> DEFINE f == [eng EXCEPT !.late = Nothing]
           flushed == Flush(f)
           e == Rechecked(flushed, eng.late)
<1>1. (Steps(f) \/ Steps(e)) /\ Blame(FALSE) /\ UNCHANGED <<stamp, answering>>
  BY DEF LateCheck
<1>2. Fit(f) /\ TakesNone(eng, f) /\ f.prev = eng.prev
  BY OwnEngine, OtherFields, ConstantCommands, FieldsTake DEF Spares, Keeps
<1> HIDE DEF f
<1>3. /\ Fit(flushed) /\ flushed.prev = Away /\ LearnsNothing(f, flushed)
      /\ f.prev = Away => flushed = f
  BY <1>2, FlushFit, SettledTakes
<1> HIDE DEF flushed
<1>4. Fit(e) /\ TakesNone(flushed, e)
  BY <1>3, RecheckedLeaves, RecheckedTakes DEF Leaves
<1> HIDE DEF e
<1>5. LearnsNothing(eng, e) /\ (eng.prev = Away => TakesNone(eng, e))
  BY <1>2, <1>3, <1>4, TakesTransitive
<1>6. CASE Steps(f)
  BY <1>1, <1>2, <1>6, TookNothing
<1>7. CASE Steps(e)
  BY <1>1, <1>4, <1>5, <1>7, FlushedFirst, NoneTaken
<1> QED BY <1>1, <1>6, <1>7

\* A timer of the lamp ends; where the lamp is another than it went, someone used it
\* or a command of ours was under way.
LEMMA TimerAccounts ==
  ASSUME OInv, NEW timer \in eng.timers, NEW settled, NEW e,
         settled = [eng EXCEPT !.timers = @ \ {timer}],
         Fit(e), Steps(e), LearnsNothing(settled, e),
         TakesNone(settled, e) \/ Otherwise(settled.rec),
         Available(eng.rec) => e.rec.atDrop = Away,
         Blame(FALSE), UNCHANGED <<stamp, answering>>
  PROVE  Explained' /\ OwnAnswer' /\ (TakesBack => touched' \/ moved)
<1>1. /\ settled.rec = eng.rec /\ settled.prev = eng.prev /\ settled.room = eng.room
      /\ settled.named = eng.named /\ settled.last = eng.last
  BY OwnEngine DEF Fit, Engine
<1>2. /\ eng'.rec.atDrop = e.rec.atDrop /\ eng'.rec.observed = e.rec.observed
      /\ eng'.prev = e.prev /\ eng'.room = e.room
      /\ eng'.named = e.named /\ eng'.last = e.last
  BY StepsTake
<1>3. Explained'
  BY <1>1, <1>2, ExplainedStays DEF LearnsNothing, SameSight, Blame
<1>4. OwnAnswer'
  BY <1>1, <1>2, AnswerStays DEF LearnsNothing, SameSight
<1>5. CASE TakesNone(settled, e)
  <2>1. \A i \in Live(eng.rec.layers) : Present(e.rec.layers, i)
    BY <1>1, <1>5 DEF TakesNone, Live
  <2> QED BY <1>3, <1>4, <2>1, NoneTaken
<1>6. CASE Otherwise(settled.rec)
  BY <1>1, <1>3, <1>4, <1>6, StillSomeones DEF Blame
<1> QED BY <1>5, <1>6

\* A lamp that came back is judged.
LEMMA ReturnAccounts ==
  ASSUME OInv, JudgeReturn
  PROVE  Explained' /\ OwnAnswer' /\ (TakesBack => touched' \/ moved)
<1> DEFINE settled == [eng EXCEPT !.timers = @ \ {"return"}]
           e == Returned(settled)
<1>1. Steps(e) /\ "return" \in eng.timers /\ Blame(FALSE) /\ UNCHANGED <<stamp, answering>>
  BY DEF JudgeReturn
<1>2. Fit(settled) /\ settled.prev = Away /\ settled.rec = eng.rec
  BY <1>1, OwnEngine, TimerFit DEF Fit, Engine
<1>3. settled = [eng EXCEPT !.timers = @ \ {"return"}]
  OBVIOUS
<1> HIDE DEF settled
<1>4. /\ Fit(e) /\ LearnsNothing(settled, e)
      /\ TakesNone(settled, e) \/ Otherwise(settled.rec)
      /\ Available(eng.rec) => e.rec.atDrop = Away
  BY <1>2, ReturnedLeaves, ReturnedTakes DEF Leaves
<1> HIDE DEF e
<1> QED BY <1>1, <1>3, <1>4, TimerAccounts

\* The startup is over.
LEMMA GraceAccounts ==
  ASSUME OInv, EndGrace
  PROVE  Explained' /\ OwnAnswer' /\ (TakesBack => touched' \/ moved)
<1> DEFINE settled == [eng EXCEPT !.timers = @ \ {"grace"}]
           started == StartedUp(settled)
           e == Known(started)
<1>1. Steps(e) /\ "grace" \in eng.timers /\ Blame(FALSE) /\ UNCHANGED <<stamp, answering>>
  BY DEF EndGrace
<1>2. Fit(settled) /\ settled.prev = Away /\ settled.rec = eng.rec
  BY <1>1, OwnEngine, TimerFit DEF Fit, Engine
<1>3. settled = [eng EXCEPT !.timers = @ \ {"grace"}]
  OBVIOUS
<1> HIDE DEF settled
<1>4. /\ Fit(started) /\ LearnsNothing(settled, started)
      /\ TakesNone(settled, started) \/ Otherwise(settled.rec)
      /\ started.rec.observed = eng.rec.observed
  BY <1>2, StartedUpLeaves, StartedUpTakes DEF Leaves
<1> HIDE DEF started
<1>5. Fit(e) /\ TakesNone(started, e)
  BY <1>4, KnownFit, PartsTake
<1>6. Available(eng.rec) => e.rec.atDrop = Away
  BY <1>4 DEF Known, Supersede, Available, Fit, Good, Engine, Record
<1> HIDE DEF e
<1>7. LearnsNothing(settled, e) /\ (TakesNone(settled, e) \/ Otherwise(settled.rec))
  BY <1>4, <1>5, TakesTransitive
<1> QED BY <1>1, <1>3, <1>5, <1>6, <1>7, TimerAccounts

\* The lamp reports nothing.
LEMMA SilentAccounts ==
  ASSUME OInv, Silent
  PROVE  Accounts
BY DEF Silent, OInv, Explained, OwnAnswer, Otherwise, Available, Idle, Accounts,
       TakesBack, Live

\* The lamp drops out.
LEMMA DropAccounts ==
  ASSUME OInv, Drop
  PROVE  Accounts
<1>1. Fit(eng) /\ eng.rec \in Record /\ eng \in Engine
  BY OwnEngine DEF Fit, Good
<1>2. /\ eng'.rec.observed = Away /\ eng'.prev = Away /\ eng'.room = eng.room
      /\ eng'.rec.layers = eng.rec.layers
  BY <1>1 DEF Drop, Steps, Engine, Record
<1>3. ~Available(eng'.rec)
  BY <1>2 DEF Available, Away, Cmd
<1>4. Explained'
  BY <1>2, <1>3, StillSomeones DEF Explained, Otherwise, Drop, Blame
<1>5. OwnAnswer'
  BY NoAnswer DEF Drop, Idle
<1>6. ~TakesBack
  BY <1>2 DEF TakesBack, Live, Present
<1> QED BY <1>4, <1>5, <1>6 DEF Accounts

\* The lamp comes back.
LEMMA ComeBackAccounts ==
  ASSUME OInv, NEW o \in Reports, ComeBack(o)
  PROVE  Accounts
<1>1. Fit(eng) /\ eng.rec \in Record /\ eng \in Engine /\ eng.prev = Away
  BY OwnEngine DEF Fit, Good, ComeBack, WaitsAlone
<1>2. /\ eng'.rec.observed = o /\ eng'.rec.atDrop = eng.rec.atDrop /\ eng'.prev = Away
      /\ eng'.room = eng.room /\ eng'.rec.layers = eng.rec.layers
      /\ eng'.timers # {}
  BY <1>1 DEF ComeBack, Showing, Steps, Engine, Record
<1>3. ~Close(o, eng.rec.atDrop) => touched'
  BY DEF ComeBack, Blame, Noted
<1>4. eng.room # Nothing => touched'
  BY DEF ComeBack, Blame, Noted, OInv, Explained, Pending
<1>5. Explained'
  BY <1>2, <1>3, <1>4 DEF Explained, Otherwise
<1>6. OwnAnswer'
  BY AwayAnswersNothing, NoAnswer DEF ComeBack
<1>7. ~TakesBack
  BY <1>2 DEF TakesBack, Live, Present
<1> QED BY <1>5, <1>6, <1>7 DEF Accounts

\* A lamp shows the same as it does.
LEMMA CloseToItself ==
  ASSUME NEW o \in Report
  PROVE  Close(o, o)
<1>1. o.bri \in Level \cup {NoValue}
  BY DEF Report
<1>2. \A n \in Level : Near(n, n)
  <2>1. Level \subseteq Int /\ Tol \in Nat
    BY CommandAssumption
  <2>2. \A n \in Int, t \in Nat : n - n <= t
    OBVIOUS
  <2> QED BY <2>1, <2>2 DEF Near
<1>3. BothNear(o.bri, o.bri)
  BY <1>1, <1>2 DEF BothNear
<1> QED BY <1>3 DEF Close

\* What the store gives back of what is to be judged (load).
LEMMA LoadedShows ==
  ASSUME NEW e, Fit(e), NEW o \in Report
  PROVE  LET f == Loaded(e, o)
         IN /\ f.prev = Away /\ f.room = Nothing /\ f.timers = {"grace"}
            /\ f.named = Nothing /\ f.rec.observed = o
            /\ f.last.by \in {e.last.by, "nobody"} /\ f.last.arrived = "no"
            /\ f.last.by = "ours" => f.last.target = e.last.target
            /\ f.rec.atDrop = Away
               \/ f.rec.atDrop = IF e.rec.atDrop = Away THEN e.rec.observed ELSE e.rec.atDrop
            /\ \A i \in Id : f.rec.tombs[i] # NoTomb => f.rec.layers = e.rec.layers
<1> DEFINE rec == Stored(e.rec)
           q == [Showing(rec, o) EXCEPT !.atDrop = IF @ = Away THEN rec.observed ELSE @]
           l == IF rec = e.rec THEN [e.last EXCEPT !.arrived = "no"] ELSE NoCommandYet
           f == Loaded(e, o)
<1>1. e.rec \in Record /\ e.last \in LastCommand
  BY DEF Fit, Good, Engine
<1>2. rec = e.rec \/ rec = NewRecord(Away)
  BY DEF Stored
<1>3. /\ f.prev = Away /\ f.room = Nothing /\ f.timers = {"grace"} /\ f.named = Nothing
      /\ f.rec = q /\ f.last = l
  BY DEF Loaded, Fresh
<1> HIDE DEF rec, f
<1>4. l.by \in {e.last.by, "nobody"} /\ l.arrived = "no"
      /\ (l.by = "ours" => l.target = e.last.target)
  BY <1>1 DEF LastCommand, NoCommandYet
<1>5. CASE rec = e.rec
  <2>1. /\ q.observed = o /\ q.layers = e.rec.layers
        /\ q.atDrop = IF e.rec.atDrop = Away THEN e.rec.observed ELSE e.rec.atDrop
    BY <1>1, <1>5 DEF Showing, Record
  <2> QED BY <1>3, <1>4, <2>1 DEF f
<1>6. CASE rec = NewRecord(Away)
  <2>1. /\ q.observed = o /\ q.atDrop = Away
        /\ \A i \in Id : q.tombs[i] = NoTomb
    BY <1>6 DEF Showing, NewRecord
  <2> QED BY <1>3, <1>4, <2>1 DEF f
<1> QED BY <1>2, <1>5, <1>6

\* The entry reloads.
LEMMA ReloadAccounts ==
  ASSUME OInv, Reload
  PROVE  Accounts
<1> DEFINE o == eng.rec.observed
           loaded == Loaded(eng, o)
           named == IF stamp = "ours" THEN eng.named ELSE loaded.named
           e == [loaded EXCEPT !.named = named]
<1>1. Fit(eng) /\ o \in Report /\ eng.named \in Command
  BY OwnEngine DEF Fit, Good, Record, Engine
<1>2. Fit(loaded)
  BY <1>1, LoadedFit
<1>3. /\ loaded.prev = Away /\ loaded.room = Nothing /\ loaded.timers = {"grace"}
      /\ loaded.rec.observed = o
      /\ loaded.last.by \in {eng.last.by, "nobody"} /\ loaded.last.arrived = "no"
      /\ loaded.last.by = "ours" => loaded.last.target = eng.last.target
      /\ loaded.rec.atDrop = Away
         \/ loaded.rec.atDrop = IF eng.rec.atDrop = Away THEN o ELSE eng.rec.atDrop
      /\ \A i \in Id : loaded.rec.tombs[i] # NoTomb => loaded.rec.layers = eng.rec.layers
  BY <1>1, LoadedShows
<1>4. Steps(e) /\ Blame(FALSE) /\ UNCHANGED <<stamp, answering>>
  BY DEF Reload, Reloaded
<1> HIDE DEF loaded
<1>5. named \in Command
  BY <1>1, <1>2 DEF Fit, Engine
<1>6. stamp = "ours" => named = eng.named
  OBVIOUS
<1> HIDE DEF named
<1>7. /\ Fit(e) /\ e.rec = loaded.rec /\ e.prev = loaded.prev /\ e.room = loaded.room
      /\ e.timers = loaded.timers /\ e.last = loaded.last /\ e.named = named
  BY <1>2, <1>5, OtherFields DEF Fit, Engine
<1> HIDE DEF e
<1>8. /\ eng'.rec.observed = o /\ eng'.rec.atDrop = loaded.rec.atDrop
      /\ eng'.prev = Away /\ eng'.room = Nothing /\ eng'.timers = {"grace"}
      /\ eng'.last = loaded.last /\ eng'.named = named
      /\ eng'.rec.layers = loaded.rec.layers /\ eng'.rec.tombs = loaded.rec.tombs
  BY <1>3, <1>4, <1>7, StepsTake
<1>9. Otherwise(eng'.rec) => Otherwise(eng.rec)
  BY <1>1, <1>3, <1>8, CloseToItself DEF Otherwise, Available
<1>10. Explained'
  BY <1>4, <1>8, <1>9, StillSomeones DEF Explained, Blame, Otherwise
<1>11. OwnAnswer'
  BY <1>3, <1>4, <1>6, <1>8 DEF OInv, OwnAnswer, Available
<1>12. ~TakesBack
  BY <1>3, <1>8 DEF TakesBack, Live, Present
<1> QED BY <1>10, <1>11, <1>12 DEF Accounts

\* Home Assistant restarts.
LEMMA RestartAccounts ==
  ASSUME OInv, NEW o \in Reports \cup {Away}, Restart(o)
  PROVE  Accounts
<1> DEFINE e == Loaded(eng, o)
           was == Shown(eng.rec)
           used == \/ ~Close(o, was)
                   \/ Close(was, eng.rec.atDrop) /\ ~Close(o, eng.rec.atDrop)
<1>1. Fit(eng) /\ o \in Report
  BY OwnEngine, EvidenceAssumption, ConstantCommands
<1>2. Fit(e)
  BY <1>1, LoadedFit
<1>3. /\ e.prev = Away /\ e.room = Nothing /\ e.timers = {"grace"} /\ e.rec.observed = o
      /\ e.rec.atDrop = Away
         \/ e.rec.atDrop = IF eng.rec.atDrop = Away THEN eng.rec.observed ELSE eng.rec.atDrop
      /\ \A i \in Id : e.rec.tombs[i] # NoTomb => e.rec.layers = eng.rec.layers
  BY <1>1, LoadedShows
<1>4. Steps(e) /\ Blame(o # Away /\ used) /\ answering' = Idle
  BY DEF Restart
<1> HIDE DEF e
<1>5. /\ eng'.rec.observed = o /\ eng'.rec.atDrop = e.rec.atDrop
      /\ eng'.prev = Away /\ eng'.room = Nothing /\ eng'.timers = {"grace"}
      /\ eng'.rec.layers = e.rec.layers /\ eng'.rec.tombs = e.rec.tombs
  BY <1>2, <1>3, <1>4, StepsTake
<1>6. Otherwise(eng'.rec) => used \/ Otherwise(eng.rec)
  <2>1. Away.state = "away"
    BY DEF Away, Cmd
  <2>2. o.state # "away" => ~Close(o, Away)
    BY <2>1 DEF Close
  <2>3. eng.rec.atDrop = Away => was \in {eng.rec.observed, Away}
    BY DEF Shown
  <2>4. was \in {eng.rec.observed, eng.rec.atDrop}
    BY DEF Shown
  <2>5. Available(eng.rec) <=> eng.rec.observed.state # "away"
    BY DEF Available
  <2>6. Available(eng.rec) => was = eng.rec.observed
    BY DEF Shown
  <2>7. ~Available(eng.rec) => was = eng.rec.atDrop
    BY DEF Shown
  <2>8. CASE eng.rec.atDrop = Away
    BY <1>3, <1>5, <2>2, <2>6, <2>7, <2>8 DEF Otherwise, Available
  <2>9. CASE eng.rec.atDrop # Away
    BY <1>3, <1>5, <2>6, <2>7, <2>9 DEF Otherwise, Available
  <2> QED BY <2>8, <2>9
<1>7. Otherwise(eng'.rec) => o # Away
  BY <1>5 DEF Otherwise, Available, Away, Cmd
<1>8. o # Away /\ used => touched'
  BY <1>4 DEF Blame, Noted
<1>9. Otherwise(eng.rec) /\ eng'.rec.atDrop # Away => touched' \/ moved'
  BY <1>4 DEF Blame, Noted, OInv, Explained, Pending, Otherwise
<1>10. Explained'
  BY <1>5, <1>6, <1>7, <1>8, <1>9 DEF Explained, Otherwise
<1>11. OwnAnswer'
  BY <1>4, NoAnswer DEF Idle
<1>12. ~TakesBack
  BY <1>3, <1>5 DEF TakesBack, Live, Present
<1> QED BY <1>10, <1>11, <1>12 DEF Accounts

\* An attempt (_run): from then on the last command, and what is under way, is ours.
LEMMA AttemptAccounts ==
  ASSUME OInv, Attempt
  PROVE  Accounts
<1> DEFINE cmd == eng.job.call
           stale == eng.job.phase = "again" /\ Wanted(eng) # cmd
           reached == ~stale /\ Available(eng.rec)
           sent == [eng EXCEPT
                      !.job.phase = IF @ = "new" THEN "sent" ELSE "resent",
                      !.rec.owed = "owed", !.rec.last = Past(@),
                      !.named = IF reached THEN cmd ELSE @,
                      !.last = [by |-> "ours", target |-> cmd,
                                from |-> OnOff(eng.rec.observed),
                                open |-> TRUE, arrived |-> "no"]]
           over == Settles(Ended(eng))
<1>1. /\ Fit(eng) /\ eng.rec \in Record /\ eng \in Engine /\ eng.prev = Away
      /\ cmd \in Command \ {Nothing}
  <2>1. IInv /\ eng.job.phase # "none"
    BY OwnEngine DEF Attempt
  <2> QED BY <2>1, NothingBesideTask DEF Fit, Good
<1>2. CASE stale
  <2>1. Steps(over) /\ Blame(FALSE) /\ UNCHANGED <<stamp, answering>>
    BY <1>2 DEF Attempt
  <2>2. Fit(Ended(eng)) /\ TakesNone(eng, Ended(eng))
    BY <1>1, EndedFit, FieldsTake DEF Ended
  <2>3. Fit(over) /\ TakesNone(eng, over)
    BY <1>1, <2>2, EndedFit, CancelTakes, TakesTransitive
  <2> QED BY <2>1, <2>3, TookNothing
<1>3. CASE ~stale
  <2>1. /\ eng'.rec.observed = eng.rec.observed /\ eng'.rec.atDrop = eng.rec.atDrop
        /\ eng'.rec.layers = eng.rec.layers
        /\ eng'.prev = eng.prev /\ eng'.room = eng.room /\ eng'.timers = eng.timers
        /\ eng'.named = IF reached THEN cmd ELSE eng.named
        /\ eng'.last.by = "ours" /\ eng'.last.target = cmd /\ eng'.last.arrived = "no"
    <3>1. Steps(sent)
      BY <1>3 DEF Attempt
    <3> QED BY <1>1, <3>1 DEF Steps, Engine, Record
  <2>2. /\ stamp' = IF reached THEN "ours" ELSE stamp
        /\ answering' = IF reached THEN [cmd |-> cmd, by |-> "ours"] ELSE answering
        /\ Noted(FALSE)
    BY DEF Attempt, Blame
  <2>3. Explained'
    BY <2>1, <2>2, ExplainedStays DEF SameSight
  <2>4. OwnAnswer'
    <3>1. CASE Available(eng.rec)
      <4>1. reached
        BY <1>3, <3>1
      <4> HIDE DEF reached
      <4> QED BY <1>1, <2>1, <2>2, <3>1, <4>1 DEF OwnAnswer, Available
    <3>2. CASE ~Available(eng.rec)
      BY <2>2, <3>2, AwayAnswersNothing, NoAnswer
    <3> QED BY <3>1, <3>2
  <2>5. ~TakesBack
    BY <2>1 DEF TakesBack, Live, Present
  <2> QED BY <2>3, <2>4, <2>5 DEF Accounts
<1> QED BY <1>2, <1>3

\* A step that leaves what is to be judged, what is known of the last command and
\* every layer.
LEMMA SameLamp ==
  ASSUME OInv, Blame(FALSE), UNCHANGED <<stamp, answering>>,
         eng'.rec.observed = eng.rec.observed, eng'.rec.atDrop = eng.rec.atDrop,
         eng'.prev = eng.prev, eng'.room \in {eng.room, Nothing},
         eng'.timers = eng.timers, eng'.named = eng.named, eng'.last = eng.last,
         \A i \in Id : Present(eng.rec.layers, i) => Present(eng'.rec.layers, i)
  PROVE  Accounts
<1>1. Explained'
  BY ExplainedStays DEF SameSight, Blame
<1>2. OwnAnswer'
  BY AnswerStays
<1>3. ~TakesBack
  BY DEF TakesBack, Live
<1> QED BY <1>1, <1>2, <1>3 DEF Accounts

\* A read-back (_run).
LEMMA ReadBackAccounts ==
  ASSUME OInv, ReadBack
  PROVE  Accounts
<1> DEFINE ended == Ended(eng)
           over == Settles(ended)
           sure == [over EXCEPT !.rec.diverged = "none"]
           verified == [sure EXCEPT !.late = eng.job.call]
           failed == [over EXCEPT !.rec.diverged = "delivery"]
           job == [eng.job EXCEPT !.phase = "again"]
           again == [eng EXCEPT !.job = job]
<1>1. /\ Fit(eng) /\ eng.prev = Away
      /\ eng.job \in [call : Command \ {Nothing}, phase : {"new", "sent", "again", "resent"}]
  <2>1. IInv /\ eng.job.phase # "none"
    BY OwnEngine DEF ReadBack
  <2> QED BY <2>1, NothingBesideTask
<1>2. /\ [over EXCEPT !.rec.diverged = "none", !.late = eng.job.call] = verified
      /\ [eng EXCEPT !.job.phase = "again"] = again
  BY <1>1 DEF Fit, Engine
<1>3. Fit(ended) /\ TakesNone(eng, ended)
  BY <1>1, EndedFit, FieldsTake DEF Ended
<1>4. Steps(ended) \/ Steps(over) \/ Steps(verified) \/ Steps(failed) \/ Steps(again)
  <2> HIDE DEF verified, again
  <2> QED BY <1>2 DEF ReadBack
<1> HIDE DEF ended
<1>5. Fit(over) /\ TakesNone(eng, over)
  BY <1>3, SettlesFit, CancelTakes, TakesTransitive
<1> HIDE DEF over
<1>6. Fit(sure) /\ TakesNone(eng, sure) /\ Fit(failed) /\ TakesNone(eng, failed)
  BY <1>5, OtherNotes, NoNotes, FieldsTake, TakesTransitive
<1> HIDE DEF sure, failed
<1>7. Fit(verified) /\ TakesNone(eng, verified)
  <2>1. eng.job.call \in Command
    BY <1>1
  <2>2. Fit(verified) /\ TakesNone(sure, verified)
    BY <1>6, <2>1, OtherFields, FieldsTake
  <2> HIDE DEF verified
  <2> QED BY <1>6, <2>2, TakesTransitive
<1>8. job \in Job
  BY <1>1 DEF Job
<1> HIDE DEF job, verified
<1>9. Fit(again) /\ TakesNone(eng, again)
  BY <1>1, <1>8, OtherFields, FieldsTake
<1> HIDE DEF again
<1> QED BY <1>3, <1>4, <1>5, <1>6, <1>7, <1>9, TookNothing DEF ReadBack

\* A window closes: Home Assistant's context, a room's call, or the last command's.
LEMMA WindowAccounts ==
  ASSUME OInv, WindowCloses
  PROVE  Accounts
<1> DEFINE named == [eng EXCEPT !.named = Nothing]
           roomed == [eng EXCEPT !.room = Nothing]
           closed == [eng EXCEPT !.last = Closed(eng.last)]
           held == [eng EXCEPT !.last = [eng.last EXCEPT !.arrived = "held"]]
<1>1. Fit(eng) /\ eng.last \in LastCommand
  BY OwnEngine DEF Fit, Engine
<1>2. Blame(FALSE) /\ UNCHANGED answering
  BY DEF WindowCloses
<1>3. /\ [eng EXCEPT !.last.arrived = "held"] = held
      /\ [eng EXCEPT !.last = Closed(@)] = closed
  BY <1>1 DEF Fit, Engine
<1>4. \/ stamp' = "none" /\ Steps(named)
      \/ UNCHANGED stamp /\ Steps(roomed)
      \/ UNCHANGED stamp /\ Steps(closed)
      \/ UNCHANGED stamp /\ eng.last.arrived = "showing" /\ Steps(held)
  <2> HIDE DEF held, closed
  <2> QED BY <1>3 DEF WindowCloses
<1>5. /\ Fit(named) /\ Fit(roomed) /\ Fit(closed) /\ Fit(held)
  <2>1. Closed(eng.last) \in LastCommand /\ [eng.last EXCEPT !.arrived = "held"] \in LastCommand
    BY <1>1, LastTypes, ConstantCommands
  <2> QED BY <1>1, <2>1, OtherFields, ConstantCommands
<1>6. \A e \in {named, roomed, closed, held} :
         /\ e.rec = eng.rec /\ e.prev = eng.prev /\ e.timers = eng.timers
         /\ e.room \in {eng.room, Nothing}
  BY <1>1 DEF Fit, Engine
<1>7. /\ named.last = eng.last
      /\ roomed.last = eng.last /\ roomed.named = eng.named
      /\ closed.last = Closed(eng.last) /\ closed.named = eng.named
      /\ held.last.by = eng.last.by /\ held.named = eng.named
  BY <1>1 DEF Fit, Engine, LastCommand
<1>8. /\ Closed(eng.last).by = eng.last.by /\ Closed(eng.last).arrived = eng.last.arrived
      /\ eng.last.by # "theirs" => Closed(eng.last).target = eng.last.target
  BY <1>1 DEF Closed, LastCommand
<1> HIDE DEF named, roomed, closed, held
<1>9. PICK e \in {named, roomed, closed, held} : Fit(e) /\ Steps(e)
  BY <1>4, <1>5
<1>10. /\ eng'.rec.observed = eng.rec.observed /\ eng'.rec.atDrop = eng.rec.atDrop
       /\ eng'.rec.layers = eng.rec.layers
       /\ eng'.prev = eng.prev /\ eng'.room \in {eng.room, Nothing}
       /\ eng'.timers = eng.timers
  BY <1>6, <1>9, StepsTake
<1>11. Explained'
  BY <1>2, <1>10, ExplainedStays DEF SameSight, Blame
<1>12. ~TakesBack
  BY <1>10 DEF TakesBack, Live, Present
<1>13. OwnAnswer'
  <2>1. CASE stamp' = "none" /\ Steps(named)
    <3>1. eng'.last = eng.last
      BY <1>5, <1>7, <2>1, StepsTake
    <3> QED BY <1>2, <1>10, <2>1, <3>1 DEF OInv, OwnAnswer, Available
  <2>2. CASE UNCHANGED stamp /\ Steps(roomed)
    <3>1. eng'.last = eng.last /\ eng'.named = eng.named
      BY <1>5, <1>7, <2>2, StepsTake
    <3> QED BY <1>2, <1>10, <2>2, <3>1, AnswerStays
  <2>3. CASE UNCHANGED stamp /\ Steps(closed)
    <3>1. eng'.last = Closed(eng.last) /\ eng'.named = eng.named
      BY <1>5, <1>7, <2>3, StepsTake
    <3> QED BY <1>2, <1>8, <1>10, <2>3, <3>1 DEF OInv, OwnAnswer, Available
  <2>4. CASE UNCHANGED stamp /\ eng.last.arrived = "showing" /\ Steps(held)
    <3>1. eng'.last.by = eng.last.by /\ eng'.named = eng.named
      BY <1>5, <1>7, <2>4, StepsTake
    <3> QED BY <1>2, <1>10, <2>4, <3>1 DEF OInv, OwnAnswer, Available
  <2> QED BY <1>4, <2>1, <2>2, <2>3, <2>4
<1> QED BY <1>11, <1>12, <1>13 DEF Accounts

\* A lease ends: the layer is no longer in force, but still there.
LEMMA RunOutAccounts ==
  ASSUME OInv, NEW i \in Id, RunOut(i)
  PROVE  Accounts
<1> DEFINE p == [eng.rec EXCEPT !.layers[i].lease = "over"]
           q == [eng.rec EXCEPT !.tombs[i].lease = "over"]
<1>1. Fit(eng) /\ eng.rec \in Record /\ eng.rec.layers \in [Id -> Layer \cup {NoLayer}]
  BY OwnEngine DEF Fit, Good, Record
<1>2. /\ Present(eng.rec.layers, i) => Good(p)
      /\ eng.rec.tombs[i] # NoTomb => Good(q)
  BY <1>1, LeaseOver DEF Fit
<1>3. /\ [eng EXCEPT !.rec.layers[i].lease = "over"] = [eng EXCEPT !.rec = p]
      /\ [eng EXCEPT !.rec.tombs[i].lease = "over"] = [eng EXCEPT !.rec = q]
  BY <1>1 DEF Fit, Engine
<1>4. /\ p.observed = eng.rec.observed /\ p.atDrop = eng.rec.atDrop
      /\ q.observed = eng.rec.observed /\ q.atDrop = eng.rec.atDrop
      /\ q.layers = eng.rec.layers
  BY <1>1 DEF Record
<1>5. Present(eng.rec.layers, i) =>
        \A j \in Id : Present(eng.rec.layers, j) => Present(p.layers, j)
  <2> SUFFICES ASSUME Present(eng.rec.layers, i)
               PROVE  \A j \in Id : Present(eng.rec.layers, j) => Present(p.layers, j)
    OBVIOUS
  <2>1. eng.rec.layers[i] \in Layer
    BY <1>1 DEF Present
  <2>2. [eng.rec.layers[i] EXCEPT !.lease = "over"] \in Layer
    BY <2>1 DEF Layer, Lease
  <2>3. p.layers = [eng.rec.layers EXCEPT ![i] = [eng.rec.layers[i] EXCEPT !.lease = "over"]]
    BY <1>1 DEF Record
  <2> HIDE DEF p
  <2> QED BY <1>1, <2>2, <2>3, LayerAssumption DEF Present
<1> HIDE DEF p, q
<1>6. \E r \in {p, q} :
         /\ Good(r) /\ Steps([eng EXCEPT !.rec = r])
         /\ \A j \in Id : Present(eng.rec.layers, j) => Present(r.layers, j)
  BY <1>2, <1>3, <1>4, <1>5 DEF RunOut
<1>7. PICK r \in {p, q} :
         /\ Good(r) /\ Steps([eng EXCEPT !.rec = r])
         /\ \A j \in Id : Present(eng.rec.layers, j) => Present(r.layers, j)
  BY <1>6
<1> DEFINE e == [eng EXCEPT !.rec = r]
<1>8. /\ Fit(e) /\ Steps(e) /\ e.rec = r /\ e.prev = eng.prev /\ e.room = eng.room
      /\ e.timers = eng.timers /\ e.named = eng.named /\ e.last = eng.last
  BY <1>1, <1>7, OtherRecord DEF Fit, Engine
<1> HIDE DEF e
<1>9. /\ eng'.rec.observed = eng.rec.observed /\ eng'.rec.atDrop = eng.rec.atDrop
      /\ eng'.rec.layers = r.layers
      /\ eng'.prev = eng.prev /\ eng'.room = eng.room /\ eng'.timers = eng.timers
      /\ eng'.named = eng.named /\ eng'.last = eng.last
  BY <1>4, <1>7, <1>8, StepsTake
<1> QED BY <1>7, <1>9, SameLamp DEF RunOut

\* What nobody asks about any more is forgotten.
LEMMA ForgetAccounts ==
  ASSUME OInv, Forget
  PROVE  Accounts
<1> DEFINE p == [eng.rec EXCEPT !.last = Forgotten]
           q == [eng.rec EXCEPT !.owed = "old"]
<1>1. Fit(eng) /\ eng.rec \in Record
  BY OwnEngine DEF Fit, Good
<1>2. Forgotten \in External
  BY DEF Forgotten, External, Take, ChangeSource
<1>3. /\ p \in Record /\ p.layers = eng.rec.layers /\ p.tombs = eng.rec.tombs
      /\ q \in Record /\ q.layers = eng.rec.layers /\ q.tombs = eng.rec.tombs
      /\ Retains(eng.rec, p) /\ Retains(eng.rec, q)
  BY <1>1, <1>2, NoNotes DEF Record, Retains, SameSight
<1>4. /\ [eng EXCEPT !.rec.last = Forgotten] = [eng EXCEPT !.rec = p]
      /\ [eng EXCEPT !.rec.owed = "old"] = [eng EXCEPT !.rec = q]
  BY <1>1 DEF Fit, Engine
<1> HIDE DEF p, q
<1>5. Good(p) /\ Good(q)
  BY <1>1, <1>3, SameLayers, GoodKept DEF Fit
<1>6. PICK r \in {p, q} : Steps([eng EXCEPT !.rec = r])
  BY <1>4 DEF Forget
<1>7. Fit([eng EXCEPT !.rec = r]) /\ TakesNone(eng, [eng EXCEPT !.rec = r])
  BY <1>1, <1>3, <1>5, <1>6, OtherRecord, RecordTakes
<1> QED BY <1>6, <1>7, TookNothing DEF Forget

\* A person's call (_on_call).
LEMMA CallAccounts ==
  ASSUME OInv, NEW cmd \in Calls, NEW room \in BOOLEAN, Call(cmd, room)
  PROVE  Accounts
<1>1. /\ eng'.rec.observed = eng.rec.observed
      /\ \/ Available(eng.rec) => eng'.rec.atDrop = Away
         \/ eng'.rec.atDrop = eng.rec.atDrop /\ eng'.timers = eng.timers
  BY OwnEngine, CallKeeps
<1>2. /\ Noted(TRUE)
      /\ answering' = IF Available(eng.rec)
                      THEN [cmd |-> cmd, by |-> IF room THEN "room" ELSE "call"]
                      ELSE answering
  BY DEF Call, Blame
<1>3. Explained' /\ touched'
  BY <1>1, <1>2, ExplainedBy DEF OInv, Explained, Available
<1>4. OwnAnswer'
  BY <1>2, AwayAnswersNothing, NoAnswer
<1> QED BY <1>3, <1>4 DEF Accounts

\* A report on the record: the layers, and what else is known, are as they were.
LEMMA SeenShows ==
  ASSUME NEW e, Fit(e), NEW new \in Report \ {Away}
  PROVE  LET seen == Seen(e, new)
         IN /\ Fit(seen) /\ Available(seen.rec) /\ seen.rec.observed = new
            /\ seen.rec.layers = e.rec.layers /\ seen.rec.atDrop = e.rec.atDrop
            /\ seen.prev = e.prev /\ seen.room = e.room /\ seen.timers = e.timers
            /\ seen.named = e.named /\ seen.last = Arriving(e.last, new)
            /\ seen.job = e.job /\ seen.retried = e.retried
<1> DEFINE r == Showing(e.rec, new)
           seen == Seen(e, new)
<1>1. e \in Engine /\ e.rec \in Record
  BY DEF Fit, Good
<1>2. r.observed = new /\ r.layers = e.rec.layers /\ r.atDrop = e.rec.atDrop
  BY <1>1 DEF Showing, Record
<1>3. /\ seen.rec = r
      /\ seen.prev = e.prev /\ seen.room = e.room /\ seen.timers = e.timers
      /\ seen.named = e.named /\ seen.last = Arriving(e.last, new)
      /\ seen.job = e.job /\ seen.retried = e.retried
  BY <1>1 DEF Seen, Engine
<1>4. new.state # "away"
  BY DEF Report, Away, Cmd
<1> HIDE DEF r
<1>5. Fit(seen)
  BY SeenFit
<1> HIDE DEF seen
<1>6. Available(seen.rec)
  BY <1>2, <1>3, <1>4 DEF Available
<1> QED BY <1>2, <1>3, <1>5, <1>6 DEF seen

\* Whatever a report is taken for, the lamp shows it, and what it showed when it
\* dropped is as it was or out of date (_handle_state).
LEMMA HandledShows ==
  ASSUME NEW e, Fit(e), NEW new \in Report \ {Away}, NEW ctx
  PROVE  LET f == Handled(e, new, ctx)
         IN /\ f.rec.observed = new /\ f.rec.atDrop \in {e.rec.atDrop, Away}
            /\ f.timers = e.timers \/ f.rec.atDrop = Away
            /\ f.named = e.named /\ f.last = Arriving(e.last, new)
<1> DEFINE seen == Seen(e, new)
           old == e.rec.observed
           v == Judge(e, new, ctx)
           flushed == Flush(seen)
           f == ActedOn(seen, old, v)
           Agrees(g) == /\ g.rec.observed = new /\ g.rec.atDrop \in {e.rec.atDrop, Away}
                        /\ g.timers = e.timers \/ g.rec.atDrop = Away
                        /\ g.named = e.named /\ g.last = Arriving(e.last, new)
<1>1. /\ Fit(seen) /\ Available(seen.rec) /\ seen.rec.observed = new
      /\ seen.rec.atDrop = e.rec.atDrop /\ seen.timers = e.timers
      /\ seen.named = e.named /\ seen.last = Arriving(e.last, new)
  BY SeenShows
<1>2. v.kind \in {"external", "follow_up"} => v.groups \in Take /\ v.source \in ChangeSource
  BY JudgeTypes
<1>3. Handled(e, new, ctx) = f
  BY DEF Handled, Seen
<1> HIDE DEF seen, old, v, f, flushed
<1>4. \A g : LearnsNothing(seen, g) => Agrees(g)
  BY <1>1 DEF LearnsNothing, SameSight
<1>5. \A g, p : g \in Engine /\ Agrees(g) => Agrees([g EXCEPT !.prev = p])
  BY DEF Engine
<1>6. CASE v.kind = "ours"
  <2>1. f = OffSeen(seen)
    BY <1>6 DEF ActedOn, f
  <2> QED BY <1>1, <1>3, <1>4, <2>1, PartsTake, TakesTransitive
<1>7. CASE v.kind \in {"external", "follow_up"}
  <2>1. f \in {Taken(seen, v.groups, v.source), seen}
    BY <1>7 DEF ActedOn, f
  <2>2. LearnsNothing(seen, f)
    BY <1>1, <1>2, <1>7, <2>1, TakenTakes, TakesTransitive
  <2> QED BY <1>3, <1>4, <2>2
<1>8. CASE v.kind = "failed" /\ seen.timers = {}
  <2> DEFINE noted == [flushed EXCEPT !.rec.diverged = "delivery"]
             again == [flushed EXCEPT !.retried = TRUE]
             waits == StartDebounce(flushed, old)
  <2>1. Fit(flushed) /\ LearnsNothing(seen, flushed)
    BY <1>1, FlushFit, SettledTakes DEF flushed
  <2>2. f \in {noted, waits, Send(again, "again")}
    BY <1>8 DEF ActedOn, FailedDelivery, flushed, f
  <2>3. LearnsNothing(seen, noted)
    <3>1. TakesNone(flushed, noted)
      BY <2>1, FieldsTake
    <3> HIDE DEF noted
    <3> QED BY <2>1, <3>1, TakesTransitive
  <2>4. Fit(again) /\ TakesNone(flushed, again)
    BY <2>1, FieldsTake DEF Fit, Engine
  <2>5. Agrees(waits)
    BY <1>4, <1>5, <2>1 DEF StartDebounce, Fit
  <2> HIDE DEF again, noted, waits
  <2>6. LearnsNothing(seen, Send(again, "again"))
    BY <2>1, <2>4, SendTakes, TakesTransitive
  <2> QED BY <1>3, <1>4, <2>2, <2>3, <2>5, <2>6
<1>9. CASE v.kind = "debounce" /\ seen.timers = {}
  <2>1. f = StartDebounce(seen, old)
    BY <1>9 DEF ActedOn, f
  <2>2. Agrees(seen)
    BY <1>4, TakesTransitive
  <2> QED BY <1>1, <1>3, <1>5, <2>1, <2>2 DEF StartDebounce, Fit
<1>10. CASE /\ v.kind \notin {"ours", "external", "follow_up"}
            /\ ~(v.kind = "failed" /\ seen.timers = {})
            /\ ~(v.kind = "debounce" /\ seen.timers = {})
  <2>1. f = seen
    BY <1>10 DEF ActedOn, f
  <2> QED BY <1>3, <1>4, <2>1, TakesTransitive
<1> QED BY <1>6, <1>7, <1>8, <1>9, <1>10

\* What is put down to our own command, or to noise, takes nothing; nor does our
\* own command, reversed, that is sent again.
LEMMA HandledTakes ==
  ASSUME NEW e, Fit(e), NEW new \in Report \ {Away}, NEW ctx
  PROVE  LET kind == Judge(e, new, ctx).kind
             f == Handled(e, new, ctx)
         IN /\ kind \in {"ours", "noise"} => TakesNone(Seen(e, new), f)
            /\ kind = "failed" /\ e.timers = {} /\ e.prev = Away
               /\ e.last.by = "ours" /\ ~e.retried => TakesNone(Seen(e, new), f)
<1> DEFINE seen == Seen(e, new)
           old == e.rec.observed
           v == Judge(e, new, ctx)
           again == [seen EXCEPT !.retried = TRUE]
           f == ActedOn(seen, old, v)
<1>1. /\ Fit(seen) /\ seen.timers = e.timers /\ seen.prev = e.prev
      /\ seen.last = Arriving(e.last, new) /\ seen.retried = e.retried
  BY SeenShows
<1>2. Handled(e, new, ctx) = f
  BY DEF Handled, Seen
<1>3. seen.last.by = e.last.by
  BY SeenFit
<1> HIDE DEF seen, old, v, f
<1>4. TakesNone(seen, OffSeen(seen)) /\ TakesNone(seen, seen)
  BY <1>1, PartsTake, TakesTransitive
<1>5. v.kind \in {"ours", "noise"} => f \in {OffSeen(seen), seen}
  BY DEF ActedOn, f
<1>6. Fit(again) /\ TakesNone(seen, again)
  BY <1>1, FieldsTake DEF Fit, Engine
<1>7. v.kind = "failed" /\ e.timers = {} /\ e.prev = Away /\ e.last.by = "ours" /\ ~e.retried
        => f = Send(again, "again")
  BY <1>1, <1>3 DEF ActedOn, FailedDelivery, Flush, f
<1> HIDE DEF again
<1>8. TakesNone(seen, Send(again, "again"))
  BY <1>6, SendTakes, TakesTransitive
<1> QED BY <1>2, <1>4, <1>5, <1>7, <1>8 DEF v, seen

\* What a lamp does on a command of ours is put down to it, to noise, or to the call
\* for a room that someone made meanwhile (classify_state).
LEMMA OwnJudged ==
  ASSUME OInv, NEW o \in Reports, Answer(o), answering.by = "ours"
  PROVE  \/ Judge(eng, o, stamp).kind \in {"ours", "noise"}
         \/ eng.room # Nothing
<1> DEFINE c == answering.cmd
           old == eng.rec.observed
           mine == stamp = "ours" /\ eng.named # Nothing
           reused == mine /\ ~Consistent(old, o, eng.named)
<1>1. /\ c # Nothing /\ stamp \in {"ours", "none"} /\ (stamp = "ours" => eng.named = c)
      /\ eng.last.by # "theirs" /\ (eng.last.by = "ours" => eng.last.arrived = "no")
  BY DEF OInv, OwnAnswer
<1>2. Alive(eng) \/ stamp = "ours"
  BY DEF Answer, Answers
<1>3. ShowsTarget(o, c) \/ eng.job.phase \in {"sent", "resent"}
  BY DEF Answer
<1>4. ShowsTarget(o, c) => Consistent(old, o, c)
  BY DEF Consistent
<1>5. eng.job.phase \in {"sent", "resent"} => Alive(eng)
  BY DEF Alive, NoJob
<1>6. CASE mine /\ ~reused
  BY <1>6 DEF Judge, Verdict
<1>7. CASE ~(mine /\ ~reused) /\ eng.room = Nothing
  <2>1. Alive(eng)
    BY <1>1, <1>2, <1>3, <1>4, <1>5, <1>7
  <2>2. stamp # "call" /\ stamp # "other" /\ ~(stamp = "ours" /\ ~mine)
    BY <1>1
  <2>3. ~MovedByHand(eng, old, o, reused)
    BY <1>1 DEF MovedByHand
  <2> HIDE DEF reused
  <2> QED BY <1>1, <1>7, <2>1, <2>2, <2>3 DEF Judge, Verdict, reused
<1> QED BY <1>6, <1>7

\* A bridge that undoes our command while nothing else is to be judged is known to
\* have, or is noise of a render that goes on (_late_rollback).
LEMMA RevertJudged ==
  ASSUME NEW o \in Reports, Available(eng.rec), eng.last.open, eng.last.by = "ours",
         Flipped(eng.rec.observed, o), o.state = eng.last.from, Switches(eng.last),
         ~Pending
  PROVE  Judge(eng, o, "none").kind \in {"noise", "failed"}
<1> DEFINE old == eng.rec.observed
<1>1. eng.room = Nothing /\ eng.timers = {}
  BY DEF Pending
<1>2. Late(eng.last, old, o)
  BY DEF Late, Switches
<1>3. ~MovedByHand(eng, old, o, FALSE)
  BY DEF MovedByHand, MovedAway
<1>4. Reversed(eng, old, o, FALSE)
  BY <1>2 DEF Reversed
<1> QED BY <1>1, <1>3, <1>4 DEF Judge, Verdict

\* What the lamp reports of someone's doing.
LEMMA SomeoneAccounts ==
  ASSUME OInv, NEW o \in Reports, NEW ctx, Available(eng.rec), Appears(o, ctx, TRUE)
  PROVE  Explained' /\ touched'
<1> DEFINE e == Handled(eng, o, ctx)
<1>1. Steps(e) /\ Noted(TRUE)
  BY DEF Appears
<1>2. /\ Fit(e) /\ e.rec.atDrop \in {eng.rec.atDrop, Away}
      /\ e.timers = eng.timers \/ e.rec.atDrop = Away
  BY OwnEngine, HandledFit, HandledShows, EvidenceAssumption
<1> HIDE DEF e
<1>3. eng'.timers = {} => eng'.rec.atDrop = Away
  BY <1>1, <1>2, StepsTake DEF OInv, Explained
<1> QED BY <1>1, <1>3, ExplainedBy

\* Someone uses the lamp.
LEMMA PersonAccounts ==
  ASSUME OInv, NEW o \in Reports, NEW named \in BOOLEAN, Person(o, named)
  PROVE  Accounts
<1>1. Explained' /\ touched'
  BY SomeoneAccounts DEF Person
<1>2. OwnAnswer'
  BY NoAnswer DEF Person, Idle
<1> QED BY <1>1, <1>2 DEF Accounts

\* What the lamp reports of ours: it takes nothing, and what else is to be judged is
\* as it was.
LEMMA OursAccounts ==
  ASSUME OInv, NEW o \in Reports, NEW ctx, Available(eng.rec), Appears(o, ctx, FALSE),
         TakesNone(Seen(eng, o), Handled(eng, o, ctx)),
         answering.by = "ours" \/ eng.rec.atDrop = Away
  PROVE  Explained' /\ ~TakesBack
<1> DEFINE e == Handled(eng, o, ctx)
           seen == Seen(eng, o)
<1>1. Steps(e) /\ Noted(FALSE)
  BY DEF Appears
<1>2. /\ Fit(e) /\ e.rec.atDrop \in {eng.rec.atDrop, Away}
      /\ e.timers = eng.timers \/ e.rec.atDrop = Away
  BY OwnEngine, HandledFit, HandledShows, EvidenceAssumption
<1>3. /\ seen.rec.layers = eng.rec.layers /\ seen.prev = eng.prev /\ seen.room = eng.room
  BY OwnEngine, SeenShows, EvidenceAssumption
<1>4. TakesNone(seen, e)
  OBVIOUS
<1> HIDE DEF e, seen
<1>5. /\ eng'.prev \in {eng.prev, Away} /\ eng'.room \in {eng.room, Nothing}
      /\ eng'.rec.atDrop \in {eng.rec.atDrop, Away}
      /\ eng'.timers = eng.timers \/ eng'.rec.atDrop = Away
  BY <1>1, <1>2, <1>3, <1>4, StepsTake DEF TakesNone, LearnsNothing
<1>6. Otherwise(eng'.rec) => moved'
  BY <1>1, <1>5 DEF Otherwise, Noted
<1>7. Available(eng'.rec) /\ eng'.timers = {} => eng'.rec.atDrop = Away
  BY <1>5 DEF OInv, Explained
<1>8. Explained'
  BY <1>1, <1>5, <1>6, <1>7, StillSomeones DEF Explained
<1>9. \A i \in Live(eng.rec.layers) : Present(e.rec.layers, i)
  BY <1>3, <1>4 DEF TakesNone, Live
<1> QED BY <1>1, <1>2, <1>8, <1>9, NoneTaken

\* The lamp answers a command.
LEMMA AnswerAccounts ==
  ASSUME OInv, NEW o \in Reports, Answer(o)
  PROVE  Accounts
<1>1. /\ Appears(o, stamp, answering.by # "ours") /\ Available(eng.rec)
      /\ answering' = IF ShowsTarget(o, answering.cmd) THEN Idle ELSE answering
      /\ UNCHANGED stamp
  BY DEF Answer
<1>2. CASE answering.by # "ours"
  <2>1. Explained' /\ touched'
    BY <1>1, <1>2, SomeoneAccounts
  <2>2. OwnAnswer'
    BY <1>1, <1>2, NoAnswer DEF Idle
  <2> QED BY <2>1, <2>2 DEF Accounts
<1>3. CASE answering.by = "ours"
  <2> DEFINE e == Handled(eng, o, stamp)
  <2>1. Appears(o, stamp, FALSE) /\ Steps(e) /\ Noted(FALSE)
    BY <1>1, <1>3 DEF Appears
  <2>2. /\ Fit(eng) /\ Fit(e) /\ e.rec.observed = o /\ e.named = eng.named
        /\ e.last = Arriving(eng.last, o)
        /\ e.rec.atDrop \in {eng.rec.atDrop, Away}
        /\ e.timers = eng.timers \/ e.rec.atDrop = Away
    BY OwnEngine, HandledFit, HandledShows, EvidenceAssumption
  <2>3. Judge(eng, o, stamp).kind \in {"ours", "noise"} => TakesNone(Seen(eng, o), e)
    BY OwnEngine, HandledTakes, EvidenceAssumption
  <2>4. Judge(eng, o, stamp).kind \in {"ours", "noise"} \/ eng.room # Nothing
    BY <1>3, OwnJudged
  <2>5. TakesNone(Seen(eng, o), e) => Explained' /\ ~TakesBack
    BY <1>1, <1>3, <2>1, OursAccounts
  <2> HIDE DEF e
  <2>6. /\ eng'.rec.observed = o /\ eng'.named = eng.named
        /\ eng'.last = Arriving(eng.last, o)
        /\ eng'.rec.atDrop \in {eng.rec.atDrop, Away}
        /\ eng'.timers = eng.timers \/ eng'.rec.atDrop = Away
    BY <2>1, <2>2, StepsTake
  <2>7. eng.room # Nothing => Explained' /\ touched'
    <3>1. eng.room # Nothing => touched'
      BY <2>1, StillSomeones
    <3>2. touched' => Explained'
      BY <1>1, <2>6 DEF OInv, Explained
    <3> QED BY <3>1, <3>2
  <2>8. Explained' /\ (TakesBack => touched')
    BY <2>3, <2>4, <2>5, <2>7
  <2>9. OwnAnswer'
    <3>1. CASE ShowsTarget(o, answering.cmd)
      BY <1>1, <3>1, NoAnswer DEF Idle
    <3>2. CASE ~ShowsTarget(o, answering.cmd)
      <4>1. eng.last \in LastCommand
        BY <2>2 DEF Fit, Engine
      <4>2. /\ eng'.last.by = eng.last.by /\ (eng.last.by # "ours" => eng'.last = eng.last)
            /\ eng.last.by = "ours" /\ ~ShowsTarget(o, eng.last.target) =>
                 eng'.last.arrived = "no" /\ eng'.last.target = eng.last.target
        BY <2>6, <4>1 DEF Arriving, LastCommand
      <4>3. o.state # "away"
        BY EvidenceAssumption DEF Report, Away, Cmd
      <4>4. Available(eng'.rec)
        BY <2>6, <4>3 DEF Available
      <4> QED BY <1>1, <1>3, <2>6, <3>2, <4>2, <4>4 DEF OInv, OwnAnswer
    <3> QED BY <3>1, <3>2
  <2> QED BY <2>8, <2>9 DEF Accounts
<1> QED BY <1>2, <1>3

\* The bridge undoes a command: ours, known to be undone, is sent again.
LEMMA RevertAccounts ==
  ASSUME OInv, NEW o \in Reports, BridgeReverts(o)
  PROVE  Accounts
<1> DEFINE someone == eng.last.by # "ours" \/ eng.retried \/ Pending
<1>1. Appears(o, "none", someone) /\ Available(eng.rec) /\ answering' = Idle
  BY DEF BridgeReverts
<1>2. OwnAnswer'
  BY <1>1, NoAnswer DEF Idle
<1>3. CASE someone
  <2>1. someone = TRUE
    BY <1>3, OwnEngine DEF TypeOK, Engine, Pending
  <2> HIDE DEF someone
  <2>2. Explained' /\ touched'
    BY <1>1, <2>1, SomeoneAccounts
  <2> QED BY <1>2, <2>2 DEF Accounts
<1>4. CASE ~someone
  <2>1. someone = FALSE
    BY <1>4, OwnEngine DEF TypeOK, Engine, Pending
  <2>2. /\ eng.last.by = "ours" /\ ~eng.retried /\ ~Pending
        /\ eng.prev = Away /\ eng.timers = {}
    BY <1>4 DEF Pending
  <2> HIDE DEF someone
  <2>3. Judge(eng, o, "none").kind \in {"noise", "failed"}
    BY <2>2, RevertJudged DEF BridgeReverts
  <2>4. TakesNone(Seen(eng, o), Handled(eng, o, "none"))
    BY <2>2, <2>3, OwnEngine, HandledTakes, EvidenceAssumption
  <2>5. eng.rec.atDrop = Away
    BY <1>1, <2>2 DEF OInv, Explained
  <2>6. Appears(o, "none", FALSE)
    BY <1>1, <2>1
  <2>7. Explained' /\ ~TakesBack
    BY <1>1, <2>4, <2>5, <2>6, OursAccounts
  <2> QED BY <1>2, <2>7 DEF Accounts
<1> QED BY <1>3, <1>4

\* At first there is nothing to judge.
LEMMA InitOwn == Init => OInv
<1> SUFFICES ASSUME Init PROVE OInv
  OBVIOUS
<1>1. PICK o \in Reports : eng = Fresh(o)
  BY DEF Init
<1>2. /\ eng.prev = Away /\ eng.room = Nothing /\ eng.rec.atDrop = Away
      /\ eng.timers = {"grace"}
  BY <1>1 DEF Fresh, NewRecord
<1>3. Explained
  BY <1>2 DEF Explained, Otherwise
<1>4. OwnAnswer
  BY DEF Init, Idle, OwnAnswer
<1> QED BY <1>3, <1>4, InitHolds DEF OInv

\* Every step keeps what is known of who acted, and takes a layer back only where
\* someone else did, or where a command of ours was under way when the lamp dropped.
LEMMA StepOwn ==
  ASSUME OInv, [Next]_vars
  PROVE  /\ OInv'
         /\ UNCHANGED vars \/ (TakesBack => touched' \/ ((JudgeReturn \/ EndGrace) /\ moved))
<1>1. IInv'
  BY StepKeeps DEF OInv
<1>2. Accounts => Explained' /\ OwnAnswer' /\ (TakesBack => touched')
  BY DEF Accounts
<1>3. CASE Owner
  BY <1>1, <1>2, <1>3, SetAccounts, ClearAccounts DEF Owner, OInv
<1>4. CASE Someone
  BY <1>1, <1>2, <1>4, PersonAccounts, CallAccounts DEF Someone, OInv
<1>5. CASE World
  BY <1>1, <1>2, <1>5, AnswerAccounts, SilentAccounts, RevertAccounts, DropAccounts,
     ComeBackAccounts, ReloadAccounts, RestartAccounts DEF World, OInv
<1>6. CASE JudgeReturn \/ EndGrace
  BY <1>1, <1>6, ReturnAccounts, GraceAccounts DEF OInv
<1>7. CASE Timers /\ ~(JudgeReturn \/ EndGrace)
  BY <1>1, <1>2, <1>7, SettleAccounts, ExpireAccounts, LateCheckAccounts DEF Timers, OInv
<1>8. CASE Clock
  BY <1>1, <1>2, <1>8, WindowAccounts, ForgetAccounts, RunOutAccounts DEF Clock, OInv
<1>9. CASE Task
  BY <1>1, <1>2, <1>9, AttemptAccounts, ReadBackAccounts DEF Task, OInv
<1>10. CASE UNCHANGED vars
  BY <1>1, <1>10 DEF vars, OInv, Explained, OwnAnswer, Otherwise, Available
<1> QED BY <1>3, <1>4, <1>5, <1>6, <1>7, <1>8, <1>9, <1>10 DEF Next

\* What a lamp does on a command of Layers is never taken for a person's: a layer is
\* taken back only where someone else acted, but for a lamp a render moved between
\* its return and the judgement of it (classify_state, _judge_return, _end_grace_lamp).
THEOREM OwnIsNeverTaken == Spec => OwnNeverTaken
<1>1. OInv /\ [Next]_vars =>
        OInv' /\ [TakesBack => touched' \/ ((JudgeReturn \/ EndGrace) /\ moved)]_vars
  BY StepOwn
<1> QED BY InitOwn, <1>1, PTL DEF Spec, OwnNeverTaken
=============================================================================
