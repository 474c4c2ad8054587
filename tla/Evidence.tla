------------------------------ MODULE Evidence ------------------------------
(***************************************************************************)
(* Who did it: one lamp's reports, as the engine judges them.  A report    *)
(* says what the lamp shows and under which context Home Assistant wrote   *)
(* it, and the engine has to tell the lamp answering a command of its own, *)
(* a person, an automation and a bridge undoing a command from each other, *)
(* while its renders, debounces, returns and reloads go on.                *)
(*                                                                         *)
(* The lamp has the policy take_back and hangs on a bridge that reverts    *)
(* commands.  It is on with apply on, has no follow layer, and no replay   *)
(* reaches it: LampRecord and Renderer have those.  A window of time is    *)
(* what it keeps open, closed by an action of its own at any moment; only  *)
(* where the code makes one window outlast another is that kept.           *)
(***************************************************************************)
EXTENDS Handlers

CONSTANTS
  Requests,     \* the sets owners send
  Reports,      \* what the lamp can report
  Calls,        \* the calls people make through Home Assistant
  SetsExpired,  \* owners also set a layer that ran out and is still there (a bound)
  MaxActs       \* how often somebody acts (a bound)

ASSUME EvidenceAssumption ==
  /\ Requests \subseteq {req \in SetRequest : req.layer \in Id /\ req.mode # "follow"}
  /\ Reports \subseteq Report \ {Away}
  /\ Calls \subseteq {c \in Command : c.state # "none"}
  /\ SetsExpired \in BOOLEAN
  /\ MaxActs \in Nat

VARIABLES
  eng,          \* what the engine knows of the lamp
  stamp,        \* whose context Home Assistant puts on what the lamp reports
  answering,    \* the command the lamp is carrying out, and whose it is
  acts,         \* how often somebody acted
  touched,      \* someone else acted on the lamp and is still to be judged
  claimed,      \* its last report passed for our own, and no render checks it
  moved         \* a command of ours was under way since the drop still to be judged

vars == <<eng, stamp, answering, acts, touched, claimed, moved>>

-----------------------------------------------------------------------------

\* "new" and "again": before the first and before a further attempt; "sent" and
\* "resent": between the call and the read-back.
NoJob == [call |-> Nothing, phase |-> "none"]
Job == [call : Command \ {Nothing}, phase : {"new", "sent", "again", "resent"}]
         \cup {NoJob}

\* `prev` is observed_prev: Away while no debounce is pending.  `named` is the
\* command under the context at hand, where Layers knows it: ours or a call's;
\* `room` is the command of a room's call.
Engine == [rec : Record, job : Job, late : Command, retried : BOOLEAN,
           last : LastCommand, named : Command, room : Command,
           prev : Report, timers : SUBSET {"return", "grace"}]

Idle == [cmd |-> Nothing, by |-> "nobody"]

TypeOK ==
  /\ eng \in Engine
  /\ stamp \in {"none", "ours", "call", "other"}
  /\ answering \in [cmd : Command, by : {"nobody", "ours", "call", "room"}]
  /\ acts \in 0..MaxActs
  /\ touched \in BOOLEAN
  /\ claimed \in BOOLEAN
  /\ moved \in BOOLEAN

Fresh(obs) ==
  [rec |-> NewRecord(obs), job |-> NoJob, late |-> Nothing, retried |-> FALSE,
   last |-> NoCommandYet, named |-> Nothing, room |-> Nothing,
   prev |-> Away, timers |-> {"grace"}]

Init ==
  /\ \E o \in Reports : eng = Fresh(o)
  /\ stamp = "none"
  /\ answering = Idle
  /\ acts = 0
  /\ touched = FALSE
  /\ claimed = FALSE
  /\ moved = FALSE

-----------------------------------------------------------------------------
(* Parts of handlers: each maps what the engine knows to what it knows then *)

Alive(e) == e.job # NoJob

Cancel(e) == [e EXCEPT !.job = NoJob, !.late = Nothing]

Settles(e) == [e EXCEPT !.rec.owed = "nothing"]

Wanted(e) == Project(EffectiveNow(e.rec))

\* A slip: a lamp that can be sent nothing is sent it.
NeverUnknown(e) == FALSE

Unknown(e) == Wanted(e) = Nothing

\* The same command in flight is kept.
Start(e) ==
  IF e.job.call = Wanted(e) THEN e
  ELSE [Cancel(e) EXCEPT !.job = [call |-> Wanted(e), phase |-> "new"],
                         !.rec.owed = "owed"]

\* _render.  The reason is "owner", "again" (the retry of a reverted command)
\* or "deferred".
Send(e, reason) ==
  LET inSync == /\ Shows(e.rec, EffectiveNow(e.rec)) = "yes"
                /\ Alive(e) => e.job.call = Wanted(e)
      lifted == IF e.rec.diverged \in {"manual_keep", "unsynced"}
                THEN [e EXCEPT !.rec.diverged = "none"] ELSE e
  IN CASE reason # "owner" /\ e.rec.diverged \in {"manual_keep", "unsynced"} -> Settles(e)
       [] Unknown(e) -> Settles(Cancel(e))
       [] inSync -> [Settles(Cancel(e)) EXCEPT !.rec.diverged = "none"]
       [] ~Available(e.rec) -> [Cancel(lifted) EXCEPT !.rec.owed = "owed"]
       [] OTHER -> Start([lifted EXCEPT !.retried = @ /\ reason = "again",
                                        !.room = Nothing])

DropStale(e) ==
  IF ~Alive(e) \/ Wanted(e) = e.job.call THEN e ELSE Settles(Cancel(e))

\* Someone acted on the lamp: what was pending on it is dropped.
Dropped(e) == [Cancel(e) EXCEPT !.prev = Away, !.timers = @ \ {"return"}]

\* The lamp is off: what waits for that has seen it.
OffSeen(e) == [e EXCEPT !.rec = SeenOffIf(@, e.rec.observed.state = "off")]

\* What a lamp that is here showed before it dropped is out of date.
Known(e) == [e EXCEPT !.rec = Supersede(@)]

Taken(e, groups, source) ==
  [Dropped(e) EXCEPT !.rec = Judged(@, groups, source, "take_back", {})]

\* The debounce is over: a change that held and is not our own is the device's.
Settled(e) ==
  LET shown == e.rec.observed
      held == /\ Available(e.rec) /\ "grace" \notin e.timers
              /\ ~Close(shown, e.prev)
              /\ Shows(e.rec, EffectiveNow(e.rec)) # "yes"
  IN IF held THEN Taken(e, ChangedGroups(e.prev, shown), "device")
     ELSE [e EXCEPT !.prev = Away]

\* A slip: Layers acts over a change that waits.
FlushNothing(e) == e

\* A waiting change is judged before Layers acts.
Flush(e) == IF e.prev = Away THEN e ELSE Settled(e)

StartDebounce(e, old) == [e EXCEPT !.prev = IF @ = Away THEN old ELSE @]

-----------------------------------------------------------------------------
(* Reports *)

Verdict(kind, groups, source) == [kind |-> kind, groups |-> groups, source |-> source]

\* Nobody but us commanded the lamp, and the report keeps our on/off but leaves
\* a command the lamp had arrived at.
MovedByHand(e, old, new, reused) ==
  /\ ~reused
  /\ e.last.by = "ours" /\ e.last.arrived = "held"
  /\ MovedAway(old, new, e.last.target)

\* A bridge undid the last command; one of someone else's is left alone where
\* sending it again would light the lamp.
Reversed(e, old, new, reused) ==
  /\ ~reused
  /\ Late(e.last, old, new)
  /\ e.last.by = "ours" \/ ~RaisesOutput(new, e.last.target)

\* classify_state, for a report `new` with context `ctx` from a lamp that is and
\* stays here.  Our own context on what is not our command is Home Assistant
\* using it again.
Judge(e, new, ctx) ==
  LET old == e.rec.observed
      mine == ctx = "ours" /\ e.named # Nothing
      reused == mine /\ ~Consistent(old, new, e.named)
      chosen(cmd) == CallGroups(Groups(cmd) \cap AttrGroup, old, new)
  IN CASE mine /\ ~reused -> Verdict("ours", {}, "device")
       [] ctx = "call" /\ e.named # Nothing -> Verdict("external", chosen(e.named), "user")
       [] \/ ctx = "other" \/ (ctx = "call" /\ e.named = Nothing)
          \/ ctx = "ours" /\ ~mine -> Verdict("external", Everything, "automation")
       [] OTHER ->
            CASE e.room # Nothing /\ ~Contradicts(e.room, new) ->
                   Verdict("external", chosen(e.room), "user")
              [] e.room = Nothing \/ Contradicts(e.room, new) ->
                   IF "return" \in e.timers THEN Verdict("noise", {}, "device")
                   ELSE IF Alive(e) /\ e.last.by # "theirs"
                   THEN IF MovedByHand(e, old, new, reused)
                        THEN Verdict("external", Everything, "device")
                        ELSE Verdict("noise", {}, "device")
                   ELSE IF Reversed(e, old, new, reused) THEN Verdict("failed", {}, "device")
                   ELSE IF Alive(e) THEN Verdict("noise", {}, "device")
                   ELSE IF FollowsUp(e.rec, old, new)
                   THEN Verdict("follow_up", e.rec.last.groups, e.rec.last.source)
                   ELSE Verdict("debounce", {}, "device")

\* How long the lamp has shown our last command, with nothing in between.
Arriving(last, new) ==
  CASE last.by # "ours" -> last
    [] last.by = "ours" /\ ~ShowsTarget(new, last.target) -> [last EXCEPT !.arrived = "no"]
    [] last.by = "ours" /\ ShowsTarget(new, last.target) ->
         [last EXCEPT !.arrived = IF @ = "no" THEN "showing" ELSE @]

\* A slip: every reversal is retried.
FailedAgain(e, old) ==
  IF e.last.by # "ours" THEN [e EXCEPT !.rec.diverged = "delivery"]
  ELSE Send([e EXCEPT !.retried = TRUE], "again")

\* A reversed command: ours is sent again, once.
FailedDelivery(e, old) ==
  CASE e.last.by # "ours" -> [e EXCEPT !.rec.diverged = "delivery"]
    [] e.last.by = "ours" /\ e.retried -> StartDebounce(e, old)
    [] e.last.by = "ours" /\ ~e.retried -> Send([e EXCEPT !.retried = TRUE], "again")

\* While a lamp settles, only what a context explains is judged.
ActedOn(e, old, verdict) ==
  CASE verdict.kind = "ours" -> OffSeen(e)
    [] \/ verdict.kind = "external"
       \/ verdict.kind = "follow_up" /\ e.timers = {} ->
         Taken(e, verdict.groups, verdict.source)
    [] verdict.kind = "failed" /\ e.timers = {} -> FailedDelivery(Flush(e), old)
    [] verdict.kind = "debounce" /\ e.timers = {} -> StartDebounce(e, old)
    [] OTHER -> e

\* _handle_state.
Handled(e, new, ctx) ==
  ActedOn([e EXCEPT !.rec = Showing(@, new), !.last = Arriving(@, new)],
          e.rec.observed, Judge(e, new, ctx))

\* What the record decides of a lamp that came back.
Decided(e, decision) ==
  CASE decision = "send" -> Send(e, "deferred")
    [] decision = "record" ->
         DropStale([Settles(e) EXCEPT !.rec = RecordObservedAsBase(@, @.observed)])
    [] decision = "nothing" -> DropStale(Settles(e))
    [] decision = "external" -> Taken(Settles(e), Everything, "device")
    [] decision = "wait" -> e

\* A slip: what the lamp showed when it dropped is forgotten before it is asked for.
ReturnedAsKnown(e) ==
  LET known == Known(e)
  IN OffSeen(Decided(known, DecideReturn(known.rec, known.rec.observed)))

\* A lamp that came back, or was away with its debts when Layers started.
Returned(e) ==
  OffSeen(Known(Decided(e, DecideReturn(e.rec, e.rec.observed))))

\* What ran out goes; the record decides whether that is rendered.
SweptOf(e) == [e EXCEPT !.rec = Expire(@, Shown(@))]

RanOut(e) ==
  IF ExpireRenders(e.rec, Shown(e.rec)) THEN Send(SweptOf(e), "deferred")
  ELSE DropStale(SweptOf(e))

\* A layered lamp that does not show its command after the startup.
Mismatched(e) ==
  CASE Shows(e.rec, EffectiveNow(e.rec)) # "no" -> e
    [] Shows(e.rec, EffectiveNow(e.rec)) = "no" ->
         IF e.rec.atDrop # Away /\ ~Close(e.rec.observed, e.rec.atDrop)
         THEN Taken(e, Everything, "device")
         ELSE [e EXCEPT !.rec.diverged = "unsynced"]

\* A lamp on its own after the startup: an old debt, else nothing layered, else
\* a lamp that has to show its command.
LeftAlone(e) ==
  IF e.rec.owed # "nothing" THEN Returned(e)
  ELSE IF \A i \in Id : ~Present(e.rec.layers, i)
  THEN [e EXCEPT !.rec = [RecordObservedAsBase(@, @.observed) EXCEPT !.diverged = "none"]]
  ELSE Mismatched(e)

\* The startup is over: what ran out meanwhile comes before an owner's render,
\* and that before all else.
StartedUp(e) ==
  CASE Expired(e.rec) # {} -> RanOut(e)
    [] Expired(e.rec) = {} /\ (~Available(e.rec) \/ Alive(e)) -> SweptOf(e)
    [] OTHER -> LeftAlone(SweptOf(e))

\* The late re-check of a verified command.
Rechecked(e, cmd) ==
  IF Wanted(e) = cmd /\ Matches(e.rec.observed, cmd) # "yes"
  THEN Send([e EXCEPT !.retried = TRUE], "again") ELSE e

-----------------------------------------------------------------------------

\* No press of a retry loop is in play, so nothing asks when the layers changed.
Steps(e) == eng' = [e EXCEPT !.rec.changed = FALSE]

\* Something of the lamp is still to be judged, or put down to a room's call.
Pending ==
  \/ eng.prev # Away \/ ~Available(eng.rec) \/ eng.timers # {}
  \/ eng.room # Nothing

\* `someone` other than Layers is behind what the lamp does in this step.
Noted(someone) ==
  /\ touched' = (someone \/ (touched /\ Pending))
  /\ moved' = /\ eng'.rec.atDrop # Away
              /\ moved \/ answering.by = "ours"

\* While a change waits, it is what the lamp showed before that it is told from.
Claims(ours) ==
  claimed' = /\ ours /\ ~Alive(eng')
             /\ eng'.prev # Away \/ Shows(eng'.rec, EffectiveNow(eng'.rec)) = "no"

Blame(someone) == Noted(someone) /\ Claims(claimed)

\* The lamp reports `o` under `ctx`, and `someone` other than Layers is behind it.
Appears(o, ctx, someone) ==
  /\ Steps(Handled(eng, o, ctx))
  /\ Noted(someone)
  /\ Claims(Judge(eng, o, ctx).kind = "ours" \/ (claimed /\ eng'.prev # Away))

\* Nothing is under way, waiting or still to be removed.
AtRest ==
  /\ Available(eng.rec) /\ eng.timers = {} /\ eng.prev = Away
  /\ ~Alive(eng) /\ answering = Idle
  /\ ~HasExpired(eng.rec)

\* What happens by itself, and what somebody does: both once eng' and answering'
\* are known.
Runs == UNCHANGED acts
Acts == acts < MaxActs /\ acts' = acts + 1

-----------------------------------------------------------------------------
(* Owners *)

\* A set or a clear made `rec` of the record: rendered if that changed the
\* command, or mends a lamp that does not show it.
Commanded(e, rec) ==
  IF \/ EffectiveNow(rec) # EffectiveNow(e.rec)
     \/ rec.diverged \in {"delivery", "partial", "colour"}
  THEN Send([e EXCEPT !.rec = rec], "owner") ELSE [e EXCEPT !.rec = rec]

SetLayer(req) ==
  /\ Acts
  /\ \E learnt \in {[Flush(eng) EXCEPT !.rec = LearnBase(@)]} :
       LET out == ApplySet(learnt.rec, req)
       IN /\ out.result \notin Refusals
          /\ Steps(IF out.result \in Skips THEN [learnt EXCEPT !.rec = out.rec]
                   ELSE Commanded(learnt, out.rec))
  /\ Blame(FALSE)
  /\ UNCHANGED <<stamp, answering>>

ClearLayer(i) ==
  /\ Acts
  /\ \E flushed \in {Flush(eng)} :
       Steps(Commanded(flushed, ApplyClear(flushed.rec, i)))
  /\ Blame(FALSE)
  /\ UNCHANGED <<stamp, answering>>

-----------------------------------------------------------------------------
(* The lamp, and whoever acts on it *)

\* A lamp answers our command while the render runs or its context is in use: an
\* answer after both cannot be told from a person.
Answers == answering.by = "ours" => Alive(eng) \/ stamp = "ours"

\* The lamp carries out a command: it lands, or it shows a step of it.
Answer(o) ==
  LET landed == ShowsTarget(o, answering.cmd)
      stepping == /\ o.state = answering.cmd.state
                  /\ answering.by = "ours" => eng.job.phase \in {"sent", "resent"}
  IN /\ answering # Idle /\ Available(eng.rec) /\ Answers
     /\ o # eng.rec.observed
     /\ landed \/ stepping
     /\ Appears(o, stamp, answering.by # "ours")
     /\ answering' = IF landed THEN Idle ELSE answering
     /\ UNCHANGED stamp
     /\ Runs

\* Nothing is reported: the lamp shows the command already, or never took it.
Silent ==
  /\ answering # Idle /\ Available(eng.rec)
  /\ ShowsTarget(eng.rec.observed, answering.cmd) \/ ~Answers
  /\ answering' = Idle
  /\ UNCHANGED <<eng, stamp, touched, claimed, moved>>
  /\ Runs

\* Someone at the lamp, or (`named`) a service that is not a light's, under a
\* context that says whose it is.
Person(o, named) ==
  /\ Acts
  /\ Available(eng.rec)
  /\ o # eng.rec.observed
  /\ LET ctx == IF named THEN "other" ELSE stamp
     IN Appears(o, ctx, TRUE) /\ stamp' = ctx
  /\ answering' = Idle

\* The bridge undoes the last command, after Home Assistant has forgotten it.  A
\* second time, of someone else's command, or while something of the lamp is
\* still to be judged, it cannot be told from a person.
BridgeReverts(o) ==
  /\ Acts
  /\ Available(eng.rec) /\ stamp = "none"
  /\ eng.last.by # "nobody" /\ eng.last.open
  /\ Flipped(eng.rec.observed, o) /\ o.state = eng.last.from
  /\ Switches(eng.last)
  /\ Appears(o, "none", eng.last.by # "ours" \/ eng.retried \/ Pending)
  /\ answering' = Idle
  /\ UNCHANGED stamp

\* What a call heard does at once; a lamp that is away owes what it now wants.
AfterCall(e) ==
  IF Available(e.rec)
  THEN OffSeen(e)
  ELSE [e EXCEPT !.rec.owed = IF EffectiveNow(e.rec) = Nothing THEN "nothing" ELSE "owed"]

\* _on_call: a person calls the lamp, or (`room`) a room it is in, whose bridge
\* then moves the lamp under no context.
Call(cmd, room) ==
  LET groups == (IF cmd.state = "off" THEN {} ELSE Groups(cmd) \cap AttrGroup)
                  \cup {"state"}
      noted == [eng EXCEPT
                  !.last = NoteCommand(@, [by |-> "theirs", target |-> cmd,
                                           from |-> OnOff(eng.rec.observed),
                                           open |-> TRUE, arrived |-> "no"]),
                  !.named = IF room \/ ~Available(eng.rec) THEN @ ELSE cmd,
                  !.room = IF room THEN cmd ELSE @]
      taken == [Dropped(noted) EXCEPT
                  !.rec = ApplyExternal(Supersede(@), cmd, groups, "user", "take_back", {})]
  IN /\ Acts
     /\ Steps(IF IntentHeard(eng.rec, cmd) THEN AfterCall(taken) ELSE noted)
     /\ stamp' = IF room \/ ~Available(eng.rec) THEN stamp ELSE "call"
     /\ answering' = IF Available(eng.rec)
                     THEN [cmd |-> cmd, by |-> IF room THEN "room" ELSE "call"]
                     ELSE answering
     /\ Blame(TRUE)

Drop ==
  /\ Acts
  /\ Available(eng.rec)
  /\ Steps([eng EXCEPT !.rec.observed = Away,
                       !.rec.atDrop = IF @ = Away THEN eng.rec.observed ELSE @,
                       !.prev = Away, !.timers = @ \ {"return"}])
  /\ answering' = Idle
  /\ Blame(FALSE)
  /\ UNCHANGED stamp

\* A lamp that comes back another than it went was used meanwhile.
ComeBack(o) ==
  /\ ~Available(eng.rec)
  /\ Steps([eng EXCEPT !.rec = Showing(@, o),
                       !.timers = IF "grace" \in @ THEN @ ELSE @ \cup {"return"}])
  /\ Blame(~Close(o, eng.rec.atDrop))
  /\ UNCHANGED <<stamp, answering>>
  /\ Runs

-----------------------------------------------------------------------------
(* The engine's timers *)

SettleDebounce ==
  /\ eng.prev # Away
  /\ Steps(Settled(eng))
  /\ Blame(FALSE)
  /\ UNCHANGED <<stamp, answering>>
  /\ Runs

JudgeReturn ==
  /\ "return" \in eng.timers
  /\ Steps(Returned([eng EXCEPT !.timers = @ \ {"return"}]))
  /\ Blame(FALSE)
  /\ UNCHANGED <<stamp, answering>>
  /\ Runs

ExpireLamp ==
  /\ HasExpired(eng.rec) /\ "grace" \notin eng.timers
  /\ Steps(RanOut(Flush(eng)))
  /\ Blame(FALSE)
  /\ UNCHANGED <<stamp, answering>>
  /\ Runs

EndGrace ==
  /\ "grace" \in eng.timers
  /\ Steps(Known(StartedUp([eng EXCEPT !.timers = @ \ {"grace"}])))
  /\ Blame(FALSE)
  /\ UNCHANGED <<stamp, answering>>
  /\ Runs

-----------------------------------------------------------------------------
(* Stopping and starting *)

\* A record with nothing layered, owed or diverged is not kept.
Stored(rec) ==
  IF \/ \E i \in Id : Present(rec.layers, i) \/ rec.tombs[i] # NoTomb
     \/ rec.owed # "nothing" \/ rec.diverged # "none"
  THEN rec ELSE NewRecord(Away)

\* The record and the last command come from the store, what the lamp showed at
\* the stop standing for what it showed when it dropped.
Loaded(e, shown) ==
  LET rec == Stored(e.rec)
      kept == rec = e.rec
  IN [Fresh(shown) EXCEPT
        !.rec = [Showing(rec, shown) EXCEPT !.atDrop = IF @ = Away THEN rec.observed ELSE @],
        !.last = IF kept THEN [e.last EXCEPT !.arrived = "no"] ELSE NoCommandYet]

\* A slip: the live contexts are not handed over.
LoadedBare(e, shown) == Loaded(e, shown)

\* The entry reloads: our live contexts are handed to the next engine.
Reloaded(e, shown) ==
  [Loaded(e, shown) EXCEPT !.named = IF stamp = "ours" THEN e.named ELSE @]

Reload ==
  /\ Acts
  /\ Steps(Reloaded(eng, eng.rec.observed))
  /\ Blame(FALSE)
  /\ UNCHANGED <<stamp, answering>>

\* Home Assistant restarts, and finds the lamp showing `o`: used meanwhile where
\* it showed something else, or showed, as when it dropped, what this is not.
Restart(o) ==
  LET was == Shown(eng.rec)
      used == \/ ~Close(o, was)
              \/ Close(was, eng.rec.atDrop) /\ ~Close(o, eng.rec.atDrop)
  IN /\ Acts
     /\ Steps(Loaded(eng, o))
     /\ stamp' = "none"
     /\ answering' = Idle
     /\ Blame(o # Away /\ used)

-----------------------------------------------------------------------------
(* The render task *)

Ended(e) == [e EXCEPT !.job = NoJob]

\* After the backoff: stop, or send.  A lamp that is away is sent nothing.
Attempt ==
  LET cmd == eng.job.call
      stale == eng.job.phase = "again" /\ Wanted(eng) # cmd
      reached == ~stale /\ Available(eng.rec)
      sent == [eng EXCEPT
                 !.job.phase = IF @ = "new" THEN "sent" ELSE "resent",
                 !.rec.owed = "owed", !.rec.last = Past(@),
                 !.named = IF reached THEN cmd ELSE @,
                 !.last = [by |-> "ours", target |-> cmd,
                           from |-> OnOff(eng.rec.observed),
                           open |-> TRUE, arrived |-> "no"]]
  IN /\ eng.job.phase \in {"new", "again"}
     /\ Steps(IF stale THEN Settles(Ended(eng)) ELSE sent)
     /\ stamp' = IF reached THEN "ours" ELSE stamp
     /\ answering' = IF reached THEN [cmd |-> cmd, by |-> "ours"] ELSE answering
     /\ Blame(FALSE)
     /\ Runs

\* Seven attempts at most; here a second one may be the last.
ReadBack ==
  LET taken == ShowsTarget(eng.rec.observed, eng.job.call)
      wanted == Wanted(eng) = eng.job.call
      over == Settles(Ended(eng))
      verified == [over EXCEPT !.rec.diverged = "none", !.late = eng.job.call]
      failed == [over EXCEPT !.rec.diverged = "delivery"]
  IN /\ eng.job.phase \in {"sent", "resent"}
     /\ \/ /\ ~Available(eng.rec)
           /\ Steps(Ended(eng))
        \/ /\ Available(eng.rec) /\ taken
           /\ Steps(IF wanted THEN verified ELSE over)
        \/ /\ Available(eng.rec) /\ ~taken
           /\ Steps([eng EXCEPT !.job.phase = "again"])
        \/ /\ Available(eng.rec) /\ ~taken /\ eng.job.phase = "resent"
           /\ Steps(IF wanted THEN failed ELSE over)
     /\ Blame(FALSE)
     /\ UNCHANGED <<stamp, answering>>
     /\ Runs

LateCheck ==
  /\ eng.late # Nothing
  /\ Steps(IF \/ Alive(eng) \/ ~Available(eng.rec)
              \/ eng.retried \/ "return" \in eng.timers
           THEN [eng EXCEPT !.late = Nothing]
           ELSE Rechecked(Flush([eng EXCEPT !.late = Nothing]), eng.late))
  /\ Blame(FALSE)
  /\ UNCHANGED <<stamp, answering>>
  /\ Runs

-----------------------------------------------------------------------------
(* Time *)

\* The late window is over: only what is read of it after that is kept.
Closed(last) ==
  [last EXCEPT !.open = FALSE, !.from = "none",
               !.target = IF last.by = "theirs" THEN Nothing ELSE @]

\* Home Assistant uses a context for 5 s, while Layers still knows it: its own for
\* 10 s after the render, and others' for 10 s after they were last seen.
WindowCloses ==
  /\ \/ /\ stamp # "none" /\ stamp' = "none"
        /\ Steps([eng EXCEPT !.named = Nothing])
     \/ /\ eng.room # Nothing /\ answering.by # "room"
        /\ Steps([eng EXCEPT !.room = Nothing]) /\ UNCHANGED stamp
     \/ /\ eng.last.open
        /\ Steps([eng EXCEPT !.last = Closed(@)]) /\ UNCHANGED stamp
     \/ /\ eng.last.arrived = "showing"
        /\ Steps([eng EXCEPT !.last.arrived = "held"]) /\ UNCHANGED stamp
  /\ Blame(FALSE)
  /\ UNCHANGED answering
  /\ Runs

RunOut(i) ==
  /\ \/ /\ Present(eng.rec.layers, i) /\ eng.rec.layers[i].lease = "running"
        /\ Steps([eng EXCEPT !.rec.layers[i].lease = "over"])
     \/ /\ eng.rec.tombs[i] # NoTomb /\ eng.rec.tombs[i].lease = "running"
        /\ Steps([eng EXCEPT !.rec.tombs[i].lease = "over"])
  /\ Blame(FALSE)
  /\ UNCHANGED <<stamp, answering>>
  /\ Runs

Forget ==
  /\ \/ eng.rec.last # Forgotten /\ Steps([eng EXCEPT !.rec.last = Forgotten])
     \/ eng.rec.owed = "owed" /\ Steps([eng EXCEPT !.rec.owed = "old"])
  /\ Blame(FALSE)
  /\ UNCHANGED <<stamp, answering>>
  /\ Runs

-----------------------------------------------------------------------------

Owner ==
  \/ \E req \in Requests :
       SetLayer(req) /\ (SetsExpired \/ req.layer \notin Expired(eng.rec))
  \/ \E i \in Id : ClearLayer(i)

Someone ==
  \/ \E o \in Reports, named \in BOOLEAN : Person(o, named)
  \/ \E cmd \in Calls, room \in BOOLEAN : Call(cmd, room)

World ==
  \/ \E o \in Reports : Answer(o)
  \/ Silent
  \/ \E o \in Reports : BridgeReverts(o)
  \/ Drop
  \/ \E o \in Reports : ComeBack(o)
  \/ Reload
  \/ \E o \in Reports \cup {Away} : Restart(o)

Timers ==
  \/ SettleDebounce
  \/ JudgeReturn
  \/ ExpireLamp
  \/ EndGrace
  \/ LateCheck

Clock == WindowCloses \/ Forget \/ \E i \in Id : RunOut(i)

Task == Attempt \/ ReadBack

Next == Owner \/ Someone \/ World \/ Timers \/ Clock \/ Task

Spec == Init /\ [][Next]_vars

-----------------------------------------------------------------------------
(* Properties *)

\* A live layer of an owner's is taken back in this step.
TakesBack ==
  \E i \in Live(eng.rec.layers) :
    ~Present(eng'.rec.layers, i) /\ eng'.rec.tombs[i] # NoTomb

\* What a lamp does on Layers' own command is never taken for a person's: a
\* layer goes to someone else only where someone else acted (classify_state,
\* _settle_debounce, _judge_return, _end_grace_lamp).  The exception is
\* OwnWhileSettling.
OwnNeverTaken ==
  [][TakesBack => touched' \/ ((JudgeReturn \/ EndGrace) /\ moved)]_vars

\* "`EXTERNAL` needs evidence of a change" (SPEC 6.4): also of a lamp that an
\* owner's render moved after it came back.
OwnWhileSettling == [][TakesBack => touched']_vars

\* Layers does not fight for a lamp: until an owner or a timer of the record
\* sends something, a command is sent again once, whatever undoes it (the flag
\* that _failed_delivery and late_recheck share, and _render resets).
RetriedOnce ==
  [][~Alive(eng) /\ Alive(eng') /\ eng.retried
       => Owner \/ ExpireLamp \/ JudgeReturn \/ EndGrace]_vars

\* A lamp used while it was away is not sent over: as long as it shows something
\* else than when it dropped, and that is still to be judged, no command but the
\* one that was under way starts, for no debt, reversal or startup
\* (decide_return, _end_grace_lamp, late_recheck, _return_decision), unless an
\* owner acts or something runs out.  During the startup there is no return
\* timer for late_recheck to wait for.
ReturnNotSentOver ==
  [][/\ Available(eng.rec) /\ eng.rec.atDrop # Away
     /\ ~Close(eng.rec.observed, eng.rec.atDrop)
     /\ Alive(eng') /\ eng'.job.call # eng.job.call
     => \/ Owner
        \/ (ExpireLamp \/ EndGrace) /\ HasExpired(eng.rec)
        \/ LateCheck /\ "grace" \in eng.timers]_vars

\* No render is on its way to a lamp while a change waits to be judged
\* (_flush_debounce before everything that sends).
NotSentOver == Alive(eng) => eng.prev = Away

\* Whatever was told from whatever: a lamp at rest shows its effective command,
\* or the record says that it does not.  The exception is a lamp that passed for
\* carrying out a command of ours, in its 5 s, when that had been called off.
AtRestItShows ==
  AtRest /\ ~claimed =>
    Shows(eng.rec, EffectiveNow(eng.rec)) # "no" \/ eng.rec.diverged # "none"

=============================================================================
