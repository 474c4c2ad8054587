------------------------------ MODULE Renderer ------------------------------
(***************************************************************************)
(* How a lamp gets its effective command: the render task of render.py and *)
(* what engine.py does to it, for one lamp.  A render sends, waits, reads  *)
(* the lamp back and tries again; owners, people, timers, the lamp's own   *)
(* comings and goings and a restart all come in between.                   *)
(*                                                                         *)
(* The stack of layers is only its result here: `wanted` is the projection *)
(* of the effective command, and a handler that changes the record may     *)
(* change it to anything (LampRecord says to what).  A pending debounce is *)
(* no timer of its own: the handlers that judge it first (_flush_debounce) *)
(* are External and then the handler.  Transitions, contexts and the times *)
(* themselves are left out.                                                *)
(***************************************************************************)
EXTENDS Naturals

CONSTANTS
  Command,      \* what a lamp can be sent
  NoCommand,    \* nothing to send
  MaxAttempts,  \* 1 + len(RETRY_BACKOFF_S)
  LateWindow,   \* the platform may revert a command later on (LATE_WINDOW_S)
  Happenings    \* what of the surroundings is in play (a bound)

ASSUME RendererAssumption ==
  /\ NoCommand \notin Command
  /\ MaxAttempts \in Nat \ {0}
  /\ LateWindow \in BOOLEAN
  /\ Happenings \subseteq {"absence", "replay", "failure", "restart", "colour"}

VARIABLES
  apply,        \* the apply switch
  rec,          \* the part of the lamp's record that rendering is about
  lamp,         \* the lamp's state in Home Assistant
  ren,          \* the lamp's render task, its late re-check, and the retry spent
  timers        \* the engine's timers that are running for the lamp

vars == <<apply, rec, lamp, ren, timers>>

-----------------------------------------------------------------------------

Debt == [target : Command \cup {NoCommand}, missed : BOOLEAN]
Owed(c, missed) == [target |-> c, missed |-> missed]
NoDebt == Owed(NoCommand, FALSE)

Divergence == {"none", "delivery", "partial", "manual_keep", "unsynced", "colour"}
SyncOnly == {"manual_keep", "unsynced"}
Repaired == {"delivery", "partial", "colour"}

Record == [wanted : Command \cup {NoCommand}, owed : Debt,
           diverged : Divergence, untrusted : BOOLEAN]

\* "unavailable" has a state object, "gone" has none.
Lamp == [state : {"here", "unavailable", "gone"},
         shows : Command \cup {NoCommand}, colour : BOOLEAN]
Shown == [state : {"here"}, shows : Command,
          colour : IF "colour" \in Happenings THEN BOOLEAN ELSE {TRUE}]
Away == {[state |-> s, shows |-> NoCommand, colour |-> FALSE] :
           s \in {"unavailable", "gone"}}

\* "waiting": before an attempt; "sent": between the call and the read-back.
Job == [call : Command \cup {NoCommand}, attempts : 0..MaxAttempts,
        phase : {"waiting", "sent"}]
NoJob == [call |-> NoCommand, attempts |-> 0, phase |-> "waiting"]

Render == [job : Job, late : Command \cup {NoCommand}, retried : BOOLEAN]

\* "ttl" is running once something has run out that nobody removed yet.
Timer == {"return", "replay", "grace", "ttl"}

TypeOK ==
  /\ apply \in BOOLEAN
  /\ rec \in Record
  /\ lamp \in Lamp
  /\ ren \in Render
  /\ timers \subseteq Timer

Init ==
  /\ apply = FALSE
  /\ rec = [wanted |-> NoCommand, owed |-> NoDebt, diverged |-> "none",
            untrusted |-> FALSE]
  /\ lamp \in Shown \cup (IF "absence" \in Happenings THEN Away ELSE {})
  /\ ren = [job |-> NoJob, late |-> NoCommand, retried |-> FALSE]
  /\ timers = {"grace"}

-----------------------------------------------------------------------------
(* Parts of handlers: each maps the record and the task to new ones *)

Both(r, n) == [rec |-> r, ren |-> n]

Here(l) == l.state = "here"

Matches(l, c) ==
  CASE l.shows # c -> "no"
    [] l.shows = c /\ l.colour -> "yes"
    [] l.shows = c /\ ~l.colour -> "colour_off"

ShowsWanted(r, l) == r.wanted # NoCommand /\ Here(l) /\ Matches(l, r.wanted) = "yes"

Alive(n) == n.job # NoJob

\* A slip: the late re-check survives a cancel.
CancelTask(n) == [n EXCEPT !.job = NoJob]

Cancel(n) == [n EXCEPT !.job = NoJob, !.late = NoCommand]

Settled(r) == [r EXCEPT !.owed = NoDebt]

\* A slip: an older debt is kept.
StartInDebt(r, n) ==
  Both(IF r.owed = NoDebt THEN [r EXCEPT !.owed = Owed(r.wanted, FALSE)] ELSE r,
       [n EXCEPT !.job = [call |-> r.wanted, attempts |-> 0, phase |-> "waiting"]])

\* The same command in flight is kept.
Start(r, n) ==
  IF n.job.call = r.wanted THEN Both(r, n)
  ELSE Both([r EXCEPT !.owed = Owed(r.wanted, FALSE)],
            [Cancel(n) EXCEPT !.job = [call |-> r.wanted, attempts |-> 0,
                                       phase |-> "waiting"]])

\* The renders nobody asked for just now.
Deferred == {"deferred", "again"}

\* A slip: what is left to a sync stays so.
LiftedNever(r, reason) == r

Lifted(r, reason) ==
  IF reason \notin Deferred /\ r.diverged \in SyncOnly
  THEN [r EXCEPT !.diverged = "none"] ELSE r

\* A slip: the late retry gets a late retry.
FreshAlways(n, reason) == [n EXCEPT !.retried = FALSE]

\* A new command gets a late retry of its own.
Fresh(n, reason) == [n EXCEPT !.retried = @ /\ reason = "again"]

\* engine._render: the only place a command starts.  The reason is "owner" (a
\* set, a clear or a sync), "again" (the late re-check or the retry of a
\* reverted command) or "deferred" (every other).
Send(r, n, l, reason) ==
  LET inSync == ShowsWanted(r, l) /\ (Alive(n) => n.job.call = r.wanted)
  IN IF reason \in Deferred /\ r.untrusted THEN Both(Settled(r), Cancel(n))
     ELSE IF reason \in Deferred /\ r.diverged \in SyncOnly THEN Both(Settled(r), n)
     ELSE IF r.wanted = NoCommand THEN Both(Settled(r), Cancel(n))
     ELSE IF inSync THEN Both([Settled(r) EXCEPT !.diverged = "none"], Cancel(n))
     ELSE IF ~apply THEN Both([Settled(r) EXCEPT !.diverged = "unsynced"], Cancel(n))
     ELSE IF ~Here(l)
          THEN Both([Lifted(r, reason) EXCEPT !.owed = Owed(r.wanted, FALSE)], Cancel(n))
     ELSE Start(Lifted(r, reason), Fresh(n, reason))

RenderWanted(r, n) == apply /\ r.wanted = n.job.call

\* A slip: a render out of date runs on.
DropNothing(r, n) == Both(r, n)

DropStale(r, n) ==
  IF ~Alive(n) \/ RenderWanted(r, n) THEN Both(r, n)
  ELSE Both(IF r.owed.missed THEN r ELSE Settled(r), Cancel(n))

\* Follow values are not sent in the grace, nor to a lamp that is away.
FollowRender(r, n, l, running) ==
  IF "grace" \in running \/ ~Here(l) THEN Both(r, n) ELSE Send(r, n, l, "deferred")

Becomes(out) == rec' = out.rec /\ ren' = out.ren

\* What a change someone made can leave behind, by the lamp's policy.
Explained(r, l) ==
  {r.diverged, "none"} \cup
  (IF r.wanted # NoCommand /\ ~ShowsWanted(r, l) THEN {"partial", "manual_keep"} ELSE {})

\* engine._external: someone acted on the lamp, which now shows `l`.
Externally(l, c, running) ==
  LET taken == Settled([rec EXCEPT !.wanted = c])
  IN \/ \E d \in Explained(taken, l) :
          LET r == [taken EXCEPT !.diverged = d]
          IN \/ Becomes(Both(r, Cancel(ren)))
             \/ Becomes(FollowRender(r, Cancel(ren), l, running))
     \/ Becomes(Send([taken EXCEPT !.diverged = "delivery"], Cancel(ren), l, "deferred"))

\* engine._return_decision, for a lamp that shows `l`, with the timers `running`
\* left; a change someone made supersedes the replay's.
ReturnDecision(l, running) ==
  LET judged == rec.wanted # NoCommand /\ ~ShowsWanted(rec, l)
      left == rec.owed = NoDebt /\ rec.diverged \in SyncOnly
  IN \/ /\ \/ /\ rec.wanted = NoCommand \/ (judged /\ ~left)
              /\ \E c \in Command :
                   Becomes(DropStale(Settled([rec EXCEPT !.wanted = c]), ren))
           \/ /\ rec.wanted # NoCommand
              /\ judged => left
              /\ Becomes(DropStale(Settled(rec), ren))
           \/ /\ judged /\ ~left
              /\ Becomes(Send(rec, ren, l, "deferred"))
        /\ timers' = running
     \/ /\ judged
        /\ \E c \in Command : Externally(l, c, running)
        /\ timers' = running \ {"replay"}

-----------------------------------------------------------------------------
(* Owners and the apply switch *)

\* layers.set or layers.clear made the effective command `c`.
OwnerCalls(c) ==
  /\ Becomes(IF c # rec.wanted \/ rec.diverged \in Repaired
             THEN Send([rec EXCEPT !.wanted = c], ren, lamp, "owner")
             ELSE Both(rec, ren))
  /\ UNCHANGED <<apply, lamp, timers>>

Sync ==
  /\ Becomes(Send(Lifted([rec EXCEPT !.untrusted = FALSE], "owner"), ren, lamp, "owner"))
  /\ UNCHANGED <<apply, lamp, timers>>

\* A slip: what was owed before the switch went off still is.
OffOwing(r, n) ==
  Both(IF Alive(n) \/ r.owed # NoDebt THEN [r EXCEPT !.diverged = "unsynced"] ELSE r,
       Cancel(n))

Off(r, n) ==
  Both(IF Alive(n) \/ r.owed # NoDebt
       THEN [Settled(r) EXCEPT !.diverged = "unsynced"] ELSE r,
       Cancel(n))

SetApply(on) ==
  /\ apply' = on
  /\ Becomes(IF on THEN Both(rec, ren) ELSE Off(rec, ren))
  /\ UNCHANGED <<lamp, timers>>

-----------------------------------------------------------------------------
(* People, other integrations and the lamp *)

\* A report `l`, or a call heard while the lamp shows `l`, is someone's.
External(l, c) ==
  /\ Here(lamp)
  /\ lamp' = l
  /\ timers' = timers \ {"return", "replay"}
  /\ Externally(l, c, timers)
  /\ UNCHANGED apply

\* A foreign call for a lamp that is away is owed to it.
CallMissed(c) ==
  /\ ~Here(lamp)
  /\ \E d \in {rec.diverged, "none"} :
       rec' = [rec EXCEPT !.wanted = c, !.diverged = d,
                          !.owed = IF c = NoCommand THEN NoDebt ELSE Owed(c, TRUE)]
  /\ ren' = Cancel(ren)
  /\ timers' = timers \ {"return", "replay"}
  /\ UNCHANGED <<apply, lamp>>

\* A retry loop's old press: the base learns it, and the layers go back once
\* the loop is quiet.  Only a report supersedes a return still to be judged.
Replayed(l, c, report) ==
  /\ "replay" \in Happenings
  /\ report => Here(lamp)
  /\ lamp' = IF report THEN l ELSE lamp
  /\ Becomes(DropStale([rec EXCEPT !.wanted = c], ren))
  /\ timers' = (IF report THEN timers \ {"return"} ELSE timers) \cup {"replay"}
  /\ UNCHANGED apply

\* A report nobody acts on: our command landing, a bridge undoing it, noise.
Reported(l) ==
  /\ Here(lamp)
  /\ lamp' = l
  /\ UNCHANGED <<apply, rec, ren, timers>>

\* A late reversal of our own command is sent again, once per command; one of
\* someone else's is noted.
FailedDelivery(l, ours) ==
  /\ Here(lamp) /\ timers \cap {"return", "grace"} = {}
  /\ ours => ~Alive(ren)
  /\ lamp' = l
  /\ Becomes(CASE ~ours -> Both([rec EXCEPT !.diverged = "delivery"], ren)
               [] ours /\ ren.retried -> Both(rec, ren)
               [] ours /\ ~ren.retried ->
                    Send(rec, [ren EXCEPT !.retried = TRUE], l, "again"))
  /\ UNCHANGED <<apply, timers>>

Drop(away) ==
  /\ "absence" \in Happenings
  /\ lamp # away
  /\ lamp' = away
  /\ timers' = timers \ {"return"}
  /\ UNCHANGED <<apply, rec, ren>>

ComeBack(l) ==
  /\ ~Here(lamp)
  /\ lamp' = l
  /\ timers' = IF "grace" \in timers THEN timers ELSE timers \cup {"return"}
  /\ UNCHANGED <<apply, rec, ren>>

\* A followed entity reports, and the lamp's effective command is another.
SourceChanges(c) ==
  /\ c # rec.wanted
  /\ Becomes(FollowRender([rec EXCEPT !.wanted = c], ren, lamp, timers))
  /\ UNCHANGED <<apply, lamp, timers>>

\* A handler raised on this lamp.
MarkUntrusted ==
  /\ "failure" \in Happenings
  /\ rec' = [rec EXCEPT !.untrusted = TRUE]
  /\ ren' = Cancel(ren)
  /\ UNCHANGED <<apply, lamp, timers>>

-----------------------------------------------------------------------------
(* Time *)

\* A lease is over: the stack resolves without it at once.
RunOut(c) ==
  /\ rec' = [rec EXCEPT !.wanted = c]
  /\ timers' = timers \cup {"ttl"}
  /\ UNCHANGED <<apply, lamp, ren>>

\* What ran out is removed, and its removal rendered, followed or neither.
Expired(c) ==
  LET r == [rec EXCEPT !.wanted = c]
  IN \/ c # NoCommand /\ Becomes(Send(r, ren, lamp, "deferred"))
     \/ Becomes(DropStale(r, ren))

ExpireLamp(c) ==
  /\ "ttl" \in timers /\ "grace" \notin timers /\ ~rec.untrusted
  /\ \/ Expired(c)
     \/ Becomes(FollowRender([rec EXCEPT !.wanted = c], ren, lamp, timers))
  /\ timers' = timers \ {"ttl"}
  /\ UNCHANGED <<apply, lamp>>

JudgeReturn ==
  /\ "return" \in timers /\ Here(lamp)
  /\ ReturnDecision(lamp, timers \ {"return"})
  /\ UNCHANGED <<apply, lamp>>

AfterReplay ==
  /\ "replay" \in timers
  /\ Becomes(Send(rec, ren, lamp, "deferred"))
  /\ timers' = timers \ {"replay"}
  /\ UNCHANGED <<apply, lamp>>

\* A layered lamp that does not show its command was changed meanwhile, or
\* only its followed values moved, or it is left to layers.sync.
StartupMismatch(running) ==
  IF rec.wanted = NoCommand \/ ShowsWanted(rec, lamp)
  THEN Becomes(Both(rec, ren)) /\ timers' = running
  ELSE \/ /\ \E c \in Command : Externally(lamp, c, running)
          /\ timers' = running \ {"replay"}
       \/ /\ \/ Becomes(FollowRender(rec, ren, lamp, running))
             \/ Becomes(Both([rec EXCEPT !.diverged = "unsynced"], ren))
          /\ timers' = running

\* The startup is over: reconcile the lamp with its record.
EndGrace ==
  LET running == timers \ {"grace", "ttl"}
  IN /\ "grace" \in timers
     /\ \/ /\ "ttl" \in timers
           /\ \E c \in Command \cup {NoCommand} : Expired(c)
           /\ timers' = running
        \/ /\ ~Here(lamp) \/ Alive(ren)
           /\ Becomes(Both(rec, ren))
           /\ timers' = running
        \/ /\ Here(lamp) /\ ~Alive(ren) /\ rec.owed # NoDebt
           /\ ReturnDecision(lamp, running)
        \/ /\ Here(lamp) /\ ~Alive(ren) /\ rec.owed = NoDebt
           /\ \/ /\ rec' = [rec EXCEPT !.wanted = lamp.shows, !.diverged = "none"]
                 /\ timers' = running
                 /\ UNCHANGED ren
              \/ StartupMismatch(running)
     /\ UNCHANGED <<apply, lamp>>

\* Home Assistant stops and starts, or the entry reloads: tasks and timers are
\* gone, the record comes from the store.
Restart(l) ==
  /\ "restart" \in Happenings
  /\ l \in Away => "absence" \in Happenings
  /\ lamp' = l
  /\ rec' = [rec EXCEPT !.untrusted = FALSE]
  /\ ren' = [job |-> NoJob, late |-> NoCommand, retried |-> FALSE]
  /\ timers' = {"grace"} \cup (timers \cap {"ttl"})
  /\ UNCHANGED apply

-----------------------------------------------------------------------------
(* The render task *)

Ended(n) == [n EXCEPT !.job = NoJob]

\* A slip: a render that stops keeps its debt.
StoppedOwing == Both(rec, Ended(ren))

\* The job is no longer the lamp's command: nothing is owed for it.
Abandoned ==
  Both(IF rec.owed.target = ren.job.call THEN Settled(rec) ELSE rec, Ended(ren))

Verified(colourOff) ==
  Both([Settled(rec) EXCEPT !.diverged = IF colourOff THEN "colour" ELSE "none"],
       [Ended(ren) EXCEPT !.late = IF LateWindow THEN ren.job.call ELSE @])

Failed == Both([Settled(rec) EXCEPT !.diverged = "delivery"], Ended(ren))

\* After the backoff: stop, or send.  The first attempt asks nothing.
Attempt ==
  LET again == ren.job.attempts > 0
      out ==
        CASE again /\ lamp.state = "gone" -> Both(rec, Ended(ren))
          [] again /\ lamp.state # "gone" /\ ~RenderWanted(rec, ren) -> Abandoned
          [] OTHER -> Both([rec EXCEPT !.owed = Owed(ren.job.call, FALSE)],
                           [ren EXCEPT !.job.attempts = @ + 1, !.job.phase = "sent"])
  IN /\ Alive(ren) /\ ren.job.phase = "waiting"
     /\ Becomes(out)
     /\ UNCHANGED <<apply, lamp, timers>>

\* A slip: one attempt too many.
LastAttemptPassed == ren.job.attempts > MaxAttempts

LastAttempt == ren.job.attempts = MaxAttempts

\* After the settle time: does the lamp show it?
ReadBack ==
  LET match == Matches(lamp, ren.job.call)
      accepted == match = "yes" \/ (match = "colour_off" /\ ren.job.attempts >= 2)
      out ==
        CASE ~Here(lamp) -> Both(rec, Ended(ren))
          [] Here(lamp) /\ ~accepted /\ ~LastAttempt ->
               Both(rec, [ren EXCEPT !.job.phase = "waiting"])
          [] Here(lamp) /\ (accepted \/ LastAttempt) ->
               IF ~RenderWanted(rec, ren) THEN Abandoned
               ELSE IF accepted THEN Verified(match = "colour_off") ELSE Failed
  IN /\ Alive(ren) /\ ren.job.phase = "sent"
     /\ Becomes(out)
     /\ UNCHANGED <<apply, lamp, timers>>

\* An unexpected error inside the task ends it as failed.
RenderRaises ==
  /\ "failure" \in Happenings
  /\ Alive(ren)
  /\ Becomes(Failed)
  /\ UNCHANGED <<apply, lamp, timers>>

\* The late re-check of a verified command.
LateCheck ==
  LET spent == [ren EXCEPT !.late = NoCommand]
      reverted == /\ ~Alive(ren) /\ Here(lamp) /\ ~ren.retried
                  /\ "return" \notin timers
                  /\ rec.wanted = ren.late
                  /\ Matches(lamp, ren.late) # "yes"
  IN /\ ren.late # NoCommand
     /\ Becomes(IF reverted THEN Send(rec, [spent EXCEPT !.retried = TRUE], lamp, "again")
                ELSE Both(rec, spent))
     /\ UNCHANGED <<apply, lamp, timers>>

-----------------------------------------------------------------------------

Owner ==
  \/ \E c \in Command \cup {NoCommand} : OwnerCalls(c)
  \/ Sync
  \/ \E on \in BOOLEAN : SetApply(on)

Someone ==
  \/ \E l \in Shown, c \in Command : External(l, c)
  \/ \E c \in Command : CallMissed(c)
  \/ \E l \in Shown, c \in Command, report \in BOOLEAN : Replayed(l, c, report)
  \/ \E c \in Command : SourceChanges(c)

Surroundings ==
  \/ \E away \in Away : Drop(away)
  \/ \E l \in Shown : ComeBack(l)
  \/ \E l \in Shown \cup Away : Restart(l)
  \/ \E c \in Command \cup {NoCommand} : RunOut(c)
  \/ MarkUntrusted

\* The lamp, or the bridge it is behind, shows whatever it likes.
Bridge ==
  \/ \E l \in Shown : Reported(l)
  \/ \E l \in Shown, ours \in BOOLEAN : FailedDelivery(l, ours)

Timers ==
  \/ \E c \in Command \cup {NoCommand} : ExpireLamp(c)
  \/ JudgeReturn
  \/ AfterReplay
  \/ EndGrace
  \/ LateCheck

Task == Attempt \/ ReadBack \/ RenderRaises

Next == Owner \/ Someone \/ Surroundings \/ Bridge \/ Timers \/ Task

Spec == Init /\ [][Next]_vars

\* The event loop runs a task whose sleep is over and a timer that is due.
Fairness ==
  /\ WF_vars(Attempt)
  /\ WF_vars(ReadBack)
  /\ WF_vars(LateCheck)
  /\ WF_vars(JudgeReturn)
  /\ WF_vars(AfterReplay)
  /\ WF_vars(EndGrace)
  /\ WF_vars(\E c \in Command \cup {NoCommand} : ExpireLamp(c))

FairSpec == Spec /\ Fairness

-----------------------------------------------------------------------------
(* Properties *)

\* With the apply switch off nothing is on its way to the lamp, and nothing is
\* set to be sent again later on (async_set_apply, cancel_all).
QuietWhileOff == ~apply => ~Alive(ren) /\ ren.late = NoCommand

\* A lamp left to layers.sync is being sent nothing: whoever left it there had
\* stopped the render before, and no deferred one starts (_render returns
\* early there without cancelling).
SyncOnlyIsQuiet == rec.diverged \in SyncOnly => ~Alive(ren)

\* What is owed while a render runs is that render's own command, so ending it
\* as verified or failed never strikes out a newer debt (_verified, _failed).
DebtIsTheJobs ==
  Alive(ren) /\ rec.owed # NoDebt => rec.owed = Owed(ren.job.call, FALSE)

\* With the apply switch off a lamp is owed nothing of ours, by no path, only what
\* someone else asked of it while it was away (_render, async_set_apply,
\* _call_on_lamp).
OffOwesOnlyMissed == ~apply => rec.owed = NoDebt \/ rec.owed.missed

Expires == \E c \in Command \cup {NoCommand} : ExpireLamp(c)
RunsOut == \E c \in Command \cup {NoCommand} : RunOut(c)
Follows == \E c \in Command : SourceChanges(c)

NoneStale ==
  /\ rec'.wanted # rec.wanted \/ Expires
  /\ Alive(ren') /\ ren'.job.call # rec'.wanted
  => \/ RunsOut
     \/ (Expires \/ Follows) /\ ("grace" \in timers \/ ~Here(lamp))

\* Whatever changes the effective command leaves no render of another one
\* running (_render, _drop_stale_render, _supersede).  Only the lease itself
\* running out does, until its timer, and a followed entity where nothing may
\* be sent.
StaleRendersStop == [][NoneStale]_vars

\* Whether something will deliver, judge or drop what the lamp is owed.
Held == rec.owed # NoDebt =>
  Alive(ren) \/ ~Here(lamp) \/ timers \cap {"return", "replay", "grace"} # {}

StaysHeld == Held => Held' \/ MarkUntrusted \/ ("ttl" \in timers /\ EndGrace)

\* A debt always has a holder; only a failing handler, or the end of the
\* startup over a layer that ran out meanwhile, leaves one behind.
DebtsAreHeld == [][StaysHeld]_vars

\* Once nobody commands the lamp, and it neither leaves nor is left, Layers
\* stops sending to it, however often its bridge undoes what was sent, and a
\* debt somebody held is settled.
AtRest ==
  /\ ~Alive(ren) /\ ren.late = NoCommand
  /\ Here(lamp) /\ Held => rec.owed = NoDebt

ComesToRest == <>[][Bridge \/ Timers \/ Task]_vars => <>[]AtRest

=============================================================================
