--------------------------- MODULE RendererProofs ---------------------------
(***************************************************************************)
(* What the handlers and the render task leave true of each other, for any *)
(* commands, number of attempts and happenings.                            *)
(*                                                                         *)
(* Every handler makes its record and task from parts (Send, Start, Cancel,*)
(* ...), so the invariant is stated of a switch, a record and a task, and  *)
(* there is a lemma for each part: it keeps the invariant, and it leaves   *)
(* no render of another command running.                                   *)
(***************************************************************************)
EXTENDS Renderer, TLAPS

\* The parts of the invariant, of a switch `a`, a record `r` and a task `n`.
WellTyped(a, r, n) == a \in BOOLEAN /\ r \in Record /\ n \in Render

\* A render sends a command, and waits only with an attempt left: without this
\* the attempts would not be bounded.
JobIsReal(n) ==
  Alive(n) => /\ n.job.call \in Command
              /\ n.job.phase = "waiting" => n.job.attempts < MaxAttempts

Quiet(a, n) == ~a => ~Alive(n) /\ n.late = NoCommand
LeftAlone(r, n) == r.diverged \in SyncOnly => ~Alive(n)
OwnDebt(r, n) == Alive(n) /\ r.owed # NoDebt => r.owed = Owed(n.job.call, FALSE)
OffDebt(a, r) == ~a => r.owed = NoDebt \/ r.owed.missed

Sound(a, r, n) ==
  /\ WellTyped(a, r, n)
  /\ JobIsReal(n)
  /\ Quiet(a, n)
  /\ LeftAlone(r, n)
  /\ OwnDebt(r, n)
  /\ OffDebt(a, r)

SoundPair(a, p) == Sound(a, p.rec, p.ren)

\* A render that runs is of the command that is wanted.
UpToDate(r, n) == Alive(n) => n.job.call = r.wanted

UpToDatePair(p) == UpToDate(p.rec, p.ren)

IInv ==
  /\ Sound(apply, rec, ren)
  /\ lamp \in Lamp
  /\ timers \subseteq Timer

-----------------------------------------------------------------------------
(* The parts of handlers *)

\* No job is not a render; a job with a command is one.
LEMMA NoJobIsIdle ==
  /\ NoJob \in Job
  /\ \A n \in Render : ~Alive([n EXCEPT !.job = NoJob])
  /\ \A n \in Render : n.job.call \in Command => Alive(n)
  BY RendererAssumption DEF NoJob, Job, Alive, Render

\* Stopping the task is always sound.
LEMMA CancelSound ==
  ASSUME NEW a, NEW r, NEW n, Sound(a, r, n)
  PROVE  /\ Sound(a, r, Cancel(n)) /\ ~Alive(Cancel(n))
         /\ Cancel(n) \in Render /\ Cancel(n).late = NoCommand
<1>1. Cancel(n) \in Render /\ Cancel(n).job = NoJob /\ Cancel(n).late = NoCommand
  BY NoJobIsIdle DEF Cancel, Render, Sound, WellTyped
<1>. QED
  BY <1>1 DEF Sound, WellTyped, JobIsReal, Quiet, LeftAlone, OwnDebt, OffDebt, Alive

\* With no task and nothing to re-check, any record is sound that owes nothing
\* of ours while the switch is off.
LEMMA IdleSound ==
  ASSUME NEW a \in BOOLEAN, NEW r \in Record, NEW n \in Render,
         ~Alive(n), n.late = NoCommand, OffDebt(a, r)
  PROVE  Sound(a, r, n)
  BY DEF Sound, WellTyped, JobIsReal, Quiet, LeftAlone, OwnDebt

\* Beside the task there was, a record is sound that owes what was owed or
\* nothing, and is not left to layers.sync while a render runs.
LEMMA RecordSound ==
  ASSUME NEW a, NEW r, NEW n, Sound(a, r, n),
         NEW q \in Record, q.owed \in {r.owed, NoDebt},
         q.diverged \in SyncOnly => r.diverged \in SyncOnly \/ ~Alive(n)
  PROVE  Sound(a, q, n)
  BY DEF Sound, WellTyped, JobIsReal, Quiet, LeftAlone, OwnDebt, OffDebt

\* What settling, a new command and another divergence make of a record.
LEMMA SettledFields ==
  ASSUME NEW r \in Record
  PROVE  /\ Settled(r) \in Record /\ Settled(r).owed = NoDebt
         /\ Settled(r).wanted = r.wanted /\ Settled(r).diverged = r.diverged
         /\ Settled(r).untrusted = r.untrusted
  BY DEF Settled, Record, Debt, NoDebt, Owed

LEMMA WantedFields ==
  ASSUME NEW r \in Record, NEW c \in Command \cup {NoCommand}
  PROVE  LET q == [r EXCEPT !.wanted = c]
         IN q \in Record /\ q.wanted = c /\ q.owed = r.owed /\ q.diverged = r.diverged
  BY DEF Record

LEMMA DivergedFields ==
  ASSUME NEW r \in Record, NEW d \in Divergence
  PROVE  LET q == [r EXCEPT !.diverged = d]
         IN q \in Record /\ q.wanted = r.wanted /\ q.owed = r.owed /\ q.diverged = d
  BY DEF Record

LEMMA TakenFields ==
  ASSUME NEW r \in Record, NEW c \in Command \cup {NoCommand}
  PROVE  LET q == Settled([r EXCEPT !.wanted = c])
         IN /\ q \in Record /\ q.wanted = c /\ q.owed = NoDebt
            /\ q.diverged = r.diverged
<1> DEFINE asked == [r EXCEPT !.wanted = c]
<1>1. asked \in Record /\ asked.wanted = c /\ asked.diverged = r.diverged
  BY WantedFields
<1>. HIDE DEF asked
<1>2. /\ Settled(asked) \in Record /\ Settled(asked).wanted = c
      /\ Settled(asked).owed = NoDebt /\ Settled(asked).diverged = r.diverged
  BY <1>1, SettledFields
<1>. QED BY <1>2 DEF asked

LEMMA OwedFields ==
  ASSUME NEW r \in Record, NEW c \in Command \cup {NoCommand}, NEW missed \in BOOLEAN
  PROVE  LET q == [r EXCEPT !.owed = Owed(c, missed)]
         IN /\ q \in Record /\ q.wanted = r.wanted /\ q.owed = Owed(c, missed)
            /\ q.diverged = r.diverged
  BY DEF Record, Debt, Owed

LEMMA LiftedFields ==
  ASSUME NEW r \in Record, NEW reason
  PROVE  /\ Lifted(r, reason) \in Record
         /\ Lifted(r, reason).wanted = r.wanted /\ Lifted(r, reason).owed = r.owed
         /\ Lifted(r, reason).diverged \in SyncOnly =>
              reason \in Deferred /\ r.diverged \in SyncOnly
<1>1. "none" \in Divergence \ SyncOnly
  BY DEF Divergence, SyncOnly
<1>. QED BY <1>1, DivergedFields DEF Lifted

-----------------------------------------------------------------------------
(* Starting and stopping a render *)

\* A new task for the command that is wanted, with the switch on.
LEMMA StartSound ==
  ASSUME NEW r, NEW n, Sound(TRUE, r, n), r.wanted \in Command, r.diverged \notin SyncOnly
  PROVE  SoundPair(TRUE, Start(r, n)) /\ UpToDatePair(Start(r, n))
<1>1. CASE n.job.call = r.wanted
  BY <1>1 DEF Start, SoundPair, UpToDatePair, UpToDate, Both
<1>2. CASE n.job.call # r.wanted
  <2> DEFINE job == [call |-> r.wanted, attempts |-> 0, phase |-> "waiting"]
             q == [r EXCEPT !.owed = Owed(r.wanted, FALSE)]
             m == [Cancel(n) EXCEPT !.job = job]
  <2>1. Start(r, n).rec = q /\ Start(r, n).ren = m
    BY <1>2 DEF Start, Both
  <2>2. job \in Job /\ 0 < MaxAttempts
    BY RendererAssumption DEF Job
  <2>3. m \in Render /\ m.job = job
    BY <2>2, CancelSound DEF Render
  <2>4. q \in Record /\ q.owed = Owed(r.wanted, FALSE) /\ q.diverged = r.diverged
        /\ q.wanted = r.wanted
    BY OwedFields DEF Sound, WellTyped
  <2>5. m.job.call = r.wanted /\ m.job.attempts = 0
    BY <2>3
  <2>. HIDE DEF q, m, job
  <2>6. Sound(TRUE, q, m)
    BY <2>2, <2>3, <2>4, <2>5
    DEF Sound, WellTyped, JobIsReal, Quiet, LeftAlone, OwnDebt, OffDebt
  <2>7. UpToDate(q, m)
    BY <2>4, <2>5 DEF UpToDate
  <2>. QED BY <2>1, <2>6, <2>7 DEF SoundPair, UpToDatePair
<1>. QED BY <1>1, <1>2

\* _render leaves the invariant, and no render of another command, whatever ran
\* before and for whatever reason it is called.
LEMMA SendSound ==
  ASSUME NEW r, NEW n, NEW l \in Lamp, NEW reason, Sound(apply, r, n)
  PROVE  SoundPair(apply, Send(r, n, l, reason)) /\ UpToDatePair(Send(r, n, l, reason))
<1> DEFINE inSync == ShowsWanted(r, l) /\ (Alive(n) => n.job.call = r.wanted)
<1>0. r \in Record /\ n \in Render /\ apply \in BOOLEAN
      /\ "unsynced" \in Divergence /\ "none" \in Divergence
  BY DEF Sound, WellTyped, Divergence
<1>c. /\ Sound(apply, r, Cancel(n)) /\ ~Alive(Cancel(n))
      /\ Cancel(n) \in Render /\ Cancel(n).late = NoCommand
  BY CancelSound
<1>s. Settled(r) \in Record /\ Settled(r).owed = NoDebt
      /\ Settled(r).diverged = r.diverged
  BY <1>0, SettledFields
<1>1. CASE reason \in Deferred /\ r.untrusted
  <2>1. Send(r, n, l, reason) = Both(Settled(r), Cancel(n))
    BY <1>1 DEF Send
  <2>2. Sound(apply, Settled(r), Cancel(n))
    BY <1>c, <1>s, RecordSound
  <2>. QED BY <1>c, <2>1, <2>2 DEF SoundPair, UpToDatePair, UpToDate, Both
<1>2. CASE ~(reason \in Deferred /\ r.untrusted)
           /\ reason \in Deferred /\ r.diverged \in SyncOnly
  <2>1. Send(r, n, l, reason) = Both(Settled(r), n)
    BY <1>2 DEF Send
  <2>2. Sound(apply, Settled(r), n) /\ ~Alive(n)
    BY <1>2, <1>s, RecordSound DEF Sound, LeftAlone
  <2>. QED BY <2>1, <2>2 DEF SoundPair, UpToDatePair, UpToDate, Both
<1>3. CASE /\ ~(reason \in Deferred /\ r.untrusted)
           /\ ~(reason \in Deferred /\ r.diverged \in SyncOnly)
  <2>1. CASE r.wanted = NoCommand
    <3>1. Send(r, n, l, reason) = Both(Settled(r), Cancel(n))
      BY <1>3, <2>1 DEF Send
    <3>2. Sound(apply, Settled(r), Cancel(n))
      BY <1>c, <1>s, RecordSound
    <3>. QED BY <1>c, <3>1, <3>2 DEF SoundPair, UpToDatePair, UpToDate, Both
  <2>2. CASE r.wanted # NoCommand /\ inSync
    <3> DEFINE q == [Settled(r) EXCEPT !.diverged = "none"]
    <3>1. Send(r, n, l, reason) = Both(q, Cancel(n))
      BY <1>3, <2>2 DEF Send
    <3>2. q \in Record /\ q.owed = NoDebt /\ q.diverged = "none"
      BY <1>0, <1>s, DivergedFields
    <3>. HIDE DEF q
    <3>3. Sound(apply, q, Cancel(n))
      BY <1>c, <3>2, RecordSound
    <3>. QED BY <1>c, <3>1, <3>3 DEF SoundPair, UpToDatePair, UpToDate, Both
  <2>3. CASE r.wanted # NoCommand /\ ~inSync /\ ~apply
    <3> DEFINE q == [Settled(r) EXCEPT !.diverged = "unsynced"]
    <3>1. Send(r, n, l, reason) = Both(q, Cancel(n))
      BY <1>3, <2>3 DEF Send
    <3>2. q \in Record /\ q.owed = NoDebt
      BY <1>0, <1>s, DivergedFields
    <3>. HIDE DEF q
    <3>3. Sound(apply, q, Cancel(n))
      BY <1>c, <3>2, RecordSound
    <3>. QED BY <1>c, <3>1, <3>3 DEF SoundPair, UpToDatePair, UpToDate, Both
  <2>4. CASE r.wanted # NoCommand /\ ~inSync /\ apply /\ ~Here(l)
    <3> DEFINE q == [Lifted(r, reason) EXCEPT !.owed = Owed(r.wanted, FALSE)]
    <3>1. Send(r, n, l, reason) = Both(q, Cancel(n))
      BY <1>3, <2>4 DEF Send
    <3>2. r.wanted \in Command \cup {NoCommand}
      BY <1>0 DEF Record
    <3>3. q \in Record
      BY <1>0, <3>2, LiftedFields, OwedFields
    <3>. HIDE DEF q
    <3>4. Sound(apply, q, Cancel(n))
      BY <1>0, <1>c, <2>4, <3>3, IdleSound DEF OffDebt
    <3>. QED BY <1>c, <3>1, <3>4 DEF SoundPair, UpToDatePair, UpToDate, Both
  <2>5. CASE r.wanted # NoCommand /\ ~inSync /\ apply /\ Here(l)
    <3>1. Send(r, n, l, reason) = Start(Lifted(r, reason), Fresh(n, reason))
      BY <1>3, <2>5 DEF Send
    <3>2. Lifted(r, reason).wanted \in Command /\ Lifted(r, reason).diverged \notin SyncOnly
      BY <1>0, <1>3, <2>5, LiftedFields DEF Record
    <3>3. Sound(apply, Lifted(r, reason), n)
      BY <1>0, <3>2, LiftedFields, RecordSound
    <3>4. Fresh(n, reason) \in Render /\ Fresh(n, reason).job = n.job
          /\ Fresh(n, reason).late = n.late
      BY <1>0 DEF Fresh, Render
    <3>5. Sound(TRUE, Lifted(r, reason), Fresh(n, reason))
      BY <2>5, <3>3, <3>4
      DEF Sound, WellTyped, JobIsReal, Quiet, LeftAlone, OwnDebt, OffDebt, Alive
    <3>6. apply = TRUE
      BY <1>0, <2>5
    <3>. QED BY <3>1, <3>2, <3>5, <3>6, StartSound
  <2>. QED BY <1>0, <2>1, <2>2, <2>3, <2>4, <2>5
<1>. QED BY <1>1, <1>2, <1>3

\* _drop_stale_render leaves the invariant and no stale render.
LEMMA DropStaleSound ==
  ASSUME NEW r, NEW n, Sound(apply, r, n)
  PROVE  SoundPair(apply, DropStale(r, n)) /\ UpToDatePair(DropStale(r, n))
<1>1. CASE ~Alive(n) \/ RenderWanted(r, n)
  <2>1. DropStale(r, n) = Both(r, n)
    BY <1>1 DEF DropStale
  <2>. QED BY <1>1, <2>1 DEF SoundPair, UpToDatePair, UpToDate, RenderWanted, Both
<1>2. CASE ~(~Alive(n) \/ RenderWanted(r, n))
  <2> DEFINE q == IF r.owed.missed THEN r ELSE Settled(r)
  <2>1. DropStale(r, n) = Both(q, Cancel(n))
    BY <1>2 DEF DropStale
  <2>2. Sound(apply, q, n)
    BY SettledFields, RecordSound DEF Sound, WellTyped
  <2>3. Sound(apply, q, Cancel(n)) /\ ~Alive(Cancel(n))
    BY <2>2, CancelSound
  <2>. QED BY <2>1, <2>3 DEF SoundPair, UpToDatePair, UpToDate, Both
<1>. QED BY <1>1, <1>2

\* _follow_render leaves the invariant, and a stale render only where nothing may
\* be sent.
LEMMA FollowRenderSound ==
  ASSUME NEW r, NEW n, NEW l \in Lamp, NEW running, Sound(apply, r, n)
  PROVE  /\ SoundPair(apply, FollowRender(r, n, l, running))
         /\ "grace" \in running \/ ~Here(l) \/ ~Alive(n)
            \/ UpToDatePair(FollowRender(r, n, l, running))
         /\ ~Alive(n) => UpToDatePair(FollowRender(r, n, l, running))
<1>1. CASE "grace" \in running \/ ~Here(l)
  <2>1. FollowRender(r, n, l, running) = Both(r, n)
    BY <1>1 DEF FollowRender
  <2>. QED BY <1>1, <2>1 DEF SoundPair, UpToDatePair, UpToDate, Both
<1>2. CASE ~("grace" \in running \/ ~Here(l))
  <2>1. FollowRender(r, n, l, running) = Send(r, n, l, "deferred")
    BY <1>2 DEF FollowRender
  <2>. QED BY <2>1, SendSound
<1>. QED BY <1>1, <1>2

-----------------------------------------------------------------------------
(* The parts that end in a step: `apply` stays *)

\* What a handler leaves of the record and the task.
Leaves == Sound(apply, rec', ren') /\ UpToDate(rec', ren')

LEMMA BecomesLeaves ==
  ASSUME NEW p, SoundPair(apply, p), UpToDatePair(p), Becomes(p)
  PROVE  Leaves
  BY DEF Leaves, Becomes, SoundPair, UpToDatePair

\* _external, of a person or a device.
LEMMA ExternallyLeaves ==
  ASSUME IInv, NEW l \in Lamp, NEW c \in Command, NEW running,
         Externally(l, c, running)
  PROVE  Leaves
<1> DEFINE taken == Settled([rec EXCEPT !.wanted = c])
<1>1. Sound(apply, rec, ren) /\ rec \in Record
  BY DEF IInv, Sound, WellTyped
<1>3. taken \in Record /\ taken.owed = NoDebt /\ taken.diverged = rec.diverged
  BY <1>1, TakenFields
<1>. HIDE DEF taken
<1>4. Sound(apply, rec, Cancel(ren)) /\ ~Alive(Cancel(ren))
  BY <1>1, CancelSound
<1>5. ASSUME NEW d \in Divergence
      PROVE  Sound(apply, [taken EXCEPT !.diverged = d], Cancel(ren))
  BY <1>3, <1>4, <1>5, DivergedFields, RecordSound
<1>6. ASSUME NEW d \in Explained(taken, l),
             \/ Becomes(Both([taken EXCEPT !.diverged = d], Cancel(ren)))
             \/ Becomes(FollowRender([taken EXCEPT !.diverged = d], Cancel(ren), l, running))
      PROVE  Leaves
  <2> DEFINE q == [taken EXCEPT !.diverged = d]
  <2>1. d \in Divergence
    BY <1>3, <1>6 DEF Explained, Divergence, Record
  <2>2. Sound(apply, q, Cancel(ren))
    BY <1>5, <2>1
  <2>. HIDE DEF q
  <2>3. CASE Becomes(Both(q, Cancel(ren)))
    BY <1>4, <2>2, <2>3 DEF Becomes, Both, Leaves, UpToDate
  <2>4. CASE Becomes(FollowRender(q, Cancel(ren), l, running))
    BY <1>4, <2>2, <2>4, FollowRenderSound, BecomesLeaves
  <2>. QED BY <1>6, <2>3, <2>4 DEF q
<1>7. ASSUME Becomes(Send([taken EXCEPT !.diverged = "delivery"], Cancel(ren), l, "deferred"))
      PROVE  Leaves
  <2> DEFINE q == [taken EXCEPT !.diverged = "delivery"]
  <2>1. Sound(apply, q, Cancel(ren))
    BY <1>5 DEF Divergence
  <2>. HIDE DEF q
  <2>2. Becomes(Send(q, Cancel(ren), l, "deferred"))
    BY <1>7 DEF q
  <2>. QED BY <2>1, <2>2, SendSound, BecomesLeaves
<1>. QED BY <1>6, <1>7 DEF Externally, taken

\* _return_decision.
LEMMA ReturnDecisionLeaves ==
  ASSUME IInv, NEW l \in Lamp, NEW running, ReturnDecision(l, running)
  PROVE  Leaves
<1>1. Sound(apply, rec, ren) /\ rec \in Record
  BY DEF IInv, Sound, WellTyped
<1>2. ASSUME NEW c \in Command,
             Becomes(DropStale(Settled([rec EXCEPT !.wanted = c]), ren))
      PROVE  Leaves
  <2> DEFINE q == Settled([rec EXCEPT !.wanted = c])
  <2>1. q \in Record /\ q.owed = NoDebt /\ q.diverged = rec.diverged
    BY <1>1, TakenFields
  <2>. HIDE DEF q
  <2>2. Sound(apply, q, ren)
    BY <1>1, <2>1, RecordSound
  <2>3. Becomes(DropStale(q, ren))
    BY <1>2 DEF q
  <2>. QED BY <2>2, <2>3, DropStaleSound, BecomesLeaves
<1>3. ASSUME Becomes(DropStale(Settled(rec), ren)) PROVE Leaves
  <2>1. Sound(apply, Settled(rec), ren)
    BY <1>1, SettledFields, RecordSound
  <2>. QED BY <1>3, <2>1, DropStaleSound, BecomesLeaves
<1>4. ASSUME Becomes(Send(rec, ren, l, "deferred")) PROVE Leaves
  BY <1>1, <1>4, SendSound, BecomesLeaves
<1>5. ASSUME NEW c \in Command, Externally(l, c, running) PROVE Leaves
  BY <1>5, ExternallyLeaves
<1>. QED BY <1>2, <1>3, <1>4, <1>5 DEF ReturnDecision

-----------------------------------------------------------------------------
(* The actions *)

\* What every step leaves: the invariant, and an up-to-date render wherever it
\* changed what is wanted.
Clean == IInv' /\ (rec'.wanted # rec.wanted => UpToDate(rec', ren'))

LEMMA LampIsLamp == Shown \subseteq Lamp /\ Away \subseteq Lamp
<1> DEFINE colours == IF "colour" \in Happenings THEN BOOLEAN ELSE {TRUE}
<1>1. ASSUME NEW l \in Shown PROVE l \in Lamp
  <2>1. colours \subseteq BOOLEAN
    OBVIOUS
  <2>2. l \in [state : {"here"}, shows : Command, colour : colours]
    BY DEF Shown
  <2>. HIDE DEF colours
  <2>. QED BY <2>1, <2>2 DEF Lamp
<1>2. ASSUME NEW l \in Away PROVE l \in Lamp
  <2>1. PICK s \in {"unavailable", "gone"} :
          l = [state |-> s, shows |-> NoCommand, colour |-> FALSE]
    BY DEF Away
  <2>. QED BY <2>1 DEF Lamp
<1>. QED BY <1>1, <1>2

\* A handler that leaves the switch on or off as it was.
LEMMA LeavesClean ==
  ASSUME Leaves, apply' = apply, lamp' \in Lamp, timers' \subseteq Timer
  PROVE  Clean
  BY DEF Leaves, Clean, IInv

\* A handler after which nothing runs and nothing is to be re-checked.
LEMMA IdleClean ==
  ASSUME apply' \in BOOLEAN, rec' \in Record, ren' \in Render, ~Alive(ren'),
         ren'.late = NoCommand, OffDebt(apply', rec'),
         lamp' \in Lamp, timers' \subseteq Timer
  PROVE  Clean
<1>1. Sound(apply', rec', ren')
  BY IdleSound DEF Sound, WellTyped, JobIsReal, Quiet, LeftAlone, OwnDebt
<1>2. UpToDate(rec', ren')
  BY DEF UpToDate
<1>. QED BY <1>1, <1>2 DEF Clean, IInv

\* A handler that touches neither record nor task.
LEMMA UntouchedClean ==
  ASSUME IInv, apply' = apply, rec' = rec, ren' = ren,
         lamp' \in Lamp, timers' \subseteq Timer
  PROVE  Clean
  BY DEF Clean, IInv

LEMMA OwnerStep == ASSUME IInv, Owner PROVE Clean
<1>1. Sound(apply, rec, ren) /\ rec \in Record /\ lamp \in Lamp /\ timers \subseteq Timer
  BY DEF IInv, Sound, WellTyped
<1>2. ASSUME NEW c \in Command \cup {NoCommand}, OwnerCalls(c) PROVE Clean
  <2> DEFINE q == [rec EXCEPT !.wanted = c]
  <2>1. UNCHANGED <<apply, lamp, timers>>
        /\ (Becomes(Send(q, ren, lamp, "owner")) \/ Becomes(Both(rec, ren)))
    BY <1>2 DEF OwnerCalls
  <2>2. q \in Record /\ q.owed = rec.owed /\ q.diverged = rec.diverged
    BY <1>1, WantedFields
  <2>. HIDE DEF q
  <2>3. Sound(apply, q, ren)
    BY <1>1, <2>2, RecordSound
  <2>4. CASE Becomes(Send(q, ren, lamp, "owner"))
    BY <1>1, <2>1, <2>3, <2>4, SendSound, BecomesLeaves, LeavesClean
  <2>5. CASE Becomes(Both(rec, ren))
    BY <1>1, <2>1, <2>5, UntouchedClean DEF Becomes, Both
  <2>. QED BY <2>1, <2>4, <2>5
<1>3. ASSUME Sync PROVE Clean
  <2> DEFINE trusted == [rec EXCEPT !.untrusted = FALSE]
             q == Lifted(trusted, "owner")
  <2>1. UNCHANGED <<apply, lamp, timers>> /\ Becomes(Send(q, ren, lamp, "owner"))
    BY <1>3 DEF Sync
  <2>2. trusted \in Record /\ trusted.owed = rec.owed /\ trusted.diverged = rec.diverged
    BY <1>1 DEF Record
  <2>. HIDE DEF trusted
  <2>3. q \in Record /\ q.owed = rec.owed /\ q.diverged \notin SyncOnly
    BY <2>2, LiftedFields DEF Deferred
  <2>. HIDE DEF q
  <2>4. Sound(apply, q, ren)
    BY <1>1, <2>3, RecordSound
  <2>. QED BY <1>1, <2>1, <2>4, SendSound, BecomesLeaves, LeavesClean
<1>4. ASSUME NEW on \in BOOLEAN, SetApply(on) PROVE Clean
  <2>1. apply' = on /\ UNCHANGED <<lamp, timers>>
    BY <1>4 DEF SetApply
  <2>2. CASE on
    <3>1. rec' = rec /\ ren' = ren
      BY <1>4, <2>2 DEF SetApply, Becomes, Both
    <3>2. Sound(on, rec, ren)
      BY <1>1, <2>2 DEF Sound, WellTyped, Quiet, OffDebt
    <3>. QED BY <1>1, <2>1, <3>1, <3>2 DEF Clean, IInv
  <2>3. CASE ~on
    <3> DEFINE settled == [Settled(rec) EXCEPT !.diverged = "unsynced"]
    <3>1. ren' = Cancel(ren) /\ rec' = IF Alive(ren) \/ rec.owed # NoDebt THEN settled ELSE rec
      BY <1>4, <2>3 DEF SetApply, Off, Becomes, Both
    <3>2. Settled(rec) \in Record /\ Settled(rec).owed = NoDebt /\ "unsynced" \in Divergence
      BY <1>1, SettledFields DEF Divergence
    <3>3. settled \in Record /\ settled.owed = NoDebt
      BY <3>2, DivergedFields
    <3>. HIDE DEF settled
    <3>4. rec' \in Record /\ rec'.owed = NoDebt
      BY <1>1, <3>1, <3>3
    <3>5. ren' \in Render /\ ~Alive(ren') /\ ren'.late = NoCommand
      BY <1>1, <3>1, CancelSound
    <3>. QED BY <1>1, <2>1, <3>4, <3>5, IdleClean DEF OffDebt
  <2>. QED BY <2>2, <2>3
<1>. QED BY <1>2, <1>3, <1>4 DEF Owner

\* A followed entity may leave a stale render where nothing may be sent.
Unsent == "grace" \in timers \/ ~Here(lamp)

LEMMA SourceStep ==
  ASSUME IInv, NEW c \in Command, SourceChanges(c)
  PROVE  IInv' /\ (UpToDate(rec', ren') \/ Unsent)
<1> DEFINE q == [rec EXCEPT !.wanted = c]
           p == FollowRender(q, ren, lamp, timers)
<1>1. Sound(apply, rec, ren) /\ rec \in Record /\ lamp \in Lamp /\ timers \subseteq Timer
  BY DEF IInv, Sound, WellTyped
<1>2. UNCHANGED <<apply, lamp, timers>> /\ Becomes(p)
  BY DEF SourceChanges
<1>3. q \in Record /\ q.owed = rec.owed /\ q.diverged = rec.diverged
  BY <1>1, WantedFields
<1>. HIDE DEF q
<1>4. Sound(apply, q, ren)
  BY <1>1, <1>3, RecordSound
<1>5. SoundPair(apply, p) /\ ("grace" \in timers \/ ~Here(lamp) \/ UpToDatePair(p))
  BY <1>1, <1>4, FollowRenderSound
<1>. HIDE DEF p
<1>. QED
  BY <1>1, <1>2, <1>5 DEF IInv, SoundPair, UpToDatePair, Becomes, Unsent

LEMMA SomeoneStep ==
  ASSUME IInv, Someone
  PROVE  Clean \/ (IInv' /\ Unsent /\ \E c \in Command : SourceChanges(c))
<1>1. Sound(apply, rec, ren) /\ rec \in Record /\ lamp \in Lamp /\ timers \subseteq Timer
      /\ Shown \subseteq Lamp
  BY LampIsLamp DEF IInv, Sound, WellTyped
<1>2. ASSUME NEW l \in Shown, NEW c \in Command, External(l, c) PROVE Clean
  <2>1. apply' = apply /\ lamp' \in Lamp /\ timers' \subseteq Timer /\ Externally(l, c, timers)
    BY <1>1, <1>2 DEF External
  <2>. QED BY <1>1, <2>1, ExternallyLeaves, LeavesClean
<1>3. ASSUME NEW c \in Command, CallMissed(c) PROVE Clean
  <2> DEFINE debt == IF c = NoCommand THEN NoDebt ELSE Owed(c, TRUE)
  <2>1. PICK d \in {rec.diverged, "none"} :
          rec' = [rec EXCEPT !.wanted = c, !.diverged = d, !.owed = debt]
    BY <1>3 DEF CallMissed
  <2>2. d \in Divergence /\ debt \in Debt /\ (debt = NoDebt \/ debt.missed)
    BY <1>1 DEF Record, Divergence, Debt, NoDebt, Owed
  <2>3. rec' \in Record /\ rec'.owed = debt
    BY <1>1, <2>1, <2>2 DEF Record
  <2>4. ren' \in Render /\ ~Alive(ren') /\ ren'.late = NoCommand
    BY <1>1, <1>3, CancelSound DEF CallMissed
  <2>5. apply' \in BOOLEAN /\ lamp' \in Lamp /\ timers' \subseteq Timer
    BY <1>1, <1>3 DEF CallMissed, Sound, WellTyped
  <2>. HIDE DEF debt
  <2>. QED BY <2>2, <2>3, <2>4, <2>5, IdleClean DEF OffDebt
<1>4. ASSUME NEW l \in Shown, NEW c \in Command, NEW report \in BOOLEAN, Replayed(l, c, report)
      PROVE  Clean
  <2> DEFINE q == [rec EXCEPT !.wanted = c]
  <2>1. /\ apply' = apply /\ lamp' \in Lamp /\ timers' \subseteq Timer
        /\ Becomes(DropStale(q, ren))
    BY <1>1, <1>4 DEF Replayed, Timer
  <2>2. q \in Record /\ q.owed = rec.owed /\ q.diverged = rec.diverged
    BY <1>1, WantedFields
  <2>. HIDE DEF q
  <2>3. Sound(apply, q, ren)
    BY <1>1, <2>2, RecordSound
  <2>. QED BY <2>1, <2>3, DropStaleSound, BecomesLeaves, LeavesClean
<1>5. ASSUME NEW c \in Command, SourceChanges(c)
      PROVE  Clean \/ (IInv' /\ Unsent)
  BY <1>5, SourceStep DEF Clean
<1>. QED BY <1>2, <1>3, <1>4, <1>5 DEF Someone

LEMMA SurroundingsStep ==
  ASSUME IInv, Surroundings
  PROVE  Clean \/ (IInv' /\ RunsOut)
<1>1. /\ Sound(apply, rec, ren) /\ rec \in Record /\ ren \in Render
      /\ apply \in BOOLEAN /\ lamp \in Lamp /\ timers \subseteq Timer
      /\ Shown \subseteq Lamp /\ Away \subseteq Lamp
  BY LampIsLamp DEF IInv, Sound, WellTyped
<1>2. ASSUME NEW away \in Away, Drop(away) PROVE Clean
  BY <1>1, <1>2, UntouchedClean DEF Drop
<1>3. ASSUME NEW l \in Shown, ComeBack(l) PROVE Clean
  BY <1>1, <1>3, UntouchedClean DEF ComeBack, Timer
<1>4. ASSUME NEW l \in Shown \cup Away, Restart(l) PROVE Clean
  <2>1. rec' \in Record /\ rec'.owed = rec.owed
    BY <1>1, <1>4 DEF Restart, Record
  <2>2. ren' \in Render /\ ~Alive(ren') /\ ren'.late = NoCommand
    BY <1>4, NoJobIsIdle DEF Restart, Render, Alive
  <2>3. apply' = apply /\ lamp' \in Lamp /\ timers' \subseteq Timer
    BY <1>1, <1>4 DEF Restart, Timer
  <2>4. OffDebt(apply', rec')
    BY <1>1, <2>1, <2>3 DEF Sound, OffDebt
  <2>. QED BY <1>1, <2>1, <2>2, <2>3, <2>4, IdleClean
<1>5. ASSUME NEW c \in Command \cup {NoCommand}, RunOut(c) PROVE IInv' /\ RunsOut
  <2>1. rec' \in Record /\ rec'.owed = rec.owed /\ rec'.diverged = rec.diverged
    BY <1>1, <1>5, WantedFields DEF RunOut
  <2>2. UNCHANGED <<apply, lamp, ren>> /\ timers' \subseteq Timer
    BY <1>1, <1>5 DEF RunOut, Timer
  <2>3. Sound(apply, rec', ren)
    BY <1>1, <2>1, RecordSound
  <2>. QED BY <1>1, <1>5, <2>2, <2>3 DEF IInv, RunsOut
<1>6. ASSUME MarkUntrusted PROVE Clean
  <2>1. rec' \in Record /\ rec'.owed = rec.owed
    BY <1>1, <1>6 DEF MarkUntrusted, Record
  <2>2. ren' \in Render /\ ~Alive(ren') /\ ren'.late = NoCommand
    BY <1>1, <1>6, CancelSound DEF MarkUntrusted
  <2>3. UNCHANGED <<apply, lamp, timers>>
    BY <1>6 DEF MarkUntrusted
  <2>4. OffDebt(apply', rec')
    BY <1>1, <2>1, <2>3 DEF Sound, OffDebt
  <2>. QED BY <1>1, <2>1, <2>2, <2>3, <2>4, IdleClean
<1>. QED BY <1>2, <1>3, <1>4, <1>5, <1>6 DEF Surroundings

LEMMA BridgeStep == ASSUME IInv, Bridge PROVE Clean
<1>1. /\ Sound(apply, rec, ren) /\ rec \in Record /\ ren \in Render
      /\ apply \in BOOLEAN /\ lamp \in Lamp /\ timers \subseteq Timer
      /\ Shown \subseteq Lamp
  BY LampIsLamp DEF IInv, Sound, WellTyped
<1>2. ASSUME NEW l \in Shown, Reported(l) PROVE Clean
  BY <1>1, <1>2, UntouchedClean DEF Reported
<1>3. ASSUME NEW l \in Shown, NEW ours \in BOOLEAN, FailedDelivery(l, ours) PROVE Clean
  <2>1. apply' = apply /\ lamp' \in Lamp /\ timers' \subseteq Timer
    BY <1>1, <1>3 DEF FailedDelivery
  <2>2. CASE ~ours
    <3> DEFINE q == [rec EXCEPT !.diverged = "delivery"]
    <3>1. rec' = q /\ ren' = ren
      BY <1>3, <2>2 DEF FailedDelivery, Becomes, Both
    <3>2. q \in Record /\ q.wanted = rec.wanted /\ q.owed = rec.owed /\ q.diverged \notin SyncOnly
      BY <1>1, DivergedFields DEF Divergence, SyncOnly
    <3>. HIDE DEF q
    <3>3. Sound(apply, q, ren)
      BY <1>1, <3>2, RecordSound
    <3>. QED BY <2>1, <3>1, <3>2, <3>3 DEF Clean, IInv
  <2>3. CASE ours /\ ren.retried
    <3>1. rec' = rec /\ ren' = ren
      BY <1>3, <2>3 DEF FailedDelivery, Becomes, Both
    <3>. QED BY <2>1, <3>1, UntouchedClean
  <2>4. CASE ours /\ ~ren.retried
    <3> DEFINE m == [ren EXCEPT !.retried = TRUE]
    <3>1. Becomes(Send(rec, m, l, "again"))
      BY <1>3, <2>4 DEF FailedDelivery
    <3>2. m \in Render /\ m.job = ren.job /\ m.late = ren.late
      BY <1>1 DEF Render
    <3>. HIDE DEF m
    <3>3. Sound(apply, rec, m)
      BY <1>1, <3>2
      DEF Sound, WellTyped, JobIsReal, Quiet, LeftAlone, OwnDebt, Alive
    <3>. QED BY <1>1, <2>1, <3>1, <3>3, SendSound, BecomesLeaves, LeavesClean
  <2>. QED BY <2>2, <2>3, <2>4
<1>. QED BY <1>2, <1>3 DEF Bridge

\* The TTL timer leaves a stale render only on a lamp that is away.
LEMMA ExpireStep ==
  ASSUME IInv, Expires
  PROVE  IInv' /\ (UpToDate(rec', ren') \/ ~Here(lamp))
<1>1. Sound(apply, rec, ren) /\ rec \in Record /\ lamp \in Lamp /\ timers \subseteq Timer
  BY DEF IInv, Sound, WellTyped
<1>2. PICK c \in Command \cup {NoCommand} : ExpireLamp(c)
  BY DEF Expires
<1> DEFINE q == [rec EXCEPT !.wanted = c]
<1>3. q \in Record /\ q.owed = rec.owed /\ q.diverged = rec.diverged
  BY <1>1, WantedFields
<1>4. /\ "grace" \notin timers /\ UNCHANGED <<apply, lamp>> /\ timers' \subseteq Timer
      /\ \/ Becomes(Send(q, ren, lamp, "deferred"))
         \/ Becomes(DropStale(q, ren))
         \/ Becomes(FollowRender(q, ren, lamp, timers))
  BY <1>1, <1>2 DEF ExpireLamp, Expired
<1>. HIDE DEF q
<1>5. Sound(apply, q, ren)
  BY <1>1, <1>3, RecordSound
<1>6. CASE Becomes(Send(q, ren, lamp, "deferred"))
  BY <1>1, <1>4, <1>5, <1>6, SendSound, BecomesLeaves DEF Leaves, IInv
<1>7. CASE Becomes(DropStale(q, ren))
  BY <1>1, <1>4, <1>5, <1>7, DropStaleSound, BecomesLeaves DEF Leaves, IInv
<1>8. CASE Becomes(FollowRender(q, ren, lamp, timers))
  <2> DEFINE p == FollowRender(q, ren, lamp, timers)
  <2>1. SoundPair(apply, p) /\ ("grace" \in timers \/ ~Here(lamp) \/ UpToDatePair(p))
    BY <1>1, <1>5, FollowRenderSound
  <2>2. Becomes(p)
    BY <1>8
  <2>. HIDE DEF p
  <2>. QED BY <1>1, <1>4, <2>1, <2>2 DEF IInv, SoundPair, UpToDatePair, Becomes
<1>. QED BY <1>4, <1>6, <1>7, <1>8

LEMMA EndGraceStep == ASSUME IInv, EndGrace PROVE Clean
<1> DEFINE running == timers \ {"grace", "ttl"}
<1>1. /\ Sound(apply, rec, ren) /\ rec \in Record /\ ren \in Render
      /\ apply \in BOOLEAN /\ lamp \in Lamp /\ timers \subseteq Timer
  BY DEF IInv, Sound, WellTyped
<1>2. UNCHANGED <<apply, lamp>>
  BY DEF EndGrace
<1>3. timers' \subseteq Timer
  BY <1>1 DEF EndGrace, ReturnDecision, StartupMismatch
<1>4. ASSUME NEW c \in Command \cup {NoCommand}, Expired(c) PROVE Clean
  <2> DEFINE q == [rec EXCEPT !.wanted = c]
  <2>1. Becomes(Send(q, ren, lamp, "deferred")) \/ Becomes(DropStale(q, ren))
    BY <1>4 DEF Expired
  <2>2. q \in Record /\ q.owed = rec.owed /\ q.diverged = rec.diverged
    BY <1>1, WantedFields
  <2>. HIDE DEF q
  <2>3. Sound(apply, q, ren)
    BY <1>1, <2>2, RecordSound
  <2>. QED
    BY <1>1, <1>2, <1>3, <2>1, <2>3, SendSound, DropStaleSound, BecomesLeaves, LeavesClean
<1>5. CASE Becomes(Both(rec, ren))
  BY <1>1, <1>2, <1>3, <1>5, UntouchedClean DEF Becomes, Both
<1>6. CASE ReturnDecision(lamp, running)
  BY <1>1, <1>2, <1>3, <1>6, ReturnDecisionLeaves, LeavesClean
<1>7. CASE /\ ~Alive(ren) /\ rec' = [rec EXCEPT !.wanted = lamp.shows, !.diverged = "none"]
           /\ UNCHANGED ren
  <2>1. lamp.shows \in Command \cup {NoCommand} /\ "none" \in Divergence
    BY <1>1 DEF Lamp, Divergence
  <2>2. rec' \in Record /\ rec'.owed = rec.owed /\ rec'.diverged = "none"
    BY <1>1, <1>7, <2>1 DEF Record
  <2>3. Sound(apply, rec', ren)
    BY <1>1, <1>7, <2>2, RecordSound
  <2>. QED BY <1>1, <1>2, <1>3, <1>7, <2>3 DEF Clean, IInv, UpToDate
<1>8. CASE ~Alive(ren) /\ StartupMismatch(running)
  <2>1. CASE Becomes(Both(rec, ren))
    BY <1>5, <2>1
  <2>2. ASSUME NEW c \in Command, Externally(lamp, c, running) PROVE Clean
    BY <1>1, <1>2, <1>3, <2>2, ExternallyLeaves, LeavesClean
  <2>3. CASE Becomes(FollowRender(rec, ren, lamp, running))
    BY <1>1, <1>2, <1>3, <1>8, <2>3, FollowRenderSound, BecomesLeaves, LeavesClean
  <2>4. CASE Becomes(Both([rec EXCEPT !.diverged = "unsynced"], ren))
    <3> DEFINE q == [rec EXCEPT !.diverged = "unsynced"]
    <3>1. rec' = q /\ ren' = ren
      BY <2>4 DEF Becomes, Both
    <3>2. q \in Record /\ q.wanted = rec.wanted /\ q.owed = rec.owed
      BY <1>1, DivergedFields DEF Divergence
    <3>. HIDE DEF q
    <3>3. Sound(apply, q, ren)
      BY <1>1, <1>8, <3>2, RecordSound
    <3>. QED BY <1>1, <1>2, <1>3, <3>1, <3>2, <3>3 DEF Clean, IInv
  <2>. QED BY <1>8, <2>1, <2>2, <2>3, <2>4 DEF StartupMismatch
<1>. QED BY <1>4, <1>5, <1>6, <1>7, <1>8 DEF EndGrace

LEMMA TimersStep ==
  ASSUME IInv, Timers
  PROVE  Clean \/ (IInv' /\ Expires /\ ~Here(lamp))
<1>1. /\ Sound(apply, rec, ren) /\ rec \in Record /\ ren \in Render
      /\ apply \in BOOLEAN /\ lamp \in Lamp /\ timers \subseteq Timer
  BY DEF IInv, Sound, WellTyped
<1>2. ASSUME Expires PROVE Clean \/ (IInv' /\ ~Here(lamp))
  BY <1>2, ExpireStep DEF Clean
<1>3. ASSUME JudgeReturn PROVE Clean
  <2>1. /\ ReturnDecision(lamp, timers \ {"return"}) /\ UNCHANGED <<apply, lamp>>
    BY <1>3 DEF JudgeReturn
  <2>2. timers' \subseteq Timer
    BY <1>1, <2>1 DEF ReturnDecision
  <2>. QED BY <1>1, <2>1, <2>2, ReturnDecisionLeaves, LeavesClean
<1>4. ASSUME AfterReplay PROVE Clean
  <2>1. /\ Becomes(Send(rec, ren, lamp, "deferred")) /\ UNCHANGED <<apply, lamp>>
        /\ timers' \subseteq Timer
    BY <1>1, <1>4 DEF AfterReplay
  <2>. QED BY <1>1, <2>1, SendSound, BecomesLeaves, LeavesClean
<1>5. ASSUME LateCheck PROVE Clean
  <2> DEFINE spent == [ren EXCEPT !.late = NoCommand]
             again == [spent EXCEPT !.retried = TRUE]
  <2>1. /\ Becomes(Send(rec, again, lamp, "again")) \/ Becomes(Both(rec, spent))
        /\ UNCHANGED <<apply, lamp, timers>>
    BY <1>5 DEF LateCheck
  <2>2. spent \in Render /\ spent.job = ren.job /\ spent.late = NoCommand
    BY <1>1 DEF Render
  <2>3. again \in Render /\ again.job = ren.job /\ again.late = NoCommand
    BY <1>1 DEF Render
  <2>. HIDE DEF spent, again
  <2>4. Sound(apply, rec, spent) /\ Sound(apply, rec, again)
    BY <1>1, <2>2, <2>3
    DEF Sound, WellTyped, JobIsReal, Quiet, LeftAlone, OwnDebt, Alive
  <2>5. CASE Becomes(Send(rec, again, lamp, "again"))
    BY <1>1, <2>1, <2>4, <2>5, SendSound, BecomesLeaves, LeavesClean
  <2>6. CASE Becomes(Both(rec, spent))
    BY <1>1, <2>1, <2>4, <2>6 DEF Becomes, Both, Clean, IInv
  <2>. QED BY <2>1, <2>5, <2>6
<1>. QED BY <1>2, <1>3, <1>4, <1>5, EndGraceStep DEF Timers, Expires

\* The end of a render, whatever it found.
LEMMA EndedFields ==
  ASSUME NEW n \in Render
  PROVE  Ended(n) \in Render /\ ~Alive(Ended(n)) /\ Ended(n).late = n.late
  BY NoJobIsIdle DEF Ended, Render, Alive

LEMMA TaskStep == ASSUME IInv, Task PROVE Clean
<1>1. /\ Sound(apply, rec, ren) /\ rec \in Record /\ ren \in Render
      /\ apply \in BOOLEAN /\ lamp \in Lamp /\ timers \subseteq Timer
  BY DEF IInv, Sound, WellTyped
<1>2. Alive(ren) /\ apply = TRUE /\ UNCHANGED <<apply, lamp, timers>>
      /\ rec.diverged \notin SyncOnly
  BY <1>1 DEF Task, Attempt, ReadBack, RenderRaises, Sound, Quiet, LeftAlone
<1>3. Ended(ren) \in Render /\ ~Alive(Ended(ren))
  BY <1>1, EndedFields
<1>4. ASSUME NEW r \in Record, r.wanted = rec.wanted, Becomes(Both(r, Ended(ren)))
      PROVE  Clean
  <2>1. Sound(apply, r, Ended(ren))
    BY <1>1, <1>2, <1>3
    DEF Sound, WellTyped, JobIsReal, Quiet, LeftAlone, OwnDebt, OffDebt
  <2>. QED BY <1>1, <1>2, <1>4, <2>1 DEF Becomes, Both, Clean, IInv
<1>5. /\ Settled(rec) \in Record /\ Settled(rec).wanted = rec.wanted
      /\ "delivery" \in Divergence /\ "colour" \in Divergence /\ "none" \in Divergence
  BY <1>1, SettledFields DEF Divergence
<1>6. CASE Becomes(Abandoned)
  <2>1. CASE rec.owed.target = ren.job.call
    BY <1>4, <1>5, <1>6, <2>1 DEF Abandoned
  <2>2. CASE rec.owed.target # ren.job.call
    BY <1>1, <1>4, <1>6, <2>2 DEF Abandoned
  <2>. QED BY <2>1, <2>2
<1>7. CASE Becomes(Failed)
  <2> DEFINE q == [Settled(rec) EXCEPT !.diverged = "delivery"]
  <2>1. q \in Record /\ q.wanted = rec.wanted
    BY <1>5, DivergedFields
  <2>2. Becomes(Both(q, Ended(ren)))
    BY <1>7 DEF Failed
  <2>. HIDE DEF q
  <2>. QED BY <1>4, <2>1, <2>2
<1>8. ASSUME NEW colourOff \in BOOLEAN, Becomes(Verified(colourOff)) PROVE Clean
  <2> DEFINE d == IF colourOff THEN "colour" ELSE "none"
             q == [Settled(rec) EXCEPT !.diverged = d]
             m == [Ended(ren) EXCEPT !.late = IF LateWindow THEN ren.job.call ELSE @]
  <2>1. d \in Divergence
    BY <1>5
  <2>2. q \in Record /\ q.wanted = rec.wanted
    BY <1>5, <2>1, DivergedFields
  <2>3. rec' = q /\ ren' = m
    BY <1>8 DEF Verified, Becomes, Both
  <2>4. ren.job.call \in Command
    BY <1>1, <1>2 DEF Sound, JobIsReal
  <2>5. m \in Render /\ m.job = Ended(ren).job
    BY <1>3, <2>4 DEF Render
  <2>. HIDE DEF q, m, d
  <2>6. Sound(apply, q, m)
    BY <1>1, <1>2, <1>3, <2>2, <2>5
    DEF Sound, WellTyped, JobIsReal, Quiet, LeftAlone, OwnDebt, OffDebt, Alive
  <2>. QED BY <1>1, <1>2, <2>2, <2>3, <2>6 DEF Clean, IInv
<1>9. ASSUME Attempt PROVE Clean
  <2> DEFINE q == [rec EXCEPT !.owed = Owed(ren.job.call, FALSE)]
             job == [ren.job EXCEPT !.attempts = @ + 1, !.phase = "sent"]
             m == [ren EXCEPT !.job = job]
  <2>1. \/ Becomes(Both(rec, Ended(ren)))
        \/ Becomes(Abandoned)
        \/ Becomes(Both(q, [ren EXCEPT !.job.attempts = @ + 1, !.job.phase = "sent"]))
    BY <1>9 DEF Attempt
  <2>2. CASE Becomes(Both(rec, Ended(ren)))
    BY <1>1, <1>4, <2>2
  <2>3. CASE Becomes(Both(q, [ren EXCEPT !.job.attempts = @ + 1, !.job.phase = "sent"]))
    <3>1. /\ ren.job \in Job /\ ren.job.phase = "waiting"
          /\ ren.job.call \in Command /\ ren.job.attempts < MaxAttempts
      BY <1>1, <1>2, <1>9 DEF Attempt, Render, Sound, JobIsReal
    <3>2. [ren EXCEPT !.job.attempts = @ + 1, !.job.phase = "sent"] = m
      BY <1>1, <3>1 DEF Render, Job
    <3>a. ren.job.attempts + 1 \in 0..MaxAttempts
      BY <3>1, RendererAssumption DEF Job
    <3>b. "sent" \in {"waiting", "sent"}
      OBVIOUS
    <3>3. job \in Job /\ job.call = ren.job.call /\ job.phase = "sent"
      BY <3>1, <3>a, <3>b DEF Job
    <3>4. m \in Render /\ m.job = job /\ m.late = ren.late
      BY <1>1, <3>3 DEF Render
    <3>5. q \in Record /\ q.wanted = rec.wanted /\ q.diverged = rec.diverged
          /\ q.owed = Owed(ren.job.call, FALSE)
      BY <1>1, <3>1, OwedFields
    <3>6. rec' = q /\ ren' = m
      BY <2>3, <3>2 DEF Becomes, Both
    <3>. HIDE DEF q, m, job
    <3>7. Sound(apply, q, m)
      BY <1>1, <1>2, <3>1, <3>3, <3>4, <3>5
      DEF Sound, WellTyped, JobIsReal, Quiet, LeftAlone, OwnDebt, OffDebt
    <3>. QED BY <1>1, <1>2, <3>5, <3>6, <3>7 DEF Clean, IInv
  <2>. QED BY <1>6, <2>1, <2>2, <2>3
<1>10. ASSUME ReadBack PROVE Clean
  <2> DEFINE match == Matches(lamp, ren.job.call)
             m == [ren EXCEPT !.job.phase = "waiting"]
  <2>1. \/ Becomes(Both(rec, Ended(ren)))
        \/ ~LastAttempt /\ Becomes(Both(rec, m))
        \/ Becomes(Abandoned)
        \/ Becomes(Verified(match = "colour_off"))
        \/ Becomes(Failed)
    BY <1>10 DEF ReadBack
  <2>2. CASE ~LastAttempt /\ Becomes(Both(rec, m))
    <3>1. ren.job \in Job /\ ren.job.call \in Command
      BY <1>1, <1>2 DEF Render, Sound, JobIsReal
    <3>2. ren.job.attempts < MaxAttempts
      BY <2>2, <3>1, RendererAssumption DEF LastAttempt, Job
    <3>3. /\ m \in Render /\ m.late = ren.late /\ m.job.call = ren.job.call
          /\ m.job.attempts = ren.job.attempts
      BY <1>1, <3>1 DEF Render, Job
    <3>4. rec' = rec /\ ren' = m
      BY <2>2 DEF Becomes, Both
    <3>. HIDE DEF m
    <3>5. Sound(apply, rec, m)
      BY <1>1, <1>2, <3>1, <3>2, <3>3
      DEF Sound, WellTyped, JobIsReal, Quiet, LeftAlone, OwnDebt, OffDebt
    <3>. QED BY <1>1, <1>2, <3>4, <3>5 DEF Clean, IInv
  <2>. QED BY <1>1, <1>4, <1>6, <1>7, <1>8, <2>1, <2>2
<1>11. ASSUME RenderRaises PROVE Clean
  BY <1>7, <1>11 DEF RenderRaises
<1>. QED BY <1>9, <1>10, <1>11 DEF Task

-----------------------------------------------------------------------------
(* The theorems *)

LEMMA InitSound == Init => IInv
<1> SUFFICES ASSUME Init PROVE IInv
  OBVIOUS
<1>1. rec \in Record /\ rec.owed = NoDebt
  BY DEF Init, Record, Debt, NoDebt, Owed, Divergence
<1>2. ren \in Render /\ ~Alive(ren) /\ ren.late = NoCommand
  BY NoJobIsIdle DEF Init, Render, Alive
<1>3. apply \in BOOLEAN /\ timers \subseteq Timer
  BY DEF Init, Timer
<1>4. lamp \in Lamp
  BY LampIsLamp DEF Init
<1>5. Sound(apply, rec, ren)
  BY <1>1, <1>2, <1>3, IdleSound DEF OffDebt
<1>. QED BY <1>3, <1>4, <1>5 DEF IInv

\* Every step keeps the invariant, and leaves a stale render only where the
\* property allows it.
LEMMA StepSound ==
  ASSUME IInv, Next
  PROVE  \/ Clean
         \/ IInv' /\ RunsOut
         \/ IInv' /\ (Expires \/ Follows) /\ Unsent
  BY OwnerStep, SomeoneStep, SurroundingsStep, BridgeStep, TimersStep, TaskStep
  DEF Next, Follows, Unsent

\* The invariant of the rest, which holds of every state the engine can be in.
THEOREM Invariance == Spec => []IInv
<1>1. IInv /\ UNCHANGED vars => IInv'
  <2> SUFFICES ASSUME IInv, UNCHANGED vars PROVE IInv'
    OBVIOUS
  <2>1. /\ apply' = apply /\ rec' = rec /\ ren' = ren
        /\ lamp' \in Lamp /\ timers' \subseteq Timer
    BY DEF vars, IInv
  <2>. QED BY <2>1, UntouchedClean DEF Clean
<1>2. IInv /\ [Next]_vars => IInv'
  BY <1>1, StepSound DEF Clean
<1>. QED BY <1>2, InitSound, PTL DEF Spec

\* Records, tasks and timers stay well-typed; no render is ever attempted more
\* often than RETRY_BACKOFF_S allows.
THEOREM TypeCorrect == Spec => []TypeOK
<1>1. IInv => TypeOK
  BY DEF IInv, Sound, WellTyped, TypeOK
<1>. QED BY <1>1, Invariance, PTL

\* With the apply switch off nothing is sent, now or later (async_set_apply).
THEOREM OffIsQuiet == Spec => []QuietWhileOff
<1>1. IInv => QuietWhileOff
  BY DEF IInv, Sound, Quiet, QuietWhileOff
<1>. QED BY <1>1, Invariance, PTL

\* A lamp left to layers.sync is being sent nothing (_render).
THEOREM LeftAloneIsQuiet == Spec => []SyncOnlyIsQuiet
<1>1. IInv => SyncOnlyIsQuiet
  BY DEF IInv, Sound, LeftAlone, SyncOnlyIsQuiet
<1>. QED BY <1>1, Invariance, PTL

\* What is owed while a render runs is that render's own command.
THEOREM DebtIsOwn == Spec => []DebtIsTheJobs
<1>1. IInv => DebtIsTheJobs
  BY DEF IInv, Sound, OwnDebt, DebtIsTheJobs
<1>. QED BY <1>1, Invariance, PTL

\* With the apply switch off, only what was asked of an absent lamp is owed.
THEOREM OffOwesLittle == Spec => []OffOwesOnlyMissed
<1>1. IInv => OffOwesOnlyMissed
  BY DEF IInv, Sound, OffDebt, OffOwesOnlyMissed
<1>. QED BY <1>1, Invariance, PTL

\* Whatever changes the effective command leaves no render of another one
\* running, but for the two cases the property names.
THEOREM NoStaleRender == Spec => StaleRendersStop
<1>1. ASSUME IInv, Next PROVE NoneStale
  <2>1. CASE rec'.wanted # rec.wanted
    BY <1>1, <2>1, StepSound DEF NoneStale, Clean, UpToDate, Unsent
  <2>2. CASE Expires
    BY <1>1, <2>2, ExpireStep DEF NoneStale, UpToDate
  <2>. QED BY <2>1, <2>2 DEF NoneStale
<1>2. IInv /\ [Next]_vars => [NoneStale]_vars
  BY <1>1
<1>. QED BY <1>2, Invariance, PTL DEF Spec, StaleRendersStop

-----------------------------------------------------------------------------
(* Every debt has a holder *)

\* Held, of any record, task, lamp and timers.
HeldBy(r, n, l, t) ==
  r.owed # NoDebt => Alive(n) \/ ~Here(l) \/ t \cap {"return", "replay", "grace"} # {}

HeldPair(p, l, t) == HeldBy(p.rec, p.ren, l, t)

\* _render leaves a debt only to the render it starts, or to a lamp that is away.
LEMMA SendHeld ==
  ASSUME NEW r \in Record, NEW n \in Render, NEW l, NEW reason, NEW t
  PROVE  HeldPair(Send(r, n, l, reason), l, t)
<1> DEFINE inSync == ShowsWanted(r, l) /\ (Alive(n) => n.job.call = r.wanted)
           p == Send(r, n, l, reason)
<1>s. Settled(r) \in Record /\ Settled(r).owed = NoDebt
  BY SettledFields
<1>d. \A d \in {"none", "unsynced"} : [Settled(r) EXCEPT !.diverged = d].owed = NoDebt
  BY <1>s DEF Record
<1>1. CASE p.rec = Settled(r) \/ \E d \in {"none", "unsynced"} :
                                  p.rec = [Settled(r) EXCEPT !.diverged = d]
  BY <1>1, <1>s, <1>d DEF HeldPair, HeldBy
<1>2. CASE ~Here(l)
  BY <1>2 DEF HeldPair, HeldBy
<1>3. CASE r.wanted \in Command /\ p = Start(Lifted(r, reason), Fresh(n, reason))
  <2> DEFINE q == Lifted(r, reason)
             m == Fresh(n, reason)
  <2>1. m \in Render
    BY DEF Fresh, Render
  <2>2. q \in Record /\ q.wanted \in Command
    BY <1>3, LiftedFields
  <2>3. p = Start(q, m)
    BY <1>3
  <2>. HIDE DEF p, q, m
  <2>4. CASE m.job.call = q.wanted
    <3>1. p.ren = m /\ Alive(m)
      BY <2>1, <2>2, <2>3, <2>4, NoJobIsIdle DEF Start, Both
    <3>. QED BY <3>1 DEF HeldPair, HeldBy, p
  <2>5. CASE m.job.call # q.wanted
    <3> DEFINE job == [call |-> q.wanted, attempts |-> 0, phase |-> "waiting"]
               k == [Cancel(m) EXCEPT !.job = job]
    <3>1. p.ren = k
      BY <2>3, <2>5 DEF Start, Both
    <3>2. Cancel(m) \in Render
      BY <2>1, NoJobIsIdle DEF Cancel, Render
    <3>3. job \in Job
      BY <2>2, RendererAssumption DEF Job
    <3>4. k \in Render /\ k.job = job
      BY <3>2, <3>3 DEF Render
    <3>5. k.job.call \in Command
      BY <2>2, <3>4
    <3>. HIDE DEF k
    <3>6. Alive(k)
      BY <3>4, <3>5, NoJobIsIdle
    <3>. QED BY <3>1, <3>6 DEF HeldPair, HeldBy, p
  <2>. QED BY <2>4, <2>5
<1>4. r.wanted \in Command \cup {NoCommand}
  BY DEF Record
<1>5. \/ p = Both(Settled(r), Cancel(n)) \/ p = Both(Settled(r), n)
      \/ p = Both([Settled(r) EXCEPT !.diverged = "none"], Cancel(n))
      \/ p = Both([Settled(r) EXCEPT !.diverged = "unsynced"], Cancel(n))
      \/ ~Here(l)
      \/ r.wanted \in Command /\ p = Start(Lifted(r, reason), Fresh(n, reason))
  BY <1>4 DEF Send
<1>6. ASSUME NEW q, NEW m, p = Both(q, m) PROVE p.rec = q
  BY <1>6 DEF Both
<1>. HIDE DEF p
<1>. QED BY <1>1, <1>2, <1>3, <1>5, <1>6 DEF p

\* _drop_stale_render drops the debt with the render it was for.
LEMMA DropStaleHeld ==
  ASSUME NEW r, NEW n, NEW l, NEW t, Sound(apply, r, n), HeldBy(r, n, l, t)
  PROVE  HeldPair(DropStale(r, n), l, t)
<1>1. CASE ~Alive(n) \/ RenderWanted(r, n)
  BY <1>1 DEF DropStale, HeldPair, Both
<1>2. CASE ~(~Alive(n) \/ RenderWanted(r, n))
  <2>1. r \in Record /\ (r.owed = NoDebt \/ r.owed = Owed(n.job.call, FALSE))
    BY <1>2 DEF Sound, WellTyped, OwnDebt
  <2>2. ~r.owed.missed
    BY <2>1 DEF NoDebt, Owed
  <2>3. DropStale(r, n).rec = Settled(r)
    BY <1>2, <2>2 DEF DropStale, Both
  <2>. QED BY <2>1, <2>3, SettledFields DEF HeldPair, HeldBy
<1>. QED BY <1>1, <1>2

LEMMA FollowRenderHeld ==
  ASSUME NEW r \in Record, NEW n \in Render, NEW l, NEW t, NEW running, HeldBy(r, n, l, t)
  PROVE  HeldPair(FollowRender(r, n, l, running), l, t)
  BY SendHeld DEF FollowRender, HeldPair, Both

LEMMA BecomesHeld ==
  ASSUME NEW p, Becomes(p), HeldPair(p, lamp', timers')
  PROVE  Held'
  BY DEF Becomes, HeldPair, HeldBy, Held, Alive, Here

\* What someone did settles the debt first; what is sent then has a holder.
LEMMA ExternallyHeld ==
  ASSUME IInv, NEW c \in Command, NEW running, Externally(lamp', c, running)
  PROVE  Held'
<1> DEFINE taken == Settled([rec EXCEPT !.wanted = c])
<1>1. rec \in Record /\ ren \in Render
  BY DEF IInv, Sound, WellTyped
<1>2. taken \in Record /\ taken.owed = NoDebt
  BY <1>1, TakenFields
<1>3. Cancel(ren) \in Render
  BY CancelSound DEF IInv
<1>. HIDE DEF taken
<1>4. ASSUME NEW d \in Divergence
      PROVE  [taken EXCEPT !.diverged = d] \in Record
             /\ HeldBy([taken EXCEPT !.diverged = d], Cancel(ren), lamp', timers')
  BY <1>2, DivergedFields DEF HeldBy
<1>5. ASSUME NEW d \in Explained(taken, lamp'),
             \/ Becomes(Both([taken EXCEPT !.diverged = d], Cancel(ren)))
             \/ Becomes(FollowRender([taken EXCEPT !.diverged = d], Cancel(ren), lamp', running))
      PROVE  Held'
  <2> DEFINE q == [taken EXCEPT !.diverged = d]
  <2>1. d \in Divergence
    BY <1>2, <1>5 DEF Explained, Divergence, Record
  <2>2. q \in Record /\ HeldBy(q, Cancel(ren), lamp', timers')
    BY <1>4, <2>1
  <2>3. Becomes(Both(q, Cancel(ren))) \/ Becomes(FollowRender(q, Cancel(ren), lamp', running))
    BY <1>5
  <2>. HIDE DEF q
  <2>4. HeldPair(Both(q, Cancel(ren)), lamp', timers')
    BY <2>2 DEF HeldPair, Both
  <2>. QED BY <1>3, <2>2, <2>3, <2>4, FollowRenderHeld, BecomesHeld
<1>6. ASSUME Becomes(Send([taken EXCEPT !.diverged = "delivery"], Cancel(ren), lamp', "deferred"))
      PROVE  Held'
  <2>1. [taken EXCEPT !.diverged = "delivery"] \in Record
    BY <1>4 DEF Divergence
  <2>. QED BY <1>3, <1>6, <2>1, SendHeld, BecomesHeld
<1>. QED BY <1>5, <1>6 DEF Externally, taken

LEMMA ReturnDecisionHeld ==
  ASSUME IInv, lamp' = lamp, NEW running, ReturnDecision(lamp, running)
  PROVE  Held'
<1>1. Sound(apply, rec, ren) /\ rec \in Record /\ ren \in Render
  BY DEF IInv, Sound, WellTyped
<1>2. ASSUME NEW q \in Record, q.owed = NoDebt, q.diverged = rec.diverged,
             Becomes(DropStale(q, ren))
      PROVE  Held'
  <2>1. Sound(apply, q, ren)
    BY <1>1, <1>2, RecordSound
  <2>. QED BY <1>2, <2>1, DropStaleHeld, BecomesHeld DEF HeldBy
<1>3. ASSUME NEW c \in Command,
             Becomes(DropStale(Settled([rec EXCEPT !.wanted = c]), ren))
      PROVE  Held'
  BY <1>1, <1>2, <1>3, TakenFields
<1>4. ASSUME Becomes(DropStale(Settled(rec), ren)) PROVE Held'
  BY <1>1, <1>2, <1>4, SettledFields
<1>5. ASSUME Becomes(Send(rec, ren, lamp, "deferred")) PROVE Held'
  BY <1>1, <1>5, SendHeld, BecomesHeld
<1>6. ASSUME NEW c \in Command, Externally(lamp, c, running) PROVE Held'
  BY <1>6, ExternallyHeld
<1>. QED BY <1>3, <1>4, <1>5, <1>6 DEF ReturnDecision

\* A new command on the record leaves what is owed as it was.
LEMMA WantedHeld ==
  ASSUME IInv, Held, NEW c \in Command \cup {NoCommand}
  PROVE  LET q == [rec EXCEPT !.wanted = c]
         IN /\ q \in Record /\ Sound(apply, q, ren)
            /\ HeldBy(q, ren, lamp, timers)
<1> DEFINE q == [rec EXCEPT !.wanted = c]
<1>1. q \in Record /\ q.owed = rec.owed /\ q.diverged = rec.diverged
  BY WantedFields DEF IInv, Sound, WellTyped
<1>. HIDE DEF q
<1>2. Sound(apply, q, ren)
  BY <1>1, RecordSound DEF IInv
<1>3. HeldBy(q, ren, lamp, timers)
  BY <1>1 DEF Held, HeldBy
<1>. QED BY <1>1, <1>2, <1>3 DEF q

\* A record that owes nothing, or as much as before under the same surroundings,
\* has its debt held.
LEMMA SameHeld ==
  ASSUME \/ rec'.owed = NoDebt
         \/ rec'.owed = rec.owed /\ Held /\ ren'.job = ren.job /\ lamp' = lamp
            /\ timers \cap {"return", "replay", "grace"} \subseteq timers'
  PROVE  Held'
  BY DEF Held, Alive, Here

LEMMA OwnerHeld == ASSUME IInv, Held, Owner PROVE Held'
<1>1. rec \in Record /\ ren \in Render
  BY DEF IInv, Sound, WellTyped
<1>2. ASSUME NEW c \in Command \cup {NoCommand}, OwnerCalls(c) PROVE Held'
  <2> DEFINE q == [rec EXCEPT !.wanted = c]
  <2>1. q \in Record
    BY <1>1, WantedFields
  <2>2. UNCHANGED <<lamp, timers>>
        /\ (Becomes(Send(q, ren, lamp, "owner")) \/ Becomes(Both(rec, ren)))
    BY <1>2 DEF OwnerCalls
  <2>. HIDE DEF q
  <2>3. CASE Becomes(Send(q, ren, lamp, "owner"))
    BY <1>1, <2>1, <2>2, <2>3, SendHeld, BecomesHeld
  <2>4. CASE Becomes(Both(rec, ren))
    BY <2>2, <2>4, SameHeld DEF Becomes, Both
  <2>. QED BY <2>2, <2>3, <2>4
<1>3. ASSUME Sync PROVE Held'
  <2> DEFINE trusted == [rec EXCEPT !.untrusted = FALSE]
             q == Lifted(trusted, "owner")
  <2>1. UNCHANGED <<lamp, timers>> /\ Becomes(Send(q, ren, lamp, "owner"))
    BY <1>3 DEF Sync
  <2>2. trusted \in Record
    BY <1>1 DEF Record
  <2>. HIDE DEF trusted
  <2>3. q \in Record
    BY <2>2, LiftedFields
  <2>. HIDE DEF q
  <2>. QED BY <1>1, <2>1, <2>3, SendHeld, BecomesHeld
<1>4. ASSUME NEW on \in BOOLEAN, SetApply(on) PROVE Held'
  <2>1. CASE on
    BY <1>4, <2>1, SameHeld DEF SetApply, Becomes, Both
  <2>2. CASE ~on
    <3> DEFINE settled == [Settled(rec) EXCEPT !.diverged = "unsynced"]
    <3>1. rec' = IF Alive(ren) \/ rec.owed # NoDebt THEN settled ELSE rec
      BY <1>4, <2>2 DEF SetApply, Off, Becomes, Both
    <3>2. Settled(rec) \in Record /\ Settled(rec).owed = NoDebt /\ "unsynced" \in Divergence
      BY <1>1, SettledFields DEF Divergence
    <3>3. settled.owed = NoDebt
      BY <3>2, DivergedFields
    <3>. HIDE DEF settled
    <3>4. rec'.owed = NoDebt
      BY <3>1, <3>3
    <3>. QED BY <3>4, SameHeld
  <2>. QED BY <2>1, <2>2
<1>. QED BY <1>2, <1>3, <1>4 DEF Owner

LEMMA SomeoneHeld == ASSUME IInv, Held, Someone PROVE Held'
<1>1. Sound(apply, rec, ren) /\ rec \in Record /\ ren \in Render
  BY DEF IInv, Sound, WellTyped
<1>2. ASSUME NEW l \in Shown, NEW c \in Command, External(l, c) PROVE Held'
  BY <1>2, ExternallyHeld DEF External
<1>3. ASSUME NEW c \in Command, CallMissed(c) PROVE Held'
  BY <1>3 DEF CallMissed, Held, Here
<1>4. ASSUME NEW l \in Shown, NEW c \in Command, NEW report \in BOOLEAN, Replayed(l, c, report)
      PROVE  Held'
  BY <1>4 DEF Replayed, Held
<1>5. ASSUME NEW c \in Command, SourceChanges(c) PROVE Held'
  <2> DEFINE q == [rec EXCEPT !.wanted = c]
  <2>1. UNCHANGED <<lamp, timers>> /\ Becomes(FollowRender(q, ren, lamp, timers))
    BY <1>5 DEF SourceChanges
  <2>2. q \in Record /\ HeldBy(q, ren, lamp, timers)
    BY WantedHeld
  <2>. HIDE DEF q
  <2>. QED BY <1>1, <2>1, <2>2, FollowRenderHeld, BecomesHeld
<1>. QED BY <1>2, <1>3, <1>4, <1>5 DEF Someone

LEMMA SurroundingsHeld ==
  ASSUME IInv, Held, Surroundings
  PROVE  Held' \/ MarkUntrusted
<1>1. ASSUME NEW away \in Away, Drop(away) PROVE Held'
  BY <1>1 DEF Drop, Held, Here, Away
<1>2. ASSUME NEW l \in Shown, ComeBack(l) PROVE Held'
  BY <1>2 DEF ComeBack, Held
<1>3. ASSUME NEW l \in Shown \cup Away, Restart(l) PROVE Held'
  BY <1>3 DEF Restart, Held
<1>4. ASSUME NEW c \in Command \cup {NoCommand}, RunOut(c) PROVE Held'
  <2>1. rec'.owed = rec.owed /\ UNCHANGED <<lamp, ren>> /\ timers \subseteq timers'
    BY <1>4 DEF RunOut, IInv, Sound, WellTyped, Record
  <2>. QED BY <2>1, SameHeld
<1>. QED BY <1>1, <1>2, <1>3, <1>4 DEF Surroundings

LEMMA BridgeHeld == ASSUME IInv, Held, Bridge PROVE Held'
<1>1. rec \in Record /\ ren \in Render
  BY DEF IInv, Sound, WellTyped
<1>2. ASSUME NEW l \in Shown, Reported(l) PROVE Held'
  BY <1>2 DEF Reported, Held
<1>3. ASSUME NEW l \in Shown, NEW ours \in BOOLEAN, FailedDelivery(l, ours) PROVE Held'
  <2>1. Here(lamp) /\ lamp' = l /\ UNCHANGED timers
    BY <1>3 DEF FailedDelivery
  <2>2. CASE ~ours
    <3>1. rec'.owed = rec.owed /\ ren' = ren
      BY <1>1, <1>3, <2>2 DEF FailedDelivery, Becomes, Both, Record
    <3>. QED BY <2>1, <3>1 DEF Held, Alive
  <2>3. CASE ours /\ ren.retried
    <3>1. rec' = rec /\ ren' = ren
      BY <1>3, <2>3 DEF FailedDelivery, Becomes, Both
    <3>. QED BY <2>1, <3>1 DEF Held, Alive
  <2>4. CASE ours /\ ~ren.retried
    <3> DEFINE m == [ren EXCEPT !.retried = TRUE]
    <3>1. Becomes(Send(rec, m, l, "again"))
      BY <1>3, <2>4 DEF FailedDelivery
    <3>2. m \in Render
      BY <1>1 DEF Render
    <3>. HIDE DEF m
    <3>. QED BY <1>1, <2>1, <3>1, <3>2, SendHeld, BecomesHeld
  <2>. QED BY <2>2, <2>3, <2>4
<1>. QED BY <1>2, <1>3 DEF Bridge

LEMMA TimersHeld ==
  ASSUME IInv, Held, Timers
  PROVE  Held' \/ ("ttl" \in timers /\ EndGrace)
<1>1. Sound(apply, rec, ren) /\ rec \in Record /\ ren \in Render
  BY DEF IInv, Sound, WellTyped
<1>2. ASSUME NEW c \in Command \cup {NoCommand}, ExpireLamp(c) PROVE Held'
  <2> DEFINE q == [rec EXCEPT !.wanted = c]
  <2>1. /\ lamp' = lamp /\ timers' = timers \ {"ttl"}
        /\ \/ Becomes(Send(q, ren, lamp, "deferred"))
           \/ Becomes(DropStale(q, ren))
           \/ Becomes(FollowRender(q, ren, lamp, timers))
    BY <1>2 DEF ExpireLamp, Expired
  <2>2. q \in Record /\ Sound(apply, q, ren) /\ HeldBy(q, ren, lamp, timers)
    BY WantedHeld
  <2>. HIDE DEF q
  <2>3. HeldBy(q, ren, lamp', timers')
    BY <2>1, <2>2 DEF HeldBy
  <2>4. CASE Becomes(Send(q, ren, lamp, "deferred"))
    BY <1>1, <2>1, <2>2, <2>4, SendHeld, BecomesHeld
  <2>5. CASE Becomes(DropStale(q, ren))
    BY <2>2, <2>3, <2>5, DropStaleHeld, BecomesHeld
  <2>6. CASE Becomes(FollowRender(q, ren, lamp, timers))
    BY <1>1, <2>1, <2>2, <2>3, <2>6, FollowRenderHeld, BecomesHeld
  <2>. QED BY <2>1, <2>4, <2>5, <2>6
<1>3. ASSUME JudgeReturn PROVE Held'
  BY <1>3, ReturnDecisionHeld DEF JudgeReturn
<1>4. ASSUME AfterReplay PROVE Held'
  BY <1>1, <1>4, SendHeld, BecomesHeld DEF AfterReplay
<1>5. ASSUME LateCheck PROVE Held'
  <2> DEFINE spent == [ren EXCEPT !.late = NoCommand]
             again == [spent EXCEPT !.retried = TRUE]
  <2>1. /\ Becomes(Send(rec, again, lamp, "again")) \/ Becomes(Both(rec, spent))
        /\ UNCHANGED <<lamp, timers>>
    BY <1>5 DEF LateCheck
  <2>2. again \in Render /\ spent.job = ren.job
    BY <1>1 DEF Render
  <2>. HIDE DEF spent, again
  <2>3. CASE Becomes(Send(rec, again, lamp, "again"))
    BY <1>1, <2>1, <2>2, <2>3, SendHeld, BecomesHeld
  <2>4. CASE Becomes(Both(rec, spent))
    BY <2>1, <2>2, <2>4, SameHeld DEF Becomes, Both
  <2>. QED BY <2>1, <2>3, <2>4
<1>6. ASSUME EndGrace, "ttl" \notin timers PROVE Held'
  <2> DEFINE running == timers \ {"grace", "ttl"}
  <2>1. lamp' = lamp
    BY <1>6 DEF EndGrace
  <2>2. CASE (~Here(lamp) \/ Alive(ren)) /\ Becomes(Both(rec, ren))
    BY <2>1, <2>2 DEF Becomes, Both, Held, Alive, Here
  <2>3. CASE ReturnDecision(lamp, running)
    BY <2>1, <2>3, ReturnDecisionHeld
  <2>4. CASE rec.owed = NoDebt
             /\ rec' = [rec EXCEPT !.wanted = lamp.shows, !.diverged = "none"]
    <3>1. rec'.owed = NoDebt
      BY <1>1, <2>4 DEF Record
    <3>. QED BY <3>1, SameHeld
  <2>5. CASE rec.owed = NoDebt /\ StartupMismatch(running)
    <3>1. CASE Becomes(Both(rec, ren))
      BY <2>5, <3>1, SameHeld DEF Becomes, Both
    <3>2. ASSUME NEW c \in Command, Externally(lamp, c, running) PROVE Held'
      BY <2>1, <3>2, ExternallyHeld
    <3>3. CASE Becomes(FollowRender(rec, ren, lamp, running))
      <4>1. HeldBy(rec, ren, lamp', timers')
        BY <2>5 DEF HeldBy
      <4>. QED BY <1>1, <2>1, <3>3, <4>1, FollowRenderHeld, BecomesHeld
    <3>4. CASE Becomes(Both([rec EXCEPT !.diverged = "unsynced"], ren))
      <4>1. rec'.owed = NoDebt
        BY <1>1, <2>5, <3>4 DEF Becomes, Both, Record
      <4>. QED BY <4>1, SameHeld
    <3>. QED BY <2>5, <3>1, <3>2, <3>3, <3>4 DEF StartupMismatch
  <2>. QED BY <1>6, <2>2, <2>3, <2>4, <2>5 DEF EndGrace
<1>. QED BY <1>2, <1>3, <1>4, <1>5, <1>6 DEF Timers

LEMMA TaskHeld == ASSUME IInv, Held, Task PROVE Held'
<1>1. Sound(apply, rec, ren) /\ rec \in Record /\ ren \in Render /\ Alive(ren)
      /\ UNCHANGED <<lamp, timers>>
  BY DEF IInv, Sound, WellTyped, Task, Attempt, ReadBack, RenderRaises
<1>2. rec.owed = NoDebt \/ rec.owed.target = ren.job.call
  BY <1>1 DEF Sound, OwnDebt, Owed
<1>3. Settled(rec) \in Record /\ Settled(rec).owed = NoDebt
  BY <1>1, SettledFields
<1>4. \A d \in Divergence : [Settled(rec) EXCEPT !.diverged = d].owed = NoDebt
  BY <1>3 DEF Record
<1>5. CASE Becomes(Abandoned)
  <2>1. rec'.owed = NoDebt
    BY <1>2, <1>3, <1>5 DEF Abandoned, Becomes, Both
  <2>. QED BY <2>1, SameHeld
<1>6. CASE Becomes(Failed)
  <2>1. rec'.owed = NoDebt
    BY <1>4, <1>6 DEF Failed, Becomes, Both, Divergence
  <2>. QED BY <2>1, SameHeld
<1>7. ASSUME NEW colourOff, Becomes(Verified(colourOff)) PROVE Held'
  <2> DEFINE d == IF colourOff THEN "colour" ELSE "none"
  <2>1. d \in Divergence
    BY DEF Divergence
  <2>2. rec' = [Settled(rec) EXCEPT !.diverged = d]
    BY <1>7 DEF Verified, Becomes, Both
  <2>. HIDE DEF d
  <2>3. rec'.owed = NoDebt
    BY <1>4, <2>1, <2>2
  <2>. QED BY <2>3, SameHeld
<1>8. CASE ~Here(lamp)
  BY <1>1, <1>8 DEF Held, Here
<1>9. CASE Alive(ren')
  BY <1>9 DEF Held, Alive
<1>10. ASSUME Attempt PROVE Held'
  <2> DEFINE m == [ren EXCEPT !.job.attempts = @ + 1, !.job.phase = "sent"]
  <2>1. \/ lamp.state = "gone"
        \/ Becomes(Abandoned)
        \/ ren' = m
    BY <1>10 DEF Attempt, Becomes, Both
  <2>2. CASE ren' = m
    <3>1. m.job.phase = "sent"
      BY <1>1 DEF Render, Job
    <3>. HIDE DEF m
    <3>2. Alive(m)
      BY <3>1 DEF Alive, NoJob
    <3>. QED BY <1>9, <2>2, <3>2
  <2>. QED BY <1>5, <1>8, <2>1, <2>2 DEF Here
<1>11. ASSUME ReadBack PROVE Held'
  <2> DEFINE match == Matches(lamp, ren.job.call)
             m == [ren EXCEPT !.job.phase = "waiting"]
  <2>1. \/ ~Here(lamp)
        \/ ren' = m
        \/ Becomes(Abandoned)
        \/ Becomes(Verified(match = "colour_off"))
        \/ Becomes(Failed)
    BY <1>11 DEF ReadBack, Becomes, Both
  <2>2. CASE ren' = m
    <3>1. m.job.call = ren.job.call /\ ren.job.call \in Command
      BY <1>1 DEF Render, Job, Sound, JobIsReal
    <3>2. Alive(m)
      BY <3>1, RendererAssumption DEF Alive, NoJob
    <3>. QED BY <1>9, <2>2, <3>2
  <2>. QED BY <1>5, <1>6, <1>7, <1>8, <2>1, <2>2
<1>. QED BY <1>6, <1>10, <1>11 DEF Task, RenderRaises

\* What a lamp is owed is always delivered, judged or dropped by something that
\* is running, until a handler fails or the startup ends over an expired layer.
THEOREM DebtsHaveHolders == Spec => DebtsAreHeld
<1>1. ASSUME IInv, Next PROVE StaysHeld
  BY <1>1, OwnerHeld, SomeoneHeld, SurroundingsHeld, BridgeHeld, TimersHeld, TaskHeld
  DEF Next, StaysHeld
<1>2. IInv /\ [Next]_vars => [StaysHeld]_vars
  BY <1>1
<1>. QED BY <1>2, Invariance, PTL DEF Spec, DebtsAreHeld

=============================================================================
