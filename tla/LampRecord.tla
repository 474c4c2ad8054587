----------------------------- MODULE LampRecord -----------------------------
(***************************************************************************)
(* The life of one lamp's record: everything engine.py's handlers do to it *)
(* through the policy, in any order in which services, reports, foreign    *)
(* calls, returns and timers can come.  One action is one handler, with    *)
(* every policy function it calls.                                         *)
(*                                                                         *)
(* What a handler sends and when a timer is due is not modelled here: a    *)
(* timer may fire at any moment, and the renderer's own writes to the      *)
(* record are the action RendererWrites.  Time moves by RunOut and Forget. *)
(* The startup and a restart are in Renderer only.                         *)
(***************************************************************************)
EXTENDS SetCalls

CONSTANTS
  LampPolicies, \* the policies a lamp may have
  Requests,     \* the sets owners send
  Targets,      \* what owners clear
  Reports,      \* what the lamp can report
  Calls,        \* foreign calls with a known intent
  Sources,      \* who makes the changes Layers did not make
  Happenings,   \* what of the surroundings is in play (a bound)
  Feeds         \* what a followed entity can give; Away while it is unavailable

ASSUME LampAssumption ==
  /\ LampPolicies \subseteq Policies
  /\ Requests \subseteq SetRequest
  /\ \A req \in Requests : WellFormed(req) /\ Asked(req) = req
  /\ Targets \subseteq Id \cup {"active", "all"}
  /\ Reports \subseteq Report \ {Away}
  /\ Calls \subseteq {c \in Command : c.state # "none"}
  /\ Sources \subseteq ChangeSource
  /\ Happenings \subseteq {"absence", "replay", "render"}
  /\ Feeds \subseteq {c \in Command : c.state = "none"} \cup {Away}

VARIABLES
  rec,          \* the lamp's record
  feed,         \* what each followed entity gives now
  returning,    \* the lamp came back and its return is not judged yet
  lampPolicy    \* the lamp's option for changes Layers did not make

vars == <<rec, feed, returning, lampPolicy>>

TypeOK ==
  /\ rec \in Record
  /\ feed \in [Source -> {c \in Command : c.state = "none"} \cup {Away}]
  /\ returning \in BOOLEAN
  /\ lampPolicy \in LampPolicies

Init ==
  /\ rec \in {NewRecord(o) :
               o \in Reports \cup (IF "absence" \in Happenings THEN {Away} ELSE {})}
  /\ feed \in [Source -> Feeds]
  /\ returning = FALSE
  /\ lampPolicy \in LampPolicies

-----------------------------------------------------------------------------

\* A slip: a source that is away is read too.
ReadSourcesAlways(layers) ==
  [i \in Id |->
     IF Present(layers, i) /\ layers[i].mode = "follow"
     THEN [layers[i] EXCEPT !.command = feed[layers[i].source]]
     ELSE layers[i]]

\* Each follow layer takes what its source gives now, unless that is away.
ReadSources(layers) ==
  [i \in Id |->
     IF /\ Present(layers, i)
        /\ layers[i].mode = "follow"
        /\ layers[i].source # NoSource
        /\ feed[layers[i].source] # Away
     THEN [layers[i] EXCEPT !.command = feed[layers[i].source]]
     ELSE layers[i]]

-----------------------------------------------------------------------------
(* Owners *)

\* layers.set, as validate_set let it through.
SetLayer(req) ==
  LET out == ApplySet(LearnBase(rec), req)
  IN /\ out.result \notin Refusals
     /\ rec' = IF out.result \in Skips THEN out.rec
               ELSE [out.rec EXCEPT !.layers = ReadSources(@)]
     /\ UNCHANGED <<feed, returning, lampPolicy>>

ClearLayer(target) ==
  /\ rec' = ApplyClear(rec, target)
  /\ UNCHANGED <<feed, returning, lampPolicy>>

\* layers.sync lifts the divergences that only it repairs.
Sync ==
  /\ rec' = [rec EXCEPT !.diverged =
               IF @ \in {"manual_keep", "unsynced"} THEN "none" ELSE @]
  /\ UNCHANGED <<feed, returning, lampPolicy>>

-----------------------------------------------------------------------------
(* The lamp, and the people and automations acting on it *)

\* A change nobody else explains, or one under a known call that named
\* `named`: the policy takes it.  Only a change that has been waiting is held
\* against an older report.
ChangeReported(o, before, named, source) ==
  LET taken == IF named = Everything THEN {Everything, ChangedGroups(before, o)}
               ELSE {CallGroups(named, rec.observed, o)}
  IN /\ Available(rec)
     /\ returning => source # "device"
     /\ named # Everything => before = rec.observed
     /\ \E groups \in taken :
          rec' = Judged(Showing(rec, o), groups, source, lampPolicy,
                        Chosen(named, before, o))
     /\ returning' = FALSE
     /\ UNCHANGED <<feed, lampPolicy>>

\* The attribute tail of a change already judged, re-applied the same way.
FollowUp(o) ==
  /\ Available(rec)
  /\ o.state = rec.observed.state
  /\ rec.last.policy # "none" /\ rec.last.tail
  /\ ~returning
  /\ rec' =
       IF rec.last.policy = "replay"
       THEN ApplyReplay([Showing(rec, o) EXCEPT !.atDrop = Away],
                        ObservedToCommand(o), rec.last.groups, rec.last.source)
       ELSE Judged(Showing(rec, o), rec.last.groups, rec.last.source,
                   rec.last.policy, {})
  /\ returning' = FALSE
  /\ UNCHANGED <<feed, lampPolicy>>

\* A foreign call the lamp need not report: it is away, or shows it already.
CallHeard(cmd, source) ==
  LET named == IF cmd.state = "off" THEN {} ELSE Groups(cmd) \cap AttrGroup
      taken == ApplyExternal(Supersede(rec), cmd, named \cup {"state"}, source,
                             lampPolicy, named)
      effective == EffectiveNow(taken)
  IN /\ IntentHeard(rec, cmd)
     /\ rec' = IF Available(rec) THEN SeenOffIf(taken, rec.observed.state = "off")
               ELSE [taken EXCEPT !.owed =
                       IF effective = Nothing THEN "nothing" ELSE "owed"]
     /\ returning' = FALSE
     /\ UNCHANGED <<feed, lampPolicy>>

\* An old press of a retry loop, seen in a report or heard as a call.
ReplayReported(o, named, source) ==
  /\ Available(rec) /\ rec.changed
  /\ rec' = ApplyReplay([Showing(rec, o) EXCEPT !.atDrop = Away], ObservedToCommand(o),
                        CallGroups(named, rec.observed, o), source)
  /\ returning' = FALSE
  /\ UNCHANGED <<feed, lampPolicy>>

ReplayHeard(cmd, source) ==
  /\ IntentHeard(rec, cmd) /\ rec.changed
  /\ rec' = ApplyReplay(rec, cmd, (Groups(cmd) \cap AttrGroup) \cup {"state"}, source)
  /\ UNCHANGED <<feed, returning, lampPolicy>>

\* A report nobody acts on: noise, or (`ours`) our own command landing.
Reported(o, ours) ==
  /\ Available(rec)
  /\ rec' = SeenOffIf(Showing(rec, o), ours /\ o.state = "off")
  /\ UNCHANGED <<feed, returning, lampPolicy>>

Drop ==
  /\ "absence" \in Happenings
  /\ Available(rec)
  /\ rec' = [Showing(rec, Away) EXCEPT
               !.atDrop = IF @ = Away THEN rec.observed ELSE @]
  /\ returning' = FALSE
  /\ UNCHANGED <<feed, lampPolicy>>

ComeBack(o) ==
  /\ ~Available(rec)
  /\ rec' = Showing(rec, o)
  /\ returning' = TRUE
  /\ UNCHANGED <<feed, lampPolicy>>

\* The return decision, once the lamp has settled.  A send is the renderer's.
JudgeReturn ==
  LET o == rec.observed
      decision == DecideReturn(rec, o)
      settled == [rec EXCEPT !.owed = "nothing"]
      decided ==
        CASE decision = "record" -> RecordObservedAsBase(settled, o)
          [] decision = "nothing" -> settled
          [] decision = "send" -> rec
          [] decision = "external" ->
               Judged(settled, Everything, "device", lampPolicy,
                      Chosen(Everything, rec.atDrop, o))
  IN /\ returning /\ Available(rec)
     /\ rec' = [SeenOffIf(decided, o.state = "off") EXCEPT !.atDrop = Away]
     /\ returning' = FALSE
     /\ UNCHANGED <<feed, lampPolicy>>

\* A followed entity reports; one that goes away leaves what it gave.
SourceReports(s, values) ==
  /\ feed' = [feed EXCEPT ![s] = values]
  /\ UNCHANGED <<returning, lampPolicy>>
  /\ rec' = IF values = Away THEN rec
            ELSE [rec EXCEPT !.layers =
                    [i \in Id |->
                       IF /\ Present(@, i)
                          /\ @[i].mode = "follow"
                          /\ @[i].source = s
                       THEN [@[i] EXCEPT !.command = values]
                       ELSE @[i]]]

-----------------------------------------------------------------------------
(* Time, and the renderer *)

\* The TTL timer: what ran out goes.
ExpireLamp ==
  /\ HasExpired(rec)
  /\ rec' = ReleaseManual(Expire(rec, Shown(rec)), FALSE)
  /\ UNCHANGED <<feed, returning, lampPolicy>>

RunOut(i) ==
  /\ \/ /\ Present(rec.layers, i) /\ rec.layers[i].lease = "running"
        /\ rec' = [rec EXCEPT !.layers[i].lease = "over"]
     \/ /\ rec.tombs[i] # NoTomb /\ rec.tombs[i].lease = "running"
        /\ rec' = [rec EXCEPT !.tombs[i].lease = "over"]
     \/ /\ Present(rec.layers, i) /\ rec.layers[i].manualLease = "running"
        /\ rec' = [rec EXCEPT !.layers[i].manualLease = "over"]
  /\ UNCHANGED <<feed, returning, lampPolicy>>

\* Windows close: the last external change and an owed command grow old, and
\* the next foreign call is one first seen after the layers last changed.
Forget ==
  /\ \/ rec.last # Forgotten /\ rec' = [rec EXCEPT !.last = Forgotten]
     \/ rec.owed = "owed" /\ rec' = [rec EXCEPT !.owed = "old"]
     \/ rec.changed /\ rec' = [rec EXCEPT !.changed = FALSE]
  /\ UNCHANGED <<feed, returning, lampPolicy>>

\* A render starts, or ends verified, failed, or with nothing owed.
RendererWrites ==
  /\ "render" \in Happenings
  /\ \/ /\ EffectiveNow(rec) # Nothing
        /\ rec' = [rec EXCEPT !.owed = "owed", !.last = Past(@)]
     \/ \E d \in {"none", "colour", "delivery", "unsynced", rec.diverged} :
          rec' = [rec EXCEPT !.owed = "nothing", !.diverged = d]
  /\ UNCHANGED <<feed, returning, lampPolicy>>

-----------------------------------------------------------------------------

\* What a known call can have named of brightness and colour.
Named == SUBSET {g \in AttrGroup : g = "color" => Color # {}}

Owner ==
  \/ \E req \in Requests : SetLayer(req)
  \/ \E target \in Targets : ClearLayer(target)
  \/ Sync

PersonActs ==
  \/ \E o \in Reports, before \in Reports, named \in Named \cup {Everything},
        source \in Sources : ChangeReported(o, before, named, source)
  \/ \E o \in Reports : FollowUp(o)
  \/ \E cmd \in Calls, source \in Sources \ {"device"} : CallHeard(cmd, source)
  \/ JudgeReturn

Replay ==
  /\ "replay" \in Happenings
  /\ \/ \E o \in Reports, named \in Named, source \in Sources \ {"device"} :
          ReplayReported(o, named, source)
     \/ \E cmd \in Calls, source \in Sources \ {"device"} : ReplayHeard(cmd, source)

Surroundings ==
  \/ \E o \in Reports, ours \in BOOLEAN : Reported(o, ours)
  \/ Drop
  \/ \E o \in Reports : ComeBack(o)
  \/ \E s \in Source, values \in Feeds : SourceReports(s, values)

Clock ==
  \/ ExpireLamp
  \/ \E i \in Id : RunOut(i)
  \/ Forget
  \/ RendererWrites

Next == Owner \/ PersonActs \/ Replay \/ Surroundings \/ Clock

Spec == Init /\ [][Next]_vars

-----------------------------------------------------------------------------
(* Properties *)

\* No two live layers of a lamp share a priority (_check_priority), so the
\* stack always has one order, whatever was created, edited, expired, dropped
\* and set again before.
PriorityUnique ==
  \A i, j \in Live(rec.layers) :
    rec.layers[i].prio = rec.layers[j].prio => i = j

\* A layer id a person took the lamp back from is never in force while its
\* tombstone is (_set_named_layer, _drop_all).
BarredNotHeld == \A i \in Live(rec.layers) : ~LiveTomb(rec, i)

\* What the owner of layer i would send to keep it: the same request again,
\* or a renewal, whose state the service leaves out (SPEC 5.1).
Repeat(i, lease) ==
  LET lay == rec.layers[i]
  IN [layer |-> i, command |-> lay.requested, priority |-> NoPriority,
      mode |-> lay.asked, lease |-> lease, resume |-> FALSE, render |-> FALSE,
      onlyIfPresent |-> FALSE, source |-> lay.source, manualTimeout |-> FALSE]

\* The command without the on it says or implies.
Bare(cmd) == [cmd EXCEPT !.state = IF @ = "off" THEN @ ELSE "none"]

Renewal(i, lease) ==
  [Repeat(i, lease) EXCEPT
     !.onlyIfPresent = TRUE, !.mode = "set", !.source = NoSource,
     !.command = Bare(@)]

\* A repeated set and a renewal only extend the lease (_renew): whatever an
\* edit, an expiry or a person did to the layer since survives them, and a
\* running lease never becomes permanent.  (A bare on has nothing a renewal
\* without a state could repeat.)
RepeatOnlyRefreshes ==
  \A i \in Live(rec.layers), lease \in {"none", "running"} :
    \A req \in {Repeat(i, lease), Renewal(i, lease)} :
      Groups(req.command) # {} \/ rec.layers[i].asked = "follow" =>
        ApplySet(rec, req) =
          [result |-> "refreshed",
           rec |-> [rec EXCEPT !.layers[i].lease = IF lease = "none" THEN @ ELSE lease]]

\* A person changes the lamp so that it shows `o`.
PersonChanges(o) ==
  /\ o \in Reports
  /\ \E before \in Reports, named \in Named \cup {Everything}, source \in Sources :
       ChangeReported(o, before, named, source)

\* After a person's change the lamp shows what it is meant to show, or the
\* record says that it does not (_partial, base_keep_layers).  The exceptions are
\* the code's: a follow layer may still owe it a value, and edit_active and
\* reassert leave what the change did not take as it is.
PersonShown ==
  [][\/ Shows(rec', EffectiveNow(rec')) # "no"
     \/ rec'.diverged \in {"partial", "manual_keep", "delivery"}
     \/ \E i \in OfMode(rec.layers, "follow") :
          Groups(rec.layers[i].command) \cap AttrGroup # {}
     \/ lampPolicy \notin {"take_back", "base_keep_layers"}
     \/ ~PersonChanges(rec'.observed)]_vars

\* A dark lamp that an expiry was held back from lighting is not wanted on
\* afterwards either, so no later render makes up for it (expire).
HeldBackStaysDark ==
  [][/\ ExpireLamp
     /\ HeldBack(rec, Shown(rec))
     /\ Shown(rec).state # "on"
     => EffectiveNow(rec').state # "on"]_vars

\* "When a layer runs out, it may only turn a light off or dim it" (README).
TimerOnlyDims ==
  [][/\ ExpireLamp
     /\ ExpireRenders(rec, Shown(rec))
     => ~RaisesOutput(Shown(rec), EffectiveNow(rec'))]_vars

\* What each id is worth to the lamp's owners.
Own ==
  [i \in Id |->
     IF i \in Live(rec.layers)
     THEN IF rec.layers[i].mode = "follow" THEN "following" ELSE "held"
     ELSE IF LiveTomb(rec, i) THEN "barred" ELSE "free"]

O == INSTANCE Ownership WITH own <- Own

\* A person takes a lamp from all its owners at once and never from a follow
\* layer, and nobody gets past a tombstone.
ImplementsOwnership == O!Spec

=============================================================================
