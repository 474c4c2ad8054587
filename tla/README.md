# Layers, in TLA+

Layers (`custom_components/layers`) is a Home Assistant integration that lets
several owners (automations, scripts, scenes, people) command the same lamp.
Each owner keeps a *layer* on it; the stack of layers resolves to one
*effective command*; a renderer sends that command and sees that it arrives.
When somebody else changes the lamp, a per-lamp *policy* says who gives way.

These modules model the decisions of `logic/` and the concurrent part of
`engine.py` and `render.py`, check them with TLC on small lamps, and prove the
core of them for every lamp with TLAPS.

## 1. Inventory

| Component | Code | State it keeps | Operations |
|---|---|---|---|
| Commands, reports, capabilities | `logic/model.py`, `logic/capability.py` | none (values) | merge, project, match, close, raises-output, read a state, (de)serialise |
| Resolver | `logic/resolve.py` | none | effective command; active, editable and state-holding layer |
| Policy | `logic/policy.py` | the lamp's record: base, layers, tombstones, observation, debt, divergence, last external change | set, clear, external change (four policies), replay, expire, lift tombstones, release take-overs |
| Classifier | `logic/classify.py` | none | verdict on a report, on a foreign call, on a lamp that came back; groups a change takes |
| Engine, record | `engine.py` | one record per lamp; calls heard; contexts of our own commands; debounced changes; sightings | one handler per service, state event, service-call event, timer, start and stop |
| Engine, rendering | `engine.py` (`_render`, `_drop_stale_render`, timers, apply switch) | running tasks, return, replay, TTL and debounce timers, startup grace, late re-checks | start, supersede, cancel, defer, settle |
| Renderer | `render.py` | one task per lamp | attempt, wait, read back, retry with backoff, give up, late re-check |
| Persistence | `Engine.save`, `store.py` | when a write is expected; Home Assistant's Store timer | save, write, write now |
| Services and targets | `services.py`, `targets.py` | none | decode and cross-check requests, expand areas and groups, read what a light call intends |
| Scenes | `scenes.py`, `Engine` scene handlers | scenes that are settling, the members they reached | read wanted states, judge the members a scene skipped |
| Entities, setup, diagnostics, log messages | `sensor.py`, `switch.py`, `config_flow.py`, `__init__.py`, `diagnostics.py`, `logbook.py` | views and forms | show status, turn apply on and off, reload |
| Blueprint, translations, service descriptions | `blueprints/`, `translations/`, `services.yaml` | none | front-end data |

**How they interact.** Every input (a service, a state event, a service-call
event, a timer) is a callback on one event loop. A handler changes the record
through the policy, asks the resolver for the new effective command, and then
renders it, drops a render that is out of date, or does neither. A render is a
task: it runs between handlers, each time its sleep is over, and reads the
record as it is by then. The record is written to the Store a little later.
After a restart only the record is left.

**What makes it hard.** A handler is atomic but a render is not: owners, people,
timers, the lamp's own comings and goings and the apply switch act between two
attempts. Reports are late, come in parts, repeat, or are undone by a bridge;
the code must guess whose they are. Leases run out while nobody looks. Four
policies, three layer modes, tombstones, take-overs and debts meet in orders no
test lists.

**What makes it correct**, per component:

- resolver: the state comes from the highest set layer that has one, an
  attribute from the highest layer that gives it over that state, and a follow
  layer never turns a lamp on or off;
- policy: one priority, one live layer; nobody gets past a tombstone; a
  keep-alive only refreshes; a person's decision holds; a lease that runs out
  lights no dark lamp;
- classifier: what a lamp does on our own command is never taken for a person's,
  and a lamp that comes back is not sent over what a person did;
- engine and renderer: nothing is sent while apply is off or to a lamp left to
  `layers.sync`; an old render never runs on beside, or strikes out, a newer
  one; what a lamp is owed is always on its way to be delivered or dropped; and
  in the end Layers comes to rest;
- persistence: no change waits longer than its kind allows;
- services, targets, scenes: a set goes through on all lamps or on none, a call
  reaches the lamps its rooms list, an old press takes back nothing set
  after it, nor a scene what was set after it ran, and a member a scene skipped stays as the scene left it.

## 2. Modules

| Module | Models | Notes |
|---|---|---|
| `Commands` | `Command`, `Observed` and the pure functions on them | brightness is a number with a tolerance, a colour an atomic value |
| `Resolve` | `resolve.py`, said declaratively | leases are `none`, `running`, `over` |
| `ResolveFold` | `resolve.py` as the loop it is | only to show that `Resolve` gives the same |
| `Policy` | `policy.py`; each function an operator from record to record | |
| `Classify` | `classify.py`: the pure judgements, and what the last command explains | |
| `Handlers` | the steps several handlers of `engine.py` share, on the record of a lamp | no state of its own |
| `LampRecord` | every handler of `engine.py`, as seen by one lamp's record | one action per handler, with the whole policy call |
| `LampDecision` | `LampRecord` with a memory of what a person chose | history variables only |
| `Ownership` | the promise about who holds a lamp | implemented by `LampRecord` |
| `Evidence` | one lamp with its reports, their contexts and windows, the debounce, the render task, reload and restart | who did it? |
| `SetCalls` | `services.py`: the sets it lets through, and what becomes of them | operators only |
| `Services` | `targets.py`, `services.py` and `scenes.py`: what a service call is to Layers | operators only |
| `Lamps` | several lamps: sets, a retry loop's calls, scenes, replays | composes `Services` with the handlers |
| `Renderer` | `render.py` and what `engine.py` does to a render | one lamp, its task and its timers |
| `Persistence` | `Engine.save` and `_save_now` over the Store | the Store is external |
| `PolicyProofs` | lemmas about the resolver and the policy functions | what the proofs about a record share |
| `ResolveFoldProofs`, `LampRecordProofs` (← `LampDecisionProofs`), `EvidenceProofs`, `LampsProofs`, `RendererProofs`, `PersistenceProofs` | theorems | |
| `MC*` | small instances for TLC | |

`Commands` ← `Resolve` ← `Policy` ← `Classify` ← `Handlers` is one chain of
`EXTENDS`, and the three modules with a record of the code's shape are built on
it: `Evidence`, and on top of `SetCalls` (a set as the service lets it through)
`LampRecord` (← `LampDecision`) and `Services` ← `Lamps`.
`Renderer` and `Persistence` stand alone. The modules cut the engine in four:

- `LampRecord` lets *any* verdict happen that a report can get with some
  history, and has all policies, modes and followed entities. It asks what the
  record may never come to, whatever the classifier makes of the reports.
- `Evidence` has the classifier itself: a verdict follows from the contexts, the
  calls, the last command and the windows. It has one policy and no follow
  layer, and asks whether the verdicts are right.
- `Renderer` has the render task with all its attempts and every handler's effect
  on it. `wanted` is the projection of the effective command, and a handler that
  changes the record may change it to anything.
- `Lamps` has what the engine keeps *between* lamps and between calls.

In `LampRecord` the renderer's writes to the record are the action
`RendererWrites`, which may come at any moment; in `Evidence` they are the task's
own steps. `Renderer` and `LampRecord` allow everything the other can do to
them, the restart excepted, which `Renderer` and `Evidence` have.

Definitions whose comment begins "A slip" are wrong on purpose: each is the
definition below it with a plausible bug, and is used nowhere. Put in its
place, each breaks a property of a run, which shows that the property depends on
that piece of code.

**State of `LampRecord`.**

| Variable | Code |
|---|---|
| `rec.base`, `rec.layers`, `rec.tombs` | `LampRecord.base`, `.layers`, `.tombstones` |
| `rec.observed`, `rec.atDrop` | `.observed` (state `away` for an unavailable lamp), `.p_at_drop` |
| `rec.last` | `.last_external`, while it is young enough for a follow-up |
| `rec.owed`, `rec.diverged` | `.owed` (its age only), `.diverged` |
| `rec.changed` | `last_layers_change` is later than the sighting of the call at hand |
| `feed` | what each followed entity gives now |
| `returning` | the lamp's return timer is running |
| `lampPolicy` | the lamp's policy option; a change of it reloads the entry, so it is fixed here |

**Actions of `LampRecord`.** `SetLayer`, `ClearLayer`, `Sync` are the services.
`ChangeReported`, `FollowUp`, `CallHeard`, `ReplayReported`, `ReplayHeard` and
`Reported` are the verdicts a report or a call can get. `Drop`, `ComeBack` and
`JudgeReturn` are the absence of the lamp. `SourceReports` is a followed entity.
`ExpireLamp` is the TTL timer, `RunOut` a lease that ends before that timer,
`Forget` a window that closes.

**State of `Evidence`.**

| Variable | Code |
|---|---|
| `eng.rec` | the record, as above |
| `eng.job`, `eng.late`, `eng.retried` | the render task and where it is, the late re-check that is due, `_late_retried` |
| `eng.last` | `rec.last_command`: whose, its target, the on/off it came from, whether its late window is open, `matched_at` |
| `eng.named` | `_ours` and `_calls`: the command under the context Home Assistant is using, where Layers knows it |
| `eng.room` | `_room_calls`: the command of a room's call, while it may still move the lamp |
| `eng.prev` | `observed_prev` while the debounce runs, else `Away` |
| `eng.timers` | the return timer and the startup grace |
| `stamp`, `answering` | Home Assistant and the lamp: whose context is put on its reports, what it is carrying out |
| `acts` | how often somebody acted (the bound) |
| `touched`, `claimed`, `moved` | history, for the properties only: no guard reads them |

`Judge` is `classify_state`, clause by clause; `Handled` is `_handle_state`, and
`ActedOn` what it does with the verdict; `Settled` and `Flush` are the debounce;
`FailedDelivery` is `_failed_delivery`, `Returned` `_judge_return`, `RanOut` the
expiry of one lamp, `StartedUp`, `LeftAlone` and `Mismatched` the branches of
`_end_grace_lamp`. The world's side is
`Answer` (the lamp carries out a command, in steps or at once), `Silent`,
`Person`, `BridgeReverts`, `Call`, `Drop` and `ComeBack`. `Reload` hands the live
contexts on (`_hand_over_ours`), `Restart` does not.

**State of `Lamps`.** `lamp[l]` is what the engine knows of lamp `l`: its record, its
debounce, its render, whether a room's call is remembered for it and whether a
replay waits to be put right. `press` is the call a retry loop makes again and
again, as `_calls`, `_call_seen` and `_room_calls` hold it: heard, only its first
sighting kept, or forgotten. `scene` is the `_SceneRun`. `older`, in both, are the lamps
whose layers changed after it (`first_seen`, `run.at` against
`last_layers_change`). `scene` also has the last of the calls the scene has made, the one
`_calls` keeps for its context: the lamps it names (`called`) and those whose layers
changed after it (`since`). `carries` and `stamp` are the lamps and Home Assistant;
`later` and `dark` are history: `dark` the lamps that were off when a scene wanted
them off, as long as nobody acts on them, an owner's clear under a scene that is
not done with the lamp (`Pending`) included. `SetLayer` is `validate_set` and then
`set_layer`, lamp by lamp in the order of the call (`Rank`): the lamps behind one
that refuses are not reached. `Heard` is `_handle_call`, `SceneSettles` is
`_settle_scene`, `Prune` is `_prune_calls`, `Reported` is `_handle_state`.

**State of `Renderer`.** `apply` is the apply switch. `rec` has what rendering
reads of the record: `wanted`, `owed` (with its `missed` mark), `diverged`,
`untrusted`. `lamp` is the lamp's state in Home Assistant: here, unavailable
or gone, what it shows, and whether its colour is right. `ren` is the task
(`job`: call, attempts, and whether it waits or has just sent), the command a
late re-check is due for, and whether the one late retry is spent. `timers`
are the engine's timers that are running. `Send` is `_render`, branch by
branch; `DropStale` is `_drop_stale_render`; `Externally` is `_external`;
`ReturnDecision` is `_return_decision`; `EndGrace` is `_end_grace_lamp`;
`Attempt` and `ReadBack` are the two halves of a round of `Renderer._run`
(between them the task sleeps). A debounced change has no timer of its own here:
every handler that flushes it first is `External` and then that handler
(`Evidence` has the debounce as a state, and checks that it comes first).

## 3. Runs

| Run | Question | Answer |
|---|---|---|
| `fold` | does `Resolve` give what the loop gives, on every stack of up to three layers? | yes, with and without the follow layers; a follow layer never decides on/off |
| `take_back` | a lamp under the default policy with all three modes, renewals, edits, tombstones, take-overs, changing sources, expiries | the stack stays ordered, keep-alives only refresh, an on/off and a brightness set by hand hold, `Ownership` is implemented |
| `surroundings` | every action of `LampRecord`: absence, returns, renders, replays, leases, windows | tombstones hold, a person's on/off holds, and a lamp that is dark stays dark when a lease runs out (the types are checked in `take_back` and proved) |
| `policies` | all four policies, colours, replays, devices, one layer | a decision holds, also when the edited layer is cleared; what a change left wrong is on the record |
| `render` | the render task and everything around it, with absence, replay, failures and restarts | eight properties, one of them liveness |
| `persistence` | which write takes which change | every change is written in time |
| `evidence` | can the engine tell its own doing from a person's, over renders, calls, rooms, reversals, absence, reloads and restarts, and does it leave alone what was done meanwhile? | yes, but for what section 6 says of a lamp that settles and of one away during the startup |
| `lamps` | two lamps, a room, a group, a retry loop, a scene, two owners | an old press or scene stays old, and so does an answer to the call it is put down to; a replay is put right, a call reaches its rooms, a set that names its priority and passes the validation goes through |
| `edit_two`, `timer`, `settle`, `set_refused` | what the documents say and the code does not do | violated, see section 6 |

### Properties worth reading

- `ImplementsOwnership` (`LampRecord`): a refinement of `Ownership`. One step
  takes the lamp from *all* owners or from none; a barred id has to be freed
  before it can hold the lamp again; a follow layer is never taken.
- `RepeatOnlyRefreshes`: in every reachable state, sending again what is already
  there, or renewing it, changes its lease and nothing else, whatever was
  edited since. (A bare `on` is excepted: a renewal carries no state, so
  nothing of it is left to repeat.)
- `HeldBackStaysDark`: when the safety rule of `expire` holds a render back, the
  record is changed so that no *later* render lights the lamp either.
- `DecisionHolds`, `ChoiceHolds`: need the history variables of `LampDecision`.
  `decided` is forgotten when an owner acts, when a return is judged anew and
  when a replay comes; `chose` also when the lamp is off or a take-over ends.
- `OwnNeverTaken` (`Evidence`): a live layer goes to someone else only if someone
  else acted since the lamp was last judged. `touched` is what really happened,
  kept beside the model of what the engine can see. Two ambiguities are
  resolved in it the way the code must: a report of a step or of a landed
  command counts as ours only while the render runs or our context is in use
  (`Answers`), and a second reversal, or one while something is still to be judged, counts as a
  person's (`BridgeReverts`). The exception is a lamp that one of our renders
  moved while it was away or settling: `OwnWhileSettling`, section 6.
- `AtRestItShows` (`Evidence`): the converse. Whatever was told from whatever, a
  lamp at rest shows its effective command or its record says that it does not.
  The exception (`claimed`) is a report that matched a called-off command of
  ours under its context: within those 5 s the code takes it for that command
  landing, and has no render left to verify it.
- `NotSentOver`: no render runs while a change waits for its debounce, which is
  what the many calls of `_flush_debounce` are for.
- `RetriedOnce`: once the flag that `_failed_delivery` and `late_recheck` share is
  set, only an owner's step or a timer of the record starts a render: a bridge and
  Layers do not undo each other for ever. (`ComesToRest` says the same of
  `Renderer` as liveness.)
- `ReturnNotSentOver` (`Evidence`): as long as a lamp that was away shows something
  else than when it dropped, and nobody has judged that, no command starts for
  it: not for an old debt, not to retry a reversal, not at the end of the startup.
  `decide_return` is one of several handlers that have to see to it. An owner may
  send, and something may run out; the late re-check of a lamp that was away during
  the startup is in section 6.
- `OldPressStaysOld` (`Lamps`): `later` holds the lamps on which an owner set a layer
  after the press was first made, after the scene ran, and after the last call that
  the scene made. A press made again takes back nothing set after the first; a scene
  that settles takes back nothing set after it ran; a lamp's answer takes back nothing
  set after the call it is put down to. For an answer to a scene that is the *last*
  call under the scene's context, whichever lamp it was made to (section 6).
- `SceneHolds` (`Lamps`): a lamp that was off when a scene wanted it off, and that the scene
  therefore sent nothing, is meant to be off when the scene has settled, and no
  clear of a layer under it lights it (the claim of `scenes.py`'s docstring). A clear
  that comes *before* the scene is done with the lamp is an act of its own: it makes
  the scene older than the layers of that lamp, and the scene then leaves the lamp
  to what the owner made of it.
- `SetGoesThrough` (`Lamps`): `validate_set` tries the set on copies, before the
  changes that wait are judged (`_flush_debounce`) and a base is learnt; for a set
  that names its priority neither of them may make a refusal of it. There is one
  way in which it does: the validation of a barred layer stops at the tombstone
  (`skipped_tombstoned`), a waiting change to off lifts the tombstone, and then a
  follow layer, which the change leaves in place, has the priority.
- `RoomsLead` (`Lamps`): `expand`'s stack, in every order of the entities, against
  reachability in the graph of rooms (`Ways`). A lamp that is reached through a
  vendor's room and beside it may be put down to either, as in the code, where
  that depends on the order of a Python set.
- `SyncOnlyIsQuiet`: `_render` returns early for a lamp left to `layers.sync`
  *without* cancelling. That is right because nobody ever marks a lamp so with
  a render running, which is what this says.
- `OffOwesOnlyMissed`: with Apply off a lamp owes nothing, but for a call it
  missed while away, which `_call_on_lamp` owes it whatever the switch.
- `StaleRendersStop`: a change of the effective command leaves no render of
  another one running. Two exceptions are in the code and so in the property: a
  lease that has run out but whose timer has not fired, and a followed entity
  that reports in the startup grace or while the lamp is away, where
  `_follow_render` returns without judging the running task. Such a task notices
  at its next attempt.
- `DebtsAreHeld`: a debt always has a holder: a task, a timer, or the lamp's
  absence. The exceptions are named in the formula: a handler that failed, and
  an expiry at the end of the startup (`_end_grace_lamp` then returns before the
  return decision; without a job to drop, an older debt stays on a lamp that is
  there).
- `ComesToRest`: if from some moment on nobody commands the lamp and it neither
  leaves nor is left, then in the end there is no task, no late re-check, and
  no held debt, although the bridge may go on changing what the lamp shows for
  ever.

### Bounds

- *Lamp.* Two layer ids and two priorities: the smallest stack in which owners
  can collide, one layer can hide another and a take-back can miss one. The
  properties relate at most two layers. `policies` and `edit_two` split the
  `edit_active` policy into one id and two, because the answer differs.
- *Values.* Two brightness levels, so that brighter and dimmer exist, with
  tolerance 0 so that they differ; two colours in `policies` only, where groups
  have to disagree. `surroundings` and `lamps` ask about on and off and have one
  level or none. Symmetry is not used: levels, priorities and the order of the
  lamps matter.
- *Inputs.* `Requests`, `Reports`, `Calls`, `Feeds`, `Sources` are small sets
  chosen per run to hold the mode, lease and renewal the question is about.
  `lamps` has two priorities as well: a layer can lie above or below the other
  owner's, and a priority that is named can be taken on one lamp and free on the other.
  `Happenings` switches absence, replays and the renderer's writes on where
  they matter. `Targets` are what owners clear.
- *Acts.* `MaxActs` is 3 in `evidence` and `lamps`: a set, somebody's change and one
  more (a second set, a reversal, an absence, a scene, a reload). What follows
  by itself (answers, windows, timers, attempts, a loop's further calls) is not
  counted. `set_refused` needs 2. `SetsExpired` is off: see section 5.
- *Several lamps.* Two, the least for one to be refused when another is done,
  or to be reached by a scene when another is skipped. The rooms are a vendor's
  room, with one lamp and a light group in it, and that group, with the other lamp
  and itself in it; a call aims at the lamp and at the vendor's room together.
- *Times.* A lease is without end, running, or over, and any running one may end at any
  moment; windows close the same way. No clock is needed, and no order of
  deadlines is assumed but where one is longer by construction (our context is
  known for 10 s after the render, Home Assistant uses it for 5). `Persistence`
  alone counts time, with delays 3 and 7 for the code's 2 s and 60 s: only their
  order matters.
- *Renders.* In `Renderer` three attempts for the code's seven
  (`1 + len(RETRY_BACKOFF_S)`): a first attempt, one that may accept the command
  without its colour, and one that gives up. In `Evidence` any attempt but the
  first may be the last.

`fold` stops when every lease has run out, and `evidence` and `lamps` when their acts
are spent and everything has settled: these three turn deadlock checking off.
Everywhere else deadlock is checked.

### Fairness

`FairSpec` of `Renderer` has weak fairness on `Attempt`, `ReadBack`, `LateCheck`,
`JudgeReturn`, `AfterReplay`, `EndGrace` and `ExpireLamp`. Each is the wake-up
of a sleep or timer that the event loop has scheduled, and asyncio runs a task
whose sleep is over and a timer that is due. Nothing is assumed of owners,
people, lamps or bridges. `ComesToRest` needs the retry to be spent once per
command (`Fresh`): without that, a bridge and Layers undo each other for ever.

## 4. Proofs

The theorems hold for every set of ids, priorities, levels and colours, every
number of lamps and acts, and every set of requests, reports, calls, scenes and
sources that meets the modules' assumptions. These are each as weak as the
code: for example that the policies are among the four, that a priority is in
1..99 (`PRIORITY_MIN` and `PRIORITY_MAX` of `const.py`, which the services' schemas
enforce), and that `base`, `active` and `all` are no layer ids.

### The resolver: `ResolveFoldProofs`

| Theorem | Says |
|---|---|
| `ResolveIsTheLoop` | `FoldAgrees`: `Effective` and `ActiveLayer` are the loop's |
| `ResolveWithoutFollowIsTheLoop` | `FoldWithoutFollowAgrees`: so are `WithoutFollow` and `EditableLayer` |
| `FollowNeverDecides` | `FollowNeverDecidesState`: follow layers take no part in on/off |

For every base and every stack of any number of layers in which no two layers in
force share a priority (`FoldAssumption`; `StackIsOrdered` proves it of every record).
All other modules build on `Resolve`; these theorems say that it is `_fold`.

`FoldLive` is the fold of the community modules over the ids in force, the topmost
taken last. It unfolds by one layer (`LoopUnfolds`), once a function that does so is
shown to exist (`LoopExists`). What the loop then carries over a part of the stack,
with all set layers below it, is what the topmost layers of that part say (`Told`): it
holds of no layers, and one round keeps it (`RoundTells`). The induction is by a
least counterexample (`StackInduction`): a priority is at most 99, and a stack without
its topmost layer is lower, so a set of stacks has a lowest one.

### The record: `PolicyProofs`, `LampRecordProofs`

| Theorem | Says |
|---|---|
| `Invariance` | `Spec => []IInv` |
| `TypeCorrect` | every handler leaves a well-formed record |
| `StackIsOrdered` | `PriorityUnique`: no two live layers share a priority |
| `TombstonesHold` | `BarredNotHeld`: no live layer under a live tombstone |
| `ExpiryKeepsDark` | `HeldBackStaysDark`, an action property |
| `ChangesShow` | `PersonShown`, an action property, for lamps that tell what they are sent (`TellsAll`) |

`IInv` is `TypeOK /\ PriorityUnique /\ BarredNotHeld`, and is inductive. The
three belong together: that a set refused by `_check_priority` is the only
way to a new priority needs the types, and that creating a layer keeps
`BarredNotHeld` needs the tombstone check and the ordering of the functions in
`apply_set`. The argument runs in three layers, the first two of them in
`PolicyProofs`. A policy function that creates and moves nothing is *quiet*: no layer becomes live, no live layer
changes its priority, no tombstone is put on a live layer; quiet functions
keep the invariant by one lemma (`GoodKept`), and compositions of quiet
functions are quiet. `apply_set` is the one that is not, and is proved branch by
branch. Last, there is one lemma per handler.

`ChangesShow` follows what a change does to the base and the stack: under
`take_back` the base alone is left, and it has what the lamp reports
(`TakeBackShown`); under `base_keep_layers` the base changes below the layers, and
either they hide nothing of it or `_partial` says so (`BaseKeepShown`). The proviso
`TellsAll` is what the code needs: a base keeps the colour that a report leaves
out, and if the lamp takes that colour as another, the record is at odds with
the lamp and nobody notices. That a brightness of 0 counts as 1, the
other half of `TellsAll`, holds with the code's tolerance of 5.

### Who holds the lamp: `LampRecordProofs`, second half

| Theorem | Says |
|---|---|
| `Remembrance` | `Spec => []HInv` |
| `RepeatsAreHarmless` | `RepeatOnlyRefreshes`, for every live layer in every reachable state |
| `OwnershipImplemented` | `ImplementsOwnership`: `LampRecord` implements `Ownership` |

Each handler is one of three moves, or a sequence that comes to one. It *frees*:
tombstones go, or single layers (by a clear, a lease, an owner); it *yields*: every
set and adjust layer goes at once and no follow layer does; or it *grants*:
one owner, not barred, gets or keeps the lamp. The lemmas say which function of the
policy does which, and that the moves map to the steps of `Ownership` (`Hands`).
`RepeatOnlyRefreshes` is about what a layer remembers of its owner's request when a
person has edited it since, so the invariant adds to `IInv` that every layer still
carries the mode, the request and the source that were asked for (`Remembers`).

### What a person decided: `LampDecisionProofs`

| Theorem | Says | Provided |
|---|---|---|
| `MemoryWatches` | `DSpec => Spec`: the memory of decisions only watches | |
| `DecisionInvariance` | `DSpec => []DInv` | no `edit_active` with two layers |
| `DecisionTypeCorrect` | `DTypeOK` | |
| `DecisionsStand` | `DecisionHolds` | no `edit_active` with two layers |
| `ClearingKeepsDecisions` | `ClearKeepsDecision`, an action property | no `edit_active` with two layers |
| `ChoicesStand` | `ChoiceHolds` | `take_back` only |

`DecisionHolds` says what the resolver gives, which is not inductive: an on that
comes from a layer above the base is lost with that layer. The invariant says why
the decision holds: the base has it, and no live set layer says otherwise
(`Upholds`). A change that decides makes it so; every other step that keeps the
decision leaves the base alone and brings no layer into force (`Leaves`). The
attribute tail of a change (`FollowUp`) may be late, so the invariant also says
what the record can remember of the last change (`LastFits`). `DInv` is `IInv`, the types of the memory and
these two. `ChoicesStand` adds that the chosen brightness is in the base and that only
follow layers it was taken from are in force (`Keeps`); no step gives it back to them
(`Grips`).

The provisos are what the code needs. With `edit_active` and two layers
`DecisionsStand` is false: an edit decides for one layer and the base, and the other
layer decides again when the edited one goes (run `edit_two`, section 6). One
layer is then the most that can be claimed. A brightness chosen by hand is the one that is wanted only where
a person's change takes the set and adjust layers away: the other policies keep
layers that give a brightness of their own.

### One lamp and its evidence: `EvidenceProofs`

For every set of requests, reports and calls, any number of
acts, and with expired layers set or not:

| Theorem | Says |
|---|---|
| `Invariance` | `Spec => []IInv` |
| `TypeCorrect` | `TypeOK` |
| `NothingIsSentOver` | `NotSentOver` |
| `OwnIsNeverTaken` | `OwnNeverTaken`, an action property, for every tolerance |
| `NoFight` | `RetriedOnce`, an action property |

`NotSentOver` is not inductive: a lamp that settles, or one that is away, could
be sent something at the end of that while a change waits. The invariant
therefore says that a change that waits does so *alone*: no task, no other timer, and
a lamp that is there (`WaitsAlone`). With it are the types and the two properties
of the record that `ApplySetIsGood` needs. Each part of a handler is shown to end
the wait or to leave what it depends on as it was (`Keeps`, `Spares`, `Leaves`),
and each action is a composition of parts. Of `Judge` the argument needs two
facts (`JudgeTypes`): a change is left to the debounce only where no task runs, and
a reversal of our own command is judged only where none does. `NoFight` comes out
of the same lemmas: behind a spent retry every other step starts no task.

`OwnIsNeverTaken` has an invariant of its own, `OInv`, because `touched` and `moved`
say what really happened and the engine has only its evidence. `Explained` goes
through everything a judgement could be made from: where a change waits in the debounce, or a room's
call may still move the lamp, somebody touched it; where the lamp shows something else
than when it dropped (`Otherwise`), somebody touched it or a render moved it; and a
lamp that is there, with no timer running, has no drop left to compare with.
`OwnAnswer` is about the lamp that carries out our command: its reports then bear
our context or none, the context is known for that command, and the last command is
ours and has not arrived. So its answers are judged ours. Most parts of a handler
learn nothing new (`LearnsNothing`) and take nothing from an owner (`TakesNone`);
each action has a lemma for what it adds (`AttemptAccounts` and so on). Closeness
is not transitive when the tolerance is not 0, so `Otherwise` compares what the
code compares and no chain of near values is ever built.

### Several lamps: `LampsProofs`

For any number of lamps, any rooms and groups, any requests, calls and scenes:

| Theorem | Says |
|---|---|
| `Invariance` | `Spec => []IInv` |
| `TypeCorrect` | `TypeOK` |
| `OldPressesStayOld` | `OldPressStaysOld`, an action property |
| `SetsGoThrough` | `SetGoesThrough` |
| `ScenesHold` | `SceneHolds` |
| `AllIsShown` | `AllShow`, for lamps that tell what they are sent (`TellsAll`) |

The invariant has four parts: the types; that every record is good in the sense of
`PolicyProofs` and every lamp there (`Sound`); that a call a lamp carries out, or
that is stamped on its reports, is still remembered (`Attributed`): without it a late
answer would be taken for somebody new; and that the lamps on which an owner set a layer after
a press, a scene or the scene's last call are known to the engine as such (`Dated`), which
ties the history `later` to the engine's `first_seen`, of a press and of the call
remembered for a scene's context, and to `run.at`. `OldPressStaysOld` then
follows: a live layer goes only by a judgement that the press, the scene or the call
remembered of it is not old.

`SetGoesThrough` needs the invariant only: judging a waiting change and learning
a base are quiet, so a priority that was free stays free; the one exception is in
the property. `SceneHolds` needs more. `SInv` says of a lamp in `dark` that nothing is
under way on it, and either it is meant to be off for good, by its
base and with no layers but follow layers (`Unlit`), or the scene is still to switch it off in one of three
ways (`Waits`): its visit is to come, its call is on the way, or the lamp was
skipped and will be judged as if it had been told.

`AllShow` speaks of a lamp at rest, and what makes it true is what holds on the way
there (`Right`): a render under way is of what is wanted *now*, and nothing waits beside it; a
change that waits remembers the last report that was right, so that one that
is undone needs no judgement; a replay that taught the base something is marked
until it is put right; in any other case the lamp shows what is wanted or its record says
that it does not (`Honest`). Only on and off are always wanted: the base is known from the
first report on, and nothing makes it unknown again (`Grounded`). The lemmas go through
the parts in turn: a render sends what is wanted or finds it shown
(`SendRight`), a change that is taken is shown or noted as partial (`JudgedHolds`),
a call that nobody reports is taken only where the lamp shows it already (`IntentShown`),
and a set or clear either changes what is wanted, and renders, or does not
(`CommandedRight`). The proviso is that of `ChangesShow`. A lamp of `Lamps` has one report for on
and one for off (`LampsAssumption`), so that a tolerance lets no lamp creep.

### The renderer and persistence

`RendererProofs` proves, for every set of commands and any number of attempts:

| Theorem | Says |
|---|---|
| `Invariance` | `Spec => []IInv` |
| `TypeCorrect` | `TypeOK` |
| `OffIsQuiet` | `QuietWhileOff`: with apply off no task runs and no re-check is due |
| `LeftAloneIsQuiet` | `SyncOnlyIsQuiet` |
| `DebtIsOwn` | `DebtIsTheJobs`: a debt beside a task is that task's |
| `OffOwesLittle` | `OffOwesOnlyMissed` |
| `NoStaleRender` | `StaleRendersStop`, an action property |
| `DebtsHaveHolders` | `DebtsAreHeld`, an action property |

The invariant adds to the four state properties that a task has a command and
attempts that fit its phase (`JobIsReal`): without it a task that waits could be
at its last attempt, and `Attempt` would leave the types. The lemmas are about
the parts of handlers (`Send`, `Start`, `DropStale`, `Externally`,
`ReturnDecision`): each leaves a sound state sound. For the two action
properties the same parts are shown to leave a render that is up to date, and a
debt with a holder; every action is then a composition of them.

`PersistenceProofs` proves `TypeOK` and `WrittenInTime` for all delays with
`0 < Soon < Lazy`. `WrittenInTime` alone is not inductive: a save that finds a
write expected does nothing, so the invariant adds that the engine's idea of
the next write, `due`, is what the Store's timer says.

### Only model-checked

- `ComesToRest` of `Renderer`: liveness.
- `RoomsLead` of `Lamps`: what a recursive function finds in a graph, for which
  the provers would need an induction over data.
- `ReturnNotSentOver` of `Evidence`: checked in the run `evidence`.
- `AtRestItShows` of `Evidence`: it holds of the run's requests and not of all. With an
  `adjust` layer among them there is a lamp at rest that does not show its command
  (section 6), and with a tolerance a lamp can creep away from it.

## 5. Not modelled

Components and parts that are left out:

- Renames and removal of entities, options and forms, permissions, areas, times
  of day, schemas, serialisation and migration, log messages, sensors,
  diagnostics, repairs, the websocket, `describe` and `status`: decoding and
  output, with no decision about a lamp in them.
- Conversions between colour spaces, transitions, effects: a colour is a value
  the lamp takes, takes as another, or drops (`Takes`, `Uncompared`). `_further`
  then compares brightness only.
- How a scene's wanted states are read from Home Assistant, and its effects, white and
  rgbw values, for which `reproduced_call` knows no intent (`ReproducedCall`).
- An entity without a state, which `expand` skips: in `Unfold` all there are have one.
- In `Evidence.Judge`, whether a call is a replay, and in `Evidence.Taken`, what a
  person chose: with no retry loop and no follow layer nothing asks for either. `LampRecord`
  and `Lamps` have the one, `LampRecord` and `LampDecision` the other.

What `Evidence` leaves to other modules or leaves open:

- other policies than `take_back`, follow layers, replays and the apply switch
  (`LampRecord`, `Renderer`, `Lamps`);
- a layer that has run out, whose timer has not fired, and that its owner sets
  again (`SetsExpired`). `LampRecord` has it;
- an answer of the lamp after the render has ended *and* Home Assistant has
  dropped our context (5 s): the code cannot tell it from a person, and says so;
- two integrations at once, or a lamp removed from Home Assistant: `Drop` is any
  report that the lamp is unavailable.

What `Lamps` assumes: the policy `take_back`; lamps that are there and answer; apply
on; no leases; no reload (the memory of calls is not persisted); a person acts
when the late window of the last command is over; a render that is started
lands unless something stops it; one retry loop at a time, whose calls reach
the same lamps each time (its key has the set of lamps in it, so that a retry
that reaches fewer is a new call to the code). When a set is refused midway the
code also skips `_schedule_ttl`, `save` and `notify` for the lamps that are done;
the model has no timers to miss them.

## 6. Where documents and code differ

| Run | Document | Code |
|---|---|---|
| `edit_two` | SPEC and `apply_external`'s docstring: an on/off decision reaches the base, so clearing the layer never undoes it | true with one set layer; with a second below, clearing the edited layer lets that one decide, and the lamp a person turned off is lit |
| `timer` | README: when a layer runs out it may only turn a light off or dim it | an `off` layer that runs out over another set layer lights the lamp |
| `settle` | SPEC 6.4: `EXTERNAL` needs evidence of a change | a lamp comes back, an owner's set renders it within the settling time, and the return decision reads what the render did as a change somebody made while the lamp was away: the layer is taken back |
| `set_refused` | docstring of `validate_set`: a `PolicyError` is raised before any lamp is touched | a change that waits on a later lamp is judged after the validation and drops the layer there; a set that left its priority out is then refused on that lamp, with the first one already set. A set that names its priority is refused that late in one case only: its layer was barred, so that the validation did not come to the priority; the change that waits turns the lamp off and lifts the tombstone; and a follow layer there holds the priority (`SetGoesThrough` says that there is no other) |

Two more were met while the invariants above were found, and are exceptions in
them instead of runs:

- `OffOwesOnlyMissed`: a comment in `_render` says that with Apply off a lamp
  owes nothing; `_call_on_lamp` owes a foreign call to a lamp that is away
  whatever the switch.
- `DebtsAreHeld`: SPEC 7.3 says that nothing is owed to a lamp only `layers.sync`
  pushes and that its status must not read `pending`; `_mark_untrusted` cancels
  the render and keeps its debt, which nothing then settles.

One was met with `ReturnNotSentOver`, and is its exception: `README.md:282` sends to a lamp
that comes back "provided nobody touched it while it was away", or as a "retry". A lamp drops
during the startup, within the 45 s of a late re-check, is used and comes back before the
startup is over. It then has no return timer, which is all that `late_recheck` asks
for, and the command it had verified is sent again over the change
(`engine.py:652`, `engine.py:1261`).

One is a coarse date that no document speaks of. A scene calls its members one by one
under one context, and `_calls` keeps the last call of a context (`engine.py:912`). A scene calls
one lamp, an owner sets a layer on two, the scene calls the second, and then the first
answers: it is judged by the second call, which is newer than the layer and does not
name the lamp, so the layer is taken back. `Lamps` does the same (`called`, `since`),
and `OldPressStaysOld` promises no more than that.

One was met while `AtRestItShows` was prepared for a proof, and keeps it from being
one: SPEC 2 has `diverged` say why a lamp does not show its command. A lamp is away with an
unknown base, its owner sets an `adjust` layer, which has nothing to adjust, and the lamp
comes back on: the return is recorded as the base (`_return_decision`, as SPEC 7.3
has it) and nothing is rendered. The layer is now in effect, the lamp shows the base without it,
and `diverged` is empty until something else renders.

## 7. Plan

Done, in this order: values and resolver; policy; the record and its handlers;
ownership; the renderer; persistence; proofs of the record and of persistence;
the evidence of one lamp; several lamps, services and scenes; proofs of the renderer
and of the evidence; proofs that the record implements `Ownership`, that what a
person decided stands, and of several lamps; proofs that our own doing is never
taken for a person's, of what a person's change and several lamps show, and of the
resolver's loop.

Left:

1. `SetsExpired` in `Evidence`, with a property that says what a lamp shows while
   an expired layer waits to be swept.
2. `adjust` layers in the `evidence` run, with `AtRestItShows` saying when a recorded
   return may leave one unrendered.
3. Renames (`_on_registry_update`) and the removal of a lamp from the options.
