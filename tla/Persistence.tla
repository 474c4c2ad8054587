---------------------------- MODULE Persistence ----------------------------
(***************************************************************************)
(* When the model reaches the disk: Engine.save and _save_now over Home    *)
(* Assistant's Store, which is external and modelled from what the code    *)
(* says of it: it keeps one timer, and a later call with a longer delay    *)
(* pushes an earlier write out to it.  A write always takes everything.    *)
(*                                                                         *)
(* Changes are told apart only by their urgency.  All times are times left *)
(* to go, and Tick is the passing of one unit; a write that is due comes   *)
(* before the next.                                                        *)
(***************************************************************************)
EXTENDS Integers

CONSTANTS
  Soon,         \* SAVE_DELAY_S, for model changes
  Lazy,         \* SAVE_LAZY_S, for observations
  NoTime        \* no write asked for

ASSUME PersistenceAssumption ==
  /\ Soon \in Nat \ {0}
  /\ Lazy \in Nat
  /\ Soon < Lazy
  /\ NoTime \notin Nat

VARIABLES
  left,         \* how long each kind of unwritten change may still wait
  due,          \* _save_due: when the engine expects a write
  timer,        \* the Store's timer
  writing       \* the kinds of change in a write begun by _save_now

vars == <<left, due, timer, writing>>

-----------------------------------------------------------------------------

Kind == {"immediate", "model", "lazy"}

\* A slip: an observation may wait for ever.
DelayLazily(kind) == IF kind = "immediate" THEN 0 ELSE Lazy + 1

Delay(kind) ==
  CASE kind = "immediate" -> 0
    [] kind = "model" -> Soon
    [] kind = "lazy" -> Lazy

Time == 0..Lazy

TypeOK ==
  /\ left \in [Kind -> Time \cup {NoTime}]
  /\ due \in Time \cup {NoTime}
  /\ timer \in Time \cup {NoTime}
  /\ writing \in SUBSET Kind

Written == [k \in Kind |-> NoTime]

Init ==
  /\ left = Written
  /\ due = NoTime
  /\ timer = NoTime
  /\ writing = {}

-----------------------------------------------------------------------------

Unwritten(k) == left[k] # NoTime

\* A slip: every save asks the Store anew.
ExpectedNever(delay) == FALSE

\* Whether a write is expected no later than one after `delay` would be.
Expected(delay) == due # NoTime /\ due <= delay

\* Something changed, and the handler called save for it.
Save(kind) ==
  /\ left' = [left EXCEPT ![kind] = IF @ = NoTime THEN Delay(kind) ELSE @]
  /\ IF Expected(Delay(kind)) THEN UNCHANGED <<due, timer>>
     ELSE due' = Delay(kind) /\ timer' = Delay(kind)
  /\ UNCHANGED writing

\* The Store's timer is over: _data_for_store gives it everything.
StoreWrites ==
  /\ timer = 0
  /\ left' = Written
  /\ due' = NoTime
  /\ timer' = NoTime
  /\ UNCHANGED writing

\* The apply switch, or unloading: write at once, in place of what is pending.
SaveNow ==
  /\ writing = {}
  /\ writing' = {k \in Kind : Unwritten(k)} \cup {"immediate"}
  /\ left' = Written
  /\ due' = NoTime
  /\ timer' = NoTime

\* That write is done.
NowWritten ==
  /\ writing # {}
  /\ writing' = {}
  /\ UNCHANGED <<left, due, timer>>

Less(t) == IF t = NoTime THEN NoTime ELSE t - 1

Tick ==
  /\ timer # 0
  /\ left' = [k \in Kind |-> Less(left[k])]
  /\ due' = Less(due)
  /\ timer' = Less(timer)
  /\ UNCHANGED writing

Next ==
  \/ \E kind \in Kind : Save(kind)
  \/ StoreWrites
  \/ SaveNow
  \/ NowWritten
  \/ Tick

Spec == Init /\ [][Next]_vars

-----------------------------------------------------------------------------
(* Properties *)

\* Every unwritten change has a write coming before its time is over: a lazy
\* save never pushes out a sooner one, nor does a write of another kind forget
\* it (save).
WrittenInTime ==
  \A k \in Kind : Unwritten(k) => timer # NoTime /\ timer <= left[k]

=============================================================================
