------------------------- MODULE PersistenceProofs -------------------------
(***************************************************************************)
(* Every change is written in time, for all delays the code could have.    *)
(***************************************************************************)
EXTENDS Persistence, TLAPS

\* What makes WrittenInTime inductive: the engine's idea of when the Store
\* will write is never wrong.
IInv == TypeOK /\ due = timer /\ WrittenInTime

\* A delay is a time.
LEMMA DelayIsTime == ASSUME NEW kind \in Kind PROVE Delay(kind) \in Time
  BY PersistenceAssumption DEF Delay, Kind, Time

\* A save leaves a write coming in time for what it is called for, and for
\* what was waiting already.
LEMMA SaveKeeps ==
  ASSUME IInv, NEW kind \in Kind, Save(kind)
  PROVE  IInv'
<1> DEFINE d == Delay(kind)
<1>0. d \in Time /\ d \in Nat /\ Time \subseteq Nat
  BY DelayIsTime, PersistenceAssumption DEF Time
<1>1. left' = [left EXCEPT ![kind] = IF @ = NoTime THEN d ELSE @]
  BY DEF Save
<1>2. \A k \in Kind : left'[k] = left[k] \/ (k = kind /\ left[k] = NoTime /\ left'[k] = d)
  BY <1>1 DEF IInv, TypeOK
<1>3. TypeOK'
  <2>1. left' \in [Kind -> Time \cup {NoTime}]
    BY <1>0, <1>1 DEF IInv, TypeOK
  <2>2. due' \in Time \cup {NoTime} /\ timer' \in Time \cup {NoTime}
    BY <1>0 DEF IInv, TypeOK, Save
  <2>3. writing' \in SUBSET Kind
    BY DEF IInv, TypeOK, Save
  <2>. QED BY <2>1, <2>2, <2>3 DEF TypeOK
<1>4. CASE Expected(d)
  <2>1. due' = due /\ timer' = timer
    BY <1>4 DEF Save
  <2>2. timer # NoTime /\ timer <= d
    BY <1>4 DEF Expected, IInv
  <2>3. WrittenInTime'
    BY <1>2, <2>1, <2>2 DEF IInv, WrittenInTime, Unwritten
  <2>. QED BY <1>3, <2>1, <2>3 DEF IInv
<1>5. CASE ~Expected(d)
  <2>1. due' = d /\ timer' = d
    BY <1>5 DEF Save
  <2>2. \A k \in Kind : Unwritten(k) => d <= left[k]
    <3> SUFFICES ASSUME NEW k \in Kind, Unwritten(k) PROVE d <= left[k]
      OBVIOUS
    <3>1. timer # NoTime /\ timer <= left[k]
      BY DEF IInv, WrittenInTime
    <3>2. timer \in Nat /\ left[k] \in Nat
      BY <1>0, <3>1 DEF IInv, TypeOK, Unwritten
    <3>3. d < timer
      BY <1>0, <1>5, <3>1, <3>2 DEF Expected, IInv
    <3>. QED BY <1>0, <3>1, <3>2, <3>3
  <2>3. WrittenInTime'
    BY <1>0, <1>2, <2>1, <2>2, PersistenceAssumption DEF WrittenInTime, Unwritten
  <2>. QED BY <1>3, <2>1, <2>3 DEF IInv
<1>. QED BY <1>4, <1>5

\* The passing of time brings a write closer as fast as it uses up its time.
LEMMA TickKeeps ==
  ASSUME IInv, Tick
  PROVE  IInv'
<1>0. Time \subseteq Nat
  BY DEF Time
<1>1. timer' = Less(timer) /\ due' = timer' /\ writing' = writing
  BY DEF Tick, IInv
<1>2. \A k \in Kind : left'[k] = Less(left[k])
  BY DEF Tick
<1>3. timer # NoTime => timer \in Time /\ timer > 0 /\ timer' = timer - 1
  BY <1>0, <1>1, PersistenceAssumption DEF IInv, TypeOK, Tick, Less, Time
<1>4. \A k \in Kind : Unwritten(k) =>
        left[k] \in Time /\ left[k] > 0 /\ left'[k] = left[k] - 1 /\ timer # NoTime
  <2> SUFFICES ASSUME NEW k \in Kind, Unwritten(k)
               PROVE  left[k] \in Time /\ left[k] > 0 /\ left'[k] = left[k] - 1 /\ timer # NoTime
    OBVIOUS
  <2>1. left[k] \in Time /\ timer # NoTime /\ timer <= left[k]
    BY DEF IInv, TypeOK, Unwritten, WrittenInTime
  <2>2. left[k] \in Nat /\ timer \in Nat /\ timer > 0
    BY <1>0, <1>3, <2>1
  <2>3. left[k] > 0
    BY <2>1, <2>2
  <2>. QED BY <1>2, <2>1, <2>3 DEF Unwritten, Less
<1>5. \A k \in Kind : ~Unwritten(k) => left'[k] = NoTime
  BY <1>2 DEF Unwritten, Less
<1>6. TypeOK'
  <2>1. left' \in [Kind -> Time \cup {NoTime}]
    <3>1. left' = [k \in Kind |-> Less(left[k])]
      BY DEF Tick
    <3>2. \A k \in Kind : left'[k] \in Time \cup {NoTime}
      BY <1>4, <1>5, PersistenceAssumption DEF Time
    <3>. QED BY <3>1, <3>2
  <2>2. timer' \in Time \cup {NoTime}
    BY <1>1, <1>3, PersistenceAssumption DEF Time, Less
  <2>. QED BY <1>1, <2>1, <2>2 DEF TypeOK, IInv
<1>7. WrittenInTime'
  <2> SUFFICES ASSUME NEW k \in Kind, Unwritten(k)'
               PROVE  timer' # NoTime /\ timer' <= left'[k]
    BY DEF WrittenInTime
  <2>1. Unwritten(k)
    BY <1>5 DEF Unwritten
  <2>2. timer <= left[k] /\ timer # NoTime
    BY <2>1 DEF IInv, WrittenInTime
  <2>3. timer \in Nat /\ timer > 0 /\ timer' = timer - 1
    BY <1>0, <1>3, <2>2
  <2>4. left[k] \in Nat /\ left'[k] = left[k] - 1
    BY <1>0, <1>4, <2>1
  <2>5. timer - 1 \in Nat /\ timer - 1 <= left[k] - 1
    BY <2>2, <2>3, <2>4
  <2>. QED BY <2>3, <2>4, <2>5, PersistenceAssumption
<1>. QED BY <1>1, <1>6, <1>7 DEF IInv

\* The engine's due time is the Store's, in every state and for any two delays.
THEOREM Invariance == Spec => []IInv
<1>1. Init => IInv
  BY PersistenceAssumption DEF Init, IInv, TypeOK, WrittenInTime, Unwritten, Written
<1>2. IInv /\ [Next]_vars => IInv'
  <2> SUFFICES ASSUME IInv, [Next]_vars PROVE IInv'
    OBVIOUS
  <2>1. ASSUME NEW kind \in Kind, Save(kind) PROVE IInv'
    BY <2>1, SaveKeeps
  <2>2. CASE StoreWrites
    BY <2>2 DEF StoreWrites, IInv, TypeOK, WrittenInTime, Unwritten, Written
  <2>3. CASE SaveNow
    BY <2>3 DEF SaveNow, IInv, TypeOK, WrittenInTime, Unwritten, Written, Kind
  <2>4. CASE NowWritten
    BY <2>4 DEF NowWritten, IInv, TypeOK, WrittenInTime, Unwritten
  <2>5. CASE Tick
    BY <2>5, TickKeeps
  <2>6. CASE UNCHANGED vars
    BY <2>6 DEF vars, IInv, TypeOK, WrittenInTime, Unwritten
  <2>. QED BY <2>1, <2>2, <2>3, <2>4, <2>5, <2>6 DEF Next
<1>. QED BY <1>1, <1>2, PTL DEF Spec

\* Deadlines and timers stay within the longest delay.
THEOREM TypeCorrect == Spec => []TypeOK
<1>1. IInv => TypeOK
  BY DEF IInv
<1>. QED BY <1>1, Invariance, PTL

\* WrittenInTime holds in every reachable state, whatever the two delays are.
THEOREM EveryChangeWrittenInTime == Spec => []WrittenInTime
<1>1. IInv => WrittenInTime
  BY DEF IInv
<1>. QED BY <1>1, Invariance, PTL

=============================================================================
