------------------------- MODULE ResolveFoldProofs -------------------------
(***************************************************************************)
(* Proofs about ResolveFold, for every base and every stack of layers: the *)
(* loop of resolve.py gives what module Resolve says.                      *)
(*                                                                         *)
(* The library's induction theorems take an operator; here induction is by *)
(* a least counterexample instead.  Every set of layers in force has a     *)
(* highest priority, at most 99, and without its topmost layer a lower one *)
(* (StackInduction).                                                       *)
(***************************************************************************)
EXTENDS ResolveFold, PolicyProofs

\* A stack of layers whose priorities tell those in force apart.
Ordered(l) ==
  /\ l \in [Id -> Layer \cup {NoLayer}]
  /\ \A i, j \in Live(l) : l[i].prio = l[j].prio => i = j

\* The layers of T but the topmost.
Lower(l, T) == T \ {Topmost(l, T)}

\* How high T reaches; nothing is 0.
Height(l, T) == IF T = {} THEN 0 ELSE l[Topmost(l, T)].prio

-----------------------------------------------------------------------------
(* Induction over a stack *)

\* The topmost layer is above all others.
LEMMA TopIsAbove ==
  ASSUME NEW l, Ordered(l), NEW T \in SUBSET Live(l), T # {}
  PROVE  /\ Topmost(l, T) \in T
         /\ l[Topmost(l, T)].prio \in 1..99
         /\ \A j \in Lower(l, T) : l[j].prio \in 1..99 /\ l[j].prio < l[Topmost(l, T)].prio
<1>1. \A i \in Live(l) : l[i].prio \in 1..99
  BY ResolveAssumption DEF Live, Present, Layer, Ordered
<1>2. /\ Topmost(l, T) \in T
      /\ \A j \in T : l[j].prio <= l[Topmost(l, T)].prio
  BY StackHasTop DEF Ordered
<1>3. \A j \in Lower(l, T) : l[j].prio # l[Topmost(l, T)].prio
  BY <1>2 DEF Lower, Ordered
<1>4. ASSUME NEW j \in Lower(l, T)
      PROVE  l[j].prio \in 1..99 /\ l[j].prio < l[Topmost(l, T)].prio
  <2>1. j \in T
    BY DEF Lower
  <2>2. l[j].prio \in 1..99 /\ l[Topmost(l, T)].prio \in 1..99
    BY <1>1, <1>2, <2>1
  <2>3. l[j].prio <= l[Topmost(l, T)].prio /\ l[j].prio # l[Topmost(l, T)].prio
    BY <1>2, <1>3, <2>1
  <2>4. \A m, n \in 1..99 : m <= n /\ m # n => m < n
    OBVIOUS
  <2> QED BY <2>2, <2>3, <2>4
<1> QED BY <1>1, <1>2, <1>4

\* Without its topmost layer a stack is lower.
LEMMA LowerIsLower ==
  ASSUME NEW l, Ordered(l), NEW T \in SUBSET Live(l), T # {}
  PROVE  /\ Lower(l, T) \in SUBSET T
         /\ Height(l, Lower(l, T)) \in 0..99
         /\ Height(l, T) \in 1..99
         /\ Height(l, Lower(l, T)) < Height(l, T)
<1>1. Lower(l, T) \in SUBSET T
  BY DEF Lower
<1>2. Height(l, T) \in 1..99
  BY TopIsAbove DEF Height
<1>3. CASE Lower(l, T) = {}
  BY <1>1, <1>2, <1>3 DEF Height
<1>4. CASE Lower(l, T) # {}
  <2>1. Topmost(l, Lower(l, T)) \in Lower(l, T)
    BY <1>1, <1>4, TopIsAbove
  <2> QED BY <1>1, <1>4, <2>1, TopIsAbove DEF Height
<1> QED BY <1>3, <1>4

\* A set of stacks has one that is in it without its topmost layer only if it
\* is empty: what holds of no layers, and of a stack if of the lower one, holds
\* of every stack.
LEMMA StackInduction ==
  ASSUME NEW l, Ordered(l), NEW B \in SUBSET (SUBSET Live(l)), B # {}
  PROVE  \E T \in B : T # {} => Lower(l, T) \notin B
<1> DEFINE D == {100 - Height(l, T) : T \in B}
<1>1. \A T \in B : Height(l, T) \in 0..99
  <2> SUFFICES ASSUME NEW T \in B PROVE Height(l, T) \in 0..99
    OBVIOUS
  <2>1. CASE T = {}
    BY <2>1 DEF Height
  <2>2. CASE T # {}
    <3>1. Height(l, T) \in 1..99
      BY <2>2, LowerIsLower
    <3> QED BY <3>1
  <2> QED BY <2>1, <2>2
<1>2. D \in SUBSET (1..100) /\ D # {} /\ 100 \in Nat
  BY <1>1
<1>3. PICK m \in D : \A n \in D : n <= m
  BY <1>2, HighestNumber
<1>4. PICK T \in B : m = 100 - Height(l, T)
  BY <1>3
<1>5. ASSUME NEW U \in B
      PROVE  Height(l, T) <= Height(l, U)
  <2>1. 100 - Height(l, U) <= 100 - Height(l, T)
    BY <1>3, <1>4
  <2>2. Height(l, U) \in 0..99 /\ Height(l, T) \in 0..99
    BY <1>1
  <2> QED BY <2>1, <2>2
<1>6. ASSUME T # {}, Lower(l, T) \in B
      PROVE  FALSE
  <2>1. Height(l, Lower(l, T)) < Height(l, T) /\ Height(l, T) \in 1..99
        /\ Height(l, Lower(l, T)) \in 0..99
    BY <1>6, LowerIsLower
  <2>2. Height(l, T) <= Height(l, Lower(l, T))
    BY <1>5, <1>6
  <2> QED BY <2>1, <2>2
<1> QED BY <1>6

-----------------------------------------------------------------------------
(* The loop *)

\* One more round: what the loop over T carries, if over U it carries f[U].
Round(b, l, f, T) ==
  IF T = {} THEN FoldStart(b) ELSE FoldLayer(f[Lower(l, T)], Topmost(l, T), l)

\* The loop over a stack is one round more than the loop over the lower one
\* (_fold): a function that says so exists, and FoldLive is one.
LEMMA LoopExists ==
  ASSUME NEW b, NEW l, Ordered(l), NEW S \in SUBSET Live(l)
  PROVE  \E f : f = [T \in SUBSET S |-> Round(b, l, f, T)]
<1> DEFINE Dom(n) == {T \in SUBSET S : Height(l, T) <= n}
           Upto(n) == \E f : f = [T \in Dom(n) |-> Round(b, l, f, T)]
           D == {100 - n : n \in {k \in 0..99 : ~Upto(k)}}
<1>1. \A T \in SUBSET S : Height(l, T) \in 0..99
  <2> SUFFICES ASSUME NEW T \in SUBSET S PROVE Height(l, T) \in 0..99
    OBVIOUS
  <2>1. CASE T = {}
    BY <2>1 DEF Height
  <2>2. CASE T # {}
    <3>1. Height(l, T) \in 1..99
      BY <2>2, LowerIsLower
    <3> QED BY <3>1
  <2> QED BY <2>1, <2>2
<1>2. Upto(0)
  <2> DEFINE f == [T \in Dom(0) |-> FoldStart(b)]
  <2>1. ASSUME NEW T \in Dom(0)
        PROVE  T = {}
    <3>1. CASE T # {}
      <4>1. Height(l, T) \in 1..99
        BY <3>1, LowerIsLower
      <4> QED BY <4>1
    <3> QED BY <3>1
  <2>2. f = [T \in Dom(0) |-> Round(b, l, f, T)]
    BY <2>1 DEF Round
  <2> QED BY <2>2
<1>3. ASSUME NEW n \in 0..98, Upto(n)
      PROVE  Upto(n + 1)
  <2>1. PICK f : f = [T \in Dom(n) |-> Round(b, l, f, T)]
    BY <1>3
  <2> DEFINE g == [T \in Dom(n + 1) |-> Round(b, l, f, T)]
  <2>2. Dom(n) \subseteq Dom(n + 1)
    BY <1>1
  <2>3. \A T \in Dom(n) : g[T] = f[T]
    BY <2>1, <2>2
  <2>4. ASSUME NEW T \in Dom(n + 1), T # {}
        PROVE  Lower(l, T) \in Dom(n)
    <3>1. /\ Lower(l, T) \in SUBSET S
          /\ Height(l, Lower(l, T)) < Height(l, T)
          /\ Height(l, Lower(l, T)) \in 0..99 /\ Height(l, T) \in 1..99
      BY <2>4, LowerIsLower
    <3>2. Height(l, T) <= n + 1
      OBVIOUS
    <3>3. Height(l, Lower(l, T)) <= n
      BY <3>1, <3>2
    <3> QED BY <3>1, <3>3
  <2>5. \A T \in Dom(n + 1) : Round(b, l, f, T) = Round(b, l, g, T)
    BY <2>3, <2>4 DEF Round
  <2>6. g = [T \in Dom(n + 1) |-> Round(b, l, g, T)]
    BY <2>5
  <2> QED BY <2>6
<1> HIDE DEF Upto
<1>4. D = {}
  <2> SUFFICES ASSUME D # {} PROVE FALSE
    OBVIOUS
  <2>1. D \in SUBSET (1..100) /\ 100 \in Nat
    OBVIOUS
  <2>2. PICK m \in D : \A k \in D : k <= m
    BY <2>1, HighestNumber
  <2>3. PICK n \in 0..99 : ~Upto(n) /\ m = 100 - n
    BY <2>2
  <2>4. n # 0
    BY <1>2, <2>3
  <2>5. n - 1 \in 0..98
    BY <2>4
  <2>6. Upto(n - 1)
    <3> SUFFICES ASSUME ~Upto(n - 1) PROVE FALSE
      OBVIOUS
    <3>1. n - 1 \in 0..99
      BY <2>5
    <3>2. 100 - (n - 1) \in D
      BY <3>1
    <3>3. 100 - (n - 1) <= 100 - n
      BY <2>2, <2>3, <3>2
    <3> QED BY <3>3
  <2>7. Upto((n - 1) + 1)
    BY <1>3, <2>5, <2>6
  <2>8. (n - 1) + 1 = n
    OBVIOUS
  <2> QED BY <2>3, <2>7, <2>8
<1>5. Upto(99)
  <2> SUFFICES ASSUME ~Upto(99) PROVE FALSE
    OBVIOUS
  <2>1. 99 \in {k \in 0..99 : ~Upto(k)}
    OBVIOUS
  <2>2. 100 - 99 \in D
    BY <2>1
  <2> QED BY <1>4, <2>2
<1>6. Dom(99) = SUBSET S
  BY <1>1
<1> HIDE DEF Dom
<1> QED BY <1>5, <1>6 DEF Upto

LEMMA LoopUnfolds ==
  ASSUME NEW b, NEW l, Ordered(l), NEW S \in SUBSET Live(l)
  PROVE  \E f : /\ FoldLive(b, l, S) = f[S]
                /\ f = [T \in SUBSET S |-> Round(b, l, f, T)]
<1> DEFINE f == CHOOSE g : g = [T \in SUBSET S |-> Round(b, l, g, T)]
<1>1. f = [T \in SUBSET S |-> Round(b, l, f, T)]
  BY LoopExists
<1>2. FoldLive(b, l, S) = f[S]
  BY DEF FoldLive, MapThenFoldSet, Round, Lower
<1> HIDE DEF f
<1> QED BY <1>1, <1>2

-----------------------------------------------------------------------------
(* What the loop carries *)

\* T holds what is below it, of the set layers and of itself.
Segment(l, S, T) ==
  /\ T \in SUBSET S
  /\ \A i \in T, j \in S : l[j].prio < l[i].prio => j \in T

\* What the loop carries over T is what the topmost layers of T say.
Told(b, l, T) ==
  [state |-> StateOf(b, l, T \cap OfMode(l, "set")),
   bri |-> Said(b, l, Giver(b, l, T, "brightness")).bri,
   col |-> Said(b, l, Giver(b, l, T, "color")).col,
   top |-> Topmost(l, {i \in T : Decides(b, l, i)})]

\* The topmost of some layers of T is T's topmost, if that is among them.
LEMMA TopmostOfSome ==
  ASSUME NEW l, Ordered(l), NEW T \in SUBSET Live(l), T # {}, NEW A \in SUBSET T
  PROVE  Topmost(l, A) = IF Topmost(l, T) \in A THEN Topmost(l, T)
                         ELSE Topmost(l, A \cap Lower(l, T))
<1> DEFINE x == Topmost(l, T)
<1>1. CASE x \in A
  <2>1. Topmost(l, A) \in A /\ \A j \in Lower(l, A) : l[j].prio < l[Topmost(l, A)].prio
    BY <1>1, TopIsAbove
  <2>2. \A j \in Lower(l, T) : l[j].prio \in 1..99 /\ l[j].prio < l[x].prio
    BY TopIsAbove
  <2>3. l[x].prio \in 1..99
    BY TopIsAbove
  <2> DEFINE y == Topmost(l, A)
  <2> HIDE DEF x, y
  <2>4. CASE y # x
    <3>1. y \in Lower(l, T) /\ x \in Lower(l, A)
      BY <1>1, <2>1, <2>4 DEF Lower, x, y
    <3>2. l[y].prio < l[x].prio /\ l[x].prio < l[y].prio
      BY <2>1, <2>2, <3>1 DEF x, y
    <3>3. l[y].prio \in 1..99
      BY <2>2, <3>1 DEF x, y
    <3>4. \A m, n \in 1..99 : ~((m < n) /\ (n < m))
      OBVIOUS
    <3> QED BY <2>3, <3>2, <3>3, <3>4
  <2> QED BY <1>1, <2>4 DEF x, y
<1>2. CASE x \notin A
  <2>1. A \cap Lower(l, T) = A
    BY <1>2 DEF Lower
  <2> QED BY <1>2, <2>1
<1> QED BY <1>1, <1>2

\* The set layers below the topmost of a segment are those of the lower one.
LEMMA BelowTop ==
  ASSUME NEW l, Ordered(l), NEW S \in SUBSET Live(l), OfMode(l, "set") \subseteq S,
         NEW T, Segment(l, S, T), T # {}
  PROVE  /\ Below(l, OfMode(l, "set"), Topmost(l, T)) = Lower(l, T) \cap OfMode(l, "set")
         /\ Segment(l, S, Lower(l, T))
<1> DEFINE x == Topmost(l, T)
<1>1. T \in SUBSET Live(l) /\ T \subseteq S
  BY DEF Segment
<1>2. /\ x \in T /\ l[x].prio \in 1..99
      /\ \A j \in Lower(l, T) : l[j].prio \in 1..99 /\ l[j].prio < l[x].prio
  BY <1>1, TopIsAbove
<1>3. ASSUME NEW j \in OfMode(l, "set"), l[j].prio < l[x].prio
      PROVE  j \in Lower(l, T)
  <2>1. j \in T
    BY <1>2, <1>3 DEF Segment
  <2>2. \A n \in 1..99 : ~(n < n)
    OBVIOUS
  <2>3. j # x
    BY <1>2, <1>3, <2>2
  <2> QED BY <2>1, <2>3 DEF Lower
<1>4. ASSUME NEW i \in Lower(l, T), NEW j \in S, l[j].prio < l[i].prio
      PROVE  j \in Lower(l, T)
  <2>1. j \in T
    BY <1>4 DEF Segment, Lower
  <2>2. l[i].prio < l[x].prio /\ l[i].prio \in 1..99
    BY <1>2
  <2>3. \A m, n \in 1..99 : ~((m < n) /\ (n < m))
    OBVIOUS
  <2>4. j # x
    BY <1>2, <1>4, <2>2, <2>3
  <2> QED BY <2>1, <2>4 DEF Lower
<1>5. Lower(l, T) \in SUBSET S
  BY <1>1 DEF Lower
<1> QED BY <1>2, <1>3, <1>4, <1>5 DEF Below, Segment

\* What a round of the loop does to what it carries, spelled out (_fold).
LEMMA FoldLayerIs ==
  ASSUME NEW l, NEW x, l[x].mode \in Mode, NEW state, NEW bri, NEW col, NEW top
  PROVE  LET lay == l[x]
             acc == [state |-> state, bri |-> bri, col |-> col, top |-> top]
             own == Groups(lay.command) \cap AttrGroup
             says == IF lay.mode = "set"
                     THEN IF lay.command.state = "off" THEN {} ELSE own
                     ELSE IF state # "on" THEN {}
                     ELSE IF lay.mode = "adjust" THEN own ELSE own \ lay.manual
             decides == \/ lay.mode = "set"
                        \/ (lay.mode = "adjust" /\ state = "on")
                        \/ (lay.mode = "follow" /\ says # {})
         IN FoldLayer(acc, x, l) =
              [state |-> IF lay.mode = "set"
                         THEN IF lay.command.state = "off" THEN "off" ELSE "on"
                         ELSE state,
               bri |-> IF "brightness" \in says THEN lay.command.bri ELSE bri,
               col |-> IF "color" \in says THEN lay.command.col ELSE col,
               top |-> IF decides THEN x ELSE top]
<1> DEFINE lay == l[x]
           acc == [state |-> state, bri |-> bri, col |-> col, top |-> top]
           own == Groups(lay.command) \cap AttrGroup
<1>1. CASE lay.mode = "set" /\ lay.command.state = "off"
  BY <1>1 DEF FoldLayer
<1>2. CASE lay.mode = "set" /\ lay.command.state # "off"
  BY <1>2 DEF FoldLayer
<1>3. CASE lay.mode = "adjust" /\ state = "on"
  BY <1>3 DEF FoldLayer
<1>4. CASE lay.mode = "adjust" /\ state # "on"
  BY <1>4 DEF FoldLayer
<1>5. CASE lay.mode = "follow" /\ state = "on" /\ own \ lay.manual # {}
  BY <1>5 DEF FoldLayer
<1>6. CASE lay.mode = "follow" /\ ~(state = "on" /\ own \ lay.manual # {})
  BY <1>6 DEF FoldLayer
<1> QED BY <1>1, <1>2, <1>3, <1>4, <1>5, <1>6 DEF Mode

\* One round of the loop keeps what it carries true (_fold).
LEMMA RoundTells ==
  ASSUME NEW b, NEW l, Ordered(l), NEW S \in SUBSET Live(l), OfMode(l, "set") \subseteq S,
         NEW T, Segment(l, S, T), T # {}
  PROVE  FoldLayer(Told(b, l, Lower(l, T)), Topmost(l, T), l) = Told(b, l, T)
<1> DEFINE x == Topmost(l, T)
           U == Lower(l, T)
           sets == OfMode(l, "set")
           acc == Told(b, l, U)
           below == StateOf(b, l, Below(l, sets, x))
           lay == l[x]
           own == Groups(lay.command) \cap AttrGroup
           Says(group) == group \in Gives(b, l, x)
<1>1. T \in SUBSET Live(l)
  BY DEF Segment
<1>2. x \in T /\ x \notin U /\ x # NoId
  <2>1. x \in T
    BY <1>1, TopIsAbove
  <2> QED BY <1>1, <2>1, ResolveAssumption DEF Lower, Live
<1>3. lay \in Layer
  BY <1>1, <1>2 DEF Ordered, Live, Present
<1>4. below = StateOf(b, l, U \cap sets)
  BY BelowTop
<1>5. acc.state = below
  BY <1>4 DEF Told
<1>6. StateOf(b, l, T \cap sets) =
        IF lay.mode = "set" THEN IF lay.command.state = "off" THEN "off" ELSE "on"
        ELSE below
  <2>1. x \in T \cap sets <=> lay.mode = "set"
    BY <1>1, <1>2 DEF OfMode
  <2>2. (T \cap sets) \cap U = U \cap sets
    BY DEF Lower
  <2>3. Topmost(l, T \cap sets) = IF lay.mode = "set" THEN x ELSE Topmost(l, U \cap sets)
    BY <1>1, <2>1, <2>2, TopmostOfSome
  <2> QED BY <1>2, <1>4, <2>3 DEF StateOf
<1>7. ASSUME NEW group
      PROVE  Giver(b, l, T, group) = IF Says(group) THEN x ELSE Giver(b, l, U, group)
  <2> DEFINE A == {i \in T : group \in Gives(b, l, i)}
  <2>1. A \in SUBSET T /\ (x \in A <=> Says(group))
    BY <1>2
  <2>2. A \cap U = {i \in U : group \in Gives(b, l, i)}
    BY DEF Lower
  <2> HIDE DEF A
  <2>3. Topmost(l, A) = IF Says(group) THEN x ELSE Topmost(l, A \cap U)
    BY <1>1, <2>1, TopmostOfSome
  <2> QED BY <2>2, <2>3 DEF Giver, A
<1>8. Topmost(l, {i \in T : Decides(b, l, i)}) = IF Decides(b, l, x) THEN x ELSE acc.top
  <2> DEFINE A == {i \in T : Decides(b, l, i)}
  <2>1. A \in SUBSET T /\ (x \in A <=> Decides(b, l, x))
    BY <1>2
  <2>2. A \cap U = {i \in U : Decides(b, l, i)}
    BY DEF Lower
  <2> HIDE DEF A
  <2>3. Topmost(l, A) = IF Decides(b, l, x) THEN x ELSE Topmost(l, A \cap U)
    BY <1>1, <2>1, TopmostOfSome
  <2> QED BY <2>2, <2>3 DEF Told, A
<1>9. Told(b, l, T) =
        [state |-> IF lay.mode = "set"
                   THEN IF lay.command.state = "off" THEN "off" ELSE "on"
                   ELSE below,
         bri |-> IF Says("brightness") THEN lay.command.bri ELSE acc.bri,
         col |-> IF Says("color") THEN lay.command.col ELSE acc.col,
         top |-> IF Decides(b, l, x) THEN x ELSE acc.top]
  <2>1. \A group : Said(b, l, Giver(b, l, T, group))
                     = IF Says(group) THEN lay.command ELSE Said(b, l, Giver(b, l, U, group))
    BY <1>2, <1>7 DEF Said
  <2> QED BY <1>6, <1>8, <2>1 DEF Told
<1>10. acc = [state |-> below, bri |-> acc.bri, col |-> acc.col, top |-> acc.top]
  BY <1>4 DEF Told
<1>11. lay.mode \in Mode
  BY <1>3 DEF Layer
<1>12. Gives(b, l, x) =
         IF lay.mode = "set"
         THEN IF lay.command.state = "off" THEN {} ELSE own
         ELSE IF below # "on" THEN {}
         ELSE IF lay.mode = "adjust" THEN own ELSE own \ lay.manual
  <2>1. CASE lay.mode = "set"
    BY <2>1 DEF Gives
  <2>2. CASE lay.mode = "adjust"
    BY <2>2 DEF Gives
  <2>3. CASE lay.mode = "follow"
    BY <2>3 DEF Gives
  <2> QED BY <1>11, <2>1, <2>2, <2>3 DEF Mode
<1>13. Decides(b, l, x) <=> \/ lay.mode = "set"
                           \/ (lay.mode = "adjust" /\ below = "on")
                           \/ (lay.mode = "follow" /\ Gives(b, l, x) # {})
  BY DEF Decides
<1> DEFINE bri == acc.bri
           col == acc.col
           top == acc.top
<1> HIDE DEF acc, below, U, x, sets, bri, col, top
<1>14. FoldLayer([state |-> below, bri |-> bri, col |-> col, top |-> top], x, l)
         = Told(b, l, T)
  BY <1>9, <1>11, <1>12, <1>13, FoldLayerIs DEF bri, col, top
<1>15. acc = [state |-> below, bri |-> bri, col |-> col, top |-> top]
  BY <1>10 DEF bri, col, top
<1>16. FoldLayer(acc, x, l) = Told(b, l, T)
  BY <1>14, <1>15
<1> QED BY <1>16 DEF acc, x, U

\* The loop over the layers of S, with every set layer among them, carries what
\* their topmost layers say.
LEMMA LoopTells ==
  ASSUME NEW b, NEW l, Ordered(l), NEW S \in SUBSET Live(l), OfMode(l, "set") \subseteq S
  PROVE  FoldLive(b, l, S) = Told(b, l, S)
<1>1. PICK f : FoldLive(b, l, S) = f[S] /\ f = [T \in SUBSET S |-> Round(b, l, f, T)]
  BY LoopUnfolds
<1> DEFINE B == {T \in SUBSET S : Segment(l, S, T) /\ f[T] # Told(b, l, T)}
<1>2. SUFFICES ASSUME B # {} PROVE FALSE
  <2>1. S \in SUBSET S /\ Segment(l, S, S)
    BY DEF Segment
  <2> QED BY <1>1, <1>2, <2>1
<1>3. B \in SUBSET (SUBSET Live(l))
  OBVIOUS
<1>4. PICK T \in B : T # {} => Lower(l, T) \notin B
  <2> HIDE DEF B
  <2> QED BY <1>2, <1>3, StackInduction
<1>5. T \in SUBSET S /\ Segment(l, S, T) /\ f[T] # Told(b, l, T)
  OBVIOUS
<1>6. f[T] = Round(b, l, f, T)
  BY <1>1, <1>5
<1>7. CASE T = {}
  <2>1. Topmost(l, {}) = NoId
    BY DEF Topmost, Highest
  <2>2. Told(b, l, {}) = FoldStart(b)
    BY <2>1 DEF Told, FoldStart, StateOf, Giver, Said
  <2> QED BY <1>5, <1>6, <1>7, <2>2 DEF Round
<1>8. CASE T # {}
  <2>1. Segment(l, S, Lower(l, T))
    BY <1>5, <1>8, BelowTop
  <2>2. f[Lower(l, T)] = Told(b, l, Lower(l, T))
    BY <1>4, <1>8, <2>1 DEF Segment
  <2>3. FoldLayer(Told(b, l, Lower(l, T)), Topmost(l, T), l) = Told(b, l, T)
    BY <1>5, <1>8, RoundTells
  <2> QED BY <1>5, <1>6, <1>8, <2>2, <2>3 DEF Round
<1> QED BY <1>7, <1>8

-----------------------------------------------------------------------------
(* What the runs check of the loop *)

\* The command read off the loop is the one module Resolve gives.
LEMMA LoopEffective ==
  ASSUME NEW b \in Command, NEW l, Ordered(l), NEW S \in SUBSET Live(l),
         OfMode(l, "set") \subseteq S
  PROVE  /\ EffectiveOf(b, l, S) = FoldCommand(FoldLive(b, l, S))
         /\ Topmost(l, {i \in S : Decides(b, l, i)}) = FoldLive(b, l, S).top
         /\ FoldLive(b, l, S).state = StateOf(b, l, OfMode(l, "set"))
<1>1. FoldLive(b, l, S) = Told(b, l, S)
  BY LoopTells
<1>2. S \cap OfMode(l, "set") = OfMode(l, "set")
  OBVIOUS
<1>3. StateOf(b, l, OfMode(l, "set")) \in {"none", "off", "on"}
  BY DEF StateOf, Command
<1> QED BY <1>1, <1>2, <1>3 DEF Told, EffectiveOf, FoldCommand

\* The base is a command and the stack's priorities are its own.
StackInv == base \in Command /\ Ordered(layers)

LEMMA StackInvariance == Spec => []StackInv
<1>1. Init => StackInv
  BY FoldAssumption DEF Init, StackInv, Ordered
<1>2. StackInv /\ [Next]_<<base, layers>> => StackInv'
  <2> SUFFICES ASSUME StackInv, [Next]_<<base, layers>> PROVE StackInv'
    OBVIOUS
  <2>1. CASE UNCHANGED <<base, layers>>
    BY <2>1 DEF StackInv, Ordered, Live, Present
  <2>2. CASE RunOut
    <3>1. PICK i \in Live(layers) : layers' = [layers EXCEPT ![i].lease = "over"]
      BY <2>2 DEF RunOut
    <3>2. /\ layers \in [Id -> Layer \cup {NoLayer}]
          /\ i \in Id /\ layers[i] \in Layer
      BY DEF StackInv, Ordered, Live, Present
    <3>3. [layers[i] EXCEPT !.lease = "over"] \in Layer
      BY <3>2 DEF Layer, Lease
    <3>4. /\ layers' \in [Id -> Layer \cup {NoLayer}]
          /\ \A j \in Id \ {i} : layers'[j] = layers[j]
          /\ layers'[i].lease = "over"
      BY <3>1, <3>2, <3>3
    <3>5. Live(layers') \subseteq Live(layers) \ {i}
      BY <3>4 DEF Live, Present
    <3>6. \A j, k \in Live(layers') : layers'[j].prio = layers'[k].prio => j = k
      <4>1. \A j \in Live(layers') : layers'[j] = layers[j] /\ j \in Live(layers)
        BY <3>4, <3>5 DEF Live
      <4> QED BY <4>1 DEF StackInv, Ordered
    <3> QED BY <2>2, <3>4, <3>6 DEF StackInv, Ordered, RunOut
  <2> QED BY <2>1, <2>2 DEF Next
<1> QED BY <1>1, <1>2, PTL DEF Spec

LEMMA SetLayersAreNotSkipped ==
  ASSUME NEW l
  PROVE  /\ OfMode(l, "set") \subseteq Live(l)
         /\ OfMode(l, "set") \subseteq Live(l) \ OfMode(l, "follow")
  BY DEF OfMode

\* The effective command and the active layer of module Resolve, which the
\* other modules use, are those of the loop (_fold), whatever the stack.
THEOREM ResolveIsTheLoop == Spec => []FoldAgrees
<1>1. StackInv => FoldAgrees
  BY LoopEffective, SetLayersAreNotSkipped
     DEF StackInv, FoldAgrees, Effective, ActiveLayer
<1> QED BY <1>1, StackInvariance, PTL

\* So are the command and the layer an edit lands on, of the loop that skips
\* the follow layers (WithoutFollow, EditableLayer).
THEOREM ResolveWithoutFollowIsTheLoop == Spec => []FoldWithoutFollowAgrees
<1>1. StackInv => FoldWithoutFollowAgrees
  BY LoopEffective, SetLayersAreNotSkipped
     DEF StackInv, FoldWithoutFollowAgrees, WithoutFollow, EditableLayer
<1> QED BY <1>1, StackInvariance, PTL

\* Follow layers take no part in on/off, wherever they are in the stack: with
\* and without them the loop ends in the same state.
THEOREM FollowNeverDecides == Spec => []FollowNeverDecidesState
<1>1. StackInv => FollowNeverDecidesState
  BY LoopEffective, SetLayersAreNotSkipped DEF StackInv, FollowNeverDecidesState
<1> QED BY <1>1, StackInvariance, PTL
=============================================================================
