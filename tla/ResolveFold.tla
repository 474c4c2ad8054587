----------------------------- MODULE ResolveFold -----------------------------
(***************************************************************************)
(* logic/resolve.py as it is written: one loop over the live layers, from  *)
(* the bottom of the stack to the top, carrying the state, the brightness, *)
(* the colour and the last layer that decided.  The specification below    *)
(* draws every stack of the instance and leaves it alone: its invariants   *)
(* say that module Resolve, which the other modules use, gives what the    *)
(* loop gives.                                                             *)
(***************************************************************************)
EXTENDS Resolve, Folds

\* A slip: a follow layer turns the lamp on.
FoldLayerLights(acc, i, layers) ==
  IF layers[i].mode = "follow" THEN [acc EXCEPT !.state = "on", !.top = i] ELSE acc

\* One round of the loop.
FoldLayer(acc, i, layers) ==
  LET lay == layers[i]
      cmd == lay.command
      own == Groups(cmd) \cap AttrGroup
      Replace(groups) ==
        [acc EXCEPT !.bri = IF "brightness" \in groups THEN cmd.bri ELSE @,
                    !.col = IF "color" \in groups THEN cmd.col ELSE @,
                    !.top = i]
  IN CASE lay.mode = "set" /\ cmd.state = "off" ->
            [acc EXCEPT !.state = "off", !.top = i]
       [] lay.mode = "set" /\ cmd.state # "off" ->
            [Replace(own) EXCEPT !.state = "on"]
       [] lay.mode = "adjust" /\ acc.state = "on" -> Replace(own)
       [] /\ lay.mode = "follow"
          /\ acc.state = "on"
          /\ own \ lay.manual # {} -> Replace(own \ lay.manual)
       [] OTHER -> acc

\* What the loop starts with.
FoldStart(base) ==
  [state |-> base.state, bri |-> base.bri, col |-> base.col, top |-> NoId]

\* The whole loop over the ids of S, the highest layer last.
FoldLive(base, layers, S) ==
  MapThenFoldSet(LAMBDA i, acc : FoldLayer(acc, i, layers),
                 FoldStart(base),
                 LAMBDA i : i,
                 LAMBDA T : Topmost(layers, T),
                 S)

FoldCommand(acc) ==
  CASE acc.state = "none" -> Nothing
    [] acc.state = "off" -> OffCommand
    [] acc.state = "on" -> Cmd("on", acc.bri, acc.col)

-----------------------------------------------------------------------------

CONSTANTS
  Stacks,       \* functions from Id to layers or NoLayer
  Bases         \* base commands

\* No two layers in force share a priority (LampRecord's PriorityUnique).
ASSUME FoldAssumption ==
  /\ Bases \subseteq Command
  /\ \A stack \in Stacks :
       /\ stack \in [Id -> Layer \cup {NoLayer}]
       /\ \A i, j \in Live(stack) : stack[i].prio = stack[j].prio => i = j

VARIABLES base, layers

Init == base \in Bases /\ layers \in Stacks

\* A layer's lease runs out: the only change the stacks need to cover.
RunOut ==
  /\ \E i \in Live(layers) : layers' = [layers EXCEPT ![i].lease = "over"]
  /\ UNCHANGED base

Next == RunOut

Spec == Init /\ [][Next]_<<base, layers>>

-----------------------------------------------------------------------------

\* The effective command and the active layer are the loop's (_fold).
FoldAgrees ==
  LET acc == FoldLive(base, layers, Live(layers))
  IN /\ Effective(base, layers) = FoldCommand(acc)
     /\ ActiveLayer(base, layers) = acc.top

\* So are those of the loop that skips follow layers.
FoldWithoutFollowAgrees ==
  LET acc == FoldLive(base, layers, Live(layers) \ OfMode(layers, "follow"))
  IN /\ WithoutFollow(base, layers) = FoldCommand(acc)
     /\ EditableLayer(base, layers) = acc.top

\* A follow layer never decides on/off, wherever it is in the stack: the loop
\* that skips the follow layers ends in the same state.
FollowNeverDecidesState ==
  LET all == FoldLive(base, layers, Live(layers))
      skipped == FoldLive(base, layers, Live(layers) \ OfMode(layers, "follow"))
  IN all.state = skipped.state

=============================================================================
