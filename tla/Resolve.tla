------------------------------- MODULE Resolve -------------------------------
(***************************************************************************)
(* The resolver, logic/resolve.py: from a lamp's base and its live layers  *)
(* to the command it should show and the layer that decided it.            *)
(*                                                                         *)
(* The code folds the live layers from the bottom of the stack.  Here the  *)
(* result is said directly, by the topmost layer that has a say in each    *)
(* group; ResolveFold keeps the fold and is shown to give the same.        *)
(*                                                                         *)
(* The stack is ordered by priority alone: the code breaks ties by age,    *)
(* and no two live layers of a lamp share a priority (LampRecord's         *)
(* PriorityUnique), so there are none to break.                            *)
(***************************************************************************)
EXTENDS Commands

CONSTANTS
  Id,           \* layer ids
  NoId,         \* no layer
  Priority,     \* layer priorities
  Source,       \* entities a follow layer can follow
  NoSource,
  NoLayer       \* what a lamp holds for an id it has no layer for

ASSUME ResolveAssumption ==
  /\ Priority \subseteq 1..99      \* PRIORITY_MIN..PRIORITY_MAX
  /\ NoId \notin Id
  /\ NoSource \notin Source

-----------------------------------------------------------------------------

Mode == {"set", "adjust", "follow"}

\* How long something is in force: for good, for a while, or no longer.
Lease == {"none", "running", "over"}

\* A layer.  `asked` is the mode its owner asked for, which an edit of `mode`
\* leaves alone (the code's requested_mode, or mode where that is None).
Layer == [prio : Priority, mode : Mode, asked : Mode,
          requested : Command, command : Command, lease : Lease,
          resume : BOOLEAN, render : BOOLEAN,
          source : Source \cup {NoSource}, manual : SUBSET AttrGroup,
          manualLease : Lease, manualTimeout : BOOLEAN]

ASSUME LayerAssumption == NoLayer \notin Layer

Present(layers, i) == layers[i] # NoLayer

Live(layers) == {i \in Id : Present(layers, i) /\ layers[i].lease # "over"}

OfMode(layers, mode) == {i \in Live(layers) : layers[i].mode = mode}

\* A slip: the stack upside down.
Lowest(layers, S) == {i \in S : \A j \in S : layers[i].prio <= layers[j].prio}

Highest(layers, S) == {i \in S : \A j \in S : layers[j].prio <= layers[i].prio}

\* The highest layer of S, or NoId where S is empty.
Topmost(layers, S) ==
  IF Highest(layers, S) = {} THEN NoId
  ELSE CHOOSE i \in Highest(layers, S) : TRUE

Below(layers, S, i) == {j \in S : layers[j].prio < layers[i].prio}

-----------------------------------------------------------------------------

\* A slip: any layer that is not off turns the lamp on, followed ones too.
StateOfAll(base, layers, S) ==
  IF Topmost(layers, Live(layers)) = NoId THEN base.state ELSE "on"

\* The on/off a stack whose set layers are S gives; a set layer that is not
\* off turns on.
StateOf(base, layers, S) ==
  LET top == Topmost(layers, S)
  IN IF top = NoId THEN base.state
     ELSE IF layers[top].command.state = "off" THEN "off" ELSE "on"

\* A slip: a follow layer gives what a person took over.
GivesAll(base, layers, i) ==
  IF layers[i].command.state = "off" THEN {}
  ELSE Groups(layers[i].command) \cap AttrGroup

\* The groups a layer replaces in the commands below it.
Gives(base, layers, i) ==
  LET lay == layers[i]
      given == Groups(lay.command) \cap AttrGroup
      below == StateOf(base, layers, Below(layers, OfMode(layers, "set"), i))
  IN CASE lay.mode = "set" -> IF lay.command.state = "off" THEN {} ELSE given
       [] lay.mode = "adjust" -> IF below = "on" THEN given ELSE {}
       [] lay.mode = "follow" -> IF below = "on" THEN given \ lay.manual ELSE {}

\* Whether a layer decides anything, so that it can be the active one.
Decides(base, layers, i) ==
  \/ layers[i].mode = "set"
  \/ /\ layers[i].mode = "adjust"
     /\ StateOf(base, layers, Below(layers, OfMode(layers, "set"), i)) = "on"
  \/ layers[i].mode = "follow" /\ Gives(base, layers, i) # {}

\* The topmost layer of S that gives a group, or NoId for the base.
Giver(base, layers, S, group) ==
  Topmost(layers, {i \in S : group \in Gives(base, layers, i)})

\* What layer i says, or the base.
Said(base, layers, i) == IF i = NoId THEN base ELSE layers[i].command

\* The effective command of the live layers in S over the base.
EffectiveOf(base, layers, S) ==
  LET state == StateOf(base, layers, OfMode(layers, "set"))
  IN CASE state = "none" -> Nothing
       [] state = "off" -> OffCommand
       [] OTHER -> Cmd("on", Said(base, layers, Giver(base, layers, S, "brightness")).bri,
                             Said(base, layers, Giver(base, layers, S, "color")).col)

Effective(base, layers) == EffectiveOf(base, layers, Live(layers))

\* The effective command as if there were no follow layers.
WithoutFollow(base, layers) ==
  EffectiveOf(base, layers, Live(layers) \ OfMode(layers, "follow"))

\* The layer that decided, or NoId: the base, or nothing, did.
ActiveLayer(base, layers) ==
  Topmost(layers, {i \in Live(layers) : Decides(base, layers, i)})

\* The layer an edit lands on: the active one without the follow layers.
EditableLayer(base, layers) ==
  Topmost(layers, {i \in Live(layers) \ OfMode(layers, "follow") :
                     Decides(base, layers, i)})

\* The set layer that decides on/off, or NoId: the base does.
StateHolder(layers) == Topmost(layers, OfMode(layers, "set"))

=============================================================================
