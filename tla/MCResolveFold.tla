---------------------------- MODULE MCResolveFold ----------------------------
(***************************************************************************)
(* Every stack of up to three layers over every kind of base.  The layer   *)
(* at position k gives brightness k and colour k, so the result tells      *)
(* which one gave each.                                                    *)
(***************************************************************************)
EXTENDS ResolveFold

CONSTANTS low, mid, high, src, none, noLayer, noId, noSource, red, green, blue, grey

MCId == {low, mid, high}
MCPriority == 1..3
PrioOf(i) == CASE i = low -> 1 [] i = mid -> 2 [] i = high -> 3
ColorOf(i) == CASE i = low -> red [] i = mid -> green [] i = high -> blue

MCLayer(i, mode, cmd, manual) ==
  [prio |-> PrioOf(i), mode |-> mode, asked |-> mode, requested |-> cmd,
   command |-> cmd, lease |-> "running", resume |-> FALSE, render |-> FALSE,
   source |-> noSource, manual |-> manual, manualLease |-> "none",
   manualTimeout |-> FALSE]

Attributes(i, state) ==
  {Cmd(state, b, c) : b \in {PrioOf(i), none}, c \in {ColorOf(i), none}}

LayersOf(i) ==
  {noLayer}
  \cup {MCLayer(i, "set", c, {}) : c \in Attributes(i, "on") \cup {OffCommand}}
  \cup {MCLayer(i, "adjust", c, {}) : c \in Attributes(i, "none") \cup {OffCommand}}
  \cup {MCLayer(i, "follow", Cmd("none", PrioOf(i), ColorOf(i)), m) : m \in SUBSET AttrGroup}
  \cup {MCLayer(i, "follow", Nothing, {})}

MCStacks ==
  {[i \in MCId |-> CASE i = low -> l [] i = mid -> m [] i = high -> t] :
     l \in LayersOf(low), m \in LayersOf(mid), t \in LayersOf(high)}

MCBases == {Nothing, OffCommand, Cmd("on", none, none), Cmd("on", 4, grey),
            Cmd("none", 4, none)}

MCLevel == 1..4
MCColor == {red, green, blue, grey}
MCTakes == [c \in MCColor |-> c]
=============================================================================
