------------------------------ MODULE Services ------------------------------
(***************************************************************************)
(* What a service call is to Layers, targets.py and scenes.py: which lamps *)
(* it reaches, what someone else's light call intends, and what a scene    *)
(* would have sent.                                                        *)
(***************************************************************************)
EXTENDS SetCalls, Sequences

LOCAL INSTANCE SequencesExt
LOCAL INSTANCE Graphs

CONSTANTS
  Lamp,         \* the lamps Layers manages
  Rooms,      \* light groups and rooms
  Members,      \* what each of them lists
  Vendor        \* the ones a vendor's bridge fans out itself

\* A group may list itself, another group, or a lamp nobody enrolled.
ASSUME ServicesAssumption ==
  /\ Lamp \cap Rooms = {}
  /\ Vendor \subseteq Rooms
  /\ DOMAIN Members = Rooms

-----------------------------------------------------------------------------
(* expand: from groups to lamps *)

\* A slip: a group of a room is no room.
FannedOutAlone(entity, vendor) == entity \in Vendor

FannedOut(entity, vendor) == vendor \/ entity \in Vendor

Entity == Lamp \cup Rooms \cup UNION {Range(Members[g]) : g \in Rooms}

Waiting == [entity : Entity, vendor : BOOLEAN]

Found == [lamps : SUBSET Entity, via : SUBSET Entity]

\* The stack holds entities, each with whether a vendor's group led to it; an
\* entity counts the first time it is taken off.
Unfold[stack \in Seq(Waiting), seen \in SUBSET Entity, out \in Found] ==
  IF stack = <<>> THEN out
  ELSE LET top == Last(stack)
           rest == Front(stack)
           vendor == FannedOut(top.entity, top.vendor)
           listed == [k \in DOMAIN Members[top.entity] |->
                        [entity |-> Members[top.entity][k], vendor |-> vendor]]
       IN CASE top.entity \in seen -> Unfold[rest, seen, out]
            [] top.entity \in Rooms \ seen ->
                 Unfold[rest \o listed, seen \cup {top.entity}, out]
            [] OTHER ->
                 Unfold[rest, seen \cup {top.entity},
                        [lamps |-> out.lamps \cup {top.entity},
                         via |-> IF top.vendor THEN out.via \cup {top.entity} ELSE out.via]]

\* The order the entities of a call are taken in is that of a Python set.
Expansions(named) ==
  {Unfold[[k \in DOMAIN order |-> [entity |-> order[k], vendor |-> FALSE]],
          {}, [lamps |-> {}, via |-> {}]] : order \in SetToSeqs(named)}

\* The enrolled lamps a call reaches, and those it reaches through a vendor's group.
Reaches(named) ==
  {[lamps |-> x.lamps \cap Lamp, via |-> x.via \cap Lamp] : x \in Expansions(named)}

\* The ways from entity to entity, and whether a vendor's group is on them.
Ways ==
  LET node == (Lamp \cup Rooms) \X BOOLEAN
  IN ConnectionsIn(
       [node |-> node,
        edge |-> {e \in node \X node :
                    /\ e[1][1] \in Rooms
                    /\ \E k \in DOMAIN Members[e[1][1]] : Members[e[1][1]][k] = e[2][1]
                    /\ e[2][2] = (e[1][2] \/ e[1][1] \in Vendor)}])

LeadsTo(named, x, vendor) == \E y \in named : Ways[<<y, FALSE>>, <<x, vendor>>]

-----------------------------------------------------------------------------
(* normalise_call: what a light call intends *)

\* `unknown`: a toggle, or a field whose effect the call alone does not tell.
LightCall == [service : {"turn_on", "turn_off", "toggle"}, unknown : BOOLEAN,
              bri : Level \cup {0, NoValue}, col : Color \cup {NoValue}]

TurnsOff(call) ==
  \/ call.service = "turn_off"
  \/ call.service = "turn_on" /\ ~call.unknown /\ call.bri = 0

\* The command a call asks for; Nothing where it cannot be known.
Intent(call) ==
  CASE TurnsOff(call) -> OffCommand
    [] ~TurnsOff(call) /\ call.service = "turn_on" /\ ~call.unknown ->
         Cmd("on", call.bri, call.col)
    [] OTHER -> Nothing

\* The brightness and colour it names.
NamedBy(call) ==
  IF Intent(call).state = "on" THEN Groups(Intent(call)) \cap AttrGroup ELSE {}

\* What a scene sends a member to make it show `wanted`.
ReproducedCall(wanted) ==
  IF wanted.state = "off"
  THEN [service |-> "turn_off", unknown |-> FALSE, bri |-> NoValue, col |-> NoValue]
  ELSE [service |-> "turn_on", unknown |-> FALSE, bri |-> wanted.bri, col |-> wanted.col]

=============================================================================
