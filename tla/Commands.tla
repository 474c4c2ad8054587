------------------------------ MODULE Commands ------------------------------
(***************************************************************************)
(* What a lamp can be told and what it can report: logic/model.py's        *)
(* Command and Observed, and the pure functions of logic/capability.py     *)
(* that compare and convert them.                                          *)
(*                                                                         *)
(* A brightness is a number, because the tolerance decides what counts as  *)
(* shown and as brighter.  A colour is one atomic value: two members of    *)
(* Color stand for colours further apart than the code's colour            *)
(* tolerances, so "within tolerance" is equality on them.                  *)
(*                                                                         *)
(* None is represented where it stands: NoValue for a missing attribute,   *)
(* the state "none" for a command without one.  The code's `base = None`   *)
(* and a command that gives nothing are treated alike by every function    *)
(* modelled here, so both are Nothing.                                     *)
(***************************************************************************)
EXTENDS Integers

CONSTANTS
  Level,        \* brightness levels, a subset of 0..255
  Color,        \* colours that tell each other apart
  NoValue,      \* a missing brightness or colour
  Tol,          \* TOL_BRIGHTNESS
  Dims,         \* the lamp has a mode that dims
  Takes,        \* the colour the lamp is sent for a colour asked (NoValue: dropped)
  Uncompared    \* colours a report cannot be compared with (hs, rgb, kelvin on rgbww)

ASSUME CommandAssumption ==
  /\ Level \subseteq 0..255
  /\ 1 \in Level
  /\ Color \cap Level = {}
  /\ NoValue \notin Level \cup Color \cup {0}
  /\ Tol \in Nat
  /\ Dims \in BOOLEAN
  /\ Takes \in [Color -> Color \cup {NoValue}]
  /\ Uncompared \subseteq Color

-----------------------------------------------------------------------------

Group == {"state", "brightness", "color"}
AttrGroup == {"brightness", "color"}

\* A command; "An off command carries no attributes".
Command ==
  {c \in [state : {"on", "off", "none"},
          bri : Level \cup {NoValue},
          col : Color \cup {NoValue}] :
     c.state = "off" => c.bri = NoValue /\ c.col = NoValue}

Cmd(state, bri, col) == [state |-> state, bri |-> bri, col |-> col]

OffCommand == Cmd("off", NoValue, NoValue)
Nothing == Cmd("none", NoValue, NoValue)

\* A report; an unavailable, unknown or removed lamp reports nothing else.
Report ==
  {o \in [state : {"on", "off", "away"},
          bri : Level \cup {NoValue},
          col : Color \cup {NoValue}] :
     o.state # "on" => o.bri = NoValue /\ o.col = NoValue}

Away == Cmd("away", NoValue, NoValue)

\* The groups a command specifies.
Groups(cmd) ==
  {g \in Group : \/ g = "state" /\ cmd.state # "none"
                 \/ g = "brightness" /\ cmd.bri # NoValue
                 \/ g = "color" /\ cmd.col # NoValue}

\* Overlay `over` onto `below`, taking only `groups` of it.  An off drops the
\* attributes; an off below has none to keep.
Merge(below, over, groups) ==
  LET take == Groups(over) \cap groups
      state == IF "state" \in take THEN over.state ELSE below.state
      kept == IF below.state = "off" THEN Nothing ELSE below
  IN IF state = "off" THEN OffCommand
     ELSE Cmd(state,
              IF "brightness" \in take THEN over.bri ELSE kept.bri,
              IF "color" \in take THEN over.col ELSE kept.col)

-----------------------------------------------------------------------------

\* What a lamp shows, as a command (a base recorded from a report).
ObservedToCommand(obs) ==
  CASE obs.state = "on" -> obs
    [] obs.state = "off" -> OffCommand
    [] OTHER -> Nothing

\* The light call an effective command becomes on this lamp; Nothing when
\* there is nothing to send.  A call is a command the lamp can take.
Project(cmd) ==
  IF cmd.state # "on" THEN (IF cmd.state = "off" THEN OffCommand ELSE Nothing)
  ELSE Cmd("on",
           IF ~Dims THEN NoValue ELSE IF cmd.bri = 0 THEN 1 ELSE cmd.bri,
           IF cmd.col = NoValue THEN NoValue ELSE Takes[cmd.col])

Near(a, b) == a - b <= Tol /\ b - a <= Tol

BothNear(a, b) == a # NoValue /\ b # NoValue => Near(a, b)

\* Did the lamp take the call: "yes", "no", or "colour_off".
Matches(obs, call) ==
  IF \/ call.state \notin {"on", "off"}
     \/ obs.state # call.state
     \/ ~BothNear(obs.bri, call.bri)
  THEN "no"
  ELSE IF call.col # NoValue /\ call.col \notin Uncompared /\ obs.col # call.col
       THEN "colour_off"
       ELSE "yes"

\* Two reports show the same thing, within tolerance.
Close(a, b) ==
  /\ a.state = b.state
  /\ BothNear(a.bri, b.bri)
  /\ a.col # NoValue /\ b.col # NoValue => a.col = b.col

\* Would going from a report or command to a command light or brighten the lamp?
RaisesOutput(before, after) ==
  /\ after.state = "on"
  /\ \/ before.state # "on"
     \/ /\ after.bri # NoValue
        /\ before.bri # NoValue => after.bri - before.bri > Tol

=============================================================================
