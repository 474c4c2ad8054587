------------------------------ MODULE MCLamps ------------------------------
(***************************************************************************)
(* Two lamps that are on or off, two layer ids that want the same          *)
(* priority, a vendor's room with one lamp and a light group that lists    *)
(* the other lamp and itself.                                              *)
(***************************************************************************)
EXTENDS Lamps, TLC

CONSTANTS a, b, l1, l2, room, group,
          none, noLayer, noTomb, noId, noSource, noPriority, self

MCId == {a, b}
MCLevel == {1}
MCTakes == [c \in {} |-> c]
MCLamp == {l1, l2}
MCRooms == {room, group}
MCMembers == (room :> <<l1, group>>) @@ (group :> <<l2, group>>)
MCVendor == {room}
MCRank == (l1 :> 1) @@ (l2 :> 2)

On == Cmd("on", none, none)

MCSet(i, cmd, prio) ==
  [layer |-> i, command |-> cmd, priority |-> prio, mode |-> "set", lease |-> "none",
   resume |-> TRUE, render |-> FALSE, onlyIfPresent |-> FALSE, source |-> noSource,
   manualTimeout |-> FALSE]

MCRequests == {MCSet(a, On, 1), MCSet(a, OffCommand, noPriority), MCSet(b, OffCommand, 1), MCSet(b, On, 2)}
MCAims == {{l1, room}}
MCCalls ==
  {[service |-> s, unknown |-> FALSE, bri |-> none, col |-> none] : s \in {"turn_off", "turn_on"}}
MCScenes == {OffCommand}
MCReports == {Cmd("off", none, none), On}
=============================================================================
