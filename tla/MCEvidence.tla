----------------------------- MODULE MCEvidence -----------------------------
(***************************************************************************)
(* One layer id, no colours and two brightness levels: a lamp can be off,  *)
(* show its layer, or be on and show something else.                       *)
(***************************************************************************)
EXTENDS Evidence

CONSTANTS a, none, noLayer, noTomb, noId, noSource, noPriority, self

MCId == {a}
MCLevel == {1, 2}
MCTakes == [c \in {} |-> c]

On(bri) == Cmd("on", bri, none)

MCSet(cmd, lease) ==
  [layer |-> a, command |-> cmd, priority |-> 1, mode |-> "set", lease |-> lease,
   resume |-> TRUE, render |-> FALSE, onlyIfPresent |-> FALSE, source |-> noSource,
   manualTimeout |-> FALSE]

MCRequests == {MCSet(On(2), "running"), MCSet(OffCommand, "none")}
MCReports == {Cmd("off", none, none), On(1), On(2)}
MCCalls == {OffCommand}
=============================================================================
