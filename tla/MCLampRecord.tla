---------------------------- MODULE MCLampRecord ----------------------------
(***************************************************************************)
(* Two layer ids and two priorities.  Most runs have two brightness levels *)
(* and no colours, the smallest lamp on which owners can collide and an    *)
(* expiry can brighten; MCPolicies has one id, one level and two colours,  *)
(* on which a person's change can leave part of the lamp showing something *)
(* else.                                                                   *)
(***************************************************************************)
EXTENDS LampRecord

CONSTANTS a, b, s, none, noLayer, noTomb, noId, noSource, noPriority, self, warm, cool

MCLevel == {1, 2}
MCTakes == [c \in {} |-> c]
MCId == {a, b}
MCOneId == {a}

On(bri) == Cmd("on", bri, none)
Attr(bri) == Cmd("none", bri, none)

Req(i, mode, cmd, prio, lease) ==
  [layer |-> i, command |-> cmd, priority |-> prio, mode |-> mode,
   lease |-> lease, resume |-> FALSE, render |-> FALSE, onlyIfPresent |-> FALSE,
   source |-> noSource, manualTimeout |-> FALSE]

Follow(i, prio) ==
  [Req(i, "follow", Nothing, prio, "none") EXCEPT !.source = s]

Renew(i, cmd) == [Req(i, "set", cmd, noPriority, "none") EXCEPT !.onlyIfPresent = TRUE]

MCRequests ==
  { [Req(a, "set", On(2), 1, "running") EXCEPT !.resume = TRUE],
    Req(a, "set", OffCommand, 2, "none"),
    Req(b, "adjust", Attr(1), 2, "running"),
    [Follow(b, 1) EXCEPT !.manualTimeout = TRUE],
    Renew(a, Attr(2)),
    Renew(b, Attr(1)),
    Req("active", "set", OffCommand, noPriority, "none") }

MCTwoSets ==
  { Req(a, "set", On(2), 1, "none"),
    Req(b, "set", On(1), 2, "running") }

MCOffOverOn ==
  { Req(a, "set", On(2), 1, "none"),
    Req(b, "set", OffCommand, 2, "running") }

MCOnAndOff ==
  { [Req(a, "set", On(1), 1, "running") EXCEPT !.resume = TRUE],
    Req(b, "set", OffCommand, 2, "running"),
    Renew(a, Attr(1)) }

MCTargets == {a, "active"}
MCAll == {"all"}

MCReports == {Cmd("off", none, none), On(1), On(2)}
MCCalls == {OffCommand, On(1)}
MCFewCalls == {OffCommand}
MCTwoFeeds == {Attr(1), Attr(2), Away}
MCFewFeeds == {Attr(1)}

MCOneLevel == {1}
MCOnOffReports == {Cmd("off", none, none), On(1)}
MCTakesAll == [c \in {warm, cool} |-> c]

Coloured(state, col) == Cmd(state, none, col)

MCColourOne ==
  { [Req(a, "set", Coloured("on", warm), 1, "running") EXCEPT !.resume = TRUE],
    Req(a, "adjust", Coloured("none", cool), 2, "none"),
    Renew(a, Coloured("none", cool)) }

MCColourReports ==
  {Cmd("off", none, none), Coloured("on", warm), Cmd("on", 1, cool)}
MCColourCalls == {OffCommand, Coloured("on", cool)}
MCColourFeeds == {}
=============================================================================
