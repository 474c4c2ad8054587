------------------------------ MODULE Classify ------------------------------
(***************************************************************************)
(* The classifier, logic/classify.py: the pure judgements about a change,  *)
(* a foreign call and a lamp that came back.  The windows it measures      *)
(* arrive as conditions of the modules that use it.                        *)
(***************************************************************************)
EXTENDS Policy

Flipped(old, new) == {old.state, new.state} = {"on", "off"}

\* The groups a no-context change changed; Everything where the code says
\* None: every group the lamp shows.
ChangedGroups(before, after) ==
  LET moved ==
        {g \in AttrGroup :
           \/ g = "brightness" /\ before.bri # after.bri
                /\ (before.bri # NoValue /\ after.bri # NoValue
                      => ~Near(before.bri, after.bri))
           \/ g = "color" /\ before.col # after.col}
  IN IF before.state # "on" \/ after.state # "on" \/ moved = {}
     THEN Everything
     ELSE moved \cup {"state"}

\* The groups a known call's state change takes (`named`: those it specified).
CallGroups(named, old, new) ==
  IF Flipped(old, new) \/ named = {} THEN Everything ELSE named \cup {"state"}

\* The attribute groups a report and a call are compared on.
ComparedGroups(obs, call) ==
  {g \in AttrGroup :
     /\ obs.state = "on" /\ call.state = "on"
     /\ \/ g = "brightness" /\ call.bri # NoValue /\ obs.bri # NoValue
        \/ g = "color" /\ call.col # NoValue /\ call.col \notin Uncompared}

\* The lamp is on and shows the call's brightness and colour.
AlreadyShows(obs, cmd) ==
  LET call == Project(Merge(Cmd("on", NoValue, NoValue), cmd, AttrGroup))
  IN ComparedGroups(obs, call) # {} /\ Matches(obs, call) = "yes"

\* The intent path: whether a foreign call that no report may reveal is acted
\* on.  A bare turn_on names no attribute and reveals nothing.
IntentHeard(rec, cmd) ==
  CASE ~Available(rec) -> TRUE
    [] Available(rec) /\ cmd.state = "off" -> rec.observed.state = "off"
    [] Available(rec) /\ cmd.state # "off" -> AlreadyShows(rec.observed, cmd)

\* What to do with a lamp that came back showing `shown`.
DecideReturn(rec, shown) ==
  LET effective == EffectiveNow(rec)
      before == rec.atDrop
      known == before.state # "away"
      lights == RaisesOutput(shown, effective)
  IN CASE shown.state = "away" -> "wait"
       [] shown.state # "away" /\ effective = Nothing -> "record"
       [] shown.state # "away" /\ Matches(shown, Project(effective)) = "yes" -> "nothing"
       [] OTHER ->
            IF known /\ ~Close(shown, before) THEN "external"
            ELSE IF rec.owed = "nothing" /\ rec.diverged \in {"manual_keep", "unsynced"}
                 THEN "nothing"
            ELSE IF \/ StateHolder(rec.layers) # NoId
                    \/ /\ ActiveLayer(rec.base, rec.layers) # NoId
                       /\ shown.state = "on"
                       /\ known \/ ~lights
                    \/ /\ rec.owed # "nothing"
                       /\ ~lights \/ (known /\ rec.owed # "old")
                 THEN "send"
            ELSE "record"

\* The brightness and colour a person chose with a change, for follow layers:
\* what a known call named, nothing for a lamp that just came on, otherwise
\* what moved.  Everything (the code's None) leaves it to the policy.
Chosen(named, before, new) ==
  CASE named # Everything -> named \cap AttrGroup
    [] named = Everything /\ new.state # "on" -> Everything
    [] named = Everything /\ new.state = "on" /\ before.state # "on" -> {}
    [] OTHER -> IF ChangedGroups(before, new) = Everything THEN {}
                ELSE ChangedGroups(before, new) \cap AttrGroup

-----------------------------------------------------------------------------
(* The last command sent to a lamp, by anyone, and the reports it explains *)

\* `from` is the lamp's on/off when it was sent, `open` that its late window is,
\* and `arrived` how long a lamp has shown a command of ours: a while is "held".
LastCommand == [by : {"nobody", "ours", "theirs"}, target : Command,
                from : {"on", "off", "none"}, open : BOOLEAN,
                arrived : {"no", "showing", "held"}]

NoCommandYet == [by |-> "nobody", target |-> Nothing, from |-> "none",
                 open |-> FALSE, arrived |-> "no"]

OnOff(obs) == IF obs.state = "away" THEN "none" ELSE obs.state

Switches(last) ==
  /\ last.target.state # "none" /\ last.from # "none"
  /\ last.from # last.target.state

KeepsState(last) == last.target.state # "none" /\ last.from = last.target.state

\* Someone else's command becomes the last one, unless a flip cannot reverse it
\* and could still reverse the one before.
NoteCommand(prev, last) ==
  IF prev.by # "nobody" /\ Switches(prev) /\ KeepsState(last) /\ prev.open
  THEN prev ELSE last

Distance(a, b) == IF a >= b THEN a - b ELSE b - a

\* Only a brightness is compared: two colours are as far apart as any other two.
Further(old, new, call) ==
  /\ call.bri # NoValue /\ old.bri # NoValue /\ new.bri # NoValue
  /\ Distance(new.bri, call.bri) - Distance(old.bri, call.bri) > Tol

ShowsTarget(obs, cmd) == Matches(obs, Project(cmd)) # "no"

\* The report can be our command landing, or a step of it.
Consistent(old, new, cmd) ==
  ShowsTarget(new, cmd) \/ (new.state = cmd.state /\ ~Further(old, new, Project(cmd)))

\* The lamp kept the command's on/off and got further from it.
MovedAway(old, new, cmd) ==
  /\ cmd.state # "none" /\ ~Flipped(old, new)
  /\ new.state = cmd.state /\ Further(old, new, Project(cmd))

\* A flip back to where the lamp was when its last command was sent.
Late(last, old, new) ==
  /\ last.target.state # "none" /\ last.open
  /\ Flipped(old, new) /\ new.state # last.target.state
  /\ last.from = "none" \/ new.state = last.from

Contradicts(cmd, obs) == cmd.state # "none" /\ obs.state # cmd.state

\* A report with nothing else to explain it is the tail of a change judged just
\* before.
FollowsUp(rec, old, new) ==
  rec.last.policy # "none" /\ rec.last.tail /\ ~Flipped(old, new)

=============================================================================
