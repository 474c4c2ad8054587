---------------------------- MODULE LampDecision ----------------------------
(***************************************************************************)
(* LampRecord with a memory of what a person chose: `decided` is the       *)
(* on/off, `chose` the brightness they last set by hand on a lamp that was *)
(* on.  Each is forgotten when someone with a say acts anew.               *)
(***************************************************************************)
EXTENDS LampRecord

VARIABLES decided, chose

dvars == <<vars, decided, chose>>

DInit == Init /\ decided = "none" /\ chose = NoValue

\* An owner who only keeps a layer alive, or is refused, decides nothing.
OwnerDecides(req) ==
  ApplySet(LearnBase(rec), req).result \notin Skips \cup {"refreshed"}

DOwner ==
  \/ \E req \in Requests :
       /\ SetLayer(req)
       /\ decided' = IF OwnerDecides(req) THEN "none" ELSE decided
       /\ chose' = IF OwnerDecides(req) THEN NoValue ELSE chose
  \/ \E target \in Targets :
       ClearLayer(target) /\ decided' = "none" /\ chose' = NoValue
  \/ Sync /\ UNCHANGED <<decided, chose>>

\* A change decides where the policy it was taken by lets it: not one a
\* reassert answered, one kept to the base, or a replay.
Decided(state) ==
  IF rec'.last.policy \in {"take_back", "edit_active"} THEN state ELSE decided

\* A person turned the lamp on or off, or moved its brightness.
DPerson ==
  \/ \E o \in Reports, before \in Reports, named \in Named \cup {Everything},
        source \in Sources :
       /\ ChangeReported(o, before, named, source)
       /\ decided' = Decided(o.state)
       /\ chose' = IF /\ o.state = "on"
                      /\ Chosen(named, before, o) # Everything
                      /\ "brightness" \in Chosen(named, before, o)
                      /\ "brightness" \in rec'.last.groups
                   THEN o.bri ELSE NoValue
  \/ \E cmd \in Calls, source \in Sources \ {"device"} :
       /\ CallHeard(cmd, source)
       /\ decided' = Decided(cmd.state)
       /\ chose' = cmd.bri
  \/ \E o \in Reports :
       /\ FollowUp(o)
       /\ decided' = Decided(o.state)
       /\ chose' = NoValue
  \/ /\ JudgeReturn
     /\ decided' = IF DecideReturn(rec, rec.observed) \in {"record", "external"}
                   THEN "none" ELSE decided
     /\ chose' = NoValue

\* What nobody with a say did.  An expiry the safety rule holds back makes what
\* the lamp shows its base.  A lamp that is off, and a take-over whose time
\* is over, give the brightness back to the follow layers.
DRest ==
  /\ Surroundings \/ Clock
  /\ decided' = IF ExpireLamp /\ HeldBack(rec, Shown(rec)) THEN "none" ELSE decided
  /\ chose' = IF rec'.observed.state = "off" \/ ExpireLamp THEN NoValue ELSE chose

\* A retry loop's old press is late, but it is in the base.
DReplay == Replay /\ decided' = "none" /\ chose' = NoValue

DNext == DOwner \/ DPerson \/ DRest \/ DReplay

DSpec == DInit /\ [][DNext]_dvars

DTypeOK ==
  /\ TypeOK
  /\ decided \in {"none", "on", "off"}
  /\ chose \in Level \cup {NoValue}

\* Once a person has turned the lamp on or off, nothing but an owner's own act
\* or the lamp's return makes Layers want otherwise: no renewal, no attribute
\* tail, no expiry, no followed entity and no late writer (TakeBack, DropAll,
\* the renewals of SetNamedLayer, DecideReturn).
DecisionHolds ==
  decided # "none" => EffectiveNow(rec).state = decided

\* A brightness a person set by hand is the one Layers wants, whatever the
\* follow layers and their sources give, until the lamp is off, the take-over
\* runs out or an owner acts (TakeOver, Gives).
ChoiceHolds ==
  chose # NoValue => EffectiveNow(rec).bri = chose

\* "An on/off decision also reaches the base, so clearing the layer never
\* undoes it" (apply_external, edit_active).
ClearKeepsDecision ==
  [][/\ decided # "none"
     /\ \E target \in Targets : ClearLayer(target)
     => EffectiveNow(rec').state = decided]_dvars

=============================================================================
