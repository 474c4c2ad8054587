------------------------------ MODULE Handlers ------------------------------
(***************************************************************************)
(* The steps engine.py's handlers share, on the record of one lamp: what   *)
(* is learnt before a set, what a judged change does, and when something   *)
(* has run out.                                                            *)
(***************************************************************************)
EXTENDS Classify

Refusals == {"invalid_request", "priority_required", "priority_conflict"}

Skips == {"skipped_tombstoned", "skipped_absent"}

\* A lamp with no layer and no known base shows its base.
LearnBase(r) ==
  IF /\ r.base = Nothing
     /\ \A i \in Id : ~Present(r.layers, i)
     /\ Available(r)
  THEN RecordObservedAsBase(r, r.observed)
  ELSE r

SeenOff(r) == ReleaseManual(LiftOnOff(r), TRUE)

SeenOffIf(r, off) == IF off THEN SeenOff(r) ELSE r

Showing(r, o) == [r EXCEPT !.observed = o]

\* Someone acted: what the lamp showed before it dropped is out of date.
Supersede(r) == IF Available(r) THEN [r EXCEPT !.atDrop = Away] ELSE r

\* A report judged to be someone's: `_external`.
Judged(r, groups, source, policy, chosen) ==
  SeenOffIf(ApplyExternal(Supersede(r), ObservedToCommand(r.observed), groups,
                          source, policy, chosen),
            r.observed.state = "off")

Shown(r) == IF Available(r) THEN r.observed ELSE r.atDrop

HasExpired(r) ==
  \/ Expired(r) # {}
  \/ \E i \in Id : \/ r.tombs[i] # NoTomb /\ ~LiveTomb(r, i)
                   \/ Present(r.layers, i) /\ r.layers[i].manualLease = "over"

=============================================================================
