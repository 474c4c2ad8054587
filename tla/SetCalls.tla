------------------------------ MODULE SetCalls ------------------------------
(***************************************************************************)
(* A layers.set as the service hands it to the engine, services.py: what   *)
(* it makes of the fields it was given, and what it refuses.               *)
(***************************************************************************)
EXTENDS Handlers

\* A set layer with attributes and no state means "on like this"; a renewal
\* takes the mode of the layer it renews.
Asked(data) ==
  [data EXCEPT !.command =
     IF /\ @.state = "none"
        /\ data.mode = "set"
        /\ data.layer \notin {"base", "active"}
        /\ ~data.onlyIfPresent
     THEN [@ EXCEPT !.state = "on"] ELSE @]

\* What _cross_check lets through.
WellFormed(data) ==
  LET attrs == Groups(data.command) \cap AttrGroup
  IN /\ data.layer \in {"base", "active"} =>
          /\ data.priority = NoPriority /\ data.lease = "none"
          /\ ~data.onlyIfPresent /\ data.mode # "follow"
     /\ IF data.mode = "follow"
        THEN /\ Groups(data.command) = {}
             /\ data.source # NoSource \/ data.onlyIfPresent
        ELSE /\ data.source = NoSource /\ ~data.manualTimeout
             /\ data.mode = "adjust" => data.command.state = "none" /\ attrs # {}
             /\ Groups(data.command) # {}

=============================================================================
