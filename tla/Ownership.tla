----------------------------- MODULE Ownership -----------------------------
(***************************************************************************)
(* What Layers promises about who holds one lamp, and nothing else: which  *)
(* layer ids are in force, which of them only follow, and which are barred *)
(* because a person took the lamp back.  LampRecord implements it.         *)
(*                                                                         *)
(* A person takes the lamp from every owner at once, and never from a      *)
(* follow layer; an id that is barred has to be freed, by its lease, its   *)
(* owner's clear or the lamp going off, before it can hold the lamp again. *)
(***************************************************************************)
CONSTANT Id

VARIABLE own

Standing == {"free", "held", "following", "barred"}

TypeOK == own \in [Id -> Standing]

Init == own = [i \in Id |-> "free"]

InForce == {"held", "following"}

\* An owner sets a layer: a free id is taken, one in force may change its kind.
Claim(i) ==
  /\ own[i] # "barred"
  /\ \E kind \in InForce : own' = [own EXCEPT ![i] = kind]

\* Ids are freed: cleared, run out, or no longer barred.
Release(S) == own' = [i \in Id |-> IF i \in S THEN "free" ELSE own[i]]

\* A person takes the lamp: every id that held it is barred, but for the ids
\* whose bar the lamp being off lifts.
TakeBack(lifted) ==
  own' = [i \in Id |->
            IF own[i] \in {"held", "barred"}
            THEN IF i \in lifted THEN "free" ELSE "barred"
            ELSE own[i]]

Next ==
  \/ \E i \in Id : Claim(i)
  \/ \E S \in SUBSET Id : Release(S)
  \/ \E S \in SUBSET Id : TakeBack(S)

Spec == Init /\ [][Next]_own

=============================================================================
