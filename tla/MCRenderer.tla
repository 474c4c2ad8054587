----------------------------- MODULE MCRenderer -----------------------------
(* Two commands and two attempts: enough for a render to be superseded,    *)
(* retried, accepted without its colour and given up.                      *)
EXTENDS Renderer

CONSTANTS c1, c2

MCCommand == {c1, c2}
=============================================================================
