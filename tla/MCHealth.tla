------------------------------ MODULE MCHealth ------------------------------
(* Instances of Health: which targets are GitHub Apps. *)
EXTENDS Health

NoApp     == {}
SecondApp == {2}
FirstApp  == {1}
=============================================================================
