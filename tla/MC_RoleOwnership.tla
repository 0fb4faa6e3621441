-------------------------- MODULE MC_RoleOwnership --------------------------
(* Instances of the role for model checking. *)
EXTENDS RoleOwnership

CONSTANTS i1, i2
MCInstance == {i1, i2}
=============================================================================
