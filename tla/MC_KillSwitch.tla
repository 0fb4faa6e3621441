---------------------------- MODULE MC_KillSwitch ----------------------------
(* A small instance of the kill switch: one submission at a time, repeated *)
(* for ever, two halts and a resume.                                       *)
EXTENDS KillSwitch, TLC

==============================================================================
