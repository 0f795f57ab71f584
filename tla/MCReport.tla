------------------------------- MODULE MCReport ------------------------------
(* The reported run of each instance.                                         *)
EXTENDS MCPlans, RunReport
===============================================================================
