------------------------------- MODULE MCSession -------------------------------
(* Two implementers of one wave, each with a module of its own.  The patterns *)
(* of the first match both modules, and the other's is frozen for it; it has  *)
(* a file it must write.  The second module has two more names: an absolute   *)
(* one, and a relative one that the first's patterns match.                   *)
EXTENDS AgentSession, TLC

CONSTANTS api, store, m1, m2, rooted, indirect

MCNames   == {m1, m2, rooted, indirect}
MCDenotes == [n \in MCNames |-> IF n = m1 THEN m1 ELSE m2]
MCAllowed == api :> {m1, m2, indirect} @@ store :> {m2}
MCFrozen  == api :> {m2} @@ store :> {}
MCOutputs == api :> {m1} @@ store :> {}
===============================================================================
