------------------------------ MODULE MCMonitors -----------------------------
(* Two apps at the smallest distance that is told apart.                   *)
EXTENDS Monitors

MCTasks == [a \in Apps |-> IF a = "game" THEN 32 ELSE 11]
=============================================================================
