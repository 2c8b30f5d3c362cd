--------------------------- MODULE MCDeployments ---------------------------
(* A deployment of one service to one node with a fault, retries and a tag   *)
(* that moves.                                                               *)
EXTENDS Deployments

CONSTANTS s1, n1

Faulty == {[places |-> {<<s1, n1>>}, gens |-> 2, retries |-> 2, faults |-> 1, tips |-> 2,
            routed |-> FALSE]}
=============================================================================
