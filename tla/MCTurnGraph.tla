---------------------------- MODULE MCTurnGraph ----------------------------
(* Three iterations (two rounds of tools and the cap), and the two tools    *)
(* whose success the graph's state records.                                 *)
EXTENDS TurnGraph

MCTools == {"escalate_to_human", "capture_lead"}
MCEnabled == MCTools
MCFacts == {"email"}
=============================================================================
