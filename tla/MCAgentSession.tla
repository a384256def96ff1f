--------------------------- MODULE MCAgentSession ---------------------------
(***************************************************************************)
(* AgentSession for TLC: with two probes a connection that a failed probe  *)
(* left behind may still wait in the queue when the next one is made; the  *)
(* call without a deadline is the one that may conclude most.              *)
(***************************************************************************)
EXTENDS AgentSession

CONSTANTS p1, p2, c1, c2

MCProbes == {p1, p2}
MCCalls == {c1, c2}
MCTimed == {c2}
=============================================================================
