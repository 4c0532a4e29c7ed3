---------------------------- MODULE MCAgentRuns ----------------------------
(***************************************************************************)
(* An instance of AgentRuns for TLC.                                       *)
(***************************************************************************)
EXTENDS AgentRuns, TLC

CONSTANTS p1, p2, p3, i1, i2, i3, n1, n2, n3, r1, r2

\* One thread retrieves, one diagnoses, one asks what no graph answers.
MixedQuestions == (p1 :> "retrieval") @@ (p2 :> "history") @@ (p3 :> "research")
=============================================================================
