--------------------------- MODULE MCAgentRuntime --------------------------
(* Small instances of AgentRuntime for TLC.                                *)
EXTENDS AgentRuntime, TLC

CONSTANTS s1, s2, r1, r2, none

OneStartup == {s1}
TwoStartups == {s1, s2}
OneRun == {r1}
TwoRuns == {r1, r2}
NoRuns == {}
=============================================================================
