---------------------------- MODULE MCAgentVault ----------------------------
(* Instances of AgentVault for TLC.                                        *)
EXTENDS AgentVault

\* An operator raises a breaker by hand, and lowers it.
BreakByHand == {CircuitBreaker(FALSE), Resume}
=============================================================================
