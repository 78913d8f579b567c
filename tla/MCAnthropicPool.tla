-------------------------- MODULE MCAnthropicPool --------------------------
(* Instances of AnthropicPool for TLC.                                      *)
EXTENDS AnthropicPool
==============================================================================
