-------------------------- MODULE MCAccessDecision --------------------------
(* Instances of AccessDecision for TLC. *)
EXTENDS AccessDecision

CONSTANTS ap, peer, DefaultSsid

TwoNets == {ap, peer}
=============================================================================
