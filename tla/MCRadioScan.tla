----------------------------- MODULE MCRadioScan -----------------------------
(* Instances of RadioScan for TLC: three channels, two domains. *)
EXTENDS RadioScan, TLC

CONSTANTS a, c

TwoDomains == {a, c}
ChannelsOfTwo == (a :> 0) @@ (c :> 2)
=============================================================================
