---------------------------- MODULE MCAdhocLease ----------------------------
(* Instances of AdhocLease for TLC. *)
EXTENDS AdhocLease, TLC

CONSTANTS c1, c2, s1, d1, d2, a1, a2

TwoClients == {c1, c2}
TwoDomains == {d1, d2}
TwoAddresses == <<a1, a2>>
TxBounds == (c1 :> 3) @@ (c2 :> 1)
OneKeyed == (c1 :> NoMac) @@ (c2 :> d1)

(* Bounds of the exploration: frames on the air at one time, and the second *)
(* terminal only ever enters the first domain, to which it has a key.       *)
FramesOf(c) == Cardinality(requests[c]) + Cardinality(offers[c])
                 + (IF releasing[c] THEN 1 ELSE 0)
AtMostTwoFrames == FramesOf(c1) + FramesOf(c2) <= 2
SecondStaysInFirstDomain == dom[c2] # d2
=============================================================================
