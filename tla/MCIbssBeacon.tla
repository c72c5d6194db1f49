---------------------------- MODULE MCIbssBeacon ----------------------------
(* Instances of IbssBeacon for TLC. *)
EXTENDS IbssBeacon

CONSTANTS s1, s2, s3

TwoStations == {s1, s2}
ThreeStations == {s1, s2, s3}
=============================================================================
