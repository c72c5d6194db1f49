---------------------------- MODULE MCTestRunner ----------------------------
(* Instances of TestRunner for TLC: the workers are interchangeable, but    *)
(* no symmetry is used, as liveness is checked.                             *)
EXTENDS TestRunner

CONSTANTS w1, w2

TwoWorkers == {w1, w2}
FirstSkipped == {1}
LastTwo == {2, 3}
=============================================================================
