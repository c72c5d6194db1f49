----------------------------- MODULE TestVerdicts -----------------------------
(***************************************************************************)
(* What test.py promises: every job gets one verdict, in any order; a job  *)
(* may be given back without a result once the user has interrupted the    *)
(* run; the run ends with 0 exactly when every job passed or was skipped.  *)
(* A run whose report cannot be written ends early, with 1.                *)
(***************************************************************************)
CONSTANTS Jobs, ToSkip, NoExit, NoVerdict

VARIABLES verdict, interrupted, exit

Results == {"PASS", "FAIL", "VALGR", "CRASH"}
Verdicts == Results \union {"SKIP", "BREAK"}

Init ==
    /\ verdict = [j \in Jobs |-> NoVerdict]
    /\ interrupted = FALSE
    /\ exit = NoExit

Interrupt ==
    /\ interrupted' = TRUE
    /\ UNCHANGED <<verdict, exit>>

Judge(j, v) ==
    /\ exit = NoExit /\ verdict[j] = NoVerdict
    /\ v = "BREAK" => interrupted
    /\ v = "SKIP" => j \in ToSkip
    /\ v \in Results => j \notin ToSkip
    /\ verdict' = [verdict EXCEPT ![j] = v]
    /\ UNCHANGED <<interrupted, exit>>

AllWell == \A j \in Jobs : verdict[j] \in {"PASS", "SKIP"}

Exit ==
    /\ exit = NoExit
    /\ exit' \in {0, 1}
    /\ exit' = 0 <=> AllWell
    /\ UNCHANGED <<verdict, interrupted>>

Next ==
    \/ Interrupt
    \/ \E j \in Jobs, v \in Verdicts : Judge(j, v)
    \/ Exit

Spec == Init /\ [][Next]_<<verdict, interrupted, exit>>
=============================================================================
