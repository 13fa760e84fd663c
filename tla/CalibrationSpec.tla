-------------------------- MODULE CalibrationSpec --------------------------
(***************************************************************************)
(* What the calibration promises to the software and the controller that   *)
(* read PHY_MGR_CAL_STATUS: every group is settled once, lower groups      *)
(* first; then one verdict, success only if every group that is not        *)
(* skipped has been calibrated.  When all groups are calibrated the verdict*)
(* may still be failure, because of the read latency (LFIFO) search.       *)
(***************************************************************************)
EXTENDS Naturals

CONSTANTS NumGroups, SkipGroups

VARIABLES
    status,    \* "RESET", "SUCCESS" or "FAIL"
    result     \* for each group "todo", "ok", "failed" or "skipped"

vars == <<status, result>>

Groups == 0 .. NumGroups - 1

Init ==
    /\ status = "RESET"
    /\ result = [g \in Groups |-> "todo"]

Settle(g) ==
    /\ status = "RESET"
    /\ result[g] = "todo"
    /\ \A h \in 0 .. g - 1 : result[h] # "todo"
    /\ \E r \in IF g \in SkipGroups THEN {"skipped"} ELSE {"ok", "failed"} :
          result' = [result EXCEPT ![g] = r]
    /\ UNCHANGED status

Succeed ==
    /\ status = "RESET"
    /\ \A g \in Groups \ SkipGroups : result[g] = "ok"
    /\ status' = "SUCCESS"
    /\ UNCHANGED result

(* Some group has failed; or all are calibrated and the LFIFO is not.      *)
Fail ==
    /\ status = "RESET"
    /\ \/ \E g \in Groups : result[g] = "failed"
       \/ SkipGroups = {} /\ \A g \in Groups : result[g] = "ok"
    /\ status' = "FAIL"
    /\ UNCHANGED result

Next == Succeed \/ Fail \/ \E g \in Groups : Settle(g)

Spec == Init /\ [][Next]_vars
=============================================================================
