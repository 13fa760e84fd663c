------------------------ MODULE Calibration_proofs -------------------------
(***************************************************************************)
(* Proofs about Calibration, for every number of groups, every size of the *)
(* delay chains and every read latency.                                    *)
(***************************************************************************)
EXTENDS Calibration, TLAPS

(* Where a group is being calibrated.                                      *)
InVfifo == pc \in {"guaranteed", "sweep", "center"}
InGroup == InVfifo \/ pc \in {"writes", "vfifo_end"}

LoopBounds ==
    /\ InGroup => group \in Groups \ SkipGroups
    /\ pc \in {"sweep", "center"} => d <= DtapsPerPtap /\ dqsInDtaps <= DqsInMax

(* The types, and what bounds the counters: where the retry loops are.     *)
TypeInv == TypeOK /\ LoopBounds

USE SizeAssumption, LatencyAssumption, DebugAssumption

-----------------------------------------------------------------------------
(* The initial state of run_mem_calibrate is well typed.                   *)
LEMMA InitTyped == Init => TypeInv
<1> USE DEF Init, Groups
<1>1. Init => pc \in Locations /\ LoopsTyped
  BY DEF Locations, LoopsTyped, Substages
<1>2. Init => DelaysTyped
  BY DEF DelaysTyped
<1>3. Init => ReportsTyped
  BY DEF ReportsTyped, Report, Stages, Substages, NoError, Cleared, NoGroup
<1>4. Init => VerdictTyped
  BY DEF VerdictTyped
<1> QED
  BY <1>1, <1>2, <1>3, <1>4 DEF TypeInv, TypeOK, LoopBounds, InGroup, InVfifo

(* Recording a failure leaves a report, whoever records it.                *)
LEMMA SetFailingTyped ==
    ASSUME NEW e \in Report, NEW g \in Nat, NEW s \in Stages,
           NEW ss \in Substages
    PROVE  /\ SetFailingGroupStage(e, g, s, ss) \in Report
           /\ s # "NIL" => SetFailingGroupStage(e, g, s, ss).stage # "NIL"
  BY DEF SetFailingGroupStage, Report

(* A bit of a group has a number.                                          *)
LEMMA BitIndexTyped ==
    ASSUME group \in Nat, NEW i \in 0 .. DqPerDqs - 1
    PROVE  BitIndex(i) \in Nat
<1>1. group * DqPerDqs \in Nat
  BY SMT
<1> QED
  BY <1>1 DEF BitIndex

(* So does the failure of the VFIFO stage, whatever substage it stopped in.*)
LEMMA VfifoErrorTyped == TypeOK /\ VfifoFails => error' \in Report
<1> SUFFICES ASSUME TypeOK, VfifoFails PROVE error' \in Report
  OBVIOUS
<1>1. group \in Nat /\ "VFIFO" \in Stages
  BY DEF TypeOK, LoopsTyped, Stages
<1>2. failedSubstage \in Substages /\ error \in Report
  BY DEF TypeOK, LoopsTyped, ReportsTyped
<1>3. error' = SetFailingGroupStage(error, group, "VFIFO", failedSubstage)
  BY DEF VfifoFails
<1> QED
  BY <1>1, <1>2, <1>3, SetFailingTyped

(* A step of the sequencer keeps the types and the bounds of the loops.    *)
LEMMA NextTyped == TypeInv /\ [Next]_vars => TypeInv'
<1> SUFFICES ASSUME TypeInv, [Next]_vars PROVE TypeInv'
  OBVIOUS
<1> USE DEF TypeInv, TypeOK, LoopBounds, InGroup, InVfifo, Groups, Locations, LoopsTyped,
            Substages, statusVars, searchVars, delayVars, latVars, reportVars,
            groupVars, endVars
<1>1. CASE StopTracking
  BY <1>1 DEF StopTracking, DelaysTyped, ReportsTyped,
     VerdictTyped
<1>2. CASE Initialize
  BY <1>2 DEF Initialize, DelaysTyped, ReportsTyped,
     VerdictTyped
<1>3. CASE MemConfig
  <2> USE <1>3 DEF MemConfig
  <2>1. currReadLat' \in Nat /\ phyRlat' \in Nat
    BY DEF InitialReadLat
  <2> QED
    BY <2>1 DEF NoError, NoGroup, DelaysTyped, ReportsTyped,
       VerdictTyped, Report, Stages
<1>4. CASE SkipGroup
  BY <1>4 DEF SkipGroup, DelaysTyped, ReportsTyped,
     VerdictTyped
<1>5. CASE StartGroup
  <2> USE <1>5 DEF StartGroup
  <2>1. curStage' \in Report
    BY DEF ReportsTyped, Report, Stages, RegFileStageGroup
  <2> QED
    BY <2>1 DEF DelaysTyped, ReportsTyped, VerdictTyped
<1>6. CASE GuaranteedReadFails
  BY <1>6 DEF GuaranteedReadFails, ApplyGroupAllOutDelayAdd, DelaysTyped, ReportsTyped,
     VerdictTyped
<1>7. CASE GuaranteedReadPasses
  BY <1>7 DEF GuaranteedReadPasses, ApplyGroupAllOutDelayAdd, DelaysTyped, ReportsTyped,
     VerdictTyped
<1>8. CASE FindDqsEnPhaseFails
  <2> USE <1>8 DEF FindDqsEnPhaseFails, NextDqsInDtap
  <2>1. curStage' \in Report
    BY DEF ReportsTyped, Report, Stages, RegFileSubstage
  <2>2. DelaysTyped'
    BY DEF DelaysTyped
  <2>3. VerdictTyped'
    BY DEF VerdictTyped
  <2> QED
    BY <2>1, <2>2, <2>3 DEF ReportsTyped
<1>9. CASE FindDqsEnPhaseSucceeds
  <2> USE <1>9 DEF FindDqsEnPhaseSucceeds
  <2>1. curStage' \in Report
    BY DEF ReportsTyped, Report, Stages, RegFileSubstage
  <2> QED
    BY <2>1 DEF DelaysTyped, ReportsTyped, VerdictTyped
<1>10. CASE ReadCenterPasses
  BY <1>10 DEF ReadCenterPasses, DelaysTyped, ReportsTyped,
     VerdictTyped
<1>11. CASE ReadCenterOffCenter
  <2> USE <1>11 DEF ReadCenterOffCenter, NextDqsInDtap
  <2>1. pc' \in Locations /\ LoopsTyped' /\ LoopBounds'
    OBVIOUS
  <2>2. DelaysTyped'
    BY DEF DelaysTyped
  <2>3. VerdictTyped'
    BY DEF VerdictTyped
  <2> QED
    BY <2>1, <2>2, <2>3 DEF ReportsTyped
<1>12. CASE ReadCenterNoWindow
  <2> USE <1>12 DEF ReadCenterNoWindow, NextDqsInDtap
  <2>1. error' \in Report
    BY SetFailingTyped, BitIndexTyped DEF ReportsTyped, Stages, NoGroup
  <2>2. pc' \in Locations /\ LoopsTyped' /\ LoopBounds'
    OBVIOUS
  <2>3. DelaysTyped'
    BY DEF DelaysTyped
  <2>4. VerdictTyped'
    BY DEF VerdictTyped
  <2> QED
    BY <2>1, <2>2, <2>3, <2>4 DEF ReportsTyped
<1>13. CASE VfifoFails
  <2> USE <1>13 DEF VfifoFails, GroupFails
  <2>1. error' \in Report
    BY VfifoErrorTyped
  <2>2. pc' \in Locations /\ LoopsTyped' /\ LoopBounds'
    OBVIOUS
  <2>3. DelaysTyped'
    BY DEF DelaysTyped
  <2>4. VerdictTyped'
    BY DEF VerdictTyped
  <2> QED
    BY <2>1, <2>2, <2>3, <2>4 DEF ReportsTyped
<1>14. CASE WritesPass
  <2> USE <1>14 DEF WritesPass
  <2>1. curStage' \in Report
    BY DEF ReportsTyped, Report, Stages, WritesReport, RegFileStageGroup
  <2> QED
    BY <2>1 DEF DelaysTyped, ReportsTyped, VerdictTyped
<1>15. CASE WritesOffCenter
  <2> USE <1>15 DEF WritesOffCenter, GroupFails
  <2>1. error' \in Report
    BY SetFailingTyped, BitIndexTyped DEF ReportsTyped, Stages, NoGroup
  <2>2. curStage' \in Report
    BY DEF ReportsTyped, Report, Stages, WritesReport, RegFileStageGroup
  <2>3. DelaysTyped'
    BY DEF DelaysTyped
  <2>4. VerdictTyped'
    BY DEF VerdictTyped
  <2> QED
    BY <2>1, <2>2, <2>3, <2>4 DEF ReportsTyped
<1>16. CASE WritesNoWindow
  <2> USE <1>16 DEF WritesNoWindow, GroupFails
  <2>1. error' \in Report
    BY SetFailingTyped, BitIndexTyped DEF ReportsTyped, Stages, NoGroup
  <2>2. curStage' \in Report
    BY DEF ReportsTyped, Report, Stages, WritesReport, RegFileStageGroup
  <2>3. pc' \in Locations /\ LoopsTyped' /\ LoopBounds'
    OBVIOUS
  <2>4. DelaysTyped'
    BY DEF DelaysTyped
  <2>5. VerdictTyped'
    BY DEF VerdictTyped
  <2> QED
    BY <2>1, <2>2, <2>3, <2>4, <2>5 DEF ReportsTyped
<1>17. CASE VfifoEndPasses
  <2> USE <1>17 DEF VfifoEndPasses
  <2>1. curStage' \in Report
    BY DEF ReportsTyped, Report, Stages, VfifoEndReport, RegFileStageGroup
  <2> QED
    BY <2>1 DEF DelaysTyped, ReportsTyped, VerdictTyped
<1>18. CASE VfifoEndOffCenter
  <2> USE <1>18 DEF VfifoEndOffCenter, GroupFails
  <2>1. error' \in Report
    BY SetFailingTyped, BitIndexTyped DEF ReportsTyped, Stages, NoGroup
  <2>2. curStage' \in Report
    BY DEF ReportsTyped, Report, Stages, VfifoEndReport, RegFileStageGroup
  <2>3. pc' \in Locations /\ LoopsTyped' /\ LoopBounds'
    OBVIOUS
  <2>4. DelaysTyped'
    BY DEF DelaysTyped
  <2>5. VerdictTyped'
    BY DEF VerdictTyped
  <2> QED
    BY <2>1, <2>2, <2>3, <2>4, <2>5 DEF ReportsTyped
<1>19. CASE VfifoEndNoWindow
  <2> USE <1>19 DEF VfifoEndNoWindow, GroupFails
  <2>1. error' \in Report
    BY SetFailingTyped, BitIndexTyped DEF ReportsTyped, Stages, NoGroup
  <2>2. curStage' \in Report
    BY DEF ReportsTyped, Report, Stages, VfifoEndReport, RegFileStageGroup
  <2>3. pc' \in Locations /\ LoopsTyped' /\ LoopBounds'
    OBVIOUS
  <2>4. DelaysTyped'
    BY DEF DelaysTyped
  <2>5. VerdictTyped'
    BY DEF VerdictTyped
  <2> QED
    BY <2>1, <2>2, <2>3, <2>4, <2>5 DEF ReportsTyped
<1>20. CASE ReportFailingGroups
  BY <1>20 DEF ReportFailingGroups, DelaysTyped, ReportsTyped,
     VerdictTyped
<1>21. CASE LeaveLatency
  BY <1>21 DEF LeaveLatency, DelaysTyped, ReportsTyped,
     VerdictTyped
<1>22. CASE StartLfifo
  <2> USE <1>22 DEF StartLfifo
  <2>1. curStage' \in Report
    BY DEF ReportsTyped, Report, Stages, RegFileStage
  <2> QED
    BY <2>1 DEF DelaysTyped, ReportsTyped, VerdictTyped
<1>23. CASE LfifoTestPasses
  <2> USE <1>23 DEF LfifoTestPasses, LfifoFound
  <2>1. /\ goodLats' \subseteq Nat /\ foundOne' \in {0, 1} /\ pass' \in {0, 1}
        /\ currReadLat' \in Nat /\ phyRlat' \in Nat
    BY DEF VerdictTyped
  <2>2. DelaysTyped' /\ ReportsTyped'
    BY DEF DelaysTyped, ReportsTyped
  <2>3. VerdictTyped'
    BY <2>1 DEF VerdictTyped
  <2>4. LoopsTyped' /\ LoopBounds' /\ pc' \in Locations
    OBVIOUS
  <2> QED
    BY <2>2, <2>3, <2>4
<1>24. CASE LfifoTestFails
  BY <1>24 DEF LfifoTestFails, LfifoFound, DelaysTyped, ReportsTyped,
     VerdictTyped
<1>25. CASE LfifoFails
  <2> USE <1>25 DEF LfifoFails
  <2>1. error' \in Report
    BY SetFailingTyped, BitIndexTyped DEF ReportsTyped, Stages, NoGroup
  <2> QED
    BY <2>1 DEF DelaysTyped, ReportsTyped, VerdictTyped
<1>26. CASE Handoff
  BY <1>26 DEF Handoff, DelaysTyped, ReportsTyped,
     VerdictTyped
<1>27. CASE ResumeTracking
  BY <1>27 DEF ResumeTracking, DelaysTyped, ReportsTyped,
     VerdictTyped
<1>28. CASE PublishSuccess
  BY <1>28 DEF PublishSuccess, DelaysTyped, ReportsTyped,
     VerdictTyped
<1>29. CASE PublishFailure
  BY <1>29 DEF PublishFailure, DelaysTyped, ReportsTyped,
     VerdictTyped
<1>30. CASE UNCHANGED vars
  BY <1>30 DEF vars, LoopBounds, DelaysTyped, ReportsTyped, VerdictTyped
<1> QED
  BY <1>1, <1>2, <1>3, <1>4, <1>5, <1>6, <1>7, <1>8, <1>9, <1>10, <1>11,
     <1>12, <1>13, <1>14, <1>15, <1>16, <1>17, <1>18, <1>19, <1>20, <1>21,
     <1>22, <1>23, <1>24, <1>25, <1>26, <1>27, <1>28, <1>29, <1>30
     DEF Next, CalibrateVfifo, CalibrateWrites, VfifoEnd, CalibrateLfifo

(* Type correctness: no retry leaves a delay chain or loses a report.      *)
THEOREM TypeCorrect == Spec => [](TypeOK /\ LoopBounds)
<1>1. TypeInv <=> TypeOK /\ LoopBounds
  BY DEF TypeInv
<1> QED
  BY InitTyped, NextTyped, <1>1, PTL DEF Spec

-----------------------------------------------------------------------------
(***************************************************************************)
(* The control flow: what has been settled where mem_calibrate is, and     *)
(* what its return value stands for.                                       *)
(***************************************************************************)
BeforeGroups == pc \in {"start", "initialize", "config"}
AmongGroups  == BeforeGroups \/ pc = "group" \/ InGroup
AllCalibrated == \A g \in Groups \ SkipGroups : result[g] = "ok"
SomeFailed == \E g \in Groups : result[g] = "failed"
LfifoReached == SkipGroups = {} /\ \A g \in Groups : result[g] = "ok"
FailureExplained == error.stage # "NIL" /\ (SomeFailed \/ LfifoReached)

GroupsInv ==
    /\ \A g \in Groups :
          /\ result[g] = "skipped" => g \in SkipGroups
          /\ result[g] \in {"ok", "failed"} => g \notin SkipGroups
    /\ BeforeGroups => group = 0 /\ failingGroups = 0
    /\ AmongGroups =>
          /\ \A g \in Groups : result[g] = "todo" <=> g >= group
          /\ failingGroups = 0 => ~SomeFailed
    /\ failingGroups # 0 => SomeFailed /\ error.stage # "NIL"

VerdictInv ==
    /\ pc # "done" => calStatus = "RESET"
    /\ pc = "lfifo" => LfifoReached
    /\ pc \in {"handoff", "resume", "publish"} =>
          IF pass = 1 THEN AllCalibrated ELSE FailureExplained
    /\ calStatus = "SUCCESS" => AllCalibrated
    /\ calStatus = "FAIL" => failingStage.stage # "NIL"

FlowInv == GroupsInv /\ VerdictInv

(* No group has been settled when the calibration starts.                  *)
LEMMA InitFlow == Init => FlowInv
  BY DEF Init, FlowInv, GroupsInv, VerdictInv, BeforeGroups, AmongGroups,
         InGroup, InVfifo, SomeFailed, Groups

(* Once a failure has been recorded some stage is on record.               *)
LEMMA SetFailingRecords ==
    ASSUME NEW e, NEW g, NEW s, NEW ss, s # "NIL"
    PROVE  SetFailingGroupStage(e, g, s, ss).stage # "NIL"
  BY DEF SetFailingGroupStage

(* A failing group is settled, counted or the end of the run, and recorded.*)
LEMMA GroupFailsFlow ==
    ASSUME TypeInv, FlowInv, InGroup \/ pc = "guaranteed", GroupFails,
           error'.stage # "NIL", UNCHANGED calStatus
    PROVE  FlowInv'
<1> USE DEF TypeInv, TypeOK, LoopBounds, LoopsTyped, VerdictTyped, InGroup,
            InVfifo, Groups, Locations, FlowInv, AmongGroups, BeforeGroups,
            SomeFailed, GroupFails
<1>1. group \in Groups /\ group \notin SkipGroups /\ AmongGroups
  OBVIOUS
<1>2. result'[group] = "failed"
      /\ \A g \in Groups : g # group => result'[g] = result[g]
  BY <1>1
<1>3. GroupsInv'
  BY <1>1, <1>2 DEF GroupsInv
<1>4. VerdictInv'
  BY <1>1, <1>2 DEF GroupsInv, VerdictInv, FailureExplained
<1> QED
  BY <1>3, <1>4

(* At the end of the loop, if no group has failed all that matter are done. *)
LEMMA AllGroupsSettled ==
    ASSUME TypeInv, FlowInv, pc = "group", group = NumGroups,
           failingGroups = 0
    PROVE  AllCalibrated /\ (SkipGroups = {} => LfifoReached)
<1>1. \A g \in Groups : result[g] \in {"todo", "ok", "failed", "skipped"}
  BY DEF TypeInv, TypeOK, VerdictTyped
<1>2. \A g \in Groups : ~(g >= group)
  BY DEF Groups
<1>3. \A g \in Groups : result[g] \notin {"todo", "failed"}
  BY <1>2 DEF FlowInv, GroupsInv, AmongGroups, SomeFailed
<1>4. \A g \in Groups : result[g] = "skipped" => g \in SkipGroups
  BY DEF FlowInv, GroupsInv
<1>5. \A g \in Groups \ SkipGroups : result[g] = "ok"
  BY <1>1, <1>3, <1>4
<1> QED
  BY <1>5 DEF AllCalibrated, LfifoReached

(* Every step keeps the account of groups and failures.                    *)
LEMMA NextFlow == TypeInv /\ FlowInv /\ [Next]_vars => FlowInv'
<1> SUFFICES ASSUME TypeInv, FlowInv, [Next]_vars PROVE FlowInv'
  OBVIOUS
<1> USE DEF TypeInv, TypeOK, LoopBounds, LoopsTyped, VerdictTyped, InGroup,
            InVfifo, Groups, Locations, FlowInv, GroupsInv, VerdictInv,
            AmongGroups, BeforeGroups, AllCalibrated, SomeFailed, LfifoReached,
            FailureExplained, statusVars, searchVars, delayVars, latVars,
            reportVars, groupVars, endVars
<1>1. CASE StopTracking
  BY <1>1 DEF StopTracking
<1>2. CASE Initialize
  BY <1>2 DEF Initialize
<1>3. CASE MemConfig
  BY <1>3 DEF MemConfig
<1>4. CASE SkipGroup
  BY <1>4 DEF SkipGroup
<1>5. CASE StartGroup
  BY <1>5 DEF StartGroup
<1>6. CASE GuaranteedReadFails
  BY <1>6 DEF GuaranteedReadFails
<1>7. CASE GuaranteedReadPasses
  BY <1>7 DEF GuaranteedReadPasses
<1>8. CASE FindDqsEnPhaseFails
  BY <1>8 DEF FindDqsEnPhaseFails, NextDqsInDtap
<1>9. CASE FindDqsEnPhaseSucceeds
  BY <1>9 DEF FindDqsEnPhaseSucceeds
<1>10. CASE ReadCenterPasses
  BY <1>10 DEF ReadCenterPasses
<1>11. CASE ReadCenterOffCenter
  BY <1>11 DEF ReadCenterOffCenter, NextDqsInDtap
<1>12. CASE ReadCenterNoWindow
  <2>1. error'.stage # "NIL"
    BY <1>12, SetFailingRecords DEF ReadCenterNoWindow
  <2> QED
    BY <1>12, <2>1 DEF ReadCenterNoWindow, NextDqsInDtap
<1>13. CASE VfifoFails
  <2>1. error'.stage # "NIL"
    BY <1>13, SetFailingRecords DEF VfifoFails
  <2> QED
    BY <1>13, <2>1, GroupFailsFlow DEF VfifoFails
<1>14. CASE WritesPass
  BY <1>14 DEF WritesPass
<1>15. CASE WritesOffCenter
  <2>1. error'.stage # "NIL"
    BY <1>15, SetFailingRecords DEF WritesOffCenter
  <2> QED
    BY <1>15, <2>1, GroupFailsFlow DEF WritesOffCenter
<1>16. CASE WritesNoWindow
  <2>1. error'.stage # "NIL"
    BY <1>16, SetFailingRecords DEF WritesNoWindow
  <2> QED
    BY <1>16, <2>1, GroupFailsFlow DEF WritesNoWindow
<1>17. CASE VfifoEndPasses
  BY <1>17 DEF VfifoEndPasses
<1>18. CASE VfifoEndOffCenter
  <2>1. error'.stage # "NIL"
    BY <1>18, SetFailingRecords DEF VfifoEndOffCenter
  <2> QED
    BY <1>18, <2>1, GroupFailsFlow DEF VfifoEndOffCenter
<1>19. CASE VfifoEndNoWindow
  <2>1. error'.stage # "NIL"
    BY <1>19, SetFailingRecords DEF VfifoEndNoWindow
  <2> QED
    BY <1>19, <2>1, GroupFailsFlow DEF VfifoEndNoWindow
<1>20. CASE ReportFailingGroups
  BY <1>20 DEF ReportFailingGroups
<1>21. CASE LeaveLatency
  <2>1. AllCalibrated
    BY <1>21, AllGroupsSettled DEF LeaveLatency
  <2> QED
    BY <1>21, <2>1 DEF LeaveLatency
<1>22. CASE StartLfifo
  <2>1. LfifoReached
    BY <1>22, AllGroupsSettled DEF StartLfifo
  <2> QED
    BY <1>22, <2>1 DEF StartLfifo
<1>23. CASE LfifoTestPasses
  BY <1>23 DEF LfifoTestPasses, LfifoFound
<1>24. CASE LfifoTestFails
  BY <1>24 DEF LfifoTestFails, LfifoFound
<1>25. CASE LfifoFails
  <2>1. error'.stage # "NIL"
    BY <1>25, SetFailingRecords DEF LfifoFails
  <2> QED
    BY <1>25, <2>1 DEF LfifoFails
<1>26. CASE Handoff
  BY <1>26 DEF Handoff
<1>27. CASE ResumeTracking
  BY <1>27 DEF ResumeTracking
<1>28. CASE PublishSuccess
  BY <1>28 DEF PublishSuccess
<1>29. CASE PublishFailure
  BY <1>29 DEF PublishFailure
<1>30. CASE UNCHANGED vars
  BY <1>30 DEF vars
<1> QED
  BY <1>1, <1>2, <1>3, <1>4, <1>5, <1>6, <1>7, <1>8, <1>9, <1>10, <1>11,
     <1>12, <1>13, <1>14, <1>15, <1>16, <1>17, <1>18, <1>19, <1>20, <1>21,
     <1>22, <1>23, <1>24, <1>25, <1>26, <1>27, <1>28, <1>29, <1>30
     DEF Next, CalibrateVfifo, CalibrateWrites, VfifoEnd, CalibrateLfifo

(* The verdict: success is published only when every group that is not     *)
(* skipped went through all the stages.                                    *)
THEOREM SuccessIsEarned == Spec => []SuccessMeansCalibrated
<1>1. FlowInv => SuccessMeansCalibrated
  BY DEF FlowInv, VerdictInv, AllCalibrated, SuccessMeansCalibrated
<1> QED
  BY InitTyped, NextTyped, InitFlow, NextFlow, <1>1, PTL DEF Spec

(* A published failure names the stage it comes from.                      *)
THEOREM FailureIsExplained == Spec => []FailureHasCause
<1>1. FlowInv => FailureHasCause
  BY DEF FlowInv, VerdictInv, FailureHasCause
<1> QED
  BY InitTyped, NextTyped, InitFlow, NextFlow, <1>1, PTL DEF Spec

-----------------------------------------------------------------------------
(***************************************************************************)
(* The output delays: as long as the VFIFO stage is at its first output    *)
(* delay the group still has the reserve, and it has it again before the   *)
(* writes.                                                                 *)
(***************************************************************************)
DelayInv ==
    /\ InVfifo /\ d = 0 => dqsOut[group] = DqsOutReserve
    /\ pc = "writes" => dqsOut[group] = DqsOutReserve

(* No group is in hand before the calibration starts.                      *)
LEMMA InitDelay == Init => DelayInv
  BY DEF Init, DelayInv, InVfifo

(* Every step keeps the account of the group's output delay.               *)
LEMMA NextDelay == TypeInv /\ DelayInv /\ [Next]_vars => DelayInv'
<1> SUFFICES ASSUME TypeInv, DelayInv, [Next]_vars PROVE DelayInv'
  OBVIOUS
<1> USE DEF TypeInv, TypeOK, LoopBounds, LoopsTyped, DelaysTyped, InGroup,
            InVfifo, Groups, DelayInv, statusVars, searchVars, delayVars, latVars,
            reportVars, groupVars, endVars
<1>1. CASE StopTracking
  BY <1>1 DEF StopTracking
<1>2. CASE Initialize
  BY <1>2 DEF Initialize
<1>3. CASE MemConfig
  BY <1>3 DEF MemConfig
<1>4. CASE SkipGroup
  BY <1>4 DEF SkipGroup
<1>5. CASE StartGroup
  BY <1>5 DEF StartGroup
<1>6. CASE GuaranteedReadFails
  BY <1>6 DEF GuaranteedReadFails, ApplyGroupAllOutDelayAdd
<1>7. CASE GuaranteedReadPasses
  BY <1>7 DEF GuaranteedReadPasses, ApplyGroupAllOutDelayAdd
<1>8. CASE FindDqsEnPhaseFails
  BY <1>8 DEF FindDqsEnPhaseFails, NextDqsInDtap
<1>9. CASE FindDqsEnPhaseSucceeds
  BY <1>9 DEF FindDqsEnPhaseSucceeds
<1>10. CASE ReadCenterPasses
  BY <1>10 DEF ReadCenterPasses
<1>11. CASE ReadCenterOffCenter
  BY <1>11 DEF ReadCenterOffCenter, NextDqsInDtap
<1>12. CASE ReadCenterNoWindow
  BY <1>12 DEF ReadCenterNoWindow, NextDqsInDtap
<1>13. CASE VfifoFails
  BY <1>13 DEF VfifoFails, GroupFails
<1>14. CASE WritesPass
  BY <1>14 DEF WritesPass
<1>15. CASE WritesOffCenter
  BY <1>15 DEF WritesOffCenter, GroupFails
<1>16. CASE WritesNoWindow
  BY <1>16 DEF WritesNoWindow, GroupFails
<1>17. CASE VfifoEndPasses
  BY <1>17 DEF VfifoEndPasses
<1>18. CASE VfifoEndOffCenter
  BY <1>18 DEF VfifoEndOffCenter, GroupFails
<1>19. CASE VfifoEndNoWindow
  BY <1>19 DEF VfifoEndNoWindow, GroupFails
<1>20. CASE ReportFailingGroups
  BY <1>20 DEF ReportFailingGroups
<1>21. CASE LeaveLatency
  BY <1>21 DEF LeaveLatency
<1>22. CASE StartLfifo
  BY <1>22 DEF StartLfifo
<1>23. CASE LfifoTestPasses
  BY <1>23 DEF LfifoTestPasses, LfifoFound
<1>24. CASE LfifoTestFails
  BY <1>24 DEF LfifoTestFails, LfifoFound
<1>25. CASE LfifoFails
  BY <1>25 DEF LfifoFails
<1>26. CASE Handoff
  BY <1>26 DEF Handoff
<1>27. CASE ResumeTracking
  BY <1>27 DEF ResumeTracking
<1>28. CASE PublishSuccess
  BY <1>28 DEF PublishSuccess
<1>29. CASE PublishFailure
  BY <1>29 DEF PublishFailure
<1>30. CASE UNCHANGED vars
  BY <1>30 DEF vars
<1> QED
  BY <1>1, <1>2, <1>3, <1>4, <1>5, <1>6, <1>7, <1>8, <1>9, <1>10, <1>11,
     <1>12, <1>13, <1>14, <1>15, <1>16, <1>17, <1>18, <1>19, <1>20, <1>21,
     <1>22, <1>23, <1>24, <1>25, <1>26, <1>27, <1>28, <1>29, <1>30
     DEF Next, CalibrateVfifo, CalibrateWrites, VfifoEnd, CalibrateLfifo

(* The write deskew starts from the reserve.                               *)
THEOREM WritesStartFromReserve == Spec => []OutputsRestored
<1>1. DelayInv => OutputsRestored
  BY DEF DelayInv, OutputsRestored
<1> QED
  BY InitTyped, NextTyped, InitDelay, NextDelay, <1>1, PTL DEF Spec

-----------------------------------------------------------------------------
(***************************************************************************)
(* Who owns the PHY: tracking is off from the first step to the last but   *)
(* one, and the memory is handed over before.                              *)
(***************************************************************************)
OwnerInv ==
    /\ pc \notin {"start", "publish", "done"} => tracking = 0
    /\ pc \in {"resume", "publish", "done"} /\ "IN_DEBUG_MODE" \notin DebugFlags
          => muxSel = "AFI"
    /\ pc \in {"publish", "done"} => tracking = ctrlcfg
    /\ pc # "done" => calStatus = "RESET"

(* The sequencer has not taken the memory yet.                             *)
LEMMA InitOwner == Init => OwnerInv
  BY DEF Init, OwnerInv

(* Every step keeps the account of tracking and of the multiplexer.        *)
LEMMA NextOwner == OwnerInv /\ [Next]_vars => OwnerInv'
<1> SUFFICES ASSUME OwnerInv, [Next]_vars PROVE OwnerInv'
  OBVIOUS
<1> USE DEF OwnerInv, statusVars, searchVars, delayVars, latVars,
            reportVars, groupVars, endVars
<1>1. CASE StopTracking
  BY <1>1 DEF StopTracking
<1>2. CASE Initialize
  BY <1>2 DEF Initialize
<1>3. CASE MemConfig
  BY <1>3 DEF MemConfig
<1>4. CASE SkipGroup
  BY <1>4 DEF SkipGroup
<1>5. CASE StartGroup
  BY <1>5 DEF StartGroup
<1>6. CASE GuaranteedReadFails
  BY <1>6 DEF GuaranteedReadFails
<1>7. CASE GuaranteedReadPasses
  BY <1>7 DEF GuaranteedReadPasses
<1>8. CASE FindDqsEnPhaseFails
  BY <1>8 DEF FindDqsEnPhaseFails, NextDqsInDtap
<1>9. CASE FindDqsEnPhaseSucceeds
  BY <1>9 DEF FindDqsEnPhaseSucceeds
<1>10. CASE ReadCenterPasses
  BY <1>10 DEF ReadCenterPasses
<1>11. CASE ReadCenterOffCenter
  BY <1>11 DEF ReadCenterOffCenter, NextDqsInDtap
<1>12. CASE ReadCenterNoWindow
  BY <1>12 DEF ReadCenterNoWindow, NextDqsInDtap
<1>13. CASE VfifoFails
  BY <1>13 DEF VfifoFails, GroupFails
<1>14. CASE WritesPass
  BY <1>14 DEF WritesPass
<1>15. CASE WritesOffCenter
  BY <1>15 DEF WritesOffCenter, GroupFails
<1>16. CASE WritesNoWindow
  BY <1>16 DEF WritesNoWindow, GroupFails
<1>17. CASE VfifoEndPasses
  BY <1>17 DEF VfifoEndPasses
<1>18. CASE VfifoEndOffCenter
  BY <1>18 DEF VfifoEndOffCenter, GroupFails
<1>19. CASE VfifoEndNoWindow
  BY <1>19 DEF VfifoEndNoWindow, GroupFails
<1>20. CASE ReportFailingGroups
  BY <1>20 DEF ReportFailingGroups
<1>21. CASE LeaveLatency
  BY <1>21 DEF LeaveLatency
<1>22. CASE StartLfifo
  BY <1>22 DEF StartLfifo
<1>23. CASE LfifoTestPasses
  BY <1>23 DEF LfifoTestPasses, LfifoFound
<1>24. CASE LfifoTestFails
  BY <1>24 DEF LfifoTestFails, LfifoFound
<1>25. CASE LfifoFails
  BY <1>25 DEF LfifoFails
<1>26. CASE Handoff
  BY <1>26 DEF Handoff
<1>27. CASE ResumeTracking
  BY <1>27 DEF ResumeTracking
<1>28. CASE PublishSuccess
  BY <1>28 DEF PublishSuccess
<1>29. CASE PublishFailure
  BY <1>29 DEF PublishFailure
<1>30. CASE UNCHANGED vars
  BY <1>30 DEF vars
<1> QED
  BY <1>1, <1>2, <1>3, <1>4, <1>5, <1>6, <1>7, <1>8, <1>9, <1>10, <1>11,
     <1>12, <1>13, <1>14, <1>15, <1>16, <1>17, <1>18, <1>19, <1>20, <1>21,
     <1>22, <1>23, <1>24, <1>25, <1>26, <1>27, <1>28, <1>29, <1>30
     DEF Next, CalibrateVfifo, CalibrateWrites, VfifoEnd, CalibrateLfifo

(* Tracking never runs while the sequencer has the memory.                 *)
THEOREM OneOwner == Spec => []NoTrackingWhileCalibrating
<1>1. TypeInv /\ OwnerInv => NoTrackingWhileCalibrating
  BY DEF TypeInv, TypeOK, Locations, OwnerInv, NoTrackingWhileCalibrating
<1> QED
  BY InitTyped, NextTyped, InitOwner, NextOwner, <1>1, PTL DEF Spec

(* Tracking is restored after the handoff, and a verdict is published      *)
(* after both.                                                             *)
THEOREM VerdictAfterHandoff == Spec => PublishedAfterHandoff
<1> DEFINE Step ==
       /\ calStatus' # calStatus => HandedOver /\ tracking = ctrlcfg
       /\ tracking' > tracking => HandedOver /\ calStatus = "RESET"
<1>1. TypeInv /\ OwnerInv /\ [Next]_vars => [Step]_vars
  <2> SUFFICES ASSUME TypeInv, OwnerInv, Next PROVE Step
    BY DEF vars
  <2>1. calStatus' # calStatus => PublishSuccess \/ PublishFailure
    BY DEF OwnerInv, Next, StopTracking, Initialize, MemConfig, SkipGroup,
           StartGroup, CalibrateVfifo, GuaranteedReadFails,
           GuaranteedReadPasses, FindDqsEnPhaseFails, FindDqsEnPhaseSucceeds,
           ReadCenterPasses, ReadCenterOffCenter, ReadCenterNoWindow,
           VfifoFails, CalibrateWrites, WritesPass, WritesOffCenter,
           WritesNoWindow, VfifoEnd, VfifoEndPasses, VfifoEndOffCenter,
           VfifoEndNoWindow, ReportFailingGroups, LeaveLatency,
           CalibrateLfifo, StartLfifo, LfifoTestPasses, LfifoTestFails,
           LfifoFails, Handoff, ResumeTracking, statusVars
  <2>2. tracking' # tracking => StopTracking \/ ResumeTracking
    BY DEF Next, Initialize, MemConfig, SkipGroup,
           StartGroup, CalibrateVfifo, GuaranteedReadFails,
           GuaranteedReadPasses, FindDqsEnPhaseFails, FindDqsEnPhaseSucceeds,
           ReadCenterPasses, ReadCenterOffCenter, ReadCenterNoWindow,
           VfifoFails, CalibrateWrites, WritesPass, WritesOffCenter,
           WritesNoWindow, VfifoEnd, VfifoEndPasses, VfifoEndOffCenter,
           VfifoEndNoWindow, ReportFailingGroups, LeaveLatency,
           CalibrateLfifo, StartLfifo, LfifoTestPasses, LfifoTestFails,
           LfifoFails, Handoff, PublishSuccess, PublishFailure, statusVars
  <2>3. tracking \in {0, 1}
    BY DEF TypeInv, TypeOK, VerdictTyped
  <2>4. tracking' > tracking => ResumeTracking
    BY <2>2, <2>3 DEF StopTracking
  <2> QED
    BY <2>1, <2>4 DEF OwnerInv, HandedOver, PublishSuccess, PublishFailure,
       ResumeTracking
<1> QED
  BY InitTyped, NextTyped, InitOwner, NextOwner, <1>1, PTL
     DEF Spec, PublishedAfterHandoff

-----------------------------------------------------------------------------
(***************************************************************************)
(* The read latency: the search goes down from the first latency by one,   *)
(* and the latencies that read are those above the one to be tried.        *)
(***************************************************************************)
Unsearched == goodLats = {} /\ pass = 0

LatencyInv ==
    /\ pc \in {"start", "initialize", "config"} => Unsearched /\ phyRlat = 0
    /\ pc = "group" \/ InGroup =>
          /\ Unsearched
          /\ currReadLat \in 1 .. MaxLatency /\ phyRlat = currReadLat
    /\ pc = "lfifo" =>
          /\ pass = 0
          /\ currReadLat \in 1 .. MaxLatency /\ phyRlat <= MaxLatency
          /\ goodLats \subseteq currReadLat + 1 .. MaxLatency
          /\ foundOne = 0 => goodLats = {}
          /\ foundOne = 1 => currReadLat + 1 \in goodLats
    /\ LatencyFits

(* The first read latency tried is not zero, and fits its counter.         *)
LEMMA InitialReadLatBounds ==
    \A r \in ReadLats : InitialReadLat(r) \in 1 .. MaxLatency
  BY DEF InitialReadLat

(* The latency counters start at zero.                                     *)
LEMMA InitLatency == Init => LatencyInv
  BY DEF Init, LatencyInv, LatencyFits, Unsearched, InGroup, InVfifo

(* A read that passes is one more latency that reads, and the search goes  *)
(* on below it or ends at zero.                                            *)
LEMMA PassingLatency ==
    TypeInv /\ LatencyInv /\ LfifoTestPasses => LatencyInv'
<1> SUFFICES ASSUME TypeInv, LatencyInv, LfifoTestPasses PROVE LatencyInv'
  OBVIOUS
<1>1. /\ pc = "lfifo" /\ foundOne' = 1
      /\ goodLats' = goodLats \cup {currReadLat}
  BY DEF LfifoTestPasses
<1>2. /\ pass = 0 /\ currReadLat \in 1 .. MaxLatency
      /\ goodLats \subseteq currReadLat + 1 .. MaxLatency
  BY <1>1 DEF LatencyInv
<1>3. CASE currReadLat - 1 > 0
  <2>1. /\ pc' = pc /\ pass' = pass
        /\ phyRlat' = currReadLat /\ currReadLat' = currReadLat - 1
    BY <1>3 DEF LfifoTestPasses
  <2>2. goodLats' \subseteq currReadLat' + 1 .. MaxLatency
    BY <1>1, <1>2, <2>1
  <2> QED
    BY <1>1, <1>2, <1>3, <2>1, <2>2
       DEF LatencyInv, LatencyFits, InGroup, InVfifo
<1>4. CASE ~(currReadLat - 1 > 0)
  <2>1. currReadLat = 1
    BY <1>2, <1>4
  <2>2. pc' = "handoff" /\ phyRlat' = 2
    BY <1>4, <2>1 DEF LfifoTestPasses, LfifoFound
  <2>3. 1 \in goodLats' /\ \A lat \in goodLats' : lat >= 1
    BY <1>1, <1>2, <2>1
  <2>4. 2 > MaxLatency => goodLats' = {MaxLatency}
    <3> SUFFICES ASSUME 2 > MaxLatency PROVE goodLats' = {MaxLatency}
      OBVIOUS
    <3>1. MaxLatency = 1
      OBVIOUS
    <3>2. goodLats = {}
      BY <1>2, <2>1, <3>1
    <3> QED
      BY <1>1, <2>1, <3>1, <3>2
  <2> QED
    BY <2>2, <2>3, <2>4 DEF LatencyInv, LatencyFits, InGroup, InVfifo
<1> QED
  BY <1>3, <1>4

(* A read that fails after one that passed ends the search: the one that   *)
(* passed is one above it.                                                 *)
LEMMA FailingLatency ==
    TypeInv /\ LatencyInv /\ LfifoTestFails => LatencyInv'
<1> SUFFICES ASSUME TypeInv, LatencyInv, LfifoTestFails PROVE LatencyInv'
  OBVIOUS
<1>1. /\ pc' = "handoff" /\ phyRlat' = currReadLat + 2
      /\ goodLats' = goodLats
  BY DEF LfifoTestFails, LfifoFound
<1>2. /\ currReadLat \in 1 .. MaxLatency
      /\ goodLats \subseteq currReadLat + 1 .. MaxLatency
      /\ currReadLat + 1 \in goodLats
  BY DEF LfifoTestFails, LatencyInv
<1>3. /\ phyRlat' - 1 \in goodLats
      /\ \A lat \in goodLats : lat >= phyRlat' - 1
  BY <1>1, <1>2
<1>4. phyRlat' > MaxLatency => goodLats = {MaxLatency}
  <2> SUFFICES ASSUME phyRlat' > MaxLatency PROVE goodLats = {MaxLatency}
    OBVIOUS
  <2>1. currReadLat + 1 \in MaxLatency .. MaxLatency
    BY <1>1, <1>2
  <2>2. currReadLat + 1 = MaxLatency
    BY <2>1
  <2>3. \A lat \in goodLats : lat = MaxLatency
    BY <1>2, <2>2
  <2> QED
    BY <1>2, <2>2, <2>3
<1> QED
  BY <1>1, <1>3, <1>4 DEF LatencyInv, LatencyFits, InGroup, InVfifo

(* Every step keeps the bounds of the latency.                             *)
LEMMA NextLatency == TypeInv /\ LatencyInv /\ [Next]_vars => LatencyInv'
<1> SUFFICES ASSUME TypeInv, LatencyInv, [Next]_vars PROVE LatencyInv'
  OBVIOUS
<1> USE DEF LatencyInv, LatencyFits, Unsearched, TypeInv, TypeOK, VerdictTyped,
            InGroup, InVfifo, statusVars, searchVars, delayVars, latVars,
            reportVars, groupVars, endVars
<1>1. CASE StopTracking
  BY <1>1 DEF StopTracking
<1>2. CASE Initialize
  BY <1>2 DEF Initialize
<1>3. CASE MemConfig
  <2>1. PICK r \in ReadLats :
           currReadLat' = InitialReadLat(r) /\ phyRlat' = InitialReadLat(r)
    BY <1>3 DEF MemConfig
  <2>2. currReadLat' \in 1 .. MaxLatency /\ phyRlat' = currReadLat'
    BY <2>1, InitialReadLatBounds
  <2> QED
    BY <1>3, <2>2 DEF MemConfig
<1>4. CASE SkipGroup
  BY <1>4 DEF SkipGroup
<1>5. CASE StartGroup
  BY <1>5 DEF StartGroup
<1>6. CASE GuaranteedReadFails
  BY <1>6 DEF GuaranteedReadFails
<1>7. CASE GuaranteedReadPasses
  BY <1>7 DEF GuaranteedReadPasses
<1>8. CASE FindDqsEnPhaseFails
  BY <1>8 DEF FindDqsEnPhaseFails, NextDqsInDtap
<1>9. CASE FindDqsEnPhaseSucceeds
  BY <1>9 DEF FindDqsEnPhaseSucceeds
<1>10. CASE ReadCenterPasses
  BY <1>10 DEF ReadCenterPasses
<1>11. CASE ReadCenterOffCenter
  BY <1>11 DEF ReadCenterOffCenter, NextDqsInDtap
<1>12. CASE ReadCenterNoWindow
  BY <1>12 DEF ReadCenterNoWindow, NextDqsInDtap
<1>13. CASE VfifoFails
  BY <1>13 DEF VfifoFails, GroupFails
<1>14. CASE WritesPass
  BY <1>14 DEF WritesPass
<1>15. CASE WritesOffCenter
  BY <1>15 DEF WritesOffCenter, GroupFails
<1>16. CASE WritesNoWindow
  BY <1>16 DEF WritesNoWindow, GroupFails
<1>17. CASE VfifoEndPasses
  BY <1>17 DEF VfifoEndPasses
<1>18. CASE VfifoEndOffCenter
  BY <1>18 DEF VfifoEndOffCenter, GroupFails
<1>19. CASE VfifoEndNoWindow
  BY <1>19 DEF VfifoEndNoWindow, GroupFails
<1>20. CASE ReportFailingGroups
  BY <1>20 DEF ReportFailingGroups
<1>21. CASE LeaveLatency
  BY <1>21 DEF LeaveLatency
<1>22. CASE StartLfifo
  BY <1>22 DEF StartLfifo
<1>23. CASE LfifoTestPasses
  BY <1>23, PassingLatency
<1>24. CASE LfifoTestFails
  BY <1>24, FailingLatency
<1>25. CASE LfifoFails
  BY <1>25 DEF LfifoFails
<1>26. CASE Handoff
  BY <1>26 DEF Handoff
<1>27. CASE ResumeTracking
  BY <1>27 DEF ResumeTracking
<1>28. CASE PublishSuccess
  BY <1>28 DEF PublishSuccess
<1>29. CASE PublishFailure
  BY <1>29 DEF PublishFailure
<1>30. CASE UNCHANGED vars
  BY <1>30 DEF vars
<1> QED
  BY <1>1, <1>2, <1>3, <1>4, <1>5, <1>6, <1>7, <1>8, <1>9, <1>10, <1>11,
     <1>12, <1>13, <1>14, <1>15, <1>16, <1>17, <1>18, <1>19, <1>20, <1>21,
     <1>22, <1>23, <1>24, <1>25, <1>26, <1>27, <1>28, <1>29, <1>30
     DEF Next, CalibrateVfifo, CalibrateWrites, VfifoEnd, CalibrateLfifo

(* The latency set is one above the smallest that read, and leaves its     *)
(* counter only where no latency but the largest reads.                    *)
THEOREM LatencyWithinCounter == Spec => []LatencyFits
<1>1. LatencyInv => LatencyFits
  BY DEF LatencyInv
<1> QED
  BY InitTyped, NextTyped, InitLatency, NextLatency, <1>1, PTL DEF Spec

-----------------------------------------------------------------------------
(***************************************************************************)
(* The refinement of CalibrationSpec: the steps that settle a group and    *)
(* the two verdicts are steps of the promise, all others stutter.          *)
(***************************************************************************)
(* Settling the group in hand is a step of the promise, whatever happens to*)
(* the rest of the state.                                                  *)
LEMMA SettleStep ==
    ASSUME TypeInv, FlowInv, group \in Groups, AmongGroups,
           pc # "done", UNCHANGED calStatus,
           NEW r, r \in IF group \in SkipGroups THEN {"skipped"}
                        ELSE {"ok", "failed"},
           result' = [result EXCEPT ![group] = r]
    PROVE  Promise!Next
<1>1. calStatus = "RESET"
  BY DEF FlowInv, VerdictInv
<1>2. \A g \in Groups : result[g] = "todo" <=> g >= group
  BY DEF FlowInv, GroupsInv
<1>3. group \in Nat /\ group >= group
  BY DEF Groups
<1>4. result[group] = "todo"
  BY <1>2, <1>3
<1>5. \A h \in 0 .. group - 1 : h \in Groups /\ ~(h >= group)
  BY DEF Groups
<1>6. \A h \in 0 .. group - 1 : result[h] # "todo"
  BY <1>2, <1>5
<1>7. Promise!Settle(group)
  BY <1>1, <1>4, <1>6 DEF Promise!Settle
<1> QED
  BY <1>7 DEF Promise!Next, Promise!Groups, Groups

(* Where a group is in hand, and that it is a group to calibrate there.    *)
LEMMA GroupInHand ==
    ASSUME TypeInv
    PROVE  /\ InGroup => /\ group \in Groups /\ group \notin SkipGroups
                         /\ AmongGroups /\ pc # "done"
           /\ pc = "group" => AmongGroups
  BY DEF TypeInv, LoopBounds, AmongGroups, InGroup, InVfifo

(* Settling the group in hand is a step of CalibrationSpec.                *)
LEMMA GroupSettled ==
    ASSUME TypeInv, FlowInv, InGroup, UNCHANGED calStatus,
           \/ result' = [result EXCEPT ![group] = "ok"]
           \/ result' = [result EXCEPT ![group] = "failed"]
    PROVE  Promise!Next
<1>1. group \in Groups /\ group \notin SkipGroups /\ AmongGroups /\ pc # "done"
  BY GroupInHand
<1>2. CASE result' = [result EXCEPT ![group] = "ok"]
  BY <1>1, <1>2, SettleStep
<1>3. CASE result' = [result EXCEPT ![group] = "failed"]
  BY <1>1, <1>3, SettleStep
<1> QED
  BY <1>2, <1>3

(* Every step is a step of CalibrationSpec or none.                        *)
LEMMA NextKeepsPromise ==
    TypeInv /\ FlowInv /\ OwnerInv /\ [Next]_vars
        => [Promise!Next]_Promise!vars
<1> SUFFICES ASSUME TypeInv, FlowInv, OwnerInv, [Next]_vars
             PROVE  Promise!Next \/ UNCHANGED <<calStatus, result>>
  BY DEF Promise!vars
<1> USE DEF statusVars, searchVars, delayVars, latVars,
            reportVars, groupVars, endVars
<1>1. CASE StopTracking
  BY <1>1 DEF StopTracking, OwnerInv
<1>2. CASE Initialize
  BY <1>2 DEF Initialize, OwnerInv
<1>3. CASE MemConfig
  BY <1>3 DEF MemConfig
<1>4. CASE SkipGroup
  BY <1>4, GroupInHand, SettleStep DEF SkipGroup
<1>5. CASE StartGroup
  BY <1>5 DEF StartGroup
<1>6. CASE GuaranteedReadFails
  BY <1>6 DEF GuaranteedReadFails
<1>7. CASE GuaranteedReadPasses
  BY <1>7 DEF GuaranteedReadPasses
<1>8. CASE FindDqsEnPhaseFails
  BY <1>8 DEF FindDqsEnPhaseFails
<1>9. CASE FindDqsEnPhaseSucceeds
  BY <1>9 DEF FindDqsEnPhaseSucceeds
<1>10. CASE ReadCenterPasses
  BY <1>10 DEF ReadCenterPasses
<1>11. CASE ReadCenterOffCenter
  BY <1>11 DEF ReadCenterOffCenter
<1>12. CASE ReadCenterNoWindow
  BY <1>12 DEF ReadCenterNoWindow
<1>13. CASE VfifoFails
  BY <1>13, GroupSettled DEF VfifoFails, GroupFails,
                          InGroup, InVfifo
<1>14. CASE WritesPass
  BY <1>14 DEF WritesPass
<1>15. CASE WritesOffCenter
  BY <1>15, GroupSettled DEF WritesOffCenter, GroupFails,
                          InGroup
<1>16. CASE WritesNoWindow
  BY <1>16, GroupSettled DEF WritesNoWindow, GroupFails,
                          InGroup
<1>17. CASE VfifoEndPasses
  BY <1>17, GroupSettled DEF VfifoEndPasses, InGroup
<1>18. CASE VfifoEndOffCenter
  BY <1>18, GroupSettled DEF VfifoEndOffCenter, GroupFails,
                          InGroup
<1>19. CASE VfifoEndNoWindow
  BY <1>19, GroupSettled DEF VfifoEndNoWindow, GroupFails,
                          InGroup
<1>20. CASE ReportFailingGroups
  BY <1>20 DEF ReportFailingGroups
<1>21. CASE LeaveLatency
  BY <1>21 DEF LeaveLatency
<1>22. CASE StartLfifo
  BY <1>22 DEF StartLfifo
<1>23. CASE LfifoTestPasses
  BY <1>23 DEF LfifoTestPasses, LfifoFound
<1>24. CASE LfifoTestFails
  BY <1>24 DEF LfifoTestFails, LfifoFound
<1>25. CASE LfifoFails
  BY <1>25 DEF LfifoFails
<1>26. CASE Handoff
  BY <1>26 DEF Handoff
<1>27. CASE ResumeTracking
  BY <1>27 DEF ResumeTracking
<1>28. CASE PublishSuccess
  <2>1. Promise!Succeed
    BY <1>28 DEF PublishSuccess, FlowInv, VerdictInv, AllCalibrated,
            Promise!Succeed, Promise!Groups, Groups
  <2> QED
    BY <2>1 DEF Promise!Next
<1>29. CASE PublishFailure
  <2>1. Promise!Fail
    BY <1>29 DEF PublishFailure, FlowInv, VerdictInv, FailureExplained,
            SomeFailed, LfifoReached, Promise!Fail, Promise!Groups, Groups
  <2> QED
    BY <2>1 DEF Promise!Next
<1>30. CASE UNCHANGED vars
  BY <1>30 DEF vars
<1> QED
  BY <1>1, <1>2, <1>3, <1>4, <1>5, <1>6, <1>7, <1>8, <1>9, <1>10, <1>11,
     <1>12, <1>13, <1>14, <1>15, <1>16, <1>17, <1>18, <1>19, <1>20, <1>21,
     <1>22, <1>23, <1>24, <1>25, <1>26, <1>27, <1>28, <1>29, <1>30
     DEF Next, CalibrateVfifo, CalibrateWrites, VfifoEnd, CalibrateLfifo

(* The sequencer implements CalibrationSpec.                               *)
THEOREM PromiseKept == Spec => KeepsPromise
<1>1. Init => Promise!Init
  BY DEF Init, Promise!Init, Promise!Groups, Groups
<1> QED
  BY InitTyped, NextTyped, InitFlow, NextFlow, InitOwner, NextOwner,
     NextKeepsPromise, <1>1, PTL DEF Spec, KeepsPromise, Promise!Spec
=============================================================================
