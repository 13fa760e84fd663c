---------------------------- MODULE Calibration ----------------------------
(***************************************************************************)
(* The top level of the DDR3 calibration sequencer: run_mem_calibrate(),   *)
(* mem_calibrate() and the per-group stages they call, in                  *)
(* hps_isw_handoff/soc_system_hps_0/sequencer.c, for the configuration of  *)
(* this board (DDR3, Cyclone V hard PHY, one rank, one read group per      *)
(* write group, no write levelling).                                       *)
(*                                                                         *)
(* What the memory answers is not known to the sequencer: each test, and   *)
(* each search built out of tests, is an action per possible outcome.  The *)
(* searches themselves are modules of their own (VfifoSearch, ReadCenter). *)
(***************************************************************************)
EXTENDS Naturals

CONSTANTS
    NumGroups,       \* RW_MGR_MEM_IF_WRITE_DQS_WIDTH (= ..READ_DQS_WIDTH)
    DqPerDqs,        \* RW_MGR_MEM_DQ_PER_READ_DQS
    DqsInMax,        \* IO_DQS_IN_DELAY_MAX
    DqsInReserve,    \* IO_DQS_IN_RESERVE
    OutMax,          \* IO_IO_OUT1_DELAY_MAX
    DqsOutReserve,   \* IO_DQS_OUT_RESERVE
    DtapsPerPtap,    \* delay taps in a phase tap, IO_DELAY_PER_OPA_TAP / ..DCHAIN_TAP
    ReadLats,        \* the read latencies the interface may report (MEM_T_RL_ADD)
    LatencyMargin,   \* the 16 of "rlat + 16"
    MaxLatency,      \* (1 << MAX_LATENCY_COUNT_WIDTH) - 1
    SkipGroups,      \* the groups whose bit is set in param->skip_groups
    DebugFlags       \* gbl->phy_debug_mode_flags

Groups == 0 .. NumGroups - 1

(* The group that set_failing_group_stage records for a failing LFIFO, and *)
(* before any failure.                                                     *)
NoGroup == 255

ASSUME SizeAssumption ==
    /\ NumGroups \in Nat \ {0} /\ DqPerDqs \in Nat \ {0}
    /\ DqsInMax \in Nat /\ DqsInReserve \in 0 .. DqsInMax
    /\ OutMax \in Nat /\ DqsOutReserve \in 0 .. OutMax
    /\ DtapsPerPtap \in 0 .. OutMax

ASSUME LatencyAssumption ==
    /\ ReadLats \subseteq Nat /\ ReadLats # {}
    /\ LatencyMargin \in Nat \ {0} /\ MaxLatency \in Nat \ {0}

ASSUME DebugAssumption ==
    /\ SkipGroups \subseteq Groups
    /\ DebugFlags \subseteq {"SWEEP_ALL_GROUPS", "DISABLE_GUARANTEED_READ",
                             "IN_DEBUG_MODE"}

VARIABLES
    pc,             \* where run_mem_calibrate is
    calStatus,      \* PHY_MGR_CAL_STATUS
    muxSel,         \* PHY_MGR_MUX_SEL: who drives the memory pins
    tracking,       \* the DQS tracking enable bit of CTRL_CONFIG_REG
    ctrlcfg,        \* the value of that bit saved in the local ctrlcfg
    group,          \* write_group (= read_group)
    d,              \* the output delay tried by rw_mgr_mem_calibrate_vfifo
    dqsInDtaps,     \* the DQS input delay tried for the DQS enable search
    origStartDqs,   \* the DQS input delay before that sweep
    failedSubstage, \* the local failed_substage
    dqsIn,          \* DQS input delay of each group, in the SCC manager
    dqsOut,         \* DQS and OCT OUT1 delay of each group
    error,          \* gbl->error_stage, error_substage and error_group
    curStage,       \* REG_FILE_CUR_STAGE
    failingStage,   \* REG_FILE_FAILING_STAGE
    failingGroups,  \* the local failing_groups
    currReadLat,    \* gbl->curr_read_lat
    phyRlat,        \* PHY_MGR_PHY_RLAT
    foundOne,       \* the local found_one of the LFIFO search
    goodLats,       \* history: the latencies at which its read test passed
    pass,           \* what mem_calibrate returned
    result          \* history: what became of each group

statusVars == <<calStatus, muxSel, tracking, ctrlcfg>>
searchVars == <<d, dqsInDtaps, origStartDqs, failedSubstage>>
delayVars  == <<dqsIn, dqsOut>>
latVars    == <<currReadLat, phyRlat, foundOne, goodLats>>
reportVars == <<error, curStage>>
groupVars  == <<group, failingGroups, result>>
endVars    == <<failingStage, pass>>
vars == <<pc, statusVars, searchVars, delayVars, latVars, reportVars,
          groupVars, endVars>>

Stages    == {"NIL", "VFIFO", "WRITES", "LFIFO", "VFIFO_AFTER_WRITES"}
Substages == {"NIL", "GUARANTEED_READ", "DQS_EN_PHASE", "VFIFO_CENTER",
              "WRITES_CENTER", "READ_LATENCY"}

Locations == {"start", "initialize", "config", "group", "guaranteed", "sweep",
              "center", "writes", "vfifo_end", "lfifo", "handoff", "resume",
              "publish", "done"}

-----------------------------------------------------------------------------
(***************************************************************************)
(* Error reporting and the register file.                                  *)
(***************************************************************************)
(* What initialize_reg_file writes.                                        *)
Cleared == [stage |-> "NIL", substage |-> "NIL", group |-> 0]

NoError == [stage |-> "NIL", substage |-> "NIL", group |-> NoGroup]

(* What set_failing_group_stage leaves in gbl: the first error stays.      *)
SetFailingGroupStage(e, g, stage, substage) ==
    IF e.stage = "NIL"
    THEN [stage |-> stage, substage |-> substage, group |-> g]
    ELSE e

(* A bit of the group in hand, the way the centring routines name it.      *)
BitIndex(i) == group * DqPerDqs + i

(* reg_file_set_sub_stage alone; reg_file_set_stage, then _sub_stage: the  *)
(* group half is kept; and both with reg_file_set_group.                   *)
RegFileSubstage(substage) ==
    [stage |-> curStage.stage, substage |-> substage, group |-> curStage.group]

RegFileStage(stage, substage) ==
    [stage |-> stage, substage |-> substage, group |-> curStage.group]

RegFileStageGroup(stage, substage, g) ==
    [stage |-> stage, substage |-> substage, group |-> g]

-----------------------------------------------------------------------------
(***************************************************************************)
(* run_mem_calibrate: up to the call of mem_calibrate.                     *)
(***************************************************************************)
Init ==
    /\ pc = "start"
    /\ calStatus = "RESET" /\ muxSel \in {"AFI", "SEQUENCER"}
    /\ tracking \in {0, 1} /\ ctrlcfg = 0
    /\ group = 0 /\ d = 0 /\ dqsInDtaps = 0 /\ origStartDqs = 0
    /\ failedSubstage = "NIL"
    /\ dqsIn = [g \in Groups |-> 0] /\ dqsOut = [g \in Groups |-> 0]
    /\ error = NoError
    /\ curStage = Cleared /\ failingStage = Cleared
    /\ failingGroups = 0
    /\ currReadLat = 0 /\ phyRlat = 0 /\ foundOne = 0 /\ goodLats = {}
    /\ pass = 0
    /\ result = [g \in Groups |-> "todo"]

(* The status is reset and the tracking manager stopped; what it was set   *)
(* to is kept in ctrlcfg.                                                  *)
StopTracking ==
    /\ pc = "start"
    /\ pc' = "initialize"
    /\ calStatus' = "RESET"
    /\ ctrlcfg' = tracking /\ tracking' = 0
    /\ UNCHANGED <<muxSel, searchVars, delayVars, latVars, reportVars,
                   groupVars, endVars>>

(* initialize() takes the path to the memory; rw_mgr_mem_initialize() then *)
(* resets and programs the memory.                                         *)
Initialize ==
    /\ pc = "initialize"
    /\ pc' = "config"
    /\ muxSel' = "SEQUENCER" /\ calStatus' = "RESET"
    /\ UNCHANGED <<tracking, ctrlcfg, searchVars, delayVars, latVars,
                   reportVars, groupVars, endVars>>

(* The first latency tried, for the latency r that the interface reports.  *)
InitialReadLat(r) == IF r + LatencyMargin > MaxLatency
                     THEN MaxLatency ELSE r + LatencyMargin

(* The head of mem_calibrate: no error yet, mem_config() picks a generous  *)
(* read latency, scc_mgr_zero_all() sets every DQS input to the reserve.   *)
MemConfig ==
    /\ pc = "config"
    /\ pc' = "group"
    /\ error' = NoError
    /\ \E r \in ReadLats :
          currReadLat' = InitialReadLat(r) /\ phyRlat' = InitialReadLat(r)
    /\ dqsIn' = [g \in Groups |-> DqsInReserve]
    /\ group' = 0 /\ failingGroups' = 0
    /\ UNCHANGED <<statusVars, searchVars, dqsOut, foundOne, goodLats, curStage,
                   result, endVars>>

-----------------------------------------------------------------------------
(***************************************************************************)
(* mem_calibrate: one group after the other.                               *)
(***************************************************************************)
SkipGroup ==
    /\ pc = "group" /\ group \in SkipGroups
    /\ group' = group + 1
    /\ result' = [result EXCEPT ![group] = "skipped"]
    /\ UNCHANGED <<pc, statusVars, searchVars, delayVars, latVars, reportVars,
                   failingGroups, endVars>>

(* scc_mgr_zero_group, then the head of rw_mgr_mem_calibrate_vfifo.        *)
StartGroup ==
    /\ pc = "group" /\ group \in Groups \ SkipGroups
    /\ pc' = "guaranteed"
    /\ dqsOut' = [dqsOut EXCEPT ![group] = DqsOutReserve]
    /\ d' = 0 /\ failedSubstage' = "GUARANTEED_READ"
    /\ curStage' = RegFileStageGroup("VFIFO", "GUARANTEED_READ", group)
    /\ UNCHANGED <<statusVars, dqsInDtaps, origStartDqs, dqsIn, latVars, error,
                   groupVars, endVars>>

(* A group has failed: mem_calibrate returns 0 at once, unless the debug   *)
(* flag lets it sweep the groups that are left.                            *)
GroupFails ==
    /\ result' = [result EXCEPT ![group] = "failed"]
    /\ IF "SWEEP_ALL_GROUPS" \in DebugFlags
       THEN /\ pc' = "group" /\ group' = group + 1
            /\ failingGroups' = failingGroups + 1
            /\ UNCHANGED pass
       ELSE /\ pc' = "handoff" /\ pass' = 0
            /\ UNCHANGED <<group, failingGroups>>
    /\ UNCHANGED failingStage

-----------------------------------------------------------------------------
(***************************************************************************)
(* rw_mgr_mem_calibrate_vfifo: retry, with the outputs delayed by d, until *)
(* the DQS enable search and the read centring both succeed.               *)
(***************************************************************************)

(* scc_mgr_apply_group_all_out_delay_add: OUT2 does not exist (its maximum *)
(* is 0 and it reads as 0), so the sum always overflows it and the excess, *)
(* which is d itself, is written to OUT1.                                  *)
ApplyGroupAllOutDelayAdd ==
    dqsOut' = IF d > 0 THEN [dqsOut EXCEPT ![group] = d] ELSE dqsOut

(* The guaranteed read fails: break, and on to the next output delay.      *)
GuaranteedReadFails ==
    /\ pc = "guaranteed" /\ d <= DtapsPerPtap
    /\ "DISABLE_GUARANTEED_READ" \notin DebugFlags
    /\ ApplyGroupAllOutDelayAdd
    /\ d' = d + 2
    /\ UNCHANGED <<pc, statusVars, dqsInDtaps, origStartDqs, failedSubstage,
                   dqsIn, latVars, reportVars, groupVars, endVars>>

(* It passes, or is disabled: the sweep starts from the delay in the SCC.  *)
GuaranteedReadPasses ==
    /\ pc = "guaranteed" /\ d <= DtapsPerPtap
    /\ pc' = "sweep"
    /\ ApplyGroupAllOutDelayAdd
    /\ origStartDqs' = dqsIn[group] /\ dqsInDtaps' = dqsIn[group]
    /\ UNCHANGED <<statusVars, d, failedSubstage, dqsIn, latVars, reportVars,
                   groupVars, endVars>>

(* Mutant: the sweep goes one past the end of the delay chain.             *)
NextDqsInDtapPastEnd ==
    /\ dqsInDtaps' = dqsInDtaps + 1
    /\ IF dqsInDtaps <= DqsInMax
       THEN pc' = "sweep" /\ UNCHANGED d
       ELSE pc' = "guaranteed" /\ d' = d + 2

(* Mutant: the same output delay is tried again.                           *)
NextDqsInDtapSameDelay ==
    /\ dqsInDtaps' = dqsInDtaps + 1
    /\ IF dqsInDtaps < DqsInMax THEN pc' = "sweep" ELSE pc' = "guaranteed"
    /\ UNCHANGED d

(* The end of the body of the DQS input sweep, when the group has not been *)
(* calibrated.                                                             *)
NextDqsInDtap ==
    /\ dqsInDtaps' = dqsInDtaps + 1
    /\ IF dqsInDtaps < DqsInMax
       THEN pc' = "sweep" /\ UNCHANGED d
       ELSE pc' = "guaranteed" /\ d' = d + 2

(* The search also sets the substage in the register file.                 *)
FindDqsEnPhaseFails ==
    /\ pc = "sweep"
    /\ dqsIn' = [dqsIn EXCEPT ![group] = dqsInDtaps]
    /\ failedSubstage' = "DQS_EN_PHASE"
    /\ curStage' = RegFileSubstage("VFIFO_CENTER")
    /\ NextDqsInDtap
    /\ UNCHANGED <<statusVars, origStartDqs, dqsOut, latVars, error,
                   groupVars, endVars>>

(* Found: before the read deskew the DQS input delay is set back.          *)
FindDqsEnPhaseSucceeds ==
    /\ pc = "sweep"
    /\ pc' = "center"
    /\ dqsIn' = [dqsIn EXCEPT ![group] = origStartDqs]
    /\ curStage' = RegFileSubstage("VFIFO_CENTER")
    /\ UNCHANGED <<statusVars, searchVars, dqsOut, latVars, error, groupVars,
                   endVars>>

(* Mutant: the loop counter is tested as it was before its last increment. *)
ReadCenterPassesMutant ==
    /\ pc = "center"
    /\ pc' = "writes"
    /\ \E new \in 0 .. DqsInMax : dqsIn' = [dqsIn EXCEPT ![group] = new]
    /\ d' = d + 2
    /\ dqsOut' = IF d > 2 THEN [dqsOut EXCEPT ![group] = DqsOutReserve]
                 ELSE dqsOut
    /\ UNCHANGED <<statusVars, dqsInDtaps, origStartDqs, failedSubstage,
                   latVars, reportVars, groupVars, endVars>>

(* Both margins are there.  The loops over p and d run their increment     *)
(* before they test grp_calibrated; if d moved past the first value, the   *)
(* outputs go back to the reserve (scc_mgr_zero_group).                    *)
ReadCenterPasses ==
    /\ pc = "center"
    /\ pc' = "writes"
    /\ \E new \in 0 .. DqsInMax : dqsIn' = [dqsIn EXCEPT ![group] = new]
    /\ d' = d + 2
    /\ dqsOut' = IF d' > 2 THEN [dqsOut EXCEPT ![group] = DqsOutReserve]
                 ELSE dqsOut
    /\ UNCHANGED <<statusVars, dqsInDtaps, origStartDqs, failedSubstage,
                   latVars, reportVars, groupVars, endVars>>

(* Every bit has a window but the best setting leaves a negative margin.   *)
ReadCenterOffCenter ==
    /\ pc = "center"
    /\ \E new \in 0 .. DqsInMax : dqsIn' = [dqsIn EXCEPT ![group] = new]
    /\ failedSubstage' = "VFIFO_CENTER"
    /\ NextDqsInDtap
    /\ UNCHANGED <<statusVars, origStartDqs, dqsOut, latVars, reportVars,
                   groupVars, endVars>>

(* A bit has no window: the centring restores DQS and records the error    *)
(* itself, although the caller goes on to retry.                           *)
ReadCenterNoWindow ==
    /\ pc = "center"
    /\ \E i \in 0 .. DqPerDqs - 1 :
          error' = SetFailingGroupStage(error, BitIndex(i), "VFIFO",
                                        "VFIFO_CENTER")
    /\ failedSubstage' = "VFIFO_CENTER"
    /\ NextDqsInDtap
    /\ UNCHANGED <<statusVars, origStartDqs, delayVars, latVars, curStage,
                   groupVars, endVars>>

(* Every output delay has been tried.                                      *)
VfifoFails ==
    /\ pc = "guaranteed" /\ d > DtapsPerPtap
    /\ error' = SetFailingGroupStage(error, group, "VFIFO", failedSubstage)
    /\ GroupFails
    /\ UNCHANGED <<statusVars, searchVars, delayVars, latVars, curStage>>

-----------------------------------------------------------------------------
(***************************************************************************)
(* rw_mgr_mem_calibrate_writes: per-bit write deskew.                      *)
(***************************************************************************)
WritesReport == RegFileStageGroup("WRITES", "WRITES_CENTER", group)

(* DQS goes back to where it was: only DQ and DM are moved.                *)
WritesPass ==
    /\ pc = "writes"
    /\ pc' = "vfifo_end"
    /\ curStage' = WritesReport
    /\ UNCHANGED <<statusVars, searchVars, delayVars, latVars, error,
                   groupVars, endVars>>

(* Mutant: the failure is not recorded.                                    *)
WritesOffCenterMutant ==
    /\ pc = "writes"
    /\ curStage' = WritesReport
    /\ GroupFails
    /\ UNCHANGED <<error, statusVars, searchVars, delayVars, latVars>>

WritesOffCenter ==
    /\ pc = "writes"
    /\ curStage' = WritesReport
    /\ error' = SetFailingGroupStage(error, group, "WRITES", "WRITES_CENTER")
    /\ GroupFails
    /\ UNCHANGED <<statusVars, searchVars, delayVars, latVars>>

(* A bit has no window: return with DQS wherever the search left it.       *)
WritesNoWindow ==
    /\ pc = "writes"
    /\ curStage' = WritesReport
    /\ \E i \in 0 .. DqPerDqs - 1 :
          error' = SetFailingGroupStage(error, BitIndex(i), "WRITES",
                                        "WRITES_CENTER")
    /\ \E out \in dqsOut[group] .. OutMax :
          dqsOut' = [dqsOut EXCEPT ![group] = out]
    /\ GroupFails
    /\ UNCHANGED <<statusVars, searchVars, dqsIn, latVars>>

-----------------------------------------------------------------------------
(***************************************************************************)
(* rw_mgr_mem_calibrate_vfifo_end: read deskew again, with written data.   *)
(***************************************************************************)
VfifoEndReport ==
    RegFileStageGroup("VFIFO_AFTER_WRITES", "VFIFO_CENTER", group)

(* The group is done.                                                      *)
VfifoEndPasses ==
    /\ pc = "vfifo_end"
    /\ pc' = "group"
    /\ curStage' = VfifoEndReport
    /\ \E new \in 0 .. DqsInMax : dqsIn' = [dqsIn EXCEPT ![group] = new]
    /\ group' = group + 1
    /\ result' = [result EXCEPT ![group] = "ok"]
    /\ UNCHANGED <<statusVars, searchVars, dqsOut, latVars, error,
                   failingGroups, endVars>>

VfifoEndOffCenter ==
    /\ pc = "vfifo_end"
    /\ curStage' = VfifoEndReport
    /\ \E new \in 0 .. DqsInMax : dqsIn' = [dqsIn EXCEPT ![group] = new]
    /\ error' = SetFailingGroupStage(error, group, "VFIFO_AFTER_WRITES",
                                     "VFIFO_CENTER")
    /\ GroupFails
    /\ UNCHANGED <<statusVars, searchVars, dqsOut, latVars>>

VfifoEndNoWindow ==
    /\ pc = "vfifo_end"
    /\ curStage' = VfifoEndReport
    /\ \E i \in 0 .. DqPerDqs - 1 :
          error' = SetFailingGroupStage(error, BitIndex(i),
                                        "VFIFO_AFTER_WRITES", "VFIFO_CENTER")
    /\ GroupFails
    /\ UNCHANGED <<statusVars, searchVars, delayVars, latVars>>

-----------------------------------------------------------------------------
(***************************************************************************)
(* The end of mem_calibrate: report failing groups, or calibrate the LFIFO *)
(* (rw_mgr_mem_calibrate_lfifo), the smallest latency that reads well.     *)
(***************************************************************************)
ReportFailingGroups ==
    /\ pc = "group" /\ group = NumGroups
    /\ failingGroups # 0
    /\ pc' = "handoff" /\ pass' = 0
    /\ UNCHANGED <<statusVars, searchVars, delayVars, latVars, reportVars,
                   groupVars, failingStage>>

(* Skipping groups is for debugging: then the latency is left as it is.    *)
LeaveLatency ==
    /\ pc = "group" /\ group = NumGroups
    /\ failingGroups = 0 /\ SkipGroups # {}
    /\ pc' = "handoff" /\ pass' = 1
    /\ UNCHANGED <<statusVars, searchVars, delayVars, latVars, reportVars,
                   groupVars, failingStage>>

StartLfifo ==
    /\ pc = "group" /\ group = NumGroups
    /\ failingGroups = 0 /\ SkipGroups = {}
    /\ pc' = "lfifo"
    /\ curStage' = RegFileStage("LFIFO", "READ_LATENCY")
    /\ foundOne' = 0
    /\ UNCHANGED <<statusVars, searchVars, delayVars, currReadLat, phyRlat,
                   goodLats, error, groupVars, endVars>>

(* The fudge factor on the latency at which the search stopped.            *)
LfifoFound(lat) ==
    /\ pc' = "handoff" /\ pass' = 1
    /\ currReadLat' = lat + 2 /\ phyRlat' = lat + 2

(* The read test passes at currReadLat: try one less, unless that is 0.    *)
LfifoTestPasses ==
    /\ pc = "lfifo"
    /\ foundOne' = 1 /\ goodLats' = goodLats \cup {currReadLat}
    /\ IF currReadLat - 1 > 0
       THEN /\ phyRlat' = currReadLat /\ currReadLat' = currReadLat - 1
            /\ UNCHANGED <<pc, pass>>
       ELSE LfifoFound(currReadLat - 1)
    /\ UNCHANGED <<statusVars, searchVars, delayVars, reportVars, groupVars,
                   failingStage>>

(* Mutant: the fudge factor even if no latency has been found.             *)
LfifoTestFailsMutant ==
    /\ pc = "lfifo"
    /\ LfifoFound(currReadLat)
    /\ UNCHANGED <<statusVars, searchVars, delayVars, foundOne, goodLats,
                   reportVars, groupVars, failingStage>>

LfifoTestFails ==
    /\ pc = "lfifo" /\ foundOne = 1
    /\ LfifoFound(currReadLat)
    /\ UNCHANGED <<statusVars, searchVars, delayVars, foundOne, goodLats,
                   reportVars, groupVars, failingStage>>

(* It fails at the first latency already.                                  *)
LfifoFails ==
    /\ pc = "lfifo" /\ foundOne = 0
    /\ pc' = "handoff" /\ pass' = 0
    /\ phyRlat' = currReadLat
    /\ error' = SetFailingGroupStage(error, NoGroup, "LFIFO", "READ_LATENCY")
    /\ UNCHANGED <<statusVars, searchVars, delayVars, currReadLat, foundOne,
                   goodLats, curStage, groupVars, failingStage>>

-----------------------------------------------------------------------------
(***************************************************************************)
(* run_mem_calibrate: after mem_calibrate has returned.                    *)
(***************************************************************************)

(* In debug mode the PHY is not given back to the controller.              *)
Handoff ==
    /\ pc = "handoff"
    /\ pc' = "resume"
    /\ muxSel' = IF "IN_DEBUG_MODE" \in DebugFlags THEN muxSel ELSE "AFI"
    /\ UNCHANGED <<calStatus, tracking, ctrlcfg, searchVars, delayVars, latVars,
                   reportVars, groupVars, endVars>>

(* Mutant: tracking may come back before the PHY is given back.            *)
ResumeTracking_Early ==
    /\ pc \in {"handoff", "resume"}
    /\ pc' = IF pc = "resume" THEN "publish" ELSE pc
    /\ tracking' = ctrlcfg
    /\ UNCHANGED <<calStatus, muxSel, ctrlcfg, searchVars, delayVars, latVars,
                   reportVars, groupVars, endVars>>

ResumeTracking ==
    /\ pc = "resume"
    /\ pc' = "publish"
    /\ tracking' = ctrlcfg
    /\ UNCHANGED <<calStatus, muxSel, ctrlcfg, searchVars, delayVars, latVars,
                   reportVars, groupVars, endVars>>

(* Mutant: success without a look at what mem_calibrate returned.          *)
PublishSuccessMutant ==
    /\ pc = "publish"
    /\ pc' = "done"
    /\ calStatus' = "SUCCESS"
    /\ UNCHANGED <<muxSel, tracking, ctrlcfg, searchVars, delayVars, latVars,
                   reportVars, groupVars, endVars>>

PublishSuccess ==
    /\ pc = "publish" /\ pass = 1
    /\ pc' = "done"
    /\ calStatus' = "SUCCESS"
    /\ UNCHANGED <<muxSel, tracking, ctrlcfg, searchVars, delayVars, latVars,
                   reportVars, groupVars, endVars>>

PublishFailure ==
    /\ pc = "publish" /\ pass = 0
    /\ pc' = "done"
    /\ calStatus' = "FAIL" /\ failingStage' = error
    /\ UNCHANGED <<muxSel, tracking, ctrlcfg, searchVars, delayVars, latVars,
                   reportVars, groupVars, pass>>

-----------------------------------------------------------------------------
CalibrateVfifo ==
    \/ GuaranteedReadFails \/ GuaranteedReadPasses
    \/ FindDqsEnPhaseFails \/ FindDqsEnPhaseSucceeds
    \/ ReadCenterPasses \/ ReadCenterOffCenter \/ ReadCenterNoWindow
    \/ VfifoFails

CalibrateWrites == WritesPass \/ WritesOffCenter \/ WritesNoWindow

VfifoEnd == VfifoEndPasses \/ VfifoEndOffCenter \/ VfifoEndNoWindow

CalibrateLfifo ==
    StartLfifo \/ LfifoTestPasses \/ LfifoTestFails \/ LfifoFails

Next ==
    \/ StopTracking \/ Initialize \/ MemConfig
    \/ SkipGroup \/ StartGroup
    \/ CalibrateVfifo \/ CalibrateWrites \/ VfifoEnd
    \/ ReportFailingGroups \/ LeaveLatency \/ CalibrateLfifo
    \/ Handoff \/ ResumeTracking \/ PublishSuccess \/ PublishFailure

(* One thread runs straight through: it never stops before the end.        *)
Spec == Init /\ [][Next]_vars /\ WF_vars(Next)

-----------------------------------------------------------------------------
(***************************************************************************)
(* Properties.                                                             *)
(***************************************************************************)
Report == [stage : Stages, substage : Substages, group : Nat]

LoopsTyped ==
    /\ group \in 0 .. NumGroups
    /\ d \in 0 .. DtapsPerPtap + 2
    /\ dqsInDtaps \in 0 .. DqsInMax + 1 /\ origStartDqs \in 0 .. DqsInMax
    /\ failedSubstage \in Substages

DelaysTyped ==
    /\ dqsIn \in [Groups -> 0 .. DqsInMax]
    /\ dqsOut \in [Groups -> 0 .. OutMax]

ReportsTyped ==
    /\ error \in Report /\ curStage \in Report /\ failingStage \in Report

VerdictTyped ==
    /\ calStatus \in {"RESET", "SUCCESS", "FAIL"}
    /\ muxSel \in {"AFI", "SEQUENCER"}
    /\ tracking \in {0, 1} /\ ctrlcfg \in {0, 1}
    /\ failingGroups \in Nat
    /\ currReadLat \in Nat /\ phyRlat \in Nat /\ goodLats \subseteq Nat
    /\ foundOne \in {0, 1} /\ pass \in {0, 1}
    /\ result \in [Groups -> {"todo", "ok", "failed", "skipped"}]

(* The variables have their types; a delay never leaves its delay chain.   *)
TypeOK ==
    pc \in Locations /\ LoopsTyped /\ DelaysTyped /\ ReportsTyped /\ VerdictTyped

(* The register file and the status agree: success is published only when  *)
(* every group that was not skipped went through every stage of            *)
(* mem_calibrate, whatever the retries and whatever groups failed before.  *)
SuccessMeansCalibrated ==
    calStatus = "SUCCESS" =>
        \A g \in Groups \ SkipGroups : result[g] = "ok"

(* Every path on which mem_calibrate returns 0 has recorded a stage, so a  *)
(* failure is never published as stage NIL (run_mem_calibrate writes       *)
(* error_stage to REG_FILE_FAILING_STAGE without looking at it).           *)
FailureHasCause ==
    calStatus = "FAIL" => failingStage.stage # "NIL"

(* The write deskew of a group starts from the reserve even when the VFIFO *)
(* calibration had to move the outputs to succeed: the test "d > 2" sees   *)
(* every such case although d is incremented once more on success.         *)
OutputsRestored ==
    pc = "writes" => dqsOut[group] = DqsOutReserve

(* The tracking manager and the sequencer never drive the PHY together.    *)
NoTrackingWhileCalibrating ==
    pc # "start" /\ muxSel = "SEQUENCER" /\ "IN_DEBUG_MODE" \notin DebugFlags
        => tracking = 0

(* The controller drives the memory, as far as the debug mode lets it.     *)
HandedOver == "IN_DEBUG_MODE" \notin DebugFlags => muxSel = "AFI"

(* Success leaves the PHY one cycle above the smallest latency that read,  *)
(* whichever way the search ended (a test failed, or latency 1 read too),  *)
(* and a latency that never read is never taken.  The fudge factor takes   *)
(* it out of its counter in one case only, by one: the first latency tried *)
(* is the largest, clamped or not, and no smaller one reads.               *)
LatencyFits ==
    /\ pass = 1 /\ SkipGroups = {} =>
          /\ phyRlat - 1 \in goodLats
          /\ \A lat \in goodLats : lat >= phyRlat - 1
    /\ phyRlat > MaxLatency => goodLats = {MaxLatency}

(* Tracking comes back only when the controller has the memory again, and  *)
(* a verdict is published only after both: the memory has been handed over *)
(* and the tracking configuration is what it was before the calibration.   *)
PublishedAfterHandoff ==
    [][/\ calStatus' # calStatus =>
              HandedOver /\ tracking = ctrlcfg
       /\ tracking' > tracking => HandedOver /\ calStatus = "RESET"]_vars

(* Whatever the memory answers the calibration comes to a verdict: the     *)
(* retries of the VFIFO stage and the search of the LFIFO are bounded.     *)
Terminates == <>(calStatus # "RESET")

(* The sequencer keeps the promise of CalibrationSpec.                     *)
Promise == INSTANCE CalibrationSpec WITH status <- calStatus
KeepsPromise == Promise!Spec
=============================================================================
