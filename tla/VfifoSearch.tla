---------------------------- MODULE VfifoSearch ----------------------------
(***************************************************************************)
(* rw_mgr_mem_calibrate_vfifo_find_dqs_en_phase() in                       *)
(* hps_isw_handoff/soc_system_hps_0/sequencer.c: the search for the middle *)
(* of the window in which the DQS enable signal may open, over three       *)
(* coupled settings: the VFIFO (one cycle a step, it only goes up, modulo  *)
(* its size), the phase tap and the delay tap.  On a hard PHY phase 0 does *)
(* not exist.                                                              *)
(*                                                                         *)
(* The memory is an oracle: a read passes when the time at which DQS is    *)
(* enabled lies in the window; within fuzz of an edge it may do either.    *)
(***************************************************************************)
EXTENDS Integers

CONSTANTS
    VfifoSize,   \* VFIFO_SIZE
    PhaseMax,    \* IO_DQS_EN_PHASE_MAX
    DelayMax,    \* IO_DQS_EN_DELAY_MAX
    OpaTap,      \* IO_DELAY_PER_OPA_TAP, the time of a phase tap
    DchainTap,   \* IO_DELAY_PER_DQS_EN_DCHAIN_TAP, the time of a delay tap
    Lengths,     \* the lengths of window the memory may have
    Fuzzes       \* how far from an edge a read may be unreliable

ASSUME SearchAssumption ==
    /\ VfifoSize \in Nat \ {0} /\ PhaseMax \in Nat \ {0, 1}
    /\ OpaTap \in Nat \ {0} /\ DchainTap \in 1 .. OpaTap
    /\ DelayMax \in Nat /\ DelayMax * DchainTap >= 2 * OpaTap
    /\ Fuzzes \subseteq Nat

(* What a step of the VFIFO is worth, and all of them.                     *)
Cycle == (PhaseMax + 1) * OpaTap
Total == VfifoSize * Cycle

ASSUME WindowAssumption == Lengths \subseteq 0 .. Total - 1

(* The windows of the memory: the first time, the length, and how far from *)
(* the edges reads are unreliable.                                         *)
Windows == {w \in [bgn : 0 .. Total - 1, len : Lengths, fuzz : Fuzzes] :
               2 * w.fuzz <= w.len}

VARIABLES
    pc,
    v,               \* the VFIFO setting in the hardware (vfifo_idx)
    phase, delay,    \* the DQS enable phase and delay in the SCC manager
    pushed,          \* the local v of step 1, while it counts the pushes
    failCnt,         \* fail_cnt
    i, p, d, j,      \* loop counters (of j: whether it is still 0)
    tmpDelay, workBgn, workEnd,
    dtapsPerPtap, initialFailingDtap,
    ret,             \* what the search returned
    origin,          \* history: the VFIFO setting workBgn and workEnd count from
    window           \* the window of the memory

hwVars    == <<v, phase, delay>>
loopVars  == <<i, p, d, j>>
workVars  == <<tmpDelay, workBgn, workEnd>>
trackVars == <<dtapsPerPtap, initialFailingDtap>>
pushVars  == <<pushed, failCnt, origin>>
vars == <<pc, hwVars, pushVars, loopVars, workVars, trackVars, ret, window>>

-----------------------------------------------------------------------------
(* The time at which DQS is enabled.                                       *)
Time(vv, pp, dd) == (vv * Cycle + pp * OpaTap + dd * DchainTap) % Total

(* How long after the window opens a time is.                              *)
After(t) == (t - window.bgn) % Total

(* rw_mgr_mem_calibrate_read_test_all_ranks may pass, and may fail.        *)
MayPass(t) ==
    (t - window.bgn + window.fuzz) % Total <= window.len + 2 * window.fuzz
MayFail(t) ==
    (t - window.bgn - window.fuzz) % Total > window.len - 2 * window.fuzz

(* rw_mgr_incr_vfifo, and rw_mgr_decr_vfifo: all but one of its steps up.  *)
IncrVfifo(vv) == (vv + 1) % VfifoSize
DecrVfifo(vv) == (vv + VfifoSize - 1) % VfifoSize

CeilDiv(a, b) == (a + b - 1) \div b

(* Step 0: the nominal number of delay taps in a phase tap.                *)
NominalDtaps == CeilDiv(OpaTap, DchainTap) - 1

Return(r) == pc' = "done" /\ ret' = r

-----------------------------------------------------------------------------
Init ==
    /\ pc = "start"
    /\ v = 0 /\ phase = 1 /\ delay = 0
    /\ pushed = 0 /\ failCnt = 0 /\ origin = 0
    /\ i = 0 /\ p = 1 /\ d = 0 /\ j = 0
    /\ tmpDelay = 0 /\ workBgn = 0 /\ workEnd = 0
    /\ dtapsPerPtap = 0 /\ initialFailingDtap = 0
    /\ ret = 0
    /\ window \in Windows

Start ==
    /\ pc = "start"
    /\ pc' = "push"
    /\ phase' = 1 /\ delay' = 0
    /\ dtapsPerPtap' = NominalDtaps
    /\ UNCHANGED <<v, pushVars, loopVars, workVars, initialFailingDtap, ret,
                   window>>

(* Step 1: push the VFIFO until the second failing read.  The VFIFO stays  *)
(* where that read was; from there the times of the search are counted.    *)
PushVfifo ==
    /\ v' = IncrVfifo(v) /\ pushed' = pushed + 1
    /\ IF pushed + 1 < VfifoSize THEN UNCHANGED <<pc, ret>> ELSE Return(0)
    /\ UNCHANGED <<origin, p, tmpDelay, workBgn>>

PushPasses ==
    /\ pc = "push" /\ MayPass(Time(v, phase, delay))
    /\ PushVfifo
    /\ UNCHANGED <<phase, delay, failCnt, i, d, j, workEnd, trackVars, window>>

(* Step 2 starts at phase 1: phase 0 is skipped, its time is not.          *)
PushFails ==
    /\ pc = "push" /\ MayFail(Time(v, phase, delay))
    /\ failCnt' = failCnt + 1
    /\ IF failCnt' = 2
       THEN /\ pc' = "begin" /\ p' = 1
            /\ tmpDelay' = 0 /\ workBgn' = OpaTap /\ origin' = v
            /\ UNCHANGED <<v, pushed, ret>>
       ELSE PushVfifo
    /\ UNCHANGED <<phase, delay, i, d, j, workEnd, trackVars, window>>

-----------------------------------------------------------------------------
(* Mutant: the time of the phase that is skipped is forgotten.             *)
NextBeginPhaseMutant ==
    \/ /\ p < PhaseMax
       /\ p' = p + 1 /\ workBgn' = workBgn + OpaTap
       /\ UNCHANGED <<pc, v, i, d, tmpDelay, ret>>
    \/ /\ p = PhaseMax /\ i < VfifoSize - 1
       /\ v' = IncrVfifo(v) /\ i' = i + 1
       /\ p' = 1 /\ workBgn' = workBgn + OpaTap
       /\ UNCHANGED <<pc, d, tmpDelay, ret>>
    \/ /\ p = PhaseMax /\ i = VfifoSize - 1
       /\ v' = IncrVfifo(v) /\ Return(0)
       /\ UNCHANGED <<i, p, d, workBgn, tmpDelay>>

(* Step 2: the first working phase; then again with one delay tap more.    *)
NextBeginPhase ==
    \/ /\ p < PhaseMax
       /\ p' = p + 1 /\ workBgn' = workBgn + OpaTap
       /\ UNCHANGED <<pc, v, i, d, tmpDelay, ret>>
    \/ /\ p = PhaseMax /\ i < VfifoSize - 1
       /\ v' = IncrVfifo(v) /\ i' = i + 1
       /\ p' = 1 /\ workBgn' = workBgn + 2 * OpaTap
       /\ UNCHANGED <<pc, d, tmpDelay, ret>>
    \/ /\ p = PhaseMax /\ i = VfifoSize - 1 /\ d < dtapsPerPtap
       /\ v' = IncrVfifo(v) /\ d' = d + 1 /\ i' = 0
       /\ p' = 1 /\ tmpDelay' = tmpDelay + DchainTap
       /\ workBgn' = tmpDelay' + OpaTap
       /\ UNCHANGED <<pc, ret>>
    \/ /\ p = PhaseMax /\ i = VfifoSize - 1 /\ d = dtapsPerPtap
       /\ v' = IncrVfifo(v) /\ Return(0)
       /\ UNCHANGED <<i, p, d, workBgn, tmpDelay>>

BeginFails ==
    /\ pc = "begin" /\ MayFail(Time(v, p, d))
    /\ phase' = p /\ delay' = d
    /\ NextBeginPhase
    /\ UNCHANGED <<pushVars, j, workEnd, trackVars, window>>

(* Found without delay taps: step 3a goes back one phase, unless that is   *)
(* phase 0.                                                                *)
BeginFound ==
    /\ pc = "begin" /\ d = 0 /\ MayPass(Time(v, p, d))
    /\ pc' = "backoff"
    /\ workEnd' = workBgn
    /\ p' = IF p = 1 THEN 1 ELSE p - 1
    /\ tmpDelay' = IF p = 1 THEN workBgn ELSE workBgn - OpaTap
    /\ phase' = p' /\ delay' = d
    /\ UNCHANGED <<v, pushVars, i, d, j, workBgn, trackVars, ret, window>>

(* Found with delay taps, the window is less than a phase: straight on to  *)
(* its end (step 3-5b).                                                    *)
BeginFoundNarrow ==
    /\ pc = "begin" /\ d # 0 /\ MayPass(Time(v, p, d))
    /\ pc' = "edge"
    /\ workEnd' = workBgn
    /\ phase' = p /\ delay' = d
    /\ UNCHANGED <<v, pushVars, loopVars, tmpDelay, workBgn, trackVars, ret,
                   window>>

-----------------------------------------------------------------------------
(* Step 3a ends: one phase forward to where the beginning was found, one   *)
(* more, and on to step 4a.                                                *)
ForwardToEnd ==
    /\ pc' = "end"
    /\ delay' = 0
    /\ p' = (p + 2) % (PhaseMax + 1)
    /\ v' = IF p + 2 > PhaseMax THEN IncrVfifo(v) ELSE v
    /\ workEnd' = workEnd + OpaTap
    /\ j' = 0

(* Step 3a: delay taps, up to the beginning already found.                 *)
BackoffFails ==
    /\ pc = "backoff" /\ d <= DelayMax /\ tmpDelay < workBgn
    /\ MayFail(Time(v, phase, d))
    /\ delay' = d
    /\ d' = d + 1 /\ tmpDelay' = tmpDelay + DchainTap
    /\ UNCHANGED <<pc, v, phase, pushVars, i, p, j, workBgn, workEnd,
                   trackVars, ret, window>>

BackoffPasses ==
    /\ pc = "backoff" /\ d <= DelayMax /\ tmpDelay < workBgn
    /\ MayPass(Time(v, phase, d))
    /\ workBgn' = tmpDelay
    /\ ForwardToEnd
    /\ UNCHANGED <<phase, pushVars, i, d, tmpDelay, trackVars, ret, window>>

BackoffOver ==
    /\ pc = "backoff" /\ ~(d <= DelayMax /\ tmpDelay < workBgn)
    /\ ForwardToEnd
    /\ UNCHANGED <<phase, pushVars, i, d, tmpDelay, workBgn, trackVars, ret,
                   window>>

-----------------------------------------------------------------------------
(* Step 4a: on in phases until a read fails.                               *)
NextEndPhase ==
    /\ workEnd' = workEnd + OpaTap /\ j' = 1
    /\ \/ /\ p < PhaseMax
          /\ p' = p + 1
          /\ UNCHANGED <<pc, v, i, ret>>
       \/ /\ p = PhaseMax
          /\ v' = IncrVfifo(v) /\ p' = 0 /\ i' = i + 1
          /\ IF i' < VfifoSize + 1 THEN UNCHANGED <<pc, ret>> ELSE Return(0)

(* Phase 0 is not tried, but counts as a try.                              *)
EndSkipsPhaseZero ==
    /\ pc = "end" /\ p = 0
    /\ NextEndPhase
    /\ UNCHANGED <<phase, delay, pushVars, d, tmpDelay, workBgn, trackVars,
                   window>>

EndPasses ==
    /\ pc = "end" /\ p # 0 /\ MayPass(Time(v, p, delay))
    /\ phase' = p
    /\ NextEndPhase
    /\ UNCHANGED <<delay, pushVars, d, tmpDelay, workBgn, trackVars, window>>

(* The first try fails: the beginning was not one, the search goes on.     *)
EndFuzzy ==
    /\ pc = "end" /\ p # 0 /\ j = 0 /\ MayFail(Time(v, p, delay))
    /\ phase' = p
    /\ workBgn' = workEnd
    /\ NextEndPhase
    /\ UNCHANGED <<delay, pushVars, d, tmpDelay, trackVars, window>>

(* Mutant: one phase back from phase 1 as well.                            *)
EndFoundMutant ==
    /\ pc = "end" /\ p # 0 /\ j = 1 /\ MayFail(Time(v, p, delay))
    /\ pc' = "edge"
    /\ p' = p - 1 /\ workEnd' = workEnd - OpaTap
    /\ phase' = p' /\ d' = 0
    /\ UNCHANGED <<v, delay, pushVars, i, j, tmpDelay, workBgn, trackVars, ret,
                   window>>

(* Step 5a: one phase back; from phase 1 that is two.                      *)
EndFound ==
    /\ pc = "end" /\ p # 0 /\ j = 1 /\ MayFail(Time(v, p, delay))
    /\ pc' = "edge"
    /\ IF p = 1
       THEN /\ p' = PhaseMax /\ v' = DecrVfifo(v)
            /\ workEnd' = workEnd - 2 * OpaTap
       ELSE /\ p' = p - 1 /\ workEnd' = workEnd - OpaTap
            /\ UNCHANGED v
    /\ phase' = p' /\ d' = 0
    /\ UNCHANGED <<delay, pushVars, i, j, tmpDelay, workBgn, trackVars, ret,
                   window>>

-----------------------------------------------------------------------------
(* Mutant: the range ends with the delay tap that fails.                   *)
EdgeDoneMutant ==
    /\ UNCHANGED workEnd
    /\ IF workEnd >= workBgn
       THEN /\ pc' = "passing"
            /\ p' = IF p \in {0, 1} THEN PhaseMax ELSE p - 1
            /\ v' = IF p \in {0, 1} THEN DecrVfifo(v) ELSE v
            /\ phase' = p'
            /\ initialFailingDtap' = d
            /\ UNCHANGED ret
       ELSE /\ Return(0)
            /\ UNCHANGED <<v, phase, p, initialFailingDtap>>

(* The last working delay tap, and the range; if there is one, one phase   *)
(* back to measure a phase in delay taps.                                  *)
EdgeDone ==
    /\ workEnd' = IF d # 0 THEN workEnd - DchainTap ELSE workEnd
    /\ IF workEnd' >= workBgn
       THEN /\ pc' = "passing"
            /\ p' = IF p \in {0, 1} THEN PhaseMax ELSE p - 1
            /\ v' = IF p \in {0, 1} THEN DecrVfifo(v) ELSE v
            /\ phase' = p'
            /\ initialFailingDtap' = d
            /\ UNCHANGED ret
       ELSE /\ Return(0)
            /\ UNCHANGED <<v, phase, p, initialFailingDtap>>

EdgePasses ==
    /\ pc = "edge" /\ d <= DelayMax /\ MayPass(Time(v, phase, d))
    /\ delay' = d
    /\ d' = d + 1 /\ workEnd' = workEnd + DchainTap
    /\ UNCHANGED <<pc, v, phase, pushVars, i, p, j, tmpDelay, workBgn,
                   trackVars, ret, window>>

EdgeFails ==
    /\ pc = "edge" /\ d <= DelayMax /\ MayFail(Time(v, phase, d))
    /\ delay' = d
    /\ EdgeDone
    /\ UNCHANGED <<pushVars, i, d, j, tmpDelay, workBgn, dtapsPerPtap, window>>

EdgeOver ==
    /\ pc = "edge" /\ d > DelayMax
    /\ EdgeDone
    /\ UNCHANGED <<delay, pushVars, i, d, j, tmpDelay, workBgn, dtapsPerPtap,
                   window>>

-----------------------------------------------------------------------------
(* Step 6: the centre of the range, less whole cycles, as the number of    *)
(* phases up to it and the delay taps from the last but one; phase 0 is    *)
(* replaced by the beginning of phase 1.                                   *)
SetCentre ==
    LET mid    == (workBgn + workEnd) \div 2
        inCycle == IF mid > Cycle THEN ((mid - 1) % Cycle) + 1 ELSE mid
        phases == CeilDiv(inCycle, OpaTap)
        dtaps  == CeilDiv(inCycle - (phases - 1) * OpaTap, DchainTap)
    IN  /\ phase' = IF phases = 1 THEN 1 ELSE phases - 1
        /\ delay' = IF phases = 1 THEN 0 ELSE dtaps
        /\ p' = phase' + 1 /\ d' = delay'
        /\ pc' = "settle" /\ i' = 0

(* Mutant: the delay tap stays the same.                                   *)
StillFailingMutant ==
    /\ pc = "passing" /\ d <= DelayMax /\ MayFail(Time(v, phase, d))
    /\ delay' = d
    /\ UNCHANGED <<pc, v, phase, pushVars, loopVars, workVars, trackVars, ret,
                   window>>

(* The delay tap at which reads pass again, and at which they fail again:  *)
(* their distance from the edge found first is a phase.                    *)
StillFailing ==
    /\ pc = "passing" /\ d <= DelayMax /\ MayFail(Time(v, phase, d))
    /\ delay' = d /\ d' = d + 1
    /\ UNCHANGED <<pc, v, phase, pushVars, i, p, j, workVars, trackVars, ret,
                   window>>

FoundPassing ==
    /\ pc = "passing" /\ d <= DelayMax /\ MayPass(Time(v, phase, d))
    /\ pc' = "failing"
    /\ delay' = d /\ d' = d + 1
    /\ UNCHANGED <<v, phase, pushVars, i, p, j, workVars, trackVars, ret,
                   window>>

StillPassing ==
    /\ pc = "failing" /\ d <= DelayMax /\ MayPass(Time(v, phase, d))
    /\ delay' = d /\ d' = d + 1
    /\ UNCHANGED <<pc, v, phase, pushVars, i, p, j, workVars, trackVars, ret,
                   window>>

FoundFailing ==
    /\ pc = "failing" /\ d <= DelayMax /\ MayFail(Time(v, phase, d))
    /\ dtapsPerPtap' = d - initialFailingDtap
    /\ SetCentre
    /\ UNCHANGED <<v, pushVars, j, workVars, initialFailingDtap, ret, window>>

(* Out of delay taps: the nominal number of them stays.                    *)
NotMeasured ==
    /\ pc \in {"passing", "failing"} /\ d > DelayMax
    /\ SetCentre
    /\ UNCHANGED <<v, pushVars, j, workVars, trackVars, ret, window>>

-----------------------------------------------------------------------------
(* Push the VFIFO until the centre reads.                                  *)
SettlePasses ==
    /\ pc = "settle" /\ MayPass(Time(v, phase, delay))
    /\ Return(1)
    /\ UNCHANGED <<hwVars, pushVars, loopVars, workVars, trackVars, window>>

(* Mutant: the VFIFO is not pushed.                                        *)
SettleFailsMutant ==
    /\ pc = "settle" /\ MayFail(Time(v, phase, delay))
    /\ i' = i + 1
    /\ IF i' < VfifoSize THEN UNCHANGED <<pc, ret>> ELSE Return(0)
    /\ UNCHANGED <<hwVars, pushVars, p, d, j, workVars, trackVars, window>>

SettleFails ==
    /\ pc = "settle" /\ MayFail(Time(v, phase, delay))
    /\ v' = IncrVfifo(v) /\ i' = i + 1
    /\ IF i' < VfifoSize THEN UNCHANGED <<pc, ret>> ELSE Return(0)
    /\ UNCHANGED <<phase, delay, pushVars, p, d, j, workVars, trackVars, window>>

-----------------------------------------------------------------------------
FindBegin == PushPasses \/ PushFails
             \/ BeginFails \/ BeginFound \/ BeginFoundNarrow
             \/ BackoffFails \/ BackoffPasses \/ BackoffOver

FindEnd == EndSkipsPhaseZero \/ EndPasses \/ EndFuzzy \/ EndFound
           \/ EdgePasses \/ EdgeFails \/ EdgeOver

Measure == StillFailing \/ FoundPassing \/ StillPassing \/ FoundFailing
           \/ NotMeasured

Next == Start \/ FindBegin \/ FindEnd \/ Measure
        \/ SettlePasses \/ SettleFails

(* The search runs straight through.                                       *)
Spec == Init /\ [][Next]_vars /\ WF_vars(Next)

-----------------------------------------------------------------------------
Locations == {"start", "push", "begin", "backoff", "end", "edge", "passing",
              "failing", "settle", "done"}

(* The variables have their types; no setting leaves the range of its      *)
(* register (the delays are 32 bit unsigned: they never go below zero),    *)
(* and the hard PHY is never set to phase 0, which it does not have,       *)
(* whichever way phases are counted.                                       *)
TypeOK ==
    /\ pc \in Locations
    /\ v \in 0 .. VfifoSize - 1
    /\ phase \in 1 .. PhaseMax /\ delay \in 0 .. DelayMax
    /\ pushed \in 0 .. VfifoSize /\ failCnt \in 0 .. 2
    /\ origin \in 0 .. VfifoSize - 1
    /\ i \in 0 .. VfifoSize + 1 /\ p \in 0 .. PhaseMax + 1
    /\ d \in 0 .. DelayMax + 1 /\ j \in {0, 1}
    /\ tmpDelay \in Nat /\ workBgn \in Nat /\ workEnd \in Nat
    /\ dtapsPerPtap \in 0 .. DelayMax /\ initialFailingDtap \in 0 .. DelayMax + 1
    /\ ret \in {0, 1}
    /\ window \in Windows

(* The times the search computes: where workBgn and workEnd are.           *)
TimeOf(work) == (origin * Cycle + work) % Total

(* "The window should be around one clock cycle wide": four phases at      *)
(* least, which is half a cycle of eight, not so wide that the setting     *)
(* before or after the centre reads too or that there are no two failing   *)
(* reads, and reliable.                                                    *)
UsualWindow ==
    /\ window.fuzz = 0
    /\ window.len \in 4 * OpaTap .. 2 * Cycle - 3 * OpaTap - 1
    /\ window.len <= Total - 2 * Cycle - 1

(* The range the search accepts reads, from one end to the other.          *)
RangeReads ==
    pc = "passing" /\ UsualWindow =>
        /\ After(TimeOf(workBgn)) <= window.len
        /\ After(TimeOf(workBgn)) + workEnd - workBgn <= window.len

(* Found: the DQS enable is in the window, no further than a phase tap and *)
(* half a delay tap from its centre.                                       *)
Centred ==
    pc = "done" /\ ret = 1 /\ UsualWindow =>
        LET off == 2 * After(Time(v, phase, delay)) - window.len
        IN  off \in -(2 * OpaTap + DchainTap) .. 2 * OpaTap + DchainTap

(* A usual window is found.                                                *)
FindsWindow == pc = "done" /\ UsualWindow => ret = 1

(* The search comes to an end, however the reads go.                       *)
Terminates == <>(pc = "done")

(* "calculate the number of dtaps that equal a ptap".                      *)
DtapsEqualPtap ==
    pc = "done" /\ ret = 1 /\ UsualWindow
        => dtapsPerPtap * DchainTap \in OpaTap - DchainTap .. OpaTap + DchainTap
=============================================================================
