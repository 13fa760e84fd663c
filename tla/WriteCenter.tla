---------------------------- MODULE WriteCenter ----------------------------
(***************************************************************************)
(* rw_mgr_mem_calibrate_writes_center() in                                 *)
(* hps_isw_handoff/soc_system_hps_0/sequencer.c: per-bit write deskew.     *)
(* First the DQ outputs: the left edge of each bit's window is searched by *)
(* delaying the DQ, the right edge by delaying DQS; then every DQ is       *)
(* delayed to have the strobe in the centre of its window (DQS is not      *)
(* moved on this board, ENABLE_DQS_OUT_CENTERING is not set).  Then the    *)
(* data mask, DM: the widest run of delays at which the whole group,       *)
(* masked, is written well.                                                *)
(*                                                                         *)
(* The memory is an oracle: a pin is written well when its offset, its     *)
(* delay less what DQS was moved, is in lo .. hi; within fuzz of those     *)
(* edges it may be either.                                                 *)
(***************************************************************************)
EXTENDS Deskew

CONSTANTS
    NumBits,     \* RW_MGR_MEM_DQ_PER_WRITE_DQS
    OutMax,      \* IO_IO_OUT1_DELAY_MAX
    StartDqs,    \* start_dqs: the reserve, IO_DQS_OUT_RESERVE
    Reach,       \* how far a window may reach beyond the delay chains
    MaxFuzz      \* how far from an edge a write may be unreliable

ASSUME WriteAssumption ==
    /\ NumBits \in Nat \ {0}
    /\ OutMax \in Nat /\ StartDqs \in 0 .. OutMax
    /\ Reach \in Nat /\ MaxFuzz \in Nat

Bits == 0 .. NumBits - 1

(* The only data mask of a group.                                          *)
Dm == NumBits

Pins == Bits \cup {Dm}

(* The value of an edge that has not been seen.                            *)
Illegal == OutMax + 1

(* Where windows may be.                                                   *)
Offsets == -(OutMax - StartDqs) - Reach .. OutMax + Reach

VARIABLES
    pc,
    d,                    \* the loop counter of all four searches
    dq, dm, dqs,          \* the output delays of each DQ, of DM and of DQS
    leftEdge, rightEdge,  \* for each bit
    sticky,               \* sticky_bit_chk, as the set of its bits
    dqCentred,            \* dq_margin >= 0 && dqs_margin >= 0
    bgnCurr, endCurr,     \* the run of passing tests that goes on
    bgnBest, endBest,     \* the longest run seen
    winBest,              \* its length
    ret,                  \* what the function returned
    lo, hi, fuzz          \* the windows of the memory, and how far from their
                          \* edges it is unreliable

pinVars  == <<dq, dm, dqs>>
edgeVars == <<leftEdge, rightEdge, sticky>>
currVars == <<bgnCurr, endCurr>>
bestVars == <<bgnBest, endBest, winBest>>
runVars  == <<currVars, bestVars>>
memVars  == <<lo, hi, fuzz>>
vars == <<pc, d, pinVars, edgeVars, dqCentred, runVars, ret, memVars>>

-----------------------------------------------------------------------------
Offset(delay, strobe) == delay - (strobe - StartDqs)

Surely(pin, offset) == offset \in lo[pin] + fuzz .. hi[pin] - fuzz
Maybe(pin, offset)  == offset \in lo[pin] - fuzz .. hi[pin] + fuzz

(* What rw_mgr_mem_calibrate_write_test (PASS_ONE_BIT) may leave in        *)
(* bit_chk with all DQ outputs at one delay.                               *)
WriteResults(delay, strobe) ==
    LET sure  == {b \in Bits : Surely(b, Offset(delay, strobe))}
        maybe == {b \in Bits : Maybe(b, Offset(delay, strobe))}
    IN  {sure \cup some : some \in SUBSET (maybe \ sure)}

(* The same test with the mask in use (PASS_ALL_BITS): DM and every DQ.    *)
MaskedMayPass(delay, strobe) ==
    /\ Maybe(Dm, Offset(delay, strobe))
    /\ \A b \in Bits : Maybe(b, Offset(dq[b], strobe))

MaskedMayFail(delay, strobe) ==
    \/ ~Surely(Dm, Offset(delay, strobe))
    \/ \E b \in Bits : ~Surely(b, Offset(dq[b], strobe))

-----------------------------------------------------------------------------
Init ==
    /\ pc = "left" /\ d = 0
    /\ dq = [b \in Bits |-> 0] /\ dm = 0 /\ dqs = StartDqs
    /\ leftEdge = [b \in Bits |-> Illegal]
    /\ rightEdge = [b \in Bits |-> Illegal]
    /\ sticky = {}
    /\ dqCentred = 0
    /\ bgnCurr = Illegal /\ endCurr = Illegal
    /\ bgnBest = Illegal /\ endBest = Illegal /\ winBest = 0
    /\ ret = 0
    /\ lo \in [Pins -> Offsets]
    /\ hi \in [Pins -> Offsets]
    /\ fuzz \in 0 .. MaxFuzz
    /\ \A pin \in Pins : lo[pin] <= hi[pin]

(***************************************************************************)
(* The DQ windows.                                                         *)
(***************************************************************************)

(* A passing test moves the left edge; one that fails before any has       *)
(* passed marks where the right edge would be.                             *)
RecordLeft(passing) ==
    /\ leftEdge' = [b \in Bits |-> IF b \in passing THEN d ELSE leftEdge[b]]
    /\ rightEdge' = [b \in Bits |->
          IF b \notin passing /\ leftEdge[b] = Illegal
          THEN -(d + 1) ELSE rightEdge[b]]

(* The search stops when no bit is written well any more and every has.    *)
LeftTest(passing) ==
    /\ sticky' = sticky \cup passing
    /\ IF passing = {} /\ sticky' = Bits
       THEN pc' = "reset" /\ UNCHANGED <<d, leftEdge, rightEdge>>
       ELSE /\ RecordLeft(passing)
            /\ d' = d + 1
            /\ pc' = IF d < OutMax THEN "left" ELSE "reset"

SearchLeft ==
    /\ pc = "left"
    /\ dq' = [b \in Bits |-> d]
    /\ \E passing \in WriteResults(d, dqs) : LeftTest(passing)
    /\ UNCHANGED <<dm, dqs, dqCentred, runVars, ret, memVars>>

(* Mutant: no bit needs to be seen again.                                  *)
ResetEdgesMutant ==
    /\ pc = "reset"
    /\ pc' = "right" /\ d' = 0
    /\ dq' = [b \in Bits |-> 0]
    /\ rightEdge' = [b \in Bits |->
          IF leftEdge[b] = Illegal THEN Illegal ELSE rightEdge[b]]
    /\ sticky' = Bits
    /\ UNCHANGED <<dm, dqs, leftEdge, dqCentred, runVars, ret, memVars>>

(* Without a left edge the mark of the right edge is not one.  Bits whose  *)
(* left edge is known need not be seen again.                              *)
ResetEdges ==
    /\ pc = "reset"
    /\ pc' = "right" /\ d' = 0
    /\ dq' = [b \in Bits |-> 0]
    /\ rightEdge' = [b \in Bits |->
          IF leftEdge[b] = Illegal THEN Illegal ELSE rightEdge[b]]
    /\ sticky' = {b \in Bits : leftEdge[b] # Illegal}
    /\ UNCHANGED <<dm, dqs, leftEdge, dqCentred, runVars, ret, memVars>>

Unseen(b) == rightEdge[b] = Illegal

(* A bit written well undelayed before, and not now.                       *)
Marginal(b) == d = 0 /\ leftEdge[b] # Illegal

RecordRight(passing) ==
    /\ rightEdge' = [b \in Bits |->
          IF b \in passing THEN d
          ELSE IF Unseen(b) /\ Marginal(b) THEN -1 ELSE rightEdge[b]]
    /\ leftEdge' = [b \in Bits |->
          IF b \notin passing /\ Unseen(b) /\ ~Marginal(b)
          THEN -(d + 1) ELSE leftEdge[b]]

(* The last test is recorded only if it is the first as well.              *)
StopRight ==
    /\ pc' = "center"
    /\ rightEdge' = [b \in Bits |->
          IF Unseen(b) /\ Marginal(b) THEN -1 ELSE rightEdge[b]]
    /\ UNCHANGED <<d, leftEdge>>

RightTest(passing) ==
    /\ sticky' = sticky \cup passing
    /\ IF passing = {} /\ sticky' = Bits
       THEN StopRight
       ELSE /\ RecordRight(passing)
            /\ d' = d + 1
            /\ pc' = IF d < OutMax - StartDqs THEN "right" ELSE "center"

SearchRight ==
    /\ pc = "right"
    /\ dqs' = StartDqs + d
    /\ \E passing \in WriteResults(0, dqs') : RightTest(passing)
    /\ UNCHANGED <<dq, dm, dqCentred, runVars, ret, memVars>>

(* An edge is missing: DQS stays where the search left it.                 *)
NoWindow ==
    /\ pc = "center"
    /\ \E b \in Bits : leftEdge[b] = Illegal \/ rightEdge[b] = Illegal
    /\ pc' = "done" /\ ret' = 0
    /\ UNCHANGED <<d, pinVars, edgeVars, dqCentred, runVars, memVars>>

(* Where the window of a bit has its centre, twice.                        *)
MidOf(b) == leftEdge[b] - rightEdge[b]

(* Mutant: the whole of what is between the centres, twice too much.       *)
ShiftDqMutant(b, minIndex) ==
    Clamp(MidOf(b) - MidOf(minIndex) + HalfUp(MidOf(minIndex)), OutMax)

(* shift_dq: to the centre of the bit whose window is furthest to the      *)
(* right, and what is between the centres.                                 *)
ShiftDq(b, minIndex) ==
    Clamp(Half(MidOf(b) - MidOf(minIndex)) + HalfUp(MidOf(minIndex)), OutMax)

(* Mutant: a margin of zero is none.                                       *)
HasMarginsMutant(b, shift) == leftEdge[b] - shift > 0 /\ rightEdge[b] + shift > 0

(* Neither margin of a bit is negative.                                    *)
HasMargins(b, shift) == leftEdge[b] - shift >= 0 /\ rightEdge[b] + shift >= 0

(* Every DQ is delayed; DQS goes back.  The search for DM starts at the    *)
(* end of its delay chain.                                                 *)
CenterDq ==
    /\ pc = "center"
    /\ \A b \in Bits : leftEdge[b] # Illegal /\ rightEdge[b] # Illegal
    /\ \E minIndex \in Bits :
          /\ \A b \in Bits : MidOf(minIndex) <= MidOf(b)
          /\ dq' = [b \in Bits |-> ShiftDq(b, minIndex)]
    /\ dqCentred' = IF \A b \in Bits : HasMargins(b, dq'[b]) THEN 1 ELSE 0
    /\ dqs' = StartDqs
    /\ pc' = "dm" /\ d' = OutMax
    /\ UNCHANGED <<dm, edgeVars, runVars, ret, memVars>>

-----------------------------------------------------------------------------
(***************************************************************************)
(* The DM window.  Places in it are counted from left to right: -d is d    *)
(* taps of DM, d is d taps of DQS.                                         *)
(***************************************************************************)

(* A passing test: the run goes on, or begins, and may be the longest.     *)
ExtendRun(place) ==
    /\ endCurr' = place
    /\ bgnCurr' = IF bgnCurr = Illegal THEN place ELSE bgnCurr
    /\ IF endCurr' - bgnCurr' + 1 > winBest
       THEN /\ bgnBest' = bgnCurr' /\ endBest' = endCurr'
            /\ winBest' = endCurr' - bgnCurr' + 1
       ELSE UNCHANGED bestVars

EndRun == bgnCurr' = Illegal /\ endCurr' = Illegal

DmPasses ==
    /\ pc = "dm" /\ d >= 0
    /\ dm' = d /\ MaskedMayPass(d, dqs)
    /\ ExtendRun(-d)
    /\ d' = d - 1
    /\ UNCHANGED <<pc, dq, dqs, edgeVars, dqCentred, ret, memVars>>

DmFails ==
    /\ pc = "dm" /\ d >= 0
    /\ dm' = d /\ MaskedMayFail(d, dqs)
    /\ EndRun
    /\ d' = d - 1
    /\ UNCHANGED <<pc, dq, dqs, edgeVars, dqCentred, bestVars, ret, memVars>>

(* Mutant: no run goes on with DQS.                                        *)
DmOverMutant ==
    /\ pc = "dm" /\ d < 0
    /\ pc' = "dqs" /\ d' = 0
    /\ dm' = 0
    /\ EndRun
    /\ UNCHANGED <<dq, dqs, edgeVars, dqCentred, bestVars, ret, memVars>>

(* DM goes back to 0.  A run that has reached 0 goes on with DQS.          *)
DmOver ==
    /\ pc = "dm" /\ d < 0
    /\ pc' = "dqs" /\ d' = 0
    /\ dm' = 0
    /\ IF endCurr # 0 THEN EndRun ELSE UNCHANGED currVars
    /\ UNCHANGED <<dq, dqs, edgeVars, dqCentred, bestVars, ret, memVars>>

DqsPasses ==
    /\ pc = "dqs" /\ d <= OutMax - StartDqs
    /\ dqs' = StartDqs + d /\ MaskedMayPass(dm, dqs')
    /\ ExtendRun(d)
    /\ d' = d + 1
    /\ UNCHANGED <<pc, dq, dm, edgeVars, dqCentred, ret, memVars>>

(* A longer run than the longest no longer fits in what is left.           *)
DqsFails ==
    /\ pc = "dqs" /\ d <= OutMax - StartDqs
    /\ dqs' = StartDqs + d /\ MaskedMayFail(dm, dqs')
    /\ EndRun
    /\ IF winBest - 1 > OutMax - StartDqs - d
       THEN pc' = "finish" /\ UNCHANGED d
       ELSE d' = d + 1 /\ UNCHANGED pc
    /\ UNCHANGED <<dq, dm, edgeVars, dqCentred, bestVars, ret, memVars>>

DqsOver ==
    /\ pc = "dqs" /\ d > OutMax - StartDqs
    /\ pc' = "finish"
    /\ UNCHANGED <<d, pinVars, edgeVars, dqCentred, runVars, ret, memVars>>

(* Mutant: a run that is out of DM's reach counts.                         *)
DmMarginMutant(mid) == IF winBest = 0 THEN -1 ELSE 0

DmMargin(mid) == IF winBest = 0 THEN -1 ELSE -bgnBest - mid

(* DM goes to the middle of the run, if that is to the right; DQS back.    *)
CenterDm ==
    /\ pc = "finish"
    /\ LET half == Half(-bgnBest - endBest)
           mid  == IF half < 0 THEN 0 ELSE half
       IN  /\ dm' = mid
           /\ ret' = IF dqCentred = 1 /\ DmMargin(mid) >= 0 THEN 1 ELSE 0
    /\ dqs' = StartDqs
    /\ pc' = "done"
    /\ UNCHANGED <<d, dq, edgeVars, dqCentred, runVars, memVars>>

-----------------------------------------------------------------------------
SearchDm == DmPasses \/ DmFails \/ DmOver \/ DqsPasses \/ DqsFails \/ DqsOver

Next ==
    \/ SearchLeft \/ ResetEdges \/ SearchRight \/ NoWindow \/ CenterDq
    \/ SearchDm \/ CenterDm

Spec == Init /\ [][Next]_vars

-----------------------------------------------------------------------------
LeftEdges  == -(OutMax + 1) .. Illegal
RightEdges == -(OutMax + 1) .. Illegal
Places     == -OutMax .. Illegal

(* The variables have their types; no delay leaves its delay chain, and no *)
(* edge is beyond what has been tried.                                     *)
TypeOK ==
    /\ pc \in {"left", "reset", "right", "center", "dm", "dqs", "finish",
               "done"}
    /\ d \in -1 .. OutMax + 1
    /\ dq \in [Bits -> 0 .. OutMax]
    /\ dm \in 0 .. OutMax /\ dqs \in 0 .. OutMax
    /\ leftEdge \in [Bits -> LeftEdges] /\ rightEdge \in [Bits -> RightEdges]
    /\ sticky \in SUBSET Bits
    /\ dqCentred \in {0, 1} /\ ret \in {0, 1}
    /\ bgnCurr \in Places /\ endCurr \in Places
    /\ bgnBest \in Places /\ endBest \in Places
    /\ winBest \in 0 .. 2 * OutMax + 1
    /\ lo \in [Pins -> Offsets] /\ hi \in [Pins -> Offsets]
    /\ fuzz \in 0 .. MaxFuzz

(* Success: every DQ and the mask are written well with the delays that    *)
(* are left in the hardware.                                               *)
EveryPinWrites ==
    pc = "done" /\ ret = 1 =>
        /\ \A b \in Bits : Maybe(b, Offset(dq[b], dqs))
        /\ Maybe(Dm, Offset(dm, dqs))

(* What of a window the two searches can see.                              *)
Visible(b) == lo[b] <= OutMax /\ hi[b] >= -(OutMax - StartDqs)
WhollyVisible(b) == lo[b] >= -(OutMax - StartDqs) /\ hi[b] <= OutMax
Least(m, n) == IF m <= n THEN m ELSE n

(* The edges are those of a reliable memory, cut off at the ends of the    *)
(* delay chains.                                                           *)
EdgesAreTrue ==
    pc = "center" /\ fuzz = 0 =>
        \A b \in Bits :
            IF Visible(b)
            THEN /\ leftEdge[b] = Least(hi[b], OutMax)
                 /\ rightEdge[b] = Least(-lo[b], OutMax - StartDqs)
            ELSE leftEdge[b] = Illegal \/ rightEdge[b] = Illegal

(* Unless its delay chain is too short, a DQ ends in the middle of its     *)
(* window, to within the rounding.                                         *)
Centred ==
    pc = "done" /\ ret = 1 /\ fuzz = 0 =>
        \A b \in Bits :
            \/ dq[b] \in {0, OutMax}
            \/ ~WhollyVisible(b)
            \/ 2 * dq[b] - (lo[b] + hi[b]) \in -1 .. 1

(* The places at which the group is written well, masked.                  *)
GoodPlaces ==
    {x \in -OutMax .. OutMax - StartDqs :
        /\ -x \in lo[Dm] .. hi[Dm]
        /\ \A b \in Bits : dq[b] - (IF x > 0 THEN x ELSE 0) \in lo[b] .. hi[b]}

(* The run the search for DM ends with is all of them, wherever it starts  *)
(* and although the search may stop early.                                 *)
WidestRun ==
    pc = "finish" /\ fuzz = 0 =>
        IF GoodPlaces = {} THEN winBest = 0 ELSE bgnBest .. endBest = GoodPlaces

(* It finds delays if every pin is written well at some delay it can have  *)
(* without a move of DQS.                                                  *)
FindsDelays ==
    /\ pc = "done" /\ fuzz = 0
    /\ \A b \in Bits : WhollyVisible(b)
    /\ \A pin \in Pins : lo[pin] <= OutMax /\ hi[pin] >= 0
    => ret = 1
=============================================================================
