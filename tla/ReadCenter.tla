----------------------------- MODULE ReadCenter -----------------------------
(***************************************************************************)
(* rw_mgr_mem_calibrate_vfifo_center() in                                  *)
(* hps_isw_handoff/soc_system_hps_0/sequencer.c: per-bit read deskew.  The *)
(* left edge of the window of every DQ bit is searched by delaying the DQ  *)
(* inputs, the right edge by delaying DQS; then DQS and every DQ input are *)
(* set so that the windows have a common centre.                           *)
(*                                                                         *)
(* The memory is an oracle: bit b reads well when its offset, the delay of *)
(* DQ less what DQS was moved, is in lo[b] .. hi[b]; within fuzz of those  *)
(* edges it may do either.  DQS enable is not shifted along on this board  *)
(* (IO_SHIFT_DQS_EN_WHEN_SHIFT_DQS is 0).                                  *)
(***************************************************************************)
EXTENDS Deskew

CONSTANTS
    NumBits,     \* RW_MGR_MEM_DQ_PER_READ_DQS
    DqMax,       \* IO_IO_IN_DELAY_MAX
    DqsMax,      \* IO_DQS_IN_DELAY_MAX
    Reach,       \* no window reaches further to either side
    MaxFuzz      \* how far from an edge a read may be unreliable

ASSUME CenterAssumption ==
    /\ NumBits \in Nat \ {0}
    /\ DqMax \in Nat /\ DqsMax \in 0 .. DqMax
    /\ Reach \in Nat /\ MaxFuzz \in Nat

Bits == 0 .. NumBits - 1

(* The value of an edge that has not been seen.                            *)
Illegal == DqMax + 1

VARIABLES
    pc,
    d,                    \* the loop counter of both searches
    dq,                   \* the input delay of each DQ
    dqs,                  \* the DQS input delay
    startDqs,             \* start_dqs
    leftEdge, rightEdge,  \* for each bit
    sticky,               \* sticky_bit_chk, as the set of its bits
    ret,                  \* what the function returned
    lo, hi, fuzz          \* the windows of the memory, and how far from their
                          \* edges it is unreliable

sweepVars == <<d, leftEdge, rightEdge, sticky>>
memVars   == <<startDqs, lo, hi, fuzz>>
vars == <<pc, sweepVars, dq, dqs, ret, memVars>>

-----------------------------------------------------------------------------
Offset(delay, strobe) == delay - (strobe - startDqs)

(* What rw_mgr_mem_calibrate_read_test (PASS_ONE_BIT) may leave in         *)
(* bit_chk with all DQ inputs at one delay.                                *)
ReadResults(delay, strobe) ==
    LET off == Offset(delay, strobe)
        sure   == {b \in Bits : off \in lo[b] + fuzz .. hi[b] - fuzz}
        maybe  == {b \in Bits : off \in lo[b] - fuzz .. hi[b] + fuzz}
    IN  {sure \cup some : some \in SUBSET (maybe \ sure)}

-----------------------------------------------------------------------------
Init ==
    /\ pc = "left" /\ d = 0
    /\ startDqs \in 0 .. DqsMax /\ dqs = startDqs
    /\ dq = [b \in Bits |-> 0]
    /\ leftEdge = [b \in Bits |-> Illegal]
    /\ rightEdge = [b \in Bits |-> Illegal]
    /\ sticky = {}
    /\ ret = 0
    /\ lo \in [Bits -> -Reach .. Reach]
    /\ hi \in [Bits -> -Reach .. Reach]
    /\ fuzz \in 0 .. MaxFuzz
    /\ \A b \in Bits : lo[b] <= hi[b]

(* A passing test moves the left edge; one that fails before any has       *)
(* passed marks where the right edge would be.                             *)
RecordLeft(passing) ==
    /\ leftEdge' = [b \in Bits |-> IF b \in passing THEN d ELSE leftEdge[b]]
    /\ rightEdge' = [b \in Bits |->
          IF b \notin passing /\ leftEdge[b] = Illegal
          THEN -(d + 1) ELSE rightEdge[b]]

(* The search stops when no bit reads any more and every bit has.          *)
LeftTest(passing) ==
    /\ sticky' = sticky \cup passing
    /\ IF passing = {} /\ sticky' = Bits
       THEN pc' = "reset" /\ UNCHANGED <<d, leftEdge, rightEdge>>
       ELSE /\ RecordLeft(passing)
            /\ d' = d + 1
            /\ pc' = IF d < DqMax THEN "left" ELSE "reset"

SearchLeft ==
    /\ pc = "left"
    /\ dq' = [b \in Bits |-> d]
    /\ \E passing \in ReadResults(d, dqs) : LeftTest(passing)
    /\ UNCHANGED <<dqs, ret, memVars>>

(* Mutant: a mark without a left edge is kept.                             *)
ResetEdgesMutant ==
    /\ pc = "reset"
    /\ pc' = "right" /\ d' = 0
    /\ dq' = [b \in Bits |-> 0]
    /\ sticky' = {b \in Bits : leftEdge[b] # Illegal /\ rightEdge[b] # Illegal}
    /\ UNCHANGED <<leftEdge, rightEdge, dqs, ret, memVars>>

(* Without a left edge the mark of the right edge is not one.  Bits whose  *)
(* edges are both known need not be seen again.                            *)
ResetEdges ==
    /\ pc = "reset"
    /\ pc' = "right" /\ d' = 0
    /\ dq' = [b \in Bits |-> 0]
    /\ rightEdge' = [b \in Bits |->
          IF leftEdge[b] = Illegal THEN Illegal ELSE rightEdge[b]]
    /\ sticky' = {b \in Bits : leftEdge[b] # Illegal /\ rightEdge[b] # Illegal}
    /\ UNCHANGED <<leftEdge, dqs, ret, memVars>>

(* The same for the right edge.  A bit that has read well undelayed and    *)
(* does not now is marginal: its right edge is at -1.                      *)
RecordRight(passing) ==
    LET unseen(b)   == b \notin passing /\ rightEdge[b] = Illegal
        marginal(b) == d = 0 /\ leftEdge[b] # Illegal
    IN  /\ rightEdge' = [b \in Bits |->
              IF b \in passing THEN d
              ELSE IF unseen(b) /\ marginal(b) THEN -1 ELSE rightEdge[b]]
        /\ leftEdge' = [b \in Bits |->
              IF unseen(b) /\ ~marginal(b) THEN -(d + 1) ELSE leftEdge[b]]

RightTest(passing) ==
    /\ sticky' = sticky \cup passing
    /\ IF passing = {} /\ sticky' = Bits
       THEN pc' = "center" /\ UNCHANGED <<d, leftEdge, rightEdge>>
       ELSE /\ RecordRight(passing)
            /\ d' = d + 1
            /\ pc' = IF d < DqsMax - startDqs THEN "right" ELSE "center"

SearchRight ==
    /\ pc = "right"
    /\ dqs' = startDqs + d
    /\ \E passing \in ReadResults(0, dqs') : RightTest(passing)
    /\ UNCHANGED <<dq, ret, memVars>>

(* An edge is missing: DQS is set back for the caller to retry.            *)
NoWindow ==
    /\ pc = "center"
    /\ \E b \in Bits : leftEdge[b] = Illegal \/ rightEdge[b] = Illegal
    /\ pc' = "done" /\ ret' = 0
    /\ dqs' = startDqs
    /\ UNCHANGED <<sweepVars, dq, memVars>>

(* Where the window of a bit has its centre, twice.                        *)
MidOf(b) == leftEdge[b] - rightEdge[b]

(* How far the centre of the bit minIndex is from where the bits are; one  *)
(* more if that is positive, to round to the right.                        *)
OrigMidMin(minIndex) == HalfUp(MidOf(minIndex))

(* Mutant: the whole of what is between the centres, twice too much.       *)
ShiftDqMutant(b, minIndex, midMin) ==
    Clamp(MidOf(b) - MidOf(minIndex) + OrigMidMin(minIndex) - midMin, DqMax)

(* shift_dq: what is between the centres, and what DQS could not move.     *)
ShiftDq(b, minIndex, midMin) ==
    Clamp(Half(MidOf(b) - MidOf(minIndex)) + OrigMidMin(minIndex) - midMin,
          DqMax)

(* Mutants: only one of the two margins counts; a margin of zero is none.  *)
HasMarginsLeft(b, shift, midMin)   == leftEdge[b] - shift - midMin >= 0
HasMarginsStrict(b, shift, midMin) ==
    leftEdge[b] - shift - midMin > 0 /\ rightEdge[b] + shift + midMin > 0

(* Neither margin of a bit is negative.                                    *)
HasMargins(b, shift, midMin) ==
    leftEdge[b] - shift - midMin >= 0 /\ rightEdge[b] + shift + midMin >= 0

(* DQS takes the bit whose window is furthest to the right to its centre;  *)
(* the other bits are delayed to match.                                    *)
Center ==
    /\ pc = "center"
    /\ \A b \in Bits : leftEdge[b] # Illegal /\ rightEdge[b] # Illegal
    /\ \E minIndex \in Bits :
          /\ \A b \in Bits : MidOf(minIndex) <= MidOf(b)
          /\ dqs' = Clamp(startDqs - OrigMidMin(minIndex), DqsMax)
          /\ dq' = [b \in Bits |-> ShiftDq(b, minIndex, startDqs - dqs')]
    /\ ret' = IF \A b \in Bits : HasMargins(b, dq'[b], startDqs - dqs')
              THEN 1 ELSE 0
    /\ pc' = "done"
    /\ UNCHANGED <<sweepVars, memVars>>

Next == SearchLeft \/ ResetEdges \/ SearchRight \/ NoWindow \/ Center

Spec == Init /\ [][Next]_vars

-----------------------------------------------------------------------------
LeftEdges  == -(DqsMax + 1) .. Illegal
RightEdges == -(DqMax + 1) .. Illegal

(* The variables have their types; no delay leaves its delay chain, and an *)
(* edge is never beyond what has been tried.                               *)
TypeOK ==
    /\ pc \in {"left", "reset", "right", "center", "done"}
    /\ d \in 0 .. DqMax + 1
    /\ dq \in [Bits -> 0 .. DqMax] /\ dqs \in 0 .. DqsMax
    /\ startDqs \in 0 .. DqsMax
    /\ leftEdge \in [Bits -> LeftEdges] /\ rightEdge \in [Bits -> RightEdges]
    /\ sticky \in SUBSET Bits
    /\ ret \in {0, 1}
    /\ lo \in [Bits -> -Reach .. Reach]
    /\ hi \in [Bits -> -Reach .. Reach]
    /\ fuzz \in 0 .. MaxFuzz

(* Success: every bit reads with the delays it leaves in the hardware.     *)
EveryBitReads ==
    pc = "done" /\ ret = 1 =>
        \A b \in Bits : Offset(dq[b], dqs) \in lo[b] - fuzz .. hi[b] + fuzz

(* What of a window the two searches can see.                              *)
Visible(b) == lo[b] <= DqMax /\ hi[b] >= -(DqsMax - startDqs)
WhollyVisible(b) == lo[b] >= -(DqsMax - startDqs) /\ hi[b] <= DqMax
Least(m, n) == IF m <= n THEN m ELSE n

(* The edges are those of a reliable memory, cut off at the ends of the    *)
(* delay chains, whichever search saw them and wherever it stopped.        *)
EdgesAreTrue ==
    pc = "center" /\ fuzz = 0 =>
        \A b \in Bits :
            IF Visible(b)
            THEN /\ leftEdge[b] = Least(hi[b], DqMax)
                 /\ rightEdge[b] = Least(-lo[b], DqsMax - startDqs)
            ELSE leftEdge[b] = Illegal \/ rightEdge[b] = Illegal

(* Unless a delay chain is too short, a bit ends in the middle of its      *)
(* window, to within the rounding.                                         *)
Centred ==
    pc = "done" /\ ret = 1 /\ fuzz = 0 =>
        \A b \in Bits :
            \/ dq[b] \in {0, DqMax} \/ dqs \in {0, DqsMax}
            \/ ~WhollyVisible(b)
            \/ 2 * Offset(dq[b], dqs) - (lo[b] + hi[b]) \in -2 .. 2

(* No DQ need be delayed more than it can to have its centre where the     *)
(* others have theirs, and DQS can be moved there.                         *)
Mid(b) == lo[b] + hi[b]
Reachable ==
    /\ \A b, c \in Bits : Mid(b) - Mid(c) <= 2 * DqMax
    /\ \E b \in Bits : /\ \A c \in Bits : Mid(b) <= Mid(c)
                       /\ 2 * startDqs - Mid(b) \in 0 .. 2 * DqsMax

(* It finds delays if it saw all of every window and they are reachable.   *)
FindsDelays ==
    /\ pc = "done" /\ fuzz = 0
    /\ Reachable /\ \A b \in Bits : WhollyVisible(b)
    => ret = 1
=============================================================================
