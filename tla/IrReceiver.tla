----------------------------- MODULE IrReceiver -----------------------------
(***************************************************************************)
(* ip/TERASIC_IRM: irda_receive_terasic.v decodes the pulses of an infrared*)
(* remote control, and TERASIC_IRM.v raises an interrupt for each frame.   *)
(* A frame is a long low, a long high (the guide) and NBits pulses whose   *)
(* high part is short for 0 and long for 1; its last quarter is the        *)
(* complement of the one before.                                           *)
(*                                                                         *)
(* Every always block is a conjunct of the clock and reads the registers   *)
(* as they were before it: counters lag their enables by a clock, and these*)
(* lag the line.  The line and the software's accesses are arbitrary.      *)
(***************************************************************************)
EXTENDS Naturals, Sequences

CONSTANTS
    NBits,          \* 32
    BitAvailable,   \* 20000: highs that are shorter are noise
    DataHigh,       \* DATA_HIGH_DUR, 41500: a high that is this long is a 1
    GuideHigh,      \* GUIDE_HIGH_DUR, 210000
    GuideLow,       \* GUIDE_LOW_DUR, 230000
    IdleHigh        \* IDLE_HIGH_DUR, 262143: the largest value of a counter

ASSUME DurationAssumption ==
    /\ {NBits, BitAvailable, DataHigh, GuideHigh, GuideLow, IdleHigh} \subseteq Nat
    /\ NBits % 4 = 0 /\ NBits > 0
    /\ 0 < BitAvailable /\ BitAvailable < DataHigh /\ DataHigh < GuideHigh
    /\ GuideHigh < GuideLow /\ GuideLow < IdleHigh

VARIABLES
    ir,                         \* the line
    state,                      \* IDLE, GUIDANCE or DATAREAD
    idleFlag, idleCount,        \* lows of the guide
    stateFlag, stateCount,      \* highs of the guide
    dataFlag, dataCount,        \* highs of a pulse
    bitCount,                   \* pulses so far
    data, buf, oData,           \* DATA, DATA_BUF, oDATA
    ready, preReady, irq,       \* DATA_REAY, pre_data_ready, irq
    high,                       \* history: length of the high of this pulse
    longs,                      \* history: of each pulse, whether it was long
    raised                      \* history: interrupts since the guide

decoder == <<state, idleFlag, idleCount, stateFlag, stateCount, dataFlag, dataCount,
             bitCount, data>>
vars == <<ir, decoder, buf, oData, ready, preReady, irq, high, longs, raised>>

Bits == 0 .. NBits - 1
Zero == [i \in Bits |-> 0]

(* A counter of 18 bits.                                                   *)
Count(flag, n) == IF flag THEN (n + 1) % (IdleHigh + 1) ELSE 0

Init ==
    /\ ir = 1
    /\ state = "IDLE"
    /\ idleFlag = FALSE /\ idleCount = 0
    /\ stateFlag = FALSE /\ stateCount = 0
    /\ dataFlag = FALSE /\ dataCount = 0
    /\ bitCount = 0
    /\ data = Zero /\ buf = Zero /\ oData = Zero
    /\ ready = FALSE /\ preReady = FALSE /\ irq = FALSE
    /\ high = 0 /\ longs = <<>> /\ raised = 0
-----------------------------------------------------------------------------
(* The state machine.                                                      *)
(* Mutant: the guide ends with the first pulse.                            *)
guideOverMutant == stateCount > GuideHigh /\ ir = 0

guideOver == stateCount > GuideHigh

(* Mutant: one pulse more.                                                 *)
frameOverLate == dataCount >= IdleHigh \/ bitCount > NBits + 1

(* The line has been high for too long, or one pulse more than a frame has.*)
frameOver == dataCount >= IdleHigh \/ bitCount >= NBits + 1

GuideStarts == state = "IDLE" /\ idleCount > GuideLow /\ state' = "GUIDANCE"
GuideEnds == state = "GUIDANCE" /\ guideOver /\ state' = "DATAREAD"
FrameEnds == state = "DATAREAD" /\ frameOver /\ state' = "IDLE"

StateHeld ==
    /\ \/ state = "IDLE" /\ ~(idleCount > GuideLow)
       \/ state = "GUIDANCE" /\ ~guideOver
       \/ state = "DATAREAD" /\ ~frameOver
    /\ state' = state

Counters ==
    /\ idleFlag' = (state = "IDLE" /\ ir = 0)
    /\ stateFlag' = (state = "GUIDANCE" /\ ir = 1)
    /\ dataFlag' = (state = "DATAREAD" /\ ir = 1)
    /\ idleCount' = Count(idleFlag, idleCount)
    /\ stateCount' = Count(stateFlag, stateCount)
    /\ dataCount' = Count(dataFlag, dataCount)

(* Mutant: counted as soon as the line is high.                            *)
PointerMutant ==
    bitCount' = IF state # "DATAREAD" THEN 0
                ELSE IF dataCount = 1 THEN bitCount + 1 ELSE bitCount

(* The pointer moves once a pulse, when it is long enough to be one.       *)
Pointer ==
    bitCount' = IF state # "DATAREAD" THEN 0
                ELSE IF dataCount = BitAvailable THEN bitCount + 1 ELSE bitCount

(* The bit is set once the pulse is long enough; there is none before the  *)
(* first pulse, nor for the one after the last.                            *)
Sample ==
    data' = IF state # "DATAREAD" THEN Zero
            ELSE IF dataCount >= DataHigh /\ bitCount \in 1 .. NBits
                 THEN [data EXCEPT ![bitCount - 1] = 1]
                 ELSE data

Checks(d) ==
    LET quarter == NBits \div 4 IN
    \A i \in 0 .. quarter - 1 : d[3 * quarter + i] = 1 - d[2 * quarter + i]

(* Mutant: not while the line is high.                                     *)
AnnounceMutant ==
    /\ ready' = (bitCount = NBits /\ ir = 0 /\ Checks(data))
    /\ buf' = IF ready' THEN data ELSE buf

Announce ==
    /\ ready' = (bitCount = NBits /\ Checks(data))
    /\ buf' = IF ready' THEN data ELSE buf

(* The software may read, and write to clear the interrupt.                *)
Bus ==
    /\ \E read \in BOOLEAN : oData' = IF read /\ ready THEN buf ELSE oData
    /\ preReady' = ready
    /\ \E write \in BOOLEAN : irq' = IF ~preReady /\ ready THEN TRUE
                                     ELSE IF write THEN FALSE ELSE irq

History ==
    /\ high' = IF state # "DATAREAD" \/ ir = 0 THEN 0
               ELSE IF high < DataHigh THEN high + 1 ELSE high
    /\ longs' = IF state # "DATAREAD" THEN <<>>
                ELSE IF ir = 0 /\ high >= BitAvailable THEN Append(longs, high >= DataHigh)
                ELSE longs
    /\ raised' = IF state = "GUIDANCE" THEN 0
                 ELSE IF ~preReady /\ ready /\ raised < 2 THEN raised + 1 ELSE raised

StateMachine == GuideStarts \/ GuideEnds \/ FrameEnds \/ StateHeld

Next ==
    /\ StateMachine /\ Counters /\ Pointer /\ Sample /\ Announce /\ Bus /\ History
    /\ ir' \in {0, 1}

(* The clock runs.                                                         *)
Spec == Init /\ [][Next]_vars /\ WF_vars(Next)
-----------------------------------------------------------------------------
(* Counters of 18 bits, a pointer that stops at the pulse after the last.  *)
TypeOK ==
    /\ ir \in {0, 1}
    /\ state \in {"IDLE", "GUIDANCE", "DATAREAD"}
    /\ {idleFlag, stateFlag, dataFlag, ready, preReady, irq} \subseteq BOOLEAN
    /\ {idleCount, stateCount, dataCount} \subseteq 0 .. IdleHigh
    /\ bitCount \in 0 .. NBits + 1
    /\ {data, buf, oData} \subseteq [Bits -> {0, 1}]
    /\ high \in 0 .. DataHigh
    /\ longs \in Seq(BOOLEAN)
    /\ raised \in 0 .. 2

(* When the line has been low for long enough for the decoder to settle,   *)
(* its pulses are those that lasted BitAvailable, and its bits their       *)
(* lengths: nothing is lost or shifted between the line, the counter, the  *)
(* pointer and the bits, which follow each other clock by clock.           *)
Settled == state = "DATAREAD" /\ high = 0 /\ ~dataFlag /\ dataCount = 0

DecodesPulses ==
    Settled => /\ bitCount = Len(longs)
               /\ \A i \in Bits : data[i] = 1 <=> i + 1 <= Len(longs) /\ longs[i + 1]

(* The check may hold and then fail, or fail and then hold, while the last *)
(* bit is sampled, but a frame never interrupts twice.                     *)
OneInterruptPerFrame == raised <= 1

(* Whatever noise there was, once the line is quiet the decoder goes back  *)
(* to waiting for a guide: it is never left in the middle of a frame.      *)
RecoversWhenQuiet == <>[](ir = 1) => <>[](state = "IDLE")

(* The check is made when "32bit sample over", and a frame that fails it is*)
(* a "data error": once the last pulse is over, an interrupt has been      *)
(* raised only if its bits check.  The code checks when the pulse begins to*)
(* count, with the last bit still 0.                                       *)
InterruptMeansFrame ==
    Settled /\ bitCount = NBits /\ raised = 1 => Checks(data)
=============================================================================
