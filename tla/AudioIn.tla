------------------------------ MODULE AudioIn -------------------------------
(***************************************************************************)
(* The recording side of the audio interface: the deserialiser of          *)
(* ip/TERASIC_AUDIO/AUDIO_ADC.v, its FIFO (audio_fifo.v) and the registers *)
(* of AUDIO_IF.v through which the host reads samples.                     *)
(*                                                                         *)
(* There are two clocks.  On every bit clock of the codec (posedge bclk)   *)
(* the deserialiser takes a bit; on every clock of the bus the host may    *)
(* make an access, which the registers answer on the falling edge.  The    *)
(* clocks are not related, so that the two interleave in any way; a clear  *)
(* of the FIFO lasts one clock of the bus, and the deserialiser sees it    *)
(* only if a bit clock falls into it.                                      *)
(*                                                                         *)
(* The host reads a sample as two words, left then right, once the status  *)
(* has told it that the FIFO is not empty, and clears the FIFO only        *)
(* between samples.  The right word is read on the very next clock (gap is *)
(* 0) or later (gap is 1), by the same host always in the same way.        *)
(***************************************************************************)
EXTENDS AudioIf

CONSTANTS
    InDepth,     \* lpm_numwords of the FIFO
    NumFrames    \* frames are numbered modulo this

ASSUME AudioInAssumption == InDepth \in Nat \ {0} /\ NumFrames \in Nat \ {0}

(* A bit on the line is known by its frame, channel and place; what the    *)
(* codec sends between the channels is of no frame.  A word is what the    *)
(* host sees of the two channels, and Silence a register after its reset.  *)
Padding == <<NumFrames, FALSE, 0>>
Frame(f) == [i \in 0 .. DATA_WIDTH - 1 |-> <<f, i >= Half, i % Half>>]
Silence  == [i \in 0 .. DATA_WIDTH - 1 |-> Padding]

VARIABLES
    frame, adcLeft, adcPos,         \* the codec: frame, ~adclrc, bit clock
    adcBit, validBit, waitOneClk,   \* bit_index and more of AUDIO_ADC.v
    regLeft, serialData, adcWrite, adcWriteData,
    adcFifo, adcQ,                  \* its FIFO, and what that gives out
    adcClear,                       \* fifo_clear
    fifoRead, data32, data32_2,     \* adcfifo_read, data32_from_adcfifo(_2)
    gap, reader,                    \* the host and what it does next
    due,           \* words taken from the FIFO that the host has not got
    stale,         \* how many of them are from before the last clear
    readInOrder    \* all the samples the host got were due

lineVars == <<frame, adcLeft, adcPos>>
adcVars  == <<adcBit, validBit, waitOneClk, regLeft, serialData, adcWrite,
              adcWriteData>>
readVars == <<adcQ, adcClear, fifoRead, data32, data32_2, gap, reader,
              due, stale, readInOrder>>
inVars == <<lineVars, adcVars, adcFifo, readVars>>

InInit ==
    /\ frame = 0 /\ adcLeft \in BOOLEAN /\ adcPos = 0
    /\ adcBit = 0 /\ validBit = FALSE /\ waitOneClk = FALSE
    /\ regLeft = adcLeft /\ serialData = Silence
    /\ adcWrite = FALSE /\ adcWriteData = Silence
    /\ adcFifo = << >> /\ adcQ = Silence
    /\ adcClear = FALSE
    /\ fifoRead = FALSE /\ data32 = Silence /\ data32_2 = Silence
    /\ gap \in {0, 1} /\ reader = "idle"
    /\ due = << >> /\ stale = 0 /\ readInOrder = TRUE

-----------------------------------------------------------------------------
(* The codec sends one bit clock of padding after each change of channel   *)
(* and then the channel's bits, the highest first (I2S).                   *)
adcdat == IF adcPos \in 1 .. Half THEN <<frame, adcLeft, Half - adcPos>>
                                 ELSE Padding

CodecMoves ==
    \/ /\ adcPos < Half + MaxPad
       /\ adcPos' = adcPos + 1
       /\ UNCHANGED <<frame, adcLeft>>
    \/ /\ adcPos >= Half
       /\ adcPos' = 0 /\ adcLeft' = ~adcLeft
       /\ frame' = IF adcLeft' THEN (frame + 1) % NumFrames ELSE frame

ClearAdc ==
    /\ adcBit' = 0                     \* DATA_WIDTH, in five bits
    /\ regLeft' = adcLeft
    /\ adcWrite' = FALSE
    /\ validBit' = FALSE
    /\ UNCHANGED <<waitOneClk, serialData, adcWriteData>>

adcChanged == regLeft # adcLeft

startIndex_Kept == adcBit

startIndex == IF adcChanged /\ adcLeft THEN 0 ELSE adcBit

(* A clock after a channel change is skipped, then its bits are taken.     *)
(* The last bit of the right channel makes the word complete, which is     *)
(* dropped if the FIFO is full.                                            *)
Deserialise(full) ==
    LET valid == validBit \/ adcChanged
        skip  == valid /\ (waitOneClk \/ adcChanged)
        index == Down(startIndex)
        takes == valid /\ ~skip
    IN  /\ regLeft' = adcLeft
        /\ waitOneClk' = IF skip THEN FALSE ELSE waitOneClk
        /\ adcBit' = IF takes THEN index ELSE startIndex
        /\ serialData' = IF takes THEN [serialData EXCEPT ![index] = adcdat]
                                  ELSE serialData
        /\ validBit' = (valid /\ ~(takes /\ index \in {0, Half}))
        /\ adcWrite' = (takes /\ index = 0 /\ ~full)
        /\ adcWriteData' = IF adcWrite' THEN serialData' ELSE adcWriteData

(* The FIFO takes a word on the clock after the write signal.  It may      *)
(* seem full for a while after it has been read.                           *)
AdcClock ==
    /\ \/ adcClear /\ ClearAdc
       \/ /\ ~adcClear
          /\ \E full \in {TRUE, Len(adcFifo) = InDepth} : Deserialise(full)
    /\ adcFifo' = IF adcWrite /\ ~adcClear /\ Len(adcFifo) < InDepth
                 THEN Append(adcFifo, adcWriteData) ELSE adcFifo
    /\ CodecMoves
    /\ UNCHANGED readVars

-----------------------------------------------------------------------------
(* A clock of the bus, with an access of the host in it: the registers     *)
(* move on its falling edge, the FIFO is read or cleared on the rising one *)
(* that ends it.                                                           *)

Reader(access) ==
    /\ CASE access = "none"  -> gap = 1 \/ reader = "idle"
         [] access = "left"  -> reader = "idle" /\ adcFifo # << >>
         [] access = "right" -> reader = "right"
         [] access = "clear" -> reader = "idle"
    /\ reader' = CASE access = "left" -> IF gap = 0 THEN "right" ELSE "wait"
                   [] reader = "wait" -> "right"
                   [] access = "right" -> "idle"
                   [] OTHER -> reader

ReadRegisters_NoReset(access) ==
    /\ data32' = IF adcClear THEN Silence
                 ELSE IF access = "right" THEN data32_2 ELSE data32
    /\ IF access = "left" /\ adcFifo # << >>
       THEN fifoRead' = TRUE /\ UNCHANGED data32_2
       ELSE IF fifoRead THEN fifoRead' = TRUE /\ data32_2' = adcQ
                        ELSE UNCHANGED <<fifoRead, data32_2>>

ReadRegisters(access) ==
    /\ data32' = IF adcClear THEN Silence
                 ELSE IF access = "right" THEN data32_2 ELSE data32
    /\ IF access = "left" /\ adcFifo # << >>
       THEN fifoRead' = TRUE /\ UNCHANGED data32_2
       ELSE IF fifoRead THEN fifoRead' = FALSE /\ data32_2' = adcQ
                        ELSE UNCHANGED <<fifoRead, data32_2>>

pops == fifoRead' /\ adcFifo # << >>

ReadFifo(access) ==
    /\ adcClear' = (access = "clear")
    /\ adcQ' = IF pops THEN Head(adcFifo) ELSE adcQ
    /\ adcFifo' = IF adcClear' THEN << >>
                  ELSE IF pops THEN Tail(adcFifo) ELSE adcFifo

(* The sample the host gets is the word in the first register, whose right *)
(* half it reads last; a clear takes that word away.                       *)
Account(access) ==
    LET gone == data32 # Silence /\ (adcClear \/ access = "right")
        rest == IF gone THEN Tail(due) ELSE due
    IN  /\ due' = IF pops THEN Append(rest, Head(adcFifo)) ELSE rest
        /\ stale' = IF adcClear THEN Len(rest)
                    ELSE IF gone /\ stale > 0 THEN stale - 1 ELSE stale
        /\ readInOrder' = (readInOrder /\ (gone => data32 = Head(due)))

ReadClock ==
    /\ \E access \in {"none", "left", "right", "clear"} :
          /\ Reader(access)
          /\ ReadRegisters(access)
          /\ ReadFifo(access)
          /\ Account(access)
    /\ UNCHANGED <<lineVars, adcVars, gap>>

InNext == AdcClock \/ ReadClock

-----------------------------------------------------------------------------
(* Every word in the FIFO is the bits of one frame, each in its place,     *)
(* whatever clears and full FIFOs the deserialiser has met on the way.     *)
WordsWhole ==
    \A i \in 1 .. Len(adcFifo) :
        \E f \in 0 .. NumFrames - 1 : adcFifo[i] = Frame(f)

(* Through the two registers between them, the host gets the words it took *)
(* from the FIFO one by one and in order, one sample late, or two if it    *)
(* reads back to back; and after a clear it gets one word from before it   *)
(* at most, and that only if it reads back to back.                        *)
SamplesInOrder ==
    /\ readInOrder
    /\ Len(due) <= 3 - gap
    /\ stale <= 1 - gap

=============================================================================
