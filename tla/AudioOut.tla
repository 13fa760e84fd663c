------------------------------ MODULE AudioOut ------------------------------
(***************************************************************************)
(* The playing side of the audio interface: the registers of               *)
(* ip/TERASIC_AUDIO/AUDIO_IF.v that the host writes samples to, the FIFO   *)
(* (audio_fifo.v) and the serialiser of AUDIO_DAC.v.                       *)
(*                                                                         *)
(* The FIFO is read with the channel signal of the codec as its clock: at  *)
(* the start of a left channel a word is taken, at the start of the right  *)
(* one it is latched, and at the next left one the serialiser loads it.    *)
(* What the reading side knows of the FIFO it learns at its clocks too.    *)
(*                                                                         *)
(* The host writes a sample as two words, left then right, once the status *)
(* has told it that the FIFO is not full, and leaves the bus idle for a    *)
(* clock after a sample and after a clear, as a processor behind a bridge  *)
(* does; it clears the FIFO only between samples.                          *)
(***************************************************************************)
EXTENDS AudioIf

CONSTANTS
    OutDepth,     \* lpm_numwords of the FIFO
    NumSamples    \* samples are numbered modulo this

ASSUME AudioOutAssumption == OutDepth \in Nat \ {0} /\ NumSamples \in Nat \ {0}

(* A word is the pair of the samples of which it has the left and the      *)
(* right half.                                                             *)
NoSample == <<NumSamples, NumSamples>>

NoBit == DATA_WIDTH

VARIABLES
    sample, player,          \* the host: its next sample, and its turn
    dacClear,                \* fifo_clear
    dacWrite, dacWriteData,  \* dacfifo_write, dacfifo_writedata
    dacFifo, seen, dacQ,     \* the FIFO, and what its reader knows
    dacLeft, dacPos,         \* the codec: ~daclrc, and its bit clock
    dataToDac, shiftData,    \* AUDIO_DAC.v
    requestBit, dacBit, dacIsLeft, bitToDac,
    expected,       \* the next sample that is to be loaded
    old,            \* registers whose word is from before the last clear
    misaligned,     \* the serialiser has been reset in this frame
    playedInOrder   \* all loaded words were due

playVars == <<sample, player>>
ifVars   == <<dacClear, dacWrite, dacWriteData>>
dacLine  == <<dacLeft, dacPos>>
dacVars  == <<shiftData, requestBit, dacBit, dacIsLeft, bitToDac>>
outVars  == <<playVars, ifVars, dacFifo, seen, dacQ, dataToDac, dacLine,
              dacVars, expected, old, misaligned, playedInOrder>>

OutInit ==
    /\ sample = 0 /\ player = "idle"
    /\ dacClear = FALSE /\ dacWrite = FALSE /\ dacWriteData = NoSample
    /\ dacFifo = << >> /\ seen = 0 /\ dacQ = NoSample
    /\ dacLeft \in BOOLEAN /\ dacPos = 0
    /\ dataToDac = NoSample /\ shiftData = NoSample
    /\ requestBit = FALSE /\ dacBit = 0 /\ dacIsLeft = dacLeft
    /\ bitToDac = NoBit
    /\ expected = 0 /\ old = {} /\ misaligned = TRUE /\ playedInOrder = TRUE

-----------------------------------------------------------------------------
(* A clock of the bus with an access of the host, at its end.               *)

Player(access) ==
    /\ CASE access = "none"  -> TRUE
         [] access = "left"  -> player = "ready"
         [] access = "right" -> player = "left"
         [] access = "clear" -> player = "idle"
    /\ player' = CASE access = "left"  -> "left"
                 [] access \in {"right", "clear"} -> "pause"
                 [] access = "none" /\ player = "pause" -> "idle"
                 [] OTHER -> player
    /\ sample' = IF access = "right" THEN (sample + 1) % NumSamples ELSE sample
    /\ dacClear' = (access = "clear")

(* dacfifo_full may be late to fall, for it is told of reads with delay.   *)
ReadStatus ==
    /\ player = "idle" /\ Len(dacFifo) < OutDepth
    /\ player' = "ready"
    /\ dacClear' = FALSE
    /\ UNCHANGED sample

WriteRegisters(access) ==
    /\ dacWrite' = (~dacClear /\ access = "right")
    /\ dacWriteData' =
           CASE ~dacClear /\ access = "left"  -> <<sample, dacWriteData[2]>>
             [] ~dacClear /\ access = "right" -> <<dacWriteData[1], sample>>
             [] OTHER -> dacWriteData

ClearFifo ==
    /\ dacFifo' = << >> /\ seen' = 0
    /\ dacQ' \in {dacQ, NoSample}
    /\ old' = {"q", "latch"}
    /\ expected' = sample

WriteFifo ==
    /\ dacFifo' = IF dacWrite /\ ~dacClear /\ Len(dacFifo) < OutDepth
                  THEN Append(dacFifo, dacWriteData) ELSE dacFifo
    /\ UNCHANGED <<seen, dacQ, old, expected>>

WriteClock ==
    /\ \/ \E access \in {"none", "left", "right", "clear"} :
             Player(access) /\ WriteRegisters(access)
       \/ ReadStatus /\ WriteRegisters("none")
    /\ IF dacClear' THEN ClearFifo ELSE WriteFifo
    /\ UNCHANGED <<dacLine, dacVars, dataToDac, misaligned, playedInOrder>>

-----------------------------------------------------------------------------
(* A bit clock of the codec (negedge bclk).                                *)

ResetSerialiser ==
    /\ requestBit' = FALSE /\ dacBit' = 0 /\ dacIsLeft' = dacLeft
    /\ bitToDac' = NoBit
    /\ misaligned' = TRUE
    /\ UNCHANGED <<shiftData, expected, old, playedInOrder>>

dacChanged == dacIsLeft # dacLeft

(* A loaded word is one that a clear has left behind, or the next one.     *)
Loaded(word) ==
    IF "latch" \in old
    THEN old' = old \ {"latch"} /\ UNCHANGED <<playedInOrder, expected>>
    ELSE /\ playedInOrder' =
              (playedInOrder /\ word \in {NoSample, <<expected, expected>>})
         /\ expected' = IF word = NoSample THEN expected
                        ELSE (expected + 1) % NumSamples
         /\ UNCHANGED old

Serialise ==
    LET loads == dacChanged /\ dacLeft
        index == Down(IF loads THEN 0 ELSE dacBit)
    IN  /\ dacIsLeft' = dacLeft
        /\ shiftData' = IF loads THEN dataToDac ELSE shiftData
        /\ IF requestBit \/ dacChanged
           THEN /\ dacBit' = index
                /\ bitToDac' = index
                /\ requestBit' = (index \notin {0, Half})
           ELSE bitToDac' = NoBit /\ UNCHANGED <<dacBit, requestBit>>
        /\ misaligned' = (misaligned /\ ~loads)
        /\ IF loads THEN Loaded(dataToDac)
                    ELSE UNCHANGED <<playedInOrder, expected, old>>

DacClock ==
    /\ dacPos < Half + MaxPad
    /\ dacPos' = dacPos + 1
    /\ IF dacClear THEN ResetSerialiser ELSE Serialise
    /\ UNCHANGED <<playVars, ifVars, dacFifo, seen, dacQ, dataToDac, dacLeft>>

-----------------------------------------------------------------------------
(* The codec changes the channel; the left one clocks the FIFO's reader.   *)

LeftStarts ==
    LET takes == seen > 0
        left  == IF takes THEN Tail(dacFifo) ELSE dacFifo
    IN  /\ dacPos >= Half /\ ~dacLeft
        /\ dacLeft' = TRUE /\ dacPos' = 0
        /\ dacQ' = IF takes THEN Head(dacFifo) ELSE dacQ
        /\ dacFifo' = left
        /\ seen' \in (IF takes THEN seen - 1 ELSE seen) .. Len(left)
        /\ old' = IF takes THEN old \ {"q"} ELSE old
        /\ UNCHANGED <<playVars, ifVars, dacVars, dataToDac,
                       expected, misaligned, playedInOrder>>

(* A word from before a clear is latched once.                             *)
Latch(empty) ==
    /\ dataToDac' = IF empty THEN NoSample ELSE dacQ
    /\ old' = IF empty THEN old \ {"latch"}
              ELSE IF "q" \in old THEN {"latch"} ELSE {}

RightStarts_Unchecked ==
    /\ dacPos >= Half /\ dacLeft
    /\ dacLeft' = FALSE /\ dacPos' = 0
    /\ Latch(FALSE)
    /\ UNCHANGED <<playVars, ifVars, dacFifo, seen, dacQ, dacVars,
                   expected, misaligned, playedInOrder>>

RightStarts ==
    /\ dacPos >= Half /\ dacLeft
    /\ dacLeft' = FALSE /\ dacPos' = 0
    /\ Latch(seen = 0)
    /\ UNCHANGED <<playVars, ifVars, dacFifo, seen, dacQ, dacVars,
                   expected, misaligned, playedInOrder>>

OutNext == WriteClock \/ DacClock \/ LeftStarts \/ RightStarts

-----------------------------------------------------------------------------
(* Every sample that the host has written is played whole, once and in     *)
(* order, with silence in between where there is none; only a clear skips  *)
(* what has not been played, and what it leaves in the registers behind    *)
(* the FIFO may still be played.  The bits of a channel are those of its   *)
(* half of the word, the highest first, unless the serialiser has been     *)
(* cleared in the frame.                                                   *)
PlayedInOrder ==
    /\ playedInOrder
    /\ dacPos \in 1 .. Half /\ ~misaligned /\ ~dacClear =>
          bitToDac = (IF dacLeft THEN Half ELSE 0) + Half - dacPos

=============================================================================
