------------------------- MODULE Peripherals_proofs -------------------------
(***************************************************************************)
(* Proofs about the cores of ip/: the audio interface, recording and       *)
(* playing, for all sizes of words and FIFOs and every interleaving of its *)
(* clocks; the infrared receiver, for every length of a frame and all      *)
(* durations, whatever the line and the software do; and the log generator,*)
(* for every size of the picture and of the FIFO and every threshold that  *)
(* FifoAssumption allows.                                                  *)
(***************************************************************************)
EXTENDS Audio, IrReceiver, LogGenerator, Integers, SequenceTheorems, TLAPS

(***************************************************************************)
(* Recording.                                                              *)
(***************************************************************************)
Places == 0 .. DATA_WIDTH - 1
FrameNos == 0 .. NumFrames - 1

Whole == {Frame(f) : f \in FrameNos}

InTypes ==
    /\ frame \in FrameNos /\ adcLeft \in BOOLEAN /\ adcPos \in 0 .. Half + MaxPad
    /\ adcBit \in Places /\ validBit \in BOOLEAN /\ waitOneClk = FALSE
    /\ regLeft \in BOOLEAN /\ serialData = [i \in Places |-> serialData[i]]
    /\ adcWrite \in BOOLEAN
    /\ adcFifo \in Seq(Whole)
    /\ adcWrite => adcWriteData \in Whole

(* The bits lo .. hi of the register are those of the frame on the line.   *)
Filled(lo, hi) == \A i \in lo .. hi : serialData[i] = Frame(frame)[i]

(* While the bits of a channel are taken, the counter is in step with the  *)
(* codec: in a left channel always, in a right one if the left one before  *)
(* it has been taken whole.  If it has not, for a clear, the bits of the   *)
(* right channel go to the places of the left, and no word is made of them. *)
FromTop == adcBit = IF adcPos = 1 THEN 0 ELSE DATA_WIDTH - adcPos + 1

SyncInv ==
    /\ regLeft # adcLeft => adcPos = 0
    /\ validBit => adcPos \in 1 .. Half
    /\ validBit /\ adcLeft => FromTop /\ Filled(DATA_WIDTH - adcPos + 1, DATA_WIDTH - 1)
    /\ validBit /\ ~adcLeft =>
          \/ FromTop
          \/ adcBit = Half - adcPos + 1 /\ Filled(Half - adcPos + 1, DATA_WIDTH - 1)
    /\ ~validBit => adcBit \in {0, Half}
    /\ ~validBit /\ regLeft /\ adcBit = Half => Filled(Half, DATA_WIDTH - 1)

(* The words between the FIFO and the host, oldest first.                  *)
Held(w)    == IF w = Silence THEN << >> ELSE <<w>>
Two(v, w)  == IF v = Silence THEN <<w>> ELSE <<v, w>>

UnderWay ==
    IF reader = "idle" /\ gap = 1 THEN Held(data32)
    ELSE IF reader = "wait" THEN Two(data32, adcQ)
    ELSE IF reader = "right" /\ gap = 1 THEN Two(data32, data32_2)
    ELSE IF reader = "idle" THEN
        IF data32_2 = Silence THEN << >> ELSE Two(data32, data32_2)
    ELSE IF data32_2 = Silence THEN <<adcQ>>
    ELSE IF data32 = Silence THEN <<data32_2, adcQ>>
    ELSE <<data32, data32_2, adcQ>>

Words == Whole \cup {Silence}

RegInv ==
    /\ gap \in {0, 1} /\ reader \in {"idle", "wait", "right"}
    /\ adcClear \in BOOLEAN /\ fifoRead \in BOOLEAN /\ readInOrder = TRUE
    /\ adcQ \in Words /\ data32 \in Words /\ data32_2 \in Words
    /\ stale \in 0 .. 1 - gap

FlowInv ==
    /\ adcClear => adcFifo = << >> /\ reader = "idle"
    /\ reader = "wait" => gap = 1
    /\ fifoRead <=> (reader = "wait" \/ (reader = "right" /\ gap = 0))
    /\ fifoRead => adcQ # Silence
    /\ (reader = "right" /\ gap = 1) => data32_2 # Silence
    /\ (gap = 0 /\ data32 # Silence) => data32_2 # Silence

DueInv == RegInv /\ FlowInv /\ due = UnderWay

InInv == InTypes /\ SyncInv /\ DueInv
-----------------------------------------------------------------------------
(* Frames, words and the counter of bits.                                  *)

LEMMA Sizes ==
    /\ Half \in Nat \ {0} /\ MaxPad \in Nat /\ NumFrames \in Nat \ {0}
    /\ InDepth \in Nat \ {0}
    /\ DATA_WIDTH \in Nat \ {0} /\ DATA_WIDTH = 2 * Half
BY AudioIfAssumption, AudioInAssumption DEF DATA_WIDTH

LEMMA Remainder ==
    ASSUME NEW n \in Int, NEW m \in Nat \ {0}
    PROVE  /\ n % m \in 0 .. m - 1
           /\ 0 <= n /\ n < m => n % m = n
           /\ m <= n /\ n < 2 * m => n % m = n - m
OBVIOUS

LEMMA DownOne ==
    ASSUME NEW n \in Places
    PROVE  Down(n) = IF n = 0 THEN DATA_WIDTH - 1 ELSE n - 1
<1> DEFINE D == DATA_WIDTH
           m == n + D - 1
<1>1. D \in Nat \ {0} /\ n \in 0 .. D - 1
  BY Sizes DEF Places
<1>2. Down(n) = m % D
  BY DEF Down
<1>3. m \in Int /\ (n = 0 => 0 <= m /\ m < D) /\ (n # 0 => D <= m /\ m < 2 * D)
  BY <1>1
<1> HIDE DEF m, D
<1>4. m % D = IF n = 0 THEN m ELSE m - D
  BY <1>1, <1>3, Remainder
<1> QED
  BY <1>1, <1>2, <1>4 DEF m, D

(* A frame has the left channel above the right one.                       *)
LEMMA FrameBits ==
    ASSUME NEW f \in FrameNos, NEW k \in 1 .. Half
    PROVE  /\ Half - k \in Places /\ DATA_WIDTH - k \in Places
           /\ Frame(f)[Half - k] = <<f, FALSE, Half - k>>
           /\ Frame(f)[DATA_WIDTH - k] = <<f, TRUE, Half - k>>
<1> USE Sizes
<1>1. Half - k \in Places /\ DATA_WIDTH - k \in Places
  BY DEF Places
<1> DEFINE m == Half - k
           n == DATA_WIDTH - k
<1>2. /\ m \in Int /\ 0 <= m /\ m < Half
      /\ n \in Int /\ Half <= n /\ n < 2 * Half /\ n - Half = m
  OBVIOUS
<1> HIDE DEF m, n
<1>3. m % Half = m /\ n % Half = m
  BY <1>2, Remainder
<1>4. \A i \in Places : Frame(f)[i] = <<f, i >= Half, i % Half>>
  BY DEF Frame, Places
<1>5. (m >= Half) = FALSE /\ (n >= Half) = TRUE
  BY <1>2
<1>6. m \in Places /\ n \in Places
  BY <1>1 DEF m, n
<1> QED
  BY <1>3, <1>4, <1>5, <1>6 DEF m, n

(* A register after its reset is not a word.                               *)
LEMMA SilenceIsNoWord == Silence \notin Whole
<1> USE Sizes
<1>2. ASSUME NEW f \in FrameNos PROVE Frame(f) # Silence
  <2>1. Half - 1 \in Places /\ Frame(f)[Half - 1] = <<f, FALSE, Half - 1>>
    <3>1. 1 \in 1 .. Half
      OBVIOUS
    <3> QED
      BY <3>1, FrameBits
  <2>2. Silence[Half - 1] = <<NumFrames, FALSE, 0>>
    BY <2>1 DEF Silence, Padding, Places
  <2>3. f # NumFrames
    BY DEF FrameNos
  <2> QED
    BY <2>1, <2>2, <2>3
<1> QED
  BY <1>2 DEF Whole

(* What the codec puts on the line.                                        *)
LEMMA LineBit ==
    ASSUME InTypes, adcPos \in 1 .. Half
    PROVE  /\ adcLeft => adcdat = Frame(frame)[DATA_WIDTH - adcPos]
           /\ ~adcLeft => adcdat = Frame(frame)[Half - adcPos]
<1>1. adcdat = <<frame, adcLeft, Half - adcPos>>
  BY DEF adcdat
<1>2. frame \in FrameNos /\ adcLeft \in BOOLEAN
  BY DEF InTypes
<1> QED
  BY <1>1, <1>2, FrameBits

(* The codec stays in a channel until its last bit, and in a frame until   *)
(* the end of its right channel.                                           *)
LEMMA CodecStep ==
    ASSUME InTypes, CodecMoves
    PROVE  /\ frame' \in FrameNos /\ adcLeft' \in BOOLEAN
           /\ adcPos' \in 0 .. Half + MaxPad
           /\ adcPos < Half => adcPos' = adcPos + 1
           /\ adcLeft' # adcLeft => adcPos' = 0
           /\ adcLeft => frame' = frame
           /\ adcPos' # 0 => frame' = frame /\ adcLeft' = adcLeft
<1> USE Sizes
<1>1. (frame + 1) % NumFrames \in FrameNos
  <2>1. frame + 1 \in Int
    BY DEF InTypes, FrameNos
  <2> QED
    BY <2>1, Remainder DEF FrameNos
<1>2. CASE adcPos < Half + MaxPad /\ adcPos' = adcPos + 1 /\ UNCHANGED <<frame, adcLeft>>
  BY <1>2 DEF InTypes
<1>3. CASE /\ adcPos >= Half
           /\ adcPos' = 0 /\ adcLeft' = ~adcLeft
           /\ frame' = IF adcLeft' THEN (frame + 1) % NumFrames ELSE frame
  <2>1. adcLeft' \in BOOLEAN /\ frame' \in FrameNos
    BY <1>1, <1>3 DEF InTypes
  <2>2. adcLeft => frame' = frame
    BY <1>3
  <2>3. adcPos' \in 0 .. Half + MaxPad /\ ~(adcPos < Half)
    BY <1>3 DEF InTypes
  <2> QED
    BY <1>3, <2>1, <2>2, <2>3
<1> QED
  BY <1>2, <1>3 DEF CodecMoves
-----------------------------------------------------------------------------
(* What a bit clock does, when the FIFO is not being cleared: the first    *)
(* one of a channel is skipped, the next ones take a bit each.             *)
LEMMA FirstClock ==
    ASSUME InTypes, SyncInv, NEW full \in BOOLEAN, Deserialise(full), regLeft # adcLeft
    PROVE  /\ adcPos = 0 /\ regLeft' = adcLeft /\ waitOneClk' = FALSE
           /\ adcBit' = IF adcLeft THEN 0 ELSE adcBit
           /\ serialData' = serialData /\ validBit' = TRUE /\ adcWrite' = FALSE
           /\ adcWriteData' = adcWriteData /\ adcBit \in {0, Half}
<1>1. adcPos = 0 /\ ~validBit /\ adcBit \in {0, Half}
  BY DEF SyncInv, InTypes
<1> QED
  BY <1>1 DEF Deserialise, adcChanged, startIndex, InTypes

LEMMA IdleClock ==
    ASSUME InTypes, SyncInv, NEW full \in BOOLEAN, Deserialise(full),
           regLeft = adcLeft, ~validBit
    PROVE  /\ regLeft' = adcLeft /\ waitOneClk' = FALSE /\ adcBit' = adcBit
           /\ serialData' = serialData /\ validBit' = FALSE /\ adcWrite' = FALSE
           /\ adcWriteData' = adcWriteData
BY DEF Deserialise, adcChanged, startIndex, InTypes

LEMMA TakeClock ==
    ASSUME InTypes, SyncInv, NEW full \in BOOLEAN, Deserialise(full),
           regLeft = adcLeft, validBit
    PROVE  /\ regLeft' = adcLeft /\ waitOneClk' = FALSE
           /\ adcBit' = Down(adcBit)
           /\ serialData' = [serialData EXCEPT ![Down(adcBit)] = adcdat]
           /\ validBit' = (Down(adcBit) \notin {0, Half})
           /\ adcWrite' = (Down(adcBit) = 0 /\ ~full)
           /\ adcWriteData' = IF adcWrite' THEN serialData' ELSE adcWriteData
BY DEF Deserialise, adcChanged, startIndex, InTypes

(* The bits that are taken: the register fills from the top of a channel.  *)
LEMMA TakeFills ==
    ASSUME InTypes, SyncInv, NEW full \in BOOLEAN, Deserialise(full),
           regLeft = adcLeft, validBit
    PROVE  /\ adcPos \in 1 .. Half
           /\ Down(adcBit) \in {DATA_WIDTH - adcPos, Half - adcPos}
           /\ adcLeft => Down(adcBit) = DATA_WIDTH - adcPos
           /\ \A i \in Places :
                serialData'[i] = IF i = Down(adcBit) THEN adcdat ELSE serialData[i]
           /\ adcLeft \/ Down(adcBit) = Half - adcPos =>
                \A i \in Down(adcBit) .. DATA_WIDTH - 1 : serialData'[i] = Frame(frame)[i]
<1> USE Sizes
<1>1. adcPos \in 1 .. Half
  BY DEF SyncInv
<1>2. adcPos \in Nat /\ adcBit \in Places
  BY DEF InTypes
<1>3. FromTop => Down(adcBit) = DATA_WIDTH - adcPos
  BY <1>1, <1>2, DownOne DEF FromTop
<1>4. adcBit = Half - adcPos + 1 => Down(adcBit) = Half - adcPos
  BY <1>1, <1>2, DownOne
<1>5. adcLeft => Down(adcBit) = DATA_WIDTH - adcPos
  BY <1>3 DEF SyncInv
<1>6. Down(adcBit) \in {DATA_WIDTH - adcPos, Half - adcPos}
  BY <1>3, <1>4 DEF SyncInv
<1> DEFINE n == Down(adcBit)
<1>7. n \in Places
  BY <1>1, <1>6 DEF Places
<1>8. \A i \in Places : serialData'[i] = IF i = n THEN adcdat ELSE serialData[i]
  BY <1>7, TakeClock DEF InTypes
<1>9. ASSUME adcLeft
      PROVE  \A i \in n .. DATA_WIDTH - 1 : serialData'[i] = Frame(frame)[i]
  <2>1. n = DATA_WIDTH - adcPos /\ adcdat = Frame(frame)[n]
    BY <1>1, <1>5, <1>9, LineBit
  <2>2. \A i \in n + 1 .. DATA_WIDTH - 1 : serialData[i] = Frame(frame)[i]
    BY <1>9, <2>1 DEF SyncInv, Filled
  <2> HIDE DEF n
  <2> QED
    BY <1>7, <1>8, <2>1, <2>2 DEF Places
<1>10. ASSUME ~adcLeft, n = Half - adcPos
       PROVE  \A i \in n .. DATA_WIDTH - 1 : serialData'[i] = Frame(frame)[i]
  <2>1. adcdat = Frame(frame)[n]
    BY <1>1, <1>10, LineBit
  <2>2. ~FromTop
    BY <1>1, <1>3, <1>10
  <2>3. \A i \in n + 1 .. DATA_WIDTH - 1 : serialData[i] = Frame(frame)[i]
    BY <1>10, <2>2 DEF SyncInv, Filled
  <2> HIDE DEF n
  <2> QED
    BY <1>7, <1>8, <2>1, <2>3 DEF Places
<1> QED
  BY <1>1, <1>5, <1>6, <1>8, <1>9, <1>10 DEF InTypes

(* The last bit of the right channel makes the word the frame.             *)
LEMMA WordComplete ==
    ASSUME InTypes, SyncInv, NEW full \in BOOLEAN, Deserialise(full), adcWrite'
    PROVE  adcWriteData' = Frame(frame)
<1> USE Sizes
<1>1. regLeft = adcLeft /\ validBit /\ Down(adcBit) = 0 /\ adcWriteData' = serialData'
  <2>1. regLeft = adcLeft
    BY FirstClock
  <2>2. validBit
    BY <2>1, IdleClock
  <2> QED
    BY <2>1, <2>2, TakeClock
<1>2. adcPos \in 1 .. Half /\ 0 \in {DATA_WIDTH - adcPos, Half - adcPos}
  BY <1>1, TakeFills
<1>3. Half - adcPos = 0
  BY <1>2
<1>4. \A i \in Places : serialData'[i] = Frame(frame)[i]
  BY <1>1, <1>3, TakeFills DEF Places
<1>5. serialData' = [i \in Places |-> serialData'[i]]
  BY <1>1, TakeClock DEF InTypes
<1>6. serialData' = [i \in Places |-> Frame(frame)[i]]
  BY <1>4, <1>5
<1>7. Frame(frame) = [i \in Places |-> Frame(frame)[i]]
  BY DEF Frame, Places
<1> QED
  BY <1>1, <1>6, <1>7
-----------------------------------------------------------------------------
(* A bit clock keeps the deserialiser in step, and its words whole.        *)
LEMMA AdcTypes ==
    ASSUME InTypes, SyncInv, AdcClock
    PROVE  InTypes'
<1> USE Sizes
<1>1. frame' \in FrameNos /\ adcLeft' \in BOOLEAN /\ adcPos' \in 0 .. Half + MaxPad
  BY CodecStep DEF AdcClock
<1>2. adcFifo' \in Seq(Whole)
  BY DEF AdcClock, InTypes
<1>3. CASE adcClear /\ ClearAdc
  <2>1. adcBit' \in Places
    BY <1>3 DEF ClearAdc, Places
  <2>2. serialData' = serialData /\ waitOneClk' = waitOneClk
    BY <1>3 DEF ClearAdc
  <2>3. adcWrite' = FALSE /\ validBit' = FALSE /\ regLeft' = adcLeft
    BY <1>3 DEF ClearAdc
  <2> QED
    BY <1>1, <1>2, <2>1, <2>2, <2>3 DEF InTypes
<1>4. ASSUME NEW full \in BOOLEAN, Deserialise(full)
      PROVE  InTypes'
  <2>1. Half \in Places /\ 0 \in Places
    BY DEF Places
  <2>2. CASE regLeft # adcLeft
    BY <1>1, <1>2, <1>4, <2>1, <2>2, FirstClock DEF InTypes
  <2>3. CASE regLeft = adcLeft /\ ~validBit
    BY <1>1, <1>2, <1>4, <2>3, IdleClock DEF InTypes
  <2>4. CASE regLeft = adcLeft /\ validBit
    <3>1. Down(adcBit) \in Places
      <4>1. adcBit \in Places
        BY DEF InTypes
      <4> QED
        BY <4>1, DownOne DEF Places
    <3>2. adcBit' \in Places /\ serialData' = [i \in Places |-> serialData'[i]]
      BY <1>4, <2>4, <3>1, TakeClock DEF InTypes
    <3>3. adcWrite' => adcWriteData' \in Whole
      BY <1>4, WordComplete DEF InTypes, Whole
    <3>4. regLeft' \in BOOLEAN /\ waitOneClk' = FALSE /\ validBit' \in BOOLEAN
          /\ adcWrite' \in BOOLEAN
      BY <1>4, <2>4, TakeClock DEF InTypes
    <3> QED
      BY <1>1, <1>2, <3>2, <3>3, <3>4 DEF InTypes
  <2> QED
    BY <2>2, <2>3, <2>4 DEF InTypes
<1>5. (Len(adcFifo) = InDepth) \in BOOLEAN
  OBVIOUS
<1> QED
  BY <1>3, <1>4, <1>5 DEF AdcClock

LEMMA AdcSync ==
    ASSUME InTypes, SyncInv, AdcClock
    PROVE  SyncInv'
<1> USE Sizes
<1>1. /\ adcPos < Half => adcPos' = adcPos + 1
      /\ adcLeft' # adcLeft => adcPos' = 0
      /\ adcLeft => frame' = frame
      /\ adcPos' # 0 => frame' = frame /\ adcLeft' = adcLeft
  BY CodecStep DEF AdcClock
<1>2. adcLeft \in BOOLEAN /\ adcPos \in Nat /\ adcLeft' \in BOOLEAN
  <2>1. adcLeft' \in BOOLEAN
    BY CodecStep DEF AdcClock
  <2> QED
    BY <2>1 DEF InTypes
<1>3. CASE adcClear /\ ClearAdc
  <2>1. adcBit' = 0 /\ validBit' = FALSE /\ regLeft' = adcLeft
    BY <1>3 DEF ClearAdc
  <2> QED
    BY <1>1, <1>2, <2>1 DEF SyncInv
<1>4. ASSUME NEW full \in BOOLEAN, Deserialise(full)
      PROVE  SyncInv'
  <2>1. regLeft' = adcLeft
    BY <1>4 DEF Deserialise
  <2>2. CASE regLeft # adcLeft
    <3>1. /\ adcPos = 0 /\ serialData' = serialData /\ validBit' = TRUE
          /\ adcBit' = (IF adcLeft THEN 0 ELSE adcBit) /\ adcBit \in {0, Half}
      BY <1>4, <2>2, FirstClock
    <3>2. adcPos' = 1 /\ frame' = frame /\ adcLeft' = adcLeft
      BY <1>1, <3>1
    <3>3. ~adcLeft /\ adcBit = Half => Filled(Half, DATA_WIDTH - 1)
      BY <2>2, <1>2, <3>1 DEF SyncInv, InTypes
    <3>4. ~adcLeft /\ adcBit = Half => Filled(Half, DATA_WIDTH - 1)'
      BY <3>1, <3>2, <3>3 DEF Filled
    <3>5. adcLeft' => FromTop' /\ Filled(DATA_WIDTH - adcPos + 1, DATA_WIDTH - 1)'
      BY <3>1, <3>2 DEF FromTop, Filled
    <3>6. ~adcLeft' =>
            \/ FromTop'
            \/ adcBit' = Half - adcPos' + 1
               /\ Filled(Half - adcPos + 1, DATA_WIDTH - 1)'
      <4>1. CASE adcBit = 0
        BY <3>1, <3>2, <4>1 DEF FromTop
      <4>2. CASE adcBit = Half
        <5>1. Half - adcPos' + 1 = Half
          BY <3>2
        <5> QED
          BY <3>1, <3>2, <3>4, <4>2, <5>1 DEF Filled
      <4> QED
        BY <3>1, <4>1, <4>2
    <3> QED
      BY <1>2, <2>1, <3>1, <3>2, <3>5, <3>6 DEF SyncInv
  <2>3. CASE regLeft = adcLeft /\ ~validBit
    <3>1. serialData' = serialData /\ validBit' = FALSE /\ adcBit' = adcBit
      BY <1>4, <2>3, IdleClock
    <3>2. adcBit \in {0, Half}
      BY <2>3 DEF SyncInv
    <3>3. adcLeft /\ adcBit = Half => Filled(Half, DATA_WIDTH - 1)
      BY <2>3 DEF SyncInv
    <3>4. adcLeft /\ adcBit = Half => Filled(Half, DATA_WIDTH - 1)'
      BY <1>1, <3>1, <3>3 DEF Filled
    <3> QED
      BY <1>1, <1>2, <2>1, <3>1, <3>2, <3>4 DEF SyncInv
  <2>4. CASE regLeft = adcLeft /\ validBit
    <3> DEFINE n == Down(adcBit)
    <3>1. /\ adcPos \in 1 .. Half /\ n \in {DATA_WIDTH - adcPos, Half - adcPos}
          /\ adcLeft => n = DATA_WIDTH - adcPos
          /\ adcLeft \/ n = Half - adcPos =>
               \A i \in n .. DATA_WIDTH - 1 : serialData'[i] = Frame(frame)[i]
      BY <1>4, <2>4, TakeFills
    <3>2. adcBit' = n /\ validBit' = (n \notin {0, Half})
      BY <1>4, <2>4, TakeClock
    <3> HIDE DEF n
    <3>3. CASE adcPos < Half
      <4>1. adcPos' = adcPos + 1 /\ adcPos' # 0 /\ frame' = frame /\ adcLeft' = adcLeft
        BY <1>1, <1>2, <3>3
      <4>2. n \notin {0, Half}
        BY <3>1, <3>3
      <4>3. adcLeft \/ n = Half - adcPos =>
              \A i \in n .. DATA_WIDTH - 1 : serialData'[i] = Frame(frame')[i]
        BY <3>1, <4>1
      <4>4. n = DATA_WIDTH - adcPos => FromTop'
        <5>1. adcPos' # 1 /\ DATA_WIDTH - adcPos' + 1 = DATA_WIDTH - adcPos
          BY <1>2, <3>1, <4>1
        <5> QED
          BY <3>2, <5>1 DEF FromTop
      <4>5. DATA_WIDTH - adcPos' + 1 = DATA_WIDTH - adcPos
            /\ Half - adcPos' + 1 = Half - adcPos
        BY <1>2, <4>1
      <4>6. adcLeft' => FromTop' /\ Filled(DATA_WIDTH - adcPos + 1, DATA_WIDTH - 1)'
        BY <3>1, <4>1, <4>3, <4>4, <4>5 DEF Filled
      <4>7. ~adcLeft' =>
              \/ FromTop'
              \/ adcBit' = Half - adcPos' + 1
                 /\ Filled(Half - adcPos + 1, DATA_WIDTH - 1)'
        BY <3>1, <3>2, <4>1, <4>3, <4>4, <4>5 DEF Filled
      <4>8. adcPos' \in 1 .. Half /\ validBit' = TRUE
        <5>1. adcPos' \in 1 .. Half
          BY <1>2, <3>3, <4>1
        <5>2. (n \notin {0, Half}) = TRUE
          BY <4>2
        <5> QED
          BY <3>2, <5>1, <5>2
      <4> QED
        BY <2>1, <4>1, <4>6, <4>7, <4>8 DEF SyncInv
    <3>4. CASE adcPos = Half
      <4>1. n \in {0, Half} /\ (adcLeft => n = Half)
        BY <3>1, <3>4
      <4>2. adcLeft => Filled(Half, DATA_WIDTH - 1)'
        BY <1>1, <3>1, <4>1 DEF Filled
      <4>3. validBit' = FALSE /\ adcBit' \in {0, Half}
        BY <3>2, <4>1
      <4> QED
        BY <1>1, <1>2, <2>1, <4>2, <4>3 DEF SyncInv
    <3> QED
      BY <3>1, <3>3, <3>4
  <2> QED
    BY <2>2, <2>3, <2>4
<1>5. (Len(adcFifo) = InDepth) \in BOOLEAN
  OBVIOUS
<1> QED
  BY <1>3, <1>4, <1>5 DEF AdcClock

LEMMA AdcDue ==
    ASSUME InTypes, DueInv, AdcClock
    PROVE  DueInv'
<1>1. adcClear => adcFifo' = adcFifo
  BY DEF AdcClock
<1>2. UNCHANGED readVars
  BY DEF AdcClock
<1> QED
  BY <1>1, <1>2 DEF DueInv, RegInv, FlowInv, UnderWay, readVars
-----------------------------------------------------------------------------
(* A clock of the bus moves the words on their way to the host.            *)
LEMMA ReadTypes ==
    ASSUME InTypes, SyncInv, ReadClock
    PROVE  InTypes' /\ SyncInv'
<1>1. adcFifo' \in Seq(Whole)
  <2>1. adcFifo' \in {<< >>, adcFifo} \/ (adcFifo # << >> /\ adcFifo' = Tail(adcFifo))
    BY DEF ReadClock, ReadFifo, pops
  <2>2. adcFifo \in Seq(Whole)
    BY DEF InTypes
  <2>3. adcFifo # << >> => Tail(adcFifo) \in Seq(Whole)
    BY <2>2
  <2>4. << >> \in Seq(Whole)
    OBVIOUS
  <2> QED
    BY <2>1, <2>2, <2>3, <2>4
<1>2. UNCHANGED <<lineVars, adcVars>>
  BY DEF ReadClock
<1> QED
  BY <1>1, <1>2 DEF InTypes, SyncInv, Filled, FromTop, lineVars, adcVars

LEMMA AppendToOne == ASSUME NEW a, NEW b PROVE Append(<<a>>, b) = <<a, b>>
<1> DEFINE S == {a, b}
           s == Append(<<a>>, b)
           t == <<a, b>>
<1>1. <<a>> \in Seq(S) /\ Len(<<a>>) = 1 /\ <<a>>[1] = a /\ b \in S
  OBVIOUS
<1>2. s \in Seq(S) /\ Len(s) = 2 /\ s[1] = a /\ s[2] = b
  BY <1>1
<1>3. t \in Seq(S) /\ Len(t) = 2 /\ t[1] = a /\ t[2] = b
  OBVIOUS
<1> HIDE DEF s, t, S
<1>4. \A i \in 1 .. Len(s) : s[i] = t[i]
  BY <1>2, <1>3
<1>5. s = t
  BY <1>2, <1>3, <1>4, SeqEqual
<1> QED
  BY <1>5 DEF s, t

LEMMA AppendToTwo == ASSUME NEW a, NEW b, NEW c PROVE Append(<<a, b>>, c) = <<a, b, c>>
<1> DEFINE S == {a, b, c}
           s == Append(<<a, b>>, c)
           t == <<a, b, c>>
<1>1. <<a, b>> \in Seq(S) /\ Len(<<a, b>>) = 2 /\ <<a, b>>[1] = a /\ <<a, b>>[2] = b
      /\ c \in S
  OBVIOUS
<1>2. s \in Seq(S) /\ Len(s) = 3 /\ s[1] = a /\ s[2] = b /\ s[3] = c
  BY <1>1
<1>3. t \in Seq(S) /\ Len(t) = 3 /\ t[1] = a /\ t[2] = b /\ t[3] = c
  OBVIOUS
<1> HIDE DEF s, t, S
<1>4. \A i \in 1 .. Len(s) : s[i] = t[i]
  BY <1>2, <1>3
<1>5. s = t
  BY <1>2, <1>3, <1>4, SeqEqual
<1> QED
  BY <1>5 DEF s, t

(* What is due, place by place: the first word due is the one in the first *)
(* register, and there are three at most.                                  *)
LEMMA FirstDue ==
    ASSUME DueInv
    PROVE  /\ data32 # Silence => due # << >> /\ Head(due) = data32
           /\ Len(due) <= 3 - gap
<1>1. due = UnderWay /\ gap \in {0, 1} /\ reader \in {"idle", "wait", "right"}
      /\ (reader = "wait" => gap = 1)
      /\ (gap = 0 /\ data32 # Silence => data32_2 # Silence)
  BY DEF DueInv, RegInv, FlowInv
<1>2. /\ Len(<< >>) = 0
      /\ \A a : Len(<<a>>) = 1 /\ <<a>> # << >> /\ Head(<<a>>) = a
      /\ \A a, b : Len(<<a, b>>) = 2 /\ <<a, b>> # << >> /\ Head(<<a, b>>) = a
      /\ \A a, b, c : Len(<<a, b, c>>) = 3 /\ <<a, b, c>> # << >> /\ Head(<<a, b, c>>) = a
  OBVIOUS
<1>3. CASE gap = 1
  BY <1>1, <1>2, <1>3 DEF UnderWay, Held, Two
<1>4. CASE gap = 0
  BY <1>1, <1>2, <1>4 DEF UnderWay, Held, Two
<1> QED
  BY <1>1, <1>3, <1>4

LEMMA InOrder == InInv => SamplesInOrder
<1> SUFFICES ASSUME InInv PROVE SamplesInOrder
  OBVIOUS
<1>1. readInOrder /\ gap \in {0, 1} /\ stale \in 0 .. 1 - gap
  BY DEF InInv, DueInv, RegInv
<1> QED
  BY <1>1, FirstDue DEF InInv, SamplesInOrder

(* One access of the host, by where the sample is on its way.              *)
LEMMA ReadDue ==
    ASSUME InTypes, DueInv, ReadClock
    PROVE  DueInv'
<1>1. PICK access \in {"none", "left", "right", "clear"} :
        Reader(access) /\ ReadRegisters(access) /\ ReadFifo(access) /\ Account(access)
  BY DEF ReadClock
<1>2. gap' = gap /\ gap \in {0, 1} /\ reader \in {"idle", "wait", "right"}
  BY DEF ReadClock, DueInv, RegInv, FlowInv
<1>3. adcFifo # << >> => Head(adcFifo) \in Words /\ Head(adcFifo) # Silence
  <2>1. adcFifo # << >> => Head(adcFifo) \in Whole
    BY DEF InTypes
  <2> QED
    BY <2>1, SilenceIsNoWord DEF Words
<1>4. Silence \in Words
  BY DEF Words
<1>5. readInOrder' = TRUE
  <2>1. data32 # Silence => data32 = Head(due)
    BY FirstDue
  <2>2. readInOrder = TRUE
    BY DEF DueInv, RegInv, FlowInv
  <2> QED
    BY <1>1, <2>1, <2>2 DEF Account
<1>6. /\ Tail(<<data32>>) = << >>
      /\ \A b : Tail(<<data32, b>>) = <<b>>
      /\ \A b, c : Tail(<<data32, b, c>>) = <<b, c>>
      /\ Len(<< >>) = 0
      /\ \A a : Len(<<a>>) = 1
  OBVIOUS
<1>7. /\ \A a : Append(<< >>, a) = <<a>>
      /\ \A a, b : Append(<<a>>, b) = <<a, b>>
      /\ \A a, b, c : Append(<<a, b>>, c) = <<a, b, c>>
  <2>1. \A a : Append(<< >>, a) = <<a>>
    OBVIOUS
  <2> QED
    BY <2>1, AppendToOne, AppendToTwo
<1>8. adcClear' \in BOOLEAN /\ (adcClear' => adcFifo' = << >> /\ access = "clear")
  BY <1>1 DEF ReadFifo
<1>9. CASE adcClear
  <2>1. access \in {"none", "clear"} /\ reader = "idle" /\ adcFifo = << >> /\ ~fifoRead
    BY <1>1, <1>9 DEF Reader, DueInv, RegInv, FlowInv
  <2>2. /\ reader' = "idle" /\ data32' = Silence /\ data32_2' = data32_2
        /\ fifoRead' = FALSE /\ adcQ' = adcQ
    BY <1>1, <1>9, <2>1 DEF Reader, ReadRegisters, ReadFifo, pops, DueInv, RegInv, FlowInv
  <2>3. /\ due' = IF data32 # Silence THEN Tail(due) ELSE due
        /\ stale' = Len(due')
    BY <1>1, <1>9, <2>1, <2>2 DEF Account, pops
  <2>4. due = UnderWay
    BY DEF DueInv
  <2>7. /\ adcQ' \in Words /\ data32' \in Words /\ data32_2' \in Words
         /\ data32' = Silence
    BY <1>4, <2>2 DEF DueInv, RegInv
  <2>5. CASE gap = 1
    <3>1. due' = << >>
      BY <1>6, <2>1, <2>3, <2>4, <2>5 DEF UnderWay, Held
    <3>2. due' = UnderWay'
      BY <1>2, <2>2, <2>5, <3>1 DEF UnderWay, Held
    <3>3. stale' \in 0 .. 1 - gap'
      BY <1>2, <1>6, <2>3, <3>1
    <3>4. RegInv'
      BY <1>2, <1>5, <1>8, <2>2, <2>7, <2>5, <3>3 DEF RegInv
    <3>5. FlowInv'
      BY <1>8, <2>2, <2>5 DEF FlowInv
    <3> QED
      BY <3>2, <3>4, <3>5 DEF DueInv
  <2>6. CASE gap = 0
    <3>1. due' = Held(data32_2)
      BY <1>6, <2>1, <2>3, <2>4, <2>6 DEF UnderWay, Held, Two, DueInv, RegInv, FlowInv
    <3>2. stale' \in 0 .. 1 - gap'
      <4>1. due' = << >> \/ due' = <<data32_2>>
        BY <3>1 DEF Held
      <4>2. Len(<<data32_2>>) = 1 /\ Len(<< >>) = 0
        BY <1>6
      <4>3. Len(due') = 0 \/ Len(due') = 1
        BY <4>1, <4>2
      <4> QED
        BY <1>2, <2>3, <2>6, <4>3
    <3>3. due' = UnderWay'
      BY <1>2, <2>2, <2>6, <3>1 DEF UnderWay, Held, Two
    <3>4. RegInv'
      BY <1>2, <1>5, <1>8, <2>2, <2>7, <2>6, <3>2 DEF RegInv
    <3>5. FlowInv'
      BY <1>8, <2>2, <2>7, <2>6 DEF FlowInv
    <3> QED
      BY <3>3, <3>4, <3>5 DEF DueInv
  <2> QED
    BY <1>2, <2>5, <2>6
<1>10. CASE ~adcClear /\ access \in {"none", "clear"} /\ reader = "idle"
  <2>1. ~fifoRead
    BY <1>10 DEF DueInv, RegInv, FlowInv
  <2>2. /\ reader' = "idle" /\ data32' = data32 /\ data32_2' = data32_2
        /\ fifoRead' = FALSE /\ adcQ' = adcQ /\ due' = due /\ stale' = stale
    BY <1>1, <1>10, <2>1 DEF Reader, ReadRegisters, ReadFifo, pops, Account, DueInv, RegInv, FlowInv
  <2> QED
    BY <1>2, <1>5, <1>8, <1>10, <2>2 DEF DueInv, RegInv, FlowInv, UnderWay
<1>11. CASE ~adcClear /\ access = "left"
  <2>1. reader = "idle" /\ adcFifo # << >> /\ ~fifoRead
    BY <1>1, <1>11 DEF Reader, DueInv, RegInv, FlowInv
  <2>2. /\ reader' = (IF gap = 0 THEN "right" ELSE "wait")
        /\ data32' = data32 /\ data32_2' = data32_2
        /\ fifoRead' = TRUE /\ adcQ' = Head(adcFifo) /\ ~adcClear'
        /\ due' = Append(due, Head(adcFifo)) /\ stale' = stale
    BY <1>1, <1>11, <2>1 DEF Reader, ReadRegisters, ReadFifo, pops, Account
  <2>3. due' = UnderWay'
    <3>1. due = UnderWay
      BY DEF DueInv, RegInv, FlowInv
    <3>2. CASE gap = 1
      BY <1>2, <1>7, <2>1, <2>2, <3>1, <3>2 DEF UnderWay, Held, Two
    <3>3. CASE gap = 0
      <4>1. due = IF data32_2 = Silence THEN << >>
                  ELSE IF data32 = Silence THEN <<data32_2>> ELSE <<data32, data32_2>>
        BY <2>1, <3>1, <3>3 DEF UnderWay, Two
      <4>2. UnderWay' = IF data32_2 = Silence THEN <<adcQ'>>
                        ELSE IF data32 = Silence THEN <<data32_2, adcQ'>>
                        ELSE <<data32, data32_2, adcQ'>>
        BY <1>2, <2>2, <3>3 DEF UnderWay
      <4>3. due' = Append(due, adcQ')
        BY <2>2
      <4> QED
        BY <1>7, <4>1, <4>2, <4>3
    <3> QED
      BY <1>2, <3>2, <3>3
  <2> QED
    <3>1. RegInv'
      BY <1>2, <1>3, <1>5, <1>8, <2>1, <2>2, <2>3 DEF DueInv, RegInv, FlowInv
    <3>2. FlowInv'
      BY <1>2, <1>3, <1>5, <1>8, <2>1, <2>2, <2>3 DEF DueInv, RegInv, FlowInv
    <3> QED
      BY <3>1, <3>2, <2>3 DEF DueInv
<1>12. CASE ~adcClear /\ access = "none" /\ reader = "wait"
  <2>1. gap = 1 /\ fifoRead /\ adcQ # Silence
    BY <1>1, <1>12 DEF DueInv, RegInv, FlowInv
  <2>2. /\ reader' = "right" /\ data32' = data32 /\ data32_2' = adcQ
        /\ fifoRead' = FALSE /\ adcQ' = adcQ /\ ~adcClear' /\ due' = due /\ stale' = stale
    BY <1>1, <1>12, <2>1 DEF Reader, ReadRegisters, ReadFifo, pops, Account
  <2> QED
    <3>1. due' = UnderWay'
      BY <1>2, <1>12, <2>1, <2>2 DEF DueInv, RegInv, FlowInv, UnderWay
    <3>2. RegInv'
      BY <1>2, <1>5, <1>8, <1>12, <2>1, <2>2, <3>1 DEF DueInv, RegInv, FlowInv
    <3>3. FlowInv'
      BY <1>2, <1>5, <1>8, <1>12, <2>1, <2>2, <3>1 DEF DueInv, RegInv, FlowInv
    <3> QED
      BY <3>1, <3>2, <3>3 DEF DueInv
<1>13. CASE ~adcClear /\ access = "none" /\ reader = "right"
  <2>1. gap = 1 /\ ~fifoRead
    BY <1>1, <1>13 DEF Reader, DueInv, RegInv, FlowInv
  <2>2. /\ reader' = "right" /\ data32' = data32 /\ data32_2' = data32_2
        /\ fifoRead' = FALSE /\ adcQ' = adcQ /\ ~adcClear' /\ due' = due /\ stale' = stale
    BY <1>1, <1>13, <2>1 DEF Reader, ReadRegisters, ReadFifo, pops, Account, DueInv, RegInv, FlowInv
  <2> QED
    <3>1. due' = UnderWay'
      BY <1>2, <1>13, <2>1, <2>2 DEF DueInv, RegInv, FlowInv, UnderWay
    <3>2. RegInv'
      BY <1>2, <1>5, <1>8, <1>13, <2>1, <2>2, <3>1 DEF DueInv, RegInv, FlowInv
    <3>3. FlowInv'
      BY <1>2, <1>5, <1>8, <1>13, <2>1, <2>2, <3>1 DEF DueInv, RegInv, FlowInv
    <3> QED
      BY <3>1, <3>2, <3>3 DEF DueInv
<1>14. CASE ~adcClear /\ access = "right"
  <2>1. reader = "right"
    BY <1>1, <1>14 DEF Reader
  <2>2. reader' = "idle" /\ data32' = data32_2 /\ ~adcClear' /\ fifoRead' = FALSE
        /\ adcQ' = adcQ
    BY <1>1, <1>14, <2>1 DEF Reader, ReadRegisters, ReadFifo, pops, DueInv, RegInv, FlowInv
  <2>3. due' = IF data32 # Silence THEN Tail(due) ELSE due
    BY <1>1, <1>14, <2>2 DEF Account, pops
  <2>4. stale' \in 0 .. 1 - gap
    <3>1. stale' = IF data32 # Silence /\ stale > 0 THEN stale - 1 ELSE stale
      BY <1>1, <1>14 DEF Account
    <3>2. stale \in 0 .. 1 - gap
      BY DEF DueInv, RegInv, FlowInv
    <3> QED
      BY <1>2, <3>1, <3>2
  <2>5. due = UnderWay
    BY DEF DueInv, RegInv, FlowInv
  <2>6. CASE gap = 1
    <3>1. data32_2' = data32_2 /\ data32_2 # Silence
      BY <1>1, <1>14, <2>1, <2>6 DEF ReadRegisters, DueInv, RegInv, FlowInv
    <3>2. due' = <<data32_2>>
      BY <1>6, <2>1, <2>3, <2>5, <2>6 DEF UnderWay, Two
    <3>3. due' = UnderWay'
      BY <1>2, <2>2, <2>6, <3>1, <3>2 DEF UnderWay, Held
    <3>4. RegInv'
      BY <1>2, <1>5, <1>8, <2>2, <2>4, <2>6, <3>1, <3>3 DEF DueInv, RegInv, FlowInv
    <3>5. FlowInv'
      BY <1>2, <1>5, <1>8, <2>2, <2>4, <2>6, <3>1, <3>3 DEF DueInv, RegInv, FlowInv
    <3> QED
      BY <3>3, <3>4, <3>5 DEF DueInv
  <2>7. CASE gap = 0
    <3>1. data32_2' = adcQ /\ adcQ # Silence
      BY <1>1, <1>14, <2>1, <2>7 DEF ReadRegisters, DueInv, RegInv, FlowInv
    <3>2. due' = Two(data32_2, adcQ)
      BY <1>6, <2>1, <2>3, <2>5, <2>7 DEF UnderWay, Two, DueInv, RegInv, FlowInv
    <3>3. due' = UnderWay'
      BY <1>2, <2>2, <2>7, <3>1, <3>2 DEF UnderWay, Two
    <3>4. RegInv'
      BY <1>2, <1>5, <1>8, <2>2, <2>4, <2>7, <3>1, <3>3 DEF DueInv, RegInv, FlowInv
    <3>5. FlowInv'
      BY <1>2, <1>5, <1>8, <2>2, <2>4, <2>7, <3>1, <3>3 DEF DueInv, RegInv, FlowInv
    <3> QED
      BY <3>3, <3>4, <3>5 DEF DueInv
  <2> QED
    BY <1>2, <2>6, <2>7
<1> QED
  <2>1. access = "right" => reader = "right"
    BY <1>1 DEF Reader
  <2>2. access = "clear" => reader = "idle"
    BY <1>1 DEF Reader
  <2> QED
    BY <1>2, <1>9, <1>10, <1>11, <1>12, <1>13, <1>14, <2>2

LEMMA InInitInv == InInit => InInv
<1> SUFFICES ASSUME InInit PROVE InInv
  OBVIOUS
<1> USE Sizes
<1>1. InTypes
  BY DEF InInit, InTypes, Silence, Places, FrameNos
<1>2. SyncInv
  <2>1. adcBit = 0 /\ validBit = FALSE /\ regLeft = adcLeft /\ 0 # Half
    BY DEF InInit
  <2> QED
    BY <2>1 DEF SyncInv
<1>3. DueInv
  <2>1. due = UnderWay
    BY DEF InInit, UnderWay, Held
  <2>2. Silence \in Words
    BY DEF Words
  <2>3. /\ gap \in {0, 1} /\ reader = "idle" /\ adcClear = FALSE /\ fifoRead = FALSE
        /\ readInOrder = TRUE /\ stale = 0
        /\ adcQ = Silence /\ data32 = Silence /\ data32_2 = Silence
    BY DEF InInit
  <2>4. stale \in 0 .. 1 - gap
    BY <2>3
  <2>5. adcQ \in Words /\ data32 \in Words /\ data32_2 \in Words
    BY <2>2, <2>3
  <2>6. RegInv
    BY <2>3, <2>4, <2>5 DEF RegInv
  <2>7. FlowInv
    BY <2>3 DEF FlowInv
  <2> QED
    BY <2>1, <2>6, <2>7 DEF DueInv
<1> QED
  BY <1>1, <1>2, <1>3 DEF InInv

LEMMA InStepInv == InInv /\ [InNext]_inVars => InInv'
<1> SUFFICES ASSUME InInv, [InNext]_inVars PROVE InInv'
  OBVIOUS
<1>1. CASE AdcClock
  BY <1>1, AdcTypes, AdcSync, AdcDue DEF InInv
<1>2. CASE ReadClock
  BY <1>2, ReadTypes, ReadDue DEF InInv
<1>3. CASE UNCHANGED inVars
  <2>1. InTypes'
    BY <1>3 DEF InInv, InTypes, inVars, lineVars, adcVars
  <2>2. SyncInv'
    BY <1>3 DEF InInv, SyncInv, FromTop, Filled, inVars, lineVars, adcVars
  <2>3. adcFifo' = adcFifo /\ UNCHANGED readVars
    BY <1>3 DEF inVars
  <2>4. DueInv'
    BY <2>3 DEF InInv, DueInv, RegInv, FlowInv, UnderWay, readVars
  <2> QED
    BY <2>1, <2>2, <2>4 DEF InInv
<1> QED
  BY <1>1, <1>2, <1>3 DEF InNext

LEMMA InWhole == InInv => WordsWhole
<1> SUFFICES ASSUME InInv, NEW i \in 1 .. Len(adcFifo)
             PROVE  \E f \in 0 .. NumFrames - 1 : adcFifo[i] = Frame(f)
  BY DEF WordsWhole
<1>1. adcFifo[i] \in Whole
  BY DEF InInv, InTypes
<1> QED
  BY <1>1 DEF Whole, FrameNos
-----------------------------------------------------------------------------
(***************************************************************************)
(* Playing.                                                                *)
(***************************************************************************)
(* The samples are numbered in a circle; a word has both halves of one.    *)
Numbers       == 0 .. NumSamples - 1
Following(n)  == (n + 1) % NumSamples
SampleWord(n) == <<n, n>>
Sampled       == {SampleWord(n) : n \in Numbers}

OutTypes ==
    /\ sample \in Numbers /\ expected \in Numbers
    /\ player \in {"idle", "ready", "left", "pause"}
    /\ dacClear \in BOOLEAN /\ dacWrite \in BOOLEAN
    /\ dacFifo \in Seq(Sampled) /\ seen \in 0 .. Len(dacFifo)
    /\ dacQ \in Sampled \cup {NoSample} /\ dataToDac \in Sampled \cup {NoSample}

(* The words that are still to be loaded, and are not from before a clear, *)
(* are numbered from the expected one on: the one that is latched, the one *)
(* that has been taken from the FIFO, those in it, and the one that is     *)
(* being written.  The host goes on where they end.                        *)
LatchDue == ~(dacLeft /\ dacIsLeft) /\ "latch" \notin old /\ dataToDac # NoSample
TakenDue == (dacLeft \/ seen = 0) /\ "q" \notin old /\ dacQ # NoSample

Chained(first, words) ==
    /\ words # << >> => words[1] = SampleWord(first)
    /\ \A i \in 1 .. Len(words) - 1 : words[i + 1] = SampleWord(Following(words[i][1]))

Ending(first, words) ==
    IF words = << >> THEN first ELSE Following(words[Len(words)][1])

AfterLatch == IF LatchDue THEN Following(expected) ELSE expected
AfterTaken == IF TakenDue THEN Following(AfterLatch) ELSE AfterLatch
AfterFifo  == Ending(AfterTaken, dacFifo)

ChainInv ==
    /\ LatchDue => dataToDac = SampleWord(expected)
    /\ TakenDue => dacQ = SampleWord(AfterLatch)
    /\ Chained(AfterTaken, dacFifo)
    /\ dacWrite => dacWriteData = SampleWord(AfterFifo)
    /\ sample = IF dacWrite THEN Following(AfterFifo) ELSE AfterFifo
    /\ playedInOrder = TRUE

(* The host's turns: it writes only where there is room, and a clear comes *)
(* when nothing is being written.                                          *)
PlayerInv ==
    /\ dacClear \/ dacWrite => player = "pause"
    /\ player \in {"ready", "left"} \/ dacWrite => Len(dacFifo) < OutDepth
    /\ player = "left" => dacWriteData[1] = sample
    /\ dacClear => ~dacWrite /\ dacFifo = << >>
    /\ dacClear /\ dataToDac # NoSample => "latch" \in old

(* Once a word has been loaded without a reset since, the counter of bits  *)
(* is in step with the codec.                                              *)
Wanted == (IF dacLeft THEN Half ELSE 0) + Half - dacPos

LineInv ==
    /\ dacLeft \in BOOLEAN /\ dacIsLeft \in BOOLEAN /\ misaligned \in BOOLEAN
    /\ dacPos \in 0 .. Half + MaxPad
    /\ dacPos # 0 => (dacIsLeft <=> dacLeft)

AlignInv ==
    ~misaligned =>
        /\ dacPos = 0 => ~(dacIsLeft <=> dacLeft) /\ (~dacLeft => dacBit = Half)
        /\ dacPos \in 1 .. Half => dacBit = Wanted /\ bitToDac = Wanted
        /\ dacPos >= Half => dacBit = IF dacLeft THEN Half ELSE 0
        /\ requestBit <=> dacPos \in 1 .. Half - 1

OutInv == OutTypes /\ ChainInv /\ PlayerInv /\ LineInv /\ AlignInv
-----------------------------------------------------------------------------
LEMMA OutSizes ==
    /\ Half \in Nat \ {0} /\ MaxPad \in Nat /\ NumSamples \in Nat \ {0}
    /\ OutDepth \in Nat \ {0}
    /\ DATA_WIDTH \in Nat \ {0} /\ DATA_WIDTH = 2 * Half
BY AudioIfAssumption, AudioOutAssumption DEF DATA_WIDTH

LEMMA Counting ==
    /\ 0 \in Numbers
    /\ \A n \in Numbers : Following(n) \in Numbers
<1> USE OutSizes
<1>1. ASSUME NEW n \in Numbers PROVE Following(n) \in Numbers
  <2>1. n + 1 \in Int
    BY DEF Numbers
  <2> QED
    BY <2>1, Remainder DEF Following, Numbers
<1> QED
  BY <1>1 DEF Numbers

LEMMA NoSampleIsNone == NoSample \notin Sampled
<1> SUFFICES ASSUME NEW n \in Numbers PROVE SampleWord(n) # NoSample
  BY DEF Sampled
<1>1. n # NumSamples
  BY OutSizes DEF Numbers
<1> QED
  BY <1>1 DEF SampleWord, NoSample

LEMMA ChainAppend ==
    ASSUME NEW words \in Seq(Sampled), NEW first \in Numbers, NEW n \in Numbers,
           Chained(first, words), n = Ending(first, words)
    PROVE  /\ Append(words, SampleWord(n)) \in Seq(Sampled)
           /\ Chained(first, Append(words, SampleWord(n)))
           /\ Ending(first, Append(words, SampleWord(n))) = Following(n)
<1> DEFINE w == SampleWord(n)
           more == Append(words, w)
<1>1. w \in Sampled /\ w[1] = n
  BY DEF SampleWord, Sampled
<1> HIDE DEF w
<1>2. /\ more \in Seq(Sampled) /\ more # << >> /\ Len(more) = Len(words) + 1
      /\ Len(words) \in Nat /\ more[Len(words) + 1] = w
      /\ \A i \in 1 .. Len(words) : more[i] = words[i]
  BY <1>1
<1> HIDE DEF more
<1>3. words = << >> <=> Len(words) = 0
  OBVIOUS
<1>4. more[1] = SampleWord(first)
  <2>1. CASE words = << >>
    BY <1>2, <1>3, <2>1 DEF Ending, w
  <2>2. CASE words # << >>
    BY <1>2, <1>3, <2>2 DEF Chained
  <2> QED
    BY <2>1, <2>2
<1>5. ASSUME NEW i \in 1 .. Len(more) - 1
      PROVE  more[i + 1] = SampleWord(Following(more[i][1]))
  <2>1. CASE i = Len(words)
    <3>1. more[i] = words[i] /\ words # << >>
      BY <1>2, <1>3, <2>1
    <3>2. n = Following(words[i][1])
      BY <2>1, <3>1 DEF Ending
    <3> QED
      BY <1>2, <2>1, <3>1, <3>2 DEF w
  <2>2. CASE i \in 1 .. Len(words) - 1
    <3>1. more[i] = words[i] /\ more[i + 1] = words[i + 1]
      BY <1>2, <2>2
    <3> QED
      BY <2>2, <3>1 DEF Chained
  <2> QED
    BY <1>2, <2>1, <2>2
<1>6. Chained(first, more)
  BY <1>4, <1>5 DEF Chained
<1>7. Ending(first, more) = Following(n)
  BY <1>1, <1>2 DEF Ending
<1> QED
  BY <1>2, <1>6, <1>7 DEF more, w

LEMMA ChainTail ==
    ASSUME NEW words \in Seq(Sampled), NEW first \in Numbers, Chained(first, words),
           words # << >>
    PROVE  /\ Head(words) = SampleWord(first) /\ Tail(words) \in Seq(Sampled)
           /\ Len(Tail(words)) = Len(words) - 1
           /\ Chained(Following(first), Tail(words))
           /\ Ending(Following(first), Tail(words)) = Ending(first, words)
<1> DEFINE rest == Tail(words)
<1>1. /\ rest \in Seq(Sampled) /\ Len(rest) = Len(words) - 1
      /\ Len(words) \in Nat \ {0} /\ Head(words) = words[1]
      /\ \A i \in 1 .. Len(rest) : rest[i] = words[i + 1]
  OBVIOUS
<1> HIDE DEF rest
<1>2. words[1] = SampleWord(first) /\ words[1][1] = first
  BY DEF Chained, SampleWord
<1>3. rest = << >> <=> Len(rest) = 0
  BY <1>1
<1>4. rest # << >> => rest[1] = SampleWord(Following(first))
  <2> SUFFICES ASSUME rest # << >> PROVE rest[1] = SampleWord(Following(first))
    OBVIOUS
  <2>1. 1 \in 1 .. Len(words) - 1 /\ rest[1] = words[1 + 1]
    BY <1>1, <1>3
  <2> QED
    BY <1>2, <2>1 DEF Chained
<1>5. ASSUME NEW i \in 1 .. Len(rest) - 1
      PROVE  rest[i + 1] = SampleWord(Following(rest[i][1]))
  <2>1. rest[i] = words[i + 1] /\ rest[i + 1] = words[i + 1 + 1]
    BY <1>1
  <2>2. i + 1 \in 1 .. Len(words) - 1
    BY <1>1
  <2> QED
    BY <2>1, <2>2 DEF Chained
<1>6. Chained(Following(first), rest)
  BY <1>4, <1>5 DEF Chained
<1>7. Ending(Following(first), rest) = Ending(first, words)
  <2>1. CASE rest = << >>
    <3>1. Len(words) = 1
      BY <1>1, <1>3, <2>1
    <3> QED
      BY <1>2, <2>1, <3>1 DEF Ending
  <2>2. CASE rest # << >>
    <3>1. rest[Len(rest)] = words[Len(words)]
      BY <1>1, <1>3, <2>2
    <3> QED
      BY <2>2, <3>1 DEF Ending
  <2> QED
    BY <2>1, <2>2
<1> QED
  BY <1>1, <1>2, <1>6, <1>7 DEF rest

LEMMA ChainEnds ==
    ASSUME NEW words \in Seq(Sampled), NEW first \in Numbers, Chained(first, words)
    PROVE  Ending(first, words) \in Numbers
<1>1. CASE words = << >>
  BY <1>1 DEF Ending
<1>2. CASE words # << >>
  <2>1. words[Len(words)] \in Sampled
    BY <1>2
  <2>2. words[Len(words)][1] \in Numbers
    BY <2>1 DEF Sampled, SampleWord
  <2> QED
    BY <1>2, <2>2, Counting DEF Ending
<1> QED
  BY <1>1, <1>2

LEMMA Numbered ==
    ASSUME OutTypes, ChainInv
    PROVE  AfterLatch \in Numbers /\ AfterTaken \in Numbers /\ AfterFifo \in Numbers
<1>1. expected \in Numbers /\ dacFifo \in Seq(Sampled)
  BY DEF OutTypes
<1>2. AfterLatch \in Numbers
  BY <1>1, Counting DEF AfterLatch
<1>3. AfterTaken \in Numbers
  BY <1>2, Counting DEF AfterTaken
<1> QED
  BY <1>1, <1>2, <1>3, ChainEnds DEF AfterFifo, ChainInv
-----------------------------------------------------------------------------
(* A clock of the bus.                                                     *)
Access == {"none", "left", "right", "clear"}

Turn(access) ==
    /\ WriteRegisters(access)
    /\ \/ Player(access)
       \/ access = "none" /\ ReadStatus
    /\ IF dacClear' THEN ClearFifo ELSE WriteFifo
    /\ UNCHANGED <<dacLine, dacVars, dataToDac, misaligned, playedInOrder>>

LEMMA Turns == WriteClock => \E access \in Access : Turn(access)
BY DEF WriteClock, Turn, Access

(* The host's turn, and what it does to the registers.                     *)
LEMMA TurnPlayer ==
    ASSUME OutTypes, PlayerInv, NEW access \in Access, Turn(access)
    PROVE  /\ player' \in {"idle", "ready", "left", "pause"}
           /\ dacClear' \in BOOLEAN /\ dacWrite' \in BOOLEAN
           /\ dacClear' <=> access = "clear"
           /\ dacWrite' <=> access = "right"
           /\ dacClear' \/ dacWrite' => player' = "pause" /\ ~dacWrite /\ ~dacClear
           /\ player' \in {"ready", "left"} \/ dacWrite' =>
                 ~dacWrite /\ ~dacClear /\ Len(dacFifo) < OutDepth
           /\ sample' = IF dacWrite' THEN Following(sample) ELSE sample
           /\ dacWrite' => dacWriteData' = SampleWord(sample)
           /\ player' = "left" => dacWriteData'[1] = sample
<1>1. CASE access = "none" /\ ReadStatus
  <2>1. player = "idle" /\ Len(dacFifo) < OutDepth /\ player' = "ready"
        /\ dacClear' = FALSE /\ sample' = sample /\ ~dacClear /\ ~dacWrite
    BY <1>1 DEF ReadStatus, PlayerInv
  <2>2. dacWrite' = FALSE
    BY <1>1 DEF Turn, WriteRegisters
  <2> QED
    BY <1>1, <2>1, <2>2
<1>2. CASE access = "none" /\ Player(access)
  <2>1. /\ player' = IF player = "pause" THEN "idle" ELSE player
        /\ dacClear' = FALSE /\ sample' = sample
    BY <1>2 DEF Player
  <2>2. dacWrite' = FALSE /\ dacWriteData' = dacWriteData
    BY <1>2 DEF Turn, WriteRegisters
  <2>3. /\ dacClear \/ dacWrite => player = "pause"
        /\ player \in {"ready", "left"} => Len(dacFifo) < OutDepth
        /\ player = "left" => dacWriteData[1] = sample
        /\ player \in {"idle", "ready", "left", "pause"}
    BY DEF PlayerInv, OutTypes
  <2> QED
    BY <1>2, <2>1, <2>2, <2>3
<1>3. CASE access = "left" /\ Player(access)
  <2>1. player = "ready" /\ player' = "left" /\ dacClear' = FALSE /\ sample' = sample
    BY <1>3 DEF Player
  <2>2. ~dacClear /\ ~dacWrite /\ Len(dacFifo) < OutDepth
    BY <2>1 DEF PlayerInv
  <2>3. dacWrite' = FALSE /\ dacWriteData' = <<sample, dacWriteData[2]>>
    BY <1>3, <2>2 DEF Turn, WriteRegisters
  <2> QED
    BY <1>3, <2>1, <2>2, <2>3
<1>4. CASE access = "right" /\ Player(access)
  <2>1. player = "left" /\ player' = "pause" /\ dacClear' = FALSE
        /\ sample' = Following(sample)
    BY <1>4 DEF Player, Following
  <2>2. ~dacClear /\ ~dacWrite /\ Len(dacFifo) < OutDepth /\ dacWriteData[1] = sample
    BY <2>1 DEF PlayerInv
  <2>3. dacWrite' = TRUE /\ dacWriteData' = <<sample, sample>>
    BY <1>4, <2>2 DEF Turn, WriteRegisters
  <2> QED
    BY <1>4, <2>1, <2>2, <2>3 DEF SampleWord
<1>5. CASE access = "clear" /\ Player(access)
  <2>1. player = "idle" /\ player' = "pause" /\ dacClear' = TRUE /\ sample' = sample
    BY <1>5 DEF Player
  <2>2. ~dacClear /\ ~dacWrite
    BY <2>1 DEF PlayerInv
  <2>3. dacWrite' = FALSE
    BY <1>5 DEF Turn, WriteRegisters
  <2> QED
    BY <1>5, <2>1, <2>2, <2>3
<1> QED
  BY <1>1, <1>2, <1>3, <1>4, <1>5 DEF Turn, Access

(* What is in the FIFO and behind it.                                      *)
LEMMA TurnClear ==
    ASSUME OutTypes, ChainInv, PlayerInv, NEW access \in Access, Turn(access), dacClear'
    PROVE  OutTypes' /\ ChainInv' /\ PlayerInv'
<1>1. /\ dacFifo' = << >> /\ seen' = 0 /\ dacQ' \in {dacQ, NoSample}
      /\ old' = {"q", "latch"} /\ expected' = sample
      /\ dataToDac' = dataToDac /\ playedInOrder' = playedInOrder
  BY DEF Turn, ClearFifo
<1>2. /\ ~dacWrite' /\ player' = "pause" /\ sample' = sample
      /\ dacWrite' \in BOOLEAN /\ dacClear' \in BOOLEAN
  BY TurnPlayer
<1>3. OutTypes'
  <2>1. dacFifo' \in Seq(Sampled) /\ seen' \in 0 .. Len(dacFifo')
    BY <1>1
  <2> QED
    BY <1>1, <1>2, <2>1 DEF OutTypes
<1>4. ~LatchDue' /\ ~TakenDue'
  BY <1>1 DEF LatchDue, TakenDue
<1>5. AfterTaken' = sample /\ AfterFifo' = sample
  BY <1>1, <1>4 DEF AfterLatch, AfterTaken, AfterFifo, Ending
<1>6. Chained(AfterTaken, dacFifo)'
  BY <1>1 DEF Chained
<1>7. ChainInv'
  BY <1>1, <1>2, <1>4, <1>5, <1>6 DEF ChainInv
<1>8. PlayerInv'
  BY <1>1, <1>2 DEF PlayerInv
<1> QED
  BY <1>3, <1>7, <1>8

LEMMA TurnWrite ==
    ASSUME OutTypes, ChainInv, PlayerInv, NEW access \in Access, Turn(access), ~dacClear'
    PROVE  OutTypes' /\ ChainInv' /\ PlayerInv'
<1> USE OutSizes
<1>1. /\ UNCHANGED <<seen, dacQ, old, expected, dataToDac, playedInOrder,
                     dacLeft, dacIsLeft>>
      /\ dacFifo' = IF dacWrite /\ ~dacClear /\ Len(dacFifo) < OutDepth
                    THEN Append(dacFifo, dacWriteData) ELSE dacFifo
  BY DEF Turn, WriteFifo, dacLine, dacVars
<1>2. dacWrite => ~dacClear /\ Len(dacFifo) < OutDepth /\ dacWriteData = SampleWord(AfterFifo)
  BY DEF PlayerInv, ChainInv
<1>3. /\ dacFifo \in Seq(Sampled) /\ seen \in 0 .. Len(dacFifo)
      /\ AfterTaken \in Numbers /\ AfterFifo \in Numbers
      /\ Chained(AfterTaken, dacFifo)
      /\ sample = (IF dacWrite THEN Following(AfterFifo) ELSE AfterFifo)
      /\ sample \in Numbers
  BY Numbered DEF OutTypes, ChainInv
<1>4. (LatchDue' <=> LatchDue) /\ (TakenDue' <=> TakenDue)
  BY <1>1 DEF LatchDue, TakenDue
<1>5. AfterLatch' = AfterLatch /\ AfterTaken' = AfterTaken
  BY <1>1, <1>4 DEF AfterLatch, AfterTaken
<1>6. /\ dacFifo' \in Seq(Sampled) /\ seen' \in 0 .. Len(dacFifo')
      /\ Chained(AfterTaken, dacFifo')
      /\ Ending(AfterTaken, dacFifo') = sample
  <2>1. CASE dacWrite
    <3> DEFINE more == Append(dacFifo, SampleWord(AfterFifo))
    <3>1. dacFifo' = more
      BY <1>1, <1>2, <2>1
    <3>2. /\ more \in Seq(Sampled) /\ Chained(AfterTaken, more)
          /\ Ending(AfterTaken, more) = Following(AfterFifo)
      BY <1>3, ChainAppend DEF AfterFifo
    <3>3. Len(more) = Len(dacFifo) + 1 /\ Len(dacFifo) \in Nat
      BY <1>3
    <3> HIDE DEF more
    <3>4. seen' \in 0 .. Len(more)
      BY <1>1, <1>3, <3>3
    <3>5. sample = Following(AfterFifo)
      BY <1>3, <2>1
    <3> QED
      BY <3>1, <3>2, <3>4, <3>5
  <2>2. CASE ~dacWrite
    BY <1>1, <1>3, <2>2 DEF AfterFifo
  <2> QED
    BY <2>1, <2>2
<1>7. OutTypes'
  <2>1. sample' \in Numbers
    BY <1>3, TurnPlayer, Counting
  <2>2. /\ expected \in Numbers
        /\ dacQ \in Sampled \cup {NoSample} /\ dataToDac \in Sampled \cup {NoSample}
    BY DEF OutTypes
  <2> QED
    BY <1>1, <1>6, <2>1, <2>2, TurnPlayer DEF OutTypes
<1>8. ChainInv'
  <2>1. AfterFifo' = sample
    BY <1>5, <1>6 DEF AfterFifo
  <2>2. Chained(AfterTaken, dacFifo)'
    BY <1>5, <1>6
  <2>3. /\ sample' = (IF dacWrite' THEN Following(sample) ELSE sample)
        /\ dacWrite' => dacWriteData' = SampleWord(sample)
    BY TurnPlayer
  <2>4. /\ LatchDue' => dataToDac' = SampleWord(expected')
        /\ TakenDue' => dacQ' = SampleWord(AfterLatch')
        /\ playedInOrder' = TRUE
    BY <1>1, <1>4, <1>5 DEF ChainInv
  <2> QED
    BY <2>1, <2>2, <2>3, <2>4 DEF ChainInv
<1>9. PlayerInv'
  <2>1. ~dacWrite => dacFifo' = dacFifo
    BY <1>1
  <2>2. /\ dacWrite' => player' = "pause"
        /\ player' \in {"ready", "left"} \/ dacWrite' =>
                 ~dacWrite /\ ~dacClear /\ Len(dacFifo) < OutDepth
        /\ player' = "left" => dacWriteData'[1] = sample /\ ~dacWrite'
        /\ sample' = IF dacWrite' THEN Following(sample) ELSE sample
    <3>1. player' = "left" => ~dacWrite'
      BY TurnPlayer
    <3> QED
      BY <3>1, TurnPlayer
  <2> QED
    BY <2>1, <2>2 DEF PlayerInv
<1> QED
  BY <1>7, <1>8, <1>9
-----------------------------------------------------------------------------
(* The codec changes the channel.                                          *)
LEMMA LeftTypes ==
    ASSUME OutTypes, ChainInv, PlayerInv, LineInv, LeftStarts
    PROVE  OutTypes' /\ ChainInv' /\ PlayerInv'
<1> USE OutSizes
<1>1. /\ UNCHANGED <<playVars, ifVars, dacVars, dataToDac, expected, misaligned,
                     playedInOrder>>
      /\ ~dacLeft /\ dacLeft' = TRUE /\ dacPos >= Half
  BY DEF LeftStarts
<1>2. /\ sample' = sample /\ player' = player /\ dacClear' = dacClear /\ dacWrite' = dacWrite
      /\ dacWriteData' = dacWriteData /\ dacIsLeft' = dacIsLeft /\ dataToDac' = dataToDac
      /\ expected' = expected /\ playedInOrder' = playedInOrder
  BY <1>1 DEF playVars, ifVars, dacVars
<1>3. ~dacIsLeft
  BY <1>1 DEF LineInv
<1>4. /\ dacFifo \in Seq(Sampled) /\ seen \in 0 .. Len(dacFifo)
      /\ AfterLatch \in Numbers /\ AfterTaken \in Numbers
      /\ Chained(AfterTaken, dacFifo)
  BY Numbered DEF OutTypes, ChainInv
<1>5. CASE seen = 0
  <2>1. /\ dacQ' = dacQ /\ dacFifo' = dacFifo /\ old' = old
        /\ seen' \in 0 .. Len(dacFifo)
    BY <1>4, <1>5 DEF LeftStarts
  <2>2. (LatchDue' <=> LatchDue) /\ (TakenDue' <=> TakenDue)
    BY <1>1, <1>2, <1>3, <1>5, <2>1 DEF LatchDue, TakenDue
  <2>3. AfterLatch' = AfterLatch /\ AfterTaken' = AfterTaken /\ AfterFifo' = AfterFifo
    BY <1>2, <2>1, <2>2 DEF AfterLatch, AfterTaken, AfterFifo
  <2>4. OutTypes'
    BY <1>2, <2>1 DEF OutTypes
  <2>5. Chained(AfterTaken, dacFifo)'
    BY <1>4, <2>1, <2>3
  <2>6. ChainInv'
    BY <1>2, <2>1, <2>2, <2>3, <2>5 DEF ChainInv
  <2> QED
    BY <1>2, <2>1, <2>4, <2>6 DEF PlayerInv
<1>6. CASE seen > 0
  <2>1. /\ dacQ' = Head(dacFifo) /\ dacFifo' = Tail(dacFifo) /\ old' = old \ {"q"}
        /\ seen' \in seen - 1 .. Len(Tail(dacFifo))
    BY <1>6 DEF LeftStarts
  <2>2. dacFifo # << >> /\ ~TakenDue
    BY <1>1, <1>4, <1>6 DEF TakenDue
  <2>3. AfterTaken = AfterLatch
    BY <2>2 DEF AfterTaken
  <2>4. /\ dacQ' = SampleWord(AfterLatch) /\ dacFifo' \in Seq(Sampled)
        /\ Len(dacFifo') = Len(dacFifo) - 1
        /\ Chained(Following(AfterLatch), dacFifo')
        /\ Ending(Following(AfterLatch), dacFifo') = AfterFifo
    BY <1>4, <2>1, <2>2, <2>3, ChainTail DEF AfterFifo
  <2>5. dacQ' \in Sampled /\ dacQ' # NoSample
    BY <1>4, <2>4, NoSampleIsNone DEF Sampled
  <2>6. (LatchDue' <=> LatchDue) /\ TakenDue'
    BY <1>1, <1>2, <1>3, <2>1, <2>5 DEF LatchDue, TakenDue
  <2>7. AfterLatch' = AfterLatch /\ AfterTaken' = Following(AfterLatch)
    BY <1>2, <2>6 DEF AfterLatch, AfterTaken
  <2>8. AfterFifo' = AfterFifo
    BY <2>4, <2>7 DEF AfterFifo
  <2>9. seen' \in 0 .. Len(dacFifo')
    <3>1. Len(dacFifo') \in Nat /\ Len(Tail(dacFifo)) = Len(dacFifo')
      BY <2>1, <2>4
    <3> QED
      BY <1>4, <1>6, <2>1, <3>1
  <2>10. OutTypes'
    BY <1>2, <2>4, <2>5, <2>9 DEF OutTypes
  <2>11. Chained(AfterTaken, dacFifo)'
    BY <2>4, <2>7
  <2>12. ChainInv'
    BY <1>2, <2>4, <2>6, <2>7, <2>8, <2>11 DEF ChainInv
  <2>13. PlayerInv'
    <3>1. ~dacClear
      BY <2>2 DEF PlayerInv
    <3>2. Len(dacFifo) < OutDepth => Len(dacFifo') < OutDepth
      BY <1>4, <2>4
    <3> QED
      BY <1>2, <3>1, <3>2 DEF PlayerInv
  <2> QED
    BY <2>10, <2>12, <2>13
<1> QED
  BY <1>4, <1>5, <1>6

LEMMA RightTypes ==
    ASSUME OutTypes, ChainInv, PlayerInv, LineInv, RightStarts
    PROVE  OutTypes' /\ ChainInv' /\ PlayerInv'
<1> USE OutSizes
<1>1. /\ UNCHANGED <<playVars, ifVars, dacFifo, seen, dacQ, dacVars, expected,
                     misaligned, playedInOrder>>
      /\ dacLeft /\ dacLeft' = FALSE /\ dacPos >= Half /\ Latch(seen = 0)
  BY DEF RightStarts
<1>2. /\ sample' = sample /\ player' = player /\ dacClear' = dacClear /\ dacWrite' = dacWrite
      /\ dacWriteData' = dacWriteData /\ dacIsLeft' = dacIsLeft
      /\ dacFifo' = dacFifo /\ seen' = seen /\ dacQ' = dacQ
      /\ expected' = expected /\ playedInOrder' = playedInOrder
  BY <1>1 DEF playVars, ifVars, dacVars
<1>3. dacIsLeft /\ ~LatchDue /\ AfterLatch = expected
  <2>1. dacIsLeft
    BY <1>1 DEF LineInv
  <2> QED
    BY <1>1, <2>1 DEF LatchDue, AfterLatch
<1>4. dataToDac' \in {dacQ, NoSample}
  BY <1>1 DEF Latch
<1>5. OutTypes'
  BY <1>2, <1>4 DEF OutTypes
<1>6. ChainInv' /\ PlayerInv'
  <2>1. CASE seen = 0
    <3>1. dataToDac' = NoSample /\ old' = old \ {"latch"}
      BY <1>1, <2>1 DEF Latch
    <3>2. ~LatchDue' /\ (TakenDue' <=> TakenDue)
      BY <1>1, <1>2, <2>1, <3>1 DEF LatchDue, TakenDue
    <3>3. AfterLatch' = AfterLatch /\ AfterTaken' = AfterTaken
      BY <1>2, <1>3, <3>2 DEF AfterLatch, AfterTaken
    <3>4. AfterFifo' = AfterFifo /\ (Chained(AfterTaken, dacFifo)' <=> Chained(AfterTaken, dacFifo))
      BY <1>2, <3>3 DEF AfterFifo
    <3>5. ChainInv'
      BY <1>2, <3>2, <3>3, <3>4 DEF ChainInv
    <3> QED
      BY <1>2, <3>1, <3>5 DEF PlayerInv
  <2>2. CASE seen # 0
    <3>1. dataToDac' = dacQ /\ old' = IF "q" \in old THEN {"latch"} ELSE {}
      BY <1>1, <2>2 DEF Latch
    <3>2. (LatchDue' <=> TakenDue) /\ ~TakenDue'
      BY <1>1, <1>2, <2>2, <3>1 DEF LatchDue, TakenDue
    <3>3. AfterLatch' = AfterTaken /\ AfterTaken' = AfterTaken
      BY <1>2, <1>3, <3>2 DEF AfterLatch, AfterTaken
    <3>4. AfterFifo' = AfterFifo /\ (Chained(AfterTaken, dacFifo)' <=> Chained(AfterTaken, dacFifo))
      BY <1>2, <3>3 DEF AfterFifo
    <3>5. LatchDue' => dataToDac' = SampleWord(expected')
      BY <1>2, <1>3, <3>1, <3>2 DEF ChainInv
    <3>6. ChainInv'
      BY <1>2, <3>2, <3>4, <3>5 DEF ChainInv
    <3>7. ~dacClear
      BY <2>2 DEF PlayerInv, OutTypes
    <3> QED
      BY <1>2, <3>6, <3>7 DEF PlayerInv
  <2> QED
    BY <2>1, <2>2
<1> QED
  BY <1>5, <1>6
-----------------------------------------------------------------------------
(* The serialiser loads what is latched, on the first bit clock of a left  *)
(* channel.                                                                *)
LEMMA ClockTypes ==
    ASSUME OutTypes, ChainInv, PlayerInv, LineInv, DacClock
    PROVE  OutTypes' /\ ChainInv' /\ PlayerInv'
<1>1. /\ UNCHANGED <<playVars, ifVars, dacFifo, seen, dacQ, dataToDac, dacLeft>>
      /\ IF dacClear THEN ResetSerialiser ELSE Serialise
  BY DEF DacClock
<1>2. /\ sample' = sample /\ player' = player /\ dacClear' = dacClear /\ dacWrite' = dacWrite
      /\ dacWriteData' = dacWriteData /\ dataToDac' = dataToDac
      /\ dacFifo' = dacFifo /\ seen' = seen /\ dacQ' = dacQ /\ dacLeft' = dacLeft
  BY <1>1 DEF playVars, ifVars
<1>3. dacIsLeft' = dacLeft
  BY <1>1 DEF ResetSerialiser, Serialise
<1>4. dacLeft \in BOOLEAN /\ dacIsLeft \in BOOLEAN
  BY DEF LineInv
<1>5. expected \in Numbers /\ Following(expected) \in Numbers
  BY Counting DEF OutTypes
<1>6. ASSUME expected' \in Numbers, old' \in {old, old \ {"latch"}}, playedInOrder' = TRUE,
             dacClear => old' = old, ~LatchDue', AfterLatch = expected'
      PROVE  OutTypes' /\ ChainInv' /\ PlayerInv'
  <2>1. TakenDue' <=> TakenDue
    BY <1>2, <1>6 DEF TakenDue
  <2>2. AfterLatch' = AfterLatch
    BY <1>6 DEF AfterLatch
  <2>3. AfterTaken' = AfterTaken
    BY <2>1, <2>2 DEF AfterTaken
  <2>4. AfterFifo' = AfterFifo /\ (Chained(AfterTaken, dacFifo)' <=> Chained(AfterTaken, dacFifo))
    BY <1>2, <2>3 DEF AfterFifo
  <2>5. ChainInv'
    BY <1>2, <1>6, <2>1, <2>2, <2>4 DEF ChainInv
  <2>6. OutTypes'
    BY <1>2, <1>6 DEF OutTypes
  <2>7. PlayerInv'
    BY <1>2, <1>6 DEF PlayerInv
  <2> QED
    BY <2>5, <2>6, <2>7
<1>7. ASSUME UNCHANGED <<expected, old, playedInOrder>>, LatchDue' <=> LatchDue
      PROVE  OutTypes' /\ ChainInv' /\ PlayerInv'
  <2>1. TakenDue' <=> TakenDue
    BY <1>2, <1>7 DEF TakenDue
  <2>2. AfterLatch' = AfterLatch
    BY <1>7 DEF AfterLatch
  <2>3. AfterTaken' = AfterTaken
    BY <2>1, <2>2 DEF AfterTaken
  <2>4. AfterFifo' = AfterFifo /\ (Chained(AfterTaken, dacFifo)' <=> Chained(AfterTaken, dacFifo))
    BY <1>2, <2>3 DEF AfterFifo
  <2>5. ChainInv'
    BY <1>2, <1>7, <2>1, <2>2, <2>4 DEF ChainInv
  <2>6. OutTypes'
    BY <1>2, <1>7 DEF OutTypes
  <2>7. PlayerInv'
    BY <1>2, <1>7 DEF PlayerInv
  <2> QED
    BY <2>5, <2>6, <2>7
<1>8. CASE dacClear
  <2>1. UNCHANGED <<expected, old, playedInOrder>>
    BY <1>1, <1>8 DEF ResetSerialiser
  <2>2. ~LatchDue /\ ~LatchDue'
    BY <1>2, <1>8, <2>1 DEF LatchDue, PlayerInv
  <2> QED
    BY <1>7, <2>1, <2>2
<1>9. CASE ~dacClear /\ dacLeft /\ ~dacIsLeft
  <2>1. Loaded(dataToDac)
    BY <1>1, <1>4, <1>9 DEF Serialise, dacChanged
  <2>2. ~LatchDue' /\ playedInOrder = TRUE
    BY <1>2, <1>3, <1>9 DEF LatchDue, ChainInv
  <2>3. CASE "latch" \in old
    <3>1. old' = old \ {"latch"} /\ playedInOrder' = playedInOrder /\ expected' = expected
      BY <2>1, <2>3 DEF Loaded
    <3>2. AfterLatch = expected
      BY <2>3 DEF AfterLatch, LatchDue
    <3> QED
      BY <1>5, <1>6, <1>9, <2>2, <3>1, <3>2
  <2>4. CASE "latch" \notin old /\ dataToDac = NoSample
    <3>1. old' = old /\ playedInOrder' = TRUE /\ expected' = expected
      BY <2>1, <2>2, <2>4 DEF Loaded
    <3>2. AfterLatch = expected
      BY <2>4 DEF AfterLatch, LatchDue
    <3> QED
      BY <1>5, <1>6, <1>9, <2>2, <3>1, <3>2
  <2>5. CASE "latch" \notin old /\ dataToDac # NoSample
    <3>1. LatchDue /\ dataToDac = <<expected, expected>>
      BY <1>9, <2>5 DEF LatchDue, ChainInv, SampleWord
    <3>2. old' = old /\ playedInOrder' = TRUE /\ expected' = Following(expected)
      BY <2>1, <2>2, <2>5, <3>1 DEF Loaded, Following
    <3>3. AfterLatch = Following(expected)
      BY <3>1 DEF AfterLatch
    <3> QED
      BY <1>5, <1>6, <1>9, <2>2, <3>2, <3>3
  <2> QED
    BY <2>3, <2>4, <2>5
<1>10. CASE ~dacClear /\ ~(dacLeft /\ ~dacIsLeft)
  <2>1. UNCHANGED <<expected, old, playedInOrder>>
    BY <1>1, <1>4, <1>10 DEF Serialise, dacChanged
  <2>2. LatchDue' <=> LatchDue
    BY <1>2, <1>3, <1>10, <2>1 DEF LatchDue
  <2> QED
    BY <1>7, <2>1, <2>2
<1> QED
  BY <1>8, <1>9, <1>10

(* The bits of a channel, one by one.                                      *)
LEMMA Downwards ==
    ASSUME NEW n \in 0 .. DATA_WIDTH - 1
    PROVE  Down(n) = IF n = 0 THEN DATA_WIDTH - 1 ELSE n - 1
<1> DEFINE D == DATA_WIDTH
           m == n + D - 1
<1>1. D \in Nat \ {0} /\ n \in 0 .. D - 1
  BY OutSizes
<1>2. Down(n) = m % D
  BY DEF Down
<1>3. m \in Int /\ (n = 0 => 0 <= m /\ m < D) /\ (n # 0 => D <= m /\ m < 2 * D)
  BY <1>1
<1> HIDE DEF m, D
<1>4. m % D = IF n = 0 THEN m ELSE m - D
  BY <1>1, <1>3, Remainder
<1> QED
  BY <1>1, <1>2, <1>4 DEF m, D

LEMMA ClockLine ==
    ASSUME LineInv, AlignInv, DacClock
    PROVE  LineInv' /\ AlignInv'
<1> USE OutSizes
<1>1. /\ dacPos \in Nat /\ dacPos < Half + MaxPad /\ dacPos' = dacPos + 1
      /\ dacLeft' = dacLeft /\ dacLeft \in BOOLEAN /\ dacIsLeft \in BOOLEAN
      /\ misaligned \in BOOLEAN
      /\ IF dacClear THEN ResetSerialiser ELSE Serialise
  BY DEF DacClock, LineInv
<1>2. dacIsLeft' = dacLeft /\ misaligned' \in BOOLEAN
  BY <1>1 DEF ResetSerialiser, Serialise
<1>3. LineInv'
  BY <1>1, <1>2 DEF LineInv
<1>4. CASE dacClear
  BY <1>1, <1>3, <1>4 DEF ResetSerialiser, AlignInv
<1>5. CASE ~dacClear /\ misaligned'
  BY <1>3, <1>5 DEF AlignInv
<1>6. CASE ~dacClear /\ ~misaligned'
  <2> DEFINE loads == dacChanged /\ dacLeft
             index == Down(IF loads THEN 0 ELSE dacBit)
  <2>1. /\ IF requestBit \/ dacChanged
           THEN /\ dacBit' = index
                /\ bitToDac' = index
                /\ requestBit' = (index \notin {0, Half})
           ELSE bitToDac' = NoBit /\ UNCHANGED <<dacBit, requestBit>>
        /\ loads \/ ~misaligned
    BY <1>1, <1>6 DEF Serialise
  <2>2. dacChanged <=> ~(dacIsLeft <=> dacLeft)
    BY <1>1 DEF dacChanged
  <2>3. dacChanged => dacPos = 0
    BY <1>1, <2>2 DEF LineInv
  <2>4. CASE dacPos < Half
    <3>1. requestBit \/ dacChanged
      BY <1>1, <2>1, <2>2, <2>4 DEF AlignInv
    <3>2. index = Wanted - 1 /\ Wanted - 1 \in Int
      <4>1. CASE loads
        <5>1. index = DATA_WIDTH - 1
          BY <4>1, Downwards
        <5> QED
          BY <1>1, <2>3, <4>1, <5>1 DEF Wanted
      <4>2. CASE ~loads
        <5>1. dacBit = Wanted /\ dacBit \in 1 .. DATA_WIDTH - 1
          <6>1. CASE dacPos = 0
            BY <1>1, <2>1, <2>2, <4>2, <6>1 DEF AlignInv, Wanted
          <6>2. CASE dacPos \in 1 .. Half
            BY <1>1, <2>1, <2>4, <4>2, <6>2 DEF AlignInv, Wanted
          <6> QED
            BY <1>1, <2>4, <6>1, <6>2
        <5>2. index = dacBit - 1
          BY <4>2, <5>1, Downwards
        <5> QED
          BY <5>1, <5>2
      <4> QED
        BY <4>1, <4>2
    <3> HIDE DEF index
    <3>3. Wanted' = Wanted - 1 /\ Wanted = (IF dacLeft THEN Half ELSE 0) + Half - dacPos
      BY <1>1 DEF Wanted
    <3>4. dacBit' = Wanted' /\ bitToDac' = Wanted' /\ (requestBit' <=> index \notin {0, Half})
      BY <2>1, <3>1, <3>2, <3>3
    <3>5. index \notin {0, Half} <=> dacPos' \in 1 .. Half - 1
      BY <1>1, <2>4, <3>2, <3>3
    <3>6. dacPos' \in 1 .. Half
      BY <1>1, <2>4
    <3>7. dacPos' >= Half => dacBit' = IF dacLeft' THEN Half ELSE 0
      BY <1>1, <2>4, <3>2, <3>3, <3>4
    <3> QED
      BY <1>3, <3>4, <3>5, <3>6, <3>7 DEF AlignInv
  <2>5. CASE dacPos >= Half
    <3>1. ~dacChanged /\ ~misaligned
      BY <1>1, <2>1, <2>3, <2>5
    <3>2. ~requestBit /\ dacBit = IF dacLeft THEN Half ELSE 0
      BY <1>1, <2>5, <3>1 DEF AlignInv
    <3>3. dacBit' = dacBit /\ requestBit' = requestBit
      BY <2>1, <3>1, <3>2
    <3>4. dacPos' > Half
      BY <1>1, <2>5
    <3> QED
      BY <1>1, <1>3, <3>2, <3>3, <3>4 DEF AlignInv
  <2> QED
    BY <1>1, <2>4, <2>5
<1> QED
  BY <1>2, <1>3, <1>4, <1>5, <1>6

LEMMA ChangeLine ==
    ASSUME LineInv, AlignInv, LeftStarts \/ RightStarts
    PROVE  LineInv' /\ AlignInv'
<1> USE OutSizes
<1>1. /\ dacPos \in Nat /\ dacPos >= Half /\ dacPos' = 0 /\ (dacLeft' <=> ~dacLeft)
      /\ dacLeft' \in BOOLEAN
      /\ UNCHANGED <<dacIsLeft, misaligned, dacBit, requestBit, bitToDac>>
  <2>1. dacPos \in Nat
    BY DEF LineInv
  <2>2. CASE LeftStarts
    BY <2>1, <2>2 DEF LeftStarts, dacVars
  <2>3. CASE RightStarts
    BY <2>1, <2>3 DEF RightStarts, dacVars
  <2> QED
    BY <2>2, <2>3
<1>2. dacLeft \in BOOLEAN /\ dacIsLeft \in BOOLEAN /\ misaligned \in BOOLEAN
      /\ (dacIsLeft <=> dacLeft)
  BY <1>1 DEF LineInv
<1>3. LineInv'
  <2>1. dacPos' \in 0 .. Half + MaxPad
    BY <1>1
  <2> QED
    BY <1>1, <1>2, <2>1 DEF LineInv
<1>4. ~misaligned => ~requestBit /\ dacBit = IF dacLeft THEN Half ELSE 0
  BY <1>1 DEF AlignInv
<1>5. AlignInv'
  <2> SUFFICES ASSUME ~misaligned'
               PROVE  /\ ~(dacIsLeft' <=> dacLeft') /\ (~dacLeft' => dacBit' = Half)
                      /\ dacPos' = 0 /\ ~requestBit'
    BY <1>1 DEF AlignInv
  <2> QED
    BY <1>1, <1>2, <1>4
<1> QED
  BY <1>3, <1>5
-----------------------------------------------------------------------------
LEMMA OutInitInv == OutInit => OutInv
<1> SUFFICES ASSUME OutInit PROVE OutInv
  OBVIOUS
<1> USE OutSizes
<1>1. OutTypes
  <2>1. << >> \in Seq(Sampled) /\ 0 \in 0 .. Len(<< >>)
    OBVIOUS
  <2>2. sample = 0 /\ expected = 0 /\ 0 \in Numbers
    BY Counting DEF OutInit
  <2> QED
    BY <2>1, <2>2 DEF OutInit, OutTypes
<1>2. AfterTaken = 0 /\ AfterFifo = 0 /\ ~LatchDue /\ ~TakenDue
  BY DEF OutInit, AfterTaken, AfterLatch, AfterFifo, Ending, LatchDue, TakenDue
<1>3. Chained(AfterTaken, dacFifo)
  BY DEF OutInit, Chained
<1>4. ChainInv
  BY <1>2, <1>3 DEF OutInit, ChainInv
<1>5. PlayerInv
  BY DEF OutInit, PlayerInv
<1>6. LineInv /\ AlignInv
  BY DEF OutInit, LineInv, AlignInv
<1> QED
  BY <1>1, <1>4, <1>5, <1>6 DEF OutInv

LEMMA OutStepInv == OutInv /\ [OutNext]_outVars => OutInv'
<1> SUFFICES ASSUME OutInv, [OutNext]_outVars PROVE OutInv'
  OBVIOUS
<1> USE DEF OutInv
<1>1. CASE WriteClock
  <2>1. PICK access \in Access : Turn(access)
    BY <1>1, Turns
  <2>2. OutTypes' /\ ChainInv' /\ PlayerInv'
    <3>1. CASE dacClear'
      BY <2>1, <3>1, TurnClear
    <3>2. CASE ~dacClear'
      BY <2>1, <3>2, TurnWrite
    <3> QED
      BY <3>1, <3>2
  <2>3. UNCHANGED <<dacLine, dacVars, misaligned>>
    BY <2>1 DEF Turn
  <2>4. LineInv' /\ AlignInv'
    BY <2>3 DEF LineInv, AlignInv, Wanted, dacLine, dacVars
  <2> QED
    BY <2>2, <2>4
<1>2. CASE DacClock
  BY <1>2, ClockTypes, ClockLine
<1>3. CASE LeftStarts
  BY <1>3, LeftTypes, ChangeLine
<1>4. CASE RightStarts
  BY <1>4, RightTypes, ChangeLine
<1>5. CASE UNCHANGED outVars
  <2>1. OutTypes' /\ PlayerInv'
    BY <1>5 DEF OutTypes, PlayerInv, outVars, playVars, ifVars
  <2>2. ChainInv'
    BY <1>5 DEF ChainInv, AfterFifo, AfterTaken, AfterLatch, LatchDue, TakenDue,
                outVars, playVars, ifVars, dacLine, dacVars
  <2>3. LineInv' /\ AlignInv'
    BY <1>5 DEF LineInv, AlignInv, Wanted, outVars, dacLine, dacVars
  <2> QED
    BY <2>1, <2>2, <2>3
<1> QED
  BY <1>1, <1>2, <1>3, <1>4, <1>5 DEF OutNext

LEMMA OutPlayed == OutInv => PlayedInOrder
<1> SUFFICES ASSUME OutInv PROVE PlayedInOrder
  OBVIOUS
<1>1. playedInOrder
  BY DEF OutInv, ChainInv
<1>2. dacPos \in 1 .. Half /\ ~misaligned => bitToDac = Wanted
  BY DEF OutInv, AlignInv
<1> QED
  BY <1>1, <1>2 DEF PlayedInOrder, Wanted
-----------------------------------------------------------------------------
(* The interface: one direction runs, and the other is at rest.            *)
AudioInv == InInv /\ OutInv

LEMMA AudioInvariant == AudioSpec => []AudioInv
<1>1. AudioInit => AudioInv
  BY InInitInv, OutInitInv DEF AudioInit, AudioInv
<1>2. AudioInv /\ [AudioNext]_<<inVars, outVars, side>> => AudioInv'
  <2> SUFFICES ASSUME AudioInv, [AudioNext]_<<inVars, outVars, side>>
               PROVE  AudioInv'
    OBVIOUS
  <2>1. [InNext]_inVars /\ [OutNext]_outVars
    BY DEF AudioNext
  <2> QED
    BY <2>1, InStepInv, OutStepInv DEF AudioInv
<1> QED
  BY <1>1, <1>2, PTL DEF AudioSpec

(* Whatever clears and full FIFOs the deserialiser has met, and wherever   *)
(* they fell in a frame, every word in its FIFO is the bits of one frame.  *)
THEOREM RecordsWholeWords == AudioSpec => []WordsWhole
<1>1. AudioInv => WordsWhole
  BY InWhole DEF AudioInv
<1> QED
  BY <1>1, AudioInvariant, PTL

(* The host gets the recorded samples one by one and in order, no more     *)
(* than two late, and at most one from before a clear.                     *)
THEOREM RecordsInOrder == AudioSpec => []SamplesInOrder
<1>1. AudioInv => SamplesInOrder
  BY InOrder DEF AudioInv
<1> QED
  BY <1>1, AudioInvariant, PTL

(* Every sample is played whole, once and in order, however late the side  *)
(* that reads the FIFO learns of what is in it; only a clear skips some.   *)
THEOREM PlaysInOrder == AudioSpec => []PlayedInOrder
<1>1. AudioInv => PlayedInOrder
  BY OutPlayed DEF AudioInv
<1> QED
  BY <1>1, AudioInvariant, PTL

-----------------------------------------------------------------------------
(***************************************************************************)
(* The infrared receiver.                                                  *)
(***************************************************************************)
(* The registers that follow one another by a clock are at rest when a     *)
(* guide begins: nothing of a frame reaches into the next one.             *)
LagInv ==
    /\ state = "DATAREAD" \/ dataFlag => ~idleFlag
    /\ dataFlag \/ dataCount > 0 \/ bitCount > 0 =>
          idleCount = 0 /\ state # "GUIDANCE"

(* Every pulse is counted once, in the clock after the counter has reached *)
(* BitAvailable: while the line is high the pointer is ahead of the pulses *)
(* that are over, when it has just gone low it may be one behind.          *)
PulsesInv ==
    state = "DATAREAD" =>
        /\ high = IF ~dataFlag THEN 0
                  ELSE IF dataCount < DataHigh THEN dataCount + 1 ELSE DataHigh
        /\ dataFlag =>
              bitCount = Len(longs) + (IF dataCount > BitAvailable THEN 1 ELSE 0)
        /\ ~dataFlag =>
              Len(longs) = bitCount + (IF dataCount = BitAvailable THEN 1 ELSE 0)
        /\ bitCount > NBits => dataCount # BitAvailable

(* A bit is set in the clock after the counter has reached DataHigh.       *)
BitsInv ==
    state = "DATAREAD" =>
        /\ dataFlag => \A i \in Bits :
              data[i] = 1 <=> \/ i + 1 <= Len(longs) /\ longs[i + 1]
                              \/ i = Len(longs) /\ dataCount > DataHigh
        /\ ~dataFlag => \A i \in Bits :
              data[i] = 1 <=> /\ i + 1 <= Len(longs) /\ longs[i + 1]
                              /\ i + 1 = Len(longs) => dataCount # DataHigh
        /\ ~dataFlag /\ dataCount >= DataHigh =>
              Len(longs) > 0 /\ longs[Len(longs)]

(* The interrupts of this frame, with the one that is on its way.          *)
Rises == raised + (IF ready /\ ~preReady THEN 1 ELSE 0)

(* The check can change its outcome once, when the last bit is set.        *)
RisesInv ==
    /\ Rises <= 1
    /\ state = "DATAREAD" /\ bitCount < NBits => Rises = 0 /\ ~ready
    /\ bitCount = NBits =>
          /\ data[NBits - 1] = 0 /\ ~Checks(data) => Rises = 0 /\ ~ready
          /\ Checks(data) /\ Rises = 1 => ready

IInv == TypeOK /\ LagInv /\ PulsesInv /\ BitsInv /\ RisesInv
------------------------------------------------------------------------------
(* The durations are in order.                                             *)
LEMMA Durations ==
    /\ NBits \in Nat \ {0}
    /\ BitAvailable \in Nat /\ DataHigh \in Nat
    /\ IdleHigh \in Nat /\ GuideLow \in Nat
    /\ 0 < BitAvailable /\ BitAvailable < DataHigh /\ DataHigh < IdleHigh
    /\ 0 < GuideLow
BY DurationAssumption

(* A counter counts while its flag is up, and does not wrap below its      *)
(* largest value.                                                          *)
LEMMA Counts ==
    ASSUME NEW flag \in BOOLEAN, NEW n \in 0 .. IdleHigh
    PROVE  /\ Count(flag, n) \in 0 .. IdleHigh
           /\ ~flag => Count(flag, n) = 0
           /\ flag /\ n < IdleHigh => Count(flag, n) = n + 1
<1>1. ASSUME NEW k \in Int, NEW m \in Nat \ {0}
      PROVE  k % m \in 0 .. m - 1 /\ (k \in 0 .. m - 1 => k % m = k)
  OBVIOUS
<1>2. n + 1 \in Int /\ IdleHigh + 1 \in Nat \ {0} /\ IdleHigh \in Nat
  BY Durations
<1>3. (n + 1) % (IdleHigh + 1) \in 0 .. IdleHigh
  BY <1>1, <1>2
<1>4. ASSUME n < IdleHigh PROVE (n + 1) % (IdleHigh + 1) = n + 1
  <2>1. n + 1 \in 0 .. (IdleHigh + 1) - 1
    BY <1>2, <1>4
  <2> QED
    BY <1>1, <1>2, <2>1
<1> HIDE DEF Count
<1>5. Count(flag, n) = IF flag THEN (n + 1) % (IdleHigh + 1) ELSE 0
  BY DEF Count
<1> QED
  BY <1>2, <1>3, <1>4, <1>5

(* The registers, one by one.                                              *)
LEMMA Registers ==
    ASSUME TypeOK
    PROVE  /\ ir \in {0, 1}
           /\ idleFlag \in BOOLEAN /\ stateFlag \in BOOLEAN /\ dataFlag \in BOOLEAN
           /\ ready \in BOOLEAN /\ preReady \in BOOLEAN /\ irq \in BOOLEAN
           /\ idleCount \in 0 .. IdleHigh /\ stateCount \in 0 .. IdleHigh
           /\ dataCount \in 0 .. IdleHigh
           /\ bitCount \in 0 .. NBits + 1
           /\ data \in [Bits -> {0, 1}] /\ buf \in [Bits -> {0, 1}]
           /\ oData \in [Bits -> {0, 1}]
           /\ high \in 0 .. DataHigh
           /\ longs \in Seq(BOOLEAN) /\ Len(longs) \in Nat
           /\ raised \in 0 .. 2
BY DEF TypeOK

(* The counters of the next clock.                                         *)
LEMMA CountersStep ==
    ASSUME TypeOK, Next
    PROVE  /\ idleCount' \in 0 .. IdleHigh /\ stateCount' \in 0 .. IdleHigh
           /\ dataCount' \in 0 .. IdleHigh
           /\ ~idleFlag => idleCount' = 0
           /\ ~dataFlag => dataCount' = 0
           /\ dataFlag /\ dataCount < IdleHigh => dataCount' = dataCount + 1
BY Registers, Counts DEF Next, Counters

(* A clock in a frame that goes on.                                        *)
LEMMA FrameGoesOn ==
    ASSUME TypeOK, Next, state' = "DATAREAD"
    PROVE  \/ state = "GUIDANCE"
           \/ state = "DATAREAD" /\ dataCount < IdleHigh /\ bitCount <= NBits
BY Registers, Durations
   DEF Next, StateMachine, GuideStarts, GuideEnds, FrameEnds, StateHeld, frameOver
------------------------------------------------------------------------------
LEMMA LagStep ==
    ASSUME TypeOK, LagInv, Next
    PROVE  LagInv'
<1> USE Registers, CountersStep, Durations
<1>1. state' = "DATAREAD" => state # "IDLE"
  BY DEF Next, StateMachine, GuideStarts, GuideEnds, FrameEnds, StateHeld
<1>2. state' = "DATAREAD" \/ dataFlag' => ~idleFlag'
  BY <1>1 DEF Next, Counters, TypeOK
<1>3. dataFlag' => state = "DATAREAD"
  BY DEF Next, Counters
<1>4. dataCount' > 0 => dataFlag
  OBVIOUS
<1>5. bitCount' > 0 => state = "DATAREAD"
  BY DEF Next, Pointer
<1>6. dataFlag' \/ dataCount' > 0 \/ bitCount' > 0 => ~idleFlag
  BY <1>3, <1>4, <1>5 DEF LagInv
<1>7. state' = "GUIDANCE" => \/ state = "GUIDANCE"
                             \/ state = "IDLE" /\ idleCount > 0
  BY DEF Next, StateMachine, GuideStarts, GuideEnds, FrameEnds, StateHeld
<1>8. dataFlag' \/ dataCount' > 0 \/ bitCount' > 0 => state' # "GUIDANCE"
  BY <1>3, <1>4, <1>5, <1>7 DEF LagInv
<1> QED
  BY <1>2, <1>6, <1>8 DEF LagInv

LEMMA TypeStep ==
    ASSUME TypeOK, PulsesInv, Next
    PROVE  TypeOK'
<1> USE Registers, Durations
<1>1. ir' \in {0, 1}
  BY DEF Next
<1>2. state' \in {"IDLE", "GUIDANCE", "DATAREAD"}
  BY DEF Next, StateMachine, GuideStarts, GuideEnds, FrameEnds, StateHeld
<1>3. {idleFlag', stateFlag', dataFlag'} \subseteq BOOLEAN
  BY DEF Next, Counters
<1>4. ready' \in BOOLEAN
  BY DEF Next, Announce, Checks
<1>5. preReady' \in BOOLEAN /\ irq' \in BOOLEAN
  BY DEF Next, Bus
<1>6. {idleCount', stateCount', dataCount'} \subseteq 0 .. IdleHigh
  BY CountersStep
<1>7. bitCount' \in 0 .. NBits + 1
  BY DEF Next, Pointer, PulsesInv
<1>8. data' \in [Bits -> {0, 1}]
  BY DEF Next, Sample, Zero
<1>9. buf' \in [Bits -> {0, 1}] /\ oData' \in [Bits -> {0, 1}]
  BY DEF Next, Announce, Bus
<1>10. high' \in 0 .. DataHigh /\ raised' \in 0 .. 2
  BY DEF Next, History
<1>11. longs' \in Seq(BOOLEAN)
  <2>1. (high >= DataHigh) \in BOOLEAN
    OBVIOUS
  <2>2. Append(longs, high >= DataHigh) \in Seq(BOOLEAN)
    BY <2>1
  <2>3. <<>> \in Seq(BOOLEAN)
    OBVIOUS
  <2> QED
    BY <2>2, <2>3 DEF Next, History
<1> QED
  BY <1>1, <1>2, <1>3, <1>4, <1>5, <1>6, <1>7, <1>8, <1>9, <1>10, <1>11 DEF TypeOK
------------------------------------------------------------------------------
(* The pulses of the next clock of a frame that goes on.                   *)
LEMMA PulseClock ==
    ASSUME TypeOK, Next, state = "DATAREAD", state' = "DATAREAD"
    PROVE  /\ dataFlag' <=> ir = 1
           /\ dataCount' = IF dataFlag THEN dataCount + 1 ELSE 0
           /\ bitCount' = IF dataCount = BitAvailable THEN bitCount + 1 ELSE bitCount
           /\ high' = IF ir = 0 THEN 0 ELSE IF high < DataHigh THEN high + 1 ELSE high
           /\ ir = 0 /\ high >= BitAvailable =>
                /\ Len(longs') = Len(longs) + 1
                /\ \A k \in 1 .. Len(longs) : longs'[k] = longs[k]
                /\ longs'[Len(longs) + 1] = (high >= DataHigh)
           /\ ~(ir = 0 /\ high >= BitAvailable) => longs' = longs
<1> USE Registers, Durations
<1>1. dataFlag' <=> ir = 1
  BY DEF Next, Counters
<1>2. dataCount' = IF dataFlag THEN dataCount + 1 ELSE 0
  BY CountersStep, FrameGoesOn
<1>3. bitCount' = IF dataCount = BitAvailable THEN bitCount + 1 ELSE bitCount
  BY DEF Next, Pointer
<1>4. high' = IF ir = 0 THEN 0 ELSE IF high < DataHigh THEN high + 1 ELSE high
  BY DEF Next, History
<1>5. longs' = IF ir = 0 /\ high >= BitAvailable THEN Append(longs, high >= DataHigh)
               ELSE longs
  BY DEF Next, History
<1>6. ASSUME NEW b \in BOOLEAN
      PROVE  /\ Len(Append(longs, b)) = Len(longs) + 1
             /\ \A k \in 1 .. Len(longs) : Append(longs, b)[k] = longs[k]
             /\ Append(longs, b)[Len(longs) + 1] = b
  OBVIOUS
<1>7. (high >= DataHigh) \in BOOLEAN
  OBVIOUS
<1>8. ASSUME ir = 0 /\ high >= BitAvailable
      PROVE  /\ Len(longs') = Len(longs) + 1
             /\ \A k \in 1 .. Len(longs) : longs'[k] = longs[k]
             /\ longs'[Len(longs) + 1] = (high >= DataHigh)
  <2>1. longs' = Append(longs, high >= DataHigh)
    BY <1>5, <1>8
  <2> QED
    BY <1>6, <1>7, <2>1
<1> QED
  BY <1>1, <1>2, <1>3, <1>4, <1>5, <1>8

(* A frame begins with nothing counted.                                    *)
LEMMA FrameBegins ==
    ASSUME TypeOK, LagInv, Next, state = "GUIDANCE", state' = "DATAREAD"
    PROVE  /\ dataFlag' = FALSE /\ dataCount' = 0 /\ bitCount' = 0
           /\ high' = 0 /\ longs' = <<>> /\ data' = Zero
<1>1. dataFlag' = FALSE
  BY DEF Next, Counters
<1>2. dataCount' = 0
  BY CountersStep, Registers DEF LagInv
<1>3. bitCount' = 0 /\ data' = Zero
  BY DEF Next, Pointer, Sample
<1>4. high' = 0 /\ longs' = <<>>
  BY DEF Next, History
<1> QED
  BY <1>1, <1>2, <1>3, <1>4

LEMMA PulsesStep ==
    ASSUME TypeOK, LagInv, PulsesInv, Next
    PROVE  PulsesInv'
<1> SUFFICES ASSUME state' = "DATAREAD" PROVE PulsesInv'
  BY DEF PulsesInv
<1>0. /\ dataCount \in Nat /\ bitCount \in Nat /\ high \in Nat /\ Len(longs) \in Nat
      /\ NBits \in Nat /\ BitAvailable \in Nat /\ DataHigh \in Nat
      /\ 0 < BitAvailable /\ BitAvailable < DataHigh
      /\ ir \in {0, 1} /\ dataFlag \in BOOLEAN
  BY Registers, Durations
<1> USE <1>0
<1>1. CASE state = "GUIDANCE"
  <2>1. Len(longs') = 0
    BY <1>1, FrameBegins
  <2> QED
    BY <1>1, <2>1, FrameBegins DEF PulsesInv
<1>2. CASE state = "DATAREAD"
  <2>1. dataCount < IdleHigh /\ bitCount <= NBits
    BY <1>2, FrameGoesOn
  <2>2. high' = IF ~dataFlag' THEN 0
                ELSE IF dataCount' < DataHigh THEN dataCount' + 1 ELSE DataHigh
    <3>1. high = IF ~dataFlag THEN 0
                 ELSE IF dataCount < DataHigh THEN dataCount + 1 ELSE DataHigh
      BY <1>2 DEF PulsesInv
    <3>2. CASE ir = 0
      BY <1>2, <3>2, PulseClock
    <3>3. CASE ir = 1 /\ dataFlag
      <4>1. dataFlag' /\ dataCount' = dataCount + 1
        BY <1>2, <3>3, PulseClock
      <4>2. high' = IF high < DataHigh THEN high + 1 ELSE high
        BY <1>2, <3>3, PulseClock
      <4> QED
        BY <3>1, <3>3, <4>1, <4>2
    <3>4. CASE ir = 1 /\ ~dataFlag
      <4>1. dataFlag' /\ dataCount' = 0
        BY <1>2, <3>4, PulseClock
      <4>2. high' = 1
        BY <1>2, <3>1, <3>4, PulseClock
      <4> QED
        BY <4>1, <4>2
    <3> QED
      BY <3>2, <3>3, <3>4
  <2>3. dataFlag' =>
          bitCount' = Len(longs') + (IF dataCount' > BitAvailable THEN 1 ELSE 0)
    <3> SUFFICES ASSUME dataFlag'
                 PROVE  bitCount' =
                          Len(longs') + (IF dataCount' > BitAvailable THEN 1 ELSE 0)
      OBVIOUS
    <3>1. ir = 1 /\ longs' = longs
      BY <1>2, PulseClock
    <3>2. CASE dataFlag
      <4>1. bitCount = Len(longs) + (IF dataCount > BitAvailable THEN 1 ELSE 0)
        BY <1>2, <3>2 DEF PulsesInv
      <4> QED
        BY <1>2, <3>1, <3>2, <4>1, PulseClock
    <3>3. CASE ~dataFlag
      <4>1. Len(longs) = bitCount + (IF dataCount = BitAvailable THEN 1 ELSE 0)
        BY <1>2, <3>3 DEF PulsesInv
      <4> QED
        BY <1>2, <3>1, <3>3, <4>1, PulseClock
    <3> QED
      BY <3>2, <3>3
  <2>4. ~dataFlag' =>
          Len(longs') = bitCount' + (IF dataCount' = BitAvailable THEN 1 ELSE 0)
    <3> SUFFICES ASSUME ~dataFlag'
                 PROVE  Len(longs') =
                          bitCount' + (IF dataCount' = BitAvailable THEN 1 ELSE 0)
      OBVIOUS
    <3>1. ir = 0
      BY <1>2, PulseClock
    <3>2. CASE dataFlag
      <4>1. bitCount = Len(longs) + (IF dataCount > BitAvailable THEN 1 ELSE 0)
        BY <1>2, <3>2 DEF PulsesInv
      <4>2. high >= BitAvailable <=> dataCount + 1 >= BitAvailable
        BY <1>2, <3>2 DEF PulsesInv
      <4>3. Len(longs') =
              Len(longs) + (IF dataCount + 1 >= BitAvailable THEN 1 ELSE 0)
        <5>1. high >= BitAvailable => Len(longs') = Len(longs) + 1
          BY <1>2, <3>1, PulseClock
        <5>2. ~(high >= BitAvailable) => longs' = longs
          BY <1>2, <3>1, PulseClock
        <5> QED
          BY <4>2, <5>1, <5>2
      <4>4. dataCount' = dataCount + 1
        BY <1>2, <3>2, PulseClock
      <4>5. bitCount' = IF dataCount = BitAvailable THEN bitCount + 1 ELSE bitCount
        BY <1>2, PulseClock
      <4>6. bitCount' = Len(longs) + (IF dataCount >= BitAvailable THEN 1 ELSE 0)
        BY <4>1, <4>5
      <4>7. dataCount' = BitAvailable <=> dataCount + 1 = BitAvailable
        BY <4>4
      <4>8. ASSUME NEW n \in Nat
            PROVE  n + (IF dataCount + 1 >= BitAvailable THEN 1 ELSE 0) =
                     n + (IF dataCount >= BitAvailable THEN 1 ELSE 0)
                       + (IF dataCount + 1 = BitAvailable THEN 1 ELSE 0)
        OBVIOUS
      <4> QED
        BY <4>3, <4>6, <4>7, <4>8
    <3>3. CASE ~dataFlag
      <4>1. Len(longs) = bitCount + (IF dataCount = BitAvailable THEN 1 ELSE 0)
        BY <1>2, <3>3 DEF PulsesInv
      <4>2. high = 0
        BY <1>2, <3>3 DEF PulsesInv
      <4>3. longs' = longs
        BY <1>2, <4>2, PulseClock
      <4>4. dataCount' = 0
        BY <1>2, <3>3, PulseClock
      <4>5. bitCount' = IF dataCount = BitAvailable THEN bitCount + 1 ELSE bitCount
        BY <1>2, PulseClock
      <4> QED
        BY <4>1, <4>3, <4>4, <4>5
    <3> QED
      BY <3>2, <3>3
  <2>5. bitCount' > NBits => dataCount' # BitAvailable
    BY <1>2, <2>1, PulseClock
  <2> QED
    BY <2>2, <2>3, <2>4, <2>5 DEF PulsesInv
<1> QED
  BY <1>1, <1>2, FrameGoesOn

(* What a clock of a frame does to its bits.                               *)
LEMMA SampleClock ==
    ASSUME TypeOK, Next, state = "DATAREAD"
    PROVE  \A k \in Bits :
             data'[k] = IF dataCount >= DataHigh /\ k = bitCount - 1 THEN 1 ELSE data[k]
<1>1. data' = IF dataCount >= DataHigh /\ bitCount \in 1 .. NBits
              THEN [data EXCEPT ![bitCount - 1] = 1] ELSE data
  BY DEF Next, Sample
<1>2. \A k \in Bits : k = bitCount - 1 => bitCount \in 1 .. NBits
  BY Registers, Durations DEF Bits
<1> QED
  BY <1>1, <1>2, Registers, Durations DEF Bits

LEMMA BitsStep ==
    ASSUME TypeOK, LagInv, PulsesInv, BitsInv, Next
    PROVE  BitsInv'
<1> SUFFICES ASSUME state' = "DATAREAD" PROVE BitsInv'
  BY DEF BitsInv
<1> USE Registers, Durations
<1>1. CASE state = "GUIDANCE"
  <2>1. Len(longs') = 0
    BY <1>1, FrameBegins
  <2>2. \A k \in Bits : data'[k] = 0
    BY <1>1, FrameBegins DEF Zero
  <2> QED
    BY <1>1, <2>1, <2>2, FrameBegins DEF BitsInv, Bits
<1>2. CASE state = "DATAREAD"
  <2> DEFINE n == Len(longs)
  <2>1. dataCount < IdleHigh /\ bitCount <= NBits /\ n \in Nat
    BY <1>2, FrameGoesOn
  <2>2. \A k \in Bits :
          data'[k] = IF dataCount >= DataHigh /\ k = bitCount - 1 THEN 1 ELSE data[k]
    BY <1>2, SampleClock
  <2>3. dataCount >= DataHigh => bitCount = IF dataFlag THEN n + 1 ELSE n
    BY <1>2 DEF PulsesInv
  <2> HIDE DEF n
  <2>4. CASE dataFlag
    <3>1. \A k \in Bits : data[k] = 1 <=> \/ k + 1 <= n /\ longs[k + 1]
                                          \/ k = n /\ dataCount > DataHigh
      BY <1>2, <2>4 DEF BitsInv, n
    <3>2. high >= BitAvailable <=> dataCount + 1 >= BitAvailable
      BY <1>2, <2>4 DEF PulsesInv
    <3>3. high >= DataHigh <=> dataCount + 1 >= DataHigh
      BY <1>2, <2>4 DEF PulsesInv
    <3>4. \A k \in Bits : data'[k] = 1 <=> \/ k + 1 <= n /\ longs[k + 1]
                                           \/ k = n /\ dataCount >= DataHigh
      BY <2>1, <2>2, <2>3, <2>4, <3>1 DEF Bits
    <3>5. dataCount' = dataCount + 1
      BY <1>2, <2>4, PulseClock
    <3>6. CASE ir = 1
      <4>1. longs' = longs /\ dataFlag'
        BY <1>2, <3>6, PulseClock
      <4>2. Len(longs') = n
        BY <4>1 DEF n
      <4> QED
        BY <3>4, <3>5, <4>1, <4>2 DEF BitsInv, Bits
    <3>7. CASE ir = 0 /\ dataCount + 1 >= BitAvailable
      <4>1. ~dataFlag'
        BY <1>2, <3>7, PulseClock
      <4>2. /\ Len(longs') = n + 1
            /\ \A k \in 1 .. n : longs'[k] = longs[k]
            /\ longs'[n + 1] = (high >= DataHigh)
        BY <1>2, <3>7, <3>2, PulseClock DEF n
      <4>3. longs'[n + 1] <=> dataCount + 1 >= DataHigh
        BY <3>3, <4>2
      <4>4. ASSUME NEW k \in Bits
            PROVE  data'[k] = 1 <=> /\ k + 1 <= n + 1 /\ longs'[k + 1]
                                    /\ k + 1 = n + 1 => dataCount + 1 # DataHigh
        <5>1. CASE k < n
          <6>1. longs'[k + 1] = longs[k + 1]
            <7>1. k + 1 \in 1 .. n
              BY <2>1, <5>1 DEF Bits
            <7> QED
              BY <4>2, <7>1
          <6>2. k + 1 <= n /\ k + 1 # n + 1 /\ k + 1 <= n + 1 /\ k # n
            BY <2>1, <5>1 DEF Bits
          <6>3. data'[k] = 1 <=> longs[k + 1]
            BY <3>4, <6>2
          <6> QED
            BY <6>1, <6>2, <6>3
        <5>2. CASE k = n
          <6>1. data'[k] = 1 <=> dataCount >= DataHigh
            BY <2>1, <3>4, <5>2 DEF Bits
          <6>2. longs'[k + 1] <=> dataCount + 1 >= DataHigh
            BY <4>3, <5>2
          <6> QED
            BY <2>1, <5>2, <6>1, <6>2 DEF Bits
        <5>3. CASE k > n
          BY <2>1, <3>4, <5>3 DEF Bits
        <5> QED
          BY <2>1, <5>1, <5>2, <5>3 DEF Bits
      <4>5. dataCount + 1 >= DataHigh => Len(longs') > 0 /\ longs'[Len(longs')]
        BY <2>1, <4>2, <4>3
      <4> QED
        BY <3>5, <4>1, <4>2, <4>4, <4>5 DEF BitsInv
    <3>8. CASE ir = 0 /\ ~(dataCount + 1 >= BitAvailable)
      <4>1. longs' = longs /\ ~dataFlag'
        BY <1>2, <3>2, <3>8, PulseClock
      <4>2. Len(longs') = n
        BY <4>1 DEF n
      <4> QED
        BY <3>4, <3>5, <3>8, <4>1, <4>2 DEF BitsInv, Bits
    <3> QED
      BY <3>6, <3>7, <3>8
  <2>5. CASE ~dataFlag
    <3>1. \A k \in Bits : data[k] = 1 <=> /\ k + 1 <= n /\ longs[k + 1]
                                          /\ k + 1 = n => dataCount # DataHigh
      BY <1>2, <2>5 DEF BitsInv, n
    <3>2. dataCount >= DataHigh => n > 0 /\ longs[n]
      BY <1>2, <2>5 DEF BitsInv, n
    <3>3. dataCount' = 0 /\ longs' = longs
      BY <1>2, <2>5, PulseClock DEF PulsesInv
    <3>4. Len(longs') = n
      BY <3>3 DEF n
    <3>5. ASSUME NEW k \in Bits
          PROVE  data'[k] = 1 <=> k + 1 <= n /\ longs[k + 1]
      <4>1. CASE dataCount >= DataHigh /\ k = bitCount - 1
        <5>1. k + 1 = n
          BY <2>1, <2>3, <2>5, <4>1 DEF Bits
        <5> QED
          BY <2>1, <2>2, <3>2, <4>1, <5>1
      <4>2. CASE ~(dataCount >= DataHigh /\ k = bitCount - 1)
        <5>1. k + 1 = n => dataCount # DataHigh
          BY <2>1, <2>3, <2>5, <4>2 DEF Bits
        <5> QED
          BY <2>2, <3>1, <4>2, <5>1
      <4> QED
        BY <4>1, <4>2
    <3> QED
      BY <3>3, <3>4, <3>5 DEF BitsInv, Bits
  <2> QED
    BY <2>4, <2>5
<1> QED
  BY <1>1, <1>2, FrameGoesOn
------------------------------------------------------------------------------
LEMMA RisesStep ==
    ASSUME TypeOK, LagInv, RisesInv, Next
    PROVE  RisesInv'
<1> USE Registers, Durations
<1> DEFINE now == bitCount = NBits /\ Checks(data)
<1>1. ready' = now /\ preReady' = ready
  BY DEF Next, Announce, Bus
<1>2. now => ready \/ Rises = 0
  <2>1. Rises \in 0 .. 1
    BY DEF RisesInv, Rises
  <2> QED
    BY <2>1 DEF RisesInv
<1> HIDE DEF now
<1>3. CASE state = "GUIDANCE"
  <2>1. bitCount = 0 /\ bitCount' = 0 /\ raised' = 0
    BY <1>3 DEF LagInv, Next, Pointer, History
  <2>2. ~ready'
    BY <1>1, <2>1 DEF now
  <2> QED
    BY <2>1, <2>2 DEF RisesInv, Rises
<1>4. CASE state # "GUIDANCE"
  <2>1. raised' = Rises
    BY <1>4 DEF Next, History, RisesInv, Rises
  <2>2. Rises' = Rises + (IF now /\ ~ready THEN 1 ELSE 0)
    BY <1>1, <2>1 DEF Rises
  <2>3. Rises' \in 0 .. 1 /\ Rises \in 0 .. 1
    BY <1>2, <2>2 DEF RisesInv, Rises
  <2>4. ~now => Rises' = Rises /\ ~ready'
    BY <1>1, <2>2, <2>3
  <2>5. CASE state # "DATAREAD"
    <3>1. bitCount' = 0 /\ state' # "DATAREAD"
      BY <1>4, <2>5 DEF Next, Pointer, StateMachine, GuideStarts, GuideEnds,
                        FrameEnds, StateHeld
    <3> QED
      BY <2>3, <3>1 DEF RisesInv
  <2>6. CASE state = "DATAREAD"
    <3>1. bitCount' = IF dataCount = BitAvailable THEN bitCount + 1 ELSE bitCount
      BY <2>6 DEF Next, Pointer
    <3>2. bitCount < NBits => Rises' = 0 /\ ~ready'
      <4>1. bitCount < NBits => ~now /\ Rises = 0
        BY <2>6 DEF now, RisesInv
      <4> QED
        BY <2>4, <4>1
    <3>3. CASE bitCount' # NBits
      BY <2>3, <3>1, <3>2, <3>3 DEF RisesInv
    <3>4. CASE bitCount < NBits
      BY <2>3, <3>2, <3>4 DEF RisesInv
    <3>5. CASE bitCount' = NBits /\ bitCount = NBits
      <4>1. CASE data' = data
        <5>1. Checks(data)' = Checks(data)
          BY <4>1 DEF Checks
        <5>2. Checks(data) => ready'
          BY <1>1, <3>5 DEF now
        <5>3. ~Checks(data) => ~now
          BY DEF now
        <5>4. data[NBits - 1] = 0 /\ ~Checks(data) => Rises = 0
          BY <3>5 DEF RisesInv
        <5> QED
          BY <2>3, <2>4, <3>5, <4>1, <5>1, <5>2, <5>3, <5>4 DEF RisesInv
      <4>2. CASE data' # data
        <5>1. NBits - 1 \in Bits
          BY DEF Bits
        <5>2. data' = [data EXCEPT ![NBits - 1] = 1]
          BY <2>6, <3>5, <4>2 DEF Next, Sample
        <5>3. data'[NBits - 1] = 1
          BY <5>1, <5>2
        <5>4. data[NBits - 1] = 0
          <6>1. data[NBits - 1] # 1
            BY <4>2, <5>1, <5>2
          <6> QED
            BY <5>1, <6>1
        <5>5. ~Checks(data) => Rises' = 0
          <6>1. ~Checks(data) => Rises = 0 /\ ~now
            BY <3>5, <5>4 DEF RisesInv, now
          <6> QED
            BY <2>4, <6>1
        <5>6. Checks(data) => ready'
          BY <1>1, <3>5 DEF now
        <5> QED
          BY <2>3, <3>5, <5>3, <5>5, <5>6 DEF RisesInv
      <4> QED
        BY <4>1, <4>2
    <3> QED
      BY <3>1, <3>3, <3>4, <3>5
  <2> QED
    BY <2>5, <2>6
<1> QED
  BY <1>3, <1>4
------------------------------------------------------------------------------
(* The invariant holds from reset on.                                      *)
LEMMA InitInv == Init => IInv
<1> SUFFICES ASSUME Init PROVE IInv
  OBVIOUS
<1> USE Durations DEF Init
<1>1. Zero \in [Bits -> {0, 1}] /\ <<>> \in Seq(BOOLEAN)
  BY DEF Zero
<1>2. TypeOK
  <2>1. {data, buf, oData} \subseteq [Bits -> {0, 1}]
    BY <1>1
  <2>2. {idleCount, stateCount, dataCount} \subseteq 0 .. IdleHigh
    OBVIOUS
  <2>3. {idleFlag, stateFlag, dataFlag, ready, preReady, irq} \subseteq BOOLEAN
    OBVIOUS
  <2> QED
    BY <1>1, <2>1, <2>2, <2>3 DEF TypeOK
<1>3. LagInv /\ PulsesInv /\ BitsInv
  BY DEF LagInv, PulsesInv, BitsInv
<1>4. RisesInv
  BY DEF RisesInv, Rises
<1> QED
  BY <1>2, <1>3, <1>4 DEF IInv

LEMMA StepInv == IInv /\ [Next]_vars => IInv'
<1> SUFFICES ASSUME IInv, [Next]_vars PROVE IInv'
  OBVIOUS
<1>1. CASE Next
  BY <1>1, TypeStep, LagStep, PulsesStep, BitsStep, RisesStep DEF IInv
<1>2. CASE UNCHANGED vars
  <2> USE <1>2 DEF vars, decoder
  <2>1. TypeOK'
    BY DEF IInv, TypeOK
  <2>2. LagInv' /\ PulsesInv' /\ BitsInv'
    BY DEF IInv, LagInv, PulsesInv, BitsInv
  <2>3. RisesInv'
    BY DEF IInv, RisesInv, Rises, Checks
  <2> QED
    BY <2>1, <2>2, <2>3 DEF IInv
<1> QED
  BY <1>1, <1>2

LEMMA Invariant == Spec => []IInv
BY InitInv, StepInv, PTL DEF Spec

(* The counters stay in 18 bits, and the pointer never passes the pulse    *)
(* after the last, so that no bit is set outside the frame.                *)
THEOREM TypeCorrect == Spec => []TypeOK
<1>1. IInv => TypeOK
  BY DEF IInv
<1> QED
  BY <1>1, Invariant, PTL

(* Whatever the line does, the bits of a pulse that is over are its        *)
(* length: the decoder and the line agree on every frame.                  *)
THEOREM Decodes == Spec => []DecodesPulses
<1>1. ASSUME IInv PROVE DecodesPulses
  <2> SUFFICES ASSUME Settled PROVE DecodesPulses
    BY DEF DecodesPulses
  <2>1. state = "DATAREAD" /\ ~dataFlag /\ dataCount = 0
    BY DEF Settled
  <2>2. bitCount = Len(longs)
    BY <1>1, <2>1, Registers, Durations DEF IInv, PulsesInv
  <2>3. \A k \in Bits : data[k] = 1 <=> k + 1 <= Len(longs) /\ longs[k + 1]
    BY <1>1, <2>1, Durations DEF IInv, BitsInv
  <2> QED
    BY <2>2, <2>3 DEF DecodesPulses
<1> QED
  BY <1>1, Invariant, PTL

(* The check of the last bit can change while it is sampled; a frame still *)
(* interrupts once at most.                                                *)
THEOREM InterruptsOnce == Spec => []OneInterruptPerFrame
<1>1. IInv => OneInterruptPerFrame
  BY Registers DEF IInv, RisesInv, Rises, OneInterruptPerFrame
<1> QED
  BY <1>1, Invariant, PTL

(***************************************************************************)
(* The log generator keeps its types, never offers its FIFO a word that it *)
(* would drop, and implements VideoStream.                                 *)
(***************************************************************************)

(* The places that the counters reach: Stream!Places has more.             *)
Reached(p) ==
    /\ p \in Stream!Places
    /\ p.part \in {"CTRL_SOP", "DATA_SOP"} => p.dot = 0 /\ p.line = 0
    /\ p.part = "CTRL_DAT" => p.dot < CTRL_PKT_NUM /\ p.line = 0
    /\ p.part = "DATA_DAT" => p.dot < Width

(* The words of s follow each other, the first one the place a; LastOf is  *)
(* where they end.                                                         *)
Chain(a, s) ==
    \A k \in 1 .. Len(s) : s[k].at = Stream!Following(IF k = 1 THEN a ELSE s[k - 1].at)

LastOf(a, s) == IF s = <<>> THEN a ELSE s[Len(s)].at

(* The words of s are those that their places call for.                    *)
Right(s) == \A k \in 1 .. Len(s) : s[k].word = Stream!BeatAt(s[k].at)

(* The counters stand where the last word was taken from or, while the     *)
(* write enable is set, at the next place, with the ROM one dot behind.    *)
InStep ==
    IF fifoWr
    THEN /\ Place = Stream!Following(LastOf(q.at, fifo))
         /\ pktState = "DATA_DAT" => rom = Stream!Shown(Place)
    ELSE Place = LastOf(q.at, fifo)

(* One word may be under way when the FIFO becomes almost full.            *)
Room ==
    /\ Len(fifo) <= AlmostFull + 1
    /\ fifoWr => Len(fifo) <= AlmostFull

LogInv ==
    /\ LogTypeOK
    /\ Reached(Place)
    /\ Room
    /\ Chain(q.at, fifo)
    /\ Right(fifo)
    /\ InStep
-----------------------------------------------------------------------------
(* Writing a word that follows the last one, and reading the first one,    *)
(* keep a sequence in order.                                               *)
LEMMA BeatsAppend ==
    ASSUME NEW S, NEW s \in Seq(S), NEW a, NEW e \in S, Chain(a, s),
           e.at = Stream!Following(LastOf(a, s))
    PROVE  Chain(a, Append(s, e)) /\ LastOf(a, Append(s, e)) = e.at
<1> DEFINE t == Append(s, e)
<1>1. /\ Len(t) = Len(s) + 1 /\ Len(s) \in Nat
      /\ t[Len(s) + 1] = e /\ \A k \in 1 .. Len(s) : t[k] = s[k]
      /\ s = <<>> <=> Len(s) = 0
  OBVIOUS
<1>2. ASSUME NEW k \in 1 .. Len(t)
      PROVE  t[k].at = Stream!Following(IF k = 1 THEN a ELSE t[k - 1].at)
  <2>1. CASE k = Len(s) + 1
    BY <1>1, <2>1 DEF LastOf
  <2>2. CASE k \in 1 .. Len(s)
    BY <1>1, <2>2 DEF Chain
  <2> QED BY <1>1, <2>1, <2>2
<1>3. Chain(a, t)
  BY <1>2 DEF Chain
<1>4. LastOf(a, t) = e.at
  BY <1>1 DEF LastOf
<1> QED BY <1>3, <1>4

LEMMA BeatsTail ==
    ASSUME NEW S, NEW s \in Seq(S), s # <<>>, NEW a, Chain(a, s)
    PROVE  /\ Head(s).at = Stream!Following(a)
           /\ Chain(Head(s).at, Tail(s))
           /\ LastOf(Head(s).at, Tail(s)) = LastOf(a, s)
<1> DEFINE t == Tail(s)
<1>1. /\ Len(s) \in Nat /\ Len(s) >= 1 /\ Len(t) = Len(s) - 1 /\ Head(s) = s[1]
      /\ \A k \in 1 .. Len(t) : t[k] = s[k + 1]
      /\ t = <<>> <=> Len(t) = 0
  <2>1. Head(s) \in S /\ t \in Seq(S)
    BY HeadTailProperties
  <2>2. Len(s) \in Nat /\ Len(s) # 0 /\ Len(t) = Len(s) - 1
    BY HeadTailProperties, EmptySeq, LenProperties
  <2>3. \A k \in 1 .. Len(t) : t[k] = s[k + 1]
    BY HeadTailProperties
  <2>4. t = <<>> <=> Len(t) = 0
    BY <2>1, EmptySeq
  <2> QED BY <2>2, <2>3, <2>4
<1>2. Head(s).at = Stream!Following(a)
  BY <1>1 DEF Chain
<1>3. ASSUME NEW k \in 1 .. Len(t)
      PROVE  t[k].at = Stream!Following(IF k = 1 THEN Head(s).at ELSE t[k - 1].at)
  <2>1. t[k].at = Stream!Following(s[k].at)
    BY <1>1 DEF Chain
  <2> QED BY <1>1, <2>1
<1>4. Chain(Head(s).at, t)
  BY <1>3 DEF Chain
<1>5. LastOf(Head(s).at, t) = LastOf(a, s)
  BY <1>1 DEF LastOf
<1> QED BY <1>2, <1>4, <1>5

LEMMA RightAppendTail ==
    ASSUME NEW S, NEW s \in Seq(S), Right(s)
    PROVE  /\ \A e \in S : e.word = Stream!BeatAt(e.at) => Right(Append(s, e))
           /\ s # <<>> => Right(Tail(s)) /\ Head(s).word = Stream!BeatAt(Head(s).at)
BY DEF Right

(* The word written is the one its place calls for.                        *)
LEMMA WordIsRight ==
    ASSUME LogTypeOK, Reached(Place), pktState = "DATA_DAT" => rom = Stream!Shown(Place)
    PROVE  /\ [at |-> Place, word |-> Word] \in Entries
           /\ Word = Stream!BeatAt(Place)
<1> DEFINE p == Place
<1>1. /\ p.part = pktState /\ p.line = line /\ p.dot = dot
      /\ pktState \in {"CTRL_SOP", "CTRL_DAT", "DATA_SOP", "DATA_DAT"}
      /\ line \in 0 .. Height - 1 /\ dot \in Nat
      /\ pktState = "CTRL_DAT" => dot \in {0, 1, 2}
  BY SizeAssumption DEF LogTypeOK, Reached, Place, Stream!Places, Stream!ControlBeats, CTRL_PKT_NUM
<1>2. Word.data = Stream!BeatAt(p).data
  <2> HIDE DEF p
  <2>1. CASE pktState = "CTRL_DAT"
    <3>1. Stream!BeatAt(p).data = <<Stream!Control(dot)>>
      BY <1>1, <2>1 DEF Stream!BeatAt
    <3>2. /\ dot = 0 => Word.data = <<"width">>
          /\ dot = 1 => Word.data = <<"widthHeight">>
          /\ dot = 2 => Word.data = <<"height">>
      BY <2>1 DEF Word
    <3>3. /\ dot = 0 => Stream!Control(dot) = "width"
          /\ dot = 1 => Stream!Control(dot) = "widthHeight"
          /\ dot = 2 => Stream!Control(dot) = "height"
      BY DEF Stream!Control
    <3> QED BY <1>1, <2>1, <3>1, <3>2, <3>3
  <2>2. CASE pktState = "DATA_DAT"
    <3>1. Word.data = rom
      BY <2>2 DEF Word
    <3>2. Stream!BeatAt(p).data = Stream!Shown(p)
      BY <1>1, <2>2 DEF Stream!BeatAt
    <3> QED BY <2>2, <3>1, <3>2 DEF p
  <2>3. CASE pktState = "CTRL_SOP"
    <3>1. Word.data = <<"control">>
      BY <2>3 DEF Word
    <3>2. Stream!BeatAt(p).data = <<"control">>
      BY <1>1, <2>3 DEF Stream!BeatAt
    <3> QED BY <3>1, <3>2
  <2>4. CASE pktState = "DATA_SOP"
    <3>1. Word.data = <<"picture">>
      BY <2>4 DEF Word
    <3>2. Stream!BeatAt(p).data = <<"picture">>
      BY <1>1, <2>4 DEF Stream!BeatAt
    <3> QED BY <3>1, <3>2
  <2> QED BY <1>1, <2>1, <2>2, <2>3, <2>4
<1>3. Word.sop = Stream!BeatAt(p).sop /\ Word.eop = Stream!BeatAt(p).eop
  BY <1>1 DEF Word, ctrlPktEop, dataPktEop, CTRL_PKT_NUM, Stream!BeatAt, Stream!ControlBeats
<1>4. Word = Stream!BeatAt(p)
  <2> DEFINE w == Word
             b == Stream!BeatAt(p)
  <2>1. w = [sop |-> w.sop, eop |-> w.eop, data |-> w.data]
    BY DEF Word
  <2>2. b = [sop |-> b.sop, eop |-> b.eop, data |-> b.data]
    BY DEF Stream!BeatAt
  <2> HIDE DEF w, b
  <2>3. w.sop = b.sop /\ w.eop = b.eop /\ w.data = b.data
    BY <1>2, <1>3 DEF w, b
  <2>4. w = b
    BY <2>1, <2>2, <2>3
  <2> QED BY <2>4 DEF w, b
<1>5. Word.data \in {<<"blank">>, <<"control">>, <<"picture">>, <<"width">>,
                     <<"widthHeight">>, <<"height">>} \cup Addresses
  <2>1. CASE pktState = "CTRL_DAT"
    BY <1>1, <2>1 DEF Word
  <2>2. CASE pktState = "DATA_DAT"
    BY <2>2 DEF Word, LogTypeOK
  <2>3. CASE pktState \in {"CTRL_SOP", "DATA_SOP"}
    BY <2>3 DEF Word
  <2> QED BY <1>1, <2>1, <2>2, <2>3
<1>6. [at |-> Place, word |-> Word] \in Entries
  <2>1. Word = [sop |-> Word.sop, eop |-> Word.eop, data |-> Word.data]
    BY DEF Word
  <2>2. Word.sop \in BOOLEAN /\ Word.eop \in BOOLEAN
    BY DEF Word, ctrlPktEop, dataPktEop
  <2> QED BY <1>5, <2>1, <2>2 DEF Entries, LogTypeOK
<1> QED BY <1>4, <1>6

(* The counters go through the stream in order, and their address is the   *)
(* dot that the next place shows.                                          *)
LEMMA CountersAdvance ==
    ASSUME LogTypeOK, Reached(Place), ~almostFull, Packet
    PROVE  /\ Place' = Stream!Following(Place)
           /\ Reached(Place)'
           /\ pktState' = "DATA_DAT" => <<line, dot>> = Stream!Shown(Place)'
<1> USE SizeAssumption DEF LogTypeOK, Reached, Place, Stream!Places, CTRL_PKT_NUM,
        Stream!Following, Stream!Start, Stream!Shown, Stream!ControlBeats
<1>1. CASE CtrlPktSop
  BY <1>1 DEF CtrlPktSop
<1>2. CASE CtrlPktDat
  <2>1. CASE dot < 2
    BY <1>2, <2>1 DEF CtrlPktDat, ctrlPktEop
  <2>2. CASE dot = 2
    BY <1>2, <2>2 DEF CtrlPktDat, ctrlPktEop
  <2> QED BY <1>2, <2>1, <2>2 DEF CtrlPktDat
<1>3. CASE DataPktSop
  BY <1>3 DEF DataPktSop
<1>4. CASE DataPktDat
  <2>1. CASE dot < Width - 1
    <3>1. pktState = "DATA_DAT" /\ pktState' = "DATA_DAT" /\ dot' = dot + 1 /\ line' = line
      BY <1>4, <2>1 DEF DataPktDat, dataPktEop
    <3>2. Place' = Stream!Following(Place)
      BY <2>1, <3>1
    <3>3. Reached(Place)'
      BY <2>1, <3>1
    <3>4. <<line, dot>> = Stream!Shown(Place)'
      BY <3>1
    <3> QED BY <3>2, <3>3, <3>4
  <2>2. CASE dot = Width - 1 /\ line < Height - 1
    BY <1>4, <2>2 DEF DataPktDat, dataPktEop
  <2>3. CASE dot = Width - 1 /\ line = Height - 1
    BY <1>4, <2>3 DEF DataPktDat, dataPktEop
  <2> QED BY <1>4, <2>1, <2>2, <2>3 DEF DataPktDat
<1> QED BY <1>1, <1>2, <1>3, <1>4 DEF Packet, Stall

LEMMA CountersHeld ==
    ASSUME LogTypeOK, Reached(Place), almostFull, Packet
    PROVE  UNCHANGED <<pktState, dot, line>> /\ Place' = Place /\ Reached(Place)'
BY DEF Packet, Stall, CtrlPktSop, CtrlPktDat, DataPktSop, DataPktDat, counters, Place, Reached

(* What the FIFO holds after the clock, as one write and one read.         *)
LEMMA WriteKeepsOrder ==
    ASSUME LogInv
    PROVE  /\ Write \in Seq(Entries)
           /\ Len(Write) = IF fifoWr THEN Len(fifo) + 1 ELSE Len(fifo)
           /\ Chain(q.at, Write) /\ Right(Write)
           /\ LastOf(q.at, Write) = Place
<1> DEFINE e == [at |-> Place, word |-> Word]
<1>1. Len(fifo) \in Nat /\ fifo \in Seq(Entries)
  BY DEF LogInv, LogTypeOK
<1>2. CASE fifoWr
  <2>1. Len(fifo) < Depth
    BY <1>1, <1>2, FifoAssumption DEF LogInv, Room
  <2>2. Write = Append(fifo, e)
    BY <1>2, <2>1 DEF Write
  <2>3. e \in Entries /\ e.word = Stream!BeatAt(e.at)
    BY <1>2, WordIsRight DEF LogInv, InStep
  <2>4. e.at = Stream!Following(LastOf(q.at, fifo))
    BY <1>2 DEF LogInv, InStep
  <2>5. Chain(q.at, Write) /\ LastOf(q.at, Write) = Place
    BY <1>1, <2>2, <2>3, <2>4, BeatsAppend DEF LogInv
  <2>6. Right(Write)
    BY <1>1, <2>2, <2>3, RightAppendTail DEF LogInv
  <2>7. Write \in Seq(Entries) /\ Len(Write) = Len(fifo) + 1
    BY <1>1, <2>2, <2>3
  <2> QED BY <1>2, <2>5, <2>6, <2>7
<1>3. CASE ~fifoWr
  BY <1>1, <1>3 DEF Write, LogInv, InStep
<1> QED BY <1>2, <1>3

LEMMA OutputKeepsOrder ==
    ASSUME LogInv, Output
    PROVE  /\ fifo' \in Seq(Entries) /\ q' \in Entries
           /\ Len(fifo') <= Len(Write)
           /\ Chain(q'.at, fifo') /\ Right(fifo')
           /\ LastOf(q'.at, fifo') = Place
           /\ doutValid => /\ q'.at = Stream!Following(q.at)
                           /\ q'.word = Stream!BeatAt(q'.at)
           /\ ~doutValid => q' = q
<1>1. CASE doutValid
  <2>1. Len(fifo) >= 1 /\ fifo # <<>> /\ Len(fifo) \in Nat /\ fifo \in Seq(Entries)
    BY <1>1, FifoAssumption, EmptySeq DEF doutValid, almostEmpty, LogInv, LogTypeOK
  <2>2. Write # <<>> /\ Len(Write) >= 1
    BY <2>1, WriteKeepsOrder, EmptySeq
  <2>3. Head(Write) = Head(fifo)
    BY <2>1 DEF Write
  <2>4. q' = Head(Write) /\ fifo' = Tail(Write)
    BY <1>1, <2>3 DEF Output
  <2>5. fifo' \in Seq(Entries) /\ q' \in Entries /\ Len(fifo') = Len(Write) - 1
    BY <2>2, <2>4, WriteKeepsOrder, HeadTailProperties
  <2>6. /\ q'.at = Stream!Following(q.at)
        /\ Chain(q'.at, fifo')
        /\ LastOf(q'.at, fifo') = Place
    BY <2>2, <2>4, WriteKeepsOrder, BeatsTail
  <2>7. Right(fifo') /\ q'.word = Stream!BeatAt(q'.at)
    BY <2>2, <2>4, WriteKeepsOrder, RightAppendTail
  <2>8. Len(Write) \in Nat
    BY WriteKeepsOrder
  <2> QED BY <1>1, <2>5, <2>6, <2>7, <2>8
<1>2. CASE ~doutValid
  <2>1. q' = q /\ fifo' = Write
    BY <1>2 DEF Output
  <2>2. q \in Entries /\ Len(Write) \in Nat
    BY WriteKeepsOrder DEF LogInv, LogTypeOK
  <2> QED BY <1>2, <2>1, <2>2, WriteKeepsOrder
<1> QED BY <1>1, <1>2
-----------------------------------------------------------------------------
LEMMA LogInvInit == LogInit => LogInv
<1> SUFFICES ASSUME LogInit PROVE LogInv
  OBVIOUS
<1> USE SizeAssumption, FifoAssumption DEF LogInit
<1>1. Place \in Stream!Places /\ Reached(Place) /\ Place = q.at
  BY DEF Place, Stream!Places, Stream!ControlBeats, Reached, Empty
<1>2. q \in Entries
  BY <1>1 DEF Entries, Empty
<1>3. LogTypeOK
  <2>1. fifo \in Seq(Entries) /\ Len(fifo) = 0
    BY EmptySeq
  <2>2. Len(fifo) <= Depth
    BY <2>1
  <2>3. doutReady \in BOOLEAN /\ fifoWr \in BOOLEAN /\ taken \in BOOLEAN /\ rom \in Addresses
    OBVIOUS
  <2> HIDE DEF LogInit
  <2> QED BY <1>1, <1>2, <2>1, <2>2, <2>3 DEF LogTypeOK
<1>4. Chain(q.at, fifo) /\ Right(fifo) /\ Room /\ InStep
  BY <1>1 DEF Chain, Right, Room, InStep, LastOf
<1> QED BY <1>1, <1>3, <1>4 DEF LogInv

LEMMA LogInvNext == LogInv /\ [LogNext]_logVars => LogInv'
<1> SUFFICES ASSUME LogInv, [LogNext]_logVars PROVE LogInv'
  OBVIOUS
<1>1. CASE UNCHANGED logVars
  BY <1>1 DEF logVars, LogInv, LogTypeOK, Reached, Place, Room, Chain, Right, InStep, LastOf
<1>2. CASE LogNext
  <2> USE DEF LogNext
  <2>1. Packet /\ LatchRegisters /\ Output
    BY <1>2
  <2>2. Len(fifo) \in Nat /\ Len(fifo') \in Nat
    BY <2>1, OutputKeepsOrder DEF LogInv, LogTypeOK
  <2>3. Room'
    <3>1. Len(fifo') <= IF fifoWr THEN Len(fifo) + 1 ELSE Len(fifo)
      BY <2>1, OutputKeepsOrder, WriteKeepsOrder
    <3>2. fifoWr' => Len(fifo) < AlmostFull
      <4>1. fifoWr' => ~almostFull
        BY <2>1, Zenon DEF LatchRegisters
      <4>2. ~almostFull => Len(fifo) < AlmostFull
        BY <2>2, FifoAssumption DEF almostFull
      <4> QED BY <4>1, <4>2
    <3>3. (fifoWr => Len(fifo) <= AlmostFull) /\ Len(fifo) <= AlmostFull + 1
      BY DEF LogInv, Room
    <3> QED BY <2>2, <3>1, <3>2, <3>3, FifoAssumption DEF Room
  <2>4. Reached(Place)'
    BY <2>1, CountersAdvance, CountersHeld DEF LogInv
  <2>5. InStep'
    <3>1. LastOf(q.at, fifo)' = Place
      BY <2>1, OutputKeepsOrder DEF LastOf
    <3>2. CASE almostFull
      BY <2>1, <3>1, <3>2, CountersHeld DEF LogInv, InStep, LatchRegisters
    <3>3. CASE ~almostFull
      BY <2>1, <3>1, <3>3, CountersAdvance DEF LogInv, InStep, LatchRegisters
    <3> QED BY <3>2, <3>3
  <2>6. rom' \in Addresses
    BY <2>1, SizeAssumption DEF LogInv, LogTypeOK, LatchRegisters, Place, Stream!Places,
       Stream!ControlBeats, CTRL_PKT_NUM, Addresses
  <2>7. LogTypeOK'
    <3>1. fifo' \in Seq(Entries) /\ q' \in Entries
      BY <2>1, OutputKeepsOrder
    <3>2. Len(fifo') <= Depth
      BY <2>2, <2>3, FifoAssumption DEF Room
    <3>3. doutReady' \in BOOLEAN /\ fifoWr' \in BOOLEAN /\ taken' \in BOOLEAN
      BY <2>1 DEF LatchRegisters, Output, LogInv, LogTypeOK
    <3>4. Place' \in Stream!Places'
      BY <2>4 DEF Reached
    <3> QED BY <2>6, <3>1, <3>2, <3>3, <3>4 DEF LogTypeOK, Entries, Addresses, Stream!Places,
               Stream!ControlBeats
  <2>8. Chain(q.at, fifo)' /\ Right(fifo)'
    BY <2>1, OutputKeepsOrder DEF Chain, Right
  <2> QED BY <2>3, <2>4, <2>5, <2>7, <2>8 DEF LogInv
<1> QED BY <1>1, <1>2

LEMMA LogInvAlways == LogSpec => []LogInv
BY LogInvInit, LogInvNext, PTL DEF LogSpec

(* The registers keep their widths, and the FIFO its size.                 *)
THEOREM LogTypeCorrect == LogSpec => []LogTypeOK
<1>1. LogInv => LogTypeOK
  BY DEF LogInv
<1> QED BY <1>1, LogInvAlways, PTL

(* No word is ever offered to a full FIFO, which would drop it, for every  *)
(* almost-full threshold below its size.                                   *)
THEOREM NeverDrops == LogSpec => []NothingDropped
<1>1. LogInv => NothingDropped
  BY FifoAssumption DEF LogInv, LogTypeOK, Room, NothingDropped
<1> QED BY <1>1, LogInvAlways, PTL

(* However the sink delays it, the output is the stream of packets, each   *)
(* beat taken once and in its place: log_generator.v implements VideoStream*)
THEOREM Implements == LogSpec => SendsTheStream
<1>1. LogInit => Stream!Init
  BY DEF LogInit, Empty, Stream!Init, Stream!Start, Stream!Blank
<1>2. LogInv /\ [LogNext]_logVars => [Stream!Advance]_(Stream!vars)
  <2> SUFFICES ASSUME LogInv, [LogNext]_logVars PROVE [Stream!Advance]_(Stream!vars)
    OBVIOUS
  <2>1. CASE UNCHANGED logVars
    BY <2>1 DEF logVars, Stream!vars
  <2>2. CASE LogNext /\ doutValid
    BY <2>2, OutputKeepsOrder DEF LogNext, Output, Stream!Advance, LogInv, LogTypeOK
  <2>3. CASE LogNext /\ ~doutValid
    <3>1. q' = q
      BY <2>3, OutputKeepsOrder DEF LogNext
    <3>2. taken' = taken
      BY <2>3 DEF LogNext, Output, LogInv, LogTypeOK
    <3> QED BY <3>1, <3>2 DEF Stream!vars
  <2> QED BY <2>1, <2>2, <2>3
<1> QED BY <1>1, <1>2, LogInvAlways, PTL DEF LogSpec, SendsTheStream, Stream!Spec
=============================================================================
