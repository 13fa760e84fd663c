------------------------- MODULE ReadCenter_proofs -------------------------
(***************************************************************************)
(* Proofs about ReadCenter, for every number of bits, every length of the  *)
(* delay chains, every window and any unreliability of its edges: if the   *)
(* centring succeeds, every bit reads with the delays it leaves.           *)
(***************************************************************************)
EXTENDS ReadCenter, TLAPS

------------------------------------------------------------------------------
(* The arithmetic of Deskew.                                               *)

(* Half of an integer is an integer.                                       *)
LEMMA HalfTyped == ASSUME NEW n \in Int PROVE Half(n) \in Int
  BY DEF Half

(* So is half of it rounded to the right.                                  *)
LEMMA HalfUpTyped == ASSUME NEW n \in Int PROVE HalfUp(n) \in Int
  BY DEF HalfUp, Half

(* A setting is brought into its delay chain.                              *)
LEMMA ClampTyped ==
    ASSUME NEW n \in Int, NEW max \in Nat
    PROVE  Clamp(n, max) \in 0 .. max
  BY DEF Clamp

(* A setting that is in its delay chain stays.                             *)
LEMMA ClampInside ==
    ASSUME NEW max \in Nat, NEW n \in 0 .. max
    PROVE  Clamp(n, max) = n
  BY DEF Clamp

(* Half of a number that is not negative is rounded down.                  *)
LEMMA HalfDown ==
    ASSUME NEW n \in Nat
    PROVE  Half(n) \in Nat /\ 2 * Half(n) \in n - 1 .. n
  BY DEF Half

(* The other half is rounded up, positive or not.                          *)
LEMMA HalfUpNear ==
    ASSUME NEW n \in Int
    PROVE  2 * HalfUp(n) \in n .. n + 1
  BY DEF HalfUp, Half

(* A setting in the middle of its chain has not been cut.                  *)
LEMMA ClampMiddle ==
    ASSUME NEW n \in Int, NEW max \in Nat, Clamp(n, max) \notin {0, max}
    PROVE  Clamp(n, max) = n
  BY DEF Clamp
------------------------------------------------------------------------------
USE CenterAssumption

(* A delay that read well is in the window or within fuzz of it.           *)
Reads(b, offset) == offset \in lo[b] - fuzz .. hi[b] + fuzz

MemTyped ==
    /\ lo \in [Bits -> -Reach .. Reach] /\ hi \in [Bits -> -Reach .. Reach]
    /\ fuzz \in 0 .. MaxFuzz

(* A bit that reads is at an offset inside its window, or within fuzz.     *)
LEMMA ResultsRead ==
    ASSUME MemTyped, startDqs \in Nat, NEW delay \in Int, NEW strobe \in Int,
           NEW passing \in ReadResults(delay, strobe)
    PROVE  /\ passing \subseteq Bits
           /\ \A b \in passing : Reads(b, delay - (strobe - startDqs))
  BY DEF MemTyped, ReadResults, Reads, Offset

(* Where the two searches are in their loops.                              *)
LoopInv ==
    /\ pc = "left" => d <= DqMax
    /\ pc = "right" => d <= DqsMax - startDqs

TypeInv == TypeOK /\ LoopInv

(* The left search: a left edge reads; the mark of a right edge is where   *)
(* the next delay may begin to; a bit without such a mark read undelayed.  *)
LeftInv(b) ==
    /\ leftEdge[b] = Illegal => rightEdge[b] = IF d = 0 THEN Illegal ELSE -d
    /\ leftEdge[b] # Illegal =>
          /\ leftEdge[b] <= hi[b] + fuzz
          /\ rightEdge[b] # Illegal => -rightEdge[b] >= lo[b] - fuzz
          /\ rightEdge[b] = Illegal => lo[b] - fuzz <= 0

(* The right search: while a bit has no right edge, its left edge is what  *)
(* the left search found or the mark of the next delay.                    *)
RightInv(b) ==
    /\ leftEdge[b] # Illegal /\ rightEdge[b] # Illegal =>
          leftEdge[b] <= hi[b] + fuzz /\ -rightEdge[b] >= lo[b] - fuzz
    /\ leftEdge[b] # Illegal /\ rightEdge[b] = Illegal =>
          IF d = 0 THEN leftEdge[b] <= hi[b] + fuzz /\ lo[b] - fuzz <= 0
                   ELSE leftEdge[b] = -d
    /\ leftEdge[b] = Illegal /\ rightEdge[b] = Illegal => d = 0

EdgesInv ==
    /\ pc \in {"left", "reset"} => dqs = startDqs
    /\ pc = "left" => \A b \in Bits : LeftInv(b)
    /\ pc = "reset" =>
          \A b \in Bits : leftEdge[b] # Illegal => LeftInv(b)
    /\ pc = "right" => \A b \in Bits : RightInv(b)
    /\ pc = "center" =>
          \A b \in Bits : leftEdge[b] # Illegal /\ rightEdge[b] # Illegal =>
              leftEdge[b] <= hi[b] + fuzz /\ -rightEdge[b] >= lo[b] - fuzz

CenterInv == TypeInv /\ EdgesInv /\ EveryBitReads

(* Nothing has been seen at the start, so what is known holds.             *)
LEMMA InitInv == Init => CenterInv
<1> SUFFICES ASSUME Init PROVE CenterInv
  OBVIOUS
<1> USE DEF Init, Illegal
<1>1. TypeInv
  BY DEF TypeInv, TypeOK, LoopInv, LeftEdges, RightEdges
<1>2. EdgesInv
  BY DEF EdgesInv, LeftInv
<1> QED
  BY <1>1, <1>2 DEF CenterInv, EveryBitReads

(* A test of the left search keeps what is known of the edges.             *)
LEMMA LeftStep == CenterInv /\ SearchLeft => CenterInv'
<1> SUFFICES ASSUME CenterInv, SearchLeft PROVE CenterInv'
  OBVIOUS
<1> USE DEF CenterInv, TypeInv, TypeOK, LoopInv, SearchLeft, memVars, Illegal,
            LeftEdges, RightEdges
<1>1. PICK passing \in ReadResults(d, dqs) : LeftTest(passing)
  OBVIOUS
<1>2. /\ passing \subseteq Bits
      /\ \A b \in passing : Reads(b, d)
  <2>1. MemTyped /\ dqs = startDqs
    BY DEF MemTyped, EdgesInv
  <2> QED
    BY <2>1, ResultsRead, d - (dqs - startDqs) = d
<1>3. CASE passing = {} /\ sticky' = Bits
  BY <1>1, <1>3 DEF LeftTest, EdgesInv, LeftInv, EveryBitReads
<1>4. CASE ~(passing = {} /\ sticky' = Bits)
  <2> USE <1>1, <1>4 DEF LeftTest, RecordLeft
  <2>1. TypeInv'
    BY <1>2
  <2>2. \A b \in Bits : LeftInv(b)'
    BY <1>2 DEF EdgesInv, LeftInv, Reads, MemTyped
  <2> QED
    BY <2>1, <2>2 DEF EdgesInv, EveryBitReads
<1> QED
  BY <1>3, <1>4

(* Setting up for the right search forgets the marks that are none.        *)
LEMMA ResetStep == CenterInv /\ ResetEdges => CenterInv'
<1> SUFFICES ASSUME CenterInv, ResetEdges PROVE CenterInv'
  OBVIOUS
<1> USE DEF CenterInv, TypeInv, TypeOK, LoopInv, ResetEdges, memVars, Illegal,
            LeftEdges, RightEdges
<1>1. TypeInv'
  OBVIOUS
<1>2. \A b \in Bits : RightInv(b)'
  BY DEF EdgesInv, LeftInv, RightInv
<1> QED
  BY <1>1, <1>2 DEF EdgesInv, EveryBitReads

(* A test of the right search too keeps what is known of the edges.        *)
LEMMA RightStep == CenterInv /\ SearchRight => CenterInv'
<1> SUFFICES ASSUME CenterInv, SearchRight PROVE CenterInv'
  OBVIOUS
<1> USE DEF CenterInv, TypeInv, TypeOK, LoopInv, SearchRight, memVars, Illegal,
            LeftEdges, RightEdges
<1>1. PICK passing \in ReadResults(0, dqs') : RightTest(passing)
  OBVIOUS
<1>2. /\ passing \subseteq Bits
      /\ \A b \in passing : Reads(b, -d)
  <2>1. MemTyped /\ dqs' = startDqs + d
    BY DEF MemTyped
  <2>2. 0 - (dqs' - startDqs) = -d
    BY <2>1
  <2> QED
    BY <2>1, <2>2, ResultsRead
<1>3. CASE passing = {} /\ sticky' = Bits
  BY <1>1, <1>3 DEF RightTest, EdgesInv, RightInv, EveryBitReads
<1>4. CASE ~(passing = {} /\ sticky' = Bits)
  <2> USE <1>1, <1>4 DEF RightTest, RecordRight
  <2>1. TypeInv'
    BY <1>2
  <2>2. \A b \in Bits : RightInv(b)'
    BY <1>2 DEF EdgesInv, RightInv, Reads, MemTyped
  <2> QED
    BY <2>1, <2>2 DEF EdgesInv, RightInv, EveryBitReads
<1> QED
  BY <1>3, <1>4

(* Giving up puts DQS back.                                                *)
LEMMA NoWindowStep == CenterInv /\ NoWindow => CenterInv'
  BY DEF CenterInv, TypeInv, TypeOK, LoopInv, NoWindow, sweepVars, memVars,
         EdgesInv, EveryBitReads

(* The centring sets delays of the chains; if its margins are not negative *)
(* they are between the edges.                                             *)
LEMMA CenterStep == CenterInv /\ Center => CenterInv'
<1> SUFFICES ASSUME CenterInv, Center PROVE CenterInv'
  OBVIOUS
<1> USE DEF CenterInv, TypeInv, TypeOK, LoopInv, Center, sweepVars, memVars
<1>1. PICK minIndex \in Bits :
        /\ dqs' = Clamp(startDqs - OrigMidMin(minIndex), DqsMax)
        /\ dq' = [b \in Bits |-> ShiftDq(b, minIndex, startDqs - dqs')]
  OBVIOUS
<1>2. \A b \in Bits : MidOf(b) \in Int
  BY DEF MidOf, LeftEdges, RightEdges, Illegal
<1>3. OrigMidMin(minIndex) \in Int
  BY <1>2, HalfUpTyped DEF OrigMidMin
<1>4. dqs' \in 0 .. DqsMax
  BY <1>1, <1>3, ClampTyped
<1>5. \A b \in Bits : ShiftDq(b, minIndex, startDqs - dqs') \in 0 .. DqMax
  <2> SUFFICES ASSUME NEW b \in Bits
               PROVE  ShiftDq(b, minIndex, startDqs - dqs') \in 0 .. DqMax
    OBVIOUS
  <2>1. MidOf(b) - MidOf(minIndex) \in Int
    BY <1>2
  <2> DEFINE half == Half(MidOf(b) - MidOf(minIndex))
             orig == OrigMidMin(minIndex)
  <2>2. half \in Int
    BY <2>1, HalfTyped
  <2>3. orig \in Int
    BY <1>3
  <2>4. startDqs \in Int /\ dqs' \in Int
    BY <1>4
  <2> HIDE DEF half, orig
  <2>5. half + orig - (startDqs - dqs') \in Int
    BY <2>2, <2>3, <2>4
  <2>6. Clamp(half + orig - (startDqs - dqs'), DqMax) \in 0 .. DqMax
    BY <2>5, ClampTyped, CenterAssumption
  <2> QED
    BY <2>6 DEF ShiftDq, half, orig
<1>6. dq' \in [Bits -> 0 .. DqMax]
  BY <1>1, <1>5
<1>7. TypeInv'
  BY <1>4, <1>6
<1>8. EveryBitReads'
  <2> SUFFICES ASSUME ret' = 1, NEW b \in Bits
               PROVE  Offset(dq[b], dqs)' \in
                          lo'[b] - fuzz .. hi'[b] + fuzz
    BY DEF EveryBitReads
  <2>1. HasMargins(b, dq'[b], startDqs - dqs')
    OBVIOUS
  <2>2. leftEdge[b] <= hi[b] + fuzz /\ -rightEdge[b] >= lo[b] - fuzz
    BY DEF EdgesInv
  <2>3. dq'[b] \in Int /\ dqs' \in Int
    BY <1>4, <1>6
  <2> QED
    BY <2>1, <2>2, <2>3 DEF HasMargins, Offset, LeftEdges, RightEdges, Illegal
<1> QED
  BY <1>7, <1>8 DEF EdgesInv

(* Every step keeps what is known of the search.                           *)
LEMMA NextInv == CenterInv /\ [Next]_vars => CenterInv'
<1> SUFFICES ASSUME CenterInv, [Next]_vars PROVE CenterInv'
  OBVIOUS
<1>1. CASE UNCHANGED vars
  BY <1>1 DEF vars, sweepVars, memVars, CenterInv, TypeInv, TypeOK, LoopInv,
              EdgesInv, LeftInv, RightInv, EveryBitReads, Offset
<1> QED
  BY <1>1, LeftStep, ResetStep, RightStep, NoWindowStep, CenterStep DEF Next

(* No delay leaves its delay chain.                                        *)
THEOREM TypeCorrect == Spec => []TypeOK
<1>1. CenterInv => TypeOK
  BY DEF CenterInv, TypeInv
<1> QED
  BY InitInv, NextInv, <1>1, PTL DEF Spec

(* When the centring returns 1 every bit reads with the delays it leaves,  *)
(* however unreliable the edges of the windows are.                        *)
THEOREM SuccessReads == Spec => []EveryBitReads
<1>1. CenterInv => EveryBitReads
  BY DEF CenterInv
<1> QED
  BY InitInv, NextInv, <1>1, PTL DEF Spec

-----------------------------------------------------------------------------
(* A reliable memory: the edges are exact, which they need not be in the   *)
(* general case above, and so are the centres.                             *)

(* Every bit of a reliable memory whose window the offset is in reads.     *)
LEMMA ResultsExact ==
    ASSUME MemTyped, fuzz = 0, startDqs \in Nat,
           NEW delay \in Int, NEW strobe \in Int,
           NEW passing \in ReadResults(delay, strobe)
    PROVE  passing = {b \in Bits : delay - (strobe - startDqs) \in lo[b] .. hi[b]}
<1>1. \A b \in Bits : lo[b] + fuzz = lo[b] /\ lo[b] - fuzz = lo[b]
                      /\ hi[b] - fuzz = hi[b] /\ hi[b] + fuzz = hi[b]
  BY DEF MemTyped
<1> QED
  BY <1>1 DEF ReadResults, Offset

(* The first window the left search can see: it has begun to when the bit  *)
(* reads undelayed or at a delay that has been tried.                      *)
SeenLeft(b, tried) == tried > 0 /\ lo[b] < tried /\ hi[b] >= 0

(* The edges that the left search knows after so many tests.               *)
LeftExact(b, tried) ==
    IF SeenLeft(b, tried)
    THEN /\ leftEdge[b] = Least(hi[b], tried - 1)
         /\ rightEdge[b] = IF lo[b] <= 0 THEN Illegal ELSE -lo[b]
    ELSE /\ leftEdge[b] = Illegal
         /\ rightEdge[b] = IF tried = 0 THEN Illegal ELSE -tried

(* Before the right search: edges that lie in the delays of DQ are final.  *)
ResetExact(b) ==
    IF SeenLeft(b, DqMax + 1)
    THEN /\ leftEdge[b] = Least(hi[b], DqMax)
         /\ rightEdge[b] = IF lo[b] <= 0 THEN Illegal ELSE -lo[b]
    ELSE leftEdge[b] = Illegal

(* The edges that are known when the right search has made so many tests:  *)
(* of a window to the left of it, one that begins to the left of it, one   *)
(* that it has reached, and one that it has not.                           *)
RightExact(b, tried) ==
    /\ lo[b] > 0 /\ lo[b] <= DqMax =>
          leftEdge[b] = Least(hi[b], DqMax) /\ rightEdge[b] = -lo[b]
    /\ lo[b] <= 0 /\ hi[b] >= 0 =>
          /\ leftEdge[b] = Least(hi[b], DqMax)
          /\ rightEdge[b] = IF tried = 0 THEN Illegal
                                         ELSE Least(-lo[b], tried - 1)
    /\ hi[b] < 0 /\ tried > -hi[b] =>
          leftEdge[b] = hi[b] /\ rightEdge[b] = Least(-lo[b], tried - 1)
    /\ lo[b] > DqMax \/ (hi[b] < 0 /\ tried <= -hi[b]) =>
          /\ leftEdge[b] = IF tried = 0 THEN Illegal ELSE -tried
          /\ rightEdge[b] = Illegal

(* The edges of the window, as far as the searches can see it.             *)
TrueEdges(b) ==
    IF Visible(b)
    THEN /\ leftEdge[b] = Least(hi[b], DqMax)
         /\ rightEdge[b] = Least(-lo[b], DqsMax - startDqs)
    ELSE leftEdge[b] = Illegal \/ rightEdge[b] = Illegal

ExactEdges ==
    /\ pc = "left" => \A b \in Bits : /\ LeftExact(b, d)
                                      /\ b \in sticky => leftEdge[b] # Illegal
    /\ pc = "reset" => \A b \in Bits : ResetExact(b)
    /\ pc = "right" =>
          \A b \in Bits :
              /\ RightExact(b, d)
              /\ b \in sticky => rightEdge[b] # Illegal
    /\ pc \in {"center", "done"} => \A b \in Bits : TrueEdges(b)

Ordered == \A b \in Bits : lo[b] <= hi[b]

ExactInv == Ordered /\ (fuzz = 0 => ExactEdges) /\ Centred /\ FindsDelays

(* Nothing has been seen at the start.                                     *)
LEMMA InitExact == Init => ExactInv
  BY DEF Init, ExactInv, Ordered, ExactEdges, LeftExact, SeenLeft, Illegal,
         Centred, FindsDelays

(* The left search finds what there is to its left.                        *)
LEMMA LeftExactStep == CenterInv /\ ExactInv /\ SearchLeft => ExactInv'
<1> SUFFICES ASSUME CenterInv, ExactInv, SearchLeft PROVE ExactInv'
  OBVIOUS
<1> USE DEF CenterInv, TypeInv, TypeOK, LoopInv, SearchLeft, memVars, Illegal,
            LeftEdges, RightEdges
<1>1. PICK passing \in ReadResults(d, dqs) : LeftTest(passing)
  OBVIOUS
<1>2. pc' \in {"left", "reset"} /\ Ordered'
  BY <1>1 DEF LeftTest, ExactInv, Ordered
<1>3. ASSUME fuzz = 0 PROVE ExactEdges'
  <2>1. \A b \in Bits : b \in passing <=> lo[b] <= d /\ d <= hi[b]
    <3>1. MemTyped /\ dqs = startDqs
      BY DEF MemTyped, EdgesInv
    <3>2. passing = {b \in Bits : d \in lo[b] .. hi[b]}
      BY <1>3, <3>1, ResultsExact, d - (dqs - startDqs) = d
    <3> QED
      BY <3>2
  <2>2. \A b \in Bits : LeftExact(b, d) /\ (b \in sticky => leftEdge[b] # Illegal)
    BY <1>3 DEF ExactInv, ExactEdges
  <2>3. \A b \in Bits : lo[b] <= hi[b]
    BY DEF ExactInv, Ordered
  <2>4. passing \subseteq Bits
    <3>1. MemTyped
      BY DEF MemTyped
    <3> QED
      BY <3>1, ResultsRead
  <2>5. CASE passing = {} /\ sticky' = Bits
    <3>1. pc' = "reset" /\ UNCHANGED <<leftEdge, rightEdge>>
      BY <1>1, <2>5 DEF LeftTest
    <3>2. \A b \in Bits : leftEdge[b] # Illegal
      BY <1>1, <2>2, <2>5 DEF LeftTest
    <3>3. \A b \in Bits : ResetExact(b)
      BY <2>1, <2>2, <2>3, <2>5, <3>2 DEF LeftExact, ResetExact, SeenLeft, Least
    <3>4. \A b \in Bits : ResetExact(b)'
      BY <3>1, <3>3 DEF ResetExact, SeenLeft, Least
    <3> QED
      BY <3>1, <3>4 DEF ExactEdges
  <2>6. CASE ~(passing = {} /\ sticky' = Bits)
    <3>1. RecordLeft(passing) /\ d' = d + 1 /\ sticky' = sticky \cup passing
          /\ pc' = IF d < DqMax THEN "left" ELSE "reset"
      BY <1>1, <2>6 DEF LeftTest
    <3>2. \A b \in Bits : LeftExact(b, d)'
      BY <2>1, <2>2, <2>3, <3>1 DEF LeftExact, SeenLeft, Least, RecordLeft
    <3>3. ASSUME NEW b \in Bits, b \in sticky' PROVE leftEdge'[b] # Illegal
      <4>1. leftEdge'[b] = IF b \in passing THEN d ELSE leftEdge[b]
        BY <3>1 DEF RecordLeft
      <4>2. b \in passing \/ leftEdge[b] # Illegal
        BY <2>2, <3>1, <3>3
      <4> QED
        BY <4>1, <4>2
    <3>4. pc' = "reset" => \A b \in Bits : ResetExact(b)'
      BY <3>1, <3>2 DEF LeftExact, ResetExact, SeenLeft, Least
    <3> QED
      BY <1>2, <3>2, <3>3, <3>4 DEF ExactEdges
  <2> QED
    BY <2>5, <2>6
<1> QED
  BY <1>2, <1>3 DEF ExactInv, Centred, FindsDelays

(* Setting up for the right search leaves the edges that are known.        *)
LEMMA ResetExactStep == CenterInv /\ ExactInv /\ ResetEdges => ExactInv'
<1> SUFFICES ASSUME CenterInv, ExactInv, ResetEdges PROVE ExactInv'
  OBVIOUS
<1> USE DEF CenterInv, TypeInv, TypeOK, LoopInv, ResetEdges, memVars, Illegal,
            LeftEdges, RightEdges
<1>1. Ordered'
  BY DEF ExactInv, Ordered
<1>2. ASSUME fuzz = 0 PROVE ExactEdges'
  <2>1. ASSUME NEW b \in Bits
        PROVE  RightExact(b, d)' /\ (b \in sticky' => rightEdge'[b] # Illegal)
    <3>1. ResetExact(b) /\ lo[b] <= hi[b]
      BY <1>2 DEF ExactInv, ExactEdges, Ordered
    <3>2. /\ leftEdge'[b] = leftEdge[b]
          /\ rightEdge'[b] = IF leftEdge[b] = Illegal THEN Illegal
                                                      ELSE rightEdge[b]
      OBVIOUS
    <3>3. lo[b] \in Int /\ hi[b] \in Int /\ lo' = lo /\ hi' = hi /\ d' = 0
      OBVIOUS
    <3>4. RightExact(b, d)'
      BY <3>1, <3>2, <3>3 DEF ResetExact, RightExact, SeenLeft, Least
    <3> QED
      BY <3>2, <3>4
  <2> QED
    BY <2>1 DEF ExactEdges
<1> QED
  BY <1>1, <1>2 DEF ExactInv, Centred, FindsDelays

(* The right search finds the rest.                                        *)
LEMMA RightExactStep == CenterInv /\ ExactInv /\ SearchRight => ExactInv'
<1> SUFFICES ASSUME CenterInv, ExactInv, SearchRight PROVE ExactInv'
  OBVIOUS
<1> USE DEF CenterInv, TypeInv, TypeOK, LoopInv, SearchRight, memVars, Illegal,
            LeftEdges, RightEdges
<1>1. PICK passing \in ReadResults(0, dqs') : RightTest(passing)
  OBVIOUS
<1>2. pc' \in {"right", "center"} /\ Ordered'
  BY <1>1 DEF RightTest, ExactInv, Ordered
<1>3. ASSUME fuzz = 0 PROVE ExactEdges'
  <2>1. \A b \in Bits : b \in passing <=> lo[b] <= -d /\ -d <= hi[b]
    <3>1. MemTyped /\ dqs' = startDqs + d
      BY DEF MemTyped
    <3>2. 0 - (dqs' - startDqs) = -d
      BY <3>1
    <3>3. passing = {b \in Bits : -d \in lo[b] .. hi[b]}
      BY <1>3, <3>1, <3>2, ResultsExact
    <3> QED
      BY <3>3
  <2>2. \A b \in Bits : RightExact(b, d) /\ (b \in sticky => rightEdge[b] # Illegal)
    BY <1>3 DEF ExactInv, ExactEdges
  <2>3. \A b \in Bits : lo[b] <= hi[b]
    BY DEF ExactInv, Ordered
  <2>4. CASE passing = {} /\ sticky' = Bits
    <3>1. pc' = "center" /\ UNCHANGED <<leftEdge, rightEdge>>
      BY <1>1, <2>4 DEF RightTest
    <3>2. \A b \in Bits : rightEdge[b] # Illegal
      BY <1>1, <2>2, <2>4 DEF RightTest
    <3>3. ASSUME NEW b \in Bits PROVE TrueEdges(b)
      BY <2>1, <2>2, <2>3, <2>4, <3>2 DEF RightExact, TrueEdges, Visible, Least
    <3>4. \A b \in Bits : TrueEdges(b)'
      BY <3>1, <3>3 DEF TrueEdges, Visible, Least
    <3> QED
      BY <3>1, <3>4 DEF ExactEdges
  <2>5. CASE ~(passing = {} /\ sticky' = Bits)
    <3>1. RecordRight(passing) /\ d' = d + 1 /\ sticky' = sticky \cup passing
          /\ pc' = IF d < DqsMax - startDqs THEN "right" ELSE "center"
      BY <1>1, <2>5 DEF RightTest
    <3>2. ASSUME NEW b \in Bits
          PROVE  /\ RightExact(b, d)'
                 /\ b \in sticky' => rightEdge'[b] # Illegal
      <4>1. /\ rightEdge'[b] = IF b \in passing THEN d
                               ELSE IF rightEdge[b] = Illegal /\ d = 0
                                       /\ leftEdge[b] # Illegal
                                    THEN -1 ELSE rightEdge[b]
            /\ leftEdge'[b] = IF b \notin passing /\ rightEdge[b] = Illegal
                                 /\ ~(d = 0 /\ leftEdge[b] # Illegal)
                              THEN -(d + 1) ELSE leftEdge[b]
        BY <3>1 DEF RecordRight
      <4>2. RightExact(b, d) /\ lo[b] <= hi[b] /\ (b \in passing <=> lo[b] <= -d /\ -d <= hi[b])
        BY <2>1, <2>2, <2>3
      <4>3. lo[b] \in Int /\ hi[b] \in Int /\ lo' = lo /\ hi' = hi
        OBVIOUS
      <4>4. RightExact(b, d)'
        BY <3>1, <4>1, <4>2, <4>3 DEF RightExact, Least
      <4>5. b \in passing \/ rightEdge[b] # Illegal \/ b \notin sticky'
        BY <2>2, <3>1
      <4> QED
        BY <4>1, <4>4, <4>5
    <3>3. ASSUME pc' = "center", NEW b \in Bits PROVE TrueEdges(b)'
      <4>1. d' = DqsMax - startDqs + 1 /\ startDqs' = startDqs
        BY <3>1, <3>3
      <4>2. RightExact(b, d)' /\ lo'[b] \in Int /\ hi'[b] \in Int
            /\ lo'[b] <= hi'[b]
        BY <2>3, <3>2
      <4> QED
        BY <4>1, <4>2 DEF RightExact, TrueEdges, Visible, Least
    <3> QED
      BY <1>2, <3>2, <3>3 DEF ExactEdges
  <2> QED
    BY <2>4, <2>5
<1> QED
  BY <1>2, <1>3 DEF ExactInv, Centred, FindsDelays

(* Giving up: there is a window that cannot be seen.                       *)
LEMMA NoWindowExactStep == CenterInv /\ ExactInv /\ NoWindow => ExactInv'
<1> SUFFICES ASSUME CenterInv, ExactInv, NoWindow PROVE ExactInv'
  OBVIOUS
<1> USE DEF CenterInv, TypeInv, TypeOK, NoWindow, sweepVars, memVars
<1>1. Ordered'
  BY DEF ExactInv, Ordered
<1>2. fuzz = 0 => ExactEdges'
  BY DEF ExactInv, ExactEdges, TrueEdges, Visible, Least
<1>3. Centred'
  BY DEF Centred
<1>4. ASSUME fuzz = 0 PROVE ~\A b \in Bits : WhollyVisible(b)'
  <2>1. PICK b \in Bits : leftEdge[b] = Illegal \/ rightEdge[b] = Illegal
    OBVIOUS
  <2>2. TrueEdges(b) /\ lo[b] <= hi[b] /\ lo[b] \in Int /\ hi[b] \in Int
    BY <1>4 DEF ExactInv, ExactEdges, Ordered
  <2>3. ~WhollyVisible(b)
    BY <2>1, <2>2 DEF TrueEdges, Visible, WhollyVisible, Least, Illegal
  <2> QED
    BY <2>3 DEF WhollyVisible
<1> QED
  BY <1>1, <1>2, <1>3, <1>4 DEF ExactInv, FindsDelays

(* The edges of a window that can be seen as a whole.                      *)
LEMMA WholeEdges ==
    ASSUME CenterInv, ExactInv, fuzz = 0, pc = "center",
           NEW b \in Bits, WhollyVisible(b)
    PROVE  /\ leftEdge[b] = hi[b] /\ rightEdge[b] = -lo[b]
           /\ MidOf(b) = Mid(b)
<1>1. /\ TrueEdges(b) /\ lo[b] <= hi[b] /\ lo[b] \in Int /\ hi[b] \in Int
      /\ startDqs \in 0 .. DqsMax
  BY DEF ExactInv, ExactEdges, Ordered, CenterInv, TypeInv, TypeOK
<1>2. leftEdge[b] = hi[b] /\ rightEdge[b] = -lo[b]
  BY <1>1 DEF TrueEdges, Visible, WhollyVisible, Least
<1> QED
  BY <1>1, <1>2 DEF MidOf, Mid

(* The middle of a bit is where the arithmetic puts it: DQS is moved by    *)
(* half of the least centre, rounded up, the bit by half of the difference.*)
LEMMA CenterExactStep == CenterInv /\ ExactInv /\ Center => ExactInv'
<1> SUFFICES ASSUME CenterInv, ExactInv, Center PROVE ExactInv'
  OBVIOUS
<1> USE DEF CenterInv, TypeInv, TypeOK, Center, sweepVars, memVars
<1>1. PICK minIndex \in Bits :
        /\ \A b \in Bits : MidOf(minIndex) <= MidOf(b)
        /\ dqs' = Clamp(startDqs - OrigMidMin(minIndex), DqsMax)
        /\ dq' = [b \in Bits |-> ShiftDq(b, minIndex, startDqs - dqs')]
  OBVIOUS
<1> DEFINE least == MidOf(minIndex)
           moved == OrigMidMin(minIndex)
<1>2. \A b \in Bits : MidOf(b) \in Int
  BY DEF MidOf, LeftEdges, RightEdges, Illegal
<1>3. moved \in Int /\ 2 * moved \in least .. least + 1
  <2>1. least \in Int
    BY <1>2
  <2> QED
    BY <2>1, HalfUpTyped, HalfUpNear DEF OrigMidMin
<1>4. startDqs \in Int /\ startDqs - moved \in Int
  BY <1>3
<1>5. dqs' = Clamp(startDqs - moved, DqsMax) /\ least \in Int
  BY <1>1, <1>2
<1> HIDE DEF least, moved
<1> DEFINE far(b) == MidOf(b) - least
<1>6. \A b \in Bits : far(b) \in Nat
  BY <1>1, <1>2 DEF least
<1>7. dqs' = startDqs - moved =>
          \A b \in Bits : dq'[b] = Clamp(Half(far(b)), DqMax)
  <2> SUFFICES ASSUME dqs' = startDqs - moved, NEW b \in Bits
               PROVE  dq'[b] = Clamp(Half(far(b)), DqMax)
    OBVIOUS
  <2>1. dq'[b] = Clamp(Half(far(b)) + moved - (startDqs - dqs'), DqMax)
    BY <1>1 DEF ShiftDq, least, moved
  <2>2. Half(far(b)) \in Int
    BY <1>6, HalfTyped
  <2> HIDE DEF far
  <2>3. Half(far(b)) + moved - (startDqs - dqs') = Half(far(b))
    BY <1>3, <1>4, <2>2
  <2> QED
    BY <2>1, <2>3
<1>8. Ordered'
  BY DEF ExactInv, Ordered
<1>9. fuzz = 0 => ExactEdges'
  BY DEF ExactInv, ExactEdges, TrueEdges, Visible, Least
<1>10. Centred'
  <2> SUFFICES ASSUME fuzz = 0, NEW b \in Bits, WhollyVisible(b),
                      dq'[b] \notin {0, DqMax}, dqs' \notin {0, DqsMax}
               PROVE  2 * Offset(dq[b], dqs)' - (lo[b] + hi[b]) \in -2 .. 2
    BY DEF Centred, WhollyVisible
  <2>1. MidOf(b) = lo[b] + hi[b]
    BY WholeEdges DEF Mid
  <2>2. dqs' = startDqs - moved
    BY <1>4, <1>5, ClampMiddle, CenterAssumption
  <2>3. /\ Half(far(b)) \in Int
        /\ 2 * Half(far(b)) \in far(b) - 1 .. far(b)
    BY <1>6, HalfDown
  <2> HIDE DEF far
  <2>4. dq'[b] = Half(far(b))
    BY <1>7, <2>2, <2>3, ClampMiddle, CenterAssumption
  <2>5. Offset(dq[b], dqs)' = Half(far(b)) + moved
    BY <1>3, <1>4, <2>2, <2>3, <2>4 DEF Offset
  <2> QED
    BY <1>2, <1>3, <1>5, <2>1, <2>3, <2>5 DEF far
<1>11. FindsDelays'
  <2> SUFFICES ASSUME fuzz = 0, Reachable', \A b \in Bits : WhollyVisible(b)'
               PROVE  ret' = 1
    BY DEF FindsDelays
  <2>1. \A b \in Bits : WhollyVisible(b)
    BY DEF WhollyVisible
  <2>2. \A b \in Bits : /\ leftEdge[b] = hi[b] /\ rightEdge[b] = -lo[b]
                        /\ MidOf(b) = lo[b] + hi[b]
    BY <2>1, WholeEdges DEF Mid
  <2>3. /\ \A b \in Bits : MidOf(b) - least <= 2 * DqMax
        /\ 2 * startDqs - least \in 0 .. 2 * DqsMax
    <3>1. Reachable
      BY DEF Reachable, Mid
    <3>2. \A b \in Bits : Mid(b) = MidOf(b)
      BY <2>2 DEF Mid
    <3>3. PICK b \in Bits : /\ \A c \in Bits : MidOf(b) <= MidOf(c)
                            /\ 2 * startDqs - MidOf(b) \in 0 .. 2 * DqsMax
      BY <3>1, <3>2 DEF Reachable
    <3>4. MidOf(b) = least
      BY <1>1, <1>2, <3>3 DEF least
    <3> QED
      BY <3>1, <3>2, <3>3, <3>4 DEF Reachable, least
  <2>4. dqs' = startDqs - moved
    BY <1>3, <1>4, <1>5, <2>3, ClampInside
  <2>5. ASSUME NEW b \in Bits PROVE HasMargins(b, dq'[b], startDqs - dqs')
    <3>1. MidOf(b) = lo[b] + hi[b]
      BY <2>2
    <3>2. /\ Half(far(b)) \in Nat
          /\ 2 * Half(far(b)) \in far(b) - 1 .. far(b)
      BY <1>6, HalfDown
    <3>3. far(b) <= 2 * DqMax /\ far(b) \in Int
      BY <1>6, <2>3
    <3> HIDE DEF far
    <3>4. Half(far(b)) \in 0 .. DqMax
      BY <3>2, <3>3
    <3>5. dq'[b] = Half(far(b))
      BY <1>7, <2>4, <3>4, ClampInside
    <3>6. lo[b] <= hi[b] /\ lo[b] \in Int /\ hi[b] \in Int
      BY DEF ExactInv, Ordered
    <3>7. startDqs - dqs' = moved
      BY <1>3, <1>4, <2>4
    <3>8. /\ hi[b] - Half(far(b)) - moved >= 0
          /\ -lo[b] + Half(far(b)) + moved >= 0
      BY <1>3, <1>5, <3>1, <3>2, <3>6 DEF far
    <3> QED
      BY <2>2, <3>5, <3>7, <3>8 DEF HasMargins
  <2> QED
    BY <2>5
<1> QED
  BY <1>8, <1>9, <1>10, <1>11 DEF ExactInv

(* Every step keeps the edges exact.                                       *)
LEMMA NextExact == CenterInv /\ ExactInv /\ [Next]_vars => ExactInv'
<1> SUFFICES ASSUME CenterInv, ExactInv, [Next]_vars PROVE ExactInv'
  OBVIOUS
<1>1. CASE UNCHANGED vars
  BY <1>1 DEF vars, sweepVars, memVars, ExactInv, Ordered, ExactEdges,
              LeftExact, SeenLeft, ResetExact, RightExact, TrueEdges, Visible,
              Least, Centred, WhollyVisible, Offset, FindsDelays, Reachable, Mid
<1> QED
  BY <1>1, LeftExactStep, ResetExactStep, RightExactStep, NoWindowExactStep,
     CenterExactStep DEF Next

(* All that is known of a reliable memory is an invariant.                 *)
LEMMA ExactAlways == Spec => []ExactInv
  BY InitInv, NextInv, InitExact, NextExact, PTL DEF Spec

(* With a reliable memory the two searches find the edges of every window, *)
(* as far as the delay chains reach, however they share it between them.   *)
THEOREM FindsTrueEdges == Spec => []EdgesAreTrue
<1>1. ExactInv => EdgesAreTrue
  BY DEF ExactInv, ExactEdges, TrueEdges, EdgesAreTrue
<1> QED
  BY ExactAlways, <1>1, PTL

(* Then a bit ends in the middle of its window, unless a chain is too      *)
(* short.                                                                  *)
THEOREM EndsCentred == Spec => []Centred
<1>1. ExactInv => Centred
  BY DEF ExactInv
<1> QED
  BY ExactAlways, <1>1, PTL

(* And the deskew succeeds whenever the delay chains allow it.             *)
THEOREM SucceedsIfReachable == Spec => []FindsDelays
<1>1. ExactInv => FindsDelays
  BY DEF ExactInv
<1> QED
  BY ExactAlways, <1>1, PTL
=============================================================================
