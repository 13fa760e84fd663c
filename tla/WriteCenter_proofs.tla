------------------------- MODULE WriteCenter_proofs -------------------------
(***************************************************************************)
(* Proofs about WriteCenter, for every number of bits, every length of the *)
(* delay chains, every window and any unreliability of its edges: if the   *)
(* centring succeeds, every DQ and the mask are written well.              *)
(***************************************************************************)
EXTENDS WriteCenter, TLAPS

------------------------------------------------------------------------------
(* The arithmetic of Deskew.                                               *)

(* Half of an integer is an integer.                                       *)
LEMMA HalfTyped == ASSUME NEW n \in Int PROVE Half(n) \in Int
  BY DEF Half

(* So is half of it rounded to the right.                                  *)
LEMMA HalfUpTyped == ASSUME NEW n \in Int PROVE HalfUp(n) \in Int
  BY DEF HalfUp, Half

(* A setting is brought into its delay chain.                              *)
LEMMA ClampTyped ==
    ASSUME NEW n \in Int, NEW max \in Nat
    PROVE  Clamp(n, max) \in 0 .. max
  BY DEF Clamp

(* Half of a number that is not negative is rounded down.                  *)
LEMMA HalfDown ==
    ASSUME NEW n \in Nat
    PROVE  Half(n) \in Nat /\ 2 * Half(n) \in n - 1 .. n
  BY DEF Half

(* The other half is rounded up, positive or not.                          *)
LEMMA HalfUpNear ==
    ASSUME NEW n \in Int
    PROVE  2 * HalfUp(n) \in n .. n + 1
  BY DEF HalfUp, Half
------------------------------------------------------------------------------
USE WriteAssumption DEF Offsets

MemTyped ==
    /\ lo \in [Pins -> Offsets] /\ hi \in [Pins -> Offsets]
    /\ fuzz \in 0 .. MaxFuzz

(* A bit is written well at an offset in its window, or within fuzz of it. *)
LEMMA ResultsWrite ==
    ASSUME MemTyped, NEW delay \in Int, NEW strobe \in Int,
           NEW passing \in WriteResults(delay, strobe)
    PROVE  /\ passing \subseteq Bits
           /\ \A b \in passing : Maybe(b, delay - (strobe - StartDqs))
  BY DEF MemTyped, WriteResults, Maybe, Surely, Offset, Pins

(* Where the four searches are in their loops, and what the others left.   *)
LoopInv ==
    /\ pc = "left" => d \in 0 .. OutMax
    /\ pc = "right" => d \in 0 .. OutMax - StartDqs
    /\ pc = "dm" => d <= OutMax
    /\ pc = "dqs" => d >= 0 /\ dm = 0
    /\ pc \in {"left", "reset", "dm"} => dqs = StartDqs

TypeInv == TypeOK /\ LoopInv

(* The left search: a left edge passes; the mark of a right edge is where  *)
(* the next delay may begin to; a bit without such a mark passed undelayed.*)
LeftInv(b) ==
    /\ leftEdge[b] = Illegal => rightEdge[b] = IF d = 0 THEN Illegal ELSE -d
    /\ leftEdge[b] # Illegal =>
          /\ leftEdge[b] <= hi[b] + fuzz
          /\ rightEdge[b] # Illegal => -rightEdge[b] >= lo[b] - fuzz
          /\ rightEdge[b] = Illegal => lo[b] - fuzz <= 0

(* Two known edges are inside the window.                                  *)
Inside(b) ==
    leftEdge[b] # Illegal /\ rightEdge[b] # Illegal =>
        leftEdge[b] <= hi[b] + fuzz /\ -rightEdge[b] >= lo[b] - fuzz

(* The right search: while a bit has no right edge, its left edge is what  *)
(* the left search found or the mark of the next delay.                    *)
RightInv(b) ==
    /\ Inside(b)
    /\ leftEdge[b] # Illegal /\ rightEdge[b] = Illegal =>
          IF d = 0 THEN leftEdge[b] <= hi[b] + fuzz /\ lo[b] - fuzz <= 0
                   ELSE leftEdge[b] = -d
    /\ leftEdge[b] = Illegal /\ rightEdge[b] = Illegal => d = 0

EdgesInv ==
    /\ pc = "left" => \A b \in Bits : LeftInv(b)
    /\ pc = "reset" =>
          \A b \in Bits : leftEdge[b] # Illegal => LeftInv(b)
    /\ pc = "right" => \A b \in Bits : RightInv(b)
    /\ pc = "center" => \A b \in Bits : Inside(b)

(* Margins that are not negative leave every DQ in its window.             *)
DqInv == dqCentred = 1 => \A b \in Bits : Maybe(b, dq[b])

(* A run of places begins and ends with one where DM was written well.     *)
CurrInv ==
    bgnCurr # Illegal =>
        /\ bgnCurr <= endCurr /\ endCurr # Illegal
        /\ Maybe(Dm, -bgnCurr)
        /\ pc = "dm" => endCurr <= -d
        /\ pc = "dqs" => endCurr <= d

(* No run is seen, and nothing is centred, before the search for DM.       *)
EarlyInv ==
    pc \in {"left", "reset", "right", "center"} =>
        dqCentred = 0 /\ ret = 0 /\ bgnCurr = Illegal

BestInv ==
    IF winBest = 0 THEN bgnBest = Illegal /\ endBest = Illegal
    ELSE /\ bgnBest <= endBest
         /\ Maybe(Dm, -bgnBest) /\ Maybe(Dm, -endBest)

CenterInv ==
    /\ TypeInv
    /\ EdgesInv /\ EarlyInv
    /\ DqInv /\ CurrInv /\ BestInv
    /\ EveryPinWrites

(* Nothing has been seen at the start, so what is known holds.             *)
LEMMA InitInv == Init => CenterInv
<1> SUFFICES ASSUME Init PROVE CenterInv
  OBVIOUS
<1> USE DEF Init, Illegal
<1>1. TypeInv
  BY DEF TypeInv, TypeOK, LoopInv, LeftEdges, RightEdges, Places
<1>2. EdgesInv
  BY DEF EdgesInv, LeftInv
<1> QED
  BY <1>1, <1>2 DEF CenterInv, DqInv, EarlyInv, CurrInv, BestInv,
                     EveryPinWrites

(* A test of the left search keeps what is known of the edges.             *)
LEMMA LeftStep == CenterInv /\ SearchLeft => CenterInv'
<1> SUFFICES ASSUME CenterInv, SearchLeft PROVE CenterInv'
  OBVIOUS
<1> USE DEF CenterInv, TypeInv, TypeOK, LoopInv, SearchLeft, memVars, runVars,
            currVars, bestVars, Illegal, LeftEdges, RightEdges
<1>1. PICK passing \in WriteResults(d, dqs) : LeftTest(passing)
  OBVIOUS
<1>2. /\ passing \subseteq Bits
      /\ \A b \in passing : Maybe(b, d)
  <2>1. MemTyped /\ dqs = StartDqs
    BY DEF MemTyped
  <2> QED
    BY <2>1, ResultsWrite, d - (dqs - StartDqs) = d
<1>3. dqCentred = 0
  BY DEF EarlyInv
<1>4. pc' \in {"left", "reset"} /\ CurrInv' /\ BestInv' /\ EveryPinWrites' /\ DqInv'
  BY <1>1, <1>3 DEF LeftTest, CurrInv, BestInv, EveryPinWrites, DqInv, EarlyInv, Maybe
<1>5. CASE passing = {} /\ sticky' = Bits
  BY <1>1, <1>4, <1>5 DEF LeftTest, EdgesInv, LeftInv, EarlyInv
<1>6. CASE ~(passing = {} /\ sticky' = Bits)
  <2> USE <1>1, <1>6 DEF LeftTest, RecordLeft
  <2>1. TypeInv'
    BY <1>2
  <2>2. \A b \in Bits : LeftInv(b)'
    BY <1>2 DEF EdgesInv, LeftInv, Maybe, MemTyped, Pins
  <2> QED
    BY <1>4, <2>1, <2>2 DEF EdgesInv, EarlyInv
<1> QED
  BY <1>5, <1>6

(* Setting up for the right search forgets the marks that are none.        *)
LEMMA ResetStep == CenterInv /\ ResetEdges => CenterInv'
<1> SUFFICES ASSUME CenterInv, ResetEdges PROVE CenterInv'
  OBVIOUS
<1> USE DEF CenterInv, TypeInv, TypeOK, LoopInv, ResetEdges, memVars, runVars,
            currVars, bestVars, Illegal, LeftEdges, RightEdges
<1>1. TypeInv'
  OBVIOUS
<1>2. \A b \in Bits : RightInv(b)'
  BY DEF EdgesInv, LeftInv, RightInv, Inside
<1> QED
  BY <1>1, <1>2 DEF EdgesInv, EveryPinWrites, CurrInv, BestInv, DqInv, EarlyInv, Maybe

(* A test of the right search too keeps what is known of the edges.        *)
LEMMA RightStep == CenterInv /\ SearchRight => CenterInv'
<1> SUFFICES ASSUME CenterInv, SearchRight PROVE CenterInv'
  OBVIOUS
<1> USE DEF CenterInv, TypeInv, TypeOK, LoopInv, SearchRight, memVars, runVars,
            currVars, bestVars, Illegal, LeftEdges, RightEdges
<1>1. PICK passing \in WriteResults(0, dqs') : RightTest(passing)
  OBVIOUS
<1>2. /\ passing \subseteq Bits
      /\ \A b \in passing : Maybe(b, -d)
  <2>1. MemTyped /\ dqs' = StartDqs + d
    BY DEF MemTyped
  <2>2. 0 - (dqs' - StartDqs) = -d
    BY <2>1
  <2> QED
    BY <2>1, <2>2, ResultsWrite
<1>3. dqCentred = 0
  BY DEF EarlyInv
<1>4. pc' \in {"right", "center"} /\ CurrInv' /\ BestInv' /\ EveryPinWrites' /\ DqInv'
  BY <1>1, <1>3 DEF RightTest, StopRight, CurrInv, BestInv, EveryPinWrites, DqInv,
                    EarlyInv, Maybe
<1>5. CASE passing = {} /\ sticky' = Bits
  <2> USE <1>1, <1>5 DEF RightTest, StopRight, Unseen, Marginal
  <2>1. TypeInv'
    <3>1. rightEdge' \in [Bits -> RightEdges]
      OBVIOUS
    <3>2. pc' = "center" /\ dqs' \in 0 .. OutMax /\ sticky' \in SUBSET Bits
      OBVIOUS
    <3> QED
      BY <3>1, <3>2
  <2>2. \A b \in Bits : Inside(b)'
    BY DEF EdgesInv, RightInv, Inside, Pins
  <2> QED
    BY <1>4, <2>1, <2>2 DEF EdgesInv, EarlyInv
<1>6. CASE ~(passing = {} /\ sticky' = Bits)
  <2> USE <1>1, <1>6 DEF RightTest, RecordRight, Unseen, Marginal
  <2>1. TypeInv'
    BY <1>2
  <2>2. \A b \in Bits : RightInv(b)'
    BY <1>2 DEF EdgesInv, RightInv, Inside, Maybe, MemTyped, Pins
  <2> QED
    BY <1>4, <2>1, <2>2 DEF EdgesInv, RightInv, EarlyInv
<1> QED
  BY <1>5, <1>6

(* Giving up returns 0.                                                    *)
LEMMA NoWindowStep == CenterInv /\ NoWindow => CenterInv'
  BY DEF CenterInv, TypeInv, TypeOK, LoopInv, NoWindow, pinVars, edgeVars,
         runVars, currVars, bestVars, memVars, EdgesInv, DqInv, CurrInv,
         BestInv, EarlyInv, EveryPinWrites, Maybe

(* The DQs get delays of their chains; if the margins are not negative     *)
(* they are between the edges.                                             *)
LEMMA CenterDqStep == CenterInv /\ CenterDq => CenterInv'
<1> SUFFICES ASSUME CenterInv, CenterDq PROVE CenterInv'
  OBVIOUS
<1> USE DEF CenterInv, TypeInv, TypeOK, LoopInv, CenterDq, edgeVars, memVars,
            runVars, currVars, bestVars
<1>1. PICK minIndex \in Bits : dq' = [b \in Bits |-> ShiftDq(b, minIndex)]
  OBVIOUS
<1>2. \A b \in Bits : MidOf(b) \in Int
  BY DEF MidOf, LeftEdges, RightEdges, Illegal
<1>3. \A b \in Bits : ShiftDq(b, minIndex) \in 0 .. OutMax
  <2> SUFFICES ASSUME NEW b \in Bits PROVE ShiftDq(b, minIndex) \in 0 .. OutMax
    OBVIOUS
  <2> DEFINE half == Half(MidOf(b) - MidOf(minIndex))
             orig == HalfUp(MidOf(minIndex))
  <2>1. half \in Int
    BY <1>2, HalfTyped
  <2>2. orig \in Int
    BY <1>2, HalfUpTyped
  <2> HIDE DEF half, orig
  <2>3. half + orig \in Int
    BY <2>1, <2>2
  <2>4. Clamp(half + orig, OutMax) \in 0 .. OutMax
    BY <2>3, ClampTyped
  <2> QED
    BY <2>4 DEF ShiftDq, half, orig
<1>4. dq' \in [Bits -> 0 .. OutMax]
  BY <1>1, <1>3
<1>5. TypeInv'
  BY <1>4
<1>6. DqInv'
  <2> SUFFICES ASSUME dqCentred' = 1, NEW b \in Bits
               PROVE  dq'[b] \in lo'[b] - fuzz .. hi'[b] + fuzz
    BY DEF DqInv, Maybe
  <2>1. HasMargins(b, dq'[b])
    OBVIOUS
  <2>2. leftEdge[b] <= hi[b] + fuzz /\ -rightEdge[b] >= lo[b] - fuzz
    BY DEF EdgesInv, Inside
  <2>3. dq'[b] \in Int /\ lo[b] \in Int /\ hi[b] \in Int
    BY <1>4 DEF Pins
  <2> QED
    BY <2>1, <2>2, <2>3 DEF HasMargins, LeftEdges, RightEdges, Illegal
<1> QED
  BY <1>5, <1>6 DEF EdgesInv, CurrInv, BestInv, EarlyInv, EveryPinWrites, Maybe

(* A run never begins after it ends.                                       *)
RunTyped ==
    /\ bgnCurr \in Places /\ endCurr \in Places
    /\ bgnBest \in Places /\ endBest \in Places
    /\ winBest \in 0 .. 2 * OutMax + 1

(* A place where DM is written well goes into the runs as their last.      *)
LEMMA ExtendRunStep ==
    ASSUME NEW place \in -OutMax .. OutMax, RunTyped, BestInv, memVars' = memVars,
           ExtendRun(place), Maybe(Dm, -place),
           bgnCurr # Illegal => bgnCurr <= place /\ Maybe(Dm, -bgnCurr)
    PROVE  /\ RunTyped' /\ BestInv'
           /\ endCurr' = place /\ bgnCurr' <= place
           /\ Maybe(Dm, -bgnCurr)'
<1> USE DEF RunTyped, ExtendRun, Illegal, Places, bestVars, memVars
<1>1. /\ bgnCurr' \in -OutMax .. OutMax /\ endCurr' = place
      /\ bgnCurr' <= place
  OBVIOUS
<1>2. Maybe(Dm, -bgnCurr)' /\ Maybe(Dm, -endCurr)'
  BY DEF Maybe
<1>3. CASE endCurr' - bgnCurr' + 1 > winBest
  <2>1. RunTyped'
    BY <1>1, <1>3
  <2>2. winBest' # 0 /\ bgnBest' = bgnCurr' /\ endBest' = endCurr'
    BY <1>1, <1>3
  <2>3. BestInv'
    BY <1>1, <1>2, <2>2 DEF BestInv, Maybe
  <2> QED
    BY <1>1, <1>2, <2>1, <2>3
<1>4. CASE ~(endCurr' - bgnCurr' + 1 > winBest)
  BY <1>1, <1>2, <1>4 DEF BestInv, Maybe
<1> QED
  BY <1>3, <1>4

(* Each test of DM, moving DM and then DQS, keeps the runs and the DQs.    *)
LEMMA DmPassesStep == CenterInv /\ DmPasses => CenterInv'
<1> SUFFICES ASSUME CenterInv, DmPasses PROVE CenterInv'
  OBVIOUS
<1> USE DEF CenterInv, TypeInv, TypeOK, LoopInv, DmPasses, memVars, edgeVars
<1>1. d \in 0 .. OutMax /\ dqs = StartDqs
  OBVIOUS
<1>2. Maybe(Dm, d)
  <2>1. d - (dqs - StartDqs) = d
    BY <1>1
  <2> QED
    BY <2>1 DEF MaskedMayPass, Offset
<1>3. /\ RunTyped' /\ BestInv'
      /\ endCurr' = -d /\ bgnCurr' <= -d
      /\ Maybe(Dm, -bgnCurr)'
  <2>1. -d \in -OutMax .. OutMax /\ -(-d) = d
    BY <1>1
  <2>2. RunTyped
    BY DEF RunTyped
  <2>3. bgnCurr # Illegal => bgnCurr <= -d /\ Maybe(Dm, -bgnCurr)
    BY <1>1 DEF CurrInv, Places, Illegal
  <2> QED
    BY <1>2, <2>1, <2>2, <2>3, ExtendRunStep
<1>4. CurrInv'
  BY <1>1, <1>3 DEF CurrInv, Illegal
<1>5. TypeInv'
  BY <1>1, <1>3 DEF RunTyped
<1> QED
  BY <1>3, <1>4, <1>5 DEF EdgesInv, EarlyInv, DqInv, EveryPinWrites, Maybe

(* The same, DQS having been moved.                                        *)
LEMMA DqsPassesStep == CenterInv /\ DqsPasses => CenterInv'
<1> SUFFICES ASSUME CenterInv, DqsPasses PROVE CenterInv'
  OBVIOUS
<1> USE DEF CenterInv, TypeInv, TypeOK, LoopInv, DqsPasses, memVars, edgeVars
<1>1. d \in 0 .. OutMax - StartDqs /\ dm = 0 /\ dqs' = StartDqs + d
  OBVIOUS
<1>2. Maybe(Dm, -d)
  <2>1. dm - (dqs' - StartDqs) = -d
    BY <1>1
  <2> QED
    BY <2>1 DEF MaskedMayPass, Offset
<1>3. /\ RunTyped' /\ BestInv'
      /\ endCurr' = d /\ bgnCurr' <= d
      /\ Maybe(Dm, -bgnCurr)'
  <2>1. d \in -OutMax .. OutMax
    BY <1>1
  <2>2. RunTyped
    BY DEF RunTyped
  <2>3. bgnCurr # Illegal => bgnCurr <= d /\ Maybe(Dm, -bgnCurr)
    BY <1>1 DEF CurrInv, Places, Illegal
  <2> QED
    BY <1>2, <2>1, <2>2, <2>3, ExtendRunStep
<1>4. CurrInv'
  BY <1>1, <1>3 DEF CurrInv, Illegal
<1>5. TypeInv'
  BY <1>1, <1>3 DEF RunTyped
<1> QED
  BY <1>3, <1>4, <1>5 DEF EdgesInv, EarlyInv, DqInv, EveryPinWrites, Maybe

(* A failing test of DM ends the run that goes on.                         *)
LEMMA FailsStep == CenterInv /\ (DmFails \/ DqsFails) => CenterInv'
<1> SUFFICES ASSUME CenterInv, DmFails \/ DqsFails PROVE CenterInv'
  OBVIOUS
<1> USE DEF CenterInv, TypeInv, TypeOK, LoopInv, EndRun, memVars, edgeVars,
            bestVars
<1>1. CASE DmFails
  BY <1>1 DEF DmFails, CurrInv, BestInv, EdgesInv, EarlyInv, DqInv,
              EveryPinWrites, Maybe, Places, Illegal
<1>2. CASE DqsFails
  <2> USE <1>2 DEF DqsFails
  <2>1. TypeInv'
    BY DEF Places, Illegal
  <2> QED
    BY <2>1 DEF CurrInv, BestInv, EdgesInv, EarlyInv, DqInv, EveryPinWrites, Maybe
<1> QED
  BY <1>1, <1>2

(* From DM to DQS the run goes on only if it has reached no delay.         *)
LEMMA OverStep == CenterInv /\ (DmOver \/ DqsOver) => CenterInv'
<1> SUFFICES ASSUME CenterInv, DmOver \/ DqsOver PROVE CenterInv'
  OBVIOUS
<1> USE DEF CenterInv, TypeInv, TypeOK, LoopInv, EndRun, memVars, edgeVars,
            pinVars, runVars, currVars, bestVars, EdgesInv, EarlyInv, DqInv,
            CurrInv, BestInv, EveryPinWrites, Maybe, Places, Illegal
<1>1. CASE DmOver
  BY <1>1 DEF DmOver
<1>2. CASE DqsOver
  BY <1>2 DEF DqsOver
<1> QED
  BY <1>1, <1>2

(* DM ends between the ends of the longest run, if the margin is not       *)
(* negative.                                                               *)
LEMMA CenterDmStep == CenterInv /\ CenterDm => CenterInv'
<1> SUFFICES ASSUME CenterInv, CenterDm PROVE CenterInv'
  OBVIOUS
<1> USE DEF CenterInv, TypeInv, TypeOK, LoopInv, CenterDm, memVars, edgeVars,
            runVars, currVars, bestVars
<1>1. dm' = LET half == Half(-bgnBest - endBest)
            IN  IF half < 0 THEN 0 ELSE half
  OBVIOUS
<1>2. bgnBest \in -OutMax .. OutMax + 1 /\ endBest \in -OutMax .. OutMax + 1
  BY DEF Places, Illegal
<1>3. dm' \in 0 .. OutMax
  BY <1>1, <1>2 DEF Half
<1>4. TypeInv'
  BY <1>3
<1>5. EveryPinWrites'
  <2> SUFFICES ASSUME ret' = 1
               PROVE  /\ \A b \in Bits : Maybe(b, Offset(dq[b], dqs))'
                      /\ Maybe(Dm, Offset(dm, dqs))'
    BY DEF EveryPinWrites
  <2>1. dqCentred = 1 /\ DmMargin(dm') >= 0
    OBVIOUS
  <2>2. \A b \in Bits : Maybe(b, Offset(dq[b], dqs))'
    <3>1. \A b \in Bits : dq[b] - (StartDqs - StartDqs) = dq[b]
      OBVIOUS
    <3> QED
      BY <2>1, <3>1 DEF DqInv, Offset, Maybe
  <2>3. winBest # 0 /\ dm' <= -bgnBest
    BY <2>1, <1>2, <1>3 DEF DmMargin
  <2>4. /\ bgnBest <= endBest
        /\ lo[Dm] - fuzz <= -endBest /\ -bgnBest <= hi[Dm] + fuzz
    <3>1. lo[Dm] \in Int /\ hi[Dm] \in Int
      BY DEF Pins
    <3> QED
      BY <2>3, <1>2, <3>1 DEF BestInv, Maybe
  <2>5. -endBest <= dm'
    BY <1>1, <1>2, <1>3, <2>3, <2>4 DEF Half
  <2>6. dm' - (dqs' - StartDqs) = dm'
    BY <1>3
  <2>7. Maybe(Dm, Offset(dm, dqs))'
    <3>1. lo[Dm] \in Int /\ hi[Dm] \in Int
      BY DEF Pins
    <3> QED
      BY <1>2, <1>3, <2>3, <2>4, <2>5, <2>6, <3>1 DEF Maybe, Offset
  <2> QED
    BY <2>2, <2>7
<1> QED
  BY <1>4, <1>5 DEF EdgesInv, EarlyInv, DqInv, CurrInv, BestInv, Maybe

(* Every step keeps what is known of the search.                           *)
LEMMA NextInv == CenterInv /\ [Next]_vars => CenterInv'
<1> SUFFICES ASSUME CenterInv, [Next]_vars PROVE CenterInv'
  OBVIOUS
<1>1. CASE UNCHANGED vars
  BY <1>1 DEF vars, pinVars, edgeVars, runVars, currVars, bestVars, memVars,
              CenterInv, TypeInv, TypeOK, LoopInv, EdgesInv, LeftInv, RightInv,
              Inside, EarlyInv, DqInv, CurrInv, BestInv, EveryPinWrites, Maybe,
              Offset
<1>2. CASE SearchDm
  BY <1>2, DmPassesStep, DqsPassesStep, FailsStep, OverStep DEF SearchDm
<1> QED
  BY <1>1, <1>2, LeftStep, ResetStep, RightStep, NoWindowStep, CenterDqStep,
     CenterDmStep DEF Next

(* No delay leaves its delay chain, and no window found is longer than     *)
(* both searches.                                                          *)
THEOREM TypeCorrect == Spec => []TypeOK
<1>1. CenterInv => TypeOK
  BY DEF CenterInv, TypeInv
<1> QED
  BY InitInv, NextInv, <1>1, PTL DEF Spec

(* When the centring returns 1 every DQ and the mask are written well with *)
(* the delays it leaves, however unreliable the edges of the windows are.  *)
THEOREM SuccessWrites == Spec => []EveryPinWrites
<1>1. CenterInv => EveryPinWrites
  BY DEF CenterInv
<1> QED
  BY InitInv, NextInv, <1>1, PTL DEF Spec

-----------------------------------------------------------------------------
(* A reliable memory: the edges, the centres and the run of DM are exact.  *)

(* Every pin of a reliable memory whose window the offset is in is written *)
(* well.                                                                   *)
LEMMA WindowsExact ==
    ASSUME MemTyped, fuzz = 0, NEW pin \in Pins, NEW offset \in Int
    PROVE  /\ Surely(pin, offset) <=> offset \in lo[pin] .. hi[pin]
           /\ Maybe(pin, offset) <=> offset \in lo[pin] .. hi[pin]
  BY DEF MemTyped, Surely, Maybe

LEMMA ResultsExact ==
    ASSUME MemTyped, fuzz = 0, NEW delay \in Int, NEW strobe \in Int,
           NEW passing \in WriteResults(delay, strobe)
    PROVE  passing = {b \in Bits : delay - (strobe - StartDqs) \in lo[b] .. hi[b]}
<1>1. \A b \in Bits : /\ lo[b] + fuzz = lo[b] /\ lo[b] - fuzz = lo[b]
                      /\ hi[b] - fuzz = hi[b] /\ hi[b] + fuzz = hi[b]
  BY DEF MemTyped, Pins
<1> QED
  BY <1>1 DEF WriteResults, Surely, Maybe, Offset

(* The first window the left search can see: it has begun to when the bit  *)
(* is written well undelayed or at a delay that has been tried.            *)
SeenLeft(b, tried) == tried > 0 /\ lo[b] < tried /\ hi[b] >= 0

(* The edges that the left search knows after so many tests.               *)
LeftExact(b, tried) ==
    IF SeenLeft(b, tried)
    THEN /\ leftEdge[b] = Least(hi[b], tried - 1)
         /\ rightEdge[b] = IF lo[b] <= 0 THEN Illegal ELSE -lo[b]
    ELSE /\ leftEdge[b] = Illegal
         /\ rightEdge[b] = IF tried = 0 THEN Illegal ELSE -tried

(* Before the right search: edges that lie in the delays of DQ are final.  *)
ResetExact(b) ==
    IF SeenLeft(b, OutMax + 1)
    THEN /\ leftEdge[b] = Least(hi[b], OutMax)
         /\ rightEdge[b] = IF lo[b] <= 0 THEN Illegal ELSE -lo[b]
    ELSE leftEdge[b] = Illegal

(* A window that neither search has reached.                               *)
NotYet(b, tried) == lo[b] > OutMax \/ (hi[b] < 0 /\ tried <= -hi[b])

(* The edges that are known when the right search has made so many tests:  *)
(* of a window to the left of it, one that begins to the left of it, one   *)
(* that it has reached, and one that it has not.                           *)
RightExact(b, tried) ==
    /\ lo[b] > 0 /\ lo[b] <= OutMax =>
          leftEdge[b] = Least(hi[b], OutMax) /\ rightEdge[b] = -lo[b]
    /\ lo[b] <= 0 /\ hi[b] >= 0 =>
          /\ leftEdge[b] = Least(hi[b], OutMax)
          /\ rightEdge[b] = IF tried = 0 THEN Illegal
                                         ELSE Least(-lo[b], tried - 1)
    /\ hi[b] < 0 /\ tried > -hi[b] =>
          leftEdge[b] = hi[b] /\ rightEdge[b] = Least(-lo[b], tried - 1)
    /\ NotYet(b, tried) =>
          /\ leftEdge[b] = IF tried = 0 THEN Illegal ELSE -tried
          /\ rightEdge[b] = Illegal

(* The edges of the window, as far as the searches can see it.             *)
TrueEdges(b) ==
    IF Visible(b)
    THEN /\ leftEdge[b] = Least(hi[b], OutMax)
         /\ rightEdge[b] = Least(-lo[b], OutMax - StartDqs)
    ELSE leftEdge[b] = Illegal \/ rightEdge[b] = Illegal

(* A bit that counts as seen is one, in either search: none of its edges   *)
(* is still to come when the search stops early.                           *)
ExactEdges ==
    /\ pc = "left" => \A b \in Bits : /\ LeftExact(b, d)
                                      /\ b \in sticky => leftEdge[b] # Illegal
    /\ pc = "reset" => \A b \in Bits : ResetExact(b)
    /\ pc = "right" => \A b \in Bits : /\ RightExact(b, d)
                                       /\ b \in sticky => ~NotYet(b, d)
    /\ pc = "center" => \A b \in Bits : TrueEdges(b)

Ordered == \A pin \in Pins : lo[pin] <= hi[pin]

NoRun == /\ bgnCurr = Illegal /\ endCurr = Illegal /\ winBest = 0

(* What is known up to the search for DM.                                  *)
EarlyExact ==
    /\ Ordered
    /\ pc \in {"left", "reset", "right", "center"} =>
          NoRun /\ (fuzz = 0 => ExactEdges)

(* Nothing has been seen at the start.                                     *)
LEMMA InitExact == Init => EarlyExact
  BY DEF Init, EarlyExact, NoRun, Ordered, ExactEdges, LeftExact, SeenLeft,
         Illegal

(* The left search finds what there is to its left.                        *)
LEMMA LeftExactStep == CenterInv /\ EarlyExact /\ SearchLeft => EarlyExact'
<1> SUFFICES ASSUME CenterInv, EarlyExact, SearchLeft PROVE EarlyExact'
  OBVIOUS
<1> USE DEF CenterInv, TypeInv, TypeOK, LoopInv, SearchLeft, memVars, runVars,
            currVars, bestVars, Illegal, LeftEdges, RightEdges
<1>1. PICK passing \in WriteResults(d, dqs) : LeftTest(passing)
  OBVIOUS
<1>2. pc' \in {"left", "reset"} /\ Ordered' /\ NoRun'
  BY <1>1 DEF LeftTest, EarlyExact, Ordered, NoRun
<1>3. ASSUME fuzz = 0 PROVE ExactEdges'
  <2>1. \A b \in Bits : b \in passing <=> lo[b] <= d /\ d <= hi[b]
    <3>1. MemTyped /\ dqs = StartDqs
      BY DEF MemTyped
    <3>2. passing = {b \in Bits : d \in lo[b] .. hi[b]}
      BY <1>3, <3>1, ResultsExact, d - (dqs - StartDqs) = d
    <3> QED
      BY <3>1, <3>2 DEF MemTyped, Pins
  <2>2. \A b \in Bits : LeftExact(b, d) /\ (b \in sticky => leftEdge[b] # Illegal)
    BY <1>3 DEF EarlyExact, ExactEdges
  <2>3. \A b \in Bits : lo[b] \in Int /\ hi[b] \in Int /\ lo[b] <= hi[b]
    BY DEF EarlyExact, Ordered, Pins
  <2>4. CASE passing = {} /\ sticky' = Bits
    <3>1. pc' = "reset" /\ UNCHANGED <<leftEdge, rightEdge>>
      BY <1>1, <2>4 DEF LeftTest
    <3>2. \A b \in Bits : leftEdge[b] # Illegal
      BY <1>1, <2>2, <2>4 DEF LeftTest
    <3>3. \A b \in Bits : ResetExact(b)
      BY <2>1, <2>2, <2>3, <2>4, <3>2 DEF LeftExact, ResetExact, SeenLeft, Least
    <3>4. \A b \in Bits : ResetExact(b)'
      BY <3>1, <3>3 DEF ResetExact, SeenLeft, Least
    <3> QED
      BY <3>1, <3>4 DEF ExactEdges
  <2>5. CASE ~(passing = {} /\ sticky' = Bits)
    <3>1. RecordLeft(passing) /\ d' = d + 1 /\ sticky' = sticky \cup passing
          /\ pc' = IF d < OutMax THEN "left" ELSE "reset"
      BY <1>1, <2>5 DEF LeftTest
    <3>2. \A b \in Bits : LeftExact(b, d)'
      BY <2>1, <2>2, <2>3, <3>1 DEF LeftExact, SeenLeft, Least, RecordLeft
    <3>3. ASSUME NEW b \in Bits, b \in sticky' PROVE leftEdge'[b] # Illegal
      <4>1. leftEdge'[b] = IF b \in passing THEN d ELSE leftEdge[b]
        BY <3>1 DEF RecordLeft
      <4>2. b \in passing \/ leftEdge[b] # Illegal
        BY <2>2, <3>1, <3>3
      <4> QED
        BY <4>1, <4>2
    <3>4. pc' = "reset" => \A b \in Bits : ResetExact(b)'
      BY <3>1, <3>2 DEF LeftExact, ResetExact, SeenLeft, Least
    <3> QED
      BY <1>2, <3>2, <3>3, <3>4 DEF ExactEdges
  <2> QED
    BY <2>4, <2>5
<1> QED
  BY <1>2, <1>3 DEF EarlyExact

(* Setting up for the right search leaves the edges that are known.        *)
LEMMA ResetExactStep == CenterInv /\ EarlyExact /\ ResetEdges => EarlyExact'
<1> SUFFICES ASSUME CenterInv, EarlyExact, ResetEdges PROVE EarlyExact'
  OBVIOUS
<1> USE DEF CenterInv, TypeInv, TypeOK, LoopInv, ResetEdges, memVars, runVars,
            currVars, bestVars, Illegal, LeftEdges, RightEdges
<1>1. Ordered' /\ NoRun'
  BY DEF EarlyExact, Ordered, NoRun
<1>2. ASSUME fuzz = 0 PROVE ExactEdges'
  <2>1. ASSUME NEW b \in Bits
        PROVE  RightExact(b, d)' /\ (b \in sticky' => ~NotYet(b, d)')
    <3>1. ResetExact(b) /\ lo[b] <= hi[b]
      BY <1>2 DEF EarlyExact, ExactEdges, Ordered, Pins
    <3>2. /\ leftEdge'[b] = leftEdge[b]
          /\ rightEdge'[b] = IF leftEdge[b] = Illegal THEN Illegal
                                                      ELSE rightEdge[b]
          /\ b \in sticky' <=> leftEdge[b] # Illegal
      OBVIOUS
    <3>3. lo[b] \in Int /\ hi[b] \in Int /\ lo' = lo /\ hi' = hi /\ d' = 0
      BY DEF Pins
    <3> QED
      BY <3>1, <3>2, <3>3 DEF ResetExact, RightExact, NotYet, SeenLeft, Least
  <2> QED
    BY <2>1 DEF ExactEdges
<1> QED
  BY <1>1, <1>2 DEF EarlyExact

(* The right search finds the rest, though it may stop as soon as it has   *)
(* begun to see the bits that the left search has not.                     *)
LEMMA RightExactStep == CenterInv /\ EarlyExact /\ SearchRight => EarlyExact'
<1> SUFFICES ASSUME CenterInv, EarlyExact, SearchRight PROVE EarlyExact'
  OBVIOUS
<1> USE DEF CenterInv, TypeInv, TypeOK, LoopInv, SearchRight, memVars, runVars,
            currVars, bestVars, Illegal, LeftEdges, RightEdges
<1>1. PICK passing \in WriteResults(0, dqs') : RightTest(passing)
  OBVIOUS
<1>2. pc' \in {"right", "center"} /\ Ordered' /\ NoRun'
  BY <1>1 DEF RightTest, StopRight, EarlyExact, Ordered, NoRun
<1>3. ASSUME fuzz = 0 PROVE ExactEdges'
  <2>1. \A b \in Bits : b \in passing <=> lo[b] <= -d /\ -d <= hi[b]
    <3>1. MemTyped /\ dqs' = StartDqs + d
      BY DEF MemTyped
    <3>2. 0 - (dqs' - StartDqs) = -d
      BY <3>1
    <3>3. passing = {b \in Bits : -d \in lo[b] .. hi[b]}
      BY <1>3, <3>1, <3>2, ResultsExact
    <3> QED
      BY <3>1, <3>3 DEF MemTyped, Pins
  <2>2. \A b \in Bits : RightExact(b, d) /\ (b \in sticky => ~NotYet(b, d))
    BY <1>3 DEF EarlyExact, ExactEdges
  <2>3. \A b \in Bits : lo[b] \in Int /\ hi[b] \in Int /\ lo[b] <= hi[b]
    BY DEF EarlyExact, Ordered, Pins
  <2>4. CASE passing = {} /\ sticky' = Bits
    <3>1. pc' = "center" /\ leftEdge' = leftEdge
          /\ \A b \in Bits :
                rightEdge'[b] = IF Unseen(b) /\ Marginal(b) THEN -1
                                                            ELSE rightEdge[b]
      BY <1>1, <2>4 DEF RightTest, StopRight
    <3>2. \A b \in Bits : ~NotYet(b, d)
      BY <1>1, <2>2, <2>4 DEF RightTest
    <3>3. ASSUME NEW b \in Bits PROVE TrueEdges(b)'
      <4>1. RightExact(b, d) /\ ~NotYet(b, d) /\ lo[b] <= hi[b]
            /\ ~(lo[b] <= -d /\ -d <= hi[b])
        BY <2>1, <2>2, <2>3, <2>4, <3>2
      <4>2. rightEdge'[b] = rightEdge[b]
        BY <2>3, <3>1, <4>1 DEF RightExact, NotYet, Least, Unseen, Marginal
      <4>3. leftEdge'[b] = leftEdge[b] /\ lo' = lo /\ hi' = hi
        BY <3>1
      <4> QED
        BY <2>3, <4>1, <4>2, <4>3
           DEF RightExact, NotYet, TrueEdges, Visible, Least
    <3> QED
      BY <3>1, <3>3 DEF ExactEdges
  <2>5. CASE ~(passing = {} /\ sticky' = Bits)
    <3>1. RecordRight(passing) /\ d' = d + 1 /\ sticky' = sticky \cup passing
          /\ pc' = IF d < OutMax - StartDqs THEN "right" ELSE "center"
      BY <1>1, <2>5 DEF RightTest
    <3>2. ASSUME NEW b \in Bits
          PROVE  RightExact(b, d)' /\ (b \in sticky' => ~NotYet(b, d)')
      <4>1. /\ rightEdge'[b] = IF b \in passing THEN d
                               ELSE IF rightEdge[b] = Illegal /\ d = 0
                                       /\ leftEdge[b] # Illegal
                                    THEN -1 ELSE rightEdge[b]
            /\ leftEdge'[b] = IF b \notin passing /\ rightEdge[b] = Illegal
                                 /\ ~(d = 0 /\ leftEdge[b] # Illegal)
                              THEN -(d + 1) ELSE leftEdge[b]
        BY <3>1 DEF RecordRight, Unseen, Marginal
      <4>2. RightExact(b, d) /\ lo[b] <= hi[b]
            /\ (b \in passing <=> lo[b] <= -d /\ -d <= hi[b])
        BY <2>1, <2>2, <2>3
      <4>3. lo[b] \in Int /\ hi[b] \in Int /\ lo' = lo /\ hi' = hi
        BY <2>3
      <4>4. RightExact(b, d)'
        BY <3>1, <4>1, <4>2, <4>3 DEF RightExact, NotYet, Least
      <4>5. b \in sticky' => ~NotYet(b, d)'
        <5>1. b \in sticky' => b \in passing \/ ~NotYet(b, d)
          BY <2>2, <3>1
        <5> QED
          BY <3>1, <4>2, <4>3, <5>1 DEF NotYet
      <4> QED
        BY <4>4, <4>5
    <3>3. ASSUME pc' = "center", NEW b \in Bits PROVE TrueEdges(b)'
      <4>1. d' = OutMax - StartDqs + 1
        BY <3>1, <3>3
      <4>2. RightExact(b, d)' /\ lo'[b] \in Int /\ hi'[b] \in Int
            /\ lo'[b] <= hi'[b]
        BY <2>3, <3>2
      <4> QED
        BY <4>1, <4>2 DEF RightExact, NotYet, TrueEdges, Visible, Least
    <3> QED
      BY <1>2, <3>2, <3>3 DEF ExactEdges
  <2> QED
    BY <2>4, <2>5
<1> QED
  BY <1>2, <1>3 DEF EarlyExact

(* The later steps do not touch the edges, and leave the centring behind.  *)
Late == {"dm", "dqs", "finish", "done"}

LEMMA LateExactStep ==
    ASSUME EarlyExact, NoWindow \/ CenterDq \/ SearchDm \/ CenterDm
    PROVE  EarlyExact' /\ pc' \in Late
<1>1. pc' \in Late /\ lo' = lo /\ hi' = hi
  BY DEF NoWindow, CenterDq, SearchDm, DmPasses, DmFails, DmOver, DqsPasses,
         DqsFails, DqsOver, CenterDm, memVars, Late
<1>2. Ordered'
  BY <1>1 DEF EarlyExact, Ordered
<1> QED
  BY <1>1, <1>2 DEF EarlyExact, Late

LEMMA NextExact == CenterInv /\ EarlyExact /\ [Next]_vars => EarlyExact'
<1>1. CASE UNCHANGED vars
  BY <1>1 DEF vars, edgeVars, runVars, currVars, bestVars, memVars,
              EarlyExact, Ordered, NoRun, ExactEdges, LeftExact, ResetExact,
              RightExact, TrueEdges, NotYet, SeenLeft, Visible
<1> QED
  BY <1>1, LeftExactStep, ResetExactStep, RightExactStep, LateExactStep
     DEF Next

(* Of a reliable memory the edges the two searches leave are the true ones,*)
(* cut off at the ends of the delay chains; a bit they cannot see has none.*)
THEOREM FindsTrueEdges == Spec => []EdgesAreTrue
<1>1. EarlyExact => EdgesAreTrue
  BY DEF EarlyExact, ExactEdges, TrueEdges, EdgesAreTrue
<1> QED
  BY InitInv, NextInv, InitExact, NextExact, <1>1, PTL DEF Spec

-----------------------------------------------------------------------------
(* The centres of a reliable memory's windows.                             *)

(* A DQ in the middle of its window, or as near as its delay chain allows; *)
(* if the window begins and ends at delays of the chain, it is in it.      *)
Middle(b) ==
    WhollyVisible(b) =>
        /\ dq[b] \in {0, OutMax} \/ 2 * dq[b] - (lo[b] + hi[b]) \in -1 .. 1
        /\ lo[b] <= OutMax /\ hi[b] >= 0 => dq[b] \in lo[b] .. hi[b]

Reachable == \A b \in Bits : WhollyVisible(b) /\ lo[b] <= OutMax /\ hi[b] >= 0

MiddleInv ==
    (pc \in {"dm", "dqs", "finish"} \/ (pc = "done" /\ ret = 1)) /\ fuzz = 0 =>
        \A b \in Bits : Middle(b)

CentredInv ==
    pc \in Late /\ fuzz = 0 /\ Reachable =>
        dqCentred = 1 /\ \A b \in Bits : dq[b] \in lo[b] .. hi[b]

(* The delays that CenterDq chooses.                                       *)
LEMMA ShiftExact ==
    ASSUME CenterInv, NEW b \in Bits, NEW minIndex \in Bits,
           MidOf(minIndex) <= MidOf(b), Ordered, TrueEdges(b), WhollyVisible(b),
           NEW shift, shift = ShiftDq(b, minIndex)
    PROVE  /\ shift \in {0, OutMax} \/ 2 * shift - (lo[b] + hi[b]) \in -1 .. 1
           /\ lo[b] <= OutMax /\ hi[b] >= 0 =>
                 /\ shift \in lo[b] .. hi[b]
                 /\ HasMargins(b, shift)
<1> USE DEF CenterInv, TypeInv, TypeOK
<1>1. /\ lo[b] \in Int /\ hi[b] \in Int /\ lo[b] <= hi[b]
      /\ leftEdge[b] = hi[b] /\ rightEdge[b] = -lo[b]
  BY DEF Ordered, Pins, TrueEdges, Visible, WhollyVisible, Least
<1>2. MidOf(b) = lo[b] + hi[b] /\ MidOf(minIndex) \in Int
  BY <1>1 DEF MidOf, LeftEdges, RightEdges, Illegal
<1> DEFINE half == Half(MidOf(b) - MidOf(minIndex))
           orig == HalfUp(MidOf(minIndex))
<1>3. half \in Int /\ 2 * half \in MidOf(b) - MidOf(minIndex) - 1 ..
                                   MidOf(b) - MidOf(minIndex)
  <2>1. MidOf(b) - MidOf(minIndex) \in Nat
    BY <1>1, <1>2
  <2> QED
    BY <2>1, HalfDown
<1>4. orig \in Int /\ 2 * orig \in MidOf(minIndex) .. MidOf(minIndex) + 1
  BY <1>2, HalfUpTyped, HalfUpNear
<1> HIDE DEF half, orig
<1>5. half + orig \in Int /\ 2 * (half + orig) \in lo[b] + hi[b] - 1 .. lo[b] + hi[b] + 1
  BY <1>1, <1>2, <1>3, <1>4
<1>6. shift = Clamp(half + orig, OutMax)
  BY DEF ShiftDq, half, orig
<1>7. shift \in {0, OutMax} \/ 2 * shift - (lo[b] + hi[b]) \in -1 .. 1
  BY <1>1, <1>5, <1>6 DEF Clamp
<1>8. lo[b] <= OutMax /\ hi[b] >= 0 => shift \in lo[b] .. hi[b]
  <2>1. half + orig \in lo[b] .. hi[b]
    BY <1>1, <1>5
  <2> QED
    BY <1>1, <1>6, <2>1 DEF Clamp
<1> QED
  BY <1>1, <1>7, <1>8 DEF HasMargins

LEMMA CenterDqExact ==
    CenterInv /\ EarlyExact /\ CenterDq => MiddleInv' /\ CentredInv'
<1> SUFFICES ASSUME CenterInv, EarlyExact, CenterDq, fuzz = 0
             PROVE  /\ \A b \in Bits : Middle(b)'
                    /\ Reachable => dqCentred' = 1
                                    /\ \A b \in Bits : dq'[b] \in lo[b] .. hi[b]
  BY DEF CenterDq, memVars, MiddleInv, CentredInv, Reachable, WhollyVisible
<1>1. PICK minIndex \in Bits :
          /\ \A b \in Bits : MidOf(minIndex) <= MidOf(b)
          /\ dq' = [b \in Bits |-> ShiftDq(b, minIndex)]
  BY DEF CenterDq
<1>2. Ordered /\ \A b \in Bits : TrueEdges(b)
  BY DEF EarlyExact, ExactEdges, CenterDq
<1>3. lo' = lo /\ hi' = hi
      /\ dqCentred' = IF \A b \in Bits : HasMargins(b, dq'[b]) THEN 1 ELSE 0
  BY DEF CenterDq, memVars
<1>4. ASSUME NEW b \in Bits, WhollyVisible(b)
      PROVE  /\ dq'[b] \in {0, OutMax} \/ 2 * dq'[b] - (lo[b] + hi[b]) \in -1 .. 1
             /\ lo[b] <= OutMax /\ hi[b] >= 0 =>
                   /\ dq'[b] \in lo[b] .. hi[b]
                   /\ HasMargins(b, dq'[b])
  <2>1. dq'[b] = ShiftDq(b, minIndex) /\ MidOf(minIndex) <= MidOf(b)
    BY <1>1
  <2> QED
    BY <1>2, <1>4, <2>1, ShiftExact
<1>5. \A b \in Bits : Middle(b)'
  BY <1>3, <1>4 DEF Middle, WhollyVisible
<1>6. Reachable => dqCentred' = 1 /\ \A b \in Bits : dq'[b] \in lo[b] .. hi[b]
  BY <1>3, <1>4 DEF Reachable
<1> QED
  BY <1>5, <1>6

(* Windows that can be reached have edges.                                 *)
LEMMA NoWindowExact ==
    CenterInv /\ EarlyExact /\ NoWindow => MiddleInv' /\ CentredInv'
<1> SUFFICES ASSUME CenterInv, EarlyExact, NoWindow
             PROVE  MiddleInv' /\ CentredInv'
  OBVIOUS
<1>1. MiddleInv'
  BY DEF NoWindow, MiddleInv
<1>2. ASSUME fuzz = 0, Reachable PROVE FALSE
  <2>1. PICK b \in Bits : leftEdge[b] = Illegal \/ rightEdge[b] = Illegal
    BY DEF NoWindow
  <2>2. TrueEdges(b)
    BY <1>2 DEF EarlyExact, ExactEdges, NoWindow
  <2>3. lo[b] \in Int /\ hi[b] \in Int /\ lo[b] <= OutMax /\ hi[b] >= 0
        /\ WhollyVisible(b)
    BY <1>2 DEF Reachable, CenterInv, TypeInv, TypeOK, Pins
  <2> QED
    BY <2>1, <2>2, <2>3 DEF TrueEdges, Visible, WhollyVisible, Least, Illegal
<1>3. lo' = lo /\ hi' = hi /\ fuzz' = fuzz
  BY DEF NoWindow, memVars
<1> QED
  BY <1>1, <1>2, <1>3 DEF CentredInv, Reachable, WhollyVisible

(* The search for DM leaves the DQs where they are.                        *)
LEMMA LateCentredStep ==
    ASSUME MiddleInv, CentredInv, SearchDm \/ CenterDm
    PROVE  MiddleInv' /\ CentredInv'
<1>1. /\ pc \in {"dm", "dqs", "finish"} /\ pc' \in Late
      /\ UNCHANGED <<dq, dqCentred, lo, hi, fuzz>>
  BY DEF SearchDm, DmPasses, DmFails, DmOver, DqsPasses, DqsFails, DqsOver,
         CenterDm, memVars, pinVars, Late
<1> QED
  BY <1>1 DEF MiddleInv, CentredInv, Middle, Reachable, WhollyVisible, Late

DqExact == EarlyExact /\ MiddleInv /\ CentredInv

LEMMA InitCentred == Init => DqExact
  BY InitExact DEF DqExact, Init, MiddleInv, CentredInv, Late

LEMMA NextCentred == CenterInv /\ DqExact /\ [Next]_vars => DqExact'
<1> SUFFICES ASSUME CenterInv, DqExact, [Next]_vars PROVE DqExact'
  OBVIOUS
<1>1. EarlyExact'
  BY NextExact DEF DqExact
<1>2. CASE UNCHANGED vars
  BY <1>1, <1>2 DEF vars, pinVars, memVars, DqExact, MiddleInv, CentredInv,
                    Middle, Reachable, WhollyVisible
<1>3. CASE SearchLeft \/ ResetEdges \/ SearchRight
  <2>1. pc' \in {"left", "reset", "right", "center"}
    BY <1>3 DEF SearchLeft, LeftTest, ResetEdges, SearchRight, RightTest,
                StopRight
  <2> QED
    BY <1>1, <2>1 DEF DqExact, MiddleInv, CentredInv, Late
<1>4. CASE NoWindow
  BY <1>1, <1>4, NoWindowExact DEF DqExact
<1>5. CASE CenterDq
  BY <1>1, <1>5, CenterDqExact DEF DqExact
<1>6. CASE SearchDm \/ CenterDm
  BY <1>1, <1>6, LateCentredStep DEF DqExact
<1> QED
  BY <1>2, <1>3, <1>4, <1>5, <1>6 DEF Next

(* When the centring succeeds on a reliable memory, every DQ is in the     *)
(* middle of its window, unless its delay chain is too short.              *)
THEOREM EndsCentred == Spec => []Centred
<1>1. CenterInv /\ DqExact => Centred
  BY DEF DqExact, MiddleInv, Middle, Centred
<1> QED
  BY InitInv, NextInv, InitCentred, NextCentred, <1>1, PTL DEF Spec

-----------------------------------------------------------------------------
(* The run of DM.  The places where the masked group is written well are   *)
(* those of an interval, so the search finds them in one run.              *)
Good(x) ==
    /\ -x \in lo[Dm] .. hi[Dm]
    /\ \A b \in Bits : dq[b] - (IF x > 0 THEN x ELSE 0) \in lo[b] .. hi[b]

PinsTyped ==
    /\ lo \in [Pins -> Offsets] /\ hi \in [Pins -> Offsets]
    /\ dq \in [Bits -> 0 .. OutMax]

LEMMA GoodConvex ==
    ASSUME PinsTyped, NEW x \in Int, NEW y \in Int, NEW z \in Int,
           x <= y, y <= z, Good(x), Good(z)
    PROVE  Good(y)
<1>1. lo[Dm] \in Int /\ hi[Dm] \in Int
  BY DEF PinsTyped, Pins
<1>2. -y \in lo[Dm] .. hi[Dm]
  BY <1>1 DEF Good
<1>3. ASSUME NEW b \in Bits
      PROVE  dq[b] - (IF y > 0 THEN y ELSE 0) \in lo[b] .. hi[b]
  <2>1. lo[b] \in Int /\ hi[b] \in Int /\ dq[b] \in Int
    BY DEF PinsTyped, Pins
  <2>2. /\ dq[b] - (IF x > 0 THEN x ELSE 0) \in lo[b] .. hi[b]
        /\ dq[b] - (IF z > 0 THEN z ELSE 0) \in lo[b] .. hi[b]
    BY DEF Good
  <2> QED
    BY <2>1, <2>2
<1> QED
  BY <1>2, <1>3 DEF Good

(* What is known when the places up to the last have been tested.          *)
RunExact(last) ==
    IF winBest = 0
    THEN /\ bgnCurr = Illegal /\ endCurr = Illegal
         /\ \A x \in -OutMax .. last : ~Good(x)
    ELSE /\ bgnBest \in -OutMax .. last /\ endBest \in bgnBest .. last
         /\ winBest = endBest - bgnBest + 1
         /\ \A x \in -OutMax .. last : Good(x) <=> bgnBest <= x /\ x <= endBest
         /\ IF endBest = last THEN bgnCurr = bgnBest /\ endCurr = last
                              ELSE bgnCurr = Illegal /\ endCurr = Illegal

(* The place that is tested: the next, or the last one again.              *)
Tested(last, place) ==
    /\ last \in -OutMax - 1 .. OutMax /\ place \in -OutMax .. OutMax
    /\ place \in {last, last + 1}

LEMMA ExtendExact ==
    ASSUME CenterInv, NEW last \in Int, NEW place \in Int, Tested(last, place),
           RunExact(last), Good(place), ExtendRun(place),
           UNCHANGED <<dq, lo, hi>>
    PROVE  RunExact(place)'
<1> USE DEF Tested, Illegal
<1>1. PinsTyped /\ winBest \in Nat /\ \A x : Good(x)' <=> Good(x)
  BY DEF CenterInv, TypeInv, TypeOK, PinsTyped, Good
<1>2. CASE winBest = 0
  <2>1. place = last + 1 /\ \A x \in -OutMax .. last : ~Good(x)
    BY <1>2 DEF RunExact
  <2>2. bgnBest' = place /\ endBest' = place /\ winBest' = 1
        /\ bgnCurr' = place /\ endCurr' = place
    BY <1>2 DEF RunExact, ExtendRun
  <2>3. \A x \in -OutMax .. place : Good(x) <=> place <= x /\ x <= place
    BY <2>1
  <2> QED
    BY <1>1, <2>2, <2>3 DEF RunExact
<1>3. CASE winBest # 0
  <2>1. /\ bgnBest \in -OutMax .. last /\ endBest \in bgnBest .. last
        /\ winBest = endBest - bgnBest + 1
        /\ \A x \in -OutMax .. last : Good(x) <=> bgnBest <= x /\ x <= endBest
        /\ IF endBest = last THEN bgnCurr = bgnBest /\ endCurr = last
                             ELSE bgnCurr = Illegal /\ endCurr = Illegal
    BY <1>3 DEF RunExact
  <2>2. endBest = last
    <3>1. endBest \in Int /\ endBest <= last /\ last <= place /\ last >= -OutMax
      BY <2>1
    <3>2. Good(endBest)
      BY <2>1
    <3>3. Good(last)
      BY <1>1, <3>1, <3>2, GoodConvex
    <3> QED
      BY <2>1, <3>1, <3>3
  <2>3. /\ bgnCurr' = bgnBest /\ endCurr' = place
        /\ bgnBest' = bgnBest /\ endBest' = place
        /\ winBest' = place - bgnBest + 1
    BY <2>1, <2>2 DEF ExtendRun, bestVars
  <2>4. \A x \in -OutMax .. place : Good(x) <=> bgnBest <= x /\ x <= place
    BY <2>1, <2>2
  <2>5. /\ winBest' # 0 /\ bgnBest' \in -OutMax .. place
        /\ endBest' \in bgnBest' .. place
        /\ winBest' = endBest' - bgnBest' + 1
    BY <2>1, <2>2, <2>3
  <2> QED
    BY <1>1, <2>3, <2>4, <2>5 DEF RunExact
<1> QED
  BY <1>2, <1>3

LEMMA EndExact ==
    ASSUME CenterInv, NEW last \in Int, NEW place \in Int, Tested(last, place),
           RunExact(last), ~Good(place), EndRun, UNCHANGED bestVars,
           UNCHANGED <<dq, lo, hi>>
    PROVE  RunExact(place)'
<1> USE DEF Tested, Illegal
<1>1. /\ \A x : Good(x)' <=> Good(x)
      /\ bgnCurr' = Illegal /\ endCurr' = Illegal
      /\ bgnBest' = bgnBest /\ endBest' = endBest /\ winBest' = winBest
  BY DEF Good, EndRun, bestVars
<1>2. CASE winBest = 0
  <2>1. \A x \in -OutMax .. place : ~Good(x)
    BY <1>2 DEF RunExact
  <2> QED
    BY <1>1, <1>2, <2>1 DEF RunExact
<1>3. CASE winBest # 0
  <2>1. /\ bgnBest \in -OutMax .. last /\ endBest \in bgnBest .. last
        /\ winBest = endBest - bgnBest + 1
        /\ \A x \in -OutMax .. last : Good(x) <=> bgnBest <= x /\ x <= endBest
    BY <1>3 DEF RunExact
  <2>2. endBest < place
    BY <2>1
  <2>3. \A x \in -OutMax .. place : Good(x) <=> bgnBest <= x /\ x <= endBest
    BY <2>1, <2>2
  <2>4. bgnBest \in -OutMax .. place /\ endBest \in bgnBest .. place
        /\ endBest # place
    BY <2>1, <2>2
  <2> QED
    BY <1>1, <1>3, <2>1, <2>3, <2>4 DEF RunExact
<1> QED
  BY <1>2, <1>3

(* The whole of the search: every good place is in the run.                *)
AllFound ==
    IF winBest = 0 THEN \A x \in -OutMax .. OutMax - StartDqs : ~Good(x)
    ELSE /\ bgnBest \in -OutMax .. OutMax - StartDqs
         /\ endBest \in bgnBest .. OutMax - StartDqs
         /\ \A x \in -OutMax .. OutMax - StartDqs :
               Good(x) <=> bgnBest <= x /\ x <= endBest

RunsInv ==
    /\ pc = "dm" => RunExact(-d - 1)
    /\ pc = "dqs" => /\ d <= OutMax - StartDqs + 1
                     /\ RunExact(IF d = 0 THEN 0 ELSE d - 1)
    /\ pc = "finish" => AllFound

(* A masked test of a reliable memory passes where the place is good.      *)
LEMMA MaskedExact ==
    ASSUME CenterInv, fuzz = 0, NEW delay \in Int, NEW strobe \in Int,
           NEW x \in Int, delay - (strobe - StartDqs) = -x,
           strobe - StartDqs = IF x > 0 THEN x ELSE 0
    PROVE  /\ MaskedMayPass(delay, strobe) => Good(x)
           /\ MaskedMayFail(delay, strobe) => ~Good(x)
<1>1. MemTyped /\ dq \in [Bits -> 0 .. OutMax]
  BY DEF CenterInv, TypeInv, TypeOK, MemTyped
<1>2. Offset(delay, strobe) = -x
  BY DEF Offset
<1>3. /\ Surely(Dm, -x) <=> -x \in lo[Dm] .. hi[Dm]
      /\ Maybe(Dm, -x) <=> -x \in lo[Dm] .. hi[Dm]
  BY <1>1, WindowsExact DEF Pins
<1>4. ASSUME NEW b \in Bits
      PROVE  /\ Offset(dq[b], strobe) = dq[b] - (IF x > 0 THEN x ELSE 0)
             /\ Surely(b, Offset(dq[b], strobe)) <=>
                   dq[b] - (IF x > 0 THEN x ELSE 0) \in lo[b] .. hi[b]
             /\ Maybe(b, Offset(dq[b], strobe)) <=>
                   dq[b] - (IF x > 0 THEN x ELSE 0) \in lo[b] .. hi[b]
  <2>1. Offset(dq[b], strobe) = dq[b] - (IF x > 0 THEN x ELSE 0)
    BY DEF Offset
  <2>2. dq[b] - (IF x > 0 THEN x ELSE 0) \in Int /\ b \in Pins
    BY <1>1 DEF Pins
  <2> QED
    BY <1>1, <2>1, <2>2, WindowsExact
<1> QED
  BY <1>2, <1>3, <1>4 DEF MaskedMayPass, MaskedMayFail, Good

(* The search sees every place once, and the place without any delay twice.*)
LEMMA RunsStep ==
    ASSUME CenterInv, fuzz = 0, RunsInv, SearchDm
    PROVE  RunsInv'
<1> USE DEF CenterInv, TypeInv, TypeOK, LoopInv, RunsInv
<1>1. CASE DmPasses \/ DmFails
  <2>1. /\ d \in 0 .. OutMax /\ dqs = StartDqs /\ RunExact(-d - 1)
        /\ pc' = "dm" /\ d' = d - 1 /\ UNCHANGED <<dq, lo, hi>>
    BY <1>1 DEF DmPasses, DmFails, memVars
  <2>2. PICK place \in Int, last \in Int : place = -d /\ last = -d - 1
    BY <2>1
  <2>3. /\ Tested(last, place) /\ RunExact(last)
        /\ -d' - 1 = place
    BY <2>1, <2>2 DEF Tested
  <2>4. /\ MaskedMayPass(d, dqs) => Good(place)
        /\ MaskedMayFail(d, dqs) => ~Good(place)
    <3>1. d - (dqs - StartDqs) = -place /\ d \in Int /\ dqs \in Int
          /\ dqs - StartDqs = IF place > 0 THEN place ELSE 0
      BY <2>1, <2>2
    <3> QED
      BY <3>1, MaskedExact
  <2>5. RunExact(place)'
    <3>1. CASE DmPasses
      BY <2>1, <2>2, <2>3, <2>4, <3>1, ExtendExact DEF DmPasses
    <3>2. CASE DmFails
      BY <2>1, <2>2, <2>3, <2>4, <3>2, EndExact DEF DmFails
    <3> QED
      BY <1>1, <3>1, <3>2
  <2> QED
    BY <2>1, <2>3, <2>5
<1>2. CASE DmOver
  <2>1. /\ pc' = "dqs" /\ d' = 0 /\ d = -1
        /\ UNCHANGED <<dq, lo, hi, bestVars>>
        /\ IF endCurr # 0 THEN EndRun ELSE UNCHANGED currVars
    BY <1>2 DEF DmOver, memVars
  <2>2. RunExact(0)
    <3>1. RunExact(-d - 1)
      BY <1>2 DEF DmOver
    <3>2. d \in Int /\ d + 1 = 0
      BY <1>2 DEF DmOver
    <3>3. -d - 1 = 0
      BY <3>2
    <3> QED
      BY <3>1, <3>3
  <2>3. RunExact(0)'
    BY <2>1, <2>2 DEF RunExact, Good, EndRun, currVars, bestVars, Illegal
  <2> QED
    BY <2>1, <2>3
<1>3. CASE DqsPasses \/ DqsFails
  <2>1. /\ d \in 0 .. OutMax - StartDqs /\ dm = 0 /\ dqs' = StartDqs + d
        /\ RunExact(IF d = 0 THEN 0 ELSE d - 1) /\ UNCHANGED <<dq, lo, hi>>
    BY <1>3 DEF DqsPasses, DqsFails, memVars
  <2>2. PICK place \in Int, last \in Int :
            place = d /\ last = IF d = 0 THEN 0 ELSE d - 1
    BY <2>1
  <2>3. Tested(last, place) /\ RunExact(last) /\ place \in 0 .. OutMax - StartDqs
    BY <2>1, <2>2 DEF Tested
  <2>4. /\ MaskedMayPass(dm, dqs') => Good(place)
        /\ MaskedMayFail(dm, dqs') => ~Good(place)
    <3>1. dm - (dqs' - StartDqs) = -place /\ dm \in Int /\ dqs' \in Int
          /\ dqs' - StartDqs = IF place > 0 THEN place ELSE 0
      BY <2>1, <2>2
    <3> QED
      BY <2>2, <3>1, MaskedExact
  <2>5. RunExact(place)'
    <3>1. CASE DqsPasses
      BY <2>1, <2>2, <2>3, <2>4, <3>1, ExtendExact DEF DqsPasses
    <3>2. CASE DqsFails
      BY <2>1, <2>2, <2>3, <2>4, <3>2, EndExact DEF DqsFails
    <3> QED
      BY <1>3, <3>1, <3>2
  <2>6. CASE pc' = "dqs"
    <3>1. d' = place + 1 /\ (IF d' = 0 THEN 0 ELSE d' - 1) = place
      BY <1>3, <2>1, <2>2, <2>6 DEF DqsPasses, DqsFails
    <3> QED
      BY <2>1, <2>2, <2>5, <2>6, <3>1
  <2>7. CASE pc' # "dqs"
    <3>1. /\ DqsFails /\ pc' = "finish" /\ winBest' = winBest
          /\ winBest - 1 > OutMax - StartDqs - place
          /\ endCurr' = Illegal
      BY <1>3, <2>2, <2>7 DEF DqsPasses, DqsFails, bestVars, EndRun
    <3>2. winBest' # 0
      BY <2>3, <3>1
    <3>3. /\ bgnBest' \in -OutMax .. place /\ endBest' \in bgnBest' .. place
          /\ \A x \in -OutMax .. place : Good(x)' <=> bgnBest' <= x /\ x <= endBest'
      BY <2>5, <3>2 DEF RunExact
    <3>4. PinsTyped /\ \A x : Good(x)' <=> Good(x)
      BY <2>1 DEF PinsTyped, Good
    <3>5. endBest' # place
      BY <2>3, <2>5, <3>1, <3>2 DEF RunExact, Illegal
    <3>6. Good(endBest') /\ ~Good(place)
      BY <2>3, <3>3, <3>4, <3>5
    <3>7. ASSUME NEW x \in Int, x > place PROVE ~Good(x)
      <4>1. endBest' \in Int /\ endBest' <= place /\ place <= x
        BY <2>2, <3>3, <3>7
      <4> QED
        BY <2>2, <3>4, <3>6, <4>1, GoodConvex
    <3>8. \A x \in -OutMax .. OutMax - StartDqs :
              Good(x)' <=> bgnBest' <= x /\ x <= endBest'
      BY <2>3, <3>3, <3>4, <3>7
    <3> QED
      BY <2>3, <3>1, <3>2, <3>3, <3>8 DEF AllFound
  <2> QED
    BY <2>6, <2>7
<1>4. CASE DqsOver
  <2>1. /\ pc' = "finish"
        /\ RunExact(OutMax - StartDqs)
    <3>1. d = OutMax - StartDqs + 1 /\ RunExact(IF d = 0 THEN 0 ELSE d - 1)
      BY <1>4 DEF DqsOver
    <3>2. (IF d = 0 THEN 0 ELSE d - 1) = OutMax - StartDqs
      BY <3>1
    <3> QED
      BY <1>4, <3>1, <3>2 DEF DqsOver
  <2>2. AllFound
    BY <2>1 DEF RunExact, AllFound
  <2>3. AllFound'
    BY <1>4, <2>2 DEF DqsOver, AllFound, Good, pinVars, runVars, bestVars, memVars
  <2> QED
    BY <2>1, <2>3
<1> QED
  BY <1>1, <1>2, <1>3, <1>4 DEF SearchDm

(* The search starts at the end of DM's delay chain, without a run.        *)
LEMMA RunsBegin == CenterInv /\ EarlyExact /\ CenterDq => RunsInv'
<1> SUFFICES ASSUME CenterInv, EarlyExact, CenterDq PROVE RunsInv'
  OBVIOUS
<1>1. pc' = "dm" /\ d' = OutMax /\ UNCHANGED runVars /\ NoRun
  BY DEF CenterDq, EarlyExact
<1>2. NoRun'
  BY <1>1 DEF NoRun, runVars, currVars, bestVars
<1>3. \A x \in -OutMax .. -d' - 1 : FALSE
  BY <1>1
<1>4. RunExact(-d - 1)'
  BY <1>2, <1>3 DEF RunExact, NoRun
<1> QED
  BY <1>1, <1>4 DEF RunsInv

RunsExact == fuzz = 0 => RunsInv

LEMMA NextRuns == CenterInv /\ DqExact /\ RunsExact /\ [Next]_vars => RunsExact'
<1> SUFFICES ASSUME CenterInv, DqExact, RunsExact, [Next]_vars, fuzz = 0
             PROVE  RunsInv'
  <2>1. Next => UNCHANGED memVars
    BY DEF Next, SearchLeft, ResetEdges, SearchRight, NoWindow, CenterDq,
           SearchDm, DmPasses, DmFails, DmOver, DqsPasses, DqsFails, DqsOver,
           CenterDm
  <2>2. UNCHANGED vars => UNCHANGED memVars
    BY DEF vars
  <2>3. UNCHANGED memVars => fuzz' = fuzz
    BY DEF memVars
  <2> QED
    BY <2>1, <2>2, <2>3 DEF RunsExact
<1>1. CASE UNCHANGED vars
  BY <1>1 DEF vars, pinVars, runVars, currVars, bestVars, memVars, RunsExact,
              RunsInv, RunExact, AllFound, Good
<1>2. CASE SearchLeft \/ ResetEdges \/ SearchRight \/ NoWindow \/ CenterDm
  <2>1. pc' \in {"left", "reset", "right", "center", "done"}
    BY <1>2 DEF SearchLeft, LeftTest, ResetEdges, SearchRight, RightTest,
                StopRight, NoWindow, CenterDm
  <2> QED
    BY <2>1 DEF RunsInv
<1> QED
  BY <1>1, <1>2, RunsBegin, RunsStep DEF Next, DqExact, RunsExact

(* If every pin can be written well without a move of DQS, DM has a good   *)
(* place among its own delays, so the run begins at one of them.           *)
FoundInv ==
    pc = "done" /\ fuzz = 0 /\ Reachable /\ lo[Dm] <= OutMax /\ hi[Dm] >= 0 =>
        ret = 1

LEMMA CenterDmExact ==
    CenterInv /\ DqExact /\ RunsExact /\ CenterDm => FoundInv'
<1> SUFFICES ASSUME CenterInv, DqExact, RunsExact, CenterDm, fuzz = 0, Reachable,
                    lo[Dm] <= OutMax, hi[Dm] >= 0
             PROVE  ret' = 1
  BY DEF FoundInv, CenterDm, memVars, Reachable, WhollyVisible
<1> USE DEF CenterInv, TypeInv, TypeOK
<1>1. AllFound /\ dqCentred = 1 /\ \A b \in Bits : dq[b] \in lo[b] .. hi[b]
  BY DEF CenterDm, RunsExact, RunsInv, DqExact, CentredInv, Late
<1>2. lo[Dm] \in Int /\ hi[Dm] \in Int /\ lo[Dm] <= hi[Dm]
  BY DEF Pins, DqExact, EarlyExact, Ordered
<1>3. PICK delay \in 0 .. OutMax : lo[Dm] <= delay /\ delay <= hi[Dm]
  <2>1. CASE lo[Dm] >= 0
    BY <1>2, <2>1
  <2>2. CASE lo[Dm] < 0
    BY <1>2, <2>2
  <2> QED
    BY <1>2, <2>1, <2>2
<1>4. PICK place \in -OutMax .. 0 : place = -delay
  BY <1>3
<1>5. Good(place)
  <2>1. -place \in lo[Dm] .. hi[Dm]
    BY <1>2, <1>3, <1>4
  <2>2. \A b \in Bits : dq[b] - (IF place > 0 THEN place ELSE 0) = dq[b]
    BY <1>4
  <2> QED
    BY <1>1, <2>1, <2>2 DEF Good
<1>6. /\ winBest # 0
      /\ bgnBest \in Int /\ endBest \in Int /\ bgnBest <= endBest
      /\ bgnBest <= 0
  BY <1>1, <1>4, <1>5 DEF AllFound
<1> DEFINE half == Half(-bgnBest - endBest)
           mid == IF half < 0 THEN 0 ELSE half
<1>7. half \in Int /\ half <= -bgnBest
  BY <1>6 DEF Half
<1> HIDE DEF half
<1>8. -bgnBest - mid >= 0
  BY <1>6, <1>7
<1>9. ret' = IF dqCentred = 1 /\ DmMargin(mid) >= 0 THEN 1 ELSE 0
  BY DEF CenterDm, half
<1> QED
  BY <1>1, <1>6, <1>8, <1>9 DEF DmMargin

Exact == DqExact /\ RunsExact /\ FoundInv

LEMMA InitAllExact == Init => Exact
<1> SUFFICES ASSUME Init PROVE Exact
  OBVIOUS
<1>1. pc = "left"
  BY DEF Init
<1> QED
  BY <1>1, InitCentred DEF Exact, RunsExact, RunsInv, FoundInv

LEMMA NextAllExact == CenterInv /\ Exact /\ [Next]_vars => Exact'
<1> SUFFICES ASSUME CenterInv, Exact, [Next]_vars PROVE Exact'
  OBVIOUS
<1>1. DqExact' /\ RunsExact'
  BY NextCentred, NextRuns DEF Exact
<1>2. FoundInv'
  <2>1. CASE UNCHANGED vars
    BY <2>1 DEF vars, memVars, Exact, FoundInv, Reachable, WhollyVisible
  <2>2. CASE SearchLeft \/ ResetEdges \/ SearchRight \/ CenterDq \/ SearchDm
    <3>1. pc' # "done"
      BY <2>2 DEF SearchLeft, LeftTest, ResetEdges, SearchRight, RightTest,
                  StopRight, CenterDq, SearchDm, DmPasses, DmFails, DmOver,
                  DqsPasses, DqsFails, DqsOver
    <3> QED
      BY <3>1 DEF FoundInv
  <2>3. CASE NoWindow
    <3>1. dqCentred' = 0 /\ pc' = "done"
      BY <2>3 DEF NoWindow, CenterInv, EarlyInv
    <3> QED
      BY <1>1, <3>1 DEF FoundInv, DqExact, CentredInv, Late
  <2>4. CASE CenterDm
    BY <2>4, CenterDmExact DEF Exact
  <2> QED
    BY <2>1, <2>2, <2>3, <2>4 DEF Next
<1> QED
  BY <1>1, <1>2 DEF Exact

(* Wherever the places at which the masked group is written well begin and *)
(* end, the run that the search ends with is all of them.                  *)
THEOREM FindsWidestRun == Spec => []WidestRun
<1>1. Exact => WidestRun
  <2> SUFFICES ASSUME Exact, pc = "finish", fuzz = 0
               PROVE  IF GoodPlaces = {} THEN winBest = 0
                      ELSE bgnBest .. endBest = GoodPlaces
    BY DEF WidestRun
  <2>1. AllFound /\ GoodPlaces = {x \in -OutMax .. OutMax - StartDqs : Good(x)}
    BY DEF Exact, RunsExact, RunsInv, GoodPlaces, Good
  <2>2. CASE winBest = 0
    BY <2>1, <2>2 DEF AllFound
  <2>3. CASE winBest # 0
    <3>1. /\ bgnBest \in -OutMax .. OutMax - StartDqs
          /\ endBest \in bgnBest .. OutMax - StartDqs
          /\ \A x \in -OutMax .. OutMax - StartDqs :
                Good(x) <=> bgnBest <= x /\ x <= endBest
      BY <2>1, <2>3 DEF AllFound
    <3>2. bgnBest \in GoodPlaces
      BY <2>1, <3>1
    <3>3. \A x : x \in bgnBest .. endBest <=> x \in GoodPlaces
      BY <2>1, <3>1
    <3> QED
      BY <3>2, <3>3
  <2> QED
    BY <2>2, <2>3
<1> QED
  BY InitInv, NextInv, InitAllExact, NextAllExact, <1>1, PTL DEF Spec

(* The centring of a reliable memory succeeds whenever every pin is written*)
(* well at some delay it can have without a move of DQS.                   *)
THEOREM SucceedsIfReachable == Spec => []FindsDelays
<1>1. Exact => FindsDelays
  BY DEF Exact, FoundInv, FindsDelays, Reachable, Pins
<1> QED
  BY InitInv, NextInv, InitAllExact, NextAllExact, <1>1, PTL DEF Spec
=============================================================================
