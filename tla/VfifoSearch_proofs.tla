------------------------- MODULE VfifoSearch_proofs -------------------------
(***************************************************************************)
(* Proofs about VfifoSearch, for every size of the VFIFO, every number and *)
(* length of phases and delay taps, and every window.                      *)
(***************************************************************************)
EXTENDS VfifoSearch, TLAPS

USE SearchAssumption, WindowAssumption

-----------------------------------------------------------------------------
(* Arithmetic.                                                             *)

LEMMA Remainder ==
    ASSUME NEW n \in Int, NEW m \in Nat \ {0}
    PROVE  /\ n % m \in 0 .. m - 1
           /\ n \div m \in Int
           /\ n % m = n - m * (n \div m)
OBVIOUS

LEMMA Cancel ==
    ASSUME NEW a \in Int, NEW b \in Int, NEW c \in Nat \ {0}, c * a < c * b
    PROVE  a < b
OBVIOUS

(* A division rounded up.                                                  *)
LEMMA CeilDivBounds ==
    ASSUME NEW a \in Nat, NEW b \in Nat \ {0}
    PROVE  /\ CeilDiv(a, b) \in Nat
           /\ b * CeilDiv(a, b) >= a
           /\ b * CeilDiv(a, b) < a + b
<1> DEFINE n == a + b - 1
<1>1. n \in Nat
  OBVIOUS
<1> DEFINE q == n \div b
<1>2. q \in Int /\ n % b \in 0 .. b - 1 /\ n % b = n - b * q
  BY <1>1, Remainder
<1>3. q >= 0
  BY <1>1, <1>2
<1>4. CeilDiv(a, b) = q
  BY DEF CeilDiv
<1> QED
  BY <1>2, <1>3, <1>4

(* A cycle is a whole number of phases.                                    *)
LEMMA CycleTyped ==
    /\ Cycle \in Nat \ {0} /\ Total \in Nat \ {0}
    /\ Cycle = PhaseMax * OpaTap + OpaTap
<1>1. Cycle \in Nat \ {0} /\ Cycle = PhaseMax * OpaTap + OpaTap
  BY DEF Cycle
<1> QED
  BY <1>1 DEF Total

(* A little more than a phase fits into the delay chain.                   *)
LEMMA DtapsFit ==
    ASSUME NEW r \in 0 .. OpaTap
    PROVE  CeilDiv(r, DchainTap) \in 0 .. DelayMax
<1>1. CeilDiv(r, DchainTap) \in Nat
      /\ DchainTap * CeilDiv(r, DchainTap) < r + DchainTap
  BY CeilDivBounds
<1>2. DchainTap * CeilDiv(r, DchainTap) < DchainTap * DelayMax
  BY <1>1
<1> QED
  BY <1>1, <1>2, Cancel

LEMMA NominalTyped == NominalDtaps \in 0 .. DelayMax
<1>1. /\ CeilDiv(OpaTap, DchainTap) \in 0 .. DelayMax
      /\ DchainTap * CeilDiv(OpaTap, DchainTap) >= OpaTap
  BY DtapsFit, CeilDivBounds
<1>2. CeilDiv(OpaTap, DchainTap) # 0
  BY <1>1
<1> QED
  BY <1>1, <1>2 DEF NominalDtaps

LEMMA VfifoTyped ==
    ASSUME NEW vv \in 0 .. VfifoSize - 1
    PROVE  /\ IncrVfifo(vv) \in 0 .. VfifoSize - 1
           /\ DecrVfifo(vv) \in 0 .. VfifoSize - 1
<1>1. vv + 1 \in Int /\ vv + VfifoSize - 1 \in Int
  OBVIOUS
<1> QED
  BY <1>1, Remainder DEF IncrVfifo, DecrVfifo

-----------------------------------------------------------------------------
(* What the loops have established where they are: no time that is counted *)
(* is before the first phase, and the first try of a search is one.        *)
PlaceInv ==
    /\ pc = "start" => pushed = 0 /\ failCnt = 0
    /\ pc = "push" => pushed < VfifoSize /\ failCnt < 2
    /\ pc \in {"start", "push"} => i = 0 /\ d = 0
    /\ pc = "begin" =>
          /\ p \in 1 .. PhaseMax /\ i < VfifoSize /\ d <= dtapsPerPtap
          /\ workBgn >= OpaTap /\ (p > 1 => workBgn >= 2 * OpaTap)
    /\ pc = "backoff" =>
          /\ p \in 1 .. PhaseMax /\ i < VfifoSize
          /\ workBgn >= OpaTap /\ workEnd >= OpaTap /\ tmpDelay >= OpaTap
    /\ pc = "end" =>
          /\ p <= PhaseMax /\ i <= VfifoSize
          /\ workBgn >= OpaTap /\ workEnd >= 2 * OpaTap
          /\ j = 1 => workEnd >= 3 * OpaTap
    /\ pc = "edge" =>
          p \in 1 .. PhaseMax /\ workBgn >= OpaTap /\ workEnd >= OpaTap
    /\ pc \in {"passing", "failing"} =>
          /\ workBgn >= OpaTap /\ workEnd >= workBgn
          /\ d >= initialFailingDtap
    /\ pc = "settle" => i < VfifoSize

SearchInv == TypeOK /\ PlaceInv

LEMMA InitSearch == Init => SearchInv
<1> SUFFICES ASSUME Init PROVE SearchInv
  OBVIOUS
<1>1. TypeOK
  BY DEF Init, TypeOK, Locations
<1> QED
  BY <1>1 DEF SearchInv, PlaceInv, Init

(* The VFIFO is pushed.                                                    *)
LEMMA PushStep == SearchInv /\ (Start \/ PushPasses \/ PushFails) => SearchInv'
<1> SUFFICES ASSUME SearchInv, Start \/ PushPasses \/ PushFails PROVE SearchInv'
  OBVIOUS
<1> USE DEF SearchInv, TypeOK, PlaceInv, Locations, loopVars, workVars,
            trackVars, pushVars, Return
<1>1. CASE Start
  BY <1>1, NominalTyped DEF Start
<1>2. IncrVfifo(v) \in 0 .. VfifoSize - 1
  BY VfifoTyped
<1>3. CASE PushPasses
  BY <1>2, <1>3 DEF PushPasses, PushVfifo
<1>4. CASE PushFails
  BY <1>2, <1>4 DEF PushFails, PushVfifo
<1> QED
  BY <1>1, <1>3, <1>4

(* The beginning is searched.                                              *)
LEMMA BeginStep ==
    SearchInv /\ (BeginFails \/ BeginFound \/ BeginFoundNarrow) => SearchInv'
<1> SUFFICES ASSUME SearchInv, BeginFails \/ BeginFound \/ BeginFoundNarrow
             PROVE  SearchInv'
  OBVIOUS
<1> USE DEF SearchInv, TypeOK, PlaceInv, Locations, loopVars, workVars,
            trackVars, pushVars, Return
<1>1. IncrVfifo(v) \in 0 .. VfifoSize - 1
  BY VfifoTyped
<1>2. CASE BeginFails
  <2>1. phase' \in 1 .. PhaseMax /\ delay' \in 0 .. DelayMax
    BY <1>2 DEF BeginFails
  <2>2. CASE p < PhaseMax
    BY <1>2, <2>1, <2>2 DEF BeginFails, NextBeginPhase
  <2>3. CASE p = PhaseMax /\ i < VfifoSize - 1
    BY <1>1, <1>2, <2>1, <2>3 DEF BeginFails, NextBeginPhase
  <2>4. CASE p = PhaseMax /\ i = VfifoSize - 1 /\ d < dtapsPerPtap
    BY <1>1, <1>2, <2>1, <2>4 DEF BeginFails, NextBeginPhase
  <2>5. CASE p = PhaseMax /\ i = VfifoSize - 1 /\ d = dtapsPerPtap
    BY <1>1, <1>2, <2>1, <2>5 DEF BeginFails, NextBeginPhase
  <2> QED
    BY <1>2, <2>2, <2>3, <2>4, <2>5 DEF BeginFails
<1>3. CASE BeginFound
  BY <1>3 DEF BeginFound
<1>4. CASE BeginFoundNarrow
  BY <1>4 DEF BeginFoundNarrow
<1> QED
  BY <1>2, <1>3, <1>4

(* Back by less than a phase, and forward again.                           *)
LEMMA BackoffStep ==
    SearchInv /\ (BackoffFails \/ BackoffPasses \/ BackoffOver) => SearchInv'
<1> SUFFICES ASSUME SearchInv, BackoffFails \/ BackoffPasses \/ BackoffOver
             PROVE  SearchInv'
  OBVIOUS
<1> USE DEF SearchInv, TypeOK, PlaceInv, Locations, loopVars, workVars,
            trackVars, pushVars
<1>1. IncrVfifo(v) \in 0 .. VfifoSize - 1
  BY VfifoTyped
<1>2. (p + 2) % (PhaseMax + 1) \in 0 .. PhaseMax
  <2>1. p + 2 \in Int /\ PhaseMax + 1 \in Nat \ {0}
    OBVIOUS
  <2> QED
    BY <2>1, Remainder
<1>3. CASE BackoffFails
  BY <1>3 DEF BackoffFails
<1>4. CASE BackoffPasses
  BY <1>1, <1>2, <1>4 DEF BackoffPasses, ForwardToEnd
<1>5. CASE BackoffOver
  BY <1>1, <1>2, <1>5 DEF BackoffOver, ForwardToEnd
<1> QED
  BY <1>3, <1>4, <1>5

(* The end is searched, in phases; then one or two phases back.            *)
LEMMA EndStep ==
    SearchInv /\ (EndSkipsPhaseZero \/ EndPasses \/ EndFuzzy \/ EndFound)
        => SearchInv'
<1> SUFFICES ASSUME SearchInv,
                    EndSkipsPhaseZero \/ EndPasses \/ EndFuzzy \/ EndFound
             PROVE  SearchInv'
  OBVIOUS
<1> USE DEF SearchInv, TypeOK, PlaceInv, Locations, loopVars, workVars,
            trackVars, pushVars, Return
<1>1. /\ IncrVfifo(v) \in 0 .. VfifoSize - 1
      /\ DecrVfifo(v) \in 0 .. VfifoSize - 1
  BY VfifoTyped
<1>2. CASE EndSkipsPhaseZero
  BY <1>1, <1>2 DEF EndSkipsPhaseZero, NextEndPhase
<1>3. CASE EndPasses
  BY <1>1, <1>3 DEF EndPasses, NextEndPhase
<1>4. CASE EndFuzzy
  BY <1>1, <1>4 DEF EndFuzzy, NextEndPhase
<1>5. CASE EndFound
  BY <1>1, <1>5 DEF EndFound
<1> QED
  BY <1>2, <1>3, <1>4, <1>5

(* The end is searched, in delay taps.                                     *)
LEMMA EdgeStep ==
    SearchInv /\ (EdgePasses \/ EdgeFails \/ EdgeOver) => SearchInv'
<1> SUFFICES ASSUME SearchInv, EdgePasses \/ EdgeFails \/ EdgeOver
             PROVE  SearchInv'
  OBVIOUS
<1> USE DEF SearchInv, TypeOK, PlaceInv, Locations, loopVars, workVars,
            trackVars, pushVars, Return
<1>1. DecrVfifo(v) \in 0 .. VfifoSize - 1
  BY VfifoTyped
<1>2. CASE EdgePasses
  BY <1>2 DEF EdgePasses
<1>3. CASE EdgeFails
  BY <1>1, <1>3 DEF EdgeFails, EdgeDone
<1>4. CASE EdgeOver
  BY <1>1, <1>4 DEF EdgeOver, EdgeDone
<1> QED
  BY <1>2, <1>3, <1>4

(* The centre is a setting of the hardware.                                *)
LEMMA CentreTyped ==
    ASSUME NEW mid \in Nat \ {0}
    PROVE  LET inCycle == IF mid > Cycle THEN ((mid - 1) % Cycle) + 1 ELSE mid
               phases == CeilDiv(inCycle, OpaTap)
               dtaps  == CeilDiv(inCycle - (phases - 1) * OpaTap, DchainTap)
           IN  phases \in 1 .. PhaseMax + 1 /\ dtaps \in 0 .. DelayMax
<1> DEFINE inCycle == IF mid > Cycle THEN ((mid - 1) % Cycle) + 1 ELSE mid
           phases == CeilDiv(inCycle, OpaTap)
           rest == inCycle - (phases - 1) * OpaTap
<1>1. inCycle \in 1 .. Cycle
  <2>1. mid - 1 \in Int /\ Cycle \in Nat \ {0}
    BY CycleTyped
  <2>2. (mid - 1) % Cycle \in 0 .. Cycle - 1
    BY <2>1, Remainder
  <2> QED
    BY <2>1, <2>2
<1> HIDE DEF inCycle
<1>2. /\ phases \in Nat /\ OpaTap * phases >= inCycle
      /\ OpaTap * phases < inCycle + OpaTap
  BY <1>1, CycleTyped, CeilDivBounds
<1> HIDE DEF phases
<1>3. phases # 0
  BY <1>1, <1>2, CycleTyped
<1>4. phases < PhaseMax + 2
  <2>1. OpaTap * phases < OpaTap * (PhaseMax + 2)
    BY <1>1, <1>2, CycleTyped
  <2> QED
    BY <1>2, <2>1, Cancel
<1>5. rest \in 0 .. OpaTap
  BY <1>1, <1>2, CycleTyped
<1>6. CeilDiv(rest, DchainTap) \in 0 .. DelayMax
  BY <1>5, DtapsFit
<1> QED
  BY <1>2, <1>3, <1>4, <1>6 DEF inCycle, phases

LEMMA MeasureStep == SearchInv /\ Measure => SearchInv'
<1> SUFFICES ASSUME SearchInv, Measure PROVE SearchInv'
  OBVIOUS
<1> USE DEF SearchInv, TypeOK, PlaceInv, Locations, loopVars, workVars,
            trackVars, pushVars
<1>1. SetCentre => /\ phase' \in 1 .. PhaseMax /\ delay' \in 0 .. DelayMax
                   /\ p' \in 0 .. PhaseMax + 1 /\ d' \in 0 .. DelayMax + 1
                   /\ pc' = "settle" /\ i' = 0
  <2> DEFINE mid == (workBgn + workEnd) \div 2
  <2>1. mid \in Nat \ {0}
    BY DEF Measure, StillFailing, FoundPassing, StillPassing, FoundFailing,
           NotMeasured
  <2> HIDE DEF mid
  <2> DEFINE inCycle == IF mid > Cycle THEN ((mid - 1) % Cycle) + 1 ELSE mid
             phases == CeilDiv(inCycle, OpaTap)
             dtaps  == CeilDiv(inCycle - (phases - 1) * OpaTap, DchainTap)
  <2>2. phases \in 1 .. PhaseMax + 1 /\ dtaps \in 0 .. DelayMax
    BY <2>1, CentreTyped
  <2>3. SetCentre => /\ phase' = IF phases = 1 THEN 1 ELSE phases - 1
                     /\ delay' = IF phases = 1 THEN 0 ELSE dtaps
                     /\ p' = phase' + 1 /\ d' = delay'
                     /\ pc' = "settle" /\ i' = 0
    BY DEF SetCentre, mid
  <2> HIDE DEF phases, dtaps
  <2> QED
    BY <2>2, <2>3
<1>2. CASE StillFailing
  BY <1>2 DEF StillFailing
<1>3. CASE FoundPassing
  BY <1>3 DEF FoundPassing
<1>4. CASE StillPassing
  BY <1>4 DEF StillPassing
<1>5. CASE FoundFailing
  BY <1>1, <1>5 DEF FoundFailing
<1>6. CASE NotMeasured
  BY <1>1, <1>6 DEF NotMeasured
<1> QED
  BY <1>2, <1>3, <1>4, <1>5, <1>6 DEF Measure

LEMMA SettleStep == SearchInv /\ (SettlePasses \/ SettleFails) => SearchInv'
<1> SUFFICES ASSUME SearchInv, SettlePasses \/ SettleFails PROVE SearchInv'
  OBVIOUS
<1> USE DEF SearchInv, TypeOK, PlaceInv, Locations, loopVars, workVars,
            trackVars, pushVars, hwVars, Return
<1>1. IncrVfifo(v) \in 0 .. VfifoSize - 1
  BY VfifoTyped
<1>2. CASE SettlePasses
  BY <1>2 DEF SettlePasses
<1>3. CASE SettleFails
  BY <1>1, <1>3 DEF SettleFails
<1> QED
  BY <1>2, <1>3

LEMMA NextSearch == SearchInv /\ [Next]_vars => SearchInv'
<1>1. CASE UNCHANGED vars
  BY <1>1 DEF vars, hwVars, loopVars, workVars, trackVars, pushVars, SearchInv,
              TypeOK, PlaceInv
<1> QED
  BY <1>1, PushStep, BeginStep, BackoffStep, EndStep, EdgeStep, MeasureStep,
     SettleStep DEF Next, FindBegin, FindEnd

(* No setting leaves the range of its register, no time becomes negative,  *)
(* and the hard PHY is never set to its phase 0, however the reads go.     *)
THEOREM TypeCorrect == Spec => []TypeOK
<1>1. SearchInv => TypeOK
  BY DEF SearchInv
<1> QED
  BY InitSearch, NextSearch, <1>1, PTL DEF Spec

-----------------------------------------------------------------------------
(* Times, from the cycle where the search begins.                          *)

LEMMA Unique ==
    ASSUME NEW n \in Int, NEW m \in Nat \ {0}, NEW q \in Int, NEW r \in 0 .. m - 1,
           n = m * q + r
    PROVE  n % m = r
OBVIOUS

LEMMA ModShift ==
    ASSUME NEW n \in Int, NEW m \in Nat \ {0}, NEW q \in Int
    PROVE  (n + m * q) % m = n % m
<1> DEFINE k == n \div m
           r == n % m
<1>1. k \in Int /\ r \in 0 .. m - 1 /\ r = n - m * k
  BY Remainder
<1> HIDE DEF k, r
<1>2. n + m * q = m * (k + q) + r
  BY <1>1
<1>3. n + m * q \in Int /\ k + q \in Int
  BY <1>1
<1>4. (n + m * q) % m = r
  BY <1>1, <1>2, <1>3, Unique
<1> QED
  BY <1>4 DEF r

LEMMA ModMinus ==
    ASSUME NEW a \in Int, NEW b \in Int, NEW m \in Nat \ {0}
    PROVE  ((a % m) - b) % m = (a - b) % m
<1> DEFINE k == a \div m
           r == a % m
<1>1. k \in Int /\ r \in 0 .. m - 1 /\ r = a - m * k
  BY Remainder
<1> HIDE DEF k, r
<1>2. a - b = (r - b) + m * k /\ r - b \in Int
  BY <1>1
<1>3. ((r - b) + m * k) % m = (r - b) % m
  BY <1>1, <1>2, ModShift
<1> QED
  BY <1>2, <1>3 DEF r

(* What is known of the memory and of the beginning of the search.         *)
Known == window \in Windows /\ origin \in 0 .. VfifoSize - 1 /\ UsualWindow

LEMMA KnownTyped ==
    ASSUME Known
    PROVE  /\ window.bgn \in Int /\ window.fuzz = 0
           /\ window.len \in 4 * OpaTap .. 2 * Cycle - 3 * OpaTap - 1
           /\ window.len <= Total - 2 * Cycle - 1
           /\ origin * Cycle \in Int
  BY CycleTyped DEF Known, Windows, UsualWindow

(* The window as it is met by a search that begins outside it.             *)
First == OpaTap + ((window.bgn - origin * Cycle - OpaTap) % Total)
Last == First + window.len
In(x) == First <= x /\ x <= Last

(* Reads fail where the search begins.                                     *)
Placed == OpaTap < First /\ Last < OpaTap + Total

LEMMA FirstTyped ==
    ASSUME Known
    PROVE  /\ First \in Int /\ Last \in Int /\ Last = First + window.len
           /\ \E q \in Int : First = window.bgn - origin * Cycle - Total * q
<1> DEFINE n == window.bgn - origin * Cycle - OpaTap
           q == n \div Total
           r == n % Total
<1>1. n \in Int
  BY KnownTyped
<1>2. First = OpaTap + r
  BY DEF First
<1> HIDE DEF n
<1>3. r \in Int /\ q \in Int /\ r = n - Total * q
  BY <1>1, CycleTyped, Remainder
<1> HIDE DEF q, r
<1>4. Total * q \in Int
  BY <1>3, CycleTyped
<1>5. n = window.bgn - origin * Cycle - OpaTap
  BY DEF n
<1>6. First = window.bgn - origin * Cycle - Total * q
  BY <1>2, <1>3, <1>4, <1>5, KnownTyped
<1> QED
  BY <1>2, <1>3, <1>6, KnownTyped DEF Last

(* How long after the window opens a time of the search is.                *)
LEMMA AfterOf ==
    ASSUME Known, NEW x \in Int
    PROVE  After(TimeOf(x)) = (x - First) % Total
<1>1. PICK q \in Int : First = window.bgn - origin * Cycle - Total * q
  BY FirstTyped
<1> DEFINE a == origin * Cycle + x
<1>2. a \in Int /\ window.bgn \in Int /\ Total * q \in Int /\ First \in Int
  BY KnownTyped, CycleTyped, FirstTyped
<1>3. After(TimeOf(x)) = (a - window.bgn) % Total
  <2>1. ((a % Total) - window.bgn) % Total = (a - window.bgn) % Total
    BY <1>2, CycleTyped, ModMinus
  <2> QED
    BY <2>1 DEF After, TimeOf
<1>4. x - First = (a - window.bgn) + Total * q
  <2>1. origin * Cycle \in Int
    BY KnownTyped
  <2> QED
    BY <1>1, <1>2, <2>1
<1>5. a - window.bgn \in Int
  BY <1>2
<1>6. ((a - window.bgn) + Total * q) % Total = (a - window.bgn) % Total
  BY <1>5, CycleTyped, ModShift
<1> QED
  BY <1>3, <1>4, <1>6

(* The same in the window, and before it and after it.                     *)
LEMMA AfterInside ==
    ASSUME Known, NEW x \in Int, First <= x, x < First + Total
    PROVE  After(TimeOf(x)) = x - First
<1>1. x - First \in 0 .. Total - 1 /\ x - First = Total * 0 + (x - First)
  BY FirstTyped, CycleTyped
<1>2. (x - First) % Total = x - First
  BY <1>1, CycleTyped, Unique
<1> QED
  BY <1>2, AfterOf

LEMMA ReadsInside ==
    ASSUME Known, NEW x \in Int, Last - Total < x, x < First + Total
    PROVE  After(TimeOf(x)) <= window.len <=> In(x)
<1>1. CASE First <= x
  BY <1>1, AfterInside, FirstTyped, KnownTyped DEF In
<1>2. CASE x < First
  <2>1. x - First + Total \in 0 .. Total - 1
        /\ x - First = Total * (-1) + (x - First + Total)
    BY <1>2, FirstTyped, CycleTyped, KnownTyped
  <2>2. (x - First) % Total = x - First + Total
    BY <2>1, FirstTyped, CycleTyped, Unique
  <2>3. After(TimeOf(x)) = x - First + Total
    BY <2>2, AfterOf
  <2> QED
    BY <1>2, <2>3, FirstTyped, CycleTyped, KnownTyped DEF In
<1> QED
  BY <1>1, <1>2, FirstTyped

(* The setting vv of the VFIFO is as good as the time c of a search that   *)
(* begins with another one.                                                *)
At(from, vv, c) ==
    \E k \in Int : vv * Cycle = from * Cycle + c + Total * k

(* The time of a phase and a delay tap after c.                            *)
Taps(c, pp, dd) == c + pp * OpaTap + dd * DchainTap

Meets(vv, pp, dd, c) == Time(vv, pp, dd) = TimeOf(Taps(c, pp, dd))

LEMMA AtTime ==
    ASSUME Known, NEW vv \in Int, NEW c \in Int, At(origin, vv, c),
           NEW pp \in Int, NEW dd \in Int
    PROVE  Meets(vv, pp, dd, c)
<1> DEFINE x == Taps(c, pp, dd)
<1>1. PICK k \in Int : vv * Cycle = origin * Cycle + c + Total * k
  BY DEF At
<1>2. /\ vv * Cycle \in Int /\ origin * Cycle \in Int /\ Total * k \in Int
      /\ pp * OpaTap \in Int /\ dd * DchainTap \in Int
  BY CycleTyped, KnownTyped
<1>3. vv * Cycle + pp * OpaTap + dd * DchainTap
          = (origin * Cycle + x) + Total * k
  BY <1>1, <1>2 DEF Taps
<1>4. origin * Cycle + x \in Int
  BY <1>2 DEF Taps
<1> HIDE DEF x
<1>5. ((origin * Cycle + x) + Total * k) % Total = (origin * Cycle + x) % Total
  BY <1>4, CycleTyped, ModShift
<1> QED
  BY <1>3, <1>5 DEF Time, TimeOf, x, Meets

LEMMA AtOrigin == ASSUME Known PROVE At(origin, origin, 0)
<1>1. origin * Cycle = origin * Cycle + 0 + Total * 0
  BY KnownTyped, CycleTyped
<1> QED
  BY <1>1 DEF At

(* A push of the VFIFO is a cycle.                                         *)
LEMMA AtVfifo ==
    ASSUME Known, NEW n \in Int, NEW c \in Int, At(origin, n, c)
    PROVE  At(origin, n % VfifoSize, c)
<1> DEFINE q == n \div VfifoSize
           r == n % VfifoSize
<1>1. q \in Int /\ r \in Int /\ r = n - VfifoSize * q
  BY Remainder
<1> HIDE DEF q, r
<1>2. PICK k \in Int : n * Cycle = origin * Cycle + c + Total * k
  BY DEF At
<1>3. r * Cycle = n * Cycle - Total * q
  BY <1>1, CycleTyped DEF Total
<1>4. r * Cycle = origin * Cycle + c + Total * (k - q)
  BY <1>1, <1>2, <1>3, CycleTyped, KnownTyped
<1>5. k - q \in Int
  BY <1>1
<1> QED
  BY <1>4, <1>5 DEF At, r

LEMMA AtShift ==
    ASSUME Known, NEW n \in Int, NEW c \in Int, At(origin, n, c), NEW m \in Int
    PROVE  At(origin, n + m, c + m * Cycle)
<1>1. PICK k \in Int : n * Cycle = origin * Cycle + c + Total * k
  BY DEF At
<1>2. (n + m) * Cycle = origin * Cycle + (c + m * Cycle) + Total * k
  BY <1>1, KnownTyped, CycleTyped
<1> QED
  BY <1>2 DEF At

LEMMA AtPushed ==
    ASSUME Known, NEW n \in Int, NEW c \in Int, At(origin, n, c)
    PROVE  At(origin, IncrVfifo(n), c + Cycle) /\ At(origin, DecrVfifo(n), c - Cycle)
<1>1. At(origin, n + 1, c + Cycle) /\ At(origin, n + -1, c + -1 * Cycle)
  BY AtShift, CycleTyped
<1>2. n + -1 = n - 1 /\ c + -1 * Cycle = c - Cycle
  BY CycleTyped
<1>3. At(origin, n - 1, c - Cycle)
  BY <1>1, <1>2
<1>4. At(origin, n + VfifoSize - 1, c - Cycle)
  <2>1. PICK k \in Int : (n - 1) * Cycle = origin * Cycle + (c - Cycle) + Total * k
    BY <1>3 DEF At
  <2>2. Total = VfifoSize * Cycle
    BY DEF Total
  <2>3. (n + VfifoSize - 1) * Cycle = origin * Cycle + (c - Cycle) + Total * (k + 1)
    BY <2>1, <2>2, CycleTyped, KnownTyped
  <2> QED
    BY <2>3 DEF At
<1>5. n + 1 \in Int /\ n + VfifoSize - 1 \in Int /\ c + Cycle \in Int
      /\ c - Cycle \in Int
  BY CycleTyped
<1> QED
  BY <1>1, <1>4, <1>5, AtVfifo DEF IncrVfifo, DecrVfifo

(* Of a reliable window, a read tells whether the time is in it.           *)
LEMMA TestExact ==
    ASSUME Known, NEW t \in Int
    PROVE  /\ MayPass(t) <=> After(t) <= window.len
           /\ MayFail(t) <=> After(t) > window.len
<1>1. /\ t - window.bgn + window.fuzz = t - window.bgn
      /\ t - window.bgn - window.fuzz = t - window.bgn
      /\ window.len + 2 * window.fuzz = window.len
      /\ window.len - 2 * window.fuzz = window.len
  BY KnownTyped
<1> QED
  BY <1>1 DEF MayPass, MayFail, After

LEMMA Tested ==
    ASSUME Known, NEW vv \in Int, NEW c \in Int, At(origin, vv, c),
           NEW pp \in Int, NEW dd \in Int, NEW x \in Int,
           x = c + pp * OpaTap + dd * DchainTap,
           Last - Total < x, x < First + Total
    PROVE  /\ MayPass(Time(vv, pp, dd)) => In(x)
           /\ MayFail(Time(vv, pp, dd)) => ~In(x)
<1>1. Time(vv, pp, dd) = TimeOf(x)
  <2>1. Meets(vv, pp, dd, c)
    BY AtTime
  <2>2. Taps(c, pp, dd) = x
    BY DEF Taps
  <2> QED
    BY <2>1, <2>2 DEF Meets
<1>2. TimeOf(x) \in Int
  <2>1. origin * Cycle + x \in Int
    BY KnownTyped
  <2> QED
    BY <2>1, CycleTyped, Remainder DEF TimeOf
<1>3. After(TimeOf(x)) <= window.len <=> In(x)
  BY ReadsInside
<1>4. After(TimeOf(x)) \in Int
  <2>1. x - First \in Int
    BY FirstTyped
  <2> QED
    BY <2>1, AfterOf, CycleTyped, Remainder
<1> QED
  BY <1>1, <1>2, <1>3, <1>4, TestExact, KnownTyped

-----------------------------------------------------------------------------
(* The search for a usual window, step by step.                            *)

(* A setting of the VFIFO with which step 1 sees a failing read.           *)
Fails(vv) == After(Time(vv, 1, 0)) > window.len

(* At most one has been seen so far.                                       *)
PushExact ==
    /\ v = pushed /\ phase = 1 /\ delay = 0
    /\ \E f \in Int :
          \A vv \in 0 .. pushed - 1 : Fails(vv) => failCnt = 1 /\ vv = f

(* The phases tried so far are before the window.                          *)
BeginExact ==
    /\ d = 0 /\ workBgn = i * Cycle + p * OpaTap /\ At(origin, v, i * Cycle)
    /\ First > workBgn - (IF p = 1 THEN 2 * OpaTap ELSE OpaTap)

(* The phase found is in it, and the taps before it tried so far are not.  *)
BackoffExact ==
    /\ In(workBgn) /\ workEnd = workBgn /\ At(origin, v, i * Cycle) /\ phase = p
    /\ \/ /\ p = 1 /\ d = 0 /\ tmpDelay = workBgn
          /\ workBgn = i * Cycle + OpaTap /\ First > workBgn - 2 * OpaTap
       \/ /\ p < PhaseMax /\ workBgn = i * Cycle + (p + 1) * OpaTap
          /\ tmpDelay = workBgn - OpaTap + d * DchainTap
          /\ First > tmpDelay - DchainTap /\ First > workBgn - OpaTap

(* What was found: the first tap of the window.  If it was phase 1, the    *)
(* search does not go back; then it takes two phases forward for one, and  *)
(* times are a phase later than it counts.                                 *)
BgnExact(slack) ==
    /\ In(workBgn)
    /\ IF slack = 0 THEN workBgn < First + DchainTap
       ELSE /\ slack = OpaTap /\ workBgn < First + 2 * OpaTap
            /\ \E k \in Int : workBgn = k * Cycle + OpaTap

(* The last phase tried is in the window.                                  *)
LastPhase == IF p = 1 THEN 2 * OpaTap ELSE OpaTap

EndExact ==
    \E slack \in {0, OpaTap} :
        /\ BgnExact(slack)
        /\ delay = 0 /\ At(origin, v, workEnd + slack - p * OpaTap)
        /\ workEnd + slack >= i * Cycle + p * OpaTap
        /\ In(workEnd + slack - LastPhase) /\ workEnd - LastPhase >= workBgn
        /\ j = 0 => p = 0 \/ In(workEnd + slack)

(* So is the last tap tried.                                               *)
LastTap == IF d = 0 THEN 0 ELSE DchainTap

EdgeExact ==
    \E slack \in {0, OpaTap} :
        /\ BgnExact(slack)
        /\ phase = p
        /\ At(origin, v, workEnd + slack - d * DchainTap - p * OpaTap)
        /\ In(workEnd + slack - LastTap) /\ workEnd - d * DchainTap >= workBgn
        /\ Last < workEnd + slack - d * DchainTap + 2 * OpaTap

(* The range is the window, to within a tap at its ends.                   *)
RangeExact ==
    \E slack \in {0, OpaTap} :
        /\ BgnExact(slack)
        /\ workBgn <= workEnd
        /\ Last - DchainTap < workEnd + slack /\ workEnd + slack <= Last

Middle(x) ==
    /\ 2 * x - First - Last <= 2 * OpaTap + DchainTap
    /\ 2 * x - First - Last >= -(2 * OpaTap + DchainTap)

(* How often the VFIFO must be pushed to be at vv.                         *)
Pushes(vv) == IF vv >= v THEN vv - v ELSE vv - v + VfifoSize

(* The phase and delay are those of the middle, in some cycle, and the     *)
(* VFIFO has not been pushed past it.                                      *)
SettleExact ==
    \E x \in Int, m \in Int, vv \in 0 .. VfifoSize - 1 :
        /\ Middle(x) /\ x = m * Cycle + phase * OpaTap + delay * DchainTap
        /\ At(origin, vv, m * Cycle)
        /\ Pushes(vv) < VfifoSize - i

DoneExact ==
    ret = 1 /\ Middle(First + After(Time(v, phase, delay)))

StageExact ==
    /\ pc = "start" => v = 0
    /\ pc = "push" => PushExact
    /\ pc \notin {"start", "push", "done"} => Placed
    /\ pc = "begin" => BeginExact
    /\ pc = "backoff" => BackoffExact
    /\ pc = "end" => EndExact
    /\ pc = "edge" => EdgeExact
    /\ pc \in {"passing", "failing"} => RangeExact
    /\ pc = "settle" => SettleExact
    /\ pc = "done" => DoneExact

SearchExact == UsualWindow => StageExact

(* The window and where the search began stay.                             *)
LEMMA FirstStays ==
    ASSUME UNCHANGED <<window, origin>>
    PROVE  First' = First /\ Last' = Last /\ (UsualWindow' <=> UsualWindow)
  BY DEF First, Last, UsualWindow

(* What an action needs to know.                                           *)
Here == SearchInv /\ UsualWindow /\ StageExact

LEMMA HereKnown == ASSUME Here PROVE Known
  BY DEF Here, SearchInv, TypeOK, Known

(* The order of the times that matter.                                     *)
LEMMA Wide ==
    ASSUME Known
    PROVE  /\ First \in Int /\ Last \in Int
           /\ First + 4 * OpaTap <= Last
           /\ Last <= First + 2 * Cycle - 3 * OpaTap - 1
           /\ Last <= First + Total - 2 * Cycle - 1
           /\ Cycle >= 4 * OpaTap /\ PhaseMax >= 3
<1>1. /\ First \in Int /\ Last \in Int
      /\ First + 4 * OpaTap <= Last
      /\ Last <= First + 2 * Cycle - 3 * OpaTap - 1
      /\ Last <= First + Total - 2 * Cycle - 1
  BY FirstTyped, KnownTyped, CycleTyped
<1>2. 7 * OpaTap < 2 * Cycle
  BY <1>1, CycleTyped
<1>3. OpaTap * 7 < OpaTap * (2 * PhaseMax + 2)
  BY <1>2, CycleTyped
<1>4. 7 < 2 * PhaseMax + 2
  BY <1>3, Cancel
<1>5. PhaseMax >= 3
  BY <1>4
<1>6. PhaseMax * OpaTap >= 3 * OpaTap
  BY <1>5
<1>7. Cycle >= 4 * OpaTap
  BY <1>6, CycleTyped
<1> QED
  BY <1>1, <1>5, <1>7

(* A read of a setting passes or fails.                                    *)
LEMMA Either ==
    ASSUME Known, NEW vv \in Int
    PROVE  /\ Time(vv, 1, 0) \in Int /\ After(Time(vv, 1, 0)) \in Int
           /\ MayFail(Time(vv, 1, 0)) <=> Fails(vv)
           /\ MayPass(Time(vv, 1, 0)) <=> ~Fails(vv)
<1>1. Time(vv, 1, 0) \in Int
  <2>1. vv * Cycle + 1 * OpaTap + 0 * DchainTap \in Int
    BY CycleTyped
  <2> QED
    BY <2>1, CycleTyped, Remainder DEF Time
<1> DEFINE t == Time(vv, 1, 0)
<1>2. t \in Int
  BY <1>1
<1> HIDE DEF t
<1>3. After(t) \in Int
  <2> DEFINE n == t - window.bgn
  <2>1. n \in Int
    BY <1>2, KnownTyped
  <2> HIDE DEF n
  <2>2. n % Total \in Int
    BY <2>1, CycleTyped, Remainder
  <2> QED
    BY <2>2 DEF After, n
<1>4. /\ MayPass(t) <=> After(t) <= window.len
      /\ MayFail(t) <=> After(t) > window.len
  BY <1>2, TestExact
<1> QED
  BY <1>2, <1>3, <1>4, KnownTyped DEF Fails, t

(* Step 1 meets two failing reads.                                         *)
LEMMA TwoFail ==
    ASSUME Known
    PROVE  \E a, b \in 0 .. VfifoSize - 1 : a # b /\ Fails(a) /\ Fails(b)
<1> DEFINE n == Last - OpaTap
           k == n \div Cycle + 1
           c == k * Cycle
           a == (origin + k) % VfifoSize
           b == IncrVfifo(a)
<1>1. n \in Int /\ Last = n + OpaTap
  BY Wide
<1> HIDE DEF n
<1>2. k \in Int /\ c \in Int /\ c > n /\ c <= n + Cycle
  <2>1. /\ n \div Cycle \in Int /\ n % Cycle \in 0 .. Cycle - 1
        /\ n % Cycle = n - Cycle * (n \div Cycle)
    BY <1>1, CycleTyped, Remainder
  <2> QED
    BY <1>1, <2>1, CycleTyped
<1> HIDE DEF k
<1>3. origin \in Int
  BY DEF Known
<1>4. At(origin, origin + k, 0 + c)
  BY <1>2, <1>3, AtOrigin, AtShift
<1>5. 0 + c = c /\ origin + k \in Int
  BY <1>2, <1>3
<1> HIDE DEF c
<1>6. At(origin, origin + k, c)
  BY <1>4, <1>5
<1>7. At(origin, a, c)
  BY <1>2, <1>5, <1>6, AtVfifo
<1>8. a \in 0 .. VfifoSize - 1
  BY <1>5, Remainder
<1> HIDE DEF a
<1>9. At(origin, b, c + Cycle) /\ b \in 0 .. VfifoSize - 1
  BY <1>2, <1>7, <1>8, AtPushed, VfifoTyped
<1>10. a # b
  <2>1. VfifoSize >= 2
    <3>1. Cycle * 2 < Total /\ Total = Cycle * VfifoSize
      BY Wide, CycleTyped DEF Total
    <3> QED
      BY <3>1, CycleTyped, Cancel
  <2>2. CASE a + 1 < VfifoSize
    <3>1. (a + 1) % VfifoSize = a + 1
      BY <1>8, <2>2
    <3> QED
      BY <1>8, <3>1 DEF IncrVfifo
  <2>3. CASE a + 1 = VfifoSize
    <3>1. (a + 1) % VfifoSize = 0
      BY <2>3
    <3> QED
      BY <1>8, <2>1, <2>3, <3>1 DEF IncrVfifo
  <2> QED
    BY <1>8, <2>2, <2>3
<1> HIDE DEF b
<1>11. Fails(a)
  <2> DEFINE x == c + 1 * OpaTap + 0 * DchainTap
  <2>1. x \in Int /\ Last < x /\ x < First + Total
    BY <1>1, <1>2, Wide, CycleTyped
  <2>2. Last - Total < x
    BY <2>1, Wide, CycleTyped
  <2> HIDE DEF x
  <2>3. MayPass(Time(a, 1, 0)) => In(x)
    BY <1>2, <1>7, <1>8, <2>1, <2>2, Tested DEF x
  <2>4. ~In(x)
    BY <2>1, Wide DEF In
  <2> QED
    BY <1>8, <2>3, <2>4, Either
<1>12. Fails(b)
  <2> DEFINE x == (c + Cycle) + 1 * OpaTap + 0 * DchainTap
  <2>1. x \in Int /\ Last < x /\ x < First + Total /\ c + Cycle \in Int
    BY <1>1, <1>2, Wide, CycleTyped
  <2>2. Last - Total < x
    BY <2>1, Wide, CycleTyped
  <2> HIDE DEF x
  <2>3. MayPass(Time(b, 1, 0)) => In(x)
    BY <1>9, <2>1, <2>2, Tested DEF x
  <2>4. ~In(x)
    BY <2>1, Wide DEF In
  <2> QED
    BY <1>9, <2>3, <2>4, Either
<1> QED
  BY <1>8, <1>9, <1>10, <1>11, <1>12

LEMMA InitExact == Init => SearchExact
  BY DEF Init, SearchExact, StageExact

(* Where a search begins with a failing read.                              *)
LEMMA FailingBegins ==
    ASSUME Known, NEW o \in Int, MayFail(Time(o, 1, 0))
    PROVE  LET first == OpaTap + ((window.bgn - o * Cycle - OpaTap) % Total)
           IN  OpaTap < first /\ first + window.len < OpaTap + Total
<1> DEFINE n == window.bgn - o * Cycle - OpaTap
           r == n % Total
           q == n \div Total
           t == o * Cycle + 1 * OpaTap + 0 * DchainTap
<1>1. n \in Int /\ t \in Int /\ t - window.bgn = -n /\ -n \in Int
  BY KnownTyped, CycleTyped
<1>2. (t - window.bgn) % Total > window.len
  <2>1. t % Total \in Int
    BY <1>1, CycleTyped, Remainder
  <2>2. After(t % Total) > window.len
    BY <2>1, TestExact DEF Time
  <2>3. t \in Int /\ window.bgn \in Int /\ Total \in Nat \ {0}
    BY <1>1, KnownTyped, CycleTyped
  <2> HIDE DEF n, t
  <2>4. ((t % Total) - window.bgn) % Total = (t - window.bgn) % Total
    BY <2>3, ModMinus
  <2> QED
    BY <2>2, <2>4 DEF After
<1> HIDE DEF n, t
<1>3. r \in 0 .. Total - 1 /\ q \in Int /\ r = n - Total * q
  BY <1>1, CycleTyped, Remainder
<1> HIDE DEF r, q
<1>4. r # 0
  <2> SUFFICES ASSUME r = 0 PROVE FALSE
    OBVIOUS
  <2>1. -n = Total * (-q) + 0 /\ -q \in Int /\ 0 \in 0 .. Total - 1
    BY <1>1, <1>3, CycleTyped
  <2>2. (-n) % Total = 0
    BY <1>1, <2>1, CycleTyped, Unique
  <2> QED
    BY <1>1, <1>2, <2>2, KnownTyped
<1>5. Total - r > window.len
  <2>1. /\ -n = Total * (-q - 1) + (Total - r)
        /\ -q - 1 \in Int /\ Total - r \in 0 .. Total - 1
    BY <1>1, <1>3, <1>4, CycleTyped
  <2>2. (-n) % Total = Total - r
    BY <1>1, <2>1, CycleTyped, Unique
  <2> QED
    BY <1>1, <1>2, <2>2
<1>6. OpaTap < OpaTap + r /\ OpaTap + r + window.len < OpaTap + Total
  BY <1>3, <1>4, <1>5, KnownTyped, CycleTyped
<1> QED
  BY <1>6 DEF n, r

(* Step 1 ends at the second failing read.                                 *)
LEMMA PushesExact == Here /\ (PushPasses \/ PushFails) => StageExact'
<1> SUFFICES ASSUME Here, PushPasses \/ PushFails PROVE StageExact'
  OBVIOUS
<1>1. /\ Known /\ pc = "push" /\ window' = window
      /\ v \in 0 .. VfifoSize - 1 /\ failCnt \in {0, 1} /\ pushed = v
      /\ phase = 1 /\ delay = 0 /\ phase' = 1 /\ delay' = 0
      /\ i = 0 /\ d = 0 /\ i' = 0 /\ d' = 0
  BY HereKnown DEF Here, SearchInv, TypeOK, PlaceInv, StageExact, PushExact,
                   PushPasses, PushFails
<1>2. PICK f \in Int :
          \A vv \in 0 .. v - 1 : Fails(vv) => failCnt = 1 /\ vv = f
  BY <1>1 DEF Here, StageExact, PushExact
<1>3. /\ MayFail(Time(v, 1, 0)) <=> Fails(v)
      /\ MayPass(Time(v, 1, 0)) <=> ~Fails(v)
  BY <1>1, Either
<1>4. ASSUME NEW vv \in 0 .. VfifoSize - 1 PROVE Fails(vv)' <=> Fails(vv)
  BY <1>1 DEF Fails, Time, After
<1>5. ASSUME PushVfifo,
             NEW g \in Int,
             \A vv \in 0 .. v : Fails(vv) => failCnt' = 1 /\ vv = g
      PROVE  StageExact'
  <2>1. CASE v + 1 < VfifoSize
    <3>1. v' = v + 1 /\ pushed' = v + 1 /\ pc' = "push"
      BY <1>1, <1>5, <2>1 DEF PushVfifo, IncrVfifo
    <3>2. \A vv \in 0 .. pushed' - 1 : Fails(vv)' => failCnt' = 1 /\ vv = g
      BY <1>1, <1>4, <1>5, <2>1, <3>1
    <3>3. PushExact'
      BY <1>1, <1>5, <3>1, <3>2 DEF PushExact
    <3> QED
      BY <3>1, <3>3 DEF StageExact
  <2>2. CASE v + 1 = VfifoSize
    <3>1. PICK a, b \in 0 .. VfifoSize - 1 : a # b /\ Fails(a) /\ Fails(b)
      BY <1>1, TwoFail
    <3>2. a = g /\ b = g
      BY <1>1, <1>5, <2>2, <3>1
    <3> QED
      BY <3>1, <3>2
  <2> QED
    BY <1>1, <2>1, <2>2
<1>6. CASE PushPasses
  <2>1. ~Fails(v) /\ failCnt' = failCnt
    BY <1>1, <1>3, <1>6 DEF PushPasses
  <2>2. \A vv \in 0 .. v : Fails(vv) => failCnt' = 1 /\ vv = f
    BY <1>1, <1>2, <2>1
  <2> QED
    BY <1>5, <1>6, <2>2 DEF PushPasses
<1>7. CASE PushFails /\ failCnt = 0
  <2>1. failCnt' = 1 /\ PushVfifo
    BY <1>7 DEF PushFails
  <2>2. \A vv \in 0 .. v : Fails(vv) => failCnt' = 1 /\ vv = v
    BY <1>1, <1>2, <1>7, <2>1
  <2> QED
    BY <1>1, <1>5, <2>1, <2>2
<1>8. CASE PushFails /\ failCnt = 1
  <2>1. /\ MayFail(Time(v, 1, 0)) /\ pc' = "begin" /\ p' = 1
        /\ workBgn' = OpaTap /\ origin' = v /\ v' = v
    BY <1>1, <1>8 DEF PushFails
  <2> DEFINE first == OpaTap + ((window.bgn - v * Cycle - OpaTap) % Total)
  <2>2. OpaTap < first /\ first + window.len < OpaTap + Total
    BY <1>1, <2>1, FailingBegins
  <2>3. First' = first /\ Last' = first + window.len
    BY <1>1, <2>1 DEF First, Last
  <2> HIDE DEF first
  <2>4. Placed'
    BY <2>2, <2>3 DEF Placed
  <2>5. first \in Int
    <3> DEFINE n == window.bgn - v * Cycle - OpaTap
    <3>1. n \in Int
      BY <1>1, KnownTyped, CycleTyped
    <3>2. first = OpaTap + (n % Total)
      BY DEF first
    <3> HIDE DEF n
    <3>3. n % Total \in Int
      BY <3>1, CycleTyped, Remainder
    <3> QED
      BY <3>2, <3>3
  <2>6. At(origin', v', 0)
    <3>1. v * Cycle = v * Cycle + 0 + Total * 0
      BY <1>1, CycleTyped
    <3> QED
      BY <2>1, <3>1 DEF At
  <2>7. i' * Cycle = 0
    BY <1>1, CycleTyped
  <2>8. BeginExact'
    BY <1>1, <2>1, <2>2, <2>3, <2>5, <2>6, <2>7 DEF BeginExact
  <2> QED
    BY <2>1, <2>4, <2>8 DEF StageExact
<1> QED
  BY <1>1, <1>6, <1>7, <1>8

(* Step 2 tries phase after phase, and finds one in the window before it   *)
(* has tried them all.                                                     *)
LEMMA BeginsExact ==
    Here /\ (BeginFails \/ BeginFound \/ BeginFoundNarrow) => StageExact'
<1> SUFFICES ASSUME Here, BeginFails \/ BeginFound \/ BeginFoundNarrow
             PROVE  StageExact'
  OBVIOUS
<1>1. /\ Known /\ pc = "begin" /\ window' = window /\ origin' = origin
      /\ v \in 0 .. VfifoSize - 1 /\ i \in 0 .. VfifoSize - 1
      /\ p \in 1 .. PhaseMax /\ d = 0 /\ workBgn \in Int
      /\ workBgn = i * Cycle + p * OpaTap /\ At(origin, v, i * Cycle)
      /\ First > workBgn - (IF p = 1 THEN 2 * OpaTap ELSE OpaTap)
      /\ OpaTap < First /\ Last < OpaTap + Total /\ workBgn >= OpaTap
  BY HereKnown DEF Here, SearchInv, TypeOK, PlaceInv, StageExact, BeginExact,
                   Placed, BeginFails, BeginFound, BeginFoundNarrow, pushVars
<1>2. /\ First' = First /\ Last' = Last /\ Placed'
      /\ First \in Int /\ Last \in Int
  BY <1>1, FirstStays, Wide DEF Placed
<1>3. i * Cycle \in Int /\ p * OpaTap \in Int
  BY <1>1, CycleTyped
<1>4. /\ MayPass(Time(v, p, d)) => In(workBgn)
      /\ MayFail(Time(v, p, d)) => ~In(workBgn)
  <2>1. workBgn = i * Cycle + p * OpaTap + d * DchainTap
    BY <1>1, <1>3
  <2>2. Last - Total < workBgn /\ workBgn < First + Total
    BY <1>1, <1>2, Wide, CycleTyped
  <2>3. d \in Int /\ p \in Int /\ v \in Int
    BY <1>1
  <2> QED
    BY <1>1, <1>3, <2>1, <2>2, <2>3, Tested
<1>5. CASE BeginFails
  <2>1. workBgn < First
    BY <1>1, <1>2, <1>4, <1>5, Wide DEF In, BeginFails
  <2>2. CASE p < PhaseMax
    <3>1. /\ pc' = "begin" /\ p' = p + 1 /\ workBgn' = workBgn + OpaTap
          /\ i' = i /\ d' = d /\ v' = v
      BY <1>1, <1>5, <2>2 DEF BeginFails, NextBeginPhase
    <3>2. workBgn' = i' * Cycle + p' * OpaTap
      BY <1>1, <1>3, <3>1, CycleTyped
    <3>3. BeginExact'
      BY <1>1, <1>2, <2>1, <3>1, <3>2 DEF BeginExact
    <3> QED
      BY <1>2, <3>1, <3>3 DEF StageExact
  <2>3. CASE p = PhaseMax /\ i < VfifoSize - 1
    <3>1. /\ pc' = "begin" /\ p' = 1 /\ workBgn' = workBgn + 2 * OpaTap
          /\ i' = i + 1 /\ d' = d /\ v' = IncrVfifo(v)
      BY <1>1, <1>5, <2>3 DEF BeginFails, NextBeginPhase
    <3>2. i' * Cycle = i * Cycle + Cycle
      BY <1>1, <3>1, CycleTyped
    <3>3. workBgn' = i' * Cycle + p' * OpaTap
      BY <1>1, <1>3, <2>3, <3>1, <3>2, CycleTyped
    <3>4. At(origin', v', i' * Cycle)
      <4>1. At(origin, IncrVfifo(v), i * Cycle + Cycle)
        BY <1>1, <1>3, AtPushed
      <4> QED
        BY <1>1, <3>1, <3>2, <4>1
    <3>5. First > workBgn' - 2 * OpaTap
      BY <1>1, <1>2, <2>1, <3>1
    <3>6. BeginExact'
      BY <1>1, <1>2, <3>1, <3>3, <3>4, <3>5 DEF BeginExact
    <3> QED
      BY <1>2, <3>1, <3>6 DEF StageExact
  <2>4. CASE p = PhaseMax /\ i = VfifoSize - 1
    <3>1. Total = i * Cycle + Cycle
      BY <2>4, CycleTyped DEF Total
    <3>2. workBgn = Total - OpaTap
      BY <1>1, <1>3, <2>4, <3>1, CycleTyped
    <3> QED
      BY <1>1, <1>2, <2>1, <3>2, Wide, CycleTyped
  <2> QED
    BY <1>1, <2>2, <2>3, <2>4
<1>6. CASE BeginFound
  <2>1. /\ pc' = "backoff" /\ workEnd' = workBgn /\ workBgn' = workBgn
        /\ p' = IF p = 1 THEN 1 ELSE p - 1
        /\ tmpDelay' = IF p = 1 THEN workBgn ELSE workBgn - OpaTap
        /\ phase' = p' /\ v' = v /\ i' = i /\ d' = d
    BY <1>6 DEF BeginFound
  <2>2. In(workBgn) /\ In(workBgn)'
    BY <1>2, <1>4, <1>6, <2>1 DEF In, BeginFound
  <2>3. At(origin', v', i' * Cycle)
    BY <1>1, <2>1
  <2>4. CASE p = 1
    <3>1. workBgn' = i' * Cycle + OpaTap /\ First' > workBgn' - 2 * OpaTap
      BY <1>1, <1>2, <2>1, <2>4
    <3>2. BackoffExact'
      BY <1>1, <2>1, <2>2, <2>3, <2>4, <3>1 DEF BackoffExact
    <3> QED
      BY <1>2, <2>1, <3>2 DEF StageExact
  <2>5. CASE p # 1
    <3>1. p' \in Int /\ p' < PhaseMax /\ p = p' + 1
      BY <1>1, <2>1, <2>5
    <3>2. workBgn' = i' * Cycle + (p' + 1) * OpaTap
      BY <1>1, <2>1, <3>1
    <3>3. d' * DchainTap = 0
      BY <1>1, <2>1
    <3>4. /\ tmpDelay' = workBgn' - OpaTap + d' * DchainTap
          /\ First' > tmpDelay' - DchainTap /\ First' > workBgn' - OpaTap
      BY <1>1, <1>2, <2>1, <2>5, <3>3
    <3>5. BackoffExact'
      BY <2>1, <2>2, <2>3, <3>1, <3>2, <3>4 DEF BackoffExact
    <3> QED
      BY <1>2, <2>1, <3>5 DEF StageExact
  <2> QED
    BY <2>4, <2>5
<1>7. CASE BeginFoundNarrow
  BY <1>1, <1>7 DEF BeginFoundNarrow
<1> QED
  BY <1>5, <1>6, <1>7


(* Step 3a goes back to the first tap, and step 4a begins after the phase  *)
(* found.                                                                  *)
LEMMA ForwardExact ==
    ASSUME Here, pc = "backoff", ForwardToEnd,
           UNCHANGED <<window, origin, i>>,
           NEW slack \in {0, OpaTap}, BgnExact(slack)', workBgn' <= workBgn,
           \/ p = 1 /\ slack = OpaTap
           \/ p < PhaseMax /\ workBgn = i * Cycle + (p + 1) * OpaTap
              /\ slack = 0 /\ First > workBgn - OpaTap,
           p = 1 /\ slack = OpaTap =>
              workBgn = i * Cycle + OpaTap /\ First > workBgn - 2 * OpaTap
    PROVE  StageExact'
<1>1. /\ Known /\ In(workBgn) /\ At(origin, v, i * Cycle)
      /\ v \in 0 .. VfifoSize - 1 /\ i \in Nat /\ p \in 1 .. PhaseMax
      /\ workBgn \in Int /\ workEnd = workBgn /\ Placed
  BY HereKnown DEF Here, SearchInv, TypeOK, PlaceInv, StageExact, BackoffExact
<1>2. /\ First' = First /\ Last' = Last /\ Placed'
      /\ First \in Int /\ Last \in Int
  BY <1>1, FirstStays, Wide DEF Placed
<1>3. /\ pc' = "end" /\ delay' = 0 /\ p' = (p + 2) % (PhaseMax + 1)
      /\ v' = (IF p + 2 > PhaseMax THEN IncrVfifo(v) ELSE v)
      /\ workEnd' = workBgn + OpaTap /\ j' = 0 /\ i' = i /\ origin' = origin
  BY <1>1 DEF ForwardToEnd
<1>4. i * Cycle \in Int /\ First <= workBgn /\ workBgn <= Last
  BY <1>1, CycleTyped DEF In
<1>5. CASE slack = OpaTap
  <2>1. p = 1 /\ workBgn = i * Cycle + OpaTap /\ First > workBgn - 2 * OpaTap
    BY <1>5
  <2>2. p' = 3 /\ v' = v
    BY <1>3, <2>1, <1>1, Wide
  <2>3. workEnd' + slack - p' * OpaTap = i * Cycle
    BY <1>3, <1>4, <1>5, <2>1, <2>2
  <2>4. At(origin', v', workEnd' + slack - p' * OpaTap)
    BY <1>1, <1>3, <2>2, <2>3
  <2>5. workEnd' + slack >= i' * Cycle + p' * OpaTap
    BY <1>3, <1>4, <1>5, <2>1, <2>2
  <2>6. LastPhase' = OpaTap
    BY <2>2 DEF LastPhase
  <2>7. In(workEnd + slack - LastPhase)'
    BY <1>1, <1>2, <1>3, <1>4, <1>5, <2>1, <2>6, Wide DEF In
  <2>8. workEnd' - LastPhase' >= workBgn'
    BY <1>1, <1>3, <2>6
  <2>9. In(workEnd + slack)'
    BY <1>1, <1>2, <1>3, <1>4, <1>5, <2>1, Wide DEF In
  <2>10. EndExact'
    BY <1>3, <2>4, <2>5, <2>7, <2>8, <2>9 DEF EndExact
  <2> QED
    BY <1>2, <1>3, <2>10 DEF StageExact
<1>6. CASE slack = 0
  <2>1. /\ p < PhaseMax /\ workBgn = i * Cycle + (p + 1) * OpaTap
        /\ First > workBgn - OpaTap
    BY <1>6
  <2>2. LastPhase' = OpaTap /\ (p' = p + 2 \/ p' = 0)
        /\ At(origin', v', workEnd' + slack - p' * OpaTap)
        /\ workEnd' + slack >= i' * Cycle + p' * OpaTap
    <3>1. CASE p + 2 <= PhaseMax
      <4>1. p' = p + 2 /\ v' = v
        BY <1>1, <1>3, <3>1
      <4>2. workEnd' + slack - p' * OpaTap = i * Cycle
        BY <1>1, <1>3, <1>4, <1>6, <2>1, <4>1
      <4>3. p' * OpaTap \in Int
        BY <1>1, <4>1
      <4> QED
        BY <1>1, <1>3, <1>4, <1>6, <4>1, <4>2, <4>3 DEF LastPhase
    <3>2. CASE p + 2 = PhaseMax + 1
      <4>1. p' = 0 /\ v' = IncrVfifo(v)
        BY <1>1, <1>3, <3>2
      <4>2. (p + 1) * OpaTap + OpaTap = Cycle
        BY <1>1, <3>2, CycleTyped
      <4>3. (p + 1) * OpaTap \in Int
        BY <1>1
      <4>4. workEnd' + slack - p' * OpaTap = i * Cycle + Cycle
        BY <1>1, <1>3, <1>4, <1>6, <2>1, <4>1, <4>2, <4>3, CycleTyped
      <4>5. At(origin, IncrVfifo(v), i * Cycle + Cycle)
        BY <1>1, <1>4, AtPushed
      <4>6. p' * OpaTap = 0
        BY <4>1
      <4> QED
        BY <1>1, <1>3, <1>4, <1>6, <4>1, <4>4, <4>5, <4>6, CycleTyped DEF LastPhase
    <3> QED
      BY <1>1, <2>1, <3>1, <3>2
  <2>3. In(workEnd + slack - LastPhase)'
    BY <1>1, <1>2, <1>3, <1>4, <1>6, <2>2 DEF In
  <2>4. workEnd' - LastPhase' >= workBgn'
    BY <1>1, <1>3, <2>2
  <2>5. In(workEnd + slack)'
    BY <1>1, <1>2, <1>3, <1>4, <1>6, <2>1, Wide DEF In
  <2>6. EndExact'
    BY <1>3, <2>2, <2>3, <2>4, <2>5 DEF EndExact
  <2> QED
    BY <1>2, <1>3, <2>6 DEF StageExact
<1> QED
  BY <1>5, <1>6

LEMMA BacksExact ==
    Here /\ (BackoffFails \/ BackoffPasses \/ BackoffOver) => StageExact'
<1> SUFFICES ASSUME Here, BackoffFails \/ BackoffPasses \/ BackoffOver
             PROVE  StageExact'
  OBVIOUS
<1>1. /\ Known /\ pc = "backoff" /\ window' = window /\ origin' = origin
      /\ v \in 0 .. VfifoSize - 1 /\ i \in Nat /\ i' = i
      /\ p \in 1 .. PhaseMax /\ d \in 0 .. DelayMax + 1
      /\ workBgn \in Int /\ tmpDelay \in Int /\ tmpDelay >= OpaTap
      /\ BackoffExact /\ Placed
  BY HereKnown DEF Here, SearchInv, TypeOK, PlaceInv, StageExact,
                   BackoffFails, BackoffPasses, BackoffOver, pushVars
<1>2. /\ First' = First /\ Last' = Last /\ Placed'
      /\ First \in Int /\ Last \in Int
  BY <1>1, FirstStays, Wide DEF Placed
<1>3. /\ In(workBgn) /\ workEnd = workBgn /\ At(origin, v, i * Cycle)
      /\ phase = p
  BY <1>1 DEF BackoffExact
<1>4. First <= workBgn /\ workBgn <= Last
  BY <1>3 DEF In
<1>5. i * Cycle \in Int /\ p * OpaTap \in Int /\ d * DchainTap \in Int
  BY <1>1, CycleTyped
<1>6. CASE /\ p = 1 /\ d = 0 /\ tmpDelay = workBgn
           /\ workBgn = i * Cycle + OpaTap /\ First > workBgn - 2 * OpaTap
  <2>1. BackoffOver
    BY <1>1, <1>6 DEF BackoffFails, BackoffPasses
  <2>2. ForwardToEnd /\ workBgn' = workBgn
    BY <2>1 DEF BackoffOver
  <2>3. BgnExact(OpaTap)'
    <3>1. workBgn' < First' + 2 * OpaTap
      BY <1>1, <1>2, <1>6, <2>2
    <3>2. In(workBgn)'
      BY <1>2, <1>4, <2>2 DEF In
    <3>3. i \in Int /\ workBgn' = i * Cycle + OpaTap
      BY <1>1, <1>6, <2>2
    <3>4. OpaTap # 0
      OBVIOUS
    <3> QED
      BY <3>1, <3>2, <3>3, <3>4 DEF BgnExact
  <2> QED
    BY <1>1, <1>6, <2>2, <2>3, ForwardExact
<1>7. CASE /\ p < PhaseMax /\ workBgn = i * Cycle + (p + 1) * OpaTap
           /\ tmpDelay = workBgn - OpaTap + d * DchainTap
           /\ First > tmpDelay - DchainTap /\ First > workBgn - OpaTap
  <2>1. ASSUME tmpDelay < workBgn
        PROVE  /\ MayPass(Time(v, phase, d)) => In(tmpDelay)
               /\ MayFail(Time(v, phase, d)) => ~In(tmpDelay)
    <3>1. tmpDelay = i * Cycle + p * OpaTap + d * DchainTap
      BY <1>1, <1>5, <1>7
    <3>2. Last - Total < tmpDelay /\ tmpDelay < First + Total
      BY <1>1, <1>2, <1>4, <2>1, Wide, CycleTyped DEF Placed
    <3>3. v \in Int /\ p \in Int /\ d \in Int
      BY <1>1
    <3> QED
      BY <1>1, <1>3, <1>5, <3>1, <3>2, <3>3, Tested
  <2>2. CASE BackoffFails
    <3>1. /\ pc' = "backoff" /\ d' = d + 1 /\ tmpDelay' = tmpDelay + DchainTap
          /\ tmpDelay < workBgn /\ workBgn' = workBgn /\ workEnd' = workEnd
          /\ v' = v /\ phase' = phase /\ p' = p
      BY <1>1, <2>2 DEF BackoffFails
    <3>2. tmpDelay < First
      BY <1>1, <1>2, <1>4, <2>1, <2>2, <3>1 DEF In, BackoffFails
    <3>3. d' * DchainTap = d * DchainTap + DchainTap
      BY <1>1, <3>1
    <3>4. /\ tmpDelay' = workBgn' - OpaTap + d' * DchainTap
          /\ First' > tmpDelay' - DchainTap /\ First' > workBgn' - OpaTap
      BY <1>1, <1>2, <1>5, <1>7, <3>1, <3>2, <3>3
    <3>5. In(workBgn)' /\ At(origin', v', i' * Cycle)
      BY <1>1, <1>2, <1>3, <1>4, <3>1 DEF In
    <3>6. p' < PhaseMax /\ workBgn' = i' * Cycle + (p' + 1) * OpaTap
      BY <1>1, <1>7, <3>1
    <3>7. BackoffExact'
      BY <1>3, <3>1, <3>4, <3>5, <3>6 DEF BackoffExact
    <3> QED
      BY <1>2, <3>1, <3>7 DEF StageExact
  <2>3. CASE BackoffPasses
    <3>1. ForwardToEnd /\ workBgn' = tmpDelay /\ tmpDelay < workBgn
      BY <2>3 DEF BackoffPasses
    <3>2. In(tmpDelay)
      BY <2>1, <2>3, <3>1 DEF BackoffPasses
    <3>3. BgnExact(0)'
      BY <1>1, <1>2, <1>7, <3>1, <3>2 DEF BgnExact, In
    <3>4. workBgn' <= workBgn
      BY <1>1, <3>1
    <3> QED
      BY <1>1, <1>7, <3>1, <3>3, <3>4, ForwardExact
  <2>4. CASE BackoffOver
    <3>1. ForwardToEnd /\ workBgn' = workBgn
      BY <2>4 DEF BackoffOver
    <3>2. tmpDelay >= workBgn
      <4>1. CASE d <= DelayMax
        BY <1>1, <2>4, <4>1 DEF BackoffOver
      <4>2. CASE d = DelayMax + 1
        <5>1. d * DchainTap = DelayMax * DchainTap + DchainTap
          BY <4>2
        <5> QED
          BY <1>1, <1>5, <1>7, <5>1
      <4> QED
        BY <1>1, <4>1, <4>2
    <3>3. BgnExact(0)'
      BY <1>1, <1>2, <1>4, <1>7, <3>1, <3>2 DEF BgnExact, In
    <3>4. workBgn' <= workBgn
      BY <1>1, <3>1
    <3> QED
      BY <1>1, <1>7, <3>1, <3>3, <3>4, ForwardExact
  <2> QED
    BY <2>2, <2>3, <2>4
<1> QED
  BY <1>1, <1>6, <1>7 DEF BackoffExact


(* Step 4a goes on to a phase after the window, and step 5a back to the    *)
(* last one in it.                                                         *)
LEMMA EndsExact ==
    Here /\ (EndSkipsPhaseZero \/ EndPasses \/ EndFuzzy \/ EndFound)
        => StageExact'
<1> SUFFICES ASSUME Here,
                    EndSkipsPhaseZero \/ EndPasses \/ EndFuzzy \/ EndFound
             PROVE  StageExact'
  OBVIOUS
<1>1. /\ Known /\ pc = "end" /\ window' = window /\ origin' = origin
      /\ v \in 0 .. VfifoSize - 1 /\ i \in 0 .. VfifoSize
      /\ p \in 0 .. PhaseMax /\ j \in {0, 1}
      /\ workBgn \in Int /\ workEnd \in Int
      /\ EndExact /\ Placed
  BY HereKnown DEF Here, SearchInv, TypeOK, PlaceInv, StageExact,
                   EndSkipsPhaseZero, EndPasses, EndFuzzy, EndFound, pushVars
<1>2. /\ First' = First /\ Last' = Last /\ Placed'
      /\ First \in Int /\ Last \in Int
  BY <1>1, FirstStays, Wide DEF Placed
<1>3. PICK slack \in {0, OpaTap} :
        /\ BgnExact(slack)
        /\ delay = 0 /\ At(origin, v, workEnd + slack - p * OpaTap)
        /\ workEnd + slack >= i * Cycle + p * OpaTap
        /\ In(workEnd + slack - LastPhase) /\ workEnd - LastPhase >= workBgn
        /\ j = 0 => p = 0 \/ In(workEnd + slack)
  BY <1>1 DEF EndExact
<1> DEFINE x == workEnd + slack
           c == x - p * OpaTap
<1>4. /\ x \in Int /\ c \in Int /\ p * OpaTap \in Int /\ slack \in Int
      /\ i * Cycle \in Int /\ x = workEnd + slack /\ c = x - p * OpaTap
  BY <1>1, <1>3, CycleTyped
<1>5. /\ At(origin, v, c) /\ x >= i * Cycle + p * OpaTap
      /\ In(x - LastPhase) /\ workEnd - LastPhase >= workBgn
      /\ j = 0 => p = 0 \/ In(x)
  <2>1. At(origin, v, c)
    BY <1>1, <1>3, <1>4
  <2>2. In(x - LastPhase)
    BY <1>1, <1>3, <1>4 DEF In, LastPhase
  <2>3. j = 0 => p = 0 \/ In(x)
    BY <1>3
  <2>4. x >= i * Cycle + p * OpaTap /\ workEnd - LastPhase >= workBgn
    BY <1>3
  <2> QED
    BY <2>1, <2>2, <2>3, <2>4
<1> HIDE DEF x, c
<1>6. LastPhase \in {OpaTap, 2 * OpaTap} /\ (p # 1 => LastPhase = OpaTap)
      /\ (p = 1 => LastPhase = 2 * OpaTap)
  BY DEF LastPhase
<1>7. First <= x - LastPhase /\ x - LastPhase <= Last
  BY <1>5 DEF In
<1>8. /\ MayPass(Time(v, p, delay)) => In(x)
      /\ MayFail(Time(v, p, delay)) => ~In(x)
  <2>1. x = c + p * OpaTap + delay * DchainTap
    BY <1>3, <1>4
  <2>2. Last - Total < x /\ x < First + Total
    BY <1>2, <1>4, <1>6, <1>7, Wide, CycleTyped, <1>1
  <2>3. delay \in Int /\ p \in Int /\ v \in Int
    BY <1>1, <1>3
  <2> QED
    BY <1>1, <1>4, <1>5, <2>1, <2>2, <2>3, Tested
<1>9. workBgn' = workBgn => BgnExact(slack)'
  BY <1>2, <1>3 DEF BgnExact, In
<1>10. CASE EndSkipsPhaseZero \/ EndPasses
  <2>1. /\ p = 0 \/ In(x)
        /\ NextEndPhase /\ delay' = 0 /\ workBgn' = workBgn
    BY <1>3, <1>8, <1>10 DEF EndSkipsPhaseZero, EndPasses
  <2>2. workEnd' = workEnd + OpaTap /\ workEnd' + slack = x + OpaTap /\ j' = 1
    BY <1>1, <1>4, <2>1 DEF NextEndPhase
  <2>3. CASE p < PhaseMax
    <3>1. /\ p' = p + 1 /\ v' = v /\ i' = i /\ pc' = "end"
      BY <1>1, <2>1, <2>3 DEF NextEndPhase
    <3>2. p' * OpaTap = p * OpaTap + OpaTap
      BY <1>1, <3>1
    <3>3. workEnd' + slack - p' * OpaTap = c
      BY <1>4, <2>2, <3>2
    <3>4. At(origin', v', workEnd' + slack - p' * OpaTap)
      BY <1>1, <1>5, <3>1, <3>3
    <3>5. workEnd' + slack >= i' * Cycle + p' * OpaTap
      BY <1>4, <1>5, <2>2, <3>1, <3>2
    <3>6. In(workEnd + slack - LastPhase)' /\ workEnd' - LastPhase' >= workBgn'
      <4>1. CASE p = 0
        <5>1. LastPhase' = 2 * OpaTap
          BY <3>1, <4>1 DEF LastPhase
        <5> QED
          BY <1>1, <1>2, <1>4, <1>5, <1>6, <1>7, <2>1, <2>2, <4>1, <5>1 DEF In
      <4>2. CASE p # 0
        <5>1. LastPhase' = OpaTap
          BY <1>1, <3>1, <4>2 DEF LastPhase
        <5>2. First <= x /\ x <= Last
          BY <2>1, <4>2 DEF In
        <5> QED
          BY <1>1, <1>2, <1>4, <1>5, <1>6, <2>1, <2>2, <5>1, <5>2 DEF In
      <4> QED
        BY <4>1, <4>2
    <3>7. EndExact'
      BY <1>9, <2>1, <2>2, <3>4, <3>5, <3>6 DEF EndExact
    <3> QED
      BY <1>2, <3>1, <3>7 DEF StageExact
  <2>4. CASE p = PhaseMax
    <3>1. First <= x /\ x <= Last
      BY <2>1, <2>4 DEF In
    <3>2. i # VfifoSize
      <4> SUFFICES ASSUME i = VfifoSize PROVE FALSE
        OBVIOUS
      <4>1. i * Cycle = Total
        BY DEF Total
      <4> QED
        BY <1>1, <1>2, <1>4, <1>5, <2>4, <3>1, <4>1, CycleTyped, Wide DEF Placed
    <3>3. /\ p' = 0 /\ v' = IncrVfifo(v) /\ i' = i + 1 /\ pc' = "end"
      BY <1>1, <2>1, <2>4, <3>2 DEF NextEndPhase
    <3>4. p' * OpaTap = 0 /\ i' * Cycle = i * Cycle + Cycle
      BY <1>1, <3>3, CycleTyped
    <3>5. workEnd' + slack - p' * OpaTap = c + Cycle
      BY <1>4, <2>2, <2>4, <3>4, CycleTyped
    <3>6. At(origin', v', workEnd' + slack - p' * OpaTap)
      <4>1. At(origin, IncrVfifo(v), c + Cycle)
        BY <1>1, <1>4, <1>5, AtPushed
      <4> QED
        BY <1>1, <3>3, <3>5, <4>1
    <3>7. workEnd' + slack >= i' * Cycle + p' * OpaTap
      BY <1>4, <1>5, <2>2, <2>4, <3>4, CycleTyped
    <3>8. LastPhase' = OpaTap
      BY <3>3 DEF LastPhase
    <3>9. In(workEnd + slack - LastPhase)' /\ workEnd' - LastPhase' >= workBgn'
      BY <1>1, <1>2, <1>4, <1>5, <1>6, <2>1, <2>2, <3>1, <3>8 DEF In
    <3>10. EndExact'
      BY <1>9, <2>1, <2>2, <3>6, <3>7, <3>9 DEF EndExact
    <3> QED
      BY <1>2, <3>3, <3>10 DEF StageExact
  <2> QED
    BY <1>1, <2>3, <2>4
<1>11. CASE EndFuzzy
  BY <1>5, <1>8, <1>11 DEF EndFuzzy
<1>12. CASE EndFound
  <2>1. p # 0 /\ ~In(x) /\ pc' = "edge" /\ phase' = p' /\ d' = 0
        /\ workBgn' = workBgn
    BY <1>8, <1>12 DEF EndFound
  <2>2. Last < x
    BY <1>2, <1>4, <1>6, <1>7, <2>1 DEF In
  <2>3. workEnd' = workEnd - LastPhase /\ workEnd' + slack = x - LastPhase
    BY <1>1, <1>4, <1>6, <1>12 DEF EndFound
  <2>4. At(origin', v', workEnd' + slack - p' * OpaTap)
    <3>1. CASE p = 1
      <4>1. p' = PhaseMax /\ v' = DecrVfifo(v)
        BY <1>12, <3>1 DEF EndFound
      <4>2. p' * OpaTap = Cycle - OpaTap /\ p * OpaTap = OpaTap
        BY <3>1, <4>1, CycleTyped
      <4>3. workEnd' + slack - p' * OpaTap = c - Cycle
        BY <1>4, <1>6, <2>3, <3>1, <4>2, CycleTyped
      <4>4. At(origin, DecrVfifo(v), c - Cycle)
        BY <1>1, <1>4, <1>5, AtPushed
      <4> QED
        BY <1>1, <4>1, <4>3, <4>4
    <3>2. CASE p # 1
      <4>1. p' = p - 1 /\ v' = v
        BY <1>12, <3>2 DEF EndFound
      <4>2. p' * OpaTap = p * OpaTap - OpaTap
        BY <1>1, <4>1
      <4>3. workEnd' + slack - p' * OpaTap = c
        BY <1>4, <1>6, <2>3, <3>2, <4>2
      <4> QED
        BY <1>1, <1>5, <4>1, <4>3
    <3> QED
      BY <3>1, <3>2
  <2>5. /\ d' * DchainTap = 0 /\ LastTap' = 0 /\ p' \in Int
    BY <1>1, <1>12, <2>1 DEF LastTap, EndFound
  <2>6. p' * OpaTap \in Int
    BY <2>5
  <2>7. workEnd' + slack - d' * DchainTap - p' * OpaTap
          = workEnd' + slack - p' * OpaTap
    BY <1>4, <1>6, <2>3, <2>5, <2>6
  <2>8. In(workEnd + slack - LastTap)'
    BY <1>2, <1>4, <1>6, <1>7, <2>3, <2>5 DEF In
  <2>9. workEnd' - d' * DchainTap >= workBgn'
    BY <1>1, <1>5, <1>6, <2>1, <2>3, <2>5
  <2>10. Last' < workEnd' + slack - d' * DchainTap + 2 * OpaTap
    BY <1>2, <1>4, <1>6, <2>2, <2>3, <2>5
  <2>11. EdgeExact'
    BY <1>9, <2>1, <2>4, <2>7, <2>8, <2>9, <2>10 DEF EdgeExact
  <2> QED
    BY <1>2, <2>1, <2>11 DEF StageExact
<1> QED
  BY <1>10, <1>11, <1>12

(* Step 5b finds the last tap.                                             *)
LEMMA EdgesExact ==
    Here /\ (EdgePasses \/ EdgeFails \/ EdgeOver) => StageExact'
<1> SUFFICES ASSUME Here, EdgePasses \/ EdgeFails \/ EdgeOver
             PROVE  StageExact'
  OBVIOUS
<1>1. /\ Known /\ pc = "edge" /\ window' = window /\ origin' = origin
      /\ v \in 0 .. VfifoSize - 1
      /\ p \in 1 .. PhaseMax /\ d \in 0 .. DelayMax + 1
      /\ workBgn \in Int /\ workEnd \in Int /\ workBgn' = workBgn
      /\ EdgeExact /\ Placed
  BY HereKnown DEF Here, SearchInv, TypeOK, PlaceInv, StageExact,
                   EdgePasses, EdgeFails, EdgeOver, pushVars
<1>2. /\ First' = First /\ Last' = Last /\ Placed'
      /\ First \in Int /\ Last \in Int
  BY <1>1, FirstStays, Wide DEF Placed
<1>3. PICK slack \in {0, OpaTap} :
        /\ BgnExact(slack)
        /\ phase = p
        /\ At(origin, v, workEnd + slack - d * DchainTap - p * OpaTap)
        /\ In(workEnd + slack - LastTap) /\ workEnd - d * DchainTap >= workBgn
        /\ Last < workEnd + slack - d * DchainTap + 2 * OpaTap
  BY <1>1 DEF EdgeExact
<1> DEFINE x == workEnd + slack
           c == x - d * DchainTap - p * OpaTap
<1>4. /\ x \in Int /\ c \in Int /\ p * OpaTap \in Int /\ slack \in Int
      /\ d * DchainTap \in Int
      /\ x = workEnd + slack /\ c = x - d * DchainTap - p * OpaTap
  BY <1>1, <1>3
<1>5. /\ At(origin, v, c) /\ In(x - LastTap)
      /\ workEnd - d * DchainTap >= workBgn
      /\ Last < x - d * DchainTap + 2 * OpaTap
  <2>1. At(origin, v, c)
    BY <1>1, <1>3, <1>4
  <2>2. In(x - LastTap)
    BY <1>1, <1>3, <1>4 DEF In, LastTap
  <2>3. /\ workEnd - d * DchainTap >= workBgn
        /\ Last < x - d * DchainTap + 2 * OpaTap
    BY <1>1, <1>3, <1>4
  <2> QED
    BY <2>1, <2>2, <2>3
<1> HIDE DEF x, c
<1>6. LastTap \in {0, DchainTap} /\ (d # 0 => LastTap = DchainTap)
      /\ (d = 0 => LastTap = 0)
  BY DEF LastTap
<1>7. First <= x - LastTap /\ x - LastTap <= Last
  BY <1>5 DEF In
<1>8. /\ MayPass(Time(v, phase, d)) => In(x)
      /\ MayFail(Time(v, phase, d)) => ~In(x)
  <2>1. x = c + p * OpaTap + d * DchainTap
    BY <1>4
  <2>2. Last - Total < x /\ x < First + Total
    BY <1>2, <1>4, <1>6, <1>7, Wide, CycleTyped, <1>1
  <2>3. d \in Int /\ p \in Int /\ v \in Int
    BY <1>1
  <2> QED
    BY <1>1, <1>3, <1>4, <1>5, <2>1, <2>2, <2>3, Tested
<1>9. BgnExact(slack)'
  BY <1>1, <1>2, <1>3 DEF BgnExact, In
<1>10. CASE EdgePasses
  <2>1. /\ pc' = "edge" /\ d' = d + 1 /\ workEnd' = workEnd + DchainTap
        /\ v' = v /\ phase' = phase /\ p' = p
    BY <1>1, <1>10 DEF EdgePasses
  <2>2. First <= x /\ x <= Last
    BY <1>8, <1>10 DEF In, EdgePasses
  <2>3. d' * DchainTap = d * DchainTap + DchainTap /\ LastTap' = DchainTap
        /\ workEnd' + slack = x + DchainTap
    BY <1>1, <1>4, <2>1 DEF LastTap
  <2>4. workEnd' + slack - d' * DchainTap - p' * OpaTap = c
    BY <1>4, <2>1, <2>3
  <2>5. At(origin', v', workEnd' + slack - d' * DchainTap - p' * OpaTap)
    BY <1>1, <1>5, <2>1, <2>4
  <2>6. In(workEnd + slack - LastTap)'
    BY <1>2, <1>4, <2>2, <2>1, <2>3 DEF In
  <2>7. workEnd' - d' * DchainTap >= workBgn'
    BY <1>1, <1>4, <1>5, <2>1, <2>3
  <2>8. Last' < workEnd' + slack - d' * DchainTap + 2 * OpaTap
    BY <1>1, <2>1, <1>2, <1>4, <1>5, <2>3
  <2>9. EdgeExact'
    BY <1>3, <1>9, <2>1, <2>5, <2>6, <2>7, <2>8 DEF EdgeExact
  <2> QED
    BY <1>2, <2>1, <2>9 DEF StageExact
<1>11. CASE EdgeFails \/ EdgeOver
  <2>1. EdgeDone /\ d # 0 /\ Last < x
    <3>1. CASE EdgeFails
      <4>1. ~In(x)
        BY <1>8, <3>1 DEF EdgeFails
      <4>2. d # 0 /\ Last < x
        BY <1>2, <1>4, <1>6, <1>7, <4>1 DEF In
      <4> QED
        BY <3>1, <4>2 DEF EdgeFails
    <3>2. CASE EdgeOver
      <4>1. d = DelayMax + 1
        BY <1>1, <3>2 DEF EdgeOver
      <4>2. d * DchainTap = DelayMax * DchainTap + DchainTap
            /\ DelayMax * DchainTap \in Int
        BY <4>1
      <4> QED
        BY <1>2, <1>4, <1>5, <1>6, <1>7, <4>1, <4>2
    <3> QED
      BY <1>11, <3>1, <3>2
  <2>2. workEnd' = workEnd - DchainTap /\ workEnd' + slack = x - DchainTap
    BY <1>1, <1>4, <2>1 DEF EdgeDone
  <2>3. d * DchainTap >= DchainTap
    BY <1>1, <2>1
  <2>4. workEnd' >= workBgn
    BY <1>1, <1>4, <1>5, <2>2, <2>3
  <2>5. pc' = "passing"
    BY <2>1, <2>4 DEF EdgeDone
  <2>6. Last' - DchainTap < workEnd' + slack /\ workEnd' + slack <= Last'
    BY <1>2, <1>4, <1>6, <1>7, <2>1, <2>2
  <2>7. workBgn' <= workEnd'
    BY <1>1, <2>2, <2>4
  <2>8. RangeExact'
    BY <1>9, <2>6, <2>7 DEF RangeExact
  <2> QED
    BY <1>2, <2>5, <2>8 DEF StageExact
<1> QED
  BY <1>10, <1>11


(* What the centre computed in step 6 is off by: a delay tap, or what is   *)
(* missing to the beginning of phase 1.                                    *)
LEMMA CentreSetting ==
    ASSUME NEW mid \in Nat \ {0}, NEW inCycle, NEW phases, NEW dtaps,
           inCycle = IF mid > Cycle THEN ((mid - 1) % Cycle) + 1 ELSE mid,
           phases = CeilDiv(inCycle, OpaTap),
           dtaps = CeilDiv(inCycle - (phases - 1) * OpaTap, DchainTap)
    PROVE  /\ inCycle \in 1 .. Cycle
           /\ \E q \in Int : mid = q * Cycle + inCycle
           /\ phases \in Nat /\ dtaps \in Nat
           /\ phases = 1 => inCycle <= OpaTap
           /\ phases # 1 =>
                /\ (phases - 1) * OpaTap + dtaps * DchainTap >= inCycle
                /\ (phases - 1) * OpaTap + dtaps * DchainTap
                       < inCycle + DchainTap
<1>1. inCycle \in 1 .. Cycle /\ \E q \in Int : mid = q * Cycle + inCycle
  <2>1. CASE mid > Cycle
    <3> DEFINE n == mid - 1
    <3>1. n \in Int /\ mid = n + 1
      OBVIOUS
    <3>2. inCycle = (n % Cycle) + 1
      BY <2>1
    <3> HIDE DEF n
    <3>3. /\ n % Cycle \in 0 .. Cycle - 1 /\ n \div Cycle \in Int
          /\ n % Cycle = n - Cycle * (n \div Cycle)
      BY <3>1, CycleTyped, Remainder
    <3>4. inCycle \in 1 .. Cycle
      BY <3>2, <3>3, CycleTyped
    <3>5. mid = (n \div Cycle) * Cycle + inCycle
      BY <3>1, <3>2, <3>3, CycleTyped
    <3> QED
      BY <3>3, <3>4, <3>5
  <2>2. CASE ~(mid > Cycle)
    <3>1. inCycle = mid /\ mid = 0 * Cycle + inCycle
      BY <2>2, CycleTyped
    <3> QED
      BY <2>2, <3>1, CycleTyped
  <2> QED
    BY <2>1, <2>2
<1>2. /\ phases \in Nat /\ OpaTap * phases >= inCycle
      /\ OpaTap * phases < inCycle + OpaTap
  <2>1. inCycle \in Nat
    BY <1>1, CycleTyped
  <2>2. /\ CeilDiv(inCycle, OpaTap) \in Nat
        /\ OpaTap * CeilDiv(inCycle, OpaTap) >= inCycle
        /\ OpaTap * CeilDiv(inCycle, OpaTap) < inCycle + OpaTap
    BY <2>1, CeilDivBounds
  <2> QED
    BY <2>2
<1> DEFINE rest == inCycle - (phases - 1) * OpaTap
<1>3. rest \in Nat /\ (phases - 1) * OpaTap = inCycle - rest
  BY <1>1, <1>2, CycleTyped
<1>4. dtaps = CeilDiv(rest, DchainTap)
  OBVIOUS
<1> HIDE DEF rest
<1>5. /\ dtaps \in Nat /\ DchainTap * dtaps >= rest
      /\ DchainTap * dtaps < rest + DchainTap
  <2>1. /\ CeilDiv(rest, DchainTap) \in Nat
        /\ DchainTap * CeilDiv(rest, DchainTap) >= rest
        /\ DchainTap * CeilDiv(rest, DchainTap) < rest + DchainTap
    <3>1. rest \in Nat /\ DchainTap \in Nat \ {0}
      BY <1>3
    <3> QED
      BY <3>1, CeilDivBounds
  <2> QED
    BY <1>4, <2>1
<1>6. phases = 1 => inCycle <= OpaTap
  BY <1>1, <1>2, CycleTyped
<1>7. /\ (phases - 1) * OpaTap + dtaps * DchainTap >= inCycle
      /\ (phases - 1) * OpaTap + dtaps * DchainTap < inCycle + DchainTap
  <2>1. dtaps * DchainTap = DchainTap * dtaps /\ DchainTap * dtaps \in Int
    BY <1>5
  <2> QED
    BY <1>1, <1>3, <1>5, <2>1, CycleTyped
<1> QED
  BY <1>1, <1>2, <1>5, <1>6, <1>7

(* The centre of the range is the middle of the window, up to that and to  *)
(* what the range is off by.                                               *)
LEMMA CentreExact ==
    ASSUME Here, pc \in {"passing", "failing"}, SetCentre,
           UNCHANGED <<window, origin, v>>
    PROVE  StageExact'
<1>1. /\ Known /\ RangeExact /\ Placed
      /\ v \in 0 .. VfifoSize - 1 /\ v' = v /\ origin' = origin
      /\ workBgn \in Nat /\ workEnd \in Nat /\ workBgn >= OpaTap
  BY HereKnown DEF Here, SearchInv, TypeOK, PlaceInv, StageExact
<1>2. /\ First' = First /\ Last' = Last /\ Placed'
      /\ First \in Int /\ Last \in Int
  BY <1>1, FirstStays, Wide DEF Placed
<1>3. PICK slack \in {0, OpaTap} :
        /\ BgnExact(slack)
        /\ workBgn <= workEnd
        /\ Last - DchainTap < workEnd + slack /\ workEnd + slack <= Last
  BY <1>1 DEF RangeExact
<1>4. First <= workBgn
  BY <1>3 DEF BgnExact, In
<1> DEFINE mid    == (workBgn + workEnd) \div 2
           inCycle == IF mid > Cycle THEN ((mid - 1) % Cycle) + 1 ELSE mid
           phases == CeilDiv(inCycle, OpaTap)
           dtaps  == CeilDiv(inCycle - (phases - 1) * OpaTap, DchainTap)
<1>5. /\ phase' = IF phases = 1 THEN 1 ELSE phases - 1
      /\ delay' = IF phases = 1 THEN 0 ELSE dtaps
      /\ pc' = "settle" /\ i' = 0
  BY DEF SetCentre
<1>6. /\ mid \in Nat \ {0} /\ workBgn <= mid
      /\ 2 * mid <= workBgn + workEnd /\ workBgn + workEnd <= 2 * mid + 1
  BY <1>1, <1>3
<1> HIDE DEF mid
<1>7. /\ inCycle \in 1 .. Cycle
      /\ \E q \in Int : mid = q * Cycle + inCycle
      /\ phases \in Nat /\ dtaps \in Nat
      /\ phases = 1 => inCycle <= OpaTap
      /\ phases # 1 =>
           /\ (phases - 1) * OpaTap + dtaps * DchainTap >= inCycle
           /\ (phases - 1) * OpaTap + dtaps * DchainTap < inCycle + DchainTap
  BY <1>6, CentreSetting
<1> HIDE DEF inCycle, phases, dtaps
<1>8. PICK q \in Int : mid = q * Cycle + inCycle
  BY <1>7
<1> DEFINE e == IF phases = 1 THEN OpaTap - inCycle
                ELSE (phases - 1) * OpaTap + dtaps * DchainTap - inCycle
           x == mid + e
<1>9. /\ e \in Int /\ e >= 0
      /\ phases = 1 => e = OpaTap - inCycle
      /\ phases # 1 => e < DchainTap
  <2>1. (phases - 1) * OpaTap \in Int /\ dtaps * DchainTap \in Int
    BY <1>7
  <2> QED
    BY <1>7, <2>1, CycleTyped
<1>10. x = q * Cycle + phase' * OpaTap + delay' * DchainTap
  <2>1. CASE phases = 1
    <3>1. phase' * OpaTap = OpaTap /\ delay' * DchainTap = 0
      BY <1>5, <2>1
    <3>2. e = OpaTap - inCycle
      BY <2>1
    <3>3. q * Cycle \in Int
      BY CycleTyped
    <3> QED
      BY <1>7, <1>8, <3>1, <3>2, <3>3, CycleTyped
  <2>2. CASE phases # 1
    <3>1. phase' = phases - 1 /\ delay' = dtaps
      BY <1>5, <2>2
    <3>2. e = phase' * OpaTap + delay' * DchainTap - inCycle
      BY <2>2, <3>1
    <3>3. /\ q * Cycle \in Int /\ phase' * OpaTap \in Int
          /\ delay' * DchainTap \in Int
      BY <1>7, <3>1, CycleTyped
    <3> QED
      BY <1>7, <1>8, <3>2, <3>3, CycleTyped
  <2> QED
    BY <2>1, <2>2
<1>11. x \in Int /\ x = mid + e
  BY <1>6, <1>9
<1> HIDE DEF e, x
<1>12. Middle(x)
  <2>1. CASE slack = 0
    <3>1. workBgn < First + DchainTap
      BY <1>3, <2>1 DEF BgnExact
    <3>2. e <= OpaTap - 1
      BY <1>7, <1>9, CycleTyped
    <3> QED
      BY <1>1, <1>2, <1>3, <1>4, <1>6, <1>9, <1>11, <2>1, <3>1, <3>2
         DEF Middle
  <2>2. CASE slack = OpaTap
    <3>1. /\ workBgn < First + 2 * OpaTap
          /\ \E k \in Int : workBgn = k * Cycle + OpaTap
      BY <1>3, <2>2 DEF BgnExact
    <3>2. CASE phases # 1
      BY <1>1, <1>2, <1>3, <1>4, <1>6, <1>9, <1>11, <2>2, <3>1, <3>2
         DEF Middle
    <3>3. CASE phases = 1 /\ inCycle = OpaTap
      <4>1. e = 0
        BY <1>9, <3>3
      <4> QED
        BY <1>1, <1>2, <1>3, <1>4, <1>6, <1>11, <2>2, <3>1, <4>1
           DEF Middle
    <3>4. CASE phases = 1 /\ inCycle < OpaTap
      <4>1. PICK k \in Int : workBgn = k * Cycle + OpaTap
        BY <3>1
      <4>2. Cycle * k < Cycle * q
        BY <1>6, <1>7, <1>8, <3>4, <4>1, CycleTyped
      <4>3. k < q
        BY <4>2, CycleTyped, Cancel
      <4>4. q * Cycle >= k * Cycle + Cycle
        <5>1. q - k - 1 \in Nat
          BY <4>3
        <5>2. (q - k - 1) * Cycle >= 0
          BY <5>1, CycleTyped
        <5> QED
          BY <5>2, CycleTyped
      <4>5. mid >= workBgn + Cycle - OpaTap + 1
        BY <1>1, <1>6, <1>7, <1>8, <4>1, <4>4, CycleTyped
      <4>6. Last - First >= 2 * Cycle - OpaTap
        BY <1>1, <1>2, <1>3, <1>4, <1>6, <2>2, <4>5, CycleTyped
      <4> QED
        BY <1>1, <1>2, <4>6, Wide, CycleTyped
    <3> QED
      BY <1>7, <3>2, <3>3, <3>4, CycleTyped
  <2> QED
    BY <2>1, <2>2
<1>13. PICK y \in Int : y = x
  BY <1>11
<1>14. Middle(y)'
  BY <1>2, <1>12, <1>13 DEF Middle
<1>15. PICK vv \in 0 .. VfifoSize - 1 : At(origin, vv, q * Cycle)
  <2> DEFINE w == (origin + q) % VfifoSize
  <2>1. origin \in Int /\ origin + q \in Int /\ q * Cycle \in Int
    BY <1>1, CycleTyped DEF Known
  <2>2. At(origin, origin + q, 0 + q * Cycle)
    BY <1>1, <2>1, AtOrigin, AtShift
  <2>3. 0 + q * Cycle = q * Cycle
    BY <2>1
  <2>4. At(origin, origin + q, q * Cycle)
    BY <2>2, <2>3
  <2>5. w \in 0 .. VfifoSize - 1
    BY <2>1, Remainder
  <2>6. At(origin, w, q * Cycle)
    BY <1>1, <2>1, <2>4, AtVfifo
  <2> QED
    BY <2>5, <2>6
<1>16. Pushes(vv)' < VfifoSize - i'
  BY <1>1, <1>5, <1>15 DEF Pushes
<1>17. At(origin', vv, q * Cycle)
  BY <1>1, <1>15
<1>18. y = q * Cycle + phase' * OpaTap + delay' * DchainTap
  BY <1>10, <1>13
<1>19. SettleExact'
  BY <1>14, <1>15, <1>16, <1>17, <1>18 DEF SettleExact
<1> QED
  BY <1>2, <1>5, <1>19 DEF StageExact

LEMMA MeasuresExact == Here /\ Measure => StageExact'
<1> SUFFICES ASSUME Here, Measure PROVE StageExact'
  OBVIOUS
<1>1. CASE FoundFailing \/ NotMeasured
  <2>1. /\ pc \in {"passing", "failing"} /\ SetCentre
        /\ UNCHANGED <<window, origin, v>>
    BY <1>1 DEF FoundFailing, NotMeasured, pushVars
  <2> QED
    BY <2>1, CentreExact
<1>2. CASE StillFailing \/ FoundPassing \/ StillPassing
  <2>1. /\ pc \in {"passing", "failing"} /\ pc' \in {"passing", "failing"}
        /\ UNCHANGED <<window, origin, workBgn, workEnd>>
        /\ RangeExact /\ Placed
    BY <1>2 DEF StillFailing, FoundPassing, StillPassing, pushVars, workVars,
                Here, StageExact
  <2>2. First' = First /\ Last' = Last /\ Placed'
    BY <2>1, FirstStays DEF Placed
  <2>3. RangeExact'
    BY <2>1, <2>2 DEF RangeExact, BgnExact, In
  <2> QED
    BY <2>1, <2>2, <2>3 DEF StageExact
<1> QED
  BY <1>1, <1>2 DEF Measure


(* What is within a phase tap and a half of the middle is in the window.   *)
LEMMA MiddleReads ==
    ASSUME Known, NEW x \in Int, Middle(x)
    PROVE  In(x) /\ Last - Total < x /\ x < First + Total
<1>1. /\ 2 * x - First - Last <= 3 * OpaTap
      /\ 2 * x - First - Last >= -(3 * OpaTap)
  BY Wide DEF Middle
<1>2. First <= x /\ x <= Last
  BY <1>1, Wide
<1> QED
  BY <1>1, <1>2, Wide, CycleTyped DEF In

(* The last pushes of the VFIFO end in the cycle of the middle.            *)
LEMMA SettlesExact == Here /\ (SettlePasses \/ SettleFails) => StageExact'
<1> SUFFICES ASSUME Here, SettlePasses \/ SettleFails PROVE StageExact'
  OBVIOUS
<1>1. /\ Known /\ pc = "settle" /\ window' = window /\ origin' = origin
      /\ v \in 0 .. VfifoSize - 1 /\ i \in 0 .. VfifoSize - 1
      /\ phase \in Int /\ delay \in Int
      /\ phase' = phase /\ delay' = delay
      /\ SettleExact /\ Placed
  BY HereKnown DEF Here, SearchInv, TypeOK, PlaceInv, StageExact,
                   SettlePasses, SettleFails, pushVars, hwVars
<1>2. /\ First' = First /\ Last' = Last /\ Placed'
      /\ First \in Int /\ Last \in Int
  BY <1>1, FirstStays, Wide DEF Placed
<1>3. PICK x \in Int, m \in Int, vv \in 0 .. VfifoSize - 1 :
        /\ Middle(x) /\ x = m * Cycle + phase * OpaTap + delay * DchainTap
        /\ At(origin, vv, m * Cycle)
        /\ Pushes(vv) < VfifoSize - i
  BY <1>1 DEF SettleExact
<1>4. In(x) /\ Last - Total < x /\ x < First + Total
  BY <1>1, <1>3, MiddleReads
<1>5. CASE SettlePasses
  <2> DEFINE n == v - vv
             c == m * Cycle + n * Cycle
             y == x + n * Cycle
             a == (y - First) % Total
             q == (y - First) \div Total
  <2>1. /\ n \in Int /\ m * Cycle \in Int /\ c \in Int /\ y \in Int
        /\ n * Cycle \in Int /\ phase * OpaTap \in Int
        /\ delay * DchainTap \in Int /\ vv + n = v
        /\ c = m * Cycle + n * Cycle /\ y = x + n * Cycle
    BY <1>1, <1>3, CycleTyped
  <2> HIDE DEF n, c, y
  <2>2. At(origin, vv + n, m * Cycle + n * Cycle)
    BY <1>1, <1>3, <2>1, AtShift
  <2>3. At(origin, v, c)
    BY <2>1, <2>2
  <2>4. Taps(c, phase, delay) = y
    BY <1>3, <2>1 DEF Taps
  <2>5. Time(v, phase, delay) = TimeOf(y)
    <3>1. v \in Int /\ phase \in Int /\ delay \in Int /\ c \in Int
      BY <1>1, <2>1
    <3>2. Meets(v, phase, delay, c)
      BY <1>1, <2>3, <3>1, AtTime
    <3> QED
      BY <2>4, <3>2 DEF Meets
  <2>6. a \in 0 .. Total - 1 /\ q \in Int /\ a = y - First - Total * q
    <3>1. y - First \in Int
      BY <1>2, <2>1
    <3>2. /\ a \in 0 .. Total - 1 /\ q \in Int
          /\ a = (y - First) - Total * q
      BY <3>1, CycleTyped, Remainder
    <3> HIDE DEF a, q
    <3> QED
      BY <1>2, <2>1, <3>2, CycleTyped
  <2>7. After(TimeOf(y)) = a
    BY <1>1, <2>1, AfterOf
  <2> HIDE DEF a, q
  <2>8. a <= window.len
    <3>1. TimeOf(y) \in Int
      <4> DEFINE t == origin * Cycle + y
      <4>1. t \in Int
        BY <1>1, <2>1, KnownTyped
      <4> HIDE DEF t
      <4>2. t % Total \in Int
        BY <4>1, CycleTyped, Remainder
      <4> QED
        BY <4>2 DEF TimeOf, t
    <3>2. MayPass(TimeOf(y))
      BY <1>5, <2>5 DEF SettlePasses
    <3> QED
      BY <1>1, <2>7, <3>1, <3>2, TestExact
  <2>9. a + First = x + Cycle * (n - VfifoSize * q)
    <3>1. Total * q = Cycle * (VfifoSize * q)
      BY <2>6, CycleTyped DEF Total
    <3>2. VfifoSize * q \in Int
      BY <2>6
    <3>3. Cycle * (n - VfifoSize * q) = n * Cycle - Total * q
      BY <2>1, <2>6, <3>1, <3>2, CycleTyped
    <3>4. Total * q \in Int
      BY <2>6, CycleTyped
    <3> QED
      BY <1>2, <2>1, <2>6, <3>3, <3>4
  <2>10. n - VfifoSize * q = 0
    <3> DEFINE z == n - VfifoSize * q
    <3>1. z \in Int
      BY <2>1, <2>6
    <3>2. a + First = x + Cycle * z
      BY <2>9
    <3> HIDE DEF z
    <3>3. /\ 2 * x - First - Last <= 3 * OpaTap
          /\ 2 * x - First - Last >= -(3 * OpaTap)
      BY <1>2, <1>3 DEF Middle
    <3>4. a >= 0 /\ a <= Last - First /\ a \in Int
      BY <1>1, <2>6, <2>8, FirstTyped, KnownTyped, CycleTyped
    <3>5. /\ 2 * (Cycle * z) < 2 * Cycle /\ 2 * (Cycle * z) > -(2 * Cycle)
          /\ Cycle * z \in Int
      <4>1. Cycle * z \in Int
        BY <3>1, CycleTyped
      <4> QED
        BY <1>1, <1>2, <3>2, <3>3, <3>4, <4>1, Wide, CycleTyped
    <3>6. Cycle * z < Cycle * 1 /\ Cycle * (-1) < Cycle * z
      BY <3>5, CycleTyped
    <3>7. z < 1 /\ -1 < z
      BY <3>1, <3>6, CycleTyped, Cancel
    <3>8. z = 0
      BY <3>1, <3>7
    <3> QED
      BY <3>8 DEF z
  <2>11. a + First = x
    <3>1. Cycle * (n - VfifoSize * q) = 0
      BY <2>10, CycleTyped
    <3> QED
      BY <2>9, <3>1
  <2>12. First + After(Time(v, phase, delay)) = x
    BY <1>2, <2>5, <2>6, <2>7, <2>11, CycleTyped
  <2>13. /\ pc' = "done" /\ ret' = 1 /\ v' = v
    BY <1>5 DEF SettlePasses, Return, hwVars
  <2>14. After(Time(v, phase, delay))' = After(Time(v, phase, delay))
    BY <1>1, <2>13 DEF After, Time
  <2>15. Middle(First + After(Time(v, phase, delay)))'
    BY <1>2, <1>3, <2>12, <2>14 DEF Middle
  <2>16. DoneExact'
    BY <2>13, <2>15 DEF DoneExact
  <2> QED
    BY <2>13, <2>16 DEF StageExact
<1>6. CASE SettleFails
  <2>1. v' = IncrVfifo(v) /\ i' = i + 1
    BY <1>6 DEF SettleFails
  <2>2. v # vv
    <3> SUFFICES ASSUME v = vv PROVE FALSE
      OBVIOUS
    <3>1. m * Cycle \in Int /\ At(origin, v, m * Cycle)
      BY <1>3, CycleTyped
    <3>2. MayFail(Time(v, phase, delay)) => ~In(x)
      BY <1>1, <1>3, <1>4, <3>1, Tested
    <3> QED
      BY <1>4, <1>6, <3>2 DEF SettleFails
  <2>3. Pushes(vv)' = Pushes(vv) - 1 /\ Pushes(vv) \in Int /\ Pushes(vv) >= 1
    <3>1. CASE v + 1 < VfifoSize
      <4>1. v' = v + 1
        BY <1>1, <2>1, <3>1 DEF IncrVfifo
      <4> QED
        BY <1>1, <1>3, <2>2, <4>1 DEF Pushes
    <3>2. CASE v + 1 = VfifoSize
      <4>1. v' = 0
        BY <1>1, <2>1, <3>2 DEF IncrVfifo
      <4> QED
        BY <1>1, <1>3, <2>2, <3>2, <4>1 DEF Pushes
    <3> QED
      BY <1>1, <3>1, <3>2
  <2>4. i' < VfifoSize /\ Pushes(vv)' < VfifoSize - i'
    BY <1>1, <1>3, <2>1, <2>3
  <2>5. pc' = "settle"
    BY <1>1, <1>6, <2>4 DEF SettleFails
  <2>6. Middle(x)'
    BY <1>2, <1>3 DEF Middle
  <2>7. /\ x = m * Cycle + phase' * OpaTap + delay' * DchainTap
        /\ At(origin', vv, m * Cycle)
    BY <1>1, <1>3
  <2>8. SettleExact'
    BY <2>4, <2>6, <2>7 DEF SettleExact
  <2> QED
    BY <1>2, <2>5, <2>8 DEF StageExact
<1> QED
  BY <1>5, <1>6

-----------------------------------------------------------------------------
LEMMA NextExact == SearchInv /\ SearchExact /\ [Next]_vars => SearchExact'
<1> SUFFICES ASSUME SearchInv, SearchExact, [Next]_vars, UsualWindow'
             PROVE  StageExact'
  BY DEF SearchExact
<1>1. window' = window
  BY DEF Next, Start, FindBegin, FindEnd, Measure, PushPasses, PushFails,
         BeginFails, BeginFound, BeginFoundNarrow, BackoffFails,
         BackoffPasses, BackoffOver, EndSkipsPhaseZero, EndPasses, EndFuzzy,
         EndFound, EdgePasses, EdgeFails, EdgeOver, StillFailing,
         FoundPassing, StillPassing, FoundFailing, NotMeasured, SettlePasses,
         SettleFails, vars
<1>2. Here
  BY <1>1 DEF Here, SearchExact, UsualWindow
<1>3. CASE Start
  <2>1. /\ pc' = "push" /\ v' = 0 /\ pushed' = 0 /\ phase' = 1 /\ delay' = 0
    BY <1>2, <1>3 DEF Start, Here, StageExact, SearchInv, PlaceInv, pushVars
  <2>2. \A vv \in 0 .. pushed' - 1 : Fails(vv)' => failCnt' = 1 /\ vv = 0
    BY <2>1
  <2>3. PushExact'
    BY <2>1, <2>2 DEF PushExact
  <2> QED
    BY <2>1, <2>3 DEF StageExact
<1>4. CASE UNCHANGED vars
  BY <1>2, <1>4 DEF vars, hwVars, pushVars, loopVars, workVars, trackVars,
     Here, StageExact, PushExact, Placed, BeginExact, BackoffExact, EndExact,
     EdgeExact, RangeExact, SettleExact, DoneExact, BgnExact, LastPhase,
     LastTap, Middle, Pushes, Fails, In, First, Last, After, Time
<1> QED
  BY <1>2, <1>3, <1>4, PushesExact, BeginsExact, BacksExact, EndsExact,
     EdgesExact, MeasuresExact, SettlesExact DEF Next, FindBegin, FindEnd

LEMMA AlwaysExact == Spec => [](SearchInv /\ SearchExact)
<1>1. SearchInv /\ SearchExact /\ [Next]_vars => (SearchInv /\ SearchExact)'
  BY NextSearch, NextExact
<1> QED
  BY InitSearch, InitExact, <1>1, PTL DEF Spec

(* The range that step 6 takes the centre of reads from one end to the     *)
(* other.                                                                  *)
THEOREM RangeIsRead == Spec => []RangeReads
<1>1. SearchInv /\ SearchExact => RangeReads
  <2> SUFFICES ASSUME SearchInv, SearchExact, pc = "passing", UsualWindow
               PROVE  /\ After(TimeOf(workBgn)) <= window.len
                      /\ After(TimeOf(workBgn)) + workEnd - workBgn
                             <= window.len
    BY DEF RangeReads
  <2>1. /\ Known /\ RangeExact /\ workBgn \in Int /\ workEnd \in Int
    BY DEF Known, SearchInv, TypeOK, SearchExact, StageExact
  <2>2. PICK slack \in {0, OpaTap} :
          /\ BgnExact(slack)
          /\ workBgn <= workEnd
          /\ Last - DchainTap < workEnd + slack /\ workEnd + slack <= Last
    BY <2>1 DEF RangeExact
  <2>3. First <= workBgn /\ workBgn <= Last
    BY <2>2 DEF BgnExact, In
  <2>4. workBgn < First + Total
    BY <2>1, <2>3, Wide, CycleTyped
  <2>5. After(TimeOf(workBgn)) = workBgn - First
    BY <2>1, <2>3, <2>4, AfterInside
  <2> QED
    BY <2>1, <2>2, <2>3, <2>5, FirstTyped, KnownTyped
<1> QED
  BY AlwaysExact, <1>1, PTL

(* A search that succeeds leaves the DQS enable in the middle of a usual   *)
(* window, wherever that lies.                                             *)
THEOREM EndsCentred == Spec => []Centred
<1>1. SearchInv /\ SearchExact => Centred
  <2> SUFFICES ASSUME SearchInv, SearchExact, pc = "done", UsualWindow
               PROVE  LET off == 2 * After(Time(v, phase, delay)) - window.len
                      IN  off \in -(2 * OpaTap + DchainTap)
                                      .. 2 * OpaTap + DchainTap
    BY DEF Centred
  <2> DEFINE t == Time(v, phase, delay)
  <2>1. Known /\ DoneExact
    BY DEF Known, SearchInv, TypeOK, SearchExact, StageExact
  <2>2. Middle(First + After(t))
    BY <2>1 DEF DoneExact
  <2>3. After(t) \in Int
    <3> DEFINE n == v * Cycle + phase * OpaTap + delay * DchainTap
               m == t - window.bgn
    <3>1. n \in Int /\ t = n % Total
      BY CycleTyped DEF SearchInv, TypeOK, Time
    <3> HIDE DEF n, t
    <3>2. t \in Int
      BY <3>1, CycleTyped, Remainder
    <3>3. m \in Int
      BY <2>1, <3>2, KnownTyped
    <3> HIDE DEF m
    <3>4. m % Total \in Int
      BY <3>3, CycleTyped, Remainder
    <3> QED
      BY <3>4 DEF After, m
  <2> HIDE DEF t
  <2>4. 2 * After(t) - window.len
            \in -(2 * OpaTap + DchainTap) .. 2 * OpaTap + DchainTap
    BY <2>1, <2>2, <2>3, FirstTyped, KnownTyped DEF Middle
  <2> QED
    BY <2>4 DEF t
<1> QED
  BY AlwaysExact, <1>1, PTL

(* A usual window is always found.                                         *)
THEOREM AlwaysFound == Spec => []FindsWindow
<1>1. SearchInv /\ SearchExact => FindsWindow
  BY DEF SearchExact, StageExact, DoneExact, FindsWindow
<1> QED
  BY AlwaysExact, <1>1, PTL
=============================================================================
