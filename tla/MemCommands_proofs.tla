------------------------- MODULE MemCommands_proofs --------------------------
(***************************************************************************)
(* First the engine, for every value of its counters, and whatever the CPU *)
(* loads and runs before: the nested loops of the resets and of the delays *)
(* last exactly as long as their counters ask for.  The invariant counts   *)
(* what is left: at every instruction of a loop, the clocks gone and the   *)
(* clocks left, as the counters have them, make up the whole; and a        *)
(* counter that the loop has passed is back at its load.                   *)
(*                                                                         *)
(* Then delay_for_n_mem_clocks, for every argument: its counters fit into  *)
(* eight bits, and the loops that it sets up last, by the theorem on the   *)
(* engine, at least as long as it is asked for.                            *)
(*                                                                         *)
(* Then the procedures, for every board and every value of the generated   *)
(* counters.  The register writes of each part are a program (Prog) whose  *)
(* every run finds its jumps set up by the writes before it (Ready), so    *)
(* that a run, once it is started, stays within the block of the ROM that  *)
(* belongs to its label (Course), until it returns.  The pins are as the   *)
(* part that is under way, or the one before it, has set them (PinsInv,    *)
(* ClearInv); so the commands of the block go to a rank that they may go   *)
(* to (Addressee).                                                         *)
(*                                                                         *)
(* Then the ranks of the memory.  None is forgotten: until it has been     *)
(* sent what it needs, its part is still to do (Waiting, ToHandOff), or    *)
(* the run that sends it is under way (AboutTo); and what it has got it    *)
(* keeps, since the runs that follow send it nothing that undoes it        *)
(* (PhaseInv, HandInv).  So the memory that is handed off is in its user   *)
(* configuration.                                                          *)
(*                                                                         *)
(* Last what MemTiming_proofs needs of each part, register by register:    *)
(* which value a counter or a jump has in each of its runs (Exact), how    *)
(* many writes lie between two runs (Pause), and in what order the mode    *)
(* registers are loaded (InOrder).  And the times that a rank is built     *)
(* with, which never change (BuiltInv).                                    *)
(***************************************************************************)
EXTENDS MemCommands, SequenceTheorems, FiniteSetTheorems, TLAPS

(* The clocks that are left at instruction a of a loop that starts at l,   *)
(* with counters c0, c1, c2 of the loads r0 and r1.                        *)
Inner2(r0) == 2 * (r0 + 1)
Middle(r0, r1) == (r1 + 1) * (Inner2(r0) + 1)

AfterInner(r0, r1, c1, c2) ==
    (1 + c1 * (Inner2(r0) + 1)) + (1 + c2 * (Middle(r0, r1) + 1)) + 1

ResetLeft ==
    LET r0 == reload[0]  r1 == reload[1]
        c0 == cntr[0]  c1 == cntr[1]  c2 == cntr[2]
    IN IF ip = label THEN 2 * (c0 + 1) + AfterInner(r0, r1, c1, c2)
       ELSE IF ip = label + 1 THEN 2 * c0 + 1 + AfterInner(r0, r1, c1, c2)
       ELSE IF ip = label + 2 THEN AfterInner(r0, r1, c1, c2)
       ELSE IF ip = label + 3 THEN (1 + c2 * (Middle(r0, r1) + 1)) + 1
       ELSE 1

ResetInv ==
    running /\ InReset =>
        /\ ip \in label .. label + 4
        /\ ip >= label + 2 => cntr[0] = reload[0]
        /\ ip >= label + 3 => cntr[1] = reload[1]
        /\ ip >= label + 4 => cntr[2] = reload[2]
        /\ elapsed + ResetLeft = ResetCycles(reload[0], reload[1], reload[2])

Delay2Left ==
    LET r0 == reload[0]  c0 == cntr[0]  c1 == cntr[1]
    IN IF ip = IDLE_LOOP2 THEN (c0 + 2) + c1 * (r0 + 2) + 1
       ELSE IF ip = IDLE_LOOP1 THEN 1 + c1 * (r0 + 2) + 1
       ELSE 1

Delay2Inv ==
    running /\ InDelay2 =>
        /\ ip \in IDLE_LOOP2 .. IDLE_LOOP2 + 2
        /\ ip >= IDLE_LOOP2 + 1 => cntr[0] = reload[0]
        /\ ip >= IDLE_LOOP2 + 2 => cntr[1] = reload[1]
        /\ elapsed + Delay2Left = Delay2Cycles(reload[0], reload[1])

Delay1Inv ==
    running /\ InDelay1 =>
        /\ ip \in IDLE_LOOP1 .. IDLE_LOOP1 + 1
        /\ ip >= IDLE_LOOP1 + 1 => cntr[1] = reload[1]
        /\ elapsed + (IF ip = IDLE_LOOP1 THEN cntr[1] + 2 ELSE 1)
               = Delay1Cycles(reload[1])

IInv == EngineTypeOK /\ ResetInv /\ Delay2Inv /\ Delay1Inv
-----------------------------------------------------------------------------
(* What the ROM has at the loops.                                          *)
LEMMA RomReset ==
    ASSUME NEW l \in {INIT_RESET_0_CKE_0, INIT_RESET_1_CKE_0}
    PROVE  /\ \A a \in {l, l + 1, l + 2, l + 3} : a \notin Returns
           /\ l + 4 \in Returns
           /\ \A c \in Cntrs :
                 /\ l \notin JumpsOn(c)
                 /\ l + 1 \in JumpsOn(c) <=> c = 0
                 /\ l + 2 \in JumpsOn(c) <=> c = 1
                 /\ l + 3 \in JumpsOn(c) <=> c = 2
BY DEF INIT_RESET_0_CKE_0, INIT_RESET_1_CKE_0, Returns, Cntrs, JumpsOn

LEMMA RomDelay ==
    /\ \A a \in {IDLE_LOOP2, IDLE_LOOP1} : a \notin Returns
    /\ IDLE_LOOP2 + 2 \in Returns /\ IDLE_LOOP1 = IDLE_LOOP2 + 1
    /\ \A c \in Cntrs :
          /\ IDLE_LOOP2 \in JumpsOn(c) <=> c = 0
          /\ IDLE_LOOP1 \in JumpsOn(c) <=> c = 1
BY DEF IDLE_LOOP2, IDLE_LOOP1, Returns, Cntrs, JumpsOn

LEMMA LastReturns ==
    ASSUME NEW a \in Addresses, a \notin Returns
    PROVE  a + 1 \in Addresses
BY DEF Addresses, Returns

(* One round less of a loop is its length less.                            *)
LEMMA OneRound ==
    ASSUME NEW n \in Int, NEW len \in Int
    PROVE  /\ n * len \in Int
           /\ n * len = (n - 1) * len + len
           /\ (n + 1) * len = n * len + len
           /\ n = 0 => n * len = 0
OBVIOUS
LEMMA Ticks == elapsed \in Nat /\ Tick => elapsed' \in Nat
BY DEF Tick
-----------------------------------------------------------------------------
(* The engine keeps its types.                                             *)
LEMMA TypeStep == EngineTypeOK /\ [Next]_engineVars => EngineTypeOK'
<1> SUFFICES ASSUME EngineTypeOK, [Next]_engineVars PROVE EngineTypeOK'
  OBVIOUS
<1> USE DEF EngineTypeOK
<1>1. ASSUME NEW c \in Cntrs, NEW n \in 0 .. MaxCntr, LoadCntr(c, n)
      PROVE  EngineTypeOK'
  BY <1>1 DEF LoadCntr
<1>2. ASSUME NEW c \in Cntrs, NEW a \in Addresses, LoadJump(c, a)
      PROVE  EngineTypeOK'
  BY <1>2 DEF LoadJump
<1>3. ASSUME NEW a \in Addresses, Run(a) PROVE EngineTypeOK'
  BY <1>3 DEF Run
<1>4. CASE Return
  BY <1>4, Ticks DEF Return
<1>5. CASE Advance
  BY <1>5, LastReturns, Ticks DEF Advance
<1>6. ASSUME NEW c \in Cntrs, Jump(c) PROVE EngineTypeOK'
  <2>1. cntr[c] - 1 \in 0 .. MaxCntr /\ jump[c] \in Addresses
    BY <1>6, CntrAssumption DEF Jump
  <2> QED
    BY <1>6, <2>1, Ticks DEF Jump
<1>7. ASSUME NEW c \in Cntrs, Exhaust(c) PROVE EngineTypeOK'
  <2>1. ip \notin Returns
    BY <1>7 DEF Exhaust, Returns, JumpsOn, Cntrs
  <2>2. ip + 1 \in Addresses /\ reload[c] \in 0 .. MaxCntr
    BY <2>1, LastReturns
  <2> QED
    BY <1>7, <2>2, Ticks DEF Exhaust
<1>8. CASE UNCHANGED engineVars
  BY <1>8 DEF engineVars
<1> QED
  BY <1>1, <1>2, <1>3, <1>4, <1>5, <1>6, <1>7, <1>8 DEF Next, Play

LEMMA TypeInit == Init => EngineTypeOK
<1> SUFFICES ASSUME Init PROVE EngineTypeOK
  OBVIOUS
<1>1. 0 \in 0 .. MaxCntr /\ 0 \in Addresses /\ 0 \in Nat
  BY CntrAssumption DEF Addresses
<1> QED
  BY <1>1 DEF Init, EngineTypeOK

(* The engine keeps its types, whatever the CPU loads and runs.            *)
THEOREM EngineTypes == Spec => []EngineTypeOK
<1>1. Init => EngineTypeOK
  BY TypeInit
<1>2. EngineTypeOK /\ [Next]_engineVars => EngineTypeOK'
  BY TypeStep
<1> QED
  BY <1>1, <1>2, PTL DEF Spec
-----------------------------------------------------------------------------
(* The CPU does not touch the engine while it plays.                       *)
Untouched == UNCHANGED <<reload, jump, label, first>>

Loads ==
    \/ \E c \in Cntrs, n \in 0 .. MaxCntr : LoadCntr(c, n)
    \/ \E c \in Cntrs, a \in Addresses : LoadJump(c, a)

LEMMA Idle == Loads \/ Return => ~running'
BY DEF Loads, LoadCntr, LoadJump, Return

LEMMA PlayKeeps ==
    ASSUME NEW c \in Cntrs, Advance \/ Jump(c) \/ Exhaust(c)
    PROVE  running /\ running' /\ ip \notin Returns /\ Untouched
                   /\ (label \in Timed => elapsed' = elapsed + 1)
BY DEF Tick, Advance, Jump, Exhaust, Untouched, Returns, JumpsOn, Cntrs

(* The loop of a reset, step by step.                                      *)
LEMMA ResetRun ==
    ASSUME EngineTypeOK, NEW a \in Addresses, Run(a)
    PROVE  ResetInv'
<1> SUFFICES ASSUME InReset' PROVE
      /\ ip' = label' /\ elapsed' = 0
      /\ ResetLeft' = ResetCycles(reload[0], reload[1], reload[2])
  <2>1. reload' = reload /\ ip' = a /\ label' = a /\ a \in Int
    BY DEF Run, Addresses
  <2>2. ResetCycles(reload[0], reload[1], reload[2])'
            = ResetCycles(reload[0], reload[1], reload[2])
    BY <2>1
  <2>3. /\ ip' \in label' .. label' + 4
        /\ ~(ip' >= label' + 2) /\ ~(ip' >= label' + 3) /\ ~(ip' >= label' + 4)
    BY <2>1
  <2>4. ASSUME InReset' PROVE elapsed' + ResetLeft' = ResetLeft' /\ elapsed' = 0
    <3>1. elapsed' = 0
      BY DEF Run
    <3>2. ResetLeft' \in Int
      <4>1. cntr' = cntr /\ \A k \in {0, 1, 2} : reload[k] \in Int /\ cntr[k] \in Int
        BY CntrAssumption DEF Run, EngineTypeOK, Cntrs
      <4> QED
        BY <2>1, <4>1 DEF ResetLeft, AfterInner, Inner2, Middle
    <3>3. \A x, y : x = 0 /\ y \in Int => x + y = y
      OBVIOUS
    <3> QED
      BY <3>1, <3>2, <3>3, Zenon
  <2> QED
    BY <2>2, <2>3, <2>4 DEF ResetInv
<1>1. /\ ip' = label' /\ elapsed' = 0
      /\ cntr' = cntr /\ reload' = reload /\ first' = cntr /\ label' \in Int
  BY DEF Run, Addresses
<1>2. cntr[0] = reload[0] /\ cntr[1] = reload[1] /\ cntr[2] = reload[2]
  BY <1>1 DEF InReset, Nested
<1>3. reload[0] \in Int /\ reload[1] \in Int /\ reload[2] \in Int
  BY CntrAssumption DEF EngineTypeOK, Cntrs
<1> DEFINE len == Inner2(reload[0]) + 1
           mid == Middle(reload[0], reload[1])
<1>4. len \in Int /\ mid \in Int /\ mid = reload[1] * len + len
  BY <1>3, OneRound DEF Inner2, Middle
<1>5. (reload[2] + 1) * (mid + 1) = reload[2] * (mid + 1) + (mid + 1)
  BY <1>3, <1>4, OneRound
<1>6. ResetCycles(reload[0], reload[1], reload[2]) = (reload[2] + 1) * (mid + 1) + 1
  BY DEF ResetCycles, Middle, Inner2
<1>7. ResetLeft' = 2 * (reload[0] + 1)
                   + ((1 + reload[1] * len) + (1 + reload[2] * (mid + 1)) + 1)
  <2> /\ cntr'[0] = reload[0] /\ cntr'[1] = reload[1] /\ cntr'[2] = reload[2]
      /\ reload'[0] = reload[0] /\ reload'[1] = reload[1]
    BY <1>1, <1>2
  <2> QED
    BY <1>1 DEF ResetLeft, AfterInner
<1>8. ResetLeft' = (reload[2] + 1) * (mid + 1) + 1
  <2> HIDE DEF mid
  <2>1. len = 2 * (reload[0] + 1) + 1
    BY DEF Inner2
  <2>2. reload[1] * len \in Int /\ reload[2] * (mid + 1) \in Int
    BY <1>3, <1>4, OneRound
  <2> HIDE DEF len
  <2> QED
    BY <1>3, <1>4, <1>5, <1>7, <2>1, <2>2
<1> QED
  BY <1>1, <1>6, <1>8

LEMMA ResetPlay ==
    ASSUME EngineTypeOK, ResetInv, NEW c \in Cntrs,
           Advance \/ Jump(c) \/ Exhaust(c)
    PROVE  ResetInv'
<1> SUFFICES ASSUME InReset
             PROVE  /\ ip' \in label .. label + 4
                    /\ ip' >= label + 2 => cntr'[0] = reload[0]
                    /\ ip' >= label + 3 => cntr'[1] = reload[1]
                    /\ ip' >= label + 4 => cntr'[2] = reload[2]
                    /\ ResetLeft' = ResetLeft - 1
                    /\ ResetLeft \in Int
  <2>1. /\ running /\ Untouched /\ elapsed \in Nat
        /\ InReset => elapsed' = elapsed + 1
    <3>1. InReset => label \in Timed
      BY DEF InReset, Timed
    <3> QED
      BY <3>1, PlayKeeps DEF EngineTypeOK
  <2>2. InReset' <=> InReset
    BY <2>1 DEF InReset, Nested, Untouched
  <2>3. ResetCycles(reload[0], reload[1], reload[2])'
           = ResetCycles(reload[0], reload[1], reload[2])
    BY <2>1 DEF Untouched
  <2> QED
    BY <2>1, <2>2, <2>3 DEF ResetInv, Untouched
<1> DEFINE r0 == reload[0]  r1 == reload[1]
           c0 == cntr[0]  c1 == cntr[1]  c2 == cntr[2]
           len == Inner2(r0) + 1
           mid == Middle(r0, r1) + 1
           tail == 1 + c2 * mid + 1
           inner == 1 + c1 * len + tail
<1>1. /\ running /\ ip \notin Returns /\ Untouched
  BY PlayKeeps
<1>2. /\ ip \in label .. label + 4
      /\ ip >= label + 2 => c0 = r0
      /\ ip >= label + 3 => c1 = r1
  BY <1>1 DEF ResetInv
<1>3. /\ label \in {INIT_RESET_0_CKE_0, INIT_RESET_1_CKE_0}
      /\ jump[0] = label /\ jump[1] = label /\ jump[2] = label
  BY DEF InReset, Nested
<1>4. /\ label \in Int /\ {0, 1, 2} \subseteq Cntrs
      /\ r0 \in Int /\ r1 \in Int /\ c0 \in Int /\ c1 \in Int /\ c2 \in Int
  BY CntrAssumption DEF EngineTypeOK, Cntrs, Addresses
<1>5. /\ len \in Int /\ mid \in Int /\ len = 2 * (r0 + 1) + 1
      /\ mid = r1 * len + len + 1
      /\ c1 * len \in Int /\ c2 * mid \in Int /\ r1 * len \in Int
  BY <1>4, OneRound DEF Inner2, Middle
<1>6. tail \in Int /\ inner \in Int
  BY <1>5
<1>7. ResetLeft = IF ip = label THEN 2 * (c0 + 1) + inner
                  ELSE IF ip = label + 1 THEN 2 * c0 + 1 + inner
                  ELSE IF ip = label + 2 THEN inner
                  ELSE IF ip = label + 3 THEN tail
                  ELSE 1
  BY <1>5 DEF ResetLeft, AfterInner
<1>8. ASSUME NEW d0 \in Int, NEW d1 \in Int, NEW d2 \in Int,
             cntr'[0] = d0, cntr'[1] = d1, cntr'[2] = d2
      PROVE  ResetLeft' =
               IF ip' = label THEN 2 * (d0 + 1) + 1 + d1 * len + (1 + d2 * mid + 1)
               ELSE IF ip' = label + 1 THEN 2 * d0 + 1 + 1 + d1 * len + (1 + d2 * mid + 1)
               ELSE IF ip' = label + 2 THEN 1 + d1 * len + (1 + d2 * mid + 1)
               ELSE IF ip' = label + 3 THEN 1 + d2 * mid + 1
               ELSE 1
  <2>1. d1 * len \in Int /\ d2 * mid \in Int
    BY <1>5, OneRound
  <2> QED
    BY <1>1, <1>8, <2>1 DEF ResetLeft, AfterInner, Untouched
<1> HIDE DEF len, mid
<1>9. CASE ip = label
  <2>1. Advance /\ ip' = ip + 1 /\ cntr' = cntr
    BY <1>9, <1>3, RomReset DEF Advance, Jump, Exhaust
  <2>2. cntr'[0] = c0 /\ cntr'[1] = c1 /\ cntr'[2] = c2 /\ ip' = label + 1 /\ label + 1 # label
    BY <1>4, <1>9, <2>1
  <2>3. ResetLeft' = 2 * c0 + 1 + 1 + c1 * len + (1 + c2 * mid + 1)
    BY <1>4, <1>8, <2>2
  <2>4. ResetLeft = 2 * (c0 + 1) + inner
    BY <1>7, <1>9
  <2> QED
    BY <1>2, <1>4, <1>5, <1>9, <2>2, <2>3, <2>4
<1>10. CASE ip = label + 1
  <2>1. c = 0 /\ (Jump(0) \/ Exhaust(0))
    BY <1>10, <1>3, RomReset DEF Advance, Jump, Exhaust, Cntrs
  <2>2. CASE Jump(0)
    <3>1. /\ ip' = label /\ cntr'[0] = c0 - 1 /\ cntr'[1] = c1 /\ cntr'[2] = c2
      BY <2>2, <1>3 DEF Jump, EngineTypeOK, Cntrs
    <3>2. c0 - 1 \in Int /\ label + 1 # label
      BY <1>4
    <3>3. ResetLeft' = 2 * (c0 - 1 + 1) + 1 + c1 * len + (1 + c2 * mid + 1)
      BY <1>4, <1>8, <3>1, <3>2
    <3>4. ResetLeft = 2 * c0 + 1 + inner
      BY <1>7, <1>10, <3>2
    <3> QED
      BY <1>2, <1>4, <1>5, <1>10, <3>1, <3>3, <3>4
  <2>3. CASE Exhaust(0)
    <3>1. /\ ip' = label + 2 /\ c0 = 0
          /\ cntr'[0] = r0 /\ cntr'[1] = c1 /\ cntr'[2] = c2
      BY <2>3, <1>4, <1>10 DEF Exhaust, EngineTypeOK, Cntrs
    <3>2. label + 1 # label /\ label + 2 # label /\ label + 2 # label + 1
      BY <1>4
    <3>3. ResetLeft' = 1 + c1 * len + (1 + c2 * mid + 1)
      BY <1>4, <1>8, <3>1, <3>2
    <3>4. ResetLeft = 2 * c0 + 1 + inner
      BY <1>7, <1>10, <3>2
    <3> QED
      BY <1>2, <1>4, <1>5, <1>10, <3>1, <3>3, <3>4
  <2> QED
    BY <2>1, <2>2, <2>3
<1>11. CASE ip = label + 2
  <2>1. c = 1 /\ (Jump(1) \/ Exhaust(1))
    BY <1>11, <1>3, RomReset DEF Advance, Jump, Exhaust, Cntrs
  <2>2. CASE Jump(1)
    <3>1. /\ ip' = label /\ cntr'[0] = c0 /\ cntr'[1] = c1 - 1 /\ cntr'[2] = c2
      BY <2>2, <1>3 DEF Jump, EngineTypeOK, Cntrs
    <3>2. c1 * len = (c1 - 1) * len + len
      BY <1>4, <1>5, OneRound
    <3>3. (c1 - 1) * len \in Int
      BY <1>4, <1>5, OneRound
    <3>4. ResetLeft' = 2 * (c0 + 1) + 1 + (c1 - 1) * len + (1 + c2 * mid + 1)
      <4>1. c1 - 1 \in Int
        BY <1>4
      <4> QED
        BY <1>4, <1>8, <3>1, <4>1
    <3>5. ResetLeft = inner
      <4>1. label + 2 # label /\ label + 2 # label + 1
        BY <1>4
      <4> QED
        BY <1>7, <1>11, <4>1
    <3>6. len = 2 * (c0 + 1) + 1
      BY <1>2, <1>4, <1>5, <1>11
    <3> QED
      BY <1>2, <1>4, <1>5, <1>11, <3>1, <3>2, <3>3, <3>4, <3>5, <3>6
  <2>3. CASE Exhaust(1)
    <3>1. /\ ip' = label + 3 /\ c1 = 0
          /\ cntr'[0] = c0 /\ cntr'[1] = r1 /\ cntr'[2] = c2
      BY <2>3, <1>4, <1>11 DEF Exhaust, EngineTypeOK, Cntrs
    <3>2. c1 * len = 0
      BY <1>5, <3>1, OneRound
    <3>3. ResetLeft' = tail
      BY <1>4, <1>8, <3>1
    <3>4. ResetLeft = 1 + tail
      BY <1>4, <1>7, <1>11, <3>2, <1>6
    <3> QED
      BY <1>11, <1>2, <3>1, <3>3, <3>4, <1>4, <1>6
  <2> QED
    BY <2>1, <2>2, <2>3
<1>12. CASE ip = label + 3
  <2>1. c = 2 /\ (Jump(2) \/ Exhaust(2))
    BY <1>12, <1>3, RomReset DEF Advance, Jump, Exhaust, Cntrs
  <2>2. CASE Jump(2)
    <3>1. /\ ip' = label /\ cntr'[0] = c0 /\ cntr'[1] = c1 /\ cntr'[2] = c2 - 1
      BY <2>2, <1>3 DEF Jump, EngineTypeOK, Cntrs
    <3>2. c2 * mid = (c2 - 1) * mid + mid
      BY <1>4, <1>5, OneRound
    <3>3. (c2 - 1) * mid \in Int
      BY <1>4, <1>5, OneRound
    <3>4. ResetLeft' = 2 * (c0 + 1) + 1 + c1 * len + (1 + (c2 - 1) * mid + 1)
      <4>1. c2 - 1 \in Int
        BY <1>4
      <4> QED
        BY <1>4, <1>8, <3>1, <4>1
    <3>5. ResetLeft = tail
      <4>1. label + 3 # label /\ label + 3 # label + 1 /\ label + 3 # label + 2
        BY <1>4
      <4> QED
        BY <1>7, <1>12, <4>1
    <3>6. mid = 2 * (c0 + 1) + 1 + c1 * len + 1
      BY <1>2, <1>4, <1>5, <1>12
    <3> QED
      BY <1>2, <1>4, <1>5, <1>12, <3>1, <3>2, <3>3, <3>4, <3>5, <3>6
  <2>3. CASE Exhaust(2)
    <3>1. /\ ip' = label + 4 /\ c2 = 0
          /\ cntr'[0] = c0 /\ cntr'[1] = c1 /\ cntr'[2] = reload[2]
      BY <2>3, <1>4, <1>12 DEF Exhaust, EngineTypeOK, Cntrs
    <3>2. c2 * mid = 0 /\ reload[2] \in Int
      BY <1>5, <3>1, OneRound, CntrAssumption DEF EngineTypeOK, Cntrs
    <3>3. label + 3 # label /\ label + 3 # label + 1 /\ label + 3 # label + 2
      BY <1>4
    <3>4. ResetLeft = tail
      BY <1>7, <1>12, <3>3
    <3>5. ResetLeft' = 1
      <4>1. /\ label + 4 # label /\ label + 4 # label + 1 /\ label + 4 # label + 2
            /\ label + 4 # label + 3
        BY <1>4
      <4> QED
        BY <1>4, <1>8, <3>1, <3>2, <4>1
    <3> QED
      BY <1>2, <1>4, <1>5, <1>12, <3>1, <3>2, <3>4, <3>5
  <2> QED
    BY <2>1, <2>2, <2>3
<1>13. ip # label + 4
  BY <1>1, <1>3, RomReset
<1> QED
  BY <1>2, <1>4, <1>9, <1>10, <1>11, <1>12, <1>13
-----------------------------------------------------------------------------
(* The loops of a delay.                                                   *)
LEMMA Delay2Run ==
    ASSUME EngineTypeOK, NEW a \in Addresses, Run(a)
    PROVE  Delay2Inv'
<1> SUFFICES ASSUME InDelay2'
             PROVE  /\ ip' = IDLE_LOOP2 /\ elapsed' = 0
                    /\ Delay2Left' = Delay2Cycles(reload[0], reload[1])
                    /\ Delay2Left' \in Int
  <2>1. reload' = reload
    BY DEF Run
  <2>2. \A x, y : x = 0 /\ y \in Int => x + y = y
    OBVIOUS
  <2>3. Delay2Cycles(reload[0], reload[1])' = Delay2Cycles(reload[0], reload[1])
    BY <2>1
  <2>4. /\ IDLE_LOOP2 \in IDLE_LOOP2 .. IDLE_LOOP2 + 2
        /\ ~(IDLE_LOOP2 >= IDLE_LOOP2 + 1) /\ ~(IDLE_LOOP2 >= IDLE_LOOP2 + 2)
    BY DEF IDLE_LOOP2
  <2> QED
    BY <2>2, <2>3, <2>4, Zenon DEF Delay2Inv
<1>1. /\ ip' = IDLE_LOOP2 /\ elapsed' = 0 /\ cntr' = cntr /\ reload' = reload
      /\ cntr[0] = reload[0] /\ cntr[1] = reload[1]
  BY DEF Run, InDelay2, Nested
<1>2. reload[0] \in Int /\ reload[1] \in Int
  BY CntrAssumption DEF EngineTypeOK, Cntrs
<1>3. Delay2Left' = (reload[0] + 2) + reload[1] * (reload[0] + 2) + 1
  <2>1. /\ cntr'[0] = reload[0] /\ cntr'[1] = reload[1] /\ reload'[0] = reload[0]
    BY <1>1
  <2> QED
    BY <1>1, <2>1 DEF Delay2Left, IDLE_LOOP1, IDLE_LOOP2
<1>4. /\ (reload[1] + 1) * (reload[0] + 2)
           = reload[1] * (reload[0] + 2) + (reload[0] + 2)
      /\ reload[1] * (reload[0] + 2) \in Int
  BY <1>2, OneRound
<1> QED
  BY <1>1, <1>2, <1>3, <1>4 DEF Delay2Cycles

LEMMA Delay2Play ==
    ASSUME EngineTypeOK, Delay2Inv, NEW c \in Cntrs,
           Advance \/ Jump(c) \/ Exhaust(c)
    PROVE  Delay2Inv'
<1> SUFFICES ASSUME InDelay2
             PROVE  /\ ip' \in IDLE_LOOP2 .. IDLE_LOOP2 + 2
                    /\ ip' >= IDLE_LOOP2 + 1 => cntr'[0] = reload[0]
                    /\ ip' >= IDLE_LOOP2 + 2 => cntr'[1] = reload[1]
                    /\ Delay2Left' = Delay2Left - 1
                    /\ Delay2Left \in Int
  <2>1. /\ running /\ Untouched /\ elapsed \in Nat
        /\ InDelay2 => elapsed' = elapsed + 1
    <3>1. InDelay2 => label \in Timed
      BY DEF InDelay2, Timed
    <3> QED
      BY <3>1, PlayKeeps DEF EngineTypeOK
  <2>2. InDelay2' <=> InDelay2
    BY <2>1 DEF InDelay2, Nested, Untouched
  <2>3. Delay2Cycles(reload[0], reload[1])' = Delay2Cycles(reload[0], reload[1])
    BY <2>1 DEF Untouched
  <2> QED
    BY <2>1, <2>2, <2>3 DEF Delay2Inv, Untouched
<1> DEFINE len == reload[0] + 2
           c0 == cntr[0]  c1 == cntr[1]
<1>1. /\ running /\ ip \notin Returns /\ Untouched
  BY PlayKeeps
<1>2. /\ ip \in IDLE_LOOP2 .. IDLE_LOOP2 + 2
      /\ ip >= IDLE_LOOP2 + 1 => c0 = reload[0]
  BY <1>1 DEF Delay2Inv
<1>3. jump[0] = IDLE_LOOP2 /\ jump[1] = IDLE_LOOP2
  BY DEF InDelay2, Nested
<1>4. /\ c0 \in Int /\ c1 \in Int /\ reload[0] \in Int /\ len \in Int
      /\ {0, 1} \subseteq Cntrs
  BY CntrAssumption DEF EngineTypeOK, Cntrs
<1>5. c1 * len \in Int
  BY <1>4, OneRound
<1>6. Delay2Left = IF ip = IDLE_LOOP2 THEN c0 + 2 + c1 * len + 1
                   ELSE IF ip = IDLE_LOOP1 THEN 1 + c1 * len + 1
                   ELSE 1
  BY DEF Delay2Left
<1>7. ASSUME NEW d0 \in Int, NEW d1 \in Int, cntr'[0] = d0, cntr'[1] = d1
      PROVE  Delay2Left' = IF ip' = IDLE_LOOP2 THEN d0 + 2 + d1 * len + 1
                           ELSE IF ip' = IDLE_LOOP1 THEN 1 + d1 * len + 1
                           ELSE 1
  BY <1>1, <1>7 DEF Delay2Left, Untouched
<1> HIDE DEF len
<1>8. CASE ip = IDLE_LOOP2
  <2>1. c = 0 /\ (Jump(0) \/ Exhaust(0))
    BY <1>8, RomDelay DEF Advance, Jump, Exhaust, Cntrs
  <2>2. CASE Jump(0)
    <3>1. ip' = IDLE_LOOP2 /\ cntr'[0] = c0 - 1 /\ cntr'[1] = c1
      BY <2>2, <1>3 DEF Jump, EngineTypeOK, Cntrs
    <3>2. Delay2Left' = c0 - 1 + 2 + c1 * len + 1
      BY <3>1, <1>4, <1>7 DEF IDLE_LOOP1, IDLE_LOOP2
    <3>3. Delay2Left = c0 + 2 + c1 * len + 1
      BY <1>6, <1>8 DEF IDLE_LOOP1, IDLE_LOOP2
    <3> QED
      BY <3>1, <3>2, <3>3, <1>4, <1>5 DEF IDLE_LOOP2
  <2>3. CASE Exhaust(0)
    <3>1. /\ ip' = IDLE_LOOP1 /\ c0 = 0
          /\ cntr'[0] = reload[0] /\ cntr'[1] = c1
      BY <2>3, <1>4, <1>8, RomDelay DEF Exhaust, EngineTypeOK, Cntrs
    <3>2. Delay2Left' = 1 + c1 * len + 1
      BY <3>1, <1>4, <1>7 DEF IDLE_LOOP1, IDLE_LOOP2
    <3>3. Delay2Left = c0 + 2 + c1 * len + 1
      BY <1>6, <1>8 DEF IDLE_LOOP1, IDLE_LOOP2
    <3> QED
      BY <3>1, <3>2, <3>3, <1>4, <1>5 DEF IDLE_LOOP2, IDLE_LOOP1
  <2> QED
    BY <2>1, <2>2, <2>3
<1>9. CASE ip = IDLE_LOOP1
  <2>1. c = 1 /\ (Jump(1) \/ Exhaust(1))
    BY <1>9, RomDelay DEF Advance, Jump, Exhaust, Cntrs
  <2>2. Delay2Left = 1 + c1 * len + 1 /\ c0 = reload[0]
    BY <1>2, <1>6, <1>9 DEF IDLE_LOOP1, IDLE_LOOP2
  <2>3. CASE Jump(1)
    <3>1. ip' = IDLE_LOOP2 /\ cntr'[0] = c0 /\ cntr'[1] = c1 - 1
      BY <2>3, <1>3 DEF Jump, EngineTypeOK, Cntrs
    <3>2. Delay2Left' = len + (c1 - 1) * len + 1
      <4>1. Delay2Left' = c0 + 2 + (c1 - 1) * len + 1
        BY <3>1, <1>4, <1>7 DEF IDLE_LOOP1, IDLE_LOOP2
      <4> QED
        BY <4>1, <2>2 DEF len
    <3>3. c1 * len = (c1 - 1) * len + len /\ (c1 - 1) * len \in Int
      BY <1>4, OneRound
    <3> QED
      BY <3>1, <3>2, <3>3, <2>2, <1>4, <1>5 DEF IDLE_LOOP2
  <2>4. CASE Exhaust(1)
    <3>1. /\ ip' = IDLE_LOOP2 + 2 /\ c1 = 0
          /\ cntr'[0] = c0 /\ cntr'[1] = reload[1]
      BY <2>4, <1>4, <1>9 DEF Exhaust, EngineTypeOK, Cntrs, IDLE_LOOP1, IDLE_LOOP2
    <3>2. Delay2Left' = 1
      BY <3>1 DEF Delay2Left, IDLE_LOOP1, IDLE_LOOP2
    <3>3. c1 * len = 0
      BY <3>1, <1>4, OneRound
    <3> QED
      BY <3>1, <3>2, <3>3, <2>2, <1>4 DEF IDLE_LOOP2
  <2> QED
    BY <2>1, <2>3, <2>4
<1>10. ip = IDLE_LOOP2 \/ ip = IDLE_LOOP1
  BY <1>1, <1>2, RomDelay DEF IDLE_LOOP1, IDLE_LOOP2
<1> QED
  BY <1>8, <1>9, <1>10

LEMMA Delay1Run ==
    ASSUME EngineTypeOK, NEW a \in Addresses, Run(a)
    PROVE  Delay1Inv'
<1> SUFFICES ASSUME InDelay1' PROVE
      /\ ip' = IDLE_LOOP1 /\ elapsed' = 0 /\ cntr'[1] = reload'[1]
      /\ reload'[1] \in Int
  BY DEF Delay1Inv, Delay1Cycles, IDLE_LOOP1
<1> QED
  BY CntrAssumption DEF Run, InDelay1, Nested, EngineTypeOK, Cntrs

LEMMA Delay1Play ==
    ASSUME EngineTypeOK, Delay1Inv, NEW c \in Cntrs,
           Advance \/ Jump(c) \/ Exhaust(c)
    PROVE  Delay1Inv'
<1> SUFFICES ASSUME InDelay1 PROVE Delay1Inv'
  BY PlayKeeps DEF Delay1Inv, InDelay1, Nested, Untouched
<1>1. /\ running /\ ip \notin Returns /\ Untouched
      /\ elapsed' = elapsed + 1 /\ elapsed \in Nat
  BY PlayKeeps DEF EngineTypeOK, InDelay1, Timed
<1>2. ip = IDLE_LOOP1
  BY <1>1, RomDelay DEF Delay1Inv, IDLE_LOOP1, IDLE_LOOP2
<1>3. c = 1 /\ (Jump(1) \/ Exhaust(1)) /\ jump[1] = IDLE_LOOP1
  BY <1>2, RomDelay DEF Advance, Jump, Exhaust, Cntrs, InDelay1, Nested
<1>4. cntr[1] \in Int /\ reload[1] \in Int
  BY CntrAssumption DEF EngineTypeOK, Cntrs
<1>5. elapsed + cntr[1] + 2 = Delay1Cycles(reload[1])
  BY <1>1, <1>2, <1>4 DEF Delay1Inv
<1>6. CASE Jump(1)
  <2>1. ip' = IDLE_LOOP1 /\ cntr'[1] = cntr[1] - 1 /\ reload' = reload
    BY <1>6, <1>3, <1>1 DEF Jump, EngineTypeOK, Cntrs, Untouched
  <2> QED
    BY <2>1, <1>1, <1>4, <1>5 DEF Delay1Inv, IDLE_LOOP1
<1>7. CASE Exhaust(1)
  <2>1. ip' = IDLE_LOOP1 + 1 /\ cntr'[1] = reload[1] /\ cntr[1] = 0 /\ reload' = reload
    BY <1>7, <1>2, <1>1 DEF Exhaust, EngineTypeOK, Cntrs, Untouched
  <2> QED
    BY <2>1, <1>1, <1>4, <1>5 DEF Delay1Inv, IDLE_LOOP1
<1> QED
  BY <1>3, <1>6, <1>7
-----------------------------------------------------------------------------
LEMMA InvInit == Init => IInv
BY TypeInit DEF Init, IInv, ResetInv, Delay2Inv, Delay1Inv

LEMMA InvStep == IInv /\ [Next]_engineVars => IInv'
<1> SUFFICES ASSUME IInv, [Next]_engineVars PROVE IInv'
  OBVIOUS
<1> USE DEF IInv
<1>1. EngineTypeOK'
  BY TypeStep
<1>2. CASE Loads \/ Return
  BY <1>1, <1>2, Idle DEF ResetInv, Delay2Inv, Delay1Inv
<1>3. ASSUME NEW a \in Addresses, Run(a) PROVE IInv'
  BY <1>1, <1>3, ResetRun, Delay2Run, Delay1Run
<1>4. ASSUME NEW c \in Cntrs, Advance \/ Jump(c) \/ Exhaust(c) PROVE IInv'
  BY <1>1, <1>4, ResetPlay, Delay2Play, Delay1Play
<1>5. CASE UNCHANGED engineVars
  BY <1>1, <1>5 DEF engineVars, ResetInv, InReset, Nested, ResetLeft, AfterInner,
     Inner2, Middle, ResetCycles, Delay2Inv, InDelay2, Delay2Left, Delay2Cycles,
     Delay1Inv, InDelay1, Delay1Cycles
<1> QED
  BY <1>2, <1>3, <1>4, <1>5 DEF Next, Play, Loads, Cntrs

(* The nested loops of the resets and of the delays last as long as their  *)
(* counters ask for, for all values of the counters.                       *)
THEOREM LoopsLast == Spec => []LoopsLastTheirCycles
<1>1. IInv => LoopsLastTheirCycles
  <2> SUFFICES ASSUME IInv, running, ip \in Returns PROVE LoopsLastTheirCycles
    BY DEF LoopsLastTheirCycles
  <2> USE DEF IInv
  <2>1. ASSUME InReset
        PROVE  /\ elapsed + 1 = ResetCycles(reload[0], reload[1], reload[2])
               /\ \A c \in 0 .. 2 : cntr[c] = reload[c]
    <3>1. label \in {INIT_RESET_0_CKE_0, INIT_RESET_1_CKE_0} /\ label \in Int
      BY <2>1 DEF InReset, INIT_RESET_0_CKE_0, INIT_RESET_1_CKE_0
    <3>2. ip = label + 4
      BY <2>1, <3>1, RomReset DEF ResetInv
    <3> QED
      BY <2>1, <3>1, <3>2 DEF ResetInv, ResetLeft
  <2>2. ASSUME InDelay2
        PROVE  /\ elapsed + 1 = Delay2Cycles(reload[0], reload[1])
               /\ \A c \in 0 .. 1 : cntr[c] = reload[c]
    <3>1. ip = IDLE_LOOP2 + 2
      BY <2>2, RomDelay DEF Delay2Inv, IDLE_LOOP2, IDLE_LOOP1
    <3> QED
      BY <2>2, <3>1 DEF Delay2Inv, Delay2Left, IDLE_LOOP2, IDLE_LOOP1
  <2>3. ASSUME InDelay1
        PROVE  elapsed + 1 = Delay1Cycles(reload[1]) /\ cntr[1] = reload[1]
    <3>1. ip = IDLE_LOOP1 + 1
      BY <2>3, RomDelay DEF Delay1Inv, IDLE_LOOP1
    <3> QED
      BY <2>3, <3>1 DEF Delay1Inv, IDLE_LOOP1
  <2> QED
    BY <2>1, <2>2, <2>3 DEF LoopsLastTheirCycles
<1> QED
  BY <1>1, InvInit, InvStep, PTL DEF Spec

-----------------------------------------------------------------------------
(* The number of clocks of all its runs.                                   *)
DelayClocks(n) ==
    IF n <= 256 THEN Delay1Cycles(Inner(n))
                ELSE Runs(n) * Delay2Cycles(Inner(n), Outer(n))

LEMMA Halves ==
    ASSUME NEW n \in Nat, NEW d \in Nat \ {0}
    PROVE  n \div d \in Nat /\ d * (n \div d) <= n /\ n < d * (n \div d) + d
OBVIOUS

(* A delay of n clocks of the memory is never shorter than n clocks, for   *)
(* every n of 32 bits, although the counters of the loops have eight, and  *)
(* the number of runs sixteen.                                             *)
THEOREM DelayLongEnough ==
    ASSUME NEW n \in Nat, n < 4294967296
    PROVE  /\ Inner(n) \in 0 .. 255 /\ Outer(n) \in 0 .. 255
           /\ Runs(n) - 1 \in Nat /\ Runs(n) - 1 < 65536
           /\ DelayClocks(n) >= n
<1>1. CASE n <= 256
  BY <1>1 DEF Inner, Outer, Runs, DelayClocks, Delay1Cycles
<1>2. CASE n > 256 /\ n <= 65536
  <2> DEFINE o == (n - 1) \div 256
  <2>1. o \in Nat /\ 256 * o <= n - 1 /\ n - 1 < 256 * o + 256
    BY <1>2, Halves
  <2>2. Inner(n) = 255 /\ Outer(n) = o /\ Runs(n) = 1
    BY <1>2 DEF Inner, Outer, Runs
  <2> HIDE DEF o
  <2>3. DelayClocks(n) = 1 * ((o + 1) * 257 + 1)
    BY <1>2, <2>2, <2>1 DEF DelayClocks, Delay2Cycles
  <2> QED
    BY <1>2, <2>1, <2>2, <2>3
<1>3. CASE n > 65536
  <2> DEFINE k == (n - 1) \div 65536
  <2>1. k \in Nat /\ 65536 * k <= n - 1 /\ n - 1 < 65536 * k + 65536
    BY <1>3, Halves
  <2>2. Inner(n) = 255 /\ Outer(n) = 255 /\ Runs(n) = k + 1
    BY <1>3 DEF Inner, Outer, Runs
  <2> HIDE DEF k
  <2>3. DelayClocks(n) = (k + 1) * 65793
    BY <1>3, <2>2, <2>1 DEF DelayClocks, Delay2Cycles
  <2> QED
    BY <1>3, <2>1, <2>2, <2>3
<1> QED
  BY <1>1, <1>2, <1>3
-----------------------------------------------------------------------------
(* The procedures: the register writes, what they set up, and programs.    *)

(* The labels at which the engine is started, and those of the commands    *)
(* that load a mode register or calibrate ZQ.                              *)
Modes == 2 .. 12
Holds == {INIT_RESET_0_CKE_0, INIT_RESET_1_CKE_0}
Idles == {IDLE_LOOP1, IDLE_LOOP2}
WriteTests == {WRITE_WL_1, WRITE, WRITE_WL_1 + DmBlock, WRITE + DmBlock}
Bursts == WriteTests \cup {GUARANTEED_WRITE, CLEAR_DQS_ENABLE, GUARANTEED_READ, READ_B2B}
Rows == {ACTIVATE_0_AND_1, PRECHARGE_ALL}
Entries == Modes \cup Holds \cup Idles \cup Bursts \cup Rows

(* The instructions that a run from label a may come to, and the counters  *)
(* that they jump on.                                                      *)
Block(a) ==
    CASE a \in Modes                -> {a, RETURN}
      [] a = ACTIVATE_0_AND_1       -> 13 .. 17
      [] a = PRECHARGE_ALL          -> 18 .. 19
      [] a = GUARANTEED_WRITE       -> 24 .. 32
      [] a \in {WRITE_WL_1, WRITE}  -> 33 .. 52
      [] a \in {WRITE_WL_1 + DmBlock, WRITE + DmBlock} -> 53 .. 72
      [] a = CLEAR_DQS_ENABLE       -> 73 .. 75
      [] a = GUARANTEED_READ        -> 76 .. 88
      [] a = READ_B2B               -> 89 .. 110
      [] a = INIT_RESET_0_CKE_0     -> 111 .. 115
      [] a = INIT_RESET_1_CKE_0     -> 116 .. 120
      [] a = IDLE_LOOP2             -> 122 .. 124
      [] OTHER                      -> 123 .. 124

Needs(a) == {c \in Cntrs : \E x \in Block(a) : x \in JumpsOn(c)}

(* The register writes of a part, by what they may run; and all of them.   *)
Body(E) ==
    [op : {"cntr"}, reg : Cntrs, val : 0 .. MaxCntr]
    \cup [op : {"jump"}, reg : Cntrs, val : Addresses]
    \cup [op : {"run"}, reg : {0}, val : E] \cup {PhyReg}

Selects == [op : {"all", "odt_off", "odt_read_write"}, reg : {0}, val : Nat]
Fits == Body(Entries) \cup Selects

(* After n writes of s, jump register c has last been given an address of  *)
(* B.                                                                      *)
Aims(w, c) == w.op = "jump" /\ w.reg = c

Aimed(s, n, c, B) ==
    \E j \in 1 .. n :
        /\ Aims(s[j], c) /\ s[j].val \in B
        /\ \A k \in j + 1 .. n : ~Aims(s[k], c)

(* Counter c has last been loaded with v, and not been used since.         *)
Loaded(s, n, c, v) ==
    \E j \in 1 .. n :
        /\ s[j] = LoadCntrReg(c, v)
        /\ \A k \in j + 1 .. n :
              s[k].op # "run" /\ ~(s[k].op = "cntr" /\ s[k].reg = c)

(* A write test that is started at a goes round by counter 0.  Where it    *)
(* skips instructions, either it finds both jumps set, or the first is     *)
(* never taken, or the first is always taken: its counter outlasts the     *)
(* rounds, and the second jump, which is left as it was, is not met.       *)
Dm(a) == IF a > WRITE THEN DmBlock ELSE 0

WriteReady(s, n, a) ==
    /\ Aimed(s, n, 0, {a}) /\ Aimed(s, n, 1, {WRITE_WAIT + Dm(a)})
    /\ \/ Aimed(s, n, 2, Block(a)) /\ Aimed(s, n, 3, Block(a))
       \/ Loaded(s, n, 2, 0) /\ Aimed(s, n, 3, Block(a))
       \/ /\ a = WRITE + Dm(a)
          /\ Loaded(s, n, 0, WriteLoops) /\ Loaded(s, n, 2, 255)
          /\ Aimed(s, n, 2, {WRITE_DQS + Dm(a)})

(* Run number i of s finds its jumps within its block.  That of a mode     *)
(* register finds the counter as it was just loaded, and returns.          *)
Ready(s, i) ==
    s[i].op = "run" =>
        /\ s[i].val \notin WriteTests =>
              \A c \in Needs(s[i].val) : Aimed(s, i - 1, c, Block(s[i].val))
        /\ s[i].val \in Modes =>
              Loaded(s, i - 1, 0, MaxCntr) /\ Aimed(s, i - 1, 0, {RETURN})
        /\ s[i].val \in WriteTests => WriteReady(s, i - 1, s[i].val)

Prog(s, E) == s \in Seq(Body(E)) /\ \A i \in 1 .. Len(s) : Ready(s, i)
-----------------------------------------------------------------------------
LEMMA EntriesAre == Entries \subseteq Addresses
BY DEF Entries, Modes, Holds, Idles, WriteTests, Bursts, Rows, Addresses, INIT_RESET_0_CKE_0,
   INIT_RESET_1_CKE_0, IDLE_LOOP1, IDLE_LOOP2, GUARANTEED_WRITE, WRITE_WL_1, WRITE, DmBlock,
   CLEAR_DQS_ENABLE, GUARANTEED_READ, READ_B2B, ACTIVATE_0_AND_1, PRECHARGE_ALL

(* The elements of a concatenation.                                        *)
LEMMA Joined ==
    ASSUME NEW S, NEW s \in Seq(S), NEW t \in Seq(S)
    PROVE  /\ s \o t \in Seq(S) /\ Len(s \o t) = Len(s) + Len(t)
           /\ Len(s) \in Nat /\ Len(t) \in Nat
           /\ \A i \in 1 .. Len(s) : (s \o t)[i] = s[i]
           /\ \A i \in 1 .. Len(t) : (s \o t)[Len(s) + i] = t[i]
<1>1. Len(s) \in Nat /\ Len(t) \in Nat
  OBVIOUS
<1>2. /\ s \o t \in Seq(S) /\ Len(s \o t) = Len(s) + Len(t)
      /\ \A i \in 1 .. Len(s) + Len(t) : (s \o t)[i] =
             IF i <= Len(s) THEN s[i] ELSE t[i - Len(s)]
  BY ConcatProperties
<1>3. ASSUME NEW i \in 1 .. Len(t) PROVE (s \o t)[Len(s) + i] = t[i]
  <2>1. /\ Len(s) + i \in 1 .. Len(s) + Len(t) /\ ~(Len(s) + i <= Len(s))
        /\ (Len(s) + i) - Len(s) = i
    BY <1>1
  <2> QED
    BY <1>2, <2>1
<1>4. ASSUME NEW i \in 1 .. Len(s) PROVE (s \o t)[i] = s[i]
  BY <1>1, <1>2
<1> QED
  BY <1>1, <1>2, <1>3, <1>4

(* What the jumps were given stays so, if nothing is loaded since, and     *)
(* whatever was written before.                                            *)
LEMMA AimedLater ==
    ASSUME NEW S, NEW s \in Seq(S), NEW t \in Seq(S), NEW c, NEW B,
           Aimed(s, Len(s), c, B), NEW n \in 0 .. Len(t),
           \A k \in 1 .. n : ~Aims(t[k], c)
    PROVE  Aimed(s \o t, Len(s) + n, c, B)
<1>1. PICK j \in 1 .. Len(s) :
        /\ Aims(s[j], c) /\ s[j].val \in B
        /\ \A k \in j + 1 .. Len(s) : ~Aims(s[k], c)
  BY DEF Aimed
<1> DEFINE u == s \o t
<1>2. /\ Len(s) \in Nat /\ Len(t) \in Nat
      /\ \A i \in 1 .. Len(s) : u[i] = s[i]
      /\ \A i \in 1 .. Len(t) : u[Len(s) + i] = t[i]
  BY Joined
<1> HIDE DEF u
<1>3. ASSUME NEW k \in j + 1 .. Len(s) + n PROVE ~Aims(u[k], c)
  <2>1. CASE k <= Len(s)
    BY <1>1, <1>2, <2>1
  <2>2. CASE k > Len(s)
    <3>1. k - Len(s) \in 1 .. n /\ k = Len(s) + (k - Len(s)) /\ n <= Len(t)
      BY <1>2, <2>2
    <3>2. u[k] = t[k - Len(s)]
      BY <1>2, <3>1
    <3> QED
      BY <3>1, <3>2
  <2> QED
    BY <1>2, <2>1, <2>2
<1>4. j \in 1 .. Len(s) + n /\ u[j] = s[j]
  BY <1>2
<1>5. Aimed(u, Len(s) + n, c, B)
  BY <1>1, <1>3, <1>4 DEF Aimed
<1> QED
  BY <1>5 DEF u

LEMMA AimedAt ==
    ASSUME NEW t, NEW u, NEW d \in Nat, NEW n \in Nat, NEW c, NEW B, Aimed(t, n, c, B),
           \A k \in 1 .. n : u[d + k] = t[k]
    PROVE  Aimed(u, d + n, c, B)
<1>1. PICK j \in 1 .. n :
        /\ Aims(t[j], c) /\ t[j].val \in B
        /\ \A k \in j + 1 .. n : ~Aims(t[k], c)
  BY DEF Aimed
<1>2. ASSUME NEW k \in (d + j) + 1 .. d + n PROVE ~Aims(u[k], c)
  <2>1. /\ k - d \in j + 1 .. n /\ k - d \in 1 .. n /\ k = d + (k - d)
    OBVIOUS
  <2>2. u[k] = t[k - d]
    BY <2>1
  <2> QED
    BY <1>1, <2>1, <2>2
<1>3. d + j \in 1 .. d + n /\ u[d + j] = t[j]
  OBVIOUS
<1> QED
  BY <1>1, <1>2, <1>3 DEF Aimed

-----------------------------------------------------------------------------
(* One program after another.                                              *)
LEMMA LoadedAt ==
    ASSUME NEW t, NEW u, NEW d \in Nat, NEW n \in Nat, NEW c, NEW v, Loaded(t, n, c, v),
           \A k \in 1 .. n : u[d + k] = t[k]
    PROVE  Loaded(u, d + n, c, v)
<1> DEFINE Keeps(w) == w.op # "run" /\ ~(w.op = "cntr" /\ w.reg = c)
<1>1. PICK j \in 1 .. n : t[j] = LoadCntrReg(c, v) /\ \A k \in j + 1 .. n : Keeps(t[k])
  BY DEF Loaded
<1>2. ASSUME NEW k \in (d + j) + 1 .. d + n PROVE Keeps(u[k])
  <2>1. /\ k - d \in j + 1 .. n /\ k - d \in 1 .. n /\ k = d + (k - d)
    OBVIOUS
  <2>2. u[k] = t[k - d]
    BY <2>1
  <2>3. Keeps(t[k - d])
    BY <1>1, <2>1
  <2> QED
    BY <2>2, <2>3
<1>3. d + j \in 1 .. d + n /\ u[d + j] = t[j]
  OBVIOUS
<1> QED
  BY <1>1, <1>2, <1>3 DEF Loaded

LEMMA ReadyAt ==
    ASSUME NEW t, NEW u, NEW d \in Nat, NEW i \in Nat \ {0}, Ready(t, i),
           \A k \in 1 .. i : u[d + k] = t[k]
    PROVE  Ready(u, d + i)
<1> DEFINE m == d + i
           a == t[i].val
<1>1. u[m] = t[i] /\ m - 1 = d + (i - 1) /\ i - 1 \in Nat /\ m \in Int
  OBVIOUS
<1>2. \A k \in 1 .. i - 1 : u[d + k] = t[k]
  OBVIOUS
<1> SUFFICES ASSUME t[i].op = "run"
             PROVE  /\ a \notin WriteTests =>
                          \A c \in Needs(a) : Aimed(u, m - 1, c, Block(a))
                    /\ a \in Modes =>
                          Loaded(u, m - 1, 0, MaxCntr) /\ Aimed(u, m - 1, 0, {RETURN})
                    /\ a \in WriteTests => WriteReady(u, m - 1, a)
  BY <1>1 DEF Ready
<1>3. \A c, B : Aimed(t, i - 1, c, B) => Aimed(u, m - 1, c, B)
  BY <1>1, <1>2, AimedAt
<1>4. \A c, v : Loaded(t, i - 1, c, v) => Loaded(u, m - 1, c, v)
  BY <1>1, <1>2, LoadedAt
<1> HIDE DEF m
<1>5. ASSUME a \in WriteTests PROVE WriteReady(u, m - 1, a)
  <2>1. WriteReady(t, i - 1, a)
    BY <1>5 DEF Ready
  <2> QED
    BY <1>3, <1>4, <2>1 DEF WriteReady
<1> QED
  BY <1>3, <1>4, <1>5 DEF Ready

LEMMA ProgJoin ==
    ASSUME NEW E, NEW s, NEW t, Prog(s, E), Prog(t, E)
    PROVE  Prog(s \o t, E)
<1> DEFINE u == s \o t
<1>1. s \in Seq(Body(E)) /\ t \in Seq(Body(E))
  BY DEF Prog
<1>2. /\ u \in Seq(Body(E)) /\ Len(u) = Len(s) + Len(t)
      /\ Len(s) \in Nat /\ Len(t) \in Nat
      /\ \A i \in 1 .. Len(s) : u[i] = s[i]
      /\ \A i \in 1 .. Len(t) : u[Len(s) + i] = t[i]
  BY <1>1, Joined
<1>3. ASSUME NEW i \in 1 .. Len(u) PROVE Ready(u, i)
  <2>1. CASE i <= Len(s)
    <3>1. i \in Nat \ {0} /\ i \in 1 .. Len(s) /\ 0 + i = i
      BY <1>2, <2>1
    <3>2. Ready(s, i)
      BY <3>1 DEF Prog
    <3>3. \A k \in 1 .. i : u[0 + k] = s[k]
      BY <1>2, <3>1
    <3> HIDE DEF u
    <3>4. Ready(u, 0 + i)
      BY <3>1, <3>2, <3>3, ReadyAt
    <3> QED
      BY <3>1, <3>4
  <2>2. CASE i > Len(s)
    <3>1. /\ i - Len(s) \in 1 .. Len(t) /\ i - Len(s) \in Nat \ {0}
          /\ i = Len(s) + (i - Len(s))
      BY <1>2, <2>2
    <3>2. Ready(t, i - Len(s))
      BY <3>1 DEF Prog
    <3>3. \A k \in 1 .. i - Len(s) : u[Len(s) + k] = t[k]
      BY <1>2, <3>1
    <3> HIDE DEF u
    <3>4. Ready(u, Len(s) + (i - Len(s)))
      BY <1>2, <3>1, <3>2, <3>3, ReadyAt
    <3> QED
      BY <3>1, <3>4
  <2> QED
    BY <1>2, <2>1, <2>2
<1> QED
  BY <1>2, <1>3 DEF Prog

(* A repeated sequence.                                                    *)
LEMMA Position ==
    ASSUME NEW L \in Nat \ {0}, NEW n \in Nat, NEW i \in 1 .. n * L
    PROVE  \E q \in 0 .. n - 1, m \in 1 .. L :
              i = q * L + m /\ q * L \in Nat /\ ((i - 1) % L) + 1 = m
<1> DEFINE q == (i - 1) \div L
           r == (i - 1) % L
<1>1. /\ q \in Nat /\ r \in 0 .. L - 1 /\ i - 1 = L * q + r
  <2>1. i - 1 \in Nat
    OBVIOUS
  <2> QED
    BY <2>1
<1> HIDE DEF q, r
<1>2. q * L = L * q /\ q * L \in Nat /\ n * L \in Nat
  BY <1>1
<1>3. q < n
  <2> SUFFICES ASSUME q >= n PROVE FALSE
    BY <1>1
  <2>1. q * L >= n * L
    BY <1>1
  <2>2. i <= n * L /\ i - 1 >= q * L
    BY <1>1, <1>2
  <2> QED
    BY <1>2, <2>1, <2>2
<1>4. q \in 0 .. n - 1 /\ r + 1 \in 1 .. L /\ i = q * L + (r + 1)
  BY <1>1, <1>2, <1>3
<1> QED
  BY <1>2, <1>4 DEF r

LEMMA Within ==
    ASSUME NEW L \in Nat \ {0}, NEW n \in Nat, NEW q \in 0 .. n - 1, NEW m \in 1 .. L
    PROVE  q * L + m \in 1 .. n * L /\ (((q * L + m) - 1) % L) + 1 = m
<1>1. q * L \in Nat /\ n * L \in Nat /\ (q + 1) * L = q * L + L /\ L * q = q * L
  OBVIOUS
<1>2. (q + 1) * L <= n * L
  OBVIOUS
<1>3. q * L + m \in 1 .. n * L
  BY <1>1, <1>2
<1> DEFINE x == (q * L + m) - 1
           r == x % L
           p == x \div L
<1>4. x \in Nat /\ x = q * L + (m - 1)
  BY <1>1
<1>5. p \in Nat /\ r \in 0 .. L - 1 /\ x = L * p + r
  BY <1>4
<1> HIDE DEF r, p
<1>6. p = q
  <2>1. L * p + r = L * q + (m - 1)
    BY <1>1, <1>4, <1>5
  <2>2. CASE p < q
    <3>1. L * (p + 1) <= L * q /\ L * (p + 1) = L * p + L
      BY <1>5, <2>2
    <3> QED
      BY <1>1, <1>5, <2>1, <3>1
  <2>3. CASE p > q
    <3>1. L * (q + 1) <= L * p /\ L * (q + 1) = L * q + L
      BY <1>5, <2>3
    <3> QED
      BY <1>1, <1>5, <2>1, <3>1
  <2> QED
    BY <1>5, <2>2, <2>3
<1>7. r = m - 1
  BY <1>1, <1>4, <1>5, <1>6
<1> QED
  BY <1>3, <1>7 DEF r

LEMMA TimesAre ==
    ASSUME NEW S, NEW s \in Seq(S), NEW n \in Nat
    PROVE  /\ Times(n, s) \in Seq(S) /\ Len(Times(n, s)) = n * Len(s)
           /\ n * Len(s) \in Nat /\ Len(s) \in Nat
<1> DEFINE L == Len(s)
<1>1. L \in Nat /\ n * L \in Nat
  OBVIOUS
<1>2. ASSUME NEW i \in 1 .. n * L PROVE s[((i - 1) % L) + 1] \in S
  <2>1. L # 0
    BY <1>1
  <2>2. ((i - 1) % L) + 1 \in 1 .. L
    BY <1>1, <2>1, Position
  <2> QED
    BY <2>2
<1>3. Times(n, s) \in [1 .. n * L -> S]
  BY <1>2 DEF Times
<1> QED
  BY <1>1, <1>3

LEMMA ProgTimes ==
    ASSUME NEW E, NEW s, Prog(s, E), NEW n \in Nat
    PROVE  Prog(Times(n, s), E)
<1> DEFINE L == Len(s)
           u == Times(n, s)
<1>1. s \in Seq(Body(E)) /\ L \in Nat
  BY DEF Prog
<1>2. u \in Seq(Body(E)) /\ Len(u) = n * L /\ n * L \in Nat
  BY <1>1, TimesAre
<1>3. ASSUME NEW i \in 1 .. n * L PROVE Ready(u, i)
  <2>1. L \in Nat \ {0}
    BY <1>1
  <2>2. PICK q \in 0 .. n - 1, m \in 1 .. L : i = q * L + m /\ q * L \in Nat
    BY <2>1, Position, ZenonT(30)
  <2>3. ASSUME NEW k \in 1 .. m PROVE u[q * L + k] = s[k]
    <3>1. k \in 1 .. L
      BY <1>1
    <3>2. q * L + k \in 1 .. n * L /\ (((q * L + k) - 1) % L) + 1 = k
      BY <2>1, <3>1, Within
    <3> QED
      BY <3>2 DEF Times
  <2>4. Ready(s, m) /\ m \in Nat \ {0}
    BY <1>1 DEF Prog
  <2> HIDE DEF u
  <2>5. Ready(u, q * L + m)
    BY <2>2, <2>3, <2>4, ReadyAt
  <2> QED
    BY <2>2, <2>5
<1> QED
  BY <1>2, <1>3 DEF Prog
-----------------------------------------------------------------------------
(* What runs nothing is a program.  So are the loads before a run, and the *)
(* run after them, again and again.                                        *)
LEMMA ProgNoRun ==
    ASSUME NEW E, NEW s \in Seq(Body({}))
    PROVE  Prog(s, E)
<1>1. Body({}) \subseteq Body(E) /\ \A w \in Body({}) : w.op # "run"
  BY DEF Body, PhyReg
<1>2. \A i \in 1 .. Len(s) : s[i] \in Body({})
  OBVIOUS
<1>3. s \in Seq(Body(E))
  BY <1>1, SeqMonotonic
<1> QED
  BY <1>1, <1>2, <1>3 DEF Prog, Ready

Again(a) == {PhyReg, RunReg(a)}

LEMMA ProgAgain ==
    ASSUME NEW E, NEW s, Prog(s, E), NEW a \in E, a \notin Modes \cup WriteTests,
           NEW t \in Seq(Again(a)),
           \A c \in Needs(a) : Aimed(s, Len(s), c, Block(a))
    PROVE  Prog(s \o t, E)
<1> DEFINE u == s \o t
<1>1. Again(a) \subseteq Body(E)
  BY DEF Again, Body, PhyReg, RunReg
<1>2. s \in Seq(Body(E)) /\ t \in Seq(Body(E))
  BY <1>1, SeqMonotonic DEF Prog
<1>3. /\ u \in Seq(Body(E)) /\ Len(u) = Len(s) + Len(t)
      /\ Len(s) \in Nat /\ Len(t) \in Nat
      /\ \A i \in 1 .. Len(s) : u[i] = s[i]
      /\ \A i \in 1 .. Len(t) : u[Len(s) + i] = t[i]
  BY <1>2, Joined
<1>4. \A i \in 1 .. Len(t) : t[i] \in Again(a)
  OBVIOUS
<1>5. ASSUME NEW i \in 1 .. Len(u) PROVE Ready(u, i)
  <2>1. CASE i <= Len(s)
    <3>1. i \in Nat \ {0} /\ i \in 1 .. Len(s) /\ 0 + i = i
      BY <1>3, <2>1
    <3>2. Ready(s, i)
      BY <3>1 DEF Prog
    <3>3. \A k \in 1 .. i : u[0 + k] = s[k]
      BY <1>3, <3>1
    <3> HIDE DEF u
    <3>4. Ready(u, 0 + i)
      BY <3>1, <3>2, <3>3, ReadyAt
    <3> QED
      BY <3>1, <3>4
  <2>2. CASE i > Len(s)
    <3> DEFINE m == (i - Len(s)) - 1
    <3>1. /\ m + 1 \in 1 .. Len(t) /\ m \in 0 .. Len(t) /\ i = Len(s) + (m + 1)
          /\ i - 1 = Len(s) + m
      BY <1>3, <2>2
    <3>2. u[i] \in Again(a)
      BY <1>3, <1>4, <3>1
    <3>3. u[i].op = "run" => u[i].val = a
      BY <3>2 DEF Again, PhyReg, RunReg
    <3>4. ASSUME NEW c \in Needs(a) PROVE Aimed(u, i - 1, c, Block(a))
      <4>1. \A k \in 1 .. m : t[k] \in Again(a)
        BY <1>3, <1>4, <3>1
      <4>2. \A w \in Again(a) : ~Aims(w, c)
        BY DEF Again, PhyReg, RunReg, Aims
      <4>3. \A k \in 1 .. m : ~Aims(t[k], c)
        BY <4>1, <4>2
      <4>4. Aimed(s, Len(s), c, Block(a))
        OBVIOUS
      <4>5. Aimed(s \o t, Len(s) + m, c, Block(a))
        BY <1>2, <3>1, <4>3, <4>4, AimedLater
      <4> QED
        BY <3>1, <4>5
    <3> HIDE DEF u
    <3> QED
      BY <3>3, <3>4 DEF Ready
  <2> QED
    BY <1>3, <2>1, <2>2
<1> QED
  BY <1>3, <1>5 DEF Prog

(* The loads of a loop.                                                    *)
LEMMA LoopIs ==
    ASSUME NEW c \in Cntrs, NEW n \in 0 .. MaxCntr, NEW a \in Addresses
    PROVE  /\ Loop(c, n, a) \in Seq(Body({})) /\ Len(Loop(c, n, a)) = 2
           /\ Loop(c, n, a)[1] = LoadCntrReg(c, n) /\ Loop(c, n, a)[2] = LoadJumpReg(c, a)
           /\ \A B : a \in B => Aimed(Loop(c, n, a), 2, c, B)
           /\ \A d : d # c => \A k \in 1 .. 2 : ~Aims(Loop(c, n, a)[k], d)
<1>1. LoadCntrReg(c, n) \in Body({}) /\ LoadJumpReg(c, a) \in Body({})
  BY DEF Body, LoadCntrReg, LoadJumpReg
<1>2. /\ Loop(c, n, a) \in Seq(Body({})) /\ Len(Loop(c, n, a)) = 2
      /\ Loop(c, n, a)[1] = LoadCntrReg(c, n) /\ Loop(c, n, a)[2] = LoadJumpReg(c, a)
  BY <1>1 DEF Loop
<1>3. /\ Aims(LoadJumpReg(c, a), c) /\ LoadJumpReg(c, a).val = a
      /\ \A d : ~Aims(LoadCntrReg(c, n), d)
      /\ \A d : d # c => ~Aims(LoadJumpReg(c, a), d)
  BY DEF Aims, LoadJumpReg, LoadCntrReg
<1> DEFINE s == Loop(c, n, a)
<1> HIDE DEF s
<1>4. ASSUME NEW B, a \in B PROVE Aimed(s, 2, c, B)
  <2>1. 2 \in 1 .. 2 /\ \A k \in 2 + 1 .. 2 : ~Aims(s[k], c)
    OBVIOUS
  <2>2. Aims(s[2], c) /\ s[2].val \in B
    BY <1>2, <1>3, <1>4 DEF s
  <2> QED
    BY <2>1, <2>2 DEF Aimed
<1>5. ASSUME NEW d, d # c, NEW k \in 1 .. 2 PROVE ~Aims(s[k], d)
  <2>1. k = 1 \/ k = 2
    OBVIOUS
  <2> QED
    BY <1>2, <1>3, <1>5, <2>1 DEF s
<1> QED
  BY <1>2, <1>4, <1>5 DEF s

(* One more loop after others that are set up.                             *)
SetUp(s, c, B) == Aimed(s, Len(s), c, B)

LEMMA OneMore ==
    ASSUME NEW E, NEW s \in Seq(Body(E)), NEW c \in Cntrs, NEW n \in 0 .. MaxCntr,
           NEW a \in Addresses
    PROVE  /\ s \o Loop(c, n, a) \in Seq(Body(E))
           /\ \A B : a \in B => SetUp(s \o Loop(c, n, a), c, B)
           /\ \A d, B : d # c /\ SetUp(s, d, B) => SetUp(s \o Loop(c, n, a), d, B)
<1> DEFINE t == Loop(c, n, a)
           u == s \o t
<1>1. /\ t \in Seq(Body(E)) /\ Len(t) = 2
      /\ \A B : a \in B => Aimed(t, 2, c, B)
      /\ \A d : d # c => \A k \in 1 .. 2 : ~Aims(t[k], d)
  <2>1. /\ t \in Seq(Body({})) /\ Len(t) = 2
        /\ \A B : a \in B => Aimed(t, 2, c, B)
        /\ \A d : d # c => \A k \in 1 .. 2 : ~Aims(t[k], d)
    BY LoopIs
  <2>2. Body({}) \subseteq Body(E)
    BY DEF Body
  <2> HIDE DEF t
  <2> QED
    BY <2>1, <2>2, SeqMonotonic
<1> HIDE DEF t
<1>2. /\ u \in Seq(Body(E)) /\ Len(u) = Len(s) + 2 /\ Len(s) \in Nat
      /\ \A i \in 1 .. 2 : u[Len(s) + i] = t[i]
  <2>1. t \in Seq(Body(E))
    BY <1>1
  <2>2. /\ u \in Seq(Body(E)) /\ Len(u) = Len(s) + Len(t) /\ Len(s) \in Nat
        /\ \A i \in 1 .. Len(t) : u[Len(s) + i] = t[i]
    BY <2>1, Joined
  <2> HIDE DEF u
  <2> QED
    BY <1>1, <2>2
<1>3. ASSUME NEW B, a \in B PROVE SetUp(u, c, B)
  <2>1. Aimed(t, 2, c, B) /\ 2 \in Nat
    BY <1>1, <1>3
  <2> HIDE DEF u
  <2>2. Aimed(u, Len(s) + 2, c, B)
    BY <1>2, <2>1, AimedAt
  <2> QED
    BY <1>2, <2>2 DEF SetUp
<1>4. ASSUME NEW d, NEW B, d # c, SetUp(s, d, B) PROVE SetUp(u, d, B)
  <2>1. Aimed(s, Len(s), d, B)
    BY <1>4 DEF SetUp
  <2>2. \A k \in 1 .. 2 : ~Aims(t[k], d)
    BY <1>1, <1>4
  <2>3. 2 \in 0 .. Len(t)
    BY <1>1
  <2>4. Aimed(s \o t, Len(s) + 2, d, B)
    BY <1>1, <2>1, <2>2, <2>3, AimedLater
  <2> QED
    BY <1>2, <2>4 DEF SetUp
<1> QED
  BY <1>2, <1>3, <1>4 DEF t

LEMMA Single ==
    ASSUME NEW E, NEW a \in E
    PROVE  /\ <<RunReg(a)>> \in Seq(Again(a)) /\ <<PhyReg>> \in Seq(Body({}))
           /\ <<PhyReg, PhyReg, RunReg(a)>> \in Seq(Again(a))
<1>1. RunReg(a) \in Again(a) /\ PhyReg \in Again(a) /\ PhyReg \in Body({})
  BY DEF Again, Body
<1> QED
  BY <1>1

LEMMA ProgPhy == \A E : Prog(<<PhyReg>>, E)
<1> TAKE E
<1>1. <<PhyReg>> \in Seq(Body({}))
  BY DEF Body
<1> QED
  BY <1>1, ProgNoRun

(* A run that needs no jump.                                               *)
LEMMA ProgRun ==
    ASSUME NEW E, NEW a \in E, a \notin Modes \cup WriteTests, Needs(a) = {}
    PROVE  Prog(<<RunReg(a)>>, E)
<1>1. RunReg(a) \in Body(E) /\ RunReg(a).val = a
  BY DEF Body, RunReg
<1>2. Ready(<<RunReg(a)>>, 1)
  BY <1>1 DEF Ready
<1> QED
  BY <1>1, <1>2 DEF Prog
-----------------------------------------------------------------------------
(* What the labels need.                                                   *)
LEMMA BlocksAre ==
    /\ \A a \in Modes : Block(a) = {a, RETURN}
    /\ \A a \in Entries : a \in Block(a)
    /\ \A a \in Entries : Block(a) \subseteq Addresses
    /\ Block(ACTIVATE_0_AND_1) = 13 .. 17 /\ Block(GUARANTEED_WRITE) = 24 .. 32
    /\ Block(GUARANTEED_READ) = 76 .. 88 /\ Block(READ_B2B) = 89 .. 110
BY DEF Block, Entries, Modes, Holds, Idles, WriteTests, Bursts, Rows, RETURN, ACTIVATE_0_AND_1,
   PRECHARGE_ALL, CLEAR_DQS_ENABLE, GUARANTEED_WRITE, GUARANTEED_READ, READ_B2B, WRITE_WL_1,
   WRITE, DmBlock, INIT_RESET_0_CKE_0, INIT_RESET_1_CKE_0, IDLE_LOOP1, IDLE_LOOP2, Addresses

LEMMA NeedsAre ==
    /\ \A a \in Modes : Needs(a) = {0}
    /\ Needs(ACTIVATE_0_AND_1) = {0, 1} /\ Needs(PRECHARGE_ALL) = {}
    /\ Needs(CLEAR_DQS_ENABLE) = {} /\ Needs(GUARANTEED_WRITE) = {0, 1, 2, 3}
    /\ Needs(GUARANTEED_READ) = {0, 1} /\ Needs(READ_B2B) = {0, 1, 2, 3}
    /\ Needs(INIT_RESET_0_CKE_0) = {0, 1, 2} /\ Needs(INIT_RESET_1_CKE_0) = {0, 1, 2}
    /\ Needs(IDLE_LOOP1) = {1} /\ Needs(IDLE_LOOP2) = {0, 1}
<1> USE DEF Needs, Block, Cntrs, JumpsOn, Modes, RETURN, ACTIVATE_0_AND_1, PRECHARGE_ALL,
        CLEAR_DQS_ENABLE, GUARANTEED_WRITE, GUARANTEED_READ, READ_B2B, WRITE_WL_1, WRITE,
        DmBlock, INIT_RESET_0_CKE_0, INIT_RESET_1_CKE_0, IDLE_LOOP1, IDLE_LOOP2
<1>1. \A a \in Modes : Needs(a) = {0}
  OBVIOUS
<1>2. Needs(ACTIVATE_0_AND_1) = {0, 1}
  OBVIOUS
<1>3. Needs(PRECHARGE_ALL) = {}
  OBVIOUS
<1>4. Needs(CLEAR_DQS_ENABLE) = {}
  OBVIOUS
<1>5. Needs(GUARANTEED_WRITE) = {0, 1, 2, 3}
  OBVIOUS
<1>6. Needs(GUARANTEED_READ) = {0, 1}
  OBVIOUS
<1>7. Needs(READ_B2B) = {0, 1, 2, 3}
  OBVIOUS
<1>8. Needs(INIT_RESET_0_CKE_0) = {0, 1, 2} /\ Needs(INIT_RESET_1_CKE_0) = {0, 1, 2}
  OBVIOUS
<1>9. Needs(IDLE_LOOP1) = {1} /\ Needs(IDLE_LOOP2) = {0, 1}
  OBVIOUS
<1> QED
  BY <1>1, <1>2, <1>3, <1>4, <1>5, <1>6, <1>7, <1>8, <1>9
-----------------------------------------------------------------------------
(* The programs of the mode registers, the delays and the reset.           *)
LEMMA ProgMode ==
    ASSUME NEW E, NEW a \in E, a \in Modes
    PROVE  Prog(LoadMode(a), E)
<1> DEFINE s == Loop(0, MaxCntr, RETURN)
           t == <<RunReg(a)>>
           u == s \o t
<1>1. 0 \in Cntrs /\ MaxCntr \in 0 .. MaxCntr /\ RETURN \in Addresses
  BY CntrAssumption DEF Cntrs, Addresses, RETURN
<1>2. /\ s \in Seq(Body({})) /\ Len(s) = 2 /\ s[1] = LoadCntrReg(0, MaxCntr)
      /\ Aimed(s, 2, 0, Block(a)) /\ Aimed(s, 2, 0, {RETURN}) /\ s[2] = LoadJumpReg(0, RETURN)
  <2>1. RETURN \in Block(a) /\ RETURN \in {RETURN}
    BY BlocksAre
  <2> QED
    BY <1>1, <2>1, LoopIs
<1>3. Body({}) \subseteq Body(E) /\ RunReg(a) \in Body(E)
  BY DEF Body, RunReg
<1>4. s \in Seq(Body(E)) /\ t \in Seq(Body(E)) /\ Len(t) = 1 /\ t[1] = RunReg(a)
  BY <1>2, <1>3, SeqMonotonic
<1> HIDE DEF s, t
<1>5. /\ u \in Seq(Body(E)) /\ Len(u) = Len(s) + Len(t)
      /\ \A i \in 1 .. Len(s) : u[i] = s[i]
      /\ \A i \in 1 .. Len(t) : u[Len(s) + i] = t[i]
  <2>1. s \in Seq(Body(E)) /\ t \in Seq(Body(E))
    BY <1>4
  <2> QED
    BY <2>1, Joined
<1> HIDE DEF u
<1>6. /\ Len(u) = 3 /\ u[1] = LoadCntrReg(0, MaxCntr) /\ u[2] = LoadJumpReg(0, RETURN)
      /\ u[3] = RunReg(a) /\ \A k \in 1 .. 2 : u[k] = s[k]
  <2>1. 1 \in 1 .. Len(s) /\ 2 \in 1 .. Len(s) /\ 1 \in 1 .. Len(t) /\ Len(s) + 1 = 3
    BY <1>2, <1>4
  <2> QED
    BY <1>2, <1>4, <1>5, <2>1
<1>7. Aimed(u, 2, 0, Block(a)) /\ Aimed(u, 2, 0, {RETURN})
  <2>1. \A k \in 1 .. 2 : u[0 + k] = s[k]
    BY <1>6
  <2>2. Aimed(u, 0 + 2, 0, Block(a)) /\ Aimed(u, 0 + 2, 0, {RETURN})
    BY <1>2, <2>1, AimedAt
  <2> QED
    BY <2>2
<1>8. Loaded(u, 2, 0, MaxCntr)
  <2>1. u[2].op = "jump"
    BY <1>6 DEF LoadJumpReg
  <2>2. \A k \in 1 + 1 .. 2 : k = 2
    OBVIOUS
  <2> QED
    BY <1>6, <2>1, <2>2 DEF Loaded
<1>9. ASSUME NEW i \in 1 .. Len(u) PROVE Ready(u, i)
  <2>1. i \in {1, 2, 3}
    BY <1>6
  <2>2. CASE i = 3
    <3>1. u[i].val = a /\ a \notin WriteTests /\ i - 1 = 2 /\ Needs(a) = {0}
      <4>1. u[i].val = a
        BY <1>6, <2>2 DEF RunReg
      <4>2. a \notin WriteTests
        BY DEF Modes, WriteTests, WRITE_WL_1, WRITE, DmBlock
      <4> QED
        BY <4>1, <4>2, <2>2, NeedsAre
    <3> QED
      BY <1>7, <1>8, <3>1 DEF Ready
  <2>3. CASE i # 3
    BY <1>6, <2>1, <2>3 DEF Ready, LoadCntrReg, LoadJumpReg
  <2> QED
    BY <2>2, <2>3
<1> QED
  BY <1>5, <1>9 DEF Prog, LoadMode, set_jump_as_return, u, s, t

(* A delay, of as many clocks as the procedures ask for.                   *)
LEMMA ProgDelay ==
    ASSUME NEW E, Idles \subseteq E, NEW n \in Nat, n < 65536, MaxCntr >= 255
    PROVE  Prog(delay_for_n_mem_clocks(n), E)
<1>1. Inner(n) \in 0 .. MaxCntr /\ Outer(n) \in 0 .. MaxCntr /\ Runs(n) = 1
  <2>1. Inner(n) \in 0 .. 255 /\ Runs(n) = 1
    BY DEF Inner, Runs
  <2>2. Outer(n) \in 0 .. 255
    <3>1. (n - 1) \div 256 <= 255 /\ (n > 0 => (n - 1) \div 256 >= 0)
          /\ (n - 1) \div 256 \in Int
      OBVIOUS
    <3> QED
      BY <3>1 DEF Outer
  <2> QED
    BY <2>1, <2>2, CntrAssumption
<1>2. /\ {0, 1} \subseteq Cntrs /\ IDLE_LOOP1 \in Addresses /\ IDLE_LOOP2 \in Addresses
      /\ IDLE_LOOP1 \in Block(IDLE_LOOP1) /\ IDLE_LOOP2 \in Block(IDLE_LOOP2)
      /\ IDLE_LOOP1 \notin Modes \cup WriteTests /\ IDLE_LOOP2 \notin Modes \cup WriteTests
      /\ IDLE_LOOP1 \in E /\ IDLE_LOOP2 \in E
  <2>1. IDLE_LOOP1 \in Entries /\ IDLE_LOOP2 \in Entries
    BY DEF Entries, Idles
  <2>2. IDLE_LOOP1 \notin Modes \cup WriteTests /\ IDLE_LOOP2 \notin Modes \cup WriteTests
    BY DEF IDLE_LOOP1, IDLE_LOOP2, Modes, WriteTests, WRITE_WL_1, WRITE, DmBlock
  <2>3. {0, 1} \subseteq Cntrs /\ IDLE_LOOP1 \in E /\ IDLE_LOOP2 \in E
    BY DEF Cntrs, Idles
  <2> QED
    BY <2>1, <2>2, <2>3, BlocksAre, EntriesAre
<1>3. CASE n <= 256
  <2> DEFINE s == Loop(1, Inner(n), IDLE_LOOP1)
  <2>1. s \in Seq(Body({})) /\ Len(s) = 2 /\ Aimed(s, 2, 1, Block(IDLE_LOOP1))
    BY <1>1, <1>2, LoopIs
  <2> HIDE DEF s
  <2>2. Prog(s, E) /\ \A c \in Needs(IDLE_LOOP1) : Aimed(s, Len(s), c, Block(IDLE_LOOP1))
    BY <2>1, ProgNoRun, NeedsAre
  <2>3. <<RunReg(IDLE_LOOP1)>> \in Seq(Again(IDLE_LOOP1))
    BY <1>2, Single
  <2> DEFINE t == <<RunReg(IDLE_LOOP1)>>
  <2> HIDE DEF t
  <2>4. IDLE_LOOP1 \in E /\ IDLE_LOOP1 \notin Modes \cup WriteTests /\ t \in Seq(Again(IDLE_LOOP1))
    BY <1>2, <2>3 DEF t
  <2>5. Prog(s \o t, E)
    BY <2>2, <2>4, ProgAgain
  <2> QED
    BY <1>3, <2>5 DEF delay_for_n_mem_clocks, s, t
<1>4. CASE n > 256
  <2> DEFINE s == <<LoadCntrReg(0, Inner(n)), LoadCntrReg(1, Outer(n)),
                    LoadJumpReg(0, IDLE_LOOP2), LoadJumpReg(1, IDLE_LOOP2)>>
             t == Times(Runs(n), <<RunReg(IDLE_LOOP2)>>)
  <2>1. /\ LoadCntrReg(0, Inner(n)) \in Body({}) /\ LoadCntrReg(1, Outer(n)) \in Body({})
        /\ LoadJumpReg(0, IDLE_LOOP2) \in Body({}) /\ LoadJumpReg(1, IDLE_LOOP2) \in Body({})
    BY <1>1, <1>2 DEF Body, LoadCntrReg, LoadJumpReg
  <2>2. /\ s \in Seq(Body({})) /\ Len(s) = 4
        /\ s[3] = LoadJumpReg(0, IDLE_LOOP2) /\ s[4] = LoadJumpReg(1, IDLE_LOOP2)
    BY <2>1
  <2> HIDE DEF s
  <2>3. Aimed(s, 4, 0, Block(IDLE_LOOP2)) /\ Aimed(s, 4, 1, Block(IDLE_LOOP2))
    <3>1. Aims(s[3], 0) /\ s[3].val = IDLE_LOOP2 /\ ~Aims(s[4], 0)
          /\ Aims(s[4], 1) /\ s[4].val = IDLE_LOOP2
      BY <2>2 DEF LoadJumpReg, Aims
    <3>2. (\A k \in 3 + 1 .. 4 : k = 4) /\ (\A k \in 4 + 1 .. 4 : FALSE)
          /\ 3 \in 1 .. 4 /\ 4 \in 1 .. 4
      OBVIOUS
    <3>3. Aimed(s, 4, 0, Block(IDLE_LOOP2))
      BY <1>2, <3>1, <3>2 DEF Aimed
    <3>4. Aimed(s, 4, 1, Block(IDLE_LOOP2))
      BY <1>2, <3>1, <3>2 DEF Aimed
    <3> QED
      BY <3>3, <3>4
  <2>4. Prog(s, E) /\ \A c \in Needs(IDLE_LOOP2) : Aimed(s, Len(s), c, Block(IDLE_LOOP2))
    BY <2>2, <2>3, ProgNoRun, NeedsAre
  <2>5. t \in Seq(Again(IDLE_LOOP2))
    <3> DEFINE r == <<RunReg(IDLE_LOOP2)>>
               m == Runs(n)
    <3>1. r \in Seq(Again(IDLE_LOOP2)) /\ m \in Nat
      BY <1>1, <1>2, Single
    <3> HIDE DEF r, m
    <3>2. Times(m, r) \in Seq(Again(IDLE_LOOP2))
      BY <3>1, TimesAre
    <3> QED
      BY <3>2 DEF r, m
  <2> HIDE DEF t
  <2>6. Prog(s \o t, E)
    BY <1>2, <2>4, <2>5, ProgAgain
  <2> QED
    BY <1>4, <2>6 DEF delay_for_n_mem_clocks, s, t
<1> QED
  BY <1>3, <1>4

LEMMA ProgModeDelay ==
    ASSUME NEW E, Idles \subseteq E, NEW a \in E, a \in Modes, MaxCntr >= 255
    PROVE  Prog(ModeThenDelay(a), E)
<1>1. Prog(LoadMode(a), E) /\ Prog(delay_for_n_mem_clocks(4), E)
  BY ProgMode, ProgDelay
<1> QED
  BY <1>1, ProgJoin DEF ModeThenDelay

(* The reset's two halves.                                                 *)
LEMMA ProgHold ==
    ASSUME NEW E, NEW a \in E, a \in Holds, NEW cntrs,
           \A c \in 1 .. 3 : cntrs[c] \in 0 .. MaxCntr
    PROVE  Prog(HoldFor(cntrs, a), E)
<1> DEFINE s == [c \in 1 .. 3 |-> LoadCntrReg(c - 1, cntrs[c])]
           t == [c \in 1 .. 3 |-> LoadJumpReg(c - 1, a)]
<1>1. a \in Addresses /\ a \in Block(a) /\ a \notin Modes \cup WriteTests
  <2>1. a \in Entries
    BY DEF Entries
  <2>2. a \notin Modes \cup WriteTests
    BY DEF Holds, INIT_RESET_0_CKE_0, INIT_RESET_1_CKE_0, Modes, WriteTests, WRITE_WL_1,
       WRITE, DmBlock
  <2> QED
    BY <2>1, <2>2, BlocksAre, EntriesAre
<1>2. s \in Seq(Body({})) /\ t \in Seq(Body({})) /\ Len(t) = 3 /\ Len(s) = 3
  <2>1. \A c \in 1 .. 3 : c - 1 \in Cntrs
    BY DEF Cntrs
  <2>2. \A c \in 1 .. 3 : LoadCntrReg(c - 1, cntrs[c]) \in Body({})
    BY <2>1 DEF Body, LoadCntrReg
  <2>3. \A c \in 1 .. 3 : LoadJumpReg(c - 1, a) \in Body({})
    BY <1>1, <2>1 DEF Body, LoadJumpReg
  <2>4. s \in [1 .. 3 -> Body({})] /\ t \in [1 .. 3 -> Body({})]
    BY <2>2, <2>3
  <2> QED
    BY <2>4
<1>3. ASSUME NEW c \in {0, 1, 2} PROVE Aimed(t, 3, c, Block(a))
  <2>1. c + 1 \in 1 .. 3 /\ t[c + 1] = LoadJumpReg(c, a)
    OBVIOUS
  <2>2. \A k \in (c + 1) + 1 .. 3 : k \in 1 .. 3 /\ t[k].reg # c
    BY DEF LoadJumpReg
  <2> HIDE DEF t
  <2>3. Aims(t[c + 1], c) /\ t[c + 1].val = a
    BY <2>1 DEF LoadJumpReg, Aims
  <2> QED
    BY <1>1, <2>1, <2>2, <2>3 DEF Aims, Aimed
<1> HIDE DEF s, t
<1>4. /\ s \o t \in Seq(Body({})) /\ Len(s \o t) = Len(s) + 3 /\ 3 \in Nat /\ Len(s) \in Nat
      /\ \A k \in 1 .. 3 : (s \o t)[Len(s) + k] = t[k]
  <2> DEFINE u == s \o t
  <2>1. s \in Seq(Body({})) /\ t \in Seq(Body({}))
    BY <1>2
  <2>2. /\ u \in Seq(Body({})) /\ Len(u) = Len(s) + Len(t) /\ Len(s) \in Nat
        /\ \A i \in 1 .. Len(t) : u[Len(s) + i] = t[i]
    BY <2>1, Joined
  <2> HIDE DEF u
  <2>3. /\ u \in Seq(Body({})) /\ Len(u) = Len(s) + 3 /\ 3 \in Nat /\ Len(s) \in Nat
        /\ \A k \in 1 .. 3 : u[Len(s) + k] = t[k]
    BY <1>2, <2>2
  <2> QED
    BY <2>3 DEF u
<1>6. ASSUME NEW c \in Needs(a) PROVE Aimed(s \o t, Len(s \o t), c, Block(a))
  <2>1. c \in {0, 1, 2}
    BY NeedsAre DEF Holds
  <2>2. Aimed(t, 3, c, Block(a))
    BY <1>3, <2>1
  <2> DEFINE u == s \o t
  <2>3. \A k \in 1 .. 3 : u[Len(s) + k] = t[k]
    BY <1>4
  <2> HIDE DEF u
  <2>4. Aimed(u, Len(s) + 3, c, Block(a))
    BY <1>4, <2>2, <2>3, AimedAt
  <2> QED
    BY <1>4, <2>4 DEF u
<1>7. Prog(s \o t, E) /\ <<RunReg(a)>> \in Seq(Again(a))
  BY <1>4, ProgNoRun, Single
<1>8. Prog((s \o t) \o <<RunReg(a)>>, E)
  BY <1>1, <1>6, <1>7, ProgAgain
<1> QED
  BY <1>8 DEF HoldFor, s, t
-----------------------------------------------------------------------------
(* The programs of the write test.                                         *)
LEMMA LoadedLater ==
    ASSUME NEW S, NEW s \in Seq(S), NEW t \in Seq(S), NEW c, NEW v,
           Loaded(s, Len(s), c, v), NEW n \in 0 .. Len(t),
           \A k \in 1 .. n : t[k].op # "run" /\ ~(t[k].op = "cntr" /\ t[k].reg = c)
    PROVE  Loaded(s \o t, Len(s) + n, c, v)
<1> DEFINE Keeps(w) == w.op # "run" /\ ~(w.op = "cntr" /\ w.reg = c)
           u == s \o t
<1>1. PICK j \in 1 .. Len(s) :
        s[j] = LoadCntrReg(c, v) /\ \A k \in j + 1 .. Len(s) : Keeps(s[k])
  BY DEF Loaded
<1>2. /\ Len(s) \in Nat /\ Len(t) \in Nat
      /\ \A i \in 1 .. Len(s) : u[i] = s[i]
      /\ \A i \in 1 .. Len(t) : u[Len(s) + i] = t[i]
  BY Joined
<1>3. \A k \in 1 .. n : Keeps(t[k])
  OBVIOUS
<1> HIDE DEF u, Keeps
<1>4. ASSUME NEW k \in j + 1 .. Len(s) + n PROVE Keeps(u[k])
  <2>1. CASE k <= Len(s)
    BY <1>1, <1>2, <2>1
  <2>2. CASE k > Len(s)
    <3>1. k - Len(s) \in 1 .. n /\ k = Len(s) + (k - Len(s)) /\ n <= Len(t)
      BY <1>2, <2>2
    <3>2. u[k] = t[k - Len(s)]
      BY <1>2, <3>1
    <3> QED
      BY <1>3, <3>1, <3>2
  <2> QED
    BY <1>2, <2>1, <2>2
<1>5. j \in 1 .. Len(s) + n /\ u[j] = s[j]
  BY <1>2
<1>6. Loaded(u, Len(s) + n, c, v)
  BY <1>1, <1>4, <1>5 DEF Loaded, Keeps
<1> QED
  BY <1>6 DEF u

HasCntr(s, c, v) == Loaded(s, Len(s), c, v)

LEMMA OneMoreCntr ==
    ASSUME NEW s \in Seq(Body({})), NEW c \in Cntrs, NEW n \in 0 .. MaxCntr,
           NEW a \in Addresses
    PROVE  /\ HasCntr(s \o Loop(c, n, a), c, n)
           /\ \A d, v : d # c /\ HasCntr(s, d, v) => HasCntr(s \o Loop(c, n, a), d, v)
<1> DEFINE t == Loop(c, n, a)
           u == s \o t
<1>1. /\ t \in Seq(Body({})) /\ Len(t) = 2
      /\ t[1] = LoadCntrReg(c, n) /\ t[2] = LoadJumpReg(c, a)
  BY LoopIs
<1> HIDE DEF t
<1>2. /\ Len(u) = Len(s) + 2 /\ Len(s) \in Nat
      /\ \A i \in 1 .. 2 : u[Len(s) + i] = t[i]
  <2>1. t \in Seq(Body({}))
    BY <1>1
  <2>2. /\ Len(u) = Len(s) + Len(t) /\ Len(s) \in Nat
        /\ \A i \in 1 .. Len(t) : u[Len(s) + i] = t[i]
    BY <2>1, Joined
  <2> HIDE DEF u
  <2> QED
    BY <1>1, <2>2
<1>3. HasCntr(u, c, n)
  <2>1. t[2].op = "jump" /\ (\A k \in 1 + 1 .. 2 : k = 2) /\ 1 \in 1 .. 2
    BY <1>1 DEF LoadJumpReg
  <2>2. Loaded(t, 2, c, n) /\ 2 \in Nat
    BY <1>1, <2>1 DEF Loaded
  <2> HIDE DEF u
  <2>3. Loaded(u, Len(s) + 2, c, n)
    BY <1>2, <2>2, LoadedAt
  <2> QED
    BY <1>2, <2>3 DEF HasCntr
<1>4. ASSUME NEW d, NEW v, d # c, HasCntr(s, d, v) PROVE HasCntr(u, d, v)
  <2>1. Loaded(s, Len(s), d, v)
    BY <1>4 DEF HasCntr
  <2>2. \A k \in 1 .. 2 : t[k].op # "run" /\ ~(t[k].op = "cntr" /\ t[k].reg = d)
    <3>1. /\ t[1].op = "cntr" /\ t[1].reg = c /\ t[2].op = "jump"
      BY <1>1 DEF LoadCntrReg, LoadJumpReg
    <3>2. \A k \in 1 .. 2 : k = 1 \/ k = 2
      OBVIOUS
    <3> QED
      BY <1>4, <3>1, <3>2
  <2>3. 2 \in 0 .. Len(t)
    BY <1>1
  <2>4. Loaded(s \o t, Len(s) + 2, d, v)
    BY <1>1, <2>1, <2>2, <2>3, LoadedLater
  <2> QED
    BY <1>2, <2>4 DEF HasCntr
<1> QED
  BY <1>3, <1>4 DEF t

(* A PHY reset, or a jump, in between changes nothing.                     *)
LEMMA OnePhy ==
    ASSUME NEW s \in Seq(Body({}))
    PROVE  /\ s \o <<PhyReg>> \in Seq(Body({}))
           /\ \A d, v : HasCntr(s, d, v) => HasCntr(s \o <<PhyReg>>, d, v)
           /\ \A d, B : SetUp(s, d, B) => SetUp(s \o <<PhyReg>>, d, B)
<1> DEFINE t == <<PhyReg>>
           u == s \o t
<1>1. /\ t \in Seq(Body({})) /\ Len(t) = 1 /\ t[1] = PhyReg
  BY DEF Body
<1> HIDE DEF t
<1>2. u \in Seq(Body({})) /\ Len(u) = Len(s) + 1 /\ Len(s) \in Nat
  <2>1. t \in Seq(Body({}))
    BY <1>1
  <2>2. u \in Seq(Body({})) /\ Len(u) = Len(s) + Len(t) /\ Len(s) \in Nat
    BY <2>1, Joined
  <2> HIDE DEF u
  <2> QED
    BY <1>1, <2>2
<1>3. /\ 1 \in 0 .. Len(t) /\ \A k \in 1 .. 1 : t[k] = PhyReg
  BY <1>1
<1>4. ASSUME NEW d, NEW v, HasCntr(s, d, v) PROVE HasCntr(u, d, v)
  <2>1. Loaded(s, Len(s), d, v)
    BY <1>4 DEF HasCntr
  <2>2. \A k \in 1 .. 1 : t[k].op # "run" /\ ~(t[k].op = "cntr" /\ t[k].reg = d)
    BY <1>3 DEF PhyReg
  <2>3. Loaded(s \o t, Len(s) + 1, d, v)
    BY <1>1, <1>3, <2>1, <2>2, LoadedLater
  <2> QED
    BY <1>2, <2>3 DEF HasCntr
<1>5. ASSUME NEW d, NEW B, SetUp(s, d, B) PROVE SetUp(u, d, B)
  <2>1. Aimed(s, Len(s), d, B)
    BY <1>5 DEF SetUp
  <2>2. \A k \in 1 .. 1 : ~Aims(t[k], d)
    BY <1>3 DEF PhyReg, Aims
  <2>3. Aimed(s \o t, Len(s) + 1, d, B)
    BY <1>1, <1>3, <2>1, <2>2, AimedLater
  <2> QED
    BY <1>2, <2>3 DEF SetUp
<1> QED
  BY <1>2, <1>4, <1>5 DEF t

LEMMA ProgWriteRun ==
    ASSUME NEW E, NEW s \in Seq(Body({})), NEW a \in E, a \in WriteTests,
           WriteReady(s, Len(s), a)
    PROVE  Prog(s \o <<RunReg(a)>>, E)
<1> DEFINE t == <<RunReg(a)>>
           u == s \o t
<1>1. /\ t \in Seq(Body(E)) /\ Len(t) = 1 /\ t[1] = RunReg(a)
  BY DEF Body, RunReg
<1> HIDE DEF t
<1>2. Prog(s, E) /\ s \in Seq(Body(E))
  BY ProgNoRun DEF Prog
<1>3. /\ u \in Seq(Body(E)) /\ Len(u) = Len(s) + 1 /\ Len(s) \in Nat
      /\ u[Len(s) + 1] = RunReg(a)
      /\ \A i \in 1 .. Len(s) : u[i] = s[i]
  <2>1. t \in Seq(Body(E))
    BY <1>1
  <2>2. /\ u \in Seq(Body(E)) /\ Len(u) = Len(s) + Len(t) /\ Len(s) \in Nat
        /\ \A i \in 1 .. Len(s) : u[i] = s[i]
        /\ \A i \in 1 .. Len(t) : u[Len(s) + i] = t[i]
    BY <1>2, <2>1, Joined
  <2> HIDE DEF u
  <2> QED
    BY <1>1, <2>2
<1> HIDE DEF u
<1>4. \A k \in 1 .. Len(s) : u[0 + k] = s[k]
  BY <1>3
<1>5. /\ \A c, B : Aimed(s, Len(s), c, B) => Aimed(u, 0 + Len(s), c, B)
      /\ \A c, v : Loaded(s, Len(s), c, v) => Loaded(u, 0 + Len(s), c, v)
  BY <1>3, <1>4, AimedAt, LoadedAt
<1>6. WriteReady(u, Len(s), a)
  <2>1. 0 + Len(s) = Len(s)
    BY <1>3
  <2> QED
    BY <1>5, <2>1 DEF WriteReady
<1>7. ASSUME NEW i \in 1 .. Len(u) PROVE Ready(u, i)
  <2>1. CASE i <= Len(s)
    <3>1. i \in Nat \ {0} /\ i \in 1 .. Len(s) /\ 0 + i = i
      BY <1>3, <2>1
    <3>2. Ready(s, i)
      BY <1>2, <3>1 DEF Prog
    <3>3. \A k \in 1 .. i : u[0 + k] = s[k]
      BY <1>3, <3>1
    <3>4. Ready(u, 0 + i)
      BY <3>1, <3>2, <3>3, ReadyAt
    <3> QED
      BY <3>1, <3>4
  <2>2. CASE i = Len(s) + 1
    <3>1. u[i].val = a /\ i - 1 = Len(s) /\ a \notin Modes
      BY <1>3, <2>2 DEF RunReg, Modes, WriteTests, WRITE_WL_1, WRITE, DmBlock
    <3> QED
      BY <1>6, <3>1 DEF Ready
  <2> QED
    BY <1>3, <2>1, <2>2
<1> QED
  BY <1>3, <1>7 DEF Prog, u, t
-----------------------------------------------------------------------------
LEMMA Constants ==
    /\ MaxCntr >= 255 /\ {15, 16, 32, 48, 0, 4, 255} \subseteq 0 .. MaxCntr
    /\ {PatternReads, ReadLoops, AllReadLoops, AllGroups, WriteLoops} \subseteq 0 .. MaxCntr
    /\ WriteLoops \in 0 .. 254 /\ 0 \in Cntrs /\ 1 \in Cntrs /\ 2 \in Cntrs /\ 3 \in Cntrs
BY CommandsAssumption, CntrAssumption DEF Cntrs

LEMMA ProgWriteIssue ==
    ASSUME NEW dm \in {0, DmBlock}, board.wl \in 0 .. MaxCntr
    PROVE  Prog(write_test_issue(dm), Bursts)
<1> DEFINE e == WriteEntry + dm
           skips == WriteSkips(dm)
           s0 == skips \o <<PhyReg>>
           s1 == s0 \o Loop(0, WriteLoops, e)
           s2 == s1 \o Loop(1, 48, WRITE_WAIT + dm)
           nop == rw_wl_nop_cycles
<1>1. /\ e \in Addresses /\ e \in WriteTests /\ e \in Bursts /\ dm = Dm(e)
      /\ {e, WRITE_WAIT + dm, WRITE_DQS + dm, WRITE_NOP + dm, WRITE_DATA + dm}
             \subseteq Addresses \cap Block(e)
      /\ 0 \in Addresses
      /\ nop # -1 => e = WRITE + dm
  <2>1. dm = 0 \/ dm = 20
    BY DEF DmBlock
  <2>2. (e = 33 + dm \/ e = 34 + dm) /\ (nop # -1 => e = 34 + dm)
    <3> HIDE DEF nop
    <3> QED
      BY <2>1 DEF WriteEntry, WRITE, WRITE_WL_1, nop
  <2> HIDE DEF e, nop
  <2>3. e \in {33, 34, 53, 54} /\ (e \in {33, 34} => dm = 0) /\ (e \in {53, 54} => dm = 20)
    BY <2>1, <2>2
  <2>4. e \in WriteTests /\ dm = Dm(e)
    BY <2>3 DEF WriteTests, Dm, DmBlock, WRITE, WRITE_WL_1
  <2>5. Block(e) = 33 + dm .. 52 + dm
    <3>1. /\ \A a \in {33, 34} : Block(a) = 33 .. 52
          /\ \A a \in {53, 54} : Block(a) = 53 .. 72
      BY DEF Block, DmBlock, WRITE, WRITE_WL_1, Modes, ACTIVATE_0_AND_1, PRECHARGE_ALL,
         GUARANTEED_WRITE, CLEAR_DQS_ENABLE, GUARANTEED_READ, READ_B2B, INIT_RESET_0_CKE_0,
         INIT_RESET_1_CKE_0, IDLE_LOOP2
    <3>2. CASE e \in {33, 34}
      <4>1. Block(e) = 33 .. 52 /\ dm = 0
        BY <2>3, <3>1, <3>2
      <4> QED
        BY <4>1
    <3>3. CASE e \in {53, 54}
      <4>1. Block(e) = 53 .. 72 /\ dm = 20
        BY <2>3, <3>1, <3>3
      <4> QED
        BY <4>1
    <3> QED
      BY <2>3, <3>2, <3>3
  <2>6. {e, WRITE_WAIT + dm, WRITE_DQS + dm, WRITE_NOP + dm, WRITE_DATA + dm}
            \subseteq 33 + dm .. 52 + dm
    BY <2>1, <2>3 DEF WRITE_WAIT, WRITE_DQS, WRITE_NOP, WRITE_DATA
  <2>7. 33 + dm .. 52 + dm \subseteq Addresses /\ 0 \in Addresses
    BY <2>1 DEF Addresses
  <2>8. {e, WRITE_WAIT + dm, WRITE_DQS + dm, WRITE_NOP + dm, WRITE_DATA + dm}
            \subseteq Addresses \cap Block(e)
    BY <2>5, <2>6, <2>7
  <2>9. e \in Addresses
    BY <2>8
  <2>10. e \in Bursts /\ (nop # -1 => e = WRITE + dm)
    BY <2>2, <2>4 DEF Bursts, WRITE
  <2> QED
    BY <2>4, <2>7, <2>8, <2>9, <2>10
<1>2. nop \in Int /\ nop >= -1 /\ nop - 1 <= MaxCntr
  BY CntrAssumption DEF rw_wl_nop_cycles, Wlat
<1> HIDE DEF e
<1>3. /\ skips \in Seq(Body({}))
      /\ \/ SetUp(skips, 2, Block(e)) /\ SetUp(skips, 3, Block(e))
         \/ HasCntr(skips, 2, 0) /\ SetUp(skips, 3, Block(e))
         \/ e = WRITE + dm /\ HasCntr(skips, 2, 255) /\ SetUp(skips, 2, {WRITE_DQS + dm})
  <2>1. CASE nop = -1
    <3> DEFINE x == Loop(2, 255, WRITE_DATA + dm)
               y == <<LoadJumpReg(3, WRITE_NOP + dm)>>
    <3>1. x \in Seq(Body({})) /\ Len(x) = 2 /\ Aimed(x, 2, 2, Block(e))
      BY <1>1, Constants, LoopIs
    <3> HIDE DEF x
    <3>2. /\ y \in Seq(Body({})) /\ Len(y) = 1
          /\ Aims(y[1], 3) /\ ~Aims(y[1], 2) /\ y[1].val \in Block(e)
      BY <1>1, Constants DEF Body, LoadJumpReg, Aims
    <3> HIDE DEF y
    <3>3. x \o y \in Seq(Body({})) /\ Len(x \o y) = 3
      BY <3>1, <3>2, Joined
    <3>4. Aimed(x \o y, Len(x) + 1, 2, Block(e))
      <4>1. 1 \in 0 .. Len(y) /\ \A k \in 1 .. 1 : ~Aims(y[k], 2)
        BY <3>2
      <4>2. Aimed(x, Len(x), 2, Block(e)) /\ x \in Seq(Body({})) /\ y \in Seq(Body({}))
        BY <3>1, <3>2
      <4> QED
        BY <4>1, <4>2, AimedLater
    <3>5. Aimed(x \o y, Len(x) + 1, 3, Block(e))
      <4>1. Aimed(y, 1, 3, Block(e))
        BY <3>2 DEF Aimed
      <4>2. \A k \in 1 .. 1 : (x \o y)[Len(x) + k] = y[k]
        <5>1. \A k \in 1 .. Len(y) : (x \o y)[Len(x) + k] = y[k]
          <6>1. x \in Seq(Body({})) /\ y \in Seq(Body({}))
            BY <3>1, <3>2
          <6> QED
            BY <6>1, Joined
        <5> QED
          BY <3>2, <5>1
      <4> DEFINE z == x \o y
      <4>3. \A k \in 1 .. 1 : z[Len(x) + k] = y[k]
        BY <4>2
      <4> HIDE DEF z
      <4>4. Len(x) \in Nat /\ 1 \in Nat
        BY <3>1
      <4>5. Aimed(z, Len(x) + 1, 3, Block(e))
        BY <4>1, <4>3, <4>4, AimedAt
      <4> QED
        BY <4>5 DEF z
    <3>6. skips = x \o y
      BY <2>1 DEF WriteSkips, x, y
    <3>7. Len(x \o y) = Len(x) + 1
      BY <3>1, <3>3
    <3> HIDE DEF skips
    <3> QED
      BY <3>3, <3>4, <3>5, <3>6, <3>7 DEF SetUp
  <2>2. CASE nop = 0
    <3> DEFINE x == Loop(2, 255, WRITE_DQS + dm)
    <3>1. /\ x \in Seq(Body({})) /\ Len(x) = 2
          /\ Aimed(x, 2, 2, {WRITE_DQS + dm})
          /\ x[1] = LoadCntrReg(2, 255) /\ x[2] = LoadJumpReg(2, WRITE_DQS + dm)
      <4> DEFINE b == WRITE_DQS + dm
      <4>1. b \in Addresses /\ b \in {b} /\ 255 \in 0 .. MaxCntr /\ 2 \in Cntrs
        BY <1>1, Constants
      <4> HIDE DEF b
      <4>2. /\ Loop(2, 255, b) \in Seq(Body({})) /\ Len(Loop(2, 255, b)) = 2
            /\ Aimed(Loop(2, 255, b), 2, 2, {b})
            /\ Loop(2, 255, b)[1] = LoadCntrReg(2, 255)
            /\ Loop(2, 255, b)[2] = LoadJumpReg(2, b)
        BY <4>1, LoopIs
      <4> QED
        BY <4>2 DEF b
    <3> HIDE DEF x
    <3>2. Loaded(x, 2, 2, 255)
      <4>1. x[2].op = "jump" /\ (\A k \in 1 + 1 .. 2 : k = 2) /\ 1 \in 1 .. 2
        BY <3>1 DEF LoadJumpReg
      <4> QED
        BY <3>1, <4>1 DEF Loaded
    <3>3. skips = x /\ e = WRITE + dm
      BY <1>1, <2>2 DEF WriteSkips, x
    <3> QED
      BY <3>1, <3>2, <3>3 DEF SetUp, HasCntr
  <2>3. CASE nop # -1 /\ nop # 0
    <3> DEFINE x == Loop(2, 0, 0)
               y == x \o Loop(3, nop - 1, WRITE_NOP + dm)
    <3>1. /\ x \in Seq(Body({})) /\ Len(x) = 2
          /\ x[1] = LoadCntrReg(2, 0) /\ x[2] = LoadJumpReg(2, 0)
      BY <1>1, Constants, LoopIs
    <3> HIDE DEF x
    <3>2. HasCntr(x, 2, 0)
      <4>1. x[2].op = "jump" /\ (\A k \in 1 + 1 .. 2 : k = 2) /\ 1 \in 1 .. 2
        BY <3>1 DEF LoadJumpReg
      <4> QED
        BY <3>1, <4>1 DEF Loaded, HasCntr
    <3>3. nop - 1 \in 0 .. MaxCntr /\ 2 # 3
      BY <1>2, <2>3, CntrAssumption
    <3>4. WRITE_NOP + dm \in Addresses /\ WRITE_NOP + dm \in Block(e)
      BY <1>1
    <3>5. y \in Seq(Body({})) /\ SetUp(y, 3, Block(e))
      BY <3>1, <3>3, <3>4, Constants, OneMore
    <3>6. HasCntr(y, 2, 0)
      BY <3>1, <3>2, <3>3, <3>4, Constants, OneMoreCntr
    <3>7. skips = y
      BY <2>3 DEF WriteSkips, x
    <3> QED
      BY <3>5, <3>6, <3>7
  <2> QED
    BY <2>1, <2>2, <2>3
<1> HIDE DEF skips
<1>4. /\ s0 \in Seq(Body({}))
      /\ \A d, v : HasCntr(skips, d, v) => HasCntr(s0, d, v)
      /\ \A d, B : SetUp(skips, d, B) => SetUp(s0, d, B)
  BY <1>3, OnePhy
<1> HIDE DEF s0
<1>5. /\ s1 \in Seq(Body({})) /\ SetUp(s1, 0, {e}) /\ HasCntr(s1, 0, WriteLoops)
      /\ \A d, v : d # 0 /\ HasCntr(s0, d, v) => HasCntr(s1, d, v)
      /\ \A d, B : d # 0 /\ SetUp(s0, d, B) => SetUp(s1, d, B)
  BY <1>1, <1>4, Constants, OneMore, OneMoreCntr, ZenonT(30)
<1> HIDE DEF s1
<1>6. /\ s2 \in Seq(Body({})) /\ SetUp(s2, 1, {WRITE_WAIT + dm})
      /\ \A d, v : d # 1 /\ HasCntr(s1, d, v) => HasCntr(s2, d, v)
      /\ \A d, B : d # 1 /\ SetUp(s1, d, B) => SetUp(s2, d, B)
  BY <1>1, <1>5, Constants, OneMore, OneMoreCntr, ZenonT(30)
<1> HIDE DEF s2
<1>7. WriteReady(s2, Len(s2), e)
  <2>1. /\ SetUp(s2, 0, {e}) /\ SetUp(s2, 1, {WRITE_WAIT + dm})
        /\ HasCntr(s2, 0, WriteLoops)
    BY <1>5, <1>6
  <2>2. \/ SetUp(s2, 2, Block(e)) /\ SetUp(s2, 3, Block(e))
        \/ HasCntr(s2, 2, 0) /\ SetUp(s2, 3, Block(e))
        \/ e = WRITE + dm /\ HasCntr(s2, 2, 255) /\ SetUp(s2, 2, {WRITE_DQS + dm})
    <3>1. 2 # 0 /\ 3 # 0 /\ 2 # 1 /\ 3 # 1
      OBVIOUS
    <3>2. /\ \A B : SetUp(skips, 2, B) => SetUp(s2, 2, B)
          /\ \A B : SetUp(skips, 3, B) => SetUp(s2, 3, B)
          /\ \A v : HasCntr(skips, 2, v) => HasCntr(s2, 2, v)
      BY <1>4, <1>5, <1>6, <3>1
    <3> QED
      BY <1>3, <3>2
  <2> QED
    BY <1>1, <2>1, <2>2 DEF WriteReady, SetUp, HasCntr
<1>8. Prog(s2 \o <<RunReg(e)>>, Bursts)
  BY <1>1, <1>6, <1>7, ProgWriteRun
<1> QED
  BY <1>8 DEF write_test_issue, s2, s1, s0, skips, e
-----------------------------------------------------------------------------
(* The parts, each a program after its first write.                        *)
(* The kinds of parts: those that address one rank without termination,    *)
(* those that address one with it, and what each may run.                  *)
OffProcs  == {"initialize", "activate", "handoff"}
ReadProcs == {"read_patterns", "read_test", "read_all"}
OdtProcs  == ReadProcs \cup {"load_patterns", "write_test", "write_test_dm"}
Procs     == OffProcs \cup OdtProcs \cup {"reset", "clear", "odt_off"}

OffRuns   == Modes \cup Idles \cup Rows
ResetRuns == Holds \cup Idles

LEMMA OffRunsAre ==
    /\ Idles \subseteq OffRuns /\ Modes \subseteq OffRuns /\ Rows \subseteq OffRuns
    /\ {2, 3, 4, 5, 6, 7, 8, 9, 10, 11, 12} \subseteq Modes
    /\ ACTIVATE_0_AND_1 \notin Modes \cup WriteTests
    /\ PRECHARGE_ALL \notin Modes \cup WriteTests
BY DEF OffRuns, Modes, ACTIVATE_0_AND_1, PRECHARGE_ALL, WriteTests, WRITE_WL_1, WRITE, DmBlock

LEMMA ProgModes ==
    \A a \in 2 .. 12 : Prog(LoadMode(a), OffRuns) /\ Prog(ModeThenDelay(a), OffRuns)
<1> TAKE a \in 2 .. 12
<1>1. a \in Modes /\ a \in OffRuns /\ Idles \subseteq OffRuns /\ MaxCntr >= 255
  BY OffRunsAre, Constants DEF Modes
<1> QED
  BY <1>1, ProgMode, ProgModeDelay

LEMMA ProgFour ==
    ASSUME NEW E, NEW s, NEW t, NEW u, NEW v, Prog(s, E), Prog(t, E), Prog(u, E), Prog(v, E)
    PROVE  Prog(s \o t \o u \o v, E)
<1>1. Prog(s \o t, E)
  BY ProgJoin
<1>2. Prog((s \o t) \o u, E)
  BY <1>1, ProgJoin
<1> QED
  BY <1>2, ProgJoin

LEMMA InitializePart ==
    ASSUME NEW r
    PROVE  \E t : Prog(t, OffRuns) /\ InitializeRank(r) = <<SelectOff(r)>> \o t
<1> DEFINE a == ModeThenDelay(10) \o ModeThenDelay(11) \o ModeThenDelay(9) \o LoadMode(8)
           b == ModeThenDelay(4) \o ModeThenDelay(5) \o LoadMode(3) \o LoadMode(2)
           m == IF r \in board.mirrored THEN a ELSE b
           t == m \o LoadMode(6) \o delay_for_n_mem_clocks(512)
<1>1. Prog(a, OffRuns) /\ Prog(b, OffRuns)
  BY ProgModes, ProgFour
<1>2. Prog(m, OffRuns)
  <2> HIDE DEF a, b
  <2> QED
    BY <1>1
<1>3. Prog(LoadMode(6), OffRuns) /\ Prog(delay_for_n_mem_clocks(512), OffRuns)
  BY ProgModes, ProgDelay, OffRunsAre, Constants
<1> HIDE DEF m
<1>4. Prog(m \o LoadMode(6), OffRuns)
  BY <1>2, <1>3, ProgJoin
<1>5. Prog(t, OffRuns)
  BY <1>3, <1>4, ProgJoin
<1>6. InitializeRank(r) = <<SelectOff(r)>> \o t
  BY Zenon DEF InitializeRank, m
<1> HIDE DEF t
<1> QED
  BY <1>5, <1>6

LEMMA HandOffPart ==
    ASSUME NEW r
    PROVE  \E t : Prog(t, OffRuns) /\ HandOffRank(r) = <<SelectOff(r)>> \o t
<1> DEFINE a == ModeThenDelay(10) \o ModeThenDelay(11) \o ModeThenDelay(9) \o LoadMode(12)
           b == ModeThenDelay(4) \o ModeThenDelay(5) \o ModeThenDelay(3) \o LoadMode(7)
           m == IF r \in board.mirrored THEN a ELSE b
           p == <<RunReg(PRECHARGE_ALL)>>
           t == p \o m
<1>1. Prog(a, OffRuns) /\ Prog(b, OffRuns)
  BY ProgModes, ProgFour
<1>2. Prog(m, OffRuns)
  <2> HIDE DEF a, b
  <2> QED
    BY <1>1
<1>3. Prog(p, OffRuns)
  BY ProgRun, OffRunsAre, NeedsAre DEF Rows
<1> HIDE DEF m, p
<1>4. Prog(t, OffRuns)
  BY <1>2, <1>3, ProgJoin
<1>5. HandOffRank(r) = <<SelectOff(r)>> \o t
  BY Zenon DEF HandOffRank, m, p
<1> QED
  BY <1>4, <1>5

LEMMA ActivatePart ==
    ASSUME NEW r
    PROVE  \E t : Prog(t, OffRuns) /\ ActivateRank(r) = <<SelectOff(r)>> \o t
<1> DEFINE p == <<RunReg(PRECHARGE_ALL)>>
           x == p \o Loop(0, 15, ACTIVATE_0_AND_1 + 1)
           y == x \o Loop(1, 15, ACTIVATE_0_AND_1 + 3)
           q == <<RunReg(ACTIVATE_0_AND_1)>>
           B == Block(ACTIVATE_0_AND_1)
<1>1. Prog(p, OffRuns) /\ p \in Seq(Body(OffRuns))
  BY ProgRun, OffRunsAre, NeedsAre DEF Rows, Prog
<1>2. /\ ACTIVATE_0_AND_1 + 1 \in B \cap Addresses /\ ACTIVATE_0_AND_1 + 3 \in B \cap Addresses
      /\ ACTIVATE_0_AND_1 \in OffRuns /\ ACTIVATE_0_AND_1 \notin Modes \cup WriteTests
      /\ 15 \in 0 .. MaxCntr /\ 0 # 1
  <2>1. B = 13 .. 17 /\ ACTIVATE_0_AND_1 = 13
    BY BlocksAre DEF ACTIVATE_0_AND_1
  <2>2. ACTIVATE_0_AND_1 \in OffRuns /\ ACTIVATE_0_AND_1 \notin Modes \cup WriteTests
    BY OffRunsAre DEF Rows, OffRuns
  <2> HIDE DEF B
  <2> QED
    BY <2>1, <2>2, Constants DEF Addresses
<1>3. Prog(x, OffRuns) /\ Prog(y, OffRuns)
  <2>1. /\ Prog(Loop(0, 15, ACTIVATE_0_AND_1 + 1), OffRuns)
        /\ Prog(Loop(1, 15, ACTIVATE_0_AND_1 + 3), OffRuns)
    BY <1>2, Constants, LoopIs, ProgNoRun
  <2>2. Prog(x, OffRuns)
    BY <1>1, <2>1, ProgJoin
  <2> QED
    BY <2>1, <2>2, ProgJoin
<1> HIDE DEF p, B
<1>4. x \in Seq(Body(OffRuns)) /\ SetUp(x, 0, B)
  BY <1>1, <1>2, Constants, OneMore
<1> HIDE DEF x
<1>5. y \in Seq(Body(OffRuns)) /\ SetUp(y, 0, B) /\ SetUp(y, 1, B)
  BY <1>2, <1>4, Constants, OneMore
<1> HIDE DEF y
<1>6. Prog(y \o q, OffRuns)
  <2>1. q \in Seq(Again(ACTIVATE_0_AND_1))
    BY <1>2, Single
  <2>2. \A c \in Needs(ACTIVATE_0_AND_1) : Aimed(y, Len(y), c, B)
    BY <1>5, NeedsAre DEF SetUp
  <2> HIDE DEF q
  <2> QED
    BY <1>2, <1>3, <2>1, <2>2, ProgAgain DEF B
<1>7. ActivateRank(r) = <<SelectOff(r)>> \o (y \o q)
  BY Zenon DEF ActivateRank, p, x, y
<1> QED
  BY <1>6, <1>7

LEMMA BurstsAre ==
    /\ \A a \in {GUARANTEED_WRITE, GUARANTEED_READ, READ_B2B, CLEAR_DQS_ENABLE} :
          a \in Bursts /\ a \notin Modes \cup WriteTests
    /\ {GUARANTEED_WRITE + 1, GUARANTEED_WRITE + 3, GUARANTEED_WRITE + 5,
        GUARANTEED_WRITE + 7} \subseteq Addresses \cap Block(GUARANTEED_WRITE)
    /\ {GUARANTEED_READ, GUARANTEED_READ_CONT} \subseteq Addresses \cap Block(GUARANTEED_READ)
    /\ {READ_B2B, READ_B2B_WAIT1, READ_B2B_WAIT2} \subseteq Addresses \cap Block(READ_B2B)
<1>1. \A a \in {GUARANTEED_WRITE, GUARANTEED_READ, READ_B2B, CLEAR_DQS_ENABLE} :
          a \in Bursts /\ a \notin Modes \cup WriteTests
  BY DEF Bursts, WriteTests, Modes, GUARANTEED_WRITE, GUARANTEED_READ, READ_B2B,
     CLEAR_DQS_ENABLE, WRITE_WL_1, WRITE, DmBlock
<1>2. {GUARANTEED_WRITE + 1, GUARANTEED_WRITE + 3, GUARANTEED_WRITE + 5,
        GUARANTEED_WRITE + 7} \subseteq Addresses \cap Block(GUARANTEED_WRITE)
  <2>1. Block(GUARANTEED_WRITE) = 24 .. 32
    BY BlocksAre
  <2> QED
    BY <2>1 DEF GUARANTEED_WRITE, Addresses
<1>3. {GUARANTEED_READ, GUARANTEED_READ_CONT} \subseteq Addresses \cap Block(GUARANTEED_READ)
  <2>1. Block(GUARANTEED_READ) = 76 .. 88
    BY BlocksAre
  <2> QED
    BY <2>1 DEF GUARANTEED_READ, GUARANTEED_READ_CONT, Addresses
<1>4. {READ_B2B, READ_B2B_WAIT1, READ_B2B_WAIT2} \subseteq Addresses \cap Block(READ_B2B)
  <2>1. Block(READ_B2B) = 89 .. 110
    BY BlocksAre
  <2> QED
    BY <2>1 DEF READ_B2B, READ_B2B_WAIT1, READ_B2B_WAIT2, Addresses
<1> QED
  BY <1>1, <1>2, <1>3, <1>4

LEMMA FirstLoop ==
    ASSUME NEW c \in Cntrs, NEW n \in 0 .. MaxCntr, NEW a \in Addresses, NEW B, a \in B
    PROVE  Loop(c, n, a) \in Seq(Body({})) /\ SetUp(Loop(c, n, a), c, B)
<1> DEFINE s == Loop(c, n, a)
<1>1. s \in Seq(Body({})) /\ Len(s) = 2 /\ Aimed(s, 2, c, B)
  BY LoopIs
<1> HIDE DEF s
<1>2. SetUp(s, c, B)
  BY <1>1 DEF SetUp
<1> QED
  BY <1>1, <1>2 DEF s

LEMMA LoadPatternsPart ==
    ASSUME NEW r
    PROVE  \E t : Prog(t, Bursts) /\ LoadPatternsRank(r) = <<SelectReadWrite(r)>> \o t
<1> DEFINE a == GUARANTEED_WRITE
           B == Block(a)
           q == <<RunReg(a)>>
           s1 == Loop(0, 32, GUARANTEED_WRITE + 3)
           s2 == s1 \o Loop(1, 32, GUARANTEED_WRITE + 7)
           s3 == s2 \o Loop(2, 4, GUARANTEED_WRITE + 1)
           s4 == s3 \o Loop(3, 4, GUARANTEED_WRITE + 5)
<1>1. /\ a \in Bursts /\ a \notin Modes \cup WriteTests /\ Needs(a) = {0, 1, 2, 3}
      /\ GUARANTEED_WRITE + 3 \in B /\ GUARANTEED_WRITE + 7 \in B
      /\ GUARANTEED_WRITE + 1 \in B /\ GUARANTEED_WRITE + 5 \in B
      /\ GUARANTEED_WRITE + 3 \in Addresses /\ GUARANTEED_WRITE + 7 \in Addresses
      /\ GUARANTEED_WRITE + 1 \in Addresses /\ GUARANTEED_WRITE + 5 \in Addresses
  BY BurstsAre, NeedsAre
<1>2. /\ 32 \in 0 .. MaxCntr /\ 4 \in 0 .. MaxCntr
      /\ 0 \in Cntrs /\ 1 \in Cntrs /\ 2 \in Cntrs /\ 3 \in Cntrs
      /\ 0 # 1 /\ 0 # 2 /\ 0 # 3 /\ 1 # 2 /\ 1 # 3 /\ 2 # 3
  BY Constants
<1>3. q \in Seq(Again(a))
  BY <1>1, Single
<1> HIDE DEF q, B
<1>4. s1 \in Seq(Body({})) /\ SetUp(s1, 0, B)
  BY <1>1, <1>2, FirstLoop
<1> HIDE DEF s1
<1>5. s2 \in Seq(Body({})) /\ SetUp(s2, 0, B) /\ SetUp(s2, 1, B)
  BY <1>1, <1>2, <1>4, OneMore
<1> HIDE DEF s2
<1>6. s3 \in Seq(Body({})) /\ SetUp(s3, 0, B) /\ SetUp(s3, 1, B) /\ SetUp(s3, 2, B)
  BY <1>1, <1>2, <1>5, OneMore
<1> HIDE DEF s3
<1>7. /\ s4 \in Seq(Body({})) /\ SetUp(s4, 0, B) /\ SetUp(s4, 1, B)
      /\ SetUp(s4, 2, B) /\ SetUp(s4, 3, B)
  BY <1>1, <1>2, <1>6, OneMore
<1> HIDE DEF s4
<1>8. Prog(s4 \o q, Bursts)
  <2>1. Prog(s4, Bursts)
    BY <1>7, ProgNoRun
  <2>2. \A c \in Needs(a) : Aimed(s4, Len(s4), c, Block(a))
    BY <1>1, <1>7 DEF SetUp, B
  <2> QED
    BY <1>1, <1>3, <2>1, <2>2, ProgAgain
<1>9. LoadPatternsRank(r) = <<SelectReadWrite(r)>> \o (s4 \o q)
  BY Zenon DEF LoadPatternsRank, s1, s2, s3, s4, q
<1> QED
  BY <1>8, <1>9

(* Every board has a virtual group.                                        *)
LEMMA PerGroup ==
    ASSUME board \in Boards, NEW a \in Bursts
    PROVE  PerVirtualGroup(a) \in Seq(Again(a))
<1> DEFINE s == <<PhyReg, PhyReg, RunReg(a)>>
<1>1. s \in Seq(Again(a)) /\ board.virtualGroups \in Nat
  BY Single, BoardAssumption
<1> HIDE DEF s
<1>2. Times(board.virtualGroups, s) \in Seq(Again(a))
  BY <1>1, TimesAre
<1> QED
  BY <1>2 DEF PerVirtualGroup, s

LEMMA ReadTestPart ==
    ASSUME board \in Boards, NEW r, NEW all \in BOOLEAN
    PROVE  \E t : Prog(t, Bursts) /\ ReadTestRank(r, all) = <<SelectReadWrite(r)>> \o t
<1> DEFINE a == READ_B2B
           B == Block(a)
           q == PerVirtualGroup(a)
           n3 == IF all THEN AllReadLoops ELSE ReadLoops
           n4 == IF all THEN AllGroups ELSE 0
           s1 == Loop(1, 16, READ_B2B_WAIT1)
           s2 == s1 \o Loop(2, 16, READ_B2B_WAIT2)
           s3 == s2 \o Loop(0, n3, READ_B2B)
           s4 == s3 \o Loop(3, n4, READ_B2B)
<1>1. /\ a \in Bursts /\ a \notin Modes \cup WriteTests /\ Needs(a) = {0, 1, 2, 3}
      /\ READ_B2B \in B /\ READ_B2B_WAIT1 \in B /\ READ_B2B_WAIT2 \in B
      /\ READ_B2B \in Addresses /\ READ_B2B_WAIT1 \in Addresses
      /\ READ_B2B_WAIT2 \in Addresses
  BY BurstsAre, NeedsAre
<1>2. /\ 16 \in 0 .. MaxCntr /\ n3 \in 0 .. MaxCntr /\ n4 \in 0 .. MaxCntr
      /\ 0 \in Cntrs /\ 1 \in Cntrs /\ 2 \in Cntrs /\ 3 \in Cntrs
      /\ 0 # 1 /\ 0 # 2 /\ 0 # 3 /\ 1 # 2 /\ 1 # 3 /\ 2 # 3
  BY Constants
<1>3. q \in Seq(Again(a))
  BY <1>1, PerGroup
<1> HIDE DEF q, n3, n4, B
<1>4. s1 \in Seq(Body({})) /\ SetUp(s1, 1, B)
  BY <1>1, <1>2, FirstLoop
<1> HIDE DEF s1
<1>5. s2 \in Seq(Body({})) /\ SetUp(s2, 1, B) /\ SetUp(s2, 2, B)
  BY <1>1, <1>2, <1>4, OneMore
<1> HIDE DEF s2
<1>6. s3 \in Seq(Body({})) /\ SetUp(s3, 1, B) /\ SetUp(s3, 2, B) /\ SetUp(s3, 0, B)
  BY <1>1, <1>2, <1>5, OneMore
<1> HIDE DEF s3
<1>7. /\ s4 \in Seq(Body({})) /\ SetUp(s4, 1, B) /\ SetUp(s4, 2, B)
      /\ SetUp(s4, 0, B) /\ SetUp(s4, 3, B)
  BY <1>1, <1>2, <1>6, OneMore
<1> HIDE DEF s4
<1>8. Prog(s4 \o q, Bursts)
  <2>1. Prog(s4, Bursts)
    BY <1>7, ProgNoRun
  <2>2. \A c \in Needs(a) : Aimed(s4, Len(s4), c, Block(a))
    BY <1>1, <1>7 DEF SetUp, B
  <2> QED
    BY <1>1, <1>3, <2>1, <2>2, ProgAgain
<1>9. ReadTestRank(r, all) = <<SelectReadWrite(r)>> \o (s4 \o q)
  BY Zenon DEF ReadTestRank, s1, s2, s3, s4, q, n3, n4
<1> QED
  BY <1>8, <1>9

LEMMA ReadPatternsPart ==
    ASSUME board \in Boards, NEW r
    PROVE  \E t : Prog(t, Bursts) /\ ReadPatternsRank(r) = <<SelectReadWrite(r)>> \o t
<1> DEFINE a == GUARANTEED_READ
           B == Block(a)
           q == PerVirtualGroup(a)
           x == Loop(0, PatternReads, GUARANTEED_READ)
           y == x \o Loop(1, PatternReads, GUARANTEED_READ_CONT)
<1>1. /\ a \in Addresses /\ a \in Bursts /\ a \notin Modes \cup WriteTests
      /\ GUARANTEED_READ \in B /\ GUARANTEED_READ_CONT \in B
      /\ GUARANTEED_READ_CONT \in Addresses
  <2>1. Block(GUARANTEED_READ) \cap Addresses = B \cap Addresses
    OBVIOUS
  <2> QED
    BY <2>1, BurstsAre
<1>2. PatternReads \in 0 .. MaxCntr /\ 0 # 1 /\ 0 \in Cntrs /\ 1 \in Cntrs
  BY Constants
<1>3. q \in Seq(Again(a))
  BY <1>1, PerGroup
<1>4. x \in Seq(Body({})) /\ SetUp(x, 0, B)
  BY <1>1, <1>2, FirstLoop
<1> HIDE DEF q, x
<1>5. y \in Seq(Body({})) /\ SetUp(y, 0, B) /\ SetUp(y, 1, B)
  BY <1>1, <1>2, <1>4, OneMore
<1> HIDE DEF y
<1>6. Prog(y \o q, Bursts)
  <2>1. Prog(y, Bursts)
    BY <1>5, ProgNoRun
  <2>2. \A c \in Needs(a) : Aimed(y, Len(y), c, Block(a))
    BY <1>5, NeedsAre DEF SetUp
  <2> QED
    BY <1>1, <1>3, <2>1, <2>2, ProgAgain
<1>7. ReadPatternsRank(r) = <<SelectReadWrite(r)>> \o (y \o q)
  BY Zenon DEF ReadPatternsRank, x, y, q
<1> QED
  BY <1>6, <1>7

LEMMA WriteTestPart ==
    ASSUME board \in Boards, NEW r, NEW dm \in {0, DmBlock}
    PROVE  \E t : Prog(t, Bursts) /\ WriteTestRank(r, dm) = <<SelectReadWrite(r)>> \o t
<1> DEFINE s == <<PhyReg>> \o write_test_issue(dm)
           t == Times(board.virtualGroups, s)
<1>1. board.wl \in 0 .. MaxCntr /\ board.virtualGroups \in Nat
  BY BoardAssumption
<1>2. Prog(write_test_issue(dm), Bursts) /\ Prog(<<PhyReg>>, Bursts)
  BY <1>1, ProgWriteIssue, ProgPhy
<1>3. Prog(s, Bursts)
  BY <1>2, ProgJoin
<1> HIDE DEF s
<1>4. Prog(t, Bursts)
  BY <1>1, <1>3, ProgTimes
<1>5. WriteTestRank(r, dm) = <<SelectReadWrite(r)>> \o t
  BY Zenon DEF WriteTestRank, s
<1> QED
  BY <1>4, <1>5

LEMMA ResetPart == \E t : Prog(t, ResetRuns) /\ ResetMemory = <<SelectAll>> \o t
<1> DEFINE a == HoldFor(TinitCntrs, INIT_RESET_0_CKE_0)
           b == HoldFor(TresetCntrs, INIT_RESET_1_CKE_0)
           d == delay_for_n_mem_clocks(250)
           t == a \o <<PhyReg>> \o b \o d
<1>1. Prog(a, ResetRuns) /\ Prog(b, ResetRuns)
  <2>1. \A c \in 1 .. 3 : TinitCntrs[c] \in 0 .. MaxCntr /\ TresetCntrs[c] \in 0 .. MaxCntr
    BY CommandsAssumption
  <2>2. /\ INIT_RESET_0_CKE_0 \in ResetRuns /\ INIT_RESET_1_CKE_0 \in ResetRuns
        /\ INIT_RESET_0_CKE_0 \in Holds /\ INIT_RESET_1_CKE_0 \in Holds
    BY DEF ResetRuns, Holds
  <2> QED
    BY <2>1, <2>2, ProgHold
<1>2. Prog(d, ResetRuns)
  <2>1. Idles \subseteq ResetRuns /\ 250 \in Nat /\ 250 < 65536 /\ MaxCntr >= 255
    BY Constants DEF ResetRuns
  <2> QED
    BY <2>1, ProgDelay
<1>3. Prog(<<PhyReg>>, ResetRuns)
  BY ProgPhy
<1> HIDE DEF a, b, d
<1>4. Prog(t, ResetRuns)
  BY <1>1, <1>2, <1>3, ProgFour
<1>5. ResetMemory = <<SelectAll>> \o t
  BY Zenon DEF ResetMemory, a, b, d
<1> QED
  BY <1>4, <1>5

(* The register writes of a part.                                          *)
Led(s, w, E) ==
    /\ s \in Seq(Fits) /\ Len(s) >= 1 /\ s[1] = w
    /\ \A i \in 1 .. Len(s) : Ready(s, i)
    /\ \A i \in 2 .. Len(s) : s[i] \in Body(E)

LEMMA Leading ==
    ASSUME NEW E, E \subseteq Entries, NEW w \in Selects, NEW t, Prog(t, E)
    PROVE  Led(<<w>> \o t, w, E)
<1> DEFINE x == <<w>>
           s == x \o t
<1>1. Body(E) \subseteq Fits /\ Selects \subseteq Fits
  BY DEF Body, Fits
<1>2. x \in Seq(Fits) /\ Len(x) = 1 /\ x[1] = w
  BY <1>1
<1>3. t \in Seq(Fits) /\ t \in Seq(Body(E)) /\ \A i \in 1 .. Len(t) : t[i] \in Body(E)
  BY <1>1, SeqMonotonic DEF Prog
<1> HIDE DEF x
<1>4. /\ s \in Seq(Fits) /\ Len(s) = 1 + Len(t) /\ Len(t) \in Nat /\ s[1] = w
      /\ \A i \in 1 .. Len(t) : s[1 + i] = t[i]
  <2>1. x \in Seq(Fits) /\ t \in Seq(Fits)
    BY <1>2, <1>3
  <2>2. /\ s \in Seq(Fits) /\ Len(s) = Len(x) + Len(t) /\ Len(t) \in Nat
        /\ \A i \in 1 .. Len(x) : s[i] = x[i]
        /\ \A i \in 1 .. Len(t) : s[Len(x) + i] = t[i]
    BY <2>1, Joined
  <2> HIDE DEF s
  <2> QED
    BY <1>2, <2>2
<1> HIDE DEF s
<1>5. ASSUME NEW i \in 2 .. Len(s) PROVE s[i] \in Body(E) /\ Ready(s, i)
  <2>1. /\ i - 1 \in 1 .. Len(t) /\ i - 1 \in Nat \ {0} /\ 1 + (i - 1) = i /\ 1 \in Nat
    BY <1>4
  <2>2. s[i] = t[i - 1]
    BY <1>4, <2>1
  <2>3. Ready(t, i - 1)
    BY <2>1 DEF Prog
  <2>4. \A k \in 1 .. i - 1 : s[1 + k] = t[k]
    BY <1>4, <2>1
  <2>5. Ready(s, 1 + (i - 1))
    BY <2>1, <2>3, <2>4, ReadyAt
  <2> QED
    BY <1>3, <2>1, <2>2, <2>5
<1>6. Ready(s, 1)
  <2>1. w.op # "run"
    BY DEF Selects
  <2> QED
    BY <1>4, <2>1 DEF Ready
<1> QED
  BY <1>4, <1>5, <1>6 DEF Led, s, x

LEMMA RunsWithin ==
    OffRuns \subseteq Entries /\ ResetRuns \subseteq Entries /\ Bursts \subseteq Entries
BY DEF OffRuns, ResetRuns, Entries

LEMMA OffPart ==
    ASSUME board \in Boards, NEW c, c.proc \in OffProcs, c.rank \in Nat
    PROVE  Led(Writes(c), SelectOff(c.rank), OffRuns)
<1>1. \E t : Prog(t, OffRuns) /\ Writes(c) = <<SelectOff(c.rank)>> \o t
  <2>1. CASE c.proc = "initialize"
    <3>1. Writes(c) = InitializeRank(c.rank)
      BY <2>1 DEF Writes
    <3> QED
      BY <3>1, InitializePart
  <2>2. CASE c.proc = "activate"
    <3>1. Writes(c) = ActivateRank(c.rank)
      BY <2>2 DEF Writes
    <3> QED
      BY <3>1, ActivatePart
  <2>3. CASE c.proc = "handoff"
    <3>1. Writes(c) = HandOffRank(c.rank)
      BY <2>3 DEF Writes
    <3> QED
      BY <3>1, HandOffPart
  <2> QED
    BY <2>1, <2>2, <2>3 DEF OffProcs
<1>2. PICK t : Prog(t, OffRuns) /\ Writes(c) = <<SelectOff(c.rank)>> \o t
  BY <1>1
<1>3. SelectOff(c.rank) \in Selects
  BY DEF SelectOff, Selects
<1> QED
  BY <1>2, <1>3, Leading, RunsWithin

LEMMA OdtPart ==
    ASSUME board \in Boards, NEW c, c.proc \in OdtProcs, c.rank \in Nat
    PROVE  Led(Writes(c), SelectReadWrite(c.rank), Bursts)
<1>1. \E t : Prog(t, Bursts) /\ Writes(c) = <<SelectReadWrite(c.rank)>> \o t
  <2>1. CASE c.proc = "load_patterns"
    <3>1. Writes(c) = LoadPatternsRank(c.rank)
      BY <2>1 DEF Writes
    <3> QED
      BY <3>1, LoadPatternsPart
  <2>2. CASE c.proc = "read_patterns"
    <3>1. Writes(c) = ReadPatternsRank(c.rank)
      BY <2>2 DEF Writes
    <3> QED
      BY <3>1, ReadPatternsPart
  <2>3. CASE c.proc = "read_test"
    <3>1. Writes(c) = ReadTestRank(c.rank, FALSE)
      BY <2>3 DEF Writes
    <3> QED
      BY <3>1, ReadTestPart
  <2>4. CASE c.proc = "read_all"
    <3>1. Writes(c) = ReadTestRank(c.rank, TRUE)
      BY <2>4 DEF Writes
    <3> QED
      BY <3>1, ReadTestPart
  <2>5. CASE c.proc = "write_test"
    <3>1. Writes(c) = WriteTestRank(c.rank, 0)
      BY <2>5 DEF Writes
    <3> QED
      BY <3>1, WriteTestPart
  <2>6. CASE c.proc = "write_test_dm"
    <3>1. Writes(c) = WriteTestRank(c.rank, DmBlock)
      BY <2>6 DEF Writes
    <3> QED
      BY <3>1, WriteTestPart
  <2> QED
    BY <2>1, <2>2, <2>3, <2>4, <2>5, <2>6 DEF OdtProcs, ReadProcs
<1>2. PICK t : Prog(t, Bursts) /\ Writes(c) = <<SelectReadWrite(c.rank)>> \o t
  BY <1>1
<1>3. SelectReadWrite(c.rank) \in Selects
  BY DEF SelectReadWrite, Selects
<1> QED
  BY <1>2, <1>3, Leading, RunsWithin

LEMMA OtherParts ==
    ASSUME board \in Boards, NEW c
    PROVE  /\ c.proc = "reset" => Led(Writes(c), SelectAll, ResetRuns)
           /\ c.proc = "clear" =>
                 /\ Writes(c) \in Seq(Fits) /\ Len(Writes(c)) = 2
                 /\ Writes(c)[1] = RunReg(CLEAR_DQS_ENABLE) /\ Writes(c)[2] = SelectOff(0)
                 /\ \A i \in 1 .. 2 : Ready(Writes(c), i)
           /\ c.proc = "odt_off" =>
                 /\ Writes(c) \in Seq(Fits) /\ Len(Writes(c)) = 1
                 /\ Writes(c)[1] = SelectOff(0) /\ Ready(Writes(c), 1)
<1>1. SelectAll \in Selects /\ SelectOff(0) \in Selects /\ Selects \subseteq Fits
  BY DEF SelectAll, SelectOff, Selects, Fits
<1>2. ASSUME c.proc = "reset" PROVE Led(Writes(c), SelectAll, ResetRuns)
  <2>1. Writes(c) = ResetMemory
    BY <1>2 DEF Writes
  <2> QED
    BY <1>1, <2>1, ResetPart, Leading, RunsWithin
<1> DEFINE a == CLEAR_DQS_ENABLE
<1>3. RunReg(a) \in Fits /\ RunReg(a).val = a /\ a \notin Modes \cup WriteTests /\ Needs(a) = {}
  <2>1. a \in Entries /\ a \notin Modes \cup WriteTests
    BY BurstsAre DEF Entries
  <2> QED
    BY <2>1, NeedsAre DEF RunReg, Fits, Body
<1>4. SelectOff(0).op # "run"
  BY DEF SelectOff
<1>5. ASSUME c.proc = "clear"
      PROVE  /\ Writes(c) \in Seq(Fits) /\ Len(Writes(c)) = 2
             /\ Writes(c)[1] = RunReg(a) /\ Writes(c)[2] = SelectOff(0)
             /\ \A i \in 1 .. 2 : Ready(Writes(c), i)
  <2> DEFINE s == <<RunReg(a), SelectOff(0)>>
  <2>1. Writes(c) = s
    BY <1>5 DEF Writes
  <2>2. s \in Seq(Fits) /\ Len(s) = 2 /\ s[1] = RunReg(a) /\ s[2] = SelectOff(0)
    BY <1>1, <1>3
  <2> HIDE DEF s
  <2>3. Ready(s, 1) /\ Ready(s, 2)
    BY <1>3, <1>4, <2>2 DEF Ready
  <2>4. \A i \in 1 .. 2 : i = 1 \/ i = 2
    OBVIOUS
  <2> QED
    BY <2>1, <2>2, <2>3, <2>4
<1>6. ASSUME c.proc = "odt_off"
      PROVE  /\ Writes(c) \in Seq(Fits) /\ Len(Writes(c)) = 1
             /\ Writes(c)[1] = SelectOff(0) /\ Ready(Writes(c), 1)
  <2> DEFINE s == <<SelectOff(0)>>
  <2>1. Writes(c) = s
    BY <1>6 DEF Writes
  <2>2. s \in Seq(Fits) /\ Len(s) = 1 /\ s[1] = SelectOff(0)
    BY <1>1
  <2> HIDE DEF s
  <2>3. Ready(s, 1)
    BY <1>4, <2>2 DEF Ready
  <2> QED
    BY <2>1, <2>2, <2>3
<1> QED
  BY <1>2, <1>5, <1>6
-----------------------------------------------------------------------------
(* The parts of a procedure.                                               *)
Addressed(c) == c.proc \in OffProcs \cup OdtProcs
Parts == {c \in [proc : Procs, rank : Nat] : Addressed(c) => c.rank \in Live}

LEMMA PartIs ==
    ASSUME board \in Boards, NEW c \in Parts
    PROVE  /\ Writes(c) \in Seq(Fits) /\ Len(Writes(c)) \in Nat /\ Len(Writes(c)) >= 1
           /\ \A i \in 1 .. Len(Writes(c)) : Writes(c)[i] \in Fits /\ Ready(Writes(c), i)
<1> DEFINE s == Writes(c)
<1>1. c.proc \in Procs /\ c.rank \in Nat
  BY DEF Parts
<1>2. s \in Seq(Fits) /\ Len(s) >= 1 /\ \A i \in 1 .. Len(s) : Ready(s, i)
  <2>1. CASE c.proc \in OffProcs
    BY <1>1, <2>1, OffPart DEF Led
  <2>2. CASE c.proc \in OdtProcs
    BY <1>1, <2>2, OdtPart DEF Led
  <2>3. CASE c.proc = "reset"
    BY <2>3, OtherParts DEF Led
  <2>4. CASE c.proc = "clear"
    <3>1. s \in Seq(Fits) /\ Len(s) = 2 /\ \A i \in 1 .. 2 : Ready(s, i)
      BY <2>4, OtherParts
    <3> HIDE DEF s
    <3> QED
      BY <3>1
  <2>5. CASE c.proc = "odt_off"
    <3>1. s \in Seq(Fits) /\ Len(s) = 1 /\ Ready(s, 1)
      BY <2>5, OtherParts
    <3> HIDE DEF s
    <3>2. \A i \in 1 .. Len(s) : i = 1
      BY <3>1
    <3> QED
      BY <3>1, <3>2
  <2> QED
    BY <1>1, <2>1, <2>2, <2>3, <2>4, <2>5 DEF Procs
<1> HIDE DEF s
<1>3. Len(s) \in Nat /\ \A i \in 1 .. Len(s) : s[i] \in Fits
  BY <1>2
<1> QED
  BY <1>2, <1>3 DEF s

LEMMA LiveIs ==
    ASSUME board \in Boards
    PROVE  Live \subseteq 0 .. 3 /\ Live \subseteq Nat /\ Live # {} /\ Live \subseteq Ranks
<1>1. /\ board.ranks \in {1, 2, 4}
      /\ board.skipped \subseteq 0 .. board.ranks - 1 /\ board.skipped # 0 .. board.ranks - 1
  BY BoardAssumption
<1>2. Ranks \subseteq 0 .. 3 /\ board.skipped \subseteq Ranks /\ board.skipped # Ranks
  BY <1>1 DEF Ranks
<1>3. Live \subseteq Ranks /\ Live # {}
  BY <1>2 DEF Live
<1>4. 0 .. 3 \subseteq Nat
  OBVIOUS
<1> QED
  BY <1>2, <1>3, <1>4

LEMMA ForRanksAre ==
    ASSUME board \in Boards, NEW p \in OffProcs \cup OdtProcs
    PROVE  /\ ForRanks(p) \in Seq(Parts) /\ Len(ForRanks(p)) \in Nat /\ Len(ForRanks(p)) >= 1
           /\ \A i \in 1 .. Len(ForRanks(p)) : ForRanks(p)[i].proc = p
<1> DEFINE S == {c \in Parts : c.proc = p}
<1>1. ASSUME NEW r \in 0 .. 3
      PROVE  Of(p, r) \in Seq(S) /\ (r \in Live => Len(Of(p, r)) = 1)
  <2>1. ASSUME r \in Live PROVE Part(p, r) \in S
    <3>1. p \in Procs
      BY DEF Procs
    <3>2. r \in Nat
      OBVIOUS
    <3>3. /\ Part(p, r) \in [proc : Procs, rank : Nat]
          /\ Part(p, r).proc = p /\ Part(p, r).rank = r
      BY <3>1, <3>2 DEF Part
    <3>4. Part(p, r) \in Parts
      BY <2>1, <3>3 DEF Parts
    <3>5. Part(p, r).proc = p
      BY <3>3
    <3> QED
      BY <3>4, <3>5
  <2> HIDE DEF S
  <2>2. CASE r \in Live
    BY <2>1, <2>2 DEF Of
  <2>3. CASE r \notin Live
    BY <2>3 DEF Of
  <2> QED
    BY <2>2, <2>3
<1> DEFINE a == Of(p, 0)
           b == Of(p, 1)
           c == Of(p, 2)
           d == Of(p, 3)
           s == a \o b \o c \o d
<1>2. a \in Seq(S) /\ b \in Seq(S) /\ c \in Seq(S) /\ d \in Seq(S)
  BY <1>1
<1>3. Len(a) = 1 \/ Len(b) = 1 \/ Len(c) = 1 \/ Len(d) = 1
  <2>1. 0 \in Live \/ 1 \in Live \/ 2 \in Live \/ 3 \in Live
    BY LiveIs
  <2> QED
    BY <1>1, <2>1
<1> HIDE DEF a, b, c, d, S
<1>4. s \in Seq(S) /\ Len(s) \in Nat /\ Len(s) >= 1
  <2>1. a \o b \in Seq(S) /\ Len(a \o b) = Len(a) + Len(b)
    BY <1>2
  <2>2. a \o b \o c \in Seq(S) /\ Len(a \o b \o c) = Len(a) + Len(b) + Len(c)
    BY <1>2, <2>1
  <2>3. s \in Seq(S) /\ Len(s) = Len(a) + Len(b) + Len(c) + Len(d)
    BY <1>2, <2>2
  <2>4. Len(a) \in Nat /\ Len(b) \in Nat /\ Len(c) \in Nat /\ Len(d) \in Nat
    BY <1>2
  <2> HIDE DEF s
  <2> QED
    BY <1>3, <2>3, <2>4
<1>5. ForRanks(p) = s
  BY DEF ForRanks, a, b, c, d
<1> HIDE DEF s
<1>6. \A i \in 1 .. Len(s) : s[i] \in S
  BY <1>4
<1>7. S \subseteq Parts /\ \A x \in S : x.proc = p
  BY DEF S
<1>8. s \in Seq(Parts)
  BY <1>4, <1>7, SeqMonotonic
<1> QED
  BY <1>4, <1>5, <1>6, <1>7, <1>8
-----------------------------------------------------------------------------
(* What the CPU has still to do, and what it does to the engine.           *)

(* What is left to do is made of parts, and at is at a write of the first. *)
AtInv == calls # <<>> => at <= Len(Writes(Head(calls)))

CallsInv ==
    /\ board \in Boards /\ EngineTypeOK
    /\ calls \in Seq(Parts) /\ at \in Nat \ {0}
    /\ AtInv
    /\ calls = <<>> => at = 1

LEMMA PartIn ==
    \A p \in {"reset", "clear", "odt_off"} : Part(p, 0) \in Parts
<1> TAKE p \in {"reset", "clear", "odt_off"}
<1>1. p \in Procs /\ p \notin OffProcs \cup OdtProcs
  BY DEF Procs, OffProcs, OdtProcs, ReadProcs
<1>2. Part(p, 0) \in [proc : Procs, rank : Nat] /\ Part(p, 0).proc = p
  BY <1>1 DEF Part
<1> QED
  BY <1>1, <1>2 DEF Parts, Addressed

LEMMA AppendIs ==
    ASSUME board \in Boards, NEW p \in OffProcs \cup OdtProcs, NEW q \in {"clear", "odt_off"}
    PROVE  /\ Append(ForRanks(p), Part(q, 0)) \in Seq(Parts)
           /\ Append(ForRanks(p), Part(q, 0)) # <<>>
<1>1. ForRanks(p) \in Seq(Parts) /\ Part(q, 0) \in Parts
  BY ForRanksAre, PartIn
<1> QED
  BY <1>1

Steps(from, to, parts) == Call(from, to, parts) /\ parts \in Seq(Parts) /\ parts # <<>>

(* The clearing of the DQS enable comes after a read only.                 *)
Clears(s) ==
    \A i \in 1 .. Len(s) : s[i].proc = "clear" => i # 1 /\ s[i - 1].proc \in ReadProcs

LEMMA NoClear ==
    ASSUME board \in Boards, NEW p \in OffProcs \cup OdtProcs
    PROVE  \A i \in 1 .. Len(ForRanks(p)) : ForRanks(p)[i].proc # "clear"
<1>1. p # "clear"
  BY DEF OffProcs, OdtProcs, ReadProcs
<1> QED
  BY <1>1, ForRanksAre

LEMMA AppendClears ==
    ASSUME board \in Boards, NEW p \in OdtProcs, NEW q, q = "clear" => p \in ReadProcs
    PROVE  Clears(Append(ForRanks(p), Part(q, 0)))
<1> DEFINE s == ForRanks(p)
           x == Part(q, 0)
           t == Append(s, x)
<1>1. /\ s \in Seq(Parts) /\ Len(s) \in Nat /\ Len(s) >= 1
      /\ \A i \in 1 .. Len(s) : s[i].proc = p /\ s[i].proc # "clear"
  BY ForRanksAre, NoClear
<1>2. x.proc = q
  BY DEF Part
<1> HIDE DEF s, x
<1>3. /\ Len(t) = Len(s) + 1 /\ t[Len(s) + 1] = x
      /\ \A i \in 1 .. Len(s) : t[i] = s[i]
  BY <1>1, AppendProperties
<1> HIDE DEF t
<1>4. ASSUME NEW i \in 1 .. Len(t), t[i].proc = "clear"
      PROVE  i # 1 /\ t[i - 1].proc \in ReadProcs
  <2>1. i \notin 1 .. Len(s)
    BY <1>1, <1>3, <1>4
  <2>2. i = Len(s) + 1
    BY <1>1, <1>3, <2>1
  <2>3. q = "clear"
    BY <1>2, <1>3, <1>4, <2>2
  <2>4. i # 1 /\ i - 1 = Len(s) /\ Len(s) \in 1 .. Len(s)
    BY <1>1, <2>2
  <2>5. t[i - 1].proc = p
    BY <1>1, <1>3, <2>4
  <2> QED
    BY <2>3, <2>4, <2>5
<1> QED
  BY <1>4 DEF Clears, t, s, x

(* Every procedure starts with parts to do.                                *)
LEMMA Begins ==
    ASSUME board \in Boards, Procedures
    PROVE  \E from, to, parts : Steps(from, to, parts) /\ Clears(parts)
<1> USE DEF Steps
<1>1. ASSUME NEW from, NEW to, NEW parts, Call(from, to, parts), Clears(parts),
             parts \in Seq(Parts), parts # <<>>
      PROVE  \E f, t, s : Steps(f, t, s) /\ Clears(s)
  BY <1>1
<1>2. CASE rw_mgr_mem_initialize
  <2> DEFINE s == ForRanks("initialize")
             x == <<Part("reset", 0)>>
             u == x \o s
  <2>1. "initialize" \in OffProcs
    BY DEF OffProcs
  <2>2. s \in Seq(Parts) /\ x \in Seq(Parts)
    BY <2>1, ForRanksAre, PartIn
  <2>3. \A i \in 1 .. Len(s) : s[i].proc # "clear"
    BY <2>1, NoClear
  <2>4. Len(x) = 1 /\ x[1].proc = "reset"
    BY DEF Part
  <2>5. Call({"start"}, "initialized", u)
    BY <1>2 DEF rw_mgr_mem_initialize
  <2> HIDE DEF s, x
  <2>6. /\ u \in Seq(Parts) /\ Len(u) = Len(x) + Len(s) /\ Len(s) \in Nat
        /\ \A i \in 1 .. Len(x) : u[i] = x[i]
        /\ \A i \in 1 .. Len(s) : u[Len(x) + i] = s[i]
    BY <2>2, Joined
  <2> HIDE DEF u
  <2>7. u # <<>>
    BY <2>4, <2>6
  <2>8. ASSUME NEW i \in 1 .. Len(u) PROVE u[i].proc # "clear"
    <3>1. CASE i = 1
      BY <2>4, <2>6, <3>1
    <3>2. CASE i # 1
      <4>1. i - 1 \in 1 .. Len(s) /\ 1 + (i - 1) = i
        BY <2>4, <2>6, <3>2
      <4>2. u[i] = s[i - 1]
        BY <2>4, <2>6, <4>1
      <4> QED
        BY <2>3, <4>1, <4>2
    <3> QED
      BY <3>1, <3>2
  <2>9. Clears(u)
    BY <2>8 DEF Clears
  <2> QED
    BY <1>1, <2>5, <2>6, <2>7, <2>9
<1>3. ASSUME NEW p \in OffProcs, NEW from, NEW to, Call(from, to, ForRanks(p))
      PROVE  \E f, t, s : Steps(f, t, s) /\ Clears(s)
  <2>1. ForRanks(p) \in Seq(Parts) /\ Len(ForRanks(p)) >= 1
    BY ForRanksAre
  <2>2. ForRanks(p) # <<>>
    BY <2>1
  <2>3. Clears(ForRanks(p))
    BY NoClear DEF Clears
  <2> QED
    BY <1>1, <1>3, <2>1, <2>2, <2>3
<1>4. ASSUME NEW p \in OdtProcs, NEW q \in {"clear", "odt_off"}, NEW from, NEW to,
             Call(from, to, Append(ForRanks(p), Part(q, 0))), q = "clear" => p \in ReadProcs
      PROVE  \E f, t, s : Steps(f, t, s) /\ Clears(s)
  BY <1>1, <1>4, AppendIs, AppendClears
<1>5. /\ {"activate", "handoff"} \subseteq OffProcs
      /\ {"load_patterns", "read_patterns", "read_test", "read_all", "write_test",
          "write_test_dm"} \subseteq OdtProcs
      /\ {"read_patterns", "read_test", "read_all"} \subseteq ReadProcs
  BY DEF OffProcs, OdtProcs, ReadProcs
<1> HIDE DEF Steps
<1>6. CASE mem_config \/ mem_precharge_and_activate \/ rw_mgr_mem_handoff
  BY <1>3, <1>5, <1>6 DEF mem_config, mem_precharge_and_activate, rw_mgr_mem_handoff
<1>7. CASE load_patterns \/ lfifo_patterns
  BY <1>4, <1>5, <1>7 DEF load_patterns, lfifo_patterns
<1>8. CASE read_test_patterns \/ read_test \/ lfifo_read_test
  BY <1>4, <1>5, <1>8 DEF read_test_patterns, read_test, lfifo_read_test
<1>9. CASE \E p \in {"write_test", "write_test_dm"} : write_test(p)
  BY <1>4, <1>5, <1>9 DEF write_test
<1> QED
  BY <1>2, <1>6, <1>7, <1>8, <1>9 DEF Procedures

(* A register write is a step of the engine's interface.                   *)
LEMMA EffectNext ==
    ASSUME NEW w \in Fits, Effect(w), ~running
    PROVE  Next \/ UNCHANGED engineVars
<1>0. w.reg \in Cntrs \/ w.op \notin {"cntr", "jump"}
  BY DEF Fits, Body, Selects, PhyReg
<1>1. CASE w.op = "cntr" /\ LoadCntr(w.reg, w.val)
  <2>1. w.reg \in Cntrs /\ w.val \in 0 .. MaxCntr
    BY <1>1 DEF Fits, Body, Selects, PhyReg
  <2> QED
    BY <1>1, <2>1 DEF Next
<1>2. CASE w.op = "jump" /\ LoadJump(w.reg, w.val)
  <2>1. w.reg \in Cntrs /\ w.val \in Addresses
    BY <1>2 DEF Fits, Body, Selects, PhyReg
  <2> QED
    BY <1>2, <2>1 DEF Next
<1>3. CASE w.op = "run" /\ Run(w.val)
  <2>1. w.val \in Addresses
    BY <1>3, EntriesAre DEF Fits, Body, Selects, PhyReg
  <2> QED
    BY <1>3, <2>1 DEF Next
<1>4. CASE UNCHANGED engineVars
  BY <1>4
<1> QED
  BY <1>1, <1>2, <1>3, <1>4 DEF Effect, Select

(* The write that is next, and what a step leaves.                         *)
LEMMA NextWrite ==
    ASSUME CallsInv, calls # <<>>
    PROVE  /\ Head(calls) \in Parts /\ Tail(calls) \in Seq(Parts)
           /\ Writes(Head(calls)) \in Seq(Fits) /\ Len(Writes(Head(calls))) \in Nat
           /\ at \in 1 .. Len(Writes(Head(calls)))
           /\ Writes(Head(calls))[at] \in Fits
           /\ Ready(Writes(Head(calls)), at)
<1>1. board \in Boards /\ calls \in Seq(Parts) /\ at \in Nat \ {0}
      /\ at <= Len(Writes(Head(calls)))
  BY DEF CallsInv, AtInv
<1>2. Head(calls) \in Parts /\ Tail(calls) \in Seq(Parts)
  BY <1>1
<1> DEFINE s == Writes(Head(calls))
<1>3. /\ s \in Seq(Fits) /\ Len(s) \in Nat
      /\ \A i \in 1 .. Len(s) : s[i] \in Fits /\ Ready(s, i)
  BY <1>1, <1>2, PartIs
<1> HIDE DEF s
<1>4. at \in 1 .. Len(s)
  BY <1>1, <1>3 DEF s
<1>5. s[at] \in Fits /\ Ready(s, at)
  BY <1>3, <1>4
<1> QED
  BY <1>2, <1>3, <1>4, <1>5 DEF s

LEMMA StepNext ==
    ASSUME CallsInv, [CNext]_vars
    PROVE  [Next]_engineVars
<1>1. CASE Procedures
  <2>1. PICK from, to, parts : Call(from, to, parts)
    BY <1>1, Begins DEF Steps, CallsInv
  <2> QED
    BY <2>1 DEF Call
<1>2. CASE Write
  <2>1. ~running /\ calls # <<>> /\ Effect(Writes(Head(calls))[at])
    BY <1>2 DEF Write
  <2>2. Writes(Head(calls))[at] \in Fits
    BY <2>1, NextWrite
  <2> QED
    BY <2>1, <2>2, EffectNext
<1>3. CASE Clocked
  BY <1>3 DEF Clocked, Next
<1>4. CASE UNCHANGED vars
  BY <1>4 DEF vars
<1> QED
  BY <1>1, <1>2, <1>3, <1>4 DEF CNext

(* The writes of a part depend on the board only, which stays.             *)
LEMMA SameWrites ==
    ASSUME board' = board, NEW c, c.proc \in Procs
    PROVE  Writes(c)' = Writes(c)
<1>1. CASE c.proc \in OffProcs
  <2>1. CASE c.proc = "initialize"
    <3>1. Writes(c) = InitializeRank(c.rank)
      BY <2>1 DEF Writes
    <3>2. Writes(c)' = InitializeRank(c.rank)'
      BY <2>1 DEF Writes
    <3>3. InitializeRank(c.rank)' = InitializeRank(c.rank)
      BY DEF InitializeRank
    <3> QED
      BY <3>1, <3>2, <3>3
  <2>2. CASE c.proc = "activate"
    <3>1. Writes(c) = ActivateRank(c.rank)
      BY <2>2 DEF Writes
    <3>2. Writes(c)' = ActivateRank(c.rank)'
      BY <2>2 DEF Writes
    <3> QED
      BY <3>1, <3>2
  <2>3. CASE c.proc = "handoff"
    <3>1. Writes(c) = HandOffRank(c.rank)
      BY <2>3 DEF Writes
    <3>2. Writes(c)' = HandOffRank(c.rank)'
      BY <2>3 DEF Writes
    <3>3. HandOffRank(c.rank)' = HandOffRank(c.rank)
      BY DEF HandOffRank
    <3> QED
      BY <3>1, <3>2, <3>3
  <2> QED
    BY <1>1, <2>1, <2>2, <2>3 DEF OffProcs
<1>2. CASE c.proc \in ReadProcs
  <2>1. CASE c.proc = "read_patterns"
    <3>1. Writes(c) = ReadPatternsRank(c.rank)
      BY <2>1 DEF Writes
    <3>2. Writes(c)' = ReadPatternsRank(c.rank)'
      BY <2>1 DEF Writes
    <3>3. ReadPatternsRank(c.rank)' = ReadPatternsRank(c.rank)
      BY DEF ReadPatternsRank, PerVirtualGroup
    <3> QED
      BY <3>1, <3>2, <3>3
  <2>2. ASSUME NEW all PROVE ReadTestRank(c.rank, all)' = ReadTestRank(c.rank, all)
    BY DEF ReadTestRank, PerVirtualGroup
  <2>3. CASE c.proc = "read_test"
    <3>1. Writes(c) = ReadTestRank(c.rank, FALSE)
      BY <2>3 DEF Writes
    <3>2. Writes(c)' = ReadTestRank(c.rank, FALSE)'
      BY <2>3 DEF Writes
    <3> QED
      BY <2>2, <3>1, <3>2
  <2>4. CASE c.proc = "read_all"
    <3>1. Writes(c) = ReadTestRank(c.rank, TRUE)
      BY <2>4 DEF Writes
    <3>2. Writes(c)' = ReadTestRank(c.rank, TRUE)'
      BY <2>4 DEF Writes
    <3> QED
      BY <2>2, <3>1, <3>2
  <2> QED
    BY <1>2, <2>1, <2>3, <2>4 DEF ReadProcs
<1>3. CASE c.proc \in OdtProcs \ ReadProcs
  <2>1. CASE c.proc = "load_patterns"
    <3>1. Writes(c) = LoadPatternsRank(c.rank)
      BY <2>1 DEF Writes
    <3>2. Writes(c)' = LoadPatternsRank(c.rank)'
      BY <2>1 DEF Writes
    <3> QED
      BY <3>1, <3>2
  <2>2. ASSUME NEW dm PROVE WriteTestRank(c.rank, dm)' = WriteTestRank(c.rank, dm)
    <3>1. rw_wl_nop_cycles' = rw_wl_nop_cycles
      BY DEF rw_wl_nop_cycles, Wlat
    <3>2. WriteEntry' = WriteEntry
      BY <3>1 DEF WriteEntry
    <3>3. WriteSkips(dm)' = WriteSkips(dm)
      <4>1. CASE rw_wl_nop_cycles = -1
        <5>1. WriteSkips(dm) = Loop(2, 255, WRITE_DATA + dm) \o <<LoadJumpReg(3, WRITE_NOP + dm)>>
          BY <4>1 DEF WriteSkips
        <5>2. WriteSkips(dm)' = Loop(2, 255, WRITE_DATA + dm) \o <<LoadJumpReg(3, WRITE_NOP + dm)>>
          BY <3>1, <4>1 DEF WriteSkips
        <5> QED
          BY <5>1, <5>2
      <4>2. CASE rw_wl_nop_cycles = 0
        <5>1. WriteSkips(dm) = Loop(2, 255, WRITE_DQS + dm)
          BY <4>2 DEF WriteSkips
        <5>2. WriteSkips(dm)' = Loop(2, 255, WRITE_DQS + dm)
          BY <3>1, <4>2 DEF WriteSkips
        <5> QED
          BY <5>1, <5>2
      <4>3. CASE rw_wl_nop_cycles \notin {-1, 0}
        <5>1. WriteSkips(dm) = Loop(2, 0, 0) \o Loop(3, rw_wl_nop_cycles - 1, WRITE_NOP + dm)
          BY <4>3 DEF WriteSkips
        <5>2. WriteSkips(dm)' = Loop(2, 0, 0) \o Loop(3, rw_wl_nop_cycles - 1, WRITE_NOP + dm)
          BY <3>1, <4>3 DEF WriteSkips
        <5> QED
          BY <5>1, <5>2
      <4> QED
        BY <4>1, <4>2, <4>3
    <3>4. write_test_issue(dm)' = write_test_issue(dm)
      BY <3>2, <3>3 DEF write_test_issue
    <3> QED
      BY <3>4 DEF WriteTestRank
  <2>3. CASE c.proc = "write_test"
    <3>1. Writes(c) = WriteTestRank(c.rank, 0)
      BY <2>3 DEF Writes
    <3>2. Writes(c)' = WriteTestRank(c.rank, 0)'
      BY <2>3 DEF Writes
    <3> QED
      BY <2>2, <3>1, <3>2
  <2>4. CASE c.proc = "write_test_dm"
    <3>1. Writes(c) = WriteTestRank(c.rank, DmBlock)
      BY <2>4 DEF Writes
    <3>2. Writes(c)' = WriteTestRank(c.rank, DmBlock)'
      BY <2>4 DEF Writes
    <3> QED
      BY <2>2, <3>1, <3>2
  <2> QED
    BY <1>3, <2>1, <2>3, <2>4 DEF OdtProcs
<1>4. CASE c.proc = "reset"
  <2>1. Writes(c) = ResetMemory
    BY <1>4 DEF Writes
  <2>2. Writes(c)' = ResetMemory
    BY <1>4 DEF Writes
  <2> QED
    BY <2>1, <2>2
<1>5. CASE c.proc = "clear"
  <2>1. Writes(c) = <<RunReg(CLEAR_DQS_ENABLE), SelectOff(0)>>
    BY <1>5 DEF Writes
  <2>2. Writes(c)' = <<RunReg(CLEAR_DQS_ENABLE), SelectOff(0)>>
    BY <1>5 DEF Writes
  <2> QED
    BY <2>1, <2>2
<1>6. CASE c.proc = "odt_off"
  <2>1. Writes(c) = <<SelectOff(0)>>
    BY <1>6 DEF Writes
  <2>2. Writes(c)' = <<SelectOff(0)>>
    BY <1>6 DEF Writes
  <2> QED
    BY <2>1, <2>2
<1> QED
  BY <1>1, <1>2, <1>3, <1>4, <1>5, <1>6 DEF Procs, OdtProcs

(* The board stays.                                                        *)
LEMMA BoardStays ==
    ASSUME board \in Boards, [CNext]_vars
    PROVE  board' = board /\ Live' = Live
<1>1. board' = board
  <2>1. Procedures => board' = board
    BY Begins DEF Steps, Call
  <2> QED
    BY <2>1 DEF CNext, Write, Clocked, cpuVars, vars
<1> QED
  BY <1>1 DEF Live, Ranks

LEMMA CallsInit == CInit => CallsInv
<1> SUFFICES ASSUME CInit PROVE CallsInv
  OBVIOUS
<1>1. Init /\ board \in Boards /\ calls = <<>> /\ at = 1
  BY DEF CInit
<1>2. EngineTypeOK
  BY <1>1, TypeInit
<1> QED
  BY <1>1, <1>2 DEF CallsInv, AtInv

LEMMA CallsStep == CallsInv /\ [CNext]_vars => CallsInv'
<1> SUFFICES ASSUME CallsInv, [CNext]_vars PROVE CallsInv'
  OBVIOUS
<1>1. EngineTypeOK'
  BY StepNext, TypeStep DEF CallsInv
<1>0. Live' = Live /\ Parts' = Parts
  <2>1. Live' = Live
    BY BoardStays DEF CallsInv
  <2> QED
    BY <2>1 DEF Parts
<1>2. board' = board /\ board \in Boards
  BY BoardStays DEF CallsInv
<1>3. ASSUME calls' \in Seq(Parts), at' = 1 PROVE CallsInv'
  <2>1. ASSUME calls' # <<>> PROVE 1 <= Len(Writes(Head(calls)))'
    <3>1. Head(calls') \in Parts
      BY <1>3, <2>1
    <3>2. PICK c \in Parts : c = Head(calls')
      BY <3>1
    <3>3. c.proc \in Procs
      BY DEF Parts
    <3>4. Writes(c)' = Writes(c) /\ Len(Writes(c)) >= 1
      BY <1>2, <3>3, SameWrites, PartIs
    <3>5. Writes(c)' = Writes(Head(calls))'
      BY <3>2
    <3> QED
      BY <3>4, <3>5
  <2>2. AtInv'
    BY <1>3, <2>1 DEF AtInv
  <2>3. at' \in Nat \ {0}
    BY <1>3
  <2> QED
    BY <1>0, <1>1, <1>2, <1>3, <2>2, <2>3 DEF CallsInv
<1>4. CASE Procedures
  <2>1. PICK from, to, parts : Call(from, to, parts) /\ parts \in Seq(Parts)
    BY <1>2, <1>4, Begins DEF Steps
  <2>2. calls = <<>> /\ calls' = parts /\ at' = at
    BY <2>1 DEF Call
  <2>3. at = 1
    BY <2>2 DEF CallsInv
  <2> QED
    BY <1>3, <2>1, <2>2, <2>3
<1>5. ASSUME calls' = calls, at' \in Nat \ {0}, calls # <<>> => at' <= Len(Writes(Head(calls))),
             calls = <<>> => at' = 1
      PROVE  CallsInv'
  <2>1. ASSUME calls # <<>> PROVE at' <= Len(Writes(Head(calls)))'
    <3>1. Head(calls) \in Parts
      BY <2>1, NextWrite
    <3>2. PICK c \in Parts : c = Head(calls)
      BY <3>1
    <3>3. c.proc \in Procs
      BY DEF Parts
    <3>4. Writes(c)' = Writes(c)
      BY <1>2, <3>3, SameWrites
    <3>5. c = Head(calls')
      BY <1>5, <3>2
    <3>6. Writes(c)' = Writes(Head(calls))'
      BY <3>5
    <3> QED
      BY <1>5, <2>1, <3>2, <3>4, <3>6
  <2>2. calls \in Seq(Parts)
    BY DEF CallsInv
  <2>3. AtInv'
    BY <1>5, <2>1 DEF AtInv
  <2> QED
    BY <1>0, <1>1, <1>2, <1>5, <2>2, <2>3 DEF CallsInv
<1>6. CASE Write
  <2>1. /\ calls # <<>> /\ at \in 1 .. Len(Writes(Head(calls)))
        /\ Tail(calls) \in Seq(Parts) /\ Len(Writes(Head(calls))) \in Nat
    BY <1>6, NextWrite DEF Write
  <2>2. CASE at < Len(Writes(Head(calls)))
    <3>1. at' = at + 1 /\ calls' = calls
      BY <1>6, <2>2 DEF Write
    <3> QED
      BY <1>5, <2>1, <2>2, <3>1
  <2>3. CASE ~(at < Len(Writes(Head(calls))))
    <3>1. at' = 1 /\ calls' = Tail(calls)
      BY <1>6, <2>3 DEF Write
    <3> QED
      BY <1>3, <2>1, <3>1
  <2> QED
    BY <2>2, <2>3
<1>7. CASE calls' = calls /\ at' = at
  BY <1>5, <1>7 DEF CallsInv, AtInv
<1>8. CASE Clocked \/ UNCHANGED vars
  BY <1>7, <1>8 DEF Clocked, vars, cpuVars
<1> QED
  BY <1>4, <1>6, <1>8 DEF CNext

(* The CPU uses the engine as it may be used: what is proved of the engine *)
(* by itself holds of the commands.                                        *)
THEOREM CommandsUseEngine == CSpec => UsesEngine
<1>1. CInit => CallsInv /\ Init
  BY CallsInit DEF CInit
<1>2. CallsInv /\ [CNext]_vars => CallsInv'
  BY CallsStep
<1>3. CallsInv /\ [CNext]_vars => [Next]_engineVars
  BY StepNext
<1> QED
  BY <1>1, <1>2, <1>3, PTL DEF CSpec, UsesEngine, Spec

(* In the calibration, too, resets and delays last as long as their        *)
(* counters ask for: the theorem on the engine, carried over.              *)
THEOREM CommandLoops == CSpec => []LoopsLastTheirCycles
BY CommandsUseEngine, LoopsLast, PTL DEF UsesEngine

(* The engine and the CPU keep their types: what is left to do is made of  *)
(* parts for ranks that are not skipped, at is at a write of the first of  *)
(* them, and counters and addresses fit into the registers.                *)
THEOREM CommandTypes == CSpec => []CallsInv
<1> QED
  BY CallsInit, CallsStep, PTL DEF CSpec
-----------------------------------------------------------------------------
(* The invariant of the commands.                                          *)

(* The registers are as the writes of the part so far have left them.      *)
Register(s, n) ==
    /\ \A c \in Cntrs, a \in Addresses : Aimed(s, n, c, {a}) => jump[c] = a
    /\ \A c \in Cntrs, v \in 0 .. MaxCntr : Loaded(s, n, c, v) => cntr[c] = v /\ reload[c] = v

RegisterInv ==
    calls # <<>> =>
        /\ Register(Writes(Head(calls)), at - 1)
        /\ running /\ at > 1 => Writes(Head(calls))[at - 1].op = "run"

(* The rank that a part has selected.                                      *)
OnRank(r) == selected = {r} /\ odt = ReadWrite(r)

PinsInv ==
    at > 1 =>
        LET c == Head(calls)
        IN /\ c.proc \in OffProcs => selected = {c.rank}
           /\ c.proc \in OdtProcs => OnRank(c.rank)

(* The run of "clear" goes to the rank that was read last.                 *)
ClearInv ==
    \A i \in 1 .. Len(calls) :
        calls[i].proc = "clear" =>
            IF i = 1 THEN at = 1 => \E r \in Live : OnRank(r)
                     ELSE calls[i - 1].proc \in ReadProcs

(* The run that is under way stays within its block, and it is sent to a   *)
(* rank that its commands may be sent to.                                  *)
Skipping ==
    \/ jump[2] \in Block(label) /\ jump[3] \in Block(label)
    \/ cntr[2] = 0 /\ reload[2] = 0 /\ jump[3] \in Block(label)
    \/ /\ label = WRITE + Dm(label) /\ jump[2] = WRITE_DQS + Dm(label)
       /\ ip = label \/ ip >= WRITE_DQS + Dm(label)
       /\ ip \notin Returns => cntr[2] >= cntr[0] + (IF ip = label THEN 1 ELSE 0)

Course ==
    /\ label \in Entries /\ ip \in Block(label)
    /\ label \notin WriteTests => \A c \in Needs(label) : jump[c] \in Block(label)
    /\ label \in Modes => jump[0] = RETURN /\ (ip = label => cntr[0] # 0)
    /\ label \in WriteTests =>
          jump[0] = label /\ jump[1] = WRITE_WAIT + Dm(label) /\ Skipping

Addressee ==
    label \notin Holds \cup Idles =>
        \E r \in Live : selected = {r} /\ (label \in Bursts => odt = ReadWrite(r))

RunInv == running => Course /\ Addressee

CommandInv == CallsInv /\ RegisterInv /\ PinsInv /\ ClearInv /\ RunInv

(* What was written last into the registers, and into others before.       *)
LEMMA RegisterJump ==
    ASSUME NEW s \in Seq(Fits), NEW n \in 0 .. Len(s), NEW c \in Cntrs, NEW B,
           Register(s, n), Aimed(s, n, c, B)
    PROVE  jump[c] \in B
<1>1. PICK j \in 1 .. n :
        /\ Aims(s[j], c) /\ s[j].val \in B
        /\ \A k \in j + 1 .. n : ~Aims(s[k], c)
  BY DEF Aimed
<1> DEFINE x == s[j].val
<1>2. x \in Addresses
  <2>1. s[j] \in Fits
    OBVIOUS
  <2> QED
    BY <1>1, <2>1 DEF Fits, Body, Selects, PhyReg, Aims
<1>3. Aimed(s, n, c, {x})
  BY <1>1 DEF Aimed
<1>4. jump[c] = x
  BY <1>2, <1>3 DEF Register
<1> QED
  BY <1>1, <1>4

LEMMA AimedFrom ==
    ASSUME NEW s \in Seq(Fits), NEW n \in 1 .. Len(s), NEW c, NEW a, Aimed(s, n, c, {a})
    PROVE  \/ Aims(s[n], c) /\ s[n].val = a
           \/ ~Aims(s[n], c) /\ Aimed(s, n - 1, c, {a})
<1>1. PICK j \in 1 .. n :
        /\ Aims(s[j], c) /\ s[j].val = a
        /\ \A k \in j + 1 .. n : ~Aims(s[k], c)
  BY DEF Aimed
<1>2. CASE j = n
  BY <1>1, <1>2
<1>3. CASE j # n
  <2>1. j \in 1 .. n - 1 /\ n \in j + 1 .. n /\ \A k \in j + 1 .. n - 1 : ~Aims(s[k], c)
    BY <1>1, <1>3
  <2> QED
    BY <1>1, <2>1 DEF Aimed
<1> QED
  BY <1>2, <1>3

LEMMA LoadedFrom ==
    ASSUME NEW s \in Seq(Fits), NEW n \in 1 .. Len(s), NEW c, NEW v, Loaded(s, n, c, v)
    PROVE  /\ s[n].op # "run"
           /\ \/ s[n] = LoadCntrReg(c, v)
              \/ ~(s[n].op = "cntr" /\ s[n].reg = c) /\ Loaded(s, n - 1, c, v)
<1> DEFINE Kept(w) == w.op # "run" /\ ~(w.op = "cntr" /\ w.reg = c)
<1>1. PICK j \in 1 .. n : s[j] = LoadCntrReg(c, v) /\ \A k \in j + 1 .. n : Kept(s[k])
  BY DEF Loaded
<1>2. CASE j = n
  BY <1>1, <1>2 DEF LoadCntrReg
<1>3. CASE j # n
  <2>1. j \in 1 .. n - 1 /\ n \in j + 1 .. n /\ \A k \in j + 1 .. n - 1 : Kept(s[k])
    BY <1>1, <1>3
  <2>2. Kept(s[n])
    BY <1>1, <2>1
  <2>3. Loaded(s, n - 1, c, v)
    BY <1>1, <2>1 DEF Loaded
  <2> QED
    BY <2>2, <2>3
<1> QED
  BY <1>2, <1>3

(* A write leaves the registers as the writes up to it say.                *)
LEMMA RegisterWrite ==
    ASSUME EngineTypeOK, NEW s \in Seq(Fits), NEW n \in 1 .. Len(s),
           Register(s, n - 1), Effect(s[n])
    PROVE  Register(s, n)'
<1> DEFINE w == s[n]
<1>1. w \in Fits
  OBVIOUS
<1>2. /\ w.op = "cntr" => w.reg \in Cntrs /\ w.val \in 0 .. MaxCntr
      /\ w.op = "jump" => w.reg \in Cntrs /\ w.val \in Addresses
  BY <1>1 DEF Fits, Body, Selects, PhyReg
<1>3. /\ w.op = "cntr" => jump' = jump /\ LoadCntr(w.reg, w.val)
      /\ w.op = "jump" => cntr' = cntr /\ reload' = reload /\ LoadJump(w.reg, w.val)
      /\ w.op = "run" => cntr' = cntr /\ reload' = reload /\ jump' = jump
      /\ w.op \notin {"cntr", "jump"} => cntr' = cntr /\ reload' = reload /\ jump' = jump
  BY DEF Effect, Select, engineVars, LoadCntr, LoadJump, Run
<1>4. ASSUME NEW c \in Cntrs, NEW a \in Addresses, Aimed(s, n, c, {a}) PROVE jump'[c] = a
  <2>1. CASE Aims(w, c) /\ w.val = a
    BY <1>2, <1>3, <2>1 DEF Aims, LoadJump, EngineTypeOK
  <2>2. CASE ~Aims(w, c) /\ Aimed(s, n - 1, c, {a})
    <3>1. jump[c] = a
      BY <2>2 DEF Register
    <3>2. jump'[c] = jump[c]
      BY <1>2, <1>3, <2>2 DEF Aims, LoadJump, EngineTypeOK
    <3> QED
      BY <3>1, <3>2
  <2> QED
    BY <1>4, <2>1, <2>2, AimedFrom
<1>5. ASSUME NEW c \in Cntrs, NEW v \in 0 .. MaxCntr, Loaded(s, n, c, v)
      PROVE  cntr'[c] = v /\ reload'[c] = v
  <2>1. CASE w = LoadCntrReg(c, v)
    <3>1. w.op = "cntr" /\ w.reg = c /\ w.val = v
      BY <2>1 DEF LoadCntrReg
    <3> QED
      BY <1>3, <3>1 DEF LoadCntr, EngineTypeOK
  <2>2. CASE ~(w.op = "cntr" /\ w.reg = c) /\ Loaded(s, n - 1, c, v)
    <3>1. cntr[c] = v /\ reload[c] = v
      BY <2>2 DEF Register
    <3>2. cntr'[c] = cntr[c] /\ reload'[c] = reload[c]
      BY <1>2, <1>3, <2>2 DEF LoadCntr, EngineTypeOK
    <3> QED
      BY <3>1, <3>2
  <2> QED
    BY <1>5, <2>1, <2>2, LoadedFrom
<1> HIDE DEF w
<1> QED
  BY <1>4, <1>5 DEF Register

LEMMA RegisterStart ==
    ASSUME NEW s PROVE Register(s, 0) /\ Register(s, 0)'
<1>1. \A j : j \notin 1 .. 0
  OBVIOUS
<1> QED
  BY <1>1 DEF Register, Aimed, Loaded
-----------------------------------------------------------------------------
(* A run starts its course.                                                *)
LEMMA CourseRun ==
    ASSUME EngineTypeOK, NEW s \in Seq(Fits), NEW n \in 1 .. Len(s), s[n].op = "run",
           Register(s, n - 1), Ready(s, n), Effect(s[n])
    PROVE  Course' /\ running' /\ label' = s[n].val
<1> DEFINE a == s[n].val
           m == n - 1
<1>1. a \in Entries
  <2>1. s[n] \in Fits
    OBVIOUS
  <2> QED
    BY <2>1 DEF Fits, Body, Selects, PhyReg
<1>2. Run(a)
  BY DEF Effect, Select
<1>3. /\ running' /\ label' = a /\ ip' = a /\ jump' = jump /\ cntr' = cntr /\ reload' = reload
  BY <1>2 DEF Run
<1>4. m \in 0 .. Len(s)
  OBVIOUS
<1>5. {0, 1, 2, 3} = Cntrs /\ Needs(a) \subseteq Cntrs
  BY DEF Cntrs, Needs
<1>6. /\ a \notin WriteTests => \A c \in Needs(a) : Aimed(s, m, c, Block(a))
      /\ a \in Modes => Loaded(s, m, 0, MaxCntr) /\ Aimed(s, m, 0, {RETURN})
      /\ a \in WriteTests => WriteReady(s, m, a)
  BY DEF Ready
<1> HIDE DEF a, m
<1>7. ASSUME NEW c \in Cntrs, NEW B, Aimed(s, m, c, B) PROVE jump[c] \in B
  <2>1. Register(s, m)
    BY DEF m
  <2> QED
    BY <1>4, <1>7, <2>1, RegisterJump
<1>8. ASSUME NEW c \in Cntrs, NEW v \in 0 .. MaxCntr, Loaded(s, m, c, v)
      PROVE  cntr[c] = v /\ reload[c] = v
  BY <1>8 DEF Register, m
<1>9. ASSUME a \notin WriteTests PROVE \A c \in Needs(a) : jump[c] \in Block(a)
  BY <1>5, <1>6, <1>7, <1>9
<1>10. ASSUME a \in Modes PROVE jump[0] = RETURN /\ cntr[0] # 0
  <2>1. jump[0] \in {RETURN}
    BY <1>5, <1>6, <1>7, <1>10
  <2>2. MaxCntr \in 0 .. MaxCntr /\ MaxCntr # 0
    BY CntrAssumption, CommandsAssumption
  <2>3. cntr[0] = MaxCntr
    BY <1>5, <1>6, <1>8, <1>10, <2>2
  <2> QED
    BY <2>1, <2>2, <2>3
<1>11. ASSUME a \in WriteTests
       PROVE  /\ jump[0] = a /\ jump[1] = WRITE_WAIT + Dm(a)
              /\ \/ jump[2] \in Block(a) /\ jump[3] \in Block(a)
                 \/ cntr[2] = 0 /\ reload[2] = 0 /\ jump[3] \in Block(a)
                 \/ /\ a = WRITE + Dm(a) /\ jump[2] = WRITE_DQS + Dm(a)
                    /\ cntr[2] >= cntr[0] + 1
  <2>1. WriteReady(s, m, a)
    BY <1>6, <1>11
  <2>2. jump[0] \in {a} /\ jump[1] \in {WRITE_WAIT + Dm(a)}
    BY <1>5, <1>7, <2>1 DEF WriteReady
  <2>3. CASE Aimed(s, m, 2, Block(a)) /\ Aimed(s, m, 3, Block(a))
    BY <1>5, <1>7, <2>2, <2>3
  <2>4. CASE Loaded(s, m, 2, 0) /\ Aimed(s, m, 3, Block(a))
    <3>1. 0 \in 0 .. MaxCntr
      BY CntrAssumption
    <3> QED
      BY <1>5, <1>7, <1>8, <2>2, <2>4, <3>1
  <2>5. CASE /\ a = WRITE + Dm(a)
             /\ Loaded(s, m, 0, WriteLoops) /\ Loaded(s, m, 2, 255)
             /\ Aimed(s, m, 2, {WRITE_DQS + Dm(a)})
    <3>1. WriteLoops \in 0 .. MaxCntr /\ 255 \in 0 .. MaxCntr /\ 255 >= WriteLoops + 1
      BY CntrAssumption, CommandsAssumption
    <3>2. cntr[0] = WriteLoops /\ cntr[2] = 255
      BY <1>5, <1>8, <2>5, <3>1
    <3>3. jump[2] \in {WRITE_DQS + Dm(a)}
      BY <1>5, <1>7, <2>5
    <3> QED
      BY <2>2, <2>5, <3>1, <3>2, <3>3
  <2> QED
    BY <2>1, <2>3, <2>4, <2>5 DEF WriteReady
<1>12. Course'
  <2>1. a \in WriteTests => Skipping'
    BY <1>3, <1>11 DEF Skipping
  <2>2. a \in Block(a)
    BY <1>1, BlocksAre
  <2> QED
    BY <1>1, <1>3, <1>9, <1>10, <1>11, <2>1, <2>2 DEF Course
<1> QED
  BY <1>3, <1>12 DEF a
-----------------------------------------------------------------------------
(* A run stays within its block.                                           *)
LEMMA Labels ==
    ASSUME NEW a \in Entries
    PROVE  \/ a \in Modes
           \/ a \in {ACTIVATE_0_AND_1, PRECHARGE_ALL, GUARANTEED_WRITE, CLEAR_DQS_ENABLE,
                     GUARANTEED_READ, READ_B2B}
           \/ a \in Holds \cup Idles \cup WriteTests
BY DEF Entries, Bursts, Rows

(* The last instruction of a block returns; the others go on within it.    *)
LEMMA BlockEnds ==
    ASSUME NEW a \in Entries, a \notin Modes, NEW x \in Block(a), x \notin Returns
    PROVE  x + 1 \in Block(a)
<1> USE DEF Block, Modes, Returns
<1>1. CASE a \in {ACTIVATE_0_AND_1, PRECHARGE_ALL, GUARANTEED_WRITE}
  BY <1>1 DEF ACTIVATE_0_AND_1, PRECHARGE_ALL, GUARANTEED_WRITE
<1>2. CASE a \in {CLEAR_DQS_ENABLE, GUARANTEED_READ, READ_B2B}
  BY <1>2 DEF ACTIVATE_0_AND_1, PRECHARGE_ALL, GUARANTEED_WRITE, CLEAR_DQS_ENABLE,
     GUARANTEED_READ, READ_B2B, WRITE_WL_1, WRITE, DmBlock
<1>3. CASE a \in WriteTests
  BY <1>3 DEF WriteTests, ACTIVATE_0_AND_1, PRECHARGE_ALL, GUARANTEED_WRITE, WRITE_WL_1, WRITE,
     DmBlock
<1>4. CASE a \in Holds \cup Idles
  BY <1>4 DEF Holds, Idles, ACTIVATE_0_AND_1, PRECHARGE_ALL, GUARANTEED_WRITE, CLEAR_DQS_ENABLE,
     GUARANTEED_READ, READ_B2B, WRITE_WL_1, WRITE, DmBlock, INIT_RESET_0_CKE_0,
     INIT_RESET_1_CKE_0, IDLE_LOOP1, IDLE_LOOP2
<1> QED
  BY <1>1, <1>2, <1>3, <1>4, Labels

(* The instructions of the write tests that jump.                          *)
LEMMA WriteJumps ==
    ASSUME NEW a \in WriteTests, NEW x \in Block(a)
    PROVE  /\ a \in {WRITE_WL_1 + Dm(a), WRITE + Dm(a)}
           /\ WRITE_WAIT + Dm(a) \in Block(a) /\ a \in Block(a)
           /\ WRITE_DQS + Dm(a) \in Block(a) /\ Dm(a) \in {0, DmBlock}
           /\ x \in JumpsOn(0) => x = WRITE_WAIT + Dm(a) + 1
           /\ x \in JumpsOn(1) => x = WRITE_WAIT + Dm(a)
           /\ x \in JumpsOn(2) => x \in {WRITE_WL_1 + Dm(a), WRITE + Dm(a)}
           /\ x \in JumpsOn(3) => x = WRITE_NOP + Dm(a)
           /\ WRITE_WAIT + Dm(a) + 1 \in JumpsOn(0)
           /\ WRITE + Dm(a) \in JumpsOn(2) /\ WRITE + Dm(a) \notin Returns
<1>1. a = 33 \/ a = 34 \/ a = 53 \/ a = 54
  BY DEF WriteTests, WRITE_WL_1, WRITE, DmBlock
<1>2. /\ (a = 33 \/ a = 34) => Dm(a) = 0 /\ Block(a) = 33 .. 52
      /\ (a = 53 \/ a = 54) => Dm(a) = 20 /\ Block(a) = 53 .. 72
  <2>1. /\ (a = 33 \/ a = 34) => Dm(a) = 0
        /\ (a = 53 \/ a = 54) => Dm(a) = 20
    BY <1>1 DEF Dm, WRITE, DmBlock
  <2>2. ASSUME a = 33 \/ a = 34 PROVE Block(a) = 33 .. 52
    BY <2>2 DEF Block, WRITE_WL_1, WRITE, DmBlock, ACTIVATE_0_AND_1, PRECHARGE_ALL, GUARANTEED_WRITE,
       CLEAR_DQS_ENABLE, GUARANTEED_READ, READ_B2B, INIT_RESET_0_CKE_0, INIT_RESET_1_CKE_0,
       IDLE_LOOP2, Modes
  <2>3. ASSUME a = 53 \/ a = 54 PROVE Block(a) = 53 .. 72
    BY <2>3 DEF Block, WRITE_WL_1, WRITE, DmBlock, ACTIVATE_0_AND_1, PRECHARGE_ALL, GUARANTEED_WRITE,
       CLEAR_DQS_ENABLE, GUARANTEED_READ, READ_B2B, INIT_RESET_0_CKE_0, INIT_RESET_1_CKE_0,
       IDLE_LOOP2, Modes
  <2> QED
    BY <2>1, <2>2, <2>3
<1>3. /\ WRITE_WL_1 = 33 /\ WRITE = 34 /\ WRITE_NOP = 35 /\ WRITE_DQS = 36 /\ WRITE_WAIT = 50
      /\ DmBlock = 20
  BY DEF WRITE_WL_1, WRITE, WRITE_NOP, WRITE_DQS, WRITE_WAIT, DmBlock
<1>4. x \in 33 .. 72
  BY <1>1, <1>2
<1>5. x \in JumpsOn(0) <=> x = 51 \/ x = 71
  BY <1>4 DEF JumpsOn
<1>6. x \in JumpsOn(1) <=> x = 50 \/ x = 70
  BY <1>4 DEF JumpsOn
<1>7. x \in JumpsOn(2) <=> x = 33 \/ x = 34 \/ x = 53 \/ x = 54
  BY <1>4 DEF JumpsOn
<1>8. x \in JumpsOn(3) <=> x = 35 \/ x = 55
  BY <1>4 DEF JumpsOn
<1>9. {51, 71} \subseteq JumpsOn(0) /\ {34, 54} \subseteq JumpsOn(2)
  BY DEF JumpsOn
<1>10. 34 \notin Returns /\ 54 \notin Returns
  BY DEF Returns
<1>11. CASE a = 33 \/ a = 34
  <2>1. Dm(a) = 0 /\ x \in 33 .. 52 /\ Block(a) = 33 .. 52
    BY <1>2, <1>11
  <2> QED
    BY <1>3, <1>5, <1>6, <1>7, <1>8, <1>9, <1>10, <1>11, <2>1
<1>12. CASE a = 53 \/ a = 54
  <2>1. Dm(a) = 20 /\ x \in 53 .. 72 /\ Block(a) = 53 .. 72
    BY <1>2, <1>12
  <2> QED
    BY <1>3, <1>5, <1>6, <1>7, <1>8, <1>9, <1>10, <1>12, <2>1
<1> QED
  BY <1>1, <1>11, <1>12

LEMMA ModeJumps ==
    ASSUME NEW a \in Modes
    PROVE  /\ a \in JumpsOn(0) /\ \A c \in Cntrs : a \in JumpsOn(c) => c = 0
           /\ RETURN \in Returns /\ RETURN \notin Modes /\ a \notin WriteTests
<1>1. a \in 2 .. 12
  BY DEF Modes
<1>2. a \in JumpsOn(0)
  BY <1>1 DEF JumpsOn
<1>3. a \notin JumpsOn(1) /\ a \notin JumpsOn(2) /\ a \notin JumpsOn(3)
  BY <1>1 DEF JumpsOn
<1>4. RETURN \in Returns /\ RETURN \notin Modes
  BY DEF RETURN, Returns, Modes
<1>5. a \notin WriteTests
  BY <1>1 DEF WriteTests, WRITE_WL_1, WRITE, DmBlock
<1> QED
  BY <1>2, <1>3, <1>4, <1>5 DEF Cntrs
-----------------------------------------------------------------------------
(* A run keeps to its course.                                              *)
LEMMA GoesOn ==
    ASSUME Play, running'
    PROVE  /\ \E c \in Cntrs : Advance \/ Jump(c) \/ Exhaust(c)
           /\ label' = label /\ jump' = jump /\ reload' = reload /\ ip \notin Returns
<1>1. ~Return
  BY DEF Return
<1>2. PICK c \in Cntrs : Advance \/ Jump(c) \/ Exhaust(c)
  <2>1. 0 \in Cntrs
    BY DEF Cntrs
  <2> QED
    BY <1>1, <2>1 DEF Play
<1>3. ip \notin Returns /\ Untouched
  BY <1>2, PlayKeeps
<1> QED
  BY <1>2, <1>3 DEF Untouched

LEMMA CourseMode ==
    ASSUME EngineTypeOK, Course, label \in Modes, Play, running'
    PROVE  Course'
<1>1. label' = label /\ jump' = jump /\ reload' = reload /\ ip \notin Returns /\ label \in Entries
  BY GoesOn DEF Course
<1>2. Block(label) = {label, RETURN} /\ Needs(label) = {0} /\ jump[0] = RETURN
  BY BlocksAre, NeedsAre DEF Course
<1>3. ip = label
  BY <1>1, <1>2, ModeJumps DEF Course
<1>4. /\ label \in JumpsOn(0) /\ \A c \in Cntrs : label \in JumpsOn(c) => c = 0
      /\ 0 \in Cntrs /\ cntr[0] # 0
  BY <1>3, ModeJumps DEF Course, Cntrs
<1>5. ip' = RETURN
  BY <1>1, <1>2, <1>3, <1>4 DEF Play, Return, Advance, Jump, Exhaust
<1>6. RETURN # label /\ label \notin WriteTests
  BY ModeJumps
<1> QED
  BY <1>1, <1>2, <1>5, <1>6 DEF Course

LEMMA CourseOther ==
    ASSUME EngineTypeOK, Course, label \notin Modes \cup WriteTests, Play, running'
    PROVE  Course'
<1>1. /\ label' = label /\ jump' = jump /\ ip \notin Returns /\ label \in Entries
      /\ ip \in Block(label) /\ \A c \in Needs(label) : jump[c] \in Block(label)
  BY GoesOn DEF Course
<1>2. ip + 1 \in Block(label)
  BY <1>1, BlockEnds
<1>3. ASSUME NEW c \in Cntrs, Jump(c) PROVE ip' \in Block(label)
  <2>1. ip \in JumpsOn(c) /\ ip' = jump[c]
    BY <1>3 DEF Jump
  <2>2. c \in Needs(label)
    BY <1>1, <2>1 DEF Needs
  <2> QED
    BY <1>1, <2>1, <2>2
<1>4. ip' \in Block(label)
  BY <1>2, <1>3 DEF Play, Return, Advance, Exhaust
<1> QED
  BY <1>1, <1>4 DEF Course

LEMMA CourseWrite ==
    ASSUME EngineTypeOK, Course, label \in WriteTests, Play, running'
    PROVE  Course'
<1> DEFINE d == Dm(label)
           Way2 == cntr[2] = 0 /\ reload[2] = 0 /\ jump[3] \in Block(label)
           Way3 == /\ label = WRITE + d /\ jump[2] = WRITE_DQS + d
                   /\ ip = label \/ ip >= WRITE_DQS + d
                   /\ ip \notin Returns => cntr[2] >= cntr[0] + (IF ip = label THEN 1 ELSE 0)
<1>1. /\ label' = label /\ jump' = jump /\ reload' = reload /\ ip \notin Returns
      /\ label \in Entries /\ ip \in Block(label)
      /\ jump[0] = label /\ jump[1] = WRITE_WAIT + d /\ label \notin Modes
  <2>1. label \notin Modes
    BY DEF Modes, WriteTests, WRITE_WL_1, WRITE, DmBlock
  <2> QED
    BY <2>1, GoesOn DEF Course
<1>2. ip + 1 \in Block(label)
  BY <1>1, BlockEnds
<1>3. Skipping /\ Cntrs = {0, 1, 2, 3}
  BY DEF Course, Cntrs
<1>4. /\ \A c \in Cntrs : cntr[c] \in Nat /\ reload[c] \in Nat
      /\ ip \in Nat /\ Dm(label) \in Nat
  BY CntrAssumption DEF EngineTypeOK, Addresses, Dm, DmBlock
<1>5. /\ label \in {WRITE_WL_1 + d, WRITE + d}
      /\ WRITE_WAIT + d \in Block(label) /\ label \in Block(label)
      /\ WRITE_DQS + d \in Block(label) /\ d \in {0, DmBlock}
      /\ ip \in JumpsOn(0) => ip = WRITE_WAIT + d + 1
      /\ ip \in JumpsOn(1) => ip = WRITE_WAIT + d
      /\ ip \in JumpsOn(2) => ip \in {WRITE_WL_1 + d, WRITE + d}
      /\ ip \in JumpsOn(3) => ip = WRITE_NOP + d
      /\ WRITE_WAIT + d + 1 \in JumpsOn(0)
      /\ WRITE + d \in JumpsOn(2)
  BY <1>1, WriteJumps
<1>6. /\ WRITE_WL_1 + d < WRITE + d /\ WRITE + d < WRITE_NOP + d /\ WRITE_NOP + d < WRITE_DQS + d
      /\ WRITE_DQS + d < WRITE_WAIT + d
  BY <1>4 DEF WRITE_WL_1, WRITE, WRITE_NOP, WRITE_DQS, WRITE_WAIT
<1>11. /\ cntr[0] \in Nat /\ cntr[2] \in Nat /\ {0, 1, 2, 3} \subseteq Cntrs
  BY <1>3, <1>4
<1> HIDE DEF d
<1>12. ASSUME label = WRITE + d, jump[2] = WRITE_DQS + d,
              ip' = label \/ ip' >= WRITE_DQS + d,
              ip' \notin Returns => cntr'[2] >= cntr'[0] + (IF ip' = label THEN 1 ELSE 0)
       PROVE  Skipping'
  BY <1>1, <1>12 DEF Skipping, d
<1>13. /\ d \in Nat /\ label \in Nat /\ WRITE_WL_1 + d # WRITE + d /\ WRITE_NOP + d # WRITE + d
       /\ WRITE_WAIT + d # WRITE + d /\ WRITE_WAIT + d + 1 # WRITE + d
       /\ ~(WRITE_WL_1 + d >= WRITE_DQS + d) /\ ~(WRITE + d >= WRITE_DQS + d)
       /\ ~(WRITE_NOP + d >= WRITE_DQS + d) /\ WRITE_WAIT + d >= WRITE_DQS + d
  BY <1>4 DEF d, EngineTypeOK, Addresses, WRITE_WL_1, WRITE, WRITE_NOP, WRITE_DQS, WRITE_WAIT
<1>7. ASSUME ip' \in Block(label), Skipping' PROVE Course'
  BY <1>1, <1>7 DEF Course, d
<1>8. CASE jump[2] \in Block(label) /\ jump[3] \in Block(label)
  <2>1. \A c \in Cntrs : ip \in JumpsOn(c) => jump[c] \in Block(label)
    BY <1>1, <1>3, <1>5, <1>8
  <2>2. ip' \in Block(label)
    BY <1>2, <2>1 DEF Play, Return, Advance, Jump, Exhaust
  <2>3. Skipping'
    BY <1>1, <1>8 DEF Skipping
  <2> QED
    BY <1>7, <2>2, <2>3
<1>9. CASE Way2
  <2>1. ~Jump(2)
    BY <1>9 DEF Jump
  <2>2. cntr'[2] = 0
    <3>1. ASSUME NEW c \in Cntrs, Jump(c) PROVE cntr'[2] = 0
      BY <1>3, <1>9, <2>1, <3>1 DEF Jump, EngineTypeOK
    <3>2. ASSUME NEW c \in Cntrs, Exhaust(c) PROVE cntr'[2] = 0
      BY <1>3, <1>9, <3>2 DEF Exhaust, EngineTypeOK
    <3> QED
      BY <1>9, <3>1, <3>2 DEF Play, Return, Advance
  <2>3. ip' \in Block(label)
    <3>1. \A c \in Cntrs \ {2} : ip \in JumpsOn(c) => jump[c] \in Block(label)
      BY <1>1, <1>3, <1>5, <1>9
    <3> QED
      BY <1>2, <2>1, <3>1 DEF Play, Return, Advance, Jump, Exhaust
  <2>4. Skipping'
    BY <1>1, <1>9, <2>2 DEF Skipping
  <2> QED
    BY <1>7, <2>3, <2>4
<1>10. CASE Way3
  <2>1. CASE ip = label
    <3>1. ip \in JumpsOn(2) /\ \A c \in Cntrs : ip \in JumpsOn(c) => c = 2
      BY <1>3, <1>5, <1>10, <1>13, <2>1
    <3>2. cntr[2] >= cntr[0] + 1 /\ cntr[2] # 0 /\ 2 \in Cntrs
      BY <1>1, <1>3, <1>4, <1>10, <2>1
    <3>3. Jump(2)
      BY <1>1, <3>1, <3>2 DEF Play, Return, Advance, Jump, Exhaust
    <3>4. ip' = WRITE_DQS + d /\ cntr'[2] = cntr[2] - 1 /\ cntr'[0] = cntr[0]
      BY <1>3, <1>10, <3>3 DEF Jump, EngineTypeOK
    <3>5. Skipping'
      <4>1. cntr[2] - 1 >= cntr[0] /\ ip' # label
        BY <1>10, <1>11, <1>13, <3>2, <3>4
      <4> QED
        BY <1>10, <1>11, <1>12, <1>13, <3>4, <4>1
    <3> QED
      BY <1>5, <1>7, <3>4, <3>5
  <2>2. CASE ip # label
    <3>1. ip >= WRITE_DQS + d /\ cntr[2] >= cntr[0]
      BY <1>1, <1>3, <1>4, <1>10, <2>2
    <3>2. \A c \in Cntrs : ip \in JumpsOn(c) => c \in {0, 1}
      BY <1>3, <1>5, <1>13, <3>1
    <3>3. CASE Jump(0)
      <4>1. ip' = label /\ cntr'[2] = cntr[2] /\ cntr'[0] = cntr[0] - 1
        BY <1>1, <1>3, <3>3 DEF Jump, EngineTypeOK
      <4>2. cntr[2] >= (cntr[0] - 1) + 1
        BY <1>3, <1>4, <3>1
      <4>3. Skipping'
        BY <1>10, <1>11, <1>12, <4>1, <4>2
      <4> QED
        BY <1>5, <1>7, <4>1, <4>3
    <3>4. CASE Exhaust(0)
      <4>1. ip = WRITE_WAIT + d + 1 /\ ip' = ip + 1
        BY <1>5, <3>4 DEF Exhaust
      <4>2. ip' \in Returns
        BY <1>5, <4>1 DEF Returns, WRITE_WAIT, DmBlock
      <4>3. Skipping'
        <5>1. ip' >= WRITE_DQS + d
          BY <1>4, <1>13, <4>1 DEF WRITE_WAIT, WRITE_DQS
        <5> QED
          BY <1>10, <1>12, <4>2, <5>1
      <4> QED
        BY <1>2, <1>7, <4>1, <4>3
    <3>5. CASE Jump(1)
      <4>1. ip' = WRITE_WAIT + d /\ cntr'[2] = cntr[2] /\ cntr'[0] = cntr[0]
        BY <1>1, <1>3, <3>5 DEF Jump, EngineTypeOK
      <4>2. ip' # label /\ ip' >= WRITE_DQS + d
        BY <1>10, <1>13, <4>1
      <4>3. Skipping'
        BY <1>10, <1>11, <1>12, <3>1, <4>1, <4>2
      <4> QED
        BY <1>5, <1>7, <4>1, <4>3
    <3>6. CASE Advance \/ Exhaust(1)
      <4>1. ip' = ip + 1 /\ cntr'[2] = cntr[2] /\ cntr'[0] = cntr[0]
        <5>1. CASE Advance
          BY <5>1 DEF Advance
        <5>2. CASE Exhaust(1)
          BY <1>3, <5>2 DEF Exhaust, EngineTypeOK
        <5> QED
          BY <3>6, <5>1, <5>2
      <4>2. ip' # label /\ ip' >= WRITE_DQS + d
        <5>1. ip \in Nat /\ ip >= 36 + d /\ label = 34 + d
          BY <1>4, <1>10, <3>1 DEF WRITE, WRITE_DQS
        <5> QED
          BY <1>13, <4>1, <5>1 DEF WRITE_DQS
      <4>3. Skipping'
        BY <1>10, <1>11, <1>12, <3>1, <4>1, <4>2
      <4> QED
        BY <1>2, <1>7, <4>1, <4>3
    <3> QED
      BY <3>2, <3>3, <3>4, <3>5, <3>6 DEF Play, Return, Jump, Exhaust
  <2> QED
    BY <2>1, <2>2
<1> QED
  BY <1>3, <1>8, <1>9, <1>10 DEF Skipping, d
-----------------------------------------------------------------------------
(* What the blocks hold.                                                   *)
(* The ROM of words: its parts are sequences of the words they hold.       *)
Words ==
    {FirstWords[i] : i \in 1 .. 33} \cup {WriteReadWords[i] : i \in 1 .. 20}
    \cup {LastWords[i] : i \in 1 .. 54}

LEMMA SequenceOf ==
    ASSUME NEW S, NEW n \in Nat, NEW s, s = [i \in 1 .. n |-> s[i]], \A i \in 1 .. n : s[i] \in S
    PROVE  s \in Seq(S) /\ Len(s) = n
<1>1. s \in [1 .. n -> S]
  OBVIOUS
<1> QED
  BY <1>1

LEMMA WordsAre ==
    /\ FirstWords \in Seq(Words) /\ Len(FirstWords) = 33
    /\ WriteReadWords \in Seq(Words) /\ Len(WriteReadWords) = 20
    /\ LastWords \in Seq(Words) /\ Len(LastWords) = 54
<1> DEFINE f == FirstWords
           w == WriteReadWords
           z == LastWords
<1>1. f = [i \in 1 .. 33 |-> f[i]]
  BY SMTT(60) DEF FirstWords
<1>2. w = [i \in 1 .. 20 |-> w[i]]
  BY SMTT(60) DEF WriteReadWords
<1>3. z = [i \in 1 .. 54 |-> z[i]]
  BY SMTT(60) DEF LastWords
<1>4. /\ \A i \in 1 .. 33 : f[i] \in Words
      /\ \A i \in 1 .. 20 : w[i] \in Words
      /\ \A i \in 1 .. 54 : z[i] \in Words
  BY DEF Words
<1> HIDE DEF f, w, z
<1>5. 33 \in Nat /\ 20 \in Nat /\ 54 \in Nat
  OBVIOUS
<1>6. f \in Seq(Words) /\ Len(f) = 33
  BY <1>1, <1>4, <1>5, SequenceOf
<1>7. w \in Seq(Words) /\ Len(w) = 20
  BY <1>2, <1>4, <1>5, SequenceOf
<1>8. z \in Seq(Words) /\ Len(z) = 54
  BY <1>3, <1>4, <1>5, SequenceOf
<1> QED
  BY <1>6, <1>7, <1>8 DEF f, w, z

LEMMA WordAt ==
    /\ \A i \in 1 .. 33 : AcWords[i] = FirstWords[i]
    /\ \A i \in 1 .. 54 : AcWords[73 + i] = LastWords[i]
<1> DEFINE f == FirstWords
           w == WriteReadWords
           z == LastWords
           fw == f \o w
           fww == fw \o w
           acs == fww \o z
<1>1. f \in Seq(Words) /\ w \in Seq(Words) /\ z \in Seq(Words)
  BY WordsAre
<1>2. Len(f) = 33 /\ Len(w) = 20 /\ Len(z) = 54
  BY WordsAre
<1>3. AcWords = acs
  BY Zenon DEF AcWords, acs, fww, fw, f, w, z
<1> HIDE DEF f, w, z
<1>4. fw \in Seq(Words) /\ Len(fw) = Len(f) + Len(w) /\ \A i \in 1 .. Len(f) : fw[i] = f[i]
  BY <1>1, Joined
<1> HIDE DEF fw
<1>5. fww \in Seq(Words) /\ Len(fww) = Len(fw) + Len(w) /\ \A i \in 1 .. Len(fw) : fww[i] = fw[i]
  BY <1>1, <1>4, Joined
<1> HIDE DEF fww
<1>6. /\ \A i \in 1 .. Len(fww) : acs[i] = fww[i]
      /\ \A i \in 1 .. Len(z) : acs[Len(fww) + i] = z[i]
  BY <1>1, <1>5, Joined
<1> HIDE DEF acs
<1>7. Len(fw) = 53
  BY <1>2, <1>4
<1>8. Len(fww) = 73
  BY <1>2, <1>5, <1>7
<1>9. ASSUME NEW i \in 1 .. 33 PROVE acs[i] = f[i]
  <2>1. i \in 1 .. 53 /\ i \in 1 .. 73
    OBVIOUS
  <2>2. fw[i] = f[i]
    BY <1>2, <1>4
  <2>3. fww[i] = fw[i]
    BY <1>5, <1>7, <2>1
  <2>4. acs[i] = fww[i]
    BY <1>6, <1>8, <2>1
  <2> QED
    BY <2>2, <2>3, <2>4
<1>10. ASSUME NEW i \in 1 .. 54 PROVE acs[73 + i] = z[i]
  BY <1>2, <1>6, <1>8
<1> QED
  BY <1>3, <1>9, <1>10 DEF f, z

(* The commands of the parts of the ROM.                                   *)
Quiet == {"none", "reset", "cke_low"}

LEMMA RowWords ==
    ASSUME NEW a \in 1 .. 19
    PROVE  Decode(AcWord(a)).kind \notin {"read", "write"}
<1>1. a + 1 \in 1 .. 33 /\ AcWord(a) = FirstWords[a + 1]
  BY WordAt DEF AcWord
<1>2. FirstWords[a + 1] \in {"des", "mrs0_dll_reset", "mrs1", "mrs2", "mrs3", "zqcl", "mrs0_user",
         "mrs0_dll_reset_mirr", "mrs1_mirr", "mrs2_mirr", "mrs3_mirr", "mrs0_user_mirr", "act_0",
         "act_1", "pre_all"}
  BY DEF FirstWords
<1> DEFINE w == AcWord(a)
<1>3. w \in {"des", "mrs0_dll_reset", "mrs1", "mrs2", "mrs3", "zqcl", "mrs0_user",
         "mrs0_dll_reset_mirr", "mrs1_mirr", "mrs2_mirr", "mrs3_mirr", "mrs0_user_mirr", "act_0",
         "act_1", "pre_all"}
  BY <1>1, <1>2
<1> HIDE DEF w
<1>4. Decode(w).kind \in {"none", "mrs", "zqcl", "pre", "act"}
  BY <1>3 DEF Decode, At, Mrs, NoCommand
<1> QED
  BY <1>4 DEF w

LEMMA QuietWords ==
    ASSUME NEW a \in 111 .. 120 \cup 122 .. 124
    PROVE  Decode(AcWord(a)).kind \in Quiet
<1>1. a - 72 \in 1 .. 54 /\ AcWord(a) = LastWords[a - 72]
  <2>1. a - 72 \in 1 .. 54 /\ 73 + (a - 72) = a + 1
    OBVIOUS
  <2> QED
    BY <2>1, WordAt DEF AcWord
<1>2. LastWords[a - 72] \in {"init_reset_0_cke_0", "init_reset_1_cke_0", "des"}
  BY DEF LastWords
<1> DEFINE w == AcWord(a)
<1>3. w \in {"init_reset_0_cke_0", "init_reset_1_cke_0", "des"}
  BY <1>1, <1>2
<1> HIDE DEF w
<1>4. Decode(w).kind \in Quiet
  BY <1>3 DEF Decode, At, NoCommand, Quiet
<1> QED
  BY <1>4 DEF w

LEMMA Kinds ==
    ASSUME label \in Entries, ip \in Block(label)
    PROVE  /\ label \in Holds \cup Idles => Command.kind \in Quiet
           /\ label \notin Holds \cup Idles \cup Bursts => Command.kind \notin {"read", "write"}
<1>1. ASSUME label \in Holds \cup Idles PROVE ip \in 111 .. 120 \cup 122 .. 124
  BY <1>1 DEF Block, Holds, Idles, WRITE_WL_1, WRITE, DmBlock, ACTIVATE_0_AND_1, PRECHARGE_ALL,
     GUARANTEED_WRITE, CLEAR_DQS_ENABLE, GUARANTEED_READ, READ_B2B, INIT_RESET_0_CKE_0,
     INIT_RESET_1_CKE_0, IDLE_LOOP2, IDLE_LOOP1, Modes
<1>2. ASSUME label \in Modes \cup Rows PROVE ip \in 1 .. 19
  BY <1>2 DEF Block, Rows, WRITE_WL_1, WRITE, DmBlock, ACTIVATE_0_AND_1, PRECHARGE_ALL,
     GUARANTEED_WRITE, CLEAR_DQS_ENABLE, GUARANTEED_READ, READ_B2B, INIT_RESET_0_CKE_0,
     INIT_RESET_1_CKE_0, IDLE_LOOP2, IDLE_LOOP1, Modes, RETURN
<1>3. label \notin Holds \cup Idles \cup Bursts => label \in Modes \cup Rows
  BY DEF Entries
<1> QED
  BY <1>1, <1>2, <1>3, RowWords, QuietWords DEF Command
-----------------------------------------------------------------------------
(* set_rank_and_odt_mask, for every board.                                 *)
LEMMA Terminations ==
    ASSUME board \in Boards, NEW r \in Ranks
    PROVE  /\ r \notin OdtRead(r) /\ r \in OdtWrite(r)
           /\ \A m \in {Module(x) : x \in Ranks} \ {Module(r)} :
                 /\ Cardinality({x \in OdtRead(r) : Module(x) = m}) = 1
                 /\ Cardinality({x \in OdtWrite(r) : Module(x) = m}) = 1
<1>1. /\ board.ranks \in {1, 2, 4} /\ board.perModule \in Nat
      /\ board.ranks \in {board.perModule, 2 * board.perModule}
  BY BoardAssumption
<1>2. ASSUME NEW S, NEW y, S = {y} PROVE Cardinality(S) = 1
  BY <1>2, FS_Singleton
<1>3. CASE board.ranks = board.perModule
  <2>1. \A x \in Ranks : Module(x) = 0
    BY <1>1, <1>3 DEF Module, Ranks
  <2>2. {Module(x) : x \in Ranks} \ {Module(r)} = {}
    BY <2>1
  <2>3. r \notin OdtRead(r) /\ r \in OdtWrite(r)
    BY <1>1, <1>3 DEF OdtRead, OdtWrite, Ranks
  <2> QED
    BY <2>2, <2>3
<1>4. CASE board.ranks = 2 /\ board.perModule = 1
  <2>1. \A x \in {0, 1} : Module(x) = x
    BY <1>4 DEF Module
  <2>2. Ranks = {0, 1} /\ OdtRead(r) = {0, 1} \ {r} /\ OdtWrite(r) = {0, 1} /\ r \in {0, 1}
    BY <1>4 DEF Ranks, OdtRead, OdtWrite
  <2>3. ASSUME NEW m \in {Module(x) : x \in Ranks} \ {Module(r)}
        PROVE  /\ {x \in OdtRead(r) : Module(x) = m} = {m}
               /\ {x \in OdtWrite(r) : Module(x) = m} = {m}
    BY <2>1, <2>2
  <2> QED
    BY <1>2, <2>2, <2>3
<1>5. CASE board.ranks = 4 /\ board.perModule = 2
  <2>1. Module(0) = 0 /\ Module(1) = 0 /\ Module(2) = 1 /\ Module(3) = 1
    BY <1>5 DEF Module
  <2>2. Ranks = {0, 1, 2, 3}
    BY <1>5 DEF Ranks
  <2>3. \A m \in {Module(x) : x \in Ranks} \ {Module(r)} : m = 1 - Module(r)
    BY <2>1, <2>2
  <2>4. CASE r \in {0, 2}
    <3>1. OdtWrite(r) = {0, 2}
      BY <1>5, <2>4 DEF OdtWrite
    <3>2. OdtRead(r) = {2 - r}
      BY <1>5, <2>4 DEF OdtRead
    <3>3. /\ {x \in OdtRead(r) : Module(x) = 1 - Module(r)} = {2 - r}
          /\ {x \in OdtWrite(r) : Module(x) = 1 - Module(r)} = {2 - r}
      BY <2>1, <2>4, <3>1, <3>2
    <3>4. r \notin OdtRead(r) /\ r \in OdtWrite(r)
      BY <2>4, <3>1, <3>2
    <3> QED
      BY <1>2, <2>3, <3>3, <3>4
  <2>5. CASE r \in {1, 3}
    <3>1. OdtWrite(r) = {1, 3}
      BY <1>5, <2>5 DEF OdtWrite
    <3>2. OdtRead(r) = {4 - r}
      BY <1>5, <2>5 DEF OdtRead
    <3>3. /\ {x \in OdtRead(r) : Module(x) = 1 - Module(r)} = {4 - r}
          /\ {x \in OdtWrite(r) : Module(x) = 1 - Module(r)} = {4 - r}
      BY <2>1, <2>5, <3>1, <3>2
    <3>4. r \notin OdtRead(r) /\ r \in OdtWrite(r)
      BY <2>5, <3>1, <3>2
    <3> QED
      BY <1>2, <2>3, <3>3, <3>4
  <2> QED
    BY <2>2, <2>4, <2>5
<1>6. \/ board.ranks = board.perModule
      \/ board.ranks = 2 /\ board.perModule = 1
      \/ board.ranks = 4 /\ board.perModule = 2
  BY <1>1
<1> QED
  BY <1>3, <1>4, <1>5, <1>6
-----------------------------------------------------------------------------
(* Every step keeps the invariant.                                         *)

(* Terminations depend on the board only.                                  *)
LEMMA TerminationStays ==
    ASSUME board \in Boards, board' = board, NEW r \in Live
    PROVE  ReadWrite(r)' = ReadWrite(r)
<1>1. board.ranks \in {1, 2, 4} /\ r \in 0 .. 3 /\ Ranks' = Ranks
  BY BoardAssumption, LiveIs DEF Ranks
<1>2. OdtRead(r)' = OdtRead(r)
  <2>1. CASE board.ranks = 1
    <3>1. OdtRead(r) = {}
      BY <2>1 DEF OdtRead
    <3>2. OdtRead(r)' = {}
      BY <2>1 DEF OdtRead
    <3> QED
      BY <3>1, <3>2
  <2>2. CASE board.ranks = 2
    <3>1. OdtRead(r) = IF board.perModule = 1 THEN Ranks \ {r} ELSE {}
      BY <2>2 DEF OdtRead
    <3>2. OdtRead(r)' = IF board.perModule = 1 THEN Ranks \ {r} ELSE {}
      BY <1>1, <2>2 DEF OdtRead
    <3> QED
      BY <3>1, <3>2
  <2>3. CASE board.ranks = 4
    <3> DEFINE t == IF r = 0 THEN {2} ELSE IF r = 1 THEN {3} ELSE IF r = 2 THEN {0} ELSE {1}
    <3>1. OdtRead(r) = t
      BY <1>1, <2>3 DEF OdtRead
    <3>2. OdtRead(r)' = t
      BY <1>1, <2>3 DEF OdtRead
    <3> QED
      BY <3>1, <3>2
  <2> QED
    BY <1>1, <2>1, <2>2, <2>3
<1>3. OdtWrite(r)' = OdtWrite(r)
  <2>1. CASE board.ranks = 1
    <3>1. OdtWrite(r) = {0}
      BY <2>1 DEF OdtWrite
    <3>2. OdtWrite(r)' = {0}
      BY <2>1 DEF OdtWrite
    <3> QED
      BY <3>1, <3>2
  <2>2. CASE board.ranks = 2
    <3>1. OdtWrite(r) = IF board.perModule = 1 THEN Ranks ELSE {r}
      BY <2>2 DEF OdtWrite
    <3>2. OdtWrite(r)' = IF board.perModule = 1 THEN Ranks ELSE {r}
      BY <1>1, <2>2 DEF OdtWrite
    <3> QED
      BY <3>1, <3>2
  <2>3. CASE board.ranks = 4
    <3>1. OdtWrite(r) = IF r \in {0, 2} THEN {0, 2} ELSE {1, 3}
      BY <2>3 DEF OdtWrite
    <3>2. OdtWrite(r)' = IF r \in {0, 2} THEN {0, 2} ELSE {1, 3}
      BY <2>3 DEF OdtWrite
    <3> QED
      BY <3>1, <3>2
  <2> QED
    BY <1>1, <2>1, <2>2, <2>3
<1> QED
  BY <1>2, <1>3 DEF ReadWrite

LEMMA CourseStep ==
    ASSUME EngineTypeOK, Course, Play, running'
    PROVE  Course'
BY CourseMode, CourseWrite, CourseOther
-----------------------------------------------------------------------------

LEMMA BodyWithin ==
    ASSUME NEW E, NEW F, E \subseteq F
    PROVE  Body(E) \subseteq Body(F)
BY DEF Body

(* What a register write does to the pins.                                 *)
LEMMA PinsOf ==
    ASSUME NEW w, Effect(w)
    PROVE  /\ w \in Body(Entries) => selected' = selected /\ odt' = odt
           /\ \A r : w = SelectOff(r) => selected' = {r}
           /\ \A r : w = SelectReadWrite(r) => selected' = {r} /\ odt' = ReadWrite(r)
<1>1. ASSUME w \in Body(Entries) PROVE selected' = selected /\ odt' = odt
  <2>1. w.op \in {"cntr", "jump", "run", "phy"}
    BY <1>1 DEF Body, PhyReg
  <2> QED
    BY <2>1 DEF Effect, pinVars
<1>2. ASSUME NEW r, w = SelectOff(r) PROVE selected' = {r}
  <2>1. w.op = "odt_off" /\ w.val = r
    BY <1>2 DEF SelectOff
  <2> QED
    BY <2>1 DEF Effect, Select
<1>3. ASSUME NEW r, w = SelectReadWrite(r) PROVE selected' = {r} /\ odt' = ReadWrite(r)
  <2>1. w.op = "odt_read_write" /\ w.val = r
    BY <1>3 DEF SelectReadWrite
  <2> QED
    BY <2>1 DEF Effect, Select
<1> QED
  BY <1>1, <1>2, <1>3

(* After each of its writes, the pins of a part are as it has set them.    *)
LEMMA PinsWrite ==
    ASSUME CallsInv, PinsInv, Write, NEW c \in Parts, c = Head(calls)
    PROVE  /\ c.proc \in OffProcs => selected' = {c.rank}
           /\ c.proc \in OdtProcs => selected' = {c.rank} /\ odt' = ReadWrite(c.rank)
<1> DEFINE s == Writes(c)
<1>1. /\ board \in Boards /\ calls # <<>> /\ Effect(s[at]) /\ at \in 1 .. Len(s)
      /\ c.rank \in Nat
  <2>1. calls # <<>> /\ Effect(s[at])
    BY DEF Write
  <2>2. at \in 1 .. Len(s)
    BY <2>1, NextWrite
  <2> QED
    BY <2>1, <2>2 DEF CallsInv, Parts
<1>2. ASSUME NEW E, E \subseteq Entries, NEW w, Led(s, w, E)
      PROVE  (at = 1 /\ s[at] = w) \/ (at > 1 /\ s[at] \in Body(Entries))
  <2>1. s[1] = w /\ \A i \in 2 .. Len(s) : s[i] \in Body(E)
    BY <1>2 DEF Led
  <2>2. Body(E) \subseteq Body(Entries)
    <3>1. E \subseteq Entries
      BY <1>2
    <3> QED
      BY <3>1, BodyWithin
  <2>3. at = 1 \/ (at \in 2 .. Len(s) /\ at > 1)
    BY <1>1
  <2>4. at \in 2 .. Len(s) => s[at] \in Body(E)
    BY <2>1
  <2> HIDE DEF s
  <2> QED
    BY <2>1, <2>2, <2>3, <2>4
<1>3. ASSUME c.proc \in OffProcs PROVE selected' = {c.rank}
  <2>1. Led(s, SelectOff(c.rank), OffRuns)
    BY <1>1, <1>3, OffPart
  <2>2. CASE at = 1 /\ s[at] = SelectOff(c.rank)
    BY <1>1, <2>2, PinsOf
  <2>3. CASE at > 1 /\ s[at] \in Body(Entries)
    <3>1. selected = {c.rank}
      BY <1>3, <2>3 DEF PinsInv
    <3>2. selected' = selected
      BY <1>1, <2>3, PinsOf
    <3> QED
      BY <3>1, <3>2
  <2> QED
    BY <1>2, <2>1, <2>2, <2>3, RunsWithin
<1>4. ASSUME c.proc \in OdtProcs PROVE selected' = {c.rank} /\ odt' = ReadWrite(c.rank)
  <2>1. Led(s, SelectReadWrite(c.rank), Bursts)
    BY <1>1, <1>4, OdtPart
  <2>2. CASE at = 1 /\ s[at] = SelectReadWrite(c.rank)
    BY <1>1, <2>2, PinsOf
  <2>3. CASE at > 1 /\ s[at] \in Body(Entries)
    <3>1. selected = {c.rank} /\ odt = ReadWrite(c.rank)
      BY <1>4, <2>3 DEF PinsInv, OnRank
    <3>2. selected' = selected /\ odt' = odt
      BY <1>1, <2>3, PinsOf
    <3> QED
      BY <3>1, <3>2
  <2> QED
    BY <1>2, <2>1, <2>2, <2>3, RunsWithin
<1> QED
  BY <1>3, <1>4

(* A run is sent to a rank that its commands may be sent to.               *)
LEMMA RunTo ==
    ASSUME CallsInv, PinsInv, ClearInv, Write, NEW c \in Parts, c = Head(calls),
           Writes(c)[at].op = "run"
    PROVE  LET a == Writes(c)[at].val
           IN a \notin Holds \cup Idles =>
                 \E r \in Live : selected = {r} /\ (a \in Bursts => odt = ReadWrite(r))
<1> DEFINE s == Writes(c)
           a == s[at].val
<1>1. /\ board \in Boards /\ calls # <<>> /\ at \in 1 .. Len(s) /\ c.rank \in Nat
      /\ c.proc \in Procs /\ (c.proc \in OffProcs \cup OdtProcs => c.rank \in Live)
      /\ at >= 1 /\ at \in Nat
  <2>1. calls # <<>>
    BY DEF Write
  <2>2. at \in 1 .. Len(s)
    BY <2>1, NextWrite
  <2> QED
    BY <2>1, <2>2 DEF CallsInv, Parts, Addressed
<1>2. ASSUME NEW E, NEW w, w.op # "run", Led(s, w, E)
      PROVE  at > 1 /\ a \in E
  <2>1. s[1] = w /\ \A i \in 2 .. Len(s) : s[i] \in Body(E)
    BY <1>2 DEF Led
  <2>2. at # 1
    BY <1>2, <2>1
  <2>3. at \in 2 .. Len(s) /\ at > 1
    BY <1>1, <2>2
  <2>4. s[at] \in Body(E)
    BY <2>1, <2>3
  <2> QED
    BY <2>3, <2>4 DEF Body, PhyReg
<1>3. \A r : /\ SelectOff(r).op # "run" /\ SelectReadWrite(r).op # "run"
             /\ SelectAll.op # "run"
  BY DEF SelectOff, SelectReadWrite, SelectAll
<1>4. ASSUME c.proc \in OffProcs
      PROVE  \E r \in Live : selected = {r} /\ a \notin Bursts
  <2>1. Led(s, SelectOff(c.rank), OffRuns)
    BY <1>1, <1>4, OffPart
  <2>2. at > 1 /\ a \in OffRuns
    BY <1>2, <1>3, <2>1
  <2>3. selected = {c.rank}
    BY <1>4, <2>2 DEF PinsInv
  <2>4. a \notin Bursts
    BY <2>2 DEF OffRuns, Bursts, WriteTests, Modes, Idles, Rows, IDLE_LOOP1, IDLE_LOOP2,
       ACTIVATE_0_AND_1, PRECHARGE_ALL, GUARANTEED_WRITE, GUARANTEED_READ, READ_B2B,
       CLEAR_DQS_ENABLE, WRITE_WL_1, WRITE, DmBlock
  <2> QED
    BY <1>1, <1>4, <2>3, <2>4
<1>5. ASSUME c.proc \in OdtProcs
      PROVE  \E r \in Live : selected = {r} /\ odt = ReadWrite(r)
  <2>1. Led(s, SelectReadWrite(c.rank), Bursts)
    BY <1>1, <1>5, OdtPart
  <2>2. at > 1
    BY <1>2, <1>3, <2>1
  <2>3. OnRank(c.rank)
    BY <1>5, <2>2 DEF PinsInv
  <2> QED
    BY <1>1, <1>5, <2>3 DEF OnRank
<1>6. ASSUME c.proc = "reset" PROVE a \in Holds \cup Idles
  <2>1. Led(s, SelectAll, ResetRuns)
    BY <1>1, <1>6, OtherParts
  <2> QED
    BY <1>2, <1>3, <2>1 DEF ResetRuns
<1>7. ASSUME c.proc = "clear" PROVE \E r \in Live : selected = {r} /\ odt = ReadWrite(r)
  <2>1. Len(s) = 2 /\ s[2] = SelectOff(0)
    BY <1>1, <1>7, OtherParts
  <2>2. at = 1
    BY <1>1, <1>3, <2>1
  <2>3. 1 \in 1 .. Len(calls) /\ calls[1] = c
    BY <1>1 DEF CallsInv
  <2>4. \E r \in Live : OnRank(r)
    BY <1>7, <2>2, <2>3 DEF ClearInv
  <2> QED
    BY <2>4 DEF OnRank
<1>8. c.proc # "odt_off"
  <2>1. ASSUME c.proc = "odt_off" PROVE FALSE
    <3>1. Len(s) = 1 /\ s[1] = SelectOff(0)
      BY <1>1, <2>1, OtherParts
    <3>2. at = 1
      BY <1>1, <3>1
    <3> QED
      BY <1>3, <3>1, <3>2
  <2> QED
    BY <2>1
<1> HIDE DEF s, a
<1>9. a \notin Holds \cup Idles =>
         \E r \in Live : selected = {r} /\ (a \in Bursts => odt = ReadWrite(r))
  BY <1>1, <1>4, <1>5, <1>6, <1>7, <1>8 DEF Procs
<1> QED
  BY <1>9 DEF a, s

(* The invariants of the commands, in each kind of step.                   *)
LEMMA RunKept ==
    ASSUME CallsInv, RunInv, running', [CNext]_vars, selected' = selected, odt' = odt,
           Play \/ UNCHANGED engineVars
    PROVE  Course' /\ Addressee'
<1>1. /\ running /\ board \in Boards /\ EngineTypeOK /\ label' = label
      /\ board' = board /\ Live' = Live
  <2>1. running /\ label' = label
    BY GoesOn DEF engineVars, Play, Return, Advance, Jump, Exhaust
  <2> QED
    BY <2>1, BoardStays DEF CallsInv
<1>2. Course'
  <2>1. CASE Play
    BY <1>1, <2>1, CourseStep DEF RunInv
  <2>2. CASE UNCHANGED engineVars
    <3>1. Course
      BY <1>1 DEF RunInv
    <3> QED
      BY <2>2, <3>1 DEF engineVars, Course, Skipping
  <2> QED
    BY <2>1, <2>2
<1>3. Addressee'
  <2>1. Addressee
    BY <1>1 DEF RunInv
  <2>2. ASSUME label \notin Holds \cup Idles
        PROVE  \E r \in Live : selected' = {r} /\ (label \in Bursts => odt' = ReadWrite(r)')
    BY <1>1, <2>1, <2>2, TerminationStays DEF Addressee
  <2> QED
    BY <1>1, <2>2 DEF Addressee
<1> QED
  BY <1>2, <1>3

LEMMA ProcedureStep ==
    ASSUME CommandInv, Procedures, CallsInv'
    PROVE  CommandInv'
<1>1. board \in Boards
  BY DEF CommandInv, CallsInv
<1>2. PICK from, to, parts : Steps(from, to, parts) /\ Clears(parts)
  BY <1>1, Begins
<1>3. /\ ~running /\ calls = <<>> /\ calls' = parts /\ at' = at /\ at = 1 /\ running' = running
      /\ parts \in Seq(Parts)
  BY <1>2 DEF Steps, Call, engineVars, CommandInv, CallsInv
<1>4. RegisterInv'
  <2>1. PICK s : s = Writes(Head(calls))'
    OBVIOUS
  <2>2. Register(s, 0)'
    BY RegisterStart
  <2>3. at' - 1 = 0
    BY <1>3
  <2>4. Register(Writes(Head(calls)), at - 1)'
    BY <2>1, <2>2, <2>3
  <2> QED
    BY <1>3, <2>4 DEF RegisterInv
<1>5. PinsInv'
  BY <1>3 DEF PinsInv
<1>6. ClearInv'
  BY <1>2, <1>3 DEF ClearInv, Clears
<1>7. RunInv'
  BY <1>3 DEF RunInv
<1> QED
  BY <1>4, <1>5, <1>6, <1>7 DEF CommandInv

LEMMA ClockedStep ==
    ASSUME CommandInv, Clocked \/ UNCHANGED vars, CallsInv'
    PROVE  CommandInv'
<1>1. /\ CallsInv /\ RegisterInv /\ PinsInv /\ ClearInv /\ RunInv
      /\ board \in Boards /\ EngineTypeOK /\ at \in Nat \ {0} /\ calls \in Seq(Parts)
  BY DEF CommandInv, CallsInv
<1>2. /\ calls' = calls /\ at' = at /\ selected' = selected /\ odt' = odt
      /\ Play \/ UNCHANGED engineVars
      /\ [CNext]_vars
  BY DEF Clocked, vars, cpuVars, pinVars, CNext
<1>3. board' = board /\ Live' = Live
  BY <1>1, <1>2, BoardStays
<1>4. ASSUME NEW r \in Live PROVE ReadWrite(r)' = ReadWrite(r)
  BY <1>1, <1>3, TerminationStays
<1>5. ASSUME NEW c \in Parts, c.proc \in OdtProcs PROVE c.rank \in Live
  BY <1>5 DEF Parts, Addressed
<1>6. ASSUME calls # <<>>
      PROVE  /\ Register(Writes(Head(calls)), at - 1)'
             /\ running' /\ at > 1 => Writes(Head(calls))'[at - 1].op = "run"
  <2>1. PICK s, n : s = Writes(Head(calls)) /\ n = at - 1
    OBVIOUS
  <2>2. Head(calls) \in Parts /\ s \in Seq(Fits) /\ n \in 0 .. Len(s)
    BY <1>1, <1>6, <2>1, NextWrite
  <2>3. Writes(Head(calls))' = s
    <3>1. PICK c \in Parts : c = Head(calls)
      BY <2>2
    <3>2. c.proc \in Procs
      BY DEF Parts
    <3>3. Writes(c)' = Writes(c)
      BY <1>3, <3>2, SameWrites
    <3>4. c = Head(calls')
      BY <1>2, <3>1
    <3>5. Writes(c)' = Writes(Head(calls))'
      BY <3>4
    <3> QED
      BY <2>1, <3>1, <3>3, <3>5
  <2>4. Register(s, n) /\ (running /\ n > 0 => s[n].op = "run")
    BY <1>1, <1>6, <2>1 DEF RegisterInv
  <2>5. Register(s, n)'
    <3>1. CASE UNCHANGED engineVars
      BY <2>4, <3>1 DEF engineVars, Register
    <3>2. CASE n = 0
      BY <3>2, RegisterStart
    <3>3. CASE Play /\ n # 0
      <4>1. running /\ jump' = jump
        BY <3>3, PlayKeeps DEF Play, Return, Advance, Jump, Exhaust
      <4>2. n \in 1 .. Len(s) /\ s[n].op = "run"
        BY <2>2, <2>4, <3>3, <4>1
      <4>3. \A c, v : ~Loaded(s, n, c, v)
        BY <2>2, <4>2, LoadedFrom
      <4> QED
        BY <2>4, <4>1, <4>3 DEF Register
    <3> QED
      BY <1>2, <3>1, <3>2, <3>3
  <2>6. running' => running
    BY <1>2 DEF engineVars, Play, Return, Advance, Jump, Exhaust
  <2>7. Register(Writes(Head(calls)), at - 1)'
    <3>1. n = at' - 1
      BY <1>2, <2>1
    <3> QED
      BY <2>3, <2>5, <3>1
  <2> QED
    BY <1>1, <1>2, <2>1, <2>3, <2>4, <2>6, <2>7
<1>7. RegisterInv'
  BY <1>2, <1>6 DEF RegisterInv
<1>8. PinsInv'
  <2>1. ASSUME at > 1
        PROVE  /\ Head(calls).proc \in OffProcs => selected' = {Head(calls).rank}
               /\ Head(calls).proc \in OdtProcs =>
                     selected' = {Head(calls).rank} /\ odt' = ReadWrite(Head(calls).rank)'
    <3>1. Head(calls) \in Parts
      <4>1. calls # <<>>
        BY <1>1, <2>1 DEF CallsInv
      <4> QED
        BY <1>1, <4>1, NextWrite
    <3>2. PICK c \in Parts : c = Head(calls)
      BY <3>1
    <3>3. /\ c.proc \in OffProcs => selected' = {c.rank}
          /\ c.proc \in OdtProcs => selected' = {c.rank} /\ odt' = ReadWrite(c.rank)
      BY <1>1, <1>2, <2>1, <3>2 DEF PinsInv, OnRank
    <3>4. c.proc \in OdtProcs => ReadWrite(c.rank)' = ReadWrite(c.rank)
      BY <1>4, <1>5
    <3>5. c = Head(calls')
      BY <1>2, <3>2
    <3> QED
      BY <1>2, <3>2, <3>3, <3>4, <3>5
  <2> QED
    BY <1>2, <2>1 DEF PinsInv, OnRank
<1>9. ClearInv'
  <2>1. ASSUME NEW r \in Live, OnRank(r) PROVE OnRank(r)'
    BY <1>2, <1>4, <2>1 DEF OnRank
  <2> QED
    BY <1>1, <1>2, <1>3, <2>1 DEF ClearInv
<1>10. RunInv'
  BY <1>1, <1>2, RunKept DEF RunInv
<1> QED
  BY <1>7, <1>8, <1>9, <1>10 DEF CommandInv

LEMMA WriteStep ==
    ASSUME CommandInv, Write, CallsInv'
    PROVE  CommandInv'
<1>1. /\ CallsInv /\ RegisterInv /\ PinsInv /\ ClearInv /\ RunInv
      /\ board \in Boards /\ EngineTypeOK /\ at \in Nat \ {0} /\ calls \in Seq(Parts)
      /\ calls # <<>> /\ ~running /\ [CNext]_vars
  BY DEF CommandInv, CallsInv, Write, CNext
<1>2. board' = board /\ Live' = Live
  BY <1>1, BoardStays
<1>3. PICK c \in Parts : c = Head(calls)
  BY <1>1, NextWrite
<1>4. c.proc \in Procs /\ (c.proc \in OffProcs \cup OdtProcs => c.rank \in Live)
  BY DEF Parts, Addressed
<1>5. PICK s : s = Writes(c)
  OBVIOUS
<1>6. /\ s \in Seq(Fits) /\ Len(s) \in Nat /\ at \in 1 .. Len(s)
      /\ s[at] \in Fits /\ Ready(s, at) /\ Effect(s[at])
      /\ Register(s, at - 1)
  <2>1. s = Writes(Head(calls))
    BY <1>3, <1>5
  <2>2. /\ s \in Seq(Fits) /\ Len(s) \in Nat /\ at \in 1 .. Len(s)
        /\ s[at] \in Fits /\ Ready(s, at)
    BY <1>1, <2>1, NextWrite
  <2>3. Effect(s[at])
    BY <2>1 DEF Write
  <2>4. Register(s, at - 1)
    BY <1>1, <2>1 DEF RegisterInv
  <2> QED
    BY <2>2, <2>3, <2>4
<1>7. \/ at < Len(s) /\ at' = at + 1 /\ calls' = calls
      \/ at = Len(s) /\ at' = 1 /\ calls' = Tail(calls)
  BY <1>3, <1>5, <1>6 DEF Write
<1>8. Writes(c)' = s
  BY <1>2, <1>4, <1>5, SameWrites
<1>9. /\ s[at].op = "run" => Course' /\ running' /\ label' = s[at].val
      /\ s[at].op # "run" => ~running'
  <2>1. PICK n : n = at
    OBVIOUS
  <2>2. n \in 1 .. Len(s) /\ Register(s, n - 1) /\ Effect(s[n]) /\ Ready(s, n)
    BY <1>6, <2>1
  <2>3. s[n].op = "run" => Course' /\ running' /\ label' = s[n].val
    BY <1>1, <1>6, <2>2, CourseRun
  <2>4. s[n].op # "run" => running' = running
    BY <2>2 DEF Effect, Select, LoadCntr, LoadJump, engineVars
  <2> QED
    BY <1>1, <2>1, <2>3, <2>4
<1>10. /\ c.proc \in OffProcs => selected' = {c.rank}
       /\ c.proc \in OdtProcs => selected' = {c.rank} /\ odt' = ReadWrite(c.rank)'
  BY <1>1, <1>2, <1>3, <1>4, PinsWrite, TerminationStays
<1>11. RegisterInv'
  <2>1. CASE at < Len(s) /\ at' = at + 1 /\ calls' = calls
    <3>1. PICK n : n = at
      OBVIOUS
    <3>2. n \in 1 .. Len(s) /\ Register(s, n - 1) /\ Effect(s[n]) /\ at' - 1 = n
      BY <1>6, <2>1, <3>1
    <3>3. Register(s, n)'
      BY <1>1, <1>6, <3>2, RegisterWrite
    <3>4. c = Head(calls')
      BY <1>3, <2>1
    <3>5. Writes(Head(calls))' = s
      BY <1>8, <3>4
    <3>6. Register(Writes(Head(calls)), at - 1)'
      BY <3>2, <3>3, <3>5
    <3>7. running' => s[n].op = "run"
      BY <1>9, <3>1
    <3> QED
      BY <3>2, <3>5, <3>6, <3>7 DEF RegisterInv
  <2>2. CASE at' = 1
    <3>1. PICK t : t = Writes(Head(calls))'
      OBVIOUS
    <3>2. Register(t, 0)' /\ at' - 1 = 0
      BY <2>2, RegisterStart
    <3>3. Register(Writes(Head(calls)), at - 1)'
      BY <3>1, <3>2
    <3> QED
      BY <2>2, <3>3 DEF RegisterInv
  <2> QED
    BY <1>7, <2>1, <2>2
<1>12. PinsInv'
  <2>1. CASE at' = 1
    BY <2>1 DEF PinsInv
  <2>2. CASE calls' = calls
    <3>1. c = Head(calls')
      BY <1>3, <2>2
    <3>2. ReadWrite(c.rank)' = ReadWrite(Head(calls).rank)'
      BY <3>1
    <3> QED
      BY <1>10, <3>1, <3>2 DEF PinsInv, OnRank
  <2> QED
    BY <1>7, <2>1, <2>2
<1>13. ClearInv'
  <2>1. CASE at < Len(s) /\ at' = at + 1 /\ calls' = calls
    <3>1. at' # 1
      BY <1>1, <2>1
    <3>2. \A i \in 1 .. Len(calls) :
             calls[i].proc = "clear" => i = 1 \/ calls[i - 1].proc \in ReadProcs
      BY <1>1 DEF ClearInv
    <3> QED
      BY <2>1, <3>1, <3>2 DEF ClearInv
  <2>2. CASE at' = 1 /\ calls' = Tail(calls)
    <3>1. /\ Len(calls) \in Nat \ {0} /\ Len(calls') = Len(calls) - 1 /\ c = calls[1]
          /\ \A i \in 1 .. Len(calls') : calls'[i] = calls[i + 1]
      BY <1>1, <1>3, <2>2
    <3>2. ASSUME NEW i \in 1 .. Len(calls'), calls'[i].proc = "clear"
          PROVE  IF i = 1 THEN \E r \in Live' : OnRank(r)'
                          ELSE calls'[i - 1].proc \in ReadProcs
      <4>1. i + 1 \in 1 .. Len(calls) /\ i + 1 # 1 /\ (i + 1) - 1 = i
            /\ calls[i + 1].proc = "clear"
        BY <3>1, <3>2
      <4>2. calls[i].proc \in ReadProcs
        BY <1>1, <4>1 DEF ClearInv
      <4>3. CASE i = 1
        <5>1. c.proc \in OdtProcs
          BY <3>1, <4>2, <4>3 DEF OdtProcs
        <5>2. c.rank \in Live' /\ selected' = {c.rank} /\ odt' = ReadWrite(c.rank)'
          BY <1>2, <1>4, <1>10, <5>1
        <5>3. OnRank(c.rank)'
          BY <5>2 DEF OnRank
        <5> QED
          BY <4>3, <5>2, <5>3
      <4>4. CASE i # 1
        <5>1. i - 1 \in 1 .. Len(calls') /\ (i - 1) + 1 = i
          BY <3>1, <4>4
        <5>2. calls'[i - 1] = calls[i]
          BY <3>1, <5>1
        <5> QED
          BY <4>2, <4>4, <5>2
      <4> QED
        BY <4>3, <4>4
    <3> QED
      BY <2>2, <3>2 DEF ClearInv
  <2> QED
    BY <1>7, <2>1, <2>2
<1>14. RunInv'
  <2>1. CASE s[at].op = "run"
    <3>1. selected' = selected /\ odt' = odt
      BY <1>6, <2>1 DEF Effect, pinVars
    <3>2. LET a == s[at].val
          IN a \notin Holds \cup Idles =>
                \E r \in Live : selected = {r} /\ (a \in Bursts => odt = ReadWrite(r))
      BY <1>1, <1>3, <1>5, <2>1, RunTo
    <3>3. \A r \in Live : ReadWrite(r)' = ReadWrite(r)
      BY <1>1, <1>2, TerminationStays
    <3>4. label' = s[at].val
      BY <1>9, <2>1
    <3>5. Addressee'
      BY <1>2, <3>1, <3>2, <3>3, <3>4 DEF Addressee
    <3> QED
      BY <1>9, <2>1, <3>5 DEF RunInv
  <2>2. CASE s[at].op # "run"
    BY <1>9, <2>2 DEF RunInv
  <2> QED
    BY <2>1, <2>2
<1> QED
  BY <1>11, <1>12, <1>13, <1>14 DEF CommandInv

LEMMA CommandStep == CommandInv /\ [CNext]_vars => CommandInv'
<1> SUFFICES ASSUME CommandInv, [CNext]_vars PROVE CommandInv'
  OBVIOUS
<1>1. CallsInv'
  BY CallsStep DEF CommandInv
<1> QED
  BY <1>1, ProcedureStep, WriteStep, ClockedStep DEF CNext

LEMMA CommandInit == CInit => CommandInv
<1> SUFFICES ASSUME CInit PROVE CommandInv
  OBVIOUS
<1>1. CallsInv /\ calls = <<>> /\ at = 1 /\ ~running
  BY CallsInit DEF CInit, Init
<1>2. Len(calls) = 0
  BY <1>1
<1> QED
  BY <1>1, <1>2 DEF CommandInv, RegisterInv, PinsInv, ClearInv, RunInv

(* The property, from the run and the rank it is sent to.                  *)
LEMMA RightFrom == CommandInv => RightRank
<1> SUFFICES ASSUME CommandInv, running, Command.kind \notin Quiet
             PROVE  \E r \in Live :
                       /\ selected = {r}
                       /\ Command.kind \in {"read", "write"} =>
                             /\ r \in Terminated <=> Command.kind = "write"
                             /\ \A m \in {Module(x) : x \in Ranks} \ {Module(r)} :
                                   Cardinality({x \in Terminated : Module(x) = m}) = 1
  BY DEF RightRank, Quiet
<1>1. board \in Boards /\ Course /\ Addressee
  BY DEF CommandInv, CallsInv, RunInv
<1>2. /\ label \notin Holds \cup Idles
      /\ Command.kind \in {"read", "write"} => label \in Bursts
  BY <1>1, Kinds DEF Course
<1>3. PICK r \in Live : selected = {r} /\ (label \in Bursts => odt = ReadWrite(r))
  BY <1>1, <1>2 DEF Addressee
<1>4. ASSUME Command.kind \in {"read", "write"}
      PROVE  Terminated = IF Command.kind = "read" THEN OdtRead(r) ELSE OdtWrite(r)
  BY <1>2, <1>3, <1>4 DEF Terminated, ReadWrite
<1>5. r \in Ranks
  BY <1>1, LiveIs
<1>6. /\ r \notin OdtRead(r) /\ r \in OdtWrite(r)
      /\ \A m \in {Module(x) : x \in Ranks} \ {Module(r)} :
            /\ Cardinality({x \in OdtRead(r) : Module(x) = m}) = 1
            /\ Cardinality({x \in OdtWrite(r) : Module(x) = m}) = 1
  BY <1>1, <1>5, Terminations
<1>7. CASE Command.kind = "read"
  <2>1. Terminated = OdtRead(r)
    BY <1>4, <1>7
  <2> QED
    BY <1>3, <1>6, <1>7, <2>1
<1>8. CASE Command.kind = "write"
  <2>1. Terminated = OdtWrite(r)
    BY <1>4, <1>8
  <2> QED
    BY <1>3, <1>6, <1>8, <2>1
<1>9. CASE Command.kind \notin {"read", "write"}
  BY <1>3, <1>9
<1> QED
  BY <1>7, <1>8, <1>9

(* After the broadcast of the reset, commands go to one rank at a time,    *)
(* never to one that is skipped; a rank is never terminated while it is    *)
(* read, and always while it is written, and one rank of the other module  *)
(* is in both cases: for every board that set_rank_and_odt_mask knows.     *)
THEOREM CommandsToRank == CSpec => []RightRank
BY CommandInit, CommandStep, RightFrom, PTL DEF CSpec
-----------------------------------------------------------------------------
(* The memory: its ranks, from the reset to the hand-off.                  *)

(* w is among the first n elements of s.                                   *)
Given(s, n, w) == \E j \in 1 .. n : s[j] = w

(* The labels of ZQ calibration, and of the last mode register of a rank   *)
(* that is handed off.                                                     *)
ZQCL == 6
UserModes == {7, 12}
HandRuns == Modes \cup Idles \cup {PRECHARGE_ALL}

(* What a record of a rank has.                                            *)
Fields == {"wlat", "tinit", "treset", "mirrored", "phase", "held", "last", "mr0", "open",
           "since", "cell", "flight", "dqs"}

DramInv == \A r \in Ranks : DOMAIN dram[r] = Fields

(* A burst is under way in a run that may write only.                      *)
FlightInv == label \notin Bursts => \A r \in Ranks : dram[r].flight = {}

(* The reset comes before every rank is initialised.                       *)
FirstInv ==
    /\ \A i \in 2 .. Len(calls) : calls[i].proc # "reset"
    /\ calls # <<>> /\ Head(calls).proc = "reset" =>
          \A r \in Live : \E i \in 2 .. Len(calls) : calls[i] = Part("initialize", r)

(* A rank that is not calibrated yet waits for ZQ calibration, or is about *)
(* to get it; while the memory is held in reset, all ranks wait.           *)
Waiting(r) ==
    \E i \in 1 .. Len(calls) :
        /\ calls[i] = Part("initialize", r)
        /\ i = 1 => ~Given(Writes(Head(calls)), at - 1, RunReg(ZQCL))

AboutTo(r, as) == running /\ label \in as /\ ip = label /\ selected = {r}

PhaseInv ==
    /\ running /\ label \in Holds => \A r \in Live : Waiting(r)
    /\ stage # "start" =>
          \A r \in Live :
              Waiting(r) \/ AboutTo(r, {ZQCL}) \/ dram[r].phase = "calibrated"

(* In the hand-off a rank waits for its part, whose first run closes its   *)
(* rows; or is about to get the last of its mode registers; or has got it, *)
(* and only returns.                                                       *)
ToHandOff(r) ==
    \E i \in 1 .. Len(calls) :
        /\ calls[i] = Part("handoff", r)
        /\ i = 1 /\ at > 2 => dram[r].open = {} \/ AboutTo(r, {PRECHARGE_ALL})

InUse(r) ==
    /\ dram[r].open = {} /\ dram[r].last = 0 /\ dram[r].mr0 = "user"
    /\ label \in HandRuns
    /\ running /\ selected = {r} => ip = RETURN

HandInv ==
    stage = "done" =>
        /\ \A i \in 1 .. Len(calls) : calls[i].proc = "handoff"
        /\ running => label \in HandRuns
        /\ \A r \in Live :
              \/ ToHandOff(r)
              \/ AboutTo(r, UserModes) /\ dram[r].open = {}
              \/ InUse(r)

MemoryInv == CommandInv /\ DramInv /\ FlightInv /\ FirstInv /\ PhaseInv /\ HandInv
-----------------------------------------------------------------------------
(* What a step does to a rank, and what the runs send.                     *)

(* What a clock does to a rank, and what a pause.                          *)
LEMMA ClockIs ==
    ASSUME NEW d, DOMAIN d = Fields, NEW c, NEW bus
    PROVE  LET e == Clock(d, c, bus)
           IN /\ DOMAIN e = Fields
              /\ e.phase = PhaseAfter(d, c)
              /\ e.last = IF c.kind = "mrs" THEN c.mr ELSE d.last
              /\ e.mr0 = IF c.kind = "mrs" /\ c.mr = 0 THEN c.value ELSE d.mr0
              /\ c.kind = "pre" => e.open = {}
              /\ c.kind \notin {"pre", "act"} => e.open = d.open
              /\ d.flight = {} /\ c.kind # "write" => e.flight = {}
<1> DEFINE flying == Flying(d, c, bus)
           Done(f) == f.age = d.wlat + Burst
           v1 == [x \in Events |-> IF x = EventOf(d, c) THEN 1 ELSE Later(d, 1)[x]]
           v2 == {f \in flying : ~Done(f)}
           v3 == [x \in Cells |->
                    IF \E f \in flying : Done(f) /\ f.at = x
                    THEN (CHOOSE f \in flying : Done(f) /\ f.at = x).got
                    ELSE d.cell[x]]
           v4 == IF c.kind = "mrs" THEN c.mr ELSE d.last
           v5 == IF c.kind = "mrs" /\ c.mr = 0 THEN c.value ELSE d.mr0
           v6 == PhaseAfter(d, c)
           v7 == IF PhaseAfter(d, c) # d.phase THEN 1
                 ELSE IF d.held < d.tinit + d.treset THEN d.held + 1 ELSE d.held
           v8 == CASE c.kind = "pre" -> {}
                   [] c.kind = "act" -> d.open \cup {c.bank}
                   [] OTHER -> d.open
           v9 == bus.dqs
           e == Clock(d, c, bus)
<1>1. e = [d EXCEPT !.since = v1, !.flight = v2, !.cell = v3, !.dqs = v9, !.last = v4,
                    !.mr0 = v5, !.phase = v6, !.held = v7, !.open = v8]
  BY Zenon DEF Clock
<1>2. /\ c.kind = "pre" => v8 = {}
      /\ c.kind \notin {"pre", "act"} => v8 = d.open
  OBVIOUS
<1>3. d.flight = {} /\ c.kind # "write" => v2 = {}
  BY DEF Flying
<1> HIDE DEF v1, v2, v3, v4, v5, v6, v7, v8, v9, e
<1>4. /\ DOMAIN e = Fields /\ e.phase = v6 /\ e.last = v4 /\ e.mr0 = v5 /\ e.open = v8
      /\ e.flight = v2
  BY <1>1 DEF Fields
<1> QED
  BY <1>2, <1>3, <1>4 DEF v4, v5, v6, e

LEMMA QuietenIs ==
    ASSUME NEW d, DOMAIN d = Fields, NEW n
    PROVE  LET e == Quieten(d, n)
           IN /\ DOMAIN e = Fields /\ e.flight = {}
              /\ e.phase = d.phase /\ e.last = d.last /\ e.mr0 = d.mr0 /\ e.open = d.open
<1> DEFINE v1 == Later(d, n)
           v2 == [x \in Cells |-> IF \E f \in d.flight : f.at = x THEN "garbage" ELSE d.cell[x]]
           e == Quieten(d, n)
<1>1. e = [d EXCEPT !.since = v1, !.flight = {}, !.dqs = FALSE, !.cell = v2]
  BY Zenon DEF Quieten
<1> HIDE DEF v1, v2, e
<1> QED
  BY <1>1 DEF Fields, e

(* A calibrated rank stays so, unless it is reset.                         *)
LEMMA StaysCalibrated ==
    ASSUME NEW d, NEW c
    PROVE  /\ d.phase = "calibrated" /\ c.kind \notin {"reset", "cke_low"} =>
                 PhaseAfter(d, c) = "calibrated"
           /\ c.kind = "zqcl" => PhaseAfter(d, c) = "calibrated"
<1>1. ASSUME d.phase = "calibrated", c.kind \notin {"reset", "cke_low"}
      PROVE  PhaseAfter(d, c) = "calibrated"
  BY <1>1 DEF PhaseAfter
<1>2. ASSUME c.kind = "zqcl" PROVE PhaseAfter(d, c) = "calibrated"
  BY <1>2 DEF PhaseAfter
<1> QED
  BY <1>1, <1>2
-----------------------------------------------------------------------------
(* The commands of single instructions.                                    *)
LEMMA WordsOf ==
    /\ Decode(AcWord(ZQCL)).kind = "zqcl"
    /\ Decode(AcWord(PRECHARGE_ALL)).kind = "pre"
    /\ Decode(AcWord(RETURN)).kind = "none"
    /\ \A a \in UserModes :
          /\ Decode(AcWord(a)).kind = "mrs" /\ Decode(AcWord(a)).mr = 0
          /\ Decode(AcWord(a)).value = "user"
<1>1. ASSUME NEW a \in 1 .. 19 PROVE AcWord(a) = FirstWords[a + 1]
  BY WordAt DEF AcWord
<1>2. /\ AcWord(6) = "zqcl" /\ AcWord(18) = "pre_all" /\ AcWord(1) = "des"
      /\ AcWord(7) = "mrs0_user" /\ AcWord(12) = "mrs0_user_mirr"
  <2>1. /\ FirstWords[7] = "zqcl" /\ FirstWords[19] = "pre_all" /\ FirstWords[2] = "des"
        /\ FirstWords[8] = "mrs0_user" /\ FirstWords[13] = "mrs0_user_mirr"
    BY DEF FirstWords
  <2> QED
    BY <1>1, <2>1
<1>3. Decode("zqcl").kind = "zqcl" /\ Decode("pre_all").kind = "pre" /\ Decode("des").kind = "none"
  BY DEF Decode, At, NoCommand
<1>4. /\ Decode("mrs0_user") = Mrs(0, "user", FALSE)
      /\ Decode("mrs0_user_mirr") = Mrs(0, "user", TRUE)
  BY DEF Decode
<1>5. \A m : Mrs(0, "user", m).kind = "mrs" /\ Mrs(0, "user", m).mr = 0
             /\ Mrs(0, "user", m).value = "user"
  BY DEF Mrs, NoCommand
<1> QED
  BY <1>2, <1>3, <1>4, <1>5 DEF ZQCL, PRECHARGE_ALL, RETURN, UserModes

LEMMA IdleWords ==
    ASSUME NEW a \in 122 .. 124
    PROVE  Decode(AcWord(a)).kind = "none"
<1>1. a - 72 \in 1 .. 54 /\ AcWord(a) = LastWords[a - 72]
  <2>1. a - 72 \in 1 .. 54 /\ 73 + (a - 72) = a + 1
    OBVIOUS
  <2> QED
    BY <2>1, WordAt DEF AcWord
<1>2. LastWords[a - 72] = "des"
  BY DEF LastWords
<1>3. Decode("des").kind = "none"
  BY DEF Decode, NoCommand
<1> QED
  BY <1>1, <1>2, <1>3

(* No row is opened in the hand-off.                                       *)
LEMMA ModeWords ==
    ASSUME NEW a \in (1 .. 12) \cup {18, 19}
    PROVE  Decode(AcWord(a)).kind \in {"none", "mrs", "zqcl", "pre"}
<1>1. a + 1 \in 1 .. 33 /\ AcWord(a) = FirstWords[a + 1]
  BY WordAt DEF AcWord
<1>2. FirstWords[a + 1] \in {"des", "mrs0_dll_reset", "mrs1", "mrs2", "mrs3", "zqcl", "mrs0_user",
         "mrs0_dll_reset_mirr", "mrs1_mirr", "mrs2_mirr", "mrs3_mirr", "mrs0_user_mirr", "pre_all"}
  BY DEF FirstWords
<1> DEFINE w == AcWord(a)
<1>3. w \in {"des", "mrs0_dll_reset", "mrs1", "mrs2", "mrs3", "zqcl", "mrs0_user",
         "mrs0_dll_reset_mirr", "mrs1_mirr", "mrs2_mirr", "mrs3_mirr", "mrs0_user_mirr", "pre_all"}
  BY <1>1, <1>2
<1> HIDE DEF w
<1>4. Decode(w).kind \in {"none", "mrs", "zqcl", "pre"}
  BY <1>3 DEF Decode, At, Mrs, NoCommand
<1> QED
  BY <1>4 DEF w

(* The middle of the ROM: what is written and read there, twice.           *)
LEMMA MiddleWords ==
    ASSUME NEW i \in 34 .. 73
    PROVE  AcWords[i] \in {WriteReadWords[j] : j \in 1 .. 20}
<1> DEFINE f == FirstWords
           w == WriteReadWords
           z == LastWords
           fw == f \o w
           fww == fw \o w
           acs == fww \o z
<1>1. f \in Seq(Words) /\ w \in Seq(Words) /\ z \in Seq(Words)
  BY WordsAre
<1>2. Len(f) = 33 /\ Len(w) = 20 /\ Len(z) = 54
  BY WordsAre
<1>3. AcWords = acs
  BY Zenon DEF AcWords, acs, fww, fw, f, w, z
<1> HIDE DEF f, w, z
<1>4. /\ fw \in Seq(Words) /\ Len(fw) = Len(f) + Len(w)
      /\ \A k \in 1 .. Len(w) : fw[Len(f) + k] = w[k]
  BY <1>1, Joined
<1> HIDE DEF fw
<1>5. /\ fww \in Seq(Words) /\ Len(fww) = Len(fw) + Len(w)
      /\ \A k \in 1 .. Len(fw) : fww[k] = fw[k]
      /\ \A k \in 1 .. Len(w) : fww[Len(fw) + k] = w[k]
  <2>1. fw \in Seq(Words) /\ w \in Seq(Words)
    BY <1>1, <1>4
  <2> QED
    BY <2>1, Joined
<1> HIDE DEF fww
<1>6. \A k \in 1 .. Len(fww) : acs[k] = fww[k]
  BY <1>1, <1>5, Joined
<1> HIDE DEF acs
<1>7. Len(fw) = 53
  BY <1>2, <1>4
<1>8. Len(fww) = 73
  BY <1>2, <1>5, <1>7
<1>9. acs[i] = fww[i]
  BY <1>6, <1>8
<1>10. CASE i \in 34 .. 53
  <2>1. PICK j \in 1 .. 20 : i = 33 + j
    <3>1. i - 33 \in 1 .. 20 /\ i = 33 + (i - 33)
      BY <1>10
    <3> QED
      BY <3>1
  <2>2. fw[i] = w[j]
    BY <1>2, <1>4, <2>1
  <2>3. i \in 1 .. 53
    BY <1>10
  <2>4. fww[i] = fw[i]
    BY <1>5, <1>7, <2>3
  <2> QED
    BY <1>3, <1>9, <2>2, <2>4 DEF w
<1>11. CASE i \in 54 .. 73
  <2>1. PICK j \in 1 .. 20 : i = 53 + j
    <3>1. i - 53 \in 1 .. 20 /\ i = 53 + (i - 53)
      BY <1>11
    <3> QED
      BY <3>1
  <2>2. fww[i] = w[j]
    BY <1>2, <1>5, <1>7, <2>1
  <2> QED
    BY <1>3, <1>9, <2>2 DEF w
<1> QED
  BY <1>10, <1>11

(* No reset among what is played from the rows on to the reads.            *)
LEMMA BurstWords ==
    ASSUME NEW a \in 13 .. 110
    PROVE  Decode(AcWord(a)).kind \notin {"reset", "cke_low"}
<1> DEFINE w == AcWord(a)
           S == {"des", "nop", "act_0", "act_1", "pre_all", "ref", "des_odt_1", "write_predata",
                 "write_data", "write_postdata", "write_bank_0_col_0", "write_bank_0_col_1",
                 "write_bank_1_col_0", "write_bank_1_col_1", "write_bank_0_col_0_nodata",
                 "write_bank_0_col_0_nodata_wl_1", "read_en", "read_bank_0_0", "read_bank_0_1",
                 "read_bank_1_0", "read_bank_1_1", "read_bank_0_1_norden"}
<1> HIDE DEF S
<1>1. ASSUME a \in 13 .. 32 PROVE w \in S
  <2>1. a + 1 \in 1 .. 33 /\ w = FirstWords[a + 1]
    BY <1>1, WordAt DEF AcWord
  <2>2. FirstWords[a + 1] \in S
    BY <1>1 DEF FirstWords, S
  <2> QED
    BY <2>1, <2>2
<1>2. ASSUME a \in 33 .. 72 PROVE w \in S
  <2>1. a + 1 \in 34 .. 73
    BY <1>2
  <2>2. PICK j \in 1 .. 20 : w = WriteReadWords[j]
    BY <2>1, MiddleWords DEF AcWord
  <2>3. WriteReadWords[j] \in S
    BY DEF WriteReadWords, S
  <2> QED
    BY <2>2, <2>3
<1>3. ASSUME a \in 73 .. 110 PROVE w \in S
  <2>1. a - 72 \in 1 .. 54 /\ 73 + (a - 72) = a + 1
    BY <1>3
  <2>2. w = LastWords[a - 72]
    BY <2>1, WordAt DEF AcWord
  <2>3. LastWords[a - 72] \in S
    BY <1>3 DEF LastWords, S
  <2> QED
    BY <2>2, <2>3
<1>4. w \in S
  BY <1>1, <1>2, <1>3
<1> HIDE DEF w
<1>5. Decode(w).kind \notin {"reset", "cke_low"}
  BY <1>4 DEF S, Decode, At, Mrs, NoCommand
<1> QED
  BY <1>5 DEF w

(* What a run sends to a rank, by its label.                               *)
LEMMA KindsSent ==
    ASSUME label \in Entries, ip \in Block(label)
    PROVE  /\ label \notin Bursts => Command.kind # "write"
           /\ label \notin Holds => Command.kind \notin {"reset", "cke_low"}
           /\ label \in HandRuns => Command.kind # "act"
           /\ label \in Idles => Command.kind = "none"
<1> USE DEF WRITE_WL_1, WRITE, DmBlock, ACTIVATE_0_AND_1, PRECHARGE_ALL, GUARANTEED_WRITE,
        CLEAR_DQS_ENABLE, GUARANTEED_READ, READ_B2B, INIT_RESET_0_CKE_0, INIT_RESET_1_CKE_0,
        IDLE_LOOP2, IDLE_LOOP1
<1>1. ASSUME label \in Idles PROVE Command.kind = "none"
  <2>1. ip \in 122 .. 124
    BY <1>1 DEF Block, Idles, Modes
  <2> QED
    BY <2>1, IdleWords DEF Command
<1>2. ASSUME label \in Modes \cup {PRECHARGE_ALL}
      PROVE  Command.kind \in {"none", "mrs", "zqcl", "pre"}
  <2>1. ip \in (1 .. 12) \cup {18, 19}
    BY <1>2 DEF Block, Modes, RETURN
  <2> QED
    BY <2>1, ModeWords DEF Command
<1>3. ASSUME label \notin Bursts PROVE Command.kind # "write"
  BY <1>3, Kinds DEF Quiet
<1>4. ASSUME label \in Bursts \cup Rows PROVE Command.kind \notin {"reset", "cke_low"}
  <2>1. CASE label \in Bursts
    <3>1. ip \in (24 .. 32) \cup (33 .. 52) \cup (53 .. 72) \cup (73 .. 110)
      BY <2>1 DEF Block, Bursts, WriteTests, Modes
    <3>2. ip \in 13 .. 110
      BY <3>1
    <3> QED
      BY <3>2, BurstWords DEF Command
  <2>2. CASE label \in Rows
    <3>1. ip \in (13 .. 17) \cup (18 .. 19)
      BY <2>2 DEF Block, Rows, Modes
    <3>2. ip \in 13 .. 110
      BY <3>1
    <3> QED
      BY <3>2, BurstWords DEF Command
  <2> QED
    BY <1>4, <2>1, <2>2
<1> QED
  BY <1>1, <1>2, <1>3, <1>4 DEF Entries, HandRuns
-----------------------------------------------------------------------------
(* The parts that initialise a rank and hand it off.                       *)

(* What a concatenation ends with, and what it runs.                       *)
LEMMA LastOf ==
    ASSUME NEW S, NEW s \in Seq(S), NEW t \in Seq(S), Len(t) >= 1
    PROVE  (s \o t)[Len(s \o t)] = t[Len(t)] /\ Len(s \o t) >= Len(t) /\ Len(s \o t) >= 1
<1> DEFINE u == s \o t
<1>1. /\ Len(u) = Len(s) + Len(t) /\ Len(s) \in Nat /\ Len(t) \in Nat
      /\ \A i \in 1 .. Len(t) : u[Len(s) + i] = t[i]
  BY Joined
<1> HIDE DEF u
<1>2. Len(t) \in 1 .. Len(t)
  BY <1>1
<1> QED
  BY <1>1, <1>2 DEF u

LEMMA GivenJoin ==
    ASSUME NEW S, NEW s \in Seq(S), NEW t \in Seq(S), NEW w,
           Given(s, Len(s), w) \/ Given(t, Len(t), w)
    PROVE  Given(s \o t, Len(s \o t), w)
<1> DEFINE u == s \o t
<1>1. /\ Len(u) = Len(s) + Len(t) /\ Len(s) \in Nat /\ Len(t) \in Nat
      /\ \A i \in 1 .. Len(s) : u[i] = s[i]
      /\ \A i \in 1 .. Len(t) : u[Len(s) + i] = t[i]
  BY Joined
<1> HIDE DEF u
<1>2. CASE Given(s, Len(s), w)
  <2>1. PICK j \in 1 .. Len(s) : s[j] = w
    BY <1>2 DEF Given
  <2>2. j \in 1 .. Len(u) /\ u[j] = w
    BY <1>1, <2>1
  <2> QED
    BY <2>2 DEF Given, u
<1>3. CASE Given(t, Len(t), w)
  <2>1. PICK j \in 1 .. Len(t) : t[j] = w
    BY <1>3 DEF Given
  <2>2. Len(s) + j \in 1 .. Len(u) /\ u[Len(s) + j] = w
    BY <1>1, <2>1
  <2> QED
    BY <2>2 DEF Given, u
<1> QED
  BY <1>2, <1>3

(* The load of a mode register ends with its run.                          *)
LEMMA LoadModeRuns ==
    ASSUME NEW a \in 2 .. 12
    PROVE  /\ LoadMode(a)[Len(LoadMode(a))] = RunReg(a) /\ Len(LoadMode(a)) >= 1
           /\ Given(LoadMode(a), Len(LoadMode(a)), RunReg(a))
<1> DEFINE s == Loop(0, MaxCntr, RETURN)
           t == <<RunReg(a)>>
           S == Body({a})
           u == s \o t
<1>1. 0 \in Cntrs /\ MaxCntr \in 0 .. MaxCntr /\ RETURN \in Addresses
  BY CntrAssumption DEF Cntrs, Addresses, RETURN
<1>2. s \in Seq(Body({}))
  BY <1>1, LoopIs
<1>3. Body({}) \subseteq S /\ RunReg(a) \in S
  BY DEF Body, RunReg
<1>4. s \in Seq(S)
  BY <1>2, <1>3, SeqMonotonic
<1>5. t \in Seq(S) /\ Len(t) = 1 /\ t[1] = RunReg(a)
  BY <1>3
<1>6. LoadMode(a) = u
  BY Zenon DEF LoadMode, set_jump_as_return, u, s, t
<1> HIDE DEF s, t, S
<1>7. Given(t, Len(t), RunReg(a))
  <2>1. 1 \in 1 .. Len(t)
    BY <1>5
  <2> QED
    BY <1>5, <2>1 DEF Given
<1>8. u[Len(u)] = t[Len(t)] /\ Len(u) >= 1
  <2>1. s \in Seq(S) /\ t \in Seq(S) /\ Len(t) >= 1
    BY <1>4, <1>5
  <2> QED
    BY <2>1, LastOf
<1>9. Given(u, Len(u), RunReg(a))
  BY <1>4, <1>5, <1>7, GivenJoin
<1> HIDE DEF u
<1> QED
  BY <1>5, <1>6, <1>8, <1>9

LEMMA ProgHandModes ==
    ASSUME NEW E, Idles \cup Modes \subseteq E
    PROVE  \A a \in 2 .. 12 : Prog(LoadMode(a), E) /\ Prog(ModeThenDelay(a), E)
<1> TAKE a \in 2 .. 12
<1>1. a \in Modes /\ a \in E /\ Idles \subseteq E /\ MaxCntr >= 255
  BY Constants DEF Modes
<1> QED
  BY <1>1, ProgMode, ProgModeDelay

LEMMA HandRunsAre ==
    /\ Idles \cup Modes \subseteq HandRuns /\ PRECHARGE_ALL \in HandRuns
    /\ HandRuns \subseteq Entries /\ HandRuns \cap Bursts = {} /\ HandRuns \cap Holds = {}
    /\ PRECHARGE_ALL \notin Modes \cup WriteTests /\ UserModes \subseteq Modes
BY DEF HandRuns, Entries, Rows, Bursts, Holds, Modes, Idles, WriteTests, UserModes, PRECHARGE_ALL,
       GUARANTEED_WRITE, CLEAR_DQS_ENABLE, GUARANTEED_READ, READ_B2B, INIT_RESET_0_CKE_0,
       INIT_RESET_1_CKE_0, IDLE_LOOP1, IDLE_LOOP2, WRITE_WL_1, WRITE, DmBlock

(* The hand-off of a rank closes its rows first, and ends with the load of *)
(* mode register 0.                                                        *)
LEMMA HandOffWrites ==
    ASSUME board \in Boards, NEW c, c.proc = "handoff", c.rank \in Nat
    PROVE  LET s == Writes(c)
           IN /\ Led(s, SelectOff(c.rank), HandRuns)
              /\ Len(s) > 2 /\ s[2] = RunReg(PRECHARGE_ALL)
              /\ \E a \in UserModes : s[Len(s)] = RunReg(a)
<1> DEFINE r == c.rank
           E == HandRuns
           S == Body(E)
           xa == ModeThenDelay(10) \o ModeThenDelay(11) \o ModeThenDelay(9)
           xb == ModeThenDelay(4) \o ModeThenDelay(5) \o ModeThenDelay(3)
           a == xa \o LoadMode(12)
           b == xb \o LoadMode(7)
           m == IF r \in board.mirrored THEN a ELSE b
           p == <<RunReg(PRECHARGE_ALL)>>
           t == p \o m
           x == <<SelectOff(r)>>
<1>1. \A n \in 2 .. 12 : Prog(LoadMode(n), E) /\ Prog(ModeThenDelay(n), E)
  BY HandRunsAre, ProgHandModes
<1>2. Prog(xa, E) /\ Prog(xb, E)
  <2>1. Prog(ModeThenDelay(10) \o ModeThenDelay(11), E) /\ Prog(ModeThenDelay(4) \o ModeThenDelay(5), E)
    BY <1>1, ProgJoin
  <2> QED
    BY <1>1, <2>1, ProgJoin
<1> HIDE DEF xa, xb
<1>3. Prog(a, E) /\ Prog(b, E)
  BY <1>1, <1>2, ProgJoin
<1>4. /\ a[Len(a)] = RunReg(12) /\ Len(a) >= 1
      /\ b[Len(b)] = RunReg(7) /\ Len(b) >= 1
  <2>1. xa \in Seq(S) /\ xb \in Seq(S) /\ LoadMode(12) \in Seq(S) /\ LoadMode(7) \in Seq(S)
    BY <1>1, <1>2 DEF Prog
  <2>2. /\ LoadMode(12)[Len(LoadMode(12))] = RunReg(12) /\ Len(LoadMode(12)) >= 1
        /\ LoadMode(7)[Len(LoadMode(7))] = RunReg(7) /\ Len(LoadMode(7)) >= 1
    BY LoadModeRuns
  <2> HIDE DEF S
  <2> QED
    BY <2>1, <2>2, LastOf
<1> HIDE DEF a, b
<1>5. Prog(m, E) /\ Len(m) >= 1 /\ \E n \in UserModes : m[Len(m)] = RunReg(n)
  BY <1>3, <1>4 DEF UserModes
<1> HIDE DEF m
<1>6. Prog(p, E) /\ Len(p) = 1 /\ p[1] = RunReg(PRECHARGE_ALL)
  BY ProgRun, HandRunsAre, NeedsAre
<1> HIDE DEF p
<1>7. Prog(t, E)
  BY <1>5, <1>6, ProgJoin
<1>8. /\ t[Len(t)] = m[Len(m)] /\ Len(t) >= 2 /\ Len(t) \in Nat
      /\ t[1] = RunReg(PRECHARGE_ALL) /\ t \in Seq(S)
  <2>1. p \in Seq(S) /\ m \in Seq(S)
    BY <1>5, <1>6 DEF Prog
  <2> HIDE DEF S
  <2>2. t[Len(t)] = m[Len(m)]
    BY <1>5, <2>1, LastOf
  <2>3. /\ Len(t) = Len(p) + Len(m) /\ Len(m) \in Nat
        /\ \A i \in 1 .. Len(p) : t[i] = p[i]
    BY <2>1, Joined
  <2> HIDE DEF t
  <2>4. Len(t) >= 2 /\ Len(t) \in Nat /\ t[1] = p[1]
    BY <1>5, <1>6, <2>3
  <2>5. t \in Seq(S)
    BY <1>7 DEF Prog, S
  <2> QED
    BY <1>6, <2>2, <2>4, <2>5
<1>9. Writes(c) = x \o t
  <2>1. Writes(c) = HandOffRank(r)
    BY DEF Writes
  <2>2. HandOffRank(r) = x \o t
    BY Zenon DEF HandOffRank, x, t, p, m, a, b, xa, xb
  <2> QED
    BY <2>1, <2>2
<1>10. Led(x \o t, SelectOff(r), E)
  <2>1. SelectOff(r) \in Selects
    BY DEF SelectOff, Selects
  <2> HIDE DEF t
  <2> QED
    BY <1>7, <2>1, HandRunsAre, Leading
<1> HIDE DEF t
<1>11. /\ (x \o t)[Len(x \o t)] = t[Len(t)] /\ (x \o t)[2] = t[1] /\ Len(x \o t) > 2
  <2> DEFINE F == Fits
  <2>1. x \in Seq(F) /\ Len(x) = 1
    <3>1. SelectOff(r) \in F
      BY DEF SelectOff, Fits, Selects
    <3> HIDE DEF F
    <3> QED
      BY <3>1
  <2>2. t \in Seq(F)
    <3>1. S \subseteq F
      BY HandRunsAre DEF Body, Fits
    <3> HIDE DEF S, F
    <3> QED
      BY <1>8, <3>1, SeqMonotonic
  <2> HIDE DEF F, x
  <2>3. (x \o t)[Len(x \o t)] = t[Len(t)]
    BY <1>8, <2>1, <2>2, LastOf
  <2> DEFINE v == x \o t
  <2>4. /\ Len(v) = Len(x) + Len(t)
        /\ \A i \in 1 .. Len(t) : v[Len(x) + i] = t[i]
    <3>1. x \in Seq(F) /\ t \in Seq(F)
      BY <2>1, <2>2
    <3> QED
      BY <3>1, Joined
  <2> HIDE DEF v
  <2>5. 1 \in 1 .. Len(t) /\ Len(x) + 1 = 2
    BY <1>8, <2>1
  <2>6. v[2] = t[1]
    BY <2>4, <2>5
  <2>7. Len(v) > 2
    BY <1>8, <2>1, <2>4
  <2> QED
    BY <2>3, <2>6, <2>7 DEF v
<1> HIDE DEF x
<1> QED
  BY <1>5, <1>8, <1>9, <1>10, <1>11

(* The initialisation of a rank calibrates ZQ.                             *)
LEMMA InitializeWrites ==
    ASSUME NEW c, c.proc = "initialize"
    PROVE  Given(Writes(c), Len(Writes(c)), RunReg(ZQCL))
<1> DEFINE r == c.rank
           a == ModeThenDelay(10) \o ModeThenDelay(11) \o ModeThenDelay(9) \o LoadMode(8)
           b == ModeThenDelay(4) \o ModeThenDelay(5) \o LoadMode(3) \o LoadMode(2)
           m == IF r \in board.mirrored THEN a ELSE b
           z == LoadMode(6)
           d == delay_for_n_mem_clocks(512)
           mz == m \o z
           t == mz \o d
           x == <<SelectOff(r)>>
           S == Body(OffRuns)
           F == S \cup {SelectOff(r)}
<1>1. Prog(a, OffRuns) /\ Prog(b, OffRuns)
  BY ProgModes, ProgFour
<1>2. Prog(m, OffRuns)
  <2> HIDE DEF a, b
  <2> QED
    BY <1>1
<1>3. Prog(z, OffRuns) /\ Prog(d, OffRuns)
  BY ProgModes, ProgDelay, OffRunsAre, Constants
<1>4. Given(z, Len(z), RunReg(ZQCL))
  BY LoadModeRuns DEF ZQCL
<1>5. Writes(c) = x \o t
  <2>1. Writes(c) = InitializeRank(r)
    BY DEF Writes
  <2>2. InitializeRank(r) = x \o t
    BY Zenon DEF InitializeRank, m, t, mz, z, d, a, b, x
  <2> QED
    BY <2>1, <2>2
<1> HIDE DEF m, z, d
<1>6. Prog(mz, OffRuns)
  BY <1>2, <1>3, ProgJoin
<1>7. m \in Seq(S) /\ z \in Seq(S) /\ mz \in Seq(S) /\ d \in Seq(S)
  BY <1>2, <1>3, <1>6 DEF Prog
<1> HIDE DEF S
<1>8. Given(mz, Len(mz), RunReg(ZQCL))
  BY <1>4, <1>7, GivenJoin
<1> HIDE DEF mz
<1>9. Given(t, Len(t), RunReg(ZQCL))
  BY <1>7, <1>8, GivenJoin
<1>10. t \in Seq(S)
  BY <1>7, Joined
<1> HIDE DEF t
<1>11. x \in Seq(F) /\ t \in Seq(F)
  <2>1. S \subseteq F
    OBVIOUS
  <2>2. t \in Seq(F)
    BY <1>10, <2>1, SeqMonotonic
  <2> QED
    BY <2>2
<1> HIDE DEF x, F
<1>12. Given(x \o t, Len(x \o t), RunReg(ZQCL))
  BY <1>9, <1>11, GivenJoin
<1> QED
  BY <1>5, <1>12
-----------------------------------------------------------------------------
(* What the procedures begin with.                                         *)

(* A loop over the ranks reaches every rank that is not skipped.           *)
LEMMA ForRanksHas ==
    ASSUME board \in Boards, NEW p \in OffProcs \cup OdtProcs, NEW r \in Live
    PROVE  Given(ForRanks(p), Len(ForRanks(p)), Part(p, r))
<1> DEFINE x == Part(p, r)
           S == {Part(p, q) : q \in 0 .. 3}
           a == Of(p, 0)
           b == Of(p, 1)
           c == Of(p, 2)
           d == Of(p, 3)
           ab == a \o b
           abc == ab \o c
           s == abc \o d
<1>1. ASSUME NEW q \in 0 .. 3
      PROVE  /\ Of(p, q) \in Seq(S)
             /\ r = q => Given(Of(p, q), Len(Of(p, q)), x)
  <2>1. Part(p, q) \in S
    OBVIOUS
  <2> HIDE DEF S
  <2>2. CASE q \in Live
    <3>1. Of(p, q) = <<Part(p, q)>>
      BY <2>2 DEF Of
    <3>2. Of(p, q) \in Seq(S) /\ Len(Of(p, q)) = 1 /\ Of(p, q)[1] = Part(p, q)
      BY <2>1, <3>1
    <3> QED
      BY <3>2 DEF Given
  <2>3. CASE q \notin Live
    BY <2>3 DEF Of
  <2> QED
    BY <2>2, <2>3
<1>2. a \in Seq(S) /\ b \in Seq(S) /\ c \in Seq(S) /\ d \in Seq(S)
  BY <1>1
<1>3. \/ Given(a, Len(a), x) \/ Given(b, Len(b), x) \/ Given(c, Len(c), x) \/ Given(d, Len(d), x)
  <2>1. r = 0 \/ r = 1 \/ r = 2 \/ r = 3
    BY LiveIs
  <2> QED
    BY <1>1, <2>1
<1>4. ForRanks(p) = s
  BY Zenon DEF ForRanks, s, abc, ab, a, b, c, d
<1> HIDE DEF a, b, c, d, S, x
<1>5. /\ ab \in Seq(S)
      /\ Given(a, Len(a), x) \/ Given(b, Len(b), x) => Given(ab, Len(ab), x)
  BY <1>2, Joined, GivenJoin
<1> HIDE DEF ab
<1>6. /\ abc \in Seq(S)
      /\ Given(ab, Len(ab), x) \/ Given(c, Len(c), x) => Given(abc, Len(abc), x)
  BY <1>2, <1>5, Joined, GivenJoin
<1> HIDE DEF abc
<1>7. Given(abc, Len(abc), x) \/ Given(d, Len(d), x) => Given(s, Len(s), x)
  BY <1>2, <1>6, GivenJoin
<1> HIDE DEF s
<1>8. Given(s, Len(s), x)
  BY <1>3, <1>5, <1>6, <1>7
<1> QED
  BY <1>4, <1>8 DEF x

(* The reset belongs to the initialisation, and is followed by that of     *)
(* every rank.                                                             *)
LEMMA InitializeParts ==
    ASSUME board \in Boards
    PROVE  LET s == <<Part("reset", 0)>> \o ForRanks("initialize")
           IN /\ Len(s) \in Nat /\ Len(s) >= 2 /\ s[1].proc = "reset"
              /\ \A i \in 2 .. Len(s) : s[i].proc # "reset"
              /\ \A r \in Live : \E i \in 2 .. Len(s) : s[i] = Part("initialize", r)
<1> DEFINE t == ForRanks("initialize")
           x == <<Part("reset", 0)>>
           s == x \o t
<1>1. "initialize" \in OffProcs
  BY DEF OffProcs
<1>2. /\ t \in Seq(Parts) /\ Len(t) \in Nat /\ Len(t) >= 1
      /\ \A i \in 1 .. Len(t) : t[i].proc = "initialize"
  BY <1>1, ForRanksAre
<1>3. x \in Seq(Parts) /\ Len(x) = 1 /\ x[1].proc = "reset"
  <2>1. Part("reset", 0) \in Parts /\ Part("reset", 0).proc = "reset"
    BY PartIn DEF Part
  <2> QED
    BY <2>1
<1>4. \A r \in Live : Given(t, Len(t), Part("initialize", r))
  BY <1>1, ForRanksHas
<1> HIDE DEF t, x
<1>5. /\ Len(s) = Len(x) + Len(t)
      /\ \A i \in 1 .. Len(x) : s[i] = x[i]
      /\ \A i \in 1 .. Len(t) : s[Len(x) + i] = t[i]
  <2>1. x \in Seq(Parts) /\ t \in Seq(Parts)
    BY <1>2, <1>3
  <2> QED
    BY <2>1, Joined
<1> HIDE DEF s
<1>6. Len(s) \in Nat /\ Len(s) >= 2 /\ s[1] = x[1]
  BY <1>2, <1>3, <1>5
<1>7. ASSUME NEW i \in 2 .. Len(s) PROVE s[i].proc # "reset"
  <2>1. PICK j \in 1 .. Len(t) : i = 1 + j
    <3>1. i - 1 \in 1 .. Len(t) /\ i = 1 + (i - 1)
      BY <1>2, <1>3, <1>5
    <3> QED
      BY <3>1
  <2>2. s[i] = t[j]
    BY <1>3, <1>5, <2>1
  <2> QED
    BY <1>2, <2>2
<1>8. ASSUME NEW r \in Live PROVE \E i \in 2 .. Len(s) : s[i] = Part("initialize", r)
  <2>1. PICK j \in 1 .. Len(t) : t[j] = Part("initialize", r)
    BY <1>4 DEF Given
  <2>2. 1 + j \in 2 .. Len(s) /\ s[1 + j] = t[j]
    BY <1>2, <1>3, <1>5
  <2> QED
    BY <2>1, <2>2
<1> QED
  BY <1>3, <1>6, <1>7, <1>8 DEF s, x, t

LEMMA HandOffParts ==
    ASSUME board \in Boards
    PROVE  LET s == ForRanks("handoff")
           IN /\ \A i \in 1 .. Len(s) : s[i].proc = "handoff"
              /\ \A r \in Live : \E i \in 1 .. Len(s) : s[i] = Part("handoff", r)
<1>1. "handoff" \in OffProcs
  BY DEF OffProcs
<1> QED
  BY <1>1, ForRanksAre, ForRanksHas DEF Given

(* The other procedures come later, and hold no reset.                     *)
LEMMA NoReset ==
    ASSUME board \in Boards, NEW p \in OffProcs \cup OdtProcs, NEW q \in {"clear", "odt_off"}
    PROVE  /\ \A i \in 1 .. Len(ForRanks(p)) : ForRanks(p)[i].proc # "reset"
           /\ LET s == Append(ForRanks(p), Part(q, 0))
              IN \A i \in 1 .. Len(s) : s[i].proc # "reset"
<1> DEFINE t == ForRanks(p)
<1>1. t \in Seq(Parts) /\ Len(t) \in Nat /\ \A i \in 1 .. Len(t) : t[i].proc # "reset"
  BY ForRanksAre DEF OffProcs, OdtProcs, ReadProcs
<1>2. Part(q, 0).proc # "reset"
  BY DEF Part
<1> HIDE DEF t
<1>3. LET s == Append(t, Part(q, 0)) IN \A i \in 1 .. Len(s) : s[i].proc # "reset"
  <2> DEFINE x == Part(q, 0)
  <2> HIDE DEF x
  <2> QED
    BY <1>1, <1>2 DEF x
<1> QED
  BY <1>1, <1>3 DEF t

(* What a procedure makes of the phases.                                   *)
LEMMA Calls ==
    ASSUME board \in Boards, Procedures
    PROVE  \/ rw_mgr_mem_initialize
           \/ rw_mgr_mem_handoff
           \/ /\ stage # "start" /\ stage' # "done"
              /\ \A i \in 1 .. Len(calls') : calls'[i].proc # "reset"
<1>1. /\ {"activate", "handoff"} \subseteq OffProcs
      /\ {"load_patterns", "read_patterns", "read_test", "read_all", "write_test",
          "write_test_dm"} \subseteq OdtProcs
  BY DEF OffProcs, OdtProcs, ReadProcs
<1>2. ASSUME NEW from, NEW to, NEW p \in OffProcs \cup OdtProcs,
             NEW q \in {"clear", "odt_off"},
             "start" \notin from, to # "done",
             Call(from, to, ForRanks(p)) \/ Call(from, to, Append(ForRanks(p), Part(q, 0)))
      PROVE  /\ stage # "start" /\ stage' # "done"
             /\ \A i \in 1 .. Len(calls') : calls'[i].proc # "reset"
  BY <1>2, NoReset DEF Call
<1>3. CASE mem_config \/ mem_precharge_and_activate
  BY <1>1, <1>2, <1>3 DEF mem_config, mem_precharge_and_activate
<1>4. CASE load_patterns \/ lfifo_patterns
  BY <1>1, <1>2, <1>4 DEF load_patterns, lfifo_patterns
<1>5. CASE read_test_patterns \/ read_test \/ lfifo_read_test
  BY <1>1, <1>2, <1>5 DEF read_test_patterns, read_test, lfifo_read_test
<1>6. CASE \E p \in {"write_test", "write_test_dm"} : write_test(p)
  BY <1>1, <1>2, <1>6 DEF write_test
<1> QED
  BY <1>3, <1>4, <1>5, <1>6 DEF Procedures

(* The memory is held in reset by the reset only.                          *)
LEMMA HoldsInReset ==
    ASSUME board \in Boards, NEW c \in Parts, NEW n \in 1 .. Len(Writes(c)),
           NEW a \in Holds, Writes(c)[n] = RunReg(a)
    PROVE  c.proc = "reset"
<1> DEFINE s == Writes(c)
<1>1. ASSUME NEW E, NEW w, Led(s, w, E), w \in Selects, a \notin E PROVE FALSE
  <2>1. s[n].op = "run" /\ s[n].val = a
    BY DEF RunReg
  <2>2. n # 1
    BY <1>1, <2>1 DEF Led, Selects
  <2>3. s[n] \in Body(E)
    <3>1. Len(s) \in Nat
      BY PartIs
    <3> HIDE DEF s
    <3>2. n \in 2 .. Len(s)
      BY <2>2, <3>1 DEF s
    <3> QED
      BY <1>1, <3>2 DEF Led
  <2> QED
    BY <1>1, <2>1, <2>3 DEF Body, PhyReg
<1>2. a \notin OffRuns /\ a \notin Bursts /\ a # CLEAR_DQS_ENABLE
  BY DEF Holds, OffRuns, Modes, Idles, Rows, Bursts, WriteTests, WRITE_WL_1, WRITE, DmBlock,
         ACTIVATE_0_AND_1, PRECHARGE_ALL, GUARANTEED_WRITE, CLEAR_DQS_ENABLE, GUARANTEED_READ,
         READ_B2B, INIT_RESET_0_CKE_0, INIT_RESET_1_CKE_0, IDLE_LOOP2, IDLE_LOOP1
<1>3. c.proc \in Procs /\ c.rank \in Nat
  BY DEF Parts
<1>4. SelectOff(c.rank) \in Selects /\ SelectReadWrite(c.rank) \in Selects
  BY <1>3 DEF SelectOff, SelectReadWrite, Selects
<1>5. CASE c.proc \in OffProcs
  BY <1>1, <1>2, <1>3, <1>4, <1>5, OffPart
<1>6. CASE c.proc \in OdtProcs
  BY <1>1, <1>2, <1>3, <1>4, <1>6, OdtPart
<1>7. CASE c.proc = "clear"
  <2>1. Len(s) = 2 /\ s[1] = RunReg(CLEAR_DQS_ENABLE) /\ s[2] = SelectOff(0)
    BY <1>7, OtherParts
  <2>2. n = 1 \/ n = 2
    BY <2>1
  <2> QED
    BY <1>2, <2>1, <2>2 DEF RunReg, SelectOff
<1>8. CASE c.proc = "odt_off"
  <2>1. Len(s) = 1 /\ s[1] = SelectOff(0)
    BY <1>8, OtherParts
  <2>2. n = 1
    BY <2>1
  <2> QED
    BY <2>1, <2>2 DEF RunReg, SelectOff
<1> QED
  BY <1>3, <1>5, <1>6, <1>7, <1>8 DEF Procs

(* The load of a mode register returns at once.                            *)
LEMMA ModeReturns ==
    ASSUME EngineTypeOK, Course, label \in Modes, Play, running'
    PROVE  ip' = RETURN
<1>1. ip \notin Returns /\ Block(label) = {label, RETURN} /\ jump[0] = RETURN
  BY GoesOn, BlocksAre DEF Course
<1>2. ip = label
  BY <1>1, ModeJumps DEF Course
<1>3. /\ label \in JumpsOn(0) /\ \A c \in Cntrs : label \in JumpsOn(c) => c = 0
      /\ 0 \in Cntrs /\ cntr[0] # 0
  BY <1>2, ModeJumps DEF Course, Cntrs
<1> QED
  BY <1>1, <1>2, <1>3 DEF Play, Return, Advance, Jump, Exhaust
-----------------------------------------------------------------------------
(* The steps, invariant by invariant.                                      *)

(* What the steps do to a rank of the memory.                              *)
LEMMA WriteDram ==
    ASSUME DramInv, Write, NEW r \in Ranks
    PROVE  /\ DOMAIN dram'[r] = Fields /\ dram'[r].flight = {}
           /\ dram'[r].phase = dram[r].phase /\ dram'[r].last = dram[r].last
           /\ dram'[r].mr0 = dram[r].mr0 /\ dram'[r].open = dram[r].open
<1>1. dram'[r] = Quieten(dram[r], WriteClocks)
  BY DEF Write
<1>2. DOMAIN dram[r] = Fields
  BY DEF DramInv
<1> QED
  BY <1>1, <1>2, QuietenIs

(* What rank r gets in a clock.                                            *)
Sent(r) == IF r \in selected THEN Command ELSE NoCommand

LEMMA ClockDram ==
    ASSUME DramInv, Clocked, NEW r \in Ranks
    PROVE  LET d == dram[r]  e == dram'[r]  c == Sent(r)
           IN /\ DOMAIN e = Fields
              /\ e.phase = PhaseAfter(d, c)
              /\ e.last = IF c.kind = "mrs" THEN c.mr ELSE d.last
              /\ e.mr0 = IF c.kind = "mrs" /\ c.mr = 0 THEN c.value ELSE d.mr0
              /\ c.kind = "pre" => e.open = {}
              /\ c.kind \notin {"pre", "act"} => e.open = d.open
              /\ d.flight = {} /\ c.kind # "write" => e.flight = {}
<1>1. dram'[r] = Clock(dram[r], Sent(r), Bus(AcWord(ip), Data(ip)))
  BY DEF Clocked, Played, Sent
<1>2. DOMAIN dram[r] = Fields
  BY DEF DramInv
<1> QED
  BY <1>1, <1>2, ClockIs

LEMMA DramStep ==
    ASSUME CallsInv, DramInv, [CNext]_vars
    PROVE  DramInv' /\ Ranks' = Ranks
<1>1. board' = board
  BY BoardStays DEF CallsInv
<1>2. Ranks' = Ranks
  BY <1>1 DEF Ranks
<1>3. CASE Write
  BY <1>2, <1>3, WriteDram DEF DramInv
<1>4. CASE Clocked
  <2>1. \A r \in Ranks : DOMAIN dram'[r] = Fields
    BY <1>4, ClockDram
  <2> QED
    BY <1>2, <2>1 DEF DramInv
<1>5. CASE dram' = dram
  BY <1>2, <1>5 DEF DramInv
<1>6. Procedures => dram' = dram
  BY Begins DEF CallsInv, Steps, Call
<1> QED
  BY <1>2, <1>3, <1>4, <1>5, <1>6 DEF CNext, vars

(* A burst ends before the next register write.                            *)
LEMMA FlightStep ==
    ASSUME CommandInv, DramInv, FlightInv, [CNext]_vars
    PROVE  FlightInv'
<1>1. Ranks' = Ranks
  BY DramStep DEF CommandInv
<1>2. CASE Write
  BY <1>1, <1>2, WriteDram DEF FlightInv
<1>3. CASE Clocked
  <2>1. running /\ label' = label /\ Course
    BY <1>3 DEF Clocked, Play, Return, Advance, Jump, Exhaust, CommandInv, RunInv
  <2>2. ASSUME label \notin Bursts, NEW r \in Ranks PROVE dram'[r].flight = {}
    <3>1. Command.kind # "write"
      BY <2>1, <2>2, KindsSent DEF Course
    <3>2. NoCommand.kind # "write"
      BY DEF NoCommand
    <3>3. Sent(r).kind # "write"
      BY <3>1, <3>2 DEF Sent
    <3>4. dram[r].flight = {}
      BY <2>2 DEF FlightInv
    <3> QED
      BY <1>3, <3>3, <3>4, ClockDram
  <2> QED
    BY <1>1, <2>1, <2>2 DEF FlightInv
<1>4. CASE dram' = dram /\ label' = label
  BY <1>1, <1>4 DEF FlightInv
<1>5. Procedures => dram' = dram /\ label' = label
  BY Begins DEF CommandInv, CallsInv, Steps, Call, engineVars
<1> QED
  BY <1>2, <1>3, <1>4, <1>5 DEF CNext, vars, engineVars

-----------------------------------------------------------------------------
(* A register write, and where it leaves the CPU.                          *)
LEMMA WriteMoves ==
    ASSUME CommandInv, Write
    PROVE  \E c \in Parts, s \in Seq(Fits) :
              /\ c = Head(calls) /\ s = Writes(Head(calls)) /\ s = Writes(c) /\ c = calls[1]
              /\ Len(calls) \in Nat \ {0} /\ Len(s) \in Nat /\ at \in 1 .. Len(s)
              /\ c.proc \in OffProcs => c.rank \in Live /\ selected' = {c.rank}
              /\ s[at] \in Fits
              /\ s[at].op = "run" =>
                    running' /\ label' = s[at].val /\ ip' = s[at].val /\ s[at].val \in Entries
              /\ s[at].op # "run" => ~running' /\ label' = label
              /\ \/ /\ at < Len(s) /\ at' = at + 1 /\ calls' = calls
                    /\ Writes(Head(calls))' = s
                 \/ /\ at = Len(s) /\ at' = 1 /\ Len(calls') = Len(calls) - 1
                    /\ \A i \in 1 .. Len(calls') : calls'[i] = calls[i + 1]
<1>1. /\ CallsInv /\ PinsInv /\ board \in Boards /\ at \in Nat \ {0} /\ calls \in Seq(Parts)
      /\ calls # <<>> /\ ~running /\ [CNext]_vars
  BY DEF CommandInv, CallsInv, Write, CNext
<1>2. PICK c \in Parts : c = Head(calls)
  BY <1>1, NextWrite
<1>3. c.proc \in Procs /\ (c.proc \in OffProcs \cup OdtProcs => c.rank \in Live)
  BY DEF Parts, Addressed
<1>4. PICK s \in Seq(Fits) : s = Writes(Head(calls))
  BY <1>1, NextWrite
<1>5. /\ Len(s) \in Nat /\ at \in 1 .. Len(s) /\ s[at] \in Fits /\ Effect(s[at])
  BY <1>1, <1>4, NextWrite DEF Write
<1>6. s = Writes(c)
  BY <1>2, <1>4
<1>7. Writes(c)' = s
  <2>1. board' = board
    BY <1>1, BoardStays
  <2> QED
    BY <2>1, <1>3, <1>6, SameWrites
<1>8. c.proc \in OffProcs => c.rank \in Live /\ selected' = {c.rank}
  BY <1>1, <1>2, <1>3, PinsWrite
<1>9. /\ s[at].op = "run" =>
            running' /\ label' = s[at].val /\ ip' = s[at].val /\ s[at].val \in Entries
      /\ s[at].op # "run" => ~running' /\ label' = label
  <2>1. s[at].op = "run" => Run(s[at].val) /\ s[at].val \in Entries
    BY <1>5 DEF Effect, Fits, Body, Selects, PhyReg
  <2>2. s[at].op # "run" => running' = running /\ label' = label
    BY <1>5 DEF Effect, Select, LoadCntr, LoadJump, engineVars
  <2> QED
    BY <1>1, <2>1, <2>2 DEF Run
<1>10. Len(calls) \in Nat \ {0} /\ c = calls[1]
  BY <1>1, <1>2
<1>11. \/ /\ at < Len(s) /\ at' = at + 1 /\ calls' = calls
          /\ Writes(Head(calls))' = s
       \/ /\ at = Len(s) /\ at' = 1 /\ Len(calls') = Len(calls) - 1
          /\ \A i \in 1 .. Len(calls') : calls'[i] = calls[i + 1]
  <2>1. CASE at < Len(s)
    <3>1. at' = at + 1 /\ calls' = calls
      BY <1>4, <2>1 DEF Write
    <3>2. c = Head(calls')
      BY <1>2, <3>1
    <3>3. Writes(c)' = Writes(Head(calls))'
      BY <3>2
    <3> QED
      BY <1>7, <2>1, <3>1, <3>3
  <2>2. CASE ~(at < Len(s))
    <3>1. at' = 1 /\ calls' = Tail(calls)
      BY <1>4, <2>2 DEF Write
    <3>2. Len(calls') = Len(calls) - 1 /\ \A i \in 1 .. Len(calls') : calls'[i] = calls[i + 1]
      BY <1>1, <3>1
    <3> QED
      BY <1>5, <2>2, <3>1, <3>2
  <2> QED
    BY <2>1, <2>2
<1> QED
  BY <1>2, <1>4, <1>5, <1>6, <1>8, <1>9, <1>10, <1>11

(* A part that is not under way is not begun by the write.                 *)
LEMMA StillToDo ==
    ASSUME CommandInv, Write, NEW x, NEW i \in 2 .. Len(calls), calls[i] = x
    PROVE  \E j \in 1 .. Len(calls') : calls'[j] = x /\ (j = 1 => at' = 1)
<1>1. /\ Len(calls) \in Nat
      /\ \/ calls' = calls
         \/ /\ at' = 1 /\ Len(calls') = Len(calls) - 1
            /\ \A k \in 1 .. Len(calls') : calls'[k] = calls[k + 1]
  BY WriteMoves
<1>2. CASE calls' = calls
  BY <1>1, <1>2
<1>3. CASE /\ at' = 1 /\ Len(calls') = Len(calls) - 1
           /\ \A k \in 1 .. Len(calls') : calls'[k] = calls[k + 1]
  <2>1. i - 1 \in 1 .. Len(calls') /\ (i - 1) + 1 = i
    BY <1>1, <1>3
  <2>2. calls'[i - 1] = calls[(i - 1) + 1]
    BY <1>3, <2>1
  <2> QED
    BY <1>3, <2>1, <2>2
<1> QED
  BY <1>1, <1>2, <1>3

(* The reset comes first.                                                  *)
LEMMA FirstStep ==
    ASSUME CommandInv, FirstInv, [CNext]_vars
    PROVE  FirstInv'
<1>1. board \in Boards /\ Live' = Live
  BY BoardStays DEF CommandInv, CallsInv
<1>2. CASE Procedures
  <2>1. CASE rw_mgr_mem_initialize
    <3>1. calls' = <<Part("reset", 0)>> \o ForRanks("initialize")
      BY <2>1 DEF rw_mgr_mem_initialize, Call
    <3>2. /\ \A i \in 2 .. Len(calls') : calls'[i].proc # "reset"
          /\ \A r \in Live : \E i \in 2 .. Len(calls') : calls'[i] = Part("initialize", r)
      BY <1>1, <3>1, InitializeParts
    <3> QED
      BY <1>1, <3>2 DEF FirstInv
  <2>2. CASE \A i \in 1 .. Len(calls') : calls'[i].proc # "reset"
    <3>1. calls' \in Seq(Parts)
      BY <1>2, <1>1, Begins DEF Steps, Call
    <3>2. ASSUME calls' # <<>> PROVE Head(calls').proc # "reset"
      <4>1. 1 \in 1 .. Len(calls') /\ Head(calls') = calls'[1]
        BY <3>1, <3>2
      <4> QED
        BY <2>2, <4>1
    <3>3. \A i \in 2 .. Len(calls') : calls'[i].proc # "reset"
      BY <2>2, <3>1
    <3> QED
      BY <3>2, <3>3 DEF FirstInv
  <2>3. CASE rw_mgr_mem_handoff
    <3>1. calls' = ForRanks("handoff")
      BY <2>3 DEF rw_mgr_mem_handoff, Call
    <3>2. \A i \in 1 .. Len(calls') : calls'[i].proc # "reset"
      BY <1>1, <3>1, HandOffParts
    <3> QED
      BY <2>2, <3>2
  <2> QED
    BY <1>1, <1>2, <2>1, <2>2, <2>3, Calls
<1>3. CASE Write
  <2>1. /\ Len(calls) \in Nat
        /\ \/ calls' = calls
           \/ /\ Len(calls') = Len(calls) - 1
              /\ \A k \in 1 .. Len(calls') : calls'[k] = calls[k + 1]
    BY <1>3, WriteMoves
  <2>2. CASE calls' = calls
    BY <1>1, <2>2 DEF FirstInv
  <2>3. CASE /\ Len(calls') = Len(calls) - 1
             /\ \A k \in 1 .. Len(calls') : calls'[k] = calls[k + 1]
    <3>1. ASSUME NEW k \in 1 .. Len(calls') PROVE calls'[k].proc # "reset"
      <4>1. k + 1 \in 2 .. Len(calls)
        BY <2>1, <2>3
      <4> QED
        BY <2>3, <4>1 DEF FirstInv
    <3>2. calls' \in Seq(Parts)
      <4>1. CallsInv'
        BY <1>3, CallsStep DEF CommandInv, CNext
      <4>2. Parts' = Parts
        BY <1>1 DEF Parts
      <4> QED
        BY <4>1, <4>2 DEF CallsInv
    <3>3. ASSUME calls' # <<>> PROVE Head(calls').proc # "reset"
      <4>1. 1 \in 1 .. Len(calls') /\ Head(calls') = calls'[1]
        BY <3>2, <3>3
      <4> QED
        BY <3>1, <4>1
    <3>4. \A i \in 2 .. Len(calls') : calls'[i].proc # "reset"
      BY <3>1, <3>2
    <3> QED
      BY <3>3, <3>4 DEF FirstInv
  <2> QED
    BY <2>1, <2>2, <2>3
<1>4. CASE calls' = calls
  BY <1>1, <1>4 DEF FirstInv
<1> QED
  BY <1>2, <1>3, <1>4 DEF CNext, Clocked, vars, cpuVars
-----------------------------------------------------------------------------
(* How a part that waits is found.                                         *)
LEMMA WaitsNow ==
    ASSUME NEW r, NEW i \in 1 .. Len(calls'), calls'[i] = Part("initialize", r), i = 1 => at' = 1
    PROVE  Waiting(r)'
<1>1. i = 1 => ~Given(Writes(Head(calls)), at - 1, RunReg(ZQCL))'
  <2> SUFFICES ASSUME i = 1 PROVE ~Given(Writes(Head(calls)), at - 1, RunReg(ZQCL))'
    OBVIOUS
  <2>1. PICK s : s = Writes(Head(calls))'
    OBVIOUS
  <2>2. at' - 1 = 0
    OBVIOUS
  <2>3. ~Given(s, 0, RunReg(ZQCL))
    BY DEF Given
  <2> QED
    BY <2>1, <2>2, <2>3 DEF Given, RunReg, ZQCL
<1> QED
  BY <1>1 DEF Waiting, Part

LEMMA WaitsStill ==
    ASSUME NEW r, Waiting(r), calls' = calls, at' = at, Writes(Head(calls))' = Writes(Head(calls))
    PROVE  Waiting(r)'
<1>1. PICK i \in 1 .. Len(calls) :
         /\ calls[i] = Part("initialize", r)
         /\ i = 1 => ~Given(Writes(Head(calls)), at - 1, RunReg(ZQCL))
  BY DEF Waiting
<1>2. PICK s : s = Writes(Head(calls))
  OBVIOUS
<1>3. i = 1 => ~Given(Writes(Head(calls)), at - 1, RunReg(ZQCL))'
  BY <1>1, <1>2 DEF Given, RunReg, ZQCL
<1> QED
  BY <1>1, <1>3 DEF Waiting, Part

(* Meanwhile the CPU waits, and its writes stay.                           *)
LEMMA ClockWaits ==
    ASSUME CommandInv, Clocked \/ UNCHANGED vars
    PROVE  /\ calls' = calls /\ at' = at /\ stage' = stage /\ selected' = selected
           /\ Live' = Live /\ label' = label
           /\ calls # <<>> => Writes(Head(calls))' = Writes(Head(calls))
<1>1. /\ calls' = calls /\ at' = at /\ stage' = stage /\ selected' = selected /\ board' = board
      /\ label' = label
  BY DEF Clocked, vars, cpuVars, pinVars, engineVars, Play, Return, Advance, Jump, Exhaust
<1>2. Live' = Live
  BY <1>1 DEF Live, Ranks
<1>3. ASSUME calls # <<>> PROVE Writes(Head(calls))' = Writes(Head(calls))
  <2>1. PICK c \in Parts : c = Head(calls)
    BY <1>3, NextWrite DEF CommandInv
  <2>2. c.proc \in Procs
    BY DEF Parts
  <2>3. Writes(c)' = Writes(c)
    BY <1>1, <2>2, SameWrites
  <2>4. c = Head(calls')
    BY <1>1, <2>1
  <2>5. Writes(c)' = Writes(Head(calls))'
    BY <2>4
  <2> QED
    BY <2>1, <2>3, <2>5
<1> QED
  BY <1>1, <1>2, <1>3

(* A rank waits to be initialised, is about to be calibrated, or is.       *)
LEMMA PhaseProcedure ==
    ASSUME CommandInv, PhaseInv, Procedures
    PROVE  PhaseInv'
<1>1. board \in Boards /\ Live' = Live
  BY BoardStays DEF CommandInv, CallsInv, CNext
<1>2. /\ ~running /\ ~running' /\ calls = <<>> /\ at = 1 /\ at' = 1 /\ dram' = dram
      /\ calls' \in Seq(Parts)
  BY <1>1, Begins DEF Steps, Call, engineVars, CommandInv, CallsInv
<1>3. CASE rw_mgr_mem_initialize
  <2>1. calls' = <<Part("reset", 0)>> \o ForRanks("initialize")
    BY <1>3 DEF rw_mgr_mem_initialize, Call
  <2>2. \A r \in Live : \E i \in 2 .. Len(calls') : calls'[i] = Part("initialize", r)
    BY <1>1, <2>1, InitializeParts
  <2>3. ASSUME NEW r \in Live PROVE Waiting(r)'
    <3>1. PICK i \in 2 .. Len(calls') : calls'[i] = Part("initialize", r)
      BY <2>2
    <3>2. i \in 1 .. Len(calls') /\ i # 1
      BY <1>2
    <3> QED
      BY <3>1, <3>2, WaitsNow
  <2> QED
    BY <1>1, <1>2, <2>3 DEF PhaseInv
<1>4. CASE stage # "start"
  <2>1. ASSUME NEW r \in Live PROVE dram[r].phase = "calibrated"
    <3>1. ~Waiting(r)
      BY <1>2 DEF Waiting
    <3> QED
      BY <1>2, <1>4, <3>1 DEF PhaseInv, AboutTo
  <2> QED
    BY <1>1, <1>2, <2>1 DEF PhaseInv
<1>5. rw_mgr_mem_handoff => stage # "start"
  BY DEF rw_mgr_mem_handoff, Call
<1> QED
  BY <1>1, <1>3, <1>4, <1>5, Calls

LEMMA PhaseWrite ==
    ASSUME CommandInv, DramInv, FirstInv, PhaseInv, Write
    PROVE  PhaseInv'
<1>1. /\ board \in Boards /\ Live' = Live /\ ~running /\ stage' = stage
      /\ Live \subseteq Ranks /\ Live \subseteq Nat
  BY BoardStays, LiveIs DEF CommandInv, CallsInv, CNext, Write
<1>2. PICK c \in Parts, s \in Seq(Fits) :
              /\ c = Head(calls) /\ s = Writes(Head(calls)) /\ s = Writes(c) /\ c = calls[1]
              /\ Len(calls) \in Nat \ {0} /\ Len(s) \in Nat /\ at \in 1 .. Len(s)
              /\ c.proc \in OffProcs => c.rank \in Live /\ selected' = {c.rank}
              /\ s[at] \in Fits
              /\ s[at].op = "run" =>
                    running' /\ label' = s[at].val /\ ip' = s[at].val /\ s[at].val \in Entries
              /\ s[at].op # "run" => ~running' /\ label' = label
              /\ \/ /\ at < Len(s) /\ at' = at + 1 /\ calls' = calls
                    /\ Writes(Head(calls))' = s
                 \/ /\ at = Len(s) /\ at' = 1 /\ Len(calls') = Len(calls) - 1
                    /\ \A i \in 1 .. Len(calls') : calls'[i] = calls[i + 1]
  BY WriteMoves
<1>3. ASSUME NEW r \in Live, NEW i \in 2 .. Len(calls), calls[i] = Part("initialize", r)
      PROVE  Waiting(r)'
  BY <1>3, StillToDo, WaitsNow
<1>4. ASSUME running', label' \in Holds, NEW r \in Live PROVE Waiting(r)'
  <2>1. s[at] = RunReg(label')
    BY <1>2, <1>4 DEF Fits, Body, Selects, PhyReg, RunReg
  <2>2. c.proc = "reset"
    <3>1. PICK n, a : n = at /\ a = label'
      OBVIOUS
    <3>2. n \in 1 .. Len(Writes(c)) /\ a \in Holds /\ Writes(c)[n] = RunReg(a)
      BY <1>2, <1>4, <2>1, <3>1
    <3> QED
      BY <1>1, <3>2, HoldsInReset
  <2>3. calls # <<>>
    BY <1>2
  <2>4. PICK i \in 2 .. Len(calls) : calls[i] = Part("initialize", r)
    BY <1>2, <2>2, <2>3 DEF FirstInv
  <2> QED
    BY <1>3, <2>4
<1>5. ASSUME NEW r \in Live, Waiting(r)
      PROVE  Waiting(r)' \/ AboutTo(r, {ZQCL})'
  <2>1. PICK i \in 1 .. Len(calls) :
           /\ calls[i] = Part("initialize", r)
           /\ i = 1 => ~Given(Writes(Head(calls)), at - 1, RunReg(ZQCL))
    BY <1>5 DEF Waiting
  <2>2. CASE i # 1
    <3>1. i \in 2 .. Len(calls)
      BY <1>2, <2>2
    <3> QED
      BY <1>3, <2>1, <3>1
  <2>3. CASE i = 1
    <3>1. c = Part("initialize", r) /\ ~Given(s, at - 1, RunReg(ZQCL))
      BY <1>2, <2>1, <2>3
    <3>2. c.proc = "initialize" /\ c.rank = r
      BY <3>1 DEF Part
    <3>3. Given(s, Len(s), RunReg(ZQCL))
      BY <1>2, <3>2, InitializeWrites
    <3>4. CASE s[at] = RunReg(ZQCL)
      <4>1. /\ running' /\ label' = ZQCL /\ ip' = ZQCL
        <5>1. s[at].op = "run" /\ s[at].val = ZQCL
          BY <3>4 DEF RunReg
        <5> QED
          BY <1>2, <5>1
      <4>2. selected' = {r}
        BY <1>2, <3>2 DEF OffProcs
      <4> QED
        BY <4>1, <4>2 DEF AboutTo
    <3>5. CASE s[at] # RunReg(ZQCL)
      <4>1. ~Given(s, at, RunReg(ZQCL))
        <5>1. \A j \in 1 .. at : j \in 1 .. at - 1 \/ j = at
          BY <1>2
        <5> QED
          BY <3>1, <3>5, <5>1 DEF Given
      <4>2. /\ at < Len(s) /\ at' = at + 1 /\ calls' = calls
            /\ Writes(Head(calls))' = s
        BY <1>2, <3>3, <4>1
      <4>3. at' - 1 = at
        BY <1>2, <4>2
      <4>4. ~Given(Writes(Head(calls)), at - 1, RunReg(ZQCL))'
        BY <4>1, <4>2, <4>3 DEF Given, RunReg, ZQCL
      <4>5. 1 \in 1 .. Len(calls') /\ calls'[1] = Part("initialize", r)
        BY <1>2, <3>1, <4>2
      <4>6. Waiting(r)'
        BY <4>4, <4>5 DEF Waiting, Part
      <4> QED
        BY <4>6
    <3> QED
      BY <3>4, <3>5
  <2> QED
    BY <2>2, <2>3
<1>6. ASSUME stage # "start", NEW r \in Live
      PROVE  Waiting(r)' \/ AboutTo(r, {ZQCL})' \/ dram'[r].phase = "calibrated"
  <2>1. Waiting(r) \/ dram[r].phase = "calibrated"
    BY <1>1, <1>6 DEF PhaseInv, AboutTo
  <2>2. r \in Ranks
    BY <1>1
  <2>3. dram'[r].phase = dram[r].phase
    BY <2>2, WriteDram
  <2> QED
    BY <1>5, <2>1, <2>3
<1> QED
  BY <1>1, <1>4, <1>6 DEF PhaseInv

LEMMA PhaseClock ==
    ASSUME CommandInv, DramInv, PhaseInv, Clocked
    PROVE  PhaseInv'
<1>1. /\ calls' = calls /\ at' = at /\ stage' = stage /\ selected' = selected
      /\ Live' = Live /\ label' = label
      /\ calls # <<>> => Writes(Head(calls))' = Writes(Head(calls))
  BY ClockWaits
<1>2. /\ running /\ Course /\ Live \subseteq Ranks /\ calls \in Seq(Parts)
      /\ label \in Entries /\ ip \in Block(label)
  BY LiveIs DEF Clocked, Play, Return, Advance, Jump, Exhaust, CommandInv, CallsInv, RunInv, Course
<1>3. ASSUME NEW r \in Live, Waiting(r) PROVE Waiting(r)'
  <2>1. calls # <<>>
    BY <1>2, <1>3 DEF Waiting
  <2> QED
    BY <1>1, <1>3, <2>1, WaitsStill
<1>4. ASSUME label \in Holds, NEW r \in Live PROVE Waiting(r)'
  BY <1>2, <1>3, <1>4 DEF PhaseInv
<1>5. ASSUME stage # "start", NEW r \in Live
      PROVE  Waiting(r)' \/ dram'[r].phase = "calibrated"
  <2>1. r \in Ranks
    BY <1>2
  <2>2. dram'[r].phase = PhaseAfter(dram[r], Sent(r))
    BY <2>1, ClockDram
  <2>3. CASE Waiting(r) \/ label \in Holds
    BY <1>3, <1>4, <2>3
  <2>4. CASE AboutTo(r, {ZQCL})
    <3>1. ip = ZQCL /\ r \in selected
      BY <2>4 DEF AboutTo
    <3>2. Sent(r).kind = "zqcl"
      BY <3>1, WordsOf DEF Sent, Command
    <3> QED
      BY <2>2, <3>2, StaysCalibrated
  <2>5. CASE dram[r].phase = "calibrated" /\ label \notin Holds
    <3>1. Command.kind \notin {"reset", "cke_low"}
      BY <1>2, <2>5, KindsSent
    <3>2. NoCommand.kind \notin {"reset", "cke_low"}
      BY DEF NoCommand
    <3>3. Sent(r).kind \notin {"reset", "cke_low"}
      BY <3>1, <3>2 DEF Sent
    <3> QED
      BY <2>2, <2>5, <3>3, StaysCalibrated
  <2> QED
    BY <1>5, <2>3, <2>4, <2>5 DEF PhaseInv
<1> QED
  BY <1>1, <1>4, <1>5 DEF PhaseInv

LEMMA PhaseStep ==
    ASSUME CommandInv, DramInv, FirstInv, PhaseInv, [CNext]_vars
    PROVE  PhaseInv'
<1>1. CASE UNCHANGED vars
  <2>1. /\ calls' = calls /\ at' = at /\ stage' = stage /\ selected' = selected
        /\ Live' = Live /\ label' = label /\ running' = running /\ ip' = ip /\ dram' = dram
        /\ calls # <<>> => Writes(Head(calls))' = Writes(Head(calls))
    BY <1>1, ClockWaits DEF vars, engineVars
  <2>2. calls \in Seq(Parts)
    BY DEF CommandInv, CallsInv
  <2>3. ASSUME NEW r \in Live, Waiting(r) PROVE Waiting(r)'
    <3>1. calls # <<>>
      BY <2>2, <2>3 DEF Waiting
    <3> QED
      BY <2>1, <2>3, <3>1, WaitsStill
  <2>4. ASSUME NEW r \in Live, AboutTo(r, {ZQCL}) PROVE AboutTo(r, {ZQCL})'
    BY <2>1, <2>4 DEF AboutTo, ZQCL
  <2> QED
    BY <2>1, <2>3, <2>4 DEF PhaseInv
<1> QED
  BY <1>1, PhaseProcedure, PhaseWrite, PhaseClock DEF CNext

(* In the hand-off a rank is closed first, and given its mode registers.   *)
LEMMA HandProcedure ==
    ASSUME CommandInv, HandInv, Procedures
    PROVE  HandInv'
<1>1. board \in Boards /\ Live' = Live
  BY BoardStays DEF CommandInv, CallsInv, CNext
<1>2. /\ ~running' /\ at' = 1
  BY <1>1, Begins DEF Steps, Call, engineVars, CommandInv, CallsInv
<1>3. CASE rw_mgr_mem_handoff
  <2>1. calls' = ForRanks("handoff")
    BY <1>3 DEF rw_mgr_mem_handoff, Call
  <2>2. /\ \A i \in 1 .. Len(calls') : calls'[i].proc = "handoff"
        /\ \A r \in Live : \E i \in 1 .. Len(calls') : calls'[i] = Part("handoff", r)
    BY <1>1, <2>1, HandOffParts
  <2>3. ASSUME NEW r \in Live PROVE ToHandOff(r)'
    <3>1. PICK i \in 1 .. Len(calls') : calls'[i] = Part("handoff", r)
      BY <2>2
    <3>2. ~(at' > 2)
      BY <1>2
    <3> QED
      BY <3>1, <3>2 DEF ToHandOff, Part
  <2> QED
    BY <1>1, <1>2, <2>2, <2>3 DEF HandInv
<1>4. CASE stage' # "done"
  BY <1>4 DEF HandInv
<1>5. rw_mgr_mem_initialize => stage' # "done"
  BY DEF rw_mgr_mem_initialize, Call
<1> QED
  BY <1>1, <1>3, <1>4, <1>5, Calls

LEMMA HandWrite ==
    ASSUME CommandInv, DramInv, HandInv, Write
    PROVE  HandInv'
<1>1. /\ board \in Boards /\ Live' = Live /\ ~running /\ stage' = stage
      /\ Live \subseteq Ranks /\ Live \subseteq Nat
  BY BoardStays, LiveIs DEF CommandInv, CallsInv, CNext, Write
<1> SUFFICES ASSUME stage = "done"
             PROVE  /\ \A i \in 1 .. Len(calls') : calls'[i].proc = "handoff"
                    /\ running' => label' \in HandRuns
                    /\ \A r \in Live :
                          \/ ToHandOff(r)'
                          \/ AboutTo(r, UserModes)' /\ dram'[r].open = {}
                          \/ InUse(r)'
  BY <1>1 DEF HandInv
<1>2. PICK c \in Parts, s \in Seq(Fits) :
              /\ c = Head(calls) /\ s = Writes(Head(calls)) /\ s = Writes(c) /\ c = calls[1]
              /\ Len(calls) \in Nat \ {0} /\ Len(s) \in Nat /\ at \in 1 .. Len(s)
              /\ c.proc \in OffProcs => c.rank \in Live /\ selected' = {c.rank}
              /\ s[at] \in Fits
              /\ s[at].op = "run" =>
                    running' /\ label' = s[at].val /\ ip' = s[at].val /\ s[at].val \in Entries
              /\ s[at].op # "run" => ~running' /\ label' = label
              /\ \/ /\ at < Len(s) /\ at' = at + 1 /\ calls' = calls
                    /\ Writes(Head(calls))' = s
                 \/ /\ at = Len(s) /\ at' = 1 /\ Len(calls') = Len(calls) - 1
                    /\ \A i \in 1 .. Len(calls') : calls'[i] = calls[i + 1]
  BY WriteMoves
<1>3. /\ \A i \in 1 .. Len(calls) : calls[i].proc = "handoff"
      /\ \A r \in Live : ToHandOff(r) \/ InUse(r)
  BY <1>1 DEF HandInv, AboutTo
<1>4. c.proc = "handoff" /\ c.rank \in Live /\ selected' = {c.rank}
  <2>1. 1 \in 1 .. Len(calls)
    BY <1>2
  <2>2. c.proc = "handoff"
    BY <1>2, <1>3, <2>1
  <2> QED
    BY <1>2, <2>2 DEF OffProcs
<1>5. /\ Led(s, SelectOff(c.rank), HandRuns)
      /\ Len(s) > 2 /\ s[2] = RunReg(PRECHARGE_ALL)
      /\ \E a \in UserModes : s[Len(s)] = RunReg(a)
  BY <1>1, <1>2, <1>4, HandOffWrites
<1>6. ASSUME NEW i \in 1 .. Len(calls') PROVE calls'[i].proc = "handoff"
  <2>1. CASE calls' = calls
    BY <1>3, <2>1
  <2>2. CASE /\ Len(calls') = Len(calls) - 1
             /\ \A k \in 1 .. Len(calls') : calls'[k] = calls[k + 1]
    <3>1. i + 1 \in 1 .. Len(calls)
      BY <1>2, <2>2
    <3> QED
      BY <1>3, <2>2, <3>1
  <2> QED
    BY <1>2, <2>1, <2>2
<1>7. ASSUME s[at].op = "run" PROVE label' \in HandRuns
  <2>1. at # 1
    BY <1>5, <1>7 DEF Led, SelectOff
  <2>2. at \in 2 .. Len(s)
    BY <1>2, <2>1
  <2>3. s[at] \in Body(HandRuns)
    BY <1>5, <2>2 DEF Led
  <2>4. s[at].val \in HandRuns
    BY <1>7, <2>3 DEF Body, PhyReg
  <2> QED
    BY <1>2, <1>7, <2>4
<1>8. ASSUME NEW r \in Live, NEW i \in 2 .. Len(calls), calls[i] = Part("handoff", r)
      PROVE  ToHandOff(r)'
  <2>1. PICK j \in 1 .. Len(calls') : calls'[j] = Part("handoff", r) /\ (j = 1 => at' = 1)
    BY <1>8, StillToDo
  <2>2. ~(j = 1 /\ at' > 2)
    BY <2>1
  <2> QED
    BY <2>1, <2>2 DEF ToHandOff, Part
(* The rank that is handed off in this part.                               *)
<1>9. ASSUME NEW r \in Live, c = Part("handoff", r), at > 2 => dram[r].open = {}
      PROVE  ToHandOff(r)' \/ (AboutTo(r, UserModes)' /\ dram'[r].open = {})
  <2>1. r \in Ranks /\ selected' = {r} /\ dram'[r].open = dram[r].open
    <3>1. r \in Ranks
      BY <1>1
    <3>2. c.rank = r
      BY <1>9 DEF Part
    <3> QED
      BY <1>4, <3>1, <3>2, WriteDram
  <2>2. CASE at < Len(s)
    <3>1. at' = at + 1 /\ calls' = calls
      BY <1>2, <2>2
    <3>2. 1 \in 1 .. Len(calls') /\ calls'[1] = Part("handoff", r)
      BY <1>2, <1>9, <3>1
    <3>3. ASSUME at' > 2 PROVE (dram[r].open = {})' \/ AboutTo(r, {PRECHARGE_ALL})'
      <4>1. CASE at = 2
        <5>1. s[at].op = "run" /\ s[at].val = PRECHARGE_ALL
          BY <1>5, <4>1 DEF RunReg
        <5>2. running' /\ label' = PRECHARGE_ALL /\ ip' = PRECHARGE_ALL
          BY <1>2, <5>1
        <5> QED
          BY <2>1, <5>2 DEF AboutTo
      <4>2. CASE at # 2
        <5>1. at > 2
          BY <1>2, <3>1, <3>3, <4>2
        <5> QED
          BY <1>9, <2>1, <5>1
      <4> QED
        BY <4>1, <4>2
    <3>4. ToHandOff(r)'
      BY <3>2, <3>3 DEF ToHandOff, Part
    <3> QED
      BY <3>4
  <2>3. CASE ~(at < Len(s))
    <3>1. at = Len(s) /\ at > 2
      BY <1>2, <1>5, <2>3
    <3>2. PICK a \in UserModes : s[at] = RunReg(a)
      BY <1>5, <3>1
    <3>3. s[at].op = "run" /\ s[at].val = a
      BY <3>2 DEF RunReg
    <3>4. running' /\ label' = a /\ ip' = a
      BY <1>2, <3>3
    <3> QED
      BY <1>9, <2>1, <3>1, <3>4 DEF AboutTo, UserModes
  <2> QED
    BY <2>2, <2>3
<1>10. ASSUME NEW r \in Live
       PROVE  \/ ToHandOff(r)'
              \/ AboutTo(r, UserModes)' /\ dram'[r].open = {}
              \/ InUse(r)'
  <2>1. CASE ToHandOff(r)
    <3>1. PICK i \in 1 .. Len(calls) :
             /\ calls[i] = Part("handoff", r)
             /\ i = 1 /\ at > 2 => dram[r].open = {} \/ AboutTo(r, {PRECHARGE_ALL})
      BY <2>1 DEF ToHandOff
    <3>2. CASE i = 1
      <4>1. c = Part("handoff", r)
        BY <1>2, <3>1, <3>2
      <4>2. at > 2 => dram[r].open = {}
        BY <1>1, <3>1, <3>2 DEF AboutTo
      <4> QED
        BY <1>9, <4>1, <4>2
    <3>3. CASE i # 1
      <4>1. i \in 2 .. Len(calls)
        BY <1>2, <3>3
      <4> QED
        BY <1>8, <3>1, <4>1
    <3> QED
      BY <3>2, <3>3
  <2>2. CASE InUse(r) /\ c = Part("handoff", r)
    <3>1. dram[r].open = {}
      BY <2>2 DEF InUse
    <3> QED
      BY <1>9, <2>2, <3>1
  <2>3. CASE InUse(r) /\ c # Part("handoff", r)
    <3>1. c.rank # r
      <4>1. c = Part(c.proc, c.rank)
        BY DEF Parts, Part
      <4> QED
        BY <1>4, <2>3, <4>1
    <3>2. selected' # {r}
      BY <1>4, <3>1
    <3>3. r \in Ranks
      BY <1>1
    <3>4. /\ dram'[r].open = {} /\ dram'[r].last = 0 /\ dram'[r].mr0 = "user"
      BY <2>3, <3>3, WriteDram DEF InUse
    <3>5. label' \in HandRuns
      BY <1>2, <1>7, <2>3 DEF InUse
    <3>6. InUse(r)'
      BY <3>2, <3>4, <3>5 DEF InUse, HandRuns
    <3> QED
      BY <3>6
  <2> QED
    BY <1>3, <2>1, <2>2, <2>3
<1> QED
  BY <1>2, <1>6, <1>7, <1>10

LEMMA HandClock ==
    ASSUME CommandInv, DramInv, HandInv, Clocked
    PROVE  HandInv'
<1>1. /\ calls' = calls /\ at' = at /\ stage' = stage /\ selected' = selected
      /\ Live' = Live /\ label' = label
  BY ClockWaits
<1>2. /\ running /\ Course /\ Addressee /\ Live \subseteq Ranks /\ EngineTypeOK /\ Play
      /\ label \in Entries /\ ip \in Block(label)
  BY LiveIs DEF Clocked, Play, Return, Advance, Jump, Exhaust, CommandInv, CallsInv, RunInv, Course
<1> SUFFICES ASSUME stage = "done"
             PROVE  /\ \A i \in 1 .. Len(calls) : calls[i].proc = "handoff"
                    /\ label \in HandRuns
                    /\ \A r \in Live :
                          \/ ToHandOff(r)'
                          \/ AboutTo(r, UserModes)' /\ dram'[r].open = {}
                          \/ InUse(r)'
  BY <1>1 DEF HandInv
<1>3. /\ \A i \in 1 .. Len(calls) : calls[i].proc = "handoff"
      /\ label \in HandRuns
  BY <1>2 DEF HandInv
<1>4. label \notin Holds /\ Command.kind # "act" /\ (label \in Idles => Command.kind = "none")
  BY <1>2, <1>3, HandRunsAre, KindsSent
(* A closed rank stays closed.                                             *)
<1>5. ASSUME NEW r \in Live, dram[r].open = {} PROVE dram'[r].open = {}
  <2>1. r \in Ranks
    BY <1>2
  <2>2. Sent(r).kind # "act"
    BY <1>4 DEF Sent, NoCommand
  <2> QED
    BY <1>5, <2>1, <2>2, ClockDram
<1>6. ASSUME NEW r \in Live, AboutTo(r, {PRECHARGE_ALL}) PROVE dram'[r].open = {}
  <2>1. r \in Ranks
    BY <1>2
  <2>2. r \in selected /\ ip = PRECHARGE_ALL
    BY <1>6 DEF AboutTo
  <2>3. Sent(r).kind = "pre"
    BY <2>2, WordsOf DEF Sent, Command
  <2> QED
    BY <2>1, <2>3, ClockDram
<1>7. ASSUME NEW r \in Live, ToHandOff(r) PROVE ToHandOff(r)'
  <2>1. PICK i \in 1 .. Len(calls) :
           /\ calls[i] = Part("handoff", r)
           /\ i = 1 /\ at > 2 => dram[r].open = {} \/ AboutTo(r, {PRECHARGE_ALL})
    BY <1>7 DEF ToHandOff
  <2>2. i = 1 /\ at > 2 => dram'[r].open = {}
    BY <1>5, <1>6, <2>1
  <2> QED
    BY <1>1, <2>1, <2>2 DEF ToHandOff, Part
(* The last mode register is loaded.                                       *)
<1>8. ASSUME NEW r \in Live, AboutTo(r, UserModes), dram[r].open = {} PROVE InUse(r)'
  <2>1. r \in Ranks
    BY <1>2
  <2>2. r \in selected /\ ip \in UserModes /\ label \in UserModes
    BY <1>8 DEF AboutTo
  <2>3. Sent(r).kind = "mrs" /\ Sent(r).mr = 0 /\ Sent(r).value = "user"
    BY <2>2, WordsOf DEF Sent, Command
  <2>4. dram'[r].last = 0 /\ dram'[r].mr0 = "user"
    BY <2>1, <2>3, ClockDram
  <2>5. dram'[r].open = {}
    BY <1>5, <1>8
  <2>6. running' => ip' = RETURN
    <3>1. label \in Modes
      BY <2>2, HandRunsAre
    <3> QED
      BY <1>2, <3>1, ModeReturns
  <2> QED
    BY <1>1, <1>3, <2>4, <2>5, <2>6 DEF InUse, HandRuns, RETURN
(* A rank in use gets no more mode registers.                              *)
<1>9. ASSUME NEW r \in Live, InUse(r) PROVE InUse(r)'
  <2>1. /\ r \in Ranks /\ dram[r].open = {} /\ dram[r].last = 0 /\ dram[r].mr0 = "user"
        /\ selected = {r} => ip = RETURN
    BY <1>2, <1>9 DEF InUse
  <2>2. Sent(r).kind = "none"
    <3>1. CASE r \notin selected
      BY <3>1 DEF Sent, NoCommand
    <3>2. CASE r \in selected /\ label \in Idles
      BY <1>4, <3>2 DEF Sent
    <3>3. CASE r \in selected /\ label \notin Idles
      <4>1. \E q \in Live : selected = {q}
        BY <1>2, <1>4, <3>3 DEF Addressee
      <4>2. ip = RETURN
        BY <2>1, <3>3, <4>1
      <4> QED
        BY <3>3, <4>2, WordsOf DEF Sent, Command
    <3> QED
      BY <3>1, <3>2, <3>3
  <2>3. dram'[r].last = 0 /\ dram'[r].mr0 = "user"
    BY <2>1, <2>2, ClockDram
  <2>4. dram'[r].open = {}
    BY <1>5, <2>1
  <2>5. ASSUME running', selected' = {r} PROVE ip' = RETURN
    <3>1. ip = RETURN
      BY <1>1, <2>1, <2>5
    <3>2. ip \notin Returns /\ RETURN \in Returns
      BY <1>2, <2>5, GoesOn DEF RETURN, Returns
    <3> QED
      BY <3>1, <3>2
  <2> QED
    BY <1>1, <1>3, <2>3, <2>4, <2>5 DEF InUse, HandRuns, RETURN
<1>10. ASSUME NEW r \in Live
       PROVE  \/ ToHandOff(r)'
              \/ AboutTo(r, UserModes)' /\ dram'[r].open = {}
              \/ InUse(r)'
  BY <1>7, <1>8, <1>9 DEF HandInv
<1> QED
  BY <1>3, <1>10

LEMMA HandStep ==
    ASSUME CommandInv, DramInv, HandInv, [CNext]_vars
    PROVE  HandInv'
<1>1. CASE UNCHANGED vars
  <2>1. /\ calls' = calls /\ at' = at /\ stage' = stage /\ selected' = selected
        /\ Live' = Live /\ label' = label /\ running' = running /\ ip' = ip /\ dram' = dram
    BY <1>1, ClockWaits DEF vars, engineVars
  <2>3. ASSUME NEW r \in Live, ToHandOff(r) PROVE ToHandOff(r)'
    BY <2>1, <2>3 DEF ToHandOff, AboutTo, Part, PRECHARGE_ALL
  <2>4. ASSUME NEW r \in Live, InUse(r) PROVE InUse(r)'
    BY <2>1, <2>4 DEF InUse, RETURN, HandRuns
  <2>5. ASSUME NEW r \in Live, AboutTo(r, UserModes) PROVE AboutTo(r, UserModes)'
    BY <2>1, <2>5 DEF AboutTo, UserModes
  <2> QED
    BY <2>1, <2>3, <2>4, <2>5 DEF HandInv, HandRuns
<1> QED
  BY <1>1, HandProcedure, HandWrite, HandClock DEF CNext
-----------------------------------------------------------------------------
LEMMA MemoryInit == CInit => MemoryInv
<1> SUFFICES ASSUME CInit PROVE MemoryInv
  OBVIOUS
<1>1. CommandInv
  BY CommandInit
<1>2. stage = "start" /\ calls = <<>> /\ ~running /\ Len(calls) = 0
  BY DEF CInit, Init
<1>3. ASSUME NEW r \in Ranks PROVE DOMAIN dram[r] = Fields /\ dram[r].flight = {}
  <2> DEFINE t0 == ResetCycles(TinitCntrs[1], TinitCntrs[2], TinitCntrs[3])
             t1 == ResetCycles(TresetCntrs[1], TresetCntrs[2], TresetCntrs[3])
             m == r \in board.mirrored
  <2>1. dram[r] = PowerUp(Wlat, m, t0, t1)
    BY DEF CInit
  <2> HIDE DEF t0, t1, m
  <2> QED
    BY <2>1 DEF PowerUp, Fields
<1>4. DramInv /\ FlightInv
  BY <1>3 DEF DramInv, FlightInv
<1>5. FirstInv /\ PhaseInv /\ HandInv
  BY <1>2 DEF FirstInv, PhaseInv, HandInv
<1> QED
  BY <1>1, <1>4, <1>5 DEF MemoryInv

LEMMA MemoryStep == MemoryInv /\ [CNext]_vars => MemoryInv'
<1> SUFFICES ASSUME MemoryInv, [CNext]_vars PROVE MemoryInv'
  OBVIOUS
<1>1. CommandInv'
  BY CommandStep DEF MemoryInv
<1>2. DramInv'
  BY DramStep DEF MemoryInv, CommandInv
<1>3. FlightInv' /\ FirstInv'
  BY FlightStep, FirstStep DEF MemoryInv
<1>4. PhaseInv' /\ HandInv'
  BY PhaseStep, HandStep DEF MemoryInv
<1> QED
  BY <1>1, <1>2, <1>3, <1>4 DEF MemoryInv

(* At the end no part is left to do, so that every rank is in use.         *)
LEMMA HandedFrom == MemoryInv => HandedOff
<1> SUFFICES ASSUME MemoryInv, stage = "done", calls = <<>>, ~running, NEW r \in Live
             PROVE  /\ dram[r].phase = "calibrated" /\ dram[r].open = {}
                    /\ dram[r].last = 0 /\ dram[r].mr0 = "user"
                    /\ dram[r].flight = {}
  BY DEF HandedOff
<1>1. Len(calls) = 0 /\ r \in Ranks
  BY LiveIs DEF MemoryInv, CommandInv, CallsInv
<1>2. ~Waiting(r) /\ ~ToHandOff(r)
  BY <1>1 DEF Waiting, ToHandOff
<1>3. dram[r].phase = "calibrated" /\ InUse(r)
  BY <1>2 DEF MemoryInv, PhaseInv, HandInv, AboutTo
<1>4. label \notin Bursts
  BY <1>3, HandRunsAre DEF InUse
<1>5. dram[r].flight = {}
  BY <1>1, <1>4 DEF MemoryInv, FlightInv
<1> QED
  BY <1>3, <1>5 DEF InUse

(* The memory that is handed off is in its user configuration: on every    *)
(* board, every rank that is not skipped has been calibrated, has no row   *)
(* open and no burst under way, and was given the user's mode register 0   *)
(* last.                                                                   *)
THEOREM MemoryHandedOff == CSpec => []HandedOff
BY MemoryInit, MemoryStep, HandedFrom, PTL DEF CSpec

-----------------------------------------------------------------------------
(* The commands are legal: the times that the memory has had.              *)

(* Event e of rank d was n clocks ago, or as long as any rule looks.       *)
AtLeast(d, e, n) == d.since[e] >= n \/ d.since[e] = Limit(e, d.wlat)

(* What a rank is built with, and the range of its times.                  *)
Tinit == ResetCycles(TinitCntrs[1], TinitCntrs[2], TinitCntrs[3])
Treset == ResetCycles(TresetCntrs[1], TresetCntrs[2], TresetCntrs[3])

Timely(d) ==
    /\ d.held \in Nat
    /\ DOMAIN d.since = Events
    /\ \A e \in Events : d.since[e] \in 0 .. Limit(e, d.wlat)

BuiltInv ==
    \A r \in Ranks :
        /\ dram[r].wlat = Wlat /\ dram[r].mirrored = (r \in board.mirrored)
        /\ dram[r].tinit = Tinit /\ dram[r].treset = Treset
        /\ Timely(dram[r])

(* What a run finds: the registers, each of them exactly, and for how many *)
(* writes nothing has been run.                                            *)
Pause(s, n, k) == k <= n /\ \A j \in n - k + 1 .. n : s[j].op # "run"

AimedTo(s, n, c, a) == Aimed(s, n, c, {a})

(* The labels that load a mode register, which one, and the last of them.  *)
Registers == {2, 3, 4, 5, 7, 8, 9, 10, 11, 12}
MrOf(a) ==
    IF a \in {2, 7, 8, 12} THEN 0
    ELSE IF a \in {3, 9} THEN 1 ELSE IF a \in {4, 10} THEN 2 ELSE 3

ModeRun(w) == w.op = "run" /\ w.val \in Registers
NoMode(s, n) == \A k \in 1 .. n : ~ModeRun(s[k])
LastMode(s, n, a) ==
    \E j \in 1 .. n : ModeRun(s[j]) /\ s[j].val = a /\ \A k \in j + 1 .. n : ~ModeRun(s[k])

(* The write latency of a write test: a wait in which counter 3 runs down, *)
(* or a jump by counter 2 past it, which is always taken.                  *)
Skip(a) == (IF Wlat = 1 THEN WRITE_DATA ELSE WRITE_DQS) + Dm(a)

WriteExact(s, n, a) ==
    /\ a = WriteEntry + Dm(a) /\ Pause(s, n, 4)
    /\ AimedTo(s, n, 0, a) /\ AimedTo(s, n, 1, WRITE_WAIT + Dm(a))
    /\ Loaded(s, n, 0, WriteLoops) /\ Loaded(s, n, 1, 48)
    /\ IF Wlat <= 2
       THEN Loaded(s, n, 2, 255) /\ AimedTo(s, n, 2, Skip(a))
       ELSE /\ Loaded(s, n, 2, 0) /\ Loaded(s, n, 3, Wlat - 3)
            /\ AimedTo(s, n, 3, WRITE_NOP + Dm(a))

ActivateExact(s, n) ==
    /\ n > 2 /\ Pause(s, n, 2)
    /\ AimedTo(s, n, 0, 14) /\ AimedTo(s, n, 1, 16) /\ Loaded(s, n, 0, 15) /\ Loaded(s, n, 1, 15)

PatternExact(s, n) ==
    /\ Pause(s, n, 4)
    /\ AimedTo(s, n, 0, 27) /\ AimedTo(s, n, 1, 31) /\ AimedTo(s, n, 2, 25) /\ AimedTo(s, n, 3, 29)
    /\ Loaded(s, n, 0, 32) /\ Loaded(s, n, 1, 32) /\ Loaded(s, n, 2, 4) /\ Loaded(s, n, 3, 4)

Exact(s, i) ==
    s[i].op = "run" =>
        LET a == s[i].val
            n == i - 1
        IN /\ a \in Modes => Pause(s, n, 2)
           /\ a = PRECHARGE_ALL => Pause(s, n, 1)
           /\ a = ACTIVATE_0_AND_1 => ActivateExact(s, n)
           /\ a = GUARANTEED_WRITE => PatternExact(s, n)
           /\ a = GUARANTEED_READ => AimedTo(s, n, 0, 76) /\ AimedTo(s, n, 1, 84)
           /\ a = READ_B2B =>
                 /\ n > 4
                 /\ AimedTo(s, n, 0, 89) /\ AimedTo(s, n, 1, 97)
                 /\ AimedTo(s, n, 2, 107) /\ AimedTo(s, n, 3, 89)
           /\ a \in WriteTests => WriteExact(s, n, a)

(* The mode registers are loaded in their order, in the variant for m.     *)
Mirrors == {8, 9, 10, 11, 12}

Follows(s, n, a) ==
    \/ NoMode(s, n) /\ MrOf(a) = 2
    \/ \E b \in Registers : LastMode(s, n, b) /\ MrAfter(MrOf(b)) = MrOf(a)

InOrder(s, i, m) ==
    ModeRun(s[i]) => /\ s[i].val \in Mirrors <=> m
                     /\ Follows(s, i - 1, s[i].val)

(* A piece of the writes that runs a mode register's label, or that of ZQ  *)
(* calibration; and writes that keep to the order so far, the last being b *)
(* or, if b is 0, none at all.                                             *)
Piece(t, a) ==
    /\ t \in Seq(Fits) /\ Len(t) >= 3 /\ t[3] = RunReg(a)
    /\ \A i \in 1 .. Len(t) :
          /\ Exact(t, i)
          /\ i # 3 /\ t[i].op = "run" => t[i].val \in Idles

Ordered(s, m, b, E) ==
    /\ s \in Seq(Fits)
    /\ \A i \in 1 .. Len(s) :
          /\ Exact(s, i) /\ InOrder(s, i, m)
          /\ s[i].op = "run" => s[i].val \in E \ {ZQCL}
    /\ IF b = 0 THEN NoMode(s, Len(s)) ELSE LastMode(s, Len(s), b)

(* The writes of the initialisation of a rank, and those of its hand-off.  *)
InitialExact(s, m) ==
    /\ \A i \in 1 .. Len(s) :
          /\ Exact(s, i) /\ InOrder(s, i, m)
          /\ s[i].op = "run" =>
                /\ s[i].val \in Modes \cup Idles
                /\ s[i].val \in Modes => i < Len(s) /\ ~Given(s, i - 1, RunReg(ZQCL))
                /\ s[i].val = ZQCL =>
                      \E b \in Registers : LastMode(s, i - 1, b) /\ MrOf(b) = 0
    /\ s[Len(s)] = RunReg(IDLE_LOOP2) /\ Given(s, Len(s) - 1, RunReg(ZQCL))
    /\ \A c \in 0 .. 1 : AimedTo(s, Len(s) - 1, c, IDLE_LOOP2)
    /\ Loaded(s, Len(s) - 1, 0, 255) /\ Loaded(s, Len(s) - 1, 1, 1)

HandOffExact(s, m) ==
    \A i \in 1 .. Len(s) :
        /\ Exact(s, i) /\ InOrder(s, i, m)
        /\ s[i].op = "run" =>
              /\ s[i].val \in HandRuns \ {ZQCL}
              /\ IF s[i].val = PRECHARGE_ALL THEN NoMode(s, i - 1) ELSE i > 2

(* The writes of the reset.                                                *)
HoldExact(s, n, a, cs) ==
    \A c \in 0 .. 2 : AimedTo(s, n, c, a) /\ Loaded(s, n, c, cs[c + 1])

ResetExact(s) ==
    /\ Len(s) = 19 /\ s[1] = SelectAll
    /\ \A i \in 1 .. 19 : s[i].op = "run" => i \in {8, 16, 19}
    /\ s[8] = RunReg(INIT_RESET_0_CKE_0) /\ HoldExact(s, 7, INIT_RESET_0_CKE_0, TinitCntrs)
    /\ s[16] = RunReg(INIT_RESET_1_CKE_0) /\ HoldExact(s, 15, INIT_RESET_1_CKE_0, TresetCntrs)
    /\ s[19] = RunReg(IDLE_LOOP1) /\ AimedTo(s, 18, 1, IDLE_LOOP1) /\ Loaded(s, 18, 1, 249)

LEMMA LimitIs ==
    ASSUME NEW w \in Nat
    PROVE  /\ Limit("cke", w) = 250 /\ Limit("mrs", w) = 12 /\ Limit("zqcl", w) = 512
           /\ Limit("pre", w) = 6 /\ Limit("act", w) = 14 /\ Limit("rd", w) = 17
           /\ Limit("wr", w) = w + 10
           /\ \A e \in Events : Limit(e, w) \in Nat /\ Limit(e, w) >= 1
<1>1. /\ Limit("cke", w) = 250 /\ Limit("mrs", w) = 12 /\ Limit("zqcl", w) = 512
      /\ Limit("pre", w) = 6 /\ Limit("act", w) = 14 /\ Limit("rd", w) = 17
      /\ Limit("wr", w) = w + 10
  BY DEF Limit, TXPR, TMOD, TZQinit, TRP, TRAS, TCL, Burst, Turnaround, TWR
<1>2. \A e \in Events : e = "cke" \/ e = "mrs" \/ e = "zqcl" \/ e = "pre" \/ e = "act"
                        \/ e = "rd" \/ e = "wr"
  BY DEF Events
<1> QED
  BY <1>1, <1>2

(* What a clock and a pause do to the times of a rank.                     *)
LEMMA ClockTimes ==
    ASSUME NEW d, DOMAIN d = Fields, d.wlat \in Nat, d.tinit \in Nat, d.treset \in Nat,
           Timely(d), NEW c, NEW bus
    PROVE  LET e == Clock(d, c, bus)
           IN /\ e.wlat = d.wlat /\ e.mirrored = d.mirrored
              /\ e.tinit = d.tinit /\ e.treset = d.treset
              /\ Timely(e)
              /\ EventOf(d, c) \in Events => e.since[EventOf(d, c)] = 1
              /\ \A x \in Events : x # EventOf(d, c) =>
                    e.since[x] = IF d.since[x] + 1 < Limit(x, d.wlat) THEN d.since[x] + 1
                                                                     ELSE Limit(x, d.wlat)
              /\ e.held = IF PhaseAfter(d, c) # d.phase THEN 1
                          ELSE IF d.held < d.tinit + d.treset THEN d.held + 1 ELSE d.held
              /\ c.kind = "act" => e.open = d.open \cup {c.bank}
<1> DEFINE flying == Flying(d, c, bus)
           Done(f) == f.age = d.wlat + Burst
           v1 == [x \in Events |-> IF x = EventOf(d, c) THEN 1 ELSE Later(d, 1)[x]]
           v2 == {f \in flying : ~Done(f)}
           v3 == [x \in Cells |->
                    IF \E f \in flying : Done(f) /\ f.at = x
                    THEN (CHOOSE f \in flying : Done(f) /\ f.at = x).got
                    ELSE d.cell[x]]
           v4 == IF c.kind = "mrs" THEN c.mr ELSE d.last
           v5 == IF c.kind = "mrs" /\ c.mr = 0 THEN c.value ELSE d.mr0
           v6 == PhaseAfter(d, c)
           v7 == IF PhaseAfter(d, c) # d.phase THEN 1
                 ELSE IF d.held < d.tinit + d.treset THEN d.held + 1 ELSE d.held
           v8 == CASE c.kind = "pre" -> {}
                   [] c.kind = "act" -> d.open \cup {c.bank}
                   [] OTHER -> d.open
           v9 == bus.dqs
           e == Clock(d, c, bus)
<1>1. e = [d EXCEPT !.since = v1, !.flight = v2, !.cell = v3, !.dqs = v9, !.last = v4,
                    !.mr0 = v5, !.phase = v6, !.held = v7, !.open = v8]
  BY Zenon DEF Clock
<1>2. c.kind = "act" => v8 = d.open \cup {c.bank}
  OBVIOUS
<1>3. v7 \in Nat
  BY DEF Timely
<1>4. /\ DOMAIN v1 = Events
      /\ \A x \in Events : x = EventOf(d, c) => v1[x] = 1
      /\ \A x \in Events : x # EventOf(d, c) => v1[x] = Later(d, 1)[x]
  OBVIOUS
<1>5. \A x \in Events :
        Later(d, 1)[x] = IF d.since[x] + 1 < Limit(x, d.wlat) THEN d.since[x] + 1
                                                             ELSE Limit(x, d.wlat)
  BY DEF Later
<1>6. \A x \in Events : Limit(x, d.wlat) \in Nat /\ Limit(x, d.wlat) >= 1
  BY LimitIs
<1> HIDE DEF v1, v2, v3, v4, v5, v6, v8, v9, e
<1>7. /\ e.wlat = d.wlat /\ e.mirrored = d.mirrored /\ e.tinit = d.tinit
      /\ e.treset = d.treset /\ e.since = v1 /\ e.held = v7 /\ e.open = v8
  <2> HIDE DEF v7
  <2> QED
    BY <1>1 DEF Fields
<1>8. \A x \in Events : v1[x] \in 0 .. Limit(x, d.wlat)
  <2> TAKE x \in Events
  <2>1. d.since[x] \in 0 .. Limit(x, d.wlat)
    BY DEF Timely
  <2>2. CASE x = EventOf(d, c)
    BY <1>4, <1>6, <2>2
  <2>3. CASE x # EventOf(d, c)
    <3>1. v1[x] = IF d.since[x] + 1 < Limit(x, d.wlat) THEN d.since[x] + 1
                                                      ELSE Limit(x, d.wlat)
      BY <1>4, <1>5, <2>3
    <3> QED
      BY <1>6, <2>1, <3>1
  <2> QED
    BY <2>2, <2>3
<1>9. Timely(e)
  BY <1>3, <1>4, <1>7, <1>8 DEF Timely
<1> QED
  BY <1>2, <1>4, <1>5, <1>7, <1>9 DEF e

LEMMA QuietenTimes ==
    ASSUME NEW d, DOMAIN d = Fields, d.wlat \in Nat, Timely(d), NEW n \in Nat
    PROVE  LET e == Quieten(d, n)
           IN /\ e.wlat = d.wlat /\ e.mirrored = d.mirrored
              /\ e.tinit = d.tinit /\ e.treset = d.treset /\ e.held = d.held
              /\ Timely(e)
              /\ \A x \in Events :
                    e.since[x] = IF d.since[x] + n < Limit(x, d.wlat) THEN d.since[x] + n
                                                                     ELSE Limit(x, d.wlat)
<1> DEFINE v1 == Later(d, n)
           v2 == [x \in Cells |-> IF \E f \in d.flight : f.at = x THEN "garbage" ELSE d.cell[x]]
           e == Quieten(d, n)
<1>1. e = [d EXCEPT !.since = v1, !.flight = {}, !.dqs = FALSE, !.cell = v2]
  BY Zenon DEF Quieten
<1>2. /\ DOMAIN v1 = Events
      /\ \A x \in Events :
            v1[x] = IF d.since[x] + n < Limit(x, d.wlat) THEN d.since[x] + n
                                                        ELSE Limit(x, d.wlat)
  BY DEF Later
<1>3. \A x \in Events : Limit(x, d.wlat) \in Nat /\ Limit(x, d.wlat) >= 1
  BY LimitIs
<1> HIDE DEF v1, v2, e
<1>4. /\ e.wlat = d.wlat /\ e.mirrored = d.mirrored /\ e.tinit = d.tinit
      /\ e.treset = d.treset /\ e.since = v1 /\ e.held = d.held
  BY <1>1 DEF Fields
<1>5. \A x \in Events : v1[x] \in 0 .. Limit(x, d.wlat)
  <2> TAKE x \in Events
  <2>1. d.since[x] \in 0 .. Limit(x, d.wlat)
    BY DEF Timely
  <2> QED
    BY <1>2, <1>3, <2>1
<1>6. Timely(e)
  BY <1>2, <1>4, <1>5 DEF Timely
<1> QED
  BY <1>2, <1>4, <1>6 DEF e

LEMMA BoardTimes ==
    ASSUME board \in Boards
    PROVE  /\ Wlat \in 1 .. 25 /\ Tinit \in Nat /\ Treset \in Nat
           /\ WriteClocks \in Nat /\ WriteClocks >= 4
<1>1. board.wl \in 0 .. MaxCntr /\ board.wl <= 24 /\ MaxCntr \in Nat
  BY BoardAssumption, TimingAssumption, CntrAssumption
<1>2. Wlat \in 1 .. 25
  BY <1>1 DEF Wlat
<1>3. /\ TinitCntrs[1] \in Nat /\ TinitCntrs[2] \in Nat /\ TinitCntrs[3] \in Nat
      /\ TresetCntrs[1] \in Nat /\ TresetCntrs[2] \in Nat /\ TresetCntrs[3] \in Nat
  <2>1. \A c \in 1 .. 3 : TinitCntrs[c] \in 0 .. MaxCntr /\ TresetCntrs[c] \in 0 .. MaxCntr
    BY CommandsAssumption
  <2>2. 1 \in 1 .. 3 /\ 2 \in 1 .. 3 /\ 3 \in 1 .. 3 /\ 0 .. MaxCntr \subseteq Nat
    OBVIOUS
  <2> QED
    BY <2>1, <2>2
<1>4. \A x, y, z \in Nat : ResetCycles(x, y, z) \in Nat
  BY DEF ResetCycles
<1>5. Tinit \in Nat /\ Treset \in Nat
  BY <1>3, <1>4 DEF Tinit, Treset
<1> QED
  BY <1>2, <1>5, CommandsAssumption, TimingAssumption

(* What a clock does to the times of a rank of the board.                  *)
LEMMA ClockedTimes ==
    ASSUME board \in Boards, DramInv, BuiltInv, Clocked, NEW r \in Ranks
    PROVE  LET d == dram[r]  e == dram'[r]  c == Sent(r)
           IN /\ d.wlat = Wlat /\ e.wlat = d.wlat /\ e.mirrored = d.mirrored
              /\ e.tinit = d.tinit /\ e.treset = d.treset
              /\ Timely(d) /\ Timely(e)
              /\ EventOf(d, c) \in Events => e.since[EventOf(d, c)] = 1
              /\ \A x \in Events : x # EventOf(d, c) =>
                    e.since[x] = IF d.since[x] + 1 < Limit(x, Wlat) THEN d.since[x] + 1
                                                                   ELSE Limit(x, Wlat)
              /\ e.held = IF PhaseAfter(d, c) # d.phase THEN 1
                          ELSE IF d.held < d.tinit + d.treset THEN d.held + 1 ELSE d.held
              /\ c.kind = "act" => e.open = d.open \cup {c.bank}
<1>1. dram'[r] = Clock(dram[r], Sent(r), Bus(AcWord(ip), Data(ip)))
  BY DEF Clocked, Played, Sent
<1>2. /\ DOMAIN dram[r] = Fields /\ dram[r].wlat = Wlat /\ Timely(dram[r])
      /\ dram[r].tinit = Tinit /\ dram[r].treset = Treset
  BY DEF DramInv, BuiltInv
<1>3. Wlat \in Nat /\ Tinit \in Nat /\ Treset \in Nat
  BY BoardTimes
<1> QED
  BY <1>1, <1>2, <1>3, ClockTimes

LEMMA WrittenTimes ==
    ASSUME board \in Boards, DramInv, BuiltInv, Write, NEW r \in Ranks
    PROVE  LET d == dram[r]  e == dram'[r]
           IN /\ d.wlat = Wlat /\ e.wlat = d.wlat /\ e.mirrored = d.mirrored
              /\ e.tinit = d.tinit /\ e.treset = d.treset /\ e.held = d.held
              /\ Timely(d) /\ Timely(e)
              /\ \A x \in Events :
                    e.since[x] = IF d.since[x] + WriteClocks < Limit(x, Wlat)
                                 THEN d.since[x] + WriteClocks ELSE Limit(x, Wlat)
<1>1. dram'[r] = Quieten(dram[r], WriteClocks)
  BY DEF Write
<1>2. DOMAIN dram[r] = Fields /\ dram[r].wlat = Wlat /\ Timely(dram[r])
  BY DEF DramInv, BuiltInv
<1>3. Wlat \in Nat /\ WriteClocks \in Nat
  BY BoardTimes
<1> QED
  BY <1>1, <1>2, <1>3, QuietenTimes

(* Time passes: an event that does not happen lies back one clock more.    *)
LEMMA Passes ==
    ASSUME board \in Boards, DramInv, BuiltInv, Clocked, NEW r \in Ranks, NEW x \in Events
    PROVE  /\ dram[r].since[x] \in Nat /\ dram'[r].since[x] \in Nat
           /\ x = EventOf(dram[r], Sent(r)) => dram'[r].since[x] = 1
           /\ AtLeast(dram'[r], x, 1)
           /\ x # EventOf(dram[r], Sent(r)) =>
                 /\ \A n \in Int : AtLeast(dram[r], x, n) => AtLeast(dram'[r], x, n + 1)
                 /\ dram[r].since[x] = Limit(x, Wlat) => dram'[r].since[x] = Limit(x, Wlat)
<1> DEFINE d == dram[r]
           e == dram'[r]
           c == Sent(r)
           L == Limit(x, Wlat)
<1>1. /\ d.wlat = Wlat /\ e.wlat = Wlat
      /\ Timely(d) /\ Timely(e)
      /\ EventOf(d, c) \in Events => e.since[EventOf(d, c)] = 1
      /\ x # EventOf(d, c) =>
            e.since[x] = IF d.since[x] + 1 < L THEN d.since[x] + 1 ELSE L
  BY ClockedTimes
<1>2. L \in Nat /\ L >= 1
  BY BoardTimes, LimitIs
<1>3. d.since[x] \in 0 .. L /\ e.since[x] \in 0 .. L
  BY <1>1 DEF Timely
<1>4. AtLeast(e, x, 1)
  <2>1. CASE x = EventOf(d, c)
    BY <1>1, <2>1 DEF AtLeast
  <2>2. CASE x # EventOf(d, c)
    <3>1. e.since[x] >= 1
      BY <1>1, <1>2, <1>3, <2>2
    <3> QED
      BY <3>1 DEF AtLeast
  <2> QED
    BY <2>1, <2>2
<1>5. ASSUME NEW n \in Int, AtLeast(d, x, n), x # EventOf(d, c) PROVE AtLeast(e, x, n + 1)
  <2>1. d.since[x] >= n \/ d.since[x] = L
    BY <1>1, <1>5 DEF AtLeast
  <2>2. e.since[x] >= n + 1 \/ e.since[x] = L
    BY <1>1, <1>2, <1>3, <1>5, <2>1
  <2> QED
    BY <1>1, <2>2 DEF AtLeast
<1>6. ASSUME d.since[x] = L, x # EventOf(d, c) PROVE e.since[x] = L
  BY <1>1, <1>2, <1>6
<1> QED
  BY <1>1, <1>3, <1>4, <1>5, <1>6

LEMMA Rests ==
    ASSUME board \in Boards, DramInv, BuiltInv, Write, NEW r \in Ranks, NEW x \in Events
    PROVE  /\ dram[r].since[x] \in Nat /\ dram'[r].since[x] \in Nat
           /\ \A n \in Int : AtLeast(dram[r], x, n) => AtLeast(dram'[r], x, n + WriteClocks)
           /\ dram[r].since[x] = Limit(x, Wlat) => dram'[r].since[x] = Limit(x, Wlat)
<1> DEFINE d == dram[r]
           e == dram'[r]
           L == Limit(x, Wlat)
           w == WriteClocks
<1>1. /\ d.wlat = Wlat /\ e.wlat = Wlat
      /\ Timely(d) /\ Timely(e)
      /\ e.since[x] = IF d.since[x] + w < L THEN d.since[x] + w ELSE L
  BY WrittenTimes
<1>2. L \in Nat /\ L >= 1 /\ w \in Nat
  BY BoardTimes, LimitIs
<1>3. d.since[x] \in 0 .. L /\ e.since[x] \in 0 .. L
  BY <1>1 DEF Timely
<1> HIDE DEF L, w
<1>5. ASSUME NEW n \in Int, AtLeast(d, x, n) PROVE AtLeast(e, x, n + w)
  <2>1. d.since[x] >= n \/ d.since[x] = L
    BY <1>1, <1>5 DEF AtLeast, L
  <2>2. e.since[x] >= n + w \/ e.since[x] = L
    BY <1>1, <1>2, <1>3, <2>1
  <2> QED
    BY <1>1, <2>2 DEF AtLeast, L
<1>6. ASSUME d.since[x] = L PROVE e.since[x] = L
  BY <1>1, <1>2, <1>6
<1> QED
  BY <1>3, <1>5, <1>6 DEF L, w

(* What at least means where a rule looks no further, or just as far.      *)
LEMMA Enough ==
    ASSUME board \in Boards, BuiltInv, NEW r \in Ranks, NEW x \in Events, NEW n \in Int,
           AtLeast(dram[r], x, n)
    PROVE  /\ dram[r].since[x] \in Nat
           /\ \A m \in Int : m <= n => AtLeast(dram[r], x, m)
           /\ \A m \in Int : m <= n /\ m <= Limit(x, Wlat) => dram[r].since[x] >= m
           /\ n >= Limit(x, Wlat) => dram[r].since[x] = Limit(x, Wlat)
<1>1. dram[r].since[x] \in 0 .. Limit(x, Wlat) /\ dram[r].wlat = Wlat
  BY DEF BuiltInv, Timely
<1>2. Limit(x, Wlat) \in Nat
  BY BoardTimes, LimitIs
<1>3. dram[r].since[x] >= n \/ dram[r].since[x] = Limit(x, Wlat)
  BY <1>1 DEF AtLeast
<1> QED
  BY <1>1, <1>2, <1>3 DEF AtLeast

LEMMA BuiltInit == CInit => BuiltInv
<1> SUFFICES ASSUME CInit, NEW r \in Ranks
             PROVE  /\ dram[r].wlat = Wlat /\ dram[r].mirrored = (r \in board.mirrored)
                    /\ dram[r].tinit = Tinit /\ dram[r].treset = Treset
                    /\ Timely(dram[r])
  BY DEF BuiltInv
<1> DEFINE m == r \in board.mirrored
<1>1. dram[r] = PowerUp(Wlat, m, Tinit, Treset)
  BY DEF CInit, Tinit, Treset
<1>2. Wlat \in Nat
  <2>1. board \in Boards
    BY Zenon DEF CInit
  <2>2. Wlat \in 1 .. 25
    BY <2>1, BoardTimes
  <2> QED
    BY <2>2
<1> HIDE DEF m
<1>3. /\ dram[r].wlat = Wlat /\ dram[r].mirrored = m /\ dram[r].tinit = Tinit
      /\ dram[r].treset = Treset /\ dram[r].held = 0
      /\ dram[r].since = [e \in Events |-> Limit(e, Wlat)]
  BY <1>1 DEF PowerUp
<1>4. \A e \in Events : Limit(e, Wlat) \in Nat
  BY <1>2, LimitIs
<1>5. Timely(dram[r])
  BY <1>3, <1>4 DEF Timely
<1> QED
  BY <1>3, <1>5 DEF m

LEMMA BuiltStep ==
    ASSUME board \in Boards, DramInv, BuiltInv, [CNext]_vars
    PROVE  BuiltInv' /\ Ranks' = Ranks /\ Wlat' = Wlat
<1>1. board' = board
  BY BoardStays
<1>2. Ranks' = Ranks /\ Wlat' = Wlat /\ Tinit' = Tinit /\ Treset' = Treset
  BY <1>1 DEF Ranks, Wlat, Tinit, Treset
<1>3. \A r \in Ranks :
        /\ dram[r].wlat = Wlat /\ dram[r].mirrored = (r \in board.mirrored)
        /\ dram[r].tinit = Tinit /\ dram[r].treset = Treset /\ Timely(dram[r])
  BY DEF BuiltInv
<1> DEFINE Built(w, m, t, u, e) ==
             e.wlat = w /\ e.mirrored = m /\ e.tinit = t /\ e.treset = u /\ Timely(e)
<1>4. SUFFICES \A r \in Ranks : Built(Wlat, r \in board.mirrored, Tinit, Treset, dram'[r])
  <2>1. ASSUME \A r \in Ranks : Built(Wlat, r \in board.mirrored, Tinit, Treset, dram'[r])
        PROVE  BuiltInv'
    <3> SUFFICES \A r \in Ranks' :
                   Built(Wlat', r \in board'.mirrored, Tinit', Treset', dram'[r])
      BY Zenon DEF BuiltInv, Built
    <3> HIDE DEF Built
    <3> QED
      BY <1>1, <1>2, <2>1
  <2> QED
    BY <1>2, <2>1
<1> TAKE r \in Ranks
<1>5. CASE Write
  BY <1>3, <1>5, WrittenTimes
<1>6. CASE Clocked
  BY <1>3, <1>6, ClockedTimes
<1>7. CASE dram' = dram
  BY <1>3, <1>7
<1>8. Procedures => dram' = dram
  BY Begins DEF Steps, Call
<1> QED
  BY <1>5, <1>6, <1>7, <1>8 DEF CNext, vars

(* The writes that activate a rank, and those of the patterns.             *)
LEMMA ActivateLayout ==
    ASSUME NEW r
    PROVE  LET s == ActivateRank(r)
           IN /\ Len(s) = 7
              /\ s[1] = SelectOff(r) /\ s[2] = RunReg(18)
              /\ s[3] = LoadCntrReg(0, 15) /\ s[4] = LoadJumpReg(0, 14)
              /\ s[5] = LoadCntrReg(1, 15) /\ s[6] = LoadJumpReg(1, 16)
              /\ s[7] = RunReg(13)
BY DEF ActivateRank, Loop, ACTIVATE_0_AND_1, PRECHARGE_ALL

LEMMA PatternsLayout ==
    ASSUME NEW r
    PROVE  LET s == LoadPatternsRank(r)
           IN /\ Len(s) = 10
              /\ s[1] = SelectReadWrite(r)
              /\ s[2] = LoadCntrReg(0, 32) /\ s[3] = LoadJumpReg(0, 27)
              /\ s[4] = LoadCntrReg(1, 32) /\ s[5] = LoadJumpReg(1, 31)
              /\ s[6] = LoadCntrReg(2, 4) /\ s[7] = LoadJumpReg(2, 25)
              /\ s[8] = LoadCntrReg(3, 4) /\ s[9] = LoadJumpReg(3, 29)
              /\ s[10] = RunReg(24)
BY DEF LoadPatternsRank, Loop, GUARANTEED_WRITE

(* The elements of sequences that are given one by one.                    *)
LEMMA WritesAre ==
    /\ \A c, n : LoadCntrReg(c, n).op = "cntr" /\ LoadCntrReg(c, n).reg = c
                 /\ LoadCntrReg(c, n).val = n
    /\ \A c, a : LoadJumpReg(c, a).op = "jump" /\ LoadJumpReg(c, a).reg = c
                 /\ LoadJumpReg(c, a).val = a
    /\ \A a : RunReg(a).op = "run" /\ RunReg(a).val = a
    /\ PhyReg.op = "phy" /\ SelectAll.op = "all"
    /\ \A r : SelectOff(r).op = "odt_off" /\ SelectReadWrite(r).op = "odt_read_write"
BY DEF LoadCntrReg, LoadJumpReg, RunReg, PhyReg, SelectAll, SelectOff, SelectReadWrite

LEMMA ActivateIs ==
    ASSUME NEW r
    PROVE  LET s == ActivateRank(r)
           IN \A i \in 1 .. Len(s) :
                 /\ Exact(s, i)
                 /\ s[i].op = "run" => s[i].val \in Rows
<1> DEFINE s == ActivateRank(r)
<1>1. /\ Len(s) = 7
      /\ s[1] = SelectOff(r) /\ s[2] = RunReg(18)
      /\ s[3] = LoadCntrReg(0, 15) /\ s[4] = LoadJumpReg(0, 14)
      /\ s[5] = LoadCntrReg(1, 15) /\ s[6] = LoadJumpReg(1, 16)
      /\ s[7] = RunReg(13)
  BY ActivateLayout
<1> HIDE DEF s
<1>2. Pause(s, 1, 1)
  BY <1>1, WritesAre DEF Pause
<1>3. ActivateExact(s, 6)
  BY <1>1, WritesAre DEF ActivateExact, Pause, AimedTo, Aimed, Aims, Loaded
<1>4. ASSUME NEW i \in 1 .. 7, s[i].op = "run"
      PROVE  (i = 2 /\ s[i].val = 18) \/ (i = 7 /\ s[i].val = 13)
  BY <1>1, <1>4, WritesAre
<1>5. ASSUME NEW i \in 1 .. 7 PROVE Exact(s, i) /\ (s[i].op = "run" => s[i].val \in Rows)
  BY <1>2, <1>3, <1>4 DEF Exact, Rows, ACTIVATE_0_AND_1, PRECHARGE_ALL, Modes, WriteTests,
     WRITE_WL_1, WRITE, DmBlock, GUARANTEED_WRITE, GUARANTEED_READ, READ_B2B
<1> QED
  BY <1>1, <1>5 DEF s

LEMMA PatternsIs ==
    ASSUME NEW r
    PROVE  LET s == LoadPatternsRank(r)
           IN \A i \in 1 .. Len(s) :
                 /\ Exact(s, i)
                 /\ s[i].op = "run" => s[i].val = GUARANTEED_WRITE
<1> DEFINE s == LoadPatternsRank(r)
<1>1. /\ Len(s) = 10
      /\ s[1] = SelectReadWrite(r)
      /\ s[2] = LoadCntrReg(0, 32) /\ s[3] = LoadJumpReg(0, 27)
      /\ s[4] = LoadCntrReg(1, 32) /\ s[5] = LoadJumpReg(1, 31)
      /\ s[6] = LoadCntrReg(2, 4) /\ s[7] = LoadJumpReg(2, 25)
      /\ s[8] = LoadCntrReg(3, 4) /\ s[9] = LoadJumpReg(3, 29)
      /\ s[10] = RunReg(24)
  BY PatternsLayout
<1> HIDE DEF s
<1>3. PatternExact(s, 9)
  <2>1. Pause(s, 9, 4)
    BY <1>1, WritesAre DEF Pause
  <2>2. AimedTo(s, 9, 0, 27) /\ AimedTo(s, 9, 1, 31) /\ AimedTo(s, 9, 2, 25) /\ AimedTo(s, 9, 3, 29)
    BY <1>1, WritesAre DEF AimedTo, Aimed, Aims
  <2>3. Loaded(s, 9, 0, 32) /\ Loaded(s, 9, 1, 32) /\ Loaded(s, 9, 2, 4) /\ Loaded(s, 9, 3, 4)
    BY <1>1, WritesAre DEF Loaded
  <2> QED
    BY <2>1, <2>2, <2>3 DEF PatternExact
<1>4. ASSUME NEW i \in 1 .. 10, s[i].op = "run" PROVE i = 10 /\ s[i].val = 24
  BY <1>1, <1>4, WritesAre
<1>5. ASSUME NEW i \in 1 .. 10 PROVE Exact(s, i) /\ (s[i].op = "run" => s[i].val = GUARANTEED_WRITE)
  BY <1>3, <1>4 DEF Exact, Rows, ACTIVATE_0_AND_1, PRECHARGE_ALL, Modes, WriteTests,
     WRITE_WL_1, WRITE, DmBlock, GUARANTEED_WRITE, GUARANTEED_READ, READ_B2B
<1> QED
  BY <1>1, <1>5 DEF s

(* The facts about a run are those about the writes before it.             *)
LEMMA PauseAt ==
    ASSUME NEW t, NEW u, NEW d \in Nat, NEW n \in Nat, NEW k \in Nat, Pause(t, n, k),
           \A j \in 1 .. n : u[d + j] = t[j]
    PROVE  Pause(u, d + n, k)
<1>1. k <= n /\ \A j \in n - k + 1 .. n : t[j].op # "run"
  BY DEF Pause
<1>2. ASSUME NEW j \in (d + n) - k + 1 .. d + n PROVE u[j].op # "run"
  <2>1. j - d \in n - k + 1 .. n /\ j - d \in 1 .. n /\ d + (j - d) = j
    BY <1>1
  <2>2. u[d + (j - d)] = t[j - d]
    BY <2>1
  <2> QED
    BY <1>1, <2>1, <2>2
<1> QED
  BY <1>1, <1>2 DEF Pause

LEMMA ExactAt ==
    ASSUME NEW t, NEW u, NEW d \in Nat, NEW i \in Nat \ {0}, Exact(t, i),
           \A k \in 1 .. i : u[d + k] = t[k]
    PROVE  Exact(u, d + i)
<1> DEFINE n == i - 1
           m == d + n
<1>1. u[d + i] = t[i] /\ (d + i) - 1 = m /\ n \in Nat /\ m \in Nat /\ m >= n
  OBVIOUS
<1>2. \A k \in 1 .. n : u[d + k] = t[k]
  OBVIOUS
<1>3. \A c, B : Aimed(t, n, c, B) => Aimed(u, m, c, B)
  BY <1>1, <1>2, AimedAt
<1>4. \A c, v : Loaded(t, n, c, v) => Loaded(u, m, c, v)
  BY <1>1, <1>2, LoadedAt
<1>5. \A k \in Nat : Pause(t, n, k) => Pause(u, m, k)
  BY <1>1, <1>2, PauseAt
<1> SUFFICES ASSUME t[i].op = "run"
             PROVE  Exact(u, d + i)
  BY <1>1 DEF Exact
<1> DEFINE a == t[i].val
<1>6. /\ 1 \in Nat /\ 2 \in Nat /\ 4 \in Nat /\ (n > 2 => m > 2) /\ (n > 4 => m > 4)
  BY <1>1
<1>7. u[d + i].op = "run" /\ u[d + i].val = a
  BY <1>1
<1>8. /\ ActivateExact(t, n) => ActivateExact(u, m)
      /\ PatternExact(t, n) => PatternExact(u, m)
      /\ WriteExact(t, n, a) => WriteExact(u, m, a)
  <2> HIDE DEF n, m, a
  <2>1. ActivateExact(t, n) => ActivateExact(u, m)
    BY <1>3, <1>4, <1>5, <1>6 DEF ActivateExact, AimedTo
  <2>2. PatternExact(t, n) => PatternExact(u, m)
    BY <1>3, <1>4, <1>5, <1>6 DEF PatternExact, AimedTo
  <2>3. WriteExact(t, n, a) => WriteExact(u, m, a)
    BY <1>3, <1>4, <1>5, <1>6 DEF WriteExact, AimedTo
  <2> QED
    BY <2>1, <2>2, <2>3
<1>9. /\ a \in Modes => Pause(t, n, 2)
      /\ a = PRECHARGE_ALL => Pause(t, n, 1)
      /\ a = ACTIVATE_0_AND_1 => ActivateExact(t, n)
      /\ a = GUARANTEED_WRITE => PatternExact(t, n)
      /\ a = GUARANTEED_READ => AimedTo(t, n, 0, 76) /\ AimedTo(t, n, 1, 84)
      /\ a = READ_B2B =>
            /\ n > 4
            /\ AimedTo(t, n, 0, 89) /\ AimedTo(t, n, 1, 97)
            /\ AimedTo(t, n, 2, 107) /\ AimedTo(t, n, 3, 89)
      /\ a \in WriteTests => WriteExact(t, n, a)
  BY Zenon DEF Exact
<1>10. /\ a \in Modes => Pause(u, m, 2)
       /\ a = PRECHARGE_ALL => Pause(u, m, 1)
       /\ a = ACTIVATE_0_AND_1 => ActivateExact(u, m)
       /\ a = GUARANTEED_WRITE => PatternExact(u, m)
       /\ a = GUARANTEED_READ => AimedTo(u, m, 0, 76) /\ AimedTo(u, m, 1, 84)
       /\ a = READ_B2B =>
             /\ m > 4
             /\ AimedTo(u, m, 0, 89) /\ AimedTo(u, m, 1, 97)
             /\ AimedTo(u, m, 2, 107) /\ AimedTo(u, m, 3, 89)
       /\ a \in WriteTests => WriteExact(u, m, a)
  <2> HIDE DEF n, m, a
  <2> QED
    BY <1>3, <1>5, <1>6, <1>8, <1>9 DEF AimedTo
<1> HIDE DEF n, m, a
<1> QED
  BY <1>1, <1>7, <1>10 DEF Exact

(* Pieces, and how they are strung together.                               *)
LEMMA FitsAre ==
    /\ \A c \in Cntrs : /\ \A n \in 0 .. MaxCntr : LoadCntrReg(c, n) \in Fits
                        /\ \A a \in Addresses : LoadJumpReg(c, a) \in Fits
    /\ \A a \in Entries : RunReg(a) \in Fits
    /\ PhyReg \in Fits
    /\ \A r \in Nat : SelectOff(r) \in Fits /\ SelectReadWrite(r) \in Fits
    /\ SelectAll \in Fits
BY DEF Fits, Body, Selects, LoadCntrReg, LoadJumpReg, RunReg, PhyReg, SelectOff, SelectReadWrite,
   SelectAll

LEMMA ExactIdle ==
    ASSUME NEW t, NEW i, t[i].op = "run" => t[i].val \in Idles \cup Holds \cup {CLEAR_DQS_ENABLE}
    PROVE  Exact(t, i)
BY DEF Exact, Idles, Holds, IDLE_LOOP1, IDLE_LOOP2, INIT_RESET_0_CKE_0, INIT_RESET_1_CKE_0,
   CLEAR_DQS_ENABLE, Modes, PRECHARGE_ALL, ACTIVATE_0_AND_1, GUARANTEED_WRITE, GUARANTEED_READ,
   READ_B2B, WriteTests, WRITE_WL_1, WRITE, DmBlock

LEMMA DelayCounts ==
    /\ Inner(4) = 3 /\ Inner(250) = 249
    /\ Inner(512) = 255 /\ Outer(512) = 1 /\ Runs(512) = 1
BY DEF Inner, Outer, Runs

LEMMA DelayLayout ==
    /\ LET s == delay_for_n_mem_clocks(4)
       IN /\ Len(s) = 3 /\ s \in Seq(Fits)
          /\ s[1] = LoadCntrReg(1, 3) /\ s[2] = LoadJumpReg(1, 123) /\ s[3] = RunReg(123)
    /\ LET s == delay_for_n_mem_clocks(512)
       IN /\ Len(s) = 5 /\ s \in Seq(Fits)
          /\ s[1] = LoadCntrReg(0, 255) /\ s[2] = LoadCntrReg(1, 1)
          /\ s[3] = LoadJumpReg(0, 122) /\ s[4] = LoadJumpReg(1, 122) /\ s[5] = RunReg(122)
<1>1. /\ LoadCntrReg(1, 3) \in Fits /\ LoadJumpReg(1, 123) \in Fits /\ RunReg(123) \in Fits
      /\ LoadCntrReg(0, 255) \in Fits /\ LoadCntrReg(1, 1) \in Fits
      /\ LoadJumpReg(0, 122) \in Fits /\ LoadJumpReg(1, 122) \in Fits /\ RunReg(122) \in Fits
  <2>1. 0 \in Cntrs /\ 1 \in Cntrs /\ 122 \in Addresses /\ 123 \in Addresses
        /\ 122 \in Entries /\ 123 \in Entries
    BY DEF Cntrs, Addresses, Entries, Idles, IDLE_LOOP1, IDLE_LOOP2
  <2>2. 1 \in 0 .. MaxCntr /\ 3 \in 0 .. MaxCntr /\ 255 \in 0 .. MaxCntr
    BY CommandsAssumption, CntrAssumption
  <2> QED
    BY <2>1, <2>2, FitsAre
<1>2. LET s == delay_for_n_mem_clocks(4)
      IN /\ Len(s) = 3 /\ s \in Seq(Fits)
         /\ s[1] = LoadCntrReg(1, 3) /\ s[2] = LoadJumpReg(1, 123) /\ s[3] = RunReg(123)
  BY <1>1, DelayCounts DEF delay_for_n_mem_clocks, IDLE_LOOP1, Loop
<1>3. LET s == delay_for_n_mem_clocks(512)
      IN /\ Len(s) = 5 /\ s \in Seq(Fits)
         /\ s[1] = LoadCntrReg(0, 255) /\ s[2] = LoadCntrReg(1, 1)
         /\ s[3] = LoadJumpReg(0, 122) /\ s[4] = LoadJumpReg(1, 122) /\ s[5] = RunReg(122)
  BY <1>1, DelayCounts DEF delay_for_n_mem_clocks, IDLE_LOOP2, Times
<1> QED
  BY <1>2, <1>3

LEMMA ModeLayout ==
    ASSUME NEW a \in Modes
    PROVE  LET s == LoadMode(a)
           IN /\ Len(s) = 3 /\ s \in Seq(Fits)
              /\ s[1] = LoadCntrReg(0, MaxCntr) /\ s[2] = LoadJumpReg(0, 1) /\ s[3] = RunReg(a)
<1>1. LoadCntrReg(0, MaxCntr) \in Fits /\ LoadJumpReg(0, 1) \in Fits /\ RunReg(a) \in Fits
  <2>1. 0 \in Cntrs /\ 1 \in Addresses /\ a \in Entries /\ MaxCntr \in 0 .. MaxCntr
    BY CntrAssumption DEF Cntrs, Addresses, Entries
  <2> QED
    BY <2>1, FitsAre
<1> QED
  BY <1>1 DEF LoadMode, set_jump_as_return, Loop, RETURN

(* A piece is a mode, alone or with a delay after it.                      *)
LEMMA LoadPiece ==
    ASSUME NEW a \in Modes
    PROVE  Piece(LoadMode(a), a)
<1> DEFINE s == LoadMode(a)
<1>1. /\ Len(s) = 3 /\ s \in Seq(Fits)
      /\ s[1] = LoadCntrReg(0, MaxCntr) /\ s[2] = LoadJumpReg(0, 1) /\ s[3] = RunReg(a)
  BY ModeLayout
<1> HIDE DEF s
<1>2. Pause(s, 2, 2)
  BY <1>1, WritesAre DEF Pause
<1>3. \A i \in 1 .. 3 : s[i].op = "run" => i = 3
  BY <1>1, WritesAre
<1>4. Exact(s, 3)
  BY <1>1, <1>2, WritesAre DEF Exact, Modes, PRECHARGE_ALL, ACTIVATE_0_AND_1, GUARANTEED_WRITE,
     GUARANTEED_READ, READ_B2B, WriteTests, WRITE_WL_1, WRITE, DmBlock
<1>5. \A i \in 1 .. 3 : Exact(s, i)
  BY <1>3, <1>4 DEF Exact
<1> QED
  BY <1>1, <1>3, <1>5 DEF Piece, s

LEMMA DelayPiece ==
    ASSUME NEW s, NEW a, Piece(s, a), NEW t \in Seq(Fits),
           \A i \in 1 .. Len(t) : t[i].op = "run" => t[i].val \in Idles
    PROVE  Piece(s \o t, a)
<1> DEFINE u == s \o t
<1>1. /\ s \in Seq(Fits) /\ Len(s) >= 3 /\ s[3] = RunReg(a)
      /\ \A i \in 1 .. Len(s) : Exact(s, i) /\ (i # 3 /\ s[i].op = "run" => s[i].val \in Idles)
  BY DEF Piece
<1>2. /\ u \in Seq(Fits) /\ Len(u) = Len(s) + Len(t)
      /\ Len(s) \in Nat /\ Len(t) \in Nat
      /\ \A i \in 1 .. Len(s) : u[i] = s[i]
      /\ \A i \in 1 .. Len(t) : u[Len(s) + i] = t[i]
  BY <1>1, Joined
<1> HIDE DEF u
<1>3. ASSUME NEW i \in 1 .. Len(s)
      PROVE  Exact(u, i) /\ (i # 3 /\ u[i].op = "run" => u[i].val \in Idles)
  <2>1. i \in Nat \ {0} /\ 0 + i = i /\ \A k \in 1 .. i : u[0 + k] = s[k]
    BY <1>2
  <2>2. Exact(u, 0 + i)
    BY <1>1, <2>1, ExactAt
  <2> QED
    BY <1>1, <1>2, <2>1, <2>2
<1>4. ASSUME NEW i \in 1 .. Len(u), i \notin 1 .. Len(s)
      PROVE  Exact(u, i) /\ (u[i].op = "run" => u[i].val \in Idles)
  <2>1. i - Len(s) \in 1 .. Len(t) /\ Len(s) + (i - Len(s)) = i
    BY <1>2, <1>4
  <2>2. u[i] = t[i - Len(s)]
    BY <1>2, <2>1
  <2> QED
    BY <2>1, <2>2, ExactIdle
<1>5. u[3] = RunReg(a) /\ Len(u) >= 3
  BY <1>1, <1>2
<1> QED
  BY <1>2, <1>3, <1>4, <1>5 DEF Piece, u

LEMMA ModePiece ==
    ASSUME NEW a \in Modes
    PROVE  Piece(ModeThenDelay(a), a)
<1> DEFINE t == delay_for_n_mem_clocks(4)
<1>1. /\ Len(t) = 3 /\ t \in Seq(Fits)
      /\ t[1] = LoadCntrReg(1, 3) /\ t[2] = LoadJumpReg(1, 123) /\ t[3] = RunReg(123)
  BY DelayLayout
<1> HIDE DEF t
<1>2. \A i \in 1 .. Len(t) : t[i].op = "run" => t[i].val \in Idles
  BY <1>1, WritesAre DEF Idles, IDLE_LOOP1
<1>3. Piece(LoadMode(a) \o t, a)
  BY <1>1, <1>2, LoadPiece, DelayPiece
<1> QED
  BY <1>3 DEF ModeThenDelay, t

LEMMA AfterIs == MrAfter(0) = 2 /\ MrAfter(2) = 3 /\ MrAfter(3) = 1 /\ MrAfter(1) = 0
BY DEF MrAfter

LEMMA OrderAt ==
    ASSUME NEW s \in Seq(Fits), NEW t \in Seq(Fits), NEW i \in 1 .. Len(s)
    PROVE  LET u == s \o t
           IN /\ Exact(s, i) => Exact(u, i)
              /\ \A m : InOrder(s, i, m) => InOrder(u, i, m)
<1> DEFINE u == s \o t
<1>1. Len(s) \in Nat /\ \A k \in 1 .. Len(s) : u[k] = s[k]
  BY Joined
<1> HIDE DEF u
<1>2. i \in Nat \ {0} /\ 0 + i = i /\ i - 1 \in Nat /\ \A k \in 1 .. i : u[0 + k] = s[k]
  BY <1>1
<1>3. ASSUME Exact(s, i) PROVE Exact(u, i)
  <2>1. Exact(u, 0 + i)
    BY <1>2, <1>3, ExactAt
  <2> QED
    BY <1>2, <2>1
<1>4. \A k \in 1 .. i : u[k] = s[k]
  BY <1>1
<1>5. /\ NoMode(s, i - 1) => NoMode(u, i - 1)
      /\ \A b : LastMode(s, i - 1, b) => LastMode(u, i - 1, b)
  <2>1. \A k \in 1 .. i - 1 : u[k] = s[k]
    BY <1>4
  <2>2. \A b : LastMode(s, i - 1, b) => LastMode(u, i - 1, b)
    <3> SUFFICES ASSUME NEW b, LastMode(s, i - 1, b) PROVE LastMode(u, i - 1, b)
      OBVIOUS
    <3>1. PICK j \in 1 .. i - 1 :
            ModeRun(s[j]) /\ s[j].val = b /\ \A k \in j + 1 .. i - 1 : ~ModeRun(s[k])
      BY DEF LastMode
    <3>2. \A k \in j + 1 .. i - 1 : u[k] = s[k]
      BY <2>1, <3>1
    <3> QED
      BY <2>1, <3>1, <3>2 DEF LastMode
  <2> QED
    BY <2>1, <2>2 DEF NoMode
<1>6. ASSUME NEW m, InOrder(s, i, m) PROVE InOrder(u, i, m)
  BY <1>4, <1>5, <1>6 DEF InOrder, Follows
<1> QED
  BY <1>3, <1>6 DEF u

LEMMA PieceIs ==
    ASSUME NEW t, NEW a, Piece(t, a)
    PROVE  /\ t \in Seq(Fits) /\ Len(t) >= 3 /\ t[3] = RunReg(a)
           /\ \A i \in 1 .. Len(t) :
                 /\ Exact(t, i)
                 /\ i # 3 /\ t[i].op = "run" => t[i].val \in Idles
BY DEF Piece

LEMMA Ordering ==
    ASSUME NEW s, NEW t, NEW m \in BOOLEAN, NEW b, NEW E, Modes \cup Idles \subseteq E,
           NEW a \in Registers, Ordered(s, m, b, E), Piece(t, a),
           a \in Mirrors <=> m, b # 0 => b \in Registers,
           IF b = 0 THEN MrOf(a) = 2 ELSE MrAfter(MrOf(b)) = MrOf(a)
    PROVE  Ordered(s \o t, m, a, E)
<1> DEFINE u == s \o t
           l == Len(s)
<1>1. /\ s \in Seq(Fits) /\ t \in Seq(Fits) /\ Len(t) >= 3 /\ t[3] = RunReg(a)
      /\ \A i \in 1 .. Len(t) :
            /\ Exact(t, i)
            /\ i # 3 /\ t[i].op = "run" => t[i].val \in Idles
  <2>1. s \in Seq(Fits)
    BY Zenon DEF Ordered
  <2> QED
    BY <2>1, PieceIs
<1>2. /\ u \in Seq(Fits) /\ Len(u) = l + Len(t) /\ l \in Nat /\ Len(t) \in Nat
      /\ \A i \in 1 .. l : u[i] = s[i]
      /\ \A i \in 1 .. Len(t) : u[l + i] = t[i]
  BY <1>1, Joined
<1>3. \A i \in 1 .. l :
        /\ Exact(s, i) /\ InOrder(s, i, m)
        /\ s[i].op = "run" => s[i].val \in E \ {ZQCL}
  BY DEF Ordered
<1>4. ASSUME NEW i \in 1 .. l
      PROVE  /\ Exact(u, i) /\ InOrder(u, i, m)
             /\ u[i].op = "run" => u[i].val \in E \ {ZQCL}
  <2>1. (Exact(s, i) => Exact(u, i)) /\ (InOrder(s, i, m) => InOrder(u, i, m))
    BY <1>1, OrderAt
  <2> HIDE DEF u, l
  <2> QED
    BY <1>2, <1>3, <2>1
<1> HIDE DEF u, l
<1>5. \A x \in Idles : x \notin Registers /\ x \in E /\ x # ZQCL
  BY DEF Idles, IDLE_LOOP1, IDLE_LOOP2, Registers, ZQCL
<1>6. a \in E /\ a # ZQCL
  BY DEF Registers, Modes, ZQCL
<1>7. Follows(u, l + 2, a)
  <2>1. ~ModeRun(u[l + 1]) /\ ~ModeRun(u[l + 2])
    <3>1. 1 \in 1 .. Len(t) /\ 2 \in 1 .. Len(t)
      BY <1>1, <1>2
    <3>2. u[l + 1] = t[1] /\ u[l + 2] = t[2] /\ 1 # 3 /\ 2 # 3
      BY <1>2, <3>1
    <3>3. /\ t[1].op = "run" => t[1].val \in Idles
          /\ t[2].op = "run" => t[2].val \in Idles
      BY <1>1, <3>1, <3>2
    <3> QED
      BY <1>5, <3>2, <3>3 DEF ModeRun
  <2>2. \A k \in 1 .. l + 2 : k \in 1 .. l \/ k = l + 1 \/ k = l + 2
    BY <1>2
  <2>3. IF b = 0 THEN NoMode(s, l) ELSE LastMode(s, l, b)
    BY DEF Ordered, l
  <2>4. CASE b = 0
    <3>1. NoMode(u, l + 2)
      BY <1>2, <2>1, <2>2, <2>3, <2>4 DEF NoMode
    <3>2. MrOf(a) = 2
      BY <2>4
    <3> QED
      BY Zenon, <3>1, <3>2 DEF Follows
  <2>5. CASE b # 0
    <3>1. PICK j \in 1 .. l : ModeRun(s[j]) /\ s[j].val = b /\ \A k \in j + 1 .. l : ~ModeRun(s[k])
      BY <2>3, <2>5 DEF LastMode
    <3>2. \A k \in j + 1 .. l + 2 : ~ModeRun(u[k])
      <4> TAKE k \in j + 1 .. l + 2
      <4>1. k \in j + 1 .. l \/ k = l + 1 \/ k = l + 2
        BY <1>2
      <4>2. k \in j + 1 .. l => u[k] = s[k]
        BY <1>2
      <4> QED
        BY <2>1, <3>1, <4>1, <4>2
    <3>3. j \in 1 .. l + 2 /\ u[j] = s[j]
      BY <1>2, <3>1
    <3>4. LastMode(u, l + 2, b)
      BY <3>1, <3>2, <3>3 DEF LastMode
    <3> QED
      BY <2>5, <3>4 DEF Follows
  <2> QED
    BY <2>4, <2>5
<1>8. u[l + 3] = RunReg(a) /\ l + 3 \in 1 .. Len(u)
  BY <1>1, <1>2
<1>9. ASSUME NEW i \in 1 .. Len(u), i \notin 1 .. l
      PROVE  /\ Exact(u, i) /\ InOrder(u, i, m)
             /\ u[i].op = "run" => u[i].val \in E \ {ZQCL}
  <2> DEFINE k == i - l
  <2>1. k \in 1 .. Len(t) /\ i = l + k /\ k \in Nat \ {0}
    BY <1>2, <1>9
  <2> HIDE DEF k
  <2>2. u[i] = t[k] /\ \A j \in 1 .. k : u[l + j] = t[j]
    BY <1>2, <2>1
  <2>3. Exact(u, i)
    BY <1>1, <1>2, <2>1, <2>2, ExactAt
  <2>4. CASE k = 3
    <3>1. u[i] = RunReg(a) /\ i - 1 = l + 2
      BY <1>1, <1>2, <2>1, <2>2, <2>4
    <3>2. u[i].op = "run" /\ u[i].val = a
      BY <3>1, WritesAre
    <3> QED
      BY <1>6, <1>7, <2>3, <3>1, <3>2 DEF InOrder
  <2>5. CASE k # 3
    <3>1. u[i].op = "run" => u[i].val \in Idles
      BY <1>1, <2>1, <2>2, <2>5
    <3> QED
      BY <1>5, <2>3, <3>1 DEF InOrder, ModeRun
  <2> QED
    BY <2>4, <2>5
<1>10. LastMode(u, Len(u), a)
  <2>1. ASSUME NEW k \in (l + 3) + 1 .. Len(u) PROVE ~ModeRun(u[k])
    <3>1. k - l \in 1 .. Len(t) /\ k - l # 3 /\ l + (k - l) = k
      BY <1>2
    <3>2. u[k] = t[k - l]
      BY <1>2, <3>1
    <3> QED
      BY <1>1, <1>5, <3>1, <3>2 DEF ModeRun
  <2>2. ModeRun(u[l + 3]) /\ u[l + 3].val = a
    BY <1>8, WritesAre DEF ModeRun
  <2> QED
    BY <1>8, <2>1, <2>2 DEF LastMode
<1>11. a # 0
  BY DEF Registers
<1> QED
  BY <1>2, <1>4, <1>9, <1>10, <1>11 DEF Ordered, u

Cat(s, t) == s \o t

LEMMA Regroup ==
    ASSUME NEW p, NEW s, NEW t, p \in Seq(Fits), s \in Seq(Fits), t \in Seq(Fits)
    PROVE  Cat(Cat(p, s), t) = Cat(p, Cat(s, t)) /\ Cat(p, s) \in Seq(Fits)
BY ConcatAssociative DEF Cat

LEMMA RegroupFour ==
    ASSUME NEW p, NEW s, NEW t, NEW u, NEW v, p \in Seq(Fits), s \in Seq(Fits),
           t \in Seq(Fits), u \in Seq(Fits), v \in Seq(Fits)
    PROVE  Cat(Cat(Cat(Cat(p, s), t), u), v) = Cat(p, Cat(Cat(Cat(s, t), u), v))
<1>1. Cat(s, t) \in Seq(Fits) /\ Cat(Cat(s, t), u) \in Seq(Fits)
  BY Regroup
<1>2. Cat(Cat(p, s), t) = Cat(p, Cat(s, t))
  BY Regroup
<1>3. Cat(Cat(p, Cat(s, t)), u) = Cat(p, Cat(Cat(s, t), u))
  BY <1>1, Regroup
<1>4. Cat(Cat(p, Cat(Cat(s, t), u)), v) = Cat(p, Cat(Cat(Cat(s, t), u), v))
  BY <1>1, Regroup
<1> QED
  BY Zenon, <1>2, <1>3, <1>4

LEMMA FourModes ==
    ASSUME NEW p, NEW m \in BOOLEAN, NEW E, Modes \cup Idles \subseteq E, Ordered(p, m, 0, E),
           NEW a \in Registers, NEW b \in Registers, NEW c \in Registers, NEW d \in Registers,
           MrOf(a) = 2, MrOf(b) = 3, MrOf(c) = 1, MrOf(d) = 0,
           a \in Mirrors <=> m, b \in Mirrors <=> m, c \in Mirrors <=> m, d \in Mirrors <=> m,
           NEW s, NEW t, NEW u, NEW v, Piece(s, a), Piece(t, b), Piece(u, c), Piece(v, d)
    PROVE  Ordered(p \o (s \o t \o u \o v), m, d, E)
<1>1. a # 0 /\ b # 0 /\ c # 0 /\ d # 0
  BY DEF Registers
<1>2. Ordered(p \o s, m, a, E)
  BY Ordering
<1>3. PICK ps : ps = Cat(p, s)
  OBVIOUS
<1>4. PICK pst : pst = Cat(ps, t)
  OBVIOUS
<1>5. PICK pstu : pstu = Cat(pst, u)
  OBVIOUS
<1>6. Ordered(pst, m, b, E)
  <2>1. Ordered(ps, m, a, E) /\ MrAfter(MrOf(a)) = MrOf(b)
    BY <1>2, <1>3, AfterIs DEF Cat
  <2> QED
    BY <1>1, <1>4, <2>1, Ordering DEF Cat
<1>7. Ordered(pstu, m, c, E)
  <2>1. MrAfter(MrOf(b)) = MrOf(c)
    BY AfterIs
  <2> QED
    BY <1>1, <1>5, <1>6, <2>1, Ordering DEF Cat
<1>8. Ordered(Cat(pstu, v), m, d, E)
  <2>1. MrAfter(MrOf(c)) = MrOf(d)
    BY AfterIs
  <2> QED
    BY <1>1, <1>7, <2>1, Ordering DEF Cat
<1>9. p \in Seq(Fits) /\ s \in Seq(Fits) /\ t \in Seq(Fits) /\ u \in Seq(Fits) /\ v \in Seq(Fits)
  <2>1. p \in Seq(Fits)
    BY Zenon DEF Ordered
  <2> QED
    BY <2>1, PieceIs
<1>10. Cat(Cat(Cat(Cat(p, s), t), u), v) = Cat(p, Cat(Cat(Cat(s, t), u), v))
  BY <1>9, RegroupFour
<1>11. Cat(pstu, v) = p \o (s \o t \o u \o v)
  <2>1. Cat(Cat(Cat(Cat(p, s), t), u), v) = p \o (s \o t \o u \o v)
    BY <1>10 DEF Cat
  <2> QED
    BY Zenon, <1>3, <1>4, <1>5, <2>1
<1> QED
  BY Zenon, <1>8, <1>11

LEMMA FirstModes ==
    \A m \in BOOLEAN : \A E : Modes \cup Idles \subseteq E =>
        /\ \A r \in Nat : Ordered(<<SelectOff(r)>>, m, 0, E)
        /\ PRECHARGE_ALL \in E =>
              \A r \in Nat : Ordered(<<SelectOff(r)>> \o <<RunReg(PRECHARGE_ALL)>>, m, 0, E)
<1> SUFFICES ASSUME NEW m \in BOOLEAN, NEW E, Modes \cup Idles \subseteq E, NEW r \in Nat
             PROVE  /\ Ordered(<<SelectOff(r)>>, m, 0, E)
                    /\ PRECHARGE_ALL \in E =>
                          Ordered(<<SelectOff(r)>> \o <<RunReg(PRECHARGE_ALL)>>, m, 0, E)
  OBVIOUS
<1> DEFINE s == <<SelectOff(r)>>
           t == s \o <<RunReg(PRECHARGE_ALL)>>
<1>1. s \in Seq(Fits) /\ Len(s) = 1 /\ s[1].op # "run"
  BY FitsAre, WritesAre
<1>2. t \in Seq(Fits) /\ Len(t) = 2 /\ t[1].op # "run" /\ t[2] = RunReg(PRECHARGE_ALL)
  <2>1. RunReg(PRECHARGE_ALL) \in Fits
    BY FitsAre DEF Entries, Rows
  <2> QED
    BY <2>1, FitsAre, WritesAre
<1> HIDE DEF s, t
<1>3. Ordered(s, m, 0, E)
  BY <1>1 DEF Ordered, Exact, InOrder, ModeRun, NoMode
<1>4. Exact(t, 1) /\ InOrder(t, 1, m) /\ ~ModeRun(t[1])
  BY <1>2 DEF Exact, InOrder, ModeRun
<1>5. /\ Exact(t, 2) /\ InOrder(t, 2, m) /\ ~ModeRun(t[2])
      /\ t[2].val = PRECHARGE_ALL /\ PRECHARGE_ALL # ZQCL
  <2>1. Pause(t, 1, 1)
    BY <1>2 DEF Pause
  <2>2. /\ PRECHARGE_ALL = 18 /\ t[2].op = "run" /\ t[2].val = 18 /\ ZQCL = 6
        /\ 18 \notin Registers /\ 18 \notin Modes \cup WriteTests
    BY <1>2, WritesAre DEF PRECHARGE_ALL, ZQCL, Registers, Modes, WriteTests, WRITE_WL_1, WRITE, DmBlock
  <2> QED
    BY <2>1, <2>2 DEF Exact, InOrder, ModeRun, ACTIVATE_0_AND_1, GUARANTEED_WRITE,
       GUARANTEED_READ, READ_B2B
<1>6. ASSUME PRECHARGE_ALL \in E PROVE Ordered(t, m, 0, E)
  <2>1. \A i \in 1 .. Len(t) : i = 1 \/ i = 2
    BY <1>2
  <2> QED
    BY <1>2, <1>4, <1>5, <1>6, <2>1 DEF Ordered, NoMode
<1> QED
  BY <1>3, <1>6 DEF s, t

LEMMA HandOffIs ==
    ASSUME NEW r \in Nat
    PROVE  HandOffExact(HandOffRank(r), r \in board.mirrored)
<1> DEFINE m == r \in board.mirrored
           p == <<SelectOff(r)>> \o <<RunReg(PRECHARGE_ALL)>>
           wm == ModeThenDelay(10) \o ModeThenDelay(11) \o ModeThenDelay(9) \o LoadMode(12)
           wp == ModeThenDelay(4) \o ModeThenDelay(5) \o ModeThenDelay(3) \o LoadMode(7)
           w == IF m THEN wm ELSE wp
           s == p \o w
<1>1. m \in BOOLEAN
  OBVIOUS
<1>2. /\ Modes \cup Idles \subseteq HandRuns /\ PRECHARGE_ALL \in HandRuns
      /\ {10, 11, 9, 12, 4, 5, 3, 7} \subseteq Modes
      /\ {10, 11, 9, 12, 4, 5, 3, 7} \subseteq Registers
      /\ {10, 11, 9, 12} \subseteq Mirrors /\ {4, 5, 3, 7} \cap Mirrors = {}
      /\ MrOf(10) = 2 /\ MrOf(11) = 3 /\ MrOf(9) = 1 /\ MrOf(12) = 0
      /\ MrOf(4) = 2 /\ MrOf(5) = 3 /\ MrOf(3) = 1 /\ MrOf(7) = 0
  BY DEF HandRuns, Modes, Registers, Mirrors, MrOf
<1>3. Ordered(p, m, 0, HandRuns)
  BY <1>1, <1>2, FirstModes
<1> HIDE DEF p, m
<1>4. m => Ordered(p \o wm, m, 12, HandRuns)
  <2> SUFFICES ASSUME m PROVE Ordered(p \o wm, m, 12, HandRuns)
    OBVIOUS
  <2> DEFINE q1 == ModeThenDelay(10)
             q2 == ModeThenDelay(11)
             q3 == ModeThenDelay(9)
             q4 == LoadMode(12)
  <2>1. Piece(q1, 10) /\ Piece(q2, 11) /\ Piece(q3, 9) /\ Piece(q4, 12)
    BY <1>2, ModePiece, LoadPiece
  <2> HIDE DEF q1, q2, q3, q4
  <2>2. Ordered(p \o (q1 \o q2 \o q3 \o q4), m, 12, HandRuns)
    BY <1>1, <1>2, <1>3, <2>1, FourModes
  <2> QED
    BY <2>2 DEF q1, q2, q3, q4
<1>5. ~m => Ordered(p \o wp, m, 7, HandRuns)
  <2> SUFFICES ASSUME ~m PROVE Ordered(p \o wp, m, 7, HandRuns)
    OBVIOUS
  <2> DEFINE q1 == ModeThenDelay(4)
             q2 == ModeThenDelay(5)
             q3 == ModeThenDelay(3)
             q4 == LoadMode(7)
  <2>1. Piece(q1, 4) /\ Piece(q2, 5) /\ Piece(q3, 3) /\ Piece(q4, 7)
    BY <1>2, ModePiece, LoadPiece
  <2> HIDE DEF q1, q2, q3, q4
  <2>2. Ordered(p \o (q1 \o q2 \o q3 \o q4), m, 7, HandRuns)
    BY <1>1, <1>2, <1>3, <2>1, FourModes
  <2> QED
    BY <2>2 DEF q1, q2, q3, q4
<1>6. \E b \in {7, 12} : Ordered(s, m, b, HandRuns)
  BY <1>4, <1>5
<1> DEFINE NP == {x \in Fits : ~(x.op = "run" /\ x.val = PRECHARGE_ALL)}
<1>7. wm \in Seq(NP) /\ wp \in Seq(NP)
  <2>1. ASSUME NEW a \in Modes, NEW t, Piece(t, a) PROVE t \in Seq(NP)
    <3>1. /\ t \in Seq(Fits) /\ Len(t) >= 3 /\ t[3] = RunReg(a)
          /\ \A i \in 1 .. Len(t) : i # 3 /\ t[i].op = "run" => t[i].val \in Idles
      BY <2>1, PieceIs
    <3>2. /\ RunReg(a).val = a /\ a # PRECHARGE_ALL /\ \A x \in Idles : x # PRECHARGE_ALL
      BY WritesAre DEF Idles, IDLE_LOOP1, IDLE_LOOP2, PRECHARGE_ALL, Modes
    <3>3. \A i \in 1 .. Len(t) : t[i] \in NP
      BY <3>1, <3>2
    <3> HIDE DEF NP
    <3> QED
      BY <3>1, <3>3
  <2>2. \A a \in {10, 11, 9, 4, 5, 3} : ModeThenDelay(a) \in Seq(NP)
    BY <1>2, <2>1, ModePiece
  <2>3. LoadMode(12) \in Seq(NP) /\ LoadMode(7) \in Seq(NP)
    BY <1>2, <2>1, LoadPiece
  <2> HIDE DEF NP
  <2> QED
    BY <2>2, <2>3
<1>8. w \in Seq(NP) /\ w \in Seq(Fits)
  <2>1. w \in Seq(NP)
    BY <1>7
  <2>2. NP \subseteq Fits
    OBVIOUS
  <2> HIDE DEF NP, w
  <2> QED
    BY <2>1, <2>2
<1> HIDE DEF w
<1>9. HandOffRank(r) = s
  <2>1. HandOffRank(r) = <<SelectOff(r)>> \o (<<RunReg(PRECHARGE_ALL)>> \o w)
    BY Zenon DEF HandOffRank, w, wm, wp, m
  <2>2. <<SelectOff(r)>> \in Seq(Fits) /\ <<RunReg(PRECHARGE_ALL)>> \in Seq(Fits)
    <3>1. RunReg(PRECHARGE_ALL) \in Fits /\ SelectOff(r) \in Fits
      BY FitsAre DEF Entries, Rows
    <3> QED
      BY <3>1
  <2>3. <<SelectOff(r)>> \o (<<RunReg(PRECHARGE_ALL)>> \o w) = p \o w
    BY <1>8, <2>2, ConcatAssociative DEF p
  <2> QED
    BY <2>1, <2>3
<1>10. /\ p \in Seq(Fits) /\ Len(p) = 2 /\ p[1].op # "run" /\ p[2] = RunReg(PRECHARGE_ALL)
  <2>1. RunReg(PRECHARGE_ALL) \in Fits
    BY FitsAre DEF Entries, Rows
  <2> QED
    BY <2>1, FitsAre, WritesAre DEF p
<1>11. /\ s \in Seq(Fits) /\ Len(s) \in Nat /\ s[1].op # "run" /\ s[2] = RunReg(PRECHARGE_ALL)
       /\ \A i \in 1 .. Len(w) : s[2 + i] = w[i]
       /\ Len(s) = 2 + Len(w) /\ Len(w) \in Nat
  <2> HIDE DEF p
  <2>1. /\ p \o w \in Seq(Fits) /\ Len(p \o w) = Len(p) + Len(w) /\ Len(w) \in Nat
        /\ \A i \in 1 .. Len(p) : (p \o w)[i] = p[i]
        /\ \A i \in 1 .. Len(w) : (p \o w)[Len(p) + i] = w[i]
    <3>1. p \in Seq(Fits) /\ w \in Seq(Fits)
      BY <1>8, <1>10
    <3> QED
      BY <3>1, Joined
  <2>2. 1 \in 1 .. Len(p) /\ 2 \in 1 .. Len(p) /\ Len(p) = 2
    BY <1>10
  <2> QED
    BY <1>10, <2>1, <2>2
<1>12. \A i \in 1 .. Len(w) : ~(w[i].op = "run" /\ w[i].val = PRECHARGE_ALL)
  BY <1>8
<1> HIDE DEF NP, s
<1>13. PICK b \in {7, 12} : Ordered(s, m, b, HandRuns)
  BY <1>6
<1>14. ASSUME NEW i \in 1 .. Len(s)
       PROVE  /\ Exact(s, i) /\ InOrder(s, i, m)
              /\ s[i].op = "run" => s[i].val \in HandRuns \ {ZQCL}
  BY <1>13 DEF Ordered
<1>15. ASSUME NEW i \in 1 .. Len(s), s[i].op = "run"
       PROVE  IF s[i].val = PRECHARGE_ALL THEN NoMode(s, i - 1) ELSE i > 2
  <2>1. i # 1
    BY <1>11, <1>15
  <2>2. i = 2 => s[i].val = PRECHARGE_ALL /\ NoMode(s, 1)
    BY <1>11, WritesAre DEF NoMode, ModeRun
  <2>3. i > 2 => s[i].val # PRECHARGE_ALL
    <3> SUFFICES ASSUME i > 2 PROVE s[i].val # PRECHARGE_ALL
      OBVIOUS
    <3>1. i - 2 \in 1 .. Len(w) /\ 2 + (i - 2) = i
      BY <1>11
    <3> QED
      BY <1>11, <1>12, <1>15, <3>1
  <2> QED
    BY <2>1, <2>2, <2>3
<1>16. HandOffExact(s, m)
  BY <1>14, <1>15 DEF HandOffExact
<1> QED
  BY <1>9, <1>16 DEF m

(* ZQ calibration and the delay after it.                                  *)
LEMMA ZqLayout ==
    LET t == LoadMode(ZQCL) \o delay_for_n_mem_clocks(512)
    IN /\ t \in Seq(Fits) /\ Len(t) = 8
       /\ t[1].op # "run" /\ t[2].op # "run" /\ t[3] = RunReg(ZQCL)
       /\ t[4] = LoadCntrReg(0, 255) /\ t[5] = LoadCntrReg(1, 1)
       /\ t[6] = LoadJumpReg(0, 122) /\ t[7] = LoadJumpReg(1, 122) /\ t[8] = RunReg(122)
<1> DEFINE z == LoadMode(ZQCL)
           d == delay_for_n_mem_clocks(512)
<1>1. /\ Len(z) = 3 /\ z \in Seq(Fits)
      /\ z[1] = LoadCntrReg(0, MaxCntr) /\ z[2] = LoadJumpReg(0, 1) /\ z[3] = RunReg(ZQCL)
  BY ModeLayout DEF ZQCL, Modes
<1>2. /\ Len(d) = 5 /\ d \in Seq(Fits)
      /\ d[1] = LoadCntrReg(0, 255) /\ d[2] = LoadCntrReg(1, 1)
      /\ d[3] = LoadJumpReg(0, 122) /\ d[4] = LoadJumpReg(1, 122) /\ d[5] = RunReg(122)
  BY DelayLayout
<1> HIDE DEF z, d
<1> DEFINE t == z \o d
<1>3. /\ t \in Seq(Fits) /\ Len(t) = 8
      /\ \A i \in 1 .. 3 : t[i] = z[i]
      /\ \A i \in 1 .. 5 : t[3 + i] = d[i]
  <2>1. z \in Seq(Fits) /\ d \in Seq(Fits)
    BY <1>1, <1>2
  <2>2. /\ t \in Seq(Fits) /\ Len(t) = Len(z) + Len(d)
        /\ \A i \in 1 .. Len(z) : t[i] = z[i]
        /\ \A i \in 1 .. Len(d) : t[Len(z) + i] = d[i]
    BY <2>1, Joined
  <2> HIDE DEF t
  <2> QED
    BY <1>1, <1>2, <2>2
<1> HIDE DEF t
<1>4. /\ t[1] = z[1] /\ t[2] = z[2] /\ t[3] = z[3]
      /\ t[4] = d[1] /\ t[5] = d[2] /\ t[6] = d[3] /\ t[7] = d[4] /\ t[8] = d[5]
  <2>1. /\ 1 \in 1 .. 3 /\ 2 \in 1 .. 3 /\ 3 \in 1 .. 3
        /\ \A i \in 1 .. 5 : i \in {1, 2, 3, 4, 5}
        /\ 1 \in 1 .. 5 /\ 2 \in 1 .. 5 /\ 3 \in 1 .. 5 /\ 4 \in 1 .. 5 /\ 5 \in 1 .. 5
        /\ 3 + 1 = 4 /\ 3 + 2 = 5 /\ 3 + 3 = 6 /\ 3 + 4 = 7 /\ 3 + 5 = 8
    OBVIOUS
  <2> QED
    BY <1>3, <2>1
<1>5. t[1].op # "run" /\ t[2].op # "run"
  BY <1>1, <1>4, WritesAre
<1>6. /\ t \in Seq(Fits) /\ Len(t) = 8
      /\ t[1].op # "run" /\ t[2].op # "run" /\ t[3] = RunReg(ZQCL)
      /\ t[4] = LoadCntrReg(0, 255) /\ t[5] = LoadCntrReg(1, 1)
      /\ t[6] = LoadJumpReg(0, 122) /\ t[7] = LoadJumpReg(1, 122) /\ t[8] = RunReg(122)
  BY <1>1, <1>2, <1>3, <1>4, <1>5
<1> QED
  BY Zenon, <1>6 DEF t, z, d

LEMMA FirstFour ==
    ASSUME NEW r \in Nat
    PROVE  LET m == r \in board.mirrored
               w == IF m
                    THEN ModeThenDelay(10) \o ModeThenDelay(11) \o ModeThenDelay(9) \o LoadMode(8)
                    ELSE ModeThenDelay(4) \o ModeThenDelay(5) \o LoadMode(3) \o LoadMode(2)
           IN /\ w \in Seq(Fits)
              /\ \E b \in {8, 2} : Ordered(<<SelectOff(r)>> \o w, m, b, Modes \cup Idles)
<1> DEFINE m == r \in board.mirrored
           p == <<SelectOff(r)>>
           wm == ModeThenDelay(10) \o ModeThenDelay(11) \o ModeThenDelay(9) \o LoadMode(8)
           wp == ModeThenDelay(4) \o ModeThenDelay(5) \o LoadMode(3) \o LoadMode(2)
           w == IF m THEN wm ELSE wp
           E == Modes \cup Idles
<1>1. m \in BOOLEAN /\ Modes \cup Idles \subseteq E
  OBVIOUS
<1> HIDE DEF E
<1>2. /\ {10, 11, 9, 8, 4, 5, 3, 2} \subseteq Modes
      /\ {10, 11, 9, 8, 4, 5, 3, 2} \subseteq Registers
      /\ {10, 11, 9, 8} \subseteq Mirrors /\ {4, 5, 3, 2} \cap Mirrors = {}
      /\ MrOf(10) = 2 /\ MrOf(11) = 3 /\ MrOf(9) = 1 /\ MrOf(8) = 0
      /\ MrOf(4) = 2 /\ MrOf(5) = 3 /\ MrOf(3) = 1 /\ MrOf(2) = 0
  BY DEF Modes, Registers, Mirrors, MrOf
<1>3. Ordered(p, m, 0, E)
  BY <1>1, FirstModes
<1> HIDE DEF p, m
<1>4. m => wm \in Seq(Fits) /\ Ordered(p \o wm, m, 8, E)
  <2> SUFFICES ASSUME m PROVE wm \in Seq(Fits) /\ Ordered(p \o wm, m, 8, E)
    OBVIOUS
  <2> DEFINE q1 == ModeThenDelay(10)
             q2 == ModeThenDelay(11)
             q3 == ModeThenDelay(9)
             q4 == LoadMode(8)
  <2>1. Piece(q1, 10) /\ Piece(q2, 11) /\ Piece(q3, 9) /\ Piece(q4, 8)
    BY <1>2, ModePiece, LoadPiece
  <2> HIDE DEF q1, q2, q3, q4
  <2>2. Ordered(p \o (q1 \o q2 \o q3 \o q4), m, 8, E)
    BY <1>1, <1>2, <1>3, <2>1, FourModes
  <2>3. q1 \in Seq(Fits) /\ q2 \in Seq(Fits) /\ q3 \in Seq(Fits) /\ q4 \in Seq(Fits)
    BY <2>1, PieceIs
  <2>4. q1 \o q2 \o q3 \o q4 \in Seq(Fits)
    BY <2>3
  <2> QED
    BY <2>2, <2>4 DEF q1, q2, q3, q4
<1>5. ~m => wp \in Seq(Fits) /\ Ordered(p \o wp, m, 2, E)
  <2> SUFFICES ASSUME ~m PROVE wp \in Seq(Fits) /\ Ordered(p \o wp, m, 2, E)
    OBVIOUS
  <2> DEFINE q1 == ModeThenDelay(4)
             q2 == ModeThenDelay(5)
             q3 == LoadMode(3)
             q4 == LoadMode(2)
  <2>1. Piece(q1, 4) /\ Piece(q2, 5) /\ Piece(q3, 3) /\ Piece(q4, 2)
    BY <1>2, ModePiece, LoadPiece
  <2> HIDE DEF q1, q2, q3, q4
  <2>2. Ordered(p \o (q1 \o q2 \o q3 \o q4), m, 2, E)
    BY <1>1, <1>2, <1>3, <2>1, FourModes
  <2>3. q1 \in Seq(Fits) /\ q2 \in Seq(Fits) /\ q3 \in Seq(Fits) /\ q4 \in Seq(Fits)
    BY <2>1, PieceIs
  <2>4. q1 \o q2 \o q3 \o q4 \in Seq(Fits)
    BY <2>3
  <2> QED
    BY <2>2, <2>4 DEF q1, q2, q3, q4
<1>6. w \in Seq(Fits) /\ \E b \in {8, 2} : Ordered(p \o w, m, b, E)
  <2> HIDE DEF wm, wp
  <2> QED
    BY <1>4, <1>5
<1> QED
  BY <1>6 DEF w, wm, wp, p, m, E

LEMMA InitializeIs ==
    ASSUME NEW r \in Nat
    PROVE  InitialExact(InitializeRank(r), r \in board.mirrored)
<1> DEFINE m == r \in board.mirrored
           p == <<SelectOff(r)>>
           w == IF m
                THEN ModeThenDelay(10) \o ModeThenDelay(11) \o ModeThenDelay(9) \o LoadMode(8)
                ELSE ModeThenDelay(4) \o ModeThenDelay(5) \o LoadMode(3) \o LoadMode(2)
           z == LoadMode(ZQCL)
           d == delay_for_n_mem_clocks(512)
           E == Modes \cup Idles
<1>1. w \in Seq(Fits) /\ \E b \in {8, 2} : Ordered(p \o w, m, b, E)
  BY FirstFour
<1>2. InitializeRank(r) = p \o ((w \o z) \o d)
  BY Zenon DEF InitializeRank, ZQCL
<1>3. /\ z \o d \in Seq(Fits) /\ Len(z \o d) = 8
      /\ (z \o d)[1].op # "run" /\ (z \o d)[2].op # "run" /\ (z \o d)[3] = RunReg(ZQCL)
      /\ (z \o d)[4] = LoadCntrReg(0, 255) /\ (z \o d)[5] = LoadCntrReg(1, 1)
      /\ (z \o d)[6] = LoadJumpReg(0, 122) /\ (z \o d)[7] = LoadJumpReg(1, 122)
      /\ (z \o d)[8] = RunReg(122)
  BY ZqLayout
<1>4. p \in Seq(Fits) /\ z \in Seq(Fits) /\ d \in Seq(Fits)
  <2>1. SelectOff(r) \in Fits
    BY FitsAre
  <2> QED
    BY <2>1, ModeLayout, DelayLayout DEF Modes, ZQCL
<1> DEFINE s == p \o w
           t == z \o d
<1> HIDE DEF m, p, w, z, d, E
<1>5. InitializeRank(r) = s \o t
  <2>5. w \in Seq(Fits) /\ z \in Seq(Fits) /\ d \in Seq(Fits)
    BY <1>1, <1>4
  <2>6. Cat(w, z) \in Seq(Fits)
    BY Zenon, <2>5, Regroup
  <2>7. Cat(z, d) \in Seq(Fits)
    BY Zenon, <1>4, <2>5, Regroup
  <2>8. Cat(Cat(w, z), d) = Cat(w, Cat(z, d))
    BY <2>5, Regroup
  <2>1. Cat(Cat(w, z), d) = Cat(w, Cat(z, d)) /\ Cat(w, z) \in Seq(Fits) /\ Cat(z, d) \in Seq(Fits)
    BY <2>6, <2>7, <2>8
  <2>2. Cat(Cat(p, w), Cat(z, d)) = Cat(p, Cat(w, Cat(z, d)))
    BY <1>1, <1>4, <2>1, Regroup
  <2>3. InitializeRank(r) = Cat(p, Cat(Cat(w, z), d))
    BY <1>2 DEF Cat
  <2>4. InitializeRank(r) = Cat(Cat(p, w), Cat(z, d))
    BY Zenon, <2>1, <2>2, <2>3
  <2> QED
    BY <2>4 DEF Cat
<1>6. PICK b \in {8, 2} : Ordered(s, m, b, E)
  BY <1>1
<1>7. /\ s \in Seq(Fits) /\ LastMode(s, Len(s), b) /\ b \in Registers /\ MrOf(b) = 0
      /\ \A i \in 1 .. Len(s) :
            /\ Exact(s, i) /\ InOrder(s, i, m)
            /\ s[i].op = "run" => s[i].val \in E \ {ZQCL}
  BY <1>6 DEF Ordered, Registers, MrOf
<1>8. /\ t \in Seq(Fits) /\ Len(t) = 8 /\ t[1].op # "run" /\ t[2].op # "run" /\ t[3] = RunReg(ZQCL)
      /\ t[4] = LoadCntrReg(0, 255) /\ t[5] = LoadCntrReg(1, 1)
      /\ t[6] = LoadJumpReg(0, 122) /\ t[7] = LoadJumpReg(1, 122) /\ t[8] = RunReg(122)
  BY <1>3
<1> HIDE DEF s, t
<1> DEFINE u == s \o t
           l == Len(s)
<1>9. /\ Len(u) = l + 8 /\ l \in Nat
      /\ \A i \in 1 .. l : u[i] = s[i]
      /\ \A i \in 1 .. 8 : u[l + i] = t[i]
  <2>1. s \in Seq(Fits) /\ t \in Seq(Fits)
    BY <1>7, <1>8
  <2>2. /\ Len(u) = l + Len(t) /\ l \in Nat
        /\ \A i \in 1 .. l : u[i] = s[i]
        /\ \A i \in 1 .. Len(t) : u[l + i] = t[i]
    BY <2>1, Joined
  <2> HIDE DEF u, l
  <2> QED
    BY <1>8, <2>2
<1>10. ASSUME NEW i \in 1 .. l
       PROVE  /\ Exact(u, i) /\ InOrder(u, i, m)
              /\ u[i].op = "run" => u[i].val \in E \ {ZQCL}
  <2>1. (Exact(s, i) => Exact(u, i)) /\ (InOrder(s, i, m) => InOrder(u, i, m))
    BY <1>7, <1>8, OrderAt
  <2> HIDE DEF u
  <2> QED
    BY <1>7, <1>9, <2>1
<1> HIDE DEF u, l
<1>11. /\ u[l + 1].op # "run" /\ u[l + 2].op # "run" /\ u[l + 3] = RunReg(ZQCL)
       /\ u[l + 4] = LoadCntrReg(0, 255) /\ u[l + 5] = LoadCntrReg(1, 1)
       /\ u[l + 6] = LoadJumpReg(0, 122) /\ u[l + 7] = LoadJumpReg(1, 122)
       /\ u[l + 8] = RunReg(122)
  <2>1. /\ 1 \in 1 .. 8 /\ 2 \in 1 .. 8 /\ 3 \in 1 .. 8 /\ 4 \in 1 .. 8
        /\ 5 \in 1 .. 8 /\ 6 \in 1 .. 8 /\ 7 \in 1 .. 8 /\ 8 \in 1 .. 8
    OBVIOUS
  <2>2. /\ u[l + 1] = t[1] /\ u[l + 2] = t[2] /\ u[l + 3] = t[3] /\ u[l + 4] = t[4]
        /\ u[l + 5] = t[5] /\ u[l + 6] = t[6] /\ u[l + 7] = t[7] /\ u[l + 8] = t[8]
    BY <1>9, <2>1
  <2> QED
    BY <1>8, <2>2
<1>12. \A i \in 1 .. Len(u) : i \in 1 .. l \/ i \in {l + 1, l + 2, l + 3, l + 4, l + 5, l + 6, l + 7, l + 8}
  BY <1>9
<1>13. \A i \in {l + 1, l + 2, l + 4, l + 5, l + 6, l + 7} : u[i].op # "run"
  BY <1>11, WritesAre
<1>14. Exact(u, l + 3)
  <2>1. Pause(u, l + 2, 2)
    <3>1. \A j \in (l + 2) - 2 + 1 .. l + 2 : j = l + 1 \/ j = l + 2
      <4>1. l \in Nat
        BY <1>9
      <4> QED
        BY <4>1
    <3>2. 2 <= l + 2
      <4>1. l \in Nat
        BY <1>9
      <4> QED
        BY <4>1
    <3> QED
      BY <1>13, <3>1, <3>2 DEF Pause
  <2>2. u[l + 3].op = "run" /\ u[l + 3].val = 6 /\ (l + 3) - 1 = l + 2
    BY <1>9, <1>11, WritesAre DEF ZQCL
  <2> QED
    BY <2>1, <2>2 DEF Exact, PRECHARGE_ALL, ACTIVATE_0_AND_1, GUARANTEED_WRITE, GUARANTEED_READ,
       READ_B2B, WriteTests, WRITE_WL_1, WRITE, DmBlock
<1>15. Exact(u, l + 8)
  BY <1>11, WritesAre, ExactIdle DEF Idles, IDLE_LOOP2
<1>16. \A i \in 1 .. Len(u) : Exact(u, i)
  <2> TAKE i \in 1 .. Len(u)
  <2>1. CASE i \in 1 .. l
    BY <1>10, <2>1
  <2>2. CASE i \in {l + 1, l + 2, l + 4, l + 5, l + 6, l + 7}
    BY <1>13, <2>2 DEF Exact
  <2>3. CASE i = l + 3
    BY <1>14, <2>3
  <2>4. CASE i = l + 8
    BY <1>15, <2>4
  <2> QED
    BY <1>12, <2>1, <2>2, <2>3, <2>4
<1>17. LastMode(u, l + 2, b)
  <2>1. PICK j \in 1 .. l : ModeRun(s[j]) /\ s[j].val = b /\ \A k \in j + 1 .. l : ~ModeRun(s[k])
    BY <1>7 DEF LastMode, l
  <2>2. \A k \in j + 1 .. l + 2 : ~ModeRun(u[k])
    <3> TAKE k \in j + 1 .. l + 2
    <3>1. k \in j + 1 .. l \/ k = l + 1 \/ k = l + 2
      <4>1. l \in Nat /\ j \in Nat
        BY <1>9, <2>1
      <4> QED
        BY <4>1
    <3>2. k \in j + 1 .. l => u[k] = s[k]
      BY <1>9
    <3>3. ~ModeRun(u[l + 1]) /\ ~ModeRun(u[l + 2])
      BY <1>11 DEF ModeRun
    <3> QED
      BY <2>1, <3>1, <3>2, <3>3
  <2>3. j \in 1 .. l + 2 /\ u[j] = s[j]
    BY <1>9
  <2> QED
    BY <2>1, <2>2, <2>3 DEF LastMode
<1>18. \A i \in 1 .. l + 2 : u[i] # RunReg(ZQCL)
  <2>1. ASSUME NEW i \in 1 .. l + 2, u[i] = RunReg(ZQCL) PROVE FALSE
    <3>1. u[i].op = "run" /\ u[i].val = ZQCL
      BY <2>1, WritesAre
    <3>2. i \in 1 .. l \/ i = l + 1 \/ i = l + 2
      BY <1>9
    <3> QED
      BY <1>10, <1>13, <3>1, <3>2
  <2> QED
    BY <2>1
<1>19. ASSUME NEW i \in 1 .. Len(u), u[i].op = "run"
       PROVE  /\ InOrder(u, i, m)
              /\ u[i].val \in Modes \cup Idles
              /\ u[i].val \in Modes => i < Len(u) /\ ~Given(u, i - 1, RunReg(ZQCL))
              /\ u[i].val = ZQCL =>
                    \E x \in Registers : LastMode(u, i - 1, x) /\ MrOf(x) = 0
  <2>1. CASE i \in 1 .. l
    <3>1. \A k \in 1 .. i - 1 : k \in 1 .. l + 2
      BY <1>9, <2>1
    <3>2. i < Len(u)
      BY <1>9, <2>1
    <3> QED
      BY <1>10, <1>18, <1>19, <2>1, <3>1, <3>2 DEF Given, E
  <2>2. CASE i = l + 3
    <3>1. u[i].val = ZQCL /\ i - 1 = l + 2 /\ i < Len(u) /\ ZQCL = 6 /\ 6 \in Modes /\ 6 \notin Registers
      BY <1>9, <1>11, <2>2, WritesAre DEF ZQCL, Modes, Registers
    <3> QED
      BY <1>7, <1>17, <1>18, <3>1 DEF Given, InOrder, ModeRun
  <2>3. CASE i = l + 8
    <3>1. u[i].val = 122 /\ 122 \in Idles /\ 122 \notin Modes /\ ZQCL \in Modes /\ 122 \notin Registers
      BY <1>11, <2>3, WritesAre DEF Idles, IDLE_LOOP2, Modes, ZQCL, Registers
    <3> QED
      BY <3>1 DEF InOrder, ModeRun
  <2> QED
    BY <1>12, <1>13, <1>19, <2>1, <2>2, <2>3
<1>20. \A i \in 1 .. Len(u) : InOrder(u, i, m)
  BY <1>19 DEF InOrder, ModeRun
<1>21. /\ u[Len(u)] = RunReg(IDLE_LOOP2) /\ Len(u) - 1 = l + 7
       /\ Given(u, l + 7, RunReg(ZQCL))
  BY <1>9, <1>11 DEF IDLE_LOOP2, Given
<1>22. \A c \in 0 .. 1 : AimedTo(u, l + 7, c, IDLE_LOOP2)
  <2>1. AimedTo(u, l + 7, 1, 122)
    <3>1. \A k \in (l + 7) + 1 .. l + 7 : FALSE
      BY <1>9
    <3> QED
      BY <1>9, <1>11, <3>1, WritesAre DEF AimedTo, Aimed, Aims
  <2>2. AimedTo(u, l + 7, 0, 122)
    <3>1. \A k \in (l + 6) + 1 .. l + 7 : k = l + 7
      BY <1>9
    <3>2. ~Aims(u[l + 7], 0)
      BY <1>11, WritesAre DEF Aims
    <3> QED
      BY <1>9, <1>11, <3>1, <3>2, WritesAre DEF AimedTo, Aimed, Aims
  <2> QED
    BY <2>1, <2>2 DEF IDLE_LOOP2
<1>23. Loaded(u, l + 7, 0, 255)
  <2>1. \A k \in (l + 4) + 1 .. l + 7 : k = l + 5 \/ k = l + 6 \/ k = l + 7
    <3>1. l \in Nat
      BY <1>9
    <3> HIDE DEF l
    <3> QED
      BY <3>1
  <2>2. \A k \in {l + 5, l + 6, l + 7} : u[k].op # "run" /\ ~(u[k].op = "cntr" /\ u[k].reg = 0)
    BY <1>11, WritesAre
  <2>3. l + 4 \in 1 .. l + 7 /\ u[l + 4] = LoadCntrReg(0, 255)
    BY <1>9, <1>11
  <2>4. \A k \in (l + 4) + 1 .. l + 7 : u[k].op # "run" /\ ~(u[k].op = "cntr" /\ u[k].reg = 0)
    BY <2>1, <2>2
  <2> QED
    BY <2>3, <2>4 DEF Loaded
<1>24. Loaded(u, l + 7, 1, 1)
  <2>1. \A k \in (l + 5) + 1 .. l + 7 : k = l + 6 \/ k = l + 7
    BY <1>9
  <2>2. \A k \in {l + 6, l + 7} : u[k].op # "run" /\ ~(u[k].op = "cntr" /\ u[k].reg = 1)
    BY <1>11, WritesAre
  <2>3. l + 5 \in 1 .. l + 7 /\ u[l + 5] = LoadCntrReg(1, 1)
    BY <1>9, <1>11
  <2>4. \A k \in (l + 5) + 1 .. l + 7 : u[k].op # "run" /\ ~(u[k].op = "cntr" /\ u[k].reg = 1)
    BY <2>1, <2>2
  <2> QED
    BY <2>3, <2>4 DEF Loaded
<1>25. InitialExact(u, m)
  BY <1>16, <1>19, <1>20, <1>21, <1>22, <1>23, <1>24 DEF InitialExact
<1> QED
  BY <1>5, <1>25 DEF u, m

LEMMA JoinedAt ==
    ASSUME NEW s, NEW t, s \in Seq(Fits), t \in Seq(Fits)
    PROVE  /\ s \o t \in Seq(Fits) /\ Len(s \o t) = Len(s) + Len(t)
           /\ \A i \in 1 .. Len(s) : (s \o t)[i] = s[i]
           /\ \A i \in Len(s) + 1 .. Len(s) + Len(t) : (s \o t)[i] = t[i - Len(s)]
<1> DEFINE u == s \o t
           n == Len(s)
           m == Len(t)
<1>1. /\ u \in Seq(Fits) /\ Len(u) = n + m /\ n \in Nat /\ m \in Nat
      /\ \A i \in 1 .. n : u[i] = s[i]
      /\ \A i \in 1 .. m : u[n + i] = t[i]
  BY Joined
<1> HIDE DEF u, n, m
<1>2. ASSUME NEW i \in n + 1 .. n + m PROVE u[i] = t[i - n]
  <2>1. i - n \in 1 .. m /\ n + (i - n) = i
    BY <1>1
  <2>2. u[n + (i - n)] = t[i - n]
    BY <1>1, <2>1
  <2> QED
    BY <2>1, <2>2
<1> QED
  BY <1>1, <1>2 DEF u, n, m

LEMMA HoldLayout ==
    ASSUME NEW a \in Holds, NEW cntrs, \A c \in 1 .. 3 : cntrs[c] \in 0 .. MaxCntr
    PROVE  LET s == HoldFor(cntrs, a)
           IN /\ s \in Seq(Fits) /\ Len(s) = 7
              /\ s[1] = LoadCntrReg(0, cntrs[1]) /\ s[2] = LoadCntrReg(1, cntrs[2])
              /\ s[3] = LoadCntrReg(2, cntrs[3])
              /\ s[4] = LoadJumpReg(0, a) /\ s[5] = LoadJumpReg(1, a) /\ s[6] = LoadJumpReg(2, a)
              /\ s[7] = RunReg(a)
<1> DEFINE s == [c \in 1 .. 3 |-> LoadCntrReg(c - 1, cntrs[c])]
           t == [c \in 1 .. 3 |-> LoadJumpReg(c - 1, a)]
           w == <<RunReg(a)>>
<1>1. a \in Addresses /\ a \in Entries
  BY EntriesAre DEF Entries
<1>2. s \in Seq(Fits) /\ Len(s) = 3
  <2>1. \A c \in 1 .. 3 : LoadCntrReg(c - 1, cntrs[c]) \in Fits
    BY FitsAre DEF Cntrs
  <2>2. s \in [1 .. 3 -> Fits]
    BY <2>1
  <2> QED
    BY <2>2
<1>3. t \in Seq(Fits) /\ Len(t) = 3
  <2>1. \A c \in 1 .. 3 : LoadJumpReg(c - 1, a) \in Fits
    BY <1>1, FitsAre DEF Cntrs
  <2>2. t \in [1 .. 3 -> Fits]
    BY <2>1
  <2> QED
    BY <2>2
<1>4. w \in Seq(Fits) /\ Len(w) = 1 /\ w[1] = RunReg(a)
  <2>1. RunReg(a) \in Fits
    BY <1>1, FitsAre
  <2> QED
    BY <2>1
<1>5. /\ s[1] = LoadCntrReg(0, cntrs[1]) /\ s[2] = LoadCntrReg(1, cntrs[2])
      /\ s[3] = LoadCntrReg(2, cntrs[3])
      /\ t[1] = LoadJumpReg(0, a) /\ t[2] = LoadJumpReg(1, a) /\ t[3] = LoadJumpReg(2, a)
  OBVIOUS
<1> DEFINE st == s \o t
<1> HIDE DEF s, t, w
<1>6. /\ st \in Seq(Fits) /\ Len(st) = 6
      /\ st[1] = s[1] /\ st[2] = s[2] /\ st[3] = s[3]
      /\ st[4] = t[1] /\ st[5] = t[2] /\ st[6] = t[3]
  <2>1. s \in Seq(Fits) /\ t \in Seq(Fits)
    BY <1>2, <1>3
  <2>2. /\ st \in Seq(Fits) /\ Len(st) = Len(s) + Len(t)
        /\ \A i \in 1 .. Len(s) : st[i] = s[i]
        /\ \A i \in Len(s) + 1 .. Len(s) + Len(t) : st[i] = t[i - Len(s)]
    BY <2>1, JoinedAt
  <2> HIDE DEF st
  <2>3. Len(s) = 3 /\ Len(t) = 3
    BY <1>2, <1>3
  <2>4. /\ st \in Seq(Fits) /\ Len(st) = 3 + 3
        /\ \A i \in 1 .. 3 : st[i] = s[i]
        /\ \A i \in 3 + 1 .. 3 + 3 : st[i] = t[i - 3]
    BY <2>2, <2>3
  <2> QED
    BY <2>4
<1> HIDE DEF st
<1> DEFINE u == st \o w
<1>7. /\ u \in Seq(Fits) /\ Len(u) = 7
      /\ u[1] = st[1] /\ u[2] = st[2] /\ u[3] = st[3]
      /\ u[4] = st[4] /\ u[5] = st[5] /\ u[6] = st[6] /\ u[7] = w[1]
  <2>1. st \in Seq(Fits) /\ w \in Seq(Fits)
    BY <1>4, <1>6
  <2>2. /\ u \in Seq(Fits) /\ Len(u) = Len(st) + Len(w)
        /\ \A i \in 1 .. Len(st) : u[i] = st[i]
        /\ \A i \in Len(st) + 1 .. Len(st) + Len(w) : u[i] = w[i - Len(st)]
    BY <2>1, JoinedAt
  <2> HIDE DEF u
  <2>3. Len(st) = 6 /\ Len(w) = 1
    BY <1>4, <1>6
  <2>4. /\ u \in Seq(Fits) /\ Len(u) = 6 + 1
        /\ \A i \in 1 .. 6 : u[i] = st[i]
        /\ \A i \in 6 + 1 .. 6 + 1 : u[i] = w[i - 6]
    BY <2>2, <2>3
  <2> QED
    BY <2>4
<1>8. HoldFor(cntrs, a) = u
  BY DEF HoldFor, u, st, s, t, w
<1> HIDE DEF u
<1> QED
  BY <1>4, <1>5, <1>6, <1>7, <1>8

LEMMA TwelveLayout ==
    LET d == delay_for_n_mem_clocks(250)
    IN /\ Len(d) = 3 /\ d \in Seq(Fits)
       /\ d[1] = LoadCntrReg(1, 249) /\ d[2] = LoadJumpReg(1, 123) /\ d[3] = RunReg(123)
<1>1. /\ LoadCntrReg(1, 249) \in Fits /\ LoadJumpReg(1, 123) \in Fits /\ RunReg(123) \in Fits
  <2>1. /\ 1 \in Cntrs /\ 123 \in Addresses /\ 123 \in Entries
    BY DEF Cntrs, Addresses, Entries, Idles, IDLE_LOOP1
  <2>2. 249 \in 0 .. MaxCntr
    BY CommandsAssumption, CntrAssumption
  <2> QED
    BY <2>1, <2>2, FitsAre
<1> QED
  BY <1>1, DelayCounts DEF delay_for_n_mem_clocks, IDLE_LOOP1, Loop

LEMMA ResetLayout ==
    LET s == ResetMemory
    IN /\ Len(s) = 19 /\ s[1] = SelectAll
       /\ s[2] = LoadCntrReg(0, TinitCntrs[1]) /\ s[3] = LoadCntrReg(1, TinitCntrs[2])
       /\ s[4] = LoadCntrReg(2, TinitCntrs[3])
       /\ s[5] = LoadJumpReg(0, 111) /\ s[6] = LoadJumpReg(1, 111) /\ s[7] = LoadJumpReg(2, 111)
       /\ s[8] = RunReg(111) /\ s[9] = PhyReg
       /\ s[10] = LoadCntrReg(0, TresetCntrs[1]) /\ s[11] = LoadCntrReg(1, TresetCntrs[2])
       /\ s[12] = LoadCntrReg(2, TresetCntrs[3])
       /\ s[13] = LoadJumpReg(0, 116) /\ s[14] = LoadJumpReg(1, 116)
       /\ s[15] = LoadJumpReg(2, 116) /\ s[16] = RunReg(116)
       /\ s[17] = LoadCntrReg(1, 249) /\ s[18] = LoadJumpReg(1, 123) /\ s[19] = RunReg(123)
<1> DEFINE h == HoldFor(TinitCntrs, 111)
           g == HoldFor(TresetCntrs, 116)
           d == delay_for_n_mem_clocks(250)
           x == <<SelectAll>>
           y == <<PhyReg>>
<1>1. /\ h \in Seq(Fits) /\ Len(h) = 7
      /\ h[1] = LoadCntrReg(0, TinitCntrs[1]) /\ h[2] = LoadCntrReg(1, TinitCntrs[2])
      /\ h[3] = LoadCntrReg(2, TinitCntrs[3])
      /\ h[4] = LoadJumpReg(0, 111) /\ h[5] = LoadJumpReg(1, 111) /\ h[6] = LoadJumpReg(2, 111)
      /\ h[7] = RunReg(111)
  <2>1. 111 \in Holds /\ \A c \in 1 .. 3 : TinitCntrs[c] \in 0 .. MaxCntr
    BY CommandsAssumption DEF Holds, INIT_RESET_0_CKE_0
  <2> QED
    BY <2>1, HoldLayout
<1>2. /\ g \in Seq(Fits) /\ Len(g) = 7
      /\ g[1] = LoadCntrReg(0, TresetCntrs[1]) /\ g[2] = LoadCntrReg(1, TresetCntrs[2])
      /\ g[3] = LoadCntrReg(2, TresetCntrs[3])
      /\ g[4] = LoadJumpReg(0, 116) /\ g[5] = LoadJumpReg(1, 116) /\ g[6] = LoadJumpReg(2, 116)
      /\ g[7] = RunReg(116)
  <2>1. 116 \in Holds /\ \A c \in 1 .. 3 : TresetCntrs[c] \in 0 .. MaxCntr
    BY CommandsAssumption DEF Holds, INIT_RESET_1_CKE_0
  <2> QED
    BY <2>1, HoldLayout
<1>3. /\ Len(d) = 3 /\ d \in Seq(Fits)
      /\ d[1] = LoadCntrReg(1, 249) /\ d[2] = LoadJumpReg(1, 123) /\ d[3] = RunReg(123)
  BY TwelveLayout
<1>4. /\ x \in Seq(Fits) /\ Len(x) = 1 /\ x[1] = SelectAll
      /\ y \in Seq(Fits) /\ Len(y) = 1 /\ y[1] = PhyReg
  BY FitsAre
<1>5. ResetMemory = x \o (((h \o y) \o g) \o d)
  BY Zenon DEF ResetMemory, INIT_RESET_0_CKE_0, INIT_RESET_1_CKE_0
<1> HIDE DEF h, g, d, x, y
<1> DEFINE a == h \o y
<1>6. /\ a \in Seq(Fits) /\ Len(a) = 8
      /\ a[1] = h[1] /\ a[2] = h[2] /\ a[3] = h[3] /\ a[4] = h[4]
      /\ a[5] = h[5] /\ a[6] = h[6] /\ a[7] = h[7] /\ a[8] = y[1]
  <2>1. h \in Seq(Fits) /\ y \in Seq(Fits)
    BY <1>1, <1>4
  <2>2. /\ a \in Seq(Fits) /\ Len(a) = Len(h) + Len(y)
        /\ \A i \in 1 .. Len(h) : a[i] = h[i]
        /\ \A i \in Len(h) + 1 .. Len(h) + Len(y) : a[i] = y[i - Len(h)]
    BY <2>1, JoinedAt
  <2> HIDE DEF a
  <2>3. Len(h) = 7 /\ Len(y) = 1
    BY <1>1, <1>4
  <2>4. /\ a \in Seq(Fits) /\ Len(a) = 7 + 1
        /\ \A i \in 1 .. 7 : a[i] = h[i]
        /\ \A i \in 7 + 1 .. 7 + 1 : a[i] = y[i - 7]
    BY <2>2, <2>3
  <2> QED
    BY <2>4
<1> HIDE DEF a
<1> DEFINE b == a \o g
<1>7. /\ b \in Seq(Fits) /\ Len(b) = 15
      /\ b[1] = a[1] /\ b[2] = a[2] /\ b[3] = a[3] /\ b[4] = a[4]
      /\ b[5] = a[5] /\ b[6] = a[6] /\ b[7] = a[7] /\ b[8] = a[8]
      /\ b[9] = g[1] /\ b[10] = g[2] /\ b[11] = g[3] /\ b[12] = g[4]
      /\ b[13] = g[5] /\ b[14] = g[6] /\ b[15] = g[7]
  <2>1. a \in Seq(Fits) /\ g \in Seq(Fits)
    BY <1>2, <1>6
  <2>2. /\ b \in Seq(Fits) /\ Len(b) = Len(a) + Len(g)
        /\ \A i \in 1 .. Len(a) : b[i] = a[i]
        /\ \A i \in Len(a) + 1 .. Len(a) + Len(g) : b[i] = g[i - Len(a)]
    BY <2>1, JoinedAt
  <2> HIDE DEF b
  <2>3. Len(a) = 8 /\ Len(g) = 7
    BY <1>2, <1>6
  <2>4. /\ b \in Seq(Fits) /\ Len(b) = 8 + 7
        /\ \A i \in 1 .. 8 : b[i] = a[i]
        /\ \A i \in 8 + 1 .. 8 + 7 : b[i] = g[i - 8]
    BY <2>2, <2>3
  <2> QED
    BY <2>4
<1> HIDE DEF b
<1> DEFINE c == b \o d
<1>8. /\ c \in Seq(Fits) /\ Len(c) = 18
      /\ c[1] = b[1] /\ c[2] = b[2] /\ c[3] = b[3] /\ c[4] = b[4]
      /\ c[5] = b[5] /\ c[6] = b[6] /\ c[7] = b[7] /\ c[8] = b[8]
      /\ c[9] = b[9] /\ c[10] = b[10] /\ c[11] = b[11] /\ c[12] = b[12]
      /\ c[13] = b[13] /\ c[14] = b[14] /\ c[15] = b[15]
      /\ c[16] = d[1] /\ c[17] = d[2] /\ c[18] = d[3]
  <2>1. b \in Seq(Fits) /\ d \in Seq(Fits)
    BY <1>3, <1>7
  <2>2. /\ c \in Seq(Fits) /\ Len(c) = Len(b) + Len(d)
        /\ \A i \in 1 .. Len(b) : c[i] = b[i]
        /\ \A i \in Len(b) + 1 .. Len(b) + Len(d) : c[i] = d[i - Len(b)]
    BY <2>1, JoinedAt
  <2> HIDE DEF c
  <2>3. Len(b) = 15 /\ Len(d) = 3
    BY <1>3, <1>7
  <2>4. /\ c \in Seq(Fits) /\ Len(c) = 15 + 3
        /\ \A i \in 1 .. 15 : c[i] = b[i]
        /\ \A i \in 15 + 1 .. 15 + 3 : c[i] = d[i - 15]
    BY <2>2, <2>3
  <2> QED
    BY <2>4
<1> HIDE DEF c
<1> DEFINE s == x \o c
<1>9. /\ Len(s) = 19 /\ s[1] = x[1]
      /\ s[2] = c[1] /\ s[3] = c[2] /\ s[4] = c[3] /\ s[5] = c[4]
      /\ s[6] = c[5] /\ s[7] = c[6] /\ s[8] = c[7] /\ s[9] = c[8]
      /\ s[10] = c[9] /\ s[11] = c[10] /\ s[12] = c[11] /\ s[13] = c[12]
      /\ s[14] = c[13] /\ s[15] = c[14] /\ s[16] = c[15]
      /\ s[17] = c[16] /\ s[18] = c[17] /\ s[19] = c[18]
  <2>1. x \in Seq(Fits) /\ c \in Seq(Fits)
    BY <1>4, <1>8
  <2>2. /\ s \in Seq(Fits) /\ Len(s) = Len(x) + Len(c)
        /\ \A i \in 1 .. Len(x) : s[i] = x[i]
        /\ \A i \in Len(x) + 1 .. Len(x) + Len(c) : s[i] = c[i - Len(x)]
    BY <2>1, JoinedAt
  <2> HIDE DEF s
  <2>3. Len(x) = 1 /\ Len(c) = 18
    BY <1>4, <1>8
  <2>4. /\ s \in Seq(Fits) /\ Len(s) = 1 + 18
        /\ \A i \in 1 .. 1 : s[i] = x[i]
        /\ \A i \in 1 + 1 .. 1 + 18 : s[i] = c[i - 1]
    BY <2>2, <2>3
  <2> QED
    BY <2>4
<1>10. ResetMemory = s
  BY Zenon, <1>5 DEF s, c, b, a
<1> HIDE DEF s
<1> QED
  BY <1>1, <1>2, <1>3, <1>4, <1>6, <1>7, <1>8, <1>9, <1>10

(* A register that is written in one place only before a run.              *)
LEMMA AimedOnce ==
    ASSUME NEW s, NEW n \in Nat, NEW c, NEW a, NEW j \in 1 .. n, s[j] = LoadJumpReg(c, a),
           \A k \in j + 1 .. n : ~Aims(s[k], c)
    PROVE  AimedTo(s, n, c, a)
<1>1. Aims(s[j], c) /\ s[j].val \in {a}
  BY WritesAre DEF Aims
<1> QED
  BY <1>1 DEF AimedTo, Aimed

LEMMA ResetIs == ResetExact(ResetMemory)
<1> DEFINE s == ResetMemory
<1>1. /\ Len(s) = 19 /\ s[1] = SelectAll
      /\ s[2] = LoadCntrReg(0, TinitCntrs[1]) /\ s[3] = LoadCntrReg(1, TinitCntrs[2])
      /\ s[4] = LoadCntrReg(2, TinitCntrs[3])
      /\ s[5] = LoadJumpReg(0, 111) /\ s[6] = LoadJumpReg(1, 111) /\ s[7] = LoadJumpReg(2, 111)
      /\ s[8] = RunReg(111) /\ s[9] = PhyReg
      /\ s[10] = LoadCntrReg(0, TresetCntrs[1]) /\ s[11] = LoadCntrReg(1, TresetCntrs[2])
      /\ s[12] = LoadCntrReg(2, TresetCntrs[3])
      /\ s[13] = LoadJumpReg(0, 116) /\ s[14] = LoadJumpReg(1, 116)
      /\ s[15] = LoadJumpReg(2, 116) /\ s[16] = RunReg(116)
      /\ s[17] = LoadCntrReg(1, 249) /\ s[18] = LoadJumpReg(1, 123) /\ s[19] = RunReg(123)
  BY ResetLayout
<1> HIDE DEF s
<1>2. ASSUME NEW i \in 1 .. 19, i \notin {8, 16, 19} PROVE s[i].op # "run"
  <2>1. i \in 1 .. 7 \/ i \in 9 .. 15 \/ i \in 17 .. 18
    BY <1>2
  <2>2. \A k \in 1 .. 7 : k \in {1, 2, 3, 4, 5, 6, 7}
    OBVIOUS
  <2>3. \A k \in 9 .. 15 : k \in {9, 10, 11, 12, 13, 14, 15}
    OBVIOUS
  <2>4. \A k \in 17 .. 18 : k \in {17, 18}
    OBVIOUS
  <2>5. \A k \in {1, 2, 3, 4, 5, 6, 7} : s[k].op # "run"
    BY <1>1, WritesAre
  <2>6. \A k \in {9, 10, 11, 12, 13, 14, 15, 17, 18} : s[k].op # "run"
    BY <1>1, WritesAre
  <2> QED
    BY <2>1, <2>2, <2>3, <2>4, <2>5, <2>6
<1>3. HoldExact(s, 7, 111, TinitCntrs)
  <2>1. \A k \in 2 .. 7 : k \in {2, 3, 4, 5, 6, 7}
    OBVIOUS
  <2>2. AimedTo(s, 7, 0, 111) /\ AimedTo(s, 7, 1, 111) /\ AimedTo(s, 7, 2, 111)
    <3>1. /\ \A k \in 5 + 1 .. 7 : k \in {6, 7}
          /\ \A k \in 6 + 1 .. 7 : k = 7
          /\ \A k \in 7 + 1 .. 7 : FALSE
      OBVIOUS
    <3>2. ~Aims(s[6], 0) /\ ~Aims(s[7], 0) /\ ~Aims(s[7], 1)
      BY <1>1, WritesAre DEF Aims
    <3>3. 5 \in 1 .. 7 /\ 6 \in 1 .. 7 /\ 7 \in 1 .. 7 /\ 7 \in Nat
      OBVIOUS
    <3>4. AimedTo(s, 7, 0, 111)
      <4>1. s[5] = LoadJumpReg(0, 111) /\ \A k \in 5 + 1 .. 7 : ~Aims(s[k], 0)
        BY <1>1, <3>1, <3>2
      <4> QED
        BY <3>3, <4>1, AimedOnce
    <3>5. AimedTo(s, 7, 1, 111)
      <4>1. s[6] = LoadJumpReg(1, 111) /\ \A k \in 6 + 1 .. 7 : ~Aims(s[k], 1)
        BY <1>1, <3>1, <3>2
      <4> QED
        BY <3>3, <4>1, AimedOnce
    <3>6. AimedTo(s, 7, 2, 111)
      <4>1. s[7] = LoadJumpReg(2, 111) /\ \A k \in 7 + 1 .. 7 : ~Aims(s[k], 2)
        BY <1>1, <3>1, <3>2
      <4> QED
        BY <3>3, <4>1, AimedOnce
    <3> QED
      BY <3>4, <3>5, <3>6
  <2>3. \A c \in 0 .. 2 : Loaded(s, 7, c, TinitCntrs[c + 1])
    <3>1. \A k \in {3, 4, 5, 6, 7} : s[k].op # "run"
      BY <1>1, WritesAre
    <3>2. Loaded(s, 7, 0, TinitCntrs[1])
      <4>1. 2 \in 1 .. 7 /\ s[2] = LoadCntrReg(0, TinitCntrs[1])
        BY <1>1
      <4>2. \A k \in 2 + 1 .. 7 : k \in {3, 4, 5, 6, 7}
        OBVIOUS
      <4>3. \A k \in {3, 4, 5, 6, 7} : ~(s[k].op = "cntr" /\ s[k].reg = 0)
        BY <1>1, WritesAre
      <4>4. \A k \in 2 + 1 .. 7 : s[k].op # "run" /\ ~(s[k].op = "cntr" /\ s[k].reg = 0)
        BY <3>1, <4>2, <4>3
      <4> QED
        BY <4>1, <4>4 DEF Loaded
    <3>3. Loaded(s, 7, 1, TinitCntrs[2])
      <4>1. 3 \in 1 .. 7 /\ s[3] = LoadCntrReg(1, TinitCntrs[2])
        BY <1>1
      <4>2. \A k \in 3 + 1 .. 7 : k \in {4, 5, 6, 7}
        OBVIOUS
      <4>3. \A k \in {4, 5, 6, 7} : ~(s[k].op = "cntr" /\ s[k].reg = 1)
        BY <1>1, WritesAre
      <4>4. \A k \in 3 + 1 .. 7 : s[k].op # "run" /\ ~(s[k].op = "cntr" /\ s[k].reg = 1)
        BY <3>1, <4>2, <4>3
      <4> QED
        BY <4>1, <4>4 DEF Loaded
    <3>4. Loaded(s, 7, 2, TinitCntrs[3])
      <4>1. 4 \in 1 .. 7 /\ s[4] = LoadCntrReg(2, TinitCntrs[3])
        BY <1>1
      <4>2. \A k \in 4 + 1 .. 7 : k \in {5, 6, 7}
        OBVIOUS
      <4>3. \A k \in {5, 6, 7} : ~(s[k].op = "cntr" /\ s[k].reg = 2)
        BY <1>1, WritesAre
      <4>4. \A k \in 4 + 1 .. 7 : s[k].op # "run" /\ ~(s[k].op = "cntr" /\ s[k].reg = 2)
        BY <3>1, <4>2, <4>3
      <4> QED
        BY <4>1, <4>4 DEF Loaded
    <3> QED
      BY <3>2, <3>3, <3>4
  <2> QED
    BY <2>2, <2>3 DEF HoldExact
<1>4. HoldExact(s, 15, 116, TresetCntrs)
  <2>2. AimedTo(s, 15, 0, 116) /\ AimedTo(s, 15, 1, 116) /\ AimedTo(s, 15, 2, 116)
    <3>1. /\ \A k \in 13 + 1 .. 15 : k \in {14, 15}
          /\ \A k \in 14 + 1 .. 15 : k = 15
          /\ \A k \in 15 + 1 .. 15 : FALSE
      OBVIOUS
    <3>2. ~Aims(s[14], 0) /\ ~Aims(s[15], 0) /\ ~Aims(s[15], 1)
      BY <1>1, WritesAre DEF Aims
    <3>3. 13 \in 1 .. 15 /\ 14 \in 1 .. 15 /\ 15 \in 1 .. 15 /\ 15 \in Nat
      OBVIOUS
    <3>4. AimedTo(s, 15, 0, 116)
      <4>1. s[13] = LoadJumpReg(0, 116) /\ \A k \in 13 + 1 .. 15 : ~Aims(s[k], 0)
        BY <1>1, <3>1, <3>2
      <4> QED
        BY <3>3, <4>1, AimedOnce
    <3>5. AimedTo(s, 15, 1, 116)
      <4>1. s[14] = LoadJumpReg(1, 116) /\ \A k \in 14 + 1 .. 15 : ~Aims(s[k], 1)
        BY <1>1, <3>1, <3>2
      <4> QED
        BY <3>3, <4>1, AimedOnce
    <3>6. AimedTo(s, 15, 2, 116)
      <4>1. s[15] = LoadJumpReg(2, 116) /\ \A k \in 15 + 1 .. 15 : ~Aims(s[k], 2)
        BY <1>1, <3>1, <3>2
      <4> QED
        BY <3>3, <4>1, AimedOnce
    <3> QED
      BY <3>4, <3>5, <3>6
  <2>3. \A c \in 0 .. 2 : Loaded(s, 15, c, TresetCntrs[c + 1])
    <3>1. \A k \in {11, 12, 13, 14, 15} : s[k].op # "run"
      BY <1>1, WritesAre
    <3>2. Loaded(s, 15, 0, TresetCntrs[1])
      <4>1. 10 \in 1 .. 15 /\ s[10] = LoadCntrReg(0, TresetCntrs[1])
        BY <1>1
      <4>2. \A k \in 10 + 1 .. 15 : k \in {11, 12, 13, 14, 15}
        OBVIOUS
      <4>3. \A k \in {11, 12, 13, 14, 15} : ~(s[k].op = "cntr" /\ s[k].reg = 0)
        BY <1>1, WritesAre
      <4>4. \A k \in 10 + 1 .. 15 : s[k].op # "run" /\ ~(s[k].op = "cntr" /\ s[k].reg = 0)
        BY <3>1, <4>2, <4>3
      <4> QED
        BY <4>1, <4>4 DEF Loaded
    <3>3. Loaded(s, 15, 1, TresetCntrs[2])
      <4>1. 11 \in 1 .. 15 /\ s[11] = LoadCntrReg(1, TresetCntrs[2])
        BY <1>1
      <4>2. \A k \in 11 + 1 .. 15 : k \in {12, 13, 14, 15}
        OBVIOUS
      <4>3. \A k \in {12, 13, 14, 15} : ~(s[k].op = "cntr" /\ s[k].reg = 1)
        BY <1>1, WritesAre
      <4>4. \A k \in 11 + 1 .. 15 : s[k].op # "run" /\ ~(s[k].op = "cntr" /\ s[k].reg = 1)
        BY <3>1, <4>2, <4>3
      <4> QED
        BY <4>1, <4>4 DEF Loaded
    <3>4. Loaded(s, 15, 2, TresetCntrs[3])
      <4>1. 12 \in 1 .. 15 /\ s[12] = LoadCntrReg(2, TresetCntrs[3])
        BY <1>1
      <4>2. \A k \in 12 + 1 .. 15 : k \in {13, 14, 15}
        OBVIOUS
      <4>3. \A k \in {13, 14, 15} : ~(s[k].op = "cntr" /\ s[k].reg = 2)
        BY <1>1, WritesAre
      <4>4. \A k \in 12 + 1 .. 15 : s[k].op # "run" /\ ~(s[k].op = "cntr" /\ s[k].reg = 2)
        BY <3>1, <4>2, <4>3
      <4> QED
        BY <4>1, <4>4 DEF Loaded
    <3> QED
      BY <3>2, <3>3, <3>4
  <2> QED
    BY <2>2, <2>3 DEF HoldExact
<1>5. AimedTo(s, 18, 1, 123) /\ Loaded(s, 18, 1, 249)
  <2>1. /\ \A k \in 18 + 1 .. 18 : FALSE
        /\ \A k \in 17 + 1 .. 18 : k = 18
        /\ 18 \in 1 .. 18 /\ 17 \in 1 .. 18 /\ 18 \in Nat
    OBVIOUS
  <2>2. AimedTo(s, 18, 1, 123)
    <3>1. s[18] = LoadJumpReg(1, 123) /\ \A k \in 18 + 1 .. 18 : ~Aims(s[k], 1)
      BY <1>1, <2>1
    <3> QED
      BY <2>1, <3>1, AimedOnce
  <2>3. s[18].op # "run" /\ s[18].op # "cntr"
    BY <1>1, WritesAre
  <2>5. \A k \in 17 + 1 .. 18 : s[k].op # "run" /\ ~(s[k].op = "cntr" /\ s[k].reg = 1)
    BY <2>1, <2>3
  <2>6. s[17] = LoadCntrReg(1, 249) /\ 17 \in 1 .. 18
    BY <1>1
  <2>4. Loaded(s, 18, 1, 249)
    BY <2>5, <2>6 DEF Loaded
  <2> QED
    BY <2>2, <2>4
<1>6. ResetExact(s)
  BY <1>1, <1>2, <1>3, <1>4, <1>5 DEF ResetExact, INIT_RESET_0_CKE_0, INIT_RESET_1_CKE_0, IDLE_LOOP1
<1> QED
  BY <1>6 DEF s

(* A run that is repeated, once for each virtual group, with what was      *)
(* written before.                                                         *)
LEMMA AgainIs ==
    ASSUME board \in Boards, NEW a \in Bursts
    PROVE  /\ PerVirtualGroup(a) \in Seq(Again(a)) /\ Again(a) \subseteq Fits
           /\ \A w \in Again(a) : w.op \notin {"cntr", "jump"} /\ (w.op = "run" => w = RunReg(a))
<1>1. RunReg(a) \in Fits /\ PhyReg \in Fits
  BY FitsAre DEF Entries
<1>2. Again(a) \subseteq Fits
  BY <1>1 DEF Again
<1>3. \A w \in Again(a) : w.op \notin {"cntr", "jump"} /\ (w.op = "run" => w = RunReg(a))
  BY WritesAre DEF Again
<1>4. PerVirtualGroup(a) \in Seq(Again(a))
  BY PerGroup
<1> QED
  BY <1>2, <1>3, <1>4

LEMMA AgainExact ==
    ASSUME board \in Boards, NEW a \in Bursts, NEW h \in Seq(Fits), NEW t \in Seq(Again(a))
    PROVE  LET s == h \o t
           IN /\ Len(s) = Len(h) + Len(t) /\ Len(h) \in Nat /\ Len(t) \in Nat
              /\ \A i \in 1 .. Len(h) : s[i] = h[i]
              /\ \A i \in Len(h) + 1 .. Len(s) :
                    /\ s[i].op \notin {"cntr", "jump"} /\ (s[i].op = "run" => s[i].val = a)
                    /\ \A c, x : AimedTo(h, Len(h), c, x) => AimedTo(s, i - 1, c, x)
<1> DEFINE s == h \o t
           l == Len(h)
<1>1. /\ Again(a) \subseteq Fits
      /\ \A w \in Again(a) : w.op \notin {"cntr", "jump"} /\ (w.op = "run" => w = RunReg(a))
  BY AgainIs
<1>2. t \in Seq(Fits)
  BY <1>1, SeqMonotonic
<1>3. /\ Len(s) = l + Len(t) /\ l \in Nat /\ Len(t) \in Nat
      /\ \A i \in 1 .. l : s[i] = h[i]
      /\ \A i \in 1 .. Len(t) : s[l + i] = t[i]
  BY <1>2, Joined
<1>4. \A k \in 1 .. Len(t) : t[k] \in Again(a)
  OBVIOUS
<1>5. ASSUME NEW i \in l + 1 .. Len(s)
      PROVE  s[i].op \notin {"cntr", "jump"} /\ (s[i].op = "run" => s[i].val = a)
  <2> HIDE DEF s, l
  <2>1. i - l \in 1 .. Len(t) /\ l + (i - l) = i
    BY <1>3
  <2>2. s[i] = t[i - l]
    BY <1>3, <2>1
  <2> QED
    BY <1>1, <1>4, <2>1, <2>2, WritesAre
<1>6. ASSUME NEW i \in l + 1 .. Len(s), NEW c, NEW x, AimedTo(h, l, c, x)
      PROVE  AimedTo(s, i - 1, c, x)
  <2> DEFINE n == (i - 1) - l
  <2>1. n \in 0 .. Len(t) /\ l + n = i - 1
    <3> HIDE DEF s, l
    <3> QED
      BY <1>3
  <2> HIDE DEF n
  <2>2. \A k \in 1 .. n : ~Aims(t[k], c)
    <3> HIDE DEF s, l
    <3> QED
      BY <1>1, <1>3, <1>4, <2>1 DEF Aims
  <2>3. Aimed(h, Len(h), c, {x})
    BY <1>6 DEF AimedTo
  <2>4. Aimed(h \o t, Len(h) + n, c, {x})
    BY <1>2, <2>1, <2>2, <2>3, AimedLater
  <2> QED
    BY <2>1, <2>4 DEF AimedTo
<1> QED
  BY <1>3, <1>5, <1>6

LEMMA ReadPatternsIs ==
    ASSUME board \in Boards, NEW r \in Nat
    PROVE  LET s == ReadPatternsRank(r)
           IN /\ \A i \in 1 .. Len(s) :
                    /\ Exact(s, i)
                    /\ s[i].op = "run" => s[i].val = GUARANTEED_READ /\ i > 5
              /\ s[2] = LoadCntrReg(0, PatternReads) /\ s[4] = LoadCntrReg(1, PatternReads)
<1> DEFINE p == <<SelectReadWrite(r)>>
           q == Loop(0, PatternReads, 76) \o Loop(1, PatternReads, 84)
           t == PerVirtualGroup(76)
           h == p \o q
<1>1. 76 \in Bursts
  BY DEF Bursts, GUARANTEED_READ
<1>2. /\ LoadCntrReg(0, PatternReads) \in Fits /\ LoadJumpReg(0, 76) \in Fits
      /\ LoadCntrReg(1, PatternReads) \in Fits /\ LoadJumpReg(1, 84) \in Fits
      /\ SelectReadWrite(r) \in Fits
  <2>1. 76 \in Addresses /\ 84 \in Addresses /\ PatternReads \in 0 .. MaxCntr /\ 0 \in Cntrs /\ 1 \in Cntrs
    BY Constants DEF Addresses
  <2> QED
    BY <2>1, FitsAre
<1>3. /\ q \in Seq(Fits) /\ Len(q) = 4
      /\ q[1] = LoadCntrReg(0, PatternReads) /\ q[2] = LoadJumpReg(0, 76)
      /\ q[3] = LoadCntrReg(1, PatternReads) /\ q[4] = LoadJumpReg(1, 84)
  BY <1>2 DEF Loop
<1>4. p \in Seq(Fits) /\ Len(p) = 1 /\ p[1] = SelectReadWrite(r)
  BY <1>2
<1>5. ReadPatternsRank(r) = p \o (q \o t)
  BY Zenon DEF ReadPatternsRank, GUARANTEED_READ, GUARANTEED_READ_CONT
<1>6. t \in Seq(Again(76)) /\ t \in Seq(Fits)
  <2>1. t \in Seq(Again(76)) /\ Again(76) \subseteq Fits
    BY <1>1, AgainIs
  <2> HIDE DEF t
  <2> QED
    BY <2>1, SeqMonotonic
<1> HIDE DEF p, q, t
<1>7. ReadPatternsRank(r) = Cat(h, t)
  <2>1. Cat(Cat(p, q), t) = Cat(p, Cat(q, t))
    <3>1. p \in Seq(Fits) /\ q \in Seq(Fits) /\ t \in Seq(Fits)
      BY <1>3, <1>4, <1>6
    <3> QED
      BY <3>1, Regroup
  <2>2. ReadPatternsRank(r) = Cat(p, Cat(q, t))
    BY <1>5 DEF Cat
  <2>3. h = Cat(p, q)
    BY DEF Cat
  <2> QED
    BY Zenon, <2>1, <2>2, <2>3
<1>8. /\ h \in Seq(Fits) /\ Len(h) = 5
      /\ h[1] = SelectReadWrite(r)
      /\ h[2] = LoadCntrReg(0, PatternReads) /\ h[3] = LoadJumpReg(0, 76)
      /\ h[4] = LoadCntrReg(1, PatternReads) /\ h[5] = LoadJumpReg(1, 84)
  <2>1. p \in Seq(Fits) /\ q \in Seq(Fits)
    BY <1>3, <1>4
  <2>2. /\ h \in Seq(Fits) /\ Len(h) = Len(p) + Len(q)
        /\ \A i \in 1 .. Len(p) : h[i] = p[i]
        /\ \A i \in Len(p) + 1 .. Len(p) + Len(q) : h[i] = q[i - Len(p)]
    BY <2>1, JoinedAt
  <2> HIDE DEF h
  <2>3. /\ h \in Seq(Fits) /\ Len(h) = 1 + 4
        /\ \A i \in 1 .. 1 : h[i] = p[i]
        /\ \A i \in 1 + 1 .. 1 + 4 : h[i] = q[i - 1]
    BY <1>3, <1>4, <2>2
  <2> QED
    BY <1>3, <1>4, <2>3
<1> HIDE DEF h
<1>9. AimedTo(h, 5, 0, 76) /\ AimedTo(h, 5, 1, 84)
  <2>1. /\ \A k \in 3 + 1 .. 5 : k \in {4, 5}
        /\ \A k \in 5 + 1 .. 5 : FALSE
        /\ 3 \in 1 .. 5 /\ 5 \in 1 .. 5 /\ 5 \in Nat
    OBVIOUS
  <2>2. ~Aims(h[4], 0) /\ ~Aims(h[5], 0)
    BY <1>8, WritesAre DEF Aims
  <2>3. \A k \in 3 + 1 .. 5 : ~Aims(h[k], 0)
    BY <2>1, <2>2
  <2>4. \A k \in 5 + 1 .. 5 : ~Aims(h[k], 1)
    BY <2>1
  <2>5. h[3] = LoadJumpReg(0, 76) /\ h[5] = LoadJumpReg(1, 84)
    BY <1>8
  <2>6. AimedTo(h, 5, 0, 76)
    BY <2>1, <2>3, <2>5, AimedOnce
  <2>7. AimedTo(h, 5, 1, 84)
    BY <2>1, <2>4, <2>5, AimedOnce
  <2> QED
    BY <2>6, <2>7
<1> DEFINE s == h \o t
<1>10. /\ Len(s) = 5 + Len(t) /\ Len(t) \in Nat
       /\ \A i \in 1 .. 5 : s[i] = h[i]
       /\ \A i \in 5 + 1 .. Len(s) :
             /\ s[i].op \notin {"cntr", "jump"} /\ (s[i].op = "run" => s[i].val = 76)
             /\ \A c, x : AimedTo(h, 5, c, x) => AimedTo(s, i - 1, c, x)
  <2>1. h \in Seq(Fits) /\ t \in Seq(Again(76)) /\ Len(h) = 5
    BY <1>6, <1>8
  <2>2. /\ Len(s) = Len(h) + Len(t) /\ Len(h) \in Nat /\ Len(t) \in Nat
        /\ \A i \in 1 .. Len(h) : s[i] = h[i]
        /\ \A i \in Len(h) + 1 .. Len(s) :
              /\ s[i].op \notin {"cntr", "jump"} /\ (s[i].op = "run" => s[i].val = 76)
              /\ \A c, x : AimedTo(h, Len(h), c, x) => AimedTo(s, i - 1, c, x)
    BY <1>1, <2>1, AgainExact
  <2> QED
    BY <2>1, <2>2
<1> HIDE DEF s
<1>11. ASSUME NEW i \in 1 .. Len(s)
       PROVE  Exact(s, i) /\ (s[i].op = "run" => s[i].val = GUARANTEED_READ /\ i > 5)
  <2>1. CASE i \in 1 .. 5
    <3>1. s[i].op # "run"
      <4>1. i \in {1, 2, 3, 4, 5}
        BY <2>1
      <4>2. s[i] = h[i]
        BY <1>10, <2>1
      <4> QED
        BY <1>8, <4>1, <4>2, WritesAre
    <3> QED
      BY <3>1 DEF Exact
  <2>2. CASE i \notin 1 .. 5
    <3>1. i \in 5 + 1 .. Len(s) /\ i > 5
      BY <1>10, <2>2
    <3>2. /\ s[i].op = "run" => s[i].val = 76
          /\ AimedTo(s, i - 1, 0, 76) /\ AimedTo(s, i - 1, 1, 84)
      BY <1>9, <1>10, <3>1
    <3>3. /\ 76 \notin Modes /\ 76 # PRECHARGE_ALL /\ 76 # ACTIVATE_0_AND_1
          /\ 76 # GUARANTEED_WRITE /\ 76 # READ_B2B /\ 76 \notin WriteTests /\ GUARANTEED_READ = 76
      BY DEF GUARANTEED_READ, Modes, PRECHARGE_ALL, ACTIVATE_0_AND_1, GUARANTEED_WRITE,
         READ_B2B, WriteTests, WRITE_WL_1, WRITE, DmBlock
    <3>4. Exact(s, i)
      BY <3>2, <3>3 DEF Exact
    <3> QED
      BY <3>1, <3>2, <3>3, <3>4
  <2> QED
    BY <2>1, <2>2
<1>12. ReadPatternsRank(r) = s
  BY <1>7 DEF s, Cat
<1>13. s[2] = LoadCntrReg(0, PatternReads) /\ s[4] = LoadCntrReg(1, PatternReads)
  BY <1>8, <1>10
<1> QED
  BY <1>11, <1>12, <1>13

(* Counter 2 of a read test is loaded once.                                *)
LEMMA ReadTestIs ==
    ASSUME board \in Boards, NEW r \in Nat, NEW all \in BOOLEAN
    PROVE  LET s == ReadTestRank(r, all)
           IN /\ \A i \in 1 .. Len(s) :
                    /\ Exact(s, i)
                    /\ s[i].op = "run" => s[i].val = READ_B2B /\ i > 9
                    /\ i > 4 => ~(s[i].op = "cntr" /\ s[i].reg = 2)
              /\ Len(s) >= 9 /\ s[2] = LoadCntrReg(1, 16) /\ s[4] = LoadCntrReg(2, 16)
              /\ \E n, g : s[6] = LoadCntrReg(0, n) /\ s[8] = LoadCntrReg(3, g)
<1> DEFINE n == IF all THEN AllReadLoops ELSE ReadLoops
           g == IF all THEN AllGroups ELSE 0
           p == <<SelectReadWrite(r)>>
           q == Loop(1, 16, 97) \o Loop(2, 16, 107) \o Loop(0, n, 89) \o Loop(3, g, 89)
           t == PerVirtualGroup(89)
           h == p \o q
<1>1. 89 \in Bursts
  BY DEF Bursts, READ_B2B
<1>2. n \in 0 .. MaxCntr /\ g \in 0 .. MaxCntr
  BY Constants
<1>3. ReadTestRank(r, all) = p \o (q \o t)
  BY Zenon DEF ReadTestRank, READ_B2B, READ_B2B_WAIT1, READ_B2B_WAIT2
<1> HIDE DEF n, g
<1>4. /\ LoadCntrReg(1, 16) \in Fits /\ LoadJumpReg(1, 97) \in Fits
      /\ LoadCntrReg(2, 16) \in Fits /\ LoadJumpReg(2, 107) \in Fits
      /\ LoadCntrReg(0, n) \in Fits /\ LoadJumpReg(0, 89) \in Fits
      /\ LoadCntrReg(3, g) \in Fits /\ LoadJumpReg(3, 89) \in Fits
      /\ SelectReadWrite(r) \in Fits
  <2>1. 89 \in Addresses /\ 97 \in Addresses /\ 107 \in Addresses /\ 16 \in 0 .. MaxCntr
        /\ 0 \in Cntrs /\ 1 \in Cntrs /\ 2 \in Cntrs /\ 3 \in Cntrs
    BY Constants DEF Addresses
  <2> QED
    BY <1>2, <2>1, FitsAre
<1>5. /\ q \in Seq(Fits) /\ Len(q) = 8
      /\ q[1] = LoadCntrReg(1, 16) /\ q[2] = LoadJumpReg(1, 97)
      /\ q[3] = LoadCntrReg(2, 16) /\ q[4] = LoadJumpReg(2, 107)
      /\ q[5] = LoadCntrReg(0, n) /\ q[6] = LoadJumpReg(0, 89)
      /\ q[7] = LoadCntrReg(3, g) /\ q[8] = LoadJumpReg(3, 89)
  BY <1>4 DEF Loop
<1>6. p \in Seq(Fits) /\ Len(p) = 1 /\ p[1] = SelectReadWrite(r)
  BY <1>4
<1>7. t \in Seq(Again(89)) /\ t \in Seq(Fits)
  <2>1. t \in Seq(Again(89)) /\ Again(89) \subseteq Fits
    BY <1>1, AgainIs
  <2> HIDE DEF t
  <2> QED
    BY <2>1, SeqMonotonic
<1> HIDE DEF p, q, t
<1>8. ReadTestRank(r, all) = Cat(h, t)
  <2>1. Cat(Cat(p, q), t) = Cat(p, Cat(q, t))
    <3>1. p \in Seq(Fits) /\ q \in Seq(Fits) /\ t \in Seq(Fits)
      BY <1>5, <1>6, <1>7
    <3> QED
      BY <3>1, Regroup
  <2>2. ReadTestRank(r, all) = Cat(p, Cat(q, t))
    BY <1>3 DEF Cat
  <2>3. h = Cat(p, q)
    BY DEF Cat
  <2> QED
    BY Zenon, <2>1, <2>2, <2>3
<1>9. /\ h \in Seq(Fits) /\ Len(h) = 9
      /\ h[1] = SelectReadWrite(r)
      /\ h[2] = LoadCntrReg(1, 16) /\ h[3] = LoadJumpReg(1, 97)
      /\ h[4] = LoadCntrReg(2, 16) /\ h[5] = LoadJumpReg(2, 107)
      /\ h[6] = LoadCntrReg(0, n) /\ h[7] = LoadJumpReg(0, 89)
      /\ h[8] = LoadCntrReg(3, g) /\ h[9] = LoadJumpReg(3, 89)
  <2>1. p \in Seq(Fits) /\ q \in Seq(Fits)
    BY <1>5, <1>6
  <2>2. /\ h \in Seq(Fits) /\ Len(h) = Len(p) + Len(q)
        /\ \A i \in 1 .. Len(p) : h[i] = p[i]
        /\ \A i \in Len(p) + 1 .. Len(p) + Len(q) : h[i] = q[i - Len(p)]
    BY <2>1, JoinedAt
  <2> HIDE DEF h
  <2>3. /\ h \in Seq(Fits) /\ Len(h) = 1 + 8
        /\ \A i \in 1 .. 1 : h[i] = p[i]
        /\ \A i \in 1 + 1 .. 1 + 8 : h[i] = q[i - 1]
    BY <1>5, <1>6, <2>2
  <2> QED
    BY <1>5, <1>6, <2>3
<1> HIDE DEF h
<1>10. AimedTo(h, 9, 0, 89) /\ AimedTo(h, 9, 1, 97) /\ AimedTo(h, 9, 2, 107) /\ AimedTo(h, 9, 3, 89)
  <2>1. /\ \A k \in 3 + 1 .. 9 : k \in {4, 5, 6, 7, 8, 9}
        /\ \A k \in 5 + 1 .. 9 : k \in {6, 7, 8, 9}
        /\ \A k \in 7 + 1 .. 9 : k \in {8, 9}
        /\ \A k \in 9 + 1 .. 9 : FALSE
        /\ 3 \in 1 .. 9 /\ 5 \in 1 .. 9 /\ 7 \in 1 .. 9 /\ 9 \in 1 .. 9 /\ 9 \in Nat
    OBVIOUS
  <2>2. /\ \A k \in {4, 5, 6, 7, 8, 9} : ~Aims(h[k], 1)
        /\ \A k \in {6, 7, 8, 9} : ~Aims(h[k], 2)
        /\ \A k \in {8, 9} : ~Aims(h[k], 0)
    BY <1>9, WritesAre DEF Aims
  <2>3. /\ \A k \in 3 + 1 .. 9 : ~Aims(h[k], 1)
        /\ \A k \in 5 + 1 .. 9 : ~Aims(h[k], 2)
        /\ \A k \in 7 + 1 .. 9 : ~Aims(h[k], 0)
        /\ \A k \in 9 + 1 .. 9 : ~Aims(h[k], 3)
    BY <2>1, <2>2
  <2>4. /\ h[3] = LoadJumpReg(1, 97) /\ h[5] = LoadJumpReg(2, 107)
        /\ h[7] = LoadJumpReg(0, 89) /\ h[9] = LoadJumpReg(3, 89)
    BY <1>9
  <2>5. AimedTo(h, 9, 1, 97)
    BY <2>1, <2>3, <2>4, AimedOnce
  <2>6. AimedTo(h, 9, 2, 107)
    BY <2>1, <2>3, <2>4, AimedOnce
  <2>7. AimedTo(h, 9, 0, 89)
    BY <2>1, <2>3, <2>4, AimedOnce
  <2>8. AimedTo(h, 9, 3, 89)
    BY <2>1, <2>3, <2>4, AimedOnce
  <2> QED
    BY <2>5, <2>6, <2>7, <2>8
<1> DEFINE s == h \o t
<1>11. /\ Len(s) = 9 + Len(t) /\ Len(t) \in Nat
       /\ \A i \in 1 .. 9 : s[i] = h[i]
       /\ \A i \in 9 + 1 .. Len(s) :
             /\ s[i].op \notin {"cntr", "jump"} /\ (s[i].op = "run" => s[i].val = 89)
             /\ \A c, x : AimedTo(h, 9, c, x) => AimedTo(s, i - 1, c, x)
  <2>1. h \in Seq(Fits) /\ t \in Seq(Again(89)) /\ Len(h) = 9
    BY <1>7, <1>9
  <2>2. /\ Len(s) = Len(h) + Len(t) /\ Len(h) \in Nat /\ Len(t) \in Nat
        /\ \A i \in 1 .. Len(h) : s[i] = h[i]
        /\ \A i \in Len(h) + 1 .. Len(s) :
              /\ s[i].op \notin {"cntr", "jump"} /\ (s[i].op = "run" => s[i].val = 89)
              /\ \A c, x : AimedTo(h, Len(h), c, x) => AimedTo(s, i - 1, c, x)
    BY <1>1, <2>1, AgainExact
  <2> QED
    BY <2>1, <2>2
<1> HIDE DEF s
<1>12. ASSUME NEW i \in 1 .. Len(s)
       PROVE  /\ Exact(s, i)
              /\ s[i].op = "run" => s[i].val = READ_B2B /\ i > 9
              /\ i > 4 => ~(s[i].op = "cntr" /\ s[i].reg = 2)
  <2>1. CASE i \in 1 .. 9
    <3>1. s[i].op # "run" /\ (i > 4 => ~(s[i].op = "cntr" /\ s[i].reg = 2))
      <4>1. i \in {1, 2, 3, 4, 5, 6, 7, 8, 9}
        BY <2>1
      <4>2. s[i] = h[i]
        BY <1>11, <2>1
      <4> QED
        BY <1>9, <4>1, <4>2, WritesAre
    <3> QED
      BY <3>1 DEF Exact
  <2>2. CASE i \notin 1 .. 9
    <3>1. i \in 9 + 1 .. Len(s)
      BY <1>11, <2>2
    <3>2. /\ s[i].op \notin {"cntr", "jump"}
          /\ s[i].op = "run" => s[i].val = 89
          /\ AimedTo(s, i - 1, 0, 89) /\ AimedTo(s, i - 1, 1, 97)
          /\ AimedTo(s, i - 1, 2, 107) /\ AimedTo(s, i - 1, 3, 89)
      BY <1>10, <1>11, <3>1
    <3>3. /\ 89 \notin Modes /\ 89 # PRECHARGE_ALL /\ 89 # ACTIVATE_0_AND_1
          /\ 89 # GUARANTEED_WRITE /\ 89 # GUARANTEED_READ /\ 89 \notin WriteTests /\ READ_B2B = 89
      BY DEF GUARANTEED_READ, Modes, PRECHARGE_ALL, ACTIVATE_0_AND_1, GUARANTEED_WRITE,
         READ_B2B, WriteTests, WRITE_WL_1, WRITE, DmBlock
    <3>4. i - 1 > 4 /\ i > 9
      BY <3>1
    <3>5. Exact(s, i)
      BY <3>2, <3>3, <3>4 DEF Exact
    <3> QED
      BY <3>2, <3>3, <3>4, <3>5
  <2> QED
    BY <2>1, <2>2
<1>13. /\ Len(s) >= 9 /\ s[2] = LoadCntrReg(1, 16) /\ s[4] = LoadCntrReg(2, 16)
       /\ s[6] = LoadCntrReg(0, n) /\ s[8] = LoadCntrReg(3, g)
  BY <1>9, <1>11
<1>14. ReadTestRank(r, all) = s
  BY <1>8 DEF s, Cat
<1> QED
  BY <1>12, <1>13, <1>14

(* The body of the loop of a write test: the jump past the wait, or the    *)
(* wait; the loops; the run.                                               *)
LEMMA WriteFits ==
    ASSUME board \in Boards, NEW dm \in {0, 20}
    PROVE  /\ PhyReg \in Fits
           /\ LoadCntrReg(2, 255) \in Fits /\ LoadCntrReg(2, 0) \in Fits
           /\ LoadJumpReg(2, 37 + dm) \in Fits /\ LoadJumpReg(2, 36 + dm) \in Fits
           /\ LoadJumpReg(2, 0) \in Fits /\ LoadJumpReg(3, 35 + dm) \in Fits
           /\ Wlat > 2 => LoadCntrReg(3, Wlat - 3) \in Fits
           /\ LoadCntrReg(0, WriteLoops) \in Fits /\ LoadCntrReg(1, 48) \in Fits
           /\ LoadJumpReg(0, 33 + dm) \in Fits /\ LoadJumpReg(0, 34 + dm) \in Fits
           /\ LoadJumpReg(1, 50 + dm) \in Fits
           /\ RunReg(33 + dm) \in Fits /\ RunReg(34 + dm) \in Fits
           /\ \A a \in {33 + dm, 34 + dm} :
                 a \in WriteTests /\ Dm(a) = dm
<1>1. dm = 0 \/ dm = 20
  OBVIOUS
<1>2. {37 + dm, 36 + dm, 0, 35 + dm, 33 + dm, 34 + dm, 50 + dm} \subseteq Addresses
  BY <1>1 DEF Addresses
<1>3. 255 \in 0 .. MaxCntr /\ 0 \in 0 .. MaxCntr /\ 48 \in 0 .. MaxCntr
      /\ WriteLoops \in 0 .. MaxCntr
  BY Constants
<1>4. Wlat > 2 => Wlat - 3 \in 0 .. MaxCntr
  <2>1. Wlat \in 1 .. 25 /\ MaxCntr \in Nat /\ MaxCntr >= 255
    BY BoardTimes, CommandsAssumption, CntrAssumption
  <2> QED
    BY <2>1
<1>5. 33 + dm \in WriteTests /\ 34 + dm \in WriteTests
  BY <1>1 DEF WriteTests, WRITE_WL_1, WRITE, DmBlock
<1>6. WriteTests \subseteq Entries
  BY DEF Entries, Bursts
<1>7. \A a \in {33 + dm, 34 + dm} : Dm(a) = dm
  BY <1>1 DEF Dm, WRITE, DmBlock
<1>8. {0, 1, 2, 3} \subseteq Cntrs
  BY DEF Cntrs
<1>9. /\ \A c \in {0, 1, 2, 3} : /\ \A n \in 0 .. MaxCntr : LoadCntrReg(c, n) \in Fits
                                 /\ \A a \in Addresses : LoadJumpReg(c, a) \in Fits
      /\ \A a \in Entries : RunReg(a) \in Fits
      /\ PhyReg \in Fits
  BY <1>8, FitsAre
<1>10. /\ LoadCntrReg(2, 255) \in Fits /\ LoadCntrReg(2, 0) \in Fits
       /\ Wlat > 2 => LoadCntrReg(3, Wlat - 3) \in Fits
       /\ LoadCntrReg(0, WriteLoops) \in Fits /\ LoadCntrReg(1, 48) \in Fits
  BY <1>3, <1>4, <1>9
<1>11. /\ LoadJumpReg(2, 37 + dm) \in Fits /\ LoadJumpReg(2, 36 + dm) \in Fits
       /\ LoadJumpReg(2, 0) \in Fits /\ LoadJumpReg(3, 35 + dm) \in Fits
       /\ LoadJumpReg(0, 33 + dm) \in Fits /\ LoadJumpReg(0, 34 + dm) \in Fits
       /\ LoadJumpReg(1, 50 + dm) \in Fits
  BY <1>2, <1>9
<1> QED
  BY <1>5, <1>6, <1>7, <1>9, <1>10, <1>11

LEMMA WriteOne ==
    ASSUME board \in Boards, NEW dm \in {0, 20}, Wlat = 1
    PROVE  LET s == <<PhyReg>> \o write_test_issue(dm)
           IN /\ s \in Seq(Fits) /\ Len(s) = 10
              /\ s[1] = PhyReg
              /\ s[2] = LoadCntrReg(2, 255)
              /\ s[3] = LoadJumpReg(2, 37 + dm)
              /\ s[4] = LoadJumpReg(3, 35 + dm)
              /\ s[5] = PhyReg
              /\ s[6] = LoadCntrReg(0, WriteLoops)
              /\ s[7] = LoadJumpReg(0, 33 + dm)
              /\ s[8] = LoadCntrReg(1, 48)
              /\ s[9] = LoadJumpReg(1, 50 + dm)
              /\ s[10] = RunReg(33 + dm)
              /\ WriteEntry = 33
<1>1. write_test_issue(dm) = (Loop(2, 255, 37 + dm) \o <<LoadJumpReg(3, 35 + dm)>>) \o <<PhyReg>> \o Loop(0, WriteLoops, 33 + dm)
                             \o Loop(1, 48, 50 + dm) \o <<RunReg(33 + dm)>>
      /\ WriteEntry = 33
  <2>1. rw_wl_nop_cycles = Wlat - 2 /\ Wlat \in 1 .. 25
    BY BoardTimes DEF rw_wl_nop_cycles
  <2>2. WriteEntry = 33
    BY <2>1 DEF WriteEntry, WRITE_WL_1, WRITE
  <2>3. WriteSkips(dm) = (Loop(2, 255, 37 + dm) \o <<LoadJumpReg(3, 35 + dm)>>)
    <3>1. /\ rw_wl_nop_cycles = -1 <=> Wlat = 1
          /\ rw_wl_nop_cycles = 0 <=> Wlat = 2
          /\ rw_wl_nop_cycles - 1 = Wlat - 3
      BY <2>1
    <3>2. Wlat > 2 => Wlat # 1 /\ Wlat # 2
      BY <2>1
    <3>3. Wlat = 1 => Wlat # 2
      OBVIOUS
    <3> QED
      BY Zenon, <3>1, <3>2, <3>3 DEF WriteSkips, WRITE_DATA, WRITE_NOP, WRITE_DQS
  <2> QED
    BY Zenon, <2>2, <2>3 DEF write_test_issue, WRITE_WAIT
<1> DEFINE k == (Loop(2, 255, 37 + dm) \o <<LoadJumpReg(3, 35 + dm)>>)
           l0 == Loop(0, WriteLoops, 33 + dm)
           l1 == Loop(1, 48, 50 + dm)
           y == <<PhyReg>>
           w == <<RunReg(33 + dm)>>
<1>2. /\ k \in Seq(Fits) /\ Len(k) = 3
      /\ k[1] = LoadCntrReg(2, 255)
      /\ k[2] = LoadJumpReg(2, 37 + dm)
      /\ k[3] = LoadJumpReg(3, 35 + dm)
  BY WriteFits DEF Loop
<1>3. /\ l0 \in Seq(Fits) /\ Len(l0) = 2
      /\ l0[1] = LoadCntrReg(0, WriteLoops) /\ l0[2] = LoadJumpReg(0, 33 + dm)
  BY WriteFits DEF Loop
<1>4. /\ l1 \in Seq(Fits) /\ Len(l1) = 2
      /\ l1[1] = LoadCntrReg(1, 48) /\ l1[2] = LoadJumpReg(1, 50 + dm)
  BY WriteFits DEF Loop
<1>5. /\ y \in Seq(Fits) /\ Len(y) = 1 /\ y[1] = PhyReg
      /\ w \in Seq(Fits) /\ Len(w) = 1 /\ w[1] = RunReg(33 + dm)
  BY WriteFits
<1>6. write_test_issue(dm) = (((k \o y) \o l0) \o l1) \o w
  BY <1>1
<1> HIDE DEF k, l0, l1, y, w
<1> DEFINE ky == k \o y
<1>7. /\ ky \in Seq(Fits) /\ Len(ky) = 3 + 1
      /\ \A i \in 1 .. 3 : ky[i] = k[i]
      /\ \A i \in 3 + 1 .. 3 + 1 : ky[i] = y[i - 3]
  <2>1. k \in Seq(Fits) /\ y \in Seq(Fits) /\ Len(k) = 3 /\ Len(y) = 1
    BY <1>2, <1>5
  <2>2. k \in Seq(Fits) /\ y \in Seq(Fits)
    BY <2>1
  <2>3. /\ ky \in Seq(Fits) /\ Len(ky) = Len(k) + Len(y)
        /\ \A i \in 1 .. Len(k) : ky[i] = k[i]
        /\ \A i \in Len(k) + 1 .. Len(k) + Len(y) : ky[i] = y[i - Len(k)]
    BY <2>2, JoinedAt
  <2> HIDE DEF ky
  <2> QED
    BY <2>1, <2>3
<1> HIDE DEF ky
<1> DEFINE kyl == ky \o l0
<1>8. /\ kyl \in Seq(Fits) /\ Len(kyl) = 4 + 2
      /\ \A i \in 1 .. 4 : kyl[i] = ky[i]
      /\ \A i \in 4 + 1 .. 4 + 2 : kyl[i] = l0[i - 4]
  <2>1. ky \in Seq(Fits) /\ l0 \in Seq(Fits) /\ Len(ky) = 4 /\ Len(l0) = 2
    BY <1>7, <1>3
  <2>2. ky \in Seq(Fits) /\ l0 \in Seq(Fits)
    BY <2>1
  <2>3. /\ kyl \in Seq(Fits) /\ Len(kyl) = Len(ky) + Len(l0)
        /\ \A i \in 1 .. Len(ky) : kyl[i] = ky[i]
        /\ \A i \in Len(ky) + 1 .. Len(ky) + Len(l0) : kyl[i] = l0[i - Len(ky)]
    BY <2>2, JoinedAt
  <2> HIDE DEF kyl
  <2> QED
    BY <2>1, <2>3
<1> HIDE DEF kyl
<1> DEFINE kyll == kyl \o l1
<1>9. /\ kyll \in Seq(Fits) /\ Len(kyll) = 6 + 2
      /\ \A i \in 1 .. 6 : kyll[i] = kyl[i]
      /\ \A i \in 6 + 1 .. 6 + 2 : kyll[i] = l1[i - 6]
  <2>1. kyl \in Seq(Fits) /\ l1 \in Seq(Fits) /\ Len(kyl) = 6 /\ Len(l1) = 2
    BY <1>8, <1>4
  <2>2. kyl \in Seq(Fits) /\ l1 \in Seq(Fits)
    BY <2>1
  <2>3. /\ kyll \in Seq(Fits) /\ Len(kyll) = Len(kyl) + Len(l1)
        /\ \A i \in 1 .. Len(kyl) : kyll[i] = kyl[i]
        /\ \A i \in Len(kyl) + 1 .. Len(kyl) + Len(l1) : kyll[i] = l1[i - Len(kyl)]
    BY <2>2, JoinedAt
  <2> HIDE DEF kyll
  <2> QED
    BY <2>1, <2>3
<1> HIDE DEF kyll
<1> DEFINE t == kyll \o w
<1>10. /\ t \in Seq(Fits) /\ Len(t) = 8 + 1
       /\ \A i \in 1 .. 8 : t[i] = kyll[i]
       /\ \A i \in 8 + 1 .. 8 + 1 : t[i] = w[i - 8]
  <2>1. kyll \in Seq(Fits) /\ w \in Seq(Fits) /\ Len(kyll) = 8 /\ Len(w) = 1
    BY <1>9, <1>5
  <2>2. kyll \in Seq(Fits) /\ w \in Seq(Fits)
    BY <2>1
  <2>3. /\ t \in Seq(Fits) /\ Len(t) = Len(kyll) + Len(w)
        /\ \A i \in 1 .. Len(kyll) : t[i] = kyll[i]
        /\ \A i \in Len(kyll) + 1 .. Len(kyll) + Len(w) : t[i] = w[i - Len(kyll)]
    BY <2>2, JoinedAt
  <2> HIDE DEF t
  <2> QED
    BY <2>1, <2>3
<1> HIDE DEF t
<1> DEFINE s == y \o t
<1>11. /\ s \in Seq(Fits) /\ Len(s) = 1 + 9
       /\ \A i \in 1 .. 1 : s[i] = y[i]
       /\ \A i \in 1 + 1 .. 1 + 9 : s[i] = t[i - 1]
  <2>1. y \in Seq(Fits) /\ t \in Seq(Fits) /\ Len(y) = 1 /\ Len(t) = 9
    BY <1>5, <1>10
  <2>2. y \in Seq(Fits) /\ t \in Seq(Fits)
    BY <2>1
  <2>3. /\ s \in Seq(Fits) /\ Len(s) = Len(y) + Len(t)
        /\ \A i \in 1 .. Len(y) : s[i] = y[i]
        /\ \A i \in Len(y) + 1 .. Len(y) + Len(t) : s[i] = t[i - Len(y)]
    BY <2>2, JoinedAt
  <2> HIDE DEF s
  <2> QED
    BY <2>1, <2>3
<1> HIDE DEF s
<1>12. <<PhyReg>> \o write_test_issue(dm) = s
  BY <1>6 DEF s, t, kyll, kyl, ky, y
<1>13. /\ s[1] = y[1] /\ s[10] = t[9] /\ t[9] = w[1]
       /\ s[2] = t[1] /\ t[1] = kyll[1]
       /\ s[3] = t[2] /\ t[2] = kyll[2]
       /\ s[4] = t[3] /\ t[3] = kyll[3]
       /\ s[5] = t[4] /\ t[4] = kyll[4]
       /\ s[6] = t[5] /\ t[5] = kyll[5]
       /\ s[7] = t[6] /\ t[6] = kyll[6]
       /\ s[8] = t[7] /\ t[7] = kyll[7]
       /\ s[9] = t[8] /\ t[8] = kyll[8]
  BY <1>10, <1>11
<1>14. /\ kyll[7] = l1[1] /\ kyll[8] = l1[2]
       /\ kyll[1] = kyl[1]
       /\ kyll[2] = kyl[2]
       /\ kyll[3] = kyl[3]
       /\ kyll[4] = kyl[4]
       /\ kyll[5] = kyl[5]
       /\ kyll[6] = kyl[6]
  BY <1>9
<1>15. /\ kyl[5] = l0[1] /\ kyl[6] = l0[2]
       /\ kyl[4] = ky[4] /\ ky[4] = y[1]
       /\ kyl[1] = ky[1] /\ ky[1] = k[1]
       /\ kyl[2] = ky[2] /\ ky[2] = k[2]
       /\ kyl[3] = ky[3] /\ ky[3] = k[3]
  BY <1>7, <1>8
<1>16. /\ s \in Seq(Fits) /\ Len(s) = 10
       /\ s[1] = PhyReg
       /\ s[2] = LoadCntrReg(2, 255)
       /\ s[3] = LoadJumpReg(2, 37 + dm)
       /\ s[4] = LoadJumpReg(3, 35 + dm)
       /\ s[5] = PhyReg
       /\ s[6] = LoadCntrReg(0, WriteLoops)
       /\ s[7] = LoadJumpReg(0, 33 + dm)
       /\ s[8] = LoadCntrReg(1, 48)
       /\ s[9] = LoadJumpReg(1, 50 + dm)
       /\ s[10] = RunReg(33 + dm)
  BY <1>2, <1>3, <1>4, <1>5, <1>11, <1>13, <1>14, <1>15
<1> QED
  BY <1>1, <1>12, <1>16

LEMMA WriteTwo ==
    ASSUME board \in Boards, NEW dm \in {0, 20}, Wlat = 2
    PROVE  LET s == <<PhyReg>> \o write_test_issue(dm)
           IN /\ s \in Seq(Fits) /\ Len(s) = 9
              /\ s[1] = PhyReg
              /\ s[2] = LoadCntrReg(2, 255)
              /\ s[3] = LoadJumpReg(2, 36 + dm)
              /\ s[4] = PhyReg
              /\ s[5] = LoadCntrReg(0, WriteLoops)
              /\ s[6] = LoadJumpReg(0, 34 + dm)
              /\ s[7] = LoadCntrReg(1, 48)
              /\ s[8] = LoadJumpReg(1, 50 + dm)
              /\ s[9] = RunReg(34 + dm)
              /\ WriteEntry = 34
<1>1. write_test_issue(dm) = Loop(2, 255, 36 + dm) \o <<PhyReg>> \o Loop(0, WriteLoops, 34 + dm)
                             \o Loop(1, 48, 50 + dm) \o <<RunReg(34 + dm)>>
      /\ WriteEntry = 34
  <2>1. rw_wl_nop_cycles = Wlat - 2 /\ Wlat \in 1 .. 25
    BY BoardTimes DEF rw_wl_nop_cycles
  <2>2. WriteEntry = 34
    BY <2>1 DEF WriteEntry, WRITE_WL_1, WRITE
  <2>3. WriteSkips(dm) = Loop(2, 255, 36 + dm)
    <3>1. /\ rw_wl_nop_cycles = -1 <=> Wlat = 1
          /\ rw_wl_nop_cycles = 0 <=> Wlat = 2
          /\ rw_wl_nop_cycles - 1 = Wlat - 3
      BY <2>1
    <3>2. Wlat > 2 => Wlat # 1 /\ Wlat # 2
      BY <2>1
    <3>3. Wlat = 1 => Wlat # 2
      OBVIOUS
    <3> QED
      BY Zenon, <3>1, <3>2, <3>3 DEF WriteSkips, WRITE_DATA, WRITE_NOP, WRITE_DQS
  <2> QED
    BY Zenon, <2>2, <2>3 DEF write_test_issue, WRITE_WAIT
<1> DEFINE k == Loop(2, 255, 36 + dm)
           l0 == Loop(0, WriteLoops, 34 + dm)
           l1 == Loop(1, 48, 50 + dm)
           y == <<PhyReg>>
           w == <<RunReg(34 + dm)>>
<1>2. /\ k \in Seq(Fits) /\ Len(k) = 2
      /\ k[1] = LoadCntrReg(2, 255)
      /\ k[2] = LoadJumpReg(2, 36 + dm)
  BY WriteFits DEF Loop
<1>3. /\ l0 \in Seq(Fits) /\ Len(l0) = 2
      /\ l0[1] = LoadCntrReg(0, WriteLoops) /\ l0[2] = LoadJumpReg(0, 34 + dm)
  BY WriteFits DEF Loop
<1>4. /\ l1 \in Seq(Fits) /\ Len(l1) = 2
      /\ l1[1] = LoadCntrReg(1, 48) /\ l1[2] = LoadJumpReg(1, 50 + dm)
  BY WriteFits DEF Loop
<1>5. /\ y \in Seq(Fits) /\ Len(y) = 1 /\ y[1] = PhyReg
      /\ w \in Seq(Fits) /\ Len(w) = 1 /\ w[1] = RunReg(34 + dm)
  BY WriteFits
<1>6. write_test_issue(dm) = (((k \o y) \o l0) \o l1) \o w
  BY <1>1
<1> HIDE DEF k, l0, l1, y, w
<1> DEFINE ky == k \o y
<1>7. /\ ky \in Seq(Fits) /\ Len(ky) = 2 + 1
      /\ \A i \in 1 .. 2 : ky[i] = k[i]
      /\ \A i \in 2 + 1 .. 2 + 1 : ky[i] = y[i - 2]
  <2>1. k \in Seq(Fits) /\ y \in Seq(Fits) /\ Len(k) = 2 /\ Len(y) = 1
    BY <1>2, <1>5
  <2>2. k \in Seq(Fits) /\ y \in Seq(Fits)
    BY <2>1
  <2>3. /\ ky \in Seq(Fits) /\ Len(ky) = Len(k) + Len(y)
        /\ \A i \in 1 .. Len(k) : ky[i] = k[i]
        /\ \A i \in Len(k) + 1 .. Len(k) + Len(y) : ky[i] = y[i - Len(k)]
    BY <2>2, JoinedAt
  <2> HIDE DEF ky
  <2> QED
    BY <2>1, <2>3
<1> HIDE DEF ky
<1> DEFINE kyl == ky \o l0
<1>8. /\ kyl \in Seq(Fits) /\ Len(kyl) = 3 + 2
      /\ \A i \in 1 .. 3 : kyl[i] = ky[i]
      /\ \A i \in 3 + 1 .. 3 + 2 : kyl[i] = l0[i - 3]
  <2>1. ky \in Seq(Fits) /\ l0 \in Seq(Fits) /\ Len(ky) = 3 /\ Len(l0) = 2
    BY <1>7, <1>3
  <2>2. ky \in Seq(Fits) /\ l0 \in Seq(Fits)
    BY <2>1
  <2>3. /\ kyl \in Seq(Fits) /\ Len(kyl) = Len(ky) + Len(l0)
        /\ \A i \in 1 .. Len(ky) : kyl[i] = ky[i]
        /\ \A i \in Len(ky) + 1 .. Len(ky) + Len(l0) : kyl[i] = l0[i - Len(ky)]
    BY <2>2, JoinedAt
  <2> HIDE DEF kyl
  <2> QED
    BY <2>1, <2>3
<1> HIDE DEF kyl
<1> DEFINE kyll == kyl \o l1
<1>9. /\ kyll \in Seq(Fits) /\ Len(kyll) = 5 + 2
      /\ \A i \in 1 .. 5 : kyll[i] = kyl[i]
      /\ \A i \in 5 + 1 .. 5 + 2 : kyll[i] = l1[i - 5]
  <2>1. kyl \in Seq(Fits) /\ l1 \in Seq(Fits) /\ Len(kyl) = 5 /\ Len(l1) = 2
    BY <1>8, <1>4
  <2>2. kyl \in Seq(Fits) /\ l1 \in Seq(Fits)
    BY <2>1
  <2>3. /\ kyll \in Seq(Fits) /\ Len(kyll) = Len(kyl) + Len(l1)
        /\ \A i \in 1 .. Len(kyl) : kyll[i] = kyl[i]
        /\ \A i \in Len(kyl) + 1 .. Len(kyl) + Len(l1) : kyll[i] = l1[i - Len(kyl)]
    BY <2>2, JoinedAt
  <2> HIDE DEF kyll
  <2> QED
    BY <2>1, <2>3
<1> HIDE DEF kyll
<1> DEFINE t == kyll \o w
<1>10. /\ t \in Seq(Fits) /\ Len(t) = 7 + 1
       /\ \A i \in 1 .. 7 : t[i] = kyll[i]
       /\ \A i \in 7 + 1 .. 7 + 1 : t[i] = w[i - 7]
  <2>1. kyll \in Seq(Fits) /\ w \in Seq(Fits) /\ Len(kyll) = 7 /\ Len(w) = 1
    BY <1>9, <1>5
  <2>2. kyll \in Seq(Fits) /\ w \in Seq(Fits)
    BY <2>1
  <2>3. /\ t \in Seq(Fits) /\ Len(t) = Len(kyll) + Len(w)
        /\ \A i \in 1 .. Len(kyll) : t[i] = kyll[i]
        /\ \A i \in Len(kyll) + 1 .. Len(kyll) + Len(w) : t[i] = w[i - Len(kyll)]
    BY <2>2, JoinedAt
  <2> HIDE DEF t
  <2> QED
    BY <2>1, <2>3
<1> HIDE DEF t
<1> DEFINE s == y \o t
<1>11. /\ s \in Seq(Fits) /\ Len(s) = 1 + 8
       /\ \A i \in 1 .. 1 : s[i] = y[i]
       /\ \A i \in 1 + 1 .. 1 + 8 : s[i] = t[i - 1]
  <2>1. y \in Seq(Fits) /\ t \in Seq(Fits) /\ Len(y) = 1 /\ Len(t) = 8
    BY <1>5, <1>10
  <2>2. y \in Seq(Fits) /\ t \in Seq(Fits)
    BY <2>1
  <2>3. /\ s \in Seq(Fits) /\ Len(s) = Len(y) + Len(t)
        /\ \A i \in 1 .. Len(y) : s[i] = y[i]
        /\ \A i \in Len(y) + 1 .. Len(y) + Len(t) : s[i] = t[i - Len(y)]
    BY <2>2, JoinedAt
  <2> HIDE DEF s
  <2> QED
    BY <2>1, <2>3
<1> HIDE DEF s
<1>12. <<PhyReg>> \o write_test_issue(dm) = s
  BY <1>6 DEF s, t, kyll, kyl, ky, y
<1>13. /\ s[1] = y[1] /\ s[9] = t[8] /\ t[8] = w[1]
       /\ s[2] = t[1] /\ t[1] = kyll[1]
       /\ s[3] = t[2] /\ t[2] = kyll[2]
       /\ s[4] = t[3] /\ t[3] = kyll[3]
       /\ s[5] = t[4] /\ t[4] = kyll[4]
       /\ s[6] = t[5] /\ t[5] = kyll[5]
       /\ s[7] = t[6] /\ t[6] = kyll[6]
       /\ s[8] = t[7] /\ t[7] = kyll[7]
  BY <1>10, <1>11
<1>14. /\ kyll[6] = l1[1] /\ kyll[7] = l1[2]
       /\ kyll[1] = kyl[1]
       /\ kyll[2] = kyl[2]
       /\ kyll[3] = kyl[3]
       /\ kyll[4] = kyl[4]
       /\ kyll[5] = kyl[5]
  BY <1>9
<1>15. /\ kyl[4] = l0[1] /\ kyl[5] = l0[2]
       /\ kyl[3] = ky[3] /\ ky[3] = y[1]
       /\ kyl[1] = ky[1] /\ ky[1] = k[1]
       /\ kyl[2] = ky[2] /\ ky[2] = k[2]
  BY <1>7, <1>8
<1>16. /\ s \in Seq(Fits) /\ Len(s) = 9
       /\ s[1] = PhyReg
       /\ s[2] = LoadCntrReg(2, 255)
       /\ s[3] = LoadJumpReg(2, 36 + dm)
       /\ s[4] = PhyReg
       /\ s[5] = LoadCntrReg(0, WriteLoops)
       /\ s[6] = LoadJumpReg(0, 34 + dm)
       /\ s[7] = LoadCntrReg(1, 48)
       /\ s[8] = LoadJumpReg(1, 50 + dm)
       /\ s[9] = RunReg(34 + dm)
  BY <1>2, <1>3, <1>4, <1>5, <1>11, <1>13, <1>14, <1>15
<1> QED
  BY <1>1, <1>12, <1>16

LEMMA WriteMore ==
    ASSUME board \in Boards, NEW dm \in {0, 20}, Wlat > 2
    PROVE  LET s == <<PhyReg>> \o write_test_issue(dm)
           IN /\ s \in Seq(Fits) /\ Len(s) = 11
              /\ s[1] = PhyReg
              /\ s[2] = LoadCntrReg(2, 0)
              /\ s[3] = LoadJumpReg(2, 0)
              /\ s[4] = LoadCntrReg(3, Wlat - 3)
              /\ s[5] = LoadJumpReg(3, 35 + dm)
              /\ s[6] = PhyReg
              /\ s[7] = LoadCntrReg(0, WriteLoops)
              /\ s[8] = LoadJumpReg(0, 34 + dm)
              /\ s[9] = LoadCntrReg(1, 48)
              /\ s[10] = LoadJumpReg(1, 50 + dm)
              /\ s[11] = RunReg(34 + dm)
              /\ WriteEntry = 34
<1>1. write_test_issue(dm) = (Loop(2, 0, 0) \o Loop(3, Wlat - 3, 35 + dm)) \o <<PhyReg>> \o Loop(0, WriteLoops, 34 + dm)
                             \o Loop(1, 48, 50 + dm) \o <<RunReg(34 + dm)>>
      /\ WriteEntry = 34
  <2>1. rw_wl_nop_cycles = Wlat - 2 /\ Wlat \in 1 .. 25
    BY BoardTimes DEF rw_wl_nop_cycles
  <2>2. WriteEntry = 34
    BY <2>1 DEF WriteEntry, WRITE_WL_1, WRITE
  <2>3. WriteSkips(dm) = (Loop(2, 0, 0) \o Loop(3, Wlat - 3, 35 + dm))
    <3>1. /\ rw_wl_nop_cycles = -1 <=> Wlat = 1
          /\ rw_wl_nop_cycles = 0 <=> Wlat = 2
          /\ rw_wl_nop_cycles - 1 = Wlat - 3
      BY <2>1
    <3>2. Wlat > 2 => Wlat # 1 /\ Wlat # 2
      BY <2>1
    <3>3. Wlat = 1 => Wlat # 2
      OBVIOUS
    <3> QED
      BY Zenon, <3>1, <3>2, <3>3 DEF WriteSkips, WRITE_DATA, WRITE_NOP, WRITE_DQS
  <2> QED
    BY Zenon, <2>2, <2>3 DEF write_test_issue, WRITE_WAIT
<1> DEFINE k == (Loop(2, 0, 0) \o Loop(3, Wlat - 3, 35 + dm))
           l0 == Loop(0, WriteLoops, 34 + dm)
           l1 == Loop(1, 48, 50 + dm)
           y == <<PhyReg>>
           w == <<RunReg(34 + dm)>>
<1>2. /\ k \in Seq(Fits) /\ Len(k) = 4
      /\ k[1] = LoadCntrReg(2, 0)
      /\ k[2] = LoadJumpReg(2, 0)
      /\ k[3] = LoadCntrReg(3, Wlat - 3)
      /\ k[4] = LoadJumpReg(3, 35 + dm)
  BY WriteFits DEF Loop
<1>3. /\ l0 \in Seq(Fits) /\ Len(l0) = 2
      /\ l0[1] = LoadCntrReg(0, WriteLoops) /\ l0[2] = LoadJumpReg(0, 34 + dm)
  BY WriteFits DEF Loop
<1>4. /\ l1 \in Seq(Fits) /\ Len(l1) = 2
      /\ l1[1] = LoadCntrReg(1, 48) /\ l1[2] = LoadJumpReg(1, 50 + dm)
  BY WriteFits DEF Loop
<1>5. /\ y \in Seq(Fits) /\ Len(y) = 1 /\ y[1] = PhyReg
      /\ w \in Seq(Fits) /\ Len(w) = 1 /\ w[1] = RunReg(34 + dm)
  BY WriteFits
<1>6. write_test_issue(dm) = (((k \o y) \o l0) \o l1) \o w
  BY <1>1
<1> HIDE DEF k, l0, l1, y, w
<1> DEFINE ky == k \o y
<1>7. /\ ky \in Seq(Fits) /\ Len(ky) = 4 + 1
      /\ \A i \in 1 .. 4 : ky[i] = k[i]
      /\ \A i \in 4 + 1 .. 4 + 1 : ky[i] = y[i - 4]
  <2>1. k \in Seq(Fits) /\ y \in Seq(Fits) /\ Len(k) = 4 /\ Len(y) = 1
    BY <1>2, <1>5
  <2>2. k \in Seq(Fits) /\ y \in Seq(Fits)
    BY <2>1
  <2>3. /\ ky \in Seq(Fits) /\ Len(ky) = Len(k) + Len(y)
        /\ \A i \in 1 .. Len(k) : ky[i] = k[i]
        /\ \A i \in Len(k) + 1 .. Len(k) + Len(y) : ky[i] = y[i - Len(k)]
    BY <2>2, JoinedAt
  <2> HIDE DEF ky
  <2> QED
    BY <2>1, <2>3
<1> HIDE DEF ky
<1> DEFINE kyl == ky \o l0
<1>8. /\ kyl \in Seq(Fits) /\ Len(kyl) = 5 + 2
      /\ \A i \in 1 .. 5 : kyl[i] = ky[i]
      /\ \A i \in 5 + 1 .. 5 + 2 : kyl[i] = l0[i - 5]
  <2>1. ky \in Seq(Fits) /\ l0 \in Seq(Fits) /\ Len(ky) = 5 /\ Len(l0) = 2
    BY <1>7, <1>3
  <2>2. ky \in Seq(Fits) /\ l0 \in Seq(Fits)
    BY <2>1
  <2>3. /\ kyl \in Seq(Fits) /\ Len(kyl) = Len(ky) + Len(l0)
        /\ \A i \in 1 .. Len(ky) : kyl[i] = ky[i]
        /\ \A i \in Len(ky) + 1 .. Len(ky) + Len(l0) : kyl[i] = l0[i - Len(ky)]
    BY <2>2, JoinedAt
  <2> HIDE DEF kyl
  <2> QED
    BY <2>1, <2>3
<1> HIDE DEF kyl
<1> DEFINE kyll == kyl \o l1
<1>9. /\ kyll \in Seq(Fits) /\ Len(kyll) = 7 + 2
      /\ \A i \in 1 .. 7 : kyll[i] = kyl[i]
      /\ \A i \in 7 + 1 .. 7 + 2 : kyll[i] = l1[i - 7]
  <2>1. kyl \in Seq(Fits) /\ l1 \in Seq(Fits) /\ Len(kyl) = 7 /\ Len(l1) = 2
    BY <1>8, <1>4
  <2>2. kyl \in Seq(Fits) /\ l1 \in Seq(Fits)
    BY <2>1
  <2>3. /\ kyll \in Seq(Fits) /\ Len(kyll) = Len(kyl) + Len(l1)
        /\ \A i \in 1 .. Len(kyl) : kyll[i] = kyl[i]
        /\ \A i \in Len(kyl) + 1 .. Len(kyl) + Len(l1) : kyll[i] = l1[i - Len(kyl)]
    BY <2>2, JoinedAt
  <2> HIDE DEF kyll
  <2> QED
    BY <2>1, <2>3
<1> HIDE DEF kyll
<1> DEFINE t == kyll \o w
<1>10. /\ t \in Seq(Fits) /\ Len(t) = 9 + 1
       /\ \A i \in 1 .. 9 : t[i] = kyll[i]
       /\ \A i \in 9 + 1 .. 9 + 1 : t[i] = w[i - 9]
  <2>1. kyll \in Seq(Fits) /\ w \in Seq(Fits) /\ Len(kyll) = 9 /\ Len(w) = 1
    BY <1>9, <1>5
  <2>2. kyll \in Seq(Fits) /\ w \in Seq(Fits)
    BY <2>1
  <2>3. /\ t \in Seq(Fits) /\ Len(t) = Len(kyll) + Len(w)
        /\ \A i \in 1 .. Len(kyll) : t[i] = kyll[i]
        /\ \A i \in Len(kyll) + 1 .. Len(kyll) + Len(w) : t[i] = w[i - Len(kyll)]
    BY <2>2, JoinedAt
  <2> HIDE DEF t
  <2> QED
    BY <2>1, <2>3
<1> HIDE DEF t
<1> DEFINE s == y \o t
<1>11. /\ s \in Seq(Fits) /\ Len(s) = 1 + 10
       /\ \A i \in 1 .. 1 : s[i] = y[i]
       /\ \A i \in 1 + 1 .. 1 + 10 : s[i] = t[i - 1]
  <2>1. y \in Seq(Fits) /\ t \in Seq(Fits) /\ Len(y) = 1 /\ Len(t) = 10
    BY <1>5, <1>10
  <2>2. y \in Seq(Fits) /\ t \in Seq(Fits)
    BY <2>1
  <2>3. /\ s \in Seq(Fits) /\ Len(s) = Len(y) + Len(t)
        /\ \A i \in 1 .. Len(y) : s[i] = y[i]
        /\ \A i \in Len(y) + 1 .. Len(y) + Len(t) : s[i] = t[i - Len(y)]
    BY <2>2, JoinedAt
  <2> HIDE DEF s
  <2> QED
    BY <2>1, <2>3
<1> HIDE DEF s
<1>12. <<PhyReg>> \o write_test_issue(dm) = s
  BY <1>6 DEF s, t, kyll, kyl, ky, y
<1>13. /\ s[1] = y[1] /\ s[11] = t[10] /\ t[10] = w[1]
       /\ s[2] = t[1] /\ t[1] = kyll[1]
       /\ s[3] = t[2] /\ t[2] = kyll[2]
       /\ s[4] = t[3] /\ t[3] = kyll[3]
       /\ s[5] = t[4] /\ t[4] = kyll[4]
       /\ s[6] = t[5] /\ t[5] = kyll[5]
       /\ s[7] = t[6] /\ t[6] = kyll[6]
       /\ s[8] = t[7] /\ t[7] = kyll[7]
       /\ s[9] = t[8] /\ t[8] = kyll[8]
       /\ s[10] = t[9] /\ t[9] = kyll[9]
  BY <1>10, <1>11
<1>14. /\ kyll[8] = l1[1] /\ kyll[9] = l1[2]
       /\ kyll[1] = kyl[1]
       /\ kyll[2] = kyl[2]
       /\ kyll[3] = kyl[3]
       /\ kyll[4] = kyl[4]
       /\ kyll[5] = kyl[5]
       /\ kyll[6] = kyl[6]
       /\ kyll[7] = kyl[7]
  BY <1>9
<1>15. /\ kyl[6] = l0[1] /\ kyl[7] = l0[2]
       /\ kyl[5] = ky[5] /\ ky[5] = y[1]
       /\ kyl[1] = ky[1] /\ ky[1] = k[1]
       /\ kyl[2] = ky[2] /\ ky[2] = k[2]
       /\ kyl[3] = ky[3] /\ ky[3] = k[3]
       /\ kyl[4] = ky[4] /\ ky[4] = k[4]
  BY <1>7, <1>8
<1>16. /\ s \in Seq(Fits) /\ Len(s) = 11
       /\ s[1] = PhyReg
       /\ s[2] = LoadCntrReg(2, 0)
       /\ s[3] = LoadJumpReg(2, 0)
       /\ s[4] = LoadCntrReg(3, Wlat - 3)
       /\ s[5] = LoadJumpReg(3, 35 + dm)
       /\ s[6] = PhyReg
       /\ s[7] = LoadCntrReg(0, WriteLoops)
       /\ s[8] = LoadJumpReg(0, 34 + dm)
       /\ s[9] = LoadCntrReg(1, 48)
       /\ s[10] = LoadJumpReg(1, 50 + dm)
       /\ s[11] = RunReg(34 + dm)
  BY <1>2, <1>3, <1>4, <1>5, <1>11, <1>13, <1>14, <1>15
<1> QED
  BY <1>1, <1>12, <1>16

LEMMA LoadedOnce ==
    ASSUME NEW s, NEW n \in Nat, NEW c, NEW v, NEW j \in 1 .. n, s[j] = LoadCntrReg(c, v),
           \A k \in j + 1 .. n : s[k].op # "run" /\ ~(s[k].op = "cntr" /\ s[k].reg = c)
    PROVE  Loaded(s, n, c, v)
BY DEF Loaded

LEMMA WriteOneIs ==
    ASSUME board \in Boards, NEW dm \in {0, 20}, Wlat = 1
    PROVE  LET s == <<PhyReg>> \o write_test_issue(dm)
           IN /\ s \in Seq(Fits) /\ Len(s) = 10 /\ WriteExact(s, 9, 33 + dm)
              /\ s[10] = RunReg(33 + dm)
              /\ \A i \in 1 .. 9 : s[i].op # "run"
<1> DEFINE s == <<PhyReg>> \o write_test_issue(dm)
<1>1. /\ s \in Seq(Fits) /\ Len(s) = 10
      /\ s[1] = PhyReg
      /\ s[2] = LoadCntrReg(2, 255)
      /\ s[3] = LoadJumpReg(2, 37 + dm)
      /\ s[4] = LoadJumpReg(3, 35 + dm)
      /\ s[5] = PhyReg
      /\ s[6] = LoadCntrReg(0, WriteLoops)
      /\ s[7] = LoadJumpReg(0, 33 + dm)
      /\ s[8] = LoadCntrReg(1, 48)
      /\ s[9] = LoadJumpReg(1, 50 + dm)
      /\ s[10] = RunReg(33 + dm)
      /\ WriteEntry = 33
  BY WriteOne
<1> HIDE DEF s
<1>2. \A i \in 1 .. 9 : i \in {1, 2, 3, 4, 5, 6, 7, 8, 9}
  OBVIOUS
<1>3. \A i \in {1, 2, 3, 4, 5, 6, 7, 8, 9} : s[i].op # "run"
  BY <1>1, WritesAre
<1>4. \A i \in 1 .. 9 : s[i].op # "run"
  BY <1>2, <1>3
<1>5. Pause(s, 9, 4)
  <2>1. \A j \in 9 - 4 + 1 .. 9 : j \in 1 .. 9
    OBVIOUS
  <2> QED
    BY <1>4, <2>1 DEF Pause
<1>6. AimedTo(s, 9, 0, 33 + dm)
  <2>1. /\ \A i \in 7 + 1 .. 9 : i \in {8, 9}
        /\ 7 \in 1 .. 9 /\ 9 \in Nat
    OBVIOUS
  <2>2. \A i \in {8, 9} : ~Aims(s[i], 0)
    BY <1>1, WritesAre DEF Aims
  <2>3. s[7] = LoadJumpReg(0, 33 + dm) /\ \A i \in 7 + 1 .. 9 : ~Aims(s[i], 0)
    BY <1>1, <2>1, <2>2
  <2> QED
    BY <2>1, <2>3, AimedOnce
<1>7. AimedTo(s, 9, 1, 50 + dm)
  <2>1. /\ \A i \in 9 + 1 .. 9 : i \in {}
        /\ 9 \in 1 .. 9 /\ 9 \in Nat
    OBVIOUS
  <2>2. \A i \in {} : ~Aims(s[i], 1)
    BY <1>1, WritesAre DEF Aims
  <2>3. s[9] = LoadJumpReg(1, 50 + dm) /\ \A i \in 9 + 1 .. 9 : ~Aims(s[i], 1)
    BY <1>1, <2>1, <2>2
  <2> QED
    BY <2>1, <2>3, AimedOnce
<1>8. AimedTo(s, 9, 2, 37 + dm)
  <2>1. /\ \A i \in 3 + 1 .. 9 : i \in {4, 5, 6, 7, 8, 9}
        /\ 3 \in 1 .. 9 /\ 9 \in Nat
    OBVIOUS
  <2>2. \A i \in {4, 5, 6, 7, 8, 9} : ~Aims(s[i], 2)
    BY <1>1, WritesAre DEF Aims
  <2>3. s[3] = LoadJumpReg(2, 37 + dm) /\ \A i \in 3 + 1 .. 9 : ~Aims(s[i], 2)
    BY <1>1, <2>1, <2>2
  <2> QED
    BY <2>1, <2>3, AimedOnce
<1>9. Loaded(s, 9, 0, WriteLoops)
  <2>1. /\ \A i \in 6 + 1 .. 9 : i \in {7, 8, 9}
        /\ 6 \in 1 .. 9 /\ 9 \in Nat
    OBVIOUS
  <2>2. \A i \in {7, 8, 9} : ~(s[i].op = "cntr" /\ s[i].reg = 0)
    BY <1>1, WritesAre
  <2>3. /\ s[6] = LoadCntrReg(0, WriteLoops)
        /\ \A i \in 6 + 1 .. 9 : s[i].op # "run" /\ ~(s[i].op = "cntr" /\ s[i].reg = 0)
    BY <1>1, <1>3, <2>1, <2>2
  <2> QED
    BY <2>1, <2>3, LoadedOnce
<1>10. Loaded(s, 9, 1, 48)
  <2>1. /\ \A i \in 8 + 1 .. 9 : i \in {9}
        /\ 8 \in 1 .. 9 /\ 9 \in Nat
    OBVIOUS
  <2>2. \A i \in {9} : ~(s[i].op = "cntr" /\ s[i].reg = 1)
    BY <1>1, WritesAre
  <2>3. /\ s[8] = LoadCntrReg(1, 48)
        /\ \A i \in 8 + 1 .. 9 : s[i].op # "run" /\ ~(s[i].op = "cntr" /\ s[i].reg = 1)
    BY <1>1, <1>3, <2>1, <2>2
  <2> QED
    BY <2>1, <2>3, LoadedOnce
<1>11. Loaded(s, 9, 2, 255)
  <2>1. /\ \A i \in 2 + 1 .. 9 : i \in {3, 4, 5, 6, 7, 8, 9}
        /\ 2 \in 1 .. 9 /\ 9 \in Nat
    OBVIOUS
  <2>2. \A i \in {3, 4, 5, 6, 7, 8, 9} : ~(s[i].op = "cntr" /\ s[i].reg = 2)
    BY <1>1, WritesAre
  <2>3. /\ s[2] = LoadCntrReg(2, 255)
        /\ \A i \in 2 + 1 .. 9 : s[i].op # "run" /\ ~(s[i].op = "cntr" /\ s[i].reg = 2)
    BY <1>1, <1>3, <2>1, <2>2
  <2> QED
    BY <2>1, <2>3, LoadedOnce
<1>12. WriteExact(s, 9, 33 + dm)
  <2>1. Dm(33 + dm) = dm
    BY WriteFits
  <2>2. WRITE_WAIT = 50 /\ WRITE_NOP = 35 /\ WRITE_DATA = 37 /\ WRITE_DQS = 36
    BY DEF WRITE_WAIT, WRITE_NOP, WRITE_DATA, WRITE_DQS
  <2>3. Wlat = 1 /\ Wlat \in 1 .. 25
    BY BoardTimes
  <2>4. Wlat <= 2 /\ Skip(33 + dm) = 37 + dm
    BY <2>1, <2>2, <2>3 DEF Skip
  <2> QED
    BY <1>1, <1>5, <1>6, <1>7, <1>8, <1>9, <1>10, <1>11, <2>1, <2>2, <2>4 DEF WriteExact
<1> QED
  BY <1>1, <1>4, <1>12 DEF s

LEMMA WriteTwoIs ==
    ASSUME board \in Boards, NEW dm \in {0, 20}, Wlat = 2
    PROVE  LET s == <<PhyReg>> \o write_test_issue(dm)
           IN /\ s \in Seq(Fits) /\ Len(s) = 9 /\ WriteExact(s, 8, 34 + dm)
              /\ s[9] = RunReg(34 + dm)
              /\ \A i \in 1 .. 8 : s[i].op # "run"
<1> DEFINE s == <<PhyReg>> \o write_test_issue(dm)
<1>1. /\ s \in Seq(Fits) /\ Len(s) = 9
      /\ s[1] = PhyReg
      /\ s[2] = LoadCntrReg(2, 255)
      /\ s[3] = LoadJumpReg(2, 36 + dm)
      /\ s[4] = PhyReg
      /\ s[5] = LoadCntrReg(0, WriteLoops)
      /\ s[6] = LoadJumpReg(0, 34 + dm)
      /\ s[7] = LoadCntrReg(1, 48)
      /\ s[8] = LoadJumpReg(1, 50 + dm)
      /\ s[9] = RunReg(34 + dm)
      /\ WriteEntry = 34
  BY WriteTwo
<1> HIDE DEF s
<1>2. \A i \in 1 .. 8 : i \in {1, 2, 3, 4, 5, 6, 7, 8}
  OBVIOUS
<1>3. \A i \in {1, 2, 3, 4, 5, 6, 7, 8} : s[i].op # "run"
  BY <1>1, WritesAre
<1>4. \A i \in 1 .. 8 : s[i].op # "run"
  BY <1>2, <1>3
<1>5. Pause(s, 8, 4)
  <2>1. \A j \in 8 - 4 + 1 .. 8 : j \in 1 .. 8
    OBVIOUS
  <2> QED
    BY <1>4, <2>1 DEF Pause
<1>6. AimedTo(s, 8, 0, 34 + dm)
  <2>1. /\ \A i \in 6 + 1 .. 8 : i \in {7, 8}
        /\ 6 \in 1 .. 8 /\ 8 \in Nat
    OBVIOUS
  <2>2. \A i \in {7, 8} : ~Aims(s[i], 0)
    BY <1>1, WritesAre DEF Aims
  <2>3. s[6] = LoadJumpReg(0, 34 + dm) /\ \A i \in 6 + 1 .. 8 : ~Aims(s[i], 0)
    BY <1>1, <2>1, <2>2
  <2> QED
    BY <2>1, <2>3, AimedOnce
<1>7. AimedTo(s, 8, 1, 50 + dm)
  <2>1. /\ \A i \in 8 + 1 .. 8 : i \in {}
        /\ 8 \in 1 .. 8 /\ 8 \in Nat
    OBVIOUS
  <2>2. \A i \in {} : ~Aims(s[i], 1)
    BY <1>1, WritesAre DEF Aims
  <2>3. s[8] = LoadJumpReg(1, 50 + dm) /\ \A i \in 8 + 1 .. 8 : ~Aims(s[i], 1)
    BY <1>1, <2>1, <2>2
  <2> QED
    BY <2>1, <2>3, AimedOnce
<1>8. AimedTo(s, 8, 2, 36 + dm)
  <2>1. /\ \A i \in 3 + 1 .. 8 : i \in {4, 5, 6, 7, 8}
        /\ 3 \in 1 .. 8 /\ 8 \in Nat
    OBVIOUS
  <2>2. \A i \in {4, 5, 6, 7, 8} : ~Aims(s[i], 2)
    BY <1>1, WritesAre DEF Aims
  <2>3. s[3] = LoadJumpReg(2, 36 + dm) /\ \A i \in 3 + 1 .. 8 : ~Aims(s[i], 2)
    BY <1>1, <2>1, <2>2
  <2> QED
    BY <2>1, <2>3, AimedOnce
<1>9. Loaded(s, 8, 0, WriteLoops)
  <2>1. /\ \A i \in 5 + 1 .. 8 : i \in {6, 7, 8}
        /\ 5 \in 1 .. 8 /\ 8 \in Nat
    OBVIOUS
  <2>2. \A i \in {6, 7, 8} : ~(s[i].op = "cntr" /\ s[i].reg = 0)
    BY <1>1, WritesAre
  <2>3. /\ s[5] = LoadCntrReg(0, WriteLoops)
        /\ \A i \in 5 + 1 .. 8 : s[i].op # "run" /\ ~(s[i].op = "cntr" /\ s[i].reg = 0)
    BY <1>1, <1>3, <2>1, <2>2
  <2> QED
    BY <2>1, <2>3, LoadedOnce
<1>10. Loaded(s, 8, 1, 48)
  <2>1. /\ \A i \in 7 + 1 .. 8 : i \in {8}
        /\ 7 \in 1 .. 8 /\ 8 \in Nat
    OBVIOUS
  <2>2. \A i \in {8} : ~(s[i].op = "cntr" /\ s[i].reg = 1)
    BY <1>1, WritesAre
  <2>3. /\ s[7] = LoadCntrReg(1, 48)
        /\ \A i \in 7 + 1 .. 8 : s[i].op # "run" /\ ~(s[i].op = "cntr" /\ s[i].reg = 1)
    BY <1>1, <1>3, <2>1, <2>2
  <2> QED
    BY <2>1, <2>3, LoadedOnce
<1>11. Loaded(s, 8, 2, 255)
  <2>1. /\ \A i \in 2 + 1 .. 8 : i \in {3, 4, 5, 6, 7, 8}
        /\ 2 \in 1 .. 8 /\ 8 \in Nat
    OBVIOUS
  <2>2. \A i \in {3, 4, 5, 6, 7, 8} : ~(s[i].op = "cntr" /\ s[i].reg = 2)
    BY <1>1, WritesAre
  <2>3. /\ s[2] = LoadCntrReg(2, 255)
        /\ \A i \in 2 + 1 .. 8 : s[i].op # "run" /\ ~(s[i].op = "cntr" /\ s[i].reg = 2)
    BY <1>1, <1>3, <2>1, <2>2
  <2> QED
    BY <2>1, <2>3, LoadedOnce
<1>12. WriteExact(s, 8, 34 + dm)
  <2>1. Dm(34 + dm) = dm
    BY WriteFits
  <2>2. WRITE_WAIT = 50 /\ WRITE_NOP = 35 /\ WRITE_DATA = 37 /\ WRITE_DQS = 36
    BY DEF WRITE_WAIT, WRITE_NOP, WRITE_DATA, WRITE_DQS
  <2>3. Wlat = 2 /\ Wlat \in 1 .. 25
    BY BoardTimes
  <2>4. Wlat <= 2 /\ Skip(34 + dm) = 36 + dm
    BY <2>1, <2>2, <2>3 DEF Skip
  <2> QED
    BY <1>1, <1>5, <1>6, <1>7, <1>8, <1>9, <1>10, <1>11, <2>1, <2>2, <2>4 DEF WriteExact
<1> QED
  BY <1>1, <1>4, <1>12 DEF s

LEMMA WriteMoreIs ==
    ASSUME board \in Boards, NEW dm \in {0, 20}, Wlat > 2
    PROVE  LET s == <<PhyReg>> \o write_test_issue(dm)
           IN /\ s \in Seq(Fits) /\ Len(s) = 11 /\ WriteExact(s, 10, 34 + dm)
              /\ s[11] = RunReg(34 + dm)
              /\ \A i \in 1 .. 10 : s[i].op # "run"
<1> DEFINE s == <<PhyReg>> \o write_test_issue(dm)
<1>1. /\ s \in Seq(Fits) /\ Len(s) = 11
      /\ s[1] = PhyReg
      /\ s[2] = LoadCntrReg(2, 0)
      /\ s[3] = LoadJumpReg(2, 0)
      /\ s[4] = LoadCntrReg(3, Wlat - 3)
      /\ s[5] = LoadJumpReg(3, 35 + dm)
      /\ s[6] = PhyReg
      /\ s[7] = LoadCntrReg(0, WriteLoops)
      /\ s[8] = LoadJumpReg(0, 34 + dm)
      /\ s[9] = LoadCntrReg(1, 48)
      /\ s[10] = LoadJumpReg(1, 50 + dm)
      /\ s[11] = RunReg(34 + dm)
      /\ WriteEntry = 34
  BY WriteMore
<1> HIDE DEF s
<1>2. \A i \in 1 .. 10 : i \in {1, 2, 3, 4, 5, 6, 7, 8, 9, 10}
  OBVIOUS
<1>3. \A i \in {1, 2, 3, 4, 5, 6, 7, 8, 9, 10} : s[i].op # "run"
  BY <1>1, WritesAre
<1>4. \A i \in 1 .. 10 : s[i].op # "run"
  BY <1>2, <1>3
<1>5. Pause(s, 10, 4)
  <2>1. \A j \in 10 - 4 + 1 .. 10 : j \in 1 .. 10
    OBVIOUS
  <2> QED
    BY <1>4, <2>1 DEF Pause
<1>6. AimedTo(s, 10, 0, 34 + dm)
  <2>1. /\ \A i \in 8 + 1 .. 10 : i \in {9, 10}
        /\ 8 \in 1 .. 10 /\ 10 \in Nat
    OBVIOUS
  <2>2. \A i \in {9, 10} : ~Aims(s[i], 0)
    BY <1>1, WritesAre DEF Aims
  <2>3. s[8] = LoadJumpReg(0, 34 + dm) /\ \A i \in 8 + 1 .. 10 : ~Aims(s[i], 0)
    BY <1>1, <2>1, <2>2
  <2> QED
    BY <2>1, <2>3, AimedOnce
<1>7. AimedTo(s, 10, 1, 50 + dm)
  <2>1. /\ \A i \in 10 + 1 .. 10 : i \in {}
        /\ 10 \in 1 .. 10 /\ 10 \in Nat
    OBVIOUS
  <2>2. \A i \in {} : ~Aims(s[i], 1)
    BY <1>1, WritesAre DEF Aims
  <2>3. s[10] = LoadJumpReg(1, 50 + dm) /\ \A i \in 10 + 1 .. 10 : ~Aims(s[i], 1)
    BY <1>1, <2>1, <2>2
  <2> QED
    BY <2>1, <2>3, AimedOnce
<1>8. AimedTo(s, 10, 3, 35 + dm)
  <2>1. /\ \A i \in 5 + 1 .. 10 : i \in {6, 7, 8, 9, 10}
        /\ 5 \in 1 .. 10 /\ 10 \in Nat
    OBVIOUS
  <2>2. \A i \in {6, 7, 8, 9, 10} : ~Aims(s[i], 3)
    BY <1>1, WritesAre DEF Aims
  <2>3. s[5] = LoadJumpReg(3, 35 + dm) /\ \A i \in 5 + 1 .. 10 : ~Aims(s[i], 3)
    BY <1>1, <2>1, <2>2
  <2> QED
    BY <2>1, <2>3, AimedOnce
<1>9. Loaded(s, 10, 1, 48)
  <2>1. /\ \A i \in 9 + 1 .. 10 : i \in {10}
        /\ 9 \in 1 .. 10 /\ 10 \in Nat
    OBVIOUS
  <2>2. \A i \in {10} : ~(s[i].op = "cntr" /\ s[i].reg = 1)
    BY <1>1, WritesAre
  <2>3. /\ s[9] = LoadCntrReg(1, 48)
        /\ \A i \in 9 + 1 .. 10 : s[i].op # "run" /\ ~(s[i].op = "cntr" /\ s[i].reg = 1)
    BY <1>1, <1>3, <2>1, <2>2
  <2> QED
    BY <2>1, <2>3, LoadedOnce
<1>10. Loaded(s, 10, 2, 0)
  <2>1. /\ \A i \in 2 + 1 .. 10 : i \in {3, 4, 5, 6, 7, 8, 9, 10}
        /\ 2 \in 1 .. 10 /\ 10 \in Nat
    OBVIOUS
  <2>2. \A i \in {3, 4, 5, 6, 7, 8, 9, 10} : ~(s[i].op = "cntr" /\ s[i].reg = 2)
    BY <1>1, WritesAre
  <2>3. /\ s[2] = LoadCntrReg(2, 0)
        /\ \A i \in 2 + 1 .. 10 : s[i].op # "run" /\ ~(s[i].op = "cntr" /\ s[i].reg = 2)
    BY <1>1, <1>3, <2>1, <2>2
  <2> QED
    BY <2>1, <2>3, LoadedOnce
<1>11. Loaded(s, 10, 3, Wlat - 3)
  <2>1. /\ \A i \in 4 + 1 .. 10 : i \in {5, 6, 7, 8, 9, 10}
        /\ 4 \in 1 .. 10 /\ 10 \in Nat
    OBVIOUS
  <2>2. \A i \in {5, 6, 7, 8, 9, 10} : ~(s[i].op = "cntr" /\ s[i].reg = 3)
    BY <1>1, WritesAre
  <2>3. /\ s[4] = LoadCntrReg(3, Wlat - 3)
        /\ \A i \in 4 + 1 .. 10 : s[i].op # "run" /\ ~(s[i].op = "cntr" /\ s[i].reg = 3)
    BY <1>1, <1>3, <2>1, <2>2
  <2> QED
    BY <2>1, <2>3, LoadedOnce
<1>12. Loaded(s, 10, 0, WriteLoops)
  <2>1. /\ \A i \in 7 + 1 .. 10 : i \in {8, 9, 10}
        /\ 7 \in 1 .. 10 /\ 10 \in Nat
    OBVIOUS
  <2>2. \A i \in {8, 9, 10} : ~(s[i].op = "cntr" /\ s[i].reg = 0)
    BY <1>1, WritesAre
  <2>3. /\ s[7] = LoadCntrReg(0, WriteLoops)
        /\ \A i \in 7 + 1 .. 10 : s[i].op # "run" /\ ~(s[i].op = "cntr" /\ s[i].reg = 0)
    BY <1>1, <1>3, <2>1, <2>2
  <2> QED
    BY <2>1, <2>3, LoadedOnce
<1>13. WriteExact(s, 10, 34 + dm)
  <2>1. Dm(34 + dm) = dm
    BY WriteFits
  <2>2. WRITE_WAIT = 50 /\ WRITE_NOP = 35 /\ WRITE_DATA = 37 /\ WRITE_DQS = 36
    BY DEF WRITE_WAIT, WRITE_NOP, WRITE_DATA, WRITE_DQS
  <2>3. Wlat > 2 /\ Wlat \in 1 .. 25
    BY BoardTimes
  <2>4. ~(Wlat <= 2)
    BY <2>3
  <2> QED
    BY <1>1, <1>5, <1>6, <1>7, <1>8, <1>9, <1>10, <1>11, <1>12, <2>1, <2>2, <2>4 DEF WriteExact
<1> QED
  BY <1>1, <1>4, <1>13 DEF s

LEMMA WriteBodyIs ==
    ASSUME board \in Boards, NEW dm \in {0, 20}
    PROVE  LET s == <<PhyReg>> \o write_test_issue(dm)
           IN /\ s \in Seq(Fits) /\ Len(s) \in Nat \ {0}
              /\ \A i \in 1 .. Len(s) : /\ Exact(s, i)
                                        /\ s[i].op = "run" => s[i].val \in WriteTests
<1> DEFINE s == <<PhyReg>> \o write_test_issue(dm)
<1>1. \E n \in {10, 9, 11}, a \in WriteTests :
         /\ s \in Seq(Fits) /\ Len(s) = n /\ WriteExact(s, n - 1, a) /\ s[n] = RunReg(a)
         /\ \A i \in 1 .. n - 1 : s[i].op # "run"
  <2> HIDE DEF s
  <2>1. Wlat = 1 \/ Wlat = 2 \/ Wlat > 2
    BY BoardTimes
  <2>2. 33 + dm \in WriteTests /\ 34 + dm \in WriteTests
    BY WriteFits
  <2>3. CASE Wlat = 1
    <3>1. /\ s \in Seq(Fits) /\ Len(s) = 10 /\ WriteExact(s, 9, 33 + dm)
          /\ s[10] = RunReg(33 + dm) /\ \A i \in 1 .. 9 : s[i].op # "run"
      BY <2>3, WriteOneIs DEF s
    <3>2. 10 - 1 = 9
      OBVIOUS
    <3> QED
      BY <2>2, <3>1, <3>2
  <2>4. CASE Wlat = 2
    <3>1. /\ s \in Seq(Fits) /\ Len(s) = 9 /\ WriteExact(s, 8, 34 + dm)
          /\ s[9] = RunReg(34 + dm) /\ \A i \in 1 .. 8 : s[i].op # "run"
      BY <2>4, WriteTwoIs DEF s
    <3>2. 9 - 1 = 8
      OBVIOUS
    <3> QED
      BY <2>2, <3>1, <3>2
  <2>5. CASE Wlat > 2
    <3>1. /\ s \in Seq(Fits) /\ Len(s) = 11 /\ WriteExact(s, 10, 34 + dm)
          /\ s[11] = RunReg(34 + dm) /\ \A i \in 1 .. 10 : s[i].op # "run"
      BY <2>5, WriteMoreIs DEF s
    <3>2. 11 - 1 = 10
      OBVIOUS
    <3> QED
      BY <2>2, <3>1, <3>2
  <2> QED
    BY <2>1, <2>3, <2>4, <2>5
<1> HIDE DEF s
<1>2. PICK n \in {10, 9, 11}, a \in WriteTests :
         /\ s \in Seq(Fits) /\ Len(s) = n /\ WriteExact(s, n - 1, a) /\ s[n] = RunReg(a)
         /\ \A i \in 1 .. n - 1 : s[i].op # "run"
  BY <1>1
<1>3. ASSUME NEW i \in 1 .. n PROVE Exact(s, i) /\ (s[i].op = "run" => s[i].val \in WriteTests)
  <2>1. CASE i # n
    <3>1. i \in 1 .. n - 1
      BY <2>1
    <3> QED
      BY <1>2, <3>1 DEF Exact
  <2>2. CASE i = n
    <3>1. s[i].op = "run" /\ s[i].val = a /\ WriteExact(s, i - 1, a)
      BY <1>2, <2>2, WritesAre
    <3>2. /\ a \notin Modes /\ a # PRECHARGE_ALL /\ a # ACTIVATE_0_AND_1
          /\ a # GUARANTEED_WRITE /\ a # GUARANTEED_READ /\ a # READ_B2B
      BY DEF GUARANTEED_READ, Modes, PRECHARGE_ALL, ACTIVATE_0_AND_1, GUARANTEED_WRITE,
         READ_B2B, WriteTests, WRITE_WL_1, WRITE, DmBlock
    <3> QED
      BY <3>1, <3>2 DEF Exact
  <2> QED
    BY <2>1, <2>2
<1> QED
  BY <1>2, <1>3 DEF s

LEMMA WriteTestIs ==
    ASSUME board \in Boards, NEW r \in Nat, NEW dm \in {0, 20}
    PROVE  LET s == WriteTestRank(r, dm)
           IN \A i \in 1 .. Len(s) :
                 /\ Exact(s, i)
                 /\ s[i].op = "run" => s[i].val \in WriteTests
<1> DEFINE b == <<PhyReg>> \o write_test_issue(dm)
           n == board.virtualGroups
           u == Times(n, b)
           x == <<SelectReadWrite(r)>>
           L == Len(b)
<1>1. /\ b \in Seq(Fits) /\ L \in Nat \ {0}
      /\ \A i \in 1 .. L : Exact(b, i) /\ (b[i].op = "run" => b[i].val \in WriteTests)
  BY WriteBodyIs
<1>2. n \in Nat
  BY BoardAssumption
<1>3. WriteTestRank(r, dm) = x \o u
  BY Zenon DEF WriteTestRank
<1> HIDE DEF b, n, x
<1>4. u \in Seq(Fits) /\ Len(u) = n * L /\ n * L \in Nat
  BY <1>1, <1>2, TimesAre
<1>5. x \in Seq(Fits) /\ Len(x) = 1 /\ x[1] = SelectReadWrite(r)
  BY FitsAre DEF x
<1> HIDE DEF L
<1>6. ASSUME NEW q \in 0 .. n - 1, NEW k \in 1 .. L
      PROVE  q * L + k \in 1 .. n * L /\ u[q * L + k] = b[k]
  <2>1. q * L + k \in 1 .. n * L /\ (((q * L + k) - 1) % L) + 1 = k
    BY <1>1, <1>2, Within
  <2> QED
    BY <2>1 DEF Times, L
<1> HIDE DEF u
<1> DEFINE s == x \o u
<1>7. /\ Len(s) = 1 + n * L
      /\ \A i \in 1 .. 1 : s[i] = x[i]
      /\ \A i \in 1 .. n * L : s[1 + i] = u[i]
  <2>1. x \in Seq(Fits) /\ u \in Seq(Fits)
    BY <1>4, <1>5
  <2>2. /\ Len(s) = Len(x) + Len(u)
        /\ \A i \in 1 .. Len(x) : s[i] = x[i]
        /\ \A i \in 1 .. Len(u) : s[Len(x) + i] = u[i]
    BY <2>1, Joined
  <2> HIDE DEF s
  <2> QED
    BY <1>4, <1>5, <2>2
<1> HIDE DEF s
<1>8. ASSUME NEW i \in 1 .. Len(s)
      PROVE  Exact(s, i) /\ (s[i].op = "run" => s[i].val \in WriteTests)
  <2>1. CASE i = 1
    <3>1. s[i].op # "run"
      BY <1>5, <1>7, <2>1, WritesAre
    <3> QED
      BY <3>1 DEF Exact
  <2>2. CASE i # 1
    <3>1. i - 1 \in 1 .. n * L
      BY <1>4, <1>7, <2>2
    <3>2. PICK q \in 0 .. n - 1, m \in 1 .. L : i - 1 = q * L + m /\ q * L \in Nat
      BY <1>1, <1>2, <3>1, Position, ZenonT(30)
    <3> DEFINE d == 1 + q * L
    <3>3. d \in Nat /\ i = d + m /\ m \in Nat \ {0}
      BY <1>1, <3>2
    <3>4. ASSUME NEW k \in 1 .. m PROVE s[d + k] = b[k]
      <4>1. k \in 1 .. L
        BY <1>1
      <4>2. q * L + k \in 1 .. n * L /\ u[q * L + k] = b[k]
        BY <1>6, <4>1
      <4>3. s[1 + (q * L + k)] = b[k]
        BY <1>7, <4>2
      <4>4. 1 + (q * L + k) = d + k
        BY <3>2
      <4> QED
        BY <4>3, <4>4
    <3> HIDE DEF d
    <3>5. Exact(b, m) /\ (b[m].op = "run" => b[m].val \in WriteTests)
      BY <1>1
    <3>6. Exact(s, d + m)
      BY <3>3, <3>4, <3>5, ExactAt
    <3>7. s[d + m] = b[m]
      BY <3>3, <3>4
    <3> QED
      BY <3>3, <3>5, <3>6, <3>7
  <2> QED
    BY <2>1, <2>2
<1>9. WriteTestRank(r, dm) = s
  BY Zenon, <1>3 DEF s
<1> QED
  BY <1>8, <1>9
=============================================================================
