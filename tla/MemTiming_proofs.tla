-------------------------- MODULE MemTiming_proofs --------------------------
(***************************************************************************)
(* Every command that the procedures send comes when the memory may be     *)
(* given it, and every read finds the data that it is compared with, on    *)
(* every board and for all values of the generated counters.               *)
(*                                                                         *)
(* A rule of the memory looks back at an event, and between that event and *)
(* the command are either clocks of one run or register writes, each of    *)
(* which takes WriteClocks.  So the invariant says, for each place that    *)
(* the engine can be at in a run, what its counters are (TunedInv, with    *)
(* KeptInv for the one that the runs of a test share) and how long ago the *)
(* events were (PaceInv); and between runs, that k writes without a run    *)
(* have taken four clocks each (CalmInv), after which the memory has come  *)
(* to rest (RestInv).                                                      *)
(*                                                                         *)
(* A rank goes through the reset (PowerInv), has its CKE raised (RaiseInv, *)
(* UpInv) and its mode registers loaded in their order (FreshInv, LastInv, *)
(* MrsInv) and is calibrated (ZqclInv); then its rows are opened and stay  *)
(* so until the hand-off closes them (RowsInv).  Which of these applies is *)
(* a matter of the stage the calibration is in (StageInv, OnceInv).        *)
(*                                                                         *)
(* What a read is compared with is what the rank holds. The cells change   *)
(* when a burst of data comes down to the memory, so the invariant says    *)
(* which bursts are under way in each clock of a write to all columns and  *)
(* of each round of a write test, how old they are and what data they have *)
(* got (FlyingInv, the clock known from the instruction and the counters   *)
(* by GwClock and WrClock); that none is under way anywhere else           *)
(* (LandedInv); and that the cells of the patterns are to be loaded, are   *)
(* being loaded or hold the patterns whenever they can be read             *)
(* (PatternInv), the tests of writing, which spoil them, having a stage of *)
(* their own (TurnInv).                                                    *)
(*                                                                         *)
(* Last, no loop starts with less than was loaded.  A counter that a part  *)
(* has loaded is whole as long as only reads run (HeldInv), which leave it *)
(* as they find it (ReadInv); and each run finds its counters loaded by its*)
(* own part, with nothing but reads since (PartServed), so that it starts  *)
(* with whole ones (StartInv).                                             *)
(***************************************************************************)
EXTENDS MemCommands_proofs

-----------------------------------------------------------------------------
(* The invariant of the commands that are legal.                           *)

(* What the parts may run, the stages in which they are called, and that   *)
(* the ranks are taken one after another.                                  *)
May(p, a) ==
    \/ p = "reset" /\ a \in Holds \cup {IDLE_LOOP1}
    \/ p = "initialize" /\ a \in Modes \cup Idles
    \/ p = "activate" /\ a \in Rows
    \/ p = "handoff" /\ a \in HandRuns \ {ZQCL}
    \/ p \in OdtProcs \cup {"clear"} /\ a \in Bursts

InUseStages == {"patterns", "reads", "writes", "lfifo"}

Belongs(p, st) ==
    \/ p \in {"reset", "initialize"} /\ st = "initialized"
    \/ p = "activate" /\ st \in {"configured", "calibrated"}
    \/ p = "handoff" /\ st = "done"
    \/ p \in OdtProcs \cup {"clear", "odt_off"} /\ st \in InUseStages

StageInv ==
    /\ \A i \in 1 .. Len(calls) : Belongs(calls[i].proc, stage)
    /\ running => \E p \in Procs : Belongs(p, stage) /\ May(p, label)
    /\ calls # <<>> /\ running /\ at > 1 => Writes(Head(calls))[at - 1] = RunReg(label)

OnceInv ==
    \A i, j \in 1 .. Len(calls) :
        i < j /\ calls[i].proc \in OffProcs /\ calls[j].proc \in OffProcs =>
            calls[i].rank < calls[j].rank

(* The registers in a run.                                                 *)
ActTuned ==
    /\ jump[0] = 14 /\ jump[1] = 16
    /\ ip = 13 => cntr[0] = 15
    /\ ip < 16 => cntr[1] = 15

GwTuned ==
    /\ jump[0] = 27 /\ jump[1] = 31 /\ jump[2] = 25 /\ jump[3] = 29
    /\ ip = 24 => cntr[2] = 4
    /\ ip < 27 => cntr[0] = 32
    /\ ip < 29 => cntr[3] = 4
    /\ ip < 31 => cntr[1] = 32

GrTuned == jump[0] = 76 /\ jump[1] = 84

B2bTuned ==
    /\ jump[0] = 89 /\ jump[3] = 89 /\ jump[1] = 97 /\ jump[2] = 107
    /\ reload[2] = 16 /\ (ip = 107 \/ cntr[2] = 16)

WrTuned ==
    LET dm == Dm(label)
    IN /\ jump[0] = label /\ jump[1] = WRITE_WAIT + dm
       /\ reload[1] = 48 /\ (ip = WRITE_WAIT + dm \/ cntr[1] = 48)
       /\ label = WriteEntry + dm /\ ip >= label
       /\ IF Wlat <= 2
          THEN /\ jump[2] = Skip(label)
               /\ ip = label \/ ip >= Skip(label)
               /\ ip \notin Returns => cntr[2] >= cntr[0] + (IF ip = label THEN 1 ELSE 0)
          ELSE /\ cntr[2] = 0 /\ reload[2] = 0
               /\ jump[3] = WRITE_NOP + dm /\ reload[3] = Wlat - 3
               /\ IF ip = WRITE_NOP + dm THEN cntr[3] <= Wlat - 3 ELSE cntr[3] = Wlat - 3

TunedInv ==
    running =>
        /\ label = ACTIVATE_0_AND_1 => ActTuned
        /\ label = GUARANTEED_WRITE => GwTuned
        /\ label = GUARANTEED_READ => GrTuned
        /\ label = READ_B2B => B2bTuned
        /\ label \in WriteTests => WrTuned

(* The counter of a read test that the runs of the virtual groups share.   *)
KeptInv ==
    calls # <<>> /\ Head(calls).proc \in {"read_test", "read_all"} /\ at > 4 =>
        reload[2] = 16 /\ (cntr[2] = 16 \/ running)

(* The pauses between runs, at four clocks a write.                        *)
CalmInv ==
    calls # <<>> /\ ~running =>
        \A k \in 0 .. 4 :
            Pause(Writes(Head(calls)), at - 1, k) =>
                \A r \in Ranks, e \in Events : AtLeast(dram[r], e, 4 * k)

(* Between bursts the memory comes to rest.                                *)
Rested(d) == d.since["act"] = TRAS /\ d.since["wr"] = Limit("wr", Wlat)

RestInv ==
    \A r \in Live :
        \/ running /\ selected = {r} /\ label \in Bursts \cup {ACTIVATE_0_AND_1}
        \/ Rested(dram[r])

(* How long ago the commands of a run were.                                *)
ActPace(d) ==
    /\ d.since["wr"] = Limit("wr", Wlat)
    /\ ip < 16 => AtLeast(d, "pre", TRP)
    /\ ip \in {13, 15, 17} => AtLeast(d, "act", TRAS)
    /\ ip = 14 => AtLeast(d, "act", 16 - cntr[0])
    /\ ip = 16 => AtLeast(d, "act", 16 - cntr[1])

GwPace(d) ==
    /\ AtLeast(d, "act", TRAS) /\ AtLeast(d, "rd", 17)
    /\ ip = 24 => AtLeast(d, "wr", 4)
    /\ ip = 25 => AtLeast(d, "wr", 5 - cntr[2])
    /\ ip \in {26, 30} => AtLeast(d, "wr", 6)
    /\ ip = 27 => AtLeast(d, "wr", 33 - cntr[0])
    /\ ip \in {28, 32} => AtLeast(d, "wr", 34)
    /\ ip = 29 => AtLeast(d, "wr", 5 - cntr[3])
    /\ ip = 31 => AtLeast(d, "wr", 33 - cntr[1])

RdPace(d) ==
    /\ AtLeast(d, "act", TRAS) /\ d.since["wr"] = Limit("wr", Wlat)
    /\ ip \in {73, 76, 80, 84, 88, 89, 93, 97, 98, 102, 106, 108, 109, 110} =>
          AtLeast(d, "rd", 4)
    /\ ip \in {77, 81, 85, 90, 94, 99, 103} => AtLeast(d, "rd", 1)
    /\ ip \in {78, 82, 86, 91, 95, 100, 104} => AtLeast(d, "rd", 2)
    /\ ip \in {79, 83, 87, 92, 96, 101, 105} => AtLeast(d, "rd", 3)
    /\ ip = 107 => AtLeast(d, "rd", 17 - cntr[2])

WrPace(d) ==
    LET x == ip - Dm(label)
    IN /\ AtLeast(d, "act", TRAS)
       /\ x <= 46 => AtLeast(d, "rd", 17)
       /\ x \in 47 .. 49 => AtLeast(d, "rd", x - 46)
       /\ x = 50 => AtLeast(d, "rd", 52 - cntr[1])
       /\ x > 50 => AtLeast(d, "rd", 17)
       /\ ip = label => d.since["wr"] = Limit("wr", Wlat)
       /\ x = 35 => AtLeast(d, "wr", Wlat - 2 - cntr[3])
       /\ x = 36 => AtLeast(d, "wr", Wlat - 1)
       /\ x \in 37 .. 46 => AtLeast(d, "wr", Wlat + (x - 37))
       /\ x > 46 => d.since["wr"] = Limit("wr", Wlat)

PaceInv ==
    running =>
        \A r \in selected :
            /\ label = ACTIVATE_0_AND_1 => ActPace(dram[r])
            /\ label = GUARANTEED_WRITE => GwPace(dram[r])
            /\ label \in {GUARANTEED_READ, READ_B2B, CLEAR_DQS_ENABLE} => RdPace(dram[r])
            /\ label \in WriteTests => WrPace(dram[r])

(* The reset, and CKE.                                                     *)
HeldFor(d, n) == d.held >= n \/ d.held >= d.tinit + d.treset

Holding(a, cs) ==
    /\ label = a
    /\ \A c \in 0 .. 2 : jump[c] = a /\ first[c] = reload[c] /\ reload[c] = cs[c + 1]

InResetNow(d) == d.phase = "reset" /\ d.held >= d.tinit
InLow(d) == d.phase = "cke_low" /\ d.held >= d.treset

Resetting == calls # <<>> /\ Head(calls).proc = "reset"

PowerInv ==
    /\ running /\ label \in Holds => Resetting
    /\ Resetting =>
        /\ at > 1 => selected = Ranks
        /\ running => at \in {9, 17}
        /\ running /\ at = 9 =>
              /\ Holding(INIT_RESET_0_CKE_0, TinitCntrs)
              /\ elapsed # 0 =>
                    \A r \in Ranks : dram[r].phase = "reset" /\ HeldFor(dram[r], elapsed)
        /\ ~running /\ at \in 9 .. 16 => \A r \in Ranks : InResetNow(dram[r])
        /\ running /\ at = 17 =>
              /\ Holding(INIT_RESET_1_CKE_0, TresetCntrs)
              /\ elapsed = 0 => \A r \in Ranks : InResetNow(dram[r])
              /\ elapsed # 0 =>
                    \A r \in Ranks : dram[r].phase = "cke_low" /\ HeldFor(dram[r], elapsed)
        /\ ~running /\ at > 16 => \A r \in Ranks : InLow(dram[r])

RaiseInv ==
    running /\ label \in Idles => selected \subseteq Ranks /\ \A r \in selected : MayRaiseCke(dram[r])

Rising(r) ==
    /\ running /\ label = IDLE_LOOP1 /\ r \in selected
    /\ jump[1] = label /\ first[1] = reload[1] /\ reload[1] = 249
    /\ IF elapsed = 0 THEN InLow(dram[r])
       ELSE dram[r].phase = "ready" /\ AtLeast(dram[r], "cke", elapsed)

Up(d) == d.phase \in {"ready", "calibrated"} /\ d.since["cke"] = TXPR

UpInv == \A r \in Live : stage = "start" \/ Resetting \/ Rising(r) \/ Up(dram[r])

(* A rank that is initialised, from one run to the next.                   *)
Own(r) == calls # <<>> /\ Head(calls) \in {Part("initialize", r), Part("handoff", r)}

FreshInv ==
    stage \in {"start", "initialized"} =>
        \A r \in Live :
            /\ dram[r].open = {}
            /\ stage = "start" \/ Waiting(r) => dram[r].phase # "calibrated"

LastIs(d, s, n) ==
    /\ NoMode(s, n) => d.last = 0
    /\ \A b \in Registers :
          LastMode(s, n, b) => d.last = MrOf(b) /\ (MrOf(b) = 0 => d.mr0 # "none")

LastInv ==
    \A r \in Live :
        /\ AboutTo(r, Modes) => IF at = 1 THEN label \in UserModes ELSE Own(r)
        /\ ~AboutTo(r, Registers) =>
              IF Own(r) THEN LastIs(dram[r], Writes(Head(calls)), at - 1)
                        ELSE dram[r].last = 0

Settling(r) ==
    \/ /\ calls # <<>> /\ Head(calls) = Part("initialize", r)
       /\ Given(Writes(Head(calls)), at - 1, RunReg(ZQCL))
    \/ /\ running /\ label = IDLE_LOOP2 /\ selected = {r}
       /\ \A c \in 0 .. 1 : jump[c] = label /\ first[c] = reload[c]
       /\ reload[0] = 255 /\ reload[1] = 1
       /\ AtLeast(dram[r], "zqcl", elapsed)

ZqclInv == \A r \in Live : dram[r].since["zqcl"] = TZQinit \/ Settling(r)

Unsettled(r) ==
    \/ /\ calls # <<>> /\ Head(calls) = Part("initialize", r)
       /\ ~Given(Writes(Head(calls)), at - 1, RunReg(ZQCL))
    \/ /\ stage = "done"
       /\ \A i \in 1 .. Len(calls) :
             calls[i] = Part("handoff", r) => i = 1 /\ ~NoMode(Writes(Head(calls)), at - 1)

MrsInv ==
    \A r \in Live :
        Unsettled(r) \/ (dram[r].since["mrs"] = TMOD /\ ~AboutTo(r, Registers))

(* The rows of a rank in use.                                              *)
Opening(r) ==
    /\ running /\ label = ACTIVATE_0_AND_1 /\ selected = {r}
    /\ ip = 13 => dram[r].open = {}
    /\ ip \in {14, 15} => dram[r].open = {0}
    /\ ip > 15 => dram[r].open = Banks

ToActivate(r) == \E i \in 1 .. Len(calls) : calls[i] = Part("activate", r)

ToPrecharge(r) == calls # <<>> /\ Head(calls) \in {Part("activate", r), Part("handoff", r)}

RowsInv ==
    \A r \in Live :
        /\ calls # <<>> /\ Head(calls) = Part("activate", r) /\ at > 2 =>
              dram[r].open = {} \/ AboutTo(r, {PRECHARGE_ALL})
        /\ stage \notin {"start", "initialized", "done"} =>
              ToActivate(r) \/ Opening(r) \/ dram[r].open = Banks
        /\ running /\ label = ACTIVATE_0_AND_1 /\ selected = {r} => Opening(r)
        /\ AboutTo(r, {PRECHARGE_ALL}) => at > 1 /\ ToPrecharge(r)

AtCommand ==
    running /\ ip = label /\ label \in Modes \cup {PRECHARGE_ALL} =>
        \A r \in selected : Legal(dram[r], Command)

LegalInv ==
    /\ BuiltInv /\ StageInv /\ OnceInv /\ TunedInv /\ KeptInv /\ CalmInv /\ RestInv /\ PaceInv
    /\ PowerInv /\ RaiseInv /\ UpInv /\ FreshInv /\ LastInv /\ ZqclInv /\ MrsInv /\ RowsInv
    /\ AtCommand

(* What the labels are that the parts run.                                 *)
LEMMA RunLabels ==
    /\ Idles \cup Holds = {111, 116, 122, 123} /\ Idles = {122, 123} /\ Holds = {111, 116}
    /\ WriteTests = {33, 34, 53, 54} /\ Bursts = {33, 34, 53, 54, 24, 73, 76, 89}
    /\ Rows = {13, 18}
    /\ Registers \subseteq Modes /\ ZQCL \in Modes /\ ZQCL \notin Registers
    /\ Modes = Registers \cup {ZQCL} /\ UserModes \subseteq Registers
BY DEF Idles, Holds, WriteTests, Bursts, Rows, Registers, Modes, ZQCL, UserModes, IDLE_LOOP1,
   IDLE_LOOP2, INIT_RESET_0_CKE_0, INIT_RESET_1_CKE_0, WRITE, WRITE_WL_1, DmBlock,
   GUARANTEED_WRITE, CLEAR_DQS_ENABLE, GUARANTEED_READ, READ_B2B, ACTIVATE_0_AND_1, PRECHARGE_ALL

(* Every run of a part finds its registers as it needs them.               *)
LEMMA PartExact ==
    ASSUME board \in Boards, NEW c \in Parts, NEW i \in 1 .. Len(Writes(c))
    PROVE  /\ Exact(Writes(c), i)
           /\ Writes(c)[i].op = "run" => May(c.proc, Writes(c)[i].val)
<1>1. c.proc \in Procs /\ c.rank \in Nat
  BY DEF Parts
<1>2. CASE c.proc = "reset"
  <2> DEFINE s == ResetMemory
  <2>1. Writes(c) = s
    BY <1>2 DEF Writes
  <2>2. ResetExact(s)
    BY ResetIs
  <2> HIDE DEF s
  <2>3. s[i].op = "run" => s[i].val \in {111, 116, 123}
    <3>1. i \in 1 .. 19
      BY <2>1, <2>2 DEF ResetExact
    <3>2. s[i].op = "run" => i \in {8, 16, 19}
      BY <2>2, <3>1 DEF ResetExact
    <3>3. s[8].val = 111 /\ s[16].val = 116 /\ s[19].val = 123
      BY <2>2, WritesAre DEF ResetExact, INIT_RESET_0_CKE_0, INIT_RESET_1_CKE_0, IDLE_LOOP1
    <3> QED
      BY <3>2, <3>3
  <2>4. {111, 116, 123} \subseteq Idles \cup Holds
    BY RunLabels
  <2>5. Exact(s, i)
    BY <2>3, <2>4, ExactIdle
  <2>6. s[i].op = "run" => May(c.proc, s[i].val)
    BY <1>2, <2>3, RunLabels DEF May, IDLE_LOOP1
  <2> QED
    BY <2>1, <2>5, <2>6
<1>3. CASE c.proc = "initialize"
  <2> DEFINE s == InitializeRank(c.rank)
  <2>1. Writes(c) = s
    BY <1>3 DEF Writes
  <2>2. InitialExact(s, c.rank \in board.mirrored)
    BY <1>1, InitializeIs
  <2> HIDE DEF s
  <2>3. i \in 1 .. Len(s)
    BY <2>1
  <2>4. Exact(s, i) /\ (s[i].op = "run" => s[i].val \in Modes \cup Idles)
    BY <2>2, <2>3 DEF InitialExact
  <2> QED
    BY <1>3, <2>1, <2>4 DEF May
<1>4. CASE c.proc = "handoff"
  <2> DEFINE s == HandOffRank(c.rank)
  <2>1. Writes(c) = s
    BY <1>4 DEF Writes
  <2>2. HandOffExact(s, c.rank \in board.mirrored)
    BY <1>1, HandOffIs
  <2> HIDE DEF s
  <2>3. i \in 1 .. Len(s)
    BY <2>1
  <2>4. Exact(s, i) /\ (s[i].op = "run" => s[i].val \in HandRuns \ {ZQCL})
    BY <2>2, <2>3 DEF HandOffExact
  <2> QED
    BY <1>4, <2>1, <2>4 DEF May
<1>5. CASE c.proc = "activate"
  <2>1. Writes(c) = ActivateRank(c.rank)
    BY <1>5 DEF Writes
  <2>2. Exact(Writes(c), i) /\ (Writes(c)[i].op = "run" => Writes(c)[i].val \in Rows)
    BY <2>1, ActivateIs
  <2> QED
    BY <1>5, <2>2 DEF May
<1>6. ASSUME c.proc \in OdtProcs \cup {"clear"}, Exact(Writes(c), i),
             Writes(c)[i].op = "run" => Writes(c)[i].val \in Bursts
      PROVE  /\ Exact(Writes(c), i)
             /\ Writes(c)[i].op = "run" => May(c.proc, Writes(c)[i].val)
  BY <1>6 DEF May
<1>7. {GUARANTEED_WRITE, GUARANTEED_READ, READ_B2B, CLEAR_DQS_ENABLE} \subseteq Bursts
      /\ WriteTests \subseteq Bursts
  BY DEF Bursts
<1>8. CASE c.proc = "load_patterns"
  <2>1. Writes(c) = LoadPatternsRank(c.rank)
    BY <1>8 DEF Writes
  <2>2. Exact(Writes(c), i) /\ (Writes(c)[i].op = "run" => Writes(c)[i].val = GUARANTEED_WRITE)
    BY <2>1, PatternsIs
  <2> QED
    BY <1>6, <1>7, <1>8, <2>2 DEF OdtProcs
<1>9. CASE c.proc = "read_patterns"
  <2>1. Writes(c) = ReadPatternsRank(c.rank)
    BY <1>9 DEF Writes
  <2>2. Exact(Writes(c), i) /\ (Writes(c)[i].op = "run" => Writes(c)[i].val = GUARANTEED_READ)
    BY <1>1, <2>1, ReadPatternsIs
  <2> QED
    BY <1>6, <1>7, <1>9, <2>2 DEF OdtProcs, ReadProcs
<1>10. CASE c.proc \in {"read_test", "read_all"}
  <2>1. PICK all \in BOOLEAN : Writes(c) = ReadTestRank(c.rank, all)
    <3>1. c.proc = "read_test" => Writes(c) = ReadTestRank(c.rank, FALSE)
      BY DEF Writes
    <3>2. c.proc = "read_all" => Writes(c) = ReadTestRank(c.rank, TRUE)
      BY DEF Writes
    <3> QED
      BY <1>10, <3>1, <3>2
  <2> DEFINE s == ReadTestRank(c.rank, all)
  <2>3. \A j \in 1 .. Len(s) : Exact(s, j) /\ (s[j].op = "run" => s[j].val = READ_B2B)
    BY <1>1, ReadTestIs
  <2> HIDE DEF s
  <2>2. Exact(Writes(c), i) /\ (Writes(c)[i].op = "run" => Writes(c)[i].val = READ_B2B)
    <3>1. Writes(c) = s
      BY <2>1 DEF s
    <3> QED
      BY <2>3, <3>1
  <2> QED
    BY <1>6, <1>7, <1>10, <2>2 DEF OdtProcs, ReadProcs
<1>11. CASE c.proc \in {"write_test", "write_test_dm"}
  <2>1. PICK dm \in {0, 20} : Writes(c) = WriteTestRank(c.rank, dm)
    <3>1. c.proc = "write_test" => Writes(c) = WriteTestRank(c.rank, 0)
      BY DEF Writes
    <3>2. c.proc = "write_test_dm" => Writes(c) = WriteTestRank(c.rank, 20)
      BY DEF Writes, DmBlock
    <3> QED
      BY <1>11, <3>1, <3>2
  <2>2. Exact(Writes(c), i) /\ (Writes(c)[i].op = "run" => Writes(c)[i].val \in WriteTests)
    BY <1>1, <2>1, WriteTestIs
  <2> QED
    BY <1>6, <1>7, <1>11, <2>2 DEF OdtProcs
<1>12. CASE c.proc \in {"clear", "odt_off"}
  <2>1. Writes(c)[i].op = "run" => Writes(c)[i].val = CLEAR_DQS_ENABLE /\ c.proc = "clear"
    <3>1. c.proc = "clear" => /\ Len(Writes(c)) = 2
                              /\ Writes(c)[1] = RunReg(CLEAR_DQS_ENABLE) /\ Writes(c)[2] = SelectOff(0)
      BY OtherParts
    <3>2. c.proc = "odt_off" => Len(Writes(c)) = 1 /\ Writes(c)[1] = SelectOff(0)
      BY OtherParts
    <3> DEFINE n == Len(Writes(c))
    <3>5. i \in 1 .. n /\ (c.proc = "clear" => n = 2) /\ (c.proc = "odt_off" => n = 1)
      BY <3>1, <3>2
    <3> HIDE DEF n
    <3>3. c.proc = "clear" => i = 1 \/ i = 2
      BY <3>5
    <3>4. c.proc = "odt_off" => i = 1
      BY <3>5
    <3> QED
      BY <1>12, <3>1, <3>2, <3>3, <3>4, WritesAre
  <2>2. Exact(Writes(c), i)
    BY <2>1, ExactIdle
  <2>3. Writes(c)[i].op = "run" => May(c.proc, Writes(c)[i].val)
    BY <1>7, <2>1 DEF May
  <2> QED
    BY <2>2, <2>3
<1> QED
  BY <1>1, <1>2, <1>3, <1>4, <1>5, <1>8, <1>9, <1>10, <1>11, <1>12
     DEF Procs, OffProcs, OdtProcs, ReadProcs

(* A read test loads counter 2 once, before all of its runs.               *)
LEMMA ReadTestLoads ==
    ASSUME board \in Boards, NEW c \in Parts, c.proc \in {"read_test", "read_all"},
           NEW i \in 1 .. Len(Writes(c))
    PROVE  LET s == Writes(c)
           IN /\ s[i].op = "run" => s[i].val = READ_B2B /\ i > 9
              /\ i > 4 => ~(s[i].op = "cntr" /\ s[i].reg = 2)
              /\ i = 4 => s[i] = LoadCntrReg(2, 16)
<1>1. c.rank \in Nat
  BY DEF Parts
<1>2. PICK all \in BOOLEAN : Writes(c) = ReadTestRank(c.rank, all)
  <2>1. CASE c.proc = "read_test"
    <3>1. Writes(c) = ReadTestRank(c.rank, FALSE)
      BY <2>1 DEF Writes
    <3> QED
      BY <3>1
  <2>2. CASE c.proc = "read_all"
    <3>1. Writes(c) = ReadTestRank(c.rank, TRUE)
      BY <2>2 DEF Writes
    <3> QED
      BY <3>1
  <2> QED
    BY <2>1, <2>2
<1> DEFINE s == ReadTestRank(c.rank, all)
<1>3. /\ \A j \in 1 .. Len(s) :
           /\ s[j].op = "run" => s[j].val = READ_B2B /\ j > 9
           /\ j > 4 => ~(s[j].op = "cntr" /\ s[j].reg = 2)
      /\ s[4] = LoadCntrReg(2, 16)
  BY <1>1, ReadTestIs
<1> HIDE DEF s
<1>4. Writes(c) = s
  BY <1>2 DEF s
<1> QED
  BY <1>3, <1>4

(* The writes of the initialisation and of the hand-off of a rank.         *)
LEMMA InitializeExact ==
    ASSUME board \in Boards, NEW c \in Parts, c.proc = "initialize"
    PROVE  InitialExact(Writes(c), c.rank \in board.mirrored)
<1>1. c.rank \in Nat /\ Writes(c) = InitializeRank(c.rank)
  BY DEF Parts, Writes
<1> QED
  BY <1>1, InitializeIs

LEMMA HandOffIsExact ==
    ASSUME board \in Boards, NEW c \in Parts, c.proc = "handoff"
    PROVE  HandOffExact(Writes(c), c.rank \in board.mirrored)
<1>1. c.rank \in Nat /\ Writes(c) = HandOffRank(c.rank)
  BY DEF Parts, Writes
<1> QED
  BY <1>1, HandOffIs

(* A register write, and what it finds.                                    *)
Moves(c, s) ==
    /\ c \in Parts /\ s \in Seq(Fits)
    /\ c = Head(calls) /\ c = calls[1] /\ s = Writes(Head(calls)) /\ s = Writes(c)
    /\ calls # <<>> /\ Len(calls) \in Nat \ {0} /\ Len(s) \in Nat /\ at \in 1 .. Len(s)
    /\ c = Part(c.proc, c.rank) /\ c.proc \in Procs
    /\ c.proc \in OffProcs => c.rank \in Live /\ selected' = {c.rank}
    /\ s[at] \in Fits /\ Effect(s[at]) /\ Register(s, at - 1) /\ Exact(s, at)
    /\ s[at].op = "run" =>
          /\ Run(s[at].val) /\ May(c.proc, s[at].val) /\ s[at] = RunReg(s[at].val)
          /\ running' /\ label' = s[at].val /\ ip' = s[at].val /\ s[at].val \in Entries
          /\ selected' = selected
    /\ s[at].op # "run" => ~running' /\ label' = label
    /\ \/ /\ at < Len(s) /\ at' = at + 1 /\ calls' = calls
          /\ Writes(Head(calls))' = s
       \/ /\ at = Len(s) /\ at' = 1 /\ Len(calls') = Len(calls) - 1
          /\ \A i \in 1 .. Len(calls') : calls'[i] = calls[i + 1]

LEMMA Moving ==
    ASSUME CommandInv, Write
    PROVE  \E c, s : Moves(c, s)
<1>1. PICK c \in Parts, s \in Seq(Fits) :
              /\ c = Head(calls) /\ s = Writes(Head(calls)) /\ s = Writes(c) /\ c = calls[1]
              /\ Len(calls) \in Nat \ {0} /\ Len(s) \in Nat /\ at \in 1 .. Len(s)
              /\ c.proc \in OffProcs => c.rank \in Live /\ selected' = {c.rank}
              /\ s[at] \in Fits
              /\ s[at].op = "run" =>
                    running' /\ label' = s[at].val /\ ip' = s[at].val /\ s[at].val \in Entries
              /\ s[at].op # "run" => ~running' /\ label' = label
              /\ \/ /\ at < Len(s) /\ at' = at + 1 /\ calls' = calls
                    /\ Writes(Head(calls))' = s
                 \/ /\ at = Len(s) /\ at' = 1 /\ Len(calls') = Len(calls) - 1
                    /\ \A i \in 1 .. Len(calls') : calls'[i] = calls[i + 1]
  BY WriteMoves
<1>2. calls # <<>> /\ board \in Boards /\ RegisterInv
  BY Zenon DEF Write, CommandInv, CallsInv
<1>3. Effect(s[at]) /\ Register(s, at - 1)
  <2>1. Effect(Writes(Head(calls))[at])
    BY Zenon DEF Write
  <2>2. Register(Writes(Head(calls)), at - 1)
    BY Zenon, <1>2 DEF RegisterInv
  <2> QED
    BY <1>1, <2>1, <2>2
<1>4. Exact(s, at) /\ (s[at].op = "run" => May(c.proc, s[at].val))
  <2>1. PICK n : n = at
    OBVIOUS
  <2>2. n \in 1 .. Len(Writes(c))
    BY <1>1, <2>1
  <2>3. Exact(Writes(c), n) /\ (Writes(c)[n].op = "run" => May(c.proc, Writes(c)[n].val))
    BY <1>2, <2>2, PartExact
  <2> QED
    BY <1>1, <2>1, <2>3
<1>5. ASSUME s[at].op = "run" PROVE Run(s[at].val) /\ s[at] = RunReg(s[at].val) /\ selected' = selected
  <2>1. Run(s[at].val) /\ selected' = selected
    BY <1>3, <1>5 DEF Effect, pinVars
  <2>2. s[at] = RunReg(s[at].val)
    BY <1>1, <1>5 DEF Fits, Body, Selects, PhyReg, RunReg
  <2> QED
    BY <2>1, <2>2
<1>6. c = Part(c.proc, c.rank) /\ c.proc \in Procs
  BY DEF Parts, Part
<1> QED
  BY <1>1, <1>2, <1>3, <1>4, <1>5, <1>6 DEF Moves

(* What else a write leaves.                                               *)
LEMMA WriteStays ==
    ASSUME CommandInv, Write
    PROVE  /\ ~running /\ stage' = stage /\ board' = board /\ Live' = Live
           /\ Ranks' = Ranks /\ Wlat' = Wlat /\ Parts' = Parts
           /\ board \in Boards /\ Live \subseteq Ranks /\ Live \subseteq Nat
           /\ calls \in Seq(Parts) /\ EngineTypeOK
<1>1. ~running /\ stage' = stage /\ board' = board
  BY DEF Write
<1>2. board \in Boards /\ calls \in Seq(Parts) /\ EngineTypeOK
  BY DEF CommandInv, CallsInv
<1>3. Live' = Live /\ Ranks' = Ranks /\ Wlat' = Wlat
  BY <1>1 DEF Live, Ranks, Wlat
<1>4. Parts' = Parts
  BY <1>3 DEF Parts
<1> QED
  BY <1>1, <1>2, <1>3, <1>4, LiveIs

(* The parts that remain after a write.                                    *)
LEMMA Remain ==
    ASSUME NEW c, NEW s, Moves(c, s)
    PROVE  \E d \in {0, 1} :
              /\ Len(calls') = Len(calls) - d /\ Len(calls) \in Nat \ {0}
              /\ \A i \in 1 .. Len(calls') : calls'[i] = calls[i + d] /\ i + d \in 1 .. Len(calls)
              /\ IF d = 0 THEN /\ at < Len(s) /\ at' = at + 1 /\ calls' = calls
                               /\ Writes(Head(calls))' = s
                          ELSE at = Len(s) /\ at' = 1
<1>1. /\ Len(calls) \in Nat \ {0}
      /\ \/ /\ at < Len(s) /\ at' = at + 1 /\ calls' = calls
            /\ Writes(Head(calls))' = s
         \/ /\ at = Len(s) /\ at' = 1 /\ Len(calls') = Len(calls) - 1
            /\ \A i \in 1 .. Len(calls') : calls'[i] = calls[i + 1]
  BY Zenon DEF Moves
<1>2. CASE /\ at < Len(s) /\ at' = at + 1 /\ calls' = calls
           /\ Writes(Head(calls))' = s
  BY <1>1, <1>2
<1>3. CASE /\ at = Len(s) /\ at' = 1 /\ Len(calls') = Len(calls) - 1
           /\ \A i \in 1 .. Len(calls') : calls'[i] = calls[i + 1]
  BY <1>1, <1>3
<1> QED
  BY <1>1, <1>2, <1>3

(* A clock, and what it finds.                                             *)
LEMMA Clocking ==
    ASSUME CommandInv, Clocked
    PROVE  /\ calls' = calls /\ at' = at /\ stage' = stage /\ selected' = selected
           /\ board' = board /\ Ranks' = Ranks /\ Live' = Live /\ Wlat' = Wlat
           /\ label' = label /\ jump' = jump /\ reload' = reload /\ first' = first
           /\ calls # <<>> => Writes(Head(calls))' = Writes(Head(calls))
           /\ running /\ Play /\ EngineTypeOK /\ Course /\ label \in Entries /\ ip \in Block(label)
           /\ label \notin Holds \cup Idles => \E r \in Live : selected = {r}
           /\ elapsed' = IF label \in Timed THEN elapsed + 1 ELSE 0
           /\ board \in Boards /\ Live \subseteq Ranks /\ Live \subseteq Nat
           /\ calls \in Seq(Parts)
<1>1. /\ calls' = calls /\ at' = at /\ stage' = stage /\ selected' = selected /\ Live' = Live
      /\ label' = label
      /\ calls # <<>> => Writes(Head(calls))' = Writes(Head(calls))
  BY ClockWaits
<1>2. board' = board
  BY DEF Clocked, cpuVars
<1>3. Ranks' = Ranks /\ Wlat' = Wlat
  BY <1>2 DEF Ranks, Wlat
<1>4. /\ running /\ Play /\ jump' = jump /\ reload' = reload /\ first' = first /\ Tick
  BY DEF Clocked, Play, Return, Advance, Jump, Exhaust
<1>5. /\ EngineTypeOK /\ board \in Boards /\ Course /\ Addressee /\ calls \in Seq(Parts)
  BY <1>4 DEF CommandInv, CallsInv, RunInv
<1> QED
  BY <1>1, <1>2, <1>3, <1>4, <1>5, LiveIs DEF Course, Addressee, Tick

(* An instruction jumps on one counter at most.                            *)
LEMMA OneCounter ==
    ASSUME NEW a, NEW c \in Cntrs, NEW d \in Cntrs, a \in JumpsOn(c), a \in JumpsOn(d)
    PROVE  c = d
<1>1. c \in {0, 1, 2, 3} /\ d \in {0, 1, 2, 3}
  BY DEF Cntrs
<1>2. \A x \in {0, 1, 2, 3} : x < d => a \notin JumpsOn(x)
  BY <1>1 DEF JumpsOn
<1>3. \A x \in {0, 1, 2, 3} : x < c => a \notin JumpsOn(x)
  BY <1>1 DEF JumpsOn
<1> QED
  BY <1>1, <1>2, <1>3

(* What a run goes on with.                                                *)
LEMMA PlayNext ==
    ASSUME EngineTypeOK, Play, running'
    PROVE  /\ ip \notin Returns
           /\ (\A c \in Cntrs : ip \notin JumpsOn(c)) => ip' = ip + 1 /\ cntr' = cntr
           /\ \A c \in Cntrs : ip \in JumpsOn(c) =>
                 /\ cntr[c] # 0 => ip' = jump[c] /\ cntr'[c] = cntr[c] - 1
                 /\ cntr[c] = 0 => ip' = ip + 1 /\ cntr'[c] = reload[c]
                 /\ \A d \in Cntrs : d # c => cntr'[d] = cntr[d]
<1>1. ip \notin Returns /\ \E c \in Cntrs : Advance \/ Jump(c) \/ Exhaust(c)
  BY GoesOn
<1>2. DOMAIN cntr = Cntrs /\ cntr = [c \in Cntrs |-> cntr[c]]
  BY DEF EngineTypeOK
<1>3. CASE Advance
  BY <1>1, <1>3 DEF Advance
<1>4. ASSUME NEW c \in Cntrs, Jump(c) \/ Exhaust(c) PROVE
         /\ ip \in JumpsOn(c)
         /\ cntr[c] # 0 => ip' = jump[c] /\ cntr'[c] = cntr[c] - 1
         /\ cntr[c] = 0 => ip' = ip + 1 /\ cntr'[c] = reload[c]
         /\ \A d \in Cntrs : d # c => cntr'[d] = cntr[d]
  <2>1. CASE Jump(c)
    BY <1>2, <2>1 DEF Jump
  <2>2. CASE Exhaust(c)
    BY <1>2, <2>2 DEF Exhaust
  <2> QED
    BY <1>4, <2>1, <2>2
<1>5. CASE \E c \in Cntrs : Jump(c) \/ Exhaust(c)
  <2>1. PICK c \in Cntrs : Jump(c) \/ Exhaust(c)
    BY <1>5
  <2>2. \A d \in Cntrs : ip \in JumpsOn(d) => d = c
    BY <1>4, <2>1, OneCounter
  <2> QED
    BY <1>1, <1>4, <2>1, <2>2
<1> QED
  BY <1>1, <1>3, <1>5

LEMMA PlayEnds ==
    ASSUME Play, ~running'
    PROVE  ip \in Returns /\ ip' = ip /\ cntr' = cntr
BY DEF Play, Return, Advance, Jump, Exhaust

(* Parts whose ranks go up, from l to h.                                   *)
Climbs(s, l, h) ==
    /\ s \in Seq(Parts)
    /\ \A i \in 1 .. Len(s) : s[i].rank \in l .. h
    /\ \A i, j \in 1 .. Len(s) : i < j => s[i].rank < s[j].rank

LEMMA ClimbsJoin ==
    ASSUME NEW s, NEW t, NEW l \in Nat, NEW m \in Nat, NEW h \in Nat, l <= m, m < h,
           Climbs(s, l, m), Climbs(t, m + 1, h)
    PROVE  Climbs(s \o t, l, h)
<1>1. s \in Seq(Parts) /\ t \in Seq(Parts)
  BY DEF Climbs
<1> DEFINE u == s \o t
<1>2. /\ u \in Seq(Parts) /\ Len(u) = Len(s) + Len(t) /\ Len(s) \in Nat /\ Len(t) \in Nat
      /\ \A i \in 1 .. Len(s) : u[i] = s[i]
      /\ \A i \in 1 .. Len(t) : u[Len(s) + i] = t[i]
  BY <1>1, Joined
<1> HIDE DEF u
<1>3. ASSUME NEW i \in 1 .. Len(u)
      PROVE  \/ i \in 1 .. Len(s) /\ u[i] = s[i] /\ u[i].rank \in l .. m
             \/ /\ i - Len(s) \in 1 .. Len(t) /\ u[i] = t[i - Len(s)] /\ ~(i <= Len(s))
                /\ u[i].rank \in m + 1 .. h
  <2>1. CASE i <= Len(s)
    <3>1. i \in 1 .. Len(s)
      BY <1>2, <2>1
    <3> QED
      BY <1>2, <3>1 DEF Climbs
  <2>2. CASE ~(i <= Len(s))
    <3>1. i - Len(s) \in 1 .. Len(t) /\ Len(s) + (i - Len(s)) = i
      BY <1>2, <2>2
    <3>2. u[i] = t[i - Len(s)]
      BY <1>2, <3>1
    <3> QED
      BY <2>2, <3>1, <3>2 DEF Climbs
  <2> QED
    BY <2>1, <2>2
<1>4. \A i \in 1 .. Len(u) : u[i].rank \in l .. h
  BY <1>3
<1>5. ASSUME NEW i \in 1 .. Len(u), NEW j \in 1 .. Len(u), i < j PROVE u[i].rank < u[j].rank
  <2>1. CASE i \in 1 .. Len(s) /\ j \in 1 .. Len(s)
    BY <1>2, <1>5, <2>1 DEF Climbs
  <2>2. CASE ~(i <= Len(s)) /\ ~(j <= Len(s))
    <3>1. /\ i - Len(s) \in 1 .. Len(t) /\ u[i] = t[i - Len(s)]
          /\ j - Len(s) \in 1 .. Len(t) /\ u[j] = t[j - Len(s)]
      BY <1>2, <1>3, <2>2
    <3>2. i - Len(s) < j - Len(s)
      BY <1>2, <1>5
    <3> QED
      BY <3>1, <3>2 DEF Climbs
  <2>3. CASE i \in 1 .. Len(s) /\ ~(j <= Len(s))
    BY <1>2, <1>3, <2>3
  <2> QED
    BY <1>2, <1>5, <2>1, <2>2, <2>3
<1> QED
  BY <1>2, <1>4, <1>5 DEF Climbs, u

LEMMA ForRanksClimb ==
    ASSUME board \in Boards, NEW p \in OffProcs \cup OdtProcs
    PROVE  Climbs(ForRanks(p), 0, 3)
<1>1. ASSUME NEW r \in 0 .. 3
      PROVE  Climbs(Of(p, r), r, r)
  <2>1. CASE r \in Live
    <3>1. Of(p, r) = <<Part(p, r)>>
      BY <2>1 DEF Of
    <3>2. Part(p, r) \in Parts /\ Part(p, r).rank = r
      <4>1. p \in Procs /\ r \in Nat
        BY DEF Procs
      <4>2. Part(p, r) \in [proc : Procs, rank : Nat] /\ Part(p, r).rank = r
        BY <4>1 DEF Part
      <4> QED
        BY <2>1, <4>2 DEF Parts
    <3> DEFINE x == Part(p, r)
    <3> HIDE DEF x
    <3>3. <<x>> \in Seq(Parts) /\ Len(<<x>>) = 1 /\ <<x>>[1] = x /\ x.rank = r
      BY <3>2 DEF x
    <3>4. Climbs(<<x>>, r, r)
      BY <3>3 DEF Climbs
    <3> QED
      BY <3>1, <3>4 DEF x
  <2>2. CASE r \notin Live
    <3>1. Of(p, r) = <<>>
      BY <2>2 DEF Of
    <3> QED
      BY <3>1 DEF Climbs
  <2> QED
    BY <2>1, <2>2
<1> DEFINE a == Of(p, 0)
           b == Of(p, 1)
           c == Of(p, 2)
           d == Of(p, 3)
           ab == a \o b
           abc == ab \o c
           s == abc \o d
<1>2. Climbs(a, 0, 0) /\ Climbs(b, 1, 1) /\ Climbs(c, 2, 2) /\ Climbs(d, 3, 3)
  BY <1>1
<1>3. ForRanks(p) = s
  BY Zenon DEF ForRanks, s, abc, ab, a, b, c, d
<1> HIDE DEF a, b, c, d
<1>4. Climbs(ab, 0, 1)
  <2>1. Climbs(b, 0 + 1, 1)
    BY <1>2
  <2> QED
    BY <1>2, <2>1, ClimbsJoin
<1> HIDE DEF ab
<1>5. Climbs(abc, 0, 2)
  <2>1. Climbs(c, 1 + 1, 2)
    BY <1>2
  <2> QED
    BY <1>4, <2>1, ClimbsJoin
<1> HIDE DEF abc
<1>6. Climbs(s, 0, 3)
  <2>1. Climbs(d, 2 + 1, 3)
    BY <1>2
  <2> QED
    BY <1>5, <2>1, ClimbsJoin
<1> HIDE DEF s
<1> QED
  BY <1>3, <1>6

(* Parts of one procedure, one rank after another.                         *)
InTurn(s) ==
    \A i, j \in 1 .. Len(s) :
        i < j /\ s[i].proc \in OffProcs /\ s[j].proc \in OffProcs => s[i].rank < s[j].rank

LEMMA PartsInTurn ==
    ASSUME board \in Boards, NEW p \in OffProcs \cup OdtProcs,
           NEW q \in {"clear", "odt_off"}
    PROVE  /\ InTurn(ForRanks(p))
           /\ LET s == Append(ForRanks(p), Part(q, 0))
              IN /\ s \in Seq(Parts) /\ InTurn(s) /\ Len(s) \in Nat
                 /\ \A i \in 1 .. Len(s) : s[i].proc \in {p, q}
           /\ LET s == <<Part("reset", 0)>> \o ForRanks("initialize")
              IN /\ s \in Seq(Parts) /\ InTurn(s) /\ Len(s) \in Nat /\ Len(s) >= 2
                 /\ s[1] = Part("reset", 0)
                 /\ \A i \in 2 .. Len(s) : s[i].proc = "initialize"
<1>1. InTurn(ForRanks(p))
  BY ForRanksClimb DEF Climbs, InTurn
<1>2. LET s == Append(ForRanks(p), Part(q, 0))
      IN /\ s \in Seq(Parts) /\ InTurn(s) /\ Len(s) \in Nat
         /\ \A i \in 1 .. Len(s) : s[i].proc \in {p, q}
  <2> DEFINE t == ForRanks(p)
             x == Part(q, 0)
             s == Append(t, x)
  <2>1. t \in Seq(Parts) /\ Len(t) \in Nat /\ \A i \in 1 .. Len(t) : t[i].proc = p
    BY ForRanksAre
  <2>2. x.proc = q /\ q \notin OffProcs /\ x \in Parts
    BY PartIn DEF Part, OffProcs
  <2> HIDE DEF t, x
  <2>3. /\ s \in Seq(Parts) /\ Len(s) = Len(t) + 1 /\ s[Len(t) + 1] = x
        /\ \A i \in 1 .. Len(t) : s[i] = t[i]
    BY <2>1, <2>2, AppendProperties
  <2> HIDE DEF s
  <2>4. ASSUME NEW i \in 1 .. Len(s) PROVE i \in 1 .. Len(t) \/ i = Len(t) + 1
    BY <2>1, <2>3
  <2>5. \A i \in 1 .. Len(s) : s[i].proc \in {p, q}
    BY <2>1, <2>2, <2>3, <2>4
  <2>6. InTurn(s)
    <3> SUFFICES ASSUME NEW i \in 1 .. Len(s), NEW j \in 1 .. Len(s), i < j,
                        s[i].proc \in OffProcs, s[j].proc \in OffProcs
                 PROVE  s[i].rank < s[j].rank
      BY DEF InTurn
    <3>1. i \in 1 .. Len(t) /\ j \in 1 .. Len(t)
      BY <2>2, <2>3, <2>4
    <3>2. t[i].proc \in OffProcs /\ t[j].proc \in OffProcs
      BY <2>3, <3>1
    <3>3. t[i].rank < t[j].rank
      BY <1>1, <3>1, <3>2 DEF InTurn, t
    <3> QED
      BY <2>3, <3>1, <3>3
  <2>7. Len(s) \in Nat
    BY <2>1, <2>3
  <2> QED
    BY <2>3, <2>5, <2>6, <2>7 DEF s, t, x
<1>3. LET s == <<Part("reset", 0)>> \o ForRanks("initialize")
      IN /\ s \in Seq(Parts) /\ InTurn(s) /\ Len(s) \in Nat /\ Len(s) >= 2
         /\ s[1] = Part("reset", 0)
         /\ \A i \in 2 .. Len(s) : s[i].proc = "initialize"
  <2> DEFINE t == ForRanks("initialize")
             x == <<Part("reset", 0)>>
             s == x \o t
  <2>0. "initialize" \in OffProcs \cup OdtProcs
    BY DEF OffProcs
  <2>1. /\ t \in Seq(Parts) /\ Len(t) \in Nat /\ Len(t) >= 1
        /\ \A i \in 1 .. Len(t) : t[i].proc = "initialize"
    BY <2>0, ForRanksAre
  <2>2. Climbs(t, 0, 3)
    BY <2>0, ForRanksClimb
  <2>3. x \in Seq(Parts) /\ Len(x) = 1 /\ x[1] = Part("reset", 0)
    BY PartIn
  <2>4. x[1].proc \notin OffProcs
    BY <2>3 DEF Part, OffProcs
  <2> HIDE DEF t, x
  <2>5. x \in Seq(Parts) /\ t \in Seq(Parts)
    BY <2>1, <2>3
  <2>6. /\ s \in Seq(Parts) /\ Len(s) = Len(x) + Len(t)
        /\ \A i \in 1 .. Len(x) : s[i] = x[i]
        /\ \A i \in 1 .. Len(t) : s[Len(x) + i] = t[i]
    BY <2>5, Joined
  <2> HIDE DEF s
  <2>7. Len(s) \in Nat /\ Len(s) >= 2 /\ s[1] = x[1]
    BY <2>1, <2>3, <2>6
  <2>8. ASSUME NEW i \in 2 .. Len(s) PROVE i - 1 \in 1 .. Len(t) /\ s[i] = t[i - 1]
    <3>1. i - 1 \in 1 .. Len(t) /\ Len(x) + (i - 1) = i
      BY <2>1, <2>3, <2>6
    <3> QED
      BY <2>6, <3>1
  <2>9. InTurn(s)
    <3> SUFFICES ASSUME NEW i \in 1 .. Len(s), NEW j \in 1 .. Len(s), i < j,
                        s[i].proc \in OffProcs, s[j].proc \in OffProcs
                 PROVE  s[i].rank < s[j].rank
      BY DEF InTurn
    <3>1. i # 1
      BY <2>4, <2>7
    <3>2. i \in 2 .. Len(s) /\ j \in 2 .. Len(s)
      BY <2>7, <3>1
    <3>3. /\ i - 1 \in 1 .. Len(t) /\ s[i] = t[i - 1]
          /\ j - 1 \in 1 .. Len(t) /\ s[j] = t[j - 1]
          /\ i - 1 < j - 1
      BY <2>8, <3>2
    <3> QED
      BY <2>2, <3>3 DEF Climbs
  <2>10. \A i \in 2 .. Len(s) : s[i].proc = "initialize"
    BY <2>1, <2>8
  <2> QED
    BY <2>3, <2>6, <2>7, <2>9, <2>10 DEF s, x, t
<1> QED
  BY <1>1, <1>2, <1>3

(* What a procedure begins.                                                *)
Begun(st, to) ==
    \/ /\ st = "start" /\ to = "initialized"
       /\ calls' = <<Part("reset", 0)>> \o ForRanks("initialize")
       /\ calls'[1] = Part("reset", 0) /\ Len(calls') >= 2
       /\ \A i \in 2 .. Len(calls') : calls'[i].proc = "initialize"
    \/ /\ (st = "initialized" /\ to = "configured") \/ (st \in InUseStages /\ to = "calibrated")
       /\ \A i \in 1 .. Len(calls') : calls'[i].proc = "activate"
       /\ \A r \in Live : \E i \in 1 .. Len(calls') : calls'[i] = Part("activate", r)
    \/ /\ st = "calibrated" /\ to = "done"
       /\ \A i \in 1 .. Len(calls') : calls'[i].proc = "handoff"
       /\ \A r \in Live : \E i \in 1 .. Len(calls') : calls'[i] = Part("handoff", r)
    \/ /\ st \in InUseStages \cup {"configured"} /\ to \in InUseStages
       /\ \A i \in 1 .. Len(calls') : calls'[i].proc \in OdtProcs \cup {"clear", "odt_off"}

LEMMA Beginning ==
    ASSUME CommandInv, Procedures
    PROVE  /\ ~running /\ calls = <<>> /\ at = 1 /\ at' = 1 /\ dram' = dram
           /\ UNCHANGED <<running, ip, cntr, reload, jump, elapsed, label, first>>
           /\ selected' = selected /\ board' = board
           /\ Live' = Live /\ Ranks' = Ranks /\ Wlat' = Wlat /\ Parts' = Parts
           /\ board \in Boards
           /\ calls' \in Seq(Parts) /\ calls' # <<>> /\ Len(calls') \in Nat /\ Len(calls') >= 1
           /\ Head(calls') = calls'[1]
           /\ Begun(stage, stage') /\ InTurn(calls')
<1>1. board \in Boards /\ (calls = <<>> => at = 1)
  BY DEF CommandInv, CallsInv
<1>2. \E from, to, parts : Steps(from, to, parts)
  BY <1>1, Begins
<1>3. /\ ~running /\ calls = <<>> /\ at' = at /\ dram' = dram /\ board' = board
      /\ UNCHANGED engineVars /\ UNCHANGED pinVars
      /\ calls' \in Seq(Parts) /\ calls' # <<>>
  BY <1>2 DEF Steps, Call
<1>4. Live' = Live /\ Ranks' = Ranks /\ Wlat' = Wlat
  BY <1>3 DEF Live, Ranks, Wlat
<1>5. Parts' = Parts
  BY <1>4 DEF Parts
<1>6. Begun(stage, stage') /\ InTurn(calls')
  <2>1. /\ {"activate", "handoff"} \subseteq OffProcs
        /\ {"load_patterns", "read_patterns", "read_test", "read_all", "write_test",
            "write_test_dm"} \subseteq OdtProcs
    BY DEF OffProcs, OdtProcs, ReadProcs
  <2>2. CASE rw_mgr_mem_initialize
    <3>1. /\ stage = "start" /\ stage' = "initialized"
          /\ calls' = <<Part("reset", 0)>> \o ForRanks("initialize")
      BY <2>2 DEF rw_mgr_mem_initialize, Call
    <3>2. /\ InTurn(calls') /\ Len(calls') >= 2
          /\ calls'[1] = Part("reset", 0)
          /\ \A i \in 2 .. Len(calls') : calls'[i].proc = "initialize"
      BY <1>1, <2>1, <3>1, PartsInTurn
    <3> QED
      BY <3>1, <3>2 DEF Begun
  <2>3. ASSUME NEW p \in {"activate", "handoff"}, calls' = ForRanks(p)
        PROVE  /\ InTurn(calls')
               /\ \A i \in 1 .. Len(calls') : calls'[i].proc = p
               /\ \A r \in Live : \E i \in 1 .. Len(calls') : calls'[i] = Part(p, r)
    <3>1. p \in OffProcs \cup OdtProcs
      BY <2>1
    <3>2. InTurn(ForRanks(p))
      <4>1. "clear" \in {"clear", "odt_off"}
        OBVIOUS
      <4> QED
        BY <1>1, <3>1, <4>1, PartsInTurn
    <3>3. \A i \in 1 .. Len(ForRanks(p)) : ForRanks(p)[i].proc = p
      BY <1>1, <3>1, ForRanksAre
    <3>4. \A r \in Live : \E i \in 1 .. Len(ForRanks(p)) : ForRanks(p)[i] = Part(p, r)
      BY <1>1, <3>1, ForRanksHas DEF Given
    <3> QED
      BY <2>3, <3>2, <3>3, <3>4
  <2>4. ASSUME NEW p \in OdtProcs, NEW q \in {"clear", "odt_off"},
               calls' = Append(ForRanks(p), Part(q, 0))
        PROVE  /\ InTurn(calls')
               /\ \A i \in 1 .. Len(calls') : calls'[i].proc \in OdtProcs \cup {"clear", "odt_off"}
    <3>1. /\ InTurn(calls')
          /\ \A i \in 1 .. Len(calls') : calls'[i].proc \in {p, q}
      BY <1>1, <2>4, PartsInTurn
    <3> QED
      BY <3>1
  <2>5. CASE mem_config \/ mem_precharge_and_activate
    <3>1. /\ calls' = ForRanks("activate")
          /\ \/ stage = "initialized" /\ stage' = "configured"
             \/ stage \in InUseStages /\ stage' = "calibrated"
      BY <2>5 DEF mem_config, mem_precharge_and_activate, Call, InUseStages
    <3>2. /\ InTurn(calls')
          /\ \A i \in 1 .. Len(calls') : calls'[i].proc = "activate"
          /\ \A r \in Live : \E i \in 1 .. Len(calls') : calls'[i] = Part("activate", r)
      BY <2>3, <3>1
    <3> QED
      BY <3>1, <3>2 DEF Begun
  <2>6. CASE rw_mgr_mem_handoff
    BY <2>3, <2>6 DEF rw_mgr_mem_handoff, Call, Begun
  <2>7. CASE load_patterns \/ lfifo_patterns
    BY <2>1, <2>4, <2>7 DEF load_patterns, lfifo_patterns, Call, Begun, InUseStages
  <2>8. CASE read_test_patterns \/ read_test \/ lfifo_read_test
    BY <2>1, <2>4, <2>8 DEF read_test_patterns, read_test, lfifo_read_test, Call, Begun, InUseStages
  <2>9. CASE \E p \in {"write_test", "write_test_dm"} : write_test(p)
    BY <2>1, <2>4, <2>9 DEF write_test, Call, Begun, InUseStages
  <2> QED
    BY <2>2, <2>5, <2>6, <2>7, <2>8, <2>9 DEF Procedures
<1>7. Len(calls') \in Nat /\ Len(calls') >= 1 /\ Head(calls') = calls'[1]
  BY <1>3
<1> QED
  BY <1>1, <1>3, <1>4, <1>5, <1>6, <1>7 DEF engineVars, pinVars

(* A step in which nothing happens.                                        *)
LEMMA Stays ==
    ASSUME CommandInv, UNCHANGED vars
    PROVE  /\ calls' = calls /\ at' = at /\ stage' = stage /\ selected' = selected
           /\ board' = board /\ Ranks' = Ranks /\ Live' = Live /\ Wlat' = Wlat
           /\ UNCHANGED <<running, ip, cntr, reload, jump, elapsed, label, first>>
           /\ dram' = dram /\ board \in Boards
           /\ calls # <<>> => Writes(Head(calls))' = Writes(Head(calls))
<1>1. /\ board' = board /\ dram' = dram
      /\ UNCHANGED <<running, ip, cntr, reload, jump, elapsed, label, first>>
  BY DEF vars, engineVars, cpuVars
<1>2. Ranks' = Ranks /\ Wlat' = Wlat
  BY <1>1 DEF Ranks, Wlat
<1> QED
  BY <1>1, <1>2, ClockWaits DEF CommandInv, CallsInv

(* The parts belong to their stage.                                        *)
LEMMA StageProcedure ==
    ASSUME CommandInv, Procedures
    PROVE  StageInv' /\ OnceInv'
<1>1. ~running' /\ Begun(stage, stage') /\ InTurn(calls') /\ Len(calls') \in Nat
  BY Beginning
<1>2. \A i \in 1 .. Len(calls') : Belongs(calls'[i].proc, stage')
  <2>1. CASE /\ stage = "start" /\ stage' = "initialized"
             /\ calls'[1] = Part("reset", 0) /\ Len(calls') >= 2
             /\ \A i \in 2 .. Len(calls') : calls'[i].proc = "initialize"
    <3>1. \A i \in 1 .. Len(calls') : i = 1 \/ i \in 2 .. Len(calls')
      BY <1>1
    <3>2. Part("reset", 0).proc = "reset"
      BY DEF Part
    <3> QED
      BY <2>1, <3>1, <3>2 DEF Belongs
  <2>2. CASE /\ stage' \in {"configured", "calibrated"}
             /\ \A i \in 1 .. Len(calls') : calls'[i].proc = "activate"
    BY <2>2 DEF Belongs
  <2>3. CASE stage' = "done" /\ \A i \in 1 .. Len(calls') : calls'[i].proc = "handoff"
    BY <2>3 DEF Belongs
  <2>4. CASE /\ stage' \in InUseStages
             /\ \A i \in 1 .. Len(calls') : calls'[i].proc \in OdtProcs \cup {"clear", "odt_off"}
    BY <2>4 DEF Belongs
  <2> QED
    BY <1>1, <2>1, <2>2, <2>3, <2>4 DEF Begun
<1>3. StageInv'
  BY <1>1, <1>2 DEF StageInv
<1>4. OnceInv'
  BY <1>1 DEF OnceInv, InTurn
<1> QED
  BY <1>3, <1>4

LEMMA StageWrite ==
    ASSUME CommandInv, StageInv, OnceInv, Write
    PROVE  StageInv' /\ OnceInv'
<1>1. PICK c, s : Moves(c, s)
  BY Moving
<1>2. PICK d \in {0, 1} :
              /\ Len(calls') = Len(calls) - d /\ Len(calls) \in Nat \ {0}
              /\ \A i \in 1 .. Len(calls') : calls'[i] = calls[i + d] /\ i + d \in 1 .. Len(calls)
              /\ IF d = 0 THEN /\ at < Len(s) /\ at' = at + 1 /\ calls' = calls
                               /\ Writes(Head(calls))' = s
                          ELSE at = Len(s) /\ at' = 1
  BY <1>1, Remain
<1>3. /\ c = calls[1] /\ c.proc \in Procs /\ at \in 1 .. Len(s) /\ Len(s) \in Nat
      /\ s[at].op = "run" => May(c.proc, s[at].val) /\ s[at] = RunReg(s[at].val) /\ label' = s[at].val
      /\ s[at].op # "run" => ~running'
  BY <1>1 DEF Moves
<1>4. stage' = stage
  BY WriteStays
<1>5. \A i \in 1 .. Len(calls') : Belongs(calls'[i].proc, stage')
  BY <1>2, <1>4 DEF StageInv
<1>6. ASSUME running' PROVE \E p \in Procs : Belongs(p, stage') /\ May(p, label')
  <2>1. Belongs(c.proc, stage)
    BY <1>2, <1>3 DEF StageInv
  <2>2. May(c.proc, label')
    BY <1>3, <1>6
  <2> QED
    BY <1>3, <1>4, <2>1, <2>2
<1>7. ASSUME running', at' > 1 PROVE Writes(Head(calls))'[at' - 1] = RunReg(label')
  <2>1. d = 0
    BY <1>2, <1>7
  <2>2. Writes(Head(calls))' = s /\ at' - 1 = at
    BY <1>2, <1>3, <2>1
  <2>3. s[at] = RunReg(label')
    BY <1>3, <1>7
  <2> QED
    BY <2>2, <2>3
<1>8. StageInv'
  BY <1>5, <1>6, <1>7 DEF StageInv
<1>9. OnceInv'
  <2> SUFFICES ASSUME NEW i \in 1 .. Len(calls'), NEW j \in 1 .. Len(calls'), i < j,
                      calls'[i].proc \in OffProcs, calls'[j].proc \in OffProcs
               PROVE  calls'[i].rank < calls'[j].rank
    BY DEF OnceInv
  <2>1. /\ calls'[i] = calls[i + d] /\ i + d \in 1 .. Len(calls)
        /\ calls'[j] = calls[j + d] /\ j + d \in 1 .. Len(calls)
        /\ i + d < j + d
    BY <1>2
  <2> QED
    BY <2>1 DEF OnceInv
<1> QED
  BY <1>8, <1>9

LEMMA StageStep ==
    ASSUME CommandInv, StageInv, OnceInv, [CNext]_vars
    PROVE  StageInv' /\ OnceInv'
<1>1. ASSUME calls' = calls, at' = at, stage' = stage, label' = label, running' => running,
             calls # <<>> => Writes(Head(calls))' = Writes(Head(calls))
      PROVE  StageInv' /\ OnceInv'
  BY <1>1 DEF StageInv, OnceInv
<1>2. CASE UNCHANGED vars
  BY <1>1, <1>2, Stays
<1>3. CASE Clocked
  BY <1>1, <1>3, Clocking
<1> QED
  BY <1>2, <1>3, StageProcedure, StageWrite DEF CNext

(* The steps of a run: on to the next instruction, or round a loop.        *)
Onward == ip' = ip + 1 /\ cntr' = cntr

Round(c, y) ==
    /\ \A d \in Cntrs : d # c => cntr'[d] = cntr[d]
    /\ \/ cntr[c] # 0 /\ ip' = y /\ cntr'[c] = cntr[c] - 1
       \/ cntr[c] = 0 /\ ip' = ip + 1 /\ cntr'[c] = reload[c]

Straight == {13, 15, 24, 26, 28, 30, 73, 74} \cup (76 .. 78) \cup (80 .. 86) \cup (89 .. 96)
            \cup (98 .. 106)

LEMMA StraightOn ==
    ASSUME NEW x \in Straight \cup (36 .. 49) \cup (56 .. 69), NEW c \in Cntrs
    PROVE  x \notin JumpsOn(c)
<1>1. x \in Nat /\ x < 107 /\ x > 12
  BY DEF Straight
<1>2. x \notin {2, 3, 4, 5, 6, 7, 8, 9, 10, 11, 12, 14, 22, 27, 51, 71, 79,
                   108, 112, 117, 121, 122}
  BY DEF Straight
<1>3. x \notin {16, 21, 31, 50, 70, 87, 97, 113, 118, 123}
  BY DEF Straight
<1>4. x \notin {25, 33, 34, 53, 54, 107, 114, 119} /\ x \notin {29, 35, 55, 109}
  BY DEF Straight
<1>5. c \in {0, 1, 2, 3}
  BY DEF Cntrs
<1> QED
  BY <1>2, <1>3, <1>4, <1>5 DEF JumpsOn

LEMMA JumpsAt ==
    /\ \A x \in {14, 27, 51, 71, 79, 108} : x \in JumpsOn(0)
    /\ \A x \in {16, 31, 50, 70, 87, 97} : x \in JumpsOn(1)
    /\ \A x \in {25, 33, 34, 53, 54, 107} : x \in JumpsOn(2)
    /\ \A x \in {29, 35, 55, 109} : x \in JumpsOn(3)
    /\ {0, 1, 2, 3} = Cntrs /\ 0 \in Cntrs /\ 1 \in Cntrs /\ 2 \in Cntrs /\ 3 \in Cntrs
BY DEF JumpsOn, Cntrs

LEMMA PlayOn ==
    ASSUME EngineTypeOK, Play, running'
    PROVE  /\ ip \notin Returns /\ ip \in Nat
           /\ ip \in Straight \cup (36 .. 49) \cup (56 .. 69) => Onward
           /\ \A c \in Cntrs : cntr[c] \in Nat /\ reload[c] \in Nat /\ cntr'[c] \in Nat
           /\ ip \in {14, 27, 51, 71, 79, 108} => Round(0, jump[0])
           /\ ip \in {16, 31, 50, 70, 87, 97} => Round(1, jump[1])
           /\ ip \in {25, 33, 34, 53, 54, 107} => Round(2, jump[2])
           /\ ip \in {29, 35, 55, 109} => Round(3, jump[3])
<1>1. /\ ip \notin Returns
      /\ (\A c \in Cntrs : ip \notin JumpsOn(c)) => ip' = ip + 1 /\ cntr' = cntr
      /\ \A c \in Cntrs : ip \in JumpsOn(c) =>
            /\ cntr[c] # 0 => ip' = jump[c] /\ cntr'[c] = cntr[c] - 1
            /\ cntr[c] = 0 => ip' = ip + 1 /\ cntr'[c] = reload[c]
            /\ \A d \in Cntrs : d # c => cntr'[d] = cntr[d]
  BY PlayNext
<1>2. ip \in Straight \cup (36 .. 49) \cup (56 .. 69) => Onward
  BY <1>1, StraightOn DEF Onward
<1>3. \A c \in Cntrs : cntr[c] \in Nat /\ reload[c] \in Nat
  <2>1. 0 .. MaxCntr \subseteq Nat
    BY CntrAssumption
  <2> QED
    BY <2>1 DEF EngineTypeOK
<1>4. \A c \in Cntrs : ip \in JumpsOn(c) => Round(c, jump[c])
  BY <1>1 DEF Round
<1>5. \A c \in Cntrs : cntr'[c] \in Nat
  <2>1. CASE \A c \in Cntrs : ip \notin JumpsOn(c)
    BY <1>1, <1>3, <2>1
  <2>2. CASE \E c \in Cntrs : ip \in JumpsOn(c)
    <3>1. PICK c \in Cntrs : ip \in JumpsOn(c)
      BY <2>2
    <3> QED
      BY <1>1, <1>3, <3>1
  <2> QED
    BY <2>1, <2>2
<1>6. ip \in Nat
  BY DEF EngineTypeOK, Addresses
<1> QED
  BY <1>1, <1>2, <1>3, <1>4, <1>5, <1>6, JumpsAt

(* The labels that the runs of bursts and rows start at.                   *)
LEMMA BlocksOf ==
    ASSUME label \in Entries, ip \in Block(label)
    PROVE  /\ label = ACTIVATE_0_AND_1 => label = 13 /\ ip \in 13 .. 17
           /\ label = PRECHARGE_ALL => label = 18 /\ ip \in 18 .. 19
           /\ label = GUARANTEED_WRITE => label = 24 /\ ip \in 24 .. 32
           /\ label = CLEAR_DQS_ENABLE => label = 73 /\ ip \in 73 .. 75
           /\ label = GUARANTEED_READ => label = 76 /\ ip \in 76 .. 88
           /\ label = READ_B2B => label = 89 /\ ip \in 89 .. 110
           /\ label \in WriteTests =>
                 /\ Dm(label) \in {0, 20} /\ label - Dm(label) \in {33, 34}
                 /\ ip - Dm(label) \in 33 .. 52
           /\ label \in Addresses /\ ip \in Addresses
<1>1. label \notin Modes => label \notin 2 .. 12
  BY DEF Modes
<1>2. /\ label = 13 => Block(label) = 13 .. 17
      /\ label = 18 => Block(label) = 18 .. 19
      /\ label = 24 => Block(label) = 24 .. 32
      /\ label = 73 => Block(label) = 73 .. 75
      /\ label = 76 => Block(label) = 76 .. 88
      /\ label = 89 => Block(label) = 89 .. 110
      /\ label \in {33, 34} => Block(label) = 33 .. 52
      /\ label \in {53, 54} => Block(label) = 53 .. 72
  BY DEF Block, Modes, ACTIVATE_0_AND_1, PRECHARGE_ALL, GUARANTEED_WRITE, WRITE_WL_1, WRITE,
         DmBlock, CLEAR_DQS_ENABLE, GUARANTEED_READ, READ_B2B, INIT_RESET_0_CKE_0,
         INIT_RESET_1_CKE_0, IDLE_LOOP2
<1>3. CASE label \in WriteTests
  <2>1. label \in {33, 34, 53, 54}
    BY <1>3, RunLabels
  <2>2. Dm(label) = IF label > 34 THEN 20 ELSE 0
    BY DEF Dm, WRITE, DmBlock
  <2>3. label \in {33, 34} => ip \in 33 .. 52
    BY <1>2
  <2>4. label \in {53, 54} => ip \in 53 .. 72
    BY <1>2
  <2>5. /\ Dm(label) \in {0, 20} /\ label - Dm(label) \in {33, 34}
        /\ ip - Dm(label) \in 33 .. 52
    BY <2>1, <2>2, <2>3, <2>4
  <2>6. label \in Addresses /\ ip \in Addresses
    BY <2>1, <2>3, <2>4 DEF Addresses
  <2> QED
    BY <2>1, <2>5, <2>6 DEF ACTIVATE_0_AND_1, PRECHARGE_ALL, GUARANTEED_WRITE,
         CLEAR_DQS_ENABLE, GUARANTEED_READ, READ_B2B
<1>4. CASE label \notin WriteTests
  <2>1. label \in Addresses
    BY EntriesAre
  <2>2. ip \in Addresses
    BY <1>4, BlocksAre DEF Addresses
  <2> QED
    BY <1>2, <1>4, <2>1, <2>2 DEF ACTIVATE_0_AND_1, PRECHARGE_ALL, GUARANTEED_WRITE,
         CLEAR_DQS_ENABLE, GUARANTEED_READ, READ_B2B
<1> QED
  BY <1>3, <1>4

(* The registers in a run of each kind, from one clock to the next.        *)
LEMMA ActTunes ==
    ASSUME EngineTypeOK, Play, running', jump' = jump, ip \in 13 .. 17, ActTuned
    PROVE  ActTuned'
<1>1. ip # 17
  BY PlayOn DEF Returns
<1>2. /\ ip \in {13, 15} => Onward
      /\ ip = 14 => Round(0, 14)
      /\ ip = 16 => Round(1, 16)
  BY PlayOn DEF ActTuned, Straight
<1>3. \A c \in Cntrs : cntr[c] \in Nat
  BY PlayOn
<1>4. ip = 13 \/ ip = 14 \/ ip = 15 \/ ip = 16
  BY <1>1
<1>5. CASE ip = 13 \/ ip = 15
  BY <1>2, <1>5 DEF ActTuned, Onward
<1>6. CASE ip = 14
  BY <1>2, <1>3, <1>6, JumpsAt DEF ActTuned, Round
<1>7. CASE ip = 16
  BY <1>2, <1>3, <1>7, JumpsAt DEF ActTuned, Round
<1> QED
  BY <1>4, <1>5, <1>6, <1>7

LEMMA GwTunes ==
    ASSUME EngineTypeOK, Play, running', jump' = jump, ip \in 24 .. 32, GwTuned
    PROVE  GwTuned'
<1>1. ip # 32
  BY PlayOn DEF Returns
<1>2. /\ ip \in {24, 26, 28, 30} => Onward
      /\ ip = 25 => Round(2, 25)
      /\ ip = 27 => Round(0, 27)
      /\ ip = 29 => Round(3, 29)
      /\ ip = 31 => Round(1, 31)
  BY PlayOn DEF GwTuned, Straight
<1>3. \A c \in Cntrs : cntr[c] \in Nat
  BY PlayOn
<1>4. ip \in {24, 26, 28, 30} \/ ip = 25 \/ ip = 27 \/ ip = 29 \/ ip = 31
  BY <1>1
<1>5. CASE ip \in {24, 26, 28, 30}
  BY <1>2, <1>5 DEF GwTuned, Onward
<1>6. CASE ip = 25
  BY <1>2, <1>3, <1>6, JumpsAt DEF GwTuned, Round
<1>7. CASE ip = 27
  BY <1>2, <1>3, <1>7, JumpsAt DEF GwTuned, Round
<1>8. CASE ip = 29
  BY <1>2, <1>3, <1>8, JumpsAt DEF GwTuned, Round
<1>9. CASE ip = 31
  BY <1>2, <1>3, <1>9, JumpsAt DEF GwTuned, Round
<1> QED
  BY <1>4, <1>5, <1>6, <1>7, <1>8, <1>9

LEMMA B2bTunes ==
    ASSUME EngineTypeOK, Play, running', jump' = jump, reload' = reload, ip \in 89 .. 110, B2bTuned
    PROVE  B2bTuned'
<1>1. ip # 110
  BY PlayOn DEF Returns
<1>2. /\ ip \in (89 .. 96) \cup (98 .. 106) => Onward
      /\ ip = 97 => Round(1, 97)
      /\ ip = 107 => Round(2, 107)
      /\ ip = 108 => Round(0, 89)
      /\ ip = 109 => Round(3, 89)
  BY PlayOn DEF B2bTuned, Straight
<1>3. \A c \in Cntrs : cntr[c] \in Nat
  BY PlayOn
<1>4. ip \in (89 .. 96) \cup (98 .. 106) \/ ip = 97 \/ ip = 107 \/ ip = 108 \/ ip = 109
  BY <1>1
<1>5. CASE ip \in (89 .. 96) \cup (98 .. 106)
  BY <1>2, <1>5 DEF B2bTuned, Onward
<1>6. CASE ip = 97
  BY <1>2, <1>3, <1>6, JumpsAt DEF B2bTuned, Round
<1>7. CASE ip = 107
  BY <1>2, <1>3, <1>7, JumpsAt DEF B2bTuned, Round
<1>8. CASE ip = 108
  BY <1>2, <1>3, <1>8, JumpsAt DEF B2bTuned, Round
<1>9. CASE ip = 109
  BY <1>2, <1>3, <1>9, JumpsAt DEF B2bTuned, Round
<1> QED
  BY <1>4, <1>5, <1>6, <1>7, <1>8, <1>9

(* A write test: what its registers are, number by number.                 *)
WrNumbers(w, l, dm, i, c, j, rl) ==
    /\ j[0] = l /\ j[1] = 50 + dm
    /\ rl[1] = 48 /\ (i = 50 + dm \/ c[1] = 48)
    /\ l = (IF w = 1 THEN 33 ELSE 34) + dm /\ i >= l
    /\ IF w <= 2
       THEN /\ j[2] = (IF w = 1 THEN 37 ELSE 36) + dm
            /\ i = l \/ i >= (IF w = 1 THEN 37 ELSE 36) + dm
            /\ i \notin Returns => c[2] >= c[0] + (IF i = l THEN 1 ELSE 0)
       ELSE /\ c[2] = 0 /\ rl[2] = 0
            /\ j[3] = 35 + dm /\ rl[3] = w - 3
            /\ IF i = 35 + dm THEN c[3] <= w - 3 ELSE c[3] = w - 3

LEMMA WrTunedIs ==
    ASSUME Wlat \in 1 .. 25, label \in WriteTests
    PROVE  WrTuned <=> WrNumbers(Wlat, label, Dm(label), ip, cntr, jump, reload)
<1>1. WriteEntry = IF Wlat = 1 THEN 33 ELSE 34
  BY DEF WriteEntry, rw_wl_nop_cycles, WRITE_WL_1, WRITE
<1>2. Skip(label) = (IF Wlat = 1 THEN 37 ELSE 36) + Dm(label)
  BY DEF Skip, WRITE_DATA, WRITE_DQS
<1> DEFINE dm == Dm(label)
<1>3. WrTuned <=>
       /\ jump[0] = label /\ jump[1] = WRITE_WAIT + dm
       /\ reload[1] = 48 /\ (ip = WRITE_WAIT + dm \/ cntr[1] = 48)
       /\ label = WriteEntry + dm /\ ip >= label
       /\ IF Wlat <= 2
          THEN /\ jump[2] = Skip(label)
               /\ ip = label \/ ip >= Skip(label)
               /\ ip \notin Returns => cntr[2] >= cntr[0] + (IF ip = label THEN 1 ELSE 0)
          ELSE /\ cntr[2] = 0 /\ reload[2] = 0
               /\ jump[3] = WRITE_NOP + dm /\ reload[3] = Wlat - 3
               /\ IF ip = WRITE_NOP + dm THEN cntr[3] <= Wlat - 3 ELSE cntr[3] = Wlat - 3
  BY Zenon DEF WrTuned
<1> HIDE DEF dm
<1> QED
  BY <1>1, <1>2, <1>3 DEF WrNumbers, WRITE_WAIT, WRITE_NOP, dm

LEMMA WrTunes ==
    ASSUME EngineTypeOK, Play, running', jump' = jump, reload' = reload, label' = label,
           Wlat' = Wlat, Wlat \in 1 .. 25, label \in WriteTests, label \in Entries,
           ip \in Block(label), WrTuned
    PROVE  WrTuned'
<1> DEFINE w == Wlat
           l == label
           dm == Dm(label)
<1>1. WrNumbers(w, l, dm, ip, cntr, jump, reload)
  BY WrTunedIs
<1>2. SUFFICES WrNumbers(w, l, dm, ip', cntr', jump, reload)
  <2>1. Dm(label)' = dm /\ label' = l /\ Wlat' = w /\ jump' = jump /\ reload' = reload
    BY DEF Dm, WRITE, DmBlock
  <2>2. WriteEntry' = IF w = 1 THEN 33 ELSE 34
    BY <2>1 DEF WriteEntry, rw_wl_nop_cycles, WRITE_WL_1, WRITE
  <2>3. Skip(label)' = (IF w = 1 THEN 37 ELSE 36) + dm
    BY <2>1 DEF Skip, WRITE_DATA, WRITE_DQS
  <2> HIDE DEF w, l, dm
  <2>4. ASSUME WrNumbers(w, l, dm, ip', cntr', jump, reload) PROVE WrTuned'
    BY <2>1, <2>2, <2>3, <2>4 DEF WrTuned, WrNumbers, WRITE_WAIT, WRITE_NOP, Returns
  <2> QED
    BY <2>4
<1>3. w \in 1 .. 25 /\ dm \in {0, 20} /\ l - dm \in {33, 34} /\ ip - dm \in 33 .. 52
  BY BlocksOf
<1>4. /\ ip \notin Returns /\ ip \in Nat
      /\ ip \in (36 .. 49) \cup (56 .. 69) => Onward
      /\ \A c \in Cntrs : cntr[c] \in Nat /\ reload[c] \in Nat
      /\ ip \in {51, 71} => Round(0, jump[0])
      /\ ip \in {50, 70} => Round(1, jump[1])
      /\ ip \in {33, 34, 53, 54} => Round(2, jump[2])
      /\ ip \in {35, 55} => Round(3, jump[3])
  BY PlayOn
<1> HIDE DEF w, l, dm
<1>5. dm = 0 \/ dm = 20
  BY <1>3
<1>6. ip # 52 + dm
  BY <1>4, <1>5 DEF Returns
<1>7. \/ ip - dm \in 36 .. 49 \/ ip = 51 + dm \/ ip = 50 + dm \/ ip = 33 + dm \/ ip = 34 + dm
      \/ ip = 35 + dm
  BY <1>3, <1>4, <1>5, <1>6
<1>8. {52, 72} \subseteq Returns
  BY DEF Returns
<1>9. CASE ip - dm \in 36 .. 49
  <2>1. Onward
    BY <1>4, <1>5, <1>9
  <2>2. ip' = ip + 1 /\ cntr' = cntr /\ ip \notin Returns /\ ip' # l /\ ip # l
    BY <1>3, <1>4, <1>5, <1>9, <2>1 DEF Onward
  <2>3. ip \in Int /\ l \in Int /\ ip # 50 + dm /\ ip # 35 + dm /\ ip' # 35 + dm
    <3>1. l = (IF w = 1 THEN 33 ELSE 34) + dm
      BY <1>1 DEF WrNumbers
    <3> QED
      BY <1>3, <1>4, <1>5, <1>9, <2>2, <3>1
  <2>4. CASE w <= 2
    BY <1>1, <1>3, <1>4, <1>5, <2>2, <2>3, <2>4 DEF WrNumbers
  <2>5. CASE ~(w <= 2)
    BY <1>1, <1>3, <1>4, <1>5, <2>2, <2>3, <2>5 DEF WrNumbers
  <2> QED
    BY <2>4, <2>5
<1>10. CASE ip = 51 + dm
  <2>1. Round(0, l)
    BY <1>1, <1>4, <1>5, <1>10 DEF WrNumbers
  <2>2. ip = 51 + dm /\ ip # l /\ ip \notin Returns
    BY <1>3, <1>4, <1>5, <1>10
  <2>3. CASE cntr[0] # 0 /\ ip' = l /\ cntr'[0] = cntr[0] - 1
    BY <1>1, <1>3, <1>4, <1>5, <2>1, <2>2, <2>3, JumpsAt DEF WrNumbers, Round
  <2>4. CASE cntr[0] = 0 /\ ip' = ip + 1
    <3>1. ip' \in Returns
      BY <1>5, <1>8, <2>2, <2>4
    <3> QED
      BY <1>1, <1>3, <1>4, <1>5, <2>1, <2>2, <2>4, <3>1, JumpsAt DEF WrNumbers, Round
  <2> QED
    BY <2>1, <2>3, <2>4 DEF Round
<1>11. CASE ip = 50 + dm
  <2>1. Round(1, 50 + dm)
    BY <1>1, <1>4, <1>5, <1>11 DEF WrNumbers
  <2>2. ip = 50 + dm /\ ip # l /\ ip \notin Returns
    BY <1>3, <1>4, <1>5, <1>11
  <2> QED
    BY <1>1, <1>3, <1>4, <1>5, <2>1, <2>2, JumpsAt DEF WrNumbers, Round
<1>12. CASE ip = 33 + dm \/ ip = 34 + dm
  <2>1. Round(2, jump[2])
    BY <1>4, <1>5, <1>12
  <2>2. CASE w <= 2
    <3>1. ip = l /\ jump[2] = (IF w = 1 THEN 37 ELSE 36) + dm /\ cntr[2] >= cntr[0] + 1
      BY <1>1, <1>3, <1>4, <1>5, <1>12, <2>2 DEF WrNumbers
    <3>2. cntr[2] # 0 /\ ip' = jump[2] /\ cntr'[2] = cntr[2] - 1 /\ ip' # l
      BY <1>3, <1>4, <1>5, <2>1, <2>2, <3>1, JumpsAt DEF Round
    <3> QED
      BY <1>1, <1>3, <1>4, <1>5, <1>12, <2>1, <2>2, <3>1, <3>2, JumpsAt DEF WrNumbers, Round
  <2>3. CASE w > 2
    <3>1. ip = l /\ l = 34 + dm /\ cntr[2] = 0 /\ reload[2] = 0
      BY <1>1, <1>3, <1>4, <1>5, <1>12, <2>3 DEF WrNumbers
    <3>2. ip' = ip + 1 /\ cntr'[2] = 0
      BY <2>1, <3>1 DEF Round
    <3> QED
      BY <1>1, <1>3, <1>4, <1>5, <1>12, <2>1, <2>3, <3>1, <3>2, JumpsAt DEF WrNumbers, Round
  <2> QED
    BY <1>3, <2>2, <2>3
<1>13. CASE ip = 35 + dm
  <2>1. w > 2
    BY <1>1, <1>3, <1>4, <1>5, <1>13 DEF WrNumbers
  <2>2. Round(3, 35 + dm)
    BY <1>1, <1>4, <1>5, <1>13, <2>1 DEF WrNumbers
  <2>3. ip # l
    BY <1>3, <1>5, <1>13
  <2> QED
    BY <1>1, <1>3, <1>4, <1>5, <1>13, <2>1, <2>2, <2>3, JumpsAt DEF WrNumbers, Round
<1> QED
  BY <1>7, <1>9, <1>10, <1>11, <1>12, <1>13

(* What each part runs.                                                    *)
LEMMA BurstRuns ==
    ASSUME board \in Boards, NEW c \in Parts, NEW i \in 1 .. Len(Writes(c)),
           Writes(c)[i].op = "run"
    PROVE  LET a == Writes(c)[i].val
           IN /\ c.proc = "load_patterns" => a = GUARANTEED_WRITE
              /\ c.proc = "read_patterns" => a = GUARANTEED_READ
              /\ c.proc \in {"read_test", "read_all"} => a = READ_B2B
              /\ c.proc \in {"write_test", "write_test_dm"} => a \in WriteTests
              /\ c.proc = "clear" => a = CLEAR_DQS_ENABLE
              /\ c.proc # "odt_off"
<1>1. c.rank \in Nat
  BY DEF Parts
<1>2. CASE c.proc = "load_patterns"
  <2>1. Writes(c) = LoadPatternsRank(c.rank)
    BY <1>2 DEF Writes
  <2>2. Writes(c)[i].val = GUARANTEED_WRITE
    BY <2>1, PatternsIs
  <2> QED
    BY <1>2, <2>2
<1>3. CASE c.proc = "read_patterns"
  <2>1. Writes(c) = ReadPatternsRank(c.rank)
    BY <1>3 DEF Writes
  <2>2. Writes(c)[i].val = GUARANTEED_READ
    BY <1>1, <2>1, ReadPatternsIs
  <2> QED
    BY <1>3, <2>2
<1>4. CASE c.proc \in {"read_test", "read_all"}
  <2>1. Writes(c)[i].val = READ_B2B
    BY <1>4, ReadTestLoads
  <2> QED
    BY <1>4, <2>1
<1>5. CASE c.proc \in {"write_test", "write_test_dm"}
  <2>1. PICK dm \in {0, 20} : Writes(c) = WriteTestRank(c.rank, dm)
    <3>1. c.proc = "write_test" => Writes(c) = WriteTestRank(c.rank, 0)
      BY DEF Writes
    <3>2. c.proc = "write_test_dm" => Writes(c) = WriteTestRank(c.rank, 20)
      BY DEF Writes, DmBlock
    <3> QED
      BY <1>5, <3>1, <3>2
  <2>2. Writes(c)[i].val \in WriteTests
    BY <1>1, <2>1, WriteTestIs
  <2> QED
    BY <1>5, <2>2
<1>6. CASE c.proc \in {"clear", "odt_off"}
  <2>1. c.proc = "clear" => /\ Len(Writes(c)) = 2
                            /\ Writes(c)[1] = RunReg(CLEAR_DQS_ENABLE) /\ Writes(c)[2] = SelectOff(0)
    BY OtherParts
  <2>2. c.proc = "odt_off" => Len(Writes(c)) = 1 /\ Writes(c)[1] = SelectOff(0)
    BY OtherParts
  <2> DEFINE n == Len(Writes(c))
  <2>3. i \in 1 .. n /\ (c.proc = "clear" => n = 2) /\ (c.proc = "odt_off" => n = 1)
    BY <2>1, <2>2
  <2> HIDE DEF n
  <2>4. c.proc = "clear" => i = 1 \/ i = 2
    BY <2>3
  <2>5. c.proc = "odt_off" => i = 1
    BY <2>3
  <2> QED
    BY <1>6, <2>1, <2>2, <2>4, <2>5, WritesAre
<1> QED
  BY <1>2, <1>3, <1>4, <1>5, <1>6

(* A run starts with the registers that its part has given it.             *)
LEMMA TunedRun ==
    ASSUME CommandInv, KeptInv, Write
    PROVE  TunedInv'
<1> SUFFICES ASSUME running' PROVE TunedInv'
  BY DEF TunedInv
<1>1. PICK c, s : Moves(c, s)
  BY Moving
<1>2. /\ c \in Parts /\ c = Head(calls) /\ s = Writes(c) /\ calls # <<>>
      /\ at \in 1 .. Len(s) /\ Len(s) \in Nat
      /\ Register(s, at - 1) /\ Exact(s, at)
      /\ s[at].op = "run" => /\ Run(s[at].val) /\ May(c.proc, s[at].val)
                             /\ label' = s[at].val /\ ip' = s[at].val
      /\ s[at].op # "run" => ~running'
  BY Zenon, <1>1 DEF Moves
<1>3. PICK a : a = s[at].val
  OBVIOUS
<1>4. s[at].op = "run" /\ label' = a /\ ip' = a /\ Run(a) /\ May(c.proc, a)
  BY <1>2, <1>3
<1>5. /\ cntr' = cntr /\ reload' = reload /\ jump' = jump /\ ~running
  BY <1>4 DEF Run
<1>6. /\ \A k \in Cntrs, x \in Addresses : AimedTo(s, at - 1, k, x) => jump[k] = x
      /\ \A k \in Cntrs, v \in 0 .. MaxCntr : Loaded(s, at - 1, k, v) => cntr[k] = v /\ reload[k] = v
  BY <1>2 DEF Register, AimedTo
<1>7. 0 .. 255 \subseteq 0 .. MaxCntr /\ 0 .. 126 = Addresses /\ MaxCntr \in Nat
  BY CntrAssumption, CommandsAssumption DEF Addresses
<1>8. ASSUME NEW k \in Cntrs
      PROVE  /\ \A x \in 0 .. 126 : AimedTo(s, at - 1, k, x) => jump'[k] = x
             /\ \A v \in 0 .. 255 : Loaded(s, at - 1, k, v) => cntr'[k] = v /\ reload'[k] = v
  BY <1>5, <1>6, <1>7
<1>9. board \in Boards /\ Wlat' = Wlat /\ Wlat \in 1 .. 25
  BY WriteStays, BoardTimes
<1>10. \A x \in {ACTIVATE_0_AND_1, GUARANTEED_WRITE, GUARANTEED_READ, READ_B2B} :
          x \notin WriteTests
  BY RunLabels DEF ACTIVATE_0_AND_1, GUARANTEED_WRITE, GUARANTEED_READ, READ_B2B
<1>11. ASSUME a = ACTIVATE_0_AND_1 PROVE ActTuned'
  <2>1. ActivateExact(s, at - 1)
    BY <1>2, <1>3, <1>4, <1>11 DEF Exact, ACTIVATE_0_AND_1, PRECHARGE_ALL, Modes
  <2> QED
    BY <1>4, <1>8, <2>1, JumpsAt DEF ActTuned, ActivateExact
<1>12. ASSUME a = GUARANTEED_WRITE PROVE GwTuned'
  <2>1. PatternExact(s, at - 1)
    BY <1>2, <1>3, <1>4, <1>12 DEF Exact, ACTIVATE_0_AND_1, PRECHARGE_ALL, Modes, GUARANTEED_WRITE
  <2> QED
    BY <1>4, <1>8, <2>1, JumpsAt DEF GwTuned, PatternExact
<1>13. ASSUME a = GUARANTEED_READ PROVE GrTuned'
  <2>1. AimedTo(s, at - 1, 0, 76) /\ AimedTo(s, at - 1, 1, 84)
    BY <1>2, <1>3, <1>4, <1>13 DEF Exact, ACTIVATE_0_AND_1, PRECHARGE_ALL, Modes, GUARANTEED_READ,
          GUARANTEED_WRITE
  <2> QED
    BY <1>4, <1>8, <2>1, JumpsAt DEF GrTuned
<1>14. ASSUME a = READ_B2B PROVE B2bTuned'
  <2>1. /\ at - 1 > 4
        /\ AimedTo(s, at - 1, 0, 89) /\ AimedTo(s, at - 1, 1, 97)
        /\ AimedTo(s, at - 1, 2, 107) /\ AimedTo(s, at - 1, 3, 89)
    BY <1>2, <1>3, <1>4, <1>14 DEF Exact, ACTIVATE_0_AND_1, PRECHARGE_ALL, Modes, GUARANTEED_READ,
          GUARANTEED_WRITE, READ_B2B
  <2>2. c.proc \in {"read_test", "read_all"}
    <3>1. PICK n : n = at
      OBVIOUS
    <3>2. n \in 1 .. Len(Writes(c)) /\ Writes(c)[n].op = "run" /\ Writes(c)[n].val = READ_B2B
      BY <1>2, <1>3, <1>4, <1>14, <3>1
    <3>3. c.proc \in OdtProcs \cup {"clear"}
      BY <1>4, <1>14, RunLabels
         DEF May, READ_B2B, IDLE_LOOP1, Modes, HandRuns, Rows, PRECHARGE_ALL, ACTIVATE_0_AND_1
    <3>4. READ_B2B \notin WriteTests
      BY <1>10
    <3>5. LET b == Writes(c)[n].val
          IN /\ c.proc = "load_patterns" => b = GUARANTEED_WRITE
             /\ c.proc = "read_patterns" => b = GUARANTEED_READ
             /\ c.proc \in {"write_test", "write_test_dm"} => b \in WriteTests
             /\ c.proc = "clear" => b = CLEAR_DQS_ENABLE
      BY <1>2, <1>9, <3>2, BurstRuns
    <3>6. GUARANTEED_WRITE # READ_B2B /\ GUARANTEED_READ # READ_B2B /\ CLEAR_DQS_ENABLE # READ_B2B
      BY DEF READ_B2B, GUARANTEED_READ, GUARANTEED_WRITE, CLEAR_DQS_ENABLE
    <3> QED
      BY <3>2, <3>3, <3>4, <3>5, <3>6 DEF OdtProcs, ReadProcs
  <2>3. at > 4
    BY <1>2, <2>1
  <2>4. reload[2] = 16 /\ cntr[2] = 16
    BY <1>2, <1>5, <2>2, <2>3 DEF KeptInv
  <2> QED
    BY <1>4, <1>5, <1>8, <2>1, <2>4, JumpsAt DEF B2bTuned
<1>15. ASSUME a \in WriteTests PROVE WrTuned'
  <2>1. WriteExact(s, at - 1, a)
    <3>1. s[at].val \in WriteTests /\ s[at].op = "run"
      BY <1>3, <1>4, <1>15
    <3>2. s[at].val \in WriteTests => WriteExact(s, at - 1, s[at].val)
      BY Zenon, <1>2, <3>1 DEF Exact
    <3> QED
      BY <1>3, <3>1, <3>2
  <2>2. /\ a = WriteEntry + Dm(a)
        /\ AimedTo(s, at - 1, 0, a) /\ AimedTo(s, at - 1, 1, WRITE_WAIT + Dm(a))
        /\ Loaded(s, at - 1, 1, 48)
        /\ IF Wlat <= 2
           THEN /\ Loaded(s, at - 1, 0, WriteLoops) /\ Loaded(s, at - 1, 2, 255)
                /\ AimedTo(s, at - 1, 2, Skip(a))
           ELSE /\ Loaded(s, at - 1, 2, 0) /\ Loaded(s, at - 1, 3, Wlat - 3)
                /\ AimedTo(s, at - 1, 3, WRITE_NOP + Dm(a))
    BY <2>1 DEF WriteExact
  <2>3. /\ Dm(a) \in {0, 20} /\ a \in 0 .. 126
        /\ Skip(a) = (IF Wlat = 1 THEN 37 ELSE 36) + Dm(a)
        /\ WriteEntry = IF Wlat = 1 THEN 33 ELSE 34
    BY <1>15, RunLabels DEF Dm, DmBlock, Skip, WRITE_DATA, WRITE_DQS, WriteEntry, rw_wl_nop_cycles,
          WRITE_WL_1, WRITE
  <2>4. Dm(label)' = Dm(a) /\ WriteEntry' = WriteEntry /\ Skip(label)' = Skip(a)
    BY <1>4, <1>9 DEF Dm, DmBlock, Skip, WRITE_DATA, WRITE_DQS, WriteEntry, rw_wl_nop_cycles,
          WRITE_WL_1, WRITE
  <2>5. jump'[0] = a /\ jump'[1] = 50 + Dm(a) /\ cntr'[1] = 48 /\ reload'[1] = 48
    BY <1>8, <2>2, <2>3, JumpsAt DEF WRITE_WAIT
  <2>6. CASE Wlat <= 2
    <3>1. jump'[2] = Skip(a) /\ cntr'[2] = 255 /\ cntr'[0] = WriteLoops /\ WriteLoops \in 0 .. 254
      BY <1>8, <1>9, <2>2, <2>3, <2>6, JumpsAt, CommandsAssumption
    <3> QED
      BY <1>4, <1>9, <2>2, <2>3, <2>4, <2>5, <2>6, <3>1 DEF WrTuned, WRITE_WAIT
  <2>7. CASE ~(Wlat <= 2)
    <3>1. /\ cntr'[2] = 0 /\ reload'[2] = 0 /\ cntr'[3] = Wlat - 3 /\ reload'[3] = Wlat - 3
          /\ jump'[3] = 35 + Dm(a)
      BY <1>8, <1>9, <2>2, <2>3, <2>7, JumpsAt DEF WRITE_NOP
    <3> QED
      BY <1>4, <1>9, <2>2, <2>3, <2>4, <2>5, <2>7, <3>1 DEF WrTuned, WRITE_WAIT, WRITE_NOP
  <2> QED
    BY <2>6, <2>7
<1>16. (WriteTests)' = WriteTests
  BY DEF WriteTests, WRITE_WL_1, WRITE, DmBlock
<1> QED
  BY <1>4, <1>11, <1>12, <1>13, <1>14, <1>15
     DEF TunedInv, ACTIVATE_0_AND_1, GUARANTEED_WRITE, GUARANTEED_READ, READ_B2B, WriteTests,
         WRITE_WL_1, WRITE, DmBlock

LEMMA TunedStep ==
    ASSUME CommandInv, TunedInv, KeptInv, [CNext]_vars
    PROVE  TunedInv'
<1>1. CASE UNCHANGED vars
  <2>1. /\ running' = running /\ label' = label /\ ip' = ip /\ cntr' = cntr /\ reload' = reload
        /\ jump' = jump /\ Wlat' = Wlat
    BY <1>1, Stays
  <2>2. WrTuned' <=> WrTuned
    BY <2>1 DEF WrTuned, WriteEntry, rw_wl_nop_cycles, Skip, Dm, WRITE_WL_1, WRITE, DmBlock,
          WRITE_DATA, WRITE_DQS, WRITE_WAIT, WRITE_NOP, Returns
  <2>3. ActTuned' <=> ActTuned
    BY <2>1 DEF ActTuned
  <2>4. GwTuned' <=> GwTuned
    BY <2>1 DEF GwTuned
  <2>5. (GrTuned' <=> GrTuned) /\ (B2bTuned' <=> B2bTuned)
    BY <2>1 DEF GrTuned, B2bTuned
  <2>6. (WriteTests)' = WriteTests
    BY DEF WriteTests, WRITE_WL_1, WRITE, DmBlock
  <2> QED
    BY <2>1, <2>2, <2>3, <2>4, <2>5, <2>6
       DEF TunedInv, ACTIVATE_0_AND_1, GUARANTEED_WRITE, GUARANTEED_READ, READ_B2B
<1>2. CASE Clocked
  <2> SUFFICES ASSUME running' PROVE TunedInv'
    BY DEF TunedInv
  <2>1. /\ label' = label /\ jump' = jump /\ reload' = reload /\ Wlat' = Wlat
        /\ running /\ Play /\ EngineTypeOK /\ label \in Entries /\ ip \in Block(label)
        /\ board \in Boards
    BY <1>2, Clocking
  <2>2. Wlat \in 1 .. 25
    BY <2>1, BoardTimes
  <2>3. /\ label = ACTIVATE_0_AND_1 => ip \in 13 .. 17
        /\ label = GUARANTEED_WRITE => ip \in 24 .. 32
        /\ label = READ_B2B => ip \in 89 .. 110
    BY <2>1, BlocksOf
  <2>4. /\ label = ACTIVATE_0_AND_1 => ActTuned
        /\ label = GUARANTEED_WRITE => GwTuned
        /\ label = GUARANTEED_READ => GrTuned
        /\ label = READ_B2B => B2bTuned
        /\ label \in WriteTests => WrTuned
    BY <2>1 DEF TunedInv
  <2>5. label = ACTIVATE_0_AND_1 => ActTuned'
    BY <2>1, <2>3, <2>4, ActTunes
  <2>6. label = GUARANTEED_WRITE => GwTuned'
    BY <2>1, <2>3, <2>4, GwTunes
  <2>7. label = GUARANTEED_READ => GrTuned'
    BY <2>1, <2>4 DEF GrTuned
  <2>8. label = READ_B2B => B2bTuned'
    BY <2>1, <2>3, <2>4, B2bTunes
  <2>9. label \in WriteTests => WrTuned'
    BY <2>1, <2>2, <2>4, WrTunes
  <2>10. (WriteTests)' = WriteTests
    BY DEF WriteTests, WRITE_WL_1, WRITE, DmBlock
  <2> QED
    BY <2>1, <2>5, <2>6, <2>7, <2>8, <2>9, <2>10
       DEF TunedInv, ACTIVATE_0_AND_1, GUARANTEED_WRITE, GUARANTEED_READ, READ_B2B
<1>3. CASE Procedures
  BY <1>3, Beginning DEF TunedInv
<1> QED
  BY <1>1, <1>2, <1>3, TunedRun DEF CNext

(* Counter 2 of a read test.                                               *)
LEMMA KeptStep ==
    ASSUME CommandInv, StageInv, TunedInv, KeptInv, [CNext]_vars
    PROVE  KeptInv'
<1>1. CASE UNCHANGED vars
  BY <1>1, Stays DEF KeptInv
<1>2. CASE Procedures
  BY <1>2, Beginning DEF KeptInv
<1>3. CASE Write
  <2>1. PICK c, s : Moves(c, s)
    BY <1>3, Moving
  <2>2. PICK d \in {0, 1} :
                /\ Len(calls') = Len(calls) - d /\ Len(calls) \in Nat \ {0}
                /\ \A i \in 1 .. Len(calls') : calls'[i] = calls[i + d] /\ i + d \in 1 .. Len(calls)
                /\ IF d = 0 THEN /\ at < Len(s) /\ at' = at + 1 /\ calls' = calls
                                 /\ Writes(Head(calls))' = s
                            ELSE at = Len(s) /\ at' = 1
    BY <2>1, Remain
  <2>3. /\ c \in Parts /\ c = Head(calls) /\ s = Writes(c) /\ calls # <<>>
        /\ at \in 1 .. Len(s) /\ Len(s) \in Nat /\ Effect(s[at])
    BY Zenon, <2>1 DEF Moves
  <2> SUFFICES ASSUME Head(calls').proc \in {"read_test", "read_all"}, at' > 4
               PROVE  reload'[2] = 16 /\ cntr'[2] = 16
    BY DEF KeptInv
  <2>4. d = 0 /\ at >= 4 /\ at' = at + 1 /\ c.proc \in {"read_test", "read_all"}
    BY <2>2, <2>3
  <2>5. /\ board \in Boards /\ ~running /\ EngineTypeOK
    BY <1>3, WriteStays
  <2>6. /\ at > 4 => ~(s[at].op = "cntr" /\ s[at].reg = 2)
        /\ at = 4 => s[at] = LoadCntrReg(2, 16)
    <3>1. PICK n : n = at
      OBVIOUS
    <3>2. n \in 1 .. Len(Writes(c))
      BY <2>3, <3>1
    <3>3. /\ n > 4 => ~(Writes(c)[n].op = "cntr" /\ Writes(c)[n].reg = 2)
          /\ n = 4 => Writes(c)[n] = LoadCntrReg(2, 16)
      BY <2>4, <2>5, <3>2, <2>3, ReadTestLoads
    <3> QED
      BY <2>3, <3>1, <3>3
  <2>7. CASE at = 4
    <3>1. LoadCntr(2, 16)
      BY <2>3, <2>6, <2>7 DEF Effect, LoadCntrReg
    <3> QED
      BY <2>5, <3>1, JumpsAt DEF LoadCntr, EngineTypeOK
  <2>8. CASE at # 4
    <3>1. at > 4
      BY <2>3, <2>4, <2>8
    <3>2. reload[2] = 16 /\ cntr[2] = 16
      BY <2>3, <2>4, <2>5, <3>1 DEF KeptInv
    <3>3. CASE s[at].op = "cntr"
      <4>1. LoadCntr(s[at].reg, s[at].val) /\ s[at].reg # 2
        BY <2>3, <2>6, <3>1, <3>3 DEF Effect
      <4> QED
        BY <2>5, <3>2, <4>1, JumpsAt DEF LoadCntr, EngineTypeOK
    <3>4. CASE s[at].op # "cntr"
      <4>1. cntr' = cntr /\ reload' = reload
        BY <2>3, <3>4 DEF Effect, LoadJump, Run, Select, engineVars
      <4> QED
        BY <3>2, <4>1
    <3> QED
      BY <3>3, <3>4
  <2> QED
    BY <2>7, <2>8
<1>4. CASE Clocked
  <2>1. /\ calls' = calls /\ at' = at /\ reload' = reload
        /\ running /\ Play /\ EngineTypeOK /\ label \in Entries /\ ip \in Block(label)
        /\ board \in Boards /\ calls \in Seq(Parts)
    BY <1>4, Clocking
  <2> SUFFICES ASSUME calls # <<>>, Head(calls).proc \in {"read_test", "read_all"}, at > 4, ~running'
               PROVE  reload[2] = 16 /\ cntr'[2] = 16
    BY <2>1 DEF KeptInv
  <2>2. reload[2] = 16
    BY DEF KeptInv
  <2>3. ip \in Returns /\ cntr' = cntr
    BY <2>1, PlayEnds
  <2>4. label = READ_B2B
    <3>1. PICK c \in Parts : c = Head(calls)
      BY <2>1
    <3>2. PICK n : n = at - 1
      OBVIOUS
    <3>3. at \in 1 .. Len(Writes(Head(calls)))
      BY NextWrite DEF CommandInv
    <3>4. n \in 1 .. Len(Writes(c)) /\ at > 1
      <4> DEFINE m == Len(Writes(c))
      <4>1. at \in 1 .. m
        BY <3>1, <3>3
      <4>2. m \in Nat
        BY <2>1, <3>1, PartIs
      <4> HIDE DEF m
      <4>3. n \in 1 .. m /\ at > 1
        BY <3>2, <4>1, <4>2
      <4> QED
        BY <4>3 DEF m
    <3>5. Writes(c)[n] = RunReg(label)
      BY <2>1, <3>1, <3>2, <3>4 DEF StageInv
    <3>6. Writes(c)[n].op = "run" /\ Writes(c)[n].val = label
      BY <3>5 DEF RunReg
    <3> QED
      BY <2>1, <3>1, <3>4, <3>6, ReadTestLoads
  <2>5. B2bTuned
    BY <2>1, <2>4 DEF TunedInv
  <2>6. ip # 107
    BY <2>3 DEF Returns
  <2> QED
    BY <2>2, <2>3, <2>5, <2>6 DEF B2bTuned
<1> QED
  BY <1>1, <1>2, <1>3, <1>4 DEF CNext

(* What the words of the ROM say where the runs of the parts go.           *)
Sends(a, k, b, c) ==
    LET x == Decode(AcWord(a)) IN x.kind = k /\ x.bank = b /\ x.col = c

Silent(a) == Decode(AcWord(a)).kind = "none"

LEMMA SaysNothing ==
    \A w \in {"des", "des_odt_1", "nop", "read_en", "write_data", "write_predata",
              "write_postdata"} : Decode(w).kind = "none"
<1> TAKE w \in {"des", "des_odt_1", "nop", "read_en", "write_data", "write_predata",
                "write_postdata"}
<1>1. Decode(w) = NoCommand
  BY DEF Decode
<1> QED
  BY <1>1 DEF NoCommand

LEMMA SaysBurst ==
    /\ Decode("act_0") = At("act", 0, 0) /\ Decode("act_1") = At("act", 1, 0)
    /\ \A w \in {"write_bank_0_col_0", "write_bank_0_col_0_nodata",
                 "write_bank_0_col_0_nodata_wl_1"} : Decode(w) = At("write", 0, 0)
    /\ Decode("write_bank_0_col_1") = At("write", 0, 1)
    /\ Decode("write_bank_1_col_0") = At("write", 1, 0)
    /\ Decode("write_bank_1_col_1") = At("write", 1, 1)
    /\ Decode("read_bank_0_0") = At("read", 0, 0)
    /\ \A w \in {"read_bank_0_1", "read_bank_0_1_norden"} : Decode(w) = At("read", 0, 1)
    /\ Decode("read_bank_1_0") = At("read", 1, 0)
    /\ Decode("read_bank_1_1") = At("read", 1, 1)
<1>1. Decode("act_0") = At("act", 0, 0)
  BY DEF Decode
<1>2. Decode("act_1") = At("act", 1, 0)
  BY DEF Decode
<1>3. \A w \in {"write_bank_0_col_0", "write_bank_0_col_0_nodata",
                 "write_bank_0_col_0_nodata_wl_1"} : Decode(w) = At("write", 0, 0)
  BY DEF Decode
<1>4. Decode("write_bank_0_col_1") = At("write", 0, 1)
  BY DEF Decode
<1>5. Decode("write_bank_1_col_0") = At("write", 1, 0)
  BY DEF Decode
<1>6. Decode("write_bank_1_col_1") = At("write", 1, 1)
  BY DEF Decode
<1>7. Decode("read_bank_0_0") = At("read", 0, 0)
  BY DEF Decode
<1>8. \A w \in {"read_bank_0_1", "read_bank_0_1_norden"} : Decode(w) = At("read", 0, 1)
  BY DEF Decode
<1>9. Decode("read_bank_1_0") = At("read", 1, 0)
  BY DEF Decode
<1>10. Decode("read_bank_1_1") = At("read", 1, 1)
  BY DEF Decode
<1> QED
  BY <1>1, <1>2, <1>3, <1>4, <1>5, <1>6, <1>7, <1>8, <1>9, <1>10

LEMMA AtIs ==
    ASSUME NEW k, NEW b, NEW c
    PROVE  At(k, b, c).kind = k /\ At(k, b, c).bank = b /\ At(k, b, c).col = c
BY DEF At, NoCommand

(* The rows are opened one after the other.                                *)
LEMMA RomRows ==
    /\ Sends(13, "act", 0, 0) /\ Sends(15, "act", 1, 0)
    /\ Silent(1) /\ Silent(14) /\ Silent(16) /\ Silent(17) /\ Silent(19)
<1>1. \A a \in 1 .. 19 : AcWord(a) = FirstWords[a + 1]
  BY WordAt DEF AcWord
<1>2. /\ FirstWords[2] = "des" /\ FirstWords[14] = "act_0" /\ FirstWords[15] = "des"
      /\ FirstWords[16] = "act_1" /\ FirstWords[17] = "des" /\ FirstWords[18] = "des"
      /\ FirstWords[20] = "des"
  BY DEF FirstWords
<1>3. /\ AcWord(1) = "des" /\ AcWord(13) = "act_0" /\ AcWord(14) = "des" /\ AcWord(15) = "act_1"
      /\ AcWord(16) = "des" /\ AcWord(17) = "des" /\ AcWord(19) = "des"
  BY <1>1, <1>2
<1> QED
  BY <1>3, SaysNothing, SaysBurst, AtIs DEF Sends, Silent

(* The patterns are written, with pauses of a clock and more.              *)
LEMMA RomGuaranteed ==
    /\ Sends(24, "write", 0, 1) /\ Sends(26, "write", 1, 0)
    /\ Sends(28, "write", 1, 1) /\ Sends(30, "write", 0, 0)
    /\ \A a \in {25, 27, 29, 31, 32} : Silent(a)
<1>1. \A a \in 24 .. 32 : AcWord(a) = FirstWords[a + 1]
  BY WordAt DEF AcWord
<1>2. /\ FirstWords[25] = "write_bank_0_col_1" /\ FirstWords[26] = "write_data"
      /\ FirstWords[27] = "write_bank_1_col_0" /\ FirstWords[28] = "write_data"
      /\ FirstWords[29] = "write_bank_1_col_1" /\ FirstWords[30] = "write_data"
      /\ FirstWords[31] = "write_bank_0_col_0" /\ FirstWords[32] = "write_data"
      /\ FirstWords[33] = "des"
  BY DEF FirstWords
<1>3. /\ AcWord(24) = "write_bank_0_col_1" /\ AcWord(25) = "write_data"
      /\ AcWord(26) = "write_bank_1_col_0" /\ AcWord(27) = "write_data"
      /\ AcWord(28) = "write_bank_1_col_1" /\ AcWord(29) = "write_data"
      /\ AcWord(30) = "write_bank_0_col_0" /\ AcWord(31) = "write_data"
      /\ AcWord(32) = "des"
  BY <1>1, <1>2
<1>4. /\ Sends(24, "write", 0, 1) /\ Sends(26, "write", 1, 0)
      /\ Sends(28, "write", 1, 1) /\ Sends(30, "write", 0, 0)
  BY <1>3, SaysBurst, AtIs DEF Sends
<1>5. ASSUME NEW a \in {25, 27, 29, 31, 32} PROVE Silent(a)
  BY <1>3, SaysNothing DEF Silent
<1> QED
  BY <1>4, <1>5

(* The middle of the ROM holds the words of a write test twice.            *)
LEMMA MiddleAt ==
    ASSUME NEW j \in 1 .. 20, NEW m \in {0, 20}
    PROVE  AcWords[33 + m + j] = WriteReadWords[j]
<1> DEFINE f == FirstWords
           w == WriteReadWords
           z == LastWords
           fw == f \o w
           fww == fw \o w
           acs == fww \o z
<1>1. f \in Seq(Words) /\ w \in Seq(Words) /\ z \in Seq(Words)
  BY WordsAre
<1>2. Len(f) = 33 /\ Len(w) = 20 /\ Len(z) = 54
  BY WordsAre
<1>3. AcWords = acs
  BY Zenon DEF AcWords, acs, fww, fw, f, w, z
<1> HIDE DEF f, w, z
<1>4. /\ fw \in Seq(Words) /\ Len(fw) = Len(f) + Len(w)
      /\ \A k \in 1 .. Len(w) : fw[Len(f) + k] = w[k]
  BY <1>1, Joined
<1> HIDE DEF fw
<1>5. /\ fww \in Seq(Words) /\ Len(fww) = Len(fw) + Len(w)
      /\ \A k \in 1 .. Len(fw) : fww[k] = fw[k]
      /\ \A k \in 1 .. Len(w) : fww[Len(fw) + k] = w[k]
  <2>1. fw \in Seq(Words) /\ w \in Seq(Words)
    BY <1>1, <1>4
  <2> QED
    BY <2>1, Joined
<1> HIDE DEF fww
<1>6. \A k \in 1 .. Len(fww) : acs[k] = fww[k]
  BY <1>1, <1>5, Joined
<1> HIDE DEF acs
<1>7. Len(fw) = 53
  BY <1>2, <1>4
<1>8. Len(fww) = 73
  BY <1>2, <1>5, <1>7
<1>9. 33 + m + j \in 1 .. 73
  OBVIOUS
<1>10. acs[33 + m + j] = fww[33 + m + j]
  BY <1>6, <1>8, <1>9
<1>11. fww[33 + m + j] = w[j]
  <2>1. CASE m = 0
    <3>1. fw[33 + j] = w[j]
      BY <1>2, <1>4
    <3>3. 33 + j \in 1 .. 53
      OBVIOUS
    <3>2. fww[33 + j] = fw[33 + j]
      BY <1>5, <1>7, <3>3
    <3>4. 33 + m + j = 33 + j
      BY <2>1
    <3> QED
      BY <3>1, <3>2, <3>4
  <2>2. CASE m = 20
    <3>1. fww[53 + j] = w[j]
      BY <1>2, <1>5, <1>7
    <3>2. 33 + m + j = 53 + j
      BY <2>2
    <3> QED
      BY <3>1, <3>2
  <2> QED
    BY <2>1, <2>2
<1> QED
  BY <1>3, <1>10, <1>11 DEF w

(* A write test: a command that writes, and one that reads.                *)
LEMMA RomWriteTest ==
    ASSUME NEW m \in {0, 20}
    PROVE  /\ Sends(33 + m, "write", 0, 0) /\ Sends(34 + m, "write", 0, 0)
           /\ Sends(46 + m, "read", 0, 0)
           /\ \A x \in (35 .. 45) \cup (47 .. 52) : Silent(x + m)
<1>1. \A x \in 33 .. 52 : AcWord(x + m) = WriteReadWords[x - 32]
  <2> TAKE x \in 33 .. 52
  <2>1. x - 32 \in 1 .. 20 /\ 33 + m + (x - 32) = x + m + 1
    OBVIOUS
  <2>2. AcWords[33 + m + (x - 32)] = WriteReadWords[x - 32]
    BY <2>1, MiddleAt
  <2> QED
    BY <2>1, <2>2 DEF AcWord
<1>2. /\ WriteReadWords[1] = "write_bank_0_col_0_nodata_wl_1"
      /\ WriteReadWords[2] = "write_bank_0_col_0_nodata"
      /\ WriteReadWords[14] = "read_bank_0_0"
      /\ \A i \in (3 .. 13) \cup (15 .. 20) : WriteReadWords[i] \in
             {"des", "des_odt_1", "nop", "read_en", "write_data", "write_predata", "write_postdata"}
  BY DEF WriteReadWords
<1>3. /\ AcWord(33 + m) = "write_bank_0_col_0_nodata_wl_1"
      /\ AcWord(34 + m) = "write_bank_0_col_0_nodata"
      /\ AcWord(46 + m) = "read_bank_0_0"
  BY <1>1, <1>2
<1>4. /\ Sends(33 + m, "write", 0, 0) /\ Sends(34 + m, "write", 0, 0)
      /\ Sends(46 + m, "read", 0, 0)
  BY <1>3, SaysBurst, AtIs DEF Sends
<1>5. ASSUME NEW x \in (35 .. 45) \cup (47 .. 52) PROVE Silent(x + m)
  <2>1. AcWord(x + m) = WriteReadWords[x - 32] /\ x - 32 \in (3 .. 13) \cup (15 .. 20)
    BY <1>1
  <2>2. AcWord(x + m) \in
             {"des", "des_odt_1", "nop", "read_en", "write_data", "write_predata", "write_postdata"}
    BY <1>2, <2>1
  <2> QED
    BY <2>2, SaysNothing DEF Silent
<1> QED
  BY <1>4, <1>5

(* The reads of the patterns, and those that need no data.                 *)
LEMMA RomReads ==
    /\ \A a \in {73, 76, 80, 84, 98, 106} : Sends(a, "read", 0, 1)
    /\ Sends(89, "read", 0, 0) /\ Sends(93, "read", 1, 0) /\ Sends(102, "read", 1, 1)
    /\ \A a \in (73 .. 110) \ {73, 76, 80, 84, 89, 93, 98, 102, 106} : Silent(a)
<1>1. \A a \in 73 .. 110 : AcWord(a) = LastWords[a - 72]
  <2> TAKE a \in 73 .. 110
  <2>1. a - 72 \in 1 .. 54 /\ 73 + (a - 72) = a + 1
    OBVIOUS
  <2> QED
    BY <2>1, WordAt DEF AcWord
<1>2. /\ LastWords[1] = "read_bank_0_1_norden" /\ LastWords[4] = "read_bank_0_1_norden"
      /\ LastWords[8] = "read_bank_0_1" /\ LastWords[12] = "read_bank_0_1_norden"
      /\ LastWords[17] = "read_bank_0_0" /\ LastWords[21] = "read_bank_1_0"
      /\ LastWords[26] = "read_bank_0_1" /\ LastWords[30] = "read_bank_1_1"
      /\ LastWords[34] = "read_bank_0_1_norden"
      /\ \A i \in (1 .. 38) \ {1, 4, 8, 12, 17, 21, 26, 30, 34} : LastWords[i] \in
             {"des", "des_odt_1", "nop", "read_en", "write_data", "write_predata", "write_postdata"}
  BY DEF LastWords
<1>3. /\ AcWord(73) = "read_bank_0_1_norden" /\ AcWord(76) = "read_bank_0_1_norden"
      /\ AcWord(80) = "read_bank_0_1" /\ AcWord(84) = "read_bank_0_1_norden"
      /\ AcWord(89) = "read_bank_0_0" /\ AcWord(93) = "read_bank_1_0"
      /\ AcWord(98) = "read_bank_0_1" /\ AcWord(102) = "read_bank_1_1"
      /\ AcWord(106) = "read_bank_0_1_norden"
  BY <1>1, <1>2
<1>4. \A a \in {73, 76, 80, 84, 98, 106} : Sends(a, "read", 0, 1)
  BY <1>3, SaysBurst, AtIs DEF Sends
<1>5. Sends(89, "read", 0, 0) /\ Sends(93, "read", 1, 0) /\ Sends(102, "read", 1, 1)
  BY <1>3, SaysBurst, AtIs DEF Sends
<1>6. ASSUME NEW a \in (73 .. 110) \ {73, 76, 80, 84, 89, 93, 98, 102, 106} PROVE Silent(a)
  <2>1. AcWord(a) = LastWords[a - 72] /\ a - 72 \in (1 .. 38) \ {1, 4, 8, 12, 17, 21, 26, 30, 34}
    BY <1>1
  <2>2. AcWord(a) \in
             {"des", "des_odt_1", "nop", "read_en", "write_data", "write_predata", "write_postdata"}
    BY <1>2, <2>1
  <2> QED
    BY <2>2, SaysNothing DEF Silent
<1> QED
  BY <1>4, <1>5, <1>6

(* The mode registers, which each word names, and for which lines.         *)
LEMMA RomModes ==
    /\ \A a \in Registers :
          LET x == Decode(AcWord(a))
          IN /\ x.kind = "mrs" /\ x.mr = MrOf(a) /\ x.value # "none"
             /\ x.mirrored <=> a \in Mirrors
    /\ Decode(AcWord(ZQCL)).kind = "zqcl" /\ Decode(AcWord(PRECHARGE_ALL)).kind = "pre"
<1>1. \A a \in 1 .. 19 : AcWord(a) = FirstWords[a + 1]
  BY WordAt DEF AcWord
<1>2. /\ FirstWords[3] = "mrs0_dll_reset" /\ FirstWords[4] = "mrs1" /\ FirstWords[5] = "mrs2"
      /\ FirstWords[6] = "mrs3" /\ FirstWords[8] = "mrs0_user"
      /\ FirstWords[9] = "mrs0_dll_reset_mirr" /\ FirstWords[10] = "mrs1_mirr"
      /\ FirstWords[11] = "mrs2_mirr" /\ FirstWords[12] = "mrs3_mirr"
      /\ FirstWords[13] = "mrs0_user_mirr"
  BY DEF FirstWords
<1>3. /\ AcWord(2) = "mrs0_dll_reset" /\ AcWord(3) = "mrs1" /\ AcWord(4) = "mrs2"
      /\ AcWord(5) = "mrs3" /\ AcWord(7) = "mrs0_user"
      /\ AcWord(8) = "mrs0_dll_reset_mirr" /\ AcWord(9) = "mrs1_mirr"
      /\ AcWord(10) = "mrs2_mirr" /\ AcWord(11) = "mrs3_mirr"
      /\ AcWord(12) = "mrs0_user_mirr"
  BY <1>1, <1>2
<1>4. /\ Decode("mrs0_dll_reset") = Mrs(0, "dll_reset", FALSE)
      /\ Decode("mrs0_dll_reset_mirr") = Mrs(0, "dll_reset", TRUE)
  BY DEF Decode
<1>5. /\ Decode("mrs0_user") = Mrs(0, "user", FALSE)
      /\ Decode("mrs0_user_mirr") = Mrs(0, "user", TRUE)
  BY DEF Decode
<1>6. Decode("mrs1") = Mrs(1, "user", FALSE) /\ Decode("mrs1_mirr") = Mrs(1, "user", TRUE)
  BY DEF Decode
<1>7. Decode("mrs2") = Mrs(2, "user", FALSE) /\ Decode("mrs2_mirr") = Mrs(2, "user", TRUE)
  BY DEF Decode
<1>8. Decode("mrs3") = Mrs(3, "user", FALSE) /\ Decode("mrs3_mirr") = Mrs(3, "user", TRUE)
  BY DEF Decode
<1>9. /\ \A k, v, m : /\ Mrs(k, v, m).kind = "mrs" /\ Mrs(k, v, m).mr = k
                      /\ Mrs(k, v, m).value = v
      /\ \A k, v, m : Mrs(k, v, m).mirrored = m
  BY DEF Mrs, NoCommand
<1>10. /\ Decode(AcWord(2)) = Mrs(0, "dll_reset", FALSE) /\ Decode(AcWord(3)) = Mrs(1, "user", FALSE)
       /\ Decode(AcWord(4)) = Mrs(2, "user", FALSE) /\ Decode(AcWord(5)) = Mrs(3, "user", FALSE)
       /\ Decode(AcWord(7)) = Mrs(0, "user", FALSE) /\ Decode(AcWord(8)) = Mrs(0, "dll_reset", TRUE)
       /\ Decode(AcWord(9)) = Mrs(1, "user", TRUE) /\ Decode(AcWord(10)) = Mrs(2, "user", TRUE)
       /\ Decode(AcWord(11)) = Mrs(3, "user", TRUE) /\ Decode(AcWord(12)) = Mrs(0, "user", TRUE)
  BY Zenon, <1>3, <1>4, <1>5, <1>6, <1>7, <1>8
<1>11. /\ \A a \in {2, 7, 8, 12} : MrOf(a) = 0
       /\ MrOf(3) = 1 /\ MrOf(9) = 1 /\ MrOf(4) = 2 /\ MrOf(10) = 2 /\ MrOf(5) = 3 /\ MrOf(11) = 3
       /\ \A a \in {8, 9, 10, 11, 12} : a \in Mirrors
       /\ \A a \in {2, 3, 4, 5, 7} : a \notin Mirrors
  BY DEF MrOf, Mirrors
<1>12. ASSUME NEW a \in Registers, NEW k, NEW v, MrOf(a) = k, v # "none",
              \/ Decode(AcWord(a)) = Mrs(k, v, TRUE) /\ a \in Mirrors
              \/ Decode(AcWord(a)) = Mrs(k, v, FALSE) /\ a \notin Mirrors
       PROVE  LET x == Decode(AcWord(a))
              IN /\ x.kind = "mrs" /\ x.mr = MrOf(a) /\ x.value # "none"
                 /\ x.mirrored <=> a \in Mirrors
  <2>1. CASE Decode(AcWord(a)) = Mrs(k, v, TRUE) /\ a \in Mirrors
    <3> DEFINE x == Decode(AcWord(a))
    <3>1. x = Mrs(k, v, TRUE)
      BY <2>1
    <3> HIDE DEF x
    <3>2. x.kind = "mrs" /\ x.mr = k /\ x.value = v /\ x.mirrored = TRUE
      BY <3>1 DEF Mrs, NoCommand
    <3> QED
      BY Zenon, <1>12, <2>1, <3>2 DEF x
  <2>2. CASE Decode(AcWord(a)) = Mrs(k, v, FALSE) /\ a \notin Mirrors
    <3> DEFINE x == Decode(AcWord(a))
    <3>1. x = Mrs(k, v, FALSE)
      BY <2>2
    <3> HIDE DEF x
    <3>2. x.kind = "mrs" /\ x.mr = k /\ x.value = v /\ x.mirrored = FALSE
      BY <3>1 DEF Mrs, NoCommand
    <3> QED
      BY Zenon, <1>12, <2>2, <3>2 DEF x
  <2> QED
    BY <1>12, <2>1, <2>2
<1>13. "dll_reset" # "none" /\ "user" # "none"
  OBVIOUS
<1>14. ASSUME NEW a \in Registers
       PROVE  \E k, v : /\ MrOf(a) = k /\ v # "none"
                        /\ \/ Decode(AcWord(a)) = Mrs(k, v, TRUE) /\ a \in Mirrors
                           \/ Decode(AcWord(a)) = Mrs(k, v, FALSE) /\ a \notin Mirrors
  <2>1. CASE a = 2
    <3>1. 2 \notin Mirrors
      BY <1>11
    <3> QED
      BY Zenon, <1>10, <1>11, <1>13, <2>1, <3>1
  <2>2. CASE a = 3
    <3>1. 3 \notin Mirrors
      BY <1>11
    <3> QED
      BY Zenon, <1>10, <1>11, <1>13, <2>2, <3>1
  <2>3. CASE a = 4
    <3>1. 4 \notin Mirrors
      BY <1>11
    <3> QED
      BY Zenon, <1>10, <1>11, <1>13, <2>3, <3>1
  <2>4. CASE a = 5
    <3>1. 5 \notin Mirrors
      BY <1>11
    <3> QED
      BY Zenon, <1>10, <1>11, <1>13, <2>4, <3>1
  <2>5. CASE a = 7
    <3>1. 7 \notin Mirrors
      BY <1>11
    <3> QED
      BY Zenon, <1>10, <1>11, <1>13, <2>5, <3>1
  <2>6. CASE a = 8
    <3>1. 8 \in Mirrors
      BY <1>11
    <3> QED
      BY Zenon, <1>10, <1>11, <1>13, <2>6, <3>1
  <2>7. CASE a = 9
    <3>1. 9 \in Mirrors
      BY <1>11
    <3> QED
      BY Zenon, <1>10, <1>11, <1>13, <2>7, <3>1
  <2>8. CASE a = 10
    <3>1. 10 \in Mirrors
      BY <1>11
    <3> QED
      BY Zenon, <1>10, <1>11, <1>13, <2>8, <3>1
  <2>9. CASE a = 11
    <3>1. 11 \in Mirrors
      BY <1>11
    <3> QED
      BY Zenon, <1>10, <1>11, <1>13, <2>9, <3>1
  <2>10. CASE a = 12
    <3>1. 12 \in Mirrors
      BY <1>11
    <3> QED
      BY Zenon, <1>10, <1>11, <1>13, <2>10, <3>1
  <2> QED
    BY <2>1, <2>2, <2>3, <2>4, <2>5, <2>6, <2>7, <2>8, <2>9, <2>10 DEF Registers
<1> QED
  BY Zenon, <1>12, <1>14, WordsOf

(* The times are numbers, up to their limit; and the events are these.     *)
LEMMA SinceIs ==
    ASSUME board \in Boards, BuiltInv, NEW r \in Ranks, NEW x \in Events
    PROVE  /\ dram[r].since[x] \in Nat /\ dram[r].wlat = Wlat
           /\ dram[r].since[x] <= Limit(x, Wlat) /\ Limit(x, Wlat) \in Nat
           /\ \A n \in Int : n <= 0 => AtLeast(dram[r], x, n)
           /\ dram[r].since[x] = Limit(x, Wlat) => \A n \in Int : AtLeast(dram[r], x, n)
<1>1. dram[r].since[x] \in 0 .. Limit(x, Wlat) /\ dram[r].wlat = Wlat
  BY DEF BuiltInv, Timely
<1>2. Limit(x, Wlat) \in Nat
  BY BoardTimes, LimitIs
<1> QED
  BY <1>1, <1>2 DEF AtLeast

LEMMA EventsAre ==
    /\ "cke" \in Events /\ "mrs" \in Events /\ "zqcl" \in Events /\ "pre" \in Events
    /\ "act" \in Events /\ "rd" \in Events /\ "wr" \in Events
BY DEF Events

(* At least is at least less.                                              *)
LEMMA Less ==
    ASSUME NEW d, NEW x, NEW n \in Int, NEW m \in Int, d.since[x] \in Nat, AtLeast(d, x, n), m <= n
    PROVE  AtLeast(d, x, m)
BY DEF AtLeast

LEMMA CalmWrite ==
    ASSUME CommandInv, DramInv, BuiltInv, CalmInv, Write
    PROVE  CalmInv'
<1>1. PICK c, s : Moves(c, s)
  BY Moving
<1>2. PICK d \in {0, 1} :
              /\ Len(calls') = Len(calls) - d /\ Len(calls) \in Nat \ {0}
              /\ \A i \in 1 .. Len(calls') : calls'[i] = calls[i + d] /\ i + d \in 1 .. Len(calls)
              /\ IF d = 0 THEN /\ at < Len(s) /\ at' = at + 1 /\ calls' = calls
                               /\ Writes(Head(calls))' = s
                          ELSE at = Len(s) /\ at' = 1
  BY <1>1, Remain
<1>3. /\ s = Writes(Head(calls)) /\ calls # <<>> /\ at \in 1 .. Len(s) /\ Len(s) \in Nat
      /\ at \in Nat
  BY <1>1 DEF Moves
<1>4. ~running /\ Ranks' = Ranks /\ board \in Boards /\ WriteClocks \in Nat /\ WriteClocks >= 4
  BY WriteStays, BoardTimes
<1> SUFFICES ASSUME NEW k \in 0 .. 4, Pause(Writes(Head(calls))', at' - 1, k),
                    NEW r \in Ranks, NEW e \in Events
             PROVE  AtLeast(dram'[r], e, 4 * k)
  BY Zenon, <1>4 DEF CalmInv
<1>5. /\ dram'[r].since[e] \in Nat /\ dram[r].since[e] \in Nat
      /\ \A n \in Int : AtLeast(dram[r], e, n) => AtLeast(dram'[r], e, n + WriteClocks)
  BY <1>4, Rests
<1>6. CASE k = 0
  BY <1>5, <1>6 DEF AtLeast
<1>7. CASE k # 0
  <2>1. k <= at' - 1 /\ \A j \in (at' - 1) - k + 1 .. at' - 1 : Writes(Head(calls))'[j].op # "run"
    BY DEF Pause
  <2>2. d = 0
    BY <1>2, <1>7, <2>1
  <2>3. at' = at + 1 /\ Writes(Head(calls))' = s
    BY <1>2, <2>2
  <2>4. Pause(s, at - 1, k - 1)
    <3>1. k - 1 <= at - 1
      BY <1>3, <2>1, <2>3
    <3>2. \A j \in (at - 1) - (k - 1) + 1 .. at - 1 : j \in (at' - 1) - k + 1 .. at' - 1
      BY <1>3, <2>3
    <3>3. \A j \in (at - 1) - (k - 1) + 1 .. at - 1 : s[j].op # "run"
      BY <2>1, <2>3, <3>2
    <3> QED
      BY <3>1, <3>3 DEF Pause
  <2>5. AtLeast(dram[r], e, 4 * (k - 1))
    <3>1. k - 1 \in 0 .. 4
      BY <1>7
    <3> QED
      BY <1>3, <1>4, <2>4, <3>1 DEF CalmInv
  <2>6. AtLeast(dram'[r], e, 4 * (k - 1) + WriteClocks)
    BY <1>5, <2>5
  <2> QED
    BY <1>4, <1>5, <2>6, Less
<1> QED
  BY <1>6, <1>7

LEMMA CalmStep ==
    ASSUME CommandInv, DramInv, BuiltInv, CalmInv, [CNext]_vars
    PROVE  CalmInv'
<1>1. board \in Boards
  BY DEF CommandInv, CallsInv
<1>2. ASSUME BuiltInv', board' \in Boards, Ranks' = Ranks, NEW r \in Ranks, NEW e \in Events,
             NEW k \in 0 .. 4, k = 0
      PROVE  AtLeast(dram'[r], e, 4 * k)
  <2>1. dram'[r].since[e] \in Nat
    <3>1. dram'[r].since[e] \in 0 .. Limit(e, dram'[r].wlat) /\ dram'[r].wlat = Wlat'
      BY <1>2 DEF BuiltInv, Timely
    <3> QED
      BY <3>1
  <2> QED
    BY <1>2, <2>1 DEF AtLeast
<1>3. BuiltInv' /\ board' \in Boards /\ Ranks' = Ranks
  BY <1>1, BuiltStep, BoardStays
<1>4. CASE UNCHANGED vars
  <2>1. /\ calls' = calls /\ at' = at /\ Ranks' = Ranks /\ running' = running /\ dram' = dram
        /\ calls # <<>> => Writes(Head(calls))' = Writes(Head(calls))
    BY <1>4, Stays
  <2> QED
    BY <2>1 DEF CalmInv
<1>5. CASE Clocked
  <2>1. /\ calls' = calls /\ at' = at /\ running
        /\ calls # <<>> => Writes(Head(calls))' = Writes(Head(calls))
    BY <1>5, Clocking
  <2>2. at \in Nat \ {0}
    BY DEF CommandInv, CallsInv
  <2>3. calls # <<>> /\ at > 1 => Writes(Head(calls))[at - 1].op = "run"
    BY <2>1 DEF CommandInv, RegisterInv
  <2> SUFFICES ASSUME calls # <<>>, NEW k \in 0 .. 4, Pause(Writes(Head(calls)), at - 1, k),
                      NEW r \in Ranks, NEW e \in Events
               PROVE  AtLeast(dram'[r], e, 4 * k)
    BY <1>3, <2>1 DEF CalmInv
  <2>4. k = 0
    <3>1. k <= at - 1 /\ \A j \in (at - 1) - k + 1 .. at - 1 : Writes(Head(calls))[j].op # "run"
      BY DEF Pause
    <3>2. k # 0 => at > 1 /\ at - 1 \in (at - 1) - k + 1 .. at - 1
      BY <2>2, <3>1
    <3> QED
      BY <2>3, <3>1, <3>2
  <2> QED
    BY <1>2, <1>3, <2>4
<1>6. CASE Procedures
  <2>1. at' = 1
    BY <1>6, Beginning
  <2> SUFFICES ASSUME NEW k \in 0 .. 4, Pause(Writes(Head(calls))', at' - 1, k),
                      NEW r \in Ranks, NEW e \in Events
               PROVE  AtLeast(dram'[r], e, 4 * k)
    BY <1>3 DEF CalmInv
  <2>2. k = 0
    BY <2>1 DEF Pause
  <2> QED
    BY <1>2, <1>3, <2>2
<1> QED
  BY <1>4, <1>5, <1>6, CalmWrite DEF CNext

(* The event that a command is.                                            *)
CommandKinds ==
    {"none", "reset", "cke_low", "mrs", "zqcl", "pre", "act", "read", "write"}

Matches(x, k) ==
    \/ (x = "mrs" /\ k = "mrs") \/ (x = "zqcl" /\ k = "zqcl")
    \/ (x = "pre" /\ k = "pre") \/ (x = "act" /\ k = "act")
    \/ (x = "rd" /\ k = "read") \/ (x = "wr" /\ k = "write")

LEMMA KindOf ==
    ASSUME NEW r
    PROVE  Sent(r).kind \in CommandKinds /\ (r \notin selected => Sent(r).kind = "none")
<1>1. \A w : Decode(w).kind \in CommandKinds
  <2> TAKE w
  <2>1. \/ Decode(w) = At("reset", 0, 0) \/ Decode(w) = At("cke_low", 0, 0)
        \/ Decode(w) = Mrs(0, "dll_reset", FALSE) \/ Decode(w) = Mrs(0, "dll_reset", TRUE)
        \/ Decode(w) = Mrs(0, "user", FALSE) \/ Decode(w) = Mrs(0, "user", TRUE)
        \/ Decode(w) = Mrs(1, "user", FALSE) \/ Decode(w) = Mrs(1, "user", TRUE)
        \/ Decode(w) = Mrs(2, "user", FALSE) \/ Decode(w) = Mrs(2, "user", TRUE)
        \/ Decode(w) = Mrs(3, "user", FALSE) \/ Decode(w) = Mrs(3, "user", TRUE)
        \/ Decode(w) = At("zqcl", 0, 0) \/ Decode(w) = At("pre", 0, 0)
        \/ Decode(w) = At("act", 0, 0) \/ Decode(w) = At("act", 1, 0)
        \/ Decode(w) = At("write", 0, 0) \/ Decode(w) = At("write", 0, 1)
        \/ Decode(w) = At("write", 1, 0) \/ Decode(w) = At("write", 1, 1)
        \/ Decode(w) = At("read", 0, 0) \/ Decode(w) = At("read", 0, 1)
        \/ Decode(w) = At("read", 1, 0) \/ Decode(w) = At("read", 1, 1)
        \/ Decode(w) = NoCommand
    BY DEF Decode
  <2>2. /\ \A k, b, c : At(k, b, c).kind = k
        /\ \A k, v, m : Mrs(k, v, m).kind = "mrs"
        /\ NoCommand.kind = "none"
    BY DEF At, Mrs, NoCommand
  <2>3. CASE \/ Decode(w) = At("reset", 0, 0)
           \/ Decode(w) = At("cke_low", 0, 0)
           \/ Decode(w) = At("zqcl", 0, 0)
           \/ Decode(w) = At("pre", 0, 0)
    <3>1. Decode(w).kind = "reset" \/ Decode(w).kind = "cke_low" \/ Decode(w).kind = "zqcl" \/ Decode(w).kind = "pre"
      BY <2>2, <2>3
    <3> QED
      BY <3>1 DEF CommandKinds
  <2>4. CASE \/ Decode(w) = At("act", 0, 0)
           \/ Decode(w) = At("act", 1, 0)
           \/ Decode(w) = NoCommand
    <3>1. Decode(w).kind = "act" \/ Decode(w).kind = "none"
      BY <2>2, <2>4
    <3> QED
      BY <3>1 DEF CommandKinds
  <2>5. CASE \/ Decode(w) = Mrs(0, "dll_reset", FALSE)
           \/ Decode(w) = Mrs(0, "dll_reset", TRUE)
           \/ Decode(w) = Mrs(0, "user", FALSE)
           \/ Decode(w) = Mrs(0, "user", TRUE)
           \/ Decode(w) = Mrs(1, "user", FALSE)
           \/ Decode(w) = Mrs(1, "user", TRUE)
           \/ Decode(w) = Mrs(2, "user", FALSE)
           \/ Decode(w) = Mrs(2, "user", TRUE)
           \/ Decode(w) = Mrs(3, "user", FALSE)
           \/ Decode(w) = Mrs(3, "user", TRUE)
    <3>1. Decode(w).kind = "mrs"
      BY <2>5 DEF Mrs, NoCommand
    <3> QED
      BY <3>1 DEF CommandKinds
  <2>6. CASE \/ Decode(w) = At("write", 0, 0)
           \/ Decode(w) = At("write", 0, 1)
           \/ Decode(w) = At("write", 1, 0)
           \/ Decode(w) = At("write", 1, 1)
    <3>1. Decode(w).kind = "write"
      BY <2>2, <2>6
    <3> QED
      BY <3>1 DEF CommandKinds
  <2>7. CASE \/ Decode(w) = At("read", 0, 0)
           \/ Decode(w) = At("read", 0, 1)
           \/ Decode(w) = At("read", 1, 0)
           \/ Decode(w) = At("read", 1, 1)
    <3>1. Decode(w).kind = "read"
      BY <2>2, <2>7
    <3> QED
      BY <3>1 DEF CommandKinds
  <2> QED
    BY Zenon, <2>1, <2>3, <2>4, <2>5, <2>6, <2>7
<1>2. NoCommand.kind = "none" /\ "none" \in CommandKinds
  BY DEF NoCommand, CommandKinds
<1> QED
  BY <1>1, <1>2 DEF Sent, Command

LEMMA EventIs ==
    ASSUME NEW d, NEW c, c.kind \in CommandKinds
    PROVE  /\ \A x, k : Matches(x, k) => (EventOf(d, c) = x <=> c.kind = k)
           /\ EventOf(d, c) = "cke" <=> (c.kind = "none" /\ d.phase = "cke_low")
<1> DEFINE k == c.kind
<1>1. EventOf(d, c) = CASE k = "read"  -> "rd"
                        [] k = "write" -> "wr"
                        [] k = "none" /\ d.phase = "cke_low" -> "cke"
                        [] OTHER            -> k
  BY DEF EventOf
<1>2. k \in CommandKinds
  OBVIOUS
<1> HIDE DEF k
<1>3. EventOf(d, c) = IF k = "read" THEN "rd" ELSE IF k = "write" THEN "wr"
                      ELSE IF k = "none" /\ d.phase = "cke_low" THEN "cke" ELSE k
  BY <1>1
<1>4. \A x, y : Matches(x, y) => (EventOf(d, c) = x <=> k = y)
  BY <1>2, <1>3 DEF Matches, CommandKinds
<1>5. EventOf(d, c) = "cke" <=> (k = "none" /\ d.phase = "cke_low")
  BY <1>2, <1>3 DEF CommandKinds
<1> QED
  BY <1>4, <1>5 DEF k

(* How a clock ages an event, in numbers.                                  *)
LEMMA Ages ==
    ASSUME board \in Boards, DramInv, BuiltInv, Clocked, NEW r \in Ranks,
           NEW x \in Events, NEW k, Matches(x, k)
    PROVE  LET s == dram[r].since[x]
               t == dram'[r].since[x]
               L == Limit(x, Wlat)
           IN /\ L \in Nat /\ L >= 1 /\ s \in 0 .. L /\ t \in 0 .. L
              /\ Sent(r).kind = k => t = 1
              /\ Sent(r).kind # k => t = IF s + 1 < L THEN s + 1 ELSE L
              /\ \A n \in Int : AtLeast(dram[r], x, n) <=> (s >= n \/ s = L)
              /\ \A n \in Int : AtLeast(dram'[r], x, n) <=> (t >= n \/ t = L)
<1> DEFINE d == dram[r]
           e == dram'[r]
           c == Sent(r)
           L == Limit(x, Wlat)
<1>1. /\ d.wlat = Wlat /\ e.wlat = Wlat
      /\ Timely(d) /\ Timely(e)
      /\ EventOf(d, c) \in Events => e.since[EventOf(d, c)] = 1
      /\ x # EventOf(d, c) =>
            e.since[x] = IF d.since[x] + 1 < L THEN d.since[x] + 1 ELSE L
  BY ClockedTimes
<1>2. L \in Nat /\ L >= 1
  BY BoardTimes, LimitIs
<1>3. d.since[x] \in 0 .. L /\ e.since[x] \in 0 .. L
  BY <1>1 DEF Timely
<1>4. EventOf(d, c) = x <=> c.kind = k
  BY KindOf, EventIs
<1> HIDE DEF c
<1>5. c.kind = k => e.since[x] = 1
  BY <1>1, <1>4
<1>6. c.kind # k => e.since[x] = IF d.since[x] + 1 < L THEN d.since[x] + 1 ELSE L
  BY <1>1, <1>4
<1>7. /\ \A n \in Int : AtLeast(d, x, n) <=> (d.since[x] >= n \/ d.since[x] = L)
      /\ \A n \in Int : AtLeast(e, x, n) <=> (e.since[x] >= n \/ e.since[x] = L)
  BY <1>1 DEF AtLeast
<1> QED
  BY <1>2, <1>3, <1>5, <1>6, <1>7 DEF c

(* For the events that bursts and rows are.                                *)
Aged(r, x, L, hit) ==
    LET s == dram[r].since[x]
        t == dram'[r].since[x]
    IN /\ L \in Nat /\ L >= 1 /\ s \in 0 .. L /\ t \in 0 .. L
       /\ hit => t = 1
       /\ ~hit => t = IF s + 1 < L THEN s + 1 ELSE L
       /\ \A n \in Int : AtLeast(dram[r], x, n) <=> (s >= n \/ s = L)
       /\ \A n \in Int : AtLeast(dram'[r], x, n) <=> (t >= n \/ t = L)

LEMMA BurstAges ==
    ASSUME board \in Boards, DramInv, BuiltInv, Clocked, NEW r \in Ranks
    PROVE  LET k == Sent(r).kind
           IN /\ Aged(r, "act", 14, k = "act") /\ Aged(r, "pre", 6, k = "pre")
              /\ Aged(r, "rd", 17, k = "read") /\ Aged(r, "wr", Wlat + 10, k = "write")
              /\ Aged(r, "mrs", 12, k = "mrs") /\ Aged(r, "zqcl", 512, k = "zqcl")
<1>1. /\ Limit("act", Wlat) = 14 /\ Limit("pre", Wlat) = 6 /\ Limit("rd", Wlat) = 17
      /\ Limit("wr", Wlat) = Wlat + 10 /\ Limit("mrs", Wlat) = 12 /\ Limit("zqcl", Wlat) = 512
  BY BoardTimes, LimitIs
<1>2. ASSUME NEW x \in Events, NEW k, Matches(x, k)
      PROVE  Aged(r, x, Limit(x, Wlat), Sent(r).kind = k)
  BY <1>2, Ages DEF Aged
<1>3. /\ Matches("act", "act") /\ Matches("pre", "pre") /\ Matches("rd", "read")
      /\ Matches("wr", "write") /\ Matches("mrs", "mrs") /\ Matches("zqcl", "zqcl")
  BY DEF Matches
<1>4. /\ Aged(r, "act", Limit("act", Wlat), Sent(r).kind = "act")
      /\ Aged(r, "pre", Limit("pre", Wlat), Sent(r).kind = "pre")
      /\ Aged(r, "rd", Limit("rd", Wlat), Sent(r).kind = "read")
  BY Zenon, <1>2, <1>3, EventsAre
<1>5. /\ Aged(r, "wr", Limit("wr", Wlat), Sent(r).kind = "write")
      /\ Aged(r, "mrs", Limit("mrs", Wlat), Sent(r).kind = "mrs")
      /\ Aged(r, "zqcl", Limit("zqcl", Wlat), Sent(r).kind = "zqcl")
  BY Zenon, <1>2, <1>3, EventsAre
<1> QED
  <2> HIDE DEF Sent
  <2> QED
    BY <1>1, <1>4, <1>5

(* Rows and bursts in the run of a part go to its rank.                    *)
LEMMA Chosen ==
    ASSUME CommandInv, Clocked, NEW r \in selected, label \notin Holds \cup Idles
    PROVE  r \in Live /\ r \in Ranks /\ selected = {r} /\ Sent(r) = Command
           /\ Wlat \in 1 .. 25 /\ board \in Boards
<1>1. PICK x \in Live : selected = {x}
  BY Clocking
<1>2. Live \subseteq Ranks /\ board \in Boards
  BY Clocking
<1> QED
  BY <1>1, <1>2, BoardTimes DEF Sent

LEMMA ActPaces ==
    ASSUME CommandInv, DramInv, BuiltInv, TunedInv, Clocked, running', NEW r \in selected,
           label = ACTIVATE_0_AND_1, ActPace(dram[r])
    PROVE  ActPace(dram[r])'
<1>1. /\ label \in Entries /\ ip \in Block(label) /\ EngineTypeOK /\ Play /\ running
      /\ Wlat' = Wlat
  BY Clocking
<1>2. label = 13 /\ ip \in 13 .. 17
  BY <1>1, BlocksOf
<1>3. label \notin Holds \cup Idles
  BY <1>2, RunLabels
<1>4. r \in Ranks /\ Sent(r) = Command /\ board \in Boards /\ Wlat \in 1 .. 25
  BY <1>3, Chosen
<1>5. ActTuned
  BY <1>1 DEF TunedInv
<1>6. /\ ip \notin Returns
      /\ ip \in {13, 15} => ip' = ip + 1 /\ cntr' = cntr
      /\ ip = 14 => Round(0, 14)
      /\ ip = 16 => Round(1, 16)
      /\ cntr[0] \in Nat /\ cntr[1] \in Nat
  BY <1>1, <1>5, PlayOn, JumpsAt DEF Straight, Onward, ActTuned
<1>7. ip # 17
  BY <1>6 DEF Returns
<1>8. Command.kind = IF ip \in {13, 15} THEN "act" ELSE "none"
  BY <1>2, <1>7, RomRows DEF Command, Sends, Silent
<1> DEFINE a == dram[r].since["act"]
           b == dram'[r].since["act"]
           p == dram[r].since["pre"]
           q == dram'[r].since["pre"]
           u == dram[r].since["wr"]
           v == dram'[r].since["wr"]
           L == Limit("wr", Wlat)
<1>9. Limit("act", Wlat) = 14 /\ Limit("pre", Wlat) = 6
  BY <1>4, LimitIs
<1>10. /\ Aged(r, "act", 14, ip \in {13, 15})
       /\ Aged(r, "pre", 6, FALSE) /\ Aged(r, "wr", Wlat + 10, FALSE)
  <2>1. /\ Aged(r, "act", 14, Sent(r).kind = "act") /\ Aged(r, "pre", 6, Sent(r).kind = "pre")
        /\ Aged(r, "wr", Wlat + 10, Sent(r).kind = "write")
    BY <1>4, BurstAges
  <2>2. /\ Sent(r).kind = "act" <=> ip \in {13, 15}
        /\ Sent(r).kind # "pre" /\ Sent(r).kind # "write"
    BY <1>4, <1>8
  <2> HIDE DEF Sent
  <2> QED
    BY <2>1, <2>2 DEF Aged
<1>11. /\ a \in 0 .. 14 /\ b \in 0 .. 14
       /\ ip \in {13, 15} => b = 1
       /\ ip \notin {13, 15} => b = IF a + 1 < 14 THEN a + 1 ELSE 14
       /\ \A n \in Int : AtLeast(dram[r], "act", n) <=> (a >= n \/ a = 14)
       /\ \A n \in Int : AtLeast(dram'[r], "act", n) <=> (b >= n \/ b = 14)
       /\ p \in 0 .. 6 /\ q \in 0 .. 6
       /\ q = IF p + 1 < 6 THEN p + 1 ELSE 6
       /\ \A n \in Int : AtLeast(dram[r], "pre", n) <=> (p >= n \/ p = 6)
       /\ \A n \in Int : AtLeast(dram'[r], "pre", n) <=> (q >= n \/ q = 6)
  BY <1>10 DEF Aged
<1>12. L \in Nat /\ u \in 0 .. L /\ v = IF u + 1 < L THEN u + 1 ELSE L
  <2>1. L = Wlat + 10
    BY <1>4, LimitIs
  <2> HIDE DEF L
  <2> QED
    BY <1>10, <2>1 DEF Aged
<1>13. /\ u = L
       /\ ip < 16 => p >= 6
       /\ ip \in {13, 15, 17} => a >= 14
       /\ ip = 14 => a >= 16 - cntr[0] \/ a = 14
       /\ ip = 16 => a >= 16 - cntr[1] \/ a = 14
  BY <1>6, <1>11 DEF ActPace, TRP, TRAS
<1>14. SUFFICES /\ v = L
                /\ ip' < 16 => q >= 6
                /\ ip' \in {13, 15, 17} => b >= 14
                /\ ip' = 14 => b >= 16 - cntr'[0] \/ b = 14
                /\ ip' = 16 => b >= 16 - cntr'[1] \/ b = 14
  <2>1. cntr'[0] \in Nat /\ cntr'[1] \in Nat
    BY <1>1, PlayOn, JumpsAt
  <2> QED
    BY <1>1, <1>11, <2>1 DEF ActPace, TRP, TRAS
<1> HIDE DEF a, b, p, q, u, v, L
<1>15. /\ ip = 13 => cntr[0] = 15
       /\ ip < 16 => cntr[1] = 15
  BY <1>5 DEF ActTuned
<1>16. CASE ip = 13
  BY <1>6, <1>11, <1>12, <1>13, <1>15, <1>16
<1>17. CASE ip = 14
  BY <1>6, <1>11, <1>12, <1>13, <1>15, <1>17, JumpsAt DEF Round
<1>18. CASE ip = 15
  BY <1>6, <1>11, <1>12, <1>13, <1>15, <1>18
<1>19. CASE ip = 16
  BY <1>6, <1>11, <1>12, <1>13, <1>15, <1>19, JumpsAt DEF Round
<1> QED
  BY <1>2, <1>7, <1>16, <1>17, <1>18, <1>19

LEMMA GwPaces ==
    ASSUME CommandInv, DramInv, BuiltInv, TunedInv, Clocked, running', NEW r \in selected,
           label = GUARANTEED_WRITE, GwPace(dram[r])
    PROVE  GwPace(dram[r])'
<1>1. /\ label \in Entries /\ ip \in Block(label) /\ EngineTypeOK /\ Play /\ running
      /\ Wlat' = Wlat
  BY Clocking
<1>2. label = 24 /\ ip \in 24 .. 32
  BY <1>1, BlocksOf
<1>3. label \notin Holds \cup Idles
  BY <1>2, RunLabels
<1>4. r \in Ranks /\ Sent(r) = Command /\ board \in Boards /\ Wlat \in 1 .. 25
  BY <1>3, Chosen
<1>5. GwTuned
  BY <1>1 DEF TunedInv
<1>6. /\ ip \notin Returns
      /\ ip \in {24, 26, 28, 30} => ip' = ip + 1 /\ cntr' = cntr
      /\ ip = 25 => Round(2, 25)
      /\ ip = 27 => Round(0, 27)
      /\ ip = 29 => Round(3, 29)
      /\ ip = 31 => Round(1, 31)
      /\ \A c \in Cntrs : cntr[c] \in Nat /\ cntr'[c] \in Nat
  BY <1>1, <1>5, PlayOn DEF Straight, Onward, GwTuned
<1>7. ip # 32
  BY <1>6 DEF Returns
<1>8. Command.kind = IF ip \in {24, 26, 28, 30} THEN "write" ELSE "none"
  BY <1>2, <1>7, RomGuaranteed DEF Command, Sends, Silent
<1> DEFINE a == dram[r].since["act"]
           b == dram'[r].since["act"]
           p == dram[r].since["rd"]
           q == dram'[r].since["rd"]
           u == dram[r].since["wr"]
           v == dram'[r].since["wr"]
           L == Wlat + 10
<1>10. /\ Aged(r, "act", 14, FALSE)
       /\ Aged(r, "rd", 17, FALSE) /\ Aged(r, "wr", L, ip \in {24, 26, 28, 30})
  <2>1. /\ Aged(r, "act", 14, Sent(r).kind = "act") /\ Aged(r, "rd", 17, Sent(r).kind = "read")
        /\ Aged(r, "wr", L, Sent(r).kind = "write")
    BY <1>4, BurstAges
  <2>2. /\ Sent(r).kind = "write" <=> ip \in {24, 26, 28, 30}
        /\ Sent(r).kind # "act" /\ Sent(r).kind # "read"
    BY <1>4, <1>8
  <2> HIDE DEF Sent, L
  <2> QED
    BY <2>1, <2>2 DEF Aged
<1> HIDE DEF L
<1>11. /\ a \in 0 .. 14 /\ b = IF a + 1 < 14 THEN a + 1 ELSE 14
       /\ \A n \in Int : AtLeast(dram[r], "act", n) <=> (a >= n \/ a = 14)
       /\ \A n \in Int : AtLeast(dram'[r], "act", n) <=> (b >= n \/ b = 14)
       /\ p \in 0 .. 17 /\ q = IF p + 1 < 17 THEN p + 1 ELSE 17
       /\ \A n \in Int : AtLeast(dram[r], "rd", n) <=> (p >= n \/ p = 17)
       /\ \A n \in Int : AtLeast(dram'[r], "rd", n) <=> (q >= n \/ q = 17)
       /\ L \in Nat /\ u \in 0 .. L /\ v \in 0 .. L
       /\ ip \in {24, 26, 28, 30} => v = 1
       /\ ip \notin {24, 26, 28, 30} => v = IF u + 1 < L THEN u + 1 ELSE L
       /\ \A n \in Int : AtLeast(dram[r], "wr", n) <=> (u >= n \/ u = L)
       /\ \A n \in Int : AtLeast(dram'[r], "wr", n) <=> (v >= n \/ v = L)
  BY <1>10 DEF Aged
<1>12. cntr[0] \in Nat /\ cntr[1] \in Nat /\ cntr[2] \in Nat /\ cntr[3] \in Nat
  BY <1>6, JumpsAt
<1>13. /\ a >= 14 /\ p >= 17
       /\ ip = 24 => u >= 4 \/ u = L
       /\ ip = 25 => u >= 5 - cntr[2] \/ u = L
       /\ ip \in {26, 30} => u >= 6 \/ u = L
       /\ ip = 27 => u >= 33 - cntr[0] \/ u = L
       /\ ip \in {28, 32} => u >= 34 \/ u = L
       /\ ip = 29 => u >= 5 - cntr[3] \/ u = L
       /\ ip = 31 => u >= 33 - cntr[1] \/ u = L
  BY <1>11, <1>12 DEF GwPace, TRAS
<1>14. SUFFICES
       /\ b >= 14 /\ q >= 17
       /\ ip' = 24 => v >= 4 \/ v = L
       /\ ip' = 25 => v >= 5 - cntr'[2] \/ v = L
       /\ ip' \in {26, 30} => v >= 6 \/ v = L
       /\ ip' = 27 => v >= 33 - cntr'[0] \/ v = L
       /\ ip' \in {28, 32} => v >= 34 \/ v = L
       /\ ip' = 29 => v >= 5 - cntr'[3] \/ v = L
       /\ ip' = 31 => v >= 33 - cntr'[1] \/ v = L
  <2>1. cntr'[0] \in Nat /\ cntr'[1] \in Nat /\ cntr'[2] \in Nat /\ cntr'[3] \in Nat
    BY <1>6, JumpsAt
  <2> QED
    BY <1>1, <1>11, <2>1 DEF GwPace, TRAS
<1> HIDE DEF a, b, p, q, u, v, L
<1>15. /\ ip = 24 => cntr[2] = 4
       /\ ip < 27 => cntr[0] = 32
       /\ ip < 29 => cntr[3] = 4
       /\ ip < 31 => cntr[1] = 32
  BY <1>5 DEF GwTuned
<1>16. b >= 14 /\ q >= 17
  BY <1>11, <1>13
<1>17. CASE ip = 24
  BY <1>6, <1>11, <1>13, <1>15, <1>16, <1>17
<1>18. CASE ip = 25
  BY <1>6, <1>11, <1>12, <1>13, <1>16, <1>18, JumpsAt DEF Round
<1>19. CASE ip = 26
  BY <1>6, <1>11, <1>13, <1>15, <1>16, <1>19
<1>20. CASE ip = 27
  BY <1>6, <1>11, <1>12, <1>13, <1>16, <1>20, JumpsAt DEF Round
<1>21. CASE ip = 28
  BY <1>6, <1>11, <1>13, <1>15, <1>16, <1>21
<1>22. CASE ip = 29
  BY <1>6, <1>11, <1>12, <1>13, <1>16, <1>22, JumpsAt DEF Round
<1>23. CASE ip = 30
  BY <1>6, <1>11, <1>13, <1>15, <1>16, <1>23
<1>24. CASE ip = 31
  BY <1>6, <1>11, <1>12, <1>13, <1>16, <1>24, JumpsAt DEF Round
<1> QED
  BY <1>2, <1>7, <1>17, <1>18, <1>19, <1>20, <1>21, <1>22, <1>23, <1>24

(* Reads that go without data count as reads.                              *)
Reading == {73, 76, 80, 84, 89, 93, 98, 102, 106}

LEMMA RdPaces ==
    ASSUME CommandInv, DramInv, BuiltInv, TunedInv, Clocked, running', NEW r \in selected,
           label \in {GUARANTEED_READ, READ_B2B, CLEAR_DQS_ENABLE}, RdPace(dram[r])
    PROVE  RdPace(dram[r])'
<1>1. /\ label \in Entries /\ ip \in Block(label) /\ EngineTypeOK /\ Play /\ running
      /\ Wlat' = Wlat
  BY Clocking
<1>2. \/ label = 73 /\ ip \in 73 .. 75
      \/ label = 76 /\ ip \in 76 .. 88
      \/ label = 89 /\ ip \in 89 .. 110
  BY <1>1, BlocksOf
<1>3. label \notin Holds \cup Idles
  BY <1>2, RunLabels
<1>4. r \in Ranks /\ Sent(r) = Command /\ board \in Boards /\ Wlat \in 1 .. 25
  BY <1>3, Chosen
<1>5. (label = 76 => GrTuned) /\ (label = 89 => B2bTuned)
  BY <1>1 DEF TunedInv, GUARANTEED_READ, READ_B2B, ACTIVATE_0_AND_1
<1>6. /\ ip \notin Returns
      /\ ip \in Straight => ip' = ip + 1 /\ cntr' = cntr
      /\ ip = 79 => Round(0, 76)
      /\ ip = 87 => Round(1, 84)
      /\ ip = 97 => Round(1, 97)
      /\ ip = 107 => Round(2, 107)
      /\ ip = 108 => Round(0, 89)
      /\ ip = 109 => Round(3, 89)
      /\ \A c \in Cntrs : cntr[c] \in Nat /\ cntr'[c] \in Nat
  BY <1>1, <1>2, <1>5, PlayOn DEF Onward, GrTuned, B2bTuned
<1>7. ip \notin {75, 88, 110}
  BY <1>6 DEF Returns
<1>8. /\ Command.kind \in {"read", "none"}
      /\ Command.kind = "read" <=> ip \in Reading
  BY <1>2, RomReads DEF Command, Sends, Silent, Reading
<1> DEFINE a == dram[r].since["act"]
           b == dram'[r].since["act"]
           p == dram[r].since["rd"]
           q == dram'[r].since["rd"]
           u == dram[r].since["wr"]
           v == dram'[r].since["wr"]
           L == Wlat + 10
<1>10. /\ Aged(r, "act", 14, FALSE)
       /\ Aged(r, "rd", 17, ip \in Reading) /\ Aged(r, "wr", L, FALSE)
  <2>1. /\ Aged(r, "act", 14, Sent(r).kind = "act") /\ Aged(r, "rd", 17, Sent(r).kind = "read")
        /\ Aged(r, "wr", L, Sent(r).kind = "write")
    BY <1>4, BurstAges
  <2>2. /\ Sent(r).kind = "read" <=> ip \in Reading
        /\ Sent(r).kind # "act" /\ Sent(r).kind # "write"
    BY <1>4, <1>8
  <2> HIDE DEF Sent, L
  <2> QED
    BY <2>1, <2>2 DEF Aged
<1> HIDE DEF L
<1>11. /\ a \in 0 .. 14 /\ b = IF a + 1 < 14 THEN a + 1 ELSE 14
       /\ \A n \in Int : AtLeast(dram[r], "act", n) <=> (a >= n \/ a = 14)
       /\ \A n \in Int : AtLeast(dram'[r], "act", n) <=> (b >= n \/ b = 14)
       /\ p \in 0 .. 17 /\ q \in 0 .. 17
       /\ ip \in Reading => q = 1
       /\ ip \notin Reading => q = IF p + 1 < 17 THEN p + 1 ELSE 17
       /\ \A n \in Int : AtLeast(dram[r], "rd", n) <=> (p >= n \/ p = 17)
       /\ \A n \in Int : AtLeast(dram'[r], "rd", n) <=> (q >= n \/ q = 17)
       /\ L \in Nat /\ u \in 0 .. L /\ v = IF u + 1 < L THEN u + 1 ELSE L
  BY <1>10 DEF Aged
<1>12. cntr[2] \in Nat /\ cntr'[2] \in Nat /\ L = Limit("wr", Wlat) /\ L = Limit("wr", Wlat')
  BY <1>1, <1>4, <1>6, JumpsAt, LimitIs DEF L
<1>13. /\ a >= 14 /\ u = L
       /\ ip \in {73, 76, 80, 84, 88, 89, 93, 97, 98, 102, 106, 108, 109, 110} => p >= 4
       /\ ip \in {77, 81, 85, 90, 94, 99, 103} => p >= 1
       /\ ip \in {78, 82, 86, 91, 95, 100, 104} => p >= 2
       /\ ip \in {79, 83, 87, 92, 96, 101, 105} => p >= 3
       /\ ip = 107 => p >= 17 - cntr[2] \/ p = 17
  BY <1>11, <1>12 DEF RdPace, TRAS
<1>14. SUFFICES
       /\ b >= 14 /\ v = L
       /\ ip' \in {73, 76, 80, 84, 88, 89, 93, 97, 98, 102, 106, 108, 109, 110} => q >= 4
       /\ ip' \in {77, 81, 85, 90, 94, 99, 103} => q >= 1
       /\ ip' \in {78, 82, 86, 91, 95, 100, 104} => q >= 2
       /\ ip' \in {79, 83, 87, 92, 96, 101, 105} => q >= 3
       /\ ip' = 107 => q >= 17 - cntr'[2] \/ q = 17
  BY <1>1, <1>11, <1>12 DEF RdPace, TRAS
<1> HIDE DEF a, b, p, q, u, v, L
<1>15. label = 89 => ip = 107 \/ cntr[2] = 16
  BY <1>5 DEF B2bTuned
<1>16. b >= 14 /\ v = L
  BY <1>11, <1>13
<1>17. CASE ip \in {73, 74}
  BY <1>6, <1>16, <1>17 DEF Straight
<1>18. CASE ip \in {76, 80, 84, 89, 93, 98, 102}
  BY <1>6, <1>11, <1>16, <1>18 DEF Straight, Reading
<1>19. CASE ip \in {77, 81, 85, 90, 94, 99, 103}
  BY <1>6, <1>11, <1>13, <1>16, <1>19 DEF Straight, Reading
<1>20. CASE ip \in {78, 82, 86, 91, 95, 100, 104}
  BY <1>6, <1>11, <1>13, <1>16, <1>20 DEF Straight, Reading
<1>21. CASE ip \in {83, 92, 96, 101, 105}
  BY <1>6, <1>11, <1>13, <1>16, <1>21 DEF Straight, Reading
<1>22. CASE ip \in {79, 87, 97, 108, 109}
  <2>1. ip' \in {76, 80, 84, 88, 89, 97, 98, 109, 110}
    BY <1>6, <1>22 DEF Round
  <2>2. q >= 4
    BY <1>11, <1>13, <1>22 DEF Reading
  <2> QED
    BY <1>16, <2>1, <2>2
<1>23. CASE ip = 106
  BY <1>2, <1>6, <1>11, <1>15, <1>16, <1>23 DEF Straight, Reading
<1>24. CASE ip = 107
  BY <1>6, <1>11, <1>12, <1>13, <1>16, <1>24, JumpsAt DEF Round, Reading
<1> QED
  BY <1>2, <1>7, <1>17, <1>18, <1>19, <1>20, <1>21, <1>22, <1>23, <1>24

(* The pace of a write test in numbers: at instruction x of it, with write *)
(* latency w, entered at l and now at i, the times of a read and of a      *)
(* write and the limit of the latter, and the counters.                    *)
WrTimes(x, w, i, l, p, u, L, cs) ==
    /\ x <= 46 => p >= 17
    /\ x \in 47 .. 49 => p >= x - 46
    /\ x = 50 => p >= 52 - cs[1] \/ p = 17
    /\ x > 50 => p >= 17
    /\ i = l => u = L
    /\ x = 35 => u >= (w - 2) - cs[3] \/ u = L
    /\ x = 36 => u >= w - 1 \/ u = L
    /\ x \in 37 .. 46 => u >= w + (x - 37) \/ u = L
    /\ x > 46 => u = L

LEMMA WrPaces ==
    ASSUME CommandInv, DramInv, BuiltInv, TunedInv, Clocked, running', NEW r \in selected,
           label \in WriteTests, WrPace(dram[r])
    PROVE  WrPace(dram[r])'
<1> DEFINE w == Wlat
           l == label
           dm == Dm(label)
           x == ip - dm
           y == ip' - dm
           L == w + 10
           a == dram[r].since["act"]
           b == dram'[r].since["act"]
           p == dram[r].since["rd"]
           q == dram'[r].since["rd"]
           u == dram[r].since["wr"]
           v == dram'[r].since["wr"]
<1>1. /\ label \in Entries /\ ip \in Block(label) /\ EngineTypeOK /\ Play /\ running
      /\ Wlat' = Wlat /\ label' = label
  BY Clocking
<1>2. w \in 1 .. 25 /\ dm \in {0, 20} /\ l - dm \in {33, 34} /\ x \in 33 .. 52
  <2>1. label \notin Holds \cup Idles
    BY RunLabels
  <2> QED
    BY <1>1, <2>1, BlocksOf, Chosen
<1>4. r \in Ranks /\ Sent(r) = Command /\ board \in Boards
  <2>1. label \notin Holds \cup Idles
    BY RunLabels
  <2> QED
    BY <2>1, Chosen
<1>5. WrNumbers(w, l, dm, ip, cntr, jump, reload)
  BY <1>1, <1>2, WrTunedIs DEF TunedInv
<1>6. /\ ip \notin Returns /\ ip \in Nat
      /\ ip \in (36 .. 49) \cup (56 .. 69) => Onward
      /\ \A c \in Cntrs : cntr[c] \in Nat /\ reload[c] \in Nat /\ cntr'[c] \in Nat
      /\ ip \in {51, 71} => Round(0, jump[0])
      /\ ip \in {50, 70} => Round(1, jump[1])
      /\ ip \in {33, 34, 53, 54} => Round(2, jump[2])
      /\ ip \in {35, 55} => Round(3, jump[3])
  BY <1>1, PlayOn
<1>7. dm = 0 \/ dm = 20
  BY <1>2
<1>8. /\ Command.kind \in {"write", "read", "none"}
      /\ Command.kind = "write" <=> x \in {33, 34}
      /\ Command.kind = "read" <=> x = 46
  <2>1. /\ Sends(33 + dm, "write", 0, 0) /\ Sends(34 + dm, "write", 0, 0)
        /\ Sends(46 + dm, "read", 0, 0)
        /\ \A i \in (35 .. 45) \cup (47 .. 52) : Silent(i + dm)
    BY <1>2, RomWriteTest
  <2> HIDE DEF dm
  <2>2. ip = x + dm
    BY <1>6, <1>7
  <2> HIDE DEF x
  <2>3. CASE x \in {33, 34}
    BY <2>1, <2>2, <2>3 DEF Command, Sends
  <2>4. CASE x = 46
    BY <2>1, <2>2, <2>4 DEF Command, Sends
  <2>5. CASE x \in (35 .. 45) \cup (47 .. 52)
    BY <2>1, <2>2, <2>5 DEF Command, Silent
  <2> QED
    BY <1>2, <2>3, <2>4, <2>5
<1>10. /\ Aged(r, "act", 14, FALSE)
       /\ Aged(r, "rd", 17, x = 46) /\ Aged(r, "wr", L, x \in {33, 34})
  <2>1. /\ Aged(r, "act", 14, Sent(r).kind = "act") /\ Aged(r, "rd", 17, Sent(r).kind = "read")
        /\ Aged(r, "wr", L, Sent(r).kind = "write")
    BY <1>4, BurstAges
  <2>2. /\ Sent(r).kind = "write" <=> x \in {33, 34}
        /\ Sent(r).kind = "read" <=> x = 46
        /\ Sent(r).kind # "act"
    BY <1>4, <1>8
  <2> HIDE DEF Sent, L, x
  <2> QED
    BY <2>1, <2>2 DEF Aged
<1>11. L = Limit("wr", Wlat) /\ L \in Nat /\ L >= 1
  BY <1>2, LimitIs
<1>12. Dm(label)' = dm
  BY <1>1 DEF Dm
<1> HIDE DEF L, x
<1>13. /\ a \in 0 .. 14 /\ b = IF a + 1 < 14 THEN a + 1 ELSE 14
       /\ \A n \in Int : AtLeast(dram[r], "act", n) <=> (a >= n \/ a = 14)
       /\ \A n \in Int : AtLeast(dram'[r], "act", n) <=> (b >= n \/ b = 14)
       /\ p \in 0 .. 17 /\ q \in 0 .. 17
       /\ x = 46 => q = 1
       /\ x # 46 => q = IF p + 1 < 17 THEN p + 1 ELSE 17
       /\ \A n \in Int : AtLeast(dram[r], "rd", n) <=> (p >= n \/ p = 17)
       /\ \A n \in Int : AtLeast(dram'[r], "rd", n) <=> (q >= n \/ q = 17)
  BY <1>10 DEF Aged
<1>14. /\ u \in 0 .. L /\ v \in 0 .. L
       /\ x \in {33, 34} => v = 1
       /\ x \notin {33, 34} => v = IF u + 1 < L THEN u + 1 ELSE L
       /\ \A n \in Int : AtLeast(dram[r], "wr", n) <=> (u >= n \/ u = L)
       /\ \A n \in Int : AtLeast(dram'[r], "wr", n) <=> (v >= n \/ v = L)
  BY <1>10 DEF Aged
<1>15. ip = x + dm /\ ip \in Int /\ x \in Int
  BY <1>6, <1>7 DEF x
<1>16. a >= 14 /\ WrTimes(x, w, ip, l, p, u, L, cntr)
  <2>1. cntr[1] \in Nat /\ cntr[3] \in Nat
    BY <1>6, JumpsAt
  <2>2. /\ AtLeast(dram[r], "act", TRAS)
        /\ x <= 46 => AtLeast(dram[r], "rd", 17)
        /\ x \in 47 .. 49 => AtLeast(dram[r], "rd", x - 46)
        /\ x = 50 => AtLeast(dram[r], "rd", 52 - cntr[1])
        /\ x > 50 => AtLeast(dram[r], "rd", 17)
        /\ ip = l => u = L
        /\ x = 35 => AtLeast(dram[r], "wr", w - 2 - cntr[3])
        /\ x = 36 => AtLeast(dram[r], "wr", w - 1)
        /\ x \in 37 .. 46 => AtLeast(dram[r], "wr", w + (x - 37))
        /\ x > 46 => u = L
    BY <1>11 DEF WrPace, x
  <2> HIDE DEF a, p, u, w, dm, l
  <2> QED
    BY <1>2, <1>13, <1>14, <1>15, <2>1, <2>2 DEF WrTimes, TRAS
<1>17. SUFFICES b >= 14 /\ WrTimes(y, w, ip', l, q, v, L, cntr')
  <2>1. cntr'[1] \in Nat /\ cntr'[3] \in Nat /\ y \in Int
    <3>1. ip' \in Int
      <4>1. ip' \in {ip + 1, jump[0], jump[1], jump[2], jump[3]}
        BY <1>2, <1>6, <1>7, <1>15 DEF Onward, Round, Returns
      <4>2. jump[0] \in Int /\ jump[1] \in Int /\ jump[2] \in Int /\ jump[3] \in Int
        BY <1>1, JumpsAt DEF EngineTypeOK, Addresses
      <4> QED
        BY <1>15, <4>1, <4>2
    <3> QED
      BY <1>6, <1>7, <3>1, JumpsAt
  <2>2. ASSUME WrTimes(y, w, ip', l, q, v, L, cntr'), b >= 14
        PROVE  /\ AtLeast(dram'[r], "act", TRAS)
               /\ y <= 46 => AtLeast(dram'[r], "rd", 17)
               /\ y \in 47 .. 49 => AtLeast(dram'[r], "rd", y - 46)
               /\ y = 50 => AtLeast(dram'[r], "rd", 52 - cntr'[1])
               /\ y > 50 => AtLeast(dram'[r], "rd", 17)
               /\ ip' = label => v = L
               /\ y = 35 => AtLeast(dram'[r], "wr", w - 2 - cntr'[3])
               /\ y = 36 => AtLeast(dram'[r], "wr", w - 1)
               /\ y \in 37 .. 46 => AtLeast(dram'[r], "wr", w + (y - 37))
               /\ y > 46 => v = L
    <3> HIDE DEF b, q, v, w, dm, y
    <3> QED
      BY <1>2, <1>13, <1>14, <2>1, <2>2 DEF WrTimes, TRAS
  <2>3. ASSUME WrTimes(y, w, ip', l, q, v, L, cntr'), b >= 14
        PROVE  WrPace(dram[r])'
    BY <1>1, <1>11, <1>12, <2>2, <2>3 DEF WrPace
  <2> QED
    BY <2>3
<1> HIDE DEF a, b, p, q, u, v, w, l, dm
<1>18. b >= 14 /\ l \in Int /\ (l = IF w = 1 THEN 33 + dm ELSE 34 + dm)
  BY <1>2, <1>5, <1>7, <1>13, <1>16 DEF WrNumbers
<1>19. x # 52
  BY <1>6, <1>7, <1>15 DEF Returns
<1>20. cntr[1] \in Nat /\ cntr[3] \in Nat /\ cntr'[1] \in Nat /\ cntr'[3] \in Nat
  BY <1>6, JumpsAt
<1>21. CASE x \in 36 .. 49
  <2>1. y = x + 1 /\ cntr' = cntr /\ ip' # l
    BY <1>6, <1>7, <1>15, <1>18, <1>21 DEF Onward
  <2>2. x > 46 => cntr[1] = 48
    BY <1>5, <1>7, <1>15, <1>21 DEF WrNumbers
  <2>3. L = w + 10
    BY DEF L
  <2> HIDE DEF y
  <2> QED
    BY <1>2, <1>11, <1>13, <1>14, <1>15, <1>16, <1>18, <1>20, <1>21, <2>1, <2>2, <2>3 DEF WrTimes
<1>22. CASE x = 51
  <2>1. y \in {l - dm, 52}
    BY <1>5, <1>6, <1>7, <1>15, <1>22 DEF WrNumbers, Round
  <2>2. q >= 17 /\ v = L
    BY <1>11, <1>13, <1>14, <1>16, <1>22 DEF WrTimes
  <2>3. y \in {33, 34, 52}
    BY <1>2, <2>1
  <2> HIDE DEF y
  <2> QED
    BY <1>18, <2>2, <2>3 DEF WrTimes
<1>23. CASE x = 50
  <2>1. Round(1, 50 + dm)
    BY <1>5, <1>6, <1>7, <1>15, <1>23 DEF WrNumbers
  <2>2. \/ cntr[1] # 0 /\ y = 50 /\ cntr'[1] = cntr[1] - 1
        \/ cntr[1] = 0 /\ y = 51
    BY <1>7, <1>15, <1>23, <2>1 DEF Round
  <2>8. ip' = l => v = L
    BY <1>11, <1>14, <1>16, <1>23 DEF WrTimes
  <2>4. v = L
    BY <1>11, <1>14, <1>16, <1>23 DEF WrTimes
  <2>5. p >= 52 - cntr[1] \/ p = 17
    BY <1>16, <1>23 DEF WrTimes
  <2> HIDE DEF y
  <2>6. CASE cntr[1] # 0 /\ y = 50 /\ cntr'[1] = cntr[1] - 1
    <3>1. q >= 52 - cntr'[1] \/ q = 17
      BY <1>13, <1>20, <1>23, <2>5, <2>6
    <3> QED
      BY <1>13, <1>18, <1>23, <2>4, <2>6, <2>8, <3>1 DEF WrTimes
  <2>7. CASE cntr[1] = 0 /\ y = 51
    <3>1. q >= 17
      BY <1>13, <1>23, <2>5, <2>7
    <3> QED
      BY <1>13, <1>18, <2>4, <2>7, <2>8, <3>1 DEF WrTimes
  <2> QED
    BY <1>18, <2>2, <2>6, <2>7
<1>24. CASE x \in {33, 34}
  <2>1. Round(2, jump[2])
    BY <1>6, <1>7, <1>15, <1>24
  <2>2. q >= 17 /\ v = 1
    BY <1>13, <1>14, <1>16, <1>24 DEF WrTimes
  <2>3. CASE w <= 2
    <3>1. ip = l /\ jump[2] = (IF w = 1 THEN 37 ELSE 36) + dm /\ cntr[2] >= cntr[0] + 1
      <4>1. ip \notin Returns
        BY <1>6
      <4>2. ip = l
        BY <1>2, <1>5, <1>7, <1>15, <1>18, <1>24, <2>3 DEF WrNumbers
      <4> QED
        BY <1>5, <2>3, <4>1, <4>2 DEF WrNumbers
    <3>2. cntr[2] # 0 /\ cntr[0] \in Nat /\ cntr[2] \in Nat
      BY <1>6, <3>1, JumpsAt
    <3>3. y = (IF w = 1 THEN 37 ELSE 36) /\ ip' # l
      BY <1>2, <1>7, <1>18, <2>1, <3>1, <3>2 DEF Round
    <3> HIDE DEF y
    <3> QED
      BY <1>2, <1>18, <2>2, <2>3, <3>3 DEF WrTimes
  <2>4. CASE w > 2
    <3>1. cntr[2] = 0 /\ cntr[3] = w - 3 /\ ip = 34 + dm
      BY <1>2, <1>5, <1>7, <1>15, <1>18, <1>24, <2>4 DEF WrNumbers
    <3>2. y = 35 /\ cntr'[3] = cntr[3] /\ ip' # l
      BY <1>2, <1>7, <1>18, <2>1, <2>4, <3>1, JumpsAt DEF Round
    <3> HIDE DEF y
    <3> QED
      BY <1>2, <1>18, <2>2, <2>4, <3>1, <3>2 DEF WrTimes
  <2> QED
    BY <1>2, <2>3, <2>4
<1>25. CASE x = 35
  <2>1. w > 2 /\ jump[3] = 35 + dm
    BY <1>2, <1>5, <1>7, <1>15, <1>18, <1>25 DEF WrNumbers
  <2>2. Round(3, 35 + dm)
    BY <1>6, <1>7, <1>15, <1>25, <2>1
  <2>3. q >= 17 /\ (u >= (w - 2) - cntr[3] \/ u = L)
    BY <1>13, <1>16, <1>25 DEF WrTimes
  <2>4. CASE cntr[3] # 0 /\ ip' = 35 + dm /\ cntr'[3] = cntr[3] - 1
    <3>1. y = 35 /\ ip' # l
      BY <1>7, <1>18, <2>4
    <3>2. v >= (w - 2) - cntr'[3] \/ v = L
      BY <1>2, <1>11, <1>14, <1>20, <1>25, <2>3, <2>4
    <3> HIDE DEF y
    <3> QED
      BY <1>2, <1>18, <2>3, <3>1, <3>2 DEF WrTimes
  <2>5. CASE cntr[3] = 0 /\ ip' = ip + 1
    <3>1. y = 36 /\ ip' # l
      BY <1>7, <1>15, <1>18, <1>25, <2>5
    <3>2. v >= w - 1 \/ v = L
      BY <1>2, <1>11, <1>14, <1>20, <1>25, <2>3, <2>5
    <3> HIDE DEF y
    <3> QED
      BY <1>2, <1>18, <2>3, <3>1, <3>2 DEF WrTimes
  <2> QED
    BY <2>2, <2>4, <2>5 DEF Round
<1> QED
  BY <1>2, <1>15, <1>19, <1>21, <1>22, <1>23, <1>24, <1>25

(* A rank comes to rest in a clock, if no row and no write is added.       *)
LEMMA ComesToRest ==
    ASSUME board \in Boards, DramInv, BuiltInv, Clocked, NEW r \in Ranks,
           AtLeast(dram[r], "act", 14), AtLeast(dram[r], "wr", 34),
           Sent(r).kind # "act", Sent(r).kind # "write"
    PROVE  Rested(dram[r])'
<1> DEFINE a == dram[r].since["act"]
           b == dram'[r].since["act"]
           u == dram[r].since["wr"]
           v == dram'[r].since["wr"]
           L == Wlat + 10
<1>1. /\ Aged(r, "act", 14, Sent(r).kind = "act")
      /\ Aged(r, "wr", L, Sent(r).kind = "write")
  BY BurstAges
<1>2. Wlat \in 1 .. 25 /\ Wlat' = Wlat /\ Limit("wr", Wlat) = L
  <2>1. Wlat \in 1 .. 25
    BY BoardTimes
  <2>2. Wlat' = Wlat
    BY DEF Clocked, cpuVars, Wlat
  <2> QED
    BY <2>1, <2>2, LimitIs
<1>3. L \in Nat /\ L <= 35
  BY <1>2
<1> HIDE DEF L
<1>4. /\ a \in 0 .. 14 /\ b = IF a + 1 < 14 THEN a + 1 ELSE 14
      /\ a >= 14 \/ a = 14
      /\ u \in 0 .. L /\ v = IF u + 1 < L THEN u + 1 ELSE L
      /\ u >= 34 \/ u = L
  BY <1>1 DEF Aged
<1>5. b = 14 /\ v = L
  <2> HIDE DEF a, b, u, v
  <2> QED
    BY <1>3, <1>4
<1> QED
  BY <1>2, <1>5 DEF Rested, TRAS

LEMMA RestedIs ==
    ASSUME board \in Boards, BuiltInv, NEW r \in Ranks, Rested(dram[r])
    PROVE  \A n \in Int : AtLeast(dram[r], "act", n) /\ AtLeast(dram[r], "wr", n)
<1>1. Limit("act", Wlat) = 14 /\ dram[r].wlat = Wlat
  BY BoardTimes, LimitIs, SinceIs, EventsAre
<1> QED
  BY <1>1 DEF Rested, AtLeast, TRAS

(* It stays at rest in a write.                                            *)
LEMMA RestedOn ==
    ASSUME board \in Boards, DramInv, BuiltInv, Write, NEW r \in Ranks, Rested(dram[r])
    PROVE  Rested(dram[r])'
<1>1. Limit("act", Wlat) = 14
  BY BoardTimes, LimitIs
<1>2. Wlat' = Wlat
  BY DEF Write, Wlat
<1>3. dram'[r].since["act"] = 14
  BY <1>1, Rests, EventsAre DEF Rested, TRAS
<1>4. dram'[r].since["wr"] = Limit("wr", Wlat)
  BY Rests, EventsAre DEF Rested
<1> QED
  BY <1>2, <1>3, <1>4 DEF Rested, TRAS

(* At the end of a run that opens rows or bursts, it comes to rest.        *)
LEMMA RunRests ==
    ASSUME CommandInv, DramInv, BuiltInv, PaceInv, Clocked, ~running',
           label \in Bursts \cup {ACTIVATE_0_AND_1}, NEW r \in selected
    PROVE  Rested(dram[r])'
<1>1. /\ label \in Entries /\ ip \in Block(label) /\ EngineTypeOK /\ Play /\ running
  BY Clocking
<1>2. ip \in Returns
  BY <1>1, PlayEnds
<1>3. label \notin Holds \cup Idles
  BY RunLabels DEF ACTIVATE_0_AND_1
<1>4. r \in Ranks /\ Sent(r) = Command /\ board \in Boards /\ Wlat \in 1 .. 25
  BY <1>3, Chosen
<1>5. \/ label = 13 \/ label = 24 \/ label \in {73, 76, 89} \/ label \in WriteTests
  BY RunLabels DEF ACTIVATE_0_AND_1
<1>6. Limit("act", Wlat) = 14 /\ dram[r].wlat = Wlat
  BY <1>4, LimitIs, SinceIs, EventsAre
<1>7. dram[r].since["wr"] = Limit("wr", Wlat) => AtLeast(dram[r], "wr", 34)
  BY <1>6 DEF AtLeast
<1>8. /\ AtLeast(dram[r], "act", 14) /\ AtLeast(dram[r], "wr", 34)
      /\ Command.kind = "none"
  <2>1. CASE label = 13
    <3>1. ip = 17
      BY <1>1, <1>2, <2>1, BlocksOf DEF ACTIVATE_0_AND_1, Returns
    <3>2. ActPace(dram[r])
      BY <1>1, <2>1 DEF PaceInv, ACTIVATE_0_AND_1
    <3> QED
      BY <1>7, <3>1, <3>2, RomRows DEF ActPace, TRAS, Command, Silent
  <2>2. CASE label = 24
    <3>1. ip = 32
      BY <1>1, <1>2, <2>2, BlocksOf DEF GUARANTEED_WRITE, Returns
    <3>2. GwPace(dram[r])
      BY <1>1, <2>2 DEF PaceInv, GUARANTEED_WRITE
    <3> QED
      BY <3>1, <3>2, RomGuaranteed DEF GwPace, TRAS, Command, Silent
  <2>3. CASE label \in {73, 76, 89}
    <3>1. ip \in {75, 88, 110}
      <4>1. label \in {CLEAR_DQS_ENABLE, GUARANTEED_READ, READ_B2B}
        BY <2>3 DEF CLEAR_DQS_ENABLE, GUARANTEED_READ, READ_B2B
      <4>2. ip \in 73 .. 110
        BY <1>1, <4>1, BlocksOf
      <4> QED
        BY <1>2, <4>2 DEF Returns
    <3>2. RdPace(dram[r])
      BY <1>1, <2>3 DEF PaceInv, CLEAR_DQS_ENABLE, GUARANTEED_READ, READ_B2B
    <3>3. Silent(ip)
      BY <3>1, RomReads
    <3> QED
      BY <1>7, <3>2, <3>3 DEF RdPace, TRAS, Command, Silent
  <2>4. CASE label \in WriteTests
    <3>1. Dm(label) \in {0, 20} /\ ip - Dm(label) \in 33 .. 52 /\ ip \in Addresses
      BY <1>1, <2>4, BlocksOf
    <3>2. ip = 52 + Dm(label)
      BY <1>2, <3>1 DEF Returns, Addresses
    <3>3. WrPace(dram[r])
      BY <1>1, <2>4 DEF PaceInv
    <3>4. Silent(ip)
      BY <3>1, <3>2, RomWriteTest
    <3>5. ip - Dm(label) > 46
      BY <3>1, <3>2
    <3> QED
      BY <1>7, <3>3, <3>4, <3>5 DEF WrPace, TRAS, Command, Silent
  <2> QED
    BY <1>5, <2>1, <2>2, <2>3, <2>4
<1> QED
  BY <1>4, <1>8, ComesToRest

LEMMA RestClock ==
    ASSUME CommandInv, DramInv, BuiltInv, RestInv, PaceInv, Clocked
    PROVE  RestInv'
<1>1. /\ label \in Entries /\ ip \in Block(label) /\ running /\ board \in Boards
      /\ Live' = Live /\ Live \subseteq Ranks /\ label' = label /\ selected' = selected
      /\ label \notin Holds \cup Idles => \E r \in Live : selected = {r}
  BY Clocking
<1> SUFFICES ASSUME NEW r \in Live
             PROVE  \/ running' /\ selected' = {r} /\ label' \in Bursts \cup {ACTIVATE_0_AND_1}
                    \/ Rested(dram[r])'
  BY <1>1 DEF RestInv
<1>2. ASSUME Rested(dram[r]), Sent(r).kind # "act", Sent(r).kind # "write"
      PROVE  Rested(dram[r])'
  <2>1. AtLeast(dram[r], "act", 14) /\ AtLeast(dram[r], "wr", 34)
    BY <1>1, <1>2, RestedIs
  <2> QED
    BY <1>1, <1>2, <2>1, ComesToRest
<1>3. CASE label \notin Bursts \cup {ACTIVATE_0_AND_1}
  <2>1. Rested(dram[r])
    BY <1>3 DEF RestInv
  <2>2. Command.kind # "write"
    BY <1>1, <1>3, KindsSent
  <2>3. Command.kind # "act"
    <3>1. label \in HandRuns \/ label \in Holds
      BY <1>1, <1>3 DEF Entries, HandRuns, Rows
    <3>2. label \in Holds => Command.kind \in Quiet
      BY <1>1, Kinds
    <3> QED
      BY <1>1, <3>1, <3>2, KindsSent DEF Quiet
  <2>4. Sent(r).kind # "act" /\ Sent(r).kind # "write"
    BY <2>2, <2>3, KindOf DEF Sent
  <2> QED
    BY <1>2, <2>1, <2>4
<1>4. CASE label \in Bursts \cup {ACTIVATE_0_AND_1}
  <2>1. PICK x \in Live : selected = {x}
    <3>1. label \notin Holds \cup Idles
      BY <1>4, RunLabels DEF ACTIVATE_0_AND_1
    <3> QED
      BY <1>1, <3>1
  <2>2. CASE r = x
    <3>1. r \in selected
      BY <2>1, <2>2
    <3>2. ~running' => Rested(dram[r])'
      BY <1>4, <3>1, RunRests
    <3> QED
      BY <1>1, <1>4, <2>1, <2>2, <3>2
  <2>3. CASE r # x
    <3>1. Rested(dram[r])
      BY <2>1, <2>3 DEF RestInv
    <3>2. Sent(r).kind = "none"
      BY <2>1, <2>3, KindOf
    <3> QED
      BY <1>2, <3>1, <3>2
  <2> QED
    BY <2>2, <2>3
<1> QED
  BY <1>3, <1>4

LEMMA RestStep ==
    ASSUME CommandInv, DramInv, BuiltInv, RestInv, PaceInv, [CNext]_vars
    PROVE  RestInv'
<1>1. CASE UNCHANGED vars
  <2>1. /\ running' = running /\ selected' = selected /\ label' = label /\ dram' = dram
        /\ Live' = Live /\ Wlat' = Wlat
    BY <1>1, Stays
  <2> QED
    BY <2>1 DEF RestInv, Rested
<1>2. CASE Procedures
  <2>1. /\ running' = running /\ selected' = selected /\ label' = label /\ dram' = dram
        /\ Live' = Live /\ Wlat' = Wlat
    BY <1>2, Beginning
  <2> QED
    BY <2>1 DEF RestInv, Rested
<1>3. CASE Write
  <2>1. ~running /\ Live' = Live /\ Live \subseteq Ranks /\ board \in Boards
    BY <1>3, WriteStays
  <2>2. \A r \in Live : Rested(dram[r])'
    BY <1>3, <2>1, RestedOn DEF RestInv
  <2> QED
    BY <2>1, <2>2 DEF RestInv
<1> QED
  BY <1>1, <1>2, <1>3, RestClock DEF CNext

(* Nothing was sent since so many writes.                                  *)
LEMMA Paused ==
    ASSUME CommandInv, DramInv, BuiltInv, CalmInv, Write, NEW c, NEW s, Moves(c, s),
           NEW k \in 0 .. 4, Pause(s, at - 1, k), NEW r \in Ranks, NEW e \in Events,
           NEW n \in Int, n <= 4 * k + 4
    PROVE  AtLeast(dram'[r], e, n)
<1>1. ~running /\ board \in Boards /\ WriteClocks \in Nat /\ WriteClocks >= 4
  BY WriteStays, BoardTimes
<1>2. s = Writes(Head(calls)) /\ calls # <<>>
  BY DEF Moves
<1>3. AtLeast(dram[r], e, 4 * k)
  BY <1>1, <1>2 DEF CalmInv
<1>4. 4 * k \in Int
  OBVIOUS
<1>5. AtLeast(dram'[r], e, 4 * k + WriteClocks) /\ dram'[r].since[e] \in Nat
  BY <1>1, <1>3, <1>4, Rests
<1> QED
  BY <1>1, <1>4, <1>5, Less

LEMMA PaceRun ==
    ASSUME CommandInv, CommandInv', DramInv, BuiltInv, CalmInv, RestInv, Write
    PROVE  PaceInv'
<1>1. PICK c, s : Moves(c, s)
  BY Moving
<1>2. /\ ~running /\ board \in Boards /\ Ranks' = Ranks /\ Wlat' = Wlat /\ Live' = Live
      /\ Live \subseteq Ranks
  BY WriteStays
<1>3. /\ at \in 1 .. Len(s) /\ Len(s) \in Nat /\ Exact(s, at)
      /\ s[at].op = "run" => label' = s[at].val /\ ip' = label' /\ s[at] = RunReg(s[at].val)
      /\ s[at].op # "run" => ~running'
  BY <1>1 DEF Moves
<1> SUFFICES ASSUME running', NEW r \in selected'
             PROVE  /\ label' = ACTIVATE_0_AND_1 => ActPace(dram[r])'
                    /\ label' = GUARANTEED_WRITE => GwPace(dram[r])'
                    /\ label' \in {GUARANTEED_READ, READ_B2B, CLEAR_DQS_ENABLE} => RdPace(dram[r])'
                    /\ label' \in WriteTests => WrPace(dram[r])'
  BY <1>2 DEF PaceInv
<1>4. s[at].op = "run" /\ label' = s[at].val /\ ip' = label' /\ at - 1 \in Nat
  BY <1>3
<1> SUFFICES ASSUME label' \in Bursts \cup {13}
             PROVE  /\ label' = ACTIVATE_0_AND_1 => ActPace(dram[r])'
                    /\ label' = GUARANTEED_WRITE => GwPace(dram[r])'
                    /\ label' \in {GUARANTEED_READ, READ_B2B, CLEAR_DQS_ENABLE} => RdPace(dram[r])'
                    /\ label' \in WriteTests => WrPace(dram[r])'
  BY RunLabels DEF ACTIVATE_0_AND_1, GUARANTEED_WRITE, GUARANTEED_READ, READ_B2B,
                   CLEAR_DQS_ENABLE
<1>5. label' \notin Holds \cup Idles
  BY RunLabels
<1>6. PICK x \in Live' : selected' = {x}
  BY <1>5 DEF CommandInv, RunInv, Addressee
<1>7. r \in Live /\ r \in Ranks
  BY <1>2, <1>6
<1>8. Rested(dram[r])'
  <2>1. Rested(dram[r])
    BY <1>2, <1>7 DEF RestInv
  <2> QED
    BY <1>2, <1>7, <2>1, RestedOn
<1>9. dram'[r].since["act"] = 14 /\ dram'[r].since["wr"] = Limit("wr", Wlat')
  BY <1>8 DEF Rested, TRAS
<1>10. BuiltInv'
  BY <1>2, BuiltStep DEF CNext
<1>11. dram'[r].wlat = Wlat
  BY <1>2, <1>7, <1>10 DEF BuiltInv
<1>12. /\ \A n \in Int : AtLeast(dram'[r], "act", n)
       /\ \A n \in Int : AtLeast(dram'[r], "wr", n)
  <2>1. Limit("act", Wlat) = 14
    BY <1>2, BoardTimes, LimitIs
  <2> QED
    BY <1>2, <1>9, <1>11, <2>1 DEF AtLeast
<1>13. \A e \in Events, n \in Int, k \in 0 .. 4 :
           Pause(s, at - 1, k) /\ n <= 4 * k + 4 => AtLeast(dram'[r], e, n)
  BY <1>1, <1>7, Paused
<1>14. CASE label' = 13
  <2>1. Pause(s, at - 1, 2)
    BY <1>3, <1>4, <1>14 DEF Exact, ActivateExact, ACTIVATE_0_AND_1
  <2>2. AtLeast(dram'[r], "pre", 6)
    BY <1>13, <2>1, EventsAre
  <2>3. ip' = 13
    BY <1>4, <1>14
  <2>4. ActPace(dram[r])'
    BY <1>9, <1>12, <2>2, <2>3 DEF ActPace, TRP, TRAS
  <2> QED
    BY <1>14, <2>4, RunLabels DEF GUARANTEED_WRITE, GUARANTEED_READ, READ_B2B,
                                  CLEAR_DQS_ENABLE
<1>15. CASE label' = 24
  <2>1. Pause(s, at - 1, 4)
    BY <1>3, <1>4, <1>15 DEF Exact, PatternExact, GUARANTEED_WRITE
  <2>2. AtLeast(dram'[r], "rd", 17)
    BY <1>13, <2>1, EventsAre
  <2>3. ip' = 24
    BY <1>4, <1>15
  <2>4. GwPace(dram[r])'
    BY <1>12, <2>2, <2>3 DEF GwPace, TRAS
  <2> QED
    BY <1>15, <2>4, RunLabels DEF ACTIVATE_0_AND_1, GUARANTEED_READ, READ_B2B,
                                  CLEAR_DQS_ENABLE
<1>16. CASE label' \in {73, 76, 89}
  <2>1. Pause(s, at - 1, 0)
    BY <1>4 DEF Pause
  <2>2. AtLeast(dram'[r], "rd", 4)
    BY <1>13, <2>1, EventsAre
  <2>3. ip' \in {73, 76, 89}
    BY <1>4, <1>16
  <2>4. RdPace(dram[r])'
    BY <1>9, <1>12, <2>2, <2>3 DEF RdPace, TRAS
  <2> QED
    BY <1>16, <2>4, RunLabels DEF ACTIVATE_0_AND_1, GUARANTEED_WRITE
<1>17. CASE label' \in WriteTests
  <2>1. Pause(s, at - 1, 4)
    BY <1>3, <1>4, <1>17 DEF Exact, WriteExact
  <2>2. AtLeast(dram'[r], "rd", 17)
    BY <1>13, <2>1, EventsAre
  <2>3. ip' = label' /\ ip' - Dm(label') \in {33, 34}
    <3>1. label' \in {33, 34, 53, 54}
      BY <1>17, RunLabels
    <3> QED
      BY <1>4, <3>1 DEF Dm, WRITE, DmBlock
  <2>4. WrPace(dram[r])'
    BY <1>9, <1>12, <2>2, <2>3 DEF WrPace, TRAS
  <2> QED
    BY <1>17, <2>4, RunLabels DEF ACTIVATE_0_AND_1, GUARANTEED_WRITE, GUARANTEED_READ,
                                  READ_B2B, CLEAR_DQS_ENABLE
<1> QED
  BY <1>14, <1>15, <1>16, <1>17, RunLabels

LEMMA PaceStep ==
    ASSUME CommandInv, CommandInv', DramInv, BuiltInv, TunedInv, CalmInv, RestInv, PaceInv,
           [CNext]_vars
    PROVE  PaceInv'
<1>1. CASE UNCHANGED vars
  <2>1. /\ running' = running /\ selected' = selected /\ label' = label /\ dram' = dram
        /\ ip' = ip /\ cntr' = cntr /\ Wlat' = Wlat
    BY <1>1, Stays
  <2> QED
    BY <2>1 DEF PaceInv, ActPace, GwPace, RdPace, WrPace
<1>2. CASE Procedures
  <2>1. ~running'
    BY <1>2, Beginning
  <2> QED
    BY <2>1 DEF PaceInv
<1>3. CASE Clocked
  <2>1. running /\ label' = label /\ selected' = selected
    BY <1>3, Clocking
  <2> SUFFICES ASSUME running', NEW r \in selected
               PROVE  /\ label = ACTIVATE_0_AND_1 => ActPace(dram[r])'
                      /\ label = GUARANTEED_WRITE => GwPace(dram[r])'
                      /\ label \in {GUARANTEED_READ, READ_B2B, CLEAR_DQS_ENABLE} =>
                            RdPace(dram[r])'
                      /\ label \in WriteTests => WrPace(dram[r])'
    BY <2>1 DEF PaceInv
  <2>2. /\ label = ACTIVATE_0_AND_1 => ActPace(dram[r])
        /\ label = GUARANTEED_WRITE => GwPace(dram[r])
        /\ label \in {GUARANTEED_READ, READ_B2B, CLEAR_DQS_ENABLE} => RdPace(dram[r])
        /\ label \in WriteTests => WrPace(dram[r])
    BY <2>1 DEF PaceInv
  <2> QED
    BY <1>3, <2>2, ActPaces, GwPaces, RdPaces, WrPaces
<1> QED
  BY <1>1, <1>2, <1>3, PaceRun DEF CNext

(* The words of the two runs that hold the memory in reset, and CKE low.   *)
LEMMA RomHolds ==
    ASSUME label \in Holds, ip \in Block(label)
    PROVE  Command.kind = IF label = 111 THEN "reset" ELSE "cke_low"
<1>1. label \in {111, 116}
  BY RunLabels
<1>2. ip \in label .. label + 4
  BY <1>1 DEF Block, Holds, Idles, WRITE_WL_1, WRITE, DmBlock, ACTIVATE_0_AND_1, PRECHARGE_ALL,
     GUARANTEED_WRITE, CLEAR_DQS_ENABLE, GUARANTEED_READ, READ_B2B, INIT_RESET_0_CKE_0,
     INIT_RESET_1_CKE_0, IDLE_LOOP2, IDLE_LOOP1, Modes
<1>3. ip - 72 \in 1 .. 54 /\ 73 + (ip - 72) = ip + 1
  BY <1>1, <1>2
<1>4. AcWord(ip) = LastWords[ip - 72]
  BY <1>3, WordAt DEF AcWord
<1>5. /\ \A i \in 39 .. 43 : LastWords[i] = "init_reset_0_cke_0"
      /\ \A i \in 44 .. 48 : LastWords[i] = "init_reset_1_cke_0"
  BY DEF LastWords
<1>6. /\ Decode("init_reset_0_cke_0") = At("reset", 0, 0)
      /\ Decode("init_reset_1_cke_0") = At("cke_low", 0, 0)
  BY DEF Decode
<1>7. CASE label = 111
  <2>1. ip - 72 \in 39 .. 43
    BY <1>2, <1>7
  <2>2. AcWord(ip) = "init_reset_0_cke_0"
    BY <1>4, <1>5, <2>1
  <2> QED
    BY <1>6, <1>7, <2>2, AtIs DEF Command
<1>8. CASE label = 116
  <2>1. ip - 72 \in 44 .. 48
    BY <1>2, <1>8
  <2>2. AcWord(ip) = "init_reset_1_cke_0"
    BY <1>4, <1>5, <2>1
  <2> QED
    BY <1>6, <1>8, <2>2, AtIs DEF Command
<1> QED
  BY <1>1, <1>7, <1>8

(* A rank that is held for another clock.                                  *)
LEMMA HeldOn ==
    ASSUME board \in Boards, DramInv, BuiltInv, Clocked, NEW r \in Ranks, NEW k,
           k \in {"reset", "cke_low"}, Sent(r).kind = k, NEW n \in Nat,
           n # 0 => dram[r].phase = k /\ HeldFor(dram[r], n)
    PROVE  /\ dram'[r].phase = k /\ HeldFor(dram'[r], n + 1)
           /\ dram'[r].tinit = Tinit /\ dram'[r].treset = Treset
           /\ dram'[r].held \in Nat
<1> DEFINE d == dram[r]
           e == dram'[r]
           t == Tinit + Treset
<1>1. e.phase = k
  <2>1. e.phase = PhaseAfter(d, Sent(r))
    BY ClockDram
  <2> HIDE DEF Sent
  <2> QED
    BY <2>1 DEF PhaseAfter
<1>2. /\ d.tinit = Tinit /\ d.treset = Treset /\ e.tinit = Tinit /\ e.treset = Treset
      /\ d.held \in Nat /\ e.held \in Nat
      /\ e.held = IF e.phase # d.phase THEN 1
                  ELSE IF d.held < d.tinit + d.treset THEN d.held + 1 ELSE d.held
  <2>1. /\ e.tinit = d.tinit /\ e.treset = d.treset /\ Timely(d) /\ Timely(e)
        /\ e.held = IF PhaseAfter(d, Sent(r)) # d.phase THEN 1
                    ELSE IF d.held < d.tinit + d.treset THEN d.held + 1 ELSE d.held
    BY ClockedTimes
  <2>2. e.phase = PhaseAfter(d, Sent(r))
    BY ClockDram
  <2>3. d.tinit = Tinit /\ d.treset = Treset
    BY DEF BuiltInv
  <2> QED
    BY <2>1, <2>2, <2>3 DEF Timely
<1>3. t \in Nat
  BY BoardTimes
<1>4. e.held = IF k # d.phase THEN 1 ELSE IF d.held < t THEN d.held + 1 ELSE d.held
  BY <1>1, <1>2
<1>5. n # 0 => d.phase = k /\ (d.held >= n \/ d.held >= t)
  BY <1>2 DEF HeldFor
<1>6. e.held >= n + 1 \/ e.held >= t
  <2> HIDE DEF d, e, t
  <2> QED
    BY <1>2, <1>3, <1>4, <1>5
<1> QED
  BY <1>1, <1>2, <1>6 DEF HeldFor

LEMMA ResetCases ==
    ASSUME board \in Boards, NEW c \in Parts, c.proc = "reset"
    PROVE  LET s == Writes(c)
           IN ResetExact(s) /\ Led(s, SelectAll, ResetRuns)
<1>1. Writes(c) = ResetMemory
  BY DEF Writes
<1> QED
  BY <1>1, ResetIs, OtherParts

(* The memory is held in reset and then with CKE low.                      *)
LEMMA HeldHolding ==
    ASSUME NEW s, NEW n \in Nat, NEW a \in Addresses, NEW cs,
           \A c \in 1 .. 3 : cs[c] \in 0 .. MaxCntr,
           Register(s, n), HoldExact(s, n, a, cs), Run(a)
    PROVE  Holding(a, cs)' /\ elapsed' = 0
<1>1. \A c \in 0 .. 2 : c \in Cntrs /\ c + 1 \in 1 .. 3
  BY DEF Cntrs
<1>2. label' = a /\ elapsed' = 0 /\ first' = cntr /\ reload' = reload /\ jump' = jump
  BY DEF Run
<1>3. ASSUME NEW c \in 0 .. 2 PROVE jump[c] = a /\ cntr[c] = cs[c + 1] /\ reload[c] = cs[c + 1]
  <2>1. Aimed(s, n, c, {a}) /\ Loaded(s, n, c, cs[c + 1])
    BY DEF HoldExact, AimedTo
  <2>2. c \in Cntrs /\ cs[c + 1] \in 0 .. MaxCntr
    BY <1>1
  <2> QED
    BY <2>1, <2>2 DEF Register
<1> QED
  BY <1>2, <1>3 DEF Holding

LEMMA PowerWrite ==
    ASSUME CommandInv, DramInv, FirstInv, FirstInv', BuiltInv, PowerInv, Write
    PROVE  PowerInv'
<1>1. PICK c, s : Moves(c, s)
  BY Moving
<1>2. PICK d \in {0, 1} :
              /\ Len(calls') = Len(calls) - d /\ Len(calls) \in Nat \ {0}
              /\ \A i \in 1 .. Len(calls') : calls'[i] = calls[i + d] /\ i + d \in 1 .. Len(calls)
              /\ IF d = 0 THEN /\ at < Len(s) /\ at' = at + 1 /\ calls' = calls
                               /\ Writes(Head(calls))' = s
                          ELSE at = Len(s) /\ at' = 1
  BY <1>1, Remain
<1>3. /\ c \in Parts /\ c = calls[1] /\ c = Head(calls) /\ s = Writes(c) /\ calls # <<>>
      /\ at \in 1 .. Len(s) /\ Len(s) \in Nat
      /\ s[at] \in Fits /\ Effect(s[at]) /\ Register(s, at - 1)
      /\ s[at].op = "run" =>
            Run(s[at].val) /\ s[at] = RunReg(s[at].val) /\ label' = s[at].val /\ running'
      /\ s[at].op # "run" => ~running'
  BY <1>1 DEF Moves
<1>4. /\ ~running /\ Ranks' = Ranks /\ board \in Boards
  BY WriteStays
<1>5. c.proc = "reset" => ResetExact(s) /\ Led(s, SelectAll, ResetRuns) /\ Len(s) = 19
  BY <1>3, <1>4, ResetCases DEF ResetExact
<1>6. ASSUME running', label' \in Holds PROVE Resetting'
  <2>1. s[at] = RunReg(label') /\ s[at].op = "run" /\ s[at].val = label'
    BY <1>3, <1>6
  <2>2. c.proc = "reset"
    BY <1>3, <1>4, <1>6, <2>1, HoldsInReset
  <2>3. at # 19
    <3>1. s[19].val = 123 /\ label' \in {111, 116}
      BY <1>5, <1>6, <2>2, RunLabels, WritesAre DEF ResetExact, IDLE_LOOP1
    <3> QED
      BY <2>1, <3>1
  <2>4. d = 0
    BY <1>2, <1>5, <2>2, <2>3
  <2> QED
    BY <1>2, <1>3, <2>2, <2>4 DEF Resetting
<1>7. SUFFICES ASSUME Resetting'
               PROVE  /\ at' > 1 => selected' = Ranks
                      /\ running' => at' \in {9, 17}
                      /\ running' /\ at' = 9 =>
                            Holding(INIT_RESET_0_CKE_0, TinitCntrs)' /\ elapsed' = 0
                      /\ ~running' /\ at' \in 9 .. 16 => \A r \in Ranks : InResetNow(dram'[r])
                      /\ running' /\ at' = 17 =>
                            /\ Holding(INIT_RESET_1_CKE_0, TresetCntrs)' /\ elapsed' = 0
                            /\ \A r \in Ranks : InResetNow(dram'[r])
                      /\ ~running' /\ at' > 16 => \A r \in Ranks : InLow(dram'[r])
  BY <1>4, <1>6 DEF PowerInv
<1>8. d = 0 /\ c.proc = "reset"
  <2>1. calls' # <<>> /\ Head(calls').proc = "reset"
    BY <1>7 DEF Resetting
  <2>2. calls' \in Seq(Parts)
    <3>1. CallsInv'
      BY CallsStep DEF CommandInv, CNext
    <3>2. Parts' = Parts
      BY WriteStays
    <3> QED
      BY <3>1, <3>2 DEF CallsInv
  <2>3. 1 \in 1 .. Len(calls') /\ Head(calls') = calls'[1]
    BY <2>1, <2>2
  <2>4. calls'[1] = calls[1 + d] /\ 1 + d \in 1 .. Len(calls)
    BY <1>2, <2>3
  <2>5. d # 1
    <3>1. ASSUME d = 1 PROVE FALSE
      <4>1. 2 \in 2 .. Len(calls) /\ calls[2].proc = "reset"
        BY <1>2, <2>1, <2>3, <2>4, <3>1
      <4> QED
        BY <4>1 DEF FirstInv
    <3> QED
      BY <3>1
  <2>6. d = 0
    BY <1>2, <2>5
  <2> QED
    BY <1>3, <2>1, <2>3, <2>4, <2>6
<1>9. /\ ResetExact(s) /\ Led(s, SelectAll, ResetRuns) /\ Len(s) = 19
      /\ at \in 1 .. 18 /\ at' = at + 1
  <2>1. ResetExact(s) /\ Led(s, SelectAll, ResetRuns) /\ Len(s) = 19
    BY <1>5, <1>8
  <2>2. at < Len(s) /\ at' = at + 1
    BY <1>2, <1>8
  <2>3. at \in 1 .. Len(s)
    BY <1>3
  <2> QED
    BY <2>1, <2>2, <2>3
<1>10. /\ s[at].op = "run" => at \in {8, 16}
       /\ s[8] = RunReg(111) /\ s[16] = RunReg(116) /\ s[1] = SelectAll
       /\ HoldExact(s, 7, 111, TinitCntrs) /\ HoldExact(s, 15, 116, TresetCntrs)
  <2>1. at \in 1 .. 19
    BY <1>9
  <2>2. s[at].op = "run" => at \in {8, 16, 19}
    BY <1>9, <2>1 DEF ResetExact
  <2>3. s[at].op = "run" => at \in {8, 16}
    BY <1>9, <2>2
  <2> QED
    BY <1>9, <2>3 DEF ResetExact, INIT_RESET_0_CKE_0, INIT_RESET_1_CKE_0
<1>11. /\ Resetting
       /\ at > 1 => selected = Ranks
       /\ at \in 9 .. 16 => \A r \in Ranks : InResetNow(dram[r])
       /\ at > 16 => \A r \in Ranks : InLow(dram[r])
  BY <1>3, <1>4, <1>8 DEF PowerInv, Resetting
<1>12. selected' = Ranks
  <2>1. CASE at = 1
    <3>1. Effect(SelectAll)
      BY <1>3, <1>10, <2>1
    <3>2. Select(SelectAll)
      BY <3>1 DEF Effect, SelectAll
    <3> QED
      BY <3>2 DEF Select, SelectAll
  <2>2. CASE at # 1
    <3>1. at \in 2 .. Len(s)
      BY <1>9, <2>2
    <3>2. s[at] \in Body(ResetRuns)
      BY <1>9, <3>1 DEF Led
    <3>3. s[at] \in Body(Entries)
      BY <3>2, RunsWithin, BodyWithin
    <3> QED
      BY <1>3, <1>9, <1>11, <2>2, <3>3, PinsOf
  <2> QED
    BY <2>1, <2>2
<1>13. ASSUME NEW r \in Ranks
       PROVE  /\ InResetNow(dram[r]) => InResetNow(dram'[r])
              /\ InLow(dram[r]) => InLow(dram'[r])
  <2>1. /\ dram'[r].phase = dram[r].phase /\ dram'[r].held = dram[r].held
        /\ dram'[r].tinit = dram[r].tinit /\ dram'[r].treset = dram[r].treset
    BY <1>4, WrittenTimes, WriteDram
  <2> QED
    BY <2>1 DEF InResetNow, InLow
<1>14. running' => at' \in {9, 17}
  BY <1>3, <1>9, <1>10
<1>15. ASSUME running', at' = 9 PROVE Holding(INIT_RESET_0_CKE_0, TinitCntrs)' /\ elapsed' = 0
  <2>1. at = 8 /\ s[at].val = 111 /\ at - 1 = 7 /\ 7 \in Nat
    BY <1>9, <1>10, <1>15, WritesAre
  <2>2. Run(111) /\ Register(s, 7)
    BY <1>3, <1>15, <2>1
  <2>3. \A x \in 1 .. 3 : TinitCntrs[x] \in 0 .. MaxCntr
    BY CommandsAssumption
  <2>4. 111 \in Addresses
    BY DEF Addresses
  <2> QED
    BY <1>10, <2>1, <2>2, <2>3, <2>4, HeldHolding DEF INIT_RESET_0_CKE_0
<1>16. ASSUME running', at' = 17
       PROVE  /\ Holding(INIT_RESET_1_CKE_0, TresetCntrs)' /\ elapsed' = 0
              /\ \A r \in Ranks : InResetNow(dram'[r])
  <2>1. at = 16 /\ s[at].val = 116 /\ at - 1 = 15 /\ 15 \in Nat
    BY <1>9, <1>10, <1>16, WritesAre
  <2>2. Run(116) /\ Register(s, 15)
    BY <1>3, <1>16, <2>1
  <2>3. \A x \in 1 .. 3 : TresetCntrs[x] \in 0 .. MaxCntr
    BY CommandsAssumption
  <2>4. 116 \in Addresses
    BY DEF Addresses
  <2>5. Holding(INIT_RESET_1_CKE_0, TresetCntrs)' /\ elapsed' = 0
    BY <1>10, <2>1, <2>2, <2>3, <2>4, HeldHolding DEF INIT_RESET_1_CKE_0
  <2> QED
    BY <1>11, <1>13, <2>1, <2>5
<1>17. ASSUME ~running', at' \in 9 .. 16 PROVE \A r \in Ranks : InResetNow(dram'[r])
  <2>1. at \in 8 .. 15
    BY <1>9, <1>17
  <2>3. at # 8
    BY <1>3, <1>10, <1>17, WritesAre
  <2>2. at \in 9 .. 16
    BY <2>1, <2>3
  <2> QED
    BY <1>11, <1>13, <2>2
<1>18. ASSUME ~running', at' > 16 PROVE \A r \in Ranks : InLow(dram'[r])
  <2>1. at > 15 /\ at # 16
    BY <1>3, <1>9, <1>10, <1>18, WritesAre
  <2> QED
    BY <1>9, <1>11, <1>13, <2>1
<1> QED
  BY <1>12, <1>14, <1>15, <1>16, <1>17, <1>18

LEMMA PowerClock ==
    ASSUME CommandInv, DramInv, BuiltInv, PowerInv, LoopsLastTheirCycles, Clocked
    PROVE  PowerInv'
<1>1. /\ calls' = calls /\ at' = at /\ selected' = selected /\ Ranks' = Ranks
      /\ label' = label /\ jump' = jump /\ reload' = reload /\ first' = first
      /\ running /\ Play /\ EngineTypeOK /\ label \in Entries /\ ip \in Block(label)
      /\ elapsed' = IF label \in Timed THEN elapsed + 1 ELSE 0
      /\ board \in Boards
  BY Clocking
<1>2. Resetting' = Resetting
  BY <1>1 DEF Resetting
<1>3. running' /\ label' \in Holds => Resetting'
  BY <1>1, <1>2 DEF PowerInv
<1> SUFFICES ASSUME Resetting
             PROVE  /\ at > 1 => selected = Ranks
                    /\ at \in {9, 17}
                    /\ at = 9 =>
                          /\ running' =>
                                /\ Holding(INIT_RESET_0_CKE_0, TinitCntrs)'
                                /\ elapsed' # 0 =>
                                      \A r \in Ranks : /\ dram'[r].phase = "reset"
                                                       /\ HeldFor(dram'[r], elapsed')
                          /\ ~running' => \A r \in Ranks : InResetNow(dram'[r])
                    /\ at = 17 =>
                          /\ running' =>
                                /\ Holding(INIT_RESET_1_CKE_0, TresetCntrs)'
                                /\ elapsed' # 0
                                /\ \A r \in Ranks : /\ dram'[r].phase = "cke_low"
                                                    /\ HeldFor(dram'[r], elapsed')
                          /\ ~running' => \A r \in Ranks : InLow(dram'[r])
  <2>1. at = 9 \/ at = 17 => /\ ~(at > 16) <=> at = 9
                             /\ ~(at \in 9 .. 16) <=> at = 17
    OBVIOUS
  <2> QED
    BY <1>1, <1>2, <1>3, <2>1 DEF PowerInv
<1>4. at \in {9, 17} /\ selected = Ranks
  BY <1>1 DEF PowerInv
<1>5. elapsed \in Nat
  BY <1>1 DEF EngineTypeOK
<1>6. ~running' => ip \in Returns
  BY <1>1, PlayEnds
<1>7. ASSUME at = 9
      PROVE  /\ running' =>
                 /\ Holding(INIT_RESET_0_CKE_0, TinitCntrs)'
                 /\ elapsed' # 0 =>
                       \A r \in Ranks : dram'[r].phase = "reset" /\ HeldFor(dram'[r], elapsed')
             /\ ~running' => \A r \in Ranks : InResetNow(dram'[r])
  <2>1. /\ Holding(INIT_RESET_0_CKE_0, TinitCntrs)
        /\ elapsed # 0 => \A r \in Ranks : dram[r].phase = "reset" /\ HeldFor(dram[r], elapsed)
    BY <1>1, <1>7 DEF PowerInv
  <2>2. Holding(INIT_RESET_0_CKE_0, TinitCntrs)'
    BY <1>1, <2>1 DEF Holding
  <2>3. label = 111 /\ label \in Holds /\ label \in Timed
    BY <2>1, RunLabels DEF Holding, INIT_RESET_0_CKE_0, Timed
  <2>4. elapsed' = elapsed + 1
    BY <1>1, <2>3
  <2>5. Command.kind = "reset"
    BY <1>1, <2>3, RomHolds
  <2>6. ASSUME NEW r \in Ranks
        PROVE  /\ dram'[r].phase = "reset" /\ HeldFor(dram'[r], elapsed + 1)
               /\ dram'[r].tinit = Tinit /\ dram'[r].treset = Treset
               /\ dram'[r].held \in Nat
    <3>1. Sent(r).kind = "reset"
      BY <1>4, <2>5 DEF Sent
    <3> QED
      BY <1>1, <1>5, <2>1, <3>1, HeldOn
  <2>7. ASSUME ~running', NEW r \in Ranks PROVE InResetNow(dram'[r])
    <3>1. InReset
      BY <2>1, <2>3 DEF InReset, Nested, Holding, INIT_RESET_0_CKE_0
    <3>2. elapsed + 1 = ResetCycles(reload[0], reload[1], reload[2])
      BY <1>1, <1>6, <2>7, <3>1 DEF LoopsLastTheirCycles
    <3>3. reload[0] = TinitCntrs[1] /\ reload[1] = TinitCntrs[2] /\ reload[2] = TinitCntrs[3]
      BY <2>1 DEF Holding
    <3>4. elapsed + 1 = Tinit
      BY <3>2, <3>3 DEF Tinit
    <3>5. Tinit \in Nat /\ Treset \in Nat
      BY <1>1, BoardTimes
    <3>6. dram'[r].held >= Tinit \/ dram'[r].held >= Tinit + Treset
      BY <2>6, <3>4 DEF HeldFor
    <3>7. dram'[r].held >= Tinit
      <4> HIDE DEF Tinit, Treset
      <4> QED
        BY <2>6, <3>5, <3>6
    <3> QED
      BY <2>6, <3>7 DEF InResetNow
  <2> QED
    BY <2>2, <2>4, <2>6, <2>7
<1>8. ASSUME at = 17
      PROVE  /\ running' =>
                 /\ Holding(INIT_RESET_1_CKE_0, TresetCntrs)'
                 /\ elapsed' # 0
                 /\ \A r \in Ranks : dram'[r].phase = "cke_low" /\ HeldFor(dram'[r], elapsed')
             /\ ~running' => \A r \in Ranks : InLow(dram'[r])
  <2>1. /\ Holding(INIT_RESET_1_CKE_0, TresetCntrs)
        /\ elapsed # 0 => \A r \in Ranks : dram[r].phase = "cke_low" /\ HeldFor(dram[r], elapsed)
    BY <1>1, <1>8 DEF PowerInv
  <2>2. Holding(INIT_RESET_1_CKE_0, TresetCntrs)'
    BY <1>1, <2>1 DEF Holding
  <2>3. label = 116 /\ label \in Holds /\ label \in Timed
    BY <2>1, RunLabels DEF Holding, INIT_RESET_1_CKE_0, Timed
  <2>4. elapsed' = elapsed + 1
    BY <1>1, <2>3
  <2>5. Command.kind = "cke_low"
    BY <1>1, <2>3, RomHolds
  <2>6. ASSUME NEW r \in Ranks
        PROVE  /\ dram'[r].phase = "cke_low" /\ HeldFor(dram'[r], elapsed + 1)
               /\ dram'[r].tinit = Tinit /\ dram'[r].treset = Treset
               /\ dram'[r].held \in Nat
    <3>1. Sent(r).kind = "cke_low"
      BY <1>4, <2>5 DEF Sent
    <3> QED
      BY <1>1, <1>5, <2>1, <3>1, HeldOn
  <2>7. ASSUME ~running', NEW r \in Ranks PROVE InLow(dram'[r])
    <3>1. InReset
      BY <2>1, <2>3 DEF InReset, Nested, Holding, INIT_RESET_1_CKE_0
    <3>2. elapsed + 1 = ResetCycles(reload[0], reload[1], reload[2])
      BY <1>1, <1>6, <2>7, <3>1 DEF LoopsLastTheirCycles
    <3>3. reload[0] = TresetCntrs[1] /\ reload[1] = TresetCntrs[2] /\ reload[2] = TresetCntrs[3]
      BY <2>1 DEF Holding
    <3>4. elapsed + 1 = Treset
      BY <3>2, <3>3 DEF Treset
    <3>5. Tinit \in Nat /\ Treset \in Nat
      BY <1>1, BoardTimes
    <3>6. dram'[r].held >= Treset \/ dram'[r].held >= Tinit + Treset
      BY <2>6, <3>4 DEF HeldFor
    <3>7. dram'[r].held >= Treset
      <4> HIDE DEF Tinit, Treset
      <4> QED
        BY <2>6, <3>5, <3>6
    <3> QED
      BY <2>6, <3>7 DEF InLow
  <2> QED
    BY <1>5, <2>2, <2>4, <2>6, <2>7
<1> QED
  BY <1>4, <1>7, <1>8

LEMMA PowerStep ==
    ASSUME CommandInv, DramInv, FirstInv, FirstInv', BuiltInv, PowerInv, LoopsLastTheirCycles,
           [CNext]_vars
    PROVE  PowerInv'
<1>1. CASE UNCHANGED vars
  <2>1. /\ calls' = calls /\ at' = at /\ selected' = selected /\ dram' = dram /\ Ranks' = Ranks
        /\ running' = running /\ label' = label /\ jump' = jump /\ reload' = reload
        /\ first' = first /\ elapsed' = elapsed
    BY <1>1, Stays
  <2>2. Resetting' = Resetting
    BY <2>1 DEF Resetting
  <2> QED
    BY <2>1, <2>2 DEF PowerInv, Holding
<1>2. CASE Procedures
  <2>1. ~running' /\ at' = 1
    BY <1>2, Beginning
  <2> QED
    BY <2>1 DEF PowerInv
<1> QED
  BY <1>1, <1>2, PowerWrite, PowerClock DEF CNext

(* The run with which the writes of a part go on.                          *)
Starts(c, s, a) ==
    /\ Moves(c, s) /\ s[at] = RunReg(a) /\ s[at].op = "run" /\ s[at].val = a
    /\ running' /\ label' = a /\ ip' = a /\ selected' = selected /\ a \in Entries
    /\ May(c.proc, a) /\ Exact(s, at) /\ Belongs(c.proc, stage)
    /\ c \in Parts /\ c = Head(calls) /\ c = calls[1] /\ s = Writes(c) /\ calls # <<>>
    /\ c = Part(c.proc, c.rank) /\ at \in 1 .. Len(s) /\ at - 1 \in Nat
    /\ c.proc \in OffProcs => c.rank \in Live /\ selected = {c.rank}
    /\ Run(a) /\ Register(s, at - 1) /\ Len(calls) \in Nat \ {0} /\ Len(s) \in Nat

LEMMA Starting ==
    ASSUME CommandInv, StageInv, Write, running'
    PROVE  \E c, s : Starts(c, s, label')
<1>1. PICK c, s : Moves(c, s)
  BY Moving
<1>2. s[at].op = "run"
  BY <1>1 DEF Moves
<1>3. Len(calls) \in Nat \ {0} /\ c = calls[1]
  BY <1>1 DEF Moves
<1>4. Belongs(c.proc, stage)
  BY <1>3 DEF StageInv
<1>5. at - 1 \in Nat
  BY <1>1 DEF Moves
<1> QED
  BY <1>1, <1>2, <1>4, <1>5 DEF Moves, Starts

(* CKE is raised by the first clock of an idle loop.                       *)
LEMMA RaiseClock ==
    ASSUME CommandInv, DramInv, BuiltInv, RaiseInv, Clocked
    PROVE  RaiseInv'
<1>1. /\ running /\ label' = label /\ selected' = selected /\ label \in Entries
      /\ ip \in Block(label) /\ Ranks' = Ranks
  BY Clocking
<1> SUFFICES ASSUME label \in Idles, NEW r \in selected, r \in Ranks
             PROVE  MayRaiseCke(dram'[r])
  BY <1>1 DEF RaiseInv
<1>2. Command.kind = "none"
  BY <1>1, KindsSent
<1>3. dram'[r].phase = PhaseAfter(dram[r], Command)
  BY ClockDram DEF Sent
<1>4. dram'[r].phase # "cke_low"
  BY <1>2, <1>3 DEF PhaseAfter
<1> QED
  BY <1>4 DEF MayRaiseCke

LEMMA RaiseWrite ==
    ASSUME CommandInv, DramInv, BuiltInv, StageInv, PowerInv, UpInv, Write
    PROVE  RaiseInv'
<1>1. ~running /\ Ranks' = Ranks /\ Live \subseteq Ranks /\ board \in Boards
  BY WriteStays
<1> SUFFICES ASSUME running', label' \in Idles
             PROVE  selected' \subseteq Ranks /\ \A r \in selected' : MayRaiseCke(dram'[r])
  BY <1>1 DEF RaiseInv
<1>2. PICK c, s : Starts(c, s, label')
  BY Starting
<1>3. /\ c \in Parts /\ c = Head(calls) /\ s = Writes(c) /\ calls # <<>>
      /\ May(c.proc, label') /\ Belongs(c.proc, stage) /\ selected' = selected
      /\ at \in 1 .. Len(s) /\ s[at] = RunReg(label') /\ s[at].op = "run" /\ at - 1 \in Nat
  BY <1>2 DEF Starts
<1>4. c.proc \in {"reset", "initialize", "handoff"}
  <2>1. label' \notin Rows /\ label' \notin Bursts
    BY RunLabels
  <2>2. May(c.proc, label')
    BY <1>3
  <2> QED
    BY Zenon, <2>1, <2>2 DEF May
<1>5. \A r \in Ranks : /\ dram'[r].phase = dram[r].phase /\ dram'[r].held = dram[r].held
                       /\ dram'[r].treset = dram[r].treset
  BY <1>1, WrittenTimes, WriteDram
<1>6. CASE c.proc = "reset"
  <2>1. ResetExact(s)
    BY <1>1, <1>3, <1>6, ResetCases
  <2>2. at \in 1 .. 19 /\ at \in {8, 16, 19}
    BY <1>3, <2>1 DEF ResetExact
  <2>3. s[8] = RunReg(111) /\ s[16] = RunReg(116)
    BY <2>1 DEF ResetExact, INIT_RESET_0_CKE_0, INIT_RESET_1_CKE_0
  <2>4. at = 19
    <3>1. s[8].val = 111 /\ s[16].val = 116
      BY <2>3, WritesAre
    <3>2. s[at].val = label'
      BY <1>3, WritesAre
    <3> QED
      BY <2>2, <3>1, <3>2, RunLabels
  <2>5. Resetting
    BY <1>3, <1>6 DEF Resetting
  <2>6. selected = Ranks /\ \A r \in Ranks : InLow(dram[r])
    BY <1>1, <2>4, <2>5 DEF PowerInv
  <2> QED
    BY <1>3, <1>5, <2>6 DEF InLow, MayRaiseCke
<1>7. CASE c.proc \in {"initialize", "handoff"}
  <2>1. c.rank \in Live /\ selected = {c.rank}
    BY <1>2, <1>7 DEF Starts, OffProcs
  <2>2. stage # "start" /\ ~Resetting
    <3>1. Belongs(c.proc, stage)
      BY <1>3
    <3>2. stage \in {"initialized", "done"}
      BY <1>7, <3>1, Zenon DEF Belongs, OdtProcs, ReadProcs
    <3>3. Head(calls).proc # "reset"
      BY <1>3, <1>7
    <3> QED
      BY <3>2, <3>3 DEF Resetting
  <2>3. ~Rising(c.rank)
    BY <1>1 DEF Rising
  <2>4. Up(dram[c.rank])
    BY <2>1, <2>2, <2>3 DEF UpInv
  <2>5. dram'[c.rank].phase # "cke_low"
    BY <1>1, <1>5, <2>1, <2>4 DEF Up
  <2> QED
    BY <1>1, <1>3, <2>1, <2>5 DEF MayRaiseCke
<1> QED
  BY <1>4, <1>6, <1>7

LEMMA RaiseStep ==
    ASSUME CommandInv, DramInv, BuiltInv, StageInv, PowerInv, RaiseInv, UpInv, [CNext]_vars
    PROVE  RaiseInv'
<1>1. CASE UNCHANGED vars
  <2>1. /\ running' = running /\ label' = label /\ selected' = selected /\ dram' = dram
        /\ Ranks' = Ranks
    BY <1>1, Stays
  <2> QED
    BY <2>1 DEF RaiseInv
<1>2. CASE Procedures
  <2>1. ~running'
    BY <1>2, Beginning
  <2> QED
    BY <2>1 DEF RaiseInv
<1> QED
  BY <1>1, <1>2, RaiseClock, RaiseWrite DEF CNext

(* A rank comes up, and stays up.                                          *)
LEMMA StaysUp ==
    ASSUME CommandInv, DramInv, BuiltInv, PowerInv, Clocked, NEW r \in Live, Up(dram[r]), ~Resetting
    PROVE  Up(dram[r])'
<1>1. /\ running /\ label \in Entries /\ ip \in Block(label) /\ board \in Boards
      /\ Live \subseteq Ranks
  BY Clocking
<1>2. r \in Ranks /\ label \notin Holds
  BY <1>1 DEF PowerInv
<1>3. Sent(r).kind \in CommandKinds /\ Sent(r).kind \notin {"reset", "cke_low"}
  BY <1>1, <1>2, KindsSent, KindOf DEF Sent
<1>4. dram'[r].phase = PhaseAfter(dram[r], Sent(r))
  BY <1>2, ClockDram
<1>5. dram[r].phase \in {"ready", "calibrated"} /\ dram[r].since["cke"] = 250
  BY DEF Up, TXPR
<1> DEFINE k == Sent(r)
<1>6. EventOf(dram[r], k) # "cke"
  BY <1>3, <1>5, EventIs
<1>7. dram'[r].since["cke"] = 250
  <2>1. Limit("cke", Wlat) = 250
    BY <1>1, BoardTimes, LimitIs
  <2> HIDE DEF k
  <2>2. "cke" # EventOf(dram[r], Sent(r))
    BY <1>6 DEF k
  <2> QED
    BY <1>1, <1>2, <1>5, <2>1, <2>2, Passes, EventsAre
<1>8. dram'[r].phase \in {"ready", "calibrated"}
  <2> HIDE DEF k
  <2>1. k.kind \notin {"reset", "cke_low"} /\ dram'[r].phase = PhaseAfter(dram[r], k)
    BY <1>3, <1>4 DEF k
  <2> QED
    BY <1>5, <2>1 DEF PhaseAfter
<1> QED
  BY <1>7, <1>8 DEF Up, TXPR

LEMMA Rises ==
    ASSUME CommandInv, DramInv, BuiltInv, LoopsLastTheirCycles, Clocked, NEW r \in Live, Rising(r)
    PROVE  Rising(r)' \/ Up(dram[r])'
<1>1. /\ running /\ label \in Entries /\ ip \in Block(label) /\ board \in Boards
      /\ Live \subseteq Ranks /\ Play /\ EngineTypeOK
      /\ label' = label /\ jump' = jump /\ reload' = reload /\ first' = first
      /\ selected' = selected /\ elapsed' = IF label \in Timed THEN elapsed + 1 ELSE 0
  BY Clocking
<1>2. /\ label = IDLE_LOOP1 /\ label \in Timed /\ label \in Idles /\ r \in selected /\ r \in Ranks
      /\ jump[1] = label /\ first[1] = reload[1] /\ reload[1] = 249
  BY <1>1 DEF Rising, Timed, Idles
<1>3. elapsed \in Nat /\ elapsed' = elapsed + 1
  BY <1>1, <1>2 DEF EngineTypeOK
<1>4. Sent(r).kind = "none"
  BY <1>1, <1>2, KindsSent DEF Sent
<1> DEFINE k == Sent(r)
           d == dram[r]
           e == dram'[r]
<1>5. e.phase = PhaseAfter(d, k) /\ e.since["cke"] \in Nat
  BY <1>1, <1>2, ClockDram, Passes, EventsAre
<1>6. EventOf(d, k) = "cke" <=> d.phase = "cke_low"
  <2>1. k.kind \in CommandKinds
    BY KindOf
  <2> QED
    BY <1>4, <2>1, EventIs
<1> HIDE DEF k
<1>7. k.kind = "none"
  BY <1>4 DEF k
<1>8. e.phase = "ready" /\ AtLeast(e, "cke", elapsed + 1)
  <2>1. CASE elapsed = 0
    <3>1. d.phase = "cke_low"
      BY <2>1 DEF Rising, InLow
    <3>2. e.phase = "ready"
      BY <1>5, <1>7, <3>1 DEF PhaseAfter
    <3>3. AtLeast(e, "cke", 1)
      BY <1>1, <1>2, Passes, EventsAre
    <3> QED
      BY <2>1, <3>2, <3>3
  <2>2. CASE elapsed # 0
    <3>1. d.phase = "ready" /\ AtLeast(d, "cke", elapsed)
      BY <2>2 DEF Rising
    <3>2. e.phase = "ready"
      BY <1>5, <1>7, <3>1 DEF PhaseAfter
    <3>3. "cke" # EventOf(dram[r], Sent(r))
      BY <1>6, <3>1 DEF k
    <3>4. AtLeast(e, "cke", elapsed + 1)
      BY <1>1, <1>2, <1>3, <3>1, <3>3, Passes, EventsAre
    <3> QED
      BY <3>2, <3>4
  <2> QED
    BY <2>1, <2>2
<1>9. CASE running'
  BY <1>1, <1>2, <1>3, <1>8, <1>9 DEF Rising
<1>10. CASE ~running'
  <2>1. ip \in Returns
    BY <1>1, <1>10, PlayEnds
  <2>2. InDelay1
    BY <1>2 DEF InDelay1, Nested
  <2>3. elapsed + 1 = 251
    BY <1>1, <1>2, <2>1, <2>2 DEF LoopsLastTheirCycles, Delay1Cycles
  <2>4. Limit("cke", Wlat) = 250 /\ e.wlat = Wlat
    BY <1>1, <1>2, BoardTimes, LimitIs, ClockedTimes
  <2>5. e.since["cke"] \in 0 .. 250
    <3>1. e.since["cke"] \in 0 .. Limit("cke", e.wlat)
      BY <1>1, <1>2, ClockedTimes, EventsAre DEF Timely
    <3> QED
      BY <2>4, <3>1
  <2>6. e.since["cke"] = 250
    BY <1>8, <2>3, <2>4, <2>5 DEF AtLeast
  <2> QED
    BY <1>8, <2>6 DEF Up, TXPR
<1> QED
  BY <1>9, <1>10

LEMMA UpWrite ==
    ASSUME CommandInv, DramInv, BuiltInv, StageInv, PowerInv, UpInv, Write
    PROVE  UpInv'
<1>1. PICK c, s : Moves(c, s)
  BY Moving
<1>2. PICK d \in {0, 1} :
              /\ Len(calls') = Len(calls) - d /\ Len(calls) \in Nat \ {0}
              /\ \A i \in 1 .. Len(calls') : calls'[i] = calls[i + d] /\ i + d \in 1 .. Len(calls)
              /\ IF d = 0 THEN /\ at < Len(s) /\ at' = at + 1 /\ calls' = calls
                               /\ Writes(Head(calls))' = s
                          ELSE at = Len(s) /\ at' = 1
  BY <1>1, Remain
<1>3. /\ c \in Parts /\ c = calls[1] /\ c = Head(calls) /\ s = Writes(c) /\ calls # <<>>
      /\ Register(s, at - 1)
      /\ s[at].op = "run" =>
            /\ Run(s[at].val) /\ running' /\ label' = s[at].val /\ selected' = selected
  BY <1>1 DEF Moves
<1>4. /\ ~running /\ Ranks' = Ranks /\ board \in Boards /\ Live' = Live /\ Live \subseteq Ranks
      /\ stage' = stage
  BY WriteStays
<1>5. stage # "start"
  <2>1. Belongs(c.proc, stage)
    BY <1>2, <1>3 DEF StageInv
  <2> QED
    BY <2>1 DEF Belongs, InUseStages
<1> SUFFICES ASSUME NEW r \in Live
             PROVE  Resetting' \/ Rising(r)' \/ Up(dram[r])'
  BY <1>4 DEF UpInv
<1>6. /\ dram'[r].phase = dram[r].phase /\ dram'[r].held = dram[r].held
      /\ dram'[r].treset = dram[r].treset
  BY <1>4, WrittenTimes, WriteDram
<1>7. CASE Resetting
  <2>1. c.proc = "reset"
    BY <1>3, <1>7 DEF Resetting
  <2>2. CASE d = 0
    BY <1>2, <1>3, <2>1, <2>2 DEF Resetting
  <2>3. CASE d = 1
    <3>1. ResetExact(s)
      BY <1>3, <1>4, <2>1, ResetCases
    <3>2. Len(s) = 19 /\ s[19] = RunReg(123)
      BY <3>1 DEF ResetExact, IDLE_LOOP1
    <3>3. at = 19
      BY <1>2, <2>3, <3>2
    <3>4. s[at].op = "run" /\ s[at].val = 123
      BY <3>2, <3>3, WritesAre
    <3>5. Run(123) /\ running' /\ label' = 123 /\ selected' = selected
      BY <1>3, <3>4
    <3>6. jump[1] = 123 /\ cntr[1] = 249 /\ reload[1] = 249
      <4>1. Aimed(s, 18, 1, {123}) /\ Loaded(s, 18, 1, 249)
        BY <3>1 DEF ResetExact, AimedTo, IDLE_LOOP1
      <4>2. Register(s, 18)
        BY <1>3, <3>3
      <4>3. 1 \in Cntrs /\ 123 \in Addresses /\ 249 \in 0 .. MaxCntr
        <5>1. MaxCntr >= 255 /\ MaxCntr \in Nat
          BY Constants, CntrAssumption
        <5> QED
          BY <5>1 DEF Cntrs, Addresses
      <4> QED
        BY <4>1, <4>2, <4>3 DEF Register
    <3>7. selected = Ranks /\ InLow(dram[r])
      BY <1>4, <1>7, <3>3 DEF PowerInv
    <3>8. InLow(dram'[r])
      BY <1>6, <3>7 DEF InLow
    <3>9. elapsed' = 0 /\ first' = cntr /\ jump' = jump /\ reload' = reload
      BY <3>5 DEF Run
    <3> QED
      BY <1>4, <3>5, <3>6, <3>7, <3>8, <3>9 DEF Rising, IDLE_LOOP1
  <2> QED
    BY <2>2, <2>3
<1>8. CASE ~Resetting
  <2>1. Up(dram[r])
    BY <1>4, <1>5, <1>8 DEF UpInv, Rising
  <2>2. Limit("cke", Wlat) = 250
    BY <1>4, BoardTimes, LimitIs
  <2>3. dram'[r].since["cke"] = 250
    BY <1>4, <2>1, <2>2, Rests, EventsAre DEF Up, TXPR
  <2> QED
    BY <1>6, <2>1, <2>3 DEF Up, TXPR
<1> QED
  BY <1>7, <1>8

LEMMA UpStep ==
    ASSUME CommandInv, DramInv, BuiltInv, StageInv, PowerInv, UpInv, LoopsLastTheirCycles,
           [CNext]_vars
    PROVE  UpInv'
<1>1. CASE UNCHANGED vars
  <2>1. /\ calls' = calls /\ stage' = stage /\ selected' = selected /\ dram' = dram
        /\ running' = running /\ label' = label /\ jump' = jump /\ reload' = reload
        /\ first' = first /\ elapsed' = elapsed /\ Live' = Live
    BY <1>1, Stays
  <2>2. Resetting' = Resetting
    BY <2>1 DEF Resetting
  <2>3. \A r : Rising(r)' = Rising(r)
    BY <2>1 DEF Rising
  <2> QED
    BY <2>1, <2>2, <2>3 DEF UpInv
<1>2. CASE Clocked
  <2>1. /\ calls' = calls /\ stage' = stage /\ Live' = Live
    BY <1>2, Clocking
  <2>2. Resetting' = Resetting
    BY <2>1 DEF Resetting
  <2> SUFFICES ASSUME NEW r \in Live
               PROVE  stage = "start" \/ Resetting \/ Rising(r)' \/ Up(dram[r])'
    BY <2>1, <2>2 DEF UpInv
  <2> QED
    BY <1>2, StaysUp, Rises DEF UpInv
<1>3. CASE Procedures
  <2>1. /\ ~running /\ calls = <<>> /\ dram' = dram /\ Live' = Live /\ Begun(stage, stage')
        /\ calls' # <<>> /\ Head(calls') = calls'[1]
    BY <1>3, Beginning
  <2>2. CASE stage = "start"
    <3>1. Head(calls') = Part("reset", 0)
      BY <2>1, <2>2 DEF Begun, InUseStages
    <3>2. Resetting'
      BY <2>1, <3>1 DEF Resetting, Part
    <3> QED
      BY <3>2 DEF UpInv
  <2>3. CASE stage # "start"
    <3>1. ~Resetting /\ \A r : ~Rising(r)
      BY <2>1 DEF Resetting, Rising
    <3>2. \A r \in Live : Up(dram[r])
      BY <2>3, <3>1 DEF UpInv
    <3> QED
      BY <2>1, <3>2 DEF UpInv
  <2> QED
    BY <2>2, <2>3
<1> QED
  BY <1>1, <1>2, <1>3, UpWrite DEF CNext

(* What runs of bursts say, and which run says what.                       *)
LEMMA BurstsSay ==
    ASSUME label \in Entries, ip \in Block(label), label \in Bursts
    PROVE  Command.kind \in {"none", "read", "write"}
<1>1. label \in WriteTests \/ label \in {24, 73, 76, 89}
  BY RunLabels
<1>2. CASE label \in WriteTests
  <2>1. Dm(label) \in {0, 20} /\ ip - Dm(label) \in 33 .. 52
    BY <1>2, BlocksOf
  <2>2. PICK m \in {0, 20} : m = Dm(label)
    BY <2>1
  <2>3. PICK x \in 33 .. 52 : x = ip - m /\ ip = x + m
    <3>1. ip \in Nat
      BY BlocksOf DEF Addresses
    <3> QED
      BY <2>1, <2>2, <3>1
  <2>4. /\ Sends(33 + m, "write", 0, 0) /\ Sends(34 + m, "write", 0, 0)
        /\ Sends(46 + m, "read", 0, 0)
        /\ \A y \in (35 .. 45) \cup (47 .. 52) : Silent(y + m)
    BY RomWriteTest
  <2>5. CASE x \in {33, 34, 46}
    BY <2>3, <2>4, <2>5 DEF Sends, Command
  <2>6. CASE x \notin {33, 34, 46}
    <3>1. x \in (35 .. 45) \cup (47 .. 52)
      BY <2>6
    <3> QED
      BY <2>3, <2>4, <3>1 DEF Silent, Command
  <2> QED
    BY <2>5, <2>6
<1>3. CASE label = 24
  <2>1. ip \in 24 .. 32
    BY <1>3, BlocksOf DEF GUARANTEED_WRITE
  <2>2. ip \in {24, 26, 28, 30} \/ ip \in {25, 27, 29, 31, 32}
    BY <2>1
  <2> QED
    BY <2>2, RomGuaranteed DEF Sends, Silent, Command
<1>4. CASE label \in {73, 76, 89}
  <2>1. ip \in 73 .. 110
    BY <1>4, BlocksOf DEF CLEAR_DQS_ENABLE, GUARANTEED_READ, READ_B2B
  <2> DEFINE R == {73, 76, 80, 84, 89, 93, 98, 102, 106}
  <2>2. CASE ip \in R
    BY <2>2, RomReads DEF Sends, Command
  <2>3. CASE ip \notin R
    <3>1. ip \in (73 .. 110) \ R
      BY <2>1, <2>3
    <3> QED
      BY <3>1, RomReads DEF Silent, Command
  <2> QED
    BY <2>2, <2>3
<1> QED
  BY <1>1, <1>2, <1>3, <1>4

LEMMA RunSays ==
    ASSUME label \in Entries, ip \in Block(label)
    PROVE  /\ Command.kind = "mrs" <=> label \in Registers /\ ip = label
           /\ Command.kind = "mrs" => Command.mr = MrOf(label) /\ Command.value # "none"
           /\ Command.kind = "zqcl" <=> label = ZQCL /\ ip = label
           /\ Command.kind = "pre" <=> label = PRECHARGE_ALL /\ ip = label
           /\ Command.kind = "act" <=> label = ACTIVATE_0_AND_1 /\ ip \in {13, 15}
           /\ Command.kind = "act" => Command.bank = IF ip = 13 THEN 0 ELSE 1
<1>1. label \in Modes \/ label = 13 \/ label = 18 \/ label \in Bursts \/ label \in Holds \cup Idles
  BY RunLabels DEF Entries
<1>2. /\ Modes = Registers \cup {ZQCL} /\ ZQCL \notin Registers /\ ZQCL \in Modes
      /\ 13 \notin Modes /\ 18 \notin Modes
      /\ ACTIVATE_0_AND_1 = 13 /\ PRECHARGE_ALL = 18 /\ ZQCL = 6 /\ RETURN = 1
      /\ 1 \notin Registers
  BY RunLabels DEF Modes, Registers, ACTIVATE_0_AND_1, PRECHARGE_ALL, ZQCL, RETURN
<1>3. CASE label \in Modes
  <2>1. ip \in {label, 1} /\ label # 1 /\ label \notin {13, 18}
    <3>1. Block(label) = {label, RETURN}
      BY <1>3, BlocksAre
    <3> QED
      BY <1>2, <1>3, <3>1 DEF Modes
  <2>2. CASE ip = 1
    <3>1. Command.kind = "none"
      BY <1>2, <2>2, WordsOf DEF Command
    <3> QED
      BY <1>2, <2>1, <2>2, <3>1
  <2>3. CASE ip = label /\ label = ZQCL
    <3>1. Command.kind = "zqcl"
      BY <2>3, WordsOf DEF Command
    <3> QED
      BY <1>2, <2>1, <2>3, <3>1
  <2>4. CASE ip = label /\ label \in Registers
    <3>1. LET x == Decode(AcWord(label))
          IN x.kind = "mrs" /\ x.mr = MrOf(label) /\ x.value # "none"
      BY <2>4, RomModes
    <3>2. Command.kind = "mrs" /\ Command.mr = MrOf(label) /\ Command.value # "none"
      BY <2>4, <3>1 DEF Command
    <3> QED
      BY <1>2, <2>1, <2>4, <3>2
  <2> QED
    BY <1>2, <1>3, <2>1, <2>2, <2>3, <2>4
<1>4. CASE label = 13
  <2>1. ip \in {13, 14, 15, 16, 17}
    BY <1>2, <1>4, BlocksOf
  <2>2. CASE ip \in {13, 15}
    <3>1. Command.kind = "act" /\ Command.bank = IF ip = 13 THEN 0 ELSE 1
      BY <2>2, RomRows DEF Sends, Command
    <3> QED
      BY <1>2, <1>4, <2>2, <3>1
  <2>3. CASE ip \notin {13, 15}
    <3>1. Command.kind = "none"
      BY <2>1, <2>3, RomRows DEF Silent, Command
    <3> QED
      BY <1>2, <1>4, <2>3, <3>1
  <2> QED
    BY <2>2, <2>3
<1>5. CASE label = 18
  <2>1. ip \in {18, 19}
    BY <1>2, <1>5, BlocksOf
  <2>2. Command.kind = IF ip = 18 THEN "pre" ELSE "none"
    BY <1>2, <2>1, RomRows, WordsOf DEF Silent, Command
  <2> QED
    BY <1>2, <1>5, <2>1, <2>2
<1>6. CASE label \in Bursts
  <2>1. Command.kind \in {"none", "read", "write"}
    BY <1>6, BurstsSay
  <2>2. label \notin Modes /\ label \notin {13, 18}
    BY <1>6, RunLabels DEF Modes
  <2> QED
    BY <1>2, <2>1, <2>2
<1>7. CASE label \in Holds \cup Idles
  <2>1. Command.kind \in {"none", "reset", "cke_low"}
    BY <1>7, Kinds DEF Quiet
  <2>2. label \notin Modes /\ label \notin {13, 18}
    BY <1>7, RunLabels DEF Modes
  <2> QED
    BY <1>2, <2>1, <2>2
<1> QED
  BY <1>1, <1>3, <1>4, <1>5, <1>6, <1>7

(* What a clock tells a rank.                                              *)
LEMMA Told ==
    ASSUME CommandInv, Clocked, NEW r \in Ranks
    PROVE  LET c == Sent(r)
           IN /\ c.kind = "mrs" <=> AboutTo(r, Registers)
              /\ c.kind = "mrs" => r \in Live /\ c.mr = MrOf(label) /\ c.value # "none"
              /\ c.kind = "zqcl" <=> AboutTo(r, {ZQCL})
              /\ c.kind = "pre" <=> AboutTo(r, {PRECHARGE_ALL})
              /\ c.kind = "act" <=>
                    label = ACTIVATE_0_AND_1 /\ selected = {r} /\ ip \in {13, 15}
              /\ c.kind = "act" => c.bank = IF ip = 13 THEN 0 ELSE 1
<1>1. running /\ label \in Entries /\ ip \in Block(label)
  BY Clocking
<1>2. /\ Command.kind = "mrs" <=> label \in Registers /\ ip = label
      /\ Command.kind = "mrs" => Command.mr = MrOf(label) /\ Command.value # "none"
      /\ Command.kind = "zqcl" <=> label = ZQCL /\ ip = label
      /\ Command.kind = "pre" <=> label = PRECHARGE_ALL /\ ip = label
      /\ Command.kind = "act" <=> label = ACTIVATE_0_AND_1 /\ ip \in {13, 15}
      /\ Command.kind = "act" => Command.bank = IF ip = 13 THEN 0 ELSE 1
  BY <1>1, RunSays
<1>3. CASE r \in selected /\ label \notin Holds \cup Idles
  <2>1. r \in Live /\ selected = {r} /\ Sent(r) = Command
    BY <1>3, Chosen
  <2> QED
    BY <1>1, <1>2, <2>1 DEF AboutTo
<1>4. CASE r \notin selected
  <2>1. Sent(r).kind = "none" /\ selected # {r}
    BY <1>4, KindOf
  <2> QED
    BY <2>1 DEF AboutTo
<1>5. CASE r \in selected /\ label \in Holds \cup Idles
  <2>1. Command.kind \in {"none", "reset", "cke_low"} /\ Sent(r) = Command
    BY <1>1, <1>5, Kinds DEF Quiet, Sent
  <2>2. label \notin Modes /\ label \notin {13, 18} /\ Registers \subseteq Modes /\ ZQCL \in Modes
    BY <1>5, RunLabels DEF Modes
  <2> QED
    BY <2>1, <2>2 DEF AboutTo, ACTIVATE_0_AND_1, PRECHARGE_ALL
<1> QED
  BY <1>3, <1>4, <1>5

(* What a rank was about to get, it has got.                               *)
LEMMA NoMore ==
    ASSUME CommandInv, Clocked, NEW r
    PROVE  ~AboutTo(r, Modes \cup {PRECHARGE_ALL})'
<1>1. /\ running /\ label \in Entries /\ ip \in Block(label) /\ label' = label /\ EngineTypeOK
      /\ Play /\ Course
  BY Clocking
<1> SUFFICES ASSUME running', label \in Modes \cup {PRECHARGE_ALL}, ip' = label
             PROVE  FALSE
  BY <1>1 DEF AboutTo
<1>2. CASE label \in Modes
  <2>1. ip' = RETURN
    BY <1>1, <1>2, ModeReturns
  <2> QED
    BY <1>2, <2>1 DEF RETURN, Modes
<1>3. CASE label = PRECHARGE_ALL
  <2>1. ip \in {18, 19} /\ label = 18
    BY <1>1, <1>3, BlocksOf
  <2>2. ip \notin Returns /\ ((\A c \in Cntrs : ip \notin JumpsOn(c)) => ip' = ip + 1)
    BY <1>1, PlayNext
  <2>3. ip = 18
    BY <2>1, <2>2 DEF Returns
  <2>4. \A c \in Cntrs : 18 \notin JumpsOn(c)
    BY DEF JumpsOn, Cntrs
  <2>5. ip' = 19
    BY <2>2, <2>3, <2>4
  <2> QED
    BY <2>1, <2>5
<1> QED
  BY <1>2, <1>3

(* The last mode register of the writes so far.                            *)
LEMMA LastsOn ==
    ASSUME NEW d, NEW e, NEW s, NEW n \in Nat, LastIs(d, s, n), ~ModeRun(s[n + 1]),
           e.last = d.last, e.mr0 = d.mr0
    PROVE  LastIs(e, s, n + 1)
<1>1. NoMode(s, n + 1) => NoMode(s, n)
  BY DEF NoMode
<1>2. \A b : LastMode(s, n + 1, b) => LastMode(s, n, b)
  <2> SUFFICES ASSUME NEW b, LastMode(s, n + 1, b)
               PROVE  LastMode(s, n, b)
    OBVIOUS
  <2>1. PICK j \in 1 .. n + 1 : /\ ModeRun(s[j]) /\ s[j].val = b
                                /\ \A k \in j + 1 .. n + 1 : ~ModeRun(s[k])
    BY DEF LastMode
  <2>2. j \in 1 .. n
    BY <2>1
  <2> QED
    BY <2>1, <2>2 DEF LastMode
<1> QED
  BY <1>1, <1>2 DEF LastIs

LEMMA LastsNow ==
    ASSUME NEW e, NEW s, NEW n \in Nat \ {0}, ModeRun(s[n]), e.last = MrOf(s[n].val),
           MrOf(s[n].val) = 0 => e.mr0 # "none"
    PROVE  LastIs(e, s, n)
<1>1. ~NoMode(s, n)
  BY DEF NoMode
<1>2. ASSUME NEW b, LastMode(s, n, b)
      PROVE  b = s[n].val
  <2>1. PICK j \in 1 .. n : s[j].val = b /\ \A k \in j + 1 .. n : ~ModeRun(s[k])
    BY <1>2 DEF LastMode
  <2>2. j = n
    BY <2>1
  <2> QED
    BY <2>1, <2>2
<1> QED
  BY <1>1, <1>2 DEF LastIs

LEMMA LastsNever ==
    ASSUME NEW e, NEW s, e.last = 0
    PROVE  LastIs(e, s, 0)
BY DEF LastIs, LastMode

LEMMA InitialEnds ==
    ASSUME NEW s, NEW m, Len(s) \in Nat, InitialExact(s, m)
    PROVE  \E b \in Registers : LastMode(s, Len(s) - 1, b) /\ MrOf(b) = 0
<1>1. PICK i \in 1 .. Len(s) - 1 : s[i] = RunReg(ZQCL)
  BY DEF InitialExact, Given
<1>2. i \in 1 .. Len(s) /\ s[i].op = "run" /\ s[i].val = ZQCL
  BY <1>1, WritesAre
<1>3. PICK b \in Registers : LastMode(s, i - 1, b) /\ MrOf(b) = 0
  BY <1>2 DEF InitialExact
<1>4. PICK j \in 1 .. i - 1 : /\ ModeRun(s[j]) /\ s[j].val = b
                              /\ \A k \in j + 1 .. i - 1 : ~ModeRun(s[k])
  BY <1>3 DEF LastMode
<1>5. ASSUME NEW k \in i .. Len(s) - 1
      PROVE  ~ModeRun(s[k])
  <2>1. CASE k = i
    BY <1>2, <2>1, RunLabels DEF ModeRun
  <2>2. CASE k # i
    <3>1. Given(s, k - 1, RunReg(ZQCL)) /\ k \in 1 .. Len(s)
      <4>1. i \in 1 .. k - 1
        BY <1>1, <2>2
      <4> QED
        BY <1>1, <4>1 DEF Given
    <3>2. s[k].op = "run" => s[k].val \notin Modes
      BY <3>1 DEF InitialExact
    <3> QED
      BY <3>2, RunLabels DEF ModeRun
  <2> QED
    BY <2>1, <2>2
<1>6. \A k \in j + 1 .. Len(s) - 1 : ~ModeRun(s[k])
  BY <1>4, <1>5
<1>7. j \in 1 .. Len(s) - 1
  BY <1>4
<1> QED
  BY <1>3, <1>4, <1>6, <1>7 DEF LastMode

LEMMA UserModesAre == \A a \in UserModes : a \in Registers /\ MrOf(a) = 0 /\ a \in Modes
BY DEF UserModes, Registers, MrOf, Modes

(* A mode register is loaded by the initialisation or the hand-off of the  *)
(* rank.                                                                   *)
LEMMA LoadsOwn ==
    ASSUME NEW c, NEW s, Starts(c, s, label'), label' \in Modes
    PROVE  /\ c.proc \in {"initialize", "handoff"} /\ selected' = {c.rank} /\ c.rank \in Live
           /\ Own(c.rank)
<1>1. /\ May(c.proc, label') /\ c = Head(calls) /\ c = Part(c.proc, c.rank) /\ calls # <<>>
      /\ c.proc \in OffProcs => c.rank \in Live /\ selected = {c.rank}
      /\ selected' = selected
  BY DEF Starts
<1>2. label' \notin Holds \cup {IDLE_LOOP1} /\ label' \notin Rows /\ label' \notin Bursts
  <2>1. label' < 13
    BY DEF Modes
  <2> QED
    BY <2>1, RunLabels DEF Modes, IDLE_LOOP1
<1>3. c.proc \in {"initialize", "handoff"}
  BY Zenon, <1>1, <1>2 DEF May
<1>4. c.proc \in OffProcs
  BY <1>3 DEF OffProcs
<1> QED
  BY <1>1, <1>3, <1>4 DEF Own

LEMMA LastWrite ==
    ASSUME CommandInv, DramInv, StageInv, LastInv, Write
    PROVE  LastInv'
<1>1. PICK c, s : Moves(c, s)
  BY Moving
<1>2. PICK d \in {0, 1} :
              /\ Len(calls') = Len(calls) - d /\ Len(calls) \in Nat \ {0}
              /\ \A i \in 1 .. Len(calls') : calls'[i] = calls[i + d] /\ i + d \in 1 .. Len(calls)
              /\ IF d = 0 THEN /\ at < Len(s) /\ at' = at + 1 /\ calls' = calls
                               /\ Writes(Head(calls))' = s
                          ELSE at = Len(s) /\ at' = 1
  BY <1>1, Remain
<1>3. /\ ~running /\ Ranks' = Ranks /\ board \in Boards /\ Live' = Live /\ Live \subseteq Ranks
      /\ Live \subseteq Nat
  BY WriteStays
<1>4. /\ c \in Parts /\ c = Head(calls) /\ s = Writes(c) /\ s = Writes(Head(calls))
      /\ at \in 1 .. Len(s) /\ Len(s) \in Nat
      /\ c.proc \in OffProcs => selected' = {c.rank}
      /\ s[at].op = "run" =>
            running' /\ label' = s[at].val /\ ip' = s[at].val /\ s[at] = RunReg(s[at].val)
  BY <1>1 DEF Moves
<1> SUFFICES ASSUME NEW r \in Live
             PROVE  /\ AboutTo(r, Modes)' =>
                          IF at' = 1 THEN label' \in UserModes ELSE Own(r)'
                    /\ ~AboutTo(r, Registers)' =>
                          IF Own(r)' THEN LastIs(dram'[r], Writes(Head(calls))', at' - 1)
                                     ELSE dram'[r].last = 0
  BY <1>3 DEF LastInv
<1>5. dram'[r].last = dram[r].last /\ dram'[r].mr0 = dram[r].mr0 /\ r \in Ranks /\ r \in Nat
  BY <1>3, WriteDram
<1>6. IF Own(r) THEN LastIs(dram[r], s, at - 1) ELSE dram[r].last = 0
  BY <1>3, <1>4 DEF LastInv, AboutTo
(* The ends of the two parts.                                              *)
<1>7. ASSUME Own(r)
      PROVE  /\ c.proc \in {"initialize", "handoff"} /\ c.rank = r /\ selected' = {r}
             /\ c.proc = "handoff" => \E a \in UserModes : s[Len(s)] = RunReg(a)
             /\ c.proc = "initialize" => InitialExact(s, r \in board.mirrored)
  <2>1. c \in {Part("initialize", r), Part("handoff", r)}
    BY <1>4, <1>7 DEF Own
  <2>2. c.proc \in {"initialize", "handoff"} /\ c.rank = r
    BY <2>1 DEF Part
  <2>3. selected' = {r}
    BY <1>4, <2>2 DEF OffProcs
  <2>4. c.proc = "handoff" => \E a \in UserModes : s[Len(s)] = RunReg(a)
    BY <1>3, <1>4, <1>5, <2>2, HandOffWrites
  <2>5. c.proc = "initialize" => InitialExact(s, r \in board.mirrored)
    BY <1>3, <1>4, <2>2, InitializeExact
  <2> QED
    BY <2>2, <2>3, <2>4, <2>5
<1>8. AboutTo(r, Modes)' => IF at' = 1 THEN label' \in UserModes ELSE Own(r)'
  <2> SUFFICES ASSUME running', label' \in Modes, selected' = {r}
               PROVE  IF at' = 1 THEN label' \in UserModes ELSE Own(r)'
    BY DEF AboutTo
  <2>1. PICK x, t : Starts(x, t, label')
    BY Starting
  <2>2. x.rank = r /\ Own(r) /\ x = c /\ t = s /\ s[at] = RunReg(label')
    <3>1. selected' = {x.rank} /\ Own(x.rank)
      BY <2>1, LoadsOwn
    <3>2. x = c /\ t = s /\ s[at] = RunReg(label')
      BY <1>4, <2>1 DEF Starts
    <3>3. x.rank = r
      BY <3>1
    <3> QED
      BY <3>1, <3>2, <3>3
  <2>3. CASE d = 0
    <3>1. calls' = calls /\ at' = at + 1 /\ at' # 1
      BY <1>2, <1>4, <2>3
    <3> QED
      BY <2>2, <3>1 DEF Own
  <2>4. CASE d = 1
    <3>1. at' = 1 /\ at = Len(s)
      BY <1>2, <2>4
    <3>2. s[Len(s)].val = label'
      BY <2>2, <3>1, WritesAre
    <3>3. CASE c.proc = "handoff"
      <4>1. PICK a \in UserModes : s[Len(s)] = RunReg(a)
        BY <1>7, <2>2, <3>3
      <4>2. label' = a
        BY <3>2, <4>1, WritesAre
      <4> QED
        BY <3>1, <4>1, <4>2
    <3>4. CASE c.proc = "initialize"
      <4>1. s[Len(s)] = RunReg(IDLE_LOOP2)
        BY <1>7, <2>2, <3>4 DEF InitialExact
      <4>2. label' = IDLE_LOOP2
        BY <3>2, <4>1, WritesAre
      <4> QED
        BY <4>2 DEF IDLE_LOOP2, Modes
    <3> QED
      BY <1>7, <2>2, <3>3, <3>4
  <2> QED
    BY <2>3, <2>4
<1>9. ASSUME ~AboutTo(r, Registers)'
      PROVE  IF Own(r)' THEN LastIs(dram'[r], Writes(Head(calls))', at' - 1)
                        ELSE dram'[r].last = 0
  <2>1. Own(r) => ~ModeRun(s[at])
    <3> SUFFICES ASSUME Own(r), ModeRun(s[at])
                 PROVE  FALSE
      OBVIOUS
    <3>1. s[at].op = "run" /\ s[at].val \in Registers
      BY DEF ModeRun
    <3> QED
      BY <1>4, <1>7, <1>9, <3>1 DEF AboutTo
  <2>2. CASE d = 0
    <3>1. calls' = calls /\ at' = at + 1 /\ Writes(Head(calls))' = s
      BY <1>2, <2>2
    <3>2. CASE Own(r)
      <4>1. PICK n \in Nat : n = at - 1 /\ n + 1 = at
        BY <1>4
      <4>2. LastIs(dram[r], s, n) /\ ~ModeRun(s[n + 1])
        BY <1>6, <2>1, <3>2, <4>1
      <4>3. LastIs(dram'[r], s, n + 1)
        BY <1>5, <4>2, LastsOn
      <4>4. n + 1 = at' - 1 /\ Own(r)'
        BY <3>1, <3>2, <4>1 DEF Own
      <4> QED
        BY <3>1, <4>3, <4>4
    <3>3. CASE ~Own(r)
      BY <1>5, <1>6, <3>1, <3>3 DEF Own
    <3> QED
      BY <3>2, <3>3
  <2>3. CASE d = 1
    <3>1. at' = 1 /\ at = Len(s)
      BY <1>2, <2>3
    <3>2. dram[r].last = 0
      <4>1. CASE Own(r)
        <5>1. c.proc # "handoff"
          <6> SUFFICES ASSUME c.proc = "handoff"
                       PROVE  FALSE
            OBVIOUS
          <6>1. PICK a \in UserModes : s[Len(s)] = RunReg(a)
            BY <1>7, <4>1
          <6>2. ModeRun(s[at])
            BY <3>1, <6>1, WritesAre, UserModesAre DEF ModeRun
          <6> QED
            BY <2>1, <4>1, <6>2
        <5>2. InitialExact(s, r \in board.mirrored)
          BY <1>7, <4>1, <5>1
        <5>3. PICK b \in Registers : LastMode(s, Len(s) - 1, b) /\ MrOf(b) = 0
          BY <1>4, <5>2, InitialEnds
        <5> QED
          BY <1>6, <3>1, <4>1, <5>3 DEF LastIs
      <4>2. CASE ~Own(r)
        BY <1>6, <4>2
      <4> QED
        BY <4>1, <4>2
    <3>3. LastIs(dram'[r], Writes(Head(calls))', 0) /\ dram'[r].last = 0
      BY <1>5, <3>2, LastsNever
    <3> QED
      BY <3>1, <3>3
  <2> QED
    BY <2>2, <2>3
<1> QED
  BY <1>8, <1>9

LEMMA LastClock ==
    ASSUME CommandInv, DramInv, StageInv, LastInv, Clocked
    PROVE  LastInv'
<1>1. /\ calls' = calls /\ at' = at /\ selected' = selected /\ Live' = Live /\ label' = label
      /\ calls # <<>> => Writes(Head(calls))' = Writes(Head(calls))
      /\ running /\ label \in Entries /\ Live \subseteq Ranks
  BY Clocking
<1>2. at \in Nat /\ at >= 1
  BY DEF CommandInv, CallsInv
<1> SUFFICES ASSUME NEW r \in Live
             PROVE  /\ ~AboutTo(r, Modes)'
                    /\ IF Own(r)' THEN LastIs(dram'[r], Writes(Head(calls))', at' - 1)
                                  ELSE dram'[r].last = 0
  BY <1>1 DEF LastInv
<1>3. ~AboutTo(r, Modes)'
  <2>1. ~AboutTo(r, Modes \cup {PRECHARGE_ALL})'
    BY NoMore
  <2> QED
    BY <2>1 DEF AboutTo
<1>4. Own(r)' = Own(r)
  BY <1>1 DEF Own
<1> DEFINE s == Writes(Head(calls))
<1> SUFFICES IF Own(r) THEN LastIs(dram'[r], s, at - 1) ELSE dram'[r].last = 0
  BY <1>1, <1>3, <1>4 DEF Own
<1>5. r \in Ranks
  BY <1>1
<1>6. /\ dram'[r].last = IF Sent(r).kind = "mrs" THEN Sent(r).mr ELSE dram[r].last
      /\ dram'[r].mr0 = IF Sent(r).kind = "mrs" /\ Sent(r).mr = 0 THEN Sent(r).value
                        ELSE dram[r].mr0
  BY <1>5, ClockDram
<1>7. /\ Sent(r).kind = "mrs" <=> AboutTo(r, Registers)
      /\ Sent(r).kind = "mrs" => Sent(r).mr = MrOf(label) /\ Sent(r).value # "none"
  BY <1>5, Told
<1>8. CASE AboutTo(r, Registers)
  <2>1. dram'[r].last = MrOf(label) /\ (MrOf(label) = 0 => dram'[r].mr0 # "none")
    BY <1>6, <1>7, <1>8
  <2>2. label \in Registers /\ AboutTo(r, Modes)
    BY <1>8, RunLabels DEF AboutTo
  <2>3. IF at = 1 THEN label \in UserModes ELSE Own(r)
    BY <2>2 DEF LastInv
  <2>4. CASE at = 1
    <3>1. dram'[r].last = 0
      BY <2>1, <2>3, <2>4, UserModesAre
    <3>2. LastIs(dram'[r], s, 0)
      BY <3>1, LastsNever
    <3> QED
      BY <2>4, <3>1, <3>2
  <2>5. CASE at # 1
    <3>1. Own(r) /\ calls # <<>> /\ at > 1
      BY <1>2, <2>3, <2>5 DEF Own
    <3>2. s[at - 1] = RunReg(label)
      BY <1>1, <3>1 DEF StageInv
    <3>3. ModeRun(s[at - 1]) /\ s[at - 1].val = label /\ at - 1 \in Nat \ {0}
      BY <1>2, <2>2, <3>1, <3>2, WritesAre DEF ModeRun
    <3> HIDE DEF s
    <3>4. LastIs(dram'[r], s, at - 1)
      BY <2>1, <3>3, LastsNow
    <3> QED
      BY <3>1, <3>4
  <2> QED
    BY <2>4, <2>5
<1>9. CASE ~AboutTo(r, Registers)
  <2>1. dram'[r].last = dram[r].last /\ dram'[r].mr0 = dram[r].mr0
    BY <1>6, <1>7, <1>9
  <2>2. IF Own(r) THEN LastIs(dram[r], s, at - 1) ELSE dram[r].last = 0
    BY <1>9 DEF LastInv
  <2>3. LastIs(dram[r], s, at - 1) => LastIs(dram'[r], s, at - 1)
    BY <2>1 DEF LastIs
  <2> QED
    BY <2>1, <2>2, <2>3
<1> QED
  BY <1>8, <1>9

LEMMA LastStep ==
    ASSUME CommandInv, DramInv, StageInv, LastInv, [CNext]_vars
    PROVE  LastInv'
<1>1. CASE UNCHANGED vars
  <2>1. /\ calls' = calls /\ at' = at /\ selected' = selected /\ Live' = Live /\ label' = label
        /\ calls # <<>> => Writes(Head(calls))' = Writes(Head(calls))
        /\ running' = running /\ ip' = ip /\ dram' = dram
    BY <1>1, Stays
  <2> SUFFICES ASSUME NEW r \in Live
               PROVE  /\ AboutTo(r, Modes)' =>
                            IF at' = 1 THEN label' \in UserModes ELSE Own(r)'
                      /\ ~AboutTo(r, Registers)' =>
                            IF Own(r)' THEN LastIs(dram'[r], Writes(Head(calls))', at' - 1)
                                       ELSE dram'[r].last = 0
    BY <2>1 DEF LastInv
  <2>2. Own(r)' = Own(r) /\ (Own(r) => calls # <<>>)
    BY <2>1 DEF Own
  <2>3. AboutTo(r, Modes)' = AboutTo(r, Modes) /\ AboutTo(r, Registers)' = AboutTo(r, Registers)
    BY <2>1 DEF AboutTo
  <2>4. /\ AboutTo(r, Modes) => IF at = 1 THEN label \in UserModes ELSE Own(r)
        /\ ~AboutTo(r, Registers) =>
              IF Own(r) THEN LastIs(dram[r], Writes(Head(calls)), at - 1)
                        ELSE dram[r].last = 0
    BY DEF LastInv
  <2> QED
    BY <2>1, <2>2, <2>3, <2>4
<1>2. CASE Procedures
  <2>1. ~running /\ calls = <<>> /\ dram' = dram /\ Live' = Live /\ running' = running /\ at' = 1
    BY <1>2, Beginning
  <2> SUFFICES ASSUME NEW r \in Live
               PROVE  LastIs(dram'[r], Writes(Head(calls))', 0) /\ dram'[r].last = 0
    BY <2>1 DEF LastInv, AboutTo
  <2>2. dram[r].last = 0
    BY <2>1 DEF LastInv, AboutTo, Own
  <2> QED
    BY <2>1, <2>2, LastsNever
<1> QED
  BY <1>1, <1>2, LastWrite, LastClock DEF CNext

(* What runs in a stage.                                                   *)
LEMMA StageRuns ==
    ASSUME StageInv, running
    PROVE  \/ stage = "initialized" /\ label \in Holds \cup Idles \cup Modes
           \/ stage \in {"configured", "calibrated"} /\ label \in Rows
           \/ stage = "done" /\ label \in HandRuns /\ label # ZQCL
           \/ stage \in InUseStages /\ label \in Bursts
<1>1. PICK p \in Procs : Belongs(p, stage) /\ May(p, label)
  BY DEF StageInv
<1>2. CASE p \in {"reset", "initialize"}
  <2>1. stage = "initialized"
    BY Zenon, <1>1, <1>2 DEF Belongs, OdtProcs, ReadProcs
  <2>2. label \in Holds \cup Idles \cup Modes
    BY Zenon, <1>1, <1>2 DEF May, OdtProcs, ReadProcs, Idles
  <2> QED
    BY <2>1, <2>2
<1>3. CASE p = "activate"
  BY Zenon, <1>1, <1>3 DEF Belongs, May, OdtProcs, ReadProcs
<1>4. CASE p = "handoff"
  <2>1. stage = "done"
    BY Zenon, <1>1, <1>4 DEF Belongs, OdtProcs, ReadProcs
  <2>2. label \in HandRuns \ {ZQCL}
    BY Zenon, <1>1, <1>4 DEF May, OdtProcs, ReadProcs
  <2> QED
    BY <2>1, <2>2
<1>5. CASE p \in OdtProcs \cup {"clear", "odt_off"}
  <2>1. p \notin {"reset", "initialize", "activate", "handoff"}
    BY <1>5 DEF OdtProcs, ReadProcs
  <2>2. stage \in InUseStages
    BY Zenon, <1>1, <2>1 DEF Belongs
  <2>3. label \in Bursts
    BY Zenon, <1>1, <2>1 DEF May
  <2> QED
    BY <2>2, <2>3
<1> QED
  BY <1>1, <1>2, <1>3, <1>4, <1>5 DEF Procs, OffProcs

LEMMA PartOfStage ==
    ASSUME StageInv, NEW i \in 1 .. Len(calls)
    PROVE  /\ calls[i].proc \in {"reset", "initialize"} => stage = "initialized"
           /\ calls[i].proc = "activate" => stage \in {"configured", "calibrated"}
           /\ calls[i].proc = "handoff" => stage = "done"
           /\ stage # "start"
<1>1. Belongs(calls[i].proc, stage)
  BY DEF StageInv
<1> QED
  BY Zenon, <1>1 DEF Belongs, OdtProcs, ReadProcs, InUseStages

(* A rank has one part in a procedure.                                     *)
LEMMA OnlyOne ==
    ASSUME OnceInv, NEW i \in 1 .. Len(calls), NEW j \in 1 .. Len(calls), Len(calls) \in Nat,
           NEW p \in OffProcs, NEW q \in OffProcs, NEW r \in Nat,
           calls[i] = Part(p, r), calls[j] = Part(q, r)
    PROVE  i = j
<1>1. calls[i].proc \in OffProcs /\ calls[j].proc \in OffProcs /\ calls[i].rank = r
      /\ calls[j].rank = r
  BY DEF Part
<1>2. ~(i < j)
  BY <1>1 DEF OnceInv
<1>3. ~(j < i)
  BY <1>1 DEF OnceInv
<1> QED
  BY <1>2, <1>3

(* The run of ZQ calibration of a rank.                                    *)
LEMMA Calibrating ==
    ASSUME CommandInv, StageInv, OnceInv, LastInv, NEW r \in Live, AboutTo(r, {ZQCL})
    PROVE  /\ ~Waiting(r) /\ calls # <<>> /\ Head(calls) = Part("initialize", r)
           /\ at - 1 \in Nat \ {0}
           /\ Writes(Head(calls))[at - 1] = RunReg(ZQCL)
           /\ Given(Writes(Head(calls)), at - 1, RunReg(ZQCL))
<1>1. running /\ label = ZQCL /\ AboutTo(r, Modes)
  BY RunLabels DEF AboutTo
<1>2. at \in Nat /\ at >= 1 /\ Len(calls) \in Nat /\ board \in Boards
  BY DEF CommandInv, CallsInv
<1>3. at > 1 /\ Own(r)
  <2>1. label \notin UserModes
    BY <1>1 DEF ZQCL, UserModes
  <2> QED
    BY <1>1, <1>2, <2>1 DEF LastInv
<1>4. calls # <<>> /\ calls[1] = Head(calls) /\ 1 \in 1 .. Len(calls)
  BY <1>2, <1>3 DEF Own, CommandInv, CallsInv
<1>5. stage = "initialized"
  BY <1>1, StageRuns, RunLabels DEF Rows, ZQCL, PRECHARGE_ALL, ACTIVATE_0_AND_1
<1>6. calls[1] = Part("initialize", r)
  <2>1. calls[1].proc # "handoff"
    BY <1>4, <1>5, PartOfStage
  <2> QED
    BY <1>3, <1>4, <2>1 DEF Own, Part
<1>7. Writes(Head(calls))[at - 1] = RunReg(ZQCL)
  BY <1>1, <1>3, <1>4 DEF StageInv
<1>8. Given(Writes(Head(calls)), at - 1, RunReg(ZQCL))
  <2>1. at - 1 \in 1 .. at - 1
    BY <1>2, <1>3
  <2> QED
    BY <1>7, <2>1 DEF Given
<1>9. ~Waiting(r)
  <2> SUFFICES ASSUME NEW i \in 1 .. Len(calls), calls[i] = Part("initialize", r),
                      i = 1 => ~Given(Writes(Head(calls)), at - 1, RunReg(ZQCL))
               PROVE  FALSE
    BY DEF Waiting
  <2>1. r \in Nat /\ "initialize" \in OffProcs
    <3>1. Ranks \subseteq Nat
      BY DEF Ranks
    <3> QED
      BY <3>1 DEF Live, OffProcs
  <2>2. i = 1
    BY <1>2, <1>4, <1>6, <2>1, OnlyOne
  <2> QED
    BY <1>8, <2>2
<1> QED
  BY <1>2, <1>3, <1>4, <1>6, <1>7, <1>8, <1>9

LEMMA WaitsAlready ==
    ASSUME CommandInv, Write, NEW r, Waiting(r)'
    PROVE  Waiting(r)
<1>1. PICK c, s : Moves(c, s)
  BY Moving
<1>2. PICK d \in {0, 1} :
              /\ Len(calls') = Len(calls) - d /\ Len(calls) \in Nat \ {0}
              /\ \A i \in 1 .. Len(calls') : calls'[i] = calls[i + d] /\ i + d \in 1 .. Len(calls)
              /\ IF d = 0 THEN /\ at < Len(s) /\ at' = at + 1 /\ calls' = calls
                               /\ Writes(Head(calls))' = s
                          ELSE at = Len(s) /\ at' = 1
  BY <1>1, Remain
<1>3. PICK i \in 1 .. Len(calls') :
          /\ calls'[i] = Part("initialize", r)
          /\ i = 1 => ~Given(Writes(Head(calls))', at' - 1, RunReg(ZQCL))
  <2>1. \E i \in 1 .. Len(calls') :
            /\ calls'[i] = Part("initialize", r)
            /\ i = 1 => ~Given(Writes(Head(calls))', at' - 1, RunReg(ZQCL))
    BY DEF Waiting, Part, RunReg
  <2> QED
    BY <2>1
<1>4. i + d \in 1 .. Len(calls) /\ calls[i + d] = Part("initialize", r)
  BY <1>2, <1>3
<1>5. s = Writes(Head(calls)) /\ at \in Nat
  BY <1>1 DEF Moves
<1>6. i + d = 1 => ~Given(s, at - 1, RunReg(ZQCL))
  <2> SUFFICES ASSUME i + d = 1, Given(s, at - 1, RunReg(ZQCL))
               PROVE  FALSE
    OBVIOUS
  <2>1. d = 0 /\ i = 1
    BY <1>2, <1>3
  <2>2. at' = at + 1 /\ Writes(Head(calls))' = s
    BY <1>2, <2>1
  <2>3. Given(s, at, RunReg(ZQCL))
    BY <1>5 DEF Given
  <2> QED
    BY <1>3, <1>5, <2>1, <2>2, <2>3
<1> QED
  BY <1>4, <1>5, <1>6 DEF Waiting

LEMMA FreshWrite ==
    ASSUME CommandInv, DramInv, StageInv, FreshInv, Write
    PROVE  FreshInv'
<1>1. /\ calls # <<>> /\ Ranks' = Ranks /\ Live' = Live /\ Live \subseteq Ranks /\ stage' = stage
  BY WriteStays DEF Write
<1>2. stage # "start"
  <2>1. 1 \in 1 .. Len(calls)
    BY <1>1 DEF CommandInv, CallsInv
  <2> QED
    BY <2>1, PartOfStage
<1> SUFFICES ASSUME stage = "initialized", NEW r \in Live
             PROVE  /\ dram'[r].open = {}
                    /\ Waiting(r)' => dram'[r].phase # "calibrated"
  BY <1>1, <1>2 DEF FreshInv
<1>3. dram'[r].open = dram[r].open /\ dram'[r].phase = dram[r].phase
  BY <1>1, WriteDram
<1>4. Waiting(r)' => Waiting(r)
  BY WaitsAlready
<1>5. dram[r].open = {} /\ (Waiting(r) => dram[r].phase # "calibrated")
  BY DEF FreshInv
<1> QED
  BY <1>3, <1>4, <1>5

LEMMA WaitingStays ==
    ASSUME calls' = calls, at' = at,
           calls # <<>> => Writes(Head(calls))' = Writes(Head(calls)), Len(calls) \in Nat,
           NEW r
    PROVE  Waiting(r)' = Waiting(r)
<1>1. \A i \in 1 .. Len(calls) : calls # <<>>
  OBVIOUS
<1>2. Waiting(r)' <=> \E i \in 1 .. Len(calls) :
          /\ calls[i] = Part("initialize", r)
          /\ i = 1 => ~Given(Writes(Head(calls)), at - 1, RunReg(ZQCL))
  BY <1>1 DEF Waiting, Part, RunReg
<1> QED
  BY <1>2 DEF Waiting

LEMMA FreshClock ==
    ASSUME CommandInv, DramInv, StageInv, OnceInv, FreshInv, LastInv, Clocked
    PROVE  FreshInv'
<1>1. /\ calls' = calls /\ at' = at /\ Live' = Live /\ Live \subseteq Ranks /\ stage' = stage
      /\ calls # <<>> => Writes(Head(calls))' = Writes(Head(calls))
      /\ running /\ label \in Entries /\ ip \in Block(label)
  BY Clocking
<1>2. stage # "start"
  BY <1>1, StageRuns DEF InUseStages
<1> SUFFICES ASSUME stage = "initialized", NEW r \in Live
             PROVE  /\ dram'[r].open = {}
                    /\ Waiting(r)' => dram'[r].phase # "calibrated"
  BY <1>1, <1>2 DEF FreshInv
<1>3. label \in Holds \cup Idles \cup Modes
  BY <1>1, StageRuns DEF InUseStages
<1>4. dram[r].open = {} /\ (Waiting(r) => dram[r].phase # "calibrated")
  BY DEF FreshInv
<1>5. r \in Ranks
  BY <1>1
<1>6. /\ Sent(r).kind = "zqcl" => AboutTo(r, {ZQCL})
      /\ Sent(r).kind = "act" => label = 13
  BY <1>5, Told DEF ACTIVATE_0_AND_1
<1>7. Sent(r).kind # "act"
  BY <1>3, <1>6, RunLabels DEF Modes
<1>8. /\ Sent(r).kind = "pre" => dram'[r].open = {}
      /\ Sent(r).kind \notin {"pre", "act"} => dram'[r].open = dram[r].open
      /\ dram'[r].phase = PhaseAfter(dram[r], Sent(r))
  BY <1>5, ClockDram
<1>9. dram'[r].open = {}
  BY <1>4, <1>7, <1>8
<1>10. Waiting(r)' = Waiting(r)
  <2>1. Len(calls) \in Nat
    BY DEF CommandInv, CallsInv
  <2> QED
    BY <1>1, <2>1, WaitingStays
<1>11. ASSUME Waiting(r)
       PROVE  dram'[r].phase # "calibrated"
  <2>1. Sent(r).kind # "zqcl" /\ dram[r].phase # "calibrated"
    BY <1>4, <1>6, <1>11, Calibrating
  <2> DEFINE k == Sent(r)
  <2>2. k.kind # "zqcl" /\ dram'[r].phase = PhaseAfter(dram[r], k)
    BY <1>8, <2>1
  <2> HIDE DEF k
  <2> QED
    BY <2>1, <2>2 DEF PhaseAfter
<1> QED
  BY <1>9, <1>10, <1>11

LEMMA FreshStep ==
    ASSUME CommandInv, DramInv, StageInv, OnceInv, FreshInv, LastInv, [CNext]_vars
    PROVE  FreshInv'
<1>1. CASE UNCHANGED vars
  <2>1. /\ calls' = calls /\ at' = at /\ Live' = Live /\ stage' = stage /\ dram' = dram
        /\ calls # <<>> => Writes(Head(calls))' = Writes(Head(calls))
    BY <1>1, Stays
  <2>2. Len(calls) \in Nat
    BY DEF CommandInv, CallsInv
  <2>3. \A r : Waiting(r)' = Waiting(r)
    BY <2>1, <2>2, WaitingStays
  <2> QED
    BY <2>1, <2>3 DEF FreshInv
<1>2. CASE Procedures
  <2>1. dram' = dram /\ Live' = Live /\ Begun(stage, stage')
    BY <1>2, Beginning
  <2>2. stage' # "start" /\ (stage' = "initialized" => stage = "start")
    BY <2>1 DEF Begun, InUseStages
  <2> QED
    BY <2>1, <2>2 DEF FreshInv
<1> QED
  BY <1>1, <1>2, FreshWrite, FreshClock DEF CNext

(* ZQ calibration and the delay that follows it, as the initialisation of  *)
(* a rank sets it up.                                                      *)
Settled(r) == calls # <<>> /\ Head(calls) = Part("initialize", r)
              /\ Given(Writes(Head(calls)), at - 1, RunReg(ZQCL))

Delaying(r) ==
    /\ running /\ label = IDLE_LOOP2 /\ selected = {r}
    /\ \A c \in 0 .. 1 : jump[c] = label /\ first[c] = reload[c]
    /\ reload[0] = 255 /\ reload[1] = 1

LEMMA SettlingIs ==
    ASSUME NEW r
    PROVE  Settling(r) <=>
               Settled(r) \/ (Delaying(r) /\ AtLeast(dram[r], "zqcl", elapsed))
BY DEF Settling, Settled, Delaying

LEMMA EndsInDelay ==
    ASSUME NEW s, NEW m, NEW n \in Nat, n = Len(s), Register(s, n - 1), InitialExact(s, m),
           Run(122)
    PROVE  /\ running' /\ label' = IDLE_LOOP2 /\ elapsed' = 0
           /\ \A c \in 0 .. 1 : jump'[c] = label' /\ first'[c] = reload'[c]
           /\ reload'[0] = 255 /\ reload'[1] = 1
<1>1. /\ \A c \in 0 .. 1 : Aimed(s, n - 1, c, {122})
      /\ Loaded(s, n - 1, 0, 255) /\ Loaded(s, n - 1, 1, 1)
  BY DEF InitialExact, AimedTo, IDLE_LOOP2
<1>2. 0 \in Cntrs /\ 1 \in Cntrs /\ 122 \in Addresses /\ 255 \in 0 .. MaxCntr /\ 1 \in 0 .. MaxCntr
  <2>1. MaxCntr >= 255 /\ MaxCntr \in Nat
    BY Constants, CntrAssumption
  <2> QED
    BY <2>1 DEF Cntrs, Addresses
<1>3. /\ jump[0] = 122 /\ jump[1] = 122
      /\ cntr[0] = 255 /\ reload[0] = 255 /\ cntr[1] = 1 /\ reload[1] = 1
  BY <1>1, <1>2 DEF Register
<1>4. /\ running' = TRUE /\ label' = 122 /\ elapsed' = 0 /\ first' = cntr /\ reload' = reload
      /\ jump' = jump
  BY DEF Run
<1>5. \A c \in 0 .. 1 : c = 0 \/ c = 1
  OBVIOUS
<1> QED
  BY <1>3, <1>4, <1>5 DEF IDLE_LOOP2

LEMMA ZqclWrite ==
    ASSUME CommandInv, DramInv, BuiltInv, ZqclInv, Write
    PROVE  ZqclInv'
<1>1. PICK c, s : Moves(c, s)
  BY Moving
<1>2. PICK d \in {0, 1} :
              /\ Len(calls') = Len(calls) - d /\ Len(calls) \in Nat \ {0}
              /\ \A i \in 1 .. Len(calls') : calls'[i] = calls[i + d] /\ i + d \in 1 .. Len(calls)
              /\ IF d = 0 THEN /\ at < Len(s) /\ at' = at + 1 /\ calls' = calls
                               /\ Writes(Head(calls))' = s
                          ELSE at = Len(s) /\ at' = 1
  BY <1>1, Remain
<1>3. /\ ~running /\ Ranks' = Ranks /\ board \in Boards /\ Live' = Live /\ Live \subseteq Ranks
      /\ Wlat' = Wlat
  BY WriteStays
<1>4. /\ c \in Parts /\ c = Head(calls) /\ s = Writes(c) /\ s = Writes(Head(calls))
      /\ at \in 1 .. Len(s) /\ Len(s) \in Nat /\ calls # <<>>
      /\ c.proc \in OffProcs => selected' = {c.rank}
      /\ s[at].op = "run" => Run(s[at].val)
      /\ Register(s, at - 1)
  BY <1>1 DEF Moves
<1> SUFFICES ASSUME NEW r \in Live
             PROVE  dram'[r].since["zqcl"] = TZQinit \/ Settling(r)'
  BY <1>3 DEF ZqclInv
<1>5. r \in Ranks /\ board \in Boards /\ Limit("zqcl", Wlat) = 512
  BY <1>3, BoardTimes, LimitIs
<1>6. CASE dram[r].since["zqcl"] = TZQinit
  BY <1>5, <1>6, Rests, EventsAre DEF TZQinit
<1>7. CASE Settled(r)
  <2>1. c = Part("initialize", r) /\ Given(s, at - 1, RunReg(ZQCL))
    BY <1>4, <1>7 DEF Settled
  <2>2. CASE d = 0
    <3>1. calls' = calls /\ at' = at + 1 /\ Writes(Head(calls))' = s
      BY <1>2, <2>2
    <3>2. Given(s, at, RunReg(ZQCL))
      BY <1>4, <2>1 DEF Given
    <3>3. at' - 1 = at
      BY <1>4, <3>1
    <3>4. Settled(r)'
      BY <1>4, <2>1, <3>1, <3>2, <3>3 DEF Settled, Part, RunReg
    <3> QED
      BY <3>4 DEF Settling, Settled
  <2>3. CASE d = 1
    <3>1. at = Len(s)
      BY <1>2, <2>3
    <3>2. c.proc = "initialize" /\ c.rank = r
      BY <2>1 DEF Part
    <3>3. InitialExact(s, r \in board.mirrored)
      BY <1>3, <1>4, <3>2, InitializeExact
    <3>4. s[at].op = "run" /\ s[at].val = 122
      BY <3>1, <3>3, WritesAre DEF InitialExact, IDLE_LOOP2
    <3>5. /\ running' /\ label' = IDLE_LOOP2 /\ elapsed' = 0
          /\ \A x \in 0 .. 1 : jump'[x] = label' /\ first'[x] = reload'[x]
          /\ reload'[0] = 255 /\ reload'[1] = 1
      BY <1>4, <3>1, <3>3, <3>4, EndsInDelay
    <3>6. selected' = {r}
      BY <1>4, <3>2 DEF OffProcs
    <3>7. AtLeast(dram'[r], "zqcl", 0)
      <4>1. dram[r].since["zqcl"] \in Nat /\ dram'[r].since["zqcl"] \in Nat
        BY <1>3, <1>5, Rests, EventsAre
      <4> QED
        BY <4>1 DEF AtLeast
    <3> QED
      BY <3>5, <3>6, <3>7 DEF Settling
  <2> QED
    BY <2>2, <2>3
<1>8. dram[r].since["zqcl"] = TZQinit \/ Settled(r)
  BY <1>3, SettlingIs DEF ZqclInv, Delaying
<1> QED
  BY <1>6, <1>7, <1>8

LEMMA ZqclClock ==
    ASSUME CommandInv, DramInv, BuiltInv, StageInv, OnceInv, LastInv, ZqclInv,
           LoopsLastTheirCycles, Clocked
    PROVE  ZqclInv'
<1>1. /\ calls' = calls /\ at' = at /\ Live' = Live /\ Live \subseteq Ranks /\ board \in Boards
      /\ calls # <<>> => Writes(Head(calls))' = Writes(Head(calls))
      /\ running /\ label \in Entries /\ ip \in Block(label) /\ EngineTypeOK /\ Play
      /\ label' = label /\ jump' = jump /\ reload' = reload /\ first' = first
      /\ selected' = selected /\ elapsed' = IF label \in Timed THEN elapsed + 1 ELSE 0
      /\ Wlat' = Wlat
  BY Clocking
<1> SUFFICES ASSUME NEW r \in Live
             PROVE  dram'[r].since["zqcl"] = TZQinit \/ Settling(r)'
  BY <1>1 DEF ZqclInv
<1>2. r \in Ranks /\ Limit("zqcl", Wlat) = 512
  <2>1. board \in Boards /\ r \in Ranks
    BY <1>1
  <2>2. Wlat \in 1 .. 25
    BY <2>1, BoardTimes
  <2>3. Wlat \in Nat
    BY <2>2
  <2> QED
    BY <2>1, <2>3, LimitIs
<1>3. Settled(r) => Settling(r)'
  <2> SUFFICES ASSUME Settled(r)
               PROVE  Settled(r)'
    BY DEF Settling, Settled
  <2>1. /\ calls' = calls /\ at' = at /\ calls # <<>>
        /\ Writes(Head(calls))' = Writes(Head(calls))
    BY <1>1 DEF Settled
  <2> QED
    BY <2>1 DEF Settled, Part, RunReg
<1>4. Sent(r).kind \in CommandKinds
  BY KindOf
<1>5. EventOf(dram[r], Sent(r)) = "zqcl" <=> Sent(r).kind = "zqcl"
  BY <1>4, EventIs DEF Matches
<1>6. CASE Sent(r).kind = "zqcl"
  <2>1. AboutTo(r, {ZQCL})
    BY <1>2, <1>6, Told
  <2>2. Settled(r)
    BY <2>1, Calibrating DEF Settled
  <2> QED
    BY <1>3, <2>2
<1>7. CASE Sent(r).kind # "zqcl" /\ dram[r].since["zqcl"] = TZQinit
  BY <1>1, <1>2, <1>5, <1>7, Passes, EventsAre DEF TZQinit
<1>8. CASE Sent(r).kind # "zqcl" /\ Delaying(r) /\ AtLeast(dram[r], "zqcl", elapsed)
  <2>1. label = IDLE_LOOP2 /\ label \in Timed
    BY <1>8 DEF Delaying, Timed
  <2>2. elapsed \in Nat /\ elapsed' = elapsed + 1
    BY <1>1, <2>1 DEF EngineTypeOK
  <2>3. AtLeast(dram'[r], "zqcl", elapsed + 1)
    BY <1>1, <1>2, <1>5, <1>8, <2>2, Passes, EventsAre
  <2>4. CASE running'
    <3>1. Delaying(r)'
      BY <1>1, <1>8, <2>4 DEF Delaying
    <3> QED
      BY <2>2, <2>3, <3>1 DEF Settling, Delaying
  <2>5. CASE ~running'
    <3>1. ip \in Returns
      BY <1>1, <2>5, PlayEnds
    <3>2. InDelay2
      BY <1>8 DEF Delaying, InDelay2, Nested
    <3>3. elapsed + 1 = Delay2Cycles(reload[0], reload[1])
      BY <1>1, <3>1, <3>2 DEF LoopsLastTheirCycles
    <3>4. elapsed + 1 = 515
      BY <1>8, <3>3 DEF Delaying, Delay2Cycles
    <3>5. dram'[r].wlat = Wlat /\ dram'[r].since["zqcl"] \in 0 .. 512
      <4>1. dram'[r].wlat = Wlat /\ Timely(dram'[r])
        BY <1>1, <1>2, ClockedTimes
      <4> QED
        BY <1>2, <4>1, EventsAre DEF Timely
    <3>6. dram'[r].since["zqcl"] = 512
      <4>1. dram'[r].since["zqcl"] >= 515 \/ dram'[r].since["zqcl"] = Limit("zqcl", dram'[r].wlat)
        BY <2>3, <3>4 DEF AtLeast
      <4>2. Limit("zqcl", dram'[r].wlat) = 512
        BY <1>2, <3>5
      <4>3. PICK v \in 0 .. 512 : v = dram'[r].since["zqcl"]
        BY <3>5
      <4>4. v >= 515 \/ v = 512
        BY <4>1, <4>2, <4>3
      <4>5. v = 512
        BY <4>4
      <4> QED
        BY <4>3, <4>5
    <3> QED
      BY <3>6 DEF TZQinit
  <2> QED
    BY <2>4, <2>5
<1>9. \/ dram[r].since["zqcl"] = TZQinit \/ Settled(r)
      \/ Delaying(r) /\ AtLeast(dram[r], "zqcl", elapsed)
  BY SettlingIs DEF ZqclInv
<1> QED
  BY <1>3, <1>6, <1>7, <1>8, <1>9

LEMMA ZqclStep ==
    ASSUME CommandInv, DramInv, BuiltInv, StageInv, OnceInv, LastInv, ZqclInv,
           LoopsLastTheirCycles, [CNext]_vars
    PROVE  ZqclInv'
<1>1. CASE UNCHANGED vars
  <2>1. /\ calls' = calls /\ at' = at /\ selected' = selected /\ dram' = dram
        /\ running' = running /\ label' = label /\ jump' = jump /\ reload' = reload
        /\ first' = first /\ elapsed' = elapsed /\ Live' = Live
        /\ calls # <<>> => Writes(Head(calls))' = Writes(Head(calls))
    BY <1>1, Stays
  <2> SUFFICES ASSUME NEW r \in Live, Settling(r)
               PROVE  Settling(r)'
    BY <2>1 DEF ZqclInv
  <2>2. CASE Settled(r)
    <3>1. Settled(r)'
      BY <2>1, <2>2 DEF Settled, Part, RunReg
    <3> QED
      BY <3>1 DEF Settling, Settled
  <2>3. CASE Delaying(r) /\ AtLeast(dram[r], "zqcl", elapsed)
    BY <2>1, <2>3 DEF Settling, Delaying
  <2> QED
    BY <2>2, <2>3, SettlingIs
<1>2. CASE Procedures
  <2>1. ~running /\ calls = <<>> /\ dram' = dram /\ Live' = Live
    BY <1>2, Beginning
  <2> SUFFICES ASSUME NEW r \in Live
               PROVE  dram[r].since["zqcl"] = TZQinit
    BY <2>1 DEF ZqclInv
  <2> QED
    BY <2>1 DEF ZqclInv, Settling
<1> QED
  BY <1>1, <1>2, ZqclWrite, ZqclClock DEF CNext

(* The mode registers have had their time, but for those of a rank that is *)
(* being initialised or handed off.                                        *)
Quieted(r) == dram[r].since["mrs"] = 12 /\ ~AboutTo(r, Registers)

Loading(r) == calls # <<>> /\ Head(calls) = Part("initialize", r)
              /\ ~Given(Writes(Head(calls)), at - 1, RunReg(ZQCL))

Leaving(r) ==
    stage = "done" /\ \A i \in 1 .. Len(calls) :
        calls[i] = Part("handoff", r) => i = 1 /\ ~NoMode(Writes(Head(calls)), at - 1)

LEMMA MrsIs ==
    /\ MrsInv <=> \A r \in Live : Loading(r) \/ Leaving(r) \/ Quieted(r)
    /\ MrsInv' <=> \A r \in Live' : Loading(r)' \/ Leaving(r)' \/ Quieted(r)'
<1>1. \A r : Unsettled(r) <=> Loading(r) \/ Leaving(r)
  BY DEF Unsettled, Loading, Leaving
<1>2. \A r : Unsettled(r)' <=> Loading(r)' \/ Leaving(r)'
  BY DEF Unsettled, Loading, Leaving
<1> QED
  BY <1>1, <1>2 DEF MrsInv, Quieted, TMOD

LEMMA MrsWrite ==
    ASSUME CommandInv, DramInv, BuiltInv, StageInv, OnceInv, CalmInv, MrsInv, Write
    PROVE  MrsInv'
<1>1. PICK c, s : Moves(c, s)
  BY Moving
<1>2. PICK d \in {0, 1} :
              /\ Len(calls') = Len(calls) - d /\ Len(calls) \in Nat \ {0}
              /\ \A i \in 1 .. Len(calls') : calls'[i] = calls[i + d] /\ i + d \in 1 .. Len(calls)
              /\ IF d = 0 THEN /\ at < Len(s) /\ at' = at + 1 /\ calls' = calls
                               /\ Writes(Head(calls))' = s
                          ELSE at = Len(s) /\ at' = 1
  BY <1>1, Remain
<1>3. /\ ~running /\ Ranks' = Ranks /\ board \in Boards /\ Live' = Live /\ Live \subseteq Ranks
      /\ Wlat' = Wlat /\ stage' = stage /\ Live \subseteq Nat
  BY WriteStays
<1>4. /\ c \in Parts /\ c = Head(calls) /\ s = Writes(c) /\ s = Writes(Head(calls))
      /\ at \in 1 .. Len(s) /\ Len(s) \in Nat /\ calls # <<>> /\ c = calls[1]
      /\ c.proc \in OffProcs => selected' = {c.rank}
      /\ s[at].op = "run" => label' = s[at].val
      /\ Exact(s, at) /\ c = Part(c.proc, c.rank)
  BY <1>1 DEF Moves
<1> SUFFICES ASSUME NEW r \in Live
             PROVE  Loading(r)' \/ Leaving(r)' \/ Quieted(r)'
  BY <1>3, MrsIs
<1>5. r \in Ranks /\ Limit("mrs", Wlat) = 12 /\ r \in Nat
  <2>1. board \in Boards /\ r \in Ranks /\ r \in Nat
    BY <1>3
  <2>2. Wlat \in Nat
    BY <2>1, BoardTimes
  <2> QED
    BY <2>1, <2>2, LimitIs
<1>6. PICK n \in Nat : n = at - 1 /\ n + 1 = at
  BY <1>4
<1>7. CASE Loading(r)
  <2>1. c = Part("initialize", r) /\ ~Given(s, n, RunReg(ZQCL))
    BY <1>4, <1>6, <1>7 DEF Loading
  <2>2. c.proc = "initialize" /\ c.rank = r
    BY <2>1 DEF Part
  <2>3. InitialExact(s, r \in board.mirrored)
    BY <1>3, <1>4, <2>2, InitializeExact
  <2>4. d = 0
    <3> SUFFICES ASSUME d = 1
                 PROVE  FALSE
      OBVIOUS
    <3>1. n = Len(s) - 1
      BY <1>2, <1>6
    <3> QED
      BY <2>1, <2>3, <3>1 DEF InitialExact
  <2>5. calls' = calls /\ at' = at + 1 /\ Writes(Head(calls))' = s
    BY <1>2, <2>4
  <2>6. CASE s[at] = RunReg(ZQCL)
    <3>1. s[at].op = "run" /\ s[at].val = ZQCL /\ label' = ZQCL
      BY <1>4, <2>6, WritesAre
    <3>2. Pause(s, at - 1, 2)
      BY <1>4, <3>1, RunLabels DEF Exact
    <3>3. AtLeast(dram'[r], "mrs", 12)
      BY <1>1, <1>5, <3>2, Paused, EventsAre
    <3>4. dram'[r].wlat = Wlat /\ dram'[r].since["mrs"] \in 0 .. 12
      <4>1. dram'[r].wlat = Wlat /\ Timely(dram'[r])
        BY <1>3, <1>5, WrittenTimes
      <4> QED
        BY <1>5, <4>1, EventsAre DEF Timely
    <3>5. dram'[r].since["mrs"] = 12
      <4>1. dram'[r].since["mrs"] >= 12 \/ dram'[r].since["mrs"] = Limit("mrs", dram'[r].wlat)
        BY <3>3 DEF AtLeast
      <4>2. PICK v \in 0 .. 12 : v = dram'[r].since["mrs"]
        BY <3>4
      <4>3. v >= 12 \/ v = 12
        BY <1>5, <3>4, <4>1, <4>2
      <4>4. v = 12
        BY <4>3
      <4> QED
        BY <4>2, <4>4
    <3>6. ~AboutTo(r, Registers)'
      BY <3>1, RunLabels DEF AboutTo
    <3> QED
      BY <3>5, <3>6 DEF Quieted
  <2>7. CASE s[at] # RunReg(ZQCL)
    <3>1. ~Given(s, n + 1, RunReg(ZQCL))
      BY <1>6, <2>1, <2>7 DEF Given
    <3>2. n + 1 = at' - 1
      BY <1>6, <2>5
    <3>3. Loading(r)'
      BY <1>4, <2>1, <2>5, <3>1, <3>2 DEF Loading, Part, RunReg
    <3> QED
      BY <3>3
  <2> QED
    BY <2>6, <2>7
<1>8. CASE Leaving(r)
  <2>1. stage = "done" /\ \A i \in 1 .. Len(calls) :
            calls[i] = Part("handoff", r) => i = 1 /\ ~NoMode(s, n)
    BY <1>4, <1>6, <1>8 DEF Leaving
  <2>2. ~NoMode(s, n) => ~NoMode(s, n + 1)
    BY DEF NoMode
  <2>3. ASSUME NEW i \in 1 .. Len(calls'), calls'[i] = Part("handoff", r)
        PROVE  i = 1 /\ ~NoMode(Writes(Head(calls))', at' - 1)
    <3>1. calls[i + d] = Part("handoff", r) /\ i + d \in 1 .. Len(calls)
      BY <1>2, <2>3
    <3>2. i + d = 1 /\ ~NoMode(s, n)
      BY <2>1, <3>1
    <3>3. d = 0 /\ i = 1
      BY <1>2, <3>2
    <3>4. at' - 1 = n + 1 /\ Writes(Head(calls))' = s
      BY <1>2, <1>6, <3>3
    <3> QED
      BY <2>2, <3>2, <3>3, <3>4
  <2>4. Leaving(r)'
    BY <1>3, <2>1, <2>3 DEF Leaving, Part
  <2> QED
    BY <2>4
<1>9. CASE Quieted(r)
  <2>1. dram'[r].since["mrs"] = 12
    BY <1>3, <1>5, <1>9, Rests, EventsAre DEF Quieted
  <2>2. CASE ~AboutTo(r, Registers)'
    BY <2>1, <2>2 DEF Quieted
  <2>3. CASE AboutTo(r, Registers)'
    <3>1. running' /\ label' \in Registers /\ label' \in Modes /\ selected' = {r}
      BY <2>3, RunLabels DEF AboutTo
    <3>2. PICK x, t : Starts(x, t, label')
      BY <3>1, Starting
    <3>3. /\ x.proc \in {"initialize", "handoff"} /\ selected' = {x.rank} /\ Own(x.rank)
      BY <3>1, <3>2, LoadsOwn
    <3>4. x = c /\ t = s /\ s[at] = RunReg(label') /\ s[at].op = "run" /\ s[at].val = label'
      BY <1>4, <3>2 DEF Starts
    <3>5. c.rank = r /\ c = Part(c.proc, r) /\ c.proc \in {"initialize", "handoff"}
      BY <1>4, <3>1, <3>3, <3>4
    <3>6. CASE c.proc = "initialize"
      <4>1. InitialExact(s, r \in board.mirrored)
        BY <1>3, <1>4, <3>5, <3>6, InitializeExact
      <4>2. at < Len(s) /\ ~Given(s, n, RunReg(ZQCL))
        BY <1>4, <1>6, <3>1, <3>4, <4>1 DEF InitialExact
      <4>3. s[at] # RunReg(ZQCL)
        BY <3>1, <3>4, RunLabels, WritesAre
      <4>4. ~Given(s, n + 1, RunReg(ZQCL))
        BY <1>6, <4>2, <4>3 DEF Given
      <4>5. d = 0
        BY <1>2, <4>2
      <4>6. calls' = calls /\ at' - 1 = n + 1 /\ Writes(Head(calls))' = s
        BY <1>2, <1>6, <4>5
      <4>7. Loading(r)'
        BY <1>4, <3>5, <3>6, <4>4, <4>6 DEF Loading, Part, RunReg
      <4> QED
        BY <4>7
    <3>7. CASE c.proc = "handoff"
      <4>1. stage = "done"
        BY <1>2, <1>4, <3>7, PartOfStage
      <4>2. ~NoMode(s, n + 1)
        BY <1>6, <3>1, <3>4 DEF NoMode, ModeRun
      <4>3. ASSUME NEW i \in 1 .. Len(calls'), calls'[i] = Part("handoff", r)
            PROVE  i = 1 /\ ~NoMode(Writes(Head(calls))', at' - 1)
        <5>1. calls[i + d] = Part("handoff", r) /\ i + d \in 1 .. Len(calls)
          BY <1>2, <4>3
        <5>2. 1 \in 1 .. Len(calls) /\ calls[1] = Part("handoff", r) /\ "handoff" \in OffProcs
              /\ Len(calls) \in Nat
          BY <1>2, <1>4, <3>5, <3>7 DEF OffProcs
        <5>3. i + d = 1
          BY <1>5, <5>1, <5>2, OnlyOne
        <5>4. d = 0 /\ i = 1
          BY <1>2, <5>3
        <5>5. at' - 1 = n + 1 /\ Writes(Head(calls))' = s
          BY <1>2, <1>6, <5>4
        <5> QED
          BY <4>2, <5>4, <5>5
      <4>4. Leaving(r)'
        BY <1>3, <4>1, <4>3 DEF Leaving, Part
      <4> QED
        BY <4>4
    <3> QED
      BY <3>5, <3>6, <3>7
  <2> QED
    BY <2>2, <2>3
<1> QED
  BY <1>7, <1>8, <1>9, MrsIs

LEMMA LoadingStays ==
    ASSUME calls' = calls, at' = at, stage' = stage, Len(calls) \in Nat,
           calls # <<>> => Writes(Head(calls))' = Writes(Head(calls)), NEW r
    PROVE  /\ Loading(r)' = Loading(r) /\ Leaving(r)' = Leaving(r)
<1>1. \A i \in 1 .. Len(calls) : calls # <<>>
  OBVIOUS
<1>2. Loading(r)' <=> /\ calls # <<>> /\ Head(calls) = Part("initialize", r)
                      /\ ~Given(Writes(Head(calls)), at - 1, RunReg(ZQCL))
  BY DEF Loading, Part, RunReg
<1>3. Leaving(r)' <=> stage = "done" /\ \A i \in 1 .. Len(calls) :
          calls[i] = Part("handoff", r) => i = 1 /\ ~NoMode(Writes(Head(calls)), at - 1)
  BY <1>1 DEF Leaving, Part
<1> QED
  BY <1>2, <1>3 DEF Loading, Leaving

LEMMA MrsStep ==
    ASSUME CommandInv, DramInv, BuiltInv, StageInv, OnceInv, CalmInv, MrsInv, [CNext]_vars
    PROVE  MrsInv'
<1>1. CASE UNCHANGED vars
  <2>1. /\ calls' = calls /\ at' = at /\ stage' = stage /\ Live' = Live /\ dram' = dram
        /\ selected' = selected /\ running' = running /\ label' = label /\ ip' = ip
        /\ calls # <<>> => Writes(Head(calls))' = Writes(Head(calls))
    BY <1>1, Stays
  <2>2. Len(calls) \in Nat
    BY DEF CommandInv, CallsInv
  <2>3. \A r : Loading(r)' = Loading(r) /\ Leaving(r)' = Leaving(r)
    BY <2>1, <2>2, LoadingStays
  <2>4. \A r : Quieted(r)' = Quieted(r)
    BY <2>1 DEF Quieted, AboutTo
  <2> QED
    BY <2>1, <2>3, <2>4, MrsIs
<1>2. CASE Procedures
  <2>1. ~running /\ calls = <<>> /\ dram' = dram /\ Live' = Live /\ ~running'
        /\ Begun(stage, stage')
    BY <1>2, Beginning
  <2> SUFFICES ASSUME NEW r \in Live
               PROVE  Quieted(r)'
    BY <2>1, MrsIs
  <2>2. ~Loading(r) /\ ~Leaving(r)
    BY <2>1 DEF Loading, Leaving, Begun, InUseStages
  <2>3. dram[r].since["mrs"] = 12
    BY <2>2, MrsIs DEF Quieted
  <2> QED
    BY <2>1, <2>3 DEF Quieted, AboutTo
<1>3. CASE Clocked
  <2>1. /\ calls' = calls /\ at' = at /\ stage' = stage /\ Live' = Live
        /\ Live \subseteq Ranks /\ board \in Boards
        /\ calls # <<>> => Writes(Head(calls))' = Writes(Head(calls))
    BY <1>3, Clocking
  <2>2. Len(calls) \in Nat
    BY DEF CommandInv, CallsInv
  <2> SUFFICES ASSUME NEW r \in Live, Quieted(r)
               PROVE  Quieted(r)'
    BY <2>1, <2>2, LoadingStays, MrsIs
  <2>3. r \in Ranks /\ Limit("mrs", Wlat) = 12
    <3>1. r \in Ranks /\ board \in Boards
      BY <2>1
    <3>2. Wlat \in Nat
      BY <3>1, BoardTimes
    <3> QED
      BY <3>1, <3>2, LimitIs
  <2>4. Sent(r).kind # "mrs"
    BY <1>3, <2>3, Told DEF Quieted
  <2>5. EventOf(dram[r], Sent(r)) # "mrs"
    BY <2>4, KindOf, EventIs DEF Matches
  <2>6. dram'[r].since["mrs"] = 12
    BY <1>3, <2>1, <2>3, <2>5, Passes, EventsAre DEF Quieted
  <2>7. ~AboutTo(r, Registers)'
    <3>1. ~AboutTo(r, Modes \cup {PRECHARGE_ALL})'
      BY <1>3, NoMore
    <3> QED
      BY <3>1, RunLabels DEF AboutTo
  <2> QED
    BY <2>6, <2>7 DEF Quieted
<1> QED
  BY <1>1, <1>2, <1>3, MrsWrite DEF CNext

(* The activation of the rows of a rank.                                   *)
LEMMA OpensOn ==
    ASSUME CommandInv, DramInv, BuiltInv, TunedInv, Clocked, NEW r \in Live, Opening(r)
    PROVE  /\ running' => Opening(r)'
           /\ ~running' => dram'[r].open = Banks
<1>1. /\ label \in Entries /\ ip \in Block(label) /\ EngineTypeOK /\ Play /\ running
      /\ label' = label /\ selected' = selected /\ board \in Boards /\ Live \subseteq Ranks
  BY Clocking
<1>2. label = 13 /\ ip \in 13 .. 17 /\ selected = {r} /\ label = ACTIVATE_0_AND_1 /\ r \in Ranks
  BY <1>1, BlocksOf DEF Opening
<1>3. jump[0] = 14 /\ jump[1] = 16
  BY <1>1, <1>2 DEF TunedInv, ActTuned
<1> DEFINE k == Sent(r).kind
<1>4. /\ k = "act" <=> ip \in {13, 15}
      /\ k = "act" => Sent(r).bank = IF ip = 13 THEN 0 ELSE 1
      /\ k # "pre"
  <2>1. ~AboutTo(r, {PRECHARGE_ALL})
    BY <1>2 DEF AboutTo, PRECHARGE_ALL
  <2> QED
    BY <1>2, <2>1, Told
<1>5. /\ k = "act" => dram'[r].open = dram[r].open \cup {Sent(r).bank}
      /\ k \notin {"pre", "act"} => dram'[r].open = dram[r].open
  BY <1>1, <1>2, ClockedTimes, ClockDram
<1>6. /\ ip = 13 => dram[r].open = {}
      /\ ip \in {14, 15} => dram[r].open = {0}
      /\ ip > 15 => dram[r].open = Banks
  BY DEF Opening
<1>7. dram'[r].open = IF ip = 13 THEN {0} ELSE IF ip = 15 THEN {0, 1} ELSE dram[r].open
  BY <1>4, <1>5, <1>6
<1>8. ASSUME running'
      PROVE  Opening(r)'
  <2>1. /\ ip \notin Returns
        /\ ip \in Straight => Onward
        /\ ip = 14 => Round(0, jump[0])
        /\ ip = 16 => Round(1, jump[1])
    BY <1>1, <1>8, PlayOn
  <2>2. ip \in {13, 14, 15, 16}
    BY <1>2, <2>1 DEF Returns
  <2> SUFFICES /\ ip' = 13 => dram'[r].open = {}
               /\ ip' \in {14, 15} => dram'[r].open = {0}
               /\ ip' > 15 => dram'[r].open = Banks
    BY <1>1, <1>2, <1>8 DEF Opening
  <2>3. CASE ip = 13
    BY <1>7, <2>1, <2>3 DEF Straight, Onward
  <2>4. CASE ip = 14
    BY <1>3, <1>6, <1>7, <2>1, <2>4 DEF Round
  <2>5. CASE ip = 15
    BY <1>7, <2>1, <2>5 DEF Straight, Onward, Banks
  <2>6. CASE ip = 16
    BY <1>3, <1>6, <1>7, <2>1, <2>6 DEF Round
  <2> QED
    BY <2>2, <2>3, <2>4, <2>5, <2>6
<1>9. ASSUME ~running'
      PROVE  dram'[r].open = Banks
  <2>1. ip \in Returns
    BY <1>1, <1>9, PlayEnds
  <2>2. ip = 17
    BY <1>2, <2>1 DEF Returns
  <2> QED
    BY <1>6, <1>7, <2>2
<1> QED
  BY <1>8, <1>9

(* Which part runs what.                                                   *)
LEMMA RowRuns ==
    ASSUME NEW c, NEW s, Starts(c, s, label')
    PROVE  /\ label' = ACTIVATE_0_AND_1 => c.proc = "activate"
           /\ label' = PRECHARGE_ALL => c.proc \in {"activate", "handoff"}
           /\ label' \in Rows => selected' = {c.rank} /\ c.rank \in Live
<1>1. /\ May(c.proc, label') /\ c.proc \in OffProcs => c.rank \in Live /\ selected = {c.rank}
  BY DEF Starts
<1>2. May(c.proc, label') /\ selected' = selected
  BY DEF Starts
<1>3. /\ label' \in Rows => /\ label' \notin Holds \cup {IDLE_LOOP1} /\ label' \notin Bursts
                            /\ label' \notin Modes \cup Idles
      /\ ACTIVATE_0_AND_1 \in Rows /\ PRECHARGE_ALL \in Rows
      /\ ACTIVATE_0_AND_1 \notin HandRuns
  <2>1. ACTIVATE_0_AND_1 = 13 /\ PRECHARGE_ALL = 18 /\ IDLE_LOOP1 = 123
    BY DEF ACTIVATE_0_AND_1, PRECHARGE_ALL, IDLE_LOOP1
  <2> QED
    BY <2>1, RunLabels DEF Modes, HandRuns
<1>4. label' \in Rows => c.proc \in {"activate", "handoff"}
  BY Zenon, <1>2, <1>3 DEF May
<1>5. label' = ACTIVATE_0_AND_1 => c.proc # "handoff"
  <2> SUFFICES ASSUME label' = ACTIVATE_0_AND_1, c.proc = "handoff"
               PROVE  FALSE
    OBVIOUS
  <2>1. label' \in HandRuns
    BY Zenon, <1>2 DEF May, OdtProcs, ReadProcs
  <2> QED
    BY <1>3, <2>1
<1>6. c.proc \in OffProcs => c.rank \in Live /\ selected = {c.rank}
  BY DEF Starts
<1> QED
  BY <1>2, <1>3, <1>4, <1>5, <1>6 DEF OffProcs

LEMMA RowsWrite ==
    ASSUME CommandInv, DramInv, StageInv, RowsInv, Write
    PROVE  RowsInv'
<1>1. PICK c, s : Moves(c, s)
  BY Moving
<1>2. PICK d \in {0, 1} :
              /\ Len(calls') = Len(calls) - d /\ Len(calls) \in Nat \ {0}
              /\ \A i \in 1 .. Len(calls') : calls'[i] = calls[i + d] /\ i + d \in 1 .. Len(calls)
              /\ IF d = 0 THEN /\ at < Len(s) /\ at' = at + 1 /\ calls' = calls
                               /\ Writes(Head(calls))' = s
                          ELSE at = Len(s) /\ at' = 1
  BY <1>1, Remain
<1>3. /\ ~running /\ Ranks' = Ranks /\ board \in Boards /\ Live' = Live /\ Live \subseteq Ranks
      /\ stage' = stage /\ Live \subseteq Nat
  BY WriteStays
<1>4. /\ c \in Parts /\ c = Head(calls) /\ s = Writes(c) /\ s = Writes(Head(calls))
      /\ at \in 1 .. Len(s) /\ Len(s) \in Nat /\ calls # <<>> /\ c = calls[1]
      /\ c = Part(c.proc, c.rank)
  BY <1>1 DEF Moves
<1>5. /\ c.proc \in OffProcs => selected' = {c.rank}
      /\ s[at].op = "run" => running' /\ label' = s[at].val /\ ip' = s[at].val
  BY <1>1 DEF Moves
<1>6. ASSUME NEW r \in Live, c = Part("activate", r)
      PROVE  /\ Len(s) = 7 /\ s[2] = RunReg(18) /\ s[7] = RunReg(13) /\ selected' = {r}
             /\ \A i \in 1 .. 7 : s[i].op = "run" => i \in {2, 7}
             /\ at > 2 => dram'[r].open = {}
             /\ at = 2 => AboutTo(r, {PRECHARGE_ALL})'
             /\ at = 7 => Opening(r)'
  <2>1. c.proc = "activate" /\ c.rank = r
    BY <1>6 DEF Part
  <2>2. s = ActivateRank(r)
    BY <1>4, <2>1 DEF Writes
  <2>3. /\ Len(s) = 7
        /\ s[1] = SelectOff(r) /\ s[2] = RunReg(18)
        /\ s[3] = LoadCntrReg(0, 15) /\ s[4] = LoadJumpReg(0, 14)
        /\ s[5] = LoadCntrReg(1, 15) /\ s[6] = LoadJumpReg(1, 16)
        /\ s[7] = RunReg(13)
    BY <2>2, ActivateLayout
  <2>4. selected' = {r}
    BY <1>5, <2>1 DEF OffProcs
  <2>5. ASSUME NEW i \in 1 .. 7
        PROVE  s[i].op = "run" => i \in {2, 7}
    <3>1. s[1].op # "run" /\ s[3].op # "run" /\ s[4].op # "run" /\ s[5].op # "run" /\ s[6].op # "run"
      BY <2>3, WritesAre
    <3> QED
      BY <3>1
  <2>6. dram'[r].open = dram[r].open
    BY <1>3, WriteDram
  <2>7. at > 2 => dram[r].open = {}
    BY <1>3, <1>4, <1>6 DEF RowsInv, AboutTo
  <2>8. ASSUME at = 2
        PROVE  AboutTo(r, {PRECHARGE_ALL})'
    <3>1. s[at].op = "run" /\ s[at].val = 18
      BY <2>3, <2>8, WritesAre
    <3> QED
      BY <1>5, <2>4, <3>1 DEF AboutTo, PRECHARGE_ALL
  <2>9. ASSUME at = 7
        PROVE  Opening(r)'
    <3>1. s[at].op = "run" /\ s[at].val = 13
      BY <2>3, <2>9, WritesAre
    <3>2. dram'[r].open = {}
      BY <2>6, <2>7, <2>9
    <3> QED
      BY <1>5, <2>4, <3>1, <3>2 DEF Opening, ACTIVATE_0_AND_1
  <2> QED
    BY <2>3, <2>4, <2>5, <2>6, <2>7, <2>8, <2>9
<1> SUFFICES ASSUME NEW r \in Live
             PROVE  /\ (calls' # <<>> /\ Head(calls') = Part("activate", r) /\ at' > 2) =>
                          dram'[r].open = {} \/ AboutTo(r, {PRECHARGE_ALL})'
                    /\ stage \notin {"start", "initialized", "done"} =>
                          ToActivate(r)' \/ Opening(r)' \/ dram'[r].open = Banks
                    /\ (running' /\ label' = ACTIVATE_0_AND_1 /\ selected' = {r}) => Opening(r)'
                    /\ AboutTo(r, {PRECHARGE_ALL})' => at' > 1 /\ ToPrecharge(r)'
  BY <1>3 DEF RowsInv, Part
<1>7. dram'[r].open = dram[r].open
  BY <1>3, WriteDram
<1>8. ASSUME calls' # <<>>, Head(calls') = Part("activate", r), at' > 2
      PROVE  dram'[r].open = {} \/ AboutTo(r, {PRECHARGE_ALL})'
  <2>1. d = 0 /\ at' = at + 1 /\ calls' = calls
    BY <1>2, <1>8
  <2>2. c = Part("activate", r) /\ at > 1
    BY <1>2, <1>4, <1>8, <2>1
  <2>3. at = 2 \/ at > 2
    BY <1>4, <2>2
  <2>4. /\ at > 2 => dram'[r].open = {}
        /\ at = 2 => AboutTo(r, {PRECHARGE_ALL})'
    BY <1>6, <2>2
  <2> QED
    BY <2>3, <2>4
<1>9. ASSUME stage \notin {"start", "initialized", "done"}
      PROVE  ToActivate(r)' \/ Opening(r)' \/ dram'[r].open = Banks
  <2>1. ToActivate(r) \/ dram[r].open = Banks
    <3>1. ToActivate(r) \/ Opening(r) \/ dram[r].open = Banks
      BY <1>9 DEF RowsInv
    <3> QED
      BY <1>3, <3>1 DEF Opening
  <2>2. CASE dram[r].open = Banks
    BY <1>7, <2>2
  <2>3. CASE ToActivate(r)
    <3>1. PICK i \in 1 .. Len(calls) : calls[i] = Part("activate", r)
      BY <2>3 DEF ToActivate
    <3>2. CASE i - d \in 1 .. Len(calls')
      <4>1. calls'[i - d] = calls[(i - d) + d] /\ (i - d) + d = i
        BY <1>2, <3>2
      <4>2. calls'[i - d] = Part("activate", r)
        BY <3>1, <4>1
      <4>3. \E j \in 1 .. Len(calls') : calls'[j] = Part("activate", r)
        BY <3>2, <4>2
      <4> QED
        BY <4>3 DEF ToActivate, Part
    <3>3. CASE i - d \notin 1 .. Len(calls')
      <4>1. i = 1 /\ d = 1 /\ at = Len(s)
        BY <1>2, <3>3
      <4>2. c = Part("activate", r)
        BY <1>4, <3>1, <4>1
      <4> QED
        BY <1>6, <4>1, <4>2
    <3> QED
      BY <3>2, <3>3
  <2> QED
    BY <2>1, <2>2, <2>3
<1>10. ASSUME running', label' = ACTIVATE_0_AND_1, selected' = {r}
       PROVE  Opening(r)'
  <2>1. PICK x, t : Starts(x, t, label')
    BY <1>10, Starting
  <2>2. x.proc = "activate" /\ selected' = {x.rank}
    BY <1>10, <2>1, RowRuns DEF Rows
  <2>3. x = c /\ t = s /\ s[at].op = "run" /\ s[at].val = 13
    BY <1>4, <1>10, <2>1 DEF Starts, ACTIVATE_0_AND_1
  <2>4. c = Part("activate", r)
    BY <1>4, <1>10, <2>2, <2>3
  <2>5. at \in 1 .. 7 /\ at \in {2, 7} /\ s[2].val = 18
    BY <1>4, <1>6, <2>3, <2>4, WritesAre
  <2>6. at = 7
    BY <2>3, <2>5
  <2> QED
    BY <1>6, <2>4, <2>6
<1>11. ASSUME AboutTo(r, {PRECHARGE_ALL})'
       PROVE  at' > 1 /\ ToPrecharge(r)'
  <2>1. running' /\ label' = 18 /\ selected' = {r}
    BY <1>11 DEF AboutTo, PRECHARGE_ALL
  <2>2. PICK x, t : Starts(x, t, label')
    BY <2>1, Starting
  <2>3. x.proc \in {"activate", "handoff"} /\ selected' = {x.rank}
    BY <2>1, <2>2, RowRuns DEF Rows, PRECHARGE_ALL
  <2>4. x = c /\ t = s /\ s[at].op = "run" /\ s[at].val = 18
    BY <1>4, <2>1, <2>2 DEF Starts
  <2>5. c \in {Part("activate", r), Part("handoff", r)} /\ c.rank = r
        /\ c.proc \in {"activate", "handoff"}
    BY <1>4, <2>1, <2>3, <2>4
  <2>6. d = 0
    <3> SUFFICES ASSUME at = Len(s)
                 PROVE  FALSE
      BY <1>2
    <3>1. CASE c.proc = "activate"
      <4>1. c = Part("activate", r)
        BY <1>4, <2>5, <3>1
      <4>2. at = 7 /\ s[7] = RunReg(13)
        BY <1>6, <4>1
      <4> QED
        BY <2>4, <4>2, WritesAre
    <3>2. CASE c.proc = "handoff"
      <4>1. PICK a \in UserModes : s[Len(s)] = RunReg(a)
        BY <1>3, <1>4, <2>5, <3>2, HandOffWrites
      <4>2. a = 18
        BY <2>4, <4>1, WritesAre
      <4> QED
        BY <4>1, <4>2 DEF UserModes
    <3> QED
      BY <2>5, <3>1, <3>2
  <2>7. calls' = calls /\ at' = at + 1
    BY <1>2, <2>6
  <2> QED
    BY <1>4, <2>5, <2>7 DEF ToPrecharge, Part
<1> QED
  BY <1>8, <1>9, <1>10, <1>11

LEMMA RowsClock ==
    ASSUME CommandInv, DramInv, BuiltInv, StageInv, TunedInv, RowsInv, Clocked
    PROVE  RowsInv'
<1>1. /\ calls' = calls /\ at' = at /\ stage' = stage /\ selected' = selected
      /\ Live' = Live /\ label' = label /\ Live \subseteq Ranks /\ running
  BY Clocking
<1>2. calls # <<>> => Len(calls) \in Nat \ {0} /\ calls[1] = Head(calls) /\ calls[1] \in Parts
                      /\ at \in 1 .. Len(Writes(Head(calls)))
  <2>1. calls \in Seq(Parts) /\ at \in Nat \ {0} /\ AtInv
    BY DEF CommandInv, CallsInv
  <2> SUFFICES ASSUME calls # <<>>
               PROVE  /\ Len(calls) \in Nat \ {0} /\ calls[1] = Head(calls) /\ calls[1] \in Parts
                      /\ at \in 1 .. Len(Writes(Head(calls)))
    OBVIOUS
  <2>2. Len(calls) \in Nat \ {0} /\ calls[1] = Head(calls) /\ calls[1] \in Parts
    BY <2>1
  <2> QED
    BY <2>1, <2>2 DEF AtInv
<1> SUFFICES ASSUME NEW r \in Live
             PROVE  /\ (calls # <<>> /\ Head(calls) = Part("activate", r) /\ at > 2) =>
                          dram'[r].open = {}
                    /\ stage \notin {"start", "initialized", "done"} =>
                          ToActivate(r) \/ Opening(r)' \/ dram'[r].open = Banks
                    /\ (running' /\ label = ACTIVATE_0_AND_1 /\ selected = {r}) => Opening(r)'
                    /\ ~AboutTo(r, {PRECHARGE_ALL})'
  <2>1. \A r : ToActivate(r)' = ToActivate(r)
    BY <1>1 DEF ToActivate, Part
  <2> QED
    BY <1>1, <2>1 DEF RowsInv, Part
<1>3. r \in Ranks
  BY <1>1
<1>4. /\ Sent(r).kind = "act" => label = ACTIVATE_0_AND_1 /\ selected = {r}
      /\ Sent(r).kind = "pre" <=> AboutTo(r, {PRECHARGE_ALL})
  BY <1>3, Told
<1>5. /\ Sent(r).kind = "pre" => dram'[r].open = {}
      /\ Sent(r).kind \notin {"pre", "act"} => dram'[r].open = dram[r].open
  BY <1>3, ClockDram
<1>6. /\ calls # <<>> /\ Head(calls) = Part("activate", r) /\ at > 2 =>
              dram[r].open = {} \/ AboutTo(r, {PRECHARGE_ALL})
      /\ stage \notin {"start", "initialized", "done"} =>
              ToActivate(r) \/ Opening(r) \/ dram[r].open = Banks
      /\ running /\ label = ACTIVATE_0_AND_1 /\ selected = {r} => Opening(r)
      /\ AboutTo(r, {PRECHARGE_ALL}) => at > 1 /\ ToPrecharge(r)
  BY DEF RowsInv
<1>7. /\ Opening(r) /\ running' => Opening(r)'
      /\ Opening(r) /\ ~running' => dram'[r].open = Banks
  BY OpensOn
<1>8. ASSUME calls # <<>>, Head(calls) = Part("activate", r), at > 2
      PROVE  dram'[r].open = {}
  <2>1. Sent(r).kind # "act"
    <3> SUFFICES ASSUME label = 13
                 PROVE  FALSE
      BY <1>4 DEF ACTIVATE_0_AND_1
    <3> DEFINE s == Writes(Head(calls))
    <3>1. s[at - 1] = RunReg(13)
      <4>1. at \in Nat \ {0}
        BY DEF CommandInv, CallsInv
      <4>2. running /\ at > 1 /\ calls # <<>>
        BY <1>1, <1>8, <4>1
      <4>3. Writes(Head(calls))[at - 1] = RunReg(label)
        BY <4>2 DEF StageInv
      <4> QED
        BY <4>3
    <3>2. s = ActivateRank(r)
      <4>1. Head(calls).proc = "activate" /\ Head(calls).rank = r
        BY <1>8 DEF Part
      <4> QED
        BY <4>1 DEF Writes
    <3>3. /\ Len(s) = 7
          /\ s[2] = RunReg(18)
          /\ s[3] = LoadCntrReg(0, 15) /\ s[4] = LoadJumpReg(0, 14)
          /\ s[5] = LoadCntrReg(1, 15) /\ s[6] = LoadJumpReg(1, 16)
      BY <3>2, ActivateLayout
    <3>4. /\ s[2].val = 18 /\ s[3].op = "cntr" /\ s[4].op = "jump" /\ s[5].op = "cntr"
          /\ s[6].op = "jump"
      BY <3>3, WritesAre
    <3>5. at - 1 \in {2, 3, 4, 5, 6}
      <4>1. at \in 1 .. Len(s) /\ at > 2
        BY <1>2, <1>8
      <4>2. at \in 1 .. 7 /\ at > 2
        BY <3>3, <4>1
      <4> HIDE DEF s
      <4> QED
        BY <4>2
    <3>6. s[at - 1].op = "run" /\ s[at - 1].val = 13
      BY <3>1, WritesAre
    <3> HIDE DEF s
    <3> QED
      BY <3>4, <3>5, <3>6
  <2> QED
    BY <1>4, <1>5, <1>6, <1>8, <2>1
<1>9. ASSUME stage \notin {"start", "initialized", "done"}
      PROVE  ToActivate(r) \/ Opening(r)' \/ dram'[r].open = Banks
  <2>1. CASE Opening(r)
    BY <1>7, <2>1
  <2>2. CASE ~Opening(r) /\ AboutTo(r, {PRECHARGE_ALL})
    <3>1. ToPrecharge(r)
      BY <1>6, <2>2
    <3>2. calls # <<>> /\ 1 \in 1 .. Len(calls)
          /\ calls[1] \in {Part("activate", r), Part("handoff", r)}
      <4>1. calls # <<>> /\ Head(calls) \in {Part("activate", r), Part("handoff", r)}
        BY <3>1 DEF ToPrecharge
      <4>2. Len(calls) \in Nat \ {0} /\ calls[1] = Head(calls)
        BY <1>2, <4>1
      <4> QED
        BY <4>1, <4>2
    <3>3. calls[1].proc # "handoff"
      BY <1>9, <3>2, PartOfStage
    <3>4. calls[1] = Part("activate", r)
      BY <3>2, <3>3 DEF Part
    <3> QED
      BY <3>2, <3>4 DEF ToActivate
  <2>3. CASE ~Opening(r) /\ ~AboutTo(r, {PRECHARGE_ALL})
    <3>1. Sent(r).kind \notin {"pre", "act"}
      BY <1>1, <1>4, <1>6, <2>3
    <3> QED
      BY <1>5, <1>6, <1>9, <2>3, <3>1
  <2> QED
    BY <2>1, <2>2, <2>3
<1>10. ASSUME running', label = ACTIVATE_0_AND_1, selected = {r}
       PROVE  Opening(r)'
  BY <1>1, <1>6, <1>7, <1>10
<1>11. ~AboutTo(r, {PRECHARGE_ALL})'
  <2>1. ~AboutTo(r, Modes \cup {PRECHARGE_ALL})'
    BY NoMore
  <2> QED
    BY <2>1 DEF AboutTo
<1> QED
  BY <1>8, <1>9, <1>10, <1>11

LEMMA RowsStep ==
    ASSUME CommandInv, DramInv, BuiltInv, StageInv, TunedInv, RowsInv, [CNext]_vars
    PROVE  RowsInv'
<1>1. CASE UNCHANGED vars
  <2>1. /\ calls' = calls /\ at' = at /\ stage' = stage /\ Live' = Live /\ dram' = dram
        /\ selected' = selected /\ running' = running /\ label' = label /\ ip' = ip
    BY <1>1, Stays
  <2>2. \A r : /\ ToActivate(r)' = ToActivate(r) /\ Opening(r)' = Opening(r)
               /\ ToPrecharge(r)' = ToPrecharge(r)
               /\ AboutTo(r, {PRECHARGE_ALL})' = AboutTo(r, {PRECHARGE_ALL})
    BY <2>1 DEF ToActivate, Opening, ToPrecharge, AboutTo, Part
  <2> QED
    BY <2>1, <2>2 DEF RowsInv, Part
<1>2. CASE Procedures
  <2>1. ~running /\ calls = <<>> /\ dram' = dram /\ Live' = Live /\ ~running' /\ at' = 1
        /\ Begun(stage, stage')
    BY <1>2, Beginning
  <2> SUFFICES ASSUME NEW r \in Live, stage' \notin {"start", "initialized", "done"}
               PROVE  ToActivate(r)' \/ dram[r].open = Banks
    BY <2>1 DEF RowsInv, AboutTo
  <2>2. CASE stage' \in {"configured", "calibrated"}
    <3>1. \E i \in 1 .. Len(calls') : calls'[i] = Part("activate", r)
      BY <2>1, <2>2 DEF Begun, InUseStages
    <3> QED
      BY <3>1 DEF ToActivate, Part
  <2>3. CASE stage' \notin {"configured", "calibrated"}
    <3>1. stage \notin {"start", "initialized", "done"}
      BY <2>1, <2>3 DEF Begun, InUseStages
    <3>2. ToActivate(r) \/ Opening(r) \/ dram[r].open = Banks
      BY <3>1 DEF RowsInv
    <3> QED
      BY <2>1, <3>2 DEF ToActivate, Opening
  <2> QED
    BY <2>2, <2>3
<1> QED
  BY <1>1, <1>2, RowsWrite, RowsClock DEF CNext

(* What a rank is when a run that loads a mode register, or calibrates ZQ, *)
(* is started.                                                             *)
LEMMA LoadsReady ==
    ASSUME MemoryInv, BuiltInv, StageInv, OnceInv, UpInv, FreshInv, LastInv, ZqclInv,
           ~running, NEW c, NEW s, Starts(c, s, label'), label' \in Modes,
           NEW r, r = c.rank
    PROVE  /\ r \in Live /\ Up(dram[r]) /\ dram[r].open = {}
           /\ dram[r].since["zqcl"] = 512
           /\ LastIs(dram[r], s, at - 1)
           /\ Pause(s, at - 1, 2) /\ InOrder(s, at, r \in board.mirrored)
           /\ (label' = ZQCL) =>
                 /\ dram[r].phase = "ready"
                 /\ \E b \in Registers : LastMode(s, at - 1, b) /\ MrOf(b) = 0
<1>1. /\ c.proc \in {"initialize", "handoff"} /\ r \in Live /\ Own(r)
  BY LoadsOwn
<1>2. /\ c = calls[1] /\ c = Head(calls) /\ s = Writes(c) /\ calls # <<>> /\ c = Part(c.proc, r)
      /\ at \in 1 .. Len(s) /\ Len(calls) \in Nat \ {0} /\ c \in Parts /\ Len(s) \in Nat
      /\ s[at].op = "run" /\ s[at].val = label' /\ Exact(s, at)
  BY DEF Starts
<1>3. board \in Boards /\ Ranks \subseteq Nat /\ Live \subseteq Ranks /\ 1 \in 1 .. Len(calls)
  BY <1>2 DEF MemoryInv, CommandInv, CallsInv, Ranks, Live
<1>4. /\ c.proc = "initialize" => stage = "initialized" /\ InitialExact(s, r \in board.mirrored)
      /\ c.proc = "handoff" => stage = "done" /\ HandOffExact(s, r \in board.mirrored)
      /\ stage # "start"
  BY <1>2, <1>3, PartOfStage, InitializeExact, HandOffIsExact
<1>5. Pause(s, at - 1, 2)
  BY <1>2 DEF Exact
<1>6. InOrder(s, at, r \in board.mirrored)
  <2>1. CASE c.proc = "initialize"
    BY <1>2, <1>4, <2>1 DEF InitialExact
  <2>2. CASE c.proc = "handoff"
    BY <1>2, <1>4, <2>2 DEF HandOffExact
  <2> QED
    BY <1>1, <2>1, <2>2
<1>7. LastIs(dram[r], s, at - 1)
  BY <1>1, <1>2 DEF LastInv, AboutTo
<1>8. Up(dram[r])
  BY <1>1, <1>2, <1>4 DEF UpInv, Resetting, Rising
<1>9. c.proc = "initialize" => ~Given(s, at - 1, RunReg(ZQCL))
  BY <1>2, <1>4 DEF InitialExact
<1>10. dram[r].since["zqcl"] = 512
  <2>1. ~Settling(r)
    <3>1. c = Part("initialize", r) => c.proc = "initialize"
      BY DEF Part
    <3> QED
      BY <1>2, <1>9, <3>1 DEF Settling
  <2> QED
    BY <1>1, <2>1 DEF ZqclInv, TZQinit
<1>11. dram[r].open = {}
  <2>1. CASE c.proc = "initialize"
    BY <1>1, <1>4, <2>1 DEF FreshInv
  <2>2. CASE c.proc = "handoff"
    <3>1. at > 2
      <4>1. label' # PRECHARGE_ALL
        BY RunLabels DEF Modes, PRECHARGE_ALL
      <4> QED
        BY <1>2, <1>4, <2>2, <4>1 DEF HandOffExact
    <3>2. ToHandOff(r) \/ InUse(r)
      BY <1>1, <1>4, <2>2 DEF MemoryInv, HandInv, AboutTo
    <3>3. CASE ToHandOff(r)
      <4>1. PICK i \in 1 .. Len(calls) :
                /\ calls[i] = Part("handoff", r)
                /\ i = 1 /\ at > 2 => dram[r].open = {} \/ AboutTo(r, {PRECHARGE_ALL})
        BY <3>3 DEF ToHandOff
      <4>2. calls[1] = Part("handoff", r) /\ "handoff" \in OffProcs /\ r \in Nat
        BY <1>1, <1>2, <1>3, <2>2 DEF OffProcs
      <4>3. i = 1
        BY <1>2, <1>3, <4>1, <4>2, OnlyOne
      <4> QED
        BY <3>1, <4>1, <4>3 DEF AboutTo
    <3> QED
      BY <3>2, <3>3 DEF InUse
  <2> QED
    BY <1>1, <2>1, <2>2
<1>12. ASSUME label' = ZQCL
       PROVE  /\ dram[r].phase = "ready"
              /\ \E b \in Registers : LastMode(s, at - 1, b) /\ MrOf(b) = 0
  <2>1. c.proc = "initialize"
    <3> SUFFICES ASSUME c.proc = "handoff"
                 PROVE  FALSE
      BY <1>1
    <3>1. label' \in HandRuns \ {ZQCL}
      BY <1>2, <1>4 DEF HandOffExact
    <3> QED
      BY <1>12, <3>1
  <2>2. Waiting(r)
    BY <1>2, <1>3, <1>9, <2>1 DEF Waiting
  <2>3. dram[r].phase # "calibrated"
    BY <1>1, <1>4, <2>1, <2>2 DEF FreshInv
  <2>4. \E b \in Registers : LastMode(s, at - 1, b) /\ MrOf(b) = 0
    BY <1>2, <1>4, <1>12, <2>1 DEF InitialExact
  <2> QED
    BY <1>8, <2>3, <2>4 DEF Up
<1>13. r \in Live /\ Up(dram[r]) /\ dram[r].open = {} /\ dram[r].since["zqcl"] = 512
  BY <1>1, <1>8, <1>10, <1>11
<1>14. LastIs(dram[r], s, at - 1) /\ Pause(s, at - 1, 2) /\ InOrder(s, at, r \in board.mirrored)
  BY <1>5, <1>6, <1>7
<1> QED
  BY <1>12, <1>13, <1>14

(* ... and when one that precharges is.                                    *)
LEMMA PrechargesReady ==
    ASSUME MemoryInv, BuiltInv, StageInv, OnceInv, LastInv, ZqclInv, MrsInv, RestInv,
           ~running, NEW c, NEW s, Starts(c, s, label'), label' = PRECHARGE_ALL,
           NEW r, r = c.rank
    PROVE  /\ r \in Live /\ selected' = {r} /\ Usable(dram[r]) /\ Rested(dram[r])
           /\ Pause(s, at - 1, 1)
<1>1. c.proc \in {"activate", "handoff"} /\ selected' = {r} /\ r \in Live
  BY RowRuns DEF Rows
<1>2. /\ c = calls[1] /\ c = Head(calls) /\ s = Writes(c) /\ calls # <<>> /\ c = Part(c.proc, r)
      /\ at \in 1 .. Len(s) /\ Len(calls) \in Nat \ {0} /\ c \in Parts /\ Len(s) \in Nat
      /\ s[at].op = "run" /\ s[at].val = PRECHARGE_ALL /\ Exact(s, at)
  BY DEF Starts
<1>3. board \in Boards /\ Ranks \subseteq Nat /\ Live \subseteq Ranks /\ 1 \in 1 .. Len(calls)
  BY <1>2 DEF MemoryInv, CommandInv, CallsInv, Ranks, Live
<1>4. /\ c.proc = "activate" => stage \in {"configured", "calibrated"}
      /\ c.proc = "handoff" => stage = "done" /\ HandOffExact(s, r \in board.mirrored)
      /\ stage # "start" /\ stage # "initialized"
  BY <1>1, <1>2, <1>3, PartOfStage, HandOffIsExact
<1>5. Pause(s, at - 1, 1)
  BY <1>2 DEF Exact
<1>6. c.proc = "handoff" => NoMode(s, at - 1)
  BY <1>2, <1>4 DEF HandOffExact
<1>7. /\ c = Part("initialize", r) => c.proc = "initialize"
      /\ c = Part("handoff", r) => c.proc = "handoff"
  BY DEF Part
<1>8. dram[r].phase = "calibrated"
  <2>1. ~Waiting(r)
    <3> SUFFICES ASSUME NEW i \in 1 .. Len(calls), calls[i] = Part("initialize", r)
                 PROVE  FALSE
      BY DEF Waiting
    <3>1. calls[i].proc = "initialize"
      BY DEF Part
    <3> QED
      BY <1>4, <3>1, PartOfStage
  <2> QED
    BY <1>1, <1>4, <2>1 DEF MemoryInv, PhaseInv, AboutTo
<1>9. dram[r].last = 0
  <2>1. IF Own(r) THEN LastIs(dram[r], s, at - 1) ELSE dram[r].last = 0
    BY <1>1, <1>2 DEF LastInv, AboutTo
  <2>2. Own(r) => c.proc = "handoff"
    BY <1>1, <1>2, <1>7 DEF Own
  <2> QED
    BY <1>6, <2>1, <2>2 DEF LastIs
<1>10. dram[r].since["zqcl"] = 512
  <2>1. ~Settling(r)
    BY <1>1, <1>2, <1>7 DEF Settling
  <2> QED
    BY <1>1, <2>1 DEF ZqclInv, TZQinit
<1>11. dram[r].since["mrs"] = 12
  <2>1. ~Loading(r)
    BY <1>1, <1>2, <1>7 DEF Loading
  <2>2. ~Leaving(r)
    <3> SUFFICES ASSUME Leaving(r)
                 PROVE  FALSE
      OBVIOUS
    <3>1. stage = "done" /\ c.proc = "handoff"
      BY <1>1, <1>4 DEF Leaving
    <3>2. PICK i \in 1 .. Len(calls) : calls[i] = Part("handoff", r)
      BY <1>2, <1>3, <3>1
    <3>3. ~NoMode(s, at - 1)
      BY <1>2, <3>2 DEF Leaving
    <3> QED
      BY <1>6, <3>1, <3>3
  <2> QED
    BY <1>1, <2>1, <2>2, MrsIs DEF Quieted
<1>12. Rested(dram[r])
  BY <1>1 DEF RestInv
<1> QED
  BY <1>1, <1>5, <1>8, <1>9, <1>10, <1>11, <1>12 DEF Usable, TZQinit, TMOD

(* What is legal, kind by kind.                                            *)
LEMMA LegalIs ==
    ASSUME NEW d, NEW c
    PROVE  /\ c.kind = "cke_low" => (Legal(d, c) <=> MayLowerCke(d))
           /\ c.kind = "none" => (Legal(d, c) <=> MayRaiseCke(d))
           /\ c.kind = "mrs" => (Legal(d, c) <=> MayLoadMode(d, c))
           /\ c.kind = "zqcl" => (Legal(d, c) <=> MayZqcl(d))
           /\ c.kind = "pre" => (Legal(d, c) <=> MayPrecharge(d))
           /\ c.kind = "act" => (Legal(d, c) <=> MayActivate(d, c.bank))
           /\ c.kind = "read" => (Legal(d, c) <=> MayRead(d, c.bank))
           /\ c.kind = "write" => (Legal(d, c) <=> MayWrite(d, c.bank))
           /\ c.kind \notin {"cke_low", "none", "mrs", "zqcl", "pre", "act", "read", "write"}
                 => Legal(d, c)
<1> DEFINE k == c.kind
<1>1. k = "cke_low" => (Legal(d, c) <=> MayLowerCke(d))
  BY DEF Legal
<1>2. k = "none" => (Legal(d, c) <=> MayRaiseCke(d))
  BY DEF Legal
<1>3. k = "mrs" => (Legal(d, c) <=> MayLoadMode(d, c))
  BY DEF Legal
<1>4. k = "zqcl" => (Legal(d, c) <=> MayZqcl(d))
  BY DEF Legal
<1>5. k = "pre" => (Legal(d, c) <=> MayPrecharge(d))
  BY DEF Legal
<1>6. k = "act" => (Legal(d, c) <=> MayActivate(d, c.bank))
  BY DEF Legal
<1>7. k = "read" => (Legal(d, c) <=> MayRead(d, c.bank))
  BY DEF Legal
<1>8. k = "write" => (Legal(d, c) <=> MayWrite(d, c.bank))
  BY DEF Legal
<1>9. k \notin {"cke_low", "none", "mrs", "zqcl", "pre", "act", "read", "write"} => Legal(d, c)
  BY DEF Legal
<1> QED
  BY <1>1, <1>2, <1>3, <1>4, <1>5, <1>6, <1>7, <1>8, <1>9

(* The first command of a run that loads a mode register.                  *)
LEMMA ModeLegal ==
    ASSUME MemoryInv, BuiltInv, StageInv, OnceInv, CalmInv, UpInv, FreshInv, LastInv, ZqclInv,
           Write, NEW c, NEW s, Starts(c, s, label'), label' \in Modes,
           NEW r, r = c.rank
    PROVE  Legal(dram'[r], Decode(AcWord(label')))
<1> DEFINE d == dram[r]
           e == dram'[r]
           x == Decode(AcWord(label'))
<1>1. /\ ~running /\ board \in Boards /\ Live \subseteq Ranks /\ CommandInv /\ DramInv
      /\ Moves(c, s) /\ s[at].op = "run" /\ s[at].val = label' /\ at - 1 \in Nat
  BY WriteStays DEF MemoryInv, Starts
<1>2. /\ r \in Live /\ Up(d) /\ d.open = {} /\ d.since["zqcl"] = 512
      /\ LastIs(d, s, at - 1) /\ Pause(s, at - 1, 2) /\ InOrder(s, at, r \in board.mirrored)
      /\ label' = ZQCL =>
            d.phase = "ready" /\ \E b \in Registers : LastMode(s, at - 1, b) /\ MrOf(b) = 0
  BY <1>1, LoadsReady
<1>3. r \in Ranks /\ d.mirrored = (r \in board.mirrored)
  BY <1>1, <1>2 DEF BuiltInv
<1>4. /\ e.phase = d.phase /\ e.last = d.last /\ e.mr0 = d.mr0 /\ e.open = d.open
      /\ e.mirrored = d.mirrored
  BY <1>1, <1>3, WriteDram, WrittenTimes
<1>5. Wlat \in Nat /\ {"cke", "zqcl", "mrs", "pre"} \subseteq Events
  BY <1>1, BoardTimes DEF Events
<1>6. /\ Limit("cke", Wlat) = 250 /\ Limit("zqcl", Wlat) = 512 /\ Limit("mrs", Wlat) = 12
      /\ Limit("pre", Wlat) = 6
  BY <1>5, LimitIs
<1>7. e.since["cke"] = 250 /\ e.since["zqcl"] = 512
  <2>1. d.since["cke"] = 250
    BY <1>2 DEF Up, TXPR
  <2> QED
    BY <1>1, <1>2, <1>3, <1>5, <1>6, <2>1, Rests
<1>8. e.since["mrs"] >= 12 /\ e.since["pre"] >= 6
  <2>1. e.wlat = Wlat
    BY <1>1, <1>3, WrittenTimes
  <2>2. AtLeast(e, "mrs", 12) /\ AtLeast(e, "pre", 12)
    BY <1>1, <1>2, <1>3, <1>5, Paused
  <2>3. e.since["mrs"] \in Nat /\ e.since["pre"] \in Nat
    BY <1>1, <1>3, <1>5, Rests
  <2> QED
    BY <1>6, <2>1, <2>2, <2>3 DEF AtLeast
<1>9. CASE label' \in Registers
  <2>1. x.kind = "mrs" /\ x.mr = MrOf(label') /\ (x.mirrored <=> label' \in Mirrors)
    BY <1>9, RomModes
  <2>2. ModeRun(s[at])
    BY <1>1, <1>9 DEF ModeRun
  <2>3. (label' \in Mirrors <=> r \in board.mirrored) /\ Follows(s, at - 1, label')
    BY <1>1, <1>2, <2>2 DEF InOrder
  <2>4. MrOf(label') = MrAfter(d.last)
    <3>1. CASE NoMode(s, at - 1) /\ MrOf(label') = 2
      BY <1>2, <3>1 DEF LastIs, MrAfter
    <3>2. CASE \E b \in Registers : LastMode(s, at - 1, b) /\ MrAfter(MrOf(b)) = MrOf(label')
      BY <1>2, <3>2 DEF LastIs
    <3> QED
      BY <2>3, <3>1, <3>2 DEF Follows
  <2>5. e.phase \in {"ready", "calibrated"} /\ e.open = {}
    BY <1>2, <1>4 DEF Up
  <2>6. x.mirrored <=> e.mirrored
    BY <1>3, <1>4, <2>1, <2>3
  <2>7. x.mr = MrAfter(e.last)
    BY <1>4, <2>1, <2>4
  <2>8. e.since["mrs"] >= 4
    <3>1. e.since["mrs"] \in Nat
      BY <1>1, <1>3, <1>5, Rests
    <3> QED
      BY <1>8, <3>1
  <2> HIDE DEF d, e, x
  <2>9. MayLoadMode(e, x)
    BY <1>7, <1>8, <2>5, <2>6, <2>7, <2>8 DEF MayLoadMode, TXPR, TMRD, TZQinit, TRP
  <2>10. Legal(e, x)
    BY <2>1, <2>9, LegalIs
  <2> QED
    BY <2>10 DEF e, x
<1>10. CASE label' = ZQCL
  <2>1. x.kind = "zqcl"
    BY <1>10, RomModes
  <2>2. e.phase = "ready" /\ e.open = {}
    BY <1>2, <1>4, <1>10
  <2>3. e.last = 0 /\ e.mr0 # "none"
    <3>1. PICK b \in Registers : LastMode(s, at - 1, b) /\ MrOf(b) = 0
      BY <1>2, <1>10
    <3> QED
      BY <1>2, <1>4, <3>1 DEF LastIs
  <2> HIDE DEF d, e, x
  <2>4. MayZqcl(e)
    BY <1>8, <2>2, <2>3 DEF MayZqcl, TMOD, TRP
  <2>5. Legal(e, x)
    BY <2>1, <2>4, LegalIs
  <2> QED
    BY <2>5 DEF e, x
<1> QED
  BY <1>9, <1>10, RunLabels

(* The first command of a run that precharges.                             *)
LEMMA PrechargeLegal ==
    ASSUME MemoryInv, BuiltInv, StageInv, OnceInv, CalmInv, RestInv, LastInv, ZqclInv, MrsInv,
           Write, NEW c, NEW s, Starts(c, s, label'), label' = PRECHARGE_ALL,
           NEW r, r = c.rank
    PROVE  Legal(dram'[r], Decode(AcWord(label'))) /\ selected' = {r}
<1> DEFINE d == dram[r]
           e == dram'[r]
           x == Decode(AcWord(label'))
<1>1. /\ ~running /\ board \in Boards /\ Live \subseteq Ranks /\ CommandInv /\ DramInv
      /\ Moves(c, s)
  BY WriteStays DEF MemoryInv, Starts
<1>2. r \in Live /\ selected' = {r} /\ Usable(d) /\ Rested(d) /\ Pause(s, at - 1, 1)
  BY <1>1, PrechargesReady
<1>3. r \in Ranks
  BY <1>1, <1>2
<1>4. e.phase = d.phase /\ e.last = d.last /\ d.wlat = Wlat /\ e.wlat = Wlat
  BY <1>1, <1>3, WriteDram, WrittenTimes
<1>5. Wlat \in Nat /\ {"zqcl", "mrs", "act", "wr", "rd"} \subseteq Events
  BY <1>1, BoardTimes DEF Events
<1>6. /\ Limit("zqcl", Wlat) = 512 /\ Limit("mrs", Wlat) = 12 /\ Limit("act", Wlat) = 14
      /\ Limit("rd", Wlat) = 17 /\ Limit("wr", Wlat) = Wlat + 10
  BY <1>5, LimitIs
<1>7. e.since["act"] = 14 /\ e.since["wr"] = Wlat + 10
  <2>1. d.since["act"] = 14 /\ d.since["wr"] = Wlat + 10
    BY <1>2, <1>6 DEF Rested, TRAS
  <2> QED
    BY <1>1, <1>3, <1>5, <1>6, <2>1, Rests
<1>8. e.since["zqcl"] >= 512 /\ e.since["mrs"] >= 12
  <2>1. /\ d.since["zqcl"] \in 0 .. 512 /\ d.since["mrs"] \in 0 .. 12
    <3>1. Timely(d)
      BY <1>1, <1>3, WrittenTimes
    <3>2. \A y \in Events : d.since[y] \in 0 .. Limit(y, Wlat)
      BY <1>4, <3>1 DEF Timely
    <3>3. /\ d.since["zqcl"] \in 0 .. Limit("zqcl", Wlat)
          /\ d.since["mrs"] \in 0 .. Limit("mrs", Wlat)
      BY <1>5, <3>2
    <3> QED
      BY <1>6, <3>3
  <2>2. d.since["zqcl"] = 512 /\ d.since["mrs"] = 12
    <3> DEFINE z == d.since["zqcl"]
               m == d.since["mrs"]
    <3>1. z >= 512 /\ m >= 12
      BY <1>2 DEF Usable, TZQinit, TMOD
    <3>2. z \in 0 .. 512 /\ m \in 0 .. 12
      BY <2>1
    <3>3. z = 512 /\ m = 12
      <4> HIDE DEF z, m, d
      <4> QED
        BY <3>1, <3>2
    <3> QED
      BY <3>3
  <2>3. e.since["zqcl"] = 512 /\ e.since["mrs"] = 12
    BY <1>1, <1>3, <1>5, <1>6, <2>2, Rests
  <2> QED
    BY <2>3
<1>9. e.since["rd"] >= 3
  <2>1. AtLeast(e, "rd", 8)
    <3>1. Pause(s, at - 1, 1) /\ 1 \in 0 .. 4 /\ 8 \in Int /\ 8 <= 4 * 1 + 4
      BY <1>2
    <3>2. "rd" \in Events
      BY <1>5
    <3> QED
      BY <1>1, <1>3, <3>1, <3>2, Paused
  <2>2. e.since["rd"] \in Nat
    BY <1>1, <1>3, <1>5, Rests
  <2> QED
    BY <1>4, <1>6, <2>1, <2>2 DEF AtLeast
<1>10. x.kind = "pre"
  BY RomModes
<1>11. e.phase = "calibrated" /\ e.last = 0
  BY <1>2, <1>4 DEF Usable
<1>12. Legal(e, x)
  <2> HIDE DEF d, e, x
  <2>1. Usable(e)
    BY <1>8, <1>11 DEF Usable, TZQinit, TMOD
  <2>2. e.since["wr"] >= e.wlat + Burst + TWR
    BY <1>4, <1>5, <1>7 DEF Burst, TWR
  <2>3. MayPrecharge(e)
    BY <1>7, <1>9, <2>1, <2>2 DEF MayPrecharge, TRAS, TRTP
  <2> QED
    BY <1>10, <2>3, LegalIs
<1> QED
  BY <1>2, <1>12

LEMMA AtCommandStep ==
    ASSUME MemoryInv, BuiltInv, StageInv, OnceInv, CalmInv, RestInv, UpInv, FreshInv, LastInv,
           ZqclInv, MrsInv, AtCommand, [CNext]_vars
    PROVE  AtCommand'
<1>1. CommandInv
  BY DEF MemoryInv
<1>2. CASE UNCHANGED vars
  <2>1. /\ running' = running /\ ip' = ip /\ label' = label /\ selected' = selected /\ dram' = dram
    BY <1>1, <1>2, Stays
  <2> QED
    BY <2>1 DEF AtCommand, Command
<1>3. CASE Procedures
  <2>1. ~running'
    BY <1>1, <1>3, Beginning
  <2> QED
    BY <2>1 DEF AtCommand
<1>4. CASE Clocked
  <2> SUFFICES ASSUME running', ip' = label', label' \in Modes \cup {PRECHARGE_ALL}
               PROVE  FALSE
    BY DEF AtCommand
  <2>1. /\ label' = label /\ selected' = selected
        /\ label \notin Holds \cup Idles => \E r \in Live : selected = {r}
    BY <1>1, <1>4, Clocking
  <2>2. label \notin Holds \cup Idles
    BY <2>1, RunLabels DEF Modes, PRECHARGE_ALL
  <2>3. PICK r \in Live : selected = {r}
    BY <2>1, <2>2
  <2>4. ~AboutTo(r, Modes \cup {PRECHARGE_ALL})'
    BY <1>1, <1>4, NoMore
  <2> QED
    BY <2>1, <2>3, <2>4 DEF AboutTo, Modes
<1>5. CASE Write
  <2> SUFFICES ASSUME running', ip' = label', label' \in Modes \cup {PRECHARGE_ALL},
                      NEW r \in selected'
               PROVE  Legal(dram'[r], Decode(AcWord(label')))
    BY DEF AtCommand, Command
  <2>1. PICK c, s : Starts(c, s, label')
    BY <1>1, <1>5, Starting
  <2>2. CASE label' \in Modes
    <3>1. selected' = {c.rank}
      BY <2>1, <2>2, LoadsOwn
    <3>2. r = c.rank
      BY <3>1
    <3> QED
      BY <1>5, <2>1, <2>2, <3>2, ModeLegal
  <2>3. CASE label' = PRECHARGE_ALL
    <3> DEFINE q == c.rank
    <3>1. Legal(dram'[q], Decode(AcWord(label'))) /\ selected' = {q}
      BY <1>5, <2>1, <2>3, PrechargeLegal
    <3> QED
      BY <3>1
  <2> QED
    BY <2>2, <2>3
<1> QED
  BY <1>2, <1>3, <1>4, <1>5 DEF CNext

(* The invariant holds at the start: nothing has been sent.                *)
LEMMA LegalInit == CInit => LegalInv
<1> SUFFICES ASSUME CInit PROVE LegalInv
  OBVIOUS
<1>1. stage = "start" /\ calls = <<>> /\ ~running /\ Len(calls) = 0
  BY DEF CInit, Init
<1>2. BuiltInv
  BY BuiltInit
<1>3. Live \subseteq Ranks
  BY DEF Live
<1>4. Wlat \in Nat
  <2>1. board \in Boards
    BY Zenon DEF CInit
  <2>2. Wlat \in 1 .. 25
    BY <2>1, BoardTimes
  <2> QED
    BY <2>2
<1>5. ASSUME NEW r \in Ranks
      PROVE  /\ dram[r].phase = "unknown" /\ dram[r].last = 0 /\ dram[r].open = {}
             /\ dram[r].since["zqcl"] = 512 /\ dram[r].since["mrs"] = 12
             /\ dram[r].since["act"] = 14 /\ dram[r].since["wr"] = Limit("wr", Wlat)
  <2> DEFINE t0 == ResetCycles(TinitCntrs[1], TinitCntrs[2], TinitCntrs[3])
             t1 == ResetCycles(TresetCntrs[1], TresetCntrs[2], TresetCntrs[3])
             m == r \in board.mirrored
  <2>1. dram[r] = PowerUp(Wlat, m, t0, t1)
    BY DEF CInit
  <2> HIDE DEF t0, t1, m
  <2>2. /\ dram[r].phase = "unknown" /\ dram[r].last = 0 /\ dram[r].open = {}
        /\ dram[r].since = [e \in Events |-> Limit(e, Wlat)]
    BY <2>1 DEF PowerUp
  <2>3. \A e \in Events : dram[r].since[e] = Limit(e, Wlat)
    BY <2>2
  <2> QED
    BY <1>4, <2>2, <2>3, LimitIs DEF Events
<1>6. StageInv /\ OnceInv /\ TunedInv /\ KeptInv /\ CalmInv /\ PaceInv /\ RaiseInv /\ AtCommand
  BY <1>1 DEF StageInv, OnceInv, TunedInv, KeptInv, CalmInv, PaceInv, RaiseInv, AtCommand
<1>7. PowerInv /\ UpInv
  BY <1>1 DEF PowerInv, UpInv, Resetting
<1>8. RestInv
  BY <1>3, <1>4, <1>5, BuiltInv DEF RestInv, Rested, TRAS, BuiltInv
<1>9. FreshInv /\ RowsInv
  BY <1>1, <1>3, <1>5 DEF FreshInv, RowsInv, AboutTo
<1>10. LastInv
  BY <1>1, <1>3, <1>5 DEF LastInv, AboutTo, Own
<1>11. ZqclInv
  BY <1>3, <1>5 DEF ZqclInv, TZQinit
<1>12. MrsInv
  BY <1>1, <1>3, <1>5 DEF MrsInv, AboutTo, TMOD
<1> QED
  BY <1>2, <1>6, <1>7, <1>8, <1>9, <1>10, <1>11, <1>12 DEF LegalInv

(* Every step keeps it.                                                    *)
LEMMA LegalStep ==
    ASSUME MemoryInv, MemoryInv', LoopsLastTheirCycles, LegalInv, [CNext]_vars
    PROVE  LegalInv'
<1>1. CommandInv /\ CommandInv' /\ DramInv /\ FirstInv /\ FirstInv' /\ board \in Boards
  BY DEF MemoryInv, CommandInv, CallsInv
<1>2. /\ BuiltInv /\ StageInv /\ OnceInv /\ TunedInv /\ KeptInv /\ CalmInv /\ RestInv /\ PaceInv
      /\ PowerInv /\ RaiseInv /\ UpInv /\ FreshInv /\ LastInv /\ ZqclInv /\ MrsInv /\ RowsInv
      /\ AtCommand
  BY DEF LegalInv
<1>3. BuiltInv'
  BY <1>1, <1>2, BuiltStep
<1>4. StageInv' /\ OnceInv'
  BY <1>1, <1>2, StageStep
<1>5. TunedInv' /\ KeptInv'
  BY <1>1, <1>2, TunedStep, KeptStep
<1>6. CalmInv'
  BY <1>1, <1>2, CalmStep
<1>7. RestInv'
  BY <1>1, <1>2, RestStep
<1>8. PaceInv'
  BY <1>1, <1>2, PaceStep
<1>9. PowerInv'
  BY <1>1, <1>2, PowerStep
<1>10. RaiseInv' /\ UpInv'
  BY <1>1, <1>2, RaiseStep, UpStep
<1>11. FreshInv' /\ LastInv'
  BY <1>1, <1>2, FreshStep, LastStep
<1>12. ZqclInv' /\ MrsInv'
  BY <1>1, <1>2, ZqclStep, MrsStep
<1>13. RowsInv'
  BY <1>1, <1>2, RowsStep
<1>14. AtCommand'
  BY <1>2, AtCommandStep
<1> QED
  BY <1>3, <1>4, <1>5, <1>6, <1>7, <1>8, <1>9, <1>10, <1>11, <1>12, <1>13, <1>14 DEF LegalInv

(* A run that is no reset and no delay goes to a rank that is up.          *)
LEMMA ToRank ==
    ASSUME CommandInv, StageInv, PowerInv, UpInv, running, label \notin Holds \cup Idles
    PROVE  \E r \in Live : selected = {r} /\ Up(dram[r])
<1>1. PICK r \in Live : selected = {r}
  BY DEF CommandInv, RunInv, Addressee
<1>2. stage # "start"
  BY StageRuns DEF InUseStages
<1>3. ~Resetting
  <2> SUFFICES ASSUME Resetting
               PROVE  FALSE
    OBVIOUS
  <2>1. at \in {9, 17}
    BY DEF PowerInv
  <2>2. at = 9 => label = INIT_RESET_0_CKE_0
    BY DEF PowerInv, Holding
  <2>3. at = 17 => label = INIT_RESET_1_CKE_0
    BY DEF PowerInv, Holding
  <2> QED
    BY <2>1, <2>2, <2>3 DEF Holds
<1>4. ~Rising(r)
  BY DEF Rising, Idles
<1> QED
  BY <1>1, <1>2, <1>3, <1>4 DEF UpInv

(* While the rows of a rank are activated and its cells are used, it is    *)
(* ready for that.                                                         *)
LEMMA InUseNow ==
    ASSUME MemoryInv, StageInv, LastInv, ZqclInv, MrsInv, running,
           label \in Bursts \cup {ACTIVATE_0_AND_1}, NEW r \in Live
    PROVE  Usable(dram[r]) /\ stage \notin {"start", "initialized", "done"}
           /\ (label \in Bursts => stage \in InUseStages)
<1>1. label \notin Registers /\ label # ZQCL /\ label # IDLE_LOOP2
      /\ label \notin Holds \cup Idles \cup Modes /\ label \notin HandRuns
      /\ (label \in Bursts => label \notin Rows)
  <2>1. ACTIVATE_0_AND_1 = 13 /\ ZQCL = 6 /\ IDLE_LOOP2 = 122 /\ PRECHARGE_ALL = 18
    BY DEF ACTIVATE_0_AND_1, ZQCL, IDLE_LOOP2, PRECHARGE_ALL
  <2> QED
    BY <2>1, RunLabels DEF Registers, Modes, HandRuns
<1>2. /\ stage \in {"configured", "calibrated"} \cup InUseStages
      /\ label \in Bursts => stage \in InUseStages
  BY <1>1, StageRuns
<1>3. stage \notin {"start", "initialized", "done"}
  BY <1>2 DEF InUseStages
<1>4. \A i \in 1 .. Len(calls) : calls[i].proc \notin {"initialize", "handoff"}
  BY <1>3, PartOfStage
<1>5. calls # <<>> => calls[1] = Head(calls) /\ 1 \in 1 .. Len(calls)
  BY DEF MemoryInv, CommandInv, CallsInv
<1>6. ~Own(r) /\ (calls # <<>> => Head(calls) # Part("initialize", r))
  <2>1. calls # <<>> => Head(calls).proc \notin {"initialize", "handoff"}
    BY <1>4, <1>5
  <2> QED
    BY <2>1 DEF Own, Part
<1>7. dram[r].phase = "calibrated"
  <2>1. ~Waiting(r)
    BY <1>4 DEF Waiting, Part
  <2> QED
    BY <1>1, <1>3, <2>1 DEF MemoryInv, PhaseInv, AboutTo
<1>8. dram[r].last = 0
  BY <1>1, <1>6 DEF LastInv, AboutTo
<1>9. dram[r].since["zqcl"] = 512
  <2>1. ~Settling(r)
    BY <1>1, <1>6 DEF Settling
  <2> QED
    BY <2>1 DEF ZqclInv, TZQinit
<1>10. dram[r].since["mrs"] = 12
  <2>1. ~Loading(r) /\ ~Leaving(r)
    BY <1>3, <1>6 DEF Loading, Leaving
  <2> QED
    BY <2>1, MrsIs DEF Quieted
<1> QED
  BY <1>2, <1>3, <1>7, <1>8, <1>9, <1>10 DEF Usable, TZQinit, TMOD

(* The rows are activated one after the other.                             *)
LEMMA ActivatesLegal ==
    ASSUME MemoryInv, BuiltInv, StageInv, LastInv, ZqclInv, MrsInv, RowsInv, PaceInv,
           running, label = ACTIVATE_0_AND_1, Command.kind = "act", NEW r \in Live,
           selected = {r}
    PROVE  Legal(dram[r], Command)
<1> DEFINE d == dram[r]
<1>1. label \in Entries /\ ip \in Block(label) /\ board \in Boards /\ r \in Ranks
  BY LiveIs DEF MemoryInv, CommandInv, RunInv, Course, CallsInv
<1>2. ip \in {13, 15} /\ Command.bank = IF ip = 13 THEN 0 ELSE 1
  BY <1>1, RunSays
<1>3. Usable(d)
  BY InUseNow
<1>4. Command.bank \notin d.open
  <2>1. Opening(r)
    BY DEF RowsInv
  <2> QED
    BY <1>2, <2>1 DEF Opening
<1>5. AtLeast(d, "pre", 6) /\ AtLeast(d, "act", 14)
  <2>1. ActPace(d)
    BY DEF PaceInv
  <2>2. ip < 16 /\ ip \in {13, 15, 17}
    BY <1>2
  <2> QED
    BY <2>1, <2>2 DEF ActPace, TRP, TRAS
<1>6. Wlat \in Nat /\ "pre" \in Events /\ "act" \in Events
  BY <1>1, BoardTimes DEF Events
<1>7. Limit("pre", Wlat) = 6 /\ Limit("act", Wlat) = 14
  BY <1>6, LimitIs
<1>8. d.since["pre"] >= 6 /\ d.since["act"] >= 3
  BY <1>1, <1>5, <1>6, <1>7, Enough
<1> HIDE DEF d
<1>9. MayActivate(d, Command.bank)
  BY <1>3, <1>4, <1>8 DEF MayActivate, TRP, TRRD
<1> QED
  BY <1>9, LegalIs DEF d

(* A burst comes late enough after those before it.                        *)
LEMMA BurstPaced ==
    ASSUME board \in Boards, BuiltInv, TunedInv, PaceInv, NEW r \in Ranks,
           running, selected = {r}, label \in Bursts, label \in Entries, ip \in Block(label)
    PROVE  LET d == dram[r]
           IN /\ Command.kind \in {"read", "write"} =>
                    Command.bank \in Banks /\ d.since["act"] >= 6
              /\ Command.kind = "write" => d.since["wr"] >= 4 /\ d.since["rd"] + d.wlat >= 17
              /\ Command.kind = "read" => d.since["rd"] >= 4 /\ d.since["wr"] >= d.wlat + 8
<1> DEFINE d == dram[r]
<1>1. Wlat \in 1 .. 25 /\ Wlat \in Nat /\ d.wlat = Wlat
  BY BoardTimes DEF BuiltInv
<1>2. {"act", "wr", "rd"} \subseteq Events
  BY DEF Events
<1>3. Limit("act", Wlat) = 14 /\ Limit("rd", Wlat) = 17 /\ Limit("wr", Wlat) = Wlat + 10
  BY <1>1, LimitIs
<1>4. ASSUME NEW n \in Int, NEW e \in {"act", "wr", "rd"}, AtLeast(d, e, n)
      PROVE  \A m \in Int : m <= n /\ m <= Limit(e, Wlat) => d.since[e] >= m
  BY <1>2, <1>4, Enough
<1>5. d.since["wr"] = Limit("wr", Wlat) => d.since["wr"] >= Wlat + 8 /\ d.since["wr"] >= 4
  BY <1>1, <1>3
<1>6. d.since["rd"] >= 17 => d.since["rd"] + d.wlat >= 17
  <2>1. d.since["rd"] \in 0 .. Limit("rd", d.wlat)
    BY <1>2 DEF BuiltInv, Timely
  <2>2. PICK v \in Nat : v = d.since["rd"]
    BY <1>1, <1>3, <2>1
  <2> QED
    BY <1>1, <2>2
<1>7. label \in WriteTests \/ label \in {24, 73, 76, 89}
  BY RunLabels
<1> HIDE DEF d
<1>8. CASE label \in WriteTests
  <2>1. WrPace(d)
    BY <1>8 DEF PaceInv, d
  <2>2. Dm(label) \in {0, 20} /\ ip - Dm(label) \in 33 .. 52 /\ label - Dm(label) \in {33, 34}
        /\ label \in Addresses
    BY <1>8, BlocksOf
  <2>3. PICK m \in {0, 20} : m = Dm(label)
    BY <2>2
  <2>4. PICK x \in 33 .. 52 : x = ip - m /\ ip = x + m
    <3>1. ip \in Nat
      BY BlocksOf DEF Addresses
    <3> QED
      BY <2>2, <2>3, <3>1
  <2>5. /\ Sends(33 + m, "write", 0, 0) /\ Sends(34 + m, "write", 0, 0)
        /\ Sends(46 + m, "read", 0, 0)
        /\ \A y \in (35 .. 45) \cup (47 .. 52) : Silent(y + m)
    BY RomWriteTest
  <2>6. AtLeast(d, "act", 14) /\ (x <= 46 => AtLeast(d, "rd", 17))
        /\ (ip = label => d.since["wr"] = Limit("wr", Wlat))
        /\ (x \in 37 .. 46 => AtLeast(d, "wr", Wlat + (x - 37)))
    BY <2>1, <2>3, <2>4 DEF WrPace, TRAS
  <2>7. d.since["act"] >= 6
    BY <1>3, <1>4, <2>6
  <2>8. x <= 46 => d.since["rd"] >= 17
    BY <1>3, <1>4, <2>6
  <2>9. CASE x \in {33, 34}
    <3>1. Command.kind = "write" /\ Command.bank = 0
      BY <2>4, <2>5, <2>9 DEF Sends, Command
    <3>2. ip = label
      <4>1. WrNumbers(Wlat, label, m, ip, cntr, jump, reload)
        BY <1>1, <1>8, <2>3, WrTunedIs DEF TunedInv
      <4>2. /\ label = (IF Wlat = 1 THEN 33 ELSE 34) + m /\ ip >= label
            /\ Wlat <= 2 => ip = label \/ ip >= (IF Wlat = 1 THEN 37 ELSE 36) + m
        BY <4>1 DEF WrNumbers
      <4> QED
        BY <1>1, <2>4, <2>9, <4>2
    <3>3. d.since["rd"] >= 17 /\ d.since["wr"] >= 4
      BY <1>5, <2>6, <2>8, <2>9, <3>2
    <3> QED
      BY <1>6, <2>7, <3>1, <3>3 DEF Banks, d
  <2>10. CASE x = 46
    <3>1. Command.kind = "read" /\ Command.bank = 0
      BY <2>4, <2>5, <2>10 DEF Sends, Command
    <3>2. AtLeast(d, "wr", Wlat + 9)
      BY <2>6, <2>10
    <3>3. d.since["wr"] >= Wlat + 8
      BY <1>1, <1>3, <1>4, <3>2
    <3>4. d.since["rd"] >= 4
      BY <1>3, <1>4, <2>6, <2>10
    <3> QED
      BY <1>1, <2>7, <3>1, <3>3, <3>4 DEF Banks, d
  <2>11. CASE x \notin {33, 34, 46}
    <3>1. x \in (35 .. 45) \cup (47 .. 52)
      BY <2>11
    <3>2. Command.kind = "none"
      BY <2>4, <2>5, <3>1 DEF Silent, Command
    <3> QED
      BY <3>2
  <2> QED
    BY <2>9, <2>10, <2>11
<1>9. CASE label = 24
  <2>1. ip \in 24 .. 32
    BY <1>9, BlocksOf DEF GUARANTEED_WRITE
  <2>2. GwPace(d)
    BY <1>9 DEF PaceInv, d, GUARANTEED_WRITE
  <2>3. /\ AtLeast(d, "act", 14) /\ AtLeast(d, "rd", 17)
        /\ ip = 24 => AtLeast(d, "wr", 4)
        /\ ip \in {26, 30} => AtLeast(d, "wr", 6)
        /\ ip = 28 => AtLeast(d, "wr", 34)
    BY <2>2 DEF GwPace, TRAS
  <2>4. d.since["act"] >= 6 /\ d.since["rd"] >= 17
    BY <1>3, <1>4, <2>3
  <2>5. CASE ip \in {24, 26, 28, 30}
    <3>1. Command.kind = "write" /\ Command.bank \in Banks
      BY <2>5, RomGuaranteed DEF Sends, Command, Banks
    <3>2. AtLeast(d, "wr", 4) \/ AtLeast(d, "wr", 6) \/ AtLeast(d, "wr", 34)
      BY <2>3, <2>5
    <3>3. 4 <= Limit("wr", Wlat)
      BY <1>1, <1>3
    <3>4. d.since["wr"] >= 4
      BY <1>4, <3>2, <3>3
    <3> QED
      BY <1>6, <2>4, <3>1, <3>4 DEF d
  <2>6. CASE ip \notin {24, 26, 28, 30}
    <3>1. ip \in {25, 27, 29, 31, 32}
      BY <2>1, <2>6
    <3>2. Command.kind = "none"
      BY <3>1, RomGuaranteed DEF Silent, Command
    <3> QED
      BY <3>2
  <2> QED
    BY <2>5, <2>6
<1>10. CASE label \in {73, 76, 89}
  <2>1. ip \in 73 .. 110
    BY <1>10, BlocksOf DEF CLEAR_DQS_ENABLE, GUARANTEED_READ, READ_B2B
  <2>2. RdPace(d)
    BY <1>10 DEF PaceInv, d, CLEAR_DQS_ENABLE, GUARANTEED_READ, READ_B2B
  <2> DEFINE R == {73, 76, 80, 84, 89, 93, 98, 102, 106}
  <2>3. CASE ip \in R
    <3>1. Command.kind = "read" /\ Command.bank \in Banks
      BY <2>3, RomReads DEF Sends, Command, Banks
    <3>2. /\ AtLeast(d, "act", 14) /\ d.since["wr"] = Limit("wr", Wlat)
          /\ AtLeast(d, "rd", 4)
      BY <2>2, <2>3 DEF RdPace, TRAS
    <3>3. d.since["act"] >= 6 /\ d.since["rd"] >= 4
      BY <1>3, <1>4, <3>2
    <3> QED
      BY <1>1, <1>5, <3>1, <3>2, <3>3 DEF d
  <2>4. CASE ip \notin R
    <3>1. ip \in (73 .. 110) \ R
      BY <2>1, <2>4
    <3>2. Command.kind = "none"
      BY <3>1, RomReads DEF Silent, Command
    <3> QED
      BY <3>2
  <2> QED
    BY <2>3, <2>4
<1> QED
  BY <1>7, <1>8, <1>9, <1>10

LEMMA BurstLegal ==
    ASSUME MemoryInv, LegalInv, running, label \in Bursts, NEW r \in Live, selected = {r}
    PROVE  Command.kind \in {"read", "write"} => Legal(dram[r], Command)
<1> DEFINE d == dram[r]
<1>1. label \in Entries /\ ip \in Block(label) /\ board \in Boards /\ r \in Ranks
  BY LiveIs DEF MemoryInv, CommandInv, RunInv, Course, CallsInv
<1>2. /\ BuiltInv /\ StageInv /\ TunedInv /\ PaceInv /\ LastInv /\ ZqclInv /\ MrsInv /\ RowsInv
  BY DEF LegalInv
<1>3. Usable(d) /\ stage \in InUseStages /\ stage \notin {"start", "initialized", "done"}
  BY <1>2, InUseNow
<1>4. d.open = Banks
  <2>1. ~ToActivate(r)
    <3> SUFFICES ASSUME NEW i \in 1 .. Len(calls), calls[i] = Part("activate", r)
                 PROVE  FALSE
      BY DEF ToActivate
    <3>1. calls[i].proc = "activate"
      BY DEF Part
    <3>2. stage \in {"configured", "calibrated"}
      BY <1>2, <3>1, PartOfStage
    <3> QED
      BY <1>3, <3>2 DEF InUseStages
  <2>2. ~Opening(r)
    BY RunLabels DEF Opening, ACTIVATE_0_AND_1
  <2> QED
    BY <1>2, <1>3, <2>1, <2>2 DEF RowsInv
<1>5. /\ Command.kind \in {"read", "write"} =>
            Command.bank \in Banks /\ d.since["act"] >= 6
      /\ Command.kind = "write" => d.since["wr"] >= 4 /\ d.since["rd"] + d.wlat >= 17
      /\ Command.kind = "read" => d.since["rd"] >= 4 /\ d.since["wr"] >= d.wlat + 8
  BY <1>1, <1>2, BurstPaced
<1>6. d.wlat \in Nat
  <2>1. Wlat \in 1 .. 25 /\ d.wlat = Wlat
    BY <1>1, <1>2, BoardTimes DEF BuiltInv
  <2> QED
    BY <2>1
<1> HIDE DEF d
<1>7. Command.kind = "write" => MayWrite(d, Command.bank)
  BY <1>3, <1>4, <1>5 DEF MayWrite, TRCD, Burst, TCL, Turnaround
<1>8. Command.kind = "read" => MayRead(d, Command.bank)
  BY <1>3, <1>4, <1>5, <1>6 DEF MayRead, TRCD, Burst, TWTR
<1> QED
  BY <1>7, <1>8, LegalIs DEF d

(* What a run that is under way sends is legal.                            *)
LEMMA LegalFrom == MemoryInv /\ LegalInv => CommandsLegal
<1> SUFFICES ASSUME MemoryInv, LegalInv, running, NEW r \in selected
             PROVE  Legal(dram[r], Command)
  BY DEF CommandsLegal
<1>1. /\ label \in Entries /\ ip \in Block(label) /\ CommandInv
  BY DEF MemoryInv, CommandInv, RunInv, Course
<1>2. /\ BuiltInv /\ StageInv /\ PaceInv /\ PowerInv /\ RaiseInv /\ UpInv /\ LastInv /\ ZqclInv
      /\ MrsInv /\ RowsInv /\ AtCommand
  BY DEF LegalInv
<1>3. CASE label \in Holds
  <2>1. Command.kind = IF label = 111 THEN "reset" ELSE "cke_low"
    BY <1>1, <1>3, RomHolds
  <2>2. CASE label = 111
    BY <2>1, <2>2, LegalIs
  <2>3. CASE label # 111
    <3>1. Resetting /\ at \in {9, 17}
      BY <1>2, <1>3 DEF PowerInv
    <3>2. at # 9
      BY <1>2, <2>3, <3>1 DEF PowerInv, Holding, INIT_RESET_0_CKE_0
    <3>3. at = 17 /\ selected = Ranks
      BY <1>2, <3>1, <3>2 DEF PowerInv
    <3>4. InResetNow(dram[r]) \/ dram[r].phase = "cke_low"
      BY <1>2, <3>1, <3>3 DEF PowerInv
    <3>5. MayLowerCke(dram[r])
      BY <3>4 DEF MayLowerCke, InResetNow
    <3> QED
      BY <2>1, <2>3, <3>5, LegalIs
  <2> QED
    BY <2>2, <2>3
<1>4. CASE label \in Idles
  <2>1. Command.kind = "none"
    BY <1>1, <1>4, KindsSent
  <2>2. MayRaiseCke(dram[r])
    BY <1>2, <1>4 DEF RaiseInv
  <2> QED
    BY <2>1, <2>2, LegalIs
<1>5. CASE label \notin Holds \cup Idles
  <2>1. PICK q \in Live : selected = {q} /\ Up(dram[q])
    BY <1>1, <1>2, <1>5, ToRank
  <2>2. r = q /\ r \in Live /\ selected = {r} /\ Up(dram[r])
    BY <2>1
  <2>3. CASE Command.kind = "none"
    <3>1. MayRaiseCke(dram[r])
      BY <2>2 DEF Up, MayRaiseCke
    <3> QED
      BY <2>3, <3>1, LegalIs
  <2>4. CASE Command.kind \in {"mrs", "zqcl", "pre"}
    <3>1. ip = label /\ label \in Modes \cup {PRECHARGE_ALL}
      BY <1>1, <2>4, RunSays, RunLabels
    <3> QED
      BY <1>2, <3>1 DEF AtCommand
  <2>5. CASE Command.kind = "act"
    <3>1. label = ACTIVATE_0_AND_1
      BY <1>1, <2>5, RunSays
    <3> QED
      BY <1>2, <2>2, <2>5, <3>1, ActivatesLegal
  <2>6. CASE Command.kind \in {"read", "write"}
    <3>1. label \in Bursts
      BY <1>1, <1>5, <2>6, Kinds
    <3> QED
      BY <2>2, <2>6, <3>1, BurstLegal
  <2>7. CASE Command.kind \notin {"none", "mrs", "zqcl", "pre", "act", "read", "write"}
    <3>1. Command.kind # "cke_low"
      BY <1>1, <1>5, KindsSent
    <3> QED
      BY <2>7, <3>1, LegalIs
  <2> QED
    BY <2>3, <2>4, <2>5, <2>6, <2>7
<1> QED
  BY <1>3, <1>4, <1>5

(* Every command comes when the memory may be given it: on every board,    *)
(* for all values of the generated counters and however often a test is    *)
(* repeated.                                                               *)
THEOREM CommandsAreLegal == CSpec => []CommandsLegal
<1>1. CInit => MemoryInv /\ LegalInv
  BY MemoryInit, LegalInit
<1>2. MemoryInv /\ MemoryInv' /\ LegalInv /\ LoopsLastTheirCycles /\ [CNext]_vars => LegalInv'
  BY LegalStep
<1>3. CSpec => []MemoryInv
  BY <1>1, MemoryStep, PTL DEF CSpec
<1>4. CSpec => []LoopsLastTheirCycles
  BY CommandLoops
<1>5. CSpec => []LegalInv
  BY <1>1, <1>2, <1>3, <1>4, PTL DEF CSpec
<1> QED
  BY <1>3, <1>5, LegalFrom, PTL

-----------------------------------------------------------------------------
(* What is in the cells.                                                   *)

ReadStages == {"patterns", "reads", "lfifo"}
WriteProcs == {"write_test", "write_test_dm"}

(* The patterns are loaded before they are read, and writes are tested in  *)
(* a stage of their own.                                                   *)
TurnInv ==
    /\ \A i \in 1 .. Len(calls) :
          /\ calls[i].proc \in WriteProcs => stage = "writes"
          /\ calls[i].proc \in ReadProcs \cup {"load_patterns", "clear"} => stage \in ReadStages
          /\ calls[i].proc = "load_patterns" => \A j \in 1 .. i : calls[j].proc = "load_patterns"
    /\ running =>
          /\ label \in WriteTests => stage = "writes"
          /\ label \in Bursts \ WriteTests => stage \in ReadStages
          /\ label # GUARANTEED_WRITE =>
                \A i \in 1 .. Len(calls) : calls[i].proc # "load_patterns"

(* The bursts of a run: the clock of the run in which they are sent, the   *)
(* cell they are for and what they bring there.                            *)
ABurst(n, c, v) == [from |-> n, at |-> c, data |-> v]

GwBursts == {ABurst(0, <<0, 1>>, "A"), ABurst(6, <<1, 0>>, "A"),
             ABurst(40, <<1, 1>>, "B"), ABurst(46, <<0, 0>>, "B")}
WrBursts == {ABurst(0, <<0, 0>>, "lfsr")}

(* In clock t of the run, with write latency w, a burst is under way, as a *)
(* flight of that age that has got what was driven.                        *)
Coming(w, t, b) == b.from < t /\ t < b.from + w + Burst
Flier(w, t, b) ==
    [at |-> b.at, age |-> t - b.from, got |-> IF t - b.from <= w THEN "none" ELSE b.data]

Flies(d, t, bs) ==
    /\ \A f \in d.flight : \E b \in bs : Coming(d.wlat, t, b) /\ f = Flier(d.wlat, t, b)
    /\ \A b \in bs :
          /\ Coming(d.wlat, t, b) => Flier(d.wlat, t, b) \in d.flight
          /\ t >= b.from + d.wlat + Burst => d.cell[b.at] = b.data

(* The clock of a guaranteed write, and of a round of a write test, by the *)
(* instruction and the counter of its loop.                                *)
GwClock ==
    IF ip = 24 THEN 0 ELSE IF ip = 25 THEN 5 - cntr[2] ELSE IF ip = 26 THEN 6
    ELSE IF ip = 27 THEN 39 - cntr[0] ELSE IF ip = 28 THEN 40
    ELSE IF ip = 29 THEN 45 - cntr[3] ELSE IF ip = 30 THEN 46
    ELSE IF ip = 31 THEN 79 - cntr[1] ELSE 80

WrClock(x) ==
    IF ip = label THEN 0 ELSE IF x = 35 THEN Wlat - 2 - cntr[3] ELSE Wlat + x - 37

GwCounts ==
    /\ ip = 25 => cntr[2] <= 4
    /\ ip = 27 => cntr[0] <= 32
    /\ ip = 29 => cntr[3] <= 4
    /\ ip = 31 => cntr[1] <= 32

FlyingInv ==
    running =>
        \A r \in selected :
            /\ label = GUARANTEED_WRITE =>
                  /\ GwCounts /\ Flies(dram[r], GwClock, GwBursts)
                  /\ ip > 24 => dram[r].dqs
            /\ label \in WriteTests =>
                  LET x == ip - Dm(label)
                  IN IF x > 46 THEN dram[r].flight = {}
                     ELSE /\ Flies(dram[r], WrClock(x), WrBursts)
                          /\ x = 37 => dram[r].dqs

(* No burst is under way but in these runs, on their rank.                 *)
LandedInv ==
    \A r \in Live :
        \/ running /\ selected = {r} /\ label \in WriteTests \cup {GUARANTEED_WRITE}
        \/ dram[r].flight = {}

(* In the stages that read the patterns they are in the cells, or are to   *)
(* be loaded, or are just being.                                           *)
Patterned(d) ==
    /\ d.cell[<<0, 1>>] = "A" /\ d.cell[<<1, 0>>] = "A"
    /\ d.cell[<<1, 1>>] = "B" /\ d.cell[<<0, 0>>] = "B"

ToLoad(r) == \E i \in 1 .. Len(calls) : calls[i] = Part("load_patterns", r)
BeingLoaded(r) == running /\ label = GUARANTEED_WRITE /\ selected = {r}

PatternInv ==
    stage \in ReadStages => \A r \in Live : ToLoad(r) \/ BeingLoaded(r) \/ Patterned(dram[r])

CellInv == TurnInv /\ FlyingInv /\ LandedInv /\ PatternInv

(* What a clock and a pause do to the cells and to what is under way.      *)
OneOn(d, f, bus) ==
    [f EXCEPT !.age = @ + 1, !.got = IF Latching(d, f) THEN Latched(d, f, bus) ELSE @]

InFlight(d, c) ==
    d.flight \cup
    (IF c.kind = "write" THEN {[at |-> <<c.bank, c.col>>, age |-> 0, got |-> "none"]} ELSE {})

LEMMA CellsAre ==
    ASSUME NEW d, DOMAIN d = Fields, NEW c, NEW bus
    PROVE  LET e == Clock(d, c, bus)
               flying == {OneOn(d, f, bus) : f \in InFlight(d, c)}
           IN /\ e.flight = {f \in flying : f.age # d.wlat + Burst}
              /\ e.cell = [x \in Cells |->
                             IF \E f \in flying : f.age = d.wlat + Burst /\ f.at = x
                             THEN (CHOOSE f \in flying : f.age = d.wlat + Burst /\ f.at = x).got
                             ELSE d.cell[x]]
              /\ e.dqs = bus.dqs /\ e.wlat = d.wlat
<1> DEFINE flying == Flying(d, c, bus)
           flown == {OneOn(d, f, bus) : f \in InFlight(d, c)}
           Done(f) == f.age = d.wlat + Burst
           v1 == [x \in Events |-> IF x = EventOf(d, c) THEN 1 ELSE Later(d, 1)[x]]
           v2 == {f \in flying : ~Done(f)}
           v3 == [x \in Cells |->
                    IF \E f \in flying : Done(f) /\ f.at = x
                    THEN (CHOOSE f \in flying : Done(f) /\ f.at = x).got
                    ELSE d.cell[x]]
           v4 == IF c.kind = "mrs" THEN c.mr ELSE d.last
           v5 == IF c.kind = "mrs" /\ c.mr = 0 THEN c.value ELSE d.mr0
           v6 == PhaseAfter(d, c)
           v7 == IF PhaseAfter(d, c) # d.phase THEN 1
                 ELSE IF d.held < d.tinit + d.treset THEN d.held + 1 ELSE d.held
           v8 == CASE c.kind = "pre" -> {}
                   [] c.kind = "act" -> d.open \cup {c.bank}
                   [] OTHER -> d.open
           v9 == bus.dqs
           e == Clock(d, c, bus)
<1>1. e = [d EXCEPT !.since = v1, !.flight = v2, !.cell = v3, !.dqs = v9, !.last = v4,
                    !.mr0 = v5, !.phase = v6, !.held = v7, !.open = v8]
  BY Zenon DEF Clock
<1>2. flying = flown
  BY Zenon DEF Flying, InFlight, OneOn
<1>3. /\ v2 = {f \in flown : f.age # d.wlat + Burst}
      /\ v3 = [x \in Cells |->
                 IF \E f \in flown : f.age = d.wlat + Burst /\ f.at = x
                 THEN (CHOOSE f \in flown : f.age = d.wlat + Burst /\ f.at = x).got
                 ELSE d.cell[x]]
  <2> HIDE DEF flying, flown
  <2> QED
    BY <1>2
<1> HIDE DEF v1, v2, v3, v4, v5, v6, v7, v8, v9, e, flown
<1>4. e.flight = v2 /\ e.cell = v3 /\ e.dqs = v9 /\ e.wlat = d.wlat
  BY <1>1 DEF Fields
<1> QED
  BY <1>3, <1>4 DEF v9, e, flown

LEMMA ClockDqs ==
    ASSUME NEW d, DOMAIN d = Fields, NEW c, NEW bus
    PROVE  Clock(d, c, bus).dqs = bus.dqs /\ Clock(d, c, bus).wlat = d.wlat
<1> DEFINE e == Clock(d, c, bus)
           flying == {OneOn(d, f, bus) : f \in InFlight(d, c)}
<1>1. /\ e.flight = {f \in flying : f.age # d.wlat + Burst}
      /\ e.cell = [x \in Cells |->
                     IF \E f \in flying : f.age = d.wlat + Burst /\ f.at = x
                     THEN (CHOOSE f \in flying : f.age = d.wlat + Burst /\ f.at = x).got
                     ELSE d.cell[x]]
      /\ e.dqs = bus.dqs /\ e.wlat = d.wlat
  BY CellsAre
<1> QED
  BY <1>1

(* A clock in which no burst is under way, and none is sent.               *)
LEMMA CellsCalm ==
    ASSUME NEW d, DOMAIN d = Fields, NEW c, NEW bus, d.flight = {}, c.kind # "write"
    PROVE  LET e == Clock(d, c, bus)
           IN e.flight = {} /\ \A x \in Cells : e.cell[x] = d.cell[x]
<1> DEFINE e == Clock(d, c, bus)
           flying == {OneOn(d, f, bus) : f \in InFlight(d, c)}
<1>1. /\ e.flight = {f \in flying : f.age # d.wlat + Burst}
      /\ e.cell = [x \in Cells |->
                     IF \E f \in flying : f.age = d.wlat + Burst /\ f.at = x
                     THEN (CHOOSE f \in flying : f.age = d.wlat + Burst /\ f.at = x).got
                     ELSE d.cell[x]]
  BY CellsAre
<1>2. InFlight(d, c) = {}
  BY DEF InFlight
<1>3. flying = {}
  BY <1>2
<1> HIDE DEF flying, e
<1>4. e.flight = {} /\ \A x \in Cells : e.cell[x] = d.cell[x]
  BY <1>1, <1>3
<1> QED
  BY <1>4 DEF e

LEMMA CellsPaused ==
    ASSUME NEW d, DOMAIN d = Fields, NEW n
    PROVE  LET e == Quieten(d, n)
           IN e.flight = {} /\ (d.flight = {} => \A x \in Cells : e.cell[x] = d.cell[x])
<1> DEFINE v1 == Later(d, n)
           v2 == [x \in Cells |-> IF \E f \in d.flight : f.at = x THEN "garbage" ELSE d.cell[x]]
           e == Quieten(d, n)
<1>1. e = [d EXCEPT !.since = v1, !.flight = {}, !.dqs = FALSE, !.cell = v2]
  BY Zenon DEF Quieten
<1>2. d.flight = {} => \A x \in Cells : v2[x] = d.cell[x]
  OBVIOUS
<1> HIDE DEF v1, v2, e
<1>3. e.flight = {} /\ e.cell = v2
  BY <1>1 DEF Fields
<1> QED
  BY <1>2, <1>3 DEF e

(* A burst is latched as it should be.                                     *)
Driven(d, t, b, bus) ==
    t >= b.from + d.wlat =>
        bus.data = b.data /\ bus.dqs /\ (t = b.from + d.wlat => d.dqs)

LEMMA FlierOn ==
    ASSUME NEW d, NEW w \in Nat \ {0}, d.wlat = w, NEW bus, NEW t \in Nat, NEW n \in Nat,
           NEW x, NEW v, n <= t, t < n + w + Burst, Driven(d, t, ABurst(n, x, v), bus)
    PROVE  OneOn(d, Flier(w, t, ABurst(n, x, v)), bus) = Flier(w, t + 1, ABurst(n, x, v))
<1> DEFINE b == ABurst(n, x, v)
           f == Flier(w, t, b)
           g == Flier(w, t + 1, b)
           got == IF Latching(d, f) THEN Latched(d, f, bus) ELSE f.got
<1>1. b.from = n /\ b.at = x /\ b.data = v
  BY DEF ABurst
<1> HIDE DEF b
<1>2. /\ f = [at |-> x, age |-> t - n, got |-> IF t - n <= w THEN "none" ELSE v]
      /\ g = [at |-> x, age |-> t + 1 - n, got |-> IF t + 1 - n <= w THEN "none" ELSE v]
  BY <1>1 DEF Flier
<1> HIDE DEF f, g
<1>3. f.age = t - n /\ f.got = IF t - n <= w THEN "none" ELSE v
  BY <1>2
<1>4. got = IF t + 1 - n <= w THEN "none" ELSE v
  <2>1. CASE t - n < w
    <3>1. ~Latching(d, f)
      BY <1>3, <2>1 DEF Latching
    <3> QED
      BY <1>3, <2>1, <3>1
  <2>2. CASE t - n >= w
    <3>1. Latching(d, f)
      BY <1>3, <2>2 DEF Latching
    <3>2. bus.data = v /\ bus.dqs /\ (t - n = w => d.dqs)
      BY <1>1, <2>2 DEF Driven, b
    <3>3. bus.dqs /\ (f.age = d.wlat => d.dqs \/ d.wlat = 0)
      BY <1>3, <3>2
    <3>4. f.got \in {"none", bus.data}
      BY <1>3, <3>2
    <3>5. Latched(d, f, bus) = bus.data
      BY <3>3, <3>4 DEF Latched
    <3> QED
      BY <2>2, <3>1, <3>2, <3>5
  <2> QED
    BY <2>1, <2>2
<1>5. OneOn(d, f, bus) = [f EXCEPT !.age = @ + 1, !.got = got]
  BY DEF OneOn
<1> HIDE DEF got
<1>6. OneOn(d, f, bus) = [at |-> x, age |-> (t - n) + 1, got |-> got]
  BY <1>2, <1>5
<1>7. OneOn(d, f, bus) = g
  <2>1. (t - n) + 1 = t + 1 - n
    OBVIOUS
  <2> QED
    BY Zenon, <1>2, <1>4, <1>6, <2>1
<1> QED
  BY <1>7 DEF f, g, b

(* Bursts that are for different cells.                                    *)
Schedule(bs) ==
    /\ \A b \in bs : b.from \in Nat /\ b.at \in Cells /\ b = ABurst(b.from, b.at, b.data)
    /\ \A a, b \in bs : a.at = b.at => a = b

LEMMA FlierIs ==
    ASSUME NEW w, NEW t, NEW b
    PROVE  LET f == Flier(w, t, b)
           IN /\ f.at = b.at /\ f.age = t - b.from
              /\ f.got = IF t - b.from <= w THEN "none" ELSE b.data
BY DEF Flier

(* A clock, which sends those whose turn it is, and drives what is due,    *)
(* brings all of them on.                                                  *)
Carries(d, w, c, bus, t, bs) ==
    /\ DOMAIN d = Fields /\ w \in Nat \ {0} /\ d.wlat = w /\ t \in Nat
    /\ Schedule(bs) /\ Flies(d, t, bs)
    /\ \A b \in bs : b.from = t => c.kind = "write" /\ <<c.bank, c.col>> = b.at
    /\ c.kind = "write" => \E b \in bs : b.from = t
    /\ \A b \in bs : b.from <= t /\ t < b.from + w + Burst => Driven(d, t, b, bus)

LEMMA FliesOn ==
    ASSUME NEW d, NEW w, NEW c, NEW bus, NEW t, NEW bs, Carries(d, w, c, bus, t, bs)
    PROVE  Flies(Clock(d, c, bus), t + 1, bs)
<1> USE DEF Carries
<1> DEFINE e == Clock(d, c, bus)
           I == InFlight(d, c)
           flying == {OneOn(d, f, bus) : f \in I}
           Now(b) == b.from <= t /\ t < b.from + w + Burst
           new == [at |-> <<c.bank, c.col>>, age |-> 0, got |-> "none"]
<1>1. /\ e.flight = {f \in flying : f.age # w + Burst}
      /\ e.cell = [x \in Cells |->
                     IF \E f \in flying : f.age = w + Burst /\ f.at = x
                     THEN (CHOOSE f \in flying : f.age = w + Burst /\ f.at = x).got
                     ELSE d.cell[x]]
      /\ e.wlat = w
  BY CellsAre
<1>2. \A b \in bs : b.from \in Nat /\ b.at \in Cells
  BY DEF Schedule
<1>3. ASSUME NEW b \in bs, b.from = t PROVE c.kind = "write" /\ new = Flier(w, t, b)
  <2>1. c.kind = "write" /\ <<c.bank, c.col>> = b.at
    BY <1>3
  <2>2. t - b.from = 0 /\ 0 <= w
    BY <1>3
  <2> QED
    BY <2>1, <2>2 DEF Flier
<1>4. ASSUME NEW f \in I PROVE \E b \in bs : Now(b) /\ f = Flier(w, t, b)
  <2>1. CASE f \in d.flight
    <3>1. PICK b \in bs : Coming(w, t, b) /\ f = Flier(w, t, b)
      BY <2>1 DEF Flies
    <3>2. Now(b)
      BY <1>2, <3>1 DEF Coming
    <3> QED
      BY <3>1, <3>2
  <2>2. CASE f \notin d.flight
    <3>1. c.kind = "write" /\ f = new
      BY <2>2 DEF InFlight
    <3>2. PICK b \in bs : b.from = t
      BY <3>1
    <3>3. Now(b)
      BY <3>2 DEF Burst
    <3> QED
      BY <1>3, <3>1, <3>2, <3>3
  <2> QED
    BY <2>1, <2>2
<1>5. ASSUME NEW b \in bs, Now(b) PROVE Flier(w, t, b) \in I
  <2>1. CASE b.from = t
    BY <1>3, <2>1 DEF InFlight
  <2>2. CASE b.from # t
    <3>1. Coming(w, t, b)
      BY <1>2, <1>5, <2>2 DEF Coming
    <3>2. Flier(w, t, b) \in d.flight
      BY <3>1 DEF Flies
    <3> QED
      BY <3>2 DEF InFlight
  <2> QED
    BY <2>1, <2>2
<1>6. ASSUME NEW b \in bs, Now(b) PROVE OneOn(d, Flier(w, t, b), bus) = Flier(w, t + 1, b)
  <2>1. Driven(d, t, b, bus) /\ b = ABurst(b.from, b.at, b.data) /\ b.from \in Nat
    BY <1>6 DEF Schedule
  <2>2. PICK n, x, v : n \in Nat /\ n = b.from /\ x = b.at /\ v = b.data
    BY <2>1
  <2>3. b = ABurst(n, x, v) /\ n <= t /\ t < n + w + Burst /\ Driven(d, t, ABurst(n, x, v), bus)
    BY <1>6, <2>1, <2>2
  <2>4. OneOn(d, Flier(w, t, ABurst(n, x, v)), bus) = Flier(w, t + 1, ABurst(n, x, v))
    BY <2>2, <2>3, FlierOn
  <2> QED
    BY <2>3, <2>4
<1> HIDE DEF I
<1>7. /\ \A f \in flying : \E b \in bs : Now(b) /\ f = Flier(w, t + 1, b)
      /\ \A b \in bs : Now(b) => Flier(w, t + 1, b) \in flying
  <2>1. ASSUME NEW f \in flying PROVE \E b \in bs : Now(b) /\ f = Flier(w, t + 1, b)
    <3>1. PICK h \in I : f = OneOn(d, h, bus)
      OBVIOUS
    <3>2. PICK b \in bs : Now(b) /\ h = Flier(w, t, b)
      BY <1>4
    <3>3. f = Flier(w, t + 1, b)
      BY <1>6, <3>1, <3>2
    <3> QED
      BY <3>2, <3>3
  <2>2. ASSUME NEW b \in bs, Now(b) PROVE Flier(w, t + 1, b) \in flying
    <3>1. Flier(w, t, b) \in I /\ OneOn(d, Flier(w, t, b), bus) = Flier(w, t + 1, b)
      BY <1>5, <1>6, <2>2
    <3>2. OneOn(d, Flier(w, t, b), bus) \in flying
      BY <3>1
    <3> QED
      BY <3>1, <3>2
  <2> QED
    BY <2>1, <2>2
<1> HIDE DEF flying, e
<1>8. ASSUME NEW b \in bs
      PROVE  /\ Flier(w, t + 1, b).age = w + Burst <=> t + 1 = b.from + w + Burst
             /\ Flier(w, t + 1, b).at = b.at
             /\ t + 1 = b.from + w + Burst => Flier(w, t + 1, b).got = b.data
             /\ Coming(w, t + 1, b) <=> Now(b) /\ t + 1 # b.from + w + Burst
             /\ Burst = 4 /\ b.from \in Nat
  <2>1. b.from \in Nat /\ Burst = 4
    BY <1>2 DEF Burst
  <2>2. PICK n : n = t + 1
    OBVIOUS
  <2>3. /\ Flier(w, n, b).age = n - b.from /\ Flier(w, n, b).at = b.at
        /\ Flier(w, n, b).got = IF n - b.from <= w THEN "none" ELSE b.data
    BY DEF Flier
  <2> QED
    BY <2>1, <2>2, <2>3 DEF Coming
<1>9. ASSUME NEW f \in e.flight PROVE \E b \in bs : Coming(w, t + 1, b) /\ f = Flier(w, t + 1, b)
  <2>1. f \in flying /\ f.age # w + Burst
    BY <1>1
  <2>2. PICK b \in bs : Now(b) /\ f = Flier(w, t + 1, b)
    BY <1>7, <2>1
  <2>3. Coming(w, t + 1, b)
    BY <1>8, <2>1, <2>2
  <2> QED
    BY <2>2, <2>3
<1>10. ASSUME NEW b \in bs, Coming(w, t + 1, b) PROVE Flier(w, t + 1, b) \in e.flight
  <2>1. Now(b) /\ Flier(w, t + 1, b).age # w + Burst
    BY <1>8, <1>10
  <2>2. Flier(w, t + 1, b) \in flying
    BY <1>7, <2>1
  <2> QED
    BY <1>1, <2>1, <2>2
<1>11. ASSUME NEW f \in flying, f.age = w + Burst, NEW b \in bs, f.at = b.at
       PROVE  f.got = b.data /\ t + 1 = b.from + w + Burst
  <2>1. PICK a \in bs : Now(a) /\ f = Flier(w, t + 1, a)
    BY <1>7
  <2>2. a.at = b.at
    BY <1>8, <1>11, <2>1
  <2>3. a = b
    BY <2>2 DEF Schedule
  <2> QED
    BY <1>8, <1>11, <2>1, <2>3
<1>12. ASSUME NEW b \in bs, t + 1 >= b.from + w + Burst PROVE e.cell[b.at] = b.data
  <2> DEFINE Lands(f) == f.age = w + Burst /\ f.at = b.at
  <2>1. e.cell[b.at] = IF \E f \in flying : Lands(f)
                       THEN (CHOOSE f \in flying : Lands(f)).got ELSE d.cell[b.at]
    BY <1>1, <1>2
  <2>2. CASE \E f \in flying : Lands(f)
    <3>1. PICK f \in flying : f = (CHOOSE g \in flying : Lands(g)) /\ Lands(f)
      BY <2>2
    <3>2. f.got = b.data
      BY <1>11, <3>1
    <3> QED
      BY <2>1, <2>2, <3>1, <3>2
  <2>3. CASE ~\E f \in flying : Lands(f)
    <3>1. t + 1 # b.from + w + Burst
      <4> SUFFICES ASSUME t + 1 = b.from + w + Burst PROVE FALSE
        OBVIOUS
      <4>1. Now(b)
        BY <1>8
      <4>2. Flier(w, t + 1, b) \in flying /\ Lands(Flier(w, t + 1, b))
        BY <1>7, <1>8, <4>1
      <4> QED
        BY <2>3, <4>2
    <3>2. t >= b.from + w + Burst
      BY <1>8, <1>12, <3>1
    <3>3. d.cell[b.at] = b.data
      BY <3>2 DEF Flies
    <3> QED
      BY <2>1, <2>3, <3>3
  <2> QED
    BY <2>2, <2>3
<1>13. Flies(e, t + 1, bs)
  BY <1>1, <1>9, <1>10, <1>12 DEF Flies
<1> QED
  BY <1>13 DEF e

(* What the runs that write drive on the data pins.                        *)
LEMMA BusGuaranteed ==
    ASSUME NEW i \in 24 .. 31
    PROVE  LET bus == Bus(AcWord(i), Data(i))
           IN bus.dqs /\ bus.data = IF i <= 27 THEN "A" ELSE "B"
<1>1. AcWord(i) = FirstWords[i + 1]
  BY WordAt DEF AcWord
<1>2. AcWord(i) \in {"write_data", "write_bank_0_col_0", "write_bank_0_col_1",
                     "write_bank_1_col_0", "write_bank_1_col_1"}
  <2>1. /\ FirstWords[25] = "write_bank_0_col_1" /\ FirstWords[26] = "write_data"
        /\ FirstWords[27] = "write_bank_1_col_0" /\ FirstWords[28] = "write_data"
        /\ FirstWords[29] = "write_bank_1_col_1" /\ FirstWords[30] = "write_data"
        /\ FirstWords[31] = "write_bank_0_col_0" /\ FirstWords[32] = "write_data"
    BY DEF FirstWords
  <2> QED
    BY <1>1, <2>1
<1>3. Data(i) = IF i <= 27 THEN "A" ELSE "B"
  <2>1. CASE i \in 24 .. 27
    BY <2>1 DEF Data
  <2>2. CASE i \in 28 .. 31
    <3>1. i \notin 24 .. 27 \cup 76 .. 87 \cup 93 .. 96 \cup 98 .. 101
      BY <2>2
    <3> QED
      BY <2>2, <3>1 DEF Data
  <2> QED
    BY <2>1, <2>2
<1> QED
  BY <1>2, <1>3 DEF Bus

LEMMA BusWriteTest ==
    ASSUME NEW m \in {0, 20}
    PROVE  /\ Bus(AcWord(33 + m), Data(33 + m)).dqs
           /\ Bus(AcWord(36 + m), Data(36 + m)).dqs
           /\ \A x \in 37 .. 40 :
                 LET bus == Bus(AcWord(x + m), Data(x + m)) IN bus.dqs /\ bus.data = "lfsr"
<1>1. \A x \in 33 .. 40 : AcWord(x + m) = WriteReadWords[x - 32]
  <2> TAKE x \in 33 .. 40
  <2>1. x - 32 \in 1 .. 20 /\ 33 + m + (x - 32) = x + m + 1
    OBVIOUS
  <2>2. AcWords[33 + m + (x - 32)] = WriteReadWords[x - 32]
    BY <2>1, MiddleAt
  <2> QED
    BY <2>1, <2>2 DEF AcWord
<1>2. /\ WriteReadWords[1] = "write_bank_0_col_0_nodata_wl_1"
      /\ WriteReadWords[4] = "write_predata"
      /\ \A j \in 5 .. 8 : WriteReadWords[j] = "write_data"
  BY DEF WriteReadWords
<1>3. Bus(AcWord(33 + m), Data(33 + m)).dqs
  <2>1. AcWord(33 + m) = "write_bank_0_col_0_nodata_wl_1"
    BY <1>1, <1>2
  <2> QED
    BY <2>1 DEF Bus
<1>4. Bus(AcWord(36 + m), Data(36 + m)).dqs
  <2>1. AcWord(36 + m) = "write_predata"
    BY <1>1, <1>2
  <2> QED
    BY <2>1 DEF Bus
<1>5. ASSUME NEW x \in 37 .. 40
      PROVE  Bus(AcWord(x + m), Data(x + m)).dqs /\ Bus(AcWord(x + m), Data(x + m)).data = "lfsr"
  <2>1. AcWord(x + m) = "write_data"
    <3>1. x - 32 \in 5 .. 8
      OBVIOUS
    <3> QED
      BY <1>1, <1>2, <3>1
  <2>2. Data(x + m) = "lfsr"
    <3>1. x + m \in 37 .. 40 \/ x + m \in 57 .. 60
      OBVIOUS
    <3>2. /\ x + m \notin 24 .. 27 \cup 76 .. 87 \cup 93 .. 96 \cup 98 .. 101
          /\ x + m \notin 28 .. 31 \cup 89 .. 92 \cup 102 .. 105 \cup {125}
      BY <3>1
    <3> QED
      BY <3>2 DEF Data
  <2> QED
    BY <2>1, <2>2 DEF Bus
<1> QED
  BY <1>3, <1>4, <1>5

LEMMA Schedules ==
    Schedule(GwBursts) /\ Schedule(WrBursts)
<1>1. Schedule(WrBursts)
  BY DEF Schedule, WrBursts, ABurst, Cells, Banks
<1>2. \A b \in GwBursts : b.from \in Nat /\ b.at \in Cells /\ b = ABurst(b.from, b.at, b.data)
  BY DEF GwBursts, ABurst, Cells, Banks
<1>3. \A a, b \in GwBursts : a.at = b.at => a = b
  BY DEF GwBursts, ABurst
<1> QED
  BY <1>1, <1>2, <1>3 DEF Schedule

(* The clock of a guaranteed write goes on, and tells where it is.         *)
LEMMA GwGoesOn ==
    ASSUME EngineTypeOK, Play, running', ip \in 24 .. 32, GwTuned, GwCounts
    PROVE  /\ ip # 32 /\ ip' \in 24 .. 32 /\ GwCounts' /\ GwClock' = GwClock + 1 /\ ip' > 24
           /\ GwClock \in 0 .. 79
           /\ GwClock = 0 <=> ip = 24
           /\ GwClock = 6 <=> ip = 26
           /\ GwClock = 40 <=> ip = 28
           /\ GwClock = 46 <=> ip = 30
           /\ GwClock < 40 <=> ip <= 27
<1>1. ip # 32
  BY PlayOn DEF Returns
<1>2. /\ ip \in {24, 26, 28, 30} => Onward
      /\ ip = 25 => Round(2, 25)
      /\ ip = 27 => Round(0, 27)
      /\ ip = 29 => Round(3, 29)
      /\ ip = 31 => Round(1, 31)
  BY PlayOn DEF GwTuned, Straight
<1>3. cntr[0] \in Nat /\ cntr[1] \in Nat /\ cntr[2] \in Nat /\ cntr[3] \in Nat
  BY PlayOn, JumpsAt
<1>4. /\ ip = 24 => cntr[2] = 4
      /\ ip < 27 => cntr[0] = 32
      /\ ip < 29 => cntr[3] = 4
      /\ ip < 31 => cntr[1] = 32
  BY DEF GwTuned
<1>5. CASE ip \in {24, 26, 28, 30}
  BY <1>2, <1>4, <1>5 DEF Onward, GwCounts, GwClock
<1>6. CASE ip = 25
  BY <1>2, <1>3, <1>4, <1>6, JumpsAt DEF Round, GwCounts, GwClock
<1>7. CASE ip = 27
  BY <1>2, <1>3, <1>4, <1>7, JumpsAt DEF Round, GwCounts, GwClock
<1>8. CASE ip = 29
  BY <1>2, <1>3, <1>4, <1>8, JumpsAt DEF Round, GwCounts, GwClock
<1>9. CASE ip = 31
  BY <1>2, <1>3, <1>4, <1>9, JumpsAt DEF Round, GwCounts, GwClock
<1> QED
  BY <1>1, <1>5, <1>6, <1>7, <1>8, <1>9

(* A clock of a rank, with the command and the data that it gets.          *)
LEMMA RankClock ==
    ASSUME CommandInv, DramInv, BuiltInv, Clocked, NEW r \in selected, label \notin Holds \cup Idles
    PROVE  /\ dram'[r] = Clock(dram[r], Command, Bus(AcWord(ip), Data(ip)))
           /\ DOMAIN dram[r] = Fields /\ dram[r].wlat = Wlat /\ Wlat \in 1 .. 25
           /\ r \in Ranks /\ r \in Live
<1>1. r \in Live /\ r \in Ranks /\ Wlat \in 1 .. 25
  BY Chosen
<1>2. dram'[r] = Clock(dram[r], Command, Bus(AcWord(ip), Data(ip)))
  BY <1>1 DEF Clocked, Played
<1> QED
  BY <1>1, <1>2 DEF DramInv, BuiltInv

(* The bursts of a guaranteed write come on.                               *)
LEMMA GwFlies ==
    ASSUME CommandInv, DramInv, BuiltInv, TunedInv, Clocked, running', NEW r \in selected,
           label = GUARANTEED_WRITE, GwCounts, Flies(dram[r], GwClock, GwBursts),
           ip > 24 => dram[r].dqs
    PROVE  GwCounts' /\ Flies(dram'[r], GwClock', GwBursts) /\ dram'[r].dqs /\ ip' > 24
<1> DEFINE bus == Bus(AcWord(ip), Data(ip))
           t == GwClock
           w == Wlat
           d == dram[r]
<1>1. /\ label \in Entries /\ ip \in Block(label) /\ EngineTypeOK /\ Play /\ running
  BY Clocking
<1>2. label = 24 /\ ip \in 24 .. 32
  BY <1>1, BlocksOf
<1>3. label \notin Holds \cup Idles
  BY <1>2, RunLabels
<1>4. /\ dram'[r] = Clock(d, Command, bus)
      /\ DOMAIN d = Fields /\ d.wlat = w /\ w \in 1 .. 25
  BY <1>3, RankClock
<1>5. /\ ip # 32 /\ ip' \in 24 .. 32 /\ GwCounts' /\ GwClock' = t + 1 /\ ip' > 24
      /\ t \in 0 .. 79
      /\ t = 0 <=> ip = 24
      /\ t = 6 <=> ip = 26
      /\ t = 40 <=> ip = 28
      /\ t = 46 <=> ip = 30
      /\ t < 40 <=> ip <= 27
  BY <1>1, <1>2, GwGoesOn DEF TunedInv
<1>6. bus.dqs /\ bus.data = IF ip <= 27 THEN "A" ELSE "B"
  BY <1>2, <1>5, BusGuaranteed
<1>7. /\ ip = 24 => Command.kind = "write" /\ Command.bank = 0 /\ Command.col = 1
      /\ ip = 26 => Command.kind = "write" /\ Command.bank = 1 /\ Command.col = 0
      /\ ip = 28 => Command.kind = "write" /\ Command.bank = 1 /\ Command.col = 1
      /\ ip = 30 => Command.kind = "write" /\ Command.bank = 0 /\ Command.col = 0
      /\ ip \in {25, 27, 29, 31} => Command.kind = "none"
  BY RomGuaranteed DEF Sends, Silent, Command
<1> HIDE DEF bus, t, w, d
<1>8. \A b \in GwBursts :
         /\ b = ABurst(0, <<0, 1>>, "A") \/ b = ABurst(6, <<1, 0>>, "A")
            \/ b = ABurst(40, <<1, 1>>, "B") \/ b = ABurst(46, <<0, 0>>, "B")
         /\ \/ b.from = 0 /\ b.at = <<0, 1>> /\ b.data = "A"
            \/ b.from = 6 /\ b.at = <<1, 0>> /\ b.data = "A"
            \/ b.from = 40 /\ b.at = <<1, 1>> /\ b.data = "B"
            \/ b.from = 46 /\ b.at = <<0, 0>> /\ b.data = "B"
  BY DEF GwBursts, ABurst
<1>9. ASSUME NEW b \in GwBursts, b.from = t
      PROVE  Command.kind = "write" /\ <<Command.bank, Command.col>> = b.at
  BY <1>5, <1>7, <1>8, <1>9
<1>10. ASSUME Command.kind = "write" PROVE \E b \in GwBursts : b.from = t
  <2>1. ip \in {24, 26, 28, 30}
    BY <1>2, <1>5, <1>7, <1>10
  <2>2. /\ ABurst(0, <<0, 1>>, "A") \in GwBursts /\ ABurst(6, <<1, 0>>, "A") \in GwBursts
        /\ ABurst(40, <<1, 1>>, "B") \in GwBursts /\ ABurst(46, <<0, 0>>, "B") \in GwBursts
    BY DEF GwBursts
  <2>3. \A n, c, v : ABurst(n, c, v).from = n
    BY DEF ABurst
  <2> QED
    BY <1>5, <2>1, <2>2, <2>3
<1>11. ASSUME NEW b \in GwBursts, b.from <= t, t < b.from + w + Burst
       PROVE  Driven(d, t, b, bus)
  <2>5. \/ b.from \in {0, 6} /\ b.data = "A"
        \/ b.from \in {40, 46} /\ b.data = "B"
    <3>1. \/ b.from = 0 /\ b.at = <<0, 1>> /\ b.data = "A"
          \/ b.from = 6 /\ b.at = <<1, 0>> /\ b.data = "A"
          \/ b.from = 40 /\ b.at = <<1, 1>> /\ b.data = "B"
          \/ b.from = 46 /\ b.at = <<0, 0>> /\ b.data = "B"
      BY <1>8
    <3> QED
      BY Zenon, <3>1
  <2>6. PICK n : n = b.from
    OBVIOUS
  <2>7. (n \in {0, 6} /\ b.data = "A") \/ (n \in {40, 46} /\ b.data = "B")
    BY Zenon, <2>5, <2>6
  <2>8. n <= t /\ t < n + w + 4
    BY <1>11, <2>6 DEF Burst
  <2>4. n \in {0, 6} \/ n \in {40, 46}
    BY Zenon, <2>7
  <2>9. n <= 6 <=> t < 40
    BY <1>4, <1>5, <2>4, <2>8
  <2>1. bus.data = b.data
    <3>1. n <= 6 => b.data = "A"
      BY <2>7
    <3>2. ~(n <= 6) => b.data = "B"
      BY <2>7
    <3> QED
      BY <1>5, <1>6, <2>9, <3>1, <3>2
  <2>2. t = b.from + w => d.dqs
    <3>1. t = b.from + w => ip # 24
      BY <1>4, <1>5, <2>4, <2>6
    <3>2. ip > 24 => d.dqs
      BY DEF d
    <3> QED
      BY <1>2, <3>1, <3>2
  <2> QED
    BY <1>4, <1>6, <2>1, <2>2 DEF Driven
<1>12. Flies(Clock(d, Command, bus), t + 1, GwBursts)
  <2>1. Flies(d, t, GwBursts)
    BY DEF d, t
  <2>2. t \in Nat /\ w \in Nat \ {0}
    BY <1>4, <1>5
  <2>3. DOMAIN d = Fields /\ d.wlat = w /\ Schedule(GwBursts)
    BY <1>4, Schedules
  <2>4. Carries(d, w, Command, bus, t, GwBursts)
    BY <1>9, <1>10, <1>11, <2>1, <2>2, <2>3 DEF Carries
  <2> QED
    BY <2>4, FliesOn
<1>13. dram'[r].dqs
  <2>1. Clock(d, Command, bus).dqs = bus.dqs
    BY <1>4, ClockDqs
  <2> QED
    BY <1>4, <1>6, <2>1
<1> QED
  BY <1>4, <1>5, <1>12, <1>13

(* The bursts of a run when it starts, and when all of them have landed.   *)
LEMMA TheBursts ==
    /\ \A b \in WrBursts : b.from = 0 /\ b.at = <<0, 0>> /\ b.data = "lfsr"
    /\ \E b \in WrBursts : b.from = 0 /\ b.at = <<0, 0>> /\ b.data = "lfsr"
    /\ \A b \in GwBursts : b.from \in {0, 6, 40, 46}
    /\ \E b \in GwBursts : b.from = 0 /\ b.at = <<0, 1>> /\ b.data = "A"
    /\ \E b \in GwBursts : b.from = 6 /\ b.at = <<1, 0>> /\ b.data = "A"
    /\ \E b \in GwBursts : b.from = 40 /\ b.at = <<1, 1>> /\ b.data = "B"
    /\ \E b \in GwBursts : b.from = 46 /\ b.at = <<0, 0>> /\ b.data = "B"
<1>1. \A n, c, v : /\ ABurst(n, c, v).from = n
                  /\ ABurst(n, c, v).at = c /\ ABurst(n, c, v).data = v
  BY DEF ABurst
<1>2. /\ ABurst(0, <<0, 1>>, "A") \in GwBursts /\ ABurst(6, <<1, 0>>, "A") \in GwBursts
      /\ ABurst(40, <<1, 1>>, "B") \in GwBursts /\ ABurst(46, <<0, 0>>, "B") \in GwBursts
      /\ ABurst(0, <<0, 0>>, "lfsr") \in WrBursts
  BY DEF GwBursts, WrBursts
<1>3. \A b \in WrBursts : b = ABurst(0, <<0, 0>>, "lfsr")
  BY DEF WrBursts
<1>4. \A b \in GwBursts : b.from \in {0, 6, 40, 46}
  BY DEF GwBursts, ABurst
<1>5. \A b \in WrBursts : b.from = 0 /\ b.at = <<0, 0>> /\ b.data = "lfsr"
  BY <1>1, <1>3
<1>6. \E b \in WrBursts : b.from = 0 /\ b.at = <<0, 0>> /\ b.data = "lfsr"
  BY <1>1, <1>2
<1>7. \E b \in GwBursts : b.from = 0 /\ b.at = <<0, 1>> /\ b.data = "A"
  BY <1>1, <1>2
<1>8. \E b \in GwBursts : b.from = 6 /\ b.at = <<1, 0>> /\ b.data = "A"
  BY <1>1, <1>2
<1>9. \E b \in GwBursts : b.from = 40 /\ b.at = <<1, 1>> /\ b.data = "B"
  BY <1>1, <1>2
<1>10. \E b \in GwBursts : b.from = 46 /\ b.at = <<0, 0>> /\ b.data = "B"
  BY <1>1, <1>2
<1> QED
  BY <1>4, <1>5, <1>6, <1>7, <1>8, <1>9, <1>10

LEMMA FliesFirst ==
    ASSUME NEW d, d.wlat \in 1 .. 25, d.flight = {}
    PROVE  Flies(d, 0, GwBursts) /\ Flies(d, 0, WrBursts)
<1>1. ASSUME NEW b, b.from \in {0, 6, 40, 46}
      PROVE  ~Coming(d.wlat, 0, b) /\ ~(0 >= b.from + d.wlat + Burst)
  BY <1>1 DEF Coming, Burst
<1>2. Flies(d, 0, GwBursts)
  BY <1>1, TheBursts DEF Flies
<1>3. Flies(d, 0, WrBursts)
  BY <1>1, TheBursts DEF Flies
<1> QED
  BY <1>2, <1>3

LEMMA FlownWr ==
    ASSUME NEW d, d.wlat \in 1 .. 25, NEW t \in Nat, t >= d.wlat + 4, Flies(d, t, WrBursts)
    PROVE  d.flight = {} /\ d.cell[<<0, 0>>] = "lfsr"
<1>1. PICK b \in WrBursts : b.from = 0 /\ b.at = <<0, 0>> /\ b.data = "lfsr"
  BY TheBursts
<1>2. t >= b.from + d.wlat + Burst
  BY <1>1 DEF Burst
<1>3. d.cell[b.at] = b.data
  BY <1>2 DEF Flies
<1>4. \A c \in WrBursts : ~Coming(d.wlat, t, c)
  BY TheBursts DEF Coming, Burst
<1>5. d.flight = {}
  BY <1>4 DEF Flies
<1> QED
  BY <1>1, <1>3, <1>5

LEMMA FlownGw ==
    ASSUME NEW d, d.wlat \in 1 .. 25, Flies(d, 80, GwBursts)
    PROVE  d.flight = {} /\ Patterned(d)
<1>1. ASSUME NEW b \in GwBursts
      PROVE  80 >= b.from + d.wlat + Burst /\ ~Coming(d.wlat, 80, b)
  BY TheBursts DEF Coming, Burst
<1>2. \A b \in GwBursts : d.cell[b.at] = b.data
  BY <1>1 DEF Flies
<1>3. d.flight = {}
  BY <1>1 DEF Flies
<1>4. d.cell[<<0, 1>>] = "A"
  BY Zenon, <1>2, TheBursts
<1>5. d.cell[<<1, 0>>] = "A"
  BY Zenon, <1>2, TheBursts
<1>6. d.cell[<<1, 1>>] = "B"
  BY Zenon, <1>2, TheBursts
<1>7. d.cell[<<0, 0>>] = "B"
  BY Zenon, <1>2, TheBursts
<1> QED
  BY <1>3, <1>4, <1>5, <1>6, <1>7 DEF Patterned

(* The clock of a round of a write test, in numbers: at instruction x, now *)
(* at i, entered at l, with write latency w.                               *)
Rounds(x, w, i, l, c) == IF i = l THEN 0 ELSE IF x = 35 THEN w - 2 - c ELSE w + x - 37

(* From instruction x, at i, in clock t, to y, at j, in clock u.           *)
WriteRound(w, l, dm, i, j, x, y, t, u) ==
    /\ l \in {33 + dm, 34 + dm} /\ x # 52 /\ (x \in {33, 34} => i = l)
    /\ x < 46 => y \in 35 .. 46 /\ j # l /\ t \in Nat /\ u = t + 1
    /\ x < 46 => (t = 0 <=> x \in {33, 34})
    /\ x < 46 /\ t >= w => t = w + (x - 37) /\ x >= 37
    /\ y = 37 => i = 33 + dm \/ x = 36
    /\ x = 46 => t = w + 9 /\ y = 47
    /\ x > 46 => y \in 47 .. 52 \/ j = l

LEMMA WrGoesOn ==
    ASSUME EngineTypeOK, Play, running', NEW w \in 1 .. 25, NEW l, NEW dm \in {0, 20},
           WrNumbers(w, l, dm, ip, cntr, jump, reload), ip - dm \in 33 .. 52
    PROVE  WriteRound(w, l, dm, ip, ip', ip - dm, ip' - dm,
                    Rounds(ip - dm, w, ip, l, cntr[3]), Rounds(ip' - dm, w, ip', l, cntr'[3]))
<1> DEFINE x == ip - dm
           y == ip' - dm
           t == Rounds(x, w, ip, l, cntr[3])
           u == Rounds(y, w, ip', l, cntr'[3])
<1> SUFFICES WriteRound(w, l, dm, ip, ip', x, y, t, u)
  OBVIOUS
<1> USE DEF WriteRound
<1>1. /\ ip \notin Returns /\ ip \in Nat
      /\ ip \in (36 .. 49) \cup (56 .. 69) => Onward
      /\ \A c \in Cntrs : cntr[c] \in Nat /\ reload[c] \in Nat /\ cntr'[c] \in Nat
      /\ ip \in {51, 71} => Round(0, jump[0])
      /\ ip \in {50, 70} => Round(1, jump[1])
      /\ ip \in {33, 34, 53, 54} => Round(2, jump[2])
      /\ ip \in {35, 55} => Round(3, jump[3])
  BY PlayOn
<1>2. dm = 0 \/ dm = 20
  OBVIOUS
<1>3. ip = x + dm /\ ip \in Int /\ x \in 33 .. 52
  BY <1>1, <1>2
<1>4. l \in Int /\ l = (IF w = 1 THEN 33 ELSE 34) + dm /\ ip >= l
  BY <1>2 DEF WrNumbers
<1>5. /\ cntr[0] \in Nat /\ cntr[2] \in Nat /\ cntr[3] \in Nat
      /\ cntr'[0] \in Nat /\ cntr'[2] \in Nat /\ cntr'[3] \in Nat
  BY <1>1, JumpsAt
<1>6. x # 52
  BY <1>1, <1>2, <1>3 DEF Returns
<1>7. CASE x \in 36 .. 49
  <2>1. y = x + 1 /\ ip' = ip + 1 /\ ip' # l /\ ip # l
    BY <1>1, <1>2, <1>3, <1>4, <1>7 DEF Onward
  <2>2. t = w + x - 37 /\ u = w + y - 37
    BY <1>7, <2>1 DEF Rounds
  <2> HIDE DEF x, y, t, u
  <2>6. x = 36 => w >= 2
    BY <1>2, <1>3, <1>4 DEF WrNumbers
  <2>3. x < 46 => y \in 37 .. 46 /\ t \in Nat /\ u = t + 1 /\ t # 0 /\ (y = 37 => x = 36)
    BY <1>7, <2>1, <2>2, <2>6
  <2>4. t = w + (x - 37) /\ (x = 46 => t = w + 9 /\ y = 47) /\ (t >= w => x >= 37)
    BY <1>7, <2>1, <2>2
  <2>5. l \in {33 + dm, 34 + dm}
    BY <1>2, <1>4
  <2> QED
    BY <1>7, <2>1, <2>3, <2>4, <2>5
<1>8. CASE x = 50
  <2>1. y \in {50, 51}
    BY <1>1, <1>2, <1>3, <1>8 DEF WrNumbers, Round
  <2> HIDE DEF y, t, u
  <2> QED
    BY <1>2, <1>3, <1>4, <1>8, <2>1
<1>9. CASE x = 51
  <2>1. ip' = l \/ y = 52
    BY <1>1, <1>2, <1>3, <1>9 DEF WrNumbers, Round
  <2>2. y # 37
    BY <1>2, <1>4, <2>1
  <2> HIDE DEF y, t, u
  <2> QED
    BY <1>2, <1>3, <1>4, <1>9, <2>1, <2>2
<1>10. CASE x \in {33, 34}
  <2>1. Round(2, jump[2])
    BY <1>1, <1>2, <1>3, <1>10
  <2>2. ip = l
    <3>1. CASE w <= 2
      BY <1>2, <1>3, <1>4, <1>10, <3>1 DEF WrNumbers
    <3>2. CASE w > 2
      BY <1>2, <1>3, <1>4, <1>10, <3>2
    <3> QED
      BY <3>1, <3>2
  <2>3. t = 0
    BY <2>2 DEF Rounds
  <2>4. CASE w <= 2
    <3>1. jump[2] = (IF w = 1 THEN 37 ELSE 36) + dm /\ cntr[2] >= cntr[0] + 1
      BY <1>1, <2>2, <2>4 DEF WrNumbers
    <3>2. cntr[2] # 0
      BY <1>5, <3>1
    <3>3. y = (IF w = 1 THEN 37 ELSE 36) /\ ip' # l
      BY <1>2, <1>4, <2>1, <3>1, <3>2 DEF Round
    <3>4. u = 1
      BY <2>4, <3>3 DEF Rounds
    <3> HIDE DEF y, t, u, x
    <3> QED
      BY <1>2, <1>3, <1>4, <1>10, <2>2, <2>3, <2>4, <3>3, <3>4
  <2>5. CASE w > 2
    <3>1. cntr[2] = 0 /\ cntr[3] = w - 3 /\ ip = 34 + dm
      BY <1>2, <1>3, <1>4, <1>10, <2>5 DEF WrNumbers
    <3>2. y = 35 /\ cntr'[3] = cntr[3] /\ ip' # l
      BY <1>2, <1>4, <2>1, <2>5, <3>1, JumpsAt DEF Round
    <3>3. u = 1
      BY <2>5, <3>1, <3>2 DEF Rounds
    <3> HIDE DEF y, t, u, x
    <3> QED
      BY <1>2, <1>3, <1>4, <1>10, <2>2, <2>3, <2>5, <3>2, <3>3
  <2> QED
    BY <2>4, <2>5
<1>11. CASE x = 35
  <2>1. w > 2 /\ jump[3] = 35 + dm /\ cntr[3] <= w - 3 /\ ip # l
    BY <1>2, <1>3, <1>4, <1>11 DEF WrNumbers
  <2>2. Round(3, 35 + dm)
    BY <1>1, <1>2, <1>3, <1>11, <2>1
  <2>3. t = w - 2 - cntr[3]
    BY <1>11, <2>1 DEF Rounds
  <2>4. \/ cntr[3] # 0 /\ ip' = 35 + dm /\ cntr'[3] = cntr[3] - 1
        \/ cntr[3] = 0 /\ ip' = ip + 1
    BY <2>2 DEF Round
  <2>5. y \in {35, 36} /\ ip' # l
    BY <1>2, <1>3, <1>4, <1>11, <2>4
  <2>6. u = t + 1
    <3>1. CASE cntr[3] # 0 /\ ip' = 35 + dm /\ cntr'[3] = cntr[3] - 1
      <4>1. y = 35 /\ u = w - 2 - cntr'[3]
        BY <1>2, <2>5, <3>1 DEF Rounds
      <4> HIDE DEF y, u, t
      <4> QED
        BY <1>5, <2>3, <3>1, <4>1
    <3>2. CASE cntr[3] = 0 /\ ip' = ip + 1
      <4>1. y = 36
        BY <1>2, <1>3, <1>11, <3>2
      <4>2. u = w + y - 37
        BY <2>5, <4>1 DEF Rounds
      <4> HIDE DEF y, u, t
      <4> QED
        BY <2>3, <3>2, <4>1, <4>2
    <3> QED
      BY <2>4, <3>1, <3>2
  <2> HIDE DEF y, t, u, x
  <2> QED
    BY <1>2, <1>3, <1>4, <1>5, <1>11, <2>1, <2>3, <2>5, <2>6
<1> QED
  BY <1>3, <1>6, <1>7, <1>8, <1>9, <1>10, <1>11

(* The burst of a round of a write test comes on, and has landed when it   *)
(* is read back.                                                           *)
WrFlying(x, t, d) ==
    IF x > 46 THEN d.flight = {} ELSE Flies(d, t, WrBursts) /\ (x = 37 => d.dqs)

LEMMA WrFlies ==
    ASSUME CommandInv, DramInv, BuiltInv, TunedInv, Clocked, running', NEW r \in selected,
           label \in WriteTests, WrFlying(ip - Dm(label), WrClock(ip - Dm(label)), dram[r])
    PROVE  WrFlying((ip - Dm(label))', WrClock(ip - Dm(label))', dram'[r])
<1> DEFINE dm == Dm(label)
           w == Wlat
           l == label
           x == ip - dm
           y == ip' - dm
           t == Rounds(x, w, ip, l, cntr[3])
           u == Rounds(y, w, ip', l, cntr'[3])
           bus == Bus(AcWord(ip), Data(ip))
           d == dram[r]
           e == dram'[r]
<1>1. /\ label \in Entries /\ ip \in Block(label) /\ EngineTypeOK /\ Play /\ running
      /\ Wlat' = Wlat /\ label' = label
  BY Clocking
<1>2. dm \in {0, 20} /\ x \in 33 .. 52 /\ label \notin Holds \cup Idles
  BY <1>1, BlocksOf, RunLabels
<1>3. /\ e = Clock(d, Command, bus)
      /\ DOMAIN d = Fields /\ d.wlat = w /\ w \in 1 .. 25
  BY <1>2, RankClock
<1>4. WrClock(x) = t /\ WrClock(x)' = u /\ x' = y
  <2>1. Dm(label)' = Dm(label)
    BY <1>1 DEF Dm
  <2> QED
    BY <1>1, <2>1 DEF WrClock, Rounds
<1>5. WrFlying(x, t, d)
  BY <1>4
<1> SUFFICES WrFlying(y, u, e)
  BY <1>4
<1>6. /\ l \in {33 + dm, 34 + dm} /\ x # 52 /\ (x \in {33, 34} => ip = l)
      /\ x < 46 => y \in 35 .. 46 /\ ip' # l /\ t \in Nat /\ u = t + 1
      /\ x < 46 => (t = 0 <=> x \in {33, 34})
      /\ x < 46 /\ t >= w => t = w + (x - 37) /\ x >= 37
      /\ y = 37 => ip = 33 + dm \/ x = 36
      /\ x = 46 => t = w + 9 /\ y = 47
      /\ x > 46 => y \in 47 .. 52 \/ ip' = l
  <2>1. WrNumbers(w, l, dm, ip, cntr, jump, reload)
    BY <1>1, <1>3, WrTunedIs DEF TunedInv
  <2>2. WriteRound(w, l, dm, ip, ip', x, y, t, u)
    BY <1>1, <1>2, <1>3, <2>1, WrGoesOn
  <2> HIDE DEF w, l, dm, x, y, t, u
  <2> QED
    BY <2>2 DEF WriteRound
<1>7. ip = x + dm /\ ip \in Nat
  <2>1. ip \in Nat
    BY <1>1 DEF EngineTypeOK, Addresses
  <2> QED
    BY <1>2, <2>1
<1>8. /\ x \in {33, 34} => Command.kind = "write" /\ Command.bank = 0 /\ Command.col = 0
      /\ x \notin {33, 34} => Command.kind # "write"
      /\ x = 33 \/ x = 36 \/ x \in 37 .. 40 => bus.dqs
      /\ x \in 37 .. 40 => bus.data = "lfsr"
  <2>1. /\ Sends(33 + dm, "write", 0, 0) /\ Sends(34 + dm, "write", 0, 0)
        /\ Sends(46 + dm, "read", 0, 0)
        /\ \A i \in (35 .. 45) \cup (47 .. 52) : Silent(i + dm)
    BY <1>2, RomWriteTest
  <2>2. /\ Bus(AcWord(33 + dm), Data(33 + dm)).dqs
        /\ Bus(AcWord(36 + dm), Data(36 + dm)).dqs
        /\ \A i \in 37 .. 40 :
              LET b == Bus(AcWord(i + dm), Data(i + dm)) IN b.dqs /\ b.data = "lfsr"
    BY <1>2, BusWriteTest
  <2> HIDE DEF dm, x
  <2>3. x \in {33, 34} => Command.kind = "write" /\ Command.bank = 0 /\ Command.col = 0
    BY <1>7, <2>1 DEF Command, Sends
  <2>4. x \notin {33, 34} => Command.kind # "write"
    <3>1. CASE x = 46
      BY <1>7, <2>1, <3>1 DEF Command, Sends
    <3>2. CASE x \in (35 .. 45) \cup (47 .. 52)
      BY <1>7, <2>1, <3>2 DEF Command, Silent
    <3> QED
      BY <1>2, <3>1, <3>2
  <2>5. x = 33 \/ x = 36 \/ x \in 37 .. 40 => bus.dqs
    BY <1>7, <2>2
  <2>6. x \in 37 .. 40 => bus.data = "lfsr"
    BY <1>7, <2>2
  <2> QED
    BY <2>3, <2>4, <2>5, <2>6
<1> HIDE DEF dm, w, l, x, y, t, u, bus, d, e
<1>9. CASE x < 46
  <2>1. Flies(d, t, WrBursts) /\ (x = 37 => d.dqs)
    BY <1>2, <1>5, <1>9 DEF WrFlying
  <2>2. ASSUME NEW b \in WrBursts, b.from = t
        PROVE  Command.kind = "write" /\ <<Command.bank, Command.col>> = b.at
    BY <1>6, <1>8, <1>9, <2>2, TheBursts
  <2>3. ASSUME Command.kind = "write" PROVE \E b \in WrBursts : b.from = t
    <3>1. t = 0
      BY <1>6, <1>8, <1>9, <2>3
    <3> QED
      BY <3>1, TheBursts
  <2>4. ASSUME NEW b \in WrBursts, b.from <= t, t < b.from + w + Burst
        PROVE  Driven(d, t, b, bus)
    <3>1. b.from = 0 /\ b.data = "lfsr" /\ Burst = 4
      BY TheBursts DEF Burst
    <3>2. ASSUME t >= w PROVE bus.data = "lfsr" /\ bus.dqs /\ (t = w => d.dqs)
      <4>1. t = w + (x - 37) /\ x \in 37 .. 40 /\ (t = w => x = 37)
        BY <1>2, <1>3, <1>6, <1>9, <2>4, <3>1, <3>2
      <4> QED
        BY <1>8, <2>1, <4>1
    <3> QED
      BY <1>3, <1>6, <1>9, <3>1, <3>2 DEF Driven
  <2>5. Carries(d, w, Command, bus, t, WrBursts)
    <3>1. DOMAIN d = Fields /\ d.wlat = w /\ Schedule(WrBursts) /\ w \in Nat \ {0} /\ t \in Nat
      BY <1>3, <1>6, <1>9, Schedules
    <3> QED
      BY <2>1, <2>2, <2>3, <2>4, <3>1 DEF Carries
  <2>6. Flies(Clock(d, Command, bus), t + 1, WrBursts)
    BY <2>5, FliesOn
  <2>7. y = 37 => e.dqs
    <3>1. Clock(d, Command, bus).dqs = bus.dqs
      BY <1>3, ClockDqs
    <3>2. y = 37 => x = 33 \/ x = 36
      BY <1>2, <1>6, <1>7
    <3> QED
      BY <1>3, <1>8, <3>1, <3>2
  <2> QED
    BY <1>3, <1>6, <1>9, <2>6, <2>7 DEF WrFlying
<1>10. CASE x >= 46
  <2>1. d.flight = {}
    <3>1. CASE x = 46
      <4>1. Flies(d, t, WrBursts)
        BY <1>5, <3>1 DEF WrFlying
      <4>2. d.wlat \in 1 .. 25 /\ t \in Nat /\ t >= d.wlat + 4
        BY <1>3, <1>6, <3>1
      <4> QED
        BY <4>1, <4>2, FlownWr
    <3>2. CASE x > 46
      BY <1>5, <3>2 DEF WrFlying
    <3> QED
      BY <1>2, <1>10, <3>1, <3>2
  <2>2. Command.kind # "write"
    BY <1>2, <1>8, <1>10
  <2>3. e.flight = {} /\ e.wlat = w
    <3>1. Clock(d, Command, bus).flight = {}
      BY <1>3, <2>1, <2>2, CellsCalm
    <3>2. Clock(d, Command, bus).wlat = d.wlat
      BY <1>3, ClockDqs
    <3> QED
      BY <1>3, <3>1, <3>2
  <2>4. CASE y \in 47 .. 52
    BY <2>3, <2>4 DEF WrFlying
  <2>5. CASE ip' = l
    <3>1. u = 0
      BY <2>5 DEF Rounds, u
    <3>2. y \in {33, 34}
      BY <1>2, <1>6, <2>5 DEF y
    <3>3. Flies(e, 0, WrBursts)
      BY <1>3, <2>3, FliesFirst
    <3> QED
      BY <3>1, <3>2, <3>3 DEF WrFlying
  <2> QED
    BY <1>2, <1>6, <1>10, <2>4, <2>5
<1> QED
  BY <1>2, <1>9, <1>10

(* A clock of a rank that no burst is on its way to.                       *)
LEMMA CalmClock ==
    ASSUME DramInv, Clocked, NEW r \in Ranks, dram[r].flight = {}, Sent(r).kind # "write"
    PROVE  /\ dram'[r].flight = {}
           /\ Patterned(dram[r]) => Patterned(dram'[r])
<1> DEFINE bus == Bus(AcWord(ip), Data(ip))
<1>1. dram'[r] = Clock(dram[r], Sent(r), bus)
  BY DEF Clocked, Played, Sent
<1>2. DOMAIN dram[r] = Fields
  BY DEF DramInv
<1>3. LET e == Clock(dram[r], Sent(r), bus)
      IN e.flight = {} /\ \A x \in Cells : e.cell[x] = dram[r].cell[x]
  BY <1>2, CellsCalm
<1>4. dram'[r].flight = {} /\ \A x \in Cells : dram'[r].cell[x] = dram[r].cell[x]
  BY <1>1, <1>3
<1>5. <<0, 1>> \in Cells /\ <<1, 0>> \in Cells /\ <<1, 1>> \in Cells /\ <<0, 0>> \in Cells
  BY DEF Cells, Banks
<1> QED
  BY <1>4, <1>5 DEF Patterned

(* A clock finds a rank in a run that writes, or nothing is on its way to  *)
(* it; at the end of a guaranteed write, because everything has landed.    *)
LEMMA Landing ==
    ASSUME CommandInv, DramInv, BuiltInv, FlyingInv, LandedInv, Clocked, NEW r \in Live
    PROVE  \/ running' /\ selected = {r} /\ label \in WriteTests \cup {GUARANTEED_WRITE}
           \/ /\ dram[r].flight = {} /\ Sent(r).kind # "write"
              /\ selected = {r} /\ label = GUARANTEED_WRITE => Patterned(dram[r])
<1>1. /\ label \in Entries /\ ip \in Block(label) /\ running /\ Play /\ board \in Boards
      /\ Live \subseteq Ranks /\ label' = label /\ selected' = selected
  BY Clocking
<1>2. Wlat \in 1 .. 25 /\ dram[r].wlat = Wlat
  BY <1>1, BoardTimes DEF BuiltInv
<1>3. CASE ~(selected = {r} /\ label \in WriteTests \cup {GUARANTEED_WRITE})
  <2>1. dram[r].flight = {}
    BY <1>3 DEF LandedInv
  <2>2. Sent(r).kind # "write"
    <3> SUFFICES ASSUME Sent(r).kind = "write" PROVE FALSE
      OBVIOUS
    <3>1. r \in selected /\ Command.kind = "write"
      BY KindOf DEF Sent
    <3>2. label \in Bursts
      BY <1>1, <3>1, KindsSent
    <3>3. label \notin Holds \cup Idles
      BY <3>2, RunLabels
    <3>4. selected = {r}
      BY <1>1, <3>1, <3>3, Clocking
    <3>5. label \in {73, 76, 89}
      BY <1>3, <3>2, <3>4, RunLabels DEF GUARANTEED_WRITE
    <3>6. ip \in 73 .. 110
      <4>1. label \in {CLEAR_DQS_ENABLE, GUARANTEED_READ, READ_B2B}
        BY <3>5 DEF CLEAR_DQS_ENABLE, GUARANTEED_READ, READ_B2B
      <4> QED
        BY <1>1, <4>1, BlocksOf
    <3>7. Command.kind \in {"none", "read"}
      <4>1. CASE ip \in {73, 76, 80, 84, 98, 106}
        BY <4>1, RomReads DEF Sends, Command
      <4>2. CASE ip \in {89, 93, 102}
        BY <4>2, RomReads DEF Sends, Command
      <4>3. CASE ip \notin {73, 76, 80, 84, 89, 93, 98, 102, 106}
        BY <3>6, <4>3, RomReads DEF Silent, Command
      <4> QED
        BY <4>1, <4>2, <4>3
    <3> QED
      BY <3>1, <3>7
  <2> QED
    BY <1>3, <2>1, <2>2
<1>4. CASE selected = {r} /\ label = GUARANTEED_WRITE
  <2> SUFFICES ASSUME ~running' PROVE dram[r].flight = {} /\ Sent(r).kind # "write" /\ Patterned(dram[r])
    BY <1>4
  <2>1. ip = 32
    BY <1>1, <1>4, PlayEnds, BlocksOf DEF Returns
  <2>2. Flies(dram[r], 80, GwBursts)
    <3>1. GwClock = 80
      BY <2>1 DEF GwClock
    <3>2. Flies(dram[r], GwClock, GwBursts)
      BY <1>1, <1>4 DEF FlyingInv
    <3> QED
      BY <3>1, <3>2
  <2>3. dram[r].flight = {} /\ Patterned(dram[r])
    BY <1>2, <2>2, FlownGw
  <2>4. Sent(r).kind = "none"
    BY <1>4, <2>1, RomGuaranteed DEF Silent, Sent, Command
  <2> QED
    BY <2>3, <2>4
<1>5. CASE selected = {r} /\ label \in WriteTests
  <2> SUFFICES ASSUME ~running' PROVE dram[r].flight = {} /\ Sent(r).kind # "write"
    BY <1>5, RunLabels DEF GUARANTEED_WRITE
  <2>1. Dm(label) \in {0, 20} /\ ip - Dm(label) \in 33 .. 52 /\ ip \in Addresses
    BY <1>1, <1>5, BlocksOf
  <2>2. ip = 52 + Dm(label)
    BY <1>1, <2>1, PlayEnds DEF Returns, Addresses
  <2>3. ip - Dm(label) > 46
    BY <2>1, <2>2
  <2>4. dram[r].flight = {}
    BY <1>1, <1>5, <2>3 DEF FlyingInv
  <2>5. Silent(ip)
    BY <2>1, <2>2, RomWriteTest
  <2>6. Sent(r).kind = "none"
    BY <1>5, <2>5 DEF Silent, Sent, Command
  <2> QED
    BY <2>4, <2>6
<1> QED
  BY <1>3, <1>4, <1>5

LEMMA LandedStep ==
    ASSUME CommandInv, DramInv, BuiltInv, FlyingInv, LandedInv, [CNext]_vars
    PROVE  LandedInv'
<1>1. CASE UNCHANGED vars
  <2>1. /\ running' = running /\ selected' = selected /\ label' = label /\ dram' = dram
        /\ Live' = Live
    BY <1>1, Stays
  <2> QED
    BY <2>1 DEF LandedInv
<1>2. CASE Procedures
  <2>1. /\ running' = running /\ selected' = selected /\ label' = label /\ dram' = dram
        /\ Live' = Live
    BY <1>2, Beginning
  <2> QED
    BY <2>1 DEF LandedInv
<1>3. CASE Write
  <2>1. Live' = Live /\ Live \subseteq Ranks
    BY <1>3, WriteStays
  <2>2. \A r \in Live : dram'[r].flight = {}
    BY <1>3, <2>1, WriteDram
  <2> QED
    BY <2>1, <2>2 DEF LandedInv
<1>4. CASE Clocked
  <2>1. Live' = Live /\ Live \subseteq Ranks /\ label' = label /\ selected' = selected
    BY <1>4, Clocking
  <2>2. ASSUME NEW r \in Live
        PROVE  \/ running' /\ selected' = {r} /\ label' \in WriteTests \cup {GUARANTEED_WRITE}
               \/ dram'[r].flight = {}
    <3>1. CASE running' /\ selected = {r} /\ label \in WriteTests \cup {GUARANTEED_WRITE}
      BY <2>1, <3>1
    <3>2. CASE dram[r].flight = {} /\ Sent(r).kind # "write"
      <4>1. r \in Ranks
        BY <2>1
      <4> QED
        BY <1>4, <3>2, <4>1, CalmClock
    <3> QED
      BY <1>4, <3>1, <3>2, Landing
  <2> QED
    BY <2>1, <2>2 DEF LandedInv
<1> QED
  BY <1>1, <1>2, <1>3, <1>4 DEF CNext

(* A run begins without anything under way.                                *)
LEMMA FlyingRun ==
    ASSUME CommandInv, CommandInv', DramInv, BuiltInv, Write
    PROVE  FlyingInv'
<1>1. PICK c, s : Moves(c, s)
  BY Moving
<1>2. /\ ~running /\ board \in Boards /\ Ranks' = Ranks /\ Wlat' = Wlat /\ Live' = Live
      /\ Live \subseteq Ranks
  BY WriteStays
<1>3. /\ at \in 1 .. Len(s) /\ Len(s) \in Nat /\ Exact(s, at)
      /\ s[at].op = "run" => label' = s[at].val /\ ip' = label' /\ s[at] = RunReg(s[at].val)
      /\ s[at].op # "run" => ~running'
  BY <1>1 DEF Moves
<1> SUFFICES ASSUME running', NEW r \in selected'
             PROVE  /\ label' = GUARANTEED_WRITE =>
                          /\ GwCounts' /\ Flies(dram'[r], GwClock', GwBursts)
                          /\ ip' > 24 => dram'[r].dqs
                    /\ label' \in WriteTests =>
                          LET x == (ip - Dm(label))'
                          IN IF x > 46 THEN dram'[r].flight = {}
                             ELSE /\ Flies(dram'[r], WrClock(ip - Dm(label))', WrBursts)
                                  /\ x = 37 => dram'[r].dqs
  BY DEF FlyingInv
<1>4. ip' = label'
  BY <1>3
<1> SUFFICES ASSUME label' \in Bursts
             PROVE  /\ label' = GUARANTEED_WRITE =>
                          /\ GwCounts' /\ Flies(dram'[r], GwClock', GwBursts)
                          /\ ip' > 24 => dram'[r].dqs
                    /\ label' \in WriteTests =>
                          LET x == (ip - Dm(label))'
                          IN IF x > 46 THEN dram'[r].flight = {}
                             ELSE /\ Flies(dram'[r], WrClock(ip - Dm(label))', WrBursts)
                                  /\ x = 37 => dram'[r].dqs
  BY RunLabels DEF GUARANTEED_WRITE
<1>5. label' \notin Holds \cup Idles
  BY RunLabels
<1>6. PICK x \in Live' : selected' = {x}
  BY <1>5 DEF CommandInv, RunInv, Addressee
<1>7. r \in Live /\ r \in Ranks
  BY <1>2, <1>6
<1>8. BuiltInv'
  BY <1>2, BuiltStep DEF CNext
<1>9. dram'[r].wlat \in 1 .. 25 /\ dram'[r].flight = {}
  <2>1. dram'[r].wlat = Wlat /\ Wlat \in 1 .. 25
    BY <1>2, <1>7, <1>8, BoardTimes DEF BuiltInv
  <2> QED
    BY <1>7, <2>1, WriteDram
<1>10. Flies(dram'[r], 0, GwBursts) /\ Flies(dram'[r], 0, WrBursts)
  BY <1>9, FliesFirst
<1>11. CASE label' = GUARANTEED_WRITE
  <2>1. ip' = 24
    BY <1>4, <1>11 DEF GUARANTEED_WRITE
  <2>2. GwClock' = 0 /\ GwCounts'
    BY <2>1 DEF GwClock, GwCounts
  <2>3. label' \notin WriteTests
    BY <1>11, RunLabels DEF GUARANTEED_WRITE
  <2> QED
    BY <1>10, <2>1, <2>2, <2>3
<1>12. CASE label' \in WriteTests
  <2>1. (ip - Dm(label))' \in {33, 34}
    <3>1. label' \in {33, 34, 53, 54}
      BY <1>12, RunLabels
    <3> QED
      BY <1>4, <3>1 DEF Dm, WRITE, DmBlock
  <2>2. WrClock(ip - Dm(label))' = 0
    BY <1>4 DEF WrClock
  <2>3. label' # GUARANTEED_WRITE
    BY <1>12, RunLabels DEF GUARANTEED_WRITE
  <2> QED
    BY <1>10, <2>1, <2>2, <2>3
<1> QED
  BY <1>11, <1>12

LEMMA FlyingStep ==
    ASSUME CommandInv, CommandInv', DramInv, BuiltInv, TunedInv, FlyingInv, [CNext]_vars
    PROVE  FlyingInv'
<1>1. CASE UNCHANGED vars
  <2>1. /\ running' = running /\ selected' = selected /\ label' = label /\ dram' = dram
        /\ ip' = ip /\ cntr' = cntr /\ Wlat' = Wlat
    BY <1>1, Stays
  <2> QED
    BY <2>1 DEF FlyingInv, GwCounts, GwClock, WrClock
<1>2. CASE Procedures
  <2>1. ~running'
    BY <1>2, Beginning
  <2> QED
    BY <2>1 DEF FlyingInv
<1>3. CASE Clocked
  <2>1. running /\ label' = label /\ selected' = selected
    BY <1>3, Clocking
  <2> SUFFICES ASSUME running', NEW r \in selected
               PROVE  /\ label = GUARANTEED_WRITE =>
                            /\ GwCounts' /\ Flies(dram'[r], GwClock', GwBursts)
                            /\ ip' > 24 => dram'[r].dqs
                      /\ label \in WriteTests =>
                            WrFlying((ip - Dm(label))', WrClock(ip - Dm(label))', dram'[r])
    BY <2>1 DEF FlyingInv, WrFlying
  <2>2. CASE label = GUARANTEED_WRITE
    <3>1. /\ GwCounts /\ Flies(dram[r], GwClock, GwBursts)
          /\ ip > 24 => dram[r].dqs
      BY <2>1, <2>2 DEF FlyingInv
    <3>2. GwCounts' /\ Flies(dram'[r], GwClock', GwBursts) /\ dram'[r].dqs
      BY <1>3, <2>2, <3>1, GwFlies
    <3>3. label \notin WriteTests
      BY <2>2, RunLabels DEF GUARANTEED_WRITE
    <3> QED
      BY <3>2, <3>3
  <2>3. CASE label \in WriteTests
    <3>1. WrFlying(ip - Dm(label), WrClock(ip - Dm(label)), dram[r])
      BY <2>1, <2>3 DEF FlyingInv, WrFlying
    <3>2. WrFlying((ip - Dm(label))', WrClock(ip - Dm(label))', dram'[r])
      BY <1>3, <2>3, <3>1, WrFlies
    <3>3. label # GUARANTEED_WRITE
      BY <2>3, RunLabels DEF GUARANTEED_WRITE
    <3> QED
      BY <3>2, <3>3
  <2> QED
    BY <2>2, <2>3
<1> QED
  BY <1>1, <1>2, <1>3, FlyingRun DEF CNext

(* What the stages call that load, read or spoil the cells.                *)
CellsBegun ==
    \/ /\ stage' \in {"patterns", "lfifo"}
       /\ \A i \in 1 .. Len(calls') :
             calls'[i].proc = IF i = Len(calls') THEN "odt_off" ELSE "load_patterns"
       /\ \A r \in Live : \E i \in 1 .. Len(calls') : calls'[i] = Part("load_patterns", r)
    \/ /\ stage \in ReadStages /\ stage' \in ReadStages
       /\ \A i \in 1 .. Len(calls') : calls'[i].proc \in ReadProcs \cup {"clear"}
    \/ /\ stage' = "writes"
       /\ \A i \in 1 .. Len(calls') : calls'[i].proc \in WriteProcs \cup {"odt_off"}
    \/ /\ stage' \notin ReadStages \cup {"writes"}
       /\ \A i \in 1 .. Len(calls') :
             calls'[i].proc \in {"reset", "initialize", "activate", "handoff"}

LEMMA AppendedIs ==
    ASSUME board \in Boards, NEW p \in OdtProcs, NEW q \in {"clear", "odt_off"}
    PROVE  LET s == Append(ForRanks(p), Part(q, 0))
           IN /\ Len(s) \in Nat
              /\ \A i \in 1 .. Len(s) : s[i].proc = IF i = Len(s) THEN q ELSE p
              /\ \A r \in Live : \E i \in 1 .. Len(s) : s[i] = Part(p, r)
<1> DEFINE t == ForRanks(p)
           x == Part(q, 0)
           s == Append(t, x)
<1>0. p \in OffProcs \cup OdtProcs
  OBVIOUS
<1>1. t \in Seq(Parts) /\ Len(t) \in Nat /\ \A i \in 1 .. Len(t) : t[i].proc = p
  BY <1>0, ForRanksAre
<1>2. x.proc = q /\ x \in Parts
  BY PartIn DEF Part
<1>3. \A r \in Live : \E i \in 1 .. Len(t) : t[i] = Part(p, r)
  BY <1>0, ForRanksHas DEF Given
<1> HIDE DEF t, x
<1>4. /\ s \in Seq(Parts) /\ Len(s) = Len(t) + 1 /\ s[Len(t) + 1] = x
      /\ \A i \in 1 .. Len(t) : s[i] = t[i]
  BY <1>1, <1>2, AppendProperties
<1> HIDE DEF s
<1>5. Len(s) \in Nat
  BY <1>1, <1>4
<1>6. ASSUME NEW i \in 1 .. Len(s) PROVE s[i].proc = IF i = Len(s) THEN q ELSE p
  <2>1. CASE i = Len(s)
    BY <1>2, <1>4, <2>1
  <2>2. CASE i # Len(s)
    <3>1. i \in 1 .. Len(t)
      BY <1>1, <1>4, <2>2
    <3> QED
      BY <1>1, <1>4, <2>2, <3>1
  <2> QED
    BY <2>1, <2>2
<1>7. \A i \in 1 .. Len(t) : i \in 1 .. Len(s) /\ s[i] = t[i]
  BY <1>1, <1>4
<1>8. ASSUME NEW r \in Live PROVE \E i \in 1 .. Len(s) : s[i] = Part(p, r)
  BY <1>3, <1>7
<1> QED
  BY <1>5, <1>6, <1>8 DEF s, t, x

LEMMA CellsBegin ==
    ASSUME CommandInv, Procedures
    PROVE  CellsBegun
<1>1. board \in Boards
  BY DEF CommandInv, CallsInv
<1>2. Begun(stage, stage')
  BY Beginning
<1>3. ASSUME NEW p \in OdtProcs, NEW q \in {"clear", "odt_off"},
             calls' = Append(ForRanks(p), Part(q, 0))
      PROVE  /\ Len(calls') \in Nat
             /\ \A i \in 1 .. Len(calls') : calls'[i].proc = IF i = Len(calls') THEN q ELSE p
             /\ \A r \in Live : \E i \in 1 .. Len(calls') : calls'[i] = Part(p, r)
  BY <1>1, <1>3, AppendedIs
<1>4. CASE load_patterns \/ lfifo_patterns
  <2>1. /\ calls' = Append(ForRanks("load_patterns"), Part("odt_off", 0))
        /\ stage' \in {"patterns", "lfifo"} /\ "load_patterns" \in OdtProcs
    BY <1>4 DEF load_patterns, lfifo_patterns, Call, OdtProcs
  <2>2. /\ \A i \in 1 .. Len(calls') :
              calls'[i].proc = IF i = Len(calls') THEN "odt_off" ELSE "load_patterns"
        /\ \A r \in Live : \E i \in 1 .. Len(calls') : calls'[i] = Part("load_patterns", r)
    BY <1>3, <2>1
  <2> QED
    BY <2>1, <2>2 DEF CellsBegun
<1>5. CASE read_test_patterns \/ read_test \/ lfifo_read_test
  <2>1. PICK p \in ReadProcs : calls' = Append(ForRanks(p), Part("clear", 0))
    BY <1>5 DEF read_test_patterns, read_test, lfifo_read_test, Call, ReadProcs
  <2>2. stage \in ReadStages /\ stage' \in ReadStages
    BY <1>5 DEF read_test_patterns, read_test, lfifo_read_test, Call, ReadStages
  <2>3. p \in OdtProcs
    BY DEF OdtProcs
  <2>4. \A i \in 1 .. Len(calls') : calls'[i].proc = IF i = Len(calls') THEN "clear" ELSE p
    BY <1>3, <2>1, <2>3
  <2> QED
    BY <2>2, <2>4 DEF CellsBegun
<1>6. CASE \E p \in {"write_test", "write_test_dm"} : write_test(p)
  <2>1. PICK p \in WriteProcs : calls' = Append(ForRanks(p), Part("odt_off", 0))
    BY <1>6 DEF write_test, Call, WriteProcs
  <2>2. stage' = "writes" /\ p \in OdtProcs
    BY <1>6 DEF write_test, Call, WriteProcs, OdtProcs
  <2>3. \A i \in 1 .. Len(calls') : calls'[i].proc = IF i = Len(calls') THEN "odt_off" ELSE p
    BY <1>3, <2>1, <2>2
  <2> QED
    BY <2>2, <2>3 DEF CellsBegun
<1>7. CASE rw_mgr_mem_initialize \/ mem_config \/ mem_precharge_and_activate \/ rw_mgr_mem_handoff
  <2>1. stage' \in {"initialized", "configured", "calibrated", "done"}
    BY <1>7 DEF rw_mgr_mem_initialize, mem_config, mem_precharge_and_activate,
                rw_mgr_mem_handoff, Call
  <2>2. stage' \notin ReadStages \cup {"writes"} /\ stage' \notin InUseStages
    BY <2>1 DEF ReadStages, InUseStages
  <2>3. ASSUME NEW i \in 1 .. Len(calls')
        PROVE  calls'[i].proc \in {"reset", "initialize", "activate", "handoff"}
    <3>1. Len(calls') \in Nat
      BY Beginning
    <3>2. CASE calls'[1] = Part("reset", 0) /\ \A j \in 2 .. Len(calls') : calls'[j].proc = "initialize"
      <4>1. i = 1 \/ i \in 2 .. Len(calls')
        BY <3>1
      <4> QED
        BY <3>2, <4>1 DEF Part
    <3>3. CASE \A j \in 1 .. Len(calls') : calls'[j].proc = "activate"
      BY <3>3
    <3>4. CASE \A j \in 1 .. Len(calls') : calls'[j].proc = "handoff"
      BY <3>4
    <3> QED
      BY <1>2, <2>2, <3>2, <3>3, <3>4 DEF Begun
  <2> QED
    BY <2>2, <2>3 DEF CellsBegun
<1> QED
  BY <1>4, <1>5, <1>6, <1>7 DEF Procedures

(* What a run of the CPU's makes of the calls that remain.                 *)
LEMMA TurnWrite ==
    ASSUME CommandInv, StageInv, TurnInv, Write
    PROVE  TurnInv'
<1>1. /\ ~running /\ stage' = stage /\ board \in Boards
  BY WriteStays
<1>2. PICK c, s : Moves(c, s)
  BY Moving
<1>3. PICK d \in {0, 1} :
        /\ Len(calls') = Len(calls) - d /\ Len(calls) \in Nat \ {0}
        /\ \A i \in 1 .. Len(calls') : calls'[i] = calls[i + d] /\ i + d \in 1 .. Len(calls)
  BY <1>2, Remain
<1>4. ASSUME NEW i \in 1 .. Len(calls')
      PROVE  /\ calls'[i].proc \in WriteProcs => stage = "writes"
             /\ calls'[i].proc \in ReadProcs \cup {"load_patterns", "clear"} => stage \in ReadStages
             /\ calls'[i].proc = "load_patterns" =>
                   \A j \in 1 .. i : calls'[j].proc = "load_patterns"
  <2>1. calls'[i] = calls[i + d] /\ i + d \in 1 .. Len(calls)
    BY <1>3
  <2>2. ASSUME calls'[i].proc = "load_patterns", NEW j \in 1 .. i
        PROVE  calls'[j].proc = "load_patterns"
    <3>1. j \in 1 .. Len(calls') /\ j + d \in 1 .. i + d
      BY <1>3
    <3>2. calls'[j] = calls[j + d]
      BY <1>3, <3>1
    <3> QED
      BY <2>1, <2>2, <3>1, <3>2 DEF TurnInv
  <2> QED
    BY <2>1, <2>2 DEF TurnInv
<1>5. ASSUME running'
      PROVE  /\ label' \in WriteTests => stage = "writes"
             /\ label' \in Bursts \ WriteTests => stage \in ReadStages
             /\ label' # GUARANTEED_WRITE =>
                   \A i \in 1 .. Len(calls') : calls'[i].proc # "load_patterns"
  <2>1. PICK c1, s1 : Starts(c1, s1, label')
    BY <1>5, Starting
  <2>2. /\ c1 \in Parts /\ c1 = calls[1] /\ s1 = Writes(c1) /\ at \in 1 .. Len(s1)
        /\ s1[at].op = "run" /\ s1[at].val = label' /\ May(c1.proc, label')
    BY <2>1 DEF Starts
  <2>3. /\ c1.proc = "load_patterns" => label' = GUARANTEED_WRITE
        /\ c1.proc = "read_patterns" => label' = GUARANTEED_READ
        /\ c1.proc \in {"read_test", "read_all"} => label' = READ_B2B
        /\ c1.proc \in {"write_test", "write_test_dm"} => label' \in WriteTests
        /\ c1.proc = "clear" => label' = CLEAR_DQS_ENABLE
    BY <1>1, <2>2, BurstRuns
  <2>4. 1 \in 1 .. Len(calls)
    BY <1>3
  <2>5. label' \in Bursts => c1.proc \in OdtProcs \cup {"clear"}
    <3>1. label' \in Bursts =>
             /\ label' \notin Holds \cup {IDLE_LOOP1} /\ label' \notin Modes \cup Idles
             /\ label' \notin Rows /\ label' \notin HandRuns \ {ZQCL}
      <4>1. label' \in Bursts => label' \in {33, 34, 53, 54, 24, 73, 76, 89}
        BY RunLabels
      <4>2. Holds \cup {IDLE_LOOP1} \subseteq {111, 116, 122, 123} /\ Idles = {122, 123}
        BY RunLabels DEF IDLE_LOOP1
      <4>3. Modes = 2 .. 12 /\ Rows = {13, 18} /\ HandRuns \subseteq (2 .. 12) \cup {122, 123, 18}
        BY RunLabels DEF Modes, HandRuns, PRECHARGE_ALL
      <4> QED
        BY <4>1, <4>2, <4>3
    <3> QED
      BY <2>2, <3>1 DEF May
  <2>6. /\ c1.proc \in WriteProcs => stage = "writes"
        /\ c1.proc \in ReadProcs \cup {"load_patterns", "clear"} => stage \in ReadStages
    BY <2>2, <2>4 DEF TurnInv
  <2>7. {GUARANTEED_WRITE, GUARANTEED_READ, READ_B2B, CLEAR_DQS_ENABLE} \cap WriteTests = {}
    BY RunLabels DEF GUARANTEED_WRITE, GUARANTEED_READ, READ_B2B, CLEAR_DQS_ENABLE
  <2>8. WriteTests \subseteq Bursts
    BY DEF Bursts
  <2>9. label' \in WriteTests => stage = "writes"
    BY <2>3, <2>5, <2>6, <2>7, <2>8 DEF OdtProcs, ReadProcs, WriteProcs
  <2>10. label' \in Bursts \ WriteTests => stage \in ReadStages
    BY <2>3, <2>5, <2>6, <2>7, <2>8 DEF OdtProcs, ReadProcs, WriteProcs
  <2>11. ASSUME NEW i \in 1 .. Len(calls'), calls'[i].proc = "load_patterns"
         PROVE  label' = GUARANTEED_WRITE
    <3>1. calls'[i] = calls[i + d] /\ i + d \in 1 .. Len(calls) /\ 1 \in 1 .. i + d
      BY <1>3
    <3>2. calls[1].proc = "load_patterns"
      BY <2>11, <3>1 DEF TurnInv
    <3> QED
      BY <2>2, <2>3, <3>2
  <2> QED
    BY <2>9, <2>10, <2>11
<1> QED
  BY <1>1, <1>4, <1>5 DEF TurnInv

LEMMA TurnStep ==
    ASSUME CommandInv, StageInv, TurnInv, [CNext]_vars
    PROVE  TurnInv'
<1>1. CASE UNCHANGED vars
  <2>1. running' = running /\ label' = label /\ calls' = calls /\ stage' = stage
    BY <1>1, Stays
  <2> QED
    BY <2>1 DEF TurnInv
<1>2. CASE Procedures
  <2>1. ~running' /\ Len(calls') \in Nat
    BY <1>2, Beginning
  <2>2. CellsBegun
    BY <1>2, CellsBegin
  <2> SUFFICES ASSUME NEW i \in 1 .. Len(calls')
               PROVE  /\ calls'[i].proc \in WriteProcs => stage' = "writes"
                      /\ calls'[i].proc \in ReadProcs \cup {"load_patterns", "clear"} =>
                            stage' \in ReadStages
                      /\ calls'[i].proc = "load_patterns" =>
                            \A j \in 1 .. i : calls'[j].proc = "load_patterns"
    BY <2>1 DEF TurnInv
  <2>3. CASE /\ stage' \in {"patterns", "lfifo"}
             /\ \A k \in 1 .. Len(calls') :
                   calls'[k].proc = IF k = Len(calls') THEN "odt_off" ELSE "load_patterns"
    <3>1. i # Len(calls') => \A j \in 1 .. i : j \in 1 .. Len(calls') /\ j # Len(calls')
      BY <2>1
    <3>2. calls'[i].proc = "load_patterns" => i # Len(calls')
      BY <2>3
    <3>3. calls'[i].proc = "load_patterns" => \A j \in 1 .. i : calls'[j].proc = "load_patterns"
      BY <2>3, <3>1, <3>2
    <3>4. calls'[i].proc \in {"odt_off", "load_patterns"} /\ stage' \in ReadStages
      BY <2>3 DEF ReadStages
    <3> QED
      BY <3>3, <3>4 DEF WriteProcs
  <2>4. CASE /\ stage \in ReadStages /\ stage' \in ReadStages
             /\ \A k \in 1 .. Len(calls') : calls'[k].proc \in ReadProcs \cup {"clear"}
    BY <2>4 DEF ReadProcs, WriteProcs
  <2>5. CASE /\ stage' = "writes"
             /\ \A k \in 1 .. Len(calls') : calls'[k].proc \in WriteProcs \cup {"odt_off"}
    BY <2>5 DEF ReadProcs, WriteProcs
  <2>6. CASE \A k \in 1 .. Len(calls') :
                calls'[k].proc \in {"reset", "initialize", "activate", "handoff"}
    BY <2>6 DEF ReadProcs, WriteProcs
  <2> QED
    BY <2>2, <2>3, <2>4, <2>5, <2>6 DEF CellsBegun
<1>3. CASE Clocked
  <2>1. running /\ label' = label /\ calls' = calls /\ stage' = stage
    BY <1>3, Clocking
  <2> QED
    BY <2>1 DEF TurnInv
<1> QED
  BY <1>1, <1>2, <1>3, TurnWrite DEF CNext

(* The last write of the part that loads the patterns of a rank runs the   *)
(* guaranteed write on it.                                                 *)
LEMMA LoadStarts ==
    ASSUME CommandInv, StageInv, Write, NEW r \in Live, NEW c, NEW s, Moves(c, s),
           c = Part("load_patterns", r), at = Len(s)
    PROVE  running' /\ label' = GUARANTEED_WRITE /\ selected' = {r}
<1>1. c.proc = "load_patterns" /\ c.rank = r
  BY DEF Part
<1>2. s = LoadPatternsRank(r)
  BY <1>1 DEF Moves, Writes
<1>3. at = 10 /\ s[at] = RunReg(24)
  BY <1>2, PatternsLayout
<1>4. s[at].op = "run" /\ s[at].val = 24
  BY <1>3, WritesAre
<1>5. running' /\ label' = 24 /\ selected' = selected /\ c = Head(calls)
  BY <1>4 DEF Moves
<1>6. selected = {r}
  <2>1. "load_patterns" \in OdtProcs
    BY DEF OdtProcs
  <2>2. OnRank(c.rank)
    BY <1>1, <1>3, <1>5, <2>1 DEF CommandInv, PinsInv
  <2> QED
    BY <1>1, <2>2 DEF OnRank
<1> QED
  BY <1>5, <1>6 DEF GUARANTEED_WRITE

LEMMA PatternWrite ==
    ASSUME CommandInv, DramInv, StageInv, LandedInv, PatternInv, Write
    PROVE  PatternInv'
<1>1. /\ ~running /\ stage' = stage /\ board \in Boards /\ Live' = Live /\ Live \subseteq Ranks
  BY WriteStays
<1>2. PICK c, s : Moves(c, s)
  BY Moving
<1>3. PICK d \in {0, 1} :
        /\ Len(calls') = Len(calls) - d /\ Len(calls) \in Nat \ {0}
        /\ \A i \in 1 .. Len(calls') : calls'[i] = calls[i + d] /\ i + d \in 1 .. Len(calls)
        /\ d = 1 => at = Len(s)
  BY <1>2, Remain
<1> SUFFICES ASSUME stage \in ReadStages, NEW r \in Live
             PROVE  ToLoad(r)' \/ BeingLoaded(r)' \/ Patterned(dram'[r])
  BY <1>1 DEF PatternInv
<1>4. r \in Ranks
  BY <1>1
<1>5. CASE Patterned(dram[r])
  <2>1. dram[r].flight = {} /\ DOMAIN dram[r] = Fields
    BY <1>1, <1>4 DEF LandedInv, DramInv
  <2>2. dram'[r] = Quieten(dram[r], WriteClocks)
    BY <1>4 DEF Write
  <2>3. LET e == Quieten(dram[r], WriteClocks)
        IN e.flight = {} /\ (dram[r].flight = {} => \A x \in Cells : e.cell[x] = dram[r].cell[x])
    BY <2>1, CellsPaused
  <2>4. \A x \in Cells : dram'[r].cell[x] = dram[r].cell[x]
    BY <2>1, <2>2, <2>3
  <2>5. <<0, 1>> \in Cells /\ <<1, 0>> \in Cells /\ <<1, 1>> \in Cells /\ <<0, 0>> \in Cells
    BY DEF Cells, Banks
  <2> QED
    BY <1>5, <2>4, <2>5 DEF Patterned
<1>6. CASE ToLoad(r)
  <2>1. PICK i \in 1 .. Len(calls) : calls[i] = Part("load_patterns", r)
    BY <1>6 DEF ToLoad
  <2>2. CASE i - d >= 1
    <3>1. i - d \in 1 .. Len(calls') /\ (i - d) + d = i
      BY <1>3, <2>2
    <3>2. calls'[i - d] = calls[i]
      BY <1>3, <3>1
    <3> QED
      BY <2>1, <3>1, <3>2 DEF ToLoad
  <2>3. CASE i - d < 1
    <3>1. i = 1 /\ d = 1
      BY <1>3, <2>3
    <3>2. c = Part("load_patterns", r) /\ at = Len(s)
      BY <1>2, <1>3, <2>1, <3>1 DEF Moves
    <3>3. running' /\ label' = GUARANTEED_WRITE /\ selected' = {r}
      BY <1>2, <3>2, LoadStarts
    <3> QED
      BY <3>3 DEF BeingLoaded
  <2> QED
    BY <1>3, <2>2, <2>3
<1>7. ~BeingLoaded(r)
  BY <1>1 DEF BeingLoaded
<1> QED
  BY <1>5, <1>6, <1>7 DEF PatternInv

LEMMA PatternClock ==
    ASSUME CommandInv, DramInv, BuiltInv, TurnInv, FlyingInv, LandedInv, PatternInv, Clocked
    PROVE  PatternInv'
<1>1. /\ running /\ label' = label /\ calls' = calls /\ stage' = stage /\ selected' = selected
      /\ Live' = Live /\ Live \subseteq Ranks
  BY Clocking
<1> SUFFICES ASSUME stage \in ReadStages, NEW r \in Live
             PROVE  ToLoad(r)' \/ BeingLoaded(r)' \/ Patterned(dram'[r])
  BY <1>1 DEF PatternInv
<1>2. ToLoad(r)' = ToLoad(r) /\ r \in Ranks
  BY <1>1 DEF ToLoad
<1>3. label \notin WriteTests
  <2>1. "writes" \notin ReadStages
    BY DEF ReadStages
  <2> QED
    BY <1>1, <2>1 DEF TurnInv
<1>4. CASE running' /\ selected = {r} /\ label \in WriteTests \cup {GUARANTEED_WRITE}
  BY <1>1, <1>3, <1>4 DEF BeingLoaded
<1>5. CASE /\ dram[r].flight = {} /\ Sent(r).kind # "write"
           /\ selected = {r} /\ label = GUARANTEED_WRITE => Patterned(dram[r])
  <2>1. ToLoad(r) \/ Patterned(dram[r])
    BY <1>5 DEF PatternInv, BeingLoaded
  <2> QED
    BY <1>2, <1>5, <2>1, CalmClock
<1> QED
  BY <1>4, <1>5, Landing

LEMMA PatternStep ==
    ASSUME CommandInv, DramInv, BuiltInv, StageInv, CellInv, [CNext]_vars
    PROVE  PatternInv'
<1>0. TurnInv /\ FlyingInv /\ LandedInv /\ PatternInv
  BY DEF CellInv
<1>1. CASE UNCHANGED vars
  <2>1. /\ running' = running /\ label' = label /\ calls' = calls /\ stage' = stage
        /\ selected' = selected /\ Live' = Live /\ dram' = dram
    BY <1>1, Stays
  <2> QED
    BY <1>0, <2>1 DEF PatternInv, ToLoad, BeingLoaded, Patterned
<1>2. CASE Procedures
  <2>1. ~running /\ calls = <<>> /\ dram' = dram /\ Live' = Live
    BY <1>2, Beginning
  <2>2. CellsBegun
    BY <1>2, CellsBegin
  <2> SUFFICES ASSUME stage' \in ReadStages, NEW r \in Live
               PROVE  ToLoad(r)' \/ Patterned(dram[r])
    BY <2>1 DEF PatternInv
  <2>3. CASE \A q \in Live : \E i \in 1 .. Len(calls') : calls'[i] = Part("load_patterns", q)
    BY <2>3 DEF ToLoad
  <2>4. CASE stage \in ReadStages
    <3>1. ~ToLoad(r) /\ ~BeingLoaded(r)
      BY <2>1 DEF ToLoad, BeingLoaded
    <3> QED
      BY <1>0, <2>4, <3>1 DEF PatternInv
  <2>5. "writes" \notin ReadStages
    BY DEF ReadStages
  <2> QED
    BY <2>2, <2>3, <2>4, <2>5 DEF CellsBegun
<1>3. CASE Write
  BY <1>0, <1>3, PatternWrite
<1>4. CASE Clocked
  BY <1>0, <1>4, PatternClock
<1> QED
  BY <1>1, <1>2, <1>3, <1>4 DEF CNext

LEMMA CellStep ==
    ASSUME MemoryInv, MemoryInv', BuiltInv, StageInv, TunedInv, CellInv, [CNext]_vars
    PROVE  CellInv'
<1>1. CommandInv /\ CommandInv' /\ DramInv
  BY DEF MemoryInv
<1>2. TurnInv /\ FlyingInv /\ LandedInv
  BY DEF CellInv
<1>3. TurnInv'
  BY <1>1, <1>2, TurnStep
<1>4. FlyingInv'
  BY <1>1, <1>2, FlyingStep
<1>5. LandedInv'
  BY <1>1, <1>2, LandedStep
<1>6. PatternInv'
  BY <1>1, PatternStep
<1> QED
  BY <1>3, <1>4, <1>5, <1>6 DEF CellInv

LEMMA CellFirst == CInit => CellInv
<1> SUFFICES ASSUME CInit PROVE CellInv
  OBVIOUS
<1>1. running = FALSE /\ calls = <<>> /\ stage = "start"
  <2>1. Init /\ calls = <<>> /\ stage = "start"
    BY Zenon DEF CInit
  <2> QED
    BY <2>1 DEF Init
<1>2. \A r \in Live : dram[r].flight = {}
  <2> TAKE r \in Live
  <2>1. r \in Ranks
    BY DEF Live
  <2>2. PICK w, m, t0, t1 : dram[r] = PowerUp(w, m, t0, t1)
    <3> DEFINE a == ResetCycles(TinitCntrs[1], TinitCntrs[2], TinitCntrs[3])
               b == ResetCycles(TresetCntrs[1], TresetCntrs[2], TresetCntrs[3])
    <3>1. dram = [q \in Ranks |-> PowerUp(Wlat, q \in board.mirrored, a, b)]
      BY Zenon DEF CInit
    <3> HIDE DEF a, b
    <3>2. dram[r] = PowerUp(Wlat, r \in board.mirrored, a, b)
      BY <2>1, <3>1
    <3> QED
      BY <3>2
  <2> QED
    BY <2>2 DEF PowerUp
<1>3. stage \notin ReadStages
  BY <1>1 DEF ReadStages
<1> QED
  BY <1>1, <1>2, <1>3 DEF CellInv, TurnInv, FlyingInv, LandedInv, PatternInv

(* What is compared where.                                                 *)
LEMMA ComparedWith ==
    /\ \A a \in {46, 66} : Sends(a, "read", 0, 0) /\ Data(a) = "lfsr"
    /\ \A a \in {80, 98} : Sends(a, "read", 0, 1) /\ Data(a) = "A"
    /\ Sends(89, "read", 0, 0) /\ Data(89) = "B"
    /\ Sends(93, "read", 1, 0) /\ Data(93) = "A"
    /\ Sends(102, "read", 1, 1) /\ Data(102) = "B"
<1>1. Sends(46, "read", 0, 0) /\ Sends(66, "read", 0, 0)
  <2>1. Sends(46 + 0, "read", 0, 0) /\ Sends(46 + 20, "read", 0, 0)
    BY RomWriteTest
  <2> QED
    BY <2>1
<1>2. /\ Sends(80, "read", 0, 1) /\ Sends(98, "read", 0, 1)
      /\ Sends(89, "read", 0, 0) /\ Sends(93, "read", 1, 0) /\ Sends(102, "read", 1, 1)
  BY RomReads
<1>3. /\ Data(46) = "lfsr" /\ Data(66) = "lfsr" /\ Data(80) = "A" /\ Data(98) = "A"
      /\ Data(89) = "B" /\ Data(93) = "A" /\ Data(102) = "B"
  BY DEF Data
<1> QED
  BY <1>1, <1>2, <1>3

(* What a read is compared with is in the cell.                            *)
LEMMA CellsFrom ==
    ASSUME MemoryInv, LegalInv, CellInv, running, Compared(ip), NEW r \in selected
    PROVE  dram[r].cell[<<Command.bank, Command.col>>] = Data(ip)
<1>1. /\ label \in Entries /\ ip \in Block(label) /\ board \in Boards /\ CommandInv
  BY DEF MemoryInv, CommandInv, RunInv, Course, CallsInv
<1>2. ip \in {46, 66, 80, 89, 93, 98, 102}
  BY DEF Compared
<1>3. Command.kind = "read"
  BY <1>2, ComparedWith DEF Sends, Command
<1>4. label \in Bursts /\ label \notin Holds \cup Idles
  BY <1>1, <1>3, Kinds DEF Quiet
<1>5. r \in Live /\ r \in Ranks /\ selected = {r}
  <2>1. PICK q \in Live : selected = {q}
    BY <1>1, <1>4 DEF CommandInv, RunInv, Addressee
  <2> QED
    BY <1>1, <2>1, LiveIs
<1>6. Wlat \in 1 .. 25 /\ dram[r].wlat = Wlat
  BY <1>1, <1>5, BoardTimes DEF LegalInv, BuiltInv
<1>7. /\ label = 24 => ip \in 24 .. 32
      /\ label = 73 => ip \in 73 .. 75
      /\ label \in WriteTests =>
            /\ Dm(label) \in {0, 20} /\ label - Dm(label) \in {33, 34}
            /\ ip - Dm(label) \in 33 .. 52
      /\ label \in {76, 89} => ip >= 76
      /\ ip \in Nat /\ label \in Nat
  BY <1>1, BlocksOf DEF GUARANTEED_WRITE, CLEAR_DQS_ENABLE, GUARANTEED_READ, READ_B2B, Addresses
<1>8. label \in WriteTests \/ label \in {24, 73, 76, 89}
  BY <1>4, RunLabels
<1>9. CASE ip \in {46, 66}
  <2>1. label \in WriteTests
    BY <1>7, <1>8, <1>9
  <2>2. ip - Dm(label) = 46 /\ ip # label
    BY <1>7, <1>9, <2>1
  <2>3. Flies(dram[r], WrClock(46), WrBursts)
    BY <2>1, <2>2 DEF CellInv, FlyingInv
  <2>4. WrClock(46) = Wlat + 9
    BY <1>6, <2>2 DEF WrClock
  <2>5. Wlat + 9 \in Nat /\ Wlat + 9 >= dram[r].wlat + 4 /\ dram[r].wlat \in 1 .. 25
    BY <1>6
  <2>6. dram[r].cell[<<0, 0>>] = "lfsr"
    BY <2>3, <2>4, <2>5, FlownWr
  <2>7. Command.bank = 0 /\ Command.col = 0 /\ Data(ip) = "lfsr"
    BY <1>9, ComparedWith DEF Sends, Command
  <2> QED
    BY <2>6, <2>7
<1>10. CASE ip \in {80, 89, 93, 98, 102}
  <2>1. label \notin WriteTests /\ label # 24
    BY <1>7, <1>10
  <2>2. stage \in ReadStages /\ ~ToLoad(r)
    <3>1. /\ label \in Bursts \ WriteTests /\ label # GUARANTEED_WRITE
      BY <1>4, <2>1 DEF GUARANTEED_WRITE
    <3>2. stage \in ReadStages /\ \A i \in 1 .. Len(calls) : calls[i].proc # "load_patterns"
      BY <3>1 DEF CellInv, TurnInv
    <3> QED
      BY <3>2 DEF ToLoad, Part
  <2>3. ~BeingLoaded(r)
    BY <2>1 DEF BeingLoaded, GUARANTEED_WRITE
  <2>4. Patterned(dram[r])
    BY <1>5, <2>2, <2>3 DEF CellInv, PatternInv
  <2>5. /\ ip \in {80, 98} => Command.bank = 0 /\ Command.col = 1 /\ Data(ip) = "A"
        /\ ip = 89 => Command.bank = 0 /\ Command.col = 0 /\ Data(ip) = "B"
        /\ ip = 93 => Command.bank = 1 /\ Command.col = 0 /\ Data(ip) = "A"
        /\ ip = 102 => Command.bank = 1 /\ Command.col = 1 /\ Data(ip) = "B"
    BY <1>10, ComparedWith DEF Sends, Command
  <2> QED
    BY <1>10, <2>4, <2>5 DEF Patterned
<1> QED
  BY <1>2, <1>9, <1>10

LEMMA ReadsFrom == MemoryInv /\ LegalInv /\ CellInv => ReadsWhatWasWritten
BY CellsFrom DEF ReadsWhatWasWritten

LEMMA CellInvStep ==
    MemoryInv /\ MemoryInv' /\ LegalInv /\ CellInv /\ [CNext]_vars => CellInv'
BY CellStep DEF LegalInv

(* What a read is compared with is what the rank holds: on every board, at *)
(* every write latency, the bursts of the patterns and of the write tests  *)
(* bring their data in the clocks in which the memory latches it, and the  *)
(* patterns that a write test spoils are written again before they are     *)
(* read.                                                                   *)
THEOREM ReadsFindWhatWasWritten == CSpec => []ReadsWhatWasWritten
<1>1. CInit => MemoryInv /\ LegalInv /\ CellInv
  BY MemoryInit, LegalInit, CellFirst
<1>2. MemoryInv /\ MemoryInv' /\ LegalInv /\ LoopsLastTheirCycles /\ [CNext]_vars => LegalInv'
  BY LegalStep
<1>3. CSpec => []MemoryInv
  BY <1>1, MemoryStep, PTL DEF CSpec
<1>4. CSpec => []LoopsLastTheirCycles
  BY CommandLoops
<1>5. CSpec => []LegalInv
  BY <1>1, <1>2, <1>3, <1>4, PTL DEF CSpec
<1>6. CSpec => []CellInv
  BY <1>1, <1>3, <1>5, CellInvStep, PTL DEF CSpec
<1> QED
  BY <1>3, <1>5, <1>6, ReadsFrom, PTL

-----------------------------------------------------------------------------
(* The loops start with what was loaded.                                   *)

(* The runs that leave their counters as they find them; those whose       *)
(* loops a run from label a comes to; that a counter is loaded by one of   *)
(* n writes and since then used by such runs at most; and that write i of  *)
(* s finds the counters it runs with so.                                   *)
Reads == {GUARANTEED_READ, READ_B2B}

Counts(a) == IF a \in WriteTests /\ Wlat <= 2 THEN {0, 1, 2} ELSE Needs(a)

Held(s, n, c) ==
    \E j \in 1 .. n :
        /\ s[j].op = "cntr" /\ s[j].reg = c
        /\ \A k \in j + 1 .. n : s[k].op = "run" => s[k].val \in Reads

Served(s, i) == s[i].op = "run" => \A c \in Counts(s[i].val) : Held(s, i - 1, c)

Serves(s) == s \in Seq(Fits) /\ \A i \in 1 .. Len(s) : Served(s, i)

(* Where counter c is half run down in a read.                             *)
Inside(c) ==
    IF label = GUARANTEED_READ
    THEN \/ c = 0 /\ ip \in 76 .. 79
         \/ c = 1 /\ ip \in 84 .. 87
    ELSE \/ c = 0 /\ ip \in 89 .. 108
         \/ c = 1 /\ ip = 97
         \/ c = 2 /\ ip = 107
         \/ c = 3 /\ ip \in 89 .. 109

HeldInv ==
    calls # <<>> =>
        \A c \in Cntrs : Held(Writes(Head(calls)), at - 1, c) =>
            IF running THEN label \in Reads /\ first[c] = reload[c] ELSE cntr[c] = reload[c]

StartInv == running => \A c \in Counts(label) : first[c] = reload[c]

ReadInv ==
    running /\ label \in Reads =>
        \A c \in Cntrs : first[c] = reload[c] => cntr[c] = reload[c] \/ Inside(c)

WholeInv == HeldInv /\ StartInv /\ ReadInv
-----------------------------------------------------------------------------
LEMMA LoadedHeld ==
    ASSUME NEW s, NEW n, NEW c, NEW v, Loaded(s, n, c, v)
    PROVE  Held(s, n, c)
BY WritesAre DEF Loaded, Held

LEMMA HeldAt ==
    ASSUME NEW t, NEW u, NEW d \in Nat, NEW n \in Nat, NEW c, Held(t, n, c),
           \A k \in 1 .. n : u[d + k] = t[k]
    PROVE  Held(u, d + n, c)
<1> DEFINE Keeps(w) == w.op = "run" => w.val \in Reads
<1>1. PICK j \in 1 .. n : /\ t[j].op = "cntr" /\ t[j].reg = c
                          /\ \A k \in j + 1 .. n : Keeps(t[k])
  BY DEF Held
<1>2. ASSUME NEW k \in (d + j) + 1 .. d + n PROVE Keeps(u[k])
  <2>1. /\ k - d \in j + 1 .. n /\ k - d \in 1 .. n /\ k = d + (k - d)
    OBVIOUS
  <2>2. u[k] = t[k - d]
    BY <2>1
  <2>3. Keeps(t[k - d])
    BY <1>1, <2>1
  <2> QED
    BY <2>2, <2>3
<1>3. d + j \in 1 .. d + n /\ u[d + j] = t[j]
  OBVIOUS
<1> QED
  BY <1>1, <1>2, <1>3 DEF Held

LEMMA ServedAt ==
    ASSUME NEW t, NEW u, NEW d \in Nat, NEW i \in Nat \ {0}, Served(t, i),
           \A k \in 1 .. i : u[d + k] = t[k]
    PROVE  Served(u, d + i)
<1>1. u[d + i] = t[i] /\ (d + i) - 1 = d + (i - 1) /\ i - 1 \in Nat
  OBVIOUS
<1>2. \A k \in 1 .. i - 1 : u[d + k] = t[k]
  OBVIOUS
<1>3. \A c : Held(t, i - 1, c) => Held(u, d + (i - 1), c)
  BY <1>1, <1>2, HeldAt
<1> QED
  BY <1>1, <1>3 DEF Served

LEMMA ServesJoin ==
    ASSUME NEW s, NEW t, Serves(s), Serves(t)
    PROVE  Serves(s \o t)
<1> DEFINE u == s \o t
<1>1. s \in Seq(Fits) /\ t \in Seq(Fits)
  BY DEF Serves
<1>2. /\ u \in Seq(Fits) /\ Len(u) = Len(s) + Len(t)
      /\ Len(s) \in Nat /\ Len(t) \in Nat
      /\ \A i \in 1 .. Len(s) : u[i] = s[i]
      /\ \A i \in 1 .. Len(t) : u[Len(s) + i] = t[i]
  BY <1>1, Joined
<1> HIDE DEF u
<1>3. ASSUME NEW i \in 1 .. Len(u) PROVE Served(u, i)
  <2>1. CASE i <= Len(s)
    <3>1. i \in Nat \ {0} /\ i \in 1 .. Len(s) /\ 0 + i = i
      BY <1>2, <2>1
    <3>2. Served(s, i)
      BY <3>1 DEF Serves
    <3>3. \A k \in 1 .. i : u[0 + k] = s[k]
      BY <1>2, <3>1
    <3>4. Served(u, 0 + i)
      BY <3>1, <3>2, <3>3, ServedAt
    <3> QED
      BY <3>1, <3>4
  <2>2. CASE i > Len(s)
    <3>1. /\ i - Len(s) \in 1 .. Len(t) /\ i - Len(s) \in Nat \ {0}
          /\ i = Len(s) + (i - Len(s))
      BY <1>2, <2>2
    <3>2. Served(t, i - Len(s))
      BY <3>1 DEF Serves
    <3>3. \A k \in 1 .. i - Len(s) : u[Len(s) + k] = t[k]
      BY <1>2, <3>1
    <3>4. Served(u, Len(s) + (i - Len(s)))
      BY <1>2, <3>1, <3>2, <3>3, ServedAt
    <3> QED
      BY <3>1, <3>4
  <2> QED
    BY <1>2, <2>1, <2>2
<1> QED
  BY <1>2, <1>3 DEF Serves, u

LEMMA ServesFour ==
    ASSUME NEW s, NEW t, NEW u, NEW v, Serves(s), Serves(t), Serves(u), Serves(v)
    PROVE  Serves(s \o t \o u \o v)
<1>1. Serves(s \o t)
  BY ServesJoin
<1>2. Serves((s \o t) \o u)
  BY <1>1, ServesJoin
<1> QED
  BY <1>2, ServesJoin

(* What each label counts with.                                            *)
LEMMA CountsAre ==
    /\ \A a \in Modes : Counts(a) = {0}
    /\ Counts(ACTIVATE_0_AND_1) = {0, 1} /\ Counts(PRECHARGE_ALL) = {}
    /\ Counts(CLEAR_DQS_ENABLE) = {} /\ Counts(GUARANTEED_WRITE) = {0, 1, 2, 3}
    /\ Counts(GUARANTEED_READ) = {0, 1} /\ Counts(READ_B2B) = {0, 1, 2, 3}
    /\ Counts(INIT_RESET_0_CKE_0) = {0, 1, 2} /\ Counts(INIT_RESET_1_CKE_0) = {0, 1, 2}
    /\ Counts(IDLE_LOOP1) = {1} /\ Counts(IDLE_LOOP2) = {0, 1}
    /\ \A a \in WriteTests : Counts(a) \subseteq (IF Wlat <= 2 THEN {0, 1, 2} ELSE {0, 1, 2, 3})
<1>1. /\ \A a \in Modes : a \notin WriteTests
      /\ \A a \in {ACTIVATE_0_AND_1, PRECHARGE_ALL, CLEAR_DQS_ENABLE, GUARANTEED_WRITE,
                   GUARANTEED_READ, READ_B2B, INIT_RESET_0_CKE_0, INIT_RESET_1_CKE_0,
                   IDLE_LOOP1, IDLE_LOOP2} : a \notin WriteTests
  BY DEF Modes, WriteTests, WRITE_WL_1, WRITE, DmBlock, ACTIVATE_0_AND_1, PRECHARGE_ALL,
     CLEAR_DQS_ENABLE, GUARANTEED_WRITE, GUARANTEED_READ, READ_B2B, INIT_RESET_0_CKE_0,
     INIT_RESET_1_CKE_0, IDLE_LOOP1, IDLE_LOOP2
<1>2. \A a : Needs(a) \subseteq {0, 1, 2, 3}
  BY DEF Needs, Cntrs
<1> QED
  BY <1>1, <1>2, NeedsAre DEF Counts

(* The parts that load a mode register, and the delays.                    *)
LEMMA ServesOne ==
    /\ \A r \in Nat : Serves(<<SelectOff(r)>>)
    /\ Serves(<<RunReg(PRECHARGE_ALL)>>)
<1>1. ASSUME NEW r \in Nat PROVE Serves(<<SelectOff(r)>>)
  <2> DEFINE s == <<SelectOff(r)>>
  <2>1. s \in Seq(Fits) /\ Len(s) = 1 /\ s[1].op # "run"
    BY FitsAre, WritesAre
  <2> HIDE DEF s
  <2>2. \A i \in 1 .. Len(s) : i = 1
    BY <2>1
  <2> QED
    BY <2>1, <2>2 DEF Serves, Served, s
<1>2. Serves(<<RunReg(PRECHARGE_ALL)>>)
  <2> DEFINE s == <<RunReg(PRECHARGE_ALL)>>
  <2>1. s \in Seq(Fits) /\ Len(s) = 1 /\ s[1].val = PRECHARGE_ALL
    BY FitsAre, WritesAre DEF Entries, Rows
  <2> HIDE DEF s
  <2>2. \A i \in 1 .. Len(s) : i = 1
    BY <2>1
  <2> QED
    BY <2>1, <2>2, CountsAre DEF Serves, Served, s
<1> QED
  BY <1>1, <1>2

LEMMA ServesMode ==
    ASSUME NEW a \in Modes
    PROVE  Serves(LoadMode(a))
<1> DEFINE s == LoadMode(a)
<1>1. /\ Len(s) = 3 /\ s \in Seq(Fits)
      /\ s[1] = LoadCntrReg(0, MaxCntr) /\ s[2] = LoadJumpReg(0, 1) /\ s[3] = RunReg(a)
  BY ModeLayout
<1> HIDE DEF s
<1>2. Held(s, 2, 0)
  <2>1. 1 \in 1 .. 2 /\ \A k \in 1 + 1 .. 2 : k = 2
    OBVIOUS
  <2> QED
    BY <1>1, <2>1, WritesAre DEF Held
<1>3. Served(s, 3)
  BY <1>1, <1>2, WritesAre, CountsAre DEF Served
<1>4. \A i \in 1 .. 3 : s[i].op = "run" => i = 3
  BY <1>1, WritesAre
<1>5. \A i \in 1 .. 3 : Served(s, i)
  BY <1>3, <1>4 DEF Served
<1> QED
  BY <1>1, <1>5 DEF Serves, s

LEMMA ServesDelay ==
    /\ Serves(delay_for_n_mem_clocks(4))
    /\ Serves(delay_for_n_mem_clocks(512))
<1> DEFINE s == delay_for_n_mem_clocks(4)
           t == delay_for_n_mem_clocks(512)
<1>1. /\ Len(s) = 3 /\ s \in Seq(Fits)
      /\ s[1] = LoadCntrReg(1, 3) /\ s[2] = LoadJumpReg(1, 123) /\ s[3] = RunReg(123)
      /\ Len(t) = 5 /\ t \in Seq(Fits)
      /\ t[1] = LoadCntrReg(0, 255) /\ t[2] = LoadCntrReg(1, 1)
      /\ t[3] = LoadJumpReg(0, 122) /\ t[4] = LoadJumpReg(1, 122) /\ t[5] = RunReg(122)
  BY DelayLayout
<1> HIDE DEF s, t
<1>2. /\ 1 \in 1 .. 2 /\ \A k \in 1 + 1 .. 2 : k = 2
      /\ 1 \in 1 .. 4 /\ \A k \in 1 + 1 .. 4 : k \in {2, 3, 4}
      /\ 2 \in 1 .. 4 /\ \A k \in 2 + 1 .. 4 : k \in {3, 4}
  OBVIOUS
<1>3. Held(s, 2, 1)
  BY <1>1, <1>2, WritesAre DEF Held
<1>4. Held(t, 4, 0)
  <2>1. \A k \in {2, 3, 4} : t[k].op # "run"
    BY <1>1, WritesAre
  <2> QED
    BY <1>1, <1>2, <2>1, WritesAre DEF Held
<1>5. Held(t, 4, 1)
  <2>1. \A k \in {3, 4} : t[k].op # "run"
    BY <1>1, WritesAre
  <2> QED
    BY <1>1, <1>2, <2>1, WritesAre DEF Held
<1>6. Counts(123) = {1} /\ Counts(122) = {0, 1}
  BY CountsAre DEF IDLE_LOOP1, IDLE_LOOP2
<1>7. Served(s, 3) /\ Served(t, 5)
  BY <1>1, <1>3, <1>4, <1>5, <1>6, WritesAre DEF Served
<1>8. /\ \A i \in 1 .. 3 : s[i].op = "run" => i = 3
      /\ \A i \in 1 .. 5 : t[i].op = "run" => i = 5
  BY <1>1, WritesAre
<1>9. (\A i \in 1 .. 3 : Served(s, i)) /\ (\A i \in 1 .. 5 : Served(t, i))
  BY <1>7, <1>8 DEF Served
<1>10. Serves(s)
  BY <1>1, <1>9 DEF Serves
<1>11. Serves(t)
  BY <1>1, <1>9 DEF Serves
<1> QED
  BY <1>10, <1>11 DEF s, t

LEMMA ServesModes ==
    \A a \in 2 .. 12 : Serves(LoadMode(a)) /\ Serves(ModeThenDelay(a))
<1> TAKE a \in 2 .. 12
<1>1. Serves(LoadMode(a))
  BY ServesMode DEF Modes
<1> QED
  BY <1>1, ServesDelay, ServesJoin DEF ModeThenDelay

LEMMA ServesInitialize ==
    ASSUME NEW r \in Nat
    PROVE  Serves(InitializeRank(r))
<1> DEFINE a == ModeThenDelay(10) \o ModeThenDelay(11) \o ModeThenDelay(9) \o LoadMode(8)
           b == ModeThenDelay(4) \o ModeThenDelay(5) \o LoadMode(3) \o LoadMode(2)
           m == IF r \in board.mirrored THEN a ELSE b
           t == m \o LoadMode(6) \o delay_for_n_mem_clocks(512)
<1>1. Serves(a) /\ Serves(b)
  BY ServesModes, ServesFour
<1>2. Serves(m)
  <2> HIDE DEF a, b
  <2> QED
    BY <1>1
<1>3. Serves(LoadMode(6)) /\ Serves(delay_for_n_mem_clocks(512)) /\ Serves(<<SelectOff(r)>>)
  BY ServesModes, ServesDelay, ServesOne
<1> HIDE DEF m
<1>4. Serves(m \o LoadMode(6))
  BY <1>2, <1>3, ServesJoin
<1>5. Serves(t)
  BY <1>3, <1>4, ServesJoin
<1>6. InitializeRank(r) = <<SelectOff(r)>> \o t
  BY Zenon DEF InitializeRank, m
<1> HIDE DEF t
<1> QED
  BY <1>3, <1>5, <1>6, ServesJoin

LEMMA ServesHandOff ==
    ASSUME NEW r \in Nat
    PROVE  Serves(HandOffRank(r))
<1> DEFINE a == ModeThenDelay(10) \o ModeThenDelay(11) \o ModeThenDelay(9) \o LoadMode(12)
           b == ModeThenDelay(4) \o ModeThenDelay(5) \o ModeThenDelay(3) \o LoadMode(7)
           m == IF r \in board.mirrored THEN a ELSE b
           p == <<RunReg(PRECHARGE_ALL)>>
           t == p \o m
<1>1. Serves(a) /\ Serves(b)
  BY ServesModes, ServesFour
<1>2. Serves(m)
  <2> HIDE DEF a, b
  <2> QED
    BY <1>1
<1>3. Serves(p) /\ Serves(<<SelectOff(r)>>)
  BY ServesOne
<1> HIDE DEF m, p
<1>4. Serves(t)
  BY <1>2, <1>3, ServesJoin
<1>5. HandOffRank(r) = <<SelectOff(r)>> \o t
  BY Zenon DEF HandOffRank, m, p
<1> HIDE DEF t
<1> QED
  BY <1>3, <1>4, <1>5, ServesJoin

(* The reads: the runs are all alike, after the loads.                     *)
LEMMA HeldByReads ==
    ASSUME NEW s, NEW n \in Nat, NEW i \in 1 .. n, NEW c, NEW v, NEW j \in 1 .. i - 1,
           s[j] = LoadCntrReg(c, v),
           \A k \in 1 .. n : s[k].op = "run" => s[k].val \in Reads
    PROVE  Held(s, i - 1, c)
<1>1. \A k \in j + 1 .. i - 1 : k \in 1 .. n
  OBVIOUS
<1> QED
  BY <1>1, WritesAre DEF Held

LEMMA ServedReads ==
    ASSUME board \in Boards, NEW c \in Parts, c.proc \in ReadProcs,
           NEW i \in 1 .. Len(Writes(c))
    PROVE  Served(Writes(c), i)
<1>1. c.rank \in Nat
  BY DEF Parts
<1>2. CASE c.proc = "read_patterns"
  <2> DEFINE s == ReadPatternsRank(c.rank)
             n == Len(s)
  <2>1. /\ \A k \in 1 .. n : s[k].op = "run" => s[k].val = GUARANTEED_READ /\ k > 5
        /\ s[2] = LoadCntrReg(0, PatternReads) /\ s[4] = LoadCntrReg(1, PatternReads)
    BY <1>1, ReadPatternsIs
  <2>2. Writes(c) = s
    BY <1>2 DEF Writes
  <2>3. n \in Nat /\ i \in 1 .. n
    BY <2>2, PartIs
  <2> HIDE DEF s, n
  <2> SUFFICES ASSUME s[i].op = "run" PROVE \A x \in Counts(s[i].val) : Held(s, i - 1, x)
    BY <2>2 DEF Served
  <2>4. i > 5 /\ s[i].val = GUARANTEED_READ
    BY <2>1, <2>3
  <2>5. \A k \in 1 .. n : s[k].op = "run" => s[k].val \in Reads
    BY <2>1 DEF Reads
  <2>6. 2 \in 1 .. i - 1 /\ 4 \in 1 .. i - 1
    BY <2>3, <2>4
  <2>7. Held(s, i - 1, 0)
    BY <2>1, <2>3, <2>5, <2>6, HeldByReads
  <2>8. Held(s, i - 1, 1)
    BY <2>1, <2>3, <2>5, <2>6, HeldByReads
  <2> QED
    BY <2>4, <2>7, <2>8, CountsAre
<1>3. CASE c.proc # "read_patterns"
  <2>1. PICK all \in BOOLEAN : Writes(c) = ReadTestRank(c.rank, all)
    <3>1. c.proc \in {"read_test", "read_all"}
      BY <1>3 DEF ReadProcs
    <3>2. c.proc = "read_test" => Writes(c) = ReadTestRank(c.rank, FALSE)
      BY DEF Writes
    <3>3. c.proc = "read_all" => Writes(c) = ReadTestRank(c.rank, TRUE)
      BY DEF Writes
    <3> QED
      BY <3>1, <3>2, <3>3
  <2> DEFINE s == ReadTestRank(c.rank, all)
             n == Len(s)
  <2>2. /\ \A k \in 1 .. n : s[k].op = "run" => s[k].val = READ_B2B /\ k > 9
        /\ s[2] = LoadCntrReg(1, 16) /\ s[4] = LoadCntrReg(2, 16)
        /\ \E u, g : s[6] = LoadCntrReg(0, u) /\ s[8] = LoadCntrReg(3, g)
    BY <1>1, ReadTestIs
  <2>3. Writes(c) = s
    BY <2>1
  <2>4. n \in Nat /\ i \in 1 .. n
    BY <2>3, PartIs
  <2> HIDE DEF s, n
  <2> SUFFICES ASSUME s[i].op = "run" PROVE \A x \in Counts(s[i].val) : Held(s, i - 1, x)
    BY <2>3 DEF Served
  <2>5. i > 9 /\ s[i].val = READ_B2B
    BY <2>2, <2>4
  <2>6. \A k \in 1 .. n : s[k].op = "run" => s[k].val \in Reads
    BY <2>2 DEF Reads
  <2>7. 2 \in 1 .. i - 1 /\ 4 \in 1 .. i - 1 /\ 6 \in 1 .. i - 1 /\ 8 \in 1 .. i - 1
    BY <2>4, <2>5
  <2>8. Held(s, i - 1, 1) /\ Held(s, i - 1, 2)
    BY <2>2, <2>4, <2>6, <2>7, HeldByReads
  <2>9. Held(s, i - 1, 0) /\ Held(s, i - 1, 3)
    BY <2>2, <2>4, <2>6, <2>7, HeldByReads
  <2> QED
    BY <2>5, <2>8, <2>9, CountsAre
<1> QED
  BY <1>2, <1>3

(* The reset.                                                              *)
LEMMA ServedReset ==
    ASSUME NEW i \in 1 .. 19
    PROVE  Served(ResetMemory, i)
<1> DEFINE s == ResetMemory
<1>1. ResetExact(s)
  BY ResetIs
<1> HIDE DEF s
<1>2. /\ s[i].op = "run" => i \in {8, 16, 19}
      /\ s[8] = RunReg(INIT_RESET_0_CKE_0) /\ s[16] = RunReg(INIT_RESET_1_CKE_0)
      /\ s[19] = RunReg(IDLE_LOOP1)
  BY <1>1 DEF ResetExact
<1>3. /\ \A c \in 0 .. 2 : Held(s, 7, c) /\ Held(s, 15, c)
      /\ Held(s, 18, 1)
  BY <1>1, LoadedHeld DEF ResetExact, HoldExact
<1>4. \A c \in {0, 1, 2} : c \in 0 .. 2
  OBVIOUS
<1>5. Served(s, 8) /\ Served(s, 16) /\ Served(s, 19)
  BY <1>2, <1>3, <1>4, WritesAre, CountsAre DEF Served
<1>6. Served(s, i)
  BY <1>2, <1>5 DEF Served
<1> QED
  BY <1>6 DEF s

LEMMA PartServed ==
    ASSUME board \in Boards, NEW c \in Parts, NEW i \in 1 .. Len(Writes(c))
    PROVE  Served(Writes(c), i)
<1> DEFINE s == Writes(c)
           a == s[i].val
<1>1. c.proc \in Procs /\ c.rank \in Nat
  BY DEF Parts
<1>2. CASE c.proc = "reset"
  <2>1. s = ResetMemory
    BY <1>2 DEF Writes
  <2>2. Len(ResetMemory) = 19
    BY ResetIs DEF ResetExact
  <2> QED
    BY <2>1, <2>2, ServedReset
<1>3. CASE c.proc = "initialize"
  <2>1. s = InitializeRank(c.rank)
    BY <1>3 DEF Writes
  <2>2. Serves(s)
    BY <1>1, <2>1, ServesInitialize
  <2> QED
    BY <2>2 DEF Serves
<1>4. CASE c.proc = "handoff"
  <2>1. s = HandOffRank(c.rank)
    BY <1>4 DEF Writes
  <2>2. Serves(s)
    BY <1>1, <2>1, ServesHandOff
  <2> QED
    BY <2>2 DEF Serves
<1>5. CASE c.proc \in ReadProcs
  BY <1>5, ServedReads
<1>6. ASSUME c.proc \in {"activate", "load_patterns", "write_test", "write_test_dm", "clear", "odt_off"},
             s[i].op = "run"
      PROVE  \A x \in Counts(a) : Held(s, i - 1, x)
  <2>1. Exact(s, i) /\ May(c.proc, a)
    BY <1>6, PartExact
  <2>2. a \in {ACTIVATE_0_AND_1, PRECHARGE_ALL, GUARANTEED_WRITE, CLEAR_DQS_ENABLE} \cup WriteTests
    <3>1. c.proc = "activate" => a \in Rows
      BY <2>1 DEF May, OdtProcs, ReadProcs
    <3>2. /\ c.proc = "load_patterns" => a = GUARANTEED_WRITE
          /\ c.proc \in {"write_test", "write_test_dm"} => a \in WriteTests
          /\ c.proc = "clear" => a = CLEAR_DQS_ENABLE
          /\ c.proc # "odt_off"
      BY <1>6, BurstRuns
    <3> QED
      BY <1>6, <3>1, <3>2 DEF Rows
  <2> DEFINE n == i - 1
  <2> HIDE DEF s, a, n
  <2>3. ASSUME a = ACTIVATE_0_AND_1 PROVE Held(s, n, 0) /\ Held(s, n, 1)
    <3>1. ActivateExact(s, n)
      BY <1>6, <2>1, <2>3 DEF Exact, a, n
    <3> QED
      BY <3>1, LoadedHeld DEF ActivateExact
  <2>4. ASSUME a = GUARANTEED_WRITE PROVE \A x \in {0, 1, 2, 3} : Held(s, n, x)
    <3>1. PatternExact(s, n)
      BY <1>6, <2>1, <2>4 DEF Exact, a, n
    <3> QED
      BY <3>1, LoadedHeld DEF PatternExact
  <2>5. ASSUME a \in WriteTests
        PROVE  \A x \in (IF Wlat <= 2 THEN {0, 1, 2} ELSE {0, 1, 2, 3}) : Held(s, n, x)
    <3>1. WriteExact(s, n, a)
      BY <1>6, <2>1, <2>5 DEF Exact, a, n
    <3> QED
      BY <3>1, LoadedHeld DEF WriteExact
  <2>6. CASE a \in WriteTests
    BY <2>5, <2>6, CountsAre DEF n
  <2>7. CASE a \notin WriteTests
    BY <2>2, <2>3, <2>4, <2>7, CountsAre DEF n
  <2> QED
    BY <2>6, <2>7
<1> QED
  BY <1>1, <1>2, <1>3, <1>4, <1>5, <1>6 DEF Served, Procs, OffProcs, OdtProcs

(* A write does to the counters what it says.                              *)
LEMMA WriteCounts ==
    ASSUME EngineTypeOK, NEW w \in Fits, Effect(w)
    PROVE  /\ w.op = "cntr" =>
                 /\ cntr'[w.reg] = reload'[w.reg]
                 /\ \A c \in Cntrs \ {w.reg} : cntr'[c] = cntr[c] /\ reload'[c] = reload[c]
           /\ w.op # "cntr" => cntr' = cntr /\ reload' = reload
<1>1. CASE w.op = "cntr"
  <2>1. LoadCntr(w.reg, w.val) /\ w.reg \in Cntrs
    BY <1>1 DEF Effect, Fits, Body, Selects, LoadCntrReg, LoadJumpReg, RunReg, PhyReg
  <2> QED
    BY <1>1, <2>1 DEF LoadCntr, EngineTypeOK
<1>2. CASE w.op # "cntr"
  BY <1>2 DEF Effect, LoadJump, Run, Select, engineVars
<1> QED
  BY <1>1, <1>2

LEMMA HeldBefore ==
    ASSUME NEW s, NEW i \in Nat \ {0}, NEW c, Held(s, i, c), ~(s[i].op = "cntr" /\ s[i].reg = c)
    PROVE  Held(s, i - 1, c) /\ (s[i].op = "run" => s[i].val \in Reads)
<1>1. PICK j \in 1 .. i : /\ s[j].op = "cntr" /\ s[j].reg = c
                          /\ \A k \in j + 1 .. i : s[k].op = "run" => s[k].val \in Reads
  BY DEF Held
<1>2. j \in 1 .. i - 1
  BY <1>1
<1>3. i \in j + 1 .. i /\ \A k \in j + 1 .. i - 1 : k \in j + 1 .. i
  BY <1>2
<1> QED
  BY <1>1, <1>2, <1>3 DEF Held

LEMMA WholeWrite ==
    ASSUME CommandInv, WholeInv, Write
    PROVE  WholeInv'
<1>1. PICK c, s : Moves(c, s)
  BY Moving
<1>2. PICK d \in {0, 1} :
              /\ Len(calls') = Len(calls) - d /\ Len(calls) \in Nat \ {0}
              /\ \A i \in 1 .. Len(calls') : calls'[i] = calls[i + d] /\ i + d \in 1 .. Len(calls)
              /\ IF d = 0 THEN /\ at < Len(s) /\ at' = at + 1 /\ calls' = calls
                               /\ Writes(Head(calls))' = s
                          ELSE at = Len(s) /\ at' = 1
  BY <1>1, Remain
<1>3. /\ c \in Parts /\ s = Writes(Head(calls)) /\ s = Writes(c) /\ calls # <<>>
      /\ at \in 1 .. Len(s) /\ Len(s) \in Nat /\ s[at] \in Fits /\ Effect(s[at])
      /\ s[at].op = "run" => Run(s[at].val) /\ running' /\ label' = s[at].val
      /\ s[at].op # "run" => ~running'
  BY Zenon, <1>1 DEF Moves
<1>4. PICK n, w : n = at /\ w = s[at]
  OBVIOUS
<1>5. /\ board \in Boards /\ ~running /\ EngineTypeOK /\ Wlat' = Wlat
  BY WriteStays
<1>6. /\ n \in Nat \ {0} /\ n \in 1 .. Len(Writes(c)) /\ w \in Fits /\ Effect(w) /\ w = s[n]
  BY <1>3, <1>4
<1>7. /\ w.op = "cntr" =>
            /\ cntr'[w.reg] = reload'[w.reg]
            /\ \A x \in Cntrs \ {w.reg} : cntr'[x] = cntr[x] /\ reload'[x] = reload[x]
      /\ w.op # "cntr" => cntr' = cntr /\ reload' = reload
      /\ w.op = "run" => Run(w.val) /\ running' /\ label' = w.val /\ first' = cntr
      /\ w.op # "run" => ~running'
  <2>1. w.op = "run" => Run(w.val) /\ running' /\ label' = w.val
    BY <1>3, <1>4
  <2>2. w.op # "run" => ~running'
    BY <1>3, <1>4
  <2> QED
    BY <1>5, <1>6, <2>1, <2>2, WriteCounts DEF Run
<1>8. \A x \in Cntrs : Held(s, n - 1, x) => cntr[x] = reload[x]
  BY <1>3, <1>4, <1>5 DEF WholeInv, HeldInv
<1>9. HeldInv'
  <2> SUFFICES ASSUME (calls # <<>>)', NEW x \in Cntrs, Held(Writes(Head(calls))', at' - 1, x)
               PROVE  IF running' THEN label' \in Reads /\ first'[x] = reload'[x]
                                  ELSE cntr'[x] = reload'[x]
    BY DEF HeldInv, Reads, GUARANTEED_READ, READ_B2B, Cntrs
  <2>1. d = 0
    <3>1. SUFFICES ASSUME d = 1 PROVE FALSE
      BY <1>2
    <3>2. at' - 1 = 0
      BY <1>2, <3>1
    <3> QED
      BY <3>2 DEF Held
  <2>2. Held(s, n, x)
    <3>1. at' - 1 = n /\ Writes(Head(calls))' = s
      BY <1>2, <1>4, <1>6, <2>1
    <3> QED
      BY <3>1
  <2>3. CASE w.op = "cntr" /\ w.reg = x
    BY <1>7, <2>3
  <2>4. CASE ~(w.op = "cntr" /\ w.reg = x)
    <3>1. Held(s, n - 1, x) /\ (w.op = "run" => w.val \in Reads)
      BY <1>6, <2>2, <2>4, HeldBefore
    <3>2. cntr[x] = reload[x]
      BY <1>8, <3>1
    <3> QED
      BY <1>7, <2>4, <3>1, <3>2
  <2> QED
    BY <2>3, <2>4
<1>10. StartInv'
  <2> SUFFICES ASSUME running', NEW x, x \in Counts(label)' PROVE first'[x] = reload'[x]
    BY DEF StartInv
  <2>1. w.op = "run" /\ label' = w.val /\ first' = cntr /\ reload' = reload
    BY <1>7
  <2>2. x \in Counts(w.val)
    <3>1. Counts(label)' = (IF label' \in WriteTests /\ Wlat <= 2 THEN {0, 1, 2} ELSE Needs(label'))
      BY <1>5 DEF Counts, Needs, JumpsOn, Cntrs, WriteTests, WRITE_WL_1, WRITE, DmBlock
    <3> QED
      BY <2>1, <3>1 DEF Counts
  <2>3. Served(s, n)
    BY <1>3, <1>5, <1>6, PartServed
  <2>4. Held(s, n - 1, x)
    BY <1>6, <2>1, <2>2, <2>3 DEF Served
  <2>5. x \in Cntrs
    BY <2>2 DEF Counts, Needs, Cntrs
  <2> QED
    BY <1>8, <2>1, <2>4, <2>5
<1>11. ReadInv'
  BY <1>7 DEF ReadInv, Cntrs
<1> QED
  BY <1>9, <1>10, <1>11 DEF WholeInv

(* In a read a counter is where the loops that it counts have it.          *)
LEMMA ReadClock ==
    ASSUME CommandInv, TunedInv, ReadInv, Clocked
    PROVE  ReadInv'
<1>1. /\ label' = label /\ reload' = reload /\ first' = first
      /\ running /\ Play /\ EngineTypeOK /\ label \in Entries /\ ip \in Block(label)
  BY Clocking
<1> SUFFICES ASSUME running', label \in Reads, NEW c \in Cntrs, first[c] = reload[c]
             PROVE  cntr'[c] = reload[c] \/ Inside(c)'
  BY <1>1 DEF ReadInv, Reads, GUARANTEED_READ, READ_B2B, Cntrs
<1>2. cntr[c] = reload[c] \/ Inside(c)
  BY <1>1 DEF ReadInv
<1>3. c \in {0, 1, 2, 3}
  BY DEF Cntrs
<1>4. CASE label = GUARANTEED_READ
  <2>1. GrTuned /\ ip \in 76 .. 88
    BY <1>1, <1>4, BlocksOf DEF TunedInv
  <2>2. ip # 88
    BY <1>1, PlayOn DEF Returns
  <2>3. /\ ip \in (76 .. 78) \cup (80 .. 86) => Onward
        /\ ip = 79 => Round(0, 76)
        /\ ip = 87 => Round(1, 84)
    BY <1>1, <2>1, PlayOn DEF GrTuned, Straight
  <2> DEFINE Amid(x) == \/ c = 0 /\ x \in 76 .. 79
                        \/ c = 1 /\ x \in 84 .. 87
  <2>4. (Inside(c) <=> Amid(ip)) /\ (Inside(c)' <=> Amid(ip'))
    BY <1>1, <1>3, <1>4 DEF Inside, GUARANTEED_READ
  <2>5. CASE ip \in (76 .. 78) \cup (80 .. 86)
    BY <1>2, <2>3, <2>4, <2>5 DEF Onward
  <2>6. CASE ip = 79
    <3>1. Round(0, 76)
      BY <2>3, <2>6
    <3>2. /\ \A d \in Cntrs : d # 0 => cntr'[d] = cntr[d]
          /\ (ip' = 76 \/ (ip' = 80 /\ cntr'[0] = reload[0]))
      BY <2>6, <3>1 DEF Round
    <3>3. CASE c = 0
      BY <2>4, <3>2, <3>3
    <3>4. CASE c # 0
      BY <1>2, <1>3, <2>4, <2>6, <3>2, <3>4
    <3> QED
      BY <3>3, <3>4
  <2>7. CASE ip = 87
    <3>1. Round(1, 84)
      BY <2>3, <2>7
    <3>2. /\ \A d \in Cntrs : d # 1 => cntr'[d] = cntr[d]
          /\ (ip' = 84 \/ (ip' = 88 /\ cntr'[1] = reload[1]))
      BY <2>7, <3>1 DEF Round
    <3>3. CASE c = 1
      BY <2>4, <3>2, <3>3
    <3>4. CASE c # 1
      BY <1>2, <1>3, <2>4, <2>7, <3>2, <3>4
    <3> QED
      BY <3>3, <3>4
  <2> QED
    BY <2>1, <2>2, <2>5, <2>6, <2>7
<1>5. CASE label # GUARANTEED_READ
  <2>1. B2bTuned /\ ip \in 89 .. 110
    BY <1>1, <1>5, BlocksOf DEF TunedInv, Reads
  <2>2. ip # 110
    BY <1>1, PlayOn DEF Returns
  <2>3. /\ ip \in (89 .. 96) \cup (98 .. 106) => Onward
        /\ ip = 97 => Round(1, 97)
        /\ ip = 107 => Round(2, 107)
        /\ ip = 108 => Round(0, 89)
        /\ ip = 109 => Round(3, 89)
    BY <1>1, <2>1, PlayOn DEF B2bTuned, Straight
  <2> DEFINE Amid(x) == \/ c = 0 /\ x \in 89 .. 108
                        \/ c = 1 /\ x = 97
                        \/ c = 2 /\ x = 107
                        \/ c = 3 /\ x \in 89 .. 109
  <2>4. (Inside(c) <=> Amid(ip)) /\ (Inside(c)' <=> Amid(ip'))
    BY <1>1, <1>3, <1>5 DEF Inside, GUARANTEED_READ
  <2>5. CASE ip \in (89 .. 96) \cup (98 .. 106)
    BY <1>2, <2>3, <2>4, <2>5 DEF Onward
  <2>6. CASE ip = 97
    <3>1. Round(1, 97)
      BY <2>3, <2>6
    <3>2. /\ \A d \in Cntrs : d # 1 => cntr'[d] = cntr[d]
          /\ (ip' = 97 \/ (ip' = 98 /\ cntr'[1] = reload[1]))
      BY <2>6, <3>1 DEF Round
    <3>3. CASE c = 1
      BY <2>4, <3>2, <3>3
    <3>4. CASE c # 1
      BY <1>2, <1>3, <2>4, <2>6, <3>2, <3>4
    <3> QED
      BY <3>3, <3>4
  <2>7. CASE ip = 107
    <3>1. Round(2, 107)
      BY <2>3, <2>7
    <3>2. /\ \A d \in Cntrs : d # 2 => cntr'[d] = cntr[d]
          /\ (ip' = 107 \/ (ip' = 108 /\ cntr'[2] = reload[2]))
      BY <2>7, <3>1 DEF Round
    <3>3. CASE c = 2
      BY <2>4, <3>2, <3>3
    <3>4. CASE c # 2
      BY <1>2, <1>3, <2>4, <2>7, <3>2, <3>4
    <3> QED
      BY <3>3, <3>4
  <2>8. CASE ip = 108
    <3>1. Round(0, 89)
      BY <2>3, <2>8
    <3>2. /\ \A d \in Cntrs : d # 0 => cntr'[d] = cntr[d]
          /\ (ip' = 89 \/ (ip' = 109 /\ cntr'[0] = reload[0]))
      BY <2>8, <3>1 DEF Round
    <3>3. CASE c = 0
      BY <2>4, <3>2, <3>3
    <3>4. CASE c # 0
      BY <1>2, <1>3, <2>4, <2>8, <3>2, <3>4
    <3> QED
      BY <3>3, <3>4
  <2>9. CASE ip = 109
    <3>1. Round(3, 89)
      BY <2>3, <2>9
    <3>2. /\ \A d \in Cntrs : d # 3 => cntr'[d] = cntr[d]
          /\ (ip' = 89 \/ (ip' = 110 /\ cntr'[3] = reload[3]))
      BY <2>9, <3>1 DEF Round
    <3>3. CASE c = 3
      BY <2>4, <3>2, <3>3
    <3>4. CASE c # 3
      BY <1>2, <1>3, <2>4, <2>9, <3>2, <3>4
    <3> QED
      BY <3>3, <3>4
  <2> QED
    BY <2>1, <2>2, <2>5, <2>6, <2>7, <2>8, <2>9
<1> QED
  BY <1>4, <1>5

LEMMA WholeClock ==
    ASSUME CommandInv, TunedInv, WholeInv, Clocked
    PROVE  WholeInv'
<1>1. /\ calls' = calls /\ at' = at /\ label' = label /\ reload' = reload /\ first' = first
      /\ calls # <<>> => Writes(Head(calls))' = Writes(Head(calls))
      /\ running /\ Play /\ label \in Entries /\ ip \in Block(label) /\ Wlat' = Wlat
  BY Clocking
<1>2. HeldInv'
  <2> SUFFICES ASSUME calls # <<>>, NEW c \in Cntrs, Held(Writes(Head(calls)), at - 1, c)
               PROVE  IF running' THEN label \in Reads /\ first[c] = reload[c]
                                  ELSE cntr'[c] = reload[c]
    BY <1>1 DEF HeldInv, Reads, GUARANTEED_READ, READ_B2B, Cntrs
  <2>1. label \in Reads /\ first[c] = reload[c]
    BY <1>1 DEF WholeInv, HeldInv
  <2>2. ASSUME ~running' PROVE cntr'[c] = reload[c]
    <3>1. ip \in Returns /\ cntr' = cntr
      BY <1>1, <2>2, PlayEnds
    <3>2. /\ label = GUARANTEED_READ => ip \in 76 .. 88
          /\ label = READ_B2B => ip \in 89 .. 110
      BY <1>1, BlocksOf
    <3>3. /\ label = GUARANTEED_READ => ip = 88
          /\ label = READ_B2B => ip = 110
      BY <3>1, <3>2 DEF Returns
    <3>4. ~Inside(c)
      BY <2>1, <3>3 DEF Inside, Reads
    <3> QED
      BY <1>1, <2>1, <3>1, <3>4 DEF WholeInv, ReadInv
  <2> QED
    BY <2>1, <2>2
<1>3. StartInv'
  <2>1. Counts(label)' = Counts(label)
    BY <1>1 DEF Counts, Needs, JumpsOn, Cntrs, WriteTests, WRITE_WL_1, WRITE, DmBlock
  <2> QED
    BY <1>1, <2>1 DEF WholeInv, StartInv
<1> QED
  BY <1>2, <1>3, ReadClock DEF WholeInv

LEMMA WholeStep ==
    ASSUME CommandInv, TunedInv, WholeInv, [CNext]_vars
    PROVE  WholeInv'
<1>1. CASE UNCHANGED vars
  <2>1. /\ calls' = calls /\ at' = at /\ Wlat' = Wlat
        /\ UNCHANGED <<running, ip, cntr, reload, label, first>>
        /\ calls # <<>> => Writes(Head(calls))' = Writes(Head(calls))
    BY <1>1, Stays
  <2>2. Counts(label)' = Counts(label)
    BY <2>1 DEF Counts, Needs, JumpsOn, Cntrs, WriteTests, WRITE_WL_1, WRITE, DmBlock
  <2>3. HeldInv'
    BY <2>1 DEF WholeInv, HeldInv, Reads, GUARANTEED_READ, READ_B2B, Cntrs
  <2>4. StartInv'
    BY <2>1, <2>2 DEF WholeInv, StartInv
  <2>5. ReadInv'
    <3>1. \A c : Inside(c)' <=> Inside(c)
      BY <2>1 DEF Inside, GUARANTEED_READ
    <3> QED
      BY <2>1, <3>1 DEF WholeInv, ReadInv, Reads, GUARANTEED_READ, READ_B2B, Cntrs
  <2> QED
    BY <2>3, <2>4, <2>5 DEF WholeInv
<1>2. CASE Procedures
  <2>1. ~running' /\ at' = 1
    BY <1>2, Beginning
  <2>2. \A s, c : ~Held(s, at' - 1, c)
    BY <2>1 DEF Held
  <2> QED
    BY <2>1, <2>2 DEF WholeInv, HeldInv, StartInv, ReadInv
<1> QED
  BY <1>1, <1>2, WholeWrite, WholeClock DEF CNext

LEMMA WholeFirst == CInit => WholeInv
BY DEF CInit, Init, WholeInv, HeldInv, StartInv, ReadInv

(* A run comes to no loop whose counter it does not count with.            *)
LEMMA LoopsFrom ==
    ASSUME CommandInv, TunedInv, WholeInv, running, NEW c \in Cntrs, ip \in JumpsOn(c)
    PROVE  first[c] = reload[c]
<1>1. label \in Entries /\ ip \in Block(label) /\ board \in Boards
  BY DEF CommandInv, RunInv, Course, CallsInv
<1>2. c \in Needs(label)
  BY <1>1 DEF Needs
<1>3. ASSUME label \in WriteTests, Wlat <= 2 PROVE c # 3
  <2> SUFFICES ASSUME c = 3 PROVE FALSE
    OBVIOUS
  <2>1. WrTuned
    BY <1>3 DEF TunedInv
  <2>2. Wlat \in 1 .. 25
    BY <1>1, BoardTimes
  <2>3. WrNumbers(Wlat, label, Dm(label), ip, cntr, jump, reload)
    BY <1>3, <2>1, <2>2, WrTunedIs
  <2>4. /\ Dm(label) \in {0, 20} /\ label - Dm(label) \in {33, 34} /\ ip - Dm(label) \in 33 .. 52
        /\ label \in Nat /\ ip \in Nat
    BY <1>1, <1>3, BlocksOf DEF Addresses
  <2>5. ip \in {29, 35, 55, 109}
    BY DEF JumpsOn
  <2>6. ip - Dm(label) = 35
    BY <2>4, <2>5
  <2>7. ip = label \/ ip >= 36 + Dm(label)
    BY <1>3, <2>2, <2>3, <2>4 DEF WrNumbers
  <2> QED
    BY <2>4, <2>6, <2>7
<1>4. c \in Counts(label)
  <2>1. c \in {0, 1, 2, 3}
    BY DEF Cntrs
  <2> QED
    BY <1>2, <1>3, <2>1 DEF Counts
<1> QED
  BY <1>4 DEF WholeInv, StartInv

LEMMA WholeFrom == CommandInv /\ TunedInv /\ WholeInv => LoopsStartLoaded
BY LoopsFrom DEF LoopsStartLoaded

(* Every loop starts with the whole count that was loaded: each part loads *)
(* the counters that its runs come to before the first of them, and what   *)
(* runs between a load and its use are reads alone, which leave every      *)
(* counter as they found it; so the runs that are repeated for the virtual *)
(* groups, with nothing loaded between them, are as long as the first, and *)
(* no run starts with what another procedure has left half run down.       *)
THEOREM LoopsAreWhole == CSpec => []LoopsStartLoaded
<1>1. CInit => MemoryInv /\ LegalInv /\ WholeInv
  BY MemoryInit, LegalInit, WholeFirst
<1>2. MemoryInv /\ MemoryInv' /\ LegalInv /\ LoopsLastTheirCycles /\ [CNext]_vars => LegalInv'
  BY LegalStep
<1>3. CSpec => []MemoryInv
  BY <1>1, MemoryStep, PTL DEF CSpec
<1>4. CSpec => []LoopsLastTheirCycles
  BY CommandLoops
<1>5. CSpec => []LegalInv
  BY <1>1, <1>2, <1>3, <1>4, PTL DEF CSpec
<1>6. MemoryInv /\ LegalInv /\ WholeInv /\ [CNext]_vars => WholeInv'
  BY WholeStep DEF MemoryInv, LegalInv
<1>7. MemoryInv /\ LegalInv /\ WholeInv => LoopsStartLoaded
  BY WholeFrom DEF MemoryInv, LegalInv
<1>8. CSpec => []WholeInv
  BY <1>1, <1>3, <1>5, <1>6, PTL DEF CSpec
<1> QED
  BY <1>3, <1>5, <1>7, <1>8, PTL
=============================================================================
