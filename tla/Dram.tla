-------------------------------- MODULE Dram ---------------------------------
(***************************************************************************)
(* A rank of the DDR3 memory, as far as the commands of the calibration    *)
(* concern it: what it must be told before what, how long after what, and  *)
(* the patterns in the cells that are read and written.  The memory is not *)
(* in the repository; its timing is that of emif.xml, and the protocol is  *)
(* the one the comments of sequencer.c name (tINIT, tXPR, tMRD, tMOD,      *)
(* tZQinit).                                                               *)
(*                                                                         *)
(* A rank d is a record.  d.since counts the clocks since each event, as   *)
(* far as a rule looks.                                                    *)
(***************************************************************************)
EXTENDS Integers, FiniteSets

TMRD == 4    \* MEM_TMRD_CK
TRCD == 6    \* MEM_TRCD
TRP  == 6    \* MEM_TRP
TRRD == 3    \* MEM_TRRD
TRAS == 14   \* MEM_TRAS
TRTP == 3    \* MEM_TRTP
TWR  == 6    \* MEM_TWR
TWTR == 4    \* MEM_TWTR
TCL  == 11   \* MEM_TCL
Turnaround == 2   \* MEM_IF_RD_TO_WR_TURNAROUND_OCT

Burst == 4   \* clocks of a burst of MEM_BURST_LENGTH 8
TMOD  == 12  \* "need to wait tMOD (12CK or 15ns)"
TXPR  == 250 \* "tXRP < 250 ck cycles"
TZQinit == 512 \* "tZQinit = tDLLK = 512 ck cycles"

Banks == {0, 1}
Cells == Banks \X {0, 1}

(* A command is a record; a clock without one is NoCommand.                *)
NoCommand == [kind |-> "none", bank |-> 0, col |-> 0,
              mr |-> 0, value |-> "user", mirrored |-> FALSE]

At(kind, b, c) == [NoCommand EXCEPT !.kind = kind, !.bank = b, !.col = c]

Mrs(k, v, mirrored) ==
    [NoCommand EXCEPT !.kind = "mrs", !.mr = k, !.value = v, !.mirrored = mirrored]

(* What the words of the address and command ROM say.                      *)
Decode(word) ==
    CASE word = "init_reset_0_cke_0"   -> At("reset", 0, 0)
      [] word = "init_reset_1_cke_0"   -> At("cke_low", 0, 0)
      [] word = "mrs0_dll_reset"       -> Mrs(0, "dll_reset", FALSE)
      [] word = "mrs0_dll_reset_mirr"  -> Mrs(0, "dll_reset", TRUE)
      [] word = "mrs0_user"            -> Mrs(0, "user", FALSE)
      [] word = "mrs0_user_mirr"       -> Mrs(0, "user", TRUE)
      [] word = "mrs1"                 -> Mrs(1, "user", FALSE)
      [] word = "mrs1_mirr"            -> Mrs(1, "user", TRUE)
      [] word = "mrs2"                 -> Mrs(2, "user", FALSE)
      [] word = "mrs2_mirr"            -> Mrs(2, "user", TRUE)
      [] word = "mrs3"                 -> Mrs(3, "user", FALSE)
      [] word = "mrs3_mirr"            -> Mrs(3, "user", TRUE)
      [] word = "zqcl"                 -> At("zqcl", 0, 0)
      [] word = "pre_all"              -> At("pre", 0, 0)
      [] word = "act_0"                -> At("act", 0, 0)
      [] word = "act_1"                -> At("act", 1, 0)
      [] word \in {"write_bank_0_col_0", "write_bank_0_col_0_nodata",
                   "write_bank_0_col_0_nodata_wl_1"} -> At("write", 0, 0)
      [] word = "write_bank_0_col_1"   -> At("write", 0, 1)
      [] word = "write_bank_1_col_0"   -> At("write", 1, 0)
      [] word = "write_bank_1_col_1"   -> At("write", 1, 1)
      [] word = "read_bank_0_0"        -> At("read", 0, 0)
      [] word \in {"read_bank_0_1", "read_bank_0_1_norden"} -> At("read", 0, 1)
      [] word = "read_bank_1_0"        -> At("read", 1, 0)
      [] word = "read_bank_1_1"        -> At("read", 1, 1)
      [] OTHER                         -> NoCommand

Events == {"cke", "mrs", "zqcl", "pre", "act", "rd", "wr"}

(* The data that a word drives on the pins, and whether it drives DQS.     *)
Bus(word, data) ==
    LET drives == word \in {"write_data", "write_bank_0_col_0", "write_bank_0_col_1",
                            "write_bank_1_col_0", "write_bank_1_col_1"}
    IN [data |-> IF drives THEN data ELSE "nothing",
        dqs  |-> drives \/ word \in {"write_predata", "write_bank_0_col_0_nodata_wl_1"}]

Limit(e, wlat) ==
    CASE e = "cke"  -> TXPR
      [] e = "mrs"  -> TMOD
      [] e = "zqcl" -> TZQinit
      [] e = "pre"  -> TRP
      [] e = "act"  -> TRAS
      [] e = "rd"   -> TCL + Burst + Turnaround
      [] e = "wr"   -> wlat + Burst + TWR

PowerUp(wlat, mirrored, tinit, treset) ==
    [wlat     |-> wlat,         \* the write latency
     tinit    |-> tinit,        \* how long it must be held in reset,
     treset   |-> treset,       \* and then with CKE low
     mirrored |-> mirrored,     \* the address lines are mirrored
     phase    |-> "unknown",    \* unknown, reset, cke_low, ready, calibrated
     held     |-> 0,            \* for how long it has been in that phase
     last     |-> 0,            \* the mode register that was loaded last
     mr0      |-> "none",       \* which of the two values it has
     open     |-> {},           \* the banks with a row activated
     since    |-> [e \in Events |-> Limit(e, wlat)],
     cell     |-> [c \in Cells |-> "unknown"],
     flight   |-> {},           \* bursts that are still to come
     dqs      |-> FALSE]        \* DQS was driven in the last clock
-----------------------------------------------------------------------------
(* The mode registers are loaded in the order 2, 3, 1, 0.                  *)
MrAfter(k) == CASE k = 0 -> 2 [] k = 2 -> 3 [] k = 3 -> 1 [] k = 1 -> 0

(* May rank d be given command c in this clock?                            *)
MayLowerCke(d) ==
    \/ d.phase = "reset" /\ d.held >= d.tinit
    \/ d.phase = "cke_low"

MayRaiseCke(d) == d.phase = "cke_low" => d.held >= d.treset

MayLoadMode(d, c) ==
    /\ d.phase \in {"ready", "calibrated"}
    /\ d.since["cke"] >= TXPR /\ d.since["mrs"] >= TMRD
    /\ d.since["zqcl"] >= TZQinit
    /\ d.open = {} /\ d.since["pre"] >= TRP
    /\ c.mr = MrAfter(d.last)
    /\ c.mirrored <=> d.mirrored

MayZqcl(d) ==
    /\ d.phase = "ready" /\ d.last = 0 /\ d.mr0 # "none"
    /\ d.since["mrs"] >= TMOD
    /\ d.open = {} /\ d.since["pre"] >= TRP

Usable(d) ==
    /\ d.phase = "calibrated" /\ d.last = 0
    /\ d.since["zqcl"] >= TZQinit /\ d.since["mrs"] >= TMOD

MayPrecharge(d) ==
    /\ Usable(d)
    /\ d.since["act"] >= TRAS /\ d.since["rd"] >= TRTP
    /\ d.since["wr"] >= d.wlat + Burst + TWR

MayActivate(d, b) ==
    /\ Usable(d)
    /\ b \notin d.open
    /\ d.since["pre"] >= TRP /\ d.since["act"] >= TRRD

MayRead(d, b) ==
    /\ Usable(d)
    /\ b \in d.open /\ d.since["act"] >= TRCD
    /\ d.since["rd"] >= Burst
    /\ d.since["wr"] >= d.wlat + Burst + TWTR

MayWrite(d, b) ==
    /\ Usable(d)
    /\ b \in d.open /\ d.since["act"] >= TRCD
    /\ d.since["wr"] >= Burst
    /\ d.since["rd"] + d.wlat >= TCL + Burst + Turnaround

Legal(d, c) ==
    CASE c.kind = "cke_low" -> MayLowerCke(d)
      [] c.kind = "none"  -> MayRaiseCke(d)
      [] c.kind = "mrs"   -> MayLoadMode(d, c)
      [] c.kind = "zqcl"  -> MayZqcl(d)
      [] c.kind = "pre"   -> MayPrecharge(d)
      [] c.kind = "act"   -> MayActivate(d, c.bank)
      [] c.kind = "read"  -> MayRead(d, c.bank)
      [] c.kind = "write" -> MayWrite(d, c.bank)
      [] OTHER            -> TRUE
-----------------------------------------------------------------------------
PhaseAfter(d, c) ==
    CASE c.kind \in {"reset", "cke_low"} -> c.kind
      [] c.kind = "none" /\ d.phase = "cke_low" -> "ready"
      [] c.kind = "zqcl" -> "calibrated"
      [] OTHER -> d.phase

EventOf(d, c) ==
    CASE c.kind = "read"  -> "rd"
      [] c.kind = "write" -> "wr"
      [] c.kind = "none" /\ d.phase = "cke_low" -> "cke"
      [] OTHER            -> c.kind

Later(d, n) ==
    [e \in Events |->
        IF d.since[e] + n < Limit(e, d.wlat) THEN d.since[e] + n
                                             ELSE Limit(e, d.wlat)]

(* A burst is latched wlat clocks after its command, in Burst clocks, with *)
(* DQS driven from the clock before.  A cell keeps what all of them bring; *)
(* a burst without data or without DQS leaves garbage.                     *)
Latching(d, f) == f.age >= d.wlat

Latched(d, f, bus) ==
    CASE ~(bus.dqs /\ (f.age = d.wlat => d.dqs \/ d.wlat = 0)) -> "garbage"
      [] f.got \in {"none", bus.data} -> bus.data
      [] OTHER -> "garbage"

Flying(d, c, bus) ==
    LET now == d.flight \cup
               (IF c.kind = "write"
                THEN {[at |-> <<c.bank, c.col>>, age |-> 0, got |-> "none"]}
                ELSE {})
    IN {[f EXCEPT !.age = @ + 1,
                  !.got = IF Latching(d, f) THEN Latched(d, f, bus) ELSE @] : f \in now}

(* The rank after a clock with command c and with bus on the data pins.    *)
Clock(d, c, bus) ==
    LET flying == Flying(d, c, bus)
        Done(f) == f.age = d.wlat + Burst
    IN [d EXCEPT
          !.since = [e \in Events |-> IF e = EventOf(d, c) THEN 1 ELSE Later(d, 1)[e]],
          !.flight = {f \in flying : ~Done(f)},
          !.cell = [x \in Cells |->
                      IF \E f \in flying : Done(f) /\ f.at = x
                      THEN (CHOOSE f \in flying : Done(f) /\ f.at = x).got
                      ELSE @[x]],
          !.dqs = bus.dqs,
          !.last = IF c.kind = "mrs" THEN c.mr ELSE @,
          !.mr0 = IF c.kind = "mrs" /\ c.mr = 0 THEN c.value ELSE @,
          !.phase = PhaseAfter(d, c),
          !.held = IF PhaseAfter(d, c) # d.phase THEN 1
                   ELSE IF @ < d.tinit + d.treset THEN @ + 1 ELSE @,
          !.open = CASE c.kind = "pre" -> {}
                     [] c.kind = "act" -> @ \cup {c.bank}
                     [] OTHER -> @]

(* n clocks in which nothing is sent.  A burst that is still due finds no  *)
(* data.                                                                   *)
Quieten(d, n) ==
    [d EXCEPT !.since = Later(d, n),
              !.flight = {},
              !.dqs = FALSE,
              !.cell = [x \in Cells |->
                          IF \E f \in d.flight : f.at = x THEN "garbage" ELSE @[x]]]
=============================================================================
