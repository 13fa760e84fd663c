------------------------------ MODULE RwManager -------------------------------
(***************************************************************************)
(* The RW manager: the engine in the PHY that plays the command sequences  *)
(* of the calibration to the memory, one instruction of its ROM in each    *)
(* clock.  The ROM is the program in sequencer_auto_inst_init.c, its       *)
(* labels are in sequencer_auto.h.  The engine itself is hardware: what it *)
(* does is what the comments of sequencer.c rely on (lines 2049-2062 and   *)
(* 2355-2367).                                                             *)
(*                                                                         *)
(* An instruction names a word for the address and command pins; it may    *)
(* return, or jump while one of four counters is not zero.  The test comes *)
(* before the decrement, so that a loop is done once more than its counter *)
(* says, and a counter that has run out starts again from its last load.   *)
(***************************************************************************)
EXTENDS Integers, Sequences

CONSTANT
    MaxCntr      \* what a counter can hold: it has eight bits

ASSUME CntrAssumption == MaxCntr \in Nat

VARIABLES
    running,     \* the engine plays; the CPU waits
    ip,          \* the address of the instruction that is played
    cntr,        \* the four counters
    reload,      \* what was last loaded into each
    jump,        \* the four jump addresses
    elapsed,     \* history: the clocks of this run of a timed loop
    label,       \* history: the address at which this run was started
    first        \* history: the counters when it was started

engineVars == <<running, ip, cntr, reload, jump, elapsed, label, first>>

Cntrs     == 0 .. 3
Addresses == 0 .. 126
-----------------------------------------------------------------------------
(* The labels that sequencer.c uses.                                       *)
RETURN           == 1
ACTIVATE_0_AND_1 == 13
PRECHARGE_ALL    == 18
GUARANTEED_WRITE == 24
WRITE_WL_1       == 33      \* LFSR_WR_RD_BANK_0_WL_1, and the six that
WRITE            == 34      \* follow it; those of LFSR_WR_RD_DM_BANK_0
WRITE_NOP        == 35      \* come DmBlock addresses later
WRITE_DQS        == 36
WRITE_DATA       == 37
WRITE_WAIT       == 50
DmBlock          == 20
CLEAR_DQS_ENABLE == 73
GUARANTEED_READ  == 76
READ_B2B         == 89
READ_B2B_WAIT1   == 97
READ_B2B_WAIT2   == 107
GUARANTEED_READ_CONT == 84
INIT_RESET_0_CKE_0   == 111
INIT_RESET_1_CKE_0   == 116
IDLE_LOOP2       == 122
IDLE_LOOP1       == 123

(* The instructions that return, and those that jump on each counter.      *)
Returns == {0, 1, 17, 19, 23, 32, 52, 72, 75, 88, 110, 115, 120, 124, 126}

(* A mutant: the write test counts its rounds with the counter of its wait. *)
JumpsOn_Shared(c) ==
    CASE c = 0 -> {2, 3, 4, 5, 6, 7, 8, 9, 10, 11, 12, 14, 22, 27, 71, 79,
                   108, 112, 117, 121, 122}
      [] c = 1 -> {16, 21, 31, 50, 51, 70, 87, 97, 113, 118, 123}
      [] c = 2 -> {25, 33, 34, 53, 54, 107, 114, 119}
      [] c = 3 -> {29, 35, 55, 109}

JumpsOn(c) ==
    CASE c = 0 -> {2, 3, 4, 5, 6, 7, 8, 9, 10, 11, 12, 14, 22, 27, 51, 71, 79,
                   108, 112, 117, 121, 122}
      [] c = 1 -> {16, 21, 31, 50, 70, 87, 97, 113, 118, 123}
      [] c = 2 -> {25, 33, 34, 53, 54, 107, 114, 119}
      [] c = 3 -> {29, 35, 55, 109}

(* The words of the address and command ROM that the instructions name.    *)
WriteReadWords ==
    <<"write_bank_0_col_0_nodata_wl_1", "write_bank_0_col_0_nodata",
      "des_odt_1", "write_predata", "write_data", "write_data", "write_data",
      "write_data", "write_postdata", "des", "des", "des", "des",
      "read_bank_0_0", "read_en", "read_en", "read_en", "des", "des", "des">>

FirstWords ==
    <<"init_reset_0_cke_0", "des", "mrs0_dll_reset", "mrs1", "mrs2", "mrs3",
      "zqcl", "mrs0_user", "mrs0_dll_reset_mirr", "mrs1_mirr", "mrs2_mirr",
      "mrs3_mirr", "mrs0_user_mirr", "act_0", "des", "act_1", "des", "des",
      "pre_all", "des", "ref", "des", "des", "des",
      "write_bank_0_col_1", "write_data", "write_bank_1_col_0", "write_data",
      "write_bank_1_col_1", "write_data", "write_bank_0_col_0", "write_data",
      "des">>

LastWords ==
    <<"read_bank_0_1_norden", "des", "des",
      "read_bank_0_1_norden", "nop", "nop", "nop",
      "read_bank_0_1", "read_en", "read_en", "read_en",
      "read_bank_0_1_norden", "nop", "nop", "nop", "des",
      "read_bank_0_0", "read_en", "read_en", "read_en",
      "read_bank_1_0", "read_en", "read_en", "read_en", "des",
      "read_bank_0_1", "read_en", "read_en", "read_en",
      "read_bank_1_1", "read_en", "read_en", "read_en",
      "read_bank_0_1_norden", "des", "des", "des", "des",
      "init_reset_0_cke_0", "init_reset_0_cke_0", "init_reset_0_cke_0",
      "init_reset_0_cke_0", "init_reset_0_cke_0",
      "init_reset_1_cke_0", "init_reset_1_cke_0", "init_reset_1_cke_0",
      "init_reset_1_cke_0", "init_reset_1_cke_0",
      "rdimm", "des", "des", "des", "read_bank_1_0", "des">>

AcWords == FirstWords \o WriteReadWords \o WriteReadWords \o LastWords

AcWord(a) == AcWords[a + 1]

(* The data an instruction drives, or compares what is read with.          *)
Data(a) ==
    CASE a \in 24 .. 27 \cup 76 .. 87 \cup 93 .. 96 \cup 98 .. 101 -> "A"
      [] a \in 28 .. 31 \cup 89 .. 92 \cup 102 .. 105 \cup {125} -> "B"
      [] OTHER -> "lfsr"
-----------------------------------------------------------------------------
Init ==
    /\ running = FALSE /\ ip = 0 /\ elapsed = 0 /\ label = 0
    /\ cntr = [c \in Cntrs |-> 0] /\ reload = [c \in Cntrs |-> 0]
    /\ jump = [c \in Cntrs |-> 0] /\ first = [c \in Cntrs |-> 0]

(* RW_MGR_LOAD_CNTR_c, RW_MGR_LOAD_JUMP_ADD_c and RW_MGR_RUN_SINGLE_GROUP  *)
(* or RW_MGR_RUN_ALL_GROUPS.                                               *)
LoadCntr(c, n) ==
    /\ ~running
    /\ cntr' = [cntr EXCEPT ![c] = n]
    /\ reload' = [reload EXCEPT ![c] = n]
    /\ UNCHANGED <<running, ip, jump, elapsed, label, first>>

LoadJump(c, a) ==
    /\ ~running
    /\ jump' = [jump EXCEPT ![c] = a]
    /\ UNCHANGED <<running, ip, cntr, reload, elapsed, label, first>>

Run(a) ==
    /\ ~running
    /\ running' = TRUE /\ ip' = a
    /\ elapsed' = 0 /\ label' = a /\ first' = cntr
    /\ UNCHANGED <<cntr, reload, jump>>

(* The loops that are there to let time pass.                              *)
Timed == {INIT_RESET_0_CKE_0, INIT_RESET_1_CKE_0, IDLE_LOOP2, IDLE_LOOP1}

Tick == elapsed' = IF label \in Timed THEN elapsed + 1 ELSE 0

(* An instruction is played: it returns, goes on to the next one, takes    *)
(* its jump, or finds its counter at zero and goes on.                     *)
Return ==
    /\ running /\ ip \in Returns
    /\ running' = FALSE
    /\ Tick
    /\ UNCHANGED <<ip, cntr, reload, jump, label, first>>

Advance ==
    /\ running /\ ip \notin Returns
    /\ \A c \in Cntrs : ip \notin JumpsOn(c)
    /\ ip' = ip + 1
    /\ Tick
    /\ UNCHANGED <<running, cntr, reload, jump, label, first>>

Jump(c) ==
    /\ running /\ ip \in JumpsOn(c) /\ cntr[c] # 0
    /\ cntr' = [cntr EXCEPT ![c] = @ - 1]
    /\ ip' = jump[c]
    /\ Tick
    /\ UNCHANGED <<running, reload, jump, label, first>>

(* A mutant: the counter stays at zero.                                    *)
Exhaust_NoReload(c) ==
    /\ running /\ ip \in JumpsOn(c) /\ cntr[c] = 0
    /\ ip' = ip + 1
    /\ Tick
    /\ UNCHANGED <<running, cntr, reload, jump, label, first>>

Exhaust(c) ==
    /\ running /\ ip \in JumpsOn(c) /\ cntr[c] = 0
    /\ cntr' = [cntr EXCEPT ![c] = reload[c]]
    /\ ip' = ip + 1
    /\ Tick
    /\ UNCHANGED <<running, reload, jump, label, first>>

Play == Return \/ Advance \/ \E c \in Cntrs : Jump(c) \/ Exhaust(c)

Next ==
    \/ Play
    \/ \E c \in Cntrs, n \in 0 .. MaxCntr : LoadCntr(c, n)
    \/ \E c \in Cntrs, a \in Addresses : LoadJump(c, a)
    \/ \E a \in Addresses : Run(a)

Spec == Init /\ [][Next]_engineVars
-----------------------------------------------------------------------------
EngineTypeOK ==
    /\ running \in BOOLEAN
    /\ ip \in Addresses /\ label \in Addresses /\ elapsed \in Nat
    /\ cntr \in [Cntrs -> 0 .. MaxCntr] /\ reload \in [Cntrs -> 0 .. MaxCntr]
    /\ jump \in [Cntrs -> Addresses] /\ first \in [Cntrs -> 0 .. MaxCntr]

(* The nested loops of a reset, or of a delay, that are set up to start    *)
(* over from where they were entered, with counters that are freshly       *)
(* loaded or have run out.                                                 *)
Nested(cs) ==
    \A c \in cs : jump[c] = label /\ first[c] = reload[c]

InReset == label \in {INIT_RESET_0_CKE_0, INIT_RESET_1_CKE_0} /\ Nested(0 .. 2)
InDelay2 == label = IDLE_LOOP2 /\ Nested(0 .. 1)
InDelay1 == label = IDLE_LOOP1 /\ Nested({1})

(* How long they last.  The first is the formula of the comment in         *)
(* rw_mgr_mem_initialize: "num_cycles = (CTR2 + 1) * [(CTR1 + 1) * (2 *    *)
(* (CTR0 + 1) + 1) + 1] + 1".                                              *)
ResetCycles(c0, c1, c2) == (c2 + 1) * ((c1 + 1) * (2 * (c0 + 1) + 1) + 1) + 1
Delay2Cycles(c0, c1) == (c1 + 1) * (c0 + 2) + 1
Delay1Cycles(c1) == c1 + 2

(* The loops last as long as their counters ask for, neither less nor      *)
(* more, and leave the counters ready to be run again: the memory's reset  *)
(* is held for tINIT and tRESET, and a delay is what was asked for.        *)
LoopsLastTheirCycles ==
    running /\ ip \in Returns =>
        /\ InReset =>
            /\ elapsed + 1 = ResetCycles(reload[0], reload[1], reload[2])
            /\ \A c \in 0 .. 2 : cntr[c] = reload[c]
        /\ InDelay2 =>
            /\ elapsed + 1 = Delay2Cycles(reload[0], reload[1])
            /\ \A c \in 0 .. 1 : cntr[c] = reload[c]
        /\ InDelay1 =>
            elapsed + 1 = Delay1Cycles(reload[1]) /\ cntr[1] = reload[1]
=============================================================================
