----------------------------- MODULE MemCommands -----------------------------
(***************************************************************************)
(* The commands that the calibration sends to the memory: the procedures   *)
(* of hps_isw_handoff/soc_system_hps_0/sequencer.c that initialise it,     *)
(* activate its rows, write the read patterns, test reads and writes and   *)
(* hand the memory off, each down to the registers of the RW manager that  *)
(* it writes; the RW manager that plays the commands, clock by clock; and  *)
(* the ranks of the memory that receive them.                              *)
(*                                                                         *)
(* A procedure is a sequence of register writes.  A write takes as many    *)
(* clocks of the memory as one of the bus does at least, and one that runs *)
(* the RW manager lasts until it returns.  Whether a test passes is left   *)
(* open: run_mem_calibrate goes on to the next step, tries again or gives  *)
(* up at any of them.                                                      *)
(***************************************************************************)
EXTENDS RwManager, Dram

CONSTANTS
    Boards,        \* the systems to consider, see BoardAssumption
    WriteClocks,   \* clocks of the memory in a register write, at least
    TinitCntrs,    \* SEQ_TINIT_CNTR0_VAL to CNTR2, as a sequence
    TresetCntrs,   \* SEQ_TRESET_CNTR0_VAL to CNTR2
    PatternReads,  \* counters 0 and 1 of a guaranteed read, 0x20
    ReadLoops,     \* counter 0 of a read test: 0x32
    AllReadLoops,  \* and when it reads all groups: 0x06
    AllGroups,     \* RW_MGR_MEM_IF_READ_DQS_WIDTH * VIRTUAL_GROUPS - 1
    WriteLoops     \* counter 0 of a write test: 0x40

(* A board: its ranks, how many are on a module, those with mirrored       *)
(* address lines, those to be skipped, the virtual groups in a group and   *)
(* the write latency WL + AL of the memory (mem_config adds 1), which is   *)
(* loaded into a counter.  There are one or two modules: the comments of   *)
(* set_rank_and_odt_mask know a single slot and a dual one.                *)
ASSUME BoardAssumption ==
    \A b \in Boards :
        /\ b.ranks \in {1, 2, 4} /\ b.perModule \in Nat
        /\ b.ranks \in {b.perModule, 2 * b.perModule}
        /\ b.mirrored \subseteq 0 .. b.ranks - 1
        /\ b.skipped \subseteq 0 .. b.ranks - 1 /\ b.skipped # 0 .. b.ranks - 1
        /\ b.virtualGroups \in Nat \ {0} /\ b.wl \in 0 .. MaxCntr

ASSUME CommandsAssumption ==
    /\ MaxCntr >= 255     \* 0xFF is loaded
    /\ WriteClocks \in Nat
    /\ \A c \in 1 .. 3 : {TinitCntrs[c], TresetCntrs[c]} \subseteq 0 .. MaxCntr
    /\ {PatternReads, ReadLoops, AllReadLoops, AllGroups} \subseteq 0 .. MaxCntr
    /\ WriteLoops \in 0 .. 254     \* less than the 0xFF of its skips

(* The bus runs at 67 MHz and the memory at 401 MHz, so that a write takes *)
(* five clocks of the memory and more; four are enough.  The write latency *)
(* of a DDR3 is small: the pauses of a guaranteed write and of the end of  *)
(* a write test are fixed numbers of clocks.                               *)
ASSUME TimingAssumption ==
    WriteClocks >= 4 /\ \A b \in Boards : b.wl <= 24

VARIABLES
    board,       \* the board
    stage,       \* where run_mem_calibrate is
    calls,       \* the parts of the current procedure that are still to do
    at,          \* the next register write of the first of them
    selected,    \* the ranks that commands go to
    odt,         \* the ranks terminated in a read, and in a write
    dram         \* the ranks of the memory

cpuVars == <<board, stage, calls, at>>
pinVars == <<selected, odt>>
vars == <<engineVars, cpuVars, pinVars, dram>>

Ranks == 0 .. board.ranks - 1
Wlat == board.wl + 1
-----------------------------------------------------------------------------
(* The register writes.                                                    *)
LoadCntrReg(c, n)  == [op |-> "cntr", reg |-> c, val |-> n]
LoadJumpReg(c, a)  == [op |-> "jump", reg |-> c, val |-> a]
RunReg(a)          == [op |-> "run", reg |-> 0, val |-> a]
PhyReg             == [op |-> "phy", reg |-> 0, val |-> 0]
SelectAll          == [op |-> "all", reg |-> 0, val |-> 0]
SelectOff(r)       == [op |-> "odt_off", reg |-> 0, val |-> r]
SelectReadWrite(r) == [op |-> "odt_read_write", reg |-> 0, val |-> r]

Loop(c, n, a) == <<LoadCntrReg(c, n), LoadJumpReg(c, a)>>

Times(n, s) == [i \in 1 .. n * Len(s) |-> s[((i - 1) % Len(s)) + 1]]

(* A mutant: the counter is not loaded: the jump returns all the same.     *)
set_jump_as_return_JumpOnly == <<LoadJumpReg(0, RETURN)>>

set_jump_as_return == Loop(0, MaxCntr, RETURN)

(* delay_for_n_mem_clocks at full rate: the counters of the two loops and  *)
(* how often they are run.                                                 *)
Inner(n) == IF n = 0 THEN 0 ELSE IF n <= 256 THEN n - 1 ELSE 255
Outer(n) ==
    IF n <= 256 THEN 0 ELSE IF n <= 65536 THEN (n - 1) \div 256 ELSE 255
Runs(n) == IF n <= 65536 THEN 1 ELSE (n - 1) \div 65536 + 1

delay_for_n_mem_clocks(n) ==
    IF n <= 256
    THEN Loop(1, Inner(n), IDLE_LOOP1) \o <<RunReg(IDLE_LOOP1)>>
    ELSE <<LoadCntrReg(0, Inner(n)), LoadCntrReg(1, Outer(n)),
           LoadJumpReg(0, IDLE_LOOP2), LoadJumpReg(1, IDLE_LOOP2)>>
         \o Times(Runs(n), <<RunReg(IDLE_LOOP2)>>)

(* The part of rw_mgr_mem_initialize that goes to all ranks: reset, CKE    *)
(* low, and tXPR.                                                          *)
HoldFor(cntrs, a) ==
    [c \in 1 .. 3 |-> LoadCntrReg(c - 1, cntrs[c])]
    \o [c \in 1 .. 3 |-> LoadJumpReg(c - 1, a)] \o <<RunReg(a)>>

ResetMemory ==
    <<SelectAll>> \o
    (HoldFor(TinitCntrs, INIT_RESET_0_CKE_0) \o <<PhyReg>>
     \o HoldFor(TresetCntrs, INIT_RESET_1_CKE_0) \o delay_for_n_mem_clocks(250))

(* The mode registers, 2, 3, 1 and 0, and ZQ calibration.  Without         *)
(* mirroring there is no delay between the last two.                       *)
(* A mutant: the jump of the instruction is left as it was.                *)
LoadMode_NoReturn(a) == <<RunReg(a)>>

LoadMode(a) == set_jump_as_return \o <<RunReg(a)>>
ModeThenDelay(a) == LoadMode(a) \o delay_for_n_mem_clocks(4)

InitializeRank(r) ==
    <<SelectOff(r)>> \o
    ((IF r \in board.mirrored
      THEN ModeThenDelay(10) \o ModeThenDelay(11) \o ModeThenDelay(9) \o LoadMode(8)
      ELSE ModeThenDelay(4) \o ModeThenDelay(5) \o LoadMode(3) \o LoadMode(2))
     \o LoadMode(6) \o delay_for_n_mem_clocks(512))

(* A mutant: the value for calibration is handed off.                      *)
HandOffRank_DllReset(r) ==
    <<SelectOff(r)>> \o
    (<<RunReg(PRECHARGE_ALL)>>
     \o ModeThenDelay(4) \o ModeThenDelay(5) \o ModeThenDelay(3) \o LoadMode(2))

(* The body of rw_mgr_mem_handoff for a rank.                              *)
HandOffRank(r) ==
    <<SelectOff(r)>> \o
    (<<RunReg(PRECHARGE_ALL)>> \o
     (IF r \in board.mirrored
      THEN ModeThenDelay(10) \o ModeThenDelay(11) \o ModeThenDelay(9) \o LoadMode(12)
      ELSE ModeThenDelay(4) \o ModeThenDelay(5) \o ModeThenDelay(3) \o LoadMode(7)))

(* The body of mem_precharge_and_activate for a rank.                      *)
ActivateRank(r) ==
    <<SelectOff(r)>> \o
    (<<RunReg(PRECHARGE_ALL)>>
     \o Loop(0, 15, ACTIVATE_0_AND_1 + 1) \o Loop(1, 15, ACTIVATE_0_AND_1 + 3)
     \o <<RunReg(ACTIVATE_0_AND_1)>>)

(* The body of rw_mgr_mem_calibrate_read_load_patterns for a rank, at full *)
(* rate.                                                                   *)
LoadPatternsRank(r) ==
    <<SelectReadWrite(r)>> \o
    (Loop(0, 32, GUARANTEED_WRITE + 3) \o Loop(1, 32, GUARANTEED_WRITE + 7)
     \o Loop(2, 4, GUARANTEED_WRITE + 1) \o Loop(3, 4, GUARANTEED_WRITE + 5)
     \o <<RunReg(GUARANTEED_WRITE)>>)

(* A loop over the virtual groups: the FIFO and the read data path are     *)
(* reset, and the run is repeated with the counters as they are.           *)
PerVirtualGroup(a) == Times(board.virtualGroups, <<PhyReg, PhyReg, RunReg(a)>>)

(* The bodies of rw_mgr_mem_calibrate_read_test_patterns and _read_test.   *)
ReadPatternsRank(r) ==
    <<SelectReadWrite(r)>> \o
    (Loop(0, PatternReads, GUARANTEED_READ) \o Loop(1, PatternReads, GUARANTEED_READ_CONT)
     \o PerVirtualGroup(GUARANTEED_READ))

ReadTestRank(r, all) ==
    <<SelectReadWrite(r)>> \o
    (Loop(1, 16, READ_B2B_WAIT1) \o Loop(2, 16, READ_B2B_WAIT2)
     \o Loop(0, IF all THEN AllReadLoops ELSE ReadLoops, READ_B2B)
     \o Loop(3, IF all THEN AllGroups ELSE 0, READ_B2B)
     \o PerVirtualGroup(READ_B2B))
-----------------------------------------------------------------------------
(* A mutant: the command itself is not counted.                            *)
rw_wl_nop_cycles_Late == Wlat - 1

(* mem_config, at full rate: the cycles between the write command and the  *)
(* one that turns DQS on.                                                  *)
rw_wl_nop_cycles == Wlat - 2

(* rw_mgr_mem_calibrate_write_test_issue: without a cycle to spare DQS is  *)
(* turned on with the command, or right after it; the data follows.        *)
WriteEntry == IF rw_wl_nop_cycles = -1 THEN WRITE_WL_1 ELSE WRITE

WriteSkips(dm) ==
    CASE rw_wl_nop_cycles = -1 ->
           Loop(2, 255, WRITE_DATA + dm) \o <<LoadJumpReg(3, WRITE_NOP + dm)>>
      [] rw_wl_nop_cycles = 0 -> Loop(2, 255, WRITE_DQS + dm)
      [] OTHER ->
           Loop(2, 0, 0) \o Loop(3, rw_wl_nop_cycles - 1, WRITE_NOP + dm)

write_test_issue(dm) ==
    WriteSkips(dm) \o <<PhyReg>>
    \o Loop(0, WriteLoops, WriteEntry + dm) \o Loop(1, 48, WRITE_WAIT + dm)
    \o <<RunReg(WriteEntry + dm)>>

(* The body of rw_mgr_mem_calibrate_write_test; dm is 0, or DmBlock for    *)
(* the variant that tests the data mask.                                   *)
WriteTestRank(r, dm) ==
    <<SelectReadWrite(r)>> \o
    Times(board.virtualGroups, <<PhyReg>> \o write_test_issue(dm))

(* The parts of a procedure, and the register writes of a part.            *)
Part(p, r) == [proc |-> p, rank |-> r]

Writes(c) ==
    CASE c.proc = "reset"         -> ResetMemory
      [] c.proc = "initialize"    -> InitializeRank(c.rank)
      [] c.proc = "activate"      -> ActivateRank(c.rank)
      [] c.proc = "load_patterns" -> LoadPatternsRank(c.rank)
      [] c.proc = "read_patterns" -> ReadPatternsRank(c.rank)
      [] c.proc = "read_test"     -> ReadTestRank(c.rank, FALSE)
      [] c.proc = "read_all"      -> ReadTestRank(c.rank, TRUE)
      [] c.proc = "write_test"    -> WriteTestRank(c.rank, 0)
      [] c.proc = "write_test_dm" -> WriteTestRank(c.rank, DmBlock)
      [] c.proc = "handoff"       -> HandOffRank(c.rank)
      [] c.proc = "clear"         -> <<RunReg(CLEAR_DQS_ENABLE), SelectOff(0)>>
      [] c.proc = "odt_off"       -> <<SelectOff(0)>>

(* A loop over the ranks that are not skipped.                             *)
Live == Ranks \ board.skipped

Of(p, r) == IF r \in Live THEN <<Part(p, r)>> ELSE <<>>
ForRanks(p) == Of(p, 0) \o Of(p, 1) \o Of(p, 2) \o Of(p, 3)
-----------------------------------------------------------------------------
(* A mutant: the rank that is read is terminated.                          *)
OdtRead_Own(r) ==
    CASE board.ranks = 1 -> {}
      [] board.ranks = 2 -> IF board.perModule = 1 THEN {r} ELSE {}
      [] board.ranks = 4 -> CASE r = 0 -> {2} [] r = 1 -> {3} [] r = 2 -> {0} [] r = 3 -> {1}

(* set_rank_and_odt_mask: the ranks terminated while rank r is read, and   *)
(* while it is written, by the number of ranks and of those on a module.   *)
OdtRead(r) ==
    CASE board.ranks = 1 -> {}
      [] board.ranks = 2 -> IF board.perModule = 1 THEN Ranks \ {r} ELSE {}
      [] board.ranks = 4 -> CASE r = 0 -> {2} [] r = 1 -> {3} [] r = 2 -> {0} [] r = 3 -> {1}

OdtWrite(r) ==
    CASE board.ranks = 1 -> {0}
      [] board.ranks = 2 -> IF board.perModule = 1 THEN Ranks ELSE {r}
      [] board.ranks = 4 -> IF r \in {0, 2} THEN {0, 2} ELSE {1, 3}

Off == [read |-> {}, write |-> {}]
ReadWrite(r) == [read |-> OdtRead(r), write |-> OdtWrite(r)]

CInit ==
    /\ Init
    /\ board \in Boards
    /\ stage = "start" /\ calls = <<>> /\ at = 1
    /\ selected = {} /\ odt = Off
    /\ dram = [r \in Ranks |->
                 PowerUp(Wlat, r \in board.mirrored,
                         ResetCycles(TinitCntrs[1], TinitCntrs[2], TinitCntrs[3]),
                         ResetCycles(TresetCntrs[1], TresetCntrs[2], TresetCntrs[3]))]

(* One register write.  Meanwhile nothing is sent to the memory.           *)
Select(w) ==
    /\ selected' = IF w.op = "all" THEN Ranks ELSE {w.val}
    /\ odt' = IF w.op = "odt_read_write" THEN ReadWrite(w.val) ELSE Off
    /\ UNCHANGED engineVars

Effect(w) ==
    \/ w.op = "cntr" /\ LoadCntr(w.reg, w.val) /\ UNCHANGED pinVars
    \/ w.op = "jump" /\ LoadJump(w.reg, w.val) /\ UNCHANGED pinVars
    \/ w.op = "run" /\ Run(w.val) /\ UNCHANGED pinVars
    \/ w.op = "phy" /\ UNCHANGED <<engineVars, pinVars>>
    \/ w.op \in {"all", "odt_off", "odt_read_write"} /\ Select(w)

Write ==
    /\ ~running /\ calls # <<>>
    /\ LET part == Writes(Head(calls))
       IN /\ Effect(part[at])
          /\ IF at < Len(part)
             THEN at' = at + 1 /\ calls' = calls
             ELSE at' = 1 /\ calls' = Tail(calls)
    /\ dram' = [r \in Ranks |-> Quieten(dram[r], WriteClocks)]
    /\ UNCHANGED <<board, stage>>

(* One clock of the RW manager.                                            *)
Command == Decode(AcWord(ip))

Played ==
    [r \in Ranks |->
        Clock(dram[r], IF r \in selected THEN Command ELSE NoCommand,
              Bus(AcWord(ip), Data(ip)))]

Clocked == Play /\ dram' = Played /\ UNCHANGED <<cpuVars, pinVars>>
-----------------------------------------------------------------------------
(* The procedures, in the order of run_mem_calibrate and mem_calibrate.    *)
Call(from, to, parts) ==
    /\ ~running /\ calls = <<>> /\ stage \in from
    /\ stage' = to /\ calls' = parts
    /\ UNCHANGED <<engineVars, board, at, pinVars, dram>>

rw_mgr_mem_initialize ==
    Call({"start"}, "initialized", <<Part("reset", 0)>> \o ForRanks("initialize"))

mem_config == Call({"initialized"}, "configured", ForRanks("activate"))

(* rw_mgr_mem_calibrate_vfifo of a group: it writes the patterns, again in *)
(* every attempt, and reads them.  The next group starts after the writes. *)
load_patterns ==
    Call({"configured", "patterns", "reads", "writes"}, "patterns",
         Append(ForRanks("load_patterns"), Part("odt_off", 0)))

read_test_patterns ==
    Call({"patterns"}, "patterns", Append(ForRanks("read_patterns"), Part("clear", 0)))

read_test ==
    Call({"patterns", "reads"}, "reads", Append(ForRanks("read_test"), Part("clear", 0)))

(* rw_mgr_mem_calibrate_writes and rw_mgr_mem_calibrate_vfifo_end.         *)
write_test(p) ==
    Call({"reads", "writes"}, "writes", Append(ForRanks(p), Part("odt_off", 0)))

(* rw_mgr_mem_calibrate_lfifo.                                             *)
lfifo_patterns ==
    Call({"writes"}, "lfifo", Append(ForRanks("load_patterns"), Part("odt_off", 0)))

lfifo_read_test ==
    Call({"lfifo"}, "lfifo", Append(ForRanks("read_all"), Part("clear", 0)))

(* The end of run_mem_calibrate, reached from wherever mem_calibrate gave  *)
(* up.  In debug mode there is no hand-off.                                *)
mem_precharge_and_activate ==
    Call({"patterns", "reads", "writes", "lfifo"}, "calibrated", ForRanks("activate"))

rw_mgr_mem_handoff == Call({"calibrated"}, "done", ForRanks("handoff"))

Procedures ==
    \/ rw_mgr_mem_initialize \/ mem_config
    \/ load_patterns \/ read_test_patterns \/ read_test
    \/ \E p \in {"write_test", "write_test_dm"} : write_test(p)
    \/ lfifo_patterns \/ lfifo_read_test
    \/ mem_precharge_and_activate \/ rw_mgr_mem_handoff

CNext == Procedures \/ Write \/ Clocked

CSpec == CInit /\ [][CNext]_vars /\ WF_vars(Clocked) /\ WF_vars(Write)
-----------------------------------------------------------------------------
(* Every command comes when the memory may be given it: after reset and    *)
(* CKE low of the right length, the mode registers in their order and in   *)
(* the variant for mirrored lines, ZQ calibration, an activated row; and   *)
(* no sooner after the commands before than the timing of the memory.      *)
CommandsLegal ==
    running => \A r \in selected : Legal(dram[r], Command)

(* What a read is compared with is what the rank holds: the writes of the  *)
(* patterns and of the write test, at every write latency, brought their   *)
(* data when the memory latched it, and the patterns that a write test     *)
(* spoils are written again before they are read.                          *)
Compared(a) ==
    a \in {46, 66, 80, 89, 93, 98, 102}

ReadsWhatWasWritten ==
    running /\ Compared(ip) =>
        \A r \in selected : dram[r].cell[<<Command.bank, Command.col>>] = Data(ip)

(* After the broadcast of the reset, commands go to one rank at a time,    *)
(* and never to a rank that is skipped.  No rank is read while it is       *)
(* terminated itself; one that is written is; and with a second module,    *)
(* one rank of it is in both cases (set_rank_and_odt_mask).                *)
Module(r) == r \div board.perModule

Terminated == IF Command.kind = "read" THEN odt.read ELSE odt.write

RightRank ==
    running /\ Command.kind \notin {"none", "reset", "cke_low"} =>
        \E r \in Live :
            /\ selected = {r}
            /\ Command.kind \in {"read", "write"} =>
                  /\ r \in Terminated <=> Command.kind = "write"
                  /\ \A m \in {Module(x) : x \in Ranks} \ {Module(r)} :
                        Cardinality({x \in Terminated : Module(x) = m}) = 1

(* What is handed off is a memory in its user configuration: every rank    *)
(* that is not skipped has its rows closed and all of its mode registers   *)
(* loaded, the last with the user's value.                                 *)
HandedOff ==
    stage = "done" /\ calls = <<>> /\ ~running =>
        \A r \in Live :
            /\ dram[r].phase = "calibrated" /\ dram[r].open = {}
            /\ dram[r].last = 0 /\ dram[r].mr0 = "user"
            /\ dram[r].flight = {}

(* A run of the RW manager ends: no counter that a loop reloads keeps      *)
(* another one going.  The CPU waits for it.                               *)
RunsReturn == running ~> ~running

(* Every loop that is met in a run starts with the whole count that was    *)
(* loaded, however many runs ago that was: the runs for the virtual groups *)
(* of a read test repeat with the counters that the run before has left,   *)
(* and procedures share them, some of which leave a count half run down.   *)
LoopsStartLoaded ==
    running => \A c \in Cntrs : ip \in JumpsOn(c) => first[c] = reload[c]

(* The procedures use the engine as it may be used: while it does not      *)
(* play, with counters of eight bits and addresses in the ROM.  So what is *)
(* proved of the engine holds here.                                        *)
UsesEngine == Spec
=============================================================================
