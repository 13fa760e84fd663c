--------------------------- MODULE DelaySettings ----------------------------
(***************************************************************************)
(* The delay and phase settings of the calibration                         *)
(* (hps_isw_handoff/soc_system_hps_0/sequencer.c): the scc_mgr_ functions  *)
(* and the places of mem_calibrate, rw_mgr_mem_calibrate_vfifo, _writes    *)
(* and _vfifo_end that call them.                                          *)
(*                                                                         *)
(* A setting reaches a pin in three steps: it is written to the register   *)
(* file, the block it belongs to is enabled, and an update shifts the      *)
(* registers of all enabled blocks into the delay chains.  The file has    *)
(* one set of registers for the pins of a group, which all groups share:   *)
(* the group counter says whose chains an update shifts.  Only the DQS     *)
(* blocks have registers of their own for every group.  The functions read *)
(* the file, never the chains.                                             *)
(*                                                                         *)
(* An action is the code from one test of the memory to the next, and the  *)
(* result of a test is any.  Which delays the searches and the deskews     *)
(* choose is in their own modules, and open here.                          *)
(***************************************************************************)
EXTENDS Integers

CONSTANTS
    NumGroups,       \* RW_MGR_MEM_IF_WRITE_DQS_WIDTH, and _READ_
    NumPins,         \* RW_MGR_MEM_DQ_PER_WRITE_DQS, and _READ_
    InMax,           \* IO_IO_IN_DELAY_MAX
    DqsInMax,        \* IO_DQS_IN_DELAY_MAX
    DqsInReserve,    \* IO_DQS_IN_RESERVE
    OutMax,          \* IO_IO_OUT1_DELAY_MAX
    DqsOutReserve,   \* IO_DQS_OUT_RESERVE
    EnPhaseMax,      \* IO_DQS_EN_PHASE_MAX
    EnDelayMax,      \* IO_DQS_EN_DELAY_MAX
    DtapsPerPtap,    \* dtaps_per_ptap of rw_mgr_mem_calibrate_vfifo
    DqChoices,       \* the delays a deskew may choose for the DQ pins
    SweepAllGroups   \* PHY_DEBUG_SWEEP_ALL_GROUPS

Groups == 0 .. NumGroups - 1
Pins   == 0 .. NumPins - 1

ASSUME SettingsAssumption ==
    /\ NumGroups \in Nat \ {0} /\ NumPins \in Nat \ {0, 1}
    /\ InMax \in Nat /\ EnDelayMax \in Nat /\ EnPhaseMax \in Nat \ {0}
    /\ DqsInMax \in Nat /\ DqsInReserve \in 0 .. DqsInMax
    /\ OutMax \in Nat /\ DqsOutReserve \in 0 .. OutMax
    /\ DtapsPerPtap \in 0 .. OutMax
    /\ DqChoices \subseteq [Pins -> 0 .. InMax] \cap [Pins -> 0 .. OutMax]
    /\ SweepAllGroups \in BOOLEAN

(* The blocks of the register file: the pins of a group, its strobe and    *)
(* its mask, and the DQS block of every group.                             *)
Pin(i) == <<"dq", i>>
Strobe == <<"dqs_io", 0>>
Mask   == <<"dm", 0>>
Dqs(g) == <<"dqs", g>>

AllPins  == {Pin(i) : i \in Pins}
IoBlocks == AllPins \cup {Strobe, Mask}
Blocks   == IoBlocks \cup {Dqs(g) : g \in Groups}

(* A chain is a block of a group.  The chains hold junk until something is *)
(* shifted in.                                                             *)
Chains == {c \in Groups \X Blocks : c[2] \in IoBlocks \cup {Dqs(c[1])}}
Junk   == [junk |-> TRUE]

VARIABLES
    scc,       \* the scan chain manager, with the
               \*   file     the register file, by block
               \*   enabled  the blocks enabled for the next update
               \*   counter  SCC_MGR_GROUP_COUNTER
               \*   chain    the settings that the pins have, by chain
    pc,
    group,     \* write_group, which is read_group
    d,         \* the output delay of rw_mgr_mem_calibrate_vfifo
    orig,      \* its orig_start_dqs
    dqsIn,     \* its dqs_in_dtaps
    start,     \* start_dqs of a deskew
    tap,       \* the loop counter of a deskew, or of the guaranteed read
    last,      \* the read deskew is that of rw_mgr_mem_calibrate_vfifo_end
    failing    \* failing_groups, as whether there are any

locals == <<d, orig, dqsIn, start, tap, last>>
vars == <<scc, pc, group, locals, failing>>

-----------------------------------------------------------------------------
(* Writes to the manager.                                                  *)

SetPins(s, field, f) ==
    [s EXCEPT !.file = [b \in Blocks |->
        IF b \in AllPins THEN [s.file[b] EXCEPT ![field] = f[b[2]]]
                         ELSE s.file[b]]]

SetIo(s, b, v) == [s EXCEPT !.file[b] = v]

SetDqs(s, g, field, v) == [s EXCEPT !.file[Dqs(g)][field] = v]

Enable(s, bs) == [s EXCEPT !.enabled = @ \cup bs]

Select(s, g) == [s EXCEPT !.counter = g]

Update(s) ==
    [file |-> s.file, enabled |-> {}, counter |-> s.counter,
     chain |-> [c \in Chains |->
         IF c[2] \in s.enabled /\ (c[2] \in IoBlocks => c[1] = s.counter)
         THEN s.file[c[2]] ELSE s.chain[c]]]

(* The procedures that set a delay and enable its blocks.  All pins get    *)
(* one delay unless a function gives each its own.                         *)
Each(v) == [i \in Pins |-> v]

ApplyDqIn(s, f)   == Enable(SetPins(s, "in", f), AllPins)
ApplyDqOut1(s, f) == Enable(SetPins(s, "out", f), AllPins)
ApplyDmOut1(s, v) == Enable(SetIo(s, Mask, v), {Mask})
ApplyDqsIn(s, g, v) == Enable(SetDqs(s, g, "in", v), {Dqs(g)})

ApplyDqsIoAndOctOut1_NoOct(s, g, v) ==
    Enable(SetDqs(SetIo(s, Strobe, v), g, "oct", v), {Strobe})

ApplyDqsIoAndOctOut1(s, g, v) ==
    Enable(SetDqs(SetIo(s, Strobe, v), g, "oct", v),
           {Strobe, Dqs(g)})

SetDqsAllRanks(s, g, field, v) ==
    Update(Enable(SetDqs(s, g, field, v), {Dqs(g)}))

SetBypassMode(s, g) == Update(Enable(s, IoBlocks \cup {Dqs(g)}))

(* The chains of the DQ pins and of the mask have no second stage on this  *)
(* board, so that the procedure delays the strobe and its termination.     *)
AllOutDelayAdd(s, g, v) ==
    Update(Enable(ApplyDqsIoAndOctOut1(s, g, v), AllPins \cup {Mask}))

ZeroAll(s) ==
    Update(Enable([s EXCEPT !.file = [b \in Blocks |->
        IF b \in IoBlocks THEN s.file[b]
        ELSE [in |-> DqsInReserve, oct |-> DqsOutReserve,
              enPhase |-> 0, enDelay |-> 0, outPhase |-> 0]]],
        {Dqs(g) : g \in Groups}))

ZeroGroup(s, g, outOnly) ==
    LET dq   == SetPins(s, "out", Each(0))
        pins == IF outOnly THEN dq ELSE SetPins(dq, "in", Each(0))
        io   == ApplyDqsIoAndOctOut1(Enable(pins, AllPins), g, DqsOutReserve)
    IN  Update(ApplyDmOut1(io, 0))

-----------------------------------------------------------------------------
(* The register file after scc_mgr_initialize.                             *)
Cleared ==
    [b \in Blocks |->
        CASE b \in AllPins -> [in |-> 0, out |-> 0]
          [] b \in {Strobe, Mask} -> 0
          [] OTHER -> [in |-> 0, oct |-> 0,
                       enPhase |-> 0, enDelay |-> 0, outPhase |-> 0]]

Init ==
    /\ scc = [file |-> Cleared, enabled |-> {}, counter |-> 0,
              chain |-> [c \in Chains |-> Junk]]
    /\ pc = "bypass"
    /\ group = 0
    /\ d = 0 /\ orig = 0 /\ dqsIn = 0 /\ start = 0 /\ tap = 0
    /\ last = FALSE
    /\ failing = FALSE

(* mem_calibrate before its groups.                                        *)
Bypass ==
    /\ pc = "bypass" /\ group < NumGroups
    /\ scc' = SetBypassMode(Select(scc, group), group)
    /\ group' = group + 1
    /\ UNCHANGED <<pc, locals, failing>>

ZeroDqsConfig ==
    /\ pc = "bypass" /\ group = NumGroups
    /\ scc' = ZeroAll(scc)
    /\ pc' = "group" /\ group' = 0
    /\ UNCHANGED <<locals, failing>>

(* The end of a group, with the manager in state s.                        *)
LeaveGroup ==
    d' = 0 /\ orig' = 0 /\ dqsIn' = 0 /\ start' = 0 /\ tap' = 0 /\ last' = FALSE

GroupPasses(s) ==
    /\ scc' = s
    /\ pc' = "group" /\ group' = group + 1
    /\ LeaveGroup
    /\ UNCHANGED failing

GroupFails(s) ==
    /\ scc' = s
    /\ IF SweepAllGroups THEN pc' = "group" /\ group' = group + 1
                         ELSE pc' = "failed" /\ UNCHANGED group
    /\ failing' = TRUE
    /\ LeaveGroup

-----------------------------------------------------------------------------
(* rw_mgr_mem_calibrate_vfifo: output delays, and for each that passes the *)
(* guaranteed read the delays of DQS.  There is one output phase.          *)

SetOutPhase(s) == SetDqsAllRanks(s, group, "outPhase", 0)

StartGroup_LateCounter ==
    /\ pc = "group" /\ group < NumGroups
    /\ scc' = SetOutPhase(Select(ZeroGroup(scc, group, FALSE), group))
    /\ pc' = "guaranteed"
    /\ UNCHANGED <<group, locals, failing>>

StartGroup ==
    /\ pc = "group" /\ group < NumGroups
    /\ scc' = SetOutPhase(ZeroGroup(Select(scc, group), group, FALSE))
    /\ pc' = "guaranteed"
    /\ UNCHANGED <<group, locals, failing>>

NextOutDelay(s) ==
    \/ /\ d + 2 <= DtapsPerPtap
       /\ d' = d + 2
       /\ scc' = SetOutPhase(AllOutDelayAdd(s, group, d + 2))
       /\ pc' = "guaranteed"
       /\ orig' = 0 /\ dqsIn' = 0 /\ start' = 0 /\ tap' = 0
       /\ UNCHANGED <<group, last, failing>>
    \/ d + 2 > DtapsPerPtap /\ GroupFails(s)

(* A guaranteed read that fails is tried again with every phase of the DQS *)
(* enable.                                                                 *)
GuaranteedReadRetry ==
    /\ pc = "guaranteed" /\ tap <= EnPhaseMax
    /\ tap' = tap + 1
    /\ scc' = SetDqsAllRanks(scc, group, "enPhase", tap)
    /\ UNCHANGED <<pc, group, d, orig, dqsIn, start, last, failing>>

GuaranteedReadFails ==
    pc = "guaranteed" /\ tap > EnPhaseMax /\ NextOutDelay(scc)

(* The search for the DQS enable starts with the DQ inputs spread over     *)
(* their range.                                                            *)
Spread == [i \in Pins |-> i * (InMax \div (NumPins - 1))]

StartSearch(s, t) ==
    LET dqs    == Update(ApplyDqsIn(s, group, t))
        spread == Update(ApplyDqIn(dqs, Spread))
    IN  /\ dqsIn' = t
        /\ scc' = SetDqsAllRanks(SetDqsAllRanks(spread, group, "enDelay", 0),
                                 group, "enPhase", 1)
        /\ pc' = "search"
        /\ start' = 0 /\ tap' = 0
        /\ UNCHANGED <<group, d, last, failing>>

GuaranteedReadPasses ==
    /\ pc = "guaranteed"
    /\ orig' = scc.file[Dqs(group)].in
    /\ StartSearch(scc, scc.file[Dqs(group)].in)

SearchStep ==
    /\ pc = "search"
    /\ \/ \E p \in 0 .. EnPhaseMax :
             scc' = SetDqsAllRanks(scc, group, "enPhase", p)
       \/ \E t \in 0 .. EnDelayMax :
             scc' = SetDqsAllRanks(scc, group, "enDelay", t)
    /\ UNCHANGED <<pc, group, locals, failing>>

SearchOver == Update(ApplyDqIn(scc, Each(0)))

NextDqsIn(s) ==
    \/ dqsIn < DqsInMax /\ UNCHANGED orig /\ StartSearch(s, dqsIn + 1)
    \/ dqsIn = DqsInMax /\ NextOutDelay(s)

SearchFails == pc = "search" /\ NextDqsIn(SearchOver)

-----------------------------------------------------------------------------
(* rw_mgr_mem_calibrate_vfifo_center, called with the manager in state s.  *)

StartReadCenter(s, isLast) ==
    /\ start' = s.file[Dqs(group)].in
    /\ tap' = 0
    /\ last' = isLast
    /\ scc' = Update(ApplyDqIn(s, Each(0)))
    /\ pc' = "left"
    /\ UNCHANGED <<group, d, orig, dqsIn, failing>>

SearchSucceeds ==
    /\ pc = "search"
    /\ StartReadCenter(Update(ApplyDqsIn(SearchOver, group, orig)), FALSE)

LeftStep ==
    /\ pc = "left" /\ tap < InMax
    /\ tap' = tap + 1
    /\ scc' = Update(ApplyDqIn(scc, Each(tap + 1)))
    /\ UNCHANGED <<pc, group, d, orig, dqsIn, start, last, failing>>

LeftOver ==
    /\ pc = "left"
    /\ tap' = 0
    /\ scc' = Update(ApplyDqsIn(ApplyDqIn(scc, Each(0)), group, start))
    /\ pc' = "right"
    /\ UNCHANGED <<group, d, orig, dqsIn, start, last, failing>>

RightStep ==
    /\ pc = "right" /\ tap < DqsInMax - start
    /\ tap' = tap + 1
    /\ scc' = Update(ApplyDqsIn(scc, group, start + tap + 1))
    /\ UNCHANGED <<pc, group, d, orig, dqsIn, start, last, failing>>

ReadCenterFails(s) == IF last THEN GroupFails(s) ELSE NextDqsIn(s)

ReadNoWindow ==
    /\ pc = "right"
    /\ ReadCenterFails(Update(ApplyDqsIn(scc, group, start)))

(* The windows are centred; then the delays are kept or not.               *)
Centred(f, v) == Update(ApplyDqsIn(ApplyDqIn(scc, f), group, v))

ReadOffCenter ==
    /\ pc = "right"
    /\ \E f \in DqChoices, v \in 0 .. DqsInMax : ReadCenterFails(Centred(f, v))

-----------------------------------------------------------------------------
(* rw_mgr_mem_calibrate_writes_center.  The outputs are set back first if  *)
(* the calibration of the VFIFO has moved them.                            *)

StartWriteCenter(s) ==
    LET out == IF d + 2 > 2 THEN ZeroGroup(s, group, TRUE) ELSE s
    IN  /\ start' = out.file[Strobe]
        /\ tap' = 0
        /\ d' = 0 /\ orig' = 0 /\ dqsIn' = 0
        /\ scc' = Update(ApplyDqOut1(out, Each(0)))
        /\ pc' = "writeLeft"
        /\ UNCHANGED <<group, last, failing>>

ReadCenterPasses ==
    /\ pc = "right"
    /\ \E f \in DqChoices, v \in 0 .. DqsInMax :
          IF last THEN GroupPasses(Centred(f, v))
                  ELSE StartWriteCenter(Centred(f, v))

WriteLeftStep ==
    /\ pc = "writeLeft" /\ tap < OutMax
    /\ tap' = tap + 1
    /\ scc' = Update(ApplyDqOut1(scc, Each(tap + 1)))
    /\ UNCHANGED <<pc, group, d, orig, dqsIn, start, last, failing>>

WriteLeftOver ==
    /\ pc = "writeLeft"
    /\ tap' = 0
    /\ scc' = Update(ApplyDqsIoAndOctOut1(ApplyDqOut1(scc, Each(0)),
                                          group, start))
    /\ pc' = "writeRight"
    /\ UNCHANGED <<group, d, orig, dqsIn, start, last, failing>>

(* The strobe is moved against DQ, and then against the mask.              *)
StrobeStep ==
    /\ pc \in {"writeRight", "dmRight"} /\ tap < OutMax - start
    /\ tap' = tap + 1
    /\ scc' = Update(ApplyDqsIoAndOctOut1(scc, group, start + tap + 1))
    /\ UNCHANGED <<pc, group, d, orig, dqsIn, start, last, failing>>

WriteNoWindow == pc = "writeRight" /\ GroupFails(scc)

CenterDq ==
    /\ pc = "writeRight"
    /\ tap' = OutMax
    /\ \E f \in DqChoices :
          LET dq == Update(ApplyDqsIoAndOctOut1(ApplyDqOut1(scc, f),
                                                group, start))
          IN  scc' = Update(ApplyDmOut1(dq, OutMax))
    /\ pc' = "dmLeft"
    /\ UNCHANGED <<group, d, orig, dqsIn, start, last, failing>>

DmStep ==
    /\ pc = "dmLeft" /\ tap > 0
    /\ tap' = tap - 1
    /\ scc' = Update(ApplyDmOut1(scc, tap - 1))
    /\ UNCHANGED <<pc, group, d, orig, dqsIn, start, last, failing>>

DmOver ==
    /\ pc = "dmLeft" /\ tap = 0
    /\ scc' = Update(ApplyDqsIoAndOctOut1(ApplyDmOut1(scc, 0), group, start))
    /\ pc' = "dmRight"
    /\ UNCHANGED <<group, d, orig, dqsIn, start, tap, last, failing>>

CenteredDm(v) ==
    Update(ApplyDmOut1(ApplyDqsIoAndOctOut1(scc, group, start), v))

WriteOffCenter ==
    /\ pc = "dmRight"
    /\ \E v \in 0 .. OutMax : GroupFails(CenteredDm(v))

(* The writes are calibrated; rw_mgr_mem_calibrate_vfifo_end follows.      *)
WritesPass ==
    /\ pc = "dmRight"
    /\ \E v \in 0 .. OutMax : StartReadCenter(CenteredDm(v), TRUE)

-----------------------------------------------------------------------------
(* mem_calibrate after its groups: the latency is calibrated with all of   *)
(* them, and a last update applies what is still to be applied.            *)
GroupsOver ==
    /\ pc = "group" /\ group = NumGroups
    /\ pc' = IF failing THEN "failed" ELSE "latency"
    /\ UNCHANGED <<scc, group, locals, failing>>

LfifoOver ==
    /\ pc = "latency"
    /\ \/ pc' = "failed" /\ UNCHANGED scc
       \/ pc' = "done" /\ scc' = Update(scc)
    /\ UNCHANGED <<group, locals, failing>>

Next ==
    \/ Bypass \/ ZeroDqsConfig
    \/ StartGroup
    \/ GuaranteedReadRetry \/ GuaranteedReadFails \/ GuaranteedReadPasses
    \/ SearchStep \/ SearchFails \/ SearchSucceeds
    \/ LeftStep \/ LeftOver \/ RightStep
    \/ ReadNoWindow \/ ReadOffCenter \/ ReadCenterPasses
    \/ WriteLeftStep \/ WriteLeftOver \/ StrobeStep
    \/ WriteNoWindow \/ CenterDq \/ DmStep \/ DmOver
    \/ WriteOffCenter \/ WritesPass
    \/ GroupsOver \/ LfifoOver

Spec == Init /\ [][Next]_vars

-----------------------------------------------------------------------------
ReadTests  == {"guaranteed", "search", "left", "right"}
WriteTests == {"writeLeft", "writeRight", "dmLeft", "dmRight"}

Applied(s, c) == s.chain[c] = s.file[c[2]]

(* Whenever the memory is tested, the pins of the group under test have    *)
(* the settings that the code takes them to have, those it reads back from *)
(* the register file, and the termination is delayed like the strobe.  In  *)
(* the end every DQS block has its settings, and none waits for an update  *)
(* ("makes sure all of our decisions have been applied").                  *)
TestedAsSet ==
    /\ pc \in ReadTests \cup WriteTests =>
          /\ \A c \in Chains : c[1] = group => Applied(scc, c)
          /\ scc.file[Dqs(group)].oct = scc.file[Strobe]
    /\ pc \in {"latency", "done"} =>
          /\ \A g \in Groups : Applied(scc, <<g, Dqs(g)>>)
          /\ scc.enabled = {}

(* A group that has been calibrated keeps its settings while the others    *)
(* are, although they share the register file.                             *)
SettledStays ==
    [][\A c \in Chains : pc # "bypass" /\ c[1] < group =>
          scc'.chain[c] = scc.chain[c]]_vars

=============================================================================
