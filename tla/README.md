# A TLA+ model of the DE1-SoC board support

This directory specifies, model-checks and in part proves the logic of the
DE1-SoC Linux framebuffer project. The largest program of the repository, and
the one on which all else depends, is the sequencer that calibrates the DDR3
memory when the board starts (`hps_isw_handoff/soc_system_hps_0/sequencer.c`);
the rest is FPGA hardware around a Qsys system. The models follow the sources
as they are compiled for this board: DDR3, a Cyclone V hard PHY, one rank, as
many read as write groups, `HPS_HW` with no levelling and no Tcl debugging
(`sequencer_defines.h`).

## 1. Inventory

| Component | State it keeps | Operations | Interacts with |
|---|---|---|---|
| Calibration, top level | `gbl` (error, read latency), register file, the status in `PHY_MGR_CAL_STATUS`, DQS delays in the SCC manager | `run_mem_calibrate`, `mem_calibrate`, the stages `rw_mgr_mem_calibrate_vfifo`, `_writes`, `_vfifo_end`, `_lfifo` | calls the searches; takes the PHY from and gives it to the memory controller; stops the tracking manager; software polls the status |
| DQS enable search | VFIFO, phase and delay tap; accumulated times | `rw_mgr_mem_calibrate_vfifo_find_dqs_en_phase` | called by the VFIFO stage; reads the memory |
| Read deskew | edges of each bit's window, DQ and DQS input delays | `rw_mgr_mem_calibrate_vfifo_center` | called by the VFIFO stage, twice a group |
| Write deskew | the same of the outputs, and the runs of good DM delays | `rw_mgr_mem_calibrate_writes_center` | called by the write stage; writes the memory |
| Command sequences | four counters and jump addresses of the RW manager, chip selects and terminations, the state of the ranks | `rw_mgr_mem_initialize`, `mem_precharge_and_activate`, `mem_config`, `delay_for_n_mem_clocks`, the patterns, read and write tests, `rw_mgr_mem_handoff` | run by all stages; play instructions to the memory |
| Delay settings | the register file of the scan chain manager, the blocks enabled, the group counter, the chains at the pins | the `scc_mgr_` functions | called by all stages, the searches and the deskews, before every test |
| DQS tracking set-up | register file, tracking registers | `initialize_tracking`, `initialize_hps_phy` | before the calibration, for the tracking manager in hardware |
| Audio interface | two dual-clock FIFOs, a pair of read registers, two shift registers | Avalon reads and writes, I2S frames | software; the codec |
| Infrared receiver | a decoder of four counters, a frame buffer, an interrupt | edges of the input, read, clear of the interrupt | software; the remote control |
| Log generator | a packet state machine, two counters, a FIFO | a word a clock, back-pressure | the video pipeline |
| Debouncer, interrupt capture | a counter a button; a register | a clock | buttons; software |
| Nios example | none to speak of | LED demo; SD card reader nobody calls | parallel ports |
| Top level, Qsys interconnect, vendor IP, hand-off tables, build files | generated or structural | | |

What is hard about these. The sequencer is one thread that runs straight
through, so it has no interleavings of its own; what it has is an environment
that answers tests at will, retries nested three deep whose leftovers the next
stage finds in hardware registers, searches over wrapped and coupled counters
with special cases (phase 0 does not exist on a hard PHY), arithmetic on signed
edges with early exits, and an order of hand-over to hardware that runs on its
own. A setting takes effect only after it has been written, its block enabled
and an update given, in registers that all groups share; a command only after
the counters of a loop have been loaded, which earlier procedures have left at
something. The peripherals have pipelines of registers, FIFOs between clocks
and software that reads late.

What makes each part correct:

* top level: success is published only for a memory all of which has been
  calibrated; failure always has a cause; the PHY has one owner; the verdict
  comes last; it always comes.
* searches: the range found works, the centre is the centre, what can be
  calibrated is, and no setting leaves its register or its delay chain.
* commands: the memory gets them in the order and at the distances of its
  protocol, at the right rank, at any loop count; every run returns.
* delay settings: what is tested is what was set, and what was settled stays.
* peripherals: samples stay paired and in order, packets are whole, a frame
  reported can be read.

`PROJECT.json` lists under "hazards" each of these places with its line.

## 2. Modules

| Module | Models | Proofs |
|---|---|---|
| `Calibration` | `run_mem_calibrate`, `mem_calibrate` and the four stages | `Calibration_proofs` |
| `CalibrationSpec` | what the calibration promises (abstract) | (refinement, in `Calibration_proofs`) |
| `VfifoSearch` | `rw_mgr_mem_calibrate_vfifo_find_dqs_en_phase` | `VfifoSearch_proofs` |
| `Deskew` | the arithmetic the two deskews share | (lemmas, in their proofs) |
| `ReadCenter` | `rw_mgr_mem_calibrate_vfifo_center` | `ReadCenter_proofs` |
| `WriteCenter` | `rw_mgr_mem_calibrate_writes_center` | `WriteCenter_proofs` |
| `RwManager` | the RW manager's engine and its program (`sequencer_auto_inst_init.c`) | (with `MemCommands`) |
| `Dram` | a rank of the memory: its protocol, timing and patterns (external) | (with `MemCommands`) |
| `MemCommands`, `MCMemCommands` | every procedure that runs the RW manager, composed with `RwManager` and `Dram`; the boards of the run | `MemCommands_proofs`, `MemTiming_proofs` |
| `DelaySettings`, `MCDelaySettings` | the `scc_mgr_` functions and the places of the calibration that call them | `DelaySettings_proofs` |
| `AudioIf` | what both directions of the audio interface share | (in `Peripherals_proofs`) |
| `AudioIn` | `ip/TERASIC_AUDIO`, recording: `AUDIO_ADC.v`, its FIFO, the read registers of `AUDIO_IF.v` | `Peripherals_proofs` |
| `AudioOut` | the same, playing: the write registers, the FIFO, `AUDIO_DAC.v` | `Peripherals_proofs` |
| `Audio` | both directions together, the module of the run | `Peripherals_proofs` |
| `IrReceiver` | `ip/TERASIC_IRM`, decoder and bus interface | `Peripherals_proofs` |
| `LogGenerator` | `ip/my_log_generator`, with its FIFO and ROM | `Peripherals_proofs` |
| `VideoStream` | what the log generator promises (abstract) | (refinement, in `Peripherals_proofs`) |

### Calibration

`pc` says where `run_mem_calibrate` is; the other variables are the locals and
registers that are named next to them. A test of the memory has an action per
outcome, and so has each search: `FindDqsEnPhaseFails` and
`FindDqsEnPhaseSucceeds`, `ReadCenterPasses`, `ReadCenterOffCenter` (a negative
margin) and `ReadCenterNoWindow`, and so on for writes. Whatever a search does
to the hardware that later code reads is in the action: the DQS input delay a
centring leaves is any of its delay chain. The three nested loops of
`rw_mgr_mem_calibrate_vfifo` are the variables `d`, `dqsInDtaps` and the
locations `guaranteed`, `sweep`, `center`. `ReadLats` are the latencies that
the interface may report. Two variables are history, which nothing reads but the
properties and the refinement: `result`, what became of each group, and
`goodLats`, the latencies at which the read test of the latency search passed.

`LatencyFits` says that success leaves the latency one above the smallest that
read, and when it is then more than its counter holds: only if the first latency
tried is the largest and no smaller one reads. The code adds its fudge cycle
without a second look at the bound (`LfifoFound`). On this board the case cannot
arise, as 11 + 16 = 27 is tried first and 31 is the largest.
`PublishedAfterHandoff` says that tracking is not restored before the controller
has the memory, nor a verdict published before both.

Left out: figures of merit, the loops over ranks and shadow registers (there is
one of each), the update commands of the SCC manager and OCT settings (in
`DelaySettings`), the delays of DQ and DM pins (which are in the two deskew
modules and in `DelaySettings`), the Tcl report (not compiled), and the settings
of the VFIFO and DQS enable (in `VfifoSearch`).

`CalibrationSpec` has two variables: the status and the results. Groups are
settled in order, once, and then there is one verdict. `KeepsPromise` states
that `Calibration` implements it with `status <- calStatus`.

### VfifoSearch

Time is counted as the code counts it, in `IO_DELAY_PER_OPA_TAP` and
`IO_DELAY_PER_DQS_EN_DCHAIN_TAP`; the DQS enable of a setting opens at
`Time(v, phase, delay)`, modulo the cycles of the VFIFO. The memory is a window
(first time and length), fixed but arbitrary, and reads in it pass. `origin`
remembers the VFIFO setting from which the times of the search count. Every
iteration of every loop is an action; `pc` names the step (`push` 1, `begin` 2,
`backoff` 3a, `end` 4a and 5a, `edge` 5b, `passing` and `failing` the
measurement, `settle` step 6).

### ReadCenter and WriteCenter

Each bit has a window `lo[b] .. hi[b]` of offsets, the DQ delay less what DQS
was moved. A test returns the set of passing bits: sure ones well inside, any
of those within `Fuzz` of an edge. The two sweeps are `SearchLeft` and
`SearchRight`, one test a step, with the marks for the other edge that the code
leaves in the arrays; `Center`, `CenterDq` and `CenterDm` do the arithmetic with
C's division. In `WriteCenter` the search for DM keeps the current and the best
run, first over delays of DM (places -d) and then over delays of DQS (places d).
The sticky bits are a set. Figures of merit are left out. The recovery of a
memory after a DQS violation is left out, since it restores a state that the
oracle does not have.

### RwManager, Dram and MemCommands

The engine plays an instruction of its ROM in each clock. `Advance`, `Jump`
(a counter that is not zero is decremented), `Exhaust` (one that is zero is
reloaded and the engine goes on) and `Return` are its steps, `LoadCntr`,
`LoadJump` and `Run` what the CPU does to it. The program is the one of
`sequencer_auto_inst_init.c`; a word for the pins stands for its entry in
`sequencer_auto_ac_init.c` and `Decode` says which command that is. How the
engine counts is not in the repository: it is taken from the comments that
compute the counters (2049-2062, 2355-2367).

`MemCommands` is the CPU's side. A procedure is a sequence of register writes;
`Times` repeats such a sequence as the loops of the code do, and `Live` are the
ranks that are not skipped, for which in turn a stage calls its procedures
(`ForRanks`). A board has one, two or four ranks in one or two modules
(`BoardAssumption`), those whose terminations `set_rank_and_odt_mask` knows.
`Write` does the next one and takes `WriteClocks` of the memory's clocks; a run
makes the CPU wait until the engine has returned. `Procedures` are the stages of
`run_mem_calibrate`, in the order in which they call; the outcome of a test is
open, so that any stage may be repeated or be the last. A read test repeats
its run for each virtual group and loads the counters for the first of them
only: `LoopsStartLoaded` says that each loop still starts with the whole of its
count, as the engine reloads a counter that has run out, and also where another
procedure has left a counter half run down (`first` is what the counters hold
when a run begins). In every clock each
selected rank gets what the engine plays (`Played`). `Dram` keeps, for a rank,
the clocks since each event a rule looks back at, which mode registers have been
loaded, which rows are open and which pattern is in the cells; it records
whether a command came when it may not. The values in `Dram` are those of
`emif.xml`; the memory itself is external.

### DelaySettings

`scc` is the scan chain manager: the register `file`, what is `enabled`, the
group `counter` and the `chain`s at the pins. Each `scc_mgr_` function is an
operator from one such record to the next (`SetIo`, `LoadDq`, `Update`, ...), as
the functions call one another; an action composes those that the code calls
between one test and the next. The delays that a deskew chooses are any of
`DqChoices`. A guaranteed read that fails is repeated with every phase of the
DQS enable (`GuaranteedReadRetry`). `TestedAsSet` says that whenever the memory is tested, the chains of
the group in hand have what the code has last written for each of its blocks,
and that DQS and OCT move together; and that in the end, and while the latency
is tested for all groups, every DQS block has its own. `SettledStays` says that
the chains of earlier groups do not change.

### AudioIn and AudioOut

Each has the codec's clock and the bus's, interleaved in any way. Recording: the
codec sends a bit with each bit clock and pads each channel at will
(`CodecMoves`); `Deserialise` takes it as the `always` block of `AUDIO_ADC.v`
does, with blocking assignments in sequence; `ReadRegisters` is the pair of
blocks on the falling edge of the bus clock and `ReadFifo` the rising one. A bit
is known by its frame, channel and place, so that a word put together wrongly
is seen. Playing: `WriteRegisters`, `WriteFifo` and `ClearFifo` are on the bus's
side, `DacClock` the serialiser, and `LeftStarts` and `RightStarts` the two edges
of the channel signal, which the code uses as clocks of the FIFO and of the
latch. Flags of the FIFO reach the other side late (`full` in `AdcClock`,
`seen` in `AudioOut`), as those of a dual-clock FIFO do. `old` names the
registers behind the FIFO whose word is from before the last clear: what they
have is not one of the words that are numbered from the clear on.

What is assumed of the host: it writes and reads samples as left then right and
clears only in between; and when playing it leaves the bus idle for a clock
after a sample and after a clear, as a processor behind a bridge does. Where
a register is assigned with `=` in one block and read in another on the same
edge, the simulation order is open; the model has the hardware that is
synthesised from it, where both are registers.

### IrReceiver

A step is a clock. Each `always` block is a conjunct that reads all registers as
they were before it, which is how their lags come about: the line is seen by an
enable flag, the flag by a counter a clock later, the counter by the pointer and
the bits another clock later. The line `ir` changes at will, and so does the
software, which reads and clears the interrupt. Three history variables stand
beside: the length of the high in progress, for each pulse whether it was long,
and the interrupts since the guide. `DecodesPulses` compares the decoder's
registers with them. What it shows is exact: a high of n clocks is a pulse if n
is at least `BIT_AVAILABLE_DUR`, and a one if n is at least `DATA_HIGH_DUR`; the
rest of a guide's high counts as a pulse too, if it is that long, which the
choice of `GUIDE_HIGH_DUR` is to prevent.

### LogGenerator

A step is a clock here too, made of one transition of the packet state machine
with its counters (`Stall`, `CtrlPktSop`, `CtrlPktDat`, `DataPktSop`,
`DataPktDat`), the two registers before the FIFO (`LatchRegisters`) and the
FIFO's own write and read (`Output`). The FIFO follows its parameters in `log_fifo.v`: no
show-ahead, a full one ignores writes, flags by the number of words. The ROM
puts out the dot whose address it was given a clock before. Words in the FIFO
carry, for the properties only, their place in the stream.

`VideoStream` says what a sink may rely on: places follow one another, the beat
at each is the one that belongs there, and a beat is taken exactly when the
stream moves on (`taken` turns over in both modules). It also records two
peculiarities of the code: the first beat is blank and the first control packet
has lost its header, because the state machine moves in the first clock and the
write enable is still off; and the picture is a dot late, its first dot shown
twice and its last never, because no register delays the counters to match the
ROM.

## 3. Runs

| Run | Question | Bounds |
|---|---|---|
| `calibration` | every outcome of every test, all properties and the refinement | two groups, DQS chain 0..3 with reserve 1, three output delays |
| `calibration_debug` | sweeping on after failures, skipped groups, debug mode | three groups, one of them skipped |
| `vfifo_search` | every position of six lengths of window, with sharp and with unreliable edges | a VFIFO of 4 cycles of 8 phases of 5 units; delay taps of 2 |
| `read_center` | all windows of two bits, with sharp and with unreliable edges | chains 0..3, all starting delays |
| `write_center` | all windows of two bits and DM, sharp edges | chains 0..3, reserve 1 |
| `mem_commands` | nine boards: one, two and four ranks, mirrored, skipped, four write latencies | loop counts of the delays, 8 reads and 16 writes a test; 5 clocks a register write |
| `delay_settings` | every outcome of every test, sweeping all groups on | two groups, two pins, chains of two and three |
| `audio` | any interleaving of the two clocks, clears, full and empty FIFOs, both ways of reading | two bits a channel, padding 0 or 1, FIFOs of two words, numbers modulo 4 and 7 |
| `ir_receiver` | any line, any software | four bits a frame, durations 2, 4, 5, 6, 7 in the order of the real ones |
| `log_generator` | any ready signal | a picture of 4 by 3, a FIFO of five words, flags at 3 and 2 |

Why these bounds are enough. Two groups are the fewest in which one follows
another, and every property of the top level speaks of one group or of an order
of two; three let one be skipped in between. A DQS chain of four has delays
below, at and above the reserve, so that sweeps that begin in the middle and
ones that begin at the end both occur. Three output delays (0, 2, 4) give the
first, a middle and the last retry, and `OutMax` lies above them as on the
board. Of the latencies reported, one with its margin is below the largest (6)
and one above, so that both the latency as it is and the clamped one are tried;
the search may fail at any point, the first one included. In `VfifoSearch` the phase tap is deliberately not a multiple of the
delay tap, and lengths lie on both sides of every threshold (a delay tap, a
phase, half a cycle, a cycle, two failing reads). In the deskews, windows reach
beyond both ends of the chains, so clipping happens on each side; two bits show
any relation of one to the rest, as the code only compares each with the
minimum. Nothing grows without bound in any module: all loops of the code are
bounded, and the models take their bounds from them.

In `IrReceiver` durations keep their order and their gaps of at least a clock,
the counters wrap just above the largest as on the board, and four bits are the
fewest that can be checked (a bit and its complement). In `LogGenerator` the
FIFO fills, stalls in every state of a packet, and runs down to the almost-empty
flag; the picture is wider than a control packet, as on the board.

In `mem_commands` all clocks of the protocol are the real ones (`WriteClocks`
is five because a write of the bus takes a clock of 67 MHz, the memory's is 401;
`CommandsLegal` also holds with four, and fails with fewer: two mode register
commands then come too close). Loop counters are small where only the
number of rounds grows with them: a read test of 8 rounds reads every row and
bank as often as one of 50. The real values (0x20, 0x32, 0x06, 3 and 0x40) pass
as well, in twice the time. In `delay_settings` chains of two and three delays
have a value below, at and above each reserve; the second group finds the first
one's leftovers in everything the two share. In `audio` two bits a channel are
the fewest with an order; the FIFOs fill, overflow and run dry; and the numbers
are more than can be on their way at once (two in the FIFO, one in each
register), so that a word cannot be mistaken for another one.

Deadlock checking is off in the runs of the sequencer, because the program ends,
and on for the peripherals, which never do.

Runs that are expected to fail show disagreements of the code with its own
words; each checks the statement of a comment, message or assertion:

* `vfifo_dtaps_per_ptap`: from phase 1 "a ptap" back is two, since phase 0 does
  not exist. What is reported to the tracking manager is then twice the value.
* `ir_last_bit`: a frame is not complete when it is checked. Its last bit is
  still 0, so that one which is a data error may raise the interrupt; the ready
  flag then falls again and the interrupt stays.

More, which the models show in their actions or in a constant, and on which no
run is spent:

* The first error recorded stays on record, so that the stage published as
  failing may be that of an attempt that a retry has repaired
  (`SetFailingGroupStage`). The assertion there that its argument is a write
  group (593) does not hold for callers that pass a bit or 255 (5292, 5294,
  6207, 7408).
* The comment at 5938 says that the DQS delay is set back to the reserve value;
  5939 sets it to `orig_start_dqs`, read at 5849 from what the failed sweep
  before has left.
* `scc_mgr_apply_group_all_out_delay_add` is said to delay "the entire output
  side (DQ, DM, DQS, OCT)" (1888, 1964), with what does not fit OUT2 added to
  OUT1. On this device OUT2 has no taps and its macros are empty: DQ and DM are
  not delayed, and OUT1 of DQS and OCT is not increased by the delay but set to
  it, which for 2 is below their reserve of 4.
* When the beginning of the DQS enable window is found at phase 1 nothing was
  decremented in step 3a, but the state is incremented all the same, and the
  search for the end starts a phase late (`ForwardToEnd`); `Centred` and
  `FindsWindow` show that this does no harm to a window of the usual width.
* Recording is a sample late, or two if the host reads the right word on the
  clock after the left one, which then gets a sample from before a clear after
  it (`SamplesInOrder` states both bounds).
* Playing: a host that polls the status on the clock after it has written the
  right word may find the FIFO not yet full and lose a word; the write in the
  clock after a clear is dropped. Hence the idle clock that is assumed. The
  last word before the FIFO runs dry is held back until the next one arrives,
  and after a clear the words in the latch and behind the FIFO may still be
  played. A clear lasts one clock of the bus, and the processes on the bit
  clock mostly miss it; one that is seen in the left half of a frame misaligns
  that frame (`misaligned`).

## 4. Liveness and fairness

`Terminates` in `Calibration` and `VfifoSearch` assumes weak fairness of `Next`
as a whole and nothing else: the sequencer is a single thread on its own
processor, started after reset, and never blocks on anything in these functions
but tests of the hardware, which always return. No fairness is assumed of the
answers: the memory may fail for ever. In the peripherals fairness of `Next`
says that the clock runs. `RecoversWhenQuiet` and `KeepsSending` take the rest
as a premise: a line that becomes quiet, a sink that is ready again and again.

In `MemCommands`, `RunsReturn` assumes weak fairness of `Clocked` (the
memory's clock runs while the engine plays) and of `Write` (the CPU goes on with
a procedure it has begun), and none of the start of the next procedure: the
calibration may end at any.

## 5. Theorems

`tlapm` checks these for all values of the constants that satisfy the named
assumptions (`SizeAssumption`, `LatencyAssumption`, `DebugAssumption`,
`CenterAssumption`, `WriteAssumption`, `FifoAssumption`, `CntrAssumption`,
`SettingsAssumption`, `SearchAssumption`, `WindowAssumption`,
`DurationAssumption`, `AudioIfAssumption`, `AudioInAssumption`,
`AudioOutAssumption`, `BoardAssumption`, `CommandsAssumption`,
`TimingAssumption`), which say no more
than that sizes are natural numbers, that a reserve lies in its delay chain and
retries of the output delay fit into theirs, that a delay tap of the DQS enable
is no longer than a phase and its chain two phases long (31 taps of 25 ps to
two phases of 312 ps on this board), that the FIFO's flags lie inside it, that
the durations of the infrared decoder are in the order the code has them, that a
board has one, two or four ranks in one or two modules, not all of them skipped,
that what is loaded into the counters of the RW manager fits them, and that a
write test has fewer rounds than the 0xFF which it loads into the counter that
skips them. `TimingAssumption` is the one about time: a register write takes at
least four clocks of the memory, and the write latency is at most 24. The first
holds because a write takes a clock of the 67 MHz bus at least, which is five of
the memory's 401 MHz, and the second because the write latency of a DDR3 is small
(8 on this board, `MEM_WTCL`). Neither can be dropped: the pauses between
commands are numbers of writes and of clocks that the code has as constants, and
with a fast enough bus or a long enough latency they become too short.

`Calibration_proofs`. `TypeInv` strengthens `TypeOK` with where the loops are:
`d` and `dqsInDtaps` are in range only inside the sweep, and the group only
inside its stages. `FlowInv` relates the history, the count of failing groups
and the error to the place in the program: groups below the one in hand are
settled, a failed group implies a recorded stage and either a count or the way
to the end; from it follow `SuccessIsEarned` and `FailureIsExplained`.
`DelayInv` says that at d = 0 the outputs are at the reserve: without it the
test `d > 2` on success cannot be seen to catch every case
(`WritesStartFromReserve`). `OwnerInv` follows tracking and the multiplexer
through the hand-over (`OneOwner`, `VerdictAfterHandoff`). `LatencyInv` says
that only latencies above the one to be tried next have read, and the lowest of
these, once any has (`LatencyWithinCounter`). `PromiseKept` is the refinement:
each step settles the group in hand, or publishes, or stutters.

`ReadCenter_proofs`, `WriteCenter_proofs`. That success leaves every bit inside
its window rests on what the two arrays mean in the middle of a search: a left
edge that is not negative passed; a negative one is the mark of the next delay
(`-d`), which must be confirmed by a pass before it counts, and the same of
right edges (`LeftInv`, `RightInv`). For DM, the current run ends at or before
the place in hand and both ends of the best run passed (`CurrInv`, `BestInv`);
the middle of a run is in it, and when it is out of reach the margin is
negative. These theorems hold for any number of bits and any unreliability.

The same modules prove that the deskews find what is there when the memory is
reliable (`fuzz = 0`): `FindsTrueEdges`, `EndsCentred`, `SucceedsIfReachable`,
and for DM `FindsWidestRun`. The invariant is exact (`ExactEdges`, and
`RunsInv` for DM): what each array has for a bit is a function of its window and
of the place the search has come to, the marks included (`LeftExact`,
`ResetExact`, `RightExact`). It needs a case for each way a window can lie to
the places tried (not yet met, in it, past it, never to be met), which the
sticky bits and the early exit of a search must respect. The middle is then a
matter of C's division, about which both modules begin with lemmas: twice the
quotient is the dividend to within one. In the write deskew a DQ ends within
half a tap of its middle; in the read deskew within one, because DQS is moved
by a rounded amount as well.

`VfifoSearch_proofs`. `TypeCorrect` holds for every window: no time becomes
negative and phase 0 is never set (`PlaceInv`). `RangeIsRead`, `EndsCentred`
and `AlwaysFound` are about reliable windows of the usual width, for every
VFIFO, every number and length of phases and delay taps, and every place of the
window. The invariant has a part for each step of the search (`StageExact`),
which says where the window (`First .. Last`, in the times the search counts) is
with respect to what has been tried: `PushExact` that at most one setting of the
VFIFO has failed, and since two must (`TwoFail`), step 1 ends; `BeginExact` that
the window is not before the phase in hand; `BackoffExact`, `EndExact` and
`EdgeExact` that its first tap, last phase and last tap have been closed in on;
`SettleExact` that the VFIFO has not been pushed past the cycle of the centre. In
all of them `At` says that the VFIFO setting is as good as the time the search
believes it to be at. The search that begins at phase 1 counts a phase too little
from then on; `slack` carries that through to the centre, where it costs less
than the bound, because a range found so begins with phase 1. The usual width is
four phases at least and so much less than two cycles that the setting a cycle
off does not read; the bounds of `UsualWindow` are the ones this proof needs.
Arithmetic modulo the VFIFO's cycles is led through lemmas on remainders.

`Peripherals_proofs`, the log generator. The invariant says that the FIFO's
words form a chain of places that begins after the output register's (`Chain`),
that each is the word its place calls for (`Right`), that the counters stand at
the end of the chain or, while the write enable is set, one further with the ROM
one behind (`InStep`), and that there is room for the word under way (`Room`).
`Room` gives `NeverDrops`; the chain gives the refinement `Implements`. It needs
lemmas on what writing at one end and reading at the other do to a chain.

`Peripherals_proofs`, the audio interface. All theorems are of `AudioSpec`, for any
number of bits a channel, any padding, and any depth of the FIFOs.

Recording: `RecordsWholeWords` rests on `SyncInv`. In the left channel the
counter of bits is in step with the codec; in the right one it is in step too,
or, if a clear has come in the left, its bits go to the places of the left and
no word is made of them. `RecordsInOrder` rests on `DueInv`: the words that are
under way between the FIFO and the host (`UnderWay`) are those that it is due to
get, and which registers have them depends on where the host is between its two
reads; `FlowInv` says which of the registers may be empty there.

Playing: `PlaysInOrder` rests on `ChainInv`. The words in the latch, behind the
FIFO, in it and being written form a chain that is numbered from `expected` on
without a gap, those apart that are from before the last clear, and the host
goes on where the chain ends. `PlayerInv` has the host's turns, which leave room
for the word that is written; `AlignInv` says that from the first word that was
loaded without a clear since, the serialiser's counter follows the codec's.

`Peripherals_proofs`, the infrared receiver. All three safety properties, for every
frame length, all durations and any line. `LagInv` says that nothing of a frame
is left in the registers when the next guide begins, although each follows its
enable a clock late. `PulsesInv` and `BitsInv` say by how much the pointer and
the bits are ahead of the line while it is high and behind it in the clock after
it has gone low: `DecodesPulses` says only that they agree once the line has
been low for two clocks, and that is not inductive. `RisesInv` follows the
check: it can change its outcome only with the last bit, so that an interrupt is
raised before that bit or after it and never both times.

`MemCommands_proofs`. `EngineTypes` is the engine's type invariant. `LoopsLast`
says how long the timed loops last. For the three nested counters of a reset it
needs the clocks that are left at each place of the loop as a function of where
the engine is and of the counters (`ResetLeft`): each step takes one of them
away, so that clocks gone and left always are those of the formula; the delay
loops have the same with two counters and with one. The products of counters
are beyond the arithmetic of the provers in general and are led through lemmas
about one decrement each. `DelayLongEnough` says that
for every argument of 32 bits the counters and repetitions that
`delay_for_n_mem_clocks` computes are in range, and wait at least as long as is
asked.

The rest is about the commands, `CSpec`, for every board, loop count and write
latency. The lemmas on what the procedures write come first: each is made of
stretches in which every run finds the jumps and counters that it needs set by
earlier writes of the same procedure, in whatever order procedures follow one
another (`Prog`, `Ready`); a run meets what an earlier procedure has left in the
engine in the one place below only. `CommandsUseEngine` follows: what is left to
do is made of such procedures (`CallsInv`), so the CPU uses the engine only as
the theorems on it assume, and those carry over (`CommandLoops`).

`CommandsToRank` needs to know which commands a run sends. `RegisterInv` says
that the engine's registers are as the writes so far have left them, and
`Course` that a run stays in its own part of the ROM. The write tests are the
hard case: on a board where a write needs no waiting (`rw_wl_nop_cycles` 0) the
code leaves jump 3 as it was, and the engine would follow it if counter 2 ran
out. It does not, because counter 2 starts at 0xFF and loses one in a round, and
there are `WriteLoops` rounds (`Skipping`): this is what the bound in
`CommandsAssumption` is for. `PinsInv` and `ClearInv` say which rank has been
selected and how it is terminated by the writes so far; `Addressee` carries that
through the run.

`MemoryHandedOff` says that no rank is forgotten. `HandInv` says of each rank that
it is still to be handed off (`ToHandOff`), with its rows closed once that has
begun; or that the run which loads the user's mode register is about to
(`AboutTo`); or that it has been handed off and nothing that is still sent to it
undoes this (`InUse`). `PhaseInv` says the same of the calibration of the ranks in
the initialisation, `FirstInv` that the reset, which undoes it for all ranks,
comes before any of it, and `FlightInv` that bursts are under way only in runs
that write.

The module ends with lemmas on what the procedures write, register by register:
which value each counter and jump has in each run (`Exact`), how many writes lie
between two runs (`Pause`), and in which order mode registers are loaded
(`InOrder`).

`MemTiming_proofs`, the timing. `CommandsAreLegal` says that every command comes
when the memory may be given it, on every board, for all loop counts, and
however often tests are repeated. A rule looks back at an event, and how long
ago that was is known in two different ways. In a run it is a function of the
instruction and of the counters (`PaceInv`), which is of use only if the counters
are known to be the ones that this run was given (`TunedInv`); the read tests of
the virtual groups share a counter that only the first of them loads
(`KeptInv`). Between runs it is the number of writes since, at four clocks each
(`CalmInv`), after which nothing is pending (`RestInv`). The rest of the
invariant is protocol. Which procedures can be under way depends on the stage,
and the ranks are taken one after another (`StageInv`, `OnceInv`). The reset has
held each rank as long as its counters say (`PowerInv`, which rests on
`ResetLeft`) when CKE is raised (`RaiseInv`), and TXPR has gone by before the
first mode register (`UpInv`). Mode registers are loaded in the order 2, 3, 1, 0
(`LastInv`) on a rank that is not calibrated yet (`FreshInv`); ZQCL has had its
time (`ZqclInv`), and so has a mode register, but for a rank that is just being
set up (`MrsInv`). Rows are closed when they are opened, and open from then on
until the hand-off (`RowsInv`). No part is inductive alone: that rows are open
when a test begins, say, is a matter of the run that opened them, long over.

`ReadsFindWhatWasWritten` says that what a read is compared with is what the
rank holds. The patterns get there in four bursts whose data come `Wlat` clocks
after the commands, from the same run. `FlyingInv` gives the bursts that are
under way, how old they are and what they have got in each clock of that run,
and of each round of a write test, the clock being a function of the instruction
and of the counters (`GwClock`, `WrClock`); it holds for all write latencies at
once, the ones at which a burst is still under way when the next is commanded as
well as the ones at which it is not. `LandedInv` says that no burst is under way
anywhere else. `PatternInv` says that in the stages that read the patterns these
are to be loaded still, or just being loaded, or in the cells, and `TurnInv`
that they are loaded before they are read and that the tests of writing, which
spoil them, have a stage of their own.

`LoopsAreWhole` says that every loop of every run starts with the count loaded
for it. For most runs that is local: the procedure has loaded each counter that
the run uses and no run in between has touched it (`PartServed`, a lemma for each
procedure). The reads of the virtual groups are the exception, and `HeldInv`
carries the counters through them: a counter that has been loaded for a read is
full between the runs and was full at the start of the one under way. It is full
again at the end because a read leaves each of its loops by running the counter
out, which reloads it; `ReadInv` names the places of the ROM at which a counter
that started full may be half run down, and the end of a run is none of them.

`DelaySettings_proofs`. The invariant is that between tests the group in hand is
clean: nothing is enabled, each of its chains has what the file has for its
block, and OCT has what the strobe has (`Clean`); groups before it have what
they were left with (`Settled`). `OctAsStrobe` is needed since OCT is set along
with DQS in some functions and by itself in none. Each function changes the
file only at blocks that it enables, or that are enabled later, before the
update (`Ready`); from this, one lemma a function, follow `TestsSeeTheSettings`
and `SettledGroupsStay`.

Theorems that no run spends a property on: success is earned, tracking is off
while the sequencer has the PHY, the CPU uses the engine only while it is idle
and with values that fit (`CommandsUseEngine`), a delay is at least as long as
was asked (`DelayLongEnough`), the types of the deskews, of the commands and of
the log generator, and that no word is offered to a full FIFO.

Only model-checked: liveness (`Terminates`, `RunsReturn`, `RecoversWhenQuiet`,
`KeepsSending`), which is out of this prover's reach. Every invariant and every
action property that a passing run checks, and both refinements, are proved.

## 6. Not modelled, and why

Write levelling, margining, the skip modes and user requests are not compiled or
never called for this board. The Tcl report is empty macros. Set-up of DQS
tracking is a sequence of register writes of constants. The hand-off tables, the
Qsys interconnect and the vendor IP are generated. The top level is structure
without behaviour. The debouncer and the interrupt capturer are a counter a
button and one register, of which nothing can be said that does not repeat an
assignment.

The map covers a small share of the repository's lines because most of those
are not this program: `soc_system/submodules/sequencer` holds the same
sequencer a second time (`sequencer.pre.c` is the same file, byte for byte; the
map names the hand-off's copy only), and of the first one three quarters are for
other devices, for levelling, for debugging and for reports, switched off by the
preprocessor. Of what is compiled for this board the map names about three
lines in four; lines that are not compiled are not mapped.

The infrared receiver, the log generator and the audio interface are in the
repository's library but not in `soc_system.qsys` of this commit (of `ip` only
the interrupt capturer and the debouncer are in use); they are modelled as the
components they are, with any environment. Their resets are modelled at the
start only.

## 7. Plan

Done: the calibration, its promise and the three searches; the commands to the
memory with the engine that plays them; the delay settings; the infrared
receiver, the log generator and the audio interface; and the proofs of section
5. What could follow is a composition of the searches with the stages that call
them, to replace the nondeterministic outcomes of `Calibration` by those of an
oracle. Its states are the product of both; the windows would have to be few.
