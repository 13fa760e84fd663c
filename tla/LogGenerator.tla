---------------------------- MODULE LogGenerator ----------------------------
(***************************************************************************)
(* ip/my_log_generator/log_generator.v: a source of video packets behind a *)
(* FIFO (log_fifo.v) that reads its picture from a ROM (log_rom.v).  All   *)
(* registers change together at a clock edge; the only input is the ready  *)
(* signal of the sink.                                                     *)
(*                                                                         *)
(* Three pipelines of one clock have to agree: the write enable of the FIFO*)
(* lags the counters, the ROM lags its address, and the output lags its    *)
(* read enable.  The ROM's contents are abstracted to the address read.    *)
(***************************************************************************)
EXTENDS Naturals, Sequences

CONSTANTS
    Width, Height,   \* LOG_WIDTH, LOG_HEIGHT: 1024, 114
    Depth,           \* lpm_numwords: 256
    AlmostFull,      \* almost_full_value: 254
    AlmostEmpty      \* almost_empty_value: 2

ASSUME SizeAssumption ==
    /\ Width \in Nat \ {0}
    /\ Height \in Nat \ {0}

(* The write that is under way when almost_full rises has room, and a word *)
(* is read only when there is one.                                         *)
ASSUME FifoAssumption ==
    /\ Depth \in Nat
    /\ AlmostEmpty \in 1 .. AlmostFull
    /\ AlmostFull \in 1 .. Depth - 1

VARIABLES
    doutReady,  \* dout_ready_reg
    pktState,   \* pkt_state
    dot, line,  \* dot_cnt, line_cnt
    rom,        \* the address whose dot log_rom puts out
    fifoWr,     \* fifo_wr
    fifo,       \* the words in log_fifo, each with its place in the stream
    q,          \* its output register
    taken       \* history: turns over when the sink takes a beat

counters == <<pktState, dot, line>>
logVars == <<doutReady, pktState, dot, line, rom, fifoWr, fifo, q, taken>>

CTRL_PKT_NUM == 3

Addresses == (0 .. Height - 1)
             \X (0 .. (IF Width > CTRL_PKT_NUM THEN Width ELSE CTRL_PKT_NUM) - 1)

-----------------------------------------------------------------------------
(* The word that the state, the counters and the ROM make: the decoding of *)
(* dout_data_type after the FIFO included.                                 *)
ctrlPktEop == pktState = "CTRL_DAT" /\ dot = CTRL_PKT_NUM - 1

(* Mutant: lines counted from one.                                         *)
dataPktEopMutant == pktState = "DATA_DAT" /\ dot = Width - 1 /\ line = Height

dataPktEop == pktState = "DATA_DAT" /\ dot = Width - 1 /\ line = Height - 1

Word ==
    [sop  |-> pktState \in {"CTRL_SOP", "DATA_SOP"},
     eop  |-> ctrlPktEop \/ dataPktEop,
     data |-> CASE pktState = "CTRL_SOP" -> <<"control">>
                [] pktState = "DATA_SOP" -> <<"picture">>
                [] pktState = "DATA_DAT" -> rom
                [] pktState = "CTRL_DAT" /\ dot = 0 -> <<"width">>
                [] pktState = "CTRL_DAT" /\ dot = 1 -> <<"widthHeight">>
                [] OTHER -> <<"height">>]

Place == [part |-> pktState, line |-> line, dot |-> dot]

almostFull == Len(fifo) >= AlmostFull
almostEmpty == Len(fifo) < AlmostEmpty
doutValid == doutReady /\ ~almostEmpty

Empty == [at   |-> [part |-> "CTRL_SOP", line |-> 0, dot |-> 0],
          word |-> [sop |-> FALSE, eop |-> FALSE, data |-> <<"blank">>]]

(* All is cleared by the reset but the ROM's address register.             *)
LogInit ==
    /\ doutReady = FALSE
    /\ pktState = "CTRL_SOP"
    /\ dot = 0
    /\ line = 0
    /\ rom \in Addresses
    /\ fifoWr = FALSE
    /\ fifo = <<>>
    /\ q = Empty
    /\ taken = FALSE
-----------------------------------------------------------------------------
(* The packet state machine and its counters: one of these a clock.        *)
Stall == almostFull /\ UNCHANGED counters

CtrlPktSop ==
    /\ pktState = "CTRL_SOP" /\ ~almostFull
    /\ pktState' = "CTRL_DAT"
    /\ line' = 0
    /\ UNCHANGED dot

CtrlPktDat ==
    /\ pktState = "CTRL_DAT" /\ ~almostFull
    /\ pktState' = IF ctrlPktEop THEN "DATA_SOP" ELSE "CTRL_DAT"
    /\ dot' = IF dot < CTRL_PKT_NUM - 1 THEN dot + 1 ELSE 0
    /\ line' = 0

DataPktSop ==
    /\ pktState = "DATA_SOP" /\ ~almostFull
    /\ pktState' = "DATA_DAT"
    /\ line' = 0
    /\ UNCHANGED dot

DataPktDat ==
    /\ pktState = "DATA_DAT" /\ ~almostFull
    /\ pktState' = IF dataPktEop THEN "CTRL_SOP" ELSE "DATA_DAT"
    /\ dot' = IF dot < Width - 1 THEN dot + 1 ELSE 0
    /\ line' = IF dot # Width - 1 THEN line
               ELSE IF line < Height - 1 THEN line + 1 ELSE 0

(* The two registers between the state machine and the FIFO.               *)
LatchRegisters ==
    /\ rom' = <<line, dot>>
    /\ fifoWr' = ~almostFull

(* The FIFO ignores a write when it is full.  The sink's ready is a clock  *)
(* late, which the readyLatency of the interface allows for.               *)
Write == IF fifoWr /\ Len(fifo) < Depth
         THEN Append(fifo, [at |-> Place, word |-> Word]) ELSE fifo

(* Mutant: the output moves on while the sink holds the stream up.         *)
OutputMutant ==
    /\ q' = IF ~almostEmpty THEN Head(fifo) ELSE q
    /\ fifo' = IF doutValid THEN Tail(Write) ELSE Write
    /\ doutReady' \in BOOLEAN
    /\ taken' = IF doutValid THEN ~taken ELSE taken

(* rdreq is dout_valid; the word read is seen at the next one.             *)
Output ==
    /\ q' = IF doutValid THEN Head(fifo) ELSE q
    /\ fifo' = IF doutValid THEN Tail(Write) ELSE Write
    /\ doutReady' \in BOOLEAN
    /\ taken' = IF doutValid THEN ~taken ELSE taken

Packet == Stall \/ CtrlPktSop \/ CtrlPktDat \/ DataPktSop \/ DataPktDat

LogNext == Packet /\ LatchRegisters /\ Output

(* The clock runs.                                                         *)
LogSpec == LogInit /\ [][LogNext]_logVars /\ WF_logVars(LogNext)
-----------------------------------------------------------------------------
Stream == INSTANCE VideoStream WITH at <- q.at, beat <- q.word

Entries == [at : Stream!Places,
            word : [sop : BOOLEAN, eop : BOOLEAN,
                    data : {<<"blank">>, <<"control">>, <<"picture">>, <<"width">>,
                            <<"widthHeight">>, <<"height">>}
                           \cup Addresses]]

(* Each register holds what it has bits for, and the FIFO no more than its *)
(* words.                                                                  *)
LogTypeOK ==
    /\ doutReady \in BOOLEAN
    /\ fifoWr \in BOOLEAN
    /\ Place \in Stream!Places
    /\ rom \in Addresses
    /\ fifo \in Seq(Entries)
    /\ Len(fifo) <= Depth
    /\ q \in Entries
    /\ taken \in BOOLEAN

(* The almost-full flag leaves room for the write already under way when it*)
(* rises: no word is offered to a FIFO that would drop it.                 *)
NothingDropped == fifoWr => Len(fifo) < Depth

(* Whenever the sink stalls, what comes out is the stream of packets: the  *)
(* write enable, the ROM and the FIFO stay in step with the counters.      *)
SendsTheStream == Stream!Spec

(* A sink that is ready again and again keeps getting pictures: the flags  *)
(* of the FIFO never leave both sides waiting.                             *)
KeepsSending == []<>doutReady => []<>(q.at.part = "DATA_SOP" /\ q.word.sop)
=============================================================================
