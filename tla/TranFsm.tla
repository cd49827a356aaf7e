------------------------------- MODULE TranFsm -------------------------------
(***************************************************************************)
(* The transport layer's command sequencer, rtl/satatrn_fsm.v: the host    *)
(* programs shadow registers and writes a command; the sequencer sends a   *)
(* register FIS, starts the DMA engines as the device asks for data, and   *)
(* interrupts the host when the device's register FIS ends the command.    *)
(*                                                                         *)
(* One step, Tick(in), is one rising edge of i_clk: in holds the module's  *)
(* input wires during that cycle, the variables are its registers, and     *)
(* every always block contributes one conjunct.  The module's own input    *)
(* wires are left open here; Transport.tla closes them.                    *)
(*                                                                         *)
(* Abstracted data.  A command opcode is its class (cmd_type); r_command   *)
(* holds a class while it holds a host's opcode and "STATUS" once a FIS of *)
(* the device has overwritten it.  r_lba, r_features, r_device, r_icc,     *)
(* r_port and r_control are carried by the register FIS but steer nothing, *)
(* and are left out, as are reads and o_wb_ack, which only echo.           *)
(***************************************************************************)
EXTENDS Integers

CONSTANTS
  BusShift,   \* $clog2(DW/8): a DMA bus word has 2^BusShift bytes
  AddrSpace   \* bytes of DMA address space, 2^ADDRESS_WIDTH

ASSUME BusShiftAssumption == BusShift \in Nat
ASSUME AddrSpaceAssumption == AddrSpace \in Nat \ {0}

VARIABLES
  fsm_state, known_cmd, cmd_type, r_busy, return_to_idle,
  r_command, r_count, r_int, r_dma_fail, last_fis, last_rx_fis,
  o_tran_req, o_tran_src, o_tran_len, dma_length,
  o_s2mm_request, o_s2mm_addr, o_mm2s_request, o_mm2s_addr,
  s_sop, s_active, s_posn,
  o_phy_reset, reset_hold, link_dropped, tran_failed,
  m_valid, m_count, m_last, m_data

tranVars == <<o_tran_req, o_tran_src, o_tran_len, dma_length>>
dmaVars  == <<o_s2mm_request, o_s2mm_addr, o_mm2s_request, o_mm2s_addr>>
regVars  == <<r_command, r_count, r_int, last_fis>>
fsmVars  == <<fsm_state, known_cmd, cmd_type, r_busy, return_to_idle,
              r_dma_fail, last_rx_fis, regVars, tranVars, dmaVars,
              s_sop, s_active, s_posn,
              o_phy_reset, reset_hold, link_dropped, tran_failed,
              m_valid, m_count, m_last, m_data>>

CmdTypes == {"NONDATA", "PIO_READ", "PIO_WRITE", "DMA_READ", "DMA_WRITE"}
FsmStates == {"IDLE", "COMMAND", "PIO_IN_SETUP", "PIO_RXDATA",
              "PIO_OUT_SETUP", "PIO_TXDATA", "DMA_IN", "DMA_IN_FINAL",
              "DMA_OUT_SETUP", "DMA_TXDATA", "WAIT_REG"}
FisTypes == {"REG_TO_DEV", "REG_TO_HOST", "DMA_ACTIVATE", "DMA_SETUP",
             "PIO_SETUP", "SET_DEVBITS"}

SectorBytes == 512
MaxDataFis  == 2048
LenSpace    == 65536   \* dma_length has 16 bits

\* Seeded fault of OneFis: the last FIS of a command is sent full size.
OneFis_Full(len) == MaxDataFis

OneFis(len) == IF len >= MaxDataFis THEN MaxDataFis ELSE len

-----------------------------------------------------------------------------
(***************************************************************************)
(* Wires.  in.wb is the Wishbone request of the cycle, in.pkt one word of  *)
(* a received FIS, the rest are the module's other inputs by name.         *)
(***************************************************************************)
NoWrite == [a |-> "NONE"]
NoPkt   == [valid |-> FALSE]

\* Seeded fault of Write: o_wb_stall is not honoured.
Write_NoStall(in, reg) == in.wb.a = reg

\* o_wb_stall = known_cmd: the cycle after a command is decoded nothing is
\* accepted.
Write(in, reg) == in.wb.a = reg /\ ~known_cmd

\* The first word of a FIS of type f arrives.
Fis(in, f) == in.pkt.valid /\ s_sop /\ in.pkt.fis = f

\* Seeded fault of StatusFis: the register FIS is left out.
StatusFis_NoReg(in) == \E f \in {"SET_DEVBITS", "PIO_SETUP"} : Fis(in, f)

StatusFis(in) == \E f \in {"REG_TO_HOST", "SET_DEVBITS", "PIO_SETUP"} : Fis(in, f)

Abort(in) == ~in.link_up \/ in.tran_err \/ o_phy_reset

\* Seeded fault of OInt: only the device's I bit interrupts.
OInt_IBitOnly == r_int

OInt == r_int \/ return_to_idle

-----------------------------------------------------------------------------
\* Seeded fault of Decodes: a running command does not shut the decoder.
Decodes_WhileBusy(in) == Write(in, "CMD") /\ in.wb.sel = 0 .. 3

\* A full-width write of the command register, while no command is running.
Decodes(in) == Write(in, "CMD") /\ ~r_busy /\ in.wb.sel = 0 .. 3

\* The command is known if its opcode is, and it heads a host-to-device
\* register FIS.
DecodeCmd(in) ==
  LET decode == Decodes(in)
  IN  /\ known_cmd' = (decode /\ in.wb.op \in CmdTypes /\ in.wb.reg_to_dev)
      /\ cmd_type' = IF ~decode THEN cmd_type
                     ELSE IF in.wb.op \in CmdTypes THEN in.wb.op ELSE "NONDATA"

\* Framing of the received FIS words.  s_sop falls with a FIS's first word
\* and rises only with its last.
RxFraming(in) ==
  IF in.pkt.valid
  THEN /\ s_sop' = in.pkt.last
       /\ s_active' = IF s_sop THEN in.pkt.fis = "REG_TO_HOST" ELSE s_active
       /\ s_posn' = IF in.pkt.last THEN 0
                    ELSE IF s_posn < 4 THEN s_posn + 1 ELSE s_posn
  ELSE UNCHANGED <<s_sop, s_active, s_posn>>

\* o_phy_reset lasts one cycle, or as long as the host holds it.  The two
\* sticky bits remember a lost link and a failed transfer until the host
\* clears them.
PhyControl(in) ==
  LET w == Write(in, "PHY") IN
  /\ o_phy_reset' = IF w THEN in.wb.reset ELSE o_phy_reset /\ reset_hold
  /\ reset_hold' = IF w THEN in.wb.reset /\ in.wb.hold ELSE reset_hold
  /\ link_dropped' = ((link_dropped \/ ~in.link_up) /\ ~(w /\ in.wb.clear))
  /\ tran_failed' = ((tran_failed \/ in.tran_err) /\ ~(w /\ in.wb.clear))

\* Seeded fault of LoadsOpcode: the words are loaded one beat late.
LoadsOpcode_Late(in) == (~m_valid \/ in.m_ready) /\ m_count = 1

LoadsOpcode(in) == (~m_valid \/ in.m_ready) /\ m_count = 0

\* The register FIS goes out as four words, restarted while a request with
\* register source stands.  m_data is kept as the opcode that the first
\* word was loaded with.
RegFisStream(in) ==
  /\ IF o_tran_req /\ o_tran_src = "REGS"
     THEN m_valid' = FALSE /\ m_count' = 0 /\ m_last' = FALSE
     ELSE IF m_valid /\ ~in.m_ready
     THEN UNCHANGED <<m_valid, m_count, m_last>>
     ELSE IF m_last
     THEN m_valid' = FALSE /\ UNCHANGED <<m_count, m_last>>
     ELSE /\ m_valid' = TRUE
          /\ m_last' = (m_count = 3)
          /\ m_count' = (m_count + 1) % 4
  /\ m_data' = IF LoadsOpcode(in) THEN r_command ELSE m_data

-----------------------------------------------------------------------------
(***************************************************************************)
(* The master FSM.  i_link_up low, i_tran_err or o_phy_reset abandons the  *)
(* command in any state; the DMA engines keep running, and a pending       *)
(* o_tran_req stands.                                                      *)
(***************************************************************************)
\* Seeded fault of AbortPulse: an abandoned command is not signalled.
AbortPulse_Silent == FALSE

AbortPulse == fsm_state # "IDLE"

AbortCommand(in) ==
  /\ Abort(in)
  /\ fsm_state' = "IDLE"
  /\ o_s2mm_request' = FALSE
  /\ o_mm2s_request' = FALSE
  /\ r_busy' = FALSE
  /\ return_to_idle' = AbortPulse
  /\ r_dma_fail' = TRUE
  /\ UNCHANGED <<regVars, tranVars, o_s2mm_addr, o_mm2s_addr, last_rx_fis>>

\* What a received FIS makes of the shadow registers: the device's status
\* replaces the command, its count replaces the host's, its I bit interrupts.
RxCommand(in) == IF StatusFis(in) THEN "STATUS" ELSE r_command
RxLastFis(in) == IF StatusFis(in) THEN in.pkt.fis ELSE last_fis
RxInt(in)     == r_int \/ ((StatusFis(in) \/ Fis(in, "DMA_SETUP")) /\ in.pkt.int)
RxCount(in)   == IF in.pkt.valid /\ s_active /\ s_posn = 3
                 THEN in.pkt.count ELSE r_count

RxStatus(in) ==
  /\ r_command' = RxCommand(in)
  /\ last_fis' = RxLastFis(in)
  /\ r_int' = RxInt(in)
  /\ r_count' = RxCount(in)

\* Seeded fault of DmaFail: errors of the writing engine are not noted.
DmaFail_ReadsOnly(in) == r_dma_fail' = (r_dma_fail \/ in.mm2s_err)

DmaFail(in) == r_dma_fail' = (r_dma_fail \/ in.mm2s_err \/ in.s2mm_err)

\* IDLE with a decoded command: announce the register FIS.  The byte count
\* keeps its low 16 bits.
StartCommand(in) ==
  /\ fsm_state = "IDLE"
  /\ known_cmd
  /\ fsm_state' = "COMMAND"
  /\ return_to_idle' = FALSE
  /\ r_busy' = TRUE
  /\ r_dma_fail' = FALSE
  /\ o_tran_req' = TRUE
  /\ o_tran_src' = "REGS"
  /\ o_tran_len' = 20
  /\ dma_length' = (r_count * SectorBytes) % LenSpace
  /\ r_command' = RxCommand(in)
  /\ last_fis' = "REG_TO_DEV"
  /\ r_int' = RxInt(in)
  /\ r_count' = RxCount(in)
  /\ UNCHANGED <<dmaVars, last_rx_fis>>

\* IDLE otherwise: host writes land in the shadow registers, unless the
\* register FIS of an earlier command is still going out.  Where a write and
\* a received FIS meet in one register the write, assigned later, wins.
IdleCycle(in) ==
  LET writes(reg) == Write(in, reg) /\ ~m_valid
      addr(old)   == IF writes("ADDR") THEN in.wb.addr ELSE old
  IN
  /\ fsm_state = "IDLE"
  /\ ~known_cmd
  /\ return_to_idle' = FALSE
  /\ r_busy' = FALSE
  /\ DmaFail(in)
  /\ r_command' = IF writes("CMD") /\ 2 \in in.wb.sel THEN in.wb.op ELSE RxCommand(in)
  /\ r_int' = IF writes("CMD") /\ 1 \in in.wb.sel
              THEN r_int /\ ~in.wb.ack_int ELSE RxInt(in)
  /\ r_count' = IF writes("COUNT") THEN in.wb.count ELSE RxCount(in)
  /\ last_fis' = RxLastFis(in)
  /\ o_s2mm_addr' = addr(o_s2mm_addr)
  /\ o_mm2s_addr' = addr(o_mm2s_addr)
  /\ UNCHANGED <<fsm_state, tranVars, o_s2mm_request, o_mm2s_request, last_rx_fis>>

\* Leave for state s, IDLE with a pulse of the interrupt.
Goto(s) == fsm_state' = s /\ return_to_idle' = (s = "IDLE")
Stay    == Goto(fsm_state)

\* The request to send the register FIS is withdrawn after one cycle,
\* whatever i_tran_busy says.
Command(in) ==
  /\ fsm_state = "COMMAND"
  /\ IF ~o_tran_req THEN Stay
     ELSE Goto(CASE cmd_type = "NONDATA"   -> "WAIT_REG"
                 [] cmd_type = "PIO_READ"  -> "PIO_IN_SETUP"
                 [] cmd_type = "PIO_WRITE" -> "PIO_OUT_SETUP"
                 [] cmd_type = "DMA_READ"  -> "DMA_IN"
                 [] cmd_type = "DMA_WRITE" -> "DMA_OUT_SETUP")
  /\ o_tran_req' = FALSE
  /\ o_s2mm_request' = (o_s2mm_request \/ (o_tran_req /\ cmd_type = "DMA_READ"))
  /\ UNCHANGED <<o_tran_src, o_tran_len, dma_length, o_s2mm_addr,
                 o_mm2s_request, o_mm2s_addr, last_rx_fis>>

WaitReg(in) ==
  /\ fsm_state = "WAIT_REG"
  /\ IF Fis(in, "REG_TO_HOST") THEN Goto("IDLE") ELSE Stay
  /\ o_tran_src' = "MM2S"
  /\ UNCHANGED <<o_tran_req, o_tran_len, dma_length, dmaVars, last_rx_fis>>

\* Seeded fault of DropS2mm: the request outlives the engine's start.
DropS2mm_Held(in) == o_s2mm_request' = o_s2mm_request

\* A device-to-memory engine request falls in the cycle that starts the
\* engine (or finds it idle); likewise memory-to-device.
DropS2mm(in) == o_s2mm_request' = (o_s2mm_request /\ in.s2mm_busy)
DropMm2s(in) == o_mm2s_request' = (o_mm2s_request /\ in.mm2s_busy)
DropTran(in) == o_tran_req' = (o_tran_req /\ (in.s2mm_busy \/ in.mm2s_busy))

S2mmBeat(in, bytes) ==
  o_s2mm_addr' = IF in.s2mm_beat THEN (o_s2mm_addr + bytes) % AddrSpace
                 ELSE o_s2mm_addr

PioInSetup(in) ==
  /\ fsm_state = "PIO_IN_SETUP"
  /\ \/ Fis(in, "REG_TO_HOST") /\ Goto("IDLE")
     \/ Fis(in, "PIO_SETUP") /\ Goto("PIO_RXDATA")
     \/ ~Fis(in, "REG_TO_HOST") /\ ~Fis(in, "PIO_SETUP") /\ Stay
  /\ o_s2mm_request' = (o_s2mm_request \/ Fis(in, "PIO_SETUP"))
  /\ last_rx_fis' = (Fis(in, "PIO_SETUP") /\ in.pkt.bsy)
  /\ UNCHANGED <<tranVars, o_s2mm_addr, o_mm2s_request, o_mm2s_addr>>

PioRxData(in) ==
  /\ fsm_state = "PIO_RXDATA"
  /\ IF Fis(in, "REG_TO_HOST")
     THEN Goto(IF last_rx_fis THEN "PIO_IN_SETUP" ELSE "IDLE") ELSE Stay
  /\ DropS2mm(in)
  /\ S2mmBeat(in, BusShift)
  /\ UNCHANGED <<tranVars, o_mm2s_request, o_mm2s_addr, last_rx_fis>>

PioOutSetup(in) ==
  /\ fsm_state = "PIO_OUT_SETUP"
  /\ \/ Fis(in, "REG_TO_HOST") /\ Goto("IDLE")
     \/ Fis(in, "PIO_SETUP") /\ Goto("PIO_TXDATA")
     \/ ~Fis(in, "REG_TO_HOST") /\ ~Fis(in, "PIO_SETUP") /\ Stay
  /\ o_mm2s_request' = Fis(in, "PIO_SETUP")
  /\ IF Fis(in, "PIO_SETUP")
     THEN /\ o_tran_req' = TRUE
          /\ o_tran_src' = "MM2S"
          /\ o_tran_len' = OneFis(dma_length)
     ELSE UNCHANGED <<o_tran_req, o_tran_src, o_tran_len>>
  /\ UNCHANGED <<dma_length, o_s2mm_request, o_s2mm_addr, o_mm2s_addr, last_rx_fis>>

PioTxData(in) ==
  /\ fsm_state = "PIO_TXDATA"
  /\ IF ~o_mm2s_request /\ ~in.mm2s_busy THEN Goto("PIO_OUT_SETUP") ELSE Stay
  /\ DropTran(in)
  /\ DropMm2s(in)
  /\ UNCHANGED <<o_tran_src, o_tran_len, dma_length, o_s2mm_request,
                 o_s2mm_addr, o_mm2s_addr, last_rx_fis>>

DmaIn(in) ==
  /\ fsm_state = "DMA_IN"
  /\ IF Fis(in, "REG_TO_HOST") THEN Goto("DMA_IN_FINAL") ELSE Stay
  /\ DropS2mm(in)
  /\ S2mmBeat(in, 4)
  /\ UNCHANGED <<tranVars, o_mm2s_request, o_mm2s_addr, last_rx_fis>>

\* Seeded fault of DmaInFinal: the engine is not waited for.
DmaInFinal_NoWait(in) ==
  /\ fsm_state = "DMA_IN_FINAL"
  /\ Goto("IDLE")
  /\ UNCHANGED <<tranVars, dmaVars, last_rx_fis>>

\* The command ends only when the engine has written what it received.
DmaInFinal(in) ==
  /\ fsm_state = "DMA_IN_FINAL"
  /\ IF in.s2mm_busy THEN Stay ELSE Goto("IDLE")
  /\ UNCHANGED <<tranVars, dmaVars, last_rx_fis>>

\* Seeded fault of LeftAfter: the bytes sent are not counted off.
LeftAfter_Same(in) == dma_length

LeftAfter(in) == IF Fis(in, "DMA_ACTIVATE")
                 THEN dma_length - OneFis(dma_length) ELSE dma_length

\* Each DMA ACTIVATE asks for one data FIS of what is left of dma_length.
\* o_mm2s_addr stays where the host put it.
DmaOutSetup(in) ==
  /\ fsm_state = "DMA_OUT_SETUP"
  /\ \/ Fis(in, "REG_TO_HOST") /\ Goto("IDLE")
     \/ Fis(in, "DMA_ACTIVATE") /\ Goto("DMA_TXDATA")
     \/ ~Fis(in, "REG_TO_HOST") /\ ~Fis(in, "DMA_ACTIVATE") /\ Stay
  /\ o_mm2s_request' = Fis(in, "DMA_ACTIVATE")
  /\ o_tran_req' = (o_tran_req \/ Fis(in, "DMA_ACTIVATE"))
  /\ o_tran_src' = "MM2S"
  /\ o_tran_len' = OneFis(dma_length)
  /\ dma_length' = LeftAfter(in)
  /\ UNCHANGED <<o_s2mm_request, o_s2mm_addr, o_mm2s_addr, last_rx_fis>>

DmaTxData(in) ==
  /\ fsm_state = "DMA_TXDATA"
  /\ IF o_tran_req \/ o_mm2s_request \/ in.s2mm_busy \/ in.mm2s_busy
     THEN Stay ELSE Goto("DMA_OUT_SETUP")
  /\ DropMm2s(in)
  /\ DropTran(in)
  /\ UNCHANGED <<o_tran_src, o_tran_len, dma_length, o_s2mm_request,
                 o_s2mm_addr, o_mm2s_addr, last_rx_fis>>

\* A cycle of a running command.
RunCommand(in) ==
  /\ \/ Command(in) \/ WaitReg(in)
     \/ PioInSetup(in) \/ PioRxData(in) \/ PioOutSetup(in) \/ PioTxData(in)
     \/ DmaIn(in) \/ DmaInFinal(in) \/ DmaOutSetup(in) \/ DmaTxData(in)
  /\ RxStatus(in)
  /\ DmaFail(in)
  /\ r_busy' = r_busy

MasterFsm(in) ==
  \/ AbortCommand(in)
  \/ ~Abort(in) /\ (StartCommand(in) \/ IdleCycle(in) \/ RunCommand(in))

-----------------------------------------------------------------------------
\* After i_reset.
FsmInit ==
  /\ fsm_state = "IDLE"
  /\ known_cmd = FALSE /\ cmd_type = "NONDATA"
  /\ r_busy = FALSE /\ return_to_idle = FALSE
  /\ r_command = "STATUS" /\ r_count = 0 /\ r_int = FALSE
  /\ r_dma_fail = FALSE /\ last_fis = "NONE" /\ last_rx_fis = FALSE
  /\ o_tran_req = FALSE /\ o_tran_src = "REGS" /\ o_tran_len = 0 /\ dma_length = 0
  /\ o_s2mm_request = FALSE /\ o_s2mm_addr = 0
  /\ o_mm2s_request = FALSE /\ o_mm2s_addr = 0
  /\ s_sop = TRUE /\ s_active = FALSE /\ s_posn = 0
  /\ o_phy_reset = TRUE /\ reset_hold = FALSE
  /\ link_dropped = FALSE /\ tran_failed = FALSE
  /\ m_valid = FALSE /\ m_count = 0 /\ m_last = TRUE /\ m_data = "STATUS"

\* One rising edge of i_clk.
Tick(in) ==
  /\ DecodeCmd(in)
  /\ RxFraming(in)
  /\ MasterFsm(in)
  /\ PhyControl(in)
  /\ RegFisStream(in)

-----------------------------------------------------------------------------
\* The registers hold what they can hold: in particular the byte count never
\* leaves its 16 bits, and no transfer is longer than a data FIS.
FsmTypeOK ==
  /\ fsm_state \in FsmStates /\ cmd_type \in CmdTypes
  /\ known_cmd \in BOOLEAN /\ r_busy \in BOOLEAN /\ return_to_idle \in BOOLEAN
  /\ r_command \in CmdTypes \cup {"STATUS"} /\ m_data \in CmdTypes \cup {"STATUS"}
  /\ r_count \in 0 .. LenSpace - 1 /\ dma_length \in 0 .. LenSpace - 1
  /\ r_int \in BOOLEAN /\ r_dma_fail \in BOOLEAN /\ last_rx_fis \in BOOLEAN
  /\ last_fis \in FisTypes \cup {"NONE"}
  /\ o_tran_req \in BOOLEAN /\ o_tran_src \in {"REGS", "MM2S"}
  /\ o_tran_len \in 0 .. MaxDataFis
  /\ o_s2mm_request \in BOOLEAN /\ o_mm2s_request \in BOOLEAN
  /\ o_s2mm_addr \in 0 .. AddrSpace - 1 /\ o_mm2s_addr \in 0 .. AddrSpace - 1
  /\ s_sop \in BOOLEAN /\ s_active \in BOOLEAN /\ s_posn \in 0 .. 4
  /\ o_phy_reset \in BOOLEAN /\ reset_hold \in BOOLEAN
  /\ link_dropped \in BOOLEAN /\ tran_failed \in BOOLEAN
  /\ m_valid \in BOOLEAN /\ m_count \in 0 .. 3 /\ m_last \in BOOLEAN

\* What the wires can carry.
WbTypeOK(wb) ==
  \/ wb = NoWrite
  \/ wb \in [a : {"CMD"}, op : CmdTypes, sel : SUBSET (0 .. 3),
             reg_to_dev : BOOLEAN, ack_int : BOOLEAN]
  \/ wb \in [a : {"COUNT"}, count : 0 .. LenSpace - 1]
  \/ wb \in [a : {"ADDR"}, addr : 0 .. AddrSpace - 1]
  \/ wb \in [a : {"PHY"}, reset : BOOLEAN, hold : BOOLEAN, clear : BOOLEAN]

PktTypeOK(pkt) ==
  \/ pkt = NoPkt
  \/ pkt \in [valid : {TRUE}, fis : FisTypes \cup {"PAYLOAD"}, last : BOOLEAN,
              int : BOOLEAN, bsy : BOOLEAN, count : 0 .. LenSpace - 1]

InputOK(in) ==
  /\ WbTypeOK(in.wb) /\ PktTypeOK(in.pkt)
  /\ in.link_up \in BOOLEAN /\ in.tran_err \in BOOLEAN /\ in.m_ready \in BOOLEAN
  /\ in.s2mm_busy \in BOOLEAN /\ in.s2mm_err \in BOOLEAN /\ in.s2mm_beat \in BOOLEAN
  /\ in.mm2s_busy \in BOOLEAN /\ in.mm2s_err \in BOOLEAN
=============================================================================
