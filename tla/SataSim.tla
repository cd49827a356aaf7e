------------------------------- MODULE SataSim --------------------------------
(***************************************************************************)
(* The simulated disk, bench/cpp/satasim.cpp: the device's half of the     *)
(* link, and the answers it gives to the commands it knows.  LinkLayer is  *)
(* one call of link_layer_model(), made on the falling edge of the receive *)
(* clock; ProcessTxSignals(w) is process_tx_signals(), made on that of the *)
(* transmit clock.  The out-of-band part is SataSimOob.tla.                *)
(*                                                                         *)
(* Abstracted data.  A FIS is its sequence of values.  swap_endian is left *)
(* out: the link, the gearboxes and this code undo each other's swaps.     *)
(* m_lba, m_data_complete, m_busy, m_ready and m_link_ready are written    *)
(* and never read.                                                         *)
(***************************************************************************)
EXTENDS SataWords

CONSTANTS
  SectorWords,    \* SATA_SECTOR_SIZE/4, 128 in the code
  MaxDataWords,   \* MAX_DATA_WORDS, the words of m_received_data
  MaxAlign        \* ALIGNs the device sends before SYNC, 100 in the code

ASSUME SectorAssumption == SectorWords \in Nat \ {0}
ASSUME MaxDataAssumption == MaxDataWords \in Nat \ {0}
ASSUME MaxAlignAssumption == MaxAlign \in Nat \ {0}

VARIABLES
  m_link_state, align_cnt, m_oob_done,
  m_txphy,          \* m_txphy_primitive and m_txphy_data, the host's last word
  m_rxphy,          \* m_rxphy_valid, m_rxphy_primitive and m_rxphy_data
  m_dma_act, m_dma_read, m_pio_setup, m_pio_read, m_data_response,
  m_data_count, m_scrambler_fill, m_crc, m_crc_matched,
  m_received_data, m_sent_data

flagVars == <<m_dma_act, m_dma_read, m_pio_setup, m_pio_read, m_data_response>>
bufVars  == <<m_data_count, m_scrambler_fill, m_crc, m_crc_matched>>
simVars  == <<m_link_state, align_cnt, m_oob_done, m_txphy, m_rxphy, flagVars,
              bufVars, m_received_data, m_sent_data>>

SimStates == {"SEND_ALIGN", "IDLE", "SEND_CHKRDY", "SEND_DATA", "SEND_EOF",
              "WAIT", "RCV_CHKRDY", "RCV_DATA", "RCVEOF", "GOODEND", "BADEND"}

Ops == {"READ_DMA", "WRITE_DMA", "READ_BUFFER", "WRITE_BUFFER"}
NullData == << >>

\* The FISes of the device, a value per word.
D2hFis      == [i \in 1 .. 4 |-> <<"D2H", i>>]
DmaActFis   == << <<"DMA_ACT">> >>
PioSetupFis == [i \in 1 .. 5 |-> <<"PIO_SETUP", i>>]
DataFis     == << <<"DATA">> >> \o m_sent_data

-----------------------------------------------------------------------------
Hears(p) == m_txphy = Prim(p)
DevicePhySends(w) == m_rxphy' = Got(w)
SimGoto(s) == m_link_state' = s

\* reset_data_buffer(): the received words stay.
ResetDataBuffer ==
  /\ m_data_count' = 0
  /\ m_scrambler_fill' = 0
  /\ m_crc' = NoCrc
  /\ m_crc_matched' = FALSE

(***************************************************************************)
(* Receiving.  The first word of a frame tells what it is and sets the     *)
(* flags the device will answer by, before the CRC is known.               *)
(***************************************************************************)
IsReg(v, op) == v = <<"REG", op>>

\* Seeded fault of SetFlags: a write command asks for the final status too.
SetFlags_EarlyStatus(v) ==
  /\ m_dma_act' = (m_dma_act \/ IsReg(v, "WRITE_DMA"))
  /\ m_dma_read' = (m_dma_read \/ IsReg(v, "READ_DMA"))
  /\ m_pio_setup' = (m_pio_setup \/ IsReg(v, "WRITE_BUFFER") \/ IsReg(v, "READ_BUFFER"))
  /\ m_pio_read' = (m_pio_read \/ IsReg(v, "READ_BUFFER"))
  /\ m_data_response' = (m_data_response \/ v = <<"DATA">> \/ IsReg(v, "WRITE_DMA")
                           \/ IsReg(v, "WRITE_BUFFER"))

SetFlags(v) ==
  /\ m_dma_act' = (m_dma_act \/ IsReg(v, "WRITE_DMA"))
  /\ m_dma_read' = (m_dma_read \/ IsReg(v, "READ_DMA"))
  /\ m_pio_setup' = (m_pio_setup \/ IsReg(v, "WRITE_BUFFER") \/ IsReg(v, "READ_BUFFER"))
  /\ m_pio_read' = (m_pio_read \/ IsReg(v, "READ_BUFFER"))
  /\ m_data_response' = (m_data_response \/ v = <<"DATA">>)

FirstWord ==
  LET raw == Descramble(m_txphy, 0) IN
  /\ m_data_count = 0
  /\ m_data_count' = 1
  /\ m_scrambler_fill' = 1
  /\ m_crc' = Absorb(NoCrc, raw)
  /\ m_crc_matched' = FALSE
  /\ SetFlags(raw)
  /\ UNCHANGED m_received_data

\* Seeded fault of CrcMatches: the CRC is not compared.
CrcMatches_Always(raw) == TRUE

CrcMatches(raw) == raw = CrcValue(m_crc)

\* A word equal to the running CRC is taken for the CRC and not stored; a
\* word past the end of m_received_data would be, and is cut off here.
LaterWord ==
  LET raw    == Descramble(m_txphy, m_scrambler_fill)
      stored == ~CrcMatches(raw) /\ m_data_response
  IN
  /\ m_data_count # 0
  /\ m_crc_matched' = CrcMatches(raw)
  /\ m_scrambler_fill' = m_scrambler_fill + 1
  /\ m_crc' = Absorb(m_crc, raw)
  /\ m_data_count' = IF stored THEN m_data_count + 1 ELSE m_data_count
  /\ m_received_data' = IF stored /\ m_data_count <= MaxDataWords
                        THEN [m_received_data EXCEPT ![m_data_count] = raw]
                        ELSE m_received_data
  /\ UNCHANGED flagVars

DeviceLinkReceives ==
  IF m_txphy.prim THEN UNCHANGED <<flagVars, bufVars, m_received_data>>
  ELSE FirstWord \/ LaterWord

(***************************************************************************)
(* Sending.  m_data_count runs over SOF, the words of the FIS, and the     *)
(* CRC; done says which flags fall with the CRC.                           *)
(***************************************************************************)
SendFrame(fis, done) ==
  /\ UNCHANGED m_crc_matched
  /\ \/ /\ m_data_count = 0
        /\ DevicePhySends(Prim("SOF"))
        /\ m_data_count' = 1
        /\ SimGoto("SEND_DATA")
        /\ UNCHANGED <<flagVars, m_scrambler_fill, m_crc>>
     \/ /\ m_data_count \in 1 .. Len(fis)
        /\ DevicePhySends(Scramble(fis[m_data_count], m_scrambler_fill))
        /\ m_scrambler_fill' = m_scrambler_fill + 1
        /\ m_crc' = Absorb(m_crc, fis[m_data_count])
        /\ m_data_count' = m_data_count + 1
        /\ SimGoto("SEND_DATA")
        /\ UNCHANGED flagVars
     \/ /\ m_data_count = Len(fis) + 1
        /\ DevicePhySends(Scramble(CrcValue(m_crc), m_scrambler_fill))
        /\ m_scrambler_fill' = m_scrambler_fill + 1
        /\ done
        /\ SimGoto("SEND_EOF")
        /\ UNCHANGED <<m_data_count, m_crc>>

DmaActivate ==
  SendFrame(DmaActFis,
            m_dma_act' = FALSE
              /\ UNCHANGED <<m_dma_read, m_pio_setup, m_pio_read, m_data_response>>)

PioSetupResponse ==
  SendFrame(PioSetupFis,
            m_pio_setup' = FALSE
              /\ UNCHANGED <<m_dma_act, m_dma_read, m_pio_read, m_data_response>>)

\* The status follows the data.
DataSend ==
  SendFrame(DataFis,
            m_dma_read' = FALSE /\ m_pio_read' = FALSE /\ m_data_response' = TRUE
              /\ UNCHANGED <<m_dma_act, m_pio_setup>>)

D2hResponse ==
  SendFrame(D2hFis,
            m_data_response' = FALSE
              /\ UNCHANGED <<m_dma_act, m_dma_read, m_pio_setup, m_pio_read>>)

-----------------------------------------------------------------------------
(* link_layer_model(), one disjunct per case *)

Sends(from, w) == m_link_state = from /\ DevicePhySends(Prim(w))

\* align_cnt stops counting at MaxAlign; the state is left there for good.
SimAlign ==
  /\ Sends("SEND_ALIGN", "ALIGN")
  /\ align_cnt' = IF align_cnt < MaxAlign THEN align_cnt + 1 ELSE align_cnt
  /\ SimGoto(IF align_cnt + 1 = MaxAlign THEN "IDLE" ELSE "SEND_ALIGN")
  /\ UNCHANGED <<flagVars, bufVars, m_received_data>>

SimIdle ==
  /\ Sends("IDLE", "SYNC")
  /\ ResetDataBuffer
  /\ SimGoto(IF Hears("X_RDY") THEN "RCV_CHKRDY"
          ELSE IF m_dma_act \/ m_dma_read \/ m_pio_setup \/ m_pio_read \/ m_data_response
          THEN "SEND_CHKRDY" ELSE "IDLE")
  /\ UNCHANGED <<align_cnt, flagVars, m_received_data>>

\* The states that only talk and listen: where the host's word leads.
Listens(from, w, next) ==
  /\ Sends(from, w)
  /\ SimGoto(next)
  /\ UNCHANGED <<align_cnt, flagVars, bufVars, m_received_data>>

SimChkRdyNext == IF Hears("R_RDY") THEN "SEND_DATA"
                 ELSE IF Hears("X_RDY") THEN "RCV_CHKRDY" ELSE "SEND_CHKRDY"

SimSendChkRdy == Listens("SEND_CHKRDY", "X_RDY", SimChkRdyNext)

SimSendData ==
  /\ m_link_state = "SEND_DATA"
  /\ \/ m_dma_act /\ DmaActivate
     \/ ~m_dma_act /\ m_pio_setup /\ PioSetupResponse
     \/ ~m_dma_act /\ ~m_pio_setup /\ (m_dma_read \/ m_pio_read) /\ DataSend
     \/ ~m_dma_act /\ ~m_pio_setup /\ ~m_dma_read /\ ~m_pio_read
          /\ m_data_response /\ D2hResponse
  /\ UNCHANGED <<align_cnt, m_received_data>>

SimSendEof == Listens("SEND_EOF", "EOF", "WAIT")

\* Any of the three answers ends the frame; none of them is looked at.
SimWait ==
  Listens("WAIT", "WTRM",
          IF Hears("SYNC") \/ Hears("R_OK") \/ Hears("R_ERR") THEN "IDLE" ELSE "WAIT")

SimRcvChkRdy ==
  Listens("RCV_CHKRDY", "R_RDY", IF Hears("SOF") THEN "RCV_DATA" ELSE "RCV_CHKRDY")

SimRcvData ==
  /\ Sends("RCV_DATA", "R_IP")
  /\ DeviceLinkReceives
  /\ SimGoto(CASE Hears("EOF") -> "RCVEOF" [] Hears("WTRM") -> "BADEND"
            [] OTHER -> "RCV_DATA")
  /\ UNCHANGED align_cnt

SimRcvEof == Listens("RCVEOF", "R_IP", IF m_crc_matched THEN "GOODEND" ELSE "BADEND")
SimGoodEnd == Listens("GOODEND", "R_OK", IF Hears("SYNC") THEN "IDLE" ELSE "GOODEND")
SimBadEnd == Listens("BADEND", "R_ERR", IF Hears("SYNC") THEN "IDLE" ELSE "BADEND")

LinkLayer ==
  /\ IF ~m_oob_done
     THEN UNCHANGED <<m_link_state, align_cnt, m_rxphy, flagVars, bufVars, m_received_data>>
     ELSE \/ SimAlign \/ SimIdle \/ SimSendChkRdy \/ SimSendData \/ SimSendEof
          \/ SimWait \/ SimRcvChkRdy \/ SimRcvData \/ SimRcvEof \/ SimGoodEnd
          \/ SimBadEnd
  /\ UNCHANGED <<m_oob_done, m_txphy, m_sent_data>>

\* The host's word as the device will see it.
ProcessTxSignals(w) == m_txphy' = w

-----------------------------------------------------------------------------
SimInit ==
  /\ m_link_state = "SEND_ALIGN" /\ align_cnt = 0 /\ m_oob_done = FALSE
  /\ m_txphy = Scramble(<<"ZERO">>, 0) /\ m_rxphy = NoWord
  /\ m_dma_act = FALSE /\ m_dma_read = FALSE /\ m_pio_setup = FALSE /\ m_pio_read = FALSE /\ m_data_response = FALSE
  /\ m_data_count = 0 /\ m_scrambler_fill = 0 /\ m_crc = NoCrc /\ m_crc_matched = FALSE
  /\ m_received_data = [i \in 1 .. MaxDataWords |-> <<"ZERO">>]
  /\ m_sent_data = NullData

SimTypeOK ==
  /\ m_link_state \in SimStates
  /\ align_cnt \in 0 .. MaxAlign
  /\ {m_oob_done, m_dma_act, m_dma_read, m_pio_setup, m_pio_read,
      m_data_response, m_crc_matched} \subseteq BOOLEAN
  /\ m_data_count \in Nat
  /\ m_scrambler_fill \in Nat
  /\ DOMAIN m_received_data = 1 .. MaxDataWords

=============================================================================
