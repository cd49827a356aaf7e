------------------------------- MODULE LinkFsm --------------------------------
(***************************************************************************)
(* The host's link layer state machine, rtl/satalnk_fsm.v.  LinkStep(in)   *)
(* is one rising edge of the transmit clock; in holds the input wires:     *)
(*   rx               the word out of the receive FIFO, if there is one    *)
(*   s_valid s_data s_last    the packet to transmit                       *)
(*   m_full m_empty m_last m_abort    the receiving side                   *)
(*   m_phy_ready      the ALIGN inserter takes m_phy_data                  *)
(*   i_phy_ready      the physical layer is up                             *)
(* s_abort is tied to 0 in sata_link.v: L_SYNCESCAPE is never entered and  *)
(* is left out.                                                            *)
(***************************************************************************)
EXTENDS SataWords

VARIABLES
  link_state, r_ready, m_phy_data, s_success, s_failed, o_link_ready,
  o_link_error

linkVars == <<link_state, r_ready, m_phy_data, s_success, s_failed,
              o_link_ready, o_link_error>>

LinkStates == {"RESET", "NOCOMMERR", "NOCOMM", "SENDALIGN", "IDLE",
               "SENDCHKRDY", "SENDDATA", "RCVRHOLD", "WAIT",
               "RCVCHKRDY", "RCVWAITFIFO", "RCVDATA", "HOLD", "RCVHOLD",
               "RCVEOF", "GOODEND", "BADEND", "PMDENY"}

-----------------------------------------------------------------------------
\* The physical layer is gone in a state that counts on it.
Lost(in) == ~in.i_phy_ready /\ link_state \notin {"RESET", "NOCOMMERR", "NOCOMM"}

Goto(in, s) == link_state' = IF Lost(in) THEN "NOCOMMERR" ELSE s
StayLink(in) == Goto(in, link_state)

\* m_phy_data moves only when the ALIGN inserter takes it.
Emit(in, w) == m_phy_data' = IF in.m_phy_ready THEN w ELSE m_phy_data

\* The registers that fall back every cycle unless a state sets them.
Answered(ok, bad) == s_success' = ok /\ s_failed' = bad
NotSending == r_ready' = FALSE
NoAnswer   == Answered(FALSE, FALSE)

KeepReady(in) == o_link_ready' = (o_link_ready /\ ~Lost(in))
Down          == o_link_ready' = FALSE

-----------------------------------------------------------------------------
(* Coming up *)

Reset(in) ==
  /\ link_state = "RESET"
  /\ Goto(in, "NOCOMM")
  /\ m_phy_data' = Prim("ALIGN")
  /\ NotSending /\ NoAnswer /\ Down

NoCommErr(in) ==
  /\ link_state = "NOCOMMERR"
  /\ Goto(in, IF in.m_phy_ready THEN "NOCOMM" ELSE link_state)
  /\ Emit(in, Prim("ALIGN"))
  /\ NotSending /\ NoAnswer /\ Down

NoComm(in) ==
  /\ link_state = "NOCOMM"
  /\ Goto(in, IF in.i_phy_ready THEN "SENDALIGN" ELSE link_state)
  /\ m_phy_data' = IF in.i_phy_ready THEN Prim("ALIGN") ELSE m_phy_data
  /\ NotSending /\ NoAnswer /\ Down

SendAlign(in) ==
  /\ link_state = "SENDALIGN"
  /\ Goto(in, IF in.m_phy_ready THEN "IDLE" ELSE link_state)
  /\ Emit(in, Prim("ALIGN"))
  /\ NotSending /\ NoAnswer /\ Down

IdleNext(in) ==
  IF Is(in.rx, "X_RDY") THEN "RCVWAITFIFO"
  ELSE IF Is(in.rx, "PMREQ") THEN "PMDENY"
  ELSE IF in.s_valid THEN "SENDCHKRDY" ELSE "IDLE"

\* Seeded fault of SeesDevice: the link is ready as soon as it is idle.
SeesDevice_Always(in) == TRUE

SeesDevice(in) == Is(in.rx, "X_RDY") \/ Is(in.rx, "SYNC")

Idle(in) ==
  /\ link_state = "IDLE"
  /\ Goto(in, IF in.m_phy_ready THEN IdleNext(in) ELSE "IDLE")
  /\ Emit(in, Prim("SYNC"))
  /\ o_link_ready' = ((o_link_ready \/ SeesDevice(in)) /\ ~Lost(in))
  /\ NotSending /\ NoAnswer

-----------------------------------------------------------------------------
(* Transmitting *)

\* Seeded fault of ChkRdyNext: the frame does not wait for R_RDY.
ChkRdyNext_NoWait(in) == IF Is(in.rx, "X_RDY") THEN "RCVWAITFIFO" ELSE "SENDDATA"

\* The device's X_RDY wins a collision.
ChkRdyNext(in) ==
  IF Is(in.rx, "R_RDY") THEN "SENDDATA"
  ELSE IF Is(in.rx, "X_RDY") THEN "RCVWAITFIFO" ELSE "SENDCHKRDY"

SendChkRdy(in) ==
  /\ link_state = "SENDCHKRDY"
  /\ Goto(in, IF in.m_phy_ready THEN ChkRdyNext(in) ELSE "SENDCHKRDY")
  /\ r_ready' = (in.m_phy_ready /\ Is(in.rx, "R_RDY"))
  /\ Emit(in, Prim("X_RDY"))
  /\ NoAnswer /\ KeepReady(in)

\* A word of the packet leaves in every cycle the inserter takes one.  The
\* device's SYNC ends the frame where it stands.
SendData(in) ==
  LET next == CASE Is(in.rx, "SYNC") -> "IDLE"
                [] in.s_last /\ ~Is(in.rx, "SYNC") -> "WAIT"
                [] Is(in.rx, "HOLD") /\ ~in.s_last -> "RCVRHOLD"
                [] OTHER -> "SENDDATA"
  IN
  /\ link_state = "SENDDATA"
  /\ Goto(in, IF in.m_phy_ready THEN next ELSE "SENDDATA")
  /\ r_ready' = (in.m_phy_ready => next = "SENDDATA")
  /\ Emit(in, in.s_data)
  /\ Answered(FALSE, in.m_phy_ready /\ next = "IDLE")
  /\ KeepReady(in)

RcvRHold(in) ==
  LET next == IF Is(in.rx, "SYNC") THEN "IDLE"
              ELSE IF Is(in.rx, "HOLD") THEN "RCVRHOLD" ELSE "SENDDATA"
      hears == in.m_phy_ready /\ IsPrim(in.rx)
  IN
  /\ link_state = "RCVRHOLD"
  /\ Goto(in, IF hears THEN next ELSE "RCVRHOLD")
  /\ r_ready' = (hears /\ next = "SENDDATA")
  /\ Emit(in, Prim("HOLDA"))
  /\ Answered(FALSE, hears /\ next = "IDLE")
  /\ KeepReady(in)

FrameAccepted(in) == in.m_phy_ready /\ Is(in.rx, "R_OK")
FrameRefused(in)  == /\ in.m_phy_ready
                     /\ Is(in.rx, "SYNC") \/ Is(in.rx, "R_ERR")

\* The frame is out: wait for the device's verdict.
Wait(in) ==
  /\ link_state = "WAIT"
  /\ Goto(in, IF FrameAccepted(in) \/ FrameRefused(in) THEN "IDLE" ELSE "WAIT")
  /\ Answered(FrameAccepted(in), FrameRefused(in) /\ ~FrameAccepted(in))
  /\ Emit(in, Prim("WTRM"))
  /\ NotSending /\ KeepReady(in)

-----------------------------------------------------------------------------
(* Receiving.  Only some of these states look at m_phy_ready before they   *)
(* move.                                                                   *)

Receives(in, from, next, w) ==
  /\ link_state = from
  /\ Goto(in, next)
  /\ Emit(in, w)
  /\ NotSending /\ NoAnswer /\ KeepReady(in)

RcvWaitFifo(in) ==
  Receives(in, "RCVWAITFIFO",
           IF ~in.rx.valid \/ ~in.m_phy_ready THEN "RCVWAITFIFO"
           ELSE IF ~Is(in.rx, "X_RDY") THEN "IDLE"
           ELSE IF in.m_full THEN "RCVWAITFIFO" ELSE "RCVCHKRDY",
           Prim("SYNC"))

RcvChkRdyNext(in) ==
  IF Is(in.rx, "SOF") THEN "RCVDATA"
  ELSE IF in.rx.valid /\ ~Is(in.rx, "X_RDY") /\ in.m_phy_ready THEN "IDLE"
  ELSE "RCVCHKRDY"

RcvChkRdy(in) == Receives(in, "RCVCHKRDY", RcvChkRdyNext(in), Prim("R_RDY"))

RcvData(in) ==
  Receives(in, "RCVDATA",
           CASE Is(in.rx, "HOLD") -> "RCVHOLD"
             [] Is(in.rx, "EOF")  -> "RCVEOF"
             [] Is(in.rx, "WTRM") -> "BADEND"
             [] Is(in.rx, "SYNC") -> "IDLE"
             [] OTHER -> IF in.m_full THEN "HOLD" ELSE "RCVDATA",
           Prim("R_IP"))

HoldEnds(in) == Is(in.rx, "EOF")

Hold(in) ==
  Receives(in, "HOLD",
           CASE HoldEnds(in)       -> "RCVEOF"
             [] Is(in.rx, "HOLD")  -> "RCVHOLD"
             [] Is(in.rx, "SYNC")  -> "IDLE"
             [] OTHER -> IF in.m_empty /\ in.m_phy_ready THEN "RCVDATA" ELSE "HOLD",
           Prim("HOLD"))

RcvHold(in) ==
  Receives(in, "RCVHOLD",
           CASE ~in.rx.valid \/ Is(in.rx, "HOLD") -> "RCVHOLD"
             [] Is(in.rx, "EOF")  -> "RCVEOF"
             [] Is(in.rx, "SYNC") -> "IDLE"
             [] OTHER -> "RCVDATA",
           Prim("HOLDA"))

RcvVerdict(in) == IF in.m_abort THEN "BADEND"
                  ELSE IF in.m_last THEN "GOODEND" ELSE "RCVEOF"

RcvEof(in) == Receives(in, "RCVEOF", RcvVerdict(in), Prim("R_IP"))

GoodEnd(in) ==
  Receives(in, "GOODEND", IF Is(in.rx, "SYNC") THEN "IDLE" ELSE "GOODEND",
           Prim("R_OK"))

BadEnd(in) ==
  Receives(in, "BADEND", IF Is(in.rx, "SYNC") THEN "IDLE" ELSE "BADEND",
           Prim("R_ERR"))

\* A power management request is denied until a word of data arrives: a
\* primitive other than a request keeps the state too.
PmDeny(in) ==
  Receives(in, "PMDENY",
           IF in.rx.valid /\ ~in.rx.word.prim THEN "IDLE" ELSE "PMDENY",
           Prim("PMNAK"))

-----------------------------------------------------------------------------
LinkStep(in) ==
  /\ \/ Reset(in) \/ NoCommErr(in) \/ NoComm(in) \/ SendAlign(in) \/ Idle(in)
     \/ SendChkRdy(in) \/ SendData(in) \/ RcvRHold(in) \/ Wait(in)
     \/ RcvWaitFifo(in) \/ RcvChkRdy(in) \/ RcvData(in) \/ Hold(in)
     \/ RcvHold(in) \/ RcvEof(in) \/ GoodEnd(in) \/ BadEnd(in) \/ PmDeny(in)
  /\ o_link_error' = Lost(in)

\* The registers while i_reset is high.
LinkInReset ==
  /\ link_state = "RESET"
  /\ m_phy_data = Prim("ALIGN")
  /\ r_ready = FALSE /\ s_success = FALSE /\ s_failed = FALSE /\ o_link_ready = FALSE /\ o_link_error = FALSE

\* What the packetizer sees: a word is taken in this cycle.
SReady(m_phy_ready) == r_ready /\ m_phy_ready

LinkTypeOK ==
  /\ link_state \in LinkStates
  /\ {r_ready, s_success, s_failed, o_link_ready, o_link_error} \subseteq BOOLEAN

=============================================================================
