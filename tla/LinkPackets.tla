----------------------------- MODULE LinkPackets ------------------------------
(***************************************************************************)
(* The packet pipelines of the host's link layer, both on the transmit     *)
(* clock.                                                                  *)
(*                                                                         *)
(* TxStep: satalnk_txpacket.v.  CRC and scrambler are functions of the     *)
(* packet (Framed) and stand in tx_queue; the framer's registers are kept. *)
(* RxStep: satalnk_rxpacket.v, its three stages register by register: the  *)
(* deframer (df), the descrambler (ds) and the CRC check (m).              *)
(***************************************************************************)
EXTENDS SataWords

VARIABLES
  tx_queue,                            \* scrambled words the framer has yet to take
  tx_state, tx_valid, tx_word, tx_last, \* satatx_framer.v
  rx_state, rx_held, df,               \* satarx_framer.v: r_state, r_data, outputs
  mid_packet, rx_active, rx_fill, ds,  \* satarx_scrambler.v
  rx_crc, crc_held, m_out              \* satarx_crc.v: crc, r_data, outputs

txVars == <<tx_queue, tx_state, tx_valid, tx_word, tx_last>>
rxVars == <<rx_state, rx_held, df, mid_packet, rx_active, rx_fill, ds,
            rx_crc, crc_held, m_out>>

-----------------------------------------------------------------------------
(* Transmit *)

\* The words of a packet with these values, the last one marked.
Packet(vals) ==
  LET words == Framed(vals)
  IN  [i \in DOMAIN words |-> [word |-> words[i], last |-> i = Len(words)]]

TxFree(ready) == ~tx_valid \/ ready

\* Seeded fault of TxGap: a missing word is not covered by HOLD.
TxGap_Repeats == tx_word

\* What the framer sends when the packet has no word for it.
TxGap == Prim("HOLD")

\* ready is tx_pktready; arrives, whether the pipeline has a word ready in
\* this cycle.
Takes(ready, arrives) ==
  tx_state = "DATA" /\ TxFree(ready) /\ arrives /\ tx_queue # << >>

\* more, what the transport layer puts into the packet.
TxStep(ready, arrives, more) ==
  LET avail == arrives /\ tx_queue # << >>
      takes == Takes(ready, arrives)
  IN
  /\ tx_queue' = (IF takes THEN Tail(tx_queue) ELSE tx_queue) \o more
  /\ \/ /\ tx_state = "IDLE"
        /\ IF TxFree(ready)
           THEN /\ tx_word' = Prim("SOF")
                /\ tx_last' = FALSE
                /\ tx_valid' = avail
                /\ tx_state' = IF avail THEN "DATA" ELSE "IDLE"
           ELSE UNCHANGED <<tx_state, tx_valid, tx_word, tx_last>>
     \/ /\ tx_state = "DATA"
        /\ tx_valid' = TRUE
        /\ tx_word' = IF ~TxFree(ready) THEN tx_word
                      ELSE IF avail THEN Head(tx_queue).word ELSE TxGap
        /\ tx_state' = IF takes /\ Head(tx_queue).last THEN "EOF" ELSE "DATA"
        /\ UNCHANGED tx_last
     \/ /\ tx_state = "EOF"
        /\ IF ready
           THEN /\ tx_state' = "IDLE" /\ tx_valid' = TRUE
                /\ tx_word' = Prim("EOF") /\ tx_last' = TRUE
           ELSE UNCHANGED <<tx_state, tx_valid, tx_word, tx_last>>

-----------------------------------------------------------------------------
(* Receive *)

\* One beat between two stages.
Beat(valid, data, last, abort) ==
  [valid |-> valid, data |-> data, last |-> last, abort |-> abort]
NoBeat == Beat(FALSE, Noise, FALSE, FALSE)

\* A primitive that ends the frame before its EOF.
Cuts(rx) == Is(rx, "WTRM") \/ Is(rx, "SYNC")

\* The physical layer is gone: what has been received of a frame is dropped.
DropFrame ==
  /\ rx_state' = "IDLE" /\ rx_held' = NoWord
  /\ df' = [NoBeat EXCEPT !.abort = rx_held.valid]

\* Stage 1.  A word is passed on when the next one, or EOF, arrives.
Deframe(rx) ==
  \/ /\ rx.valid /\ ~rx.word.prim
     /\ rx_held' = IF rx_state = "DATA" THEN Got(rx.word) ELSE NoWord
     /\ df' = IF rx_state = "DATA" /\ rx_held.valid
              THEN Beat(TRUE, rx_held.word, FALSE, FALSE) ELSE NoBeat
     /\ UNCHANGED rx_state
  \/ /\ Is(rx, "SOF")
     /\ rx_state' = "DATA"
     /\ df' = [NoBeat EXCEPT !.abort = rx_state = "DATA" \/ rx_held.valid
                                         \/ (df.valid /\ ~df.last)]
     /\ UNCHANGED rx_held
  \/ /\ Is(rx, "EOF")
     /\ rx_state' = "IDLE" /\ rx_held' = NoWord
     /\ df' = IF rx_held.valid THEN Beat(TRUE, rx_held.word, TRUE, FALSE)
              ELSE [NoBeat EXCEPT !.last = TRUE]
  \/ /\ Cuts(rx)
     /\ rx_state' = "IDLE" /\ rx_held' = NoWord
     /\ df' = IF rx_held.valid THEN Beat(FALSE, Noise, TRUE, TRUE) ELSE NoBeat
  \/ /\ rx.valid => rx.word.prim /\ ~Is(rx, "SOF") /\ ~Is(rx, "EOF") /\ ~Cuts(rx)
     /\ df' = NoBeat
     /\ UNCHANGED <<rx_state, rx_held>>

\* Stage 2.  The scrambler is rewound by the last word of a frame, or
\* between frames: an aborted frame leaves rx_active set and rx_fill where
\* it was.
Unscramble ==
  /\ rx_active' = IF df.valid THEN ~df.last ELSE rx_active
  /\ rx_fill' = IF df.valid THEN (IF df.last THEN 0 ELSE rx_fill + 1)
                ELSE IF rx_active THEN rx_fill ELSE 0
  /\ mid_packet' = IF df.abort THEN FALSE
                   ELSE IF df.valid THEN ~df.last ELSE mid_packet
  /\ ds' = IF df.valid
           THEN Beat(TRUE, Descramble(df.data, rx_fill), df.last, df.abort /\ mid_packet)
           ELSE [NoBeat EXCEPT !.last = df.last /\ ~df.abort, !.abort = df.abort /\ mid_packet]

CrcFails == ds.valid /\ ds.last /\ crc_held.valid /\ ds.data # CrcValue(rx_crc)

\* Seeded fault of StaysLast: a beat that is not the last clears nothing.
StaysLast_Sticks(passes) == (passes /\ ds.last) \/ m_out.last

\* M_AXIS_TLAST changes with a beat only: without OPT_LOWPOWER it stays set
\* between the frames.
StaysLast(passes) == IF passes THEN ds.last ELSE m_out.last

\* Stage 3.  df.abort holds the whole stage in reset: the ds.abort that
\* follows it finds nothing to abort.
CheckCrc ==
  LET passes == ds.valid /\ crc_held.valid
      last   == StaysLast(passes)
      abort  == CrcFails \/ (ds.abort /\ crc_held.valid)
  IN
  IF df.abort
  THEN rx_crc' = NoCrc /\ crc_held' = NoWord /\ m_out' = Beat(FALSE, Noise, last, FALSE)
  ELSE /\ rx_crc' = IF ~ds.valid THEN rx_crc
                    ELSE IF ds.last THEN NoCrc ELSE Absorb(rx_crc, ds.data)
       /\ crc_held' = IF ds.abort THEN NoWord
                      ELSE IF ~ds.valid THEN crc_held
                      ELSE IF ds.last THEN NoWord ELSE Got(ds.data)
       /\ m_out' = Beat(passes, IF passes THEN crc_held.word ELSE Noise, last, abort)

RxStep(rx, i_phy_ready) ==
  /\ IF i_phy_ready THEN Deframe(rx) ELSE DropFrame
  /\ Unscramble
  /\ CheckCrc

-----------------------------------------------------------------------------
PacketsInit ==
  /\ tx_queue = << >> /\ tx_state = "IDLE" /\ tx_valid = FALSE
  /\ tx_word = Prim("SOF") /\ tx_last = FALSE
  /\ rx_state = "IDLE" /\ rx_held = NoWord /\ df = NoBeat
  /\ mid_packet = FALSE /\ rx_active = FALSE /\ rx_fill = 0 /\ ds = NoBeat
  /\ rx_crc = NoCrc /\ crc_held = NoWord /\ m_out = NoBeat

PacketsTypeOK ==
  /\ tx_state \in {"IDLE", "DATA", "EOF"}
  /\ rx_state \in {"IDLE", "DATA"}
  /\ {tx_valid, tx_last, mid_packet, rx_active} \subseteq BOOLEAN
  /\ rx_fill \in Nat

=============================================================================
