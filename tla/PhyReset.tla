------------------------------- MODULE PhyReset -------------------------------
(***************************************************************************)
(* The host's reset controller, rtl/sata_reset.v: out-of-band signalling   *)
(* up to a live link, the watchdog that starts it over, and the register   *)
(* the link's words leave through.                                         *)
(*                                                                         *)
(* RxSample(sig) is a rising edge of the receive clock, ResetStep one of   *)
(* the transmit clock.  i_reset_request is left out: the link's            *)
(* o_phy_reset is set by its reset alone.                                  *)
(***************************************************************************)
EXTENDS SataWords

CONSTANTS
  Watchdog,     \* WATCHDOG_TIMEOUT, 873.8 us of the transmit clock
  MinAlignment, \* MIN_ALIGNMENT, 116.3 ns of it and 4 more
  Extend        \* COUNTS of sata_pextend

ASSUME ResetAssumption == /\ Watchdog \in Nat \ {0} /\ MinAlignment \in Nat \ {0}
                          /\ Extend \in Nat \ {0}

VARIABLES
  fsm_state,
  o_tx_cominit, o_tx_comwake, o_link_up,
  phy_reg,             \* o_phy_primitive and o_phy_data
  ext,                 \* the counters of the sata_pextend instances
  pipe, phy_pipe,      \* the synchronisers: ck_* is their last stage
  watchdog_counter, retry_timeout,
  min_alignment_counter, check_alignment,
  rx_linkup_xpipe, rx_linkup   \* o_link_up on the receive clock

\* The registers of the two clocks.
txResetVars == <<fsm_state, o_tx_cominit, o_tx_comwake, o_link_up, phy_reg, pipe,
                 phy_pipe, watchdog_counter, retry_timeout,
                 min_alignment_counter, check_alignment>>
rxResetVars == <<ext, rx_linkup_xpipe, rx_linkup>>
resetVars   == <<txResetVars, rxResetVars>>

ResetStates == {"RESET", "ISSUE_COMINIT", "AWAIT_RXCOMINIT", "AWAIT_ENDOFINIT",
                "CALIBRATE", "COMWAKE", "AWAIT_RXCOMWAKE", "AWAIT_RXCLRWAKE",
                "AWAIT_ALIGN", "READY", "AWAIT_RXCLRINIT"}
Signals == {"elecidle", "cominit", "comwake", "align"}

ck(s) == pipe[s][3]
ck_phy_ready == phy_pipe[3]

-----------------------------------------------------------------------------
\* sig[s]: signal s is there on this edge.
RxSample(sig) ==
  /\ ext' = [s \in Signals |->
               CASE ext[s] = 0 -> IF sig[s] THEN Extend ELSE 0
                 [] ext[s] = 1 -> IF sig[s] THEN 1 ELSE 0
                 [] OTHER      -> ext[s] - 1]
  /\ rx_linkup_xpipe' = o_link_up /\ rx_linkup' = rx_linkup_xpipe

\* The state after this edge.
NextState(i_tx_comfinish) ==
  CASE fsm_state = "RESET"           -> IF ck_phy_ready THEN "ISSUE_COMINIT" ELSE "RESET"
    [] fsm_state = "ISSUE_COMINIT"   -> IF i_tx_comfinish THEN "AWAIT_RXCOMINIT" ELSE fsm_state
    [] fsm_state = "AWAIT_RXCOMINIT" -> IF ck("cominit") THEN "AWAIT_ENDOFINIT"
                                        ELSE IF retry_timeout THEN "RESET" ELSE fsm_state
    [] fsm_state = "AWAIT_ENDOFINIT" -> IF ck("cominit") THEN fsm_state ELSE "CALIBRATE"
    [] fsm_state = "CALIBRATE"       -> "COMWAKE"
    [] fsm_state = "COMWAKE"         -> IF i_tx_comfinish THEN "AWAIT_RXCOMWAKE" ELSE fsm_state
    [] fsm_state = "AWAIT_RXCOMWAKE" -> IF ck("comwake") THEN "AWAIT_RXCLRWAKE"
                                        ELSE IF retry_timeout THEN "RESET" ELSE fsm_state
    [] fsm_state = "AWAIT_RXCLRWAKE" -> IF ck("comwake") THEN fsm_state ELSE "AWAIT_ALIGN"
    [] fsm_state = "AWAIT_ALIGN"     ->
         IF ck("cominit") THEN "AWAIT_RXCLRINIT"
         ELSE IF retry_timeout THEN "RESET"
         ELSE IF ck("align") /\ ~ck("elecidle") /\ check_alignment THEN "READY"
         ELSE fsm_state
    [] fsm_state = "READY"           ->
         IF ck("elecidle") THEN "RESET"
         ELSE IF ck("cominit") THEN "AWAIT_RXCLRINIT" ELSE fsm_state
    [] fsm_state = "AWAIT_RXCLRINIT" -> IF ck("cominit") THEN fsm_state ELSE "RESET"

WatchdogRests == fsm_state \in {"RESET", "AWAIT_RXCLRWAKE"} \/ o_tx_cominit \/ o_link_up

\* Seeded fault of Ticked: the watchdog does not stop at zero.
Ticked_Wraps == watchdog_counter - 1

Ticked == IF watchdog_counter = 0 THEN 0 ELSE watchdog_counter - 1

\* word: what the link sends; it passes once the link is up.
ResetStep(i_phy_ready, i_tx_comfinish, word) ==
  /\ fsm_state' = NextState(i_tx_comfinish)
  /\ o_tx_cominit' = (fsm_state = "RESET" /\ ck_phy_ready)
  /\ o_tx_comwake' = (fsm_state = "CALIBRATE")
  /\ o_link_up' = (fsm_state = "READY")
  /\ phy_reg' = CASE fsm_state = "READY" -> IF o_link_up THEN word ELSE phy_reg
                  [] fsm_state = "AWAIT_ALIGN" -> Scramble(<<"D10.2">>, 0)
                  [] OTHER -> Prim("ALIGN")
  /\ pipe' = [s \in Signals |-> <<ext[s] > 0, pipe[s][1], pipe[s][2]>>]
  /\ phy_pipe' = <<i_phy_ready, phy_pipe[1], phy_pipe[2]>>
  /\ IF WatchdogRests
     THEN watchdog_counter' = Watchdog /\ retry_timeout' = FALSE
     ELSE /\ watchdog_counter' = Ticked
          /\ retry_timeout' = (watchdog_counter <= 1)
  /\ IF fsm_state # "AWAIT_ALIGN"
     THEN min_alignment_counter' = MinAlignment /\ check_alignment' = FALSE
     ELSE IF check_alignment THEN UNCHANGED <<min_alignment_counter, check_alignment>>
     ELSE /\ min_alignment_counter' = min_alignment_counter - 1
          /\ check_alignment' = (min_alignment_counter <= 1)

ResetInit ==
  /\ fsm_state = "RESET"
  /\ o_tx_cominit = FALSE /\ o_tx_comwake = FALSE /\ o_link_up = FALSE
  /\ phy_reg = Prim("ALIGN")
  /\ ext = [s \in Signals |-> 0]
  /\ pipe = [s \in Signals |-> <<FALSE, FALSE, FALSE>>]
  /\ phy_pipe = <<FALSE, FALSE, FALSE>>
  /\ watchdog_counter = Watchdog /\ retry_timeout = FALSE
  /\ min_alignment_counter = MinAlignment /\ check_alignment = FALSE
  /\ rx_linkup_xpipe = FALSE /\ rx_linkup = FALSE

ResetTypeOK ==
  /\ fsm_state \in ResetStates
  /\ {o_tx_cominit, o_tx_comwake, o_link_up, retry_timeout, check_alignment,
      rx_linkup_xpipe, rx_linkup} \subseteq BOOLEAN
  /\ ext \in [Signals -> 0 .. Extend]
  /\ watchdog_counter \in 0 .. Watchdog
  /\ min_alignment_counter \in 0 .. MinAlignment

=============================================================================
