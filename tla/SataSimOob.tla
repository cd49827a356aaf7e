------------------------------ MODULE SataSimOob ------------------------------
(***************************************************************************)
(* The out-of-band half of the simulated disk, bench/cpp/satasim.cpp:      *)
(* process_oob() with detect_coms() and send_coms(), and the signals       *)
(* process_tx_signals() hands over.  cominit_sent and comwake_sent are     *)
(* static in send_coms(): nothing clears them.                             *)
(***************************************************************************)
EXTENDS Naturals

VARIABLES
  m_txphy_cominit, m_txphy_comwake, m_txphy_comfinish,
  m_rxphy_cominit, m_rxphy_comwake, m_rxphy_elecidle,
  cominit_sent, comwake_sent,
  m_phy_ready              \* with m_txphy_ready, which equals it

oobVars == <<m_txphy_cominit, m_txphy_comwake, m_txphy_comfinish,
             m_rxphy_cominit, m_rxphy_comwake, m_rxphy_elecidle,
             cominit_sent, comwake_sent, m_phy_ready>>

\* detect_coms()
DetectComs == m_txphy_comfinish' = (m_txphy_cominit \/ m_txphy_comwake)

SendsCominit == m_txphy_comfinish' /\ ~cominit_sent
SendsComwake == m_txphy_comfinish' /\ ~comwake_sent /\ cominit_sent'

\* send_coms(): each answer lasts until the host stops asking.
SendComs ==
  /\ m_rxphy_cominit' = SendsCominit
  /\ cominit_sent' = (cominit_sent \/ (~SendsCominit /\ m_rxphy_cominit))
  /\ m_rxphy_comwake' = SendsComwake
  /\ comwake_sent' = (comwake_sent \/ (~SendsComwake /\ m_rxphy_comwake))

ComsDone == cominit_sent' /\ comwake_sent'

\* process_oob(), which the bench calls while the host's link is not ready
ProcessOob ==
  /\ DetectComs
  /\ SendComs
  /\ m_rxphy_elecidle' = (m_rxphy_elecidle /\ ~ComsDone)

OobAside == UNCHANGED <<m_txphy_comfinish, m_rxphy_cominit, m_rxphy_comwake,
                        m_rxphy_elecidle, cominit_sent, comwake_sent>>

\* process_tx_signals()
OobSignals(cominit, comwake) ==
  /\ m_txphy_cominit' = cominit
  /\ m_txphy_comwake' = comwake
  /\ m_phy_ready' = TRUE

OobInit ==
  /\ m_txphy_cominit = FALSE /\ m_txphy_comwake = FALSE /\ m_txphy_comfinish = FALSE
  /\ m_rxphy_cominit = FALSE /\ m_rxphy_comwake = FALSE /\ m_rxphy_elecidle = TRUE
  /\ cominit_sent = FALSE /\ comwake_sent = FALSE
  /\ m_phy_ready = FALSE

OobTypeOK ==
  {m_txphy_cominit, m_txphy_comwake, m_txphy_comfinish, m_rxphy_cominit,
   m_rxphy_comwake, m_rxphy_elecidle, cominit_sent, comwake_sent, m_phy_ready}
    \subseteq BOOLEAN

=============================================================================
