------------------------------- MODULE MCLive -------------------------------
(* A view for TLC's safety runs: a session without the fields its state      *)
(* does not read before they are set again.  Two sessions with the same view *)
(* have the same futures.                                                    *)
EXTENDS ArqSession

Live(r) ==
    LET up == r.conn_state = "CONNECTED"
        Flow(states) == up /\ r.dflow_state \in states
        acking == Flow({"ACK_TX"}) /\ ~r.pending_connect_confirm
    IN  [r EXCEPT
           !.role = IF up THEN @ ELSE "NONE",
           !.txlog = IF up THEN @ ELSE <<>>,
           !.rxlog = IF up THEN @ ELSE <<>>,
           !.tx_window = IF up THEN @ ELSE <<>>,
           !.tx_seq = IF up THEN @ ELSE 0,
           !.rx_expected = IF up THEN @ ELSE 0,
           !.dflow_state = IF up THEN @ ELSE "IDLE_ISS",
           !.tx_retries_left =
               IF r.conn_state \in {"DISCONNECTED", "LISTENING"}
                  \/ Flow({"IDLE_ISS", "IDLE_IRS", "DATA_RX", "ACK_TX", "TURN_ACK_TX",
                           "MODE_ACK_TX", "KEEPALIVE_TX", "KEEPALIVE_WAIT", "KEEPALIVE_ACK_TX"})
               THEN 0 ELSE @,
           !.keepalive_miss_count = IF Flow({"KEEPALIVE_TX", "KEEPALIVE_WAIT"}) THEN @ ELSE 0,
           !.keepalive_from_irs = @ /\ Flow({"KEEPALIVE_TX", "KEEPALIVE_WAIT"}),
           !.keepalive_ack_from_irs = @ /\ Flow({"KEEPALIVE_ACK_TX"}),
           !.acktx_had_has_data = @ /\ acking,
           !.peer_has_data = @ /\ (acking \/ Flow({"DATA_RX"})),
           !.pending_tx_mode = IF Flow({"MODE_REQ_TX", "MODE_REQ_WAIT"}) THEN @ ELSE "none"]

=============================================================================
