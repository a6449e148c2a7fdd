------------------------------ MODULE MCTxTracker ---------------------------
(* The poll loop and a refresh; a transaction, its replacement, or another *)
(* nonce.                                                                  *)
EXTENDS TxTracker
=============================================================================
