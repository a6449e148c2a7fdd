------------------------------- MODULE MCTxSend -----------------------------
(* Two calls that overlap or follow each other, with one idempotency key;  *)
(* the first one sends a token.                                            *)
EXTENDS TxSend

MCKindsOf == <<{"erc20"}, {"native"}>>
=============================================================================
