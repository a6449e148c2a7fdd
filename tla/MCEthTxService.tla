--------------------------- MODULE MCEthTxService ---------------------------
(* Two accounts that pay each other and a third that has to be made.       *)
EXTENDS EthTxService

MCSeed == [a \in {"a", "b"} |-> 1]
=============================================================================
