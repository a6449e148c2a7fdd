------------------------------ MODULE MCExchange ----------------------------
(* Deposits of alice, which she can withdraw or pay to the shop before a   *)
(* reorg takes them back.                                                  *)
EXTENDS Exchange, TLC

MCDepUser == [d \in Deposits |-> "alice"]
MCDepAmount == [d \in Deposits |-> 1]
MCOpening == [u \in Users |-> IF u = "alice" THEN 1 ELSE 0]
MCBindings == [u \in Users |-> {"m1"}]
=============================================================================
