----------------------------- MODULE MCWithdraw -----------------------------
(* The exchange without deposits and payments: alice can pay for two       *)
(* requests, bob for one.                                                  *)
EXTENDS Exchange, TLC

MCOpening == [u \in Users |-> IF u = "alice" THEN 2 ELSE 1]
MCNoBindings == [u \in Users |-> {}]
MCNoDeposits == <<>>

WithdrawSymmetry == Permutations(Broadcasters) \union Permutations(Handlers)
=============================================================================
