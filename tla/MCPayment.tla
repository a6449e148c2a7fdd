------------------------------ MODULE MCPayment -----------------------------
(* One unit of money, two merchants and two accounts it can move between.   *)
(* Clients send no key, that of the order of merchant m1, or a deposit's.   *)
EXTENDS Payment, TLC

MCClientKeys == {PayKey("m1", "o1"), DepositKey(1)}
MCOpening == [u \in Users |-> IF u = "alice" THEN 1 ELSE 0]

PaymentSymmetry == Permutations(Clients)
=============================================================================
