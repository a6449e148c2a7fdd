------------------------------ MODULE MCDeposit -----------------------------
(* Deposit 1 goes to alice, who has an account and two merchants, 2 and 3  *)
(* to bob, who has neither and may be bound to a merchant at any time.  A  *)
(* client may pay with the key of deposit 1.                               *)
EXTENDS Deposit, TLC

MCClientKeys == {DepositKey(1)}
MCDepUser == [d \in Deposits |-> IF d = 1 THEN "alice" ELSE "bob"]
MCDepAmount == [d \in Deposits |-> IF d = 2 THEN 2 ELSE 1]
MCOpening == [u \in Users |-> IF u = "alice" THEN 1 ELSE 0]
MCBindings == [u \in Users |-> IF u = "alice" THEN Merchants ELSE {}]

DepositSymmetry == Permutations(Workers) \union Permutations(Merchants)
=============================================================================
