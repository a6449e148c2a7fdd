------------------------------ MODULE MCWallet ------------------------------
(* One address, which two handlers register for two users.  A handler of   *)
(* another instance looks like one that ends before its Upsert.            *)
EXTENDS Wallet

MCRegistered == [a \in Addrs |-> NoWallet]
MCHome == [h \in Handlers |-> "i1"]
=============================================================================
