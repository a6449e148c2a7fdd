-------------------------------- MODULE TxNode ------------------------------
(***************************************************************************)
(* What internal/tx shares: the rows of tx_tracker, the transactions that  *)
(* were signed, and the Ethereum node they are broadcast to.  The node is  *)
(* external; it is modelled by what the callers of internal/eth see.       *)
(*                                                                         *)
(* A transaction is known by its hash, its index in signed.                *)
(***************************************************************************)
EXTENDS Integers, Sequences, FiniteSets, FiniteSetsExt

CONSTANTS
    MaxCalls,            \* bound: API calls, and so transactions
    Keys,                \* idempotency keys that clients use
    BroadcastMaxRetries  \* cfg.TxTracker.BroadcastMaxRetries

NoKey == "no key"
Custodial == "custodial"   \* the wallet whose nonces Allocate hands out
Client == "client"         \* a wallet whose owner signs

ASSUME TxAssumption ==
    /\ NoKey \notin Keys
    /\ MaxCalls \in Nat
    /\ BroadcastMaxRetries \in Nat

VARIABLES
    signed,   \* the transactions that were signed: from, nonce, the call's key, whether a SpeedUp
    row,      \* table tx_tracker: status, signed_raw_hex (a hash) and broadcast_retry_count
    node      \* what the chain and its mempool hold of each transaction

Hashes == 1..MaxCalls
Signed == DOMAIN signed

Broadcasting == {"submitting", "broadcast_failed"}
Final == {"confirmed", "failed", "dropped", "replaced"}
Statuses == {"none", "pending"} \union Broadcasting \union Final

NoTx == [status |-> "none", raw |-> 0, retry |-> 0]
NewRow(h) == [status |-> "submitting", raw |-> h, retry |-> 0]

(* The rows of the same from_addr and nonce, in Go and in the mempool.     *)
Siblings(h) == {g \in Signed : signed[g].from = signed[h].from /\ signed[g].nonce = signed[h].nonce} \ {h}

(* MarkBroadcastPending and MarkBroadcastFailed: an UPDATE of a row whose  *)
(* broadcast is not known to have worked.                                  *)
Mark(h, status) ==
    IF row[h].status \in Broadcasting THEN [row EXCEPT ![h].status = status] ELSE row

-----------------------------------------------------------------------------
(* In a block that may still be reorganised away (mined, or reverted), or  *)
(* confirm_depth deep (final).                                             *)
InBlock == {"mined", "reverted", "final"}

UsedNonces(w, held) == {signed[h].nonce : h \in {g \in Signed : signed[g].from = w /\ node[g] \in held}}

(* eth_sendRawTransaction takes h unless its nonce was used; another       *)
(* transaction of that nonce leaves the mempool.                           *)
CanAccept(h) == node[h] # "unknown" \/ \A g \in Siblings(h) : node[g] \notin InBlock
Accepted(h) ==
    IF node[h] # "unknown" THEN node
    ELSE [g \in Hashes |-> CASE g = h -> "mempool"
                             [] g \in Siblings(h) -> "unknown"
                             [] OTHER -> node[g]]

(* A block takes the next nonce of a wallet.                               *)
Mine(h, result) ==
    /\ node[h] = "mempool"
    /\ \A n \in 0..(signed[h].nonce - 1) : n \in UsedNonces(signed[h].from, InBlock)
    /\ node' = [node EXCEPT ![h] = result]

Finalise(h) ==
    /\ node[h] = "mined"
    /\ node' = [node EXCEPT ![h] = "final"]

(* A reorganisation returns h to the mempool, ...                          *)
Reorganise(h) ==
    /\ node[h] \in {"mined", "reverted"}
    /\ node' = [node EXCEPT ![h] = "mempool"]

(* ... and the mempool may forget it.                                      *)
Evict(h) ==
    /\ node[h] = "mempool"
    /\ node' = [node EXCEPT ![h] = "unknown"]
=============================================================================
