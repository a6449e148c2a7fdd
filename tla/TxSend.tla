-------------------------------- MODULE TxSend ------------------------------
(***************************************************************************)
(* Sending transactions (tx/service.go, nonce.go, reconcile.go and their   *)
(* statements in store.go, signing in eth/transfer.go, the handlers in     *)
(* api/handlers_tx.go): a call writes a row of tx_tracker and then         *)
(* broadcasts; Reconciler broadcasts again what did not get through.       *)
(* Calls and the reconciler run concurrently; every action is one SQL      *)
(* statement or transaction, or one request to the Ethereum node.          *)
(*                                                                         *)
(* Time is left out: the grace period of a row may be over whenever the    *)
(* reconciler looks.  Tracker is reduced to what it does to a row that     *)
(* calls look at; TxTracker has its steps.  Fees and the encodings of a    *)
(* transaction are left out, recipients too: of the money, only the amount *)
(* moved and the value_wei of the row are kept.                            *)
(***************************************************************************)
EXTENDS TxNode

CONSTANTS
    DevSendEnabled,         \* cfg.Eth.DevSendEnabled
    RequireIdempotencyKey,  \* cfg.TxTracker.RequireIdempotencyKey
    KindsOf                 \* bound: what each call may send, native coin or an ERC-20 token

Kinds == {"native", "erc20"}
Asked == 1   \* the amount that a call asks to send

ASSUME TxSendAssumption ==
    /\ DevSendEnabled \in BOOLEAN
    /\ RequireIdempotencyKey \in BOOLEAN
    /\ KindsOf \in [1..MaxCalls -> SUBSET Kinds]

VARIABLES
    next,     \* table wallet_nonce: next_nonce of the custodial wallet, -1 without a row
    agent     \* the reconciler and the API calls, in the order they came in

sendVars == <<next, signed, row, agent, node>>

Reconciler == 0
Calls == 1..MaxCalls
Agents == {Reconciler} \union Calls

Idle == [pc |-> "idle", tx |-> 0, target |-> 0, key |-> NoKey, kind |-> "native", sync |-> FALSE]

TxSendInit ==
    /\ next = -1
    /\ signed = <<>>
    /\ row = [h \in Hashes |-> NoTx]
    /\ agent = [a \in Agents |-> Idle]
    /\ node = [h \in Hashes |-> "unknown"]

-----------------------------------------------------------------------------
(* What is signed, and the value_wei that insertFromSendResult gives its   *)
(* row: of an ERC-20 transfer that the service signs, the value in coins.  *)
SignNativeTransfer(nonce, key) ==
    [from |-> Custodial, nonce |-> nonce, key |-> key, again |-> FALSE,
     kind |-> "native", amount |-> Asked, value |-> Asked]

SignERC20Transfer(nonce, key) ==
    [SignNativeTransfer(nonce, key) EXCEPT !.kind = "erc20", !.value = 0]

(* The nonce of row h again, without a key, for the row's value_wei.  The  *)
(* caller gives the private key of the row's wallet, which SpeedUp does    *)
(* not check; with another one it signs what replaces nothing.             *)
SignSpeedUpNative(h) ==
    [signed[h] EXCEPT !.key = NoKey, !.again = TRUE, !.amount = signed[h].value]

SignSpeedUpERC20(h) == [SignSpeedUpNative(h) EXCEPT !.value = 0]

(* Mutant: the call data is not decoded.                                   *)
SendResultUndecoded(tx) == [tx EXCEPT !.value = IF tx.kind = "erc20" THEN 0 ELSE tx.amount]

(* Of a transaction that a client signed, the call data of transfer(to,    *)
(* amount) is decoded.                                                     *)
SendResultFromSigned(tx) == [tx EXCEPT !.value = tx.amount]

-----------------------------------------------------------------------------
(* GetByIdempotencyKey: the rows of a key, of which uk_tx_idempotency      *)
(* allows one.                                                             *)
RowsOf(key) == {h \in Signed : key # NoKey /\ signed[h].key = key /\ row[h] # NoTx}

Goto(a, pc) == agent' = [agent EXCEPT ![a].pc = pc]
Return(a) == agent' = [agent EXCEPT ![a] = [Idle EXCEPT !.pc = IF a = Reconciler THEN "idle" ELSE "done"]]

(* resumeBroadcast of row h with the transaction raw.                      *)
resumeBroadcast(a, h, raw) ==
    IF row[h].status \in Broadcasting
    THEN agent' = [agent EXCEPT ![a] = [Idle EXCEPT !.pc = "send", !.tx = raw, !.target = h]]
    ELSE Return(a)

Call(a) == agent[a].pc = "idle" /\ \A c \in 1..(a - 1) : agent[c].pc # "idle"

(* SendNative and SendERC20 up to checkIdempotency, which resumes with the *)
(* row's own signed_raw_hex.                                               *)
checkIdempotency(a, key, kind) ==
    /\ Call(a)
    /\ \/ \E h \in RowsOf(key) : resumeBroadcast(a, h, row[h].raw)
       \/ /\ RowsOf(key) = {}
          /\ agent' = [agent EXCEPT ![a] = [Idle EXCEPT !.pc = "allocate", !.key = key, !.kind = kind]]
    /\ UNCHANGED <<next, signed, row, node>>

(* PendingNonceAt: the first nonce that the chain and its mempool do not   *)
(* have.                                                                   *)
PendingNonce == Min({n \in 0..MaxCalls : n \notin UsedNonces(Custodial, InBlock \union {"mempool"})})

(* Allocate, a transaction with the row locked, and the signing, which may *)
(* fail and then leaves the nonce used.                                    *)
Allocate(a) ==
    LET nonce == IF next = -1 THEN PendingNonce ELSE next
        tx == IF agent[a].kind = "erc20" THEN SignERC20Transfer(nonce, agent[a].key)
              ELSE SignNativeTransfer(nonce, agent[a].key)
    IN  /\ agent[a].pc = "allocate"
        /\ next' = nonce + 1
        /\ \/ Return(a) /\ UNCHANGED signed
           \/ /\ signed' = Append(signed, tx)
              /\ agent' = [agent EXCEPT ![a].pc = "insert", ![a].tx = Len(signed'),
                                        ![a].target = Len(signed'),
                                        ![a].key = NoKey, ![a].kind = "native", ![a].sync = TRUE]
        /\ UNCHANGED <<row, node>>

(* SpeedUp of a row that is pending.                                       *)
SpeedUp(a, h) ==
    /\ Call(a)
    /\ row[h].status = "pending"
    /\ signed' = Append(signed, IF signed[h].kind = "erc20" THEN SignSpeedUpERC20(h) ELSE SignSpeedUpNative(h))
    /\ agent' = [agent EXCEPT ![a] = [Idle EXCEPT !.pc = "insert", !.tx = Len(signed'), !.target = Len(signed')]]
    /\ UNCHANGED <<next, row, node>>

(* SubmitRaw of transaction raw: a row of its key is resumed with raw, and *)
(* so is (in persistAndBroadcast) the row of its hash.                     *)
submit(a, raw, key) ==
    \/ \E h \in RowsOf(key) : resumeBroadcast(a, h, raw)
    \/ RowsOf(key) = {} /\ row[raw] # NoTx /\ resumeBroadcast(a, raw, raw)
    \/ /\ RowsOf(key) = {} /\ row[raw] = NoTx
       /\ agent' = [agent EXCEPT ![a] = [Idle EXCEPT !.pc = "insert", !.tx = raw, !.target = raw]]

(* A client signs a transaction, with the first nonce of its wallet, ...   *)
SubmitRaw(a, key, kind) ==
    /\ Call(a)
    /\ signed' = Append(signed, SendResultFromSigned(
                    [from |-> Client, nonce |-> 0, key |-> key, again |-> FALSE,
                     kind |-> kind, amount |-> Asked, value |-> 0]))
    /\ submit(a, Len(signed'), key)
    /\ UNCHANGED <<next, row, node>>

(* ... or repeats a call it made.                                          *)
ResubmitRaw(a, raw) ==
    /\ Call(a)
    /\ signed[raw].from = Client /\ ~signed[raw].again
    /\ submit(a, raw, signed[raw].key)
    /\ UNCHANGED <<next, signed, row, node>>

-----------------------------------------------------------------------------
(* INSERT ... ON DUPLICATE KEY UPDATE meets the row of the hash, or the    *)
(* row of the key, which keeps its own hash.                               *)
insertRow(h) ==
    LET met == RowsOf(signed[h].key) \union {g \in {h} : row[g] # NoTx}
    IN  IF met = {} THEN [row EXCEPT ![h] = NewRow(h)]
        ELSE [g \in Hashes |->
                IF g \notin met THEN row[g]
                ELSE [row[g] EXCEPT !.raw = h,
                                    !.status = IF @ \in Final THEN @ ELSE "submitting"]]

(* Mutant: an insert that fails is ignored.                                *)
InsertSubmittingBestEffort(a) ==
    /\ agent[a].pc = "insert"
    /\ row' \in {row, insertRow(agent[a].tx)}
    /\ Goto(a, "send")
    /\ UNCHANGED <<next, signed, node>>

InsertSubmitting(a) ==
    /\ agent[a].pc = "insert"
    /\ row' = insertRow(agent[a].tx)
    /\ Goto(a, "send")
    /\ UNCHANGED <<next, signed, node>>

(* SendSignedTransaction: the node takes the transaction or knows it, or   *)
(* answers with an error, which is also what a lost answer looks like.     *)
SendSignedTransaction(a) ==
    LET h == agent[a].tx
    IN  /\ agent[a].pc = "send"
        /\ \/ CanAccept(h) /\ node' = Accepted(h) /\ (Goto(a, "accepted") \/ Goto(a, "rejected"))
           \/ node' = node /\ Goto(a, "rejected")
        /\ UNCHANGED <<next, signed, row>>

MarkBroadcastPending(a) ==
    /\ agent[a].pc = "accepted"
    /\ row' = Mark(agent[a].target, "pending")
    /\ Return(a)
    /\ UNCHANGED <<next, signed, node>>

(* IncrementBroadcastRetry, of the reconciler, which alone looks at the    *)
(* count: one step with the statement that follows it.                     *)
Counted(h) == [row EXCEPT ![h].retry = @ + 1]

(* The reconciler counts the attempt first; the custodial calls go on with *)
(* SyncFromChain.                                                          *)
MarkBroadcastFailed(a) ==
    LET h == agent[a].target
        failed == Mark(h, "broadcast_failed")
    IN  /\ agent[a].pc = "rejected"
        /\ row' = IF a = Reconciler THEN [failed EXCEPT ![h].retry = @ + 1] ELSE failed
        /\ IF agent[a].sync THEN Goto(a, "sync") ELSE Return(a)
        /\ UNCHANGED <<next, signed, node>>

(* One of the reconciler's two statements fails, or it is stopped between  *)
(* them.                                                                   *)
IgnoredError ==
    LET h == agent[Reconciler].target
    IN  /\ agent[Reconciler].pc = "rejected"
        /\ row' \in {Counted(h), Mark(h, "broadcast_failed")}
        /\ Return(Reconciler)
        /\ UNCHANGED <<next, signed, node>>

(* Mutant: next_nonce is set to what the chain says.                       *)
SyncFromChainLowers(a) ==
    /\ agent[a].pc = "sync"
    /\ next' = PendingNonce
    /\ Return(a)
    /\ UNCHANGED <<signed, row, node>>

(* next_nonce = GREATEST(next_nonce, PendingNonceAt).                      *)
SyncFromChain(a) ==
    /\ agent[a].pc = "sync"
    /\ next' = IF PendingNonce > next THEN PendingNonce ELSE next
    /\ Return(a)
    /\ UNCHANGED <<signed, row, node>>

(* A call, or a turn of the reconciler, ends early: an error of MySQL, a   *)
(* client that goes away, a stop of the process.  The reconciler starts    *)
(* again.                                                                  *)
CutOff(a) ==
    /\ agent[a].pc \notin {"idle", "done"}
    /\ Return(a)
    /\ UNCHANGED <<next, signed, row, node>>

-----------------------------------------------------------------------------
(* Mutant: rows in status submitting are left to their calls.              *)
ListFailedOnly ==
    {h \in Hashes : row[h].status = "broadcast_failed" /\ row[h].retry < BroadcastMaxRetries}

ListReconcileBatch ==
    {h \in Hashes : row[h].status \in Broadcasting /\ row[h].retry < BroadcastMaxRetries}

(* Reconciler.runOnce reads a row; reconcileOne asks the node for it, and  *)
(* marks it or broadcasts the raw transaction that was read.               *)
reconcileOne(h) ==
    /\ agent[Reconciler].pc = "idle"
    /\ h \in ListReconcileBatch
    /\ \E pc \in {"send"} \union (IF node[h] # "unknown" THEN {"accepted"} ELSE {}) :
          agent' = [agent EXCEPT ![Reconciler] = [Idle EXCEPT !.pc = pc, !.tx = row[h].raw, !.target = h]]
    /\ UNCHANGED <<next, signed, row, node>>

-----------------------------------------------------------------------------
(* The tracker finds that the node has h, or ends its tracking; to calls   *)
(* all final statuses are alike.                                           *)
Tracked(h) ==
    /\ row[h].status = "pending" \/ (row[h].status \in Broadcasting /\ node[h] # "unknown")
    /\ \E s \in {"pending", "confirmed"} : row' = [row EXCEPT ![h].status = s]
    /\ UNCHANGED <<next, signed, agent, node>>

(* A block takes h; whether it runs or reverts does not matter here.       *)
MineTx(h) ==
    /\ Mine(h, "mined")
    /\ UNCHANGED <<next, signed, row, agent>>

-----------------------------------------------------------------------------
AgentStep(a) ==
    \/ Allocate(a)
    \/ InsertSubmitting(a)
    \/ SendSignedTransaction(a)
    \/ MarkBroadcastPending(a)
    \/ MarkBroadcastFailed(a)
    \/ SyncFromChain(a)

ReconcilerStep ==
    \/ SendSignedTransaction(Reconciler)
    \/ MarkBroadcastPending(Reconciler)
    \/ MarkBroadcastFailed(Reconciler)
    \/ \E h \in Hashes : reconcileOne(h)

(* The handlers; a request that they refuse changes nothing.               *)
HandleTxSubmit(a) ==
    \E key \in Keys \union {NoKey} :
        /\ RequireIdempotencyKey => key # NoKey
        /\ \/ \E kind \in KindsOf[a] : SubmitRaw(a, key, kind)
           \/ \E raw \in Signed : signed[raw].key = key /\ ResubmitRaw(a, raw)

HandleTxSend(a) ==
    /\ DevSendEnabled
    /\ "native" \in KindsOf[a]
    /\ \E key \in Keys \union {NoKey} : checkIdempotency(a, key, "native")

HandleTxSendERC20(a) ==
    /\ DevSendEnabled
    /\ "erc20" \in KindsOf[a]
    /\ \E key \in Keys \union {NoKey} : checkIdempotency(a, key, "erc20")

HandleTxSpeedUp(a) == DevSendEnabled /\ \E h \in Signed : SpeedUp(a, h)

CallStep(a) == HandleTxSubmit(a) \/ HandleTxSend(a) \/ HandleTxSendERC20(a) \/ HandleTxSpeedUp(a)

TxSendNext ==
    \/ \E a \in Calls : CallStep(a) \/ AgentStep(a)
    \/ \E a \in Agents : CutOff(a)
    \/ ReconcilerStep \/ IgnoredError
    \/ \E h \in Signed : Tracked(h) \/ MineTx(h)

(* The reconciler's ticker ticks, and clients leave a row alone for        *)
(* reconcile_grace_sec once their calls end.  MySQL and the process may    *)
(* fail a turn again and again, but not every turn at the same place: one  *)
(* that is begun over and over gets past its broadcast, and past the       *)
(* statements after it, some time.  Nothing is assumed of the calls, the    *)
(* network, the clients or the tracker.                                    *)
TxSendFairness ==
    /\ WF_sendVars(ReconcilerStep)
    /\ SF_sendVars(SendSignedTransaction(Reconciler))
    /\ SF_sendVars(MarkBroadcastPending(Reconciler) \/ MarkBroadcastFailed(Reconciler))

TxSendSpec == TxSendInit /\ [][TxSendNext]_sendVars /\ TxSendFairness

-----------------------------------------------------------------------------
TxSendTypeOK ==
    /\ next \in -1..(2 * MaxCalls)
    /\ signed \in Seq([from : {Custodial, Client}, nonce : Nat, key : Keys \union {NoKey},
                       again : BOOLEAN, kind : Kinds, amount : {0, Asked}, value : {0, Asked}])
    /\ row \in [Hashes -> [status : Statuses, raw : 0..MaxCalls, retry : 0..BroadcastMaxRetries]]
    /\ agent \in [Agents ->
          [pc : {"idle", "allocate", "insert", "send", "accepted", "rejected", "sync", "done"},
           tx : 0..MaxCalls, target : 0..MaxCalls, key : Keys \union {NoKey},
           kind : Kinds, sync : BOOLEAN]]
    /\ node \in [Hashes -> {"unknown", "mempool"} \union InBlock]

Sent(h) == node[h] # "unknown"

(* Allocate never hands out a nonce twice, however calls interleave with   *)
(* SyncFromChain after failed broadcasts and with signing errors: only     *)
(* SpeedUp signs a nonce again.                                            *)
NonceUnique ==
    \A g, h \in Signed :
        g # h /\ signed[g].from = Custodial /\ ~signed[g].again /\ h \in Siblings(g) => signed[h].again

(* service.go:42, first the row, then the broadcast: whatever is cut off   *)
(* or retried, a transaction sent without an idempotency key and known to  *)
(* the network has a row of its own (persistAndBroadcast).                 *)
UnkeyedIsTracked == \A h \in Signed : Sent(h) /\ signed[h].key = NoKey => row[h] # NoTx

(* What a block takes moves the amount that was asked for, also when it    *)
(* was sent twice, resumed or sped up.  Not claimed of what SpeedUp signs  *)
(* for an ERC-20 row that the service signed itself: value_wei is 0 there, *)
(* and so is the amount (service.go:139).                                  *)
PaidInFull ==
    \A h \in Signed :
        node[h] \in InBlock =>
            \/ signed[h].amount = Asked
            \/ /\ signed[h].kind = "erc20" /\ signed[h].again
               /\ \E g \in Siblings(h) : row[g] # NoTx /\ (signed[g].from = Custodial \/ signed[g].again)

(* A row is not left in submitting or broadcast_failed by a call that was  *)
(* cut off, whatever the node answers and although turns of the reconciler *)
(* fail too: it brings the row further or spends its retries               *)
(* (reconcileOne).                                                         *)
BroadcastSettles ==
    \A h \in Hashes :
        row[h].status \in Broadcasting
            ~> row[h].status \notin Broadcasting \/ row[h].retry = BroadcastMaxRetries

-----------------------------------------------------------------------------
(* A call signs at most one transaction and takes at most one nonce, so    *)
(* that some nonce up to MaxCalls is always free.                          *)
Spent == {a \in Calls : agent[a].pc \notin {"idle", "allocate"}}
CallsSpent == Len(signed) <= Cardinality(Spent) /\ next <= MaxCalls + Cardinality(Spent)

(* A row is that of a signed transaction; what it holds to broadcast is    *)
(* that transaction or another one of its key.  What is not signed, the    *)
(* node does not know.                                                     *)
RowsHoldSigned ==
    \A h \in Hashes :
        /\ row[h] # NoTx =>
              /\ row[h].status # "none"
              /\ h \in Signed /\ row[h].raw \in Signed
              /\ \/ row[h].raw = h
                 \/ signed[h].key # NoKey /\ signed[row[h].raw].key = signed[h].key
        /\ Sent(h) => h \in Signed

(* A call broadcasts what was signed, and without a key only after its     *)
(* row is there; the reconciler broadcasts for a row that has a retry.     *)
AgentsHoldSigned ==
    /\ \A a \in Agents :
          /\ agent[a].pc \in {"insert", "send", "accepted", "rejected"} =>
                agent[a].tx \in Signed /\ agent[a].target \in Signed
          /\ agent[a].pc = "send" /\ signed[agent[a].tx].key = NoKey => row[agent[a].tx] # NoTx
    /\ LET r == agent[Reconciler]
       IN  /\ r.pc \in {"idle", "send", "accepted", "rejected"} /\ ~r.sync
           /\ r.pc # "idle" => row[r.target] # NoTx /\ row[r.target].retry < BroadcastMaxRetries

(* Allocate has handed out the custodial nonces below next.                *)
NoncesGiven == \A h \in Signed : signed[h].from = Custodial => signed[h].nonce < next

(* The money of what was signed, in a block or not: the amount that was    *)
(* asked for, and a row's value_wei to sign it again, except as said at    *)
(* PaidInFull.                                                             *)
ValuesKept ==
    \A h \in Signed :
        /\ \/ signed[h].value = Asked
           \/ signed[h].kind = "erc20" /\ (signed[h].from = Custodial \/ signed[h].again)
        /\ \/ signed[h].amount = Asked
           \/ /\ signed[h].kind = "erc20" /\ signed[h].again
              /\ \E g \in Siblings(h) : row[g] # NoTx /\ (signed[g].from = Custodial \/ signed[g].again)

TxSendInv ==
    /\ TxSendTypeOK
    /\ CallsSpent
    /\ RowsHoldSigned
    /\ AgentsHoldSigned
    /\ NoncesGiven
    /\ NonceUnique
    /\ ValuesKept
    /\ UnkeyedIsTracked
=============================================================================
