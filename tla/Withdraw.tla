------------------------------ MODULE Withdraw ------------------------------
(***************************************************************************)
(* Withdrawals (exchange/service.go, exchange/worker.go): requested and    *)
(* reviewed over HTTP, sent by withdrawBroadcastLoop, settled by the       *)
(* callbacks of the tx tracker, which runs trackOne both in its poll loop  *)
(* and in the HTTP handler behind RefreshOne.                              *)
(*                                                                         *)
(* One step is one committed statement or transaction; what a goroutine    *)
(* read before it and holds while others run is in broadcaster and         *)
(* handler.  Of tx.Service, tx.Tracker and tx.Reconciler the module keeps  *)
(* what the exchange can tell: whether a transaction exists, whether the   *)
(* node has it, and whether the tracker still polls it.                    *)
(***************************************************************************)
EXTENDS Ledger, FiniteSets

CONSTANTS
    Amounts,          \* amount_wei of a request
    Keys,             \* idempotency keys
    NoKey,            \* a request without one
    AutoApprove,      \* cfg.Exchange.AutoApproveWithdraw
    ReadUncommitted,  \* the MySQL server runs READ UNCOMMITTED (it defaults to REPEATABLE READ)
    Broadcasters,     \* goroutines in withdrawBroadcastLoop
    Handlers,         \* goroutines that may be in trackOne: the poll loop, RefreshOne calls
    MaxWithdraws,     \* bound: rows of withdraw_requests
    MaxFreezes        \* bound: freezes booked for one user

ASSUME WithdrawAssumption ==
    /\ Amounts \subseteq Nat \ {0}
    /\ NoKey \notin Keys
    /\ AutoApprove \in BOOLEAN
    /\ ReadUncommitted \in BOOLEAN
    /\ MaxWithdraws \in Nat
    /\ MaxFreezes \in Nat

VARIABLES
    withdraw,      \* table withdraw_requests in id order
    broadcaster,   \* the request each broadcaster has claimed, and how far it got
    handler,       \* the request each handler tracks, and how far it got
    chain,         \* the transaction of each request: signed, with the node, mined
    tracked        \* requests whose tx_tracker row has a status the tracker polls

withdrawVars == <<ledger, withdraw, broadcaster, handler, chain, tracked>>

Ids == 1..MaxWithdraws
Rows == DOMAIN withdraw

NotBroadcasting == [stage |-> "idle", id |-> 0]
NoCallback == [stage |-> "idle", id |-> 0]

WithdrawInit ==
    /\ LedgerInit
    /\ withdraw = <<>>
    /\ broadcaster = [b \in Broadcasters |-> NotBroadcasting]
    /\ handler = [h \in Handlers |-> NoCallback]
    /\ chain = [i \in Ids |-> "none"]
    /\ tracked = {}

-----------------------------------------------------------------------------
SetStatus(i, s) == withdraw' = [withdraw EXCEPT ![i].status = s]

(* withdraw_requests has a unique key on (chain_id, idempotency_key).      *)
SameKey(k) == {i \in Rows : k # NoKey /\ withdraw[i].key = k}

(* CreateWithdraw of a request whose key is not taken.  insertWithdrawTx   *)
(* reads the row it just inserted through s.db, that is on another         *)
(* connection: only a READ UNCOMMITTED server shows it; otherwise the read *)
(* fails with ErrNoRows and the transaction rolls back.                    *)
CreateWithdraw(u, a, k) ==
    LET i == Len(withdraw) + 1
    IN  /\ i <= MaxWithdraws
        /\ SameKey(k) = {}
        /\ ReadUncommitted
        /\ CanApply(ledger.account[u], freezeWithdraw(i, a))
        /\ withdraw' = Append(withdraw,
                [user |-> u, amount |-> a, key |-> k, hash |-> FALSE,
                 status |-> IF AutoApprove THEN "approved" ELSE "pending_review"])
        /\ ledger' = applyLedgerTx(ledger, u, freezeWithdraw(i, a))
        /\ UNCHANGED <<broadcaster, handler, chain, tracked>>

(* CreateWithdraw of a request whose key is taken: not created, so the     *)
(* freeze is skipped if the journal shows one -- for the parameters of     *)
(* this call, which need not be those of the row.                          *)
RepeatWithdraw(u, a, k) ==
    \E i \in SameKey(k) :
        /\ ~hasLedgerEntryTx(ledger, i, "withdraw_freeze")
        /\ CanApply(ledger.account[u], freezeWithdraw(i, a))
        /\ Cardinality(Entries(u, "withdraw_freeze", i)) < MaxFreezes
        /\ ledger' = applyLedgerTx(ledger, u, freezeWithdraw(i, a))
        /\ UNCHANGED <<withdraw, broadcaster, handler, chain, tracked>>

(* ApproveWithdraw: UPDATE ... WHERE status = 'pending_review'.            *)
ApproveWithdraw(i) ==
    /\ withdraw[i].status = "pending_review"
    /\ SetStatus(i, "approved")
    /\ UNCHANGED <<ledger, broadcaster, handler, chain, tracked>>

(* Mutant: anything that is not settled may be rejected.                   *)
RejectUnsettled(i) ==
    LET op == unfreezeWithdraw(i, withdraw[i].amount)
    IN  /\ withdraw[i].status \in {"pending_review", "approved", "broadcasting"}
        /\ CanApply(ledger.account[withdraw[i].user], op)
        /\ SetStatus(i, "rejected")
        /\ ledger' = applyLedgerTx(ledger, withdraw[i].user, op)
        /\ UNCHANGED <<broadcaster, handler, chain, tracked>>

(* Mutant: rejecting a rejected request unfreezes again, out of what is    *)
(* frozen for another one.                                                 *)
RejectTwice(i) ==
    LET op == unfreezeWithdraw(i, withdraw[i].amount)
    IN  /\ withdraw[i].status \in {"pending_review", "rejected"}
        /\ CanApply(ledger.account[withdraw[i].user], op)
        /\ SetStatus(i, "rejected")
        /\ ledger' = applyLedgerTx(ledger, withdraw[i].user, op)
        /\ UNCHANGED <<broadcaster, handler, chain, tracked>>

(* RejectWithdraw: the same compare-and-set, with the unfreeze in its      *)
(* transaction.                                                            *)
RejectWithdraw(i) ==
    LET op == unfreezeWithdraw(i, withdraw[i].amount)
    IN  /\ withdraw[i].status = "pending_review"
        /\ CanApply(ledger.account[withdraw[i].user], op)
        /\ SetStatus(i, "rejected")
        /\ ledger' = applyLedgerTx(ledger, withdraw[i].user, op)
        /\ UNCHANGED <<broadcaster, handler, chain, tracked>>

-----------------------------------------------------------------------------
(* Mutant: requests that are broadcasting are taken up again.              *)
ClaimAgain(b, i) ==
    /\ broadcaster[b] = NotBroadcasting
    /\ withdraw[i].status \in {"approved", "broadcasting"}
    /\ SetStatus(i, "broadcasting")
    /\ broadcaster' = [broadcaster EXCEPT ![b] = [stage |-> "claimed", id |-> i]]
    /\ UNCHANGED <<ledger, handler, chain, tracked>>

(* ProcessApprovedWithdraw, first statement: approved -> broadcasting.     *)
ClaimWithdraw(b, i) ==
    /\ broadcaster[b] = NotBroadcasting
    /\ withdraw[i].status = "approved"
    /\ SetStatus(i, "broadcasting")
    /\ broadcaster' = [broadcaster EXCEPT ![b] = [stage |-> "claimed", id |-> i]]
    /\ UNCHANGED <<ledger, handler, chain, tracked>>

Advance(b, stage) == broadcaster' = [broadcaster EXCEPT ![b].stage = stage]

(* No wallet, no key, no nonce, or another error of SendNative / SendERC20 *)
(* before it has stored the transaction.                                   *)
PrepareError(b) ==
    /\ broadcaster[b].stage = "claimed"
    /\ Advance(b, "failing")
    /\ UNCHANGED <<ledger, withdraw, handler, chain, tracked>>

(* SendNative / SendERC20 up to InsertSubmitting.                          *)
PersistTx(b) ==
    /\ broadcaster[b].stage = "claimed"
    /\ Advance(b, "persisted")
    /\ chain' = [chain EXCEPT ![broadcaster[b].id] = "signed"]
    /\ tracked' = tracked \union {broadcaster[b].id}
    /\ UNCHANGED <<ledger, withdraw, handler>>

(* The node has the transaction, from here or from tx.Reconciler.          *)
Submitted(i) == [chain EXCEPT ![i] = IF @ = "signed" THEN "pending" ELSE @]

(* SendSignedTransaction returned nil (already known is nil too).          *)
SendTx(b) ==
    /\ broadcaster[b].stage = "persisted"
    /\ Advance(b, "sent")
    /\ chain' = Submitted(broadcaster[b].id)
    /\ UNCHANGED <<ledger, withdraw, handler, tracked>>

(* It returned an error, or MarkBroadcastPending after it did: the node    *)
(* may have the transaction all the same.                                  *)
SendError(b) ==
    /\ broadcaster[b].stage = "persisted"
    /\ Advance(b, "failing")
    /\ chain' \in {chain, Submitted(broadcaster[b].id)}
    /\ UNCHANGED <<ledger, withdraw, handler, tracked>>

(* FailWithdrawAndUnfreezeTx and its commit.                               *)
FailWithdrawAndUnfreezeTx(i) ==
    LET op == unfreezeWithdraw(i, withdraw[i].amount)
        unfreeze == /\ ~hasLedgerEntryTx(ledger, i, "withdraw_unfreeze")
                    /\ hasLedgerEntryTx(ledger, i, "withdraw_freeze")
    IN  /\ unfreeze => CanApply(ledger.account[withdraw[i].user], op)
        /\ ledger' = IF unfreeze THEN applyLedgerTx(ledger, withdraw[i].user, op) ELSE ledger
        /\ SetStatus(i, "failed")

(* failBroadcast.                                                          *)
FailBroadcast(b) ==
    /\ broadcaster[b].stage = "failing"
    /\ FailWithdrawAndUnfreezeTx(broadcaster[b].id)
    /\ broadcaster' = [broadcaster EXCEPT ![b] = NotBroadcasting]
    /\ UNCHANGED <<handler, chain, tracked>>

(* The last statement of ProcessApprovedWithdraw: an unconditional UPDATE  *)
(* of status, from_wallet and tx_hash.                                     *)
RecordTxHash(b) ==
    /\ broadcaster[b].stage = "sent"
    /\ withdraw' = [withdraw EXCEPT ![broadcaster[b].id].status = "broadcasting",
                                    ![broadcaster[b].id].hash = TRUE]
    /\ broadcaster' = [broadcaster EXCEPT ![b] = NotBroadcasting]
    /\ UNCHANGED <<ledger, handler, chain, tracked>>

(* The process stops, or a statement fails (the GetWithdraw after the      *)
(* claim, the commit of failBroadcast, the UPDATE of tx_hash): the loop    *)
(* only logs the error, and nothing takes the request up again.            *)
AbandonBroadcast(b) ==
    /\ broadcaster[b] # NotBroadcasting
    /\ broadcaster' = [broadcaster EXCEPT ![b] = NotBroadcasting]
    /\ UNCHANGED <<ledger, withdraw, handler, chain, tracked>>

-----------------------------------------------------------------------------
(* reconcileOne sends what is stored and the node does not know.           *)
Rebroadcast(i) ==
    /\ chain[i] = "signed"
    /\ chain' = Submitted(i)
    /\ UNCHANGED <<ledger, withdraw, broadcaster, handler, tracked>>

(* The node mines a transaction, which succeeds or reverts.  (external)    *)
MineTx(i) ==
    /\ chain[i] = "pending"
    /\ \E s \in {"mined", "reverted"} : chain' = [chain EXCEPT ![i] = s]
    /\ UNCHANGED <<ledger, withdraw, broadcaster, handler, tracked>>

(* A goroutine enters trackOne with a row it read, from ListTrackable or   *)
(* GetByHash, while its status was one to poll.                            *)
BeginTrack(h, i) ==
    /\ handler[h] = NoCallback
    /\ i \in tracked
    /\ chain[i] # "signed"
    /\ handler' = [handler EXCEPT ![h] = [stage |-> "tracking", id |-> i]]
    /\ UNCHANGED <<ledger, withdraw, broadcaster, chain, tracked>>

(* Mutant: the status in the receipt is not looked at.                     *)
TrackAnyReceipt(h) ==
    /\ handler[h].stage = "tracking"
    /\ handler' = [handler EXCEPT ![h].stage =
                     IF chain[handler[h].id] \in {"mined", "reverted"} THEN "confirmed" ELSE "failed"]
    /\ tracked' = tracked \ {handler[h].id}
    /\ UNCHANGED <<ledger, withdraw, broadcaster, chain>>

(* trackOne up to TransitionStatus: a receipt with success, a receipt with *)
(* failure, or none and the row older than MaxPendingHours.  The row read  *)
(* may be old: the transition is not conditional on the status it has now. *)
TrackOne(h) ==
    /\ handler[h].stage = "tracking"
    /\ handler' = [handler EXCEPT ![h].stage =
                     IF chain[handler[h].id] = "mined" THEN "confirmed" ELSE "failed"]
    /\ tracked' = tracked \ {handler[h].id}
    /\ UNCHANGED <<ledger, withdraw, broadcaster, chain>>

(* trackOne with a receipt and too few confirmations by the head it read:  *)
(* TransitionStatus writes pending over whatever status the row has now.   *)
TrackPending(h) ==
    /\ handler[h].stage = "tracking"
    /\ chain[handler[h].id] = "mined"
    /\ handler' = [handler EXCEPT ![h] = NoCallback]
    /\ tracked' = tracked \union {handler[h].id}
    /\ UNCHANGED <<ledger, withdraw, broadcaster, chain>>

(* OnWithdrawTxConfirmed and OnWithdrawTxFailed up to their test of the    *)
(* status they read; a request without tx_hash is not found.               *)
BeginConfirmed(h) ==
    LET i == handler[h].id
    IN  /\ handler[h].stage = "confirmed"
        /\ withdraw[i].hash
        /\ withdraw[i].status \in {"broadcasting", "approved"}
        /\ handler' = [handler EXCEPT ![h].stage = "debit"]
        /\ UNCHANGED <<ledger, withdraw, broadcaster, chain, tracked>>

(* Mutant: the request is found without its tx_hash.                       *)
BeginFailedUnrecorded(h) ==
    /\ handler[h].stage = "failed"
    /\ withdraw[handler[h].id].status \notin {"failed", "confirmed"}
    /\ handler' = [handler EXCEPT ![h].stage = "unfreeze"]
    /\ UNCHANGED <<ledger, withdraw, broadcaster, chain, tracked>>

BeginFailed(h) ==
    LET i == handler[h].id
    IN  /\ handler[h].stage = "failed"
        /\ withdraw[i].hash
        /\ withdraw[i].status \notin {"failed", "confirmed"}
        /\ handler' = [handler EXCEPT ![h].stage = "unfreeze"]
        /\ UNCHANGED <<ledger, withdraw, broadcaster, chain, tracked>>

(* The transaction of OnWithdrawTxConfirmed: debit, and an UPDATE that     *)
(* does not look at the status.                                            *)
CommitConfirmed(h) ==
    LET i   == handler[h].id
        op  == debitWithdraw(i, withdraw[i].amount)
        hasDebit == hasLedgerEntryTx(ledger, i, "withdraw_debit")
    IN  /\ handler[h].stage = "debit"
        /\ hasDebit \/ CanApply(ledger.account[withdraw[i].user], op)
        /\ ledger' = IF hasDebit THEN ledger ELSE applyLedgerTx(ledger, withdraw[i].user, op)
        /\ SetStatus(i, "confirmed")
        /\ handler' = [handler EXCEPT ![h] = NoCallback]
        /\ UNCHANGED <<broadcaster, chain, tracked>>

CommitFailed(h) ==
    /\ handler[h].stage = "unfreeze"
    /\ FailWithdrawAndUnfreezeTx(handler[h].id)
    /\ handler' = [handler EXCEPT ![h] = NoCallback]
    /\ UNCHANGED <<broadcaster, chain, tracked>>

(* Nothing to do yet, the callback's early return, an error that trackOne  *)
(* ignores (ErrInsufficientBalance, a lost connection), a stopped process. *)
EndTrack(h) ==
    /\ handler[h] # NoCallback
    /\ handler' = [handler EXCEPT ![h] = NoCallback]
    /\ UNCHANGED <<ledger, withdraw, broadcaster, chain, tracked>>

(* The handlers: any user, amount and key, and any request at any time.    *)
HandleWithdrawCreate ==
    \E u \in Users, a \in Amounts, k \in Keys \union {NoKey} :
        CreateWithdraw(u, a, k) \/ RepeatWithdraw(u, a, k)

HandleWithdrawReview == \E i \in Rows : ApproveWithdraw(i) \/ RejectWithdraw(i)

WithdrawNext ==
    \/ HandleWithdrawCreate
    \/ HandleWithdrawReview
    \/ \E i \in Rows : Rebroadcast(i) \/ MineTx(i)
    \/ \E b \in Broadcasters :
          \/ \E i \in Rows : ClaimWithdraw(b, i)
          \/ PrepareError(b) \/ PersistTx(b) \/ SendTx(b) \/ SendError(b)
          \/ FailBroadcast(b) \/ RecordTxHash(b) \/ AbandonBroadcast(b)
    \/ \E h \in Handlers :
          \/ \E i \in Rows : BeginTrack(h, i)
          \/ TrackOne(h) \/ TrackPending(h) \/ BeginConfirmed(h) \/ BeginFailed(h)
          \/ CommitConfirmed(h) \/ CommitFailed(h) \/ EndTrack(h)

WithdrawSpec == WithdrawInit /\ [][WithdrawNext]_withdrawVars

-----------------------------------------------------------------------------
Statuses == {"pending_review", "approved", "broadcasting", "confirmed", "failed", "rejected"}

Withdrawal == [user : Users, amount : Amounts, key : Keys \union {NoKey}, hash : BOOLEAN,
               status : Statuses]

WithdrawTypeOK ==
    /\ LedgerTypeOK
    /\ withdraw \in Seq(Withdrawal)
    /\ Len(withdraw) <= MaxWithdraws
    /\ broadcaster \in [Broadcasters ->
          [stage : {"idle", "claimed", "persisted", "sent", "failing"}, id : Rows \union {0}]]
    /\ handler \in [Handlers ->
          [stage : {"idle", "tracking", "confirmed", "failed", "debit", "unfreeze"},
           id : Rows \union {0}]]
    /\ chain \in [Ids -> {"none", "signed", "pending", "mined", "reverted"}]
    /\ tracked \subseteq Rows

(* service.go:184, the claim "keeps several workers from broadcasting the  *)
(* same request": no two broadcasters hold one request, and one they hold  *)
(* is in status broadcasting, so no reviewer and no claim can take it      *)
(* while its transaction is being sent.                                    *)
ClaimExclusive ==
    \A b \in Broadcasters : broadcaster[b] # NotBroadcasting =>
        /\ withdraw[broadcaster[b].id].status = "broadcasting"
        /\ \A c \in Broadcasters : broadcaster[c].id = broadcaster[b].id => c = b

(* Money that may leave the hot wallet is not handed back to the user: no  *)
(* request that has a transaction, whoever sent it and however it ended,   *)
(* was unfrozen, and a rejected one never gets a transaction               *)
(* (RejectWithdraw against ApproveWithdraw and the broadcast loop).        *)
PaidNeverReleased ==
    \A i \in Rows : chain[i] # "none" =>
        /\ ~HasEntry("withdraw_unfreeze", i)
        /\ withdraw[i].status # "rejected"

(* The ledger gives up frozen money only for a payment that is on the      *)
(* chain: a debit, and the status confirmed, mean that the transaction was *)
(* mined with success, and confirmed means that the debit is booked        *)
(* (trackOne, OnWithdrawTxConfirmed).                                      *)
DebitFollowsPayment ==
    \A i \in Rows :
        /\ HasEntry("withdraw_debit", i) => chain[i] = "mined"
        /\ withdraw[i].status = "confirmed" => HasEntry("withdraw_debit", i)

Settled == {"confirmed", "failed", "rejected"}

(* A request that was settled stays settled, and a rejected one rejected:  *)
(* in particular the unconditional UPDATE that ProcessApprovedWithdraw     *)
(* ends with never reopens a request the tracker has settled meanwhile.    *)
SettledStaysSettled ==
    [][\A i \in Rows :
          /\ withdraw[i].status \in Settled => withdraw'[i].status \in Settled
          /\ withdraw[i].status = "rejected" => withdraw'[i].status = "rejected"]_withdrawVars

(* Where the journal says the money of request i is.                       *)
payoutOf(i) ==
    IF ~HasEntry("withdraw_freeze", i) THEN "none"
    ELSE IF HasEntry("withdraw_debit", i) THEN "spent"
    ELSE IF HasEntry("withdraw_unfreeze", i) THEN "released" ELSE "held"

payouts == [i \in Ids |-> payoutOf(i)]

Abstract == INSTANCE Payout WITH Requests <- Ids, payout <- payouts

(* CreateWithdraw, RejectWithdraw, FailWithdrawAndUnfreezeTx and           *)
(* OnWithdrawTxConfirmed together implement a payout: the money of a       *)
(* request is frozen first, then released or debited, and neither is ever  *)
(* followed by the other, whichever goroutines get there.                  *)
ImplementsPayout == Abstract!PayoutSpec

-----------------------------------------------------------------------------
(* The inductive invariant behind these properties.                        *)
BroadcastersHold ==
    \A b \in Broadcasters : broadcaster[b] # NotBroadcasting =>
        LET i == broadcaster[b].id
        IN  /\ i \in Rows
            /\ withdraw[i].status = "broadcasting"
            /\ ~withdraw[i].hash
            /\ broadcaster[b].stage = "claimed" => chain[i] = "none"
            /\ \A c \in Broadcasters : broadcaster[c].id = i => c = b

HandlersHold ==
    \A h \in Handlers : handler[h] # NoCallback =>
        LET i == handler[h].id
        IN  /\ i \in Rows
            /\ chain[i] # "none"
            /\ handler[h].stage \in {"confirmed", "debit"} => chain[i] = "mined"
            /\ handler[h].stage \in {"debit", "unfreeze"} => withdraw[i].hash

OnlyApprovedIsSent ==
    /\ \A i \in Ids : chain[i] # "none" => i \in Rows
    /\ \A i \in tracked : chain[i] # "none"
    /\ \A i \in Rows : (chain[i] # "none" \/ withdraw[i].hash) =>
          withdraw[i].status \in {"broadcasting", "confirmed", "failed"}

JustifiedEntry(op) ==
    /\ op.type \in {"withdraw_freeze", "withdraw_unfreeze", "withdraw_debit"} => op.refType = "withdraw"
    /\ op.type = "withdraw_freeze" => op.refID \in Rows
    /\ op.type = "withdraw_unfreeze" => op.refID \in Rows /\ withdraw[op.refID].status = "rejected"
    /\ op.type = "withdraw_debit" => op.refID \in Rows /\ chain[op.refID] = "mined"

EntriesJustified ==
    \A u \in Users : \A n \in DOMAIN ledger.journal[u] : JustifiedEntry(ledger.journal[u][n].op)

ConfirmedIsDebited ==
    \A i \in Rows : withdraw[i].status = "confirmed" => HasEntry("withdraw_debit", i)

WithdrawInv ==
    /\ WithdrawTypeOK
    /\ BroadcastersHold
    /\ HandlersHold
    /\ OnlyApprovedIsSent
    /\ EntriesJustified
    /\ ConfirmedIsDebited

-----------------------------------------------------------------------------
(* store.go:409, "broadcast failed: unfreeze and mark failed": a failed    *)
(* request has its money back.                                             *)
FailedIsUnfrozen ==
    \A i \in Rows : withdraw[i].status = "failed" => HasEntry("withdraw_unfreeze", i)
=============================================================================
