--------------------------- MODULE ExchangeProofs ---------------------------
(***************************************************************************)
(* The three components on one ledger and one outbox, for any constants    *)
(* (finitely many users).  ExchangeInv is the inductive invariant.  Each   *)
(* component's part of it is kept by the other components' steps because   *)
(* these write entries of other types (Extends); for the balances, what a  *)
(* step changes of the accounts is weighed against what it changes of the  *)
(* journals, the requests and the payments (Balanced).                     *)
(***************************************************************************)
EXTENDS LedgerProofs

-----------------------------------------------------------------------------
(* WHAT A COMPONENT MAY DO TO THE LEDGER                                   *)

(* m has the entries of l and possibly new ones, of the types given.       *)
Extends(l, m, types) ==
    /\ m \in LedgerType
    /\ \A v \in Users : \A n \in DOMAIN l.journal[v] :
          n \in DOMAIN m.journal[v] /\ m.journal[v][n] = l.journal[v][n]
    /\ \A v \in Users : \A n \in DOMAIN m.journal[v] :
          \/ m.journal[v][n].op.type \in types
          \/ n \in DOMAIN l.journal[v] /\ m.journal[v][n] = l.journal[v][n]

(* A write does that with an entry of its own type, ...                    *)
LEMMA WroteExtends ==
    ASSUME NEW l \in LedgerType, NEW u \in Users, NEW row, NEW op, NEW m, Wrote(l, u, row, op, m)
    PROVE  Extends(l, m, {op.type})
  <1>1. PICK e \in Entry : e.op = op /\ m.journal[u] = Append(l.journal[u], e)
    BY DEF Wrote
  <1>2. PICK j \in Seq(Entry) : j = l.journal[u]
    BY DEF LedgerType
  <1>3. /\ \A n \in DOMAIN j : n \in DOMAIN Append(j, e) /\ Append(j, e)[n] = j[n]
        /\ \A n \in DOMAIN Append(j, e) : (n \in DOMAIN j /\ Append(j, e)[n] = j[n]) \/ Append(j, e)[n] = e
    OBVIOUS
  <1>4. ASSUME NEW v \in Users
        PROVE  /\ \A n \in DOMAIN l.journal[v] :
                     n \in DOMAIN m.journal[v] /\ m.journal[v][n] = l.journal[v][n]
               /\ \A n \in DOMAIN m.journal[v] :
                     \/ m.journal[v][n].op.type \in {op.type}
                     \/ n \in DOMAIN l.journal[v] /\ m.journal[v][n] = l.journal[v][n]
    <2>1. CASE v = u
      BY <1>1, <1>2, <1>3, <2>1
    <2>2. CASE v # u
      BY <2>2 DEF Wrote
    <2> QED  BY <2>1, <2>2
  <1> QED  BY <1>4 DEF Extends, Wrote

(* ... and so do two writes with entries of their types.                   *)
LEMMA ExtendsMore ==
    ASSUME NEW l, NEW m, NEW n, NEW S, NEW T, NEW R, Extends(l, m, S), Extends(m, n, T), S \subseteq R, T \subseteq R
    PROVE  Extends(l, n, R)
  BY SMTT(30) DEF Extends

(* The entries of all other types are what they were.                      *)
LEMMA ExtendsEntries ==
    ASSUME NEW l, NEW m, NEW types, Extends(l, m, types), NEW type, type \notin types
    PROVE  \A v \in Users : \A id : EntriesIn(m, v, type, id) = EntriesIn(l, v, type, id)
  BY DEF Extends, EntriesIn

(* What withdrawals and payments write keeps the deposits as they are.     *)
LEMMA OtherWrite ==
    ASSUME NEW l, LedgerGood(l), NEW u \in Users, NEW op \in LedgerOp, NEW m, Wrote(l, u, l.account[u], op, m),
           op.type \notin {"deposit_credit", "deposit_reverse"}
    PROVE  LedgerGood(m) /\ \A d \in Deposits : SameEntriesOf(l, m, d)
  <1>1. l \in LedgerType /\ Findable(l) /\ AllCovered(l) /\ \A d \in Deposits : Stage(l, d)
    BY DEF LedgerGood
  <1>2. Extends(l, m, {op.type})
    BY <1>1, WroteExtends
  <1>3. \A d \in Deposits : SameEntriesOf(l, m, d)
    <2>1. \A v \in Users : \A id : /\ EntriesIn(m, v, "deposit_credit", id) = EntriesIn(l, v, "deposit_credit", id)
                                   /\ EntriesIn(m, v, "deposit_reverse", id) = EntriesIn(l, v, "deposit_reverse", id)
      BY <1>2, ExtendsEntries
    <2> QED  BY <2>1 DEF SameEntriesOf
  <1>4. m \in LedgerType
    BY DEF Wrote
  <1>5. Findable(m)
    BY <1>1, WroteFindable
  <1>6. ReadRow(l, u, l.account[u])
    BY DEF ReadRow
  <1>7. AllCovered(m)
    BY <1>1, <1>6, WroteCovered
  <1>8. \A d \in Deposits : Stage(m, d)
    BY <1>1, <1>3, SameStage
  <1> QED  BY <1>3, <1>4, <1>5, <1>7, <1>8 DEF LedgerGood

(* A booking of another component keeps State.                             *)
LEMMA StateKept ==
    ASSUME State, UNCHANGED <<deposit, binding, worker>>, LedgerGood(ledger'),
           \A d \in Deposits : SameEntriesOf(ledger, ledger', d),
           \A d \in Deposits : Agree(ledger, deposit, outbox', binding, d)
    PROVE  State'
  <1>1. DepositState(ledger, deposit, outbox, binding, worker)
    BY DEF State
  <1>2. \A d \in Deposits : Unbooked(ledger', d) <=> Unbooked(ledger, d)
    BY SameStage
  <1>3. \A d \in Deposits : Agree(ledger', deposit, outbox', binding, d)
    BY <1>1, <1>2, Zenon DEF DepositState, Agree
  <1>4. DepositState(ledger', deposit, outbox', binding, worker)
    BY <1>1, <1>3 DEF DepositState
  <1> QED  BY <1>4 DEF State

(* The types of entries that are none of the withdrawals'.                 *)
OtherTypes == EntryTypes \ {"withdraw_freeze", "withdraw_unfreeze", "withdraw_debit"}

(* Entries of those keep WithdrawInv.                                      *)
LEMMA WithdrawKept ==
    ASSUME WithdrawInv, UNCHANGED <<withdraw, broadcaster, handler, chain, tracked>>,
           Extends(ledger, ledger', OtherTypes)
    PROVE  WithdrawInv'
  <1>1. LedgerTypeOK'
    BY DEF Extends, LedgerTypeOK, LedgerType
  <1>2. WithdrawTypeOK'
    BY <1>1, Zenon DEF WithdrawInv, WithdrawTypeOK, Rows
  <1>3. BroadcastersHold' /\ HandlersHold' /\ OnlyApprovedIsSent'
    BY DEF WithdrawInv, BroadcastersHold, HandlersHold, OnlyApprovedIsSent, Rows
  <1>4. EntriesJustified'
    <2>1. \A op : op.type \in OtherTypes => JustifiedEntry(op)'
      BY DEF OtherTypes, JustifiedEntry
    <2>2. \A op : JustifiedEntry(op) => JustifiedEntry(op)'
      BY DEF JustifiedEntry, Rows
    <2> QED  BY <2>1, <2>2, Zenon DEF WithdrawInv, EntriesJustified, Extends
  <1>5. ConfirmedIsDebited'
    <2>1. \A i : HasEntry("withdraw_debit", i) => HasEntry("withdraw_debit", i)'
      BY DEF HasEntry, Extends
    <2> QED  BY <2>1 DEF WithdrawInv, ConfirmedIsDebited, Rows
  <1> QED  BY <1>2, <1>3, <1>4, <1>5 DEF WithdrawInv

-----------------------------------------------------------------------------
(* What a step of the withdrawals does to ledger, requests and chain.      *)

(* The requests keep their user and amount.                                *)
RequestsKept(w, x) ==
    /\ x \in Seq(Withdrawal) /\ DOMAIN x = DOMAIN w
    /\ \A i \in DOMAIN w : x[i].user = w[i].user /\ x[i].amount = w[i].amount

(* The UPDATEs of withdraw_requests do not write these columns.            *)
LEMMA UpdateKeeps ==
    ASSUME NEW w \in Seq(Withdrawal), NEW i \in DOMAIN w, NEW s \in Statuses
    PROVE  /\ RequestsKept(w, w)
           /\ RequestsKept(w, [w EXCEPT ![i].status = s])
           /\ RequestsKept(w, [w EXCEPT ![i].status = s, ![i].hash = TRUE])
  <1> DEFINE r == [w[i] EXCEPT !.status = s]
             q == [w[i] EXCEPT !.status = s, !.hash = TRUE]
  <1>1. w[i] \in Withdrawal
    OBVIOUS
  <1>2. /\ r \in Withdrawal /\ r.user = w[i].user /\ r.amount = w[i].amount
        /\ q \in Withdrawal /\ q.user = w[i].user /\ q.amount = w[i].amount
    BY <1>1 DEF Withdrawal
  <1>3. [w EXCEPT ![i].status = s] = [w EXCEPT ![i] = r] /\ [w EXCEPT ![i].status = s, ![i].hash = TRUE] = [w EXCEPT ![i] = q]
    OBVIOUS
  <1> HIDE DEF r, q
  <1>4. RequestsKept(w, [w EXCEPT ![i] = r]) /\ RequestsKept(w, [w EXCEPT ![i] = q])
    BY <1>2 DEF RequestsKept
  <1> QED  BY <1>3, <1>4, Zenon DEF RequestsKept

(* A request without a transaction that is settled stays that.             *)
Closed(i) == withdraw[i].status \in Settled /\ chain[i] = "none"
ClosedStays == \A i \in Rows : Closed(i) => withdraw'[i].status \in Settled /\ chain'[i] = "none"

(* No transaction is stored for a settled request.                         *)
LEMMA StepStaysClosed ==
    ASSUME WithdrawInv, [WithdrawNext]_withdrawVars
    PROVE  ClosedStays
  <1>1. StaysSettled
    BY StepStaysSettled
  <1>2. chain \in [Ids -> {"none", "signed", "pending", "mined", "reverted"}] /\ Rows \subseteq Ids
    BY Facts
  <1>3. ASSUME NEW b \in Broadcasters, broadcaster[b] # NotBroadcasting
        PROVE  broadcaster[b].id \in Ids /\ withdraw[broadcaster[b].id].status = "broadcasting"
    BY <1>2, <1>3 DEF WithdrawInv, BroadcastersHold
  <1>4. ASSUME NEW i \in Ids, chain' = Submitted(i)
        PROVE  \A j \in Ids : chain[j] = "none" => chain'[j] = "none"
    BY <1>2, <1>4 DEF Submitted
  <1>5. ASSUME NEW b \in Broadcasters, PersistTx(b) \/ SendTx(b) \/ SendError(b)
        PROVE  \A j \in Rows : Closed(j) => chain'[j] = "none"
    <2>1. broadcaster[b].id \in Ids /\ withdraw[broadcaster[b].id].status = "broadcasting"
      BY <1>3, <1>5 DEF PersistTx, SendTx, SendError, NotBroadcasting
    <2>2. CASE PersistTx(b)
      BY <1>2, <2>1, <2>2 DEF PersistTx, Closed, Settled
    <2>3. CASE chain' = Submitted(broadcaster[b].id) \/ chain' = chain
      BY <1>2, <1>4, <2>1, <2>3 DEF Closed
    <2> QED  BY <1>5, <2>2, <2>3 DEF SendTx, SendError
  <1>6. ASSUME NEW i \in Rows, Rebroadcast(i) \/ MineTx(i)
        PROVE  \A j \in Rows : Closed(j) => chain'[j] = "none"
    BY <1>2, <1>4, <1>6 DEF Rebroadcast, MineTx, Closed
  <1>7. ASSUME NEW u \in Users, NEW a \in Amounts, NEW k \in Keys \union {NoKey},
               CreateWithdraw(u, a, k) \/ RepeatWithdraw(u, a, k)
        PROVE  chain' = chain
    BY <1>7 DEF CreateWithdraw, RepeatWithdraw
  <1>8. ASSUME NEW i \in Rows, NEW b,
               \/ ApproveWithdraw(i) \/ RejectWithdraw(i) \/ ClaimWithdraw(b, i)
               \/ PrepareError(b) \/ FailBroadcast(b) \/ RecordTxHash(b) \/ AbandonBroadcast(b)
        PROVE  chain' = chain
    BY <1>8 DEF ApproveWithdraw, RejectWithdraw, ClaimWithdraw, PrepareError, FailBroadcast,
                RecordTxHash, AbandonBroadcast
  <1>9. ASSUME NEW b, PrepareError(b) \/ FailBroadcast(b) \/ RecordTxHash(b) \/ AbandonBroadcast(b)
        PROVE  chain' = chain
    BY <1>9 DEF PrepareError, FailBroadcast, RecordTxHash, AbandonBroadcast
  <1>10. ASSUME NEW h, \/ \E i \in Rows : BeginTrack(h, i)
                       \/ TrackOne(h) \/ TrackPending(h) \/ BeginConfirmed(h) \/ BeginFailed(h)
                       \/ CommitConfirmed(h) \/ CommitFailed(h) \/ EndTrack(h)
         PROVE  chain' = chain
    BY <1>10 DEF BeginTrack, TrackOne, TrackPending, BeginConfirmed, BeginFailed, CommitConfirmed,
                 CommitFailed, EndTrack
  <1>11. CASE UNCHANGED withdrawVars
    BY <1>1, <1>11 DEF withdrawVars, StaysSettled, ClosedStays, Closed
  <1>12. ASSUME WithdrawNext PROVE \A j \in Rows : Closed(j) => chain'[j] = "none"
    BY <1>5, <1>6, <1>7, <1>8, <1>9, <1>10, <1>12 DEF WithdrawNext, HandleWithdrawCreate, HandleWithdrawReview, Closed
  <1> QED  BY <1>1, <1>11, <1>12 DEF StaysSettled, ClosedStays, Closed

(* The five kinds of steps: nothing booked, a new request with its freeze, *)
(* a freeze more, an unfreeze that rejects, a debit.                       *)
Quiet == ledger' = ledger /\ RequestsKept(withdraw, withdraw')
Creates(u, i, a) ==
    /\ Books(u, freezeWithdraw(i, a)) /\ i = Len(withdraw) + 1 /\ chain' = chain
    /\ \E r \in Withdrawal : r.user = u /\ r.amount = a /\ withdraw' = Append(withdraw, r)
Repeats(u, i, a) == Books(u, freezeWithdraw(i, a)) /\ withdraw' = withdraw /\ chain' = chain
Rejects(i) ==
    /\ Books(withdraw[i].user, unfreezeWithdraw(i, withdraw[i].amount)) /\ RequestsKept(withdraw, withdraw')
    /\ i \in Rows /\ withdraw[i].status \notin Settled /\ withdraw'[i].status \in Settled /\ chain'[i] = "none"
Debits(i) ==
    /\ Books(withdraw[i].user, debitWithdraw(i, withdraw[i].amount)) /\ RequestsKept(withdraw, withdraw')
    /\ i \in Rows

WithdrawEffect ==
    \/ Quiet
    \/ \E u \in Users, i \in Ids, a \in Nat : Creates(u, i, a) \/ Repeats(u, i, a)
    \/ \E i \in Rows : Rejects(i) \/ Debits(i)

(* Every step is of one of them.                                           *)
LEMMA EveryStepHasEffect ==
    ASSUME WithdrawInv, [WithdrawNext]_withdrawVars
    PROVE  WithdrawEffect
  <1>1. ASSUME NEW i \in Ids, NEW a \in Nat
        PROVE  /\ freezeWithdraw(i, a) \in LedgerOp
               /\ unfreezeWithdraw(i, a) \in LedgerOp
               /\ debitWithdraw(i, a) \in LedgerOp
    BY DEF freezeWithdraw, unfreezeWithdraw, debitWithdraw, LedgerOp, EntryTypes, RefTypes, Ids
  <1>2. withdraw \in Seq(Withdrawal) /\ Rows = DOMAIN withdraw /\ RequestsKept(withdraw, withdraw)
    BY Facts DEF RequestsKept, Rows
  <1>3. ASSUME NEW i \in Rows, NEW s \in Statuses, SetStatus(i, s)
        PROVE  RequestsKept(withdraw, withdraw') /\ withdraw'[i].status = s
    <2>1. RequestsKept(withdraw, [withdraw EXCEPT ![i].status = s])
      BY <1>2, UpdateKeeps
    <2>2. StatusSet(withdraw, i, s, [withdraw EXCEPT ![i].status = s])
      BY <1>2, StatusUpdate
    <2> QED  BY <1>3, <2>1, <2>2, Zenon DEF SetStatus, StatusSet
  <1>4. ASSUME NEW u \in Users, NEW a \in Amounts, NEW k \in Keys \union {NoKey}, CreateWithdraw(u, a, k)
        PROVE  WithdrawEffect
    <2>1. PICK i \in Ids : i = Len(withdraw) + 1
      BY <1>4, Facts DEF CreateWithdraw, Ids
    <2>2. a \in Nat
      BY WithdrawAssumption
    <2>3. Books(u, freezeWithdraw(i, a)) /\ chain' = chain
      BY <1>1, <1>4, <2>1, <2>2 DEF CreateWithdraw, Books
    <2>4. PICK r : /\ r = [user |-> u, amount |-> a, key |-> k, hash |-> FALSE,
                           status |-> IF AutoApprove THEN "approved" ELSE "pending_review"]
                   /\ withdraw' = Append(withdraw, r)
      BY <1>4 DEF CreateWithdraw
    <2>5. r \in Withdrawal /\ r.user = u /\ r.amount = a
      BY <2>4 DEF Withdrawal, Statuses
    <2>6. Creates(u, i, a)
      BY <2>1, <2>3, <2>4, <2>5 DEF Creates
    <2> QED  BY <2>2, <2>6 DEF WithdrawEffect
  <1>5. ASSUME NEW u \in Users, NEW a \in Amounts, NEW k \in Keys \union {NoKey}, RepeatWithdraw(u, a, k)
        PROVE  WithdrawEffect
    <2>1. PICK i \in Rows : /\ CanApply(ledger.account[u], freezeWithdraw(i, a))
                            /\ ledger' = applyLedgerTx(ledger, u, freezeWithdraw(i, a))
      BY <1>5 DEF RepeatWithdraw, SameKey
    <2>2. i \in Ids /\ a \in Nat /\ withdraw' = withdraw /\ chain' = chain
      BY <1>5, Facts, WithdrawAssumption DEF RepeatWithdraw
    <2>3. Repeats(u, i, a)
      BY <1>1, <2>1, <2>2 DEF Books, Repeats
    <2> QED  BY <2>2, <2>3 DEF WithdrawEffect
  <1>6. ASSUME NEW i \in Rows, RejectWithdraw(i)
        PROVE  WithdrawEffect
    <2>1. withdraw[i].user \in Users /\ withdraw[i].amount \in Nat /\ i \in Ids
      BY Facts
    <2>2. Books(withdraw[i].user, unfreezeWithdraw(i, withdraw[i].amount))
      BY <1>1, <1>6, <2>1 DEF RejectWithdraw, Books
    <2>3. RequestsKept(withdraw, withdraw') /\ withdraw'[i].status \in Settled /\ withdraw[i].status \notin Settled
      BY <1>3, <1>6 DEF RejectWithdraw, Statuses, Settled
    <2>4. chain'[i] = "none"
      <3>1. chain[i] = "none"
        BY <1>6 DEF WithdrawInv, OnlyApprovedIsSent, RejectWithdraw
      <3> QED  BY <1>6, <3>1 DEF RejectWithdraw
    <2>5. Rejects(i)
      BY <2>2, <2>3, <2>4, Zenon DEF Rejects
    <2> QED  BY <2>5 DEF WithdrawEffect
  <1>7. ASSUME NEW i \in Rows, FailWithdrawAndUnfreezeTx(i)
        PROVE  WithdrawEffect
    <2>1. ledger' = ledger /\ SetStatus(i, "failed")
      BY <1>7, FailOnlyMarks DEF FailWithdrawAndUnfreezeTx
    <2> QED  BY <1>3, <2>1 DEF Statuses, Quiet, WithdrawEffect
  <1>8. ASSUME NEW b \in Broadcasters, FailBroadcast(b)
        PROVE  WithdrawEffect
    <2>1. broadcaster[b].id \in Rows
      BY <1>8 DEF FailBroadcast, NotBroadcasting, WithdrawInv, BroadcastersHold
    <2> QED BY <1>7, <1>8, <2>1 DEF FailBroadcast
  <1>9. ASSUME NEW b \in Broadcasters, RecordTxHash(b)
        PROVE  WithdrawEffect
    <2>1. PICK i \in Rows : i = broadcaster[b].id
      BY <1>9 DEF RecordTxHash, NotBroadcasting, WithdrawInv, BroadcastersHold
    <2>2. RequestsKept(withdraw, [withdraw EXCEPT ![i].status = "broadcasting", ![i].hash = TRUE])
      BY <1>2, UpdateKeeps DEF Statuses
    <2>3. RequestsKept(withdraw, withdraw') /\ ledger' = ledger
      BY <1>9, <2>1, <2>2, Zenon DEF RecordTxHash
    <2> QED BY <2>3 DEF Quiet, WithdrawEffect
  <1>10. ASSUME NEW h \in Handlers, CommitFailed(h)
         PROVE  WithdrawEffect
    <2>1. handler[h].id \in Rows
      BY <1>10 DEF CommitFailed, NoCallback, WithdrawInv, HandlersHold
    <2> QED BY <1>7, <1>10, <2>1 DEF CommitFailed
  <1>11. ASSUME NEW h \in Handlers, CommitConfirmed(h)
         PROVE  WithdrawEffect
    <2>1. PICK i \in Rows : i = handler[h].id
      BY <1>11 DEF CommitConfirmed, NoCallback, WithdrawInv, HandlersHold
    <2>2. withdraw[i].user \in Users /\ withdraw[i].amount \in Nat /\ i \in Ids
      BY Facts
    <2>3. Books(withdraw[i].user, debitWithdraw(i, withdraw[i].amount))
      BY <1>1, <1>11, <2>1, <2>2, WithdrawEntriesNotFound DEF CommitConfirmed, Books
    <2>4. RequestsKept(withdraw, withdraw')
      BY <1>3, <1>11, <2>1 DEF CommitConfirmed, Statuses
    <2> QED BY <2>3, <2>4 DEF Debits, WithdrawEffect
  <1>12. ASSUME ledger' = ledger, withdraw' = withdraw
         PROVE  WithdrawEffect
    BY <1>2, <1>12 DEF Quiet, WithdrawEffect
  <1>13. ASSUME NEW i \in Rows, ApproveWithdraw(i)
         PROVE  WithdrawEffect
    BY <1>3, <1>13 DEF ApproveWithdraw, Statuses, Quiet, WithdrawEffect
  <1>14. ASSUME NEW b \in Broadcasters, NEW i \in Rows, ClaimWithdraw(b, i)
         PROVE  WithdrawEffect
    BY <1>3, <1>14 DEF ClaimWithdraw, Statuses, Quiet, WithdrawEffect
  <1>15. ASSUME NEW i \in Rows, Rebroadcast(i) \/ MineTx(i)
         PROVE  WithdrawEffect
    BY <1>12, <1>15 DEF Rebroadcast, MineTx
  <1>16. ASSUME NEW b \in Broadcasters,
                PrepareError(b) \/ PersistTx(b) \/ SendTx(b) \/ SendError(b) \/ AbandonBroadcast(b)
         PROVE  WithdrawEffect
    BY <1>12, <1>16 DEF PrepareError, PersistTx, SendTx, SendError, AbandonBroadcast
  <1>17. ASSUME NEW h \in Handlers,
                \/ \E i \in Rows : BeginTrack(h, i)
                \/ TrackOne(h) \/ TrackPending(h) \/ BeginConfirmed(h) \/ BeginFailed(h)
                \/ EndTrack(h)
         PROVE  WithdrawEffect
    BY <1>12, <1>17 DEF BeginTrack, TrackOne, TrackPending, BeginConfirmed, BeginFailed, EndTrack
  <1>18. CASE UNCHANGED withdrawVars
    BY <1>12, <1>18 DEF withdrawVars
  <1> QED BY <1>4, <1>5, <1>6, <1>8, <1>9, <1>10, <1>11, <1>13, <1>14, <1>15, <1>16, <1>17, <1>18
          DEF WithdrawNext, HandleWithdrawCreate, HandleWithdrawReview

-----------------------------------------------------------------------------
(* What the deposits account for: the income of each user, and the amounts *)
(* of all that are credited and not taken back.                            *)
BookedOf(l) == {d \in Deposits : ~Unbooked(l, d)}
CreditsOf(l, u) == {d \in Deposits : EntriesIn(l, u, "deposit_credit", d) # {}}
ReversalsOf(l, u) == {d \in Deposits : EntriesIn(l, u, "deposit_reverse", d) # {}}
CreditedNow(l) == {d \in Deposits : IsCredited(l, d)}

AmountOf(S) == SumFunctionOnSet(depAmount, S)
DepositIncome(l, u) == AmountOf(CreditsOf(l, u)) - AmountOf(ReversalsOf(l, u))

(* The sums are integers, and grow by the amount of a deposit added.       *)
LEMMA AmountAdded ==
    ASSUME NEW S, IsFiniteSet(S), S \subseteq Deposits, NEW d \in Deposits, d \notin S
    PROVE  AmountOf(S) \in Int /\ depAmount[d] \in Int /\ AmountOf(S \union {d}) = AmountOf(S) + depAmount[d]
  <1>1. \A e \in Deposits : depAmount[e] \in Int
    BY DepositAssumption
  <1>2. AmountOf(S) \in Int
    BY <1>1, SumIsInt DEF AmountOf
  <1>3. AmountOf(S \union {d}) = AmountOf(S) + depAmount[d]
    BY <1>1, SumWithMore DEF AmountOf
  <1> QED  BY <1>1, <1>2, <1>3

(* The sets are finite if finitely many deposits are booked.               *)
LEMMA IncomeTypes ==
    ASSUME NEW l, IsFiniteSet(BookedOf(l))
    PROVE  /\ \A u \in Users : /\ IsFiniteSet(CreditsOf(l, u)) /\ AmountOf(CreditsOf(l, u)) \in Int
                               /\ IsFiniteSet(ReversalsOf(l, u)) /\ AmountOf(ReversalsOf(l, u)) \in Int
                               /\ DepositIncome(l, u) \in Int
           /\ IsFiniteSet(CreditedNow(l)) /\ AmountOf(CreditedNow(l)) \in Int
  <1>1. ASSUME NEW S, S \subseteq BookedOf(l)
        PROVE  IsFiniteSet(S) /\ AmountOf(S) \in Int
    <2>1. IsFiniteSet(S)
      BY <1>1, FS_Subset
    <2>2. \A e \in S : depAmount[e] \in Int
      BY <1>1, DepositAssumption DEF BookedOf
    <2> QED  BY <2>1, <2>2, SumIsInt DEF AmountOf
  <1>2. \A u \in Users : CreditsOf(l, u) \subseteq BookedOf(l) /\ ReversalsOf(l, u) \subseteq BookedOf(l)
    BY DEF CreditsOf, ReversalsOf, BookedOf, Unbooked
  <1>3. CreditedNow(l) \subseteq BookedOf(l)
    BY BookedIsNotUnbooked DEF CreditedNow, BookedOf
  <1> QED  BY <1>1, <1>2, <1>3 DEF DepositIncome

(* Nothing changes while the entries of the deposits do not, ...           *)
LEMMA IncomeSame ==
    ASSUME NEW l, NEW m, \A d \in Deposits : SameEntriesOf(l, m, d)
    PROVE  /\ BookedOf(m) = BookedOf(l)
           /\ \A u \in Users : DepositIncome(m, u) = DepositIncome(l, u)
           /\ CreditedNow(m) = CreditedNow(l)
  <1>1. BookedOf(m) = BookedOf(l)
    BY SameStage DEF BookedOf
  <1>2. \A u \in Users : CreditsOf(m, u) = CreditsOf(l, u) /\ ReversalsOf(m, u) = ReversalsOf(l, u)
    BY DEF CreditsOf, ReversalsOf, SameEntriesOf
  <1>3. \A d \in Deposits : SameEntriesOf(m, l, d)
    BY DEF SameEntriesOf
  <1>4. CreditedNow(m) = CreditedNow(l)
    BY <1>3, SameStage DEF CreditedNow
  <1> QED  BY <1>1, <1>2, <1>4 DEF DepositIncome

(* ... a credit adds one deposit to its user's income, ...                 *)
LEMMA IncomeOfCredit ==
    ASSUME NEW l, NEW m, IsFiniteSet(BookedOf(l)), NEW d \in Deposits, Unbooked(l, d), IsCredited(m, d),
           \A e \in Deposits : e # d => SameEntriesOf(l, m, e)
    PROVE  /\ BookedOf(m) = BookedOf(l) \union {d}
           /\ DepositIncome(m, depUser[d]) = DepositIncome(l, depUser[d]) + depAmount[d]
           /\ \A u \in Users : u # depUser[d] => DepositIncome(m, u) = DepositIncome(l, u)
           /\ AmountOf(CreditedNow(m)) = AmountOf(CreditedNow(l)) + depAmount[d]
  <1>1. PICK o \in Users : o = depUser[d]
    BY DepositAssumption
  <1>2. \A e \in Deposits : e # d => (Unbooked(m, e) <=> Unbooked(l, e)) /\ (IsCredited(m, e) <=> IsCredited(l, e))
    <2>1. \A e \in Deposits : e # d => SameEntriesOf(m, l, e)
      BY DEF SameEntriesOf
    <2> QED  BY <2>1, SameStage
  <1>3. ~Unbooked(m, d) /\ ~IsCredited(l, d)
    BY BookedIsNotUnbooked
  <1>4. BookedOf(m) = BookedOf(l) \union {d}
    BY <1>2, <1>3 DEF BookedOf
  <1>5. CreditedNow(m) = CreditedNow(l) \union {d} /\ d \notin CreditedNow(l)
    BY <1>2, <1>3 DEF CreditedNow
  <1>6. /\ EntriesIn(m, o, "deposit_credit", d) # {}
        /\ \A u \in Users : u # o => EntriesIn(m, u, "deposit_credit", d) = {}
        /\ \A u \in Users : EntriesIn(m, u, "deposit_reverse", d) = {}
    BY <1>1 DEF IsCredited, OnlyCredited, CreditIs
  <1>7. /\ CreditsOf(m, o) = CreditsOf(l, o) \union {d} /\ d \notin CreditsOf(l, o)
        /\ \A u \in Users : u # o => CreditsOf(m, u) = CreditsOf(l, u)
        /\ \A u \in Users : ReversalsOf(m, u) = ReversalsOf(l, u)
    BY <1>6 DEF CreditsOf, ReversalsOf, SameEntriesOf, Unbooked
  <1>8. /\ IsFiniteSet(CreditsOf(l, o)) /\ IsFiniteSet(CreditedNow(l))
        /\ AmountOf(ReversalsOf(l, o)) \in Int
    BY IncomeTypes
  <1>9. /\ AmountOf(CreditsOf(l, o)) \in Int /\ depAmount[d] \in Int
        /\ AmountOf(CreditsOf(l, o) \union {d}) = AmountOf(CreditsOf(l, o)) + depAmount[d]
    <2>1. CreditsOf(l, o) \subseteq Deposits
      BY DEF CreditsOf
    <2> QED  BY <1>7, <1>8, <2>1, AmountAdded
  <1>10. AmountOf(CreditedNow(l) \union {d}) = AmountOf(CreditedNow(l)) + depAmount[d]
    <2>1. CreditedNow(l) \subseteq Deposits
      BY DEF CreditedNow
    <2> QED  BY <1>5, <1>8, <2>1, AmountAdded
  <1>11. DepositIncome(m, o) = DepositIncome(l, o) + depAmount[d]
    BY <1>7, <1>8, <1>9 DEF DepositIncome
  <1>12. \A u \in Users : u # o => DepositIncome(m, u) = DepositIncome(l, u)
    BY <1>7 DEF DepositIncome
  <1> QED  BY <1>1, <1>4, <1>5, <1>10, <1>11, <1>12

(* ... and a reversal takes it away.                                       *)
LEMMA IncomeOfReversal ==
    ASSUME NEW l, NEW m, IsFiniteSet(BookedOf(l)), NEW d \in Deposits, IsCredited(l, d), IsReversed(m, d),
           \A e \in Deposits : e # d => SameEntriesOf(l, m, e)
    PROVE  /\ BookedOf(m) = BookedOf(l)
           /\ DepositIncome(m, depUser[d]) = DepositIncome(l, depUser[d]) - depAmount[d]
           /\ \A u \in Users : u # depUser[d] => DepositIncome(m, u) = DepositIncome(l, u)
           /\ AmountOf(CreditedNow(m)) = AmountOf(CreditedNow(l)) - depAmount[d]
  <1>1. PICK o \in Users : o = depUser[d]
    BY DepositAssumption
  <1>2. \A e \in Deposits : e # d => (Unbooked(m, e) <=> Unbooked(l, e)) /\ (IsCredited(m, e) <=> IsCredited(l, e))
    <2>1. \A e \in Deposits : e # d => SameEntriesOf(m, l, e)
      BY DEF SameEntriesOf
    <2> QED  BY <2>1, SameStage
  <1>3. ~Unbooked(m, d) /\ ~Unbooked(l, d)
    BY BookedIsNotUnbooked
  <1>4. BookedOf(m) = BookedOf(l)
    BY <1>2, <1>3 DEF BookedOf
  <1>5. /\ \A u \in Users : EntriesIn(l, u, "deposit_reverse", d) = {}
        /\ EntriesIn(l, o, "deposit_credit", d) # {}
        /\ \A u \in Users : u # o => EntriesIn(l, u, "deposit_credit", d) = {}
    BY <1>1 DEF IsCredited, OnlyCredited, CreditIs
  <1>6. /\ EntriesIn(m, o, "deposit_reverse", d) # {}
        /\ \A u \in Users : u # o => EntriesIn(m, u, "deposit_reverse", d) = {}
        /\ EntriesIn(m, o, "deposit_credit", d) # {}
        /\ \A u \in Users : u # o => EntriesIn(m, u, "deposit_credit", d) = {}
    BY <1>1 DEF IsReversed, AlsoReversed, CreditIs
  <1>7. CreditedNow(l) = CreditedNow(m) \union {d} /\ d \notin CreditedNow(m)
    <2>1. ~IsCredited(m, d)
      BY <1>1, <1>6 DEF IsCredited, OnlyCredited
    <2> QED  BY <1>2, <2>1 DEF CreditedNow
  <1>8. /\ \A u \in Users : CreditsOf(m, u) = CreditsOf(l, u)
        /\ ReversalsOf(m, o) = ReversalsOf(l, o) \union {d} /\ d \notin ReversalsOf(l, o)
        /\ \A u \in Users : u # o => ReversalsOf(m, u) = ReversalsOf(l, u)
    BY <1>5, <1>6 DEF CreditsOf, ReversalsOf, SameEntriesOf
  <1>9. IsFiniteSet(ReversalsOf(l, o)) /\ IsFiniteSet(CreditedNow(m)) /\ AmountOf(CreditsOf(l, o)) \in Int
    <2>1. IsFiniteSet(BookedOf(m))
      BY <1>4
    <2> QED  BY <2>1, IncomeTypes
  <1>10. /\ AmountOf(ReversalsOf(l, o)) \in Int /\ depAmount[d] \in Int
         /\ AmountOf(ReversalsOf(l, o) \union {d}) = AmountOf(ReversalsOf(l, o)) + depAmount[d]
    <2>1. ReversalsOf(l, o) \subseteq Deposits
      BY DEF ReversalsOf
    <2> QED  BY <1>8, <1>9, <2>1, AmountAdded
  <1>11. /\ AmountOf(CreditedNow(m)) \in Int
         /\ AmountOf(CreditedNow(m) \union {d}) = AmountOf(CreditedNow(m)) + depAmount[d]
    <2>1. CreditedNow(m) \subseteq Deposits
      BY DEF CreditedNow
    <2> QED  BY <1>7, <1>9, <2>1, AmountAdded
  <1>12. DepositIncome(m, o) = DepositIncome(l, o) - depAmount[d]
    BY <1>8, <1>9, <1>10 DEF DepositIncome
  <1>13. \A u \in Users : u # o => DepositIncome(m, u) = DepositIncome(l, u)
    BY <1>8 DEF DepositIncome
  <1>14. AmountOf(CreditedNow(m)) = AmountOf(CreditedNow(l)) - depAmount[d]
    BY <1>7, <1>10, <1>11
  <1> QED  BY <1>1, <1>4, <1>12, <1>13, <1>14

-----------------------------------------------------------------------------
(* What the exchange owes, what it owes beyond the deposits, and what u    *)
(* can spend beyond them.                                                  *)
Liabilities(l) == SumFunction([u \in Users |-> HeldBy(l.account[u])])
Surplus(l) == Liabilities(l) - AmountOf(CreditedNow(l))
Slack(l, u) == l.account[u].available - DepositIncome(l, u)

(* One amount is the other, or less if there are new users.                *)
AtMost(x, y) == x <= y /\ (NewUsers = {} => x = y)

(* A write changes the liabilities by what it makes of one row.            *)
LEMMA WroteLiabilities ==
    ASSUME NEW l \in LedgerType, NEW u \in Users, NEW row, row.available \in Nat, row.frozen \in Nat,
           NEW op \in LedgerOp, NEW m, Wrote(l, u, row, op, m)
    PROVE  /\ Liabilities(l) \in Int /\ Change(op) \in Int
           /\ Liabilities(m) = Liabilities(l) + (HeldBy(row) + Change(op) - HeldBy(l.account[u]))
  <1> DEFINE f == [v \in Users |-> HeldBy(l.account[v])]
             h == [v \in Users |-> HeldBy(m.account[v])]
  <1>1. IsFiniteSet(Users)
    BY ExchangeAssumption
  <1>2. m \in LedgerType
    BY DEF Wrote
  <1>3. \A v \in Users : l.account[v] \in Account /\ m.account[v] \in Account
    BY <1>2 DEF LedgerType
  <1>4. \A r \in Account : HeldBy(r) \in Int
    BY DEF Account, HeldBy
  <1>5. \A v \in Users : f[v] \in Int /\ h[v] \in Int
    BY <1>3, <1>4
  <1>6. \A v \in Users : v # u => h[v] = f[v]
    BY DEF Wrote
  <1>7. PICK a \in Int, b \in Int : a = deltaAvail(op) /\ b = deltaFrozen(op)
    BY DeltaTypes
  <1>8. h[u] = HeldBy(row) + Change(op) /\ Change(op) \in Int
    BY <1>7 DEF Wrote, HeldBy, Change
  <1>9. f[u] = HeldBy(l.account[u])
    OBVIOUS
  <1>10. Liabilities(l) = SumFunctionOnSet(f, Users) /\ Liabilities(m) = SumFunctionOnSet(h, Users)
    BY DEF Liabilities, SumFunction
  <1> HIDE DEF f, h
  <1>11. SumFunctionOnSet(h, Users) = SumFunctionOnSet(f, Users) + (h[u] - f[u])
    BY <1>1, <1>5, <1>6, SumWithOther
  <1>12. SumFunctionOnSet(f, Users) \in Int
    BY <1>1, <1>5, SumIsInt
  <1>13. Liabilities(m) = Liabilities(l) + (HeldBy(row) + Change(op) - HeldBy(l.account[u]))
    <2>1. PICK x \in Int, c \in Int : x = HeldBy(row) /\ c = Change(op)
      BY <1>8 DEF HeldBy
    <2>2. PICK y \in Int, F \in Int : y = f[u] /\ F = SumFunctionOnSet(f, Users)
      BY <1>5, <1>12
    <2>3. h[u] = x + c
      BY <1>8, <2>1
    <2>4. Liabilities(m) = F + ((x + c) - y)
      BY <1>10, <1>11, <2>2, <2>3
    <2> QED  BY <1>9, <1>10, <2>1, <2>2, <2>4
  <1> QED  BY <1>8, <1>10, <1>12, <1>13, Zenon

(* The sums of a ledger are integers.                                      *)
LEMMA SumTypes ==
    ASSUME NEW l \in LedgerType, IsFiniteSet(BookedOf(l))
    PROVE  /\ Liabilities(l) \in Int /\ Surplus(l) \in Int
           /\ \A u \in Users : l.account[u].available \in Nat /\ Slack(l, u) \in Int
  <1> DEFINE f == [v \in Users |-> HeldBy(l.account[v])]
  <1>1. \A v \in Users : l.account[v] \in Account
    BY DEF LedgerType
  <1>2. \A r \in Account : HeldBy(r) \in Int /\ r.available \in Nat
    BY DEF Account, HeldBy
  <1>3. \A v \in Users : f[v] \in Int
    BY <1>1, <1>2
  <1>4. Liabilities(l) = SumFunctionOnSet(f, Users)
    BY DEF Liabilities, SumFunction
  <1> HIDE DEF f
  <1>5. Liabilities(l) \in Int
    BY <1>3, <1>4, ExchangeAssumption, SumIsInt
  <1>6. AmountOf(CreditedNow(l)) \in Int /\ \A u \in Users : DepositIncome(l, u) \in Int
    BY IncomeTypes
  <1>7. Surplus(l) \in Int
    BY <1>5, <1>6 DEF Surplus
  <1>8. ASSUME NEW u \in Users PROVE l.account[u].available \in Nat /\ Slack(l, u) \in Int
    <2>1. PICK p \in Nat, i \in Int : p = l.account[u].available /\ i = DepositIncome(l, u)
      BY <1>1, <1>2, <1>6
    <2> QED  BY <2>1 DEF Slack
  <1> QED  BY <1>5, <1>7, <1>8

(* A write of withdrawals or payments.                                     *)
LEMMA OtherWeighed ==
    ASSUME NEW l, LedgerGood(l), IsFiniteSet(BookedOf(l)), NEW u \in Users, NEW op \in LedgerOp, NEW m,
           Wrote(l, u, l.account[u], op, m), op.type \notin {"deposit_credit", "deposit_reverse"}
    PROVE  /\ IsFiniteSet(BookedOf(m)) /\ BookedOf(m) = BookedOf(l)
           /\ Slack(m, u) = Slack(l, u) + deltaAvail(op)
           /\ \A v \in Users : v # u => Slack(m, v) = Slack(l, v)
           /\ Surplus(m) = Surplus(l) + Change(op)
  <1>1. l \in LedgerType
    BY DEF LedgerGood
  <1>2. \A d \in Deposits : SameEntriesOf(l, m, d)
    BY OtherWrite
  <1>3. /\ BookedOf(m) = BookedOf(l) /\ CreditedNow(m) = CreditedNow(l)
        /\ \A v \in Users : DepositIncome(m, v) = DepositIncome(l, v)
    BY <1>2, IncomeSame
  <1>4. PICK row \in Account : row = l.account[u]
    BY <1>1 DEF LedgerType
  <1>5. PICK p \in Nat, q \in Nat : p = row.available /\ q = row.frozen
    BY DEF Account
  <1>6. PICK L \in Int, c \in Int : L = Liabilities(l) /\ c = Change(op) /\ Liabilities(m) = L + c
    <2>1. /\ Liabilities(l) \in Int /\ Change(op) \in Int
          /\ Liabilities(m) = Liabilities(l) + (HeldBy(row) + Change(op) - HeldBy(l.account[u]))
      BY <1>1, <1>4, <1>5, WroteLiabilities
    <2>2. HeldBy(row) \in Int /\ HeldBy(l.account[u]) = HeldBy(row)
      BY <1>4, <1>5 DEF HeldBy
    <2> QED  BY <2>1, <2>2
  <1>7. PICK s \in Int : s = AmountOf(CreditedNow(l))
    BY IncomeTypes
  <1>8. Surplus(m) = Surplus(l) + Change(op)
    BY <1>3, <1>6, <1>7 DEF Surplus
  <1>9. PICK i \in Int, a \in Int : i = DepositIncome(l, u) /\ a = deltaAvail(op)
    BY IncomeTypes, DeltaTypes
  <1>10. m.account[u].available = p + a
    BY <1>4, <1>5, <1>9 DEF Wrote
  <1>11. Slack(m, u) = Slack(l, u) + deltaAvail(op)
    BY <1>3, <1>4, <1>5, <1>9, <1>10 DEF Slack
  <1>12. \A v \in Users : v # u => Slack(m, v) = Slack(l, v)
    BY <1>3 DEF Slack, Wrote
  <1> QED  BY <1>3, <1>8, <1>11, <1>12

(* What deposits may do to the weights: nothing but lose what new users'   *)
(* first credits overtake.                                                 *)
NotHeavier(l, m) ==
    /\ IsFiniteSet(BookedOf(m))
    /\ \A u \in Users : AtMost(Slack(m, u), Slack(l, u))
    /\ AtMost(Surplus(m), Surplus(l))

(* A credit does that: it adds as much to the income as to the account, if *)
(* the row read is the one there.                                          *)
LEMMA CreditWeighed ==
    ASSUME NEW l, LedgerGood(l), IsFiniteSet(BookedOf(l)), NEW d \in Deposits, Unbooked(l, d),
           NEW row, ReadRow(l, depUser[d], row),
           NEW m, Wrote(l, depUser[d], row, creditDeposit(d, depAmount[d]), m), IsCredited(m, d),
           \A e \in Deposits : e # d => SameEntriesOf(l, m, e)
    PROVE  NotHeavier(l, m)
  <1>1. PICK u \in Users : u = depUser[d]
    BY DepositAssumption
  <1>2. PICK a \in Nat : a = depAmount[d]
    BY DepositAssumption
  <1>3. PICK op \in LedgerOp : op = creditDeposit(d, depAmount[d]) /\ deltaAvail(op) = a /\ Change(op) = a
    <2>1. creditDeposit(d, a) \in LedgerOp
      BY <1>2, DepositOps
    <2>2. deltaAvail(creditDeposit(d, a)) = a /\ deltaFrozen(creditDeposit(d, a)) = 0
      BY DEF creditDeposit, deltaAvail, deltaFrozen
    <2> QED  BY <1>2, <2>1, <2>2 DEF Change
  <1>4. /\ BookedOf(m) = BookedOf(l) \union {d}
        /\ DepositIncome(m, u) = DepositIncome(l, u) + a
        /\ \A v \in Users : v # u => DepositIncome(m, v) = DepositIncome(l, v)
        /\ AmountOf(CreditedNow(m)) = AmountOf(CreditedNow(l)) + a
    BY <1>1, <1>2, IncomeOfCredit
  <1>5. IsFiniteSet(BookedOf(m))
    BY <1>4, FS_AddElement
  <1>6. l \in LedgerType
    BY DEF LedgerGood
  <1>7. PICK p \in Nat, q \in Nat : p = row.available /\ q = row.frozen
    <2>1. l.account[u] \in Account
      BY <1>6 DEF LedgerType
    <2> QED  BY <1>1, <2>1 DEF ReadRow, Account, MissingRow
  <1>8. PICK P \in Nat, Q \in Nat : P = l.account[u].available /\ Q = l.account[u].frozen
    BY <1>6 DEF LedgerType, Account
  <1>9. p <= P /\ p + q <= P + Q /\ (NewUsers = {} => p = P /\ p + q = P + Q)
    <2>1. CASE row = l.account[u]
      BY <1>7, <1>8, <2>1
    <2>2. CASE row = MissingRow /\ u \in NewUsers
      <3>1. p = 0 /\ q = 0
        BY <1>7, <2>2 DEF MissingRow
      <3> QED  BY <1>8, <2>2, <3>1
    <2> QED  BY <1>1, <2>1, <2>2 DEF ReadRow
  <1>10. Wrote(l, u, row, op, m)
    BY <1>1, <1>3
  <1>11. PICK i \in Int, s \in Int : i = DepositIncome(l, u) /\ s = AmountOf(CreditedNow(l))
    BY IncomeTypes
  <1>12. m.account[u].available = p + a
    BY <1>3, <1>7, <1>10 DEF Wrote
  <1>13. AtMost(Slack(m, u), Slack(l, u))
    BY <1>4, <1>8, <1>9, <1>11, <1>12 DEF Slack, AtMost
  <1>14. ASSUME NEW v \in Users, v # u PROVE AtMost(Slack(m, v), Slack(l, v))
    <2>1. Slack(m, v) = Slack(l, v)
      BY <1>4, <1>10, <1>14 DEF Slack, Wrote
    <2>2. Slack(l, v) \in Int
      BY <1>6, SumTypes
    <2> QED  BY <2>1, <2>2 DEF AtMost
  <1>15. PICK L \in Int : L = Liabilities(l) /\ Liabilities(m) = L + ((p + q) + a - (P + Q))
    <2>1. row.available \in Nat /\ row.frozen \in Nat
      BY <1>7
    <2>2. /\ Liabilities(l) \in Int
          /\ Liabilities(m) = Liabilities(l) + (HeldBy(row) + Change(op) - HeldBy(l.account[u]))
      BY <1>6, <1>10, <2>1, WroteLiabilities
    <2> QED  BY <1>3, <1>7, <1>8, <2>2 DEF HeldBy
  <1>16. AtMost(Surplus(m), Surplus(l))
    BY <1>4, <1>9, <1>11, <1>15 DEF Surplus, AtMost
  <1> QED  BY <1>1, <1>5, <1>13, <1>14, <1>16 DEF NotHeavier

(* A reversal does, too: it takes away what the credit gave.               *)
LEMMA ReversalWeighed ==
    ASSUME NEW l, LedgerGood(l), IsFiniteSet(BookedOf(l)), NEW d \in Deposits, IsCredited(l, d),
           NEW m, Wrote(l, depUser[d], l.account[depUser[d]], reverseDeposit(d, depAmount[d]), m), IsReversed(m, d),
           \A e \in Deposits : e # d => SameEntriesOf(l, m, e)
    PROVE  NotHeavier(l, m)
  <1>1. PICK u \in Users : u = depUser[d]
    BY DepositAssumption
  <1>2. PICK a \in Nat : a = depAmount[d]
    BY DepositAssumption
  <1>3. PICK op \in LedgerOp : op = reverseDeposit(d, depAmount[d]) /\ deltaAvail(op) = 0 - a /\ Change(op) = 0 - a
    <2>1. reverseDeposit(d, a) \in LedgerOp
      BY <1>2, DepositOps
    <2>2. deltaAvail(reverseDeposit(d, a)) = 0 - a /\ deltaFrozen(reverseDeposit(d, a)) = 0
      BY DEF reverseDeposit, deltaAvail, deltaFrozen
    <2> QED  BY <1>2, <2>1, <2>2 DEF Change
  <1>4. /\ BookedOf(m) = BookedOf(l)
        /\ DepositIncome(m, u) = DepositIncome(l, u) - a
        /\ \A v \in Users : v # u => DepositIncome(m, v) = DepositIncome(l, v)
        /\ AmountOf(CreditedNow(m)) = AmountOf(CreditedNow(l)) - a
    BY <1>1, <1>2, IncomeOfReversal
  <1>5. l \in LedgerType
    BY DEF LedgerGood
  <1>6. PICK row \in Account : row = l.account[u]
    BY <1>5 DEF LedgerType
  <1>7. PICK p \in Nat, q \in Nat : p = row.available /\ q = row.frozen
    BY DEF Account
  <1>8. Wrote(l, u, row, op, m)
    BY <1>1, <1>3, <1>6
  <1>9. PICK i \in Int, s \in Int : i = DepositIncome(l, u) /\ s = AmountOf(CreditedNow(l))
    BY IncomeTypes
  <1>10. m.account[u].available = p + (0 - a)
    BY <1>3, <1>7, <1>8 DEF Wrote
  <1>11. AtMost(Slack(m, u), Slack(l, u))
    BY <1>4, <1>6, <1>7, <1>9, <1>10 DEF Slack, AtMost
  <1>12. ASSUME NEW v \in Users, v # u PROVE AtMost(Slack(m, v), Slack(l, v))
    <2>1. Slack(m, v) = Slack(l, v)
      BY <1>4, <1>8, <1>12 DEF Slack, Wrote
    <2>2. Slack(l, v) \in Int
      BY <1>5, SumTypes
    <2> QED  BY <2>1, <2>2 DEF AtMost
  <1>13. PICK L \in Int : L = Liabilities(l) /\ Liabilities(m) = L + ((p + q) + (0 - a) - (p + q))
    <2>1. row.available \in Nat /\ row.frozen \in Nat
      BY <1>7
    <2>2. /\ Liabilities(l) \in Int
          /\ Liabilities(m) = Liabilities(l) + (HeldBy(row) + Change(op) - HeldBy(l.account[u]))
      BY <1>5, <1>8, <2>1, WroteLiabilities
    <2> QED  BY <1>3, <1>6, <1>7, <2>2 DEF HeldBy
  <1>14. AtMost(Surplus(m), Surplus(l))
    BY <1>4, <1>9, <1>13 DEF Surplus, AtMost
  <1> QED  BY <1>1, <1>4, <1>11, <1>12, <1>14 DEF NotHeavier

AllReplay(l) == \A u \in Users : Replays(l, u)

(* The whole of what deposits may do to the ledger.                        *)
DepositTypes == {"deposit_credit", "deposit_reverse"}
DepositEffect(l, m) ==
    /\ Extends(l, m, DepositTypes) /\ NotHeavier(l, m)
    /\ NewUsers = {} /\ AllReplay(l) => AllReplay(m)

(* Nothing, ...                                                            *)
LEMMA NoEffect ==
    ASSUME NEW l, LedgerGood(l), IsFiniteSet(BookedOf(l))
    PROVE  DepositEffect(l, l)
  <1>1. l \in LedgerType
    BY DEF LedgerGood
  <1>2. Extends(l, l, DepositTypes)
    BY <1>1 DEF Extends
  <1>3. NotHeavier(l, l)
    BY <1>1, SumTypes DEF NotHeavier, AtMost
  <1> QED  BY <1>2, <1>3 DEF DepositEffect

(* ... the two in succession, ...                                          *)
LEMMA EffectsAdd ==
    ASSUME NEW l \in LedgerType, IsFiniteSet(BookedOf(l)), NEW m, DepositEffect(l, m), NEW n, DepositEffect(m, n)
    PROVE  DepositEffect(l, n)
  <1>1. /\ Extends(l, m, DepositTypes) /\ NotHeavier(l, m)
        /\ Extends(m, n, DepositTypes) /\ NotHeavier(m, n)
    BY DEF DepositEffect
  <1>2. Extends(l, n, DepositTypes)
    BY <1>1, ExtendsMore
  <1>3. /\ m \in LedgerType /\ IsFiniteSet(BookedOf(m))
        /\ n \in LedgerType /\ IsFiniteSet(BookedOf(n))
    BY <1>1 DEF Extends, NotHeavier
  <1>4. ASSUME NEW x \in Int, NEW y \in Int, NEW z \in Int, AtMost(z, y), AtMost(y, x)
        PROVE  AtMost(z, x)
    BY <1>4 DEF AtMost
  <1>5. Surplus(l) \in Int /\ Surplus(m) \in Int /\ Surplus(n) \in Int
    BY <1>3, SumTypes
  <1>6. AtMost(Surplus(n), Surplus(l))
    BY <1>1, <1>4, <1>5 DEF NotHeavier
  <1>7. ASSUME NEW u \in Users PROVE AtMost(Slack(n, u), Slack(l, u))
    <2>1. Slack(l, u) \in Int /\ Slack(m, u) \in Int /\ Slack(n, u) \in Int
      BY <1>3, SumTypes
    <2>2. AtMost(Slack(m, u), Slack(l, u)) /\ AtMost(Slack(n, u), Slack(m, u))
      BY <1>1 DEF NotHeavier
    <2> QED  BY <1>4, <2>1, <2>2
  <1>8. NotHeavier(l, n)
    BY <1>3, <1>6, <1>7 DEF NotHeavier
  <1> QED  BY <1>2, <1>8 DEF DepositEffect

(* ... the credit of a deposit, ...                                        *)
LEMMA CreditEffect ==
    ASSUME NEW l, LedgerGood(l), IsFiniteSet(BookedOf(l)), NEW d \in Deposits, Unbooked(l, d),
           NEW row, ReadRow(l, depUser[d], row),
           NEW m, m = WriteLedger(l, depUser[d], row, creditDeposit(d, depAmount[d]))
    PROVE  DepositEffect(l, m)
  <1>1. PICK u \in Users : u = depUser[d]
    BY DepositAssumption
  <1>2. PICK op \in LedgerOp : op = creditDeposit(d, depAmount[d]) /\ op.type = "deposit_credit"
    BY DepositOps
  <1>3. l \in LedgerType
    BY DEF LedgerGood
  <1>4. row \in Account
    <2>1. l.account[u] \in Account
      BY <1>3 DEF LedgerType
    <2>2. MissingRow \in Account
      BY DEF MissingRow, Account
    <2> QED  BY <1>1, <2>1, <2>2 DEF ReadRow
  <1>5. CanApply(row, op)
    BY <1>2, <1>4, DepositOps
  <1>6. Wrote(l, u, row, op, m)
    BY <1>1, <1>2, <1>3, <1>4, <1>5, LedgerWritten
  <1>7. IsCredited(m, d) /\ \A e \in Deposits : e # d => SameEntriesOf(l, m, e)
    BY CreditGood
  <1>8. NotHeavier(l, m)
    <2>1. Wrote(l, depUser[d], row, creditDeposit(d, depAmount[d]), m)
      BY <1>1, <1>2, <1>6
    <2>2. IsCredited(m, d)
      BY <1>7
    <2>3. \A e \in Deposits : e # d => SameEntriesOf(l, m, e)
      BY <1>7
    <2> QED  BY <2>1, <2>2, <2>3, CreditWeighed
  <1>9. Extends(l, m, DepositTypes)
    <2>1. Extends(l, m, {op.type})
      BY <1>3, <1>6, WroteExtends
    <2> QED  BY <1>2, <2>1 DEF Extends, DepositTypes
  <1>10. ASSUME NewUsers = {}, AllReplay(l) PROVE AllReplay(m)
    <2>1. row = l.account[u]
      BY <1>1, <1>10 DEF ReadRow
    <2>2. CanApply(l.account[u], op) /\ m = applyLedgerTx(l, u, op)
      BY <1>1, <1>2, <1>5, <2>1 DEF applyLedgerTx
    <2>3. \A v \in Users : Replays(l, v)
      BY <1>10 DEF AllReplay
    <2>4. \A v \in Users : Replays(m, v)
      BY <1>3, <2>2, <2>3, ApplyReplays
    <2> QED  BY <2>4 DEF AllReplay
  <1> QED  BY <1>8, <1>9, <1>10 DEF DepositEffect

(* ... the reversal of one, ...                                            *)
LEMMA ReversalEffect ==
    ASSUME NEW l, LedgerGood(l), IsFiniteSet(BookedOf(l)), NEW d \in Deposits, IsCredited(l, d),
           CanApply(l.account[depUser[d]], reverseDeposit(d, depAmount[d])),
           NEW m, m = applyLedgerTx(l, depUser[d], reverseDeposit(d, depAmount[d]))
    PROVE  DepositEffect(l, m)
  <1>1. PICK u \in Users : u = depUser[d]
    BY DepositAssumption
  <1>2. PICK op \in LedgerOp : op = reverseDeposit(d, depAmount[d]) /\ op.type = "deposit_reverse"
    BY DepositOps
  <1>3. l \in LedgerType
    BY DEF LedgerGood
  <1>4. PICK row \in Account : row = l.account[u]
    BY <1>3 DEF LedgerType
  <1>5. CanApply(row, op) /\ m = WriteLedger(l, u, row, op)
    BY <1>1, <1>2, <1>4 DEF applyLedgerTx
  <1>6. Wrote(l, u, row, op, m)
    BY <1>3, <1>5, LedgerWritten
  <1>7. IsReversed(m, d) /\ \A e \in Deposits : e # d => SameEntriesOf(l, m, e)
    BY ReverseGood
  <1>8. NotHeavier(l, m)
    <2>1. Wrote(l, depUser[d], l.account[depUser[d]], reverseDeposit(d, depAmount[d]), m)
      BY <1>1, <1>2, <1>4, <1>6
    <2>2. IsReversed(m, d)
      BY <1>7
    <2>3. \A e \in Deposits : e # d => SameEntriesOf(l, m, e)
      BY <1>7
    <2> QED  BY <2>1, <2>2, <2>3, ReversalWeighed
  <1>9. Extends(l, m, DepositTypes)
    <2>1. Extends(l, m, {op.type})
      BY <1>3, <1>6, WroteExtends
    <2> QED  BY <1>2, <2>1 DEF Extends, DepositTypes
  <1>10. ASSUME AllReplay(l) PROVE AllReplay(m)
    <2>1. CanApply(l.account[u], op) /\ m = applyLedgerTx(l, u, op)
      BY <1>1, <1>2, <1>4, <1>5
    <2>2. \A v \in Users : Replays(l, v)
      BY <1>10 DEF AllReplay
    <2>3. \A v \in Users : Replays(m, v)
      BY <1>3, <2>1, <2>2, ApplyReplays
    <2> QED  BY <2>3 DEF AllReplay
  <1> QED  BY <1>8, <1>9, <1>10 DEF DepositEffect

(* ... and all the turns of HandleReorgTx.                                 *)
LEMMA ReorgEffect ==
    ASSUME LedgerGood(ledger), IsFiniteSet(BookedOf(ledger)), NEW T, IsFiniteSet(T), T \subseteq Deposits,
           \A d \in T : IsCredited(ledger, d), reverseAll(T).ok
    PROVE  DepositEffect(ledger, reverseAll(T).l)
  <1> DEFINE g == CHOOSE h : Turns(ledger, T, h)
  <1>1. reverseAll(T) = g[T]
    BY Zenon DEF reverseAll, FoldSet, MapThenFoldSet, Turns, Pick
  <1>2. Turns(ledger, T, g)
    BY TurnsExist
  <1> HIDE DEF g
  <1>3. \A s \in SUBSET T : Unwound(ledger, s, g[s])
    BY <1>2, AllTurns
  <1> DEFINE Bad == {s \in SUBSET T : ~(g[s].ok => DepositEffect(ledger, g[s].l))}
  <1>4. SUFFICES ASSUME Bad # {} PROVE FALSE
    BY <1>1
  <1>5. \A s \in Bad : IsFiniteSet(s) /\ s \subseteq T
    BY FS_Subset
  <1>6. PICK s \in Bad : \A r \in Bad : ~(Cardinality(r) < Cardinality(s))
    <2> HIDE DEF Bad
    <2> QED  BY <1>4, <1>5, SmallestSet
  <1>7. g[s] = (IF s = {} THEN [ok |-> TRUE, l |-> ledger] ELSE ReverseOne(Pick(s), g[s \ {Pick(s)}]))
    BY <1>2, <1>5, TurnsAt
  <1>8. CASE s = {}
    <2>1. g[s].l = ledger
      BY <1>7, <1>8
    <2>2. DepositEffect(ledger, ledger)
      BY NoEffect
    <2> QED  BY <2>1, <2>2
  <1>9. CASE s # {}
    <2>1. PICK d \in s : d = Pick(s)
      BY <1>9, Picked
    <2>2. PICK r : r = s \ {d}
      OBVIOUS
    <2>3. r \notin Bad /\ r \subseteq T /\ d \notin r /\ d \in T /\ d \in Deposits
      BY <1>5, <1>6, <2>2, Smaller
    <2>4. PICK acc : acc = g[r]
      OBVIOUS
    <2> DEFINE op == reverseDeposit(d, depAmount[d])
               m == applyLedgerTx(acc.l, depUser[d], op)
    <2>5. g[s] = ReverseOne(d, acc) /\ g[s].ok /\ ~DepositEffect(ledger, g[s].l)
      BY <1>7, <1>9, <2>1, <2>2, <2>4
    <2>6. acc.ok /\ CanApply(acc.l.account[depUser[d]], op) /\ g[s].l = m
      <3> HIDE DEF op
      <3>1. g[s] = IF acc.ok /\ CanApply(acc.l.account[depUser[d]], op)
                   THEN [ok |-> TRUE, l |-> applyLedgerTx(acc.l, depUser[d], op)]
                   ELSE [ok |-> FALSE, l |-> acc.l]
        BY <2>5, Zenon DEF ReverseOne, op
      <3> QED  BY <2>5, <3>1
    <2>7. DepositEffect(ledger, acc.l)
      BY <2>3, <2>4, <2>6
    <2>8. LedgerGood(acc.l) /\ \A e \in Deposits : e \notin r => SameEntriesOf(ledger, acc.l, e)
      BY <1>3, <2>3, <2>4, <2>6 DEF Unwound
    <2>9. IsCredited(acc.l, d)
      BY <2>3, <2>8, SameStage
    <2>10. IsFiniteSet(BookedOf(acc.l))
      BY <2>7 DEF DepositEffect, NotHeavier
    <2>11. DepositEffect(acc.l, m)
      BY <2>3, <2>6, <2>8, <2>9, <2>10, ReversalEffect
    <2> HIDE DEF m
    <2>12. ledger \in LedgerType
      BY DEF LedgerGood
    <2>13. DepositEffect(ledger, m)
      BY <2>7, <2>11, <2>12, EffectsAdd
    <2> QED  BY <2>5, <2>6, <2>13
  <1> QED  BY <1>8, <1>9

(* The booked deposits are those that have a row: finitely many.           *)
LEMMA BookedAreFinite ==
    ASSUME State
    PROVE  IsFiniteSet(BookedOf(ledger)) /\ LedgerGood(ledger)
  <1>1. /\ LedgerGood(ledger) /\ TablesGood(deposit, binding)
        /\ \A d \in Deposits : Agree(ledger, deposit, outbox, binding, d)
    BY DEF State, DepositState
  <1>2. BookedOf(ledger) = {d \in Deposits : deposit[d].status # "none"}
    BY <1>1 DEF BookedOf, Agree
  <1> QED  BY <1>1, <1>2 DEF TablesGood

(* A step of the deposits has such an effect.                              *)
LEMMA DepositStepEffect ==
    ASSUME State, [DepositNext]_depositVars
    PROVE  DepositEffect(ledger, ledger')
  <1>1. LedgerGood(ledger) /\ IsFiniteSet(BookedOf(ledger))
    BY BookedAreFinite
  <1>2. ASSUME ledger' = ledger PROVE DepositEffect(ledger, ledger')
    BY <1>1, <1>2, NoEffect
  <1>3. ASSUME NEW w \in Workers, NEW d \in Deposits, NEW b \in Blocks, captureAndCredit(w, d, b)
        PROVE  DepositEffect(ledger, ledger')
    <2>1. hasLedgerEntryTx(ledger, d, "deposit_credit") <=> ~Unbooked(ledger, d)
      BY <1>1, EntriesFound
    <2>2. CASE hasLedgerEntryTx(ledger, d, "deposit_credit")
      BY <1>2, <1>3, <2>2 DEF captureAndCredit, MarkOnly
    <2>3. CASE ~hasLedgerEntryTx(ledger, d, "deposit_credit")
      <3>1. PICK row : row = ledger.account[depUser[d]]
        OBVIOUS
      <3>2. ledger' = WriteLedger(ledger, depUser[d], row, creditDeposit(d, depAmount[d]))
        BY <1>3, <2>3, <3>1 DEF captureAndCredit, CreditAndMark
      <3>3. ReadRow(ledger, depUser[d], row) /\ Unbooked(ledger, d)
        BY <2>1, <2>3, <3>1 DEF ReadRow
      <3> QED  BY <1>1, <3>2, <3>3, CreditEffect
    <2> QED  BY <2>2, <2>3
  <1>4. ASSUME NEW w \in Workers, CommitFirstCredit(w)
        PROVE  DepositEffect(ledger, ledger')
    <2>1. worker[w].op = "capture" /\ CreditAndMark(worker[w].dep, worker[w].block, MissingRow)
      BY <1>4 DEF CommitFirstCredit
    <2>2. CaptureGood(deposit, worker, w)
      BY <2>1, HandFacts
    <2>3. PICK d \in Deposits : d = worker[w].dep /\ deposit[d].status = "none" /\ depUser[d] \in NewUsers
      BY <2>2 DEF CaptureGood
    <2>4. Agree(ledger, deposit, outbox, binding, d)
      BY DEF State, DepositState
    <2>5. Unbooked(ledger, d) /\ ReadRow(ledger, depUser[d], MissingRow)
      BY <2>3, <2>4 DEF Agree, ReadRow
    <2>6. ledger' = WriteLedger(ledger, depUser[d], MissingRow, creditDeposit(d, depAmount[d]))
      BY <2>1, <2>3 DEF CreditAndMark
    <2> QED  BY <1>1, <2>5, <2>6, CreditEffect
  <1>5. ASSUME NEW w \in Workers, CommitReorg(w)
        PROVE  DepositEffect(ledger, ledger')
    <2>1. PICK T : T = Reversible(worker[w].deps)
      OBVIOUS
    <2>2. reverseAll(T).ok /\ ledger' = reverseAll(T).l
      BY <1>5, <2>1 DEF CommitReorg
    <2>3. T \subseteq worker[w].deps
      BY <2>1 DEF Reversible
    <2>4. T \subseteq Deposits /\ IsFiniteSet(T)
      BY <2>3, HandFacts, FS_Subset
    <2>5. \A d \in T : IsCredited(ledger, d)
      BY <1>1, <2>1, <2>4, EntriesFound DEF Reversible
    <2> QED  BY <1>1, <2>2, <2>4, <2>5, ReorgEffect
  <1>6. ASSUME NEW w \in Workers, NEW d, NEW b, BeginFirstCredit(w, d, b) \/ BeginReorg(w, b) \/ Rollback(w)
        PROVE  ledger' = ledger
    BY <1>6 DEF BeginFirstCredit, BeginReorg, Rollback
  <1>7. ASSUME HandleMerchantBind \/ UNCHANGED depositVars
        PROVE  ledger' = ledger
    BY <1>7 DEF HandleMerchantBind, AddBinding, depositVars
  <1>8. ASSUME NEW w \in Workers, DepositStep(w)
        PROVE  DepositEffect(ledger, ledger')
    BY <1>2, <1>3, <1>4, <1>5, <1>6, <1>8 DEF DepositStep
  <1> QED  BY <1>2, <1>7, <1>8 DEF DepositNext

-----------------------------------------------------------------------------
(* The other side of the scales: what is at risk in withdrawals, what the  *)
(* payments brought, what the withdrawals spent.                           *)
AmountsOf(w) == [i \in DOMAIN w |-> w[i].amount]
RiskyRows(w, ch, u) == {i \in DOMAIN w : w[i].user = u /\ (w[i].status \notin Settled \/ ch[i] # "none")}
AtRisk(w, ch, u) == SumFunctionOnSet(AmountsOf(w), RiskyRows(w, ch, u))

PaidIn(pay, u) == SumFunction([p \in DOMAIN pay |-> IF pay[p].account = u THEN pay[p].amount ELSE 0])
PaidOut(pay, u) == SumFunction([p \in DOMAIN pay |-> IF pay[p].payer = u THEN pay[p].amount ELSE 0])

DebitsIn(l, i) == SumFunction([u \in Users |-> Cardinality(EntriesIn(l, u, "withdraw_debit", i))])
Spent(l, w) == SumFunction([i \in DOMAIN w |-> w[i].amount * DebitsIn(l, i)])

(* NoOverdraft of one user, and BooksBalance.                              *)
Safe(l, w, ch, pay, u) ==
    AtRisk(w, ch, u) + Slack(l, u) <= Opening[u] + PaidIn(pay, u) - PaidOut(pay, u)
Kept(l, w) == AtMost(Surplus(l) + Spent(l, w), SumFunction(Opening))

(* They are integers.                                                      *)
LEMMA RiskTypes ==
    ASSUME NEW w \in Seq(Withdrawal), NEW ch, NEW u
    PROVE  /\ IsFiniteSet(DOMAIN w) /\ IsFiniteSet(RiskyRows(w, ch, u)) /\ RiskyRows(w, ch, u) \subseteq DOMAIN w
           /\ \A i \in DOMAIN w : w[i] \in Withdrawal /\ w[i].amount \in Nat
           /\ AtRisk(w, ch, u) \in Int
  <1>1. PICK n \in Nat : DOMAIN w = 1..n
    OBVIOUS
  <1>2. IsFiniteSet(DOMAIN w)
    BY <1>1, FS_Interval
  <1>3. RiskyRows(w, ch, u) \subseteq DOMAIN w
    BY DEF RiskyRows
  <1>4. IsFiniteSet(RiskyRows(w, ch, u))
    BY <1>2, <1>3, FS_Subset
  <1>5. \A i \in DOMAIN w : w[i] \in Withdrawal
    OBVIOUS
  <1>6. \A r \in Withdrawal : r.amount \in Nat
    BY WithdrawAssumption DEF Withdrawal
  <1>7. \A i \in RiskyRows(w, ch, u) : AmountsOf(w)[i] \in Int
    BY <1>3, <1>5, <1>6 DEF AmountsOf
  <1>8. AtRisk(w, ch, u) \in Int
    BY <1>4, <1>7, SumIsInt DEF AtRisk
  <1> QED  BY <1>2, <1>3, <1>4, <1>5, <1>6, <1>8

(* A request that is settled and without a transaction stays that.         *)
NoneReopened(w, ch, x, after) ==
    \A i \in DOMAIN w : w[i].status \in Settled /\ ch[i] = "none" => x[i].status \in Settled /\ after[i] = "none"

(* Then no more is at risk.                                                *)
LEMMA RiskKept ==
    ASSUME NEW w \in Seq(Withdrawal), NEW x, RequestsKept(w, x), NEW ch, NEW after, NEW u,
           NoneReopened(w, ch, x, after)
    PROVE  /\ AtRisk(x, after, u) \in Int /\ AtRisk(w, ch, u) \in Int
           /\ AtRisk(x, after, u) <= AtRisk(w, ch, u)
           /\ AmountsOf(x) = AmountsOf(w)
           /\ RiskyRows(x, after, u) \subseteq RiskyRows(w, ch, u)
  <1>1. x \in Seq(Withdrawal) /\ DOMAIN x = DOMAIN w /\ \A i \in DOMAIN w : x[i].user = w[i].user /\ x[i].amount = w[i].amount
    BY DEF RequestsKept
  <1>2. AmountsOf(x) = AmountsOf(w)
    BY <1>1 DEF AmountsOf
  <1>3. RiskyRows(x, after, u) \subseteq RiskyRows(w, ch, u)
    BY <1>1 DEF RiskyRows, NoneReopened
  <1>4. \A i \in RiskyRows(w, ch, u) : AmountsOf(w)[i] \in Nat
    <2>1. /\ RiskyRows(w, ch, u) \subseteq DOMAIN w
          /\ \A i \in DOMAIN w : w[i] \in Withdrawal /\ w[i].amount \in Nat
      BY RiskTypes, Zenon
    <2>2. \A i \in DOMAIN w : AmountsOf(w)[i] = w[i].amount
      BY DEF AmountsOf
    <2> QED  BY <2>1, <2>2
  <1>5. IsFiniteSet(RiskyRows(w, ch, u))
    BY RiskTypes
  <1>6. SumFunctionOnSet(AmountsOf(w), RiskyRows(x, after, u)) <= SumFunctionOnSet(AmountsOf(w), RiskyRows(w, ch, u))
    BY <1>3, <1>4, <1>5, SumOfFewer
  <1>7. AtRisk(x, after, u) \in Int /\ AtRisk(w, ch, u) \in Int
    BY <1>1, RiskTypes
  <1> QED  BY <1>2, <1>3, <1>6, <1>7 DEF AtRisk

(* A request that settles without a transaction takes its amount with it.  *)
LEMMA RiskReleased ==
    ASSUME NEW w \in Seq(Withdrawal), NEW x, RequestsKept(w, x), NEW ch, NEW after, NEW i \in DOMAIN w, NEW u, w[i].user = u,
           NoneReopened(w, ch, x, after),
           w[i].status \notin Settled, x[i].status \in Settled, after[i] = "none"
    PROVE  AtRisk(x, after, u) + w[i].amount <= AtRisk(w, ch, u)
  <1> DEFINE R == RiskyRows(w, ch, u)
             S == RiskyRows(x, after, u)
             f == AmountsOf(w)
  <1>1. /\ AtRisk(x, after, u) \in Int /\ AtRisk(w, ch, u) \in Int
        /\ AmountsOf(x) = f /\ S \subseteq R
    BY RiskKept
  <1>2. i \in R /\ i \notin S
    BY DEF RiskyRows
  <1>3. IsFiniteSet(R) /\ \A j \in R : f[j] \in Nat
    BY RiskTypes DEF AmountsOf
  <1>4. /\ f[i] = w[i].amount /\ AtRisk(w, ch, u) = SumFunctionOnSet(f, R)
        /\ AtRisk(x, after, u) = SumFunctionOnSet(f, S)
    BY <1>1 DEF AmountsOf, AtRisk
  <1> HIDE DEF f, R, S
  <1>5. PICK Q : Q = R \ {i}
    OBVIOUS
  <1>6. IsFiniteSet(Q) /\ S \subseteq Q /\ \A j \in Q : f[j] \in Nat
    BY <1>1, <1>2, <1>3, <1>5, Smaller
  <1>7. SumFunctionOnSet(f, S) <= SumFunctionOnSet(f, Q)
    BY <1>6, SumOfFewer
  <1>8. SumFunctionOnSet(f, R) = f[i] + SumFunctionOnSet(f, Q)
    BY <1>2, <1>3, <1>5, SumWithout
  <1>9. f[i] \in Nat /\ SumFunctionOnSet(f, Q) \in Int
    BY <1>2, <1>3, <1>6, SumIsInt
  <1>10. PICK q \in Int, s \in Int, a \in Nat : q = SumFunctionOnSet(f, Q) /\ s = SumFunctionOnSet(f, S) /\ a = f[i]
    BY <1>1, <1>4, <1>9
  <1> QED  BY <1>1, <1>4, <1>7, <1>8, <1>10

(* x is w with the new request r.                                          *)
Requested(w, r, x) == r \in Withdrawal /\ x = Append(w, r)

(* What is at risk of a user grows at most by what that user asks for.     *)
LEMMA RiskAdded ==
    ASSUME NEW w \in Seq(Withdrawal), NEW r, NEW x, Requested(w, r, x), NEW ch, NEW u
    PROVE  /\ AtRisk(w, ch, u) \in Int /\ AtRisk(x, ch, u) \in Int /\ r.amount \in Nat
           /\ u # r.user => AtRisk(x, ch, u) = AtRisk(w, ch, u)
           /\ AtRisk(x, ch, u) <= AtRisk(w, ch, u) + r.amount
  <1> DEFINE n == Len(w) + 1
             R == RiskyRows(w, ch, u)
             S == RiskyRows(x, ch, u)
             f == AmountsOf(w)
             h == AmountsOf(x)
  <1>1. /\ Len(w) \in Nat /\ DOMAIN w = 1..Len(w) /\ DOMAIN x = (DOMAIN w) \union {n} /\ n \notin DOMAIN w
        /\ x[n] = r /\ \A i \in DOMAIN w : x[i] = w[i]
        /\ x \in Seq(Withdrawal)
    BY DEF Requested
  <1>2. /\ IsFiniteSet(R) /\ IsFiniteSet(S) /\ AtRisk(w, ch, u) \in Int /\ AtRisk(x, ch, u) \in Int
        /\ \A i \in DOMAIN x : x[i].amount \in Nat
    BY <1>1, RiskTypes
  <1>3. R \subseteq DOMAIN w /\ (S = R \/ (S = R \union {n} /\ u = r.user)) /\ n \notin R
    BY <1>1, SMTT(30) DEF RiskyRows
  <1>4. \A i \in R : f[i] \in Int /\ h[i] = f[i]
    <2>1. \A i \in DOMAIN w : f[i] = w[i].amount /\ h[i] = x[i].amount /\ x[i] = w[i] /\ x[i].amount \in Nat
      BY <1>1, <1>2 DEF AmountsOf
    <2> QED  BY <1>3, <2>1
  <1>5. h[n] = r.amount /\ h[n] \in Nat /\ h[n] \in Int
    BY <1>1, <1>2 DEF AmountsOf
  <1>6. AtRisk(w, ch, u) = SumFunctionOnSet(f, R) /\ AtRisk(x, ch, u) = SumFunctionOnSet(h, S)
    BY DEF AtRisk
  <1> HIDE DEF f, h, R, S, n
  <1>7. SumFunctionOnSet(h, R) = SumFunctionOnSet(f, R)
    BY <1>2, <1>4, SumOfSame
  <1>8. SumFunctionOnSet(h, R \union {n}) = SumFunctionOnSet(f, R) + h[n]
    BY <1>2, <1>3, <1>4, <1>5, SumWithMore
  <1>9. PICK a \in Nat, F \in Int : a = r.amount /\ a = h[n] /\ F = AtRisk(w, ch, u)
    BY <1>2, <1>5
  <1>10. S = R => AtRisk(x, ch, u) = F
    BY <1>6, <1>7, <1>9
  <1>11. S = R \union {n} => AtRisk(x, ch, u) = F + a
    BY <1>6, <1>8, <1>9
  <1> QED  BY <1>2, <1>3, <1>9, <1>10, <1>11

(* A payment adds its amount to the accounts it names.                     *)
LEMMA PaidTypes ==
    ASSUME NEW pay \in Seq(PaymentRow), NEW u
    PROVE  PaidIn(pay, u) \in Int /\ PaidOut(pay, u) \in Int
  <1> DEFINE f == [p \in DOMAIN pay |-> IF pay[p].account = u THEN pay[p].amount ELSE 0]
             h == [p \in DOMAIN pay |-> IF pay[p].payer = u THEN pay[p].amount ELSE 0]
  <1>1. PICK n \in Nat : DOMAIN pay = 1..n
    OBVIOUS
  <1>2. IsFiniteSet(DOMAIN pay)
    BY <1>1, FS_Interval
  <1>3. \A r \in PaymentRow : r.amount \in Int
    <2>1. \A r \in PaymentRow : r.amount \in Nat
      BY PaymentAssumption DEF PaymentRow
    <2> QED  BY <2>1
  <1>4. \A p \in DOMAIN pay : f[p] \in Int /\ h[p] \in Int
    BY <1>3
  <1>5. PaidIn(pay, u) = SumFunctionOnSet(f, DOMAIN pay) /\ PaidOut(pay, u) = SumFunctionOnSet(h, DOMAIN pay)
    BY DEF PaidIn, PaidOut, SumFunction
  <1> HIDE DEF f, h
  <1> QED  BY <1>2, <1>4, <1>5, SumIsInt

(* More precisely:                                                         *)
LEMMA PaidMore ==
    ASSUME NEW pay \in Seq(PaymentRow), NEW r, NEW more, Recorded(pay, r, more), NEW u
    PROVE  /\ PaidIn(more, u) = PaidIn(pay, u) + (IF r.account = u THEN r.amount ELSE 0)
           /\ PaidOut(more, u) = PaidOut(pay, u) + (IF r.payer = u THEN r.amount ELSE 0)
  <1> DEFINE f == [p \in DOMAIN pay |-> IF pay[p].account = u THEN pay[p].amount ELSE 0]
             g == [p \in DOMAIN more |-> IF more[p].account = u THEN more[p].amount ELSE 0]
             h == [p \in DOMAIN pay |-> IF pay[p].payer = u THEN pay[p].amount ELSE 0]
             k == [p \in DOMAIN more |-> IF more[p].payer = u THEN more[p].amount ELSE 0]
  <1>1. PICK n \in Nat : DOMAIN pay = 1..n /\ n = Len(pay)
    OBVIOUS
  <1>2. /\ DOMAIN more = 1..(n + 1) /\ more[n + 1] = r /\ n + 1 \in DOMAIN more
        /\ \A i \in 1..n : more[i] = pay[i] /\ i \in DOMAIN more /\ i \in DOMAIN pay /\ pay[i] \in PaymentRow
        /\ r \in PaymentRow
    BY <1>1 DEF Recorded
  <1>3. r.amount \in Int /\ \A q \in PaymentRow : q.amount \in Int
    <2>1. \A q \in PaymentRow : q.amount \in Nat
      BY PaymentAssumption DEF PaymentRow
    <2> QED  BY <1>2, <2>1
  <1>4. \A i \in 1..n : f[i] \in Int /\ g[i] = f[i] /\ h[i] \in Int /\ k[i] = h[i]
    BY <1>2, <1>3
  <1>5. /\ g[n + 1] = (IF r.account = u THEN r.amount ELSE 0) /\ g[n + 1] \in Int
        /\ k[n + 1] = (IF r.payer = u THEN r.amount ELSE 0) /\ k[n + 1] \in Int
    BY <1>2, <1>3
  <1>6. PaidIn(pay, u) = SumFunctionOnSet(f, 1..n) /\ PaidIn(more, u) = SumFunctionOnSet(g, 1..(n + 1))
    BY <1>1, <1>2 DEF PaidIn, SumFunction
  <1>7. PaidOut(pay, u) = SumFunctionOnSet(h, 1..n) /\ PaidOut(more, u) = SumFunctionOnSet(k, 1..(n + 1))
    BY <1>1, <1>2 DEF PaidOut, SumFunction
  <1> HIDE DEF f, g, h, k
  <1>8. SumFunctionOnSet(g, 1..(n + 1)) = SumFunctionOnSet(f, 1..n) + g[n + 1]
    BY <1>4, <1>5, SumAppended
  <1>9. SumFunctionOnSet(k, 1..(n + 1)) = SumFunctionOnSet(h, 1..n) + k[n + 1]
    BY <1>4, <1>5, SumAppended
  <1>10. PaidIn(more, u) = PaidIn(pay, u) + g[n + 1]
    BY <1>6, <1>8, Zenon
  <1>11. PaidOut(more, u) = PaidOut(pay, u) + k[n + 1]
    BY <1>7, <1>9, Zenon
  <1> QED  BY <1>5, <1>10, <1>11

-----------------------------------------------------------------------------
(* Debits are counted, and what they spent is a number.                    *)
LEMMA SpentTypes ==
    ASSUME NEW l \in LedgerType, NEW w \in Seq(Withdrawal)
    PROVE  Spent(l, w) \in Int /\ \A i : DebitsIn(l, i) \in Int
  <1>1. ASSUME NEW i PROVE DebitsIn(l, i) \in Int
    <2> DEFINE f == [u \in Users |-> Cardinality(EntriesIn(l, u, "withdraw_debit", i))]
    <2>1. \A u \in Users : f[u] \in Int
      BY EntriesAreFinite, FS_CardinalityType
    <2>2. DebitsIn(l, i) = SumFunctionOnSet(f, Users)
      BY DEF DebitsIn, SumFunction
    <2> HIDE DEF f
    <2> QED  BY <2>1, <2>2, ExchangeAssumption, SumIsInt
  <1> DEFINE g == [i \in DOMAIN w |-> w[i].amount * DebitsIn(l, i)]
  <1>2. IsFiniteSet(DOMAIN w) /\ \A i \in DOMAIN w : w[i].amount \in Int
    BY RiskTypes
  <1>3. ASSUME NEW i \in DOMAIN w PROVE g[i] \in Int
    <2>1. PICK a \in Int, b \in Int : a = w[i].amount /\ b = DebitsIn(l, i)
      BY <1>1, <1>2
    <2>2. g[i] = a * b
      BY <2>1
    <2> QED  BY <2>2
  <1>4. Spent(l, w) = SumFunctionOnSet(g, DOMAIN w)
    BY DEF Spent, SumFunction
  <1> HIDE DEF g
  <1>5. Spent(l, w) \in Int
    BY <1>2, <1>3, <1>4, SumIsInt
  <1> QED  BY <1>1, <1>5

(* l and m debit the same withdrawals.                                     *)
SameDebits(l, m) == \A u \in Users : \A i : EntriesIn(m, u, "withdraw_debit", i) = EntriesIn(l, u, "withdraw_debit", i)

(* Equal debits of the same amounts have the same sum.                     *)
LEMMA SpentKept ==
    ASSUME NEW l, NEW m, SameDebits(l, m), NEW w, NEW x, RequestsKept(w, x)
    PROVE  Spent(m, x) = Spent(l, w) /\ \A i : DebitsIn(m, i) = DebitsIn(l, i)
  <1>1. \A i : DebitsIn(m, i) = DebitsIn(l, i)
    <2> SUFFICES ASSUME NEW i PROVE DebitsIn(m, i) = DebitsIn(l, i)
      OBVIOUS
    <2>1. [u \in Users |-> Cardinality(EntriesIn(m, u, "withdraw_debit", i))]
            = [u \in Users |-> Cardinality(EntriesIn(l, u, "withdraw_debit", i))]
      BY DEF SameDebits
    <2> QED  BY <2>1, Zenon DEF DebitsIn
  <1>2. DOMAIN x = DOMAIN w /\ \A i \in DOMAIN w : x[i].amount = w[i].amount
    BY DEF RequestsKept
  <1>3. [i \in DOMAIN x |-> x[i].amount * DebitsIn(m, i)] = [i \in DOMAIN w |-> w[i].amount * DebitsIn(l, i)]
    BY <1>1, <1>2
  <1> QED  BY <1>1, <1>3, Zenon DEF Spent

(* A new request has spent nothing.                                        *)
LEMMA SpentNew ==
    ASSUME NEW l \in LedgerType, NEW m, SameDebits(l, m), NEW w \in Seq(Withdrawal), NEW r,
           NEW x, Requested(w, r, x), \A u \in Users : EntriesIn(l, u, "withdraw_debit", Len(w) + 1) = {}
    PROVE  Spent(m, x) = Spent(l, w)
  <1> DEFINE f == [i \in DOMAIN w |-> w[i].amount * DebitsIn(l, i)]
             h == [i \in DOMAIN x |-> x[i].amount * DebitsIn(m, i)]
  <1>1. RequestsKept(w, w)
    BY DEF RequestsKept
  <1>2. \A i : DebitsIn(m, i) = DebitsIn(l, i) /\ DebitsIn(l, i) \in Int
    BY <1>1, SpentKept, SpentTypes
  <1>3. PICK n \in Nat : n = Len(w) /\ DOMAIN w = 1..n
    OBVIOUS
  <1>4. /\ DOMAIN x = 1..(n + 1) /\ x[n + 1] = r /\ n + 1 \in DOMAIN x
        /\ \A i \in 1..n : x[i] = w[i] /\ i \in DOMAIN x /\ i \in DOMAIN w /\ w[i] \in Withdrawal
        /\ r \in Withdrawal
    BY <1>3 DEF Requested
  <1>5. r.amount \in Int /\ \A q \in Withdrawal : q.amount \in Int
    <2>1. \A q \in Withdrawal : q.amount \in Nat
      BY WithdrawAssumption DEF Withdrawal
    <2> QED  BY <1>4, <2>1
  <1>6. DebitsIn(l, n + 1) = 0
    <2> DEFINE c == [u \in Users |-> Cardinality(EntriesIn(l, u, "withdraw_debit", n + 1))]
    <2>1. \A u \in Users : c[u] = 0
      BY <1>3, FS_EmptySet
    <2>2. DebitsIn(l, n + 1) = SumFunctionOnSet(c, Users)
      BY DEF DebitsIn, SumFunction
    <2> HIDE DEF c
    <2> QED  BY <2>1, <2>2, ExchangeAssumption, SumOfZeros
  <1>7. h[n + 1] = 0
    <2>1. PICK a \in Int : a = r.amount
      BY <1>5
    <2>2. h[n + 1] = a * 0
      BY <1>2, <1>4, <1>6, <2>1
    <2> QED  BY <2>2
  <1>8. ASSUME NEW i \in 1..n PROVE f[i] \in Int /\ h[i] = f[i]
    <2>1. PICK a \in Int, b \in Int : a = w[i].amount /\ b = DebitsIn(l, i)
      BY <1>2, <1>4, <1>5
    <2>2. f[i] = a * b /\ h[i] = a * b
      BY <1>2, <1>4, <2>1
    <2> QED  BY <2>2
  <1>9. Spent(l, w) = SumFunctionOnSet(f, 1..n) /\ Spent(m, x) = SumFunctionOnSet(h, 1..(n + 1))
    BY <1>3, <1>4 DEF Spent, SumFunction
  <1> HIDE DEF f, h
  <1>10. SumFunctionOnSet(h, 1..(n + 1)) = SumFunctionOnSet(f, 1..n) + h[n + 1]
    <2>1. h[n + 1] \in Int
      BY <1>7
    <2> QED  BY <1>8, <2>1, SumAppended
  <1>11. SumFunctionOnSet(f, 1..n) \in Int
    BY <1>9, SpentTypes
  <1> QED  BY <1>7, <1>9, <1>10, <1>11

(* A debit spends the amount of its request.                               *)
LEMMA SpentMore ==
    ASSUME NEW l \in LedgerType, NEW w \in Seq(Withdrawal), NEW x, RequestsKept(w, x),
           NEW u \in Users, NEW row, NEW op, NEW m, Wrote(l, u, row, op, m),
           NEW i \in DOMAIN w, op.type = "withdraw_debit", op.refID = i
    PROVE  Spent(m, x) = Spent(l, w) + w[i].amount
  <1> DEFINE f == [j \in DOMAIN w |-> w[j].amount * DebitsIn(l, j)]
             h == [j \in DOMAIN w |-> w[j].amount * DebitsIn(m, j)]
             c == [v \in Users |-> Cardinality(EntriesIn(l, v, "withdraw_debit", i))]
             d == [v \in Users |-> Cardinality(EntriesIn(m, v, "withdraw_debit", i))]
  <1>1. m \in LedgerType /\ IsFiniteSet(Users)
    BY ExchangeAssumption DEF Wrote
  <1>2. /\ \A v \in Users : \A id : v # u \/ id # i
              => EntriesIn(m, v, "withdraw_debit", id) = EntriesIn(l, v, "withdraw_debit", id)
        /\ EntriesIn(m, u, "withdraw_debit", i) = EntriesIn(l, u, "withdraw_debit", i) \union {Len(l.journal[u]) + 1}
    <2>1. /\ \A v \in Users : \A type, id : v # u \/ type # op.type \/ id # op.refID
                => EntriesIn(m, v, type, id) = EntriesIn(l, v, type, id)
          /\ EntriesIn(m, u, op.type, op.refID) = EntriesIn(l, u, op.type, op.refID) \union {Len(l.journal[u]) + 1}
      BY WroteEntries
    <2> QED  BY <2>1
  <1>3. Cardinality(EntriesIn(m, u, "withdraw_debit", i)) = Cardinality(EntriesIn(l, u, "withdraw_debit", i)) + 1
    <2>1. PICK E, n : E = EntriesIn(l, u, "withdraw_debit", i) /\ n = Len(l.journal[u]) + 1
      OBVIOUS
    <2>2. \A k \in E : k < n
      BY <2>1, EarlierEntries
    <2>3. IsFiniteSet(E) /\ E \subseteq Nat /\ n \in Nat
      <3>1. l.journal[u] \in Seq(Entry)
        BY DEF LedgerType
      <3> QED  BY <2>1, <3>1, EntriesAreFinite
    <2>4. n \notin E
      BY <2>2, <2>3
    <2>5. Cardinality(E \union {n}) = Cardinality(E) + 1
      BY <2>3, <2>4, FS_AddElement
    <2> QED  BY <1>2, <2>1, <2>5
  <1>4. \A v \in Users : c[v] \in Int /\ d[v] \in Int
    BY <1>1, EntriesAreFinite, FS_CardinalityType
  <1>5. d[u] - c[u] = 1
    <2>1. d[u] = c[u] + 1 /\ c[u] \in Int
      BY <1>3, <1>4
    <2> QED  BY <2>1
  <1>6. \A v \in Users : v # u => d[v] = c[v]
    BY <1>2
  <1>7. DebitsIn(l, i) = SumFunctionOnSet(c, Users) /\ DebitsIn(m, i) = SumFunctionOnSet(d, Users)
    BY DEF DebitsIn, SumFunction
  <1> HIDE DEF c, d
  <1>8. SumFunctionOnSet(d, Users) = SumFunctionOnSet(c, Users) + (d[u] - c[u])
    BY <1>1, <1>4, <1>6, SumWithOther
  <1>9. PICK D \in Int : D = DebitsIn(l, i) /\ DebitsIn(m, i) = D + 1
    <2>1. DebitsIn(l, i) \in Int
      BY SpentTypes
    <2> QED  BY <1>5, <1>7, <1>8, <2>1
  <1>10. \A j : j # i => DebitsIn(m, j) = DebitsIn(l, j)
    <2> SUFFICES ASSUME NEW j, j # i PROVE DebitsIn(m, j) = DebitsIn(l, j)
      OBVIOUS
    <2>1. [v \in Users |-> Cardinality(EntriesIn(m, v, "withdraw_debit", j))]
            = [v \in Users |-> Cardinality(EntriesIn(l, v, "withdraw_debit", j))]
      BY <1>2
    <2> QED  BY <2>1, Zenon DEF DebitsIn
  <1>11. IsFiniteSet(DOMAIN w) /\ \A j \in DOMAIN w : w[j].amount \in Int
    BY RiskTypes
  <1>12. \A k : DebitsIn(l, k) \in Int /\ DebitsIn(m, k) \in Int
    BY <1>1, SpentTypes
  <1>13. ASSUME NEW j \in DOMAIN w PROVE f[j] \in Int /\ h[j] \in Int
    <2>1. PICK a \in Int, p \in Int, q \in Int : a = w[j].amount /\ p = DebitsIn(l, j) /\ q = DebitsIn(m, j)
      BY <1>11, <1>12
    <2>2. f[j] = a * p /\ h[j] = a * q
      BY <2>1
    <2> QED  BY <2>2
  <1>14. \A j \in DOMAIN w : j # i => h[j] = f[j]
    BY <1>10
  <1>15. PICK a \in Int : a = w[i].amount
    BY <1>11
  <1>16. h[i] - f[i] = a
    <2>1. f[i] = a * D /\ h[i] = a * (D + 1)
      BY <1>9, <1>15
    <2>2. a * (D + 1) = a * D + a /\ a * D \in Int
      OBVIOUS
    <2> QED  BY <2>1, <2>2
  <1>17. Spent(l, w) = SumFunctionOnSet(f, DOMAIN w)
    BY DEF Spent, SumFunction
  <1>18. Spent(m, x) = SumFunctionOnSet(h, DOMAIN w)
    <2>1. DOMAIN x = DOMAIN w /\ \A j \in DOMAIN w : x[j].amount = w[j].amount
      BY DEF RequestsKept
    <2>2. [j \in DOMAIN x |-> x[j].amount * DebitsIn(m, j)] = h
      BY <2>1
    <2> HIDE DEF h
    <2>3. Spent(m, x) = SumFunction(h)
      BY <2>2, Zenon DEF Spent
    <2>4. DOMAIN h = DOMAIN w
      BY DEF h
    <2> QED  BY <2>3, <2>4 DEF SumFunction
  <1> HIDE DEF f, h
  <1>19. SumFunctionOnSet(h, DOMAIN w) = SumFunctionOnSet(f, DOMAIN w) + (h[i] - f[i])
    BY <1>11, <1>13, <1>14, SumWithOther
  <1> QED  BY <1>15, <1>16, <1>17, <1>18, <1>19, Zenon

(* What a booking of withdrawals or payments does, all in one.             *)
BookingEffect(l, u, op, m) ==
    /\ Wrote(l, u, l.account[u], op, m) /\ LedgerGood(m) /\ Extends(l, m, {op.type})
    /\ \A d \in Deposits : SameEntriesOf(l, m, d)
    /\ IsFiniteSet(BookedOf(m))
    /\ Slack(m, u) = Slack(l, u) + deltaAvail(op)
    /\ \A v \in Users : v # u => Slack(m, v) = Slack(l, v)
    /\ Surplus(m) = Surplus(l) + Change(op)
    /\ AllReplay(l) => AllReplay(m)

(* applyLedgerTx has that effect.                                          *)
LEMMA Booking ==
    ASSUME NEW l, LedgerGood(l), IsFiniteSet(BookedOf(l)), NEW u \in Users, NEW op \in LedgerOp,
           op.type \notin DepositTypes, CanApply(l.account[u], op), NEW m, m = applyLedgerTx(l, u, op)
    PROVE  BookingEffect(l, u, op, m)
  <1>1. l \in LedgerType
    BY DEF LedgerGood
  <1>2. PICK row \in Account : row = l.account[u]
    BY <1>1 DEF LedgerType
  <1>3. m = WriteLedger(l, u, row, op) /\ CanApply(row, op)
    BY <1>2 DEF applyLedgerTx
  <1>4. Wrote(l, u, row, op, m)
    BY <1>1, <1>3, LedgerWritten
  <1>5. Wrote(l, u, l.account[u], op, m)
    BY <1>2, <1>4
  <1>6. op.type \notin {"deposit_credit", "deposit_reverse"}
    BY DEF DepositTypes
  <1>7. LedgerGood(m) /\ \A d \in Deposits : SameEntriesOf(l, m, d)
    BY <1>5, <1>6, OtherWrite
  <1>8. Extends(l, m, {op.type})
    BY <1>1, <1>4, WroteExtends
  <1>9. /\ IsFiniteSet(BookedOf(m))
        /\ Slack(m, u) = Slack(l, u) + deltaAvail(op)
        /\ \A v \in Users : v # u => Slack(m, v) = Slack(l, v)
        /\ Surplus(m) = Surplus(l) + Change(op)
    BY <1>5, <1>6, OtherWeighed
  <1>10. AllReplay(l) => AllReplay(m)
    BY <1>1, ApplyReplays DEF AllReplay
  <1> QED  BY <1>5, <1>7, <1>8, <1>9, <1>10 DEF BookingEffect

(* The amounts that the operations move.                                   *)
LEMMA OtherOps ==
    ASSUME NEW i, NEW a \in Nat
    PROVE  /\ deltaAvail(freezeWithdraw(i, a)) = 0 - a /\ Change(freezeWithdraw(i, a)) = 0
           /\ deltaAvail(unfreezeWithdraw(i, a)) = a /\ Change(unfreezeWithdraw(i, a)) = 0
           /\ deltaAvail(debitWithdraw(i, a)) = 0 /\ Change(debitWithdraw(i, a)) = 0 - a
           /\ deltaAvail(debitPayment(i, a)) = 0 - a /\ Change(debitPayment(i, a)) = 0 - a
           /\ deltaAvail(creditPayment(i, a)) = a /\ Change(creditPayment(i, a)) = a
           /\ freezeWithdraw(i, a).type = "withdraw_freeze"
           /\ unfreezeWithdraw(i, a).type = "withdraw_unfreeze"
           /\ debitWithdraw(i, a).type = "withdraw_debit" /\ debitWithdraw(i, a).refID = i
           /\ debitPayment(i, a).type = "payment_debit"
           /\ creditPayment(i, a).type = "payment_credit"
  <1>1. /\ deltaAvail(freezeWithdraw(i, a)) = 0 - a /\ deltaFrozen(freezeWithdraw(i, a)) = a
        /\ deltaAvail(unfreezeWithdraw(i, a)) = a /\ deltaFrozen(unfreezeWithdraw(i, a)) = 0 - a
        /\ deltaAvail(debitWithdraw(i, a)) = 0 /\ deltaFrozen(debitWithdraw(i, a)) = 0 - a
    BY DEF freezeWithdraw, unfreezeWithdraw, debitWithdraw, deltaAvail, deltaFrozen
  <1>2. /\ deltaAvail(debitPayment(i, a)) = 0 - a /\ deltaFrozen(debitPayment(i, a)) = 0
        /\ deltaAvail(creditPayment(i, a)) = a /\ deltaFrozen(creditPayment(i, a)) = 0
    BY DEF debitPayment, creditPayment, deltaAvail, deltaFrozen
  <1>3. /\ freezeWithdraw(i, a).type = "withdraw_freeze"
        /\ unfreezeWithdraw(i, a).type = "withdraw_unfreeze"
        /\ debitWithdraw(i, a).type = "withdraw_debit" /\ debitWithdraw(i, a).refID = i
        /\ debitPayment(i, a).type = "payment_debit"
        /\ creditPayment(i, a).type = "payment_credit"
    BY DEF freezeWithdraw, unfreezeWithdraw, debitWithdraw, debitPayment, creditPayment
  <1> QED  BY <1>1, <1>2, <1>3 DEF Change

-----------------------------------------------------------------------------
(* NoOverdraft and BooksBalance as one invariant of ledger, requests,      *)
(* transactions and payments.                                              *)
Balanced(l, w, ch, pay) ==
    /\ \A u \in Users : Safe(l, w, ch, pay, u)
    /\ Kept(l, w)
    /\ NewUsers = {} => AllReplay(l)

(* What it is made of.                                                     *)
WellFormed(l, w, pay) ==
    LedgerGood(l) /\ IsFiniteSet(BookedOf(l)) /\ w \in Seq(Withdrawal) /\ pay \in Seq(PaymentRow)

(* The sums that are weighed are integers.                                 *)
LEMMA Terms ==
    ASSUME NEW l, NEW w, NEW pay, WellFormed(l, w, pay)
    PROVE  /\ l \in LedgerType /\ w \in Seq(Withdrawal) /\ RequestsKept(w, w)
           /\ Surplus(l) \in Int /\ Spent(l, w) \in Int /\ SumFunction(Opening) \in Int
           /\ \A ch : \A u \in Users :
                 /\ AtRisk(w, ch, u) \in Int /\ Slack(l, u) \in Int
                 /\ Opening[u] \in Int /\ PaidIn(pay, u) \in Int /\ PaidOut(pay, u) \in Int
  <1>1. l \in LedgerType /\ w \in Seq(Withdrawal) /\ pay \in Seq(PaymentRow) /\ IsFiniteSet(BookedOf(l))
    BY DEF WellFormed, LedgerGood
  <1>2. RequestsKept(w, w)
    BY <1>1 DEF RequestsKept
  <1>3. Surplus(l) \in Int /\ \A u \in Users : Slack(l, u) \in Int
    BY <1>1, SumTypes
  <1>4. Spent(l, w) \in Int
    BY <1>1, SpentTypes
  <1>5. Opening \in [Users -> Nat] /\ \A u \in Users : Opening[u] \in Int
    BY LedgerAssumption
  <1>6. SumFunctionOnSet(Opening, Users) \in Int
    BY <1>5, ExchangeAssumption, SumIsInt
  <1>7. SumFunction(Opening) \in Int
    BY <1>5, <1>6 DEF SumFunction
  <1>8. ASSUME NEW ch, NEW u \in Users
        PROVE  AtRisk(w, ch, u) \in Int /\ PaidIn(pay, u) \in Int /\ PaidOut(pay, u) \in Int
    <2>1. AtRisk(w, ch, u) \in Int
      BY <1>1, RiskTypes
    <2>2. PaidIn(pay, u) \in Int /\ PaidOut(pay, u) \in Int
      BY <1>1, PaidTypes
    <2> QED  BY <2>1, <2>2
  <1> QED  BY <1>1, <1>2, <1>3, <1>4, <1>5, <1>7, <1>8

(* Whoever is not better off stays safe.                                   *)
LEMMA StaysSafe ==
    ASSUME NEW l, NEW w, NEW ch, NEW pay, WellFormed(l, w, pay), NEW u \in Users, Safe(l, w, ch, pay, u),
           NEW m, NEW x, NEW after, WellFormed(m, x, pay),
           AtRisk(x, after, u) + Slack(m, u) <= AtRisk(w, ch, u) + Slack(l, u)
    PROVE  Safe(m, x, after, pay, u)
  <1>1. PICK R \in Int, S \in Int, O \in Int, p \in Int, q \in Int :
          R = AtRisk(w, ch, u) /\ S = Slack(l, u) /\ O = Opening[u] /\ p = PaidIn(pay, u) /\ q = PaidOut(pay, u)
    BY Terms
  <1>2. PICK Y \in Int, Z \in Int : Y = AtRisk(x, after, u) /\ Z = Slack(m, u)
    BY Terms
  <1> QED  BY <1>1, <1>2 DEF Safe

(* The books stay balanced when surplus and spending do not grow.          *)
LEMMA StaysKept ==
    ASSUME NEW l, NEW w, NEW pay, WellFormed(l, w, pay), Kept(l, w),
           NEW m, NEW x, NEW more, WellFormed(m, x, more), AtMost(Surplus(m) + Spent(m, x), Surplus(l) + Spent(l, w))
    PROVE  Kept(m, x)
  <1>1. PICK s \in Int, z \in Int, a \in Int, b \in Int, t \in Int :
          s = Surplus(l) /\ z = Surplus(m) /\ a = Spent(l, w) /\ b = Spent(m, x) /\ t = SumFunction(Opening)
    BY Terms
  <1> QED  BY <1>1 DEF Kept, AtMost

-----------------------------------------------------------------------------
(* A deposit keeps it.                                                     *)
LEMMA DepositKeepsBalance ==
    ASSUME NEW l, NEW w, NEW ch, NEW pay, WellFormed(l, w, pay), Balanced(l, w, ch, pay),
           NEW m, DepositEffect(l, m), LedgerGood(m)
    PROVE  Balanced(m, w, ch, pay) /\ WellFormed(m, w, pay)
  <1>1. Extends(l, m, DepositTypes) /\ NotHeavier(l, m)
    BY DEF DepositEffect
  <1>2. WellFormed(m, w, pay)
    BY <1>1 DEF WellFormed, NotHeavier
  <1>3. ASSUME NEW u \in Users PROVE Safe(m, w, ch, pay, u)
    <2>1. PICK R \in Int, S \in Int, Z \in Int : R = AtRisk(w, ch, u) /\ S = Slack(l, u) /\ Z = Slack(m, u)
      BY <1>2, Terms
    <2>2. Z <= S
      BY <1>1, <2>1 DEF NotHeavier, AtMost
    <2>3. AtRisk(w, ch, u) + Slack(m, u) <= AtRisk(w, ch, u) + Slack(l, u)
      BY <2>1, <2>2
    <2>4. Safe(l, w, ch, pay, u)
      BY DEF Balanced
    <2> QED  BY <1>2, <2>3, <2>4, StaysSafe
  <1>4. SameDebits(l, m)
    <2>1. "withdraw_debit" \notin DepositTypes
      BY DEF DepositTypes
    <2> QED  BY <1>1, <2>1, ExtendsEntries DEF SameDebits
  <1>5. RequestsKept(w, w)
    BY Terms
  <1>6. Spent(m, w) = Spent(l, w)
    BY <1>4, <1>5, SpentKept
  <1>7. PICK s \in Int, z \in Int, a \in Int : s = Surplus(l) /\ z = Surplus(m) /\ a = Spent(l, w)
    BY <1>2, Terms
  <1>8. AtMost(Surplus(m) + Spent(m, w), Surplus(l) + Spent(l, w))
    BY <1>1, <1>6, <1>7 DEF NotHeavier, AtMost
  <1>9. Kept(m, w)
    BY <1>2, <1>8, StaysKept DEF Balanced
  <1>10. NewUsers = {} => AllReplay(m)
    BY DEF Balanced, DepositEffect
  <1> QED  BY <1>2, <1>3, <1>9, <1>10 DEF Balanced

(* So do steps of the withdrawals that book nothing, ...                   *)
LEMMA QuietKeepsBalance ==
    ASSUME NEW l, NEW w, NEW ch, NEW pay, WellFormed(l, w, pay), Balanced(l, w, ch, pay),
           NEW x, RequestsKept(w, x), NEW after, NoneReopened(w, ch, x, after)
    PROVE  Balanced(l, x, after, pay) /\ WellFormed(l, x, pay)
  <1>1. WellFormed(l, x, pay)
    BY DEF WellFormed, RequestsKept
  <1>2. ASSUME NEW u \in Users PROVE Safe(l, x, after, pay, u)
    <2>1. w \in Seq(Withdrawal) /\ Slack(l, u) \in Int
      BY Terms
    <2>2. PICK R \in Int, Y \in Int : R = AtRisk(w, ch, u) /\ Y = AtRisk(x, after, u) /\ Y <= R
      BY <2>1, RiskKept
    <2>3. AtRisk(x, after, u) + Slack(l, u) <= AtRisk(w, ch, u) + Slack(l, u)
      BY <2>1, <2>2
    <2>4. Safe(l, w, ch, pay, u)
      BY DEF Balanced
    <2> QED  BY <1>1, <2>3, <2>4, StaysSafe
  <1>3. SameDebits(l, l)
    BY DEF SameDebits
  <1>4. Spent(l, x) = Spent(l, w)
    BY <1>3, SpentKept
  <1>5. Kept(l, x)
    BY <1>4 DEF Balanced, Kept
  <1> QED  BY <1>1, <1>2, <1>5 DEF Balanced

(* ... a freeze, for a new request or for one that is there, ...           *)
LEMMA FreezeKeepsBalance ==
    ASSUME NEW l, NEW w, NEW ch, NEW pay, WellFormed(l, w, pay), Balanced(l, w, ch, pay),
           NEW u \in Users, NEW i, NEW a \in Nat, NEW m, BookingEffect(l, u, freezeWithdraw(i, a), m),
           NEW x, \/ x = w
                  \/ /\ \E r : r.user = u /\ r.amount = a /\ Requested(w, r, x)
                     /\ \A v \in Users : EntriesIn(l, v, "withdraw_debit", Len(w) + 1) = {}
    PROVE  Balanced(m, x, ch, pay) /\ WellFormed(m, x, pay)
  <1>1. PICK op : op = freezeWithdraw(i, a) /\ op.type = "withdraw_freeze" /\ deltaAvail(op) = 0 - a /\ Change(op) = 0
    BY OtherOps
  <1>2. BookingEffect(l, u, op, m)
    BY <1>1
  <1>3. WellFormed(m, x, pay)
    <2>1. w \in Seq(Withdrawal)
      BY DEF WellFormed
    <2>2. x \in Seq(Withdrawal)
      BY <2>1 DEF Requested
    <2> QED  BY <1>2, <2>2 DEF WellFormed, BookingEffect
  <1>4. l \in LedgerType /\ w \in Seq(Withdrawal) /\ RequestsKept(w, w)
    BY Terms
  <1>5. ASSUME NEW v \in Users PROVE Safe(m, x, ch, pay, v)
    <2>1. PICK R \in Int, Y \in Int, S \in Int, Z \in Int :
            R = AtRisk(w, ch, v) /\ Y = AtRisk(x, ch, v) /\ S = Slack(l, v) /\ Z = Slack(m, v)
      BY <1>3, Terms
    <2>2. Z = IF v = u THEN S - a ELSE S
      BY <1>1, <1>2, <2>1 DEF BookingEffect
    <2>3. Y <= R + (IF v = u THEN a ELSE 0)
      <3>1. CASE x = w
        BY <2>1, <3>1
      <3>2. ASSUME NEW r, r.user = u, r.amount = a, Requested(w, r, x)
            PROVE  Y <= R + (IF v = u THEN a ELSE 0)
        <4>1. /\ v # r.user => AtRisk(x, ch, v) = AtRisk(w, ch, v)
              /\ AtRisk(x, ch, v) <= AtRisk(w, ch, v) + r.amount
          BY <1>4, <3>2, RiskAdded
        <4> QED  BY <2>1, <3>2, <4>1
      <3> QED  BY <3>1, <3>2
    <2>4. AtRisk(x, ch, v) + Slack(m, v) <= AtRisk(w, ch, v) + Slack(l, v)
      BY <2>1, <2>2, <2>3
    <2>5. Safe(l, w, ch, pay, v)
      BY DEF Balanced
    <2> QED  BY <1>3, <2>4, <2>5, StaysSafe
  <1>6. SameDebits(l, m)
    <2>1. Extends(l, m, {op.type}) /\ "withdraw_debit" \notin {op.type}
      BY <1>1, <1>2 DEF BookingEffect
    <2> QED  BY <2>1, ExtendsEntries DEF SameDebits
  <1>7. Spent(m, x) = Spent(l, w)
    <2>1. CASE x = w
      BY <1>4, <1>6, <2>1, SpentKept
    <2>2. ASSUME NEW r, Requested(w, r, x), \A v \in Users : EntriesIn(l, v, "withdraw_debit", Len(w) + 1) = {}
          PROVE  Spent(m, x) = Spent(l, w)
      BY <1>4, <1>6, <2>2, SpentNew
    <2> QED  BY <2>1, <2>2
  <1>8. PICK s \in Int, b \in Int : s = Surplus(l) /\ b = Spent(l, w)
    BY Terms
  <1>9. Surplus(m) = s
    BY <1>1, <1>2, <1>8 DEF BookingEffect
  <1>10. AtMost(Surplus(m) + Spent(m, x), Surplus(l) + Spent(l, w))
    BY <1>7, <1>8, <1>9 DEF AtMost
  <1>11. Kept(m, x)
    BY <1>3, <1>10, StaysKept DEF Balanced
  <1>12. NewUsers = {} => AllReplay(m)
    BY <1>2 DEF Balanced, BookingEffect
  <1> QED  BY <1>3, <1>5, <1>11, <1>12 DEF Balanced

(* ... the unfreeze of a request that is settled without a transaction, ...*)
LEMMA RejectKeepsBalance ==
    ASSUME NEW l, NEW w, NEW ch, NEW pay, WellFormed(l, w, pay), Balanced(l, w, ch, pay),
           NEW i \in DOMAIN w, NEW u \in Users, u = w[i].user, NEW a \in Nat, a = w[i].amount,
           NEW m, BookingEffect(l, u, unfreezeWithdraw(i, a), m),
           NEW x, RequestsKept(w, x), NEW after, NoneReopened(w, ch, x, after),
           w[i].status \notin Settled, x[i].status \in Settled, after[i] = "none"
    PROVE  Balanced(m, x, after, pay) /\ WellFormed(m, x, pay)
  <1>1. PICK op : op = unfreezeWithdraw(i, a) /\ op.type = "withdraw_unfreeze" /\ deltaAvail(op) = a /\ Change(op) = 0
    BY OtherOps
  <1>2. BookingEffect(l, u, op, m)
    BY <1>1
  <1>3. WellFormed(m, x, pay)
    BY <1>2 DEF WellFormed, BookingEffect, RequestsKept
  <1>4. l \in LedgerType /\ w \in Seq(Withdrawal)
    BY Terms
  <1>5. ASSUME NEW v \in Users PROVE Safe(m, x, after, pay, v)
    <2>1. PICK R \in Int, Y \in Int, S \in Int, Z \in Int :
            R = AtRisk(w, ch, v) /\ Y = AtRisk(x, after, v) /\ S = Slack(l, v) /\ Z = Slack(m, v)
      BY <1>3, Terms
    <2>2. Z = IF v = u THEN S + a ELSE S
      BY <1>1, <1>2, <2>1 DEF BookingEffect
    <2>3. v = u => Y + a <= R
      BY <1>4, <2>1, RiskReleased
    <2>4. Y <= R
      BY <1>4, <2>1, RiskKept
    <2>5. AtRisk(x, after, v) + Slack(m, v) <= AtRisk(w, ch, v) + Slack(l, v)
      BY <2>1, <2>2, <2>3, <2>4
    <2>6. Safe(l, w, ch, pay, v)
      BY DEF Balanced
    <2> QED  BY <1>3, <2>5, <2>6, StaysSafe
  <1>6. SameDebits(l, m)
    <2>1. Extends(l, m, {op.type}) /\ "withdraw_debit" \notin {op.type}
      BY <1>1, <1>2 DEF BookingEffect
    <2> QED  BY <2>1, ExtendsEntries DEF SameDebits
  <1>7. Spent(m, x) = Spent(l, w)
    BY <1>6, SpentKept
  <1>8. PICK s \in Int, b \in Int : s = Surplus(l) /\ b = Spent(l, w)
    BY Terms
  <1>9. Surplus(m) = s
    BY <1>1, <1>2, <1>8 DEF BookingEffect
  <1>10. AtMost(Surplus(m) + Spent(m, x), Surplus(l) + Spent(l, w))
    BY <1>7, <1>8, <1>9 DEF AtMost
  <1>11. Kept(m, x)
    BY <1>3, <1>10, StaysKept DEF Balanced
  <1>12. NewUsers = {} => AllReplay(m)
    BY <1>2 DEF Balanced, BookingEffect
  <1> QED  BY <1>3, <1>5, <1>11, <1>12 DEF Balanced

(* ... and the debit of a request, which spends what it takes.             *)
LEMMA DebitKeepsBalance ==
    ASSUME NEW l, NEW w, NEW ch, NEW pay, WellFormed(l, w, pay), Balanced(l, w, ch, pay),
           NEW i \in DOMAIN w, NEW u \in Users, u = w[i].user, NEW a \in Nat, a = w[i].amount,
           NEW m, BookingEffect(l, u, debitWithdraw(i, a), m),
           NEW x, RequestsKept(w, x), NEW after, NoneReopened(w, ch, x, after)
    PROVE  Balanced(m, x, after, pay) /\ WellFormed(m, x, pay)
  <1>1. PICK op : /\ op = debitWithdraw(i, a) /\ op.type = "withdraw_debit" /\ op.refID = i
                  /\ deltaAvail(op) = 0 /\ Change(op) = 0 - a
    BY OtherOps
  <1>2. BookingEffect(l, u, op, m)
    BY <1>1
  <1>3. WellFormed(m, x, pay)
    BY <1>2 DEF WellFormed, BookingEffect, RequestsKept
  <1>4. l \in LedgerType /\ w \in Seq(Withdrawal)
    BY Terms
  <1>5. ASSUME NEW v \in Users PROVE Safe(m, x, after, pay, v)
    <2>1. PICK R \in Int, Y \in Int, S \in Int, Z \in Int :
            R = AtRisk(w, ch, v) /\ Y = AtRisk(x, after, v) /\ S = Slack(l, v) /\ Z = Slack(m, v)
      BY <1>3, Terms
    <2>2. Z = S
      BY <1>1, <1>2, <2>1 DEF BookingEffect
    <2>3. Y <= R
      BY <1>4, <2>1, RiskKept
    <2>4. AtRisk(x, after, v) + Slack(m, v) <= AtRisk(w, ch, v) + Slack(l, v)
      BY <2>1, <2>2, <2>3
    <2>5. Safe(l, w, ch, pay, v)
      BY DEF Balanced
    <2> QED  BY <1>3, <2>4, <2>5, StaysSafe
  <1>6. PICK s \in Int, b \in Int : s = Surplus(l) /\ b = Spent(l, w)
    BY Terms
  <1>7. Spent(m, x) = Spent(l, w) + w[i].amount
    <2>1. Wrote(l, u, l.account[u], op, m)
      BY <1>2 DEF BookingEffect
    <2> QED  BY <1>1, <1>4, <2>1, SpentMore
  <1>8. Surplus(m) = s - a
    BY <1>1, <1>2, <1>6 DEF BookingEffect
  <1>9. AtMost(Surplus(m) + Spent(m, x), Surplus(l) + Spent(l, w))
    BY <1>6, <1>7, <1>8 DEF AtMost
  <1>10. Kept(m, x)
    BY <1>3, <1>9, StaysKept DEF Balanced
  <1>11. NewUsers = {} => AllReplay(m)
    BY <1>2 DEF Balanced, BookingEffect
  <1> QED  BY <1>3, <1>5, <1>10, <1>11 DEF Balanced

(* A payment moves money from one account to the other.                    *)
LEMMA TransferKeepsBalance ==
    ASSUME NEW l, NEW w, NEW ch, NEW pay, WellFormed(l, w, pay), Balanced(l, w, ch, pay),
           NEW r, NEW more, Recorded(pay, r, more), NEW id,
           NEW payer \in Users, payer = r.payer, NEW payee \in Users, payee = r.account, NEW a \in Nat, a = r.amount,
           NEW k, BookingEffect(l, payer, debitPayment(id, a), k),
           NEW m, BookingEffect(k, payee, creditPayment(id, a), m)
    PROVE  Balanced(m, w, ch, more) /\ WellFormed(m, w, more)
  <1>1. PICK debit : /\ debit = debitPayment(id, a) /\ debit.type = "payment_debit"
                     /\ deltaAvail(debit) = 0 - a /\ Change(debit) = 0 - a
    BY OtherOps
  <1>2. PICK credit : /\ credit = creditPayment(id, a) /\ credit.type = "payment_credit"
                      /\ deltaAvail(credit) = a /\ Change(credit) = a
    BY OtherOps
  <1>3. BookingEffect(l, payer, debit, k) /\ BookingEffect(k, payee, credit, m)
    BY <1>1, <1>2
  <1>4. WellFormed(k, w, pay)
    BY <1>3 DEF WellFormed, BookingEffect
  <1>5. WellFormed(m, w, more)
    <2>1. pay \in Seq(PaymentRow)
      BY DEF WellFormed
    <2>2. more \in Seq(PaymentRow)
      BY <2>1 DEF Recorded
    <2> QED  BY <1>3, <2>2 DEF WellFormed, BookingEffect
  <1>6. ASSUME NEW v \in Users PROVE Safe(m, w, ch, more, v)
    <2>1. PICK R \in Int, S \in Int, O \in Int, p \in Int, q \in Int :
            R = AtRisk(w, ch, v) /\ S = Slack(l, v) /\ O = Opening[v] /\ p = PaidIn(pay, v) /\ q = PaidOut(pay, v)
      BY Terms
    <2>2. PICK T \in Int, Z \in Int : T = Slack(k, v) /\ Z = Slack(m, v)
      BY <1>4, <1>5, Terms
    <2>3. T = IF v = payer THEN S - a ELSE S
      BY <1>1, <1>3, <2>1, <2>2 DEF BookingEffect
    <2>4. Z = IF v = payee THEN T + a ELSE T
      BY <1>2, <1>3, <2>2 DEF BookingEffect
    <2>5. pay \in Seq(PaymentRow)
      BY DEF WellFormed
    <2>6. /\ PaidIn(more, v) = PaidIn(pay, v) + (IF r.account = v THEN r.amount ELSE 0)
          /\ PaidOut(more, v) = PaidOut(pay, v) + (IF r.payer = v THEN r.amount ELSE 0)
      BY <2>5, PaidMore
    <2>7. /\ PaidIn(more, v) = p + (IF v = payee THEN a ELSE 0)
          /\ PaidOut(more, v) = q + (IF v = payer THEN a ELSE 0)
      BY <2>1, <2>6
    <2>8. R + S <= O + p - q
      BY <2>1 DEF Balanced, Safe
    <2> QED  BY <2>1, <2>2, <2>3, <2>4, <2>7, <2>8 DEF Safe
  <1>7. SameDebits(l, m)
    <2>1. /\ Extends(l, k, {debit.type}) /\ "withdraw_debit" \notin {debit.type}
          /\ Extends(k, m, {credit.type}) /\ "withdraw_debit" \notin {credit.type}
      BY <1>1, <1>2, <1>3 DEF BookingEffect
    <2>2. SameDebits(l, k) /\ SameDebits(k, m)
      BY <2>1, ExtendsEntries DEF SameDebits
    <2> QED  BY <2>2 DEF SameDebits
  <1>8. RequestsKept(w, w)
    BY Terms
  <1>9. Spent(m, w) = Spent(l, w)
    BY <1>7, <1>8, SpentKept
  <1>10. PICK s \in Int, t \in Int, b \in Int : s = Surplus(l) /\ t = Surplus(k) /\ b = Spent(l, w)
    BY <1>4, Terms
  <1>11. Surplus(m) = s
    <2>1. t = s - a /\ Surplus(m) = t + a
      BY <1>1, <1>2, <1>3, <1>10 DEF BookingEffect
    <2> QED  BY <1>10, <2>1
  <1>12. AtMost(Surplus(m) + Spent(m, w), Surplus(l) + Spent(l, w))
    BY <1>9, <1>10, <1>11 DEF AtMost
  <1>13. Kept(m, w)
    BY <1>5, <1>12, StaysKept DEF Balanced
  <1>14. NewUsers = {} => AllReplay(m)
    BY <1>3 DEF Balanced, BookingEffect
  <1> QED  BY <1>5, <1>6, <1>13, <1>14 DEF Balanced

-----------------------------------------------------------------------------
(* The inductive invariant of the exchange: those of deposits and          *)
(* withdrawals, the rows of payments typed, and the balance.               *)
CallsTyped ==
    /\ merchant \in [Merchants -> [enabled : BOOLEAN, account : Users \union {NoAccount}]]
    /\ payment \in Seq(PaymentRow)
    /\ client \in [Clients -> PaymentRow \union {NoCall}]

ExchangeInv ==
    /\ State /\ WithdrawInv /\ CallsTyped
    /\ Balanced(ledger, withdraw, chain, payment)
    /\ PaymentsBooked(ledger, payment)
    /\ EventsKeyed(outbox) /\ EventsGood(outbox, payment)

(* The types of entries that payments write.                               *)
PaymentTypes == {"payment_debit", "payment_credit"}

(* Entries of other types leave the transfers of payments as they are.     *)
LEMMA BookedStays ==
    ASSUME NEW l, NEW m, NEW types, Extends(l, m, types), types \cap PaymentTypes = {},
           NEW pay, PaymentsBooked(l, pay)
    PROVE  PaymentsBooked(m, pay)
  <1>1. "payment_debit" \notin types /\ "payment_credit" \notin types
    BY DEF PaymentTypes
  <1>2. \A v \in Users : \A id : /\ EntriesIn(m, v, "payment_debit", id) = EntriesIn(l, v, "payment_debit", id)
                                 /\ EntriesIn(m, v, "payment_credit", id) = EntriesIn(l, v, "payment_credit", id)
    BY <1>1, ExtendsEntries
  <1>3. \A v \in Users : \A n \in DOMAIN l.journal[v] : m.journal[v][n] = l.journal[v][n]
    BY DEF Extends
  <1>4. ASSUME NEW i, NEW u, NEW v, NEW b, BookedTwice(l, i, u, v, b)
        PROVE  BookedTwice(m, i, u, v, b)
    <2>1. ASSUME NEW w \in Users
          PROVE  /\ Cardinality(EntriesIn(m, w, "payment_debit", i)) = (IF w = u THEN 1 ELSE 0)
                 /\ Cardinality(EntriesIn(m, w, "payment_credit", i)) = (IF w = v THEN 1 ELSE 0)
      BY <1>2, <1>4, Zenon DEF BookedTwice
    <2>2. ASSUME NEW w \in Users,
                 NEW n \in EntriesIn(m, w, "payment_debit", i) \union EntriesIn(m, w, "payment_credit", i)
          PROVE  m.journal[w][n].op.amount = b
      <3>1. n \in EntriesIn(l, w, "payment_debit", i) \union EntriesIn(l, w, "payment_credit", i)
        BY <1>2, <2>2, Zenon
      <3>2. n \in DOMAIN l.journal[w] /\ l.journal[w][n].op.amount = b
        BY <1>4, <3>1 DEF BookedTwice, EntriesIn
      <3> QED  BY <1>3, <3>2
    <2> QED  BY <2>1, <2>2 DEF BookedTwice
  <1>5. \A v \in Users : \A n \in DOMAIN m.journal[v] :
          m.journal[v][n].op.type \in PaymentTypes => m.journal[v][n].op.refID \in DOMAIN pay
    BY <1>1 DEF PaymentsBooked, Extends, PaymentTypes
  <1> QED  BY <1>4, <1>5 DEF PaymentsBooked, PaymentTypes

(* Its parts as the lemmas want them.                                      *)
LEMMA InvWellFormed ==
    ASSUME ExchangeInv
    PROVE  /\ State /\ WithdrawInv /\ CallsTyped /\ LedgerGood(ledger)
           /\ WellFormed(ledger, withdraw, payment) /\ Balanced(ledger, withdraw, chain, payment)
           /\ PaymentsBooked(ledger, payment)
  <1>1. /\ State /\ WithdrawInv /\ CallsTyped /\ Balanced(ledger, withdraw, chain, payment)
        /\ PaymentsBooked(ledger, payment)
    BY DEF ExchangeInv
  <1>2. LedgerGood(ledger) /\ IsFiniteSet(BookedOf(ledger))
    BY <1>1, BookedAreFinite
  <1>3. withdraw \in Seq(Withdrawal) /\ payment \in Seq(PaymentRow)
    BY <1>1, Facts DEF CallsTyped
  <1> QED  BY <1>1, <1>2, <1>3 DEF WellFormed

(* A step of the deposits.                                                 *)
LEMMA DepositsKeepInv ==
    ASSUME ExchangeInv, [DepositNext]_depositVars, UNCHANGED <<withdrawOnly, paymentOnly>>
    PROVE  ExchangeInv' /\ Extends(ledger, ledger', OtherTypes)
  <1>1. /\ State /\ WithdrawInv /\ CallsTyped
        /\ WellFormed(ledger, withdraw, payment) /\ Balanced(ledger, withdraw, chain, payment)
    BY InvWellFormed
  <1>2. UNCHANGED <<withdraw, broadcaster, handler, chain, tracked>> /\ UNCHANGED <<merchant, payment, client>>
    BY DEF withdrawOnly, paymentOnly
  <1>3. State'
    BY <1>1, StateNext
  <1>4. LedgerGood(ledger')
    BY <1>3 DEF State, DepositState
  <1>5. DepositEffect(ledger, ledger')
    BY <1>1, DepositStepEffect
  <1>6. WithdrawInv' /\ Extends(ledger, ledger', OtherTypes)
    <2>1. Extends(ledger, ledger', DepositTypes) /\ DepositTypes \subseteq OtherTypes
      BY <1>5 DEF DepositEffect, DepositTypes, OtherTypes, EntryTypes
    <2>2. Extends(ledger, ledger', OtherTypes)
      BY <2>1 DEF Extends
    <2>3. WithdrawInv'
      BY <1>1, <1>2, <2>2, WithdrawKept
    <2> QED  BY <2>2, <2>3
  <1>7. CallsTyped'
    BY <1>1, <1>2 DEF CallsTyped
  <1>8. Balanced(ledger', withdraw, chain, payment)
    BY <1>1, <1>4, <1>5, DepositKeepsBalance
  <1>9. Balanced(ledger, withdraw, chain, payment)'
    BY <1>2, <1>8
  <1>10. PaymentsBooked(ledger, payment)'
    <2>1. Extends(ledger, ledger', DepositTypes) /\ DepositTypes \cap PaymentTypes = {}
      BY <1>5 DEF DepositEffect, DepositTypes, PaymentTypes
    <2>2. PaymentsBooked(ledger', payment)
      BY <2>1, InvWellFormed, BookedStays
    <2> QED  BY <1>2, <2>2
  <1>11. EventsKeyed(outbox)' /\ EventsGood(outbox, payment)'
    <2>1. EventsKeyed(outbox) /\ EventsGood(outbox, payment) /\ payment' = payment
      BY <1>2 DEF ExchangeInv
    <2>2. DepositEventIn(outbox, outbox')
      BY <1>1, DepositEvents
    <2>3. CASE outbox' = outbox
      BY <2>1, <2>3
    <2>4. ASSUME NEW m \in Merchants, NEW d \in Deposits,
                 outbox' = InsertOutboxTx(outbox, m, EventDepositConfirmed, DepositKey(d))
          PROVE  EventsKeyed(outbox') /\ EventsGood(outbox', payment)
      BY <2>1, <2>4, InsertKeyed, DepositEventGood
    <2> QED  BY <2>1, <2>2, <2>3, <2>4 DEF DepositEventIn
  <1> QED  BY <1>3, <1>6, <1>7, <1>9, <1>10, <1>11 DEF ExchangeInv

(* A booking of withdrawals as the lemmas want it.                         *)
LEMMA BooksEffect ==
    ASSUME LedgerGood(ledger), IsFiniteSet(BookedOf(ledger)), NEW u \in Users, NEW op, Books(u, op), op.type \notin DepositTypes
    PROVE  BookingEffect(ledger, u, op, ledger')
  <1>1. op \in LedgerOp /\ CanApply(ledger.account[u], op) /\ ledger' = applyLedgerTx(ledger, u, op)
    BY DEF Books
  <1> QED  BY <1>1, Booking

(* A step of the withdrawals.                                              *)
LEMMA WithdrawalsKeepInv ==
    ASSUME ExchangeInv, [WithdrawNext]_withdrawVars, UNCHANGED <<outbox, depositOnly, paymentOnly>>
    PROVE  ExchangeInv'
  <1>1. /\ State /\ WithdrawInv /\ CallsTyped /\ LedgerGood(ledger)
        /\ WellFormed(ledger, withdraw, payment) /\ Balanced(ledger, withdraw, chain, payment)
    BY InvWellFormed
  <1>2. UNCHANGED <<outbox, deposit, binding, worker, merchant, payment, client>>
    BY DEF depositOnly, paymentOnly
  <1>3. WithdrawInv'
    BY <1>1, WithdrawInvNext
  <1>4. CallsTyped'
    BY <1>1, <1>2 DEF CallsTyped
  <1>5. NoneReopened(withdraw, chain, withdraw', chain')
    <2>1. ClosedStays
      BY <1>1, StepStaysClosed
    <2> QED  BY <2>1 DEF ClosedStays, Closed, NoneReopened, Rows
  <1>6. SUFFICES State' /\ Balanced(ledger', withdraw', chain', payment) /\ PaymentsBooked(ledger', payment)
    <2>1. ASSUME Balanced(ledger', withdraw', chain', payment) PROVE Balanced(ledger, withdraw, chain, payment)'
      BY <1>2, <2>1
    <2>2. ASSUME PaymentsBooked(ledger', payment) PROVE PaymentsBooked(ledger, payment)'
      BY <1>2, <2>2
    <2>3. EventsKeyed(outbox)' /\ EventsGood(outbox, payment)'
      BY <1>2 DEF ExchangeInv
    <2> QED  BY <1>3, <1>4, <2>1, <2>2, <2>3 DEF ExchangeInv
  <1>7. /\ IsFiniteSet(BookedOf(ledger)) /\ withdraw \in Seq(Withdrawal)
        /\ \A i \in Rows : i \in DOMAIN withdraw /\ withdraw[i].user \in Users /\ withdraw[i].amount \in Nat
    BY <1>1, Facts DEF WellFormed, Rows
  <1>8. ASSUME NEW u \in Users, NEW op, BookingEffect(ledger, u, op, ledger'), op.type \notin PaymentTypes
        PROVE  State' /\ PaymentsBooked(ledger', payment)
    <2>1. UNCHANGED <<deposit, binding, worker>> /\ LedgerGood(ledger') /\ \A d \in Deposits : SameEntriesOf(ledger, ledger', d)
      BY <1>2, <1>8 DEF BookingEffect
    <2>2. \A d \in Deposits : Agree(ledger, deposit, outbox', binding, d)
      BY <1>1, <1>2 DEF State, DepositState
    <2>3. Extends(ledger, ledger', {op.type}) /\ {op.type} \cap PaymentTypes = {}
      BY <1>8 DEF BookingEffect
    <2>4. PaymentsBooked(ledger', payment)
      BY <2>3, InvWellFormed, BookedStays
    <2>5. State'
      BY <1>1, <2>1, <2>2, StateKept
    <2> QED  BY <2>4, <2>5
  <1>9. CASE Quiet
    <2>1. ledger' = ledger /\ RequestsKept(withdraw, withdraw')
      BY <1>9 DEF Quiet
    <2>2. State'
      BY <1>1, <1>2, <2>1 DEF State
    <2>3. Balanced(ledger, withdraw', chain', payment)
      BY <1>1, <1>5, <2>1, QuietKeepsBalance
    <2>4. PaymentsBooked(ledger, payment)
      BY InvWellFormed
    <2> QED  BY <2>1, <2>2, <2>3, <2>4
  <1>10. ASSUME NEW u \in Users, NEW i \in Ids, NEW a \in Nat, Creates(u, i, a) \/ Repeats(u, i, a)
         PROVE  State' /\ Balanced(ledger', withdraw', chain', payment) /\ PaymentsBooked(ledger', payment)
    <2>1. /\ Books(u, freezeWithdraw(i, a)) /\ freezeWithdraw(i, a).type \notin DepositTypes
          /\ freezeWithdraw(i, a).type \notin PaymentTypes
      BY <1>10, OtherOps DEF Creates, Repeats, DepositTypes, PaymentTypes
    <2>2. BookingEffect(ledger, u, freezeWithdraw(i, a), ledger')
      BY <1>1, <1>7, <2>1, BooksEffect
    <2>3. \A v \in Users : EntriesIn(ledger, v, "withdraw_debit", Len(withdraw) + 1) = {}
      <3>1. Rows = 1..Len(withdraw) /\ Len(withdraw) \in Nat
        BY <1>1, Facts
      <3>2. Len(withdraw) + 1 \notin Rows
        BY <3>1
      <3>3. \A v \in Users : \A n \in DOMAIN ledger.journal[v] :
              ledger.journal[v][n].op.type = "withdraw_debit" => ledger.journal[v][n].op.refID \in Rows
        BY <1>1 DEF WithdrawInv, EntriesJustified, JustifiedEntry
      <3> QED  BY <3>2, <3>3 DEF EntriesIn
    <2>4. \/ withdraw' = withdraw
          \/ /\ \E r : r.user = u /\ r.amount = a /\ Requested(withdraw, r, withdraw')
             /\ \A v \in Users : EntriesIn(ledger, v, "withdraw_debit", Len(withdraw) + 1) = {}
      BY <1>10, <2>3 DEF Creates, Repeats, Requested
    <2>5. Balanced(ledger', withdraw', chain, payment)
      BY <1>1, <2>2, <2>4, FreezeKeepsBalance
    <2>6. chain' = chain
      BY <1>10 DEF Creates, Repeats
    <2> QED  BY <1>8, <2>1, <2>2, <2>5, <2>6
  <1>11. ASSUME NEW i \in Rows, Rejects(i)
         PROVE  State' /\ Balanced(ledger', withdraw', chain', payment) /\ PaymentsBooked(ledger', payment)
    <2>1. PICK u \in Users, a \in Nat : u = withdraw[i].user /\ a = withdraw[i].amount
      BY <1>7
    <2>2. /\ Books(u, unfreezeWithdraw(i, a)) /\ unfreezeWithdraw(i, a).type \notin DepositTypes
          /\ unfreezeWithdraw(i, a).type \notin PaymentTypes
      BY <1>11, <2>1, OtherOps DEF Rejects, DepositTypes, PaymentTypes
    <2>3. BookingEffect(ledger, u, unfreezeWithdraw(i, a), ledger')
      BY <1>1, <1>7, <2>2, BooksEffect
    <2>4. /\ RequestsKept(withdraw, withdraw') /\ i \in DOMAIN withdraw
          /\ withdraw[i].status \notin Settled /\ withdraw'[i].status \in Settled /\ chain'[i] = "none"
      BY <1>7, <1>11 DEF Rejects
    <2>5. Balanced(ledger', withdraw', chain', payment)
      BY <1>1, <1>5, <2>1, <2>3, <2>4, RejectKeepsBalance
    <2> QED  BY <1>8, <2>2, <2>3, <2>5
  <1>12. ASSUME NEW i \in Rows, Debits(i)
         PROVE  State' /\ Balanced(ledger', withdraw', chain', payment) /\ PaymentsBooked(ledger', payment)
    <2>1. PICK u \in Users, a \in Nat : u = withdraw[i].user /\ a = withdraw[i].amount
      BY <1>7
    <2>2. /\ Books(u, debitWithdraw(i, a)) /\ debitWithdraw(i, a).type \notin DepositTypes
          /\ debitWithdraw(i, a).type \notin PaymentTypes
      BY <1>12, <2>1, OtherOps DEF Debits, DepositTypes, PaymentTypes
    <2>3. BookingEffect(ledger, u, debitWithdraw(i, a), ledger')
      BY <1>1, <1>7, <2>2, BooksEffect
    <2>4. RequestsKept(withdraw, withdraw') /\ i \in DOMAIN withdraw
      BY <1>7, <1>12 DEF Debits
    <2>5. Balanced(ledger', withdraw', chain', payment)
      BY <1>1, <1>5, <2>1, <2>3, <2>4, DebitKeepsBalance
    <2> QED  BY <1>8, <2>2, <2>3, <2>5
  <1>13. WithdrawEffect
    BY <1>1, EveryStepHasEffect
  <1> QED  BY <1>9, <1>10, <1>11, <1>12, <1>13 DEF WithdrawEffect

(* The transaction of CreatePayment.                                       *)
LEMMA PaymentKeepsInv ==
    ASSUME ExchangeInv, NEW c \in Clients, CommitPayment(c), UNCHANGED <<depositOnly, withdrawOnly>>
    PROVE  ExchangeInv' /\ Extends(ledger, ledger', OtherTypes)
  <1> DEFINE id == Len(payment) + 1
  <1>1. /\ State /\ WithdrawInv /\ CallsTyped /\ LedgerGood(ledger)
        /\ WellFormed(ledger, withdraw, payment) /\ Balanced(ledger, withdraw, chain, payment)
    BY InvWellFormed
  <1>2. /\ UNCHANGED <<deposit, binding, worker>>
        /\ UNCHANGED <<withdraw, broadcaster, handler, chain, tracked>>
    BY DEF depositOnly, withdrawOnly
  <1>3. PICK p \in PaymentRow : p = client[c]
    BY <1>1 DEF CommitPayment, CallsTyped
  <1>4. /\ CanApply(ledger.account[p.payer], debitPayment(id, p.amount))
        /\ payment' = Append(payment, p)
        /\ ledger' = TransferInternalTx(ledger, p.payer, p.account, p.amount, id)
        /\ outbox' = InsertOutboxTx(outbox, p.merchant, EventPaymentSuccess, p.key)
        /\ client' = [client EXCEPT ![c] = NoCall]
        /\ UNCHANGED merchant
    BY <1>3 DEF CommitPayment
  <1>5. PICK payer \in Users, payee \in Users, a \in PayAmounts :
           payer = p.payer /\ payee = p.account /\ a = p.amount
    BY DEF PaymentRow
  <1>6. a \in Nat /\ id \in Nat /\ p.key \in PaymentKeys
    <2>1. Len(payment) \in Nat
      BY <1>1 DEF CallsTyped
    <2> QED  BY <2>1, PaymentAssumption DEF PaymentRow
  <1> HIDE DEF id
  <1>7. PICK debit, credit : debit = debitPayment(id, a) /\ credit = creditPayment(id, a)
    OBVIOUS
  <1>8. /\ debit \in LedgerOp /\ credit \in LedgerOp
        /\ debit.type = "payment_debit" /\ credit.type = "payment_credit"
        /\ \A row \in Account : CanApply(row, credit)
    BY <1>6, <1>7, PaymentOps
  <1>9. debit.type \notin DepositTypes /\ credit.type \notin DepositTypes
    BY <1>8 DEF DepositTypes
  <1>10. PICK k : k = applyLedgerTx(ledger, payer, debit)
    OBVIOUS
  <1>11. ledger' = applyLedgerTx(k, payee, credit) /\ CanApply(ledger.account[payer], debit)
    BY <1>4, <1>5, <1>7, <1>10 DEF TransferInternalTx
  <1>12. IsFiniteSet(BookedOf(ledger))
    BY <1>1 DEF WellFormed
  <1>13. BookingEffect(ledger, payer, debit, k)
    BY <1>1, <1>8, <1>9, <1>10, <1>11, <1>12, Booking
  <1>14. LedgerGood(k) /\ IsFiniteSet(BookedOf(k)) /\ CanApply(k.account[payee], credit)
    <2>1. LedgerGood(k) /\ IsFiniteSet(BookedOf(k))
      BY <1>13 DEF BookingEffect
    <2>2. k.account[payee] \in Account
      BY <2>1 DEF LedgerGood, LedgerType
    <2> QED  BY <1>8, <2>1, <2>2
  <1>15. BookingEffect(k, payee, credit, ledger')
    BY <1>8, <1>9, <1>11, <1>14, Booking
  <1>16. State'
    <2>1. LedgerGood(ledger')
      BY <1>15 DEF BookingEffect
    <2>2. \A d \in Deposits : SameEntriesOf(ledger, ledger', d)
      BY <1>13, <1>15 DEF BookingEffect, SameEntriesOf
    <2>3. \A d \in Deposits : Agree(ledger, deposit, outbox', binding, d)
      BY <1>1, <1>4, PaidEventAgrees DEF State, DepositState
    <2> QED  BY <1>1, <1>2, <2>1, <2>2, <2>3, StateKept
  <1>17. WithdrawInv' /\ Extends(ledger, ledger', OtherTypes)
    <2>1. Extends(ledger, k, {debit.type}) /\ Extends(k, ledger', {credit.type})
      BY <1>13, <1>15 DEF BookingEffect
    <2>2. {debit.type} \subseteq OtherTypes /\ {credit.type} \subseteq OtherTypes
      BY <1>8 DEF OtherTypes, EntryTypes
    <2>3. Extends(ledger, ledger', OtherTypes)
      BY <2>1, <2>2, ExtendsMore
    <2>4. WithdrawInv'
      BY <1>1, <1>2, <2>3, WithdrawKept
    <2> QED  BY <2>3, <2>4
  <1>18. CallsTyped'
    <2>1. payment' \in Seq(PaymentRow)
      BY <1>1, <1>4 DEF CallsTyped
    <2>2. client' \in [Clients -> PaymentRow \union {NoCall}]
      BY <1>1, <1>4 DEF CallsTyped
    <2> QED  BY <1>1, <1>4, <2>1, <2>2 DEF CallsTyped, PaymentRow, PaymentKeys
  <1>19. Balanced(ledger', withdraw, chain, payment')
    <2>1. Recorded(payment, p, payment')
      BY <1>4 DEF Recorded
    <2>2. BookingEffect(ledger, payer, debitPayment(id, a), k) /\ BookingEffect(k, payee, creditPayment(id, a), ledger')
      BY <1>7, <1>13, <1>15
    <2> QED  BY <1>1, <1>5, <1>6, <2>1, <2>2, TransferKeepsBalance
  <1>20. Balanced(ledger, withdraw, chain, payment)'
    BY <1>2, <1>19
  <1>21. PaymentsBooked(ledger, payment)'
    <2>1. PaymentsBooked(ledger, payment) /\ ledger \in LedgerType /\ payment \in Seq(PaymentRow)
      BY <1>1, InvWellFormed DEF LedgerGood, CallsTyped
    <2>2. \A i \in DOMAIN payment : ~(payment[i].merchant = p.merchant /\ payment[i].order = p.order)
      BY <1>3 DEF CommitPayment, DuplicatePayment
    <2>3. Recorded(payment, p, payment') /\ id = Len(payment) + 1
      BY <1>4 DEF Recorded, id
    <2>4. PaymentsBooked(ledger', payment')
      BY <1>4, <2>1, <2>2, <2>3, PaymentBooked
    <2> QED  BY <2>4
  <1>22. EventsKeyed(outbox)' /\ EventsGood(outbox, payment)'
    <2>1. EventsKeyed(outbox) /\ EventsGood(outbox, payment) /\ payment \in Seq(PaymentRow)
      BY <1>1 DEF ExchangeInv, CallsTyped
    <2>2. \A i \in DOMAIN payment : payment[i].key # p.key
      BY <1>3 DEF CommitPayment, DuplicatePayment
    <2>3. Recorded(payment, p, payment')
      BY <1>4 DEF Recorded
    <2>4. EventsGood(outbox', payment')
      BY <1>4, <2>1, <2>2, <2>3, PaymentEventGood
    <2>5. EventsKeyed(outbox')
      BY <1>4, <2>1, InsertKeyed
    <2> QED  BY <2>4, <2>5
  <1> QED  BY <1>16, <1>17, <1>18, <1>20, <1>21, <1>22 DEF ExchangeInv

(* The steps of payments that book nothing.                                *)
LEMMA CallsKeepInv ==
    ASSUME ExchangeInv, CallsTyped', UNCHANGED <<ledger, outbox, payment>>, UNCHANGED <<depositOnly, withdrawOnly>>
    PROVE  ExchangeInv' /\ Extends(ledger, ledger', OtherTypes)
  <1>1. /\ State /\ WithdrawInv /\ Balanced(ledger, withdraw, chain, payment)
        /\ PaymentsBooked(ledger, payment)
    BY InvWellFormed
  <1>2. /\ UNCHANGED <<deposit, binding, worker>>
        /\ UNCHANGED <<withdraw, broadcaster, handler, chain, tracked>>
    BY DEF depositOnly, withdrawOnly
  <1>3. State'
    BY <1>1, <1>2 DEF State
  <1>4. WithdrawInv'
    BY <1>1, <1>2, WithdrawInvNext DEF withdrawVars
  <1>5. Balanced(ledger, withdraw, chain, payment)' /\ PaymentsBooked(ledger, payment)'
    BY <1>1, <1>2
  <1>6. Extends(ledger, ledger', OtherTypes)
    <2>1. LedgerGood(ledger)
      BY InvWellFormed
    <2> QED  BY <2>1 DEF Extends, LedgerGood
  <1>7. EventsKeyed(outbox)' /\ EventsGood(outbox, payment)'
    BY DEF ExchangeInv
  <1> QED  BY <1>3, <1>4, <1>5, <1>6, <1>7 DEF ExchangeInv

(* A step of the payments.                                                 *)
LEMMA PaymentsKeepInv ==
    ASSUME ExchangeInv, PaymentNext, UNCHANGED <<depositOnly, withdrawOnly>>
    PROVE  ExchangeInv' /\ Extends(ledger, ledger', OtherTypes)
  <1>1. CallsTyped
    BY InvWellFormed
  <1>2. /\ merchant \in [Merchants -> [enabled : BOOLEAN, account : Users \union {NoAccount}]]
        /\ payment \in Seq(PaymentRow)
        /\ client \in [Clients -> PaymentRow \union {NoCall}]
    BY <1>1 DEF CallsTyped
  <1>3. ASSUME merchant' \in [Merchants -> [enabled : BOOLEAN, account : Users \union {NoAccount}]],
               client' \in [Clients -> PaymentRow \union {NoCall}], UNCHANGED <<ledger, outbox, payment>>
        PROVE  ExchangeInv' /\ Extends(ledger, ledger', OtherTypes)
    <2>1. CallsTyped'
      BY <1>2, <1>3 DEF CallsTyped, PaymentRow, PaymentKeys
    <2> QED  BY <1>3, <2>1, CallsKeepInv
  <1>4. CASE HandleMerchantRegister
    <2>1. PICK m \in Merchants, enabled \in BOOLEAN, account \in Users \union {NoAccount} :
             RegisterMerchant(m, enabled, account)
      BY <1>4 DEF HandleMerchantRegister
    <2>2. merchant' \in [Merchants -> [enabled : BOOLEAN, account : Users \union {NoAccount}]]
      BY <1>2, <2>1 DEF RegisterMerchant
    <2> QED BY <1>2, <1>3, <2>1, <2>2 DEF RegisterMerchant
  <1>5. ASSUME NEW c \in Clients, EndPayment(c)
        PROVE  ExchangeInv' /\ Extends(ledger, ledger', OtherTypes)
    <2>1. client' \in [Clients -> PaymentRow \union {NoCall}]
      BY <1>2, <1>5 DEF EndPayment
    <2> QED BY <1>2, <1>3, <1>5, <2>1 DEF EndPayment
  <1>6. ASSUME NEW c \in Clients, NEW m \in Merchants, NEW o \in Orders, NEW u \in Users,
               NEW a \in PayAmounts, NEW k \in KeysOf(m, o), BeginPayment(c, m, o, u, a, k)
        PROVE  ExchangeInv' /\ Extends(ledger, ledger', OtherTypes)
    <2>1. PICK p : p = [merchant |-> m, order |-> o, payer |-> u, amount |-> a,
                        key |-> k, account |-> merchant[m].account]
      OBVIOUS
    <2>2. merchant[m].account \in Users /\ k \in PaymentKeys
      BY <1>2, <1>6 DEF BeginPayment, KeysOf, PaymentKeys
    <2>3. p \in PaymentRow /\ client' = [client EXCEPT ![c] = p]
      BY <1>6, <2>1, <2>2 DEF PaymentRow, BeginPayment
    <2>4. client' \in [Clients -> PaymentRow \union {NoCall}]
      BY <1>2, <2>3
    <2> QED BY <1>2, <1>3, <1>6, <2>4 DEF BeginPayment
  <1>7. ASSUME NEW c \in Clients, CommitPayment(c)
        PROVE  ExchangeInv' /\ Extends(ledger, ledger', OtherTypes)
    BY <1>7, PaymentKeepsInv
  <1> QED  BY <1>4, <1>5, <1>6, <1>7 DEF PaymentNext, HandleMerchantPayment

-----------------------------------------------------------------------------
(* Before the first step nothing is booked but the opening balances.       *)
LEMMA BalancedAtStart ==
    ASSUME State, LedgerInit, withdraw = <<>>, payment = <<>>, \A d \in Deposits : deposit[d].status = "none"
    PROVE  Balanced(ledger, withdraw, chain, payment)
  <1>1. \A d \in Deposits : Unbooked(ledger, d)
    BY DEF State, DepositState, Agree
  <1>2. CreditedNow(ledger) = {}
    BY <1>1, BookedIsNotUnbooked DEF CreditedNow
  <1>3. ASSUME NEW u \in Users PROVE CreditsOf(ledger, u) = {} /\ ReversalsOf(ledger, u) = {}
    BY <1>1 DEF CreditsOf, ReversalsOf, Unbooked
  <1>4. AmountOf({}) = 0
    BY SumNone DEF AmountOf
  <1>5. ASSUME NEW u \in Users
        PROVE  ledger.account[u].available = Opening[u] /\ HeldBy(ledger.account[u]) = Opening[u] /\ Opening[u] \in Int
    <2>1. PICK o \in Nat : o = Opening[u] /\ (u \in NewUsers => o = 0)
      BY LedgerAssumption
    <2>2. ledger.account[u] = IF u \in NewUsers THEN MissingRow ELSE [exists |-> TRUE, available |-> o, frozen |-> 0]
      BY <2>1, Zenon DEF LedgerInit
    <2> QED  BY <2>1, <2>2 DEF HeldBy, MissingRow
  <1>6. ASSUME NEW f, DOMAIN f = {} PROVE SumFunction(f) = 0
    BY <1>6, SumNone DEF SumFunction
  <1>7. ASSUME NEW u \in Users PROVE Safe(ledger, withdraw, chain, payment, u)
    <2>1. AtRisk(withdraw, chain, u) = 0
      <3>1. RiskyRows(withdraw, chain, u) = {}
        BY DEF RiskyRows
      <3> QED  BY <3>1, SumNone DEF AtRisk
    <2>2. PaidIn(payment, u) = 0 /\ PaidOut(payment, u) = 0
      <3>1. DOMAIN payment = {}
        OBVIOUS
      <3> DEFINE f == [p \in DOMAIN payment |-> IF payment[p].account = u THEN payment[p].amount ELSE 0]
                 h == [p \in DOMAIN payment |-> IF payment[p].payer = u THEN payment[p].amount ELSE 0]
      <3>2. DOMAIN f = {} /\ DOMAIN h = {}
        BY <3>1
      <3>3. PaidIn(payment, u) = SumFunction(f) /\ PaidOut(payment, u) = SumFunction(h)
        BY DEF PaidIn, PaidOut
      <3> HIDE DEF f, h
      <3>4. SumFunction(f) = 0 /\ SumFunction(h) = 0
        BY <1>6, <3>2, Zenon
      <3> QED  BY <3>3, <3>4
    <2>3. PICK o \in Int : o = Opening[u] /\ o = ledger.account[u].available
      BY <1>5
    <2>4. Slack(ledger, u) = o
      <3>1. AmountOf(CreditsOf(ledger, u)) = 0 /\ AmountOf(ReversalsOf(ledger, u)) = 0
        BY <1>3, <1>4, Zenon
      <3> QED  BY <2>3, <3>1 DEF Slack, DepositIncome
    <2> QED  BY <2>1, <2>2, <2>3, <2>4 DEF Safe
  <1>8. Kept(ledger, withdraw)
    <2>1. Spent(ledger, withdraw) = 0
      BY <1>6 DEF Spent
    <2>2. Opening = [u \in Users |-> HeldBy(ledger.account[u])]
      BY <1>5, LedgerAssumption
    <2>3. Liabilities(ledger) = SumFunction(Opening)
      BY <2>2, Zenon DEF Liabilities
    <2>4. PICK t \in Int : t = SumFunction(Opening)
      <3>1. Opening \in [Users -> Nat] /\ \A u \in Users : Opening[u] \in Int
        BY LedgerAssumption
      <3>2. SumFunctionOnSet(Opening, Users) \in Int
        BY <3>1, ExchangeAssumption, SumIsInt
      <3> QED  BY <3>1, <3>2 DEF SumFunction
    <2>5. Surplus(ledger) = t
      BY <1>2, <1>4, <2>3, <2>4 DEF Surplus
    <2> QED  BY <2>1, <2>4, <2>5 DEF Kept, AtMost
  <1>9. AllReplay(ledger)
    BY OpeningReplays DEF JournalReplays, AllReplay
  <1> QED  BY <1>7, <1>8, <1>9 DEF Balanced

(* The invariant holds at the start, ...                                   *)
LEMMA ExchangeInvInit == ExchangeInit => ExchangeInv
  <1> SUFFICES ASSUME ExchangeInit
               PROVE  ExchangeInv
    OBVIOUS
  <1>1. DepositInit /\ WithdrawInit /\ PaymentInit
    BY DEF ExchangeInit
  <1>2. State
    BY <1>1, StateInit
  <1>3. WithdrawInv
    BY <1>1, WithdrawInvInit
  <1>4. CallsTyped
    <2>1. /\ merchant \in [Merchants -> [enabled : {TRUE}, account : Users]]
          /\ payment = <<>> /\ client = [c \in Clients |-> NoCall]
      BY <1>1 DEF PaymentInit
    <2>2. merchant \in [Merchants -> [enabled : BOOLEAN, account : Users \union {NoAccount}]]
      BY <2>1
    <2>3. payment \in Seq(PaymentRow) /\ client \in [Clients -> PaymentRow \union {NoCall}]
      BY <2>1
    <2> QED  BY <2>2, <2>3 DEF CallsTyped
  <1>5. Balanced(ledger, withdraw, chain, payment)
    <2>1. /\ LedgerInit /\ withdraw = <<>> /\ payment = <<>>
          /\ deposit = [d \in Deposits |-> [status |-> "none", block |-> 0]]
      BY <1>1 DEF DepositInit, WithdrawInit, PaymentInit
    <2>2. \A d \in Deposits : deposit[d].status = "none"
      BY <2>1
    <2> QED  BY <1>2, <2>1, <2>2, BalancedAtStart
  <1>6. PaymentsBooked(ledger, payment)
    <2>1. LedgerInit /\ DOMAIN payment = {}
      BY <1>1 DEF DepositInit, PaymentInit
    <2>2. \A u \in Users : \A n \in DOMAIN ledger.journal[u] :
             ledger.journal[u][n].op.type \notin {"payment_debit", "payment_credit"}
      <3>1. \A u \in Users : ledger.journal[u] = <<>> \/ ledger.journal[u] = <<OpeningEntry(u)>>
        BY <2>1, Zenon DEF LedgerInit
      <3>2. \A u : OpeningEntry(u).op.type = "deposit_credit"
        BY DEF OpeningEntry, creditDeposit
      <3> QED  BY <3>1, <3>2
    <2> QED  BY <2>1, <2>2 DEF PaymentsBooked
  <1>7. EventsKeyed(outbox) /\ EventsGood(outbox, payment)
    BY <1>1 DEF PaymentInit, OutboxInit, EventsKeyed, EventsGood
  <1> QED  BY <1>2, <1>3, <1>4, <1>5, <1>6, <1>7 DEF ExchangeInv

(* ... and is kept by the steps of every component.                        *)
LEMMA ExchangeInvNext == ExchangeInv /\ [ExchangeNext]_exchangeVars => ExchangeInv'
  <1> SUFFICES ASSUME ExchangeInv, [ExchangeNext]_exchangeVars
               PROVE  ExchangeInv'
    OBVIOUS
  <1>1. CASE DepositNext /\ UNCHANGED <<withdrawOnly, paymentOnly>>
    BY <1>1, DepositsKeepInv
  <1>2. CASE WithdrawNext /\ UNCHANGED <<outbox, depositOnly, paymentOnly>>
    BY <1>2, WithdrawalsKeepInv
  <1>3. CASE PaymentNext /\ UNCHANGED <<depositOnly, withdrawOnly>>
    BY <1>3, PaymentsKeepInv
  <1>4. CASE UNCHANGED exchangeVars
    <2>1. UNCHANGED depositVars /\ UNCHANGED <<withdrawOnly, paymentOnly>>
      BY <1>4 DEF exchangeVars, depositOnly, depositVars
    <2> QED  BY <2>1, DepositsKeepInv
  <1> QED  BY <1>1, <1>2, <1>3, <1>4 DEF ExchangeNext

(* A step of the exchange is one of withdrawals or leaves their requests   *)
(* and their entries alone.                                                *)
LEMMA WithdrawalsOrOthers ==
    ASSUME ExchangeInv, [ExchangeNext]_exchangeVars
    PROVE  [WithdrawNext]_withdrawVars \/ (withdraw' = withdraw /\ Extends(ledger, ledger', OtherTypes))
  <1>1. CASE DepositNext /\ UNCHANGED <<withdrawOnly, paymentOnly>>
    BY <1>1, DepositsKeepInv DEF withdrawOnly
  <1>2. CASE WithdrawNext /\ UNCHANGED <<outbox, depositOnly, paymentOnly>>
    BY <1>2
  <1>3. CASE PaymentNext /\ UNCHANGED <<depositOnly, withdrawOnly>>
    BY <1>3, PaymentsKeepInv DEF withdrawOnly
  <1>4. CASE UNCHANGED exchangeVars
    BY <1>4 DEF exchangeVars, withdrawOnly, withdrawVars
  <1> QED  BY <1>1, <1>2, <1>3, <1>4 DEF ExchangeNext

(* Entries of other types leave those of the requests as they are.         *)
LEMMA RequestEntriesKept ==
    ASSUME NEW types, Extends(ledger, ledger', types), NEW type, type \notin types, NEW i
    PROVE  HasEntry(type, i)' <=> HasEntry(type, i)
  <1>1. HasEntry(type, i) <=> \E u \in Users : EntriesIn(ledger, u, type, i) # {}
    BY DEF HasEntry, EntriesIn
  <1>2. HasEntry(type, i)' <=> \E u \in Users : EntriesIn(ledger', u, type, i) # {}
    BY DEF HasEntry, EntriesIn
  <1>3. \A u \in Users : \A id : EntriesIn(ledger', u, type, id) = EntriesIn(ledger, u, type, id)
    BY ExtendsEntries
  <1> QED  BY <1>1, <1>2, <1>3

(* So every step is one of a payout or none.                               *)
LEMMA ExchangeStepImplementsPayout ==
    ASSUME ExchangeInv, RowsFrozen, [ExchangeNext]_exchangeVars
    PROVE  RowsFrozen' /\ [Abstract!PayoutNext]_payouts
  <1>1. WithdrawInv
    BY DEF ExchangeInv
  <1>2. CASE [WithdrawNext]_withdrawVars
    BY <1>1, <1>2, EveryStepBooks, RowsFrozenNext, StepImplementsPayout
  <1>3. CASE withdraw' = withdraw /\ Extends(ledger, ledger', OtherTypes)
    <2>1. \A type \in {"withdraw_freeze", "withdraw_unfreeze", "withdraw_debit"} : type \notin OtherTypes
      BY DEF OtherTypes
    <2>2. \A i : /\ HasEntry("withdraw_freeze", i)' <=> HasEntry("withdraw_freeze", i)
                 /\ HasEntry("withdraw_unfreeze", i)' <=> HasEntry("withdraw_unfreeze", i)
                 /\ HasEntry("withdraw_debit", i)' <=> HasEntry("withdraw_debit", i)
      BY <1>3, <2>1, RequestEntriesKept
    <2>3. RowsFrozen'
      BY <1>3, <2>2 DEF RowsFrozen, Rows
    <2>4. payouts' = payouts
      BY <2>2 DEF payouts, payoutOf, Ids
    <2> QED  BY <2>3, <2>4
  <1> QED  BY <1>2, <1>3, WithdrawalsOrOthers

(* What it says in the words of the components.                            *)
LEMMA ExchangeInvMeans ==
    ASSUME ExchangeInv
    PROVE  BooksBalance /\ NoOverdraft /\ (NewUsers = {} => JournalReplays)
  <1>1. /\ State /\ LedgerGood(ledger)
        /\ WellFormed(ledger, withdraw, payment) /\ Balanced(ledger, withdraw, chain, payment)
    BY InvWellFormed
  <1>2. /\ Rows = DOMAIN withdraw
        /\ \A u, type, id : Entries(u, type, id) = EntriesIn(ledger, u, type, id)
    BY DEF Rows, Entries, EntriesIn
  <1>3. BooksBalance
    <2>1. SumUserLiabilities = Liabilities(ledger)
      BY Zenon DEF SumUserLiabilities, Liabilities, HeldBy
    <2>2. {d \in Deposits : deposit[d].status # "none" /\ ~HasEntry("deposit_reverse", d)} = CreditedNow(ledger)
      <3>1. \A d : HasEntry("deposit_reverse", d) <=> \E u \in Users : EntriesIn(ledger, u, "deposit_reverse", d) # {}
        BY DEF HasEntry, EntriesIn
      <3>2. ASSUME NEW d \in Deposits
            PROVE  deposit[d].status # "none" /\ ~HasEntry("deposit_reverse", d) <=> IsCredited(ledger, d)
        <4>1. (deposit[d].status # "none" <=> ~Unbooked(ledger, d)) /\ Stage(ledger, d)
          BY <1>1 DEF State, DepositState, LedgerGood, Agree
        <4>2. IsCredited(ledger, d) => \A u \in Users : EntriesIn(ledger, u, "deposit_reverse", d) = {}
          BY DEF IsCredited, OnlyCredited
        <4>3. IsReversed(ledger, d) => EntriesIn(ledger, depUser[d], "deposit_reverse", d) # {}
          BY DEF IsReversed, AlsoReversed
        <4>4. depUser[d] \in Users
          BY DepositAssumption
        <4> QED  BY <3>1, <4>1, <4>2, <4>3, <4>4, BookedIsNotUnbooked DEF Stage
      <3> QED  BY <3>2 DEF CreditedNow
    <2>3. \A i : DebitsOf(i) = DebitsIn(ledger, i)
      BY <1>2, Zenon DEF DebitsOf, DebitsIn
    <2>4. [i \in Rows |-> withdraw[i].amount * DebitsOf(i)] = [i \in DOMAIN withdraw |-> withdraw[i].amount * DebitsIn(ledger, i)]
      BY <1>2, <2>3
    <2>5. SumFunction([i \in Rows |-> withdraw[i].amount * DebitsOf(i)]) = Spent(ledger, withdraw)
      BY <2>4, Zenon DEF Spent
    <2>6. PICK t \in Int, b \in Int : t = SumFunction(Opening) /\ b = Spent(ledger, withdraw)
      BY <1>1, Terms
    <2>7. PICK L \in Int, A \in Int : L = Liabilities(ledger) /\ A = AmountOf(CreditedNow(ledger))
      <3>1. ledger \in LedgerType /\ IsFiniteSet(BookedOf(ledger))
        BY <1>1 DEF LedgerGood, WellFormed
      <3> QED  BY <3>1, SumTypes, IncomeTypes
    <2>8. NetDeposits = t + A - b
      BY <2>2, <2>5, <2>6, <2>7 DEF NetDeposits, SumAmounts, AmountOf
    <2>9. AtMost(L - A + b, t)
      BY <1>1, <2>6, <2>7 DEF Balanced, Kept, Surplus
    <2> QED  BY <2>1, <2>6, <2>7, <2>8, <2>9 DEF BooksBalance, AtMost
  <1>4. ASSUME NEW u \in Users
        PROVE  SumAmounts([i \in Rows |-> withdraw[i].amount],
                          {i \in Rows : /\ withdraw[i].user = u
                                        /\ withdraw[i].status \notin Settled \/ chain[i] # "none"})
                 + ledger.account[u].available <= NetIncome(u)
    <2>1. SumAmounts([i \in Rows |-> withdraw[i].amount],
                     {i \in Rows : /\ withdraw[i].user = u
                                   /\ withdraw[i].status \notin Settled \/ chain[i] # "none"})
            = AtRisk(withdraw, chain, u)
      BY <1>2, Zenon DEF SumAmounts, AtRisk, AmountsOf, RiskyRows
    <2>2. PICK R \in Int, O \in Int, p \in Int, q \in Int :
            R = AtRisk(withdraw, chain, u) /\ O = Opening[u] /\ p = PaidIn(payment, u) /\ q = PaidOut(payment, u)
      BY <1>1, Terms
    <2>3. PICK C \in Int, V \in Int, a \in Nat :
            C = AmountOf(CreditsOf(ledger, u)) /\ V = AmountOf(ReversalsOf(ledger, u)) /\ a = ledger.account[u].available
      <3>1. ledger \in LedgerType /\ IsFiniteSet(BookedOf(ledger))
        BY <1>1 DEF LedgerGood, WellFormed
      <3> QED  BY <3>1, SumTypes, IncomeTypes
    <2>4. /\ {d \in Deposits : Entries(u, "deposit_credit", d) # {}} = CreditsOf(ledger, u)
          /\ {d \in Deposits : Entries(u, "deposit_reverse", d) # {}} = ReversalsOf(ledger, u)
      BY <1>2 DEF CreditsOf, ReversalsOf
    <2>5. /\ SumFunction([k \in DOMAIN payment |-> IF payment[k].account = u THEN payment[k].amount ELSE 0]) = p
          /\ SumFunction([k \in DOMAIN payment |-> IF payment[k].payer = u THEN payment[k].amount ELSE 0]) = q
      BY <2>2, Zenon DEF PaidIn, PaidOut
    <2>6. NetIncome(u) = O + C - V + p - q
      BY <2>2, <2>3, <2>4, <2>5 DEF NetIncome, SumAmounts, AmountOf
    <2>7. R + (a - (C - V)) <= O + p - q
      BY <1>1, <2>2, <2>3 DEF Balanced, Safe, Slack, DepositIncome
    <2> QED  BY <2>1, <2>2, <2>3, <2>6, <2>7
  <1>5. NewUsers = {} => JournalReplays
    BY <1>1 DEF Balanced, AllReplay, JournalReplays
  <1> QED  BY <1>3, <1>4, <1>5, Zenon DEF NoOverdraft

(* Every behaviour of the exchange keeps ExchangeInv, whatever the         *)
(* components do at once on the one ledger and the one outbox.             *)
THEOREM ExchangeInvariant == ExchangeSpec => []ExchangeInv
  BY ExchangeInvInit, ExchangeInvNext, PTL DEF ExchangeSpec

(* applyLedgerTx, TransferInternalTx, HandleReorgTx: what the exchange     *)
(* owes its users is at most what came in on the chain less what was paid  *)
(* out, and all of it if every user has an account row from the start.     *)
THEOREM BooksAlwaysBalance == ExchangeSpec => []BooksBalance
  <1>1. ExchangeInv => BooksBalance
    BY ExchangeInvMeans
  <1> QED  BY <1>1, ExchangeInvariant, PTL

(* The freeze of CreateWithdraw (service.go:86): what a user has asked for *)
(* and may still get, with what can still be spent, is never more than     *)
(* what that user ever had, payments and reversed deposits taken off.      *)
THEOREM NothingIsPromisedTwice == ExchangeSpec => []NoOverdraft
  <1>1. ExchangeInv => NoOverdraft
    BY ExchangeInvMeans
  <1> QED  BY <1>1, ExchangeInvariant, PTL

(* No balance is ever negative (ErrInsufficientBalance of applyLedgerTx).  *)
THEOREM ExchangeLedgerTypeCorrect == ExchangeSpec => []LedgerTypeOK
  <1>1. ExchangeInv => LedgerTypeOK
    BY DEF ExchangeInv, WithdrawInv, WithdrawTypeOK
  <1> QED  BY <1>1, ExchangeInvariant, PTL

(* With an account row for every user, SELECT ... FOR UPDATE orders all    *)
(* writers of it: the journal explains every balance of every user.        *)
THEOREM ExchangeReplays ==
    ASSUME NewUsers = {}
    PROVE  ExchangeSpec => []JournalReplays
  <1>1. ExchangeInv => JournalReplays
    BY ExchangeInvMeans
  <1> QED  BY <1>1, ExchangeInvariant, PTL

(* What deposits promise holds among withdrawals and payments, too: each   *)
(* credited and taken back at most once, in step with its row; one event   *)
(* with its key, the deposit's own unless a payment had taken the key      *)
(* "deposit:<id>" of the one outbox before; no account above its journal.  *)
THEOREM ExchangeKeepsDeposits == ExchangeSpec => [](CreditedOnce /\ RowCreditEventAgree /\ AccountWithinJournal)
  <1>1. ASSUME ExchangeInv PROVE CreditedOnce /\ RowCreditEventAgree /\ AccountWithinJournal
    <2>1. LedgerGood(ledger) /\ \A d \in Deposits : Agree(ledger, deposit, outbox, binding, d)
      BY <1>1 DEF ExchangeInv, State, DepositState
    <2> QED  BY <2>1, PartsMean DEF LedgerGood
  <1> QED  BY <1>1, ExchangeInvariant, PTL

(* What withdrawals promise holds among deposits and payments, too: claims *)
(* are exclusive, and money that was sent is neither released nor debited  *)
(* without its transaction.                                                *)
THEOREM ExchangeKeepsWithdrawals == ExchangeSpec => [](ClaimExclusive /\ PaidNeverReleased /\ DebitFollowsPayment)
  <1>1. ExchangeInv => WithdrawInv
    BY DEF ExchangeInv
  <1>2. WithdrawInv => ClaimExclusive /\ PaidNeverReleased /\ DebitFollowsPayment
    BY WithdrawInvMeans
  <1> QED  BY <1>1, <1>2, ExchangeInvariant, PTL

(* What payments promise holds among deposits and withdrawals, too: one    *)
(* payment for an order, one debit and one credit for a payment, and one   *)
(* event with its key, its own unless its client had chosen the key of a   *)
(* deposit that was reported before.                                       *)
THEOREM ExchangeKeepsPayments == ExchangeSpec => [](PaidOnce /\ EventPerPayment)
  <1>1. ASSUME ExchangeInv PROVE PaidOnce /\ EventPerPayment
    <2>1. PaidOnce
      BY <1>1, InvWellFormed, PaymentsBookedMeans
    <2>2. EventPerPayment
      BY <1>1, EventsMean DEF ExchangeInv
    <2> QED  BY <2>1, <2>2
  <1> QED  BY <1>1, ExchangeInvariant, PTL

(* No step of any component reopens a settled request or changes a         *)
(* rejected one.                                                           *)
THEOREM ExchangeStaysSettled == ExchangeSpec => SettledStaysSettled
  <1>1. ExchangeInv /\ [ExchangeNext]_exchangeVars => [StaysSettled]_withdrawVars
    <2> SUFFICES ASSUME ExchangeInv, [ExchangeNext]_exchangeVars
                 PROVE  StaysSettled
      OBVIOUS
    <2>1. CASE [WithdrawNext]_withdrawVars
      BY <2>1, StepStaysSettled DEF ExchangeInv
    <2>2. CASE withdraw' = withdraw
      BY <2>2 DEF StaysSettled
    <2> QED  BY <2>1, <2>2, WithdrawalsOrOthers
  <1> QED  BY <1>1, ExchangeInvariant, PTL DEF ExchangeSpec, SettledStaysSettled, StaysSettled

(* The withdrawals implement a payout in the exchange, too: what deposits, *)
(* reorganisations and payments book on the same ledger is, to a payout,   *)
(* nothing.                                                                *)
THEOREM ExchangeImplementsPayout == ExchangeSpec => ImplementsPayout
  <1>1. ASSUME ExchangeInit
        PROVE  ExchangeInv /\ RowsFrozen /\ Abstract!PayoutInit
    <2>1. ExchangeInv /\ WithdrawInv
      BY <1>1, ExchangeInvInit DEF ExchangeInv
    <2>2. Rows = {}
      BY <1>1 DEF ExchangeInit, WithdrawInit, Rows
    <2>3. \A i \in Ids : ~HasEntry("withdraw_freeze", i)
      BY <2>1, <2>2 DEF WithdrawInv, EntriesJustified, JustifiedEntry, HasEntry
    <2> QED  BY <2>1, <2>2, <2>3 DEF RowsFrozen, Abstract!PayoutInit, payouts, payoutOf
  <1>2. ExchangeInv /\ RowsFrozen /\ [ExchangeNext]_exchangeVars => RowsFrozen' /\ [Abstract!PayoutNext]_payouts
    BY ExchangeStepImplementsPayout
  <1> QED  BY <1>1, <1>2, ExchangeInvariant, PTL DEF ExchangeSpec, ImplementsPayout, Abstract!PayoutSpec
=============================================================================
