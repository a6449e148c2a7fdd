------------------------------ MODULE Exchange ------------------------------
(***************************************************************************)
(* The exchange: deposits, withdrawals and payments on one ledger and one  *)
(* webhook outbox.  The components run concurrently and share nothing but  *)
(* these two; every step is a step of one of them.                         *)
(***************************************************************************)
EXTENDS Deposit, Withdraw, Payment

(* user_id and token_address are VARCHARs: there are finitely many users.  *)
ASSUME ExchangeAssumption == IsFiniteSet(Users)

depositOnly == <<deposit, binding, worker>>
withdrawOnly == <<withdraw, broadcaster, handler, chain, tracked>>
paymentOnly == <<merchant, payment, client>>

exchangeVars == <<ledger, outbox, depositOnly, withdrawOnly, paymentOnly>>

ExchangeInit == DepositInit /\ WithdrawInit /\ PaymentInit

ExchangeNext ==
    \/ DepositNext /\ UNCHANGED <<withdrawOnly, paymentOnly>>
    \/ WithdrawNext /\ UNCHANGED <<outbox, depositOnly, paymentOnly>>
    \/ PaymentNext /\ UNCHANGED <<depositOnly, withdrawOnly>>

ExchangeSpec == ExchangeInit /\ [][ExchangeNext]_exchangeVars

-----------------------------------------------------------------------------
(* SumUserLiabilities: what the reconciler holds against the wallets.      *)
SumUserLiabilities ==
    SumFunction([u \in Users |-> ledger.account[u].available + ledger.account[u].frozen])

SumAmounts(f, ids) == SumFunctionOnSet(f, ids)

DebitsOf(i) == SumFunction([u \in Users |-> Cardinality(Entries(u, "withdraw_debit", i))])

(* What came in on the chain, counted once per deposit and without the     *)
(* deposits taken back, less the withdrawals debited.                      *)
NetDeposits ==
      SumFunction(Opening)
    + SumAmounts(depAmount, {d \in Deposits : deposit[d].status # "none"
                                              /\ ~HasEntry("deposit_reverse", d)})
    - SumFunction([i \in Rows |-> withdraw[i].amount * DebitsOf(i)])

(* The exchange owes its users no more than that, and all of it unless a   *)
(* new user's first credits overtook each other: payments move money and   *)
(* create none, a reversal or a payment cut short leaves no half of itself *)
(* (applyLedgerTx, TransferInternalTx, HandleReorgTx).                     *)
BooksBalance ==
    /\ SumUserLiabilities <= NetDeposits
    /\ NewUsers = {} => SumUserLiabilities = NetDeposits

(* What came to u's account from outside the withdrawals, less what left.  *)
NetIncome(u) ==
      Opening[u]
    + SumAmounts(depAmount, {d \in Deposits : Entries(u, "deposit_credit", d) # {}})
    - SumAmounts(depAmount, {d \in Deposits : Entries(u, "deposit_reverse", d) # {}})
    + SumFunction([p \in DOMAIN payment |-> IF payment[p].account = u THEN payment[p].amount ELSE 0])
    - SumFunction([p \in DOMAIN payment |-> IF payment[p].payer = u THEN payment[p].amount ELSE 0])

(* service.go:86, the freeze keeps concurrent requests from withdrawing    *)
(* too much: what was sent or may be sent for u, together with what u can  *)
(* still spend, is covered by u's income, deposits undone by a reorg and   *)
(* payments made meanwhile included.                                       *)
NoOverdraft ==
    \A u \in Users :
        SumAmounts([i \in Rows |-> withdraw[i].amount],
                   {i \in Rows : /\ withdraw[i].user = u
                                 /\ withdraw[i].status \notin Settled \/ chain[i] # "none"})
        + ledger.account[u].available <= NetIncome(u)
=============================================================================
