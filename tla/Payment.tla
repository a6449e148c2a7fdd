------------------------------- MODULE Payment ------------------------------
(***************************************************************************)
(* Payments of a user's balance to a merchant (webhook/service.go,         *)
(* CreatePayment): one transaction inserts the payment, moves the money    *)
(* between two ledger accounts and inserts the event for the merchant.     *)
(* The merchant's row is read before that transaction begins.              *)
(***************************************************************************)
EXTENDS Ledger, Outbox, FiniteSets

CONSTANTS
    Orders,        \* order_id
    PayAmounts,    \* amount_wei; parseWei accepts zero
    Clients,       \* HTTP handlers in CreatePayment
    MaxPayments    \* bound: rows of merchant_payments

ASSUME PaymentAssumption ==
    /\ PayAmounts \subseteq Nat
    /\ MaxPayments \in Nat

VARIABLES
    merchant,      \* table webhook_merchants: enabled and ledger_user_id
    payment,       \* table merchant_payments in id order
    client         \* the call each handler is in: its parameters and the merchant it read

paymentVars == <<ledger, outbox, merchant, payment, client>>

NoAccount == "-"
NoCall == [merchant |-> "-"]

PaymentInit ==
    /\ LedgerInit
    /\ OutboxInit
    /\ merchant \in [Merchants -> [enabled : {TRUE}, account : Users]]
    /\ payment = <<>>
    /\ client = [c \in Clients |-> NoCall]

-----------------------------------------------------------------------------
(* RegisterMerchant / UpsertMerchant of a merchant that is there already.  *)
RegisterMerchant(m, enabled, account) ==
    /\ merchant' = [merchant EXCEPT ![m] = [enabled |-> enabled, account |-> account]]
    /\ UNCHANGED <<ledger, outbox, payment, client>>

(* "pay:" + merchant + ":" + order.  Two orders whose ids make the same     *)
(* string behave as if the client of one had sent the key of the other.    *)
PayKey(m, o) == <<"pay", m, o>>

PaymentKeys == ClientKeys \union {PayKey(m, o) : m \in Merchants, o \in Orders}

(* The key of the request, whatever it is, or the default.                 *)
KeysOf(m, o) == ClientKeys \union {PayKey(m, o)}

(* CreatePayment up to BeginTx: the merchant is enabled and has a ledger   *)
(* account.                                                                *)
BeginPayment(c, m, o, u, a, k) ==
    /\ client[c] = NoCall
    /\ merchant[m].enabled
    /\ merchant[m].account # NoAccount
    /\ client' = [client EXCEPT ![c] = [merchant |-> m, order |-> o, payer |-> u, amount |-> a,
                                        key |-> k, account |-> merchant[m].account]]
    /\ UNCHANGED <<ledger, outbox, merchant, payment>>

(* Mutants: one of the two unique keys is missing.                         *)
DuplicateKey(p) == \E i \in DOMAIN payment : payment[i].key = p.key

DuplicateOrder(p) ==
    \E i \in DOMAIN payment : payment[i].merchant = p.merchant /\ payment[i].order = p.order

(* InsertPaymentTx meets uk_payment_order or uk_payment_idem.              *)
DuplicatePayment(p) ==
    \E i \in DOMAIN payment :
        \/ payment[i].merchant = p.merchant /\ payment[i].order = p.order
        \/ payment[i].key = p.key

(* Mutants: both rows are read before either is written; the credit is     *)
(* left out.                                                               *)
TransferReadFirst(l, payer, payee, a, id) ==
    WriteLedger(WriteLedger(l, payer, l.account[payer], debitPayment(id, a)),
                payee, l.account[payee], creditPayment(id, a))

TransferDebitOnly(l, payer, payee, a, id) == applyLedgerTx(l, payer, debitPayment(id, a))

(* TransferInternalTx: debit of the payer, then credit of the merchant.    *)
TransferInternalTx(l, payer, payee, a, id) ==
    applyLedgerTx(applyLedgerTx(l, payer, debitPayment(id, a)), payee, creditPayment(id, a))

CommitPayment(c) ==
    LET p  == client[c]
        id == Len(payment) + 1
    IN  /\ p # NoCall
        /\ id <= MaxPayments
        /\ ~DuplicatePayment(p)
        /\ CanApply(ledger.account[p.payer], debitPayment(id, p.amount))
        /\ payment' = Append(payment, p)
        /\ ledger' = TransferInternalTx(ledger, p.payer, p.account, p.amount, id)
        /\ outbox' = InsertOutboxTx(outbox, p.merchant, EventPaymentSuccess, p.key)
        /\ client' = [client EXCEPT ![c] = NoCall]
        /\ UNCHANGED merchant

(* A duplicate, ErrInsufficientBalance, a lost connection: the deferred    *)
(* Rollback leaves nothing behind.                                         *)
EndPayment(c) ==
    /\ client[c] # NoCall
    /\ client' = [client EXCEPT ![c] = NoCall]
    /\ UNCHANGED <<ledger, outbox, merchant, payment>>

(* The handlers; a merchant may be registered again by anyone at any time. *)
HandleMerchantRegister ==
    \E m \in Merchants, enabled \in BOOLEAN, account \in Users \union {NoAccount} :
        RegisterMerchant(m, enabled, account)

HandleMerchantPayment(c) ==
    \/ \E m \in Merchants, o \in Orders, u \in Users, a \in PayAmounts :
          \E k \in KeysOf(m, o) : BeginPayment(c, m, o, u, a, k)
    \/ CommitPayment(c)
    \/ EndPayment(c)

PaymentNext ==
    \/ HandleMerchantRegister
    \/ \E c \in Clients : HandleMerchantPayment(c)

(* The other writer of the outbox (Deposit).                               *)
DepositEvent ==
    /\ \E m \in Merchants, d \in Deposits :
          outbox' = InsertOutboxTx(outbox, m, EventDepositConfirmed, DepositKey(d))
    /\ UNCHANGED <<ledger, merchant, payment, client>>

PaymentSpec == PaymentInit /\ [][PaymentNext \/ DepositEvent]_paymentVars

-----------------------------------------------------------------------------
PaymentRow == [merchant : Merchants, order : Orders, payer : Users, amount : PayAmounts,
               key : PaymentKeys, account : Users]

PaymentOutboxRow == [key : PaymentKeys \union {DepositKey(d) : d \in Deposits}, merchant : Merchants,
                     event : {EventDepositConfirmed, EventPaymentSuccess}]

PaymentTypeOK ==
    /\ LedgerTypeOK
    /\ merchant \in [Merchants -> [enabled : BOOLEAN, account : Users \union {NoAccount}]]
    /\ payment \in Seq(PaymentRow)
    /\ Len(payment) <= MaxPayments
    /\ client \in [Clients -> PaymentRow \union {NoCall}]
    /\ outbox \subseteq PaymentOutboxRow

(* service.go:158 and 200, both sides of the ledger are one transaction    *)
(* and a repeated call does not charge again: every order has at most one  *)
(* payment, and every payment exactly one debit of its payer and one       *)
(* credit of the account its merchant had, of its amount.                  *)
PaidOnce ==
    /\ \A i, j \in DOMAIN payment :
          payment[i].merchant = payment[j].merchant /\ payment[i].order = payment[j].order => i = j
    /\ \A i \in DOMAIN payment, u \in Users :
          LET debits  == Entries(u, "payment_debit", i)
              credits == Entries(u, "payment_credit", i)
          IN  /\ Cardinality(debits) = (IF u = payment[i].payer THEN 1 ELSE 0)
              /\ Cardinality(credits) = (IF u = payment[i].account THEN 1 ELSE 0)
              /\ \A n \in debits \union credits : ledger.journal[u][n].op.amount = payment[i].amount

(* The transactional outbox of CreatePayment: exactly one event has the    *)
(* key of a payment, and it is the payment's own, for its merchant, unless *)
(* its client has chosen the key "deposit:<id>" of a deposit that was      *)
(* reported before; then the payment is charged and not reported.  And     *)
(* every event of a payment has its payment, whatever clients retry, share *)
(* keys, take the default key of another order or lose the race for one.   *)
EventPerPayment ==
    /\ \A i \in DOMAIN payment : \E r \in outbox :
          /\ OutboxRows(payment[i].key) = {r}
          /\ \/ r.event = EventPaymentSuccess /\ r.merchant = payment[i].merchant
             \/ r.event = EventDepositConfirmed /\ \E d \in Deposits : payment[i].key = DepositKey(d)
    /\ \A r \in outbox : r.event = EventPaymentSuccess =>
          \E i \in DOMAIN payment : payment[i].key = r.key /\ payment[i].merchant = r.merchant

-----------------------------------------------------------------------------
(* The inductive invariant: no entry of a payment that is not there, so    *)
(* that the entries of the next one are its own.                           *)
PaymentEntriesKnown ==
    \A u \in Users : \A n \in DOMAIN ledger.journal[u] :
        ledger.journal[u][n].op.type \in {"payment_debit", "payment_credit"} =>
            ledger.journal[u][n].op.refID \in DOMAIN payment

PaymentInv ==
    /\ PaymentTypeOK /\ JournalReplays /\ PaymentEntriesKnown /\ PaidOnce
    /\ EventsKeyed(outbox) /\ EventPerPayment
=============================================================================
