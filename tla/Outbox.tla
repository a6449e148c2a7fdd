------------------------------- MODULE Outbox -------------------------------
(***************************************************************************)
(* Table webhook_outbox as the writers see it: an event is inserted in the *)
(* transaction of the credit or the payment it reports (transactional      *)
(* outbox), once per idempotency key.  Module Webhook has the delivery.    *)
(*                                                                         *)
(* The keys are one namespace.  Those of deposits are derived, those of    *)
(* payments are taken from the request as they are.                        *)
(***************************************************************************)
CONSTANTS
    Merchants,   \* webhook_merchants.merchant_id
    Deposits,    \* deposits.id
    ClientKeys   \* the idempotency keys clients choose, any key a deposit or an order has included

VARIABLE
    outbox       \* the rows: idempotency key, merchant and event type

EventDepositConfirmed == "deposit.confirmed"
EventPaymentSuccess == "payment.success"

OutboxInit == outbox = {}

(* fmt.Sprintf("deposit:%d", dep.ID)                                       *)
DepositKey(d) == <<"deposit", d>>

(* InsertOutboxTx: uk_webhook_idem is (chain_id, idempotency_key), without *)
(* the merchant and the event type, and a duplicate is no error.           *)
InsertOutboxTx(ob, m, e, k) ==
    IF \E r \in ob : r.key = k THEN ob ELSE ob \union {[key |-> k, merchant |-> m, event |-> e]}

OutboxRows(k) == {r \in outbox : r.key = k}

(* What the unique key and the two writers make of the table: a key has    *)
(* one row, and the row of a deposit has a deposit's key.                  *)
EventsKeyed(ob) ==
    /\ \A q, r \in ob : q.key = r.key => q = r
    /\ \A r \in ob : \/ r.event = EventPaymentSuccess
                     \/ r.event = EventDepositConfirmed /\ \E d \in Deposits : r.key = DepositKey(d)
=============================================================================
