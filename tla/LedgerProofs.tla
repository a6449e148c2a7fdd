---------------------------- MODULE LedgerProofs ----------------------------
(***************************************************************************)
(* What applyLedgerTx preserves, and with it the safety of the three       *)
(* components that book on the ledger: merchant payments (module Payment), *)
(* withdrawals (module Withdraw and its abstract form Payout) and deposits *)
(* (module Deposit).  Each part is about the specification of its own      *)
(* component; module ExchangeProofs puts them together.                    *)
(***************************************************************************)
EXTENDS Exchange, SumProofs

-----------------------------------------------------------------------------
(* THE LEDGER                                                              *)
LedgerType == [account : [Users -> Account], journal : [Users -> Seq(Entry)]]

(* The deltas of an operation are integers.                                *)
LEMMA DeltaTypes ==
    ASSUME NEW op \in LedgerOp
    PROVE  deltaAvail(op) \in Int /\ deltaFrozen(op) \in Int
  BY DEF LedgerOp, EntryTypes, deltaAvail, deltaFrozen

(* The entry applyLedgerTx inserts for u.                                  *)
NewEntry(l, u, op) ==
    [op |-> op, available |-> l.account[u].available + deltaAvail(op),
                frozen |-> l.account[u].frozen + deltaFrozen(op)]

(* applyLedgerTx keeps the ledger well-typed and appends one entry to one  *)
(* journal, if it does not end in ErrInsufficientBalance.                  *)
LEMMA ApplyLedger ==
    ASSUME NEW l \in LedgerType, NEW u \in Users, NEW op \in LedgerOp,
           CanApply(l.account[u], op),
           NEW m, m = applyLedgerTx(l, u, op)
    PROVE  /\ m \in LedgerType
           /\ \A v \in Users : v # u => m.journal[v] = l.journal[v]
           /\ \A v \in Users : v # u => m.account[v] = l.account[v]
           /\ NewEntry(l, u, op) \in Entry
           /\ m.journal[u] = Append(l.journal[u], NewEntry(l, u, op))
           /\ m.account[u].available = NewEntry(l, u, op).available
           /\ m.account[u].frozen = NewEntry(l, u, op).frozen
  <1> DEFINE avail == l.account[u].available + deltaAvail(op)
             froz  == l.account[u].frozen + deltaFrozen(op)
             row   == [exists |-> TRUE, available |-> avail, frozen |-> froz]
             entry == [op |-> op, available |-> avail, frozen |-> froz]
  <1>1. /\ l.account \in [Users -> Account]
        /\ l.journal \in [Users -> Seq(Entry)]
    BY DEF LedgerType
  <1>2. avail \in Nat /\ froz \in Nat
    BY <1>1, DeltaTypes DEF Account, CanApply
  <1>3. row \in Account /\ entry \in Entry
    BY <1>2 DEF Account, Entry
  <1>4. m = [account |-> [l.account EXCEPT ![u] = row],
             journal |-> [l.journal EXCEPT ![u] = Append(l.journal[u], entry)]]
    BY DEF applyLedgerTx, WriteLedger
  <1> HIDE DEF row, entry
  <1>5. [l.account EXCEPT ![u] = row] \in [Users -> Account]
    BY <1>1, <1>3
  <1>6. Append(l.journal[u], entry) \in Seq(Entry)
    BY <1>1, <1>3
  <1>7. [l.journal EXCEPT ![u] = Append(l.journal[u], entry)] \in [Users -> Seq(Entry)]
    BY <1>1, <1>6
  <1>8. m \in LedgerType
    BY <1>4, <1>5, <1>7 DEF LedgerType
  <1>9. /\ \A v \in Users : v # u => m.journal[v] = l.journal[v]
        /\ \A v \in Users : v # u => m.account[v] = l.account[v]
        /\ m.journal[u] = Append(l.journal[u], entry)
        /\ m.account[u] = row
    BY <1>1, <1>4
  <1> QED
    BY <1>3, <1>8, <1>9 DEF row, entry, NewEntry

(* applyLedgerTx keeps every journal replaying.                            *)
LEMMA ApplyReplays ==
    ASSUME NEW l \in LedgerType, NEW u \in Users, NEW op \in LedgerOp,
           CanApply(l.account[u], op),
           NEW m, m = applyLedgerTx(l, u, op),
           \A v \in Users : Replays(l, v)
    PROVE  \A v \in Users : Replays(m, v)
  <1> DEFINE entry == NewEntry(l, u, op)
  <1>1. /\ m \in LedgerType
        /\ \A v \in Users : v # u => m.journal[v] = l.journal[v]
        /\ \A v \in Users : v # u => m.account[v] = l.account[v]
        /\ m.journal[u] = Append(l.journal[u], entry)
        /\ entry \in Entry
        /\ m.account[u].available = entry.available
        /\ m.account[u].frozen = entry.frozen
    BY ApplyLedger
  <1>2. l.journal[u] \in Seq(Entry) /\ l.account[u] \in Account
    BY DEF LedgerType
  <1>3. /\ entry.op = op
        /\ entry.available = l.account[u].available + deltaAvail(op)
        /\ entry.frozen = l.account[u].frozen + deltaFrozen(op)
    BY DEF NewEntry
  <1> HIDE DEF entry
  <1> DEFINE J == l.journal[u]
             K == m.journal[u]
             n0 == Len(J)
  <1>4. /\ n0 \in Nat /\ Len(K) = n0 + 1 /\ DOMAIN K = 1..(n0 + 1) /\ DOMAIN J = 1..n0
        /\ \A n \in 1..n0 : K[n] = J[n]
        /\ K[n0 + 1] = entry
    BY <1>1, <1>2
  <1>5. \A n \in 0..n0 : BalanceAfter(m, u, n) = BalanceAfter(l, u, n)
    BY <1>4, SMTT(60) DEF BalanceAfter
  <1>6. BalanceAfter(m, u, n0 + 1) = [available |-> entry.available, frozen |-> entry.frozen]
    BY <1>4 DEF BalanceAfter
  <1>7. /\ l.account[u].available = BalanceAfter(l, u, n0).available
        /\ l.account[u].frozen = BalanceAfter(l, u, n0).frozen
        /\ \A n \in 1..n0 : Continues(l, u, n)
    BY <1>4 DEF Replays
  <1>8. ASSUME NEW n \in 1..n0 PROVE Continues(m, u, n)
    <2>1. n \in 0..n0 /\ n - 1 \in 0..n0 /\ K[n] = J[n]
      BY <1>4
    <2>2. /\ BalanceAfter(m, u, n) = BalanceAfter(l, u, n)
          /\ BalanceAfter(m, u, n - 1) = BalanceAfter(l, u, n - 1)
      BY <2>1, <1>5
    <2> QED BY <2>1, <2>2, <1>7 DEF Continues
  <1>9. Continues(m, u, n0 + 1)
    <2>1. BalanceAfter(m, u, (n0 + 1) - 1) = BalanceAfter(l, u, n0)
      BY <1>4, <1>5
    <2>2. m.journal[u][n0 + 1].op = op
      BY <1>3, <1>4
    <2> QED BY <2>1, <2>2, <1>3, <1>6, <1>7 DEF Continues
  <1>10. Replays(m, u)
    BY <1>1, <1>4, <1>6, <1>8, <1>9 DEF Replays
  <1>11. ASSUME NEW v \in Users, v # u PROVE Replays(m, v)
    BY <1>1, <1>11, SMTT(60) DEF Replays, Continues, BalanceAfter
  <1> QED BY <1>10, <1>11

(* The opening balances replay too.                                        *)
LEMMA OpeningReplays ==
    ASSUME LedgerInit
    PROVE  LedgerTypeOK /\ JournalReplays
  <1>1. \A u \in Users : OpeningEntry(u) \in Entry
    BY LedgerAssumption DEF OpeningEntry, creditDeposit, Entry, LedgerOp, EntryTypes, RefTypes
  <1>2. LedgerTypeOK
    BY <1>1, LedgerAssumption DEF LedgerInit, LedgerTypeOK, MissingRow, Account
  <1>3. ASSUME NEW u \in Users PROVE Replays(ledger, u)
    <2>1. CASE Opening[u] = 0
      <3>1. /\ ledger.journal[u] = <<>>
            /\ ledger.account[u].available = 0
            /\ ledger.account[u].frozen = 0
        BY <2>1 DEF LedgerInit, MissingRow
      <3> QED BY <3>1 DEF Replays, BalanceAfter
    <2>2. CASE Opening[u] # 0
      <3>1. /\ ledger.journal[u] = <<OpeningEntry(u)>>
            /\ ledger.account[u].available = Opening[u]
            /\ ledger.account[u].frozen = 0
        BY <2>2, LedgerAssumption DEF LedgerInit
      <3>2. /\ OpeningEntry(u).available = Opening[u] /\ OpeningEntry(u).frozen = 0
            /\ deltaAvail(OpeningEntry(u).op) = Opening[u]
            /\ deltaFrozen(OpeningEntry(u).op) = 0
        BY DEF OpeningEntry, creditDeposit, deltaAvail, deltaFrozen
      <3>3. Opening[u] \in Nat
        BY LedgerAssumption
      <3> QED BY <3>1, <3>2, <3>3 DEF Replays, Continues, BalanceAfter
    <2> QED BY <2>1, <2>2
  <1> QED BY <1>2, <1>3 DEF JournalReplays

-----------------------------------------------------------------------------
(* MERCHANT PAYMENTS, for any users, merchants, orders, keys, amounts and  *)
(* clients.  CreatePayment books twice in one transaction: the two         *)
(* bookings are followed through the journal (BookedEntries), and the id   *)
(* of the payment is new to it (PaymentEntriesKnown).                      *)

EntriesIn(l, u, type, id) ==
    {i \in DOMAIN l.journal[u] : l.journal[u][i].op.type = type /\ l.journal[u][i].op.refID = id}

(* What one booking of op for u, as entry k, does to all the journals.     *)
Adds(l, u, op, m, k) ==
    /\ m \in LedgerType
    /\ \A v \in Users : \A n \in DOMAIN l.journal[v] :
          n \in DOMAIN m.journal[v] /\ m.journal[v][n] = l.journal[v][n]
    /\ \A v \in Users : \A n \in DOMAIN m.journal[v] :
          n \in DOMAIN l.journal[v] \/ (v = u /\ m.journal[v][n].op = op)
    /\ \A v \in Users : \A type, id :
          v # u \/ type # op.type \/ id # op.refID => EntriesIn(m, v, type, id) = EntriesIn(l, v, type, id)
    /\ EntriesIn(m, u, op.type, op.refID) = EntriesIn(l, u, op.type, op.refID) \union {k}
    /\ m.journal[u][k].op = op

(* applyLedgerTx does that.                                                *)
LEMMA BookedEntries ==
    ASSUME NEW l \in LedgerType, NEW u \in Users, NEW op \in LedgerOp,
           CanApply(l.account[u], op), NEW m, m = applyLedgerTx(l, u, op)
    PROVE  \E k : Adds(l, u, op, m, k)
  <1> DEFINE entry == NewEntry(l, u, op)
             J == l.journal[u]
             K == m.journal[u]
  <1>1. /\ m \in LedgerType
        /\ \A v \in Users : v # u => m.journal[v] = l.journal[v]
        /\ K = Append(J, entry)
        /\ entry \in Entry
    BY ApplyLedger
  <1>2. J \in Seq(Entry)
    BY DEF LedgerType
  <1>3. entry.op = op
    BY DEF NewEntry
  <1> HIDE DEF entry
  <1>4. /\ Len(J) \in Nat /\ DOMAIN J = 1..Len(J) /\ DOMAIN K = 1..(Len(J) + 1)
        /\ \A n \in DOMAIN J : K[n] = J[n]
        /\ K[Len(J) + 1] = entry
    BY <1>1, <1>2
  <1>5. \A v \in Users : \A n \in DOMAIN l.journal[v] :
            n \in DOMAIN m.journal[v] /\ m.journal[v][n] = l.journal[v][n]
    BY <1>1, <1>4
  <1>6. ASSUME NEW v \in Users, NEW n \in DOMAIN m.journal[v]
        PROVE  n \in DOMAIN l.journal[v] \/ (v = u /\ m.journal[v][n].op = op)
    <2>1. CASE v = u
      BY <1>3, <1>4, <2>1
    <2>2. CASE v # u
      BY <1>1, <2>2
    <2> QED BY <2>1, <2>2
  <1>7. ASSUME NEW v \in Users, NEW type, NEW id, v # u \/ type # op.type \/ id # op.refID
        PROVE  EntriesIn(m, v, type, id) = EntriesIn(l, v, type, id)
    BY <1>5, <1>6, <1>7 DEF EntriesIn
  <1>8. EntriesIn(m, u, op.type, op.refID) = EntriesIn(l, u, op.type, op.refID) \union {Len(J) + 1}
    <2>1. DOMAIN K = DOMAIN J \union {Len(J) + 1} /\ K[Len(J) + 1].op = op
      BY <1>3, <1>4
    <2> QED BY <1>4, <2>1 DEF EntriesIn
  <1>9. Adds(l, u, op, m, Len(J) + 1)
    BY <1>1, <1>3, <1>4, <1>5, <1>6, <1>7, <1>8 DEF Adds
  <1> QED BY <1>9

(* The two operations of TransferInternalTx.                               *)
LEMMA PaymentOps ==
    ASSUME NEW id \in Nat, NEW a \in PayAmounts
    PROVE  /\ debitPayment(id, a) \in LedgerOp /\ creditPayment(id, a) \in LedgerOp
           /\ debitPayment(id, a).type = "payment_debit" /\ creditPayment(id, a).type = "payment_credit"
           /\ debitPayment(id, a).refID = id /\ creditPayment(id, a).refID = id
           /\ debitPayment(id, a).amount = a /\ creditPayment(id, a).amount = a
           /\ \A row \in Account : CanApply(row, creditPayment(id, a))
  <1>1. a \in Nat
    BY PaymentAssumption
  <1>2. /\ debitPayment(id, a) \in LedgerOp /\ creditPayment(id, a) \in LedgerOp
        /\ debitPayment(id, a).type = "payment_debit" /\ creditPayment(id, a).type = "payment_credit"
        /\ debitPayment(id, a).refID = id /\ creditPayment(id, a).refID = id
        /\ debitPayment(id, a).amount = a /\ creditPayment(id, a).amount = a
    BY <1>1 DEF debitPayment, creditPayment, LedgerOp, EntryTypes, RefTypes
  <1>3. deltaAvail(creditPayment(id, a)) = a /\ deltaFrozen(creditPayment(id, a)) = 0
    BY <1>2 DEF deltaAvail, deltaFrozen
  <1>4. \A row \in Account : CanApply(row, creditPayment(id, a))
    BY <1>1, <1>3 DEF CanApply, Account
  <1> QED BY <1>2, <1>4

(* What the journal shows of payment i, as PaidOnce asks.                  *)
BookedTwice(l, i, payer, payee, a) ==
    \A u \in Users :
        /\ Cardinality(EntriesIn(l, u, "payment_debit", i)) = (IF u = payer THEN 1 ELSE 0)
        /\ Cardinality(EntriesIn(l, u, "payment_credit", i)) = (IF u = payee THEN 1 ELSE 0)
        /\ \A n \in EntriesIn(l, u, "payment_debit", i) \union EntriesIn(l, u, "payment_credit", i) :
              l.journal[u][n].op.amount = a

(* The transfer for payment id, which the journal does not know yet, books *)
(* that payment and leaves every other as it was.                          *)
LEMMA Transferred ==
    ASSUME NEW l \in LedgerType, NEW payer \in Users, NEW payee \in Users,
           NEW a \in PayAmounts, NEW id \in Nat, NEW m,
           CanApply(l.account[payer], debitPayment(id, a)),
           m = TransferInternalTx(l, payer, payee, a, id),
           \A v \in Users : /\ EntriesIn(l, v, "payment_debit", id) = {}
                            /\ EntriesIn(l, v, "payment_credit", id) = {}
    PROVE  /\ m \in LedgerType
           /\ (\A v \in Users : Replays(l, v)) => \A v \in Users : Replays(m, v)
           /\ \A v \in Users : \A n \in DOMAIN m.journal[v] :
                 \/ n \in DOMAIN l.journal[v] /\ m.journal[v][n] = l.journal[v][n]
                 \/ m.journal[v][n].op.refID = id
           /\ BookedTwice(m, id, payer, payee, a)
           /\ \A i \in Nat : \A u, v, b : i # id /\ BookedTwice(l, i, u, v, b) => BookedTwice(m, i, u, v, b)
  <1>1. PICK d, c, h : /\ d = debitPayment(id, a) /\ c = creditPayment(id, a)
                       /\ h = applyLedgerTx(l, payer, d)
    OBVIOUS
  <1>2. /\ d \in LedgerOp /\ c \in LedgerOp /\ d.type = "payment_debit" /\ c.type = "payment_credit"
        /\ d.refID = id /\ c.refID = id /\ d.amount = a /\ c.amount = a
        /\ \A row \in Account : CanApply(row, c)
    BY <1>1, PaymentOps
  <1>3. /\ CanApply(l.account[payer], d)
        /\ h = applyLedgerTx(l, payer, d) /\ m = applyLedgerTx(h, payee, c)
    BY <1>1 DEF TransferInternalTx
  <1>4. PICK x : Adds(l, payer, d, h, x)
    BY <1>2, <1>3, BookedEntries
  <1>5. h \in LedgerType /\ CanApply(h.account[payee], c)
    BY <1>2, <1>4 DEF Adds, LedgerType
  <1>6. PICK y : Adds(h, payee, c, m, y)
    BY <1>2, <1>3, <1>5, BookedEntries
  <1>7. (\A v \in Users : Replays(l, v)) => \A v \in Users : Replays(m, v)
    <2>1. (\A v \in Users : Replays(l, v)) => \A v \in Users : Replays(h, v)
      BY <1>2, <1>3, ApplyReplays
    <2>2. (\A v \in Users : Replays(h, v)) => \A v \in Users : Replays(m, v)
      BY <1>2, <1>3, <1>5, ApplyReplays
    <2> QED BY <2>1, <2>2
  <1>8. ASSUME NEW v \in Users, NEW n \in DOMAIN m.journal[v]
        PROVE  \/ n \in DOMAIN l.journal[v] /\ m.journal[v][n] = l.journal[v][n]
               \/ m.journal[v][n].op.refID = id
    BY <1>2, <1>4, <1>6 DEF Adds
  <1>9. \A v \in Users :
           /\ EntriesIn(m, v, "payment_debit", id) = IF v = payer THEN {x} ELSE {}
           /\ EntriesIn(m, v, "payment_credit", id) = IF v = payee THEN {y} ELSE {}
    <2> SUFFICES ASSUME NEW v \in Users
                 PROVE  /\ EntriesIn(m, v, "payment_debit", id) = IF v = payer THEN {x} ELSE {}
                        /\ EntriesIn(m, v, "payment_credit", id) = IF v = payee THEN {y} ELSE {}
      OBVIOUS
    <2>1. EntriesIn(m, v, "payment_debit", id) = EntriesIn(h, v, "payment_debit", id)
      BY <1>2, <1>6 DEF Adds
    <2>2. EntriesIn(h, v, "payment_debit", id) = IF v = payer THEN {x} ELSE {}
      BY <1>2, <1>4 DEF Adds
    <2>3. EntriesIn(h, v, "payment_credit", id) = {}
      BY <1>2, <1>4 DEF Adds
    <2>4. EntriesIn(m, v, "payment_credit", id) = IF v = payee THEN {y} ELSE {}
      BY <1>2, <1>6, <2>3 DEF Adds
    <2> QED BY <2>1, <2>2, <2>4
  <1>10. m.journal[payer][x].op = d
    <2>1. x \in EntriesIn(h, payer, d.type, d.refID)
      BY <1>4 DEF Adds
    <2>2. x \in DOMAIN h.journal[payer]
      BY <2>1 DEF EntriesIn
    <2> QED BY <1>4, <1>6, <2>2 DEF Adds
  <1>11. BookedTwice(m, id, payer, payee, a)
    <2>1. Cardinality({x}) = 1 /\ Cardinality({y}) = 1 /\ Cardinality({}) = 0
      BY FS_Singleton, FS_EmptySet
    <2>2. ASSUME NEW v \in Users
          PROVE  /\ Cardinality(EntriesIn(m, v, "payment_debit", id)) = (IF v = payer THEN 1 ELSE 0)
                 /\ Cardinality(EntriesIn(m, v, "payment_credit", id)) = (IF v = payee THEN 1 ELSE 0)
      BY <1>9, <2>1
    <2>3. ASSUME NEW v \in Users,
                 NEW n \in EntriesIn(m, v, "payment_debit", id) \union EntriesIn(m, v, "payment_credit", id)
          PROVE  m.journal[v][n].op.amount = a
      <3>1. (v = payer /\ n = x) \/ (v = payee /\ n = y)
        BY <1>9
      <3> QED BY <1>2, <1>6, <1>10, <3>1 DEF Adds
    <2> QED BY <2>2, <2>3 DEF BookedTwice
  <1>12. ASSUME NEW i \in Nat, NEW u, NEW w, NEW b, i # id, BookedTwice(l, i, u, w, b)
         PROVE  BookedTwice(m, i, u, w, b)
    <2>1. \A v \in Users : \A type : EntriesIn(m, v, type, i) = EntriesIn(l, v, type, i)
      BY <1>2, <1>4, <1>6, <1>12 DEF Adds
    <2>2. \A v \in Users : \A type : \A n \in EntriesIn(l, v, type, i) : m.journal[v][n] = l.journal[v][n]
      BY <1>4, <1>6 DEF EntriesIn, Adds
    <2>3. ASSUME NEW v \in Users,
                 NEW n \in EntriesIn(l, v, "payment_debit", i) \union EntriesIn(l, v, "payment_credit", i)
          PROVE  m.journal[v][n].op.amount = b
      BY <1>12, <2>2 DEF BookedTwice
    <2>4. \A v \in Users :
             /\ Cardinality(EntriesIn(m, v, "payment_debit", i)) = (IF v = u THEN 1 ELSE 0)
             /\ Cardinality(EntriesIn(m, v, "payment_credit", i)) = (IF v = w THEN 1 ELSE 0)
      BY <1>12, <2>1, ZenonT(60) DEF BookedTwice
    <2>5. \A v \in Users :
             \A n \in EntriesIn(m, v, "payment_debit", i) \union EntriesIn(m, v, "payment_credit", i) :
                m.journal[v][n].op.amount = b
      BY <2>1, <2>3
    <2> QED BY <2>4, <2>5, Zenon DEF BookedTwice
  <1> QED BY <1>6, <1>7, <1>8, <1>11, <1>12 DEF Adds

-----------------------------------------------------------------------------
(* PaidOnce, without its helpers.                                          *)
OneRowPerOrder ==
    \A i, j \in DOMAIN payment :
        payment[i].merchant = payment[j].merchant /\ payment[i].order = payment[j].order => i = j

(* The two ways of saying it are the same.                                 *)
LEMMA PaidOnceParts ==
    PaidOnce <=> /\ OneRowPerOrder
                 /\ \A i \in DOMAIN payment :
                       BookedTwice(ledger, i, payment[i].payer, payment[i].account, payment[i].amount)
  <1>1. \A u, type, i : Entries(u, type, i) = EntriesIn(ledger, u, type, i)
    BY DEF Entries, EntriesIn
  <1> QED BY <1>1, Zenon DEF PaidOnce, OneRowPerOrder, BookedTwice

(* A call that is under way is a payment row.                              *)
LEMMA PaymentFacts ==
    ASSUME PaymentInv
    PROVE  /\ ledger \in LedgerType
           /\ payment \in Seq(PaymentRow) /\ Len(payment) \in Nat /\ DOMAIN payment = 1..Len(payment)
           /\ \A i \in DOMAIN payment : payment[i] \in PaymentRow
           /\ client \in [Clients -> PaymentRow \union {NoCall}]
           /\ \A c \in Clients : client[c] # NoCall => client[c] \in PaymentRow
           /\ outbox \subseteq PaymentOutboxRow
           /\ \A i \in DOMAIN payment :
                 BookedTwice(ledger, i, payment[i].payer, payment[i].account, payment[i].amount)
           /\ OneRowPerOrder
  <1>1. /\ ledger \in LedgerType
        /\ payment \in Seq(PaymentRow)
        /\ client \in [Clients -> PaymentRow \union {NoCall}]
        /\ outbox \subseteq PaymentOutboxRow
    BY DEF PaymentInv, PaymentTypeOK, LedgerTypeOK, LedgerType
  <1>2. /\ OneRowPerOrder
        /\ \A i \in DOMAIN payment :
              BookedTwice(ledger, i, payment[i].payer, payment[i].account, payment[i].amount)
    BY PaidOnceParts DEF PaymentInv
  <1> QED BY <1>1, <1>2

(* PaidOnce and PaymentEntriesKnown of any ledger and payments.            *)
PaymentsBooked(l, pay) ==
    /\ \A v \in Users : \A n \in DOMAIN l.journal[v] :
          l.journal[v][n].op.type \in {"payment_debit", "payment_credit"} => l.journal[v][n].op.refID \in DOMAIN pay
    /\ \A i, j \in DOMAIN pay : pay[i].merchant = pay[j].merchant /\ pay[i].order = pay[j].order => i = j
    /\ \A i \in DOMAIN pay : BookedTwice(l, i, pay[i].payer, pay[i].account, pay[i].amount)

(* Together they say that.                                                 *)
LEMMA PaymentsBookedMeans == PaymentsBooked(ledger, payment) <=> PaymentEntriesKnown /\ PaidOnce
  BY PaidOnceParts, Zenon DEF PaymentsBooked, PaymentEntriesKnown, OneRowPerOrder

(* more is pay with the new payment r.                                     *)
Recorded(pay, r, more) == r \in PaymentRow /\ more = Append(pay, r)

(* One more payment of an order that has none, and its transfer, keep it.  *)
LEMMA PaymentBooked ==
    ASSUME NEW l \in LedgerType, NEW pay \in Seq(PaymentRow), PaymentsBooked(l, pay),
           NEW p, NEW more, Recorded(pay, p, more),
           \A i \in DOMAIN pay : ~(pay[i].merchant = p.merchant /\ pay[i].order = p.order),
           NEW id, id = Len(pay) + 1, CanApply(l.account[p.payer], debitPayment(id, p.amount)),
           NEW m, m = TransferInternalTx(l, p.payer, p.account, p.amount, id)
    PROVE  PaymentsBooked(m, more)
  <1>1. /\ id \in Nat /\ id \notin DOMAIN pay
        /\ DOMAIN more = DOMAIN pay \union {id} /\ more[id] = p
        /\ \A i \in DOMAIN pay : more[i] = pay[i] /\ i \in Nat /\ i # id
    BY DEF Recorded
  <1>2. \A v \in Users : /\ EntriesIn(l, v, "payment_debit", id) = {}
                         /\ EntriesIn(l, v, "payment_credit", id) = {}
    BY <1>1 DEF PaymentsBooked, EntriesIn
  <1>3. PICK payer \in Users, payee \in Users, a \in PayAmounts :
           payer = p.payer /\ payee = p.account /\ a = p.amount
    BY DEF PaymentRow, Recorded
  <1>4. /\ \A v \in Users : \A n \in DOMAIN m.journal[v] :
              \/ n \in DOMAIN l.journal[v] /\ m.journal[v][n] = l.journal[v][n]
              \/ m.journal[v][n].op.refID = id
        /\ BookedTwice(m, id, payer, payee, a)
        /\ \A i \in Nat : \A u, v, b : i # id /\ BookedTwice(l, i, u, v, b) => BookedTwice(m, i, u, v, b)
    <2>1. /\ CanApply(l.account[payer], debitPayment(id, a))
          /\ m = TransferInternalTx(l, payer, payee, a, id)
      BY <1>3
    <2> QED BY <1>1, <1>2, <2>1, Transferred
  <1>5. \A v \in Users : \A n \in DOMAIN m.journal[v] :
          m.journal[v][n].op.type \in {"payment_debit", "payment_credit"} => m.journal[v][n].op.refID \in DOMAIN more
    BY <1>1, <1>4 DEF PaymentsBooked
  <1>6. \A i, j \in DOMAIN more : more[i].merchant = more[j].merchant /\ more[i].order = more[j].order => i = j
    BY <1>1 DEF PaymentsBooked
  <1>7. ASSUME NEW i \in DOMAIN more
        PROVE  BookedTwice(m, i, more[i].payer, more[i].account, more[i].amount)
    <2>1. CASE i = id
      BY <1>1, <1>3, <1>4, <2>1
    <2>2. CASE i \in DOMAIN pay
      <3>1. BookedTwice(l, i, pay[i].payer, pay[i].account, pay[i].amount)
        BY <2>2 DEF PaymentsBooked
      <3> QED BY <1>1, <1>4, <2>2, <3>1
    <2> QED BY <1>1, <2>1, <2>2
  <1> QED  BY <1>5, <1>6, <1>7 DEF PaymentsBooked

(* The events with a key.                                                  *)
RowsIn(ob, k) == {r \in ob : r.key = k}

(* EventPerPayment of any outbox and payments: r is the event that payment *)
(* p has.                                                                  *)
Reports(r, p) ==
    \/ r.event = EventPaymentSuccess /\ r.merchant = p.merchant
    \/ r.event = EventDepositConfirmed /\ \E d \in Deposits : p.key = DepositKey(d)
Reported(ob, p) == \E r \in ob : RowsIn(ob, p.key) = {r} /\ Reports(r, p)
Explained(r, pay) ==
    r.event = EventPaymentSuccess => \E i \in DOMAIN pay : pay[i].key = r.key /\ pay[i].merchant = r.merchant
EventsGood(ob, pay) ==
    /\ \A i \in DOMAIN pay : Reported(ob, pay[i])
    /\ \A r \in ob : Explained(r, pay)

(* That is what it says.                                                   *)
LEMMA EventsMean == EventPerPayment <=> EventsGood(outbox, payment)
  BY DEF EventPerPayment, EventsGood, Reported, Reports, Explained, OutboxRows, RowsIn

(* An insert leaves the table, in which the key is taken, or adds a row.   *)
Taken(ob, k) == \E r \in ob : r.key = k
AddsEvent(ob, m, e, k, more, new) ==
    new.key = k /\ new.merchant = m /\ new.event = e /\ more = ob \union {new}

(* That is InsertOutboxTx.                                                 *)
LEMMA Inserted ==
    ASSUME NEW ob, NEW m, NEW e, NEW k, NEW more, more = InsertOutboxTx(ob, m, e, k)
    PROVE  /\ Taken(ob, k) => more = ob
           /\ ~Taken(ob, k) => \E new : AddsEvent(ob, m, e, k, more, new)
  <1>1. Taken(ob, k) => more = ob
    BY DEF InsertOutboxTx, Taken
  <1>2. ASSUME ~Taken(ob, k)
        PROVE  AddsEvent(ob, m, e, k, more, [key |-> k, merchant |-> m, event |-> e])
    BY <1>2 DEF InsertOutboxTx, Taken, AddsEvent
  <1> QED  BY <1>1, <1>2

(* The table stays keyed.                                                  *)
LEMMA InsertKeyed ==
    ASSUME NEW ob, EventsKeyed(ob), NEW m, NEW e, NEW k, NEW more, more = InsertOutboxTx(ob, m, e, k),
           \/ e = EventPaymentSuccess
           \/ e = EventDepositConfirmed /\ \E d \in Deposits : k = DepositKey(d)
    PROVE  EventsKeyed(more)
  <1>1. CASE Taken(ob, k)
    BY <1>1, Inserted
  <1>2. CASE ~Taken(ob, k)
    <2>1. PICK new : AddsEvent(ob, m, e, k, more, new)
      BY <1>2, Inserted, Zenon
    <2>2. ASSUME NEW q \in more, NEW r \in more, q.key = r.key
          PROVE  q = r
      BY <1>2, <2>1, <2>2 DEF EventsKeyed, AddsEvent, Taken
    <2>3. ASSUME NEW r \in more
          PROVE  \/ r.event = EventPaymentSuccess
                 \/ r.event = EventDepositConfirmed /\ \E d \in Deposits : r.key = DepositKey(d)
      <3>1. r \in ob \/ (r.key = k /\ r.event = e)
        BY <2>1 DEF AddsEvent
      <3>2. CASE r \in ob
        BY <3>2, Zenon DEF EventsKeyed
      <3>3. CASE r.key = k /\ r.event = e
        BY <3>3, Zenon
      <3> QED  BY <3>1, <3>2, <3>3
    <2> QED  BY <2>2, <2>3 DEF EventsKeyed
  <1>3. Taken(ob, k) \/ ~Taken(ob, k)
    OBVIOUS
  <1> QED  BY <1>1, <1>2, <1>3, Zenon

(* The event of a payment of a key that no payment has.                    *)
LEMMA PaymentEventGood ==
    ASSUME NEW ob, NEW pay \in Seq(PaymentRow), EventsKeyed(ob), EventsGood(ob, pay),
           NEW p, NEW more, Recorded(pay, p, more), \A i \in DOMAIN pay : pay[i].key # p.key,
           NEW after, after = InsertOutboxTx(ob, p.merchant, EventPaymentSuccess, p.key)
    PROVE  EventsGood(after, more)
  <1>1. PICK id : /\ DOMAIN more = DOMAIN pay \union {id} /\ more[id] = p
                  /\ \A i \in DOMAIN pay : more[i] = pay[i]
    <2>1. /\ DOMAIN more = DOMAIN pay \union {Len(pay) + 1} /\ more[Len(pay) + 1] = p
          /\ \A i \in DOMAIN pay : more[i] = pay[i]
      BY DEF Recorded
    <2> QED  BY <2>1
  <1>2. CASE Taken(ob, p.key)
    <2>1. after = ob /\ \E r \in ob : r.key = p.key
      BY <1>2, Inserted DEF Taken
    <2>2. PICK r \in ob : r.key = p.key
      BY <2>1
    <2>3. r.event # EventPaymentSuccess
      BY <2>2 DEF EventsGood, Explained
    <2>4. Reports(r, p)
      BY <2>2, <2>3 DEF EventsKeyed, Reports
    <2>5. RowsIn(ob, p.key) = {r}
      BY <2>2 DEF EventsKeyed, RowsIn
    <2>6. \A i \in DOMAIN more : Reported(ob, more[i])
      BY <1>1, <2>4, <2>5 DEF EventsGood, Reported
    <2>7. \A q \in ob : Explained(q, more)
      BY <1>1 DEF EventsGood, Explained
    <2> QED  BY <2>1, <2>6, <2>7 DEF EventsGood
  <1>3. CASE ~Taken(ob, p.key)
    <2>1. PICK new : AddsEvent(ob, p.merchant, EventPaymentSuccess, p.key, after, new)
      BY <1>3, Inserted, Zenon
    <2>2. RowsIn(after, p.key) = {new} /\ Reports(new, p) /\ new \in after
      BY <1>3, <2>1 DEF RowsIn, Reports, AddsEvent, Taken
    <2>3. ASSUME NEW i \in DOMAIN pay PROVE Reported(after, pay[i])
      <3>1. RowsIn(after, pay[i].key) = RowsIn(ob, pay[i].key)
        BY <2>1 DEF RowsIn, AddsEvent
      <3> QED  BY <2>1, <3>1 DEF EventsGood, Reported, AddsEvent
    <2>4. \A i \in DOMAIN more : Reported(after, more[i])
      BY <1>1, <2>2, <2>3 DEF Reported
    <2>5. \A q \in ob : Explained(q, more)
      BY <1>1 DEF EventsGood, Explained
    <2>6. Explained(new, more)
      BY <1>1, <2>1 DEF Explained, AddsEvent
    <2> QED  BY <2>1, <2>4, <2>5, <2>6 DEF EventsGood, AddsEvent
  <1> QED  BY <1>2, <1>3

(* The event of a deposit.                                                 *)
LEMMA DepositEventGood ==
    ASSUME NEW ob, NEW pay, EventsGood(ob, pay), NEW m, NEW d,
           NEW after, after = InsertOutboxTx(ob, m, EventDepositConfirmed, DepositKey(d))
    PROVE  EventsGood(after, pay)
  <1>1. CASE Taken(ob, DepositKey(d))
    BY <1>1, Inserted
  <1>2. CASE ~Taken(ob, DepositKey(d))
    <2>1. PICK new : AddsEvent(ob, m, EventDepositConfirmed, DepositKey(d), after, new)
      BY <1>2, Inserted, Zenon
    <2>2. ASSUME NEW i \in DOMAIN pay PROVE Reported(after, pay[i])
      <3>1. PICK r \in ob : RowsIn(ob, pay[i].key) = {r} /\ Reports(r, pay[i])
        BY DEF EventsGood, Reported
      <3>2. pay[i].key # new.key
        BY <1>2, <2>1, <3>1 DEF RowsIn, AddsEvent, Taken
      <3>3. RowsIn(after, pay[i].key) = RowsIn(ob, pay[i].key)
        BY <2>1, <3>2 DEF RowsIn, AddsEvent
      <3> QED  BY <2>1, <3>1, <3>3 DEF Reported, AddsEvent
    <2>3. Explained(new, pay)
      BY <2>1 DEF Explained, AddsEvent, EventDepositConfirmed, EventPaymentSuccess
    <2> QED  BY <2>1, <2>2, <2>3 DEF EventsGood, AddsEvent
  <1> QED  BY <1>1, <1>2

(* The same of the next state.                                             *)
LEMMA EventsMeanNext == EventPerPayment' <=> EventsGood(outbox', payment')
  <1>1. EventPerPayment' <=> EventsGood(outbox, payment)'
    BY EventsMean, PTL
  <1> QED  BY <1>1

(* Steps that touch neither the books nor the payments.                    *)
LEMMA BooksUnchanged ==
    ASSUME PaymentInv, UNCHANGED <<ledger, outbox, payment>>,
           merchant' \in [Merchants -> [enabled : BOOLEAN, account : Users \union {NoAccount}]],
           client' \in [Clients -> PaymentRow \union {NoCall}]
    PROVE  PaymentInv'
  <1>1. PaymentTypeOK'
    BY DEF PaymentInv, PaymentTypeOK, LedgerTypeOK, PaymentRow, PaymentKeys
  <1>2. JournalReplays' /\ PaymentEntriesKnown'
    BY DEF PaymentInv, JournalReplays, PaymentEntriesKnown
  <1>3. PaidOnce' /\ EventsKeyed(outbox)' /\ EventPerPayment'
    <2>1. (/\ OneRowPerOrder
           /\ \A i \in DOMAIN payment :
                 BookedTwice(ledger, i, payment[i].payer, payment[i].account, payment[i].amount))'
      BY PaymentFacts DEF OneRowPerOrder
    <2>2. PaidOnce'
      BY <2>1, PaidOnceParts, PTL
    <2>3. EventPerPayment' /\ EventsKeyed(outbox)'
      BY EventsMean, EventsMeanNext DEF PaymentInv
    <2> QED BY <2>2, <2>3
  <1> QED BY <1>1, <1>2, <1>3 DEF PaymentInv

(* CreatePayment up to BeginTx.                                            *)
LEMMA BeginGood ==
    ASSUME PaymentInv, NEW c \in Clients, NEW m \in Merchants, NEW o \in Orders, NEW u \in Users,
           NEW a \in PayAmounts, NEW k \in KeysOf(m, o), BeginPayment(c, m, o, u, a, k)
    PROVE  PaymentInv'
  <1> DEFINE p == [merchant |-> m, order |-> o, payer |-> u, amount |-> a,
                   key |-> k, account |-> merchant[m].account]
  <1>1. merchant \in [Merchants -> [enabled : BOOLEAN, account : Users \union {NoAccount}]]
    BY DEF PaymentInv, PaymentTypeOK
  <1>2. merchant[m].account \in Users
    BY <1>1 DEF BeginPayment
  <1>3. k \in PaymentKeys
    BY DEF KeysOf, PaymentKeys
  <1>4. p \in PaymentRow
    BY <1>2, <1>3 DEF PaymentRow
  <1>5. client' = [client EXCEPT ![c] = p]
    BY DEF BeginPayment
  <1> HIDE DEF p
  <1>6. client' \in [Clients -> PaymentRow \union {NoCall}]
    BY <1>4, <1>5, PaymentFacts
  <1>7. UNCHANGED <<ledger, outbox, payment, merchant>>
    BY DEF BeginPayment
  <1> QED BY <1>1, <1>6, <1>7, BooksUnchanged

(* The transaction of CreatePayment.                                       *)
LEMMA CommitGood ==
    ASSUME PaymentInv, NEW c \in Clients, CommitPayment(c)
    PROVE  PaymentInv'
  <1> DEFINE id == Len(payment) + 1
  <1>1. PICK p \in PaymentRow : p = client[c]
    BY PaymentFacts DEF CommitPayment
  <1>2. /\ id <= MaxPayments /\ ~DuplicatePayment(p)
        /\ CanApply(ledger.account[p.payer], debitPayment(id, p.amount))
        /\ payment' = Append(payment, p)
        /\ ledger' = TransferInternalTx(ledger, p.payer, p.account, p.amount, id)
        /\ outbox' = InsertOutboxTx(outbox, p.merchant, EventPaymentSuccess, p.key)
        /\ client' = [client EXCEPT ![c] = NoCall]
        /\ UNCHANGED merchant
    BY <1>1 DEF CommitPayment
  <1>3. p.payer \in Users /\ p.account \in Users /\ p.amount \in PayAmounts /\ p.key \in PaymentKeys
        /\ p.merchant \in Merchants
    BY DEF PaymentRow
  <1>4. id \in Nat /\ id \notin DOMAIN payment
    BY PaymentFacts
  <1>5. /\ payment' \in Seq(PaymentRow) /\ Len(payment') = id /\ DOMAIN payment' = DOMAIN payment \union {id}
        /\ payment'[id] = p /\ \A i \in DOMAIN payment : payment'[i] = payment[i] /\ i \in Nat /\ i # id
    BY <1>2, PaymentFacts
  <1> HIDE DEF id
  <1>6. \A v \in Users : /\ EntriesIn(ledger, v, "payment_debit", id) = {}
                         /\ EntriesIn(ledger, v, "payment_credit", id) = {}
    BY <1>4 DEF PaymentInv, PaymentEntriesKnown, EntriesIn
  <1>7. PICK payer \in Users, payee \in Users, a \in PayAmounts :
           payer = p.payer /\ payee = p.account /\ a = p.amount
    BY <1>3
  <1>8. /\ ledger' \in LedgerType
        /\ (\A v \in Users : Replays(ledger, v)) => \A v \in Users : Replays(ledger', v)
        /\ \A v \in Users : \A n \in DOMAIN ledger'.journal[v] :
              \/ n \in DOMAIN ledger.journal[v] /\ ledger'.journal[v][n] = ledger.journal[v][n]
              \/ ledger'.journal[v][n].op.refID = id
        /\ BookedTwice(ledger', id, payer, payee, a)
        /\ \A i \in Nat : \A u, v, b : i # id /\ BookedTwice(ledger, i, u, v, b) => BookedTwice(ledger', i, u, v, b)
    <2>1. /\ CanApply(ledger.account[payer], debitPayment(id, a))
          /\ ledger' = TransferInternalTx(ledger, payer, payee, a, id)
          /\ ledger \in LedgerType
      BY <1>2, <1>7, PaymentFacts
    <2> QED BY <1>4, <1>6, <2>1, Transferred
  <1>9. PaymentTypeOK'
    <2>1. outbox' \subseteq PaymentOutboxRow
      BY <1>2, <1>3, PaymentFacts DEF InsertOutboxTx, PaymentOutboxRow
    <2>2. client' \in [Clients -> PaymentRow \union {NoCall}]
      BY <1>2, PaymentFacts
    <2>3. LedgerTypeOK'
      BY <1>8 DEF LedgerTypeOK, LedgerType
    <2> QED BY <1>2, <1>5, <2>1, <2>2, <2>3 DEF PaymentInv, PaymentTypeOK, PaymentRow, PaymentKeys
  <1>10. JournalReplays'
    BY <1>8 DEF PaymentInv, JournalReplays
  <1>11. PaymentEntriesKnown' /\ PaidOnce'
    <2>1. PaymentsBooked(ledger, payment)
      BY PaymentsBookedMeans DEF PaymentInv
    <2>2. \A i \in DOMAIN payment : ~(payment[i].merchant = p.merchant /\ payment[i].order = p.order)
      BY <1>2 DEF DuplicatePayment
    <2>3. Recorded(payment, p, payment')
      BY <1>2 DEF Recorded
    <2>4. ledger \in LedgerType /\ payment \in Seq(PaymentRow) /\ id = Len(payment) + 1
      BY PaymentFacts DEF id
    <2>5. PaymentsBooked(ledger', payment')
      BY <1>2, <2>1, <2>2, <2>3, <2>4, PaymentBooked
    <2>6. PaymentsBooked(ledger, payment)'
      BY <2>5
    <2> QED  BY <2>6, PaymentsBookedMeans, PTL
  <1>12. EventsKeyed(outbox)' /\ EventPerPayment'
    <2>1. EventsKeyed(outbox) /\ EventsGood(outbox, payment)
      BY EventsMean DEF PaymentInv
    <2>2. \A i \in DOMAIN payment : payment[i].key # p.key
      BY <1>2 DEF DuplicatePayment
    <2>3. Recorded(payment, p, payment') /\ payment \in Seq(PaymentRow)
      BY <1>2, PaymentFacts DEF Recorded
    <2>4. EventsGood(outbox', payment')
      BY <1>2, <2>1, <2>2, <2>3, PaymentEventGood
    <2>5. EventsKeyed(outbox')
      BY <1>2, <2>1, InsertKeyed
    <2> QED  BY <2>4, <2>5, EventsMeanNext
  <1> QED BY <1>9, <1>10, <1>11, <1>12 DEF PaymentInv

-----------------------------------------------------------------------------
(* The invariant holds before the first payment, ...                       *)
LEMMA PaymentInvInit == PaymentInit => PaymentInv
  <1> SUFFICES ASSUME PaymentInit
               PROVE  PaymentInv
    OBVIOUS
  <1>1. LedgerTypeOK /\ JournalReplays
    BY OpeningReplays DEF PaymentInit
  <1>2. payment = <<>> /\ outbox = {} /\ client = [c \in Clients |-> NoCall]
    BY DEF PaymentInit, OutboxInit
  <1>3. merchant \in [Merchants -> [enabled : BOOLEAN, account : Users \union {NoAccount}]]
    BY DEF PaymentInit
  <1>4. PaymentTypeOK
    BY <1>1, <1>2, <1>3, PaymentAssumption DEF PaymentTypeOK
  <1>5. PaymentEntriesKnown
    <2>1. \A u \in Users : ledger.journal[u] = <<>> \/ ledger.journal[u] = <<OpeningEntry(u)>>
      BY DEF PaymentInit, LedgerInit
    <2>2. \A u : OpeningEntry(u).op.type = "deposit_credit"
      BY DEF OpeningEntry, creditDeposit
    <2> QED BY <2>1, <2>2 DEF PaymentEntriesKnown
  <1>6. PaidOnce /\ EventPerPayment
    BY <1>2 DEF PaidOnce, EventPerPayment
  <1>7. EventsKeyed(outbox)
    BY <1>2 DEF EventsKeyed
  <1> QED BY <1>1, <1>4, <1>5, <1>6, <1>7 DEF PaymentInv

(* The event of a deposit, which is not a step of the payments.            *)
LEMMA DepositEventKeeps ==
    ASSUME PaymentInv, DepositEvent
    PROVE  PaymentInv'
  <1>1. PICK m \in Merchants, d \in Deposits :
           outbox' = InsertOutboxTx(outbox, m, EventDepositConfirmed, DepositKey(d))
    BY DEF DepositEvent
  <1>2. UNCHANGED <<ledger, merchant, payment, client>>
    BY DEF DepositEvent
  <1>3. outbox' \subseteq PaymentOutboxRow
    BY <1>1, PaymentFacts DEF InsertOutboxTx, PaymentOutboxRow
  <1>4. PaymentTypeOK'
    BY <1>2, <1>3 DEF PaymentInv, PaymentTypeOK, LedgerTypeOK, PaymentRow, PaymentKeys, PaymentOutboxRow
  <1>5. JournalReplays' /\ PaymentEntriesKnown'
    BY <1>2 DEF PaymentInv, JournalReplays, PaymentEntriesKnown
  <1>6. PaidOnce'
    <2>1. (/\ OneRowPerOrder
           /\ \A i \in DOMAIN payment :
                 BookedTwice(ledger, i, payment[i].payer, payment[i].account, payment[i].amount))'
      BY <1>2, PaymentFacts DEF OneRowPerOrder
    <2> QED  BY <2>1, PaidOnceParts, PTL
  <1>7. EventsGood(outbox', payment') /\ EventsKeyed(outbox')
    <2>1. EventsKeyed(outbox) /\ EventsGood(outbox, payment)
      BY EventsMean DEF PaymentInv
    <2> QED  BY <1>1, <1>2, <2>1, DepositEventGood, InsertKeyed
  <1> QED  BY <1>4, <1>5, <1>6, <1>7, EventsMeanNext DEF PaymentInv

(* ... and every step preserves it.                                        *)
LEMMA PaymentInvNext == PaymentInv /\ [PaymentNext \/ DepositEvent]_paymentVars => PaymentInv'
  <1> SUFFICES ASSUME PaymentInv, [PaymentNext \/ DepositEvent]_paymentVars
               PROVE  PaymentInv'
    OBVIOUS
  <1>1. /\ merchant \in [Merchants -> [enabled : BOOLEAN, account : Users \union {NoAccount}]]
        /\ client \in [Clients -> PaymentRow \union {NoCall}]
    BY DEF PaymentInv, PaymentTypeOK
  <1>2. CASE UNCHANGED paymentVars
    BY <1>1, <1>2, BooksUnchanged DEF paymentVars
  <1>3. CASE HandleMerchantRegister
    <2>1. PICK m \in Merchants, enabled \in BOOLEAN, account \in Users \union {NoAccount} :
             RegisterMerchant(m, enabled, account)
      BY <1>3 DEF HandleMerchantRegister
    <2>2. merchant' \in [Merchants -> [enabled : BOOLEAN, account : Users \union {NoAccount}]]
      BY <1>1, <2>1 DEF RegisterMerchant
    <2> QED BY <1>1, <2>1, <2>2, BooksUnchanged DEF RegisterMerchant
  <1>4. ASSUME NEW c \in Clients, EndPayment(c)
        PROVE  PaymentInv'
    <2>1. client' \in [Clients -> PaymentRow \union {NoCall}]
      BY <1>1, <1>4 DEF EndPayment
    <2> QED BY <1>1, <1>4, <2>1, BooksUnchanged DEF EndPayment
  <1> QED BY <1>2, <1>3, <1>4, BeginGood, CommitGood, DepositEventKeeps DEF PaymentNext, HandleMerchantPayment

(* Every behaviour of the payments keeps PaymentInv, with the types.       *)
THEOREM PaymentInvariant == PaymentSpec => []PaymentInv
  BY PaymentInvInit, PaymentInvNext, PTL DEF PaymentSpec

(* CreatePayment (service.go:158 and 200): an order is paid at most once,  *)
(* and each payment is exactly one debit and one credit of its amount.     *)
THEOREM OrdersPaidOnce == PaymentSpec => []PaidOnce
  <1>1. PaymentInv => PaidOnce
    BY DEF PaymentInv
  <1> QED BY <1>1, PaymentInvariant, PTL

(* CreatePayment: a payment has one event with its key, its own or that of *)
(* a deposit whose key it took, since InsertOutboxTx ignores a duplicate   *)
(* silently; every event of a payment has its payment.  Whatever the keys  *)
(* clients choose, and whenever deposits are reported.                     *)
THEOREM PaymentsAreReported == PaymentSpec => []EventPerPayment
  <1>1. PaymentInv => EventPerPayment
    BY DEF PaymentInv
  <1> QED BY <1>1, PaymentInvariant, PTL

(* The two bookings of TransferInternalTx leave a ledger of the right      *)
(* types whose journals explain every balance, also when payer and         *)
(* merchant are one account.                                               *)
THEOREM PaymentsReplay == PaymentSpec => [](LedgerTypeOK /\ JournalReplays)
  <1>1. PaymentInv => LedgerTypeOK /\ JournalReplays
    BY DEF PaymentInv, PaymentTypeOK
  <1> QED BY <1>1, PaymentInvariant, PTL

-----------------------------------------------------------------------------
(* WITHDRAWALS, for any users, amounts, numbers of requests, broadcasters  *)
(* and tracker goroutines.  WithdrawInv is the inductive invariant: its    *)
(* parts say who may hold a request in which status, and what in the       *)
(* tables justifies an entry of the journal.                               *)

(* The sequence with row i replaced, as the UPDATEs below write it.         *)
RowReplaced(w, i, r, x) ==
    /\ x \in Seq(Withdrawal) /\ Len(x) = Len(w) /\ DOMAIN x = DOMAIN w
    /\ x[i] = r
    /\ \A j \in DOMAIN w : j # i => x[j] = w[j]

(* The EXCEPT that replaces a row.                                        *)
LEMMA RowUpdate ==
    ASSUME NEW w \in Seq(Withdrawal), NEW i \in DOMAIN w, NEW r \in Withdrawal
    PROVE  RowReplaced(w, i, r, [w EXCEPT ![i] = r])
  BY DEF RowReplaced

(* What the UPDATE that SetStatus stands for leaves and what it changes.   *)
StatusSet(w, i, s, x) ==
    /\ x \in Seq(Withdrawal) /\ Len(x) = Len(w) /\ DOMAIN x = DOMAIN w
    /\ x[i].status = s /\ x[i].hash = w[i].hash
    /\ \A j \in DOMAIN w : j # i => x[j] = w[j]

(* The EXCEPT of SetStatus.                                               *)
LEMMA StatusUpdate ==
    ASSUME NEW w \in Seq(Withdrawal), NEW i \in DOMAIN w, NEW s \in Statuses
    PROVE  StatusSet(w, i, s, [w EXCEPT ![i].status = s])
  <1> DEFINE r == [w[i] EXCEPT !.status = s]
             x == [w EXCEPT ![i].status = s]
  <1>1. w[i] \in Withdrawal
    OBVIOUS
  <1>2. r \in Withdrawal /\ r.status = s /\ r.hash = w[i].hash
    BY <1>1 DEF Withdrawal
  <1>3. x = [w EXCEPT ![i] = r]
    OBVIOUS
  <1>4. RowReplaced(w, i, r, x)
    <2> HIDE DEF r
    <2>1. RowReplaced(w, i, r, [w EXCEPT ![i] = r])
      BY <1>2, RowUpdate
    <2> HIDE DEF x
    <2> QED BY <2>1, <1>3, Zenon
  <1> HIDE DEF x, r
  <1>5. StatusSet(w, i, s, x)
    BY <1>2, <1>4 DEF RowReplaced, StatusSet
  <1> QED BY <1>5, Zenon DEF x

(* The same for the UPDATE that records the transaction.                   *)
HashSet(w, i, x) ==
    /\ x \in Seq(Withdrawal) /\ Len(x) = Len(w) /\ DOMAIN x = DOMAIN w
    /\ x[i].status = "broadcasting" /\ x[i].hash
    /\ \A j \in DOMAIN w : j # i => x[j] = w[j]

(* The EXCEPT of RecordTxHash.                                            *)
LEMMA HashUpdate ==
    ASSUME NEW w \in Seq(Withdrawal), NEW i \in DOMAIN w
    PROVE  HashSet(w, i, [w EXCEPT ![i].status = "broadcasting", ![i].hash = TRUE])
  <1> DEFINE r == [w[i] EXCEPT !.status = "broadcasting", !.hash = TRUE]
             x == [w EXCEPT ![i].status = "broadcasting", ![i].hash = TRUE]
  <1>1. w[i] \in Withdrawal
    OBVIOUS
  <1>2. r \in Withdrawal /\ r.status = "broadcasting" /\ r.hash
    BY <1>1 DEF Withdrawal, Statuses
  <1>3. x = [w EXCEPT ![i] = r]
    OBVIOUS
  <1>4. RowReplaced(w, i, r, x)
    <2> HIDE DEF r
    <2>1. RowReplaced(w, i, r, [w EXCEPT ![i] = r])
      BY <1>2, RowUpdate
    <2> HIDE DEF x
    <2> QED BY <2>1, <1>3, Zenon
  <1> HIDE DEF x, r
  <1>5. HashSet(w, i, x)
    BY <1>2, <1>4 DEF RowReplaced, HashSet
  <1> QED BY <1>5, Zenon DEF x

(* Booking one operation adds its entry and keeps all others.              *)
LEMMA Booked ==
    ASSUME LedgerTypeOK, NEW u \in Users, NEW op \in LedgerOp,
           CanApply(ledger.account[u], op), ledger' = applyLedgerTx(ledger, u, op)
    PROVE  /\ LedgerTypeOK'
           /\ \A v \in Users : \A n \in DOMAIN ledger'.journal[v] :
                 \/ ledger'.journal[v][n].op = op
                 \/ n \in DOMAIN ledger.journal[v] /\ ledger'.journal[v][n] = ledger.journal[v][n]
           /\ \A type, id : HasEntry(type, id) => HasEntry(type, id)'
           /\ HasEntry(op.type, op.refID)'
  <1> DEFINE entry == NewEntry(ledger, u, op)
             J == ledger.journal[u]
             K == ledger'.journal[u]
  <1>1. ledger \in LedgerType
    BY DEF LedgerTypeOK, LedgerType
  <1>2. /\ ledger' \in LedgerType
        /\ \A v \in Users : v # u => ledger'.journal[v] = ledger.journal[v]
        /\ K = Append(J, entry)
        /\ entry \in Entry
    BY <1>1, ApplyLedger
  <1>3. J \in Seq(Entry)
    BY <1>1 DEF LedgerType
  <1>4. entry.op = op
    BY DEF NewEntry
  <1> HIDE DEF entry
  <1>5. /\ Len(J) \in Nat /\ DOMAIN J = 1..Len(J) /\ DOMAIN K = 1..(Len(J) + 1)
        /\ \A n \in DOMAIN J : K[n] = J[n]
        /\ K[Len(J) + 1] = entry
    BY <1>2, <1>3
  <1>6. \A n \in DOMAIN K : K[n].op = op \/ (n \in DOMAIN J /\ K[n] = J[n])
    BY <1>4, <1>5
  <1>7. \A v \in Users : \A n \in DOMAIN ledger.journal[v] :
            n \in DOMAIN ledger'.journal[v] /\ ledger'.journal[v][n] = ledger.journal[v][n]
    BY <1>2, <1>5
  <1>8. \A type, id : HasEntry(type, id) => HasEntry(type, id)'
    BY <1>7 DEF HasEntry
  <1>9. HasEntry(op.type, op.refID)'
    <2>1. Len(J) + 1 \in DOMAIN K /\ K[Len(J) + 1].op = op
      BY <1>4, <1>5
    <2> QED BY <2>1 DEF HasEntry
  <1>10. LedgerTypeOK'
    BY <1>2 DEF LedgerTypeOK, LedgerType
  <1>11. ASSUME NEW v \in Users, NEW n \in DOMAIN ledger'.journal[v]
         PROVE  \/ ledger'.journal[v][n].op = op
                \/ n \in DOMAIN ledger.journal[v] /\ ledger'.journal[v][n] = ledger.journal[v][n]
    <2>1. CASE v = u
      BY <2>1, <1>6
    <2>2. CASE v # u
      BY <2>2, <1>2
    <2> QED BY <2>1, <2>2
  <1> QED BY <1>8, <1>9, <1>10, <1>11

-----------------------------------------------------------------------------
(* The parts of the invariant as facts.                                    *)
LEMMA Facts ==
    ASSUME WithdrawInv
    PROVE  /\ LedgerTypeOK /\ withdraw \in Seq(Withdrawal) /\ Len(withdraw) \in Nat
           /\ Len(withdraw) <= MaxWithdraws
           /\ Rows = 1..Len(withdraw) /\ Rows \subseteq Ids
           /\ chain \in [Ids -> {"none", "signed", "pending", "mined", "reverted"}]
           /\ \A i \in Rows : withdraw[i].user \in Users /\ withdraw[i].amount \in Nat
                                /\ withdraw[i].hash \in BOOLEAN
  <1>1. /\ LedgerTypeOK /\ withdraw \in Seq(Withdrawal) /\ Len(withdraw) \in Nat
        /\ Len(withdraw) <= MaxWithdraws
        /\ Rows = 1..Len(withdraw) /\ Rows \subseteq Ids
        /\ chain \in [Ids -> {"none", "signed", "pending", "mined", "reverted"}]
    BY WithdrawAssumption DEF WithdrawInv, WithdrawTypeOK, Rows, Ids
  <1>2. \A i \in Rows : withdraw[i] \in Withdrawal
    BY <1>1
  <1>3. \A r \in Withdrawal : r.user \in Users /\ r.amount \in Nat /\ r.hash \in BOOLEAN
    BY WithdrawAssumption DEF Withdrawal
  <1> QED BY <1>1, <1>2, <1>3

(* No withdraw_* entry has ref_type 'deposit', so hasLedgerEntryTx never   *)
(* finds one.                                                              *)
LEMMA WithdrawEntriesNotFound ==
    ASSUME WithdrawInv, NEW id,
           NEW type \in {"withdraw_freeze", "withdraw_unfreeze", "withdraw_debit"}
    PROVE  ~hasLedgerEntryTx(ledger, id, type)
  BY DEF WithdrawInv, EntriesJustified, JustifiedEntry, hasLedgerEntryTx

(* FailWithdrawAndUnfreezeTx therefore only sets the status.               *)
LEMMA FailOnlyMarks ==
    ASSUME WithdrawInv, NEW i \in Rows, FailWithdrawAndUnfreezeTx(i)
    PROVE  ledger' = ledger /\ StatusSet(withdraw, i, "failed", withdraw')
  <1>1. ledger' = ledger
    BY WithdrawEntriesNotFound DEF FailWithdrawAndUnfreezeTx
  <1>2. withdraw' = [withdraw EXCEPT ![i].status = "failed"]
    BY DEF FailWithdrawAndUnfreezeTx, SetStatus
  <1>3. StatusSet(withdraw, i, "failed", [withdraw EXCEPT ![i].status = "failed"])
    BY Facts, StatusUpdate DEF Rows, Statuses
  <1> QED BY <1>1, <1>2, <1>3, Zenon

(* What the journal says stays justified while requests stay rejected and  *)
(* transactions stay mined, if a new entry is justified.                   *)
LEMMA EntriesKept ==
    ASSUME EntriesJustified, NEW op, JustifiedEntry(op)',
           \A j \in Rows : /\ j \in Rows'
                           /\ withdraw[j].status = "rejected" => withdraw'[j].status = "rejected"
                           /\ chain[j] = "mined" => chain'[j] = "mined",
           \A v \in Users : \A n \in DOMAIN ledger'.journal[v] :
              \/ ledger'.journal[v][n].op = op
              \/ n \in DOMAIN ledger.journal[v] /\ ledger'.journal[v][n] = ledger.journal[v][n]
    PROVE  EntriesJustified'
  BY DEF EntriesJustified, JustifiedEntry

(* The same when nothing is booked.                                        *)
LEMMA EntriesStay ==
    ASSUME EntriesJustified, ledger' = ledger,
           \A j \in Rows : /\ j \in Rows'
                           /\ withdraw[j].status = "rejected" => withdraw'[j].status = "rejected"
                           /\ chain[j] = "mined" => chain'[j] = "mined"
    PROVE  EntriesJustified'
  BY DEF EntriesJustified, JustifiedEntry

(* In particular while the two tables do not change.                       *)
LEMMA TablesKept ==
    ASSUME WithdrawInv, UNCHANGED <<ledger, withdraw>>,
           \A j \in Ids : chain[j] = "mined" => chain'[j] = "mined"
    PROVE  EntriesJustified' /\ ConfirmedIsDebited'
  <1>1. EntriesJustified'
    BY Facts, EntriesStay DEF WithdrawInv, Rows
  <1>2. ConfirmedIsDebited'
    BY DEF WithdrawInv, ConfirmedIsDebited, HasEntry, Rows
  <1> QED BY <1>1, <1>2

(* A confirmed request keeps its debit when a row gets another status.     *)
LEMMA DebitsKept ==
    ASSUME WithdrawInv, DOMAIN withdraw' = DOMAIN withdraw, NEW i \in Rows,
           withdraw'[i].status # "confirmed",
           \A j \in DOMAIN withdraw : j # i => withdraw'[j] = withdraw[j],
           \A type, id : HasEntry(type, id) => HasEntry(type, id)'
    PROVE  ConfirmedIsDebited'
  <1>1. ASSUME NEW j \in Rows, withdraw'[j].status = "confirmed"
        PROVE  HasEntry("withdraw_debit", j)'
    <2>1. withdraw[j].status = "confirmed"
      BY <1>1 DEF Rows
    <2>2. HasEntry("withdraw_debit", j)
      BY <2>1 DEF WithdrawInv, ConfirmedIsDebited
    <2> QED BY <2>2
  <1>2. Rows' = Rows
    BY DEF Rows
  <1> QED BY <1>1, <1>2 DEF ConfirmedIsDebited

(* The journal shows what it showed while nothing is booked.               *)
LEMMA SameEntries ==
    ASSUME UNCHANGED ledger
    PROVE  \A type, id : HasEntry(type, id) => HasEntry(type, id)'
  BY DEF HasEntry

-----------------------------------------------------------------------------
(* WithdrawInv is preserved: one lemma per action.                         *)

(* A created request has no transaction, and its freeze needs no reason.   *)
LEMMA CreateWithdrawStep ==
    ASSUME WithdrawInv, NEW u \in Users, NEW a \in Amounts, NEW k \in Keys \union {NoKey},
           CreateWithdraw(u, a, k)
    PROVE  WithdrawInv'
  <1> DEFINE n == Len(withdraw) + 1
  <1> DEFINE s == IF AutoApprove THEN "approved" ELSE "pending_review"
             r == [user |-> u, amount |-> a, key |-> k, hash |-> FALSE, status |-> s]
  <1>a. /\ withdraw' = Append(withdraw, r)
        /\ r \in Withdrawal /\ ~r.hash /\ r.status \in {"approved", "pending_review"}
    <2>1. s \in {"approved", "pending_review"} /\ s \in Statuses
      BY DEF Statuses
    <2>2. withdraw' = Append(withdraw, r)
      BY DEF CreateWithdraw
    <2> HIDE DEF s
    <2>3. r \in Withdrawal /\ ~r.hash /\ r.status = s
      BY <2>1 DEF Withdrawal
    <2> QED BY <2>1, <2>2, <2>3
  <1> HIDE DEF r, s
  <1>b. /\ withdraw' \in Seq(Withdrawal) /\ Len(withdraw') = n /\ n <= MaxWithdraws
        /\ Rows' = 1..n /\ n \in Ids /\ n \notin Rows
        /\ withdraw'[n] = r
        /\ \A j \in Rows : j \in Rows' /\ j # n /\ withdraw'[j] = withdraw[j]
    BY Facts, <1>a DEF CreateWithdraw, Rows, Ids
  <1>c. PICK op \in LedgerOp : /\ op.type = "withdraw_freeze" /\ op.refType = "withdraw"
                               /\ op.refID = n
                               /\ CanApply(ledger.account[u], op)
                               /\ ledger' = applyLedgerTx(ledger, u, op)
    BY Facts, WithdrawAssumption DEF CreateWithdraw, freezeWithdraw, LedgerOp, EntryTypes, RefTypes
  <1>d. /\ LedgerTypeOK'
        /\ \A v \in Users : \A m \in DOMAIN ledger'.journal[v] :
              \/ ledger'.journal[v][m].op = op
              \/ m \in DOMAIN ledger.journal[v] /\ ledger'.journal[v][m] = ledger.journal[v][m]
        /\ \A type, id : HasEntry(type, id) => HasEntry(type, id)'
    BY Facts, <1>c, Booked
  <1>e. UNCHANGED <<broadcaster, handler, chain, tracked>>
    BY DEF CreateWithdraw
  <1>f. chain[n] = "none"
    BY Facts, <1>b DEF WithdrawInv, OnlyApprovedIsSent
  <1> HIDE DEF n
  <1>1. WithdrawTypeOK'
    BY Facts, <1>b, <1>d, <1>e DEF WithdrawInv, WithdrawTypeOK
  <1>2. BroadcastersHold'
    BY <1>b, <1>e DEF WithdrawInv, BroadcastersHold
  <1>3. HandlersHold'
    BY <1>b, <1>e DEF WithdrawInv, HandlersHold
  <1>4. OnlyApprovedIsSent'
    BY Facts, <1>a, <1>b, <1>e, <1>f DEF WithdrawInv, OnlyApprovedIsSent, Ids
  <1>5. EntriesJustified'
    <2>1. n \in Rows'
      BY Facts, <1>b DEF Ids
    <2>2. JustifiedEntry(op)'
      BY <1>c, <2>1 DEF JustifiedEntry
    <2> QED BY <1>b, <1>d, <1>e, <2>2, EntriesKept DEF WithdrawInv
  <1>6. ConfirmedIsDebited'
    BY Facts, <1>a, <1>b, <1>d DEF WithdrawInv, ConfirmedIsDebited
  <1> QED BY <1>1, <1>2, <1>3, <1>4, <1>5, <1>6 DEF WithdrawInv

(* A repeated request only books a freeze.                                 *)
LEMMA RepeatWithdrawStep ==
    ASSUME WithdrawInv, NEW u \in Users, NEW a \in Amounts, NEW k \in Keys \union {NoKey},
           RepeatWithdraw(u, a, k)
    PROVE  WithdrawInv'
  <1>a. UNCHANGED <<withdraw, broadcaster, handler, chain, tracked>> /\ Rows' = Rows
    BY DEF RepeatWithdraw, Rows
  <1>b. PICK op \in LedgerOp : /\ op.type = "withdraw_freeze" /\ op.refType = "withdraw"
                               /\ op.refID \in Rows
                               /\ CanApply(ledger.account[u], op)
                               /\ ledger' = applyLedgerTx(ledger, u, op)
    BY Facts, WithdrawAssumption
       DEF RepeatWithdraw, SameKey, freezeWithdraw, LedgerOp, EntryTypes, RefTypes
  <1>c. /\ LedgerTypeOK'
        /\ \A v \in Users : \A m \in DOMAIN ledger'.journal[v] :
              \/ ledger'.journal[v][m].op = op
              \/ m \in DOMAIN ledger.journal[v] /\ ledger'.journal[v][m] = ledger.journal[v][m]
        /\ \A type, id : HasEntry(type, id) => HasEntry(type, id)'
    BY Facts, <1>b, Booked
  <1>1. WithdrawTypeOK'
    BY <1>a, <1>c DEF WithdrawInv, WithdrawTypeOK
  <1>2. BroadcastersHold' /\ HandlersHold' /\ OnlyApprovedIsSent'
    BY <1>a, SMTT(60) DEF WithdrawInv, BroadcastersHold, HandlersHold, OnlyApprovedIsSent
  <1>3. EntriesJustified'
    BY <1>a, <1>b, <1>c DEF WithdrawInv, EntriesJustified, JustifiedEntry
  <1>4. ConfirmedIsDebited'
    BY <1>a, <1>c DEF WithdrawInv, ConfirmedIsDebited
  <1> QED BY <1>1, <1>2, <1>3, <1>4 DEF WithdrawInv

(* ApproveWithdraw takes a request nobody holds.                           *)
LEMMA ApproveWithdrawStep ==
    ASSUME WithdrawInv, NEW i \in Rows, ApproveWithdraw(i)
    PROVE  WithdrawInv'
  <1>a. StatusSet(withdraw, i, "approved", withdraw')
    <2>1. StatusSet(withdraw, i, "approved", [withdraw EXCEPT ![i].status = "approved"])
      BY Facts, StatusUpdate DEF Rows, Statuses
    <2> QED BY <2>1, Zenon DEF ApproveWithdraw, SetStatus
  <1>b. UNCHANGED <<ledger, broadcaster, handler, chain, tracked>> /\ withdraw[i].status = "pending_review"
    BY DEF ApproveWithdraw
  <1>1. WithdrawTypeOK'
    BY Facts, <1>a, <1>b DEF StatusSet, WithdrawInv, WithdrawTypeOK, LedgerTypeOK, Rows, NotBroadcasting, NoCallback
  <1>2. BroadcastersHold'
    <2>1. \A c \in Broadcasters : broadcaster[c] # NotBroadcasting => broadcaster[c].id # i
      BY <1>b DEF WithdrawInv, BroadcastersHold
    <2>2. \A c \in Broadcasters : broadcaster[c] = NotBroadcasting => broadcaster[c].id # i
      BY Facts DEF NotBroadcasting, Rows, Ids
    <2> QED BY Facts, <1>a, <1>b, <2>1, <2>2 DEF WithdrawInv, WithdrawTypeOK, BroadcastersHold, StatusSet, Rows, NotBroadcasting
  <1>3. HandlersHold'
    BY Facts, <1>a, <1>b DEF StatusSet, WithdrawInv, WithdrawTypeOK, HandlersHold, Rows, NoCallback
  <1>4. OnlyApprovedIsSent'
    BY Facts, <1>a, <1>b DEF StatusSet, WithdrawInv, WithdrawTypeOK, OnlyApprovedIsSent, Rows, Ids
  <1>5. EntriesJustified'
    <2>1. \A j \in Rows : /\ j \in Rows'
                          /\ withdraw[j].status = "rejected" => withdraw'[j].status = "rejected"
                          /\ chain[j] = "mined" => chain'[j] = "mined"
      BY Facts, <1>a, <1>b DEF WithdrawInv, OnlyApprovedIsSent, StatusSet, Rows
    <2> QED BY <2>1, <1>a, <1>b, EntriesStay DEF WithdrawInv
  <1>6. ConfirmedIsDebited'
    BY <1>a, <1>b, DebitsKept, SameEntries DEF StatusSet
  <1> QED BY <1>1, <1>2, <1>3, <1>4, <1>5, <1>6 DEF WithdrawInv

(* RejectWithdraw books an unfreeze for a request that is rejected.        *)
LEMMA RejectWithdrawStep ==
    ASSUME WithdrawInv, NEW i \in Rows, RejectWithdraw(i)
    PROVE  WithdrawInv'
  <1>a. StatusSet(withdraw, i, "rejected", withdraw')
    <2>1. StatusSet(withdraw, i, "rejected", [withdraw EXCEPT ![i].status = "rejected"])
      BY Facts, StatusUpdate DEF Rows, Statuses
    <2> QED BY <2>1, Zenon DEF RejectWithdraw, SetStatus
  <1>b. UNCHANGED <<broadcaster, handler, chain, tracked>> /\ withdraw[i].status = "pending_review"
    BY DEF RejectWithdraw
  <1>c. PICK op \in LedgerOp : /\ op.type = "withdraw_unfreeze" /\ op.refType = "withdraw" /\ op.refID = i
                               /\ CanApply(ledger.account[withdraw[i].user], op)
                               /\ ledger' = applyLedgerTx(ledger, withdraw[i].user, op)
    BY Facts, WithdrawAssumption
       DEF RejectWithdraw, unfreezeWithdraw, LedgerOp, EntryTypes, RefTypes, Withdrawal, Rows
  <1>d. /\ LedgerTypeOK'
        /\ \A v \in Users : \A m \in DOMAIN ledger'.journal[v] :
              \/ ledger'.journal[v][m].op = op
              \/ m \in DOMAIN ledger.journal[v] /\ ledger'.journal[v][m] = ledger.journal[v][m]
        /\ \A type, id : HasEntry(type, id) => HasEntry(type, id)'
        /\ HasEntry(op.type, op.refID)'
    <2>1. withdraw[i].user \in Users
      BY Facts DEF Withdrawal, Rows
    <2> QED BY <2>1, Facts, <1>c, Booked
  <1>1. WithdrawTypeOK'
    BY Facts, <1>a, <1>b, <1>d DEF WithdrawInv, WithdrawTypeOK, StatusSet, Rows
  <1>2. BroadcastersHold'
    <2>1. \A c \in Broadcasters : broadcaster[c] # NotBroadcasting => broadcaster[c].id # i
      BY <1>b DEF WithdrawInv, BroadcastersHold
    <2>2. \A c \in Broadcasters : broadcaster[c] = NotBroadcasting => broadcaster[c].id # i
      BY Facts DEF NotBroadcasting, Rows, Ids
    <2> QED BY Facts, <1>a, <1>b, <2>1, <2>2 DEF WithdrawInv, WithdrawTypeOK, BroadcastersHold, StatusSet, Rows, NotBroadcasting
  <1>3. HandlersHold'
    BY Facts, <1>a, <1>b DEF StatusSet, WithdrawInv, WithdrawTypeOK, HandlersHold, Rows, NoCallback
  <1>4. OnlyApprovedIsSent'
    BY Facts, <1>a, <1>b DEF StatusSet, WithdrawInv, WithdrawTypeOK, OnlyApprovedIsSent, Rows, Ids
  <1>5. EntriesJustified'
    <2>1. JustifiedEntry(op)'
      BY Facts, <1>a, <1>b, <1>c DEF JustifiedEntry, StatusSet, Rows
    <2>2. \A j \in Rows : /\ j \in Rows'
                          /\ withdraw[j].status = "rejected" => withdraw'[j].status = "rejected"
                          /\ chain[j] = "mined" => chain'[j] = "mined"
      BY Facts, <1>a, <1>b DEF WithdrawInv, OnlyApprovedIsSent, StatusSet, Rows
    <2> QED BY <2>1, <2>2, <1>b, <1>d, EntriesKept DEF WithdrawInv
  <1>6. ConfirmedIsDebited'
    BY <1>a, <1>d, DebitsKept DEF StatusSet
  <1> QED BY <1>1, <1>2, <1>3, <1>4, <1>5, <1>6 DEF WithdrawInv

(* A claimed request was approved, so nobody holds it and it is unsent.    *)
LEMMA ClaimWithdrawStep ==
    ASSUME WithdrawInv, NEW b \in Broadcasters, NEW i \in Rows, ClaimWithdraw(b, i)
    PROVE  WithdrawInv'
  <1>a. StatusSet(withdraw, i, "broadcasting", withdraw')
    <2>1. StatusSet(withdraw, i, "broadcasting", [withdraw EXCEPT ![i].status = "broadcasting"])
      BY Facts, StatusUpdate DEF Rows, Statuses
    <2> QED BY <2>1, Zenon DEF ClaimWithdraw, SetStatus
  <1>b. /\ UNCHANGED <<ledger, handler, chain, tracked>> /\ withdraw[i].status = "approved"
        /\ broadcaster' = [broadcaster EXCEPT ![b] = [stage |-> "claimed", id |-> i]]
    BY DEF ClaimWithdraw
  <1>c. chain[i] = "none" /\ ~withdraw[i].hash
    BY Facts, <1>b DEF WithdrawInv, OnlyApprovedIsSent, Withdrawal, Rows
  <1>1. WithdrawTypeOK'
    BY Facts, <1>a, <1>b, <1>c DEF StatusSet, WithdrawInv, WithdrawTypeOK, LedgerTypeOK, Rows, NotBroadcasting, NoCallback
  <1>2. BroadcastersHold'
    <2>1. \A c \in Broadcasters : broadcaster[c] # NotBroadcasting => broadcaster[c].id # i
      BY <1>b DEF WithdrawInv, BroadcastersHold
    <2>2. \A c \in Broadcasters : broadcaster[c] = NotBroadcasting => broadcaster[c].id # i
      BY Facts DEF NotBroadcasting, Rows, Ids
    <2> QED BY Facts, <1>a, <1>b, <1>c, <2>1, <2>2 DEF WithdrawInv, WithdrawTypeOK, BroadcastersHold, StatusSet, Rows, NotBroadcasting
  <1>3. HandlersHold'
    BY Facts, <1>a, <1>b, <1>c DEF StatusSet, WithdrawInv, WithdrawTypeOK, HandlersHold, Rows, NoCallback
  <1>4. OnlyApprovedIsSent'
    BY Facts, <1>a, <1>b, <1>c DEF StatusSet, WithdrawInv, WithdrawTypeOK, OnlyApprovedIsSent, Rows, Ids
  <1>5. EntriesJustified'
    <2>1. \A j \in Rows : /\ j \in Rows'
                          /\ withdraw[j].status = "rejected" => withdraw'[j].status = "rejected"
                          /\ chain[j] = "mined" => chain'[j] = "mined"
      BY Facts, <1>a, <1>b DEF WithdrawInv, OnlyApprovedIsSent, StatusSet, Rows
    <2> QED BY <2>1, <1>a, <1>b, EntriesStay DEF WithdrawInv
  <1>6. ConfirmedIsDebited'
    BY <1>a, <1>b, <1>c, DebitsKept, SameEntries DEF StatusSet
  <1> QED BY <1>1, <1>2, <1>3, <1>4, <1>5, <1>6 DEF WithdrawInv

(* A broadcaster's next stage is one of its stages.                        *)
LEMMA StageTyped ==
    ASSUME WithdrawTypeOK, NEW b \in Broadcasters, UNCHANGED withdraw,
           NEW stage \in {"claimed", "persisted", "sent", "failing"}, Advance(b, stage)
    PROVE  broadcaster' \in [Broadcasters ->
              [stage : {"idle", "claimed", "persisted", "sent", "failing"}, id : Rows' \union {0}]]
  BY DEF WithdrawTypeOK, Advance, Rows

(* A failed preparation leaves tables and chain alone.                     *)
LEMMA PrepareErrorStep ==
    ASSUME WithdrawInv, NEW b \in Broadcasters, PrepareError(b)
    PROVE  WithdrawInv'
  <1>1. WithdrawTypeOK'
    <2>1. broadcaster' \in [Broadcasters ->
             [stage : {"idle", "claimed", "persisted", "sent", "failing"}, id : Rows' \union {0}]]
      BY StageTyped DEF PrepareError, WithdrawInv
    <2>2. chain' \in [Ids -> {"none", "signed", "pending", "mined", "reverted"}]
      BY Facts DEF PrepareError
    <2>3. LedgerTypeOK' /\ UNCHANGED <<withdraw, handler, tracked>>
      BY Facts DEF PrepareError, LedgerTypeOK
    <2> QED BY <2>1, <2>2, <2>3 DEF WithdrawInv, WithdrawTypeOK, Rows
  <1>2. BroadcastersHold'
    BY Facts DEF PrepareError, Advance, WithdrawInv, WithdrawTypeOK, BroadcastersHold, Rows, NotBroadcasting
  <1>3. HandlersHold'
    BY Facts DEF PrepareError, Advance, WithdrawInv, WithdrawTypeOK, HandlersHold, Rows, NoCallback
  <1>4. OnlyApprovedIsSent'
    BY Facts DEF PrepareError, Advance, WithdrawInv, WithdrawTypeOK, OnlyApprovedIsSent, Rows, Ids
  <1>5. EntriesJustified' /\ ConfirmedIsDebited'
    BY Facts, TablesKept DEF PrepareError, Advance
  <1> QED BY <1>1, <1>2, <1>3, <1>4, <1>5 DEF WithdrawInv

(* InsertSubmitting comes after the claim: the request is broadcasting.    *)
LEMMA PersistTxStep ==
    ASSUME WithdrawInv, NEW b \in Broadcasters, PersistTx(b)
    PROVE  WithdrawInv'
  <1>a. PICK i \in Rows : /\ i = broadcaster[b].id /\ i \in Ids
                          /\ withdraw[i].status = "broadcasting" /\ ~withdraw[i].hash
                          /\ chain[i] = "none"
                          /\ \A c \in Broadcasters : broadcaster[c].id = i => c = b
    BY Facts DEF PersistTx, WithdrawInv, BroadcastersHold, NotBroadcasting
  <1>b. /\ chain' = [chain EXCEPT ![i] = "signed"] /\ tracked' = tracked \union {i}
        /\ broadcaster' = [broadcaster EXCEPT ![b].stage = "persisted"] /\ broadcaster[b].stage = "claimed"
        /\ UNCHANGED <<ledger, withdraw, handler>> /\ Rows' = Rows
    BY <1>a DEF PersistTx, Advance, Rows
  <1>1. WithdrawTypeOK'
    BY Facts, <1>a, <1>b DEF WithdrawInv, WithdrawTypeOK, LedgerTypeOK, Rows, NotBroadcasting, NoCallback
  <1>2. BroadcastersHold'
    BY Facts, <1>a, <1>b DEF WithdrawInv, WithdrawTypeOK, BroadcastersHold, Rows, NotBroadcasting
  <1>3. HandlersHold'
    BY Facts, <1>a, <1>b DEF WithdrawInv, WithdrawTypeOK, HandlersHold, Rows, NoCallback
  <1>4. OnlyApprovedIsSent'
    BY Facts, <1>a, <1>b DEF WithdrawInv, WithdrawTypeOK, OnlyApprovedIsSent, Rows, Ids
  <1>5. EntriesJustified' /\ ConfirmedIsDebited'
    BY Facts, TablesKept, <1>a, <1>b
  <1> QED BY <1>1, <1>2, <1>3, <1>4, <1>5 DEF WithdrawInv

(* Sending only moves a stored transaction to the node.                    *)
LEMMA SendTxStep ==
    ASSUME WithdrawInv, NEW b \in Broadcasters, SendTx(b)
    PROVE  WithdrawInv'
  <1>1. WithdrawTypeOK'
    <2>1. broadcaster' \in [Broadcasters ->
             [stage : {"idle", "claimed", "persisted", "sent", "failing"}, id : Rows' \union {0}]]
      BY StageTyped DEF SendTx, WithdrawInv
    <2>2. chain' \in [Ids -> {"none", "signed", "pending", "mined", "reverted"}]
      BY Facts DEF SendTx, Submitted
    <2>3. LedgerTypeOK' /\ UNCHANGED <<withdraw, handler, tracked>>
      BY Facts DEF SendTx, LedgerTypeOK
    <2> QED BY <2>1, <2>2, <2>3 DEF WithdrawInv, WithdrawTypeOK, Rows
  <1>2. BroadcastersHold'
    BY Facts DEF SendTx, Advance, Submitted, WithdrawInv, WithdrawTypeOK, BroadcastersHold, Rows, NotBroadcasting
  <1>3. HandlersHold'
    BY Facts DEF SendTx, Advance, Submitted, WithdrawInv, WithdrawTypeOK, HandlersHold, Rows, NoCallback
  <1>4. OnlyApprovedIsSent'
    BY Facts DEF SendTx, Advance, Submitted, WithdrawInv, WithdrawTypeOK, OnlyApprovedIsSent, Rows, Ids
  <1>5. EntriesJustified' /\ ConfirmedIsDebited'
    BY Facts, TablesKept DEF SendTx, Advance, Submitted
  <1> QED BY <1>1, <1>2, <1>3, <1>4, <1>5 DEF WithdrawInv

(* So does an attempt that reports an error.                               *)
LEMMA SendErrorStep ==
    ASSUME WithdrawInv, NEW b \in Broadcasters, SendError(b)
    PROVE  WithdrawInv'
  <1>a. PICK i \in Rows : /\ i = broadcaster[b].id /\ i \in Ids
                          /\ withdraw[i].status = "broadcasting" /\ ~withdraw[i].hash
                          /\ \A c \in Broadcasters : broadcaster[c].id = i => c = b
    BY Facts DEF SendError, WithdrawInv, BroadcastersHold, NotBroadcasting
  <1>b. /\ chain' \in [Ids -> {"none", "signed", "pending", "mined", "reverted"}]
        /\ \A j \in Ids : \/ chain'[j] = chain[j]
                          \/ chain[j] = "signed" /\ chain'[j] = "pending"
        /\ broadcaster' = [broadcaster EXCEPT ![b].stage = "failing"] /\ broadcaster[b].stage = "persisted"
        /\ UNCHANGED <<ledger, withdraw, handler, tracked>> /\ Rows' = Rows
    BY Facts, <1>a DEF SendError, Submitted, Advance, Rows
  <1>1. WithdrawTypeOK'
    BY Facts, <1>a, <1>b DEF WithdrawInv, WithdrawTypeOK, LedgerTypeOK, Rows, NotBroadcasting, NoCallback
  <1>2. BroadcastersHold'
    BY Facts, <1>a, <1>b DEF WithdrawInv, WithdrawTypeOK, BroadcastersHold, Rows, NotBroadcasting
  <1>3. HandlersHold'
    BY Facts, <1>a, <1>b DEF WithdrawInv, WithdrawTypeOK, HandlersHold, Rows, NoCallback
  <1>4. OnlyApprovedIsSent'
    BY Facts, <1>a, <1>b DEF WithdrawInv, WithdrawTypeOK, OnlyApprovedIsSent, Rows, Ids
  <1>5. EntriesJustified' /\ ConfirmedIsDebited'
    BY Facts, TablesKept, <1>a, <1>b
  <1> QED BY <1>1, <1>2, <1>3, <1>4, <1>5 DEF WithdrawInv

(* failBroadcast marks the request failed, and only its broadcaster did.   *)
LEMMA FailBroadcastStep ==
    ASSUME WithdrawInv, NEW b \in Broadcasters, FailBroadcast(b)
    PROVE  WithdrawInv'
  <1>a. PICK i \in Rows : /\ i = broadcaster[b].id /\ i \in Ids
                          /\ withdraw[i].status = "broadcasting" /\ ~withdraw[i].hash
                          /\ \A c \in Broadcasters : broadcaster[c].id = i => c = b
    BY Facts DEF FailBroadcast, WithdrawInv, BroadcastersHold, NotBroadcasting
  <1>b. ledger' = ledger /\ StatusSet(withdraw, i, "failed", withdraw')
    BY <1>a, FailOnlyMarks DEF FailBroadcast
  <1>c. UNCHANGED <<handler, chain, tracked>> /\ broadcaster' = [broadcaster EXCEPT ![b] = NotBroadcasting]
    BY DEF FailBroadcast
  <1>1. WithdrawTypeOK'
    <2>1. LedgerTypeOK'
      BY Facts, <1>b DEF LedgerTypeOK
    <2>2. Rows' = Rows /\ withdraw' \in Seq(Withdrawal) /\ Len(withdraw') <= MaxWithdraws
      BY Facts, <1>b DEF StatusSet, Rows
    <2> QED BY <1>c, <2>1, <2>2 DEF WithdrawInv, WithdrawTypeOK, NotBroadcasting, NoCallback
  <1>2. BroadcastersHold'
    BY Facts, <1>a, <1>b, <1>c DEF StatusSet, WithdrawInv, WithdrawTypeOK, BroadcastersHold, Rows, NotBroadcasting
  <1>3. HandlersHold'
    BY Facts, <1>a, <1>b, <1>c DEF StatusSet, WithdrawInv, WithdrawTypeOK, HandlersHold, Rows, NoCallback
  <1>4. OnlyApprovedIsSent'
    BY Facts, <1>a, <1>b, <1>c, SMTT(60) DEF StatusSet, WithdrawInv, WithdrawTypeOK, OnlyApprovedIsSent, Rows, Ids
  <1>5. EntriesJustified'
    <2>1. \A j \in Rows : /\ j \in Rows'
                          /\ withdraw[j].status = "rejected" => withdraw'[j].status = "rejected"
                          /\ chain[j] = "mined" => chain'[j] = "mined"
      BY Facts, <1>a, <1>b, <1>c DEF WithdrawInv, OnlyApprovedIsSent, StatusSet, Rows
    <2> QED BY <2>1, <1>a, <1>b, <1>c, EntriesStay DEF WithdrawInv
  <1>6. ConfirmedIsDebited'
    BY <1>a, <1>b, <1>c, DebitsKept, SameEntries DEF StatusSet
  <1> QED BY <1>1, <1>2, <1>3, <1>4, <1>5, <1>6 DEF WithdrawInv

(* The tx_hash is written by the broadcaster that still holds the request. *)
LEMMA RecordTxHashStep ==
    ASSUME WithdrawInv, NEW b \in Broadcasters, RecordTxHash(b)
    PROVE  WithdrawInv'
  <1>a. PICK i \in Rows : /\ i = broadcaster[b].id /\ i \in Ids
                          /\ withdraw[i].status = "broadcasting" /\ ~withdraw[i].hash
                          /\ \A c \in Broadcasters : broadcaster[c].id = i => c = b
    BY Facts DEF RecordTxHash, WithdrawInv, BroadcastersHold, NotBroadcasting
  <1>b. HashSet(withdraw, i, withdraw')
    <2>1. HashSet(withdraw, i, [withdraw EXCEPT ![i].status = "broadcasting", ![i].hash = TRUE])
      BY Facts, HashUpdate DEF Rows
    <2> QED BY <1>a, <2>1, Zenon DEF RecordTxHash
  <1>c. UNCHANGED <<ledger, handler, chain, tracked>> /\ broadcaster' = [broadcaster EXCEPT ![b] = NotBroadcasting]
    BY DEF RecordTxHash
  <1>1. WithdrawTypeOK'
    BY Facts, <1>a, <1>b, <1>c DEF HashSet, WithdrawInv, WithdrawTypeOK, LedgerTypeOK, Rows, NotBroadcasting, NoCallback
  <1>2. BroadcastersHold'
    BY Facts, <1>a, <1>b, <1>c DEF HashSet, WithdrawInv, WithdrawTypeOK, BroadcastersHold, Rows, NotBroadcasting
  <1>3. HandlersHold'
    BY Facts, <1>a, <1>b, <1>c DEF HashSet, WithdrawInv, WithdrawTypeOK, HandlersHold, Rows, NoCallback
  <1>4. OnlyApprovedIsSent'
    BY Facts, <1>a, <1>b, <1>c DEF HashSet, WithdrawInv, WithdrawTypeOK, OnlyApprovedIsSent, Rows, Ids
  <1>5. EntriesJustified'
    <2>1. \A j \in Rows : /\ j \in Rows'
                          /\ withdraw[j].status = "rejected" => withdraw'[j].status = "rejected"
                          /\ chain[j] = "mined" => chain'[j] = "mined"
      BY Facts, <1>a, <1>b, <1>c DEF WithdrawInv, OnlyApprovedIsSent, HashSet, Rows
    <2> QED BY <2>1, <1>a, <1>b, <1>c, EntriesStay DEF WithdrawInv
  <1>6. ConfirmedIsDebited'
    BY <1>a, <1>b, <1>c, DebitsKept, SameEntries DEF HashSet
  <1> QED BY <1>1, <1>2, <1>3, <1>4, <1>5, <1>6 DEF WithdrawInv

(* Giving up a request drops one holder.                                   *)
LEMMA AbandonBroadcastStep ==
    ASSUME WithdrawInv, NEW b \in Broadcasters, AbandonBroadcast(b)
    PROVE  WithdrawInv'
  <1>1. WithdrawTypeOK'
    BY Facts DEF AbandonBroadcast, WithdrawInv, WithdrawTypeOK, LedgerTypeOK, Rows, NotBroadcasting, NoCallback
  <1>2. BroadcastersHold'
    BY Facts DEF AbandonBroadcast, WithdrawInv, WithdrawTypeOK, BroadcastersHold, Rows, NotBroadcasting
  <1>3. HandlersHold'
    BY Facts DEF AbandonBroadcast, WithdrawInv, WithdrawTypeOK, HandlersHold, Rows, NoCallback
  <1>4. OnlyApprovedIsSent'
    BY Facts DEF AbandonBroadcast, WithdrawInv, WithdrawTypeOK, OnlyApprovedIsSent, Rows, Ids
  <1>5. EntriesJustified' /\ ConfirmedIsDebited'
    BY Facts, TablesKept DEF AbandonBroadcast
  <1> QED BY <1>1, <1>2, <1>3, <1>4, <1>5 DEF WithdrawInv

(* tx.Reconciler only moves a stored transaction to the node.              *)
LEMMA RebroadcastStep ==
    ASSUME WithdrawInv, NEW i \in Rows, Rebroadcast(i)
    PROVE  WithdrawInv'
  <1>1. WithdrawTypeOK'
    BY Facts DEF Rebroadcast, Submitted, WithdrawInv, WithdrawTypeOK, LedgerTypeOK, Rows, NotBroadcasting, NoCallback
  <1>2. BroadcastersHold'
    BY Facts DEF Rebroadcast, Submitted, WithdrawInv, WithdrawTypeOK, BroadcastersHold, Rows, NotBroadcasting
  <1>3. HandlersHold'
    BY Facts DEF Rebroadcast, Submitted, WithdrawInv, WithdrawTypeOK, HandlersHold, Rows, NoCallback
  <1>4. OnlyApprovedIsSent'
    BY Facts DEF Rebroadcast, Submitted, WithdrawInv, WithdrawTypeOK, OnlyApprovedIsSent, Rows, Ids
  <1>5. EntriesJustified' /\ ConfirmedIsDebited'
    BY Facts, TablesKept DEF Rebroadcast, Submitted
  <1> QED BY <1>1, <1>2, <1>3, <1>4, <1>5 DEF WithdrawInv

(* Mining never undoes a success.                                          *)
LEMMA MineTxStep ==
    ASSUME WithdrawInv, NEW i \in Rows, MineTx(i)
    PROVE  WithdrawInv'
  <1>1. WithdrawTypeOK'
    BY Facts DEF MineTx, WithdrawInv, WithdrawTypeOK, LedgerTypeOK, Rows, NotBroadcasting, NoCallback
  <1>2. BroadcastersHold'
    BY Facts DEF MineTx, WithdrawInv, WithdrawTypeOK, BroadcastersHold, Rows, NotBroadcasting
  <1>3. HandlersHold'
    BY Facts DEF MineTx, WithdrawInv, WithdrawTypeOK, HandlersHold, Rows, NoCallback
  <1>4. OnlyApprovedIsSent'
    BY Facts DEF MineTx, WithdrawInv, WithdrawTypeOK, OnlyApprovedIsSent, Rows, Ids
  <1>5. EntriesJustified' /\ ConfirmedIsDebited'
    BY Facts, TablesKept DEF MineTx
  <1> QED BY <1>1, <1>2, <1>3, <1>4, <1>5 DEF WithdrawInv

(* trackOne starts only on a transaction that exists.                      *)
LEMMA BeginTrackStep ==
    ASSUME WithdrawInv, NEW h \in Handlers, NEW i \in Rows, BeginTrack(h, i)
    PROVE  WithdrawInv'
  <1>1. WithdrawTypeOK'
    BY Facts DEF BeginTrack, WithdrawInv, WithdrawTypeOK, LedgerTypeOK, Rows, NotBroadcasting, NoCallback
  <1>2. BroadcastersHold'
    BY Facts DEF BeginTrack, WithdrawInv, WithdrawTypeOK, BroadcastersHold, Rows, NotBroadcasting
  <1>3. HandlersHold'
    BY Facts DEF BeginTrack, WithdrawInv, WithdrawTypeOK, HandlersHold, OnlyApprovedIsSent, Rows, NoCallback
  <1>4. OnlyApprovedIsSent'
    BY Facts DEF BeginTrack, WithdrawInv, WithdrawTypeOK, OnlyApprovedIsSent, Rows, Ids
  <1>5. EntriesJustified' /\ ConfirmedIsDebited'
    BY Facts, TablesKept DEF BeginTrack
  <1> QED BY <1>1, <1>2, <1>3, <1>4, <1>5 DEF WithdrawInv

(* trackOne reports success only for a success on the chain.               *)
LEMMA TrackOneStep ==
    ASSUME WithdrawInv, NEW h \in Handlers, TrackOne(h)
    PROVE  WithdrawInv'
  <1>1. WithdrawTypeOK'
    BY Facts DEF TrackOne, WithdrawInv, WithdrawTypeOK, LedgerTypeOK, Rows, NotBroadcasting, NoCallback
  <1>2. BroadcastersHold'
    BY Facts DEF TrackOne, WithdrawInv, WithdrawTypeOK, BroadcastersHold, Rows, NotBroadcasting
  <1>3. HandlersHold'
    BY Facts DEF TrackOne, WithdrawInv, WithdrawTypeOK, HandlersHold, Rows, NoCallback
  <1>4. OnlyApprovedIsSent'
    BY Facts DEF TrackOne, WithdrawInv, WithdrawTypeOK, OnlyApprovedIsSent, Rows, Ids
  <1>5. EntriesJustified' /\ ConfirmedIsDebited'
    BY Facts, TablesKept DEF TrackOne
  <1> QED BY <1>1, <1>2, <1>3, <1>4, <1>5 DEF WithdrawInv

(* Writing pending keeps the row among those to poll.                      *)
LEMMA TrackPendingStep ==
    ASSUME WithdrawInv, NEW h \in Handlers, TrackPending(h)
    PROVE  WithdrawInv'
  <1>1. WithdrawTypeOK'
    BY Facts DEF TrackPending, WithdrawInv, WithdrawTypeOK, HandlersHold, LedgerTypeOK, Rows, NoCallback
  <1>2. BroadcastersHold'
    BY Facts DEF TrackPending, WithdrawInv, WithdrawTypeOK, BroadcastersHold, Rows, NotBroadcasting
  <1>3. HandlersHold'
    BY Facts DEF TrackPending, WithdrawInv, WithdrawTypeOK, HandlersHold, Rows, NoCallback
  <1>4. OnlyApprovedIsSent'
    BY Facts DEF TrackPending, WithdrawInv, WithdrawTypeOK, OnlyApprovedIsSent, Rows, Ids
  <1>5. EntriesJustified' /\ ConfirmedIsDebited'
    BY Facts, TablesKept DEF TrackPending
  <1> QED BY <1>1, <1>2, <1>3, <1>4, <1>5 DEF WithdrawInv

(* OnWithdrawTxConfirmed finds only a request whose tx_hash is recorded.   *)
LEMMA BeginConfirmedStep ==
    ASSUME WithdrawInv, NEW h \in Handlers, BeginConfirmed(h)
    PROVE  WithdrawInv'
  <1>1. WithdrawTypeOK'
    BY Facts DEF BeginConfirmed, WithdrawInv, WithdrawTypeOK, LedgerTypeOK, Rows, NotBroadcasting, NoCallback
  <1>2. BroadcastersHold'
    BY Facts DEF BeginConfirmed, WithdrawInv, WithdrawTypeOK, BroadcastersHold, Rows, NotBroadcasting
  <1>3. HandlersHold'
    BY Facts DEF BeginConfirmed, WithdrawInv, WithdrawTypeOK, HandlersHold, Rows, NoCallback
  <1>4. OnlyApprovedIsSent'
    BY Facts DEF BeginConfirmed, WithdrawInv, WithdrawTypeOK, OnlyApprovedIsSent, Rows, Ids
  <1>5. EntriesJustified' /\ ConfirmedIsDebited'
    BY Facts, TablesKept DEF BeginConfirmed
  <1> QED BY <1>1, <1>2, <1>3, <1>4, <1>5 DEF WithdrawInv

(* So does OnWithdrawTxFailed.                                             *)
LEMMA BeginFailedStep ==
    ASSUME WithdrawInv, NEW h \in Handlers, BeginFailed(h)
    PROVE  WithdrawInv'
  <1>1. WithdrawTypeOK'
    BY Facts DEF BeginFailed, WithdrawInv, WithdrawTypeOK, LedgerTypeOK, Rows, NotBroadcasting, NoCallback
  <1>2. BroadcastersHold'
    BY Facts DEF BeginFailed, WithdrawInv, WithdrawTypeOK, BroadcastersHold, Rows, NotBroadcasting
  <1>3. HandlersHold'
    BY Facts DEF BeginFailed, WithdrawInv, WithdrawTypeOK, HandlersHold, Rows, NoCallback
  <1>4. OnlyApprovedIsSent'
    BY Facts DEF BeginFailed, WithdrawInv, WithdrawTypeOK, OnlyApprovedIsSent, Rows, Ids
  <1>5. EntriesJustified' /\ ConfirmedIsDebited'
    BY Facts, TablesKept DEF BeginFailed
  <1> QED BY <1>1, <1>2, <1>3, <1>4, <1>5 DEF WithdrawInv

(* Leaving trackOne drops one handler.                                     *)
LEMMA EndTrackStep ==
    ASSUME WithdrawInv, NEW h \in Handlers, EndTrack(h)
    PROVE  WithdrawInv'
  <1>1. WithdrawTypeOK'
    BY Facts DEF EndTrack, WithdrawInv, WithdrawTypeOK, LedgerTypeOK, Rows, NotBroadcasting, NoCallback
  <1>2. BroadcastersHold'
    BY Facts DEF EndTrack, WithdrawInv, WithdrawTypeOK, BroadcastersHold, Rows, NotBroadcasting
  <1>3. HandlersHold'
    BY Facts DEF EndTrack, WithdrawInv, WithdrawTypeOK, HandlersHold, Rows, NoCallback
  <1>4. OnlyApprovedIsSent'
    BY Facts DEF EndTrack, WithdrawInv, WithdrawTypeOK, OnlyApprovedIsSent, Rows, Ids
  <1>5. EntriesJustified' /\ ConfirmedIsDebited'
    BY Facts, TablesKept DEF EndTrack
  <1> QED BY <1>1, <1>2, <1>3, <1>4, <1>5 DEF WithdrawInv

(* The debit OnWithdrawTxConfirmed books is of a mined transaction.        *)
LEMMA CommitConfirmedStep ==
    ASSUME WithdrawInv, NEW h \in Handlers, CommitConfirmed(h)
    PROVE  WithdrawInv'
  <1>a. PICK i \in Rows : /\ i = handler[h].id /\ i \in Ids
                          /\ chain[i] # "none" /\ withdraw[i].hash
                          /\ chain[i] = "mined"
    BY Facts DEF CommitConfirmed, WithdrawInv, HandlersHold, NoCallback
  <1>b. StatusSet(withdraw, i, "confirmed", withdraw')
    <2>1. StatusSet(withdraw, i, "confirmed", [withdraw EXCEPT ![i].status = "confirmed"])
      BY Facts, StatusUpdate DEF Rows, Statuses
    <2> QED BY <1>a, <2>1, Zenon DEF CommitConfirmed, SetStatus
  <1>c. PICK op \in LedgerOp : /\ op.type = "withdraw_debit" /\ op.refType = "withdraw" /\ op.refID = i
                               /\ CanApply(ledger.account[withdraw[i].user], op)
                               /\ ledger' = applyLedgerTx(ledger, withdraw[i].user, op)
    BY <1>a, WithdrawEntriesNotFound, Facts, WithdrawAssumption
       DEF CommitConfirmed, debitWithdraw, LedgerOp, EntryTypes, RefTypes, Withdrawal, Rows
  <1>d. /\ LedgerTypeOK'
        /\ \A v \in Users : \A m \in DOMAIN ledger'.journal[v] :
              \/ ledger'.journal[v][m].op = op
              \/ m \in DOMAIN ledger.journal[v] /\ ledger'.journal[v][m] = ledger.journal[v][m]
        /\ \A type, id : HasEntry(type, id) => HasEntry(type, id)'
        /\ HasEntry(op.type, op.refID)'
    <2>1. withdraw[i].user \in Users
      BY Facts DEF Withdrawal, Rows
    <2> QED BY <2>1, Facts, <1>c, Booked
  <1>e. /\ UNCHANGED <<broadcaster, chain, tracked>>
        /\ handler' = [handler EXCEPT ![h] = NoCallback]
    BY DEF CommitConfirmed
  <1>1. WithdrawTypeOK'
    BY Facts, <1>a, <1>b, <1>e, <1>d DEF WithdrawInv, WithdrawTypeOK, StatusSet, NoCallback, Rows
  <1>2. BroadcastersHold'
    BY Facts, <1>a, <1>b, <1>e DEF StatusSet, WithdrawInv, WithdrawTypeOK, BroadcastersHold, Rows, NotBroadcasting
  <1>3. HandlersHold'
    BY Facts, <1>a, <1>b, <1>e DEF StatusSet, WithdrawInv, WithdrawTypeOK, HandlersHold, Rows, NoCallback
  <1>4. OnlyApprovedIsSent'
    BY Facts, <1>a, <1>b, <1>e DEF StatusSet, WithdrawInv, WithdrawTypeOK, OnlyApprovedIsSent, Rows, Ids
  <1>5. EntriesJustified'
    <2>1. JustifiedEntry(op)'
      BY Facts, <1>a, <1>b, <1>e, <1>c DEF JustifiedEntry, StatusSet, Rows
    <2>2. \A j \in Rows : /\ j \in Rows'
                          /\ withdraw[j].status = "rejected" => withdraw'[j].status = "rejected"
                          /\ chain[j] = "mined" => chain'[j] = "mined"
      BY Facts, <1>a, <1>b, <1>e, <1>d DEF WithdrawInv, OnlyApprovedIsSent, StatusSet, Rows
    <2> QED BY <2>1, <2>2, <1>d, EntriesKept DEF WithdrawInv
  <1>6. ConfirmedIsDebited'
    <2>1. Rows' = Rows /\ \A j \in Rows : j # i => withdraw'[j] = withdraw[j]
      BY <1>b DEF StatusSet, Rows
    <2>2. HasEntry("withdraw_debit", i)'
      BY <1>c, <1>d
    <2>3. ASSUME NEW j \in Rows, j # i, withdraw'[j].status = "confirmed"
          PROVE  HasEntry("withdraw_debit", j)'
      <3>1. HasEntry("withdraw_debit", j)
        BY <2>1, <2>3 DEF WithdrawInv, ConfirmedIsDebited
      <3> QED BY <3>1, <1>d
    <2> QED BY <2>1, <2>2, <2>3 DEF ConfirmedIsDebited
  <1> QED BY <1>1, <1>2, <1>3, <1>4, <1>5, <1>6 DEF WithdrawInv

(* OnWithdrawTxFailed only marks the request.                              *)
LEMMA CommitFailedStep ==
    ASSUME WithdrawInv, NEW h \in Handlers, CommitFailed(h)
    PROVE  WithdrawInv'
  <1>a. PICK i \in Rows : /\ i = handler[h].id /\ i \in Ids
                          /\ chain[i] # "none" /\ withdraw[i].hash
    BY Facts DEF CommitFailed, WithdrawInv, HandlersHold, NoCallback
  <1>b. ledger' = ledger /\ StatusSet(withdraw, i, "failed", withdraw')
    BY <1>a, FailOnlyMarks DEF CommitFailed
  <1>e. /\ UNCHANGED <<broadcaster, chain, tracked>>
        /\ handler' = [handler EXCEPT ![h] = NoCallback]
    BY DEF CommitFailed
  <1>1. WithdrawTypeOK'
    <2>1. LedgerTypeOK'
      BY Facts, <1>b DEF LedgerTypeOK
    <2>2. Rows' = Rows /\ withdraw' \in Seq(Withdrawal) /\ Len(withdraw') <= MaxWithdraws
      BY Facts, <1>b DEF StatusSet, Rows
    <2> QED BY <1>e, <2>1, <2>2 DEF WithdrawInv, WithdrawTypeOK, NotBroadcasting, NoCallback
  <1>2. BroadcastersHold'
    BY Facts, <1>a, <1>b, <1>e, SMTT(60) DEF StatusSet, WithdrawInv, WithdrawTypeOK, BroadcastersHold, Rows, NotBroadcasting
  <1>3. HandlersHold'
    BY Facts, <1>a, <1>b, <1>e, ZenonT(60) DEF StatusSet, WithdrawInv, WithdrawTypeOK, HandlersHold, Rows, NoCallback
  <1>4. OnlyApprovedIsSent'
    BY Facts, <1>a, <1>b, <1>e DEF StatusSet, WithdrawInv, WithdrawTypeOK, OnlyApprovedIsSent, Rows, Ids
  <1>5. EntriesJustified'
    <2>1. \A j \in Rows : /\ j \in Rows'
                          /\ withdraw[j].status = "rejected" => withdraw'[j].status = "rejected"
                          /\ chain[j] = "mined" => chain'[j] = "mined"
      BY Facts, <1>a, <1>b, <1>e DEF WithdrawInv, OnlyApprovedIsSent, StatusSet, Rows
    <2> QED BY <2>1, <1>a, <1>b, <1>e, EntriesStay DEF WithdrawInv
  <1>6. ConfirmedIsDebited'
    BY <1>a, <1>b, <1>e, DebitsKept, SameEntries DEF StatusSet
  <1> QED BY <1>1, <1>2, <1>3, <1>4, <1>5, <1>6 DEF WithdrawInv

-----------------------------------------------------------------------------
(* The tables are empty and nobody holds anything when the process starts. *)
LEMMA WithdrawInvInit ==
    ASSUME WithdrawInit
    PROVE  WithdrawInv
  <1>1. LedgerTypeOK
    BY OpeningReplays DEF WithdrawInit
  <1>2. WithdrawTypeOK
    BY <1>1, WithdrawAssumption
       DEF WithdrawInit, WithdrawTypeOK, NotBroadcasting, NoCallback, Rows, Ids
  <1>3. BroadcastersHold /\ HandlersHold /\ OnlyApprovedIsSent /\ ConfirmedIsDebited
    BY DEF WithdrawInit, BroadcastersHold, HandlersHold, OnlyApprovedIsSent,
           ConfirmedIsDebited, Rows, Ids
  <1>4. \A u \in Users : \A n \in DOMAIN ledger.journal[u] :
            ledger.journal[u][n].op.type = "deposit_credit"
    <2>1. ASSUME NEW u \in Users, NEW n \in DOMAIN ledger.journal[u]
          PROVE  ledger.journal[u][n].op = creditDeposit(0, Opening[u])
      BY DEF WithdrawInit, LedgerInit, OpeningEntry
    <2>2. \A a : creditDeposit(0, a).type = "deposit_credit"
      BY DEF creditDeposit
    <2> QED BY <2>1, <2>2
  <1>5. EntriesJustified
    BY <1>4 DEF EntriesJustified, JustifiedEntry
  <1> QED BY <1>2, <1>3, <1>5 DEF WithdrawInv

(* Every action of the exchange, the tracker and the node keeps it.        *)
LEMMA WithdrawInvNext ==
    ASSUME WithdrawInv, [WithdrawNext]_withdrawVars
    PROVE  WithdrawInv'
  <1>1. ASSUME NEW u \in Users, NEW a \in Amounts, NEW k \in Keys \union {NoKey},
               CreateWithdraw(u, a, k) \/ RepeatWithdraw(u, a, k)
        PROVE  WithdrawInv'
    BY <1>1, CreateWithdrawStep, RepeatWithdrawStep
  <1>2. ASSUME NEW i \in Rows,
               ApproveWithdraw(i) \/ RejectWithdraw(i) \/ Rebroadcast(i) \/ MineTx(i)
        PROVE  WithdrawInv'
    BY <1>2, ApproveWithdrawStep, RejectWithdrawStep, RebroadcastStep, MineTxStep
  <1>3. ASSUME NEW b \in Broadcasters, NEW i \in Rows, ClaimWithdraw(b, i)
        PROVE  WithdrawInv'
    BY <1>3, ClaimWithdrawStep
  <1>4. ASSUME NEW b \in Broadcasters,
               \/ PrepareError(b) \/ PersistTx(b) \/ SendTx(b) \/ SendError(b)
               \/ FailBroadcast(b) \/ RecordTxHash(b) \/ AbandonBroadcast(b)
        PROVE  WithdrawInv'
    BY <1>4, PrepareErrorStep, PersistTxStep, SendTxStep, SendErrorStep, FailBroadcastStep,
       RecordTxHashStep, AbandonBroadcastStep
  <1>5. ASSUME NEW h \in Handlers, NEW i \in Rows, BeginTrack(h, i)
        PROVE  WithdrawInv'
    BY <1>5, BeginTrackStep
  <1>6. ASSUME NEW h \in Handlers,
               \/ TrackOne(h) \/ TrackPending(h) \/ BeginConfirmed(h) \/ BeginFailed(h)
               \/ CommitConfirmed(h) \/ CommitFailed(h) \/ EndTrack(h)
        PROVE  WithdrawInv'
    BY <1>6, TrackOneStep, TrackPendingStep, BeginConfirmedStep, BeginFailedStep,
       CommitConfirmedStep, CommitFailedStep, EndTrackStep, SMTT(60)
  <1>7. CASE UNCHANGED withdrawVars
    BY <1>7 DEF withdrawVars, WithdrawInv, WithdrawTypeOK, LedgerTypeOK, BroadcastersHold,
       HandlersHold, OnlyApprovedIsSent, EntriesJustified, JustifiedEntry, ConfirmedIsDebited,
       HasEntry, Rows
  <1> QED BY <1>1, <1>2, <1>3, <1>4, <1>5, <1>6, <1>7
          DEF WithdrawNext, HandleWithdrawCreate, HandleWithdrawReview

(* The inductive invariant holds however requests, reviews, broadcasts,    *)
(* tracker runs, failures and restarts interleave.                         *)
THEOREM WithdrawInvariant == WithdrawSpec => []WithdrawInv
  <1>1. WithdrawInit => WithdrawInv
    BY WithdrawInvInit
  <1>2. WithdrawInv /\ [WithdrawNext]_withdrawVars => WithdrawInv'
    BY WithdrawInvNext
  <1> QED BY <1>1, <1>2, PTL DEF WithdrawSpec

(* The tables stay well-formed: no balance goes below zero, and what a     *)
(* goroutine holds is a row that exists.                                   *)
THEOREM WithdrawTypeCorrect == WithdrawSpec => []WithdrawTypeOK
  <1>1. WithdrawInv => WithdrawTypeOK
    BY DEF WithdrawInv
  <1> QED BY <1>1, WithdrawInvariant, PTL

(* What the invariant says of claims, transactions and debits.             *)
LEMMA WithdrawInvMeans ==
    ASSUME WithdrawInv
    PROVE  ClaimExclusive /\ PaidNeverReleased /\ DebitFollowsPayment
  <1>1. ClaimExclusive
    BY DEF WithdrawInv, BroadcastersHold, ClaimExclusive
  <1>2. PaidNeverReleased
    <2> SUFFICES ASSUME NEW i \in Rows, chain[i] # "none"
                 PROVE  ~HasEntry("withdraw_unfreeze", i) /\ withdraw[i].status # "rejected"
      BY DEF PaidNeverReleased
    <2>1. withdraw[i].status # "rejected"
      BY Facts DEF WithdrawInv, OnlyApprovedIsSent
    <2>2. ~HasEntry("withdraw_unfreeze", i)
      BY <2>1 DEF WithdrawInv, EntriesJustified, JustifiedEntry, HasEntry
    <2> QED BY <2>1, <2>2
  <1>3. DebitFollowsPayment
    BY DEF WithdrawInv, EntriesJustified, JustifiedEntry, ConfirmedIsDebited,
           HasEntry, DebitFollowsPayment
  <1> QED BY <1>1, <1>2, <1>3

(* The claim of ProcessApprovedWithdraw keeps any number of broadcasters   *)
(* from working on one request, and the review out of it.                  *)
THEOREM ClaimIsExclusive == WithdrawSpec => []ClaimExclusive
  <1>1. WithdrawInv => ClaimExclusive
    BY WithdrawInvMeans
  <1> QED BY <1>1, WithdrawInvariant, PTL

(* No unfreeze is ever booked for a request that has a transaction.        *)
THEOREM PaidIsNeverReleased == WithdrawSpec => []PaidNeverReleased
  <1>1. WithdrawInv => PaidNeverReleased
    BY WithdrawInvMeans
  <1> QED BY <1>1, WithdrawInvariant, PTL

(* A debit is booked only for a transaction mined with success, and every  *)
(* confirmed request has one.                                              *)
THEOREM DebitsFollowPayments == WithdrawSpec => []DebitFollowsPayment
  <1>1. WithdrawInv => DebitFollowsPayment
    BY WithdrawInvMeans
  <1> QED BY <1>1, WithdrawInvariant, PTL

-----------------------------------------------------------------------------
(* A step books nothing, or one operation of one user, for a reason that   *)
(* the request and its transaction show.                                   *)
Books(u, op) ==
    /\ op \in LedgerOp
    /\ CanApply(ledger.account[u], op)
    /\ ledger' = applyLedgerTx(ledger, u, op)

BooksFor(u, i, a) ==
    \/ Books(u, freezeWithdraw(i, a)) /\ Rows' = Rows \union {i}
    \/ /\ Books(u, unfreezeWithdraw(i, a)) /\ Rows' = Rows
       /\ i \in Rows /\ withdraw[i].status = "pending_review"
    \/ /\ Books(u, debitWithdraw(i, a)) /\ Rows' = Rows
       /\ i \in Rows /\ chain[i] = "mined"

JournalStep ==
    \/ ledger' = ledger /\ Rows' = Rows
    \/ \E u \in Users, i \in Ids, a \in Nat : BooksFor(u, i, a)

(* The UPDATEs of withdraw_requests add no row.                            *)
LEMMA SameRows ==
    ASSUME WithdrawInv, NEW i \in Rows, NEW s \in Statuses, SetStatus(i, s)
    PROVE  Rows' = Rows
  <1>1. StatusSet(withdraw, i, s, [withdraw EXCEPT ![i].status = s])
    BY Facts, StatusUpdate DEF Rows
  <1> QED BY <1>1 DEF SetStatus, StatusSet, Rows

(* Only five actions book anything, each for one request.                  *)
LEMMA EveryStepBooks ==
    ASSUME WithdrawInv, [WithdrawNext]_withdrawVars
    PROVE  JournalStep
  <1>0. ASSUME NEW i \in Ids, NEW a \in Nat
        PROVE  /\ freezeWithdraw(i, a) \in LedgerOp
               /\ unfreezeWithdraw(i, a) \in LedgerOp
               /\ debitWithdraw(i, a) \in LedgerOp
    BY DEF freezeWithdraw, unfreezeWithdraw, debitWithdraw, LedgerOp, EntryTypes, RefTypes, Ids
  <1>1. ASSUME NEW u \in Users, NEW a \in Amounts, NEW k \in Keys \union {NoKey},
               CreateWithdraw(u, a, k)
        PROVE  JournalStep
    <2> DEFINE i == Len(withdraw) + 1
    <2>1. i \in Ids /\ a \in Nat
      BY <1>1, Facts, WithdrawAssumption DEF CreateWithdraw, Ids
    <2>2. PICK r : withdraw' = Append(withdraw, r)
      BY <1>1 DEF CreateWithdraw
    <2>3. Rows' = Rows \union {i}
      BY <2>2, Facts DEF Rows
    <2>4. Books(u, freezeWithdraw(i, a))
      BY <1>0, <1>1, <2>1 DEF CreateWithdraw, Books
    <2> HIDE DEF i
    <2> QED BY <2>1, <2>3, <2>4 DEF JournalStep, BooksFor
  <1>2. ASSUME NEW u \in Users, NEW a \in Amounts, NEW k \in Keys \union {NoKey},
               RepeatWithdraw(u, a, k)
        PROVE  JournalStep
    <2>1. PICK i \in Rows : /\ CanApply(ledger.account[u], freezeWithdraw(i, a))
                            /\ ledger' = applyLedgerTx(ledger, u, freezeWithdraw(i, a))
      BY <1>2 DEF RepeatWithdraw, SameKey
    <2>2. i \in Ids /\ a \in Nat /\ Rows' = Rows \union {i}
      BY <1>2, Facts, WithdrawAssumption DEF RepeatWithdraw, Rows
    <2>3. Books(u, freezeWithdraw(i, a))
      BY <1>0, <2>1, <2>2 DEF Books
    <2> QED BY <2>2, <2>3 DEF JournalStep, BooksFor
  <1>3. ASSUME NEW i \in Rows, RejectWithdraw(i)
        PROVE  JournalStep
    <2>1. withdraw[i].user \in Users /\ withdraw[i].amount \in Nat /\ i \in Ids
      BY Facts
    <2>2. Books(withdraw[i].user, unfreezeWithdraw(i, withdraw[i].amount))
      BY <1>0, <1>3, <2>1 DEF RejectWithdraw, Books
    <2>3. Rows' = Rows /\ withdraw[i].status = "pending_review"
      BY <1>3, SameRows DEF RejectWithdraw, Statuses
    <2> QED BY <2>1, <2>2, <2>3 DEF JournalStep, BooksFor
  <1>4. ASSUME NEW i \in Rows, FailWithdrawAndUnfreezeTx(i)
        PROVE  JournalStep
    BY <1>4, FailOnlyMarks DEF StatusSet, Rows, JournalStep
  <1>5. ASSUME NEW b \in Broadcasters, FailBroadcast(b)
        PROVE  JournalStep
    <2>1. broadcaster[b].id \in Rows
      BY <1>5 DEF FailBroadcast, NotBroadcasting, WithdrawInv, BroadcastersHold
    <2> QED BY <1>4, <1>5, <2>1 DEF FailBroadcast
  <1>6. ASSUME NEW b \in Broadcasters, RecordTxHash(b)
        PROVE  JournalStep
    <2>1. PICK i \in Rows : i = broadcaster[b].id
      BY <1>6 DEF RecordTxHash, NotBroadcasting, WithdrawInv, BroadcastersHold
    <2>2. HashSet(withdraw, i, [withdraw EXCEPT ![i].status = "broadcasting", ![i].hash = TRUE])
      BY Facts, HashUpdate DEF Rows
    <2>3. HashSet(withdraw, i, withdraw') /\ ledger' = ledger
      BY <1>6, <2>1, <2>2, Zenon DEF RecordTxHash
    <2> QED BY <2>3 DEF HashSet, Rows, JournalStep
  <1>7. ASSUME NEW h \in Handlers, CommitFailed(h)
        PROVE  JournalStep
    <2>1. handler[h].id \in Rows
      BY <1>7 DEF CommitFailed, NoCallback, WithdrawInv, HandlersHold
    <2> QED BY <1>4, <1>7, <2>1 DEF CommitFailed
  <1>8. ASSUME NEW h \in Handlers, CommitConfirmed(h)
        PROVE  JournalStep
    <2>1. PICK i \in Rows : i = handler[h].id /\ chain[i] = "mined"
      BY <1>8 DEF CommitConfirmed, NoCallback, WithdrawInv, HandlersHold
    <2>2. withdraw[i].user \in Users /\ withdraw[i].amount \in Nat /\ i \in Ids
      BY Facts
    <2>3. Books(withdraw[i].user, debitWithdraw(i, withdraw[i].amount))
      BY <1>0, <1>8, <2>1, <2>2, WithdrawEntriesNotFound DEF CommitConfirmed, Books
    <2>4. Rows' = Rows
      BY <1>8, <2>1, SameRows DEF CommitConfirmed, Statuses
    <2> QED BY <2>1, <2>2, <2>3, <2>4 DEF JournalStep, BooksFor
  <1>9. ASSUME NEW i \in Rows, ApproveWithdraw(i)
        PROVE  JournalStep
    BY <1>9, SameRows DEF ApproveWithdraw, Statuses, JournalStep
  <1>10. ASSUME NEW b \in Broadcasters, NEW i \in Rows, ClaimWithdraw(b, i)
         PROVE  JournalStep
    BY <1>10, SameRows DEF ClaimWithdraw, Statuses, JournalStep
  <1>11. ASSUME NEW i \in Rows, Rebroadcast(i) \/ MineTx(i)
         PROVE  JournalStep
    BY <1>11 DEF Rebroadcast, MineTx, JournalStep, Rows
  <1>12. ASSUME NEW b \in Broadcasters,
                PrepareError(b) \/ PersistTx(b) \/ SendTx(b) \/ SendError(b) \/ AbandonBroadcast(b)
         PROVE  JournalStep
    BY <1>12 DEF PrepareError, PersistTx, SendTx, SendError, AbandonBroadcast, JournalStep, Rows
  <1>13. ASSUME NEW h \in Handlers,
                \/ \E i \in Rows : BeginTrack(h, i)
                \/ TrackOne(h) \/ TrackPending(h) \/ BeginConfirmed(h) \/ BeginFailed(h)
                \/ EndTrack(h)
         PROVE  JournalStep
    BY <1>13 DEF BeginTrack, TrackOne, TrackPending, BeginConfirmed, BeginFailed, EndTrack,
                 JournalStep, Rows
  <1>14. CASE UNCHANGED withdrawVars
    BY <1>14 DEF withdrawVars, JournalStep, Rows
  <1> QED BY <1>1, <1>2, <1>3, <1>5, <1>6, <1>7, <1>8, <1>9, <1>10, <1>11, <1>12, <1>13, <1>14
          DEF WithdrawNext, HandleWithdrawCreate, HandleWithdrawReview

(* The journal explains every account, whatever is frozen, released and    *)
(* debited concurrently.                                                   *)
THEOREM WithdrawJournalReplays == WithdrawSpec => []JournalReplays
  <1>1. WithdrawInit => WithdrawInv /\ JournalReplays
    BY WithdrawInvInit, OpeningReplays DEF WithdrawInit
  <1>2. ASSUME WithdrawInv, JournalReplays, [WithdrawNext]_withdrawVars
        PROVE  JournalReplays'
    <2>1. ledger \in LedgerType
      BY <1>2, Facts DEF LedgerTypeOK, LedgerType
    <2>2. CASE ledger' = ledger
      BY <1>2, <2>2 DEF JournalReplays, Replays, Continues, BalanceAfter
    <2>3. ASSUME NEW u \in Users, NEW op, Books(u, op)
          PROVE  JournalReplays'
      <3>1. \A v \in Users : Replays(ledger, v)
        BY <1>2 DEF JournalReplays
      <3>2. \A v \in Users : Replays(ledger', v)
        BY <2>1, <2>3, <3>1, ApplyReplays DEF Books
      <3> QED BY <3>2 DEF JournalReplays
    <2>4. JournalStep
      BY <1>2, EveryStepBooks
    <2> QED BY <2>2, <2>3, <2>4 DEF JournalStep, BooksFor
  <1> QED BY <1>1, <1>2, WithdrawInvNext, PTL DEF WithdrawSpec

-----------------------------------------------------------------------------
(* What SettledStaysSettled says of one step.                              *)
StaysSettled ==
    \A i \in Rows :
        /\ withdraw[i].status \in Settled => withdraw'[i].status \in Settled
        /\ withdraw[i].status = "rejected" => withdraw'[i].status = "rejected"

(* An UPDATE of the status of one request settles it, or finds it open.    *)
LEMMA OneStatusStaysSettled ==
    ASSUME NEW i \in Rows, NEW s, StatusSet(withdraw, i, s, withdraw'),
           \/ withdraw[i].status \notin Settled
           \/ withdraw[i].status # "rejected" /\ s \in Settled
    PROVE  StaysSettled
  BY DEF StatusSet, StaysSettled, Rows, Settled

(* The actions that write withdraw_requests settle a request or leave an   *)
(* open one open: by their WHERE clause, or because only a broadcaster or  *)
(* a handler that holds an unsettled request gets there.                   *)
LEMMA StepStaysSettled ==
    ASSUME WithdrawInv, [WithdrawNext]_withdrawVars
    PROVE  StaysSettled
  <1>1. ASSUME NEW u \in Users, NEW a \in Amounts, NEW k \in Keys \union {NoKey},
               CreateWithdraw(u, a, k)
        PROVE  StaysSettled
    <2>1. PICK r : withdraw' = Append(withdraw, r)
      BY <1>1 DEF CreateWithdraw
    <2>2. \A i \in Rows : withdraw'[i] = withdraw[i]
      BY <2>1, Facts
    <2> QED BY <2>2 DEF StaysSettled
  <1>2. ASSUME NEW i \in Rows, NEW s \in Statuses, SetStatus(i, s)
        PROVE  StatusSet(withdraw, i, s, withdraw')
    <2>1. StatusSet(withdraw, i, s, [withdraw EXCEPT ![i].status = s])
      BY Facts, StatusUpdate DEF Rows
    <2> QED BY <1>2, <2>1, Zenon DEF SetStatus
  <1>3. ASSUME NEW i \in Rows, ApproveWithdraw(i) \/ RejectWithdraw(i)
        PROVE  StaysSettled
    <2>1. PICK s \in Statuses : SetStatus(i, s) /\ withdraw[i].status \notin Settled
      BY <1>3 DEF ApproveWithdraw, RejectWithdraw, Settled, Statuses
    <2> QED BY <1>2, <2>1, OneStatusStaysSettled
  <1>4. ASSUME NEW b \in Broadcasters, NEW i \in Rows, ClaimWithdraw(b, i)
        PROVE  StaysSettled
    <2>1. SetStatus(i, "broadcasting") /\ withdraw[i].status \notin Settled
      BY <1>4 DEF ClaimWithdraw, Settled
    <2> QED BY <1>2, <2>1, OneStatusStaysSettled DEF Statuses
  <1>5. ASSUME NEW b \in Broadcasters, FailBroadcast(b) \/ RecordTxHash(b)
        PROVE  StaysSettled
    <2>1. PICK i \in Rows : i = broadcaster[b].id /\ withdraw[i].status \notin Settled
      BY <1>5 DEF FailBroadcast, RecordTxHash, NotBroadcasting, WithdrawInv,
                  BroadcastersHold, Settled
    <2>2. CASE FailBroadcast(b)
      BY <2>1, <2>2, FailOnlyMarks, OneStatusStaysSettled DEF FailBroadcast
    <2>3. CASE RecordTxHash(b)
      <3>1. HashSet(withdraw, i, [withdraw EXCEPT ![i].status = "broadcasting", ![i].hash = TRUE])
        BY Facts, HashUpdate DEF Rows
      <3>2. HashSet(withdraw, i, withdraw')
        BY <2>1, <2>3, <3>1, Zenon DEF RecordTxHash
      <3> QED BY <2>1, <3>2 DEF HashSet, StaysSettled, Rows, Settled
    <2> QED BY <1>5, <2>2, <2>3
  <1>6. ASSUME NEW h \in Handlers, CommitConfirmed(h) \/ CommitFailed(h)
        PROVE  StaysSettled
    <2>1. PICK i \in Rows : i = handler[h].id /\ withdraw[i].status # "rejected"
      BY <1>6, Facts DEF CommitConfirmed, CommitFailed, NoCallback, WithdrawInv, HandlersHold,
                         OnlyApprovedIsSent
    <2>2. CASE CommitConfirmed(h)
      <3>1. SetStatus(i, "confirmed")
        BY <2>1, <2>2 DEF CommitConfirmed
      <3> QED BY <1>2, <2>1, <3>1, OneStatusStaysSettled DEF Statuses, Settled
    <2>3. CASE CommitFailed(h)
      BY <2>1, <2>3, FailOnlyMarks, OneStatusStaysSettled DEF CommitFailed, Settled
    <2> QED BY <1>6, <2>2, <2>3
  <1>7. ASSUME withdraw' = withdraw
        PROVE  StaysSettled
    BY <1>7 DEF StaysSettled
  <1>8. ASSUME NEW b \in Broadcasters,
               \/ PrepareError(b) \/ PersistTx(b) \/ SendTx(b) \/ SendError(b)
               \/ AbandonBroadcast(b)
        PROVE  withdraw' = withdraw
    BY <1>8 DEF PrepareError, PersistTx, SendTx, SendError, AbandonBroadcast
  <1>9. ASSUME NEW h \in Handlers,
               \/ \E i \in Rows : BeginTrack(h, i)
               \/ TrackOne(h) \/ TrackPending(h) \/ BeginConfirmed(h) \/ BeginFailed(h)
               \/ EndTrack(h)
        PROVE  withdraw' = withdraw
    BY <1>9 DEF BeginTrack, TrackOne, TrackPending, BeginConfirmed, BeginFailed, EndTrack
  <1>10. ASSUME NEW i \in Rows, Rebroadcast(i) \/ MineTx(i)
         PROVE  withdraw' = withdraw
    BY <1>10 DEF Rebroadcast, MineTx
  <1>11. ASSUME NEW u \in Users, NEW a \in Amounts, NEW k \in Keys \union {NoKey},
                RepeatWithdraw(u, a, k)
         PROVE  withdraw' = withdraw
    BY <1>11 DEF RepeatWithdraw
  <1>12. CASE UNCHANGED withdrawVars
    BY <1>7, <1>12 DEF withdrawVars
  <1> QED BY <1>1, <1>3, <1>4, <1>5, <1>6, <1>7, <1>8, <1>9, <1>10, <1>11, <1>12
          DEF WithdrawNext, HandleWithdrawCreate, HandleWithdrawReview

(* A settled request is never reopened, not even by the unconditional      *)
(* UPDATEs of ProcessApprovedWithdraw and OnWithdrawTxConfirmed.           *)
THEOREM SettledRequestsStaySettled == WithdrawSpec => SettledStaysSettled
  <1>1. WithdrawInv /\ [WithdrawNext]_withdrawVars => [StaysSettled]_withdrawVars
    BY StepStaysSettled
  <1> QED BY <1>1, WithdrawInvariant, PTL DEF WithdrawSpec, SettledStaysSettled, StaysSettled

-----------------------------------------------------------------------------
(***************************************************************************)
(* Withdraw implements Payout.  A step books nothing or one entry of one   *)
(* request (EveryStepBooks), and WithdrawInv says why that entry may be    *)
(* booked; what it leaves open is that every request has its freeze.       *)
(***************************************************************************)
RowsFrozen == \A i \in Rows : HasEntry("withdraw_freeze", i)

(* After booking op the journal has op and what it had.                    *)
LEMMA EntriesAfter ==
    ASSUME LedgerTypeOK, NEW u \in Users, NEW op, Books(u, op), NEW type, NEW id
    PROVE  HasEntry(type, id)' <=> HasEntry(type, id) \/ (type = op.type /\ id = op.refID)
  <1>1. /\ \A v \in Users : \A n \in DOMAIN ledger'.journal[v] :
              \/ ledger'.journal[v][n].op = op
              \/ n \in DOMAIN ledger.journal[v] /\ ledger'.journal[v][n] = ledger.journal[v][n]
        /\ HasEntry(type, id) => HasEntry(type, id)'
        /\ HasEntry(op.type, op.refID)'
    BY Booked DEF Books
  <1>2. ASSUME HasEntry(type, id)', ~HasEntry(type, id)
        PROVE  type = op.type /\ id = op.refID
    BY <1>1, <1>2 DEF HasEntry
  <1> QED BY <1>1, <1>2

(* The entries of a request change only with the journal.                  *)
LEMMA EntriesUnchanged ==
    ASSUME ledger' = ledger, NEW type, NEW id
    PROVE  HasEntry(type, id)' <=> HasEntry(type, id)
  BY DEF HasEntry

(* What WithdrawInv says of the entries of one request.                    *)
LEMMA EntriesMean ==
    ASSUME WithdrawInv, NEW i
    PROVE  /\ HasEntry("withdraw_unfreeze", i) => i \in Rows /\ withdraw[i].status = "rejected"
           /\ HasEntry("withdraw_debit", i) => i \in Rows /\ chain[i] = "mined"
           /\ i \in Rows /\ chain[i] = "mined" =>
                 withdraw[i].status \notin {"rejected", "pending_review"}
  <1>1. HasEntry("withdraw_unfreeze", i) => i \in Rows /\ withdraw[i].status = "rejected"
    BY DEF WithdrawInv, EntriesJustified, JustifiedEntry, HasEntry
  <1>2. HasEntry("withdraw_debit", i) => i \in Rows /\ chain[i] = "mined"
    BY DEF WithdrawInv, EntriesJustified, JustifiedEntry, HasEntry
  <1>3. i \in Rows /\ chain[i] = "mined" => withdraw[i].status \notin {"rejected", "pending_review"}
    BY Facts DEF WithdrawInv, OnlyApprovedIsSent
  <1> QED BY <1>1, <1>2, <1>3

(* No row without a freeze: CreateWithdraw books it with the insert.       *)
LEMMA RowsFrozenNext ==
    ASSUME WithdrawInv, RowsFrozen, JournalStep
    PROVE  RowsFrozen'
  <1>1. CASE ledger' = ledger /\ Rows' = Rows
    BY <1>1 DEF RowsFrozen, HasEntry
  <1>2. ASSUME NEW u \in Users, NEW i \in Ids, NEW a \in Nat, BooksFor(u, i, a)
        PROVE  RowsFrozen'
    <2>1. LedgerTypeOK
      BY Facts
    <2>2. CASE Books(u, freezeWithdraw(i, a)) /\ Rows' = Rows \union {i}
      <3>1. freezeWithdraw(i, a).type = "withdraw_freeze" /\ freezeWithdraw(i, a).refID = i
        BY DEF freezeWithdraw
      <3> QED BY <2>1, <2>2, <3>1, EntriesAfter DEF RowsFrozen
    <2>3. ASSUME NEW op, Books(u, op), Rows' = Rows
          PROVE  RowsFrozen'
      BY <2>1, <2>3, EntriesAfter DEF RowsFrozen
    <2> QED BY <1>2, <2>2, <2>3 DEF BooksFor
  <1> QED BY <1>1, <1>2 DEF JournalStep

-----------------------------------------------------------------------------
(* If only the entries of request i change, so does only its payout.       *)
LEMMA OnePayout ==
    ASSUME NEW i \in Ids,
           \A type, j : j # i => (HasEntry(type, j)' <=> HasEntry(type, j))
    PROVE  payouts' = [payouts EXCEPT ![i] = payoutOf(i)']
  <1>1. \A j \in Ids : j # i => payoutOf(j)' = payoutOf(j)
    BY DEF payoutOf
  <1>2. Ids' = Ids
    BY DEF Ids
  <1> QED BY <1>1, <1>2 DEF payouts

(* The steps that book a freeze hold money or repeat a freeze.             *)
LEMMA FreezeHolds ==
    ASSUME WithdrawInv, RowsFrozen, NEW u \in Users, NEW i \in Ids, NEW a \in Nat,
           Books(u, freezeWithdraw(i, a))
    PROVE  Abstract!Hold(i) \/ payouts' = payouts
  <1> DEFINE op == freezeWithdraw(i, a)
  <1>1. op.type = "withdraw_freeze" /\ op.refID = i
    BY DEF freezeWithdraw
  <1> HIDE DEF op
  <1>2. \A type, j : HasEntry(type, j)' <=> HasEntry(type, j) \/ (type = op.type /\ j = op.refID)
    BY Facts, EntriesAfter DEF op
  <1>3. payouts' = [payouts EXCEPT ![i] = payoutOf(i)']
    BY <1>1, <1>2, OnePayout
  <1>4. payouts[i] = payoutOf(i)
    BY DEF payouts
  <1>5. CASE HasEntry("withdraw_freeze", i)
    <2>1. payoutOf(i)' = payoutOf(i)
      BY <1>1, <1>2, <1>5 DEF payoutOf
    <2> QED BY <1>3, <1>4, <2>1 DEF payouts
  <1>6. CASE ~HasEntry("withdraw_freeze", i)
    <2>1. payoutOf(i) = "none"
      BY <1>6 DEF payoutOf
    <2>2. ~HasEntry("withdraw_debit", i) /\ ~HasEntry("withdraw_unfreeze", i)
      BY <1>6, EntriesMean DEF RowsFrozen
    <2>3. payoutOf(i)' = "held"
      BY <1>1, <1>2, <2>2 DEF payoutOf
    <2> QED BY <1>3, <1>4, <2>1, <2>3 DEF Abstract!Hold
  <1> QED BY <1>5, <1>6

(* The step that books an unfreeze settles a request that is held.         *)
LEMMA UnfreezeSettles ==
    ASSUME WithdrawInv, RowsFrozen, NEW u \in Users, NEW i \in Ids, NEW a \in Nat,
           Books(u, unfreezeWithdraw(i, a)), i \in Rows, withdraw[i].status = "pending_review"
    PROVE  Abstract!Settle(i)
  <1> DEFINE op == unfreezeWithdraw(i, a)
  <1>1. op.type = "withdraw_unfreeze" /\ op.refID = i
    BY DEF unfreezeWithdraw
  <1> HIDE DEF op
  <1>2. \A type, j : HasEntry(type, j)' <=> HasEntry(type, j) \/ (type = op.type /\ j = op.refID)
    BY Facts, EntriesAfter DEF op
  <1>3. payouts' = [payouts EXCEPT ![i] = payoutOf(i)']
    BY <1>1, <1>2, OnePayout
  <1>4. /\ HasEntry("withdraw_freeze", i)
        /\ ~HasEntry("withdraw_debit", i) /\ ~HasEntry("withdraw_unfreeze", i)
    BY EntriesMean DEF RowsFrozen
  <1>5. payoutOf(i) = "held" /\ payoutOf(i)' = "released"
    BY <1>1, <1>2, <1>4 DEF payoutOf
  <1>6. payouts[i] = payoutOf(i) /\ payouts'[i] = payoutOf(i)'
    BY <1>3 DEF payouts
  <1> QED BY <1>3, <1>5, <1>6 DEF Abstract!Settle

(* The step that books a debit settles a request that is held, or debits a *)
(* second time what is spent already.                                      *)
LEMMA DebitSettles ==
    ASSUME WithdrawInv, RowsFrozen, NEW u \in Users, NEW i \in Ids, NEW a \in Nat,
           Books(u, debitWithdraw(i, a)), i \in Rows, chain[i] = "mined"
    PROVE  Abstract!Settle(i) \/ payouts' = payouts
  <1> DEFINE op == debitWithdraw(i, a)
  <1>1. op.type = "withdraw_debit" /\ op.refID = i
    BY DEF debitWithdraw
  <1> HIDE DEF op
  <1>2. \A type, j : HasEntry(type, j)' <=> HasEntry(type, j) \/ (type = op.type /\ j = op.refID)
    BY Facts, EntriesAfter DEF op
  <1>3. payouts' = [payouts EXCEPT ![i] = payoutOf(i)']
    BY <1>1, <1>2, OnePayout
  <1>4. HasEntry("withdraw_freeze", i) /\ ~HasEntry("withdraw_unfreeze", i)
    BY EntriesMean DEF RowsFrozen
  <1>5. payoutOf(i)' = "spent" /\ payoutOf(i) \in {"held", "spent"}
    BY <1>1, <1>2, <1>4 DEF payoutOf
  <1>6. payouts[i] = payoutOf(i) /\ payouts'[i] = payoutOf(i)'
    BY <1>3 DEF payouts
  <1>7. CASE payoutOf(i) = "spent"
    BY <1>3, <1>5, <1>6, <1>7 DEF payouts
  <1>8. CASE payoutOf(i) = "held"
    BY <1>3, <1>5, <1>6, <1>8 DEF Abstract!Settle
  <1> QED BY <1>5, <1>7, <1>8

(* Every step of the withdrawals is a step of a payout or none.            *)
LEMMA StepImplementsPayout ==
    ASSUME WithdrawInv, RowsFrozen, JournalStep
    PROVE  [Abstract!PayoutNext]_payouts
  <1>1. CASE ledger' = ledger
    <2>1. \A type, j : HasEntry(type, j)' <=> HasEntry(type, j)
      BY <1>1, EntriesUnchanged
    <2> QED BY <2>1 DEF payouts, payoutOf, Ids
  <1>2. ASSUME NEW u \in Users, NEW i \in Ids, NEW a \in Nat, BooksFor(u, i, a)
        PROVE  [Abstract!PayoutNext]_payouts
    <2>1. Abstract!Hold(i) \/ Abstract!Settle(i) \/ payouts' = payouts
      BY <1>2, FreezeHolds, UnfreezeSettles, DebitSettles DEF BooksFor
    <2> QED BY <2>1 DEF Abstract!PayoutNext
  <1> QED BY <1>1, <1>2 DEF JournalStep

(* The withdrawals of the exchange implement a payout: for any users,      *)
(* requests, broadcasters and tracker goroutines the money of a request is *)
(* frozen before anything else and then only released or only debited.     *)
THEOREM WithdrawImplementsPayout == WithdrawSpec => ImplementsPayout
  <1>1. ASSUME WithdrawInit
        PROVE  WithdrawInv /\ RowsFrozen /\ Abstract!PayoutInit
    <2>1. WithdrawInv
      BY <1>1, WithdrawInvInit
    <2>2. Rows = {}
      BY <1>1 DEF WithdrawInit, Rows
    <2>3. \A i \in Ids : ~HasEntry("withdraw_freeze", i)
      BY <2>1, <2>2 DEF WithdrawInv, EntriesJustified, JustifiedEntry, HasEntry
    <2> QED BY <2>1, <2>2, <2>3 DEF RowsFrozen, Abstract!PayoutInit, payouts, payoutOf
  <1>2. ASSUME WithdrawInv, RowsFrozen, [WithdrawNext]_withdrawVars
        PROVE  WithdrawInv' /\ RowsFrozen' /\ [Abstract!PayoutNext]_payouts
    BY <1>2, EveryStepBooks, WithdrawInvNext, RowsFrozenNext, StepImplementsPayout
  <1> QED BY <1>1, <1>2, PTL DEF WithdrawSpec, ImplementsPayout, Abstract!PayoutSpec

-----------------------------------------------------------------------------
(* DEPOSITS, for any users, deposits, amounts, blocks, bindings and        *)
(* indexer workers.  DepositInv is the inductive invariant.  A write to    *)
(* the ledger is followed through the entries of each deposit (Stage), the *)
(* sum of each journal (TotalOf) and what hasLedgerEntryTx finds; the loop *)
(* of HandleReorgTx by a smallest set of deposits for which it would fail. *)

(* What an operation changes in all, and what a journal adds up to.        *)
Change(op) == deltaAvail(op) + deltaFrozen(op)
TotalOf(j) == SumFunction([i \in DOMAIN j |-> Change(j[i].op)])
HeldBy(row) == row.available + row.frozen

(* One more entry adds its change.                                         *)
LEMMA TotalAppended ==
    ASSUME NEW j \in Seq(Entry), NEW e \in Entry
    PROVE  /\ TotalOf(j) \in Int /\ Change(e.op) \in Int
           /\ TotalOf(Append(j, e)) = TotalOf(j) + Change(e.op)
  <1> DEFINE k == Append(j, e)
             n == Len(j)
             f == [i \in DOMAIN j |-> Change(j[i].op)]
             h == [i \in DOMAIN k |-> Change(k[i].op)]
  <1>1. /\ n \in Nat /\ DOMAIN j = 1..n /\ DOMAIN k = (1..n) \union {n + 1} /\ n + 1 \notin 1..n
        /\ k[n + 1] = e /\ \A i \in 1..n : k[i] = j[i] /\ j[i] \in Entry
    OBVIOUS
  <1>2. \A x \in Entry : Change(x.op) \in Int
    <2>1. \A x \in Entry : x.op \in LedgerOp
      BY DEF Entry
    <2> QED  BY <2>1, DeltaTypes DEF Change
  <1>3. h[n + 1] = Change(e.op) /\ h[n + 1] \in Int /\ \A i \in 1..n : f[i] \in Int /\ h[i] = f[i]
    BY <1>1, <1>2
  <1>4. TotalOf(j) = SumFunctionOnSet(f, 1..n) /\ TotalOf(k) = SumFunctionOnSet(h, (1..n) \union {n + 1})
    BY <1>1 DEF TotalOf, SumFunction
  <1> HIDE DEF f, h, k, n
  <1>5. IsFiniteSet(1..n)
    BY <1>1, FS_Interval
  <1>6. SumFunctionOnSet(f, 1..n) \in Int
    BY <1>3, <1>5, SumIsInt
  <1>7. SumFunctionOnSet(h, (1..n) \union {n + 1}) = SumFunctionOnSet(f, 1..n) + h[n + 1]
    <2>1. \A i \in 1..n : f[i] \in Int /\ h[i] = f[i]
      BY <1>3
    <2>2. h[n + 1] \in Int /\ n + 1 \notin 1..n
      BY <1>1, <1>3
    <2>3. PICK S, y : S = 1..n /\ y = n + 1
      OBVIOUS
    <2>4. IsFiniteSet(S) /\ y \notin S /\ h[y] \in Int /\ \A x \in S : f[x] \in Int /\ h[x] = f[x]
      BY <1>5, <2>1, <2>2, <2>3
    <2>5. SumFunctionOnSet(h, S \union {y}) = SumFunctionOnSet(f, S) + h[y]
      BY <2>4, SumWithMore
    <2> QED  BY <2>3, <2>5
  <1> QED  BY <1>2, <1>3, <1>4, <1>6, <1>7 DEF k

(* What WriteLedger does for u, whose row it takes to be row.              *)
Wrote(l, u, row, op, m) ==
    /\ m \in LedgerType
    /\ \A v \in Users : v # u => m.journal[v] = l.journal[v] /\ m.account[v] = l.account[v]
    /\ \E e \in Entry : e.op = op /\ m.journal[u] = Append(l.journal[u], e)
    /\ m.account[u].exists
    /\ m.account[u].available = row.available + deltaAvail(op)
    /\ m.account[u].frozen = row.frozen + deltaFrozen(op)

(* WriteLedger does that.                                                  *)
LEMMA LedgerWritten ==
    ASSUME NEW l \in LedgerType, NEW u \in Users, NEW row \in Account, NEW op \in LedgerOp,
           CanApply(row, op), NEW m, m = WriteLedger(l, u, row, op)
    PROVE  Wrote(l, u, row, op, m)
  <1>1. PICK avail \in Nat, froz \in Nat : avail = row.available + deltaAvail(op) /\ froz = row.frozen + deltaFrozen(op)
    BY DeltaTypes DEF Account, CanApply
  <1>2. PICK new \in Account : new = [exists |-> TRUE, available |-> avail, frozen |-> froz]
    BY DEF Account
  <1>3. PICK e \in Entry : e = [op |-> op, available |-> avail, frozen |-> froz]
    BY DEF Entry
  <1>4. m = [account |-> [l.account EXCEPT ![u] = new],
             journal |-> [l.journal EXCEPT ![u] = Append(l.journal[u], e)]]
    BY <1>1, <1>2, <1>3 DEF WriteLedger
  <1>5. l.account \in [Users -> Account] /\ l.journal \in [Users -> Seq(Entry)]
    BY DEF LedgerType
  <1>6. [l.account EXCEPT ![u] = new] \in [Users -> Account]
    BY <1>5
  <1>7. PICK j \in Seq(Entry) : j = Append(l.journal[u], e)
    <2>1. l.journal[u] \in Seq(Entry)
      BY <1>5
    <2>2. \A i \in Seq(Entry), x \in Entry : Append(i, x) \in Seq(Entry)
      OBVIOUS
    <2> QED  BY <2>1, <2>2, Zenon
  <1>8. [l.journal EXCEPT ![u] = j] \in [Users -> Seq(Entry)]
    BY <1>5
  <1>9. m \in LedgerType
    BY <1>4, <1>6, <1>7, <1>8 DEF LedgerType
  <1>10. /\ \A v \in Users : v # u => m.journal[v] = l.journal[v] /\ m.account[v] = l.account[v]
         /\ m.journal[u] = Append(l.journal[u], e) /\ m.account[u] = new
    BY <1>4, <1>5
  <1>11. new.exists /\ new.available = avail /\ new.frozen = froz /\ e.op = op
    BY <1>2, <1>3
  <1> QED  BY <1>1, <1>9, <1>10, <1>11 DEF Wrote

(* The entries of all but what op is about are what they were, ...         *)
LEMMA WroteEntries ==
    ASSUME NEW l \in LedgerType, NEW u \in Users, NEW row, NEW op, NEW m, Wrote(l, u, row, op, m)
    PROVE  /\ \A v \in Users : \A type, id : v # u \/ type # op.type \/ id # op.refID
                 => EntriesIn(m, v, type, id) = EntriesIn(l, v, type, id)
           /\ EntriesIn(m, u, op.type, op.refID) = EntriesIn(l, u, op.type, op.refID) \union {Len(l.journal[u]) + 1}
           /\ Len(l.journal[u]) \in Nat
  <1> DEFINE n == Len(l.journal[u])
  <1>1. PICK e \in Entry : e.op = op /\ m.journal[u] = Append(l.journal[u], e)
    BY DEF Wrote
  <1>2. l.journal[u] \in Seq(Entry)
    BY DEF LedgerType
  <1>3. /\ n \in Nat /\ DOMAIN l.journal[u] = 1..n
        /\ DOMAIN m.journal[u] = (DOMAIN l.journal[u]) \union {n + 1} /\ n + 1 \notin DOMAIN l.journal[u]
        /\ m.journal[u][n + 1].op = op
        /\ \A i \in DOMAIN l.journal[u] : m.journal[u][i] = l.journal[u][i]
    BY <1>1, <1>2
  <1>4. ASSUME NEW v \in Users, NEW type, NEW id, v # u \/ type # op.type \/ id # op.refID
        PROVE  EntriesIn(m, v, type, id) = EntriesIn(l, v, type, id)
    <2>1. CASE v # u
      BY <2>1 DEF Wrote, EntriesIn
    <2>2. CASE v = u
      BY <1>3, <1>4, <2>2 DEF EntriesIn
    <2> QED  BY <2>1, <2>2
  <1>5. EntriesIn(m, u, op.type, op.refID) = EntriesIn(l, u, op.type, op.refID) \union {n + 1}
    BY <1>3 DEF EntriesIn
  <1> QED  BY <1>3, <1>4, <1>5

(* ... those there were come before the new one, ...                       *)
LEMMA EarlierEntries ==
    ASSUME NEW l \in LedgerType, NEW u \in Users, NEW type, NEW id, NEW n \in EntriesIn(l, u, type, id)
    PROVE  n < Len(l.journal[u]) + 1
  <1>1. l.journal[u] \in Seq(Entry)
    BY DEF LedgerType
  <1>2. n \in DOMAIN l.journal[u]
    BY DEF EntriesIn
  <1> QED  BY <1>1, <1>2

(* ... and hasLedgerEntryTx finds the new one, too.                        *)
Findable(l) ==
    \A u \in Users : \A n \in DOMAIN l.journal[u] :
        l.journal[u][n].op.type \in {"deposit_credit", "deposit_reverse"} =>
            l.journal[u][n].op.refType = "deposit"

(* A write that names its refType as deposits do keeps that.               *)
LEMMA WroteFindable ==
    ASSUME NEW l \in LedgerType, NEW u \in Users, NEW row, NEW op, NEW m, Wrote(l, u, row, op, m),
           Findable(l), op.type \in {"deposit_credit", "deposit_reverse"} => op.refType = "deposit"
    PROVE  Findable(m)
  <1>1. PICK e \in Entry : e.op = op /\ m.journal[u] = Append(l.journal[u], e)
    BY DEF Wrote
  <1>2. l.journal[u] \in Seq(Entry)
    BY DEF LedgerType
  <1>3. ASSUME NEW v \in Users, NEW n \in DOMAIN m.journal[v]
        PROVE  (n \in DOMAIN l.journal[v] /\ m.journal[v][n] = l.journal[v][n]) \/ m.journal[v][n].op = op
    <2>1. CASE v # u
      BY <2>1 DEF Wrote
    <2>2. CASE v = u
      <3>1. PICK j \in Seq(Entry) : j = l.journal[u]
        BY <1>2
      <3>2. \A i \in DOMAIN Append(j, e) : (i \in DOMAIN j /\ Append(j, e)[i] = j[i]) \/ Append(j, e)[i] = e
        OBVIOUS
      <3> QED  BY <1>1, <2>2, <3>1, <3>2
    <2> QED  BY <2>1, <2>2
  <1> QED  BY <1>3 DEF Findable

(* An account holds no more than its journal adds up to, and all of it if  *)
(* its row was there from the start.                                       *)
Covered(l, u) ==
    /\ HeldBy(l.account[u]) <= TotalOf(l.journal[u])
    /\ u \notin NewUsers => l.account[u].exists /\ HeldBy(l.account[u]) = TotalOf(l.journal[u])

(* A row that was read under its lock, or that was not there to be locked. *)
ReadRow(l, u, row) == row = l.account[u] \/ (row = MissingRow /\ u \in NewUsers)
AllCovered(l) == \A u \in Users : Covered(l, u)

(* A write from such a row keeps that.                                     *)
LEMMA WroteCovered ==
    ASSUME NEW l \in LedgerType, NEW u \in Users, NEW row, NEW op \in LedgerOp, NEW m, Wrote(l, u, row, op, m),
           ReadRow(l, u, row), AllCovered(l)
    PROVE  AllCovered(m)
  <1>1. PICK e \in Entry : e.op = op /\ m.journal[u] = Append(l.journal[u], e)
    BY DEF Wrote
  <1>2. l.journal[u] \in Seq(Entry) /\ l.account[u] \in Account
    BY DEF LedgerType
  <1>3. PICK t \in Int, c \in Int : t = TotalOf(l.journal[u]) /\ c = Change(op) /\ TotalOf(m.journal[u]) = t + c
    BY <1>1, <1>2, TotalAppended
  <1>4. PICK h \in Nat : h = HeldBy(l.account[u])
    BY <1>2 DEF Account, HeldBy
  <1>5. h <= t /\ (u \notin NewUsers => h = t)
    BY <1>3, <1>4 DEF Covered, AllCovered
  <1>6. PICK a \in Int, f \in Int : a = deltaAvail(op) /\ f = deltaFrozen(op)
    BY DeltaTypes
  <1>7. c = a + f
    BY <1>3, <1>6 DEF Change
  <1>8. row.available \in Nat /\ row.frozen \in Nat
    BY <1>2 DEF Account, MissingRow, ReadRow
  <1>9. HeldBy(m.account[u]) = HeldBy(row) + c
    BY <1>6, <1>7, <1>8 DEF Wrote, HeldBy
  <1>10. HeldBy(MissingRow) = 0
    BY DEF HeldBy, MissingRow
  <1>11. /\ HeldBy(m.account[u]) <= t + c
         /\ u \notin NewUsers => HeldBy(m.account[u]) = t + c
    BY <1>4, <1>5, <1>9, <1>10 DEF ReadRow
  <1>12. Covered(m, u)
    BY <1>3, <1>11 DEF Covered, Wrote
  <1>13. ASSUME NEW v \in Users, v # u PROVE Covered(m, v)
    BY <1>13 DEF Covered, AllCovered, Wrote
  <1> QED  BY <1>12, <1>13 DEF AllCovered

-----------------------------------------------------------------------------
(* What the journals show of deposit d: nothing, its credit on its user's  *)
(* account, or the reversal after it as well.                              *)
Unbooked(l, d) ==
    \A u \in Users : EntriesIn(l, u, "deposit_credit", d) = {} /\ EntriesIn(l, u, "deposit_reverse", d) = {}
CreditIs(l, d, c) ==
    /\ EntriesIn(l, depUser[d], "deposit_credit", d) = {c}
    /\ \A u \in Users : u # depUser[d] => EntriesIn(l, u, "deposit_credit", d) = {}
OnlyCredited(l, d, c) == CreditIs(l, d, c) /\ \A u \in Users : EntriesIn(l, u, "deposit_reverse", d) = {}
AlsoReversed(l, d, c, r) ==
    /\ CreditIs(l, d, c) /\ c < r
    /\ EntriesIn(l, depUser[d], "deposit_reverse", d) = {r}
    /\ \A u \in Users : u # depUser[d] => EntriesIn(l, u, "deposit_reverse", d) = {}

IsCredited(l, d) == \E c \in Nat : OnlyCredited(l, d, c)
IsReversed(l, d) == \E c, r \in Nat : AlsoReversed(l, d, c, r)
Stage(l, d) == Unbooked(l, d) \/ IsCredited(l, d) \/ IsReversed(l, d)

(* Two ledgers show the same of a deposit.                                 *)
SameEntriesOf(l, m, d) ==
    \A u \in Users : /\ EntriesIn(m, u, "deposit_credit", d) = EntriesIn(l, u, "deposit_credit", d)
                     /\ EntriesIn(m, u, "deposit_reverse", d) = EntriesIn(l, u, "deposit_reverse", d)

(* Then it is at the same stage in both.                                   *)
LEMMA SameStage ==
    ASSUME NEW l, NEW m, NEW d \in Deposits, SameEntriesOf(l, m, d)
    PROVE  /\ Unbooked(m, d) <=> Unbooked(l, d)
           /\ IsCredited(l, d) => IsCredited(m, d)
           /\ IsReversed(l, d) => IsReversed(m, d)
           /\ Stage(l, d) => Stage(m, d)
  <1> depUser[d] \in Users
    BY DepositAssumption
  <1>1. Unbooked(m, d) <=> Unbooked(l, d)
    BY DEF SameEntriesOf, Unbooked
  <1>2. IsCredited(l, d) => IsCredited(m, d)
    BY DEF SameEntriesOf, IsCredited, OnlyCredited, CreditIs
  <1>3. IsReversed(l, d) => IsReversed(m, d)
    BY DEF SameEntriesOf, IsReversed, AlsoReversed, CreditIs
  <1> QED  BY <1>1, <1>2, <1>3 DEF Stage

(* A deposit that is credited or reversed is not unbooked.                 *)
LEMMA BookedIsNotUnbooked ==
    ASSUME NEW l, NEW d \in Deposits, IsCredited(l, d) \/ IsReversed(l, d)
    PROVE  ~Unbooked(l, d) /\ EntriesIn(l, depUser[d], "deposit_credit", d) # {}
  <1>1. depUser[d] \in Users
    BY DepositAssumption
  <1>2. EntriesIn(l, depUser[d], "deposit_credit", d) # {}
    BY <1>1 DEF IsCredited, IsReversed, OnlyCredited, AlsoReversed, CreditIs
  <1> QED  BY <1>1, <1>2 DEF Unbooked

(* A finite set with at most one element.                                  *)
LEMMA AtMostOne ==
    ASSUME NEW S, IsFiniteSet(S)
    PROVE  Cardinality(S) <= 1 <=> S = {} \/ \E x : S = {x}
  <1>1. Cardinality(S) \in Nat
    BY FS_CardinalityType
  <1>2. (Cardinality(S) = 0 <=> S = {}) /\ (Cardinality(S) = 1 <=> \E x : S = {x})
    BY FS_EmptySet, FS_Singleton
  <1> QED  BY <1>1, <1>2

(* The entries of a user are numbers, and finitely many.                   *)
LEMMA EntriesAreFinite ==
    ASSUME NEW l \in LedgerType, NEW u \in Users, NEW type, NEW id
    PROVE  IsFiniteSet(EntriesIn(l, u, type, id)) /\ EntriesIn(l, u, type, id) \subseteq Nat
  <1>1. l.journal[u] \in Seq(Entry)
    BY DEF LedgerType
  <1>2. PICK n \in Nat : DOMAIN l.journal[u] = 1..n
    BY <1>1
  <1>3. EntriesIn(l, u, type, id) \subseteq 1..n
    BY <1>2 DEF EntriesIn
  <1>4. IsFiniteSet(1..n)
    BY FS_Interval
  <1>5. 1..n \subseteq Nat
    OBVIOUS
  <1> QED  BY <1>3, <1>4, <1>5, FS_Subset

(* CreditedOnce, of one deposit.                                           *)
OnceEach(l, d) ==
    \A u \in Users :
        LET credits  == EntriesIn(l, u, "deposit_credit", d)
            reverses == EntriesIn(l, u, "deposit_reverse", d)
        IN  /\ Cardinality(credits) <= 1
            /\ Cardinality(reverses) <= 1
            /\ credits # {} => u = depUser[d]
            /\ \A r \in reverses : \E c \in credits : c < r

(* A deposit is booked once and in order if and only if it has a stage.    *)
LEMMA StageMeans ==
    ASSUME NEW l \in LedgerType, NEW d \in Deposits
    PROVE  OnceEach(l, d) <=> Stage(l, d)
  <1> DEFINE C(u) == EntriesIn(l, u, "deposit_credit", d)
             R(u) == EntriesIn(l, u, "deposit_reverse", d)
  <1>1. PICK o \in Users : o = depUser[d]
    BY DepositAssumption
  <1>2. \A u \in Users : /\ Cardinality(C(u)) <= 1 <=> C(u) = {} \/ \E x : C(u) = {x}
                         /\ Cardinality(R(u)) <= 1 <=> R(u) = {} \/ \E x : R(u) = {x}
    BY EntriesAreFinite, AtMostOne
  <1>3. \A u \in Users : C(u) \subseteq Nat /\ R(u) \subseteq Nat
    BY EntriesAreFinite
  <1>4. OnceEach(l, d) <=> \A u \in Users : /\ C(u) = {} \/ \E x : C(u) = {x}
                                            /\ R(u) = {} \/ \E x : R(u) = {x}
                                            /\ C(u) # {} => u = o
                                            /\ \A r \in R(u) : \E c \in C(u) : c < r
    <2>1. OnceEach(l, d) <=> \A u \in Users : /\ Cardinality(C(u)) <= 1 /\ Cardinality(R(u)) <= 1
                                              /\ C(u) # {} => u = depUser[d]
                                              /\ \A r \in R(u) : \E c \in C(u) : c < r
      BY DEF OnceEach
    <2> HIDE DEF C, R
    <2>2. ASSUME NEW u \in Users
          PROVE  /\ Cardinality(C(u)) <= 1 <=> C(u) = {} \/ \E x : C(u) = {x}
                 /\ Cardinality(R(u)) <= 1 <=> R(u) = {} \/ \E x : R(u) = {x}
                 /\ u = depUser[d] <=> u = o
      BY <1>1, <1>2, Zenon
    <2> QED  BY <2>1, <2>2, Zenon
  <1>5. Unbooked(l, d) <=> \A u \in Users : C(u) = {} /\ R(u) = {}
    BY DEF Unbooked
  <1>6. IsCredited(l, d) <=> \E c \in Nat : /\ C(o) = {c}
                                            /\ \A u \in Users : (u # o => C(u) = {}) /\ R(u) = {}
    BY <1>1 DEF IsCredited, OnlyCredited, CreditIs
  <1>7. IsReversed(l, d) <=> \E c, r \in Nat : /\ c < r /\ C(o) = {c} /\ R(o) = {r}
                                               /\ \A u \in Users : u # o => C(u) = {} /\ R(u) = {}
    BY <1>1 DEF IsReversed, AlsoReversed, CreditIs
  <1> HIDE DEF C, R
  <1>8. ASSUME OnceEach(l, d) PROVE Stage(l, d)
    <2>1. \A u \in Users : u # o => C(u) = {} /\ R(u) = {}
      BY <1>4, <1>8
    <2>2. CASE C(o) = {}
      <3>1. R(o) = {}
        BY <1>4, <1>8, <2>2
      <3>2. \A u \in Users : C(u) = {} /\ R(u) = {}
        BY <2>1, <2>2, <3>1
      <3> QED  BY <1>5, <3>2 DEF Stage
    <2>3. CASE C(o) # {}
      <3>1. PICK c : C(o) = {c}
        BY <1>4, <1>8, <2>3
      <3>2. c \in Nat
        BY <1>3, <3>1
      <3>3. CASE R(o) = {}
        BY <1>6, <2>1, <3>1, <3>2, <3>3 DEF Stage
      <3>4. CASE R(o) # {}
        <4>1. PICK r : R(o) = {r}
          BY <1>4, <1>8, <3>4
        <4>2. r \in Nat /\ c < r
          BY <1>3, <1>4, <1>8, <3>1, <4>1
        <4> QED  BY <1>7, <2>1, <3>1, <3>2, <4>1, <4>2 DEF Stage
      <3> QED  BY <3>3, <3>4
    <2> QED  BY <2>2, <2>3
  <1>9. ASSUME Stage(l, d) PROVE OnceEach(l, d)
    <2>1. CASE Unbooked(l, d)
      BY <1>4, <1>5, <2>1
    <2>2. CASE IsCredited(l, d)
      BY <1>4, <1>6, <2>2
    <2>3. CASE IsReversed(l, d)
      BY <1>4, <1>7, <2>3
    <2> QED  BY <1>9, <2>1, <2>2, <2>3 DEF Stage
  <1> QED  BY <1>8, <1>9

-----------------------------------------------------------------------------
(* What deposits need of the ledger.                                       *)
LedgerGood(l) ==
    /\ l \in LedgerType
    /\ \A d \in Deposits : Stage(l, d)
    /\ Findable(l) /\ AllCovered(l)

(* hasLedgerEntryTx finds the credit of a deposit that is booked, and the  *)
(* reversal of one that is reversed.                                       *)
LEMMA EntriesFound ==
    ASSUME NEW l, LedgerGood(l), NEW d \in Deposits
    PROVE  /\ hasLedgerEntryTx(l, d, "deposit_credit") <=> ~Unbooked(l, d)
           /\ hasLedgerEntryTx(l, d, "deposit_credit") /\ ~hasLedgerEntryTx(l, d, "deposit_reverse") => IsCredited(l, d)
  <1>1. \A type \in {"deposit_credit", "deposit_reverse"} :
           hasLedgerEntryTx(l, d, type) <=> \E u \in Users : EntriesIn(l, u, type, d) # {}
    BY Zenon DEF LedgerGood, Findable, hasLedgerEntryTx, EntriesIn
  <1>2. Stage(l, d)
    BY DEF LedgerGood
  <1>3. depUser[d] \in Users
    BY DepositAssumption
  <1>4. Unbooked(l, d) => ~\E u \in Users : EntriesIn(l, u, "deposit_credit", d) # {}
    BY DEF Unbooked
  <1>5. ~Unbooked(l, d) => \E u \in Users : EntriesIn(l, u, "deposit_credit", d) # {}
    BY <1>2, <1>3, BookedIsNotUnbooked DEF Stage
  <1>6. IsReversed(l, d) => \E u \in Users : EntriesIn(l, u, "deposit_reverse", d) # {}
    BY <1>3 DEF IsReversed, AlsoReversed, CreditIs
  <1> QED  BY <1>1, <1>2, <1>4, <1>5, <1>6 DEF Stage

(* The two operations of deposits.                                         *)
LEMMA DepositOps ==
    ASSUME NEW d \in Deposits
    PROVE  /\ creditDeposit(d, depAmount[d]) \in LedgerOp /\ reverseDeposit(d, depAmount[d]) \in LedgerOp
           /\ creditDeposit(d, depAmount[d]).type = "deposit_credit"
           /\ reverseDeposit(d, depAmount[d]).type = "deposit_reverse"
           /\ creditDeposit(d, depAmount[d]).refID = d /\ reverseDeposit(d, depAmount[d]).refID = d
           /\ creditDeposit(d, depAmount[d]).refType = "deposit" /\ reverseDeposit(d, depAmount[d]).refType = "deposit"
           /\ \A row \in Account : CanApply(row, creditDeposit(d, depAmount[d]))
  <1>1. PICK a \in Nat : a = depAmount[d]
    BY DepositAssumption
  <1>2. d \in Nat
    BY DepositAssumption
  <1>3. /\ creditDeposit(d, a) \in LedgerOp /\ reverseDeposit(d, a) \in LedgerOp
        /\ creditDeposit(d, a).type = "deposit_credit" /\ reverseDeposit(d, a).type = "deposit_reverse"
        /\ creditDeposit(d, a).refID = d /\ reverseDeposit(d, a).refID = d
        /\ creditDeposit(d, a).refType = "deposit" /\ reverseDeposit(d, a).refType = "deposit"
        /\ creditDeposit(d, a).amount = a
    BY <1>2 DEF creditDeposit, reverseDeposit, LedgerOp, EntryTypes, RefTypes
  <1>4. deltaAvail(creditDeposit(d, a)) = a /\ deltaFrozen(creditDeposit(d, a)) = 0
    BY <1>3 DEF deltaAvail, deltaFrozen
  <1>5. \A row \in Account : CanApply(row, creditDeposit(d, a))
    BY <1>4 DEF CanApply, Account
  <1> QED  BY <1>1, <1>3, <1>5

(* The credit of a deposit that is not booked books it, and no other, ...  *)
LEMMA CreditGood ==
    ASSUME NEW l, LedgerGood(l), NEW d \in Deposits, Unbooked(l, d),
           NEW row, ReadRow(l, depUser[d], row),
           NEW m, m = WriteLedger(l, depUser[d], row, creditDeposit(d, depAmount[d]))
    PROVE  /\ LedgerGood(m) /\ IsCredited(m, d)
           /\ \A e \in Deposits : e # d => SameEntriesOf(l, m, e)
  <1>1. PICK u \in Users : u = depUser[d]
    BY DepositAssumption
  <1>2. PICK op \in LedgerOp : /\ op = creditDeposit(d, depAmount[d]) /\ op.type = "deposit_credit" /\ op.refID = d
                               /\ op.refType = "deposit" /\ \A r \in Account : CanApply(r, op)
    BY DepositOps
  <1>3. l \in LedgerType /\ Findable(l) /\ AllCovered(l) /\ \A e \in Deposits : Stage(l, e)
    BY DEF LedgerGood
  <1>4. row \in Account
    <2>1. l.account \in [Users -> Account] /\ MissingRow \in Account
      BY <1>3 DEF LedgerType, MissingRow, Account
    <2> QED  BY <1>1, <2>1 DEF ReadRow
  <1>5. Wrote(l, u, row, op, m)
    BY <1>1, <1>2, <1>3, <1>4, LedgerWritten
  <1>6. ReadRow(l, u, row)
    BY <1>1
  <1>7. m \in LedgerType /\ Findable(m) /\ AllCovered(m)
    <2>1. m \in LedgerType
      BY <1>5 DEF Wrote
    <2>2. Findable(m)
      BY <1>2, <1>3, <1>5, WroteFindable
    <2>3. AllCovered(m)
      BY <1>3, <1>5, <1>6, WroteCovered
    <2> QED  BY <2>1, <2>2, <2>3
  <1>8. /\ \A v \in Users : \A type, id : v # u \/ type # op.type \/ id # op.refID
              => EntriesIn(m, v, type, id) = EntriesIn(l, v, type, id)
        /\ EntriesIn(m, u, op.type, op.refID) = EntriesIn(l, u, op.type, op.refID) \union {Len(l.journal[u]) + 1}
        /\ Len(l.journal[u]) \in Nat
    BY <1>3, <1>5, WroteEntries
  <1>9. \A e \in Deposits : e # d => SameEntriesOf(l, m, e)
    BY <1>2, <1>8 DEF SameEntriesOf
  <1>10. IsCredited(m, d)
    <2>1. PICK c \in Nat : c = Len(l.journal[u]) + 1
      BY <1>8
    <2>2. \A v \in Users : EntriesIn(m, v, "deposit_reverse", d) = {}
      <3>1. "deposit_reverse" # op.type
        BY <1>2
      <3>2. \A v \in Users : EntriesIn(m, v, "deposit_reverse", d) = EntriesIn(l, v, "deposit_reverse", d)
        BY <1>8, <3>1, Zenon
      <3> QED  BY <3>2 DEF Unbooked
    <2>5. \A v \in Users : v # u => EntriesIn(m, v, "deposit_credit", d) = {}
      BY <1>8 DEF Unbooked
    <2>3. EntriesIn(m, u, "deposit_credit", d) = {c}
      BY <1>2, <1>8, <2>1 DEF Unbooked
    <2>4. OnlyCredited(m, d, c)
      <3>1. CreditIs(m, d, c)
        BY <1>1, <2>3, <2>5, Zenon DEF CreditIs
      <3> QED  BY <2>2, <3>1, Zenon DEF OnlyCredited
    <2> QED  BY <2>4 DEF IsCredited
  <1>11. \A e \in Deposits : Stage(m, e)
    BY <1>3, <1>9, <1>10, SameStage DEF Stage
  <1> QED  BY <1>7, <1>9, <1>10, <1>11 DEF LedgerGood

(* ... and so does the reversal of one that is credited.                   *)
LEMMA ReverseGood ==
    ASSUME NEW l, LedgerGood(l), NEW d \in Deposits, IsCredited(l, d),
           CanApply(l.account[depUser[d]], reverseDeposit(d, depAmount[d])),
           NEW m, m = applyLedgerTx(l, depUser[d], reverseDeposit(d, depAmount[d]))
    PROVE  /\ LedgerGood(m) /\ IsReversed(m, d)
           /\ \A e \in Deposits : e # d => SameEntriesOf(l, m, e)
  <1>1. PICK u \in Users : u = depUser[d]
    BY DepositAssumption
  <1>2. PICK op \in LedgerOp : /\ op = reverseDeposit(d, depAmount[d]) /\ op.type = "deposit_reverse" /\ op.refID = d
                               /\ op.refType = "deposit"
    BY DepositOps
  <1>3. l \in LedgerType /\ Findable(l) /\ AllCovered(l) /\ \A e \in Deposits : Stage(l, e)
    BY DEF LedgerGood
  <1>4. PICK row \in Account : row = l.account[u]
    BY <1>3 DEF LedgerType
  <1>5. Wrote(l, u, row, op, m)
    <2>1. CanApply(row, op) /\ m = WriteLedger(l, u, row, op)
      BY <1>1, <1>2, <1>4 DEF applyLedgerTx
    <2> QED  BY <1>3, <2>1, LedgerWritten
  <1>6. m \in LedgerType /\ Findable(m) /\ AllCovered(m)
    <2>1. m \in LedgerType
      BY <1>5 DEF Wrote
    <2>2. Findable(m)
      BY <1>2, <1>3, <1>5, WroteFindable
    <2>3. AllCovered(m)
      <3>1. ReadRow(l, u, row)
        BY <1>4 DEF ReadRow
      <3> QED  BY <1>3, <1>5, <3>1, WroteCovered
    <2> QED  BY <2>1, <2>2, <2>3
  <1>7. /\ \A v \in Users : \A type, id : v # u \/ type # op.type \/ id # op.refID
              => EntriesIn(m, v, type, id) = EntriesIn(l, v, type, id)
        /\ EntriesIn(m, u, op.type, op.refID) = EntriesIn(l, u, op.type, op.refID) \union {Len(l.journal[u]) + 1}
        /\ Len(l.journal[u]) \in Nat
    BY <1>3, <1>5, WroteEntries
  <1>8. \A e \in Deposits : e # d => SameEntriesOf(l, m, e)
    BY <1>2, <1>7 DEF SameEntriesOf
  <1>9. IsReversed(m, d)
    <2>1. PICK c \in Nat : OnlyCredited(l, d, c)
      BY DEF IsCredited
    <2>2. PICK r \in Nat : r = Len(l.journal[u]) + 1
      BY <1>7
    <2>3. EntriesIn(l, u, "deposit_credit", d) = {c}
      BY <1>1, <2>1 DEF OnlyCredited, CreditIs
    <2>4. c < r
      <3>1. c \in EntriesIn(l, u, "deposit_credit", d)
        BY <2>3
      <3> QED  BY <1>3, <2>2, <3>1, EarlierEntries
    <2>5. CreditIs(m, d, c) /\ \A v \in Users : v # u => EntriesIn(m, v, "deposit_reverse", d) = {}
      BY <1>1, <1>2, <1>7, <2>1 DEF OnlyCredited, CreditIs
    <2>6. EntriesIn(m, u, "deposit_reverse", d) = {r}
      BY <1>2, <1>7, <2>1, <2>2 DEF OnlyCredited
    <2>7. AlsoReversed(m, d, c, r)
      BY <1>1, <2>4, <2>5, <2>6 DEF AlsoReversed
    <2> QED  BY <2>7 DEF IsReversed
  <1>10. \A e \in Deposits : Stage(m, e)
    BY <1>3, <1>8, <1>9, SameStage DEF Stage
  <1> QED  BY <1>6, <1>8, <1>9, <1>10 DEF LedgerGood

-----------------------------------------------------------------------------
(* The loop of HandleReorgTx: g is what the turns for the deposits of each *)
(* subset of T lead to from ledger l.  That there is such a function is    *)
(* shown as for sums.                                                      *)
Turns(l, T, g) ==
    g = [s \in SUBSET T |-> IF s = {} THEN [ok |-> TRUE, l |-> l]
                            ELSE ReverseOne(Pick(s), g[s \ {Pick(s)}])]

(* What the function is at the empty set and at others.                    *)
LEMMA TurnsAt ==
    ASSUME NEW l, NEW T, NEW g, Turns(l, T, g), NEW s, s \subseteq T
    PROVE  g[s] = IF s = {} THEN [ok |-> TRUE, l |-> l] ELSE ReverseOne(Pick(s), g[s \ {Pick(s)}])
  BY Zenon DEF Turns

(* Two such functions agree where both are defined.                        *)
LEMMA TurnsAgree ==
    ASSUME NEW l, NEW S, NEW T, NEW g, NEW h, Turns(l, S, g), Turns(l, T, h),
           NEW s, s \subseteq S, s \subseteq T, IsFiniteSet(s)
    PROVE  g[s] = h[s]
  <1> DEFINE Bad == {t \in SUBSET s : g[t] # h[t]}
  <1>1. SUFFICES ASSUME Bad # {} PROVE FALSE
    OBVIOUS
  <1>2. \A t \in Bad : IsFiniteSet(t) /\ t \subseteq S /\ t \subseteq T /\ t \subseteq s
    BY FS_Subset
  <1>3. PICK t \in Bad : \A r \in Bad : ~(Cardinality(r) < Cardinality(t))
    <2> HIDE DEF Bad
    <2> QED  BY <1>1, <1>2, SmallestSet
  <1>4. g[t] = (IF t = {} THEN [ok |-> TRUE, l |-> l] ELSE ReverseOne(Pick(t), g[t \ {Pick(t)}]))
    <2>1. t \subseteq S
      BY <1>2
    <2> HIDE DEF Bad
    <2> QED  BY <2>1, TurnsAt
  <1>5. h[t] = (IF t = {} THEN [ok |-> TRUE, l |-> l] ELSE ReverseOne(Pick(t), h[t \ {Pick(t)}]))
    <2>1. t \subseteq T
      BY <1>2
    <2> HIDE DEF Bad
    <2> QED  BY <2>1, TurnsAt
  <1>6. t # {}
    BY <1>4, <1>5
  <1>7. t \ {Pick(t)} \notin Bad
    BY <1>2, <1>3, <1>6, Picked, Smaller
  <1>8. g[t \ {Pick(t)}] = h[t \ {Pick(t)}]
    BY <1>2, <1>7
  <1> QED  BY <1>4, <1>5, <1>8

(* There is one for every finite set.                                      *)
LEMMA TurnsExist ==
    ASSUME NEW l, NEW S, IsFiniteSet(S)
    PROVE  \E g : Turns(l, S, g)
  <1> DEFINE Bad == {t \in SUBSET S : ~\E g : Turns(l, t, g)}
  <1>1. SUFFICES ASSUME Bad # {} PROVE FALSE
    OBVIOUS
  <1>2. \A t \in Bad : IsFiniteSet(t) /\ t \subseteq S
    BY FS_Subset
  <1>3. PICK t \in Bad : \A r \in Bad : ~(Cardinality(r) < Cardinality(t))
    <2> HIDE DEF Bad
    <2> QED  BY <1>1, <1>2, SmallestSet
  <1> DEFINE start == [ok |-> TRUE, l |-> l]
             Below(r) == (CHOOSE g : Turns(l, r, g))[r]
             new == [s \in SUBSET t |-> IF s = {} THEN start ELSE ReverseOne(Pick(s), Below(s \ {Pick(s)}))]
  <1>4. ASSUME NEW s \in SUBSET t, s # {}
        PROVE  new[s \ {Pick(s)}] = Below(s \ {Pick(s)})
    <2> DEFINE r == s \ {Pick(s)}
               q == r \ {Pick(r)}
    <2>1. IsFiniteSet(s) /\ Cardinality(s) <= Cardinality(t) /\ IsFiniteSet(t) /\ s \subseteq S
      BY <1>2, FS_Subset
    <2>2. Pick(s) \in s /\ IsFiniteSet(r) /\ Cardinality(r) < Cardinality(s)
      BY <1>4, <2>1, Picked, Smaller
    <2>3. Cardinality(r) < Cardinality(t)
      BY <2>1, <2>2, FS_CardinalityType
    <2> DEFINE h == CHOOSE k : Turns(l, r, k)
    <2>4. Turns(l, r, h)
      BY <1>3, <2>1, <2>3
    <2>5. h[r] = IF r = {} THEN start ELSE ReverseOne(Pick(r), h[q])
      <3> HIDE DEF h, r
      <3> QED  BY <2>4, TurnsAt
    <2>6. ASSUME r # {} PROVE h[q] = Below(q)
      <3>1. Pick(r) \in r /\ IsFiniteSet(q) /\ Cardinality(q) < Cardinality(r)
        BY <2>2, <2>6, Picked, Smaller
      <3>2. Cardinality(q) < Cardinality(t) /\ q \subseteq S /\ q \subseteq r
        BY <2>1, <2>2, <2>3, <3>1, FS_CardinalityType
      <3> DEFINE k == CHOOSE j : Turns(l, q, j)
      <3>3. Turns(l, q, k)
        BY <1>3, <3>2
      <3> HIDE DEF h, k, q, r
      <3>4. h[q] = k[q]
        BY <2>4, <3>1, <3>2, <3>3, TurnsAgree
      <3> QED  BY <3>4 DEF k
    <2>7. new[r] = IF r = {} THEN start ELSE ReverseOne(Pick(r), Below(q))
      OBVIOUS
    <2> QED  BY <2>5, <2>6, <2>7
  <1>5. new = [s \in SUBSET t |-> IF s = {} THEN start ELSE ReverseOne(Pick(s), new[s \ {Pick(s)}])]
    <2> HIDE DEF Below, start
    <2>1. \A s \in SUBSET t : new[s] = IF s = {} THEN start ELSE ReverseOne(Pick(s), new[s \ {Pick(s)}])
      BY <1>4
    <2>2. new = [s \in SUBSET t |-> new[s]]
      OBVIOUS
    <2> HIDE DEF new
    <2> QED  BY <2>1, <2>2
  <1>6. Turns(l, t, new)
    <2> HIDE DEF new
    <2> QED  BY <1>5 DEF Turns
  <1> QED  BY <1>6

(* Once the turns for s went well, the deposits of s are reversed and all  *)
(* others as they were.                                                    *)
Unwound(l, s, acc) ==
    acc.ok => /\ LedgerGood(acc.l)
              /\ \A d \in s : IsReversed(acc.l, d)
              /\ \A e \in Deposits : e \notin s => SameEntriesOf(l, acc.l, e)

(* One turn more: d is reversed as well.                                   *)
LEMMA OneTurn ==
    ASSUME NEW l, NEW s, NEW acc, Unwound(l, s, acc), s \subseteq Deposits,
           NEW d \in Deposits, d \notin s, IsCredited(l, d)
    PROVE  Unwound(l, s \union {d}, ReverseOne(d, acc))
  <1> DEFINE op == reverseDeposit(d, depAmount[d])
             m == applyLedgerTx(acc.l, depUser[d], op)
  <1>1. SUFFICES ASSUME ReverseOne(d, acc).ok PROVE Unwound(l, s \union {d}, ReverseOne(d, acc))
    BY Zenon DEF Unwound
  <1>2. acc.ok /\ CanApply(acc.l.account[depUser[d]], op) /\ ReverseOne(d, acc).l = m
    <2> HIDE DEF op
    <2>1. ReverseOne(d, acc) = IF acc.ok /\ CanApply(acc.l.account[depUser[d]], op)
                               THEN [ok |-> TRUE, l |-> applyLedgerTx(acc.l, depUser[d], op)]
                               ELSE [ok |-> FALSE, l |-> acc.l]
      BY Zenon DEF ReverseOne, op
    <2> QED  BY <1>1, <2>1
  <1>3. /\ LedgerGood(acc.l) /\ \A e \in s : IsReversed(acc.l, e)
        /\ \A e \in Deposits : e \notin s => SameEntriesOf(l, acc.l, e)
    BY <1>2 DEF Unwound
  <1>4. IsCredited(acc.l, d)
    BY <1>3, SameStage
  <1>5. /\ LedgerGood(m) /\ IsReversed(m, d)
        /\ \A e \in Deposits : e # d => SameEntriesOf(acc.l, m, e)
    BY <1>2, <1>3, <1>4, ReverseGood
  <1> HIDE DEF m
  <1>6. \A e \in s \union {d} : IsReversed(m, e)
    BY <1>3, <1>5, SameStage
  <1>7. \A e \in Deposits : e \notin s \union {d} => SameEntriesOf(l, m, e)
    BY <1>3, <1>5 DEF SameEntriesOf
  <1> QED  BY <1>2, <1>5, <1>6, <1>7 DEF Unwound

(* All the turns.                                                          *)
LEMMA AllTurns ==
    ASSUME NEW l, LedgerGood(l), NEW T, IsFiniteSet(T), T \subseteq Deposits,
           \A d \in T : IsCredited(l, d), NEW g, Turns(l, T, g)
    PROVE  \A s \in SUBSET T : Unwound(l, s, g[s])
  <1> DEFINE Bad == {s \in SUBSET T : ~Unwound(l, s, g[s])}
  <1>1. SUFFICES ASSUME Bad # {} PROVE FALSE
    OBVIOUS
  <1>2. \A s \in Bad : IsFiniteSet(s) /\ s \subseteq T
    BY FS_Subset
  <1>3. PICK s \in Bad : \A r \in Bad : ~(Cardinality(r) < Cardinality(s))
    <2> HIDE DEF Bad
    <2> QED  BY <1>1, <1>2, SmallestSet
  <1>4. g[s] = (IF s = {} THEN [ok |-> TRUE, l |-> l] ELSE ReverseOne(Pick(s), g[s \ {Pick(s)}]))
    BY <1>2, TurnsAt
  <1>5. CASE s = {}
    <2>1. g[s].l = l
      BY <1>4, <1>5
    <2>2. Unwound(l, s, g[s])
      BY <1>5, <2>1 DEF Unwound, SameEntriesOf
    <2> QED  BY <2>2
  <1>6. CASE s # {}
    <2>1. PICK x \in s : x = Pick(s)
      BY <1>6, Picked
    <2>2. PICK r : r = s \ {x}
      OBVIOUS
    <2>3. r \notin Bad /\ r \subseteq T /\ r \union {x} = s /\ x \notin r
      BY <1>2, <1>3, <2>2, Smaller
    <2>4. Unwound(l, r, g[r])
      BY <2>3
    <2>5. Unwound(l, r \union {x}, ReverseOne(x, g[r]))
      BY <1>2, <2>3, <2>4, OneTurn
    <2>6. g[s] = ReverseOne(x, g[r])
      BY <1>4, <1>6, <2>1, <2>2
    <2> QED  BY <2>3, <2>5, <2>6
  <1> QED  BY <1>5, <1>6

(* reverseAll is all the turns.                                            *)
LEMMA ReversedAll ==
    ASSUME LedgerGood(ledger), NEW T, IsFiniteSet(T), T \subseteq Deposits,
           \A d \in T : IsCredited(ledger, d)
    PROVE  Unwound(ledger, T, reverseAll(T))
  <1> DEFINE g == CHOOSE h : Turns(ledger, T, h)
  <1>1. reverseAll(T) = g[T]
    BY Zenon DEF reverseAll, FoldSet, MapThenFoldSet, Turns, Pick
  <1>2. Turns(ledger, T, g)
    BY TurnsExist
  <1> HIDE DEF g
  <1>3. Unwound(ledger, T, g[T])
    BY <1>2, AllTurns
  <1> QED  BY <1>1, <1>3

-----------------------------------------------------------------------------
(* The inductive invariant once more, of tables given by name: rows are    *)
(* the deposits, bound the bindings, hands the workers.                    *)
DepositRows == [Deposits -> [status : {"none", "credited", "orphaned"}, block : Blocks \union {0}]]

(* RowCreditEventAgree, of one deposit.                                    *)
Agree(l, rows, ob, bound, d) ==
    LET events == RowsIn(ob, DepositKey(d))
    IN  /\ rows[d].status # "none" <=> ~Unbooked(l, d)
        /\ Cardinality(events) <= 1
        /\ ~Unbooked(l, d) /\ Bindings[depUser[d]] # {} => events # {}
        /\ \A r \in events : \/ r.event = EventPaymentSuccess
                             \/ ~Unbooked(l, d) /\ r.merchant \in bound[depUser[d]]

TablesGood(rows, bound) ==
    /\ rows \in DepositRows
    /\ IsFiniteSet({d \in Deposits : rows[d].status # "none"})
    /\ bound \in [Users -> SUBSET Merchants]
    /\ \A u \in Users : Bindings[u] \subseteq bound[u]

Capturing(hands, w) == hands[w].op = "capture"
CaptureGood(rows, hands, w) ==
    /\ hands[w].dep \in Deposits /\ hands[w].block \in Blocks
    /\ rows[hands[w].dep].status = "none"
    /\ depUser[hands[w].dep] \in NewUsers
HandsGood(rows, hands) ==
    /\ hands \in [Workers -> WorkerState]
    /\ \A w \in Workers : Capturing(hands, w) => CaptureGood(rows, hands, w)
    /\ \A v, w \in Workers : Capturing(hands, v) /\ Capturing(hands, w) /\ hands[v].dep = hands[w].dep => v = w
    /\ \A w \in Workers : IsFiniteSet(hands[w].deps)

DepositState(l, rows, ob, bound, hands) ==
    /\ LedgerGood(l) /\ TablesGood(rows, bound) /\ HandsGood(rows, hands)
    /\ \A d \in Deposits : Agree(l, rows, ob, bound, d)

(* The journal has a credit of a deposit if and only if it is booked.      *)
LEMMA BookedMeans ==
    ASSUME NEW l, NEW d \in Deposits, Stage(l, d)
    PROVE  (\E u \in Users : EntriesIn(l, u, "deposit_credit", d) # {}) <=> ~Unbooked(l, d)
  <1>1. depUser[d] \in Users
    BY DepositAssumption
  <1>2. Unbooked(l, d) => ~\E u \in Users : EntriesIn(l, u, "deposit_credit", d) # {}
    BY DEF Unbooked
  <1> QED  BY <1>1, <1>2, BookedIsNotUnbooked DEF Stage

(* The properties of the deposits in the words of this module.             *)
LEMMA PartsMean ==
    /\ ledger \in LedgerType => (CreditedOnce <=> \A d \in Deposits : Stage(ledger, d))
    /\ (\A d \in Deposits : Stage(ledger, d)) =>
          (RowCreditEventAgree <=> \A d \in Deposits : Agree(ledger, deposit, outbox, binding, d))
    /\ AccountWithinJournal /\ (\A u \in Users \ NewUsers : ledger.account[u].exists) <=> AllCovered(ledger)
  <1> DEFINE Credited(d) == HasEntry("deposit_credit", d)
  <1>1. CreditedOnce <=> \A d \in Deposits : OnceEach(ledger, d)
    <2>1. \A u, type, d : Entries(u, type, d) = EntriesIn(ledger, u, type, d)
      BY DEF Entries, EntriesIn
    <2> QED  BY <2>1, Zenon DEF CreditedOnce, OnceEach
  <1>2. \A d : Credited(d) <=> \E u \in Users : EntriesIn(ledger, u, "deposit_credit", d) # {}
    BY DEF HasEntry, EntriesIn
  <1>3. \A d \in Deposits : Stage(ledger, d) => (Credited(d) <=> ~Unbooked(ledger, d))
    BY <1>2, BookedMeans
  <1>4. RowCreditEventAgree <=>
          \A d \in Deposits :
              LET events == RowsIn(outbox, DepositKey(d))
              IN  /\ deposit[d].status # "none" <=> Credited(d)
                  /\ Cardinality(events) <= 1
                  /\ Credited(d) /\ Bindings[depUser[d]] # {} => events # {}
                  /\ \A r \in events : \/ r.event = EventPaymentSuccess
                                       \/ Credited(d) /\ r.merchant \in binding[depUser[d]]
    BY Zenon DEF RowCreditEventAgree, OutboxRows, RowsIn, ListBindingsByPayer
  <1> HIDE DEF Credited
  <1>5. ASSUME \A d \in Deposits : Stage(ledger, d)
        PROVE  RowCreditEventAgree <=> \A d \in Deposits : Agree(ledger, deposit, outbox, binding, d)
    BY <1>3, <1>4, <1>5, Zenon DEF Agree
  <1>6. \A u \in Users : JournalTotal(u) = TotalOf(ledger.journal[u])
    BY DEF JournalTotal, TotalOf, Change
  <1>7. AccountWithinJournal /\ (\A u \in Users \ NewUsers : ledger.account[u].exists) <=> AllCovered(ledger)
    BY <1>6, Zenon DEF AccountWithinJournal, AllCovered, Covered, HeldBy
  <1>8. ledger \in LedgerType => (CreditedOnce <=> \A d \in Deposits : Stage(ledger, d))
    BY <1>1, StageMeans
  <1> QED  BY <1>5, <1>7, <1>8

(* Both invariants are the same.                                           *)
LEMMA DepositInvMeans ==
    DepositInv <=> DepositState(ledger, deposit, outbox, binding, worker) /\ outbox \subseteq DepositOutboxRow
  <1>1. DepositsAreFound <=> Findable(ledger)
    BY DEF DepositsAreFound, Findable
  <1>2. CapturesAreNew /\ worker \in [Workers -> WorkerState] /\ (\A w \in Workers : IsFiniteSet(worker[w].deps))
           <=> HandsGood(deposit, worker)
    BY DEF CapturesAreNew, HandsGood, Capturing, CaptureGood
  <1>3. DepositTypeOK <=> /\ ledger \in LedgerType /\ deposit \in DepositRows /\ outbox \subseteq DepositOutboxRow
                          /\ binding \in [Users -> SUBSET Merchants] /\ worker \in [Workers -> WorkerState]
    BY DEF DepositTypeOK, LedgerTypeOK, LedgerType, DepositRows
  <1> QED  BY <1>1, <1>2, <1>3, PartsMean, Zenon
              DEF DepositInv, RowsStay, DepositState, LedgerGood, TablesGood

(* The same of the next state.                                             *)
LEMMA DepositInvMeansNext ==
    DepositInv' <=> (DepositState(ledger, deposit, outbox, binding, worker) /\ outbox \subseteq DepositOutboxRow)'
  BY DepositInvMeans, PTL

-----------------------------------------------------------------------------
(* Workers that forget what they hold.                                     *)
LEMMA HandsForgotten ==
    ASSUME NEW rows, NEW hands, HandsGood(rows, hands), NEW after \in [Workers -> WorkerState],
           \A w \in Workers : after[w] = hands[w] \/ after[w] = Idle
    PROVE  HandsGood(rows, after)
  <1>1. Idle.op = "idle" /\ IsFiniteSet(Idle.deps)
    BY FS_EmptySet DEF Idle
  <1> QED  BY <1>1, SMTT(30) DEF HandsGood, Capturing, CaptureGood

(* A row of a deposit that no worker holds is written.                     *)
LEMMA HandsKept ==
    ASSUME NEW rows, NEW hands, HandsGood(rows, hands), NEW new,
           \A d \in Deposits : new[d].status = rows[d].status \/ \A w \in Workers : Capturing(hands, w) => hands[w].dep # d
    PROVE  HandsGood(new, hands)
  BY DEF HandsGood, CaptureGood

(* What MarkDepositCreditedTx does to the rows.                            *)
Marked(rows, d, b, new) == new = [rows EXCEPT ![d] = [status |-> "credited", block |-> b]]

(* One row is marked, the others stay.                                     *)
LEMMA RowsMarked ==
    ASSUME NEW rows, NEW bound, TablesGood(rows, bound), NEW d \in Deposits, NEW b \in Blocks,
           NEW new, Marked(rows, d, b, new)
    PROVE  /\ TablesGood(new, bound) /\ new[d].status # "none"
           /\ \A e \in Deposits : e # d => new[e] = rows[e]
  <1>1. rows \in DepositRows
    BY DEF TablesGood
  <1>2. new \in DepositRows /\ new[d].status # "none" /\ \A e \in Deposits : e # d => new[e] = rows[e]
    BY <1>1 DEF DepositRows, Marked
  <1>3. {e \in Deposits : new[e].status # "none"} = {e \in Deposits : rows[e].status # "none"} \union {d}
    BY <1>2
  <1>4. IsFiniteSet({e \in Deposits : new[e].status # "none"})
    BY <1>3, FS_AddElement DEF TablesGood
  <1> QED  BY <1>2, <1>4 DEF TablesGood

(* A deposit that was credited before is only marked.                      *)
LEMMA MarkKeeps ==
    ASSUME NEW l, NEW rows, NEW ob, NEW bound, NEW hands, DepositState(l, rows, ob, bound, hands),
           NEW d \in Deposits, NEW b \in Blocks, ~Unbooked(l, d),
           NEW new, Marked(rows, d, b, new)
    PROVE  DepositState(l, new, ob, bound, hands)
  <1>1. LedgerGood(l) /\ TablesGood(rows, bound) /\ HandsGood(rows, hands) /\ \A e \in Deposits : Agree(l, rows, ob, bound, e)
    BY DEF DepositState
  <1>2. TablesGood(new, bound) /\ new[d].status # "none" /\ \A e \in Deposits : e # d => new[e] = rows[e]
    <2>1. TablesGood(rows, bound)
      BY <1>1
    <2> QED  BY <2>1, RowsMarked
  <1>3. rows[d].status # "none"
    BY <1>1 DEF Agree
  <1>4. \A e \in Deposits : Agree(l, new, ob, bound, e)
    BY <1>1, <1>2, <1>3 DEF Agree
  <1>5. \A w \in Workers : Capturing(hands, w) => hands[w].dep # d
    BY <1>1, <1>3 DEF HandsGood, CaptureGood
  <1>6. HandsGood(new, hands)
    <2>1. ASSUME NEW e \in Deposits
          PROVE  new[e].status = rows[e].status \/ \A w \in Workers : Capturing(hands, w) => hands[w].dep # e
      BY <1>2, <1>5, Zenon
    <2> QED  BY <1>1, <2>1, HandsKept, Zenon
  <1> QED  BY <1>1, <1>2, <1>4, <1>6 DEF DepositState

(* What EnqueueDepositTx leaves in the outbox.                             *)
Enqueued(ob, bound, d, more) ==
    /\ bound[depUser[d]] = {} => more = ob
    /\ bound[depUser[d]] # {} =>
          \E m \in bound[depUser[d]] : more = InsertOutboxTx(ob, m, EventDepositConfirmed, DepositKey(d))

(* A set of one row has one element.                                       *)
LEMMA OneRow == \A x : Cardinality({x}) <= 1
  <1>1. ASSUME NEW x PROVE Cardinality({x}) <= 1
    <2>1. PICK n : n = Cardinality({x})
      OBVIOUS
    <2>2. n = 1
      BY <2>1, FS_Singleton, Zenon
    <2> QED  BY <2>1, <2>2
  <1> QED  BY <1>1

(* An inserted event is the only one with its key, and no other key's.     *)
LEMMA EventAdded ==
    ASSUME NEW ob, NEW m, NEW e, NEW k, ~Taken(ob, k), NEW more, NEW new, AddsEvent(ob, m, e, k, more, new)
    PROVE  RowsIn(more, k) = {new} /\ \A j : j # k => RowsIn(more, j) = RowsIn(ob, j)
  BY DEF AddsEvent, RowsIn, Taken

(* A payment that has taken the key of d leaves no room for d's event; if  *)
(* not, that is the event with this key.                                   *)
LEMMA EventOnce ==
    ASSUME NEW rows, NEW ob, NEW bound, TablesGood(rows, bound), NEW d \in Deposits, NEW more,
           Enqueued(ob, bound, d, more), Cardinality(RowsIn(ob, DepositKey(d))) <= 1,
           \A r \in RowsIn(ob, DepositKey(d)) : r.event = EventPaymentSuccess
    PROVE  /\ \A e \in Deposits : e # d => RowsIn(more, DepositKey(e)) = RowsIn(ob, DepositKey(e))
           /\ Cardinality(RowsIn(more, DepositKey(d))) <= 1
           /\ Bindings[depUser[d]] # {} => RowsIn(more, DepositKey(d)) # {}
           /\ \A r \in RowsIn(more, DepositKey(d)) : r.event = EventPaymentSuccess \/ r.merchant \in bound[depUser[d]]
  <1>1. depUser[d] \in Users
    BY DepositAssumption
  <1>2. CASE bound[depUser[d]] = {}
    <2>1. more = ob /\ Bindings[depUser[d]] = {}
      BY <1>1, <1>2 DEF Enqueued, TablesGood
    <2> QED  BY <2>1
  <1>3. CASE bound[depUser[d]] # {}
    <2>1. PICK m \in bound[depUser[d]] : more = InsertOutboxTx(ob, m, EventDepositConfirmed, DepositKey(d))
      BY <1>3 DEF Enqueued
    <2>2. CASE Taken(ob, DepositKey(d))
      <3>1. more = ob
        BY <2>1, <2>2, Inserted
      <3>2. RowsIn(ob, DepositKey(d)) # {}
        BY <2>2 DEF Taken, RowsIn
      <3> QED  BY <3>1, <3>2
    <2>3. CASE ~Taken(ob, DepositKey(d))
      <3>1. PICK new : AddsEvent(ob, m, EventDepositConfirmed, DepositKey(d), more, new)
        BY <2>1, <2>3, Inserted, Zenon
      <3>2. RowsIn(more, DepositKey(d)) = {new} /\ \A j : j # DepositKey(d) => RowsIn(more, j) = RowsIn(ob, j)
        BY <2>3, <3>1, EventAdded
      <3>3. \A e \in Deposits : e # d => DepositKey(e) # DepositKey(d)
        BY DEF DepositKey
      <3>4. new.merchant \in bound[depUser[d]]
        BY <3>1 DEF AddsEvent
      <3>5. Cardinality({new}) <= 1
        BY OneRow
      <3> QED  BY <3>2, <3>3, <3>4, <3>5
    <2> QED  BY <2>2, <2>3
  <1> QED  BY <1>2, <1>3

(* The event of a payment, whatever its key.                               *)
LEMMA PaidEventAgrees ==
    ASSUME NEW l, NEW rows, NEW ob, NEW bound, NEW d \in Deposits, Agree(l, rows, ob, bound, d),
           NEW m, NEW k, NEW more, more = InsertOutboxTx(ob, m, EventPaymentSuccess, k)
    PROVE  Agree(l, rows, more, bound, d)
  <1>1. CASE Taken(ob, k)
    BY <1>1, Inserted, Zenon
  <1>2. CASE ~Taken(ob, k)
    <2>1. PICK new : AddsEvent(ob, m, EventPaymentSuccess, k, more, new)
      BY <1>2, Inserted, Zenon
    <2>2. RowsIn(more, k) = {new} /\ \A j : j # k => RowsIn(more, j) = RowsIn(ob, j)
      BY <1>2, <2>1, EventAdded
    <2>3. CASE DepositKey(d) # k
      <3>1. RowsIn(more, DepositKey(d)) = RowsIn(ob, DepositKey(d))
        BY <2>2, <2>3
      <3> QED  BY <3>1 DEF Agree
    <2>4. CASE DepositKey(d) = k
      <3>1. RowsIn(more, DepositKey(d)) = {new} /\ new.event = EventPaymentSuccess
        BY <2>1, <2>2, <2>4 DEF AddsEvent
      <3>2. Cardinality({new}) <= 1
        BY OneRow
      <3> QED  BY <3>1, <3>2 DEF Agree
    <2> QED  BY <2>3, <2>4
  <1>3. Taken(ob, k) \/ ~Taken(ob, k)
    OBVIOUS
  <1> QED  BY <1>1, <1>2, <1>3, Zenon

(* The credit of a deposit that is not booked and in no other hands.       *)
LEMMA CreditKeeps ==
    ASSUME NEW l, NEW rows, NEW ob, NEW bound, NEW hands, DepositState(l, rows, ob, bound, hands),
           NEW d \in Deposits, NEW b \in Blocks, Unbooked(l, d),
           NEW row, ReadRow(l, depUser[d], row),
           NEW m, m = WriteLedger(l, depUser[d], row, creditDeposit(d, depAmount[d])),
           NEW new, Marked(rows, d, b, new),
           NEW more, Enqueued(ob, bound, d, more),
           NEW after, HandsGood(rows, after), \A w \in Workers : Capturing(after, w) => after[w].dep # d
    PROVE  DepositState(m, new, more, bound, after)
  <1>1. LedgerGood(l) /\ TablesGood(rows, bound) /\ \A e \in Deposits : Agree(l, rows, ob, bound, e)
    BY DEF DepositState
  <1>2. TablesGood(new, bound) /\ new[d].status # "none" /\ \A e \in Deposits : e # d => new[e] = rows[e]
    <2>1. TablesGood(rows, bound)
      BY <1>1
    <2> QED  BY <2>1, RowsMarked
  <1>3. /\ Cardinality(RowsIn(ob, DepositKey(d))) <= 1
        /\ \A r \in RowsIn(ob, DepositKey(d)) : r.event = EventPaymentSuccess
    BY <1>1 DEF Agree
  <1>4. /\ \A e \in Deposits : e # d => RowsIn(more, DepositKey(e)) = RowsIn(ob, DepositKey(e))
        /\ Cardinality(RowsIn(more, DepositKey(d))) <= 1
        /\ Bindings[depUser[d]] # {} => RowsIn(more, DepositKey(d)) # {}
        /\ \A r \in RowsIn(more, DepositKey(d)) : r.event = EventPaymentSuccess \/ r.merchant \in bound[depUser[d]]
    <2>1. TablesGood(rows, bound)
      BY <1>1
    <2> QED  BY <1>3, <2>1, EventOnce
  <1>5. LedgerGood(m) /\ IsCredited(m, d) /\ \A e \in Deposits : e # d => SameEntriesOf(l, m, e)
    BY <1>1, CreditGood
  <1>6. ~Unbooked(m, d)
    BY <1>5, BookedIsNotUnbooked
  <1>7. Agree(m, new, more, bound, d)
    BY <1>2, <1>4, <1>6 DEF Agree
  <1>8. ASSUME NEW e \in Deposits, e # d PROVE Agree(m, new, more, bound, e)
    <2>1. Unbooked(m, e) <=> Unbooked(l, e)
      BY <1>5, <1>8, SameStage
    <2>2. Agree(l, rows, ob, bound, e) /\ new[e] = rows[e] /\ RowsIn(more, DepositKey(e)) = RowsIn(ob, DepositKey(e))
      BY <1>1, <1>2, <1>4, <1>8
    <2> QED  BY <2>1, <2>2, Zenon DEF Agree
  <1>9. HandsGood(new, after)
    <2>1. ASSUME NEW e \in Deposits
          PROVE  new[e].status = rows[e].status \/ \A w \in Workers : Capturing(after, w) => after[w].dep # e
      BY <1>2, Zenon
    <2> QED  BY <2>1, HandsKept, Zenon
  <1> QED  BY <1>2, <1>5, <1>7, <1>8, <1>9 DEF DepositState

(* The deposits of the blocks that were left are orphaned, some of them    *)
(* reversed.                                                               *)
LEMMA ReorgKeeps ==
    ASSUME NEW l, NEW rows, NEW ob, NEW bound, NEW hands, DepositState(l, rows, ob, bound, hands),
           NEW T, T \subseteq Deposits, \A d \in T : IsCredited(l, d),
           NEW acc, Unwound(l, T, acc), acc.ok,
           NEW S, \A d \in S : rows[d].status = "credited",
           NEW new, new = [d \in Deposits |-> IF d \in S THEN [rows[d] EXCEPT !.status = "orphaned"] ELSE rows[d]],
           NEW after, HandsGood(rows, after)
    PROVE  DepositState(acc.l, new, ob, bound, after)
  <1>1. LedgerGood(l) /\ TablesGood(rows, bound) /\ \A e \in Deposits : Agree(l, rows, ob, bound, e)
    BY DEF DepositState
  <1>2. rows \in DepositRows
    BY <1>1 DEF TablesGood
  <1>3. \A d \in Deposits : new[d].status = "none" <=> rows[d].status = "none"
    BY <1>2 DEF DepositRows
  <1>4. new \in DepositRows
    BY <1>2 DEF DepositRows
  <1>5. TablesGood(new, bound)
    <2>1. {d \in Deposits : new[d].status # "none"} = {d \in Deposits : rows[d].status # "none"}
      BY <1>3
    <2> QED  BY <1>1, <1>4, <2>1 DEF TablesGood
  <1>6. PICK m : m = acc.l
    OBVIOUS
  <1>7. /\ LedgerGood(m) /\ \A d \in T : IsReversed(m, d)
        /\ \A e \in Deposits : e \notin T => SameEntriesOf(l, m, e)
    BY <1>6 DEF Unwound
  <1>8. \A e \in Deposits : Unbooked(m, e) <=> Unbooked(l, e)
    BY <1>7, SameStage, BookedIsNotUnbooked
  <1>9. \A e \in Deposits : Agree(m, new, ob, bound, e)
    BY <1>1, <1>3, <1>8 DEF Agree
  <1>10. HandsGood(new, after)
    BY <1>3 DEF HandsGood, CaptureGood
  <1> QED  BY <1>5, <1>6, <1>7, <1>9, <1>10 DEF DepositState

-----------------------------------------------------------------------------
(* The steps, which keep the invariant of the state they start in.         *)
State == DepositState(ledger, deposit, outbox, binding, worker)

(* What the steps need of the workers.                                     *)
LEMMA HandFacts ==
    ASSUME State
    PROVE  /\ worker \in [Workers -> WorkerState]
           /\ \A w \in Workers : worker[w].op = "capture" => CaptureGood(deposit, worker, w)
           /\ \A w \in Workers : worker[w].deps \subseteq Deposits /\ IsFiniteSet(worker[w].deps)
  <1>1. HandsGood(deposit, worker)
    BY DEF State, DepositState
  <1>2. worker \in [Workers -> WorkerState]
    BY <1>1 DEF HandsGood
  <1>3. \A w \in Workers : worker[w].deps \subseteq Deposits
    BY <1>2 DEF WorkerState
  <1> QED  BY <1>1, <1>2, <1>3 DEF HandsGood, Capturing

(* A worker that ends its transaction.                                     *)
LEMMA HandsEmptied ==
    ASSUME State, NEW w \in Workers, worker' = [worker EXCEPT ![w] = Idle]
    PROVE  HandsGood(deposit, worker')
  <1>1. HandsGood(deposit, worker) /\ worker \in [Workers -> WorkerState]
    BY HandFacts DEF State, DepositState
  <1>2. Idle \in WorkerState
    BY DEF Idle, WorkerState
  <1>3. worker' \in [Workers -> WorkerState] /\ \A v \in Workers : worker'[v] = worker[v] \/ worker'[v] = Idle
    BY <1>1, <1>2
  <1> QED  BY <1>1, <1>3, HandsForgotten

(* A step that changes the workers only.                                   *)
LEMMA OnlyHands ==
    ASSUME State, HandsGood(deposit, worker'), UNCHANGED <<ledger, deposit, outbox, binding>>
    PROVE  State'
  BY DEF State, DepositState

(* CreditAndMark, the hands of the workers being what they will be.        *)
LEMMA CreditAndMarkStep ==
    ASSUME State, NEW d \in Deposits, NEW b \in Blocks, NEW row, CreditAndMark(d, b, row), UNCHANGED binding,
           Unbooked(ledger, d), ReadRow(ledger, depUser[d], row),
           HandsGood(deposit, worker'), \A w \in Workers : Capturing(worker', w) => worker'[w].dep # d
    PROVE  State'
  <1>1. /\ ledger' = WriteLedger(ledger, depUser[d], row, creditDeposit(d, depAmount[d]))
        /\ Marked(deposit, d, b, deposit')
        /\ outbox' \in EnqueueDepositTx(outbox, d)
    BY DEF CreditAndMark, MarkDepositCreditedTx, Marked
  <1>2. Enqueued(outbox, binding, d, outbox')
    BY <1>1 DEF Enqueued, EnqueueDepositTx, ListBindingsByPayer
  <1>3. DepositState(ledger, deposit, outbox, binding, worker)
    BY DEF State
  <1>4. DepositState(ledger', deposit', outbox', binding, worker')
    BY <1>1, <1>2, <1>3, CreditKeeps
  <1> QED  BY <1>4 DEF State

(* captureAndCredit.                                                       *)
LEMMA CaptureStep ==
    ASSUME State, NEW w \in Workers, NEW d \in Deposits, NEW b \in Blocks, captureAndCredit(w, d, b), UNCHANGED binding
    PROVE  State'
  <1>1. LedgerGood(ledger) /\ HandsGood(deposit, worker)
    BY DEF State, DepositState
  <1>2. hasLedgerEntryTx(ledger, d, "deposit_credit") <=> ~Unbooked(ledger, d)
    BY <1>1, EntriesFound
  <1>3. worker' = worker /\ ~Locked(d)
    BY DEF captureAndCredit, GetDepositByKeyTx
  <1>4. CASE hasLedgerEntryTx(ledger, d, "deposit_credit")
    <2>1. MarkOnly(d, b)
      BY <1>4 DEF captureAndCredit
    <2>2. Marked(deposit, d, b, deposit') /\ UNCHANGED <<ledger, outbox>>
      BY <2>1 DEF MarkOnly, MarkDepositCreditedTx, Marked
    <2>3. DepositState(ledger, deposit', outbox, binding, worker)
      <3>1. DepositState(ledger, deposit, outbox, binding, worker) /\ ~Unbooked(ledger, d)
        BY <1>2, <1>4 DEF State
      <3> QED  BY <2>2, <3>1, MarkKeeps
    <2> QED  BY <1>3, <2>2, <2>3 DEF State
  <1>5. CASE ~hasLedgerEntryTx(ledger, d, "deposit_credit")
    <2>1. CreditAndMark(d, b, ledger.account[depUser[d]])
      BY <1>5 DEF captureAndCredit
    <2>2. ReadRow(ledger, depUser[d], ledger.account[depUser[d]])
      BY DEF ReadRow
    <2>3. \A v \in Workers : Capturing(worker', v) => worker'[v].dep # d
      BY <1>3 DEF Locked, Capturing
    <2>4. HandsGood(deposit, worker')
      BY <1>1, <1>3
    <2>5. Unbooked(ledger, d)
      BY <1>2, <1>5
    <2> QED  BY <2>1, <2>2, <2>3, <2>4, <2>5, CreditAndMarkStep
  <1> QED  BY <1>4, <1>5

(* BeginFirstCredit: the deposit is new, its user too.                     *)
LEMMA BeginFirstStep ==
    ASSUME State, NEW w \in Workers, NEW d \in Deposits, NEW b \in Blocks, BeginFirstCredit(w, d, b), UNCHANGED binding
    PROVE  State'
  <1>1. LedgerGood(ledger) /\ HandsGood(deposit, worker) /\ Agree(ledger, deposit, outbox, binding, d)
    BY DEF State, DepositState
  <1>2. deposit[d].status = "none"
    BY <1>1, EntriesFound DEF BeginFirstCredit, Agree
  <1>3. depUser[d] \in NewUsers
    <2>1. depUser[d] \in Users
      BY DepositAssumption
    <2> QED  BY <1>1, <2>1 DEF LedgerGood, AllCovered, Covered, BeginFirstCredit
  <1>4. PICK h \in WorkerState : h = [op |-> "capture", dep |-> d, block |-> b, deps |-> {}]
    BY DEF WorkerState
  <1>5. h.op = "capture" /\ h.dep = d /\ h.block = b /\ IsFiniteSet(h.deps)
    BY <1>4, FS_EmptySet
  <1>6. worker' = [worker EXCEPT ![w] = h] /\ ~Locked(d) /\ UNCHANGED <<ledger, deposit, outbox>>
    BY <1>4 DEF BeginFirstCredit, GetDepositByKeyTx
  <1>7. worker' \in [Workers -> WorkerState] /\ worker'[w] = h /\ \A v \in Workers : v # w => worker'[v] = worker[v]
    BY <1>1, <1>6 DEF HandsGood
  <1>8. ASSUME NEW v \in Workers, Capturing(worker', v) PROVE CaptureGood(deposit, worker', v)
    <2>1. CASE v = w
      BY <1>2, <1>3, <1>5, <1>7, <2>1 DEF CaptureGood
    <2>2. CASE v # w
      BY <1>1, <1>7, <1>8, <2>2 DEF HandsGood, CaptureGood, Capturing
    <2> QED  BY <2>1, <2>2
  <1>9. \A v \in Workers : v # w /\ Capturing(worker', v) => worker'[v].dep # d
    BY <1>6, <1>7 DEF Locked, Capturing
  <1>10. ASSUME NEW u \in Workers, NEW v \in Workers, Capturing(worker', u), Capturing(worker', v), worker'[u].dep = worker'[v].dep
         PROVE  u = v
    <2>1. CASE u = w \/ v = w
      BY <1>5, <1>7, <1>9, <1>10, <2>1
    <2>2. CASE u # w /\ v # w
      BY <1>1, <1>7, <1>10, <2>2 DEF HandsGood, Capturing
    <2> QED  BY <2>1, <2>2
  <1>11. \A v \in Workers : IsFiniteSet(worker'[v].deps)
    BY <1>1, <1>5, <1>7 DEF HandsGood
  <1>12. HandsGood(deposit, worker')
    BY <1>7, <1>8, <1>10, <1>11 DEF HandsGood
  <1> QED  BY <1>6, <1>12, OnlyHands

(* CommitFirstCredit: the deposit is still new, no other worker has it.    *)
LEMMA CommitFirstStep ==
    ASSUME State, NEW w \in Workers, CommitFirstCredit(w), UNCHANGED binding
    PROVE  State'
  <1>1. worker[w].op = "capture" /\ CreditAndMark(worker[w].dep, worker[w].block, MissingRow)
        /\ worker' = [worker EXCEPT ![w] = Idle]
    BY DEF CommitFirstCredit
  <1>2. CaptureGood(deposit, worker, w)
    BY <1>1, HandFacts
  <1>3. PICK d \in Deposits, b \in Blocks : /\ d = worker[w].dep /\ b = worker[w].block
                                            /\ deposit[d].status = "none" /\ depUser[d] \in NewUsers
    BY <1>2 DEF CaptureGood
  <1>4. Unbooked(ledger, d)
    <2>1. Agree(ledger, deposit, outbox, binding, d)
      BY DEF State, DepositState
    <2> QED  BY <1>3, <2>1 DEF Agree
  <1>5. ReadRow(ledger, depUser[d], MissingRow)
    BY <1>3 DEF ReadRow
  <1>6. HandsGood(deposit, worker')
    BY <1>1, HandsEmptied
  <1>7. ASSUME NEW v \in Workers, Capturing(worker', v) PROVE worker'[v].dep # d
    <2>1. worker \in [Workers -> WorkerState] /\ Idle.op = "idle"
      BY HandFacts DEF Idle
    <2>2. v # w /\ worker'[v] = worker[v] /\ Capturing(worker, v) /\ Capturing(worker, w)
      BY <1>1, <1>7, <2>1 DEF Capturing
    <2>3. HandsGood(deposit, worker)
      BY DEF State, DepositState
    <2> QED  BY <1>3, <2>2, <2>3 DEF HandsGood
  <1> QED  BY <1>1, <1>3, <1>4, <1>5, <1>6, <1>7, CreditAndMarkStep

(* BeginReorg: a worker takes deposits that have rows.                     *)
LEMMA BeginReorgStep ==
    ASSUME State, NEW w \in Workers, NEW from \in Blocks, BeginReorg(w, from), UNCHANGED binding
    PROVE  State'
  <1>1. PICK deps : deps = Affected(from)
    OBVIOUS
  <1>2. HandsGood(deposit, worker) /\ TablesGood(deposit, binding)
    BY DEF State, DepositState
  <1>3. deps \subseteq Deposits /\ deps \subseteq {d \in Deposits : deposit[d].status # "none"}
    BY <1>1 DEF Affected
  <1>4. IsFiniteSet(deps)
    BY <1>2, <1>3, FS_Subset DEF TablesGood
  <1>5. PICK h \in WorkerState : h = [op |-> "reorg", dep |-> 0, block |-> from, deps |-> deps]
    BY <1>3 DEF WorkerState
  <1>6. h.op = "reorg" /\ h.deps = deps
    BY <1>5
  <1>7. worker' = [worker EXCEPT ![w] = h] /\ UNCHANGED <<ledger, deposit, outbox>>
    BY <1>1, <1>5 DEF BeginReorg
  <1>8. worker' \in [Workers -> WorkerState] /\ worker'[w] = h /\ \A v \in Workers : v # w => worker'[v] = worker[v]
    BY <1>2, <1>7 DEF HandsGood
  <1>9. \A v \in Workers : Capturing(worker', v) => v # w
    BY <1>6, <1>8 DEF Capturing
  <1>10. HandsGood(deposit, worker')
    BY <1>2, <1>4, <1>6, <1>8, <1>9, SMTT(30) DEF HandsGood, CaptureGood, Capturing
  <1> QED  BY <1>7, <1>10, OnlyHands

(* CommitReorg.                                                            *)
LEMMA CommitReorgStep ==
    ASSUME State, NEW w \in Workers, CommitReorg(w), UNCHANGED binding
    PROVE  State'
  <1> DEFINE T == Reversible(worker[w].deps)
             S == Affected(worker[w].block)
             acc == reverseAll(T)
  <1>1. /\ acc.ok /\ ledger' = acc.l
        /\ deposit' = [d \in Deposits |-> IF d \in S THEN [deposit[d] EXCEPT !.status = "orphaned"] ELSE deposit[d]]
        /\ worker' = [worker EXCEPT ![w] = Idle]
        /\ outbox' = outbox
    BY DEF CommitReorg
  <1>2. DepositState(ledger, deposit, outbox, binding, worker) /\ LedgerGood(ledger)
    BY DEF State, DepositState
  <1>3. T \subseteq worker[w].deps
    BY DEF Reversible
  <1>4. T \subseteq Deposits /\ IsFiniteSet(T)
    BY <1>3, HandFacts, FS_Subset
  <1>5. \A d \in T : IsCredited(ledger, d)
    BY <1>2, <1>4, EntriesFound DEF Reversible
  <1>6. \A d \in S : deposit[d].status = "credited"
    BY DEF Affected
  <1>7. HandsGood(deposit, worker')
    BY <1>1, HandsEmptied
  <1> HIDE DEF T, S
  <1>8. Unwound(ledger, T, acc)
    BY <1>2, <1>4, <1>5, ReversedAll
  <1> HIDE DEF acc
  <1>9. DepositState(acc.l, deposit', outbox, binding, worker')
    BY <1>1, <1>2, <1>4, <1>5, <1>6, <1>7, <1>8, ReorgKeeps
  <1> QED  BY <1>1, <1>9 DEF State

(* AddBinding.                                                             *)
LEMMA AddBindingStep ==
    ASSUME State, NEW m \in Merchants, NEW u \in Users, AddBinding(m, u)
    PROVE  State'
  <1>1. binding' = [binding EXCEPT ![u] = @ \union {m}] /\ UNCHANGED <<ledger, deposit, worker, outbox>>
    BY DEF AddBinding
  <1>2. /\ LedgerGood(ledger) /\ TablesGood(deposit, binding) /\ HandsGood(deposit, worker)
        /\ \A d \in Deposits : Agree(ledger, deposit, outbox, binding, d)
    BY DEF State, DepositState
  <1>3. binding \in [Users -> SUBSET Merchants]
    BY <1>2 DEF TablesGood
  <1>4. binding' \in [Users -> SUBSET Merchants] /\ \A v \in Users : binding[v] \subseteq binding'[v]
    BY <1>1, <1>3
  <1>5. TablesGood(deposit, binding')
    BY <1>2, <1>4 DEF TablesGood
  <1>6. ASSUME NEW d \in Deposits PROVE Agree(ledger, deposit, outbox, binding', d)
    <2>1. depUser[d] \in Users
      BY DepositAssumption
    <2>2. binding[depUser[d]] \subseteq binding'[depUser[d]]
      BY <1>4, <2>1
    <2> QED  BY <1>2, <2>2 DEF Agree
  <1>7. DepositState(ledger, deposit, outbox, binding', worker)
    BY <1>2, <1>5, <1>6 DEF DepositState
  <1> QED  BY <1>1, <1>7 DEF State

(* The opening journals add up to the opening balances.                    *)
LEMMA OpeningCovered ==
    ASSUME LedgerInit
    PROVE  AllCovered(ledger)
  <1> SUFFICES ASSUME NEW u \in Users
               PROVE  Covered(ledger, u)
    BY DEF AllCovered
  <1>1. PICK o \in Nat : o = Opening[u] /\ (u \in NewUsers => o = 0)
    BY LedgerAssumption
  <1>2. HeldBy(ledger.account[u]) = o /\ (u \notin NewUsers => ledger.account[u].exists)
    <2>1. ledger.account[u] = IF u \in NewUsers THEN MissingRow ELSE [exists |-> TRUE, available |-> o, frozen |-> 0]
      BY <1>1, Zenon DEF LedgerInit
    <2> QED  BY <1>1, <2>1 DEF HeldBy, MissingRow
  <1>3. TotalOf(<<>>) = 0
    <2> DEFINE f == [i \in DOMAIN << >> |-> Change(<< >>[i].op)]
    <2>1. DOMAIN f = {}
      OBVIOUS
    <2>2. TotalOf(<<>>) = SumFunctionOnSet(f, {})
      BY <2>1 DEF TotalOf, SumFunction
    <2> HIDE DEF f
    <2> QED  BY <2>2, SumNone
  <1>4. CASE o = 0
    <2>1. ledger.journal[u] = <<>>
      BY <1>1, <1>4 DEF LedgerInit
    <2> QED  BY <1>2, <1>3, <1>4, <2>1 DEF Covered
  <1>5. CASE o # 0
    <2>1. PICK e : e = OpeningEntry(u)
      OBVIOUS
    <2>2. ledger.journal[u] = <<e>>
      BY <1>1, <1>5, <2>1 DEF LedgerInit
    <2>3. e \in Entry /\ Change(e.op) = o
      BY <1>1, <2>1 DEF OpeningEntry, creditDeposit, Entry, LedgerOp, EntryTypes, RefTypes, Change, deltaAvail, deltaFrozen
    <2>4. <<>> \in Seq(Entry) /\ Append(<<>>, e) = <<e>>
      BY <2>3
    <2>5. TotalOf(Append(<<>>, e)) = TotalOf(<<>>) + Change(e.op)
      BY <2>3, <2>4, TotalAppended
    <2>6. TotalOf(ledger.journal[u]) = o
      BY <1>1, <1>3, <2>2, <2>3, <2>4, <2>5
    <2> QED  BY <1>1, <1>2, <2>6 DEF Covered
  <1> QED  BY <1>4, <1>5

(* The invariant holds at the start ...                                    *)
LEMMA StateInit ==
    ASSUME DepositInit
    PROVE  State
  <1>1. LedgerInit /\ outbox = {} /\ binding = Bindings /\ worker = [w \in Workers |-> Idle]
        /\ deposit = [d \in Deposits |-> [status |-> "none", block |-> 0]]
    BY DEF DepositInit, OutboxInit
  <1>2. ledger \in LedgerType /\ AllCovered(ledger)
    BY <1>1, OpeningReplays, OpeningCovered DEF LedgerTypeOK, LedgerType
  <1>3. \A u \in Users : ledger.journal[u] = <<>> \/ ledger.journal[u] = <<OpeningEntry(u)>>
    BY <1>1 DEF LedgerInit
  <1>4. \A u : OpeningEntry(u).op.refType = "deposit" /\ OpeningEntry(u).op.refID = 0
    BY DEF OpeningEntry, creditDeposit
  <1>5. Findable(ledger)
    BY <1>3, <1>4 DEF Findable
  <1>6. \A d \in Deposits : d # 0
    BY DepositAssumption
  <1>7. ASSUME NEW d \in Deposits PROVE Unbooked(ledger, d)
    <2>1. ASSUME NEW u \in Users, NEW n \in DOMAIN ledger.journal[u] PROVE ledger.journal[u][n].op.refID # d
      <3>1. PICK e : e = OpeningEntry(u)
        OBVIOUS
      <3>2. ledger.journal[u] = <<>> \/ ledger.journal[u] = <<e>>
        BY <1>3, <3>1
      <3>3. ledger.journal[u][n] = e
        BY <2>1, <3>2
      <3> QED  BY <1>4, <1>6, <3>1, <3>3
    <2> QED  BY <2>1 DEF Unbooked, EntriesIn
  <1>8. LedgerGood(ledger)
    BY <1>2, <1>5, <1>7 DEF LedgerGood, Stage
  <1>9. TablesGood(deposit, binding) /\ \A d \in Deposits : deposit[d].status = "none"
    <2>1. deposit \in DepositRows /\ \A d \in Deposits : deposit[d].status = "none"
      BY <1>1 DEF DepositRows
    <2>2. {d \in Deposits : deposit[d].status # "none"} = {}
      BY <2>1
    <2> QED  BY <1>1, <2>1, <2>2, DepositAssumption, FS_EmptySet DEF TablesGood
  <1>10. \A d \in Deposits : Agree(ledger, deposit, outbox, binding, d)
    <2>1. \A k : RowsIn(outbox, k) = {}
      BY <1>1 DEF RowsIn
    <2>2. Cardinality({}) <= 1
      BY FS_EmptySet
    <2> QED  BY <1>7, <1>9, <2>1, <2>2 DEF Agree
  <1>11. HandsGood(deposit, worker)
    <2>1. Idle \in WorkerState /\ Idle.op = "idle" /\ IsFiniteSet(Idle.deps)
      BY FS_EmptySet DEF Idle, WorkerState
    <2> QED  BY <1>1, <2>1 DEF HandsGood, Capturing
  <1> QED  BY <1>8, <1>9, <1>10, <1>11 DEF State, DepositState

(* ... and every step preserves it.                                        *)
LEMMA StateNext ==
    ASSUME State, [DepositNext]_depositVars
    PROVE  State'
  <1>1. CASE UNCHANGED depositVars
    BY <1>1 DEF State, depositVars
  <1>2. CASE HandleMerchantBind
    BY <1>2, AddBindingStep DEF HandleMerchantBind
  <1>3. ASSUME NEW w \in Workers, Rollback(w), UNCHANGED binding
        PROVE  State'
    <2>1. HandsGood(deposit, worker')
      BY <1>3, HandsEmptied DEF Rollback
    <2> QED  BY <1>3, <2>1, OnlyHands DEF Rollback
  <1>4. ASSUME NEW w \in Workers, DepositStep(w)
        PROVE  State'
    BY <1>3, <1>4, CaptureStep, BeginFirstStep, CommitFirstStep, BeginReorgStep, CommitReorgStep DEF DepositStep
  <1> QED  BY <1>1, <1>2, <1>4 DEF DepositNext

(* What the workers insert are events of deposits.                         *)
DepositEventIn(ob, more) ==
    more = ob \/ \E m \in Merchants, d \in Deposits : more = InsertOutboxTx(ob, m, EventDepositConfirmed, DepositKey(d))

(* They do nothing else to the outbox.                                     *)
LEMMA DepositEvents ==
    ASSUME State, [DepositNext]_depositVars
    PROVE  DepositEventIn(outbox, outbox')
  <1>1. ASSUME NEW d \in Deposits, NEW ob \in EnqueueDepositTx(outbox, d)
        PROVE  DepositEventIn(outbox, ob)
    <2>1. TablesGood(deposit, binding)
      BY DEF State, DepositState
    <2>2. depUser[d] \in Users
      BY DepositAssumption
    <2>3. binding[depUser[d]] \subseteq Merchants
      BY <2>1, <2>2 DEF TablesGood
    <2> QED  BY <1>1, <2>3 DEF EnqueueDepositTx, ListBindingsByPayer, DepositEventIn
  <1>2. ASSUME NEW w \in Workers, CommitFirstCredit(w)
        PROVE  DepositEventIn(outbox, outbox')
    <2>1. worker[w].dep \in Deposits
      BY <1>2, HandFacts DEF CommitFirstCredit, CaptureGood
    <2> QED  BY <1>1, <1>2, <2>1 DEF CommitFirstCredit, CreditAndMark
  <1>3. ASSUME outbox' = outbox PROVE DepositEventIn(outbox, outbox')
    BY <1>3 DEF DepositEventIn
  <1>4. ASSUME NEW w \in Workers, NEW d \in Deposits, NEW b \in Blocks, captureAndCredit(w, d, b)
        PROVE  DepositEventIn(outbox, outbox')
    BY <1>1, <1>3, <1>4, Zenon DEF captureAndCredit, CreditAndMark, MarkOnly
  <1>5. ASSUME NEW w \in Workers, NEW d \in Deposits, NEW b \in Blocks, BeginFirstCredit(w, d, b)
        PROVE  outbox' = outbox
    BY <1>5 DEF BeginFirstCredit
  <1>6. ASSUME NEW w \in Workers, CommitReorg(w) \/ Rollback(w) \/ \E b \in Blocks : BeginReorg(w, b)
        PROVE  outbox' = outbox
    BY <1>6 DEF BeginReorg, CommitReorg, Rollback
  <1>7. ASSUME NEW w \in Workers, DepositStep(w)
        PROVE  DepositEventIn(outbox, outbox')
    BY <1>2, <1>3, <1>4, <1>5, <1>6, <1>7 DEF DepositStep
  <1>8. CASE HandleMerchantBind
    BY <1>3, <1>8 DEF HandleMerchantBind, AddBinding
  <1>9. CASE UNCHANGED depositVars
    BY <1>3, <1>9 DEF depositVars
  <1> QED  BY <1>7, <1>8, <1>9 DEF DepositNext

(* The event of a payment disturbs nothing.                                *)
LEMMA PaymentEventStep ==
    ASSUME State, outbox \subseteq DepositOutboxRow, PaymentEvent
    PROVE  State' /\ outbox' \subseteq DepositOutboxRow
  <1>1. PICK k \in ClientKeys : outbox' = InsertOutboxTx(outbox, PaidMerchant, EventPaymentSuccess, k)
    BY DEF PaymentEvent
  <1>2. UNCHANGED <<ledger, deposit, binding, worker>>
    BY DEF PaymentEvent
  <1>3. \A d \in Deposits : Agree(ledger, deposit, outbox', binding, d)
    BY <1>1, PaidEventAgrees DEF State, DepositState
  <1>4. State'
    BY <1>2, <1>3 DEF State, DepositState
  <1>5. [key |-> k, merchant |-> PaidMerchant, event |-> EventPaymentSuccess] \in DepositOutboxRow
    BY DEF DepositOutboxRow
  <1> QED  BY <1>1, <1>4, <1>5 DEF InsertOutboxTx

(* So the whole invariant holds at the start and is kept.                  *)
LEMMA DepositInvInit == DepositInit => DepositInv
  <1>1. ASSUME DepositInit PROVE State /\ outbox \subseteq DepositOutboxRow
    BY <1>1, StateInit DEF DepositInit, OutboxInit
  <1> QED  BY <1>1, DepositInvMeans DEF State

(* That is, DepositInv is inductive.                                       *)
LEMMA DepositInvNext == DepositInv /\ [DepositNext \/ PaymentEvent]_depositVars => DepositInv'
  <1> SUFFICES ASSUME State, outbox \subseteq DepositOutboxRow, [DepositNext \/ PaymentEvent]_depositVars
               PROVE  State' /\ outbox' \subseteq DepositOutboxRow
    BY DepositInvMeans, DepositInvMeansNext DEF State
  <1>1. CASE [DepositNext]_depositVars
    <2>1. DepositEventIn(outbox, outbox')
      BY <1>1, DepositEvents
    <2>2. \A m \in Merchants, d \in Deposits :
              [key |-> DepositKey(d), merchant |-> m, event |-> EventDepositConfirmed] \in DepositOutboxRow
      BY DEF DepositOutboxRow
    <2>3. outbox' \subseteq DepositOutboxRow
      BY <2>1, <2>2 DEF DepositEventIn, InsertOutboxTx
    <2> QED  BY <1>1, <2>3, StateNext
  <1> QED  BY <1>1, PaymentEventStep

(* Every behaviour of the deposits keeps DepositInv, with the types.       *)
THEOREM DepositInvariant == DepositSpec => []DepositInv
  BY DepositInvInit, DepositInvNext, PTL DEF DepositSpec

(* captureAndCredit and HandleReorgTx: a deposit is credited at most once  *)
(* and taken back at most once, after its credit, on its user's account,   *)
(* however captures, reorgs and rollbacks of the workers interleave.       *)
THEOREM DepositsCreditedOnce == DepositSpec => []CreditedOnce
  <1>1. DepositInv => CreditedOnce
    BY DEF DepositInv
  <1> QED  BY <1>1, DepositInvariant, PTL

(* captureAndCredit and EnqueueDepositTx: the row of a deposit, its credit *)
(* and the event that reports it are committed together or not at all,     *)
(* whatever the payments write into the same outbox: a payment that took   *)
(* the key "deposit:<id>" before is the one way to lose the event, and     *)
(* none to double it.                                                      *)
THEOREM DepositsAreReported == DepositSpec => []RowCreditEventAgree
  <1>1. DepositInv => RowCreditEventAgree
    BY DEF DepositInv
  <1> QED  BY <1>1, DepositInvariant, PTL

(* applyLedgerTx, reading with SELECT ... FOR UPDATE: no account holds     *)
(* more than its journal adds up to, and one whose row is there from the   *)
(* start exactly that, although first credits of a new user may overtake   *)
(* each other and lose one.                                                *)
THEOREM NoMoneyFromNothing == DepositSpec => []AccountWithinJournal
  <1>1. DepositInv => AccountWithinJournal
    BY DEF DepositInv
  <1> QED  BY <1>1, DepositInvariant, PTL

(* The balances deposits lead to are never negative: HandleReorgTx ends in *)
(* ErrInsufficientBalance before it writes one.                            *)
THEOREM DepositLedgerTypeCorrect == DepositSpec => []LedgerTypeOK
  <1>1. DepositInv => LedgerTypeOK
    BY DEF DepositInv, DepositTypeOK
  <1> QED  BY <1>1, DepositInvariant, PTL
=============================================================================
