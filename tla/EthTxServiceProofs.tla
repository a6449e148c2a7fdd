-------------------------- MODULE EthTxServiceProofs ------------------------
(***************************************************************************)
(* The nonces of accounts and the events of streams, for any number of     *)
(* addresses, calls and streams.  EthTxInv has two halves: Books, about    *)
(* accounts, transactions and what transfers read of them, and Events,     *)
(* about event_logs and what streams sent of it.                           *)
(***************************************************************************)
EXTENDS EthTxService, SumProofs

LogRow == [id : Nat \ {0}, tx : Nat]
StreamState == [lastID : Nat, sent : SUBSET Nat]
Busy == {"from", "to", "write"}

(* What the invariant says of one call and of one account, ...             *)
Fresh(r, mode, accounts) ==
    /\ r.pc \in Busy =>
          /\ mode /\ r.from # r.to
          /\ r.from \in Addrs /\ r.to \in Addrs /\ r.value \in Values
    /\ r.pc \in {"to", "write"} => r.fromRow = accounts[r.from] /\ r.fromRow.balance >= r.value
    /\ r.pc = "write" => r.toRow = accounts[r.to]
HeldRow(r, a) ==
    \/ r.pc \in {"to", "write"} /\ r.from = a
    \/ r.pc = "write" /\ r.toRow # None /\ r.to = a
TransfersOf(a, txs) == {i \in DOMAIN txs : txs[i].from = a}
Numbered(a, txs, n) ==
    {txs[i].nonce : i \in TransfersOf(a, txs)} = 1..n /\ Cardinality(TransfersOf(a, txs)) = n

Books ==
    /\ db \in BOOLEAN
    /\ account \in [Addrs -> Row]
    /\ transactions \in Seq(Tx)
    /\ call \in [Calls -> CallState]
    /\ \A c \in Calls : Fresh(call[c], db, account)
    /\ \A c, d \in Calls, a \in Addrs : HeldRow(call[c], a) /\ HeldRow(call[d], a) => c = d
    /\ \A a \in Addrs : Numbered(a, transactions, account[a].nonce)

(* ... of the ids of event_logs and of one stream.                         *)
Ids(rows) == {rows[i].id : i \in DOMAIN rows}
Drawn(calls, rows, next) ==
    \A c \in Calls : calls[c].pc = "insert" =>
        /\ 0 < calls[c].id /\ calls[c].id < next /\ calls[c].id \notin Ids(rows)
        /\ \A d \in Calls : calls[d].pc = "insert" /\ calls[d].id = calls[c].id => c = d
Streamed(rows, st) ==
    /\ st.lastID \in Ids(rows) \union {0}
    /\ \A i \in DOMAIN rows : rows[i].id <= st.lastID /\ rows[i].id \notin st.sent
          => \E j \in 1..(i - 1) : rows[j].id > rows[i].id

Events ==
    /\ logs \in Seq(LogRow)
    /\ nextId \in Nat \ {0}
    /\ stream \in [Streams -> StreamState]
    /\ \A i \in DOMAIN logs : logs[i].id < nextId
    /\ Drawn(call, logs, nextId)
    /\ \A s \in Streams : Streamed(logs, stream[s])

(* The two halves are the whole, before a step ...                         *)
LEMMA Halves == EthTxInv <=> Books /\ Events
  <1>1. EthTxTypeOK <=> /\ db \in BOOLEAN /\ account \in [Addrs -> Row] /\ transactions \in Seq(Tx)
                        /\ call \in [Calls -> CallState]
                        /\ logs \in Seq(LogRow) /\ nextId \in Nat \ {0} /\ stream \in [Streams -> StreamState]
    BY DEF EthTxTypeOK, LogRow, StreamState
  <1>2. ReadsAreFresh <=> \A c \in Calls : Fresh(call[c], db, account)
    BY Zenon DEF ReadsAreFresh, Fresh, Busy
  <1>3. LocksExclude <=> \A c, d \in Calls, a \in Addrs : HeldRow(call[c], a) /\ HeldRow(call[d], a) => c = d
    BY Zenon DEF LocksExclude, HoldsRow, HeldRow
  <1>4. NoncesCount <=> \A a \in Addrs : Numbered(a, transactions, account[a].nonce)
    BY Zenon DEF NoncesCount, Numbered, TransfersOf
  <1>5. LogIds = Ids(logs)
    BY DEF LogIds, Ids
  <1>6. IdsAreDrawnOnce <=> /\ \A i \in DOMAIN logs : logs[i].id < nextId
                            /\ Drawn(call, logs, nextId)
                            /\ \A s \in Streams : stream[s].lastID \in Ids(logs) \union {0}
    BY <1>5, Zenon DEF IdsAreDrawnOnce, Drawn
  <1>7. OnlyOvertakenIsMissed <=> \A s \in Streams, i \in DOMAIN logs :
              logs[i].id <= stream[s].lastID /\ logs[i].id \notin stream[s].sent
                => \E j \in 1..(i - 1) : logs[j].id > logs[i].id
    BY DEF OnlyOvertakenIsMissed
  <1>8. Books /\ Events <=>
          /\ EthTxTypeOK /\ ReadsAreFresh /\ LocksExclude /\ NoncesCount
          /\ \A i \in DOMAIN logs : logs[i].id < nextId
          /\ Drawn(call, logs, nextId)
          /\ \A s \in Streams : Streamed(logs, stream[s])
    BY <1>1, <1>2, <1>3, <1>4, Zenon DEF Books, Events
  <1>9. (\A s \in Streams : Streamed(logs, stream[s])) <=>
          /\ \A s \in Streams : stream[s].lastID \in Ids(logs) \union {0}
          /\ OnlyOvertakenIsMissed
    BY <1>7, Zenon DEF Streamed
  <1> QED  BY <1>6, <1>8, <1>9, Zenon DEF EthTxInv

(* ... and after it.                                                       *)
LEMMA HalvesAfter == EthTxInv' <=> Books' /\ Events'
  BY Halves, PTL

-----------------------------------------------------------------------------
(* Rows: only the missing one has a balance below zero.                    *)
LEMMA RowFacts ==
    ASSUME NEW r \in Row
    PROVE  /\ r.balance \in Int /\ r.nonce \in Nat
           /\ r # None => r.balance \in Nat
           /\ None.balance = -1 /\ None.nonce = 0
  BY DEF Row, None

(* Who can pay has an account.                                             *)
LEMMA PayerExists ==
    ASSUME EthTxAssumption, NEW r, NEW v \in Values, r.balance >= v
    PROVE  r # None
  <1>1. PICK n \in Nat : n = v /\ n # 0
    BY DEF EthTxAssumption
  <1>2. None.balance = -1 /\ ~(-1 >= n)
    BY DEF None
  <1> QED  BY <1>1, <1>2

(* A row with its numbers.                                                 *)
LEMMA NewRow ==
    ASSUME NEW b \in Nat, NEW n \in Nat
    PROVE  [balance |-> b, nonce |-> n] \in Row
  BY DEF Row

(* A credit keeps the nonce.                                               *)
LEMMA CreditedRow ==
    ASSUME NEW r \in Row, NEW v \in Nat
    PROVE  Credited(r, v) \in Row /\ Credited(r, v).nonce = r.nonce
  <1>1. CASE r = None
    <2>1. Credited(r, v) = [balance |-> v, nonce |-> 0]
      BY <1>1 DEF Credited
    <2> QED  BY <1>1, <2>1, NewRow, RowFacts
  <1>2. CASE r # None
    <2>1. r \in [balance : Nat, nonce : Nat]
      BY <1>2 DEF Row
    <2>2. Credited(r, v) = [r EXCEPT !.balance = r.balance + v]
      BY <1>2 DEF Credited
    <2>3. PICK b \in Nat : b = r.balance + v
      BY <2>1
    <2>4. [r EXCEPT !.balance = b] \in [balance : Nat, nonce : Nat] /\ [r EXCEPT !.balance = b].nonce = r.nonce
      BY <2>1
    <2> QED  BY <2>2, <2>3, <2>4 DEF Row
  <1> QED  BY <1>1, <1>2

(* A debit counts the nonce up.                                            *)
LEMMA DebitedRow ==
    ASSUME NEW r \in Row, NEW v \in Nat, r.balance >= v
    PROVE  Debited(r, v) \in Row /\ Debited(r, v).nonce = r.nonce + 1
  <1>1. r.balance - v \in Nat /\ r.nonce + 1 \in Nat
    BY RowFacts
  <1> QED  BY <1>1, NewRow DEF Debited

(* The nonces of an account's transfers when one more is committed.        *)
LEMMA NumberedAppend ==
    ASSUME NEW txs \in Seq(Tx), NEW tx \in Tx, NEW a, NEW n \in Nat, Numbered(a, txs, n)
    PROVE  /\ tx.from # a => Numbered(a, Append(txs, tx), n)
           /\ tx.from = a /\ tx.nonce = n + 1 => Numbered(a, Append(txs, tx), n + 1)
  <1>1. PICK k \in Nat : k = Len(txs)
    OBVIOUS
  <1>2. PICK new : new = Append(txs, tx)
    OBVIOUS
  <1>3. /\ DOMAIN txs = 1..k /\ DOMAIN new = 1..(k + 1)
        /\ \A i \in 1..k : new[i] = txs[i]
        /\ new[k + 1] = tx
    BY <1>1, <1>2
  <1> DEFINE S == TransfersOf(a, txs)
             T == TransfersOf(a, new)
  <1>4. S \subseteq 1..k /\ IsFiniteSet(S) /\ k + 1 \notin S
    <2>1. S \subseteq 1..k
      BY <1>3 DEF TransfersOf
    <2>2. IsFiniteSet(1..k)
      BY FS_Interval
    <2>3. k + 1 \notin 1..k
      OBVIOUS
    <2> QED  BY <2>1, <2>2, <2>3, FS_Subset
  <1>5. /\ {txs[i].nonce : i \in S} = 1..n /\ Cardinality(S) = n
        /\ \A i \in S : new[i] = txs[i]
    BY <1>3, <1>4 DEF Numbered
  <1>6. ASSUME tx.from # a PROVE Numbered(a, new, n)
    <2>1. T = S
      BY <1>3, <1>6 DEF TransfersOf
    <2>2. {new[i].nonce : i \in S} = {txs[i].nonce : i \in S}
      BY <1>5
    <2> HIDE DEF S, T
    <2>3. {new[i].nonce : i \in T} = 1..n /\ Cardinality(T) = n
      BY <1>5, <2>1, <2>2
    <2> QED  BY <2>3 DEF Numbered, T
  <1>7. ASSUME tx.from = a, tx.nonce = n + 1 PROVE Numbered(a, new, n + 1)
    <2>1. T = S \union {k + 1}
      BY <1>3, <1>7 DEF TransfersOf
    <2>2. Cardinality(T) = n + 1
      <3> HIDE DEF S, T
      <3> QED  BY <1>4, <1>5, <2>1, FS_AddElement
    <2>3. {new[i].nonce : i \in T} = {txs[i].nonce : i \in S} \union {n + 1}
      <3> HIDE DEF S, T
      <3> QED  BY <1>3, <1>5, <1>7, <2>1
    <2>4. (1..n) \union {n + 1} = 1..(n + 1)
      OBVIOUS
    <2> HIDE DEF S, T
    <2>5. {new[i].nonce : i \in T} = 1..(n + 1)
      BY <1>5, <2>3, <2>4
    <2> QED  BY <2>2, <2>5 DEF Numbered, T
  <1> QED  BY <1>2, <1>6, <1>7

(* No transfer, no nonce.                                                  *)
LEMMA NoneNumbered ==
    ASSUME NEW a PROVE Numbered(a, <<>>, 0)
  <1>1. TransfersOf(a, <<>>) = {}
    BY DEF TransfersOf
  <1>2. 1..0 = {}
    OBVIOUS
  <1> QED  BY <1>1, <1>2, FS_EmptySet DEF Numbered

-----------------------------------------------------------------------------
(* The records that calls become.                                          *)
LEMMA NoCallRecord ==
    NoCall \in CallState /\ NoCall.pc = "idle"
  <1>1. None \in Row
    BY DEF Row
  <1> QED  BY <1>1 DEF NoCall, CallState

(* A transfer that begins.                                                 *)
Begun(from, to, value) == [NoCall EXCEPT !.pc = "from", !.from = from, !.to = to, !.value = value]
BegunAs(r, from, to, value) ==
    r \in CallState /\ r.pc = "from" /\ r.from = from /\ r.to = to /\ r.value = value

(* Such a record is one.                                                   *)
LEMMA BegunRecord ==
    ASSUME NEW from \in Addrs, NEW to \in Addrs, NEW value \in Values
    PROVE  BegunAs(Begun(from, to, value), from, to, value)
  <1>1. None \in Row
    BY DEF Row
  <1>2. Begun(from, to, value) \in CallState
    BY <1>1, NoCallRecord, Zenon DEF Begun, CallState
  <1> QED  BY <1>1, <1>2 DEF Begun, BegunAs, NoCall

(* A call that moves on with what it read.                                 *)
Reading(r, pc, fromRow, toRow) == [r EXCEPT !.pc = pc, !.fromRow = fromRow, !.toRow = toRow]
ReadingAs(q, r, pc, fromRow, toRow) ==
    /\ q \in CallState /\ q.pc = pc /\ q.fromRow = fromRow /\ q.toRow = toRow
    /\ q.from = r.from /\ q.to = r.to /\ q.value = r.value

(* It is still a call.                                                     *)
LEMMA ReadingRecord ==
    ASSUME NEW r \in CallState, NEW pc \in {"to", "write"}, NEW fromRow \in Row, NEW toRow \in Row
    PROVE  ReadingAs(Reading(r, pc, fromRow, toRow), r, pc, fromRow, toRow)
  <1>1. Reading(r, pc, fromRow, toRow) \in CallState
    BY Zenon DEF Reading, CallState
  <1> QED  BY <1>1 DEF Reading, ReadingAs, CallState

(* A call that writes its event.                                           *)
LogCall(tx) == [NoCall EXCEPT !.pc = "log", !.tx = tx]

(* It is a call, too.                                                      *)
LEMMA LogRecord ==
    ASSUME NEW tx \in Nat
    PROVE  LogCall(tx) \in CallState /\ LogCall(tx).pc = "log"
  <1>1. None \in Row
    BY DEF Row
  <1> QED  BY <1>1, NoCallRecord DEF LogCall, CallState, NoCall

(* A step that changes one call and no account, ...                        *)
LEMMA OneCall ==
    ASSUME Books, NEW c \in Calls, NEW r \in CallState,
           call' = [call EXCEPT ![c] = r], UNCHANGED <<db, account, transactions>>,
           Fresh(r, db, account),
           \A d \in Calls, a \in Addrs : d # c /\ HeldRow(r, a) => ~HeldRow(call[d], a)
    PROVE  Books'
  <1>1. /\ call \in [Calls -> CallState]
        /\ \A d \in Calls : Fresh(call[d], db, account)
        /\ \A d, e \in Calls, a \in Addrs : HeldRow(call[d], a) /\ HeldRow(call[e], a) => d = e
    BY DEF Books
  <1>2. call' \in [Calls -> CallState] /\ call'[c] = r /\ \A d \in Calls : d # c => call'[d] = call[d]
    BY <1>1, Zenon
  <1>3. \A d \in Calls : Fresh(call'[d], db, account)
    BY <1>1, <1>2
  <1>4. \A d, e \in Calls, a \in Addrs : HeldRow(call'[d], a) /\ HeldRow(call'[e], a) => d = e
    BY <1>1, <1>2, Zenon
  <1> QED  BY <1>2, <1>3, <1>4 DEF Books

(* ... and one that leaves it without a transaction of the database.       *)
LEMMA QuietCall ==
    ASSUME Books, NEW c \in Calls, NEW r \in CallState, r.pc \notin Busy,
           call' = [call EXCEPT ![c] = r], UNCHANGED <<db, account, transactions>>
    PROVE  Books'
  <1>1. Fresh(r, db, account) /\ \A a \in Addrs : ~HeldRow(r, a)
    BY DEF Fresh, HeldRow, Busy
  <1> QED  BY <1>1, OneCall

(* A step that only changes other things.                                  *)
LEMMA BooksStay ==
    ASSUME Books, UNCHANGED <<db, account, transactions, call>>
    PROVE  Books'
  BY Zenon DEF Books

(* Transfer up to BeginTx.                                                 *)
LEMMA TransferBooks ==
    ASSUME Books, NEW c \in Calls, NEW from \in Addrs, NEW to \in Addrs, NEW v \in Values,
           Transfer(c, from, to, v)
    PROVE  Books'
  <1>1. PICK r : r = Begun(from, to, v)
    OBVIOUS
  <1>2. r \in CallState /\ r.pc = "from" /\ r.from = from /\ r.to = to /\ r.value = v
    BY <1>1, BegunRecord DEF BegunAs
  <1>3. db /\ from # to /\ call' = [call EXCEPT ![c] = r] /\ UNCHANGED <<db, account, transactions>>
    BY <1>1 DEF Transfer, Arrive, Begun
  <1>4. Fresh(r, db, account) /\ \A a \in Addrs : ~HeldRow(r, a)
    BY <1>2, <1>3 DEF Fresh, HeldRow, Busy
  <1> QED  BY <1>2, <1>3, <1>4, OneCall

(* What a call under way knows.                                            *)
LEMMA CallFacts ==
    ASSUME Books, NEW c \in Calls
    PROVE  /\ call[c] \in CallState /\ call[c].fromRow \in Row /\ call[c].toRow \in Row
           /\ Fresh(call[c], db, account)
           /\ account \in [Addrs -> Row] /\ transactions \in Seq(Tx) /\ call \in [Calls -> CallState]
  BY DEF Books, CallState

(* The locks that a transfer waits for.                                    *)
LEMMA NotWaiting ==
    ASSUME NEW c \in Calls, ~Waits(c), NEW d \in Calls, d # c
    PROVE  /\ call[c].pc = "from" => ~HeldRow(call[d], call[c].from)
           /\ call[c].pc = "to" => ~HeldRow(call[d], call[c].to)
           /\ call[c].pc = "write" /\ call[c].toRow = None
                => ~(call[d].pc = "write" /\ call[d].toRow = None /\ call[d].to = call[c].to)
  BY Zenon DEF Waits, WaitsFor, HoldsRow, HoldsGap, HeldRow

(* The payer's row is read and locked, ...                                 *)
LEMMA LockFromBooks ==
    ASSUME Books, NEW c \in Calls, LockFrom(c)
    PROVE  Books'
  <1>1. /\ call[c] \in CallState /\ call[c].pc = "from" /\ call[c].toRow \in Row
        /\ Fresh(call[c], db, account) /\ account \in [Addrs -> Row]
    BY CallFacts DEF LockFrom
  <1>2. /\ db /\ call[c].from # call[c].to
        /\ call[c].from \in Addrs /\ call[c].to \in Addrs /\ call[c].value \in Values
    BY <1>1 DEF Fresh, Busy
  <1>3. PICK x \in Row : x = account[call[c].from]
    BY <1>1, <1>2
  <1>4. PICK r : r = Reading(call[c], "to", x, call[c].toRow)
    OBVIOUS
  <1>5. ReadingAs(r, call[c], "to", x, call[c].toRow)
    BY <1>1, <1>4, ReadingRecord
  <1>6. call' = [call EXCEPT ![c] = r] /\ UNCHANGED <<db, account, transactions>>
    <2>1. call' = [call EXCEPT ![c] = [call[c] EXCEPT !.pc = "to", !.fromRow = x]]
      BY <1>3, Zenon DEF LockFrom
    <2>2. [call[c] EXCEPT !.pc = "to", !.fromRow = x] = r
      BY <1>1, <1>4 DEF Reading, CallState
    <2> QED  BY <2>1, <2>2 DEF LockFrom
  <1>7. Fresh(r, db, account)
    <2>1. x.balance >= call[c].value
      BY <1>3 DEF LockFrom, Sufficient
    <2> QED  BY <1>2, <1>3, <1>5, <2>1 DEF Fresh, ReadingAs
  <1>8. \A d \in Calls, a \in Addrs : d # c /\ HeldRow(r, a) => ~HeldRow(call[d], a)
    <2>1. \A a : HeldRow(r, a) => a = call[c].from
      BY <1>5 DEF HeldRow, ReadingAs
    <2>2. \A d \in Calls : d # c => ~HeldRow(call[d], call[c].from)
      BY <1>1, NotWaiting DEF LockFrom
    <2> QED  BY <2>1, <2>2
  <1>9. r \in CallState
    BY <1>5 DEF ReadingAs
  <1> QED  BY <1>6, <1>7, <1>8, <1>9, OneCall

(* ... then the payee's, or the gap where it would be.                     *)
LEMMA LockToBooks ==
    ASSUME Books, NEW c \in Calls, LockTo(c)
    PROVE  Books'
  <1>1. /\ call[c] \in CallState /\ call[c].pc = "to" /\ call[c].fromRow \in Row
        /\ Fresh(call[c], db, account) /\ account \in [Addrs -> Row]
    BY CallFacts DEF LockTo
  <1>2. /\ db /\ call[c].from # call[c].to
        /\ call[c].from \in Addrs /\ call[c].to \in Addrs /\ call[c].value \in Values
        /\ call[c].fromRow = account[call[c].from] /\ call[c].fromRow.balance >= call[c].value
    BY <1>1 DEF Fresh, Busy
  <1>3. PICK x \in Row : x = account[call[c].to]
    BY <1>1, <1>2
  <1>4. PICK r : r = Reading(call[c], "write", call[c].fromRow, x)
    OBVIOUS
  <1>5. ReadingAs(r, call[c], "write", call[c].fromRow, x)
    BY <1>1, <1>4, ReadingRecord
  <1>6. call' = [call EXCEPT ![c] = r] /\ UNCHANGED <<db, account, transactions>>
    <2>1. call' = [call EXCEPT ![c] = [call[c] EXCEPT !.pc = "write", !.toRow = x]]
      BY <1>3, Zenon DEF LockTo
    <2>2. [call[c] EXCEPT !.pc = "write", !.toRow = x] = r
      BY <1>1, <1>4 DEF Reading, CallState
    <2> QED  BY <2>1, <2>2 DEF LockTo
  <1>7. Fresh(r, db, account)
    BY <1>2, <1>3, <1>5 DEF Fresh, ReadingAs
  <1>8. \A d \in Calls, a \in Addrs : d # c /\ HeldRow(r, a) => ~HeldRow(call[d], a)
    <2>1. \A a : HeldRow(r, a) => a = call[c].from \/ a = call[c].to
      BY <1>5 DEF HeldRow, ReadingAs
    <2>2. \A d \in Calls : d # c => ~HeldRow(call[d], call[c].to)
      BY <1>1, NotWaiting DEF LockTo
    <2>3. HeldRow(call[c], call[c].from)
      BY <1>1 DEF HeldRow
    <2>4. \A d \in Calls : d # c => ~HeldRow(call[d], call[c].from)
      BY <1>2, <2>3 DEF Books
    <2> QED  BY <2>1, <2>2, <2>4
  <1>9. r \in CallState
    BY <1>5 DEF ReadingAs
  <1> QED  BY <1>6, <1>7, <1>8, <1>9, OneCall

(* A call that returns without a transfer.                                 *)
LEMMA ReturnBooks ==
    ASSUME Books, NEW c \in Calls, Refuse(c) \/ Rollback(c) \/ InsertLog(c) \/ LoseLog(c)
    PROVE  Books'
  <1>1. call' = [call EXCEPT ![c] = NoCall] /\ UNCHANGED <<db, account, transactions>>
    BY DEF Refuse, Rollback, InsertLog, LoseLog
  <1>2. NoCall.pc \notin Busy
    BY NoCallRecord DEF Busy
  <1> QED  BY <1>1, <1>2, NoCallRecord, QuietCall

-----------------------------------------------------------------------------
(* The accounts that a commit writes are not those another transfer read:  *)
(* their rows are locked, and of two inserts of a payee one waits.         *)
LEMMA OthersUntouched ==
    ASSUME EthTxAssumption, Books, NEW c \in Calls, call[c].pc = "write", ~Waits(c),
           NEW d \in Calls, d # c
    PROVE  /\ call[d].pc \in {"to", "write"} => call[d].from # call[c].from /\ call[d].from # call[c].to
           /\ call[d].pc = "write" => call[d].to # call[c].from /\ call[d].to # call[c].to
  <1>1. /\ call[c].from \in Addrs /\ call[c].to \in Addrs /\ call[c].value \in Values
        /\ call[c].fromRow = account[call[c].from] /\ call[c].fromRow.balance >= call[c].value
        /\ call[c].toRow = account[call[c].to]
    BY CallFacts DEF Fresh, Busy
  <1>2. /\ call[d].pc \in {"to", "write"} =>
              /\ call[d].from \in Addrs /\ call[d].value \in Values
              /\ call[d].fromRow = account[call[d].from] /\ call[d].fromRow.balance >= call[d].value
        /\ call[d].pc = "write" => call[d].to \in Addrs /\ call[d].toRow = account[call[d].to]
    BY CallFacts DEF Fresh, Busy
  <1>4. call[c].fromRow # None /\ (call[d].pc \in {"to", "write"} => call[d].fromRow # None)
    BY <1>1, <1>2, PayerExists
  <1>5. \A a \in Addrs : HeldRow(call[c], a) => ~HeldRow(call[d], a)
    BY DEF Books
  <1>6. HeldRow(call[c], call[c].from) /\ (call[c].toRow # None => HeldRow(call[c], call[c].to))
    BY DEF HeldRow
  <1>7. ~HeldRow(call[d], call[c].from) /\ (call[c].toRow # None => ~HeldRow(call[d], call[c].to))
    BY <1>1, <1>5, <1>6
  <1>8. ASSUME call[d].pc \in {"to", "write"}
        PROVE  call[d].from # call[c].from /\ call[d].from # call[c].to
    <2>1. HeldRow(call[d], call[d].from)
      BY <1>8 DEF HeldRow
    <2> QED  BY <1>1, <1>2, <1>4, <1>7, <1>8, <2>1
  <1>9. ASSUME call[d].pc = "write"
        PROVE  call[d].to # call[c].from /\ call[d].to # call[c].to
    <2>1. call[d].toRow # None => HeldRow(call[d], call[d].to)
      BY <1>9 DEF HeldRow
    <2>2. call[d].to # call[c].from
      BY <1>1, <1>2, <1>4, <1>7, <1>9, <2>1
    <2>3. call[c].toRow # None => call[d].to # call[c].to
      BY <1>1, <1>2, <1>7, <1>9, <2>1
    <2>4. call[c].toRow = None => call[d].to # call[c].to
      BY <1>1, <1>2, <1>9, NotWaiting
    <2> QED  BY <2>2, <2>3, <2>4
  <1> QED  BY <1>8, <1>9

(* The nonces after a transfer, in either mode.                            *)
LEMMA TransferNumbered ==
    ASSUME Books, NEW from \in Addrs, NEW to \in Addrs, NEW tx \in Tx,
           NEW x \in Row, NEW y \in Row, from # to,
           tx.from = from, tx.nonce = x.nonce, x.nonce = account[from].nonce + 1,
           y.nonce = account[to].nonce,
           account' = [account EXCEPT ![from] = x, ![to] = y],
           transactions' = Append(transactions, tx)
    PROVE  /\ account' \in [Addrs -> Row] /\ transactions' \in Seq(Tx)
           /\ \A a \in Addrs : Numbered(a, transactions', account'[a].nonce)
           /\ \A a \in Addrs : a # from /\ a # to => account'[a] = account[a]
  <1>1. /\ account \in [Addrs -> Row] /\ transactions \in Seq(Tx)
        /\ \A a \in Addrs : Numbered(a, transactions, account[a].nonce)
    BY DEF Books
  <1>2. /\ account' \in [Addrs -> Row]
        /\ account'[from] = x /\ account'[to] = y
        /\ \A a \in Addrs : a # from /\ a # to => account'[a] = account[a]
    BY <1>1
  <1>3. transactions' \in Seq(Tx)
    BY <1>1
  <1>4. ASSUME NEW a \in Addrs
        PROVE  Numbered(a, transactions', account'[a].nonce)
    <2>1. PICK n \in Nat : n = account[a].nonce
      BY <1>1, RowFacts
    <2>2. Numbered(a, transactions, n)
      BY <1>1, <2>1
    <2>3. CASE a = from
      <3>1. Numbered(a, transactions', n + 1)
        BY <1>1, <2>1, <2>2, <2>3, NumberedAppend
      <3> QED  BY <1>2, <2>1, <2>3, <3>1
    <2>4. CASE a # from
      <3>1. Numbered(a, transactions', n)
        BY <1>1, <2>2, <2>4, NumberedAppend
      <3> QED  BY <1>2, <2>1, <2>4, <3>1
    <2> QED  BY <2>3, <2>4
  <1> QED  BY <1>2, <1>3, <1>4

(* Both rows, the transaction and the commit.                              *)
LEMMA transferDBBooks ==
    ASSUME EthTxAssumption, Books, NEW c \in Calls, transferDB(c)
    PROVE  Books'
  <1>1. /\ call[c] \in CallState /\ call[c].pc = "write" /\ ~Waits(c)
        /\ call[c].fromRow \in Row /\ call[c].toRow \in Row
        /\ Fresh(call[c], db, account) /\ account \in [Addrs -> Row]
        /\ transactions \in Seq(Tx) /\ call \in [Calls -> CallState]
    BY CallFacts DEF transferDB
  <1>2. PICK from \in Addrs, to \in Addrs, v \in Values :
           /\ from = call[c].from /\ to = call[c].to /\ v = call[c].value /\ from # to
           /\ call[c].fromRow = account[from] /\ call[c].fromRow.balance >= v
           /\ call[c].toRow = account[to]
    BY <1>1 DEF Fresh, Busy
  <1>3. v \in Nat
    BY DEF EthTxAssumption
  <1>4. PICK x \in Row : x = Debited(call[c].fromRow, v) /\ x.nonce = account[from].nonce + 1
    BY <1>1, <1>2, <1>3, DebitedRow
  <1>5. PICK y \in Row : y = Credited(call[c].toRow, v) /\ y.nonce = account[to].nonce
    BY <1>1, <1>2, <1>3, CreditedRow
  <1>6. PICK tx : tx = [from |-> from, to |-> to, value |-> v, nonce |-> x.nonce]
    OBVIOUS
  <1>7. tx \in Tx /\ tx.from = from /\ tx.nonce = x.nonce
    <2>1. x.nonce \in Nat
      BY RowFacts
    <2> QED  BY <1>6, <2>1 DEF Tx
  <1>8. /\ account' = [account EXCEPT ![from] = x, ![to] = y]
        /\ transactions' = Append(transactions, tx)
        /\ call' = [call EXCEPT ![c] = LogCall(Len(transactions'))]
        /\ UNCHANGED db
    BY <1>2, <1>4, <1>5, <1>6, Zenon DEF transferDB, LogCall
  <1>9. /\ account' \in [Addrs -> Row] /\ transactions' \in Seq(Tx)
        /\ \A a \in Addrs : Numbered(a, transactions', account'[a].nonce)
        /\ \A a \in Addrs : a # from /\ a # to => account'[a] = account[a]
    <2>1. account' = [account EXCEPT ![from] = x, ![to] = y] /\ transactions' = Append(transactions, tx)
      BY <1>8
    <2>2. from # to /\ x.nonce = account[from].nonce + 1 /\ y.nonce = account[to].nonce
      BY <1>2, <1>4, <1>5
    <2> QED  BY <1>7, <2>1, <2>2, TransferNumbered
  <1>10. PICK r \in CallState : r = LogCall(Len(transactions')) /\ r.pc = "log"
    <2>1. Len(transactions') \in Nat
      BY <1>9
    <2> QED  BY <2>1, LogRecord
  <1>11. call' \in [Calls -> CallState] /\ call'[c] = r /\ \A d \in Calls : d # c => call'[d] = call[d]
    BY <1>1, <1>8, <1>10
  <1>12. ASSUME NEW d \in Calls PROVE Fresh(call'[d], db', account')
    <2>1. CASE d = c
      BY <1>10, <1>11, <2>1 DEF Fresh, Busy
    <2>2. CASE d # c
      <3>1. /\ call[d].pc \in {"to", "write"} => call[d].from # from /\ call[d].from # to
            /\ call[d].pc = "write" => call[d].to # from /\ call[d].to # to
        BY <1>1, <1>2, <2>2, OthersUntouched
      <3>2. Fresh(call[d], db, account)
        BY DEF Books
      <3>3. /\ call[d].pc \in {"to", "write"} => account'[call[d].from] = account[call[d].from]
            /\ call[d].pc = "write" => account'[call[d].to] = account[call[d].to]
        BY <1>9, <3>1, <3>2 DEF Fresh, Busy
      <3>4. Fresh(call[d], db, account')
        BY <3>2, <3>3 DEF Fresh, Busy
      <3> QED  BY <1>8, <1>11, <2>2, <3>4
    <2> QED  BY <2>1, <2>2
  <1>13. \A d, e \in Calls, a \in Addrs : HeldRow(call'[d], a) /\ HeldRow(call'[e], a) => d = e
    <2>1. \A a : ~HeldRow(r, a)
      BY <1>10 DEF HeldRow
    <2>2. \A d, e \in Calls, a \in Addrs : HeldRow(call[d], a) /\ HeldRow(call[e], a) => d = e
      BY DEF Books
    <2> QED  BY <1>11, <2>1, <2>2
  <1>14. db' \in BOOLEAN
    BY <1>8 DEF Books
  <1> QED  BY <1>9, <1>11, <1>12, <1>13, <1>14 DEF Books

-----------------------------------------------------------------------------
(* A step that changes accounts under calls that stay as they are.         *)
LEMMA AccountsGo ==
    ASSUME Books, UNCHANGED db, account' \in [Addrs -> Row], transactions' \in Seq(Tx),
           call' \in [Calls -> CallState],
           \A d \in Calls : Fresh(call'[d], db, account'),
           \A d \in Calls, a \in Addrs : HeldRow(call'[d], a) => HeldRow(call[d], a),
           \A a \in Addrs : Numbered(a, transactions', account'[a].nonce)
    PROVE  Books'
  <1>1. \A d, e \in Calls, a \in Addrs : HeldRow(call'[d], a) /\ HeldRow(call'[e], a) => d = e
    BY DEF Books
  <1>2. db' \in BOOLEAN /\ \A d \in Calls : Fresh(call'[d], db', account')
    BY DEF Books
  <1> QED  BY <1>1, <1>2 DEF Books

(* An account that was missing, and in no transfer's gap, is opened.       *)
LEMMA CreateAccountBooks ==
    ASSUME EthTxAssumption, Books, NEW a \in Addrs, NEW b \in InitialBalances, CreateAccount(a, b)
    PROVE  Books'
  <1>1. /\ account \in [Addrs -> Row] /\ transactions \in Seq(Tx) /\ call \in [Calls -> CallState]
        /\ \A x \in Addrs : Numbered(x, transactions, account[x].nonce)
    BY DEF Books
  <1>2. account[a] = None /\ \A d \in Calls : ~HoldsGap(d, a)
    BY DEF CreateAccount, createAccountDB, Exists
  <1>3. PICK r \in Row : r = [balance |-> b, nonce |-> 0] /\ r.nonce = 0
    <2>1. b \in Nat
      BY DEF EthTxAssumption
    <2>2. [balance |-> b, nonce |-> 0] \in Row
      BY <2>1, NewRow
    <2> QED  BY <2>2
  <1>4. account' = [account EXCEPT ![a] = r] /\ UNCHANGED <<db, transactions, call>>
    BY <1>3 DEF CreateAccount
  <1>5. account' \in [Addrs -> Row] /\ account'[a] = r /\ \A x \in Addrs : x # a => account'[x] = account[x]
    BY <1>1, <1>4
  <1>6. ASSUME NEW d \in Calls PROVE Fresh(call[d], db, account')
    <2>1. Fresh(call[d], db, account)
      BY DEF Books
    <2>2. call[d].pc \in {"to", "write"} => call[d].from # a
      <3>1. call[d].pc \in {"to", "write"} =>
              /\ call[d].value \in Values /\ call[d].fromRow = account[call[d].from]
              /\ call[d].fromRow.balance >= call[d].value
        BY <2>1 DEF Fresh, Busy
      <3> QED  BY <1>2, <3>1, PayerExists
    <2>3. call[d].pc = "write" => call[d].to # a
      BY <1>2, <2>1 DEF Fresh, HoldsGap
    <2>4. /\ call[d].pc \in {"to", "write"} => account'[call[d].from] = account[call[d].from]
          /\ call[d].pc = "write" => account'[call[d].to] = account[call[d].to]
      BY <1>5, <2>1, <2>2, <2>3 DEF Fresh, Busy
    <2> QED  BY <2>1, <2>4 DEF Fresh, Busy
  <1>7. \A x \in Addrs : account'[x].nonce = account[x].nonce
    BY <1>2, <1>3, <1>5 DEF None
  <1>8. \A x \in Addrs : Numbered(x, transactions, account'[x].nonce)
    BY <1>1, <1>7
  <1> QED  BY <1>1, <1>4, <1>5, <1>6, <1>8, AccountsGo

(* Transfer in memory mode, where no transfer is under way in MySQL.       *)
LEMMA TransferMemBooks ==
    ASSUME EthTxAssumption, Books, NEW c \in Calls, NEW from \in Addrs, NEW to \in Addrs, NEW v \in Values,
           TransferMem(c, from, to, v)
    PROVE  Books'
  <1>1. /\ account \in [Addrs -> Row] /\ transactions \in Seq(Tx) /\ call \in [Calls -> CallState]
        /\ \A x \in Addrs : Numbered(x, transactions, account[x].nonce)
    BY DEF Books
  <1>2. ~db /\ from # to /\ UNCHANGED db /\ v \in Nat
    BY DEF TransferMem, EthTxAssumption
  <1>3. \A d \in Calls : call[d].pc \notin Busy
    BY <1>2 DEF Books, Fresh
  <1>4. PICK z \in Row : z = Credited(account[to], 0) /\ z.nonce = account[to].nonce
    BY <1>1, CreditedRow
  <1>5. ASSUME account[from].balance < v, account' = [account EXCEPT ![to] = z], UNCHANGED <<transactions, call>>
        PROVE  Books'
    <2>1. account' \in [Addrs -> Row] /\ \A x \in Addrs : account'[x].nonce = account[x].nonce
      BY <1>1, <1>4, <1>5
    <2>2. \A x \in Addrs : Numbered(x, transactions, account'[x].nonce)
      BY <1>1, <2>1
    <2>3. \A d \in Calls : Fresh(call[d], db, account')
      BY <1>3 DEF Fresh, Busy
    <2> QED  BY <1>1, <1>2, <1>5, <2>1, <2>2, <2>3, AccountsGo
  <1>6. ASSUME account[from].balance >= v,
               account' = [account EXCEPT ![from] = Debited(account[from], v), ![to] = Credited(z, v)],
               transactions' = Append(transactions, [from |-> from, to |-> to, value |-> v,
                                                     nonce |-> Debited(account[from], v).nonce]),
               call' = [call EXCEPT ![c].pc = "mu"]
        PROVE  Books'
    <2>1. PICK x \in Row : x = Debited(account[from], v) /\ x.nonce = account[from].nonce + 1
      BY <1>1, <1>2, <1>6, DebitedRow
    <2>2. PICK y \in Row : y = Credited(z, v) /\ y.nonce = account[to].nonce
      <3>1. Credited(z, v) \in Row /\ Credited(z, v).nonce = z.nonce
        BY <1>2, CreditedRow
      <3> QED  BY <1>4, <3>1
    <2>3. PICK tx : tx = [from |-> from, to |-> to, value |-> v, nonce |-> x.nonce]
      OBVIOUS
    <2>4. tx \in Tx /\ tx.from = from /\ tx.nonce = x.nonce
      <3>1. x.nonce \in Nat
        BY RowFacts
      <3> QED  BY <2>3, <3>1 DEF Tx
    <2>5. /\ account' = [account EXCEPT ![from] = x, ![to] = y]
          /\ transactions' = Append(transactions, tx)
      BY <1>6, <2>1, <2>2, <2>3
    <2>6. /\ account' \in [Addrs -> Row] /\ transactions' \in Seq(Tx)
          /\ \A a \in Addrs : Numbered(a, transactions', account'[a].nonce)
      BY <1>2, <2>1, <2>2, <2>4, <2>5, TransferNumbered
    <2>7. PICK r : r = [call[c] EXCEPT !.pc = "mu"]
      OBVIOUS
    <2>8. call[c] \in CallState
      BY <1>1
    <2>9. r \in CallState /\ r.pc = "mu"
      BY <2>7, <2>8 DEF CallState
    <2>10. call' = [call EXCEPT ![c] = r]
      BY <1>6, <2>7, Zenon
    <2>11. call' \in [Calls -> CallState] /\ \A d \in Calls : call'[d].pc \notin Busy
      BY <1>1, <1>3, <2>9, <2>10 DEF Busy
    <2>12. /\ \A d \in Calls : Fresh(call'[d], db, account')
           /\ \A d \in Calls, a \in Addrs : ~HeldRow(call'[d], a)
      BY <2>11 DEF Fresh, HeldRow, Busy
    <2> QED  BY <1>2, <2>6, <2>11, <2>12, AccountsGo
  <1> QED  BY <1>4, <1>5, <1>6, Zenon DEF TransferMem

(* The default accounts are opened with no transfer.                       *)
LEMMA SeedRows ==
    ASSUME EthTxAssumption, NEW accounts \in [Addrs -> Row]
    PROVE  /\ seedDefaultAccountsDB(accounts) \in [Addrs -> Row]
           /\ \A a \in Addrs : seedDefaultAccountsDB(accounts)[a].nonce = accounts[a].nonce
  <1>1. ASSUME NEW a \in Addrs
        PROVE  /\ seedDefaultAccountsDB(accounts)[a] \in Row
               /\ seedDefaultAccountsDB(accounts)[a].nonce = accounts[a].nonce
    <2>1. CASE a \in DOMAIN Seed /\ accounts[a] = None
      <3>1. PICK b \in Nat : b = Seed[a]
        BY <2>1 DEF EthTxAssumption
      <3>2. seedDefaultAccountsDB(accounts)[a] = [balance |-> b, nonce |-> 0]
        BY <2>1, <3>1 DEF seedDefaultAccountsDB
      <3> QED  BY <2>1, <3>2, NewRow DEF None
    <2>2. CASE ~(a \in DOMAIN Seed /\ accounts[a] = None)
      BY <2>2 DEF seedDefaultAccountsDB
    <2> QED  BY <2>1, <2>2
  <1> QED  BY <1>1 DEF seedDefaultAccountsDB

(* ... also by the memory mode, which begins anew.                         *)
LEMMA NewRows ==
    ASSUME EthTxAssumption
    PROVE  /\ seedDefaultAccounts \in [Addrs -> Row]
           /\ \A a \in Addrs : seedDefaultAccounts[a].nonce = 0
  <1>1. [a \in Addrs |-> None] \in [Addrs -> Row] /\ None.nonce = 0
    BY DEF Row, None
  <1>2. PICK accounts \in [Addrs -> Row] : accounts = [a \in Addrs |-> None]
    BY <1>1
  <1>3. \A a \in Addrs : accounts[a].nonce = 0
    BY <1>1, <1>2
  <1> QED  BY <1>2, <1>3, SeedRows DEF seedDefaultAccounts

(* The process starts again.                                               *)
LEMMA RestartBooks ==
    ASSUME EthTxAssumption, Books, Restart
    PROVE  Books'
  <1>1. /\ account \in [Addrs -> Row] /\ transactions \in Seq(Tx)
        /\ \A x \in Addrs : Numbered(x, transactions, account[x].nonce)
    BY DEF Books
  <1>2. call' \in [Calls -> CallState] /\ \A d \in Calls : call'[d].pc = "idle"
    BY NoCallRecord DEF Restart
  <1>3. /\ \A d \in Calls : Fresh(call'[d], db, account')
        /\ \A d \in Calls, a \in Addrs : ~HeldRow(call'[d], a)
    BY <1>2 DEF Fresh, HeldRow, Busy
  <1>4. /\ account' \in [Addrs -> Row] /\ transactions' \in Seq(Tx)
        /\ \A a \in Addrs : Numbered(a, transactions', account'[a].nonce)
    <2>1. CASE db /\ account' = seedDefaultAccountsDB(account) /\ UNCHANGED <<transactions, issued>>
      BY <1>1, <2>1, SeedRows
    <2>2. CASE account' = seedDefaultAccounts /\ transactions' = <<>>
      BY <2>2, NewRows, NoneNumbered
    <2> QED  BY <2>1, <2>2 DEF Restart
  <1> QED  BY <1>2, <1>3, <1>4, AccountsGo DEF Restart

-----------------------------------------------------------------------------
(* The largest of some numbers below a bound.                              *)
LEMMA MaxOfSet ==
    ASSUME NEW S \in SUBSET Nat, S # {}, NEW k \in Nat, \A x \in S : x <= k
    PROVE  Max(S) \in S /\ \A y \in S : y <= Max(S)
  <1> DEFINE T == {k - x : x \in S}
  <1>1. T \subseteq Nat /\ T # {}
    <2>1. \A x \in S : k - x \in Nat
      OBVIOUS
    <2>2. PICK x \in S : TRUE
      OBVIOUS
    <2> QED  BY <2>1, <2>2
  <1>2. PICK t \in T : \A u \in T : ~(<<u, t>> \in OpToRel(<, Nat))
    <2> HIDE DEF T
    <2> QED  BY <1>1, NatLessThanWellFounded, WFMin
  <1>3. PICK m \in S : t = k - m
    OBVIOUS
  <1>4. ASSUME NEW y \in S PROVE m >= y
    <2>1. k - y \in T /\ k - y \in Nat /\ t \in Nat
      BY <1>1
    <2>2. ~(k - y < t)
      BY <1>2, <2>1 DEF OpToRel
    <2>3. m \in Nat /\ y \in Nat
      OBVIOUS
    <2> QED  BY <1>3, <2>2, <2>3
  <1>5. \E z \in S : \A y \in S : z >= y
    BY <1>4
  <1>6. Max(S) \in S /\ \A y \in S : Max(S) >= y
    BY <1>5, Zenon DEF Max
  <1>7. \A y \in S : y \in Nat /\ Max(S) \in Nat
    BY <1>6
  <1> QED  BY <1>6, <1>7

(* The ids of event_logs are numbers below the next one.                   *)
LEMMA IdFacts ==
    ASSUME Events
    PROVE  /\ Ids(logs) \subseteq 1..(nextId - 1) /\ Ids(logs) \in SUBSET Nat
           /\ IsFiniteSet(Ids(logs))
           /\ \A i \in DOMAIN logs : logs[i].id \in Ids(logs)
  <1>1. PICK n \in Nat : n = nextId - 1
    BY DEF Events
  <1>2. \A i \in DOMAIN logs : logs[i].id \in Nat /\ logs[i].id # 0 /\ logs[i].id < nextId
    <2>1. logs \in Seq(LogRow) /\ \A i \in DOMAIN logs : logs[i].id < nextId
      BY DEF Events
    <2>2. \A i \in DOMAIN logs : logs[i] \in LogRow
      BY <2>1
    <2> QED  BY <2>1, <2>2 DEF LogRow
  <1>3. nextId = n + 1
    BY <1>1 DEF Events
  <1>4. \A i \in DOMAIN logs : logs[i].id \in 1..n
    BY <1>2, <1>3
  <1>5. Ids(logs) \subseteq 1..n
    BY <1>4 DEF Ids
  <1>6. IsFiniteSet(1..n)
    BY FS_Interval
  <1>7. IsFiniteSet(Ids(logs))
    BY <1>5, <1>6, FS_Subset
  <1> QED  BY <1>1, <1>5, <1>7 DEF Ids

(* A step that writes no event and sends none, and after which no call     *)
(* that was not there has an id.                                           *)
LEMMA EventsStay ==
    ASSUME Events, UNCHANGED <<logs, nextId, stream>>,
           \A c \in Calls : call'[c].pc = "insert" => call'[c] = call[c]
    PROVE  Events'
  <1>1. Drawn(call', logs, nextId)
    BY DEF Events, Drawn
  <1> QED  BY <1>1 DEF Events

(* One call becomes another one that has no id.                            *)
LEMMA EventsCall ==
    ASSUME Events, call \in [Calls -> CallState], NEW c \in Calls, NEW r \in CallState, r.pc # "insert",
           call' = [call EXCEPT ![c] = r], UNCHANGED <<logs, nextId, stream>>
    PROVE  Events'
  <1>1. call'[c] = r /\ \A d \in Calls : d # c => call'[d] = call[d]
    BY Zenon
  <1>2. \A d \in Calls : call'[d].pc = "insert" => call'[d] = call[d]
    BY <1>1
  <1> QED  BY <1>2, EventsStay

(* The INSERT draws an id that nobody has.                                 *)
LEMMA DrawLogIdKeeps ==
    ASSUME Books, Events, NEW c \in Calls, DrawLogId(c)
    PROVE  Books' /\ Events'
  <1>1. call[c] \in CallState /\ call \in [Calls -> CallState]
    BY CallFacts
  <1>2. PICK n \in Nat \ {0} : n = nextId
    BY DEF Events
  <1>3. PICK r : r = [call[c] EXCEPT !.pc = "insert", !.id = n]
    OBVIOUS
  <1>4. r \in CallState
    BY <1>1, <1>3, Zenon DEF CallState
  <1>5. r.pc = "insert" /\ r.id = n
    BY <1>1, <1>3 DEF CallState
  <1>6. call' = [call EXCEPT ![c] = r]
    BY <1>2, <1>3, Zenon DEF DrawLogId
  <1>7. nextId' = n + 1 /\ UNCHANGED <<db, account, transactions, logs, stream>>
    BY <1>2 DEF DrawLogId
  <1>8. Books'
    <2>1. r.pc \notin Busy
      BY <1>5 DEF Busy
    <2> QED  BY <1>4, <1>6, <1>7, <2>1, QuietCall
  <1>9. call'[c] = r /\ \A d \in Calls : d # c => call'[d] = call[d]
    BY <1>1, <1>6, Zenon
  <1>10. \A i \in Ids(logs) : i < n /\ i \in Nat
    BY <1>2, IdFacts
  <1>11. \A d \in Calls : call[d].pc = "insert" =>
            /\ call[d].id \in Nat /\ 0 < call[d].id /\ call[d].id < n /\ call[d].id \notin Ids(logs)
            /\ \A e \in Calls : call[e].pc = "insert" /\ call[e].id = call[d].id => d = e
    <2>1. \A d \in Calls : call[d].id \in Nat
      BY <1>1 DEF CallState
    <2> QED  BY <1>2, <2>1 DEF Events, Drawn
  <1>12. Drawn(call', logs, n + 1)
    <2>1. ASSUME NEW d \in Calls, call'[d].pc = "insert"
          PROVE  /\ 0 < call'[d].id /\ call'[d].id < n + 1 /\ call'[d].id \notin Ids(logs)
                 /\ \A e \in Calls : call'[e].pc = "insert" /\ call'[e].id = call'[d].id => d = e
      <3>1. CASE d = c
        <4>1. \A e \in Calls : e # c /\ call'[e].pc = "insert" => call'[e].id # n
          BY <1>9, <1>11
        <4> QED  BY <1>5, <1>9, <1>10, <3>1, <4>1
      <3>2. CASE d # c
        <4>1. call'[d] = call[d] /\ call[d].id # n /\ call[d].id < n + 1
          BY <1>9, <1>11, <2>1, <3>2
        <4> QED  BY <1>5, <1>9, <1>11, <2>1, <3>2, <4>1
      <3> QED  BY <3>1, <3>2
    <2> QED  BY <2>1, Zenon DEF Drawn
  <1>13. \A i \in DOMAIN logs : logs[i].id < n + 1
    BY <1>10, IdFacts
  <1>14. Events'
    BY <1>7, <1>12, <1>13 DEF Events
  <1> QED  BY <1>8, <1>14

(* A row of event_logs is committed: a stream that is past its id already  *)
(* sent a larger one, of a row committed before.                           *)
LEMMA InsertLogEvents ==
    ASSUME Books, Events, NEW c \in Calls, InsertLog(c)
    PROVE  Events'
  <1>1. call[c] \in CallState /\ call \in [Calls -> CallState] /\ call[c].pc = "insert"
    BY CallFacts DEF InsertLog
  <1>2. PICK k \in Nat : k = Len(logs)
    BY DEF Events
  <1>3. PICK n \in Nat : n = call[c].id
    BY <1>1 DEF CallState
  <1>4. 0 < n /\ n < nextId /\ n \notin Ids(logs)
    BY <1>1, <1>3 DEF Events, Drawn
  <1>5. PICK r \in LogRow : r = [id |-> n, tx |-> call[c].tx] /\ r.id = n
    <2>1. call[c].tx \in Nat
      BY <1>1 DEF CallState
    <2>2. n \in Nat \ {0}
      BY <1>4
    <2>3. [id |-> n, tx |-> call[c].tx] \in LogRow
      BY <2>1, <2>2 DEF LogRow
    <2> QED  BY <2>3
  <1>6. logs' = Append(logs, r) /\ call' = [call EXCEPT ![c] = NoCall] /\ UNCHANGED <<nextId, stream>>
    BY <1>3, <1>5 DEF InsertLog, Logged
  <1>7. /\ logs' \in Seq(LogRow)
        /\ DOMAIN logs = 1..k /\ DOMAIN logs' = 1..(k + 1)
        /\ \A i \in 1..k : logs'[i] = logs[i]
        /\ logs'[k + 1] = r
    BY <1>2, <1>6 DEF Events
  <1>8. \A i \in DOMAIN logs' : logs'[i].id < nextId
    <2>1. \A i \in 1..k : logs[i].id < nextId
      BY <1>7 DEF Events
    <2>2. \A i \in 1..(k + 1) : i \in 1..k \/ i = k + 1
      OBVIOUS
    <2> QED  BY <1>4, <1>5, <1>7, <2>1, <2>2
  <1>9. Ids(logs') = Ids(logs) \union {n}
    <2>1. 1..(k + 1) = (1..k) \union {k + 1}
      OBVIOUS
    <2> QED  BY <1>5, <1>7, <2>1 DEF Ids
  <1>10. call'[c] = NoCall /\ \A d \in Calls : d # c => call'[d] = call[d]
    BY <1>1, <1>6, Zenon
  <1>11. Drawn(call', logs', nextId)
    <2>1. \A d \in Calls : call'[d].pc = "insert" => d # c /\ call'[d] = call[d]
      BY <1>10, NoCallRecord
    <2>2. Drawn(call, logs, nextId)
      BY DEF Events
    <2>3. \A d \in Calls : call'[d].pc = "insert" => call[d].id # n
      BY <1>1, <1>3, <2>1, <2>2 DEF Drawn
    <2> QED  BY <1>9, <2>1, <2>2, <2>3 DEF Drawn
  <1>12. ASSUME NEW s \in Streams PROVE Streamed(logs', stream[s])
    <2>1. Streamed(logs, stream[s]) /\ stream[s] \in StreamState
      BY DEF Events
    <2>2. PICK last \in Nat : last = stream[s].lastID
      BY <2>1 DEF StreamState
    <2>3. last \in Ids(logs) \union {0}
      BY <2>1, <2>2 DEF Streamed
    <2>4. ASSUME NEW i \in DOMAIN logs', logs'[i].id <= last, logs'[i].id \notin stream[s].sent
          PROVE  \E j \in 1..(i - 1) : logs'[j].id > logs'[i].id
      <3>1. CASE i \in 1..k
        <4>1. PICK j \in 1..(i - 1) : logs[j].id > logs[i].id
          BY <1>7, <2>1, <2>2, <2>4, <3>1 DEF Streamed
        <4>2. j \in 1..k
          BY <3>1
        <4> QED  BY <1>7, <3>1, <4>1, <4>2
      <3>2. CASE i = k + 1
        <4>1. n <= last
          BY <1>5, <1>7, <2>4, <3>2
        <4>2. last \in Ids(logs) /\ last > n
          BY <1>4, <2>3, <4>1
        <4>3. PICK j \in 1..k : logs[j].id = last
          BY <1>7, <4>2 DEF Ids
        <4>4. j \in 1..(i - 1)
          BY <3>2
        <4> QED  BY <1>5, <1>7, <3>2, <4>2, <4>3, <4>4
      <3> QED  BY <1>7, <3>1, <3>2
    <2> QED  BY <1>9, <2>2, <2>3, <2>4 DEF Streamed
  <1> QED  BY <1>6, <1>7, <1>8, <1>11, <1>12 DEF Events

-----------------------------------------------------------------------------
(* A batch is what follows lastID, without gaps: an id up to the last of a *)
(* batch is in it or not after lastID.                                     *)
LEMMA BatchIsPrefix ==
    ASSUME EthTxAssumption, Events, NEW s \in Streams, Batch(s) # {}
    PROVE  /\ Max(Batch(s)) \in Batch(s) /\ Batch(s) \subseteq Ids(logs)
           /\ \A n \in Ids(logs) : n <= Max(Batch(s)) => n <= stream[s].lastID \/ n \in Batch(s)
  <1>1. PICK last \in Nat : last = stream[s].lastID
    BY DEF Events, StreamState
  <1> DEFINE new == {n \in Ids(logs) : n > last}
             Before(n) == {m \in new : m < n}
  <1>2. Batch(s) = {n \in new : Cardinality(Before(n)) < Limit}
    BY <1>1 DEF Batch, LogIds, Ids
  <1>3. new \in SUBSET Nat /\ IsFiniteSet(new) /\ \A n \in new : n <= nextId
    <2>1. Ids(logs) \in SUBSET Nat /\ IsFiniteSet(Ids(logs)) /\ Ids(logs) \subseteq 1..(nextId - 1)
      BY IdFacts
    <2>2. nextId \in Nat
      BY DEF Events
    <2>3. new \subseteq Ids(logs)
      OBVIOUS
    <2>4. IsFiniteSet(new)
      <3> HIDE DEF new
      <3> QED  BY <2>1, <2>3, FS_Subset
    <2> QED  BY <2>1, <2>2, <2>3, <2>4
  <1>4. PICK M : M = Max(Batch(s))
    OBVIOUS
  <1>5. M \in Batch(s)
    <2>1. Batch(s) \in SUBSET Nat /\ (\A n \in Batch(s) : n <= nextId) /\ nextId \in Nat
      BY <1>2, <1>3 DEF Events
    <2> QED  BY <1>4, <2>1, MaxOfSet
  <1>6. ASSUME NEW n \in Ids(logs), n <= M, ~(n <= last)
        PROVE  n \in Batch(s)
    <2>1. n \in Nat /\ M \in Nat /\ n \in new
      BY <1>2, <1>3, <1>5, <1>6, IdFacts
    <2>2. Before(n) \subseteq Before(M)
      BY <1>3, <1>6, <2>1
    <2>3. Before(M) \subseteq new
      OBVIOUS
    <2>4. Cardinality(Before(M)) < Limit
      BY <1>2, <1>5
    <2> HIDE DEF new, Before
    <2>5. IsFiniteSet(Before(M))
      BY <1>3, <2>3, FS_Subset
    <2>6. IsFiniteSet(Before(n)) /\ Cardinality(Before(n)) <= Cardinality(Before(M))
      BY <2>2, <2>5, FS_Subset
    <2>7. Cardinality(Before(n)) \in Nat /\ Cardinality(Before(M)) \in Nat
      BY <2>5, <2>6, FS_CardinalityType
    <2>8. Limit \in Nat
      BY DEF EthTxAssumption
    <2>9. Cardinality(Before(n)) < Limit
      BY <2>4, <2>6, <2>7, <2>8
    <2> QED  BY <1>2, <2>1, <2>9
  <1>7. Batch(s) \subseteq Ids(logs)
    BY <1>2
  <1> QED  BY <1>1, <1>4, <1>5, <1>6, <1>7

(* SubscribeLogs at a tick.                                                *)
LEMMA PollEvents ==
    ASSUME EthTxAssumption, Events, NEW s \in Streams, Poll(s)
    PROVE  Events'
  <1>1. /\ stream \in [Streams -> StreamState]
        /\ stream[s] \in StreamState /\ Streamed(logs, stream[s])
    BY DEF Events
  <1>2. PICK B : B = Batch(s)
    OBVIOUS
  <1>3. PICK M : M = Max(B)
    OBVIOUS
  <1>4. /\ M \in B /\ B \subseteq Ids(logs)
        /\ \A n \in Ids(logs) : n <= M => n <= stream[s].lastID \/ n \in B
    BY <1>2, <1>3, BatchIsPrefix DEF Poll
  <1>5. Ids(logs) \in SUBSET Nat /\ \A i \in DOMAIN logs : logs[i].id \in Ids(logs)
    BY IdFacts
  <1>6. PICK st : st = [lastID |-> M, sent |-> stream[s].sent \union B]
    OBVIOUS
  <1>7. st \in StreamState /\ st.lastID = M /\ st.sent = stream[s].sent \union B
    BY <1>1, <1>4, <1>5, <1>6 DEF StreamState
  <1>8. stream' = [stream EXCEPT ![s] = st] /\ UNCHANGED <<logs, nextId, call>>
    BY <1>2, <1>3, <1>6 DEF Poll, eventLog
  <1>9. Streamed(logs, st)
    BY <1>1, <1>4, <1>5, <1>7 DEF Streamed
  <1>10. stream' \in [Streams -> StreamState] /\ \A u \in Streams : Streamed(logs, stream'[u])
    BY <1>1, <1>7, <1>8, <1>9 DEF Events
  <1> QED  BY <1>8, <1>10 DEF Events

(* A stream that begins has sent nothing.                                  *)
LEMMA NewStreamed ==
    ASSUME Events
    PROVE  NewStream \in StreamState /\ Streamed(logs, NewStream)
  <1>1. NewStream \in StreamState /\ NewStream.lastID = 0
    BY DEF NewStream, StreamState
  <1>2. \A i \in DOMAIN logs : ~(logs[i].id <= 0)
    <2>1. \A i \in DOMAIN logs : logs[i].id \in 1..(nextId - 1) /\ nextId \in Nat
      BY IdFacts DEF Events
    <2> QED  BY <2>1
  <1> QED  BY <1>1, <1>2 DEF Streamed

(* A client subscribes again, ...                                          *)
LEMMA ResubscribeEvents ==
    ASSUME Events, NEW s \in Streams, Resubscribe(s)
    PROVE  Events'
  <1>1. stream \in [Streams -> StreamState] /\ \A u \in Streams : Streamed(logs, stream[u])
    BY DEF Events
  <1>2. stream' = [stream EXCEPT ![s] = NewStream] /\ UNCHANGED <<logs, nextId, call>>
    BY DEF Resubscribe, eventLog
  <1>3. stream' \in [Streams -> StreamState] /\ \A u \in Streams : Streamed(logs, stream'[u])
    BY <1>1, <1>2, NewStreamed
  <1> QED  BY <1>2, <1>3 DEF Events

(* ... or all have to, after a restart.                                    *)
LEMMA RestartEvents ==
    ASSUME Events, Restart
    PROVE  Events'
  <1>1. UNCHANGED <<logs, nextId>> /\ \A c \in Calls : call'[c].pc # "insert"
    BY NoCallRecord DEF Restart, eventLog
  <1>2. stream' \in [Streams -> StreamState] /\ \A u \in Streams : Streamed(logs, stream'[u])
    BY NewStreamed DEF Restart
  <1>3. Drawn(call', logs, nextId)
    BY <1>1 DEF Drawn
  <1> QED  BY <1>1, <1>2, <1>3 DEF Events

-----------------------------------------------------------------------------
(* Nothing is opened, moved or sent at the start but the default accounts. *)
LEMMA EthTxInitHolds ==
    ASSUME EthTxAssumption, EthTxInit PROVE EthTxInv
  <1>1. Books
    <2>1. account \in [Addrs -> Row] /\ \A a \in Addrs : account[a].nonce = 0
      BY NewRows DEF EthTxInit
    <2>2. call \in [Calls -> CallState] /\ \A c \in Calls : call[c].pc = "idle"
      BY NoCallRecord DEF EthTxInit
    <2>3. /\ \A c \in Calls : Fresh(call[c], db, account)
          /\ \A c \in Calls, a \in Addrs : ~HeldRow(call[c], a)
      BY <2>2 DEF Fresh, HeldRow, Busy
    <2>4. transactions = <<>> /\ db \in BOOLEAN
      BY DEF EthTxInit
    <2>5. \A a \in Addrs : Numbered(a, transactions, account[a].nonce)
      BY <2>1, <2>4, NoneNumbered
    <2>6. transactions \in Seq(Tx)
      BY <2>4
    <2> QED  BY <2>1, <2>2, <2>3, <2>4, <2>5, <2>6 DEF Books
  <1>2. Events
    <2>1. logs = <<>> /\ nextId = 1 /\ \A c \in Calls : call[c].pc # "insert"
      BY NoCallRecord DEF EthTxInit
    <2>2. NewStream \in StreamState /\ Streamed(logs, NewStream)
      BY <2>1 DEF NewStream, StreamState, Streamed
    <2>3. stream \in [Streams -> StreamState] /\ \A s \in Streams : Streamed(logs, stream[s])
      BY <2>2 DEF EthTxInit
    <2>4. Drawn(call, logs, nextId)
      BY <2>1 DEF Drawn
    <2> QED  BY <2>1, <2>3, <2>4 DEF Events
  <1> QED  BY <1>1, <1>2, Halves

(* What a transaction of the database does to its call.                    *)
LEMMA ProceedKeeps ==
    ASSUME EthTxAssumption, Books, Events, NEW c \in Calls, Proceed(c)
    PROVE  Books' /\ Events'
  <1> DEFINE Other == \A d \in Calls : call'[d].pc = "insert" => call'[d] = call[d]
  <1>1. call \in [Calls -> CallState] /\ call[c] \in CallState
    BY CallFacts
  <1>2. CASE LockFrom(c)
    <2>1. call' = [call EXCEPT ![c] = [call[c] EXCEPT !.pc = "to", !.fromRow = account[call[c].from]]]
      BY <1>2, Zenon DEF LockFrom
    <2>2. call'[c].pc = "to" /\ \A d \in Calls : d # c => call'[d] = call[d]
      BY <1>1, <2>1 DEF CallState
    <2>3. Other /\ UNCHANGED <<logs, nextId, stream>>
      BY <1>2, <2>2 DEF LockFrom, eventLog
    <2> QED  BY <1>2, <2>3, LockFromBooks, EventsStay
  <1>3. CASE Refuse(c)
    <2>1. call' = [call EXCEPT ![c] = NoCall] /\ UNCHANGED <<logs, nextId, stream>> /\ NoCall.pc # "insert"
      BY <1>3, NoCallRecord DEF Refuse, eventLog
    <2> QED  BY <1>1, <1>3, <2>1, NoCallRecord, ReturnBooks, EventsCall
  <1>4. CASE LockTo(c)
    <2>1. call' = [call EXCEPT ![c] = [call[c] EXCEPT !.pc = "write", !.toRow = account[call[c].to]]]
      BY <1>4, Zenon DEF LockTo
    <2>2. call'[c].pc = "write" /\ \A d \in Calls : d # c => call'[d] = call[d]
      BY <1>1, <2>1 DEF CallState
    <2>3. Other /\ UNCHANGED <<logs, nextId, stream>>
      BY <1>4, <2>2 DEF LockTo, eventLog
    <2> QED  BY <1>4, <2>3, LockToBooks, EventsStay
  <1>5. CASE transferDB(c)
    <2>1. call' = [call EXCEPT ![c] = LogCall(Len(transactions'))]
      BY <1>5 DEF transferDB, LogCall
    <2>2. call'[c].pc = "log" /\ \A d \in Calls : d # c => call'[d] = call[d]
      BY <1>1, <2>1 DEF LogCall, NoCall
    <2>3. Other /\ UNCHANGED <<logs, nextId, stream>>
      BY <1>5, <2>2 DEF transferDB, eventLog
    <2> QED  BY <1>5, <2>3, transferDBBooks, EventsStay
  <1>6. CASE DrawLogId(c)
    BY <1>6, DrawLogIdKeeps
  <1>7. CASE InsertLog(c)
    BY <1>7, ReturnBooks, InsertLogEvents
  <1> QED  BY <1>2, <1>3, <1>4, <1>5, <1>6, <1>7 DEF Proceed

(* Transfers that begin, are cut off or run in memory.                     *)
LEMMA CallKeeps ==
    ASSUME EthTxAssumption, Books, Events, NEW c \in Calls,
           \/ \E from, to \in Addrs, v \in Values : Transfer(c, from, to, v) \/ TransferMem(c, from, to, v)
           \/ Rollback(c) \/ LoseLog(c)
    PROVE  Books' /\ Events'
  <1>1. call \in [Calls -> CallState] /\ call[c] \in CallState
    BY CallFacts
  <1>2. ASSUME NEW from \in Addrs, NEW to \in Addrs, NEW v \in Values, Transfer(c, from, to, v)
        PROVE  Books' /\ Events'
    <2>1. PICK r : r = Begun(from, to, v)
      OBVIOUS
    <2>2. r \in CallState /\ r.pc # "insert"
      BY <2>1, BegunRecord DEF BegunAs
    <2>3. call' = [call EXCEPT ![c] = r] /\ UNCHANGED <<logs, nextId, stream>>
      BY <1>2, <2>1 DEF Transfer, Arrive, Begun, eventLog
    <2> QED  BY <1>1, <1>2, <2>2, <2>3, TransferBooks, EventsCall
  <1>3. ASSUME NEW from \in Addrs, NEW to \in Addrs, NEW v \in Values, TransferMem(c, from, to, v)
        PROVE  Books' /\ Events'
    <2>1. UNCHANGED call \/ call' = [call EXCEPT ![c].pc = "mu"]
      BY <1>3, Zenon DEF TransferMem
    <2>2. \A d \in Calls : call'[d].pc = "insert" => call'[d] = call[d]
      <3>1. CASE UNCHANGED call
        BY <3>1
      <3>2. CASE call' = [call EXCEPT ![c].pc = "mu"]
        <4>1. call' = [call EXCEPT ![c] = [call[c] EXCEPT !.pc = "mu"]]
          BY <3>2, Zenon
        <4>2. call'[c].pc = "mu" /\ \A d \in Calls : d # c => call'[d] = call[d]
          BY <1>1, <4>1 DEF CallState
        <4> QED  BY <4>2
      <3> QED  BY <2>1, <3>1, <3>2
    <2>3. UNCHANGED <<logs, nextId, stream>>
      BY <1>3 DEF TransferMem, eventLog
    <2> QED  BY <1>3, <2>2, <2>3, TransferMemBooks, EventsStay
  <1>4. CASE Rollback(c) \/ LoseLog(c)
    <2>1. call' = [call EXCEPT ![c] = NoCall] /\ UNCHANGED <<logs, nextId, stream>> /\ NoCall.pc # "insert"
      BY <1>4, NoCallRecord DEF Rollback, LoseLog, eventLog
    <2> QED  BY <1>1, <1>4, <2>1, NoCallRecord, ReturnBooks, EventsCall
  <1> QED  BY <1>2, <1>3, <1>4

(* Every step keeps EthTxInv.                                              *)
LEMMA EthTxNextKeeps ==
    ASSUME EthTxAssumption, EthTxInv, EthTxNext PROVE EthTxInv'
  <1>1. Books /\ Events
    BY Halves
  <1>2. ASSUME NEW a \in Addrs, NEW b \in InitialBalances, CreateAccount(a, b)
        PROVE  Books' /\ Events'
    <2>1. UNCHANGED <<logs, nextId, stream, call>>
      BY <1>2 DEF CreateAccount, eventLog
    <2> QED  BY <1>1, <1>2, <2>1, CreateAccountBooks, EventsStay
  <1>3. ASSUME NEW s \in Streams, Poll(s) \/ Resubscribe(s)
        PROVE  Books' /\ Events'
    <2>1. UNCHANGED <<db, account, transactions, call>>
      BY <1>3 DEF Poll, Resubscribe
    <2> QED  BY <1>1, <1>3, <2>1, BooksStay, PollEvents, ResubscribeEvents
  <1>4. ASSUME Restart PROVE Books' /\ Events'
    BY <1>1, <1>4, RestartBooks, RestartEvents
  <1>5. ASSUME NEW c \in Calls,
               \/ \E from, to \in Addrs, v \in Values : Transfer(c, from, to, v) \/ TransferMem(c, from, to, v)
               \/ Proceed(c) \/ Rollback(c) \/ LoseLog(c)
        PROVE  Books' /\ Events'
    BY <1>1, <1>5, ProceedKeeps, CallKeeps, Zenon
  <1>6. Books' /\ Events'
    BY <1>2, <1>3, <1>4, <1>5, Zenon DEF EthTxNext
  <1> QED  BY <1>6, HalvesAfter

(* ... and so does a step of something else.                               *)
LEMMA EthTxStutterKeeps ==
    ASSUME EthTxInv, UNCHANGED ethVars PROVE EthTxInv'
  <1>1. Books /\ Events
    BY Halves
  <1>2. UNCHANGED <<db, account, transactions, call>> /\ UNCHANGED <<logs, nextId, stream>>
    BY DEF ethVars
  <1>3. Books' /\ Events'
    BY <1>1, <1>2, BooksStay, EventsStay
  <1> QED  BY <1>3, HalvesAfter

(* What the service keeps in either mode, whatever transfers, streams and  *)
(* restarts do: no balance falls below zero, and what a transfer read      *)
(* under its row and gap locks is what the table holds when it writes      *)
(* (transferDB, cmd/web3-grpc-server/main.go).                             *)
THEOREM EthTxInvariant == EthTxSpec => []EthTxInv
  <1>1. EthTxInit => EthTxInv
    BY EthTxAssumption, EthTxInitHolds
  <1>2. EthTxInv /\ [EthTxNext]_ethVars => EthTxInv'
    BY EthTxAssumption, EthTxNextKeeps, EthTxStutterKeeps
  <1> QED  BY <1>1, <1>2, PTL DEF EthTxSpec

(* The nonces of the transfers of an account are 1, 2, ... up to its own,  *)
(* none used twice and none left out (transferDB and Transfer,             *)
(* cmd/web3-grpc-server/main.go).                                          *)
THEOREM NoncesAreGapless == EthTxSpec => []NoncesCount
  <1>1. EthTxInv => NoncesCount
    BY DEF EthTxInv
  <1> QED  BY <1>1, EthTxInvariant, PTL

(* SubscribeLogs loses an event only to one with a larger id that was      *)
(* committed first, for any limit of its query.                            *)
THEOREM StreamsLoseOnlyOvertaken == EthTxSpec => []OnlyOvertakenIsMissed
  <1>1. EthTxInv => OnlyOvertakenIsMissed
    BY DEF EthTxInv
  <1> QED  BY <1>1, EthTxInvariant, PTL

-----------------------------------------------------------------------------
(* THE BALANCES.  MoneyInv is kept by every step, given EthTxInv.  Worth   *)
(* is the sum of the balances of accounts, wherever they are defined.      *)
OpenedIn(accounts) == {a \in Addrs : accounts[a] # None}
Worth(accounts) == SumFunctionOnSet([a \in Addrs |-> accounts[a].balance], OpenedIn(accounts))
Held(r) == IF r = None THEN 0 ELSE r.balance

(* MoneyInv, of accounts and what was issued.                              *)
Money(accounts, n) ==
    /\ DOMAIN Seed \subseteq OpenedIn(accounts)
    /\ IsFiniteSet(OpenedIn(accounts))
    /\ Worth(accounts) = n

(* The balances of finitely many accounts are integers ...                 *)
LEMMA BalancesAreInts ==
    ASSUME NEW accounts \in [Addrs -> Row], NEW f, f = [a \in Addrs |-> accounts[a].balance]
    PROVE  \A a \in Addrs : f[a] \in Int /\ f[a] = accounts[a].balance
  BY RowFacts

(* ... with a sum.                                                         *)
LEMMA WorthIsInt ==
    ASSUME NEW accounts \in [Addrs -> Row], IsFiniteSet(OpenedIn(accounts))
    PROVE  Worth(accounts) \in Int
  <1> DEFINE f == [a \in Addrs |-> accounts[a].balance]
             S == OpenedIn(accounts)
  <1>1. \A x \in S : f[x] \in Int
    BY RowFacts DEF OpenedIn
  <1> HIDE DEF f, S
  <1>2. IsFiniteSet(S) => SumFunctionOnSet(f, S) \in Int
    BY <1>1, SumIsInt
  <1> QED  BY <1>2 DEF Worth, f, S

(* The sum over the accounts that are there, as the property states it.    *)
LEMMA MoneyMeans == MoneyInv <=> Money(account, issued)
  <1> DEFINE S == OpenedIn(account)
             f == [a \in S |-> account[a].balance]
             g == [a \in Addrs |-> account[a].balance]
  <1>1. S = Opened
    BY DEF OpenedIn, Opened, Exists
  <1>2. DOMAIN f = S /\ \A a \in S : f[a] = g[a]
    BY DEF OpenedIn
  <1> HIDE DEF S, f, g
  <1>3. IsFiniteSet(S) => SumFunctionOnSet(f, S) = SumFunctionOnSet(g, S)
    BY <1>2, SumOfSame
  <1>4. SumFunction(f) = SumFunctionOnSet(f, S)
    BY <1>2 DEF SumFunction
  <1>5. BalancesAddUp <=> SumFunction(f) = issued
    BY <1>1 DEF BalancesAddUp, f
  <1>6. Worth(account) = SumFunctionOnSet(g, S)
    BY DEF Worth, g, S
  <1> QED  BY <1>1, <1>3, <1>4, <1>5, <1>6 DEF MoneyInv, Money, S

(* MoneyInv after a step.                                                  *)
LEMMA MoneyMeansAfter == MoneyInv' <=> Money(account', issued')
  <1>1. MoneyInv' <=> (Money(account, issued))'
    BY MoneyMeans, PTL
  <1> QED  BY <1>1

(* A row is written, of an account that was there or is now.               *)
LEMMA RowWritten ==
    ASSUME NEW accounts \in [Addrs -> Row], NEW n \in Int, Money(accounts, n),
           NEW a \in Addrs, NEW r \in Row, r # None,
           NEW new, new = [accounts EXCEPT ![a] = r]
    PROVE  /\ new \in [Addrs -> Row]
           /\ Money(new, n + (r.balance - Held(accounts[a])))
  <1> DEFINE f == [x \in Addrs |-> accounts[x].balance]
             h == [x \in Addrs |-> new[x].balance]
             S == OpenedIn(accounts)
             T == OpenedIn(new)
  <1>1. new \in [Addrs -> Row] /\ new[a] = r /\ \A x \in Addrs : x # a => new[x] = accounts[x]
    OBVIOUS
  <1>2. T = S \union {a}
    BY <1>1 DEF OpenedIn
  <1>3. /\ \A x \in Addrs : f[x] \in Int /\ h[x] \in Int
        /\ \A x \in Addrs : x # a => h[x] = f[x]
        /\ h[a] = r.balance /\ f[a] = accounts[a].balance
    BY <1>1, RowFacts
  <1>4. S \subseteq Addrs /\ IsFiniteSet(S) /\ DOMAIN Seed \subseteq S
    BY DEF OpenedIn, Money
  <1>5. Worth(accounts) = SumFunctionOnSet(f, S) /\ Worth(new) = SumFunctionOnSet(h, T)
    BY DEF Worth
  <1>6. a \in S <=> accounts[a] # None
    BY DEF OpenedIn
  <1> HIDE DEF f, h, S, T
  <1>7. IsFiniteSet(T)
    BY <1>2, <1>4, FS_AddElement
  <1>8. SumFunctionOnSet(h, T) = SumFunctionOnSet(f, S) + (r.balance - Held(accounts[a]))
    <2>1. CASE a \in S
      <3>1. T = S /\ Held(accounts[a]) = f[a]
        BY <1>2, <1>3, <1>6, <2>1 DEF Held
      <3>2. \A x \in S : f[x] \in Int /\ h[x] \in Int
        BY <1>3, <1>4
      <3>3. \A x \in S : x # a => h[x] = f[x]
        BY <1>3, <1>4
      <3>4. SumFunctionOnSet(h, S) = SumFunctionOnSet(f, S) + (h[a] - f[a])
        BY <1>4, <2>1, <3>2, <3>3, SumWithOther
      <3> QED  BY <1>3, <3>1, <3>4
    <2>2. CASE a \notin S
      <3>1. Held(accounts[a]) = 0
        BY <1>6, <2>2 DEF Held
      <3>2. \A x \in S : f[x] \in Int /\ h[x] = f[x]
        BY <1>3, <1>4, <2>2
      <3>3. h[a] \in Int
        BY <1>3
      <3>4. SumFunctionOnSet(h, S \union {a}) = SumFunctionOnSet(f, S) + h[a]
        BY <1>4, <2>2, <3>2, <3>3, SumWithMore
      <3> QED  BY <1>2, <1>3, <3>1, <3>3, <3>4
    <2> QED  BY <2>1, <2>2
  <1>9. Worth(accounts) = n
    BY DEF Money
  <1>10. Worth(new) = n + (r.balance - Held(accounts[a]))
    BY <1>5, <1>8, <1>9
  <1>11. DOMAIN Seed \subseteq T
    BY <1>2, <1>4
  <1> QED  BY <1>1, <1>7, <1>10, <1>11 DEF Money, T

(* The balances a transfer writes.                                         *)
LEMMA TransferredBalances ==
    ASSUME NEW r \in Row, NEW v \in Nat
    PROVE  /\ Credited(r, v) \in Row /\ Credited(r, v) # None /\ Credited(r, v).balance = Held(r) + v
           /\ r # None /\ r.balance >= v
                => Debited(r, v) \in Row /\ Debited(r, v) # None /\ Debited(r, v).balance = Held(r) - v
  <1>1. Credited(r, v) \in Row /\ (r.balance >= v => Debited(r, v) \in Row)
    BY CreditedRow, DebitedRow
  <1>2. Credited(r, v).balance = Held(r) + v
    <2>1. CASE r = None
      BY <2>1 DEF Credited, Held
    <2>2. CASE r # None
      <3>1. r \in [balance : Nat, nonce : Nat]
        BY <2>2 DEF Row
      <3> QED  BY <2>2, <3>1 DEF Credited, Held
    <2> QED  BY <2>1, <2>2
  <1>3. r # None => Debited(r, v).balance = Held(r) - v /\ r.balance \in Nat /\ Held(r) = r.balance
    BY RowFacts DEF Debited, Held
  <1>4. Held(r) \in Nat
    BY RowFacts DEF Held
  <1>5. \A x : x.balance >= 0 => x # None
    BY DEF None
  <1>6. Credited(r, v).balance >= 0 /\ (r # None /\ r.balance >= v => Debited(r, v).balance >= 0)
    BY <1>2, <1>3, <1>4
  <1> QED  BY <1>1, <1>2, <1>3, <1>5, <1>6

(* A transfer takes from one account what it gives to another.             *)
LEMMA MoneyMoves ==
    ASSUME NEW accounts \in [Addrs -> Row], NEW n \in Int, Money(accounts, n),
           NEW from \in Addrs, NEW to \in Addrs, from # to, NEW v \in Nat,
           accounts[from] # None, accounts[from].balance >= v,
           NEW z \in Row, Held(z) = Held(accounts[to]),
           NEW new, new = [accounts EXCEPT ![from] = Debited(accounts[from], v), ![to] = Credited(z, v)]
    PROVE  Money(new, n)
  <1>1. PICK x \in Row : x = Debited(accounts[from], v) /\ x # None /\ x.balance = Held(accounts[from]) - v
    <2>1. accounts[from] \in Row
      OBVIOUS
    <2> QED  BY <2>1, TransferredBalances
  <1>2. PICK y \in Row : y = Credited(z, v) /\ y # None /\ y.balance = Held(z) + v
    BY TransferredBalances
  <1>3. PICK mid : mid = [accounts EXCEPT ![from] = x]
    OBVIOUS
  <1>4. mid \in [Addrs -> Row] /\ mid[to] = accounts[to]
    BY <1>3
  <1>5. new = [mid EXCEPT ![to] = y]
    BY <1>1, <1>2, <1>3
  <1>6. accounts[from] \in Row /\ accounts[to] \in Row
    OBVIOUS
  <1>7. PICK p \in Int, q \in Int : p = Held(accounts[from]) /\ q = Held(accounts[to])
    BY <1>6, RowFacts DEF Held
  <1>8. Money(mid, n + (x.balance - p))
    BY <1>1, <1>3, <1>7, RowWritten
  <1>9. PICK k \in Int : k = n + (x.balance - p) /\ k = n - v
    BY <1>1, <1>7
  <1>10. Money(new, k + (y.balance - q))
    <2>1. Money(mid, k) /\ q = Held(mid[to])
      BY <1>4, <1>7, <1>8, <1>9
    <2> QED  BY <1>2, <1>4, <1>5, <2>1, RowWritten
  <1>11. k + (y.balance - q) = n
    BY <1>2, <1>7, <1>9
  <1> QED  BY <1>10, <1>11

(* The default accounts are the first to be opened.                        *)
LEMMA SeedIsMoney ==
    ASSUME EthTxAssumption
    PROVE  Money(seedDefaultAccounts, SumFunction(Seed)) /\ SumFunction(Seed) \in Int
  <1> DEFINE S == OpenedIn(seedDefaultAccounts)
             f == [a \in Addrs |-> seedDefaultAccounts[a].balance]
  <1>1. \A a \in Addrs : seedDefaultAccounts[a] = IF a \in DOMAIN Seed THEN [balance |-> Seed[a], nonce |-> 0] ELSE None
    BY DEF seedDefaultAccounts, seedDefaultAccountsDB
  <1>2. \A a \in DOMAIN Seed : a \in Addrs /\ Seed[a] \in Nat /\ [balance |-> Seed[a], nonce |-> 0] # None
    <2>1. \A b \in Nat : [balance |-> b, nonce |-> 0] # None
      <3>1. \A b \in Nat : [balance |-> b, nonce |-> 0].balance = b /\ None.balance = -1 /\ b # -1
        BY DEF None
      <3> QED  BY <3>1, Zenon
    <2> QED  BY <2>1 DEF EthTxAssumption
  <1>3. S = DOMAIN Seed
    BY <1>1, <1>2 DEF OpenedIn
  <1>4. \A a \in S : f[a] = Seed[a] /\ Seed[a] \in Int
    <2>1. ASSUME NEW a \in DOMAIN Seed PROVE seedDefaultAccounts[a].balance = Seed[a]
      <3>1. seedDefaultAccounts[a] = [balance |-> Seed[a], nonce |-> 0]
        BY <1>1, <1>2
      <3> QED  BY <3>1
    <2> QED  BY <1>2, <1>3, <2>1
  <1>5. IsFiniteSet(S)
    BY <1>3 DEF EthTxAssumption
  <1>6. Worth(seedDefaultAccounts) = SumFunctionOnSet(f, S)
    BY DEF Worth
  <1>7. SumFunction(Seed) = SumFunctionOnSet(Seed, S)
    BY <1>3 DEF SumFunction
  <1> HIDE DEF f, S
  <1>8. SumFunctionOnSet(f, S) = SumFunctionOnSet(Seed, S)
    BY <1>4, <1>5, SumOfSame
  <1>9. SumFunctionOnSet(Seed, S) \in Int
    BY <1>4, <1>5, SumIsInt
  <1> QED  BY <1>3, <1>5, <1>6, <1>7, <1>8, <1>9 DEF Money, S

(* One that is there is not seeded again.                                  *)
LEMMA SeededOnce ==
    ASSUME NEW accounts \in [Addrs -> Row], DOMAIN Seed \subseteq OpenedIn(accounts)
    PROVE  seedDefaultAccountsDB(accounts) = accounts
  BY DEF seedDefaultAccountsDB, OpenedIn

(* Every step keeps the balances adding up: CreateAccount issues what it   *)
(* opens an account with, transfers write what their locks made sure was   *)
(* still so, and a restart seeds what is not there.                        *)
LEMMA MoneyStep ==
    ASSUME EthTxAssumption, EthTxInv, MoneyInv, EthTxNext
    PROVE  MoneyInv'
  <1>1. Books /\ Money(account, issued)
    BY Halves, MoneyMeans
  <1>2. account \in [Addrs -> Row] /\ issued \in Int /\ DOMAIN Seed \subseteq OpenedIn(account)
    BY <1>1, WorthIsInt DEF Books, Money
  <1>3. SUFFICES Money(account', issued')
    BY MoneyMeansAfter
  <1>4. CASE UNCHANGED <<account, issued>>
    BY <1>1, <1>4
  <1>5. ASSUME NEW a \in Addrs, NEW b \in InitialBalances, CreateAccount(a, b)
        PROVE  Money(account', issued')
    <2>1. b \in Nat
      BY DEF EthTxAssumption
    <2>2. PICK r \in Row : r = [balance |-> b, nonce |-> 0] /\ r.balance = b /\ r # None
      <3>1. [balance |-> b, nonce |-> 0] \in Row /\ [balance |-> b, nonce |-> 0].balance = b
        BY <2>1, NewRow
      <3>2. None.balance = -1 /\ b # -1
        BY <2>1 DEF None
      <3> QED  BY <3>1, <3>2
    <2>3. account[a] = None /\ account' = [account EXCEPT ![a] = r] /\ issued' = issued + b
      BY <1>5, <2>2 DEF CreateAccount, createAccountDB, Exists
    <2>4. Held(account[a]) = 0
      BY <2>3 DEF Held
    <2>5. Money(account', issued + (r.balance - Held(account[a])))
      BY <1>1, <1>2, <2>2, <2>3, RowWritten
    <2>6. issued + (r.balance - Held(account[a])) = issued'
      BY <1>2, <2>1, <2>2, <2>3, <2>4
    <2> QED  BY <2>5, <2>6
  <1>6. ASSUME NEW c \in Calls, transferDB(c)
        PROVE  Money(account', issued')
    <2>1. /\ call[c] \in CallState /\ call[c].pc = "write" /\ Fresh(call[c], db, account)
          /\ UNCHANGED issued
      BY <1>1, <1>6, CallFacts DEF transferDB
    <2>2. PICK from \in Addrs, to \in Addrs, v \in Values :
             /\ from = call[c].from /\ to = call[c].to /\ v = call[c].value /\ from # to
             /\ call[c].fromRow = account[from] /\ account[from].balance >= v
             /\ call[c].toRow = account[to]
      BY <2>1 DEF Fresh, Busy
    <2>3. account' = [account EXCEPT ![from] = Debited(account[from], v), ![to] = Credited(account[to], v)]
      BY <1>6, <2>2, Zenon DEF transferDB
    <2>4. v \in Nat /\ account[from] # None /\ account[to] \in Row
      BY <1>2, <2>2, PayerExists DEF EthTxAssumption
    <2>5. Money(account', issued)
      BY <1>1, <1>2, <2>2, <2>3, <2>4, MoneyMoves
    <2> QED  BY <2>1, <2>5
  <1>7. ASSUME NEW c \in Calls, NEW from \in Addrs, NEW to \in Addrs, NEW v \in Values, TransferMem(c, from, to, v)
        PROVE  Money(account', issued')
    <2>1. account[to] \in Row /\ v \in Nat /\ 0 \in Nat
      BY <1>2 DEF EthTxAssumption
    <2>2. PICK z \in Row : z = Credited(account[to], 0) /\ z # None /\ z.balance = Held(account[to]) + 0
      BY <2>1, TransferredBalances
    <2>3. Held(account[to]) \in Int /\ Held(z) = Held(account[to])
      BY <2>1, <2>2, RowFacts DEF Held
    <2>4. CASE account' = [account EXCEPT ![to] = z] /\ UNCHANGED issued
      <3>1. Money(account', issued + (z.balance - Held(account[to])))
        BY <1>1, <1>2, <2>2, <2>4, RowWritten
      <3>2. issued + (z.balance - Held(account[to])) = issued'
        BY <1>2, <2>2, <2>3, <2>4
      <3> QED  BY <3>1, <3>2
    <2>5. ASSUME account[from].balance >= v, UNCHANGED issued, from # to,
                 account' = [account EXCEPT ![from] = Debited(account[from], v), ![to] = Credited(z, v)]
          PROVE  Money(account', issued')
      <3>1. account[from] # None
        BY <1>2, <2>5, PayerExists
      <3>2. Money(account', issued)
        BY <1>1, <1>2, <2>1, <2>2, <2>3, <2>5, <3>1, MoneyMoves
      <3> QED  BY <2>5, <3>2
    <2> QED  BY <1>7, <2>2, <2>4, <2>5, Zenon DEF TransferMem
  <1>8. ASSUME Restart PROVE Money(account', issued')
    <2>1. CASE account' = seedDefaultAccountsDB(account) /\ UNCHANGED issued
      BY <1>1, <1>2, <2>1, SeededOnce
    <2>2. CASE account' = seedDefaultAccounts /\ issued' = SumFunction(Seed)
      BY <2>2, SeedIsMoney
    <2> QED  BY <1>8, <2>1, <2>2 DEF Restart
  <1>9. ASSUME NEW c \in Calls, Proceed(c) PROVE Money(account', issued')
    <2>1. transferDB(c) \/ UNCHANGED <<account, issued>>
      BY <1>9 DEF Proceed, LockFrom, Refuse, LockTo, DrawLogId, InsertLog
    <2> QED  BY <1>4, <1>6, <2>1
  <1>10. ASSUME NEW c \in Calls, NEW from \in Addrs, NEW to \in Addrs, NEW v \in Values, Transfer(c, from, to, v)
         PROVE  Money(account', issued')
    BY <1>4, <1>10 DEF Transfer, Arrive
  <1>11. ASSUME NEW c \in Calls, Rollback(c) \/ LoseLog(c) PROVE Money(account', issued')
    BY <1>4, <1>11 DEF Rollback, LoseLog
  <1>12. ASSUME NEW s \in Streams, Poll(s) \/ Resubscribe(s) PROVE Money(account', issued')
    BY <1>4, <1>12 DEF Poll, Resubscribe
  <1> QED  BY <1>5, <1>7, <1>8, <1>9, <1>10, <1>11, <1>12, Zenon DEF EthTxNext

(* No money is made or lost: in either mode the balances of all accounts   *)
(* add up to what they were opened with, whatever transfers overlap, roll  *)
(* back or insert the same payee, and however often the process starts     *)
(* again (transferDB, Transfer, CreateAccount, seedDefaultAccountsDB).     *)
THEOREM MoneyInvariant == EthTxSpec => []MoneyInv
  <1>1. EthTxInit => MoneyInv
    BY EthTxAssumption, SeedIsMoney, MoneyMeans DEF EthTxInit
  <1>2. EthTxInv /\ MoneyInv /\ [EthTxNext]_ethVars => MoneyInv'
    <2>1. MoneyInv /\ UNCHANGED ethVars => MoneyInv'
      <3>1. MoneyInv /\ UNCHANGED ethVars => Money(account', issued')
        BY MoneyMeans DEF ethVars
      <3> QED  BY <3>1, MoneyMeansAfter
    <2> QED  BY <2>1, EthTxAssumption, MoneyStep
  <1> QED  BY <1>1, <1>2, EthTxInvariant, PTL DEF EthTxSpec

(* Balances and nonces reconcile with the opening balances and the         *)
(* transactions (the property of the run "transfer"), for any addresses,   *)
(* opening balances, amounts and goroutines.                               *)
THEOREM AccountsAlwaysReconcile == EthTxSpec => []AccountsReconcile
  <1>1. EthTxInv /\ MoneyInv => AccountsReconcile
    BY DEF EthTxInv, MoneyInv, AccountsReconcile
  <1> QED  BY <1>1, EthTxInvariant, MoneyInvariant, PTL
=============================================================================
