---------------------------- MODULE EthTxService ----------------------------
(***************************************************************************)
(* The gRPC service of cmd/web3-grpc-server/main.go: accounts, transfers   *)
(* between them and the stream of their events, in MySQL or, when MySQL    *)
(* cannot be reached at the start, in maps under the mutex mu.             *)
(*                                                                         *)
(* With MySQL a transfer is a transaction at the server's default, hence   *)
(* REPEATABLE READ: SELECT ... FOR UPDATE of the payer's row, then of the  *)
(* payee's, where a missing row leaves a gap lock that two transactions    *)
(* can share and that keeps others from inserting the row.  (The gap of    *)
(* InnoDB reaches to the neighbouring rows, which makes more calls wait.)  *)
(* The event is a statement of its own after the commit.                   *)
(*                                                                         *)
(* There is one chain id; users, queries and the transactions of a real    *)
(* node are left out.                                                      *)
(***************************************************************************)
EXTENDS Integers, Sequences, FiniteSets, FiniteSetsExt, Functions

CONSTANTS
    Addrs,         \* addresses
    Seed,          \* opening balances of the default accounts
    InitialBalances, \* of CreateAccount
    Values,        \* amounts of transfers
    Calls,         \* goroutines that serve Transfer
    Streams,       \* goroutines that serve SubscribeLogs
    Limit,         \* rows of one query of SubscribeLogs (200)
    MaxTransfers,  \* bound: rows of transactions
    MaxRestarts    \* bound: restarts of the process

ASSUME EthTxAssumption ==
    /\ DOMAIN Seed \subseteq Addrs /\ IsFiniteSet(DOMAIN Seed)
    /\ \A a \in DOMAIN Seed : Seed[a] \in Nat
    /\ InitialBalances \subseteq Nat
    /\ Values \subseteq Nat \ {0}
    /\ Limit \in Nat \ {0}
    /\ {MaxTransfers, MaxRestarts} \subseteq Nat

VARIABLES
    db,            \* MySQL was reached; else memory mode
    account,       \* accounts
    transactions,  \* transactions, in the order of their commits
    issued,        \* sum of the opening balances so far
    logs,          \* event_logs, in the order of their commits
    nextId,        \* AUTO_INCREMENT of event_logs
    call,          \* what each Transfer holds
    stream,        \* lastID and the ids sent, of each SubscribeLogs
    restarts       \* restarts so far

ethVars == <<db, account, transactions, issued, logs, nextId, call, stream, restarts>>
eventLog == <<logs, nextId>>

None == [balance |-> -1, nonce |-> 0]
Exists(a) == account[a] # None

NoCall == [pc |-> "idle", from |-> "", to |-> "", value |-> 0, fromRow |-> None, toRow |-> None, tx |-> 0, id |-> 0]
NewStream == [lastID |-> 0, sent |-> {}]

(* INSERT of the default accounts that are not there.                      *)
seedDefaultAccountsDB(accounts) ==
    [a \in Addrs |-> IF a \in DOMAIN Seed /\ accounts[a] = None THEN [balance |-> Seed[a], nonce |-> 0]
                     ELSE accounts[a]]

(* The maps of the memory mode start empty, too.                           *)
seedDefaultAccounts == seedDefaultAccountsDB([a \in Addrs |-> None])

EthTxInit ==
    /\ db \in BOOLEAN
    /\ account = seedDefaultAccounts
    /\ transactions = <<>>
    /\ issued = SumFunction(Seed)
    /\ logs = <<>>
    /\ nextId = 1
    /\ call = [c \in Calls |-> NoCall]
    /\ stream = [s \in Streams |-> NewStream]
    /\ restarts = 0

-----------------------------------------------------------------------------
(* Row and gap locks of the transactions.                                  *)
HoldsRow(c, a) ==
    \/ call[c].pc \in {"to", "write"} /\ call[c].from = a
    \/ call[c].pc = "write" /\ call[c].toRow # None /\ call[c].to = a

HoldsGap(c, a) == call[c].pc = "write" /\ call[c].toRow = None /\ call[c].to = a

(* What c asks for is held by d.                                           *)
WaitsFor(c, d) ==
    /\ c # d
    /\ \/ call[c].pc = "from" /\ HoldsRow(d, call[c].from)
       \/ call[c].pc = "to" /\ HoldsRow(d, call[c].to)
       \/ call[c].pc = "write" /\ call[c].toRow = None /\ HoldsGap(d, call[c].to)

Waits(c) == \E d \in Calls : WaitsFor(c, d)

(* s.mu, which only the Transfer of the memory mode holds beyond a step.   *)
MuLocked == \E c \in Calls : call[c].pc = "mu"

-----------------------------------------------------------------------------
(* The INSERT of createAccountDB fails if there is such an account and     *)
(* waits for the gap locks of transfers.                                   *)
createAccountDB(a) == ~Exists(a) /\ \A c \in Calls : ~HoldsGap(c, a)

(* CreateAccount, in either mode.                                          *)
CreateAccount(a, b) ==
    /\ createAccountDB(a)
    /\ ~MuLocked
    /\ account' = [account EXCEPT ![a] = [balance |-> b, nonce |-> 0]]
    /\ issued' = issued + b
    /\ UNCHANGED <<db, transactions, eventLog, call, stream, restarts>>

Arrive(c, from, to, value) ==
    /\ db
    /\ call[c].pc = "idle"
    /\ Len(transactions) + Cardinality({d \in Calls : call[d].pc \in {"from", "to", "write"}}) < MaxTransfers
    /\ call' = [call EXCEPT ![c] = [NoCall EXCEPT !.pc = "from", !.from = from, !.to = to, !.value = value]]
    /\ UNCHANGED <<db, account, transactions, issued, eventLog, stream, restarts>>

(* Mutant: from and to may be the same.                                    *)
TransferToSelf(c, from, to, value) == Arrive(c, from, to, value)

(* Transfer with MySQL, up to BeginTx.                                     *)
Transfer(c, from, to, value) == from # to /\ Arrive(c, from, to, value)

Sufficient(c) == Exists(call[c].from) /\ account[call[c].from].balance >= call[c].value

(* The first SELECT ... FOR UPDATE.                                        *)
LockFrom(c) ==
    /\ call[c].pc = "from"
    /\ ~Waits(c)
    /\ Sufficient(c)
    /\ call' = [call EXCEPT ![c].pc = "to", ![c].fromRow = account[call[c].from]]
    /\ UNCHANGED <<db, account, transactions, issued, eventLog, stream, restarts>>

(* Mutant: a call without the money waits for it.                          *)
RefuseUnknown(c) ==
    /\ call[c].pc = "from"
    /\ ~Waits(c)
    /\ ~Exists(call[c].from)
    /\ call' = [call EXCEPT ![c] = NoCall]
    /\ UNCHANGED <<db, account, transactions, issued, eventLog, stream, restarts>>

(* There is no such account, or too little on it.                          *)
Refuse(c) ==
    /\ call[c].pc = "from"
    /\ ~Waits(c)
    /\ ~Sufficient(c)
    /\ call' = [call EXCEPT ![c] = NoCall]
    /\ UNCHANGED <<db, account, transactions, issued, eventLog, stream, restarts>>

(* The second SELECT ... FOR UPDATE.                                       *)
LockTo(c) ==
    /\ call[c].pc = "to"
    /\ ~Waits(c)
    /\ call' = [call EXCEPT ![c].pc = "write", ![c].toRow = account[call[c].to]]
    /\ UNCHANGED <<db, account, transactions, issued, eventLog, stream, restarts>>

Credited(row, value) ==
    IF row = None THEN [balance |-> value, nonce |-> 0] ELSE [row EXCEPT !.balance = @ + value]

Debited(row, value) == [balance |-> row.balance - value, nonce |-> row.nonce + 1]

(* Both accounts from what was read, the transaction, Commit.              *)
transferDB(c) ==
    LET p == call[c]
        fromRow == Debited(p.fromRow, p.value)
    IN  /\ p.pc = "write"
        /\ ~Waits(c)
        /\ account' = [account EXCEPT ![p.from] = fromRow, ![p.to] = Credited(p.toRow, p.value)]
        /\ transactions' = Append(transactions, [from |-> p.from, to |-> p.to, value |-> p.value, nonce |-> fromRow.nonce])
        /\ call' = [call EXCEPT ![c] = [NoCall EXCEPT !.pc = "log", !.tx = Len(transactions')]]
        /\ UNCHANGED <<db, issued, eventLog, stream, restarts>>

(* An error, a client that gives up or the end of a deadlock rolls back.   *)
Rollback(c) ==
    /\ call[c].pc \in {"from", "to", "write"}
    /\ call' = [call EXCEPT ![c] = NoCall]
    /\ UNCHANGED <<db, account, transactions, issued, eventLog, stream, restarts>>

(* InnoDB ends a transaction of a cycle of waiting ones.                   *)
DeadlockVictim(c) ==
    /\ \E S \in SUBSET Calls :
          /\ c \in S
          /\ \A x \in S : (\E y \in S : WaitsFor(x, y)) /\ (\E y \in S : WaitsFor(y, x))
    /\ Rollback(c)

-----------------------------------------------------------------------------
(* appendEventLog: the INSERT draws its id ...                             *)
DrawLogId(c) ==
    /\ call[c].pc = "log"
    /\ call' = [call EXCEPT ![c].pc = "insert", ![c].id = nextId]
    /\ nextId' = nextId + 1
    /\ UNCHANGED <<db, account, transactions, issued, logs, stream, restarts>>

Logged(c) == logs' = Append(logs, [id |-> call[c].id, tx |-> call[c].tx])

(* ... and commits, perhaps after one with a larger id; Transfer returns.  *)
InsertLog(c) ==
    /\ call[c].pc = "insert"
    /\ Logged(c)
    /\ call' = [call EXCEPT ![c] = NoCall]
    /\ UNCHANGED <<db, account, transactions, issued, nextId, stream, restarts>>

(* An error of appendEventLog is printed; Transfer returns.                *)
LoseLog(c) ==
    /\ call[c].pc \in {"log", "insert"}
    /\ call' = [call EXCEPT ![c] = NoCall]
    /\ UNCHANGED <<db, account, transactions, issued, eventLog, stream, restarts>>

-----------------------------------------------------------------------------
(* Transfer in memory mode: the payee's account is made before the balance *)
(* is compared.  appendEventLog then locks mu, which Transfer holds until  *)
(* it returns.                                                             *)
TransferMem(c, from, to, value) ==
    LET toRow == Credited(account[to], 0)
        fromRow == Debited(account[from], value)
    IN  /\ ~db
        /\ ~MuLocked
        /\ from # to
        /\ Exists(from)
        /\ Len(transactions) < MaxTransfers
        /\ \/ /\ account[from].balance < value
              /\ account' = [account EXCEPT ![to] = toRow]
              /\ UNCHANGED <<transactions, call>>
           \/ /\ account[from].balance >= value
              /\ account' = [account EXCEPT ![from] = fromRow, ![to] = Credited(toRow, value)]
              /\ transactions' = Append(transactions, [from |-> from, to |-> to, value |-> value,
                                                       nonce |-> fromRow.nonce])
              /\ call' = [call EXCEPT ![c].pc = "mu"]
        /\ UNCHANGED <<db, issued, eventLog, stream, restarts>>

-----------------------------------------------------------------------------
LogIds == {logs[i].id : i \in DOMAIN logs}

(* The rows of one query of SubscribeLogs.                                 *)
Batch(s) ==
    LET new == {n \in LogIds : n > stream[s].lastID}
    IN  {n \in new : Cardinality({m \in new : m < n}) < Limit}

(* Mutant: lastID is the last id there is.                                 *)
PollToEnd(s) ==
    /\ Batch(s) # {}
    /\ stream' = [stream EXCEPT ![s] = [lastID |-> Max(LogIds), sent |-> @.sent \union Batch(s)]]
    /\ UNCHANGED <<db, account, transactions, issued, eventLog, call, restarts>>

(* SubscribeLogs at a tick: lastID is the last id that was sent.           *)
Poll(s) ==
    /\ Batch(s) # {}
    /\ stream' = [stream EXCEPT ![s] = [lastID |-> Max(Batch(s)), sent |-> @.sent \union Batch(s)]]
    /\ UNCHANGED <<db, account, transactions, issued, eventLog, call, restarts>>

(* The stream breaks; the client subscribes again and gets all from the    *)
(* beginning.                                                              *)
Resubscribe(s) ==
    /\ stream[s] # NewStream
    /\ stream' = [stream EXCEPT ![s] = NewStream]
    /\ UNCHANGED <<db, account, transactions, issued, eventLog, call, restarts>>

(* The process stops and starts in the same mode (main).  (In the other    *)
(* mode it works on other data, like another instance of this module.)     *)
Restart ==
    /\ restarts < MaxRestarts
    /\ restarts' = restarts + 1
    /\ call' = [c \in Calls |-> NoCall]
    /\ stream' = [s \in Streams |-> NewStream]
    /\ \/ db /\ account' = seedDefaultAccountsDB(account) /\ UNCHANGED <<transactions, issued>>
       \/ ~db /\ account' = seedDefaultAccounts /\ transactions' = <<>> /\ issued' = SumFunction(Seed)
    /\ UNCHANGED <<db, eventLog>>

-----------------------------------------------------------------------------
(* What the goroutine of a call does by itself.                            *)
Proceed(c) ==
    \/ LockFrom(c) \/ Refuse(c) \/ LockTo(c) \/ transferDB(c)
    \/ DrawLogId(c) \/ InsertLog(c)

EthTxNext ==
    \/ \E a \in Addrs, b \in InitialBalances : CreateAccount(a, b)
    \/ \E c \in Calls :
          \/ \E from, to \in Addrs, v \in Values : Transfer(c, from, to, v) \/ TransferMem(c, from, to, v)
          \/ Proceed(c) \/ Rollback(c) \/ LoseLog(c)
    \/ \E s \in Streams : Poll(s) \/ Resubscribe(s)
    \/ Restart

(* A call goes on when it can, InnoDB serves waiting transactions in their *)
(* order, hence strong fairness, and ends deadlocks.                       *)
EthTxFairness ==
    /\ \A c \in Calls : SF_ethVars(Proceed(c))
    /\ WF_ethVars(\E c \in Calls : DeadlockVictim(c))

EthTxSpec == EthTxInit /\ [][EthTxNext]_ethVars /\ EthTxFairness

-----------------------------------------------------------------------------
Row == [balance : Nat, nonce : Nat] \union {None}

Tx == [from : Addrs, to : Addrs, value : Values, nonce : Nat]

CallState ==
    [pc : {"idle", "from", "to", "write", "log", "insert", "mu"},
     from : Addrs \union {""}, to : Addrs \union {""}, value : Values \union {0},
     fromRow : Row, toRow : Row, tx : Nat, id : Nat]

EthTxTypeOK ==
    /\ db \in BOOLEAN
    /\ account \in [Addrs -> Row]
    /\ transactions \in Seq(Tx)
    /\ logs \in Seq([id : Nat \ {0}, tx : Nat])
    /\ nextId \in Nat \ {0}
    /\ call \in [Calls -> CallState]
    /\ stream \in [Streams -> [lastID : Nat, sent : SUBSET Nat]]

(* The nonces of an account's transfers are 1, 2, ... up to its nonce.     *)
NoncesCount ==
    \A a \in Addrs :
        LET from == {i \in DOMAIN transactions : transactions[i].from = a}
        IN  /\ {transactions[i].nonce : i \in from} = 1..account[a].nonce
            /\ Cardinality(from) = account[a].nonce

Opened == {a \in Addrs : Exists(a)}

BalancesAddUp == SumFunction([a \in Opened |-> account[a].balance]) = issued

(* The accounts are what the transfers say: the balances add up to what    *)
(* the accounts were opened with, and the nonces of an account's transfers *)
(* are 1, 2, ... up to its nonce, though both rows are written from what   *)
(* was read earlier, the payee's may be inserted by two transfers, and     *)
(* the default accounts are seeded at each start (transferDB, Transfer).   *)
AccountsReconcile == BalancesAddUp /\ NoncesCount

(* SubscribeLogs passes over an event for good only if one with a larger   *)
(* id was committed first: batches lose nothing.                           *)
OnlyOvertakenIsMissed ==
    \A s \in Streams, i \in DOMAIN logs :
        logs[i].id <= stream[s].lastID /\ logs[i].id \notin stream[s].sent
            => \E j \in 1..(i - 1) : logs[j].id > logs[i].id

(* With MySQL every Transfer returns, opposite transfers that wait for     *)
(* each other and two that insert the same payee included.  (In memory     *)
(* mode none that moves money does.)                                       *)
TransfersReturn ==
    \A c \in Calls : call[c].pc # "idle" /\ db ~> call[c].pc = "idle"

-----------------------------------------------------------------------------
(* The inductive invariant.  What a transfer read FOR UPDATE is what the   *)
(* table holds until it commits, ...                                       *)
ReadsAreFresh ==
    \A c \in Calls :
        /\ call[c].pc \in {"from", "to", "write"} =>
              /\ db /\ call[c].from # call[c].to
              /\ call[c].from \in Addrs /\ call[c].to \in Addrs /\ call[c].value \in Values
        /\ call[c].pc \in {"to", "write"} =>
              call[c].fromRow = account[call[c].from] /\ call[c].fromRow.balance >= call[c].value
        /\ call[c].pc = "write" => call[c].toRow = account[call[c].to]

(* ... because nobody else holds the lock of a row ...                     *)
LocksExclude ==
    \A c, d \in Calls, a \in Addrs : HoldsRow(c, a) /\ HoldsRow(d, a) => c = d

(* ... and an id of event_logs is drawn once and sent after its commit.    *)
IdsAreDrawnOnce ==
    /\ \A i \in DOMAIN logs : logs[i].id < nextId
    /\ \A c \in Calls : call[c].pc = "insert" =>
          /\ 0 < call[c].id /\ call[c].id < nextId /\ call[c].id \notin LogIds
          /\ \A d \in Calls : call[d].pc = "insert" /\ call[d].id = call[c].id => c = d
    /\ \A s \in Streams : stream[s].lastID \in LogIds \union {0}

EthTxInv ==
    EthTxTypeOK /\ ReadsAreFresh /\ LocksExclude /\ IdsAreDrawnOnce /\ NoncesCount /\ OnlyOvertakenIsMissed

(* Relative to it, what keeps the balances adding up: the accounts are     *)
(* finitely many, and the default ones are there, so that a restart with   *)
(* MySQL issues nothing.                                                   *)
MoneyInv == DOMAIN Seed \subseteq Opened /\ IsFiniteSet(Opened) /\ BalancesAddUp
=============================================================================
