# A TLA+ model of chain-backend

`cmd/chain-backend` is one Go process that watches an Ethereum chain, keeps an
off-chain ledger for exchange users, sends and follows transactions, and tells
merchants about deposits and payments over webhooks. Everything that must
survive a restart is in MySQL; an optional Redis serves as a cache and as a lock.
Inside the process many goroutines work on the same tables: indexer workers,
broadcast loops, the transaction tracker, reconcilers, webhook workers and HTTP
handlers. The only test in the repository is of the protocol buffers, so what
these goroutines do to each other has never been exercised. That is what the
modules here are about.

Paths in this file are relative to `src/internal/` unless they start elsewhere.

## 1. Inventory

| component | state | operations | talks to |
|---|---|---|---|
| off-chain ledger, `exchange/ledger.go` | `user_ledger_accounts` (available, frozen), `ledger_entries` | `applyLedgerTx` and its seven callers | called inside the transactions of deposits, withdrawals, payments |
| deposits, `exchange/deposit.go` | `deposits` | `captureAndCredit`, `HandleReorgTx` | called by the indexer in its transaction; writes ledger and outbox |
| withdrawals, `exchange/service.go`, `worker.go` | `withdraw_requests` | create, approve, reject, broadcast loop, confirmed/failed callbacks | HTTP in, `tx.Service` out, callbacks from `tx.Tracker`, writes the ledger |
| merchant payments, `webhook/service.go` | `webhook_merchants`, `webhook_bindings`, `merchant_payments` | `RegisterMerchant`, `CreatePayment` | HTTP in, writes ledger and outbox |
| webhook delivery, `webhook/worker.go` | `webhook_outbox`, `webhook_deliveries` | claim, post, mark, retry, requeue | HTTP to merchants |
| transaction sending, `tx/service.go`, `nonce.go`, `reconcile.go` | `tx_tracker`, `wallet_nonce` | send, submit raw, speed up, reconcile | the node |
| transaction tracker, `tx/tracker.go` | `tx_tracker` | `trackOne` from the poll loop and from `RefreshOne` | the node, callbacks to withdrawals |
| block indexer, `indexer/` | `synced_blocks`, `sync_pending_headers`, `indexer_checkpoints`, channel `jobs`, lock in the cache | enqueue, recover, backfill, gap scan, `syncBlock`, reorganisation | the node, the cache, deposits |
| wallets and balances, `balance/`, `api/handlers_wallet.go` | `custodial_wallets`, `account_balances`, in-memory registry | register, enable, reload, refresh, backfill | HTTP in, the node, the indexer asks the registry whose deposit it sees |
| header pipeline and shutdown, `eth/listener.go`, `pipeline/bus.go`, `src/cmd/chain-backend/main.go` | subscriptions, channels `headerCh` and `transferCh`, counters, last summaries | subscribe, submit, take, close, stop | node in, indexer and statistics out, signals |
| demo chain server, `src/cmd/web3-grpc-server` (a program of its own) | `accounts`, `transactions`, `event_logs`, or maps under a mutex | create account, transfer, subscribe to events | gRPC in |
| the rest | | HTTP and gRPC front ends, configuration, signer, user store, crawler, demo programs, generated code | |

What makes each of them hard, and the properties that make it correct:

* **Ledger.** Two balances and a journal, changed inside transactions that
  somebody else begins and rolls back. Correct: the journal explains the
  account (`JournalReplays`), nothing is promised twice (`NoOverdraft`), and what
  users own is what came in less what went out (`BooksBalance`), or less if two
  first credits of a new user overwrote each other.
* **Deposits.** A block may be reorganised away and come back, and several
  workers handle it at once. Correct: one credit and one reversal
  at most (`CreditedOnce`), row, credit and event agree
  (`RowCreditEventAgree`; the event may be that of a payment which had the key
  first), and an account never holds more than its journal says,
  and exactly that if it existed before (`AccountWithinJournal`).
* **Withdrawals.** A chain of single statements, each of which can be the last
  one before the process stops, and callbacks that act on what was read
  earlier. Correct: sent by one broadcaster (`ClaimExclusive`), never handed back
  once a transaction exists (`PaidNeverReleased`), debited only for a mined
  transaction (`DebitFollowsPayment`), never reopened (`SettledStaysSettled`),
  and all in all a payout (`ImplementsPayout`).
* **Payments.** Clients retry with the same or with shared keys while the
  merchant is re-registered, and the keys they choose are in one namespace with those
  of deposits. Correct: `PaidOnce`, `EventPerPayment`.
* **Webhook delivery.** Lost answers, restarts, requeueing of what is in flight.
  Correct: `InOneHand`, `DoneIsAnswered`, `RetryBudget`, `EventuallySettled`.
* **Sending.** Row first, then broadcast, with a nonce allocator that is moved
  back by failures, and replacements signed from what the row says. Correct:
  `NonceUnique`, `UnkeyedIsTracked`, `PaidInFull`, `BroadcastSettles`.
* **Tracker.** Unconditional updates with stale values. Correct: `StatusIsTrue`,
  `FinalIsReported`.
* **Indexer.** Four sources of heights, a lock that can expire, a checkpoint
  read outside its transaction, reorganisations, errors that are ignored. Correct:
  `AnnouncedIsKept`, `OrphanIsNotCredited`, `StoredConverges`, and a confirmed
  block comes to lack its credit only if a later one overtakes it or its receipts
  cannot be read (`UncreditedIsOvertaken`).
* **Header pipeline and shutdown.** One signal, and listeners, closer, workers and
  main each notice it in their own time. Correct: what a channel accepted is
  counted before the exit (`ExitIsDrained`), what passed the bus is with the
  indexer (`PassedIsKept`), a send on a closed channel needs a signal
  (`PanicsOnlyWhenStopping`), and the process ends (`ShutdownEnds`).
* **Wallets.** Handlers read, test and write in single statements while the cache
  of the table is replaced under them. Correct: a deposit wallet keeps its owner
  (`OwnerIsFixed`), also in stale caches (`RegistryNamesOwner`), and caches and
  snapshots catch up (`RegistryConverges`, `SnapshotsConverge`).
* **Demo chain server.** Transfers lock two rows in the order payer, payee, one of
  which may be missing; events are written after the commit. Correct:
  `AccountsReconcile`, `OnlyOvertakenIsMissed`, `TransfersReturn`.

`PROJECT.json` lists every component, the definitions with the lines they model,
and the hazards with the line where each bites.

## 2. Modules

| module | models | uses |
|---|---|---|
| `Ledger` | accounts and journal; the operations are functions from ledger to ledger, because the code applies one or two of them in a caller's transaction | |
| `Outbox` | `InsertOutboxTx`, the unique key of `webhook_outbox`, and the keys and event types of its two writers | |
| `Deposit` | capture, first credit, orphaning and reversal, and the bindings that say whom to tell | `Ledger`, `Outbox` |
| `Withdraw` | requests from creation to settlement, with what the exchange sees of `internal/tx` | `Ledger`, `Payout` |
| `Payout` | abstract: money of a request is none, held, then released or spent | |
| `Payment` | merchants and payments | `Ledger`, `Outbox` |
| `Exchange` | deposits, withdrawals and payments on one ledger and one outbox | `Deposit`, `Withdraw`, `Payment` |
| `Webhook` | delivery of outbox items | |
| `TxNode` | `tx_tracker` rows, signed transactions, and the node (external) | |
| `TxSend` | the handlers of transactions, signing of both kinds and of replacements, nonce allocation, reconciler | `TxNode` |
| `TxTracker` | `trackOne` by several goroutines | `TxNode` |
| `Indexer` | headers, workers, reorganisations, confirmation | |
| `Pipeline` | listener loops, channels, workers, and how `chain-backend` stops | |
| `Wallet` | custodial wallets, the registry of each instance, balance snapshots | |
| `EthTxService` | accounts, transfers and event streams of the demo chain server, with the locks of InnoDB (external) | |
| `SumProofs` | lemmas on sums over finite sets (`SumFunctionOnSet`) | |
| `LedgerProofs` | lemmas on the ledger, theorems about payments, withdrawals, their refinement of `Payout`, and deposits, each on its own | `Payment`, `Withdraw`, `Deposit`, `SumProofs` |
| `ExchangeProofs` | theorems about the three on one ledger | `Exchange`, `LedgerProofs` |
| `TxProofs` | theorems about sending and following transactions | `TxSend`, `TxTracker` |
| `StoreProofs` | theorems about the indexer and about the wallets, which share no state | `Indexer`, `Wallet` |
| `WebhookProofs`, `PipelineProofs`, `EthTxServiceProofs` | theorems about the module they are named after | |
| `MC*` | values of the constants | |

**Granularity.** A step is what the database makes atomic: a transaction from
its first row lock to its commit, or a single autocommitted statement. A read that
locks nothing and whose value is used later is a step of its own, and what was read is
in a per-goroutine variable (`worker`, `broadcaster`, `handler`, `client`,
`task`, `agent`, `tracker`, `reloader`, `refresher`, `call`, `loop`). Where a statement can fail or the process can stop,
there is an action that drops this variable and leaves the tables as they are
(`Rollback`, `AbandonBroadcast`, `EndTrack`, `EndPayment`, `MarkError`,
`CutOff`, `WriteError`, `Fail`, `EndRequest`, `RefreshError`, `LoseLog`, `Restart`), and
where the code goes on after an error, one that does so (`IgnoredError` in `Indexer` and in
`TxSend`). A reorganisation is three steps in `Indexer`: the read of the parent, the
transaction, and the block sent to the workers again. Where the reconciler counts a retry and
marks the row, two statements are one step (`MarkBroadcastFailed`), because nobody else reads
the count; that one of them fails is `IgnoredError`.

**Isolation.** The transactions of `indexer` and `webhook` ask for READ
COMMITTED, and that is what `Deposit` and `Indexer` model: a locking read of a
missing row locks nothing (`BeginFirstCredit`), a plain SELECT sees what is
committed when it runs (`BeginReorg`). Those of `exchange` run with the
server's default. `insertWithdrawTx` reads the row it has just inserted through
another connection, which only a READ UNCOMMITTED server allows; the constant
`ReadUncommitted` of `Withdraw` states this, and is TRUE in the runs because with
FALSE no request ever exists. The transfers of `web3-grpc-server` run at InnoDB's
default, REPEATABLE READ: a locking read of a missing row takes a gap lock that
two transactions can share and that keeps both from inserting, so that InnoDB
has to end one of them (`WaitsFor`, `DeadlockVictim`).

**Data.** Wei strings are naturals, a user is a (user, token) pair, addresses,
hashes, payloads and signatures are left out. A block holds one deposit, its hash
is the number of the reorganisation that made it. A transaction is its
index in `signed`; in `TxSend` it has its kind, the amount it moves and the
`value_wei` that its row gets, which are not the same for a token; fees, recipients
and encodings are left out. An event of `Pipeline` is its number in its stream. Time is reduced to what the
code compares: `due` in `Webhook` (backoff is over), "old enough to be dropped"
in `TxTracker` (may hold whenever the receipt is missing), `ExpireLock` in
`Indexer`.

**Interfaces.** `Withdraw` keeps of `internal/tx` whether a transaction exists,
whether the node has it and whether the tracker polls it; the tracker may drop a
row whenever its receipt is missing, as in `TxTracker`. `Indexer` keeps of
`Deposit` which blocks are credited. The outbox of `Deposit` and
`Payment` is what `Webhook.InsertOutbox` puts there. Each of the two writes it among the
events of the other, of which it keeps the key and the type (`PaymentEvent` in `DepositSpec`,
`DepositEvent` in `PaymentSpec`): a client may choose any key, that of a deposit and
the default key of another order included (`ClientKeys`). In `Exchange` both are there in full. What `Pipeline` calls kept is
what `Indexer.EnqueueHeader` stores.

A type invariant (`...TypeOK`) that no run and no theorem names is there to say
what the variables of its module hold.

Definitions called "Mutant" in a comment are wrong variants of the
definition below them; nothing uses them except the mutation checks listed in
`PROJECT.json`, each of which makes one property fail.

## 3. Model checking

`tlc -workers 2 -config MCX.cfg MCX` checks a run.

| run | instance | states | what it shows |
|---|---|---|---|
| `deposit` | 2 workers, 3 deposits (one of a user with an account row and two merchants, two of one with neither), 2 blocks, a binding of the second user at any time, a client who may pay with a deposit's key | 1.04 M | no order of capture, first credit, orphaning, re-capture, binding and payment doubles a credit or a reversal, separates row, credit and event, or puts more into an account than its journal explains |
| `withdraw` | `ExchangeSpec` without deposits and payments: 2 users, one of whom can pay for two requests, 2 requests, 2 broadcasters, 2 tracker goroutines, failures at every statement | 559 k | the properties of withdrawals, the refinement of `Payout`, and that nothing is promised twice although requests are debited twice |
| `payment` | 2 clients, 2 merchants, one order, default keys, another order's and a deposit's, 2 payments, the deposit's event at any time | 1.07 M | one charge per order, one event per key and whose it is, self-payments and re-registration included |
| `exchange` | 1 deposit, 1 request, 1 payment, one of each goroutine | 564 k | the journals replay to the accounts, liabilities equal income less debits (all users have account rows here), and nothing is promised twice, whatever is mixed with what |
| `webhook` | 2 items, 2 workers, batches of 1, so that the second item waits behind the first, concurrency 1, 2 retries, 1 requeue each, items inserted singly or together | 227 k | at least once, bounded by the retries, never forgotten |
| `tx_send` | 2 calls (the first sends a token, the second native coins), the reconciler, one key, one retry | 524 k | nonces are signed once, rows precede broadcasts, what reaches the node moves what was asked for, no row stays unsent with retries left |
| `tx_track` | the poll loop and one refresh, 2 transactions, nonces 0 and 1 | 58 k | final statuses are true and are reached |
| `wallet` | 1 address, 2 users, 2 handlers, 3 requests, the reload, the backfill and one more refresh, one change of the balance | 947 k | no order of registrations changes an owner, in the table or in the cache, and cache and snapshot become what they copy |
| `transfer` | 3 accounts, 2 calls, 3 transfers, 1 stream with batches of 1, 1 restart, both modes | 202 k | no order of locks, deadlocks, rollbacks and restarts makes or loses money or a nonce; with MySQL every call returns |
| `indexer` | 2 workers, 2 blocks, 1 reorganisation, 2 faults, channel of 1 | 581 k | headers survive, orphaned blocks keep no credit, only blocks that are overtaken or have no receipts miss theirs, the stored chain becomes the chain |
| `shutdown` | 2 header workers, 1 transfer worker, channels of 1, 2 headers, 1 log, 1 gRPC call, with and without indexer | 783 k | whenever the signal comes, the process ends, with the channels drained or in a panic that only the signal makes possible |

**Why the bounds are enough to see the interesting cases.** Every race in this
code is between two holders of a stale value, so two workers, broadcasters,
handlers or clients are the smallest instance with all of them; two rows let one
goroutine hold one while another works on the second, and let the money of one
request be taken for the other: in `withdraw` two callbacks that confirm one request debit
it twice, out of what is frozen for the other request of the same user. `deposit` has
two deposits of a user without an account, so that two first credits meet and a
reversal loop runs more than once, and one of a user with an account. `tx_send` lets the
first call send a token, so that the second may speed it up; with either kind first it takes too
long to be one of the runs. `shutdown` has more headers than
a channel and more events than `lasts` holds. In `indexer` a block is
at the head or too young for the comparison in `syncBlock`; that it is deep enough takes a chain
higher than the confirmation depth, for which there is the theorem `OnlyOvertakenIsUncredited`.
The window of the gap scan covers every height of the run, so its lower end is not reached;
the channel overflows with two heights; two faults allow an expired lock followed by
a failure. `webhook` has batches of one because with batches of two no item
waits behind another one; with those, where a worker waits for its slowest item, the
properties were checked, too. `exchange` composes the three parts with one of everything, because
each part has been checked alone with two. Every action fires in some run. The bounds are constants in the
guards (`MaxWithdraws`, `MaxFreezes`, `MaxPayments`, `MaxRequeues`, `MaxCalls`,
`MaxHeight`, `MaxReorgs`, `MaxFaults`, `MaxRequests`, `MaxMoves`, `MaxTransfers`,
`MaxRestarts`, `MaxEvents`, `KindsOf`, `MaxBindings`). Wallets of different addresses share nothing but the map that
`Reload` replaces as a whole, so `wallet` has one address; a handler of another instance
does to it what one does that ends before its `Upsert`. `transfer` has
two funded accounts that can pay each other and a third that both can create. Deadlock checking is off where
the bounded system may come to rest with all requests settled.

Symmetry is used where the goroutines are interchangeable and no liveness
property is checked (`deposit`, where the merchants are, too, `withdraw`, `payment`).

**Fairness**, stated in the modules with its reason:

* `Webhook`: weak, of each worker's own steps and of the passing of time. Go
  runs a goroutine that can run and `Dispatcher.Post` has a timeout. Nothing is
  assumed of merchants, administrators, failing updates or restarts.
* `TxSend`: weak for the reconciler's ticker, strong for its broadcast and for the statement after
  it, that is, MySQL and restarts do not end every turn at the same place. Nothing is
  assumed of the calls, the network, the clients or the tracker.
* `TxTracker`: the poll loop runs, comes back to every row (its batch is
  larger than the number of rows here), and neither the node nor MySQL fails
  every time it is asked about one row. The last is an assumption on the
  environment; without it nothing could be reported.
* `Indexer`: weak for the workers, the gap scan and the expiry of a lock whose process is gone; strong for
  sending a height, since the channel is not full at every tick. Nothing is assumed of subscription and backfill.
* `Wallet`: weak for the tickers of reload and backfill; strong for storing a balance the
  backfill has fetched, that is, the node and MySQL do not fail every time. Nothing is
  assumed of handlers and other refreshes.
* `EthTxService`: strong for the steps of a call, because InnoDB serves waiting
  transactions in their order; weak for the resolution of deadlocks.
* `Pipeline`: weak for the workers, the closer of the channels, main, and the end
  of a running gRPC call, since its client gives up or the node answers. Nothing is
  assumed of the listener, for which main does not wait, of the node or of the user.

### Where the code and its comments disagree

One run is expected to fail: it checks a property that states what a comment
promises, and the counterexample is what the code does.

* `unfreeze` (`FailedIsUnfrozen`): `hasLedgerEntryTx` asks for
  `ref_type = 'deposit'` whatever it looks for (`exchange/store.go:139`), so the
  freeze of a failed withdrawal is never found and never undone.

### What the properties do not claim

Some behaviours are in the models (where not said otherwise) and break what one would like to state; there
is no run for them, and the properties above are the ones that hold in
spite of them:

* a deposit that was credited, orphaned and mined again is marked credited, but
  the money is not booked again: the old credit entry is found
  (`exchange/deposit.go:134`);
* a second raw transaction with a known idempotency key is broadcast, and no row
  has its hash (`tx/service.go:45`), although the comment at `tx/service.go:42` promises it;
* in memory mode the first transfer of `web3-grpc-server` that moves money never
  returns: `appendEventLog` locks the mutex its caller holds
  (`src/cmd/web3-grpc-server/main.go:533`);
* two first credits of one new user start from zero, and one is lost
  (`exchange/ledger.go:109`), which is why `AccountWithinJournal` allows such an
  account to hold less;
* a block stored short of the confirmation depth is confirmed later, without its
  deposits (`indexer/engine.go:289`), although `exchange/deposit.go:50` promises them; and
  a receipt that the node does not give counts as that of a failed transaction (`indexer/engine.go:308`), so that
  the deposit is missed without an error;
  `UncreditedIsOvertaken` says that these are the only ways to miss a credit;
* a reorganisation whose reversal fails on every attempt keeps its block from being stored
  (`exchange/deposit.go:187`); `StoredConverges` allows for a bounded number of failures;
* a payment whose client chooses the key `deposit:7` is charged without an event of its own if deposit 7
  has been reported; if it comes first, deposit 7 is never reported (`webhook/service.go:133` and `:178`,
  a duplicate is no error in `webhook/store.go:134`). `EventPerPayment` and `RowCreditEventAgree` say whose event there is;
* a hot wallet that was registered without an owner can get two of them, one after the other, when two
  handlers race, although `balance/store.go:97` promises that `user_id` never changes; `OwnerIsFixed` is about deposit wallets;
* that the key which signs is that of the row's wallet is taken for granted of `SpeedUp`, which does
  not check it (`tx/service.go:129`), so this is not in the model;
* a sped-up ERC-20 transfer of the service moves no tokens: it is signed for the
  row's `value_wei`, which is 0 (`tx/service.go:139`), so `PaidInFull` leaves it out;
* without MySQL the bus gets a nil engine in an interface that is not nil, and
  the first header panics (`src/cmd/chain-backend/main.go:165`);
* on shutdown a listener may send on a closed channel (`pipeline/bus.go:74`), and
  a second signal is swallowed while `GracefulStop` waits without a timeout
  (`src/cmd/chain-backend/main.go:208`), because `stop` is deferred;
* a deposit committed between the SELECT and the UPDATE of
  `OrphanDepositsFromBlockTx` is orphaned with its credit (`exchange/store.go:203`);
* two goroutines confirm one withdrawal and debit it twice, out of money frozen
  for another (`exchange/service.go:286`);
* a request fails because the send reported an error, and the transaction is
  mined all the same (`exchange/service.go:218`); its money stays frozen only
  because of the wrong `ref_type`, so repairing one exposes the other;
* a repeated request freezes again (`exchange/store.go:139`), journaled like any
  freeze, so nothing is promised twice;
* of several merchants bound to a payer one is told (`webhook/service.go:133`), and
  one bound after the credit is not;
* requests that hold a connection for their transaction and ask the pool for a second
  one can use up the pool (`exchange/service.go:117`); connections are not modelled;
* a tip replaced by a sibling leaves the old block's deposit credited
  (`indexer/engine.go:487`).

## 4. Proofs

`tlapm M.tla` checks the proofs of a module `M` whose name ends in `Proofs`. TLAPS proves the following for
every value of the constants that satisfies the assumptions of the modules: any
users, amounts, keys, addresses and opening balances, any number of goroutines,
handlers, workers and calls, any bound on requests, retries, heights,
reorganisations and faults, any capacity of a channel, every setting of the
switches. The assumptions say that numbers are
numbers (`LedgerAssumption`, `DepositAssumption`, `WithdrawAssumption`, `PaymentAssumption`, `TxAssumption`,
`TxSendAssumption`, `EthTxAssumption`), that there are finitely many users, their keys
being VARCHARs (`ExchangeAssumption`), and finitely many default accounts, a literal of
the program (`EthTxAssumption`), that the poll loop is one of the trackers
(`TrackerAssumption`), that limits the code defaults to a positive value are
positive (`IndexerAssumption`, `WebhookAssumption`, `PipelineAssumption`: `NewBus`
starts finitely many workers and at least one of each kind), that the empty
values are no values, and that a deposit wallet registered at the start has an owner
(`WalletAssumption`).

| theorem | says |
|---|---|
| `WithdrawInvariant` | `WithdrawSpec => []WithdrawInv`, the inductive invariant |
| `WithdrawTypeCorrect` | `[]WithdrawTypeOK`, hence no balance is ever negative |
| `ClaimIsExclusive` | `[]ClaimExclusive` |
| `PaidIsNeverReleased` | `[]PaidNeverReleased` |
| `DebitsFollowPayments` | `[]DebitFollowsPayment` |
| `WithdrawJournalReplays` | `[]JournalReplays` |
| `SettledRequestsStaySettled` | the action property `SettledStaysSettled` |
| `WithdrawImplementsPayout` | `WithdrawSpec => ImplementsPayout` |
| `PaymentInvariant` | `PaymentSpec => []PaymentInv`, the inductive invariant |
| `OrdersPaidOnce` | `[]PaidOnce` |
| `PaymentsAreReported` | `[]EventPerPayment`, whatever deposits write into the same outbox |
| `PaymentsReplay` | `[](LedgerTypeOK /\ JournalReplays)` |
| `DepositInvariant` | `DepositSpec => []DepositInv`, the inductive invariant |
| `DepositsCreditedOnce` | `[]CreditedOnce` |
| `DepositsAreReported` | `[]RowCreditEventAgree`, whatever payments write into the same outbox |
| `NoMoneyFromNothing` | `[]AccountWithinJournal` |
| `DepositLedgerTypeCorrect` | `[]LedgerTypeOK`: no reversal makes a balance negative |
| `ExchangeInvariant` | `ExchangeSpec => []ExchangeInv`, the inductive invariant |
| `BooksAlwaysBalance` | `[]BooksBalance` |
| `NothingIsPromisedTwice` | `[]NoOverdraft` |
| `ExchangeLedgerTypeCorrect` | `[]LedgerTypeOK` |
| `ExchangeReplays` | `[]JournalReplays`, if every user has an account row (`NewUsers = {}`) |
| `ExchangeKeepsDeposits` | `[](CreditedOnce /\ RowCreditEventAgree /\ AccountWithinJournal)` among withdrawals and payments |
| `ExchangeKeepsWithdrawals` | `[](ClaimExclusive /\ PaidNeverReleased /\ DebitFollowsPayment)` among deposits and payments |
| `ExchangeKeepsPayments` | `[](PaidOnce /\ EventPerPayment)` among deposits and withdrawals |
| `ExchangeStaysSettled` | the action property `SettledStaysSettled` of all steps |
| `ExchangeImplementsPayout` | `ExchangeSpec => ImplementsPayout` |
| `TxSendInvariant` | `TxSendSpec => []TxSendInv`, the inductive invariant |
| `NoncesAreUnique` | `[]NonceUnique` |
| `UnkeyedAreTracked` | `[]UnkeyedIsTracked` |
| `PaymentsInFull` | `[]PaidInFull` |
| `TxTrackerInvariant` | `TxTrackerSpec => []TxTrackerInv`, the inductive invariant |
| `StatusesAreTrue` | `[]StatusIsTrue` |
| `IndexerInvariant` | `IndexerSpec => []IndexerInv`, the inductive invariant |
| `HeadersAreNotLost` | `[]AnnouncedIsKept` |
| `OrphansAreReversed` | `[]OrphanIsNotCredited` |
| `OnlyOvertakenIsUncredited` | the action property `UncreditedIsOvertaken` |
| `WebhookInvariant` | `WebhookSpec => []WebhookInv`, the inductive invariant |
| `ClaimsAreExclusive` | `[]InOneHand` |
| `DoneWasAnswered` | `[]DoneIsAnswered` |
| `PostsAreBounded` | `[]RetryBudget` |
| `WalletInvariant` | `WalletSpec => []WalletInv`, the inductive invariant |
| `OwnerNeverChanges` | the action property `OwnerIsFixed` |
| `RegistryIsRight` | `[]RegistryNamesOwner` |
| `PipelineInvariant` | `PipelineSpec => []PipelineInv`, the inductive invariant |
| `ExitDrains` | `[]ExitIsDrained` |
| `PassedAreKept` | `[]PassedIsKept` |
| `PanicsAreLate` | `[]PanicsOnlyWhenStopping` |
| `EthTxInvariant` | `EthTxSpec => []EthTxInv`, the inductive invariant |
| `NoncesAreGapless` | `[]NoncesCount`, a conjunct of `AccountsReconcile` |
| `MoneyInvariant` | `EthTxSpec => []MoneyInv`, inductive relative to `EthTxInv` |
| `AccountsAlwaysReconcile` | `[]AccountsReconcile` |
| `StreamsLoseOnlyOvertaken` | `[]OnlyOvertakenIsMissed` |

Few of the properties are inductive alone. Each module ends with its inductive
invariant, which adds what the goroutines know (that of `Exchange` is in `ExchangeProofs`,
because it is put together from what is proved of the components); its proof module has a
lemma per action.

**Sums and folds.** `SumFunctionOnSet` adds up a function over a finite set by taking
elements one at a time, in an order nobody knows. `SumProofs` shows that the function it
is defined by exists, and that any element may be taken first (`SumWithout`), by assuming a
smallest set for which this fails. From these follow the rules the other proofs use: equal
values have equal sums, one more value or one more entry adds itself, fewer natural numbers
add up to no more. `HandleReorgTx` folds over the deposits it selected; `DepositInv` is
carried through that loop in the same way, by a smallest set for which it would fail.

**Withdrawals.** `WithdrawInv` adds what goroutines know while they hold a request:

* `BroadcastersHold`: a claimed request is broadcasting, held by one broadcaster,
  has no recorded hash, and no transaction before `PersistTx`. The absence of the hash is
  the heart of it: the callbacks find a request by its hash, so
  as long as a broadcaster is at work the tracker cannot settle the request, and
  the unconditional UPDATE at the end of `ProcessApprovedWithdraw` cannot reopen it.
* `HandlersHold`: a callback about to debit belongs to a transaction mined with
  success, although the row was read earlier; and a callback that passed its test
  found the hash.
* `OnlyApprovedIsSent`: a request with a transaction or a hash is past
  review, so no reviewer can reject it.
* `EntriesJustified`: every unfreeze in the journal is of a rejected request,
  every debit of a mined transaction, and no withdrawal entry has `ref_type`
  `deposit`. The last part is why `hasLedgerEntryTx` finds nothing
  (`WithdrawEntriesNotFound`) and why a failure only sets the status (`FailOnlyMarks`);
  a repair of that query would have to change this proof here.
* `ConfirmedIsDebited`: confirmed requests have their debit.

`LedgerProofs` begins with the
lemmas on the ledger (booking one operation that `CanApply` allows keeps the types
and keeps `Replays`), from which `JournalReplays` follows because every
step books at most one operation on the row it has read. Its part on withdrawals ends with
the refinement: from `JournalStep` (a step adds at most one entry to one
journal), from `EntriesJustified` (released and spent exclude each other) and from one
more invariant, `RowsFrozen` (every request has a freeze), each step is a
`Hold`, a `Settle` or a stutter of `Payout`.

**Payments.** `PaymentEntriesKnown` adds that no journal has an entry of a payment
that is not there, so that the id of a new row is fresh and its debit and its credit are
the only entries of that id, also when payer and merchant are one user. `PaidOnce` and
`EventPerPayment` then follow from the two unique keys, which the INSERT of the payment
tests and not the SELECTs before it. For the events, `EventsKeyed` says of the shared table that a key has one
row and that a deposit's row has a deposit's key; so the row a payment finds under its key is
its own, or that of a deposit whose key its client chose (`EventsGood`).

**Deposits.** The ledger is looked at deposit by deposit: a deposit is unbooked, credited, or
credited and reversed (`Stage`), and every write moves one deposit one stage on or leaves all
as they are. `DepositsAreFound` is what makes the tests work: all credits and reversals have the
`ref_type` that `hasLedgerEntryTx` asks for. `CapturesAreNew` is about the one stale value
there is, the account row that a first credit did not find: only a user without a row at the
start has it, and its deposit is in no other hands, so that overwriting can only lose money of
this user (`AccountWithinJournal`, by sums over journals). A row, its entries and the one event with
its key, which may be a payment's, are related by `Agree`, deposit by deposit.

**Exchange.** `ExchangeInv` joins the invariants of the three components. That they survive each
other's steps is shown through `Extends`: a step adds entries of its own types to the journals
and changes none, while every component asks only for entries of its types
(`WithdrawKept`, `StateKept`, `BookedStays`). What cannot be seen by one component is `Balanced`. For
every user, what withdrawals may still take plus what can be spent beyond the credited
deposits is at most the opening balance and the payments (`Safe`): a freeze moves money from the
second to the first, an unfreeze moves it back, and takes the request out first because
a rejected request has no transaction. For all users together, what is owed beyond the credited deposits, plus the
debits, is at most the opening balances (`Kept`). Both say at most because of the lost first
credit, and `Kept` says exactly if no user is new; so does `BooksBalance`. A step of one
component is reduced to its effect on these sums (`BookingEffect`, `DepositEffect`,
`WithdrawEffect`), and the sums are then compared as numbers. The refinement of `Payout` carries over
because steps of the others stutter (`WithdrawalsOrOthers`). What both say of the one outbox carries over by
`EventsKeyed` and `EventsGood`, which hold of any interleaving of the two writers: an insert whose key is taken changes
nothing, and one whose key is free adds the only row with it.

**Sending.** `TxSendInv` relates four pieces of state to the transactions that were
signed. `NoncesGiven`: the custodial ones are below `next_nonce`, which no step lowers.
`RowsHoldSigned`: a row is of a signed transaction and holds that one or another of its
key. `AgentsHoldSigned`: a call or the reconciler broadcasts what was signed, and
without a key only after the row; the reconciler has taken a row with a retry left.
`ValuesKept`: the amounts, for what is not in a block too. `CallsSpent` counts: a call
signs once at most, so there are fewer transactions than nonces up to `MaxCalls`, and
`PendingNonceAt` has an answer (`PendingNonceFound`, by cardinalities). `StepOK` says what
all of this asks of a step; each action is shown to be such a step, and `StepKeeps`
needs no case distinction over actions.

**Following.** `TrackersKnow` is about what a `trackOne` carries from its reads to its
UPDATEs: a status `confirmed` is of a transaction that is final now, and the siblings it
found still share its nonce. The node is the reason: it takes no transaction in place of one in a
block (`AcceptedGoes`), and no step takes back what is final. `failed` and `dropped` say nothing that
lasts, and the invariant claims nothing of them.

**Indexer.** `WorkerHasBlock` (the block in a worker's hands has a height, and its
transaction confirms up to it or nothing) is all that has to be added. `UncreditedIsOvertaken` is a property of
steps: what makes the topmost block miss its credit is a commit without receipts. The channel's bound needs
that a backfill, which sends the lowest heights that fit, sends no more than fit.

**Webhooks.** `HandsCounted` counts the workers that hold an item, `BudgetCovered` the
POSTs that may still follow from the row and from every hand; a requeue pays for
what it allows, also when a worker that was overtaken writes an old count back.

**Wallets.** `ReadFrom` relates a row that was read to the table as it is now: the wallet has
kept its type, and a deposit wallet its owner. It holds of what handlers, reloads and registries carry
(`RequestsTested`, `CopiesRead`), however old that is.

**Pipeline.** `EventsCounted` and `EventsSummarised` are conservation laws: accepted events
are in a channel, in a worker's hands or summarised. `StoppedInOrder` has the order in
which closing, draining and waiting happen, so that at the exit nothing is left in between.
`EventsInOrder` is why an event that is sent on a closed channel has not passed before.

**Demo chain server.** `ReadsAreFresh` says that the rows a transfer carries are those of
the table; it is preserved because of `LocksExclude` for rows that exist and because one of two transfers
that hold the same gap waits for the other (`OthersUntouched`). Nonces count up from there.
`IdsAreDrawnOnce` is what the streams need: `lastID` is the id of a row, so that a row committed
behind it was overtaken by that one; and a batch leaves no gap (`BatchIsPrefix`, by cardinalities).
Money is counted by `MoneyInv`: the rows a transfer writes are those it read, so that it takes from one
what it gives to the other; and the default accounts are there already, so that seeding them again
with MySQL issues nothing.

The inductive invariants have been checked by TLC on the instances of the runs, too
(`ExchangeInv` with positions in a journal in place of `Nat`).

**Only model-checked**, and why: liveness and everything under fairness (`EventuallySettled`,
`BroadcastSettles`, `FinalIsReported`, `StoredConverges`, `RegistryConverges`,
`SnapshotsConverge`, `TransfersReturn`, `ShutdownEnds`), which the prover does not reach. Every invariant and every
action property that a passing run checks is stated by a theorem. With new users
`JournalReplays` is false of deposits, so `ExchangeReplays` assumes that there are none, and the `exchange` run has none;
`AccountWithinJournal` is what holds with them.

## 5. What is not modelled, and the plan

Not modelled because they keep no state of interest: handlers that only read or
only parse and call an operation that is an action here, log
parsing, signer, user store, crawler, load generator, configuration (its values are
the constants), reconciliation reports, generated code. `sync_outbox` is left out
because it only fills a cache, `tx_status_outbox` because its consumer only logs
and its rows would multiply the states of `TxTracker` by more than a hundred.
The demo programs (`src/main.go`, `cmd/concurrency-demo`) and, of `web3-grpc-server`, users
with their bindings and the transactions of a real node are left out too; they
share nothing with `chain-backend`.

Done, in this order: `Ledger`, `Deposit`, `Withdraw`, `Payment`, `Exchange`
(money first), `Webhook`, `TxSend` and `TxTracker`, `Indexer`, `Wallet`,
`EthTxService`, the proofs about `Withdraw`, `Pipeline`, signing and
amounts in `TxSend`, the proofs about `Wallet`, `Webhook`, `Payment`, `Indexer`, `Pipeline`,
`TxSend`, `TxTracker` and `EthTxService`, sums, the proofs about `Deposit` and `Exchange`.

Next:

1. Users and bindings of `web3-grpc-server`; the stream of a node's transactions; the
   registry of `Wallet` as what `Deposit` asks.
