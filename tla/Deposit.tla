------------------------------- MODULE Deposit ------------------------------
(***************************************************************************)
(* Deposits (exchange/deposit.go): captureAndCredit, called by an indexer  *)
(* worker inside the READ COMMITTED transaction of syncBlock, and          *)
(* HandleReorgTx, called inside the one of detectAndHandleReorg.           *)
(*                                                                         *)
(* A transaction is one step from its first row lock to its commit.  Two   *)
(* of its reads lock nothing and are steps of their own:                   *)
(*  - SELECT ... FOR UPDATE of an account row that does not exist (READ    *)
(*    COMMITTED takes no gap lock), between which and the upsert another   *)
(*    worker may create the row;                                           *)
(*  - the plain SELECT of OrphanDepositsFromBlockTx, between which and the *)
(*    UPDATE another worker may commit a deposit.                          *)
(***************************************************************************)
EXTENDS Ledger, Outbox, FiniteSets, FiniteSetsExt

CONSTANTS
    depUser,     \* the user a deposit address belongs to
    depAmount,   \* amount_wei
    Blocks,      \* block numbers
    Workers,     \* indexer workers (Engine.syncWorker)
    Bindings,    \* the merchants bound to each payer at the start
    MaxBindings  \* bound: bindings added

ASSUME DepositAssumption ==
    /\ Deposits \subseteq Nat \ {0}
    /\ depUser \in [Deposits -> Users]
    /\ depAmount \in [Deposits -> Nat \ {0}]
    /\ Blocks \subseteq Nat
    /\ Bindings \in [Users -> SUBSET Merchants]
    /\ MaxBindings \in Nat

VARIABLES
    deposit,     \* table deposits: status and block_number; "none": no row
    binding,     \* table webhook_bindings: the merchants bound to each payer
    worker       \* what each indexer worker has read and not yet written

depositVars == <<ledger, deposit, binding, worker, outbox>>

Idle == [op |-> "idle", dep |-> 0, block |-> 0, deps |-> {}]

DepositInit ==
    /\ LedgerInit
    /\ OutboxInit
    /\ deposit = [d \in Deposits |-> [status |-> "none", block |-> 0]]
    /\ binding = Bindings
    /\ worker = [w \in Workers |-> Idle]

-----------------------------------------------------------------------------
ListBindingsByPayer(u) == binding[u]

(* Mutant: an error of the insert is swallowed.                            *)
EnqueueDepositTxBestEffort(ob, d) ==
    {ob} \union {InsertOutboxTx(ob, m, EventDepositConfirmed, DepositKey(d)) :
                     m \in ListBindingsByPayer(depUser[d])}

(* webhook.Service.EnqueueDepositTx: one insert per binding, all with the  *)
(* key "deposit:<id>", so that the first one wins.  MySQL promises no      *)
(* order of the bindings, hence the set of outcomes.                       *)
EnqueueDepositTx(ob, d) ==
    LET bound == ListBindingsByPayer(depUser[d])
    IN  IF bound = {} THEN {ob}
        ELSE {InsertOutboxTx(ob, m, EventDepositConfirmed, DepositKey(d)) : m \in bound}

(* The row of d is locked by the insert of another worker's transaction.   *)
Locked(d) == \E w \in Workers : worker[w].op = "capture" /\ worker[w].dep = d

(* The row can be read FOR UPDATE and is not credited already.             *)
GetDepositByKeyTx(d) == ~Locked(d) /\ deposit[d].status # "credited"

(* The row of the deposit, new or orphaned, is of block b and credited.    *)
MarkDepositCreditedTx(d, b) == deposit' = [deposit EXCEPT ![d] = [status |-> "credited", block |-> b]]

(* The database work of captureAndCredit after row was read for d's user.  *)
CreditAndMark(d, b, row) ==
    /\ ledger' = WriteLedger(ledger, depUser[d], row, creditDeposit(d, depAmount[d]))
    /\ MarkDepositCreditedTx(d, b)
    /\ outbox' \in EnqueueDepositTx(outbox, d)

(* A deposit that was credited before (and orphaned since) is only marked. *)
MarkOnly(d, b) ==
    /\ MarkDepositCreditedTx(d, b)
    /\ UNCHANGED <<ledger, outbox>>

(* Mutant: no look for an earlier credit of an orphaned deposit.           *)
captureAndRecredit(w, d, b) ==
    /\ worker[w] = Idle
    /\ GetDepositByKeyTx(d)
    /\ ledger.account[depUser[d]].exists
    /\ CreditAndMark(d, b, ledger.account[depUser[d]])
    /\ UNCHANGED worker

captureAndCredit(w, d, b) ==
    /\ worker[w] = Idle
    /\ GetDepositByKeyTx(d)
    /\ IF hasLedgerEntryTx(ledger, d, "deposit_credit")
       THEN MarkOnly(d, b)
       ELSE /\ ledger.account[depUser[d]].exists
            /\ CreditAndMark(d, b, ledger.account[depUser[d]])
    /\ UNCHANGED worker

(* captureAndCredit of the first deposit of a user, up to the read that    *)
(* finds no account row ...                                                *)
BeginFirstCredit(w, d, b) ==
    /\ worker[w] = Idle
    /\ GetDepositByKeyTx(d)
    /\ ~hasLedgerEntryTx(ledger, d, "deposit_credit")
    /\ ~ledger.account[depUser[d]].exists
    /\ worker' = [worker EXCEPT ![w] = [op |-> "capture", dep |-> d, block |-> b, deps |-> {}]]
    /\ UNCHANGED <<ledger, deposit, outbox>>

(* ... and from its upsert to the commit, on the zero balances it read.    *)
CommitFirstCredit(w) ==
    /\ worker[w].op = "capture"
    /\ CreditAndMark(worker[w].dep, worker[w].block, MissingRow)
    /\ worker' = [worker EXCEPT ![w] = Idle]

-----------------------------------------------------------------------------
Affected(from) == {d \in Deposits : deposit[d].status = "credited" /\ deposit[d].block >= from}

(* HandleReorgTx up to the SELECT of OrphanDepositsFromBlockTx.            *)
BeginReorg(w, from) ==
    /\ worker[w] = Idle
    /\ worker' = [worker EXCEPT ![w] =
                    [op |-> "reorg", dep |-> 0, block |-> from, deps |-> Affected(from)]]
    /\ UNCHANGED <<ledger, deposit, outbox>>

(* The deposits the loop of HandleReorgTx reverses.                        *)
Reversible(deps) ==
    {d \in deps : /\ ~hasLedgerEntryTx(ledger, d, "deposit_reverse")
                  /\ hasLedgerEntryTx(ledger, d, "deposit_credit")}

(* One turn of that loop; ok turns FALSE at ErrInsufficientBalance.        *)
ReverseOne(d, acc) ==
    LET op  == reverseDeposit(d, depAmount[d])
        row == acc.l.account[depUser[d]]
    IN  IF acc.ok /\ CanApply(row, op)
        THEN [ok |-> TRUE, l |-> applyLedgerTx(acc.l, depUser[d], op)]
        ELSE [ok |-> FALSE, l |-> acc.l]

reverseAll(deps) == FoldSet(ReverseOne, [ok |-> TRUE, l |-> ledger], deps)

(* HandleReorgTx from the UPDATE of OrphanDepositsFromBlockTx to the       *)
(* commit: the UPDATE marks what matches now, the loop reverses what the   *)
(* SELECT returned.                                                        *)
CommitReorg(w) ==
    /\ worker[w].op = "reorg"
    /\ \A d \in Affected(worker[w].block) : ~Locked(d)
    /\ LET result == reverseAll(Reversible(worker[w].deps))
       IN  /\ result.ok
           /\ ledger' = result.l
    /\ deposit' = [d \in Deposits |->
                     IF d \in Affected(worker[w].block)
                     THEN [deposit[d] EXCEPT !.status = "orphaned"] ELSE deposit[d]]
    /\ worker' = [worker EXCEPT ![w] = Idle]
    /\ UNCHANGED outbox

(* The transaction is rolled back: a later statement of syncBlock failed,  *)
(* a reversal met ErrInsufficientBalance, or the process stopped.          *)
Rollback(w) ==
    /\ worker[w] # Idle
    /\ worker' = [worker EXCEPT ![w] = Idle]
    /\ UNCHANGED <<ledger, deposit, outbox>>

(* AddBinding of a merchant that is registered, enabled or not; a second   *)
(* one meets the primary key (ErrDuplicateBinding).                        *)
AddBinding(m, u) ==
    /\ m \notin binding[u]
    /\ SumFunction([v \in Users |-> Cardinality(binding[v] \ Bindings[v])]) < MaxBindings
    /\ binding' = [binding EXCEPT ![u] = @ \union {m}]
    /\ UNCHANGED <<ledger, deposit, worker, outbox>>

HandleMerchantBind == \E m \in Merchants, u \in Users : AddBinding(m, u)

DepositStep(w) ==
    /\ \/ \E d \in Deposits, b \in Blocks : captureAndCredit(w, d, b) \/ BeginFirstCredit(w, d, b)
       \/ \E b \in Blocks : BeginReorg(w, b)
       \/ CommitFirstCredit(w)
       \/ CommitReorg(w)
       \/ Rollback(w)
    /\ UNCHANGED binding

DepositNext == (\E w \in Workers : DepositStep(w)) \/ HandleMerchantBind

(* The other writer of the outbox (Payment), with any key a client chose;  *)
(* whom it is for does not matter here.                                    *)
PaidMerchant == "-"

PaymentEvent ==
    /\ \E k \in ClientKeys : outbox' = InsertOutboxTx(outbox, PaidMerchant, EventPaymentSuccess, k)
    /\ UNCHANGED <<ledger, deposit, binding, worker>>

DepositSpec == DepositInit /\ [][DepositNext \/ PaymentEvent]_depositVars

-----------------------------------------------------------------------------
WorkerState == [op : {"idle", "capture", "reorg"}, dep : Deposits \union {0},
                block : Blocks \union {0}, deps : SUBSET Deposits]

DepositOutboxRow == [key : {DepositKey(d) : d \in Deposits} \union ClientKeys,
                     merchant : Merchants \union {PaidMerchant},
                     event : {EventDepositConfirmed, EventPaymentSuccess}]

DepositTypeOK ==
    /\ LedgerTypeOK
    /\ deposit \in [Deposits -> [status : {"none", "credited", "orphaned"},
                                 block : Blocks \union {0}]]
    /\ binding \in [Users -> SUBSET Merchants]
    /\ worker \in [Workers -> WorkerState]
    /\ outbox \subseteq DepositOutboxRow

(* A deposit is credited at most once and its credit taken back at most    *)
(* once, never without a credit before it, and both on its own user's      *)
(* account, however captures, reorgs and re-captures of several workers    *)
(* interleave (captureAndCredit, HandleReorgTx).                           *)
CreditedOnce ==
    \A d \in Deposits, u \in Users :
        LET credits  == Entries(u, "deposit_credit", d)
            reverses == Entries(u, "deposit_reverse", d)
        IN  /\ Cardinality(credits) <= 1
            /\ Cardinality(reverses) <= 1
            /\ credits # {} => u = depUser[d]
            /\ \A r \in reverses : \E c \in credits : c < r

(* Row, credit and event come together, in one transaction: a deposit has  *)
(* a row if and only if its credit is in the journal, and then one event   *)
(* has its key in the outbox, if its user had a merchant, whatever was     *)
(* rolled back, re-captured, orphaned or bound in between                  *)
(* (captureAndCredit, EnqueueDepositTx).  It is the deposit's own, to a    *)
(* bound merchant, unless a client has paid with "deposit:<id>" before:    *)
(* then it is the payment's, and nobody hears of the deposit.  A merchant  *)
(* bound after the credit may get the event or none, depending on whether  *)
(* others were bound before.                                               *)
RowCreditEventAgree ==
    \A d \in Deposits :
        LET rows == OutboxRows(DepositKey(d))
            credited == HasEntry("deposit_credit", d)
        IN  /\ deposit[d].status # "none" <=> credited
            /\ Cardinality(rows) <= 1
            /\ credited /\ Bindings[depUser[d]] # {} => rows # {}
            /\ \A r \in rows : \/ r.event = EventPaymentSuccess
                               \/ credited /\ r.merchant \in ListBindingsByPayer(depUser[d])

(* What the entries of a user add up to.                                   *)
JournalTotal(u) ==
    LET journal == ledger.journal[u]
    IN  SumFunction([i \in DOMAIN journal |-> deltaAvail(journal[i].op) + deltaFrozen(journal[i].op)])

(* No account holds more than its journal accounts for, however first      *)
(* credits of a new user overtake each other and deposits are reversed and *)
(* captured again (applyLedgerTx, the SELECT ... FOR UPDATE of ledger.go:  *)
(* 109): a race may lose a new user money, nobody is ever given any, and   *)
(* an account that exists is exact.                                        *)
AccountWithinJournal ==
    \A u \in Users :
        LET held == ledger.account[u].available + ledger.account[u].frozen
        IN  /\ held <= JournalTotal(u)
            /\ u \notin NewUsers => held = JournalTotal(u)

-----------------------------------------------------------------------------
(* The inductive invariant.  A deposit whose first credit is under way is  *)
(* new, of a new user, and in the hands of one worker, ...                 *)
CapturesAreNew ==
    /\ \A w \in Workers : worker[w].op = "capture" =>
          /\ worker[w].dep \in Deposits /\ worker[w].block \in Blocks
          /\ deposit[worker[w].dep].status = "none"
          /\ depUser[worker[w].dep] \in NewUsers
    /\ \A v, w \in Workers :
          worker[v].op = "capture" /\ worker[w].op = "capture" /\ worker[v].dep = worker[w].dep => v = w

(* ... hasLedgerEntryTx finds what captures and reorgs wrote, ...          *)
DepositsAreFound ==
    \A u \in Users : \A n \in DOMAIN ledger.journal[u] :
        ledger.journal[u][n].op.type \in {"deposit_credit", "deposit_reverse"} =>
            ledger.journal[u][n].op.refType = "deposit"

(* ... rows of accounts and bindings stay, and deposits come one by one.   *)
RowsStay ==
    /\ \A u \in Users \ NewUsers : ledger.account[u].exists
    /\ \A u \in Users : Bindings[u] \subseteq binding[u]
    /\ IsFiniteSet({d \in Deposits : deposit[d].status # "none"})
    /\ \A w \in Workers : IsFiniteSet(worker[w].deps)

DepositInv ==
    /\ DepositTypeOK /\ CapturesAreNew /\ DepositsAreFound /\ RowsStay
    /\ CreditedOnce /\ RowCreditEventAgree /\ AccountWithinJournal
=============================================================================
