------------------------------- MODULE Ledger -------------------------------
(***************************************************************************)
(* The off-chain ledger of the exchange: table user_ledger_accounts (one   *)
(* row per user, available and frozen balance) and table ledger_entries    *)
(* (the journal every balance change is written to).  A user here is a     *)
(* (user_id, token_address) pair: the code never mixes tokens.             *)
(*                                                                         *)
(* The operations are functions from ledger to ledger, because the code    *)
(* applies one or two of them inside a caller's database transaction.      *)
(***************************************************************************)
EXTENDS Integers, Sequences

CONSTANTS
    Users,      \* owners of ledger accounts
    NewUsers,   \* the users that have no user_ledger_accounts row yet
    Opening     \* available balance of each user at the start, from one old deposit

ASSUME LedgerAssumption ==
    /\ NewUsers \subseteq Users
    /\ Opening \in [Users -> Nat]
    /\ \A u \in NewUsers : Opening[u] = 0

VARIABLE
    ledger      \* [account |-> rows of the users, journal |-> their entries in id order]

-----------------------------------------------------------------------------
(* exchange/types.go: the entry types, and what refType may be.            *)
EntryTypes == {"deposit_credit", "deposit_reverse", "withdraw_freeze",
               "withdraw_unfreeze", "withdraw_debit",
               "payment_debit", "payment_credit"}

RefTypes == {"deposit", "withdraw", "payment"}

(* available_wei, frozen_wei; exists = FALSE stands for a row that is not  *)
(* there, which applyLedgerTx reads as zero and zero.                      *)
Account == [exists : BOOLEAN, available : Nat, frozen : Nat]

MissingRow == [exists |-> FALSE, available |-> 0, frozen |-> 0]

LedgerOp == [type : EntryTypes, refType : RefTypes, refID : Nat, amount : Nat]

(* available and frozen are the columns balance_available_after and        *)
(* balance_frozen_after.                                                   *)
Entry == [op : LedgerOp, available : Nat, frozen : Nat]

(* The signed change an operation makes to each balance: the ledgerOp      *)
(* literals of creditDepositTx ... debitWithdrawTx.                        *)
deltaAvail(op) ==
    CASE op.type \in {"deposit_credit", "withdraw_unfreeze", "payment_credit"} -> op.amount
      [] op.type \in {"deposit_reverse", "withdraw_freeze", "payment_debit"} -> 0 - op.amount
      [] OTHER -> 0

deltaFrozen(op) ==
    CASE op.type = "withdraw_freeze" -> op.amount
      [] op.type \in {"withdraw_unfreeze", "withdraw_debit"} -> 0 - op.amount
      [] OTHER -> 0

creditDeposit(d, a) == [type |-> "deposit_credit", refType |-> "deposit", refID |-> d, amount |-> a]
reverseDeposit(d, a) == [type |-> "deposit_reverse", refType |-> "deposit", refID |-> d, amount |-> a]
freezeWithdraw(w, a) == [type |-> "withdraw_freeze", refType |-> "withdraw", refID |-> w, amount |-> a]
unfreezeWithdraw(w, a) == [type |-> "withdraw_unfreeze", refType |-> "withdraw", refID |-> w, amount |-> a]
debitWithdraw(w, a) == [type |-> "withdraw_debit", refType |-> "withdraw", refID |-> w, amount |-> a]
debitPayment(p, a) == [type |-> "payment_debit", refType |-> "payment", refID |-> p, amount |-> a]
creditPayment(p, a) == [type |-> "payment_credit", refType |-> "payment", refID |-> p, amount |-> a]

-----------------------------------------------------------------------------
(* Mutant: the sign of the available balance is not checked.               *)
CanApplyOverdrawn(row, op) == row.frozen + deltaFrozen(op) >= 0

(* applyLedgerTx in two halves.  row is what SELECT ... FOR UPDATE         *)
(* returned; CanApply is the absence of ErrInsufficientBalance, and        *)
(* WriteLedger the upsert of the account and the insert of the entry.      *)
CanApply(row, op) ==
    /\ row.available + deltaAvail(op) >= 0
    /\ row.frozen + deltaFrozen(op) >= 0

(* Mutant: the entry shows the balances before the operation.              *)
WriteLedgerBefore(l, u, row, op) ==
    [account |-> [l.account EXCEPT ![u] =
                    [exists |-> TRUE, available |-> row.available + deltaAvail(op),
                                      frozen |-> row.frozen + deltaFrozen(op)]],
     journal |-> [l.journal EXCEPT ![u] =
                    Append(@, [op |-> op, available |-> row.available, frozen |-> row.frozen])]]

(* Mutant: the upsert adds the new balance to the one in the table.        *)
WriteLedgerAdds(l, u, row, op) ==
    LET avail == l.account[u].available + row.available + deltaAvail(op)
        froz  == row.frozen + deltaFrozen(op)
    IN  [account |-> [l.account EXCEPT ![u] =
                        [exists |-> TRUE, available |-> avail, frozen |-> froz]],
         journal |-> [l.journal EXCEPT ![u] =
                        Append(@, [op |-> op, available |-> avail, frozen |-> froz])]]

WriteLedger(l, u, row, op) ==
    LET avail == row.available + deltaAvail(op)
        froz  == row.frozen + deltaFrozen(op)
    IN  [account |-> [l.account EXCEPT ![u] =
                        [exists |-> TRUE, available |-> avail, frozen |-> froz]],
         journal |-> [l.journal EXCEPT ![u] =
                        Append(@, [op |-> op, available |-> avail, frozen |-> froz])]]

(* The whole of applyLedgerTx when the row stays locked until the commit.  *)
applyLedgerTx(l, u, op) == WriteLedger(l, u, l.account[u], op)

(* hasLedgerEntryTx: whatever entry type it is asked for, the query says   *)
(* ref_type = 'deposit'.                                                   *)
hasLedgerEntryTx(l, id, type) ==
    \E u \in Users : \E i \in DOMAIN l.journal[u] :
        /\ l.journal[u][i].op.refType = "deposit"
        /\ l.journal[u][i].op.refID = id
        /\ l.journal[u][i].op.type = type

-----------------------------------------------------------------------------
OpeningEntry(u) == [op |-> creditDeposit(0, Opening[u]), available |-> Opening[u], frozen |-> 0]

LedgerInit ==
    ledger =
      [account |-> [u \in Users |->
                      IF u \in NewUsers THEN MissingRow
                      ELSE [exists |-> TRUE, available |-> Opening[u], frozen |-> 0]],
       journal |-> [u \in Users |->
                      IF Opening[u] = 0 THEN <<>> ELSE <<OpeningEntry(u)>>]]

LedgerTypeOK ==
    ledger \in [account : [Users -> Account], journal : [Users -> Seq(Entry)]]

-----------------------------------------------------------------------------
(* Questions asked of the journal by the properties.                       *)
Entries(u, type, id) ==
    {i \in DOMAIN ledger.journal[u] :
        ledger.journal[u][i].op.type = type /\ ledger.journal[u][i].op.refID = id}

HasEntry(type, id) ==
    \E u \in Users : \E n \in DOMAIN ledger.journal[u] :
        ledger.journal[u][n].op.refID = id /\ ledger.journal[u][n].op.type = type

(* What account balances the first n entries of u's journal lead to.       *)
BalanceAfter(l, u, n) ==
    IF n = 0 THEN [available |-> 0, frozen |-> 0]
    ELSE [available |-> l.journal[u][n].available, frozen |-> l.journal[u][n].frozen]

(* Entry n of u continues where the entry before it stopped.               *)
Continues(l, u, n) ==
    LET before == BalanceAfter(l, u, n - 1)
        after  == BalanceAfter(l, u, n)
    IN  /\ after.available = before.available + deltaAvail(l.journal[u][n].op)
        /\ after.frozen = before.frozen + deltaFrozen(l.journal[u][n].op)

Replays(l, u) ==
    LET last == BalanceAfter(l, u, Len(l.journal[u]))
    IN  /\ \A n \in DOMAIN l.journal[u] : Continues(l, u, n)
        /\ l.account[u].available = last.available
        /\ l.account[u].frozen = last.frozen

(* Every entry of a user continues where the entry before it stopped, and  *)
(* the account row shows the balances of the last entry: the journal       *)
(* (ledger_entries, written by applyLedgerTx) explains the account         *)
(* (user_ledger_accounts) with no change lost and none invented.           *)
JournalReplays == \A u \in Users : Replays(ledger, u)
=============================================================================
