------------------------------- MODULE Wallet -------------------------------
(***************************************************************************)
(* Custodial wallets (balance/ and the handlers of api/handlers_wallet.go):*)
(* the table custodial_wallets, the copy of its enabled rows that every    *)
(* instance of the process keeps in memory (Registry) and that tells the   *)
(* indexer whose deposit it sees, and the snapshots of balances.           *)
(*                                                                         *)
(* A handler works in single statements.  A balance on the chain is the    *)
(* number of times it changed; labels and tokens are left out.  Upper and  *)
(* lower case of a user are one user.                                      *)
(***************************************************************************)
EXTENDS Integers, FiniteSets, FiniteSetsExt

CONSTANTS
    Addrs,        \* addresses, numbers in the order of the table
    Users,        \* user_id
    NoUser,       \* the empty user_id
    WalletTypes,  \* wallet_type; "deposit" is one of them
    Registered,   \* the wallets registered before
    Instances,    \* processes on the same database
    Handlers,     \* HTTP handlers
    Home,         \* the instance of each handler
    Refreshers,   \* goroutines and handlers that refresh a balance
    BackfillWorker, \* the goroutine that refreshes all of them
    MaxRequests,  \* bound: requests that register, enable or disable
    MaxMoves      \* bound: changes of each balance on the chain

NoWallet == [user |-> NoUser, type |-> "none", enabled |-> FALSE]
WalletRow == [user : Users \union {NoUser}, type : WalletTypes, enabled : BOOLEAN]

ASSUME WalletAssumption ==
    /\ Addrs \subseteq Nat /\ IsFiniteSet(Addrs)
    /\ NoUser \notin Users
    /\ "none" \notin WalletTypes
    /\ Registered \in [Addrs -> WalletRow \union {NoWallet}]
    /\ \A a \in Addrs : Registered[a].type = "deposit" => Registered[a].user # NoUser
    /\ Home \in [Handlers -> Instances]
    /\ BackfillWorker \notin Refreshers
    /\ {MaxRequests, MaxMoves} \subseteq Nat

VARIABLES
    wallets,    \* table custodial_wallets
    registry,   \* the map of each instance
    handler,    \* the request of each handler and the row it read
    reloader,   \* what Reload read, for each instance
    backfill,   \* addresses that RefreshAllRegistered has before it
    balance,    \* balances on the chain (external)
    refresher,  \* the balance each refresh fetched
    snapshot,   \* table account_balances
    requests    \* requests so far

walletVars == <<wallets, registry, handler, reloader, backfill, balance, refresher, snapshot, requests>>
registration == <<wallets, registry, handler, requests>>
snapshots == <<backfill, balance, refresher, snapshot>>

EnabledWallets == [a \in Addrs |-> IF wallets[a].enabled THEN wallets[a] ELSE NoWallet]

NoRequest == [pc |-> "idle", addr |-> 0, user |-> NoUser, type |-> "none", row |-> NoWallet]
NotReading == [reading |-> FALSE, rows |-> [a \in Addrs |-> NoWallet]]
NoSnapshot == -1
NotFetched == [addr |-> 0, value |-> NoSnapshot]

(* EnsureSchema, NewRegistry and the first Reload.                         *)
WalletInit ==
    /\ wallets = Registered
    /\ registry = [i \in Instances |-> EnabledWallets]
    /\ handler = [h \in Handlers |-> NoRequest]
    /\ reloader = [i \in Instances |-> NotReading]
    /\ backfill = {}
    /\ balance = [a \in Addrs |-> 0]
    /\ refresher = [r \in Refreshers \union {BackfillWorker} |-> NotFetched]
    /\ snapshot = [a \in Addrs |-> NoSnapshot]
    /\ requests = 0

-----------------------------------------------------------------------------
(* The tests of RegisterWallet on the row it has read.                     *)
MayRegister(row, user, type) ==
    /\ type = "deposit" => user # NoUser
    /\ row # NoWallet =>
          /\ row.user = NoUser \/ user = NoUser \/ row.user = user
          /\ row.type = type

(* HandleWalletRegister and RegisterWallet, up to the INSERT or UPDATE.    *)
BeginRegister(h, a, user, type) ==
    /\ handler[h] = NoRequest
    /\ requests < MaxRequests
    /\ MayRegister(wallets[a], user, type)
    /\ handler' = [handler EXCEPT ![h] = [pc |-> "write", addr |-> a, user |-> user, type |-> type,
                                          row |-> wallets[a]]]
    /\ requests' = requests + 1
    /\ UNCHANGED <<wallets, registry, reloader, snapshots>>

(* Mutant: the INSERT updates a row that is there.                         *)
InsertOrUpdate(h) ==
    LET q == handler[h]
    IN  /\ q.pc = "write" /\ q.row = NoWallet
        /\ wallets' = [wallets EXCEPT ![q.addr] = [user |-> q.user, type |-> q.type, enabled |-> TRUE]]
        /\ handler' = [handler EXCEPT ![h].pc = "read"]
        /\ UNCHANGED <<registry, requests, reloader, snapshots>>

(* Mutant: INSERT IGNORE, and the registry gets what was asked for.        *)
InsertIgnore(h) ==
    LET q == handler[h]
        row == [user |-> q.user, type |-> q.type, enabled |-> TRUE]
    IN  /\ q.pc = "write" /\ q.row = NoWallet
        /\ wallets' = [wallets EXCEPT ![q.addr] = IF @ = NoWallet THEN row ELSE @]
        /\ handler' = [handler EXCEPT ![h].pc = "upsert", ![h].row = row]
        /\ UNCHANGED <<registry, requests, reloader, snapshots>>

(* The INSERT of RegisterWallet, which fails if the address is taken now.  *)
InsertWallet(h) ==
    LET q == handler[h]
    IN  /\ q.pc = "write" /\ q.row = NoWallet
        /\ \/ /\ wallets[q.addr] = NoWallet
              /\ wallets' = [wallets EXCEPT ![q.addr] = [user |-> q.user, type |-> q.type, enabled |-> TRUE]]
              /\ handler' = [handler EXCEPT ![h].pc = "read"]
           \/ /\ wallets[q.addr] # NoWallet
              /\ handler' = [handler EXCEPT ![h] = NoRequest]
              /\ UNCHANGED wallets
        /\ UNCHANGED <<registry, requests, reloader, snapshots>>

(* Its UPDATE: the user of the request or the one that was read, enabled.  *)
UpdateWallet(h) ==
    LET q == handler[h]
        keepUser == IF q.user = NoUser THEN q.row.user ELSE q.user
    IN  /\ q.pc = "write" /\ q.row # NoWallet
        /\ wallets' = [wallets EXCEPT ![q.addr].user = keepUser, ![q.addr].enabled = TRUE]
        /\ handler' = [handler EXCEPT ![h].pc = "read"]
        /\ UNCHANGED <<registry, requests, reloader, snapshots>>

(* HandleWalletSetEnabled up to SetWalletEnabled.                          *)
SetWalletEnabled(h, a, enabled) ==
    /\ handler[h] = NoRequest
    /\ requests < MaxRequests
    /\ wallets[a] # NoWallet
    /\ wallets' = [wallets EXCEPT ![a].enabled = enabled]
    /\ handler' = [handler EXCEPT ![h] = [NoRequest EXCEPT !.pc = "read", !.addr = a]]
    /\ requests' = requests + 1
    /\ UNCHANGED <<registry, reloader, snapshots>>

(* GetWallet after the write.                                              *)
GetWallet(h) ==
    /\ handler[h].pc = "read"
    /\ handler' = [handler EXCEPT ![h] = [NoRequest EXCEPT !.pc = "upsert", !.addr = handler[h].addr,
                                                          !.row = wallets[handler[h].addr]]]
    /\ UNCHANGED <<wallets, registry, requests, reloader, snapshots>>

(* Registry.Upsert of the row that was read.  (RefreshWalletAsync of       *)
(* HandleWalletRegister is a Fetch that comes later.)                      *)
Upsert(h) ==
    LET q == handler[h]
    IN  /\ q.pc = "upsert"
        /\ registry' = [registry EXCEPT ![Home[h]][q.addr] = IF q.row.enabled THEN q.row ELSE NoWallet]
        /\ handler' = [handler EXCEPT ![h] = NoRequest]
        /\ UNCHANGED <<wallets, requests, reloader, snapshots>>

(* A statement fails and the handler returns: what was written stays.      *)
EndRequest(h) ==
    /\ handler[h] # NoRequest
    /\ handler' = [handler EXCEPT ![h] = NoRequest]
    /\ UNCHANGED <<wallets, registry, requests, reloader, snapshots>>

-----------------------------------------------------------------------------
(* Reload of startRegistryReloadWorker: ListWallets, ...                   *)
ReadWallets(i) ==
    /\ ~reloader[i].reading
    /\ reloader' = [reloader EXCEPT ![i] = [reading |-> TRUE, rows |-> EnabledWallets]]
    /\ UNCHANGED <<registration, snapshots>>

(* Mutant: rows are added, and none is removed.                            *)
MergeRegistry(i) ==
    /\ reloader[i].reading
    /\ registry' = [registry EXCEPT ![i] = [a \in Addrs |-> IF reloader[i].rows[a] = NoWallet THEN registry[i][a]
                                                            ELSE reloader[i].rows[a]]]
    /\ reloader' = [reloader EXCEPT ![i] = NotReading]
    /\ UNCHANGED <<wallets, handler, requests, snapshots>>

(* ... then the map is replaced, with what Upsert did meanwhile.           *)
SwapRegistry(i) ==
    /\ reloader[i].reading
    /\ registry' = [registry EXCEPT ![i] = reloader[i].rows]
    /\ reloader' = [reloader EXCEPT ![i] = NotReading]
    /\ UNCHANGED <<wallets, handler, requests, snapshots>>

-----------------------------------------------------------------------------
(* The balance of an address changes on the chain.                         *)
Move(a) ==
    /\ balance[a] < MaxMoves
    /\ balance' = [balance EXCEPT ![a] = @ + 1]
    /\ UNCHANGED <<registration, reloader, backfill, refresher, snapshot>>

(* RefreshNative and RefreshERC20, up to the answer of the node; asked for *)
(* by the indexer, the tracker and handlers, for any address.              *)
Fetch(r, a) ==
    /\ refresher[r] = NotFetched
    /\ refresher' = [refresher EXCEPT ![r] = [addr |-> a, value |-> balance[a]]]
    /\ UNCHANGED <<registration, reloader, backfill, balance, snapshot>>

(* Store.Upsert: whatever is there is overwritten.                         *)
StoreBalance(r) ==
    /\ refresher[r] # NotFetched
    /\ snapshot' = [snapshot EXCEPT ![refresher[r].addr] = refresher[r].value]
    /\ refresher' = [refresher EXCEPT ![r] = NotFetched]
    /\ UNCHANGED <<registration, reloader, backfill, balance>>

(* Mutant: only wallets without a snapshot are listed.                     *)
ListMissingAddresses == {a \in Addrs : wallets[a].enabled /\ snapshot[a] = NoSnapshot}

ListEnabledAddresses == {a \in Addrs : wallets[a].enabled}

(* RefreshAllRegistered of StartBackfillWorker: the list, ...              *)
StartBackfill ==
    /\ backfill = {}
    /\ backfill' = ListEnabledAddresses
    /\ UNCHANGED <<registration, reloader, balance, refresher, snapshot>>

(* ... then RefreshWallet for each address, one after the other; a wallet  *)
(* that is not enabled any more is skipped, an error is only printed.      *)
RefreshNext ==
    LET a == Min(backfill)
    IN  /\ backfill # {}
        /\ refresher[BackfillWorker] = NotFetched
        /\ backfill' = backfill \ {a}
        /\ \/ /\ wallets[a].enabled
              /\ refresher' = [refresher EXCEPT ![BackfillWorker] = [addr |-> a, value |-> balance[a]]]
           \/ /\ ~wallets[a].enabled
              /\ UNCHANGED refresher
        /\ UNCHANGED <<registration, reloader, balance, snapshot>>

(* An UPDATE or the node fails: the snapshot stays as it is.               *)
RefreshError(r) ==
    /\ refresher[r] # NotFetched
    /\ refresher' = [refresher EXCEPT ![r] = NotFetched]
    /\ UNCHANGED <<registration, reloader, backfill, balance, snapshot>>

-----------------------------------------------------------------------------
HandleRequest(h) == InsertWallet(h) \/ UpdateWallet(h) \/ GetWallet(h) \/ Upsert(h)

ReloadStep(i) == ReadWallets(i) \/ SwapRegistry(i)

WalletNext ==
    \/ \E h \in Handlers :
          \/ \E a \in Addrs, u \in Users \union {NoUser}, t \in WalletTypes : BeginRegister(h, a, u, t)
          \/ \E a \in Addrs, e \in BOOLEAN : SetWalletEnabled(h, a, e)
          \/ HandleRequest(h) \/ EndRequest(h)
    \/ \E i \in Instances : ReloadStep(i)
    \/ \E a \in Addrs : Move(a) \/ \E r \in Refreshers : Fetch(r, a)
    \/ \E r \in Refreshers \union {BackfillWorker} : StoreBalance(r) \/ RefreshError(r)
    \/ StartBackfill
    \/ RefreshNext

(* The tickers of Reload and of the backfill tick, and storing a balance   *)
(* does not fail every time.  Nothing is assumed of handlers and of the    *)
(* other refreshes.                                                        *)
WalletFairness ==
    /\ \A i \in Instances : WF_walletVars(ReloadStep(i))
    /\ WF_walletVars(StartBackfill)
    /\ WF_walletVars(RefreshNext)
    /\ \A a \in Addrs : SF_walletVars(refresher[BackfillWorker].addr = a /\ StoreBalance(BackfillWorker))

WalletSpec == WalletInit /\ [][WalletNext]_walletVars /\ WalletFairness

-----------------------------------------------------------------------------
WalletTypeOK ==
    /\ wallets \in [Addrs -> WalletRow \union {NoWallet}]
    /\ \A a \in Addrs : wallets[a].type = "deposit" => wallets[a].user # NoUser
    /\ registry \in [Instances -> [Addrs -> WalletRow \union {NoWallet}]]
    /\ handler \in [Handlers -> [pc : {"idle", "write", "read", "upsert"}, addr : Addrs \union {0},
                                 user : Users \union {NoUser}, type : WalletTypes \union {"none"},
                                 row : WalletRow \union {NoWallet}]]
    /\ reloader \in [Instances -> [reading : BOOLEAN, rows : [Addrs -> WalletRow \union {NoWallet}]]]
    /\ backfill \subseteq Addrs
    /\ balance \in [Addrs -> 0..MaxMoves]
    /\ refresher \in [Refreshers \union {BackfillWorker} ->
                         [addr : Addrs \union {0}, value : NoSnapshot..MaxMoves]]
    /\ snapshot \in [Addrs -> NoSnapshot..MaxMoves]
    /\ requests \in 0..MaxRequests

(* store.go:97, user_id and wallet_type may not be changed: a deposit      *)
(* wallet keeps its owner and every wallet its type, though RegisterWallet *)
(* tests a row it read before it writes.                                   *)
OwnerIsFixed ==
    [][\A a \in Addrs : wallets[a] # NoWallet =>
          /\ wallets'[a].type = wallets[a].type
          /\ wallets[a].type = "deposit" => wallets'[a].user = wallets[a].user]_walletVars

(* However old an entry of a registry is, a deposit to the address goes to *)
(* the wallet's owner: CaptureNativeTx takes the user from Registry.Get.   *)
RegistryNamesOwner ==
    \A i \in Instances, a \in Addrs :
        registry[i][a].type = "deposit" =>
            wallets[a].type = "deposit" /\ wallets[a].user = registry[i][a].user

(* worker.go:50, the reload keeps the caches of several instances          *)
(* consistent: when no more wallets change, every registry becomes the     *)
(* enabled rows of the table, whatever handlers put there too late.        *)
RegistryConverges == <>[](\A i \in Instances : registry[i] = EnabledWallets)

(* The backfill: when balances and wallets rest, the snapshot of every     *)
(* enabled wallet becomes its balance, although a refresh that was         *)
(* overtaken overwrites a newer snapshot (Store.Upsert).                   *)
SnapshotsConverge == <>[](\A a \in Addrs : wallets[a].enabled => snapshot[a] = balance[a])

-----------------------------------------------------------------------------
(* The inductive invariant.  A row that was read from the table: since     *)
(* then the wallet kept its type, and a deposit wallet its owner.          *)
ReadFrom(table, row, a) ==
    row # NoWallet =>
        /\ table[a].type = row.type
        /\ row.type = "deposit" => table[a].user = row.user

(* The row of a request is one, and what it writes passed the tests.       *)
RequestsTested ==
    \A h \in Handlers : handler[h].pc # "idle" =>
        /\ handler[h].addr \in Addrs
        /\ ReadFrom(wallets, handler[h].row, handler[h].addr)
        /\ handler[h].pc = "write" =>
              handler[h].type # "none" /\ MayRegister(handler[h].row, handler[h].user, handler[h].type)

(* So are the rows of every registry, and those a Reload is to put there.  *)
CopiesRead ==
    \A i \in Instances, a \in Addrs :
        ReadFrom(wallets, registry[i][a], a) /\ ReadFrom(wallets, reloader[i].rows[a], a)

WalletInv == WalletTypeOK /\ RequestsTested /\ CopiesRead
=============================================================================
