------------------------------ MODULE TxProofs ------------------------------
(* Nonces, rows and amounts of the transactions that are sent, for any      *)
(* number of calls, keys and retries (TxSend), and the statuses of those    *)
(* that are followed, for any number of them and of trackers (TxTracker).   *)
EXTENDS TxSend, TxTracker, FiniteSetTheorems, FunctionTheorems, WellFoundedInduction, TLAPS

TxState ==
    [from : {Custodial, Client}, nonce : Nat, key : Keys \union {NoKey},
     again : BOOLEAN, kind : Kinds, amount : {0, Asked}, value : {0, Asked}]
RowState == [status : Statuses, raw : 0..MaxCalls, retry : 0..BroadcastMaxRetries]
Pcs == {"idle", "allocate", "insert", "send", "accepted", "rejected", "sync", "done"}
MaybeHashes == 0..MaxCalls
AgentState ==
    [pc : Pcs, tx : MaybeHashes, target : MaybeHashes, key : Keys \union {NoKey},
     kind : Kinds, sync : BOOLEAN]

(* TxSendTypeOK in these terms.                                            *)
LEMMA TypeFacts ==
    TxSendTypeOK <=>
        /\ next \in -1..(2 * MaxCalls)
        /\ signed \in Seq(TxState)
        /\ row \in [Hashes -> RowState]
        /\ agent \in [Agents -> AgentState]
        /\ node \in [Hashes -> {"unknown", "mempool"} \union InBlock]
  BY DEF TxSendTypeOK, TxState, RowState, AgentState, Pcs, MaybeHashes

-----------------------------------------------------------------------------
(* A set of numbers that is not empty has a smallest one.                  *)
LEMMA MinOfSet ==
    ASSUME NEW S \in SUBSET Nat, S # {}
    PROVE  Min(S) \in S /\ \A y \in S : Min(S) <= y
  <1>1. \E x \in S : \A y \in S : ~(<<y, x>> \in OpToRel(<, Nat))
    BY NatLessThanWellFounded, WFMin
  <1>2. PICK x \in S : \A y \in S : ~(<<y, x>> \in OpToRel(<, Nat))
    BY <1>1
  <1>3. ASSUME NEW y \in S PROVE x <= y
    <2>1. x \in Nat /\ y \in Nat
      OBVIOUS
    <2>2. ~(y < x)
      BY <1>2, <2>1 DEF OpToRel
    <2> QED  BY <2>1, <2>2
  <1>4. \E z \in S : \A y \in S : z <= y
    BY <1>3
  <1> QED  BY <1>4 DEF Min

(* The calls are finitely many.                                            *)
LEMMA CallsCount ==
    ASSUME TxAssumption, NEW S \in SUBSET Calls
    PROVE  /\ IsFiniteSet(S) /\ Cardinality(S) \in Nat
           /\ Cardinality(S) <= MaxCalls
           /\ \A a \in Calls : a \notin S =>
                 Cardinality(S) < MaxCalls /\ Cardinality(S \union {a}) = Cardinality(S) + 1
  <1>1. MaxCalls \in Nat
    BY DEF TxAssumption
  <1>2. IsFiniteSet(Calls) /\ Cardinality(Calls) = MaxCalls
    BY <1>1, FS_Interval DEF Calls
  <1>3. /\ IsFiniteSet(S) /\ Cardinality(S) <= MaxCalls
        /\ Cardinality(Calls) = Cardinality(S) => Calls = S
    BY <1>2, FS_Subset
  <1>4. Cardinality(S) \in Nat
    BY <1>3, FS_CardinalityType
  <1>5. ASSUME NEW a \in Calls, a \notin S
        PROVE  Cardinality(S) < MaxCalls /\ Cardinality(S \union {a}) = Cardinality(S) + 1
    <2>1. Cardinality(S) < MaxCalls
      BY <1>1, <1>2, <1>3, <1>4, <1>5
    <2>2. Cardinality(S \union {a}) = Cardinality(S) + 1
      BY <1>3, <1>5, FS_AddElement
    <2> QED  BY <2>1, <2>2
  <1> QED  BY <1>3, <1>4, <1>5

(* ... and so are those that are past their signature.                     *)
LEMMA SpentCount ==
    ASSUME TxAssumption
    PROVE  /\ Cardinality(Spent) \in Nat
           /\ Cardinality(Spent) <= MaxCalls
           /\ \A a \in Calls : a \notin Spent => Cardinality(Spent) < MaxCalls
  BY CallsCount DEF Spent

(* PendingNonceAt has a nonce to answer: fewer transactions are signed     *)
(* than there are nonces up to MaxCalls.                                   *)
LEMMA PendingNonceFound ==
    ASSUME TxAssumption, TxSendTypeOK, CallsSpent
    PROVE  PendingNonce \in 0..MaxCalls
  <1> DEFINE held == InBlock \union {"mempool"}
             G == {g \in Signed : signed[g].from = Custodial /\ node[g] \in held}
             U == UsedNonces(Custodial, held)
             f == [h \in G |-> signed[h].nonce]
             S == {n \in 0..MaxCalls : n \notin U}
  <1>1. MaxCalls \in Nat /\ signed \in Seq(TxState) /\ Len(signed) \in Nat /\ Len(signed) <= MaxCalls
    <2>1. MaxCalls \in Nat /\ signed \in Seq(TxState)
      BY TypeFacts DEF TxAssumption
    <2>2. Len(signed) \in Nat /\ Len(signed) <= Cardinality(Spent)
      BY <2>1 DEF CallsSpent
    <2> QED  BY <2>1, <2>2, SpentCount
  <1>2. G \in SUBSET (1..Len(signed))
    BY <1>1 DEF Signed
  <1>3. IsFiniteSet(G) /\ Cardinality(G) <= Len(signed) /\ Cardinality(G) \in Nat
    <2>1. IsFiniteSet(1..Len(signed)) /\ Cardinality(1..Len(signed)) = Len(signed)
      <3>1. PICK n \in Nat : n = Len(signed)
        BY <1>1
      <3>2. IsFiniteSet(1..n) /\ Cardinality(1..n) = n
        BY FS_Interval
      <3> QED  BY <3>1, <3>2
    <2> HIDE DEF G
    <2>2. IsFiniteSet(G) /\ Cardinality(G) <= Len(signed)
      BY <1>2, <2>1, FS_Subset
    <2> QED  BY <2>2, FS_CardinalityType
  <1>4. f \in Surjection(G, U)
    BY DEF Surjection, UsedNonces
  <1>5. IsFiniteSet(U) /\ Cardinality(U) <= Cardinality(G)
    <2> HIDE DEF G, U, f
    <2> QED  BY <1>3, <1>4, FS_Surjection
  <1>6. S # {}
    <2> SUFFICES ASSUME S = {} PROVE FALSE
      OBVIOUS
    <2>1. 0..MaxCalls \in SUBSET U
      OBVIOUS
    <2>2. Cardinality(0..MaxCalls) = MaxCalls + 1
      BY <1>1, FS_Interval
    <2> HIDE DEF U, G
    <2>3. Cardinality(0..MaxCalls) <= Cardinality(U)
      BY <1>5, <2>1, FS_Subset
    <2>4. Cardinality(U) \in Nat
      BY <1>5, FS_CardinalityType
    <2> QED  BY <1>1, <1>3, <1>5, <2>2, <2>3, <2>4
  <1>7. S \in SUBSET Nat /\ S \in SUBSET (0..MaxCalls)
    BY <1>1
  <1>8. PendingNonce = Min(S)
    BY DEF PendingNonce
  <1> HIDE DEF S
  <1> QED  BY <1>6, <1>7, <1>8, MinOfSet

-----------------------------------------------------------------------------
(* The records that calls become.                                          *)
Holding(pc, tx, target) == [Idle EXCEPT !.pc = pc, !.tx = tx, !.target = target]
Held(r, pc, tx, target) ==
    r \in AgentState /\ r.pc = pc /\ r.tx = tx /\ r.target = target /\ r.sync = FALSE
Asking(key, kind) == [Idle EXCEPT !.pc = "allocate", !.key = key, !.kind = kind]
Left(a) == [Idle EXCEPT !.pc = IF a = Reconciler THEN "idle" ELSE "done"]
At(a, pc) == [agent[a] EXCEPT !.pc = pc]
HoldingNew(a, tx) ==
    [agent[a] EXCEPT !.pc = "insert", !.tx = tx, !.target = tx,
                     !.key = NoKey, !.kind = "native", !.sync = TRUE]
Kept(r, a, pc) ==
    /\ r \in AgentState /\ r.pc = pc
    /\ r.tx = agent[a].tx /\ r.target = agent[a].target /\ r.sync = agent[a].sync
HeldNew(r, tx) == r \in AgentState /\ r.pc = "insert" /\ r.tx = tx /\ r.target = tx

(* The record of a call that is not there.                                 *)
LEMMA IdleRecord ==
    ASSUME TxAssumption PROVE Idle \in AgentState /\ Idle.sync = FALSE
  BY DEF Idle, AgentState, Pcs, Kinds, MaybeHashes, TxAssumption

(* The fields of a call that broadcasts, ...                               *)
LEMMA HoldingRecord ==
    ASSUME TxAssumption, NEW pc \in Pcs, NEW tx \in MaybeHashes, NEW target \in MaybeHashes
    PROVE  Held(Holding(pc, tx, target), pc, tx, target)
  <1>1. Idle \in AgentState /\ Idle.sync = FALSE
    BY IdleRecord
  <1> HIDE DEF Idle
  <1>2. Holding(pc, tx, target) \in AgentState
    BY <1>1, Zenon DEF Holding, AgentState
  <1>3. /\ Holding(pc, tx, target).pc = pc /\ Holding(pc, tx, target).tx = tx
        /\ Holding(pc, tx, target).target = target /\ Holding(pc, tx, target).sync = FALSE
    BY <1>1 DEF Holding, AgentState
  <1> QED  BY <1>2, <1>3 DEF Held

(* ... of one that asks for a nonce, ...                                   *)
LEMMA AskingRecord ==
    ASSUME TxAssumption, NEW key \in Keys \union {NoKey}, NEW kind \in Kinds
    PROVE  Asking(key, kind) \in AgentState /\ Asking(key, kind).pc = "allocate"
  <1>1. Idle \in AgentState /\ "allocate" \in Pcs
    BY IdleRecord DEF Pcs
  <1> HIDE DEF Idle
  <1>2. Asking(key, kind) \in AgentState
    BY <1>1, Zenon DEF Asking, AgentState
  <1>3. Asking(key, kind).pc = "allocate"
    BY <1>1 DEF Asking, AgentState
  <1> QED  BY <1>2, <1>3

(* ... of one that ends, ...                                               *)
LEMMA LeftRecord ==
    ASSUME TxAssumption, NEW a \in Agents
    PROVE  /\ Left(a) \in AgentState /\ Left(a).sync = FALSE
           /\ Left(a).pc = IF a = Reconciler THEN "idle" ELSE "done"
  <1> DEFINE end == IF a = Reconciler THEN "idle" ELSE "done"
  <1>1. Idle \in AgentState /\ Idle.sync = FALSE /\ end \in Pcs
    BY IdleRecord DEF Pcs
  <1> HIDE DEF Idle, end
  <1>2. [Idle EXCEPT !.pc = end] \in AgentState
    BY <1>1, Zenon DEF AgentState
  <1>3. [Idle EXCEPT !.pc = end].pc = end /\ [Idle EXCEPT !.pc = end].sync = FALSE
    BY <1>1 DEF AgentState
  <1> QED  BY <1>2, <1>3 DEF Left, end

(* ... and of one that goes on, to its next step or with a transaction.    *)
LEMMA MovedRecord ==
    ASSUME NEW a \in Agents, agent[a] \in AgentState, NEW pc \in Pcs
    PROVE  Kept(At(a, pc), a, pc)
  <1>1. At(a, pc) \in AgentState
    BY Zenon DEF At, AgentState
  <1>2. /\ At(a, pc).pc = pc /\ At(a, pc).tx = agent[a].tx
        /\ At(a, pc).target = agent[a].target /\ At(a, pc).sync = agent[a].sync
    BY DEF At, AgentState
  <1> QED  BY <1>1, <1>2 DEF Kept

(* The same with the transaction that Allocate signed.                     *)
LEMMA HoldingNewRecord ==
    ASSUME NEW a \in Agents, agent[a] \in AgentState, NEW tx \in MaybeHashes
    PROVE  HeldNew(HoldingNew(a, tx), tx)
  <1>1. HoldingNew(a, tx) \in AgentState
    <2>1. "insert" \in Pcs /\ NoKey \in Keys \union {NoKey} /\ "native" \in Kinds /\ TRUE \in BOOLEAN
      BY DEF Pcs, Kinds
    <2> QED  BY <2>1, Zenon DEF HoldingNew, AgentState
  <1>2. HoldingNew(a, tx).pc = "insert" /\ HoldingNew(a, tx).tx = tx /\ HoldingNew(a, tx).target = tx
    BY DEF HoldingNew, AgentState
  <1> QED  BY <1>1, <1>2 DEF HeldNew

(* Agent a becomes r and the others stay.                                  *)
Becomes(a, r) ==
    /\ agent' \in [Agents -> AgentState]
    /\ agent'[a] = r
    /\ \A b \in Agents \ {a} : agent'[b] = agent[b]

(* An update of one agent does that.                                       *)
LEMMA OneAgent ==
    ASSUME agent \in [Agents -> AgentState], NEW a \in Agents, NEW r \in AgentState,
           agent' = [agent EXCEPT ![a] = r]
    PROVE  Becomes(a, r)
  BY DEF Becomes

(* The moves of an agent within a call.                                    *)
LEMMA AgentMoves ==
    ASSUME TxAssumption, TxSendTypeOK, NEW a \in Agents
    PROVE  /\ Return(a) => Becomes(a, Left(a))
           /\ \A pc \in Pcs : Goto(a, pc) => Becomes(a, At(a, pc))
           /\ \A h, raw \in MaybeHashes : resumeBroadcast(a, h, raw) =>
                 Becomes(a, Holding("send", raw, h)) \/ Becomes(a, Left(a))
  <1>1. agent \in [Agents -> AgentState] /\ agent[a] \in AgentState
    BY TypeFacts
  <1>2. 0 \in MaybeHashes
    BY DEF TxAssumption, MaybeHashes
  <1>3. Left(a) \in AgentState
    BY LeftRecord
  <1>4. ASSUME Return(a) PROVE Becomes(a, Left(a))
    <2>1. agent' = [agent EXCEPT ![a] = Left(a)]
      BY <1>4, Zenon DEF Return, Left
    <2> QED  BY <1>1, <1>3, <2>1, OneAgent
  <1>5. ASSUME NEW pc \in Pcs, Goto(a, pc) PROVE Becomes(a, At(a, pc))
    <2>1. agent' = [agent EXCEPT ![a] = At(a, pc)]
      BY <1>1, <1>5, Zenon DEF Goto, At
    <2>2. At(a, pc) \in AgentState
      BY <1>1, MovedRecord DEF Kept
    <2> QED  BY <1>1, <2>1, <2>2, OneAgent
  <1>6. ASSUME NEW h \in MaybeHashes, NEW raw \in MaybeHashes, resumeBroadcast(a, h, raw)
        PROVE  Becomes(a, Holding("send", raw, h)) \/ Becomes(a, Left(a))
    <2>1. CASE row[h].status \in Broadcasting
      <3>1. agent' = [agent EXCEPT ![a] = Holding("send", raw, h)]
        BY <1>6, <2>1, Zenon DEF resumeBroadcast, Holding
      <3>2. "send" \in Pcs
        BY DEF Pcs
      <3>3. Holding("send", raw, h) \in AgentState
        BY <3>2, HoldingRecord DEF Held
      <3> QED  BY <1>1, <3>1, <3>3, OneAgent
    <2>2. CASE row[h].status \notin Broadcasting
      BY <1>4, <1>6, <2>2 DEF resumeBroadcast
    <2> QED  BY <2>1, <2>2
  <1> QED  BY <1>4, <1>5, <1>6

-----------------------------------------------------------------------------
RowsKept == \A h \in Hashes : row[h] # NoTx => row'[h] # NoTx

(* The transactions a step may sign: one with a nonce of Allocate, one     *)
(* more of a row's nonce, one of a client.                                 *)
AllocatedTx(tx) ==
    /\ tx.from = Custodial /\ ~tx.again
    /\ next <= tx.nonce /\ tx.nonce < next'
    /\ tx.amount = Asked /\ (tx.value = Asked \/ tx.kind = "erc20")
SpedUpTx(tx, h) ==
    /\ h \in Signed /\ row[h] # NoTx /\ row' = row
    /\ tx.from = signed[h].from /\ tx.nonce = signed[h].nonce /\ tx.kind = signed[h].kind
    /\ tx.again /\ tx.amount = signed[h].value
    /\ tx.value = signed[h].value \/ tx.kind = "erc20"
ClientTx(tx) == tx.from = Client /\ ~tx.again /\ tx.amount = Asked /\ tx.value = Asked
Signs(tx) ==
    /\ signed' = Append(signed, tx)
    /\ AllocatedTx(tx) \/ ClientTx(tx) \/ \E h \in Signed : SpedUpTx(tx, h)

(* What is signed stays signed.                                            *)
SignedKept ==
    /\ signed' \in Seq(TxState)
    /\ Signed \subseteq Signed'
    /\ \A h \in Signed : signed'[h] = signed[h]

(* A signature adds one transaction to the others.                         *)
LEMMA SignedAppend ==
    ASSUME signed \in Seq(TxState), NEW tx \in TxState, signed' = Append(signed, tx)
    PROVE  /\ SignedKept
           /\ Len(signed') = Len(signed) + 1
           /\ signed'[Len(signed')] = tx /\ Len(signed') \in Signed' /\ Len(signed') \notin Signed
           /\ Signed' = Signed \union {Len(signed')}
  <1>1. PICK n \in Nat : n = Len(signed)
    OBVIOUS
  <1>2. /\ signed' \in Seq(TxState) /\ Len(signed') = n + 1
        /\ signed'[n + 1] = tx /\ \A i \in 1..n : signed'[i] = signed[i]
    BY <1>1
  <1>3. Signed = 1..n /\ Signed' = 1..(n + 1)
    BY <1>1, <1>2 DEF Signed
  <1>4. 1..(n + 1) = (1..n) \union {n + 1} /\ n + 1 \notin 1..n
    OBVIOUS
  <1> QED  BY <1>1, <1>2, <1>3, <1>4 DEF SignedKept

(* The facts about what is signed survive a signature, whoever it is by.   *)
LEMMA SigningKeeps ==
    ASSUME signed \in Seq(TxState), next \in Int, next' \in Int, next <= next',
           NoncesGiven, NonceUnique, ValuesKept, RowsKept, Signed \subseteq Hashes,
           NEW tx \in TxState, Signs(tx)
    PROVE  NoncesGiven' /\ NonceUnique' /\ ValuesKept'
  <1> DEFINE n == Len(signed')
  <1>1. /\ Signed' = Signed \union {n} /\ n \notin Signed /\ signed'[n] = tx
        /\ \A h \in Signed : signed'[h] = signed[h]
    BY SignedAppend DEF Signs, SignedKept
  <1>2. \A h \in Signed : signed[h] \in TxState
    BY DEF Signed
  <1>n. \A h \in Signed : signed[h].nonce \in Nat
    BY <1>2 DEF TxState
  <1>m. tx.nonce \in Nat
    BY DEF TxState
  <1> HIDE DEF n
  <1>3. tx.from = Custodial => tx.nonce < next'
    <2>1. CASE AllocatedTx(tx)
      BY <2>1 DEF AllocatedTx
    <2>2. CASE ClientTx(tx)
      BY <2>2 DEF ClientTx, Client, Custodial
    <2>3. ASSUME NEW h \in Signed, SpedUpTx(tx, h), tx.from = Custodial PROVE tx.nonce < next'
      <3>1. signed[h].nonce < next
        BY <2>3 DEF SpedUpTx, NoncesGiven
      <3> QED  BY <1>n, <2>3, <3>1 DEF SpedUpTx
    <2> QED  BY <2>1, <2>2, <2>3 DEF Signs
  <1>4. \A h \in Signed : signed[h].from = Custodial => signed[h].nonce < next'
    BY <1>n DEF NoncesGiven
  <1>5. NoncesGiven'
    BY <1>1, <1>3, <1>4 DEF NoncesGiven
  <1>6. NonceUnique'
    <2> SUFFICES ASSUME NEW g \in Signed', NEW h \in Signed', g # h,
                        signed'[g].from = Custodial, ~signed'[g].again,
                        signed'[h].from = Custodial, signed'[h].nonce = signed'[g].nonce,
                        ~signed'[h].again
                 PROVE  FALSE
      BY DEF NonceUnique, Siblings
    <2>1. CASE g \in Signed /\ h \in Signed
      BY <1>1, <2>1 DEF NonceUnique, Siblings
    <2>2. ASSUME NEW k \in Signed, signed[k].from = Custodial, tx.from = Custodial, ~tx.again,
                 signed[k].nonce = tx.nonce
          PROVE  FALSE
      <3>1. AllocatedTx(tx)
        BY <2>2 DEF Signs, ClientTx, SpedUpTx, Client, Custodial
      <3>2. signed[k].nonce < next /\ next <= tx.nonce
        BY <2>2, <3>1 DEF NoncesGiven, AllocatedTx
      <3> QED  BY <1>n, <1>m, <2>2, <3>2
    <2> QED  BY <1>1, <2>1, <2>2
  <1>7. ASSUME NEW h \in Signed, NEW g \in Siblings(h) PROVE g \in Siblings(h)' /\ g \in Signed
    BY <1>1, <1>7 DEF Siblings
  <1>8. ValuesKept'
    <2> SUFFICES ASSUME NEW h \in Signed'
                 PROVE  /\ \/ signed'[h].value = Asked
                           \/ signed'[h].kind = "erc20" /\ (signed'[h].from = Custodial \/ signed'[h].again)
                        /\ \/ signed'[h].amount = Asked
                           \/ /\ signed'[h].kind = "erc20" /\ signed'[h].again
                              /\ \E g \in Siblings(h)' :
                                    row'[g] # NoTx /\ (signed'[g].from = Custodial \/ signed'[g].again)
      BY DEF ValuesKept
    <2>1. CASE h \in Signed
      <3>1. signed'[h] = signed[h]
        BY <1>1, <2>1
      <3>2. \/ signed[h].value = Asked
            \/ signed[h].kind = "erc20" /\ (signed[h].from = Custodial \/ signed[h].again)
        BY <2>1 DEF ValuesKept
      <3>3. \/ signed[h].amount = Asked
            \/ /\ signed[h].kind = "erc20" /\ signed[h].again
               /\ \E g \in Siblings(h) : row[g] # NoTx /\ (signed[g].from = Custodial \/ signed[g].again)
        BY <2>1 DEF ValuesKept
      <3>4. ASSUME NEW g \in Siblings(h), row[g] # NoTx, signed[g].from = Custodial \/ signed[g].again
            PROVE  /\ g \in Siblings(h)' /\ row'[g] # NoTx
                   /\ signed'[g].from = Custodial \/ signed'[g].again
        BY <1>1, <1>7, <2>1, <3>4 DEF RowsKept
      <3> QED  BY <3>1, <3>2, <3>3, <3>4
    <2>2. CASE h = n
      <3>1. signed'[h] = tx
        BY <1>1, <2>2
      <3>2. CASE AllocatedTx(tx)
        BY <3>1, <3>2 DEF AllocatedTx
      <3>3. CASE ClientTx(tx)
        BY <3>1, <3>3 DEF ClientTx
      <3>4. ASSUME NEW g \in Signed, SpedUpTx(tx, g)
            PROVE  /\ \/ tx.value = Asked
                      \/ tx.kind = "erc20" /\ (tx.from = Custodial \/ tx.again)
                   /\ \/ tx.amount = Asked
                      \/ /\ tx.kind = "erc20" /\ tx.again
                         /\ g \in Siblings(h)' /\ row'[g] # NoTx
                         /\ signed'[g].from = Custodial \/ signed'[g].again
        <4>1. /\ tx.again /\ tx.kind = signed[g].kind /\ tx.amount = signed[g].value
              /\ tx.value = signed[g].value \/ tx.kind = "erc20"
              /\ row'[g] # NoTx
          BY <3>4 DEF SpedUpTx
        <4>2. signed'[g] = signed[g] /\ g # h /\ g \in Signed'
          BY <1>1, <2>2
        <4>3. g \in Siblings(h)'
          BY <3>1, <3>4, <4>2 DEF Siblings, SpedUpTx
        <4>4. \/ signed[g].value = Asked
              \/ signed[g].kind = "erc20" /\ (signed[g].from = Custodial \/ signed[g].again)
          BY DEF ValuesKept
        <4> QED  BY <4>1, <4>2, <4>3, <4>4
      <3> QED  BY <3>1, <3>2, <3>3, <3>4 DEF Signs
    <2> QED  BY <1>1, <2>1, <2>2
  <1> QED  BY <1>5, <1>6, <1>8

(* ... and every other step.                                               *)
LEMMA NotSigningKeeps ==
    ASSUME signed \in Seq(TxState), next \in Int, next' \in Int, next <= next',
           NoncesGiven, NonceUnique, ValuesKept, RowsKept, Signed \subseteq Hashes, signed' = signed
    PROVE  NoncesGiven' /\ NonceUnique' /\ ValuesKept' /\ SignedKept
  <1>a. Signed' = Signed
    BY DEF Signed
  <1>b. \A h \in Signed : signed[h].nonce \in Nat
    <2>1. \A h \in Signed : signed[h] \in TxState
      BY DEF Signed
    <2> QED  BY <2>1 DEF TxState
  <1>c. \A h : Siblings(h)' = Siblings(h)
    BY <1>a DEF Siblings
  <1>1. Signed' = Signed /\ \A h \in Signed : signed[h].nonce \in Nat /\ Siblings(h)' = Siblings(h)
    BY <1>a, <1>b, <1>c
  <1>2. NoncesGiven'
    BY <1>1 DEF NoncesGiven
  <1>3. NonceUnique'
    BY <1>1 DEF NonceUnique
  <1>4. \A h \in Signed : \A g \in Siblings(h) : g \in Hashes
    BY DEF Siblings
  <1>5. ValuesKept'
    BY <1>1, <1>4 DEF ValuesKept, RowsKept
  <1> QED  BY <1>1, <1>2, <1>3, <1>5 DEF SignedKept

-----------------------------------------------------------------------------
(* An agent that calls become, against what is signed and the rows.        *)
AgentOK(r, sg, rw) ==
    /\ r.pc \in {"insert", "send", "accepted", "rejected"} => r.tx \in DOMAIN sg /\ r.target \in DOMAIN sg
    /\ r.pc = "send" /\ sg[r.tx].key = NoKey => rw[r.tx] # NoTx
ReconcilerOK(r, rw) ==
    /\ r.pc \in {"idle", "send", "accepted", "rejected"} /\ ~r.sync
    /\ r.pc # "idle" => rw[r.target] # NoTx /\ rw[r.target].retry < BroadcastMaxRetries

(* AgentsHoldSigned in these terms.                                        *)
LEMMA AgentFacts ==
    AgentsHoldSigned <=>
        (\A a \in Agents : AgentOK(agent[a], signed, row)) /\ ReconcilerOK(agent[Reconciler], row)
  BY DEF AgentsHoldSigned, AgentOK, ReconcilerOK, Signed

(* Rows move on: a row stays, changes its status or its retries, or comes  *)
(* to hold a transaction of its own or of its key.                         *)
RowMove(g) ==
    \/ row'[g] = row[g]
    \/ /\ row'[g].status # "none"
       /\ \/ row[g] # NoTx /\ row'[g].raw = row[g].raw
          \/ /\ g \in Signed /\ row'[g].raw \in Signed
             /\ row'[g].raw = g \/ (signed[g].key # NoKey /\ signed[row'[g].raw].key = signed[g].key)
RowsMove == row' \in [Hashes -> RowState] /\ \A g \in Hashes : RowMove(g)
RetriesKept == \A g \in Hashes : row[g] # NoTx => row'[g].retry = row[g].retry

(* The node learns only what is signed and, without a key, has a row.      *)
NodeMoves ==
    /\ node' \in [Hashes -> {"unknown", "mempool"} \union InBlock]
    /\ \A g \in Hashes : node'[g] # "unknown" =>
          \/ node[g] # "unknown"
          \/ g \in Signed /\ (signed[g].key = NoKey => row'[g] # NoTx)

(* What a step does, as far as TxSendInv tells steps apart.                *)
StepOK ==
    /\ next' \in Int /\ next <= next'
    /\ CallsSpent'
    /\ signed' = signed \/ \E tx \in TxState : Signs(tx)
    /\ RowsMove /\ NodeMoves
    /\ agent' \in [Agents -> AgentState] /\ AgentsHoldSigned'

(* Rows stay.                                                              *)
LEMMA RowsStay ==
    ASSUME RowsMove PROVE RowsKept
  BY DEF RowsMove, RowMove, RowsKept, NoTx

(* What is signed has a hash.                                              *)
LEMMA SignedHashes ==
    ASSUME TxAssumption, TxSendTypeOK, CallsSpent
    PROVE  Signed \subseteq Hashes /\ Len(signed) \in Nat /\ Signed = 1..Len(signed)
  <1>1. signed \in Seq(TxState) /\ MaxCalls \in Nat
    BY TypeFacts DEF TxAssumption
  <1>2. PICK n \in Nat : n = Len(signed)
    BY <1>1
  <1>3. n <= MaxCalls
    <2>1. n <= Cardinality(Spent)
      BY <1>2 DEF CallsSpent
    <2> QED  BY <1>1, <2>1, SpentCount
  <1>4. Signed = 1..n
    BY <1>1, <1>2 DEF Signed
  <1> QED  BY <1>1, <1>2, <1>3, <1>4 DEF Hashes

(* A step of that kind keeps TxSendInv.                                    *)
LEMMA StepKeeps ==
    ASSUME TxAssumption, TxSendInv, StepOK
    PROVE  TxSendInv'
  <1>1. /\ next \in Int /\ signed \in Seq(TxState) /\ MaxCalls \in Nat
        /\ Signed \subseteq Hashes /\ RowsKept
        /\ -1 <= next
    BY TypeFacts, SignedHashes, RowsStay DEF TxSendInv, StepOK, TxAssumption
  <1>2. NoncesGiven' /\ NonceUnique' /\ ValuesKept' /\ SignedKept
    <2>1. CASE signed' = signed
      BY <1>1, <2>1, NotSigningKeeps DEF TxSendInv, StepOK
    <2>2. ASSUME NEW tx \in TxState, Signs(tx)
          PROVE  NoncesGiven' /\ NonceUnique' /\ ValuesKept' /\ SignedKept
      <3>1. NoncesGiven' /\ NonceUnique' /\ ValuesKept'
        BY <1>1, <2>2, SigningKeeps DEF TxSendInv, StepOK
      <3>2. SignedKept
        BY <1>1, <2>2, SignedAppend DEF Signs
      <3> QED  BY <3>1, <3>2
    <2> QED  BY <2>1, <2>2 DEF StepOK
  <1>3. TxSendTypeOK'
    <2>1. next' \in -1..(2 * MaxCalls)
      <3>1. Spent' \in SUBSET Calls
        BY DEF Spent
      <3>2. PICK c \in Nat : c = Cardinality(Spent')
        BY <3>1, CallsCount
      <3>3. c <= MaxCalls /\ next' <= MaxCalls + c
        BY <3>1, <3>2, CallsCount DEF StepOK, CallsSpent
      <3> QED  BY <1>1, <3>3 DEF StepOK
    <2>2. /\ signed' \in Seq(TxState)
          /\ row' \in [Hashes -> RowState]
          /\ agent' \in [Agents -> AgentState]
          /\ node' \in [Hashes -> {"unknown", "mempool"} \union InBlock]
      BY <1>2 DEF SignedKept, StepOK, RowsMove, NodeMoves
    <2> QED  BY <2>1, <2>2 DEF TxSendTypeOK, TxState, RowState, AgentState, Pcs, MaybeHashes
  <1>4. RowsHoldSigned'
    <2> SUFFICES ASSUME NEW h \in Hashes
                 PROVE  /\ row'[h] # NoTx =>
                              /\ row'[h].status # "none"
                              /\ h \in Signed' /\ row'[h].raw \in Signed'
                              /\ \/ row'[h].raw = h
                                 \/ signed'[h].key # NoKey /\ signed'[row'[h].raw].key = signed'[h].key
                        /\ node'[h] # "unknown" => h \in Signed'
      BY DEF RowsHoldSigned, Sent
    <2>1. /\ row[h] # NoTx =>
                /\ row[h].status # "none"
                /\ h \in Signed /\ row[h].raw \in Signed
                /\ row[h].raw = h \/ (signed[h].key # NoKey /\ signed[row[h].raw].key = signed[h].key)
          /\ node[h] # "unknown" => h \in Signed
      BY DEF TxSendInv, RowsHoldSigned, Sent
    <2>2. Signed \subseteq Signed' /\ \A g \in Signed : signed'[g] = signed[g]
      BY <1>2 DEF SignedKept
    <2>3. RowMove(h)
      BY DEF StepOK, RowsMove
    <2>4. node'[h] # "unknown" => h \in Signed'
      BY <2>1, <2>2 DEF StepOK, NodeMoves
    <2>5. row'[h] # NoTx =>
              /\ row'[h].status # "none"
              /\ h \in Signed /\ row'[h].raw \in Signed
              /\ row'[h].raw = h \/ (signed[h].key # NoKey /\ signed[row'[h].raw].key = signed[h].key)
      BY <2>1, <2>3 DEF RowMove
    <2> QED  BY <2>2, <2>4, <2>5
  <1>5. UnkeyedIsTracked'
    <2> SUFFICES ASSUME NEW h \in Signed', node'[h] # "unknown", signed'[h].key = NoKey, h \in Hashes
                 PROVE  row'[h] # NoTx
      <3>1. Signed' \subseteq Hashes
        <4>1. Spent' \in SUBSET Calls /\ signed' \in Seq(TxState)
          BY <1>2 DEF Spent, SignedKept
        <4>2. PICK c \in Nat : c = Cardinality(Spent')
          BY <4>1, CallsCount
        <4>3. PICK n \in Nat : n = Len(signed')
          BY <4>1
        <4>4. n <= c /\ c <= MaxCalls
          BY <4>1, <4>2, <4>3, CallsCount DEF StepOK, CallsSpent
        <4>5. Signed' = 1..n
          BY <4>1, <4>3 DEF Signed
        <4> QED  BY <1>1, <4>4, <4>5 DEF Hashes
      <3> QED  BY <3>1 DEF UnkeyedIsTracked, Sent
    <2>1. h \in Signed /\ signed'[h] = signed[h]
      BY <1>2 DEF SignedKept, StepOK, NodeMoves, TxSendInv, RowsHoldSigned, Sent
    <2>2. node[h] # "unknown" => row[h] # NoTx
      BY <2>1 DEF TxSendInv, UnkeyedIsTracked, Sent
    <2> QED  BY <1>1, <2>1, <2>2 DEF StepOK, NodeMoves, RowsKept
  <1>6. CallsSpent' /\ AgentsHoldSigned'
    BY DEF StepOK
  <1> QED  BY <1>2, <1>3, <1>4, <1>5, <1>6 DEF TxSendInv

-----------------------------------------------------------------------------
(* Agent a moves to a record that goes with what is signed and the rows    *)
(* after the step; only the reconciler changes retries.                    *)
Goes(a, r) ==
    /\ Becomes(a, r)
    /\ AgentOK(r, signed', row')
    /\ a = Reconciler => ReconcilerOK(r, row')
    /\ a # Reconciler => RetriesKept
    /\ a \in Spent => r.pc \notin {"idle", "allocate"}

(* Such a move keeps the others in step.                                   *)
LEMMA OthersHold ==
    ASSUME TxSendTypeOK, AgentsHoldSigned, SignedKept, RowsMove, Signed \subseteq Hashes,
           NEW a \in Agents, NEW r, Goes(a, r)
    PROVE  agent' \in [Agents -> AgentState] /\ AgentsHoldSigned'
  <1>1. /\ agent' \in [Agents -> AgentState] /\ agent'[a] = r
        /\ \A b \in Agents \ {a} : agent'[b] = agent[b]
    BY DEF Goes, Becomes
  <1>2. RowsKept
    BY RowsStay
  <1>3. Reconciler \in Agents
    BY DEF Agents
  <1>4. \A b \in Agents : AgentOK(agent[b], signed, row)
    BY AgentFacts
  <1>5. ASSUME NEW b \in Agents PROVE AgentOK(agent'[b], signed', row')
    <2>1. CASE b = a
      BY <1>1, <2>1 DEF Goes
    <2>2. CASE b # a
      <3>1. AgentOK(agent[b], signed, row) /\ agent'[b] = agent[b]
        BY <1>1, <1>4, <2>2
      <3>2. Signed \subseteq Signed' /\ \A h \in Signed : signed'[h] = signed[h]
        BY DEF SignedKept
      <3> QED  BY <1>2, <3>1, <3>2 DEF AgentOK, Signed, RowsKept
    <2> QED  BY <2>1, <2>2
  <1>6. ReconcilerOK(agent'[Reconciler], row')
    <2>1. CASE a = Reconciler
      BY <1>1, <2>1 DEF Goes
    <2>2. CASE a # Reconciler
      <3>1. agent'[Reconciler] = agent[Reconciler] /\ RetriesKept
        BY <1>1, <1>3, <2>2 DEF Goes
      <3>2. ReconcilerOK(agent[Reconciler], row) /\ AgentOK(agent[Reconciler], signed, row)
        BY <1>3, AgentFacts
      <3>3. agent[Reconciler].pc # "idle" => agent[Reconciler].target \in Hashes
        BY <3>2 DEF ReconcilerOK, AgentOK, Signed
      <3> QED  BY <1>2, <3>1, <3>2, <3>3 DEF ReconcilerOK, RetriesKept, RowsKept
    <2> QED  BY <2>1, <2>2
  <1>7. AgentsHoldSigned'
    BY <1>5, <1>6 DEF AgentsHoldSigned, AgentOK, ReconcilerOK, Signed
  <1> QED  BY <1>1, <1>7

(* The calls that are past their signature, after such a move.             *)
LEMMA SpentGrows ==
    ASSUME TxAssumption, NEW a \in Agents, NEW r, Goes(a, r)
    PROVE  /\ Cardinality(Spent) \in Nat /\ Cardinality(Spent') \in Nat
           /\ Cardinality(Spent) <= Cardinality(Spent')
           /\ a \in Calls /\ a \notin Spent /\ r.pc \notin {"idle", "allocate"} =>
                 Cardinality(Spent') = Cardinality(Spent) + 1
  <1>1. /\ agent'[a] = r
        /\ \A b \in Agents \ {a} : agent'[b] = agent[b]
    BY DEF Goes, Becomes
  <1>2. Spent \in SUBSET Calls /\ Spent' \in SUBSET Calls /\ Calls \subseteq Agents
    BY DEF Spent, Agents
  <1>3. Spent' = Spent \/ (a \in Calls /\ a \notin Spent /\ Spent' = Spent \union {a})
    BY <1>1, <1>2 DEF Spent, Goes
  <1>4. a \in Calls /\ a \notin Spent /\ r.pc \notin {"idle", "allocate"} => Spent' = Spent \union {a}
    BY <1>1, <1>2 DEF Spent, Goes
  <1>5. /\ Cardinality(Spent) \in Nat /\ Cardinality(Spent') \in Nat
        /\ a \in Calls /\ a \notin Spent => Cardinality(Spent \union {a}) = Cardinality(Spent) + 1
    BY <1>2, CallsCount
  <1> QED  BY <1>3, <1>4, <1>5

(* A step of an agent that signs nothing and takes no nonce.               *)
LEMMA QuietStep ==
    ASSUME TxAssumption, TxSendInv, NEW a \in Agents, NEW r, Goes(a, r),
           next' \in Int, next <= next', next' = next \/ next' <= MaxCalls,
           signed' = signed, RowsMove, NodeMoves
    PROVE  StepOK
  <1>1. SignedKept
    BY TypeFacts DEF TxSendInv, SignedKept, Signed
  <1>2. Signed \subseteq Hashes /\ Len(signed) \in Nat
    BY SignedHashes DEF TxSendInv
  <1>3. agent' \in [Agents -> AgentState] /\ AgentsHoldSigned'
    BY <1>1, <1>2, OthersHold DEF TxSendInv
  <1>4. CallsSpent'
    <2>1. PICK c \in Nat, d \in Nat : c = Cardinality(Spent) /\ d = Cardinality(Spent')
      BY SpentGrows
    <2>2. c <= d
      BY <2>1, SpentGrows
    <2>3. Len(signed) <= c /\ next <= MaxCalls + c
      BY <2>1 DEF TxSendInv, CallsSpent
    <2>4. MaxCalls \in Nat /\ next \in Int
      BY TypeFacts DEF TxAssumption, TxSendInv
    <2>5. Len(signed') <= d /\ next' <= MaxCalls + d
      BY <1>2, <2>2, <2>3, <2>4
    <2> QED  BY <2>1, <2>5 DEF CallsSpent
  <1> QED  BY <1>3, <1>4 DEF StepOK

(* A step of a call that takes a nonce, or signs, or both.                 *)
LEMMA SpendingStep ==
    ASSUME TxAssumption, TxSendInv, NEW a \in Calls, a \notin Spent, NEW r, Goes(a, r),
           r.pc \notin {"idle", "allocate"},
           next' \in Int, next <= next', next' <= next + 1 \/ next' <= MaxCalls + 1,
           signed' = signed \/ \E tx \in TxState : Signs(tx), RowsMove, NodeMoves
    PROVE  StepOK
  <1>1. SignedKept /\ Len(signed) \in Nat /\ Len(signed') \in Nat /\ Len(signed') <= Len(signed) + 1
    <2>1. signed \in Seq(TxState)
      BY TypeFacts DEF TxSendInv
    <2>2. CASE signed' = signed
      BY <2>1, <2>2 DEF SignedKept, Signed
    <2>3. ASSUME NEW tx \in TxState, Signs(tx)
          PROVE  SignedKept /\ Len(signed) \in Nat /\ Len(signed') = Len(signed) + 1
      BY <2>1, <2>3, SignedAppend DEF Signs
    <2>4. CASE \E tx \in TxState : Signs(tx)
      <3>1. SignedKept /\ Len(signed) \in Nat /\ Len(signed') = Len(signed) + 1
        BY <2>3, <2>4
      <3>2. PICK n \in Nat : n = Len(signed)
        BY <3>1
      <3> QED  BY <3>1, <3>2
    <2> QED  BY <2>2, <2>4
  <1>2. Signed \subseteq Hashes
    BY SignedHashes DEF TxSendInv
  <1>3. a \in Agents
    BY DEF Agents
  <1>4. agent' \in [Agents -> AgentState] /\ AgentsHoldSigned'
    BY <1>1, <1>2, <1>3, OthersHold DEF TxSendInv
  <1>5. CallsSpent'
    <2>1. PICK c \in Nat : c = Cardinality(Spent) /\ Cardinality(Spent') = c + 1
      BY <1>3, SpentGrows
    <2>2. Len(signed) <= c /\ next <= MaxCalls + c
      BY <2>1 DEF TxSendInv, CallsSpent
    <2>3. MaxCalls \in Nat /\ next \in Int
      BY TypeFacts DEF TxAssumption, TxSendInv
    <2>4. PICK n \in Nat, m \in Nat : n = Len(signed) /\ m = Len(signed')
      BY <1>1
    <2>5. m <= c + 1
      BY <1>1, <2>2, <2>4
    <2>6. next' <= MaxCalls + (c + 1)
      BY <2>2, <2>3
    <2> QED  BY <2>1, <2>4, <2>5, <2>6 DEF CallsSpent
  <1> QED  BY <1>4, <1>5 DEF StepOK

(* Rows and node that stay.                                                *)
LEMMA StayMoves ==
    ASSUME TxSendTypeOK
    PROVE  /\ row' = row => RowsMove /\ RetriesKept
           /\ node' = node => NodeMoves
  BY TypeFacts DEF RowsMove, RowMove, RetriesKept, NodeMoves

-----------------------------------------------------------------------------
(* A call that ends, or a turn of the reconciler.                          *)
LEMMA Leaves ==
    ASSUME TxAssumption, TxSendTypeOK, NEW a \in Agents, Becomes(a, Left(a)),
           a # Reconciler => RetriesKept
    PROVE  Goes(a, Left(a)) /\ (a \in Calls => Left(a).pc = "done")
  <1>2. Left(a).sync = FALSE /\ Left(a).pc = IF a = Reconciler THEN "idle" ELSE "done"
    BY LeftRecord
  <1>3. a \in Calls => a # Reconciler
    BY DEF Calls, Reconciler
  <1>4. Spent \subseteq Calls
    BY DEF Spent
  <1> QED  BY <1>2, <1>3, <1>4 DEF Goes, AgentOK, ReconcilerOK

(* The reconciler is no call; a call that begins has not signed.           *)
LEMMA Begins ==
    /\ Reconciler \in Agents /\ Reconciler \notin Calls /\ Reconciler \notin Spent
    /\ Calls \subseteq Agents
    /\ \A a \in Calls : agent[a].pc \in {"idle", "allocate"} => a \notin Spent
  BY DEF Agents, Calls, Reconciler, Spent

(* CutOff of a call or of a turn of the reconciler.                        *)
LEMMA CutOffKeeps ==
    ASSUME TxAssumption, TxSendInv, NEW a \in Agents, CutOff(a)
    PROVE  StepOK
  <1>1. TxSendTypeOK
    BY DEF TxSendInv
  <1>2. RowsMove /\ RetriesKept /\ NodeMoves
    BY <1>1, StayMoves DEF CutOff
  <1>3. Goes(a, Left(a))
    BY <1>1, <1>2, AgentMoves, Leaves DEF CutOff
  <1>4. next' = next /\ signed' = signed /\ next \in Int
    BY <1>1, TypeFacts DEF CutOff
  <1> QED  BY <1>1, <1>2, <1>3, <1>4, QuietStep

(* SyncFromChain, which never lowers next_nonce.                           *)
LEMMA SyncFromChainKeeps ==
    ASSUME TxAssumption, TxSendInv, NEW a \in Calls, SyncFromChain(a)
    PROVE  StepOK
  <1>1. TxSendTypeOK /\ a \in Agents /\ CallsSpent
    BY Begins DEF TxSendInv
  <1>2. RowsMove /\ RetriesKept /\ NodeMoves
    BY <1>1, StayMoves DEF SyncFromChain
  <1>3. Goes(a, Left(a))
    BY <1>1, <1>2, AgentMoves, Leaves DEF SyncFromChain
  <1>4. PICK n \in 0..MaxCalls : n = PendingNonce
    BY <1>1, PendingNonceFound
  <1>5. signed' = signed /\ next \in Int /\ MaxCalls \in Nat /\ next' = IF n > next THEN n ELSE next
    BY <1>1, <1>4, TypeFacts DEF SyncFromChain, TxAssumption
  <1>6. next' \in Int /\ next <= next' /\ (next' = next \/ next' <= MaxCalls)
    BY <1>5
  <1> QED  BY <1>1, <1>2, <1>3, <1>5, <1>6, QuietStep

(* What the rows and the agents hold to broadcast.                         *)
LEMMA HeldFacts ==
    ASSUME TxAssumption, TxSendInv
    PROVE  /\ \A h \in Hashes : row[h] # NoTx =>
                 /\ row[h].status # "none" /\ h \in Signed /\ row[h].raw \in Signed
                 /\ signed[row[h].raw].key = NoKey => row[row[h].raw] # NoTx
           /\ \A h \in Hashes : row[h].status # "none" => row[h] # NoTx
           /\ Signed \subseteq Hashes /\ Hashes \subseteq MaybeHashes
           /\ \A a \in Agents : agent[a].pc \in {"insert", "send", "accepted", "rejected"} =>
                 agent[a].tx \in Signed /\ agent[a].target \in Signed
           /\ next \in Int /\ signed \in Seq(TxState) /\ row \in [Hashes -> RowState]
           /\ agent \in [Agents -> AgentState] /\ TxSendTypeOK
  <1>1. Signed \subseteq Hashes /\ Hashes \subseteq MaybeHashes
    BY SignedHashes DEF TxSendInv, Hashes, MaybeHashes, TxAssumption
  <1>2. next \in Int /\ signed \in Seq(TxState) /\ row \in [Hashes -> RowState]
        /\ agent \in [Agents -> AgentState] /\ TxSendTypeOK
    BY TypeFacts DEF TxSendInv
  <1>3. \A h \in Hashes : row[h].status # "none" => row[h] # NoTx
    BY DEF NoTx
  <1>4. \A a \in Agents : agent[a].pc \in {"insert", "send", "accepted", "rejected"} =>
           agent[a].tx \in Signed /\ agent[a].target \in Signed
    BY DEF TxSendInv, AgentsHoldSigned
  <1>5. ASSUME NEW h \in Hashes, row[h] # NoTx
        PROVE  /\ row[h].status # "none" /\ h \in Signed /\ row[h].raw \in Signed
               /\ signed[row[h].raw].key = NoKey => row[row[h].raw] # NoTx
    BY <1>5 DEF TxSendInv, RowsHoldSigned
  <1> QED  BY <1>1, <1>2, <1>3, <1>4, <1>5

(* resumeBroadcast by a call, of what is signed and has its row or a key.  *)
LEMMA ResumeGoes ==
    ASSUME TxAssumption, TxSendInv, NEW a \in Calls, row' = row, SignedKept,
           Signed' \subseteq Hashes, NEW h \in Signed', NEW raw \in Signed',
           signed'[raw].key = NoKey => row[raw] # NoTx, resumeBroadcast(a, h, raw)
    PROVE  \E r : Goes(a, r) /\ r.pc \notin {"idle", "allocate"}
  <1>1. TxSendTypeOK /\ a \in Agents /\ a # Reconciler /\ RetriesKept
    BY HeldFacts, Begins, StayMoves
  <1>2. h \in MaybeHashes /\ raw \in MaybeHashes
    BY HeldFacts
  <1>3. Becomes(a, Holding("send", raw, h)) \/ Becomes(a, Left(a))
    BY <1>1, <1>2, AgentMoves
  <1>4. CASE Becomes(a, Left(a))
    <2>1. Goes(a, Left(a)) /\ Left(a).pc = "done"
      BY <1>1, <1>4, Leaves
    <2> QED  BY <2>1
  <1>5. CASE Becomes(a, Holding("send", raw, h))
    <2>1. "send" \in Pcs
      BY DEF Pcs
    <2>2. PICK r : r = Holding("send", raw, h)
      OBVIOUS
    <2>a. Held(r, "send", raw, h)
      BY <1>2, <2>1, <2>2, HoldingRecord
    <2>3. AgentOK(r, signed', row')
      BY <2>a DEF Held, AgentOK, Signed
    <2>4. Goes(a, r) /\ r.pc = "send"
      BY <1>1, <1>5, <2>2, <2>a, <2>3 DEF Goes, Held
    <2> QED  BY <2>4
  <1> QED  BY <1>3, <1>4, <1>5

(* checkIdempotency: a row of the key is resumed, or the call goes on.     *)
LEMMA CheckIdempotencyKeeps ==
    ASSUME TxAssumption, TxSendInv, NEW a \in Calls, NEW key \in Keys \union {NoKey},
           NEW kind \in Kinds, checkIdempotency(a, key, kind)
    PROVE  StepOK
  <1>1. /\ next' = next /\ signed' = signed /\ row' = row /\ node' = node
        /\ agent[a].pc = "idle"
    BY DEF checkIdempotency, Call
  <1>2. /\ TxSendTypeOK /\ a \in Agents /\ a # Reconciler /\ a \notin Spent
        /\ RowsMove /\ RetriesKept /\ NodeMoves /\ next \in Int
    BY <1>1, HeldFacts, Begins, StayMoves
  <1>3. SignedKept /\ Signed' \subseteq Hashes /\ Signed' = Signed
    BY <1>1, HeldFacts DEF SignedKept, Signed
  <1>4. ASSUME NEW h \in RowsOf(key), resumeBroadcast(a, h, row[h].raw)
        PROVE  \E r : Goes(a, r)
    <2>1. h \in Signed /\ row[h] # NoTx
      BY DEF RowsOf
    <2>2. row[h].raw \in Signed /\ (signed[row[h].raw].key = NoKey => row[row[h].raw] # NoTx)
      BY <2>1, HeldFacts
    <2> QED  BY <1>1, <1>3, <1>4, <2>1, <2>2, ResumeGoes
  <1>5. ASSUME agent' = [agent EXCEPT ![a] = Asking(key, kind)]
        PROVE  \E r : Goes(a, r)
    <2>1. agent \in [Agents -> AgentState]
      BY <1>2, TypeFacts
    <2>2. Asking(key, kind) \in AgentState /\ Asking(key, kind).pc = "allocate"
      BY AskingRecord
    <2>3. Becomes(a, Asking(key, kind))
      BY <1>2, <1>5, <2>1, <2>2, OneAgent
    <2>4. Goes(a, Asking(key, kind))
      BY <1>2, <2>2, <2>3 DEF Goes, AgentOK
    <2> QED  BY <2>4
  <1>6. \E r : Goes(a, r)
    <2>1. \/ \E h \in RowsOf(key) : resumeBroadcast(a, h, row[h].raw)
          \/ agent' = [agent EXCEPT ![a] = Asking(key, kind)]
      BY Zenon DEF checkIdempotency, Asking
    <2> QED  BY <1>4, <1>5, <2>1
  <1> QED  BY <1>1, <1>2, <1>6, QuietStep

(* A transaction that a call signs gets a hash that is free.               *)
LEMMA NewHash ==
    ASSUME TxAssumption, TxSendInv, NEW a \in Calls, a \notin Spent,
           NEW tx \in TxState, signed' = Append(signed, tx)
    PROVE  /\ SignedKept /\ Signed' \subseteq Hashes
           /\ Len(signed') \in Signed' /\ signed'[Len(signed')] = tx
  <1>1. signed \in Seq(TxState) /\ Signed = 1..Len(signed) /\ MaxCalls \in Nat
    BY TypeFacts, SignedHashes DEF TxSendInv, TxAssumption
  <1>2. /\ SignedKept /\ Len(signed') \in Signed' /\ signed'[Len(signed')] = tx
        /\ Len(signed') = Len(signed) + 1 /\ signed' \in Seq(TxState)
    BY <1>1, SignedAppend DEF SignedKept
  <1>3. PICK n \in Nat : n = Len(signed)
    BY <1>1
  <1>4. n + 1 <= MaxCalls
    <2>1. PICK c \in Nat : c = Cardinality(Spent)
      BY SpentCount
    <2>2. n <= c /\ c < MaxCalls
      BY <1>3, <2>1, SpentCount DEF TxSendInv, CallsSpent
    <2> QED  BY <1>1, <2>2
  <1>5. Signed' = 1..(n + 1)
    BY <1>2, <1>3 DEF Signed
  <1> QED  BY <1>1, <1>2, <1>4, <1>5 DEF Hashes

(* The row and the transaction that a call is about to write.              *)
LEMMA InsertGoes ==
    ASSUME TxAssumption, TxSendInv, NEW a \in Calls, row' = row, Signed' \subseteq Hashes,
           NEW n \in Signed', agent' = [agent EXCEPT ![a] = Holding("insert", n, n)]
    PROVE  \E r : Goes(a, r) /\ r.pc \notin {"idle", "allocate"}
  <1>1. TxSendTypeOK /\ a \in Agents /\ a # Reconciler /\ RetriesKept /\ agent \in [Agents -> AgentState]
    BY HeldFacts, Begins, StayMoves
  <1>2. n \in MaybeHashes /\ "insert" \in Pcs
    BY HeldFacts DEF Pcs
  <1>3. PICK r : r = Holding("insert", n, n)
    OBVIOUS
  <1>4. Held(r, "insert", n, n)
    BY <1>2, <1>3, HoldingRecord
  <1>5. Becomes(a, r)
    BY <1>1, <1>3, <1>4, OneAgent DEF Held
  <1>6. Goes(a, r) /\ r.pc = "insert"
    BY <1>1, <1>4, <1>5 DEF Goes, Held, AgentOK, Signed
  <1> QED  BY <1>6

(* submit of what a client signed, for the first time or again.            *)
LEMMA SubmitGoes ==
    ASSUME TxAssumption, TxSendInv, NEW a \in Calls, row' = row, SignedKept,
           Signed' \subseteq Hashes, NEW raw \in Signed', NEW key, signed'[raw].key = key,
           submit(a, raw, key)
    PROVE  \E r : Goes(a, r) /\ r.pc \notin {"idle", "allocate"}
  <1>1. ASSUME NEW h \in RowsOf(key), resumeBroadcast(a, h, raw)
        PROVE  \E r : Goes(a, r) /\ r.pc \notin {"idle", "allocate"}
    <2>1. h \in Signed' /\ key # NoKey
      BY DEF RowsOf, SignedKept
    <2> QED  BY <1>1, <2>1, ResumeGoes
  <1>2. ASSUME row[raw] # NoTx, resumeBroadcast(a, raw, raw)
        PROVE  \E r : Goes(a, r) /\ r.pc \notin {"idle", "allocate"}
    BY <1>2, ResumeGoes
  <1>3. ASSUME agent' = [agent EXCEPT ![a] = Holding("insert", raw, raw)]
        PROVE  \E r : Goes(a, r) /\ r.pc \notin {"idle", "allocate"}
    BY <1>3, InsertGoes
  <1>4. \/ \E h \in RowsOf(key) : resumeBroadcast(a, h, raw)
        \/ row[raw] # NoTx /\ resumeBroadcast(a, raw, raw)
        \/ agent' = [agent EXCEPT ![a] = Holding("insert", raw, raw)]
    BY Zenon DEF submit, Holding
  <1> QED  BY <1>1, <1>2, <1>3, <1>4

(* ResubmitRaw signs nothing.                                              *)
LEMMA ResubmitRawKeeps ==
    ASSUME TxAssumption, TxSendInv, NEW a \in Calls, NEW raw \in Signed, ResubmitRaw(a, raw)
    PROVE  StepOK
  <1>1. /\ next' = next /\ signed' = signed /\ row' = row /\ node' = node
        /\ submit(a, raw, signed[raw].key)
    BY DEF ResubmitRaw
  <1>2. a \in Agents /\ RowsMove /\ NodeMoves /\ next \in Int
    BY <1>1, HeldFacts, Begins, StayMoves
  <1>3. SignedKept /\ Signed' \subseteq Hashes /\ raw \in Signed' /\ signed'[raw].key = signed[raw].key
    BY <1>1, HeldFacts DEF SignedKept, Signed
  <1>4. \E r : Goes(a, r)
    BY <1>1, <1>3, SubmitGoes
  <1> QED  BY <1>1, <1>2, <1>4, QuietStep

(* SubmitRaw signs for the client.                                         *)
LEMMA SubmitRawKeeps ==
    ASSUME TxAssumption, TxSendInv, NEW a \in Calls, NEW key \in Keys \union {NoKey},
           NEW kind \in Kinds, SubmitRaw(a, key, kind)
    PROVE  StepOK
  <1> DEFINE tx == SendResultFromSigned([from |-> Client, nonce |-> 0, key |-> key, again |-> FALSE,
                                         kind |-> kind, amount |-> Asked, value |-> 0])
  <1>1. /\ next' = next /\ row' = row /\ node' = node /\ agent[a].pc = "idle"
        /\ signed' = Append(signed, tx) /\ submit(a, Len(signed'), key)
    BY DEF SubmitRaw, Call
  <1>2. tx \in TxState /\ ClientTx(tx) /\ tx.key = key
    BY DEF SendResultFromSigned, TxState, ClientTx, Asked, Client, Custodial
  <1> HIDE DEF tx
  <1>3. a \in Agents /\ RowsMove /\ NodeMoves /\ next \in Int /\ a \notin Spent
    BY <1>1, HeldFacts, Begins, StayMoves
  <1>4. PICK n : n = Len(signed')
    OBVIOUS
  <1>5. SignedKept /\ Signed' \subseteq Hashes /\ n \in Signed' /\ signed'[n].key = key
    BY <1>1, <1>2, <1>3, <1>4, NewHash
  <1>6. \E r : Goes(a, r) /\ r.pc \notin {"idle", "allocate"}
    <2>1. submit(a, n, key)
      BY <1>1, <1>4
    <2> QED  BY <1>1, <1>5, <2>1, SubmitGoes
  <1>7. Signs(tx)
    BY <1>1, <1>2 DEF Signs
  <1>8. next' \in Int /\ next <= next' /\ next' <= next + 1
    BY <1>1, <1>3
  <1> QED  BY <1>1, <1>2, <1>3, <1>6, <1>7, <1>8, SpendingStep

(* The transactions of SpeedUp.                                            *)
SpeedUpTx(h) == IF signed[h].kind = "erc20" THEN SignSpeedUpERC20(h) ELSE SignSpeedUpNative(h)

(* They repeat the nonce and carry the row's value_wei.                    *)
LEMMA SpeedUpFields ==
    ASSUME NEW h \in Signed, signed[h] \in TxState, row[h] # NoTx, row' = row
    PROVE  SpeedUpTx(h) \in TxState /\ SpedUpTx(SpeedUpTx(h), h)
  <1> DEFINE u == [signed[h] EXCEPT !.key = NoKey, !.again = TRUE, !.amount = signed[h].value]
             v == [u EXCEPT !.value = 0]
  <1>1. signed[h].value \in {0, Asked} /\ NoKey \in Keys \union {NoKey} /\ TRUE \in BOOLEAN
    BY DEF TxState
  <1>2. u \in TxState
    BY <1>1, Zenon DEF TxState
  <1>3. /\ u.from = signed[h].from /\ u.nonce = signed[h].nonce /\ u.kind = signed[h].kind
        /\ u.again /\ u.amount = signed[h].value /\ u.value = signed[h].value
    BY DEF TxState
  <1>4. SignSpeedUpNative(h) = u
    BY DEF SignSpeedUpNative
  <1> HIDE DEF u
  <1>5. v \in TxState
    <2>1. 0 \in {0, Asked}
      OBVIOUS
    <2> QED  BY <1>2, <2>1, Zenon DEF TxState
  <1>6. /\ v.from = u.from /\ v.nonce = u.nonce /\ v.kind = u.kind
        /\ v.again = u.again /\ v.amount = u.amount
    BY <1>2 DEF TxState
  <1>7. SignSpeedUpERC20(h) = v
    BY <1>4 DEF SignSpeedUpERC20
  <1> HIDE DEF v
  <1>8. CASE signed[h].kind = "erc20"
    BY <1>3, <1>5, <1>6, <1>7, <1>8 DEF SpeedUpTx, SpedUpTx
  <1>9. CASE signed[h].kind # "erc20"
    BY <1>2, <1>3, <1>4, <1>9 DEF SpeedUpTx, SpedUpTx
  <1> QED  BY <1>8, <1>9

(* SpeedUp signs a row's nonce once more.                                  *)
LEMMA SpeedUpKeeps ==
    ASSUME TxAssumption, TxSendInv, NEW a \in Calls, NEW h \in Signed, SpeedUp(a, h)
    PROVE  StepOK
  <1>1. /\ next' = next /\ row' = row /\ node' = node /\ agent[a].pc = "idle"
        /\ signed' = Append(signed, SpeedUpTx(h)) /\ row[h].status = "pending"
        /\ agent' = [agent EXCEPT ![a] = Holding("insert", Len(signed'), Len(signed'))]
    BY Zenon DEF SpeedUp, Call, SpeedUpTx, Holding
  <1>2. SpeedUpTx(h) \in TxState /\ SpedUpTx(SpeedUpTx(h), h)
    <2>1. signed[h] \in TxState /\ row[h] # NoTx
      BY <1>1, HeldFacts DEF Signed
    <2> QED  BY <1>1, <2>1, SpeedUpFields
  <1>3. a \in Agents /\ RowsMove /\ NodeMoves /\ next \in Int /\ a \notin Spent
    BY <1>1, HeldFacts, Begins, StayMoves
  <1>4. PICK n : n = Len(signed')
    OBVIOUS
  <1>5. Signed' \subseteq Hashes /\ n \in Signed'
    BY <1>1, <1>2, <1>3, <1>4, NewHash
  <1>6. \E r : Goes(a, r) /\ r.pc \notin {"idle", "allocate"}
    BY <1>1, <1>4, <1>5, InsertGoes
  <1>7. Signs(SpeedUpTx(h))
    BY <1>1, <1>2 DEF Signs
  <1>8. next' \in Int /\ next <= next' /\ next' <= next + 1
    BY <1>1, <1>3
  <1> QED  BY <1>1, <1>2, <1>3, <1>6, <1>7, <1>8, SpendingStep

-----------------------------------------------------------------------------
(* The transactions of Allocate.                                           *)
CustodialTx(kind, nonce, key) ==
    IF kind = "erc20" THEN SignERC20Transfer(nonce, key) ELSE SignNativeTransfer(nonce, key)

(* They carry the nonce that was taken and the amount that was asked for.  *)
LEMMA CustodialFields ==
    ASSUME NEW kind \in Kinds, NEW nonce \in Nat, NEW key \in Keys \union {NoKey},
           next \in Int, next <= nonce, next' = nonce + 1
    PROVE  CustodialTx(kind, nonce, key) \in TxState /\ AllocatedTx(CustodialTx(kind, nonce, key))
  <1> DEFINE u == SignNativeTransfer(nonce, key)
             v == [u EXCEPT !.kind = "erc20", !.value = 0]
  <1>1. u \in TxState
    BY DEF SignNativeTransfer, TxState, Kinds
  <1>2. /\ u.from = Custodial /\ ~u.again /\ u.nonce = nonce /\ u.amount = Asked /\ u.value = Asked
    BY DEF SignNativeTransfer
  <1> HIDE DEF u
  <1>3. v \in TxState
    <2>1. 0 \in {0, Asked} /\ "erc20" \in Kinds
      BY DEF Kinds
    <2> QED  BY <1>1, <2>1, Zenon DEF TxState
  <1>4. /\ v.from = u.from /\ v.again = u.again /\ v.nonce = u.nonce /\ v.amount = u.amount
        /\ v.kind = "erc20"
    BY <1>1 DEF TxState
  <1>5. SignERC20Transfer(nonce, key) = v
    BY DEF SignERC20Transfer, u
  <1> HIDE DEF v
  <1>6. AllocatedTx(u)
    BY <1>2 DEF AllocatedTx
  <1>7. AllocatedTx(v)
    BY <1>2, <1>4 DEF AllocatedTx
  <1>8. CustodialTx(kind, nonce, key) = IF kind = "erc20" THEN v ELSE u
    BY <1>5 DEF CustodialTx, u
  <1> QED  BY <1>1, <1>3, <1>6, <1>7, <1>8

(* Allocate takes a nonce, and signs with it or not.                       *)
LEMMA AllocateKeeps ==
    ASSUME TxAssumption, TxSendInv, NEW a \in Calls, Allocate(a)
    PROVE  StepOK
  <1>1. PICK nonce : nonce = IF next = -1 THEN PendingNonce ELSE next
    OBVIOUS
  <1>2. TxSendTypeOK /\ CallsSpent /\ next \in -1..(2 * MaxCalls) /\ MaxCalls \in Nat
    BY TypeFacts DEF TxSendInv, TxAssumption
  <1>3. nonce \in Nat /\ next <= nonce /\ next \in Int /\ (nonce = next \/ nonce <= MaxCalls)
    <2>1. PICK p \in 0..MaxCalls : p = PendingNonce
      BY <1>2, PendingNonceFound
    <2> QED  BY <1>1, <1>2, <2>1
  <1>4. PICK tx : tx = CustodialTx(agent[a].kind, nonce, agent[a].key)
    OBVIOUS
  <1>5. /\ next' = nonce + 1 /\ row' = row /\ node' = node /\ agent[a].pc = "allocate"
        /\ \/ Return(a) /\ signed' = signed
           \/ /\ signed' = Append(signed, tx)
              /\ agent' = [agent EXCEPT ![a].pc = "insert", ![a].tx = Len(signed'),
                                        ![a].target = Len(signed'),
                                        ![a].key = NoKey, ![a].kind = "native", ![a].sync = TRUE]
    BY <1>1, <1>4 DEF Allocate, CustodialTx
  <1>6. a \in Agents /\ a # Reconciler /\ RowsMove /\ RetriesKept /\ NodeMoves /\ a \notin Spent
    BY <1>2, <1>5, Begins, StayMoves
  <1>7. agent \in [Agents -> AgentState] /\ agent[a] \in AgentState
    BY <1>2, <1>6, TypeFacts
  <1>8. tx \in TxState /\ AllocatedTx(tx)
    <2>1. agent[a].kind \in Kinds /\ agent[a].key \in Keys \union {NoKey}
      BY <1>7 DEF AgentState
    <2> QED  BY <1>3, <1>4, <1>5, <2>1, CustodialFields
  <1>9. next' \in Int /\ next <= next' /\ (next' <= next + 1 \/ next' <= MaxCalls + 1)
    BY <1>2, <1>3, <1>5, SMTT(60)
  <1>10. CASE Return(a) /\ signed' = signed
    <2>1. Goes(a, Left(a)) /\ Left(a).pc = "done"
      BY <1>2, <1>6, <1>10, AgentMoves, Leaves
    <2> QED  BY <1>6, <1>9, <1>10, <2>1, SpendingStep
  <1>11. CASE /\ signed' = Append(signed, tx)
              /\ agent' = [agent EXCEPT ![a].pc = "insert", ![a].tx = Len(signed'),
                                        ![a].target = Len(signed'),
                                        ![a].key = NoKey, ![a].kind = "native", ![a].sync = TRUE]
    <2>1. PICK n : n = Len(signed')
      OBVIOUS
    <2>2. Signed' \subseteq Hashes /\ n \in Signed' /\ n \in MaybeHashes
      BY <1>6, <1>8, <1>11, <2>1, NewHash, HeldFacts
    <2>3. PICK r : r = HoldingNew(a, n)
      OBVIOUS
    <2>4. HeldNew(r, n)
      BY <1>6, <1>7, <2>2, <2>3, HoldingNewRecord
    <2>5. agent' = [agent EXCEPT ![a] = r]
      BY <1>7, <1>11, <2>1, <2>3, Zenon DEF HoldingNew
    <2>6. Becomes(a, r)
      BY <1>6, <1>7, <2>4, <2>5, OneAgent DEF HeldNew
    <2>7. Goes(a, r) /\ r.pc = "insert"
      BY <1>6, <2>2, <2>4, <2>6 DEF Goes, HeldNew, AgentOK, Signed
    <2>8. Signs(tx)
      BY <1>8, <1>11 DEF Signs
    <2> QED  BY <1>6, <1>8, <1>9, <2>7, <2>8, SpendingStep
  <1> QED  BY <1>5, <1>10, <1>11

-----------------------------------------------------------------------------
(* A row of the table that changes its status, and nothing else does.      *)
LEMMA StatusMoves ==
    ASSUME TxAssumption, TxSendInv, NEW h \in Hashes, row[h] # NoTx,
           NEW s \in Statuses, s # "none", row' = [row EXCEPT ![h].status = s]
    PROVE  RowsMove /\ RetriesKept
  <1>1. row \in [Hashes -> RowState] /\ row[h] \in RowState
    BY HeldFacts
  <1>2. PICK q : q = [row[h] EXCEPT !.status = s]
    OBVIOUS
  <1>3. q \in RowState
    BY <1>1, <1>2, Zenon DEF RowState
  <1>4. q.status = s /\ q.raw = row[h].raw /\ q.retry = row[h].retry
    BY <1>1, <1>2 DEF RowState
  <1>5. row' = [row EXCEPT ![h] = q]
    BY <1>1, <1>2, Zenon
  <1>6. row' \in [Hashes -> RowState] /\ row'[h] = q /\ \A g \in Hashes \ {h} : row'[g] = row[g]
    BY <1>1, <1>3, <1>5
  <1>7. RowMove(h)
    BY <1>4, <1>6 DEF RowMove
  <1>8. \A g \in Hashes \ {h} : RowMove(g)
    BY <1>6 DEF RowMove
  <1> QED  BY <1>4, <1>6, <1>7, <1>8 DEF RowsMove, RetriesKept

(* Mark does that to a row, or nothing.                                    *)
LEMMA MarkMoves ==
    ASSUME TxAssumption, TxSendInv, NEW h \in Hashes,
           NEW s \in Statuses, s # "none", row' = Mark(h, s)
    PROVE  RowsMove /\ RetriesKept
  <1>1. CASE row[h].status \in Broadcasting
    <2>1. row[h] # NoTx
      BY <1>1, HeldFacts DEF Broadcasting
    <2>2. row' = [row EXCEPT ![h].status = s]
      BY <1>1 DEF Mark
    <2> QED  BY <2>1, <2>2, StatusMoves
  <1>2. CASE row[h].status \notin Broadcasting
    BY <1>2, HeldFacts, StayMoves DEF Mark
  <1> QED  BY <1>1, <1>2

(* The INSERT writes a row of the hash or updates that of the key.         *)
LEMMA InsertMoves ==
    ASSUME TxAssumption, TxSendInv, NEW h \in Signed, row' = insertRow(h)
    PROVE  RowsMove /\ RetriesKept /\ (signed[h].key = NoKey => row'[h] # NoTx)
  <1> DEFINE met == RowsOf(signed[h].key) \union {g \in {h} : row[g] # NoTx}
             upd(g) == [row[g] EXCEPT !.raw = h,
                                      !.status = IF @ \in Final THEN @ ELSE "submitting"]
  <1>1. row \in [Hashes -> RowState] /\ Signed \subseteq Hashes /\ h \in Hashes /\ h \in 0..MaxCalls
    BY HeldFacts DEF Hashes, TxAssumption
  <1>2. CASE met = {}
    <2>1. row' = [row EXCEPT ![h] = NewRow(h)] /\ row[h] = NoTx
      BY <1>2 DEF insertRow
    <2>2. NewRow(h) \in RowState /\ NewRow(h).raw = h /\ NewRow(h).status = "submitting"
      BY <1>1 DEF NewRow, RowState, Statuses, Broadcasting, TxAssumption
    <2> HIDE DEF met
    <2>3. row' \in [Hashes -> RowState] /\ row'[h] = NewRow(h) /\ \A g \in Hashes \ {h} : row'[g] = row[g]
      BY <1>1, <2>1, <2>2
    <2>4. RowMove(h)
      BY <2>2, <2>3 DEF RowMove
    <2>5. \A g \in Hashes \ {h} : RowMove(g)
      BY <2>3 DEF RowMove
    <2>6. row'[h] # NoTx
      BY <2>2, <2>3 DEF NoTx
    <2> QED  BY <2>1, <2>3, <2>4, <2>5, <2>6 DEF RowsMove, RetriesKept
  <1>3. CASE met # {}
    <2>1. row' = [g \in Hashes |-> IF g \notin met THEN row[g] ELSE upd(g)]
      BY <1>3 DEF insertRow
    <2>2. ASSUME NEW g \in met
          PROVE  /\ g \in Signed /\ row[g] # NoTx
                 /\ h = g \/ (signed[g].key # NoKey /\ signed[h].key = signed[g].key)
      BY DEF RowsOf
    <2>3. signed[h].key = NoKey => h \in met
      BY <1>3 DEF RowsOf
    <2> HIDE DEF met
    <2>4. ASSUME NEW g \in met
          PROVE  /\ upd(g) \in RowState /\ upd(g).raw = h /\ upd(g).status # "none"
                 /\ upd(g).retry = row[g].retry
      <3>1. PICK st : st = IF row[g].status \in Final THEN row[g].status ELSE "submitting"
        OBVIOUS
      <3>2. row[g] \in RowState
        BY <1>1, <2>2
      <3>3. upd(g) = [row[g] EXCEPT !.raw = h, !.status = st]
        BY <3>1, <3>2 DEF RowState
      <3>4. st \in Statuses /\ st # "none"
        BY <3>1 DEF Statuses, Final, Broadcasting
      <3> HIDE DEF upd
      <3>5. upd(g) \in RowState
        BY <1>1, <3>2, <3>3, <3>4, Zenon DEF RowState
      <3>6. upd(g).raw = h /\ upd(g).status = st /\ upd(g).retry = row[g].retry
        BY <3>2, <3>3 DEF RowState
      <3> QED  BY <3>4, <3>5, <3>6
    <2> HIDE DEF upd
    <2>5. ASSUME NEW g \in Hashes
          PROVE  row'[g] \in RowState /\ RowMove(g) /\ (row[g] # NoTx => row'[g].retry = row[g].retry)
      <3>1. CASE g \notin met
        BY <1>1, <2>1, <3>1 DEF RowMove
      <3>2. CASE g \in met
        <4>1. row'[g] = upd(g)
          BY <2>1, <3>2
        <4> QED  BY <2>2, <2>4, <3>2, <4>1 DEF RowMove
      <3> QED  BY <3>1, <3>2
    <2>6. signed[h].key = NoKey => row'[h] # NoTx
      <3>1. h \in met => row'[h] = upd(h)
        BY <1>1, <2>1
      <3>2. h \in met => row'[h].status # "none"
        BY <2>4, <3>1
      <3> QED  BY <2>3, <3>2 DEF NoTx
    <2>7. row' \in [Hashes -> RowState]
      <3>1. \A g \in Hashes : row'[g] \in RowState
        BY <2>5
      <3>2. row' = [g \in Hashes |-> row'[g]]
        BY <2>1
      <3> QED  BY <3>1, <3>2
    <2> QED  BY <2>5, <2>6, <2>7 DEF RowsMove, RetriesKept
  <1> QED  BY <1>2, <1>3

(* InsertSubmitting.                                                       *)
LEMMA InsertSubmittingKeeps ==
    ASSUME TxAssumption, TxSendInv, NEW a \in Calls, InsertSubmitting(a)
    PROVE  StepOK
  <1>1. /\ next' = next /\ signed' = signed /\ node' = node /\ agent[a].pc = "insert"
        /\ row' = insertRow(agent[a].tx) /\ Goto(a, "send")
    BY DEF InsertSubmitting
  <1>2. /\ TxSendTypeOK /\ a \in Agents /\ a # Reconciler /\ agent[a] \in AgentState
        /\ agent[a].tx \in Signed /\ agent[a].target \in Signed /\ next \in Int
    BY <1>1, HeldFacts, Begins
  <1>3. /\ RowsMove /\ RetriesKept /\ NodeMoves
        /\ signed[agent[a].tx].key = NoKey => row'[agent[a].tx] # NoTx
    BY <1>1, <1>2, InsertMoves, StayMoves
  <1>4. "send" \in Pcs
    BY DEF Pcs
  <1>5. PICK r : r = At(a, "send")
    OBVIOUS
  <1>6. Becomes(a, r) /\ Kept(r, a, "send")
    BY <1>1, <1>2, <1>4, <1>5, AgentMoves, MovedRecord
  <1>7. Goes(a, r)
    BY <1>1, <1>2, <1>3, <1>6 DEF Goes, Kept, AgentOK, Signed
  <1> QED  BY <1>1, <1>2, <1>3, <1>7, QuietStep

(* SendSignedTransaction: the node learns a transaction that has its row   *)
(* or a key.                                                               *)
LEMMA SendSignedTransactionKeeps ==
    ASSUME TxAssumption, TxSendInv, NEW a \in Agents, SendSignedTransaction(a)
    PROVE  StepOK
  <1>1. PICK h : h = agent[a].tx
    OBVIOUS
  <1>2. PICK pc \in {"accepted", "rejected"} :
           /\ next' = next /\ signed' = signed /\ row' = row /\ agent[a].pc = "send"
           /\ node' = Accepted(h) \/ node' = node
           /\ Goto(a, pc)
    BY <1>1 DEF SendSignedTransaction
  <1>3. /\ TxSendTypeOK /\ agent[a] \in AgentState /\ next \in Int /\ pc \in Pcs
        /\ h \in Signed /\ h \in Hashes /\ agent[a].target \in Signed
    BY <1>1, <1>2, HeldFacts DEF Pcs
  <1>4. RowsMove /\ RetriesKept
    BY <1>2, <1>3, StayMoves
  <1>5. signed[h].key = NoKey => row'[h] # NoTx
    BY <1>1, <1>2 DEF TxSendInv, AgentsHoldSigned
  <1>6. NodeMoves
    <2>1. CASE node' = node
      BY <1>3, <2>1, StayMoves
    <2>2. CASE node' = Accepted(h) /\ node[h] # "unknown"
      BY <1>3, <2>2, StayMoves DEF Accepted
    <2>3. CASE node' = Accepted(h) /\ node[h] = "unknown"
      <3>1. node' = [g \in Hashes |-> CASE g = h -> "mempool"
                                         [] g \in Siblings(h) -> "unknown"
                                         [] OTHER -> node[g]]
        BY <2>3 DEF Accepted
      <3>2. h \notin Siblings(h)
        BY DEF Siblings
      <3>3. ASSUME NEW g \in Hashes
            PROVE  IF g = h THEN node'[g] = "mempool"
                   ELSE node'[g] = "unknown" \/ node'[g] = node[g]
        BY <3>1, <3>2
      <3>4. node \in [Hashes -> {"unknown", "mempool"} \union InBlock]
        BY <1>3, TypeFacts
      <3>5. \A g \in Hashes : node'[g] \in {"unknown", "mempool"} \union InBlock
        BY <3>3, <3>4
      <3>6. node' \in [Hashes -> {"unknown", "mempool"} \union InBlock]
        <4>1. node' = [g \in Hashes |-> node'[g]]
          BY <3>1
        <4> QED  BY <3>5, <4>1
      <3> QED  BY <1>3, <1>5, <3>3, <3>6 DEF NodeMoves
    <2> QED  BY <1>2, <2>1, <2>2, <2>3
  <1>7. PICK r : r = At(a, pc)
    OBVIOUS
  <1>8. Becomes(a, r) /\ Kept(r, a, pc)
    BY <1>2, <1>3, <1>7, AgentMoves, MovedRecord
  <1>9. AgentOK(r, signed', row')
    BY <1>1, <1>2, <1>3, <1>8 DEF Kept, AgentOK, Signed
  <1>10. a = Reconciler => ReconcilerOK(r, row')
    BY <1>2, <1>8, AgentFacts DEF TxSendInv, Kept, ReconcilerOK
  <1>11. Goes(a, r)
    BY <1>2, <1>4, <1>8, <1>9, <1>10 DEF Goes, Kept
  <1> QED  BY <1>2, <1>3, <1>4, <1>6, <1>11, QuietStep

(* MarkBroadcastPending.                                                   *)
LEMMA MarkBroadcastPendingKeeps ==
    ASSUME TxAssumption, TxSendInv, NEW a \in Agents, MarkBroadcastPending(a)
    PROVE  StepOK
  <1>1. /\ next' = next /\ signed' = signed /\ node' = node /\ agent[a].pc = "accepted"
        /\ row' = Mark(agent[a].target, "pending") /\ Return(a)
    BY DEF MarkBroadcastPending
  <1>2. TxSendTypeOK /\ next \in Int /\ agent[a].target \in Hashes
    BY <1>1, HeldFacts
  <1>3. "pending" \in Statuses
    BY DEF Statuses
  <1>4. RowsMove /\ RetriesKept /\ NodeMoves
    BY <1>1, <1>2, <1>3, MarkMoves, StayMoves
  <1>5. Goes(a, Left(a))
    BY <1>1, <1>2, <1>4, AgentMoves, Leaves
  <1> QED  BY <1>1, <1>2, <1>4, <1>5, QuietStep

(* The reconciler counts an attempt of a row that has one left.            *)
LEMMA CountedMoves ==
    ASSUME TxAssumption, TxSendInv, NEW h \in Hashes, row[h] # NoTx, row[h].retry < BroadcastMaxRetries,
           NEW m, m = Mark(h, "broadcast_failed") \/ m = row,
           row' = [m EXCEPT ![h].retry = @ + 1]
    PROVE  RowsMove
  <1>1. row \in [Hashes -> RowState] /\ row[h] \in RowState /\ row[h].status # "none"
    BY HeldFacts
  <1>2. PICK s : s = IF row[h].status \in Broadcasting /\ m # row THEN "broadcast_failed" ELSE row[h].status
    OBVIOUS
  <1>3. s \in Statuses /\ s # "none"
    BY <1>1, <1>2 DEF Statuses, Broadcasting, RowState
  <1>5. /\ m \in [Hashes -> RowState] /\ \A g \in Hashes \ {h} : m[g] = row[g]
        /\ m[h].raw = row[h].raw /\ m[h].status = s /\ m[h].retry = row[h].retry
    <2>1. CASE row[h].status \in Broadcasting /\ m # row
      <3>1. PICK q : q = [row[h] EXCEPT !.status = s]
        OBVIOUS
      <3>2. q \in RowState
        BY <1>1, <1>3, <3>1, Zenon DEF RowState
      <3>3. q.status = s /\ q.raw = row[h].raw /\ q.retry = row[h].retry
        BY <1>1, <3>1 DEF RowState
      <3>4. m = [row EXCEPT ![h].status = s]
        BY <1>2, <2>1 DEF Mark
      <3>5. m = [row EXCEPT ![h] = q]
        BY <1>1, <3>1, <3>4, Zenon
      <3> QED  BY <1>1, <3>2, <3>3, <3>5
    <2>2. CASE row[h].status \notin Broadcasting \/ m = row
      <3>1. m = row
        BY <2>2 DEF Mark
      <3> QED  BY <1>1, <1>2, <3>1
    <2> QED  BY <2>1, <2>2
  <1>6. PICK k : k = m[h].retry + 1
    OBVIOUS
  <1>7. k \in 0..BroadcastMaxRetries
    <2>1. row[h].retry \in 0..BroadcastMaxRetries /\ BroadcastMaxRetries \in Nat
      BY <1>1 DEF RowState, TxAssumption
    <2>2. PICK n \in 0..BroadcastMaxRetries : n = row[h].retry
      BY <2>1
    <2>3. k = n + 1 /\ n < BroadcastMaxRetries
      BY <1>5, <1>6, <2>2
    <2> QED  BY <2>1, <2>3
  <1>8. PICK q : q = [m[h] EXCEPT !.retry = k]
    OBVIOUS
  <1>9. q \in RowState
    BY <1>5, <1>7, <1>8, Zenon DEF RowState
  <1>10. m[h] \in RowState
    BY <1>5
  <1>11. q.status = s /\ q.raw = row[h].raw
    BY <1>5, <1>8, <1>10 DEF RowState
  <1>12. row' = [m EXCEPT ![h] = q]
    BY <1>6, <1>8, Zenon
  <1>13. row' \in [Hashes -> RowState] /\ row'[h] = q /\ \A g \in Hashes \ {h} : row'[g] = row[g]
    BY <1>5, <1>9, <1>12
  <1>14. RowMove(h)
    BY <1>3, <1>11, <1>13 DEF RowMove
  <1>15. \A g \in Hashes \ {h} : RowMove(g)
    BY <1>13 DEF RowMove
  <1> QED  BY <1>13, <1>14, <1>15 DEF RowsMove

(* MarkBroadcastFailed.                                                    *)
LEMMA MarkBroadcastFailedKeeps ==
    ASSUME TxAssumption, TxSendInv, NEW a \in Agents, MarkBroadcastFailed(a)
    PROVE  StepOK
  <1>1. PICK h : h = agent[a].target
    OBVIOUS
  <1>2. /\ next' = next /\ signed' = signed /\ node' = node /\ agent[a].pc = "rejected"
        /\ row' = IF a = Reconciler THEN [Mark(h, "broadcast_failed") EXCEPT ![h].retry = @ + 1]
                  ELSE Mark(h, "broadcast_failed")
        /\ IF agent[a].sync THEN Goto(a, "sync") ELSE Return(a)
    BY <1>1 DEF MarkBroadcastFailed
  <1>3. TxSendTypeOK /\ next \in Int /\ agent[a] \in AgentState /\ h \in Hashes
    BY <1>1, <1>2, HeldFacts
  <1>4. "broadcast_failed" \in Statuses /\ "sync" \in Pcs
    BY DEF Statuses, Broadcasting, Pcs
  <1>5. a = Reconciler => row[h] # NoTx /\ row[h].retry < BroadcastMaxRetries /\ ~agent[a].sync
    BY <1>1, <1>2 DEF TxSendInv, AgentsHoldSigned
  <1>6. RowsMove /\ (a # Reconciler => RetriesKept)
    <2>1. CASE a = Reconciler
      BY <1>2, <1>3, <1>5, <2>1, CountedMoves
    <2>2. CASE a # Reconciler
      BY <1>2, <1>3, <1>4, <2>2, MarkMoves
    <2> QED  BY <2>1, <2>2
  <1>7. NodeMoves
    BY <1>2, <1>3, StayMoves
  <1>8. \E r : Goes(a, r)
    <2>1. CASE agent[a].sync
      <3>1. PICK r : r = At(a, "sync")
        OBVIOUS
      <3>2. Becomes(a, r) /\ Kept(r, a, "sync")
        BY <1>2, <1>3, <1>4, <2>1, <3>1, AgentMoves, MovedRecord
      <3>3. Goes(a, r)
        BY <1>5, <1>6, <2>1, <3>2 DEF Goes, Kept, AgentOK
      <3> QED  BY <3>3
    <2>2. CASE ~agent[a].sync
      <3>1. Goes(a, Left(a))
        BY <1>2, <1>3, <1>6, <2>2, AgentMoves, Leaves
      <3> QED  BY <3>1
    <2> QED  BY <2>1, <2>2
  <1> QED  BY <1>2, <1>3, <1>6, <1>7, <1>8, QuietStep

(* An error of the reconciler's MySQL in these statements.                 *)
LEMMA IgnoredErrorKeeps ==
    ASSUME TxAssumption, TxSendInv, IgnoredError
    PROVE  StepOK
  <1>1. PICK h : h = agent[Reconciler].target
    OBVIOUS
  <1>2. /\ next' = next /\ signed' = signed /\ node' = node /\ agent[Reconciler].pc = "rejected"
        /\ row' = Counted(h) \/ row' = Mark(h, "broadcast_failed")
        /\ Return(Reconciler)
    BY <1>1 DEF IgnoredError
  <1>3. TxSendTypeOK /\ next \in Int /\ Reconciler \in Agents
    BY HeldFacts, Begins
  <1>4. h \in Hashes
    BY <1>1, <1>2, <1>3, HeldFacts
  <1>5. row[h] # NoTx /\ row[h].retry < BroadcastMaxRetries
    BY <1>1, <1>2 DEF TxSendInv, AgentsHoldSigned
  <1>6. RowsMove
    <2>1. CASE row' = Counted(h)
      BY <1>4, <1>5, <2>1, CountedMoves DEF Counted
    <2>2. CASE row' = Mark(h, "broadcast_failed")
      <3>1. "broadcast_failed" \in Statuses
        BY DEF Statuses, Broadcasting
      <3> QED  BY <1>3, <1>4, <2>2, <3>1, MarkMoves
    <2> QED  BY <1>2, <2>1, <2>2
  <1>7. NodeMoves
    BY <1>2, <1>3, StayMoves
  <1>8. Goes(Reconciler, Left(Reconciler))
    BY <1>2, <1>3, <1>6, AgentMoves, Leaves
  <1> QED  BY <1>2, <1>3, <1>6, <1>7, <1>8, QuietStep

(* reconcileOne takes up a row that has a retry.                           *)
LEMMA ReconcileOneKeeps ==
    ASSUME TxAssumption, TxSendInv, NEW h \in Hashes, reconcileOne(h)
    PROVE  StepOK
  <1>1. PICK pc \in {"send", "accepted"} :
           /\ next' = next /\ signed' = signed /\ row' = row /\ node' = node
           /\ h \in ListReconcileBatch
           /\ agent' = [agent EXCEPT ![Reconciler] = Holding(pc, row[h].raw, h)]
    <2>1. PICK pc \in {"send"} \union (IF node[h] # "unknown" THEN {"accepted"} ELSE {}) :
             agent' = [agent EXCEPT ![Reconciler] = Holding(pc, row[h].raw, h)]
      BY Zenon DEF reconcileOne, Holding
    <2>2. pc \in {"send", "accepted"}
      OBVIOUS
    <2> QED  BY <2>1, <2>2 DEF reconcileOne
  <1>2. /\ TxSendTypeOK /\ next \in Int /\ Reconciler \in Agents /\ Reconciler \notin Spent
        /\ agent \in [Agents -> AgentState] /\ pc \in Pcs
    BY HeldFacts, Begins DEF Pcs
  <1>3. row[h] # NoTx /\ row[h].retry < BroadcastMaxRetries
    BY <1>1, HeldFacts DEF ListReconcileBatch, Broadcasting
  <1>4. PICK raw : raw = row[h].raw
    OBVIOUS
  <1>5. /\ h \in Signed /\ raw \in Signed /\ h \in MaybeHashes /\ raw \in MaybeHashes
        /\ signed[raw].key = NoKey => row[raw] # NoTx
    BY <1>3, <1>4, HeldFacts
  <1>6. RowsMove /\ NodeMoves
    BY <1>1, <1>2, StayMoves
  <1>7. PICK r : r = Holding(pc, raw, h)
    OBVIOUS
  <1>8. Held(r, pc, raw, h)
    BY <1>2, <1>5, <1>7, HoldingRecord
  <1>9. Becomes(Reconciler, r)
    <2>1. agent' = [agent EXCEPT ![Reconciler] = r]
      BY <1>1, <1>4, <1>7
    <2>2. r \in AgentState
      BY <1>8 DEF Held
    <2> HIDE DEF Reconciler
    <2> QED  BY <1>2, <2>1, <2>2, OneAgent
  <1>10. AgentOK(r, signed', row')
    BY <1>1, <1>5, <1>8 DEF AgentOK, Held, Signed
  <1>11. ReconcilerOK(r, row')
    BY <1>1, <1>3, <1>8 DEF ReconcilerOK, Held
  <1>12. Goes(Reconciler, r)
    BY <1>2, <1>9, <1>10, <1>11 DEF Goes
  <1> QED  BY <1>1, <1>2, <1>6, <1>12, QuietStep

(* A step of the tracker or of the chain leaves the agents as they are.    *)
LEMMA OutsideKeeps ==
    ASSUME TxAssumption, TxSendInv, RowsMove, RetriesKept, NodeMoves,
           next' = next, signed' = signed, agent' = agent
    PROVE  StepOK
  <1>1. /\ TxSendTypeOK /\ next \in Int /\ Reconciler \in Agents /\ Reconciler \notin Spent
        /\ agent \in [Agents -> AgentState] /\ Signed \subseteq Hashes
    BY HeldFacts, Begins
  <1>2. PICK r : r = agent[Reconciler]
    OBVIOUS
  <1>3. AgentOK(r, signed, row) /\ ReconcilerOK(r, row)
    BY <1>1, <1>2, AgentFacts DEF TxSendInv
  <1>4. RowsKept
    BY RowsStay
  <1>5. AgentOK(r, signed', row')
    BY <1>1, <1>3, <1>4 DEF AgentOK, RowsKept, Signed
  <1>6. ReconcilerOK(r, row')
    <2>1. r.pc # "idle" => r.target \in Hashes
      BY <1>1, <1>3 DEF ReconcilerOK, AgentOK, Signed
    <2> QED  BY <1>3, <1>4, <2>1 DEF ReconcilerOK, RowsKept, RetriesKept
  <1>7. Becomes(Reconciler, r)
    BY <1>1, <1>2 DEF Becomes
  <1>8. Goes(Reconciler, r)
    BY <1>1, <1>5, <1>6, <1>7 DEF Goes
  <1> QED  BY <1>1, <1>8, QuietStep

(* The tracker's steps on a row, and a block.                              *)
LEMMA TrackedAndMinedKeep ==
    ASSUME TxAssumption, TxSendInv, NEW h \in Signed, Tracked(h) \/ MineTx(h)
    PROVE  StepOK
  <1>1. h \in Hashes /\ TxSendTypeOK
    BY HeldFacts
  <1>2. CASE Tracked(h)
    <2>1. PICK s \in {"pending", "confirmed"} : row' = [row EXCEPT ![h].status = s]
      BY <1>2 DEF Tracked
    <2>2. row[h] # NoTx
      BY <1>1, <1>2, HeldFacts DEF Tracked, Broadcasting
    <2>3. s \in Statuses /\ s # "none"
      BY DEF Statuses, Final
    <2>4. RowsMove /\ RetriesKept
      BY <1>1, <2>1, <2>2, <2>3, StatusMoves
    <2>5. NodeMoves /\ next' = next /\ signed' = signed /\ agent' = agent
      BY <1>1, <1>2, StayMoves DEF Tracked
    <2> QED  BY <2>4, <2>5, OutsideKeeps
  <1>3. CASE MineTx(h)
    <2>1. /\ next' = next /\ signed' = signed /\ row' = row /\ agent' = agent
          /\ node[h] = "mempool" /\ node' = [node EXCEPT ![h] = "mined"]
      BY <1>3 DEF MineTx, Mine
    <2>2. node \in [Hashes -> {"unknown", "mempool"} \union InBlock]
      BY <1>1, TypeFacts
    <2>3. NodeMoves
      BY <1>1, <2>1, <2>2 DEF NodeMoves, InBlock
    <2> QED  BY <1>1, <2>1, <2>3, StayMoves, OutsideKeeps
  <1> QED  BY <1>2, <1>3

-----------------------------------------------------------------------------
(* It holds when nothing has been sent ...                                 *)
LEMMA InitHolds ==
    ASSUME TxAssumption, TxSendInit
    PROVE  TxSendInv
  <1>1. Idle \in AgentState /\ Idle.sync = FALSE /\ Idle.pc = "idle"
    BY IdleRecord DEF Idle
  <1>2. MaxCalls \in Nat /\ NoTx \in RowState /\ NoTx.status = "none"
    BY DEF TxAssumption, NoTx, RowState, Statuses
  <1>3. /\ next = -1 /\ signed = <<>> /\ row = [h \in Hashes |-> NoTx]
        /\ agent = [a \in Agents |-> Idle] /\ node = [h \in Hashes |-> "unknown"]
    BY DEF TxSendInit
  <1>4. Signed = {} /\ Len(signed) = 0 /\ signed \in Seq(TxState)
    BY <1>3 DEF Signed
  <1> HIDE DEF Idle, NoTx
  <1>5. TxSendTypeOK
    <2>1. next \in -1..(2 * MaxCalls)
      BY <1>2, <1>3
    <2>2. row \in [Hashes -> RowState] /\ agent \in [Agents -> AgentState]
      BY <1>1, <1>2, <1>3
    <2>3. node \in [Hashes -> {"unknown", "mempool"} \union InBlock]
      BY <1>3
    <2> QED  BY <1>4, <2>1, <2>2, <2>3, TypeFacts
  <1>6. CallsSpent
    <2>1. PICK c \in Nat : c = Cardinality(Spent)
      BY SpentCount
    <2> QED  BY <1>2, <1>3, <1>4, <2>1 DEF CallsSpent
  <1>7. RowsHoldSigned
    BY <1>3 DEF RowsHoldSigned, Sent
  <1>8. AgentsHoldSigned
    <2>1. \A a \in Agents : agent[a] = Idle
      BY <1>3
    <2>2. Reconciler \in Agents
      BY Begins
    <2>3. \A a \in Agents : AgentOK(agent[a], signed, row)
      BY <1>1, <2>1 DEF AgentOK
    <2>4. ReconcilerOK(agent[Reconciler], row)
      BY <1>1, <2>1, <2>2 DEF ReconcilerOK
    <2> QED  BY <2>3, <2>4, AgentFacts
  <1>9. NoncesGiven /\ NonceUnique /\ ValuesKept /\ UnkeyedIsTracked
    BY <1>4 DEF NoncesGiven, NonceUnique, ValuesKept, UnkeyedIsTracked
  <1> QED  BY <1>5, <1>6, <1>7, <1>8, <1>9 DEF TxSendInv

(* ... and after every step.                                               *)
LEMMA NextKeeps ==
    ASSUME TxAssumption, TxSendAssumption, TxSendInv, TxSendNext
    PROVE  TxSendInv'
  <1>1. ASSUME NEW a \in Calls, HandleTxSubmit(a) PROVE StepOK
    <2>1. KindsOf[a] \in SUBSET Kinds
      BY DEF TxSendAssumption, Calls
    <2>2. PICK key \in Keys \union {NoKey} :
             \/ \E kind \in KindsOf[a] : SubmitRaw(a, key, kind)
             \/ \E raw \in Signed : signed[raw].key = key /\ ResubmitRaw(a, raw)
      BY <1>1 DEF HandleTxSubmit
    <2> QED  BY <2>1, <2>2, SubmitRawKeeps, ResubmitRawKeeps
  <1>2. ASSUME NEW a \in Calls, HandleTxSend(a) \/ HandleTxSendERC20(a) PROVE StepOK
    <2>1. "native" \in Kinds /\ "erc20" \in Kinds
      BY DEF Kinds
    <2>2. PICK key \in Keys \union {NoKey}, kind \in Kinds : checkIdempotency(a, key, kind)
      BY <1>2, <2>1 DEF HandleTxSend, HandleTxSendERC20
    <2> QED  BY <2>2, CheckIdempotencyKeeps
  <1>3. ASSUME NEW a \in Calls, HandleTxSpeedUp(a) PROVE StepOK
    BY <1>3, SpeedUpKeeps DEF HandleTxSpeedUp
  <1>4. ASSUME NEW a \in Calls, AgentStep(a) PROVE StepOK
    <2>1. a \in Agents
      BY Begins
    <2> QED  BY <1>4, <2>1, AllocateKeeps, InsertSubmittingKeeps, SendSignedTransactionKeeps,
                MarkBroadcastPendingKeeps, MarkBroadcastFailedKeeps, SyncFromChainKeeps DEF AgentStep
  <1>5. ASSUME ReconcilerStep PROVE StepOK
    <2>1. Reconciler \in Agents
      BY Begins
    <2> HIDE DEF Reconciler
    <2> QED  BY <1>5, <2>1, SendSignedTransactionKeeps, MarkBroadcastPendingKeeps,
                MarkBroadcastFailedKeeps, ReconcileOneKeeps DEF ReconcilerStep
  <1>6. StepOK
    BY <1>1, <1>2, <1>3, <1>4, <1>5, CutOffKeeps, IgnoredErrorKeeps, TrackedAndMinedKeep DEF TxSendNext, CallStep
  <1> QED  BY <1>6, StepKeeps

(* A stutter changes nothing.                                              *)
LEMMA StutterKeeps ==
    ASSUME TxSendInv, UNCHANGED sendVars
    PROVE  TxSendInv'
  BY DEF TxSendInv, sendVars, TxSendTypeOK, CallsSpent, Spent, RowsHoldSigned, AgentsHoldSigned,
         NoncesGiven, NonceUnique, ValuesKept, UnkeyedIsTracked, Sent, Signed, Siblings

(* What TxSend keeps, whatever the calls, the reconciler, the tracker and  *)
(* the node do: the types with their bounds, among them the retries of a   *)
(* row, and what rows, calls and the wallet's next_nonce know of the       *)
(* transactions that were signed (tx/service.go, nonce.go, reconcile.go).  *)
THEOREM TxSendInvariant == TxSendSpec => []TxSendInv
  <1>1. TxSendInit => TxSendInv
    BY TxAssumption, InitHolds
  <1>2. TxSendInv /\ [TxSendNext]_sendVars => TxSendInv'
    BY TxAssumption, TxSendAssumption, NextKeeps, StutterKeeps
  <1> QED  BY <1>1, <1>2, PTL DEF TxSendSpec

(* Allocate and SyncFromChain never give a custodial nonce a second time   *)
(* (tx/nonce.go): only SpeedUp repeats one.                                *)
THEOREM NoncesAreUnique == TxSendSpec => []NonceUnique
  <1>1. TxSendInv => NonceUnique
    BY DEF TxSendInv
  <1> QED  BY <1>1, TxSendInvariant, PTL

(* Row first, broadcast second (persistAndBroadcast, tx/service.go): what  *)
(* the network knows and has no idempotency key has its own row.           *)
THEOREM UnkeyedAreTracked == TxSendSpec => []UnkeyedIsTracked
  <1>1. TxSendInv => UnkeyedIsTracked
    BY DEF TxSendInv
  <1> QED  BY <1>1, TxSendInvariant, PTL

(* A block moves the amount that was asked for (insertFromSendResult and   *)
(* SpeedUp, tx/service.go), with the exception that PaidInFull states.     *)
THEOREM PaymentsInFull == TxSendSpec => []PaidInFull
  <1>1. TxSendInv => PaidInFull
    BY DEF TxSendInv, ValuesKept, PaidInFull
  <1> QED  BY <1>1, TxSendInvariant, PTL

-----------------------------------------------------------------------------
(* Following the transactions: statuses, for any number of them and of     *)
(* trackers.                                                               *)
FollowedTx == [from : {Custodial}, nonce : 0..1, key : {NoKey}, again : BOOLEAN]
NodeStates == {"unknown", "mempool"} \union InBlock
TrackerPcs == {"idle", "probe", "receipt", "replace", "siblings", "write"}
TrackerState == [pc : TrackerPcs, tx : MaybeHashes, status : Statuses, found : SUBSET Hashes]

SameNonce(sg, h) == {g \in DOMAIN sg : sg[g].from = sg[h].from /\ sg[g].nonce = sg[h].nonce} \ {h}

(* What the invariant says of one row and of one trackOne.                 *)
RowTrue(status, h, sg, nd) ==
    /\ status # "none" => h \in DOMAIN sg
    /\ status = "confirmed" => nd[h] = "final"
    /\ status = "replaced" => \E g \in SameNonce(sg, h) : nd[g] = "final"
TrackerTrue(r, sg, nd) ==
    r.pc # "idle" =>
        /\ r.tx \in DOMAIN sg /\ r.found \subseteq SameNonce(sg, r.tx)
        /\ r.status # "replaced"
        /\ r.pc \in {"replace", "siblings"} => r.status = "confirmed"
        /\ r.status = "confirmed" => nd[r.tx] = "final"

(* TxTrackerInv in these terms, ...                                        *)
Followed ==
    /\ signed \in Seq(FollowedTx) /\ Len(signed) <= MaxCalls
    /\ row \in [Hashes -> RowState]
    /\ node \in [Hashes -> NodeStates]
    /\ tracker \in [Trackers -> TrackerState]
    /\ \A h \in Hashes : RowTrue(row[h].status, h, signed, node)
    /\ \A t \in Trackers : TrackerTrue(tracker[t], signed, node)

(* It is the invariant.                                                    *)
LEMMA TrackerFacts == TxTrackerInv <=> Followed
  <1> DEFINE Types == /\ signed \in Seq(FollowedTx) /\ Len(signed) <= MaxCalls
                      /\ row \in [Hashes -> RowState]
                      /\ node \in [Hashes -> NodeStates]
                      /\ tracker \in [Trackers -> TrackerState]
  <1>1. TxTrackerTypeOK <=> Types
    BY DEF TxTrackerTypeOK, FollowedTx, RowState, NodeStates, TrackerState, TrackerPcs, MaybeHashes
  <1>2. \A h : Siblings(h) = SameNonce(signed, h)
    BY DEF Siblings, SameNonce, Signed
  <1>3. TrackersKnow <=> \A t \in Trackers : TrackerTrue(tracker[t], signed, node)
    BY <1>2, Zenon DEF TrackersKnow, TrackerTrue, Signed
  <1>4. Types => Signed \subseteq Hashes
    BY TxAssumption DEF Signed, Hashes, TxAssumption
  <1>5. ASSUME Types
        PROVE  RowsAreSigned /\ StatusIsTrue <=> \A h \in Hashes : RowTrue(row[h].status, h, signed, node)
    <2>1. ASSUME RowsAreSigned, StatusIsTrue, NEW h \in Hashes
          PROVE  RowTrue(row[h].status, h, signed, node)
      <3>1. CASE h \in Signed
        BY <1>2, <2>1, <3>1 DEF RowTrue, RowsAreSigned, StatusIsTrue, Signed
      <3>2. CASE h \notin Signed
        BY <2>1, <3>2 DEF RowTrue, RowsAreSigned
      <3> QED  BY <3>1, <3>2
    <2>2. ASSUME \A h \in Hashes : RowTrue(row[h].status, h, signed, node)
          PROVE  RowsAreSigned /\ StatusIsTrue
      BY <1>2, <1>4, <1>5, <2>2 DEF RowTrue, RowsAreSigned, StatusIsTrue, Signed
    <2> QED  BY <2>1, <2>2
  <1> HIDE DEF Types
  <1>6. TxTrackerInv <=> /\ Types
                         /\ \A h \in Hashes : RowTrue(row[h].status, h, signed, node)
                         /\ \A t \in Trackers : TrackerTrue(tracker[t], signed, node)
    BY <1>1, <1>3, <1>5 DEF TxTrackerInv
  <1> QED  BY <1>6 DEF Types, Followed

(* ... and after a step.                                                   *)
LEMMA FactsAfter == TxTrackerInv' <=> Followed'
  BY TrackerFacts, PTL

-----------------------------------------------------------------------------
(* What a step may do to the chain, to the rows and to the trackers.       *)
WorldGoes ==
    /\ signed' \in Seq(FollowedTx) /\ Len(signed') <= MaxCalls
    /\ \A g \in DOMAIN signed : g \in DOMAIN signed' /\ signed'[g] = signed[g]
    /\ node' \in [Hashes -> NodeStates]
    /\ \A h \in Hashes : node[h] = "final" => node'[h] = "final"
RowsGo ==
    /\ row' \in [Hashes -> RowState]
    /\ \A h \in Hashes : row'[h].status = row[h].status \/ RowTrue(row'[h].status, h, signed', node')
TrackersGo ==
    /\ tracker' \in [Trackers -> TrackerState]
    /\ \A t \in Trackers : tracker'[t] = tracker[t] \/ TrackerTrue(tracker'[t], signed', node')

(* What was signed and what is final stay.                                 *)
LEMMA WorldKeeps ==
    ASSUME TxTrackerInv, WorldGoes
    PROVE  /\ \A h \in DOMAIN signed : SameNonce(signed, h) \subseteq SameNonce(signed', h)
           /\ \A g \in DOMAIN signed : g \in Hashes
  <1>1. \A g \in DOMAIN signed : g \in DOMAIN signed' /\ signed'[g] = signed[g]
    BY DEF WorldGoes
  <1>2. signed \in Seq(FollowedTx) /\ Len(signed) <= MaxCalls
    BY TrackerFacts DEF Followed
  <1>3. \A g \in DOMAIN signed : g \in Hashes
    BY <1>2, TxAssumption DEF Hashes, TxAssumption
  <1> QED  BY <1>1, <1>3 DEF SameNonce

(* ... so what the invariant says of a row stays true, ...                 *)
LEMMA RowStaysTrue ==
    ASSUME TxTrackerInv, WorldGoes, NEW s, NEW h \in Hashes, RowTrue(s, h, signed, node)
    PROVE  RowTrue(s, h, signed', node')
  <1>1. \A g \in Hashes : node[g] = "final" => node'[g] = "final"
    BY DEF WorldGoes
  <1>2. \A g \in DOMAIN signed : g \in DOMAIN signed'
    BY DEF WorldGoes
  <1>3. s # "none" => SameNonce(signed, h) \subseteq SameNonce(signed', h)
    BY WorldKeeps DEF RowTrue
  <1>4. SameNonce(signed, h) \subseteq Hashes
    BY WorldKeeps DEF SameNonce
  <1> QED  BY <1>1, <1>2, <1>3, <1>4 DEF RowTrue

(* ... and what it says of a tracker.                                      *)
LEMMA TrackerStaysTrue ==
    ASSUME TxTrackerInv, WorldGoes, NEW r, TrackerTrue(r, signed, node)
    PROVE  TrackerTrue(r, signed', node')
  <1> SUFFICES ASSUME r.pc # "idle"
               PROVE  TrackerTrue(r, signed', node')
    BY DEF TrackerTrue
  <1>1. r.tx \in DOMAIN signed /\ r.tx \in DOMAIN signed' /\ r.tx \in Hashes
    BY WorldKeeps DEF TrackerTrue, WorldGoes
  <1>2. SameNonce(signed, r.tx) \subseteq SameNonce(signed', r.tx)
    BY <1>1, WorldKeeps
  <1>3. node[r.tx] = "final" => node'[r.tx] = "final"
    BY <1>1 DEF WorldGoes
  <1> QED  BY <1>1, <1>2, <1>3 DEF TrackerTrue

(* A step of that shape keeps the invariant.                               *)
LEMMA FollowingKeeps ==
    ASSUME TxTrackerInv, WorldGoes, RowsGo, TrackersGo
    PROVE  TxTrackerInv'
  <1>1. /\ \A h \in Hashes : RowTrue(row[h].status, h, signed, node)
        /\ \A t \in Trackers : TrackerTrue(tracker[t], signed, node)
    BY TrackerFacts DEF Followed
  <1>2. \A h \in Hashes : RowTrue(row'[h].status, h, signed', node')
    <2> TAKE h \in Hashes
    <2>1. RowTrue(row[h].status, h, signed', node')
      BY <1>1, RowStaysTrue
    <2> QED  BY <2>1 DEF RowsGo
  <1>3. \A t \in Trackers : TrackerTrue(tracker'[t], signed', node')
    <2> TAKE t \in Trackers
    <2>1. TrackerTrue(tracker[t], signed', node')
      BY <1>1, TrackerStaysTrue
    <2> QED  BY <2>1 DEF TrackersGo
  <1> QED  BY <1>2, <1>3, FactsAfter DEF Followed, WorldGoes, RowsGo, TrackersGo

(* The world, the rows and the trackers may stay as they are.              *)
LEMMA WorldStays ==
    ASSUME TxTrackerInv
    PROVE  /\ UNCHANGED <<signed, node>> => WorldGoes
           /\ UNCHANGED row => RowsGo
           /\ UNCHANGED tracker => TrackersGo
  <1>1. /\ signed \in Seq(FollowedTx) /\ Len(signed) <= MaxCalls
        /\ row \in [Hashes -> RowState]
        /\ node \in [Hashes -> NodeStates]
        /\ tracker \in [Trackers -> TrackerState]
    BY TrackerFacts DEF Followed
  <1> QED  BY <1>1, Zenon DEF WorldGoes, RowsGo, TrackersGo

(* One row gets a status that is true.                                     *)
LEMMA OneStatus ==
    ASSUME TxTrackerInv, NEW h \in Hashes, NEW s \in Statuses,
           row' = [row EXCEPT ![h].status = s], RowTrue(s, h, signed', node')
    PROVE  RowsGo
  <1>1. row \in [Hashes -> RowState]
    BY TrackerFacts DEF Followed
  <1> DEFINE r == [row[h] EXCEPT !.status = s]
  <1>2. r \in RowState /\ r.status = s
    <2>1. row[h] \in RowState
      BY <1>1
    <2> HIDE DEF MaybeHashes
    <2> QED  BY <2>1 DEF RowState
  <1>3. row' = [row EXCEPT ![h] = r]
    BY Zenon
  <1> HIDE DEF r
  <1>4. row' \in [Hashes -> RowState]
    BY <1>1, <1>2, <1>3
  <1>5. row'[h] = r /\ \A g \in Hashes : g # h => row'[g] = row[g]
    BY <1>1, <1>3
  <1> QED  BY <1>2, <1>4, <1>5 DEF RowsGo

(* Marking a row pending says nothing that could be false.                 *)
LEMMA MarkPending ==
    ASSUME TxTrackerInv, NEW h \in DOMAIN signed, h \in DOMAIN signed', row' = Mark(h, "pending")
    PROVE  RowsGo
  <1>1. CASE row[h].status \in Broadcasting
    <2>1. row' = [row EXCEPT ![h].status = "pending"]
      BY <1>1 DEF Mark
    <2>2. RowTrue("pending", h, signed', node') /\ "pending" \in Statuses
      BY DEF RowTrue, Statuses
    <2>3. h \in Hashes
      <3>1. signed \in Seq(FollowedTx) /\ Len(signed) <= MaxCalls
        BY TrackerFacts DEF Followed
      <3> QED  BY <3>1, TxAssumption DEF Hashes, TxAssumption
    <2> QED  BY <2>1, <2>2, <2>3, OneStatus
  <1>2. CASE row[h].status \notin Broadcasting
    BY <1>2, WorldStays DEF Mark
  <1> QED  BY <1>1, <1>2

(* One trackOne moves on, knowing what is true.                            *)
LEMMA OneTracker ==
    ASSUME TxTrackerInv, NEW t \in Trackers, NEW r \in TrackerState,
           tracker' = [tracker EXCEPT ![t] = r], TrackerTrue(r, signed', node')
    PROVE  TrackersGo
  <1>1. tracker \in [Trackers -> TrackerState]
    BY TrackerFacts DEF Followed
  <1>2. tracker' \in [Trackers -> TrackerState]
    BY <1>1, Zenon
  <1>3. tracker'[t] = r /\ \A u \in Trackers : u # t => tracker'[u] = tracker[u]
    BY <1>1, Zenon
  <1> QED  BY <1>2, <1>3 DEF TrackersGo

(* A trackOne may end.                                                     *)
LEMMA Rests ==
    ASSUME TxAssumption, TxTrackerInv, NEW t \in Trackers, Rest(t)
    PROVE  TrackersGo
  <1>1. Resting \in TrackerState /\ Resting.pc = "idle"
    <2>1. 0 \in MaybeHashes
      BY DEF TxAssumption, MaybeHashes
    <2> QED  BY <2>1 DEF Resting, TrackerState, TrackerPcs, Statuses
  <1>2. TrackerTrue(Resting, signed', node')
    BY <1>1 DEF TrackerTrue
  <1> QED  BY <1>1, <1>2, OneTracker DEF Rest

-----------------------------------------------------------------------------
(* What the invariant says of a trackOne that is under way.                *)
LEMMA UnderWay ==
    ASSUME TxTrackerInv, NEW t \in Trackers, tracker[t].pc # "idle"
    PROVE  /\ tracker[t] \in TrackerState /\ TrackerTrue(tracker[t], signed, node)
           /\ tracker[t].tx \in DOMAIN signed /\ tracker[t].tx \in Hashes
           /\ tracker[t].found \subseteq SameNonce(signed, tracker[t].tx)
           /\ tracker[t].status # "replaced"
           /\ tracker[t].status = "confirmed" => node[tracker[t].tx] = "final"
  <1>1. tracker[t] \in TrackerState /\ TrackerTrue(tracker[t], signed, node)
    BY TrackerFacts DEF Followed
  <1>2. signed \in Seq(FollowedTx) /\ Len(signed) <= MaxCalls
    BY TrackerFacts DEF Followed
  <1>3. tracker[t].tx \in DOMAIN signed
    BY <1>1 DEF TrackerTrue
  <1>4. tracker[t].tx \in Hashes
    BY <1>2, <1>3, TxAssumption DEF Hashes, TxAssumption
  <1> QED  BY <1>1, <1>3, <1>4 DEF TrackerTrue

(* Such a trackOne at another place, with a status and with siblings.      *)
Moved(r, pc, status, found) == [r EXCEPT !.pc = pc, !.status = status, !.found = found]

(* It moves on: what it comes to know is true.                             *)
LEMMA TrackerMoves ==
    ASSUME TxTrackerInv, NEW t \in Trackers, tracker[t].pc # "idle", UNCHANGED <<signed, node>>,
           NEW pc \in TrackerPcs, NEW status \in Statuses, NEW found \in SUBSET Hashes,
           tracker' = [tracker EXCEPT ![t] = Moved(tracker[t], pc, status, found)],
           found \subseteq SameNonce(signed, tracker[t].tx),
           status # "replaced",
           pc \in {"replace", "siblings"} => status = "confirmed",
           status = "confirmed" => node[tracker[t].tx] = "final"
    PROVE  TrackersGo
  <1>1. tracker[t] \in TrackerState /\ tracker[t].tx \in DOMAIN signed
    BY UnderWay
  <1>2. PICK r : r = Moved(tracker[t], pc, status, found)
    OBVIOUS
  <1>3. r \in TrackerState
    BY <1>1, <1>2, Zenon DEF TrackerState, Moved
  <1>4. r.pc = pc /\ r.status = status /\ r.found = found /\ r.tx = tracker[t].tx
    BY <1>1, <1>2 DEF TrackerState, Moved
  <1>5. TrackerTrue(r, signed, node)
    BY <1>1, <1>4 DEF TrackerTrue
  <1> QED  BY <1>2, <1>3, <1>5, OneTracker

(* runOnce and GET /tx/:hash: a trackOne begins on a row of the table.     *)
LEMMA BeginTrackKeeps ==
    ASSUME TxTrackerInv, NEW t \in Trackers, NEW h \in Hashes, BeginTrack(t, h)
    PROVE  TxTrackerInv'
  <1> DEFINE r == [Resting EXCEPT !.pc = IF row[h].status = "pending" THEN "receipt" ELSE "probe", !.tx = h]
  <1>1. h \in DOMAIN signed
    <2>1. RowTrue(row[h].status, h, signed, node)
      BY TrackerFacts DEF Followed
    <2>2. row[h].status # "none"
      BY DEF BeginTrack, Trackable, Broadcasting
    <2> QED  BY <2>1, <2>2 DEF RowTrue
  <1>2. h \in MaybeHashes
    BY TxAssumption DEF TxAssumption, Hashes, MaybeHashes
  <1>3. r \in TrackerState /\ r.tx = h /\ r.status = "none" /\ r.found = {} /\ r.pc \in {"receipt", "probe"}
    BY <1>2 DEF Resting, TrackerState, TrackerPcs, Statuses
  <1>4. tracker' = [tracker EXCEPT ![t] = r]
    BY DEF BeginTrack
  <1> HIDE DEF r
  <1>5. TrackerTrue(r, signed', node')
    BY <1>1, <1>3 DEF TrackerTrue, BeginTrack
  <1>6. TrackersGo
    BY <1>3, <1>4, <1>5, OneTracker
  <1> QED  BY <1>6, WorldStays, FollowingKeeps DEF BeginTrack

(* The node has the transaction: the row is pending.                       *)
LEMMA ProbeFoundKeeps ==
    ASSUME TxTrackerInv, NEW t \in Trackers, ProbeFound(t)
    PROVE  TxTrackerInv'
  <1>1. /\ tracker[t] \in TrackerState /\ tracker[t].tx \in DOMAIN signed /\ tracker[t].pc # "idle"
        /\ tracker[t].found \subseteq SameNonce(signed, tracker[t].tx)
        /\ tracker[t].status # "replaced"
        /\ tracker[t].status = "confirmed" => node[tracker[t].tx] = "final"
    BY UnderWay DEF ProbeFound
  <1>2. tracker' = [tracker EXCEPT ![t] = Moved(tracker[t], "receipt", tracker[t].status, tracker[t].found)]
    <2>1. tracker' = [tracker EXCEPT ![t] = [tracker[t] EXCEPT !.pc = "receipt"]]
      BY Zenon DEF ProbeFound
    <2>2. [tracker[t] EXCEPT !.pc = "receipt"] = Moved(tracker[t], "receipt", tracker[t].status, tracker[t].found)
      BY <1>1 DEF Moved, TrackerState
    <2> QED  BY <2>1, <2>2
  <1>3. "receipt" \in TrackerPcs /\ tracker[t].status \in Statuses /\ tracker[t].found \in SUBSET Hashes
    BY <1>1 DEF TrackerPcs, TrackerState
  <1>4. TrackersGo
    <2>1. PICK pc \in TrackerPcs : pc = "receipt"
      BY <1>3
    <2>2. PICK status \in Statuses, found \in SUBSET Hashes : status = tracker[t].status /\ found = tracker[t].found
      BY <1>3
    <2>3. ~(pc \in {"replace", "siblings"})
      BY <2>1
    <2>4. tracker' = [tracker EXCEPT ![t] = Moved(tracker[t], pc, status, found)] /\ UNCHANGED <<signed, node>>
      BY <1>2, <2>1, <2>2 DEF ProbeFound
    <2> QED  BY <1>1, <2>2, <2>3, <2>4, TrackerMoves
  <1>5. RowsGo
    BY <1>1, MarkPending DEF ProbeFound
  <1> QED  BY <1>4, <1>5, WorldStays, FollowingKeeps DEF ProbeFound

(* A receipt: only one that is confirm_depth deep says confirmed.          *)
LEMMA ReadReceiptKeeps ==
    ASSUME TxTrackerInv, NEW t \in Trackers, ReadReceipt(t)
    PROVE  TxTrackerInv'
  <1>1. /\ tracker[t] \in TrackerState /\ tracker[t].pc # "idle"
        /\ tracker[t].found \subseteq SameNonce(signed, tracker[t].tx)
    BY UnderWay DEF ReadReceipt
  <1>2. PICK s \in ReceiptStatus(tracker[t].tx) :
           tracker' = [tracker EXCEPT ![t].status = s,
                                      ![t].pc = IF s = "confirmed" THEN "replace" ELSE "write"]
    BY Zenon DEF ReadReceipt
  <1>3. /\ s \in {"failed", "pending", "confirmed"}
        /\ s = "confirmed" => node[tracker[t].tx] = "final"
    BY DEF ReceiptStatus
  <1>4. PICK pc : pc = IF s = "confirmed" THEN "replace" ELSE "write"
    OBVIOUS
  <1>5. tracker' = [tracker EXCEPT ![t] = Moved(tracker[t], pc, s, tracker[t].found)]
    <2>1. tracker' = [tracker EXCEPT ![t] = [tracker[t] EXCEPT !.status = s, !.pc = pc]]
      BY <1>2, <1>4, Zenon
    <2>2. [tracker[t] EXCEPT !.status = s, !.pc = pc] = Moved(tracker[t], pc, s, tracker[t].found)
      BY <1>1 DEF Moved, TrackerState
    <2> QED  BY <2>1, <2>2
  <1>6. pc \in TrackerPcs /\ s \in Statuses /\ tracker[t].found \in SUBSET Hashes
    BY <1>1, <1>3, <1>4 DEF TrackerPcs, Statuses, Broadcasting, Final, TrackerState
  <1>7. s # "replaced" /\ (pc \in {"replace", "siblings"} => s = "confirmed")
    BY <1>3, <1>4
  <1>8. TrackersGo
    BY <1>1, <1>3, <1>5, <1>6, <1>7, TrackerMoves DEF ReadReceipt
  <1> QED  BY <1>8, WorldStays, FollowingKeeps DEF ReadReceipt

(* No answer: the trackOne ends, or drops the row.                         *)
LEMMA NoAnswerKeeps ==
    ASSUME TxTrackerInv, NEW t \in Trackers, NoAnswer(t)
    PROVE  TxTrackerInv'
  <1>1. CASE Rest(t)
    BY <1>1, TxAssumption, Rests, WorldStays, FollowingKeeps DEF NoAnswer
  <1>2. CASE /\ tracker[t].pc = "receipt"
             /\ tracker' = [tracker EXCEPT ![t].status = "dropped", ![t].pc = "write"]
    <2>1. /\ tracker[t] \in TrackerState /\ tracker[t].pc # "idle"
          /\ tracker[t].found \subseteq SameNonce(signed, tracker[t].tx)
      BY <1>2, UnderWay
    <2>2. tracker' = [tracker EXCEPT ![t] = Moved(tracker[t], "write", "dropped", tracker[t].found)]
      <3>1. tracker' = [tracker EXCEPT ![t] = [tracker[t] EXCEPT !.status = "dropped", !.pc = "write"]]
        BY <1>2, Zenon
      <3>2. [tracker[t] EXCEPT !.status = "dropped", !.pc = "write"]
              = Moved(tracker[t], "write", "dropped", tracker[t].found)
        BY <2>1 DEF Moved, TrackerState
      <3> QED  BY <3>1, <3>2
    <2>3. "write" \in TrackerPcs /\ "dropped" \in Statuses /\ tracker[t].found \in SUBSET Hashes
      BY <2>1 DEF TrackerPcs, Statuses, Final, TrackerState
    <2>4. TrackersGo
      <3>1. PICK pc \in TrackerPcs, status \in Statuses : pc = "write" /\ status = "dropped"
        BY <2>3
      <3>2. ~(pc \in {"replace", "siblings"}) /\ status # "replaced" /\ status # "confirmed"
        BY <3>1
      <3>3. tracker' = [tracker EXCEPT ![t] = Moved(tracker[t], pc, status, tracker[t].found)]
            /\ UNCHANGED <<signed, node>>
        BY <2>2, <3>1 DEF NoAnswer
      <3> QED  BY <2>1, <2>3, <3>2, <3>3, TrackerMoves
    <2> QED  BY <2>4, WorldStays, FollowingKeeps DEF NoAnswer
  <1> QED  BY <1>1, <1>2 DEF NoAnswer

(* An error of the last UPDATE.                                            *)
LEMMA WriteErrorKeeps ==
    ASSUME TxTrackerInv, NEW t \in Trackers, WriteError(t)
    PROVE  TxTrackerInv'
  BY TxAssumption, Rests, WorldStays, FollowingKeeps DEF WriteError

-----------------------------------------------------------------------------
(* The winner of a nonce is final: what it finds are siblings.             *)
LEMMA SelectSiblingsKeeps ==
    ASSUME TxTrackerInv, NEW t \in Trackers, SelectSiblings(t)
    PROVE  TxTrackerInv'
  <1>1. /\ tracker[t] \in TrackerState /\ tracker[t].pc = "replace" /\ tracker[t].pc # "idle"
        /\ TrackerTrue(tracker[t], signed, node)
    BY UnderWay DEF SelectSiblings
  <1>2. tracker[t].status = "confirmed" /\ node[tracker[t].tx] = "final"
    BY <1>1 DEF TrackerTrue
  <1>3. PICK found \in {{}, {g \in Siblings(tracker[t].tx) : row[g].status = "pending"}} :
           tracker' = [tracker EXCEPT ![t].pc = IF found = {} THEN "write" ELSE "siblings", ![t].found = found]
    BY Zenon DEF SelectSiblings
  <1>4. found \subseteq SameNonce(signed, tracker[t].tx) /\ found \in SUBSET Hashes
    <2>1. found \subseteq SameNonce(signed, tracker[t].tx)
      BY DEF Siblings, SameNonce, Signed
    <2>2. signed \in Seq(FollowedTx) /\ Len(signed) <= MaxCalls
      BY TrackerFacts DEF Followed
    <2>3. DOMAIN signed \subseteq Hashes
      BY <2>2, TxAssumption DEF Hashes, TxAssumption
    <2> QED  BY <2>1, <2>3 DEF SameNonce
  <1>5. PICK pc \in TrackerPcs : pc = IF found = {} THEN "write" ELSE "siblings"
    BY DEF TrackerPcs
  <1>6. tracker' = [tracker EXCEPT ![t] = Moved(tracker[t], pc, tracker[t].status, found)]
    <2>1. tracker' = [tracker EXCEPT ![t] = [tracker[t] EXCEPT !.pc = pc, !.found = found]]
      BY <1>3, <1>5, Zenon
    <2>2. [tracker[t] EXCEPT !.pc = pc, !.found = found] = Moved(tracker[t], pc, tracker[t].status, found)
      BY <1>1 DEF Moved, TrackerState
    <2> QED  BY <2>1, <2>2
  <1>7. TrackersGo
    <2>1. tracker[t].status \in Statuses /\ tracker[t].status # "replaced"
      BY <1>1, <1>2 DEF TrackerState
    <2> QED  BY <1>1, <1>2, <1>4, <1>6, <2>1, TrackerMoves DEF SelectSiblings
  <1> QED  BY <1>7, WorldStays, FollowingKeeps DEF SelectSiblings

(* A sibling of a final transaction is marked replaced.                    *)
LEMMA MarkReplacedSiblingsKeeps ==
    ASSUME TxTrackerInv, NEW t \in Trackers, MarkReplacedSiblings(t)
    PROVE  TxTrackerInv'
  <1>1. /\ tracker[t] \in TrackerState /\ tracker[t].pc = "siblings" /\ tracker[t].pc # "idle"
        /\ TrackerTrue(tracker[t], signed, node) /\ tracker[t].tx \in DOMAIN signed
        /\ tracker[t].found \subseteq SameNonce(signed, tracker[t].tx)
    BY UnderWay DEF MarkReplacedSiblings
  <1>2. /\ tracker[t].status = "confirmed" /\ node[tracker[t].tx] = "final"
        /\ tracker[t].status # "replaced" /\ tracker[t].status \in Statuses
        /\ tracker[t].found \in SUBSET Hashes
    BY <1>1 DEF TrackerTrue, TrackerState
  <1>3. UNCHANGED <<signed, node>>
    BY DEF MarkReplacedSiblings
  <1>4. ASSUME NEW pc \in TrackerPcs, NEW found \in SUBSET tracker[t].found,
               tracker' = [tracker EXCEPT ![t].found = found, ![t].pc = pc]
        PROVE  TrackersGo
    <2>1. tracker' = [tracker EXCEPT ![t] = [tracker[t] EXCEPT !.found = found, !.pc = pc]]
      BY <1>4, Zenon
    <2>2. [tracker[t] EXCEPT !.found = found, !.pc = pc] = Moved(tracker[t], pc, tracker[t].status, found)
      BY <1>1 DEF Moved, TrackerState
    <2>3. found \in SUBSET Hashes /\ found \subseteq SameNonce(signed, tracker[t].tx)
      BY <1>1, <1>2
    <2>4. tracker' = [tracker EXCEPT ![t] = Moved(tracker[t], pc, tracker[t].status, found)]
      BY <2>1, <2>2
    <2> QED  BY <1>1, <1>2, <1>3, <2>3, <2>4, TrackerMoves
  <1>5. ASSUME NEW g \in tracker[t].found,
               row' = [row EXCEPT ![g].status = "replaced"],
               tracker' = [tracker EXCEPT ![t].found = @ \ {g},
                                          ![t].pc = IF tracker[t].found = {g} THEN "write" ELSE "siblings"]
        PROVE  TxTrackerInv'
    <2>1. PICK pc \in TrackerPcs : pc = IF tracker[t].found = {g} THEN "write" ELSE "siblings"
      BY DEF TrackerPcs
    <2>2. PICK found \in SUBSET tracker[t].found : found = tracker[t].found \ {g}
      OBVIOUS
    <2>3. tracker' = [tracker EXCEPT ![t].found = found, ![t].pc = pc]
      BY <1>5, <2>1, <2>2, Zenon
    <2>4. TrackersGo
      BY <1>4, <2>3
    <2>5. g \in Hashes /\ g \in SameNonce(signed, tracker[t].tx)
      BY <1>1, <1>2
    <2>6. g \in DOMAIN signed /\ tracker[t].tx \in SameNonce(signed, g)
      BY <1>1, <2>5 DEF SameNonce
    <2>7. RowTrue("replaced", g, signed', node') /\ "replaced" \in Statuses
      <3>1. RowTrue("replaced", g, signed, node)
        BY <1>2, <2>6 DEF RowTrue
      <3> QED  BY <1>3, <3>1 DEF Statuses, Final
    <2>8. RowsGo
      BY <1>5, <2>5, <2>7, OneStatus
    <2> QED  BY <1>3, <2>4, <2>8, WorldStays, FollowingKeeps
  <1>6. ASSUME UNCHANGED row, tracker' = [tracker EXCEPT ![t].found = {}, ![t].pc = "write"]
        PROVE  TxTrackerInv'
    <2>1. PICK pc \in TrackerPcs : pc = "write"
      BY DEF TrackerPcs
    <2>2. PICK found \in SUBSET tracker[t].found : found = {}
      OBVIOUS
    <2>3. tracker' = [tracker EXCEPT ![t].found = found, ![t].pc = pc]
      BY <1>6, <2>1, <2>2
    <2>4. TrackersGo
      BY <1>4, <2>3
    <2> QED  BY <1>3, <1>6, <2>4, WorldStays, FollowingKeeps
  <1> QED  BY <1>5, <1>6, Zenon DEF MarkReplacedSiblings

(* TransitionStatus writes what was read, which is still true: what is     *)
(* final stays final.                                                      *)
LEMMA TransitionStatusKeeps ==
    ASSUME TxTrackerInv, NEW t \in Trackers, TransitionStatus(t)
    PROVE  TxTrackerInv'
  <1>1. /\ tracker[t] \in TrackerState
        /\ tracker[t].tx \in DOMAIN signed /\ tracker[t].tx \in Hashes
        /\ tracker[t].status # "replaced"
        /\ tracker[t].status = "confirmed" => node[tracker[t].tx] = "final"
    BY UnderWay DEF TransitionStatus
  <1>2. PICK h \in Hashes, s \in Statuses : h = tracker[t].tx /\ s = tracker[t].status
    BY <1>1 DEF TrackerState
  <1>3. RowTrue(s, h, signed', node')
    BY <1>1, <1>2 DEF RowTrue, TransitionStatus
  <1>4. row' = [row EXCEPT ![h].status = s]
    BY <1>2 DEF TransitionStatus
  <1>5. RowsGo
    BY <1>3, <1>4, OneStatus
  <1> QED  BY <1>5, TxAssumption, Rests, WorldStays, FollowingKeeps DEF TransitionStatus

-----------------------------------------------------------------------------
(* A transaction is signed, and its row written.                           *)
LEMMA NewTxKeeps ==
    ASSUME TxTrackerInv, NEW nonce \in 0..1, NewTx(nonce)
    PROVE  TxTrackerInv'
  <1>1. /\ signed \in Seq(FollowedTx) /\ row \in [Hashes -> RowState] /\ node \in [Hashes -> NodeStates]
    BY TrackerFacts DEF Followed
  <1>2. PICK b \in BOOLEAN : b = \E g \in Signed : signed[g].nonce = nonce
    OBVIOUS
  <1>3. PICK tx : tx = [from |-> Custodial, nonce |-> nonce, key |-> NoKey, again |-> b]
    OBVIOUS
  <1>4. tx \in FollowedTx
    BY <1>3, Zenon DEF FollowedTx
  <1>5. signed' = Append(signed, tx) /\ UNCHANGED <<node, tracker>>
    BY <1>2, <1>3, Zenon DEF NewTx
  <1>6. PICK n \in Nat : n = Len(signed) /\ n < MaxCalls
    BY <1>1 DEF NewTx
  <1>7. /\ signed' \in Seq(FollowedTx) /\ Len(signed') = n + 1
        /\ DOMAIN signed = 1..n /\ DOMAIN signed' = 1..(n + 1)
        /\ \A i \in 1..n : signed'[i] = signed[i]
    BY <1>1, <1>4, <1>5, <1>6
  <1>8. WorldGoes
    BY <1>1, <1>5, <1>6, <1>7, TxAssumption DEF WorldGoes, TxAssumption
  <1>9. RowsGo
    <2>1. PICK h \in Hashes : h = n + 1
      BY <1>6, TxAssumption DEF Hashes, TxAssumption
    <2>2. row' = [row EXCEPT ![h] = NewRow(h)]
      BY <1>7, <2>1 DEF NewTx
    <2>3. h \in MaybeHashes /\ 0 \in 0..BroadcastMaxRetries
      BY TxAssumption DEF TxAssumption, Hashes, MaybeHashes
    <2>4. NewRow(h) \in RowState /\ NewRow(h).status = "submitting"
      BY <2>3 DEF NewRow, RowState, MaybeHashes, Statuses, Broadcasting
    <2>5. PICK r \in RowState : r = NewRow(h)
      BY <2>4
    <2>6. row' \in [Hashes -> RowState] /\ row'[h] = r /\ \A g \in Hashes : g # h => row'[g] = row[g]
      BY <1>1, <2>2, <2>5
    <2>7. h \in DOMAIN signed'
      BY <1>6, <1>7, <2>1
    <2>8. RowTrue(r.status, h, signed', node')
      BY <2>4, <2>5, <2>7 DEF RowTrue
    <2> QED  BY <2>6, <2>8 DEF RowsGo
  <1> QED  BY <1>5, <1>8, <1>9, WorldStays, FollowingKeeps

(* A node that changes keeps what is final.                                *)
NodeGoes == node' \in [Hashes -> NodeStates] /\ \A h \in Hashes : node[h] = "final" => node'[h] = "final"

(* eth_sendRawTransaction never takes the place of what is in a block.     *)
LEMMA AcceptedGoes ==
    ASSUME TxTrackerInv, NEW h \in Signed, CanAccept(h), node' = Accepted(h)
    PROVE  NodeGoes
  <1>1. node \in [Hashes -> NodeStates]
    BY TrackerFacts DEF Followed
  <1>2. CASE node[h] # "unknown"
    BY <1>1, <1>2 DEF Accepted, NodeGoes
  <1>3. CASE node[h] = "unknown"
    <2>1. \A g \in Siblings(h) : node[g] # "final"
      BY <1>3 DEF CanAccept, InBlock
    <2>2. node' = [g \in Hashes |-> CASE g = h -> "mempool"
                                      [] g \in Siblings(h) -> "unknown"
                                      [] OTHER -> node[g]]
      BY <1>3 DEF Accepted
    <2>3. ASSUME NEW g \in Hashes
          PROVE  node'[g] \in NodeStates /\ (node[g] = "final" => node'[g] = "final")
      <3>1. CASE g = h
        BY <1>3, <2>2, <3>1 DEF NodeStates
      <3>2. CASE g # h /\ g \in Siblings(h)
        BY <2>1, <2>2, <3>2 DEF NodeStates
      <3>3. CASE g # h /\ g \notin Siblings(h)
        BY <1>1, <2>2, <3>3
      <3> QED  BY <3>1, <3>2, <3>3
    <2> QED  BY <2>2, <2>3, Zenon DEF NodeGoes
  <1> QED  BY <1>2, <1>3

(* A broadcast, answered or not.                                           *)
LEMMA BroadcastKeeps ==
    ASSUME TxTrackerInv, NEW h \in Signed, Broadcast(h)
    PROVE  TxTrackerInv'
  <1>1. NodeGoes
    BY AcceptedGoes DEF Broadcast
  <1>2. signed \in Seq(FollowedTx) /\ Len(signed) <= MaxCalls
    BY TrackerFacts DEF Followed
  <1>3. WorldGoes
    BY <1>1, <1>2 DEF NodeGoes, WorldGoes, Broadcast
  <1>4. RowsGo
    BY MarkPending, WorldStays DEF Broadcast, Signed
  <1> QED  BY <1>3, <1>4, WorldStays, FollowingKeeps DEF Broadcast

(* A block, its depth, a reorganisation, the mempool.                      *)
LEMMA ChainStepKeeps ==
    ASSUME TxTrackerInv, NEW h \in Signed, ChainStep(h)
    PROVE  TxTrackerInv'
  <1>1. node \in [Hashes -> NodeStates] /\ signed \in Seq(FollowedTx) /\ Len(signed) <= MaxCalls
    BY TrackerFacts DEF Followed
  <1>2. PICK s \in NodeStates : node' = [node EXCEPT ![h] = s] /\ (node[h] # "final" \/ s = "final")
    BY DEF ChainStep, Mine, Finalise, Reorganise, Evict, NodeStates, InBlock
  <1>3. NodeGoes
    BY <1>1, <1>2 DEF NodeGoes
  <1>4. WorldGoes
    BY <1>1, <1>3 DEF NodeGoes, WorldGoes, ChainStep
  <1> QED  BY <1>4, WorldStays, FollowingKeeps DEF ChainStep

-----------------------------------------------------------------------------
(* No row, nothing signed, nobody under way.                               *)
LEMMA TrackerInitHolds ==
    ASSUME TxTrackerInit PROVE TxTrackerInv
  <1>1. NoTx \in RowState /\ NoTx.status = "none"
    BY TxAssumption DEF TxAssumption, NoTx, RowState, Statuses
  <1>2. Resting \in TrackerState /\ Resting.pc = "idle"
    <2>1. 0 \in MaybeHashes
      BY TxAssumption DEF TxAssumption, MaybeHashes
    <2> QED  BY <2>1 DEF Resting, TrackerState, TrackerPcs, Statuses
  <1>3. signed \in Seq(FollowedTx) /\ Len(signed) <= MaxCalls
    BY TxAssumption DEF TxTrackerInit, TxAssumption
  <1>4. node \in [Hashes -> NodeStates]
    BY DEF TxTrackerInit, NodeStates
  <1>5. row \in [Hashes -> RowState] /\ \A h \in Hashes : row[h].status = "none"
    BY <1>1 DEF TxTrackerInit
  <1>6. tracker \in [Trackers -> TrackerState] /\ \A t \in Trackers : tracker[t].pc = "idle"
    BY <1>2 DEF TxTrackerInit
  <1>7. \A h \in Hashes : RowTrue(row[h].status, h, signed, node)
    BY <1>5 DEF RowTrue
  <1>8. \A t \in Trackers : TrackerTrue(tracker[t], signed, node)
    BY <1>6 DEF TrackerTrue
  <1> QED  BY <1>3, <1>4, <1>5, <1>6, <1>7, <1>8, TrackerFacts DEF Followed

(* Every step keeps TxTrackerInv.                                          *)
LEMMA TrackerNextKeeps ==
    ASSUME TxTrackerInv, TxTrackerNext PROVE TxTrackerInv'
  <1>1. CASE runOnce
    BY <1>1, TrackerAssumption, BeginTrackKeeps DEF runOnce, TrackerAssumption
  <1>2. ASSUME NEW t \in Trackers, HandleTxGet(t) PROVE TxTrackerInv'
    BY <1>2, BeginTrackKeeps DEF HandleTxGet
  <1>3. ASSUME NEW t \in Trackers, TrackerStep(t) PROVE TxTrackerInv'
    BY <1>3, ProbeFoundKeeps, ReadReceiptKeeps, NoAnswerKeeps, SelectSiblingsKeeps,
       MarkReplacedSiblingsKeeps, TransitionStatusKeeps DEF TrackerStep
  <1>4. ASSUME NEW t \in Trackers, WriteError(t) PROVE TxTrackerInv'
    BY <1>4, WriteErrorKeeps
  <1>5. ASSUME NEW nonce \in 0..1, NewTx(nonce) PROVE TxTrackerInv'
    BY <1>5, NewTxKeeps
  <1>6. ASSUME NEW h \in Signed, Broadcast(h) \/ ChainStep(h) PROVE TxTrackerInv'
    BY <1>6, BroadcastKeeps, ChainStepKeeps
  <1> QED  BY <1>1, <1>2, <1>3, <1>4, <1>5, <1>6, Zenon DEF TxTrackerNext

(* ... and so does a step of something else.                               *)
LEMMA TrackerStutterKeeps ==
    ASSUME TxTrackerInv, UNCHANGED trackVars PROVE TxTrackerInv'
  BY WorldStays, FollowingKeeps DEF trackVars

(* What TxTracker keeps, whatever the poll loop, the refreshes, the calls  *)
(* and the chain do: the types, and that what a trackOne holds of a final  *)
(* transaction is still true when it writes it, however late               *)
(* (tx/tracker.go).                                                        *)
THEOREM TxTrackerInvariant == TxTrackerSpec => []TxTrackerInv
  <1>1. TxTrackerInit => TxTrackerInv
    BY TrackerInitHolds
  <1>2. TxTrackerInv /\ [TxTrackerNext]_trackVars => TxTrackerInv'
    BY TrackerNextKeeps, TrackerStutterKeeps
  <1> QED  BY <1>1, <1>2, PTL DEF TxTrackerSpec

(* A row that is confirmed or replaced says what is true of the chain      *)
(* (TransitionStatus, MarkReplacedSiblings, tx/store.go), for any number   *)
(* of refreshes that overtake the poll loop.                               *)
THEOREM StatusesAreTrue == TxTrackerSpec => []StatusIsTrue
  <1>1. TxTrackerInv => StatusIsTrue
    BY DEF TxTrackerInv
  <1> QED  BY <1>1, TxTrackerInvariant, PTL
=============================================================================
