---------------------------- MODULE StoreProofs -----------------------------
(***************************************************************************)
(* What the program stores of the chain: the blocks of the indexer (module *)
(* Indexer), for any number of workers, blocks, reorganisations and faults, *)
(* then the wallets (module Wallet), for any addresses, users, instances   *)
(* and handlers.  The two share no state.                                  *)
(***************************************************************************)
EXTENDS Indexer, Wallet, FiniteSetTheorems, WellFoundedInduction, TLAPS

-----------------------------------------------------------------------------
(* A set of heights that is not empty has a largest one.                   *)
LEMMA LargestHeight ==
    ASSUME NEW k \in Nat, NEW S \in SUBSET (1..k), S # {}
    PROVE  \E x \in S : \A y \in S : y <= x
  <1> DEFINE T == {k - x : x \in S}
  <1>1. T \subseteq Nat /\ T # {}
    <2>1. ASSUME NEW x \in S PROVE k - x \in Nat
      <3>1. x \in Int /\ 1 <= x /\ x <= k
        OBVIOUS
      <3> QED  BY <3>1
    <2>2. PICK x \in S : TRUE
      OBVIOUS
    <2>3. k - x \in T
      BY <2>2
    <2> QED  BY <2>1, <2>3
  <1>2. \E t \in T : \A u \in T : ~(<<u, t>> \in OpToRel(<, Nat))
    <2> HIDE DEF T
    <2> QED  BY <1>1, NatLessThanWellFounded, WFMin
  <1>3. PICK t \in T : \A u \in T : ~(<<u, t>> \in OpToRel(<, Nat))
    BY <1>2
  <1>4. PICK x \in S : t = k - x
    BY <1>3
  <1>5. ASSUME NEW y \in S PROVE y <= x
    <2>1. k - y \in T /\ k - y \in Nat /\ t \in Nat
      BY <1>1
    <2>2. ~(k - y < t)
      BY <2>1, <1>3 DEF OpToRel
    <2> QED  BY <2>2, <1>4
  <1> QED  BY <1>5

(* The first k heights of a set, as runBackfill counts them, are at most   *)
(* k: the largest of them has all the others below it.                     *)
LEMMA FirstHeights ==
    ASSUME NEW W \in SUBSET Heights, NEW k \in Nat, MaxHeight \in Nat
    PROVE  Cardinality({n \in W : Cardinality({m \in W : m < n}) < k}) <= k
  <1> DEFINE S == {n \in W : Cardinality({m \in W : m < n}) < k}
  <1>1. IsFiniteSet(W)
    <2>1. IsFiniteSet(Heights)
      BY FS_Interval DEF Heights
    <2> QED  BY <2>1, FS_Subset
  <1>2. IsFiniteSet(S)
    BY <1>1, FS_Subset
  <1>3. CASE S = {}
    <2> HIDE DEF S
    <2>1. Cardinality(S) = 0
      BY <1>3, FS_EmptySet
    <2> QED  BY <2>1 DEF S
  <1>4. CASE S # {}
    <2>1. PICK x \in S : \A y \in S : y <= x
      BY <1>4, LargestHeight DEF Heights
    <2> DEFINE below == {m \in W : m < x}
    <2>2. S \ {x} \subseteq below
      <3> SUFFICES ASSUME NEW y \in S, y # x PROVE y \in W /\ y < x
        OBVIOUS
      <3>1. y \in Int /\ x \in Int /\ y <= x
        BY <2>1 DEF Heights
      <3> QED  BY <3>1
    <2>3. IsFiniteSet(below) /\ Cardinality(below) < k
      BY <1>1, <2>1, FS_Subset
    <2>4. Cardinality(S \ {x}) <= Cardinality(below) /\ Cardinality(below) \in Nat
      BY <2>2, <2>3, FS_Subset, FS_CardinalityType
    <2>5. Cardinality(S \ {x}) = Cardinality(S) - 1 /\ Cardinality(S) \in Nat
      BY <1>2, FS_RemoveElement, FS_CardinalityType
    <2> QED  BY <2>3, <2>4, <2>5
  <1> QED  BY <1>3, <1>4

(* Adding to a finite set adds at most what is added.                      *)
LEMMA UnionBound ==
    ASSUME NEW A, NEW B, IsFiniteSet(A), IsFiniteSet(B)
    PROVE  /\ IsFiniteSet(A \union B)
           /\ Cardinality(A \union B) <= Cardinality(A) + Cardinality(B)
  <1>1. /\ IsFiniteSet(A \union B)
        /\ Cardinality(A \union B) = Cardinality(A) + Cardinality(B) - Cardinality(A \intersect B)
    BY FS_Union
  <1>2. IsFiniteSet(A \intersect B)
    BY FS_Subset
  <1> QED  BY <1>1, <1>2, FS_CardinalityType

-----------------------------------------------------------------------------
(* What a set of heights must be to be the contents of jobs.               *)
JobsOK(S) == S \subseteq Heights /\ Cardinality(S) <= JobsCap

(* Sends and receives keep the channel within its capacity.                *)
LEMMA JobsBounded ==
    ASSUME IndexerAssumption, JobsOK(jobs)
    PROVE  /\ JobsOK({})
           /\ \A n \in Heights : JobsOK(Offered(n)) /\ JobsOK(jobs \ {n})
           /\ \A n \in Heights : Room => JobsOK(jobs \union {n})
           /\ \A W \in SUBSET Heights :
                 Room => JobsOK(jobs \union {n \in W : Cardinality({m \in W : m < n})
                                                        < JobsCap - Cardinality(jobs)})
  <1>1. JobsCap \in Nat /\ MaxHeight \in Nat
    BY DEF IndexerAssumption
  <1>2. IsFiniteSet(Heights)
    BY <1>1, FS_Interval DEF Heights
  <1>3. jobs \in SUBSET Heights /\ IsFiniteSet(jobs) /\ Cardinality(jobs) \in Nat /\ Cardinality(jobs) <= JobsCap
    BY <1>2, FS_Subset, FS_CardinalityType DEF JobsOK
  <1>4. JobsOK({})
    BY <1>1, FS_EmptySet DEF JobsOK
  <1>5. ASSUME NEW n \in Heights, Room PROVE JobsOK(jobs \union {n})
    <2>1. Cardinality(jobs \union {n}) <= Cardinality(jobs) + 1
      BY <1>3, FS_AddElement, SMTT(60)
    <2> QED  BY <1>1, <1>3, <1>5, <2>1, FS_AddElement, FS_CardinalityType DEF JobsOK, Room
  <1>6. ASSUME NEW n \in Heights PROVE JobsOK(Offered(n)) /\ JobsOK(jobs \ {n})
    BY <1>1, <1>3, <1>5, FS_RemoveElement DEF JobsOK, Offered
  <1>7. ASSUME NEW W \in SUBSET Heights, Room
        PROVE  JobsOK(jobs \union {n \in W : Cardinality({m \in W : m < n})
                                             < JobsCap - Cardinality(jobs)})
    <2> DEFINE k == JobsCap - Cardinality(jobs)
               sent == {n \in W : Cardinality({m \in W : m < n}) < k}
    <2>1. k \in Nat
      BY <1>1, <1>3
    <2>2. Cardinality(sent) <= k
      <3> HIDE DEF k
      <3> QED  BY <1>1, <2>1, FirstHeights
    <2>3. sent \in SUBSET Heights /\ IsFiniteSet(sent)
      BY <1>2, FS_Subset
    <2> HIDE DEF sent
    <2>4. Cardinality(jobs \union sent) <= Cardinality(jobs) + Cardinality(sent)
          /\ IsFiniteSet(jobs \union sent)
      BY <1>3, <2>3, UnionBound
    <2>5. Cardinality(jobs \union sent) <= JobsCap
      BY <1>1, <1>3, <2>2, <2>3, <2>4, FS_CardinalityType
    <2> QED  BY <1>3, <2>3, <2>5 DEF JobsOK, sent
  <1> QED  BY <1>4, <1>5, <1>6, <1>7

WorkerState ==
    [pc : {"idle", "detect", "reorg", "requeue", "store", "commit"}, num : 0..MaxHeight,
     hash : Versions, parent : Versions, upTo : 0..MaxHeight, ahead : BOOLEAN]
BlockRow == [hash : Versions, status : {"none", "pending", "confirmed", "orphaned"}]

(* IndexerTypeOK by the parts of the state that change together.           *)
ChainOK == chain \in Seq(Versions) /\ Len(chain) <= MaxHeight /\ reorgs \in 0..MaxReorgs
BacklogOK == announced \subseteq Heights /\ wal \subseteq Heights
WorkersOK == worker \in [Workers -> WorkerState] /\ locks \subseteq Heights
RowsOK ==
    /\ blocks \in [Heights -> BlockRow]
    /\ cp \in 0..MaxHeight
    /\ credited \subseteq Heights \X Versions
FaultsOK == faults \in 0..MaxFaults

(* They are all of it.                                                     *)
LEMMA TypeParts ==
    IndexerTypeOK <=> ChainOK /\ BacklogOK /\ JobsOK(jobs) /\ WorkersOK /\ RowsOK /\ FaultsOK
  BY DEF IndexerTypeOK, ChainOK, BacklogOK, JobsOK, WorkersOK, RowsOK, FaultsOK, WorkerState, BlockRow, Tip

(* The next states of a worker are states of a worker.                     *)
LEMMA WorkerMoves ==
    ASSUME MaxReorgs \in Nat, WorkersOK, NEW w \in Workers
    PROVE  /\ \A p \in {"reorg", "requeue", "store"} :
                 /\ [worker EXCEPT ![w].pc = p] \in [Workers -> WorkerState]
                 /\ [worker EXCEPT ![w].pc = p, ![w].parent = 0] \in [Workers -> WorkerState]
           /\ \A b \in BOOLEAN, u \in 0..MaxHeight :
                 [worker EXCEPT ![w].pc = "commit", ![w].ahead = b, ![w].upTo = u]
                     \in [Workers -> WorkerState]
  <1>1. 0 \in Versions /\ worker \in [Workers -> WorkerState]
    BY DEF Versions, WorkersOK
  <1>2. ASSUME NEW p \in {"reorg", "requeue", "store"}
        PROVE  /\ [worker EXCEPT ![w].pc = p] \in [Workers -> WorkerState]
               /\ [worker EXCEPT ![w].pc = p, ![w].parent = 0] \in [Workers -> WorkerState]
    <2> DEFINE q == [worker[w] EXCEPT !.pc = p]
               r == [worker[w] EXCEPT !.pc = p, !.parent = 0]
    <2>1. p \in {"idle", "detect", "reorg", "requeue", "store", "commit"}
      OBVIOUS
    <2>2. q \in WorkerState /\ r \in WorkerState
      BY <1>1, <2>1, Zenon DEF WorkerState
    <2>3. /\ [worker EXCEPT ![w].pc = p] = [worker EXCEPT ![w] = q]
          /\ [worker EXCEPT ![w].pc = p, ![w].parent = 0] = [worker EXCEPT ![w] = r]
      BY <1>1, Zenon DEF WorkerState
    <2> HIDE DEF q, r
    <2> QED  BY <1>1, <2>2, <2>3
  <1>3. ASSUME NEW b \in BOOLEAN, NEW u \in 0..MaxHeight
        PROVE  [worker EXCEPT ![w].pc = "commit", ![w].ahead = b, ![w].upTo = u]
                   \in [Workers -> WorkerState]
    <2> DEFINE r == [worker[w] EXCEPT !.pc = "commit", !.ahead = b, !.upTo = u]
    <2>1. r \in WorkerState
      BY <1>1, Zenon DEF WorkerState
    <2>2. [worker EXCEPT ![w].pc = "commit", ![w].ahead = b, ![w].upTo = u] = [worker EXCEPT ![w] = r]
      BY <1>1, Zenon DEF WorkerState
    <2> HIDE DEF r
    <2> QED  BY <1>1, <2>1, <2>2
  <1> QED  BY <1>2, <1>3

(* Every step keeps the types, the channel's capacity among them.          *)
LEMMA IndexerTypeNext ==
    ASSUME IndexerAssumption, IndexerTypeOK, WorkerHasBlock, [IndexerNext]_indexerVars
    PROVE  IndexerTypeOK'
  <1> SUFFICES ChainOK' /\ BacklogOK' /\ JobsOK(jobs)' /\ WorkersOK' /\ RowsOK' /\ FaultsOK'
    BY TypeParts, PTL
  <1> USE DEF environment
  <1>0. /\ MaxHeight \in Nat /\ MaxReorgs \in Nat /\ MaxFaults \in Nat
        /\ ChainOK /\ BacklogOK /\ JobsOK(jobs) /\ WorkersOK /\ RowsOK /\ FaultsOK
    BY TypeParts DEF IndexerAssumption
  <1>j. /\ JobsOK({})
        /\ \A n \in Heights : JobsOK(Offered(n)) /\ JobsOK(jobs \ {n})
        /\ \A n \in Heights : Room => JobsOK(jobs \union {n})
    BY <1>0, JobsBounded
  <1>k. \A n \in 1..Tip : n \in Heights
    BY <1>0 DEF ChainOK, Heights, Tip
  <1>f. UNCHANGED <<chain, reorgs>> => ChainOK'
    BY <1>0 DEF ChainOK
  <1>g. UNCHANGED <<announced, wal>> => BacklogOK'
    BY <1>0 DEF BacklogOK
  <1>h. UNCHANGED <<worker, locks>> => WorkersOK'
    BY <1>0 DEF WorkersOK
  <1>i. UNCHANGED <<blocks, cp, credited>> => RowsOK'
    BY <1>0 DEF RowsOK
  <1>l. (UNCHANGED faults => FaultsOK') /\ (Fault => FaultsOK')
    BY <1>0 DEF FaultsOK, Fault
  <1>m. UNCHANGED jobs => JobsOK(jobs)'
    BY <1>0
  <1>1. CASE AddBlock
    <2>1. ChainOK'
      BY <1>0, <1>1 DEF AddBlock, ChainOK, Versions, Tip
    <2> QED  BY <1>1, <2>1, <1>g, <1>h, <1>i, <1>l, <1>m DEF AddBlock
  <1>2. ASSUME NEW n \in 1..Tip, Reorganise(n)
        PROVE  ChainOK' /\ BacklogOK' /\ JobsOK(jobs)' /\ WorkersOK' /\ RowsOK' /\ FaultsOK'
    <2>1. ChainOK'
      <3>1. chain' \in [1..Tip -> Versions]
        BY <1>0, <1>2, SMTT(60) DEF Reorganise, ChainOK, Versions, Tip
      <3>2. Tip \in Nat /\ Tip <= MaxHeight
        BY <1>0 DEF ChainOK, Tip
      <3>3. chain' \in Seq(Versions) /\ Len(chain') = Tip
        BY <3>1, <3>2
      <3> QED  BY <1>0, <1>2, <3>2, <3>3 DEF Reorganise, ChainOK
    <2> QED  BY <1>2, <2>1, <1>g, <1>h, <1>i, <1>l, <1>m DEF Reorganise
  <1>3. ASSUME NEW n \in 1..Tip, EnqueueHeader(n)
        PROVE  ChainOK' /\ BacklogOK' /\ JobsOK(jobs)' /\ WorkersOK' /\ RowsOK' /\ FaultsOK'
    <2>1. BacklogOK'
      BY <1>0, <1>k, <1>3 DEF EnqueueHeader, EnqueuePendingHeader, BacklogOK
    <2> QED  BY <1>3, <2>1, <1>j, <1>k, <1>f, <1>h, <1>i, <1>l DEF EnqueueHeader
  <1>4. ASSUME NEW n \in 1..Tip, runGapScan(n)
        PROVE  ChainOK' /\ BacklogOK' /\ JobsOK(jobs)' /\ WorkersOK' /\ RowsOK' /\ FaultsOK'
    <2>1. BacklogOK'
      BY <1>0, <1>k, <1>4 DEF runGapScan, EnqueuePendingHeader, BacklogOK
    <2> QED  BY <1>4, <2>1, <1>j, <1>k, <1>f, <1>h, <1>i, <1>l DEF runGapScan
  <1>5. ASSUME NEW n \in wal, recoverPending(n)
        PROVE  ChainOK' /\ BacklogOK' /\ JobsOK(jobs)' /\ WorkersOK' /\ RowsOK' /\ FaultsOK'
    <2>1. n \in Heights
      BY <1>0 DEF BacklogOK
    <2> QED  BY <1>5, <2>1, <1>j, <1>f, <1>g, <1>h, <1>i, <1>l DEF recoverPending
  <1>6. CASE runBackfill
    <2>1. JobsOK(jobs')
      BY <1>0, <1>6, JobsBounded DEF runBackfill
    <2> QED  BY <1>6, <2>1, <1>f, <1>g, <1>h, <1>i, <1>l DEF runBackfill
  <1>7. ASSUME NEW w \in Workers, NoReorg(w)
        PROVE  ChainOK' /\ BacklogOK' /\ JobsOK(jobs)' /\ WorkersOK' /\ RowsOK' /\ FaultsOK'
    <2>1. WorkersOK'
      BY <1>0, <1>7, WorkerMoves DEF NoReorg, WorkersOK
    <2> QED  BY <1>7, <2>1, <1>f, <1>g, <1>i, <1>l, <1>m DEF NoReorg
  <1>8. ASSUME NEW w \in Workers, HandleReorg(w)
        PROVE  ChainOK' /\ BacklogOK' /\ JobsOK(jobs)' /\ WorkersOK' /\ RowsOK' /\ FaultsOK'
    <2>1. worker[w].num \in Heights
      BY <1>8 DEF HandleReorg, WorkerHasBlock
    <2>3. WorkersOK'
      BY <1>0, <1>8, WorkerMoves DEF HandleReorg, WorkersOK
    <2>4. blocks' \in [Heights -> BlockRow]
      BY <1>0, <1>8 DEF HandleReorg, Orphaned, RowsOK, BlockRow, Versions
    <2>5. RowsOK'
      BY <1>0, <1>8, <2>1, <2>4, SMTT(60) DEF HandleReorg, RollbackCheckpointTx, RowsOK, Heights
    <2> QED  BY <1>8, <2>3, <2>5, <1>f, <1>g, <1>l, <1>m DEF HandleReorg
  <1>18. ASSUME NEW w \in Workers, DetectReorg(w)
        PROVE  ChainOK' /\ BacklogOK' /\ JobsOK(jobs)' /\ WorkersOK' /\ RowsOK' /\ FaultsOK'
    <2>1. WorkersOK'
      BY <1>0, <1>18, WorkerMoves DEF DetectReorg, WorkersOK
    <2> QED  BY <1>18, <2>1, <1>f, <1>g, <1>i, <1>l, <1>m DEF DetectReorg
  <1>19. ASSUME NEW w \in Workers, Requeue(w), FaultsOK',
                UNCHANGED wal \/ EnqueuePendingHeader(worker[w].num)
        PROVE  ChainOK' /\ BacklogOK' /\ JobsOK(jobs)' /\ WorkersOK' /\ RowsOK' /\ FaultsOK'
    <2>1. worker[w].num \in Heights
      BY <1>19 DEF Requeue, WorkerHasBlock
    <2>2. BacklogOK'
      BY <1>0, <1>19, <2>1 DEF Requeue, EnqueuePendingHeader, BacklogOK
    <2>3. WorkersOK'
      BY <1>0, <1>19, WorkerMoves DEF Requeue, WorkersOK
    <2> QED  BY <1>19, <2>1, <2>2, <2>3, <1>f, <1>i, <1>j DEF Requeue
  <1>9. ASSUME NEW w \in Workers, NEW head, NEW last, ReadTip(w, head, last), FaultsOK'
        PROVE  ChainOK' /\ BacklogOK' /\ JobsOK(jobs)' /\ WorkersOK' /\ RowsOK' /\ FaultsOK'
    <2>1. ConfirmedUpTo(worker[w].num, head) \in 0..MaxHeight
      BY <1>0 DEF ConfirmedUpTo, WorkersOK, WorkerState
    <2>2. (worker[w].num > last) \in BOOLEAN
      OBVIOUS
    <2>3. WorkersOK'
      BY <1>0, <1>9, <2>1, <2>2, WorkerMoves DEF ReadTip, WorkersOK
    <2> QED  BY <1>9, <2>3, <1>f, <1>g, <1>i, <1>m DEF ReadTip
  <1>r. ASSUME NEW w \in Workers, Return(w) PROVE WorkersOK'
    <2>1. Idle \in WorkerState
      BY <1>0 DEF Idle, WorkerState, Versions
    <2> QED  BY <1>0, <1>r, <2>1 DEF Return, WorkersOK
  <1>10. ASSUME NEW w \in Workers, NEW read \in BOOLEAN, Commit(w, read), FaultsOK'
        PROVE  ChainOK' /\ BacklogOK' /\ JobsOK(jobs)' /\ WorkersOK' /\ RowsOK' /\ FaultsOK'
    <2>1. worker[w].num \in Heights /\ worker[w].hash \in Versions
      BY <1>0, <1>10 DEF Commit, WorkerHasBlock, WorkersOK, WorkerState
    <2>2. BacklogOK'
      BY <1>0, <1>10 DEF Commit, DeletePendingHeaderTx, BacklogOK
    <2>3. UpsertBlockTx(w) \in [Heights -> BlockRow]
      BY <1>0, <2>1 DEF UpsertBlockTx, RowsOK, BlockRow
    <2>4. ASSUME NEW stored \in [Heights -> BlockRow], NEW upTo
          PROVE  ConfirmBlocksUpToTx(stored, upTo) \in [Heights -> BlockRow]
      BY DEF ConfirmBlocksUpToTx, BlockRow
    <2>5. RowsOK'
      BY <1>0, <1>10, <2>1, <2>3, <2>4 DEF Commit, UpsertCheckpointTx, RowsOK, Heights
    <2> QED  BY <1>10, <2>2, <2>5, <1>r, <1>f, <1>m DEF Commit
  <1>11. ASSUME NEW w \in Workers, Fail(w)
        PROVE  ChainOK' /\ BacklogOK' /\ JobsOK(jobs)' /\ WorkersOK' /\ RowsOK' /\ FaultsOK'
    BY <1>11, <1>r, <1>f, <1>g, <1>i, <1>l, <1>m DEF Fail
  <1>12. ASSUME NEW w \in Workers, NEW n \in jobs, TakeJob(w, n)
        PROVE  ChainOK' /\ BacklogOK' /\ JobsOK(jobs)' /\ WorkersOK' /\ RowsOK' /\ FaultsOK'
    <2>1. n \in Heights
      BY <1>0 DEF JobsOK
    <2>2. ASSUME n <= Tip, Begin(w, n) PROVE WorkersOK'
      <3> DEFINE parent == IF n = 1 THEN 0 ELSE chain[n - 1]
                 r == [Idle EXCEPT !.pc = "detect", !.num = n, !.hash = chain[n], !.parent = parent]
      <3>1. chain[n] \in Versions /\ parent \in Versions
        BY <1>0, <2>1, <2>2, SMTT(60) DEF ChainOK, Tip, Heights, Versions
      <3>2. r \in WorkerState
        <4>1. n \in 0..MaxHeight /\ 0 \in 0..MaxHeight
          BY <1>0, <2>1 DEF Heights
        <4>2. Idle \in WorkerState
          BY <1>0, <4>1 DEF Idle, WorkerState, Versions
        <4> HIDE DEF parent
        <4> QED  BY <3>1, <4>1, <4>2, Zenon DEF WorkerState
      <3>3. worker' = [worker EXCEPT ![w] = r]
        BY <2>2 DEF Begin
      <3> HIDE DEF r
      <3> QED  BY <1>0, <2>1, <2>2, <3>2, <3>3 DEF Begin, WorkersOK
    <2>3. WorkersOK'
      BY <1>12, <2>2, <1>h DEF TakeJob
    <2> QED  BY <1>12, <2>1, <2>3, <1>j, <1>f, <1>g, <1>i, <1>l DEF TakeJob
  <1>13. ASSUME NEW n \in locks, ExpireLock(n), FaultsOK'
        PROVE  ChainOK' /\ BacklogOK' /\ JobsOK(jobs)' /\ WorkersOK' /\ RowsOK' /\ FaultsOK'
    <2>1. WorkersOK'
      BY <1>0, <1>13 DEF ExpireLock, WorkersOK
    <2> QED  BY <1>13, <2>1, <1>f, <1>g, <1>i, <1>m DEF ExpireLock
  <1>14. CASE Restart
    <2>1. WorkersOK'
      BY <1>0, <1>14 DEF Restart, WorkersOK, WorkerState, Idle, Versions
    <2> QED  BY <1>14, <2>1, <1>j, <1>f, <1>g, <1>i, <1>l DEF Restart
  <1>15. CASE UNCHANGED indexerVars
    BY <1>15, <1>f, <1>g, <1>h, <1>i, <1>l, <1>m DEF indexerVars
  <1>16. ASSUME NEW w \in Workers, IgnoredError(w)
        PROVE  ChainOK' /\ BacklogOK' /\ JobsOK(jobs)' /\ WorkersOK' /\ RowsOK' /\ FaultsOK'
    <2>1. FaultsOK'
      BY <1>16, <1>l DEF IgnoredError
    <2> QED  BY <1>9, <1>10, <1>16, <1>19, <2>1 DEF IgnoredError, CommitUnread
  <1>17. ASSUME NEW w \in Workers, UNCHANGED faults,
                \/ ReadTip(w, Tip, cp)
                \/ Commit(w, TRUE)
                \/ Requeue(w) /\ EnqueuePendingHeader(worker[w].num)
        PROVE  ChainOK' /\ BacklogOK' /\ JobsOK(jobs)' /\ WorkersOK' /\ RowsOK' /\ FaultsOK'
    BY <1>9, <1>10, <1>17, <1>19, <1>l
  <1>20. ASSUME NEW n \in locks, ExpireLock(n), IF Held(n) THEN Fault ELSE UNCHANGED faults
        PROVE  ChainOK' /\ BacklogOK' /\ JobsOK(jobs)' /\ WorkersOK' /\ RowsOK' /\ FaultsOK'
    BY <1>13, <1>20, <1>l
  <1> QED
    BY <1>1, <1>2, <1>3, <1>4, <1>5, <1>6, <1>7, <1>8, <1>11, <1>12, <1>14, <1>15, <1>16, <1>17, <1>18,
       <1>20
       DEF IndexerNext, syncBlock

-----------------------------------------------------------------------------
(* WorkerHasBlock of one worker's record.                                  *)
HasBlock(r) ==
    /\ r.pc # "idle" => r.num \in Heights
    /\ r.pc = "commit" => r.upTo \in {0, r.num}

(* A step of one worker's record keeps WorkerHasBlock if the record does.  *)
LEMMA OneWorkerMoves ==
    ASSUME WorkerHasBlock, NEW w \in Workers,
           \A v \in Workers \ {w} : worker'[v] = worker[v],
           HasBlock(worker'[w])
    PROVE  WorkerHasBlock'
  BY DEF WorkerHasBlock, HasBlock

(* Every step keeps WorkerHasBlock: a worker gets its height from jobs and *)
(* keeps it until syncBlock returns.                                       *)
LEMMA WorkerHasBlockNext ==
    ASSUME IndexerAssumption, IndexerTypeOK, WorkerHasBlock, [IndexerNext]_indexerVars
    PROVE  WorkerHasBlock'
  <1> USE DEF environment
  <1>0. worker \in [Workers -> WorkerState] /\ jobs \subseteq Heights
    BY DEF IndexerTypeOK, WorkerState
  <1>1. ASSUME UNCHANGED worker PROVE WorkerHasBlock'
    BY <1>1 DEF WorkerHasBlock
  <1>2. ASSUME NEW w \in Workers, Return(w) PROVE WorkerHasBlock'
    <2>1. worker'[w] = Idle /\ \A v \in Workers \ {w} : worker'[v] = worker[v]
      BY <1>0, <1>2 DEF Return
    <2>2. HasBlock(Idle)
      BY DEF HasBlock, Idle
    <2> QED  BY <2>1, <2>2, OneWorkerMoves
  <1>3. ASSUME NEW w \in Workers, NoReorg(w) \/ DetectReorg(w) \/ HandleReorg(w) \/ Requeue(w)
        PROVE  WorkerHasBlock'
    <2>1. PICK p \in {"reorg", "requeue", "store"} :
            /\ \/ worker' = [worker EXCEPT ![w].pc = p, ![w].parent = 0]
               \/ worker' = [worker EXCEPT ![w].pc = p]
            /\ worker[w].pc # "idle"
      BY <1>3 DEF NoReorg, DetectReorg, HandleReorg, Requeue
    <2>2. /\ worker'[w].pc = p
          /\ worker'[w].num = worker[w].num
          /\ \A v \in Workers \ {w} : worker'[v] = worker[v]
      BY <1>0, <2>1 DEF WorkerState
    <2>3. HasBlock(worker'[w])
      BY <2>1, <2>2 DEF HasBlock, WorkerHasBlock
    <2> QED  BY <2>2, <2>3, OneWorkerMoves
  <1>4. ASSUME NEW w \in Workers, NEW head, NEW last, ReadTip(w, head, last) PROVE WorkerHasBlock'
    <2> DEFINE upTo == ConfirmedUpTo(worker[w].num, head)
    <2>0. upTo \in {0, worker[w].num}
      BY DEF ConfirmedUpTo
    <2> HIDE DEF upTo
    <2>1. /\ worker' = [worker EXCEPT ![w].pc = "commit", ![w].ahead = worker[w].num > last,
                                      ![w].upTo = upTo]
          /\ worker[w].pc = "store"
      BY <1>4 DEF ReadTip, upTo
    <2>2. /\ worker'[w].pc = "commit"
          /\ worker'[w].num = worker[w].num
          /\ worker'[w].upTo = upTo
          /\ \A v \in Workers \ {w} : worker'[v] = worker[v]
      BY <1>0, <2>1 DEF WorkerState
    <2>3. HasBlock(worker'[w])
      BY <2>0, <2>1, <2>2 DEF HasBlock, WorkerHasBlock
    <2> QED  BY <2>2, <2>3, OneWorkerMoves
  <1>5. ASSUME NEW w \in Workers, NEW n \in jobs, TakeJob(w, n) PROVE WorkerHasBlock'
    <2>1. CASE UNCHANGED worker
      BY <1>1, <2>1
    <2>2. CASE Begin(w, n)
      <3> DEFINE r == [Idle EXCEPT !.pc = "detect", !.num = n, !.hash = chain[n],
                                   !.parent = IF n = 1 THEN 0 ELSE chain[n - 1]]
      <3>1. r.pc = "detect" /\ r.num = n
        BY DEF Idle
      <3>2. worker' = [worker EXCEPT ![w] = r]
        BY <2>2 DEF Begin
      <3> HIDE DEF r
      <3>3. worker'[w] = r /\ \A v \in Workers \ {w} : worker'[v] = worker[v]
        BY <1>0, <3>2
      <3>4. HasBlock(r)
        BY <1>0, <3>1 DEF HasBlock
      <3> QED  BY <3>3, <3>4, OneWorkerMoves
    <2> QED  BY <1>5, <2>1, <2>2 DEF TakeJob
  <1>6. CASE Restart
    <2>1. \A w \in Workers : worker'[w] = Idle
      BY <1>6 DEF Restart
    <2> QED  BY <2>1 DEF WorkerHasBlock, Idle
  <1>7. ASSUME NEW w \in Workers, NEW read, Commit(w, read) \/ Fail(w) PROVE WorkerHasBlock'
    BY <1>2, <1>7 DEF Commit, Fail
  <1>8. ASSUME NEW w \in Workers, IgnoredError(w) PROVE WorkerHasBlock'
    BY <1>3, <1>4, <1>7, <1>8 DEF IgnoredError, CommitUnread
  <1>9. ASSUME NEW n, \/ AddBlock \/ Reorganise(n) \/ EnqueueHeader(n) \/ runGapScan(n)
                      \/ recoverPending(n) \/ runBackfill \/ ExpireLock(n) \/ UNCHANGED indexerVars
        PROVE  UNCHANGED worker
    BY <1>9 DEF AddBlock, Reorganise, EnqueueHeader, runGapScan, recoverPending, runBackfill, ExpireLock,
                indexerVars
  <1> QED
    BY <1>1, <1>3, <1>4, <1>5, <1>6, <1>7, <1>8, <1>9 DEF IndexerNext, syncBlock

-----------------------------------------------------------------------------
(* A header that leaves the backlog is stored in the same transaction.     *)
LEMMA AnnouncedNext ==
    ASSUME AnnouncedIsKept, [IndexerNext]_indexerVars
    PROVE  AnnouncedIsKept'
  <1> USE DEF environment, AnnouncedIsKept
  <1>1. ASSUME NEW n, EnqueueHeader(n) \/ runGapScan(n) PROVE AnnouncedIsKept'
    BY <1>1 DEF EnqueueHeader, runGapScan, EnqueuePendingHeader
  <1>2. ASSUME NEW w \in Workers, Requeue(w), UNCHANGED wal \/ EnqueuePendingHeader(worker[w].num)
        PROVE  AnnouncedIsKept'
    BY <1>2 DEF Requeue, EnqueuePendingHeader
  <1>3. ASSUME NEW w \in Workers, NEW read, Commit(w, read) PROVE AnnouncedIsKept'
    BY <1>3 DEF Commit, DeletePendingHeaderTx
  <1>4. ASSUME NEW n, \/ AddBlock \/ Reorganise(n) \/ recoverPending(n) \/ runBackfill
                      \/ ExpireLock(n) \/ Restart \/ UNCHANGED indexerVars
        PROVE  UNCHANGED <<announced, wal>>
    BY <1>4 DEF AddBlock, Reorganise, recoverPending, runBackfill, ExpireLock, Restart, indexerVars
  <1>5. ASSUME NEW w, NEW n, NEW last, \/ NoReorg(w) \/ DetectReorg(w) \/ HandleReorg(w)
                                       \/ ReadTip(w, n, last) \/ Fail(w) \/ TakeJob(w, n)
        PROVE  UNCHANGED <<announced, wal>>
    BY <1>5 DEF NoReorg, DetectReorg, HandleReorg, ReadTip, Fail, TakeJob
  <1>6. ASSUME UNCHANGED <<announced, wal>> PROVE AnnouncedIsKept'
    BY <1>6
  <1> QED
    BY <1>1, <1>2, <1>3, <1>4, <1>5, <1>6 DEF IndexerNext, syncBlock, IgnoredError, CommitUnread

-----------------------------------------------------------------------------
(* What the transaction of a worker does to the rows: that of its block is *)
(* of the chain again, and confirmed if anything is; below it pending rows *)
(* may become confirmed; above it nothing changes.                         *)
LEMMA CommittedRows ==
    ASSUME IndexerAssumption, IndexerTypeOK, WorkerHasBlock, NEW w \in Workers, NEW read, Commit(w, read)
    PROVE  LET n == worker[w].num IN
           /\ n \in Heights
           /\ worker[w].upTo \in {0, n}
           /\ blocks'[n].hash = worker[w].hash
           /\ blocks'[n].status = IF worker[w].upTo = n THEN "confirmed" ELSE "pending"
           /\ \A m \in Heights \ {n} :
                 \/ blocks'[m] = blocks[m]
                 \/ /\ m < n /\ worker[w].upTo = n
                    /\ blocks[m].status = "pending" /\ blocks'[m].status = "confirmed"
  <1> DEFINE n == worker[w].num
             upTo == worker[w].upTo
             stored == UpsertBlockTx(w)
  <1>1. n \in Heights /\ upTo \in {0, n}
    BY DEF Commit, WorkerHasBlock
  <1>2. blocks \in [Heights -> BlockRow] /\ MaxHeight \in Nat
    BY DEF IndexerTypeOK, IndexerAssumption, BlockRow
  <1>3. /\ stored[n] \in BlockRow
        /\ stored[n].hash = worker[w].hash /\ stored[n].status = "pending"
        /\ \A m \in Heights \ {n} : stored[m] = blocks[m]
    <2>1. worker[w].hash \in Versions
      BY DEF IndexerTypeOK
    <2> QED  BY <1>1, <1>2, <2>1 DEF UpsertBlockTx, BlockRow
  <1>4. \A m \in Heights :
            blocks'[m] = IF m <= upTo /\ stored[m].status = "pending"
                         THEN [stored[m] EXCEPT !.status = "confirmed"] ELSE stored[m]
    BY DEF Commit, ConfirmBlocksUpToTx
  <1> HIDE DEF n, upTo, stored
  <1>8. n <= upTo <=> upTo = n
    BY <1>1, <1>2 DEF Heights
  <1>5. blocks'[n].hash = worker[w].hash
    BY <1>1, <1>3, <1>4 DEF BlockRow
  <1>6. blocks'[n].status = IF upTo = n THEN "confirmed" ELSE "pending"
    BY <1>1, <1>3, <1>4, <1>8 DEF BlockRow
  <1>7. ASSUME NEW m \in Heights \ {n}
        PROVE  \/ blocks'[m] = blocks[m]
               \/ /\ m < n /\ upTo = n
                  /\ blocks[m].status = "pending" /\ blocks'[m].status = "confirmed"
    <2>1. CASE m <= upTo /\ blocks[m].status = "pending"
      <3>1. m < n /\ upTo = n
        BY <1>1, <1>2, <2>1 DEF Heights
      <3>2. blocks[m] \in BlockRow /\ blocks'[m] = [blocks[m] EXCEPT !.status = "confirmed"]
        BY <1>2, <1>3, <1>4, <2>1
      <3> QED  BY <2>1, <3>1, <3>2 DEF BlockRow
    <2>2. CASE ~(m <= upTo /\ blocks[m].status = "pending")
      BY <1>3, <1>4, <2>2
    <2> QED  BY <2>1, <2>2
  <1> QED
    BY <1>1, <1>5, <1>6, <1>7 DEF n, upTo

(* What detectAndHandleReorg does to the rows.                             *)
LEMMA OrphanedRows ==
    ASSUME IndexerAssumption, IndexerTypeOK, WorkerHasBlock, NEW w \in Workers, HandleReorg(w)
    PROVE  /\ worker[w].num \in Heights
           /\ \A m \in Heights :
                 \/ blocks'[m] = blocks[m] /\ (Stored(m) => m < worker[w].num - 1)
                 \/ blocks'[m].status = "orphaned" /\ m >= worker[w].num - 1
  <1>1. worker[w].num \in Heights
    BY DEF HandleReorg, WorkerHasBlock
  <1>2. MaxHeight \in Nat /\ blocks' = Orphaned(worker[w].num - 1)
    BY DEF HandleReorg, IndexerAssumption
  <1>3. ASSUME NEW m \in Heights
        PROVE  \/ blocks'[m] = blocks[m] /\ (Stored(m) => m < worker[w].num - 1)
               \/ blocks'[m].status = "orphaned" /\ m >= worker[w].num - 1
    <2>1. m \in Int /\ worker[w].num - 1 \in Int
      BY <1>1, <1>2 DEF Heights
    <2> QED  BY <1>2, <2>1 DEF Orphaned
  <1> QED  BY <1>1, <1>3

(* A reversal leaves no credit on an orphaned row, a credit orphans none.  *)
LEMMA OrphanNext ==
    ASSUME IndexerAssumption, IndexerTypeOK, WorkerHasBlock, OrphanIsNotCredited,
           [IndexerNext]_indexerVars
    PROVE  OrphanIsNotCredited'
  <1> USE DEF environment
  <1>0. credited \subseteq Heights \X Versions
    BY DEF IndexerTypeOK
  <1>1. ASSUME NEW w \in Workers, HandleReorg(w) PROVE OrphanIsNotCredited'
    <2> SUFFICES ASSUME NEW d \in credited' PROVE blocks'[d[1]].status # "orphaned"
      BY DEF OrphanIsNotCredited
    <2>1. d \in credited /\ d[1] < worker[w].num - 1 /\ d[1] \in Heights
      BY <1>0, <1>1 DEF HandleReorg
    <2>2. worker[w].num \in Int /\ d[1] \in Int
      BY <1>1, <2>1, OrphanedRows DEF Heights, IndexerAssumption
    <2>3. blocks'[d[1]] = blocks[d[1]]
      BY <1>1, <2>1, <2>2, OrphanedRows
    <2> QED  BY <2>1, <2>3 DEF OrphanIsNotCredited
  <1>2. ASSUME NEW w \in Workers, NEW read, Commit(w, read) PROVE OrphanIsNotCredited'
    <2> SUFFICES ASSUME NEW d \in credited' PROVE blocks'[d[1]].status # "orphaned"
      BY DEF OrphanIsNotCredited
    <2>1. CASE d[1] = worker[w].num
      BY <1>2, <2>1, CommittedRows
    <2>2. CASE d[1] # worker[w].num
      <3>1. d \in credited /\ d[1] \in Heights
        BY <1>0, <1>2, <2>2 DEF Commit
      <3> QED  BY <1>2, <2>2, <3>1, CommittedRows DEF OrphanIsNotCredited
    <2> QED  BY <2>1, <2>2
  <1>3. ASSUME UNCHANGED <<blocks, credited>> PROVE OrphanIsNotCredited'
    BY <1>3 DEF OrphanIsNotCredited
  <1>4. ASSUME NEW n, \/ AddBlock \/ Reorganise(n) \/ EnqueueHeader(n) \/ runGapScan(n) \/ recoverPending(n)
                      \/ runBackfill \/ ExpireLock(n) \/ Restart \/ UNCHANGED indexerVars
        PROVE  UNCHANGED <<blocks, credited>>
    BY <1>4 DEF AddBlock, Reorganise, EnqueueHeader, runGapScan, recoverPending, runBackfill, ExpireLock,
                Restart, indexerVars
  <1>5. ASSUME NEW w, NEW n, NEW last, \/ NoReorg(w) \/ DetectReorg(w) \/ Requeue(w)
                                       \/ ReadTip(w, n, last) \/ Fail(w) \/ TakeJob(w, n)
        PROVE  UNCHANGED <<blocks, credited>>
    BY <1>5 DEF NoReorg, DetectReorg, Requeue, ReadTip, Fail, TakeJob
  <1> QED
    BY <1>1, <1>2, <1>3, <1>4, <1>5 DEF IndexerNext, syncBlock, IgnoredError, CommitUnread

(* A confirmation reaches below the block it is for, or credits it, or is  *)
(* one without receipts; a reversal takes the confirmation back with the   *)
(* credit, and no row goes away.                                           *)
LEMMA OvertakenNext ==
    ASSUME IndexerAssumption, IndexerTypeOK, WorkerHasBlock, [IndexerNext]_indexerVars,
           NEW n \in Heights, Missed(n)'
    PROVE  Missed(n) \/ \E w \in Workers : worker[w].num = n /\ CommitUnread(w)
  <1> USE DEF environment
  <1>0. MaxHeight \in Nat /\ blocks \in [Heights -> BlockRow]
    BY DEF IndexerAssumption, IndexerTypeOK, BlockRow
  <1>m. /\ blocks'[n].status = "confirmed" /\ <<n, blocks'[n].hash>> \notin credited'
        /\ \A m \in Heights : m > n => blocks'[m] = NoBlock
    BY DEF Missed, Heights
  <1>1. ASSUME NEW w \in Workers, HandleReorg(w) PROVE Missed(n)
    <2>1. blocks'[n] = blocks[n] /\ n < worker[w].num - 1
      BY <1>1, <1>m, OrphanedRows DEF Stored
    <2>2. <<n, blocks[n].hash>> \notin credited
      BY <1>1, <1>m, <2>1 DEF HandleReorg
    <2>3. \A m \in Heights : m > n => blocks[m] = NoBlock
      BY <1>1, <1>m, OrphanedRows DEF NoBlock
    <2> QED  BY <1>m, <2>1, <2>2, <2>3 DEF Missed
  <1>2. ASSUME NEW w \in Workers, NEW read \in BOOLEAN, Commit(w, read), ~Missed(n)
        PROVE  worker[w].num = n /\ CommitUnread(w)
    <2>1. worker[w].num \in Heights /\ blocks'[worker[w].num] # NoBlock
      BY <1>2, CommittedRows DEF NoBlock
    <2>2. CASE worker[w].num = n
      <3>1. worker[w].upTo = n /\ blocks'[n].hash = worker[w].hash
        BY <1>2, <1>m, <2>2, CommittedRows
      <3>2. read = FALSE
        BY <1>2, <1>m, <2>2, <3>1 DEF Commit
      <3> QED  BY <1>2, <2>2, <3>1, <3>2 DEF CommitUnread
    <2>3. CASE worker[w].num # n /\ blocks'[n] = blocks[n]
      <3>1. <<n, blocks[n].hash>> \notin credited
        BY <1>2, <1>m, <2>3 DEF Commit
      <3>2. \A m \in Heights : m > n => blocks[m] = NoBlock
        BY <1>2, <1>m, <2>1, CommittedRows DEF NoBlock
      <3> QED  BY <1>2, <1>m, <2>3, <3>1, <3>2 DEF Missed
    <2>4. CASE worker[w].num # n /\ blocks'[n] # blocks[n]
      <3>1. n < worker[w].num
        BY <1>2, <2>4, CommittedRows
      <3> QED  BY <1>0, <1>m, <2>1, <3>1 DEF Heights
    <2> QED  BY <2>2, <2>3, <2>4
  <1>3. ASSUME UNCHANGED <<blocks, credited>> PROVE Missed(n)
    BY <1>3, <1>m DEF Missed
  <1>4. ASSUME NEW k, \/ AddBlock \/ Reorganise(k) \/ EnqueueHeader(k) \/ runGapScan(k) \/ recoverPending(k)
                      \/ runBackfill \/ ExpireLock(k) \/ Restart \/ UNCHANGED indexerVars
        PROVE  UNCHANGED <<blocks, credited>>
    BY <1>4 DEF AddBlock, Reorganise, EnqueueHeader, runGapScan, recoverPending, runBackfill, ExpireLock,
                Restart, indexerVars
  <1>5. ASSUME NEW w, NEW k, NEW last, \/ NoReorg(w) \/ DetectReorg(w) \/ Requeue(w)
                                       \/ ReadTip(w, k, last) \/ Fail(w) \/ TakeJob(w, k)
        PROVE  UNCHANGED <<blocks, credited>>
    BY <1>5 DEF NoReorg, DetectReorg, Requeue, ReadTip, Fail, TakeJob
  <1>6. ASSUME NEW w \in Workers, syncBlock(w) \/ Fail(w) \/ IgnoredError(w) \/ \E k \in jobs : TakeJob(w, k)
        PROVE  Missed(n) \/ (worker[w].num = n /\ CommitUnread(w))
    BY <1>1, <1>2, <1>3, <1>5, <1>6 DEF syncBlock, IgnoredError, CommitUnread
  <1> QED
    BY <1>3, <1>4, <1>6 DEF IndexerNext

-----------------------------------------------------------------------------
(* IndexerInv holds in every state, whatever the node, MySQL, the cache    *)
(* and the process do.                                                     *)
THEOREM IndexerInvariant == IndexerSpec => []IndexerInv
  <1>1. IndexerInit => IndexerInv
    <2> SUFFICES ASSUME IndexerInit PROVE IndexerInv
      OBVIOUS
    <2> USE IndexerAssumption DEF IndexerInit
    <2>1. ChainOK /\ BacklogOK /\ WorkersOK /\ RowsOK /\ FaultsOK
      BY DEF ChainOK, BacklogOK, WorkersOK, RowsOK, FaultsOK, WorkerState, BlockRow, NoBlock, Idle, Versions,
             Heights, IndexerAssumption
    <2>2. JobsOK(jobs)
      BY FS_EmptySet DEF JobsOK, IndexerAssumption
    <2>3. IndexerTypeOK
      BY <2>1, <2>2, TypeParts
    <2>4. WorkerHasBlock
      BY DEF WorkerHasBlock, Idle
    <2> QED
      BY <2>3, <2>4 DEF IndexerInv, AnnouncedIsKept, OrphanIsNotCredited
  <1>2. IndexerInv /\ [IndexerNext]_indexerVars => IndexerInv'
    BY IndexerAssumption, IndexerTypeNext, WorkerHasBlockNext, AnnouncedNext, OrphanNext DEF IndexerInv
  <1> QED  BY <1>1, <1>2, PTL DEF IndexerSpec

(* EnqueueHeader and DeletePendingHeaderTx, for every instance.            *)
THEOREM HeadersAreNotLost == IndexerSpec => []AnnouncedIsKept
  BY IndexerInvariant, PTL DEF IndexerInv

(* HandleReorgTx with MarkOrphanedFromTx, for every instance.              *)
THEOREM OrphansAreReversed == IndexerSpec => []OrphanIsNotCredited
  BY IndexerInvariant, PTL DEF IndexerInv

(* syncBlock and ConfirmBlocksUpToTx, for every instance.                  *)
THEOREM OnlyOvertakenIsUncredited == IndexerSpec => UncreditedIsOvertaken
  <1>1. IndexerInv /\ [IndexerNext]_indexerVars =>
            [\A n \in Heights :
                Missed(n)' => Missed(n) \/ \E w \in Workers : worker[w].num = n /\ CommitUnread(w)]_indexerVars
    BY IndexerAssumption, OvertakenNext DEF IndexerInv
  <1> QED  BY <1>1, IndexerInvariant, PTL DEF IndexerSpec, UncreditedIsOvertaken

-----------------------------------------------------------------------------
(* WALLETS.  A handler and a reload write rows they read some steps ago;   *)
(* WalletInv says what is still true of such a row, and it is preserved    *)
(* because no step changes a wallet's type or a deposit wallet's owner     *)
(* (OwnersKept).                                                           *)
Row == WalletRow \union {NoWallet}

Request == [pc : {"idle", "write", "read", "upsert"}, addr : Addrs \union {0},
            user : Users \union {NoUser}, type : WalletTypes \union {"none"}, row : Row]

OwnersKept ==
    \A a \in Addrs : wallets[a] # NoWallet =>
        /\ wallets'[a].type = wallets[a].type
        /\ wallets[a].type = "deposit" => wallets'[a].user = wallets[a].user

(* A row is NoWallet or has a type that is one.                            *)
LEMMA RowTypes ==
    /\ \A row \in Row : row = NoWallet <=> row.type = "none"
    /\ \A row \in Row : row # NoWallet => row.type \in WalletTypes
    /\ \A row \in Row : row.user \in Users \union {NoUser} /\ row.enabled \in BOOLEAN
    /\ NoWallet \in Row /\ NoWallet.type = "none" /\ ~NoWallet.enabled
  <1>1. NoWallet \in Row /\ NoWallet.type = "none" /\ NoWallet.enabled = FALSE /\ NoWallet.user = NoUser
    BY DEF Row, NoWallet
  <1>2. ASSUME NEW row \in WalletRow
        PROVE  /\ row.type \in WalletTypes /\ row.type # "none"
               /\ row.user \in Users \union {NoUser} /\ row.enabled \in BOOLEAN
    BY WalletAssumption DEF WalletRow
  <1>3. ASSUME NEW row \in Row
        PROVE  row \in WalletRow \/ row = NoWallet
    BY DEF Row
  <1> HIDE DEF NoWallet
  <1> QED BY <1>1, <1>2, <1>3, Zenon

(* A row that was read stays one as long as types and owners are kept.     *)
LEMMA ReadFromKept ==
    ASSUME WalletTypeOK, OwnersKept, NEW a \in Addrs, NEW row \in Row, ReadFrom(wallets, row, a)
    PROVE  ReadFrom(wallets', row, a)
  <1>1. wallets[a] \in Row
    BY DEF WalletTypeOK, Row
  <1>2. CASE row = NoWallet
    BY <1>2 DEF ReadFrom
  <1>3. CASE row # NoWallet
    <2>1. wallets[a] # NoWallet
      BY <1>3, RowTypes DEF ReadFrom
    <2> QED BY <2>1 DEF OwnersKept, ReadFrom
  <1> QED BY <1>2, <1>3

(* What the table holds now has been read from it.                         *)
LEMMA ReadNow ==
    ASSUME NEW a \in Addrs
    PROVE  ReadFrom(wallets, wallets[a], a) /\ ReadFrom(wallets, NoWallet, a)
  BY DEF ReadFrom

(* The enabled rows of the table, too.                                     *)
LEMMA EnabledRead ==
    ASSUME WalletTypeOK
    PROVE  /\ EnabledWallets \in [Addrs -> Row]
           /\ \A a \in Addrs : ReadFrom(wallets, EnabledWallets[a], a)
  <1>1. \A a \in Addrs : EnabledWallets[a] \in {wallets[a], NoWallet}
    BY DEF EnabledWallets
  <1>2. EnabledWallets \in [Addrs -> Row]
    BY RowTypes DEF EnabledWallets, WalletTypeOK, Row
  <1> QED BY <1>1, <1>2, ReadNow

(* Min of addresses is one of them.                                        *)
LEMMA MinIsMember ==
    ASSUME NEW S, S \subseteq Addrs, S # {}
    PROVE  Min(S) \in S
  <1>1. S \subseteq Nat
    BY WalletAssumption
  <1>2. PICK x \in S : \A y \in S : ~(<<y, x>> \in OpToRel(<, Nat))
    <2>1. IsWellFoundedOn(OpToRel(<, Nat), Nat)
      BY NatLessThanWellFounded
    <2> HIDE DEF OpToRel
    <2> QED BY <1>1, <2>1, WFMin
  <1>3. ASSUME NEW y \in S
        PROVE  x =< y
    <2>1. x \in Nat /\ y \in Nat /\ <<y, x>> \notin {ss \in Nat \X Nat : ss[1] < ss[2]}
      BY <1>1, <1>2 DEF OpToRel
    <2> QED BY <2>1
  <1> QED BY <1>3 DEF Min

(* WalletTypeOK and RequestsTested for one handler.                        *)
LEMMA HandlerFacts ==
    ASSUME WalletInv, NEW h \in Handlers
    PROVE  /\ handler[h] \in Request
           /\ handler[h].pc # "idle" => handler[h].addr \in Addrs
           /\ handler[h].pc # "idle" => ReadFrom(wallets, handler[h].row, handler[h].addr)
           /\ handler[h].pc = "write" =>
                 /\ handler[h].type \in WalletTypes
                 /\ MayRegister(handler[h].row, handler[h].user, handler[h].type)
  <1>1. handler[h] \in Request
    BY DEF WalletInv, WalletTypeOK, Request, Row
  <1>2. handler[h].type \in WalletTypes \union {"none"}
    BY <1>1 DEF Request
  <1> QED BY <1>1, <1>2 DEF WalletInv, RequestsTested

(* What every step does to the table and the copies of its rows, so that   *)
(* the invariant holds afterwards.                                         *)
GoodStep ==
    /\ wallets' \in [Addrs -> Row]
    /\ \A a \in Addrs : wallets'[a].type = "deposit" => wallets'[a].user # NoUser
    /\ OwnersKept

(* A step that leaves the table alone.                                     *)
LEMMA TableUnchanged ==
    ASSUME WalletTypeOK, UNCHANGED wallets
    PROVE  GoodStep
  BY DEF GoodStep, OwnersKept, WalletTypeOK, Row

(* One row of the table is replaced.                                       *)
LEMMA RowWritten ==
    ASSUME WalletTypeOK, NEW a \in Addrs, NEW row \in Row,
           wallets' = [wallets EXCEPT ![a] = row],
           row.type = "deposit" => row.user # NoUser,
           wallets[a] # NoWallet =>
              /\ row.type = wallets[a].type
              /\ wallets[a].type = "deposit" => row.user = wallets[a].user
    PROVE  GoodStep
  BY DEF GoodStep, OwnersKept, WalletTypeOK, Row

(* The INSERT finds no row, or fails.                                      *)
LEMMA InsertKeepsOwners ==
    ASSUME WalletInv, NEW h \in Handlers, InsertWallet(h)
    PROVE  GoodStep
  <1> DEFINE q == handler[h]
             row == [user |-> q.user, type |-> q.type, enabled |-> TRUE]
  <1>1. WalletTypeOK
    BY DEF WalletInv
  <1>2. /\ q \in Request /\ q.pc = "write" /\ q.addr \in Addrs /\ q.type \in WalletTypes
        /\ MayRegister(q.row, q.user, q.type)
    BY HandlerFacts DEF InsertWallet
  <1>3. CASE UNCHANGED wallets
    BY <1>1, <1>3, TableUnchanged
  <1>4. CASE wallets[q.addr] = NoWallet /\ wallets' = [wallets EXCEPT ![q.addr] = row]
    <2>1. row \in Row /\ row.type = q.type /\ row.user = q.user
      BY <1>2 DEF Request, Row, WalletRow
    <2>2. row.type = "deposit" => row.user # NoUser
      BY <1>2, <2>1 DEF MayRegister
    <2> HIDE DEF row, q
    <2> QED BY <1>1, <1>2, <1>4, <2>1, <2>2, RowWritten
  <1> QED BY <1>3, <1>4 DEF InsertWallet

(* The UPDATE writes a user that MayRegister compared with the row it read.*)
LEMMA UpdateKeepsOwners ==
    ASSUME WalletInv, NEW h \in Handlers, UpdateWallet(h)
    PROVE  GoodStep
  <1> DEFINE q == handler[h]
             keepUser == IF q.user = NoUser THEN q.row.user ELSE q.user
             row == [wallets[q.addr] EXCEPT !.user = keepUser, !.enabled = TRUE]
  <1>1. WalletTypeOK
    BY DEF WalletInv
  <1>2. /\ q \in Request /\ q.pc = "write" /\ q.addr \in Addrs /\ q.type \in WalletTypes
        /\ MayRegister(q.row, q.user, q.type) /\ ReadFrom(wallets, q.row, q.addr) /\ q.row # NoWallet
    BY HandlerFacts DEF UpdateWallet
  <1>3. /\ q.row \in Row /\ q.user \in Users \union {NoUser}
        /\ wallets[q.addr] \in Row
    BY <1>1, <1>2 DEF Request, WalletTypeOK, Row
  <1>4. wallets[q.addr] # NoWallet /\ wallets[q.addr].type = q.row.type
    BY <1>2, <1>3, RowTypes DEF ReadFrom
  <1>5. keepUser \in Users \union {NoUser}
    BY <1>3, RowTypes
  <1>6. row \in Row /\ row.type = wallets[q.addr].type /\ row.user = keepUser
    <2>1. wallets[q.addr] \in WalletRow
      BY <1>3, <1>4 DEF Row
    <2> HIDE DEF keepUser
    <2> QED BY <1>5, <2>1 DEF Row, WalletRow
  <1>7. wallets[q.addr].type = "deposit" => wallets[q.addr].user # NoUser
    BY <1>1, <1>2 DEF WalletTypeOK
  <1>8. wallets[q.addr].type = "deposit" => keepUser = wallets[q.addr].user
    BY <1>2, <1>4, <1>7 DEF MayRegister, ReadFrom
  <1>9. wallets' = [wallets EXCEPT ![q.addr] = row]
    BY <1>1, <1>2 DEF UpdateWallet, WalletTypeOK
  <1> HIDE DEF row, q, keepUser
  <1> QED BY <1>1, <1>2, <1>6, <1>7, <1>8, <1>9, RowWritten

(* SetWalletEnabled writes neither column.                                 *)
LEMMA EnableKeepsOwners ==
    ASSUME WalletInv, NEW h \in Handlers, NEW a \in Addrs, NEW e \in BOOLEAN, SetWalletEnabled(h, a, e)
    PROVE  GoodStep
  <1> DEFINE row == [wallets[a] EXCEPT !.enabled = e]
  <1>1. WalletTypeOK
    BY DEF WalletInv
  <1>2. wallets[a] \in WalletRow
    BY <1>1 DEF WalletTypeOK, SetWalletEnabled
  <1>3. row \in Row /\ row.type = wallets[a].type /\ row.user = wallets[a].user
    BY <1>2 DEF Row, WalletRow
  <1>4. wallets[a].type = "deposit" => wallets[a].user # NoUser
    BY <1>1 DEF WalletTypeOK
  <1>5. wallets' = [wallets EXCEPT ![a] = row]
    BY <1>1 DEF SetWalletEnabled, WalletTypeOK
  <1> HIDE DEF row
  <1> QED BY <1>1, <1>3, <1>4, <1>5, RowWritten

(* Every step of the system.                                               *)
LEMMA EveryStepKeepsOwners ==
    ASSUME WalletInv, WalletNext
    PROVE  GoodStep
  <1>1. WalletTypeOK
    BY DEF WalletInv
  <1>2. CASE UNCHANGED wallets
    BY <1>1, <1>2, TableUnchanged
  <1>3. CASE \E h \in Handlers : InsertWallet(h) \/ UpdateWallet(h)
    BY <1>3, InsertKeepsOwners, UpdateKeepsOwners
  <1>4. CASE \E h \in Handlers : \E a \in Addrs, e \in BOOLEAN : SetWalletEnabled(h, a, e)
    BY <1>4, EnableKeepsOwners
  <1>5. \/ UNCHANGED wallets
        \/ \E h \in Handlers : InsertWallet(h) \/ UpdateWallet(h)
        \/ \E h \in Handlers : \E a \in Addrs, e \in BOOLEAN : SetWalletEnabled(h, a, e)
    BY DEF WalletNext, HandleRequest, ReloadStep, BeginRegister, GetWallet, Upsert, EndRequest,
           ReadWallets, SwapRegistry, Move, Fetch, StoreBalance, StartBackfill, RefreshNext,
           RefreshError, registration
  <1> QED BY <1>2, <1>3, <1>4, <1>5

-----------------------------------------------------------------------------
(* What RequestsTested asks of one request, and CopiesRead of one map.     *)
GoodRequest(table, q) ==
    /\ q \in Request
    /\ q.pc # "idle" =>
          /\ q.addr \in Addrs
          /\ ReadFrom(table, q.row, q.addr)
          /\ q.pc = "write" => q.type # "none" /\ MayRegister(q.row, q.user, q.type)

GoodMap(table, m) == m \in [Addrs -> Row] /\ \A a \in Addrs : ReadFrom(table, m[a], a)

HandlersGood ==
    handler \in [Handlers -> Request] /\ \A h \in Handlers : GoodRequest(wallets, handler[h])

CopiesGood ==
    /\ registry \in [Instances -> [Addrs -> Row]]
    /\ reloader \in [Instances -> [reading : BOOLEAN, rows : [Addrs -> Row]]]
    /\ \A i \in Instances : GoodMap(wallets, registry[i]) /\ GoodMap(wallets, reloader[i].rows)

SnapshotsTypeOK ==
    /\ backfill \subseteq Addrs
    /\ balance \in [Addrs -> 0..MaxMoves]
    /\ refresher \in [Refreshers \union {BackfillWorker} ->
                         [addr : Addrs \union {0}, value : NoSnapshot..MaxMoves]]
    /\ snapshot \in [Addrs -> NoSnapshot..MaxMoves]

(* WalletInv, by the variables its parts are about.                        *)
LEMMA WalletInvParts ==
    WalletInv <=> /\ wallets \in [Addrs -> Row]
                  /\ \A a \in Addrs : wallets[a].type = "deposit" => wallets[a].user # NoUser
                  /\ HandlersGood
                  /\ CopiesGood
                  /\ SnapshotsTypeOK
                  /\ requests \in 0..MaxRequests
  <1>1. HandlersGood <=> handler \in [Handlers -> Request] /\ RequestsTested
    BY DEF HandlersGood, GoodRequest, RequestsTested
  <1>2. CopiesGood <=>
           /\ registry \in [Instances -> [Addrs -> Row]]
           /\ reloader \in [Instances -> [reading : BOOLEAN, rows : [Addrs -> Row]]]
           /\ CopiesRead
    BY DEF CopiesGood, GoodMap, CopiesRead
  <1> QED BY <1>1, <1>2, Zenon DEF WalletInv, WalletTypeOK, SnapshotsTypeOK, Request, Row

(* A request or a map that is good stays good.                             *)
LEMMA StayGood ==
    ASSUME WalletTypeOK, OwnersKept
    PROVE  /\ \A q : GoodRequest(wallets, q) => GoodRequest(wallets', q)
           /\ \A m : GoodMap(wallets, m) => GoodMap(wallets', m)
  <1>1. ASSUME NEW q, GoodRequest(wallets, q)
        PROVE  GoodRequest(wallets', q)
    <2>1. q.row \in Row
      BY <1>1 DEF GoodRequest, Request
    <2> QED BY <1>1, <2>1, ReadFromKept DEF GoodRequest
  <1>2. ASSUME NEW m, GoodMap(wallets, m)
        PROVE  GoodMap(wallets', m)
    BY <1>2, ReadFromKept DEF GoodMap
  <1> QED BY <1>1, <1>2

(* The request of one handler is replaced.                                 *)
LEMMA RequestReplaced ==
    ASSUME WalletInv, GoodStep, NEW h \in Handlers, NEW q, GoodRequest(wallets', q),
           handler' = [handler EXCEPT ![h] = q]
    PROVE  HandlersGood'
  <1>1. handler \in [Handlers -> Request] /\ \A g \in Handlers : GoodRequest(wallets, handler[g])
    BY WalletInvParts DEF HandlersGood
  <1>2. \A g \in Handlers : GoodRequest(wallets', handler[g])
    BY <1>1, StayGood DEF WalletInv, GoodStep
  <1>3. handler' \in [Handlers -> Request]
    BY <1>1 DEF GoodRequest
  <1>4. \A g \in Handlers : GoodRequest(wallets', handler'[g])
    BY <1>1, <1>2
  <1> QED BY <1>3, <1>4 DEF HandlersGood, Request, Row

(* The requests after a step.                                              *)
LEMMA HandlersNext ==
    ASSUME WalletInv, WalletNext
    PROVE  HandlersGood'
  <1>1. GoodStep
    BY EveryStepKeepsOwners
  <1>2. ASSUME UNCHANGED handler
        PROVE  HandlersGood'
    <2>1. handler \in [Handlers -> Request] /\ \A g \in Handlers : GoodRequest(wallets, handler[g])
      BY WalletInvParts DEF HandlersGood
    <2>2. \A g \in Handlers : GoodRequest(wallets', handler[g])
      BY <1>1, <2>1, StayGood DEF WalletInv, GoodStep
    <2> QED BY <1>2, <2>1, <2>2 DEF HandlersGood, Request, Row
  <1>3. ASSUME NEW h \in Handlers,
               \/ handler' = [handler EXCEPT ![h] = NoRequest]
               \/ \E a \in Addrs, u \in Users \union {NoUser}, t \in WalletTypes : BeginRegister(h, a, u, t)
               \/ \E a \in Addrs, e \in BOOLEAN : SetWalletEnabled(h, a, e)
               \/ HandleRequest(h)
        PROVE  HandlersGood'
    <2>1. GoodRequest(wallets', NoRequest)
      BY RowTypes DEF GoodRequest, NoRequest, Request
    <2>2. CASE handler' = [handler EXCEPT ![h] = NoRequest]
      BY <1>1, <2>1, <2>2, RequestReplaced
    <2>3. ASSUME NEW a \in Addrs, NEW u \in Users \union {NoUser}, NEW t \in WalletTypes, BeginRegister(h, a, u, t)
          PROVE  HandlersGood'
      <3> DEFINE q == [pc |-> "write", addr |-> a, user |-> u, type |-> t, row |-> wallets[a]]
      <3>1. wallets[a] \in Row /\ ReadFrom(wallets, wallets[a], a) /\ wallets' = wallets
        BY <2>3, WalletInvParts, ReadNow DEF BeginRegister
      <3>2. GoodRequest(wallets', q)
        BY <2>3, <3>1, WalletAssumption DEF GoodRequest, Request, BeginRegister
      <3>3. handler' = [handler EXCEPT ![h] = q]
        BY <2>3 DEF BeginRegister
      <3> HIDE DEF q
      <3> QED BY <1>1, <3>2, <3>3, RequestReplaced
    <2>4. ASSUME NEW a \in Addrs, NEW e \in BOOLEAN, SetWalletEnabled(h, a, e)
          PROVE  HandlersGood'
      <3> DEFINE q == [NoRequest EXCEPT !.pc = "read", !.addr = a]
      <3>1. GoodRequest(wallets', q)
        BY RowTypes DEF GoodRequest, NoRequest, Request, ReadFrom
      <3>2. handler' = [handler EXCEPT ![h] = q]
        BY <2>4 DEF SetWalletEnabled
      <3> HIDE DEF q
      <3> QED BY <1>1, <3>1, <3>2, RequestReplaced
    <2>5. CASE GetWallet(h)
      <3> DEFINE a == handler[h].addr
                 q == [NoRequest EXCEPT !.pc = "upsert", !.addr = a, !.row = wallets[a]]
      <3>1. a \in Addrs
        BY <2>5, HandlerFacts DEF GetWallet
      <3>2. wallets[a] \in Row /\ ReadFrom(wallets, wallets[a], a) /\ wallets' = wallets
        BY <2>5, <3>1, WalletInvParts, ReadNow DEF GetWallet
      <3>3. handler' = [handler EXCEPT ![h] = q]
        BY <2>5 DEF GetWallet
      <3> HIDE DEF a
      <3>4. GoodRequest(wallets', q)
        BY <3>1, <3>2 DEF GoodRequest, NoRequest, Request
      <3> HIDE DEF q
      <3> QED BY <1>1, <3>3, <3>4, RequestReplaced
    <2>6. ASSUME handler' = [handler EXCEPT ![h].pc = "read"], handler[h].pc = "write"
          PROVE  HandlersGood'
      <3> DEFINE q == [handler[h] EXCEPT !.pc = "read"]
      <3>1. handler[h] \in Request /\ GoodRequest(wallets', handler[h])
        BY <1>1, WalletInvParts, StayGood DEF WalletInv, GoodStep, HandlersGood
      <3>2. /\ q \in Request /\ q.pc = "read" /\ q.addr = handler[h].addr /\ q.row = handler[h].row
        BY <3>1 DEF Request
      <3>3. handler' = [handler EXCEPT ![h] = q]
        BY <2>6
      <3> HIDE DEF q
      <3>4. GoodRequest(wallets', q)
        BY <2>6, <3>1, <3>2 DEF GoodRequest
      <3> QED BY <1>1, <3>3, <3>4, RequestReplaced
    <2>7. CASE InsertWallet(h)
      BY <2>2, <2>6, <2>7 DEF InsertWallet
    <2>8. CASE UpdateWallet(h)
      BY <2>6, <2>8 DEF UpdateWallet
    <2>9. CASE Upsert(h)
      BY <2>2, <2>9, SMTT(60) DEF Upsert
    <2> QED BY <1>3, <2>2, <2>3, <2>4, <2>5, <2>7, <2>8, <2>9 DEF HandleRequest
  <1> QED BY <1>2, <1>3 DEF WalletNext, EndRequest, ReloadStep, ReadWallets, SwapRegistry, Move, Fetch,
             StoreBalance, StartBackfill, RefreshNext, RefreshError, registration

(* The registries and the reloads after a step.                            *)
LEMMA CopiesNext ==
    ASSUME WalletInv, WalletNext
    PROVE  CopiesGood'
  <1>1. GoodStep /\ WalletTypeOK
    BY EveryStepKeepsOwners DEF WalletInv
  <1>2. /\ registry \in [Instances -> [Addrs -> Row]]
        /\ reloader \in [Instances -> [reading : BOOLEAN, rows : [Addrs -> Row]]]
        /\ \A i \in Instances : GoodMap(wallets', registry[i]) /\ GoodMap(wallets', reloader[i].rows)
    BY <1>1, WalletInvParts, StayGood DEF CopiesGood, GoodStep
  <1>3. ASSUME NEW i \in Instances, NEW m, GoodMap(wallets', m), registry' = [registry EXCEPT ![i] = m],
               UNCHANGED reloader
        PROVE  CopiesGood'
    <2>1. registry' \in [Instances -> [Addrs -> Row]] /\ \A j \in Instances : GoodMap(wallets', registry'[j])
      BY <1>2, <1>3 DEF GoodMap
    <2> QED BY <1>2, <1>3, <2>1 DEF CopiesGood, Row
  <1>4. ASSUME NEW i \in Instances, NEW b \in BOOLEAN, NEW m, GoodMap(wallets', m),
               reloader' = [reloader EXCEPT ![i] = [reading |-> b, rows |-> m]],
               registry' \in [Instances -> [Addrs -> Row]],
               \A j \in Instances : GoodMap(wallets', registry'[j])
        PROVE  CopiesGood'
    <2>1. /\ reloader' \in [Instances -> [reading : BOOLEAN, rows : [Addrs -> Row]]]
          /\ \A j \in Instances : GoodMap(wallets', reloader'[j].rows)
      BY <1>2, <1>4 DEF GoodMap
    <2> QED BY <1>4, <2>1 DEF CopiesGood, Row
  <1>5. CASE UNCHANGED <<registry, reloader>>
    BY <1>2, <1>5 DEF CopiesGood, Row
  <1>6. ASSUME NEW h \in Handlers, Upsert(h)
        PROVE  CopiesGood'
    <2> DEFINE q == handler[h]
               row == IF q.row.enabled THEN q.row ELSE NoWallet
               m == [registry[Home[h]] EXCEPT ![q.addr] = row]
    <2>1. Home[h] \in Instances
      BY WalletAssumption
    <2>2. q \in Request /\ q.addr \in Addrs /\ ReadFrom(wallets, q.row, q.addr) /\ UNCHANGED <<wallets, reloader>>
      BY <1>6, HandlerFacts DEF Upsert
    <2>3. row \in Row /\ ReadFrom(wallets', row, q.addr)
      BY <2>2, RowTypes, ReadNow DEF Request
    <2>4. registry' = [registry EXCEPT ![Home[h]] = m]
      BY <1>2, <1>6, <2>1, <2>2 DEF Upsert
    <2> HIDE DEF row, q
    <2>5. GoodMap(wallets', m)
      BY <1>2, <2>1, <2>2, <2>3 DEF GoodMap
    <2> HIDE DEF m
    <2> QED BY <1>3, <2>1, <2>2, <2>4, <2>5
  <1>7. ASSUME NEW i \in Instances, ReadWallets(i)
        PROVE  CopiesGood'
    <2>1. GoodMap(wallets', EnabledWallets) /\ UNCHANGED <<wallets, registry>>
      BY <1>1, <1>7, EnabledRead DEF GoodMap, ReadWallets, registration
    <2>2. reloader' = [reloader EXCEPT ![i] = [reading |-> TRUE, rows |-> EnabledWallets]]
      BY <1>7 DEF ReadWallets
    <2> QED BY <1>2, <1>4, <2>1, <2>2
  <1>8. ASSUME NEW i \in Instances, SwapRegistry(i)
        PROVE  CopiesGood'
    <2> DEFINE none == [a \in Addrs |-> NoWallet]
    <2>1. GoodMap(wallets', none)
      BY RowTypes DEF GoodMap, ReadFrom
    <2>2. reloader' = [reloader EXCEPT ![i] = [reading |-> FALSE, rows |-> none]]
      BY <1>8 DEF SwapRegistry, NotReading
    <2>3. /\ registry' \in [Instances -> [Addrs -> Row]]
          /\ \A j \in Instances : GoodMap(wallets', registry'[j])
      <3>1. registry' = [registry EXCEPT ![i] = reloader[i].rows]
        BY <1>8, SMTT(60) DEF SwapRegistry
      <3> QED BY <1>2, <3>1
    <2> HIDE DEF none
    <2> QED BY <1>4, <2>1, <2>2, <2>3
  <1> QED BY <1>5, <1>6, <1>7, <1>8 DEF WalletNext, HandleRequest, ReloadStep, BeginRegister, InsertWallet,
             UpdateWallet, SetWalletEnabled, GetWallet, EndRequest, Move, Fetch, StoreBalance, StartBackfill,
             RefreshNext, RefreshError, registration

(* The balances and their snapshots after a step.                          *)
LEMMA SnapshotsNext ==
    ASSUME WalletInv, WalletNext
    PROVE  SnapshotsTypeOK'
  <1> DEFINE Value == NoSnapshot..MaxMoves
             Fetched == [addr : Addrs \union {0}, value : Value]
             Fetchers == Refreshers \union {BackfillWorker}
  <1>1. /\ backfill \subseteq Addrs
        /\ balance \in [Addrs -> 0..MaxMoves]
        /\ refresher \in [Fetchers -> Fetched]
        /\ snapshot \in [Addrs -> Value]
    BY WalletInvParts DEF SnapshotsTypeOK
  <1>2. MaxMoves \in Nat /\ 0..MaxMoves \subseteq Value /\ NotFetched \in Fetched
    BY WalletAssumption DEF NoSnapshot, NotFetched
  <1>3. \A a \in Addrs : [addr |-> a, value |-> balance[a]] \in Fetched
    BY <1>1, <1>2
  <1>4. \A f \in Fetched : f.value \in Value
    OBVIOUS
  <1>5. CASE UNCHANGED snapshots
    BY <1>1, <1>5 DEF SnapshotsTypeOK, snapshots
  <1>6. ASSUME NEW a \in Addrs, Move(a)
        PROVE  SnapshotsTypeOK'
    <2>1. balance' \in [Addrs -> 0..MaxMoves]
      BY <1>1, <1>2, <1>6 DEF Move
    <2> QED BY <1>1, <1>6, <2>1 DEF SnapshotsTypeOK, Move
  <1> HIDE DEF Fetched, Value
  <1>7. ASSUME NEW r \in Fetchers, NEW f \in Fetched, refresher' = [refresher EXCEPT ![r] = f],
               UNCHANGED balance, backfill' \subseteq Addrs, snapshot' \in [Addrs -> Value]
        PROVE  SnapshotsTypeOK'
    <2>1. refresher' \in [Fetchers -> Fetched]
      BY <1>1, <1>7
    <2> QED BY <1>1, <1>7, <2>1 DEF SnapshotsTypeOK, Fetched, Value
  <1>8. ASSUME NEW r \in Refreshers, NEW a \in Addrs, Fetch(r, a)
        PROVE  SnapshotsTypeOK'
    BY <1>1, <1>3, <1>7, <1>8 DEF Fetch
  <1>9. ASSUME NEW r \in Fetchers, StoreBalance(r)
        PROVE  SnapshotsTypeOK'
    <2>1. refresher[r].value \in Value
      BY <1>1, <1>4
    <2>2. snapshot' \in [Addrs -> Value]
      BY <1>1, <1>9, <2>1 DEF StoreBalance
    <2> QED BY <1>1, <1>2, <1>7, <1>9, <2>2 DEF StoreBalance
  <1>10. ASSUME NEW r \in Fetchers, RefreshError(r)
         PROVE  SnapshotsTypeOK'
    BY <1>1, <1>2, <1>7, <1>10 DEF RefreshError
  <1>11. CASE StartBackfill
    <2>1. backfill' \subseteq Addrs
      BY <1>11 DEF StartBackfill, ListEnabledAddresses
    <2> QED BY <1>1, <1>11, <2>1 DEF StartBackfill, SnapshotsTypeOK, Fetched, Value
  <1>12. CASE RefreshNext
    <2>1. Min(backfill) \in Addrs
      BY <1>1, <1>12, MinIsMember DEF RefreshNext
    <2>2. backfill' \subseteq Addrs /\ UNCHANGED <<balance, snapshot>>
      BY <1>1, <1>12 DEF RefreshNext
    <2>3. CASE UNCHANGED refresher
      BY <1>1, <2>2, <2>3 DEF SnapshotsTypeOK, Fetched, Value
    <2>4. CASE refresher' = [refresher EXCEPT ![BackfillWorker] =
                                [addr |-> Min(backfill), value |-> balance[Min(backfill)]]]
      <3>1. [addr |-> Min(backfill), value |-> balance[Min(backfill)]] \in Fetched
        BY <1>3, <2>1
      <3> QED BY <1>1, <1>7, <2>2, <2>4, <3>1
    <2> QED BY <1>12, <2>3, <2>4 DEF RefreshNext
  <1> QED BY <1>5, <1>6, <1>8, <1>9, <1>10, <1>11, <1>12 DEF WalletNext, HandleRequest, ReloadStep, BeginRegister,
             InsertWallet, UpdateWallet, SetWalletEnabled, GetWallet, Upsert, EndRequest, ReadWallets, SwapRegistry

-----------------------------------------------------------------------------
(* The invariant holds at the start.                                       *)
LEMMA WalletInvInit == WalletInit => WalletInv
  <1> SUFFICES ASSUME WalletInit
               PROVE  WalletInv
    OBVIOUS
  <1>1. /\ wallets \in [Addrs -> Row]
        /\ \A a \in Addrs : wallets[a].type = "deposit" => wallets[a].user # NoUser
    BY WalletAssumption DEF WalletInit, Row
  <1>2. HandlersGood
    <2>1. GoodRequest(wallets, NoRequest)
      BY RowTypes DEF GoodRequest, NoRequest, Request
    <2>2. NoRequest \in Request
      BY <2>1 DEF GoodRequest
    <2> QED BY <2>1, <2>2 DEF HandlersGood, WalletInit
  <1>3. CopiesGood
    <2>1. GoodMap(wallets, EnabledWallets)
      <3>1. \A a \in Addrs : EnabledWallets[a] \in {wallets[a], NoWallet}
        BY DEF EnabledWallets
      <3>2. EnabledWallets \in [Addrs -> Row]
        BY <1>1, RowTypes DEF EnabledWallets
      <3> QED BY <3>1, <3>2, ReadNow DEF GoodMap
    <2> DEFINE none == [a \in Addrs |-> NoWallet]
    <2>2. GoodMap(wallets, none)
      BY RowTypes DEF GoodMap, ReadFrom
    <2>3. NotReading = [reading |-> FALSE, rows |-> none]
      BY DEF NotReading
    <2> HIDE DEF none
    <2>4. NotReading \in [reading : BOOLEAN, rows : [Addrs -> Row]] /\ NotReading.rows = none
      BY <2>2, <2>3 DEF GoodMap
    <2>5. EnabledWallets \in [Addrs -> Row]
      BY <2>1 DEF GoodMap
    <2> QED BY <2>1, <2>2, <2>4, <2>5 DEF CopiesGood, WalletInit
  <1>4. SnapshotsTypeOK
    BY WalletAssumption DEF SnapshotsTypeOK, WalletInit, NotFetched, NoSnapshot
  <1>5. requests \in 0..MaxRequests
    BY WalletAssumption DEF WalletInit
  <1> QED BY <1>1, <1>2, <1>3, <1>4, <1>5, WalletInvParts

(* Every step preserves it.                                                *)
LEMMA WalletInvNext == WalletInv /\ [WalletNext]_walletVars => WalletInv'
  <1>1. ASSUME WalletInv, WalletNext
        PROVE  WalletInv'
    <2>1. GoodStep
      BY <1>1, EveryStepKeepsOwners
    <2>2. HandlersGood' /\ CopiesGood' /\ SnapshotsTypeOK'
      BY <1>1, HandlersNext, CopiesNext, SnapshotsNext
    <2>3. requests' \in 0..MaxRequests
      <3>1. requests \in 0..MaxRequests /\ MaxRequests \in Nat
        BY <1>1, WalletInvParts, WalletAssumption, SMTT(60)
      <3>2. requests' = requests \/ (requests < MaxRequests /\ requests' = requests + 1)
        BY <1>1, ZenonT(60) DEF WalletNext, HandleRequest, ReloadStep, BeginRegister, InsertWallet, UpdateWallet,
             SetWalletEnabled, GetWallet, Upsert, EndRequest, ReadWallets, SwapRegistry, Move, Fetch,
             StoreBalance, StartBackfill, RefreshNext, RefreshError, registration
      <3> QED BY <3>1, <3>2
    <2>4. /\ (wallets \in [Addrs -> Row])'
          /\ (\A a \in Addrs : wallets[a].type = "deposit" => wallets[a].user # NoUser)'
          /\ (requests \in 0..MaxRequests)'
      BY <2>1, <2>3 DEF GoodStep, Row
    <2> QED BY <2>2, <2>4, WalletInvParts, PTL
  <1>2. ASSUME WalletInv, UNCHANGED walletVars
        PROVE  WalletInv'
    BY <1>2 DEF walletVars, WalletInv, WalletTypeOK, RequestsTested, CopiesRead
  <1> QED BY <1>1, <1>2

(* Every behaviour of the registration keeps WalletInv, the types          *)
(* included: whatever the handlers, the reloads and the refreshes do.      *)
THEOREM WalletInvariant == WalletSpec => []WalletInv
  BY WalletInvInit, WalletInvNext, PTL DEF WalletSpec

(* RegisterWallet (store.go:97) never changes the type of a wallet or the  *)
(* owner of a deposit wallet, although it decides on a row it read in an   *)
(* earlier statement and other handlers write in between.                  *)
THEOREM OwnerNeverChanges == WalletSpec => OwnerIsFixed
  <1>1. ASSUME WalletInv, WalletNext
        PROVE  OwnersKept
    BY <1>1, EveryStepKeepsOwners DEF GoodStep
  <1>2. WalletInv /\ [WalletNext]_walletVars =>
           [\A a \in Addrs : wallets[a] # NoWallet =>
               /\ wallets'[a].type = wallets[a].type
               /\ wallets[a].type = "deposit" => wallets'[a].user = wallets[a].user]_walletVars
    BY <1>1 DEF OwnersKept
  <1> QED BY <1>2, WalletInvariant, PTL DEF WalletSpec, OwnerIsFixed

(* The registry of every instance, however old its entries are, names the  *)
(* owner of a deposit address: the deposit the indexer credits through     *)
(* Registry.Get goes to the user whose wallet it is.                       *)
THEOREM RegistryIsRight == WalletSpec => []RegistryNamesOwner
  <1>1. WalletInv => RegistryNamesOwner
    BY RowTypes, WalletAssumption DEF WalletInv, CopiesRead, ReadFrom, RegistryNamesOwner, NoWallet
  <1> QED BY <1>1, WalletInvariant, PTL
=============================================================================
