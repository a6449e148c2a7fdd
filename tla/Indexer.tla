------------------------------- MODULE Indexer ------------------------------
(***************************************************************************)
(* Copying the chain into MySQL (indexer/engine.go, gapscan.go and their   *)
(* statements in store.go).  Heights reach the channel jobs from the       *)
(* subscription to new heads, from the backlog sync_pending_headers, from  *)
(* the backfill behind the checkpoint and from the gap scan; concurrent    *)
(* syncWorkers take them and run syncBlock under a lock in the cache.      *)
(*                                                                         *)
(* The chain is external: block n of chain has version chain[n], its hash, *)
(* and every block holds one deposit.  Genesis is never reorganised and is *)
(* left out, as are the copies of transactions and logs and the outbox of  *)
(* the cache.  The channel is a set of heights: every source sends a       *)
(* height again until it is stored, so order and duplicates do not matter. *)
(***************************************************************************)
EXTENDS Integers, Sequences, FiniteSets, FiniteSetsExt

CONSTANTS
    Workers,       \* syncWorker goroutines
    ConfirmDepth,  \* DepositProcessor.ConfirmDepth
    BatchSize,     \* cfg.Indexer.BatchSize, of the backfill
    Window,        \* cfg.Indexer.HashVerifyWindow
    JobsCap,       \* capacity of the channel jobs
    MaxHeight,     \* bound: height of the chain
    MaxReorgs,     \* bound: reorganisations of the chain
    MaxFaults      \* bound: errors of MySQL or the node, locks that expire too early, stops of the process

ASSUME IndexerAssumption ==
    /\ {ConfirmDepth, BatchSize, Window, JobsCap} \subseteq Nat \ {0}
    /\ {MaxHeight, MaxReorgs, MaxFaults} \subseteq Nat

VARIABLES
    chain,      \* the versions of the blocks 1, 2, ...
    announced,  \* heights without a row of which a header was delivered
    wal,        \* table sync_pending_headers
    jobs,       \* the channel jobs
    locks,      \* heights locked in the cache
    worker,     \* what each syncBlock holds
    blocks,     \* table synced_blocks: hash and status
    cp,         \* table indexer_checkpoints: last_block_number (confirmed_block_number is only reported)
    credited,   \* blocks whose deposit is credited (Deposit)
    reorgs,     \* reorganisations so far
    faults      \* faults so far

indexerVars == <<chain, announced, wal, jobs, locks, worker, blocks, cp, credited, reorgs, faults>>
environment == <<chain, reorgs>>

Heights == 1..MaxHeight
Versions == 0..MaxReorgs
Tip == Len(chain)

NoBlock == [hash |-> 0, status |-> "none"]
Idle == [pc |-> "idle", num |-> 0, hash |-> 0, parent |-> 0, upTo |-> 0, ahead |-> FALSE]

IndexerInit ==
    /\ chain = <<>>
    /\ announced = {}
    /\ wal = {}
    /\ jobs = {}
    /\ locks = {}
    /\ worker = [w \in Workers |-> Idle]
    /\ blocks = [n \in Heights |-> NoBlock]
    /\ cp = 0
    /\ credited = {}
    /\ reorgs = 0
    /\ faults = 0

-----------------------------------------------------------------------------
(* The chain grows, or its blocks from m on are replaced.                  *)
AddBlock ==
    /\ Tip < MaxHeight
    /\ chain' = Append(chain, reorgs)
    /\ UNCHANGED <<announced, wal, jobs, locks, worker, blocks, cp, credited, reorgs, faults>>

Reorganise(m) ==
    /\ reorgs < MaxReorgs
    /\ reorgs' = reorgs + 1
    /\ chain' = [n \in 1..Tip |-> IF n < m THEN chain[n] ELSE reorgs']
    /\ UNCHANGED <<announced, wal, jobs, locks, worker, blocks, cp, credited, faults>>

-----------------------------------------------------------------------------
(* A send on jobs that gives up when the channel is full.                  *)
Room == Cardinality(jobs) < JobsCap
Offered(n) == IF Room THEN jobs \union {n} ELSE jobs

(* An upsert of the header's row in sync_pending_headers.                  *)
EnqueuePendingHeader(n) == wal' = wal \union {n}

(* Mutant: the header is only sent to the workers.                         *)
EnqueueHeaderNoWal(n) ==
    /\ blocks[n] = NoBlock
    /\ announced' = announced \union {n}
    /\ jobs' = Offered(n)
    /\ UNCHANGED <<environment, wal, locks, worker, blocks, cp, credited, faults>>

(* EnqueueHeader of a header that the subscription delivers, at any time   *)
(* or never: first the table, then the channel.  (The header of a block    *)
(* that replaces a stored one does what a gap scan does.)                  *)
EnqueueHeader(n) ==
    /\ blocks[n] = NoBlock
    /\ announced' = announced \union {n}
    /\ EnqueuePendingHeader(n)
    /\ jobs' = Offered(n)
    /\ UNCHANGED <<environment, locks, worker, blocks, cp, credited, faults>>

(* recoverPendingLoop.                                                     *)
recoverPending(n) ==
    /\ n \in wal
    /\ Room
    /\ jobs' = jobs \union {n}
    /\ UNCHANGED <<environment, announced, wal, locks, worker, blocks, cp, credited, faults>>

(* The heights of runBackfill, from genesis (which is not in the model) if *)
(* there is no checkpoint.  end - start is unsigned: once the backfill has *)
(* caught up it wraps, and a batch beyond the head is sent.                *)
BackfillRange ==
    LET start == IF cp > 0 THEN cp + 1 ELSE 0
        end == IF start > Tip \/ Tip - start > BatchSize THEN start + BatchSize - 1 ELSE Tip
    IN  start..end

runBackfill ==
    LET wanted == (BackfillRange \intersect Heights) \ jobs
    IN  /\ wanted # {} /\ Room
        /\ jobs' = jobs \union {n \in wanted : Cardinality({m \in wanted : m < n}) < JobsCap - Cardinality(jobs)}
        /\ UNCHANGED <<environment, announced, wal, locks, worker, blocks, cp, credited, faults>>

Stored(n) == blocks[n].status \in {"pending", "confirmed"}

(* Mutant: only the heights without a row.                                 *)
GapMissing(n) == ~Stored(n)

(* What runGapScan looks for: heights without a row, or with another hash. *)
Gap(n) == ~Stored(n) \/ blocks[n].hash # chain[n]

GapScanStart ==
    LET start == IF Tip > Window THEN Tip - Window ELSE 0
    IN  IF cp > 0 /\ cp + 1 < start THEN cp + 1 ELSE start

(* runGapScan at height n.                                                 *)
runGapScan(n) ==
    /\ n >= GapScanStart
    /\ Gap(n)
    /\ EnqueuePendingHeader(n)
    /\ jobs' = Offered(n)
    /\ UNCHANGED <<environment, announced, locks, worker, blocks, cp, credited, faults>>

-----------------------------------------------------------------------------
Begin(w, n) ==
    /\ locks' = locks \union {n}
    /\ worker' = [worker EXCEPT ![w] = [Idle EXCEPT !.pc = "detect", !.num = n, !.hash = chain[n],
                                                    !.parent = IF n = 1 THEN 0 ELSE chain[n - 1]]]

(* syncWorker takes a height.  syncBlock returns if it is locked or there  *)
(* is no such block, or locks it (SetNX) and reads it (BlockByNumber).     *)
TakeJob(w, n) ==
    /\ worker[w].pc = "idle"
    /\ n \in jobs
    /\ jobs' = jobs \ {n}
    /\ \/ (n \in locks \/ n > Tip) /\ UNCHANGED <<locks, worker>>
       \/ n \notin locks /\ n <= Tip /\ Begin(w, n)
    /\ UNCHANGED <<environment, announced, wal, blocks, cp, credited, faults>>

(* syncBlock returns; the deferred Del removes the lock, whoever holds it. *)
Return(w) ==
    /\ worker' = [worker EXCEPT ![w] = Idle]
    /\ locks' = locks \ {worker[w].num}

ParentDiffers(w) ==
    LET prev == worker[w].num - 1
    IN  prev > 0 /\ Stored(prev) /\ blocks[prev].hash # worker[w].parent

(* Transactions of other workers that hold the lock of a row from m on.    *)
WritingFrom(m) == \E v \in Workers : worker[v].pc = "commit" /\ worker[v].num >= m

NoReorg(w) ==
    /\ worker[w].pc = "detect"
    /\ ~ParentDiffers(w)
    /\ worker' = [worker EXCEPT ![w].pc = "store", ![w].parent = 0]
    /\ UNCHANGED <<environment, announced, wal, jobs, locks, blocks, cp, credited, faults>>

(* MarkOrphanedFromTx; the hash of an orphaned row is not read again.      *)
Orphaned(prev) ==
    [n \in Heights |-> IF n >= prev /\ Stored(n) THEN [hash |-> 0, status |-> "orphaned"] ELSE blocks[n]]

(* RollbackCheckpointTx to the parent's height.                            *)
RollbackCheckpointTx(prev) == cp' = prev

(* detectAndHandleReorg up to the read of the parent, which is outside the *)
(* transaction and finds another hash.                                     *)
DetectReorg(w) ==
    /\ worker[w].pc = "detect"
    /\ ParentDiffers(w)
    /\ worker' = [worker EXCEPT ![w].pc = "reorg", ![w].parent = 0]
    /\ UNCHANGED <<environment, announced, wal, jobs, locks, blocks, cp, credited, faults>>

(* Mutant: the deposits are left alone.                                    *)
HandleReorgBlocksOnly(w) ==
    LET n == worker[w].num
    IN  /\ worker[w].pc = "reorg"
        /\ ~WritingFrom(n - 1)
        /\ blocks' = Orphaned(n - 1)
        /\ RollbackCheckpointTx(n - 1)
        /\ worker' = [worker EXCEPT ![w].pc = "requeue"]
        /\ UNCHANGED <<environment, announced, wal, jobs, locks, credited, faults>>

(* Its transaction: the blocks are orphaned and the deposits reversed from *)
(* the parent's height on, whatever is there by now, and the checkpoint is *)
(* set back.                                                               *)
HandleReorg(w) ==
    LET n == worker[w].num
    IN  /\ worker[w].pc = "reorg"
        /\ ~WritingFrom(n - 1)
        /\ blocks' = Orphaned(n - 1)
        /\ RollbackCheckpointTx(n - 1)
        /\ credited' = {d \in credited : d[1] < n - 1}
        /\ worker' = [worker EXCEPT ![w].pc = "requeue"]
        /\ UNCHANGED <<environment, announced, wal, jobs, locks, faults>>

(* After the commit the block is sent to the workers again, an error of    *)
(* EnqueuePendingHeader being ignored, and syncBlock goes on with it.      *)
Requeue(w) ==
    /\ worker[w].pc = "requeue"
    /\ jobs' = Offered(worker[w].num)
    /\ worker' = [worker EXCEPT ![w].pc = "store"]
    /\ UNCHANGED <<environment, announced, locks, blocks, cp, credited>>

(* confirmedUpTo, for the head that was read (0 after an error): a block   *)
(* at the head counts as confirmed.                                        *)
ConfirmedUpTo(n, head) ==
    IF head > n /\ head - n < ConfirmDepth THEN 0 ELSE n

(* The transaction has locked row n (UpsertBlockTx) and reads the head and *)
(* the checkpoint.                                                         *)
ReadTip(w, head, last) ==
    LET n == worker[w].num
    IN  /\ worker[w].pc = "store"
        /\ \A v \in Workers : worker[v].pc = "commit" => worker[v].num # n
        /\ worker' = [worker EXCEPT ![w].pc = "commit", ![w].ahead = n > last,
                                    ![w].upTo = ConfirmedUpTo(n, head)]
        /\ UNCHANGED <<environment, announced, wal, jobs, locks, blocks, cp, credited>>

(* Mutant: the status of a row that is there is kept.                      *)
UpsertBlockKeepsStatus(w) ==
    LET n == worker[w].num
    IN  [blocks EXCEPT ![n] = [hash |-> worker[w].hash, status |-> IF Stored(n) THEN @.status ELSE "pending"]]

(* UpsertBlockTx: an orphaned row becomes one of the chain again.          *)
UpsertBlockTx(w) == [blocks EXCEPT ![worker[w].num] = [hash |-> worker[w].hash, status |-> "pending"]]

ConfirmBlocksUpToTx(stored, upTo) ==
    [m \in Heights |-> IF m <= upTo /\ stored[m].status = "pending"
                       THEN [stored[m] EXCEPT !.status = "confirmed"] ELSE stored[m]]

(* UpsertCheckpointTx, if the block is ahead of the checkpoint that was    *)
(* read.                                                                   *)
UpsertCheckpointTx(w) == cp' = IF worker[w].ahead THEN worker[w].num ELSE cp

DeletePendingHeaderTx(n) == wal' = wal \ {n}

(* The transaction commits: the row, the deposit if the block is confirmed *)
(* now and its receipts are read, the confirmation of it and of older      *)
(* ones, the checkpoint, the backlog.                                      *)
Commit(w, read) ==
    LET n == worker[w].num
        upTo == worker[w].upTo
    IN  /\ worker[w].pc = "commit"
        /\ blocks' = ConfirmBlocksUpToTx(UpsertBlockTx(w), upTo)
        /\ credited' = IF upTo = n /\ read THEN credited \union {<<n, worker[w].hash>>} ELSE credited
        /\ UpsertCheckpointTx(w)
        /\ DeletePendingHeaderTx(n)
        /\ announced' = announced \ {n}
        /\ Return(w)
        /\ UNCHANGED <<environment, jobs>>

(* A deposit of which TransactionReceipt gives no receipt counts as failed. *)
CommitUnread(w) == worker[w].upTo = worker[w].num /\ Commit(w, FALSE)

-----------------------------------------------------------------------------
Fault == faults < MaxFaults /\ faults' = faults + 1

(* An error ends syncBlock and rolls its transaction back.                 *)
Fail(w) ==
    /\ Fault
    /\ worker[w].pc \notin {"idle", "requeue"}
    /\ Return(w)
    /\ UNCHANGED <<environment, announced, wal, jobs, blocks, cp, credited>>

(* Errors that are ignored: BlockNumber leaves 0 for the head,             *)
(* LoadCheckpoint 0 for the checkpoint, which may then be set back,        *)
(* EnqueuePendingHeader leaves the backlog as it is, and a receipt that    *)
(* cannot be read is left out.                                             *)
IgnoredError(w) ==
    /\ Fault
    /\ \/ ReadTip(w, 0, cp)
       \/ ReadTip(w, Tip, 0)
       \/ Requeue(w) /\ UNCHANGED wal
       \/ CommitUnread(w)

(* A lock ends after 30 seconds: of a syncBlock that takes longer, or of   *)
(* one that a stop of the process has ended.                               *)
ExpireLock(n) ==
    /\ n \in locks
    /\ locks' = locks \ {n}
    /\ UNCHANGED <<environment, announced, wal, jobs, worker, blocks, cp, credited>>

Held(n) == \E w \in Workers : worker[w].num = n

(* The process stops and starts again.  Locks survive it in Redis, not in  *)
(* the memory cache.                                                       *)
Restart ==
    /\ Fault
    /\ jobs' = {}
    /\ locks' \in {{}, locks}
    /\ worker' = [w \in Workers |-> Idle]
    /\ UNCHANGED <<environment, announced, wal, blocks, cp, credited>>

-----------------------------------------------------------------------------
syncBlock(w) ==
    \/ NoReorg(w) \/ DetectReorg(w) \/ HandleReorg(w)
    \/ Requeue(w) /\ EnqueuePendingHeader(worker[w].num) /\ UNCHANGED faults
    \/ ReadTip(w, Tip, cp) /\ UNCHANGED faults
    \/ Commit(w, TRUE) /\ UNCHANGED faults

IndexerNext ==
    \/ AddBlock
    \/ \E n \in 1..Tip : Reorganise(n) \/ EnqueueHeader(n) \/ runGapScan(n)
    \/ \E n \in wal : recoverPending(n)
    \/ runBackfill
    \/ \E w \in Workers : syncBlock(w) \/ Fail(w) \/ IgnoredError(w) \/ \E n \in jobs : TakeJob(w, n)
    \/ \E n \in locks : ExpireLock(n) /\ IF Held(n) THEN Fault ELSE UNCHANGED faults
    \/ Restart

(* Go runs every goroutine that can run, an idle worker takes a height     *)
(* there is, the tickers tick and the lock of a process that is gone       *)
(* expires.  The channel is not full at every tick, hence strong fairness  *)
(* of sending a height again.  Nothing is assumed of the subscription, the *)
(* backfill and the chain.                                                 *)
IndexerFairness ==
    /\ \A w \in Workers : WF_indexerVars(syncBlock(w))
    /\ WF_indexerVars(\E w \in Workers, n \in jobs : TakeJob(w, n))
    /\ \A n \in Heights :
          /\ SF_indexerVars(recoverPending(n))
          /\ WF_indexerVars(n <= Tip /\ runGapScan(n))
          /\ WF_indexerVars(~Held(n) /\ ExpireLock(n) /\ UNCHANGED faults)

IndexerSpec == IndexerInit /\ [][IndexerNext]_indexerVars /\ IndexerFairness

-----------------------------------------------------------------------------
IndexerTypeOK ==
    /\ chain \in Seq(Versions) /\ Tip <= MaxHeight
    /\ announced \subseteq Heights
    /\ wal \subseteq Heights
    /\ jobs \subseteq Heights /\ Cardinality(jobs) <= JobsCap
    /\ locks \subseteq Heights
    /\ worker \in [Workers -> [pc : {"idle", "detect", "reorg", "requeue", "store", "commit"}, num : 0..MaxHeight,
                               hash : Versions, parent : Versions, upTo : 0..MaxHeight, ahead : BOOLEAN]]
    /\ blocks \in [Heights -> [hash : Versions, status : {"none", "pending", "confirmed", "orphaned"}]]
    /\ cp \in 0..MaxHeight
    /\ credited \subseteq Heights \X Versions
    /\ reorgs \in 0..MaxReorgs
    /\ faults \in 0..MaxFaults

(* The write-ahead log: whatever happens to channel, workers and process,  *)
(* a height whose header was delivered is in sync_pending_headers until    *)
(* its block is stored (EnqueueHeader, DeletePendingHeaderTx).             *)
AnnouncedIsKept == announced \subseteq wal

(* No deposit stays credited for a block that detectAndHandleReorg has     *)
(* orphaned, whoever stores blocks above and below meanwhile               *)
(* (HandleReorgTx in the transaction of MarkOrphanedFromTx).               *)
OrphanIsNotCredited == \A d \in credited : blocks[d[1]].status # "orphaned"

(* The topmost block misses its deposit: it is confirmed, not credited,    *)
(* and no row above it has confirmed it.                                   *)
Missed(n) ==
    /\ blocks[n].status = "confirmed" /\ <<n, blocks[n].hash>> \notin credited
    /\ \A m \in Heights : m > n => blocks[m] = NoBlock

(* deposit.go:50, deposits are captured when their block reaches the       *)
(* confirmation depth.  That is not so for every block: one that is stored *)
(* when 0 < head - n < depth is confirmed by a later one, without its      *)
(* deposits (syncBlock, ConfirmBlocksUpToTx), and one whose receipts       *)
(* cannot be read is confirmed without them.  But no other way leads       *)
(* there: no step makes a block miss its deposit that no later one has     *)
(* overtaken, but the confirmation without receipts, through               *)
(* reorganisations, replaced tips and lost heads.                          *)
UncreditedIsOvertaken ==
    [][\A n \in Heights :
          Missed(n)' => Missed(n) \/ \E w \in Workers : worker[w].num = n /\ CommitUnread(w)]_indexerVars

(* The chain that is stored becomes the chain there is, within the window  *)
(* of the gap scan, once the chain rests: no missed header, lost job,      *)
(* reorganisation or overtaken worker leaves a wrong or missing block      *)
(* (runGapScan, recoverPendingLoop, syncBlock).                            *)
StoredConverges ==
    <>[](\A n \in 1..Tip : n >= GapScanStart => Stored(n) /\ blocks[n].hash = chain[n])

-----------------------------------------------------------------------------
(* What makes the invariants inductive: a worker in syncBlock has a block  *)
(* of the chain's heights, and its transaction confirms up to that block   *)
(* or nothing.                                                             *)
WorkerHasBlock ==
    \A w \in Workers :
        /\ worker[w].pc # "idle" => worker[w].num \in Heights
        /\ worker[w].pc = "commit" => worker[w].upTo \in {0, worker[w].num}

IndexerInv ==
    /\ IndexerTypeOK
    /\ WorkerHasBlock
    /\ AnnouncedIsKept
    /\ OrphanIsNotCredited
=============================================================================
