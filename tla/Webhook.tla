------------------------------- MODULE Webhook ------------------------------
(***************************************************************************)
(* Delivery of the webhook outbox (webhook/worker.go, dispatcher.go and    *)
(* the outbox statements of store.go).  Engine.worker claims a batch,      *)
(* delivers its items concurrently, waits for all of them and claims       *)
(* again; an administrator may requeue items over HTTP; the process may    *)
(* stop at any point and is started again with empty hands.                *)
(*                                                                         *)
(* The clock is abstracted to due: whether next_retry_at has passed.       *)
(***************************************************************************)
EXTENDS Naturals, FiniteSets, FiniteSetsExt

CONSTANTS
    Items,        \* webhook_outbox.id
    Workers,      \* Engine.worker goroutines
    BatchSize,    \* cfg.Webhook.BatchSize
    Concurrency,  \* cfg.Webhook.DispatchConcurrency
    MaxRetries,   \* cfg.Webhook.MaxRetries
    MaxRequeues   \* bound: requeues of one item

ASSUME WebhookAssumption ==
    /\ Items \subseteq Nat
    /\ BatchSize \in Nat \ {0}
    /\ Concurrency \in Nat \ {0}
    /\ MaxRetries \in Nat \ {0}
    /\ MaxRequeues \in Nat

VARIABLES
    item,       \* table webhook_outbox: status, retry_count, and whether it is due
    task,       \* task[w][i]: what worker w does with item i of its batch, and the retry_count it read
    attempts,   \* POSTs made per item (webhook_deliveries, whose insert error is ignored)
    answered,   \* items the merchant has answered with a 2xx status
    requeues    \* how often an item was requeued

webhookVars == <<item, task, attempts, answered, requeues>>

NoRow == [status |-> "none", retry |-> 0, due |-> FALSE]
NoTask == [stage |-> "none", retry |-> 0]

WebhookInit ==
    /\ item = [i \in Items |-> NoRow]
    /\ task = [w \in Workers |-> [i \in Items |-> NoTask]]
    /\ attempts = [i \in Items |-> 0]
    /\ answered = {}
    /\ requeues = [i \in Items |-> 0]

-----------------------------------------------------------------------------
(* The commit of a transaction with an InsertOutboxTx in it.               *)
InsertOutbox(i) ==
    /\ item[i] = NoRow
    /\ item' = [item EXCEPT ![i] = [status |-> "pending", retry |-> 0, due |-> TRUE]]
    /\ UNCHANGED <<task, attempts, answered, requeues>>

(* POST /webhook/bench/enqueue writes several at once, in one transaction. *)
BenchEnqueue(ids) ==
    /\ \A i \in ids : item[i] = NoRow
    /\ item' = [i \in Items |-> IF i \in ids THEN [status |-> "pending", retry |-> 0, due |-> TRUE] ELSE item[i]]
    /\ UNCHANGED <<task, attempts, answered, requeues>>

(* next_retry_at passes.                                                   *)
BecomeDue(i) ==
    /\ item[i].status = "pending"
    /\ ~item[i].due
    /\ item' = [item EXCEPT ![i].due = TRUE]
    /\ UNCHANGED <<task, attempts, answered, requeues>>

-----------------------------------------------------------------------------
Holds(w, i) == task[w][i].stage # "none"

(* Mutant: rows that were tried before are overlooked.                     *)
ClaimableFresh == {i \in Items : item[i].status = "pending" /\ item[i].due /\ item[i].retry = 0}

Claimable == {i \in Items : item[i].status = "pending" /\ item[i].due}

(* ORDER BY id ASC LIMIT BatchSize.                                        *)
FirstIds(ids) == {i \in ids : Cardinality({j \in ids : j < i}) < BatchSize}

(* Mutant: the rows are not marked processing.                             *)
ClaimUnmarked(w) ==
    LET batch == FirstIds(Claimable)
    IN  /\ \A i \in Items : ~Holds(w, i)
        /\ batch # {}
        /\ task' = [task EXCEPT ![w] = [i \in Items |->
                      IF i \in batch THEN [stage |-> "claimed", retry |-> item[i].retry] ELSE NoTask]]
        /\ UNCHANGED <<item, attempts, answered, requeues>>

(* ClaimOutboxBatch, in the loop of a worker that has waited for its last  *)
(* batch.                                                                  *)
ClaimOutboxBatch(w) ==
    LET batch == FirstIds(Claimable)
    IN  /\ \A i \in Items : ~Holds(w, i)
        /\ batch # {}
        /\ item' = [i \in Items |->
                      IF i \in batch THEN [item[i] EXCEPT !.status = "processing"] ELSE item[i]]
        /\ task' = [task EXCEPT ![w] = [i \in Items |->
                      IF i \in batch THEN [stage |-> "claimed", retry |-> item[i].retry] ELSE NoTask]]
        /\ UNCHANGED <<attempts, answered, requeues>>

Running(w) == {i \in Items : task[w][i].stage \notin {"none", "claimed"}}

Become(w, i, stage) == task' = [task EXCEPT ![w][i].stage = stage]

(* deliverOne gets a slot of the semaphore and reads the merchant's row:   *)
(* an error or a merchant that is disabled means failItem without a POST.  *)
StartDelivery(w, i) ==
    /\ task[w][i].stage = "claimed"
    /\ Cardinality(Running(w)) < Concurrency
    /\ Become(w, i, "posting") \/ Become(w, i, "failing")
    /\ UNCHANGED <<item, attempts, answered, requeues>>

(* Mutant: any HTTP status counts as success.                              *)
PostAnyStatus(w, i) ==
    /\ task[w][i].stage = "posting"
    /\ attempts' = [attempts EXCEPT ![i] = @ + 1]
    /\ answered' \in {answered, answered \union {i}}
    /\ Become(w, i, "delivered") \/ Become(w, i, "failing")
    /\ UNCHANGED <<item, requeues>>

(* Dispatcher.Post and InsertDelivery.  The merchant answers with 2xx,     *)
(* which may be lost or too late for the client's timeout, or it does not. *)
Post(w, i) ==
    /\ task[w][i].stage = "posting"
    /\ attempts' = [attempts EXCEPT ![i] = @ + 1]
    /\ \/ answered' = answered \union {i} /\ Become(w, i, "delivered")
       \/ answered' \in {answered, answered \union {i}} /\ Become(w, i, "failing")
    /\ UNCHANGED <<item, requeues>>

Release(w, i) == task' = [task EXCEPT ![w][i] = NoTask]

(* MarkOutboxDone is an UPDATE by id, whatever the status is by now.       *)
MarkOutboxDone(w, i) ==
    /\ task[w][i].stage = "delivered"
    /\ item' = [item EXCEPT ![i].status = "done"]
    /\ Release(w, i)
    /\ UNCHANGED <<attempts, answered, requeues>>

(* Mutant: the failure is not counted.                                     *)
failItemUncounted(w, i) ==
    /\ task[w][i].stage = "failing"
    /\ item' = [item EXCEPT ![i].status = "pending", ![i].due = FALSE]
    /\ Release(w, i)
    /\ UNCHANGED <<attempts, answered, requeues>>

(* failItem and MarkOutboxRetry, also by id, with the count it claimed.    *)
failItem(w, i) ==
    LET retry == task[w][i].retry + 1
    IN  /\ task[w][i].stage = "failing"
        /\ item' = [item EXCEPT ![i] =
                      [status |-> IF retry >= MaxRetries THEN "failed" ELSE "pending",
                       retry |-> retry, due |-> FALSE]]
        /\ Release(w, i)
        /\ UNCHANGED <<attempts, answered, requeues>>

(* The UPDATE of either failed: the error is logged and the row stays.     *)
MarkError(w, i) ==
    /\ task[w][i].stage \in {"delivered", "failing"}
    /\ Release(w, i)
    /\ UNCHANGED <<item, attempts, answered, requeues>>

-----------------------------------------------------------------------------
(* POST /webhook/outbox/:id/requeue.                                       *)
RequeueOutbox(i) ==
    /\ item[i].status \in {"failed", "processing"}
    /\ requeues[i] < MaxRequeues
    /\ item' = [item EXCEPT ![i].status = "pending", ![i].due = TRUE]
    /\ requeues' = [requeues EXCEPT ![i] = @ + 1]
    /\ UNCHANGED <<task, attempts, answered>>

(* The process stops and is started again.                                 *)
Restart ==
    /\ \E w \in Workers, i \in Items : Holds(w, i)
    /\ task' = [w \in Workers |-> [i \in Items |-> NoTask]]
    /\ UNCHANGED <<item, attempts, answered, requeues>>

(* The steps of a worker that a running process will take.                 *)
WorkerStep(w) ==
    \/ ClaimOutboxBatch(w)
    \/ \E i \in Items : \/ StartDelivery(w, i) \/ Post(w, i)
                        \/ MarkOutboxDone(w, i) \/ failItem(w, i)

(* HandleWebhookBenchEnqueue, which wants a count from 1 to 50000, and     *)
(* HandleWebhookRequeue of any item.                                       *)
HandleWebhookAdmin ==
    \/ \E ids \in SUBSET Items \ {{}} : BenchEnqueue(ids)
    \/ \E i \in Items : RequeueOutbox(i)

WebhookNext ==
    \/ HandleWebhookAdmin
    \/ \E i \in Items : InsertOutbox(i) \/ BecomeDue(i)
    \/ \E w \in Workers : WorkerStep(w) \/ \E i \in Items : MarkError(w, i)
    \/ Restart

(* Go schedules every goroutine that can run, Post has a timeout, and time *)
(* passes.  Nothing is assumed of administrators, merchants and failures.  *)
WebhookFairness ==
    /\ \A w \in Workers : WF_webhookVars(WorkerStep(w))
    /\ \A i \in Items : WF_webhookVars(BecomeDue(i))

WebhookSpec == WebhookInit /\ [][WebhookNext]_webhookVars /\ WebhookFairness

-----------------------------------------------------------------------------
MaxRetryCount == MaxRetries + MaxRequeues

WebhookTypeOK ==
    /\ item \in [Items -> [status : {"none", "pending", "processing", "done", "failed"},
                           retry : 0..MaxRetryCount, due : BOOLEAN]]
    /\ task \in [Workers -> [Items ->
          [stage : {"none", "claimed", "posting", "delivered", "failing"}, retry : 0..MaxRetryCount]]]
    /\ attempts \in [Items -> Nat]
    /\ answered \subseteq Items
    /\ requeues \in [Items -> 0..MaxRequeues]

(* SKIP LOCKED and the status processing keep two workers, and two turns   *)
(* of one worker across a restart, off one item: an item is in as many     *)
(* hands as it was requeued plus one, and in none while it is pending      *)
(* unless it was requeued (ClaimOutboxBatch).                              *)
InOneHand ==
    \A i \in Items :
        LET holders == Cardinality({w \in Workers : Holds(w, i)})
        IN  /\ holders <= 1 + requeues[i]
            /\ item[i].status \in {"pending", "done", "failed"} => holders <= requeues[i]

(* At-least-once delivery: an item that is done was answered with 2xx by   *)
(* the merchant, whoever else delivered, failed or requeued it meanwhile   *)
(* (deliverOne).                                                           *)
DoneIsAnswered == \A i \in Items : item[i].status = "done" => i \in answered

(* config.example.yaml:108, retries are bounded by max_retries: no item is *)
(* posted to the merchant more often than that per requeue, even when a    *)
(* worker that was overtaken writes back an old retry_count.               *)
RetryBudget == \A i \in Items : attempts[i] <= MaxRetries * (1 + requeues[i])

(* Left in status processing by a restart or a failed UPDATE.              *)
Stranded(i) == item[i].status = "processing" /\ \A w \in Workers : ~Holds(w, i)

(* No item waits forever: backoff ends, a batch ends, a lower id does not  *)
(* starve a higher one; an item ends as done or failed, or is stranded     *)
(* until an administrator requeues it (Engine.worker).                     *)
EventuallySettled ==
    \A i \in Items :
        item[i].status = "pending" ~> item[i].status \in {"done", "failed"} \/ Stranded(i)

-----------------------------------------------------------------------------
(* The inductive invariant.  The workers that hold item i: one more than   *)
(* the requeues only while the row is in status processing.                *)
Holders(i) == {w \in Workers : Holds(w, i)}

HandsCounted ==
    \A i \in Items :
        /\ IsFiniteSet(Holders(i))
        /\ Cardinality(Holders(i)) <= requeues[i] + IF item[i].status = "processing" THEN 1 ELSE 0

(* What is reported as delivered was answered.                             *)
DeliveredIsAnswered ==
    /\ DoneIsAnswered
    /\ \A w \in Workers, i \in Items : task[w][i].stage = "delivered" => i \in answered

(* A count of retries passes the limit only by requeues.                   *)
RetriesBounded ==
    \A i \in Items :
        /\ item[i].retry <= MaxRetries + requeues[i]
        /\ item[i].status \notin {"done", "failed"} => item[i].retry < MaxRetries + requeues[i]
        /\ \A w \in Workers : task[w][i].retry < MaxRetries + requeues[i]

(* The POSTs that may still follow from a row and from an item in a hand,  *)
(* if nobody requeues it.                                                  *)
RowBudget(row) ==
    CASE row.status = "none" -> MaxRetries
      [] row.status = "pending" -> IF row.retry < MaxRetries THEN MaxRetries - row.retry ELSE 1
      [] OTHER -> 0

HandBudget(t) ==
    CASE t.stage \in {"claimed", "posting"} -> IF t.retry < MaxRetries THEN MaxRetries - t.retry ELSE 1
      [] t.stage = "failing" -> IF t.retry < MaxRetries THEN MaxRetries - t.retry - 1 ELSE 0
      [] OTHER -> 0

PostsLeft(i) == {p \in Workers \X (1..MaxRetries) : p[2] <= HandBudget(task[p[1]][i])}

(* These and the POSTs made are covered by the requeues.                   *)
BudgetCovered ==
    \A i \in Items :
        /\ IsFiniteSet(PostsLeft(i))
        /\ attempts[i] + Cardinality(PostsLeft(i)) + RowBudget(item[i]) <= MaxRetries * (1 + requeues[i])

WebhookInv == WebhookTypeOK /\ HandsCounted /\ DeliveredIsAnswered /\ RetriesBounded /\ BudgetCovered
=============================================================================
