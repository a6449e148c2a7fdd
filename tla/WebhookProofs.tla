---------------------------- MODULE WebhookProofs ---------------------------
(***************************************************************************)
(* The safety of webhook delivery for any items, workers, batches and      *)
(* limits.  An item is only touched through its own row and the hands of   *)
(* the workers, so the proof is about one item: ItemOK is WebhookInv for   *)
(* it, ItemStep what a step can do to it, and every step of the system is  *)
(* an ItemStep of every item.                                              *)
(*                                                                         *)
(* RetryBudget needs a count of what may still come: an item in a hand is  *)
(* worth the POSTs its retry_count leaves (PostsLeft), so is a row that is *)
(* pending, and only a requeue makes more of them.                         *)
(***************************************************************************)
EXTENDS Webhook, FiniteSetTheorems, TLAPS

Row == [status : {"none", "pending", "processing", "done", "failed"}, retry : 0..MaxRetryCount, due : BOOLEAN]
Task == [stage : {"none", "claimed", "posting", "delivered", "failing"}, retry : 0..MaxRetryCount]

(* What the workers do with item i, and the same two counts of it.         *)
Hands(i) == [w \in Workers |-> task[w][i]]
HoldersIn(T) == {w \in Workers : T[w].stage # "none"}
LeftIn(T) == {p \in Workers \X (1..MaxRetries) : p[2] <= HandBudget(T[p[1]])}

(* The limits are natural numbers.                                         *)
LEMMA Constants ==
    /\ MaxRetries \in Nat /\ MaxRetries >= 1
    /\ MaxRequeues \in Nat
    /\ MaxRetryCount \in Nat /\ MaxRetryCount = MaxRetries + MaxRequeues
  BY WebhookAssumption DEF MaxRetryCount

(* A hand is worth 0 to MaxRetries POSTs.                                  *)
LEMMA HandBudgetType ==
    ASSUME NEW t \in Task
    PROVE  HandBudget(t) \in 0..MaxRetries
  <1>1. t.retry \in Nat
    BY Constants DEF Task
  <1> QED BY <1>1, Constants DEF HandBudget

(* The hand of one worker changes: so do the holders, by at most one, ...  *)
LEMMA HoldersChange ==
    ASSUME NEW T \in [Workers -> Task], NEW w \in Workers, NEW t \in Task,
           IsFiniteSet(HoldersIn(T))
    PROVE  LET U == [T EXCEPT ![w] = t]
               held == IF T[w].stage = "none" THEN 0 ELSE 1
               holds == IF t.stage = "none" THEN 0 ELSE 1
           IN  /\ IsFiniteSet(HoldersIn(U))
               /\ Cardinality(HoldersIn(U)) = Cardinality(HoldersIn(T)) - held + holds
  <1> DEFINE U == [T EXCEPT ![w] = t]
             rest == HoldersIn(T) \ {w}
             held == IF T[w].stage = "none" THEN 0 ELSE 1
             holds == IF t.stage = "none" THEN 0 ELSE 1
  <1>1. held \in {0, 1} /\ holds \in {0, 1} /\ (held = 1 <=> w \in HoldersIn(T))
    BY DEF HoldersIn
  <1>2. IsFiniteSet(rest) /\ Cardinality(rest) = Cardinality(HoldersIn(T)) - held
    BY <1>1, FS_RemoveElement, FS_CardinalityType
  <1>3. Cardinality(rest) \in Nat /\ Cardinality(HoldersIn(T)) \in Nat
    BY <1>2, FS_CardinalityType
  <1>4. w \notin rest
    OBVIOUS
  <1>5. /\ holds = 0 => HoldersIn(U) = rest
        /\ holds = 1 => HoldersIn(U) = rest \union {w}
    BY DEF HoldersIn
  <1> HIDE DEF rest, U, held, holds
  <1>6. IsFiniteSet(rest \union {w}) /\ Cardinality(rest \union {w}) = Cardinality(rest) + 1
    BY <1>2, <1>4, FS_AddElement
  <1>7. /\ IsFiniteSet(HoldersIn(U))
        /\ Cardinality(HoldersIn(U)) = Cardinality(HoldersIn(T)) - held + holds
    <2>1. CASE holds = 0
      BY <1>1, <1>2, <1>3, <1>5, <2>1
    <2>2. CASE holds = 1
      BY <1>1, <1>2, <1>3, <1>5, <1>6, <2>2
    <2> QED BY <1>1, <2>1, <2>2
  <1> QED BY <1>7 DEF U, held, holds

(* ... and the POSTs left, by the difference of what the hand is worth.    *)
LEMMA LeftChange ==
    ASSUME NEW T \in [Workers -> Task], NEW w \in Workers, NEW t \in Task,
           IsFiniteSet(LeftIn(T))
    PROVE  LET U == [T EXCEPT ![w] = t]
           IN  /\ IsFiniteSet(LeftIn(U))
               /\ Cardinality(LeftIn(U)) = Cardinality(LeftIn(T)) - HandBudget(T[w]) + HandBudget(t)
  <1> DEFINE U == [T EXCEPT ![w] = t]
             Of(n) == {w} \X (1..n)
             rest == {p \in LeftIn(T) : p[1] # w}
  <1>1. /\ HandBudget(T[w]) \in Nat /\ HandBudget(T[w]) <= MaxRetries
        /\ HandBudget(t) \in Nat /\ HandBudget(t) <= MaxRetries
    BY HandBudgetType, Constants
  <1>2. ASSUME NEW n \in Nat
        PROVE  IsFiniteSet(Of(n)) /\ Cardinality(Of(n)) = n
    <2>1. IsFiniteSet(1..n) /\ Cardinality(1..n) = n
      BY FS_Interval
    <2>2. IsFiniteSet({w}) /\ Cardinality({w}) = 1
      BY FS_Singleton
    <2>3. IsFiniteSet(Of(n)) /\ Cardinality(Of(n)) = Cardinality({w}) * Cardinality(1..n)
      BY <2>1, <2>2, FS_Product
    <2> HIDE DEF Of
    <2> QED BY <2>1, <2>2, <2>3
  <1>3. LeftIn(T) = rest \union Of(HandBudget(T[w]))
    BY <1>1, Constants DEF LeftIn
  <1>4. LeftIn(U) = rest \union Of(HandBudget(t))
    BY <1>1, Constants DEF LeftIn
  <1>5. IsFiniteSet(rest)
    BY FS_Subset
  <1>6. \A n \in Nat : rest \cap Of(n) = {}
    OBVIOUS
  <1> HIDE DEF rest, Of, U
  <1>7. ASSUME NEW n \in Nat
        PROVE  /\ IsFiniteSet(rest \union Of(n))
               /\ Cardinality(rest \union Of(n)) = Cardinality(rest) + n
    <2>1. IsFiniteSet(Of(n)) /\ Cardinality(Of(n)) = n
      BY <1>2
    <2>2. Cardinality(rest \union Of(n)) = Cardinality(rest) + Cardinality(Of(n)) - Cardinality({})
      BY <1>5, <1>6, <2>1, FS_Union
    <2>3. Cardinality({}) = 0 /\ Cardinality(rest) \in Nat
      BY <1>5, FS_EmptySet, FS_CardinalityType
    <2>4. IsFiniteSet(rest \union Of(n))
      BY <1>5, <2>1, FS_Union
    <2> QED BY <2>1, <2>2, <2>3, <2>4
  <1>8. Cardinality(rest) \in Nat
    BY <1>5, FS_CardinalityType
  <1>9. /\ IsFiniteSet(LeftIn(U))
        /\ Cardinality(LeftIn(U)) = Cardinality(LeftIn(T)) - HandBudget(T[w]) + HandBudget(t)
    BY <1>1, <1>3, <1>4, <1>7, <1>8
  <1> QED BY <1>9 DEF U

-----------------------------------------------------------------------------
(* WebhookInv for one item.                                                *)
InHand(t) == IF t.stage = "none" THEN 0 ELSE 1
InWork(row) == IF row.status = "processing" THEN 1 ELSE 0

ItemTypeOK(i) ==
    /\ item[i] \in Row
    /\ Hands(i) \in [Workers -> Task]
    /\ attempts[i] \in Nat
    /\ requeues[i] \in 0..MaxRequeues

ItemAnswered(i) ==
    /\ item[i].status = "done" => i \in answered
    /\ \A w \in Workers : Hands(i)[w].stage = "delivered" => i \in answered

RowRetryOK(row, n) ==
    /\ row.retry <= MaxRetries + n
    /\ row.status \notin {"done", "failed"} => row.retry < MaxRetries + n

ItemRetries(i) ==
    /\ RowRetryOK(item[i], requeues[i])
    /\ \A w \in Workers : Hands(i)[w].retry < MaxRetries + requeues[i]

ItemCounts(i) ==
    /\ IsFiniteSet(HoldersIn(Hands(i))) /\ IsFiniteSet(LeftIn(Hands(i)))
    /\ Cardinality(HoldersIn(Hands(i))) <= requeues[i] + InWork(item[i])
    /\ attempts[i] + Cardinality(LeftIn(Hands(i))) + RowBudget(item[i]) <= MaxRetries * (1 + requeues[i])

ItemOK(i) == ItemTypeOK(i) /\ ItemAnswered(i) /\ ItemRetries(i) /\ ItemCounts(i)

(* A row is worth a natural number of POSTs, and no more than MaxRetries.  *)
LEMMA RowBudgetType ==
    ASSUME NEW row \in Row
    PROVE  RowBudget(row) \in Nat /\ RowBudget(row) <= MaxRetries /\ InWork(row) \in {0, 1}
  <1>1. row.retry \in Nat
    BY Constants DEF Row
  <1>2. RowBudget(row) \in Nat /\ RowBudget(row) <= MaxRetries
    BY <1>1, Constants DEF RowBudget
  <1> QED BY <1>2 DEF InWork

(* One requeue more is worth MaxRetries POSTs more.                        *)
LEMMA OneRequeueMore ==
    ASSUME NEW n \in Nat
    PROVE  /\ MaxRetries * (1 + n) \in Nat
           /\ MaxRetries * (1 + (n + 1)) = MaxRetries * (1 + n) + MaxRetries
  BY Constants

(* The numbers of one item.                                                *)
LEMMA ItemNumbers ==
    ASSUME NEW i \in Items, ItemOK(i)
    PROVE  /\ attempts[i] \in Nat /\ requeues[i] \in Nat
           /\ RowBudget(item[i]) \in Nat /\ RowBudget(item[i]) <= MaxRetries
           /\ InWork(item[i]) \in {0, 1}
           /\ MaxRetries * (1 + requeues[i]) \in Nat
           /\ Cardinality(HoldersIn(Hands(i))) \in Nat /\ Cardinality(LeftIn(Hands(i))) \in Nat
  <1>1. attempts[i] \in Nat /\ requeues[i] \in Nat /\ item[i] \in Row
    BY Constants DEF ItemOK, ItemTypeOK
  <1>2. Cardinality(HoldersIn(Hands(i))) \in Nat /\ Cardinality(LeftIn(Hands(i))) \in Nat
    BY FS_CardinalityType DEF ItemOK, ItemCounts
  <1> QED BY <1>1, <1>2, RowBudgetType, OneRequeueMore

(* A step that changes the item in one hand, its row and its POSTs is      *)
(* good if it takes into the hand only what it marks, and makes no more    *)
(* POSTs possible than there were.                                         *)
LEMMA HandStep ==
    ASSUME NEW i \in Items, ItemOK(i), NEW w \in Workers, NEW t \in Task,
           Hands(i)' = [Hands(i) EXCEPT ![w] = t],
           item'[i] \in Row, attempts'[i] \in Nat, requeues'[i] = requeues[i],
           answered \subseteq answered',
           t.stage = "delivered" \/ item'[i].status = "done" => i \in answered',
           RowRetryOK(item'[i], requeues[i]), t.retry < MaxRetries + requeues[i],
           InHand(t) - InHand(Hands(i)[w]) <= InWork(item'[i]) - InWork(item[i]),
           attempts'[i] + HandBudget(t) + RowBudget(item'[i])
              <= attempts[i] + HandBudget(Hands(i)[w]) + RowBudget(item[i])
    PROVE  ItemOK(i)'
  <1> DEFINE T == Hands(i)
             U == [T EXCEPT ![w] = t]
  <1>1. T \in [Workers -> Task] /\ T[w] \in Task
    BY DEF ItemOK, ItemTypeOK
  <1>2. U \in [Workers -> Task] /\ \A v \in Workers : U[v] = IF v = w THEN t ELSE T[v]
    BY <1>1
  <1>3. Hands(i)' = U
    OBVIOUS
  <1>4. /\ IsFiniteSet(HoldersIn(U)) /\ IsFiniteSet(LeftIn(U))
        /\ Cardinality(HoldersIn(U)) = Cardinality(HoldersIn(T)) - InHand(T[w]) + InHand(t)
        /\ Cardinality(LeftIn(U)) = Cardinality(LeftIn(T)) - HandBudget(T[w]) + HandBudget(t)
    <2>1. T \in [Workers -> Task] /\ IsFiniteSet(HoldersIn(T)) /\ IsFiniteSet(LeftIn(T))
      BY <1>1 DEF ItemOK, ItemCounts
    <2> HIDE DEF T
    <2> QED BY <2>1, HoldersChange, LeftChange DEF InHand
  <1>5. /\ Cardinality(HoldersIn(T)) \in Nat /\ Cardinality(LeftIn(T)) \in Nat
        /\ attempts[i] \in Nat /\ requeues[i] \in Nat /\ RowBudget(item[i]) \in Nat
        /\ InWork(item[i]) \in {0, 1} /\ MaxRetries * (1 + requeues[i]) \in Nat
        /\ RowBudget(item'[i]) \in Nat /\ InWork(item'[i]) \in {0, 1}
        /\ HandBudget(T[w]) \in Nat /\ HandBudget(t) \in Nat
        /\ InHand(T[w]) \in {0, 1} /\ InHand(t) \in {0, 1}
    BY <1>1, ItemNumbers, RowBudgetType, HandBudgetType, Constants DEF InHand
  <1>6. ItemTypeOK(i)'
    BY <1>2, <1>3 DEF ItemOK, ItemTypeOK, Row, Task, MaxRetryCount
  <1>7. ItemAnswered(i)'
    BY <1>2, <1>3 DEF ItemOK, ItemAnswered
  <1>8. ItemRetries(i)'
    BY <1>2, <1>3 DEF ItemOK, ItemRetries, RowRetryOK
  <1>9. ItemCounts(i)'
    <2>1. /\ Cardinality(HoldersIn(T)) <= requeues[i] + InWork(item[i])
          /\ attempts[i] + Cardinality(LeftIn(T)) + RowBudget(item[i]) <= MaxRetries * (1 + requeues[i])
      BY DEF ItemOK, ItemCounts
    <2> DEFINE limit == MaxRetries * (1 + requeues[i])
    <2> HIDE DEF T, U, limit
    <2>2. Cardinality(HoldersIn(U)) <= requeues[i] + InWork(item'[i])
      BY <1>4, <1>5, <2>1 DEF T
    <2>3. attempts'[i] + Cardinality(LeftIn(U)) + RowBudget(item'[i]) <= limit
      BY <1>4, <1>5, <2>1 DEF T, limit
    <2> QED BY <1>3, <1>4, <2>2, <2>3 DEF ItemCounts, limit
  <1> QED BY <1>6, <1>7, <1>8, <1>9 DEF ItemOK

(* A step that leaves the hands alone is good if it takes nothing out of   *)
(* status processing and makes no more POSTs possible, ...                 *)
LEMMA RowStep ==
    ASSUME NEW i \in Items, ItemOK(i), Hands(i)' = Hands(i), item'[i] \in Row,
           attempts'[i] = attempts[i], requeues'[i] = requeues[i], answered \subseteq answered',
           item'[i].status = "done" => i \in answered,
           RowRetryOK(item'[i], requeues[i]),
           InWork(item'[i]) >= InWork(item[i]),
           RowBudget(item'[i]) <= RowBudget(item[i])
    PROVE  ItemOK(i)'
  <1>1. ItemTypeOK(i)'
    BY DEF ItemOK, ItemTypeOK, Row, Task, MaxRetryCount
  <1>2. ItemAnswered(i)' /\ ItemRetries(i)'
    BY DEF ItemOK, ItemAnswered, ItemRetries, RowRetryOK
  <1>3. ItemCounts(i)'
    <2> DEFINE limit == MaxRetries * (1 + requeues[i])
    <2>1. /\ Cardinality(HoldersIn(Hands(i))) <= requeues[i] + InWork(item[i])
          /\ attempts[i] + Cardinality(LeftIn(Hands(i))) + RowBudget(item[i]) <= limit
          /\ IsFiniteSet(HoldersIn(Hands(i))) /\ IsFiniteSet(LeftIn(Hands(i)))
      BY DEF ItemOK, ItemCounts
    <2>2. /\ attempts[i] \in Nat /\ requeues[i] \in Nat /\ limit \in Nat
          /\ Cardinality(HoldersIn(Hands(i))) \in Nat /\ Cardinality(LeftIn(Hands(i))) \in Nat
          /\ RowBudget(item[i]) \in Nat /\ InWork(item[i]) \in {0, 1}
          /\ RowBudget(item'[i]) \in Nat /\ InWork(item'[i]) \in {0, 1}
      BY ItemNumbers, RowBudgetType
    <2> HIDE DEF limit
    <2>3. /\ Cardinality(HoldersIn(Hands(i))) <= requeues[i] + InWork(item'[i])
          /\ attempts[i] + Cardinality(LeftIn(Hands(i))) + RowBudget(item'[i]) <= limit
      BY <2>1, <2>2
    <2> QED BY <2>1, <2>3 DEF ItemCounts, limit
  <1> QED BY <1>1, <1>2, <1>3 DEF ItemOK

(* ... and a requeue pays for what it makes possible.                      *)
LEMMA RequeueStep ==
    ASSUME NEW i \in Items, ItemOK(i), Hands(i)' = Hands(i),
           item[i].status \in {"failed", "processing"}, requeues[i] < MaxRequeues,
           item'[i] = [item[i] EXCEPT !.status = "pending", !.due = TRUE],
           attempts'[i] = attempts[i], requeues'[i] = requeues[i] + 1, answered' = answered
    PROVE  ItemOK(i)'
  <1>1. item[i] \in Row /\ requeues[i] \in Nat /\ requeues[i] + 1 \in 0..MaxRequeues
    BY Constants DEF ItemOK, ItemTypeOK
  <1>2. /\ item'[i] \in Row /\ item'[i].status = "pending" /\ item'[i].retry = item[i].retry
        /\ item[i].retry \in Nat
    <2> DEFINE row == [item[i] EXCEPT !.status = "pending", !.due = TRUE]
    <2>1. row \in Row /\ row.status = "pending" /\ row.retry = item[i].retry
      BY <1>1 DEF Row
    <2>2. item[i].retry \in Nat
      BY <1>1, Constants DEF Row
    <2> HIDE DEF row
    <2>3. item'[i] = row
      BY DEF row
    <2> QED BY <2>1, <2>2, <2>3
  <1>3. ItemTypeOK(i)'
    BY <1>1, <1>2 DEF ItemOK, ItemTypeOK, Row, Task, MaxRetryCount
  <1>4. ItemAnswered(i)'
    BY <1>2 DEF ItemOK, ItemAnswered
  <1>5. ItemRetries(i)'
    <2>1. RowRetryOK(item'[i], requeues[i] + 1)
      BY <1>1, <1>2, Constants DEF ItemOK, ItemRetries, RowRetryOK
    <2>2. \A w \in Workers : Hands(i)[w].retry < MaxRetries + (requeues[i] + 1)
      <3>1. \A w \in Workers : Hands(i)[w].retry \in Nat
        BY Constants DEF ItemOK, ItemTypeOK, Task
      <3> QED BY <1>1, <3>1, Constants DEF ItemOK, ItemRetries
    <2> QED BY <2>1, <2>2 DEF ItemRetries, RowRetryOK
  <1>6. ItemCounts(i)'
    <2> DEFINE limit == MaxRetries * (1 + requeues[i])
    <2>1. /\ Cardinality(HoldersIn(Hands(i))) <= requeues[i] + InWork(item[i])
          /\ attempts[i] + Cardinality(LeftIn(Hands(i))) + RowBudget(item[i]) <= limit
          /\ IsFiniteSet(HoldersIn(Hands(i))) /\ IsFiniteSet(LeftIn(Hands(i)))
      BY DEF ItemOK, ItemCounts
    <2>2. /\ attempts[i] \in Nat /\ limit \in Nat
          /\ Cardinality(HoldersIn(Hands(i))) \in Nat /\ Cardinality(LeftIn(Hands(i))) \in Nat
          /\ RowBudget(item[i]) \in Nat /\ InWork(item[i]) \in {0, 1}
          /\ RowBudget(item'[i]) \in Nat /\ RowBudget(item'[i]) <= MaxRetries /\ InWork(item'[i]) = 0
      BY <1>2, ItemNumbers, RowBudgetType DEF InWork
    <2>3. MaxRetries * (1 + (requeues[i] + 1)) = limit + MaxRetries
      BY <1>1, OneRequeueMore
    <2> HIDE DEF limit
    <2>4. /\ Cardinality(HoldersIn(Hands(i))) <= (requeues[i] + 1) + InWork(item'[i])
          /\ attempts[i] + Cardinality(LeftIn(Hands(i))) + RowBudget(item'[i]) <= limit + MaxRetries
      BY <1>1, <2>1, <2>2, Constants
    <2> QED BY <2>1, <2>3, <2>4 DEF ItemCounts
  <1> QED BY <1>3, <1>4, <1>5, <1>6 DEF ItemOK

(* Empty hands, after a restart.                                           *)
NoHands == [w \in Workers |-> NoTask]

(* They count for nothing.                                                 *)
LEMMA NoHandsCount ==
    /\ NoHands \in [Workers -> Task]
    /\ IsFiniteSet(HoldersIn(NoHands)) /\ Cardinality(HoldersIn(NoHands)) = 0
    /\ IsFiniteSet(LeftIn(NoHands)) /\ Cardinality(LeftIn(NoHands)) = 0
  <1>1. NoTask \in Task /\ NoTask.stage = "none" /\ NoTask.retry = 0
    BY Constants DEF NoTask, Task
  <1>2. HandBudget(NoTask) = 0
    BY <1>1 DEF HandBudget
  <1>3. HoldersIn(NoHands) = {}
    BY <1>1 DEF HoldersIn, NoHands
  <1>4. LeftIn(NoHands) = {}
    BY <1>2, Constants DEF LeftIn, NoHands
  <1> QED BY <1>1, <1>3, <1>4, FS_EmptySet DEF NoHands

(* A restart loses what was in the hands.                                  *)
LEMMA RestartStep ==
    ASSUME NEW i \in Items, ItemOK(i), Hands(i)' = NoHands, item'[i] = item[i],
           attempts'[i] = attempts[i], requeues'[i] = requeues[i], answered' = answered
    PROVE  ItemOK(i)'
  <1>1. NoTask.stage = "none" /\ NoTask.retry = 0 /\ \A w \in Workers : NoHands[w] = NoTask
    BY DEF NoTask, NoHands
  <1>2. requeues[i] \in Nat
    BY ItemNumbers
  <1>3. ItemTypeOK(i)'
    BY NoHandsCount DEF ItemOK, ItemTypeOK, Row, Task, MaxRetryCount
  <1>4. ItemAnswered(i)'
    BY <1>1 DEF ItemOK, ItemAnswered
  <1>5. ItemRetries(i)'
    <2>1. \A w \in Workers : NoHands[w].retry < MaxRetries + requeues[i]
      BY <1>1, <1>2, Constants
    <2> QED BY <2>1 DEF ItemOK, ItemRetries, RowRetryOK
  <1>6. ItemCounts(i)'
    <2> DEFINE limit == MaxRetries * (1 + requeues[i])
    <2>1. attempts[i] + Cardinality(LeftIn(Hands(i))) + RowBudget(item[i]) <= limit
      BY DEF ItemOK, ItemCounts
    <2>2. /\ attempts[i] \in Nat /\ limit \in Nat /\ Cardinality(LeftIn(Hands(i))) \in Nat
          /\ RowBudget(item[i]) \in Nat /\ InWork(item[i]) \in {0, 1}
      BY ItemNumbers
    <2> HIDE DEF limit
    <2>3. 0 <= requeues[i] + InWork(item[i]) /\ attempts[i] + 0 + RowBudget(item[i]) <= limit
      BY <1>2, <2>1, <2>2
    <2> QED BY <2>3, NoHandsCount DEF ItemCounts, limit
  <1> QED BY <1>3, <1>4, <1>5, <1>6 DEF ItemOK

-----------------------------------------------------------------------------
(* WebhookInv is ItemOK of every item, and the shape of the variables.     *)
Shape ==
    /\ item = [i \in Items |-> item[i]]
    /\ task = [w \in Workers |-> [i \in Items |-> task[w][i]]]
    /\ attempts = [i \in Items |-> attempts[i]]
    /\ answered \subseteq Items
    /\ requeues = [i \in Items |-> requeues[i]]

(* In both directions.                                                     *)
LEMMA InvIsItemwise == WebhookInv <=> Shape /\ \A i \in Items : ItemOK(i)
  <1>1. \A i \in Items : /\ Holders(i) = HoldersIn(Hands(i))
                         /\ PostsLeft(i) = LeftIn(Hands(i))
                         /\ \A w \in Workers : Hands(i)[w] = task[w][i]
    BY DEF Holders, HoldersIn, PostsLeft, LeftIn, Hands, Holds
  <1>2. WebhookTypeOK <=> Shape /\ \A i \in Items : ItemTypeOK(i)
    <2>1. WebhookTypeOK <=>
            /\ item \in [Items -> Row] /\ task \in [Workers -> [Items -> Task]]
            /\ attempts \in [Items -> Nat] /\ answered \subseteq Items
            /\ requeues \in [Items -> 0..MaxRequeues]
      BY Zenon DEF WebhookTypeOK, Row, Task
    <2>2. ASSUME WebhookTypeOK
          PROVE  Shape /\ \A i \in Items : ItemTypeOK(i)
      <3>1. Shape
        BY <2>1, <2>2 DEF Shape
      <3>2. \A i \in Items : Hands(i) \in [Workers -> Task]
        BY <2>1, <2>2 DEF Hands
      <3> QED BY <2>1, <2>2, <3>1, <3>2 DEF ItemTypeOK
    <2>3. ASSUME Shape, \A i \in Items : ItemTypeOK(i)
          PROVE  WebhookTypeOK
      <3>1. \A w \in Workers, i \in Items : task[w][i] \in Task
        BY <1>1, <2>3 DEF ItemTypeOK
      <3>2. task \in [Workers -> [Items -> Task]]
        BY <2>3, <3>1 DEF Shape
      <3>3. item \in [Items -> Row] /\ attempts \in [Items -> Nat] /\ requeues \in [Items -> 0..MaxRequeues]
        BY <2>3 DEF Shape, ItemTypeOK
      <3> QED BY <2>1, <2>3, <3>2, <3>3 DEF Shape
    <2> QED BY <2>2, <2>3
  <1>3. DeliveredIsAnswered <=> \A i \in Items : ItemAnswered(i)
    BY <1>1 DEF DeliveredIsAnswered, DoneIsAnswered, ItemAnswered
  <1>4. RetriesBounded <=> \A i \in Items : ItemRetries(i)
    BY <1>1 DEF RetriesBounded, ItemRetries, RowRetryOK
  <1>5. HandsCounted /\ BudgetCovered <=> \A i \in Items : ItemCounts(i)
    BY <1>1 DEF HandsCounted, BudgetCovered, ItemCounts, InWork
  <1> QED BY <1>2, <1>3, <1>4, <1>5 DEF WebhookInv, ItemOK

(* What a step leaves of an item.                                          *)
Untouched(i) ==
    /\ Hands(i)' = Hands(i) /\ item'[i] = item[i]
    /\ attempts'[i] = attempts[i] /\ requeues'[i] = requeues[i]

(* Such an item stays good.                                                *)
LEMMA UntouchedStays ==
    ASSUME NEW i \in Items, ItemOK(i), Untouched(i), answered \subseteq answered'
    PROVE  ItemOK(i)'
  <1>1. item[i] \in Row /\ RowRetryOK(item[i], requeues[i]) /\ (item[i].status = "done" => i \in answered)
    BY DEF ItemOK, ItemTypeOK, ItemRetries, ItemAnswered
  <1>2. InWork(item[i]) \in {0, 1} /\ RowBudget(item[i]) \in Nat
    BY ItemNumbers
  <1> QED BY <1>1, <1>2, RowStep DEF Untouched

(* The task of worker w with item i is replaced.                           *)
LEMMA TaskReplaced ==
    ASSUME Shape, NEW w \in Workers, NEW i \in Items, NEW t,
           task' = [task EXCEPT ![w][i] = t]
    PROVE  /\ Hands(i)' = [Hands(i) EXCEPT ![w] = t]
           /\ \A j \in Items : j # i => Hands(j)' = Hands(j)
           /\ task' = [v \in Workers |-> [j \in Items |-> task'[v][j]]]
           /\ Hands(i)[w] = task[w][i]
  <1>1. \A v \in Workers, j \in Items : task'[v][j] = IF v = w /\ j = i THEN t ELSE task[v][j]
    BY DEF Shape
  <1>2. task' = [v \in Workers |-> [j \in Items |-> task'[v][j]]]
    BY DEF Shape
  <1>3. Hands(i)' = [v \in Workers |-> task'[v][i]] /\ \A j \in Items : Hands(j)' = [v \in Workers |-> task'[v][j]]
    BY DEF Hands
  <1> QED BY <1>1, <1>2, <1>3, ZenonT(60) DEF Hands

(* The facts about one item and one hand that the steps below need.        *)
LEMMA HandFacts ==
    ASSUME WebhookInv, NEW w \in Workers, NEW i \in Items
    PROVE  /\ Shape /\ ItemOK(i)
           /\ item[i] \in Row /\ task[w][i] \in Task /\ Hands(i)[w] = task[w][i]
           /\ attempts[i] \in Nat /\ requeues[i] \in Nat /\ requeues[i] <= MaxRequeues
           /\ task[w][i].retry \in Nat /\ item[i].retry \in Nat
           /\ task[w][i].retry < MaxRetries + requeues[i]
           /\ RowRetryOK(item[i], requeues[i])
           /\ item[i].status = "done" \/ task[w][i].stage = "delivered" => i \in answered
           /\ RowBudget(item[i]) \in Nat
  <1>1. Shape /\ ItemOK(i)
    BY InvIsItemwise
  <1>2. Hands(i)[w] = task[w][i]
    BY DEF Hands
  <1>3. item[i] \in Row /\ task[w][i] \in Task /\ requeues[i] \in 0..MaxRequeues
    BY <1>1, <1>2 DEF ItemOK, ItemTypeOK
  <1>4. task[w][i].retry \in Nat /\ item[i].retry \in Nat /\ requeues[i] <= MaxRequeues
    BY <1>3, Constants DEF Row, Task
  <1>5. attempts[i] \in Nat /\ requeues[i] \in Nat /\ RowBudget(item[i]) \in Nat
    BY <1>1, ItemNumbers
  <1> QED BY <1>1, <1>2, <1>3, <1>4, <1>5 DEF ItemOK, ItemRetries, ItemAnswered

(* WebhookInv after a step, from its items.                                *)
LEMMA InvAfter ==
    ASSUME Shape', \A i \in Items : ItemOK(i)'
    PROVE  WebhookInv'
  <1>1. (Shape /\ \A i \in Items : ItemOK(i))'
    OBVIOUS
  <1> QED BY <1>1, InvIsItemwise, PTL

(* A step of worker w with item i, which leaves it task t, row r and n     *)
(* POSTs: HandStep for it, and the other items are untouched.              *)
LEMMA WorkerStepGood ==
    ASSUME WebhookInv, NEW w \in Workers, NEW i \in Items,
           NEW t \in Task, NEW r \in Row, NEW n \in Nat,
           task' = [task EXCEPT ![w][i] = t],
           item' = [item EXCEPT ![i] = r],
           attempts' = [attempts EXCEPT ![i] = n],
           requeues' = requeues,
           answered \subseteq answered', answered' \subseteq Items,
           t.stage = "delivered" \/ r.status = "done" => i \in answered',
           RowRetryOK(r, requeues[i]), t.retry < MaxRetries + requeues[i],
           InHand(t) - InHand(task[w][i]) <= InWork(r) - InWork(item[i]),
           n + HandBudget(t) + RowBudget(r) <= attempts[i] + HandBudget(task[w][i]) + RowBudget(item[i])
    PROVE  WebhookInv'
  <1>1. Shape /\ \A j \in Items : ItemOK(j)
    BY InvIsItemwise
  <1>2. /\ Hands(i)' = [Hands(i) EXCEPT ![w] = t]
        /\ \A j \in Items : j # i => Hands(j)' = Hands(j)
        /\ task' = [v \in Workers |-> [j \in Items |-> task'[v][j]]]
        /\ Hands(i)[w] = task[w][i]
    BY <1>1, TaskReplaced
  <1>3. /\ item'[i] = r /\ attempts'[i] = n
        /\ \A j \in Items : j # i => item'[j] = item[j] /\ attempts'[j] = attempts[j]
        /\ item' = [j \in Items |-> item'[j]] /\ attempts' = [j \in Items |-> attempts'[j]]
    BY <1>1 DEF Shape
  <1>4. ItemOK(i)'
    BY <1>1, <1>2, <1>3, HandStep
  <1>5. \A j \in Items : j # i => Untouched(j)
    BY <1>2, <1>3 DEF Untouched
  <1>6. \A j \in Items : j # i => ItemOK(j)'
    BY <1>1, <1>5, UntouchedStays
  <1>7. Shape'
    BY <1>1, <1>2, <1>3 DEF Shape
  <1> QED BY <1>4, <1>6, <1>7, InvAfter

(* What stays of the tables can be written as a replacement.               *)
LEMMA SameRow ==
    ASSUME Shape, NEW i \in Items
    PROVE  item = [item EXCEPT ![i] = item[i]] /\ attempts = [attempts EXCEPT ![i] = attempts[i]]
  BY DEF Shape

(* The task of Become.                                                     *)
LEMMA BecomeTask ==
    ASSUME Shape, NEW w \in Workers, NEW i \in Items, task[w][i] \in Task,
           NEW stage \in {"posting", "delivered", "failing"}, Become(w, i, stage)
    PROVE  \E t \in Task : /\ t.stage = stage /\ t.retry = task[w][i].retry
                           /\ task' = [task EXCEPT ![w][i] = t]
  <1> DEFINE t == [task[w][i] EXCEPT !.stage = stage]
  <1>1. t \in Task /\ t.stage = stage /\ t.retry = task[w][i].retry
    BY DEF Task
  <1>2. task' = [task EXCEPT ![w][i] = t]
    BY DEF Become
  <1> HIDE DEF t
  <1> QED BY <1>1, <1>2

(* deliverOne starts, or gives up without a POST.                          *)
LEMMA StartGood ==
    ASSUME WebhookInv, NEW w \in Workers, NEW i \in Items, StartDelivery(w, i)
    PROVE  WebhookInv'
  <1>1. PICK stage \in {"posting", "failing"} : Become(w, i, stage)
    BY DEF StartDelivery
  <1>2. task[w][i] \in Task /\ Shape
    BY HandFacts
  <1>3. PICK t \in Task : /\ t.stage = stage /\ t.retry = task[w][i].retry
                          /\ task' = [task EXCEPT ![w][i] = t]
    BY <1>1, <1>2, BecomeTask
  <1>4. InHand(t) = 1 /\ InHand(task[w][i]) = 1 /\ HandBudget(t) <= HandBudget(task[w][i])
    BY <1>1, <1>3, HandFacts, Constants DEF InHand, HandBudget, StartDelivery
  <1>5. HandBudget(t) \in Nat /\ HandBudget(task[w][i]) \in Nat /\ InWork(item[i]) \in {0, 1}
    BY <1>2, <1>3, HandBudgetType, Constants DEF InWork
  <1>6. /\ item' = [item EXCEPT ![i] = item[i]] /\ attempts' = [attempts EXCEPT ![i] = attempts[i]]
        /\ requeues' = requeues /\ answered' = answered /\ answered \subseteq Items
    BY <1>2, SameRow DEF StartDelivery, Shape
  <1>7. /\ InHand(t) - InHand(task[w][i]) <= InWork(item[i]) - InWork(item[i])
        /\ attempts[i] + HandBudget(t) + RowBudget(item[i])
              <= attempts[i] + HandBudget(task[w][i]) + RowBudget(item[i])
    BY <1>4, <1>5, HandFacts
  <1>8. /\ item[i] \in Row /\ attempts[i] \in Nat
        /\ t.stage = "delivered" \/ item[i].status = "done" => i \in answered'
        /\ RowRetryOK(item[i], requeues[i]) /\ t.retry < MaxRetries + requeues[i]
    BY <1>1, <1>3, <1>6, HandFacts
  <1> QED BY <1>3, <1>6, <1>7, <1>8, WorkerStepGood

(* A POST uses up one of those that were left.                             *)
LEMMA PostGood ==
    ASSUME WebhookInv, NEW w \in Workers, NEW i \in Items, Post(w, i)
    PROVE  WebhookInv'
  <1>1. PICK stage \in {"delivered", "failing"} :
           Become(w, i, stage) /\ (stage = "delivered" => i \in answered')
    BY DEF Post
  <1>2. task[w][i] \in Task /\ Shape
    BY HandFacts
  <1>3. PICK t \in Task : /\ t.stage = stage /\ t.retry = task[w][i].retry
                          /\ task' = [task EXCEPT ![w][i] = t]
    BY <1>1, <1>2, BecomeTask
  <1>4. InHand(t) = 1 /\ InHand(task[w][i]) = 1 /\ HandBudget(t) + 1 <= HandBudget(task[w][i])
    BY <1>1, <1>3, HandFacts, Constants DEF InHand, HandBudget, Post
  <1>5. HandBudget(t) \in Nat /\ HandBudget(task[w][i]) \in Nat /\ InWork(item[i]) \in {0, 1}
    BY <1>2, <1>3, HandBudgetType, Constants DEF InWork
  <1>6. /\ item' = [item EXCEPT ![i] = item[i]] /\ attempts' = [attempts EXCEPT ![i] = attempts[i] + 1]
        /\ requeues' = requeues /\ answered \subseteq answered' /\ answered' \subseteq Items
    BY <1>2, SameRow DEF Post, Shape
  <1>7. /\ InHand(t) - InHand(task[w][i]) <= InWork(item[i]) - InWork(item[i])
        /\ (attempts[i] + 1) + HandBudget(t) + RowBudget(item[i])
              <= attempts[i] + HandBudget(task[w][i]) + RowBudget(item[i])
    BY <1>4, <1>5, HandFacts
  <1>8. /\ item[i] \in Row /\ attempts[i] + 1 \in Nat
        /\ t.stage = "delivered" \/ item[i].status = "done" => i \in answered'
        /\ RowRetryOK(item[i], requeues[i]) /\ t.retry < MaxRetries + requeues[i]
    BY <1>1, <1>3, <1>6, HandFacts
  <1> QED BY <1>3, <1>6, <1>7, <1>8, WorkerStepGood

(* A release: the row r that is written may only be worth what the hand    *)
(* and the row before were.                                                *)
LEMMA ReleaseGood ==
    ASSUME WebhookInv, NEW w \in Workers, NEW i \in Items, NEW r \in Row, Release(w, i),
           task[w][i].stage # "none", item' = [item EXCEPT ![i] = r],
           UNCHANGED <<attempts, answered, requeues>>,
           r.status = "done" => i \in answered, RowRetryOK(r, requeues[i]),
           RowBudget(r) <= HandBudget(task[w][i]) + RowBudget(item[i])
    PROVE  WebhookInv'
  <1>1. NoTask \in Task /\ NoTask.stage = "none" /\ NoTask.retry = 0
    BY Constants DEF NoTask, Task
  <1>2. InHand(NoTask) = 0 /\ HandBudget(NoTask) = 0 /\ InHand(task[w][i]) = 1
    BY <1>1 DEF InHand, HandBudget
  <1>3. /\ HandBudget(task[w][i]) \in Nat /\ InWork(item[i]) \in {0, 1} /\ InWork(r) \in {0, 1}
        /\ RowBudget(r) \in Nat
    BY HandFacts, HandBudgetType, RowBudgetType, Constants
  <1>4. task' = [task EXCEPT ![w][i] = NoTask]
    BY DEF Release
  <1>5. /\ Shape /\ attempts[i] \in Nat /\ requeues[i] \in Nat /\ RowBudget(item[i]) \in Nat
    BY HandFacts
  <1>6. attempts' = [attempts EXCEPT ![i] = attempts[i]] /\ answered \subseteq Items
    BY <1>5, SameRow DEF Shape
  <1>7. /\ InHand(NoTask) - InHand(task[w][i]) <= InWork(r) - InWork(item[i])
        /\ attempts[i] + HandBudget(NoTask) + RowBudget(r)
              <= attempts[i] + HandBudget(task[w][i]) + RowBudget(item[i])
    BY <1>2, <1>3, <1>5
  <1>8. NoTask.retry < MaxRetries + requeues[i] /\ NoTask.stage # "delivered"
    BY <1>1, <1>5, Constants
  <1> QED BY <1>1, <1>4, <1>5, <1>6, <1>7, <1>8, WorkerStepGood

(* MarkOutboxDone: a row that is done is worth nothing.                    *)
LEMMA DoneGood ==
    ASSUME WebhookInv, NEW w \in Workers, NEW i \in Items, MarkOutboxDone(w, i)
    PROVE  WebhookInv'
  <1> DEFINE r == [item[i] EXCEPT !.status = "done"]
  <1>1. Shape /\ item[i] \in Row /\ task[w][i] \in Task /\ i \in answered
    BY HandFacts DEF MarkOutboxDone
  <1>2. r \in Row /\ r.status = "done" /\ r.retry = item[i].retry
    BY <1>1 DEF Row
  <1>3. item' = [item EXCEPT ![i] = r]
    BY <1>1 DEF MarkOutboxDone, Shape
  <1> HIDE DEF r
  <1>4. RowRetryOK(r, requeues[i]) /\ RowBudget(r) = 0
    BY <1>2, HandFacts DEF RowRetryOK, RowBudget
  <1>5. RowBudget(r) <= HandBudget(task[w][i]) + RowBudget(item[i])
    BY <1>1, <1>4, HandBudgetType, RowBudgetType, Constants
  <1>6. Release(w, i) /\ task[w][i].stage # "none" /\ UNCHANGED <<attempts, answered, requeues>>
    BY DEF MarkOutboxDone
  <1> QED BY <1>1, <1>2, <1>3, <1>4, <1>5, <1>6, ReleaseGood

(* failItem: the row is worth what the hand was, and what another worker   *)
(* wrote into it is lost.                                                  *)
LEMMA FailGood ==
    ASSUME WebhookInv, NEW w \in Workers, NEW i \in Items, failItem(w, i)
    PROVE  WebhookInv'
  <1> DEFINE retry == task[w][i].retry + 1
             r == [status |-> IF retry >= MaxRetries THEN "failed" ELSE "pending", retry |-> retry, due |-> FALSE]
  <1>1. /\ task[w][i] \in Task /\ item[i] \in Row /\ task[w][i].retry \in Nat /\ task[w][i].stage = "failing"
        /\ task[w][i].retry < MaxRetries + requeues[i] /\ requeues[i] <= MaxRequeues /\ requeues[i] \in Nat
    BY HandFacts DEF failItem
  <1>2. retry \in 0..MaxRetryCount /\ retry \in Nat
    BY <1>1, Constants
  <1>3. r \in Row /\ r.retry = retry /\ r.status = IF retry >= MaxRetries THEN "failed" ELSE "pending"
    <2> HIDE DEF retry
    <2> QED BY <1>2 DEF Row
  <1>4. item' = [item EXCEPT ![i] = r]
    BY DEF failItem
  <1> HIDE DEF r
  <1>5. RowRetryOK(r, requeues[i])
    BY <1>1, <1>3, Constants DEF RowRetryOK
  <1>6. RowBudget(r) = HandBudget(task[w][i])
    <2>1. CASE retry >= MaxRetries
      BY <1>1, <1>3, <2>1, Constants DEF RowBudget, HandBudget
    <2>2. CASE ~(retry >= MaxRetries)
      BY <1>1, <1>3, <2>2, Constants DEF RowBudget, HandBudget
    <2> QED BY <2>1, <2>2
  <1>7. RowBudget(r) <= HandBudget(task[w][i]) + RowBudget(item[i])
    BY <1>1, <1>6, HandBudgetType, RowBudgetType, Constants
  <1>8. r.status # "done"
    BY <1>3
  <1>9. Release(w, i) /\ task[w][i].stage # "none" /\ UNCHANGED <<attempts, answered, requeues>>
    BY DEF failItem
  <1> QED BY <1>3, <1>4, <1>5, <1>7, <1>8, <1>9, ReleaseGood

(* The row stays when its UPDATE fails.                                    *)
LEMMA ErrorGood ==
    ASSUME WebhookInv, NEW w \in Workers, NEW i \in Items, MarkError(w, i)
    PROVE  WebhookInv'
  <1>1. /\ Shape /\ item[i] \in Row /\ task[w][i] \in Task /\ RowRetryOK(item[i], requeues[i])
        /\ item[i].status = "done" => i \in answered
    BY HandFacts
  <1>2. item' = [item EXCEPT ![i] = item[i]]
    BY <1>1, SameRow DEF MarkError
  <1>3. RowBudget(item[i]) <= HandBudget(task[w][i]) + RowBudget(item[i])
    BY <1>1, HandBudgetType, RowBudgetType, Constants
  <1>4. Release(w, i) /\ task[w][i].stage # "none" /\ UNCHANGED <<attempts, answered, requeues>>
    BY DEF MarkError
  <1> QED BY <1>1, <1>2, <1>3, <1>4, ReleaseGood

(* ClaimOutboxBatch: an item of the batch was pending, and what its row    *)
(* was worth is in the hand now; the worker's hands were empty.            *)
LEMMA ClaimGood ==
    ASSUME WebhookInv, NEW w \in Workers, ClaimOutboxBatch(w)
    PROVE  WebhookInv'
  <1> DEFINE batch == FirstIds(Claimable)
             got(i) == IF i \in batch THEN [stage |-> "claimed", retry |-> item[i].retry] ELSE NoTask
             row(i) == IF i \in batch THEN [item[i] EXCEPT !.status = "processing"] ELSE item[i]
  <1>1. /\ item' = [i \in Items |-> row(i)]
        /\ task' = [task EXCEPT ![w] = [i \in Items |-> got(i)]]
        /\ UNCHANGED <<attempts, answered, requeues>>
        /\ \A i \in Items : task[w][i].stage = "none"
    BY DEF ClaimOutboxBatch, Holds
  <1>2. \A i \in batch : item[i].status = "pending"
    BY DEF FirstIds, Claimable
  <1> HIDE DEF batch
  <1>3. Shape /\ \A i \in Items : ItemOK(i)
    BY InvIsItemwise
  <1>4. ASSUME NEW i \in Items
        PROVE  Hands(i)' = [Hands(i) EXCEPT ![w] = got(i)]
    <2> HIDE DEF got
    <2>1. \A v \in Workers : task'[v][i] = IF v = w THEN got(i) ELSE task[v][i]
      BY <1>1, <1>3 DEF Shape
    <2> QED BY <2>1 DEF Hands
  <1>5. Shape'
    <2> HIDE DEF got, row
    <2> QED BY <1>1, <1>3 DEF Shape
  <1>6. ASSUME NEW i \in Items
        PROVE  ItemOK(i)'
    <2>1. /\ item[i] \in Row /\ task[w][i] \in Task /\ Hands(i)[w] = task[w][i]
          /\ attempts[i] \in Nat /\ requeues[i] \in Nat /\ item[i].retry \in Nat
          /\ RowRetryOK(item[i], requeues[i]) /\ ItemOK(i)
          /\ item[i].status = "done" => i \in answered
          /\ RowBudget(item[i]) \in Nat
      BY HandFacts
    <2>2. InHand(Hands(i)[w]) = 0 /\ HandBudget(Hands(i)[w]) = 0
      BY <1>1, <2>1 DEF InHand, HandBudget
    <2>3. CASE i \in batch
      <3> DEFINE t == [stage |-> "claimed", retry |-> item[i].retry]
                 r == [item[i] EXCEPT !.status = "processing"]
      <3>1. t \in Task /\ t.stage = "claimed" /\ t.retry = item[i].retry
        BY <2>1 DEF Task, Row
      <3>2. r \in Row /\ r.status = "processing" /\ r.retry = item[i].retry
        BY <2>1 DEF Row
      <3>3. Hands(i)' = [Hands(i) EXCEPT ![w] = t] /\ item'[i] = r
        BY <1>1, <1>4, <2>3
      <3> HIDE DEF t, r
      <3>4. InHand(t) = 1 /\ InWork(r) = 1 /\ InWork(item[i]) = 0
        BY <1>2, <2>3, <3>1, <3>2 DEF InHand, InWork
      <3>5. HandBudget(t) = RowBudget(item[i]) /\ RowBudget(r) = 0
        BY <1>2, <2>1, <2>3, <3>1, <3>2, Constants DEF HandBudget, RowBudget
      <3>6. item[i].retry < MaxRetries + requeues[i] /\ RowRetryOK(r, requeues[i])
        BY <1>2, <2>1, <2>3, <3>2, Constants DEF RowRetryOK
      <3>7. /\ InHand(t) - InHand(Hands(i)[w]) <= InWork(item'[i]) - InWork(item[i])
            /\ attempts'[i] + HandBudget(t) + RowBudget(item'[i])
                  <= attempts[i] + HandBudget(Hands(i)[w]) + RowBudget(item[i])
        BY <1>1, <2>1, <2>2, <3>3, <3>4, <3>5
      <3> QED BY <1>1, <2>1, <3>1, <3>2, <3>3, <3>6, <3>7, HandStep
    <2>4. CASE i \notin batch
      <3>1. NoTask \in Task /\ NoTask.stage = "none" /\ NoTask.retry = 0
        BY Constants DEF NoTask, Task
      <3>2. Hands(i)' = [Hands(i) EXCEPT ![w] = NoTask] /\ item'[i] = item[i]
        BY <1>1, <1>4, <2>4
      <3>3. InHand(NoTask) = 0 /\ HandBudget(NoTask) = 0 /\ InWork(item[i]) \in {0, 1}
        BY <3>1 DEF InHand, HandBudget, InWork
      <3>4. /\ InHand(NoTask) - InHand(Hands(i)[w]) <= InWork(item'[i]) - InWork(item[i])
            /\ attempts'[i] + HandBudget(NoTask) + RowBudget(item'[i])
                  <= attempts[i] + HandBudget(Hands(i)[w]) + RowBudget(item[i])
        BY <1>1, <2>1, <2>2, <3>2, <3>3
      <3>5. NoTask.retry < MaxRetries + requeues[i]
        BY <2>1, <3>1, Constants
      <3> QED BY <1>1, <2>1, <3>1, <3>2, <3>4, <3>5, HandStep
    <2> QED BY <2>3, <2>4
  <1> QED BY <1>5, <1>6, InvAfter

-----------------------------------------------------------------------------
(* The steps that change rows only.                                        *)
FreshRow == [status |-> "pending", retry |-> 0, due |-> TRUE]

(* A new row is worth what no row is.                                      *)
LEMMA FreshRowFacts ==
    ASSUME NEW n \in Nat
    PROVE  /\ FreshRow \in Row /\ FreshRow.status = "pending" /\ RowRetryOK(FreshRow, n)
           /\ InWork(FreshRow) = 0 /\ InWork(NoRow) = 0
           /\ RowBudget(FreshRow) = MaxRetries /\ RowBudget(NoRow) = MaxRetries
  <1>1. FreshRow \in Row /\ FreshRow.status = "pending" /\ FreshRow.retry = 0 /\ NoRow.status = "none"
    BY Constants DEF FreshRow, Row, NoRow
  <1> QED BY <1>1, Constants DEF RowRetryOK, InWork, RowBudget

(* InsertOutboxTx, once or for several rows (POST /webhook/bench/enqueue). *)
LEMMA EnqueueGood ==
    ASSUME WebhookInv, NEW ids \in SUBSET Items, BenchEnqueue(ids)
    PROVE  WebhookInv'
  <1>1. Shape /\ \A i \in Items : ItemOK(i)
    BY InvIsItemwise
  <1>2. /\ \A i \in ids : item[i] = NoRow
        /\ item' = [i \in Items |-> IF i \in ids THEN FreshRow ELSE item[i]]
        /\ UNCHANGED <<task, attempts, answered, requeues>>
    BY DEF BenchEnqueue, FreshRow
  <1>3. Shape' /\ \A i \in Items : Hands(i)' = Hands(i)
    BY <1>1, <1>2 DEF Shape, Hands
  <1>4. ASSUME NEW i \in Items
        PROVE  ItemOK(i)'
    <2>1. CASE i \in ids
      <3>1. requeues[i] \in Nat /\ item'[i] = FreshRow /\ item[i] = NoRow
        BY <1>1, <1>2, <2>1, ItemNumbers
      <3>2. /\ FreshRow \in Row /\ FreshRow.status # "done" /\ RowRetryOK(FreshRow, requeues[i])
            /\ InWork(FreshRow) >= InWork(NoRow) /\ RowBudget(FreshRow) <= RowBudget(NoRow)
        BY <3>1, FreshRowFacts, Constants
      <3> QED BY <1>1, <1>2, <1>3, <3>1, <3>2, RowStep
    <2>2. CASE i \notin ids
      BY <1>1, <1>2, <1>3, <2>2, UntouchedStays DEF Untouched
    <2> QED BY <2>1, <2>2
  <1> QED BY <1>3, <1>4, InvAfter

(* One row is BenchEnqueue of one.                                         *)
LEMMA InsertGood ==
    ASSUME WebhookInv, NEW i \in Items, InsertOutbox(i)
    PROVE  WebhookInv'
  <1>1. Shape
    BY InvIsItemwise
  <1>2. BenchEnqueue({i})
    BY <1>1 DEF InsertOutbox, BenchEnqueue, Shape
  <1> QED BY <1>2, EnqueueGood

(* A row that becomes due keeps its worth.                                 *)
LEMMA DueGood ==
    ASSUME WebhookInv, NEW i \in Items, BecomeDue(i)
    PROVE  WebhookInv'
  <1> DEFINE r == [item[i] EXCEPT !.due = TRUE]
  <1>1. Shape /\ \A j \in Items : ItemOK(j)
    BY InvIsItemwise
  <1>2. item[i] \in Row /\ RowRetryOK(item[i], requeues[i])
    BY <1>1 DEF ItemOK, ItemTypeOK, ItemRetries
  <1>3. r \in Row /\ r.status = item[i].status /\ r.retry = item[i].retry /\ item[i].status = "pending"
    BY <1>2 DEF Row, BecomeDue
  <1>4. item' = [item EXCEPT ![i] = r] /\ UNCHANGED <<task, attempts, answered, requeues>>
    BY <1>1 DEF BecomeDue, Shape
  <1> HIDE DEF r
  <1>5. RowRetryOK(r, requeues[i]) /\ InWork(r) = InWork(item[i]) /\ RowBudget(r) = RowBudget(item[i])
    BY <1>2, <1>3 DEF RowRetryOK, InWork, RowBudget
  <1>6. Shape' /\ \A j \in Items : Hands(j)' = Hands(j)
    BY <1>1, <1>4 DEF Shape, Hands
  <1>7. /\ item'[i] = r /\ \A j \in Items : j # i => item'[j] = item[j]
    BY <1>1, <1>4 DEF Shape
  <1>8. InWork(r) >= InWork(item[i]) /\ RowBudget(r) <= RowBudget(item[i])
    BY <1>1, <1>5, ItemNumbers
  <1>9. ItemOK(i)'
    BY <1>1, <1>3, <1>4, <1>5, <1>6, <1>7, <1>8, RowStep
  <1>10. \A j \in Items : j # i => ItemOK(j)'
    BY <1>1, <1>4, <1>6, <1>7, UntouchedStays DEF Untouched
  <1> QED BY <1>6, <1>9, <1>10, InvAfter

(* POST /webhook/outbox/:id/requeue.                                       *)
LEMMA RequeueGood ==
    ASSUME WebhookInv, NEW i \in Items, RequeueOutbox(i)
    PROVE  WebhookInv'
  <1>1. Shape /\ \A j \in Items : ItemOK(j)
    BY InvIsItemwise
  <1>2. /\ item'[i] = [item[i] EXCEPT !.status = "pending", !.due = TRUE]
        /\ requeues'[i] = requeues[i] + 1
        /\ \A j \in Items : j # i => item'[j] = item[j] /\ requeues'[j] = requeues[j]
        /\ item' = [j \in Items |-> item'[j]] /\ requeues' = [j \in Items |-> requeues'[j]]
        /\ UNCHANGED <<task, attempts, answered>>
    BY <1>1 DEF RequeueOutbox, Shape
  <1>3. Shape' /\ \A j \in Items : Hands(j)' = Hands(j)
    BY <1>1, <1>2 DEF Shape, Hands
  <1>4. ItemOK(i)'
    BY <1>1, <1>2, <1>3, RequeueStep DEF RequeueOutbox
  <1>5. \A j \in Items : j # i => ItemOK(j)'
    BY <1>1, <1>2, <1>3, UntouchedStays DEF Untouched
  <1> QED BY <1>3, <1>4, <1>5, InvAfter

(* The process stops.                                                      *)
LEMMA RestartGood ==
    ASSUME WebhookInv, Restart
    PROVE  WebhookInv'
  <1>1. Shape /\ \A j \in Items : ItemOK(j)
    BY InvIsItemwise
  <1>2. Shape' /\ UNCHANGED <<item, attempts, answered, requeues>>
    BY <1>1 DEF Restart, Shape
  <1>3. \A i \in Items : Hands(i)' = NoHands
    BY DEF Restart, Hands, NoHands
  <1>4. \A i \in Items : ItemOK(i)'
    BY <1>1, <1>2, <1>3, RestartStep
  <1> QED BY <1>2, <1>4, InvAfter

-----------------------------------------------------------------------------
(* The invariant holds at the start, ...                                   *)
LEMMA WebhookInvInit == WebhookInit => WebhookInv
  <1> SUFFICES ASSUME WebhookInit
               PROVE  WebhookInv
    OBVIOUS
  <1>1. Shape
    BY DEF WebhookInit, Shape
  <1>2. ASSUME NEW i \in Items
        PROVE  ItemOK(i)
    <2>1. item[i] = NoRow /\ attempts[i] = 0 /\ requeues[i] = 0 /\ Hands(i) = NoHands
      BY DEF WebhookInit, Hands, NoHands
    <2>2. NoRow \in Row /\ NoRow.status = "none" /\ NoRow.retry = 0 /\ RowBudget(NoRow) = MaxRetries /\ InWork(NoRow) = 0
      BY Constants DEF NoRow, Row, RowBudget, InWork
    <2>3. NoTask.stage = "none" /\ NoTask.retry = 0 /\ \A w \in Workers : NoHands[w] = NoTask
      BY DEF NoTask, NoHands
    <2>4. ItemTypeOK(i)
      BY <2>1, <2>2, NoHandsCount, Constants DEF ItemTypeOK
    <2>5. ItemAnswered(i)
      BY <2>1, <2>2, <2>3 DEF ItemAnswered
    <2>6. ItemRetries(i)
      BY <2>1, <2>2, <2>3, Constants DEF ItemRetries, RowRetryOK
    <2>7. ItemCounts(i)
      <3>1. 0 + 0 + MaxRetries <= MaxRetries * (1 + 0)
        BY Constants
      <3> QED BY <2>1, <2>2, <3>1, NoHandsCount DEF ItemCounts
    <2> QED BY <2>4, <2>5, <2>6, <2>7 DEF ItemOK
  <1> QED BY <1>1, <1>2, InvIsItemwise

(* ... and every step preserves it.                                        *)
LEMMA WebhookInvNext == WebhookInv /\ [WebhookNext]_webhookVars => WebhookInv'
  <1> SUFFICES ASSUME WebhookInv, [WebhookNext]_webhookVars
               PROVE  WebhookInv'
    OBVIOUS
  <1>1. CASE UNCHANGED webhookVars
    <2>1. Shape /\ \A j \in Items : ItemOK(j)
      BY InvIsItemwise
    <2>2. Shape' /\ \A j \in Items : Untouched(j)
      BY <1>1, <2>1 DEF webhookVars, Shape, Untouched, Hands
    <2> QED BY <1>1, <2>1, <2>2, UntouchedStays, InvAfter DEF webhookVars
  <1>2. CASE HandleWebhookAdmin
    BY <1>2, EnqueueGood, RequeueGood DEF HandleWebhookAdmin
  <1>3. CASE \E i \in Items : InsertOutbox(i) \/ BecomeDue(i)
    BY <1>3, InsertGood, DueGood
  <1>4. ASSUME NEW w \in Workers, WorkerStep(w) \/ \E i \in Items : MarkError(w, i)
        PROVE  WebhookInv'
    BY <1>4, ClaimGood, StartGood, PostGood, DoneGood, FailGood, ErrorGood DEF WorkerStep
  <1>5. CASE Restart
    BY <1>5, RestartGood
  <1> QED BY <1>1, <1>2, <1>3, <1>4, <1>5 DEF WebhookNext

(* Every behaviour keeps WebhookInv, with the types, whatever the          *)
(* merchants answer and whenever the process restarts.                     *)
THEOREM WebhookInvariant == WebhookSpec => []WebhookInv
  BY WebhookInvInit, WebhookInvNext, PTL DEF WebhookSpec

(* ClaimOutboxBatch (store.go) hands an item to one worker at a time, but  *)
(* for each time an administrator requeued it under a worker's hands.      *)
THEOREM ClaimsAreExclusive == WebhookSpec => []InOneHand
  <1>1. WebhookInv => InOneHand
    <2> SUFFICES ASSUME WebhookInv, NEW i \in Items
                 PROVE  /\ Cardinality(Holders(i)) <= 1 + requeues[i]
                        /\ item[i].status \in {"pending", "done", "failed"} => Cardinality(Holders(i)) <= requeues[i]
      BY DEF InOneHand, Holders
    <2>1. /\ IsFiniteSet(Holders(i)) /\ requeues[i] \in Nat
          /\ Cardinality(Holders(i)) <= requeues[i] + IF item[i].status = "processing" THEN 1 ELSE 0
      BY Constants DEF WebhookInv, HandsCounted, WebhookTypeOK
    <2>2. Cardinality(Holders(i)) \in Nat
      BY <2>1, FS_CardinalityType
    <2> QED BY <2>1, <2>2
  <1> QED BY <1>1, WebhookInvariant, PTL

(* At least once: what is marked done was answered with 2xx, although      *)
(* MarkOutboxDone and failItem write by id, whatever the row says by then. *)
THEOREM DoneWasAnswered == WebhookSpec => []DoneIsAnswered
  <1>1. WebhookInv => DoneIsAnswered
    BY DEF WebhookInv, DeliveredIsAnswered
  <1> QED BY <1>1, WebhookInvariant, PTL

(* max_retries bounds the POSTs of an item, per requeue, although failItem *)
(* writes back the retry_count that was claimed and a requeue does not     *)
(* reset it.                                                               *)
THEOREM PostsAreBounded == WebhookSpec => []RetryBudget
  <1>1. WebhookInv => RetryBudget
    <2> SUFFICES ASSUME WebhookInv, NEW i \in Items
                 PROVE  attempts[i] <= MaxRetries * (1 + requeues[i])
      BY DEF RetryBudget
    <2> DEFINE limit == MaxRetries * (1 + requeues[i])
    <2>1. ItemOK(i)
      BY InvIsItemwise
    <2>2. attempts[i] + Cardinality(LeftIn(Hands(i))) + RowBudget(item[i]) <= limit
      BY <2>1 DEF ItemOK, ItemCounts
    <2>3. /\ attempts[i] \in Nat /\ limit \in Nat /\ Cardinality(LeftIn(Hands(i))) \in Nat
          /\ RowBudget(item[i]) \in Nat
      BY <2>1, ItemNumbers
    <2> HIDE DEF limit
    <2>4. attempts[i] <= limit
      BY <2>2, <2>3
    <2> QED BY <2>4 DEF limit
  <1> QED BY <1>1, WebhookInvariant, PTL
=============================================================================
