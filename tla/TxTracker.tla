------------------------------ MODULE TxTracker -----------------------------
(***************************************************************************)
(* Following transactions to their end (tx/tracker.go and its statements   *)
(* in store.go).  Tracker.pollLoop and callers of RefreshOne run trackOne  *)
(* concurrently, each on a copy of a row it read earlier, while calls send *)
(* and replace transactions and the chain mines, reorganises and forgets   *)
(* them.  What a confirmed or failed withdrawal does to the ledger is in   *)
(* Withdraw; tx_status_outbox, whose consumer only logs, is left out.      *)
(*                                                                         *)
(* Time is left out: a row may be old enough to be dropped whenever its    *)
(* receipt is missing.                                                     *)
(***************************************************************************)
EXTENDS TxNode

CONSTANT Trackers   \* Poll and the callers of RefreshOne

Poll == "poll"

ASSUME TrackerAssumption == Poll \in Trackers

VARIABLE tracker   \* the trackOne calls under way: the row copied, the status to write, the siblings to mark

trackVars == <<signed, row, node, tracker>>

Resting == [pc |-> "idle", tx |-> 0, status |-> "none", found |-> {}]

TxTrackerInit ==
    /\ signed = <<>>
    /\ row = [h \in Hashes |-> NoTx]
    /\ node = [h \in Hashes |-> "unknown"]
    /\ tracker = [t \in Trackers |-> Resting]

-----------------------------------------------------------------------------
(* The rest of the system: a call signs a transaction, perhaps for a nonce *)
(* that was used, and writes its row; it is broadcast, and the row marked  *)
(* unless the answer is lost (TxSend); the chain moves.                    *)
NewTx(nonce) ==
    /\ Len(signed) < MaxCalls
    /\ signed' = Append(signed, [from |-> Custodial, nonce |-> nonce, key |-> NoKey, again |-> \E g \in Signed : signed[g].nonce = nonce])
    /\ row' = [row EXCEPT ![Len(signed')] = NewRow(Len(signed'))]
    /\ UNCHANGED <<node, tracker>>

Broadcast(h) ==
    /\ row[h].status \in Broadcasting
    /\ CanAccept(h)
    /\ node' = Accepted(h)
    /\ row' \in {row, Mark(h, "pending")}
    /\ UNCHANGED <<signed, tracker>>

ChainStep(h) ==
    /\ Mine(h, "mined") \/ Mine(h, "reverted") \/ Finalise(h) \/ Reorganise(h) \/ Evict(h)
    /\ UNCHANGED <<signed, row, tracker>>

-----------------------------------------------------------------------------
(* Mutant: only rows that are pending already (ListPending).               *)
TrackablePending(h) == row[h].status = "pending"

(* ListTrackable, and the guard of RefreshOne.                             *)
Trackable(h) == row[h].status \in Broadcasting \union {"pending"}

BeginTrack(t, h) ==
    /\ tracker[t].pc = "idle"
    /\ Trackable(h)
    /\ tracker' = [tracker EXCEPT ![t] =
                     [Resting EXCEPT !.pc = IF row[h].status = "pending" THEN "receipt" ELSE "probe", !.tx = h]]
    /\ UNCHANGED <<signed, row, node>>

(* Tracker.runOnce takes the rows of ListTrackable one after the other.    *)
runOnce == \E h \in Hashes : BeginTrack(Poll, h)

(* GET /tx/:hash refreshes the row it is asked for (RefreshOne).           *)
HandleTxGet(t) == t # Poll /\ \E h \in Hashes : BeginTrack(t, h)

Rest(t) == tracker' = [tracker EXCEPT ![t] = Resting]

(* TransactionByHash, of a row that is not pending: the node has it.  (An  *)
(* error of MarkBroadcastPending, which the code ignores, is left out.)    *)
ProbeFound(t) ==
    /\ tracker[t].pc = "probe"
    /\ node[tracker[t].tx] # "unknown"
    /\ row' = Mark(tracker[t].tx, "pending")
    /\ tracker' = [tracker EXCEPT ![t].pc = "receipt"]
    /\ UNCHANGED <<signed, node>>

(* Mutant: one confirmation is enough.                                     *)
ReceiptStatusShallow(h) ==
    CASE node[h] = "reverted" -> {"failed"}
      [] node[h] = "mined" -> {"pending", "confirmed"}
      [] node[h] = "final" -> {"pending", "confirmed"}
      [] OTHER -> {}

(* The status that trackOne reads off a receipt; head was read earlier, so *)
(* a final transaction may still seem pending.                             *)
ReceiptStatus(h) ==
    CASE node[h] = "reverted" -> {"failed"}
      [] node[h] = "mined" -> {"pending"}
      [] node[h] = "final" -> {"pending", "confirmed"}
      [] OTHER -> {}

ReadReceipt(t) ==
    /\ tracker[t].pc = "receipt"
    /\ \E s \in ReceiptStatus(tracker[t].tx) :
          tracker' = [tracker EXCEPT ![t].status = s,
                                     ![t].pc = IF s = "confirmed" THEN "replace" ELSE "write"]
    /\ UNCHANGED <<signed, row, node>>

(* The node has no answer, or an error: a probe leaves the row alone; a    *)
(* receipt that cannot be read drops a row that is old enough.             *)
NoAnswer(t) ==
    /\ \/ tracker[t].pc \in {"probe", "receipt"} /\ Rest(t)
       \/ /\ tracker[t].pc = "receipt"
          /\ tracker' = [tracker EXCEPT ![t].status = "dropped", ![t].pc = "write"]
    /\ UNCHANGED <<signed, row, node>>

(* MySQL refuses the last UPDATE, or the process stops before it.          *)
WriteError(t) ==
    /\ tracker[t].pc = "write"
    /\ Rest(t)
    /\ UNCHANGED <<signed, row, node>>

(* MarkReplacedSiblings, before the winner itself is confirmed: the SELECT *)
(* of the pending siblings, whose error is ignored, ...                    *)
SelectSiblings(t) ==
    /\ tracker[t].pc = "replace"
    /\ \E found \in {{}, {g \in Siblings(tracker[t].tx) : row[g].status = "pending"}} :
          tracker' = [tracker EXCEPT ![t].pc = IF found = {} THEN "write" ELSE "siblings", ![t].found = found]
    /\ UNCHANGED <<signed, row, node>>

(* ... and an UPDATE by hash of each, whatever its status is by now; an    *)
(* error ends the loop and is ignored too.                                 *)
MarkReplacedSiblings(t) ==
    /\ tracker[t].pc = "siblings"
    /\ \/ \E g \in tracker[t].found :
             /\ row' = [row EXCEPT ![g].status = "replaced"]
             /\ tracker' = [tracker EXCEPT ![t].found = @ \ {g},
                                           ![t].pc = IF tracker[t].found = {g} THEN "write" ELSE "siblings"]
       \/ /\ tracker' = [tracker EXCEPT ![t].found = {}, ![t].pc = "write"]
          /\ UNCHANGED row
    /\ UNCHANGED <<signed, node>>

(* TransitionStatus is an UPDATE by hash, whatever the status is by now.   *)
TransitionStatus(t) ==
    /\ tracker[t].pc = "write"
    /\ row' = [row EXCEPT ![tracker[t].tx].status = tracker[t].status]
    /\ Rest(t)
    /\ UNCHANGED <<signed, node>>

-----------------------------------------------------------------------------
TrackerStep(t) ==
    \/ ProbeFound(t) \/ ReadReceipt(t) \/ NoAnswer(t)
    \/ SelectSiblings(t) \/ MarkReplacedSiblings(t) \/ TransitionStatus(t)

TxTrackerNext ==
    \/ runOnce
    \/ \E t \in Trackers : HandleTxGet(t) \/ TrackerStep(t) \/ WriteError(t)
    \/ \E nonce \in 0..1 : NewTx(nonce)
    \/ \E h \in Signed : Broadcast(h) \/ ChainStep(h)

(* pollLoop comes back to every row (batches are larger than the rows here *)
(* are many), and neither the node nor MySQL fails forever.  Nothing is    *)
(* assumed of calls, refreshes and the chain.                              *)
TxTrackerFairness ==
    /\ WF_trackVars(TrackerStep(Poll))
    /\ \A h \in Hashes :
          /\ SF_trackVars(BeginTrack(Poll, h))
          /\ SF_trackVars(tracker[Poll].tx = h /\ ProbeFound(Poll))
          /\ SF_trackVars(tracker[Poll].tx = h /\ ReadReceipt(Poll) /\ tracker'[Poll].status # "pending")
          /\ SF_trackVars(tracker[Poll].tx = h /\ tracker[Poll].status # "pending" /\ TransitionStatus(Poll))

TxTrackerSpec == TxTrackerInit /\ [][TxTrackerNext]_trackVars /\ TxTrackerFairness

-----------------------------------------------------------------------------
(* What a final status says of the chain is true, though trackers that     *)
(* were overtaken write what they read earlier (TransitionStatus,          *)
(* MarkReplacedSiblings): a confirmed row is confirm_depth deep, and a     *)
(* replaced row lost its nonce to a transaction that is.                   *)
StatusIsTrue ==
    \A h \in Signed :
        /\ row[h].status = "confirmed" => node[h] = "final"
        /\ row[h].status = "replaced" => \E g \in Siblings(h) : node[g] = "final"

(* A transaction that is confirm_depth deep gets a final status, also when *)
(* the answer to its broadcast was lost and when a tracker that was        *)
(* overtaken takes its status back (ListTrackable, trackOne).              *)
FinalIsReported ==
    \A h \in Hashes : node[h] = "final" ~> row[h].status \in Final

-----------------------------------------------------------------------------
TxTrackerTypeOK ==
    /\ signed \in Seq([from : {Custodial}, nonce : 0..1, key : {NoKey}, again : BOOLEAN])
    /\ Len(signed) <= MaxCalls
    /\ row \in [Hashes -> [status : Statuses, raw : 0..MaxCalls, retry : 0..BroadcastMaxRetries]]
    /\ node \in [Hashes -> {"unknown", "mempool"} \union InBlock]
    /\ tracker \in [Trackers ->
          [pc : {"idle", "probe", "receipt", "replace", "siblings", "write"}, tx : 0..MaxCalls,
           status : Statuses, found : SUBSET Hashes]]

(* The inductive invariant: what a trackOne under way read of its row is   *)
(* still true if it is final, and the siblings it found are siblings.      *)
RowsAreSigned == \A h \in Hashes : row[h].status # "none" => h \in Signed

TrackersKnow ==
    \A t \in Trackers : tracker[t].pc # "idle" =>
        /\ tracker[t].tx \in Signed /\ tracker[t].found \subseteq Siblings(tracker[t].tx)
        /\ tracker[t].status # "replaced"
        /\ tracker[t].pc \in {"replace", "siblings"} => tracker[t].status = "confirmed"
        /\ tracker[t].status = "confirmed" => node[tracker[t].tx] = "final"

TxTrackerInv == TxTrackerTypeOK /\ RowsAreSigned /\ TrackersKnow /\ StatusIsTrue
=============================================================================
