------------------------------- MODULE Pipeline -----------------------------
(***************************************************************************)
(* The way of a header or Transfer log from the node's subscription to the *)
(* statistics (eth/listener.go, pipeline/bus.go), and the end of the       *)
(* process (cmd/chain-backend/main.go).  Per stream one listener loop      *)
(* reads its subscription, hands the event to the indexer and then to a    *)
(* bounded channel; workers range over the channel.  An interrupt cancels  *)
(* rootCtx, which the loops, the closer of the channels and main notice    *)
(* each in its own time; main then waits for calls and workers, but not    *)
(* for the listener.                                                       *)
(*                                                                         *)
(* An event is its number in its stream.  Stopping the HTTP server takes   *)
(* at most 15 seconds whatever its requests do, so they are left out.      *)
(***************************************************************************)
EXTENDS Naturals, Sequences, FiniteSets, FiniteSetsExt

CONSTANTS
    HeaderWorkers,   \* goroutines of Bus.worker
    TransferWorkers, \* the goroutine of Bus.transferWorker
    ChannelBuffer,   \* capacity of headerCh and transferCh
    MaxLasts,        \* entries kept in lasts; 20 in the code
    MaxEvents,       \* bound: events of each stream
    MaxCalls         \* bound: gRPC calls at a time

ASSUME PipelineAssumption ==
    /\ HeaderWorkers \intersect TransferWorkers = {}
    /\ \A W \in {HeaderWorkers, TransferWorkers} : W # {} /\ IsFiniteSet(W)
    /\ {ChannelBuffer, MaxLasts} \subseteq Nat \ {0}
    /\ MaxCalls \in Nat
    /\ MaxEvents \in [{"header", "transfer"} -> Nat]

Streams == {"header", "transfer"}
Workers == HeaderWorkers \union TransferWorkers

VARIABLES
    engine,       \* the bus was given an indexer, not a nil *Engine
    interrupted,  \* rootCtx is done
    main,         \* where main is
    rpcs,         \* gRPC calls that run
    mined,        \* events of each stream so far
    inbox,        \* delivered by the subscription, not yet received
    loop,         \* loopNewHeads, loopERC20Transfers: where it is, the event in hand
    kept,         \* events the indexer has stored
    unkept,       \* events it could not store, or logs of no watched contract
    passed,       \* events that left SubmitHeader, SubmitTransferLog
    accepted,     \* those of them that went into the channel
    channel,      \* headerCh, transferCh
    closed,       \* the channels that are closed
    worker,       \* "range", the event it works on, or "done"
    seen,         \* headersSeen, transfersSeen
    lasts         \* summaries of the last events

pipelineVars == <<engine, interrupted, main, rpcs, mined, inbox, loop, kept, unkept, passed,
                  accepted, channel, closed, worker, seen, lasts>>
server == <<engine, interrupted, main, rpcs>>
source == <<mined, inbox>>
indexed == <<kept, unkept>>
bus == <<passed, accepted, channel, closed, worker, seen, lasts>>

Loop(pc) == [pc |-> pc, event |-> 0]

(* NewBus, Bus.Start and Listener.Run.  The header loop runs if there is a *)
(* ws_rpc, the other one if there is also a contract to watch.             *)
PipelineInit ==
    /\ engine \in BOOLEAN
    /\ interrupted = FALSE
    /\ main = "serving"
    /\ rpcs = 0
    /\ mined = [s \in Streams |-> 0]
    /\ inbox = [s \in Streams |-> <<>>]
    /\ loop \in {[s \in Streams |-> Loop(IF s \in on THEN "subscribe" ELSE "returned")] :
                   on \in {{}, {"header"}, Streams}}
    /\ kept = {} /\ unkept = {} /\ passed = {} /\ accepted = {}
    /\ channel = [s \in Streams |-> <<>>]
    /\ closed = {}
    /\ worker = [w \in Workers |-> "range"]
    /\ seen = [s \in Streams |-> 0]
    /\ lasts = <<>>

Ended == main \in {"exited", "panicked", "fatal"}

-----------------------------------------------------------------------------
Subscribed(s) == loop[s].pc \in {"select", "persist", "send"}

(* The node has a new event; only a subscription that is up delivers it.   *)
Mine(s) ==
    /\ mined[s] < MaxEvents[s]
    /\ mined' = [mined EXCEPT ![s] = @ + 1]
    /\ inbox' = IF Subscribed(s) THEN [inbox EXCEPT ![s] = Append(@, mined'[s])] ELSE inbox
    /\ UNCHANGED <<server, loop, indexed, bus>>

(* The loop's head: return if rootCtx is done, otherwise subscribe, which  *)
(* succeeds, or fails and sleeps.                                          *)
Subscribe(s) ==
    /\ loop[s].pc = "subscribe"
    /\ \/ interrupted /\ loop' = [loop EXCEPT ![s].pc = "returned"]
       \/ ~interrupted /\ loop' = [loop EXCEPT ![s] = Loop("select")]
       \/ ~interrupted /\ loop' = [loop EXCEPT ![s].pc = "sleep"]
    /\ UNCHANGED <<server, source, indexed, bus>>

(* sleepCtx ends, by its timer, of which the length (nextBackoff) is left  *)
(* out, or by rootCtx.                                                     *)
Wake(s) ==
    /\ loop[s].pc = "sleep"
    /\ loop' = [loop EXCEPT ![s].pc = "subscribe"]
    /\ UNCHANGED <<server, source, indexed, bus>>

(* select: rootCtx is done ...                                             *)
LeaveLoop(s) ==
    /\ loop[s].pc = "select"
    /\ interrupted
    /\ loop' = [loop EXCEPT ![s].pc = "returned"]
    /\ inbox' = [inbox EXCEPT ![s] = <<>>]
    /\ UNCHANGED <<server, mined, indexed, bus>>

(* Mutant: the channel is closed with the subscription.                    *)
SubErrorCloses(s) ==
    /\ loop[s].pc = "select"
    /\ loop' = [loop EXCEPT ![s].pc = "sleep"]
    /\ inbox' = [inbox EXCEPT ![s] = <<>>]
    /\ closed' = closed \union {s}
    /\ UNCHANGED <<server, mined, indexed, passed, accepted, channel, worker, seen, lasts>>

(* ... or the subscription fails, after which the loop sleeps and          *)
(* subscribes again; what was not received is gone ...                     *)
SubError(s) ==
    /\ loop[s].pc = "select"
    /\ loop' = [loop EXCEPT ![s].pc = "sleep"]
    /\ inbox' = [inbox EXCEPT ![s] = <<>>]
    /\ UNCHANGED <<server, mined, indexed, bus>>

(* ... or an event is received, rootCtx done or not.                       *)
Receive(s) ==
    /\ loop[s].pc = "select"
    /\ inbox[s] # <<>>
    /\ loop' = [loop EXCEPT ![s].pc = "persist", ![s].event = Head(inbox[s])]
    /\ inbox' = [inbox EXCEPT ![s] = Tail(@)]
    /\ UNCHANGED <<server, mined, indexed, bus>>

-----------------------------------------------------------------------------
InHand(s) == <<s, loop[s].event>>

(* A panic of any goroutine ends the process.                              *)
Panic ==
    /\ main' = "panicked"
    /\ UNCHANGED <<engine, interrupted, rpcs, source, loop, indexed, bus>>

(* Mutant: the event is on its way to the workers before it is stored.     *)
PersistLater(s) ==
    /\ loop[s].pc = "persist"
    /\ engine
    /\ loop' = [loop EXCEPT ![s].pc = "send"]
    /\ UNCHANGED <<server, source, indexed, bus>>

(* b.indexer.EnqueueHeader, EnqueueTransferLog: the write is done or fails *)
(* and the call returns either way, after up to 3 seconds for jobs.        *)
Persist(s) ==
    /\ loop[s].pc = "persist"
    /\ engine
    /\ \/ kept' = kept \union {InHand(s)} /\ UNCHANGED unkept
       \/ unkept' = unkept \union {InHand(s)} /\ UNCHANGED kept
    /\ loop' = [loop EXCEPT ![s].pc = "send"]
    /\ UNCHANGED <<server, source, bus>>

(* main passes the bus a nil *Engine when MySQL is off, as an interface    *)
(* that is not nil: the call goes through and reads a field of nil.        *)
NilEngine(s) == loop[s].pc = "persist" /\ ~engine /\ Panic

(* The select of SubmitHeader and SubmitTransferLog: room, or default.     *)
Submit(s) ==
    /\ loop[s].pc = "send"
    /\ s \notin closed
    /\ \/ /\ Len(channel[s]) < ChannelBuffer
          /\ channel' = [channel EXCEPT ![s] = Append(@, loop[s].event)]
          /\ accepted' = accepted \union {InHand(s)}
       \/ /\ Len(channel[s]) = ChannelBuffer
          /\ UNCHANGED <<channel, accepted>>
    /\ passed' = passed \union {InHand(s)}
    /\ loop' = [loop EXCEPT ![s].pc = "select", ![s].event = 0]
    /\ UNCHANGED <<server, source, indexed, closed, worker, seen, lasts>>

SendOnClosed(s) == loop[s].pc = "send" /\ s \in closed /\ Panic

-----------------------------------------------------------------------------
StreamOf(w) == IF w \in HeaderWorkers THEN "header" ELSE "transfer"

(* worker, transferWorker: receive and count ...                           *)
Take(w) ==
    LET s == StreamOf(w)
    IN  /\ worker[w] = "range"
        /\ channel[s] # <<>>
        /\ worker' = [worker EXCEPT ![w] = "busy"]
        /\ channel' = [channel EXCEPT ![s] = Tail(@)]
        /\ seen' = [seen EXCEPT ![s] = @ + 1]
        /\ UNCHANGED <<server, source, loop, indexed, passed, accepted, closed, lasts>>

(* ... then appendLast, under the mutex.                                   *)
appendLast(w) ==
    /\ worker[w] = "busy"
    /\ worker' = [worker EXCEPT ![w] = "range"]
    /\ lasts' = Append(IF Len(lasts) >= MaxLasts THEN Tail(lasts) ELSE lasts, StreamOf(w))
    /\ UNCHANGED <<server, source, loop, indexed, passed, accepted, channel, closed, seen>>

(* Mutant: a worker leaves as soon as the channel is closed.               *)
FinishUndrained(w) ==
    /\ worker[w] = "range"
    /\ StreamOf(w) \in closed
    /\ worker' = [worker EXCEPT ![w] = "done"]
    /\ UNCHANGED <<server, source, loop, indexed, passed, accepted, channel, closed, seen, lasts>>

(* range ends when the channel is closed and empty; wg.Done.               *)
Finish(w) ==
    /\ worker[w] = "range"
    /\ channel[StreamOf(w)] = <<>>
    /\ StreamOf(w) \in closed
    /\ worker' = [worker EXCEPT ![w] = "done"]
    /\ UNCHANGED <<server, source, loop, indexed, passed, accepted, channel, closed, seen, lasts>>

(* Mutant: only headerCh is closed.                                        *)
CloseHeaderOnly ==
    /\ interrupted
    /\ "header" \notin closed
    /\ closed' = {"header"}
    /\ UNCHANGED <<server, source, loop, indexed, passed, accepted, channel, worker, seen, lasts>>

(* The goroutine of Bus.Start: headerCh is closed first, then transferCh.  *)
CloseChannels ==
    /\ interrupted
    /\ \/ "header" \notin closed /\ closed' = {"header"}
       \/ closed = {"header"} /\ closed' = Streams
    /\ UNCHANGED <<server, source, loop, indexed, passed, accepted, channel, worker, seen, lasts>>

-----------------------------------------------------------------------------
(* NotifyContext: the first signal cancels rootCtx.  stop is only called   *)
(* when main returns, so a second signal is swallowed and changes nothing. *)
Interrupt ==
    /\ ~interrupted
    /\ interrupted' = TRUE
    /\ UNCHANGED <<engine, main, rpcs, source, loop, indexed, bus>>

(* Ping, GetLatestBlock begin and end; no call begins in GracefulStop.     *)
BeginCall ==
    /\ main = "serving"
    /\ rpcs < MaxCalls
    /\ rpcs' = rpcs + 1
    /\ UNCHANGED <<engine, interrupted, main, source, loop, indexed, bus>>

EndCall ==
    /\ rpcs > 0
    /\ rpcs' = rpcs - 1
    /\ UNCHANGED <<engine, interrupted, main, source, loop, indexed, bus>>

(* What main waits for: rootCtx, the running calls (GracefulStop has no    *)
(* timeout), the HTTP server, the workers (Bus.Wait).                      *)
MainStep ==
    /\ \/ main = "serving" /\ interrupted /\ main' = "grpc"
       \/ main = "grpc" /\ rpcs = 0 /\ main' = "http"
       \/ main = "http" /\ main' = "wait"
       \/ main = "wait" /\ (\A w \in Workers : worker[w] = "done") /\ main' = "exited"
    /\ UNCHANGED <<engine, interrupted, rpcs, source, loop, indexed, bus>>

(* log.Fatalf: the HTTP server cannot listen.                              *)
ListenFails ==
    /\ main = "serving"
    /\ main' = "fatal"
    /\ UNCHANGED <<engine, interrupted, rpcs, source, loop, indexed, bus>>

-----------------------------------------------------------------------------
ListenerStep(s) ==
    \/ Subscribe(s) \/ Wake(s) \/ LeaveLoop(s) \/ SubError(s) \/ Receive(s)
    \/ Persist(s) \/ NilEngine(s) \/ Submit(s) \/ SendOnClosed(s)

WorkerStep(w) == Take(w) \/ appendLast(w) \/ Finish(w)

PipelineNext ==
    /\ ~Ended
    /\ \/ \E s \in Streams : Mine(s) \/ ListenerStep(s)
       \/ \E w \in Workers : WorkerStep(w)
       \/ CloseChannels \/ Interrupt \/ BeginCall \/ EndCall \/ MainStep \/ ListenFails

(* Go runs every goroutine that can run, and a call ends: its client gives *)
(* up or the node answers.  Nothing is assumed of the node, of the         *)
(* listener (main does not wait for it) and of the user.                   *)
PipelineFairness ==
    /\ WF_pipelineVars(~Ended /\ CloseChannels)
    /\ WF_pipelineVars(~Ended /\ MainStep)
    /\ WF_pipelineVars(~Ended /\ EndCall)
    /\ \A w \in Workers : WF_pipelineVars(~Ended /\ WorkerStep(w))

PipelineSpec == PipelineInit /\ [][PipelineNext]_pipelineVars /\ PipelineFairness

-----------------------------------------------------------------------------
Count(s, events) == Cardinality({e \in events : e[1] = s})

(* bus.go:62 and main.go:214, the workers drain the channels before the    *)
(* process exits: then every event a channel accepted is counted and       *)
(* summarised, and no call was cut off, although closing, draining and     *)
(* sending are three goroutines' work.                                     *)
ExitIsDrained ==
    main = "exited" =>
        /\ rpcs = 0
        /\ \A s \in Streams : channel[s] = <<>> /\ seen[s] = Count(s, accepted)
        /\ Len(lasts) = Min({MaxLasts, Cardinality(accepted)})

(* bus.go:110, an event is with the indexer before the workers get it, and *)
(* one they do not get because the channel is full is not lost: whatever   *)
(* passed the bus is stored, unless the write itself failed.               *)
PassedIsKept == passed \subseteq kept \union unkept

(* A send on a closed channel ends the process in the middle of what it    *)
(* does; with an indexer this happens only after an interrupt, and only to *)
(* a listener that had taken an event before it noticed (bus.go:74,        *)
(* listener.go:70).                                                        *)
PanicsOnlyWhenStopping ==
    main = "panicked" /\ engine =>
        interrupted /\ \E s \in closed : loop[s].pc = "send" /\ InHand(s) \notin passed

(* An interrupt ends the process: no worker waits for a channel that stays *)
(* open, and main for no worker that stays (main.go:202-217), as long as   *)
(* gRPC calls end.                                                         *)
ShutdownEnds == interrupted ~> Ended

-----------------------------------------------------------------------------
PipelineTypeOK ==
    /\ engine \in BOOLEAN /\ interrupted \in BOOLEAN
    /\ main \in {"serving", "grpc", "http", "wait", "exited", "panicked", "fatal"}
    /\ rpcs \in 0..MaxCalls
    /\ mined \in [Streams -> Nat]
    /\ inbox \in [Streams -> Seq(Nat)]
    /\ loop \in [Streams -> [pc : {"subscribe", "sleep", "select", "persist", "send", "returned"}, event : Nat]]
    /\ kept \subseteq Streams \X Nat /\ unkept \subseteq Streams \X Nat
    /\ passed \subseteq Streams \X Nat /\ accepted \subseteq passed /\ IsFiniteSet(accepted)
    /\ channel \in [Streams -> Seq(Nat)] /\ \A s \in Streams : Len(channel[s]) <= ChannelBuffer
    /\ closed \in {{}, {"header"}, Streams}
    /\ worker \in [Workers -> {"range", "busy", "done"}]
    /\ seen \in [Streams -> Nat]
    /\ lasts \in Seq(Streams) /\ Len(lasts) <= MaxLasts

(* One stream with m events so far, q delivered, l its loop, p what passed *)
(* the bus: events come in order, and none comes again.                    *)
InOrder(s, m, q, l, p) ==
    /\ \A i \in 1..Len(q) : q[i] <= m
    /\ \A i, j \in 1..Len(q) : i < j => q[i] < q[j]
    /\ l.pc \in {"persist", "send"} => l.event <= m /\ \A i \in 1..Len(q) : l.event < q[i]
    /\ \A e \in p : e[1] = s =>
          /\ e[2] <= m
          /\ \A i \in 1..Len(q) : e[2] < q[i]
          /\ l.pc \in {"persist", "send"} => e[2] < l.event

EventsInOrder == \A s \in Streams : InOrder(s, mined[s], inbox[s], loop[s], passed)

(* An event that is about to be sent has been with the indexer.            *)
SentIsKept == \A s \in Streams : loop[s].pc = "send" => InHand(s) \in kept \union unkept

(* Each accepted event is in the channel or counted, and each counted one  *)
(* is in a worker's hands or was summarised.                               *)
Busy == {w \in Workers : worker[w] = "busy"}
EventsCounted == \A s \in Streams : Count(s, accepted) = seen[s] + Len(channel[s])
Summaries == seen["header"] + seen["transfer"] - Cardinality(Busy)
EventsSummarised == Summaries \in Nat /\ Len(lasts) = Min({MaxLasts, Summaries})

(* Why the process may end: what was closed, left or waited for before.    *)
StoppedInOrder ==
    /\ closed # {} => interrupted
    /\ \A w \in Workers : worker[w] = "done" => StreamOf(w) \in closed /\ channel[StreamOf(w)] = <<>>
    /\ main \in {"http", "wait", "exited"} => rpcs = 0
    /\ main = "exited" => \A w \in Workers : worker[w] = "done"

PipelineInv ==
    /\ PipelineTypeOK
    /\ EventsInOrder
    /\ SentIsKept
    /\ PassedIsKept
    /\ EventsCounted
    /\ EventsSummarised
    /\ StoppedInOrder
    /\ PanicsOnlyWhenStopping
=============================================================================
