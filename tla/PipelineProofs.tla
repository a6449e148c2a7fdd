---------------------------- MODULE PipelineProofs ----------------------------
(* The way of events to the workers and the end of the process, for any      *)
(* number of events, workers and calls and any capacity of the channels.     *)
EXTENDS Pipeline, FiniteSetTheorems, TLAPS

LoopState == [pc : {"subscribe", "sleep", "select", "persist", "send", "returned"}, event : Nat]

-----------------------------------------------------------------------------
(* PipelineTypeOK by the parts of the state that change together.          *)
ServerOK ==
    /\ engine \in BOOLEAN /\ interrupted \in BOOLEAN
    /\ main \in {"serving", "grpc", "http", "wait", "exited", "panicked", "fatal"}
    /\ rpcs \in 0..MaxCalls
SourceOK == mined \in [Streams -> Nat] /\ inbox \in [Streams -> Seq(Nat)]
LoopOK == loop \in [Streams -> LoopState]
IndexedOK == kept \subseteq Streams \X Nat /\ unkept \subseteq Streams \X Nat
PassedOK == passed \subseteq Streams \X Nat /\ accepted \subseteq passed /\ IsFiniteSet(accepted)
ChannelOK ==
    /\ channel \in [Streams -> Seq(Nat)]
    /\ \A s \in Streams : Len(channel[s]) <= ChannelBuffer
    /\ closed \in {{}, {"header"}, Streams}
WorkersOK ==
    /\ worker \in [Workers -> {"range", "busy", "done"}]
    /\ seen \in [Streams -> Nat]
    /\ lasts \in Seq(Streams) /\ Len(lasts) <= MaxLasts
TypeParts == ServerOK /\ SourceOK /\ LoopOK /\ IndexedOK /\ PassedOK /\ ChannelOK /\ WorkersOK

(* They are all of it.                                                     *)
LEMMA PipelineTypeParts == PipelineTypeOK <=> TypeParts
  BY DEF PipelineTypeOK, TypeParts, ServerOK, SourceOK, LoopOK, IndexedOK, PassedOK, ChannelOK, WorkersOK, LoopState

LoopPcs == {"subscribe", "sleep", "select", "persist", "send", "returned"}

(* The ways in which a loop moves: to pc, to pc with event e in hand, to   *)
(* pc with nothing in hand.                                                *)
Moved(s, pc) == [loop EXCEPT ![s].pc = pc]
MovedWith(s, pc, e) == [loop EXCEPT ![s].pc = pc, ![s].event = e]
Reset(s, pc) == [loop EXCEPT ![s] = Loop(pc)]

(* l has replaced loop: a step of stream s to pc, with event e in hand.    *)
LoopStep(l, s, pc, e) ==
    /\ l \in [Streams -> LoopState]
    /\ l[s].pc = pc /\ l[s].event = e
    /\ \A r \in Streams \ {s} : l[r] = loop[r]

(* That is what they do.                                                   *)
LEMMA LoopMoves ==
    ASSUME LoopOK, NEW s \in Streams, NEW pc \in LoopPcs
    PROVE  /\ LoopStep(Moved(s, pc), s, pc, loop[s].event)
           /\ \A e \in Nat : LoopStep(MovedWith(s, pc, e), s, pc, e)
           /\ LoopStep(Reset(s, pc), s, pc, 0)
  <1>1. loop \in [Streams -> LoopState] /\ loop[s] \in LoopState
    BY DEF LoopOK
  <1>2. ASSUME NEW q \in LoopState
        PROVE  LoopStep([loop EXCEPT ![s] = q], s, q.pc, q.event)
    BY <1>1 DEF LoopStep
  <1>3. LoopStep(Moved(s, pc), s, pc, loop[s].event)
    <2> DEFINE q == [loop[s] EXCEPT !.pc = pc]
    <2>1. q \in LoopState
      BY <1>1, Zenon DEF LoopState, LoopPcs
    <2>2. q.pc = pc /\ q.event = loop[s].event
      BY <1>1 DEF LoopState
    <2>3. Moved(s, pc) = [loop EXCEPT ![s] = q]
      BY <1>1, Zenon DEF Moved, LoopState
    <2> HIDE DEF q
    <2> QED  BY <1>2, <2>1, <2>2, <2>3
  <1>4. ASSUME NEW e \in Nat PROVE LoopStep(MovedWith(s, pc, e), s, pc, e)
    <2> DEFINE q == [loop[s] EXCEPT !.pc = pc, !.event = e]
    <2>1. q \in LoopState
      BY <1>1, Zenon DEF LoopState, LoopPcs
    <2>2. q.pc = pc /\ q.event = e
      BY <1>1 DEF LoopState
    <2>3. MovedWith(s, pc, e) = [loop EXCEPT ![s] = q]
      BY <1>1, Zenon DEF MovedWith, LoopState
    <2> HIDE DEF q
    <2> QED  BY <1>2, <2>1, <2>2, <2>3
  <1>5. LoopStep(Reset(s, pc), s, pc, 0)
    <2>1. Loop(pc) \in LoopState /\ Loop(pc).pc = pc /\ Loop(pc).event = 0
      BY DEF Loop, LoopState, LoopPcs
    <2>2. Reset(s, pc) = [loop EXCEPT ![s] = Loop(pc)]
      BY DEF Reset
    <2> QED  BY <1>2, <2>1, <2>2
  <1> QED  BY <1>3, <1>4, <1>5

(* What each step of the listener does to the loops.                       *)
LEMMA ListenerMoves ==
    ASSUME LoopOK, SourceOK, NEW s \in Streams
    PROVE  /\ Subscribe(s) => \E pc \in {"returned", "select", "sleep"}, e \in Nat : LoopStep(loop', s, pc, e)
           /\ Wake(s) => LoopStep(loop', s, "subscribe", loop[s].event)
           /\ LeaveLoop(s) => LoopStep(loop', s, "returned", loop[s].event)
           /\ SubError(s) => LoopStep(loop', s, "sleep", loop[s].event)
           /\ Receive(s) => LoopStep(loop', s, "persist", Head(inbox[s]))
           /\ Persist(s) => LoopStep(loop', s, "send", loop[s].event)
           /\ Submit(s) => LoopStep(loop', s, "select", 0)
  <1> USE DEF LoopPcs
  <1>1. ASSUME Subscribe(s) PROVE \E pc \in {"returned", "select", "sleep"}, e \in Nat : LoopStep(loop', s, pc, e)
    <2>1. loop' = Moved(s, "returned") \/ loop' = Reset(s, "select") \/ loop' = Moved(s, "sleep")
      BY <1>1 DEF Subscribe, Moved, Reset
    <2>2. loop[s].event \in Nat
      BY DEF LoopOK, LoopState
    <2> QED  BY <2>1, <2>2, LoopMoves
  <1>2. ASSUME Wake(s) PROVE LoopStep(loop', s, "subscribe", loop[s].event)
    <2>1. loop' = Moved(s, "subscribe")
      BY <1>2 DEF Wake, Moved
    <2> QED  BY <2>1, LoopMoves
  <1>3. ASSUME LeaveLoop(s) PROVE LoopStep(loop', s, "returned", loop[s].event)
    <2>1. loop' = Moved(s, "returned")
      BY <1>3 DEF LeaveLoop, Moved
    <2> QED  BY <2>1, LoopMoves
  <1>4. ASSUME SubError(s) PROVE LoopStep(loop', s, "sleep", loop[s].event)
    <2>1. loop' = Moved(s, "sleep")
      BY <1>4 DEF SubError, Moved
    <2> QED  BY <2>1, LoopMoves
  <1>5. ASSUME Receive(s) PROVE LoopStep(loop', s, "persist", Head(inbox[s]))
    <2>1. loop' = MovedWith(s, "persist", Head(inbox[s]))
      BY <1>5 DEF Receive, MovedWith
    <2>2. inbox[s] \in Seq(Nat) /\ inbox[s] # <<>>
      BY <1>5 DEF Receive, SourceOK
    <2>3. Head(inbox[s]) \in Nat
      BY <2>2
    <2> QED  BY <2>1, <2>3, LoopMoves
  <1>6. ASSUME Persist(s) PROVE LoopStep(loop', s, "send", loop[s].event)
    <2>1. loop' = Moved(s, "send")
      BY <1>6 DEF Persist, Moved
    <2> QED  BY <2>1, LoopMoves
  <1>7. ASSUME Submit(s) PROVE LoopStep(loop', s, "select", 0)
    <2>1. loop' = MovedWith(s, "select", 0)
      BY <1>7 DEF Submit, MovedWith
    <2> QED  BY <2>1, LoopMoves
  <1> QED  BY <1>1, <1>2, <1>3, <1>4, <1>5, <1>6, <1>7

(* Every step keeps the types, the capacity of the channels and the length *)
(* of lasts among them.                                                    *)
LEMMA PipelineTypeNext ==
    ASSUME PipelineAssumption, PipelineTypeOK, [PipelineNext]_pipelineVars
    PROVE  PipelineTypeOK'
  <1> SUFFICES TypeParts'
    BY PipelineTypeParts, PTL
  <1> USE DEF server, source, indexed, bus
  <1>0. ServerOK /\ SourceOK /\ LoopOK /\ IndexedOK /\ PassedOK /\ ChannelOK /\ WorkersOK
    BY PipelineTypeParts DEF TypeParts
  <1>a. UNCHANGED server => ServerOK'
    BY <1>0 DEF ServerOK
  <1>b. UNCHANGED source => SourceOK'
    BY <1>0 DEF SourceOK
  <1>c. UNCHANGED loop => LoopOK'
    BY <1>0 DEF LoopOK
  <1>d. UNCHANGED indexed => IndexedOK'
    BY <1>0 DEF IndexedOK
  <1>e. UNCHANGED <<passed, accepted>> => PassedOK'
    BY <1>0 DEF PassedOK
  <1>f. UNCHANGED <<channel, closed>> => ChannelOK'
    BY <1>0 DEF ChannelOK
  <1>g. UNCHANGED <<worker, seen, lasts>> => WorkersOK'
    BY <1>0 DEF WorkersOK
  <1> USE DEF TypeParts
  <1>1. ASSUME NEW s \in Streams, Mine(s) PROVE TypeParts'
    <2>1. SourceOK'
      BY <1>0, <1>1 DEF Mine, SourceOK
    <2> QED  BY <1>1, <2>1, <1>a, <1>c, <1>d, <1>e, <1>f, <1>g DEF Mine
  <1>2. ASSUME NEW s \in Streams, Subscribe(s) \/ Wake(s) PROVE TypeParts'
    <2>1. LoopOK'
      BY <1>0, <1>2, ListenerMoves DEF LoopStep, LoopOK
    <2> QED  BY <1>2, <2>1, <1>a, <1>b, <1>d, <1>e, <1>f, <1>g DEF Subscribe, Wake
  <1>3. ASSUME NEW s \in Streams, LeaveLoop(s) \/ SubError(s) PROVE TypeParts'
    <2>1. LoopOK'
      BY <1>0, <1>3, ListenerMoves DEF LoopStep, LoopOK
    <2>2. <<>> \in Seq(Nat) /\ inbox' = [inbox EXCEPT ![s] = <<>>] /\ UNCHANGED mined
      BY <1>3 DEF LeaveLoop, SubError
    <2>3. SourceOK'
      BY <1>0, <2>2 DEF SourceOK
    <2> QED  BY <1>3, <2>1, <2>3, <1>a, <1>d, <1>e, <1>f, <1>g DEF LeaveLoop, SubError
  <1>4. ASSUME NEW s \in Streams, Receive(s) PROVE TypeParts'
    <2>1. inbox[s] \in Seq(Nat) /\ inbox[s] # <<>>
      BY <1>0, <1>4 DEF Receive, SourceOK
    <2>2. Head(inbox[s]) \in Nat /\ Tail(inbox[s]) \in Seq(Nat)
      BY <2>1
    <2>3. LoopOK'
      BY <1>0, <1>4, ListenerMoves DEF LoopStep, LoopOK
    <2>4. SourceOK'
      BY <1>0, <1>4, <2>2 DEF Receive, SourceOK
    <2> QED  BY <1>4, <2>3, <2>4, <1>a, <1>d, <1>e, <1>f, <1>g DEF Receive
  <1>5. ASSUME NEW s \in Streams PROVE InHand(s) \in Streams \X Nat /\ loop[s].event \in Nat
    BY <1>0 DEF InHand, LoopOK, LoopState
  <1>6. ASSUME NEW s \in Streams, Persist(s) PROVE TypeParts'
    <2>1. LoopOK'
      BY <1>0, <1>6, ListenerMoves DEF LoopStep, LoopOK
    <2>2. IndexedOK'
      BY <1>0, <1>5, <1>6 DEF Persist, IndexedOK
    <2> QED  BY <1>6, <2>1, <2>2, <1>a, <1>b, <1>e, <1>f, <1>g DEF Persist
  <1>7. ASSUME Panic PROVE TypeParts'
    <2>1. ServerOK'
      BY <1>0, <1>7 DEF Panic, ServerOK
    <2> QED  BY <1>7, <2>1, <1>b, <1>c, <1>d, <1>e, <1>f, <1>g DEF Panic
  <1>8. ASSUME NEW s \in Streams, Submit(s) PROVE TypeParts'
    <2>1. LoopOK'
      BY <1>0, <1>8, ListenerMoves DEF LoopStep, LoopOK
    <2>2. PassedOK'
      <3>1. IsFiniteSet(accepted \union {InHand(s)})
        BY <1>0, FS_AddElement DEF PassedOK
      <3>2. /\ passed' = passed \union {InHand(s)}
            /\ accepted' = accepted \/ accepted' = accepted \union {InHand(s)}
        BY <1>8 DEF Submit
      <3> HIDE DEF InHand
      <3> QED  BY <1>0, <1>5, <3>1, <3>2 DEF PassedOK
    <2>3. ChannelOK'
      <3>1. ChannelBuffer \in Nat
        BY DEF PipelineAssumption
      <3>2. CASE UNCHANGED channel
        BY <1>0, <1>8, <3>2 DEF Submit, ChannelOK
      <3>3. CASE Len(channel[s]) < ChannelBuffer /\ channel' = [channel EXCEPT ![s] = Append(@, loop[s].event)]
        <4>1. channel[s] \in Seq(Nat)
          BY <1>0 DEF ChannelOK
        <4>2. /\ Append(channel[s], loop[s].event) \in Seq(Nat)
              /\ Len(Append(channel[s], loop[s].event)) = Len(channel[s]) + 1
              /\ Len(channel[s]) \in Nat
          BY <1>5, <4>1
        <4> QED  BY <1>0, <1>8, <3>1, <3>3, <4>2 DEF Submit, ChannelOK
      <3> QED  BY <1>8, <3>2, <3>3 DEF Submit
    <2> QED  BY <1>8, <2>1, <2>2, <2>3, <1>a, <1>b, <1>d, <1>g DEF Submit
  <1>9. ASSUME NEW w \in Workers, Take(w) PROVE TypeParts'
    <2>1. StreamOf(w) \in Streams
      BY DEF StreamOf, Streams
    <2>2. channel[StreamOf(w)] \in Seq(Nat) /\ channel[StreamOf(w)] # <<>>
      BY <1>0, <1>9, <2>1 DEF Take, ChannelOK
    <2>3. /\ Tail(channel[StreamOf(w)]) \in Seq(Nat)
          /\ Len(Tail(channel[StreamOf(w)])) = Len(channel[StreamOf(w)]) - 1
          /\ Len(channel[StreamOf(w)]) \in Nat
      BY <2>2
    <2>4. ChannelBuffer \in Nat
      BY DEF PipelineAssumption
    <2>5. ChannelOK'
      BY <1>0, <1>9, <2>1, <2>3, <2>4 DEF Take, ChannelOK
    <2>6. WorkersOK'
      BY <1>0, <1>9, <2>1 DEF Take, WorkersOK
    <2> QED  BY <1>9, <2>5, <2>6, <1>a, <1>b, <1>c, <1>d, <1>e DEF Take
  <1>10. ASSUME NEW w \in Workers, appendLast(w) PROVE TypeParts'
    <2>1. StreamOf(w) \in Streams
      BY DEF StreamOf, Streams
    <2>2. MaxLasts \in Nat \ {0} /\ lasts \in Seq(Streams) /\ Len(lasts) <= MaxLasts
      BY <1>0 DEF PipelineAssumption, WorkersOK
    <2>3. lasts' \in Seq(Streams) /\ Len(lasts') <= MaxLasts
      <3>1. CASE Len(lasts) >= MaxLasts
        <4>1. lasts # <<>>
          BY <2>2, <3>1
        <4>2. Tail(lasts) \in Seq(Streams) /\ Len(Tail(lasts)) = Len(lasts) - 1
          BY <2>2, <4>1
        <4>3. lasts' = Append(Tail(lasts), StreamOf(w))
          BY <1>10, <3>1 DEF appendLast
        <4> QED  BY <2>1, <2>2, <4>2, <4>3
      <3>2. CASE ~(Len(lasts) >= MaxLasts)
        <4>1. lasts' = Append(lasts, StreamOf(w))
          BY <1>10, <3>2 DEF appendLast
        <4> QED  BY <2>1, <2>2, <3>2, <4>1
      <3> QED  BY <3>1, <3>2
    <2>4. WorkersOK'
      BY <1>0, <1>10, <2>3 DEF appendLast, WorkersOK
    <2> QED  BY <1>10, <2>4, <1>a, <1>b, <1>c, <1>d, <1>e, <1>f DEF appendLast
  <1>11. ASSUME NEW w \in Workers, Finish(w) PROVE TypeParts'
    <2>1. WorkersOK'
      BY <1>0, <1>11 DEF Finish, WorkersOK
    <2> QED  BY <1>11, <2>1, <1>a, <1>b, <1>c, <1>d, <1>e, <1>f DEF Finish
  <1>12. CASE CloseChannels
    <2>1. ChannelOK'
      BY <1>0, <1>12 DEF CloseChannels, ChannelOK, Streams
    <2> QED  BY <1>12, <2>1, <1>a, <1>b, <1>c, <1>d, <1>e, <1>g DEF CloseChannels
  <1>13. CASE Interrupt \/ BeginCall \/ EndCall \/ MainStep \/ ListenFails
    <2>1. MaxCalls \in Nat
      BY DEF PipelineAssumption
    <2>2. ServerOK'
      <3>1. CASE Interrupt \/ MainStep \/ ListenFails
        BY <1>0, <3>1 DEF Interrupt, MainStep, ListenFails, ServerOK
      <3>2. CASE BeginCall \/ EndCall
        <4>1. rpcs' \in 0..MaxCalls
          BY <1>0, <2>1, <3>2 DEF BeginCall, EndCall, ServerOK
        <4> QED  BY <1>0, <3>2, <4>1 DEF BeginCall, EndCall, ServerOK
      <3> QED  BY <1>13, <3>1, <3>2
    <2> QED  BY <1>13, <2>2, <1>b, <1>c, <1>d, <1>e, <1>f, <1>g
             DEF Interrupt, BeginCall, EndCall, MainStep, ListenFails
  <1>14. CASE UNCHANGED pipelineVars
    BY <1>14, <1>a, <1>b, <1>c, <1>d, <1>e, <1>f, <1>g DEF pipelineVars
  <1> QED
    BY <1>1, <1>2, <1>3, <1>4, <1>6, <1>7, <1>8, <1>9, <1>10, <1>11, <1>12, <1>13, <1>14
       DEF PipelineNext, ListenerStep, WorkerStep, NilEngine, SendOnClosed

-----------------------------------------------------------------------------
(* What a step of stream s does to the order of s is all it can do.        *)
LEMMA OneStreamMoves ==
    ASSUME EventsInOrder, NEW s \in Streams, NEW x,
           \A r \in Streams \ {s} : mined'[r] = mined[r] /\ inbox'[r] = inbox[r] /\ loop'[r] = loop[r],
           passed' = passed \/ passed' = passed \union {<<s, x>>},
           InOrder(s, mined'[s], inbox'[s], loop'[s], passed')
    PROVE  EventsInOrder'
  <1> SUFFICES ASSUME NEW r \in Streams, r # s PROVE InOrder(r, mined'[r], inbox'[r], loop'[r], passed')
    BY DEF EventsInOrder
  <1>1. mined'[r] = mined[r] /\ inbox'[r] = inbox[r] /\ loop'[r] = loop[r]
    OBVIOUS
  <1>2. InOrder(r, mined[r], inbox[r], loop[r], passed)
    BY DEF EventsInOrder
  <1>3. \A e \in passed' : e[1] = r => e \in passed
    OBVIOUS
  <1> QED  BY <1>1, <1>2, <1>3 DEF InOrder

(* What the order becomes when loop l is replaced by k.                    *)
OrderWith(k, s, m, q, l, p) ==
    /\ k.pc \notin {"persist", "send"} => InOrder(s, m, q, k, p) /\ InOrder(s, m, <<>>, k, p)
    /\ k.pc = "persist" /\ q # <<>> /\ k.event = Head(q) => InOrder(s, m, Tail(q), k, p)
    /\ k.pc = "send" /\ l.pc = "persist" /\ k.event = l.event => InOrder(s, m, q, k, p)
    /\ k.pc = "select" /\ l.pc = "send" => InOrder(s, m, q, k, p \union {<<s, l.event>>})

(* The order of one stream through its steps: a new event, an inbox that   *)
(* is emptied, a loop that has nothing in hand, an event received, passed. *)
LEMMA OrderSteps ==
    ASSUME NEW s, NEW m \in Nat, NEW q \in Seq(Nat), NEW l \in LoopState,
           NEW p \in SUBSET (Streams \X Nat), InOrder(s, m, q, l, p)
    PROVE  /\ InOrder(s, m + 1, q, l, p)
           /\ InOrder(s, m + 1, Append(q, m + 1), l, p)
           /\ \A k \in LoopState : OrderWith(k, s, m, q, l, p)
  <1>0. /\ Len(q) \in Nat /\ \A i \in 1..Len(q) : q[i] \in Nat
        /\ l.event \in Nat /\ \A e \in p : e[2] \in Nat
    BY DEF LoopState
  <1>p. /\ \A i \in 1..Len(q) : q[i] <= m
        /\ \A i, j \in 1..Len(q) : i < j => q[i] < q[j]
    BY DEF InOrder
  <1>h. ASSUME l.pc \in {"persist", "send"}
        PROVE  l.event <= m /\ \A i \in 1..Len(q) : l.event < q[i]
    BY <1>h DEF InOrder
  <1>e. ASSUME NEW e \in p, e[1] = s
        PROVE  /\ e[2] <= m /\ e[2] \in Nat
               /\ \A i \in 1..Len(q) : e[2] < q[i]
               /\ l.pc \in {"persist", "send"} => e[2] < l.event
    BY <1>0, <1>e DEF InOrder
  <1>1. InOrder(s, m + 1, q, l, p)
    BY <1>0 DEF InOrder
  <1>2. InOrder(s, m + 1, Append(q, m + 1), l, p)
    <2> DEFINE a == Append(q, m + 1)
    <2>1. /\ Len(a) = Len(q) + 1 /\ a[Len(q) + 1] = m + 1
          /\ \A i \in 1..Len(q) : a[i] = q[i]
      OBVIOUS
    <2> HIDE DEF a
    <2>2. ASSUME NEW i \in 1..Len(a)
          PROVE  /\ i \in Int
                 /\ (a[i] = m + 1 /\ i = Len(q) + 1) \/ (i \in 1..Len(q) /\ a[i] = q[i])
      <3>1. i \in Int /\ (i = Len(q) + 1 \/ i \in 1..Len(q))
        BY <1>0, <2>1
      <3>2. CASE i = Len(q) + 1
        <4>1. a[Len(q) + 1] = m + 1
          BY <2>1
        <4>2. a[i] = a[Len(q) + 1]
          BY <3>2, Zenon
        <4>3. a[i] = m + 1
          BY <4>1, <4>2, Zenon
        <4> QED  BY <3>1, <3>2, <4>3, Zenon
      <3>3. CASE i \in 1..Len(q)
        BY <2>1, <3>1, <3>3
      <3> QED  BY <3>1, <3>2, <3>3
    <2>3. \A i \in 1..Len(a) : a[i] <= m + 1
      BY <1>0, <1>p, <2>2
    <2>7. ASSUME NEW b \in Nat, b <= m, \A i \in 1..Len(q) : b < q[i]
          PROVE  \A i \in 1..Len(a) : b < a[i]
      BY <2>2, <2>7
    <2>4. ASSUME NEW i \in 1..Len(a), NEW j \in 1..Len(a), i < j PROVE a[i] < a[j]
      <3>1. i \in 1..Len(q) /\ a[i] = q[i] /\ q[i] \in Nat /\ q[i] <= m
        BY <1>0, <1>p, <2>1, <2>2, <2>4
      <3>2. CASE a[j] = m + 1
        BY <3>1, <3>2
      <3>3. CASE j \in 1..Len(q) /\ a[j] = q[j]
        BY <1>p, <2>4, <3>1, <3>3
      <3> QED  BY <2>2, <3>2, <3>3
    <2>5. ASSUME l.pc \in {"persist", "send"}
          PROVE  l.event <= m + 1 /\ \A i \in 1..Len(a) : l.event < a[i]
      <3>1. l.event \in Nat /\ l.event <= m /\ \A i \in 1..Len(q) : l.event < q[i]
        BY <1>0, <1>h, <2>5
      <3>2. \A i \in 1..Len(a) : l.event < a[i]
        BY <2>7, <3>1
      <3> QED  BY <3>1, <3>2
    <2>6. ASSUME NEW e \in p, e[1] = s
          PROVE  /\ e[2] <= m + 1
                 /\ \A i \in 1..Len(a) : e[2] < a[i]
                 /\ l.pc \in {"persist", "send"} => e[2] < l.event
      <3>1. \A i \in 1..Len(a) : e[2] < a[i]
        BY <1>e, <2>6, <2>7
      <3>2. e[2] <= m /\ e[2] \in Nat /\ (l.pc \in {"persist", "send"} => e[2] < l.event)
        BY <1>e, <2>6
      <3> QED  BY <3>1, <3>2
    <2> QED  BY <2>3, <2>4, <2>5, <2>6 DEF InOrder, a
  <1>3. ASSUME NEW k \in LoopState PROVE OrderWith(k, s, m, q, l, p)
    <2>3. ASSUME k.pc \notin {"persist", "send"} PROVE InOrder(s, m, q, k, p) /\ InOrder(s, m, <<>>, k, p)
      BY <1>0, <2>3 DEF InOrder
    <2>4. ASSUME k.pc = "persist", q # <<>>, k.event = Head(q) PROVE InOrder(s, m, Tail(q), k, p)
      <3> DEFINE t == Tail(q)
      <3>1. /\ Len(t) = Len(q) - 1 /\ 1 \in 1..Len(q)
            /\ k.event = q[1]
            /\ \A i \in 1..Len(t) : t[i] = q[i + 1]
        BY <1>0, <2>4
      <3> HIDE DEF t
      <3>2. ASSUME NEW i \in 1..Len(t)
            PROVE  i \in Int /\ i + 1 \in 1..Len(q) /\ 1 < i + 1 /\ t[i] = q[i + 1]
        <4>1. i \in Int /\ 1 <= i /\ i <= Len(q) - 1
          BY <1>0, <3>1
        <4> QED  BY <1>0, <3>1, <4>1
      <3>3. ASSUME NEW i \in 1..Len(t), NEW j \in 1..Len(t), i < j PROVE t[i] < t[j]
        <4>1. i + 1 < j + 1
          BY <3>2, <3>3
        <4> QED  BY <1>p, <3>2, <4>1
      <3>4. \A i \in 1..Len(t) : t[i] <= m /\ k.event < t[i]
        BY <1>p, <3>1, <3>2
      <3>5. k.event <= m
        BY <1>p, <3>1
      <3>6. ASSUME NEW e \in p, e[1] = s
            PROVE  /\ e[2] <= m
                   /\ \A i \in 1..Len(t) : e[2] < t[i]
                   /\ e[2] < k.event
        BY <1>e, <3>1, <3>2, <3>6
      <3> QED  BY <2>4, <3>3, <3>4, <3>5, <3>6 DEF InOrder, t
    <2>5. ASSUME k.pc = "send", l.pc = "persist", k.event = l.event PROVE InOrder(s, m, q, k, p)
      BY <2>5 DEF InOrder
    <2>6. ASSUME k.pc = "select", l.pc = "send" PROVE InOrder(s, m, q, k, p \union {<<s, l.event>>})
      BY <1>0, <2>6 DEF InOrder
    <2> QED  BY <2>3, <2>4, <2>5, <2>6 DEF OrderWith
  <1> QED  BY <1>1, <1>2, <1>3

(* Every step keeps the events in order.                                   *)
LEMMA OrderNext ==
    ASSUME PipelineAssumption, PipelineTypeOK, EventsInOrder, [PipelineNext]_pipelineVars
    PROVE  EventsInOrder'
  <1> USE DEF server, source, indexed, bus
  <1>0. /\ LoopOK /\ SourceOK /\ passed \in SUBSET (Streams \X Nat)
        /\ \A s \in Streams : mined[s] \in Nat /\ inbox[s] \in Seq(Nat) /\ loop[s] \in LoopState
        /\ \A s \in Streams : InOrder(s, mined[s], inbox[s], loop[s], passed)
    BY PipelineTypeParts DEF TypeParts, EventsInOrder, LoopOK, SourceOK, PassedOK
  <1>1. ASSUME NEW s \in Streams, Mine(s) PROVE EventsInOrder'
    <2>1. /\ mined'[s] = mined[s] + 1
          /\ inbox'[s] = inbox[s] \/ inbox'[s] = Append(inbox[s], mined[s] + 1)
          /\ \A r \in Streams \ {s} : mined'[r] = mined[r] /\ inbox'[r] = inbox[r] /\ loop'[r] = loop[r]
          /\ loop' = loop /\ passed' = passed
      BY <1>0, <1>1 DEF Mine, SourceOK
    <2>2. InOrder(s, mined'[s], inbox'[s], loop'[s], passed')
      <3>1. /\ InOrder(s, mined[s] + 1, inbox[s], loop[s], passed)
            /\ InOrder(s, mined[s] + 1, Append(inbox[s], mined[s] + 1), loop[s], passed)
        BY <1>0, OrderSteps
      <3> QED  BY <2>1, <3>1
    <2> QED  BY <2>1, <2>2, OneStreamMoves
  <1>2. ASSUME NEW s \in Streams, Subscribe(s) \/ Wake(s) \/ LeaveLoop(s) \/ SubError(s) PROVE EventsInOrder'
    <2>1. PICK pc \in LoopPcs \ {"persist", "send"}, e \in Nat : LoopStep(loop', s, pc, e)
      <3>1. loop[s].event \in Nat
        BY <1>0 DEF LoopState
      <3> QED  BY <1>0, <1>2, <3>1, ListenerMoves DEF LoopPcs
    <2>2. /\ mined' = mined /\ passed' = passed
          /\ inbox' = inbox \/ inbox' = [inbox EXCEPT ![s] = <<>>]
      BY <1>2 DEF Subscribe, Wake, LeaveLoop, SubError
    <2>3. /\ \A r \in Streams \ {s} : mined'[r] = mined[r] /\ inbox'[r] = inbox[r] /\ loop'[r] = loop[r]
          /\ inbox'[s] = inbox[s] \/ inbox'[s] = <<>>
          /\ loop'[s] \in LoopState /\ loop'[s].pc \notin {"persist", "send"}
      BY <1>0, <2>1, <2>2 DEF LoopStep, SourceOK
    <2>4. InOrder(s, mined'[s], inbox'[s], loop'[s], passed')
      <3>1. /\ mined[s] \in Nat /\ inbox[s] \in Seq(Nat) /\ loop[s] \in LoopState
            /\ passed \in SUBSET (Streams \X Nat)
            /\ InOrder(s, mined[s], inbox[s], loop[s], passed)
        BY <1>0
      <3>2. OrderWith(loop'[s], s, mined[s], inbox[s], loop[s], passed)
        BY <2>3, <3>1, OrderSteps
      <3> QED  BY <2>2, <2>3, <3>2 DEF OrderWith
    <2> QED  BY <2>2, <2>3, <2>4, OneStreamMoves
  <1>3. ASSUME NEW s \in Streams, Receive(s) PROVE EventsInOrder'
    <2>1. LoopStep(loop', s, "persist", Head(inbox[s]))
      BY <1>0, <1>3, ListenerMoves
    <2>2. mined' = mined /\ passed' = passed /\ inbox[s] # <<>> /\ inbox' = [inbox EXCEPT ![s] = Tail(inbox[s])]
      BY <1>3 DEF Receive
    <2>3. /\ \A r \in Streams \ {s} : mined'[r] = mined[r] /\ inbox'[r] = inbox[r] /\ loop'[r] = loop[r]
          /\ inbox'[s] = Tail(inbox[s])
          /\ loop'[s] \in LoopState /\ loop'[s].pc = "persist" /\ loop'[s].event = Head(inbox[s])
      BY <1>0, <2>1, <2>2 DEF LoopStep, SourceOK
    <2>4. InOrder(s, mined'[s], inbox'[s], loop'[s], passed')
      <3>1. /\ mined[s] \in Nat /\ inbox[s] \in Seq(Nat) /\ loop[s] \in LoopState
            /\ passed \in SUBSET (Streams \X Nat)
            /\ InOrder(s, mined[s], inbox[s], loop[s], passed)
        BY <1>0
      <3>2. OrderWith(loop'[s], s, mined[s], inbox[s], loop[s], passed)
        BY <2>3, <3>1, OrderSteps
      <3> QED  BY <2>2, <2>3, <3>2 DEF OrderWith
    <2> QED  BY <2>2, <2>3, <2>4, OneStreamMoves
  <1>4. ASSUME NEW s \in Streams, Persist(s) PROVE EventsInOrder'
    <2>1. LoopStep(loop', s, "send", loop[s].event)
      BY <1>0, <1>4, ListenerMoves
    <2>2. mined' = mined /\ passed' = passed /\ inbox' = inbox /\ loop[s].pc = "persist"
      BY <1>4 DEF Persist
    <2>3. /\ \A r \in Streams \ {s} : mined'[r] = mined[r] /\ inbox'[r] = inbox[r] /\ loop'[r] = loop[r]
          /\ loop'[s] \in LoopState /\ loop'[s].pc = "send" /\ loop'[s].event = loop[s].event
      BY <2>1, <2>2 DEF LoopStep
    <2>4. InOrder(s, mined'[s], inbox'[s], loop'[s], passed')
      <3>1. /\ mined[s] \in Nat /\ inbox[s] \in Seq(Nat) /\ loop[s] \in LoopState
            /\ passed \in SUBSET (Streams \X Nat)
            /\ InOrder(s, mined[s], inbox[s], loop[s], passed)
        BY <1>0
      <3>2. OrderWith(loop'[s], s, mined[s], inbox[s], loop[s], passed)
        BY <2>3, <3>1, OrderSteps
      <3> QED  BY <2>2, <2>3, <3>2 DEF OrderWith
    <2> QED  BY <2>2, <2>3, <2>4, OneStreamMoves
  <1>5. ASSUME NEW s \in Streams, Submit(s) PROVE EventsInOrder'
    <2>1. LoopStep(loop', s, "select", 0)
      BY <1>0, <1>5, ListenerMoves
    <2>2. mined' = mined /\ passed' = passed \union {<<s, loop[s].event>>} /\ inbox' = inbox /\ loop[s].pc = "send"
      BY <1>5 DEF Submit, InHand
    <2>3. /\ \A r \in Streams \ {s} : mined'[r] = mined[r] /\ inbox'[r] = inbox[r] /\ loop'[r] = loop[r]
          /\ loop'[s] \in LoopState /\ loop'[s].pc = "select"
      BY <2>1, <2>2 DEF LoopStep
    <2>4. InOrder(s, mined'[s], inbox'[s], loop'[s], passed')
      <3>1. /\ mined[s] \in Nat /\ inbox[s] \in Seq(Nat) /\ loop[s] \in LoopState
            /\ passed \in SUBSET (Streams \X Nat)
            /\ InOrder(s, mined[s], inbox[s], loop[s], passed)
        BY <1>0
      <3>2. OrderWith(loop'[s], s, mined[s], inbox[s], loop[s], passed)
        BY <2>3, <3>1, OrderSteps
      <3> QED  BY <2>2, <2>3, <3>2 DEF OrderWith
    <2> QED  BY <2>2, <2>3, <2>4, OneStreamMoves
  <1>6. ASSUME UNCHANGED <<mined, inbox, loop, passed>> PROVE EventsInOrder'
    BY <1>6 DEF EventsInOrder
  <1>7. ASSUME NEW w, NEW s, \/ NilEngine(s) \/ SendOnClosed(s) \/ Take(w) \/ appendLast(w) \/ Finish(w)
                             \/ CloseChannels \/ Interrupt \/ BeginCall \/ EndCall \/ MainStep \/ ListenFails
                             \/ UNCHANGED pipelineVars
        PROVE  UNCHANGED <<mined, inbox, loop, passed>>
    BY <1>7 DEF NilEngine, SendOnClosed, Panic, Take, appendLast, Finish, CloseChannels, Interrupt, BeginCall,
                EndCall, MainStep, ListenFails, pipelineVars
  <1> QED
    BY <1>1, <1>2, <1>3, <1>4, <1>5, <1>6, <1>7 DEF PipelineNext, ListenerStep, WorkerStep

-----------------------------------------------------------------------------
(* An event is with the indexer, or failed to get there, before it is sent *)
(* and so before it has passed.                                            *)
LEMMA KeptNext ==
    ASSUME PipelineTypeOK, SentIsKept, PassedIsKept, [PipelineNext]_pipelineVars
    PROVE  SentIsKept' /\ PassedIsKept'
  <1> USE DEF server, source, indexed, bus
  <1>0. LoopOK /\ SourceOK
    BY PipelineTypeParts DEF TypeParts
  <1>1. ASSUME NEW s \in Streams, NEW pc, NEW e, LoopStep(loop', s, pc, e), pc # "send",
               kept' = kept, unkept' = unkept
        PROVE  SentIsKept'
    <2>1. \A r \in Streams : loop'[r].pc = "send" => loop'[r] = loop[r]
      BY <1>1 DEF LoopStep
    <2> QED  BY <1>1, <2>1 DEF SentIsKept, InHand
  <1>2. ASSUME NEW s \in Streams, Subscribe(s) \/ Wake(s) \/ LeaveLoop(s) \/ SubError(s) \/ Receive(s)
        PROVE  SentIsKept' /\ PassedIsKept'
    <2>1. PICK pc : \E e : LoopStep(loop', s, pc, e) /\ pc # "send"
      <3>1. CASE Subscribe(s)
        BY <1>0, <3>1, ListenerMoves
      <3>2. CASE Wake(s)
        BY <1>0, <3>2, ListenerMoves
      <3>3. CASE LeaveLoop(s)
        BY <1>0, <3>3, ListenerMoves
      <3>4. CASE SubError(s)
        BY <1>0, <3>4, ListenerMoves
      <3>5. CASE Receive(s)
        BY <1>0, <3>5, ListenerMoves
      <3> QED  BY <1>2, <3>1, <3>2, <3>3, <3>4, <3>5
    <2>2. kept' = kept /\ unkept' = unkept /\ passed' = passed
      BY <1>2 DEF Subscribe, Wake, LeaveLoop, SubError, Receive
    <2> QED  BY <1>1, <2>1, <2>2 DEF PassedIsKept
  <1>3. ASSUME NEW s \in Streams, Persist(s) PROVE SentIsKept' /\ PassedIsKept'
    <2>1. LoopStep(loop', s, "send", loop[s].event)
      BY <1>0, <1>3, ListenerMoves
    <2>2. /\ kept' \union unkept' = (kept \union unkept) \union {<<s, loop[s].event>>}
          /\ passed' = passed
      BY <1>3 DEF Persist, InHand
    <2>3. \A r \in Streams : r = s \/ loop'[r] = loop[r]
      BY <2>1 DEF LoopStep
    <2>4. loop'[s].event = loop[s].event
      BY <2>1 DEF LoopStep
    <2> QED  BY <2>2, <2>3, <2>4 DEF SentIsKept, PassedIsKept, InHand
  <1>4. ASSUME NEW s \in Streams, Submit(s) PROVE SentIsKept' /\ PassedIsKept'
    <2>1. LoopStep(loop', s, "select", 0)
      BY <1>0, <1>4, ListenerMoves
    <2>2. /\ kept' = kept /\ unkept' = unkept /\ loop[s].pc = "send"
          /\ passed' = passed \union {InHand(s)}
      BY <1>4 DEF Submit
    <2>3. SentIsKept'
      BY <1>1, <2>1, <2>2
    <2>4. InHand(s) \in kept \union unkept
      BY <2>2 DEF SentIsKept
    <2> QED  BY <2>2, <2>3, <2>4 DEF PassedIsKept
  <1>5. ASSUME UNCHANGED <<loop, kept, unkept, passed>> PROVE SentIsKept' /\ PassedIsKept'
    BY <1>5 DEF SentIsKept, PassedIsKept, InHand
  <1>6. ASSUME NEW w, NEW s, \/ Mine(s) \/ NilEngine(s) \/ SendOnClosed(s)
                             \/ Take(w) \/ appendLast(w) \/ Finish(w)
                             \/ CloseChannels \/ Interrupt \/ BeginCall \/ EndCall \/ MainStep \/ ListenFails
                             \/ UNCHANGED pipelineVars
        PROVE  UNCHANGED <<loop, kept, unkept, passed>>
    BY <1>6 DEF Mine, NilEngine, SendOnClosed, Panic, Take, appendLast, Finish, CloseChannels, Interrupt,
                BeginCall, EndCall, MainStep, ListenFails, pipelineVars
  <1> QED
    BY <1>2, <1>3, <1>4, <1>5, <1>6 DEF PipelineNext, ListenerStep, WorkerStep

-----------------------------------------------------------------------------
(* Accepting an event that is not accepted yet counts one more of its      *)
(* stream and none of another.                                             *)
LEMMA CountAdds ==
    ASSUME NEW A, IsFiniteSet(A), NEW s, NEW x, <<s, x>> \notin A
    PROVE  /\ Count(s, A \union {<<s, x>>}) = Count(s, A) + 1
           /\ \A r : r # s => Count(r, A \union {<<s, x>>}) = Count(r, A)
  <1>1. Count(s, A \union {<<s, x>>}) = Count(s, A) + 1
    <2> DEFINE C == {e \in A : e[1] = s}
    <2>1. {e \in A \union {<<s, x>>} : e[1] = s} = C \union {<<s, x>>}
      OBVIOUS
    <2>2. IsFiniteSet(C) /\ <<s, x>> \notin C
      BY FS_Subset
    <2> HIDE DEF C
    <2>3. Cardinality(C \union {<<s, x>>}) = Cardinality(C) + 1
      BY <2>2, FS_AddElement
    <2> QED  BY <2>1, <2>3 DEF Count, C
  <1>2. ASSUME NEW r, r # s PROVE Count(r, A \union {<<s, x>>}) = Count(r, A)
    <2>1. {e \in A \union {<<s, x>>} : e[1] = r} = {e \in A : e[1] = r}
      BY <1>2
    <2> QED  BY <2>1 DEF Count
  <1> QED  BY <1>1, <1>2

(* A count is a number, and the two counts together are all events.        *)
LEMMA CountParts ==
    ASSUME NEW A \in SUBSET (Streams \X Nat), IsFiniteSet(A)
    PROVE  /\ \A s : Count(s, A) \in Nat
           /\ Cardinality(A) = Count("header", A) + Count("transfer", A)
  <1>1. ASSUME NEW s PROVE IsFiniteSet({e \in A : e[1] = s}) /\ Count(s, A) \in Nat
    <2> DEFINE C == {e \in A : e[1] = s}
    <2>1. IsFiniteSet(C)
      BY FS_Subset
    <2> QED  BY <2>1, FS_CardinalityType DEF Count
  <1> DEFINE H == {e \in A : e[1] = "header"}
             T == {e \in A : e[1] = "transfer"}
  <1>2. A = H \union T /\ H \intersect T = {}
    BY DEF Streams
  <1>3. IsFiniteSet(H) /\ IsFiniteSet(T)
    BY <1>1
  <1>4. Count("header", A) = Cardinality(H) /\ Count("transfer", A) = Cardinality(T)
    BY DEF Count
  <1> HIDE DEF H, T
  <1>5. Cardinality(H \union T) = Cardinality(H) + Cardinality(T) - Cardinality(H \intersect T)
    BY <1>3, FS_Union
  <1>6. Cardinality(H \intersect T) = 0 /\ Cardinality(H) \in Nat /\ Cardinality(T) \in Nat
    BY <1>2, <1>3, FS_EmptySet, FS_CardinalityType
  <1>7. Cardinality(A) = Count("header", A) + Count("transfer", A)
    BY <1>2, <1>4, <1>5, <1>6
  <1> QED  BY <1>1, <1>7

(* An event is accepted once: what is in hand has not passed.              *)
LEMMA InHandIsNew ==
    ASSUME PipelineTypeOK, EventsInOrder, NEW s \in Streams, loop[s].pc = "send"
    PROVE  InHand(s) \notin passed
  <1> SUFFICES ASSUME InHand(s) \in passed PROVE FALSE
    OBVIOUS
  <1>1. InOrder(s, mined[s], inbox[s], loop[s], passed)
    BY DEF EventsInOrder
  <1>2. loop[s].event \in Nat
    BY DEF PipelineTypeOK
  <1>3. <<s, loop[s].event>>[2] < loop[s].event
    BY <1>1 DEF InOrder, InHand
  <1> QED  BY <1>2, <1>3

(* Every step keeps the account of accepted and counted events.            *)
LEMMA CountedNext ==
    ASSUME PipelineAssumption, PipelineTypeOK, EventsInOrder, EventsCounted, [PipelineNext]_pipelineVars
    PROVE  EventsCounted'
  <1> USE DEF server, source, indexed, bus
  <1>0. /\ channel \in [Streams -> Seq(Nat)] /\ seen \in [Streams -> Nat]
        /\ IsFiniteSet(accepted) /\ accepted \subseteq passed /\ accepted \in SUBSET (Streams \X Nat)
        /\ \A s \in Streams : loop[s].event \in Nat
    BY DEF PipelineTypeOK
  <1>1. ASSUME NEW s \in Streams, Submit(s) PROVE EventsCounted'
    <2>1. CASE UNCHANGED <<channel, accepted>>
      BY <1>1, <2>1 DEF Submit, EventsCounted
    <2>2. CASE channel' = [channel EXCEPT ![s] = Append(@, loop[s].event)] /\ accepted' = accepted \union {InHand(s)}
      <3>1. InHand(s) \notin accepted /\ InHand(s) = <<s, loop[s].event>>
        BY <1>0, <1>1, InHandIsNew DEF Submit, InHand
      <3>2. /\ Count(s, accepted') = Count(s, accepted) + 1
            /\ \A r : r # s => Count(r, accepted') = Count(r, accepted)
        <4>1. PICK x \in Nat : x = loop[s].event
          BY <1>0
        <4>2. accepted' = accepted \union {<<s, x>>} /\ <<s, x>> \notin accepted /\ IsFiniteSet(accepted)
          BY <1>0, <2>2, <3>1, <4>1
        <4> QED  BY <4>2, CountAdds
      <3>3. channel'[s] = Append(channel[s], loop[s].event) /\ channel[s] \in Seq(Nat) /\ loop[s].event \in Nat
        BY <1>0, <2>2
      <3>4. Len(channel'[s]) = Len(channel[s]) + 1 /\ Len(channel[s]) \in Nat
        BY <3>3
      <3>5. \A r \in Streams \ {s} : channel'[r] = channel[r]
        BY <1>0, <2>2
      <3>6. seen' = seen /\ seen[s] \in Nat
        BY <1>0, <1>1 DEF Submit
      <3>7. Count(s, accepted') = seen'[s] + Len(channel'[s])
        BY <3>2, <3>4, <3>6 DEF EventsCounted
      <3> QED  BY <3>2, <3>5, <3>6, <3>7 DEF EventsCounted
    <2> QED  BY <1>1, <2>1, <2>2 DEF Submit
  <1>2. ASSUME NEW w \in Workers, Take(w) PROVE EventsCounted'
    <2>1. PICK s \in Streams : s = StreamOf(w)
      BY DEF StreamOf, Streams
    <2>2. /\ channel[s] # <<>> /\ channel' = [channel EXCEPT ![s] = Tail(@)]
          /\ seen' = [seen EXCEPT ![s] = @ + 1] /\ accepted' = accepted
      BY <1>2, <2>1 DEF Take
    <2>3. channel'[s] = Tail(channel[s]) /\ channel[s] \in Seq(Nat) /\ seen'[s] = seen[s] + 1 /\ seen[s] \in Nat
      BY <1>0, <2>2
    <2>4. Len(channel'[s]) = Len(channel[s]) - 1 /\ Len(channel[s]) \in Nat
      <3>1. PICK c \in Seq(Nat) : c = channel[s]
        BY <2>3
      <3>2. c # <<>>
        BY <2>2, <3>1
      <3>3. Len(Tail(c)) = Len(c) - 1 /\ Len(c) \in Nat
        BY <3>2
      <3> QED  BY <2>3, <3>1, <3>3
    <2>5. \A r \in Streams \ {s} : channel'[r] = channel[r] /\ seen'[r] = seen[r]
      BY <1>0, <2>2
    <2>6. Count(s, accepted') = seen'[s] + Len(channel'[s])
      BY <2>2, <2>3, <2>4 DEF EventsCounted
    <2> QED  BY <2>2, <2>5, <2>6 DEF EventsCounted
  <1>3. ASSUME UNCHANGED <<accepted, seen, channel>> PROVE EventsCounted'
    BY <1>3 DEF EventsCounted
  <1>4. ASSUME NEW w, NEW s, \/ Mine(s) \/ Subscribe(s) \/ Wake(s) \/ LeaveLoop(s) \/ SubError(s) \/ Receive(s)
                             \/ Persist(s) \/ NilEngine(s) \/ SendOnClosed(s)
                             \/ appendLast(w) \/ Finish(w)
                             \/ CloseChannels \/ Interrupt \/ BeginCall \/ EndCall \/ MainStep \/ ListenFails
                             \/ UNCHANGED pipelineVars
        PROVE  UNCHANGED <<accepted, seen, channel>>
    BY <1>4 DEF Mine, Subscribe, Wake, LeaveLoop, SubError, Receive, Persist, NilEngine, SendOnClosed, Panic,
                appendLast, Finish, CloseChannels, Interrupt, BeginCall, EndCall, MainStep, ListenFails, pipelineVars
  <1> QED
    BY <1>1, <1>2, <1>3, <1>4 DEF PipelineNext, ListenerStep, WorkerStep

-----------------------------------------------------------------------------
(* The smaller of two numbers.                                             *)
LEMMA MinOfTwo ==
    ASSUME NEW a \in Nat, NEW b \in Nat
    PROVE  Min({a, b}) = IF a <= b THEN a ELSE b
  <1>1. \E x \in {a, b} : \A y \in {a, b} : x <= y
    OBVIOUS
  <1>2. Min({a, b}) \in {a, b} /\ \A y \in {a, b} : Min({a, b}) <= y
    BY <1>1 DEF Min
  <1> QED  BY <1>2

(* Workers are finitely many, so the busy ones can be counted.             *)
LEMMA BusyIsFinite ==
    ASSUME PipelineAssumption
    PROVE  IsFiniteSet(Busy) /\ Cardinality(Busy) \in Nat
  <1>1. IsFiniteSet(HeaderWorkers) /\ IsFiniteSet(TransferWorkers)
    BY DEF PipelineAssumption
  <1>2. IsFiniteSet(Workers)
    BY <1>1, FS_Union DEF Workers
  <1>3. Busy \in SUBSET Workers
    BY DEF Busy
  <1>4. IsFiniteSet(Busy)
    BY <1>2, <1>3, FS_Subset
  <1> QED  BY <1>4, FS_CardinalityType

(* Every step keeps the account of counted and summarised events.          *)
LEMMA SummarisedNext ==
    ASSUME PipelineAssumption, PipelineTypeOK, EventsSummarised, [PipelineNext]_pipelineVars
    PROVE  EventsSummarised'
  <1> USE DEF server, source, indexed, bus
  <1>0. /\ worker \in [Workers -> {"range", "busy", "done"}]
        /\ seen \in [Streams -> Nat] /\ seen["header"] \in Nat /\ seen["transfer"] \in Nat
        /\ lasts \in Seq(Streams) /\ MaxLasts \in Nat /\ MaxLasts # 0
    BY DEF PipelineTypeOK, PipelineAssumption, Streams
  <1>b. IsFiniteSet(Busy) /\ Cardinality(Busy) \in Nat
    BY BusyIsFinite
  <1>1. Summaries \in Nat /\ Len(lasts) = Min({MaxLasts, Summaries})
    BY DEF EventsSummarised
  <1>2. ASSUME NEW w \in Workers, Take(w) PROVE EventsSummarised'
    <2>1. PICK s \in Streams : s = StreamOf(w)
      BY DEF StreamOf, Streams
    <2>2. /\ worker[w] = "range" /\ worker' = [worker EXCEPT ![w] = "busy"]
          /\ seen' = [seen EXCEPT ![s] = @ + 1] /\ lasts' = lasts
      BY <1>2, <2>1 DEF Take
    <2>3. Busy' = Busy \union {w} /\ w \notin Busy
      BY <1>0, <2>2 DEF Busy
    <2>4. Cardinality(Busy') = Cardinality(Busy) + 1
      BY <1>b, <2>3, FS_AddElement
    <2>5. /\ seen'["header"] + seen'["transfer"] = seen["header"] + seen["transfer"] + 1
          /\ seen'["header"] \in Nat /\ seen'["transfer"] \in Nat
      <3>1. CASE s = "header"
        BY <1>0, <2>2, <3>1 DEF Streams
      <3>2. CASE s = "transfer"
        BY <1>0, <2>2, <3>2 DEF Streams
      <3> QED  BY <3>1, <3>2 DEF Streams
    <2>6. Summaries' = Summaries
      <3>1. PICK n \in Nat : n = Cardinality(Busy)
        BY <1>b
      <3>2. Cardinality(Busy') = n + 1
        BY <2>4, <3>1
      <3>3. Summaries = seen["header"] + seen["transfer"] - n
        BY <3>1 DEF Summaries
      <3>4. Summaries' = seen'["header"] + seen'["transfer"] - (n + 1)
        BY <3>2 DEF Summaries
      <3>5. PICK h \in Nat, t \in Nat : h = seen'["header"] /\ t = seen'["transfer"]
        BY <2>5
      <3>6. PICK g \in Nat, u \in Nat : g = seen["header"] /\ u = seen["transfer"]
        BY <1>0
      <3>7. Summaries' = h + t - (n + 1) /\ Summaries = g + u - n /\ h + t = g + u + 1
        BY <2>5, <3>3, <3>4, <3>5, <3>6
      <3> QED  BY <3>7
    <2> QED  BY <1>1, <2>2, <2>6 DEF EventsSummarised
  <1>3. ASSUME NEW w \in Workers, appendLast(w) PROVE EventsSummarised'
    <2>1. /\ worker[w] = "busy" /\ worker' = [worker EXCEPT ![w] = "range"]
          /\ lasts' = Append(IF Len(lasts) >= MaxLasts THEN Tail(lasts) ELSE lasts, StreamOf(w))
          /\ seen' = seen
      BY <1>3 DEF appendLast
    <2>2. Busy' = Busy \ {w} /\ w \in Busy
      BY <1>0, <2>1 DEF Busy
    <2>3. Cardinality(Busy') = Cardinality(Busy) - 1
      BY <1>b, <2>2, FS_RemoveElement
    <2>4. Summaries' = Summaries + 1
      <3>1. PICK n \in Nat : n = Cardinality(Busy)
        BY <1>b
      <3>2. Cardinality(Busy') = n - 1
        BY <2>3, <3>1
      <3>3. Summaries = seen["header"] + seen["transfer"] - n
        BY <3>1 DEF Summaries
      <3>4. Summaries' = seen["header"] + seen["transfer"] - (n - 1)
        BY <2>1, <3>2 DEF Summaries
      <3>5. PICK g \in Nat, u \in Nat : g = seen["header"] /\ u = seen["transfer"]
        BY <1>0
      <3>6. Summaries = g + u - n /\ Summaries' = g + u - (n - 1)
        BY <3>3, <3>4, <3>5
      <3> QED  BY <3>6
    <2>5. Len(lasts) \in Nat
      BY <1>0
    <2>6. Len(lasts') = IF Len(lasts) >= MaxLasts THEN Len(lasts) ELSE Len(lasts) + 1
      <3>1. CASE Len(lasts) >= MaxLasts
        <4>1. lasts # <<>>
          BY <1>0, <3>1
        <4>2. Tail(lasts) \in Seq(Streams) /\ Len(Tail(lasts)) = Len(lasts) - 1
          BY <1>0, <4>1
        <4>3. lasts' = Append(Tail(lasts), StreamOf(w)) /\ StreamOf(w) \in Streams
          BY <2>1, <3>1 DEF StreamOf, Streams
        <4>4. Len(lasts') = Len(Tail(lasts)) + 1
          BY <4>2, <4>3
        <4> QED  BY <2>5, <3>1, <4>2, <4>4
      <3>2. CASE ~(Len(lasts) >= MaxLasts)
        <4>1. lasts' = Append(lasts, StreamOf(w)) /\ StreamOf(w) \in Streams
          BY <2>1, <3>2 DEF StreamOf, Streams
        <4> QED  BY <1>0, <3>2, <4>1
      <3> QED  BY <3>1, <3>2
    <2>7. Len(lasts') = Min({MaxLasts, Summaries + 1})
      <3>1. /\ Min({MaxLasts, Summaries}) = IF MaxLasts <= Summaries THEN MaxLasts ELSE Summaries
            /\ Min({MaxLasts, Summaries + 1}) = IF MaxLasts <= Summaries + 1 THEN MaxLasts ELSE Summaries + 1
        BY <1>0, <1>1, MinOfTwo
      <3> QED  BY <1>0, <1>1, <2>5, <2>6, <3>1
    <2> QED  BY <1>1, <2>4, <2>7 DEF EventsSummarised
  <1>4. ASSUME Busy' = Busy, seen' = seen, lasts' = lasts PROVE EventsSummarised'
    BY <1>4 DEF EventsSummarised, Summaries
  <1>5. ASSUME NEW w \in Workers, Finish(w) PROVE EventsSummarised'
    <2>1. /\ worker[w] = "range" /\ worker' = [worker EXCEPT ![w] = "done"]
          /\ seen' = seen /\ lasts' = lasts
      BY <1>5 DEF Finish
    <2>2. Busy' = Busy
      BY <1>0, <2>1 DEF Busy
    <2> QED  BY <1>4, <2>1, <2>2
  <1>6. ASSUME UNCHANGED <<worker, seen, lasts>> PROVE EventsSummarised'
    <2>1. Busy' = Busy
      BY <1>6 DEF Busy
    <2> QED  BY <1>4, <1>6, <2>1
  <1>7. ASSUME NEW s, \/ Mine(s) \/ Subscribe(s) \/ Wake(s) \/ LeaveLoop(s) \/ SubError(s) \/ Receive(s)
                      \/ Persist(s) \/ NilEngine(s) \/ Submit(s) \/ SendOnClosed(s)
                      \/ CloseChannels \/ Interrupt \/ BeginCall \/ EndCall \/ MainStep \/ ListenFails
                      \/ UNCHANGED pipelineVars
        PROVE  UNCHANGED <<worker, seen, lasts>>
    BY <1>7 DEF Mine, Subscribe, Wake, LeaveLoop, SubError, Receive, Persist, NilEngine, Submit, SendOnClosed,
                Panic, CloseChannels, Interrupt, BeginCall, EndCall, MainStep, ListenFails, pipelineVars
  <1> QED
    BY <1>2, <1>3, <1>5, <1>6, <1>7 DEF PipelineNext, ListenerStep, WorkerStep

-----------------------------------------------------------------------------
(* Every step keeps the order in which things stop: channels close after   *)
(* the interrupt and stay closed, so that what a worker left empty stays   *)
(* empty; no call begins once main waits for them; main is last.           *)
LEMMA StoppedNext ==
    ASSUME PipelineAssumption, PipelineTypeOK, StoppedInOrder, [PipelineNext]_pipelineVars
    PROVE  StoppedInOrder'
  <1> USE DEF server, source, indexed, bus
  <1>0. /\ worker \in [Workers -> {"range", "busy", "done"}]
        /\ channel \in [Streams -> Seq(Nat)]
        /\ \A w \in Workers : StreamOf(w) \in Streams
    BY DEF PipelineTypeOK, StreamOf, Streams
  <1>1. CASE UNCHANGED <<interrupted, main, rpcs, channel, closed, worker>>
    BY <1>1 DEF StoppedInOrder
  <1>2. ASSUME NEW s \in Streams, Submit(s), ~Ended PROVE StoppedInOrder'
    <2>1. \A r \in Streams \ {s} : channel'[r] = channel[r]
      BY <1>0, <1>2 DEF Submit
    <2>2. \A w \in Workers : worker[w] = "done" => StreamOf(w) # s
      BY <1>2 DEF Submit, StoppedInOrder
    <2>3. UNCHANGED <<interrupted, main, rpcs, closed, worker>>
      BY <1>2 DEF Submit
    <2> QED  BY <1>0, <2>1, <2>2, <2>3 DEF StoppedInOrder
  <1>3. ASSUME NEW w \in Workers, Take(w), ~Ended PROVE StoppedInOrder'
    <2>1. PICK s \in Streams : s = StreamOf(w)
      BY <1>0
    <2>2. /\ channel[s] # <<>> /\ channel' = [channel EXCEPT ![s] = Tail(@)]
          /\ worker' = [worker EXCEPT ![w] = "busy"]
          /\ UNCHANGED <<interrupted, main, rpcs, closed>>
      BY <1>3, <2>1 DEF Take
    <2>3. \A v \in Workers : worker'[v] = "done" => worker[v] = "done" /\ StreamOf(v) # s
      BY <1>0, <2>2 DEF StoppedInOrder
    <2>4. \A v \in Workers : worker'[v] = "done" => StreamOf(v) \in closed' /\ channel'[StreamOf(v)] = <<>>
      BY <1>0, <2>2, <2>3 DEF StoppedInOrder
    <2>5. main # "exited"
      BY <1>3 DEF Ended
    <2> QED  BY <2>2, <2>4, <2>5 DEF StoppedInOrder
  <1>4. ASSUME NEW w \in Workers, appendLast(w) \/ Finish(w), ~Ended PROVE StoppedInOrder'
    <2>1. /\ UNCHANGED <<interrupted, main, rpcs, channel, closed>>
          /\ \A v \in Workers \ {w} : worker'[v] = worker[v]
          /\ worker'[w] = "done" => StreamOf(w) \in closed /\ channel[StreamOf(w)] = <<>>
      BY <1>0, <1>4 DEF appendLast, Finish
    <2>2. main # "exited"
      BY <1>4 DEF Ended
    <2> QED  BY <2>1, <2>2 DEF StoppedInOrder
  <1>5. CASE CloseChannels
    <2>1. interrupted /\ closed \subseteq closed' /\ UNCHANGED <<interrupted, main, rpcs, channel, worker>>
      <3>1. closed \in {{}, {"header"}, Streams}
        BY DEF PipelineTypeOK
      <3> QED  BY <1>5, <3>1 DEF CloseChannels, Streams
    <2> QED  BY <2>1 DEF StoppedInOrder
  <1>6. CASE Interrupt \/ BeginCall \/ EndCall
    <2>1. rpcs \in Nat
      BY DEF PipelineTypeOK, PipelineAssumption
    <2> QED  BY <1>6, <2>1 DEF Interrupt, BeginCall, EndCall, StoppedInOrder
  <1>7. CASE MainStep \/ ListenFails
    BY <1>7 DEF MainStep, ListenFails, StoppedInOrder
  <1>8. ASSUME NEW s, NilEngine(s) \/ SendOnClosed(s) PROVE StoppedInOrder'
    BY <1>8 DEF NilEngine, SendOnClosed, Panic, StoppedInOrder
  <1>9. ASSUME NEW s, \/ Mine(s) \/ Subscribe(s) \/ Wake(s) \/ LeaveLoop(s) \/ SubError(s) \/ Receive(s)
                      \/ Persist(s) \/ UNCHANGED pipelineVars
        PROVE  UNCHANGED <<interrupted, main, rpcs, channel, closed, worker>>
    BY <1>9 DEF Mine, Subscribe, Wake, LeaveLoop, SubError, Receive, Persist, pipelineVars
  <1> QED
    BY <1>1, <1>2, <1>3, <1>4, <1>5, <1>6, <1>7, <1>8, <1>9 DEF PipelineNext, ListenerStep, WorkerStep

(* A panic of the listener is the last step, and only SendOnClosed is one  *)
(* when there is an indexer.                                               *)
LEMMA PanicNext ==
    ASSUME PipelineTypeOK, EventsInOrder, StoppedInOrder, PanicsOnlyWhenStopping, [PipelineNext]_pipelineVars
    PROVE  PanicsOnlyWhenStopping'
  <1> USE DEF server, source, indexed, bus
  <1>1. ASSUME NEW s \in Streams, SendOnClosed(s) PROVE PanicsOnlyWhenStopping'
    <2>1. InHand(s) \notin passed
      BY <1>1, InHandIsNew DEF SendOnClosed
    <2>2. s \in closed /\ loop[s].pc = "send" /\ interrupted /\ UNCHANGED <<interrupted, closed, loop, passed>>
      BY <1>1 DEF SendOnClosed, Panic, StoppedInOrder
    <2> QED  BY <2>1, <2>2 DEF PanicsOnlyWhenStopping, InHand
  <1>2. ASSUME NEW s, NilEngine(s) PROVE PanicsOnlyWhenStopping'
    BY <1>2 DEF NilEngine, Panic, PanicsOnlyWhenStopping
  <1>3. CASE UNCHANGED pipelineVars
    BY <1>3 DEF pipelineVars, PanicsOnlyWhenStopping, InHand
  <1>4. ASSUME main' # "panicked" PROVE PanicsOnlyWhenStopping'
    BY <1>4 DEF PanicsOnlyWhenStopping
  <1>5. ASSUME NEW w, NEW s, ~Ended,
               \/ Mine(s) \/ Subscribe(s) \/ Wake(s) \/ LeaveLoop(s) \/ SubError(s) \/ Receive(s)
               \/ Persist(s) \/ Submit(s) \/ Take(w) \/ appendLast(w) \/ Finish(w)
               \/ CloseChannels \/ Interrupt \/ BeginCall \/ EndCall
        PROVE  main' # "panicked"
    BY <1>5 DEF Ended, Mine, Subscribe, Wake, LeaveLoop, SubError, Receive, Persist, Submit, Take, appendLast,
                Finish, CloseChannels, Interrupt, BeginCall, EndCall
  <1>6. ASSUME MainStep \/ ListenFails PROVE main' # "panicked"
    BY <1>6 DEF MainStep, ListenFails
  <1> QED
    BY <1>1, <1>2, <1>3, <1>4, <1>5, <1>6 DEF PipelineNext, ListenerStep, WorkerStep

-----------------------------------------------------------------------------
(* PipelineInv holds in every state, however listener, workers, closer and *)
(* main are scheduled.                                                     *)
THEOREM PipelineInvariant == PipelineSpec => []PipelineInv
  <1>1. PipelineInit => PipelineInv
    <2> SUFFICES ASSUME PipelineInit PROVE PipelineInv
      OBVIOUS
    <2> USE PipelineAssumption DEF PipelineInit
    <2>1. ServerOK /\ IndexedOK
      <3>1. MaxCalls \in Nat
        BY DEF PipelineAssumption
      <3>2. rpcs \in 0..MaxCalls
        BY <3>1
      <3> QED  BY <3>2 DEF ServerOK, IndexedOK
    <2>9. ChannelBuffer \in Nat /\ MaxLasts \in Nat
      BY DEF PipelineAssumption
    <2>10. SourceOK /\ ChannelOK
      BY <2>9 DEF SourceOK, ChannelOK
    <2>11. WorkersOK
      BY <2>9 DEF WorkersOK
    <2>2. PassedOK
      BY FS_EmptySet DEF PassedOK
    <2>3. LoopOK /\ \A s \in Streams : loop[s].pc \in {"subscribe", "returned"}
      BY DEF LoopOK, Loop, LoopState
    <2>4. PipelineTypeOK
      BY <2>1, <2>2, <2>3, <2>10, <2>11, PipelineTypeParts DEF TypeParts
    <2>5. EventsInOrder /\ SentIsKept /\ PassedIsKept
      BY <2>3 DEF EventsInOrder, InOrder, SentIsKept, PassedIsKept
    <2>6. EventsCounted
      <3>1. ASSUME NEW s PROVE Count(s, {}) = 0
        <4>1. {e \in {} : e[1] = s} = {}
          OBVIOUS
        <4> QED  BY <4>1, FS_EmptySet DEF Count
      <3> QED  BY <3>1 DEF EventsCounted
    <2>7. EventsSummarised
      <3>1. Busy = {}
        BY DEF Busy
      <3>2. Cardinality(Busy) = 0 /\ seen["header"] = 0 /\ seen["transfer"] = 0 /\ Len(lasts) = 0
        BY <3>1, FS_EmptySet DEF Streams
      <3>3. Min({MaxLasts, 0}) = 0
        BY MinOfTwo DEF PipelineAssumption
      <3>4. Summaries = 0
        BY <3>2 DEF Summaries
      <3> QED  BY <3>2, <3>3, <3>4 DEF EventsSummarised
    <2>8. StoppedInOrder /\ PanicsOnlyWhenStopping
      BY DEF StoppedInOrder, PanicsOnlyWhenStopping
    <2> QED
      BY <2>4, <2>5, <2>6, <2>7, <2>8 DEF PipelineInv
  <1>2. PipelineInv /\ [PipelineNext]_pipelineVars => PipelineInv'
    BY PipelineAssumption, PipelineTypeNext, OrderNext, KeptNext, CountedNext, SummarisedNext, StoppedNext, PanicNext
       DEF PipelineInv
  <1> QED  BY <1>1, <1>2, PTL DEF PipelineSpec

(* Bus.Start, Bus.Wait and the end of main: for any number of workers and  *)
(* events the process exits with nothing accepted left uncounted.          *)
THEOREM ExitDrains == PipelineSpec => []ExitIsDrained
  <1>1. PipelineInv => ExitIsDrained
    <2> SUFFICES ASSUME PipelineInv, main = "exited" PROVE
                   /\ rpcs = 0
                   /\ \A s \in Streams : channel[s] = <<>> /\ seen[s] = Count(s, accepted)
                   /\ Len(lasts) = Min({MaxLasts, Cardinality(accepted)})
      BY DEF ExitIsDrained
    <2> USE DEF PipelineInv
    <2>1. rpcs = 0 /\ \A w \in Workers : worker[w] = "done"
      BY DEF StoppedInOrder
    <2>2. ASSUME NEW s \in Streams PROVE channel[s] = <<>>
      <3>1. \E w \in Workers : StreamOf(w) = s
        BY PipelineAssumption DEF PipelineAssumption, Workers, StreamOf, Streams
      <3> QED  BY <2>1, <3>1 DEF StoppedInOrder
    <2>3. ASSUME NEW s \in Streams PROVE seen[s] = Count(s, accepted)
      <3>1. Len(channel[s]) = 0 /\ seen[s] \in Nat
        BY <2>2 DEF PipelineTypeOK
      <3> QED  BY <3>1 DEF EventsCounted
    <2>4. Busy = {}
      BY <2>1 DEF Busy
    <2>5. Cardinality(Busy) = 0
      BY <2>4, FS_EmptySet
    <2>6. Cardinality(accepted) = seen["header"] + seen["transfer"]
      <3>1. accepted \in SUBSET (Streams \X Nat) /\ IsFiniteSet(accepted)
        BY DEF PipelineTypeOK
      <3> QED  BY <2>3, <3>1, CountParts DEF Streams
    <2>7. seen["header"] \in Nat /\ seen["transfer"] \in Nat
      BY DEF PipelineTypeOK, Streams
    <2>8. Len(lasts) = Min({MaxLasts, Cardinality(accepted)})
      <3>1. Summaries = Cardinality(accepted)
        BY <2>5, <2>6, <2>7 DEF Summaries
      <3> QED  BY <3>1 DEF EventsSummarised
    <2> QED  BY <2>1, <2>2, <2>3, <2>8
  <1> QED  BY <1>1, PipelineInvariant, PTL

(* SubmitHeader and SubmitTransferLog, for every instance.                 *)
THEOREM PassedAreKept == PipelineSpec => []PassedIsKept
  BY PipelineInvariant, PTL DEF PipelineInv

(* A send on a closed channel, for every instance.                         *)
THEOREM PanicsAreLate == PipelineSpec => []PanicsOnlyWhenStopping
  BY PipelineInvariant, PTL DEF PipelineInv
=============================================================================
