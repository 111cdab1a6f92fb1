------------------------ MODULE TerminalStreamProofs ------------------------
(***************************************************************************)
(* Proofs about TerminalStream: its types, and that an open view shows     *)
(* what the host showed, for every number of views, sizes and capacities.  *)
(***************************************************************************)
EXTENDS TerminalStream, TLAPS

States == {"off", "open", "closed", "ended"} \cup Failures
Stages == {"idle", "asked", "answered", "refused", "held"}

\* The types without the bounds of the queues.
Types ==
  /\ phase \in {"running", "stopping", "closed"}
  /\ sequence \in Nat
  /\ screen \in Screen
  /\ diverged \in BOOLEAN
  /\ entry \subseteq View
  /\ behind \in [View -> BOOLEAN]
  /\ data \in [View -> Seq(Nat)]
  /\ control \in [View -> Seq(ControlFrame)]
  /\ state \in [View -> States]
  /\ next \in [View -> Nat]
  /\ resizes \in [View -> Seq(ControlFrame)]
  /\ closing \in [View -> SUBSET Nat]
  /\ polled \in [View -> BOOLEAN]
  /\ shown \in [View -> Screen]
  /\ want \in [View -> BOOLEAN]
  /\ retry \in [View -> BOOLEAN]
  /\ stage \in [View -> Stages]
  /\ cut \in [View -> Cut]

Bounds ==
  \A v \in View : /\ Len(data[v]) <= DataCapacity
                  /\ Len(control[v]) <= ControlCapacity
                  /\ Len(resizes[v]) <= MaxPendingResizes

\* TypeOK split into what a step types and what it bounds.
LEMMA TypeParts == TypeOK <=> Types /\ Bounds
  BY DEF TypeOK, Types, Bounds, States, Stages

Queues == [control : {c \in Seq(ControlFrame) : Len(c) <= ControlCapacity},
           behind : BOOLEAN]

\* Delivering a frame keeps a queue within its type and its bound.
LEMMA DeliverType ==
  ASSUME NEW q \in Queues, NEW frame \in ControlFrame
  PROVE  Deliver(q, frame) \in Queues
  <1>1. CASE q.behind /\ frame.kind = "resize"
    BY <1>1 DEF Deliver
  <1>2. CASE ~(q.behind /\ frame.kind = "resize") /\ Len(q.control) < ControlCapacity
    <2>1. /\ Append(q.control, frame) \in Seq(ControlFrame)
          /\ Len(Append(q.control, frame)) <= ControlCapacity
      BY <1>2, StreamAssumption DEF Queues
    <2>2. (q.behind /\ frame.kind # "snapshot") \in BOOLEAN
      OBVIOUS
    <2> QED BY <1>2, <2>1, <2>2 DEF Deliver, Queues
  <1>3. CASE ~(q.behind /\ frame.kind = "resize") /\ ~(Len(q.control) < ControlCapacity)
    BY <1>3 DEF Deliver, Queues
  <1> QED BY <1>1, <1>2, <1>3

\* The frames that the actor sends are control frames.
LEMMA FrameTypes ==
  ASSUME Types
  PROVE  /\ \A size \in Size : ResizeFrame(size) \in ControlFrame
         /\ SnapshotFrame \in ControlFrame
  <1>1. <<>> \in Seq(Size)
    OBVIOUS
  <1> QED BY <1>1 DEF Types, ResizeFrame, SnapshotFrame, ControlFrame, Screen

\* The control queue of a view, as Deliver sees it, has its type and bound.
LEMMA QueueType ==
  ASSUME Types, Bounds, NEW v \in View
  PROVE  Queue(v) \in Queues
  BY DEF Types, Bounds, Queue, Queues

\* A step that feeds the control queues of all views keeps their types.
LEMMA FeedType ==
  ASSUME Types, Bounds, NEW after \in [View -> Queues], Feed(after)
  PROVE  /\ control' \in [View -> Seq(ControlFrame)]
         /\ behind' \in [View -> BOOLEAN]
         /\ entry' \subseteq View
         /\ \A v \in View : Len(control'[v]) <= ControlCapacity
  <1>1. \A v \in View : /\ after[v].control \in Seq(ControlFrame)
                        /\ Len(after[v].control) <= ControlCapacity
                        /\ after[v].behind \in BOOLEAN
    BY DEF Queues
  <1> QED BY <1>1 DEF Feed, Types, Bounds

\* The end of a stream keeps every type.
LEMMA EndsAsType ==
  ASSUME Types, Bounds, NEW v \in View, NEW how \in States, EndsAs(v, how)
  PROVE  Types' /\ Bounds'
  <1>1. Len(<<>>) = 0 /\ \A S : <<>> \in Seq(S)
    OBVIOUS
  <1>2. [shown[v] EXCEPT !.drawn = <<>>] \in Screen
    BY <1>1 DEF Types, Screen
  <1>3. shown' \in [View -> Screen]
    BY <1>2 DEF Types, EndsAs
  <1>4. Types'
    BY <1>1, <1>3 DEF Types, EndsAs, hostVars, Stages
  <1>5. Bounds'
    BY <1>1, StreamAssumption DEF Types, Bounds, EndsAs
  <1> QED BY <1>4, <1>5

(***************************************************************************)
(* TypeOK: every step keeps the types and the bounds of the queues, those  *)
(* of the two channels of Subscribers::subscribe and of the resizes that   *)
(* recv keeps.                                                             *)
(***************************************************************************)
LEMMA InitType == Init => Types /\ Bounds
  <1> SUFFICES ASSUME Init PROVE Types /\ Bounds
    OBVIOUS
  <1>0. Len(<<>>) = 0 /\ \A S : <<>> \in Seq(S)
    OBVIOUS
  <1>1. screen \in Screen
    <2>1. PICK size \in Size : screen = [size |-> size, drawn |-> <<>>]
      BY DEF Init
    <2> QED BY <2>1, <1>0 DEF Screen
  <1>2. Types
    BY <1>0, <1>1 DEF Init, Types, Cut, States, Stages
  <1>3. Bounds
    BY <1>0, <1>1, StreamAssumption DEF Init, Bounds
  <1> QED BY <1>2, <1>3

\* Every step keeps the types and the bounds of the queues.
LEMMA NextType == Types /\ Bounds /\ [Next]_vars => Types' /\ Bounds'
  <1> SUFFICES ASSUME Types, Bounds, [Next]_vars
               PROVE  Types' /\ Bounds'
    OBVIOUS
  <1> USE DEF hostVars, feedVars, recvVars, loopVars
  <1>1. CASE ApplyOutput
    <2>1. screen' \in Screen
      <3>1. screen.drawn \in Seq(Size) /\ screen.size \in Size
        BY DEF Types, Screen
      <3>2. Append(screen.drawn, screen.size) \in Seq(Size)
        BY <3>1
      <3> QED BY <1>1, <3>1, <3>2 DEF ApplyOutput, Screen, Types
    <2>2. data' \in [View -> Seq(Nat)] /\ \A v \in View : Len(data'[v]) <= DataCapacity
      <3>1. \A v \in View : Append(data[v], sequence) \in Seq(Nat)
                            /\ Len(Append(data[v], sequence)) = Len(data[v]) + 1
                            /\ Len(data[v]) \in Nat
        BY DEF Types
      <3> QED BY <1>1, <3>1, StreamAssumption DEF ApplyOutput, SendData, Types, Bounds
    <2>3. behind' \in [View -> BOOLEAN] /\ entry' \subseteq View
      BY <1>1 DEF ApplyOutput, SendData, Types
    <2> QED BY <1>1, <2>1, <2>2, <2>3 DEF ApplyOutput, Types, Bounds
  <1>2. CASE ApplyResize
    <2>1. PICK size \in Size, taller \in Size, atPrompt \in BOOLEAN :
            /\ Feed([v \in View |->
                       Deliver(IF atPrompt THEN Deliver(Queue(v), ResizeFrame(taller))
                                           ELSE Queue(v),
                               ResizeFrame(size))])
            /\ screen' = [screen EXCEPT !.size = size]
      BY <1>2 DEF ApplyResize
    <2> DEFINE after == [v \in View |->
                       Deliver(IF atPrompt THEN Deliver(Queue(v), ResizeFrame(taller))
                                           ELSE Queue(v),
                               ResizeFrame(size))]
    <2>2. after \in [View -> Queues]
      <3> SUFFICES ASSUME NEW v \in View PROVE after[v] \in Queues
        OBVIOUS
      <3>1. Deliver(Queue(v), ResizeFrame(taller)) \in Queues /\ Queue(v) \in Queues
        BY QueueType, FrameTypes, DeliverType
      <3>2. (IF atPrompt THEN Deliver(Queue(v), ResizeFrame(taller)) ELSE Queue(v)) \in Queues
        BY <3>1
      <3> QED BY <3>2, FrameTypes, DeliverType
    <2> HIDE DEF after
    <2>3. Feed(after)
      BY <2>1 DEF after
    <2>4. screen' \in Screen
      BY <2>1 DEF Types, Screen
    <2> QED BY <1>2, <2>2, <2>3, <2>4, FeedType DEF ApplyResize, Types, Bounds
  <1>3. CASE Maintain
    <2> DEFINE after == [v \in View |->
                  IF CaughtUp(v) THEN Deliver(Queue(v), SnapshotFrame) ELSE Queue(v)]
    <2>1. after \in [View -> Queues]
      BY QueueType, FrameTypes, DeliverType
    <2> HIDE DEF after
    <2>2. Feed(after)
      BY <1>3 DEF Maintain, after
    <2> QED BY <1>3, <2>1, <2>2, FeedType DEF Maintain, Types, Bounds
  <1>4. CASE Stop
    BY <1>4 DEF Stop, Types, Bounds
  <1>5. CASE Close
    <2> DEFINE last == [kind |-> "closed", at |-> sequence, screen |-> screen]
    <2>1. last \in ControlFrame
      BY DEF Types, ControlFrame
    <2>2. \A v \in View : /\ Append(control[v], last) \in Seq(ControlFrame)
                          /\ Len(Append(control[v], last)) = Len(control[v]) + 1
                          /\ Len(control[v]) \in Nat
      BY <2>1 DEF Types
    <2>3. /\ control' \in [View -> Seq(ControlFrame)]
          /\ \A v \in View : Len(control'[v]) <= ControlCapacity
      BY <1>5, <2>2, StreamAssumption DEF Close, Types, Bounds
    <2> QED BY <1>5, <2>3 DEF Close, Types, Bounds
  <1>6. ASSUME NEW v \in View, Subscribe(v) PROVE Types' /\ Bounds'
    BY <1>6 DEF Subscribe, Types, Bounds, States
  <1>7. ASSUME NEW v \in View, Unsubscribe(v) PROVE Types' /\ Bounds'
    BY <1>7 DEF Unsubscribe, Types, Bounds
  <1>8. ASSUME NEW v \in View, CaptureFor(v) PROVE Types' /\ Bounds'
    <2>1. [at |-> sequence, screen |-> screen] \in Cut
      BY DEF Types, Cut
    <2> QED BY <1>8, <2>1 DEF CaptureFor, Types, Bounds, Stages
  <1>9. ASSUME NEW v \in View, RefuseCapture(v) PROVE Types' /\ Bounds'
    BY <1>9 DEF RefuseCapture, Types, Bounds, Stages
  <1>10. ASSUME NEW v \in View, ReadyCut(v) PROVE Types' /\ Bounds'
    <2>1. CASE EndsAs(v, "refresh regressed")
      BY <2>1, EndsAsType DEF States, Failures
    <2>2. CASE ~EndsAs(v, "refresh regressed")
      <3>1. cut[v].screen \in Screen
        BY DEF Types, Cut
      <3> QED BY <1>10, <2>2, <3>1 DEF ReadyCut, Types, Bounds, Stages
    <2> QED BY <2>1, <2>2
  <1>11. ASSUME NEW v \in View, ReadyResize(v) PROVE Types' /\ Bounds'
    <2>1. CASE EndsAs(v, "resize out of order")
      BY <2>1, EndsAsType DEF States, Failures
    <2>2. CASE ~EndsAs(v, "resize out of order")
      <3>0. /\ shown' = [shown EXCEPT ![v].size = Head(resizes[v]).screen.size]
            /\ resizes' = [resizes EXCEPT ![v] = Tail(resizes[v])]
            /\ UNCHANGED <<hostVars, feedVars, state, next, closing, polled, loopVars>>
        BY <1>11, <2>2 DEF ReadyResize
      <3>1. resizes[v] \in Seq(ControlFrame) /\ resizes[v] # <<>>
        BY <1>11 DEF ReadyResize, ResizeDue, Types
      <3>2. /\ Tail(resizes[v]) \in Seq(ControlFrame)
            /\ Len(Tail(resizes[v])) <= Len(resizes[v])
            /\ Head(resizes[v]) \in ControlFrame
        BY <3>1
      <3>3. Head(resizes[v]).screen.size \in Size
        BY <3>2 DEF ControlFrame, Screen
      <3>4. shown' \in [View -> Screen]
        BY <3>0, <3>3 DEF Types, Screen
      <3>5. /\ resizes' \in [View -> Seq(ControlFrame)]
            /\ \A w \in View : Len(resizes'[w]) <= MaxPendingResizes
        <4>1. resizes' \in [View -> Seq(ControlFrame)]
          BY <3>0, <3>2 DEF Types
        <4>2. \A w \in View : resizes'[w] = IF w = v THEN Tail(resizes[v]) ELSE resizes[w]
          BY <3>0 DEF Types
        <4>3. Len(Tail(resizes[v])) <= MaxPendingResizes
          BY <3>1, <3>2, StreamAssumption DEF Bounds
        <4> QED BY <4>1, <4>2, <4>3 DEF Bounds
      <3> QED BY <3>0, <3>4, <3>5 DEF Types, Bounds
    <2> QED BY <2>1, <2>2
  <1>12. ASSUME NEW v \in View, ReadyClose(v) PROVE Types' /\ Bounds'
    BY <1>12, EndsAsType DEF ReadyClose, States, Failures
  <1>13. ASSUME NEW v \in View, TakeResize(v) PROVE Types' /\ Bounds'
    <2>1. CASE EndsAs(v, "resize bound")
      BY <2>1, EndsAsType DEF States, Failures
    <2>2. CASE ~EndsAs(v, "resize bound")
      <3>0. /\ ~(Len(resizes[v]) >= MaxPendingResizes)
            /\ resizes' = [resizes EXCEPT ![v] = Append(resizes[v], Head(control[v]))]
            /\ control' = [control EXCEPT ![v] = Tail(control[v])]
            /\ UNCHANGED <<hostVars, entry, behind, data, state, next, closing, polled,
                           shown, loopVars>>
        BY <1>13, <2>2 DEF TakeResize, ResizesFull
      <3>1. /\ control[v] \in Seq(ControlFrame) /\ control[v] # <<>>
            /\ resizes[v] \in Seq(ControlFrame)
        BY <1>13 DEF TakeResize, Types
      <3>2. /\ Tail(control[v]) \in Seq(ControlFrame)
            /\ Len(Tail(control[v])) <= Len(control[v])
            /\ Append(resizes[v], Head(control[v])) \in Seq(ControlFrame)
            /\ Len(Append(resizes[v], Head(control[v]))) = Len(resizes[v]) + 1
        BY <3>1
      <3>3. Len(resizes[v]) < MaxPendingResizes
        BY <3>0, <3>1, StreamAssumption
      <3>4. /\ resizes' \in [View -> Seq(ControlFrame)]
            /\ \A w \in View : Len(resizes'[w]) <= MaxPendingResizes
        BY <3>0, <3>1, <3>2, <3>3, StreamAssumption DEF Types, Bounds
      <3>5. /\ control' \in [View -> Seq(ControlFrame)]
            /\ \A w \in View : Len(control'[w]) <= ControlCapacity
        BY <3>0, <3>1, <3>2, StreamAssumption DEF Types, Bounds
      <3> QED BY <3>0, <3>4, <3>5 DEF Types, Bounds
    <2> QED BY <2>1, <2>2
  <1>14. ASSUME NEW v \in View, TakeSnapshot(v) PROVE Types' /\ Bounds'
    <2>1. CASE EndsAs(v, "snapshot regressed")
      BY <2>1, EndsAsType DEF States, Failures
    <2>2. CASE ~EndsAs(v, "snapshot regressed")
      <3>0. /\ next' = [next EXCEPT ![v] = Head(control[v]).at]
            /\ shown' = [shown EXCEPT ![v] = Head(control[v]).screen]
            /\ resizes' = [resizes EXCEPT ![v] = <<>>]
            /\ stage' = [stage EXCEPT ![v] = IF stage[v] = "held" THEN "idle" ELSE stage[v]]
            /\ want' = [want EXCEPT ![v] = FALSE]
            /\ retry' = [retry EXCEPT ![v] = FALSE]
            /\ control' = [control EXCEPT ![v] = Tail(control[v])]
            /\ UNCHANGED <<hostVars, entry, behind, data, state, closing, polled, cut>>
        BY <1>14, <2>2 DEF TakeSnapshot
      <3>1. control[v] \in Seq(ControlFrame) /\ control[v] # <<>>
        BY <1>14 DEF TakeSnapshot, Types
      <3>2. /\ Tail(control[v]) \in Seq(ControlFrame)
            /\ Len(Tail(control[v])) <= Len(control[v])
            /\ Head(control[v]) \in ControlFrame
            /\ <<>> \in Seq(ControlFrame) /\ Len(<<>>) = 0
        BY <3>1
      <3>3. Head(control[v]).at \in Nat /\ Head(control[v]).screen \in Screen
        BY <3>2 DEF ControlFrame
      <3>4. /\ control' \in [View -> Seq(ControlFrame)]
            /\ \A w \in View : Len(control'[w]) <= ControlCapacity
        BY <3>0, <3>1, <3>2, StreamAssumption DEF Types, Bounds
      <3>5. /\ resizes' \in [View -> Seq(ControlFrame)]
            /\ \A w \in View : Len(resizes'[w]) <= MaxPendingResizes
        BY <3>0, <3>2, StreamAssumption DEF Types, Bounds
      <3> QED BY <3>0, <3>3, <3>4, <3>5 DEF Types, Bounds, Stages
    <2> QED BY <2>1, <2>2
  <1>15. ASSUME NEW v \in View, TakeClosed(v) PROVE Types' /\ Bounds'
    <2>1. control[v] \in Seq(ControlFrame) /\ control[v] # <<>>
      BY <1>15 DEF TakeClosed, Types
    <2>2. /\ Tail(control[v]) \in Seq(ControlFrame)
          /\ Len(Tail(control[v])) <= Len(control[v])
          /\ Head(control[v]) \in ControlFrame
      BY <2>1
    <2>3. Head(control[v]).at \in Nat
      BY <2>2 DEF ControlFrame
    <2>4. /\ control' \in [View -> Seq(ControlFrame)]
          /\ \A w \in View : Len(control'[w]) <= ControlCapacity
      BY <1>15, <2>1, <2>2, StreamAssumption DEF TakeClosed, Types, Bounds
    <2> QED BY <1>15, <2>3, <2>4 DEF TakeClosed, Types, Bounds
  <1>16. ASSUME NEW v \in View, TakeControlEnd(v) PROVE Types' /\ Bounds'
    BY <1>16, EndsAsType DEF TakeControlEnd, States
  <1>17. ASSUME NEW v \in View, PollData(v) PROVE Types' /\ Bounds'
    BY <1>17 DEF PollData, Types, Bounds
  <1>18. ASSUME NEW v \in View, TakeData(v) PROVE Types' /\ Bounds'
    <2>1. CASE EndsAs(v, "needs snapshot")
      BY <2>1, EndsAsType DEF States, Failures
    <2>2. CASE ~EndsAs(v, "needs snapshot")
      <3>0. /\ data' = [data EXCEPT ![v] = Tail(data[v])]
            /\ next' = [next EXCEPT ![v] =
                          IF Head(data[v]) = next[v] THEN next[v] + 1 ELSE next[v]]
            /\ shown' = [shown EXCEPT ![v].drawn =
                           IF Head(data[v]) = next[v]
                             THEN Append(shown[v].drawn, shown[v].size)
                             ELSE shown[v].drawn]
            /\ polled' = [polled EXCEPT ![v] = FALSE]
            /\ UNCHANGED <<hostVars, entry, behind, control, state, resizes, closing,
                           loopVars>>
        BY <1>18, <2>2 DEF TakeData
      <3>1. data[v] \in Seq(Nat) /\ data[v] # <<>> /\ next[v] \in Nat
        BY <1>18 DEF TakeData, Types
      <3>2. Tail(data[v]) \in Seq(Nat) /\ Len(Tail(data[v])) <= Len(data[v])
        BY <3>1
      <3>3. /\ shown[v].drawn \in Seq(Size)
            /\ Append(shown[v].drawn, shown[v].size) \in Seq(Size)
        BY DEF Types, Screen
      <3>4. shown' \in [View -> Screen]
        BY <3>0, <3>3 DEF Types, Screen
      <3>5. /\ data' \in [View -> Seq(Nat)]
            /\ \A w \in View : Len(data'[w]) <= DataCapacity
        <4>1. data' \in [View -> Seq(Nat)]
          BY <3>0, <3>2 DEF Types
        <4>2. \A w \in View : data'[w] = IF w = v THEN Tail(data[v]) ELSE data[w]
          BY <3>0 DEF Types
        <4>3. Len(Tail(data[v])) <= DataCapacity
          BY <3>1, <3>2, StreamAssumption DEF Bounds
        <4> QED BY <4>1, <4>2, <4>3 DEF Bounds
      <3>6. next' \in [View -> Nat]
        BY <3>0, <3>1 DEF Types
      <3> QED BY <3>0, <3>4, <3>5, <3>6 DEF Types, Bounds
    <2> QED BY <2>1, <2>2
  <1>19. ASSUME NEW v \in View, TakeDataEnd(v) PROVE Types' /\ Bounds'
    BY <1>19, EndsAsType DEF TakeDataEnd, States
  <1>20. ASSUME NEW v \in View, Park(v) PROVE Types' /\ Bounds'
    BY <1>20 DEF Park, Types, Bounds
  <1>21. ASSUME NEW v \in View, WantRefresh(v) PROVE Types' /\ Bounds'
    BY <1>21 DEF WantRefresh, Types, Bounds
  <1>22. ASSUME NEW v \in View, AskRefresh(v) PROVE Types' /\ Bounds'
    BY <1>22 DEF AskRefresh, Types, Bounds, Stages
  <1>23. ASSUME NEW v \in View, FinishRefresh(v) PROVE Types' /\ Bounds'
    BY <1>23 DEF FinishRefresh, Types, Bounds, Stages
  <1>24. ASSUME NEW v \in View, RetryDue(v) PROVE Types' /\ Bounds'
    BY <1>24 DEF RetryDue, Types, Bounds
  <1>25. ASSUME NEW v \in View, Leave(v) PROVE Types' /\ Bounds'
    BY <1>25, EndsAsType DEF Leave, States
  <1>26. CASE UNCHANGED vars
    BY <1>26 DEF vars, Types, Bounds
  <1>27. CASE ResizeDiverges
    <2>1. PICK size \in Size, taller \in Size, published \in BOOLEAN :
            /\ Feed([v \in View |-> IF published THEN Deliver(Queue(v), ResizeFrame(taller))
                                                 ELSE Queue(v)])
            /\ screen' = [screen EXCEPT !.size = size]
      BY <1>27 DEF ResizeDiverges
    <2> DEFINE after == [v \in View |-> IF published
                           THEN Deliver(Queue(v), ResizeFrame(taller)) ELSE Queue(v)]
    <2>2. after \in [View -> Queues]
      BY QueueType, FrameTypes, DeliverType
    <2> HIDE DEF after
    <2>3. Feed(after) /\ screen' \in Screen
      BY <2>1 DEF after, Types, Screen
    <2> QED BY <1>27, <2>2, <2>3, FeedType DEF ResizeDiverges, Types, Bounds
  <1> QED
    BY <1>1, <1>2, <1>3, <1>4, <1>5, <1>6, <1>7, <1>8, <1>9, <1>10, <1>11, <1>12,
       <1>13, <1>14, <1>15, <1>16, <1>17, <1>18, <1>19, <1>20, <1>21, <1>22, <1>23,
       <1>24, <1>25, <1>26, <1>27
    DEF Next, Actor, Recv, Refresh, Finished

(***************************************************************************)
(* The types of the whole state, and the bounds of buffering: neither the  *)
(* actor's sends nor the pending resizes of recv grow beyond a capacity.   *)
(***************************************************************************)
THEOREM TypeCorrect == Spec => []TypeOK
  <1>1. Init => TypeOK
    BY InitType, TypeParts
  <1>2. TypeOK /\ [Next]_vars => TypeOK'
    <2>1. TypeOK' <=> Types' /\ Bounds'
      BY DEF TypeOK, Types, Bounds, States, Stages
    <2> QED BY <2>1, NextType, TypeParts
  <1> QED BY <1>1, <1>2, PTL DEF Spec

-----------------------------------------------------------------------------
(***************************************************************************)
(* The inductive invariant behind Faithful.                                *)
(***************************************************************************)

(***************************************************************************)
(* Among the pending control frames p, the last one placed at or before    *)
(* output frame f gives the size that f will be drawn at; a view with no   *)
(* such frame draws it at the size it has.  That size is `right`.          *)
(***************************************************************************)
SizeFor(p, f, size, right) ==
  /\ (\A j \in 1 .. Len(p) : p[j].at > f) => size = right
  /\ \A j \in 1 .. Len(p) :
       p[j].at <= f /\ (\A k \in (j + 1) .. Len(p) : p[k].at > f)
         => p[j].screen.size = right

\* The place of a pending frame is never before that of an older one.
Ordered(p, last) ==
  /\ \A i \in 1 .. Len(p) : p[i].at <= last
  /\ \A i \in 1 .. Len(p) : \A j \in i .. Len(p) : p[i].at <= p[j].at

\* The first n frames that `drawn` records are those of the host.
Agrees(drawn, n, host) == Len(drawn) = n /\ \A k \in 1 .. n : drawn[k] = host[k]

\* A pending snapshot is the host's screen at its place.
SnapshotsRight(p, host) ==
  \A i \in 1 .. Len(p) :
    p[i].kind = "snapshot" => Agrees(p[i].screen.drawn, p[i].at, host)

\* Nothing follows a close, which is placed after all output.
CloseLast(p, ph, last) ==
  \A i \in 1 .. Len(p) :
    p[i].kind = "closed" => i = Len(p) /\ ph = "closed" /\ p[i].at = last

SizesRight(p, d, n, size, host) ==
  \A i \in 1 .. Len(d) : d[i] >= n => SizeFor(p, d[i], size, host[d[i] + 1])

\* The size a view has once it has acted on everything pending.
SizeAtEnd(p, size) == IF p = <<>> THEN size ELSE p[Len(p)].screen.size

\* All of these of the pending frames p of a view with data d.
PendingOK(p, d, n, size, host, last, ph) ==
  /\ Ordered(p, last)
  /\ SizesRight(p, d, n, size, host)
  /\ SnapshotsRight(p, host)
  /\ CloseLast(p, ph, last)

(***************************************************************************)
(* A view that is not behind will reach the end of the output: its data    *)
(* ends there, or it is there, or a pending snapshot is.                   *)
(***************************************************************************)
Reaches(p, d, n, last) ==
  \/ d # <<>> /\ d[Len(d)] + 1 = last
  \/ d = <<>> /\ \/ n = last
                 \/ \E i \in 1 .. Len(p) : p[i].kind = "snapshot" /\ p[i].at = last

Placed(v) ==
  /\ Len(shown[v].drawn) = next[v] /\ next[v] <= sequence
  /\ \A i \in 1 .. Len(data[v]) : data[v][i] < sequence
  /\ \A i \in 1 .. Len(resizes[v]) : resizes[v][i].kind = "resize"
  /\ closing[v] # {} => phase = "closed" /\ closing[v] = {sequence} /\ control[v] = <<>>
  /\ phase # "closed" => v \in entry

StreamOK(v) ==
  /\ Placed(v)
  /\ PendingOK(Pending(v), data[v], next[v], shown[v].size, screen.drawn, sequence, phase)
  /\ v \in entry /\ ~behind[v] => SizeAtEnd(Pending(v), shown[v].size) = screen.size
  /\ ~behind[v] => Reaches(Pending(v), data[v], next[v], sequence)
  /\ Agrees(shown[v].drawn, next[v], screen.drawn) \/ Overtaken(v)
  /\ polled[v] => ~Overtaken(v)

ViewInv(v) ==
  /\ ~Open(v) => /\ data[v] = <<>> /\ control[v] = <<>> /\ resizes[v] = <<>>
                 /\ closing[v] = {} /\ ~polled[v]
  /\ v \notin Refreshing => stage[v] = "idle" /\ ~want[v]
  /\ v \notin Refreshing /\ Open(v) /\ ~diverged => StreamOK(v)

HostInv == Len(screen.drawn) = sequence /\ (phase = "closed" => entry = {})

StreamInv == HostInv /\ \A v \in View : ViewInv(v)

-----------------------------------------------------------------------------
(***************************************************************************)
(* Facts about the pending frames p of a view, as values.                  *)
(***************************************************************************)

\* A frame that recv keeps for later stays where it is in the pending frames.
LEMMA KeepHead ==
  ASSUME NEW S, NEW r \in Seq(S), NEW c \in Seq(S), c # <<>>
  PROVE  Append(r, Head(c)) \o Tail(c) = r \o c
  OBVIOUS

\* What is sent last is pending last.
LEMMA ConcatAppend ==
  ASSUME NEW S, NEW r \in Seq(S), NEW c \in Seq(S), NEW x \in S
  PROVE  r \o Append(c, x) = Append(r \o c, x)
  OBVIOUS

\* What is taken from the control queue leaves the front of it.
LEMMA ConcatTail ==
  ASSUME NEW S, NEW r \in Seq(S), NEW c \in Seq(S), r # <<>>
  PROVE  /\ Tail(r) \o c = Tail(r \o c)
         /\ r \o c \in Seq(S) /\ r \o c # <<>>
         /\ Head(r \o c) = Head(r)
  OBVIOUS

\* The members of a sequence after Append.
LEMMA AppendFacts ==
  ASSUME NEW S, NEW s \in Seq(S), NEW x \in S
  PROVE  /\ Append(s, x) \in Seq(S) /\ Append(s, x) # <<>>
         /\ Len(Append(s, x)) = Len(s) + 1 /\ Len(s) \in Nat
         /\ Append(s, x)[Len(s) + 1] = x
         /\ \A i \in 1 .. Len(s) : Append(s, x)[i] = s[i] /\ s[i] \in S
  OBVIOUS

\* A sequence is empty when its length is zero.
LEMMA EmptyLen ==
  ASSUME NEW S, NEW s \in Seq(S)
  PROVE  s = <<>> <=> Len(s) = 0
  OBVIOUS

\* The fields of a control frame have their types.
LEMMA FrameFields ==
  ASSUME NEW f \in ControlFrame
  PROVE  /\ f.at \in Nat /\ f.kind \in {"resize", "snapshot", "closed"}
         /\ f.screen \in Screen
         /\ f.screen.size \in Size /\ f.screen.drawn \in Seq(Size)
  BY DEF ControlFrame, Screen

(***************************************************************************)
(* The actor sends one more frame, placed at the end of the output.        *)
(***************************************************************************)
LEMMA AppendPending ==
  ASSUME NEW p \in Seq(ControlFrame), NEW x \in ControlFrame, NEW d \in Seq(Nat),
         NEW n \in Nat, NEW size, NEW host, NEW last \in Nat, NEW ph,
         x.at = last,
         \A i \in 1 .. Len(d) : d[i] < last,
         Ordered(p, last), SizesRight(p, d, n, size, host),
         SnapshotsRight(p, host), CloseLast(p, ph, last), ph # "closed",
         x.kind = "snapshot" => Agrees(x.screen.drawn, x.at, host)
  PROVE  /\ Ordered(Append(p, x), last)
         /\ SizesRight(Append(p, x), d, n, size, host)
         /\ SnapshotsRight(Append(p, x), host)
         /\ \A after : x.kind = "closed" /\ after = "closed" =>
              CloseLast(Append(p, x), after, last)
         /\ x.kind # "closed" => CloseLast(Append(p, x), ph, last)
         /\ SizeAtEnd(Append(p, x), size) = x.screen.size
  <1> DEFINE q == Append(p, x)
  <1>1. /\ Len(q) = Len(p) + 1 /\ Len(p) \in Nat
        /\ q[Len(q)] = x
        /\ \A i \in 1 .. Len(p) : q[i] = p[i] /\ p[i] \in ControlFrame
        /\ q # <<>> /\ q \in Seq(ControlFrame)
    OBVIOUS
  <1>2. \A i \in 1 .. Len(p) : p[i].at \in Nat
    BY <1>1, FrameFields
  <1> HIDE DEF q
  <1>3. Ordered(q, last)
    <2>1. ASSUME NEW i \in 1 .. Len(q) PROVE q[i].at <= last
      <3>1. CASE i = Len(q)
        BY <1>1, <3>1
      <3>2. CASE i # Len(q)
        <4>1. i \in 1 .. Len(p)
          BY <1>1, <3>2
        <4> QED BY <1>1, <4>1 DEF Ordered
      <3> QED BY <3>1, <3>2
    <2>2. ASSUME NEW i \in 1 .. Len(q), NEW j \in i .. Len(q) PROVE q[i].at <= q[j].at
      <3>1. CASE j = Len(q)
        BY <1>1, <2>1, <3>1
      <3>2. CASE j # Len(q)
        <4>1. i \in 1 .. Len(p) /\ j \in i .. Len(p) /\ j \in 1 .. Len(p)
          BY <1>1, <3>2
        <4> QED BY <1>1, <4>1 DEF Ordered
      <3> QED BY <3>1, <3>2
    <2> QED BY <2>1, <2>2 DEF Ordered
  <1>4. SizesRight(q, d, n, size, host)
    <2> SUFFICES ASSUME NEW i \in 1 .. Len(d), d[i] >= n
                 PROVE  SizeFor(q, d[i], size, host[d[i] + 1])
      BY DEF SizesRight
    <2>1. SizeFor(p, d[i], size, host[d[i] + 1])
      BY DEF SizesRight
    <2>2. d[i] \in Nat /\ d[i] < last
      OBVIOUS
    <2>3. ~(q[Len(q)].at <= d[i])
      BY <1>1, <2>2
    <2>4. (\A j \in 1 .. Len(q) : q[j].at > d[i]) => size = host[d[i] + 1]
      BY <1>1, <2>1 DEF SizeFor
    <2>5. ASSUME NEW j \in 1 .. Len(q), q[j].at <= d[i],
                 \A k \in (j + 1) .. Len(q) : q[k].at > d[i]
          PROVE  q[j].screen.size = host[d[i] + 1]
      <3>1. j \in 1 .. Len(p) /\ q[j] = p[j]
        BY <1>1, <2>3, <2>5
      <3>2. \A k \in (j + 1) .. Len(p) : p[k].at > d[i]
        BY <1>1, <2>5, <3>1
      <3> QED BY <2>1, <2>5, <3>1, <3>2 DEF SizeFor
    <2> QED BY <2>4, <2>5 DEF SizeFor
  <1>5. SnapshotsRight(q, host)
    <2>1. \A i \in 1 .. Len(q) : i = Len(q) \/ i \in 1 .. Len(p)
      BY <1>1
    <2> QED BY <1>1, <2>1 DEF SnapshotsRight
  <1>6. \A i \in 1 .. Len(p) : p[i].kind # "closed"
    BY DEF CloseLast
  <1>7. x.kind # "closed" => CloseLast(q, ph, last)
    BY <1>1, <1>6 DEF CloseLast
  <1>8. \A after : x.kind = "closed" /\ after = "closed" => CloseLast(q, after, last)
    BY <1>1, <1>6 DEF CloseLast
  <1>9. SizeAtEnd(q, size) = x.screen.size
    BY <1>1 DEF SizeAtEnd
  <1> QED BY <1>3, <1>4, <1>5, <1>7, <1>8, <1>9 DEF q

(***************************************************************************)
(* The view acts on a pending frame c[1]: it takes its size, and forgets   *)
(* the frames r before it.  n becomes m, at or after the place of c[1].    *)
(***************************************************************************)
LEMMA ConsumePending ==
  ASSUME NEW r \in Seq(ControlFrame), NEW c \in Seq(ControlFrame), c # <<>>,
         NEW d \in Seq(Nat), NEW n \in Nat, NEW m \in Nat, NEW size, NEW host,
         NEW last \in Nat, NEW ph,
         m >= n, m >= Head(c).at,
         Ordered(r \o c, last), SizesRight(r \o c, d, n, size, host),
         SnapshotsRight(r \o c, host), CloseLast(r \o c, ph, last)
  PROVE  /\ Ordered(Tail(c), last)
         /\ SizesRight(Tail(c), d, m, Head(c).screen.size, host)
         /\ SnapshotsRight(Tail(c), host)
         /\ CloseLast(Tail(c), ph, last)
         /\ SizeAtEnd(Tail(c), Head(c).screen.size) = SizeAtEnd(r \o c, size)
  <1> DEFINE p == r \o c
             t == Tail(c)
             b == Len(r) + 1
  <1>a. /\ Len(p) = Len(r) + Len(c) /\ Len(r) \in Nat /\ Len(c) \in Nat /\ Len(c) >= 1
        /\ t \in Seq(ControlFrame) /\ Len(t) = Len(c) - 1 /\ p # <<>>
        /\ Head(c) = c[1] /\ Head(c) \in ControlFrame
    OBVIOUS
  <1>b. \A i \in 1 .. Len(c) : p[Len(r) + i] = c[i]
    OBVIOUS
  <1>c. \A i \in 1 .. Len(t) : t[i] = c[i + 1] /\ t[i] \in ControlFrame
    OBVIOUS
  <1>d. b \in Nat /\ b = Len(r) + 1
    BY <1>a
  <1> HIDE DEF p, t, b
  <1>0. t = <<>> <=> Len(t) = 0
    BY <1>a, EmptyLen
  <1>1. /\ Len(p) = b + Len(t) /\ Len(t) \in Nat /\ b \in 1 .. Len(p)
        /\ p # <<>> /\ p[b] = Head(c) /\ Head(c) \in ControlFrame
        /\ \A i \in 1 .. Len(t) : t[i] = p[b + i] /\ t[i] \in ControlFrame
    <2>1. \A i \in 1 .. Len(t) : i + 1 \in 1 .. Len(c) /\ Len(r) + (i + 1) = b + i
      BY <1>a, <1>d
    <2>2. 1 \in 1 .. Len(c)
      BY <1>a
    <2> QED BY <1>a, <1>b, <1>c, <1>d, <2>1, <2>2
  <1>2. Head(c).at \in Nat /\ \A i \in 1 .. Len(t) : t[i].at \in Nat
    BY <1>1, FrameFields
  <1>3. Ordered(p, last) /\ SizesRight(p, d, n, size, host)
        /\ SnapshotsRight(p, host) /\ CloseLast(p, ph, last)
    BY DEF p
  <1>4. Ordered(t, last)
    <2>1. ASSUME NEW i \in 1 .. Len(t) PROVE b + i \in 1 .. Len(p)
      BY <1>1, <1>d
    <2>2. ASSUME NEW i \in 1 .. Len(t), NEW j \in i .. Len(t)
          PROVE  b + j \in (b + i) .. Len(p) /\ j \in 1 .. Len(t)
      BY <1>1, <1>d
    <2> QED BY <1>1, <1>3, <2>1, <2>2 DEF Ordered
  <1>5. SizesRight(t, d, m, Head(c).screen.size, host)
    <2> SUFFICES ASSUME NEW i \in 1 .. Len(d), d[i] >= m
                 PROVE  SizeFor(t, d[i], Head(c).screen.size, host[d[i] + 1])
      BY DEF SizesRight
    <2>0. d[i] \in Nat
      OBVIOUS
    <2>1. SizeFor(p, d[i], size, host[d[i] + 1])
      BY <1>3, <2>0 DEF SizesRight
    <2>2. p[b].at <= d[i]
      BY <1>1, <1>2, <2>0
    <2>3. (\A j \in 1 .. Len(t) : t[j].at > d[i]) => Head(c).screen.size = host[d[i] + 1]
      <3> SUFFICES ASSUME \A j \in 1 .. Len(t) : t[j].at > d[i]
                   PROVE  p[b].screen.size = host[d[i] + 1]
        BY <1>1
      <3>1. ASSUME NEW k \in (b + 1) .. Len(p) PROVE p[k].at > d[i]
        <4>1. k - b \in 1 .. Len(t) /\ b + (k - b) = k
          BY <1>1, <1>d
        <4> QED BY <1>1, <4>1
      <3> QED BY <1>1, <2>1, <2>2, <3>1 DEF SizeFor
    <2>4. ASSUME NEW j \in 1 .. Len(t), t[j].at <= d[i],
                 \A k \in (j + 1) .. Len(t) : t[k].at > d[i]
          PROVE  t[j].screen.size = host[d[i] + 1]
      <3>1. b + j \in 1 .. Len(p) /\ p[b + j] = t[j]
        BY <1>1, <1>d
      <3>2. ASSUME NEW k \in (b + j + 1) .. Len(p) PROVE p[k].at > d[i]
        <4>1. /\ k - b \in (j + 1) .. Len(t) /\ k - b \in 1 .. Len(t)
              /\ b + (k - b) = k
          BY <1>1, <1>d
        <4> QED BY <1>1, <4>1, <2>4
      <3> QED BY <2>1, <2>4, <3>1, <3>2 DEF SizeFor
    <2> QED BY <2>3, <2>4 DEF SizeFor
  <1>6. SnapshotsRight(t, host)
    <2>1. ASSUME NEW i \in 1 .. Len(t) PROVE b + i \in 1 .. Len(p)
      BY <1>1, <1>d
    <2> QED BY <1>1, <1>3, <2>1 DEF SnapshotsRight
  <1>7. CloseLast(t, ph, last)
    <2>1. ASSUME NEW i \in 1 .. Len(t)
          PROVE  b + i \in 1 .. Len(p) /\ (b + i = Len(p) => i = Len(t))
      BY <1>1, <1>d
    <2> QED BY <1>1, <1>3, <2>1 DEF CloseLast
  <1>8. SizeAtEnd(t, Head(c).screen.size) = SizeAtEnd(p, size)
    <2>1. CASE Len(t) = 0
      BY <1>0, <1>1, <2>1 DEF SizeAtEnd
    <2>2. CASE Len(t) # 0
      <3>1. Len(t) \in 1 .. Len(t)
        BY <1>1, <2>2
      <3> QED BY <1>0, <1>1, <2>2, <3>1 DEF SizeAtEnd
    <2> QED BY <2>1, <2>2
  <1> QED BY <1>4, <1>5, <1>6, <1>7, <1>8 DEF p, t

(***************************************************************************)
(* The host draws one more frame at size x, after frame Len(host) - 1; a   *)
(* view that gets it will draw it at the size it has at the end.           *)
(***************************************************************************)
LEMMA GrowHost ==
  ASSUME NEW p \in Seq(ControlFrame), NEW d \in Seq(Nat), NEW n \in Nat, NEW size,
         NEW host \in Seq(Size), NEW x \in Size, NEW ph, ph # "closed",
         \A i \in 1 .. Len(d) : d[i] < Len(host),
         PendingOK(p, d, n, size, host, Len(host), ph)
  PROVE  /\ PendingOK(p, d, n, size, Append(host, x), Len(host) + 1, ph)
         /\ SizeAtEnd(p, size) = x =>
              PendingOK(p, Append(d, Len(host)), n, size, Append(host, x),
                        Len(host) + 1, ph)
         /\ \A m \in 0 .. Len(host) : \A drawn :
              Agrees(drawn, m, host) => Agrees(drawn, m, Append(host, x))
  <1> DEFINE last == Len(host)
             h == Append(host, x)
             e == Append(d, last)
  <1>1. /\ last \in Nat /\ Len(p) \in Nat /\ Len(d) \in Nat
        /\ \A k \in 1 .. last : h[k] = host[k]
        /\ h[last + 1] = x
        /\ e \in Seq(Nat) /\ Len(e) = Len(d) + 1 /\ e[Len(d) + 1] = last
        /\ \A i \in 1 .. Len(d) : e[i] = d[i]
        /\ \A i \in 1 .. Len(d) : d[i] \in Nat
        /\ \A i \in 1 .. Len(p) : p[i] \in ControlFrame
    OBVIOUS
  <1>2. \A i \in 1 .. Len(p) : p[i].at \in Nat /\ p[i].at <= last
    BY <1>1, FrameFields DEF PendingOK, Ordered
  <1>3. p = <<>> <=> Len(p) = 0
    BY EmptyLen
  <1> HIDE DEF h, e, last
  <1>4. last = Len(host)
    BY DEF last
  <1>5. ASSUME NEW m \in 0 .. last, NEW drawn, Agrees(drawn, m, host)
        PROVE  Agrees(drawn, m, h)
    <2>1. \A k \in 1 .. m : k \in 1 .. last
      BY <1>1
    <2> QED BY <1>1, <1>5, <2>1 DEF Agrees
  <1>6. Ordered(p, last + 1)
    BY <1>1, <1>2, <1>4 DEF PendingOK, Ordered
  <1>7. SnapshotsRight(p, h)
    <2>1. ASSUME NEW i \in 1 .. Len(p) PROVE p[i].at \in 0 .. last
      BY <1>1, <1>2
    <2> QED BY <1>5, <2>1 DEF PendingOK, SnapshotsRight
  <1>8. CloseLast(p, ph, last + 1)
    BY DEF PendingOK, CloseLast
  <1>9. SizesRight(p, d, n, size, h)
    <2>1. ASSUME NEW i \in 1 .. Len(d) PROVE h[d[i] + 1] = host[d[i] + 1]
      <3>1. d[i] + 1 \in 1 .. last
        <4>1. d[i] \in Nat /\ d[i] < last
          BY <1>1, <1>4
        <4>2. last \in Nat
          BY <1>1
        <4> QED BY <4>1, <4>2
      <3> QED BY <1>1, <3>1
    <2> QED BY <2>1 DEF PendingOK, SizesRight
  <1>10. ASSUME SizeAtEnd(p, size) = x PROVE SizesRight(p, e, n, size, h)
    <2> SUFFICES ASSUME NEW i \in 1 .. Len(e), e[i] >= n
                 PROVE  SizeFor(p, e[i], size, h[e[i] + 1])
      BY DEF SizesRight
    <2>1. CASE i \in 1 .. Len(d)
      BY <1>1, <1>9, <2>1 DEF SizesRight
    <2>2. CASE i \notin 1 .. Len(d)
      <3>1. e[i] = last /\ h[e[i] + 1] = x
        <4>1. i = Len(d) + 1
          BY <1>1, <2>2
        <4> QED BY <1>1, <4>1
      <3>2. ASSUME \A j \in 1 .. Len(p) : p[j].at > last PROVE size = x
        <4>1. Len(p) = 0
          <5> SUFFICES ASSUME Len(p) # 0 PROVE FALSE
            OBVIOUS
          <5>1. 1 \in 1 .. Len(p)
            BY <1>1
          <5>2. p[1].at \in Nat /\ p[1].at <= last /\ p[1].at > last /\ last \in Nat
            BY <1>1, <1>2, <3>2, <5>1
          <5> QED BY <5>2
        <4> QED BY <1>3, <1>10, <4>1 DEF SizeAtEnd
      <3>3. ASSUME NEW j \in 1 .. Len(p), \A k \in (j + 1) .. Len(p) : p[k].at > last
            PROVE  p[j].screen.size = x
        <4>1. j = Len(p)
          <5> SUFFICES ASSUME j # Len(p) PROVE FALSE
            OBVIOUS
          <5>1. Len(p) \in (j + 1) .. Len(p) /\ Len(p) \in 1 .. Len(p)
            BY <1>1
          <5>2. p[Len(p)].at > last
            BY <3>3, <5>1
          <5>3. p[Len(p)].at \in Nat /\ p[Len(p)].at <= last /\ last \in Nat
            BY <1>1, <1>2, <5>1
          <5> QED BY <5>2, <5>3
        <4>2. p # <<>>
          BY <1>1, <1>3
        <4> QED BY <1>10, <4>1, <4>2 DEF SizeAtEnd
      <3> QED BY <3>1, <3>2, <3>3 DEF SizeFor
    <2> QED BY <2>1, <2>2
  <1> QED BY <1>4, <1>5, <1>6, <1>7, <1>8, <1>9, <1>10 DEF PendingOK, h, e, last

\* The pending frames q begin with the pending frames p.
Extends(p, q) == /\ Len(p) <= Len(q)
                 /\ \A i \in 1 .. Len(p) : q[i] = p[i]

-----------------------------------------------------------------------------
(***************************************************************************)
(* Facts about the steps.                                                  *)
(***************************************************************************)

SameView(w) ==
  /\ state'[w] = state[w] /\ next'[w] = next[w] /\ resizes'[w] = resizes[w]
  /\ closing'[w] = closing[w] /\ polled'[w] = polled[w] /\ shown'[w] = shown[w]
  /\ data'[w] = data[w] /\ control'[w] = control[w]
  /\ stage'[w] = stage[w] /\ want'[w] = want[w] /\ behind'[w] = behind[w]

\* A view that a step does not touch keeps its invariant.
LEMMA Untouched ==
  ASSUME NEW w \in View, ViewInv(w), SameView(w),
         UNCHANGED <<sequence, screen, phase, diverged>>,
         w \in entry' => w \in entry,
         Open(w) /\ w \in entry => w \in entry'
  PROVE  ViewInv(w)'
  BY DEF ViewInv, SameView, StreamOK, Placed, Open, Pending, Overtaken

\* A step of the task of v leaves the actor and the other views alone.
OnlyView(v) ==
  /\ UNCHANGED <<phase, sequence, screen, diverged, entry>>
  /\ \A w \in View \ {v} : SameView(w)

\* A step of one view keeps StreamInv when it keeps the invariant of that view.
LEMMA ViewStep ==
  ASSUME NEW v \in View, StreamInv, OnlyView(v), ViewInv(v)'
  PROVE  StreamInv'
  <1>1. HostInv'
    BY DEF StreamInv, HostInv, OnlyView
  <1>2. ASSUME NEW w \in View PROVE ViewInv(w)'
    BY Untouched DEF StreamInv, OnlyView
  <1> QED BY <1>1, <1>2 DEF StreamInv

\* Ending a stream, for whatever reason, keeps StreamInv.
LEMMA EndStep ==
  ASSUME Types, NEW v \in View, StreamInv, NEW how \in States, how # "open", EndsAs(v, how)
  PROVE  StreamInv'
  <1>1. OnlyView(v)
    BY DEF EndsAs, OnlyView, SameView, Types, hostVars
  <1>2. ViewInv(v)'
    BY DEF EndsAs, ViewInv, Open, Types
  <1> QED BY <1>1, <1>2, ViewStep

-----------------------------------------------------------------------------
(***************************************************************************)
(* Output: the host draws a frame and every view that keeps up gets it.    *)
(***************************************************************************)
LEMMA PendingType ==
  ASSUME Types, NEW w \in View
  PROVE  Pending(w) \in Seq(ControlFrame)
  BY DEF Types, Pending

\* LocalActor::output keeps StreamInv.
LEMMA OutputStep ==
  ASSUME Types, StreamInv, ApplyOutput
  PROVE  StreamInv'
  <1> USE DEF recvVars, loopVars
  <1>0. /\ screen.drawn \in Seq(Size) /\ screen.size \in Size /\ sequence \in Nat
        /\ sequence = Len(screen.drawn)
    BY DEF Types, Screen, StreamInv, HostInv
  <1>1. /\ screen'.drawn = Append(screen.drawn, screen.size)
        /\ screen'.size = screen.size
    BY DEF ApplyOutput, Types, Screen
  <1>2. /\ phase # "closed" /\ phase' = phase /\ sequence' = sequence + 1
        /\ UNCHANGED <<diverged, control, state, next, resizes, closing, polled, shown,
                       stage, want>>
    BY DEF ApplyOutput
  <1>3. HostInv'
    <2>1. Len(screen'.drawn) = sequence + 1
      BY <1>0, <1>1
    <2> QED BY <1>2, <2>1 DEF HostInv
  <1>4. ASSUME NEW w \in View PROVE ViewInv(w)'
    <2>0. /\ entry' = {v \in entry : Active(v)}
          /\ data'[w] = IF w \in entry /\ Active(w) /\ ~behind[w]
                            /\ Len(data[w]) < DataCapacity
                          THEN Append(data[w], sequence) ELSE data[w]
          /\ behind'[w] = (behind[w] \/ (w \in entry /\ Active(w) /\ ~behind[w]
                                         /\ ~(Len(data[w]) < DataCapacity)))
      BY DEF ApplyOutput, SendData
    <2>1. CASE ~Open(w)
      <3>1. data'[w] = data[w]
        BY <2>0, <2>1 DEF Active
      <3> QED BY <1>2, <2>1, <3>1 DEF StreamInv, ViewInv, Open
    <2>2. CASE Open(w) /\ (w \in Refreshing \/ diverged)
      BY <1>2, <2>2 DEF StreamInv, ViewInv, Open
    <2>3. CASE Open(w) /\ ~(w \in Refreshing \/ diverged)
      <3> DEFINE p == Pending(w)
      <3>1. StreamOK(w) /\ stage[w] = "idle" /\ ~want[w]
        BY <2>3 DEF StreamInv, ViewInv
      <3>2. w \in entry /\ Active(w) /\ w \in entry' /\ closing[w] = {}
        BY <1>2, <2>0, <2>3, <3>1 DEF StreamOK, Placed, Active
      <3>3. /\ p \in Seq(ControlFrame) /\ data[w] \in Seq(Nat) /\ next[w] \in Nat
            /\ shown[w].drawn \in Seq(Size) /\ behind[w] \in BOOLEAN
        BY PendingType DEF Types, Screen
      <3>4. /\ next[w] <= sequence /\ Len(shown[w].drawn) = next[w]
            /\ \A i \in 1 .. Len(data[w]) : data[w][i] < sequence
            /\ PendingOK(p, data[w], next[w], shown[w].size, screen.drawn, sequence, phase)
        BY <3>1 DEF StreamOK, Placed
      <3>5. /\ PendingOK(p, data[w], next[w], shown[w].size, screen'.drawn, sequence', phase)
            /\ SizeAtEnd(p, shown[w].size) = screen.size =>
                 PendingOK(p, Append(data[w], sequence), next[w], shown[w].size,
                           screen'.drawn, sequence', phase)
            /\ \A m \in 0 .. sequence : \A drawn :
                 Agrees(drawn, m, screen.drawn) => Agrees(drawn, m, screen'.drawn)
        <4> HIDE DEF p
        <4> DEFINE host == screen.drawn
        <4>1. /\ \A i \in 1 .. Len(data[w]) : data[w][i] < Len(host)
              /\ PendingOK(p, data[w], next[w], shown[w].size, host, Len(host), phase)
              /\ host \in Seq(Size)
          BY <1>0, <3>4
        <4> HIDE DEF host
        <4>2. /\ PendingOK(p, data[w], next[w], shown[w].size, Append(host, screen.size),
                           Len(host) + 1, phase)
              /\ SizeAtEnd(p, shown[w].size) = screen.size =>
                   PendingOK(p, Append(data[w], Len(host)), next[w], shown[w].size,
                             Append(host, screen.size), Len(host) + 1, phase)
              /\ \A m \in 0 .. Len(host) : \A drawn :
                   Agrees(drawn, m, host) => Agrees(drawn, m, Append(host, screen.size))
          BY <1>0, <1>2, <3>3, <4>1, GrowHost
        <4> QED BY <1>0, <1>1, <1>2, <4>2 DEF host
      <3>6. Pending(w)' = p /\ (Overtaken(w)' <=> Overtaken(w))
        BY <1>2 DEF Pending, Overtaken
      <3>7. Agrees(shown[w].drawn, next[w], screen'.drawn) \/ Overtaken(w)
        <4>1. next[w] \in 0 .. sequence
          BY <1>0, <3>3, <3>4
        <4> QED BY <3>1, <3>5, <4>1 DEF StreamOK
      <3> HIDE DEF p
      <3>8. CASE ~behind[w] /\ Len(data[w]) < DataCapacity
        <4>1. data'[w] = Append(data[w], sequence) /\ ~behind'[w]
          BY <2>0, <3>2, <3>8
        <4>2. /\ data'[w] # <<>>
              /\ \A i \in 1 .. Len(data'[w]) : data'[w][i] < sequence'
              /\ data'[w][Len(data'[w])] + 1 = sequence'
          <5>1. /\ Append(data[w], sequence) # <<>>
                /\ Len(Append(data[w], sequence)) = Len(data[w]) + 1
                /\ Append(data[w], sequence)[Len(data[w]) + 1] = sequence
                /\ \A i \in 1 .. Len(data[w]) :
                     Append(data[w], sequence)[i] = data[w][i] /\ data[w][i] \in Nat
                /\ Len(data[w]) \in Nat
            <6>1. data[w] \in Seq(Nat) /\ sequence \in Nat
              BY <1>0, <3>3
            <6>2. \A t \in Seq(Nat), y \in Nat :
                    /\ Append(t, y) # <<>>
                    /\ Len(Append(t, y)) = Len(t) + 1
                    /\ Append(t, y)[Len(t) + 1] = y
                    /\ \A i \in 1 .. Len(t) : Append(t, y)[i] = t[i] /\ t[i] \in Nat
                    /\ Len(t) \in Nat
              BY AppendFacts
            <6> QED BY <6>1, <6>2
          <5>2. ASSUME NEW i \in 1 .. Len(data'[w]) PROVE data'[w][i] < sequence'
            <6>1. CASE i = Len(data[w]) + 1
              BY <1>0, <1>2, <4>1, <5>1, <6>1
            <6>2. CASE i # Len(data[w]) + 1
              <7>1. i \in 1 .. Len(data[w])
                BY <4>1, <5>1, <6>2
              <7>2. data'[w][i] = data[w][i] /\ data[w][i] \in Nat /\ data[w][i] < sequence
                BY <3>4, <4>1, <5>1, <7>1
              <7> QED BY <1>0, <1>2, <7>2
            <6> QED BY <6>1, <6>2
          <5> QED BY <1>2, <4>1, <5>1, <5>2
        <4>3. Placed(w)'
          <5>1. next[w] <= sequence'
            BY <1>0, <1>2, <3>3, <3>4
          <5> QED BY <1>2, <3>1, <3>2, <3>4, <4>2, <5>1 DEF StreamOK, Placed
        <4>4. SizeAtEnd(p, shown[w].size) = screen.size
          BY <3>1, <3>2, <3>8 DEF StreamOK, p
        <4>5. Reaches(p, data'[w], next[w], sequence')
          BY <4>2 DEF Reaches
        <4>6. StreamOK(w)'
          BY <1>1, <1>2, <3>1, <3>5, <3>6, <3>7, <4>1, <4>3, <4>4, <4>5 DEF StreamOK
        <4> QED BY <1>2, <2>3, <3>1, <4>6 DEF ViewInv, Open
      <3>9. CASE ~(~behind[w] /\ Len(data[w]) < DataCapacity)
        <4>1. data'[w] = data[w] /\ behind'[w]
          BY <2>0, <3>2, <3>3, <3>9
        <4>2. Placed(w)'
          <5>1. \A i \in 1 .. Len(data'[w]) : data'[w][i] < sequence'
            BY <1>0, <1>2, <3>3, <3>4, <4>1
          <5> QED BY <1>0, <1>2, <3>1, <3>2, <3>3, <3>4, <5>1 DEF StreamOK, Placed
        <4>3. StreamOK(w)'
          BY <1>1, <1>2, <3>1, <3>5, <3>6, <3>7, <4>1, <4>2 DEF StreamOK
        <4> QED BY <1>2, <2>3, <3>1, <4>3 DEF ViewInv, Open
      <3> QED BY <3>8, <3>9
    <2> QED BY <2>1, <2>2, <2>3
  <1> QED BY <1>3, <1>4 DEF StreamInv

-----------------------------------------------------------------------------
(***************************************************************************)
(* Control frames: what Subscriber::deliver does to the queue q of a view. *)
(***************************************************************************)
FedPending(v, q) == resizes[v] \o q.control

Fed(v, q) ==
  /\ q \in Queues
  /\ PendingOK(FedPending(v, q), data[v], next[v], shown[v].size, screen.drawn,
               sequence, phase)
  /\ Extends(Pending(v), FedPending(v, q))
  /\ \A i \in 1 .. Len(FedPending(v, q)) :
       i > Len(Pending(v)) => FedPending(v, q)[i].at = sequence
  /\ ~q.behind => Reaches(FedPending(v, q), data[v], next[v], sequence)

\* A queue that gets nothing is fed.
LEMMA QueueFed ==
  ASSUME Types, Bounds, NEW v \in View, StreamOK(v)
  PROVE  Fed(v, Queue(v)) /\ FedPending(v, Queue(v)) = Pending(v)
  <1>1. FedPending(v, Queue(v)) = Pending(v) /\ Queue(v).behind = behind[v]
    BY DEF FedPending, Queue, Pending
  <1>2. Len(Pending(v)) \in Nat
    BY PendingType
  <1> QED BY <1>1, <1>2, QueueType DEF Fed, StreamOK, Extends

\* Subscriber::deliver appends the frame at the end of the output, or leaves the view behind.
LEMMA DeliverFed ==
  ASSUME Types, NEW v \in View, NEW q, Fed(v, q), NEW x \in ControlFrame,
         phase # "closed", x.at = sequence, x.kind # "closed",
         \A i \in 1 .. Len(data[v]) : data[v][i] < sequence,
         x.kind = "snapshot" =>
           data[v] = <<>> /\ Agrees(x.screen.drawn, x.at, screen.drawn)
  PROVE  /\ Fed(v, Deliver(q, x))
         /\ ~Deliver(q, x).behind =>
              SizeAtEnd(FedPending(v, Deliver(q, x)), shown[v].size) = x.screen.size
  <1> DEFINE p == FedPending(v, q)
  <1>0. /\ q.control \in Seq(ControlFrame) /\ q.behind \in BOOLEAN /\ q \in Queues
        /\ resizes[v] \in Seq(ControlFrame) /\ p \in Seq(ControlFrame)
        /\ data[v] \in Seq(Nat) /\ next[v] \in Nat /\ sequence \in Nat
        /\ Pending(v) \in Seq(ControlFrame)
    BY PendingType DEF Fed, Queues, Types, FedPending
  <1>1. CASE q.behind /\ x.kind = "resize"
    BY <1>1 DEF Deliver
  <1>2. CASE ~(q.behind /\ x.kind = "resize") /\ Len(q.control) < ControlCapacity
    <2> DEFINE a == Deliver(q, x)
    <2>1. a.control = Append(q.control, x) /\ (a.behind <=> q.behind /\ x.kind # "snapshot")
      BY <1>2 DEF Deliver
    <2>2. FedPending(v, a) = Append(p, x)
      <3>1. resizes[v] \o Append(q.control, x) = Append(resizes[v] \o q.control, x)
        <4>1. resizes[v] \in Seq(ControlFrame) /\ q.control \in Seq(ControlFrame)
          BY <1>0
        <4>2. \A r, c \in Seq(ControlFrame) : r \o Append(c, x) = Append(r \o c, x)
          BY ConcatAppend
        <4> QED BY <4>1, <4>2
      <3> QED BY <2>1, <3>1 DEF FedPending
    <2>3. a \in Queues
      BY <1>0, DeliverType
    <2> HIDE DEF a, p
    <2>4. /\ PendingOK(Append(p, x), data[v], next[v], shown[v].size, screen.drawn,
                       sequence, phase)
          /\ SizeAtEnd(Append(p, x), shown[v].size) = x.screen.size
      <3>1. PendingOK(p, data[v], next[v], shown[v].size, screen.drawn, sequence, phase)
        BY DEF Fed, p
      <3>2. /\ Ordered(p, sequence)
            /\ SizesRight(p, data[v], next[v], shown[v].size, screen.drawn)
            /\ SnapshotsRight(p, screen.drawn)
            /\ CloseLast(p, phase, sequence)
        BY <3>1 DEF PendingOK
      <3>3. p \in Seq(ControlFrame) /\ data[v] \in Seq(Nat) /\ next[v] \in Nat
            /\ sequence \in Nat
        BY <1>0
      <3>4. /\ Ordered(Append(p, x), sequence)
            /\ SizesRight(Append(p, x), data[v], next[v], shown[v].size, screen.drawn)
            /\ SnapshotsRight(Append(p, x), screen.drawn)
            /\ CloseLast(Append(p, x), phase, sequence)
            /\ SizeAtEnd(Append(p, x), shown[v].size) = x.screen.size
        <4>1. x.at = sequence /\ phase # "closed" /\ x.kind # "closed"
          OBVIOUS
        <4>2. \A i \in 1 .. Len(data[v]) : data[v][i] < sequence
          OBVIOUS
        <4>3. x.kind = "snapshot" => Agrees(x.screen.drawn, x.at, screen.drawn)
          OBVIOUS
        <4> QED BY <3>2, <3>3, <4>1, <4>2, <4>3, AppendPending
      <3> QED BY <3>4 DEF PendingOK
    <2>5. /\ Len(Append(p, x)) = Len(p) + 1 /\ Len(p) \in Nat
          /\ Append(p, x)[Len(p) + 1] = x
          /\ \A i \in 1 .. Len(p) : Append(p, x)[i] = p[i]
      BY <1>0
    <2>6. Extends(Pending(v), p) /\ Len(Pending(v)) \in Nat
      BY <1>0 DEF Fed, p
    <2>7. Extends(Pending(v), Append(p, x))
      BY <2>5, <2>6 DEF Extends
    <2>8. ASSUME NEW i \in 1 .. Len(Append(p, x)), i > Len(Pending(v))
          PROVE  Append(p, x)[i].at = sequence
      <3>1. CASE i = Len(p) + 1
        BY <2>5, <3>1
      <3>2. CASE i # Len(p) + 1
        <4>1. i \in 1 .. Len(p)
          BY <2>5, <3>2
        <4> QED BY <2>5, <2>8, <4>1 DEF Fed, p
      <3> QED BY <3>1, <3>2
    <2>9. ASSUME ~a.behind PROVE Reaches(Append(p, x), data[v], next[v], sequence)
      <3>1. CASE x.kind = "snapshot"
        <4>1. Len(p) + 1 \in 1 .. Len(Append(p, x))
          BY <2>5
        <4> QED BY <2>5, <3>1, <4>1 DEF Reaches
      <3>2. CASE ~q.behind
        <4>1. Reaches(p, data[v], next[v], sequence)
          BY <3>2 DEF Fed, p
        <4>2. \A i \in 1 .. Len(p) : i \in 1 .. Len(Append(p, x))
          BY <2>5
        <4> QED BY <2>5, <4>1, <4>2 DEF Reaches
      <3> QED BY <2>1, <2>9, <3>1, <3>2
    <2> QED BY <2>2, <2>3, <2>4, <2>7, <2>8, <2>9 DEF Fed, a
  <1>3. CASE ~(q.behind /\ x.kind = "resize") /\ ~(Len(q.control) < ControlCapacity)
    <2>1. Deliver(q, x).control = q.control /\ Deliver(q, x).behind
      BY <1>3 DEF Deliver
    <2>2. Deliver(q, x) \in Queues /\ FedPending(v, Deliver(q, x)) = FedPending(v, q)
      BY <1>0, <2>1, DeliverType DEF FedPending
    <2> QED BY <2>1, <2>2 DEF Fed
  <1> QED BY <1>1, <1>2, <1>3

(***************************************************************************)
(* A step that only feeds control queues keeps the invariant of a view.    *)
(***************************************************************************)
LEMMA FedView ==
  ASSUME Types, NEW w \in View, ViewInv(w), phase # "closed", NEW q,
         phase' # "closed", sequence' = sequence, screen'.drawn = screen.drawn,
         UNCHANGED <<diverged, data, state, next, resizes, closing, polled, shown, stage,
                       want>>,
         entry' = {v \in entry : Active(v)},
         control'[w] = (IF Active(w) THEN q.control ELSE control[w]),
         behind'[w] = (IF Active(w) THEN q.behind ELSE behind[w]),
         StreamOK(w) =>
           Fed(w, q) /\ (~q.behind =>
                           SizeAtEnd(FedPending(w, q), shown[w].size) = screen'.size)
  PROVE  ViewInv(w)'
  <1>1. CASE ~Open(w)
    BY <1>1 DEF ViewInv, Open, Active
  <1>2. CASE Open(w) /\ (w \in Refreshing \/ diverged)
    BY <1>2 DEF ViewInv, Open
  <1>3. CASE Open(w) /\ ~(w \in Refreshing \/ diverged)
    <2>1. StreamOK(w) /\ stage[w] = "idle" /\ ~want[w]
      BY <1>3 DEF ViewInv
    <2>2. Active(w) /\ w \in entry' /\ closing[w] = {}
      BY <1>3, <2>1 DEF StreamOK, Placed, Active
    <2>3. Pending(w)' = FedPending(w, q) /\ behind'[w] = q.behind
      BY <2>2 DEF Pending, FedPending
    <2>4. Placed(w)'
      BY <2>1, <2>2 DEF StreamOK, Placed
    <2>5. Fed(w, q)
      BY <2>1
    <2>6. Overtaken(w) => Overtaken(w)'
      <3>1. \A i \in 1 .. Len(Pending(w)) :
              i \in 1 .. Len(FedPending(w, q)) /\ FedPending(w, q)[i] = Pending(w)[i]
        <4>1. Pending(w) \in Seq(ControlFrame)
          BY PendingType
        <4>2. FedPending(w, q) \in Seq(ControlFrame)
          BY <2>5 DEF Fed, Queues, FedPending, Types
        <4>3. Extends(Pending(w), FedPending(w, q))
          BY <2>5 DEF Fed
        <4>4. Len(Pending(w)) \in Nat /\ Len(FedPending(w, q)) \in Nat
          BY <4>1, <4>2
        <4> QED BY <4>3, <4>4 DEF Extends
      <3> QED BY <2>3, <3>1 DEF Overtaken
    <2>7. ~Overtaken(w) => ~Overtaken(w)'
      <3> SUFFICES ASSUME ~Overtaken(w), NEW i \in 1 .. Len(FedPending(w, q))
                   PROVE  ~(FedPending(w, q)[i].at < next[w])
        BY <2>3 DEF Overtaken
      <3>0. /\ Len(Pending(w)) \in Nat /\ next[w] \in Nat /\ sequence \in Nat
            /\ next[w] <= sequence
        BY <2>1, PendingType DEF Types, StreamOK, Placed
      <3>1. CASE i > Len(Pending(w))
        <4>1. FedPending(w, q)[i].at = sequence
          BY <2>5, <3>1 DEF Fed
        <4> QED BY <3>0, <4>1
      <3>2. CASE ~(i > Len(Pending(w)))
        <4>1. i \in 1 .. Len(Pending(w))
          BY <3>0, <3>2
        <4> QED BY <2>5, <4>1 DEF Fed, Extends, Overtaken
      <3> QED BY <3>1, <3>2
    <2>8. PendingOK(FedPending(w, q), data[w], next[w], shown[w].size, screen.drawn,
                    sequence, phase')
      BY <2>5 DEF Fed, PendingOK, CloseLast
    <2>9. StreamOK(w)'
      BY <2>1, <2>2, <2>3, <2>4, <2>5, <2>6, <2>7, <2>8 DEF StreamOK, Fed
    <2> QED BY <1>3, <2>1, <2>9 DEF ViewInv, Open
  <1> QED BY <1>1, <1>2, <1>3

\* Subscribers::resize, and the snapshots it sends, feed every control queue.
LEMMA ResizeFed ==
  ASSUME Types, NEW w \in View, StreamOK(w), phase # "closed", NEW q, Fed(w, q),
         NEW s \in Size
  PROVE  /\ Fed(w, Deliver(q, ResizeFrame(s)))
         /\ ~Deliver(q, ResizeFrame(s)).behind =>
              SizeAtEnd(FedPending(w, Deliver(q, ResizeFrame(s))), shown[w].size) = s
  <1>1. /\ ResizeFrame(s) \in ControlFrame
        /\ ResizeFrame(s).at = sequence
        /\ ResizeFrame(s).kind = "resize"
        /\ ResizeFrame(s).screen.size = s
    BY FrameTypes DEF ResizeFrame
  <1>2. \A i \in 1 .. Len(data[w]) : data[w][i] < sequence
    BY DEF StreamOK, Placed
  <1> QED BY <1>1, <1>2, DeliverFed

\* LocalActor::apply_resize keeps StreamInv.
LEMMA ResizeStep ==
  ASSUME Types, Bounds, StreamInv, ApplyResize
  PROVE  StreamInv'
  <1> USE DEF recvVars, loopVars
  <1>1. PICK size \in Size, taller \in Size, atPrompt \in BOOLEAN :
          /\ Feed([v \in View |->
                     Deliver(IF atPrompt THEN Deliver(Queue(v), ResizeFrame(taller))
                                         ELSE Queue(v),
                             ResizeFrame(size))])
          /\ screen' = [screen EXCEPT !.size = size]
    BY DEF ApplyResize
  <1>2. /\ screen'.drawn = screen.drawn /\ screen'.size = size
        /\ phase' = phase /\ phase # "closed" /\ sequence' = sequence
        /\ UNCHANGED <<diverged, data, state, next, resizes, closing, polled, shown, stage,
                       want>>
    BY <1>1 DEF ApplyResize, Types, Screen
  <1>3. HostInv'
    BY <1>2 DEF StreamInv, HostInv
  <1>4. ASSUME NEW w \in View PROVE ViewInv(w)'
    <2> DEFINE one == IF atPrompt THEN Deliver(Queue(w), ResizeFrame(taller)) ELSE Queue(w)
               two == Deliver(one, ResizeFrame(size))
    <2>1. /\ control'[w] = (IF Active(w) THEN two.control ELSE control[w])
          /\ behind'[w] = (IF Active(w) THEN two.behind ELSE behind[w])
          /\ entry' = {v \in entry : Active(v)}
      BY <1>1 DEF Feed
    <2>2. ASSUME StreamOK(w)
          PROVE  Fed(w, two) /\ (~two.behind =>
                   SizeAtEnd(FedPending(w, two), shown[w].size) = screen'.size)
      <3>1. Fed(w, Queue(w))
        BY <2>2, QueueFed
      <3>2. Fed(w, one)
        BY <1>2, <2>2, <3>1, ResizeFed
      <3> HIDE DEF one
      <3> QED BY <1>2, <2>2, <3>2, ResizeFed
    <2>3. ViewInv(w)
      BY DEF StreamInv
    <2> HIDE DEF two
    <2> QED BY <1>2, <2>1, <2>2, <2>3, FedView
  <1> QED BY <1>3, <1>4 DEF StreamInv

\* Once a resize has diverged nothing more is claimed of what views show.
LEMMA DivergeStep ==
  ASSUME Types, StreamInv, ResizeDiverges
  PROVE  StreamInv'
  <1> USE DEF recvVars, loopVars
  <1>1. PICK size \in Size : screen' = [screen EXCEPT !.size = size]
    BY DEF ResizeDiverges
  <1>2. HostInv'
    BY <1>1 DEF ResizeDiverges, StreamInv, HostInv, Types, Screen
  <1>3. ASSUME NEW w \in View PROVE ViewInv(w)'
    BY DEF ResizeDiverges, Feed, Active, StreamInv, ViewInv, Open
  <1> QED BY <1>2, <1>3 DEF StreamInv

\* The upkeep that brings views back with a snapshot keeps StreamInv.
LEMMA MaintainStep ==
  ASSUME Types, Bounds, StreamInv, Maintain
  PROVE  StreamInv'
  <1> USE DEF hostVars, recvVars, loopVars
  <1>1. /\ screen' = screen /\ phase' = phase /\ phase # "closed" /\ sequence' = sequence
        /\ UNCHANGED <<diverged, data, state, next, resizes, closing, polled, shown, stage,
                       want>>
    BY DEF Maintain
  <1>2. HostInv'
    BY <1>1 DEF StreamInv, HostInv
  <1>3. ASSUME NEW w \in View PROVE ViewInv(w)'
    <2> DEFINE q == IF CaughtUp(w) THEN Deliver(Queue(w), SnapshotFrame) ELSE Queue(w)
    <2>1. /\ control'[w] = (IF Active(w) THEN q.control ELSE control[w])
          /\ behind'[w] = (IF Active(w) THEN q.behind ELSE behind[w])
          /\ entry' = {v \in entry : Active(v)}
      BY DEF Maintain, Feed
    <2>2. ASSUME StreamOK(w)
          PROVE  Fed(w, q) /\ (~q.behind =>
                   SizeAtEnd(FedPending(w, q), shown[w].size) = screen'.size)
      <3>1. Fed(w, Queue(w)) /\ FedPending(w, Queue(w)) = Pending(w)
        BY <2>2, QueueFed
      <3>2. CASE CaughtUp(w)
        <4>1. /\ SnapshotFrame \in ControlFrame /\ SnapshotFrame.at = sequence
              /\ SnapshotFrame.kind = "snapshot" /\ SnapshotFrame.screen = screen
          BY FrameTypes DEF SnapshotFrame
        <4>2. Agrees(screen.drawn, sequence, screen.drawn) /\ data[w] = <<>>
          BY <3>2 DEF StreamInv, HostInv, Agrees, CaughtUp
        <4>3. \A i \in 1 .. Len(data[w]) : data[w][i] < sequence
          BY <2>2 DEF StreamOK, Placed
        <4>4. /\ Fed(w, Deliver(Queue(w), SnapshotFrame))
              /\ ~Deliver(Queue(w), SnapshotFrame).behind =>
                   SizeAtEnd(FedPending(w, Deliver(Queue(w), SnapshotFrame)), shown[w].size)
                     = SnapshotFrame.screen.size
          BY <1>1, <3>1, <4>1, <4>2, <4>3, DeliverFed
        <4> QED BY <1>1, <3>2, <4>1, <4>4
      <3>3. CASE ~CaughtUp(w)
        <4>1. w \in entry /\ Queue(w).behind = behind[w]
          BY <1>1, <2>2 DEF StreamOK, Placed, Queue
        <4> QED BY <1>1, <2>2, <3>1, <3>3, <4>1 DEF StreamOK
      <3> QED BY <3>2, <3>3
    <2>3. ViewInv(w)
      BY DEF StreamInv
    <2> HIDE DEF q
    <2> QED BY <1>1, <2>1, <2>2, <2>3, FedView
  <1> QED BY <1>2, <1>3 DEF StreamInv

\* Subscribers::close keeps StreamInv.
LEMMA CloseStep ==
  ASSUME Types, StreamInv, Close
  PROVE  StreamInv'
  <1> USE DEF recvVars, loopVars
  <1> DEFINE x == [kind |-> "closed", at |-> sequence, screen |-> screen]
  <1>1. /\ screen' = screen /\ phase' = "closed" /\ phase # "closed"
        /\ sequence' = sequence /\ entry' = {} /\ behind' = behind
        /\ UNCHANGED <<diverged, data, state, next, resizes, closing, polled, shown, stage,
                       want>>
    BY DEF Close
  <1>2. HostInv'
    BY <1>1 DEF StreamInv, HostInv
  <1>3. ASSUME NEW w \in View PROVE ViewInv(w)'
    <2>0. /\ ViewInv(w)
          /\ control'[w] = IF Active(w) /\ Len(control[w]) < ControlCapacity
                             THEN Append(control[w], x) ELSE control[w]
      BY DEF StreamInv, Close
    <2>1. CASE ~Open(w)
      BY <1>1, <2>0, <2>1 DEF ViewInv, Open, Active
    <2>2. CASE Open(w) /\ (w \in Refreshing \/ diverged)
      BY <1>1, <2>0, <2>2 DEF ViewInv, Open
    <2>3. CASE Open(w) /\ ~(w \in Refreshing \/ diverged)
      <3> DEFINE p == Pending(w)
      <3>1. StreamOK(w) /\ stage[w] = "idle" /\ ~want[w]
        BY <2>0, <2>3 DEF ViewInv
      <3>2. closing[w] = {} /\ Placed(w)'
        BY <1>1, <3>1 DEF StreamOK, Placed
      <3>3. /\ p \in Seq(ControlFrame) /\ Len(p) \in Nat /\ x \in ControlFrame
            /\ data[w] \in Seq(Nat) /\ next[w] \in Nat /\ sequence \in Nat
            /\ next[w] <= sequence
        <4>1. p \in Seq(ControlFrame)
          BY PendingType
        <4> HIDE DEF p
        <4>2. x \in ControlFrame
          BY DEF Types, ControlFrame
        <4> QED BY <3>1, <4>1, <4>2 DEF Types, StreamOK, Placed
      <3>4. PendingOK(p, data[w], next[w], shown[w].size, screen.drawn, sequence, phase)
        BY <3>1 DEF StreamOK
      <3>5. CASE Active(w) /\ Len(control[w]) < ControlCapacity
        <4>1. Pending(w)' = Append(p, x)
          <5>1. \A r, c \in Seq(ControlFrame) : r \o Append(c, x) = Append(r \o c, x)
            BY <3>3, ConcatAppend
          <5>2. resizes[w] \in Seq(ControlFrame) /\ control[w] \in Seq(ControlFrame)
            BY DEF Types
          <5>3. control'[w] = Append(control[w], x) /\ resizes'[w] = resizes[w]
            BY <1>1, <2>0, <3>5
          <5> QED BY <5>1, <5>2, <5>3 DEF Pending
        <4> HIDE DEF p
        <4>2. PendingOK(Append(p, x), data[w], next[w], shown[w].size, screen.drawn,
                        sequence, "closed")
          <5>1. /\ Ordered(p, sequence)
                /\ SizesRight(p, data[w], next[w], shown[w].size, screen.drawn)
                /\ SnapshotsRight(p, screen.drawn)
                /\ CloseLast(p, phase, sequence)
            BY <3>4 DEF PendingOK
          <5>2. \A i \in 1 .. Len(data[w]) : data[w][i] < sequence
            BY <3>1 DEF StreamOK, Placed
          <5>3. x.at = sequence /\ x.kind = "closed"
            OBVIOUS
          <5> HIDE DEF x
          <5>4. /\ Ordered(Append(p, x), sequence)
                /\ SizesRight(Append(p, x), data[w], next[w], shown[w].size, screen.drawn)
                /\ SnapshotsRight(Append(p, x), screen.drawn)
                /\ CloseLast(Append(p, x), "closed", sequence)
            BY <1>1, <3>3, <5>1, <5>2, <5>3, AppendPending
          <5> QED BY <5>4 DEF PendingOK
        <4>3. /\ Len(Append(p, x)) = Len(p) + 1
              /\ Append(p, x)[Len(p) + 1] = x
              /\ \A i \in 1 .. Len(p) : /\ Append(p, x)[i] = p[i]
                                        /\ i \in 1 .. Len(Append(p, x))
          BY <3>3
        <4>4. Overtaken(w)' <=> Overtaken(w)
          <5>1. ~(x.at < next[w])
            BY <3>3
          <5>2. \A i \in 1 .. Len(Append(p, x)) : i = Len(p) + 1 \/ i \in 1 .. Len(p)
            BY <3>3, <4>3
          <5> QED BY <1>1, <4>1, <4>3, <5>1, <5>2 DEF Overtaken, p
        <4>5. Reaches(p, data[w], next[w], sequence)
                => Reaches(Append(p, x), data[w], next[w], sequence)
          BY <4>3 DEF Reaches
        <4>6. StreamOK(w)'
          BY <1>1, <3>1, <3>2, <4>1, <4>2, <4>4, <4>5 DEF StreamOK, p
        <4> QED BY <1>1, <2>3, <3>1, <4>6 DEF ViewInv, Open
      <3>6. CASE ~(Active(w) /\ Len(control[w]) < ControlCapacity)
        <4>1. Pending(w)' = p /\ (Overtaken(w)' <=> Overtaken(w))
          BY <1>1, <2>0, <3>6 DEF Pending, Overtaken
        <4>2. PendingOK(p, data[w], next[w], shown[w].size, screen.drawn, sequence, "closed")
          BY <1>1, <3>4 DEF PendingOK, CloseLast
        <4>3. StreamOK(w)'
          BY <1>1, <3>1, <3>2, <4>1, <4>2 DEF StreamOK
        <4> QED BY <1>1, <2>3, <3>1, <4>3 DEF ViewInv, Open
      <3> QED BY <3>5, <3>6
    <2> QED BY <2>1, <2>2, <2>3
  <1> QED BY <1>2, <1>3 DEF StreamInv

-----------------------------------------------------------------------------
(***************************************************************************)
(* The steps of recv.                                                      *)
(***************************************************************************)

\* A view whose oldest pending frame is not overtaken has none that is.
LEMMA OldestFirst ==
  ASSUME NEW p \in Seq(ControlFrame), NEW n \in Nat, NEW last, Ordered(p, last),
         p # <<>>, ~(p[1].at < n)
  PROVE  \A i \in 1 .. Len(p) : ~(p[i].at < n)
  <1> SUFFICES ASSUME NEW i \in 1 .. Len(p) PROVE ~(p[i].at < n)
    OBVIOUS
  <1>1. p[1] \in ControlFrame /\ p[i] \in ControlFrame /\ 1 \in 1 .. Len(p)
        /\ i \in 1 .. Len(p)
    OBVIOUS
  <1>2. p[1].at \in Nat /\ p[i].at \in Nat
    BY <1>1, FrameFields
  <1>3. p[1].at <= p[i].at
    BY <1>1 DEF Ordered
  <1> QED BY <1>2, <1>3

\* A frame that recv keeps: the pending frames stay as they are.
LEMMA TakeResizeStep ==
  ASSUME Types, StreamInv, NEW v \in View, TakeResize(v)
  PROVE  StreamInv'
  <1> USE DEF hostVars, loopVars
  <1>1. CASE EndsAs(v, "resize bound")
    BY <1>1, EndStep DEF States, Failures
  <1>2. CASE ~EndsAs(v, "resize bound")
    <2>0. /\ resizes' = [resizes EXCEPT ![v] = Append(resizes[v], Head(control[v]))]
          /\ control' = [control EXCEPT ![v] = Tail(control[v])]
          /\ UNCHANGED <<phase, sequence, screen, diverged, entry, behind, data, state, next,
                         closing, polled, shown, stage, want>>
      BY <1>2 DEF TakeResize
    <2>1. OnlyView(v)
      BY <2>0 DEF OnlyView, SameView, Types
    <2>2. /\ Open(v) /\ closing[v] = {} /\ control[v] # <<>>
          /\ Head(control[v]).kind = "resize"
          /\ control[v] \in Seq(ControlFrame) /\ resizes[v] \in Seq(ControlFrame)
          /\ ViewInv(v)
      BY DEF TakeResize, Selecting, Types, StreamInv
    <2>3. /\ resizes'[v] = Append(resizes[v], Head(control[v]))
          /\ control'[v] = Tail(control[v])
      BY <2>0 DEF Types
    <2>4. Pending(v)' = Pending(v) /\ (Overtaken(v)' <=> Overtaken(v))
      <3>1. \A r, c \in Seq(ControlFrame) : c # <<>> => Append(r, Head(c)) \o Tail(c) = r \o c
        BY KeepHead
      <3>2. Pending(v)' = Pending(v)
        BY <2>2, <2>3, <3>1 DEF Pending
      <3> QED BY <2>0, <3>2 DEF Overtaken
    <2>5. ASSUME StreamOK(v) PROVE StreamOK(v)'
      <3>1. Placed(v)'
        <4>1. ASSUME NEW i \in 1 .. Len(resizes'[v]) PROVE resizes'[v][i].kind = "resize"
          <5> DEFINE r == resizes[v]
                     f == Head(control[v])
          <5>1. /\ Len(Append(r, f)) = Len(r) + 1 /\ Len(r) \in Nat
                /\ Append(r, f)[Len(r) + 1] = f
                /\ \A k \in 1 .. Len(r) : Append(r, f)[k] = r[k]
            BY <2>2
          <5>2. \A k \in 1 .. Len(r) : r[k].kind = "resize"
            BY <2>5 DEF StreamOK, Placed
          <5> QED BY <2>2, <2>3, <5>1, <5>2
        <4> QED BY <2>0, <2>2, <2>5, <4>1 DEF StreamOK, Placed
      <3> QED BY <2>0, <2>4, <2>5, <3>1 DEF StreamOK
    <2>6. ViewInv(v)'
      BY <2>0, <2>2, <2>5 DEF ViewInv, Open
    <2> QED BY <2>1, <2>6, ViewStep
  <1> QED BY <1>1, <1>2

\* A resize that is due takes effect between two frames of output.
LEMMA ReadyResizeStep ==
  ASSUME Types, StreamInv, NEW v \in View, ReadyResize(v)
  PROVE  StreamInv'
  <1> USE DEF hostVars, feedVars, loopVars
  <1>1. CASE EndsAs(v, "resize out of order")
    BY <1>1, EndStep DEF States, Failures
  <1>2. CASE ~EndsAs(v, "resize out of order")
    <2>0. /\ Head(resizes[v]).at = next[v]
          /\ shown' = [shown EXCEPT ![v].size = Head(resizes[v]).screen.size]
          /\ resizes' = [resizes EXCEPT ![v] = Tail(resizes[v])]
          /\ UNCHANGED <<phase, sequence, screen, diverged, entry, behind, data, control, state,
                         next, closing, polled, stage, want>>
      BY <1>2 DEF ReadyResize
    <2>1. OnlyView(v)
      BY <2>0 DEF OnlyView, SameView, Types
    <2> DEFINE p == Pending(v)
               r == resizes[v]
               c == control[v]
    <2>2. /\ Open(v) /\ ~polled[v] /\ r # <<>> /\ ViewInv(v)
          /\ r \in Seq(ControlFrame) /\ c \in Seq(ControlFrame)
          /\ data[v] \in Seq(Nat) /\ next[v] \in Nat /\ sequence \in Nat
      BY DEF ReadyResize, ResizeDue, StreamInv, Types
    <2>3. /\ shown'[v].size = Head(r).screen.size /\ shown'[v].drawn = shown[v].drawn
          /\ resizes'[v] = Tail(r)
      BY <2>0 DEF Types, Screen
    <2>4. Tail(r) \o c = Tail(r \o c) /\ r \o c # <<>> /\ Head(r \o c) = Head(r)
      <3>1. \A a, b \in Seq(ControlFrame) :
              a # <<>> => Tail(a) \o b = Tail(a \o b) /\ a \o b # <<>> /\ Head(a \o b) = Head(a)
        BY ConcatTail
      <3> QED BY <2>2, <3>1
    <2>5. /\ p \in Seq(ControlFrame) /\ p # <<>> /\ p[1] = Head(r) /\ Head(p) = Head(r)
          /\ Pending(v)' = Tail(p)
      <3>1. p \in Seq(ControlFrame) /\ p = r \o c
        BY PendingType DEF Pending
      <3>2. p # <<>> /\ Head(p) = Head(r)
        BY <2>4, <3>1
      <3> HIDE DEF p, r, c
      <3>3. p[1] = Head(p)
        BY <3>1, <3>2
      <3>4. Pending(v)' = Tail(r) \o c
        BY <2>0, <2>3 DEF Pending, r, c
      <3> QED BY <2>4, <3>1, <3>2, <3>3, <3>4
    <2>6. ASSUME StreamOK(v) PROVE StreamOK(v)'
      <3> HIDE DEF p
      <3>0. <<>> \o p = p /\ <<>> \in Seq(ControlFrame)
        BY <2>5
      <3>1. PendingOK(p, data[v], next[v], shown[v].size, screen.drawn, sequence, phase)
        BY <2>6 DEF StreamOK, p
      <3>2. Head(p).at = next[v]
        BY <2>0, <2>5
      <3>3. /\ Ordered(Tail(p), sequence)
            /\ SizesRight(Tail(p), data[v], next[v], Head(p).screen.size, screen.drawn)
            /\ SnapshotsRight(Tail(p), screen.drawn)
            /\ CloseLast(Tail(p), phase, sequence)
            /\ SizeAtEnd(Tail(p), Head(p).screen.size) = SizeAtEnd(p, shown[v].size)
        <4>1. next[v] >= next[v] /\ next[v] >= Head(p).at
          BY <2>2, <3>2
        <4>2. PICK e \in Seq(ControlFrame) : e \o p = p
          BY <3>0
        <4>3. /\ Ordered(e \o p, sequence)
              /\ SizesRight(e \o p, data[v], next[v], shown[v].size, screen.drawn)
              /\ SnapshotsRight(e \o p, screen.drawn)
              /\ CloseLast(e \o p, phase, sequence)
          BY <3>1, <4>2 DEF PendingOK
        <4>4. p \in Seq(ControlFrame) /\ p # <<>>
          BY <2>5
        <4>5. /\ Ordered(Tail(p), sequence)
              /\ SizesRight(Tail(p), data[v], next[v], Head(p).screen.size, screen.drawn)
              /\ SnapshotsRight(Tail(p), screen.drawn)
              /\ CloseLast(Tail(p), phase, sequence)
              /\ SizeAtEnd(Tail(p), Head(p).screen.size) = SizeAtEnd(e \o p, shown[v].size)
          BY <2>2, <4>1, <4>3, <4>4, ConsumePending
        <4> QED BY <4>2, <4>5
      <3>4. PendingOK(Pending(v)', data[v], next[v], shown'[v].size, screen.drawn,
                      sequence, phase)
        BY <2>3, <2>5, <3>3 DEF PendingOK
      <3>5. ~Overtaken(v)
        <4>1. ~(p[1].at < next[v])
          BY <2>2, <2>5, <3>2
        <4>2. \A i \in 1 .. Len(p) : ~(p[i].at < next[v])
          BY <2>2, <2>5, <3>1, <4>1, OldestFirst DEF PendingOK
        <4> QED BY <4>2 DEF Overtaken, p
      <3>6. /\ Len(Tail(p)) = Len(p) - 1 /\ Len(p) \in Nat
            /\ \A i \in 1 .. Len(Tail(p)) : Tail(p)[i] = p[i + 1]
        BY <2>5
      <3>7. Placed(v)'
        <4>1. \A i \in 1 .. Len(Tail(r)) : i + 1 \in 1 .. Len(r) /\ Tail(r)[i] = r[i + 1]
          BY <2>2
        <4>2. \A i \in 1 .. Len(r) : r[i].kind = "resize"
          BY <2>6 DEF StreamOK, Placed
        <4>3. \A i \in 1 .. Len(Tail(r)) : Tail(r)[i].kind = "resize"
          BY <4>1, <4>2
        <4> HIDE DEF r
        <4>4. \A i \in 1 .. Len(resizes'[v]) : resizes'[v][i].kind = "resize"
          BY <2>3, <4>3
        <4>5. Len(shown'[v].drawn) = next[v]
          BY <2>3, <2>6 DEF StreamOK, Placed
        <4> QED BY <2>0, <2>6, <4>4, <4>5 DEF StreamOK, Placed
      <3>8. Reaches(p, data[v], next[v], sequence)
              => Reaches(Tail(p), data[v], next[v], sequence)
        <4>1. p[1].kind # "snapshot"
          <5>1. 1 \in 1 .. Len(r) /\ Head(r) = r[1]
            BY <2>2
          <5> QED BY <2>5, <2>6, <5>1 DEF StreamOK, Placed
        <4>2. ASSUME NEW i \in 1 .. Len(p), p[i].kind = "snapshot"
              PROVE  i - 1 \in 1 .. Len(Tail(p)) /\ Tail(p)[i - 1] = p[i]
          <5>1. i # 1 /\ i - 1 \in 1 .. Len(Tail(p)) /\ (i - 1) + 1 = i
            BY <3>6, <4>1, <4>2
          <5> QED BY <3>6, <5>1
        <4> QED BY <4>2 DEF Reaches
      <3>9. Agrees(shown'[v].drawn, next[v], screen.drawn)
        BY <2>3, <2>6, <3>5 DEF StreamOK
      <3>10. SizeAtEnd(p, shown[v].size) = SizeAtEnd(Pending(v)', shown'[v].size)
        BY <2>3, <2>5, <3>3
      <3> QED BY <2>0, <2>2, <2>5, <2>6, <3>4, <3>7, <3>8, <3>9, <3>10 DEF StreamOK, p
    <2>7. ViewInv(v)'
      BY <2>0, <2>2, <2>6 DEF ViewInv, Open
    <2> QED BY <2>1, <2>7, ViewStep
  <1> QED BY <1>1, <1>2

\* A snapshot replaces the screen and everything that waited before it.
LEMMA TakeSnapshotStep ==
  ASSUME Types, StreamInv, NEW v \in View, TakeSnapshot(v)
  PROVE  StreamInv'
  <1> USE DEF hostVars
  <1>1. CASE EndsAs(v, "snapshot regressed")
    BY <1>1, EndStep DEF States, Failures
  <1>2. CASE ~EndsAs(v, "snapshot regressed")
    <2>0. /\ Head(control[v]).at >= next[v]
          /\ next' = [next EXCEPT ![v] = Head(control[v]).at]
          /\ shown' = [shown EXCEPT ![v] = Head(control[v]).screen]
          /\ resizes' = [resizes EXCEPT ![v] = <<>>]
          /\ stage' = [stage EXCEPT ![v] = IF stage[v] = "held" THEN "idle" ELSE stage[v]]
          /\ want' = [want EXCEPT ![v] = FALSE]
          /\ control' = [control EXCEPT ![v] = Tail(control[v])]
          /\ UNCHANGED <<phase, sequence, screen, diverged, entry, behind, data, state, closing,
                         polled>>
      BY <1>2 DEF TakeSnapshot
    <2>1. OnlyView(v)
      BY <2>0 DEF OnlyView, SameView, Types
    <2> DEFINE r == resizes[v]
               c == control[v]
               p == Pending(v)
               f == Head(control[v])
    <2>2. /\ Open(v) /\ ~polled[v] /\ closing[v] = {} /\ c # <<>> /\ f.kind = "snapshot"
          /\ ViewInv(v)
          /\ r \in Seq(ControlFrame) /\ c \in Seq(ControlFrame)
          /\ data[v] \in Seq(Nat) /\ next[v] \in Nat /\ sequence \in Nat
      BY DEF TakeSnapshot, Selecting, StreamInv, Types
    <2>3. /\ next'[v] = f.at /\ shown'[v] = f.screen /\ resizes'[v] = <<>>
          /\ control'[v] = Tail(c)
          /\ v \notin Refreshing => stage'[v] = "idle" /\ ~want'[v]
      BY <2>0, <2>2 DEF Types, ViewInv
    <2>4. f \in ControlFrame /\ f.at \in Nat
      <3>1. f \in ControlFrame
        BY <2>2
      <3> QED BY <3>1, FrameFields
    <2>5. Pending(v)' = Tail(c) /\ p = r \o c /\ Tail(c) \in Seq(ControlFrame)
      <3>1. Tail(c) \in Seq(ControlFrame) /\ <<>> \o Tail(c) = Tail(c)
        BY <2>2
      <3> HIDE DEF c, r
      <3>2. Pending(v)' = <<>> \o Tail(c)
        BY <2>3 DEF Pending
      <3>3. p = r \o c
        BY DEF Pending, r, c
      <3> QED BY <3>1, <3>2, <3>3
    <2>6. ASSUME StreamOK(v) PROVE StreamOK(v)'
      <3>1. PendingOK(p, data[v], next[v], shown[v].size, screen.drawn, sequence, phase)
        BY <2>6 DEF StreamOK
      <3>a. /\ Len(r) \in Nat /\ Len(c) \in Nat /\ Len(c) >= 1 /\ Len(p) = Len(r) + Len(c)
            /\ \A i \in 1 .. Len(r) : p[i] = r[i]
            /\ \A i \in 1 .. Len(c) : p[Len(r) + i] = c[i]
            /\ Len(Tail(c)) = Len(c) - 1
            /\ \A i \in 1 .. Len(Tail(c)) : Tail(c)[i] = c[i + 1]
            /\ f = c[1]
        <4>1. r \in Seq(ControlFrame) /\ c \in Seq(ControlFrame) /\ c # <<>> /\ p = r \o c
          BY <2>2, <2>5
        <4> HIDE DEF r, c, p
        <4>2. f = Head(c)
          BY DEF c
        <4> QED BY <4>1, <4>2
      <3> HIDE DEF r, c, p, f
      <3>b. Len(r) + 1 \in 1 .. Len(p) /\ p[Len(r) + 1] = f
        <4>1. 1 \in 1 .. Len(c)
          BY <3>a
        <4> QED BY <3>a, <4>1
      <3>2. f.at <= sequence /\ Agrees(f.screen.drawn, f.at, screen.drawn)
        BY <2>2, <3>1, <3>b DEF PendingOK, Ordered, SnapshotsRight
      <3>3. /\ Ordered(Tail(c), sequence)
            /\ SizesRight(Tail(c), data[v], f.at, f.screen.size, screen.drawn)
            /\ SnapshotsRight(Tail(c), screen.drawn)
            /\ CloseLast(Tail(c), phase, sequence)
            /\ SizeAtEnd(Tail(c), f.screen.size) = SizeAtEnd(p, shown[v].size)
        <4>1. f.at >= next[v] /\ f.at >= Head(c).at /\ f = Head(c)
          BY <2>0, <2>4 DEF f, c
        <4>2. /\ Ordered(r \o c, sequence)
              /\ SizesRight(r \o c, data[v], next[v], shown[v].size, screen.drawn)
              /\ SnapshotsRight(r \o c, screen.drawn)
              /\ CloseLast(r \o c, phase, sequence)
          BY <2>5, <3>1 DEF PendingOK
        <4>3. /\ Ordered(Tail(c), sequence)
              /\ SizesRight(Tail(c), data[v], f.at, Head(c).screen.size, screen.drawn)
              /\ SnapshotsRight(Tail(c), screen.drawn)
              /\ CloseLast(Tail(c), phase, sequence)
              /\ SizeAtEnd(Tail(c), Head(c).screen.size) = SizeAtEnd(r \o c, shown[v].size)
          BY <2>2, <2>4, <4>1, <4>2, ConsumePending
        <4> QED BY <2>5, <4>1, <4>3
      <3>4. PendingOK(Pending(v)', data[v], next'[v], shown'[v].size, screen.drawn,
                      sequence, phase)
        BY <2>3, <2>5, <3>3 DEF PendingOK
      <3>5. Agrees(shown'[v].drawn, next'[v], screen.drawn)
        BY <2>3, <3>2
      <3>6. Placed(v)'
        <4>1. \A i \in 1 .. Len(resizes'[v]) : resizes'[v][i].kind = "resize"
          BY <2>3
        <4>2. Len(shown'[v].drawn) = next'[v] /\ next'[v] <= sequence
          BY <2>3, <3>2, <3>5 DEF Agrees
        <4> QED BY <2>0, <2>2, <2>6, <4>1, <4>2 DEF StreamOK, Placed
      <3>7. Reaches(p, data[v], next[v], sequence)
              => Reaches(Tail(c), data[v], f.at, sequence)
        <4>1. next[v] = sequence => f.at = sequence
          BY <2>0, <2>2, <2>4, <3>2 DEF f
        <4>2. ASSUME NEW i \in 1 .. Len(p), p[i].kind = "snapshot", p[i].at = sequence
              PROVE  \/ f.at = sequence
                     \/ \E k \in 1 .. Len(Tail(c)) :
                          Tail(c)[k].kind = "snapshot" /\ Tail(c)[k].at = sequence
          <5>1. CASE i \in 1 .. Len(r)
            BY <2>6, <3>a, <4>2, <5>1 DEF StreamOK, Placed, r
          <5>2. CASE i = Len(r) + 1
            BY <3>b, <4>2, <5>2
          <5>3. CASE i > Len(r) + 1
            <6> DEFINE k == i - Len(r) - 1
            <6>1. /\ k \in 1 .. Len(Tail(c)) /\ k + 1 \in 1 .. Len(c)
                  /\ Len(r) + (k + 1) = i
              BY <3>a, <5>3
            <6>2. Tail(c)[k] = p[i]
              BY <3>a, <6>1
            <6> QED BY <4>2, <6>1, <6>2
          <5>4. i \in 1 .. Len(r) \/ i = Len(r) + 1 \/ i > Len(r) + 1
            <6>1. Len(r) \in Nat /\ i \in Nat /\ i >= 1
              BY <3>a
            <6> QED BY <6>1
          <5> QED BY <5>1, <5>2, <5>3, <5>4
        <4> QED BY <4>1, <4>2 DEF Reaches
      <3>8. SizeAtEnd(p, shown[v].size) = SizeAtEnd(Pending(v)', shown'[v].size)
        BY <2>3, <2>5, <3>3
      <3> QED BY <2>0, <2>2, <2>3, <2>5, <2>6, <3>4, <3>5, <3>6, <3>7, <3>8
              DEF StreamOK, p
    <2>7. ViewInv(v)'
      BY <2>0, <2>2, <2>3, <2>6 DEF ViewInv, Open
    <2> QED BY <2>1, <2>7, ViewStep
  <1> QED BY <1>1, <1>2

\* Only output that is not there yet could be placed after the close.
LEMMA DropClose ==
  ASSUME NEW p \in Seq(ControlFrame), NEW x \in ControlFrame, NEW d \in Seq(Nat),
         NEW n \in Nat, NEW size, NEW host, NEW last \in Nat, NEW ph,
         x.at = last, \A i \in 1 .. Len(d) : d[i] < last,
         PendingOK(Append(p, x), d, n, size, host, last, ph)
  PROVE  PendingOK(p, d, n, size, host, last, ph)
  <1> DEFINE q == Append(p, x)
  <1>1. /\ Len(q) = Len(p) + 1 /\ Len(p) \in Nat /\ q[Len(q)] = x
        /\ \A i \in 1 .. Len(p) : q[i] = p[i]
        /\ \A i \in 1 .. Len(p) : i \in 1 .. Len(q)
    OBVIOUS
  <1>2. PendingOK(q, d, n, size, host, last, ph)
    OBVIOUS
  <1> HIDE DEF q
  <1>3. Ordered(p, last)
    <2>1. \A i \in 1 .. Len(p) : \A j \in i .. Len(p) : j \in i .. Len(q) /\ j \in 1 .. Len(p)
      BY <1>1
    <2> QED BY <1>1, <1>2, <2>1 DEF PendingOK, Ordered
  <1>4. SnapshotsRight(p, host)
    BY <1>1, <1>2 DEF PendingOK, SnapshotsRight
  <1>5. CloseLast(p, ph, last)
    <2>1. \A i \in 1 .. Len(p) : i # Len(q)
      BY <1>1
    <2> QED BY <1>1, <1>2, <2>1 DEF PendingOK, CloseLast
  <1>6. SizesRight(p, d, n, size, host)
    <2> SUFFICES ASSUME NEW i \in 1 .. Len(d), d[i] >= n
                 PROVE  SizeFor(p, d[i], size, host[d[i] + 1])
      BY DEF SizesRight
    <2>1. SizeFor(q, d[i], size, host[d[i] + 1])
      BY <1>2 DEF PendingOK, SizesRight
    <2>2. q[Len(q)].at > d[i]
      BY <1>1
    <2>3. ASSUME \A j \in 1 .. Len(p) : p[j].at > d[i] PROVE size = host[d[i] + 1]
      <3>1. ASSUME NEW j \in 1 .. Len(q) PROVE q[j].at > d[i]
        <4>1. j = Len(q) \/ j \in 1 .. Len(p)
          BY <1>1
        <4> QED BY <1>1, <2>2, <2>3, <4>1
      <3> QED BY <2>1, <3>1 DEF SizeFor
    <2>4. ASSUME NEW j \in 1 .. Len(p), p[j].at <= d[i],
                 \A k \in (j + 1) .. Len(p) : p[k].at > d[i]
          PROVE  p[j].screen.size = host[d[i] + 1]
      <3>1. ASSUME NEW k \in (j + 1) .. Len(q) PROVE q[k].at > d[i]
        <4>0. Len(q) = Len(p) + 1 /\ Len(p) \in Nat /\ j \in 1 .. Len(p)
          BY <1>1
        <4>1. CASE k = Len(q)
          BY <2>2, <4>1
        <4>2. CASE k # Len(q)
          <5>1. k \in (j + 1) .. Len(p) /\ k \in 1 .. Len(p)
            <6>1. \A m \in Nat : \A a \in 1 .. m : \A b \in (a + 1) .. (m + 1) :
                    b # m + 1 => b \in (a + 1) .. m /\ b \in 1 .. m
              OBVIOUS
            <6> QED BY <4>0, <4>2, <6>1
          <5> QED BY <1>1, <2>4, <5>1
        <4> QED BY <4>1, <4>2
      <3>2. j \in 1 .. Len(q) /\ q[j] = p[j]
        BY <1>1
      <3> QED BY <2>1, <2>4, <3>1, <3>2 DEF SizeFor
    <2> QED BY <2>3, <2>4 DEF SizeFor
  <1> QED BY <1>3, <1>4, <1>5, <1>6 DEF PendingOK

\* A view that takes Closed waits for the output before it.
LEMMA TakeClosedStep ==
  ASSUME Types, StreamInv, NEW v \in View, TakeClosed(v)
  PROVE  StreamInv'
  <1> USE DEF hostVars, loopVars
  <1>0. /\ closing' = [closing EXCEPT ![v] = {Head(control[v]).at}]
        /\ control' = [control EXCEPT ![v] = Tail(control[v])]
        /\ UNCHANGED <<phase, sequence, screen, diverged, entry, behind, data, state, next, resizes,
                       polled, shown, stage, want>>
    BY DEF TakeClosed
  <1>1. OnlyView(v)
    BY <1>0 DEF OnlyView, SameView, Types
  <1> DEFINE r == resizes[v]
             c == control[v]
             p == Pending(v)
             f == Head(control[v])
  <1>2. /\ Open(v) /\ ~polled[v] /\ c # <<>> /\ f.kind = "closed" /\ ViewInv(v)
        /\ r \in Seq(ControlFrame) /\ c \in Seq(ControlFrame)
        /\ data[v] \in Seq(Nat) /\ next[v] \in Nat /\ sequence \in Nat
        /\ closing'[v] = {f.at} /\ control'[v] = Tail(c)
    BY <1>0 DEF TakeClosed, Selecting, StreamInv, Types
  <1>3. ASSUME StreamOK(v) PROVE StreamOK(v)'
    <2>0. p = r \o c /\ f = Head(c)
      BY DEF Pending
    <2>1. PendingOK(p, data[v], next[v], shown[v].size, screen.drawn, sequence, phase)
          /\ next[v] <= sequence
      BY <1>3 DEF StreamOK, Placed
    <2>a. f \in ControlFrame
      BY <1>2
    <2> HIDE DEF r, c, p, f
    <2>2. /\ Len(r) + 1 \in 1 .. Len(p) /\ p[Len(r) + 1] = f /\ Len(r) \in Nat
          /\ Len(p) = Len(r) + Len(c) /\ Len(c) \in Nat
      BY <1>2, <2>0
    <2>3. Len(r) + 1 = Len(p) /\ phase = "closed" /\ f.at = sequence
      BY <1>2, <2>1, <2>2 DEF PendingOK, CloseLast
    <2>4. Len(c) = 1
      <3>1. \A a, b \in Nat : a + 1 = a + b => b = 1
        OBVIOUS
      <3> QED BY <2>2, <2>3, <3>1
    <2>5. Tail(c) = <<>>
      <3>1. Tail(c) \in Seq(ControlFrame) /\ Len(Tail(c)) = 0
        BY <1>2, <2>4
      <3> QED BY <3>1, EmptyLen
    <2>6. p = Append(r, f)
      <3>1. Append(r, Head(c)) \o Tail(c) = r \o c
        BY <1>2, KeepHead
      <3>2. Append(r, f) \in Seq(ControlFrame)
        BY <1>2, <2>a
      <3>3. \A s \in Seq(ControlFrame) : s \o <<>> = s
        OBVIOUS
      <3> QED BY <2>0, <2>5, <3>1, <3>2, <3>3
    <2>7. Pending(v)' = r
      <3>1. \A s \in Seq(ControlFrame) : s \o <<>> = s
        OBVIOUS
      <3> QED BY <1>0, <1>2, <2>5, <3>1 DEF Pending, r
    <2>8. PendingOK(r, data[v], next[v], shown[v].size, screen.drawn, sequence, phase)
      <3>1. \A i \in 1 .. Len(data[v]) : data[v][i] < sequence
        BY <1>3 DEF StreamOK, Placed
      <3>2. PendingOK(Append(r, f), data[v], next[v], shown[v].size, screen.drawn,
                      sequence, phase)
        BY <2>1, <2>6
      <3> QED BY <1>2, <2>a, <2>3, <3>1, <3>2, DropClose
    <2>9. /\ \A i \in 1 .. Len(p) : i = Len(p) \/ i \in 1 .. Len(r)
          /\ \A i \in 1 .. Len(r) : i \in 1 .. Len(p) /\ p[i] = r[i]
          /\ p[Len(p)] = f
      BY <1>2, <2>2, <2>3, <2>6
    <2>10. Overtaken(v)' <=> Overtaken(v)
      <3>1. ~(f.at < next[v])
        BY <1>2, <2>1, <2>3
      <3> QED BY <1>0, <2>7, <2>9, <3>1 DEF Overtaken, p
    <2>11. Reaches(p, data[v], next[v], sequence) => Reaches(r, data[v], next[v], sequence)
      <3>1. f.kind # "snapshot"
        BY <1>2
      <3> QED BY <2>9, <3>1 DEF Reaches
    <2>12. v \notin entry
      BY <2>3 DEF StreamInv, HostInv
    <2>13. Placed(v)'
      BY <1>0, <1>2, <1>3, <2>3, <2>5 DEF StreamOK, Placed
    <2> QED BY <1>0, <1>2, <1>3, <2>7, <2>8, <2>10, <2>11, <2>12, <2>13 DEF StreamOK, p
  <1>4. ViewInv(v)'
    BY <1>0, <1>2, <1>3 DEF ViewInv, Open
  <1> QED BY <1>1, <1>4, ViewStep

\* The select saw no control frame, so no pending frame is overtaken.
LEMMA PollDataStep ==
  ASSUME Types, StreamInv, NEW v \in View, PollData(v)
  PROVE  StreamInv'
  <1> USE DEF hostVars, feedVars, loopVars
  <1>0. /\ polled' = [polled EXCEPT ![v] = TRUE]
        /\ UNCHANGED <<phase, sequence, screen, diverged, entry, behind, data, control, state, next,
                       resizes, closing, shown, stage, want>>
    BY DEF PollData
  <1>1. OnlyView(v)
    BY <1>0 DEF OnlyView, SameView, Types
  <1>2. /\ Open(v) /\ ViewInv(v) /\ ~ResizeDue(v)
        /\ closing[v] # {} \/ control[v] = <<>>
        /\ resizes[v] \in Seq(ControlFrame) /\ next[v] \in Nat
    BY DEF PollData, Selecting, StreamInv, Types
  <1>3. ASSUME StreamOK(v) PROVE StreamOK(v)'
    <2> DEFINE p == resizes[v]
    <2>1. Pending(v) = p
      <3>1. control[v] = <<>>
        BY <1>2, <1>3 DEF StreamOK, Placed
      <3>2. \A s \in Seq(ControlFrame) : s \o <<>> = s
        OBVIOUS
      <3> QED BY <1>2, <3>1, <3>2 DEF Pending
    <2>2. Ordered(p, sequence)
      BY <1>3, <2>1 DEF StreamOK, PendingOK
    <2>3. ~Overtaken(v)
      <3>1. CASE p = <<>>
        BY <2>1, <3>1 DEF Overtaken
      <3>2. CASE p # <<>>
        <4>1. /\ p \in Seq(ControlFrame) /\ Head(p) = p[1] /\ p[1] \in ControlFrame
          BY <1>2, <3>2
        <4>2. p[1].at \in Nat /\ ~(p[1].at <= next[v])
          BY <1>2, <3>2, <4>1, FrameFields DEF ResizeDue
        <4>3. ~(p[1].at < next[v])
          BY <1>2, <4>2
        <4>4. \A i \in 1 .. Len(p) : ~(p[i].at < next[v])
          BY <1>2, <2>2, <3>2, <4>1, <4>3, OldestFirst
        <4> QED BY <2>1, <4>4 DEF Overtaken
      <3> QED BY <3>1, <3>2
    <2> QED BY <1>0, <1>3, <2>3 DEF StreamOK, Placed, Pending, Overtaken
  <1>4. ViewInv(v)'
    BY <1>0, <1>2, <1>3 DEF ViewInv, Open
  <1> QED BY <1>1, <1>4, ViewStep

(***************************************************************************)
(* Output is drawn at the size the view has.  If no pending frame belongs  *)
(* before it, that is the size the host had; otherwise the view has an     *)
(* overtaken frame from now on.                                            *)
(***************************************************************************)
LEMMA TakeDataStep ==
  ASSUME Types, StreamInv, NEW v \in View, TakeData(v)
  PROVE  StreamInv'
  <1> USE DEF hostVars, loopVars
  <1>1. CASE EndsAs(v, "needs snapshot")
    BY <1>1, EndStep DEF States, Failures
  <1>2. CASE ~EndsAs(v, "needs snapshot")
    <2>0. /\ Head(data[v]) <= next[v]
          /\ data' = [data EXCEPT ![v] = Tail(data[v])]
          /\ next' = [next EXCEPT ![v] =
                        IF Head(data[v]) = next[v] THEN next[v] + 1 ELSE next[v]]
          /\ shown' = [shown EXCEPT ![v].drawn =
                         IF Head(data[v]) = next[v]
                           THEN Append(shown[v].drawn, shown[v].size)
                           ELSE shown[v].drawn]
          /\ polled' = [polled EXCEPT ![v] = FALSE]
          /\ UNCHANGED <<phase, sequence, screen, diverged, entry, behind, control, state, resizes,
                         closing, stage, want>>
      BY <1>2 DEF TakeData
    <2>1. OnlyView(v)
      BY <2>0 DEF OnlyView, SameView, Types
    <2> DEFINE p == Pending(v)
               d == data[v]
               n == next[v]
               e == Tail(data[v])
    <2>2. /\ Open(v) /\ d # <<>> /\ ViewInv(v)
          /\ d \in Seq(Nat) /\ n \in Nat /\ sequence \in Nat
          /\ shown[v].drawn \in Seq(Size) /\ shown[v].size \in Size
      BY DEF TakeData, StreamInv, Types, Screen
    <2>3. /\ data'[v] = e /\ ~polled'[v]
          /\ next'[v] = IF Head(d) = n THEN n + 1 ELSE n
          /\ shown'[v].size = shown[v].size
          /\ shown'[v].drawn = IF Head(d) = n THEN Append(shown[v].drawn, shown[v].size)
                                              ELSE shown[v].drawn
      BY <2>0 DEF Types, Screen
    <2>4. Pending(v)' = p
      BY <2>0 DEF Pending
    <2>5. /\ e \in Seq(Nat) /\ Len(e) = Len(d) - 1 /\ Len(d) \in Nat /\ Len(d) >= 1
          /\ Head(d) = d[1] /\ d[1] \in Nat
          /\ \A i \in 1 .. Len(e) : e[i] = d[i + 1] /\ i + 1 \in 1 .. Len(d)
          /\ e = <<>> <=> Len(e) = 0
          /\ 1 \in 1 .. Len(d)
      <3>1. d \in Seq(Nat) /\ d # <<>>
        BY <2>2
      <3>2. e \in Seq(Nat) /\ e = Tail(d)
        BY <3>1
      <3> HIDE DEF d, e
      <3>3. e = <<>> <=> Len(e) = 0
        BY <3>2, EmptyLen
      <3> QED BY <3>1, <3>2, <3>3
    <2>6. ASSUME StreamOK(v) PROVE StreamOK(v)'
      <3> HIDE DEF p, d, n, e
      <3>0. p \in Seq(ControlFrame)
        BY PendingType DEF p
      <3>1. /\ PendingOK(p, d, n, shown[v].size, screen.drawn, sequence, phase)
            /\ Len(shown[v].drawn) = n /\ n <= sequence
            /\ \A i \in 1 .. Len(d) : d[i] < sequence
            /\ Agrees(shown[v].drawn, n, screen.drawn) \/ Overtaken(v)
            /\ ~behind[v] => Reaches(p, d, n, sequence)
            /\ v \in entry /\ ~behind[v] => SizeAtEnd(p, shown[v].size) = screen.size
        BY <2>6 DEF StreamOK, Placed, p, d, n
      <3>2. d[1] <= n
        BY <2>0, <2>5 DEF d, n
      <3>3. /\ next'[v] \in Nat /\ next'[v] >= n /\ next'[v] <= sequence
            /\ d[1] < next'[v]
        <4>1. d[1] < sequence
          BY <2>5, <3>1
        <4>2. CASE d[1] = n
          BY <2>2, <2>3, <2>5, <4>1, <4>2
        <4>3. CASE d[1] # n
          BY <2>2, <2>3, <2>5, <3>1, <3>2, <4>3
        <4> QED BY <4>2, <4>3
      <3>4. PendingOK(p, e, next'[v], shown[v].size, screen.drawn, sequence, phase)
        <4>1. ASSUME NEW i \in 1 .. Len(e), e[i] >= next'[v]
              PROVE  SizeFor(p, e[i], shown[v].size, screen.drawn[e[i] + 1])
          <5>1. e[i] = d[i + 1] /\ i + 1 \in 1 .. Len(d) /\ e[i] \in Nat
            <6>1. e \in Seq(Nat)
              BY <2>5
            <6>2. e[i] \in Nat
              BY <6>1
            <6> QED BY <2>5, <6>2
          <5>2. d[i + 1] >= n
            BY <2>2, <3>3, <4>1, <5>1
          <5> QED BY <3>1, <5>1, <5>2 DEF PendingOK, SizesRight
        <4> QED BY <3>1, <4>1 DEF PendingOK, SizesRight
      <3>5. Placed(v)'
        <4>1. \A i \in 1 .. Len(e) : e[i] < sequence
          BY <2>5, <3>1
        <4>2. Len(shown'[v].drawn) = next'[v]
          BY <2>2, <2>3, <3>1
        <4> QED BY <2>0, <2>3, <2>6, <3>3, <4>1, <4>2 DEF StreamOK, Placed
      <3>6. Overtaken(v) => Overtaken(v)'
        <4> SUFFICES ASSUME NEW i \in 1 .. Len(p), p[i].at < n
                     PROVE  p[i].at < next'[v]
          BY <2>4 DEF Overtaken, p, n
        <4>1. p[i].at \in Nat
          BY <3>0, FrameFields
        <4> QED BY <2>2, <3>3, <4>1
      <3>7. Agrees(shown'[v].drawn, next'[v], screen.drawn) \/ Overtaken(v)'
        <4> SUFFICES ASSUME ~Overtaken(v)'
                     PROVE  Agrees(shown'[v].drawn, next'[v], screen.drawn)
          OBVIOUS
        <4>1. Agrees(shown[v].drawn, n, screen.drawn)
          BY <3>1, <3>6
        <4>2. CASE d[1] # n
          BY <2>3, <2>5, <4>1, <4>2
        <4>3. CASE d[1] = n
          <5>1. ASSUME NEW j \in 1 .. Len(p) PROVE p[j].at > n
            <6>1. ~(p[j].at < n + 1)
              BY <2>3, <2>4, <2>5, <4>3 DEF Overtaken
            <6>2. p[j].at \in Nat
              BY <3>0, FrameFields
            <6> QED BY <2>2, <6>1, <6>2
          <5>2. shown[v].size = screen.drawn[n + 1]
            <6>1. SizeFor(p, d[1], shown[v].size, screen.drawn[d[1] + 1])
              BY <2>2, <2>5, <3>1, <4>3 DEF PendingOK, SizesRight
            <6> QED BY <4>3, <5>1, <6>1 DEF SizeFor
          <5> DEFINE new == Append(shown[v].drawn, shown[v].size)
          <5>3. /\ Len(new) = n + 1 /\ new[n + 1] = shown[v].size
                /\ \A k \in 1 .. n : new[k] = shown[v].drawn[k]
            BY <2>2, <3>1
          <5> HIDE DEF new
          <5>4. \A k \in 1 .. (n + 1) : new[k] = screen.drawn[k]
            <6> SUFFICES ASSUME NEW k \in 1 .. (n + 1) PROVE new[k] = screen.drawn[k]
              OBVIOUS
            <6>1. k = n + 1 \/ k \in 1 .. n
              BY <2>2
            <6> QED BY <4>1, <5>2, <5>3, <6>1 DEF Agrees
          <5>5. shown'[v].drawn = new /\ next'[v] = n + 1
            BY <2>3, <2>5, <4>3 DEF new
          <5> QED BY <5>3, <5>4, <5>5 DEF Agrees
        <4> QED BY <4>2, <4>3
      <3>8. ASSUME ~behind[v] PROVE Reaches(p, e, next'[v], sequence)
        <4>0. Reaches(p, d, n, sequence) /\ d # <<>>
          BY <2>2, <3>1, <3>8
        <4>1. d[Len(d)] + 1 = sequence
          BY <4>0 DEF Reaches
        <4>2. CASE Len(e) = 0
          <5>1. Len(d) = 1
            BY <2>5, <4>2
          <5>2. next'[v] = sequence
            BY <2>2, <2>5, <3>3, <4>1, <5>1
          <5> QED BY <2>5, <4>2, <5>2 DEF Reaches
        <4>3. CASE Len(e) # 0
          <5>1. Len(e) \in 1 .. Len(e) /\ Len(e) + 1 = Len(d)
            BY <2>5, <4>3
          <5>2. e[Len(e)] + 1 = sequence
            BY <2>5, <4>1, <5>1
          <5> QED BY <2>5, <4>3, <5>2 DEF Reaches
        <4> QED BY <4>2, <4>3
      <3> QED BY <2>0, <2>3, <2>4, <3>1, <3>4, <3>5, <3>7, <3>8 DEF StreamOK
    <2>7. ViewInv(v)'
      BY <2>0, <2>2, <2>6 DEF ViewInv, Open
    <2> QED BY <2>1, <2>7, ViewStep
  <1> QED BY <1>1, <1>2

-----------------------------------------------------------------------------
(***************************************************************************)
(* StreamInv is inductive.                                                 *)
(***************************************************************************)
LEMMA InitInv == Init => StreamInv
  <1> SUFFICES ASSUME Init PROVE StreamInv
    OBVIOUS
  <1>1. HostInv
    <2>1. PICK size \in Size : screen = [size |-> size, drawn |-> <<>>]
      BY DEF Init
    <2> QED BY <2>1 DEF Init, HostInv
  <1>2. \A v \in View : ViewInv(v)
    BY DEF Init, ViewInv, Open
  <1> QED BY <1>1, <1>2 DEF StreamInv

\* A new subscription starts from a checkpoint of the host.
LEMMA SubscribeStep ==
  ASSUME Types, StreamInv, NEW v \in View, Subscribe(v)
  PROVE  StreamInv'
  <1> USE DEF hostVars, loopVars
  <1>0. /\ phase = "running" /\ ~Open(v)
        /\ entry' = {w \in entry : Active(w)} \cup {v}
        /\ behind' = [behind EXCEPT ![v] = FALSE]
        /\ state' = [state EXCEPT ![v] = "open"]
        /\ next' = [next EXCEPT ![v] = sequence]
        /\ shown' = [shown EXCEPT ![v] = screen]
        /\ UNCHANGED <<phase, sequence, screen, diverged, data, control, resizes, closing, polled,
                       stage, want>>
    BY DEF Subscribe
  <1>1. HostInv'
    BY <1>0 DEF StreamInv, HostInv
  <1>2. ASSUME NEW w \in View, w # v PROVE ViewInv(w)'
    <2>1. SameView(w)
      BY <1>0, <1>2 DEF SameView, Types
    <2>2. w \in entry' => w \in entry
      BY <1>0, <1>2
    <2>3. Open(w) /\ w \in entry => w \in entry'
      BY <1>0 DEF Active
    <2> QED BY <1>0, <2>1, <2>2, <2>3, Untouched DEF StreamInv
  <1>3. ViewInv(v)'
    <2>1. /\ data'[v] = <<>> /\ control'[v] = <<>> /\ resizes'[v] = <<>> /\ ~polled'[v]
          /\ closing'[v] = {} /\ ViewInv(v)
      BY <1>0 DEF StreamInv, ViewInv
    <2>2. next'[v] = sequence /\ shown'[v] = screen /\ v \in entry'
      BY <1>0 DEF Types
    <2>3. Pending(v)' = <<>> /\ ~Overtaken(v)'
      BY <2>1 DEF Pending, Overtaken
    <2>4. Len(screen.drawn) = sequence /\ sequence \in Nat
      BY DEF StreamInv, HostInv, Types
    <2>5. Placed(v)'
      BY <1>0, <2>1, <2>2, <2>4 DEF Placed
    <2>6. PendingOK(<<>>, <<>>, sequence, screen.size, screen.drawn, sequence, phase)
      BY DEF PendingOK, Ordered, SizesRight, SnapshotsRight, CloseLast
    <2>7. StreamOK(v)'
      BY <1>0, <2>1, <2>2, <2>3, <2>4, <2>5, <2>6
      DEF StreamOK, SizeAtEnd, Reaches, Agrees
    <2> QED BY <1>0, <2>1, <2>7 DEF ViewInv, Open, Types
  <1> QED BY <1>1, <1>2, <1>3 DEF StreamInv

\* StreamInv is inductive relative to the types.
LEMMA NextInv == Types /\ Bounds /\ StreamInv /\ [Next]_vars => StreamInv'
  <1> SUFFICES ASSUME Types, Bounds, StreamInv, [Next]_vars
               PROVE  StreamInv'
    OBVIOUS
  <1> USE DEF hostVars, feedVars, recvVars, loopVars
  <1>1. CASE Stop
    <2>1. HostInv'
      BY <1>1 DEF Stop, StreamInv, HostInv
    <2>2. ASSUME NEW w \in View PROVE ViewInv(w)'
      BY <1>1 DEF Stop, StreamInv, ViewInv, StreamOK, Placed, PendingOK, CloseLast, Open,
                  Pending, Overtaken
    <2> QED BY <2>1, <2>2 DEF StreamInv
  <1>2. ASSUME NEW v \in View, Unsubscribe(v) PROVE StreamInv'
    <2>1. HostInv'
      BY <1>2 DEF Unsubscribe, StreamInv, HostInv
    <2>2. ASSUME NEW w \in View PROVE ViewInv(w)'
      <3>1. SameView(w) /\ (w \in entry' => w \in entry)
            /\ (Open(w) /\ w \in entry => w \in entry')
        BY <1>2 DEF Unsubscribe, SameView
      <3> QED BY <1>2, <3>1, Untouched DEF Unsubscribe, StreamInv
    <2> QED BY <2>1, <2>2 DEF StreamInv
  <1>3. ASSUME NEW v \in View,
               CaptureFor(v) \/ RefuseCapture(v) \/ WantRefresh(v) \/ AskRefresh(v)
                 \/ FinishRefresh(v) \/ RetryDue(v) \/ ReadyCut(v)
        PROVE  StreamInv'
    <2>1. CASE EndsAs(v, "refresh regressed")
      BY <2>1, EndStep DEF States, Failures
    <2>2. CASE RetryDue(v)
      <3>1. OnlyView(v) /\ SameView(v)
        BY <2>2 DEF RetryDue, OnlyView, SameView
      <3>2. ViewInv(v)'
        BY <3>1, Untouched DEF StreamInv, OnlyView
      <3> QED BY <3>1, <3>2, ViewStep
    <2>3. CASE ~RetryDue(v) /\ ~EndsAs(v, "refresh regressed")
      <3>1. OnlyView(v)
        <4>1. UNCHANGED <<phase, sequence, screen, diverged, entry, behind, data, control,
                          state, next, resizes, closing, polled>>
          BY <1>3, <2>3 DEF CaptureFor, RefuseCapture, WantRefresh, AskRefresh, FinishRefresh,
                            ReadyCut
        <4>2. ASSUME NEW w \in View \ {v}
              PROVE  stage'[w] = stage[w] /\ want'[w] = want[w] /\ shown'[w] = shown[w]
          <5>1. CASE CaptureFor(v) \/ RefuseCapture(v) \/ WantRefresh(v) \/ AskRefresh(v)
            BY <5>1 DEF CaptureFor, RefuseCapture, WantRefresh, AskRefresh, Types
          <5>2. CASE FinishRefresh(v) \/ ReadyCut(v)
            BY <2>3, <5>2 DEF FinishRefresh, ReadyCut, Types
          <5> QED BY <1>3, <2>3, <5>1, <5>2
        <4> QED BY <4>1, <4>2 DEF OnlyView, SameView
      <3>2. v \in Refreshing
        <4>1. v \in Refreshing \/ stage[v] # "idle" \/ want[v]
          BY <1>3, <2>3 DEF CaptureFor, RefuseCapture, WantRefresh, AskRefresh, FinishRefresh,
                            ReadyCut, CutDue
        <4> QED BY <4>1 DEF StreamInv, ViewInv
      <3>3. UNCHANGED <<state, data, control, resizes, closing, polled>>
        BY <1>3, <2>3 DEF CaptureFor, RefuseCapture, WantRefresh, AskRefresh, FinishRefresh,
                          ReadyCut
      <3>4. ViewInv(v)'
        BY <3>2, <3>3 DEF StreamInv, ViewInv, Open
      <3> QED BY <3>1, <3>4, ViewStep
    <2> QED BY <2>1, <2>2, <2>3
  <1>4. ASSUME NEW v \in View,
               ReadyClose(v) \/ TakeControlEnd(v) \/ TakeDataEnd(v) \/ Leave(v)
        PROVE  StreamInv'
    <2>1. PICK how \in {"closed", "close regressed", "ended", "off"} : EndsAs(v, how)
      BY <1>4 DEF ReadyClose, TakeControlEnd, TakeDataEnd, Leave
    <2> QED BY <2>1, EndStep DEF States, Failures
  <1>5. ASSUME NEW v \in View, Park(v) PROVE StreamInv'
    <2>1. OnlyView(v)
      BY <1>5 DEF Park, OnlyView, SameView, Types
    <2>2. ViewInv(v)'
      BY <1>5 DEF Park, StreamInv, ViewInv, StreamOK, Placed, Open, Pending, Overtaken, Types
    <2> QED BY <2>1, <2>2, ViewStep
  <1>6. CASE UNCHANGED vars
    <2>1. HostInv' /\ \A w \in View : SameView(w)
      BY <1>6 DEF vars, StreamInv, HostInv, SameView
    <2> QED BY <1>6, <2>1, Untouched DEF vars, StreamInv
  <1> QED
    BY <1>1, <1>2, <1>3, <1>4, <1>5, <1>6, OutputStep, ResizeStep, DivergeStep, MaintainStep,
       CloseStep, SubscribeStep, TakeResizeStep, ReadyResizeStep, TakeSnapshotStep, TakeClosedStep,
       PollDataStep, TakeDataStep
    DEF Next, Actor, Recv, Refresh, Finished

\* The types, the bounds and StreamInv hold in every state of the specification.
LEMMA InvHolds == Spec => [](Types /\ Bounds /\ StreamInv)
  <1>1. Init => Types /\ Bounds /\ StreamInv
    BY InitType, InitInv
  <1>2. (Types /\ Bounds /\ StreamInv) /\ [Next]_vars => (Types /\ Bounds /\ StreamInv)'
    BY NextType, NextInv
  <1> QED BY <1>1, <1>2, PTL DEF Spec

(***************************************************************************)
(* Faithful, for every number of views, every set of sizes and every       *)
(* capacity: an open view that does not ask for refreshes shows what the   *)
(* host showed after the same output, or has an overtaken control frame.   *)
(***************************************************************************)
THEOREM ViewsFaithful == Spec => []Faithful
  <1>1. Types /\ Bounds /\ StreamInv => Faithful
    BY DEF StreamInv, ViewInv, StreamOK, Placed, Agrees, Faithful, ShowsHost
  <1> QED BY <1>1, InvHolds, PTL

(***************************************************************************)
(* Settled: a view that is not behind and has nothing waiting shows what   *)
(* the host shows, size included.                                          *)
(***************************************************************************)
THEOREM ViewsSettle == Spec => []Settled
  <1>1. Types /\ Bounds /\ StreamInv => Settled
    <2> SUFFICES ASSUME Types, StreamInv, NEW v \in View \ Refreshing,
                        ~diverged, Active(v), ~behind[v], data[v] = <<>>, control[v] = <<>>,
                        resizes[v] = <<>>
                 PROVE  shown[v] = screen
      BY DEF Settled
    <2>1. StreamOK(v) /\ v \in entry
      BY DEF StreamInv, ViewInv, Active
    <2>2. Pending(v) = <<>> /\ ~Overtaken(v)
      BY DEF Pending, Overtaken
    <2>3. shown[v].size = screen.size
      BY <2>1, <2>2 DEF StreamOK, SizeAtEnd
    <2>4. next[v] = sequence
      BY <2>1, <2>2 DEF StreamOK, Reaches
    <2>5. Agrees(shown[v].drawn, sequence, screen.drawn) /\ Len(screen.drawn) = sequence
      BY <2>1, <2>2, <2>4 DEF StreamOK, StreamInv, HostInv
    <2>6. shown[v] \in Screen /\ screen \in Screen
      BY DEF Types
    <2>7. shown[v].drawn = screen.drawn
      BY <2>5, <2>6 DEF Agrees, Screen
    <2> QED BY <2>3, <2>6, <2>7 DEF Screen
  <1> QED BY <1>1, InvHolds, PTL

(***************************************************************************)
(* OvertakenStops: recv shows nothing more to a view with an overtaken     *)
(* control frame.                                                          *)
(***************************************************************************)
THEOREM OvertakenViewsStop == Spec => OvertakenStops
  <1>1. Types /\ Bounds /\ StreamInv /\ [Next]_vars
          => [\A v \in View \ Refreshing :
                ~diverged /\ Open(v) /\ Overtaken(v) /\ state'[v] = "open"
                  => shown'[v] = shown[v]]_vars
    <2> SUFFICES ASSUME Types, StreamInv, Next, NEW v \in View \ Refreshing,
                        ~diverged, Open(v), Overtaken(v), state'[v] = "open"
                 PROVE  shown'[v] = shown[v]
      BY DEF vars
    <2> USE DEF hostVars, feedVars, recvVars, loopVars
    <2>0. StreamOK(v) /\ stage[v] = "idle" /\ next[v] \in Nat
      BY DEF StreamInv, ViewInv, Types
    <2>1. ~polled[v]
      BY <2>0 DEF StreamOK
    <2> DEFINE p == Pending(v)
    <2>2. p \in Seq(ControlFrame) /\ p # <<>> /\ p[1].at < next[v]
      <3>1. p \in Seq(ControlFrame) /\ Ordered(p, sequence)
        BY <2>0, PendingType DEF StreamOK, PendingOK
      <3>2. p # <<>>
        BY DEF Overtaken
      <3>3. p[1].at < next[v]
        BY <2>0, <3>1, <3>2, OldestFirst DEF Overtaken
      <3> QED BY <3>1, <3>2, <3>3
    <2>3. ASSUME NEW w \in View, EndsAs(w, "off") \/ \E how \in States \ {"open"} : EndsAs(w, how)
          PROVE  shown'[v] = shown[v]
      <3>1. w # v
        BY <2>3 DEF EndsAs, Types
      <3> QED BY <2>3, <3>1 DEF EndsAs, Types
    <2>4. ASSUME NEW w \in View, w # v, Recv(w) \/ Refresh(w) \/ Subscribe(w)
          PROVE  shown'[v] = shown[v]
      BY <2>4 DEF Recv, Refresh, Subscribe, ReadyCut, ReadyResize, ReadyClose, TakeResize,
                  TakeSnapshot, TakeClosed, TakeControlEnd, PollData, TakeData, TakeDataEnd,
                  Park, WantRefresh, AskRefresh, FinishRefresh, RetryDue, Leave, EndsAs, Types
    <2>5. CASE resizes[v] # <<>>
      <3>1. Head(resizes[v]).at < next[v]
        <4>1. resizes[v] \in Seq(ControlFrame) /\ control[v] \in Seq(ControlFrame)
          BY DEF Types
        <4>2. p[1] = Head(resizes[v])
          <5>1. \A a, b \in Seq(ControlFrame) : a # <<>> => (a \o b)[1] = Head(a)
            OBVIOUS
          <5> QED BY <2>5, <4>1, <5>1 DEF Pending
        <4> QED BY <2>2, <4>2
      <3>2. Head(resizes[v]).at \in Nat
        <4>1. resizes[v] \in Seq(ControlFrame)
          BY DEF Types
        <4>2. Head(resizes[v]) \in ControlFrame
          BY <2>5, <4>1
        <4> QED BY <4>2, FrameFields
      <3>3. ~(Head(resizes[v]).at = next[v]) /\ ResizeDue(v) /\ ~Selecting(v)
        BY <2>0, <2>5, <3>1, <3>2 DEF ResizeDue, Selecting
      <3>4. ASSUME Recv(v) \/ Refresh(v) PROVE shown'[v] = shown[v]
        BY <2>0, <2>1, <2>3, <3>3, <3>4
        DEF Recv, Refresh, ReadyCut, CutDue, ReadyResize, ReadyClose, TakeResize,
            TakeSnapshot, TakeClosed, TakeControlEnd, PollData, TakeData, TakeDataEnd, Park,
            WantRefresh, AskRefresh, FinishRefresh, RetryDue, Leave, States, Failures
      <3> QED BY <2>4, <3>4 DEF Next, Actor, Finished, vars, ApplyOutput, ApplyResize,
                      ResizeDiverges, Maintain, Stop, Close, Subscribe, Unsubscribe, CaptureFor, RefuseCapture
    <2>6. CASE resizes[v] = <<>>
      <3>1. p = control[v] /\ control[v] \in Seq(ControlFrame)
        <4>1. control[v] \in Seq(ControlFrame)
          BY DEF Types
        <4>2. \A s \in Seq(ControlFrame) : <<>> \o s = s
          OBVIOUS
        <4> QED BY <2>6, <4>1, <4>2 DEF Pending
      <3>2. /\ control[v] # <<>> /\ Head(control[v]).at < next[v]
            /\ Head(control[v]).at \in Nat
        <4>1. Head(control[v]) = p[1] /\ Head(control[v]) \in ControlFrame
          BY <2>2, <3>1
        <4> QED BY <2>2, <3>1, <4>1, FrameFields
      <3>3. ~(Head(control[v]).at >= next[v]) /\ ~ResizeDue(v)
        BY <2>0, <2>6, <3>2 DEF ResizeDue
      <3>4. ASSUME Recv(v) \/ Refresh(v) PROVE shown'[v] = shown[v]
        BY <2>0, <2>1, <2>3, <3>3, <3>4
        DEF Recv, Refresh, ReadyCut, CutDue, ReadyResize, ReadyClose, TakeResize,
            TakeSnapshot, TakeClosed, TakeControlEnd, PollData, TakeData, TakeDataEnd, Park,
            WantRefresh, AskRefresh, FinishRefresh, RetryDue, Leave, States, Failures
      <3> QED BY <2>4, <3>4 DEF Next, Actor, Finished, vars, ApplyOutput, ApplyResize,
                      ResizeDiverges, Maintain, Stop, Close, Subscribe, Unsubscribe, CaptureFor, RefuseCapture
    <2> QED BY <2>5, <2>6
  <1> QED BY <1>1, InvHolds, PTL DEF Spec, OvertakenStops

(***************************************************************************)
(* ClosedShowsAll: a view that is told Closed and was not behind shows all *)
(* the terminal wrote.                                                     *)
(***************************************************************************)
THEOREM ClosedViewsShowAll == Spec => ClosedShowsAll
  <1>1. Types /\ Bounds /\ StreamInv /\ [Next]_vars
          => [\A v \in View \ Refreshing :
                ~diverged /\ Open(v) /\ state'[v] = "closed"
                  => behind[v] \/ shown[v].drawn = screen.drawn]_vars
    <2> SUFFICES ASSUME Types, StreamInv, Next, NEW v \in View \ Refreshing,
                        ~diverged, Open(v), state'[v] = "closed", ~behind[v]
                 PROVE  shown[v].drawn = screen.drawn
      BY DEF vars
    <2> USE DEF hostVars, feedVars, recvVars, loopVars
    <2>0. /\ StreamOK(v) /\ next[v] \in Nat /\ stage[v] = "idle"
          /\ shown[v].drawn \in Seq(Size) /\ screen.drawn \in Seq(Size)
          /\ Len(screen.drawn) = sequence
          /\ resizes[v] \in Seq(ControlFrame)
      BY DEF StreamInv, ViewInv, HostInv, Types, Screen
    <2>1. SUFFICES next[v] = sequence /\ ~Overtaken(v)
      <3>1. ASSUME next[v] = sequence, ~Overtaken(v) PROVE shown[v].drawn = screen.drawn
        <4>1. Agrees(shown[v].drawn, sequence, screen.drawn)
          BY <2>0, <3>1 DEF StreamOK
        <4> QED BY <2>0, <4>1 DEF Agrees
      <3> QED BY <3>1
    <2>2. ReadyClose(v) \/ TakeDataEnd(v)
      <3>1. ASSUME NEW w \in View, w # v, Recv(w) \/ Refresh(w) \/ Subscribe(w)
            PROVE  state'[v] = state[v]
        BY <3>1 DEF Recv, Refresh, Subscribe, ReadyCut, ReadyResize, ReadyClose, TakeResize,
                  TakeSnapshot, TakeClosed, TakeControlEnd, PollData, TakeData, TakeDataEnd,
                  Park, WantRefresh, AskRefresh, FinishRefresh, RetryDue, Leave, EndsAs, Types
      <3>2. ASSUME NEW how \in States, how # "closed" PROVE ~EndsAs(v, how)
        BY <3>2 DEF EndsAs, Types
      <3>3. ~Subscribe(v)
        BY DEF Subscribe
      <3>4. ASSUME Recv(v) \/ Refresh(v) PROVE ReadyClose(v) \/ TakeDataEnd(v)
        BY <3>2, <3>4
        DEF Recv, Refresh, ReadyCut, ReadyResize, TakeResize, TakeSnapshot, TakeClosed,
            TakeControlEnd, PollData, TakeData, Park, WantRefresh, AskRefresh,
            FinishRefresh, RetryDue, Leave, States, Failures, Open
      <3> QED BY <3>1, <3>3, <3>4 DEF Next, Actor, Finished, vars, ApplyOutput, ApplyResize,
                  ResizeDiverges, Maintain, Stop, Close, Unsubscribe, CaptureFor, RefuseCapture, Open
    <2>3. closing[v] # {}
      BY <2>2 DEF ReadyClose, CloseDue, TakeDataEnd, EndsAs, Types
    <2>4. closing[v] = {sequence} /\ control[v] = <<>> /\ Pending(v) = resizes[v]
      <3>1. \A s \in Seq(ControlFrame) : s \o <<>> = s
        OBVIOUS
      <3>2. closing[v] = {sequence} /\ control[v] = <<>>
        BY <2>0, <2>3 DEF StreamOK, Placed
      <3> QED BY <2>0, <3>1, <3>2 DEF Pending
    <2>5. CASE ReadyClose(v)
      <3>1. next[v] = sequence
        BY <2>4, <2>5 DEF ReadyClose, EndsAs, Types
      <3>2. ~ResizeDue(v)
        BY <2>5 DEF ReadyClose
      <3>3. CASE resizes[v] = <<>>
        BY <2>4, <3>1, <3>3 DEF Overtaken
      <3>4. CASE resizes[v] # <<>>
        <4>1. Head(resizes[v]) = resizes[v][1] /\ resizes[v][1] \in ControlFrame
          BY <2>0, <3>4
        <4>2. ~(resizes[v][1].at < next[v])
          BY <2>0, <3>2, <3>4, <4>1, FrameFields DEF ResizeDue
        <4>3. \A i \in 1 .. Len(resizes[v]) : ~(resizes[v][i].at < next[v])
          BY <2>0, <2>4, <3>4, <4>2, OldestFirst DEF StreamOK, PendingOK
        <4> QED BY <2>4, <3>1, <4>3 DEF Overtaken
      <3> QED BY <3>3, <3>4
    <2>6. CASE TakeDataEnd(v)
      <3>1. polled[v] /\ data[v] = <<>>
        BY <2>6 DEF TakeDataEnd
      <3>2. ~Overtaken(v) /\ Reaches(resizes[v], <<>>, next[v], sequence)
        BY <2>0, <2>4, <3>1 DEF StreamOK
      <3>3. \A i \in 1 .. Len(resizes[v]) : resizes[v][i].kind = "resize"
        BY <2>0 DEF StreamOK, Placed
      <3> QED BY <3>2, <3>3 DEF Reaches
    <2> QED BY <2>2, <2>5, <2>6
  <1> QED BY <1>1, InvHolds, PTL DEF Spec, ClosedShowsAll

=============================================================================
