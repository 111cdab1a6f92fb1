--------------------------- MODULE TerminalStream ---------------------------
(***************************************************************************)
(* How the output of one hosted terminal reaches the views of this         *)
(* computer.  The terminal actor (LocalActor in terminal/session.rs) gives *)
(* each view two bounded queues, data and control (terminal/subscribers.rs)*)
(* and the local host server runs one task per view that merges them with  *)
(* Subscription::recv and asks for fresh snapshots                         *)
(* (serve_terminal in local_host/server.rs).                               *)
(*                                                                         *)
(* Actor and view tasks run on the threads of one multi-thread executor,   *)
(* so an actor step may fall between the two polls of recv's select.       *)
(*                                                                         *)
(* What a terminal shows is abstracted to its size and, for every output   *)
(* frame, the size the frame was drawn at: drawn[n + 1] is the size at     *)
(* which frame n was drawn.  A frame's bytes are its sequence number.      *)
(***************************************************************************)
EXTENDS Naturals, Sequences, FiniteSets

CONSTANTS
  View,               \* the ids of the views of this computer
  Refreshing,         \* the views whose client asks for fresh snapshots
  Size,               \* the sizes a terminal can have
  DataCapacity,       \* frames a view's data queue holds
  ControlCapacity,    \* frames a view's control queue holds
  MaxPendingResizes,  \* resizes a view keeps for a later place in the output
  MaxSubscribers,     \* views a terminal feeds
  MaxOutput           \* bound of the model: frames the program writes

ASSUME StreamAssumption ==
  /\ Refreshing \subseteq View
  /\ Size # {}
  /\ DataCapacity \in Nat \ {0}
  /\ ControlCapacity \in Nat \ {0}
  /\ MaxPendingResizes \in Nat \ {0}
  /\ MaxSubscribers \in Nat \ {0}
  /\ MaxOutput \in Nat

VARIABLES
  phase,      \* of the actor's run loop: "running", "stopping", "closed"
  sequence,   \* the sequence number of the next output frame
  screen,     \* what the host's emulator shows
  diverged,   \* a resize failed half way: ResizeError::Diverged
  entry,      \* the views with a Subscriber in Subscribers::entries
  behind,     \* Subscriber::behind
  data,       \* the data channel of each view
  control,    \* the control channel of each view
  state,      \* "off", "open", or how the view's stream ended
  next,       \* Subscription::next_sequence
  resizes,    \* Subscription::resizes
  closing,    \* Subscription::closing, the final sequence, as a set of at most one
  polled,     \* recv found its control branch not ready and polls data next
  shown,      \* what the view shows
  want,       \* refresh_wanted
  retry,      \* the retry timer is set
  stage,      \* of a refresh: "idle", "asked", "answered", "refused", "held"
  cut         \* the checkpoint of a refresh that is answered or held

hostVars == <<phase, sequence, screen, diverged>>
feedVars == <<entry, behind, data, control>>
recvVars == <<state, next, resizes, closing, polled, shown>>
loopVars == <<want, retry, stage, cut>>
vars == <<hostVars, feedVars, recvVars, loopVars>>

Screen == [size : Size, drawn : Seq(Size)]
Cut == [at : Nat, screen : Screen]

(***************************************************************************)
(* ControlFrame.  Every frame has its place in the output and a screen; a  *)
(* resize uses only the size of it and a close nothing.                    *)
(***************************************************************************)
ControlFrame ==
  [kind : {"resize", "snapshot", "closed"}, at : Nat, screen : Screen]

\* How the stream of a view can end in an error of recv.
Failures == {"refresh regressed", "snapshot regressed", "resize out of order",
             "resize bound", "needs snapshot", "close regressed"}

Open(v) == state[v] = "open"

\* Subscriber::is_active: the view still holds its Subscription.
Active(v) == v \in entry /\ Open(v)

\* Mutant: a view counts as caught up when its queue is full, not empty.
CaughtUpFull(v) == Active(v) /\ behind[v] /\ Len(data[v]) = DataCapacity

\* Subscriber::caught_up
CaughtUp(v) == Active(v) /\ behind[v] /\ data[v] = <<>>

-----------------------------------------------------------------------------
Init ==
  /\ phase = "running"
  /\ sequence = 0
  /\ screen \in [size : Size, drawn : {<<>>}]
  /\ diverged = FALSE
  /\ entry = {}
  /\ behind = [v \in View |-> FALSE]
  /\ data = [v \in View |-> <<>>]
  /\ control = [v \in View |-> <<>>]
  /\ state = [v \in View |-> "off"]
  /\ next = [v \in View |-> 0]
  /\ resizes = [v \in View |-> <<>>]
  /\ closing = [v \in View |-> {}]
  /\ polled = [v \in View |-> FALSE]
  /\ shown = [v \in View |-> screen]
  /\ want = [v \in View |-> FALSE]
  /\ retry = [v \in View |-> FALSE]
  /\ stage = [v \in View |-> "idle"]
  /\ cut = [v \in View |-> [at |-> 0, screen |-> screen]]

-----------------------------------------------------------------------------
(***************************************************************************)
(* The terminal actor.                                                     *)
(***************************************************************************)

\* Mutant: a view whose queue is full loses the frame and is not marked.
SendDataLossy(n) ==
  /\ data' = [v \in View |-> IF Active(v) /\ ~behind[v] /\ Len(data[v]) < DataCapacity
                               THEN Append(data[v], n) ELSE data[v]]
  /\ entry' = {v \in entry : Active(v)}
  /\ UNCHANGED behind

(***************************************************************************)
(* Subscribers::data: a view that is not behind gets the frame, or falls   *)
(* behind when its queue is full.  Entries whose view has gone are         *)
(* dropped.                                                                *)
(***************************************************************************)
SendData(n) ==
  LET fed == {v \in entry : Active(v) /\ ~behind[v]}
      room(v) == Len(data[v]) < DataCapacity
  IN /\ data' = [v \in View |-> IF v \in fed /\ room(v)
                                  THEN Append(data[v], n) ELSE data[v]]
     /\ behind' = [v \in View |-> behind[v] \/ (v \in fed /\ ~room(v))]
     /\ entry' = {v \in entry : Active(v)}

(***************************************************************************)
(* apply_output, in the run loop and while the process is terminated.      *)
(***************************************************************************)
ApplyOutput ==
  /\ phase \in {"running", "stopping"}
  /\ sequence < MaxOutput
  /\ SendData(sequence)
  /\ sequence' = sequence + 1
  /\ screen' = [screen EXCEPT !.drawn = Append(@, screen.size)]
  /\ UNCHANGED <<phase, diverged, control, recvVars, loopVars>>

(***************************************************************************)
(* Subscribers::control and Subscriber::deliver for one view, on its       *)
(* control queue and its behind flag: a view that is behind gets no        *)
(* resize, one whose queue is full falls behind, and a snapshot that fits  *)
(* brings a view back.                                                     *)
(***************************************************************************)
Queue(v) == [control |-> control[v], behind |-> behind[v]]

\* Mutant: a frame that does not fit is dropped and the view is not marked.
DeliverLossy(q, frame) ==
  IF (q.behind /\ frame.kind = "resize") \/ Len(q.control) >= ControlCapacity THEN q
  ELSE [control |-> Append(q.control, frame),
        behind |-> q.behind /\ frame.kind # "snapshot"]

Deliver(q, frame) ==
  IF q.behind /\ frame.kind = "resize" THEN q
  ELSE IF Len(q.control) < ControlCapacity
    THEN [control |-> Append(q.control, frame),
          behind |-> q.behind /\ frame.kind # "snapshot"]
    ELSE [control |-> q.control, behind |-> TRUE]

\* The queues become those of `after`, and views that have gone are dropped.
Feed(after) ==
  /\ control' = [v \in View |-> IF Active(v) THEN after[v].control ELSE control[v]]
  /\ behind' = [v \in View |-> IF Active(v) THEN after[v].behind ELSE behind[v]]
  /\ entry' = {v \in entry : Active(v)}

ResizeFrame(size) ==
  [kind |-> "resize", at |-> sequence, screen |-> [size |-> size, drawn |-> <<>>]]

SnapshotFrame == [kind |-> "snapshot", at |-> sequence, screen |-> screen]

(***************************************************************************)
(* apply_resize and publish_size.  When the cursor is at a prompt the      *)
(* emulator first gets a taller screen, which is published too.            *)
(***************************************************************************)
ApplyResize ==
  /\ phase = "running"
  /\ \E size \in Size, taller \in Size, atPrompt \in BOOLEAN :
       /\ Feed([v \in View |->
                  Deliver(IF atPrompt THEN Deliver(Queue(v), ResizeFrame(taller))
                                      ELSE Queue(v),
                          ResizeFrame(size))])
       /\ screen' = [screen EXCEPT !.size = size]
  /\ UNCHANGED <<phase, sequence, diverged, data, recvVars, loopVars>>

(***************************************************************************)
(* ResizeError::Diverged: the emulator fails after the taller screen was   *)
(* published or not, or it has the new size but its reply to the program   *)
(* does not fit the input queue, and the new size is not published.  The   *)
(* run loop breaks.                                                        *)
(***************************************************************************)
ResizeDiverges ==
  /\ phase = "running"
  /\ \E size \in Size, taller \in Size, published \in BOOLEAN :
       /\ Feed([v \in View |-> IF published THEN Deliver(Queue(v), ResizeFrame(taller))
                                            ELSE Queue(v)])
       /\ screen' = [screen EXCEPT !.size = size]
  /\ phase' = "stopping"
  /\ diverged' = TRUE
  /\ UNCHANGED <<sequence, data, recvVars, loopVars>>

(***************************************************************************)
(* Request::Subscribe: a checkpoint of the emulator, then                  *)
(* Subscribers::subscribe, which drops entries whose view has gone.  The   *)
(* id of a view whose stream is over stands for a new connection.          *)
(***************************************************************************)
Subscribe(v) ==
  /\ phase = "running"
  /\ ~Open(v)
  /\ Cardinality({w \in entry : Active(w)}) < MaxSubscribers
  /\ entry' = {w \in entry : Active(w)} \cup {v}
  /\ behind' = [behind EXCEPT ![v] = FALSE]
  /\ state' = [state EXCEPT ![v] = "open"]
  /\ next' = [next EXCEPT ![v] = sequence]
  /\ shown' = [shown EXCEPT ![v] = screen]
  /\ UNCHANGED <<hostVars, data, control, resizes, closing, polled, loopVars>>

\* Request::Unsubscribe, sent when the task of a view has ended.
Unsubscribe(v) ==
  /\ phase = "running"
  /\ v \in entry /\ ~Open(v)
  /\ entry' = entry \ {v}
  /\ UNCHANGED <<hostVars, behind, data, control, recvVars, loopVars>>

(***************************************************************************)
(* maintain: prune, then one checkpoint for every view that has read its   *)
(* queue (Subscribers::refresh).  A failed checkpoint is tried again.      *)
(***************************************************************************)
Maintain ==
  /\ phase = "running"
  /\ Feed([v \in View |->
             IF CaughtUp(v) THEN Deliver(Queue(v), SnapshotFrame) ELSE Queue(v)])
  /\ UNCHANGED <<hostVars, data, recvVars, loopVars>>

\* Request::Checkpoint, capture_for: the answer of a live view's refresh.
CaptureFor(v) ==
  /\ stage[v] = "asked"
  /\ phase = "running"
  /\ Active(v)
  /\ stage' = [stage EXCEPT ![v] = "answered"]
  /\ cut' = [cut EXCEPT ![v] = [at |-> sequence, screen |-> screen]]
  /\ UNCHANGED <<hostVars, feedVars, recvVars, want, retry>>

\* A checkpoint that the emulator, the actor or the runtime did not give.
RefuseCapture(v) ==
  /\ stage[v] = "asked"
  /\ stage' = [stage EXCEPT ![v] = "refused"]
  /\ UNCHANGED <<hostVars, feedVars, recvVars, want, retry, cut>>

\* The run loop breaks: no more requests or upkeep, only the last output.
Stop ==
  /\ phase = "running"
  /\ phase' = "stopping"
  /\ UNCHANGED <<sequence, screen, diverged, feedVars, recvVars, loopVars>>

\* Mutant: the entries, and with them the senders, outlive the close.
CloseKeepsSenders ==
  /\ phase = "stopping"
  /\ phase' = "closed"
  /\ control' = [v \in View |-> IF Active(v) /\ Len(control[v]) < ControlCapacity
                    THEN Append(control[v], [kind |-> "closed", at |-> sequence,
                                             screen |-> screen])
                    ELSE control[v]]
  /\ UNCHANGED <<sequence, screen, diverged, entry, behind, data, recvVars, loopVars>>

(***************************************************************************)
(* Subscribers::close: each view gets Closed when its control queue has    *)
(* room, and then both of its channels lose their sender.                  *)
(***************************************************************************)
Close ==
  /\ phase = "stopping"
  /\ phase' = "closed"
  /\ control' = [v \in View |-> IF Active(v) /\ Len(control[v]) < ControlCapacity
                    THEN Append(control[v], [kind |-> "closed", at |-> sequence,
                                             screen |-> screen])
                    ELSE control[v]]
  /\ entry' = {}
  /\ UNCHANGED <<sequence, screen, diverged, behind, data, recvVars, loopVars>>

-----------------------------------------------------------------------------
(***************************************************************************)
(* The task of a view: Subscription::recv.                                 *)
(***************************************************************************)

(***************************************************************************)
(* The stream of v is over: its Subscription is dropped with both          *)
(* receivers, and the id is free for a new connection.                     *)
(***************************************************************************)
EndsAs(v, how) ==
  /\ state' = [state EXCEPT ![v] = how]
  /\ next' = [next EXCEPT ![v] = 0]
  /\ shown' = [shown EXCEPT ![v].drawn = <<>>]
  /\ data' = [data EXCEPT ![v] = <<>>]
  /\ control' = [control EXCEPT ![v] = <<>>]
  /\ resizes' = [resizes EXCEPT ![v] = <<>>]
  /\ closing' = [closing EXCEPT ![v] = {}]
  /\ polled' = [polled EXCEPT ![v] = FALSE]
  /\ want' = [want EXCEPT ![v] = FALSE]
  /\ retry' = [retry EXCEPT ![v] = FALSE]
  /\ stage' = [stage EXCEPT ![v] = "idle"]
  /\ UNCHANGED <<hostVars, entry, behind, cut>>

\* Mutant: a cut is due only once the view is past its place.
CutDueLate(v) == stage[v] = "held" /\ cut[v].at < next[v]

CutDue(v) == stage[v] = "held" /\ cut[v].at <= next[v]
ResizeDue(v) == resizes[v] # <<>> /\ Head(resizes[v]).at <= next[v]
CloseDue(v) == \E last \in closing[v] : last <= next[v]

\* ready() has nothing for the view, so recv goes on to its select.
Selecting(v) ==
  /\ Open(v) /\ ~polled[v]
  /\ ~CutDue(v) /\ ~ResizeDue(v) /\ ~CloseDue(v)

\* ready: a refresh is shown at its place; serve_terminal forgets the wish.
ReadyCut(v) ==
  /\ Open(v) /\ ~polled[v] /\ CutDue(v)
  /\ \/ /\ cut[v].at < next[v]
        /\ EndsAs(v, "refresh regressed")
     \/ /\ cut[v].at = next[v]
        /\ shown' = [shown EXCEPT ![v] = cut[v].screen]
        /\ stage' = [stage EXCEPT ![v] = "idle"]
        /\ want' = [want EXCEPT ![v] = FALSE]
        /\ retry' = [retry EXCEPT ![v] = FALSE]
        /\ UNCHANGED <<hostVars, feedVars, state, next, resizes, closing, polled, cut>>

\* Mutant: a resize is shown although the output has passed its place.
ReadyResizeLate(v) ==
  /\ Open(v) /\ ~polled[v] /\ ~CutDue(v) /\ ResizeDue(v)
  /\ shown' = [shown EXCEPT ![v].size = Head(resizes[v]).screen.size]
  /\ resizes' = [resizes EXCEPT ![v] = Tail(@)]
  /\ UNCHANGED <<hostVars, feedVars, state, next, closing, polled, loopVars>>

\* ready: a resize is shown at its place.
ReadyResize(v) ==
  /\ Open(v) /\ ~polled[v] /\ ~CutDue(v) /\ ResizeDue(v)
  /\ \/ /\ Head(resizes[v]).at < next[v]
        /\ EndsAs(v, "resize out of order")
     \/ /\ Head(resizes[v]).at = next[v]
        /\ shown' = [shown EXCEPT ![v].size = Head(resizes[v]).screen.size]
        /\ resizes' = [resizes EXCEPT ![v] = Tail(@)]
        /\ UNCHANGED <<hostVars, feedVars, state, next, closing, polled, loopVars>>

\* Mutant: the close is told as soon as it is read.
ReadyCloseEarly(v) ==
  /\ Open(v) /\ ~polled[v] /\ ~CutDue(v) /\ ~ResizeDue(v) /\ closing[v] # {}
  /\ EndsAs(v, "closed")

\* ready: the close is told at its place.
ReadyClose(v) ==
  /\ Open(v) /\ ~polled[v] /\ ~CutDue(v) /\ ~ResizeDue(v) /\ CloseDue(v)
  /\ EndsAs(v, IF next[v] \in closing[v] THEN "closed" ELSE "close regressed")

\* recv keeps at most MAX_PENDING_RESIZES resizes.
ResizesFullLate(v) == Len(resizes[v]) > MaxPendingResizes   \* mutant: off by one
ResizesFull(v) == Len(resizes[v]) >= MaxPendingResizes

\* The first branch of the select: the control channel has a resize.
TakeResize(v) ==
  /\ Selecting(v) /\ closing[v] = {}
  /\ control[v] # <<>> /\ Head(control[v]).kind = "resize"
  /\ LET frame == Head(control[v])
         late == resizes[v] # <<>> /\ resizes[v][Len(resizes[v])].at > frame.at
     IN \/ /\ ResizesFull(v) \/ late
           /\ EndsAs(v, "resize bound")
        \/ /\ ~ResizesFull(v) /\ ~late
           /\ resizes' = [resizes EXCEPT ![v] = Append(@, frame)]
           /\ control' = [control EXCEPT ![v] = Tail(@)]
           /\ UNCHANGED <<hostVars, entry, behind, data, state, next, closing, polled,
                          shown, loopVars>>

\* The first branch: a snapshot replaces what the view has and waits for.
TakeSnapshot(v) ==
  /\ Selecting(v) /\ closing[v] = {}
  /\ control[v] # <<>> /\ Head(control[v]).kind = "snapshot"
  /\ LET frame == Head(control[v])
     IN \/ /\ frame.at < next[v]
           /\ EndsAs(v, "snapshot regressed")
        \/ /\ frame.at >= next[v]
           /\ next' = [next EXCEPT ![v] = frame.at]
           /\ shown' = [shown EXCEPT ![v] = frame.screen]
           /\ resizes' = [resizes EXCEPT ![v] = <<>>]
           /\ stage' = [stage EXCEPT ![v] = IF @ = "held" THEN "idle" ELSE @]
           /\ want' = [want EXCEPT ![v] = FALSE]
           /\ retry' = [retry EXCEPT ![v] = FALSE]
           /\ control' = [control EXCEPT ![v] = Tail(@)]
           /\ UNCHANGED <<hostVars, entry, behind, data, state, closing, polled, cut>>

\* The first branch: the close waits for its place in the output.
TakeClosed(v) ==
  /\ Selecting(v) /\ closing[v] = {}
  /\ control[v] # <<>> /\ Head(control[v]).kind = "closed"
  /\ closing' = [closing EXCEPT ![v] = {Head(control[v]).at}]
  /\ control' = [control EXCEPT ![v] = Tail(@)]
  /\ UNCHANGED <<hostVars, entry, behind, data, state, next, resizes, polled, shown,
                 loopVars>>

\* The first branch: the control channel is empty and has lost its sender.
TakeControlEnd(v) ==
  /\ Selecting(v) /\ closing[v] = {}
  /\ control[v] = <<>> /\ v \notin entry
  /\ EndsAs(v, "ended")

\* The first branch is not ready (or is off): the select polls the second.
PollData(v) ==
  /\ Selecting(v)
  /\ \/ closing[v] # {}
     \/ control[v] = <<>> /\ v \in entry
  /\ polled' = [polled EXCEPT ![v] = TRUE]
  /\ UNCHANGED <<hostVars, feedVars, state, next, resizes, closing, shown, loopVars>>

\* The second branch: the next frame is shown, an older one is ignored.
TakeData(v) ==
  /\ Open(v) /\ polled[v] /\ data[v] # <<>>
  /\ LET frame == Head(data[v])
     IN \/ /\ frame > next[v]
           /\ EndsAs(v, "needs snapshot")
        \/ /\ frame <= next[v]
           /\ data' = [data EXCEPT ![v] = Tail(@)]
           /\ next' = [next EXCEPT ![v] = IF frame = @ THEN @ + 1 ELSE @]
           /\ shown' = [shown EXCEPT ![v].drawn =
                          IF frame = next[v] THEN Append(@, shown[v].size) ELSE @]
           /\ polled' = [polled EXCEPT ![v] = FALSE]
           /\ UNCHANGED <<hostVars, entry, behind, control, state, resizes, closing,
                          loopVars>>

\* The second branch: no data and no sender, so the close is told early.
TakeDataEnd(v) ==
  /\ Open(v) /\ polled[v] /\ data[v] = <<>> /\ v \notin entry
  /\ EndsAs(v, IF closing[v] # {} THEN "closed" ELSE "ended")

\* Neither branch is ready: the task sleeps until one wakes it.
Park(v) ==
  /\ Open(v) /\ polled[v] /\ data[v] = <<>> /\ v \in entry
  /\ polled' = [polled EXCEPT ![v] = FALSE]
  /\ UNCHANGED <<hostVars, feedVars, state, next, resizes, closing, shown, loopVars>>

Recv(v) ==
  \/ ReadyCut(v) \/ ReadyResize(v) \/ ReadyClose(v)
  \/ TakeResize(v) \/ TakeSnapshot(v) \/ TakeClosed(v) \/ TakeControlEnd(v)
  \/ PollData(v) \/ TakeData(v) \/ TakeDataEnd(v) \/ Park(v)

-----------------------------------------------------------------------------
(***************************************************************************)
(* The task of a view: the refresh of serve_terminal, which runs while     *)
(* recv goes on reading.                                                   *)
(***************************************************************************)

\* The client writes a REFRESH frame.
WantRefresh(v) ==
  /\ v \in Refreshing
  /\ Open(v) /\ ~polled[v] /\ ~want[v]
  /\ want' = [want EXCEPT ![v] = TRUE]
  /\ UNCHANGED <<hostVars, feedVars, recvVars, retry, stage, cut>>

\* The loop asks for a checkpoint; can_refresh: none is held, none closes.
AskRefresh(v) ==
  /\ Open(v) /\ ~polled[v]
  /\ want[v] /\ stage[v] = "idle" /\ ~retry[v] /\ closing[v] = {}
  /\ want' = [want EXCEPT ![v] = FALSE]
  /\ stage' = [stage EXCEPT ![v] = "asked"]
  /\ UNCHANGED <<hostVars, feedVars, recvVars, retry, cut>>

\* The answer of terminal_checkpoint reaches the loop.
FinishRefresh(v) ==
  /\ Open(v) /\ ~polled[v]
  /\ \/ /\ stage[v] = "answered"
        /\ stage' = [stage EXCEPT ![v] = "held"]
        /\ UNCHANGED <<want, retry>>
     \/ /\ stage[v] = "refused"
        /\ stage' = [stage EXCEPT ![v] = "idle"]
        /\ want' = [want EXCEPT ![v] = TRUE]
        /\ retry' = [retry EXCEPT ![v] = TRUE]
  /\ UNCHANGED <<hostVars, feedVars, recvVars, cut>>

\* REFRESH_RETRY has passed.
RetryDue(v) ==
  /\ Open(v) /\ ~polled[v] /\ retry[v]
  /\ retry' = [retry EXCEPT ![v] = FALSE]
  /\ UNCHANGED <<hostVars, feedVars, recvVars, want, stage, cut>>

\* The client disconnects or the server cancels the task.
Leave(v) ==
  /\ Open(v) /\ ~polled[v]
  /\ EndsAs(v, "off")

Refresh(v) ==
  WantRefresh(v) \/ AskRefresh(v) \/ FinishRefresh(v) \/ RetryDue(v) \/ Leave(v)

-----------------------------------------------------------------------------
Actor ==
  \/ ApplyOutput \/ ApplyResize \/ ResizeDiverges \/ Maintain \/ Stop \/ Close
  \/ \E v \in View :
       Subscribe(v) \/ Unsubscribe(v) \/ CaptureFor(v) \/ RefuseCapture(v)

\* The terminal is closed and every view knows: the end of a behaviour.
Finished ==
  /\ phase = "closed" /\ \A v \in View : ~Open(v)
  /\ UNCHANGED vars

Next == Actor \/ (\E v \in View : Recv(v) \/ Refresh(v)) \/ Finished

Spec == Init /\ [][Next]_vars

(***************************************************************************)
(* Fairness.  A view's task is polled as long as it is ready and its       *)
(* client reads; the actor's upkeep timer fires at least every 250 ms and  *)
(* its termination is bounded by timeouts; each request is answered, by    *)
(* dropping its reply if need be.  serve_terminal's select is biased: it   *)
(* looks at its refresh before every poll of recv, so a refresh step that  *)
(* is possible again and again is taken.  Nobody has to ask for anything.  *)
(***************************************************************************)
Fairness ==
  /\ WF_vars(Maintain)
  /\ WF_vars(Close)
  /\ \A v \in View :
       /\ WF_vars(Recv(v))
       /\ WF_vars(CaptureFor(v) \/ RefuseCapture(v))
       /\ SF_vars(AskRefresh(v))
       /\ SF_vars(FinishRefresh(v))
       /\ SF_vars(RetryDue(v))

FairSpec == Spec /\ Fairness

-----------------------------------------------------------------------------
(***************************************************************************)
(* Properties.                                                             *)
(***************************************************************************)

\* Every variable has its type and every queue keeps its bound.
TypeOK ==
  /\ phase \in {"running", "stopping", "closed"}
  /\ sequence \in Nat
  /\ screen \in Screen
  /\ diverged \in BOOLEAN
  /\ entry \subseteq View
  /\ behind \in [View -> BOOLEAN]
  /\ data \in [View -> Seq(Nat)]
  /\ control \in [View -> Seq(ControlFrame)]
  /\ state \in [View -> {"off", "open", "closed", "ended"} \cup Failures]
  /\ next \in [View -> Nat]
  /\ resizes \in [View -> Seq(ControlFrame)]
  /\ closing \in [View -> SUBSET Nat]
  /\ polled \in [View -> BOOLEAN]
  /\ shown \in [View -> Screen]
  /\ want \in [View -> BOOLEAN]
  /\ retry \in [View -> BOOLEAN]
  /\ stage \in [View -> {"idle", "asked", "answered", "refused", "held"}]
  /\ cut \in [View -> Cut]
  /\ \A v \in View : /\ Len(data[v]) <= DataCapacity
                      /\ Len(control[v]) <= ControlCapacity
                      /\ Len(resizes[v]) <= MaxPendingResizes

\* The control frames v has not acted on, oldest first.
Pending(v) == resizes[v] \o control[v]

(***************************************************************************)
(* A control frame that waits for v belongs before output v already shows: *)
(* the actor sent it, and then the output, between the two polls of recv.  *)
(***************************************************************************)
Overtaken(v) == \E i \in 1 .. Len(Pending(v)) : Pending(v)[i].at < next[v]

(***************************************************************************)
(* What v shows is what the host showed after the same output: no frame is *)
(* missing, doubled or reordered, and each one was drawn at the size the   *)
(* host drew it at.                                                        *)
(***************************************************************************)
ShowsHost(v) ==
  /\ Len(shown[v].drawn) = next[v]
  /\ next[v] <= sequence
  /\ \A n \in 1 .. next[v] : shown[v].drawn[n] = screen.drawn[n]

(***************************************************************************)
(* "Each view gets a checkpoint and then ordered updates": through lost    *)
(* frames, falling behind and snapshots, an open view shows what the host  *)
(* showed.  The exceptions are a view with an overtaken control frame, and *)
(* a terminal that stops because a resize failed half way.                 *)
(***************************************************************************)
Faithful ==
  ~diverged =>
    \A v \in View \ Refreshing : Open(v) => ShowsHost(v) \/ Overtaken(v)

(***************************************************************************)
(* A view that is not behind and has nothing waiting shows exactly what    *)
(* the host shows, its size included: nothing the actor decided not to     *)
(* send (Subscribers::control skips a view that is behind) stays lost.     *)
(***************************************************************************)
Settled ==
  \A v \in View \ Refreshing :
    /\ ~diverged /\ Active(v) /\ ~behind[v]
    /\ data[v] = <<>> /\ control[v] = <<>> /\ resizes[v] = <<>>
    => shown[v] = screen

(***************************************************************************)
(* A view with an overtaken control frame shows nothing further: recv      *)
(* reports an error before it returns another frame.                       *)
(***************************************************************************)
OvertakenStops ==
  [][\A v \in View \ Refreshing :
       ~diverged /\ Open(v) /\ Overtaken(v) /\ state'[v] = "open"
         => shown'[v] = shown[v]]_vars

(***************************************************************************)
(* A view is told Closed only when it shows everything the terminal wrote, *)
(* unless it was behind when the terminal closed.                          *)
(***************************************************************************)
ClosedShowsAll ==
  [][\A v \in View \ Refreshing :
       ~diverged /\ Open(v) /\ state'[v] = "closed"
         => behind[v] \/ shown[v].drawn = screen.drawn]_vars

(***************************************************************************)
(* Whatever the terminal wrote reaches every view that stays open: one     *)
(* that lost frames is brought back by a snapshot.                         *)
(***************************************************************************)
OutputReachesViews ==
  \A v \in View : \A n \in 1 .. MaxOutput :
    (Open(v) /\ sequence >= n) ~> (next[v] >= n \/ ~Open(v))

\* When the terminal has closed, every view comes to its end.
EveryViewEnds == (phase = "closed") ~> (\A v \in View : ~Open(v))

(***************************************************************************)
(* A refresh never stays half done: its cut is shown, replaced by a        *)
(* snapshot, or refused and asked for again.                               *)
(***************************************************************************)
RefreshResolves ==
  \A v \in View : (stage[v] # "idle") ~> (stage[v] = "idle")

=============================================================================
