---------------------------- MODULE RemoteStream ----------------------------
(***************************************************************************)
(* The output of a terminal on its way to another computer: the frames the *)
(* terminal publishes (runtime/src/terminal/session.rs), the Stream of one *)
(* viewer that packs them for its channel (network/terminal_connections/   *)
(* host.rs, pacer.rs), the Viewer that unpacks them (participant.rs), and  *)
(* RemoteActor::update, which gives them to the views (terminal/remote.rs).*)
(*                                                                         *)
(* What a screen shows is its size and, for each frame of output, the size *)
(* at which the frame was drawn.  A keyframe is exact if it has the whole  *)
(* history.  The views of the actor are one: TerminalStream says how each  *)
(* of them follows.  Metadata, documents and pictures are left out, and    *)
(* the window is a number of frames.                                       *)
(***************************************************************************)
EXTENDS Naturals, Sequences, FiniteSets, SequencesExt

CONSTANTS Sizes,
          Buffered,   \* frames that the broadcast keeps
          Window,     \* Pacer::window
          Parts,      \* frames of a keyframe
          Updates,    \* updates that wait for the actor
          Loads       \* how many events of each kind a behaviour has

Events == {"output", "resize", "refresh", "timeout", "relink", "close"}

ASSUME RemoteStreamAssumption ==
  /\ IsFiniteSet(Sizes) /\ Sizes # {}
  /\ {Buffered, Window, Parts, Updates} \subseteq Nat \ {0}
  /\ Loads \subseteq [Events -> Nat]

VARIABLES
  term,    \* the terminal: what it shows, its size, and whether it is open
  buf,     \* the published frames that the Stream has not read
  lagged,  \* the broadcast dropped frames before these
  st,      \* the Stream
  wire,    \* frames on the way to the Viewer
  acks,    \* acknowledgements on the way to the Stream, and refreshes
  viewer,  \* the Viewer
  ups,     \* updates on the way to the actor
  act,     \* the RemoteActor
  view,    \* what its views show
  left     \* what is left of the load

vars == <<term, buf, lagged, st, wire, acks, viewer, ups, act, view, left>>

Event(kind) == left[kind] > 0 /\ left' = [left EXCEPT ![kind] = @ - 1]

NewStream ==
  [live |-> FALSE, exact |-> "owed", parts |-> 0, cut |-> <<>>, waiting |-> <<>>, next |-> 0,
   transit |-> 0, ask |-> "none", full |-> FALSE, mark |-> 0, known |-> FALSE, batch |-> FALSE,
   ended |-> "no"]
NewViewer == [parts |-> 0, started |-> FALSE, unacked |-> 0]

(* The terminal opened and its first viewer connected. *)
Init ==
  /\ \E z \in Sizes : term = [content |-> <<>>, size |-> z, open |-> TRUE]
  /\ buf = <<>> /\ lagged = FALSE
  /\ st = NewStream /\ wire = <<>> /\ acks = <<>>
  /\ viewer = NewViewer /\ ups = <<>>
  /\ act = [next |-> <<>>, resyncing |-> FALSE, failed |-> FALSE, ended |-> FALSE]
  /\ view = <<>>
  /\ left \in Loads

----------------------------------------------------------------------------
(* The terminal publishes; a broadcast that is full loses its oldest frame. *)

Publish(frame) ==
  IF Len(buf) < Buffered THEN buf' = Append(buf, frame) /\ UNCHANGED lagged
  ELSE buf' = Append(Tail(buf), frame) /\ lagged' = TRUE

Sequence == Len(term.content)

ApplyOutput ==
  /\ term.open /\ Event("output")
  /\ Publish([what |-> "raw", at |-> Sequence])
  /\ term' = [term EXCEPT !.content = Append(@, term.size)]
  /\ UNCHANGED <<st, wire, acks, viewer, ups, act, view>>

PublishSize(z) ==
  /\ term.open /\ z # term.size /\ Event("resize")
  /\ Publish([what |-> "resize", at |-> Sequence, size |-> z])
  /\ term' = [term EXCEPT !.size = z]
  /\ UNCHANGED <<st, wire, acks, viewer, ups, act, view>>

Close ==
  /\ term.open /\ Event("close")
  /\ Publish([what |-> "closed"])
  /\ term' = [term EXCEPT !.open = FALSE]
  /\ UNCHANGED <<st, wire, acks, viewer, ups, act, view>>

(* host_request(Bootstrap): the snapshot and its barrier are taken together. *)
Bootstrap ==
  /\ term.open /\ st.ask = "asked"
  /\ Publish([what |-> "barrier", mark |-> st.mark])
  /\ st' = [st EXCEPT !.ask = "answered",
                      !.cut = <<[content |-> term.content, size |-> term.size, exact |-> st.full]>>]
  /\ UNCHANGED <<term, wire, acks, viewer, ups, act, view, left>>

----------------------------------------------------------------------------
(* The Stream of the host *)

Serves == st.ask = "none" /\ st.ended = "no"

(* advance_terminal sends all that there is room for before anything else happens. *)
Ready == st.parts > 0 \/ (st.live /\ st.waiting # <<>>)
CanSend == Ready /\ st.transit < Window
Advanced == Serves /\ ~CanSend

(* send_next: the parts of a keyframe, then what waits; outputs in a row go together. *)
Outputs(n) == n <= Len(st.waiting) /\ \A i \in 1..n : st.waiting[i].what = "raw"
Carries(frame) == frame.what \in {"keyframe", "output"}
Sent(frame, next, waiting) ==
  /\ wire' = Append(wire, frame)
  /\ st' = [st EXCEPT !.parts = IF @ > 0 THEN @ - 1 ELSE 0, !.waiting = waiting, !.next = next,
                      !.transit = IF Carries(frame) THEN @ + 1 ELSE @, !.batch = FALSE]
SendNext ==
  IF st.parts > 0
  THEN Sent([what |-> "keyframe", at |-> st.next, more |-> st.parts > 1, cut |-> st.cut], st.next, st.waiting)
  ELSE IF Head(st.waiting).what = "resize" THEN Sent(Head(st.waiting), st.next, Tail(st.waiting))
  ELSE \E n \in 1..Len(st.waiting) :
         /\ Outputs(n)
         /\ Sent([what |-> "output", at |-> Head(st.waiting).at, chunks |-> n],
                 Head(st.waiting).at + n, SubSeq(st.waiting, n + 1, Len(st.waiting)))

Advance ==
  /\ Serves /\ CanSend
  /\ SendNext
  /\ UNCHANGED <<term, buf, lagged, acks, viewer, ups, act, view, left>>

(* capture: when nothing is on the way, a keyframe is asked of the terminal.  It has the *)
(* history if that is due, or if the last one was small.  Half a second passes between   *)
(* two of them, in which the Stream reads that a terminal closed.                        *)
Capture ==
  /\ Serves /\ ~st.live /\ st.parts = 0 /\ st.transit = 0
  /\ term.open \/ buf = <<>>
  /\ \E full \in {st.exact = "due"} \cup (IF st.known THEN {TRUE} ELSE {}) :
       st' = [st EXCEPT !.ask = "asked", !.full = full, !.mark = 1 - @, !.batch = FALSE]
  /\ UNCHANGED <<term, buf, lagged, wire, acks, viewer, ups, act, view, left>>

(* The terminal does not answer in time; it may have begun, and then its barrier comes. *)
CutTimesOut ==
  /\ st.ask = "asked"
  /\ IF term.open THEN Event("timeout") ELSE UNCHANGED left
  /\ \/ UNCHANGED <<buf, lagged>>
     \/ term.open /\ Publish([what |-> "barrier", mark |-> st.mark])
  /\ st' = [st EXCEPT !.ask = "none"]
  /\ UNCHANGED <<term, wire, acks, viewer, ups, act, view>>

(* skip: everything before the barrier is in the snapshot. *)
Positions(what) == {i \in DOMAIN buf : buf[i].what = what}
Barriers == {i \in Positions("barrier") : buf[i].mark = st.mark}
First(S, T) == \E i \in S : \A j \in S \cup T : i <= j

Taken(s) ==
  [s EXCEPT !.parts = Parts, !.known = @ \/ s.full, !.next = Len(s.cut[1].content), !.waiting = <<>>,
            !.live = TRUE, !.exact = IF s.full THEN "held" ELSE "owed"]
CutAnswered ==
  LET asked == [st EXCEPT !.ask = "none"]
  IN /\ st.ask = "answered"
     /\ \/ /\ First(Barriers, Positions("closed"))
           /\ st' = Taken(asked)
           /\ buf' = SubSeq(buf, Min(Barriers) + 1, Len(buf))
        \/ /\ First(Positions("closed"), Barriers)
           /\ st' = [asked EXCEPT !.ended = "drain"]
           /\ buf' = <<>>
        \/ /\ Barriers \cup Positions("closed") = {}
           /\ st' = asked
           /\ buf' = <<>>
     /\ lagged' = FALSE
     /\ UNCHANGED <<term, wire, acks, viewer, ups, act, view, left>>

(* behind: the viewer is too slow; what waits is dropped and a keyframe comes instead. *)
Behind(s) == [s EXCEPT !.live = FALSE, !.waiting = <<>>]

Raws(s) == {i \in DOMAIN s.waiting : s.waiting[i].what = "raw"}
NextWaiting(s) == IF Raws(s) = {} THEN s.next ELSE s.waiting[Max(Raws(s))].at + 1

(* published: one frame of the broadcast. *)
Took(s, f) ==
  CASE f.what = "raw" /\ s.live /\ f.at = NextWaiting(s) ->
         LET t == [s EXCEPT !.waiting = Append(@, f)]
         IN IF Cardinality(Raws(t)) > Window THEN Behind(t) ELSE t
    [] f.what = "raw" /\ s.live /\ f.at > NextWaiting(s) -> Behind(s)
    [] f.what = "resize" /\ s.live /\ f.at >= NextWaiting(s) -> [s EXCEPT !.waiting = Append(@, f)]
    [] f.what = "closed" -> [s EXCEPT !.ended = "drain"]
    [] OTHER -> s

(* A wrong published goes on after frames were lost. *)
MissedNothing(s) == s
Missed(s) == Behind(s)

(* Frames are read in batches, with nothing else in between. *)
Published ==
  /\ Serves /\ (~CanSend \/ st.batch)
  /\ IF lagged THEN /\ st' = [Missed(st) EXCEPT !.batch = TRUE]
                    /\ lagged' = FALSE /\ UNCHANGED buf
     ELSE /\ buf # <<>>
          /\ st' = [Took(st, Head(buf)) EXCEPT !.batch = TRUE]
          /\ buf' = Tail(buf) /\ UNCHANGED lagged
  /\ UNCHANGED <<term, wire, acks, viewer, ups, act, view, left>>

(* A wrong end leaves what waits. *)
DrainAtOnce ==
  /\ st.ended = "drain"
  /\ wire' = Append(wire, [what |-> "end"])
  /\ st' = [st EXCEPT !.ended = "done"]
  /\ UNCHANGED <<term, buf, lagged, acks, viewer, ups, act, view, left>>

(* drain, and the end: all that waits goes, whether there is room for it or not. *)
Drain ==
  /\ st.ended = "drain"
  /\ IF Ready THEN SendNext
     ELSE /\ wire' = Append(wire, [what |-> "end"])
          /\ st' = [st EXCEPT !.ended = "done"]
  /\ UNCHANGED <<term, buf, lagged, acks, viewer, ups, act, view, left>>

(* received: an acknowledgement, or a Refresh. *)
Received ==
  LET m == Head(acks)
  IN /\ Advanced /\ acks # <<>>
     /\ acks' = Tail(acks)
     /\ st' = IF m.what = "ack" THEN [st EXCEPT !.transit = @ - m.frames, !.batch = FALSE]
              ELSE Behind([st EXCEPT !.exact = IF @ = "held" THEN "owed" ELSE @, !.batch = FALSE])
     /\ UNCHANGED <<term, buf, lagged, wire, viewer, ups, act, view, left>>

(* After a quiet second a keyframe without the history is followed by an exact one. *)
ExactDue ==
  /\ Advanced /\ st.exact = "owed" /\ st.live /\ st.parts = 0 /\ st.transit = 0 /\ st.waiting = <<>>
  /\ st' = [st EXCEPT !.live = FALSE, !.exact = "due", !.batch = FALSE]
  /\ UNCHANGED <<term, buf, lagged, wire, acks, viewer, ups, act, view, left>>

----------------------------------------------------------------------------
(* The Viewer *)

Acknowledged(v) ==
  acks' = IF v.unacked > 0 THEN Append(acks, [what |-> "ack", frames |-> v.unacked]) ELSE acks

(* A wrong Viewer does not say that a keyframe starts anew. *)
KeyframesPlain(f) == <<[what |-> "checkpoint", at |-> f.at, cut |-> f.cut]>>

(* A whole keyframe starts the updates anew. *)
Keyframes(f) ==
  (IF viewer.started THEN <<[what |-> "resync"]>> ELSE <<>>)
  \o <<[what |-> "checkpoint", at |-> f.at, cut |-> f.cut]>>
Raw(f) == [i \in 1..f.chunks |-> [what |-> "raw", at |-> f.at + i - 1]]

(* frame: acknowledged at once after a keyframe, else a little later. *)
Frame ==
  LET f == Head(wire)
      heard == [viewer EXCEPT !.unacked = IF Carries(f) THEN @ + 1 ELSE @]
      whole == f.what = "keyframe" /\ ~f.more
  IN /\ wire # <<>> /\ Len(ups) < Updates
     /\ wire' = Tail(wire)
     /\ ups' = ups \o (CASE whole -> Keyframes(f)
                         [] f.what = "output" -> Raw(f)
                         [] f.what = "keyframe" /\ ~whole -> <<>>
                         [] OTHER -> <<f>>)
     /\ IF whole THEN viewer' = [heard EXCEPT !.started = TRUE, !.unacked = 0] /\ Acknowledged(heard)
        ELSE viewer' = heard /\ UNCHANGED acks
     /\ UNCHANGED <<term, buf, lagged, st, act, view, left>>

Acknowledge ==
  /\ viewer.unacked > 0
  /\ viewer' = [viewer EXCEPT !.unacked = 0]
  /\ Acknowledged(viewer)
  /\ UNCHANGED <<term, buf, lagged, st, wire, ups, act, view, left>>

(* The actor asks for a snapshot, for a view that joins or that fell behind. *)
Refresh ==
  /\ viewer.started /\ ~act.ended /\ Event("refresh")
  /\ acks' = Append(acks, [what |-> "refresh"])
  /\ UNCHANGED <<term, buf, lagged, st, wire, viewer, ups, act, view>>

----------------------------------------------------------------------------
(* RemoteActor::update *)

(* A snapshot with no sequence before it is where the views go on. *)
TakeCheckpoint(u) ==
  /\ act' = [act EXCEPT !.next = <<u.at>>, !.resyncing = FALSE]
  /\ view' = IF act.resyncing \/ view = <<>> THEN u.cut ELSE view

Update ==
  LET u == Head(ups)
      ordered == act.next = <<u.at>>
  IN /\ ups # <<>> /\ ~act.ended
     /\ ups' = Tail(ups)
     /\ \/ /\ u.what = "resync"
           /\ act' = [act EXCEPT !.next = <<>>, !.resyncing = TRUE]
           /\ UNCHANGED view
        \/ /\ u.what = "checkpoint"
           /\ IF act.next = <<>> THEN TakeCheckpoint(u) ELSE UNCHANGED <<act, view>>
        \/ /\ u.what = "raw"
           /\ act' = IF ordered THEN [act EXCEPT !.next = <<u.at + 1>>] ELSE [act EXCEPT !.failed = TRUE]
           /\ view' = IF ordered THEN [view EXCEPT ![1].content = Append(@, view[1].size)] ELSE view
        \/ /\ u.what = "resize"
           /\ act' = IF ordered THEN act ELSE [act EXCEPT !.failed = TRUE]
           /\ view' = IF ordered THEN [view EXCEPT ![1].size = u.size] ELSE view
        \/ /\ u.what = "end"
           /\ act' = [act EXCEPT !.ended = TRUE]
           /\ UNCHANGED view
     /\ UNCHANGED <<term, buf, lagged, st, wire, acks, viewer, left>>

(* The link is lost and set up again; the views keep their screen. *)
Relink ==
  /\ term.open /\ Event("relink")
  /\ st' = NewStream /\ wire' = <<>> /\ acks' = <<>>
  /\ buf' = <<>> /\ lagged' = FALSE
  /\ viewer' = NewViewer /\ ups' = <<>>
  /\ act' = [act EXCEPT !.next = <<>>, !.resyncing = TRUE]
  /\ UNCHANGED <<term, view>>

----------------------------------------------------------------------------
Terminal == ApplyOutput \/ Close \/ \E z \in Sizes : PublishSize(z)
Host == Bootstrap \/ Advance \/ Capture \/ CutAnswered \/ Published \/ Drain \/ Received
There == Frame \/ Acknowledge \/ Update

Next == Terminal \/ Host \/ CutTimesOut \/ ExactDue \/ There \/ Refresh \/ Relink

(* Tasks are scheduled and timers fire. *)
Fairness ==
  /\ WF_vars(Host) /\ WF_vars(~term.open /\ CutTimesOut) /\ WF_vars(ExactDue)
  /\ WF_vars(Frame) /\ WF_vars(Acknowledge) /\ WF_vars(Update)

Spec == Init /\ [][Next]_vars /\ Fairness

----------------------------------------------------------------------------
(* Properties *)

(* The sum of a sequence of numbers, as a recursive function. *)
Total(s) == LET sum[n \in 0..Len(s)] == IF n = 0 THEN 0 ELSE sum[n - 1] + s[n] IN sum[Len(s)]

OnWire == Total([i \in DOMAIN wire |-> IF Carries(wire[i]) THEN 1 ELSE 0])
Acked == Total([i \in DOMAIN acks |-> IF acks[i].what = "ack" THEN acks[i].frames ELSE 0])

(* The types, and what the window counts: the Stream's count of frames on the way is    *)
(* what the wire, the Viewer and its acknowledgements hold, a Stream that fell behind   *)
(* keeps nothing to send, and no more than the window waits (pacer.rs, behind).         *)
TypeOK ==
  /\ term.content \in Seq(Sizes) /\ term.size \in Sizes /\ term.open \in BOOLEAN
  /\ Len(buf) <= Buffered /\ lagged \in BOOLEAN
  /\ st.exact \in {"owed", "due", "held"} /\ st.ask \in {"none", "asked", "answered"}
  /\ st.ended \in {"no", "drain", "done"} /\ Cardinality(Raws(st)) <= Window
  /\ ~st.live => st.waiting = <<>>
  /\ st.transit = OnWire + viewer.unacked + Acked
  /\ Len(view) <= 1

(* RemoteActor::update never meets output or a size out of order, which would end the   *)
(* connection: not after a lag of the broadcast, a late barrier, or a keyframe in       *)
(* between (remote.rs, "arrived out of order").                                         *)
InOrder == ~act.failed

(* The screen that the views have is one the terminal had: each frame of output is      *)
(* there, drawn at the size at which the terminal drew it, and the actor's sequence is  *)
(* how far that is.  A size lost with a lag, or on the wrong side of a frame of output, *)
(* would break it.                                                                      *)
Faithful ==
  view # <<>> /\ act.next # <<>> =>
    /\ Len(view[1].content) = act.next[1]
    /\ IsPrefix(view[1].content, term.content)

(* When all that was published has been read and delivered, the views show what the     *)
(* terminal shows, the size included: published drops no frame that the keyframe does   *)
(* not have, and a Lagged broadcast leads to a new keyframe.                            *)
Quiet ==
  /\ buf = <<>> /\ ~lagged /\ st.live /\ st.parts = 0 /\ st.waiting = <<>> /\ st.ended = "no"
  /\ wire = <<>> /\ ups = <<>>
Same == view # <<>> /\ view[1].content = term.content /\ view[1].size = term.size
Settled == Quiet => Same

(* A terminal that closes while its viewer keeps up leaves its last screen there:       *)
(* drain sends what waits before the end, the window notwithstanding.                   *)
EndComplete == act.ended /\ st.live => Same

(* A viewer that is too slow, lags or loses its link catches up once output stops:      *)
(* after behind the Stream always captures again (advance_terminal).                    *)
CatchesUp == <>[](Same \/ act.ended)

(* The views get the whole history in the end: a keyframe without it leaves an exact    *)
(* one owed, which serve sends after a quiet second, whatever was captured since.       *)
ExactAtLast == <>[]((Same /\ view[1].exact) \/ act.ended)

(* What the views of another computer show is what the terminal showed, without an      *)
(* error of order.                                                                      *)
ViewFaithful == TypeOK /\ InOrder /\ Faithful

(* When nothing is on its way, and when the terminal has closed, the views show its     *)
(* last screen.                                                                         *)
ViewSettled == Settled /\ EndComplete

(* The views have the last screen in the end, and with it the whole history.            *)
ViewCatchesUp == CatchesUp /\ ExactAtLast

=============================================================================
