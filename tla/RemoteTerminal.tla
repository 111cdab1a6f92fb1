-------------------------- MODULE RemoteTerminal --------------------------
(***************************************************************************)
(* A terminal of another computer as this computer's runtime keeps it: the *)
(* actor of runtime/src/terminal/remote.rs with the requests of its views, *)
(* the connections it works over (network/terminal_connections/            *)
(* participant.rs), and the runtime that opens a new connection when one   *)
(* is lost, paused or wanted again (runtime.rs, runtime/commands.rs).      *)
(*                                                                         *)
(* One terminal, one incarnation.  A request is a model value with a kind: *)
(*   type   input of a view          text   input without a view           *)
(*   tell   message or interrupt     ask    a canvas request               *)
(*   focus, blur   of a view         join, leave   of a view               *)
(* The output is in RemoteStream; of it only the snapshot that lets        *)
(* requests go is kept here.  Resizes, pictures and documents are left     *)
(* out, and so is the bound on unconfirmed input.                          *)
(***************************************************************************)
EXTENDS Naturals, Sequences, FiniteSets, SequencesExt

CONSTANTS Requests, Kind, From,
          Views, NoView,
          Capacity,     \* CONTROL_CAPACITY: of the mailbox, the queue and the held requests
          MaxActors,    \* actors the runtime starts
          MaxConns,     \* connections the network opens
          Loads         \* what takes part in a behaviour: requests, views that are there
                        \* at first, and how many events of each kind

Kinds == {"type", "text", "tell", "ask", "focus", "blur", "join", "leave"}
Events == {"break", "fail", "block", "refuse", "see", "attach", "offline", "relink", "end",
           "timeout"}

ASSUME RemoteTerminalAssumption ==
  /\ NoView \notin Views /\ Capacity \in Nat \ {0}
  /\ Kind \in [Requests -> Kinds] /\ From \in [Requests -> Views \cup {NoView}]
  /\ \A r \in Requests : (From[r] = NoView) <=> Kind[r] \in {"text", "tell", "ask"}
  /\ MaxActors \in Nat \ {0} /\ MaxConns \in Nat \ {0}
  /\ Loads \subseteq [requests : SUBSET Requests, views : SUBSET Views, events : [Events -> Nat]]

VARIABLES
  actor,    \* actor[a]: a RemoteActor with the flags its handle shares
  conns,    \* conns[k]: a connection, its Viewer and the host's side of it
  changes,  \* the changes that actors send the runtime
  rt,       \* what the runtime keeps of the terminal
  answer,   \* answer[r]: what the caller of r was told
  arrived,  \* the requests the host took, with their connection
  issued,   \* the requests in the order they were made
  left,     \* what is left of the load
  over      \* the host ended the terminal

vars == <<actor, conns, changes, rt, answer, arrived, issued, left, over>>

Actors == 1..MaxActors
Conns == 1..MaxConns
NoActor == 0

Answers == {"none", "ok", "failed", "unsent", "closed"}
Idle == [kind |-> "none", reqs |-> <<>>, focus |-> FALSE, result |-> "none"]
Control(kind, reqs, focus) == [kind |-> kind, reqs |-> reqs, focus |-> focus]

NewActor(k, hidden) ==
  [alive |-> TRUE, pausing |-> FALSE, cancelled |-> FALSE, dropped |-> FALSE, hidden |-> hidden,
   link |-> "open", late |-> FALSE, conn |-> k, seq |-> FALSE, capture |-> FALSE,
   mailbox |-> <<>>, queued |-> <<>>, held |-> <<>>, flight |-> Idle, pending |-> {},
   subs |-> {}, focused |-> {}, confirmed |-> FALSE, typed |-> FALSE]
NoConnection == 0
Gone(link) == [NewActor(NoConnection, FALSE) EXCEPT !.alive = FALSE, !.link = link]

NewConn ==
  [up |-> TRUE, hostUp |-> TRUE, keyed |-> FALSE, started |-> FALSE, commands |-> <<>>,
   wire |-> <<>>, back |-> <<>>, updates |-> <<>>, asks |-> {}, focus |-> FALSE]
NoConn == [NewConn EXCEPT !.up = FALSE, !.hostUp = FALSE]

(* Numbers that nothing refers to any more are used again. *)
Used == {a \in Actors : actor[a].alive} \cup {rt.cur} \cup {changes[i].actor : i \in DOMAIN changes}
Opened == {k \in Conns : conns[k] # NoConn \/ \E a \in Actors : actor[a].conn = k}

Event(kind) == left.events[kind] > 0 /\ left' = [left EXCEPT !.events[kind] = @ - 1]

(* The terminal is open and its views have joined. *)
Init ==
  /\ left \in Loads
  /\ actor = [a \in Actors |->
       IF a = 1 THEN [NewActor(1, FALSE) EXCEPT !.seq = TRUE, !.subs = left.views] ELSE Gone("open")]
  /\ conns = [k \in Conns |-> IF k = 1 THEN [NewConn EXCEPT !.keyed = TRUE, !.started = TRUE] ELSE NoConn]
  /\ changes = <<>>
  /\ rt = [cur |-> 1, attached |-> TRUE, shown |-> TRUE, online |-> TRUE,
           retry |-> "wait", opening |-> "none", blocked |-> FALSE]
  /\ answer = [r \in Requests |-> "none"]
  /\ arrived = <<>>
  /\ issued = <<>>
  /\ over = FALSE

----------------------------------------------------------------------------
(* Answers: a caller that was told hears nothing more. *)

Told(answers, told, what) ==
  [r \in Requests |-> IF r \in told /\ answers[r] = "none" THEN what ELSE answers[r]]

(* Connections are cancelled: their Viewers stop, and what waits for their answers fails. *)
(* What is on the wire may still reach the host.                                         *)
CutAll(cs, ks) ==
  [k \in Conns |-> IF k \notin ks THEN cs[k]
                   ELSE [NoConn EXCEPT !.wire = cs[k].wire, !.hostUp = cs[k].wire # <<>>]]
Cut(cs, k) == CutAll(cs, {k})
Asks(k) == IF k \in Conns THEN conns[k].asks ELSE {}

(* The connections that wait in a mailbox; they are dropped with it. *)
Resumes(s) == {k \in Conns : <<"resume", k>> \in Range(s.mailbox)}

(* The end of run(): everything that waits is rejected. *)
Stop(a, s, answers, ended) ==
  LET waiting == Range(s.mailbox \o s.queued \o s.held \o s.flight.reqs) \cap Requests
      told == Told(answers, waiting \cup s.pending, "closed")
      note(what) == [what |-> what, actor |-> a]
  IN /\ actor' = [actor EXCEPT ![a] = Gone(s.link)]
     /\ conns' = CutAll(conns, {s.conn} \cup Resumes(s))
     /\ answer' = Told(told, Asks(s.conn), "failed")
     /\ changes' = changes \o (IF ended THEN <<note("ended")>> ELSE <<>>) \o <<note("closed")>>

(* A wrong interrupt forgets the callers that wait for a snapshot. *)
InterruptForgets(a, s, answers) ==
  IF s.subs = {} THEN Stop(a, s, answers, FALSE)
  ELSE /\ actor' = [actor EXCEPT ![a] =
            [s EXCEPT !.link = "lost", !.conn = NoConnection, !.flight = Idle, !.pending = {}, !.seq = FALSE,
                      !.capture = FALSE, !.confirmed = FALSE]]
       /\ conns' = Cut(conns, s.conn)
       /\ answer' = Told(answers, Range(s.flight.reqs) \cup Asks(s.conn), "failed")
       /\ changes' = Append(changes, [what |-> "interrupted", actor |-> a])

(* The link failed.  What was in flight is not sent again; the queue waits. *)
Interrupt(a, s, answers) ==
  IF s.subs = {} THEN Stop(a, s, answers, FALSE)
  ELSE /\ actor' = [actor EXCEPT ![a] =
            [s EXCEPT !.link = "lost", !.conn = NoConnection, !.flight = Idle, !.pending = {}, !.seq = FALSE,
                      !.capture = FALSE, !.confirmed = FALSE]]
       /\ conns' = Cut(conns, s.conn)
       /\ answer' = Told(answers, Range(s.flight.reqs) \cup s.pending \cup Asks(s.conn),
                         "failed")
       /\ changes' = Append(changes, [what |-> "interrupted", actor |-> a])

(* Nothing failed; a lost terminal without views stops. *)
Continue(a, s, cs, answers, sent) ==
  IF s.link = "lost" /\ s.subs = {} THEN Stop(a, s, answers, FALSE)
  ELSE /\ actor' = [actor EXCEPT ![a] = s]
       /\ conns' = cs
       /\ answer' = answers
       /\ changes' = changes \o sent

Silent(a, s) == Continue(a, s, conns, answer, <<>>)

----------------------------------------------------------------------------
(* The actor: step() *)

Running(a) == actor[a].alive /\ ~actor[a].pausing /\ ~actor[a].cancelled
Dormant(s) == s.link \in {"paused", "waking"}
Closed(r) == answer[r] # "none"
Present(s) == s.focused \cap s.subs

(* The first part of a step sends what can be sent, before it waits for anything. *)
Begins(a) ==
  LET s == actor[a]
  IN /\ s.link = "open" /\ s.flight = Idle /\ s.seq
     /\ (Present(s) # {}) # s.confirmed \/ s.queued # <<>>
Settled(a) == Running(a) /\ ~(actor[a].link = "open" /\ actor[a].held # <<>>) /\ ~Begins(a)

IdleActor(s) ==
  /\ s.flight = Idle /\ s.queued = <<>> /\ s.pending = {} /\ s.held = <<>> /\ s.mailbox = <<>>
  /\ \A k \in Conns : conns[k].asks = {}

(* A hidden terminal with nothing to do gives its connection up.  The runtime may show  *)
(* it after the actor looked and before the link says that it is paused.                *)
Pauses(a) ==
  LET s == actor[a]
  IN /\ Running(a) /\ s.link = "open" /\ s.hidden /\ IdleActor(s)
     /\ actor' = [actor EXCEPT ![a].pausing = TRUE]
     /\ UNCHANGED <<conns, changes, rt, answer, arrived, issued, left, over>>
Pause(a) ==
  LET s == actor[a]
  IN /\ s.alive /\ s.pausing
     /\ actor' = [actor EXCEPT ![a] =
          [s EXCEPT !.pausing = FALSE, !.link = "paused", !.conn = NoConnection, !.seq = FALSE,
                    !.capture = FALSE, !.confirmed = FALSE]]
     /\ conns' = Cut(conns, s.conn)
     /\ changes' = Append(changes, [what |-> "paused", actor |-> a])
     /\ UNCHANGED <<rt, answer, arrived, issued, left, over>>

(* A wrong forward does not look whether the callers still wait. *)
ForwardedAll(s, reqs) ==
  LET k == s.conn
  IN IF conns[k].up
     THEN [conns EXCEPT ![k].asks = @ \cup Range(reqs),
                        ![k].commands = @ \o [i \in DOMAIN reqs |-> Control("ask", <<reqs[i]>>, FALSE)]]
     ELSE conns

(* forward: canvas requests go out on their own, if their callers still wait. *)
Forwarded(s, reqs) ==
  LET k == s.conn
      go == SelectSeq(reqs, LAMBDA r : ~Closed(r))
  IN IF conns[k].up
     THEN [conns EXCEPT ![k].asks = @ \cup Range(go),
                        ![k].commands = @ \o [i \in DOMAIN go |-> Control("ask", <<go[i]>>, FALSE)]]
     ELSE conns
ForwardedAnswers(s, reqs) ==
  IF conns[s.conn].up THEN answer ELSE Told(answer, Range(reqs), "failed")

ForwardHeld(a) ==
  LET s == actor[a]
  IN /\ Running(a) /\ s.link = "open" /\ s.held # <<>>
     /\ Continue(a, [s EXCEPT !.held = <<>>], Forwarded(s, s.held), ForwardedAnswers(s, s.held), <<>>)
     /\ UNCHANGED <<rt, arrived, issued, left, over>>

(* begin: a control goes to the connection; one that is cancelled refuses it. *)
Begin(a, s, kind, reqs, focus, answers) ==
  LET up == conns[s.conn].up
      flight == [kind |-> kind, reqs |-> reqs, focus |-> focus,
                 result |-> IF up THEN "none" ELSE "closed"]
      cs == IF up THEN [conns EXCEPT ![s.conn].commands = Append(@, Control(kind, reqs, focus))]
            ELSE conns
  IN Continue(a, [s EXCEPT !.flight = flight], cs, answers, <<>>)

(* The inputs behind r that go with it: the same view's, as many as fit. *)
SameInput(r, q) == Kind[q] = Kind[r] /\ From[q] = From[r]
Merged(r, rest) ==
  {n \in 0..Len(rest) : \A i \in 1..n : SameInput(r, rest[i])}
MergeOpen(rest, n) == SelectSeq(SubSeq(rest, 1, n), LAMBDA q : ~Closed(q))

(* A queued control is ready to go: next_control's loop, one entry at a time. *)
NextQueued(a) ==
  LET s == actor[a]
      r == Head(s.queued)
      rest == Tail(s.queued)
      taken == [s EXCEPT !.queued = rest]
  IN \/ Closed(r) /\ Silent(a, taken)
     \/ /\ ~Closed(r) /\ From[r] # NoView /\ From[r] \notin s.subs
        /\ Continue(a, taken, conns, Told(answer, {r}, "unsent"), <<>>)
     \/ /\ ~Closed(r) /\ From[r] \in s.subs /\ Kind[r] \in {"focus", "blur"}
        /\ LET now == IF Kind[r] = "focus" THEN Present(s) \cup {From[r]} ELSE Present(s) \ {From[r]}
               t == [taken EXCEPT !.focused = now]
           IN IF (now # {}) = s.confirmed
              THEN Continue(a, t, conns, Told(answer, {r}, "ok"), <<>>)
              ELSE Begin(a, t, "focus", <<r>>, now # {}, answer)
     \/ /\ ~Closed(r) /\ From[r] \in s.subs \cup {NoView} /\ Kind[r] \in {"type", "text"}
        /\ \E n \in Merged(r, rest) :
             Begin(a, [s EXCEPT !.queued = SubSeq(rest, n + 1, Len(rest))],
                   "input", <<r>> \o MergeOpen(rest, n), FALSE, answer)
     \/ /\ ~Closed(r) /\ Kind[r] = "tell"
        /\ Begin(a, taken, "tell", <<r>>, FALSE, answer)

(* The focus of the views together goes first, then the queue. *)
NextControl(a) ==
  LET s == [actor[a] EXCEPT !.focused = Present(actor[a])]
  IN /\ Running(a) /\ Begins(a)
     /\ IF (s.focused # {}) # s.confirmed
        THEN Begin(a, s, "focus", <<>>, s.focused # {}, answer)
        ELSE NextQueued(a)
     /\ UNCHANGED <<rt, arrived, issued, left, over>>

(* finish_control: what the answers become, and whether the link is given up. *)
Finished(s) ==
  [s EXCEPT !.flight = Idle,
            !.confirmed = IF s.flight.kind = "focus" /\ s.flight.result = "ok"
                          THEN s.flight.focus ELSE @]
FinishAnswers(s) ==
  Told(answer, Range(s.flight.reqs), IF s.flight.result = "ok" THEN "ok" ELSE "failed")
Fatal(s) ==
  /\ s.flight.result \in {"no", "closed"}
  /\ s.flight.kind \in {"input", "focus"} \/ s.flight.result = "closed"

(* A wrong finish_control queues what the lost connection did not confirm again. *)
FinishRetries(a) ==
  LET s == actor[a]
      again == [Finished(s) EXCEPT !.queued = s.flight.reqs \o @]
  IN /\ Settled(a) /\ s.flight.result # "none"
     /\ IF Fatal(s) THEN Interrupt(a, again, answer)
        ELSE Continue(a, Finished(s), conns, FinishAnswers(s), <<>>)
     /\ UNCHANGED <<rt, arrived, issued, left, over>>

FinishControl(a) ==
  LET s == actor[a]
  IN /\ Settled(a) /\ s.flight.result # "none"
     /\ IF Fatal(s) THEN Interrupt(a, Finished(s), FinishAnswers(s))
        ELSE Continue(a, Finished(s), conns, FinishAnswers(s), <<>>)
     /\ UNCHANGED <<rt, arrived, issued, left, over>>

(* request_capture: asks for a snapshot; a cancelled connection fails it. *)
Captures(s) == s.link = "open" /\ ~s.capture /\ s.pending # {}
RequestCapture(a, s, answers, sent) ==
  IF Captures(s) /\ ~conns[s.conn].up THEN Interrupt(a, s, answers)
  ELSE LET cs == IF Captures(s)
                 THEN [conns EXCEPT ![s.conn].commands = Append(@, Control("refresh", <<>>, FALSE))]
                 ELSE conns
       IN Continue(a, [s EXCEPT !.capture = @ \/ Captures(s)], cs, answers, sent)

(* A snapshot answers the captures and lets controls go. *)
Snapshot(a, s) ==
  LET joined == {From[r] : r \in {q \in s.pending : ~Closed(q)}}
  IN Continue(a, [s EXCEPT !.seq = TRUE, !.capture = FALSE, !.pending = {}, !.subs = @ \cup joined],
              [conns EXCEPT ![s.conn].updates = Tail(@)], Told(answer, s.pending, "ok"), <<>>)

(* connection_update: an answer that is there counts before the end of its connection. *)
ConnectionUpdate(a) ==
  LET s == actor[a]
      update == Head(conns[s.conn].updates)
      first == IF s.flight.result # "none" THEN Finished(s) ELSE s
      answers == IF s.flight.result # "none" THEN FinishAnswers(s) ELSE answer
  IN /\ Settled(a) /\ s.link = "open" /\ conns[s.conn].updates # <<>>
     /\ CASE update = "snapshot" -> Snapshot(a, s)
          [] update # "snapshot" /\ (update = "closed" \/ Fatal(s)) -> Interrupt(a, first, answers)
          [] OTHER -> Stop(a, first, answers, TRUE)
     /\ UNCHANGED <<rt, arrived, issued, left, over>>

(* resume: only a terminal that has no open connection takes a new one. *)
Resumed(s, k) ==
  IF s.link = "open" THEN s ELSE [s EXCEPT !.link = "open", !.late = FALSE, !.conn = k]

Wakes(r) == Kind[r] \in {"type", "text", "tell", "ask", "join"}

(* Work for a paused terminal asks the runtime for a connection. *)
Wake(a, s, r) ==
  IF Wakes(r) /\ Dormant(s)
  THEN [state |-> [s EXCEPT !.link = "waking"], sent |-> <<[what |-> "wanted", actor |-> a]>>]
  ELSE [state |-> s, sent |-> <<>>]

(* queue: a control waits behind the others; that a view types is remembered a while. *)
Queue(s, r) == [s EXCEPT !.queued = Append(@, r), !.typed = @ \/ Kind[r] = "type"]

(* A request of the mailbox; s is the actor without it, sent what wake sent. *)
Handle(a, s, r, sent) ==
  \/ /\ Kind[r] = "join"
     /\ RequestCapture(a, [s EXCEPT !.pending = @ \cup {r}], answer, sent)
  \/ /\ Kind[r] = "leave"
     /\ Continue(a, [s EXCEPT !.subs = @ \ {From[r]}, !.focused = @ \ {From[r]}], conns,
                 Told(answer, {r}, "ok"), sent)
  \/ /\ Kind[r] \notin {"join", "leave"} /\ s.late
     /\ Continue(a, s, conns, Told(answer, {r}, "unsent"), sent)
  \/ /\ Kind[r] = "ask" /\ ~s.late /\ s.link = "open"
     /\ Continue(a, s, Forwarded(s, <<r>>), ForwardedAnswers(s, <<r>>), sent)
  \/ /\ Kind[r] = "ask" /\ ~s.late /\ s.link # "open"
     /\ IF Len(s.held) < Capacity THEN Continue(a, [s EXCEPT !.held = Append(@, r)], conns, answer, sent)
        ELSE Continue(a, s, conns, Told(answer, {r}, "unsent"), sent)
  \/ /\ Kind[r] \in {"type", "text", "tell", "focus", "blur"} /\ ~s.late
     /\ \/ /\ Len(s.queued) >= Capacity \/ (Kind[r] = "text" /\ s.typed)
           /\ Continue(a, s, conns, Told(answer, {r}, "unsent"), sent)
        \/ /\ Len(s.queued) < Capacity
           /\ Continue(a, Queue(s, r), conns, answer, sent)

Request(a) ==
  LET m == Head(actor[a].mailbox)
      s == [actor[a] EXCEPT !.mailbox = Tail(@)]
  IN /\ Settled(a) /\ actor[a].mailbox # <<>>
     /\ IF m \in Requests
        THEN LET woken == Wake(a, s, m) IN Handle(a, woken.state, m, woken.sent)
        ELSE LET k == m[2]
             IN Continue(a, Resumed(s, k), IF s.link = "open" THEN Cut(conns, k) ELSE conns, answer, <<>>)
     /\ UNCHANGED <<rt, arrived, issued, left, over>>

(* maintain: a link lost too long fails what waits for it; old captures expire. *)
Maintained(s, expired) ==
  [s EXCEPT !.queued = IF s.late THEN <<>> ELSE @, !.held = IF s.late THEN <<>> ELSE @,
            !.pending = @ \ expired,
            !.capture = @ /\ s.pending \ expired # {} /\ expired = {}]
Maintain(a) ==
  LET s == actor[a]
      waiting == IF s.late THEN Range(s.queued \o s.held) ELSE {}
  IN /\ Settled(a)
     /\ \E old \in {{}, s.pending} :
          LET expired == old \cup {r \in s.pending : Closed(r)}
              t == Maintained(s, expired)
          IN /\ t # s \/ Captures(t)
             /\ RequestCapture(a, t, Told(Told(answer, waiting, "unsent"), expired, "failed"), <<>>)
     /\ UNCHANGED <<rt, arrived, issued, left, over>>

(* The handle was cancelled, or all handles are gone and the mailbox is empty. *)
Leave(a) ==
  LET s == actor[a]
  IN /\ \/ s.alive /\ ~s.pausing /\ s.cancelled
        \/ Settled(a) /\ s.dropped /\ s.mailbox = <<>>
     /\ Stop(a, s, answer, FALSE)
     /\ UNCHANGED <<rt, arrived, issued, left, over>>

(* RECONNECT_WAIT passes since the link was lost. *)
TooLong(a) ==
  /\ actor[a].alive /\ actor[a].link = "lost" /\ ~actor[a].late
  /\ actor' = [actor EXCEPT ![a].late = TRUE]
  /\ UNCHANGED <<conns, changes, rt, answer, arrived, issued, left, over>>

----------------------------------------------------------------------------
(* A connection: the Viewer here, its Stream on the host *)

(* The answer of a control goes to the actor that still waits for it. *)
Resolved(k, c, result) ==
  [a \in Actors |->
     LET s == actor[a]
     IN IF s.conn = k /\ s.flight.result = "none" /\ s.flight.kind = c.kind /\ s.flight.reqs = c.reqs
        THEN [s EXCEPT !.flight.result = result] ELSE s]

(* Viewer.request: before the first snapshot a refresh is dropped and work is refused.   *)
(* Input counts as done once it is on the channel.                                       *)
ViewerSends(k) ==
  LET c == Head(conns[k].commands)
      refused == ~conns[k].started /\ c.kind # "refresh"
      taken == [conns EXCEPT ![k].commands = Tail(@), ![k].asks = IF refused THEN @ \ Range(c.reqs) ELSE @]
  IN /\ conns[k].up /\ conns[k].commands # <<>>
     /\ conns' = IF conns[k].started /\ conns[k].hostUp
                 THEN [taken EXCEPT ![k].wire = Append(@, c)] ELSE taken
     /\ actor' = IF refused THEN Resolved(k, c, "no")
                 ELSE IF c.kind = "input" THEN Resolved(k, c, "ok") ELSE actor
     /\ answer' = IF refused THEN Told(answer, Range(c.reqs) \cap conns[k].asks, "failed") ELSE answer
     /\ UNCHANGED <<changes, rt, arrived, issued, left, over>>

(* Stream.received: the host does a control once and answers it. *)
HostTakes(k) ==
  LET c == Head(conns[k].wire)
      back(m) == [conns EXCEPT ![k].wire = Tail(@), ![k].back = Append(@, m)]
      took == arrived \o [i \in DOMAIN c.reqs |-> <<c.reqs[i], k>>]
  IN /\ conns[k].hostUp /\ conns[k].wire # <<>>
     /\ \/ /\ c.kind = "refresh"
           /\ conns' = back([what |-> "snapshot"])
           /\ UNCHANGED <<arrived, left>>
        \/ /\ c.kind = "input"
           /\ conns' = [conns EXCEPT ![k].wire = Tail(@)]
           /\ arrived' = took
           /\ UNCHANGED left
        \/ /\ c.kind \in {"tell", "ask", "focus"}
           /\ conns' = IF c.kind = "focus"
                       THEN [back([what |-> "done", control |-> c]) EXCEPT ![k].focus = c.focus]
                       ELSE back([what |-> "done", control |-> c])
           /\ arrived' = took
           /\ UNCHANGED left
        \/ /\ c.kind \in {"tell", "ask", "focus"} /\ Event("refuse")
           /\ conns' = back([what |-> "refused", control |-> c])
           /\ UNCHANGED arrived
     /\ UNCHANGED <<actor, changes, rt, answer, issued, over>>

(* The first snapshot of a connection. *)
HostStarts(k) ==
  /\ conns[k].hostUp /\ ~conns[k].keyed
  /\ conns' = [conns EXCEPT ![k].keyed = TRUE, ![k].back = Append(@, [what |-> "snapshot"])]
  /\ UNCHANGED <<actor, changes, rt, answer, arrived, issued, left, over>>

(* The Viewer ends: it tells its updates, then nothing more. *)
Ended(k, updates) ==
  [CutAll(conns, {k}) EXCEPT ![k].updates = conns[k].updates \o updates]
FlightLost(k) ==
  [a \in Actors |->
     IF actor[a].conn = k /\ actor[a].flight.kind # "none" /\ actor[a].flight.result = "none"
     THEN [actor[a] EXCEPT !.flight.result = "no"] ELSE actor[a]]

(* Viewer.frame *)
ViewerHears(k) ==
  LET m == Head(conns[k].back)
      rest == [conns EXCEPT ![k].back = Tail(@)]
  IN /\ conns[k].up /\ conns[k].back # <<>>
     /\ \/ /\ m.what = "snapshot"
           /\ conns' = [rest EXCEPT ![k].started = TRUE, ![k].updates = Append(@, "snapshot")]
           /\ UNCHANGED <<actor, answer>>
        \/ /\ m.what = "ended"
           /\ conns' = Ended(k, <<"ended", "closed">>)
           /\ actor' = FlightLost(k)
           /\ answer' = Told(answer, conns[k].asks, "failed")
        \/ /\ m.what \in {"done", "refused"} /\ m.control.kind = "ask"
           /\ conns' = [rest EXCEPT ![k].asks = @ \ Range(m.control.reqs)]
           /\ answer' = Told(answer, conns[k].asks \cap Range(m.control.reqs),
                             IF m.what = "done" THEN "ok" ELSE "failed")
           /\ UNCHANGED actor
        \/ /\ m.what \in {"done", "refused"} /\ m.control.kind # "ask"
           /\ conns' = rest
           /\ actor' = Resolved(k, m.control, IF m.what = "done" THEN "ok" ELSE "no")
           /\ UNCHANGED answer
     /\ UNCHANGED <<changes, rt, arrived, issued, left, over>>

(* The host or the way to it goes; what was on its way is lost. *)
HostGone(k) ==
  /\ conns[k].hostUp
  /\ IF conns[k].up THEN Event("break") ELSE UNCHANGED left
  /\ conns' = [conns EXCEPT ![k].hostUp = FALSE, ![k].wire = <<>>, ![k].back = <<>>, ![k].focus = FALSE]
  /\ UNCHANGED <<actor, changes, rt, answer, arrived, issued, over>>

(* The host ends the terminal. *)
HostEnds(k) ==
  /\ conns[k].hostUp /\ Event("end")
  /\ conns' = [conns EXCEPT ![k].hostUp = FALSE, ![k].wire = <<>>, ![k].focus = FALSE,
                            ![k].back = Append(@, [what |-> "ended"])]
  /\ over' = TRUE
  /\ UNCHANGED <<actor, changes, rt, answer, arrived, issued>>

(* The Viewer finds its channel closed or silent. *)
ViewerDies(k) ==
  /\ conns[k].up
  /\ IF conns[k].hostUp THEN Event("break") ELSE conns[k].back = <<>> /\ UNCHANGED left
  /\ conns' = Ended(k, <<"closed">>)
  /\ actor' = FlightLost(k)
  /\ answer' = Told(answer, conns[k].asks, "failed")
  /\ UNCHANGED <<changes, rt, arrived, issued, over>>

(* CONTROL_TIMEOUT passes before the host answers. *)
ControlExpires(k) ==
  /\ conns[k].up /\ Event("timeout")
  /\ \/ /\ actor' = FlightLost(k) /\ actor' # actor
        /\ UNCHANGED <<conns, answer>>
     \/ \E r \in conns[k].asks :
          /\ conns' = [conns EXCEPT ![k].asks = @ \ {r}]
          /\ answer' = Told(answer, {r}, "failed")
          /\ UNCHANGED actor
  /\ UNCHANGED <<changes, rt, arrived, issued, over>>

----------------------------------------------------------------------------
(* The callers *)

HandleClosed(a) == actor[a].cancelled \/ ~actor[a].alive

(* send(): a request goes to the actor's mailbox, or fails when that is full. *)
Issue(r) ==
  LET a == rt.cur
      full == Len(actor[a].mailbox) >= Capacity
  IN /\ r \in left.requests /\ r \notin Range(issued)
     /\ rt.online /\ a # NoActor /\ ~HandleClosed(a)
     /\ issued' = Append(issued, r)
     /\ actor' = IF full THEN actor ELSE [actor EXCEPT ![a].mailbox = Append(@, r)]
     /\ answer' = IF full THEN Told(answer, {r}, "unsent") ELSE answer
     /\ UNCHANGED <<conns, changes, rt, arrived, left, over>>

(* wait_for: the caller stops waiting. *)
GiveUp(r) ==
  /\ r \in Range(issued) /\ answer[r] = "none" /\ Event("timeout")
  /\ answer' = Told(answer, {r}, "failed")
  /\ UNCHANGED <<actor, conns, changes, rt, arrived, issued, over>>

----------------------------------------------------------------------------
(* The runtime *)

Interrupted(a) == actor[a].link # "open"

(* Nothing opens the terminal yet, and it waits for no retry. *)
Due(r) ==
  /\ ~r.blocked /\ r.opening = "none"
  /\ IF r.cur # NoActor /\ ~HandleClosed(r.cur) THEN Dormant(actor[r.cur]) ELSE r.retry = "none"

(* open_remote, for a client that asked or for the runtime itself. *)
OpenRemote(r, who) ==
  LET cur == IF r.cur # NoActor /\ HandleClosed(r.cur) THEN NoActor ELSE r.cur
      t == [r EXCEPT !.cur = cur]
      kept(next) == IF r.attached /\ r.retry = "none" THEN next ELSE r.retry
  IN IF cur # NoActor /\ ~Interrupted(cur) THEN t
     ELSE IF ~r.online THEN [t EXCEPT !.retry = kept("due")]
     ELSE IF r.opening # "none" THEN [t EXCEPT !.opening = who]
     ELSE [t EXCEPT !.opening = who, !.retry = kept("wait")]

(* follow_view: the actor learns whether a client shows its terminal. *)
Follow(r, hidden) ==
  IF r.cur # NoActor /\ ~HandleClosed(r.cur) THEN [actor EXCEPT ![r.cur].hidden = hidden] ELSE actor

(* A client reports what is on its screen. *)
See(shown) ==
  LET r == [rt EXCEPT !.shown = shown]
  IN /\ rt.attached /\ shown # rt.shown /\ Event("see")
     /\ actor' = Follow(rt, ~shown)
     /\ rt' = IF shown /\ Due(r) THEN OpenRemote(r, "runtime") ELSE r
     /\ UNCHANGED <<conns, changes, answer, arrived, issued, over>>

(* disconnect_remote: the last client closes the terminal. *)
Release ==
  /\ rt.attached /\ Event("attach")
  /\ actor' = IF rt.cur = NoActor THEN actor ELSE [actor EXCEPT ![rt.cur].cancelled = TRUE]
  /\ rt' = [rt EXCEPT !.cur = NoActor, !.attached = FALSE, !.shown = FALSE, !.retry = "none",
                      !.opening = "none"]
  /\ UNCHANGED <<conns, changes, answer, arrived, issued, over>>

(* A client opens it again, and shows it. *)
Attach ==
  /\ ~rt.attached /\ ~over /\ Event("attach")
  /\ rt' = OpenRemote([rt EXCEPT !.attached = TRUE, !.shown = TRUE], "client")
  /\ UNCHANGED <<actor, conns, changes, answer, arrived, issued, over>>

(* The computer of the terminal goes offline, and comes back. *)
Offline ==
  /\ rt.online /\ Event("offline")
  /\ rt' = [rt EXCEPT !.online = FALSE]
  /\ UNCHANGED <<actor, conns, changes, answer, arrived, issued, over>>

Retried(r) == [r EXCEPT !.retry = IF @ = "none" THEN "none" ELSE "due"]
Online ==
  /\ ~rt.online
  /\ rt' = Retried([rt EXCEPT !.online = TRUE])
  /\ UNCHANGED <<actor, conns, changes, answer, arrived, issued, left, over>>

(* This computer's own link to the backend came back: reconnect_now. *)
Relinked ==
  /\ rt.shown /\ rt.cur # NoActor /\ Interrupted(rt.cur) /\ ~HandleClosed(rt.cur)
  /\ ~(rt.opening # "none" /\ Dormant(actor[rt.cur]))
  /\ Event("relink")
  /\ rt' = Retried(rt)
  /\ UNCHANGED <<actor, conns, changes, answer, arrived, issued, over>>

(* reconnect_views: the time of a retry came.  A retry that waits takes longer than the *)
(* actor takes to read its mailbox.                                                      *)
ReconnectViews ==
  /\ \/ rt.retry = "due"
     \/ rt.retry = "wait" /\ (rt.cur # NoActor => Resumes(actor[rt.cur]) = {})
  /\ rt.shown /\ rt.online /\ rt.opening = "none"
  /\ rt.cur # NoActor => Interrupted(rt.cur)
  /\ rt' = OpenRemote(rt, "runtime")
  /\ UNCHANGED <<actor, conns, changes, answer, arrived, issued, left, over>>

(* connected(Ok): the actor that waits takes the connection, or a new one starts. *)
Connected ==
  LET k == CHOOSE n \in Conns \ Opened : \A m \in Conns \ Opened : n <= m
      b == CHOOSE n \in Actors \ Used : \A m \in Actors \ Used : n <= m
      opened == [conns EXCEPT ![k] = NewConn]
      hidden == rt.attached /\ ~rt.shown
      r == [rt EXCEPT !.opening = "none", !.retry = IF rt.attached THEN "wait" ELSE @,
                      !.blocked = FALSE]
      a == rt.cur
  IN /\ rt.opening # "none" /\ ~over /\ Opened # Conns
     /\ IF rt.opening = "runtime" /\ rt.retry = "none"
        THEN /\ rt' = [rt EXCEPT !.opening = "none"]
             /\ UNCHANGED <<actor, conns>>
        ELSE IF a # NoActor /\ Interrupted(a)
        THEN LET takes == ~HandleClosed(a) /\ Len(actor[a].mailbox) < Capacity
             IN /\ rt' = r
                /\ conns' = IF takes THEN opened ELSE conns
                /\ actor' = [actor EXCEPT
                     ![a].mailbox = IF takes THEN Append(@, <<"resume", k>>) ELSE @,
                     ![a].hidden = hidden]
        ELSE /\ Used # Actors
             /\ rt' = [r EXCEPT !.cur = b]
             /\ conns' = opened
             /\ actor' = [n \in Actors |->
                  IF n = b THEN NewActor(k, hidden)
                  ELSE IF n = a THEN [actor[n] EXCEPT !.dropped = TRUE] ELSE actor[n]]
     /\ UNCHANGED <<changes, answer, arrived, issued, left, over>>

(* connection_failed; a failure that no retry can mend blocks the terminal. *)
ConnectionFailed ==
  /\ rt.opening # "none"
  /\ IF over THEN UNCHANGED left ELSE Event("fail")
  /\ rt' = [rt EXCEPT !.opening = "none", !.retry = IF @ = "none" THEN "none" ELSE "wait"]
  /\ UNCHANGED <<actor, conns, changes, answer, arrived, issued, over>>
ConnectionBlocked ==
  /\ rt.opening # "none" /\ Event("block")
  /\ rt' = [rt EXCEPT !.opening = "none", !.retry = "none", !.cur = NoActor, !.blocked = TRUE]
  /\ actor' = IF rt.cur = NoActor THEN actor ELSE [actor EXCEPT ![rt.cur].cancelled = TRUE]
  /\ UNCHANGED <<conns, changes, answer, arrived, issued, over>>

(* What a change does: remote_lost, remote_paused, RemoteWanted, RemoteEnded. *)
Lost(r) == [r EXCEPT !.cur = NoActor]

(* A wrong remote_lost plans no retry. *)
ChangedNoRetry(change) ==
  CASE change = "interrupted" /\ rt.attached -> [rt EXCEPT !.retry = "none"]
    [] change \in {"interrupted", "closed"} /\ ~(change = "interrupted" /\ rt.attached) -> Lost(rt)
    [] change = "paused" /\ rt.shown /\ Due(rt) -> OpenRemote(rt, "runtime")
    [] change = "wanted" /\ Due(rt) -> OpenRemote(rt, "runtime")
    [] change = "ended" -> [Lost(rt) EXCEPT !.attached = FALSE, !.shown = FALSE, !.retry = "none"]
    [] OTHER -> rt

Changed(change) ==
  CASE change = "interrupted" /\ rt.attached -> [rt EXCEPT !.retry = "wait"]
    [] change \in {"interrupted", "closed"} /\ ~(change = "interrupted" /\ rt.attached) -> Lost(rt)
    [] change = "paused" /\ rt.shown /\ Due(rt) -> OpenRemote(rt, "runtime")
    [] change = "wanted" /\ Due(rt) -> OpenRemote(rt, "runtime")
    [] change = "ended" -> [Lost(rt) EXCEPT !.attached = FALSE, !.shown = FALSE, !.retry = "none"]
    [] OTHER -> rt

Change ==
  LET change == Head(changes)
      mine == change.actor = rt.cur
      lost == mine /\ rt.cur # NoActor /\ Changed(change.what).cur = NoActor
  IN /\ changes # <<>>
     /\ changes' = Tail(changes)
     /\ rt' = IF mine THEN Changed(change.what) ELSE rt
     /\ actor' = IF lost /\ change.what # "ended"
                 THEN [actor EXCEPT ![rt.cur].cancelled = TRUE] ELSE actor
     /\ UNCHANGED <<conns, answer, arrived, issued, left, over>>

----------------------------------------------------------------------------
ActorStep(a) ==
  \/ Pauses(a) \/ Pause(a) \/ ForwardHeld(a) \/ NextControl(a) \/ FinishControl(a) \/ ConnectionUpdate(a)
  \/ Request(a) \/ Maintain(a) \/ Leave(a)
ConnStep(k) ==
  ViewerSends(k) \/ HostTakes(k) \/ HostStarts(k) \/ ViewerHears(k)
RuntimeStep == Change \/ ReconnectViews \/ Connected

Next ==
  \/ \E a \in Actors : ActorStep(a) \/ TooLong(a)
  \/ \E k \in Conns : ConnStep(k) \/ HostGone(k) \/ HostEnds(k) \/ ViewerDies(k) \/ ControlExpires(k)
  \/ \E r \in Requests : Issue(r) \/ GiveUp(r)
  \/ \E shown \in BOOLEAN : See(shown)
  \/ Release \/ Attach \/ Offline \/ Online \/ Relinked
  \/ RuntimeStep \/ ConnectionFailed \/ ConnectionBlocked

Spec == Init /\ [][Next]_vars

(* Tasks are scheduled and timers fire; a channel that died is found dead; an open ends.  *)
(* Nothing makes links break, people act or hosts refuse.                                 *)
Fairness ==
  /\ WF_vars(\E a \in Actors : ActorStep(a) \/ TooLong(a))
  /\ WF_vars(\E k \in Conns : ConnStep(k) \/ (~conns[k].hostUp /\ ViewerDies(k)))
  /\ WF_vars(RuntimeStep \/ Online \/ (over /\ ConnectionFailed))

FairSpec == Spec /\ Fairness

----------------------------------------------------------------------------
(* Properties *)

(* Each field in its range: a queue and a held list within CONTROL_CAPACITY, no request  *)
(* waiting for the answer of a connection that is gone (participant.rs drops its replies *)
(* with the Viewer), no snapshot counted without a link, no screen without a client.     *)
TypeOK ==
  /\ \A a \in Actors :
       LET s == actor[a]
       IN /\ s.link \in {"open", "lost", "paused", "waking"} /\ s.conn \in Conns \cup {0}
          /\ s.subs \subseteq Views /\ s.focused \subseteq Views
          /\ Range(s.queued \o s.held \o s.flight.reqs) \cup s.pending \subseteq Requests
          /\ s.flight.kind \in {"none", "input", "tell", "focus"}
          /\ s.flight.result \in {"none", "ok", "no", "closed"}
          /\ Len(s.queued) <= Capacity /\ Len(s.held) <= Capacity
          /\ s.alive => ~(s.link # "open" /\ s.seq)
  /\ \A k \in Conns : conns[k].asks \subseteq Requests /\ (conns[k].asks # {} => conns[k].up)
  /\ rt.cur \in Actors \cup {NoActor} /\ rt.opening \in {"none", "client", "runtime"}
  /\ rt.retry \in {"none", "wait", "due"} /\ (rt.shown => rt.attached)
  /\ answer \in [Requests -> Answers]

OnTheWay ==
  UNION {Range(actor[a].flight.reqs) : a \in {b \in Actors : actor[b].flight.result = "none"}}
  \cup UNION {UNION {Range(c.reqs) : c \in Range(conns[k].commands \o conns[k].wire)} : k \in Conns}
Arrived == {arrived[i][1] : i \in DOMAIN arrived}

(* The host takes no request twice, whatever is lost, cut, retried or resumed: interrupt *)
(* gives up what is in flight and keeps only what was never begun.                       *)
AtMostOnce == \A i, j \in DOMAIN arrived : arrived[i][1] = arrived[j][1] => i = j

(* A caller that was told its request was not sent (the link was lost too long, a buffer *)
(* was full, its view left, somebody typed) can trust it: the request is nowhere on its  *)
(* way and the host never gets it.                                                       *)
UnsentNotSent == \A r \in Requests : answer[r] = "unsent" => r \notin OnTheWay \cup Arrived

(* A request whose caller was answered, or gave up waiting in wait_for, is never sent    *)
(* afterwards: next_control and forward look at the caller again when its turn comes.    *)
StaysUnsent ==
  [][\A r \in Requests : answer[r] # "none" /\ r \notin OnTheWay => r \notin OnTheWay']_vars

(* On one connection the host takes the queued requests of a view, and those without a   *)
(* view, in the order in which they were made, also across a lost link and a merge of    *)
(* inputs.  Canvas requests go on their own.                                             *)
Before(r, q) == \E i, j \in DOMAIN issued : i < j /\ issued[i] = r /\ issued[j] = q
InOrder ==
  \A i, j \in DOMAIN arrived :
    LET r == arrived[i][1]
        q == arrived[j][1]
    IN i < j /\ arrived[i][2] = arrived[j][2] /\ From[r] = From[q] /\ Kind[r] # "ask" /\ Kind[q] # "ask"
         => Before(r, q)

(* With no control in flight, the focus the actor takes for confirmed is the focus the   *)
(* host gave the program through this connection: a host forgets it with the connection. *)
FocusTrue ==
  \A a \in Actors :
    LET s == actor[a]
        c == conns[s.conn]
    IN s.alive /\ s.link = "open" /\ s.flight = Idle /\ c.up /\ c.hostUp => c.focus = s.confirmed

Current == rt.cur # NoActor /\ ~HandleClosed(rt.cur)
Streams == Current /\ ~Interrupted(rt.cur)
Wanted == rt.attached /\ rt.shown /\ rt.online /\ ~rt.blocked /\ ~over

(* A terminal that a client shows comes back: whatever was lost, paused or failed, and   *)
(* whichever message of the actor crosses a report of what is shown, it streams again.   *)
ComesBack == Wanted ~> (Streams \/ ~Wanted)

(* While the terminal is shown every request is answered, without the timeout of its     *)
(* caller: by the host, by a lost link, after RECONNECT_WAIT, or at the actor's end.     *)
Answered == []<>(~rt.shown \/ \A r \in Range(issued) : answer[r] # "none")

(* Work for a paused terminal opens its channel again, shown or not: wake tells the      *)
(* runtime, and where no connection fails every request is answered.                     *)
NothingFails == \A e \in {"fail", "block", "offline", "end"} : left.events[e] = 0
WorkWakes == NothingFails => []<>(\A r \in Range(issued) : answer[r] # "none")

(* The focus of a view reaches the host again after a link was lost and set up anew.     *)
Focused == Current /\ actor[rt.cur].focused # {}
FocusReaches ==
  (Wanted /\ Focused) ~> (~Wanted \/ ~Focused \/ (Streams /\ conns[actor[rt.cur].conn].focus))

(* What the host takes and what callers are told of it, over lost links, pauses and     *)
(* replaced actors.                                                                     *)
RequestsSafe == TypeOK /\ AtMostOnce /\ UnsentNotSent /\ InOrder /\ FocusTrue

(* A terminal that is shown streams again, and has its focus again.                     *)
LinkReturns == ComesBack /\ FocusReaches

(* No request waits for ever, shown or hidden.                                          *)
AllAnswered == Answered /\ WorkWakes

=============================================================================
