--------------------------- MODULE DocumentSync ---------------------------
(***************************************************************************)
(* A live document and the views that edit it.  The document               *)
(* (documents/crates/document/src/live.rs) puts every change in one order; *)
(* a view (documents/views/client/src/client.ts, outbox.ts) sends one      *)
(* batch of its edits at a time, keeps it until the answer comes, and      *)
(* joins again on a new pipe after each lost link.                         *)
(*                                                                         *)
(* An edit is <<client, n>>, a batch a sequence of edits.  What a format   *)
(* makes of a batch is left to a choice: it takes it, or refuses it as     *)
(* behind when other changes came since the batch's base, or as invalid.   *)
(* The editors are the ones with an Outbox (sheets, presentations, PDFs).  *)
(*                                                                         *)
(* A sheet does two things more with what others change: it lets a change  *)
(* wait while the person's cell editor is open, and it moves its           *)
(* unanswered edits, which removes the ones on lines that are gone.  What  *)
(* a change touches is left to a choice as well.                           *)
(*                                                                         *)
(* Packing and unpacking a frame are taken to end before the link they     *)
(* belong to is replaced by a new one.                                     *)
(***************************************************************************)
EXTENDS Integers, Sequences, FiniteSets, SequencesExt

CONSTANTS Clients,      \* the views
          NoClient,     \* the seat of a pipe that did not join yet
          File,         \* the author of what another program writes
          Budgets,      \* who takes part in a behaviour, how many edits people make,
                        \* how many lost links, crashes, new journals, openings,
                        \* outside writes and invalid batches it has in all, and how
                        \* many changes touch what another person is at
          MaxPipes      \* pipes of each client

ASSUME DocumentSyncAssumption ==
  /\ NoClient \notin Clients /\ File \notin Clients /\ MaxPipes \in Nat
  /\ Budgets \subseteq [clients : SUBSET Clients, edits : Nat, events : Nat, touches : Nat]

VARIABLES
  doc,      \* the document and its task
  toDoc,    \* toDoc[p]: what pipe p carries to the document
  toView,   \* toView[p]: what pipe p carries to its view
  view,     \* view[c]: a client with its outbox and editor
  pipes,    \* pipes[c]: pipes that c had so far
  left,     \* what is left of the budget
  risk      \* risk[c]: how c gave up to know the fate of a batch

vars == <<doc, toDoc, toView, view, pipes, left, risk>>

Pipe == Clients \X (1..MaxPipes)
Unset == 0

----------------------------------------------------------------------------
(* The document *)

Init ==
  /\ doc = [epoch |-> 1, firstRev |-> 0, rev |-> 0, history |-> <<>>,
            seqs |-> [c \in Clients |-> 0], seats |-> <<>>]
  /\ toDoc = [p \in Pipe |-> <<>>]
  /\ toView = [p \in Pipe |-> <<>>]
  /\ view = [c \in Clients |->
       [pipe |-> Unset, joined |-> FALSE, loaded |-> FALSE, epoch |-> 0, rev |-> 0,
        lastSeq |-> 0, waitingSeq |-> Unset, sent |-> <<>>, queued |-> <<>>,
        edits |-> 0, shown |-> {}, seen |-> <<>>, held |-> {}, removed |-> {},
        peers |-> {}]]
  /\ pipes = [c \in Clients |-> 0]
  /\ left \in Budgets
  /\ risk = [c \in Clients |-> {}]

(* One more of the events that the budget bounds. *)
Event == left.events > 0 /\ left' = [left EXCEPT !.events = @ - 1]

Edits(changes) == UNION {Range(changes[i].body) : i \in DOMAIN changes}

(* A wrong log_since leaves out the first change after the rev. *)
SinceSkips(rev) == SubSeq(doc.history, Len(doc.history) - doc.rev + rev + 2, Len(doc.history))

(* The changes after a rev, if the log still holds them (log_since). *)
HasSince(rev) == doc.firstRev <= rev /\ rev <= doc.rev
Since(rev) == SubSeq(doc.history, Len(doc.history) - doc.rev + rev + 1, Len(doc.history))

Seated == DOMAIN doc.seats
Joined(seats) == {p \in DOMAIN seats : seats[p] # NoClient}
Without(seats, gone) == [p \in DOMAIN seats \ gone |-> seats[p]]
Seat(seats, p, c) == [q \in DOMAIN seats \cup {p} |-> IF q = p THEN c ELSE seats[q]]

(* Frames for pipes; a pipe that the task no longer has gets none (send). *)
Sent(to, message) == [p \in Pipe |-> IF p \in to THEN Append(toView[p], message) ELSE toView[p]]

(* The end of a pipe's seat: the others hear that its client left.  The    *)
(* code drops it when the batch of at most 64 commands it is in was taken. *)
Leave(p) ==
  LET seats == Without(doc.seats, {p})
      told  == IF p \in Joined(doc.seats) THEN Joined(seats) ELSE {}
  IN /\ doc' = [doc EXCEPT !.seats = seats]
     /\ toView' = Sent(told, [kind |-> "left", id |-> p[1]])

(* join: older pipes of the same client end, the pipe gets its seat, what  *)
(* the view missed (or a snapshot), and the others hear of the new peer.   *)
Join(p, message) ==
  LET c      == p[1]
      older  == {q \in Joined(doc.seats) : doc.seats[q] = c}
      rest   == Without(doc.seats, older)
      seats  == Seat(rest, p, c)
      peers  == {rest[q] : q \in Joined(rest)}
      missed == message.epoch = doc.epoch /\ message.rev > 0 /\ HasSince(message.rev)
      joined == [kind |-> "joined", epoch |-> doc.epoch, rev |-> doc.rev,
                 seq |-> doc.seqs[c], peers |-> peers, snapshot |-> ~missed,
                 changes |-> IF missed THEN Since(message.rev) ELSE doc.history]
      others == Joined(rest)
  IN IF p \in DOMAIN rest
       THEN /\ doc' = [doc EXCEPT !.seats = seats]
            /\ toView' = [Sent(others, [kind |-> "peer", id |-> c])
                            EXCEPT ![p] = Append(@, joined)]
       ELSE doc' = [doc EXCEPT !.seats = rest] /\ UNCHANGED toView

(* ordered: the change gets the next rev and goes to every joined pipe. *)
Ordered(by, seq, body) ==
  LET change == [by |-> by, seq |-> seq, body |-> body]
  IN /\ doc' = [doc EXCEPT !.rev = @ + 1, !.history = Append(@, change),
                           !.seqs = IF by = File THEN @ ELSE [@ EXCEPT ![by] = seq]]
     /\ toView' = Sent(Joined(doc.seats),
                       [kind |-> "changed", rev |-> doc.rev + 1, change |-> change])

Refuse(p, reason) ==
  toView' = Sent({p}, [kind |-> "refused", reason |-> reason]) /\ UNCHANGED doc

(* change: a batch that came before is ignored; the format may call a      *)
(* batch invalid, or behind when others changed the file since its base.   *)
Change(p, message) ==
  LET c == p[1] IN
  \/ message.seq <= doc.seqs[c] /\ UNCHANGED <<doc, toView, left>>
  \/ /\ message.seq > doc.seqs[c]
     /\ \/ message.base > doc.rev /\ Refuse(p, "invalid") /\ UNCHANGED left
        \/ message.base < doc.firstRev /\ Refuse(p, "behind") /\ UNCHANGED left
        \/ /\ HasSince(message.base)
           /\ \/ Ordered(c, message.seq, message.body) /\ UNCHANGED left
              \/ Since(message.base) # <<>> /\ Refuse(p, "behind") /\ UNCHANGED left
              \/ Event /\ Refuse(p, "invalid")

(* The document takes the next thing of a pipe.  A change before join, and *)
(* a second join, break the contract and end the pipe.                     *)
Receive(p) ==
  /\ toDoc[p] # <<>>
  /\ toDoc' = [toDoc EXCEPT ![p] = Tail(@)]
  /\ UNCHANGED <<view, pipes, risk>>
  /\ LET message == Head(toDoc[p])
         joined  == p \in Joined(doc.seats)
     IN CASE message.kind = "join" /\ ~joined -> Join(p, message) /\ UNCHANGED left
          [] message.kind = "change" /\ joined -> Change(p, message)
          [] OTHER -> Leave(p) /\ UNCHANGED left

(* Another program wrote the file, and its change is merged. *)
FileChanged ==
  /\ Event
  /\ Ordered(File, 0, <<<<File, left.events>>>>)
  /\ UNCHANGED <<toDoc, view, pipes, risk>>

(* The journal starts again after a save: a new epoch with an empty log. *)
Rebased ==
  /\ Event
  /\ doc' = [doc EXCEPT !.epoch = @ + 1, !.firstRev = doc.rev]
  /\ UNCHANGED <<toDoc, toView, view, pipes, risk>>

(* The last view left a minute ago: the file is saved, its journal is      *)
(* removed, and the next view finds the file opened anew.                  *)
Reopen ==
  /\ Event /\ doc.seats = <<>>
  /\ doc' = [doc EXCEPT !.epoch = @ + 1, !.firstRev = 0, !.rev = 0,
                        !.seqs = [c \in Clients |-> 0]]
  /\ UNCHANGED <<toDoc, toView, view, pipes, risk>>

(* The process of the document ends and restores it from the journal.      *)
(* Every pipe is gone; a frame that it did not take yet is lost.           *)
Restart ==
  /\ Event
  /\ doc' = [doc EXCEPT !.seats = <<>>]
  /\ toDoc' = [p \in Pipe |-> <<>>]
  /\ UNCHANGED <<toView, view, pipes, risk>>

----------------------------------------------------------------------------
(* A view *)

Post(c, message) == toDoc' = [toDoc EXCEPT ![<<c, view[c].pipe>>] = Append(@, message)]

Unanswered(c) == view[c].sent \o view[c].queued

(* Outbox.next and the rest of pull: whether a client has a batch to send, *)
(* the client after it, and the frame.  Nothing goes while changes wait.   *)
Pulls(v) == /\ v.waitingSeq = Unset /\ v.pipe # Unset
            /\ v.held = {} /\ v.sent \o v.queued # <<>>
Batch(v) == IF v.sent = <<>> THEN v.queued ELSE v.sent

Pulled(v) ==
  [v EXCEPT !.waitingSeq = v.lastSeq + 1, !.lastSeq = v.lastSeq + 1,
            !.sent = Batch(v), !.queued = IF v.sent = <<>> THEN <<>> ELSE @]
ChangeOf(v) == [kind |-> "change", seq |-> v.lastSeq + 1, base |-> v.rev, body |-> Batch(v)]

(* A client takes state v and pulls. *)
Pull(c, v) ==
  IF Pulls(v)
    THEN /\ view' = [view EXCEPT ![c] = Pulled(v)]
         /\ Post(c, ChangeOf(v))
    ELSE view' = [view EXCEPT ![c] = v] /\ UNCHANGED toDoc

(* A batch goes out again before the document said what became of it, or   *)
(* is forgotten before that.                                               *)
Blind(c, how) == risk' = [risk EXCEPT ![c] = @ \cup how]

JoinOf(v) == [kind |-> "join", epoch |-> v.epoch, rev |-> v.rev]

(* A wrong attach goes on waiting for the answer of the lost link. *)
AttachStillWaits(c) ==
  /\ c \in left.clients /\ view[c].pipe = Unset /\ pipes[c] < MaxPipes
  /\ LET n == pipes[c] + 1 IN
     /\ pipes' = [pipes EXCEPT ![c] = n]
     /\ view' = [view EXCEPT ![c].pipe = n, ![c].joined = FALSE]
     /\ doc' = [doc EXCEPT !.seats = Seat(@, <<c, n>>, NoClient)]
     /\ toDoc' = [toDoc EXCEPT ![<<c, n>>] = <<JoinOf(view[c])>>]
  /\ UNCHANGED <<toView, left, risk>>

(* attach: a new pipe, at the start and after each lost link. *)
Attach(c) ==
  /\ c \in left.clients /\ view[c].pipe = Unset /\ pipes[c] < MaxPipes
  /\ LET n == pipes[c] + 1 IN
     /\ pipes' = [pipes EXCEPT ![c] = n]
     /\ view' = [view EXCEPT ![c].pipe = n, ![c].waitingSeq = Unset, ![c].joined = FALSE]
     /\ doc' = [doc EXCEPT !.seats = Seat(@, <<c, n>>, NoClient)]
     /\ toDoc' = [toDoc EXCEPT ![<<c, n>>] = <<JoinOf(view[c])>>]
  /\ UNCHANGED <<toView, left, risk>>

(* The link is gone: the document got a part of what the pipe carried and  *)
(* then hears that the pipe ended; the view gets nothing more of it.       *)
Cut(c) ==
  LET p == <<c, view[c].pipe>> IN
  /\ view[c].pipe # Unset
  /\ view' = [view EXCEPT ![c].pipe = Unset, ![c].joined = FALSE]
  /\ toView' = [toView EXCEPT ![p] = <<>>]
  /\ UNCHANGED <<doc, pipes, risk>>

Lose(c) ==
  /\ Event
  /\ Cut(c)
  /\ LET p == <<c, view[c].pipe>> IN
     \E n \in 0 .. Len(toDoc[p]) :
       toDoc' = [toDoc EXCEPT ![p] = Append(SubSeq(@, 1, n), [kind |-> "gone"])]

(* The document ended the pipe, and the host of the view opens another. *)
Dropped(c) ==
  /\ view[c].pipe # Unset /\ <<c, view[c].pipe>> \notin Seated
  /\ Cut(c)
  /\ toDoc' = [toDoc EXCEPT ![<<c, view[c].pipe>>] = <<>>]
  /\ UNCHANGED left

(* What a change of others does to a sheet: it waits because it touches    *)
(* the cell of the open editor, or it is shown and removes the lines of    *)
(* some unanswered edits.  A person can open the editor at any time, so    *)
(* that it is open is not kept.                                            *)
Plain == [waits |-> FALSE, gone |-> {}]
Ways(v) ==
  IF left.touches = 0 THEN {Plain}
  ELSE {[waits |-> TRUE, gone |-> {}]}
         \cup {[waits |-> FALSE, gone |-> gone] : gone \in SUBSET (Range(v.sent) \cup Range(v.queued))}

Touching(how) == {i \in DOMAIN how : how[i] # Plain}
Touches(c, v, changes) ==
  {how \in [DOMAIN changes -> Ways(v)] :
     /\ Cardinality(Touching(how)) <= left.touches
     /\ \A i \in DOMAIN changes : changes[i].by = c => how[i] = Plain}
Touched(how) == left' = [left EXCEPT !.touches = @ - Cardinality(Touching(how))]

(* Outbox.move: the edits that are not gone, in their order. *)
Moved(edits, gone) ==
  LET moved[i \in 0 .. Len(edits)] ==
        IF i = 0 THEN <<>>
        ELSE IF edits[i] \in gone THEN moved[i - 1] ELSE Append(moved[i - 1], edits[i])
  IN moved[Len(edits)]

(* A wrong answered keeps the batch. *)
StillSent(sent) == sent

(* Outbox.answered. *)
Answered(sent) == <<>>

(* showOrdered: an editor shows changes of others, which remove the lines  *)
(* of some of its unanswered edits.                                        *)
Shown(v, edits, lines) ==
  LET gone == lines \cap (Range(v.sent) \cup Range(v.queued)) IN
  [v EXCEPT !.shown = (@ \cup edits) \ gone, !.sent = Moved(@, gone), !.queued = Moved(@, gone),
            !.removed = @ \cup gone]

(* applied: a change of the document reaches the client and its editor.    *)
(* Its own change only answers the outbox, which showed it before.  One of *)
(* others waits behind those that wait.                                    *)
Applied(c, v, rev, change, how) ==
  LET own   == change.by = c
      given == [v EXCEPT !.rev = rev, !.seen = Append(@, change)]
  IN IF own
       THEN [given EXCEPT !.waitingSeq = IF change.seq = @ THEN Unset ELSE @,
                          !.lastSeq = IF change.seq > @ THEN change.seq ELSE @,
                          !.sent = Answered(@)]
       ELSE IF v.held # {} \/ how.waits
         THEN [given EXCEPT !.held = @ \cup {Len(v.seen) + 1}]
         ELSE Shown(given, Range(change.body), how.gone)

AppliedAll(c, v, rev, changes, how) ==
  LET applied[i \in 0 .. Len(changes)] ==
        IF i = 0 THEN v
        ELSE Applied(c, applied[i - 1], rev - Len(changes) + i, changes[i], how[i])
  IN applied[Len(changes)]

(* A move removed the whole batch that is on its way, or may be. *)
Forgets(v, w) == v.sent # <<>> /\ w.sent = <<>>

(* The client is given changes and pulls. *)
Gives(c, v, rev, changes) ==
  \E how \in Touches(c, v, changes) :
    LET w == AppliedAll(c, v, rev, changes, how) IN
    /\ Pull(c, w)
    /\ Blind(c, IF Forgets(v, w) /\ \A i \in DOMAIN changes : changes[i].by # c
                  THEN {"moved"} ELSE {})
    /\ Touched(how)

HandleJoined(c, message) ==
  LET v == [view[c] EXCEPT !.epoch = message.epoch, !.lastSeq = message.seq, !.joined = TRUE,
                           !.peers = message.peers]
      loaded == [v EXCEPT !.rev = message.rev, !.loaded = TRUE, !.seen = message.changes,
                          !.shown = Edits(message.changes), !.held = {}]
  IN IF message.snapshot
       THEN /\ Blind(c, IF Unanswered(c) = <<>> THEN {} ELSE {"snapshot"})
            /\ Pull(c, loaded)
            /\ UNCHANGED left
       ELSE Gives(c, v, message.rev, message.changes)

(* refused: an invalid batch makes the client load again. *)
HandleRefused(c, message) ==
  /\ UNCHANGED <<left, risk>>
  /\ IF message.reason = "invalid"
       THEN LET v == [view[c] EXCEPT !.waitingSeq = Unset, !.rev = 0, !.epoch = 0]
            IN view' = [view EXCEPT ![c] = v] /\ Post(c, JoinOf(v))
       ELSE Pull(c, [view[c] EXCEPT !.waitingSeq = Unset])

Handle(c) ==
  LET p == <<c, view[c].pipe>> IN
  /\ view[c].pipe # Unset /\ toView[p] # <<>>
  /\ toView' = [toView EXCEPT ![p] = Tail(@)]
  /\ UNCHANGED <<doc, pipes>>
  /\ LET message == Head(toView[p])
         v == view[c]
     IN CASE message.kind = "joined"  -> HandleJoined(c, message)
          [] message.kind = "refused" -> HandleRefused(c, message)
          [] message.kind = "changed" ->
               Gives(c, v, message.rev, <<message.change>>)
          [] message.kind = "peer" ->
               view' = [view EXCEPT ![c].peers = @ \cup {message.id}] /\ UNCHANGED <<toDoc, left, risk>>
          [] message.kind = "left" ->
               view' = [view EXCEPT ![c].peers = @ \ {message.id}] /\ UNCHANGED <<toDoc, left, risk>>

(* SheetEditEnded: the person closes the cell editor, the changes that     *)
(* waited are shown, and the client pulls.  With nothing that waited it is *)
(* of the touches that the budget bounds, and matters only if it pulls.    *)
CloseCell(c) ==
  \E gone \in {{}} \cup (IF left.touches = 0 THEN {} ELSE SUBSET Range(Unanswered(c))) :
    LET v     == view[c]
        w     == [Shown(v, Edits([i \in v.held |-> v.seen[i]]), gone) EXCEPT !.held = {}]
        early == Pulls(w) /\ ~w.joined /\ w.sent # <<>>
        free  == v.held # {} /\ gone = {}
    IN /\ v.loaded
       /\ v.held = {} => Pulls(v) /\ left.touches > 0 /\ gone = {}
       /\ Pull(c, w)
       /\ Blind(c, (IF early THEN {"early"} ELSE {}) \cup (IF Forgets(v, w) THEN {"moved"} ELSE {}))
       /\ left' = [left EXCEPT !.touches = IF free THEN @ ELSE @ - 1]
       /\ UNCHANGED <<doc, toView, pipes>>

(* The person edits the file that the editor shows, with a link or         *)
(* without one: the edit waits in the outbox, and the client pulls.        *)
Edit(c) ==
  LET edit  == <<c, view[c].edits + 1>>
      v     == [view[c] EXCEPT !.edits = @ + 1, !.queued = Append(@, edit),
                               !.shown = @ \cup {edit}]
      early == Pulls(v) /\ ~v.joined /\ v.sent # <<>>
  IN /\ view[c].loaded /\ left.edits > 0
     /\ left' = [left EXCEPT !.edits = @ - 1]
     /\ Pull(c, v)
     /\ Blind(c, IF early THEN {"early"} ELSE {})
     /\ UNCHANGED <<doc, toView, pipes>>

----------------------------------------------------------------------------
Next ==
  \/ \E p \in Pipe : Receive(p)
  \/ FileChanged
  \/ Rebased
  \/ Reopen
  \/ Restart
  \/ \E c \in Clients : \/ Attach(c)
                        \/ Lose(c)
                        \/ Dropped(c)
                        \/ Handle(c)
                        \/ Edit(c)
                        \/ CloseCell(c)

Spec == Init /\ [][Next]_vars

(* The task takes what its pipes carry, the page handles what it gets, the *)
(* host of a view opens a new pipe for as long as the page is open, and    *)
(* nobody leaves a cell editor open for ever.                              *)
Fairness ==
  /\ \A p \in Pipe : WF_vars(Receive(p))
  /\ \A c \in Clients : WF_vars(Handle(c)) /\ WF_vars(Attach(c)) /\ WF_vars(Dropped(c))
                        /\ WF_vars(CloseCell(c) /\ view[c].held # {})

FairSpec == Spec /\ Fairness

----------------------------------------------------------------------------
(* Type correctness: the counters are numbers, seats belong to pipes, and  *)
(* a client that waits for an answer still holds the batch it sent, unless *)
(* it sent a batch again blindly before.                                   *)
TypeOK ==
  /\ doc.epoch \in Nat \ {0} /\ doc.firstRev <= doc.rev /\ doc.rev <= Len(doc.history)
  /\ Seated \subseteq Pipe /\ Range(doc.seats) \subseteq Clients \cup {NoClient}
  /\ \A c \in Clients :
       /\ view[c].pipe \in 0 .. pipes[c]
       /\ {view[c].waitingSeq, view[c].lastSeq, view[c].rev} \subseteq Nat
       /\ view[c].sent = <<>> => view[c].waitingSeq = Unset \/ risk[c] # {}
       /\ risk[c] \subseteq {"snapshot", "early", "moved"}

Times(edit) == Cardinality({i \in DOMAIN doc.history : edit \in Range(doc.history[i].body)})
EditsOf(c) == {c} \X (1 .. view[c].edits)

(* A client that never loaded a snapshot with unanswered edits, never      *)
(* pulled again before it joined and never had a whole batch removed       *)
(* before its answer has each of its edits in the document exactly once,   *)
(* or still in its outbox, or removed with the line it was on, across lost *)
(* links, refusals, crashes and new journals.  Those three are the ways in *)
(* which the client gives up to know what became of a batch: a snapshot    *)
(* says nothing of the batch that is on its way, which goes out again      *)
(* under the next number, and so does the edit that pulls before the new   *)
(* pipe joined; and the answer of a batch that was removed answers the     *)
(* next one.                                                               *)
ExactlyOnce ==
  \A c \in Clients : risk[c] = {} => \A e \in EditsOf(c) :
    \/ Times(e) = 1
    \/ Times(e) = 0 /\ e \in Range(Unanswered(c)) \cup view[c].removed

(* Such a client's editor shows the changes it was given, but for those    *)
(* that wait for its cell editor, and its own unanswered edits: nothing of *)
(* its own flickers away, unless its line was removed, or is shown that    *)
(* nobody will ever send.                                                  *)
ViewShowsAll ==
  \A c \in Clients : risk[c] = {} =>
    LET v     == view[c]
        given == Edits([i \in DOMAIN v.seen \ v.held |-> v.seen[i]])
        own   == Range(Unanswered(c))
    IN (given \cup own) \ v.removed \subseteq v.shown /\ v.shown \subseteq given \cup own

(* Two views that are settled see each other and not themselves as peers,  *)
(* however often their pipes replaced one another.                         *)
Quiet(c) == LET p == <<c, view[c].pipe>> IN
  view[c].joined /\ toDoc[p] = <<>> /\ toView[p] = <<>> /\ p \in Seated
PeersTrue == \A c, d \in Clients : Quiet(c) /\ Quiet(d) => (d \in view[c].peers <=> d # c)

Order == INSTANCE SharedOrder WITH Views <- Clients, order <- doc.history,
                                   seen <- [c \in Clients |-> view[c].seen]

(* The document and its views implement SharedOrder: what a view was given *)
(* is always a beginning of the one order of changes and only grows, over  *)
(* catching up by missed changes or by a snapshot, a new epoch, and a file *)
(* that opens again with its revs from 0.                                  *)
OneOrder == Order!Spec

(* An unanswered edit gets its answer once links hold, unless the client   *)
(* sent a batch again blindly: after that its number can be one that the   *)
(* document ignores without an answer.                                     *)
EditsArrive == \A c \in Clients : []<>(Unanswered(c) = <<>> \/ risk[c] # {})

(* Every change reaches every view, its author's included. *)
ChangesReach == \A c \in Clients : c \in left.clients => Order!Reaches(c)

(* A view and the document agree on the view's own edits and on who is there, over lost *)
(* links, refusals, crashes and new journals.                                           *)
EditsKept == TypeOK /\ ExactlyOnce /\ ViewShowsAll /\ PeersTrue

(* Edits get their answer and changes reach every view.                                 *)
AllArrives == EditsArrive /\ ChangesReach

============================================================================
