---------------------------- MODULE TerminalSize ----------------------------
(***************************************************************************)
(* Which view sets the size of a hosted terminal, and what its program is  *)
(* told of the focus: set_focus, apply_resize, give_size_back and release  *)
(* of LocalActor (terminal/session.rs) with the requests that call them.   *)
(*                                                                         *)
(* The actor handles one request at a time, but a view can go at any time: *)
(* another thread drops its Subscription, or the network cancels the       *)
(* authorization of a connection.  Where a handler reads a token twice,    *)
(* the view may have gone in between.                                      *)
(***************************************************************************)
EXTENDS Naturals, Sequences, FiniteSets, FiniteSetsExt

CONSTANTS
  View,        \* the connections of views (Controller); each connects once
  Remote,      \* those of other computers (Controller::Remote)
  Size,        \* the sizes a view can ask for
  ReportRoom,  \* bound of the model: focus reports that wait to be written
  MaxTurn      \* bound of the model: turns that the requests of views take

ASSUME SizeAssumption ==
  /\ IsFiniteSet(View) /\ Remote \subseteq View
  /\ Size # {}
  /\ ReportRoom \in Nat
  /\ MaxTurn \in Nat

VARIABLES
  phase,      \* of the actor's run loop: "running" or "stopped"
  fresh,      \* views that have not connected yet
  live,       \* views whose authorization is not cancelled
  focused,    \* LocalActor::focused
  asked,      \* the size in LocalActor::requested, as a set of at most one
  turn,       \* RequestedSize::taken_turn, 0 where nothing is requested
  owner,      \* LocalActor::resize_owner, as a set of at most one
  size,       \* LocalActor::size, the size of the emulator
  pty,        \* the size of the pseudoterminal
  reports,    \* focus reports in LocalActor::queue: the focus, whose token
  told,       \* the focus the program was told last
  since,      \* history: the views that did not take the size since v did
  denied,     \* history: views whose last try to take the size failed
  missed,     \* history: a view did not take the size given back, others could
  lost        \* history: a focus report did not fit the input queue

viewVars == <<fresh, live>>
sizeVars == <<asked, turn, owner, size, pty>>
focusVars == <<focused, reports, told, lost>>
pastVars == <<since, denied, missed>>
vars == <<phase, viewVars, sizeVars, focusVars, pastVars>>

Init ==
  /\ phase = "running"
  /\ fresh = View
  /\ live = {}
  /\ focused = {}
  /\ asked = [v \in View |-> {}]
  /\ turn = [v \in View |-> 0]
  /\ owner = {}
  /\ size \in Size
  /\ pty = size
  /\ reports = <<>>
  /\ told = FALSE
  /\ since = [v \in View |-> {}]
  /\ denied = {}
  /\ missed = FALSE
  /\ lost = FALSE

-----------------------------------------------------------------------------
\* Request::Subscribe or HostRequest::Connected.
Connect(v) ==
  /\ phase = "running"
  /\ v \in fresh
  /\ fresh' = fresh \ {v}
  /\ live' = live \cup {v}
  /\ UNCHANGED <<phase, sizeVars, focusVars, pastVars>>

\* The Subscription is dropped or the connection loses its authorization.
Cancel(v) ==
  /\ v \in live
  /\ live' = live \ {v}
  /\ UNCHANGED <<phase, fresh, sizeVars, focusVars, pastVars>>

\* The latest turn of the requests t.
Latest(t) == Max({t[v] : v \in View} \cup {0})

\* The history once v takes the size.
TookLast(v) == [w \in View |-> IF w = v THEN View \ {v} ELSE since[w] \ {v}]

\* Mutant: a resize keeps the turn that its view has.
TakesOldTurn(a, t, v, s) ==
  /\ asked' = [a EXCEPT ![v] = {s}]
  /\ turn' = [t EXCEPT ![v] = IF @ = 0 THEN Latest(t) + 1 ELSE @]
  /\ owner' = {v}
  /\ size' = s /\ pty' = s
  /\ since' = TookLast(v)
  /\ denied' = denied \ {v}
  /\ UNCHANGED phase

\* Mutant: the view that had the size still owns it too.
TakesShared(a, t, v, s) ==
  /\ asked' = [a EXCEPT ![v] = {s}]
  /\ turn' = [t EXCEPT ![v] = Latest(t) + 1]
  /\ owner' = owner \cup {v}
  /\ size' = s /\ pty' = s
  /\ since' = TookLast(v)
  /\ denied' = denied \ {v}
  /\ UNCHANGED phase

(***************************************************************************)
(* The end of apply_resize, with a and t requested so far: the             *)
(* pseudoterminal and the emulator have the size, and the view gets the    *)
(* next turn and owns the size.                                            *)
(***************************************************************************)
Takes(a, t, v, s) ==
  /\ asked' = [a EXCEPT ![v] = {s}]
  /\ turn' = [t EXCEPT ![v] = Latest(t) + 1]
  /\ owner' = {v}
  /\ size' = s /\ pty' = s
  /\ since' = TookLast(v)
  /\ denied' = denied \ {v}
  /\ UNCHANGED phase

(***************************************************************************)
(* apply_resize returns Rejected: the pseudoterminal refuses the size, the *)
(* view has gone, or another one controls the size.  The request is kept.  *)
(***************************************************************************)
Rejected(a, t, v, s) ==
  /\ asked' = [a EXCEPT ![v] = {s}]
  /\ turn' = t
  /\ denied' = denied \cup {v}
  /\ UNCHANGED <<phase, size, pty, since>>

\* Mutant: a resize that failed half way counts as refused.
DivergedGoesOn(a, t, v, s) ==
  /\ asked' = [a EXCEPT ![v] = {s}]
  /\ turn' = t
  /\ pty' = s
  /\ denied' = denied \cup {v}
  /\ UNCHANGED <<phase, size, since>>

\* apply_resize returns Diverged: the emulator failed and the actor stops.
Diverged(a, t, v, s) ==
  /\ phase' = "stopped"
  /\ asked' = [a EXCEPT ![v] = {s}]
  /\ turn' = t
  /\ pty' = s
  /\ size' \in {size, s}
  /\ UNCHANGED <<since, denied>>

\* A view takes the size with a claim, in focus, or when no other has it.
MayTake(v, claim) == claim \/ v \in focused \/ owner \cap live \subseteq {v}

(***************************************************************************)
(* Request::Resize and TerminalControl::Resize.  The view is there when    *)
(* the request is taken and may have gone when apply_resize looks again.   *)
(***************************************************************************)
Resize(v, s, claim) ==
  /\ phase = "running"
  /\ v \in live
  /\ Latest(turn) < MaxTurn
  /\ \/ /\ MayTake(v, claim)
        /\ \/ Takes(asked, turn, v, s)
           \/ (Rejected(asked, turn, v, s) \/ Diverged(asked, turn, v, s)) /\ owner' = owner
        /\ live' = live
     \/ /\ Rejected(asked, turn, v, s)
        /\ owner' = owner
        /\ live' = IF MayTake(v, claim) THEN live \ {v} ELSE live
  /\ UNCHANGED <<fresh, focusVars, missed>>

-----------------------------------------------------------------------------
\* Mutant: the program hears of a first focus and never of the last one.
ReportedGain(f, by) ==
  IF ~(focused = {} /\ f # {})
    THEN {[reports |-> reports, lost |-> lost, ok |-> TRUE]}
    ELSE {r \in {[reports |-> reports, lost |-> TRUE, ok |-> FALSE],
                 [reports |-> Append(reports, [focus |-> f # {}, by |-> by]),
                  lost |-> lost, ok |-> TRUE]} : Len(r.reports) <= ReportRoom}

(***************************************************************************)
(* set_focus with f the views in focus after it: when the first one gets   *)
(* the focus or the last one loses it, a report for the program is put in  *)
(* the input queue under the token `by`.  It fails when the queue is full. *)
(***************************************************************************)
Reported(f, by) ==
  IF (focused = {}) = (f = {})
    THEN {[reports |-> reports, lost |-> lost, ok |-> TRUE]}
    ELSE {r \in {[reports |-> reports, lost |-> TRUE, ok |-> FALSE],
                 [reports |-> Append(reports, [focus |-> f # {}, by |-> by]),
                  lost |-> lost, ok |-> TRUE]} : Len(r.reports) <= ReportRoom}

\* A failed set_focus of another computer's view stops the terminal.
FocusFails(v) ==
  /\ phase' = IF v \in Remote THEN "stopped" ELSE phase
  /\ denied' = denied \cup {v}
  /\ UNCHANGED <<sizeVars, since>>

\* Mutant: a view that gets the focus does not take the size it asked for.
FocusOnly(v) ==
  /\ phase = "running"
  /\ v \in live
  /\ focused' = focused \cup {v}
  /\ \E r \in Reported(focused \cup {v}, {v}) :
       /\ reports' = r.reports
       /\ lost' = r.lost
       /\ \/ r.ok /\ UNCHANGED <<phase, sizeVars, since, denied>>
          \/ ~r.ok /\ FocusFails(v)
  /\ UNCHANGED <<viewVars, told, missed>>

\* Request::Focus and TerminalControl::Focus: focus_view, take_requested_size.
Focus(v) ==
  /\ phase = "running"
  /\ v \in live
  /\ Latest(turn) < MaxTurn
  /\ focused' = focused \cup {v}
  /\ \E r \in Reported(focused \cup {v}, {v}) :
       /\ reports' = r.reports
       /\ lost' = r.lost
       /\ \/ ~r.ok /\ FocusFails(v)
          \/ /\ r.ok /\ (owner = {v} \/ asked[v] = {})
             /\ UNCHANGED <<phase, sizeVars, since, denied>>
          \/ /\ r.ok /\ owner # {v}
             /\ \E s \in asked[v] :
                  \/ Takes(asked, turn, v, s)
                  \/ (Rejected(asked, turn, v, s) \/ Diverged(asked, turn, v, s))
                       /\ owner' = owner
  /\ UNCHANGED <<viewVars, told, missed>>

\* The view loses the focus; a size it owns stays its own.
Blur(v) ==
  /\ phase = "running"
  /\ v \in live
  /\ focused' = focused \ {v}
  /\ \E r \in Reported(focused \ {v}, {}) :
       /\ reports' = r.reports
       /\ lost' = r.lost
       /\ \/ r.ok /\ UNCHANGED <<phase, denied>>
          \/ ~r.ok /\ FocusFails(v)
  /\ UNCHANGED <<viewVars, sizeVars, told, since, missed>>

-----------------------------------------------------------------------------
\* The views that give_size_back chooses from once those of `gone` are out.
Heirs(gone) == {w \in (focused \ gone) \cap live : asked[w] # {}}

(***************************************************************************)
(* give_size_back: the size goes to the view in focus with the latest      *)
(* turn.  That view may have gone when apply_resize looks at it, or the    *)
(* pseudoterminal may refuse: then nobody owns the size.                   *)
(***************************************************************************)
GiveBack(a, t, gone) ==
  \/ /\ Heirs(gone) = {}
     /\ owner' = {} /\ asked' = a /\ turn' = t
     /\ live' = live \ gone
     /\ UNCHANGED <<phase, size, pty, since, denied, missed>>
  \/ \E w \in Heirs(gone) : \E s \in asked[w] :
       /\ \A other \in Heirs(gone) : turn[other] <= turn[w]
       /\ \/ /\ Takes(a, t, w, s)
             /\ live' = live \ gone
             /\ missed' = missed
          \/ /\ Rejected(a, t, w, s) /\ owner' = {}
             /\ live' \in {live \ gone, live \ (gone \cup {w})}
             /\ missed' = (missed \/ Heirs(gone) # {w})
          \/ /\ Diverged(a, t, w, s) /\ owner' = {}
             /\ live' = live \ gone
             /\ missed' = missed

(***************************************************************************)
(* release of the views of `gone`, and give_size_back when `vacant`.       *)
(***************************************************************************)
Release(gone, vacant) ==
  LET a == [v \in View |-> IF v \in gone THEN {} ELSE asked[v]]
      t == [v \in View |-> IF v \in gone THEN 0 ELSE turn[v]]
  IN /\ focused' = focused \ gone
     /\ \/ vacant /\ GiveBack(a, t, gone)
        \/ /\ ~vacant
           /\ asked' = a /\ turn' = t
           /\ live' = live \ gone
           /\ UNCHANGED <<phase, owner, size, pty, since, denied, missed>>

\* Request::Unsubscribe or HostRequest::Disconnected.
Leave(v) ==
  /\ phase = "running"
  /\ v \in View \ fresh
  /\ \E r \in Reported(focused \ {v}, {}) : reports' = r.reports /\ lost' = r.lost
  /\ Release({v}, owner = {v})
  /\ UNCHANGED <<fresh, told>>

\* Mutant: upkeep looks only at the views in focus.
VacantFocused == owner # {} /\ owner \subseteq focused \ live

\* The view that owns the size has gone.
Vacant == owner # {} /\ owner \cap live = {}

\* The reports of a queue whose views are there, in their order.
Kept(queue) ==
  LET kept[n \in 0 .. Len(queue)] ==
        IF n = 0 THEN <<>>
        ELSE IF queue[n].by \subseteq live THEN Append(kept[n - 1], queue[n])
        ELSE kept[n - 1]
  IN kept[Len(queue)]

(***************************************************************************)
(* maintain: views in focus that have gone are released, a size without    *)
(* its view is given back, and then input of views that have gone is       *)
(* dropped (drop_cancelled_input), but for a report that is being written. *)
(***************************************************************************)
Maintain ==
  /\ phase = "running"
  /\ \E r \in Reported(focused \cap live, {}), inFlight \in BOOLEAN :
       /\ lost' = r.lost
       /\ reports' = IF inFlight /\ r.reports # <<>>
                       THEN <<Head(r.reports)>> \o Kept(Tail(r.reports))
                       ELSE Kept(r.reports)
  /\ Release(focused \ live, Vacant)
  /\ UNCHANGED <<fresh, told>>

(***************************************************************************)
(* A report is written to the program.  One whose view has gone is dropped *)
(* (pending_input) unless it is already being written.                     *)
(***************************************************************************)
PassReport ==
  /\ phase = "running"
  /\ reports # <<>>
  /\ reports' = Tail(reports)
  /\ \/ told' = Head(reports).focus
     \/ ~(Head(reports).by \subseteq live) /\ told' = told
  /\ UNCHANGED <<viewVars, sizeVars, pastVars, phase, focused, lost>>

\* The program ends or the terminal is closed.
Stop ==
  /\ phase = "running"
  /\ phase' = "stopped"
  /\ UNCHANGED <<viewVars, sizeVars, focusVars, pastVars>>

Finished ==
  /\ phase = "stopped" /\ live = {}
  /\ UNCHANGED vars

Next ==
  \/ \E v \in View :
       \/ Connect(v) \/ Cancel(v) \/ Focus(v) \/ Blur(v) \/ Leave(v)
       \/ \E s \in Size, claim \in BOOLEAN : Resize(v, s, claim)
  \/ Maintain \/ PassReport \/ Stop \/ Finished

Spec == Init /\ [][Next]_vars

(***************************************************************************)
(* Fairness: the upkeep timer fires at least every 250 ms, and a program   *)
(* that reads its input takes what is queued.  No view has to ask for      *)
(* anything or to say that it leaves.                                      *)
(***************************************************************************)
FairSpec == Spec /\ WF_vars(Maintain) /\ WF_vars(PassReport)

-----------------------------------------------------------------------------
(***************************************************************************)
(* Properties.                                                             *)
(***************************************************************************)

\* Every variable has its type.
TypeOK ==
  /\ phase \in {"running", "stopped"}
  /\ fresh \subseteq View
  /\ live \subseteq View \ fresh
  /\ focused \subseteq View \ fresh
  /\ asked \in [View -> {{}} \cup {{s} : s \in Size}]
  /\ turn \in [View -> Nat]
  /\ owner \in {{}} \cup {{v} : v \in View}
  /\ size \in Size
  /\ pty \in Size
  /\ reports \in Seq([focus : BOOLEAN, by : {{}} \cup {{v} : v \in View}])
  /\ Len(reports) <= ReportRoom
  /\ told \in BOOLEAN
  /\ since \in [View -> SUBSET View]
  /\ denied \subseteq View
  /\ missed \in BOOLEAN
  /\ lost \in BOOLEAN

(***************************************************************************)
(* The terminal has the size its owner asked for last, and program and     *)
(* emulator agree on it, unless the pseudoterminal refused that size.      *)
(***************************************************************************)
OwnerHasItsSize ==
  phase = "running" =>
    /\ pty = size
    /\ \A v \in owner : v \in denied \/ asked[v] = {size}

(***************************************************************************)
(* "The view in focus sets the size of its terminal": while a view that is *)
(* there has the focus and has asked for a size, some view owns the size.  *)
(* The exceptions are a view that was refused, and a size that the view it *)
(* was given back to did not take: no other view is tried.                 *)
(***************************************************************************)
FocusSetsSize ==
  phase = "running" /\ owner = {} /\ ~missed =>
    \A v \in focused \cap live : v \in denied \/ asked[v] = {}

(***************************************************************************)
(* "When that view leaves, the focused view whose size the terminal had    *)
(* before sets it again": whenever a leaving view makes the size change    *)
(* hands, it goes to the view that had it last of those in focus.          *)
(***************************************************************************)
GivesBackInOrder ==
  [][(Maintain \/ \E v \in View : Leave(v)) /\ owner' # owner =>
       \A heir \in owner' :
         /\ heir \in focused \cap live
         /\ \A v \in focused' \cap live' : asked[v] # {} => heir \notin since[v]]_vars

(***************************************************************************)
(* The program is not left believing that somebody looks: when no report   *)
(* waits and the last one said focused, some view is in focus.             *)
(***************************************************************************)
FocusReleased ==
  phase = "running" /\ reports = <<>> /\ ~lost /\ told => focused # {}

(***************************************************************************)
(* A view that has gone without a word keeps neither the focus nor the     *)
(* size.                                                                   *)
(***************************************************************************)
GoneViewsLoseAll ==
  \A v \in View :
    (v \notin live /\ v \notin fresh)
      ~> (phase = "stopped" \/ (v \notin focused /\ v \notin owner))

=============================================================================
