------------------------ MODULE ConnectionDirectory ------------------------
(***************************************************************************)
(* The backend's directory of device connections, hosted terminals and     *)
(* pipes (TerminalConnections/ConnectionDirectory.cs) with the tasks that  *)
(* use it: the task of each connection (ConnectionEndpoints.cs), the       *)
(* requests that change who may use a terminal or end it                   *)
(* (SessionService.cs, DeviceService.cs), the request that hides an        *)
(* offline terminal, and the announcer of what is online                   *)
(* (TerminalPresence.cs).                                                  *)
(*                                                                         *)
(* The directory changes under one lock, so a method is one step up to the *)
(* unlock.  What it sends after the unlock, and every await of a task, is  *)
(* a point where the other tasks run.                                      *)
(***************************************************************************)
EXTENDS Naturals, FiniteSets

CONSTANTS
  Conn,             \* device connections; each connects once
  Device, Person,   \* the devices and the accounts
  DeviceOf(_),      \* the device of a connection
  PersonOf(_),      \* the account of a device
  Hosting,          \* DeviceConnection::Hosts: connections that say they host
  Terminal,         \* sessions
  HostDevice(_),    \* Session::HostDeviceId, whose account owns the session
  Pipe,             \* pipe identities; a view makes a new one each time
  Task,             \* requests that change access, each used once
  Loads,            \* bound of the model: what may take part in one behaviour
  None,             \* no session: the pipe is a call
  MaxDevices,       \* Limits.MaxDevicesPerUser
  MaxConnections,   \* MaximumDeviceConnections
  SessionPipes,     \* MaximumSessionPipes
  DevicePipes,      \* MaximumDevicePipes
  MaxCalls          \* MaximumCalls

ASSUME DirectoryAssumption ==
  /\ IsFiniteSet(Conn) /\ IsFiniteSet(Pipe)
  /\ None \notin Terminal /\ {"no", "closed"} \cap Conn = {}
  /\ \A c \in Conn : DeviceOf(c) \in Device
  /\ \A d \in Device : PersonOf(d) \in Person
  /\ \A s \in Terminal : HostDevice(s) \in Device

VARIABLES
  dir,         \* the directory, as a record of its dictionaries
  open,        \* connections whose IsOpen is true
  pc, arg,     \* where the task of a connection is, and its open pipe request
  shared,      \* database: people that a session is shared with
  ended,       \* database: sessions that ended
  revoked,     \* database: devices that are revoked
  hidden,      \* database: sessions with a HiddenSession row
  task,        \* a request that changes access: its step, and what is left of it
  hide,        \* where the request that hides a session is
  late,        \* what waits to be sent after an unlock
  hostSees,    \* a pipe at its host: "no", the connection it is open at, "closed"
  viewSees,    \* a pipe at its viewer: "no", the connection that asked, "closed"
  hostsTold,   \* HostsNotice that a connection heard last
  waiting,     \* TerminalPresence::waiting
  announcing,  \* what AnnounceAsync runs for and saw, at most one
  told,        \* what people heard last of a session: its Live
  load,        \* the connections, pipes, tasks and devices that take part
  lapsed       \* history: "revoke" or "show" that a failure cut off, "stop"

accessVars == <<shared, ended, revoked>>
seenVars == <<hostSees, viewSees, hostsTold>>
announceVars == <<announcing, told>>
presenceVars == <<waiting, announceVars>>
vars == <<dir, open, pc, arg, accessVars, hidden, task, hide, late, seenVars,
          presenceVars, load, lapsed>>

Account(c) == PersonOf(DeviceOf(c))
Owner(s) == PersonOf(HostDevice(s))
Idle == [step |-> "idle", over |-> {}, live |-> {}, gone |-> {},
         allowed |-> [s \in Terminal |-> {}]]
Offline == [online |-> FALSE, status |-> FALSE]

DirInit ==
  [entries |-> {}, ready |-> {}, hosted |-> [s \in Terminal |-> {}],
   status |-> [s \in Terminal |-> FALSE],
   hostedPipes |-> [s \in Terminal |-> {}],
   entryHosted |-> [c \in Conn |-> {}], entryPipes |-> [c \in Conn |-> {}],
   views |-> [c \in Conn |-> 0], calls |-> [c \in Conn |-> 0], pipes |-> {}]

Init ==
  /\ dir = DirInit
  /\ open = {}
  /\ pc = [c \in Conn |-> "new"]
  /\ arg = [c \in Conn |-> None]
  /\ shared = [s \in Terminal |-> Person \ {Owner(s)}]
  /\ ended = {} /\ revoked = {} /\ hidden = {}
  /\ task = [t \in Task |-> Idle]
  /\ hide = [step |-> "idle", session |-> None]
  /\ late = {}
  /\ hostSees = [p \in Pipe |-> "no"]
  /\ viewSees = [p \in Pipe |-> "no"]
  /\ hostsTold = [c \in Conn |-> {}]
  /\ waiting = {} /\ announcing = {}
  /\ told = [s \in Terminal |-> Offline]
  /\ load \in Loads
  /\ lapsed = {}

-----------------------------------------------------------------------------
(* The database *)

\* TerminalAccess.People: the owner and whom the session is shared with.
People(s) == {Owner(s)} \cup shared[s]

\* SessionService.AuthorizedAsync.
Authorized(c, s) == s \notin ended /\ Account(c) \in People(s)

-----------------------------------------------------------------------------
(* Under the lock *)

\* ConnectionDirectory.Live.
Live(D, s) == [online |-> D.hosted[s] \cap open # {},
               status |-> D.hosted[s] \cap open # {} /\ D.status[s]]

Ids(P) == {p.id : p \in P}
WithIds(D, I) == {p \in D.pipes : p.id \in I}

(***************************************************************************)
(* RemovePipeLocked of each of the pipes P: every index that names a pipe  *)
(* is cleared where its owner is still registered.                         *)
(***************************************************************************)
RemovePipes(D, P) ==
  LET viewed(c) == {p \in P : p.viewer = c}
      called(c) == {p \in P : p.host = c /\ p.session = None} IN
  [D EXCEPT
     !.pipes = @ \ P,
     !.hostedPipes = [s \in Terminal |-> @[s] \ Ids({p \in P : p.session = s})],
     !.entryPipes = [c \in Conn |-> IF c \in D.entries
                       THEN @[c] \ Ids({p \in P : c \in {p.viewer, p.host}}) ELSE @[c]],
     !.views = [c \in Conn |-> IF c \in D.entries
                  THEN @[c] - Cardinality(viewed(c)) ELSE @[c]],
     !.calls = [c \in Conn |-> IF c \in D.entries
                  THEN @[c] - Cardinality(called(c)) ELSE @[c]]]

Closed(p, c) == [kind |-> "closed", pipe |-> p, to |-> c]

\* ClosedNotice for the pipes P to their ends, but not to the silent ones.
Closing(P, silent) ==
  {Closed(p.id, p.viewer) : p \in {q \in P : q.viewer \notin silent}}
  \cup {Closed(p.id, p.host) : p \in {q \in P : q.host \notin silent}}

\* HostChanged(s) for S: TerminalPresence.Change, which only adds to waiting.
Changing(S) == waiting' = waiting \cup {s \in S : "presence" \in load}

\* RemoveHostedLocked of each of the sessions S.
Unhosted(D, S) ==
  LET D1 == [D EXCEPT
               !.hosted = [s \in Terminal |-> IF s \in S THEN {} ELSE @[s]],
               !.status = [s \in Terminal |-> IF s \in S THEN FALSE ELSE @[s]],
               !.hostedPipes = [s \in Terminal |-> IF s \in S THEN {} ELSE @[s]],
               !.entryHosted = [c \in Conn |-> @[c] \ {s \in S : c \in D.hosted[s]}]] IN
  RemovePipes(D1, WithIds(D, UNION {D.hostedPipes[s] : s \in S}))
HostedPipes(D, S) == WithIds(D, UNION {D.hostedPipes[s] : s \in S})

(***************************************************************************)
(* DetachLocked of the registered connections C (at most one): its hosted  *)
(* sessions go first, then its other pipes, then its entry.                *)
(***************************************************************************)
Detached(D, C) ==
  LET S == UNION {D.entryHosted[c] : c \in C}
      D1 == Unhosted(D, S)
      D2 == RemovePipes(D1, WithIds(D1, UNION {D1.entryPipes[c] : c \in C})) IN
  [D2 EXCEPT !.entries = @ \ C, !.ready = @ \ C,
             !.entryHosted = [c \in Conn |-> IF c \in C THEN {} ELSE @[c]],
             !.entryPipes = [c \in Conn |-> IF c \in C THEN {} ELSE @[c]],
             !.views = [c \in Conn |-> IF c \in C THEN 0 ELSE @[c]],
             !.calls = [c \in Conn |-> IF c \in C THEN 0 ELSE @[c]]]

\* What DetachLocked leaves for after the unlock.
DetachedLate(D, C) ==
  LET S == UNION {D.entryHosted[c] : c \in C}
      rest == WithIds(D, UNION {D.entryPipes[c] : c \in C}) \ HostedPipes(D, S) IN
  Closing(HostedPipes(D, S), {}) \cup Closing(rest, C)
  \cup {[kind |-> "abort", to |-> c] : c \in C}

\* The devices that TellHostsLocked names to the account a.
ReadyHosts(D, a) == {DeviceOf(c) : c \in {h \in D.ready \cap Hosting \cap open : Account(h) = a}}

\* TellHostsLocked: HostsNotice to the ready connections of a, or only some.
TellHosts(D, a, only) ==
  hostsTold' = [c \in Conn |->
    IF c \in D.ready \cap only \cap open /\ Account(c) = a THEN ReadyHosts(D, a) ELSE hostsTold[c]]

(***************************************************************************)
(* DetachLocked of C, after which the connections E are registered: the    *)
(* other devices of the account hear when a ready host has gone.           *)
(***************************************************************************)
Detach(C, E) ==
  LET D == Detached(dir, C) IN
  /\ dir' = [D EXCEPT !.entries = @ \cup E]
  /\ IF C \cap dir.ready \cap Hosting # {}
       THEN \E c \in C : TellHosts(D, Account(c), Conn)
       ELSE UNCHANGED hostsTold
  /\ late' = late \cup DetachedLate(dir, C)
  /\ Changing(UNION {dir.entryHosted[c] : c \in C})

\* The connection that the device has registered, as a set of at most one.
EntryOf(d) == {c \in dir.entries : DeviceOf(c) = d}

-----------------------------------------------------------------------------
(* The task of a connection: registering *)

\* RunAsync up to the first RequireApprovedAsync.
Hello(c) ==
  /\ pc[c] = "new" /\ c \in load
  /\ DeviceOf(c) \notin revoked
  /\ "stop" \notin lapsed
  /\ pc' = [pc EXCEPT ![c] = "approved"]
  /\ open' = open \cup {c}
  /\ UNCHANGED <<dir, arg, accessVars, hidden, task, hide, late, seenVars, presenceVars, load, lapsed>>

\* Register: the connection takes the place of the device's previous one.
Register(c) ==
  /\ pc[c] = "approved"
  /\ LET previous == EntryOf(DeviceOf(c))
         peers == {e \in dir.entries : Account(e) = Account(c)}
         full == /\ previous = {}
                 /\ \/ Cardinality(peers) >= MaxDevices
                    \/ Cardinality(dir.entries) >= MaxConnections IN
     \/ /\ full
        /\ pc' = [pc EXCEPT ![c] = "ending"]
        /\ UNCHANGED <<dir, late, hostsTold, waiting>>
     \/ /\ ~full
        /\ Detach(previous, {c})
        /\ pc' = [pc EXCEPT ![c] = "registered"]
  /\ UNCHANGED open
  /\ UNCHANGED <<arg, accessVars, hidden, task, hide, hostSees, viewSees, announceVars, load, lapsed>>

\* The second RequireApprovedAsync; a revoked device ends its task.
ApprovedAgain(c) ==
  /\ pc[c] = "registered"
  /\ pc' = [pc EXCEPT ![c] = IF DeviceOf(c) \in revoked THEN "ending" ELSE "welcome"]
  /\ UNCHANGED <<dir, open, arg, accessVars, hidden, task, hide, late, seenVars, presenceVars, load, lapsed>>

\* Ready: a host is told to every device of its account.
Ready(c) ==
  /\ pc[c] = "welcome"
  /\ LET D == [dir EXCEPT !.ready = @ \cup ({c} \cap dir.entries)] IN
     /\ dir' = D
     /\ IF c \in dir.entries
          THEN TellHosts(D, Account(c), IF c \in Hosting THEN Conn ELSE {c})
          ELSE UNCHANGED hostsTold
  /\ pc' = [pc EXCEPT ![c] = "listening"]
  /\ UNCHANGED <<open, arg, accessVars, hidden, task, hide, late, hostSees, viewSees, presenceVars, load, lapsed>>

\* The connection breaks, is silent too long, expires, or its queue is full.
Break(c) ==
  /\ c \in open
  /\ open' = open \ {c}
  /\ UNCHANGED <<dir, pc, arg, accessVars, hidden, task, hide, late, seenVars, presenceVars, load, lapsed>>

(***************************************************************************)
(* RunAsync's finally: Remove, wherever the task was when its token was    *)
(* cancelled.  A view that waits for its second check is closed first (see *)
(* CheckedAgain).                                                          *)
(***************************************************************************)
Remove(c) ==
  /\ pc[c] \in {"registered", "welcome", "listening", "opening", "hosting", "showing", "shown", "ending"}
  /\ pc[c] # "ending" => c \notin open
  /\ Detach({c} \cap dir.entries, {})
  /\ open' = open \ {c}
  /\ pc' = [pc EXCEPT ![c] = "ended"]
  /\ UNCHANGED <<arg, accessVars, hidden, task, hide, hostSees, viewSees, announceVars, load, lapsed>>

-----------------------------------------------------------------------------
(* The task of a connection: its messages *)

\* Unused pipe identities.
Fresh == {p \in Pipe \cap load : viewSees[p] = "no"}

\* OpenMessage: AuthorizedAsync before the pipe opens.  A computer uses its
\* own terminals without the backend.
OpenAsked(c, p, s) ==
  /\ pc[c] = "listening" /\ c \in open
  /\ DeviceOf(c) # HostDevice(s)
  /\ p \in Fresh
  /\ IF Authorized(c, s)
       THEN /\ viewSees' = [viewSees EXCEPT ![p] = c]
            /\ pc' = [pc EXCEPT ![c] = "opening"]
            /\ arg' = [arg EXCEPT ![c] = [pipe |-> p, session |-> s]]
       ELSE /\ viewSees' = [viewSees EXCEPT ![p] = "closed"]
            /\ UNCHANGED <<pc, arg>>
  /\ UNCHANGED <<dir, open, accessVars, hidden, task, hide, late, hostSees, hostsTold, presenceVars, load, lapsed>>

\* What Open requires of the directory.
MayOpen(c, s) ==
  /\ c \in dir.entries
  /\ dir.hosted[s] \cap open # {}
  /\ Cardinality(dir.hostedPipes[s]) < SessionPipes
  /\ dir.views[c] < DevicePipes

\* The directory with the pipe p from c to h; None is the session of a call.
WithPipe(D, p, s, c, h) ==
  [D EXCEPT
     !.pipes = @ \cup {[id |-> p, session |-> s, viewer |-> c, host |-> h]},
     !.hostedPipes = [t \in Terminal |-> IF t = s THEN @[t] \cup {p} ELSE @[t]],
     !.entryPipes = [e \in Conn |-> IF e \in {c, h} THEN @[e] \cup {p} ELSE @[e]],
     !.views[c] = @ + 1,
     !.calls[h] = IF s = None THEN @ + 1 ELSE @]

\* Open: the pipe is in every index, and the host hears of it in the lock.
Open(c) ==
  /\ pc[c] = "opening" /\ c \in open
  /\ LET p == arg[c].pipe
         s == arg[c].session IN
     IF MayOpen(c, s)
       THEN \E h \in dir.hosted[s] :
              /\ dir' = WithPipe(dir, p, s, c, h)
              /\ hostSees' = [hostSees EXCEPT ![p] = h]
              /\ pc' = [pc EXCEPT ![c] = "checking"]
              /\ UNCHANGED viewSees
       ELSE /\ viewSees' = [viewSees EXCEPT ![p] = "closed"]
            /\ pc' = [pc EXCEPT ![c] = "listening"]
            /\ UNCHANGED <<dir, hostSees>>
  /\ UNCHANGED <<open, arg, accessVars, hidden, task, hide, late, hostsTold, presenceVars, load, lapsed>>

\* Mutant: the second AuthorizedAsync is left out.
NotCheckedAgain(c) ==
  /\ pc[c] = "checking"
  /\ pc' = [pc EXCEPT ![c] = "listening"]
  /\ UNCHANGED <<dir, open, arg, accessVars, hidden, task, hide, late, seenVars, presenceVars, load, lapsed>>

(***************************************************************************)
(* AuthorizedAsync after the pipe opened.  When it refuses, fails or is    *)
(* cancelled with the connection, Close ends the pipe and the viewer hears *)
(* the refusal.                                                            *)
(***************************************************************************)
CheckedAgain(c) ==
  /\ pc[c] = "checking"
  /\ LET p == arg[c].pipe
         P == WithIds(dir, {p}) IN
     \/ /\ Authorized(c, arg[c].session) /\ c \in open
        /\ pc' = [pc EXCEPT ![c] = "listening"]
        /\ UNCHANGED <<dir, late, viewSees>>
     \/ /\ dir' = RemovePipes(dir, P)
        /\ late' = late \cup Closing(P, {c})
        /\ viewSees' = [viewSees EXCEPT ![p] = "closed"]
        /\ pc' = [pc EXCEPT ![c] = IF c \in open THEN "listening" ELSE "ending"]
  /\ UNCHANGED <<open, arg, accessVars, hidden, task, hide, hostSees, hostsTold, presenceVars, load, lapsed>>

\* HostMessage: HostAsync finds the session, of this device and not ended.
HostAsked(c, s) ==
  /\ pc[c] = "listening" /\ c \in open
  /\ DeviceOf(c) = HostDevice(s) /\ s \notin ended
  /\ pc' = [pc EXCEPT ![c] = "hosting"]
  /\ arg' = [arg EXCEPT ![c] = [session |-> s]]
  /\ UNCHANGED <<dir, open, accessVars, hidden, task, hide, late, seenVars, presenceVars, load, lapsed>>

\* Host: a session that another connection hosts moves to this one.
Host(c) ==
  /\ pc[c] = "hosting" /\ c \in open
  /\ LET s == arg[c].session
         taken == {t \in {s} : dir.hosted[t] # {c}}
         D == Unhosted(dir, taken) IN
     IF c \in dir.entries
       THEN /\ dir' = [D EXCEPT !.hosted[s] = {c}, !.entryHosted[c] = @ \cup {s}]
            /\ late' = late \cup Closing(HostedPipes(dir, taken), {})
            /\ Changing(taken)
            /\ pc' = [pc EXCEPT ![c] = "showing"]
       ELSE /\ pc' = [pc EXCEPT ![c] = "listening"]
            /\ UNCHANGED <<dir, late, waiting>>
  /\ UNCHANGED <<open, arg, accessVars, hidden, task, hide, seenVars, announceVars, load, lapsed>>

\* ShowAgainAsync reads who hid the session; AdmitAsync drops a failure.
ShowAgain(c) ==
  /\ pc[c] = "showing" /\ c \in open
  /\ \/ /\ pc' = [pc EXCEPT ![c] = IF arg[c].session \in hidden THEN "shown" ELSE "listening"]
        /\ UNCHANGED lapsed
     \/ /\ arg[c].session \in hidden
        /\ pc' = [pc EXCEPT ![c] = "listening"]
        /\ lapsed' = lapsed \cup {"show"}
  /\ UNCHANGED <<dir, open, arg, accessVars, hidden, task, hide, late, seenVars, presenceVars, load>>

\* ShowAgainAsync deletes the rows of the session.
Shown(c) ==
  /\ pc[c] = "shown" /\ c \in open
  /\ hidden' = hidden \ {arg[c].session}
  /\ pc' = [pc EXCEPT ![c] = "listening"]
  /\ UNCHANGED <<dir, open, arg, accessVars, task, hide, late, seenVars, presenceVars, load, lapsed>>

\* UnhostMessage: Unhost.
Unhost(c, s) ==
  /\ pc[c] = "listening" /\ c \in open
  /\ c \in dir.hosted[s]
  /\ dir' = Unhosted(dir, {s})
  /\ late' = late \cup Closing(HostedPipes(dir, {s}), {})
  /\ Changing({s})
  /\ UNCHANGED <<open, pc, arg, accessVars, hidden, task, hide, seenVars, announceVars, load, lapsed>>

\* StatusMessage: Share sets another status of a session this one hosts.
Share(c, s) ==
  /\ "presence" \in load
  /\ pc[c] = "listening" /\ c \in open
  /\ c \in dir.hosted[s]
  /\ dir' = [dir EXCEPT !.status[s] = ~@]
  /\ Changing({s})
  /\ UNCHANGED <<late, open, pc, arg, accessVars, hidden, task, hide, seenVars, announceVars, load, lapsed>>

\* What Call requires: another ready, open host of the same account.
Callable(c, d) ==
  {h \in EntryOf(d) \cap dir.ready \cap Hosting \cap open : Account(h) = Account(c) /\ h # c}

\* CallMessage: Call.
Call(c, p, d) ==
  /\ "call" \in load
  /\ pc[c] = "listening" /\ c \in open
  /\ p \in Fresh
  /\ IF /\ c \in dir.entries /\ dir.views[c] < DevicePipes
        /\ \E h \in Callable(c, d) : dir.calls[h] < MaxCalls
       THEN \E h \in Callable(c, d) :
              /\ dir' = WithPipe(dir, p, None, c, h)
              /\ hostSees' = [hostSees EXCEPT ![p] = h]
              /\ viewSees' = [viewSees EXCEPT ![p] = c]
       ELSE /\ viewSees' = [viewSees EXCEPT ![p] = "closed"]
            /\ UNCHANGED <<dir, hostSees>>
  /\ UNCHANGED <<open, pc, arg, accessVars, hidden, task, hide, late, hostsTold, presenceVars, load, lapsed>>

\* CloseMessage: Close by one end of the pipe, which is not told.
Close(c, p) ==
  /\ pc[c] = "listening" /\ c \in open
  /\ LET P == {q \in WithIds(dir, {p}) : c \in {q.viewer, q.host}} IN
     /\ P # {}
     /\ dir' = RemovePipes(dir, P)
     /\ late' = late \cup Closing(P, {c})
     /\ hostSees' = [hostSees EXCEPT ![p] = IF \E q \in P : q.host = c THEN "closed" ELSE @]
     /\ viewSees' = [viewSees EXCEPT ![p] = IF \E q \in P : q.viewer = c THEN "closed" ELSE @]
  /\ UNCHANGED <<open, pc, arg, accessVars, hidden, task, hide, hostsTold, presenceVars, load, lapsed>>

\* Relay cannot pass a frame on: the pipe ends for both.
RelayFails(c, p) ==
  /\ "relay" \in load
  /\ pc[c] = "listening" /\ c \in open
  /\ LET P == {q \in WithIds(dir, {p}) : c \in {q.viewer, q.host}} IN
     /\ P # {}
     /\ dir' = RemovePipes(dir, P)
     /\ late' = late \cup Closing(P, {})
  /\ UNCHANGED <<open, pc, arg, accessVars, hidden, task, hide, seenVars, presenceVars, load, lapsed>>

-----------------------------------------------------------------------------
(* Requests that change who may use a session *)

\* ShareAsync, LeaveAsync or AttachAsync commit other people.
ShareCommits(t, s, people) ==
  /\ t \in load /\ task[t].step = "idle" /\ s \notin ended
  /\ people # shared[s]
  /\ shared' = [shared EXCEPT ![s] = people]
  /\ task' = [task EXCEPT ![t] = [@ EXCEPT !.step = "removing", !.live = {s}]]
  /\ UNCHANGED <<dir, open, pc, arg, ended, revoked, hidden, hide, late, seenVars, presenceVars, load, lapsed>>

\* EndAsync commits the end of the session.
EndCommits(t, s) ==
  /\ t \in load /\ task[t].step = "idle" /\ s \notin ended
  /\ ended' = ended \cup {s}
  /\ task' = [task EXCEPT ![t] = [@ EXCEPT !.step = "removing", !.over = {s}]]
  /\ UNCHANGED <<dir, open, pc, arg, shared, revoked, hidden, hide, late, seenVars, presenceVars, load, lapsed>>

\* DeviceService commits that d is removed; the sessions it hosts end.
DeviceCommits(t, d) ==
  /\ t \in load /\ task[t].step = "idle" /\ d \in load \ revoked
  /\ LET affected == {s \in Terminal \ ended : PersonOf(d) \in People(s)}
         over == {s \in affected : HostDevice(s) = d} IN
     /\ ended' = ended \cup over
     /\ task' = [task EXCEPT ![t] =
          [@ EXCEPT !.step = "device", !.over = over, !.live = affected \ over, !.gone = {d}]]
  /\ revoked' = revoked \cup {d}
  /\ UNCHANGED <<dir, open, pc, arg, shared, hidden, hide, late, seenVars, presenceVars, load, lapsed>>

\* After the commit: RemoveDevice of the device that is gone.
RemoveDevice(t) ==
  /\ task[t].step = "device"
  /\ \E d \in task[t].gone : Detach(EntryOf(d), {})
  /\ task' = [task EXCEPT ![t].step = "removing"]
  /\ UNCHANGED <<open, pc, arg, accessVars, hidden, hide, hostSees, viewSees, announceVars, load, lapsed>>

\* ConnectionMaintenance removes a device that is not approved any more.
Maintain(d) ==
  /\ d \in revoked
  /\ EntryOf(d) \cap open # {}
  /\ Detach(EntryOf(d), {})
  /\ UNCHANGED <<open, pc, arg, accessVars, hidden, task, hide, hostSees, viewSees, announceVars, load, lapsed>>

\* RemoveSession of a session that ended with this request.
RemoveSession(t, s) ==
  /\ task[t].step = "removing" /\ s \in task[t].over
  /\ dir' = Unhosted(dir, {s})
  /\ late' = late \cup Closing(HostedPipes(dir, {s}), {})
  /\ Changing({u \in {s} : dir.hosted[u] # {}})
  /\ task' = [task EXCEPT ![t].over = @ \ {s}]
  /\ UNCHANGED <<open, pc, arg, accessVars, hidden, hide, seenVars, announceVars, load, lapsed>>

\* RevokeAsync reads the people of the sessions, or is cut off: the caller
\* of the request has gone or the database has.
ReadPeople(t) ==
  /\ task[t].step = "removing" /\ task[t].over = {} /\ task[t].live # {}
  /\ \/ /\ task' = [task EXCEPT ![t].step = "revoking",
                                ![t].allowed = [s \in Terminal |-> People(s)]]
        /\ UNCHANGED lapsed
     \/ /\ task' = [task EXCEPT ![t].live = {}]
        /\ lapsed' = lapsed \cup {"revoke"}
  /\ UNCHANGED <<dir, open, pc, arg, accessVars, hidden, hide, late, seenVars, presenceVars, load>>

\* The pipes of s that Revoke's keep does not keep.
Dropped(t, s) ==
  {p \in WithIds(dir, dir.hostedPipes[s]) :
     Account(p.viewer) \notin task[t].allowed[s] \/ DeviceOf(p.viewer) \in task[t].gone}

\* Mutant: a revocation tells only the host, which it thinks will close.
RevokeTellsHost(t, s) ==
  /\ task[t].step = "revoking" /\ s \in task[t].live
  /\ dir' = RemovePipes(dir, Dropped(t, s))
  /\ late' = late \cup Closing(Dropped(t, s), {p.viewer : p \in Dropped(t, s)})
  /\ task' = [task EXCEPT ![t].live = @ \ {s}]
  /\ UNCHANGED <<open, pc, arg, accessVars, hidden, hide, seenVars, presenceVars, load, lapsed>>

\* Revoke of one session with the people that were read.
Revoke(t, s) ==
  /\ task[t].step = "revoking" /\ s \in task[t].live
  /\ dir' = RemovePipes(dir, Dropped(t, s))
  /\ late' = late \cup Closing(Dropped(t, s), {})
  /\ task' = [task EXCEPT ![t].live = @ \ {s}]
  /\ UNCHANGED <<open, pc, arg, accessVars, hidden, hide, seenVars, presenceVars, load, lapsed>>

-----------------------------------------------------------------------------
(* Hiding an offline session *)

\* HideAsync finds the session offline and not hidden.
HideAsked(s) ==
  /\ "hide" \in load /\ hide.step = "idle"
  /\ s \notin ended /\ ~Live(dir, s).online /\ s \notin hidden
  /\ hide' = [step |-> "insert", session |-> s]
  /\ UNCHANGED <<dir, open, pc, arg, accessVars, hidden, task, late, seenVars, presenceVars, load, lapsed>>

HideInserts ==
  /\ hide.step = "insert"
  /\ hidden' = hidden \cup {hide.session}
  /\ hide' = [hide EXCEPT !.step = "check"]
  /\ UNCHANGED <<dir, open, pc, arg, accessVars, task, late, seenVars, presenceVars, load, lapsed>>

\* Mutant: the host is not looked for again after the write.
HideNotChecked ==
  /\ hide.step = "check"
  /\ hide' = [hide EXCEPT !.step = "idle"]
  /\ UNCHANGED <<dir, open, pc, arg, accessVars, hidden, task, late, seenVars, presenceVars, load, lapsed>>

\* hostReturnedDuringWrite.
HideChecks ==
  /\ hide.step = "check"
  /\ hide' = [hide EXCEPT !.step = IF Live(dir, hide.session).online THEN "delete" ELSE "idle"]
  /\ UNCHANGED <<dir, open, pc, arg, accessVars, hidden, task, late, seenVars, presenceVars, load, lapsed>>

\* The row is deleted again, or the request fails before that.
HideDeletes ==
  /\ hide.step = "delete"
  /\ hide' = [hide EXCEPT !.step = "idle"]
  /\ \/ hidden' = hidden \ {hide.session} /\ UNCHANGED lapsed
     \/ lapsed' = lapsed \cup {"show"} /\ UNCHANGED hidden
  /\ UNCHANGED <<dir, open, pc, arg, accessVars, task, late, seenVars, presenceVars, load>>

-----------------------------------------------------------------------------
(* After an unlock *)

\* AfterUnlock.Apply aborts a detached connection.
Aborts(m) ==
  /\ m.kind = "abort"
  /\ open' = open \ {m.to}
  /\ late' = late \ {m}
  /\ UNCHANGED <<dir, pc, arg, accessVars, hidden, task, hide, seenVars, presenceVars, load, lapsed>>

\* AfterUnlock.Apply sends ClosedNotice; an end that does not know the pipe
\* ignores it.
SendsClosed(m) ==
  /\ m.kind = "closed"
  /\ late' = late \ {m}
  /\ hostSees' = [hostSees EXCEPT ![m.pipe] = IF @ = m.to /\ m.to \in open THEN "closed" ELSE @]
  /\ viewSees' = [viewSees EXCEPT ![m.pipe] = IF @ = m.to /\ m.to \in open THEN "closed" ELSE @]
  /\ UNCHANGED <<dir, open, pc, arg, accessVars, hidden, task, hide, hostsTold, presenceVars, load, lapsed>>

\* TerminalPresence takes a change whose Spacing has passed.
Takes(s) ==
  /\ s \in waiting /\ announcing = {}
  /\ waiting' = waiting \ {s}
  /\ announcing' = {[session |-> s, saw |-> None]}
  /\ UNCHANGED <<dir, open, pc, arg, accessVars, hidden, task, hide, late, seenVars, told, load, lapsed>>

\* AnnounceAsync reads the session and NotifyTerminal its Live; an ended one
\* is not announced, and without the database it is tried again.
Looks(a) ==
  /\ a.saw = None
  /\ \/ /\ announcing' = IF a.session \in ended THEN {} ELSE {[a EXCEPT !.saw = Live(dir, a.session)]}
        /\ UNCHANGED waiting
     \/ /\ announcing' = {}
        /\ waiting' = waiting \cup {a.session}
  /\ UNCHANGED <<dir, open, pc, arg, accessVars, hidden, task, hide, late, seenVars, told, load, lapsed>>

\* NotifyTerminal sends what it saw.
Announces(a) ==
  /\ a.saw # None
  /\ told' = [told EXCEPT ![a.session] = a.saw]
  /\ announcing' = {}
  /\ UNCHANGED <<dir, open, pc, arg, accessVars, hidden, task, hide, late, seenVars, waiting, load, lapsed>>

\* StopAll: the lease is lost or the server stops.
StopAll ==
  /\ "stop" \in load \ lapsed
  /\ lapsed' = lapsed \cup {"stop"}
  /\ dir' = DirInit
  /\ open' = open \ dir.entries
  /\ UNCHANGED <<pc, arg, accessVars, hidden, task, hide, late, seenVars, presenceVars, load>>

-----------------------------------------------------------------------------
ConnNext(c) ==
  \/ Hello(c) \/ Register(c) \/ ApprovedAgain(c) \/ Ready(c) \/ Break(c) \/ Remove(c)
  \/ \E p \in Pipe, s \in Terminal : OpenAsked(c, p, s)
  \/ Open(c) \/ CheckedAgain(c)
  \/ \E s \in Terminal : HostAsked(c, s) \/ Unhost(c, s) \/ Share(c, s)
  \/ Host(c) \/ ShowAgain(c) \/ Shown(c)
  \/ \E p \in Pipe, d \in Device : Call(c, p, d)
  \/ \E p \in Pipe : Close(c, p) \/ RelayFails(c, p)

TaskNext(t) ==
  \/ \E s \in Terminal, q \in SUBSET Person : Owner(s) \notin q /\ ShareCommits(t, s, q)
  \/ \E s \in Terminal : EndCommits(t, s) \/ RemoveSession(t, s) \/ Revoke(t, s)
  \/ \E d \in Device : DeviceCommits(t, d)
  \/ RemoveDevice(t) \/ ReadPeople(t)

Next ==
  \/ \E c \in Conn : ConnNext(c)
  \/ \E t \in Task : TaskNext(t)
  \/ \E d \in Device : Maintain(d)
  \/ \E s \in Terminal : HideAsked(s) \/ Takes(s)
  \/ \E a \in announcing : Looks(a) \/ Announces(a)
  \/ HideInserts \/ HideChecks \/ HideDeletes
  \/ \E m \in late : Aborts(m) \/ SendsClosed(m)
  \/ StopAll

Spec == Init /\ [][Next]_vars

-----------------------------------------------------------------------------
(* Properties *)

Step == {"new", "approved", "registered", "welcome", "listening", "opening", "checking",
         "hosting", "showing", "shown", "ending", "ended"}

PipeRecord == [id : Pipe, session : Terminal \cup {None}, viewer : Conn, host : Conn]

\* The state has its types.
TypeOK ==
  /\ dir.entries \subseteq Conn /\ dir.ready \subseteq dir.entries
  /\ dir.hosted \in [Terminal -> SUBSET Conn]
  /\ dir.hostedPipes \in [Terminal -> SUBSET Pipe]
  /\ dir.entryPipes \in [Conn -> SUBSET Pipe]
  /\ dir.entryHosted \in [Conn -> SUBSET Terminal]
  /\ dir.views \in [Conn -> 0..Cardinality(Pipe)]
  /\ dir.calls \in [Conn -> 0..Cardinality(Pipe)]
  /\ dir.pipes \subseteq PipeRecord
  /\ open \subseteq Conn /\ pc \in [Conn -> Step]
  /\ hostSees \in [Pipe -> Conn \cup {"no", "closed"}]
  /\ viewSees \in [Pipe -> Conn \cup {"no", "closed"}]
  /\ hostsTold \in [Conn -> SUBSET Device]

(***************************************************************************)
(* The indexes of the directory name exactly the pipes and the sessions    *)
(* there are, whatever ends first: the lookups pipes[id] and               *)
(* hosted[sessionId] of DetachLocked never miss, the counts that limit     *)
(* views and calls never drift, and a pipe's two ends are registered.      *)
(***************************************************************************)
Indexed ==
  /\ \A p, q \in dir.pipes : p.id = q.id => p = q
  /\ \A s \in Terminal :
       /\ Cardinality(dir.hosted[s]) <= 1
       /\ dir.hostedPipes[s] = Ids({p \in dir.pipes : p.session = s})
  /\ \A c \in Conn :
       /\ dir.entryPipes[c] = Ids({p \in dir.pipes : c \in {p.viewer, p.host}})
       /\ dir.entryHosted[c] = {s \in Terminal : c \in dir.hosted[s]}
       /\ dir.views[c] = Cardinality({p \in dir.pipes : p.viewer = c})
       /\ dir.calls[c] = Cardinality({p \in dir.pipes : p.host = c /\ p.session = None})
       /\ c \notin dir.entries => dir.entryPipes[c] = {} /\ dir.entryHosted[c] = {}
  /\ \A p \in dir.pipes : p.session # None => dir.hosted[p.session] = {p.host}
  /\ \A c, e \in dir.entries : DeviceOf(c) = DeviceOf(e) => c = e

\* The request t will still close the pipe p.
WillClose(t, p) ==
  \/ p.session \in task[t].over
  \/ p.session \in task[t].live /\ task[t].step \in {"device", "removing"}
  \/ task[t].step = "revoking" /\ p.session \in task[t].live /\ p \in Dropped(t, p.session)

(***************************************************************************)
(* A person who lost a terminal has no pipe to it, except where the check  *)
(* of the opening or the request that took it away has still to run.       *)
(* OpenMessage checks, opens and checks again; a request commits, reads    *)
(* the people and revokes.                                                 *)
(***************************************************************************)
NoPipeWithoutAccess ==
  \A p \in dir.pipes :
    \/ p.session = None \/ "revoke" \in lapsed
    \/ Authorized(p.viewer, p.session)
    \/ pc[p.viewer] = "checking" /\ arg[p.viewer].pipe = p.id
    \/ \E t \in Task : WillClose(t, p)

(***************************************************************************)
(* A connection of a removed device is not registered, except where its    *)
(* own second check or the request that removed it has still to run.       *)
(***************************************************************************)
NoRevokedDevice ==
  \A c \in dir.entries :
    DeviceOf(c) \in revoked =>
      \/ pc[c] \in {"registered", "ending"}
      \/ \E t \in Task : task[t].step = "device" /\ DeviceOf(c) \in task[t].gone

(***************************************************************************)
(* Both ends of a pipe agree with the directory: while it is there neither *)
(* was told that it closed, and once it is gone each end that is connected *)
(* was told or is about to be.  ViewerNotice is sent in the lock and       *)
(* ClosedNotice after it, by whatever task ended the pipe.                 *)
(***************************************************************************)
EndsKnow ==
  /\ \A p \in dir.pipes : hostSees[p.id] = p.host /\ viewSees[p.id] = p.viewer
  /\ \A i \in Pipe, c \in {d \in open : [kind |-> "abort", to |-> d] \notin late} :
       (i \notin Ids(dir.pipes) /\ Closed(i, c) \notin late) =>
         /\ hostSees[i] # c
         /\ viewSees[i] = c => pc[c] = "opening" /\ arg[c].pipe = i

(***************************************************************************)
(* The devices of an account know which of its computers take calls: every *)
(* ready open one, and none that has gone.  A computer that connects again *)
(* before its old connection ends stays known.                             *)
(***************************************************************************)
HostsKnown ==
  \A c \in dir.ready \cap open :
    /\ ReadyHosts(dir, Account(c)) \subseteq hostsTold[c]
    /\ hostsTold[c] \subseteq
         {DeviceOf(h) : h \in {e \in dir.ready \cap Hosting : Account(e) = Account(c)}}

(***************************************************************************)
(* When no announcement is under way, the last one was right: the change   *)
(* that arrives while one is being made is announced too.                  *)
(***************************************************************************)
PresenceTrue ==
  \A s \in Terminal \ (ended \cup waiting \cup {a.session : a \in announcing}) :
    \/ "stop" \in lapsed
    \/ "presence" \notin load
    \/ dir.hosted[s] \ open # {}
    \/ told[s] = Live(dir, s)

(***************************************************************************)
(* An online terminal is not left hidden: either the host that came back   *)
(* shows it again, or the request that hid it sees the host and undoes it. *)
(***************************************************************************)
OnlineNotHidden ==
  \A s \in hidden :
    \/ ~Live(dir, s).online \/ "show" \in lapsed
    \/ hide.session = s /\ hide.step \in {"check", "delete"}
    \/ \E c \in dir.hosted[s] : pc[c] \in {"showing", "shown"} /\ arg[c].session = s

(***************************************************************************)
(* The directory, its indexes and what the two ends of each pipe were told *)
(* agree, through every order of opening, closing, revoking, replacing and *)
(* stopping.                                                               *)
(***************************************************************************)
DirectoryRight == TypeOK /\ Indexed /\ EndsKnow

(***************************************************************************)
(* Access that was taken away is gone, whatever was opened or connected    *)
(* while the database changed.                                             *)
(***************************************************************************)
AccessKept == NoPipeWithoutAccess /\ NoRevokedDevice

(***************************************************************************)
(* What people and devices see of the terminals and computers that are     *)
(* there is true, whatever the order of the announcements.                 *)
(***************************************************************************)
PresenceKnown == HostsKnown /\ PresenceTrue /\ OnlineNotHidden

=============================================================================
