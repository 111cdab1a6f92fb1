--------------------- MODULE ConnectionDirectoryProofs ---------------------
(***************************************************************************)
(* Proofs about the backend's directory of connections, for every number   *)
(* of connections, devices, accounts, sessions, pipes and requests and for *)
(* every limit.                                                            *)
(*                                                                         *)
(* The invariant follows the life of a pipe identity: unused, asked for,   *)
(* open in every index, closed.  An identity is never used twice, so that  *)
(* a notice that is sent after the unlock, however late, is about a pipe   *)
(* that is gone.                                                           *)
(***************************************************************************)
EXTENDS ConnectionDirectory, FiniteSetTheorems, TLAPS

DirFields == {"entries", "ready", "hosted", "status", "hostedPipes", "entryHosted",
              "entryPipes", "views", "calls", "pipes"}

Viewed(D, c) == {p \in D.pipes : p.viewer = c}
Called(D, c) == {p \in D.pipes : p.host = c /\ p.session = None}

\* The fields of a directory.
Formed(D) ==
  /\ DOMAIN D = DirFields
  /\ D.entries \subseteq Conn /\ D.ready \subseteq D.entries
  /\ DOMAIN D.hosted = Terminal /\ DOMAIN D.status = Terminal
  /\ DOMAIN D.hostedPipes = Terminal
  /\ DOMAIN D.entryHosted = Conn /\ DOMAIN D.entryPipes = Conn
  /\ DOMAIN D.views = Conn /\ DOMAIN D.calls = Conn
  /\ D.pipes \subseteq PipeRecord /\ IsFiniteSet(D.pipes)

\* Pipes and hosted sessions are of registered connections, and the indexes
\* name exactly them.
Hosts(D) ==
  /\ \A s \in Terminal : /\ D.hosted[s] \subseteq D.entries
                         /\ \A c, e \in D.hosted[s] : c = e
                         /\ \A c \in D.hosted[s] : DeviceOf(c) = HostDevice(s)
  /\ \A c \in Conn : D.entryHosted[c] = {s \in Terminal : c \in D.hosted[s]}
  /\ \A c, e \in D.entries : DeviceOf(c) = DeviceOf(e) => c = e

Pipes(D) ==
  /\ \A p, q \in D.pipes : p.id = q.id => p = q
  /\ \A p \in D.pipes : /\ p.viewer \in D.entries /\ p.host \in D.entries
                        /\ p.session # None => p.host \in D.hosted[p.session]
  /\ \A s \in Terminal : D.hostedPipes[s] = Ids({p \in D.pipes : p.session = s})
  /\ \A c \in Conn : D.entryPipes[c] = Ids({p \in D.pipes : c \in {p.viewer, p.host}})

Counts(D) ==
  \A c \in Conn : /\ D.views[c] = Cardinality(Viewed(D, c))
                  /\ D.calls[c] = Cardinality(Called(D, c))

\* The dictionaries are functions on the sessions and on the connections.
Functional(D) ==
  /\ D.hosted = [s \in Terminal |-> D.hosted[s]]
  /\ D.hostedPipes = [s \in Terminal |-> D.hostedPipes[s]]
  /\ D.entryHosted = [c \in Conn |-> D.entryHosted[c]]
  /\ D.entryPipes = [c \in Conn |-> D.entryPipes[c]]
  /\ D.views = [c \in Conn |-> D.views[c]]
  /\ D.calls = [c \in Conn |-> D.calls[c]]

Well(D) == Formed(D) /\ Functional(D) /\ Hosts(D) /\ Pipes(D) /\ Counts(D)

\* The tasks of the connections: a connection that is registered or open has
\* begun and not ended, and a message in progress keeps what it is about.
TasksRight ==
  /\ open \subseteq Conn /\ pc \in [Conn -> Step] /\ DOMAIN arg = Conn
  /\ \A c \in dir.entries : pc[c] \notin {"new", "approved", "ended"}
  /\ \A c \in open : pc[c] \notin {"new", "ended"}
  /\ \A c \in Conn :
       /\ pc[c] \in {"opening", "checking"} =>
            /\ arg[c].pipe \in Pipe /\ arg[c].session \in Terminal
            /\ DeviceOf(c) # HostDevice(arg[c].session)
       /\ pc[c] \in {"hosting", "showing", "shown"} =>
            /\ arg[c].session \in Terminal /\ DeviceOf(c) = HostDevice(arg[c].session)

Abort(c) == [kind |-> "abort", to |-> c]

\* What the two ends of a pipe were told.
EndsRight ==
  /\ hostSees \in [Pipe -> Conn \cup {"no", "closed"}]
  /\ viewSees \in [Pipe -> Conn \cup {"no", "closed"}]
  /\ \A m \in late : \/ \E c \in Conn : m = Abort(c)
                     \/ \E c \in Conn, i \in Pipe : /\ m = Closed(i, c)
                                                    /\ hostSees[i] # "no"
                                                    /\ \A p \in dir.pipes : p.id # i
  /\ \A p \in dir.pipes : hostSees[p.id] = p.host /\ viewSees[p.id] = p.viewer
  /\ \A i \in Pipe : viewSees[i] = "no" => hostSees[i] = "no"
  /\ \A c \in Conn, i \in Pipe : pc[c] = "new" => hostSees[i] # c /\ viewSees[i] # c
  /\ \A c \in Conn :
       /\ pc[c] = "opening" => hostSees[arg[c].pipe] = "no" /\ viewSees[arg[c].pipe] = c
       /\ pc[c] = "checking" =>
            /\ hostSees[arg[c].pipe] # "no" /\ viewSees[arg[c].pipe] \in {c, "closed"}
            /\ \A p \in dir.pipes : p.id = arg[c].pipe => p.session = arg[c].session
  /\ \A i \in Pipe, c \in open :
       \/ Abort(c) \in late
       \/ Closed(i, c) \in late
       \/ \E p \in dir.pipes : p.id = i
       \/ /\ hostSees[i] # c
          /\ viewSees[i] = c => pc[c] = "opening" /\ arg[c].pipe = i

\* The requests that change access.
TaskSteps == {"idle", "device", "removing", "revoking"}

RequestsFormed ==
  /\ DOMAIN shared = Terminal /\ DOMAIN task = Task
  /\ \A t \in Task :
       /\ DOMAIN task[t] = {"step", "over", "live", "gone", "allowed"}
       /\ task[t].step \in TaskSteps /\ DOMAIN task[t].allowed = Terminal
       /\ task[t].step = "idle" => task[t].over = {}

\* The request t will look at the pipe p and find that its viewer lost it.
WillRevoke(t, p) ==
  /\ p.session \in task[t].live
  /\ \/ task[t].step \in {"device", "removing"}
     \/ task[t].step = "revoking" /\ Account(p.viewer) \notin task[t].allowed[p.session]

\* Access was taken in two ways, and each has the request that goes after it.
AccessRight ==
  /\ RequestsFormed
  /\ \A p \in dir.pipes :
       \/ p.session = None \/ "revoke" \in lapsed
       \/ pc[p.viewer] = "checking" /\ arg[p.viewer].pipe = p.id
       \/ /\ p.session \in ended => \E t \in Task : p.session \in task[t].over
          /\ Account(p.viewer) \notin People(p.session) => \E t \in Task : WillRevoke(t, p)

RevokedRight ==
  \A c \in dir.entries :
    DeviceOf(c) \in revoked =>
      \/ pc[c] \in {"registered", "ending"}
      \/ \E t \in Task : task[t].step = "device" /\ task[t].gone = {DeviceOf(c)}

HostsRight == hostsTold \in [Conn -> SUBSET Device] /\ HostsKnown

\* What an announcement is about to say is right too, unless it comes again.
Excused(s) ==
  s \in ended \cup waiting \/ "stop" \in lapsed \/ "presence" \notin load \/ dir.hosted[s] \ open # {}

PresenceRight ==
  /\ DOMAIN told = Terminal
  /\ \A a \in announcing : /\ DOMAIN a = {"session", "saw"} /\ announcing = {a}
                           /\ a.session \in Terminal
                           /\ a.saw = None \/ Excused(a.session) \/ a.saw = Live(dir, a.session)
  /\ \A s \in Terminal : \/ \E a \in announcing : a.session = s
                         \/ Excused(s) \/ told[s] = Live(dir, s)

HiddenRight ==
  /\ hidden \subseteq Terminal /\ DOMAIN hide = {"step", "session"}
  /\ hide.step # "idle" => hide.session \in Terminal
  /\ \A s \in hidden :
       \/ dir.hosted[s] \cap open = {} \/ "show" \in lapsed
       \/ hide.session = s /\ hide.step \in {"check", "delete"}
       \/ \E c \in dir.hosted[s] : pc[c] \in {"showing", "shown"} /\ arg[c].session = s

DirInv ==
  /\ Well(dir) /\ TasksRight /\ EndsRight /\ AccessRight /\ RevokedRight
  /\ HostsRight /\ PresenceRight /\ HiddenRight

-----------------------------------------------------------------------------
(***************************************************************************)
(* The operations under the lock.                                          *)
(***************************************************************************)

\* The size of what is left.
LEMMA CountLess ==
  ASSUME NEW A, IsFiniteSet(A), NEW P
  PROVE  Cardinality(A \ P) = Cardinality(A) - Cardinality(A \cap P)
  <1>1. IsFiniteSet(A \cap P) /\ IsFiniteSet(A \ P)
    BY FS_Subset
  <1>2. (A \ P) \cup (A \cap P) = A /\ (A \ P) \cap (A \cap P) = {}
    OBVIOUS
  <1>3. /\ Cardinality(A) \in Nat /\ Cardinality(A \ P) \in Nat /\ Cardinality(A \cap P) \in Nat
        /\ Cardinality({}) = 0
    BY <1>1, FS_CardinalityType, FS_EmptySet
  <1>4. Cardinality(A) = Cardinality(A \ P) + Cardinality(A \cap P) - 0
    BY <1>1, <1>2, <1>3, FS_Union
  <1> QED BY <1>3, <1>4

\* The counts are right after pipes were removed.
LEMMA RemoveCounts ==
  ASSUME NEW D, Formed(D), Counts(D), NEW P \in SUBSET D.pipes,
         \A p \in D.pipes : p.viewer \in D.entries /\ p.host \in D.entries,
         NEW R, R = RemovePipes(D, P)
  PROVE  Counts(R)
  <1>1. /\ R.pipes = D.pipes \ P
        /\ R.views = [c \in Conn |-> IF c \in D.entries
             THEN D.views[c] - Cardinality({p \in P : p.viewer = c}) ELSE D.views[c]]
        /\ R.calls = [c \in Conn |-> IF c \in D.entries
             THEN D.calls[c] - Cardinality({p \in P : p.host = c /\ p.session = None})
             ELSE D.calls[c]]
    BY DEF RemovePipes, Formed, DirFields
  <1>2. ASSUME NEW c \in Conn
        PROVE  /\ R.views[c] = Cardinality(Viewed(R, c))
               /\ R.calls[c] = Cardinality(Called(R, c))
    <2>1. IsFiniteSet(Viewed(D, c)) /\ IsFiniteSet(Called(D, c))
      BY FS_Subset DEF Formed, Viewed, Called
    <2>2. /\ Viewed(R, c) = Viewed(D, c) \ P /\ Called(R, c) = Called(D, c) \ P
          /\ Viewed(D, c) \cap P = {p \in P : p.viewer = c}
          /\ Called(D, c) \cap P = {p \in P : p.host = c /\ p.session = None}
      BY <1>1 DEF Viewed, Called
    <2>3. /\ Cardinality(Viewed(D, c) \ P) = Cardinality(Viewed(D, c)) - Cardinality(Viewed(D, c) \cap P)
          /\ Cardinality(Called(D, c) \ P) = Cardinality(Called(D, c)) - Cardinality(Called(D, c) \cap P)
      BY <2>1, CountLess
    <2>4. D.views[c] = Cardinality(Viewed(D, c)) /\ D.calls[c] = Cardinality(Called(D, c))
      BY DEF Counts
    <2>5. CASE c \in D.entries
      BY <1>1, <2>2, <2>3, <2>4, <2>5
    <2>6. CASE c \notin D.entries
      <3>1. Viewed(D, c) = {} /\ Called(D, c) = {}
        BY <2>6 DEF Viewed, Called
      <3>2. Viewed(R, c) = Viewed(D, c) /\ Called(R, c) = Called(D, c)
        BY <2>2, <3>1
      <3> QED BY <1>1, <2>4, <2>6, <3>2
    <2> QED BY <2>5, <2>6
  <1> QED BY <1>2 DEF Counts

\* RemovePipeLocked makes functions of the dictionaries again.
LEMMA RemoveFunctional ==
  ASSUME NEW D, DOMAIN D = DirFields, Functional(D), NEW P, NEW R, R = RemovePipes(D, P)
  PROVE  Functional(R)
  <1>1. /\ R.hosted = D.hosted /\ R.entryHosted = D.entryHosted
        /\ R.hostedPipes = [s \in Terminal |-> D.hostedPipes[s] \ Ids({p \in P : p.session = s})]
        /\ R.entryPipes = [c \in Conn |-> IF c \in D.entries
             THEN D.entryPipes[c] \ Ids({p \in P : c \in {p.viewer, p.host}})
             ELSE D.entryPipes[c]]
        /\ R.views = [c \in Conn |-> IF c \in D.entries
             THEN D.views[c] - Cardinality({p \in P : p.viewer = c}) ELSE D.views[c]]
        /\ R.calls = [c \in Conn |-> IF c \in D.entries
             THEN D.calls[c] - Cardinality({p \in P : p.host = c /\ p.session = None})
             ELSE D.calls[c]]
    BY DEF RemovePipes, DirFields
  <1>2. R.hosted = [s \in Terminal |-> R.hosted[s]] /\ R.entryHosted = [c \in Conn |-> R.entryHosted[c]]
    BY <1>1 DEF Functional
  <1>3. R.hostedPipes = [s \in Terminal |-> R.hostedPipes[s]]
    BY <1>1
  <1>4. R.entryPipes = [c \in Conn |-> R.entryPipes[c]]
    BY <1>1
  <1>5. R.views = [c \in Conn |-> R.views[c]]
    BY <1>1
  <1>6. R.calls = [c \in Conn |-> R.calls[c]]
    BY <1>1
  <1> QED BY <1>2, <1>3, <1>4, <1>5, <1>6 DEF Functional

\* RemovePipeLocked of any pipes keeps the directory right.
LEMMA RemoveWell ==
  ASSUME NEW D, Well(D), NEW P \in SUBSET D.pipes, NEW R, R = RemovePipes(D, P)
  PROVE  /\ Well(R) /\ R.entries = D.entries /\ R.ready = D.ready /\ R.hosted = D.hosted
         /\ R.status = D.status /\ R.pipes = D.pipes \ P
  <1>1. /\ DOMAIN R = DirFields
        /\ R.entries = D.entries /\ R.ready = D.ready /\ R.hosted = D.hosted
        /\ R.status = D.status /\ R.entryHosted = D.entryHosted /\ R.pipes = D.pipes \ P
        /\ R.hostedPipes = [s \in Terminal |-> D.hostedPipes[s] \ Ids({p \in P : p.session = s})]
        /\ R.entryPipes = [c \in Conn |-> IF c \in D.entries
             THEN D.entryPipes[c] \ Ids({p \in P : c \in {p.viewer, p.host}})
             ELSE D.entryPipes[c]]
        /\ DOMAIN R.views = Conn /\ DOMAIN R.calls = Conn
    BY DEF RemovePipes, Well, Formed, DirFields
  <1>2. Formed(R)
    <2>1. IsFiniteSet(D.pipes \ P)
      BY FS_Subset DEF Well, Formed
    <2> QED BY <1>1, <2>1 DEF Well, Formed
  <1>3. Hosts(R)
    BY <1>1 DEF Well, Hosts
  <1>4. Counts(R)
    BY RemoveCounts DEF Well, Pipes
  <1>5. Pipes(R)
    <2>1. \A p, q \in D.pipes : p.id = q.id => p = q
      BY DEF Well, Pipes
    <2>2. ASSUME NEW s \in Terminal
          PROVE  R.hostedPipes[s] = Ids({p \in R.pipes : p.session = s})
      <3> DEFINE A == {p \in D.pipes : p.session = s}
      <3>1. /\ D.hostedPipes[s] = Ids(A) /\ {p \in P : p.session = s} = A \cap P
            /\ {p \in R.pipes : p.session = s} = A \ P /\ A \in SUBSET D.pipes
        BY <1>1 DEF Well, Pipes
      <3> HIDE DEF A
      <3>2. Ids(A) \ Ids(A \cap P) = Ids(A \ P)
        BY <2>1, <3>1 DEF Ids
      <3>3. R.hostedPipes[s] = D.hostedPipes[s] \ Ids({p \in P : p.session = s})
        BY <1>1
      <3> QED BY <3>1, <3>2, <3>3
    <2>3. ASSUME NEW c \in Conn
          PROVE  R.entryPipes[c] = Ids({p \in R.pipes : c \in {p.viewer, p.host}})
      <3> DEFINE A == {p \in D.pipes : c \in {p.viewer, p.host}}
      <3>1. /\ D.entryPipes[c] = Ids(A) /\ {p \in P : c \in {p.viewer, p.host}} = A \cap P
            /\ {p \in R.pipes : c \in {p.viewer, p.host}} = A \ P /\ A \in SUBSET D.pipes
            /\ c \notin D.entries => A = {}
        BY <1>1 DEF Well, Pipes
      <3> HIDE DEF A
      <3>2. Ids(A) \ Ids(A \cap P) = Ids(A \ P)
        BY <2>1, <3>1 DEF Ids
      <3>3. A = {} => Ids(A \ P) = Ids(A)
        OBVIOUS
      <3> QED BY <1>1, <3>1, <3>2, <3>3
    <2> QED BY <1>1, <2>2, <2>3 DEF Well, Pipes
  <1>6. Functional(R)
    BY RemoveFunctional DEF Well, Formed
  <1> QED BY <1>1, <1>2, <1>3, <1>4, <1>5, <1>6 DEF Well

\* The pipes that an index names.
LEMMA HostedPipesAre ==
  ASSUME NEW D, Well(D), NEW S \in SUBSET Terminal
  PROVE  HostedPipes(D, S) = {p \in D.pipes : p.session \in S}
  BY DEF HostedPipes, WithIds, Ids, Well, Pipes

LEMMA EntryPipesAre ==
  ASSUME NEW D, Well(D), NEW C \in SUBSET Conn
  PROVE  WithIds(D, UNION {D.entryPipes[c] : c \in C})
           = {p \in D.pipes : p.viewer \in C \/ p.host \in C}
  BY DEF WithIds, Ids, Well, Pipes, Formed, PipeRecord

LEMMA EntryHostedAre ==
  ASSUME NEW D, Well(D), NEW C \in SUBSET Conn
  PROVE  UNION {D.entryHosted[c] : c \in C} = {s \in Terminal : D.hosted[s] \cap C # {}}
  BY DEF Well, Hosts


\* RemoveHostedLocked of the sessions S.
LEMMA UnhostedWell ==
  ASSUME NEW D, Well(D), NEW S, S \subseteq Terminal, NEW R, R = Unhosted(D, S)
  PROVE  /\ Well(R) /\ R.entries = D.entries /\ R.ready = D.ready
         /\ R.pipes = {p \in D.pipes : p.session \notin S}
         /\ \A s \in Terminal : R.hosted[s] = IF s \in S THEN {} ELSE D.hosted[s]
         /\ \A s \in Terminal \ S : R.status[s] = D.status[s]
  <1> DEFINE D1 == [D EXCEPT
               !.hosted = [s \in Terminal |-> IF s \in S THEN {} ELSE @[s]],
               !.status = [s \in Terminal |-> IF s \in S THEN FALSE ELSE @[s]],
               !.hostedPipes = [s \in Terminal |-> IF s \in S THEN {} ELSE @[s]],
               !.entryHosted = [c \in Conn |-> @[c] \ {s \in S : c \in D.hosted[s]}]]
             P == HostedPipes(D, S)
  <1>1. R = RemovePipes(D1, P)
    BY DEF Unhosted, HostedPipes
  <1>2. P = {p \in D.pipes : p.session \in S}
    BY HostedPipesAre
  <1>3. /\ DOMAIN D1 = DirFields
        /\ D1.entries = D.entries /\ D1.ready = D.ready /\ D1.pipes = D.pipes
        /\ D1.entryPipes = D.entryPipes /\ D1.views = D.views /\ D1.calls = D.calls
        /\ D1.hosted = [s \in Terminal |-> IF s \in S THEN {} ELSE D.hosted[s]]
        /\ D1.status = [s \in Terminal |-> IF s \in S THEN FALSE ELSE D.status[s]]
        /\ D1.hostedPipes = [s \in Terminal |-> IF s \in S THEN {} ELSE D.hostedPipes[s]]
        /\ D1.entryHosted = [c \in Conn |-> D.entryHosted[c] \ {s \in S : c \in D.hosted[s]}]
    BY DEF Well, Formed, DirFields
  <1> HIDE DEF D1, P
  <1>4. Formed(D1)
    BY <1>3 DEF Well, Formed
  <1>5. Counts(D1)
    BY <1>3 DEF Well, Counts, Viewed, Called
  <1>6. P \subseteq D1.pipes /\ \A p \in D1.pipes : p.viewer \in D1.entries /\ p.host \in D1.entries
    BY <1>2, <1>3 DEF Well, Pipes
  <1>7. Counts(R)
    BY <1>1, <1>4, <1>5, <1>6, RemoveCounts
  <1>8. /\ DOMAIN R = DirFields
        /\ R.entries = D1.entries /\ R.ready = D1.ready /\ R.hosted = D1.hosted
        /\ R.status = D1.status /\ R.entryHosted = D1.entryHosted /\ R.pipes = D1.pipes \ P
        /\ R.hostedPipes = [s \in Terminal |-> D1.hostedPipes[s] \ Ids({p \in P : p.session = s})]
        /\ R.entryPipes = [c \in Conn |-> IF c \in D1.entries
             THEN D1.entryPipes[c] \ Ids({p \in P : c \in {p.viewer, p.host}})
             ELSE D1.entryPipes[c]]
        /\ DOMAIN R.views = Conn /\ DOMAIN R.calls = Conn
    BY <1>1, <1>4 DEF RemovePipes, Formed, DirFields
  <1>9. R.pipes = {p \in D.pipes : p.session \notin S}
    BY <1>2, <1>3, <1>8
  <1>10. Formed(R)
    <2>1. IsFiniteSet(D.pipes \ P)
      BY FS_Subset DEF Well, Formed
    <2> QED BY <1>3, <1>4, <1>8, <2>1 DEF Formed
  <1>11. Hosts(R)
    <2>1. \A s \in Terminal : R.hosted[s] = IF s \in S THEN {} ELSE D.hosted[s]
      BY <1>3, <1>8
    <2>2. ASSUME NEW c \in Conn
          PROVE  R.entryHosted[c] = {s \in Terminal : c \in R.hosted[s]}
      <3>1. R.entryHosted[c] = D.entryHosted[c] \ {s \in S : c \in D.hosted[s]}
        BY <1>3, <1>8
      <3>2. D.entryHosted[c] = {s \in Terminal : c \in D.hosted[s]}
        BY DEF Well, Hosts
      <3> QED BY <2>1, <3>1, <3>2
    <2>3. /\ R.entries = D.entries
          /\ \A s \in Terminal : /\ D.hosted[s] \subseteq D.entries
                                 /\ \A c, e \in D.hosted[s] : c = e
                                 /\ \A c \in D.hosted[s] : DeviceOf(c) = HostDevice(s)
          /\ \A c, e \in D.entries : DeviceOf(c) = DeviceOf(e) => c = e
      BY <1>3, <1>8 DEF Well, Hosts
    <2> QED BY <2>1, <2>2, <2>3 DEF Hosts
  <1>12. Pipes(R)
    <2>1. \A p, q \in D.pipes : p.id = q.id => p = q
      BY DEF Well, Pipes
    <2>2. ASSUME NEW s \in Terminal
          PROVE  R.hostedPipes[s] = Ids({p \in R.pipes : p.session = s})
      <3>1. R.hostedPipes[s] = D1.hostedPipes[s] \ Ids({p \in P : p.session = s})
        BY <1>8
      <3>2. D.hostedPipes[s] = Ids({p \in D.pipes : p.session = s})
        BY DEF Well, Pipes
      <3>3. CASE s \in S
        <4>1. {p \in R.pipes : p.session = s} = {} /\ R.hostedPipes[s] = {}
          BY <1>3, <1>9, <3>1, <3>3
        <4> QED BY <4>1 DEF Ids
      <3>4. CASE s \notin S
        <4>1. {p \in R.pipes : p.session = s} = {p \in D.pipes : p.session = s}
          BY <1>9, <3>4
        <4>2. Ids({p \in P : p.session = s}) = {} /\ D1.hostedPipes[s] = D.hostedPipes[s]
          BY <1>2, <1>3, <3>4 DEF Ids
        <4> QED BY <3>1, <3>2, <4>1, <4>2
      <3> QED BY <3>3, <3>4
    <2>3. ASSUME NEW c \in Conn
          PROVE  R.entryPipes[c] = Ids({p \in R.pipes : c \in {p.viewer, p.host}})
      <3> DEFINE A == {p \in D.pipes : c \in {p.viewer, p.host}}
      <3>1. /\ D.entryPipes[c] = Ids(A) /\ {p \in P : c \in {p.viewer, p.host}} = A \cap P
            /\ {p \in R.pipes : c \in {p.viewer, p.host}} = A \ P /\ A \in SUBSET D.pipes
            /\ c \notin D.entries => A = {}
        BY <1>2, <1>3, <1>8 DEF Well, Pipes
      <3> HIDE DEF A
      <3>2. Ids(A) \ Ids(A \cap P) = Ids(A \ P)
        BY <2>1, <3>1 DEF Ids
      <3>3. A = {} => Ids(A \ P) = Ids(A)
        OBVIOUS
      <3>4. R.entryPipes[c] = IF c \in D.entries
              THEN D.entryPipes[c] \ Ids({p \in P : c \in {p.viewer, p.host}})
              ELSE D.entryPipes[c]
        BY <1>3, <1>8
      <3> QED BY <3>1, <3>2, <3>3, <3>4
    <2>4. \A p \in R.pipes : p.session # None => p.session \in Terminal \ S
      BY <1>9 DEF Well, Formed, PipeRecord
    <2>5. \A p \in R.pipes : /\ p.viewer \in R.entries /\ p.host \in R.entries
                             /\ p.session # None => p.host \in R.hosted[p.session]
      BY <1>3, <1>8, <2>4 DEF Well, Pipes
    <2> QED BY <1>9, <2>1, <2>2, <2>3, <2>5 DEF Pipes
  <1>13. Functional(R)
    <2>1. D1.hosted = [s \in Terminal |-> D1.hosted[s]]
      BY <1>3
    <2>2. D1.hostedPipes = [s \in Terminal |-> D1.hostedPipes[s]]
      BY <1>3
    <2>3. D1.entryHosted = [c \in Conn |-> D1.entryHosted[c]]
      BY <1>3
    <2>4. Functional(D1)
      BY <1>3, <2>1, <2>2, <2>3 DEF Well, Functional
    <2> QED BY <1>1, <1>3, <2>4, RemoveFunctional
  <1> QED BY <1>3, <1>7, <1>8, <1>9, <1>10, <1>11, <1>12, <1>13 DEF Well


\* DetachLocked of the connections C.
LEMMA DetachedWell ==
  ASSUME NEW D, Well(D), NEW C, C \subseteq D.entries, NEW R, R = Detached(D, C)
  PROVE  /\ Well(R) /\ R.entries = D.entries \ C /\ R.ready = D.ready \ C
         /\ R.pipes = {p \in D.pipes : p.viewer \notin C /\ p.host \notin C}
         /\ \A s \in Terminal : R.hosted[s] = D.hosted[s] \ C
         /\ \A s \in Terminal : D.hosted[s] \cap C = {} => R.status[s] = D.status[s]
  <1> DEFINE S == UNION {D.entryHosted[c] : c \in C}
             D1 == Unhosted(D, S)
             P == WithIds(D1, UNION {D1.entryPipes[c] : c \in C})
             D2 == RemovePipes(D1, P)
  <1>1. R = [D2 EXCEPT !.entries = @ \ C, !.ready = @ \ C,
             !.entryHosted = [c \in Conn |-> IF c \in C THEN {} ELSE @[c]],
             !.entryPipes = [c \in Conn |-> IF c \in C THEN {} ELSE @[c]],
             !.views = [c \in Conn |-> IF c \in C THEN 0 ELSE @[c]],
             !.calls = [c \in Conn |-> IF c \in C THEN 0 ELSE @[c]]]
    BY DEF Detached
  <1>2. C \subseteq Conn
    BY DEF Well, Formed
  <1>3. S = {s \in Terminal : D.hosted[s] \cap C # {}}
    BY <1>2, EntryHostedAre
  <1> HIDE DEF S
  <1>4. /\ Well(D1) /\ D1.entries = D.entries /\ D1.ready = D.ready
        /\ D1.pipes = {p \in D.pipes : p.session \notin S}
        /\ \A s \in Terminal : D1.hosted[s] = IF s \in S THEN {} ELSE D.hosted[s]
        /\ \A s \in Terminal \ S : D1.status[s] = D.status[s]
    <2>1. S \subseteq Terminal
      BY <1>3
    <2> QED BY <2>1, UnhostedWell
  <1> HIDE DEF D1
  <1>5. P = {p \in D1.pipes : p.viewer \in C \/ p.host \in C}
    BY <1>2, <1>4, EntryPipesAre
  <1> HIDE DEF P
  <1>6. /\ Well(D2) /\ D2.entries = D1.entries /\ D2.ready = D1.ready /\ D2.hosted = D1.hosted
        /\ D2.status = D1.status /\ D2.pipes = D1.pipes \ P
    <2>1. P \in SUBSET D1.pipes
      BY <1>5
    <2> QED BY <1>4, <2>1, RemoveWell
  <1> HIDE DEF D2
  <1>7. /\ DOMAIN R = DirFields /\ R.entries = D.entries \ C /\ R.ready = D.ready \ C
        /\ R.hosted = D2.hosted /\ R.status = D2.status /\ R.hostedPipes = D2.hostedPipes
        /\ R.pipes = D2.pipes
        /\ R.entryHosted = [c \in Conn |-> IF c \in C THEN {} ELSE D2.entryHosted[c]]
        /\ R.entryPipes = [c \in Conn |-> IF c \in C THEN {} ELSE D2.entryPipes[c]]
        /\ R.views = [c \in Conn |-> IF c \in C THEN 0 ELSE D2.views[c]]
        /\ R.calls = [c \in Conn |-> IF c \in C THEN 0 ELSE D2.calls[c]]
    BY <1>1, <1>4, <1>6 DEF Well, Formed, DirFields
  <1>8. R.pipes = {p \in D.pipes : p.viewer \notin C /\ p.host \notin C}
    <2>1. \A p \in D.pipes : p.session \in S => p.host \in C
      <3> SUFFICES ASSUME NEW p \in D.pipes, p.session \in S PROVE p.host \in C
        OBVIOUS
      <3>1. p.session \in Terminal /\ p.session # None
        BY <1>3, DirectoryAssumption
      <3>2. p.host \in D.hosted[p.session] /\ \A c, e \in D.hosted[p.session] : c = e
        BY <3>1 DEF Well, Pipes, Hosts
      <3> QED BY <1>3, <3>2
    <2> QED BY <1>4, <1>5, <1>6, <1>7, <2>1
  <1>9. \A s \in Terminal : R.hosted[s] = D.hosted[s] \ C
    <2>1. \A s \in Terminal : \A c, e \in D.hosted[s] : c = e
      BY DEF Well, Hosts
    <2> QED BY <1>3, <1>4, <1>6, <1>7, <2>1
  <1>10. \A s \in Terminal : D.hosted[s] \cap C = {} => R.status[s] = D.status[s]
    BY <1>3, <1>4, <1>6, <1>7
  <1>11. Formed(R)
    BY <1>6, <1>7, <1>4 DEF Well, Formed
  <1>12. Hosts(R)
    <2>1. ASSUME NEW c \in Conn
          PROVE  R.entryHosted[c] = {s \in Terminal : c \in R.hosted[s]}
      <3>1. D2.entryHosted[c] = {s \in Terminal : c \in D2.hosted[s]}
        BY <1>6 DEF Well, Hosts
      <3>2. CASE c \in C
        BY <1>7, <1>9, <3>2
      <3>3. CASE c \notin C
        BY <1>7, <3>1, <3>3
      <3> QED BY <3>2, <3>3
    <2>2. /\ \A s \in Terminal : /\ D.hosted[s] \subseteq D.entries
                                 /\ \A c, e \in D.hosted[s] : c = e
                                 /\ \A c \in D.hosted[s] : DeviceOf(c) = HostDevice(s)
          /\ \A c, e \in D.entries : DeviceOf(c) = DeviceOf(e) => c = e
      BY DEF Well, Hosts
    <2> QED BY <1>7, <1>9, <2>1, <2>2 DEF Hosts
  <1>13. Pipes(R)
    <2>1. ASSUME NEW c \in Conn
          PROVE  R.entryPipes[c] = Ids({p \in R.pipes : c \in {p.viewer, p.host}})
      <3>1. D2.entryPipes[c] = Ids({p \in D2.pipes : c \in {p.viewer, p.host}})
        BY <1>6 DEF Well, Pipes
      <3>2. CASE c \in C
        <4>1. {p \in R.pipes : c \in {p.viewer, p.host}} = {} /\ R.entryPipes[c] = {}
          BY <1>7, <1>8, <3>2
        <4> QED BY <4>1 DEF Ids
      <3>3. CASE c \notin C
        BY <1>7, <3>1, <3>3
      <3> QED BY <3>2, <3>3
    <2>2. \A p \in R.pipes : /\ p.viewer \in R.entries /\ p.host \in R.entries
                             /\ p.session # None => p.host \in R.hosted[p.session]
      BY <1>4, <1>6, <1>7, <1>8 DEF Well, Pipes
    <2>3. \A s \in Terminal : R.hostedPipes[s] = Ids({p \in R.pipes : p.session = s})
      BY <1>6, <1>7 DEF Well, Pipes
    <2>4. \A p, q \in R.pipes : p.id = q.id => p = q
      BY <1>6, <1>7 DEF Well, Pipes
    <2> QED BY <2>1, <2>2, <2>3, <2>4 DEF Pipes
  <1>14. Counts(R)
    <2>1. ASSUME NEW c \in Conn
          PROVE  /\ R.views[c] = Cardinality(Viewed(R, c))
                 /\ R.calls[c] = Cardinality(Called(R, c))
      <3>1. Viewed(R, c) = Viewed(D2, c) /\ Called(R, c) = Called(D2, c)
        BY <1>7 DEF Viewed, Called
      <3>2. /\ D2.views[c] = Cardinality(Viewed(D2, c))
            /\ D2.calls[c] = Cardinality(Called(D2, c))
        BY <1>6 DEF Well, Counts
      <3>3. CASE c \in C
        <4>1. Viewed(R, c) = {} /\ Called(R, c) = {} /\ R.views[c] = 0 /\ R.calls[c] = 0
          BY <1>7, <1>8, <3>3 DEF Viewed, Called
        <4> QED BY <4>1, FS_EmptySet
      <3>4. CASE c \notin C
        BY <1>7, <3>1, <3>2, <3>4
      <3> QED BY <3>3, <3>4
    <2> QED BY <2>1 DEF Counts
  <1>15. Functional(R)
    <2>1. R.entryHosted = [c \in Conn |-> R.entryHosted[c]]
      BY <1>7
    <2>2. R.entryPipes = [c \in Conn |-> R.entryPipes[c]]
      BY <1>7
    <2>3. R.views = [c \in Conn |-> R.views[c]]
      BY <1>7
    <2>4. R.calls = [c \in Conn |-> R.calls[c]]
      BY <1>7
    <2> QED BY <1>6, <1>7, <2>1, <2>2, <2>3, <2>4 DEF Well, Functional
  <1> QED BY <1>7, <1>8, <1>9, <1>10, <1>11, <1>12, <1>13, <1>14, <1>15 DEF Well

\* Open and Call: one more pipe.
LEMMA WithPipeWell ==
  ASSUME NEW D, Well(D), NEW i \in Pipe, NEW s \in Terminal \cup {None},
         NEW c \in D.entries, NEW h \in D.entries, \A p \in D.pipes : p.id # i,
         s # None => h \in D.hosted[s], NEW R, R = WithPipe(D, i, s, c, h)
  PROVE  /\ Well(R) /\ R.entries = D.entries /\ R.ready = D.ready /\ R.hosted = D.hosted
         /\ R.status = D.status
         /\ R.pipes = D.pipes \cup {[id |-> i, session |-> s, viewer |-> c, host |-> h]}
  <1> DEFINE n == [id |-> i, session |-> s, viewer |-> c, host |-> h]
  <1>0. /\ c \in Conn /\ h \in Conn /\ n \in PipeRecord /\ n \notin D.pipes
        /\ n.id = i /\ n.session = s /\ n.viewer = c /\ n.host = h
    BY DEF Well, Formed, PipeRecord
  <1>1. /\ DOMAIN R = DirFields
        /\ R.entries = D.entries /\ R.ready = D.ready /\ R.hosted = D.hosted
        /\ R.status = D.status /\ R.entryHosted = D.entryHosted /\ R.pipes = D.pipes \cup {n}
        /\ R.hostedPipes = [t \in Terminal |-> IF t = s THEN D.hostedPipes[t] \cup {i}
                                               ELSE D.hostedPipes[t]]
        /\ R.entryPipes = [e \in Conn |-> IF e \in {c, h} THEN D.entryPipes[e] \cup {i}
                                          ELSE D.entryPipes[e]]
        /\ R.views = [D.views EXCEPT ![c] = @ + 1]
        /\ R.calls = [D.calls EXCEPT ![h] = IF s = None THEN @ + 1 ELSE @]
    BY <1>0 DEF WithPipe, Well, Formed, DirFields
  <1> HIDE DEF n
  <1>2. Formed(R)
    <2>1. IsFiniteSet(D.pipes \cup {n})
      BY FS_AddElement DEF Well, Formed
    <2> QED BY <1>0, <1>1, <2>1 DEF Well, Formed
  <1>3. Hosts(R)
    BY <1>1 DEF Well, Hosts
  <1>4. Pipes(R)
    <2>1. ASSUME NEW t \in Terminal
          PROVE  R.hostedPipes[t] = Ids({p \in R.pipes : p.session = t})
      <3>1. D.hostedPipes[t] = Ids({p \in D.pipes : p.session = t})
        BY DEF Well, Pipes
      <3>2. CASE t = s
        <4>1. {p \in R.pipes : p.session = t} = {p \in D.pipes : p.session = t} \cup {n}
          BY <1>0, <1>1, <3>2
        <4> QED BY <1>0, <1>1, <3>1, <3>2, <4>1 DEF Ids
      <3>3. CASE t # s
        <4>1. {p \in R.pipes : p.session = t} = {p \in D.pipes : p.session = t}
          BY <1>0, <1>1, <3>3
        <4> QED BY <1>1, <3>1, <3>3, <4>1
      <3> QED BY <3>2, <3>3
    <2>2. ASSUME NEW e \in Conn
          PROVE  R.entryPipes[e] = Ids({p \in R.pipes : e \in {p.viewer, p.host}})
      <3> DEFINE A == {p \in D.pipes : e \in {p.viewer, p.host}}
      <3>1. D.entryPipes[e] = Ids(A)
        BY DEF Well, Pipes
      <3>2. CASE e \in {c, h}
        <4>1. {p \in R.pipes : e \in {p.viewer, p.host}} = A \cup {n}
          BY <1>0, <1>1, <3>2
        <4> HIDE DEF A
        <4> QED BY <1>0, <1>1, <3>1, <3>2, <4>1 DEF Ids
      <3>3. CASE e \notin {c, h}
        <4>1. {p \in R.pipes : e \in {p.viewer, p.host}} = A
          BY <1>0, <1>1, <3>3
        <4> HIDE DEF A
        <4> QED BY <1>1, <3>1, <3>3, <4>1
      <3> QED BY <3>2, <3>3
    <2>3. \A p, q \in R.pipes : p.id = q.id => p = q
      BY <1>0, <1>1 DEF Well, Pipes
    <2>4. \A p \in R.pipes : /\ p.viewer \in R.entries /\ p.host \in R.entries
                             /\ p.session # None => p.host \in R.hosted[p.session]
      BY <1>0, <1>1 DEF Well, Pipes
    <2> QED BY <2>1, <2>2, <2>3, <2>4 DEF Pipes
  <1>5. Counts(R)
    <2>1. ASSUME NEW e \in Conn
          PROVE  R.views[e] = Cardinality(Viewed(R, e))
      <3>1. /\ D.views[e] = Cardinality(Viewed(D, e)) /\ n \notin Viewed(D, e)
            /\ IsFiniteSet(Viewed(D, e))
        BY <1>0, FS_Subset DEF Well, Counts, Formed, Viewed
      <3>2. CASE e = c
        <4>1. Viewed(R, e) = Viewed(D, e) \cup {n}
          BY <1>0, <1>1, <3>2 DEF Viewed
        <4>2. R.views[e] = D.views[e] + 1
          BY <1>0, <1>1, <3>2 DEF Well, Formed
        <4> QED BY <3>1, <4>1, <4>2, FS_AddElement
      <3>3. CASE e # c
        <4>1. Viewed(R, e) = Viewed(D, e)
          BY <1>0, <1>1, <3>3 DEF Viewed
        <4>2. R.views[e] = D.views[e]
          BY <1>0, <1>1, <3>3 DEF Well, Formed
        <4> QED BY <3>1, <4>1, <4>2
      <3> QED BY <3>2, <3>3
    <2>2. ASSUME NEW e \in Conn
          PROVE  R.calls[e] = Cardinality(Called(R, e))
      <3>1. /\ D.calls[e] = Cardinality(Called(D, e)) /\ n \notin Called(D, e)
            /\ IsFiniteSet(Called(D, e))
        BY <1>0, FS_Subset DEF Well, Counts, Formed, Called
      <3>2. CASE e = h /\ s = None
        <4>1. Called(R, e) = Called(D, e) \cup {n}
          BY <1>0, <1>1, <3>2 DEF Called
        <4>2. R.calls[e] = D.calls[e] + 1
          BY <1>0, <1>1, <3>2 DEF Well, Formed
        <4> QED BY <3>1, <4>1, <4>2, FS_AddElement
      <3>3. CASE ~(e = h /\ s = None)
        <4>1. Called(R, e) = Called(D, e)
          BY <1>0, <1>1, <3>3 DEF Called
        <4>2. R.calls[e] = D.calls[e]
          BY <1>0, <1>1, <3>3 DEF Well, Formed
        <4> QED BY <3>1, <4>1, <4>2
      <3> QED BY <3>2, <3>3
    <2> QED BY <2>1, <2>2 DEF Counts
  <1>6. Functional(R)
    <2>1. R.hostedPipes = [t \in Terminal |-> R.hostedPipes[t]]
      BY <1>1
    <2>2. R.entryPipes = [e \in Conn |-> R.entryPipes[e]]
      BY <1>1
    <2>3. R.views = [e \in Conn |-> R.views[e]]
      BY <1>1 DEF Well, Functional
    <2>4. R.calls = [e \in Conn |-> R.calls[e]]
      BY <1>1 DEF Well, Functional
    <2> QED BY <1>1, <2>1, <2>2, <2>3, <2>4 DEF Well, Functional
  <1> QED BY <1>1, <1>2, <1>3, <1>4, <1>5, <1>6 DEF Well, n


-----------------------------------------------------------------------------
(***************************************************************************)
(* What each step does to the directory.                                   *)
(***************************************************************************)

\* A step that removes the pipes P and nothing else.
Cuts(P) ==
  /\ Well(dir') /\ dir'.entries = dir.entries /\ dir'.ready = dir.ready
  /\ dir'.hosted = dir.hosted /\ dir'.status = dir.status /\ dir'.pipes = dir.pipes \ P

\* A step that ends the hosting of the sessions S with their pipes.
Ends(S) ==
  /\ Well(dir') /\ dir'.entries = dir.entries /\ dir'.ready = dir.ready
  /\ dir'.pipes = {p \in dir.pipes : p.session \notin S}
  /\ \A s \in Terminal : dir'.hosted[s] = IF s \in S THEN {} ELSE dir.hosted[s]
  /\ \A s \in Terminal \ S : dir'.status[s] = dir.status[s]

\* A step that takes the connections C out and registers the connections E.
Swaps(C, E) ==
  /\ Well(dir') /\ dir'.entries = (dir.entries \ C) \cup E /\ dir'.ready = dir.ready \ C
  /\ dir'.pipes = {p \in dir.pipes : p.viewer \notin C /\ p.host \notin C}
  /\ \A s \in Terminal : dir'.hosted[s] = dir.hosted[s] \ C
  /\ \A s \in Terminal : dir.hosted[s] \cap C = {} => dir'.status[s] = dir.status[s]

\* A step that opens one pipe.
Opens(i, s, c, h) ==
  /\ Well(dir') /\ dir'.entries = dir.entries /\ dir'.ready = dir.ready
  /\ dir'.hosted = dir.hosted /\ dir'.status = dir.status
  /\ dir'.pipes = dir.pipes \cup {[id |-> i, session |-> s, viewer |-> c, host |-> h]}

LEMMA CutsPipes ==
  ASSUME Well(dir), NEW P, P \subseteq dir.pipes, dir' = RemovePipes(dir, P)
  PROVE  Cuts(P)
  <1>1. P \in SUBSET dir.pipes
    OBVIOUS
  <1> QED BY <1>1, RemoveWell DEF Cuts

LEMMA EndsSessions ==
  ASSUME Well(dir), NEW S, S \subseteq Terminal, dir' = Unhosted(dir, S)
  PROVE  Ends(S)
  BY UnhostedWell DEF Ends

LEMMA SwapsConnections ==
  ASSUME Well(dir), NEW C, C \subseteq dir.entries, NEW E, E \subseteq Conn,
         \A e, f \in E : e = f,
         \A e \in E : \A c \in dir.entries \ C : DeviceOf(c) # DeviceOf(e),
         dir' = [Detached(dir, C) EXCEPT !.entries = @ \cup E]
  PROVE  Swaps(C, E)
  <1> DEFINE D == Detached(dir, C)
             R == dir'
  <1>1. /\ Well(D) /\ D.entries = dir.entries \ C /\ D.ready = dir.ready \ C
        /\ D.pipes = {p \in dir.pipes : p.viewer \notin C /\ p.host \notin C}
        /\ \A s \in Terminal : D.hosted[s] = dir.hosted[s] \ C
        /\ \A s \in Terminal : dir.hosted[s] \cap C = {} => D.status[s] = dir.status[s]
    BY DetachedWell
  <1>2. R = [D EXCEPT !.entries = @ \cup E]
    OBVIOUS
  <1> HIDE DEF D, R
  <1>3. /\ DOMAIN R = DirFields /\ R.entries = D.entries \cup E /\ R.ready = D.ready
        /\ R.hosted = D.hosted /\ R.status = D.status /\ R.hostedPipes = D.hostedPipes
        /\ R.entryHosted = D.entryHosted /\ R.entryPipes = D.entryPipes
        /\ R.views = D.views /\ R.calls = D.calls /\ R.pipes = D.pipes
    BY <1>1, <1>2 DEF Well, Formed, DirFields
  <1>4. Formed(R)
    BY <1>1, <1>3 DEF Well, Formed
  <1>5. Hosts(R)
    <2>1. \A c, e \in R.entries : DeviceOf(c) = DeviceOf(e) => c = e
      BY <1>1, <1>3 DEF Well, Hosts
    <2>2. \A s \in Terminal : R.hosted[s] \subseteq R.entries
      BY <1>1, <1>3 DEF Well, Hosts
    <2> QED BY <1>1, <1>3, <2>1, <2>2 DEF Well, Hosts
  <1>6. Pipes(R)
    <2>1. \A p \in R.pipes : /\ p.viewer \in R.entries /\ p.host \in R.entries
                             /\ p.session # None => p.host \in R.hosted[p.session]
      BY <1>1, <1>3 DEF Well, Pipes
    <2> QED BY <1>1, <1>3, <2>1 DEF Well, Pipes
  <1>7. Counts(R)
    <2>1. \A c \in Conn : Viewed(R, c) = Viewed(D, c) /\ Called(R, c) = Called(D, c)
      BY <1>3 DEF Viewed, Called
    <2> QED BY <1>1, <1>3, <2>1 DEF Well, Counts
  <1>8. Functional(R)
    BY <1>1, <1>3 DEF Well, Functional
  <1> QED BY <1>1, <1>3, <1>4, <1>5, <1>6, <1>7, <1>8 DEF Swaps, Well, R

\* Detach by any of the tasks.
LEMMA DetachSwaps ==
  ASSUME Well(dir), NEW C, C \subseteq dir.entries, NEW E, E \subseteq Conn,
         \A e, f \in E : e = f,
         \A e \in E : \A c \in dir.entries \ C : DeviceOf(c) # DeviceOf(e), Detach(C, E)
  PROVE  /\ Swaps(C, E)
         /\ late' = late \cup DetachedLate(dir, C)
         /\ Changing({s \in Terminal : dir.hosted[s] \cap C # {}})
  <1>1. dir' = [Detached(dir, C) EXCEPT !.entries = @ \cup E]
    BY DEF Detach
  <1>2. UNION {dir.entryHosted[c] : c \in C} = {s \in Terminal : dir.hosted[s] \cap C # {}}
    <2>1. C \subseteq Conn
      BY DEF Well, Formed
    <2> QED BY <2>1 DEF Well, Hosts
  <1>3. Swaps(C, E)
    BY <1>1, SwapsConnections
  <1> QED BY <1>2, <1>3 DEF Detach

\* What waits to be sent after a detaching.
LEMMA DetachedLateIs ==
  ASSUME Well(dir), NEW C, C \subseteq dir.entries
  PROVE  /\ \A c \in C : Abort(c) \in DetachedLate(dir, C)
         /\ \A p \in dir.pipes : p.viewer \in C \/ p.host \in C =>
              /\ p.viewer \notin C => Closed(p.id, p.viewer) \in DetachedLate(dir, C)
              /\ p.host \notin C => Closed(p.id, p.host) \in DetachedLate(dir, C)
         /\ \A m \in DetachedLate(dir, C) :
              \/ \E c \in C : m = Abort(c)
              \/ \E p \in dir.pipes : /\ p.viewer \in C \/ p.host \in C
                                      /\ m = Closed(p.id, p.viewer) \/ m = Closed(p.id, p.host)
  <1> DEFINE S == UNION {dir.entryHosted[c] : c \in C}
             A == HostedPipes(dir, S)
             B == WithIds(dir, UNION {dir.entryPipes[c] : c \in C}) \ A
  <1>0. C \subseteq Conn
    BY DEF Well, Formed
  <1>1. S = {s \in Terminal : dir.hosted[s] \cap C # {}}
    BY <1>0, EntryHostedAre
  <1>2. A = {p \in dir.pipes : p.session \in S}
    <2> HIDE DEF S
    <2>1. S \in SUBSET Terminal
      BY <1>1
    <2> QED BY <2>1, HostedPipesAre
  <1>3. WithIds(dir, UNION {dir.entryPipes[c] : c \in C})
          = {p \in dir.pipes : p.viewer \in C \/ p.host \in C}
    BY <1>0, EntryPipesAre
  <1>4. DetachedLate(dir, C) = Closing(A, {}) \cup Closing(B, C) \cup {Abort(c) : c \in C}
    BY DEF DetachedLate, Abort
  <1>5. \A p \in A : p.host \in C
    <2> SUFFICES ASSUME NEW p \in A PROVE p.host \in C
      OBVIOUS
    <2>1. p \in dir.pipes /\ p.session \in Terminal /\ dir.hosted[p.session] \cap C # {}
      BY <1>1, <1>2
    <2>2. p.session # None
      BY <2>1, DirectoryAssumption
    <2>3. p.host \in dir.hosted[p.session] /\ \A c, e \in dir.hosted[p.session] : c = e
      BY <2>1, <2>2 DEF Well, Pipes, Hosts
    <2> QED BY <2>1, <2>3
  <1>6. \A p : p \in A \cup B <=> p \in dir.pipes /\ (p.viewer \in C \/ p.host \in C)
    BY <1>2, <1>3, <1>5
  <1> HIDE DEF A, B
  <1>7. \A m : m \in Closing(A, {}) \cup Closing(B, C) <=>
          \/ \E p \in A : m = Closed(p.id, p.viewer) \/ m = Closed(p.id, p.host)
          \/ \E p \in B : p.viewer \notin C /\ m = Closed(p.id, p.viewer)
          \/ \E p \in B : p.host \notin C /\ m = Closed(p.id, p.host)
    BY DEF Closing
  <1> QED BY <1>4, <1>6, <1>7


\* The actions that detach, with what they leave for after the unlock.
Detaches(C, E) ==
  /\ C \subseteq dir.entries /\ Swaps(C, E) /\ late' = late \cup DetachedLate(dir, C)
  /\ Changing({s \in Terminal : dir.hosted[s] \cap C # {}})

LEMMA RegisterDetaches ==
  ASSUME Well(dir), NEW c \in Conn, Detach(EntryOf(DeviceOf(c)), {c})
  PROVE  Detaches(EntryOf(DeviceOf(c)), {c})
  <1> DEFINE C == EntryOf(DeviceOf(c))
             E == {c}
  <1>1. /\ C \subseteq dir.entries /\ E \subseteq Conn /\ \A e, f \in E : e = f
        /\ \A e \in E : \A b \in dir.entries \ C : DeviceOf(b) # DeviceOf(e)
        /\ Detach(C, E)
    BY DEF EntryOf
  <1> HIDE DEF C, E
  <1>2. Detaches(C, E)
    BY <1>1, DetachSwaps DEF Detaches
  <1> QED BY <1>2 DEF C, E

LEMMA OnlyDetaches ==
  ASSUME Well(dir), NEW C, C \subseteq dir.entries, Detach(C, {})
  PROVE  Detaches(C, {})
  <1> DEFINE E == {}
  <1>1. /\ E \subseteq Conn /\ \A e, f \in E : e = f
        /\ \A e \in E : \A b \in dir.entries \ C : DeviceOf(b) # DeviceOf(e)
        /\ Detach(C, E)
    OBVIOUS
  <1> HIDE DEF E
  <1>2. Detaches(C, E)
    BY <1>1, DetachSwaps DEF Detaches
  <1> QED BY <1>2 DEF E

LEMMA EntryOfIn == \A d : EntryOf(d) \subseteq dir.entries
  BY DEF EntryOf

\* The session s is hosted by c now.
Moves(s, c) ==
  /\ Well(dir') /\ dir'.entries = dir.entries /\ dir'.ready = dir.ready
  /\ dir.hosted[s] = {c} => dir'.pipes = dir.pipes /\ dir'.status[s] = dir.status[s]
  /\ dir.hosted[s] # {c} => dir'.pipes = {p \in dir.pipes : p.session # s}
  /\ \A t \in Terminal : dir'.hosted[t] = IF t = s THEN {c} ELSE dir.hosted[t]
  /\ \A t \in Terminal \ {s} : dir'.status[t] = dir.status[t]


LEMMA HostMoves ==
  ASSUME Well(dir), NEW c \in dir.entries, NEW s \in Terminal, DeviceOf(c) = HostDevice(s),
         dir' = [Unhosted(dir, {t \in {s} : dir.hosted[t] # {c}})
                   EXCEPT !.hosted[s] = {c}, !.entryHosted[c] = @ \cup {s}]
  PROVE  Moves(s, c)
  <1> DEFINE S == {t \in {s} : dir.hosted[t] # {c}}
             D == Unhosted(dir, S)
             R == dir'
  <1>0. c \in Conn /\ S \subseteq Terminal /\ \A t : t \in S <=> t = s /\ dir.hosted[s] # {c}
    BY DEF Well, Formed
  <1>1. R = [D EXCEPT !.hosted[s] = {c}, !.entryHosted[c] = @ \cup {s}]
    OBVIOUS
  <1> HIDE DEF S
  <1>2. /\ Well(D) /\ D.entries = dir.entries /\ D.ready = dir.ready
        /\ D.pipes = {p \in dir.pipes : p.session \notin S}
        /\ \A t \in Terminal : D.hosted[t] = IF t \in S THEN {} ELSE dir.hosted[t]
        /\ \A t \in Terminal \ S : D.status[t] = dir.status[t]
    BY <1>0, UnhostedWell
  <1> HIDE DEF D, R
  <1>3. /\ DOMAIN R = DirFields /\ R.entries = D.entries /\ R.ready = D.ready
        /\ R.hosted = [D.hosted EXCEPT ![s] = {c}]
        /\ R.entryHosted = [D.entryHosted EXCEPT ![c] = @ \cup {s}]
        /\ R.status = D.status /\ R.hostedPipes = D.hostedPipes
        /\ R.entryPipes = D.entryPipes /\ R.views = D.views /\ R.calls = D.calls
        /\ R.pipes = D.pipes
    BY <1>1, <1>2 DEF Well, Formed, DirFields
  <1>4. /\ DOMAIN D.hosted = Terminal /\ DOMAIN D.entryHosted = Conn
        /\ DOMAIN R.hosted = Terminal /\ DOMAIN R.entryHosted = Conn
    BY <1>2, <1>3 DEF Well, Formed
  <1>5. \A t \in Terminal : R.hosted[t] = IF t = s THEN {c} ELSE D.hosted[t]
    BY <1>3, <1>4
  <1>6. D.hosted[s] \in {{}, {c}}
    BY <1>0, <1>2
  <1>7. \A t \in Terminal : R.hosted[t] = IF t = s THEN {c} ELSE dir.hosted[t]
    BY <1>0, <1>2, <1>5
  <1>8. Formed(R)
    BY <1>2, <1>3, <1>4 DEF Well, Formed
  <1>9. Hosts(R)
    <2>1. ASSUME NEW e \in Conn
          PROVE  R.entryHosted[e] = {t \in Terminal : e \in R.hosted[t]}
      <3>1. D.entryHosted[e] = {t \in Terminal : e \in D.hosted[t]}
        BY <1>2 DEF Well, Hosts
      <3>2. CASE e = c
        <4>1. R.entryHosted[e] = D.entryHosted[e] \cup {s}
          BY <1>3, <1>4, <3>2
        <4> QED BY <1>5, <3>1, <3>2, <4>1
      <3>3. CASE e # c
        <4>1. R.entryHosted[e] = D.entryHosted[e] /\ e \notin D.hosted[s]
          BY <1>3, <1>4, <1>6, <3>3
        <4> QED BY <1>5, <3>1, <3>3, <4>1
      <3> QED BY <3>2, <3>3
    <2>2. /\ \A t \in Terminal : /\ D.hosted[t] \subseteq D.entries
                                 /\ \A e, f \in D.hosted[t] : e = f
                                 /\ \A e \in D.hosted[t] : DeviceOf(e) = HostDevice(t)
          /\ \A e, f \in D.entries : DeviceOf(e) = DeviceOf(f) => e = f
      BY <1>2 DEF Well, Hosts
    <2>3. \A t \in Terminal : /\ R.hosted[t] \subseteq R.entries
                              /\ \A e, f \in R.hosted[t] : e = f
                              /\ \A e \in R.hosted[t] : DeviceOf(e) = HostDevice(t)
      BY <1>2, <1>3, <1>5, <2>2
    <2> QED BY <1>3, <2>1, <2>2, <2>3 DEF Hosts
  <1>10. Pipes(R)
    <2>1. \A p \in R.pipes : /\ p.viewer \in R.entries /\ p.host \in R.entries
                             /\ p.session # None => p.host \in R.hosted[p.session]
      <3> SUFFICES ASSUME NEW p \in R.pipes
                   PROVE  /\ p.viewer \in R.entries /\ p.host \in R.entries
                          /\ p.session # None => p.host \in R.hosted[p.session]
        OBVIOUS
      <3>1. /\ p \in D.pipes /\ p.viewer \in D.entries /\ p.host \in D.entries
            /\ p.session # None => p.host \in D.hosted[p.session] /\ p.session \in Terminal
        BY <1>2, <1>3 DEF Well, Pipes, Formed, PipeRecord
      <3> QED BY <1>3, <1>5, <1>6, <3>1
    <2> QED BY <1>2, <1>3, <2>1 DEF Well, Pipes
  <1>11. Counts(R)
    <2>1. \A e \in Conn : Viewed(R, e) = Viewed(D, e) /\ Called(R, e) = Called(D, e)
      BY <1>3 DEF Viewed, Called
    <2> QED BY <1>2, <1>3, <2>1 DEF Well, Counts
  <1>11a. Functional(R)
    <2>1. R.hosted = [t \in Terminal |-> R.hosted[t]]
      BY <1>2, <1>3 DEF Well, Functional
    <2>2. R.entryHosted = [e \in Conn |-> R.entryHosted[e]]
      BY <1>2, <1>3 DEF Well, Functional
    <2> QED BY <1>2, <1>3, <2>1, <2>2 DEF Well, Functional
  <1>12. Well(R) /\ R.entries = dir.entries /\ R.ready = dir.ready
    BY <1>2, <1>3, <1>8, <1>9, <1>10, <1>11, <1>11a DEF Well
  <1>13. /\ dir.hosted[s] = {c} => R.pipes = dir.pipes /\ R.status[s] = dir.status[s]
         /\ dir.hosted[s] # {c} => R.pipes = {p \in dir.pipes : p.session # s}
         /\ \A t \in Terminal \ {s} : R.status[t] = dir.status[t]
    BY <1>0, <1>2, <1>3
  <1> QED BY <1>7, <1>12, <1>13 DEF Moves, R

\* The changes of one field.
LEMMA ReadyWell ==
  ASSUME Well(dir), NEW C, C \subseteq dir.entries, dir' = [dir EXCEPT !.ready = @ \cup C]
  PROVE  /\ Well(dir') /\ dir'.entries = dir.entries /\ dir'.ready = dir.ready \cup C
         /\ dir'.hosted = dir.hosted /\ dir'.status = dir.status /\ dir'.pipes = dir.pipes
  <1> DEFINE R == dir'
  <1>1. R = [dir EXCEPT !.ready = @ \cup C]
    OBVIOUS
  <1> HIDE DEF R
  <1>2. /\ DOMAIN R = DirFields /\ R.entries = dir.entries /\ R.ready = dir.ready \cup C
        /\ R.hosted = dir.hosted /\ R.status = dir.status /\ R.hostedPipes = dir.hostedPipes
        /\ R.entryHosted = dir.entryHosted /\ R.entryPipes = dir.entryPipes
        /\ R.views = dir.views /\ R.calls = dir.calls /\ R.pipes = dir.pipes
    BY <1>1 DEF Well, Formed, DirFields
  <1>3. Formed(R)
    BY <1>2 DEF Well, Formed
  <1>4. Hosts(R) /\ Pipes(R)
    BY <1>2 DEF Well, Hosts, Pipes
  <1>5. Counts(R)
    <2>1. \A e \in Conn : Viewed(R, e) = Viewed(dir, e) /\ Called(R, e) = Called(dir, e)
      BY <1>2 DEF Viewed, Called
    <2> QED BY <1>2, <2>1 DEF Well, Counts
  <1>6. Functional(R)
    BY <1>2 DEF Well, Functional
  <1> QED BY <1>2, <1>3, <1>4, <1>5, <1>6 DEF Well, R

LEMMA ShareWell ==
  ASSUME Well(dir), NEW s \in Terminal, dir' = [dir EXCEPT !.status[s] = ~@]
  PROVE  /\ Well(dir') /\ dir'.entries = dir.entries /\ dir'.ready = dir.ready
         /\ dir'.hosted = dir.hosted /\ dir'.pipes = dir.pipes
         /\ \A t \in Terminal \ {s} : dir'.status[t] = dir.status[t]
  <1> DEFINE R == dir'
  <1>1. R = [dir EXCEPT !.status[s] = ~@]
    OBVIOUS
  <1> HIDE DEF R
  <1>2. /\ DOMAIN R = DirFields /\ R.entries = dir.entries /\ R.ready = dir.ready
        /\ R.hosted = dir.hosted /\ R.hostedPipes = dir.hostedPipes
        /\ R.entryHosted = dir.entryHosted /\ R.entryPipes = dir.entryPipes
        /\ R.views = dir.views /\ R.calls = dir.calls /\ R.pipes = dir.pipes
        /\ DOMAIN R.status = Terminal
        /\ \A t \in Terminal \ {s} : R.status[t] = dir.status[t]
    BY <1>1 DEF Well, Formed, DirFields
  <1>3. Formed(R)
    BY <1>2 DEF Well, Formed
  <1>4. Hosts(R) /\ Pipes(R)
    BY <1>2 DEF Well, Hosts, Pipes
  <1>5. Counts(R)
    <2>1. \A e \in Conn : Viewed(R, e) = Viewed(dir, e) /\ Called(R, e) = Called(dir, e)
      BY <1>2 DEF Viewed, Called
    <2> QED BY <1>2, <2>1 DEF Well, Counts
  <1>6. Functional(R)
    BY <1>2 DEF Well, Functional
  <1> QED BY <1>2, <1>3, <1>4, <1>5, <1>6 DEF Well, R

LEMMA EmptyWell ==
  ASSUME NEW D, D = DirInit
  PROVE  /\ Well(D) /\ D.entries = {} /\ D.ready = {} /\ D.pipes = {}
         /\ \A s \in Terminal : D.hosted[s] = {}
  <1>1. /\ DOMAIN D = DirFields /\ D.entries = {} /\ D.ready = {} /\ D.pipes = {}
        /\ D.hosted = [s \in Terminal |-> {}] /\ DOMAIN D.status = Terminal
        /\ D.hostedPipes = [s \in Terminal |-> {}]
        /\ D.entryHosted = [c \in Conn |-> {}] /\ D.entryPipes = [c \in Conn |-> {}]
        /\ D.views = [c \in Conn |-> 0] /\ D.calls = [c \in Conn |-> 0]
    BY DEF DirInit, DirFields
  <1>2. Formed(D)
    BY <1>1, FS_EmptySet DEF Formed
  <1>3. Hosts(D)
    BY <1>1 DEF Hosts
  <1>4. Pipes(D)
    BY <1>1 DEF Pipes, Ids
  <1>5. Counts(D)
    <2>1. \A c \in Conn : Viewed(D, c) = {} /\ Called(D, c) = {}
      BY <1>1 DEF Viewed, Called
    <2>2. Cardinality({}) = 0
      BY FS_EmptySet
    <2>3. \A c \in Conn : D.views[c] = 0 /\ D.calls[c] = 0
      BY <1>1
    <2> QED BY <2>1, <2>2, <2>3 DEF Counts
  <1>6. Functional(D)
    BY <1>1 DEF Functional
  <1> QED BY <1>1, <1>2, <1>3, <1>4, <1>5, <1>6 DEF Well


-----------------------------------------------------------------------------
(***************************************************************************)
(* How each part of the invariant passes over a step that leaves most of   *)
(* it alone.                                                               *)
(***************************************************************************)

LEMMA TasksQuiet ==
  ASSUME TasksRight, pc' = pc, arg' = arg, open' \subseteq open,
         dir'.entries \subseteq dir.entries
  PROVE  TasksRight'
  BY DEF TasksRight

\* The task of one connection takes a step.
LEMMA TasksStep ==
  ASSUME TasksRight, NEW c \in Conn, NEW x \in Step, pc' = [pc EXCEPT ![c] = x],
         DOMAIN arg' = Conn, \A d \in Conn \ {c} : arg'[d] = arg[d],
         dir'.entries \subseteq dir.entries \cup {c}, open' \subseteq open \cup {c},
         c \in dir'.entries => x \notin {"new", "approved", "ended"},
         c \in open' => x \notin {"new", "ended"},
         x \in {"opening", "checking"} =>
           /\ arg'[c].pipe \in Pipe /\ arg'[c].session \in Terminal
           /\ DeviceOf(c) # HostDevice(arg'[c].session),
         x \in {"hosting", "showing", "shown"} =>
           arg'[c].session \in Terminal /\ DeviceOf(c) = HostDevice(arg'[c].session)
  PROVE  TasksRight'
  <1>1. pc' \in [Conn -> Step] /\ pc'[c] = x /\ \A d \in Conn \ {c} : pc'[d] = pc[d]
    BY DEF TasksRight
  <1>2. \A d \in dir'.entries : pc'[d] \notin {"new", "approved", "ended"}
    BY <1>1 DEF TasksRight
  <1>3. \A d \in open' : pc'[d] \notin {"new", "ended"}
    BY <1>1 DEF TasksRight
  <1>4. ASSUME NEW d \in Conn
        PROVE  /\ pc'[d] \in {"opening", "checking"} =>
                    /\ arg'[d].pipe \in Pipe /\ arg'[d].session \in Terminal
                    /\ DeviceOf(d) # HostDevice(arg'[d].session)
               /\ pc'[d] \in {"hosting", "showing", "shown"} =>
                    arg'[d].session \in Terminal /\ DeviceOf(d) = HostDevice(arg'[d].session)
    BY <1>1 DEF TasksRight
  <1> QED BY <1>1, <1>2, <1>3, <1>4 DEF TasksRight

\* What the ends of a pipe know, when pipes may go and their ends are told.
LEMMA EndsStep ==
  ASSUME EndsRight, Well(dir), TasksRight, UNCHANGED <<hostSees, viewSees>>,
         dir'.pipes \subseteq dir.pipes, late \subseteq late', open' \subseteq open,
         \A m \in late' \ late :
           \/ \E c \in Conn : m = Abort(c)
           \/ \E p \in dir.pipes \ dir'.pipes : m = Closed(p.id, p.viewer) \/ m = Closed(p.id, p.host),
         \A p \in dir.pipes \ dir'.pipes : \A c \in {p.viewer, p.host} :
           c \notin open' \/ Abort(c) \in late' \/ Closed(p.id, c) \in late',
         \A c \in Conn :
           /\ pc'[c] \in {"new", "opening", "checking"} => pc'[c] = pc[c] /\ arg'[c] = arg[c]
           /\ pc[c] = "opening" /\ c \in open' => pc'[c] = "opening" /\ arg'[c] = arg[c]
  PROVE  EndsRight'
  <1>1. /\ dir.pipes \subseteq PipeRecord /\ \A p, q \in dir.pipes : p.id = q.id => p = q
        /\ \A p \in dir.pipes : p.id \in Pipe /\ p.viewer \in Conn /\ p.host \in Conn
    BY DEF Well, Formed, Pipes, PipeRecord
  <1>2. ASSUME NEW m \in late'
        PROVE  \/ \E c \in Conn : m = Abort(c)
               \/ \E c \in Conn, i \in Pipe : /\ m = Closed(i, c)
                                              /\ hostSees'[i] # "no"
                                              /\ \A p \in dir'.pipes : p.id # i
    <2>1. CASE m \in late
      BY <2>1 DEF EndsRight
    <2>2. CASE m \notin late /\ \E p \in dir.pipes \ dir'.pipes :
                                  m = Closed(p.id, p.viewer) \/ m = Closed(p.id, p.host)
      <3>1. PICK p \in dir.pipes \ dir'.pipes : m = Closed(p.id, p.viewer) \/ m = Closed(p.id, p.host)
        BY <2>2
      <3>2. hostSees'[p.id] # "no"
        <4>1. hostSees[p.id] = p.host /\ p.host \in Conn
          BY <1>1, <3>1 DEF EndsRight
        <4> QED BY <4>1, DirectoryAssumption
      <3>3. \A q \in dir'.pipes : q.id # p.id
        BY <1>1, <3>1
      <3> QED BY <1>1, <3>1, <3>2, <3>3
    <2> QED BY <2>1, <2>2
  <1>3. ASSUME NEW i \in Pipe, NEW c \in open'
        PROVE  \/ Abort(c) \in late'
               \/ Closed(i, c) \in late'
               \/ \E p \in dir'.pipes : p.id = i
               \/ /\ hostSees'[i] # c
                  /\ viewSees'[i] = c => pc'[c] = "opening" /\ arg'[c].pipe = i
    <2>0. c \in open
      OBVIOUS
    <2>1. CASE Abort(c) \in late \/ Closed(i, c) \in late
      BY <2>1
    <2>2. CASE /\ hostSees[i] # c
               /\ viewSees[i] = c => c \in Conn /\ pc[c] = "opening" /\ arg[c].pipe = i
      BY <2>2
    <2>3. ASSUME NEW p \in dir.pipes, p.id = i
          PROVE  \/ Abort(c) \in late'
                 \/ Closed(i, c) \in late'
                 \/ \E q \in dir'.pipes : q.id = i
                 \/ hostSees'[i] # c /\ viewSees'[i] # c
      <3>1. hostSees[i] = p.host /\ viewSees[i] = p.viewer
        BY <2>3 DEF EndsRight
      <3>2. CASE p \in dir'.pipes
        BY <2>3, <3>2
      <3>3. CASE p \notin dir'.pipes /\ c \in {p.viewer, p.host}
        BY <2>3, <3>3
      <3>4. CASE c \notin {p.viewer, p.host}
        BY <3>1, <3>4
      <3> QED BY <3>2, <3>3, <3>4
    <2>4. viewSees[i] = c => c \in Conn
      BY <2>0 DEF TasksRight
    <2> QED BY <2>0, <2>1, <2>2, <2>3, <2>4 DEF EndsRight
  <1>4. \A p \in dir'.pipes : hostSees'[p.id] = p.host /\ viewSees'[p.id] = p.viewer
    BY DEF EndsRight
  <1>5. \A c \in Conn :
          /\ pc'[c] = "opening" => hostSees'[arg'[c].pipe] = "no" /\ viewSees'[arg'[c].pipe] = c
          /\ pc'[c] = "checking" =>
               /\ hostSees'[arg'[c].pipe] # "no" /\ viewSees'[arg'[c].pipe] \in {c, "closed"}
               /\ \A p \in dir'.pipes : p.id = arg'[c].pipe => p.session = arg'[c].session
    BY DEF EndsRight
  <1>6. \A c \in Conn, i \in Pipe : pc'[c] = "new" => hostSees'[i] # c /\ viewSees'[i] # c
    BY DEF EndsRight
  <1> QED BY <1>2, <1>3, <1>4, <1>5, <1>6 DEF EndsRight


LEMMA AccessStep ==
  ASSUME AccessRight, dir'.pipes \subseteq dir.pipes, dir.pipes \subseteq PipeRecord,
         UNCHANGED <<shared, ended, task>>, lapsed \subseteq lapsed',
         \A c \in Conn : pc[c] = "checking" => pc'[c] = "checking" /\ arg'[c] = arg[c]
  PROVE  AccessRight'
  <1>1. RequestsFormed'
    BY DEF AccessRight, RequestsFormed
  <1>2. ASSUME NEW p \in dir'.pipes
        PROVE  \/ p.session = None \/ "revoke" \in lapsed'
               \/ pc'[p.viewer] = "checking" /\ arg'[p.viewer].pipe = p.id
               \/ /\ p.session \in ended' => \E t \in Task : p.session \in task'[t].over
                  /\ Account(p.viewer) \notin People(p.session)' => \E t \in Task : WillRevoke(t, p)'
    <2>1. p.viewer \in Conn
      BY DEF PipeRecord
    <2>2. \/ p.session = None \/ "revoke" \in lapsed
          \/ pc[p.viewer] = "checking" /\ arg[p.viewer].pipe = p.id
          \/ /\ p.session \in ended => \E t \in Task : p.session \in task[t].over
             /\ Account(p.viewer) \notin People(p.session) => \E t \in Task : WillRevoke(t, p)
      BY DEF AccessRight
    <2> QED BY <2>1, <2>2 DEF People, WillRevoke
  <1> QED BY <1>1, <1>2 DEF AccessRight

LEMMA RevokedStep ==
  ASSUME RevokedRight, dir'.entries \subseteq dir.entries, UNCHANGED revoked,
         \A t \in Task : task[t].step = "device" => task'[t] = task[t],
         \A c \in dir'.entries : pc[c] \in {"registered", "ending"} => pc'[c] \in {"registered", "ending"}
  PROVE  RevokedRight'
  <1> SUFFICES ASSUME NEW c \in dir'.entries, DeviceOf(c) \in revoked'
               PROVE  \/ pc'[c] \in {"registered", "ending"}
                      \/ \E t \in Task : task'[t].step = "device" /\ task'[t].gone = {DeviceOf(c)}
    BY DEF RevokedRight
  <1> QED BY DEF RevokedRight

LEMMA HostsStep ==
  ASSUME HostsRight, dir'.ready = dir.ready, UNCHANGED hostsTold, open' \cap dir.ready \subseteq open
  PROVE  HostsRight'
  <1> SUFFICES ASSUME NEW c \in dir'.ready \cap open'
               PROVE  /\ ReadyHosts(dir, Account(c))' \subseteq hostsTold'[c]
                      /\ hostsTold'[c] \subseteq
                           {DeviceOf(h) : h \in {e \in dir'.ready \cap Hosting : Account(e) = Account(c)}}
    BY DEF HostsRight, HostsKnown
  <1>1. /\ ReadyHosts(dir, Account(c)) \subseteq hostsTold[c]
        /\ hostsTold[c] \subseteq
             {DeviceOf(h) : h \in {e \in dir.ready \cap Hosting : Account(e) = Account(c)}}
    BY DEF HostsRight, HostsKnown
  <1>2. ReadyHosts(dir, Account(c))' \subseteq ReadyHosts(dir, Account(c))
    BY DEF ReadyHosts
  <1> QED BY <1>1, <1>2

LEMMA PresenceStep ==
  ASSUME PresenceRight, UNCHANGED <<told, announcing, load>>,
         ended \subseteq ended', waiting \subseteq waiting', lapsed \subseteq lapsed',
         \A s \in Terminal :
           \/ dir'.hosted[s] = dir.hosted[s] /\ dir'.status[s] = dir.status[s]
              /\ open' \cap dir.hosted[s] \subseteq open
           \/ s \in waiting' \/ "presence" \notin load \/ "stop" \in lapsed'
  PROVE  PresenceRight'
  <1>1. ASSUME NEW s \in Terminal
        PROVE  /\ Excused(s) => Excused(s)'
               /\ Excused(s)' \/ Live(dir, s)' = Live(dir, s)
    <2>1. CASE s \in waiting' \/ "presence" \notin load \/ "stop" \in lapsed'
      BY <2>1 DEF Excused
    <2>2. CASE /\ dir'.hosted[s] = dir.hosted[s] /\ dir'.status[s] = dir.status[s]
               /\ open' \cap dir.hosted[s] \subseteq open
      <3>1. Excused(s) => Excused(s)'
        BY <2>2 DEF Excused
      <3>2. CASE dir.hosted[s] \ open' # {}
        BY <2>2, <3>1, <3>2 DEF Excused
      <3>3. CASE dir.hosted[s] \ open' = {}
        <4>1. dir'.hosted[s] \cap open' = dir.hosted[s] \cap open
          BY <2>2, <3>3
        <4> QED BY <2>2, <3>1, <4>1 DEF Live
      <3> QED BY <3>2, <3>3
    <2> QED BY <2>1, <2>2
  <1>2. \A a \in announcing' :
          /\ DOMAIN a = {"session", "saw"} /\ announcing' = {a} /\ a.session \in Terminal
          /\ a.saw = None \/ Excused(a.session)' \/ a.saw = Live(dir, a.session)'
    BY <1>1 DEF PresenceRight
  <1>3. \A s \in Terminal : \/ \E a \in announcing' : a.session = s
                            \/ Excused(s)' \/ told'[s] = Live(dir, s)'
    BY <1>1 DEF PresenceRight
  <1> QED BY <1>2, <1>3 DEF PresenceRight

LEMMA HiddenStep ==
  ASSUME HiddenRight, hidden' \subseteq hidden, UNCHANGED hide, lapsed \subseteq lapsed',
         \A s \in Terminal : \/ dir'.hosted[s] \cap open' = {}
                             \/ /\ dir'.hosted[s] = dir.hosted[s] /\ open' \cap dir.hosted[s] \subseteq open
                                /\ \A c \in dir.hosted[s] : pc[c] \in {"showing", "shown"} =>
                                     pc'[c] \in {"showing", "shown"} /\ arg'[c] = arg[c]
  PROVE  HiddenRight'
  <1>1. ASSUME NEW s \in hidden'
        PROVE  \/ dir'.hosted[s] \cap open' = {} \/ "show" \in lapsed'
               \/ hide'.session = s /\ hide'.step \in {"check", "delete"}
               \/ \E c \in dir'.hosted[s] : pc'[c] \in {"showing", "shown"} /\ arg'[c].session = s
    <2>1. s \in Terminal
      BY DEF HiddenRight
    <2>2. \/ dir.hosted[s] \cap open = {} \/ "show" \in lapsed
          \/ hide.session = s /\ hide.step \in {"check", "delete"}
          \/ \E c \in dir.hosted[s] : pc[c] \in {"showing", "shown"} /\ arg[c].session = s
      BY DEF HiddenRight
    <2> QED BY <2>1, <2>2
  <1> QED BY <1>1 DEF HiddenRight


\* The same for the steps that detach.
LEMMA DetachEnds ==
  ASSUME DirInv, NEW C, NEW E, Detaches(C, E), UNCHANGED <<hostSees, viewSees>>,
         open' \subseteq open,
         \A c \in Conn :
           /\ pc'[c] \in {"new", "opening", "checking"} => pc'[c] = pc[c] /\ arg'[c] = arg[c]
           /\ pc[c] = "opening" /\ c \in open' => pc'[c] = "opening" /\ arg'[c] = arg[c]
  PROVE  EndsRight'
  <1>0. EndsRight /\ Well(dir) /\ TasksRight /\ C \subseteq dir.entries /\ C \subseteq Conn
    BY DEF DirInv, Detaches, Well, Formed
  <1>1. /\ dir'.pipes = {p \in dir.pipes : p.viewer \notin C /\ p.host \notin C}
        /\ late' = late \cup DetachedLate(dir, C)
    BY DEF Detaches, Swaps
  <1>2. /\ \A c \in C : Abort(c) \in DetachedLate(dir, C)
        /\ \A p \in dir.pipes : p.viewer \in C \/ p.host \in C =>
             /\ p.viewer \notin C => Closed(p.id, p.viewer) \in DetachedLate(dir, C)
             /\ p.host \notin C => Closed(p.id, p.host) \in DetachedLate(dir, C)
        /\ \A m \in DetachedLate(dir, C) :
             \/ \E c \in C : m = Abort(c)
             \/ \E p \in dir.pipes : /\ p.viewer \in C \/ p.host \in C
                                     /\ m = Closed(p.id, p.viewer) \/ m = Closed(p.id, p.host)
    BY <1>0, DetachedLateIs
  <1>3. \A p \in dir.pipes : p \in dir'.pipes <=> ~(p.viewer \in C \/ p.host \in C)
    BY <1>1
  <1>4. \A m \in late' \ late :
          \/ \E c \in Conn : m = Abort(c)
          \/ \E p \in dir.pipes \ dir'.pipes : m = Closed(p.id, p.viewer) \/ m = Closed(p.id, p.host)
    BY <1>0, <1>1, <1>2, <1>3
  <1>5. \A p \in dir.pipes \ dir'.pipes : \A c \in {p.viewer, p.host} :
          c \notin open' \/ Abort(c) \in late' \/ Closed(p.id, c) \in late'
    BY <1>1, <1>2, <1>3
  <1>6. dir'.pipes \subseteq dir.pipes /\ late \subseteq late'
    BY <1>1
  <1> QED BY <1>0, <1>4, <1>5, <1>6, EndsStep

LEMMA DetachHosts ==
  ASSUME DirInv, NEW C, NEW E, \A c, e \in C : c = e, Detaches(C, E), Detach(C, E),
         open' \subseteq open
  PROVE  HostsRight'
  <1> DEFINE D == Detached(dir, C)
  <1>0. /\ Well(dir) /\ HostsRight /\ C \subseteq dir.entries /\ dir'.ready = dir.ready \ C
        /\ dir.ready \subseteq Conn
    BY DEF DirInv, Detaches, Swaps, Well, Formed
  <1>1. D.ready = dir.ready \ C
    BY <1>0, DetachedWell
  <1> HIDE DEF D
  <1>2. CASE C \cap dir.ready \cap Hosting = {}
    <2>1. hostsTold' = hostsTold
      BY <1>2 DEF Detach
    <2>2. ASSUME NEW c \in dir'.ready \cap open'
          PROVE  /\ ReadyHosts(dir, Account(c))' \subseteq hostsTold'[c]
                 /\ hostsTold'[c] \subseteq
                      {DeviceOf(h) : h \in {e \in dir'.ready \cap Hosting : Account(e) = Account(c)}}
      <3>1. /\ ReadyHosts(dir, Account(c)) \subseteq hostsTold[c]
            /\ hostsTold[c] \subseteq
                 {DeviceOf(h) : h \in {e \in dir.ready \cap Hosting : Account(e) = Account(c)}}
        BY <1>0 DEF HostsRight, HostsKnown
      <3>2. dir'.ready \cap Hosting = dir.ready \cap Hosting
        BY <1>0, <1>2
      <3>3. ReadyHosts(dir, Account(c))' \subseteq ReadyHosts(dir, Account(c))
        BY <3>2 DEF ReadyHosts
      <3> QED BY <2>1, <3>1, <3>2, <3>3
    <2> QED BY <1>0, <2>1, <2>2 DEF HostsRight, HostsKnown
  <1>3. CASE C \cap dir.ready \cap Hosting # {}
    <2>1. PICK g \in C : TellHosts(D, Account(g), Conn)
      BY <1>3 DEF Detach, D
    <2> DEFINE a == Account(g)
    <2>2. hostsTold' = [c \in Conn |-> IF c \in D.ready \cap Conn \cap open /\ Account(c) = a
                                       THEN ReadyHosts(D, a) ELSE hostsTold[c]]
      BY <2>1 DEF TellHosts
    <2>3. ReadyHosts(D, a) = {DeviceOf(h) : h \in {e \in dir'.ready \cap Hosting \cap open : Account(e) = a}}
      BY <1>0, <1>1 DEF ReadyHosts
    <2>4. hostsTold' \in [Conn -> SUBSET Device]
      <3>1. ReadyHosts(D, a) \subseteq Device
        BY <1>0, <2>3, DirectoryAssumption
      <3> QED BY <1>0, <2>2, <3>1 DEF HostsRight
    <2>5. ASSUME NEW c \in dir'.ready \cap open'
          PROVE  /\ ReadyHosts(dir, Account(c))' \subseteq hostsTold'[c]
                 /\ hostsTold'[c] \subseteq
                      {DeviceOf(h) : h \in {e \in dir'.ready \cap Hosting : Account(e) = Account(c)}}
      <3>0. c \in Conn /\ c \in D.ready /\ c \in dir.ready /\ c \in open
        BY <1>0, <1>1
      <3>1. CASE Account(c) = a
        <4>1. hostsTold'[c] = ReadyHosts(D, a)
          BY <2>2, <3>0, <3>1
        <4>2. ReadyHosts(dir, a)' \subseteq ReadyHosts(D, a)
          BY <2>3 DEF ReadyHosts
        <4> QED BY <2>3, <3>1, <4>1, <4>2
      <3>2. CASE Account(c) # a
        <4>1. hostsTold'[c] = hostsTold[c]
          BY <2>2, <3>0, <3>2
        <4>2. {e \in dir'.ready \cap Hosting : Account(e) = Account(c)}
                = {e \in dir.ready \cap Hosting : Account(e) = Account(c)}
          BY <1>0, <3>2
        <4>3. ReadyHosts(dir, Account(c))' \subseteq ReadyHosts(dir, Account(c))
          BY <1>0 DEF ReadyHosts
        <4>4. /\ ReadyHosts(dir, Account(c)) \subseteq hostsTold[c]
              /\ hostsTold[c] \subseteq
                   {DeviceOf(h) : h \in {e \in dir.ready \cap Hosting : Account(e) = Account(c)}}
          BY <1>0, <3>0 DEF HostsRight, HostsKnown
        <4> QED BY <4>1, <4>2, <4>3, <4>4
      <3> QED BY <3>1, <3>2
    <2> QED BY <2>4, <2>5 DEF HostsRight, HostsKnown
  <1> QED BY <1>2, <1>3

LEMMA DetachPresence ==
  ASSUME DirInv, NEW C, NEW E, Detaches(C, E), open' \subseteq open,
         UNCHANGED <<told, announcing, load, ended, lapsed>>
  PROVE  PresenceRight'
  <1>1. /\ \A s \in Terminal : dir'.hosted[s] = dir.hosted[s] \ C
        /\ \A s \in Terminal : dir.hosted[s] \cap C = {} => dir'.status[s] = dir.status[s]
        /\ waiting' = waiting \cup {s \in {t \in Terminal : dir.hosted[t] \cap C # {}} : "presence" \in load}
    BY DEF Detaches, Swaps, Changing
  <1>2. \A s \in Terminal :
          \/ /\ dir'.hosted[s] = dir.hosted[s] /\ dir'.status[s] = dir.status[s]
             /\ open' \cap dir.hosted[s] \subseteq open
          \/ s \in waiting' \/ "presence" \notin load
    BY <1>1
  <1>3. waiting \subseteq waiting'
    BY <1>1
  <1> QED BY <1>2, <1>3, PresenceStep DEF DirInv

LEMMA DetachHidden ==
  ASSUME DirInv, NEW C, NEW E, Detaches(C, E), open' \subseteq open,
         UNCHANGED <<hidden, hide, lapsed>>,
         \A c \in dir.entries \ C : pc'[c] = pc[c] /\ arg'[c] = arg[c]
  PROVE  HiddenRight'
  <1>1. \A s \in Terminal : dir'.hosted[s] = dir.hosted[s] \ C
    BY DEF Detaches, Swaps
  <1>2. \A s \in Terminal : dir.hosted[s] \subseteq dir.entries /\ \A c, e \in dir.hosted[s] : c = e
    BY DEF DirInv, Well, Hosts
  <1>3. \A s \in Terminal : \/ dir'.hosted[s] \cap open' = {}
                            \/ /\ dir'.hosted[s] = dir.hosted[s] /\ open' \cap dir.hosted[s] \subseteq open
                               /\ \A c \in dir.hosted[s] : pc[c] \in {"showing", "shown"} =>
                                    pc'[c] \in {"showing", "shown"} /\ arg'[c] = arg[c]
    <2> SUFFICES ASSUME NEW s \in Terminal, dir'.hosted[s] \cap open' # {}
                 PROVE  /\ dir'.hosted[s] = dir.hosted[s] /\ open' \cap dir.hosted[s] \subseteq open
                        /\ \A c \in dir.hosted[s] : pc'[c] = pc[c] /\ arg'[c] = arg[c]
      OBVIOUS
    <2>1. dir.hosted[s] \cap C = {} /\ dir.hosted[s] \subseteq dir.entries \ C
      BY <1>1, <1>2
    <2>2. dir'.hosted[s] = dir.hosted[s]
      BY <1>1, <2>1
    <2> QED BY <2>1, <2>2
  <1> QED BY <1>3, HiddenStep DEF DirInv

\* A task that detaches leaves the task of every connection where it is.
LEMMA DetachKeeps ==
  ASSUME DirInv, NEW C, C \subseteq dir.entries, \A c, e \in C : c = e, Detach(C, {}),
         UNCHANGED <<open, pc, arg, hostSees, viewSees, told, announcing, load, accessVars, hidden, hide, lapsed>>
  PROVE  /\ Well(dir') /\ TasksRight' /\ EndsRight' /\ HostsRight' /\ PresenceRight' /\ HiddenRight'
         /\ dir'.entries = dir.entries \ C /\ dir'.pipes \subseteq dir.pipes
         /\ dir.pipes \subseteq PipeRecord
  <1> DEFINE E == {}
  <1>1. Well(dir) /\ Detaches(C, E) /\ Detach(C, E)
    BY OnlyDetaches DEF DirInv
  <1>2. Well(dir') /\ dir'.entries = dir.entries \ C /\ dir'.pipes \subseteq dir.pipes
    BY <1>1 DEF Detaches, Swaps
  <1> HIDE DEF E
  <1>3. TasksRight'
    BY <1>2, TasksQuiet DEF DirInv
  <1>4. EndsRight'
    BY <1>1, DetachEnds
  <1>5. HostsRight'
    BY <1>1, DetachHosts
  <1>6. PresenceRight'
    BY <1>1, DetachPresence DEF accessVars
  <1>7. HiddenRight'
    BY <1>1, DetachHidden
  <1> QED BY <1>1, <1>2, <1>3, <1>4, <1>5, <1>6, <1>7 DEF Well, Formed


-----------------------------------------------------------------------------
(***************************************************************************)
(* Every action keeps the invariant.                                       *)
(***************************************************************************)

LEMMA HelloKeeps ==
  ASSUME DirInv, NEW c \in Conn, Hello(c)
  PROVE  DirInv'
  <1> USE DEF DirInv
  <1>0. /\ pc[c] = "new" /\ pc' = [pc EXCEPT ![c] = "approved"] /\ open' = open \cup {c}
        /\ dir' = dir /\ arg' = arg /\ shared' = shared /\ ended' = ended /\ revoked' = revoked
        /\ hidden' = hidden /\ task' = task /\ hide' = hide /\ late' = late /\ lapsed' = lapsed
        /\ hostSees' = hostSees /\ viewSees' = viewSees /\ hostsTold' = hostsTold
        /\ waiting' = waiting /\ announcing' = announcing /\ told' = told /\ load' = load
    BY DEF Hello, accessVars, seenVars, presenceVars, announceVars
  <1>1. /\ c \notin dir.entries /\ pc'[c] = "approved" /\ \A d \in Conn \ {c} : pc'[d] = pc[d]
        /\ dir.ready \subseteq dir.entries /\ dir.entries \subseteq Conn
        /\ \A s \in Terminal : dir.hosted[s] \subseteq dir.entries
        /\ dir.pipes \subseteq PipeRecord
    BY <1>0 DEF TasksRight, Well, Formed, Hosts
  <1>2. TasksRight'
    BY <1>0, <1>1, TasksStep DEF TasksRight, Step
  <1>3. EndsRight'
    <2>1. \A i \in Pipe : hostSees[i] # c /\ viewSees[i] # c
      BY <1>0 DEF EndsRight
    <2>2. \A i \in Pipe, d \in open' :
            \/ Abort(d) \in late'
            \/ Closed(i, d) \in late'
            \/ \E p \in dir'.pipes : p.id = i
            \/ /\ hostSees'[i] # d
               /\ viewSees'[i] = d => pc'[d] = "opening" /\ arg'[d].pipe = i
      BY <1>0, <1>1, <2>1 DEF EndsRight, TasksRight
    <2>3. \A d \in Conn : pc'[d] \in {"new", "opening", "checking"} => pc'[d] = pc[d]
      BY <1>1
    <2> QED BY <1>0, <2>2, <2>3 DEF EndsRight
  <1>4. AccessRight'
    BY <1>0, <1>1, AccessStep
  <1>5. RevokedRight'
    BY <1>0, <1>1, RevokedStep
  <1>6. HostsRight'
    BY <1>0, <1>1, HostsStep
  <1>7. PresenceRight'
    <2>1. \A s \in Terminal : open' \cap dir.hosted[s] \subseteq open
      BY <1>0, <1>1
    <2> QED BY <1>0, <2>1, PresenceStep
  <1>8. HiddenRight'
    <2>1. \A s \in Terminal : open' \cap dir.hosted[s] \subseteq open
      BY <1>0, <1>1
    <2>2. \A s \in Terminal : \A d \in dir.hosted[s] : pc'[d] = pc[d]
      BY <1>1
    <2> QED BY <1>0, <2>1, <2>2, HiddenStep
  <1> QED BY <1>0, <1>2, <1>3, <1>4, <1>5, <1>6, <1>7, <1>8

\* A step of a task that only moves the task on, from one place between its
\* messages to another.
Still(c, x) ==
  /\ pc' = [pc EXCEPT ![c] = x]
  /\ UNCHANGED <<dir, open, accessVars, task, late, seenVars, presenceVars, load>>

LEMMA StillKeeps ==
  ASSUME DirInv, NEW c \in Conn, NEW x \in Step \ {"new", "approved", "ended", "opening", "checking"},
         Still(c, x), pc[c] \notin {"new", "approved", "ended", "opening", "checking"},
         DOMAIN arg' = Conn, \A d \in Conn \ {c} : arg'[d] = arg[d], lapsed \subseteq lapsed',
         x \in {"hosting", "showing", "shown"} =>
           arg'[c].session \in Terminal /\ DeviceOf(c) = HostDevice(arg'[c].session)
  PROVE  /\ Well(dir') /\ TasksRight' /\ EndsRight' /\ AccessRight' /\ HostsRight' /\ PresenceRight'
         /\ pc'[c] = x /\ \A d \in Conn \ {c} : pc'[d] = pc[d]
  <1> USE DEF DirInv
  <1>0. /\ pc' = [pc EXCEPT ![c] = x] /\ open' = open
        /\ dir' = dir /\ shared' = shared /\ ended' = ended /\ revoked' = revoked
        /\ task' = task /\ late' = late
        /\ hostSees' = hostSees /\ viewSees' = viewSees /\ hostsTold' = hostsTold
        /\ waiting' = waiting /\ announcing' = announcing /\ told' = told /\ load' = load
    BY DEF Still, accessVars, seenVars, presenceVars, announceVars
  <1>1. /\ pc'[c] = x /\ \A d \in Conn \ {c} : pc'[d] = pc[d]
        /\ dir.pipes \subseteq PipeRecord
    BY <1>0 DEF TasksRight, Well, Formed
  <1>2. TasksRight'
    BY <1>0, <1>1, TasksStep
  <1>3. EndsRight'
    <2>1. \A d \in Conn :
            /\ pc'[d] \in {"new", "opening", "checking"} => pc'[d] = pc[d] /\ arg'[d] = arg[d]
            /\ pc[d] = "opening" /\ d \in open' => pc'[d] = "opening" /\ arg'[d] = arg[d]
      BY <1>1
    <2> QED BY <1>0, <2>1, EndsStep
  <1>4. AccessRight'
    BY <1>0, <1>1, AccessStep
  <1>5. HostsRight'
    BY <1>0, HostsStep
  <1>6. PresenceRight'
    BY <1>0, PresenceStep
  <1> QED BY <1>0, <1>1, <1>2, <1>3, <1>4, <1>5, <1>6

LEMMA ApprovedAgainKeeps ==
  ASSUME DirInv, NEW c \in Conn, ApprovedAgain(c)
  PROVE  DirInv'
  <1> DEFINE x == IF DeviceOf(c) \in revoked THEN "ending" ELSE "welcome"
  <1>1. /\ pc[c] = "registered" /\ Still(c, x) /\ x \in {"ending", "welcome"}
        /\ UNCHANGED <<dir, open, arg, hidden, hide, lapsed, task, revoked>>
        /\ DeviceOf(c) \in revoked => x = "ending"
    BY DEF ApprovedAgain, Still, accessVars
  <1> HIDE DEF x
  <1>2. /\ Well(dir') /\ TasksRight' /\ EndsRight' /\ AccessRight' /\ HostsRight' /\ PresenceRight'
        /\ pc'[c] = x /\ \A d \in Conn \ {c} : pc'[d] = pc[d]
    BY <1>1, StillKeeps DEF DirInv, TasksRight, Step
  <1>3. dir.entries \subseteq Conn /\ \A s \in Terminal : dir.hosted[s] \subseteq Conn
    BY DEF DirInv, Well, Formed, Hosts
  <1>4. RevokedRight'
    BY <1>1, <1>2, <1>3 DEF DirInv, RevokedRight
  <1>5. HiddenRight'
    <2>1. \A d \in Conn : pc[d] \in {"showing", "shown"} => pc'[d] = pc[d]
      BY <1>1, <1>2
    <2> QED BY <1>1, <1>3, <2>1, HiddenStep DEF DirInv
  <1> QED BY <1>2, <1>4, <1>5 DEF DirInv

LEMMA HostAskedKeeps ==
  ASSUME DirInv, NEW c \in Conn, NEW s \in Terminal, HostAsked(c, s)
  PROVE  DirInv'
  <1> DEFINE x == "hosting"
  <1>1. /\ pc[c] = "listening" /\ Still(c, x)
        /\ UNCHANGED <<dir, open, hidden, hide, lapsed, task, revoked>>
        /\ arg' = [arg EXCEPT ![c] = [session |-> s]] /\ DeviceOf(c) = HostDevice(s)
    BY DEF HostAsked, Still, accessVars
  <1>2. DOMAIN arg' = Conn /\ (\A d \in Conn \ {c} : arg'[d] = arg[d]) /\ arg'[c].session = s
    BY <1>1 DEF DirInv, TasksRight
  <1>3. /\ Well(dir') /\ TasksRight' /\ EndsRight' /\ AccessRight' /\ HostsRight' /\ PresenceRight'
        /\ pc'[c] = x /\ \A d \in Conn \ {c} : pc'[d] = pc[d]
    BY <1>1, <1>2, StillKeeps DEF DirInv, TasksRight, Step
  <1>4. dir.entries \subseteq Conn /\ \A t \in Terminal : dir.hosted[t] \subseteq Conn
    BY DEF DirInv, Well, Formed, Hosts
  <1>5. RevokedRight'
    BY <1>1, <1>3, <1>4, RevokedStep DEF DirInv
  <1>6. HiddenRight'
    <2>1. \A d \in Conn : pc[d] \in {"showing", "shown"} => pc'[d] = pc[d] /\ arg'[d] = arg[d]
      BY <1>1, <1>2, <1>3
    <2> QED BY <1>1, <1>4, <2>1, HiddenStep DEF DirInv
  <1> QED BY <1>3, <1>5, <1>6 DEF DirInv


\* The two steps of ShowAgainAsync: only the session that the connection
\* shows again loses its witness, and it is not hidden then.
LEMMA ShowingKeeps ==
  ASSUME DirInv, NEW c \in Conn, NEW x \in {"shown", "listening"}, Still(c, x),
         pc[c] \in {"showing", "shown"}, UNCHANGED <<arg, hide>>,
         lapsed \subseteq lapsed', hidden' \subseteq hidden,
         \/ x = "shown"
         \/ arg[c].session \notin hidden'
         \/ "show" \in lapsed'
  PROVE  DirInv'
  <1>0. UNCHANGED <<dir, open, task, revoked>> /\ c \in Conn
    BY DEF Still, accessVars
  <1>1. DOMAIN arg' = Conn /\ arg[c].session \in Terminal /\ DeviceOf(c) = HostDevice(arg[c].session)
    BY DEF DirInv, TasksRight
  <1>2. /\ Well(dir') /\ TasksRight' /\ EndsRight' /\ AccessRight' /\ HostsRight' /\ PresenceRight'
        /\ pc'[c] = x /\ \A d \in Conn \ {c} : pc'[d] = pc[d]
    BY <1>1, StillKeeps DEF Step
  <1>3. dir.entries \subseteq Conn /\ \A t \in Terminal : dir.hosted[t] \subseteq Conn
    BY DEF DirInv, Well, Formed, Hosts
  <1>4. RevokedRight'
    BY <1>0, <1>2, <1>3, RevokedStep DEF DirInv
  <1>5. ASSUME NEW s \in hidden'
        PROVE  \/ dir'.hosted[s] \cap open' = {} \/ "show" \in lapsed'
               \/ hide'.session = s /\ hide'.step \in {"check", "delete"}
               \/ \E d \in dir'.hosted[s] : pc'[d] \in {"showing", "shown"} /\ arg'[d].session = s
    <2>1. s \in hidden /\ s \in Terminal
      BY DEF DirInv, HiddenRight
    <2>2. \/ dir.hosted[s] \cap open = {} \/ "show" \in lapsed
          \/ hide.session = s /\ hide.step \in {"check", "delete"}
          \/ \E d \in dir.hosted[s] : pc[d] \in {"showing", "shown"} /\ arg[d].session = s
      BY <2>1 DEF DirInv, HiddenRight
    <2>3. ASSUME NEW d \in dir.hosted[s], pc[d] \in {"showing", "shown"}, arg[d].session = s
          PROVE  pc'[d] \in {"showing", "shown"} \/ "show" \in lapsed'
      <3>1. d \in Conn
        BY <1>3, <2>1
      <3> QED BY <1>2, <2>3, <3>1
    <2> QED BY <1>0, <2>2, <2>3
  <1>6. HiddenRight'
    BY <1>5 DEF DirInv, HiddenRight
  <1> QED BY <1>2, <1>4, <1>6 DEF DirInv

LEMMA ShowAgainKeeps ==
  ASSUME DirInv, NEW c \in Conn, ShowAgain(c) \/ Shown(c)
  PROVE  DirInv'
  <1>1. CASE ShowAgain(c)
    <2>1. /\ pc[c] = "showing" /\ UNCHANGED <<arg, hide, hidden>>
          /\ UNCHANGED <<dir, open, accessVars, task, late, seenVars, presenceVars, load>>
      BY <1>1 DEF ShowAgain
    <2>2. \/ arg[c].session \in hidden /\ pc' = [pc EXCEPT ![c] = "shown"] /\ lapsed' = lapsed
          \/ arg[c].session \notin hidden /\ pc' = [pc EXCEPT ![c] = "listening"] /\ lapsed' = lapsed
          \/ pc' = [pc EXCEPT ![c] = "listening"] /\ lapsed' = lapsed \cup {"show"}
      BY <1>1 DEF ShowAgain
    <2>3. CASE pc' = [pc EXCEPT ![c] = "shown"] /\ lapsed' = lapsed
      <3>1. Still(c, "shown") /\ "shown" \in {"shown", "listening"}
        BY <2>1, <2>3 DEF Still
      <3> QED BY <2>1, <2>3, <3>1, ShowingKeeps
    <2>4. CASE /\ pc' = [pc EXCEPT ![c] = "listening"]
               /\ \/ arg[c].session \notin hidden /\ lapsed' = lapsed
                  \/ lapsed' = lapsed \cup {"show"}
      <3>1. Still(c, "listening") /\ "listening" \in {"shown", "listening"}
        BY <2>1, <2>4 DEF Still
      <3> QED BY <2>1, <2>4, <3>1, ShowingKeeps
    <2> QED BY <2>2, <2>3, <2>4
  <1>2. CASE Shown(c)
    <2>1. /\ pc[c] = "shown" /\ UNCHANGED <<arg, hide, lapsed>>
          /\ hidden' = hidden \ {arg[c].session} /\ Still(c, "listening")
          /\ "listening" \in {"shown", "listening"}
      BY <1>2 DEF Shown, Still
    <2> QED BY <2>1, ShowingKeeps
  <1> QED BY <1>1, <1>2

\* A connection closes, whoever closes it.
LEMMA BreakKeeps ==
  ASSUME DirInv, NEW c \in Conn, Break(c)
  PROVE  DirInv'
  <1> USE DEF DirInv
  <1>0. /\ open' = open \ {c} /\ pc' = pc
        /\ dir' = dir /\ arg' = arg /\ shared' = shared /\ ended' = ended /\ revoked' = revoked
        /\ hidden' = hidden /\ task' = task /\ hide' = hide /\ late' = late /\ lapsed' = lapsed
        /\ hostSees' = hostSees /\ viewSees' = viewSees /\ hostsTold' = hostsTold
        /\ waiting' = waiting /\ announcing' = announcing /\ told' = told /\ load' = load
    BY DEF Break, accessVars, seenVars, presenceVars, announceVars
  <1>1. dir.pipes \subseteq PipeRecord
    BY DEF Well, Formed
  <1>2. TasksRight'
    BY <1>0, TasksQuiet
  <1>3. EndsRight'
    BY <1>0, EndsStep
  <1>4. AccessRight'
    BY <1>0, <1>1, AccessStep
  <1>5. RevokedRight'
    BY <1>0, RevokedStep
  <1>6. HostsRight'
    BY <1>0, HostsStep
  <1>7. PresenceRight'
    BY <1>0, PresenceStep
  <1>8. HiddenRight'
    BY <1>0, HiddenStep
  <1> QED BY <1>0, <1>2, <1>3, <1>4, <1>5, <1>6, <1>7, <1>8

LEMMA RegisterKeeps ==
  ASSUME DirInv, NEW c \in Conn, Register(c)
  PROVE  DirInv'
  <1> USE DEF DirInv
  <1> DEFINE C == EntryOf(DeviceOf(c))
             E == {c}
  <1>0. /\ pc[c] = "approved" /\ open' = open
        /\ arg' = arg /\ shared' = shared /\ ended' = ended /\ revoked' = revoked
        /\ hidden' = hidden /\ task' = task /\ hide' = hide /\ lapsed' = lapsed
        /\ hostSees' = hostSees /\ viewSees' = viewSees
        /\ announcing' = announcing /\ told' = told /\ load' = load
    BY DEF Register, accessVars, announceVars
  <1>1. c \notin dir.entries /\ dir.pipes \subseteq PipeRecord /\ dir.entries \subseteq Conn
    BY <1>0 DEF TasksRight, Well, Formed
  <1>2. CASE pc' = [pc EXCEPT ![c] = "ending"] /\ UNCHANGED <<dir, late, hostsTold, waiting>>
    <2>0. pc'[c] = "ending" /\ (\A d \in Conn \ {c} : pc'[d] = pc[d])
      BY <1>2 DEF TasksRight
    <2>1. TasksRight'
      BY <1>0, <1>1, <1>2, TasksStep DEF TasksRight, Step
    <2>2. EndsRight'
      BY <1>0, <1>2, <2>0, EndsStep
    <2>3. AccessRight'
      BY <1>0, <1>1, <1>2, <2>0, AccessStep
    <2>4. RevokedRight'
      BY <1>0, <1>1, <1>2, <2>0, RevokedStep
    <2>5. HostsRight'
      BY <1>0, <1>2, HostsStep
    <2>6. PresenceRight'
      BY <1>0, <1>2, PresenceStep
    <2>7. HiddenRight'
      <3>1. \A s \in Terminal : dir.hosted[s] \subseteq Conn \ {c}
        BY <1>1 DEF Well, Hosts
      <3>2. \A s \in Terminal : \A d \in dir.hosted[s] : pc'[d] = pc[d]
        BY <2>0, <3>1
      <3> QED BY <1>0, <1>2, <3>2, HiddenStep
    <2> QED BY <1>2, <2>1, <2>2, <2>3, <2>4, <2>5, <2>6, <2>7
  <1>3. CASE pc' = [pc EXCEPT ![c] = "registered"] /\ Detach(C, E)
    <2>0. pc'[c] = "registered" /\ (\A d \in Conn \ {c} : pc'[d] = pc[d])
      BY <1>3 DEF TasksRight
    <2>1. Detaches(C, E)
      BY <1>3, RegisterDetaches
    <2>2. \A d, e \in C : d = e
      BY DEF EntryOf, Well, Hosts
    <2>3. c \in E /\ E \subseteq {c}
      OBVIOUS
    <2> HIDE DEF C, E
    <2>4. /\ Well(dir') /\ dir'.entries = (dir.entries \ C) \cup E /\ dir'.pipes \subseteq dir.pipes
      BY <2>1 DEF Detaches, Swaps
    <2>5. TasksRight'
      BY <1>0, <1>3, <2>3, <2>4, TasksStep DEF TasksRight, Step
    <2>6. EndsRight'
      BY <1>0, <2>0, <2>1, DetachEnds
    <2>7. AccessRight'
      BY <1>0, <1>1, <2>0, <2>4, AccessStep
    <2>8. RevokedRight'
      <3> SUFFICES ASSUME NEW d \in dir'.entries, DeviceOf(d) \in revoked'
                   PROVE  \/ pc'[d] \in {"registered", "ending"}
                          \/ \E t \in Task : task'[t].step = "device" /\ task'[t].gone = {DeviceOf(d)}
        BY DEF RevokedRight
      <3>1. CASE d = c
        BY <2>0, <3>1
      <3>2. CASE d # c
        <4>1. d \in dir.entries /\ pc'[d] = pc[d]
          BY <1>1, <2>0, <2>3, <2>4, <3>2
        <4> QED BY <1>0, <4>1 DEF RevokedRight
      <3> QED BY <3>1, <3>2
    <2>9. HostsRight'
      BY <1>0, <1>3, <2>1, <2>2, DetachHosts
    <2>10. PresenceRight'
      BY <1>0, <2>1, DetachPresence
    <2>11. HiddenRight'
      <3>1. \A d \in dir.entries \ C : pc'[d] = pc[d] /\ arg'[d] = arg[d]
        BY <1>0, <1>1, <2>0
      <3> QED BY <1>0, <2>1, <3>1, DetachHidden
    <2> QED BY <2>4, <2>5, <2>6, <2>7, <2>8, <2>9, <2>10, <2>11
  <1> QED BY <1>2, <1>3 DEF Register


LEMMA ReadyKeeps ==
  ASSUME DirInv, NEW c \in Conn, Ready(c)
  PROVE  DirInv'
  <1> USE DEF DirInv
  <1> DEFINE C == {c} \cap dir.entries
             only == IF c \in Hosting THEN Conn ELSE {c}
             a == Account(c)
  <1>0. /\ pc[c] = "welcome" /\ open' = open /\ pc' = [pc EXCEPT ![c] = "listening"]
        /\ arg' = arg /\ shared' = shared /\ ended' = ended /\ revoked' = revoked
        /\ hidden' = hidden /\ task' = task /\ hide' = hide /\ late' = late /\ lapsed' = lapsed
        /\ hostSees' = hostSees /\ viewSees' = viewSees
        /\ waiting' = waiting /\ announcing' = announcing /\ told' = told /\ load' = load
        /\ dir' = [dir EXCEPT !.ready = @ \cup C]
        /\ c \in dir.entries => TellHosts(dir', a, only)
        /\ c \notin dir.entries => hostsTold' = hostsTold
    BY DEF Ready, accessVars, presenceVars, announceVars
  <1>1. dir.pipes \subseteq PipeRecord /\ dir.entries \subseteq Conn /\ dir.ready \subseteq Conn
    BY DEF Well, Formed
  <1>2. C \subseteq dir.entries /\ C \subseteq {c}
    OBVIOUS
  <1>3. pc'[c] = "listening" /\ (\A d \in Conn \ {c} : pc'[d] = pc[d])
    BY <1>0 DEF TasksRight
  <1> HIDE DEF only
  <1>4. /\ Well(dir') /\ dir'.entries = dir.entries /\ dir'.ready = dir.ready \cup C
        /\ dir'.hosted = dir.hosted /\ dir'.status = dir.status /\ dir'.pipes = dir.pipes
    <2> HIDE DEF C
    <2> QED BY <1>0, <1>2, ReadyWell
  <1>5. TasksRight'
    BY <1>0, <1>4, TasksStep DEF TasksRight, Step
  <1>6. EndsRight'
    BY <1>0, <1>3, <1>4, EndsStep
  <1>7. AccessRight'
    BY <1>0, <1>1, <1>3, <1>4, AccessStep
  <1>8. RevokedRight'
    BY <1>0, <1>1, <1>3, <1>4, RevokedStep
  <1>9. HostsRight'
    <2>1. CASE c \notin dir.entries
      <3>1. dir'.ready = dir.ready /\ hostsTold' = hostsTold
        BY <1>0, <1>4, <2>1
      <3> QED BY <1>0, <3>1, HostsStep
    <2>2. CASE c \in dir.entries
      <3>1. dir'.ready = dir.ready \cup {c}
        BY <1>4, <2>2
      <3>2. hostsTold' = [d \in Conn |-> IF d \in dir'.ready \cap only \cap open /\ Account(d) = a
                                         THEN ReadyHosts(dir', a) ELSE hostsTold[d]]
        BY <1>0, <2>2 DEF TellHosts
      <3>3. ReadyHosts(dir', a) = {DeviceOf(h) : h \in {e \in dir'.ready \cap Hosting \cap open : Account(e) = a}}
        BY DEF ReadyHosts
      <3>4. hostsTold' \in [Conn -> SUBSET Device]
        <4>1. ReadyHosts(dir', a) \subseteq Device
          BY <1>1, <3>1, <3>3, DirectoryAssumption
        <4> QED BY <3>2, <4>1 DEF HostsRight
      <3>5. ASSUME NEW d \in dir'.ready \cap open'
            PROVE  /\ ReadyHosts(dir, Account(d))' \subseteq hostsTold'[d]
                   /\ hostsTold'[d] \subseteq
                        {DeviceOf(h) : h \in {e \in dir'.ready \cap Hosting : Account(e) = Account(d)}}
        <4>0. d \in Conn /\ d \in open
          BY <1>0, <1>1, <3>1
        <4>1. CASE d \in only /\ Account(d) = a
          <5>1. hostsTold'[d] = ReadyHosts(dir', a)
            BY <3>2, <4>0, <4>1
          <5>2. ReadyHosts(dir, Account(d))' = ReadyHosts(dir', a)
            BY <1>0, <4>1 DEF ReadyHosts
          <5> QED BY <3>3, <4>1, <5>1, <5>2
        <4>2. CASE ~(d \in only /\ Account(d) = a)
          <5>1. hostsTold'[d] = hostsTold[d]
            BY <3>2, <4>0, <4>2
          <5>2. d # c /\ d \in dir.ready
            <6>1. c \in only
              BY DEF only
            <6> QED BY <3>1, <4>2, <6>1
          <5>3. {e \in dir'.ready \cap Hosting : Account(e) = Account(d)}
                  = {e \in dir.ready \cap Hosting : Account(e) = Account(d)}
            <6>1. c \in Hosting => Account(d) # a
              BY <4>0, <4>2 DEF only
            <6> QED BY <3>1, <6>1
          <5>4. ReadyHosts(dir, Account(d))' = ReadyHosts(dir, Account(d))
            BY <1>0, <5>3 DEF ReadyHosts
          <5>5. /\ ReadyHosts(dir, Account(d)) \subseteq hostsTold[d]
                /\ hostsTold[d] \subseteq
                     {DeviceOf(h) : h \in {e \in dir.ready \cap Hosting : Account(e) = Account(d)}}
            BY <4>0, <5>2 DEF HostsRight, HostsKnown
          <5> QED BY <5>1, <5>3, <5>4, <5>5
        <4> QED BY <4>1, <4>2
      <3> QED BY <3>4, <3>5 DEF HostsRight, HostsKnown
    <2> QED BY <2>1, <2>2
  <1>10. PresenceRight'
    BY <1>0, <1>4, PresenceStep
  <1>11. HiddenRight'
    <2>1. \A s \in Terminal : dir.hosted[s] \subseteq Conn
      BY <1>1 DEF Well, Hosts
    <2>2. \A s \in Terminal : \A d \in dir.hosted[s] : pc[d] \in {"showing", "shown"} => pc'[d] = pc[d]
      BY <1>0, <1>3, <2>1
    <2> QED BY <1>0, <1>4, <2>2, HiddenStep
  <1> QED BY <1>4, <1>5, <1>6, <1>7, <1>8, <1>9, <1>10, <1>11

LEMMA RemoveKeeps ==
  ASSUME DirInv, NEW c \in Conn, Remove(c)
  PROVE  DirInv'
  <1> USE DEF DirInv
  <1> DEFINE C == {c} \cap dir.entries
             E == {}
  <1>0. /\ pc[c] \notin {"new", "approved", "checking", "ended"} /\ open' = open \ {c}
        /\ pc' = [pc EXCEPT ![c] = "ended"]
        /\ arg' = arg /\ shared' = shared /\ ended' = ended /\ revoked' = revoked
        /\ hidden' = hidden /\ task' = task /\ hide' = hide /\ lapsed' = lapsed
        /\ hostSees' = hostSees /\ viewSees' = viewSees
        /\ announcing' = announcing /\ told' = told /\ load' = load
        /\ Detach(C, E)
    BY DEF Remove, accessVars, announceVars
  <1>1. /\ dir.pipes \subseteq PipeRecord /\ dir.entries \subseteq Conn
        /\ C \subseteq dir.entries /\ (\A d, e \in C : d = e) /\ (c \in dir.entries => c \in C)
    BY DEF Well, Formed
  <1>2. pc'[c] = "ended" /\ (\A d \in Conn \ {c} : pc'[d] = pc[d])
    BY <1>0 DEF TasksRight
  <1> HIDE DEF C
  <1>3. Detaches(C, E)
    BY <1>0, <1>1, OnlyDetaches
  <1>4. /\ Well(dir') /\ dir'.entries = dir.entries \ C /\ dir'.pipes \subseteq dir.pipes
    BY <1>3 DEF Detaches, Swaps
  <1> HIDE DEF E
  <1>5. TasksRight'
    BY <1>0, <1>1, <1>4, TasksStep DEF TasksRight, Step
  <1>6. EndsRight'
    BY <1>0, <1>2, <1>3, DetachEnds
  <1>7. AccessRight'
    BY <1>0, <1>1, <1>2, <1>4, AccessStep
  <1>8. RevokedRight'
    <2>1. \A d \in dir'.entries : pc'[d] = pc[d]
      BY <1>1, <1>2, <1>4
    <2> QED BY <1>0, <1>4, <2>1, RevokedStep
  <1>9. HostsRight'
    BY <1>0, <1>1, <1>3, DetachHosts
  <1>10. PresenceRight'
    BY <1>0, <1>3, DetachPresence
  <1>11. HiddenRight'
    <2>1. \A d \in dir.entries \ C : pc'[d] = pc[d] /\ arg'[d] = arg[d]
      BY <1>0, <1>1, <1>2
    <2> QED BY <1>0, <1>3, <2>1, DetachHidden
  <1> QED BY <1>4, <1>5, <1>6, <1>7, <1>8, <1>9, <1>10, <1>11

LEMMA MaintainKeeps ==
  ASSUME DirInv, NEW d \in Device, Maintain(d)
  PROVE  DirInv'
  <1> DEFINE C == EntryOf(d)
  <1>0. /\ UNCHANGED <<open, pc, arg, hostSees, viewSees, told, announcing, load, accessVars, hidden, hide, lapsed>>
        /\ Detach(C, {}) /\ task' = task
    BY DEF Maintain, announceVars
  <1>1. C \subseteq dir.entries /\ \A c, e \in C : c = e
    BY DEF EntryOf, DirInv, Well, Hosts
  <1> HIDE DEF C
  <1>2. /\ Well(dir') /\ TasksRight' /\ EndsRight' /\ HostsRight' /\ PresenceRight' /\ HiddenRight'
        /\ dir'.entries = dir.entries \ C /\ dir'.pipes \subseteq dir.pipes
        /\ dir.pipes \subseteq PipeRecord
    BY <1>0, <1>1, DetachKeeps
  <1>3. AccessRight'
    BY <1>0, <1>2, AccessStep DEF DirInv, accessVars
  <1>4. RevokedRight'
    BY <1>0, <1>2, RevokedStep DEF DirInv, accessVars
  <1> QED BY <1>2, <1>3, <1>4 DEF DirInv

LEMMA RemoveDeviceKeeps ==
  ASSUME DirInv, NEW t \in Task, RemoveDevice(t)
  PROVE  DirInv'
  <1>0. /\ UNCHANGED <<open, pc, arg, hostSees, viewSees, told, announcing, load, accessVars, hidden, hide, lapsed>>
        /\ task[t].step = "device" /\ task' = [task EXCEPT ![t].step = "removing"]
    BY DEF RemoveDevice, announceVars
  <1>1. PICK d \in task[t].gone : Detach(EntryOf(d), {})
    BY DEF RemoveDevice
  <1> DEFINE C == EntryOf(d)
  <1>2. C \subseteq dir.entries /\ (\A c, e \in C : c = e) /\ \A c \in dir.entries \ C : DeviceOf(c) # d
    BY DEF EntryOf, DirInv, Well, Hosts
  <1>3. Detach(C, {})
    BY <1>1
  <1> HIDE DEF C
  <1>4. /\ Well(dir') /\ TasksRight' /\ EndsRight' /\ HostsRight' /\ PresenceRight' /\ HiddenRight'
        /\ dir'.entries = dir.entries \ C /\ dir'.pipes \subseteq dir.pipes
        /\ dir.pipes \subseteq PipeRecord
    BY <1>0, <1>2, <1>3, DetachKeeps
  <1>5. /\ DOMAIN task' = Task /\ \A u \in Task \ {t} : task'[u] = task[u]
        /\ DOMAIN task'[t] = DOMAIN task[t] /\ task'[t].step = "removing"
        /\ task'[t].over = task[t].over /\ task'[t].live = task[t].live
        /\ task'[t].allowed = task[t].allowed
    BY <1>0 DEF DirInv, AccessRight, RequestsFormed
  <1>6. AccessRight'
    <2>1. RequestsFormed'
      BY <1>0, <1>5 DEF DirInv, AccessRight, RequestsFormed, accessVars, TaskSteps
    <2>2. ASSUME NEW p \in dir'.pipes
          PROVE  \/ p.session = None \/ "revoke" \in lapsed'
                 \/ pc'[p.viewer] = "checking" /\ arg'[p.viewer].pipe = p.id
                 \/ /\ p.session \in ended' => \E u \in Task : p.session \in task'[u].over
                    /\ Account(p.viewer) \notin People(p.session)' => \E u \in Task : WillRevoke(u, p)'
      <3>1. \/ p.session = None \/ "revoke" \in lapsed
            \/ pc[p.viewer] = "checking" /\ arg[p.viewer].pipe = p.id
            \/ /\ p.session \in ended => \E u \in Task : p.session \in task[u].over
               /\ Account(p.viewer) \notin People(p.session) => \E u \in Task : WillRevoke(u, p)
        BY <1>4 DEF DirInv, AccessRight
      <3>2. \A u \in Task : p.session \in task[u].over => p.session \in task'[u].over
        BY <1>5
      <3>3. \A u \in Task : WillRevoke(u, p) => WillRevoke(u, p)'
        BY <1>5 DEF WillRevoke
      <3> QED BY <1>0, <3>1, <3>2, <3>3 DEF accessVars, People
    <2> QED BY <2>1, <2>2 DEF AccessRight
  <1>7. RevokedRight'
    <2> SUFFICES ASSUME NEW c \in dir'.entries, DeviceOf(c) \in revoked'
                 PROVE  \/ pc'[c] \in {"registered", "ending"}
                        \/ \E u \in Task : task'[u].step = "device" /\ task'[u].gone = {DeviceOf(c)}
      BY DEF RevokedRight
    <2>1. c \in dir.entries /\ DeviceOf(c) # d /\ DeviceOf(c) \in revoked
      BY <1>0, <1>2, <1>4 DEF accessVars
    <2>2. \A u \in Task : task[u].step = "device" /\ task[u].gone = {DeviceOf(c)} => u # t
      BY <1>1, <2>1
    <2> QED BY <1>0, <1>5, <2>1, <2>2 DEF DirInv, RevokedRight
  <1> QED BY <1>4, <1>6, <1>7 DEF DirInv


\* The notices of closed pipes.
LEMMA ClosingIs ==
  ASSUME NEW P, NEW silent, NEW m
  PROVE  m \in Closing(P, silent) <=>
           \/ \E p \in P : p.viewer \notin silent /\ m = Closed(p.id, p.viewer)
           \/ \E p \in P : p.host \notin silent /\ m = Closed(p.id, p.host)
  BY DEF Closing

\* Pipes end, and both ends of each will be told.
LEMMA CutKeeps ==
  ASSUME DirInv, NEW P, P \subseteq dir.pipes, dir'.pipes = dir.pipes \ P, Well(dir'),
         dir'.entries = dir.entries, dir'.ready = dir.ready, late' = late \cup Closing(P, {}),
         UNCHANGED <<open, pc, arg, hostSees, viewSees, hostsTold>>
  PROVE  TasksRight' /\ EndsRight' /\ HostsRight' /\ dir.pipes \subseteq PipeRecord
  <1> USE DEF DirInv
  <1>1. TasksRight'
    BY TasksQuiet
  <1>2. EndsRight'
    <2>1. \A m \in late' \ late :
            \E p \in dir.pipes \ dir'.pipes : m = Closed(p.id, p.viewer) \/ m = Closed(p.id, p.host)
      BY ClosingIs
    <2>2. \A p \in dir.pipes \ dir'.pipes : \A c \in {p.viewer, p.host} : Closed(p.id, c) \in late'
      BY ClosingIs
    <2>3. dir'.pipes \subseteq dir.pipes /\ late \subseteq late'
      OBVIOUS
    <2> QED BY <2>1, <2>2, <2>3, EndsStep
  <1>3. HostsRight'
    BY HostsStep
  <1> QED BY <1>1, <1>2, <1>3 DEF Well, Formed

LEMMA RelayFailsKeeps ==
  ASSUME DirInv, NEW c \in Conn, NEW i \in Pipe, RelayFails(c, i)
  PROVE  DirInv'
  <1> DEFINE P == {q \in WithIds(dir, {i}) : c \in {q.viewer, q.host}}
  <1>0. /\ UNCHANGED <<open, pc, arg, shared, ended, revoked, hidden, task, hide, hostSees, viewSees,
                       hostsTold, waiting, announcing, told, load, lapsed>>
        /\ dir' = RemovePipes(dir, P) /\ late' = late \cup Closing(P, {})
    BY DEF RelayFails, accessVars, seenVars, presenceVars, announceVars
  <1>1. P \subseteq dir.pipes
    BY DEF WithIds
  <1> HIDE DEF P
  <1>2. Cuts(P)
    BY <1>0, <1>1, CutsPipes DEF DirInv
  <1>3. /\ TasksRight' /\ EndsRight' /\ HostsRight' /\ dir.pipes \subseteq PipeRecord
    BY <1>0, <1>1, <1>2, CutKeeps DEF Cuts
  <1>4. AccessRight'
    BY <1>0, <1>2, <1>3, AccessStep DEF Cuts, DirInv
  <1>5. RevokedRight'
    BY <1>0, <1>2, RevokedStep DEF Cuts, DirInv
  <1>6. PresenceRight'
    BY <1>0, <1>2, PresenceStep DEF Cuts, DirInv
  <1>7. HiddenRight'
    BY <1>0, <1>2, HiddenStep DEF Cuts, DirInv
  <1> QED BY <1>2, <1>3, <1>4, <1>5, <1>6, <1>7 DEF DirInv, Cuts

LEMMA RevokeKeeps ==
  ASSUME DirInv, NEW t \in Task, NEW s \in Terminal, Revoke(t, s)
  PROVE  DirInv'
  <1> DEFINE P == Dropped(t, s)
  <1>0. /\ UNCHANGED <<open, pc, arg, shared, ended, revoked, hidden, hide, hostSees, viewSees,
                       hostsTold, waiting, announcing, told, load, lapsed>>
        /\ dir' = RemovePipes(dir, P) /\ late' = late \cup Closing(P, {})
        /\ task[t].step = "revoking" /\ task' = [task EXCEPT ![t].live = @ \ {s}]
    BY DEF Revoke, accessVars, seenVars, presenceVars, announceVars
  <1>1. /\ P \subseteq dir.pipes
        /\ \A p \in dir.pipes : p.session = s /\ Account(p.viewer) \notin task[t].allowed[s] => p \in P
    BY DEF Dropped, WithIds, DirInv, Well, Pipes, Ids
  <1> HIDE DEF P
  <1>2. Cuts(P)
    BY <1>0, <1>1, CutsPipes DEF DirInv
  <1>3. /\ TasksRight' /\ EndsRight' /\ HostsRight' /\ dir.pipes \subseteq PipeRecord
    BY <1>0, <1>1, <1>2, CutKeeps DEF Cuts
  <1>4. /\ DOMAIN task' = Task /\ \A u \in Task \ {t} : task'[u] = task[u]
        /\ DOMAIN task'[t] = DOMAIN task[t] /\ task'[t].step = "revoking"
        /\ task'[t].over = task[t].over /\ task'[t].live = task[t].live \ {s}
        /\ task'[t].allowed = task[t].allowed
    BY <1>0 DEF DirInv, AccessRight, RequestsFormed
  <1>5. AccessRight'
    <2>1. RequestsFormed'
      BY <1>0, <1>4 DEF DirInv, AccessRight, RequestsFormed, TaskSteps
    <2>2. ASSUME NEW p \in dir'.pipes
          PROVE  \/ p.session = None \/ "revoke" \in lapsed'
                 \/ pc'[p.viewer] = "checking" /\ arg'[p.viewer].pipe = p.id
                 \/ /\ p.session \in ended' => \E u \in Task : p.session \in task'[u].over
                    /\ Account(p.viewer) \notin People(p.session)' => \E u \in Task : WillRevoke(u, p)'
      <3>0. p \in dir.pipes /\ p \notin P
        BY <1>2 DEF Cuts
      <3>1. \/ p.session = None \/ "revoke" \in lapsed
            \/ pc[p.viewer] = "checking" /\ arg[p.viewer].pipe = p.id
            \/ /\ p.session \in ended => \E u \in Task : p.session \in task[u].over
               /\ Account(p.viewer) \notin People(p.session) => \E u \in Task : WillRevoke(u, p)
        BY <3>0 DEF DirInv, AccessRight
      <3>2. \A u \in Task : p.session \in task[u].over => p.session \in task'[u].over
        BY <1>4
      <3>3. \A u \in Task : WillRevoke(u, p) => WillRevoke(u, p)'
        BY <1>0, <1>1, <1>4, <3>0 DEF WillRevoke
      <3> QED BY <1>0, <3>1, <3>2, <3>3 DEF People
    <2> QED BY <2>1, <2>2 DEF AccessRight
  <1>6. RevokedRight'
    BY <1>0, <1>2, <1>4, RevokedStep DEF Cuts, DirInv
  <1>7. PresenceRight'
    BY <1>0, <1>2, PresenceStep DEF Cuts, DirInv
  <1>8. HiddenRight'
    BY <1>0, <1>2, HiddenStep DEF Cuts, DirInv
  <1> QED BY <1>2, <1>3, <1>5, <1>6, <1>7, <1>8 DEF DirInv, Cuts

\* A session is not hosted any more.
LEMMA EndKeeps ==
  ASSUME DirInv, NEW s \in Terminal, dir' = Unhosted(dir, {s}),
         late' = late \cup Closing(HostedPipes(dir, {s}), {}),
         \A u \in {s} : dir.hosted[u] # {} => Changing({u}), waiting \subseteq waiting',
         UNCHANGED <<open, pc, arg, shared, ended, revoked, hidden, hide, hostSees, viewSees,
                     hostsTold, announcing, told, load, lapsed>>
  PROVE  /\ Well(dir') /\ TasksRight' /\ EndsRight' /\ HostsRight' /\ PresenceRight' /\ HiddenRight'
         /\ dir'.pipes = {p \in dir.pipes : p.session # s} /\ dir'.entries = dir.entries
         /\ dir.pipes \subseteq PipeRecord
  <1> DEFINE S == {s}
             P == HostedPipes(dir, S)
  <1>1. Ends(S)
    BY EndsSessions DEF DirInv
  <1>2. P = {p \in dir.pipes : p.session \in S}
    BY HostedPipesAre DEF DirInv
  <1>3. /\ P \subseteq dir.pipes /\ dir'.pipes = dir.pipes \ P /\ Well(dir')
        /\ dir'.entries = dir.entries /\ dir'.ready = dir.ready
        /\ \A t \in Terminal \ {s} : dir'.hosted[t] = dir.hosted[t] /\ dir'.status[t] = dir.status[t]
        /\ dir'.hosted[s] = {} /\ dir'.pipes = {p \in dir.pipes : p.session # s}
    BY <1>1, <1>2 DEF Ends
  <1>4. late' = late \cup Closing(P, {})
    OBVIOUS
  <1> HIDE DEF P, S
  <1>5. /\ TasksRight' /\ EndsRight' /\ HostsRight' /\ dir.pipes \subseteq PipeRecord
    BY <1>3, <1>4, CutKeeps
  <1>6. HiddenRight'
    BY <1>3, HiddenStep DEF DirInv
  <1>7. CASE dir.hosted[s] # {}
    <2>1. s \in waiting' \/ "presence" \notin load
      BY <1>7 DEF Changing
    <2>2. PresenceRight'
      BY <1>3, <2>1, PresenceStep DEF DirInv
    <2> QED BY <1>3, <1>5, <1>6, <2>2
  <1>8. CASE dir.hosted[s] = {}
    <2>1. ASSUME NEW t \in Terminal
          PROVE  /\ Excused(t) => Excused(t)'
                 /\ Live(dir, t)' = Live(dir, t)
      <3>1. dir'.hosted[t] = dir.hosted[t]
        BY <1>3, <1>8
      <3>2. CASE t # s
        BY <1>3, <3>1, <3>2 DEF Excused, Live
      <3>3. CASE t = s
        BY <1>8, <3>1, <3>3 DEF Excused, Live
      <3> QED BY <3>2, <3>3
    <2>2. PresenceRight'
      BY <2>1 DEF DirInv, PresenceRight
    <2> QED BY <1>3, <1>5, <1>6, <2>2
  <1> QED BY <1>7, <1>8

LEMMA UnhostKeeps ==
  ASSUME DirInv, NEW c \in Conn, NEW s \in Terminal, Unhost(c, s)
  PROVE  DirInv'
  <1>0. /\ UNCHANGED <<open, pc, arg, shared, ended, revoked, hidden, task, hide, hostSees, viewSees,
                       hostsTold, announcing, told, load, lapsed>>
        /\ dir' = Unhosted(dir, {s}) /\ late' = late \cup Closing(HostedPipes(dir, {s}), {})
        /\ Changing({s}) /\ waiting \subseteq waiting'
    BY DEF Unhost, accessVars, seenVars, announceVars, Changing
  <1>1. /\ Well(dir') /\ TasksRight' /\ EndsRight' /\ HostsRight' /\ PresenceRight' /\ HiddenRight'
        /\ dir'.pipes = {p \in dir.pipes : p.session # s} /\ dir'.entries = dir.entries
        /\ dir.pipes \subseteq PipeRecord
    BY <1>0, EndKeeps
  <1>2. AccessRight'
    BY <1>0, <1>1, AccessStep DEF DirInv
  <1>3. RevokedRight'
    BY <1>0, <1>1, RevokedStep DEF DirInv
  <1> QED BY <1>1, <1>2, <1>3 DEF DirInv

LEMMA RemoveSessionKeeps ==
  ASSUME DirInv, NEW t \in Task, NEW s \in Terminal, RemoveSession(t, s)
  PROVE  DirInv'
  <1>0. /\ UNCHANGED <<open, pc, arg, shared, ended, revoked, hidden, hide, hostSees, viewSees,
                       hostsTold, announcing, told, load, lapsed>>
        /\ dir' = Unhosted(dir, {s}) /\ late' = late \cup Closing(HostedPipes(dir, {s}), {})
        /\ task[t].step = "removing" /\ task' = [task EXCEPT ![t].over = @ \ {s}]
        /\ Changing({u \in {s} : dir.hosted[u] # {}})
    BY DEF RemoveSession, accessVars, seenVars, announceVars
  <1>1. (\A u \in {s} : dir.hosted[u] # {} => Changing({u})) /\ waiting \subseteq waiting'
    BY <1>0 DEF Changing
  <1>2. /\ Well(dir') /\ TasksRight' /\ EndsRight' /\ HostsRight' /\ PresenceRight' /\ HiddenRight'
        /\ dir'.pipes = {p \in dir.pipes : p.session # s} /\ dir'.entries = dir.entries
        /\ dir.pipes \subseteq PipeRecord
    BY <1>0, <1>1, EndKeeps
  <1>3. /\ DOMAIN task' = Task /\ \A u \in Task \ {t} : task'[u] = task[u]
        /\ DOMAIN task'[t] = DOMAIN task[t] /\ task'[t].step = "removing"
        /\ task'[t].over = task[t].over \ {s} /\ task'[t].live = task[t].live
        /\ task'[t].allowed = task[t].allowed
    BY <1>0 DEF DirInv, AccessRight, RequestsFormed
  <1>4. AccessRight'
    <2>1. RequestsFormed'
      BY <1>0, <1>3 DEF DirInv, AccessRight, RequestsFormed, TaskSteps
    <2>2. ASSUME NEW p \in dir'.pipes
          PROVE  \/ p.session = None \/ "revoke" \in lapsed'
                 \/ pc'[p.viewer] = "checking" /\ arg'[p.viewer].pipe = p.id
                 \/ /\ p.session \in ended' => \E u \in Task : p.session \in task'[u].over
                    /\ Account(p.viewer) \notin People(p.session)' => \E u \in Task : WillRevoke(u, p)'
      <3>0. p \in dir.pipes /\ p.session # s
        BY <1>2
      <3>1. \/ p.session = None \/ "revoke" \in lapsed
            \/ pc[p.viewer] = "checking" /\ arg[p.viewer].pipe = p.id
            \/ /\ p.session \in ended => \E u \in Task : p.session \in task[u].over
               /\ Account(p.viewer) \notin People(p.session) => \E u \in Task : WillRevoke(u, p)
        BY <3>0 DEF DirInv, AccessRight
      <3>2. \A u \in Task : p.session \in task[u].over => p.session \in task'[u].over
        BY <1>3, <3>0
      <3>3. \A u \in Task : WillRevoke(u, p) => WillRevoke(u, p)'
        BY <1>0, <1>3 DEF WillRevoke
      <3> QED BY <1>0, <3>1, <3>2, <3>3 DEF People
    <2> QED BY <2>1, <2>2 DEF AccessRight
  <1>5. RevokedRight'
    BY <1>0, <1>2, <1>3, RevokedStep DEF DirInv
  <1> QED BY <1>2, <1>4, <1>5 DEF DirInv


\* An identity that a viewer has for a pipe that is not open yet is new to
\* the directory.
LEMMA NewIdentity ==
  ASSUME DirInv, NEW i \in Pipe, hostSees[i] = "no"
  PROVE  /\ \A p \in dir.pipes : p.id # i
         /\ \A m \in late : \A c \in Conn : m # Closed(i, c)
  <1>1. \A p \in dir.pipes : p.id # i
    <2> SUFFICES ASSUME NEW p \in dir.pipes, p.id = i PROVE FALSE
      OBVIOUS
    <2>1. p.host \in Conn /\ hostSees[i] = p.host
      BY DEF DirInv, EndsRight, Well, Formed, PipeRecord
    <2> QED BY <2>1, DirectoryAssumption
  <1>2. ASSUME NEW m \in late, NEW c \in Conn, m = Closed(i, c)
        PROVE  FALSE
    <2>1. ASSUME NEW d \in Conn, m = Abort(d)
          PROVE  FALSE
      BY <1>2, <2>1 DEF Abort, Closed
    <2>2. PICK d \in Conn, j \in Pipe : m = Closed(j, d) /\ hostSees[j] # "no"
      BY <2>1 DEF DirInv, EndsRight
    <2>3. j = i
      BY <1>2, <2>2 DEF Closed
    <2> QED BY <2>2, <2>3
  <1> QED BY <1>1, <1>2

LEMMA OpenAskedKeeps ==
  ASSUME DirInv, NEW c \in Conn, NEW i \in Pipe, NEW s \in Terminal, OpenAsked(c, i, s)
  PROVE  DirInv'
  <1> USE DEF DirInv
  <1>0. /\ UNCHANGED <<dir, open, shared, ended, revoked, hidden, task, hide, late, hostSees, hostsTold,
                       waiting, announcing, told, load, lapsed>>
        /\ pc[c] = "listening" /\ c \in open /\ DeviceOf(c) # HostDevice(s) /\ viewSees[i] = "no"
    BY DEF OpenAsked, Fresh, accessVars, presenceVars, announceVars
  <1>1. /\ dir.pipes \subseteq PipeRecord /\ dir.entries \subseteq Conn
        /\ \A t \in Terminal : dir.hosted[t] \subseteq Conn
        /\ hostSees[i] = "no"
    BY <1>0 DEF Well, Formed, Hosts, EndsRight
  <1>2. \A p \in dir.pipes : p.id # i
    BY <1>1, NewIdentity
  <1>3. "no" \notin Conn /\ "closed" \notin Conn
    BY DirectoryAssumption
  <1>4. /\ viewSees \in [Pipe -> Conn \cup {"no", "closed"}]
        /\ \A m \in late : \/ \E d \in Conn : m = Abort(d)
                           \/ \E d \in Conn, j \in Pipe : /\ m = Closed(j, d)
                                                          /\ hostSees[j] # "no"
                                                          /\ \A p \in dir.pipes : p.id # j
        /\ \A p \in dir.pipes : hostSees[p.id] = p.host /\ viewSees[p.id] = p.viewer
        /\ \A d \in Conn :
             /\ pc[d] = "opening" => arg[d].pipe \in Pipe /\ arg[d].pipe # i
             /\ pc[d] = "checking" => arg[d].pipe \in Pipe /\ arg[d].pipe # i
    BY <1>0, <1>1, <1>3 DEF EndsRight, TasksRight
  <1>5. CASE Authorized(c, s)
    <2>0. /\ viewSees' = [viewSees EXCEPT ![i] = c] /\ pc' = [pc EXCEPT ![c] = "opening"]
          /\ arg' = [arg EXCEPT ![c] = [pipe |-> i, session |-> s]]
      BY <1>5 DEF OpenAsked
    <2>1. /\ pc'[c] = "opening" /\ (\A d \in Conn \ {c} : pc'[d] = pc[d] /\ arg'[d] = arg[d])
          /\ DOMAIN arg' = Conn /\ arg'[c].pipe = i /\ arg'[c].session = s
          /\ viewSees' \in [Pipe -> Conn \cup {"no", "closed"}]
          /\ viewSees'[i] = c /\ \A j \in Pipe \ {i} : viewSees'[j] = viewSees[j]
      BY <1>4, <2>0 DEF TasksRight
    <2>2. TasksRight'
      BY <1>0, <2>0, <2>1, TasksStep DEF TasksRight, Step
    <2>3. EndsRight'
      <3>1. \A d \in Conn :
              /\ pc'[d] = "opening" => hostSees[arg'[d].pipe] = "no" /\ viewSees'[arg'[d].pipe] = d
              /\ pc'[d] = "checking" =>
                   /\ hostSees[arg'[d].pipe] # "no" /\ viewSees'[arg'[d].pipe] \in {d, "closed"}
                   /\ \A p \in dir.pipes : p.id = arg'[d].pipe => p.session = arg'[d].session
        BY <1>1, <1>4, <2>1 DEF EndsRight
      <3>2. \A d \in Conn, j \in Pipe : pc'[d] = "new" => hostSees[j] # d /\ viewSees'[j] # d
        BY <2>1 DEF EndsRight
      <3>3. ASSUME NEW j \in Pipe, NEW d \in open
            PROVE  \/ Abort(d) \in late
                   \/ Closed(j, d) \in late
                   \/ \E p \in dir.pipes : p.id = j
                   \/ /\ hostSees[j] # d
                      /\ viewSees'[j] = d => pc'[d] = "opening" /\ arg'[d].pipe = j
        <4>1. d \in Conn
          BY DEF TasksRight
        <4>2. CASE j = i
          BY <1>1, <1>3, <2>1, <4>1, <4>2
        <4>3. CASE j # i
          <5>1. viewSees'[j] = viewSees[j]
            BY <2>1, <4>3
          <5> QED BY <1>0, <2>1, <4>1, <5>1 DEF EndsRight
        <4> QED BY <4>2, <4>3
      <3>4. \A p \in dir.pipes : hostSees[p.id] = p.host /\ viewSees'[p.id] = p.viewer
        BY <1>1, <1>2, <1>4, <2>1 DEF PipeRecord
      <3>5. \A j \in Pipe : viewSees'[j] = "no" => hostSees[j] = "no"
        BY <1>1, <2>1 DEF EndsRight
      <3> QED BY <1>0, <1>4, <2>1, <3>1, <3>2, <3>3, <3>4, <3>5 DEF EndsRight
    <2>4. AccessRight'
      BY <1>0, <1>1, <2>1, AccessStep
    <2>5. RevokedRight'
      BY <1>0, <1>1, <2>1, RevokedStep
    <2>6. HostsRight' /\ PresenceRight'
      BY <1>0, HostsStep, PresenceStep
    <2>7. HiddenRight'
      <3>1. \A d \in Conn : pc[d] \in {"showing", "shown"} => pc'[d] = pc[d] /\ arg'[d] = arg[d]
        BY <1>0, <2>1
      <3> QED BY <1>0, <1>1, <3>1, HiddenStep
    <2> QED BY <1>0, <2>2, <2>3, <2>4, <2>5, <2>6, <2>7
  <1>6. CASE ~Authorized(c, s)
    <2>0. viewSees' = [viewSees EXCEPT ![i] = "closed"] /\ pc' = pc /\ arg' = arg
      BY <1>6 DEF OpenAsked
    <2>1. /\ viewSees' \in [Pipe -> Conn \cup {"no", "closed"}]
          /\ viewSees'[i] = "closed" /\ \A j \in Pipe \ {i} : viewSees'[j] = viewSees[j]
      BY <1>4, <2>0
    <2>2. TasksRight'
      BY <1>0, <2>0, TasksQuiet
    <2>3. EndsRight'
      <3>1. \A d \in Conn :
              /\ pc[d] = "opening" => hostSees[arg[d].pipe] = "no" /\ viewSees'[arg[d].pipe] = d
              /\ pc[d] = "checking" =>
                   /\ hostSees[arg[d].pipe] # "no" /\ viewSees'[arg[d].pipe] \in {d, "closed"}
                   /\ \A p \in dir.pipes : p.id = arg[d].pipe => p.session = arg[d].session
        BY <1>4, <2>1 DEF EndsRight
      <3>2. \A d \in Conn, j \in Pipe : pc[d] = "new" => hostSees[j] # d /\ viewSees'[j] # d
        BY <1>3, <2>1 DEF EndsRight
      <3>3. ASSUME NEW j \in Pipe, NEW d \in open
            PROVE  \/ Abort(d) \in late
                   \/ Closed(j, d) \in late
                   \/ \E p \in dir.pipes : p.id = j
                   \/ /\ hostSees[j] # d
                      /\ viewSees'[j] = d => pc[d] = "opening" /\ arg[d].pipe = j
        <4>1. d \in Conn
          BY DEF TasksRight
        <4>2. CASE j = i
          BY <1>1, <1>3, <2>1, <4>1, <4>2
        <4>3. CASE j # i
          BY <2>1, <4>3 DEF EndsRight
        <4> QED BY <4>2, <4>3
      <3>4. \A p \in dir.pipes : hostSees[p.id] = p.host /\ viewSees'[p.id] = p.viewer
        BY <1>1, <1>2, <1>4, <2>1 DEF PipeRecord
      <3>5. \A j \in Pipe : viewSees'[j] = "no" => hostSees[j] = "no"
        BY <1>1, <2>1 DEF EndsRight
      <3> QED BY <1>0, <1>4, <2>0, <2>1, <3>1, <3>2, <3>3, <3>4, <3>5 DEF EndsRight
    <2>4. AccessRight'
      BY <1>0, <1>1, <2>0, AccessStep
    <2>5. RevokedRight' /\ HostsRight' /\ PresenceRight' /\ HiddenRight'
      BY <1>0, <2>0, RevokedStep, HostsStep, PresenceStep, HiddenStep
    <2> QED BY <1>0, <2>2, <2>3, <2>4, <2>5
  <1> QED BY <1>5, <1>6

\* What the ends know when the pipe i is opened by c at the host h.
LEMMA OpensEnds ==
  ASSUME DirInv, NEW i \in Pipe, NEW s, NEW c \in Conn, NEW h \in Conn, Opens(i, s, c, h),
         hostSees[i] = "no", viewSees[i] \in {"no", c}, UNCHANGED <<late, open, arg>>,
         hostSees' = [hostSees EXCEPT ![i] = h], viewSees' = [viewSees EXCEPT ![i] = c],
         \A d \in Conn \ {c} : pc'[d] = pc[d],
         pc'[c] \notin {"new", "opening"}, pc[h] # "new",
         pc[c] = "opening" => arg[c].pipe = i,
         pc'[c] = "checking" => arg[c].pipe = i /\ arg[c].session = s
  PROVE  EndsRight'
  <1> USE DEF DirInv
  <1>0. "no" \notin Conn /\ "closed" \notin Conn
    BY DirectoryAssumption
  <1>1. /\ \A p \in dir.pipes : p.id # i
        /\ \A m \in late : \A d \in Conn : m # Closed(i, d)
    BY NewIdentity
  <1>2. /\ hostSees' \in [Pipe -> Conn \cup {"no", "closed"}]
        /\ viewSees' \in [Pipe -> Conn \cup {"no", "closed"}]
        /\ hostSees'[i] = h /\ viewSees'[i] = c
        /\ \A j \in Pipe \ {i} : hostSees'[j] = hostSees[j] /\ viewSees'[j] = viewSees[j]
    BY DEF EndsRight
  <1>3. \A p \in dir'.pipes : \/ p \in dir.pipes
                              \/ p.id = i /\ p.session = s /\ p.viewer = c /\ p.host = h
    BY DEF Opens
  <1>4. dir.pipes \subseteq dir'.pipes /\ \E p \in dir'.pipes : p.id = i
    <2>1. [id |-> i, session |-> s, viewer |-> c, host |-> h] \in dir'.pipes
      BY DEF Opens
    <2> QED BY <2>1 DEF Opens
  <1>5. \A p \in dir.pipes : p.id \in Pipe /\ p.id # i
    BY <1>1 DEF Well, Formed, PipeRecord
  <1>6. ASSUME NEW m \in late
        PROVE  \/ \E d \in Conn : m = Abort(d)
               \/ \E d \in Conn, j \in Pipe : /\ m = Closed(j, d)
                                              /\ hostSees'[j] # "no"
                                              /\ \A p \in dir'.pipes : p.id # j
    <2>1. CASE \E d \in Conn : m = Abort(d)
      BY <2>1
    <2>2. CASE \E d \in Conn, j \in Pipe : /\ m = Closed(j, d)
                                           /\ hostSees[j] # "no"
                                           /\ \A p \in dir.pipes : p.id # j
      <3>1. PICK d \in Conn, j \in Pipe : /\ m = Closed(j, d)
                                          /\ hostSees[j] # "no"
                                          /\ \A p \in dir.pipes : p.id # j
        BY <2>2
      <3>2. j # i
        BY <1>1, <3>1
      <3> QED BY <1>2, <1>3, <3>1, <3>2
    <2> QED BY <2>1, <2>2 DEF EndsRight
  <1>7. \A p \in dir'.pipes : hostSees'[p.id] = p.host /\ viewSees'[p.id] = p.viewer
    BY <1>2, <1>3, <1>5 DEF EndsRight
  <1>8. \A j \in Pipe : viewSees'[j] = "no" => hostSees'[j] = "no"
    BY <1>0, <1>2 DEF EndsRight
  <1>9. \A d \in Conn, j \in Pipe : pc'[d] = "new" => hostSees'[j] # d /\ viewSees'[j] # d
    <2> SUFFICES ASSUME NEW d \in Conn, NEW j \in Pipe, pc'[d] = "new"
                 PROVE  hostSees'[j] # d /\ viewSees'[j] # d
      OBVIOUS
    <2>1. pc[d] = "new" /\ d # c /\ d # h
      OBVIOUS
    <2> QED BY <1>2, <2>1 DEF EndsRight
  <1>10. ASSUME NEW d \in Conn
         PROVE  /\ pc'[d] = "opening" => hostSees'[arg'[d].pipe] = "no" /\ viewSees'[arg'[d].pipe] = d
                /\ pc'[d] = "checking" =>
                     /\ hostSees'[arg'[d].pipe] # "no" /\ viewSees'[arg'[d].pipe] \in {d, "closed"}
                     /\ \A p \in dir'.pipes : p.id = arg'[d].pipe => p.session = arg'[d].session
    <2>1. CASE d = c
      BY <1>0, <1>1, <1>2, <1>3, <2>1
    <2>2. CASE d # c
      <3>1. pc'[d] = pc[d] /\ arg'[d] = arg[d]
        BY <2>2
      <3>2. CASE pc[d] = "opening"
        <4>1. arg[d].pipe \in Pipe /\ hostSees[arg[d].pipe] = "no" /\ viewSees[arg[d].pipe] = d
          BY <3>2 DEF EndsRight, TasksRight
        <4>2. arg[d].pipe # i
          BY <1>0, <2>2, <4>1
        <4> QED BY <1>2, <3>1, <3>2, <4>1, <4>2
      <3>3. CASE pc[d] = "checking"
        <4>1. /\ arg[d].pipe \in Pipe
              /\ hostSees[arg[d].pipe] # "no" /\ viewSees[arg[d].pipe] \in {d, "closed"}
              /\ \A p \in dir.pipes : p.id = arg[d].pipe => p.session = arg[d].session
          BY <3>3 DEF EndsRight, TasksRight
        <4>2. arg[d].pipe # i
          BY <4>1
        <4> QED BY <1>2, <1>3, <3>1, <3>3, <4>1, <4>2
      <3> QED BY <3>1, <3>2, <3>3
    <2> QED BY <2>1, <2>2
  <1>11. ASSUME NEW j \in Pipe, NEW d \in open
         PROVE  \/ Abort(d) \in late
                \/ Closed(j, d) \in late
                \/ \E p \in dir'.pipes : p.id = j
                \/ /\ hostSees'[j] # d
                   /\ viewSees'[j] = d => pc'[d] = "opening" /\ arg[d].pipe = j
    <2>1. CASE j = i
      BY <1>4, <2>1
    <2>2. CASE j # i
      <3>1. d \in Conn
        BY DEF TasksRight
      <3>2. \/ Abort(d) \in late
            \/ Closed(j, d) \in late
            \/ \E p \in dir.pipes : p.id = j
            \/ /\ hostSees[j] # d
               /\ viewSees[j] = d => pc[d] = "opening" /\ arg[d].pipe = j
        BY DEF EndsRight
      <3>3. pc[d] = "opening" /\ arg[d].pipe = j => pc'[d] = "opening"
        BY <2>2, <3>1
      <3> QED BY <1>2, <1>4, <2>2, <3>2, <3>3
    <2> QED BY <2>1, <2>2
  <1> QED BY <1>2, <1>6, <1>7, <1>8, <1>9, <1>10, <1>11 DEF EndsRight

\* The viewer c hears that the pipe it asked for is refused.
LEMMA RefusedEnds ==
  ASSUME DirInv, NEW i \in Pipe, NEW c \in Conn,
         hostSees[i] = "no", viewSees[i] \in {"no", c}, UNCHANGED <<dir, late, open, arg, hostSees>>,
         viewSees' = [viewSees EXCEPT ![i] = "closed"],
         \A d \in Conn \ {c} : pc'[d] = pc[d],
         pc'[c] \notin {"new", "opening", "checking"}, pc[c] = "opening" => arg[c].pipe = i
  PROVE  EndsRight'
  <1> USE DEF DirInv
  <1>0. "no" \notin Conn /\ "closed" \notin Conn
    BY DirectoryAssumption
  <1>1. \A p \in dir.pipes : p.id # i
    BY NewIdentity
  <1>2. /\ viewSees' \in [Pipe -> Conn \cup {"no", "closed"}]
        /\ viewSees'[i] = "closed" /\ \A j \in Pipe \ {i} : viewSees'[j] = viewSees[j]
    BY DEF EndsRight
  <1>3. \A p \in dir.pipes : hostSees[p.id] = p.host /\ viewSees'[p.id] = p.viewer
    BY <1>1, <1>2 DEF EndsRight, Well, Formed, PipeRecord
  <1>4. \A j \in Pipe : viewSees'[j] = "no" => hostSees[j] = "no"
    BY <1>2 DEF EndsRight
  <1>5. \A d \in Conn, j \in Pipe : pc'[d] = "new" => hostSees[j] # d /\ viewSees'[j] # d
    BY <1>0, <1>2 DEF EndsRight
  <1>6. ASSUME NEW d \in Conn
        PROVE  /\ pc'[d] = "opening" => hostSees[arg[d].pipe] = "no" /\ viewSees'[arg[d].pipe] = d
               /\ pc'[d] = "checking" =>
                    /\ hostSees[arg[d].pipe] # "no" /\ viewSees'[arg[d].pipe] \in {d, "closed"}
                    /\ \A p \in dir.pipes : p.id = arg[d].pipe => p.session = arg[d].session
    <2>1. CASE d = c
      BY <2>1
    <2>2. CASE d # c
      <3>1. pc'[d] \in {"opening", "checking"} => arg[d].pipe \in Pipe /\ arg[d].pipe # i
        BY <1>0, <2>2 DEF EndsRight, TasksRight
      <3> QED BY <1>2, <2>2, <3>1 DEF EndsRight
    <2> QED BY <2>1, <2>2
  <1>7. ASSUME NEW j \in Pipe, NEW d \in open
        PROVE  \/ Abort(d) \in late
               \/ Closed(j, d) \in late
               \/ \E p \in dir.pipes : p.id = j
               \/ /\ hostSees[j] # d
                  /\ viewSees'[j] = d => pc'[d] = "opening" /\ arg[d].pipe = j
    <2>0. d \in Conn
      BY DEF TasksRight
    <2>1. CASE j = i
      BY <1>0, <1>2, <2>0, <2>1
    <2>2. CASE j # i
      <3>1. viewSees'[j] = viewSees[j]
        BY <1>2, <2>2
      <3>2. pc[d] = "opening" /\ arg[d].pipe = j => pc'[d] = "opening"
        BY <2>0, <2>2
      <3> QED BY <3>1, <3>2 DEF EndsRight
    <2> QED BY <2>1, <2>2
  <1> QED BY <1>2, <1>3, <1>4, <1>5, <1>6, <1>7 DEF EndsRight

\* The pipe that opens is a call, or its viewer will check again.
LEMMA OpensAccess ==
  ASSUME DirInv, NEW i, NEW s, NEW c \in Conn, NEW h, Opens(i, s, c, h),
         UNCHANGED <<shared, ended, task, lapsed, arg>>,
         \A d \in Conn : pc[d] = "checking" => pc'[d] = "checking",
         \/ s = None
         \/ pc'[c] = "checking" /\ arg[c].pipe = i
  PROVE  AccessRight'
  <1> USE DEF DirInv
  <1>1. RequestsFormed'
    BY DEF AccessRight, RequestsFormed
  <1>2. ASSUME NEW p \in dir'.pipes
        PROVE  \/ p.session = None \/ "revoke" \in lapsed'
               \/ pc'[p.viewer] = "checking" /\ arg'[p.viewer].pipe = p.id
               \/ /\ p.session \in ended' => \E t \in Task : p.session \in task'[t].over
                  /\ Account(p.viewer) \notin People(p.session)' => \E t \in Task : WillRevoke(t, p)'
    <2>1. CASE p \in dir.pipes
      <3>1. p.viewer \in Conn
        BY <2>1 DEF Well, Formed, PipeRecord
      <3>2. \/ p.session = None \/ "revoke" \in lapsed
            \/ pc[p.viewer] = "checking" /\ arg[p.viewer].pipe = p.id
            \/ /\ p.session \in ended => \E t \in Task : p.session \in task[t].over
               /\ Account(p.viewer) \notin People(p.session) => \E t \in Task : WillRevoke(t, p)
        BY <2>1 DEF AccessRight
      <3> QED BY <3>1, <3>2 DEF People, WillRevoke
    <2>2. CASE p = [id |-> i, session |-> s, viewer |-> c, host |-> h]
      BY <2>2
    <2> QED BY <2>1, <2>2 DEF Opens
  <1> QED BY <1>1, <1>2 DEF AccessRight

LEMMA OpenKeeps ==
  ASSUME DirInv, NEW c \in Conn, Open(c)
  PROVE  DirInv'
  <1> USE DEF DirInv
  <1> DEFINE i == arg[c].pipe
             s == arg[c].session
  <1>0. /\ UNCHANGED <<open, arg, shared, ended, revoked, hidden, task, hide, late, hostsTold,
                       waiting, announcing, told, load, lapsed>>
        /\ pc[c] = "opening" /\ c \in open
    BY DEF Open, accessVars, presenceVars, announceVars
  <1>1. /\ dir.pipes \subseteq PipeRecord /\ dir.entries \subseteq Conn
        /\ (\A t \in Terminal : dir.hosted[t] \subseteq dir.entries)
        /\ i \in Pipe /\ s \in Terminal /\ s # None
        /\ hostSees[i] = "no" /\ viewSees[i] = c /\ viewSees \in [Pipe -> Conn \cup {"no", "closed"}]
        /\ DOMAIN pc = Conn /\ DOMAIN arg = Conn
    BY <1>0, DirectoryAssumption DEF Well, Formed, Hosts, EndsRight, TasksRight
  <1>2. CASE MayOpen(c, s)
    <2>0. PICK h \in dir.hosted[s] :
            /\ dir' = WithPipe(dir, i, s, c, h) /\ hostSees' = [hostSees EXCEPT ![i] = h]
            /\ pc' = [pc EXCEPT ![c] = "checking"] /\ UNCHANGED viewSees
      BY <1>2 DEF Open
    <2>1. /\ c \in dir.entries /\ h \in dir.entries /\ h \in Conn
          /\ pc'[c] = "checking" /\ (\A d \in Conn \ {c} : pc'[d] = pc[d])
          /\ viewSees' = [viewSees EXCEPT ![i] = c] /\ pc[h] # "new"
      BY <1>1, <1>2, <2>0 DEF MayOpen, TasksRight
    <2>2. Opens(i, s, c, h)
      <3>1. \A p \in dir.pipes : p.id # i
        BY <1>1, NewIdentity
      <3> HIDE DEF i, s
      <3> QED BY <1>1, <2>0, <2>1, <3>1, WithPipeWell DEF Opens
    <2>3. TasksRight'
      BY <1>0, <1>1, <2>0, <2>1, <2>2, TasksStep DEF Opens, TasksRight, Step
    <2>4. EndsRight'
      BY <1>0, <1>1, <2>0, <2>1, <2>2, OpensEnds
    <2>5. AccessRight'
      BY <1>0, <2>1, <2>2, OpensAccess
    <2>6. RevokedRight'
      BY <1>0, <1>1, <2>1, <2>2, RevokedStep DEF Opens
    <2>7. HostsRight' /\ PresenceRight'
      BY <1>0, <2>2, HostsStep, PresenceStep DEF Opens
    <2>8. HiddenRight'
      <3>1. \A d \in Conn : pc[d] \in {"showing", "shown"} => pc'[d] = pc[d] /\ arg'[d] = arg[d]
        BY <1>0, <2>1
      <3> QED BY <1>0, <1>1, <2>2, <3>1, HiddenStep DEF Opens
    <2> QED BY <2>2, <2>3, <2>4, <2>5, <2>6, <2>7, <2>8 DEF Opens
  <1>3. CASE ~MayOpen(c, s)
    <2>0. /\ viewSees' = [viewSees EXCEPT ![i] = "closed"] /\ pc' = [pc EXCEPT ![c] = "listening"]
          /\ UNCHANGED <<dir, hostSees>>
      BY <1>3 DEF Open
    <2>1. pc'[c] = "listening" /\ (\A d \in Conn \ {c} : pc'[d] = pc[d])
      BY <1>1, <2>0
    <2>3. TasksRight'
      BY <1>0, <1>1, <2>0, <2>1, TasksStep DEF TasksRight, Step
    <2>4. EndsRight'
      BY <1>0, <1>1, <2>0, <2>1, RefusedEnds
    <2>5. AccessRight'
      BY <1>0, <1>1, <2>0, <2>1, AccessStep
    <2>6. RevokedRight'
      BY <1>0, <1>1, <2>0, <2>1, RevokedStep
    <2>7. HostsRight' /\ PresenceRight'
      BY <1>0, <2>0, HostsStep, PresenceStep
    <2>8. HiddenRight'
      <3>1. \A d \in Conn : pc[d] \in {"showing", "shown"} => pc'[d] = pc[d] /\ arg'[d] = arg[d]
        BY <1>0, <2>1
      <3> QED BY <1>0, <1>1, <2>0, <3>1, HiddenStep
    <2> QED BY <2>0, <2>3, <2>4, <2>5, <2>6, <2>7, <2>8
  <1> QED BY <1>2, <1>3

LEMMA CallKeeps ==
  ASSUME DirInv, NEW c \in Conn, NEW i \in Pipe, NEW d \in Device, Call(c, i, d)
  PROVE  DirInv'
  <1> USE DEF DirInv
  <1>0. /\ UNCHANGED <<open, pc, arg, shared, ended, revoked, hidden, task, hide, late, hostsTold,
                       waiting, announcing, told, load, lapsed>>
        /\ pc[c] = "listening" /\ c \in open /\ viewSees[i] = "no"
    BY DEF Call, Fresh, accessVars, presenceVars, announceVars
  <1>1. /\ dir.pipes \subseteq PipeRecord /\ dir.entries \subseteq Conn /\ hostSees[i] = "no"
    BY <1>0 DEF Well, Formed, EndsRight
  <1>2. CASE dir' = dir
    <2>0. /\ viewSees' = [viewSees EXCEPT ![i] = "closed"] /\ UNCHANGED hostSees
      <3>1. ASSUME NEW h, dir' = WithPipe(dir, i, None, c, h)
            PROVE  FALSE
        <4>1. [id |-> i, session |-> None, viewer |-> c, host |-> h] \in dir'.pipes
          BY <3>1 DEF WithPipe, Well, Formed, DirFields
        <4>2. \A p \in dir.pipes : p.id # i
          BY <1>1, NewIdentity
        <4> QED BY <1>2, <4>1, <4>2
      <3> QED BY <3>1 DEF Call
    <2>1. TasksRight'
      BY <1>0, <1>2, TasksQuiet
    <2>2. EndsRight'
      BY <1>0, <1>1, <1>2, <2>0, RefusedEnds
    <2>3. AccessRight' /\ RevokedRight' /\ HostsRight' /\ PresenceRight' /\ HiddenRight'
      BY <1>0, <1>1, <1>2, AccessStep, RevokedStep, HostsStep, PresenceStep, HiddenStep
    <2> QED BY <1>2, <2>1, <2>2, <2>3
  <1>3. CASE dir' # dir
    <2>0. PICK h \in Callable(c, d) :
            /\ c \in dir.entries /\ dir' = WithPipe(dir, i, None, c, h)
            /\ hostSees' = [hostSees EXCEPT ![i] = h] /\ viewSees' = [viewSees EXCEPT ![i] = c]
      BY <1>3 DEF Call
    <2>1. h \in dir.entries /\ h \in Conn /\ pc[h] # "new"
      BY <1>1, <2>0 DEF Callable, EntryOf, TasksRight
    <2>2. Opens(i, None, c, h)
      <3>1. \A p \in dir.pipes : p.id # i
        BY <1>1, NewIdentity
      <3> QED BY <2>0, <2>1, <3>1, WithPipeWell DEF Opens
    <2>3. TasksRight'
      BY <1>0, <2>2, TasksQuiet DEF Opens
    <2>4. EndsRight'
      BY <1>0, <1>1, <2>0, <2>1, <2>2, OpensEnds
    <2>5. AccessRight'
      BY <1>0, <2>2, OpensAccess
    <2>6. RevokedRight' /\ HostsRight' /\ PresenceRight' /\ HiddenRight'
      BY <1>0, <2>2, RevokedStep, HostsStep, PresenceStep, HiddenStep DEF Opens
    <2> QED BY <2>2, <2>3, <2>4, <2>5, <2>6 DEF Opens
  <1> QED BY <1>2, <1>3

\* The pipe i ends by its end c, which is not told and knows.
LEMMA ClosedEnds ==
  ASSUME DirInv, NEW i \in Pipe, NEW c \in Conn, NEW P, P = WithIds(dir, {i}),
         dir'.pipes = dir.pipes \ P, late' = late \cup Closing(P, {c}), UNCHANGED <<open, arg>>,
         hostSees[i] # "no", hostSees' \in [Pipe -> Conn \cup {"no", "closed"}],
         viewSees' \in [Pipe -> Conn \cup {"no", "closed"}],
         hostSees'[i] \in {hostSees[i], "closed"}, viewSees'[i] \in {viewSees[i], "closed"},
         \A j \in Pipe \ {i} : hostSees'[j] = hostSees[j] /\ viewSees'[j] = viewSees[j],
         \A p \in P : /\ p.host = c => hostSees'[i] = "closed"
                      /\ p.viewer = c => viewSees'[i] = "closed",
         \A d \in Conn \ {c} : pc'[d] = pc[d],
         pc[c] # "opening", pc'[c] \notin {"new", "opening", "checking"}
  PROVE  EndsRight'
  <1> USE DEF DirInv
  <1>0. "no" \notin Conn /\ "closed" \notin Conn /\ "no" # "closed"
    BY DirectoryAssumption
  <1>1. /\ \A p \in P : p \in dir.pipes /\ p.id = i /\ p.viewer \in Conn /\ p.host \in Conn
        /\ \A p \in dir.pipes : p \in dir'.pipes <=> p.id # i
        /\ dir'.pipes \subseteq dir.pipes /\ \A p \in dir'.pipes : p.id \in Pipe /\ p.id # i
    BY DEF Well, Formed, PipeRecord, WithIds
  <1>2. ASSUME NEW m \in late'
        PROVE  \/ \E d \in Conn : m = Abort(d)
               \/ \E d \in Conn, j \in Pipe : /\ m = Closed(j, d)
                                              /\ hostSees'[j] # "no"
                                              /\ \A p \in dir'.pipes : p.id # j
    <2>1. CASE m \in late
      <3>1. CASE \E d \in Conn : m = Abort(d)
        BY <3>1
      <3>2. ASSUME NEW d \in Conn, NEW j \in Pipe, m = Closed(j, d), hostSees[j] # "no",
                   \A p \in dir.pipes : p.id # j
            PROVE  hostSees'[j] # "no" /\ \A p \in dir'.pipes : p.id # j
        BY <1>0, <1>1, <3>2
      <3> QED BY <2>1, <3>1, <3>2 DEF EndsRight
    <2>2. CASE m \in Closing(P, {c})
      <3>0. \/ \E p \in P : p.viewer \notin {c} /\ m = Closed(p.id, p.viewer)
            \/ \E p \in P : p.host \notin {c} /\ m = Closed(p.id, p.host)
        BY ONLY <2>2, ClosingIs
      <3>1. PICK p \in P : m = Closed(p.id, p.viewer) \/ m = Closed(p.id, p.host)
        BY ONLY <3>0
      <3>2. hostSees'[i] # "no"
        BY <1>0
      <3>3. p.id = i /\ p.viewer \in Conn /\ p.host \in Conn
        BY <1>1
      <3>4. \E d \in Conn : m = Closed(i, d)
        BY ONLY <3>1, <3>3
      <3>5. \A q \in dir'.pipes : q.id # i
        BY <1>1
      <3> QED BY ONLY <3>2, <3>4, <3>5, i \in Pipe
    <2> QED BY <2>1, <2>2
  <1>3. ASSUME NEW p \in dir'.pipes
        PROVE  hostSees'[p.id] = p.host /\ viewSees'[p.id] = p.viewer
    <2>1. p \in dir.pipes /\ p.id \in Pipe \ {i}
      BY <1>1
    <2>2. hostSees[p.id] = p.host /\ viewSees[p.id] = p.viewer
      BY <2>1 DEF EndsRight
    <2> QED BY <2>1, <2>2
  <1>4. \A j \in Pipe : viewSees'[j] = "no" => hostSees'[j] = "no"
    <2>1. viewSees[i] # "no"
      BY DEF EndsRight
    <2> QED BY <1>0, <2>1 DEF EndsRight
  <1>5. ASSUME NEW d \in Conn, NEW j \in Pipe, pc'[d] = "new"
        PROVE  hostSees'[j] # d /\ viewSees'[j] # d
    <2>1. d # c /\ pc[d] = "new"
      BY <1>5
    <2>2. hostSees[j] # d /\ viewSees[j] # d
      BY <2>1 DEF EndsRight
    <2> QED BY <1>0, <2>2
  <1>6. ASSUME NEW d \in Conn
        PROVE  /\ pc'[d] = "opening" => hostSees'[arg'[d].pipe] = "no" /\ viewSees'[arg'[d].pipe] = d
               /\ pc'[d] = "checking" =>
                    /\ hostSees'[arg'[d].pipe] # "no" /\ viewSees'[arg'[d].pipe] \in {d, "closed"}
                    /\ \A p \in dir'.pipes : p.id = arg'[d].pipe => p.session = arg'[d].session
    <2>1. CASE d = c
      BY <2>1
    <2>2. CASE d # c
      <3>1. pc'[d] = pc[d] /\ arg'[d] = arg[d]
        BY <2>2
      <3>2. CASE pc[d] = "opening"
        <4>1. arg[d].pipe \in Pipe /\ arg[d].pipe # i
          BY <3>2 DEF EndsRight, TasksRight
        <4> QED BY <3>1, <3>2, <4>1 DEF EndsRight
      <3>3. CASE pc[d] = "checking"
        <4>1. /\ arg[d].pipe \in Pipe /\ hostSees[arg[d].pipe] # "no"
              /\ viewSees[arg[d].pipe] \in {d, "closed"}
              /\ \A p \in dir.pipes : p.id = arg[d].pipe => p.session = arg[d].session
          BY <3>3 DEF EndsRight, TasksRight
        <4>2. CASE arg[d].pipe = i
          BY <1>0, <1>1, <3>1, <3>3, <4>1, <4>2
        <4>3. CASE arg[d].pipe # i
          BY <1>1, <3>1, <3>3, <4>1, <4>3
        <4> QED BY <4>2, <4>3
      <3> QED BY <3>1, <3>2, <3>3
    <2> QED BY <2>1, <2>2
  <1>7. ASSUME NEW j \in Pipe, NEW d \in open
        PROVE  \/ Abort(d) \in late'
               \/ Closed(j, d) \in late'
               \/ \E p \in dir'.pipes : p.id = j
               \/ /\ hostSees'[j] # d
                  /\ viewSees'[j] = d => pc'[d] = "opening" /\ arg'[d].pipe = j
    <2>0. d \in Conn /\ d # "closed"
      BY <1>0 DEF TasksRight
    <2>1. \/ Abort(d) \in late
          \/ Closed(j, d) \in late
          \/ \E p \in dir.pipes : p.id = j
          \/ /\ hostSees[j] # d
             /\ viewSees[j] = d => pc[d] = "opening" /\ arg[d].pipe = j
      BY DEF EndsRight
    <2>2. CASE j = i
      <3>1. CASE P = {}
        <4>1. \A p \in dir.pipes : p.id # i
          BY <1>1, <3>1 DEF WithIds
        <4>2. ~(pc[d] = "opening" /\ arg[d].pipe = i)
          BY <2>0 DEF EndsRight
        <4> QED BY <2>0, <2>1, <2>2, <4>1, <4>2
      <3>2. ASSUME NEW p \in P
            PROVE  Closed(i, d) \in late' \/ (hostSees'[i] # d /\ viewSees'[i] # d)
        <4>0. p \in dir.pipes /\ p.id = i
          BY <1>1, <3>2
        <4>1. hostSees[i] = p.host /\ viewSees[i] = p.viewer
          BY <4>0 DEF EndsRight
        <4>2. CASE d = c
          BY <2>0, <3>2, <4>1, <4>2
        <4>3. CASE d # c
          <5>1. p.viewer = d \/ p.host = d => Closed(i, d) \in late'
            BY <1>1, <3>2, <4>3, ClosingIs
          <5> QED BY <2>0, <4>1, <5>1
        <4> QED BY <4>2, <4>3
      <3> QED BY <2>2, <3>1, <3>2
    <2>3. CASE j # i
      <3>1. pc[d] = "opening" => pc'[d] = "opening"
        BY <2>0
      <3> QED BY <1>1, <2>1, <2>3, <3>1
    <2> QED BY <2>2, <2>3
  <1> QED BY <1>2, <1>3, <1>4, <1>5, <1>6, <1>7 DEF EndsRight

LEMMA CloseKeeps ==
  ASSUME DirInv, NEW c \in Conn, NEW i \in Pipe, Close(c, i)
  PROVE  DirInv'
  <1> USE DEF DirInv
  <1> DEFINE P == {q \in WithIds(dir, {i}) : c \in {q.viewer, q.host}}
  <1>0. /\ UNCHANGED <<open, pc, arg, shared, ended, revoked, hidden, task, hide, hostsTold,
                       waiting, announcing, told, load, lapsed>>
        /\ pc[c] = "listening" /\ P # {}
        /\ dir' = RemovePipes(dir, P) /\ late' = late \cup Closing(P, {c})
        /\ hostSees' = [hostSees EXCEPT ![i] = IF \E q \in P : q.host = c THEN "closed" ELSE @]
        /\ viewSees' = [viewSees EXCEPT ![i] = IF \E q \in P : q.viewer = c THEN "closed" ELSE @]
    BY DEF Close, accessVars, presenceVars, announceVars
  <1>1. /\ P \subseteq dir.pipes /\ P = WithIds(dir, {i})
    BY <1>0 DEF WithIds, Well, Pipes
  <1>2. hostSees[i] # "no"
    <2>1. PICK p \in P : p \in dir.pipes /\ p.id = i /\ p.host \in Conn
      BY <1>0, <1>1 DEF WithIds, Well, Formed, PipeRecord
    <2> QED BY <2>1, DirectoryAssumption DEF EndsRight
  <1> HIDE DEF P
  <1>3. Cuts(P)
    BY <1>0, <1>1, CutsPipes
  <1>4. /\ hostSees' \in [Pipe -> Conn \cup {"no", "closed"}]
        /\ viewSees' \in [Pipe -> Conn \cup {"no", "closed"}]
        /\ hostSees'[i] \in {hostSees[i], "closed"} /\ viewSees'[i] \in {viewSees[i], "closed"}
        /\ \A j \in Pipe \ {i} : hostSees'[j] = hostSees[j] /\ viewSees'[j] = viewSees[j]
        /\ \A p \in P : /\ p.host = c => hostSees'[i] = "closed"
                        /\ p.viewer = c => viewSees'[i] = "closed"
    BY <1>0 DEF EndsRight
  <1>5. EndsRight'
    BY <1>0, <1>1, <1>2, <1>3, <1>4, ClosedEnds DEF Cuts
  <1>6. TasksRight'
    BY <1>0, <1>3, TasksQuiet DEF Cuts
  <1>7. AccessRight'
    BY <1>0, <1>3, AccessStep DEF Cuts, Well, Formed
  <1>8. RevokedRight' /\ HostsRight' /\ PresenceRight' /\ HiddenRight'
    BY <1>0, <1>3, RevokedStep, HostsStep, PresenceStep, HiddenStep DEF Cuts
  <1> QED BY <1>3, <1>5, <1>6, <1>7, <1>8 DEF Cuts

LEMMA CheckedAgainKeeps ==
  ASSUME DirInv, NEW c \in Conn, CheckedAgain(c)
  PROVE  DirInv'
  <1> USE DEF DirInv
  <1> DEFINE i == arg[c].pipe
             s == arg[c].session
             P == WithIds(dir, {i})
  <1>0. /\ UNCHANGED <<open, arg, shared, ended, revoked, hidden, task, hide, hostSees, hostsTold,
                       waiting, announcing, told, load, lapsed>>
        /\ pc[c] = "checking"
    BY DEF CheckedAgain, accessVars, presenceVars, announceVars
  <1>1. /\ dir.pipes \subseteq PipeRecord /\ dir.entries \subseteq Conn
        /\ (\A t \in Terminal : dir.hosted[t] \subseteq Conn)
        /\ i \in Pipe /\ s \in Terminal /\ s # None /\ DeviceOf(c) # HostDevice(s)
        /\ hostSees[i] # "no" /\ viewSees[i] \in {c, "closed"}
        /\ DOMAIN pc = Conn /\ DOMAIN arg = Conn
        /\ P \subseteq dir.pipes /\ \A p \in dir.pipes : p.id = i => p.session = s
    BY <1>0, DirectoryAssumption DEF Well, Formed, Hosts, EndsRight, TasksRight, WithIds
  <1>2. CASE dir' = dir /\ Authorized(c, s) /\ c \in open /\ pc' = [pc EXCEPT ![c] = "listening"]
             /\ UNCHANGED <<late, viewSees>>
    <2>1. pc'[c] = "listening" /\ (\A d \in Conn \ {c} : pc'[d] = pc[d])
      BY <1>1, <1>2
    <2>2. TasksRight'
      BY <1>0, <1>1, <1>2, <2>1, TasksStep DEF TasksRight, Step
    <2>3. EndsRight'
      BY <1>0, <1>2, <2>1, EndsStep
    <2>4. AccessRight'
      <3>1. RequestsFormed'
        BY <1>0 DEF AccessRight, RequestsFormed
      <3>2. ASSUME NEW p \in dir.pipes
            PROVE  \/ p.session = None \/ "revoke" \in lapsed'
                   \/ pc'[p.viewer] = "checking" /\ arg'[p.viewer].pipe = p.id
                   \/ /\ p.session \in ended' => \E t \in Task : p.session \in task'[t].over
                      /\ Account(p.viewer) \notin People(p.session)' => \E t \in Task : WillRevoke(t, p)'
        <4>1. p.viewer \in Conn
          BY <1>1 DEF PipeRecord
        <4>2. \/ p.session = None \/ "revoke" \in lapsed
              \/ pc[p.viewer] = "checking" /\ arg[p.viewer].pipe = p.id
              \/ /\ p.session \in ended => \E t \in Task : p.session \in task[t].over
                 /\ Account(p.viewer) \notin People(p.session) => \E t \in Task : WillRevoke(t, p)
          BY DEF AccessRight
        <4>3. CASE p.viewer = c /\ p.id = i
          <5>1. p.session = s
            BY <1>1, <4>3
          <5> QED BY <1>0, <1>2, <4>3, <5>1 DEF Authorized, People
        <4>4. CASE ~(p.viewer = c /\ p.id = i)
          BY <1>0, <2>1, <4>1, <4>2, <4>4 DEF People, WillRevoke
        <4> QED BY <4>3, <4>4
      <3> QED BY <1>2, <3>1, <3>2 DEF AccessRight
    <2>5. RevokedRight'
      BY <1>0, <1>1, <1>2, <2>1, RevokedStep
    <2>6. HostsRight' /\ PresenceRight'
      BY <1>0, <1>2, HostsStep, PresenceStep
    <2>7. HiddenRight'
      <3>1. \A d \in Conn : pc[d] \in {"showing", "shown"} => pc'[d] = pc[d] /\ arg'[d] = arg[d]
        BY <1>0, <2>1
      <3> QED BY <1>0, <1>1, <1>2, <3>1, HiddenStep
    <2> QED BY <1>2, <2>2, <2>3, <2>4, <2>5, <2>6, <2>7
  <1>3. CASE /\ dir' = RemovePipes(dir, P) /\ late' = late \cup Closing(P, {c})
             /\ viewSees' = [viewSees EXCEPT ![i] = "closed"]
             /\ pc' = [pc EXCEPT ![c] = IF c \in open THEN "listening" ELSE "ending"]
    <2>1. PICK x \in {"listening", "ending"} : pc' = [pc EXCEPT ![c] = x]
      BY <1>3
    <2>2. pc'[c] = x /\ (\A d \in Conn \ {c} : pc'[d] = pc[d])
      BY <1>1, <2>1
    <2>3. Cuts(P)
      <3> HIDE DEF P
      <3> QED BY <1>1, <1>3, CutsPipes
    <2>4. \A p \in P : p.host # c
      <3> SUFFICES ASSUME NEW p \in P PROVE p.host # c
        OBVIOUS
      <3>1. p \in dir.pipes /\ p.session = s
        BY <1>1 DEF WithIds
      <3>2. p.host \in dir.hosted[s]
        BY <1>1, <3>1 DEF Well, Pipes
      <3> QED BY <1>1, <3>2 DEF Well, Hosts
    <2>5. /\ viewSees' \in [Pipe -> Conn \cup {"no", "closed"}] /\ viewSees'[i] = "closed"
          /\ hostSees' \in [Pipe -> Conn \cup {"no", "closed"}]
          /\ \A j \in Pipe \ {i} : viewSees'[j] = viewSees[j]
      BY <1>0, <1>1, <1>3 DEF EndsRight
    <2>6. EndsRight'
      <3>1. /\ P = WithIds(dir, {i}) /\ dir'.pipes = dir.pipes \ P
            /\ late' = late \cup Closing(P, {c}) /\ UNCHANGED <<open, arg>>
            /\ hostSees'[i] \in {hostSees[i], "closed"} /\ viewSees'[i] \in {viewSees[i], "closed"}
            /\ \A j \in Pipe \ {i} : hostSees'[j] = hostSees[j] /\ viewSees'[j] = viewSees[j]
            /\ \A p \in P : /\ p.host = c => hostSees'[i] = "closed"
                            /\ p.viewer = c => viewSees'[i] = "closed"
        BY <1>0, <1>3, <2>3, <2>4, <2>5 DEF Cuts
      <3>2. DirInv /\ i \in Pipe /\ hostSees[i] # "no" /\ pc[c] # "opening"
            /\ pc'[c] \notin {"new", "opening", "checking"}
        BY <1>0, <1>1, <2>2
      <3> HIDE DEF P, i, s, DirInv
      <3> QED BY ONLY <2>2, <2>5, <3>1, <3>2, ClosedEnds, c \in Conn
    <2>7. TasksRight'
      BY <1>0, <1>1, <2>1, <2>2, <2>3, TasksStep DEF TasksRight, Step, Cuts
    <2>8. AccessRight'
      <3>1. RequestsFormed'
        BY <1>0 DEF AccessRight, RequestsFormed
      <3>2. ASSUME NEW p \in dir'.pipes
            PROVE  \/ p.session = None \/ "revoke" \in lapsed'
                   \/ pc'[p.viewer] = "checking" /\ arg'[p.viewer].pipe = p.id
                   \/ /\ p.session \in ended' => \E t \in Task : p.session \in task'[t].over
                      /\ Account(p.viewer) \notin People(p.session)' => \E t \in Task : WillRevoke(t, p)'
        <4>1. p.viewer \in Conn /\ p \in dir.pipes /\ p.id # i
          BY <1>1, <2>3 DEF PipeRecord, Cuts, WithIds
        <4>2. \/ p.session = None \/ "revoke" \in lapsed
              \/ pc[p.viewer] = "checking" /\ arg[p.viewer].pipe = p.id
              \/ /\ p.session \in ended => \E t \in Task : p.session \in task[t].over
                 /\ Account(p.viewer) \notin People(p.session) => \E t \in Task : WillRevoke(t, p)
          BY <4>1 DEF AccessRight
        <4> QED BY <1>0, <2>2, <4>1, <4>2 DEF People, WillRevoke
      <3> QED BY <3>1, <3>2 DEF AccessRight
    <2>9. RevokedRight'
      BY <1>0, <1>1, <2>2, <2>3, RevokedStep DEF Cuts
    <2>10. HostsRight' /\ PresenceRight'
      BY <1>0, <2>3, HostsStep, PresenceStep DEF Cuts
    <2>11. HiddenRight'
      <3>1. \A d \in Conn : pc[d] \in {"showing", "shown"} => pc'[d] = pc[d] /\ arg'[d] = arg[d]
        BY <1>0, <2>2
      <3> QED BY <1>0, <1>1, <2>3, <3>1, HiddenStep DEF Cuts
    <2> QED BY <2>3, <2>6, <2>7, <2>8, <2>9, <2>10, <2>11 DEF Cuts
  <1> QED BY <1>2, <1>3 DEF CheckedAgain

LEMMA HostKeeps ==
  ASSUME DirInv, NEW c \in Conn, Host(c)
  PROVE  DirInv'
  <1> USE DEF DirInv
  <1> DEFINE s == arg[c].session
             taken == {t \in {s} : dir.hosted[t] # {c}}
  <1>0. /\ UNCHANGED <<open, arg, shared, ended, revoked, hidden, task, hide, hostSees, viewSees,
                       hostsTold, announcing, told, load, lapsed>>
        /\ pc[c] = "hosting" /\ c \in open
    BY DEF Host, accessVars, seenVars, announceVars
  <1>1. /\ dir.pipes \subseteq PipeRecord /\ dir.entries \subseteq Conn
        /\ (\A t \in Terminal : dir.hosted[t] \subseteq Conn)
        /\ s \in Terminal /\ s # None /\ DeviceOf(c) = HostDevice(s)
        /\ DOMAIN pc = Conn /\ DOMAIN arg = Conn
    BY <1>0, DirectoryAssumption DEF Well, Formed, Hosts, TasksRight
  <1>2. CASE c \in dir.entries
    <2>0. /\ dir' = [Unhosted(dir, taken) EXCEPT !.hosted[s] = {c}, !.entryHosted[c] = @ \cup {s}]
          /\ late' = late \cup Closing(HostedPipes(dir, taken), {}) /\ Changing(taken)
          /\ pc' = [pc EXCEPT ![c] = "showing"]
      BY <1>2 DEF Host
    <2>1. pc'[c] = "showing" /\ (\A d \in Conn \ {c} : pc'[d] = pc[d])
      BY <1>1, <2>0
    <2>2. Moves(s, c)
      <3> HIDE DEF s
      <3> QED BY <1>1, <1>2, <2>0, HostMoves
    <2>3. /\ HostedPipes(dir, taken) = {p \in dir.pipes : p.session \in taken}
          /\ dir'.pipes = {p \in dir.pipes : p.session \notin taken}
      <3>1. taken \in SUBSET Terminal
        BY <1>1
      <3>2. HostedPipes(dir, taken) = {p \in dir.pipes : p.session \in taken}
        <4> HIDE DEF taken
        <4> QED BY <3>1, HostedPipesAre
      <3> QED BY <2>2, <3>2 DEF Moves
    <2>4. waiting \subseteq waiting' /\ \A t \in taken : t \in waiting' \/ "presence" \notin load
      BY <2>0 DEF Changing
    <2>5. TasksRight'
      BY <1>0, <1>1, <1>2, <2>0, <2>1, <2>2, TasksStep DEF TasksRight, Step, Moves
    <2>6. EndsRight'
      <3> DEFINE Q == HostedPipes(dir, taken)
      <3>1. /\ Q \subseteq dir.pipes /\ dir'.pipes = dir.pipes \ Q /\ late' = late \cup Closing(Q, {})
        BY <2>0, <2>3
      <3> HIDE DEF Q, s, taken
      <3>2. \A m \in late' \ late :
              \E p \in dir.pipes \ dir'.pipes : m = Closed(p.id, p.viewer) \/ m = Closed(p.id, p.host)
        BY <3>1, ClosingIs
      <3>3. \A p \in dir.pipes \ dir'.pipes : \A d \in {p.viewer, p.host} : Closed(p.id, d) \in late'
        BY <3>1, ClosingIs
      <3>4. dir'.pipes \subseteq dir.pipes /\ late \subseteq late'
        BY <3>1
      <3> QED BY <1>0, <2>1, <3>2, <3>3, <3>4, EndsStep
    <2>7. AccessRight'
      BY <1>0, <1>1, <2>1, <2>3, AccessStep
    <2>8. RevokedRight' /\ HostsRight'
      BY <1>0, <1>1, <2>1, <2>2, RevokedStep, HostsStep DEF Moves
    <2>9. PresenceRight'
      <3>1. ASSUME NEW t \in Terminal
            PROVE  \/ dir'.hosted[t] = dir.hosted[t] /\ dir'.status[t] = dir.status[t]
                      /\ open' \cap dir.hosted[t] \subseteq open
                   \/ t \in waiting' \/ "presence" \notin load \/ "stop" \in lapsed'
        <4>1. CASE t \in taken
          BY <2>4, <4>1
        <4>2. CASE t \notin taken /\ t = s
          BY <1>0, <2>2, <4>2 DEF Moves
        <4>3. CASE t # s
          BY <1>0, <2>2, <4>3 DEF Moves
        <4> QED BY <4>1, <4>2, <4>3
      <3> QED BY <1>0, <2>4, <3>1, PresenceStep
    <2>10. HiddenRight'
      <3>1. ASSUME NEW t \in hidden
            PROVE  \/ dir'.hosted[t] \cap open' = {} \/ "show" \in lapsed'
                   \/ hide'.session = t /\ hide'.step \in {"check", "delete"}
                   \/ \E d \in dir'.hosted[t] : pc'[d] \in {"showing", "shown"} /\ arg'[d].session = t
        <4>0. t \in Terminal
          BY DEF HiddenRight
        <4>1. CASE t = s
          BY <1>0, <2>1, <2>2, <4>0, <4>1 DEF Moves
        <4>2. CASE t # s
          <5>1. dir'.hosted[t] = dir.hosted[t]
            BY <2>2, <4>0, <4>2 DEF Moves
          <5>2. \/ dir.hosted[t] \cap open = {} \/ "show" \in lapsed
                \/ hide.session = t /\ hide.step \in {"check", "delete"}
                \/ \E d \in dir.hosted[t] : pc[d] \in {"showing", "shown"} /\ arg[d].session = t
            BY DEF HiddenRight
          <5>3. \A d \in dir.hosted[t] : pc[d] \in {"showing", "shown"} => pc'[d] = pc[d]
            BY <1>0, <1>1, <2>1, <4>0
          <5> QED BY <1>0, <5>1, <5>2, <5>3
        <4> QED BY <4>1, <4>2
      <3> QED BY <1>0, <3>1 DEF HiddenRight
    <2> QED BY <2>2, <2>5, <2>6, <2>7, <2>8, <2>9, <2>10 DEF Moves
  <1>3. CASE c \notin dir.entries
    <2>1. Still(c, "listening") /\ UNCHANGED <<arg, hidden, hide, lapsed, revoked>>
      BY <1>0, <1>3 DEF Host, Still, accessVars, seenVars, presenceVars, announceVars
    <2>2. /\ Well(dir') /\ TasksRight' /\ EndsRight' /\ AccessRight' /\ HostsRight' /\ PresenceRight'
          /\ pc'[c] = "listening" /\ \A d \in Conn \ {c} : pc'[d] = pc[d]
      BY <1>0, <1>1, <2>1, StillKeeps DEF Step
    <2>3. RevokedRight'
      BY <1>0, <1>1, <2>1, <2>2, RevokedStep DEF Still
    <2>4. HiddenRight'
      <3>1. \A d \in Conn : pc[d] \in {"showing", "shown"} => pc'[d] = pc[d] /\ arg'[d] = arg[d]
        BY <1>0, <2>2
      <3> QED BY <1>0, <1>1, <2>1, <3>1, HiddenStep DEF Still
    <2> QED BY <2>2, <2>3, <2>4
  <1> QED BY <1>2, <1>3

LEMMA ShareKeeps ==
  ASSUME DirInv, NEW c \in Conn, NEW s \in Terminal, Share(c, s)
  PROVE  DirInv'
  <1> USE DEF DirInv
  <1>0. /\ UNCHANGED <<open, pc, arg, shared, ended, revoked, hidden, task, hide, late, hostSees,
                       viewSees, hostsTold, announcing, told, load, lapsed>>
        /\ dir' = [dir EXCEPT !.status[s] = ~@] /\ waiting' = waiting \cup {s}
    BY DEF Share, Changing, accessVars, seenVars, announceVars
  <1>1. /\ Well(dir') /\ dir'.entries = dir.entries /\ dir'.ready = dir.ready
        /\ dir'.hosted = dir.hosted /\ dir'.pipes = dir.pipes
        /\ \A t \in Terminal \ {s} : dir'.status[t] = dir.status[t]
    BY <1>0, ShareWell
  <1>2. TasksRight' /\ EndsRight'
    BY <1>0, <1>1, TasksQuiet, EndsStep
  <1>3. AccessRight'
    BY <1>0, <1>1, AccessStep DEF Well, Formed
  <1>4. RevokedRight' /\ HostsRight'
    BY <1>0, <1>1, RevokedStep, HostsStep
  <1>5. PresenceRight'
    BY <1>0, <1>1, PresenceStep
  <1>6. HiddenRight'
    BY <1>0, <1>1, HiddenStep
  <1> QED BY <1>1, <1>2, <1>3, <1>4, <1>5, <1>6

\* A step that leaves the directory, the connections and what was sent alone.
Aside == UNCHANGED <<dir, open, pc, arg, late, hostSees, viewSees, hostsTold>>

LEMMA AsideKeeps ==
  ASSUME DirInv, Aside
  PROVE  Well(dir') /\ TasksRight' /\ EndsRight' /\ HostsRight'
  <1> USE DEF DirInv, Aside
  <1>1. Well(dir') /\ TasksRight'
    BY TasksQuiet
  <1>2. EndsRight'
    BY EndsStep
  <1>3. HostsRight'
    BY HostsStep
  <1> QED BY <1>1, <1>2, <1>3

\* A request commits what it takes away and will go after it.
LEMMA CommitKeeps ==
  ASSUME DirInv, NEW t \in Task, Aside, UNCHANGED <<hidden, hide, presenceVars, load, lapsed>>,
         task[t].step = "idle", DOMAIN task' = Task, \A u \in Task \ {t} : task'[u] = task[u],
         DOMAIN task'[t] = DOMAIN task[t], task'[t].step \in {"removing", "device"},
         task'[t].allowed = task[t].allowed, ended \subseteq ended', DOMAIN shared' = Terminal,
         \A s \in Terminal : s \in ended' \ ended => s \in task'[t].over,
         \A s \in Terminal : shared'[s] = shared[s] \/ s \in task'[t].live
  PROVE  /\ Well(dir') /\ TasksRight' /\ EndsRight' /\ AccessRight' /\ HostsRight'
         /\ PresenceRight' /\ HiddenRight'
  <1> USE DEF DirInv, Aside
  <1>1. Well(dir') /\ TasksRight' /\ EndsRight' /\ HostsRight'
    BY AsideKeeps
  <1>2. RequestsFormed'
    BY DEF AccessRight, RequestsFormed, TaskSteps
  <1>3. ASSUME NEW p \in dir.pipes
        PROVE  \/ p.session = None \/ "revoke" \in lapsed'
               \/ pc'[p.viewer] = "checking" /\ arg'[p.viewer].pipe = p.id
               \/ /\ p.session \in ended' => \E u \in Task : p.session \in task'[u].over
                  /\ Account(p.viewer) \notin People(p.session)' => \E u \in Task : WillRevoke(u, p)'
    <2>0. p.session = None \/ p.session \in Terminal
      BY DEF Well, Formed, PipeRecord
    <2>1. \/ p.session = None \/ "revoke" \in lapsed
          \/ pc[p.viewer] = "checking" /\ arg[p.viewer].pipe = p.id
          \/ /\ p.session \in ended => \E u \in Task : p.session \in task[u].over
             /\ Account(p.viewer) \notin People(p.session) => \E u \in Task : WillRevoke(u, p)
      BY DEF AccessRight
    <2>2. CASE \/ p.session = None \/ "revoke" \in lapsed
               \/ pc[p.viewer] = "checking" /\ arg[p.viewer].pipe = p.id
      BY <2>2
    <2>3. CASE /\ p.session \in Terminal
               /\ p.session \in ended => \E u \in Task : p.session \in task[u].over
               /\ Account(p.viewer) \notin People(p.session) => \E u \in Task : WillRevoke(u, p)
      <3>1. \A u \in Task : p.session \in task[u].over => p.session \in task'[u].over
        BY DEF AccessRight, RequestsFormed
      <3>2. \A u \in Task : WillRevoke(u, p) => WillRevoke(u, p)'
        BY DEF WillRevoke
      <3>3. p.session \in ended' => \E u \in Task : p.session \in task'[u].over
        BY <2>3, <3>1
      <3>4. shared'[p.session] # shared[p.session] => WillRevoke(t, p)'
        BY <2>3 DEF WillRevoke
      <3>5. Account(p.viewer) \notin People(p.session)' => \E u \in Task : WillRevoke(u, p)'
        BY <2>3, <3>2, <3>4 DEF People
      <3> QED BY <3>3, <3>5
    <2> QED BY <2>0, <2>1, <2>2, <2>3
  <1>4. AccessRight'
    BY <1>2, <1>3 DEF AccessRight
  <1>5. PresenceRight' /\ HiddenRight'
    BY PresenceStep, HiddenStep DEF presenceVars, announceVars
  <1> QED BY <1>1, <1>4, <1>5

LEMMA ShareCommitsKeeps ==
  ASSUME DirInv, NEW t \in Task, NEW s \in Terminal, NEW people, ShareCommits(t, s, people)
  PROVE  DirInv'
  <1> USE DEF DirInv
  <1>0. /\ Aside /\ UNCHANGED <<hidden, hide, presenceVars, load, lapsed, ended, revoked>>
        /\ task[t].step = "idle" /\ shared' = [shared EXCEPT ![s] = people]
        /\ task' = [task EXCEPT ![t] = [@ EXCEPT !.step = "removing", !.live = {s}]]
    BY DEF ShareCommits, Aside, seenVars
  <1>1. /\ DOMAIN task' = Task /\ \A u \in Task \ {t} : task'[u] = task[u]
        /\ DOMAIN task'[t] = DOMAIN task[t] /\ task'[t].step = "removing"
        /\ task'[t].live = {s} /\ task'[t].allowed = task[t].allowed
        /\ DOMAIN shared' = Terminal /\ \A u \in Terminal \ {s} : shared'[u] = shared[u]
    BY <1>0 DEF AccessRight, RequestsFormed
  <1>2. \A u \in Terminal : shared'[u] = shared[u] \/ u \in task'[t].live
    BY <1>1
  <1>3. /\ Well(dir') /\ TasksRight' /\ EndsRight' /\ AccessRight' /\ HostsRight'
        /\ PresenceRight' /\ HiddenRight'
    BY <1>0, <1>1, <1>2, CommitKeeps
  <1>4. RevokedRight'
    BY <1>0, <1>1, RevokedStep DEF Aside
  <1> QED BY <1>3, <1>4

LEMMA EndCommitsKeeps ==
  ASSUME DirInv, NEW t \in Task, NEW s \in Terminal, EndCommits(t, s)
  PROVE  DirInv'
  <1> USE DEF DirInv
  <1>0. /\ Aside /\ UNCHANGED <<hidden, hide, presenceVars, load, lapsed, shared, revoked>>
        /\ task[t].step = "idle" /\ ended' = ended \cup {s}
        /\ task' = [task EXCEPT ![t] = [@ EXCEPT !.step = "removing", !.over = {s}]]
    BY DEF EndCommits, Aside, seenVars
  <1>1. /\ DOMAIN task' = Task /\ \A u \in Task \ {t} : task'[u] = task[u]
        /\ DOMAIN task'[t] = DOMAIN task[t] /\ task'[t].step = "removing"
        /\ task'[t].over = {s} /\ task'[t].allowed = task[t].allowed
        /\ DOMAIN shared' = Terminal
    BY <1>0 DEF AccessRight, RequestsFormed
  <1>2. /\ Well(dir') /\ TasksRight' /\ EndsRight' /\ AccessRight' /\ HostsRight'
        /\ PresenceRight' /\ HiddenRight'
    BY <1>0, <1>1, CommitKeeps
  <1>3. RevokedRight'
    BY <1>0, <1>1, RevokedStep DEF Aside
  <1> QED BY <1>2, <1>3

LEMMA DeviceCommitsKeeps ==
  ASSUME DirInv, NEW t \in Task, NEW d \in Device, DeviceCommits(t, d)
  PROVE  DirInv'
  <1> USE DEF DirInv
  <1>0. PICK over, live :
          /\ Aside /\ UNCHANGED <<hidden, hide, presenceVars, load, lapsed, shared>>
          /\ task[t].step = "idle" /\ ended' = ended \cup over /\ revoked' = revoked \cup {d}
          /\ task' = [task EXCEPT ![t] =
               [@ EXCEPT !.step = "device", !.over = over, !.live = live, !.gone = {d}]]
    BY DEF DeviceCommits, Aside, seenVars
  <1>1. /\ DOMAIN task' = Task /\ \A u \in Task \ {t} : task'[u] = task[u]
        /\ DOMAIN task'[t] = DOMAIN task[t] /\ task'[t].step = "device"
        /\ task'[t].over = over /\ task'[t].allowed = task[t].allowed /\ task'[t].gone = {d}
        /\ DOMAIN shared' = Terminal
    BY <1>0 DEF AccessRight, RequestsFormed
  <1>2. /\ Well(dir') /\ TasksRight' /\ EndsRight' /\ AccessRight' /\ HostsRight'
        /\ PresenceRight' /\ HiddenRight'
    BY <1>0, <1>1, CommitKeeps
  <1>3. RevokedRight'
    <2> SUFFICES ASSUME NEW c \in dir'.entries, DeviceOf(c) \in revoked'
                 PROVE  \/ pc'[c] \in {"registered", "ending"}
                        \/ \E u \in Task : task'[u].step = "device" /\ task'[u].gone = {DeviceOf(c)}
      BY DEF RevokedRight
    <2>1. CASE DeviceOf(c) = d
      BY <1>1, <2>1
    <2>2. CASE DeviceOf(c) # d
      <3>1. \/ pc[c] \in {"registered", "ending"}
            \/ \E u \in Task : task[u].step = "device" /\ task[u].gone = {DeviceOf(c)}
        BY <1>0, <2>2 DEF RevokedRight, Aside
      <3> QED BY <1>0, <1>1, <3>1 DEF Aside
    <2> QED BY <2>1, <2>2
  <1> QED BY <1>2, <1>3

LEMMA ReadPeopleKeeps ==
  ASSUME DirInv, NEW t \in Task, ReadPeople(t)
  PROVE  DirInv'
  <1> USE DEF DirInv
  <1>0. /\ Aside /\ UNCHANGED <<hidden, hide, presenceVars, load, shared, ended, revoked>>
        /\ task[t].step = "removing" /\ task[t].over = {} /\ lapsed \subseteq lapsed'
    BY DEF ReadPeople, Aside, accessVars, seenVars
  <1>1. Well(dir') /\ TasksRight' /\ EndsRight' /\ HostsRight'
    BY <1>0, AsideKeeps
  <1>2. PresenceRight' /\ HiddenRight'
    BY <1>0, PresenceStep, HiddenStep DEF Aside, presenceVars, announceVars
  <1>3. DOMAIN task = Task /\ DOMAIN task[t] = {"step", "over", "live", "gone", "allowed"}
    BY DEF AccessRight, RequestsFormed
  <1>4. CASE task' = [task EXCEPT ![t].step = "revoking",
                                  ![t].allowed = [s \in Terminal |-> People(s)]]
    <2>1. /\ DOMAIN task' = Task /\ \A u \in Task \ {t} : task'[u] = task[u]
          /\ DOMAIN task'[t] = DOMAIN task[t] /\ task'[t].step = "revoking"
          /\ task'[t].live = task[t].live /\ task'[t].over = {}
          /\ task'[t].allowed = [s \in Terminal |-> People(s)]
      BY <1>0, <1>3, <1>4
    <2>2. RequestsFormed'
      BY <1>0, <2>1 DEF AccessRight, RequestsFormed, TaskSteps
    <2>3. ASSUME NEW p \in dir.pipes
          PROVE  \/ p.session = None \/ "revoke" \in lapsed'
                 \/ pc'[p.viewer] = "checking" /\ arg'[p.viewer].pipe = p.id
                 \/ /\ p.session \in ended' => \E u \in Task : p.session \in task'[u].over
                    /\ Account(p.viewer) \notin People(p.session)' => \E u \in Task : WillRevoke(u, p)'
      <3>0. p.session = None \/ p.session \in Terminal
        BY DEF Well, Formed, PipeRecord
      <3>1. \/ p.session = None \/ "revoke" \in lapsed
            \/ pc[p.viewer] = "checking" /\ arg[p.viewer].pipe = p.id
            \/ /\ p.session \in ended => \E u \in Task : p.session \in task[u].over
               /\ Account(p.viewer) \notin People(p.session) => \E u \in Task : WillRevoke(u, p)
        BY DEF AccessRight
      <3>2. CASE \/ p.session = None \/ "revoke" \in lapsed
                 \/ pc[p.viewer] = "checking" /\ arg[p.viewer].pipe = p.id
        BY <1>0, <3>2 DEF Aside
      <3>3. CASE /\ p.session \in Terminal
                 /\ p.session \in ended => \E u \in Task : p.session \in task[u].over
                 /\ Account(p.viewer) \notin People(p.session) => \E u \in Task : WillRevoke(u, p)
        <4>1. \A u \in Task : p.session \in task[u].over => p.session \in task'[u].over
          BY <1>0, <2>1
        <4>2. p.session \in ended' => \E u \in Task : p.session \in task'[u].over
          BY <1>0, <3>3, <4>1
        <4>3. ASSUME Account(p.viewer) \notin People(p.session), NEW u \in Task, WillRevoke(u, p)
              PROVE  WillRevoke(u, p)'
          <5>1. CASE u = t
            <6>1. p.session \in task[t].live
              BY <4>3, <5>1 DEF WillRevoke
            <6>2. task'[t].allowed[p.session] = People(p.session)
              BY <2>1, <3>3
            <6> QED BY <2>1, <4>3, <5>1, <6>1, <6>2 DEF WillRevoke
          <5>2. CASE u # t
            BY <2>1, <4>3, <5>2 DEF WillRevoke
          <5> QED BY <5>1, <5>2
        <4>4. People(p.session)' = People(p.session)
          BY <1>0 DEF People
        <4>5. Account(p.viewer) \notin People(p.session)' => \E u \in Task : WillRevoke(u, p)'
          BY ONLY <3>3, <4>3, <4>4
        <4> QED BY ONLY <4>2, <4>5
      <3> QED BY <3>0, <3>1, <3>2, <3>3
    <2>4. AccessRight'
      BY <1>0, <2>2, <2>3 DEF AccessRight, Aside
    <2>5. RevokedRight'
      BY <1>0, <2>1, RevokedStep DEF Aside
    <2> QED BY <1>1, <1>2, <2>4, <2>5
  <1>5. CASE task' = [task EXCEPT ![t].live = {}] /\ lapsed' = lapsed \cup {"revoke"}
    <2>1. /\ DOMAIN task' = Task /\ \A u \in Task \ {t} : task'[u] = task[u]
          /\ DOMAIN task'[t] = DOMAIN task[t] /\ task'[t].step = "removing"
          /\ task'[t].over = {} /\ task'[t].allowed = task[t].allowed
      BY <1>0, <1>3, <1>5
    <2>2. RequestsFormed'
      BY <1>0, <2>1 DEF AccessRight, RequestsFormed, TaskSteps
    <2>3. AccessRight'
      BY <1>5, <2>2 DEF AccessRight
    <2>4. RevokedRight'
      BY <1>0, <2>1, RevokedStep DEF Aside
    <2> QED BY <1>1, <1>2, <2>3, <2>4
  <1> QED BY <1>4, <1>5 DEF ReadPeople

\* The request that hides a session.
LEMMA HideKeeps ==
  ASSUME DirInv, HideInserts \/ HideChecks \/ HideDeletes \/ \E s \in Terminal : HideAsked(s)
  PROVE  DirInv'
  <1> USE DEF DirInv
  <1>0. /\ Aside /\ UNCHANGED <<shared, ended, revoked, task, waiting, announcing, told, load>>
        /\ lapsed \subseteq lapsed'
    BY DEF HideInserts, HideChecks, HideDeletes, HideAsked, Aside, seenVars, accessVars,
           presenceVars, announceVars
  <1>1. Well(dir') /\ TasksRight' /\ EndsRight' /\ HostsRight'
    BY <1>0, AsideKeeps
  <1>2. AccessRight'
    BY <1>0, AccessStep DEF Aside, Well, Formed
  <1>3. RevokedRight' /\ PresenceRight'
    BY <1>0, RevokedStep, PresenceStep DEF Aside
  <1>4. DOMAIN hide = {"step", "session"} /\ hidden \subseteq Terminal
    BY DEF HiddenRight
  <1>5. UNCHANGED <<dir, open, pc, arg>>
    BY <1>0 DEF Aside
  <1>6. ASSUME NEW s \in Terminal, HideAsked(s)
        PROVE  HiddenRight'
    <2>1. /\ hide.step = "idle" /\ hide' = [step |-> "insert", session |-> s]
          /\ UNCHANGED <<hidden, lapsed>>
      BY <1>6 DEF HideAsked
    <2>2. DOMAIN hide' = {"step", "session"} /\ hide'.session = s
      BY <2>1
    <2> QED BY <1>5, <2>1, <2>2 DEF HiddenRight
  <1>7. ASSUME HideInserts
        PROVE  HiddenRight'
    <2>1. /\ hide.step = "insert" /\ hide' = [hide EXCEPT !.step = "check"]
          /\ hidden' = hidden \cup {hide.session} /\ UNCHANGED lapsed
      BY <1>7 DEF HideInserts
    <2>2. /\ DOMAIN hide' = {"step", "session"} /\ hide'.session = hide.session
          /\ hide'.step = "check" /\ hide.session \in Terminal
      BY <1>4, <2>1 DEF HiddenRight
    <2> QED BY <1>5, <2>1, <2>2 DEF HiddenRight
  <1>8. ASSUME HideChecks
        PROVE  HiddenRight'
    <2>1. /\ hide.step = "check" /\ hide.session \in Terminal /\ UNCHANGED <<hidden, lapsed>>
          /\ hide' = [hide EXCEPT !.step = IF Live(dir, hide.session).online THEN "delete" ELSE "idle"]
      BY <1>8 DEF HideChecks, HiddenRight
    <2>2. /\ DOMAIN hide' = {"step", "session"} /\ hide'.session = hide.session
          /\ dir.hosted[hide.session] \cap open # {} => hide'.step = "delete"
      BY <1>4, <2>1 DEF Live
    <2>3. ASSUME NEW s \in hidden
          PROVE  \/ dir'.hosted[s] \cap open' = {} \/ "show" \in lapsed'
                 \/ hide'.session = s /\ hide'.step \in {"check", "delete"}
                 \/ \E c \in dir'.hosted[s] : pc'[c] \in {"showing", "shown"} /\ arg'[c].session = s
      <3>1. CASE s = hide.session
        BY <1>5, <2>2, <3>1
      <3>2. CASE s # hide.session
        BY <1>5, <2>1, <3>2 DEF HiddenRight
      <3> QED BY <3>1, <3>2
    <2> QED BY <2>1, <2>2, <2>3 DEF HiddenRight
  <1>9. ASSUME HideDeletes
        PROVE  HiddenRight'
    <2>1. /\ hide.step = "delete" /\ hide.session \in Terminal
          /\ hide' = [hide EXCEPT !.step = "idle"]
          /\ \/ hidden' = hidden \ {hide.session}
             \/ hidden' = hidden /\ "show" \in lapsed'
      BY <1>9 DEF HideDeletes, HiddenRight
    <2>2. DOMAIN hide' = {"step", "session"} /\ hide'.session = hide.session
      BY <1>4, <2>1
    <2> QED BY <1>0, <1>5, <2>1, <2>2 DEF HiddenRight
  <1>10. HiddenRight'
    BY <1>6, <1>7, <1>8, <1>9
  <1> QED BY <1>1, <1>2, <1>3, <1>10

\* TerminalPresence.
LEMMA AnnounceKeeps ==
  ASSUME DirInv, \/ \E s \in Terminal : Takes(s)
                 \/ \E a \in announcing : Looks(a) \/ Announces(a)
  PROVE  DirInv'
  <1> USE DEF DirInv
  <1>0. /\ Aside /\ UNCHANGED <<shared, ended, revoked, task, hidden, hide, load, lapsed>>
    BY DEF Takes, Looks, Announces, Aside, seenVars, accessVars
  <1>1. Well(dir') /\ TasksRight' /\ EndsRight' /\ HostsRight'
    BY <1>0, AsideKeeps
  <1>2. AccessRight'
    BY <1>0, AccessStep DEF Aside, Well, Formed
  <1>3. RevokedRight' /\ HiddenRight'
    BY <1>0, RevokedStep, HiddenStep DEF Aside
  <1>4. \A t \in Terminal : /\ Live(dir, t)' = Live(dir, t)
                            /\ Excused(t) /\ (t \in waiting => t \in waiting') => Excused(t)'
    BY <1>0 DEF Live, Excused, Aside
  <1>5. ASSUME NEW s \in Terminal, Takes(s)
        PROVE  PresenceRight'
    <2>1. /\ announcing = {} /\ waiting' = waiting \ {s} /\ UNCHANGED told
          /\ announcing' = {[session |-> s, saw |-> None]}
      BY <1>5 DEF Takes
    <2>2. ASSUME NEW t \in Terminal
          PROVE  (\E a \in announcing' : a.session = t) \/ Excused(t)' \/ told'[t] = Live(dir, t)'
      <3>1. CASE t = s
        BY <2>1, <3>1
      <3>2. CASE t # s
        <4>1. Excused(t) \/ told[t] = Live(dir, t)
          BY <2>1 DEF PresenceRight
        <4> QED BY <1>4, <2>1, <3>2, <4>1
      <3> QED BY <3>1, <3>2
    <2>3. \A a \in announcing' : /\ DOMAIN a = {"session", "saw"} /\ announcing' = {a}
                                 /\ a.session \in Terminal /\ a.saw = None
      BY <2>1
    <2> QED BY <2>1, <2>2, <2>3 DEF PresenceRight
  <1>6. ASSUME NEW a \in announcing, Looks(a)
        PROVE  PresenceRight'
    <2>1. /\ announcing = {a} /\ DOMAIN a = {"session", "saw"} /\ a.session \in Terminal
          /\ UNCHANGED told /\ waiting \subseteq waiting'
      BY <1>6 DEF Looks, PresenceRight
    <2>2. \/ announcing' = {} /\ a.session \in ended
          \/ announcing' = {[a EXCEPT !.saw = Live(dir, a.session)]}
          \/ announcing' = {} /\ a.session \in waiting'
      BY <1>6 DEF Looks
    <2>3. CASE announcing' = {}
      <3>1. Excused(a.session)'
        BY <1>0, <2>2, <2>3 DEF Excused
      <3>2. ASSUME NEW t \in Terminal
            PROVE  Excused(t)' \/ told'[t] = Live(dir, t)'
        <4>1. CASE t = a.session
          BY <3>1, <4>1
        <4>2. CASE t # a.session
          <5>1. Excused(t) \/ told[t] = Live(dir, t)
            BY <2>1, <4>2 DEF PresenceRight
          <5> QED BY <1>4, <2>1, <5>1
        <4> QED BY <4>1, <4>2
      <3> QED BY <2>1, <2>3, <3>2 DEF PresenceRight
    <2>4. CASE announcing' = {[a EXCEPT !.saw = Live(dir, a.session)]}
      <3>1. \A b \in announcing' : /\ DOMAIN b = {"session", "saw"} /\ announcing' = {b}
                                   /\ b.session = a.session /\ b.saw = Live(dir, a.session)
        BY <2>1, <2>4
      <3>2. \E b \in announcing' : b.session = a.session
        BY <2>4, <3>1
      <3>3. \A b \in announcing' : b.session \in Terminal /\ b.saw = Live(dir, b.session)'
        BY <1>4, <2>1, <3>1
      <3>4. ASSUME NEW t \in Terminal
            PROVE  (\E b \in announcing' : b.session = t) \/ Excused(t)' \/ told'[t] = Live(dir, t)'
        <4>1. CASE t = a.session
          BY <3>2, <4>1
        <4>2. CASE t # a.session
          <5>1. Excused(t) \/ told[t] = Live(dir, t)
            BY <2>1, <4>2 DEF PresenceRight
          <5> QED BY <1>4, <2>1, <5>1
        <4> QED BY <4>1, <4>2
      <3> QED BY <2>1, <3>1, <3>3, <3>4 DEF PresenceRight
    <2> QED BY <2>2, <2>3, <2>4
  <1>7. ASSUME NEW a \in announcing, Announces(a)
        PROVE  PresenceRight'
    <2>1. /\ announcing = {a} /\ a.session \in Terminal /\ a.saw # None /\ DOMAIN told = Terminal
          /\ announcing' = {} /\ told' = [told EXCEPT ![a.session] = a.saw] /\ UNCHANGED waiting
          /\ Excused(a.session) \/ a.saw = Live(dir, a.session)
      BY <1>7 DEF Announces, PresenceRight
    <2>2. ASSUME NEW t \in Terminal
          PROVE  Excused(t)' \/ told'[t] = Live(dir, t)'
      <3>1. CASE t = a.session
        BY <1>4, <2>1, <3>1
      <3>2. CASE t # a.session
        <4>1. Excused(t) \/ told[t] = Live(dir, t)
          BY <2>1, <3>2 DEF PresenceRight
        <4> QED BY <1>4, <2>1, <3>2, <4>1
      <3> QED BY <3>1, <3>2
    <2> QED BY <2>1, <2>2 DEF PresenceRight
  <1>8. PresenceRight'
    BY <1>5, <1>6, <1>7
  <1> QED BY <1>1, <1>2, <1>3, <1>8

LEMMA StopAllKeeps ==
  ASSUME DirInv, StopAll
  PROVE  DirInv'
  <1> USE DEF DirInv
  <1>0. /\ UNCHANGED <<pc, arg, shared, ended, revoked, hidden, task, hide, late, hostSees, viewSees,
                       hostsTold, waiting, announcing, told, load>>
        /\ lapsed' = lapsed \cup {"stop"} /\ dir' = DirInit /\ open' = open \ dir.entries
    BY DEF StopAll, accessVars, seenVars, presenceVars, announceVars
  <1>1. /\ Well(dir') /\ dir'.entries = {} /\ dir'.ready = {} /\ dir'.pipes = {}
        /\ \A s \in Terminal : dir'.hosted[s] = {}
    BY <1>0, EmptyWell
  <1>2. TasksRight'
    BY <1>0, <1>1, TasksQuiet
  <1>3. EndsRight'
    <2>1. \A p \in dir.pipes : p.viewer \notin open' /\ p.host \notin open'
      BY <1>0 DEF Well, Pipes
    <2> QED BY <1>0, <1>1, <2>1, EndsStep
  <1>4. AccessRight'
    BY <1>0, <1>1, AccessStep DEF Well, Formed
  <1>5. RevokedRight' /\ PresenceRight' /\ HiddenRight'
    BY <1>0, <1>1, RevokedStep, PresenceStep, HiddenStep
  <1>6. HostsRight'
    BY <1>0, <1>1 DEF HostsRight, HostsKnown
  <1> QED BY <1>1, <1>2, <1>3, <1>4, <1>5, <1>6

LEMMA AbortsKeeps ==
  ASSUME DirInv, NEW m \in late, Aborts(m)
  PROVE  DirInv'
  <1> USE DEF DirInv
  <1>0. /\ UNCHANGED <<dir, pc, arg, shared, ended, revoked, hidden, task, hide, hostSees, viewSees,
                       hostsTold, waiting, announcing, told, load, lapsed>>
        /\ m.kind = "abort" /\ open' = open \ {m.to} /\ late' = late \ {m}
    BY DEF Aborts, accessVars, seenVars, presenceVars, announceVars
  <1>1. PICK c \in Conn : m = Abort(c)
    <2>1. \A d, i : Closed(i, d).kind = "closed"
      BY DEF Closed
    <2> QED BY <1>0, <2>1 DEF EndsRight
  <1>2. /\ m.to = c /\ \A d : d # c => Abort(d) # m
        /\ \A d, i : Closed(i, d) # m
    <2>1. \A d, i : Closed(i, d).kind = "closed"
      BY DEF Closed
    <2>2. \A d : Abort(d).to = d
      BY DEF Abort
    <2> QED BY <1>0, <1>1, <2>1, <2>2
  <1>3. TasksRight'
    BY <1>0, TasksQuiet
  <1>4. EndsRight'
    <2>1. ASSUME NEW i \in Pipe, NEW d \in open'
          PROVE  \/ Abort(d) \in late'
                 \/ Closed(i, d) \in late'
                 \/ \E p \in dir'.pipes : p.id = i
                 \/ /\ hostSees'[i] # d
                    /\ viewSees'[i] = d => pc'[d] = "opening" /\ arg'[d].pipe = i
      <3>1. d \in open /\ d # c
        BY <1>0, <1>2
      <3>2. \/ Abort(d) \in late
            \/ Closed(i, d) \in late
            \/ \E p \in dir.pipes : p.id = i
            \/ /\ hostSees[i] # d
               /\ viewSees[i] = d => pc[d] = "opening" /\ arg[d].pipe = i
        BY <3>1 DEF EndsRight
      <3> QED BY <1>0, <1>2, <3>1, <3>2
    <2>2. \A n \in late' : n \in late
      BY <1>0
    <2> QED BY <1>0, <2>1, <2>2 DEF EndsRight
  <1>5. AccessRight'
    BY <1>0, AccessStep DEF Well, Formed
  <1>6. RevokedRight' /\ HostsRight' /\ PresenceRight' /\ HiddenRight'
    BY <1>0, RevokedStep, HostsStep, PresenceStep, HiddenStep
  <1> QED BY <1>0, <1>3, <1>4, <1>5, <1>6

LEMMA SendsClosedKeeps ==
  ASSUME DirInv, NEW m \in late, SendsClosed(m)
  PROVE  DirInv'
  <1> USE DEF DirInv
  <1>0. /\ UNCHANGED <<dir, open, pc, arg, shared, ended, revoked, hidden, task, hide,
                       hostsTold, waiting, announcing, told, load, lapsed>>
        /\ m.kind = "closed" /\ late' = late \ {m}
        /\ hostSees' = [hostSees EXCEPT ![m.pipe] = IF @ = m.to /\ m.to \in open THEN "closed" ELSE @]
        /\ viewSees' = [viewSees EXCEPT ![m.pipe] = IF @ = m.to /\ m.to \in open THEN "closed" ELSE @]
    BY DEF SendsClosed, accessVars, presenceVars, announceVars
  <1>1. PICK c \in Conn, i \in Pipe : /\ m = Closed(i, c) /\ hostSees[i] # "no"
                                      /\ \A p \in dir.pipes : p.id # i
    <2>1. \A d : Abort(d).kind = "abort"
      BY DEF Abort
    <2> QED BY <1>0, <2>1 DEF EndsRight
  <1>2. /\ m.to = c /\ m.pipe = i /\ \A d : Abort(d) # m
        /\ \A d, j : Closed(j, d) = m => d = c /\ j = i
    <2>1. \A d, j : Closed(j, d).to = d /\ Closed(j, d).pipe = j
      BY DEF Closed
    <2>2. \A d : Abort(d).kind = "abort"
      BY DEF Abort
    <2> QED BY <1>0, <1>1, <2>1, <2>2
  <1>3. "no" \notin Conn /\ "closed" \notin Conn
    BY DirectoryAssumption
  <1>4. /\ hostSees' \in [Pipe -> Conn \cup {"no", "closed"}]
        /\ viewSees' \in [Pipe -> Conn \cup {"no", "closed"}]
        /\ hostSees'[i] \in {hostSees[i], "closed"} /\ viewSees'[i] \in {viewSees[i], "closed"}
        /\ c \in open => hostSees'[i] # c /\ viewSees'[i] # c
        /\ \A j \in Pipe \ {i} : hostSees'[j] = hostSees[j] /\ viewSees'[j] = viewSees[j]
    BY <1>0, <1>1, <1>2, <1>3 DEF EndsRight
  <1>5. TasksRight'
    BY <1>0, TasksQuiet
  <1>6. EndsRight'
    <2>1. ASSUME NEW j \in Pipe, NEW d \in open
          PROVE  \/ Abort(d) \in late'
                 \/ Closed(j, d) \in late'
                 \/ \E p \in dir.pipes : p.id = j
                 \/ /\ hostSees'[j] # d
                    /\ viewSees'[j] = d => pc[d] = "opening" /\ arg[d].pipe = j
      <3>0. d \in Conn
        BY DEF TasksRight
      <3>1. \/ Abort(d) \in late
            \/ Closed(j, d) \in late
            \/ \E p \in dir.pipes : p.id = j
            \/ /\ hostSees[j] # d
               /\ viewSees[j] = d => pc[d] = "opening" /\ arg[d].pipe = j
        BY DEF EndsRight
      <3>2. CASE j = i /\ d = c
        BY <1>4, <3>2
      <3>3. CASE ~(j = i /\ d = c)
        <4>1. Closed(j, d) # m
          BY <1>2, <3>3
        <4>2. \/ hostSees'[j] = hostSees[j]
              \/ hostSees'[j] = "closed"
          BY <1>4
        <4>3. \/ viewSees'[j] = viewSees[j]
              \/ viewSees'[j] = "closed"
          BY <1>4
        <4> QED BY <1>0, <1>2, <1>3, <3>0, <3>1, <4>1, <4>2, <4>3
      <3> QED BY <3>2, <3>3
    <2>2. ASSUME NEW n \in late'
          PROVE  \/ \E d \in Conn : n = Abort(d)
                 \/ \E d \in Conn, j \in Pipe : /\ n = Closed(j, d)
                                                /\ hostSees'[j] # "no"
                                                /\ \A p \in dir.pipes : p.id # j
      <3>1. n \in late
        BY <1>0
      <3>2. \A j \in Pipe : hostSees[j] # "no" => hostSees'[j] # "no"
        BY <1>4
      <3> QED BY <3>1, <3>2 DEF EndsRight
    <2>3. \A p \in dir.pipes : hostSees'[p.id] = p.host /\ viewSees'[p.id] = p.viewer
      <3>1. \A p \in dir.pipes : p.id \in Pipe \ {i}
        BY <1>1 DEF Well, Formed, PipeRecord
      <3> QED BY <1>4, <3>1 DEF EndsRight
    <2>4. \A j \in Pipe : viewSees'[j] = "no" => hostSees'[j] = "no"
      <3>1. viewSees[i] # "no"
        BY <1>1 DEF EndsRight
      <3> QED BY <1>4, <3>1 DEF EndsRight
    <2>5. \A d \in Conn, j \in Pipe : pc[d] = "new" => hostSees'[j] # d /\ viewSees'[j] # d
      BY <1>3, <1>4 DEF EndsRight
    <2>6. ASSUME NEW d \in Conn
          PROVE  /\ pc[d] = "opening" => hostSees'[arg[d].pipe] = "no" /\ viewSees'[arg[d].pipe] = d
                 /\ pc[d] = "checking" =>
                      /\ hostSees'[arg[d].pipe] # "no" /\ viewSees'[arg[d].pipe] \in {d, "closed"}
                      /\ \A p \in dir.pipes : p.id = arg[d].pipe => p.session = arg[d].session
      <3>1. CASE pc[d] = "opening"
        <4>1. arg[d].pipe \in Pipe /\ arg[d].pipe # i
          BY <1>1, <3>1 DEF EndsRight, TasksRight
        <4> QED BY <1>4, <3>1, <4>1 DEF EndsRight
      <3>2. CASE pc[d] = "checking"
        <4>1. /\ arg[d].pipe \in Pipe /\ hostSees[arg[d].pipe] # "no"
              /\ viewSees[arg[d].pipe] \in {d, "closed"}
              /\ \A p \in dir.pipes : p.id = arg[d].pipe => p.session = arg[d].session
          BY <3>2 DEF EndsRight, TasksRight
        <4> QED BY <1>4, <3>2, <4>1
      <3> QED BY <3>1, <3>2
    <2> QED BY <1>0, <1>4, <2>1, <2>2, <2>3, <2>4, <2>5, <2>6 DEF EndsRight
  <1>7. AccessRight'
    BY <1>0, AccessStep DEF Well, Formed
  <1>8. RevokedRight' /\ HostsRight' /\ PresenceRight' /\ HiddenRight'
    BY <1>0, RevokedStep, HostsStep, PresenceStep, HiddenStep
  <1> QED BY <1>0, <1>5, <1>6, <1>7, <1>8

-----------------------------------------------------------------------------
(***************************************************************************)
(* The invariant.                                                          *)
(***************************************************************************)

LEMMA DirInvInit == Init => DirInv
  <1> SUFFICES ASSUME Init PROVE DirInv
    OBVIOUS
  <1>0. "no" \notin Conn /\ "closed" \notin Conn
    BY DirectoryAssumption
  <1>1. /\ Well(dir) /\ dir.entries = {} /\ dir.ready = {} /\ dir.pipes = {}
        /\ \A s \in Terminal : dir.hosted[s] = {}
    BY EmptyWell DEF Init
  <1>2. TasksRight
    BY <1>1 DEF Init, TasksRight, Step
  <1>3. EndsRight
    BY <1>0, <1>1 DEF Init, EndsRight
  <1>4. AccessRight
    BY <1>1 DEF Init, AccessRight, RequestsFormed, Idle, TaskSteps
  <1>5. RevokedRight
    BY <1>1 DEF RevokedRight
  <1>6. HostsRight
    BY <1>1 DEF Init, HostsRight, HostsKnown
  <1>7. PresenceRight
    <2>1. \A s \in Terminal : told[s] = Live(dir, s)
      BY <1>1 DEF Init, Live, Offline
    <2> QED BY <2>1 DEF Init, PresenceRight
  <1>8. HiddenRight
    BY DEF Init, HiddenRight
  <1> QED BY <1>1, <1>2, <1>3, <1>4, <1>5, <1>6, <1>7, <1>8 DEF DirInv

LEMMA DirInvStep == DirInv /\ [Next]_vars => DirInv'
  <1> SUFFICES ASSUME DirInv, [Next]_vars PROVE DirInv'
    OBVIOUS
  <1>1. ASSUME NEW c \in Conn, ConnNext(c)
        PROVE  DirInv'
    BY <1>1, HelloKeeps, RegisterKeeps, ApprovedAgainKeeps, ReadyKeeps, BreakKeeps, RemoveKeeps,
       OpenAskedKeeps, OpenKeeps, CheckedAgainKeeps, HostAskedKeeps, UnhostKeeps, ShareKeeps,
       HostKeeps, ShowAgainKeeps, CallKeeps, CloseKeeps, RelayFailsKeeps DEF ConnNext
  <1>2. ASSUME NEW t \in Task, TaskNext(t)
        PROVE  DirInv'
    BY <1>2, ShareCommitsKeeps, EndCommitsKeeps, RemoveSessionKeeps, RevokeKeeps, DeviceCommitsKeeps,
       RemoveDeviceKeeps, ReadPeopleKeeps DEF TaskNext
  <1>3. CASE UNCHANGED vars
    <2>1. Aside /\ UNCHANGED <<shared, ended, revoked, task, hidden, hide, waiting, announcing, told,
                               load, lapsed>>
      BY <1>3 DEF vars, Aside, accessVars, seenVars, presenceVars, announceVars
    <2>2. Well(dir') /\ TasksRight' /\ EndsRight' /\ HostsRight'
      BY <2>1, AsideKeeps
    <2>3. AccessRight'
      BY <2>1, AccessStep DEF Aside, DirInv, Well, Formed
    <2>4. RevokedRight' /\ PresenceRight' /\ HiddenRight'
      BY <2>1, RevokedStep, PresenceStep, HiddenStep DEF Aside, DirInv
    <2> QED BY <2>2, <2>3, <2>4 DEF DirInv
  <1> QED BY <1>1, <1>2, <1>3, MaintainKeeps, HideKeeps, AnnounceKeeps, AbortsKeeps, SendsClosedKeeps,
             StopAllKeeps DEF Next

LEMMA DirInvAlways == Spec => []DirInv
  BY DirInvInit, DirInvStep, PTL DEF Spec

\* No index counts more pipes than there are identities.
LEMMA PipesBound ==
  ASSUME Well(dir), NEW P, P \subseteq dir.pipes
  PROVE  Cardinality(P) \in 0..Cardinality(Pipe)
  <1> DEFINE f == [p \in P |-> p.id]
  <1>1. f \in Injection(P, Pipe)
    BY DEF Injection, IsInjective, Well, Formed, Pipes, PipeRecord
  <1> HIDE DEF f
  <1>2. IsFiniteSet(Pipe)
    BY DirectoryAssumption
  <1>3. IsFiniteSet(P) /\ Cardinality(P) <= Cardinality(Pipe)
    BY <1>1, <1>2, FS_Injection
  <1>4. Cardinality(P) \in Nat /\ Cardinality(Pipe) \in Nat
    BY <1>2, <1>3, FS_CardinalityType
  <1> QED BY <1>3, <1>4

LEMMA DirInvTypeOK == DirInv => TypeOK
  <1> SUFFICES ASSUME DirInv PROVE TypeOK
    OBVIOUS
  <1> USE DEF DirInv
  <1>1. dir.hosted \in [Terminal -> SUBSET Conn]
    <2>1. \A s \in Terminal : dir.hosted[s] \in SUBSET Conn
      BY DEF Well, Hosts, Formed
    <2>2. dir.hosted = [s \in Terminal |-> dir.hosted[s]]
      BY DEF Well, Functional
    <2> QED BY <2>1, <2>2
  <1>2. dir.hostedPipes \in [Terminal -> SUBSET Pipe]
    <2>1. \A s \in Terminal : dir.hostedPipes[s] \in SUBSET Pipe
      BY DEF Well, Pipes, Formed, PipeRecord, Ids
    <2>2. dir.hostedPipes = [s \in Terminal |-> dir.hostedPipes[s]]
      BY DEF Well, Functional
    <2> QED BY <2>1, <2>2
  <1>3. dir.entryPipes \in [Conn -> SUBSET Pipe]
    <2>1. \A c \in Conn : dir.entryPipes[c] \in SUBSET Pipe
      BY DEF Well, Pipes, Formed, PipeRecord, Ids
    <2>2. dir.entryPipes = [c \in Conn |-> dir.entryPipes[c]]
      BY DEF Well, Functional
    <2> QED BY <2>1, <2>2
  <1>4. dir.entryHosted \in [Conn -> SUBSET Terminal]
    <2>1. \A c \in Conn : dir.entryHosted[c] \in SUBSET Terminal
      BY DEF Well, Hosts
    <2>2. dir.entryHosted = [c \in Conn |-> dir.entryHosted[c]]
      BY DEF Well, Functional
    <2> QED BY <2>1, <2>2
  <1>5. dir.views \in [Conn -> 0..Cardinality(Pipe)]
    <2>1. ASSUME NEW c \in Conn
          PROVE  dir.views[c] \in 0..Cardinality(Pipe)
      <3>1. Viewed(dir, c) \subseteq dir.pipes /\ dir.views[c] = Cardinality(Viewed(dir, c))
        BY DEF Viewed, Well, Counts
      <3> QED BY <3>1, PipesBound
    <2>2. dir.views = [c \in Conn |-> dir.views[c]]
      BY DEF Well, Functional
    <2> QED BY <2>1, <2>2
  <1>6. dir.calls \in [Conn -> 0..Cardinality(Pipe)]
    <2>1. ASSUME NEW c \in Conn
          PROVE  dir.calls[c] \in 0..Cardinality(Pipe)
      <3>1. Called(dir, c) \subseteq dir.pipes /\ dir.calls[c] = Cardinality(Called(dir, c))
        BY DEF Called, Well, Counts
      <3> QED BY <3>1, PipesBound
    <2>2. dir.calls = [c \in Conn |-> dir.calls[c]]
      BY DEF Well, Functional
    <2> QED BY <2>1, <2>2
  <1>7. dir.entries \subseteq Conn /\ dir.ready \subseteq dir.entries /\ dir.pipes \subseteq PipeRecord
    BY DEF Well, Formed
  <1>8. open \subseteq Conn /\ pc \in [Conn -> Step]
    BY DEF TasksRight
  <1>9. /\ hostSees \in [Pipe -> Conn \cup {"no", "closed"}]
        /\ viewSees \in [Pipe -> Conn \cup {"no", "closed"}]
        /\ hostsTold \in [Conn -> SUBSET Device]
    BY DEF EndsRight, HostsRight
  <1> QED BY <1>1, <1>2, <1>3, <1>4, <1>5, <1>6, <1>7, <1>8, <1>9 DEF TypeOK

LEMMA DirInvIndexed == DirInv => Indexed
  <1> SUFFICES ASSUME DirInv PROVE Indexed
    OBVIOUS
  <1> USE DEF DirInv
  <1>1. \A p, q \in dir.pipes : p.id = q.id => p = q
    BY DEF Well, Pipes
  <1>2. ASSUME NEW s \in Terminal
        PROVE  /\ Cardinality(dir.hosted[s]) <= 1
               /\ dir.hostedPipes[s] = Ids({p \in dir.pipes : p.session = s})
    <2>1. dir.hosted[s] = {} \/ \E c : dir.hosted[s] = {c}
      BY DEF Well, Hosts
    <2>2. Cardinality(dir.hosted[s]) \in {0, 1}
      BY <2>1, FS_EmptySet, FS_Singleton
    <2> QED BY <2>2 DEF Well, Pipes
  <1>3. ASSUME NEW c \in Conn
        PROVE  /\ dir.entryPipes[c] = Ids({p \in dir.pipes : c \in {p.viewer, p.host}})
               /\ dir.entryHosted[c] = {s \in Terminal : c \in dir.hosted[s]}
               /\ dir.views[c] = Cardinality({p \in dir.pipes : p.viewer = c})
               /\ dir.calls[c] = Cardinality({p \in dir.pipes : p.host = c /\ p.session = None})
               /\ c \notin dir.entries => dir.entryPipes[c] = {} /\ dir.entryHosted[c] = {}
    <2>1. dir.entryPipes[c] = Ids({p \in dir.pipes : c \in {p.viewer, p.host}})
      BY DEF Well, Pipes
    <2>2. dir.entryHosted[c] = {s \in Terminal : c \in dir.hosted[s]}
      BY DEF Well, Hosts
    <2>3. /\ dir.views[c] = Cardinality({p \in dir.pipes : p.viewer = c})
          /\ dir.calls[c] = Cardinality({p \in dir.pipes : p.host = c /\ p.session = None})
      BY DEF Well, Counts, Viewed, Called
    <2>4. ASSUME c \notin dir.entries
          PROVE  dir.entryPipes[c] = {} /\ dir.entryHosted[c] = {}
      <3>1. {p \in dir.pipes : c \in {p.viewer, p.host}} = {}
        BY <2>4 DEF Well, Pipes
      <3>2. {s \in Terminal : c \in dir.hosted[s]} = {}
        BY <2>4 DEF Well, Hosts
      <3> QED BY <2>1, <2>2, <3>1, <3>2 DEF Ids
    <2> QED BY <2>1, <2>2, <2>3, <2>4
  <1>4. ASSUME NEW p \in dir.pipes, p.session # None
        PROVE  dir.hosted[p.session] = {p.host}
    <2>1. p.session \in Terminal /\ p.host \in dir.hosted[p.session]
      BY <1>4 DEF Well, Formed, PipeRecord, Pipes
    <2>2. \A c, e \in dir.hosted[p.session] : c = e
      BY <2>1 DEF Well, Hosts
    <2> QED BY <2>1, <2>2
  <1>5. \A c, e \in dir.entries : DeviceOf(c) = DeviceOf(e) => c = e
    BY DEF Well, Hosts
  <1> QED BY <1>1, <1>2, <1>3, <1>4, <1>5 DEF Indexed

LEMMA DirInvEndsKnow == DirInv => EndsKnow
  <1> SUFFICES ASSUME DirInv PROVE EndsKnow
    OBVIOUS
  <1>1. \A p \in dir.pipes : hostSees[p.id] = p.host /\ viewSees[p.id] = p.viewer
    BY DEF DirInv, EndsRight
  <1>2. ASSUME NEW i \in Pipe, NEW c \in open, [kind |-> "abort", to |-> c] \notin late,
               i \notin Ids(dir.pipes), Closed(i, c) \notin late
        PROVE  hostSees[i] # c /\ (viewSees[i] = c => pc[c] = "opening" /\ arg[c].pipe = i)
    <2>1. \A p \in dir.pipes : p.id # i
      BY <1>2 DEF Ids
    <2>2. Abort(c) \notin late
      BY <1>2 DEF Abort
    <2> QED BY <1>2, <2>1, <2>2 DEF DirInv, EndsRight
  <1> QED BY <1>1, <1>2 DEF EndsKnow

(***************************************************************************)
(* ConnectionDirectory.cs: whatever opens, closes, revokes, replaces or    *)
(* stops, and in whatever order the notices go out after the unlock, the   *)
(* indexes name exactly the pipes there are and each end that is connected *)
(* knows of its pipes what the directory knows or is about to be told.     *)
(***************************************************************************)
THEOREM DirectoryRightAlways == Spec => []DirectoryRight
  <1>1. DirInv => DirectoryRight
    BY DirInvTypeOK, DirInvIndexed, DirInvEndsKnow DEF DirectoryRight
  <1> QED BY <1>1, DirInvAlways, PTL

LEMMA DirInvNoPipe == DirInv => NoPipeWithoutAccess
  <1> SUFFICES ASSUME DirInv, NEW p \in dir.pipes, p.session # None, "revoke" \notin lapsed,
                      ~Authorized(p.viewer, p.session),
                      ~(pc[p.viewer] = "checking" /\ arg[p.viewer].pipe = p.id)
               PROVE  \E t \in Task : WillClose(t, p)
    BY DEF NoPipeWithoutAccess
  <1>1. p.session \in Terminal /\ p.id \in dir.hostedPipes[p.session]
    BY DEF DirInv, Well, Formed, PipeRecord, Pipes, Ids
  <1>2. /\ p.session \in ended => \E t \in Task : p.session \in task[t].over
        /\ Account(p.viewer) \notin People(p.session) => \E t \in Task : WillRevoke(t, p)
    BY DEF DirInv, AccessRight
  <1>3. p.session \in ended \/ Account(p.viewer) \notin People(p.session)
    BY DEF Authorized
  <1>4. CASE p.session \in ended
    BY <1>2, <1>4 DEF WillClose
  <1>5. CASE Account(p.viewer) \notin People(p.session)
    <2>1. PICK t \in Task : WillRevoke(t, p)
      BY <1>2, <1>5
    <2>2. Account(p.viewer) \notin task[t].allowed[p.session] => p \in Dropped(t, p.session)
      BY <1>1 DEF Dropped, WithIds
    <2>3. WillClose(t, p)
      BY <2>1, <2>2 DEF WillRevoke, WillClose
    <2> QED BY <2>3
  <1> QED BY <1>3, <1>4, <1>5

(***************************************************************************)
(* SessionService.cs and DeviceService.cs with OpenMessage: a person who   *)
(* lost a terminal and a device that was removed have no pipe and no place *)
(* in the directory, except where the check or the request that ends it    *)
(* has still to run.                                                       *)
(***************************************************************************)
THEOREM AccessKeptAlways == Spec => []AccessKept
  <1>1. DirInv => NoRevokedDevice
    BY DEF DirInv, RevokedRight, NoRevokedDevice
  <1>2. DirInv => AccessKept
    BY <1>1, DirInvNoPipe DEF AccessKept
  <1> QED BY <1>2, DirInvAlways, PTL

(***************************************************************************)
(* TellHostsLocked, TerminalPresence.cs and HideAsync: what devices know   *)
(* of each other's computers, what people heard last of a terminal and     *)
(* what is hidden are true, except while a step that corrects it is due.   *)
(***************************************************************************)
THEOREM PresenceKnownAlways == Spec => []PresenceKnown
  <1>1. DirInv => HostsKnown
    BY DEF DirInv, HostsRight
  <1>2. DirInv => PresenceTrue
    <2> SUFFICES ASSUME DirInv, NEW s \in Terminal, s \notin ended, s \notin waiting,
                        \A a \in announcing : a.session # s, "stop" \notin lapsed,
                        "presence" \in load, dir.hosted[s] \ open = {}
                 PROVE  told[s] = Live(dir, s)
      BY DEF PresenceTrue
    <2> QED BY DEF DirInv, PresenceRight, Excused
  <1>3. DirInv => OnlineNotHidden
    <2> SUFFICES ASSUME DirInv, NEW s \in hidden, Live(dir, s).online, "show" \notin lapsed,
                        ~(hide.session = s /\ hide.step \in {"check", "delete"})
                 PROVE  \E c \in dir.hosted[s] : pc[c] \in {"showing", "shown"} /\ arg[c].session = s
      BY DEF OnlineNotHidden
    <2>1. dir.hosted[s] \cap open # {}
      BY DEF Live
    <2> QED BY <2>1 DEF DirInv, HiddenRight
  <1>4. DirInv => PresenceKnown
    BY <1>1, <1>2, <1>3 DEF PresenceKnown
  <1> QED BY <1>4, DirInvAlways, PTL

=============================================================================
