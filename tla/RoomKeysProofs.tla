--------------------------- MODULE RoomKeysProofs ---------------------------
(***************************************************************************)
(* Proofs about RoomKeys, for any people, devices and loads:               *)
(*                                                                         *)
(*   - the key states give each key to devices that may have it, and let   *)
(*     everybody check what was posted under them;                         *)
(*   - a device that counts its content up to a sequence has all of it;    *)
(*   - what is posted is never readable by someone outside the room.       *)
(*                                                                         *)
(* The inductive invariant RoomInv has one part for the rows of the        *)
(* backend and one for what each device holds: the cache, the answers it   *)
(* kept and the request it is about to send, which is built from a state   *)
(* that may be old by the time the backend checks it.                      *)
(***************************************************************************)
EXTENDS RoomKeys, FiniteSetTheorems, TLAPS

-----------------------------------------------------------------------------
(* The parts of the invariant.  L are the lists, T the trusted identities, *)
(* S the key states and n the number of items.                             *)

IsASeq(s) == \E X : s \in Seq(X)

ListsRight(L, T) ==
  /\ DOMAIN L = User /\ DOMAIN T = User
  /\ \A u \in User :
       /\ IsASeq(L[u]) /\ Len(L[u]) >= 1
       /\ \A i \in 1..Len(L[u]) : L[u][i].root \in Nat /\ L[u][i].devices \subseteq Device
       /\ T[u] \in Nat /\ T[u] <= L[u][Len(L[u])].root

\* The people of a state, each with a list of an identity the owner trusts.
MembersRight(M, L, T) ==
  /\ DOMAIN M \subseteq User
  /\ \A u \in DOMAIN M : M[u] \in 1..Len(L[u]) /\ L[u][M[u]].root <= T[u]

\* Those who get its key are devices of the lists it names.
RecipientsRight(R, M, L) ==
  \A e \in R : e \in Device /\ Of(e) \in DOMAIN M /\ e \in L[Of(e)][M[Of(e)]].devices

\* One state.
StateRight(s, v, L, T) ==
  /\ s.version = v /\ s.author \in User /\ s.epoch \in 1..v
  /\ MembersRight(s.members, L, T) /\ RecipientsRight(s.recipients, s.members, L)

\* Of two states of one epoch the later one has everybody of the earlier one.
Follow(a, b) ==
  /\ a.epoch <= b.epoch
  /\ a.epoch = b.epoch => /\ a.recipients \subseteq b.recipients
                          /\ DOMAIN a.members \subseteq DOMAIN b.members

StatesRight(S, L, T) ==
  /\ IsASeq(S)
  /\ \A v \in 1..Len(S) : StateRight(S[v], v, L, T)
  /\ \A v \in 1..Len(S) : \A w \in 1..v : Follow(S[w], S[v])
  /\ \A v \in 2..Len(S) :
       S[v - 1].epoch = S[v].epoch => S[v].author \in DOMAIN S[v].members

ItemRight(item, S, L) ==
  /\ item.version \in 1..Len(S) /\ item.by \in Device
  /\ item.epoch = S[item.version].epoch
  /\ Of(item.by) \in DOMAIN S[item.version].members
  /\ item.by \in L[Of(item.by)][S[item.version].members[Of(item.by)]].devices

ItemsRight(I, S, L) == IsASeq(I) /\ \A n \in 1..Len(I) : ItemRight(I[n], S, L)

\* Who is of the room, and who is named by its last state.
PeopleRight(mem, inv, del, S) ==
  /\ Owner \in mem /\ mem \subseteq User /\ inv \subseteq User \ mem /\ del \subseteq User
  /\ Len(S) > 0 => /\ mem \cup inv \subseteq DOMAIN S[Len(S)].members
                   /\ DOMAIN S[Len(S)].members \subseteq mem \cup inv \cup del

-----------------------------------------------------------------------------
(* A device *)

AtMostOne(W) == W \subseteq Nat /\ \A x, y \in W : x = y

CacheRight(c, S, n) ==
  /\ DOMAIN c = {"link", "missions", "wanted", "known", "checked", "loaded", "sequence",
                 "got", "op"}
  /\ c.known \in 0..Len(S) /\ c.sequence \in 0..n /\ c.got \subseteq 1..n
  /\ c.loaded => 1..c.sequence \subseteq c.got
  /\ AtMostOne(c.wanted)

\* What an operation keeps from one request to the next.
KeptRight(op, L, n) ==
  /\ DOMAIN op = {"kind", "at", "who", "then", "tries", "bundles", "keys", "out", "back",
                  "body", "page", "wanted", "again", "renewed"}
  /\ DOMAIN op.body = {"version", "author", "epoch", "members", "recipients"}
  /\ DOMAIN op.page = {"sequence", "version", "last"}
  /\ op.who \in User /\ op.tries \in 0..3 /\ op.wanted \subseteq Nat
  /\ op.page.sequence \in 0..n /\ op.page.last \in 0..n
  /\ DOMAIN op.bundles \subseteq User
  /\ \A u \in DOMAIN op.bundles : op.bundles[u] \in 1..Len(L[u])
  /\ \A u \in DOMAIN op.keys : \A e \in op.keys[u] : Of(e) = u

\* The state that is on its way, made from the state known.
NextRight(op, known, d, L, T, S) ==
  LET body == op.body IN
  /\ body.version = known + 1 /\ body.author = Of(d)
  /\ MembersRight(body.members, L, T) /\ RecipientsRight(body.recipients, body.members, L)
  /\ known = 0 => body.epoch = 1 /\ op.tries <= 2
  /\ known > 0 => /\ body.epoch \in {S[known].epoch, S[known].epoch + 1}
                  /\ body.epoch = S[known].epoch =>
                       /\ S[known].recipients \subseteq body.recipients
                       /\ op.kind \notin {"remove", "reject"}

\* w made the key of v.
MadeKey(S, w, v) ==
  /\ w \in 1..v /\ S[w].epoch = S[v].epoch
  /\ w = 1 \/ S[w - 1].epoch < S[w].epoch

\* The item that is on its way is sealed with a key that its device has and
\* whose maker is of the room.
SealRight(body, known, d, S) ==
  /\ known >= 1 /\ body.version = known /\ body.epoch = S[known].epoch
  /\ d \in S[known].recipients
  /\ \E w \in 1..known : MadeKey(S, w, known) /\ S[w].author \in DOMAIN S[known].members

StageRight(op, known, d, L, T, S) ==
  /\ op.at = "first" => known = 0 /\ op.tries <= 2 /\ Of(d) = Owner
  /\ op.at \in {"standing", "recipients"} => known >= 1
  /\ op.at = "recipients" => MembersRight(op.body.members, L, T)
  /\ op.at = "commit" => NextRight(op, known, d, L, T, S)
  /\ op.at = "commitItem" => SealRight(op.body, known, d, S)
  /\ op.at = "keys" /\ op.then = "take" => op.page.sequence <= op.page.last

ClientRight(c, d, L, T, S, n) ==
  /\ CacheRight(c, S, n) /\ KeptRight(c.op, L, n) /\ StageRight(c.op, c.known, d, L, T, S)

ClientsRight(D, L, T, S, n) ==
  DOMAIN D = Device /\ \A d \in Device : ClientRight(D[d], d, L, T, S, n)

RoomInv ==
  /\ keyed \subseteq Device
  /\ ListsRight(list, trust) /\ StatesRight(states, list, trust)
  /\ ItemsRight(items, states, list) /\ PeopleRight(member, invited, deleted, states)
  /\ ClientsRight(dev, list, trust, states, Len(items))

-----------------------------------------------------------------------------
(* Sequences and naturals *)

\* Every set of naturals that is not empty has a least element.
LEMMA LeastNatural ==
  ASSUME NEW W, W \subseteq Nat, W # {}
  PROVE  \E n \in W : \A m \in W : n <= m
  <1>1. PICK n \in W : \A m \in W : ~(<<m, n>> \in OpToRel(<, Nat))
    BY NatLessThanWellFounded, WFMin
  <1>2. \A m \in W : ~(m < n)
    BY <1>1 DEF OpToRel
  <1> QED BY <1>2

\* One with a bound has a greatest element.
LEMMA GreatestNatural ==
  ASSUME NEW W, W \subseteq Nat, W # {}, NEW b \in Nat, \A m \in W : m <= b
  PROVE  \E n \in W : \A m \in W : m <= n
  <1> DEFINE B == {x \in Nat : \A m \in W : m <= x}
  <1>1. B \subseteq Nat /\ B # {} /\ \A x \in B : \A m \in W : m <= x
    OBVIOUS
  <1>2. \A x \in Nat : x \notin B => \E m \in W : x < m
    OBVIOUS
  <1> HIDE DEF B
  <1>3. PICK x \in B : \A y \in B : x <= y
    BY <1>1, LeastNatural
  <1>4. x \in Nat /\ \A m \in W : m \in Nat /\ m <= x
    BY <1>1
  <1>5. CASE x = 0
    <2>1. PICK m \in W : TRUE
      OBVIOUS
    <2>2. m = x
      BY <1>4, <1>5
    <2> QED BY <1>4, <2>2
  <1>6. CASE x # 0
    <2>1. x - 1 \in Nat /\ x - 1 \notin B
      BY <1>3, <1>4, <1>6
    <2>2. PICK m \in W : x - 1 < m
      BY <1>2, <2>1
    <2>3. m = x
      BY <1>4, <2>1, <2>2
    <2> QED BY <1>4, <2>3
  <1> QED BY <1>5, <1>6

\* Append, element by element.
LEMMA AppendSeq ==
  ASSUME NEW s, IsASeq(s), NEW e
  PROVE  /\ IsASeq(Append(s, e))
         /\ Len(s) \in Nat /\ Len(Append(s, e)) = Len(s) + 1
         /\ \A i \in 1..Len(s) : Append(s, e)[i] = s[i]
         /\ Append(s, e)[Len(s) + 1] = e
  <1>1. PICK X : s \in Seq(X)
    BY DEF IsASeq
  <1>2. s \in Seq(X \cup {e}) /\ e \in X \cup {e}
    BY <1>1
  <1>3. Append(s, e) \in Seq(X \cup {e})
    BY <1>2
  <1>4. IsASeq(Append(s, e))
    BY <1>3 DEF IsASeq
  <1> QED BY <1>2, <1>4

LEMMA LenNat ==
  ASSUME NEW s, IsASeq(s)
  PROVE  Len(s) \in Nat /\ (Len(s) = 0 <=> s = <<>>)
  BY DEF IsASeq

-----------------------------------------------------------------------------
(* What was right stays right when lists, states and items are appended and *)
(* the owner trusts newer identities.                                       *)

ListsGrow(L, L2) ==
  \A u \in User : /\ Len(L[u]) \in Nat /\ Len(L2[u]) \in Nat /\ Len(L[u]) <= Len(L2[u])
                  /\ \A i \in 1..Len(L[u]) : L2[u][i] = L[u][i]

TrustGrows(T, T2) == \A u \in User : T[u] \in Nat /\ T2[u] \in Nat /\ T[u] <= T2[u]

StatesGrow(S, S2) ==
  /\ Len(S) \in Nat /\ Len(S2) \in Nat /\ Len(S) <= Len(S2)
  /\ \A v \in 1..Len(S) : S2[v] = S[v]

Roots(L) == \A u \in User : \A i \in 1..Len(L[u]) : L[u][i].root \in Nat

LEMMA MembersGrow ==
  ASSUME NEW M, NEW L, NEW L2, NEW T, NEW T2, Roots(L),
         ListsGrow(L, L2), TrustGrows(T, T2), MembersRight(M, L, T)
  PROVE  MembersRight(M, L2, T2)
  <1>1. DOMAIN M \subseteq User
    BY DEF MembersRight
  <1>2. ASSUME NEW u \in DOMAIN M
        PROVE  M[u] \in 1..Len(L2[u]) /\ L2[u][M[u]].root <= T2[u]
    <2>1. u \in User /\ M[u] \in 1..Len(L[u]) /\ L[u][M[u]].root <= T[u]
      BY <1>1, <1>2 DEF MembersRight
    <2>2. L[u][M[u]].root \in Nat
      BY <2>1 DEF Roots
    <2>3. L2[u][M[u]] = L[u][M[u]] /\ M[u] \in 1..Len(L2[u])
      BY <2>1 DEF ListsGrow
    <2> QED BY <2>1, <2>2, <2>3 DEF TrustGrows
  <1> QED BY <1>1, <1>2 DEF MembersRight

LEMMA RecipientsGrow ==
  ASSUME NEW R, NEW M, NEW L, NEW L2, NEW T, ListsGrow(L, L2),
         MembersRight(M, L, T), RecipientsRight(R, M, L)
  PROVE  RecipientsRight(R, M, L2)
  BY DEF RecipientsRight, MembersRight, ListsGrow

LEMMA StateGrows ==
  ASSUME NEW s, NEW v, NEW L, NEW L2, NEW T, NEW T2, Roots(L),
         ListsGrow(L, L2), TrustGrows(T, T2), StateRight(s, v, L, T)
  PROVE  StateRight(s, v, L2, T2)
  BY MembersGrow, RecipientsGrow DEF StateRight

\* Lists and trust grow.
LEMMA StatesStay ==
  ASSUME NEW S, NEW L, NEW L2, NEW T, NEW T2, Roots(L),
         ListsGrow(L, L2), TrustGrows(T, T2), StatesRight(S, L, T)
  PROVE  StatesRight(S, L2, T2)
  BY StateGrows DEF StatesRight

LEMMA ItemGrows ==
  ASSUME NEW item, NEW S, NEW S2, NEW L, NEW L2, NEW T,
         ListsGrow(L, L2), StatesGrow(S, S2), StatesRight(S, L, T), ItemRight(item, S, L)
  PROVE  ItemRight(item, S2, L2)
  <1>1. item.version \in 1..Len(S) /\ item.version \in 1..Len(S2)
    BY DEF ItemRight, StatesGrow
  <1>2. S2[item.version] = S[item.version] /\ MembersRight(S[item.version].members, L, T)
    BY <1>1 DEF StatesGrow, StatesRight, StateRight
  <1> QED BY <1>1, <1>2 DEF ItemRight, MembersRight, ListsGrow

LEMMA ItemsStay ==
  ASSUME NEW I, NEW S, NEW S2, NEW L, NEW L2, NEW T,
         ListsGrow(L, L2), StatesGrow(S, S2), StatesRight(S, L, T), ItemsRight(I, S, L)
  PROVE  ItemsRight(I, S2, L2)
  BY ItemGrows DEF ItemsRight

LEMMA CacheGrows ==
  ASSUME NEW c, NEW S, NEW S2, NEW n \in Nat, NEW n2 \in Nat, n <= n2, StatesGrow(S, S2),
         CacheRight(c, S, n)
  PROVE  CacheRight(c, S2, n2)
  BY DEF CacheRight, StatesGrow

LEMMA KeptGrows ==
  ASSUME NEW op, NEW L, NEW L2, NEW n \in Nat, NEW n2 \in Nat, n <= n2, ListsGrow(L, L2),
         KeptRight(op, L, n)
  PROVE  KeptRight(op, L2, n2)
  <1>1. \A u \in DOMAIN op.bundles : op.bundles[u] \in 1..Len(L2[u])
    BY DEF KeptRight, ListsGrow
  <1>2. op.page.sequence \in 0..n2 /\ op.page.last \in 0..n2
    BY DEF KeptRight
  <1> QED BY <1>1, <1>2 DEF KeptRight

LEMMA StageGrows ==
  ASSUME NEW op, NEW k, NEW d, NEW L, NEW L2, NEW T, NEW T2, NEW S, NEW S2, Roots(L),
         ListsGrow(L, L2), TrustGrows(T, T2), StatesGrow(S, S2), k \in 0..Len(S),
         StageRight(op, k, d, L, T, S)
  PROVE  StageRight(op, k, d, L2, T2, S2)
  <1>1. \A w \in 1..k : S2[w] = S[w]
    BY DEF StatesGrow
  <1>2. op.at = "recipients" => MembersRight(op.body.members, L2, T2)
    BY MembersGrow DEF StageRight
  <1>3. ASSUME op.at = "commit" PROVE NextRight(op, k, d, L2, T2, S2)
    <2>1. NextRight(op, k, d, L, T, S)
      BY <1>3 DEF StageRight
    <2>2. /\ MembersRight(op.body.members, L2, T2)
          /\ RecipientsRight(op.body.recipients, op.body.members, L2)
      BY <2>1, MembersGrow, RecipientsGrow DEF NextRight
    <2>3. k > 0 => S2[k] = S[k]
      BY <1>1 DEF StatesGrow
    <2> QED BY <2>1, <2>2, <2>3 DEF NextRight
  <1>4. ASSUME op.at = "commitItem" PROVE SealRight(op.body, k, d, S2)
    <2>1. SealRight(op.body, k, d, S)
      BY <1>4 DEF StageRight
    <2>2. PICK w \in 1..k : MadeKey(S, w, k) /\ S[w].author \in DOMAIN S[k].members
      BY <2>1 DEF SealRight
    <2>3. MadeKey(S2, w, k) /\ S2[w].author \in DOMAIN S2[k].members
      BY <1>1, <2>1, <2>2 DEF MadeKey, SealRight, StatesGrow
    <2>4. S2[k] = S[k]
      BY <1>1, <2>1 DEF SealRight, StatesGrow
    <2> QED BY <2>1, <2>3, <2>4 DEF SealRight
  <1> QED BY <1>2, <1>3, <1>4 DEF StageRight

LEMMA ClientGrows ==
  ASSUME NEW c, NEW d, NEW L, NEW L2, NEW T, NEW T2, NEW S, NEW S2, NEW n \in Nat,
         NEW n2 \in Nat, n <= n2, Roots(L), ListsGrow(L, L2), TrustGrows(T, T2),
         StatesGrow(S, S2), ClientRight(c, d, L, T, S, n)
  PROVE  ClientRight(c, d, L2, T2, S2, n2)
  <1>1. c.known \in 0..Len(S)
    BY DEF ClientRight, CacheRight
  <1> QED BY <1>1, CacheGrows, KeptGrows, StageGrows DEF ClientRight

-----------------------------------------------------------------------------
(* The steps of a client *)

\* Stages of which nothing is to be said.
Loose(op) == \/ op.at \in {"idle", "page", "items", "write"}
             \/ op.at = "keys" /\ op.then # "take"

LEMMA LooseStage ==
  ASSUME NEW op, NEW k, NEW d, NEW L, NEW T, NEW S, Loose(op)
  PROVE  StageRight(op, k, d, L, T, S)
  BY DEF Loose, StageRight

LEMMA NoOpRight ==
  ASSUME NEW L, NEW n \in Nat
  PROVE  KeptRight(NoOp, L, n) /\ Loose(NoOp) /\ NoOp.wanted = {} /\ NoOp.then = "look"
  BY RoomAssumption DEF NoOp, NoState, KeptRight, Loose

\* Another operation, or another stage of it.
LEMMA SetOp ==
  ASSUME NEW c, NEW o, NEW d, NEW L, NEW T, NEW S, NEW n,
         CacheRight(c, S, n), KeptRight(o, L, n), StageRight(o, c.known, d, L, T, S)
  PROVE  /\ ClientRight([c EXCEPT !.op = o], d, L, T, S, n)
         /\ [c EXCEPT !.op = o].op = o
         /\ CacheRight([c EXCEPT !.op = o], S, n)
  <1> DEFINE e == [c EXCEPT !.op = o]
  <1>1. /\ DOMAIN e = DOMAIN c /\ e.op = o /\ e.known = c.known /\ e.sequence = c.sequence
        /\ e.got = c.got /\ e.loaded = c.loaded /\ e.wanted = c.wanted
    BY DEF CacheRight
  <1> HIDE DEF e
  <1>2. CacheRight(e, S, n)
    BY <1>1 DEF CacheRight
  <1>3. ClientRight(e, d, L, T, S, n)
    BY <1>1, <1>2 DEF ClientRight
  <1> QED BY <1>1, <1>2, <1>3 DEF e

LEMMA EndedRight ==
  ASSUME NEW c, NEW d, NEW L, NEW T, NEW S, NEW n \in Nat, CacheRight(c, S, n)
  PROVE  /\ ClientRight(Ended(c), d, L, T, S, n)
         /\ CacheRight(Ended(c), S, n) /\ Ended(c).op = NoOp
  BY SetOp, NoOpRight, LooseStage DEF Ended

LEMMA ForgottenRight ==
  ASSUME NEW c, NEW d, NEW L, NEW T, NEW S, NEW n \in Nat, CacheRight(c, S, n),
         Len(S) \in Nat
  PROVE  ClientRight(Forgotten(c), d, L, T, S, n)
  <1> DEFINE e == Ended(c)
             f == [e EXCEPT !.known = 0, !.checked = FALSE, !.loaded = FALSE,
                            !.sequence = 0, !.got = {}]
  <1>1. CacheRight(e, S, n) /\ e.op = NoOp
    BY EndedRight
  <1>2. Forgotten(c) = f
    BY DEF Forgotten
  <1> HIDE DEF e
  <1>3. /\ DOMAIN f = DOMAIN e /\ f.op = NoOp /\ f.known = 0 /\ f.loaded = FALSE
        /\ f.sequence = 0 /\ f.got = {} /\ f.wanted = e.wanted
    BY <1>1 DEF CacheRight
  <1> HIDE DEF f
  <1>4. CacheRight(f, S, n)
    BY <1>1, <1>3 DEF CacheRight
  <1> QED BY <1>2, <1>3, <1>4, NoOpRight, LooseStage DEF ClientRight

LEMMA MissingRight ==
  ASSUME NEW c, NEW d, NEW L, NEW T, NEW S, NEW n \in Nat, CacheRight(c, S, n),
         Len(S) \in Nat
  PROVE  ClientRight(Missing(c), d, L, T, S, n)
  BY EndedRight, ForgottenRight DEF Missing

LEMMA WantsRight ==
  ASSUME NEW V, NEW W, V \subseteq Nat, W \subseteq Nat
  PROVE  AtMostOne(Wants(V, W))
  <1>1. CASE 0 \in V \cup W
    <2>1. Wants(V, W) = {0}
      BY <1>1 DEF Wants
    <2> QED BY <2>1 DEF AtMostOne
  <1>2. CASE 0 \notin V \cup W
    <2>1. Wants(V, W) = {n \in V \cup W : \A m \in V \cup W : m <= n}
      BY <1>2 DEF Wants
    <2>2. Wants(V, W) \subseteq Nat
      BY <2>1
    <2>3. ASSUME NEW x \in Wants(V, W), NEW y \in Wants(V, W) PROVE x = y
      <3>1. x \in Nat /\ y \in Nat /\ x <= y /\ y <= x
        BY <2>1
      <3> QED BY <3>1
    <2> QED BY <2>2, <2>3 DEF AtMostOne
  <1> QED BY <1>1, <1>2

\* What waits and what is known to be stale changes nothing else.
LEMMA SetWaiting ==
  ASSUME NEW c, NEW e, NEW d, NEW L, NEW T, NEW S, NEW n,
         ClientRight(c, d, L, T, S, n), DOMAIN e = DOMAIN c, e.op = c.op,
         e.known = c.known, e.sequence = c.sequence, e.got = c.got, e.loaded = c.loaded,
         AtMostOne(e.wanted)
  PROVE  ClientRight(e, d, L, T, S, n)
  <1>1. CacheRight(e, S, n)
    BY DEF CacheRight, ClientRight
  <1> QED BY <1>1 DEF ClientRight

LEMMA RetriedRight ==
  ASSUME NEW c, NEW d, NEW L, NEW T, NEW S, NEW n \in Nat, CacheRight(c, S, n),
         c.op.wanted \subseteq Nat
  PROVE  ClientRight(Retried(c), d, L, T, S, n)
  <1> DEFINE e == Ended(c)
             f == [e EXCEPT !.missions = TRUE, !.wanted = Wants(@, c.op.wanted)]
             g == [e EXCEPT !.wanted = Wants(@, c.op.wanted)]
  <1>1. CacheRight(e, S, n) /\ ClientRight(e, d, L, T, S, n)
    BY EndedRight
  <1>2. Retried(c) \in {e, f, g}
    BY DEF Retried
  <1> HIDE DEF e
  <1>3. e.wanted \subseteq Nat
    BY <1>1 DEF CacheRight, AtMostOne
  <1> DEFINE W == Wants(e.wanted, c.op.wanted)
  <1>4. AtMostOne(W)
    BY <1>3, WantsRight
  <1>5. /\ f = [e EXCEPT !.missions = TRUE, !.wanted = W]
        /\ g = [e EXCEPT !.wanted = W]
    OBVIOUS
  <1> HIDE DEF W
  <1>6. /\ DOMAIN f = DOMAIN e /\ f.op = e.op /\ f.known = e.known
        /\ f.sequence = e.sequence /\ f.got = e.got /\ f.loaded = e.loaded /\ f.wanted = W
    BY <1>1, <1>5 DEF CacheRight
  <1>7. /\ DOMAIN g = DOMAIN e /\ g.op = e.op /\ g.known = e.known
        /\ g.sequence = e.sequence /\ g.got = e.got /\ g.loaded = e.loaded /\ g.wanted = W
    BY <1>1, <1>5 DEF CacheRight
  <1> HIDE DEF f, g
  <1>8. ClientRight(f, d, L, T, S, n)
    BY <1>1, <1>4, <1>6, SetWaiting
  <1>9. ClientRight(g, d, L, T, S, n)
    BY <1>1, <1>4, <1>7, SetWaiting
  <1> QED BY <1>1, <1>2, <1>8, <1>9

\* An operation that goes on: only where it is has changed.
LEMMA KeptOp ==
  ASSUME NEW op, NEW o, NEW L, NEW n, KeptRight(op, L, n), DOMAIN o = DOMAIN op,
         o.who = op.who, o.wanted = op.wanted, o.bundles = op.bundles, o.keys = op.keys,
         o.body = op.body, o.page = op.page, o.tries \in 0..3
  PROVE  KeptRight(o, L, n)
  BY DEF KeptRight

LEMMA SetAt ==
  ASSUME NEW c, NEW a, NEW d, NEW L, NEW T, NEW S, NEW n,
         CacheRight(c, S, n), KeptRight(c.op, L, n),
         StageRight([c.op EXCEPT !.at = a], c.known, d, L, T, S)
  PROVE  ClientRight([c EXCEPT !.op.at = a], d, L, T, S, n)
  <1> DEFINE o == [c.op EXCEPT !.at = a]
  <1>1. /\ DOMAIN o = DOMAIN c.op /\ o.who = c.op.who /\ o.wanted = c.op.wanted
        /\ o.bundles = c.op.bundles /\ o.keys = c.op.keys /\ o.body = c.op.body
        /\ o.page = c.op.page /\ o.tries = c.op.tries
    BY DEF KeptRight
  <1>2. KeptRight(o, L, n)
    <2> HIDE DEF o
    <2> QED BY <1>1, KeptOp DEF KeptRight
  <1>3. [c EXCEPT !.op.at = a] = [c EXCEPT !.op = o]
    OBVIOUS
  <1> HIDE DEF o
  <1>4. ClientRight([c EXCEPT !.op = o], d, L, T, S, n)
    BY <1>2, SetOp DEF o
  <1> QED BY <1>3, <1>4

LEMMA SetAtLoose ==
  ASSUME NEW c, NEW a \in {"page", "items", "write"}, NEW d, NEW L, NEW T, NEW S, NEW n,
         CacheRight(c, S, n), KeptRight(c.op, L, n)
  PROVE  ClientRight([c EXCEPT !.op.at = a], d, L, T, S, n)
  <1>1. Loose([c.op EXCEPT !.at = a])
    BY DEF Loose, KeptRight
  <1> QED BY <1>1, LooseStage, SetAt

LEMMA KeysReadyRight ==
  ASSUME NEW c, NEW d, NEW L, NEW T, NEW S, NEW n \in Nat,
         CacheRight(c, S, n), KeptRight(c.op, L, n)
  PROVE  ClientRight(KeysReady(c), d, L, T, S, n)
  <1>1. KeysReady(c) \in {Ended(c), [c EXCEPT !.op.at = "write"], [c EXCEPT !.op.at = "page"]}
    BY DEF KeysReady
  <1>2. ClientRight(Ended(c), d, L, T, S, n)
    BY EndedRight
  <1>3. /\ ClientRight([c EXCEPT !.op.at = "write"], d, L, T, S, n)
        /\ ClientRight([c EXCEPT !.op.at = "page"], d, L, T, S, n)
    BY SetAtLoose
  <1> QED BY <1>1, <1>2, <1>3

LEMMA StartRight ==
  ASSUME NEW c, NEW op, NEW fresh, NEW d, NEW L, NEW T, NEW S, NEW n \in Nat,
         CacheRight(c, S, n), KeptRight(op, L, n), op.then = "look"
  PROVE  /\ ClientRight(StartUnforced(c, op, fresh), d, L, T, S, n)
         /\ ClientRight([c EXCEPT !.op = [op EXCEPT !.at = "keys"]], d, L, T, S, n)
  <1> DEFINE o == [op EXCEPT !.at = "keys"]
             e == [c EXCEPT !.op = o]
  <1>1. /\ DOMAIN o = DOMAIN op /\ o.who = op.who /\ o.wanted = op.wanted
        /\ o.bundles = op.bundles /\ o.keys = op.keys /\ o.body = op.body
        /\ o.page = op.page /\ o.tries = op.tries /\ o.at = "keys" /\ o.then = "look"
    BY DEF KeptRight
  <1>2. StartUnforced(c, op, fresh) \in {KeysReady(e), e}
    BY DEF StartUnforced
  <1> HIDE DEF o
  <1>3. KeptRight(o, L, n)
    BY <1>1, KeptOp DEF KeptRight
  <1>4. StageRight(o, c.known, d, L, T, S)
    BY <1>1, LooseStage DEF Loose
  <1>5. CacheRight(e, S, n) /\ e.op = o /\ ClientRight(e, d, L, T, S, n)
    BY <1>3, <1>4, SetOp
  <1> HIDE DEF e
  <1>6. ClientRight(KeysReady(e), d, L, T, S, n)
    BY <1>3, <1>5, KeysReadyRight
  <1> QED BY <1>2, <1>5, <1>6 DEF e, o

\* The content changes, and nothing else.
LEMMA SetContent ==
  ASSUME NEW c, NEW e, NEW d, NEW L, NEW T, NEW S, NEW n,
         ClientRight(c, d, L, T, S, n), DOMAIN e = DOMAIN c, e.op = c.op,
         e.known = c.known, e.wanted = c.wanted, e.sequence \in 0..n, e.got \subseteq 1..n,
         e.loaded => 1..e.sequence \subseteq e.got
  PROVE  ClientRight(e, d, L, T, S, n)
  <1>1. CacheRight(e, S, n)
    BY DEF CacheRight, ClientRight
  <1> QED BY <1>1 DEF ClientRight

LEMMA TakenRight ==
  ASSUME NEW c, NEW d, NEW v, NEW L, NEW T, NEW S, NEW n \in Nat,
         CacheRight(c, S, n), KeptRight(c.op, L, n),
         c.op.page.sequence <= c.op.page.last
  PROVE  ClientRight(Taken(c, d, v), d, L, T, S, n)
  <1> DEFINE last == c.op.page.last
             from == IF c.loaded THEN c.sequence ELSE 0
             good == {m \in (from + 1)..last : \A i \in (from + 1)..m : Opens(d, v, i)}
             all == good = (from + 1)..last
             next == IF c.op.kind = "post" THEN [c EXCEPT !.op.at = "write"] ELSE Ended(c)
             a1 == [next EXCEPT !.got = @ \cup good, !.sequence = last]
             a2 == [Ended(c) EXCEPT !.got = @ \cup good]
             a3 == [next EXCEPT !.loaded = TRUE, !.got = good,
                                !.sequence = c.op.page.sequence]
  <1>1. \/ c.loaded /\ all /\ Taken(c, d, v) = a1
        \/ c.loaded /\ Taken(c, d, v) = a2
        \/ ~c.loaded /\ all /\ Taken(c, d, v) = a3
        \/ Taken(c, d, v) = Ended(c)
    BY Zenon DEF Taken
  <1>2. /\ ClientRight(Ended(c), d, L, T, S, n)
        /\ ClientRight([c EXCEPT !.op.at = "write"], d, L, T, S, n)
    BY EndedRight, SetAtLoose
  <1>3. ClientRight(next, d, L, T, S, n)
    BY <1>2
  <1>4. /\ DOMAIN next = DOMAIN c /\ next.got = c.got
        /\ DOMAIN Ended(c) = DOMAIN c /\ Ended(c).got = c.got
        /\ Ended(c).sequence = c.sequence /\ Ended(c).loaded = c.loaded
    BY DEF CacheRight, Ended
  <1>5. /\ c.sequence \in 0..n /\ c.got \subseteq 1..n /\ last \in 0..n
        /\ c.op.page.sequence \in 0..n /\ c.op.page.sequence <= last
        /\ c.loaded => 1..c.sequence \subseteq c.got
        /\ DOMAIN c = {"link", "missions", "wanted", "known", "checked", "loaded",
                       "sequence", "got", "op"}
    BY DEF CacheRight, KeptRight
  <1>6. good \subseteq (from + 1)..last /\ from \in 0..n /\ good \subseteq 1..n
    BY <1>5
  <1>7. /\ c.loaded => from = c.sequence
        /\ ~c.loaded => from = 0
    OBVIOUS
  <1> HIDE DEF good, from, next, last
  <1>8. CASE c.loaded /\ all /\ Taken(c, d, v) = a1
    <2> DEFINE G == c.got \cup good
    <2>1. G \subseteq 1..n /\ 1..last \subseteq G
      BY <1>5, <1>6, <1>7, <1>8
    <2>2. a1 = [next EXCEPT !.got = G, !.sequence = last]
      BY <1>4
    <2> HIDE DEF G
    <2>3. /\ DOMAIN a1 = DOMAIN next /\ a1.op = next.op /\ a1.known = next.known
          /\ a1.wanted = next.wanted /\ a1.sequence = last /\ a1.got = G
      BY <1>4, <1>5, <2>2
    <2> HIDE DEF a1
    <2>4. ClientRight(a1, d, L, T, S, n)
      BY <1>3, <1>5, <2>1, <2>3, SetContent
    <2> QED BY <1>8, <2>4
  <1>9. CASE c.loaded /\ Taken(c, d, v) = a2
    <2> DEFINE G == c.got \cup good
    <2>1. G \subseteq 1..n /\ 1..c.sequence \subseteq G
      BY <1>5, <1>6, <1>9
    <2>2. a2 = [Ended(c) EXCEPT !.got = G]
      BY <1>4
    <2> HIDE DEF G
    <2>3. /\ DOMAIN a2 = DOMAIN Ended(c) /\ a2.op = Ended(c).op
          /\ a2.known = Ended(c).known /\ a2.wanted = Ended(c).wanted
          /\ a2.sequence = c.sequence /\ a2.got = G
      BY <1>4, <1>5, <2>2
    <2> HIDE DEF a2
    <2>4. ClientRight(a2, d, L, T, S, n)
      BY <1>2, <1>5, <2>1, <2>3, SetContent
    <2> QED BY <1>9, <2>4
  <1>10. CASE ~c.loaded /\ all /\ Taken(c, d, v) = a3
    <2>1. 1..c.op.page.sequence \subseteq good
      BY <1>5, <1>7, <1>10
    <2>2. /\ DOMAIN a3 = DOMAIN next /\ a3.op = next.op /\ a3.known = next.known
          /\ a3.wanted = next.wanted /\ a3.sequence = c.op.page.sequence /\ a3.got = good
      BY <1>4, <1>5
    <2> HIDE DEF a3
    <2>3. ClientRight(a3, d, L, T, S, n)
      BY <1>3, <1>5, <1>6, <2>1, <2>2, SetContent
    <2> QED BY <1>10, <2>3
  <1> QED BY <1>1, <1>2, <1>8, <1>9, <1>10

\* The item that a device wrote is the last one.
LEMMA AbsorbedRight ==
  ASSUME NEW c, NEW S, NEW n \in Nat, CacheRight(c, S, n)
  PROVE  CacheRight(Absorbed(c, n + 1), S, n + 1)
  <1>1. CacheRight(c, S, n + 1)
    BY DEF CacheRight
  <1>2. CASE c.loaded /\ n + 1 = c.sequence + 1
    <2> DEFINE G == c.got \cup {n + 1}
               e == [c EXCEPT !.got = G, !.sequence = n + 1]
    <2>1. Absorbed(c, n + 1) = e
      BY <1>2 DEF Absorbed
    <2>2. G \subseteq 1..(n + 1) /\ 1..(n + 1) \subseteq G
      BY <1>2 DEF CacheRight
    <2> HIDE DEF G
    <2>3. /\ DOMAIN e = DOMAIN c /\ e.known = c.known /\ e.wanted = c.wanted
          /\ e.sequence = n + 1 /\ e.got = G
      BY DEF CacheRight
    <2> HIDE DEF e
    <2>4. CacheRight(e, S, n + 1)
      BY <2>2, <2>3 DEF CacheRight
    <2> QED BY <2>1, <2>4
  <1>3. CASE ~(c.loaded /\ n + 1 = c.sequence + 1)
    BY <1>1, <1>3 DEF Absorbed
  <1> QED BY <1>2, <1>3

LEMMA SetChecked ==
  ASSUME NEW c, NEW b, NEW S, NEW n, CacheRight(c, S, n)
  PROVE  CacheRight([c EXCEPT !.checked = b], S, n) /\ [c EXCEPT !.checked = b].op = c.op
  <1> DEFINE e == [c EXCEPT !.checked = b]
  <1>1. /\ DOMAIN e = DOMAIN c /\ e.op = c.op /\ e.known = c.known
        /\ e.sequence = c.sequence /\ e.got = c.got /\ e.loaded = c.loaded
        /\ e.wanted = c.wanted
    BY DEF CacheRight
  <1> HIDE DEF e
  <1>2. CacheRight(e, S, n)
    BY <1>1 DEF CacheRight
  <1> QED BY <1>1, <1>2 DEF e

LEMMA AfterKeysRight ==
  ASSUME NEW c, NEW d, NEW v, NEW L, NEW T, NEW S, NEW n \in Nat,
         CacheRight(c, S, n), KeptRight(c.op, L, n), c.known >= 1,
         c.op.then = "take" => c.op.page.sequence <= c.op.page.last
  PROVE  ClientRight(AfterKeys(c, d, v), d, L, T, S, n)
  <1> DEFINE e == [c EXCEPT !.checked = TRUE]
             a == [c EXCEPT !.op.at = "write"]
             b == [c EXCEPT !.op.at = "standing"]
  <1>1. \/ AfterKeys(c, d, v) \in {KeysReady(e), a, b, Ended(c), KeysReady(c)}
        \/ c.op.then = "take" /\ AfterKeys(c, d, v) = Taken(c, d, v)
    BY DEF AfterKeys
  <1>2. CacheRight(e, S, n) /\ e.op = c.op
    BY SetChecked
  <1>3. ClientRight(KeysReady(e), d, L, T, S, n)
    <2> HIDE DEF e
    <2> QED BY <1>2, KeysReadyRight
  <1>4. ClientRight(KeysReady(c), d, L, T, S, n) /\ ClientRight(Ended(c), d, L, T, S, n)
    BY KeysReadyRight, EndedRight
  <1>5. ClientRight(a, d, L, T, S, n)
    BY SetAtLoose
  <1>6. StageRight([c.op EXCEPT !.at = "standing"], c.known, d, L, T, S)
    <2> DEFINE o == [c.op EXCEPT !.at = "standing"]
    <2>1. o.at = "standing"
      BY DEF KeptRight
    <2> HIDE DEF o
    <2>2. StageRight(o, c.known, d, L, T, S)
      BY <2>1 DEF StageRight
    <2> QED BY <2>2 DEF o
  <1>7. ClientRight(b, d, L, T, S, n)
    BY <1>6, SetAt
  <1>8. c.op.then = "take" => ClientRight(Taken(c, d, v), d, L, T, S, n)
    BY TakenRight
  <1> HIDE DEF e, a, b
  <1> QED BY <1>1, <1>3, <1>4, <1>5, <1>7, <1>8

LEMMA KeysReadRight ==
  ASSUME NEW c, NEW d, NEW L, NEW T, NEW n \in Nat, Len(states) \in Nat,
         ClientRight(c, d, L, T, states, n), c.op.at = "keys"
  PROVE  ClientRight(KeysRead(c, d), d, L, T, states, n)
  <1> DEFINE v == Len(states)
             o == IF c.op.body.version = 1 THEN [c.op EXCEPT !.tries = 0, !.body = NoState]
                  ELSE c.op
             e == [c EXCEPT !.known = v, !.op = o]
             f == [c EXCEPT !.op.at = "first"]
  <1>1. \/ KeysRead(c, d) \in {Missing(c), Ended(c)}
        \/ v = 0 /\ Of(d) = Owner /\ c.op.tries # 3 /\ KeysRead(c, d) = f
        \/ v # 0 /\ KeysRead(c, d) = AfterKeys(e, d, v)
    BY DEF KeysRead
  <1>2. /\ CacheRight(c, states, n) /\ KeptRight(c.op, L, n)
        /\ c.op.then = "take" => c.op.page.sequence <= c.op.page.last
    BY DEF ClientRight, StageRight
  <1>3. ClientRight(Missing(c), d, L, T, states, n) /\ ClientRight(Ended(c), d, L, T, states, n)
    BY <1>2, MissingRight, EndedRight
  <1>4. ASSUME v = 0, Of(d) = Owner, c.op.tries # 3
        PROVE  ClientRight(f, d, L, T, states, n)
    <2> DEFINE p == [c.op EXCEPT !.at = "first"]
    <2>1. p.at = "first" /\ p.tries = c.op.tries
      BY <1>2 DEF KeptRight
    <2>2. c.known = 0 /\ c.op.tries \in 0..3
      BY <1>2, <1>4 DEF CacheRight, KeptRight
    <2> HIDE DEF p
    <2>3. StageRight(p, c.known, d, L, T, states)
      BY <1>4, <2>1, <2>2 DEF StageRight
    <2>4. StageRight([c.op EXCEPT !.at = "first"], c.known, d, L, T, states)
      BY <2>3 DEF p
    <2> QED BY <1>2, <2>4, SetAt
  <1>5. ASSUME v # 0 PROVE ClientRight(AfterKeys(e, d, v), d, L, T, states, n)
    <2>1. /\ DOMAIN o = DOMAIN c.op /\ o.who = c.op.who /\ o.wanted = c.op.wanted
          /\ o.bundles = c.op.bundles /\ o.keys = c.op.keys /\ o.body \in {NoState, c.op.body}
          /\ o.page = c.op.page /\ o.tries \in {0, c.op.tries} /\ o.then = c.op.then
      BY <1>2 DEF KeptRight
    <2> HIDE DEF o
    <2>2. /\ DOMAIN e = DOMAIN c /\ e.op = o /\ e.known = v
          /\ e.sequence = c.sequence /\ e.got = c.got /\ e.loaded = c.loaded
          /\ e.wanted = c.wanted
      BY <1>2 DEF CacheRight
    <2> HIDE DEF e
    <2>3. CacheRight(e, states, n)
      BY <1>2, <2>2 DEF CacheRight
    <2>4. KeptRight(o, L, n)
      BY <1>2, <2>1 DEF KeptRight, NoState
    <2>5. KeptRight(e.op, L, n) /\ e.known >= 1
      BY <1>5, <2>2, <2>4
    <2> QED BY <1>2, <2>1, <2>2, <2>3, <2>5, AfterKeysRight
  <1> HIDE DEF e, f
  <1> QED BY <1>1, <1>3, <1>4, <1>5

\* The answer to the request for a new state.
LEMMA AnsweredRight ==
  ASSUME NEW c, NEW r \in {"missing", "invalid", "ok", "conflict"}, NEW d, NEW L, NEW T,
         NEW S, NEW n \in Nat, Len(S) \in Nat,
         ClientRight(c, d, L, T, S, n), c.op.at = "commit"
  PROVE  ClientRight(Answered(c, r), d, L, T, S, n)
  <1> DEFINE o1 == [c.op EXCEPT !.at = "keys", !.then = "look", !.tries = @ + 1]
             o2 == [c.op EXCEPT !.at = "keys", !.then = "mark"]
             e1 == [c EXCEPT !.op.at = "keys", !.op.then = "look", !.op.tries = @ + 1]
             e2 == [c EXCEPT !.op.at = "keys", !.op.then = "mark"]
  <1>1. \/ Answered(c, r) \in {Missing(c), Ended(c), Retried(c), e2}
        \/ (c.op.body.version = 1 \/ c.op.tries < 2) /\ Answered(c, r) = e1
    <2>1. c.op.tries \in Nat
      BY DEF ClientRight, KeptRight
    <2> QED BY <2>1 DEF Answered
  <1>2. /\ CacheRight(c, S, n) /\ KeptRight(c.op, L, n) /\ c.op.wanted \subseteq Nat
        /\ NextRight(c.op, c.known, d, L, T, S)
    BY DEF ClientRight, StageRight, KeptRight
  <1>3. /\ ClientRight(Missing(c), d, L, T, S, n)
        /\ ClientRight(Ended(c), d, L, T, S, n)
        /\ ClientRight(Retried(c), d, L, T, S, n)
    BY <1>2, MissingRight, EndedRight, RetriedRight
  <1>4. ASSUME c.op.body.version = 1 \/ c.op.tries < 2
        PROVE  ClientRight(e1, d, L, T, S, n)
    <2>1. /\ DOMAIN o1 = DOMAIN c.op /\ o1.who = c.op.who /\ o1.wanted = c.op.wanted
          /\ o1.bundles = c.op.bundles /\ o1.keys = c.op.keys /\ o1.body = c.op.body
          /\ o1.page = c.op.page /\ o1.tries = c.op.tries + 1 /\ o1.then = "look"
          /\ o1.at = "keys"
      BY <1>2 DEF KeptRight
    <2>2. e1 = [c EXCEPT !.op = o1]
      BY <1>2 DEF CacheRight, KeptRight
    <2> HIDE DEF o1, e1
    <2>3. c.op.tries \in 0..2
      BY <1>2, <1>4 DEF KeptRight, NextRight, CacheRight
    <2>4. KeptRight(o1, L, n) /\ StageRight(o1, c.known, d, L, T, S)
      BY <1>2, <2>1, <2>3, KeptOp, LooseStage DEF Loose
    <2> QED BY <1>2, <2>2, <2>4, SetOp
  <1>5. ClientRight(e2, d, L, T, S, n)
    <2>1. /\ DOMAIN o2 = DOMAIN c.op /\ o2.who = c.op.who /\ o2.wanted = c.op.wanted
          /\ o2.bundles = c.op.bundles /\ o2.keys = c.op.keys /\ o2.body = c.op.body
          /\ o2.page = c.op.page /\ o2.tries = c.op.tries /\ o2.then = "mark"
          /\ o2.at = "keys"
      BY <1>2 DEF KeptRight
    <2>2. e2 = [c EXCEPT !.op = o2]
      BY <1>2 DEF CacheRight, KeptRight
    <2> HIDE DEF o2, e2
    <2>3. c.op.tries \in 0..3
      BY <1>2 DEF KeptRight
    <2>4. KeptRight(o2, L, n) /\ StageRight(o2, c.known, d, L, T, S)
      BY <1>2, <2>1, <2>3, KeptOp, LooseStage DEF Loose
    <2> QED BY <1>2, <2>2, <2>4, SetOp
  <1> HIDE DEF e1, e2
  <1> QED BY <1>1, <1>3, <1>4, <1>5

\* The answer to the request that stores an item.
LEMMA ItemAnsweredRight ==
  ASSUME NEW c, NEW r \in {"missing", "conflict", "ok"}, NEW d, NEW L, NEW T, NEW S,
         Len(items) \in Nat, ClientRight(c, d, L, T, S, Len(items))
  PROVE  /\ r # "ok" => ClientRight(ItemAnswered(c, r), d, L, T, S, Len(items))
         /\ r = "ok" => ClientRight(ItemAnswered(c, r), d, L, T, S, Len(items) + 1)
  <1> DEFINE n == Len(items)
             e == [c EXCEPT !.op.at = "keys", !.op.then = "write", !.op.renewed = FALSE,
                            !.op.again = c.op.body.version]
             o == [c.op EXCEPT !.at = "keys", !.then = "write", !.renewed = FALSE,
                               !.again = c.op.body.version]
  <1>1. /\ r # "ok" => ItemAnswered(c, r) \in {e, Ended(c)}
        /\ r = "ok" => ItemAnswered(c, r) = Ended(Absorbed(c, n + 1))
    BY DEF ItemAnswered
  <1>2. CacheRight(c, S, n) /\ KeptRight(c.op, L, n)
    BY DEF ClientRight
  <1>3. ClientRight(Ended(c), d, L, T, S, n)
    BY <1>2, EndedRight
  <1>4. ClientRight(Ended(Absorbed(c, n + 1)), d, L, T, S, n + 1)
    <2>1. CacheRight(Absorbed(c, n + 1), S, n + 1)
      BY <1>2, AbsorbedRight
    <2> QED BY <2>1, EndedRight
  <1>5. ClientRight(e, d, L, T, S, n)
    <2>1. /\ DOMAIN o = DOMAIN c.op /\ o.who = c.op.who /\ o.wanted = c.op.wanted
          /\ o.bundles = c.op.bundles /\ o.keys = c.op.keys /\ o.body = c.op.body
          /\ o.page = c.op.page /\ o.tries = c.op.tries /\ o.then = "write"
          /\ o.at = "keys"
      BY <1>2 DEF KeptRight
    <2>2. e = [c EXCEPT !.op = o]
      BY <1>2 DEF CacheRight, KeptRight
    <2> HIDE DEF o, e
    <2>3. c.op.tries \in 0..3
      BY <1>2 DEF KeptRight
    <2>4. KeptRight(o, L, n) /\ StageRight(o, c.known, d, L, T, S)
      BY <1>2, <2>1, <2>3, KeptOp, LooseStage DEF Loose
    <2> QED BY <1>2, <2>2, <2>4, SetOp
  <1> HIDE DEF e
  <1> QED BY <1>1, <1>3, <1>4, <1>5

\* A client that starts.
LEMMA StartedRight ==
  ASSUME NEW up, NEW d, NEW L, NEW T, NEW S, NEW n \in Nat, Len(S) \in Nat
  PROVE  ClientRight(Client(up), d, L, T, S, n)
  <1> DEFINE c == Client(up)
  <1>1. /\ DOMAIN c = {"link", "missions", "wanted", "known", "checked", "loaded",
                       "sequence", "got", "op"}
        /\ c.known = 0 /\ c.sequence = 0 /\ c.got = {} /\ c.loaded = FALSE
        /\ c.wanted = {} /\ c.op = NoOp
    BY DEF Client
  <1> HIDE DEF c
  <1>2. CacheRight(c, S, n)
    BY <1>1 DEF CacheRight, AtMostOne
  <1>3. ClientRight(c, d, L, T, S, n)
    BY <1>1, <1>2, NoOpRight, LooseStage DEF ClientRight
  <1> QED BY <1>3 DEF c

\* Devices are told: only what waits at a device changes.
OnlyTold(c, e, wanted) ==
  /\ DOMAIN e = DOMAIN c /\ e.op = c.op /\ e.known = c.known
  /\ e.sequence = c.sequence /\ e.got = c.got /\ e.loaded = c.loaded
  /\ e.wanted = Wants(c.wanted, wanted)

LEMMA ToldOnly ==
  ASSUME NEW D, NEW E, NEW wanted, wanted \subseteq Nat,
         NEW L, NEW T, NEW S, NEW n, ClientsRight(D, L, T, S, n), DOMAIN E = Device,
         \A d \in Device : E[d] = D[d] \/ OnlyTold(D[d], E[d], wanted)
  PROVE  ClientsRight(E, L, T, S, n)
  <1>1. ASSUME NEW d \in Device PROVE ClientRight(E[d], d, L, T, S, n)
    <2>1. ClientRight(D[d], d, L, T, S, n)
      BY DEF ClientsRight
    <2>2. AtMostOne(Wants(D[d].wanted, wanted))
      <3>1. D[d].wanted \subseteq Nat
        BY <2>1 DEF ClientRight, CacheRight, AtMostOne
      <3> QED BY <3>1, WantsRight
    <2> QED BY <2>1, <2>2, SetWaiting DEF OnlyTold
  <1> QED BY <1>1 DEF ClientsRight

LEMMA ToldRight ==
  ASSUME NEW D, NEW people, NEW wanted, wanted \subseteq Nat,
         NEW L, NEW T, NEW S, NEW n, ClientsRight(D, L, T, S, n)
  PROVE  /\ ClientsRight(Told(D, people, TRUE, wanted), L, T, S, n)
         /\ ClientsRight(Told(D, people, FALSE, wanted), L, T, S, n)
  <1>0. \A d \in Device : DOMAIN D[d] = {"link", "missions", "wanted", "known", "checked",
                                        "loaded", "sequence", "got", "op"}
    BY DEF ClientsRight, ClientRight, CacheRight
  <1>1. ClientsRight(Told(D, people, TRUE, wanted), L, T, S, n)
    <2> DEFINE E == Told(D, people, TRUE, wanted)
    <2>1. DOMAIN E = Device
      BY DEF Told
    <2>2. ASSUME NEW d \in Device
          PROVE  E[d] = D[d] \/ OnlyTold(D[d], E[d], wanted)
      BY <1>0 DEF Told, OnlyTold
    <2> HIDE DEF E
    <2>3. ClientsRight(E, L, T, S, n)
      BY <2>1, <2>2, ToldOnly
    <2> QED BY <2>3 DEF E
  <1>2. ClientsRight(Told(D, people, FALSE, wanted), L, T, S, n)
    <2> DEFINE E == Told(D, people, FALSE, wanted)
    <2>1. DOMAIN E = Device
      BY DEF Told
    <2>2. ASSUME NEW d \in Device
          PROVE  E[d] = D[d] \/ OnlyTold(D[d], E[d], wanted)
      BY <1>0 DEF Told, OnlyTold
    <2> HIDE DEF E
    <2>3. ClientsRight(E, L, T, S, n)
      BY <2>1, <2>2, ToldOnly
    <2> QED BY <2>3 DEF E
  <1> QED BY <1>1, <1>2

\* One device goes on.
LEMMA OneRight ==
  ASSUME NEW D, NEW d \in Device, NEW c, NEW L, NEW T, NEW S, NEW n,
         ClientsRight(D, L, T, S, n), ClientRight(c, d, L, T, S, n)
  PROVE  ClientsRight([D EXCEPT ![d] = c], L, T, S, n)
  BY DEF ClientsRight

LEMMA AllGrow ==
  ASSUME NEW D, NEW L, NEW L2, NEW T, NEW T2, NEW S, NEW S2, NEW n \in Nat,
         NEW n2 \in Nat, n <= n2, Roots(L), ListsGrow(L, L2), TrustGrows(T, T2),
         StatesGrow(S, S2), ClientsRight(D, L, T, S, n)
  PROVE  ClientsRight(D, L2, T2, S2, n2)
  BY ClientGrows DEF ClientsRight

-----------------------------------------------------------------------------
(* Keys *)

\* A device that has the key of a state is one of those who got that state.
LEMMA HasKeyIs ==
  ASSUME NEW L, NEW T, StatesRight(states, L, T), Len(states) \in Nat,
         NEW v \in 0..Len(states), NEW d, HasKey(d, v)
  PROVE  v >= 1 /\ d \in states[v].recipients
  <1> DEFINE mine == {states[w].epoch : w \in {x \in 1..v : d \in states[x].recipients}}
  <1>1. v >= 1 /\ TopKey(d, v) >= states[v].epoch
    BY DEF HasKey
  <1>2. \A w \in 1..v : states[w].epoch \in Nat /\ states[w].epoch >= 1
                        /\ Follow(states[w], states[v])
    BY <1>1 DEF StatesRight, StateRight
  <1>3. TopKey(d, v) = IF mine = {} THEN 0
                       ELSE CHOOSE e \in mine : \A f \in mine : f <= e
    BY DEF TopKey
  <1>5. mine \subseteq Nat /\ \A m \in mine : m <= states[v].epoch
    BY <1>2 DEF Follow
  <1>6. states[v].epoch \in Nat /\ states[v].epoch >= 1
    BY <1>1, <1>2
  <1>7. \A e \in mine : \E w \in 1..v : d \in states[w].recipients /\ states[w].epoch = e
    OBVIOUS
  <1> HIDE DEF mine
  <1>4. mine # {}
    BY <1>1, <1>3, <1>6
  <1>8. \E e \in mine : \A f \in mine : f <= e
    BY <1>4, <1>5, <1>6, GreatestNatural
  <1>9. TopKey(d, v) \in mine
    BY <1>3, <1>4, <1>8
  <1>10. PICK w \in 1..v : d \in states[w].recipients /\ states[w].epoch = TopKey(d, v)
    BY <1>7, <1>9
  <1>11. states[w].epoch = states[v].epoch
    BY <1>1, <1>2, <1>6, <1>10 DEF Follow
  <1> QED BY <1>1, <1>2, <1>10, <1>11 DEF Follow

\* One state made the key of a version.
LEMMA OpenerIs ==
  ASSUME NEW L, NEW T, StatesRight(states, L, T), Len(states) \in Nat,
         NEW v \in 1..Len(states)
  PROVE  /\ MadeKey(states, Opener(v), v)
         /\ \A w : MadeKey(states, w, v) => w = Opener(v)
  <1> DEFINE W == {w \in 1..v : states[w].epoch = states[v].epoch}
  <1>1. W \subseteq Nat /\ v \in W /\ W \subseteq 1..v
    OBVIOUS
  <1>2. \A w \in 1..v : \A x \in 1..w : states[x].epoch \in Nat /\ states[x].epoch <= states[w].epoch
    BY DEF StatesRight, StateRight, Follow
  <1>3. \A w \in 1..v : w \in W <=> states[w].epoch = states[v].epoch
    OBVIOUS
  <1> HIDE DEF W
  <1>4. PICK w \in W : \A x \in W : w <= x
    BY <1>1, LeastNatural
  <1>5. w \in 1..v /\ states[w].epoch = states[v].epoch
    BY <1>1, <1>3, <1>4
  <1>6. ASSUME w # 1 PROVE states[w - 1].epoch < states[w].epoch
    <2>1. w - 1 \in 1..w /\ w - 1 \in 1..v /\ w - 1 \notin W
      BY <1>1, <1>4, <1>5, <1>6
    <2>2. states[w - 1].epoch # states[v].epoch
      BY <1>3, <2>1
    <2>3. /\ states[w - 1].epoch \in Nat /\ states[w].epoch \in Nat
          /\ states[w - 1].epoch <= states[w].epoch
      BY <1>2, <1>5, <2>1
    <2> QED BY <1>5, <2>2, <2>3
  <1>7. MadeKey(states, w, v)
    BY <1>5, <1>6 DEF MadeKey
  <1>8. /\ Opener(v) \in 1..v /\ states[Opener(v)].epoch = states[v].epoch
        /\ Opener(v) = 1 \/ states[Opener(v) - 1].epoch < states[Opener(v)].epoch
    BY <1>7 DEF Opener, MadeKey
  <1>9. MadeKey(states, Opener(v), v)
    BY <1>8 DEF MadeKey
  <1>10. ASSUME NEW x, NEW y, MadeKey(states, x, v), MadeKey(states, y, v), x < y
         PROVE  FALSE
    <2>1. x \in 1..v /\ y \in 1..v /\ y # 1 /\ x \in 1..(y - 1) /\ y - 1 \in 1..v
      BY <1>10 DEF MadeKey
    <2>2. states[x].epoch <= states[y - 1].epoch
      BY <1>2, <2>1
    <2>3. states[y - 1].epoch < states[y].epoch /\ states[x].epoch = states[y].epoch
      BY <1>10, <2>1 DEF MadeKey
    <2>4. states[x].epoch \in Nat /\ states[y].epoch \in Nat /\ states[y - 1].epoch \in Nat
      BY <1>2, <2>1
    <2> QED BY <2>2, <2>3, <2>4
  <1>11. ASSUME NEW x, MadeKey(states, x, v) PROVE x = Opener(v)
    <2>1. x \in 1..v /\ Opener(v) \in 1..v
      BY <1>9, <1>11 DEF MadeKey
    <2>2. ~(x < Opener(v)) /\ ~(Opener(v) < x)
      BY <1>9, <1>10, <1>11
    <2> QED BY <2>1, <2>2
  <1> QED BY <1>9, <1>11

\* What may be written with: writing_key.
LEMMA MayWriteIs ==
  ASSUME NEW L, NEW T, StatesRight(states, L, T), Len(states) \in Nat,
         NEW v \in 0..Len(states), NEW d, MayWrite(d, v)
  PROVE  /\ v >= 1 /\ d \in states[v].recipients
         /\ \E w \in 1..v : MadeKey(states, w, v) /\ states[w].author \in DOMAIN states[v].members
  <1>1. v >= 1 /\ d \in states[v].recipients
    BY HasKeyIs DEF MayWrite
  <1>2. MadeKey(states, Opener(v), v)
    BY <1>1, OpenerIs
  <1>3. states[Opener(v)].author \in DOMAIN states[v].members
    BY <1>1 DEF MayWrite, KeyMakerLeft
  <1> QED BY <1>1, <1>2, <1>3 DEF MadeKey

-----------------------------------------------------------------------------
(* The steps of a device that change nothing but the device *)

\* A step of one device.
OneStep(d, c) ==
  dev' = [dev EXCEPT ![d] = c] /\ UNCHANGED <<peopleVars, roomVars>>

\* What a client is to hold.
Right(c, d) == ClientRight(c, d, list, trust, states, Len(items))

LEMMA Sizes ==
  ASSUME RoomInv
  PROVE  Len(states) \in Nat /\ Len(items) \in Nat
  BY LenNat DEF RoomInv, StatesRight, ItemsRight

LEMMA OneStepRight ==
  ASSUME RoomInv, NEW d \in Device, NEW c, Right(c, d), OneStep(d, c)
  PROVE  RoomInv'
  <1>1. /\ list' = list /\ keyed' = keyed /\ deleted' = deleted /\ trust' = trust
        /\ member' = member /\ invited' = invited /\ states' = states /\ items' = items
        /\ dev' = [dev EXCEPT ![d] = c]
    BY DEF OneStep, peopleVars, roomVars
  <1>2. ClientsRight(dev', list, trust, states, Len(items))
    BY <1>1, OneRight DEF RoomInv, Right
  <1> QED BY <1>1, <1>2 DEF RoomInv

\* A client of the room as it is.
LEMMA RightNow ==
  ASSUME RoomInv, NEW d \in Device
  PROVE  /\ Right(dev[d], d)
         /\ CacheRight(dev[d], states, Len(items)) /\ KeptRight(dev[d].op, list, Len(items))
         /\ StageRight(dev[d].op, dev[d].known, d, list, trust, states)
         /\ dev[d].known \in 0..Len(states)
  BY DEF RoomInv, ClientsRight, Right, ClientRight, CacheRight

\* Told things are looked at.
LEMMA WaitingRight ==
  ASSUME NEW c, NEW S, NEW n, CacheRight(c, S, n)
  PROVE  /\ CacheRight([c EXCEPT !.missions = FALSE, !.wanted = {}], S, n)
         /\ CacheRight([c EXCEPT !.wanted = {}], S, n)
         /\ CacheRight([c EXCEPT !.link = FALSE, !.missions = FALSE, !.wanted = {}], S, n)
         /\ [c EXCEPT !.missions = FALSE, !.wanted = {}].op = c.op
         /\ [c EXCEPT !.wanted = {}].op = c.op
         /\ [c EXCEPT !.link = FALSE, !.missions = FALSE, !.wanted = {}].op = c.op
         /\ [c EXCEPT !.link = FALSE, !.missions = FALSE, !.wanted = {}].known = c.known
         /\ [c EXCEPT !.missions = FALSE, !.wanted = {}].known = c.known
         /\ c.wanted \subseteq Nat
  <1>1. ASSUME NEW e, DOMAIN e = DOMAIN c, e.known = c.known, e.sequence = c.sequence,
               e.got = c.got, e.loaded = c.loaded, e.wanted = {}
        PROVE  CacheRight(e, S, n)
    BY <1>1 DEF CacheRight, AtMostOne
  <1> DEFINE e1 == [c EXCEPT !.missions = FALSE, !.wanted = {}]
             e2 == [c EXCEPT !.wanted = {}]
             e3 == [c EXCEPT !.link = FALSE, !.missions = FALSE, !.wanted = {}]
  <1>2. /\ DOMAIN e1 = DOMAIN c /\ e1.known = c.known /\ e1.sequence = c.sequence
        /\ e1.got = c.got /\ e1.loaded = c.loaded /\ e1.wanted = {} /\ e1.op = c.op
    BY DEF CacheRight
  <1>3. /\ DOMAIN e2 = DOMAIN c /\ e2.known = c.known /\ e2.sequence = c.sequence
        /\ e2.got = c.got /\ e2.loaded = c.loaded /\ e2.wanted = {} /\ e2.op = c.op
    BY DEF CacheRight
  <1>4. /\ DOMAIN e3 = DOMAIN c /\ e3.known = c.known /\ e3.sequence = c.sequence
        /\ e3.got = c.got /\ e3.loaded = c.loaded /\ e3.wanted = {} /\ e3.op = c.op
    BY DEF CacheRight
  <1> HIDE DEF e1, e2, e3
  <1>5. CacheRight(e1, S, n) /\ CacheRight(e2, S, n) /\ CacheRight(e3, S, n)
    BY <1>1, <1>2, <1>3, <1>4
  <1>6. c.wanted \subseteq Nat
    BY DEF CacheRight, AtMostOne
  <1> QED BY <1>2, <1>3, <1>4, <1>5, <1>6 DEF e1, e2, e3

\* An operation that begins.
LEMMA FreshOp ==
  ASSUME NEW o, NEW L, NEW n \in Nat, DOMAIN o = DOMAIN NoOp, o.who \in User,
         o.wanted \subseteq Nat, o.bundles = NoOp.bundles, o.keys = NoOp.keys,
         o.body = NoOp.body, o.page = NoOp.page, o.tries = NoOp.tries
  PROVE  KeptRight(o, L, n)
  BY NoOpRight DEF KeptRight

LEMMA NoticeStep ==
  ASSUME RoomInv, NEW d \in Device, Notice(d)
  PROVE  RoomInv'
  <1> DEFINE c == [dev[d] EXCEPT !.wanted = {}]
             op == [NoOp EXCEPT !.kind = "notice", !.wanted = dev[d].wanted]
  <1>1. PICK fresh : OneStep(d, StartUnforced(c, op, fresh))
    BY DEF Notice, Becomes, OneStep
  <1>2. CacheRight(c, states, Len(items)) /\ dev[d].wanted \subseteq Nat
    BY RightNow, WaitingRight
  <1>3. /\ DOMAIN op = DOMAIN NoOp /\ op.who = Owner /\ op.wanted = dev[d].wanted
        /\ op.bundles = NoOp.bundles /\ op.keys = NoOp.keys /\ op.body = NoOp.body
        /\ op.page = NoOp.page /\ op.tries = NoOp.tries /\ op.then = "look"
    BY DEF NoOp
  <1> HIDE DEF c, op
  <1>4. KeptRight(op, list, Len(items))
    BY <1>2, <1>3, Sizes, FreshOp, RoomAssumption
  <1>5. Right(StartUnforced(c, op, fresh), d)
    BY <1>2, <1>3, <1>4, Sizes, StartRight DEF Right
  <1> QED BY <1>1, <1>5, OneStepRight

LEMMA RefreshStep ==
  ASSUME RoomInv, NEW d \in Device, Refresh(d)
  PROVE  RoomInv'
  <1> DEFINE c == [dev[d] EXCEPT !.missions = FALSE, !.wanted = {}]
             op == [NoOp EXCEPT !.kind = "refresh", !.at = "keys", !.wanted = dev[d].wanted]
             e == [c EXCEPT !.op = op]
  <1>1. /\ OneStep(d, KeysRead(e, d)) \/ OneStep(d, c)
        /\ dev[d].op.at = "idle"
    BY DEF Refresh, Becomes, OneStep, Busy
  <1>2. /\ CacheRight(c, states, Len(items)) /\ dev[d].wanted \subseteq Nat
        /\ c.op = dev[d].op /\ c.known = dev[d].known
    BY RightNow, WaitingRight
  <1>3. /\ DOMAIN op = DOMAIN NoOp /\ op.who = Owner /\ op.wanted = dev[d].wanted
        /\ op.bundles = NoOp.bundles /\ op.keys = NoOp.keys /\ op.body = NoOp.body
        /\ op.page = NoOp.page /\ op.tries = NoOp.tries /\ op.then = "look"
        /\ op.at = "keys"
    BY DEF NoOp
  <1> HIDE DEF c, op
  <1>4. KeptRight(op, list, Len(items))
    BY <1>2, <1>3, Sizes, FreshOp, RoomAssumption
  <1>5. StageRight(op, c.known, d, list, trust, states)
    BY <1>3, LooseStage DEF Loose
  <1>6. ClientRight(e, d, list, trust, states, Len(items)) /\ e.op = op
    BY <1>2, <1>4, <1>5, SetOp
  <1> HIDE DEF e
  <1>7. Right(KeysRead(e, d), d)
    BY <1>3, <1>6, Sizes, KeysReadRight DEF Right
  <1>8. Right(c, d)
    BY <1>2, RightNow DEF Right, ClientRight
  <1> QED BY <1>1, <1>7, <1>8, OneStepRight

LEMMA ReadKeysStep ==
  ASSUME RoomInv, NEW d \in Device, ReadKeys(d)
  PROVE  RoomInv'
  <1>1. OneStep(d, KeysRead(dev[d], d)) /\ dev[d].op.at = "keys"
    BY DEF ReadKeys, Becomes, OneStep, Busy
  <1>2. Right(KeysRead(dev[d], d), d)
    BY <1>1, RightNow, Sizes, KeysReadRight DEF Right
  <1> QED BY <1>1, <1>2, OneStepRight

\* ContentAsync reads how many items there are.
LEMMA PageStep ==
  ASSUME RoomInv, NEW d \in Device, Page(d)
  PROVE  RoomInv'
  <1> DEFINE c == dev[d]
             page == [sequence |-> Len(items), version |-> Len(states), last |-> 0]
             op == [c.op EXCEPT !.at = "items", !.page = page]
             e == [c EXCEPT !.op.at = "items", !.op.page = page]
  <1>1. OneStep(d, Missing(c)) \/ OneStep(d, e)
    BY DEF Page, Becomes, OneStep
  <1>2. /\ CacheRight(c, states, Len(items)) /\ KeptRight(c.op, list, Len(items))
        /\ Len(items) \in Nat /\ Len(states) \in Nat
    BY RightNow, Sizes
  <1> HIDE DEF c
  <1>3. Right(Missing(c), d)
    BY <1>2, MissingRight DEF Right
  <1>4. /\ DOMAIN op = DOMAIN c.op /\ op.who = c.op.who /\ op.wanted = c.op.wanted
        /\ op.bundles = c.op.bundles /\ op.keys = c.op.keys /\ op.body = c.op.body
        /\ op.tries = c.op.tries /\ op.page = page /\ op.at = "items"
        /\ e = [c EXCEPT !.op = op]
    BY <1>2 DEF KeptRight, CacheRight
  <1>5. DOMAIN page = {"sequence", "version", "last"} /\ page.sequence = Len(items) /\ page.last = 0
    OBVIOUS
  <1> HIDE DEF op, page, e
  <1>6. KeptRight(op, list, Len(items))
    BY <1>2, <1>4, <1>5 DEF KeptRight
  <1>7. StageRight(op, c.known, d, list, trust, states)
    BY <1>4, LooseStage DEF Loose
  <1>8. Right(e, d)
    BY <1>2, <1>4, <1>6, <1>7, SetOp DEF Right
  <1> QED BY <1>1, <1>3, <1>8, OneStepRight

\* And then the items, which may be more.
LEMMA ItemsStep ==
  ASSUME RoomInv, NEW d \in Device, Items(d)
  PROVE  RoomInv'
  <1> DEFINE c == dev[d]
             page == [c.op.page EXCEPT !.last = Len(items)]
             op == [c.op EXCEPT !.page = page]
             e == [c EXCEPT !.op.page.last = Len(items)]
             o == [e.op EXCEPT !.at = "keys", !.then = "take"]
             f == [e EXCEPT !.op.at = "keys", !.op.then = "take"]
  <1>1. /\ OneStep(d, f) \/ OneStep(d, Taken(e, d, e.known))
        /\ c.op.at = "items"
    BY DEF Items, Becomes, OneStep, Busy
  <1>2. /\ CacheRight(c, states, Len(items)) /\ KeptRight(c.op, list, Len(items))
        /\ Len(items) \in Nat
    BY RightNow, Sizes
  <1> HIDE DEF c
  <1>3. /\ DOMAIN page = {"sequence", "version", "last"} /\ page.last = Len(items)
        /\ page.sequence = c.op.page.sequence /\ page.sequence \in 0..Len(items)
    BY <1>2 DEF KeptRight
  <1>4. /\ DOMAIN op = DOMAIN c.op /\ op.who = c.op.who /\ op.wanted = c.op.wanted
        /\ op.bundles = c.op.bundles /\ op.keys = c.op.keys /\ op.body = c.op.body
        /\ op.tries = c.op.tries /\ op.page = page /\ op.at = c.op.at
        /\ e = [c EXCEPT !.op = op]
    BY <1>2 DEF KeptRight, CacheRight
  <1> HIDE DEF op, page, e
  <1>5. KeptRight(op, list, Len(items))
    BY <1>2, <1>3, <1>4 DEF KeptRight
  <1>6. StageRight(op, c.known, d, list, trust, states)
    BY <1>1, <1>4, LooseStage DEF Loose
  <1>7. CacheRight(e, states, Len(items)) /\ e.op = op
    BY <1>2, <1>4, <1>5, <1>6, SetOp
  <1>8. e.op.page.sequence <= e.op.page.last
    BY <1>2, <1>3, <1>4, <1>7
  <1>9. Right(Taken(e, d, e.known), d)
    BY <1>2, <1>5, <1>7, <1>8, TakenRight DEF Right
  <1>10. /\ DOMAIN o = DOMAIN op /\ o.who = op.who /\ o.wanted = op.wanted
         /\ o.bundles = op.bundles /\ o.keys = op.keys /\ o.body = op.body
         /\ o.tries = op.tries /\ o.page = op.page /\ o.at = "keys"
         /\ f = [e EXCEPT !.op = o]
    BY <1>5, <1>7 DEF KeptRight, CacheRight
  <1> HIDE DEF o, f
  <1>11. o.tries \in 0..3
    BY <1>5, <1>10 DEF KeptRight
  <1>12. KeptRight(o, list, Len(items))
    BY <1>5, <1>10, <1>11, KeptOp
  <1>13. StageRight(o, e.known, d, list, trust, states)
    BY <1>7, <1>8, <1>10 DEF StageRight
  <1>14. Right(f, d)
    BY <1>7, <1>10, <1>12, <1>13, SetOp DEF Right
  <1> QED BY <1>1, <1>9, <1>14, OneStepRight

LEMMA WriteStep ==
  ASSUME RoomInv, NEW d \in Device, Write(d)
  PROVE  RoomInv'
  <1> DEFINE c == dev[d]
             v == c.known
             body == [c.op.body EXCEPT !.version = v, !.epoch = states[v].epoch]
             o1 == [c.op EXCEPT !.at = "keys", !.then = "look", !.renewed = TRUE,
                                !.tries = 0, !.bundles = <<>>, !.keys = <<>>]
             o2 == [c.op EXCEPT !.at = "commitItem", !.body = body]
             e1 == [c EXCEPT !.op.at = "keys", !.op.then = "look", !.op.renewed = TRUE,
                             !.op.tries = 0, !.op.bundles = <<>>, !.op.keys = <<>>]
             e2 == [c EXCEPT !.op.at = "commitItem", !.op.body.version = v,
                             !.op.body.epoch = states[v].epoch]
  <1>1. \/ OneStep(d, e1) \/ OneStep(d, Ended(c))
        \/ MayWrite(d, v) /\ OneStep(d, e2)
    BY DEF Write, Becomes, OneStep
  <1>2. /\ CacheRight(c, states, Len(items)) /\ KeptRight(c.op, list, Len(items))
        /\ Len(items) \in Nat /\ Len(states) \in Nat /\ v \in 0..Len(states)
    BY RightNow, Sizes
  <1>3. MayWrite(d, v) => /\ v >= 1 /\ d \in states[v].recipients
                          /\ \E w \in 1..v : /\ MadeKey(states, w, v)
                                             /\ states[w].author \in DOMAIN states[v].members
    BY <1>2, MayWriteIs DEF RoomInv
  <1> HIDE DEF c
  <1>4. Right(Ended(c), d)
    BY <1>2, EndedRight DEF Right
  <1>5. Right(e1, d)
    <2>1. /\ DOMAIN o1 = DOMAIN c.op /\ o1.who = c.op.who /\ o1.wanted = c.op.wanted
          /\ o1.bundles = <<>> /\ o1.keys = <<>> /\ o1.body = c.op.body
          /\ o1.tries = 0 /\ o1.page = c.op.page /\ o1.at = "keys" /\ o1.then = "look"
      BY <1>2 DEF KeptRight
    <2>4. e1 = [c EXCEPT !.op = o1]
      <3>1. "op" \in DOMAIN c /\ \A x : [c EXCEPT !.op = x].op = x
        BY <1>2 DEF CacheRight
      <3>2. \A x, y : [[c EXCEPT !.op = x] EXCEPT !.op = y] = [c EXCEPT !.op = y]
        OBVIOUS
      <3> QED BY ONLY <3>1, <3>2
    <2> HIDE DEF o1, e1
    <2>2. KeptRight(o1, list, Len(items))
      BY <1>2, <2>1 DEF KeptRight
    <2>3. StageRight(o1, c.known, d, list, trust, states)
      BY <2>1, LooseStage DEF Loose
    <2> QED BY <1>2, <2>1, <2>2, <2>3, <2>4, SetOp DEF Right
  <1>6. ASSUME MayWrite(d, v) PROVE Right(e2, d)
    <2>1. /\ DOMAIN body = {"version", "author", "epoch", "members", "recipients"}
          /\ body.version = v /\ body.epoch = states[v].epoch
      BY <1>2 DEF KeptRight
    <2>2. /\ DOMAIN o2 = DOMAIN c.op /\ o2.who = c.op.who /\ o2.wanted = c.op.wanted
          /\ o2.bundles = c.op.bundles /\ o2.keys = c.op.keys /\ o2.body = body
          /\ o2.tries = c.op.tries /\ o2.page = c.op.page /\ o2.at = "commitItem"
      BY <1>2 DEF KeptRight
    <2>6. e2 = [c EXCEPT !.op = o2]
      <3> DEFINE p == [c.op EXCEPT !.at = "commitItem"]
                 q == [p EXCEPT !.body.version = v]
                 r == [q EXCEPT !.body.epoch = states[v].epoch]
      <3>1. "op" \in DOMAIN c /\ \A x : [c EXCEPT !.op = x].op = x
        BY <1>2 DEF CacheRight
      <3>2. \A x, y : [[c EXCEPT !.op = x] EXCEPT !.op = y] = [c EXCEPT !.op = y]
        OBVIOUS
      <3>3. e2 = [c EXCEPT !.op = r]
        <4> DEFINE A == [c EXCEPT !.op = p]
                   B == [A EXCEPT !.op.body.version = v]
        <4>1. A.op = p /\ B = [A EXCEPT !.op = [A.op EXCEPT !.body.version = v]]
          BY ONLY <3>1
        <4>2. e2 = [B EXCEPT !.op.body.epoch = states[v].epoch]
          OBVIOUS
        <4>3. e2 = [B EXCEPT !.op = [B.op EXCEPT !.body.epoch = states[v].epoch]]
          BY ONLY <4>2
        <4> HIDE DEF B, p, e2
        <4>4. B = [A EXCEPT !.op = q]
          BY ONLY <4>1
        <4>5. B = [c EXCEPT !.op = q]
          BY ONLY <3>2, <4>4
        <4> HIDE DEF A, q
        <4>6. B.op = q
          BY ONLY <3>1, <4>5
        <4>7. e2 = [B EXCEPT !.op = r]
          BY ONLY <4>3, <4>6
        <4> QED BY ONLY <3>2, <4>5, <4>7
      <3>4. /\ "body" \in DOMAIN p /\ \A x : [p EXCEPT !.body = x].body = x
            /\ p.body = c.op.body
        BY <1>2 DEF KeptRight
      <3> HIDE DEF p, e2
      <3>5. \A x, y : [[p EXCEPT !.body = x] EXCEPT !.body = y] = [p EXCEPT !.body = y]
        OBVIOUS
      <3>6. r = [p EXCEPT !.body = body]
        BY ONLY <3>4, <3>5
      <3>7. [p EXCEPT !.body = body] = o2
        BY DEF p
      <3> QED BY ONLY <3>3, <3>6, <3>7
    <2> HIDE DEF o2, e2, body
    <2>3. KeptRight(o2, list, Len(items))
      BY <1>2, <2>1, <2>2 DEF KeptRight
    <2>4. SealRight(o2.body, c.known, d, states)
      BY <1>3, <1>6, <2>1, <2>2 DEF SealRight
    <2>5. StageRight(o2, c.known, d, list, trust, states)
      BY <2>2, <2>4 DEF StageRight
    <2> QED BY <1>2, <2>3, <2>5, <2>6, SetOp DEF Right
  <1> HIDE DEF e1, e2
  <1> QED BY <1>1, <1>4, <1>5, <1>6, OneStepRight

\* Who gets a key: registered devices of the lists that the state names.
LEMMA RecipientsAre ==
  ASSUME RoomInv, NEW M, MembersRight(M, list, trust), NEW out, NEW keys,
         \A u \in DOMAIN M \ out : \A e \in keys[u] : Of(e) = u
  PROVE  RecipientsRight(Recipients(M, out, keys), M, list)
  <1>1. \A u \in DOMAIN M : u \in User /\ M[u] \in 1..Len(list[u])
    BY DEF MembersRight
  <1>2. \A u \in DOMAIN M : list[u][M[u]].devices \subseteq Device
    BY <1>1 DEF RoomInv, ListsRight
  <1>3. ASSUME NEW e \in Recipients(M, out, keys)
        PROVE  e \in Device /\ Of(e) \in DOMAIN M /\ e \in list[Of(e)][M[Of(e)]].devices
    <2>1. PICK u \in DOMAIN M \ out : e \in keys[u] \cap DevicesAt(u, M[u])
      BY <1>3 DEF Recipients
    <2>2. Of(e) = u /\ e \in list[u][M[u]].devices
      BY <2>1 DEF DevicesAt
    <2> QED BY <1>2, <2>1, <2>2
  <1> QED BY <1>3 DEF RecipientsRight

LEMMA ListLens ==
  ASSUME RoomInv
  PROVE  \A u \in User : Len(list[u]) \in Nat /\ Len(list[u]) >= 1
  BY LenNat DEF RoomInv, ListsRight

\* Trusted people may be named with their current list.
LEMMA TrustedNow ==
  ASSUME RoomInv, NEW u \in User, Trusted(u)
  PROVE  Len(list[u]) \in 1..Len(list[u]) /\ list[u][Len(list[u])].root <= trust[u]
  <1>1. Len(list[u]) \in Nat /\ Len(list[u]) >= 1 /\ trust[u] \in Nat
    BY LenNat DEF RoomInv, ListsRight
  <1>2. trust[u] = list[u][Len(list[u])].root
    BY DEF Trusted, Current
  <1> QED BY <1>1, <1>2

LEMMA FirstStep ==
  ASSUME RoomInv, NEW d \in Device, First(d)
  PROVE  RoomInv'
  <1> DEFINE c == dev[d]
             M == [u \in People |-> Len(list[u])]
             keys == [u \in People |-> RoomKeysOf(u)]
             body == [version |-> 1, author |-> Owner, epoch |-> 1, members |-> M,
                      recipients |-> Recipients(M, {}, keys)]
             o == [c.op EXCEPT !.at = "commit", !.body = body]
             e == [c EXCEPT !.op.at = "commit", !.op.body = body]
  <1>1. /\ c.op.at = "first"
        /\ \/ OneStep(d, Ended(c))
           \/ (\A u \in People : Trusted(u)) /\ OneStep(d, e)
    <2>1. /\ c.op.at = "first"
          /\ Becomes(d, IF \A u \in People : Trusted(u) THEN e ELSE Ended(c))
      BY DEF First, Busy
    <2> HIDE DEF e
    <2> QED BY <2>1 DEF Becomes, OneStep
  <1>2. /\ CacheRight(c, states, Len(items)) /\ KeptRight(c.op, list, Len(items))
        /\ Len(items) \in Nat /\ StageRight(c.op, c.known, d, list, trust, states)
    BY RightNow, Sizes
  <1>3. c.known = 0 /\ c.op.tries <= 2 /\ Of(d) = Owner
    BY <1>1, <1>2 DEF StageRight
  <1> HIDE DEF c
  <1>4. Right(Ended(c), d)
    BY <1>2, EndedRight DEF Right
  <1>5. ASSUME \A u \in People : Trusted(u) PROVE Right(e, d)
    <2>1. People \subseteq User
      BY DEF RoomInv, PeopleRight, People
    <2>2. MembersRight(M, list, trust)
      BY <1>5, <2>1, TrustedNow DEF MembersRight
    <2>3. \A u \in DOMAIN M \ {} : \A x \in keys[u] : Of(x) = u
      BY DEF RoomKeysOf
    <2> HIDE DEF M, keys
    <2>4. RecipientsRight(Recipients(M, {}, keys), M, list)
      BY <2>2, <2>3, RecipientsAre
    <2>5. /\ DOMAIN body = {"version", "author", "epoch", "members", "recipients"}
          /\ body.version = 1 /\ body.author = Owner /\ body.epoch = 1
          /\ body.members = M /\ body.recipients = Recipients(M, {}, keys)
      OBVIOUS
    <2> HIDE DEF body
    <2>6. /\ DOMAIN o = DOMAIN c.op /\ o.who = c.op.who /\ o.wanted = c.op.wanted
          /\ o.bundles = c.op.bundles /\ o.keys = c.op.keys /\ o.body = body
          /\ o.tries = c.op.tries /\ o.page = c.op.page /\ o.at = "commit"
          /\ e = [c EXCEPT !.op = o]
      BY <1>2 DEF KeptRight, CacheRight
    <2> HIDE DEF o, e
    <2>7. KeptRight(o, list, Len(items))
      BY <1>2, <2>5, <2>6 DEF KeptRight
    <2>8. NextRight(o, c.known, d, list, trust, states)
      BY <1>3, <2>2, <2>4, <2>5, <2>6 DEF NextRight
    <2>9. StageRight(o, c.known, d, list, trust, states)
      BY <2>6, <2>8 DEF StageRight
    <2> QED BY <1>2, <2>6, <2>7, <2>9, SetOp DEF Right
  <1> HIDE DEF e
  <1> QED BY <1>1, <1>4, <1>5, OneStepRight

LEMMA ReadStandingStep ==
  ASSUME RoomInv, NEW d \in Device, ReadStanding(d)
  PROVE  RoomInv'
  <1> DEFINE c == dev[d]
             last == states[c.known]
             answers == Answers(d, c.op, last)
             replaced == Replaced(answers, last)
             back == Returned(d, c.op, replaced)
             standing == Standing(answers, last, replaced)
             kept == (DOMAIN standing \cup Adds(c.op)) \ Removes(c.op)
             M == [u \in kept |-> IF u \in back \cup Adds(c.op) THEN Len(list[u])
                                  ELSE standing[u]]
             bundles == [u \in {w \in DOMAIN answers : answers[w] > 0} |-> answers[u]]
             out == replaced \ back
             e == [c EXCEPT !.op.at = "recipients", !.op.bundles = bundles, !.op.out = out,
                            !.op.back = back, !.op.body.members = M]
             body == [c.op.body EXCEPT !.members = M]
             o == [c.op EXCEPT !.at = "recipients", !.bundles = bundles, !.out = out,
                               !.back = back, !.body = body]
  <1>1. /\ c.op.at = "standing"
        /\ \/ OneStep(d, Ended(c))
           \/ (\A u \in Adds(c.op) : Trusted(u)) /\ OneStep(d, e)
    BY DEF ReadStanding, Becomes, OneStep, Busy
  <1>2. /\ CacheRight(c, states, Len(items)) /\ KeptRight(c.op, list, Len(items))
        /\ Len(items) \in Nat /\ StageRight(c.op, c.known, d, list, trust, states)
        /\ c.known \in 0..Len(states) /\ Len(states) \in Nat
    BY RightNow, Sizes
  <1>3. c.known \in 1..Len(states)
    <2>1. c.op.at = "standing"
      BY ONLY <1>1
    <2> HIDE DEF c
    <2> QED BY ONLY <1>2, <2>1 DEF StageRight
  <1>4. MembersRight(last.members, list, trust)
    BY <1>3 DEF RoomInv, StatesRight, StateRight
  <1>5. \A u \in User : Len(list[u]) \in Nat /\ Len(list[u]) >= 1
    BY ListLens
  <1> HIDE DEF c, last
  <1>6. Right(Ended(c), d)
    BY <1>2, EndedRight DEF Right
  <1>7. /\ DOMAIN answers = DOMAIN last.members /\ DOMAIN last.members \subseteq User
        /\ \A u \in DOMAIN answers : answers[u] \in 0..Len(list[u])
    <2>1. DOMAIN answers = DOMAIN last.members /\ DOMAIN last.members \subseteq User
      BY <1>4 DEF Answers, MembersRight
    <2>2. ASSUME NEW u \in DOMAIN answers PROVE answers[u] \in 0..Len(list[u])
      <3>1. answers[u] = IF u \in DOMAIN c.op.bundles THEN c.op.bundles[u]
                         ELSE Bundle(Of(d), u)
        BY <2>1, <2>2 DEF Answers
      <3>2. u \in DOMAIN c.op.bundles => c.op.bundles[u] \in 1..Len(list[u])
        BY <1>2 DEF KeptRight
      <3>3. Bundle(Of(d), u) \in {0, Len(list[u])}
        BY DEF Bundle
      <3> QED BY <1>5, <2>1, <2>2, <3>1, <3>2, <3>3
    <2> QED BY <2>1, <2>2
  <1> HIDE DEF answers
  <1>8. /\ DOMAIN standing = DOMAIN last.members
        /\ \A u \in DOMAIN standing :
             \/ standing[u] = last.members[u]
             \/ standing[u] = answers[u] /\ u \notin replaced
    BY <1>7 DEF Standing
  <1>9. \A u \in DOMAIN answers :
          u \notin replaced => answers[u] # 0 /\ RootAt(u, answers[u]) = RootAt(u, last.members[u])
    BY DEF Replaced
  <1>10. ASSUME NEW u \in DOMAIN standing
         PROVE  standing[u] \in 1..Len(list[u]) /\ list[u][standing[u]].root <= trust[u]
    <2>1. CASE standing[u] = last.members[u]
      BY <1>4, <1>8, <1>10, <2>1 DEF MembersRight
    <2>2. CASE standing[u] = answers[u] /\ u \notin replaced
      <3>1. u \in DOMAIN answers /\ u \in DOMAIN last.members /\ u \in User
        BY <1>7, <1>8, <1>10
      <3>2. answers[u] \in 1..Len(list[u])
        BY <1>5, <1>7, <1>9, <2>2, <3>1
      <3>3. list[u][answers[u]].root = list[u][last.members[u]].root
        BY <1>9, <2>2, <3>1 DEF RootAt
      <3>4. list[u][last.members[u]].root <= trust[u]
        BY <1>4, <3>1 DEF MembersRight
      <3> QED BY <2>2, <3>2, <3>3, <3>4
    <2> QED BY <1>8, <1>10, <2>1, <2>2
  <1>11. ASSUME NEW u \in back PROVE u \in User /\ Trusted(u)
    BY <1>7, <1>11 DEF Returned, Replaced
  <1>12. Adds(c.op) \subseteq User
    BY <1>2 DEF Adds, KeptRight
  <1>13. /\ DOMAIN bundles \subseteq User
         /\ \A u \in DOMAIN bundles : bundles[u] \in 1..Len(list[u])
    BY <1>5, <1>7
  <1> HIDE DEF standing, back, replaced, bundles, out
  <1>14. ASSUME \A u \in Adds(c.op) : Trusted(u) PROVE Right(e, d)
    <2>1. DOMAIN M = kept /\ kept \subseteq User
      BY <1>7, <1>8, <1>12
    <2>2. ASSUME NEW u \in kept
          PROVE  M[u] \in 1..Len(list[u]) /\ list[u][M[u]].root <= trust[u]
      <3>1. CASE u \in back \cup Adds(c.op)
        <4>1. M[u] = Len(list[u])
          BY <2>2, <3>1
        <4>2. Trusted(u) /\ u \in User
          BY <1>11, <1>12, <1>14, <3>1
        <4> HIDE DEF M
        <4> QED BY <4>1, <4>2, TrustedNow
      <3>2. CASE u \notin back \cup Adds(c.op)
        <4>1. M[u] = standing[u] /\ u \in DOMAIN standing
          BY <2>2, <3>2
        <4> HIDE DEF M
        <4> QED BY <1>10, <4>1
      <3> QED BY <3>1, <3>2
    <2> HIDE DEF M
    <2>3. MembersRight(M, list, trust)
      BY <2>1, <2>2 DEF MembersRight
    <2>4. DOMAIN body = DOMAIN c.op.body /\ body.members = M
      BY <1>2 DEF KeptRight
    <2>5. /\ DOMAIN o = DOMAIN c.op /\ o.who = c.op.who /\ o.wanted = c.op.wanted
          /\ o.bundles = bundles /\ o.keys = c.op.keys /\ o.body = body
          /\ o.tries = c.op.tries /\ o.page = c.op.page /\ o.at = "recipients"
      BY <1>2 DEF KeptRight
    <2>6. e = [c EXCEPT !.op = o]
      <3> DEFINE p == [c.op EXCEPT !.at = "recipients", !.bundles = bundles, !.out = out,
                                   !.back = back]
                 A == [c EXCEPT !.op.at = "recipients", !.op.bundles = bundles,
                                !.op.out = out, !.op.back = back]
      <3>1. "op" \in DOMAIN c /\ \A x : [c EXCEPT !.op = x].op = x
        BY <1>2 DEF CacheRight
      <3>2. \A x, y : [[c EXCEPT !.op = x] EXCEPT !.op = y] = [c EXCEPT !.op = y]
        OBVIOUS
      <3>3. A = [c EXCEPT !.op = p]
        BY ONLY <3>1, <3>2
      <3>4. e = [A EXCEPT !.op.body.members = M]
        OBVIOUS
      <3>5. e = [A EXCEPT !.op = [A.op EXCEPT !.body = [A.op.body EXCEPT !.members = M]]]
        BY ONLY <3>4
      <3>6. p.body = c.op.body
        BY <1>2 DEF KeptRight
      <3>7. o = [p EXCEPT !.body = body]
        OBVIOUS
      <3> HIDE DEF A, e, p, o
      <3>8. A.op = p
        BY ONLY <3>1, <3>3
      <3>9. e = [A EXCEPT !.op = o]
        BY ONLY <3>5, <3>6, <3>7, <3>8
      <3> QED BY ONLY <3>2, <3>3, <3>9
    <2> HIDE DEF o, e, body
    <2>7. KeptRight(o, list, Len(items))
      BY <1>2, <1>13, <2>4, <2>5 DEF KeptRight
    <2>8. StageRight(o, c.known, d, list, trust, states)
      BY <1>3, <2>3, <2>4, <2>5 DEF StageRight
    <2> QED BY <1>2, <2>6, <2>7, <2>8, SetOp DEF Right
  <1> HIDE DEF e
  <1> QED BY <1>1, <1>6, <1>14, OneStepRight

LEMMA ReadRecipientsStep ==
  ASSUME RoomInv, NEW d \in Device, ReadRecipients(d)
  PROVE  RoomInv'
  <1> DEFINE c == dev[d]
             last == states[c.known]
             M == c.op.body.members
             asked == DOMAIN M \ c.op.out
             keys == [u \in asked \cup DOMAIN c.op.keys |->
                        IF u \in DOMAIN c.op.keys THEN c.op.keys[u] ELSE RoomKeysOf(u)]
             R == Recipients(M, c.op.out, keys)
             body == NextState(d, c.op, last, R, c.known)
             g == [c EXCEPT !.checked = TRUE]
             o == [c.op EXCEPT !.at = "commit", !.keys = keys, !.body = body]
             e == [c EXCEPT !.op.at = "commit", !.op.keys = keys, !.op.body = body]
  <1>1. /\ c.op.at = "recipients"
        /\ \/ OneStep(d, Missing(c))
           \/ OneStep(d, KeysReady(g))
           \/ OneStep(d, e)
    <2>1. /\ c.op.at = "recipients"
          /\ Becomes(d, IF \E u \in asked \ DOMAIN c.op.keys : ~Related(Of(d), u)
                        THEN Missing(c)
                        ELSE IF Changes(c.op, last, R, c.known) THEN e
                        ELSE KeysReady(g))
      BY DEF ReadRecipients, Busy
    <2> HIDE DEF e, g, c
    <2> QED BY <2>1 DEF Becomes, OneStep
  <1>2. /\ CacheRight(c, states, Len(items)) /\ KeptRight(c.op, list, Len(items))
        /\ Len(items) \in Nat /\ StageRight(c.op, c.known, d, list, trust, states)
        /\ c.known \in 0..Len(states) /\ Len(states) \in Nat
    BY RightNow, Sizes
  <1>3. c.known \in 1..Len(states) /\ MembersRight(M, list, trust)
    <2>1. c.op.at = "recipients"
      BY ONLY <1>1
    <2> HIDE DEF c
    <2> QED BY ONLY <1>2, <2>1 DEF StageRight
  <1>4. last.epoch \in Nat
    BY <1>3 DEF RoomInv, StatesRight, StateRight
  <1> HIDE DEF c, last
  <1>5. Right(Missing(c), d)
    BY <1>2, Sizes, MissingRight DEF Right
  <1>6. Right(KeysReady(g), d)
    <2>1. CacheRight(g, states, Len(items)) /\ g.op = c.op
      BY <1>2, SetChecked
    <2> HIDE DEF g
    <2> QED BY <1>2, <2>1, KeysReadyRight DEF Right
  <1>7. \A u \in DOMAIN keys : \A x \in keys[u] : Of(x) = u
    BY <1>2 DEF KeptRight, RoomKeysOf
  <1>8. \A u \in DOMAIN M \ c.op.out : u \in DOMAIN keys
    OBVIOUS
  <1> HIDE DEF keys, M, asked
  <1>9. RecipientsRight(R, M, list)
    BY <1>3, <1>7, <1>8, RecipientsAre
  <1> HIDE DEF R
  <1>10. /\ DOMAIN body = {"version", "author", "epoch", "members", "recipients"}
         /\ body.version = c.known + 1 /\ body.author = Of(d) /\ body.members = M
         /\ body.recipients = R
         /\ body.epoch = IF Rotates(c.op, last, R, c.known) THEN last.epoch + 1 ELSE last.epoch
    BY DEF NextState, M
  <1> HIDE DEF body
  <1>11. body.epoch \in {last.epoch, last.epoch + 1}
    BY ONLY <1>10
  <1>12. ASSUME body.epoch = last.epoch
         PROVE  last.recipients \subseteq R /\ c.op.kind \notin {"remove", "reject"}
    <2>1. ~Rotates(c.op, last, R, c.known)
      BY <1>4, <1>10, <1>12
    <2> QED BY <2>1 DEF Rotates, Removes
  <1>13. /\ DOMAIN o = DOMAIN c.op /\ o.who = c.op.who /\ o.wanted = c.op.wanted
         /\ o.bundles = c.op.bundles /\ o.keys = keys /\ o.body = body
         /\ o.tries = c.op.tries /\ o.page = c.op.page /\ o.at = "commit"
         /\ o.kind = c.op.kind
    BY <1>2 DEF KeptRight
  <1>14. e = [c EXCEPT !.op = o]
    <2>1. "op" \in DOMAIN c /\ \A x : [c EXCEPT !.op = x].op = x
      BY <1>2 DEF CacheRight
    <2>2. \A x, y : [[c EXCEPT !.op = x] EXCEPT !.op = y] = [c EXCEPT !.op = y]
      OBVIOUS
    <2> QED BY ONLY <2>1, <2>2
  <1> HIDE DEF o, e
  <1>15. KeptRight(o, list, Len(items))
    BY <1>2, <1>7, <1>10, <1>13 DEF KeptRight
  <1>16. NextRight(o, c.known, d, list, trust, states)
    <2>1. c.known > 0 /\ last = states[c.known]
      BY <1>3 DEF last
    <2> QED BY <1>3, <1>9, <1>10, <1>11, <1>12, <1>13, <2>1 DEF NextRight
  <1>17. StageRight(o, c.known, d, list, trust, states)
    BY <1>13, <1>16 DEF StageRight
  <1>18. Right(e, d)
    BY <1>2, <1>14, <1>15, <1>17, SetOp DEF Right
  <1> HIDE DEF g
  <1> QED BY <1>1, <1>5, <1>6, <1>18, OneStepRight

LEMMA RefusedStep ==
  ASSUME RoomInv, NEW d \in Device, Refused(d)
  PROVE  RoomInv'
  <1>1. OneStep(d, Client(FALSE))
    BY DEF Refused, Becomes, OneStep
  <1>2. Right(Client(FALSE), d)
    BY Sizes, StartedRight DEF Right
  <1> QED BY <1>1, <1>2, OneStepRight

LEMMA RestartStep ==
  ASSUME RoomInv, NEW d \in Device, Restart(d)
  PROVE  RoomInv'
  <1>1. OneStep(d, Client(FALSE))
    BY DEF Restart, OneStep
  <1>2. Right(Client(FALSE), d)
    BY Sizes, StartedRight DEF Right
  <1> QED BY <1>1, <1>2, OneStepRight

LEMMA ReconnectStep ==
  ASSUME RoomInv, NEW d \in Device, Reconnect(d)
  PROVE  RoomInv'
  <1> DEFINE c == dev[d]
             e == [c EXCEPT !.link = TRUE, !.missions = TRUE]
  <1>1. OneStep(d, e)
    BY DEF Reconnect, Becomes, OneStep
  <1>2. Right(c, d) /\ CacheRight(c, states, Len(items))
    BY RightNow
  <1> HIDE DEF c
  <1>3. /\ DOMAIN e = DOMAIN c /\ e.op = c.op /\ e.known = c.known
        /\ e.sequence = c.sequence /\ e.got = c.got /\ e.loaded = c.loaded
        /\ e.wanted = c.wanted /\ AtMostOne(c.wanted)
    BY <1>2 DEF CacheRight
  <1> HIDE DEF e
  <1>4. Right(e, d)
    BY <1>2, <1>3, SetWaiting DEF Right
  <1> QED BY <1>1, <1>4, OneStepRight

LEMMA CutStep ==
  ASSUME RoomInv, NEW d \in Device, Cut(d)
  PROVE  RoomInv'
  <1> DEFINE c == dev[d]
             e == [c EXCEPT !.link = FALSE, !.missions = FALSE, !.wanted = {}]
  <1>1. OneStep(d, e) \/ OneStep(d, Ended(e))
    BY DEF Cut, OneStep
  <1>2. /\ Right(c, d) /\ CacheRight(c, states, Len(items)) /\ Len(items) \in Nat
        /\ CacheRight(e, states, Len(items)) /\ e.op = c.op /\ e.known = c.known
    BY RightNow, Sizes, WaitingRight
  <1> HIDE DEF c, e
  <1>3. Right(e, d)
    BY <1>2 DEF Right, ClientRight
  <1>4. Right(Ended(e), d)
    BY <1>2, EndedRight DEF Right
  <1> QED BY <1>1, <1>3, <1>4, OneStepRight

\* room_command with Action::Post.
LEMMA PostStep ==
  ASSUME RoomInv, NEW d \in Device, NEW m, Post(d, m)
  PROVE  RoomInv'
  <1> DEFINE op == [NoOp EXCEPT !.kind = "post"]
  <1>1. PICK fresh : OneStep(d, StartUnforced(dev[d], op, fresh))
    BY DEF Post, OneStep
  <1>2. /\ DOMAIN op = DOMAIN NoOp /\ op.who = Owner /\ op.wanted = {}
        /\ op.bundles = NoOp.bundles /\ op.keys = NoOp.keys /\ op.body = NoOp.body
        /\ op.page = NoOp.page /\ op.tries = NoOp.tries /\ op.then = "look"
    BY DEF NoOp
  <1> HIDE DEF op
  <1>3. KeptRight(op, list, Len(items))
    BY <1>2, Sizes, FreshOp, RoomAssumption
  <1>4. Right(StartUnforced(dev[d], op, fresh), d)
    BY <1>2, <1>3, RightNow, Sizes, StartRight DEF Right
  <1> QED BY <1>1, <1>4, OneStepRight

\* The commands that change who is in the room.
LEMMA CommandStep ==
  ASSUME RoomInv, NEW d \in Device, NEW kind, NEW u \in User, Command(d, kind, u)
  PROVE  RoomInv'
  <1> DEFINE op == [NoOp EXCEPT !.kind = kind, !.at = "keys", !.who = u]
             e == [dev[d] EXCEPT !.op = op]
  <1>1. OneStep(d, e)
    <2>1. dev' = [dev EXCEPT ![d].op = op] /\ UNCHANGED <<peopleVars, roomVars>>
      BY DEF Command, Starts
    <2> HIDE DEF op
    <2> QED BY <2>1 DEF OneStep
  <1>2. /\ DOMAIN op = DOMAIN NoOp /\ op.who = u /\ op.wanted = {}
        /\ op.bundles = NoOp.bundles /\ op.keys = NoOp.keys /\ op.body = NoOp.body
        /\ op.page = NoOp.page /\ op.tries = NoOp.tries /\ op.then = "look"
        /\ op.at = "keys"
    BY DEF NoOp
  <1> HIDE DEF op
  <1>3. KeptRight(op, list, Len(items))
    BY <1>2, Sizes, FreshOp
  <1>4. StageRight(op, dev[d].known, d, list, trust, states)
    BY <1>2, LooseStage DEF Loose
  <1>5. Right(e, d)
    BY <1>3, <1>4, RightNow, SetOp DEF Right
  <1> QED BY <1>1, <1>5, OneStepRight

-----------------------------------------------------------------------------
(* The backend's transactions *)

LEMMA FollowReflexive ==
  ASSUME NEW a, a.epoch \in Nat
  PROVE  Follow(a, a)
  BY DEF Follow

LEMMA FollowTransitive ==
  ASSUME NEW a, NEW b, NEW c, a.epoch \in Nat, b.epoch \in Nat, c.epoch \in Nat,
         Follow(a, b), Follow(b, c)
  PROVE  Follow(a, c)
  BY DEF Follow

\* A new state follows all that were there, and is right for its place.
LEMMA StatesAppended ==
  ASSUME NEW S, NEW L, NEW T, StatesRight(S, L, T), NEW s,
         StateRight(s, Len(S) + 1, L, T),
         Len(S) > 0 => /\ Follow(S[Len(S)], s)
                       /\ S[Len(S)].epoch = s.epoch => s.author \in DOMAIN s.members
  PROVE  StatesRight(Append(S, s), L, T) /\ StatesGrow(S, Append(S, s))
  <1> DEFINE S2 == Append(S, s)
  <1>1. /\ IsASeq(S2) /\ Len(S) \in Nat /\ Len(S2) = Len(S) + 1
        /\ \A i \in 1..Len(S) : S2[i] = S[i]
        /\ S2[Len(S) + 1] = s
    BY AppendSeq DEF StatesRight
  <1> HIDE DEF S2
  <1>2. ASSUME NEW v \in 1..Len(S2) PROVE StateRight(S2[v], v, L, T)
    BY <1>1 DEF StatesRight
  <1>3. ASSUME NEW v \in 1..Len(S2), NEW w \in 1..v PROVE Follow(S2[w], S2[v])
    <2>1. CASE v \in 1..Len(S)
      BY <1>1, <2>1 DEF StatesRight
    <2>2. CASE v = Len(S) + 1
      <3>1. \A x \in 1..Len(S) : S[x].epoch \in Nat /\ Follow(S[x], S[Len(S)])
        BY <1>1 DEF StatesRight, StateRight
      <3>2. s.epoch \in Nat
        BY <1>1 DEF StateRight
      <3>3. CASE w = v
        BY <1>1, <2>2, <3>2, <3>3, FollowReflexive
      <3>4. CASE w # v
        <4>1. w \in 1..Len(S) /\ Len(S) > 0 /\ Len(S) \in 1..Len(S)
          BY <1>1, <2>2, <3>4
        <4>2. Follow(S[w], S[Len(S)]) /\ Follow(S[Len(S)], s)
          BY <3>1, <4>1
        <4>3. Follow(S[w], s)
          BY <3>1, <3>2, <4>1, <4>2, FollowTransitive
        <4> QED BY <1>1, <2>2, <4>1, <4>3
      <3> QED BY <3>3, <3>4
    <2> QED BY <1>1, <2>1, <2>2
  <1>4. ASSUME NEW v \in 2..Len(S2), S2[v - 1].epoch = S2[v].epoch
        PROVE  S2[v].author \in DOMAIN S2[v].members
    <2>1. CASE v \in 2..Len(S)
      <3>1. S2[v] = S[v] /\ S2[v - 1] = S[v - 1]
        BY <1>1, <2>1
      <3> QED BY <1>4, <2>1, <3>1 DEF StatesRight
    <2>2. CASE v = Len(S) + 1
      <3>1. S2[v] = s /\ S2[v - 1] = S[Len(S)] /\ Len(S) > 0
        BY <1>1, <1>4, <2>2
      <3> QED BY <1>4, <3>1
    <2> QED BY <1>1, <2>1, <2>2
  <1>5. StatesRight(S2, L, T)
    BY <1>1, <1>2, <1>3, <1>4 DEF StatesRight
  <1>6. StatesGrow(S, S2)
    BY <1>1 DEF StatesGrow
  <1> QED BY <1>5, <1>6 DEF S2

LEMMA NothingGrows ==
  ASSUME RoomInv
  PROVE  Roots(list) /\ ListsGrow(list, list) /\ TrustGrows(trust, trust)
         /\ StatesGrow(states, states)
  BY ListLens, Sizes DEF RoomInv, ListsRight, Roots, ListsGrow, TrustGrows, StatesGrow

\* Nothing is stored: only the devices change.
LEMMA NotStored ==
  ASSUME RoomInv, NEW clients, ClientsRight(clients, list, trust, states, Len(items)),
         dev' = clients, UNCHANGED <<roomVars, peopleVars>>
  PROVE  RoomInv'
  <1>1. /\ list' = list /\ keyed' = keyed /\ deleted' = deleted /\ trust' = trust
        /\ member' = member /\ invited' = invited /\ states' = states /\ items' = items
    BY DEF peopleVars, roomVars
  <1> QED BY <1>1 DEF RoomInv

\* AppendKeysAsync: a state that passed its checks.
LEMMA KeysAppend ==
  ASSUME RoomInv, NEW d \in Device, NEW op, NEW known \in 0..Len(states), op.who \in User,
         NextRight(op, known, d, list, trust, states),
         KeysResult(d, op) = "ok", ~(op.kind = "invite" /\ op.who \in People)
  PROVE  /\ StatesRight(Append(states, op.body), list, trust)
         /\ StatesGrow(states, Append(states, op.body))
         /\ PeopleRight(MembersAfter(op), InvitedAfter(op), deleted, Append(states, op.body))
  <1> DEFINE s == op.body
             last == states[Len(states)]
             people == MembersAfter(op) \cup InvitedAfter(op)
  <1>1. Allowed(d, op) /\ Appends(s, people)
    BY DEF KeysResult
  <1>2. Len(states) \in Nat /\ StatesRight(states, list, trust)
    BY Sizes DEF RoomInv
  <1>3. /\ s.version = Len(states) + 1 /\ DOMAIN s.members = people /\ s.author = Of(d)
        /\ known = Len(states)
    BY <1>1, <1>2 DEF Appends, NextRight
  <1>4. states = <<>> <=> Len(states) = 0
    BY <1>2, LenNat DEF StatesRight
  <1>6. Len(states) > 0 => /\ last.epoch \in 1..Len(states)
                           /\ s.epoch \in last.epoch..(last.epoch + 1)
                           /\ DOMAIN last.members \ people # {} => s.epoch = last.epoch + 1
                           /\ s.epoch = last.epoch =>
                                /\ last.recipients \subseteq s.recipients
                                /\ op.kind \notin {"remove", "reject"}
    <2>1. ASSUME Len(states) > 0 PROVE last.epoch \in 1..Len(states)
      BY <1>2, <2>1 DEF StatesRight, StateRight
    <2>2. ASSUME Len(states) > 0
          PROVE  /\ s.epoch \in last.epoch..(last.epoch + 1)
                 /\ DOMAIN last.members \ people # {} => s.epoch = last.epoch + 1
      BY <1>1, <1>3, <1>4, <2>2 DEF Appends
    <2>3. ASSUME Len(states) > 0, s.epoch = last.epoch
          PROVE  last.recipients \subseteq s.recipients /\ op.kind \notin {"remove", "reject"}
      BY <1>3, <2>3 DEF NextRight
    <2> QED BY <2>1, <2>2, <2>3
  <1>7. Len(states) = 0 => s.epoch = 1
    BY <1>3 DEF NextRight
  <1>8. /\ Owner \in member /\ member \subseteq User /\ invited \subseteq User \ member
        /\ deleted \subseteq User
    BY DEF RoomInv, PeopleRight
  <1>9. /\ Owner \in MembersAfter(op) /\ MembersAfter(op) \subseteq User
        /\ InvitedAfter(op) \subseteq User \ MembersAfter(op)
    <2>1. op.kind = "remove" => op.who # Owner
      BY <1>1 DEF Allowed
    <2>2. op.kind = "invite" => op.who \notin member
      BY DEF People
    <2> QED BY <1>8, <2>1, <2>2 DEF MembersAfter, InvitedAfter, Removes
  <1>10. StateRight(s, Len(states) + 1, list, trust)
    <2>1. Of(d) \in User
      BY RoomAssumption
    <2>2. s.epoch \in 1..(Len(states) + 1)
      BY <1>2, <1>6, <1>7
    <2>3. MembersRight(s.members, list, trust) /\ RecipientsRight(s.recipients, s.members, list)
      BY DEF NextRight
    <2> HIDE DEF s
    <2> QED BY <1>3, <2>1, <2>2, <2>3 DEF StateRight
  <1>11. ASSUME Len(states) > 0, last.epoch = s.epoch
         PROVE  s.author \in DOMAIN s.members
    <2>1. op.kind \notin {"remove", "reject"}
      BY <1>6, <1>11
    <2>2. Of(d) \in member
      BY <1>1, <1>8, <2>1 DEF Allowed
    <2>3. MembersAfter(op) = member
      BY <2>1 DEF MembersAfter
    <2> QED BY <1>3, <2>2, <2>3
  <1>12. ASSUME Len(states) > 0 PROVE Follow(last, s)
    <2>1. last.epoch <= s.epoch
      BY <1>6, <1>12
    <2>2. ASSUME last.epoch = s.epoch
          PROVE  last.recipients \subseteq s.recipients /\ DOMAIN last.members \subseteq DOMAIN s.members
      <3>1. s.epoch # last.epoch + 1
        BY <1>6, <1>12, <2>2
      <3>2. DOMAIN last.members \subseteq people
        BY <1>6, <1>12, <3>1
      <3> QED BY <1>3, <1>6, <1>12, <2>2, <3>2
    <2> QED BY <2>1, <2>2 DEF Follow
  <1> HIDE DEF s, last, people
  <1>13. StatesRight(Append(states, s), list, trust) /\ StatesGrow(states, Append(states, s))
    BY <1>2, <1>10, <1>11, <1>12, StatesAppended DEF last
  <1>14. Len(Append(states, s)) = Len(states) + 1 /\ Append(states, s)[Len(states) + 1] = s
    BY <1>2, AppendSeq DEF StatesRight
  <1>15. PeopleRight(MembersAfter(op), InvitedAfter(op), deleted, Append(states, s))
    BY <1>3, <1>8, <1>9, <1>14 DEF PeopleRight, people
  <1> QED BY <1>13, <1>15 DEF s

LEMMA KeysStoredKeeps ==
  ASSUME RoomInv, NEW d \in Device, NEW op, NEW known \in 0..Len(states), op.who \in User,
         NextRight(op, known, d, list, trust, states), NEW clients,
         ClientsRight(clients, list, trust, states, Len(items)), KeysStored(d, op, clients)
  PROVE  RoomInv'
  <1> DEFINE stored == KeysResult(d, op) = "ok" /\ ~(op.kind = "invite" /\ op.who \in People)
  <1>1. CASE ~stored
    <2>1. dev' = clients /\ UNCHANGED <<roomVars, peopleVars>>
      BY <1>1 DEF KeysStored
    <2> QED BY <2>1, NotStored
  <1>2. CASE stored
    <2>1. /\ states' = Append(states, op.body)
          /\ member' = MembersAfter(op) /\ invited' = InvitedAfter(op)
          /\ \/ dev' = Told(clients, member' \cup {op.who}, TRUE, {})
             \/ dev' = Told(clients, member, FALSE, {0})
          /\ UNCHANGED <<items, peopleVars>>
      BY <1>2 DEF KeysStored
    <2>2. items' = items /\ list' = list /\ keyed' = keyed /\ deleted' = deleted /\ trust' = trust
      BY <2>1 DEF peopleVars
    <2>3. /\ StatesRight(states', list, trust) /\ StatesGrow(states, states')
          /\ PeopleRight(member', invited', deleted, states')
      BY <1>2, <2>1, KeysAppend
    <2>4. /\ Len(items) \in Nat /\ Len(items) <= Len(items)
          /\ Roots(list) /\ ListsGrow(list, list) /\ TrustGrows(trust, trust)
      BY Sizes, NothingGrows
    <2>5. ClientsRight(clients, list, trust, states', Len(items))
      BY <2>3, <2>4, AllGrow
    <2>6. ClientsRight(dev', list, trust, states', Len(items))
      <3> DEFINE P == member' \cup {op.who}
      <3>1. {} \subseteq Nat /\ {0} \subseteq Nat
        OBVIOUS
      <3>2. dev' = Told(clients, P, TRUE, {}) \/ dev' = Told(clients, member, FALSE, {0})
        BY <2>1
      <3> HIDE DEF P
      <3>3. ClientsRight(Told(clients, P, TRUE, {}), list, trust, states', Len(items))
        BY ONLY <2>5, <3>1, ToldRight
      <3>4. ClientsRight(Told(clients, member, FALSE, {0}), list, trust, states', Len(items))
        BY ONLY <2>5, <3>1, ToldRight
      <3> QED BY ONLY <3>2, <3>3, <3>4
    <2>7. ItemsRight(items, states', list)
      BY <2>3, <2>4, ItemsStay DEF RoomInv
    <2> QED BY <2>2, <2>3, <2>6, <2>7 DEF RoomInv
  <1> QED BY <1>1, <1>2

\* PutContentAsync: an item whose checks it passed.
LEMMA ItemStoredKeeps ==
  ASSUME RoomInv, NEW d \in Device, NEW op, NEW known \in 0..Len(states),
         SealRight(op.body, known, d, states), NEW clients,
         ItemResult(d, op) # "ok" => ClientsRight(clients, list, trust, states, Len(items)),
         ItemResult(d, op) = "ok" => ClientsRight(clients, list, trust, states, Len(items) + 1),
         ItemStored(d, op, clients)
  PROVE  RoomInv'
  <1>1. CASE ItemResult(d, op) # "ok"
    <2>1. dev' = clients /\ UNCHANGED <<roomVars, peopleVars>>
      BY <1>1 DEF ItemStored
    <2> QED BY <1>1, <2>1, NotStored
  <1>2. CASE ItemResult(d, op) = "ok"
    <2> DEFINE item == [by |-> d, version |-> op.body.version, epoch |-> op.body.epoch]
    <2>1. /\ items' = Append(items, item)
          /\ dev' = Told(clients, member, FALSE, {Len(items')})
          /\ UNCHANGED <<member, invited, states, peopleVars>>
      BY <1>2 DEF ItemStored
    <2>2. /\ list' = list /\ keyed' = keyed /\ deleted' = deleted /\ trust' = trust
          /\ member' = member /\ invited' = invited /\ states' = states
      BY <2>1 DEF peopleVars
    <2>3. item.by = d /\ item.version = op.body.version /\ item.epoch = op.body.epoch
      OBVIOUS
    <2> HIDE DEF item
    <2>4. /\ IsASeq(items') /\ Len(items) \in Nat /\ Len(items') = Len(items) + 1
          /\ \A i \in 1..Len(items) : items'[i] = items[i]
          /\ items'[Len(items) + 1] = item
      BY <2>1, AppendSeq DEF RoomInv, ItemsRight
    <2>5. /\ known \in 1..Len(states) /\ item.version = known /\ d \in states[known].recipients
          /\ item.epoch = states[known].epoch
      BY <2>3, Sizes DEF SealRight
    <2>6. RecipientsRight(states[known].recipients, states[known].members, list)
      BY <2>5 DEF RoomInv, StatesRight, StateRight
    <2>7. ItemRight(item, states, list)
      BY <2>3, <2>5, <2>6 DEF ItemRight, RecipientsRight
    <2>8. ItemsRight(items', states, list)
      BY <2>4, <2>7 DEF RoomInv, ItemsRight
    <2>9. ClientsRight(dev', list, trust, states, Len(items'))
      <3> DEFINE n == Len(items')
      <3>1. {n} \subseteq Nat /\ ClientsRight(clients, list, trust, states, n)
        BY <1>2, <2>4
      <3>2. dev' = Told(clients, member, FALSE, {n})
        BY <2>1
      <3> HIDE DEF n
      <3>3. ClientsRight(Told(clients, member, FALSE, {n}), list, trust, states, n)
        BY ONLY <3>1, ToldRight
      <3>4. ClientsRight(dev', list, trust, states, n)
        BY ONLY <3>2, <3>3
      <3> QED BY <3>4 DEF n
    <2> QED BY <2>2, <2>8, <2>9 DEF RoomInv
  <1> QED BY <1>1, <1>2

LEMMA CommitKeysStep ==
  ASSUME RoomInv, NEW d \in Device, CommitKeys(d)
  PROVE  RoomInv'
  <1> DEFINE c == dev[d]
             r == KeysResult(d, c.op)
             clients == [dev EXCEPT ![d] = Answered(c, r)]
  <1>1. c.op.at = "commit" /\ KeysStored(d, c.op, clients)
    BY DEF CommitKeys
  <1>2. /\ Right(c, d) /\ KeptRight(c.op, list, Len(items)) /\ c.known \in 0..Len(states)
        /\ StageRight(c.op, c.known, d, list, trust, states)
        /\ Len(states) \in Nat /\ Len(items) \in Nat
    BY RightNow, Sizes
  <1>3. r \in {"missing", "invalid", "ok", "conflict"}
    BY DEF KeysResult
  <1> HIDE DEF c, r
  <1>4. ClientRight(Answered(c, r), d, list, trust, states, Len(items))
    BY <1>1, <1>2, <1>3, AnsweredRight DEF Right
  <1>5. ClientsRight(clients, list, trust, states, Len(items))
    BY <1>4, OneRight DEF RoomInv
  <1>6. NextRight(c.op, c.known, d, list, trust, states) /\ c.op.who \in User
    BY <1>1, <1>2 DEF StageRight, KeptRight
  <1> HIDE DEF clients
  <1> QED BY <1>1, <1>2, <1>5, <1>6, KeysStoredKeeps

\* The devices as they are, once there is one more item.
LEMMA OneMoreItem ==
  ASSUME RoomInv, NEW D, ClientsRight(D, list, trust, states, Len(items))
  PROVE  ClientsRight(D, list, trust, states, Len(items) + 1)
  <1>1. /\ Len(items) \in Nat /\ Len(items) + 1 \in Nat /\ Len(items) <= Len(items) + 1
        /\ Roots(list) /\ ListsGrow(list, list) /\ TrustGrows(trust, trust)
        /\ StatesGrow(states, states)
    BY Sizes, NothingGrows
  <1> QED BY <1>1, AllGrow

LEMMA CommitItemStep ==
  ASSUME RoomInv, NEW d \in Device, CommitItem(d)
  PROVE  RoomInv'
  <1> DEFINE c == dev[d]
             r == ItemResult(d, c.op)
             clients == [dev EXCEPT ![d] = ItemAnswered(c, r)]
  <1>1. c.op.at = "commitItem" /\ ItemStored(d, c.op, clients)
    BY DEF CommitItem
  <1>2. /\ Right(c, d) /\ KeptRight(c.op, list, Len(items)) /\ c.known \in 0..Len(states)
        /\ StageRight(c.op, c.known, d, list, trust, states)
        /\ Len(states) \in Nat /\ Len(items) \in Nat
    BY RightNow, Sizes
  <1>3. r \in {"missing", "conflict", "ok"}
    BY DEF ItemResult
  <1>4. ClientsRight(dev, list, trust, states, Len(items))
    BY DEF RoomInv
  <1> HIDE DEF c
  <1>5. /\ r # "ok" => ClientRight(ItemAnswered(c, r), d, list, trust, states, Len(items))
        /\ r = "ok" => ClientRight(ItemAnswered(c, r), d, list, trust, states, Len(items) + 1)
    <2> HIDE DEF r
    <2> QED BY <1>2, <1>3, ItemAnsweredRight DEF Right
  <1>6. /\ r # "ok" => ClientsRight(clients, list, trust, states, Len(items))
        /\ r = "ok" => ClientsRight(clients, list, trust, states, Len(items) + 1)
    BY <1>4, <1>5, OneRight, OneMoreItem
  <1>7. SealRight(c.op.body, c.known, d, states)
    BY <1>1, <1>2 DEF StageRight
  <1> HIDE DEF clients
  <1> QED BY <1>1, <1>2, <1>6, <1>7, ItemStoredKeeps

\* A request gets no answer, whether the backend did it or not.
LEMMA UnansweredStep ==
  ASSUME RoomInv, NEW d \in Device, Unanswered(d)
  PROVE  RoomInv'
  <1> DEFINE c == dev[d]
             clients == [dev EXCEPT ![d] = Retried(c)]
  <1>1. \/ dev' = clients /\ UNCHANGED <<peopleVars, roomVars>>
        \/ c.op.at = "commit" /\ KeysStored(d, c.op, clients)
        \/ c.op.at = "commitItem" /\ ItemStored(d, c.op, clients)
    BY DEF Unanswered
  <1>2. /\ CacheRight(c, states, Len(items)) /\ KeptRight(c.op, list, Len(items))
        /\ c.known \in 0..Len(states) /\ StageRight(c.op, c.known, d, list, trust, states)
        /\ Len(states) \in Nat /\ Len(items) \in Nat
    BY RightNow, Sizes
  <1> HIDE DEF c
  <1>3. c.op.wanted \subseteq Nat /\ c.op.who \in User
    BY <1>2 DEF KeptRight
  <1>4. ClientRight(Retried(c), d, list, trust, states, Len(items))
    BY <1>2, <1>3, RetriedRight
  <1>5. ClientsRight(clients, list, trust, states, Len(items))
    BY <1>4, OneRight DEF RoomInv
  <1> HIDE DEF clients
  <1>6. CASE dev' = clients /\ UNCHANGED <<peopleVars, roomVars>>
    <2>1. UNCHANGED <<roomVars, peopleVars>>
      BY <1>6
    <2> QED BY <1>5, <1>6, <2>1, NotStored
  <1>7. CASE c.op.at = "commit" /\ KeysStored(d, c.op, clients)
    <2>1. NextRight(c.op, c.known, d, list, trust, states)
      BY <1>2, <1>7 DEF StageRight
    <2> QED BY <1>2, <1>3, <1>5, <1>7, <2>1, KeysStoredKeeps
  <1>8. CASE c.op.at = "commitItem" /\ ItemStored(d, c.op, clients)
    <2>1. SealRight(c.op.body, c.known, d, states)
      BY <1>2, <1>8 DEF StageRight
    <2>2. ClientsRight(clients, list, trust, states, Len(items) + 1)
      BY <1>5, OneMoreItem
    <2> QED BY <1>2, <1>5, <1>8, <2>1, <2>2, ItemStoredKeeps
  <1> QED BY <1>1, <1>6, <1>7, <1>8

-----------------------------------------------------------------------------
(* What people do *)

\* A person gets a new list, of an identity that is not older.
LEMMA ListsAppended ==
  ASSUME NEW L, NEW T, ListsRight(L, T), NEW u \in User, NEW root \in Nat,
         NEW devices, devices \subseteq Device, L[u][Len(L[u])].root <= root,
         NEW L2, L2 = [L EXCEPT ![u] = Append(L[u], [root |-> root, devices |-> devices])]
  PROVE  ListsRight(L2, T) /\ ListsGrow(L, L2)
  <1> DEFINE new == [root |-> root, devices |-> devices]
             s == Append(L[u], new)
  <1>1. /\ IsASeq(s) /\ Len(L[u]) \in Nat /\ Len(s) = Len(L[u]) + 1
        /\ \A i \in 1..Len(L[u]) : s[i] = L[u][i]
        /\ s[Len(L[u]) + 1] = new
    BY AppendSeq DEF ListsRight
  <1>2. new.root = root /\ new.devices = devices
    OBVIOUS
  <1>3. DOMAIN L2 = User /\ L2[u] = s /\ \A w \in User : w # u => L2[w] = L[w]
    BY DEF ListsRight
  <1> HIDE DEF new, s
  <1>4. \A w \in User : Len(L[w]) \in Nat /\ Len(L[w]) >= 1
    BY LenNat DEF ListsRight
  <1>5. ListsGrow(L, L2)
    <2>1. ASSUME NEW w \in User
          PROVE  /\ Len(L[w]) \in Nat /\ Len(L2[w]) \in Nat /\ Len(L[w]) <= Len(L2[w])
                 /\ \A i \in 1..Len(L[w]) : L2[w][i] = L[w][i]
      <3>1. CASE w = u
        BY <1>1, <1>3, <3>1
      <3>2. CASE w # u
        BY <1>3, <1>4, <3>2
      <3> QED BY <3>1, <3>2
    <2> QED BY <2>1 DEF ListsGrow
  <1>6. ASSUME NEW w \in User
        PROVE  /\ IsASeq(L2[w]) /\ Len(L2[w]) >= 1
               /\ \A i \in 1..Len(L2[w]) : L2[w][i].root \in Nat /\ L2[w][i].devices \subseteq Device
               /\ T[w] \in Nat /\ T[w] <= L2[w][Len(L2[w])].root
    <2>1. CASE w # u
      BY <1>3, <2>1 DEF ListsRight
    <2>2. CASE w = u
      <3>1. /\ T[u] \in Nat /\ T[u] <= L[u][Len(L[u])].root
            /\ \A i \in 1..Len(L[u]) : L[u][i].root \in Nat /\ L[u][i].devices \subseteq Device
        BY DEF ListsRight
      <3>2. L[u][Len(L[u])].root \in Nat
        BY <1>4, <3>1
      <3>3. T[u] <= root
        BY <3>1, <3>2
      <3>4. \A i \in 1..Len(s) : s[i].root \in Nat /\ s[i].devices \subseteq Device
        BY <1>1, <1>2, <3>1
      <3>5. s[Len(s)].root = root
        BY <1>1, <1>2
      <3>6. IsASeq(s) /\ Len(s) >= 1
        BY <1>1, <1>4
      <3>7. L2[w] = s
        BY <1>3, <2>2
      <3> QED BY ONLY <2>2, <3>1, <3>3, <3>4, <3>5, <3>6, <3>7
    <2> QED BY <2>1, <2>2
  <1>7. ListsRight(L2, T)
    BY <1>3, <1>6 DEF ListsRight
  <1> QED BY <1>5, <1>7

\* People and their lists change, states and items stay.
LEMMA PeopleStep ==
  ASSUME RoomInv, keyed' \subseteq Device, ListsRight(list', trust'),
         ListsGrow(list, list'), TrustGrows(trust, trust'), states' = states, items' = items,
         PeopleRight(member', invited', deleted', states),
         ClientsRight(dev', list, trust, states, Len(items))
  PROVE  RoomInv'
  <1>1. Len(items) \in Nat /\ Len(items) <= Len(items) /\ Roots(list) /\ StatesGrow(states, states)
    BY Sizes, NothingGrows
  <1>2. StatesRight(states, list', trust')
    BY <1>1, StatesStay DEF RoomInv
  <1>3. ItemsRight(items, states, list')
    BY <1>1, ItemsStay DEF RoomInv
  <1>4. ClientsRight(dev', list', trust', states, Len(items))
    BY <1>1, AllGrow
  <1> QED BY <1>2, <1>3, <1>4 DEF RoomInv

LEMMA AcceptStep ==
  ASSUME RoomInv, NEW u \in User, Accept(u)
  PROVE  RoomInv'
  <1>1. /\ u \in invited /\ invited' = invited \ {u} /\ member' = member \cup {u}
        /\ dev' = Told(dev, member', TRUE, {})
        /\ states' = states /\ items' = items /\ list' = list /\ keyed' = keyed
        /\ deleted' = deleted /\ trust' = trust
    BY DEF Accept, peopleVars
  <1>2. PeopleRight(member', invited', deleted', states)
    BY <1>1 DEF RoomInv, PeopleRight
  <1>3. ClientsRight(dev', list, trust, states, Len(items))
    <2>1. {} \subseteq Nat
      OBVIOUS
    <2> QED BY <1>1, <2>1, ToldRight DEF RoomInv
  <1> QED BY <1>1, <1>2, <1>3 DEF RoomInv

LEMMA ToldOfRight ==
  ASSUME NEW D, NEW u, ClientsRight(D, list, trust, states, Len(items))
  PROVE  ClientsRight(ToldOf(D, u), list, trust, states, Len(items))
  <1>1. {} \subseteq Nat
    OBVIOUS
  <1> QED BY <1>1, ToldRight DEF ToldOf

\* Links break, and nothing else of a device changes.
LEMMA LinkRight ==
  ASSUME NEW D, NEW E, NEW L, NEW T, NEW S, NEW n, ClientsRight(D, L, T, S, n),
         DOMAIN E = Device,
         \A d \in Device : E[d] = D[d] \/ \E x : E[d] = [D[d] EXCEPT !.link = x]
  PROVE  ClientsRight(E, L, T, S, n)
  <1>1. ASSUME NEW d \in Device PROVE ClientRight(E[d], d, L, T, S, n)
    <2>1. ClientRight(D[d], d, L, T, S, n) /\ CacheRight(D[d], S, n)
      BY DEF ClientsRight, ClientRight
    <2>2. CASE \E x : E[d] = [D[d] EXCEPT !.link = x]
      <3>1. PICK x : E[d] = [D[d] EXCEPT !.link = x]
        BY <2>2
      <3>2. /\ DOMAIN E[d] = DOMAIN D[d] /\ E[d].op = D[d].op /\ E[d].known = D[d].known
            /\ E[d].sequence = D[d].sequence /\ E[d].got = D[d].got
            /\ E[d].loaded = D[d].loaded /\ E[d].wanted = D[d].wanted
            /\ AtMostOne(D[d].wanted)
        BY <2>1, <3>1 DEF CacheRight
      <3> QED BY <2>1, <3>2, SetWaiting
    <2> QED BY <2>1, <2>2
  <1> QED BY <1>1 DEF ClientsRight

LEMMA UnlinkedRight ==
  ASSUME RoomInv, NEW u
  PROVE  ClientsRight(Unlinked(u), list, trust, states, Len(items))
  <1>1. ClientsRight(dev, list, trust, states, Len(items))
    BY DEF RoomInv
  <1>2. DOMAIN Unlinked(u) = Device
    BY DEF Unlinked
  <1>3. ASSUME NEW d \in Device PROVE \E x : Unlinked(u)[d] = [dev[d] EXCEPT !.link = x]
    <2> DEFINE b == dev[d].link /\ Of(d) # u
    <2>1. Unlinked(u)[d] = [dev[d] EXCEPT !.link = b]
      BY DEF Unlinked
    <2> HIDE DEF b
    <2> QED BY <2>1
  <1>4. \A d \in Device : \/ Unlinked(u)[d] = dev[d]
                          \/ \E x : Unlinked(u)[d] = [dev[d] EXCEPT !.link = x]
    BY <1>3
  <1> HIDE DEF Unlinked
  <1> QED BY <1>1, <1>2, <1>4, LinkRight

LEMMA NewListRight ==
  ASSUME RoomInv, NEW u \in User, NEW root, root \in {Current(u).root, Current(u).root + 1},
         NEW devices, devices \subseteq Device, NewList(u, root, devices)
  PROVE  ListsRight(list', trust) /\ ListsGrow(list, list')
  <1>1. ListsRight(list, trust) /\ Len(list[u]) \in Nat /\ Len(list[u]) >= 1
    BY ListLens DEF RoomInv
  <1>2. list[u][Len(list[u])].root \in Nat
    BY <1>1 DEF ListsRight
  <1>3. root \in Nat /\ list[u][Len(list[u])].root <= root
    BY <1>2 DEF Current
  <1>4. list' = [list EXCEPT ![u] = Append(list[u], [root |-> root, devices |-> devices])]
    BY DEF NewList
  <1> HIDE DEF NewList
  <1> QED BY ONLY <1>1, <1>3, <1>4, u \in User, devices \subseteq Device, ListsAppended

LEMMA TrustStays ==
  ASSUME RoomInv
  PROVE  TrustGrows(trust, trust) /\ ListsRight(list, trust) /\ ListsGrow(list, list)
  BY NothingGrows DEF RoomInv

\* The devices of the current list of a person.
LEMMA CurrentDevices ==
  ASSUME RoomInv, NEW u \in User
  PROVE  Current(u).devices \subseteq Device /\ Current(u).root \in Nat
  BY ListLens DEF RoomInv, ListsRight, Current

LEMMA RegisterStep ==
  ASSUME RoomInv, NEW d \in Device, Register(d)
  PROVE  RoomInv'
  <1>1. /\ keyed' = keyed \cup {d} /\ dev' = ToldOf(dev, Of(d))
        /\ list' = list /\ deleted' = deleted /\ trust' = trust
        /\ member' = member /\ invited' = invited /\ states' = states /\ items' = items
    BY DEF Register, roomVars
  <1>2. ClientsRight(dev', list, trust, states, Len(items))
    BY <1>1, ToldOfRight DEF RoomInv
  <1>3. keyed' \subseteq Device
    BY <1>1 DEF RoomInv
  <1> QED BY <1>1, <1>2, <1>3 DEF RoomInv

LEMMA LinkStep ==
  ASSUME RoomInv, NEW d \in Device, Link(d)
  PROVE  RoomInv'
  <1> DEFINE who == Of(d)
             devices == Current(who).devices \cup {d}
  <1>1. /\ NewList(who, Current(who).root, devices)
        /\ dev' = [dev EXCEPT ![d] = Client(TRUE)]
        /\ keyed' = keyed /\ deleted' = deleted /\ trust' = trust
        /\ member' = member /\ invited' = invited /\ states' = states /\ items' = items
    BY DEF Link, roomVars
  <1>2. who \in User
    BY RoomAssumption
  <1>3. devices \subseteq Device
    BY <1>2, CurrentDevices
  <1> HIDE DEF who, devices
  <1>4. ListsRight(list', trust) /\ ListsGrow(list, list')
    BY <1>1, <1>2, <1>3, NewListRight
  <1>5. ClientsRight(dev', list, trust, states, Len(items))
    <2>1. ClientRight(Client(TRUE), d, list, trust, states, Len(items))
      BY Sizes, StartedRight
    <2> QED BY <1>1, <2>1, OneRight DEF RoomInv
  <1> QED BY <1>1, <1>4, <1>5, TrustStays, PeopleStep DEF RoomInv

LEMMA UnlinkStep ==
  ASSUME RoomInv, NEW d \in Device, Unlink(d)
  PROVE  RoomInv'
  <1> DEFINE who == Of(d)
             devices == Current(who).devices \ {d}
             D == [dev EXCEPT ![d].link = FALSE]
  <1>1. /\ NewList(who, Current(who).root, devices) /\ dev' = ToldOf(D, who)
        /\ keyed' = keyed /\ deleted' = deleted /\ trust' = trust
        /\ member' = member /\ invited' = invited /\ states' = states /\ items' = items
    BY DEF Unlink, roomVars
  <1>2. who \in User
    BY RoomAssumption
  <1>3. devices \subseteq Device
    BY <1>2, CurrentDevices
  <1>4. ClientsRight(D, list, trust, states, Len(items))
    <2>1. ClientsRight(dev, list, trust, states, Len(items)) /\ DOMAIN dev = Device
      BY DEF RoomInv, ClientsRight
    <2>2. DOMAIN D = Device /\ \A e \in Device : e # d => D[e] = dev[e]
      BY <2>1
    <2>3. D[d] = [dev[d] EXCEPT !.link = FALSE]
      BY <2>1
    <2> HIDE DEF D
    <2>4. \E x : D[d] = [dev[d] EXCEPT !.link = x]
      BY <2>3
    <2>5. \A e \in Device : D[e] = dev[e] \/ \E x : D[e] = [dev[e] EXCEPT !.link = x]
      BY <2>2, <2>4
    <2> QED BY ONLY <2>1, <2>2, <2>5, LinkRight
  <1> HIDE DEF who, devices, D
  <1>5. ListsRight(list', trust) /\ ListsGrow(list, list')
    BY <1>1, <1>2, <1>3, NewListRight
  <1>6. ClientsRight(dev', list, trust, states, Len(items))
    BY <1>1, <1>4, ToldOfRight
  <1> QED BY <1>1, <1>5, <1>6, TrustStays, PeopleStep DEF RoomInv

LEMMA ResetStep ==
  ASSUME RoomInv, NEW u \in User, Reset(u)
  PROVE  RoomInv'
  <1>1. /\ NewList(u, Current(u).root + 1, {}) /\ dev' = ToldOf(Unlinked(u), u)
        /\ keyed' = keyed /\ deleted' = deleted /\ trust' = trust
        /\ member' = member /\ invited' = invited /\ states' = states /\ items' = items
    BY DEF Reset, roomVars
  <1>2. {} \subseteq Device
    OBVIOUS
  <1>3. ListsRight(list', trust) /\ ListsGrow(list, list')
    BY <1>1, <1>2, NewListRight
  <1>4. ClientsRight(dev', list, trust, states, Len(items))
    BY <1>1, UnlinkedRight, ToldOfRight
  <1> QED BY <1>1, <1>3, <1>4, TrustStays, PeopleStep DEF RoomInv

\* The owner trusts the identity that a person has now.
LEMMA TrustStep ==
  ASSUME RoomInv, NEW u \in User, Trust(u)
  PROVE  RoomInv'
  <1>1. /\ trust' = [trust EXCEPT ![u] = Current(u).root]
        /\ list' = list /\ keyed' = keyed /\ deleted' = deleted /\ dev' = dev
        /\ member' = member /\ invited' = invited /\ states' = states /\ items' = items
    BY DEF Trust, roomVars
  <1>2. DOMAIN trust = User /\ \A w \in User : trust[w] \in Nat
    BY DEF RoomInv, ListsRight
  <1>3. /\ DOMAIN trust' = User /\ trust'[u] = Current(u).root
        /\ \A w \in User : w # u => trust'[w] = trust[w]
    BY <1>1, <1>2
  <1>4. Current(u).root \in Nat /\ trust[u] <= Current(u).root
    BY CurrentDevices DEF RoomInv, ListsRight, Current
  <1>5. TrustGrows(trust, trust')
    <2>1. ASSUME NEW w \in User PROVE trust'[w] \in Nat /\ trust[w] <= trust'[w]
      <3>1. CASE w = u
        BY <1>3, <1>4, <3>1
      <3>2. CASE w # u
        BY <1>2, <1>3, <3>2
      <3> QED BY <3>1, <3>2
    <2> QED BY <1>2, <2>1 DEF TrustGrows
  <1>6. ListsRight(list', trust')
    <2>1. ASSUME NEW w \in User PROVE trust'[w] \in Nat /\ trust'[w] <= list[w][Len(list[w])].root
      <3>1. CASE w = u
        BY <1>3, <1>4, <3>1 DEF Current
      <3>2. CASE w # u
        BY <1>3, <3>2 DEF RoomInv, ListsRight
      <3> QED BY <3>1, <3>2
    <2> QED BY <1>1, <1>3, <2>1 DEF RoomInv, ListsRight
  <1>7. ListsGrow(list, list')
    BY <1>1, TrustStays
  <1> QED BY <1>1, <1>5, <1>6, <1>7, PeopleStep DEF RoomInv

\* A deleted account is of the room no more, and its last state stays.
LEMMA DeleteStep ==
  ASSUME RoomInv, NEW u \in User, Delete(u)
  PROVE  RoomInv'
  <1> DEFINE P == People \ {u}
             D == Unlinked(u)
  <1>1. /\ NewList(u, Current(u).root, {}) /\ u # Owner
        /\ dev' = D \/ dev' = Told(D, P, TRUE, {})
        /\ deleted' = deleted \cup {u} /\ keyed' = keyed /\ trust' = trust
        /\ member' = member \ {u} /\ invited' = invited \ {u}
        /\ states' = states /\ items' = items
    BY DEF Delete
  <1>2. {} \subseteq Device /\ {} \subseteq Nat
    OBVIOUS
  <1>3. ListsRight(list', trust) /\ ListsGrow(list, list')
    BY <1>1, <1>2, NewListRight
  <1>4. ClientsRight(D, list, trust, states, Len(items))
    BY UnlinkedRight
  <1> HIDE DEF P, D
  <1>5. ClientsRight(Told(D, P, TRUE, {}), list, trust, states, Len(items))
    BY ONLY <1>2, <1>4, ToldRight
  <1>6. ClientsRight(dev', list, trust, states, Len(items))
    BY ONLY <1>1, <1>4, <1>5
  <1>7. PeopleRight(member', invited', deleted', states)
    BY <1>1 DEF RoomInv, PeopleRight
  <1> QED BY <1>1, <1>3, <1>6, <1>7, TrustStays, PeopleStep DEF RoomInv

-----------------------------------------------------------------------------
(* The invariant *)

\* A sequence of one element.
LEMMA OneElement ==
  ASSUME NEW e, NEW s, s = <<e>>
  PROVE  IsASeq(s) /\ Len(s) = 1 /\ s[1] = e
  <1>1. <<e>> \in Seq({e})
    OBVIOUS
  <1> QED BY <1>1 DEF IsASeq

\* A device that has read the first keys of the room.
LEMMA ReadRight ==
  ASSUME NEW d, NEW L, NEW T, NEW S, Len(S) = 1, NEW c,
         c = [Client(TRUE) EXCEPT !.missions = FALSE, !.known = 1, !.checked = TRUE,
                                  !.loaded = TRUE]
  PROVE  ClientRight(c, d, L, T, S, 0)
  <1>1. /\ DOMAIN c = {"link", "missions", "wanted", "known", "checked", "loaded",
                       "sequence", "got", "op"}
        /\ c.known = 1 /\ c.sequence = 0 /\ c.got = {} /\ c.wanted = {} /\ c.op = NoOp
    BY DEF Client
  <1>2. CacheRight(c, S, 0)
    BY ONLY <1>1, Len(S) = 1 DEF CacheRight, AtMostOne
  <1>3. KeptRight(c.op, L, 0) /\ StageRight(c.op, c.known, d, L, T, S)
    BY ONLY <1>1, NoOpRight, LooseStage
  <1> QED BY <1>2, <1>3 DEF ClientRight

LEMMA RoomInvInit == Init => RoomInv
  <1> SUFFICES ASSUME Init PROVE RoomInv
    OBVIOUS
  <1> DEFINE linked(load, u) == {d \in load.devices : Of(d) = u}
             M(load) == [u \in load.members |-> 1]
             R(load) == {d \in load.devices : Of(d) \in load.members}
             s(load) == [version |-> 1, author |-> Owner, epoch |-> 1,
                         members |-> M(load), recipients |-> R(load)]
             c == [Client(TRUE) EXCEPT !.missions = FALSE, !.known = 1, !.checked = TRUE,
                                       !.loaded = TRUE]
  <1>1. PICK load \in Loads :
          /\ list = [u \in User |-> <<[root |-> 1, devices |-> linked(load, u)]>>]
          /\ keyed = load.devices /\ deleted = {} /\ trust = [u \in User |-> 1]
          /\ member = load.members /\ invited = {} /\ items = <<>>
          /\ states = IF load.new THEN <<>> ELSE <<s(load)>>
          /\ dev = [d \in Device |->
                      IF load.new \/ d \notin R(load) THEN Client(d \in load.devices) ELSE c]
    BY DEF Init
  <1> DEFINE st == s(load)
  <1>2. Owner \in load.members /\ load.members \subseteq User /\ load.devices \subseteq Device
    BY RoomAssumption
  <1>3. ASSUME NEW u \in User
        PROVE  /\ IsASeq(list[u]) /\ Len(list[u]) = 1 /\ trust[u] = 1
               /\ list[u][1].root = 1 /\ list[u][1].devices = linked(load, u)
    <2> DEFINE e == [root |-> 1, devices |-> linked(load, u)]
    <2>1. list[u] = <<e>> /\ trust[u] = 1
      BY <1>1
    <2>2. e.root = 1 /\ e.devices = linked(load, u)
      OBVIOUS
    <2> HIDE DEF e
    <2> QED BY <2>1, <2>2, OneElement
  <1>4. ListsRight(list, trust)
    <2>1. DOMAIN list = User /\ DOMAIN trust = User
      BY <1>1
    <2>2. \A u \in User : linked(load, u) \subseteq Device
      BY <1>2
    <2> HIDE DEF linked
    <2> QED BY <1>3, <2>1, <2>2 DEF ListsRight
  <1>5. /\ st.version = 1 /\ st.author = Owner /\ st.epoch = 1
        /\ DOMAIN st.members = load.members /\ (\A u \in load.members : st.members[u] = 1)
        /\ st.recipients = R(load)
    OBVIOUS
  <1>6. states = <<>> \/ states = <<st>>
    BY <1>1
  <1>7. \A d \in Device : \/ \E b : dev[d] = Client(b)
                          \/ states = <<st>> /\ dev[d] = c
    BY <1>1
  <1> HIDE DEF s, st, c
  <1>8. StateRight(st, 1, list, trust)
    <2>1. MembersRight(st.members, list, trust)
      BY <1>2, <1>3, <1>5 DEF MembersRight
    <2>2. RecipientsRight(st.recipients, st.members, list)
      BY <1>2, <1>3, <1>5 DEF RecipientsRight
    <2> QED BY <1>2, <1>5, <2>1, <2>2 DEF StateRight
  <1>9. /\ IsASeq(states)
        /\ \/ Len(states) = 0
           \/ Len(states) = 1 /\ states[1] = st
    <2>1. IsASeq(<<>>) /\ Len(<<>>) = 0
      <3>1. <<>> \in Seq({})
        OBVIOUS
      <3> QED BY <3>1 DEF IsASeq
    <2> QED BY <1>6, <2>1, OneElement
  <1>10. StatesRight(states, list, trust)
    <2>1. Follow(st, st)
      BY <1>5 DEF Follow
    <2> QED BY <1>8, <1>9, <2>1 DEF StatesRight
  <1>11. Len(items) = 0 /\ ItemsRight(items, states, list)
    <2>1. <<>> \in Seq({})
      OBVIOUS
    <2> QED BY <1>1, <2>1 DEF ItemsRight, IsASeq
  <1>12. PeopleRight(member, invited, deleted, states)
    BY <1>1, <1>2, <1>5, <1>9 DEF PeopleRight
  <1>13. ASSUME NEW d \in Device PROVE ClientRight(dev[d], d, list, trust, states, 0)
    <2>1. CASE \E b : dev[d] = Client(b)
      BY <1>9, <2>1, StartedRight
    <2>2. CASE states = <<st>> /\ dev[d] = c
      <3>1. Len(states) = 1
        BY <2>2, OneElement
      <3> QED BY <2>2, <3>1, ReadRight DEF c
    <2> QED BY <1>7, <2>1, <2>2
  <1>14. ClientsRight(dev, list, trust, states, Len(items))
    <2>1. DOMAIN dev = Device
      BY <1>1
    <2> QED BY <1>11, <1>13, <2>1 DEF ClientsRight
  <1>15. keyed \subseteq Device
    BY <1>1, <1>2
  <1> QED BY <1>4, <1>10, <1>11, <1>12, <1>14, <1>15 DEF RoomInv

LEMMA RoomInvStep == RoomInv /\ [Next]_vars => RoomInv'
  <1> SUFFICES ASSUME RoomInv, [Next]_vars PROVE RoomInv'
    OBVIOUS
  <1>1. CASE UNCHANGED vars
    BY <1>1, NotStored DEF vars, peopleVars, roomVars, RoomInv
  <1>2. ASSUME NEW d \in Device, Steps(d) PROVE RoomInv'
    BY <1>2, RefreshStep, NoticeStep, ReadKeysStep, FirstStep, ReadStandingStep,
       ReadRecipientsStep, CommitKeysStep, PageStep, ItemsStep, WriteStep, CommitItemStep,
       RegisterStep, ReconnectStep, RefusedStep DEF Steps
  <1>3. ASSUME NEW d \in Device, Fault(d) PROVE RoomInv'
    BY <1>3, UnansweredStep, CutStep, RestartStep DEF Fault
  <1>4. CASE Acts
    BY <1>3, <1>4, LinkStep, UnlinkStep, PostStep, CommandStep, AcceptStep, ResetStep,
       TrustStep, DeleteStep DEF Acts
  <1> QED BY <1>1, <1>2, <1>4 DEF Next

LEMMA RoomInvAlways == Spec => []RoomInv
  BY RoomInvInit, RoomInvStep, PTL DEF Spec

-----------------------------------------------------------------------------
(* The theorems *)

\* At most one thing waits for a room.
LEMMA OneWaits ==
  ASSUME NEW W, AtMostOne(W)
  PROVE  Cardinality(W) <= 1
  <1>1. CASE W = {}
    BY <1>1, FS_EmptySet
  <1>2. CASE W # {}
    <2>1. PICK x \in W : TRUE
      BY <1>2
    <2>2. W = {x}
      BY <2>1 DEF AtMostOne
    <2> QED BY <2>2, FS_Singleton
  <1> QED BY <1>1, <1>2

LEMMA RoomInvKeys == RoomInv => KeysRight
  <1> SUFFICES ASSUME RoomInv PROVE KeysRight
    OBVIOUS
  <1>1. ASSUME NEW v \in 1..Len(states)
        PROVE  /\ states[v].version = v /\ states[v].author \in User /\ states[v].epoch \in 1..v
               /\ MembersRight(states[v].members, list, trust)
               /\ RecipientsRight(states[v].recipients, states[v].members, list)
    BY <1>1 DEF RoomInv, StatesRight, StateRight
  <1>2. TypeOK
    <2>1. /\ keyed \subseteq Device /\ deleted \subseteq User
          /\ Owner \in member /\ member \subseteq User /\ invited \subseteq User \ member
      BY DEF RoomInv, PeopleRight
    <2>2. ASSUME NEW v \in 1..Len(states)
          PROVE  /\ states[v].version = v /\ states[v].author \in User
                 /\ states[v].epoch \in 1..v /\ DOMAIN states[v].members \subseteq User
                 /\ \A u \in DOMAIN states[v].members :
                      states[v].members[u] \in 1..Len(list[u])
                 /\ states[v].recipients \subseteq Device
      BY <1>1, <2>2 DEF MembersRight, RecipientsRight
    <2>3. ASSUME NEW d \in Device
          PROVE  /\ dev[d].known \in 0..Len(states)
                 /\ dev[d].sequence \in 0..Len(items) /\ dev[d].got \subseteq 1..Len(items)
                 /\ Cardinality(dev[d].wanted) <= 1 /\ dev[d].op.tries \in 0..3
      <3>1. CacheRight(dev[d], states, Len(items)) /\ KeptRight(dev[d].op, list, Len(items))
        BY RightNow
      <3>2. Cardinality(dev[d].wanted) <= 1
        BY <3>1, OneWaits DEF CacheRight
      <3> QED BY <3>1, <3>2 DEF CacheRight, KeptRight
    <2> QED BY <2>1, <2>2, <2>3 DEF TypeOK
  <1>3. Verifiable
    BY DEF RoomInv, ItemsRight, ItemRight, Verifiable, DevicesAt
  <1>4. NewIdentityWaits
    BY <1>1 DEF MembersRight, RecipientsRight, NewIdentityWaits, DevicesAt, RootAt
  <1> QED BY <1>2, <1>3, <1>4 DEF KeysRight

\* Every key state gives the key of its epoch to devices that the lists it
\* names hold, under identities the owner trusts, and every item names a state
\* with its epoch that lists the device that signed it, whatever lists,
\* removals, resets and lost answers came between (next_room_state,
\* AppendKeysAsync, PutContentAsync).
THEOREM KeysRightAlways == Spec => []KeysRight
  BY RoomInvAlways, RoomInvKeys, PTL

\* A device that counts its content up to a sequence has every item up to it
\* (RoomCache::absorb and merge).
THEOREM NoGapAlways == Spec => []NoGap
  <1>1. RoomInv => NoGap
    BY RightNow DEF NoGap, CacheRight
  <1> QED BY <1>1, RoomInvAlways, PTL

\* Only PutContentAsync, answered or not, stores an item.
LEMMA ItemsOnly ==
  ASSUME RoomInv, [Next]_vars, items' # items
  PROVE  \E d \in Device : \E clients :
           dev[d].op.at = "commitItem" /\ ItemStored(d, dev[d].op, clients)
  <1>1. CASE UNCHANGED vars
    BY <1>1 DEF vars, roomVars
  <1>2. ASSUME NEW d \in Device, NEW clients, KeysStored(d, dev[d].op, clients) PROVE FALSE
    BY <1>2 DEF KeysStored, roomVars
  <1>3. ASSUME NEW d \in Device, NEW c, Becomes(d, c) PROVE FALSE
    BY <1>3 DEF Becomes, roomVars
  <1>4. ASSUME NEW d \in Device, Steps(d) PROVE CommitItem(d)
    <2>1. ~Refresh(d)
      <3> SUFFICES ASSUME Refresh(d) PROVE FALSE
        OBVIOUS
      <3> DEFINE c == [dev[d] EXCEPT !.missions = FALSE, !.wanted = {}]
                 op == [NoOp EXCEPT !.kind = "refresh", !.at = "keys",
                                    !.wanted = dev[d].wanted]
      <3>1. Becomes(d, IF Of(d) \in member \/ c.known > 0
                       THEN KeysRead([c EXCEPT !.op = op], d) ELSE c)
        BY DEF Refresh
      <3> QED BY <1>3, <3>1
    <2>2. ~Notice(d)
      BY <1>3 DEF Notice
    <2>3. ~ReadKeys(d) /\ ~Refused(d) /\ ~Reconnect(d)
      BY <1>3 DEF ReadKeys, Refused, Reconnect
    <2>4. ~First(d)
      BY <1>3 DEF First
    <2>5. ~ReadStanding(d)
      BY <1>3 DEF ReadStanding
    <2>6. ~ReadRecipients(d)
      BY <1>3 DEF ReadRecipients
    <2>7. ~Page(d)
      BY <1>3 DEF Page
    <2>8. ~Items(d)
      BY <1>3 DEF Items
    <2>9. ~Write(d)
      BY <1>3 DEF Write
    <2>10. ~CommitKeys(d)
      BY <1>2 DEF CommitKeys
    <2>11. ~Register(d)
      BY DEF Register, roomVars
    <2> QED BY <1>4, <2>1, <2>2, <2>3, <2>4, <2>5, <2>6, <2>7, <2>8, <2>9, <2>10, <2>11
            DEF Steps
  <1>5. CASE Acts
    <2>1. ASSUME NEW d \in Device PROVE ~Link(d) /\ ~Unlink(d)
      BY DEF Link, Unlink, roomVars
    <2>2. ASSUME NEW d \in Device, NEW m PROVE ~Post(d, m)
      BY DEF Post, roomVars
    <2>3. ASSUME NEW d \in Device, NEW kind, NEW u PROVE ~Command(d, kind, u)
      BY DEF Command, Starts, roomVars
    <2>4. ASSUME NEW u PROVE ~Accept(u) /\ ~Reset(u) /\ ~Trust(u) /\ ~Delete(u)
      BY DEF Accept, Reset, Trust, Delete, roomVars
    <2>5. ASSUME NEW d \in Device PROVE ~Cut(d) /\ ~Restart(d)
      BY DEF Cut, Restart, roomVars
    <2>6. PICK d \in Device : Unanswered(d)
      BY <1>5, <2>1, <2>2, <2>3, <2>4, <2>5 DEF Acts, Fault
    <2> DEFINE clients == [dev EXCEPT ![d] = Retried(dev[d])]
    <2>7. \/ UNCHANGED roomVars
          \/ KeysStored(d, dev[d].op, clients)
          \/ dev[d].op.at = "commitItem" /\ ItemStored(d, dev[d].op, clients)
      BY <2>6 DEF Unanswered
    <2> HIDE DEF clients
    <2> QED BY <1>2, <2>7 DEF roomVars
  <1>6. CASE \E d \in Device : Steps(d)
    <2>1. PICK d \in Device : CommitItem(d)
      BY <1>4, <1>6
    <2> DEFINE clients == [dev EXCEPT ![d] = ItemAnswered(dev[d], ItemResult(d, dev[d].op))]
    <2>2. dev[d].op.at = "commitItem" /\ ItemStored(d, dev[d].op, clients)
      BY <2>1 DEF CommitItem
    <2> HIDE DEF clients
    <2> QED BY <2>2
  <1> QED BY <1>1, <1>5, <1>6 DEF Next

\* Whoever has the key of the current epoch is named by the last state, when
\* the one who made the key is.
LEMMA HoldersAre ==
  ASSUME RoomInv, NEW v, v = Len(states), v >= 1,
         NEW x \in 1..v, MadeKey(states, x, v), states[x].author \in DOMAIN states[v].members
  PROVE  Holders(v) \subseteq People \cup deleted
  <1>1. v \in Nat /\ v \in 1..Len(states)
    BY Sizes
  <1>2. DOMAIN states[v].members \subseteq People \cup deleted
    BY <1>1 DEF RoomInv, PeopleRight, People
  <1>3. Opener(v) = x
    BY <1>1, Sizes, OpenerIs DEF RoomInv
  <1>4. ASSUME NEW w \in x..v
        PROVE  /\ w \in 1..Len(states) /\ states[w].epoch = states[v].epoch
               /\ states[w].recipients \subseteq states[v].recipients
               /\ DOMAIN states[w].members \subseteq DOMAIN states[v].members
    <2>1. w \in 1..v /\ x \in 1..w /\ w \in 1..Len(states) /\ x \in 1..Len(states)
      BY <1>1
    <2>2. Follow(states[x], states[w]) /\ Follow(states[w], states[v])
      BY <1>1, <2>1 DEF RoomInv, StatesRight
    <2>3. states[x].epoch = states[v].epoch
      BY DEF MadeKey
    <2>4. states[w].epoch \in Nat /\ states[v].epoch \in Nat
      BY <1>1, <2>1 DEF RoomInv, StatesRight, StateRight
    <2>5. states[w].epoch = states[v].epoch
      BY <2>2, <2>3, <2>4 DEF Follow
    <2> QED BY <2>1, <2>2, <2>5 DEF Follow
  <1>5. ASSUME NEW w \in x..v PROVE states[w].author \in DOMAIN states[v].members
    <2>1. CASE w = x
      BY <2>1
    <2>2. CASE w # x
      <3>1. w \in 2..Len(states) /\ w - 1 \in x..v
        BY <1>1, <2>2
      <3>2. states[w - 1].epoch = states[w].epoch
        BY <1>4, <1>5, <3>1
      <3>3. states[w].author \in DOMAIN states[w].members
        BY <3>1, <3>2 DEF RoomInv, StatesRight
      <3> QED BY <1>4, <1>5, <3>3
    <2> QED BY <2>1, <2>2
  <1>6. ASSUME NEW w \in x..v, NEW d \in states[w].recipients
        PROVE  Of(d) \in DOMAIN states[v].members
    <2>1. RecipientsRight(states[w].recipients, states[w].members, list)
      BY <1>4, <1>6 DEF RoomInv, StatesRight, StateRight
    <2> QED BY <1>4, <1>6, <2>1 DEF RecipientsRight
  <1>7. ASSUME NEW u \in Holders(v) PROVE u \in DOMAIN states[v].members
    <2>1. PICK w \in x..v : u = states[w].author \/ \E d \in states[w].recipients : Of(d) = u
      BY <1>3, <1>7 DEF Holders
    <2> QED BY <1>5, <1>6, <2>1
  <1> QED BY <1>2, <1>7

\* Whoever was given the key that a new item is sealed with, or made it, is of
\* the room when the backend stores the item (writing_key, PutContentAsync).
\* A removed member, or one that left and so made the next key, is not.
THEOREM OutsidersShutAlways == Spec => OutsidersShut
  <1> DEFINE Shut == \A n \in Len(items) + 1..Len(items') :
                       Holders(items'[n].version) \subseteq People \cup deleted
  <1>1. ASSUME RoomInv, [Next]_vars PROVE Shut
    <2>1. Len(items) \in Nat
      BY <1>1, Sizes
    <2>2. CASE items' = items
      BY <2>1, <2>2
    <2>3. CASE items' # items
      <3>0. PICK d \in Device : \E clients :
              dev[d].op.at = "commitItem" /\ ItemStored(d, dev[d].op, clients)
        BY <1>1, <2>3, ItemsOnly
      <3>1. PICK clients : dev[d].op.at = "commitItem" /\ ItemStored(d, dev[d].op, clients)
        BY <3>0
      <3> DEFINE op == dev[d].op
                 known == dev[d].known
                 item == [by |-> d, version |-> op.body.version, epoch |-> op.body.epoch]
      <3>2. ItemResult(d, op) = "ok" /\ items' = Append(items, item)
        BY <2>3, <3>1 DEF ItemStored, roomVars
      <3>3. op.body.version = Len(states)
        BY <3>2 DEF ItemResult
      <3>4. item.version = Len(states)
        BY <3>3
      <3>5. SealRight(op.body, known, d, states)
        BY <1>1, <3>1, RightNow DEF StageRight
      <3> HIDE DEF op, known, item
      <3>6. known = Len(states) /\ known >= 1
        BY <3>3, <3>5 DEF SealRight
      <3>7. PICK x \in 1..known :
              MadeKey(states, x, known) /\ states[x].author \in DOMAIN states[known].members
        BY <3>5 DEF SealRight
      <3>8. Holders(known) \subseteq People \cup deleted
        BY <1>1, <3>6, <3>7, HoldersAre
      <3>9. Len(items') = Len(items) + 1 /\ items'[Len(items) + 1] = item
        BY <1>1, <3>2, AppendSeq DEF RoomInv, ItemsRight
      <3> QED BY <2>1, <3>4, <3>6, <3>8, <3>9
    <2> QED BY <2>2, <2>3
  <1> QED BY <1>1, RoomInvAlways, PTL DEF Spec, OutsidersShut

=============================================================================
