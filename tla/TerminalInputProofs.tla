------------------------- MODULE TerminalInputProofs -------------------------
(***************************************************************************)
(* Proofs about TerminalInput, for any views, writes and limits: the       *)
(* program gets whole writes in order and within the budget, and what the  *)
(* callers are told is true.                                               *)
(*                                                                         *)
(* The argument follows a write from its mailbox to the program: it is in  *)
(* one place at a time, the program has exactly its bytes up to the place  *)
(* where the queue stands, and whoever types in order is before the next   *)
(* write in every place.                                                   *)
(***************************************************************************)
EXTENDS TerminalInput, Integers, FiniteSetTheorems, TLAPS

-----------------------------------------------------------------------------
(* Recursion and induction *)

\* Induction up to a bound, over the set of numbers of which something holds.
LEMMA UpTo ==
  ASSUME NEW N \in Nat, NEW W, 0 \in W, \A n \in 0 .. N - 1 : n \in W => n + 1 \in W
  PROVE  0 .. N \subseteq W
  <1> SUFFICES ASSUME (0 .. N) \ W # {} PROVE FALSE
    OBVIOUS
  <1> DEFINE Z == (0 .. N) \ W
  <1>1. PICK n \in Z : \A m \in Z : ~(<<m, n>> \in OpToRel(<, Nat))
    <2>1. Z \subseteq Nat /\ Z # {}
      OBVIOUS
    <2> HIDE DEF Z
    <2> QED BY <2>1, NatLessThanWellFounded, WFMin
  <1>2. n \in 0 .. N /\ n \notin W /\ n # 0
    OBVIOUS
  <1>3. n - 1 \in 0 .. N - 1 /\ n - 1 \in Nat /\ n \in Nat /\ n - 1 < n /\ (n - 1) + 1 = n
    BY <1>2
  <1>4. n - 1 \notin Z
    BY <1>1, <1>3 DEF OpToRel
  <1>5. n - 1 \in W
    BY <1>3, <1>4
  <1> QED BY <1>2, <1>3, <1>5

\* A function that is built step by step from a start.
Built(g, V, a, n, step) ==
  /\ g \in [0 .. n -> V] /\ g[0] = a
  /\ \A i \in 1 .. n : g[i] = step[<<g[i - 1], i>>]

LEMMA Recursion ==
  ASSUME NEW V, NEW a \in V, NEW N \in Nat, NEW step \in [V \X (1 .. N) -> V]
  PROVE  \E g : Built(g, V, a, N, step)
  <1> DEFINE Climbs(g, n) == /\ g \in [0 .. n -> V] /\ g[0] = a
                             /\ \A i \in 1 .. n : g[i] = step[<<g[i - 1], i>>]
             W == {n \in 0 .. N : \E g : Climbs(g, n)}
  <1>1. 0 \in W
    <2> DEFINE g == [i \in 0 .. 0 |-> a]
    <2>1. g \in [0 .. 0 -> V] /\ g[0] = a
      OBVIOUS
    <2>2. \A i \in 1 .. 0 : FALSE
      OBVIOUS
    <2> HIDE DEF g
    <2>3. Climbs(g, 0)
      BY <2>1, <2>2
    <2> QED BY <2>3
  <1>2. ASSUME NEW n \in 0 .. N - 1, n \in W PROVE n + 1 \in W
    <2>1. PICK g : Climbs(g, n)
      BY <1>2
    <2> DEFINE x == step[<<g[n], n + 1>>]
               h == [i \in 0 .. n + 1 |-> IF i = n + 1 THEN x ELSE g[i]]
    <2>2. g[n] \in V /\ n + 1 \in 1 .. N /\ n \in Nat
      BY <2>1
    <2>3. x \in V
      <3>1. <<g[n], n + 1>> \in V \X (1 .. N)
        BY <2>2
      <3> QED BY <3>1
    <2>4. /\ DOMAIN h = 0 .. n + 1 /\ h[n + 1] = x
          /\ \A i \in 0 .. n : h[i] = g[i]
      BY <2>2
    <2>5. x = step[<<g[n], n + 1>>]
      OBVIOUS
    <2>6. h = [i \in 0 .. n + 1 |-> h[i]]
      BY <2>4
    <2> HIDE DEF x, h
    <2>7. h[0] = a /\ \A i \in 0 .. n + 1 : h[i] \in V
      BY <2>1, <2>2, <2>3, <2>4
    <2>8. h \in [0 .. n + 1 -> V]
      BY <2>6, <2>7
    <2>9. ASSUME NEW i \in 1 .. n + 1 PROVE h[i] = step[<<h[i - 1], i>>]
      <3>1. CASE i = n + 1
        <4>1. i - 1 = n /\ h[i - 1] = g[n]
          BY <2>2, <2>4, <3>1
        <4> QED BY <2>4, <2>5, <3>1, <4>1
      <3>2. CASE i # n + 1
        <4>1. i \in 1 .. n /\ i - 1 \in 0 .. n
          BY <2>2, <3>2
        <4> QED BY <2>1, <2>4, <4>1
      <3> QED BY <3>1, <3>2
    <2>10. Climbs(h, n + 1)
      BY <2>7, <2>8, <2>9
    <2> QED BY <2>2, <2>10
  <1>3. N \in W
    <2> HIDE DEF W
    <2>1. 0 .. N \subseteq W
      BY <1>1, <1>2, UpTo
    <2> QED BY <2>1
  <1> QED BY <1>3 DEF Built

-----------------------------------------------------------------------------
(* What drop_cancelled_input leaves of the queue *)

\* The elements of r are some of the first n of q, in their order.
Within(r, q, n) ==
  /\ \A i \in 1 .. Len(r) : \E a \in 1 .. n : r[i] = q[a]
  /\ \A i, j \in 1 .. Len(r) : i < j => \E a, b \in 1 .. n : a < b /\ r[i] = q[a] /\ r[j] = q[b]

LEMMA WithinAppend ==
  ASSUME NEW S, NEW r \in Seq(S), NEW q \in Seq(S), NEW n \in 1 .. Len(q), Within(r, q, n - 1)
  PROVE  Within(r, q, n) /\ Within(Append(r, q[n]), q, n)
  <1> DEFINE w == Append(r, q[n])
  <1>1. Len(q) \in Nat /\ n \in Nat /\ n >= 1 /\ 1 .. n - 1 \subseteq 1 .. n /\ q[n] \in S
        /\ n \in 1 .. n /\ \A a \in 1 .. n - 1 : a < n
    OBVIOUS
  <1>2. Within(r, q, n)
    BY <1>1 DEF Within
  <1>3. /\ Len(w) = Len(r) + 1 /\ Len(r) \in Nat /\ w[Len(r) + 1] = q[n]
        /\ \A i \in 1 .. Len(r) : w[i] = r[i]
    BY <1>1
  <1> HIDE DEF w
  <1>4. \A i \in 1 .. Len(w) : i \in 1 .. Len(r) \/ i = Len(r) + 1
    BY <1>3
  <1>5. ASSUME NEW i \in 1 .. Len(w) PROVE \E a \in 1 .. n : w[i] = q[a]
    <2>1. CASE i \in 1 .. Len(r)
      BY <1>1, <1>3, <2>1 DEF Within
    <2>2. CASE i = Len(r) + 1
      BY <1>1, <1>3, <2>2
    <2> QED BY <1>4, <2>1, <2>2
  <1>6. ASSUME NEW i \in 1 .. Len(w), NEW j \in 1 .. Len(w), i < j
        PROVE  \E a, b \in 1 .. n : a < b /\ w[i] = q[a] /\ w[j] = q[b]
    <2>1. i \in 1 .. Len(r)
      BY <1>3, <1>6
    <2>2. CASE j \in 1 .. Len(r)
      <3>1. PICK a \in 1 .. n, b \in 1 .. n : a < b /\ r[i] = q[a] /\ r[j] = q[b]
        BY <1>2, <1>6, <2>1, <2>2 DEF Within
      <3> QED BY <1>3, <2>1, <2>2, <3>1
    <2>3. CASE j = Len(r) + 1
      <3>1. PICK a \in 1 .. n - 1 : r[i] = q[a]
        BY <2>1 DEF Within
      <3>2. a \in 1 .. n /\ a < n /\ w[i] = q[a] /\ w[j] = q[n]
        BY <1>1, <1>3, <2>1, <2>3, <3>1
      <3> QED BY <1>1, <3>2
    <2> QED BY <1>4, <2>2, <2>3
  <1>7. Within(w, q, n)
    BY <1>5, <1>6 DEF Within
  <1> QED BY <1>2, <1>7 DEF w

LEMMA StayingWithin ==
  ASSUME NEW S, NEW q \in Seq(S)
  PROVE  Staying(q) \in Seq(S) /\ Within(Staying(q), q, Len(q))
  <1> DEFINE N == Len(q) V == Seq(S)
             step == [p \in V \X (1 .. N) |-> IF Cancelled(q[p[2]]) THEN p[1] ELSE Append(p[1], q[p[2]])]
             Turn(g, n) == IF n = 0 THEN <<>>
                           ELSE IF Cancelled(q[n]) THEN g[n - 1]
                           ELSE Append(g[n - 1], q[n])
             Body(g) == [n \in 0 .. N |-> Turn(g, n)]
             f == CHOOSE e : e = Body(e)
  <1>0. N \in Nat /\ <<>> \in V /\ \A i \in 1 .. N : q[i] \in S
    OBVIOUS
  <1>1. step \in [V \X (1 .. N) -> V]
    <2>1. ASSUME NEW p \in V \X (1 .. N) PROVE p[1] \in V /\ Append(p[1], q[p[2]]) \in V
      <3>1. p[1] \in V /\ p[2] \in 1 .. N
        OBVIOUS
      <3>2. q[p[2]] \in S
        BY <1>0, <3>1
      <3> QED BY <3>1, <3>2
    <2> HIDE DEF V
    <2> QED BY <2>1
  <1>2. \A c \in V : \A i \in 1 .. N :
          step[<<c, i>>] = IF Cancelled(q[i]) THEN c ELSE Append(c, q[i])
    <2> HIDE DEF V
    <2> QED OBVIOUS
  <1> HIDE DEF step
  <1>3. PICK g : Built(g, V, <<>>, N, step)
    <2> HIDE DEF N, V
    <2> QED BY <1>0, <1>1, Recursion
  <1>4. /\ g \in [0 .. N -> V] /\ g[0] = <<>>
        /\ \A i \in 1 .. N : g[i] = IF Cancelled(q[i]) THEN g[i - 1] ELSE Append(g[i - 1], q[i])
    <2> HIDE DEF N, V
    <2>1. \A i \in 1 .. N : i - 1 \in 0 .. N
      BY <1>0
    <2>2. g \in [0 .. N -> V] /\ g[0] = <<>> /\ \A i \in 1 .. N : g[i] = step[<<g[i - 1], i>>]
      BY <1>3 DEF Built
    <2>3. ASSUME NEW i \in 1 .. N
          PROVE  g[i] = IF Cancelled(q[i]) THEN g[i - 1] ELSE Append(g[i - 1], q[i])
      <3>1. g[i - 1] \in V
        BY <2>1, <2>2
      <3> QED BY <1>2, <2>2, <3>1
    <2> QED BY <2>2, <2>3
  <1> HIDE DEF V
  <1>5. g = Body(g)
    <2>1. \A n \in 0 .. N : n = 0 \/ n \in 1 .. N
      BY <1>0
    <2>2. \A n \in 0 .. N : g[n] = IF n = 0 THEN <<>>
                                    ELSE IF Cancelled(q[n]) THEN g[n - 1]
                                    ELSE Append(g[n - 1], q[n])
      BY <1>4, <2>1
    <2>3. g = [n \in 0 .. N |-> g[n]]
      BY <1>4
    <2>4. \A n \in 0 .. N : g[n] = Turn(g, n)
      BY <2>2
    <2> HIDE DEF Turn
    <2> QED BY <2>3, <2>4
  <1>6. f = Body(f)
    <2> HIDE DEF Body
    <2> QED BY <1>5
  <1> HIDE DEF f
  <1>7. /\ f[0] = <<>>
        /\ \A i \in 1 .. N : f[i] = IF Cancelled(q[i]) THEN f[i - 1] ELSE Append(f[i - 1], q[i])
    <2>1. \A n \in 0 .. N : f[n] = Turn(f, n)
      <3> HIDE DEF Turn, N
      <3> QED BY <1>6, Zenon
    <2>2. \A n \in 1 .. N : n \in 0 .. N /\ n # 0
      BY <1>0
    <2> QED BY <1>0, <2>1, <2>2
  <1> DEFINE W == {n \in 0 .. N : f[n] \in V /\ Within(f[n], q, n)}
  <1>8. 0 \in W
    <2>1. Within(<<>>, q, 0)
      <3>1. Len(<<>>) = 0
        OBVIOUS
      <3> QED BY <3>1 DEF Within
    <2> QED BY <1>0, <1>7, <2>1
  <1>9. ASSUME NEW n \in 0 .. N - 1, n \in W PROVE n + 1 \in W
    <2>1. n + 1 \in 1 .. N /\ (n + 1) - 1 = n /\ n + 1 \in 0 .. N
      BY <1>0
    <2>2. f[n] \in Seq(S) /\ Within(f[n], q, n)
      BY <1>9 DEF V
    <2>3. f[n + 1] = f[n] \/ f[n + 1] = Append(f[n], q[n + 1])
      BY <1>7, <2>1
    <2>4. Within(f[n], q, n + 1) /\ Within(Append(f[n], q[n + 1]), q, n + 1)
      BY <2>1, <2>2, WithinAppend
    <2>5. q[n + 1] \in S
      BY <1>0, <2>1
    <2>6. Append(f[n], q[n + 1]) \in Seq(S)
      BY ONLY <2>2, <2>5
    <2>7. f[n + 1] \in Seq(S) /\ Within(f[n + 1], q, n + 1)
      BY ONLY <2>2, <2>3, <2>4, <2>6
    <2> QED BY <2>1, <2>7 DEF V
  <1>10. 0 .. N \subseteq W
    <2> HIDE DEF W, N
    <2> QED BY <1>0, <1>8, <1>9, UpTo
  <1>11. f[N] \in V /\ Within(f[N], q, N)
    <2>1. N \in 0 .. N
      BY <1>0
    <2> QED BY <1>10, <2>1
  <1>12. Staying(q) = f[N]
    BY DEF Staying, f
  <1> QED BY <1>11, <1>12 DEF V

-----------------------------------------------------------------------------
(* The writes of a load, and what they cost *)

LEMMA LoadRight ==
  ASSUME load \in Loads
  PROVE  /\ Budget \in Nat /\ IsFiniteSet(Writes) /\ 0 \notin Writes
         /\ \A w \in Writes :
              /\ w \in Nat \ {0} /\ Kind(w) \in Kinds /\ Size(w) \in 0 .. Budget /\ Size(w) \in Nat
              /\ After(w) \in 0 .. w - 1
              /\ Kind(w) \in Authorized => By(w) \in Views
  <1> USE TerminalInputAssumption
  <1>1. Len(load.writes) \in Nat /\ Writes = 1 .. Len(load.writes)
    BY DEF Writes
  <1>2. IsFiniteSet(Writes)
    <2>1. 1 \in Int /\ Len(load.writes) \in Int
      BY <1>1
    <2> QED BY <1>1, <2>1, FS_Interval
  <1>3. Budget \in Nat
    OBVIOUS
  <1>4. ASSUME NEW w \in Writes
        PROVE  /\ Kind(w) \in Kinds /\ Size(w) \in 0 .. Budget
               /\ After(w) \in 0 .. w - 1
               /\ Kind(w) \in Local \cup Remote => By(w) \in Views
    BY DEF Writes, Kind, Size, After, By
  <1>5. Authorized \subseteq Local \cup Remote
    BY DEF Authorized, Local, Remote
  <1>6. 0 \notin Writes /\ \A w \in Writes : w \in Nat \ {0}
    BY <1>1
  <1> QED BY <1>2, <1>3, <1>4, <1>5, <1>6

BytesOf(W) == {b \in W \X (1 .. Budget) : b[2] <= Size(b[1])}

LEMMA BytesFinite ==
  ASSUME load \in Loads, NEW W, W \subseteq Writes
  PROVE  IsFiniteSet(BytesOf(W)) /\ Cost(W) = Cardinality(BytesOf(W)) /\ Cost(W) \in Nat
  <1>1. IsFiniteSet(W)
    BY LoadRight, FS_Subset
  <1>2. IsFiniteSet(1 .. Budget)
    <2>1. 1 \in Int /\ Budget \in Int
      BY LoadRight
    <2> QED BY <2>1, FS_Interval
  <1>3. IsFiniteSet(W \X (1 .. Budget))
    BY <1>1, <1>2, FS_Product
  <1>4. BytesOf(W) \in SUBSET (W \X (1 .. Budget))
    BY DEF BytesOf
  <1>5. IsFiniteSet(BytesOf(W))
    BY <1>3, <1>4, FS_Subset
  <1>6. Cost(W) = Cardinality(BytesOf(W))
    BY DEF Cost, BytesOf
  <1> QED BY <1>5, <1>6, FS_CardinalityType

LEMMA CostNone ==
  ASSUME load \in Loads
  PROVE  Cost({}) = 0
  <1>1. BytesOf({}) = {}
    BY DEF BytesOf
  <1> QED BY <1>1, BytesFinite, FS_EmptySet

LEMMA CostJoins ==
  ASSUME load \in Loads, NEW V, NEW W, V \subseteq Writes, W \subseteq Writes, V \cap W = {}
  PROVE  Cost(V \cup W) = Cost(V) + Cost(W)
  <1>1. BytesOf(V \cup W) = BytesOf(V) \cup BytesOf(W)
    BY DEF BytesOf
  <1>2. BytesOf(V) \cap BytesOf(W) = {}
    BY DEF BytesOf
  <1>3. Cardinality(BytesOf(V) \cap BytesOf(W)) = 0
    BY <1>2, FS_EmptySet
  <1>4. /\ IsFiniteSet(BytesOf(V)) /\ Cost(V) = Cardinality(BytesOf(V)) /\ Cost(V) \in Nat
        /\ IsFiniteSet(BytesOf(W)) /\ Cost(W) = Cardinality(BytesOf(W)) /\ Cost(W) \in Nat
    BY BytesFinite
  <1>5. Cost(V \cup W) = Cardinality(BytesOf(V \cup W))
    <2>1. V \cup W \subseteq Writes
      OBVIOUS
    <2> QED BY <2>1, BytesFinite
  <1>6. Cardinality(BytesOf(V) \cup BytesOf(W))
          = Cardinality(BytesOf(V)) + Cardinality(BytesOf(W)) - Cardinality(BytesOf(V) \cap BytesOf(W))
    BY <1>4, FS_Union
  <1>7. Cost(V \cup W) = Cardinality(BytesOf(V) \cup BytesOf(W))
    BY <1>1, <1>5
  <1>8. Cost(V \cup W) = Cost(V) + Cost(W) - 0
    BY <1>3, <1>4, <1>6, <1>7
  <1> QED BY ONLY <1>4, <1>8

LEMMA CostOne ==
  ASSUME load \in Loads, NEW w \in Writes
  PROVE  Cost({w}) = Size(w)
  <1> DEFINE n == Size(w)
             S == 1 .. n
             T == BytesOf({w})
             f == [i \in S |-> <<w, i>>]
  <1>1. n \in Nat /\ n <= Budget /\ Budget \in Nat
    BY LoadRight
  <1>2. T = {<<w, i>> : i \in S}
    BY <1>1 DEF BytesOf
  <1>3. f \in [S -> T] /\ (\A i \in S : f[i] = <<w, i>>)
    BY <1>2
  <1>4. \A i, j \in S : f[i] = f[j] => i = j
    OBVIOUS
  <1>5. \A t \in T : \E i \in S : f[i] = t
    BY <1>2
  <1>6. ExistsBijection(S, T)
    <2> HIDE DEF f, S, T
    <2> QED BY <1>3, <1>4, <1>5 DEF ExistsBijection, Bijection, Injection, Surjection, IsInjective
  <1>7. IsFiniteSet(S) /\ Cardinality(S) = n
    <2>1. 1 \in Int /\ n \in Int /\ n >= 0
      BY <1>1
    <2>2. IsFiniteSet(S) /\ Cardinality(S) = IF 1 > n THEN 0 ELSE n - 1 + 1
      BY <2>1, FS_Interval
    <2> QED BY ONLY <2>1, <2>2
  <1>8. Cardinality(T) = Cardinality(S)
    BY <1>6, <1>7, FS_Bijection
  <1>9. {w} \subseteq Writes
    OBVIOUS
  <1>10. Cost({w}) = Cardinality(T)
    BY <1>9, BytesFinite
  <1> QED BY ONLY <1>7, <1>8, <1>10 DEF n

LEMMA CostMore ==
  ASSUME load \in Loads, NEW W, W \subseteq Writes, NEW w \in Writes, w \notin W
  PROVE  Cost(W \cup {w}) = Cost(W) + Size(w)
  <1>1. {w} \subseteq Writes /\ W \cap {w} = {}
    OBVIOUS
  <1> QED BY <1>1, CostJoins, CostOne

LEMMA CostLess ==
  ASSUME load \in Loads, NEW W, W \subseteq Writes, NEW V, V \subseteq W
  PROVE  Cost(W) = Cost(W \ V) + Cost(V)
  <1>1. W \ V \subseteq Writes /\ V \subseteq Writes /\ (W \ V) \cap V = {} /\ W = (W \ V) \cup V
    OBVIOUS
  <1>2. Cost((W \ V) \cup V) = Cost(W \ V) + Cost(V)
    BY <1>1, CostJoins
  <1> QED BY <1>1, <1>2

LEMMA CostWithout ==
  ASSUME load \in Loads, NEW W, W \subseteq Writes, NEW w \in W
  PROVE  Cost(W) = Cost(W \ {w}) + Size(w)
  <1>1. {w} \subseteq W /\ w \in Writes
    OBVIOUS
  <1> QED BY <1>1, CostLess, CostOne

-----------------------------------------------------------------------------
(* The inductive invariant: its parts take the state they are about, so that a *)
(* step is a fact about the parts it changes                                   *)

Item == [w : Writes, offset : Nat]
Waiting == {"waits", "timeout", "queued"}
Unheard == {"none", "busy", "stale", "refused"}
Answers == Waiting \cup Unheard \cup {"ok", "interrupted"}
Doors == {"commands", "host"}

\* Input of one view: it arrives in the order in which it was typed.
Stream(u, w) == By(u) = By(w) /\ Kind(u) = Kind(w) /\ Kind(u) \in {"input", "remote input"}
Precedes(u, w) == u # w /\ (Stream(u, w) => u < w)

\* The program p has the first n bytes of w and no others of it.
Content(p) == {p[k] : k \in 1 .. Len(p)}
Through(p, w, n) == \A i \in Nat : <<w, i>> \in Content(p) <=> i \in 1 .. n
Fresh(p, w) == Through(p, w, 0)

\* The next byte of w may follow: nothing came between, and nothing that was typed later.
Reaches(p, w, n) ==
  /\ Through(p, w, n)
  /\ n > 0 => Len(p) > 0 /\ p[Len(p)] = <<w, n>>
  /\ \A b \in Content(p) : Stream(b[1], w) => b[1] <= w

\* The writes in the mailboxes, and all that wait beside the queue.
Posted(m) == {w \in Writes : \E d \in Doors : \E i \in 1 .. Len(m[d]) : m[d][i] = w}
Aside(m, s, st) == Posted(m) \cup s \cup ({st} \ {0})
Holding(q, m) == Queued(q) \cup {w \in Posted(m) : Admitted(w)}

\* A view sends its input in order.
OffersRight(ans) ==
  \A u, w \in Writes : Stream(u, w) /\ u < w /\ ans[u] = "none" => ans[w] = "none"

QueueRight(q, ans, p, f) ==
  /\ \A i \in 1 .. Len(q) :
       /\ q[i].offset <= Size(q[i].w)
       /\ ans[q[i].w] \in Waiting
       /\ i > 1 => q[i].offset = 0
       /\ ~(f.w = q[i].w /\ f.done) => Reaches(p, q[i].w, q[i].offset)
  /\ \A i, j \in 1 .. Len(q) : i < j => Precedes(q[i].w, q[j].w)

MailRight(m, s, st) ==
  /\ \A d \in Doors : \A i \in 1 .. Len(m[d]) :
       /\ Door(m[d][i]) = d /\ Kind(m[d][i]) # "reply"
       /\ m[d][i] \notin s /\ m[d][i] # st
  /\ \A d \in Doors : \A i, j \in 1 .. Len(m[d]) : i < j => Precedes(m[d][i], m[d][j])
  /\ \A w \in s : Kind(w) \in {"picture", "remote picture"}
  /\ st # 0 => Kind(st) = "start"

\* A write that may enter the queue: none of its bytes are written, and it is behind.
Ready(w, q, ans, p) ==
  /\ ans[w] \in Waiting
  /\ Reaches(p, w, 0)
  /\ \A i \in 1 .. Len(q) : Precedes(q[i].w, w)
AsideRight(A, q, ans, p) == \A w \in A : Ready(w, q, ans, p)

AnswerRight(ans, p) ==
  \A w \in Writes :
    /\ ans[w] \in Unheard => Fresh(p, w)
    /\ ans[w] = "ok" => Through(p, w, Size(w))

\* The thread writes what is at the front of the queue, also after the actor ended.
FlightRight(f, q, a, ans, p) ==
  f.w # 0 =>
    /\ windows /\ f.w \in Writes /\ f.n \in 1 .. Size(f.w)
    /\ a # "ended" => Len(q) > 0 /\ q[1].w = f.w /\ q[1].offset + f.n = Size(f.w)
    /\ a = "ended" => ans[f.w] \in {"timeout", "queued", "interrupted"}
    /\ ~f.done => Reaches(p, f.w, Size(f.w) - f.n)
    /\ f.done => Through(p, f.w, Size(f.w))

EndRight(a, q, m, s, st) ==
  a = "ended" => Len(q) = 0 /\ (\A d \in Doors : Len(m[d]) = 0) /\ s = {} /\ st = 0

\* One late write at most: pending_input took the input of the view from the front since.
LateRight(lt, lv, a, f, q) ==
  \A v \in Views :
    /\ lt[v] \in {0, 1}
    /\ lt[v] = 1 =>
         /\ v \notin lv
         /\ a = "select" /\ f.w = 0 /\ Len(q) > 0 =>
              ~(Kind(q[1].w) \in Authorized /\ By(q[1].w) = v)

\* Enter in whose pause a person typed is not in the queue, and no longer comes once the
\* person's time is over.
TypedRight(td, ty, q, m, ans, p, f) ==
  \A e \in td : Kind(e) = "message" =>
    /\ Fresh(p, e) /\ e \notin Queued(q) /\ f.w # e
    /\ After(e) # 0 /\ ans[After(e)] = "ok"
    /\ ans[e] = "none" \/ e \in Posted(m) => ty

PtyRight(p) ==
  /\ \A j, k \in 1 .. Len(p) : j # k => p[j] # p[k]
  /\ \A k \in 1 .. Len(p) : p[k][2] > 1 => k > 1 /\ p[k - 1] = <<p[k][1], p[k][2] - 1>>
  /\ \A j, k \in 1 .. Len(p) : j < k /\ Stream(p[j][1], p[k][1]) => p[j][1] <= p[k][1]

BudgetRight(fr, q, m) == fr + Cost(Holding(q, m)) = Budget

\* The places of the writes, and the bytes that are left of the budget.
Core(q, m, s, st, ans, p, f, fr) ==
  /\ load \in Loads
  /\ q \in Seq(Item) /\ m \in [Doors -> Seq(Writes)]
  /\ s \subseteq Writes /\ st \in Writes \cup {0}
  /\ ans \in [Writes -> Answers] /\ p \in Seq(Writes \X Nat) /\ fr \in Nat
  /\ OffersRight(ans)
  /\ QueueRight(q, ans, p, f)
  /\ MailRight(m, s, st)
  /\ AsideRight(Aside(m, s, st), q, ans, p)
  /\ AnswerRight(ans, p)
  /\ BudgetRight(fr, q, m)

Types ==
  /\ windows \in BOOLEAN
  /\ live \subseteq Views
  /\ flight \in [w : Nat, n : Nat, done : BOOLEAN]
  /\ typing \in BOOLEAN
  /\ at \in {"top", "select", "ended"}
  /\ late \in [Views -> Nat] /\ typed \subseteq Writes

IInv ==
  /\ Types
  /\ Core(queue, mail, saving, start, answer, pty, flight, free)
  /\ FlightRight(flight, queue, at, answer, pty)
  /\ EndRight(at, queue, mail, saving, start)
  /\ LateRight(late, live, at, flight, queue)
  /\ TypedRight(typed, typing, queue, mail, answer, pty, flight)
  /\ PtyRight(pty)

-----------------------------------------------------------------------------
(* What the program gets when it takes n bytes of w after the first o *)

Grown(p2, p, w, o, n) ==
  /\ Len(p) \in Nat /\ Len(p2) = Len(p) + n
  /\ \A k \in 1 .. Len(p) : p2[k] = p[k]
  /\ \A i \in 1 .. n : p2[Len(p) + i] = <<w, o + i>>

LEMMA GrownIs ==
  ASSUME NEW p \in Seq(Writes \X Nat), NEW x, x.w \in Writes, x.offset \in Nat, NEW n \in Nat
  PROVE  /\ p \o Bytes(x, n) \in Seq(Writes \X Nat)
         /\ Grown(p \o Bytes(x, n), p, x.w, x.offset, n)
  <1> DEFINE S == Writes \X Nat
             b == Bytes(x, n)
  <1>1. \A i \in 1 .. n : <<x.w, x.offset + i>> \in S
    OBVIOUS
  <1>2. b = [i \in 1 .. n |-> <<x.w, x.offset + i>>]
    BY DEF Bytes
  <1>3. b \in [1 .. n -> S]
    BY <1>1, <1>2
  <1>4. p \in Seq(S)
    OBVIOUS
  <1>5. \A i \in 1 .. n : b[i] = <<x.w, x.offset + i>>
    BY <1>2
  <1> HIDE DEF S, b
  <1>6. b \in Seq(S) /\ Len(b) = n
    BY <1>3
  <1>11. b \in Seq(S)
    BY <1>6
  <1>7. p \o b \in Seq(S) /\ Len(p \o b) = Len(p) + n /\ Len(p) \in Nat
    <2>1. p \o b \in Seq(S)
      BY ONLY <1>4, <1>6
    <2>2. Len(p \o b) = Len(p) + Len(b) /\ Len(p) \in Nat
      BY ONLY <1>4, <1>11
    <2> QED BY ONLY <1>6, <2>1, <2>2
  <1>8. \A k \in 1 .. Len(p) : (p \o b)[k] = p[k]
    BY <1>4, <1>6
  <1>9. \A i \in 1 .. n : (p \o b)[Len(p) + i] = b[i]
    BY <1>4, <1>6
  <1>10. Grown(p \o b, p, x.w, x.offset, n)
    BY <1>5, <1>7, <1>8, <1>9 DEF Grown
  <1> QED BY <1>7, <1>10 DEF S, b

GetsMore(p2, p, w, o, n) == Content(p2) = Content(p) \cup {<<w, o + i>> : i \in 1 .. n}

LEMMA GrownContent ==
  ASSUME NEW p, NEW p2, NEW w, NEW o \in Nat, NEW n \in Nat, Grown(p2, p, w, o, n)
  PROVE  GetsMore(p2, p, w, o, n)
  <1>0. Len(p) \in Nat /\ Len(p2) = Len(p) + n
    BY DEF Grown
  <1>1. ASSUME NEW k \in 1 .. Len(p2) PROVE p2[k] \in Content(p) \cup {<<w, o + i>> : i \in 1 .. n}
    <2>1. CASE k \in 1 .. Len(p)
      BY <2>1 DEF Grown, Content
    <2>2. CASE k \notin 1 .. Len(p)
      <3>1. k - Len(p) \in 1 .. n /\ Len(p) + (k - Len(p)) = k
        BY <1>0, <2>2
      <3>2. p2[Len(p) + (k - Len(p))] = <<w, o + (k - Len(p))>>
        BY <3>1 DEF Grown
      <3> QED BY <3>1, <3>2
    <2> QED BY <2>1, <2>2
  <1>2. ASSUME NEW k \in 1 .. Len(p) PROVE p[k] \in Content(p2)
    <2>1. k \in 1 .. Len(p2) /\ p2[k] = p[k]
      BY <1>0 DEF Grown
    <2> QED BY <2>1 DEF Content
  <1>3. ASSUME NEW i \in 1 .. n PROVE <<w, o + i>> \in Content(p2)
    <2>1. Len(p) + i \in 1 .. Len(p2) /\ p2[Len(p) + i] = <<w, o + i>>
      BY <1>0 DEF Grown
    <2> QED BY <2>1 DEF Content
  <1> QED BY <1>1, <1>2, <1>3 DEF Content, GetsMore

LEMMA GrownThrough ==
  ASSUME NEW p, NEW p2, NEW w, NEW o \in Nat, NEW n \in Nat, Grown(p2, p, w, o, n)
  PROVE  /\ Through(p, w, o) => Through(p2, w, o + n)
         /\ \A u, m : u # w /\ Through(p, u, m) => Through(p2, u, m)
  <1>1. Content(p2) = Content(p) \cup {<<w, o + i>> : i \in 1 .. n}
    <2>1. GetsMore(p2, p, w, o, n)
      BY GrownContent
    <2> QED BY <2>1 DEF GetsMore
  <1>2. ASSUME Through(p, w, o), NEW j \in Nat
        PROVE  <<w, j>> \in Content(p2) <=> j \in 1 .. o + n
    <2>1. <<w, j>> \in Content(p) <=> j \in 1 .. o
      BY <1>2 DEF Through
    <2>2. <<w, j>> \in {<<w, o + i>> : i \in 1 .. n} <=> \E i \in 1 .. n : j = o + i
      OBVIOUS
    <2>3. (\E i \in 1 .. n : j = o + i) <=> j - o \in 1 .. n
      OBVIOUS
    <2>4. j \in 1 .. o + n <=> j \in 1 .. o \/ j - o \in 1 .. n
      OBVIOUS
    <2> QED BY <1>1, <2>1, <2>2, <2>3, <2>4
  <1>3. ASSUME NEW u, NEW m, u # w, Through(p, u, m), NEW j \in Nat
        PROVE  <<u, j>> \in Content(p2) <=> j \in 1 .. m
    <2>1. <<u, j>> \in Content(p) <=> j \in 1 .. m
      BY <1>3 DEF Through
    <2>2. <<u, j>> \notin {<<w, o + i>> : i \in 1 .. n}
      BY <1>3
    <2> QED BY <1>1, <2>1, <2>2
  <1> QED BY <1>2, <1>3 DEF Through

LEMMA GrownReaches ==
  ASSUME NEW p, NEW p2, NEW w \in Nat, NEW o \in Nat, NEW n \in Nat \ {0}, Grown(p2, p, w, o, n)
  PROVE  /\ Reaches(p, w, o) => Reaches(p2, w, o + n)
         /\ \A u \in Nat : Precedes(w, u) /\ Reaches(p, u, 0) => Reaches(p2, u, 0)
  <1>0. n \in Nat
    OBVIOUS
  <1>1. Content(p2) = Content(p) \cup {<<w, o + i>> : i \in 1 .. n}
    <2>1. GetsMore(p2, p, w, o, n)
      BY <1>0, GrownContent
    <2> QED BY <2>1 DEF GetsMore
  <1>2. ASSUME NEW b \in Content(p2) PROVE b \in Content(p) \/ b[1] = w
    BY <1>1
  <1>3. ASSUME Reaches(p, w, o) PROVE Reaches(p2, w, o + n)
    <2>1. Through(p2, w, o + n)
      BY <1>3, GrownThrough DEF Reaches
    <2>2. Len(p2) > 0 /\ p2[Len(p2)] = <<w, o + n>>
      BY DEF Grown
    <2>3. \A b \in Content(p2) : Stream(b[1], w) => b[1] <= w
      BY <1>2, <1>3 DEF Reaches
    <2> QED BY <2>1, <2>2, <2>3 DEF Reaches
  <1>4. ASSUME NEW u \in Nat, Precedes(w, u), Reaches(p, u, 0) PROVE Reaches(p2, u, 0)
    <2>1. Through(p2, u, 0)
      BY <1>4, GrownThrough DEF Reaches, Precedes
    <2>2. \A b \in Content(p2) : Stream(b[1], u) => b[1] <= u
      BY <1>2, <1>4 DEF Reaches, Precedes
    <2> QED BY <2>1, <2>2 DEF Reaches
  <1> QED BY <1>3, <1>4

LEMMA GrownRight ==
  ASSUME NEW p \in Seq(Writes \X Nat), NEW p2, NEW w \in Nat, NEW o \in Nat, NEW n \in Nat,
         Grown(p2, p, w, o, n), PtyRight(p), Reaches(p, w, o)
  PROVE  PtyRight(p2)
  <1> DEFINE N == Len(p)
  <1>0. N \in Nat /\ Len(p2) = N + n
    BY DEF Grown
  <1>1. \A k \in 1 .. N : p2[k] = p[k] /\ p[k] \in Content(p)
    BY DEF Grown, Content
  <1>2. \A k \in 1 .. Len(p2) : k \in 1 .. N \/ (k > N /\ k - N \in 1 .. n)
    BY <1>0
  <1>3. ASSUME NEW k \in 1 .. Len(p2), k > N PROVE p2[k] = <<w, o + (k - N)>> /\ k - N \in 1 .. n
    <2>1. k - N \in 1 .. n /\ N + (k - N) = k
      BY <1>0, <1>3
    <2> QED BY <2>1 DEF Grown
  <1>4. ASSUME NEW i \in 1 .. n PROVE <<w, o + i>> \notin Content(p)
    <2>1. o + i \in Nat /\ o + i \notin 1 .. o
      OBVIOUS
    <2> QED BY <2>1 DEF Reaches, Through
  <1>5. ASSUME NEW j \in 1 .. Len(p2), NEW k \in 1 .. Len(p2), j < k PROVE p2[j] # p2[k]
    <2>1. CASE k \in 1 .. N
      <3>1. j \in 1 .. N
        BY <1>0, <1>5, <2>1
      <3>2. p[j] # p[k]
        BY <1>5, <2>1, <3>1 DEF PtyRight
      <3> QED BY <1>1, <2>1, <3>1, <3>2
    <2>2. CASE k > N /\ j \in 1 .. N
      <3>1. p2[k] \notin Content(p)
        BY <1>3, <1>4, <2>2
      <3> QED BY <1>1, <2>2, <3>1
    <2>3. CASE k > N /\ j > N
      <3>1. p2[k] = <<w, o + (k - N)>> /\ p2[j] = <<w, o + (j - N)>>
        BY <1>3, <2>3
      <3>2. o + (k - N) # o + (j - N)
        BY <1>0, <1>5
      <3> QED BY <3>1, <3>2
    <2> QED BY <1>2, <2>1, <2>2, <2>3
  <1>6. ASSUME NEW j \in 1 .. Len(p2), NEW k \in 1 .. Len(p2), j # k PROVE p2[j] # p2[k]
    <2>1. j < k \/ k < j
      BY <1>0, <1>6
    <2>2. CASE j < k
      BY <1>5, <2>2
    <2>3. CASE k < j
      <3>1. p2[k] # p2[j]
        BY <1>5, <2>3
      <3> QED BY <3>1
    <2> QED BY <2>1, <2>2, <2>3
  <1>7. ASSUME NEW k \in 1 .. Len(p2), p2[k][2] > 1
        PROVE  k > 1 /\ p2[k - 1] = <<p2[k][1], p2[k][2] - 1>>
    <2>1. CASE k \in 1 .. N
      <3>1. k > 1 /\ p[k - 1] = <<p[k][1], p[k][2] - 1>>
        BY <1>1, <1>7, <2>1 DEF PtyRight
      <3>2. k - 1 \in 1 .. N
        BY <1>0, <2>1, <3>1
      <3> QED BY <1>1, <2>1, <3>1, <3>2
    <2>2. CASE k > N /\ k - N > 1
      <3>1. k - 1 \in 1 .. Len(p2) /\ k - 1 > N /\ k > 1
        BY <1>0, <2>2
      <3>2. p2[k - 1] = <<w, o + ((k - 1) - N)>> /\ p2[k] = <<w, o + (k - N)>>
        BY <1>3, <2>2, <3>1
      <3>3. o + ((k - 1) - N) = (o + (k - N)) - 1
        BY <1>0
      <3> QED BY <3>1, <3>2, <3>3
    <2>3. CASE k > N /\ k - N = 1
      <3>1. p2[k] = <<w, o + 1>>
        BY <1>3, <2>3
      <3>2. o > 0 /\ (o + 1) - 1 = o
        BY <1>7, <3>1
      <3>3. N > 0 /\ p[N] = <<w, o>>
        BY <3>2 DEF Reaches
      <3>4. k - 1 = N /\ k > 1 /\ N \in 1 .. N
        BY <1>0, <2>3, <3>3
      <3> QED BY <1>1, <3>1, <3>2, <3>3, <3>4
    <2> QED BY <1>0, <1>2, <2>1, <2>2, <2>3
  <1>8. ASSUME NEW j \in 1 .. Len(p2), NEW k \in 1 .. Len(p2), j < k, Stream(p2[j][1], p2[k][1])
        PROVE  p2[j][1] <= p2[k][1]
    <2>1. CASE k \in 1 .. N
      <3>1. j \in 1 .. N
        BY <1>0, <1>8, <2>1
      <3> QED BY <1>1, <1>8, <2>1, <3>1 DEF PtyRight
    <2>2. CASE k > N /\ j \in 1 .. N
      <3>1. p2[k] = <<w, o + (k - N)>> /\ p2[k][1] = w
        BY <1>3, <2>2
      <3>2. p2[j] = p[j] /\ p[j] \in Content(p)
        BY <1>1, <2>2
      <3> QED BY <1>8, <3>1, <3>2 DEF Reaches
    <2>3. CASE k > N /\ j > N
      <3>1. p2[k][1] = w /\ p2[j][1] = w
        BY <1>3, <2>3
      <3> QED BY <3>1
    <2> QED BY <1>2, <2>1, <2>2, <2>3
  <1> QED BY <1>6, <1>7, <1>8 DEF PtyRight

-----------------------------------------------------------------------------
(* The queue, when a write joins it and when some leave *)

LEMMA QueuedIs ==
  ASSUME NEW q \in Seq(Item)
  PROVE  /\ Len(q) \in Nat /\ Queued(q) \subseteq Writes
         /\ \A i \in 1 .. Len(q) : q[i] \in Item /\ q[i].w \in Queued(q) /\ q[i].w \in Writes /\ q[i].offset \in Nat
         /\ \A w \in Queued(q) : \E i \in 1 .. Len(q) : q[i].w = w
  <1>1. Len(q) \in Nat /\ DOMAIN q = 1 .. Len(q) /\ \A i \in 1 .. Len(q) : q[i] \in Item
    OBVIOUS
  <1>2. \A i \in 1 .. Len(q) : q[i].w \in Writes /\ q[i].offset \in Nat
    BY <1>1 DEF Item
  <1> QED BY <1>1, <1>2 DEF Queued

Joined(v, q, w) ==
  /\ v \in Seq(Item) /\ Len(q) \in Nat /\ Len(v) = Len(q) + 1
  /\ v[Len(q) + 1] = Pending(w)
  /\ \A i \in 1 .. Len(q) : v[i] = q[i]
  /\ Queued(v) = Queued(q) \cup {w}

LEMMA JoinedIs ==
  ASSUME NEW q \in Seq(Item), NEW w \in Writes
  PROVE  Joined(Append(q, Pending(w)), q, w)
  <1> DEFINE x == Pending(w) v == Append(q, x)
  <1>1. x \in Item /\ x.w = w
    BY DEF Pending, Item
  <1> HIDE DEF x
  <1>2. v \in Seq(Item)
    BY <1>1
  <1>3. Len(q) \in Nat /\ Len(v) = Len(q) + 1
    BY <1>1
  <1>4. v[Len(q) + 1] = x
    BY <1>1
  <1>5. \A i \in 1 .. Len(q) : v[i] = q[i]
    BY <1>1
  <1> HIDE DEF v
  <1>6. Queued(v) \subseteq Queued(q) \cup {w}
    <2>1. ASSUME NEW e \in Queued(v) PROVE e \in Queued(q) \cup {w}
      <3>1. PICK i \in 1 .. Len(v) : v[i].w = e
        BY <1>2, <2>1, QueuedIs
      <3>2. CASE i = Len(q) + 1
        BY <1>1, <1>4, <3>1, <3>2
      <3>3. CASE i # Len(q) + 1
        <4>1. i \in 1 .. Len(q)
          BY <1>3, <3>3
        <4> QED BY <1>5, <3>1, <4>1, QueuedIs
      <3> QED BY <3>2, <3>3
    <2> QED BY <2>1
  <1>7. Queued(q) \subseteq Queued(v)
    <2>1. ASSUME NEW e \in Queued(q) PROVE e \in Queued(v)
      <3>1. PICK i \in 1 .. Len(q) : q[i].w = e
        BY <2>1, QueuedIs
      <3>2. i \in 1 .. Len(v)
        BY <1>3
      <3> QED BY <1>2, <1>5, <3>1, <3>2, QueuedIs
    <2> QED BY <2>1
  <1>8. w \in Queued(v)
    <2>1. Len(q) + 1 \in 1 .. Len(v)
      BY <1>3
    <2> QED BY <1>1, <1>2, <1>4, <2>1, QueuedIs
  <1>9. v[Len(q) + 1] = Pending(w)
    BY <1>4 DEF x
  <1>10. Joined(v, q, w)
    BY <1>2, <1>3, <1>5, <1>6, <1>7, <1>8, <1>9 DEF Joined
  <1> QED BY <1>10 DEF v, x

LEMMA QueueAccepts ==
  ASSUME load \in Loads, NEW q \in Seq(Item), NEW w \in Writes, NEW v, Joined(v, q, w),
         NEW ans, NEW p, NEW f, QueueRight(q, ans, p, f), Ready(w, q, ans, p)
  PROVE  QueueRight(v, ans, p, f)
  <1>1. Pending(w).w = w /\ Pending(w).offset = 0 /\ 0 <= Size(w)
    BY LoadRight DEF Pending
  <1>2. \A i \in 1 .. Len(v) : i \in 1 .. Len(q) \/ i = Len(q) + 1
    BY DEF Joined
  <1>3. ASSUME NEW i \in 1 .. Len(v)
        PROVE  /\ v[i].offset <= Size(v[i].w)
               /\ ans[v[i].w] \in Waiting
               /\ i > 1 => v[i].offset = 0
               /\ ~(f.w = v[i].w /\ f.done) => Reaches(p, v[i].w, v[i].offset)
    <2>1. CASE i \in 1 .. Len(q)
      <3>1. v[i] = q[i]
        BY <2>1 DEF Joined
      <3> QED BY <2>1, <3>1 DEF QueueRight
    <2>2. CASE i = Len(q) + 1
      <3>1. v[i].w = w /\ v[i].offset = 0
        BY <1>1, <2>2 DEF Joined
      <3>2. ans[w] \in Waiting /\ Reaches(p, w, 0)
        BY DEF Ready
      <3> QED BY <1>1, <3>1, <3>2
    <2> QED BY <1>2, <2>1, <2>2
  <1>4. ASSUME NEW i \in 1 .. Len(v), NEW j \in 1 .. Len(v), i < j
        PROVE  Precedes(v[i].w, v[j].w)
    <2>1. i \in 1 .. Len(q) /\ v[i] = q[i]
      BY <1>4 DEF Joined
    <2>2. CASE j \in 1 .. Len(q)
      <3>1. v[j] = q[j]
        BY <2>2 DEF Joined
      <3> QED BY <1>4, <2>1, <2>2, <3>1 DEF QueueRight
    <2>3. CASE j = Len(q) + 1
      <3>1. v[j].w = w
        BY <1>1, <2>3 DEF Joined
      <3> QED BY <2>1, <3>1 DEF Ready
    <2> QED BY <1>2, <2>2, <2>3
  <1> QED BY <1>3, <1>4 DEF QueueRight

\* All that waits beside the queue may enter after w.
Leads(w, A) == \A x \in A : Precedes(w, x)

LEMMA AsideAccepts ==
  ASSUME NEW q \in Seq(Item), NEW w \in Writes, NEW v, Joined(v, q, w),
         NEW ans, NEW p, NEW A, AsideRight(A, q, ans, p), NEW B, B \subseteq A, Leads(w, B)
  PROVE  AsideRight(B, v, ans, p)
  <1> SUFFICES ASSUME NEW x \in B PROVE Ready(x, v, ans, p)
    BY DEF AsideRight
  <1>1. Ready(x, q, ans, p)
    BY DEF AsideRight
  <1>2. ASSUME NEW i \in 1 .. Len(v) PROVE Precedes(v[i].w, x)
    <2>1. CASE i \in 1 .. Len(q)
      <3>1. v[i] = q[i]
        BY <2>1 DEF Joined
      <3> QED BY <1>1, <2>1, <3>1 DEF Ready
    <2>2. CASE i \notin 1 .. Len(q)
      <3>1. i = Len(q) + 1
        BY <2>2 DEF Joined
      <3>2. v[i].w = w
        BY <3>1 DEF Joined, Pending
      <3> QED BY <3>2 DEF Leads
    <2> QED BY <2>1, <2>2
  <1> QED BY <1>1, <1>2 DEF Ready

LEMMA QueueLeaves ==
  ASSUME NEW q \in Seq(Item), NEW r \in Seq(Item), Within(r, q, Len(q)),
         NEW ans, NEW ans2, NEW p, NEW f, QueueRight(q, ans, p, f),
         \A x \in Queued(r) : ans2[x] \in Waiting
  PROVE  QueueRight(r, ans2, p, f) /\ Queued(r) \subseteq Queued(q)
  <1>0. Len(q) \in Nat /\ Len(r) \in Nat
    OBVIOUS
  <1>1. ASSUME NEW i \in 1 .. Len(r)
        PROVE  \E a \in 1 .. Len(q) : r[i] = q[a] /\ (i > 1 => a > 1)
    <2>1. CASE i > 1
      <3>1. 1 \in 1 .. Len(r)
        BY <1>0
      <3>2. PICK a \in 1 .. Len(q), b \in 1 .. Len(q) : a < b /\ r[1] = q[a] /\ r[i] = q[b]
        BY <2>1, <3>1 DEF Within
      <3>3. b > 1
        BY <1>0, <3>2
      <3> QED BY <3>2, <3>3
    <2>2. CASE ~(i > 1)
      BY <2>2 DEF Within
    <2> QED BY <2>1, <2>2
  <1>2. ASSUME NEW i \in 1 .. Len(r)
        PROVE  /\ r[i].offset <= Size(r[i].w)
               /\ ans2[r[i].w] \in Waiting
               /\ i > 1 => r[i].offset = 0
               /\ ~(f.w = r[i].w /\ f.done) => Reaches(p, r[i].w, r[i].offset)
    <2>1. PICK a \in 1 .. Len(q) : r[i] = q[a] /\ (i > 1 => a > 1)
      BY <1>1
    <2>2. r[i].w \in Queued(r)
      BY QueuedIs
    <2> QED BY <2>1, <2>2 DEF QueueRight
  <1>3. ASSUME NEW i \in 1 .. Len(r), NEW j \in 1 .. Len(r), i < j
        PROVE  Precedes(r[i].w, r[j].w)
    <2>1. PICK a \in 1 .. Len(q), b \in 1 .. Len(q) : a < b /\ r[i] = q[a] /\ r[j] = q[b]
      BY <1>3 DEF Within
    <2> QED BY <2>1 DEF QueueRight
  <1>4. ASSUME NEW e \in Queued(r) PROVE e \in Queued(q)
    <2>1. PICK i \in 1 .. Len(r) : r[i].w = e
      BY <1>4, QueuedIs
    <2>2. PICK a \in 1 .. Len(q) : r[i] = q[a]
      BY <1>1
    <2> QED BY <2>1, <2>2, QueuedIs
  <1> QED BY <1>2, <1>3, <1>4 DEF QueueRight

LEMMA AsideLeaves ==
  ASSUME NEW q \in Seq(Item), NEW r \in Seq(Item), Within(r, q, Len(q)),
         NEW ans, NEW ans2, NEW p, NEW A, AsideRight(A, q, ans, p),
         NEW B, B \subseteq A, \A x \in B : ans2[x] \in Waiting
  PROVE  AsideRight(B, r, ans2, p)
  <1> SUFFICES ASSUME NEW x \in B PROVE Ready(x, r, ans2, p)
    BY DEF AsideRight
  <1>1. Ready(x, q, ans, p)
    BY DEF AsideRight
  <1>2. ASSUME NEW i \in 1 .. Len(r) PROVE Precedes(r[i].w, x)
    <2>1. PICK a \in 1 .. Len(q) : r[i] = q[a]
      BY DEF Within
    <2> QED BY <1>1, <2>1 DEF Ready
  <1> QED BY <1>1, <1>2 DEF Ready

\* The queue itself, for a step that changes answers only.
LEMMA WithinSelf ==
  ASSUME NEW q, Len(q) \in Nat
  PROVE  Within(q, q, Len(q))
  BY DEF Within

LEMMA WithinRest ==
  ASSUME NEW S, NEW q \in Seq(S), NEW n \in 0 .. Len(q)
  PROVE  /\ SubSeq(q, n + 1, Len(q)) \in Seq(S)
         /\ Len(SubSeq(q, n + 1, Len(q))) = Len(q) - n
         /\ \A i \in 1 .. Len(q) - n : SubSeq(q, n + 1, Len(q))[i] = q[n + i]
         /\ Within(SubSeq(q, n + 1, Len(q)), q, Len(q))
  <1> DEFINE r == SubSeq(q, n + 1, Len(q))
  <1>1. Len(q) \in Nat /\ n \in Nat
    OBVIOUS
  <1>2. r \in Seq(S)
    BY <1>1
  <1>3. Len(r) = Len(q) - n
    BY <1>1
  <1>4. \A i \in 1 .. Len(q) - n : r[i] = q[n + i]
    BY <1>1
  <1> HIDE DEF r
  <1>5. \A i \in 1 .. Len(r) : n + i \in 1 .. Len(q) /\ r[i] = q[n + i]
    BY <1>1, <1>3, <1>4
  <1>6. \A i, j \in 1 .. Len(r) : i < j => n + i < n + j
    BY <1>1, <1>3
  <1>7. Within(r, q, Len(q))
    BY <1>5, <1>6 DEF Within
  <1> QED BY <1>2, <1>3, <1>4, <1>7 DEF r

LEMMA WithinTail ==
  ASSUME NEW S, NEW q \in Seq(S), Len(q) > 0
  PROVE  /\ Tail(q) \in Seq(S) /\ Head(q) = q[1] /\ Head(q) \in S
         /\ Len(Tail(q)) = Len(q) - 1
         /\ \A i \in 1 .. Len(q) - 1 : Tail(q)[i] = q[i + 1]
         /\ Within(Tail(q), q, Len(q))
  <1> DEFINE r == Tail(q)
  <1>1. q # <<>> /\ Len(q) \in Nat /\ Head(q) = q[1] /\ q[1] \in S
    OBVIOUS
  <1>2. r \in Seq(S)
    BY <1>1
  <1>3. Len(r) = Len(q) - 1
    BY <1>1
  <1>4. \A i \in 1 .. Len(q) - 1 : r[i] = q[i + 1]
    BY <1>1
  <1> HIDE DEF r
  <1>5. \A i \in 1 .. Len(r) : i + 1 \in 1 .. Len(q) /\ r[i] = q[i + 1]
    BY <1>1, <1>3, <1>4
  <1>6. \A i, j \in 1 .. Len(r) : i < j => i + 1 < j + 1
    BY <1>1, <1>3
  <1>7. Within(r, q, Len(q))
    BY <1>5, <1>6 DEF Within
  <1> QED BY <1>1, <1>2, <1>3, <1>4, <1>7 DEF r

\* drop_cancelled_input keeps the front while the thread writes it.
LEMMA DropWithin ==
  ASSUME NEW S, NEW q \in Seq(S)
  PROVE  /\ DropCancelled(q) \in Seq(S) /\ Within(DropCancelled(q), q, Len(q))
         /\ InFlight /\ Len(q) > 0 => Len(DropCancelled(q)) > 0 /\ DropCancelled(q)[1] = q[1]
  <1>1. CASE ~(InFlight /\ q # <<>>)
    <2>1. DropCancelled(q) = Staying(q)
      BY <1>1 DEF DropCancelled
    <2>2. Len(q) > 0 => q # <<>>
      OBVIOUS
    <2> QED BY <1>1, <2>1, <2>2, StayingWithin
  <1>2. CASE InFlight /\ q # <<>>
    <2> DEFINE t == Tail(q) s == Staying(t) h == <<q[1]>> r == h \o s
    <2>1. Len(q) > 0 /\ Len(q) \in Nat /\ q[1] \in S
      BY <1>2
    <2>2. /\ t \in Seq(S) /\ Head(q) = q[1] /\ Len(t) = Len(q) - 1
          /\ \A i \in 1 .. Len(q) - 1 : t[i] = q[i + 1]
      BY <2>1, WithinTail
    <2>3. s \in Seq(S) /\ Within(s, t, Len(t))
      <3> HIDE DEF t
      <3> QED BY <2>2, StayingWithin
    <2>4. DropCancelled(q) = r
      BY <1>2, <2>2 DEF DropCancelled
    <2>5. h \in Seq(S) /\ Len(h) = 1 /\ h[1] = q[1]
      BY <2>1
    <2> HIDE DEF t, s, h
    <2>6. s \in Seq(S) /\ h \in Seq(S)
      BY <2>3, <2>5
    <2>7. r \in Seq(S)
      BY ONLY <2>6
    <2>8. Len(r) = Len(h) + Len(s) /\ Len(s) \in Nat
      BY ONLY <2>6
    <2>9. \A i \in 1 .. Len(h) : r[i] = h[i]
      BY ONLY <2>6
    <2>10. \A i \in 1 .. Len(s) : r[Len(h) + i] = s[i]
      BY ONLY <2>6
    <2> HIDE DEF r
    <2>11. Len(r) = 1 + Len(s) /\ r[1] = q[1] /\ \A i \in 1 .. Len(s) : r[1 + i] = s[i]
      BY ONLY <2>5, <2>8, <2>9, <2>10
    <2>12. ASSUME NEW i \in 1 .. Len(r), i # 1
           PROVE  i - 1 \in 1 .. Len(s) /\ r[i] = s[i - 1]
      <3>1. i - 1 \in 1 .. Len(s) /\ 1 + (i - 1) = i
        BY <2>8, <2>11, <2>12
      <3> QED BY <2>11, <3>1
    <2>13. \A a \in 1 .. Len(t) : a + 1 \in 1 .. Len(q) /\ a + 1 > 1 /\ t[a] = q[a + 1]
      BY <2>1, <2>2
    <2>14. 1 \in 1 .. Len(q)
      BY <2>1
    <2>15. ASSUME NEW i \in 1 .. Len(r) PROVE \E a \in 1 .. Len(q) : r[i] = q[a] /\ (i # 1 => a > 1)
      <3>1. CASE i = 1
        BY <2>11, <2>14, <3>1
      <3>2. CASE i # 1
        <4>1. i - 1 \in 1 .. Len(s) /\ r[i] = s[i - 1]
          BY <2>12, <3>2
        <4>2. PICK a \in 1 .. Len(t) : s[i - 1] = t[a]
          BY <2>3, <4>1 DEF Within
        <4> QED BY <2>13, <4>1, <4>2
      <3> QED BY <3>1, <3>2
    <2>16. ASSUME NEW i \in 1 .. Len(r), NEW j \in 1 .. Len(r), i < j
           PROVE  \E a, b \in 1 .. Len(q) : a < b /\ r[i] = q[a] /\ r[j] = q[b]
      <3>0. j # 1
        BY <2>16
      <3>1. CASE i = 1
        <4>1. PICK b \in 1 .. Len(q) : r[j] = q[b] /\ b > 1
          BY <2>15, <3>0
        <4> QED BY <2>11, <2>14, <3>1, <4>1
      <3>2. CASE i # 1
        <4>1. /\ i - 1 \in 1 .. Len(s) /\ r[i] = s[i - 1]
              /\ j - 1 \in 1 .. Len(s) /\ r[j] = s[j - 1]
          BY <2>12, <3>0, <3>2
        <4>2. i - 1 < j - 1
          BY <2>8, <2>11, <2>16
        <4>3. PICK a \in 1 .. Len(t), b \in 1 .. Len(t) : a < b /\ s[i - 1] = t[a] /\ s[j - 1] = t[b]
          BY <2>3, <4>1, <4>2 DEF Within
        <4>4. a + 1 < b + 1
          BY <2>2, <2>1, <4>3
        <4> QED BY <2>13, <4>1, <4>3, <4>4
      <3> QED BY <3>1, <3>2
    <2>17. Within(r, q, Len(q))
      BY <2>15, <2>16 DEF Within
    <2>18. Len(r) > 0
      BY <2>8, <2>11
    <2> QED BY <2>4, <2>7, <2>11, <2>17, <2>18
  <1> QED BY <1>1, <1>2

\* No write is in the queue twice.
LEMMA QueueApart ==
  ASSUME NEW q \in Seq(Item), NEW ans, NEW p, NEW f, QueueRight(q, ans, p, f),
         NEW i \in 1 .. Len(q), NEW j \in 1 .. Len(q), i # j
  PROVE  q[i].w # q[j].w
  <1>1. i < j \/ j < i
    BY QueuedIs
  <1>2. \A a, b \in 1 .. Len(q) : a < b => q[a].w # q[b].w
    BY DEF QueueRight, Precedes
  <1> QED BY <1>1, <1>2

\* The first n leave: they and the others are the queue, and none is both.
LEMMA QueueParts ==
  ASSUME NEW q \in Seq(Item), NEW ans, NEW p, NEW f, QueueRight(q, ans, p, f),
         NEW r \in Seq(Item), NEW n \in 0 .. Len(q), Len(r) = Len(q) - n,
         \A i \in 1 .. Len(q) - n : r[i] = q[n + i]
  PROVE  /\ Queued(r) \cap {q[i].w : i \in 1 .. n} = {}
         /\ Queued(q) = Queued(r) \cup {q[i].w : i \in 1 .. n}
  <1>0. Len(q) \in Nat /\ n \in Nat /\ n <= Len(q)
    BY QueuedIs
  <1>1. ASSUME NEW e \in Queued(r) PROVE \E j \in 1 .. Len(q) : j > n /\ q[j].w = e
    <2>1. PICK i \in 1 .. Len(r) : r[i].w = e
      BY <1>1, QueuedIs
    <2>2. n + i \in 1 .. Len(q) /\ n + i > n /\ i \in 1 .. Len(q) - n
      BY <1>0
    <2> QED BY <2>1, <2>2
  <1>2. ASSUME NEW e \in Queued(r), NEW i \in 1 .. n PROVE q[i].w # e
    <2>1. PICK j \in 1 .. Len(q) : j > n /\ q[j].w = e
      BY <1>1
    <2>2. i \in 1 .. Len(q) /\ i # j
      BY <1>0, <2>1
    <2> QED BY <2>1, <2>2, QueueApart
  <1>3. ASSUME NEW e \in Queued(q) PROVE e \in Queued(r) \cup {q[i].w : i \in 1 .. n}
    <2>1. PICK j \in 1 .. Len(q) : q[j].w = e
      BY <1>3, QueuedIs
    <2>2. CASE j <= n
      <3>1. j \in 1 .. n
        BY <1>0, <2>2
      <3> QED BY <2>1, <3>1
    <2>3. CASE j > n
      <3>1. j - n \in 1 .. Len(q) - n /\ n + (j - n) = j /\ j - n \in 1 .. Len(r)
        BY <1>0, <2>3
      <3>2. r[j - n] = q[j]
        BY <3>1
      <3> QED BY <2>1, <3>1, <3>2, QueuedIs
    <2> QED BY <1>0, <2>2, <2>3
  <1>4. ASSUME NEW i \in 1 .. n PROVE q[i].w \in Queued(q)
    <2>1. i \in 1 .. Len(q)
      BY <1>0
    <2> QED BY <2>1, QueuedIs
  <1>5. ASSUME NEW e \in Queued(r) PROVE e \in Queued(q)
    BY <1>1, QueuedIs
  <1> QED BY <1>2, <1>3, <1>4, <1>5

-----------------------------------------------------------------------------
(* The mailboxes, and what waits elsewhere *)

Typed(w) == Kind(w) \in {"input", "remote input"}

\* A write that no person types has no order but its own bytes.
LEMMA Untyped ==
  ASSUME NEW w, ~Typed(w)
  PROVE  /\ \A x : (Precedes(w, x) <=> w # x) /\ (Precedes(x, w) <=> x # w)
         /\ \A p : Reaches(p, w, 0) <=> Fresh(p, w)
  <1>1. \A x : ~Stream(w, x) /\ ~Stream(x, w)
    BY DEF Stream, Typed
  <1>2. \A x : (Precedes(w, x) <=> w # x) /\ (Precedes(x, w) <=> x # w)
    BY <1>1 DEF Precedes
  <1>3. \A p : Reaches(p, w, 0) <=> Fresh(p, w)
    BY <1>1 DEF Reaches, Fresh
  <1> QED BY <1>2, <1>3

LEMMA PostedIs ==
  ASSUME NEW m \in [Doors -> Seq(Writes)]
  PROVE  /\ Posted(m) \subseteq Writes
         /\ \A d \in Doors : m[d] \in Seq(Writes) /\ Len(m[d]) \in Nat
         /\ \A d \in Doors : \A i \in 1 .. Len(m[d]) : m[d][i] \in Writes /\ m[d][i] \in Posted(m)
         /\ \A w \in Posted(m) : \E d \in Doors : \E i \in 1 .. Len(m[d]) : m[d][i] = w
  <1>1. \A d \in Doors : m[d] \in Seq(Writes)
    OBVIOUS
  <1>2. \A t \in Seq(Writes) : Len(t) \in Nat /\ \A i \in 1 .. Len(t) : t[i] \in Writes
    OBVIOUS
  <1> QED BY <1>1, <1>2 DEF Posted

Grew(m2, m, w, s, st) ==
  m2 \in [Doors -> Seq(Writes)] /\ MailRight(m2, s, st) /\ Posted(m2) = Posted(m) \cup {w}

LEMMA MailGrows ==
  ASSUME NEW m \in [Doors -> Seq(Writes)], NEW s, NEW st, MailRight(m, s, st),
         NEW d \in Doors, NEW w \in Writes, Door(w) = d, Kind(w) # "reply", w \notin s, w # st,
         \A i \in 1 .. Len(m[d]) : Precedes(m[d][i], w),
         NEW m2, m2 = [m EXCEPT ![d] = Append(@, w)]
  PROVE  Grew(m2, m, w, s, st)
  <1> DEFINE t == m[d] t2 == Append(t, w)
  <1>1. t \in Seq(Writes) /\ Len(t) \in Nat
    OBVIOUS
  <1> HIDE DEF t
  <1>2. t2 \in Seq(Writes)
    BY <1>1
  <1>3. Len(t2) = Len(t) + 1 /\ t2[Len(t) + 1] = w
    BY <1>1
  <1>4. \A i \in 1 .. Len(t) : t2[i] = t[i]
    BY <1>1
  <1>5. m2[d] = t2 /\ \A e \in Doors : e # d => m2[e] = m[e]
    BY DEF t
  <1>6. m2 = [m EXCEPT ![d] = t2]
    BY DEF t
  <1> HIDE DEF t2
  <1>7. m2 \in [Doors -> Seq(Writes)]
    BY <1>2, <1>6
  <1>8. \A i \in 1 .. Len(t2) : i = Len(t) + 1 \/ i \in 1 .. Len(t)
    BY <1>1, <1>3
  <1>9. ASSUME NEW e \in Doors, NEW i \in 1 .. Len(m2[e])
        PROVE  /\ Door(m2[e][i]) = e /\ Kind(m2[e][i]) # "reply"
               /\ m2[e][i] \notin s /\ m2[e][i] # st
    <2>1. CASE e # d
      BY <1>5, <2>1 DEF MailRight
    <2>2. CASE e = d /\ i \in 1 .. Len(t)
      <3>1. m2[e][i] = t[i]
        BY <1>4, <1>5, <2>2
      <3>2. Door(t[i]) = d /\ Kind(t[i]) # "reply" /\ t[i] \notin s /\ t[i] # st
        BY <2>2 DEF MailRight, t
      <3> QED BY <2>2, <3>1, <3>2
    <2>3. CASE e = d /\ i = Len(t) + 1
      BY <1>3, <1>5, <2>3
    <2> QED BY <1>5, <1>8, <2>1, <2>2, <2>3
  <1>10. ASSUME NEW e \in Doors, NEW i \in 1 .. Len(m2[e]), NEW j \in 1 .. Len(m2[e]), i < j
         PROVE  Precedes(m2[e][i], m2[e][j])
    <2>1. CASE e # d
      BY <1>5, <1>10, <2>1 DEF MailRight
    <2>2. CASE e = d /\ j \in 1 .. Len(t)
      <3>1. i \in 1 .. Len(t)
        BY <1>1, <1>10, <2>2
      <3> QED BY <1>4, <1>5, <1>10, <2>2, <3>1 DEF MailRight, t
    <2>3. CASE e = d /\ j = Len(t) + 1
      <3>1. i \in 1 .. Len(t)
        BY <1>1, <1>3, <1>5, <1>10, <2>3
      <3> QED BY <1>3, <1>4, <1>5, <2>3, <3>1 DEF t
    <2> QED BY <1>5, <1>8, <2>1, <2>2, <2>3
  <1>11. MailRight(m2, s, st)
    BY <1>9, <1>10 DEF MailRight
  <1>12. ASSUME NEW x \in Posted(m2) PROVE x \in Posted(m) \cup {w}
    <2>0. PICK e \in Doors : \E i \in 1 .. Len(m2[e]) : m2[e][i] = x
      BY <1>7, PostedIs
    <2>1. PICK i \in 1 .. Len(m2[e]) : m2[e][i] = x
      BY <2>0
    <2>2. CASE e # d
      BY <1>5, <2>1, <2>2, PostedIs
    <2>3. CASE e = d
      BY <1>3, <1>4, <1>5, <1>8, <2>1, <2>3, PostedIs DEF t
    <2> QED BY <2>2, <2>3
  <1>13. ASSUME NEW x \in Posted(m) PROVE x \in Posted(m2)
    <2>0. PICK e \in Doors : \E i \in 1 .. Len(m[e]) : m[e][i] = x
      BY PostedIs
    <2>1. PICK i \in 1 .. Len(m[e]) : m[e][i] = x
      BY <2>0
    <2>2. CASE e # d
      BY <1>5, <1>7, <2>1, <2>2, PostedIs
    <2>3. CASE e = d
      <3>1. i \in 1 .. Len(t) /\ i \in 1 .. Len(t2)
        BY <1>1, <1>3, <2>3 DEF t
      <3> QED BY <1>4, <1>5, <1>7, <2>1, <2>3, <3>1, PostedIs DEF t
    <2> QED BY <2>2, <2>3
  <1>14. w \in Posted(m2)
    <2>1. Len(t) + 1 \in 1 .. Len(m2[d]) /\ m2[d][Len(t) + 1] = w
      BY <1>1, <1>3, <1>5
    <2> QED BY <2>1 DEF Posted
  <1> QED BY <1>7, <1>11, <1>12, <1>13, <1>14 DEF Grew

Given(m2, m, d, w, s, st) ==
  /\ m2 \in [Doors -> Seq(Writes)]
  /\ MailRight(m2, s, st)
  /\ Posted(m) = Posted(m2) \cup {w} /\ w \notin Posted(m2)
  /\ w \in Writes /\ Door(w) = d /\ Kind(w) # "reply" /\ w \notin s /\ w # st
  /\ Leads(w, Aside(m2, s, st))

LEMMA MailGives ==
  ASSUME load \in Loads, NEW m \in [Doors -> Seq(Writes)], NEW s \in SUBSET Writes, NEW st, MailRight(m, s, st),
         NEW d \in Doors, m[d] # <<>>, NEW w, w = Head(m[d]),
         NEW m2, m2 = [m EXCEPT ![d] = Tail(@)]
  PROVE  Given(m2, m, d, w, s, st)
  <1> DEFINE t == m[d] t2 == Tail(t)
  <1>1. t \in Seq(Writes) /\ Len(t) \in Nat /\ Len(t) > 0
    OBVIOUS
  <1>2. w = t[1] /\ 1 \in 1 .. Len(t)
    BY <1>1
  <1>3. m2[d] = t2 /\ \A e \in Doors : e # d => m2[e] = m[e]
    OBVIOUS
  <1>4. m2 = [m EXCEPT ![d] = t2]
    OBVIOUS
  <1> HIDE DEF t
  <1>5. t2 \in Seq(Writes) /\ Len(t2) = Len(t) - 1 /\ \A i \in 1 .. Len(t) - 1 : t2[i] = t[i + 1]
    BY <1>1, WithinTail
  <1> HIDE DEF t2
  <1>6. m2 \in [Doors -> Seq(Writes)]
    BY <1>4, <1>5
  <1>7. \A i \in 1 .. Len(t2) : i + 1 \in 1 .. Len(t) /\ 1 < i + 1 /\ t2[i] = t[i + 1]
    BY <1>1, <1>5
  <1>8. \A i, j \in 1 .. Len(t2) : i < j => i + 1 < j + 1
    BY <1>1, <1>5
  <1>9. /\ \A i \in 1 .. Len(t) : Door(t[i]) = d /\ Kind(t[i]) # "reply" /\ t[i] \notin s /\ t[i] # st
        /\ \A i, j \in 1 .. Len(t) : i < j => Precedes(t[i], t[j])
    BY DEF MailRight, t
  <1>10. \A i \in 1 .. Len(t2) : Precedes(w, t2[i])
    BY <1>2, <1>7, <1>9
  <1>11. MailRight(m2, s, st)
    <2>1. ASSUME NEW e \in Doors, NEW i \in 1 .. Len(m2[e])
          PROVE  /\ Door(m2[e][i]) = e /\ Kind(m2[e][i]) # "reply"
                 /\ m2[e][i] \notin s /\ m2[e][i] # st
      <3>1. CASE e # d
        BY <1>3, <3>1 DEF MailRight
      <3>2. CASE e = d
        <4>1. m2[e] = t2 /\ i \in 1 .. Len(t2)
          BY <1>3, <3>2
        <4>2. i + 1 \in 1 .. Len(t) /\ m2[e][i] = t[i + 1]
          BY <1>7, <4>1
        <4> QED BY <1>9, <3>2, <4>2
      <3> QED BY <3>1, <3>2
    <2>2. ASSUME NEW e \in Doors, NEW i \in 1 .. Len(m2[e]), NEW j \in 1 .. Len(m2[e]), i < j
          PROVE  Precedes(m2[e][i], m2[e][j])
      <3>1. CASE e # d
        BY <1>3, <2>2, <3>1 DEF MailRight
      <3>2. CASE e = d
        BY <1>3, <1>7, <1>8, <1>9, <2>2, <3>2
      <3> QED BY <3>1, <3>2
    <2> QED BY <2>1, <2>2 DEF MailRight
  <1>12. w \in Writes /\ Door(w) = d /\ Kind(w) # "reply" /\ w \notin s /\ w # st
    BY <1>1, <1>2, <1>9
  <1>13. ASSUME NEW x \in Posted(m2) PROVE x \in Posted(m) /\ Precedes(w, x)
    <2>0. PICK e \in Doors : \E i \in 1 .. Len(m2[e]) : m2[e][i] = x
      BY <1>6, PostedIs
    <2>1. PICK i \in 1 .. Len(m2[e]) : m2[e][i] = x
      BY <2>0
    <2>2. CASE e # d
      <3>1. i \in 1 .. Len(m[e]) /\ m[e][i] = x
        BY <1>3, <2>1, <2>2
      <3>2. Door(x) = e
        BY <3>1 DEF MailRight
      <3>3. w # x /\ ~Stream(w, x)
        BY <1>12, <2>2, <3>2 DEF Door, Stream
      <3> QED BY <3>1, <3>3, PostedIs DEF Precedes
    <2>3. CASE e = d
      <3>1. i \in 1 .. Len(t2) /\ x = t2[i]
        BY <1>3, <2>1, <2>3
      <3>2. i + 1 \in 1 .. Len(m[d]) /\ m[d][i + 1] = x
        BY <1>7, <3>1 DEF t
      <3> QED BY <1>10, <3>1, <3>2, PostedIs
    <2> QED BY <2>2, <2>3
  <1>14. ASSUME NEW x \in Posted(m), x # w PROVE x \in Posted(m2)
    <2>0. PICK e \in Doors : \E i \in 1 .. Len(m[e]) : m[e][i] = x
      BY PostedIs
    <2>1. PICK i \in 1 .. Len(m[e]) : m[e][i] = x
      BY <2>0
    <2>2. CASE e # d
      BY <1>3, <1>6, <2>1, <2>2, PostedIs
    <2>3. CASE e = d
      <3>1. i \in 1 .. Len(t) /\ t[i] = x /\ i # 1
        BY <1>2, <1>14, <2>1, <2>3 DEF t
      <3>2. i - 1 \in 1 .. Len(t2) /\ (i - 1) + 1 = i /\ i - 1 \in 1 .. Len(t) - 1
        BY <1>1, <1>5, <3>1
      <3>3. t2[i - 1] = x
        BY <1>5, <3>1, <3>2
      <3> QED BY <1>3, <1>6, <3>2, <3>3, PostedIs
    <2> QED BY <2>2, <2>3
  <1>15. w \in Posted(m)
    BY <1>2, PostedIs DEF t
  <1>16. w \notin Posted(m2)
    BY <1>13 DEF Precedes
  <1>17. ASSUME NEW x \in s PROVE Precedes(w, x)
    <2>1. ~Typed(x) /\ x # w
      BY <1>12 DEF MailRight, Typed
    <2> QED BY <2>1, Untyped
  <1>18. ASSUME st # 0 PROVE Precedes(w, st)
    <2>1. ~Typed(st) /\ st # w
      BY <1>12, <1>18 DEF MailRight, Typed
    <2> QED BY <2>1, Untyped
  <1>19. Leads(w, Aside(m2, s, st))
    BY <1>13, <1>17, <1>18 DEF Leads, Aside
  <1>20. Posted(m) = Posted(m2) \cup {w}
    BY <1>13, <1>14, <1>15
  <1> QED BY <1>6, <1>11, <1>12, <1>16, <1>19, <1>20 DEF Given

-----------------------------------------------------------------------------
(* What callers are told *)

\* An answer is given once, and is true of the bytes; a view that begins has sent all before.
Hears(ans, ans2, p) ==
  /\ ans2 \in [Writes -> Answers]
  /\ \A w \in Writes :
       \/ ans2[w] = ans[w]
       \/ /\ ans[w] \in Waiting \cup {"none"}
          /\ ans2[w] # "none"
          /\ ans2[w] \in Unheard => Fresh(p, w)
          /\ ans2[w] = "ok" => Through(p, w, Size(w))
          /\ ans[w] = "none" => \A u \in Writes : Stream(u, w) /\ u < w => ans[u] # "none"

Steady(ans, ans2) ==
  \A w \in Writes : (ans[w] = "ok" => ans2[w] = "ok") /\ (ans2[w] = "none" => ans[w] = "none")

LEMMA HearsRight ==
  ASSUME NEW ans, NEW ans2, NEW p, OffersRight(ans), AnswerRight(ans, p), Hears(ans, ans2, p)
  PROVE  OffersRight(ans2) /\ AnswerRight(ans2, p) /\ Steady(ans, ans2)
  <1>1. Steady(ans, ans2)
    BY DEF Steady, Hears, Waiting
  <1>2. ASSUME NEW u \in Writes, NEW w \in Writes, Stream(u, w), u < w, ans2[u] = "none"
        PROVE  ans2[w] = "none"
    <2>1. ans[u] = "none"
      BY <1>1, <1>2 DEF Steady
    <2>2. ans[w] = "none"
      BY <1>2, <2>1 DEF OffersRight
    <2> QED BY <1>2, <2>1, <2>2 DEF Hears
  <1>3. AnswerRight(ans2, p)
    BY DEF AnswerRight, Hears
  <1> QED BY <1>1, <1>2, <1>3 DEF OffersRight

TrueOf(what, W, p) ==
  /\ what \in Answers \ {"none"}
  /\ what \in Unheard => \A w \in W : Fresh(p, w)
  /\ what = "ok" => \A w \in W : Through(p, w, Size(w))
Told(t, ans, W, what) ==
  \A w \in Writes : t[w] = IF w \in W /\ ans[w] = "waits" THEN what ELSE ans[w]

LEMMA TellHears ==
  ASSUME NEW ans \in [Writes -> Answers], NEW W, NEW what, NEW p, TrueOf(what, W, p)
  PROVE  Hears(ans, Tell(ans, W, what), p) /\ Told(Tell(ans, W, what), ans, W, what)
  <1> DEFINE t == Tell(ans, W, what)
  <1>1. t = [w \in Writes |-> IF w \in W /\ ans[w] = "waits" THEN what ELSE ans[w]]
    BY DEF Tell
  <1>2. \A w \in Writes : ans[w] \in Answers
    OBVIOUS
  <1> HIDE DEF t
  <1>3. t \in [Writes -> Answers]
    BY <1>1, <1>2 DEF TrueOf
  <1>4. \A w \in Writes : t[w] = IF w \in W /\ ans[w] = "waits" THEN what ELSE ans[w]
    BY <1>1
  <1>5. Hears(ans, t, p)
    BY <1>3, <1>4 DEF Hears, Waiting, TrueOf
  <1>6. Told(t, ans, W, what)
    BY <1>4 DEF Told
  <1> QED BY <1>5, <1>6 DEF t

-----------------------------------------------------------------------------
(* The budget *)

LEMMA HoldingIs ==
  ASSUME NEW q \in Seq(Item), NEW m \in [Doors -> Seq(Writes)]
  PROVE  Holding(q, m) \subseteq Writes
  <1>1. Queued(q) \subseteq Writes /\ Posted(m) \subseteq Writes
    BY QueuedIs, PostedIs
  <1> QED BY <1>1 DEF Holding

\* A step that takes from the budget what one more write needs.
LEMMA BudgetTaken ==
  ASSUME load \in Loads, NEW q \in Seq(Item), NEW m \in [Doors -> Seq(Writes)], NEW fr \in Nat,
         BudgetRight(fr, q, m),
         NEW q2, NEW m2, NEW w \in Writes, w \notin Holding(q, m),
         Holding(q2, m2) = Holding(q, m) \cup {w}, fr >= Size(w)
  PROVE  fr - Size(w) \in Nat /\ BudgetRight(fr - Size(w), q2, m2)
  <1>1. Holding(q, m) \subseteq Writes
    BY HoldingIs
  <1>2. Size(w) \in Nat /\ Cost(Holding(q, m)) \in Nat
    BY <1>1, LoadRight, BytesFinite
  <1>3. Cost(Holding(q2, m2)) = Cost(Holding(q, m)) + Size(w)
    BY <1>1, CostMore
  <1>4. fr + Cost(Holding(q, m)) = Budget
    BY DEF BudgetRight
  <1>5. fr - Size(w) \in Nat /\ (fr - Size(w)) + Cost(Holding(q2, m2)) = Budget
    BY <1>2, <1>3, <1>4
  <1> QED BY <1>5 DEF BudgetRight

\* A step that gives back what some writes held.
LEMMA BudgetGiven ==
  ASSUME load \in Loads, NEW q \in Seq(Item), NEW m \in [Doors -> Seq(Writes)], NEW fr \in Nat,
         BudgetRight(fr, q, m),
         NEW q2, NEW m2, NEW V, V \subseteq Holding(q, m), Holding(q2, m2) = Holding(q, m) \ V
  PROVE  fr + Cost(V) \in Nat /\ BudgetRight(fr + Cost(V), q2, m2)
  <1>1. Holding(q, m) \subseteq Writes /\ V \subseteq Writes /\ Holding(q2, m2) \subseteq Writes
    BY HoldingIs
  <1>2. Cost(V) \in Nat /\ Cost(Holding(q2, m2)) \in Nat
    BY <1>1, BytesFinite
  <1>3. Cost(Holding(q, m)) = Cost(Holding(q, m) \ V) + Cost(V)
    BY <1>1, CostLess
  <1>4. fr + Cost(Holding(q, m)) = Budget
    BY DEF BudgetRight
  <1>5. Cost(Holding(q, m)) = Cost(Holding(q2, m2)) + Cost(V)
    BY <1>3
  <1>6. fr + Cost(V) \in Nat /\ (fr + Cost(V)) + Cost(Holding(q2, m2)) = Budget
    BY <1>2, <1>4, <1>5
  <1> QED BY <1>6 DEF BudgetRight

-----------------------------------------------------------------------------
(* A write changes its place *)

\* A write that is on its way from its place to the queue, or out of the terminal.
Loose(w, q, m, s, st, ans, p) ==
  w \in Writes /\ Ready(w, q, ans, p) /\ Leads(w, Aside(m, s, st))
Held(w) == IF Admitted(w) THEN Size(w) ELSE 0

LEMMA LooseApart ==
  ASSUME NEW w, NEW q \in Seq(Item), NEW m, NEW s, NEW st, NEW ans, NEW p, Loose(w, q, m, s, st, ans, p)
  PROVE  w \in Writes /\ w \notin Queued(q) /\ w \notin Aside(m, s, st) /\ w \notin Posted(m)
  <1>1. w \notin Aside(m, s, st)
    BY DEF Loose, Leads, Precedes
  <1>2. w \notin Queued(q)
    <2> SUFFICES ASSUME w \in Queued(q) PROVE FALSE
      OBVIOUS
    <2>1. PICK i \in 1 .. Len(q) : q[i].w = w
      BY QueuedIs
    <2> QED BY <2>1 DEF Loose, Ready, Precedes
  <1> QED BY <1>1, <1>2 DEF Loose, Aside

LEMMA AsideApart ==
  ASSUME NEW q \in Seq(Item), NEW A, NEW ans, NEW p, AsideRight(A, q, ans, p), NEW w \in A
  PROVE  w \notin Queued(q) /\ Fresh(p, w) /\ ans[w] \in Waiting
  <1>1. Ready(w, q, ans, p)
    BY DEF AsideRight
  <1>2. w \notin Queued(q)
    <2> SUFFICES ASSUME w \in Queued(q) PROVE FALSE
      OBVIOUS
    <2>1. PICK i \in 1 .. Len(q) : q[i].w = w
      BY QueuedIs
    <2> QED BY <1>1, <2>1 DEF Ready, Precedes
  <1> QED BY <1>1, <1>2 DEF Ready, Reaches, Fresh

LEMMA QueueWaits ==
  ASSUME NEW q \in Seq(Item), NEW ans, NEW p, NEW f, QueueRight(q, ans, p, f), NEW w \in Queued(q)
  PROVE  ans[w] \in Waiting
  <1>1. PICK i \in 1 .. Len(q) : q[i].w = w
    BY QueuedIs
  <1> QED BY <1>1 DEF QueueRight

\* The first of a mailbox is taken out.
Took(m2, m, d) == m2 = [m EXCEPT ![d] = Tail(@)]

LEMMA CoreTakes ==
  ASSUME NEW q, NEW m, NEW s, NEW st, NEW ans, NEW p, NEW f, NEW fr, Core(q, m, s, st, ans, p, f, fr),
         NEW d \in Doors, m[d] # <<>>, NEW w, w = Head(m[d]), NEW m2, Took(m2, m, d)
  PROVE  /\ Core(q, m2, s, st, ans, p, f, fr + Held(w))
         /\ Loose(w, q, m2, s, st, ans, p)
         /\ Door(w) = d /\ Kind(w) # "reply" /\ w \in Posted(m) /\ Posted(m2) \subseteq Posted(m)
  <1>1. /\ load \in Loads /\ q \in Seq(Item) /\ m \in [Doors -> Seq(Writes)] /\ s \in SUBSET Writes
        /\ fr \in Nat /\ MailRight(m, s, st) /\ AsideRight(Aside(m, s, st), q, ans, p)
        /\ BudgetRight(fr, q, m)
    BY DEF Core
  <1>2. /\ m2 \in [Doors -> Seq(Writes)]
        /\ MailRight(m2, s, st)
        /\ Posted(m) = Posted(m2) \cup {w} /\ w \notin Posted(m2)
        /\ w \in Writes /\ Door(w) = d /\ Kind(w) # "reply"
        /\ Leads(w, Aside(m2, s, st))
    <2>1. Given(m2, m, d, w, s, st)
      <3>1. m2 = [m EXCEPT ![d] = Tail(@)]
        BY DEF Took
      <3> QED BY <1>1, <3>1, MailGives
    <2> QED BY <2>1 DEF Given
  <1>3. AsideRight(Aside(m2, s, st), q, ans, p) /\ Ready(w, q, ans, p)
    BY <1>1, <1>2 DEF AsideRight, Aside
  <1>4. w \notin Queued(q)
    <2>1. w \in Aside(m, s, st)
      BY <1>2 DEF Aside
    <2> QED BY <1>1, <2>1, AsideApart
  <1>5. fr + Held(w) \in Nat /\ BudgetRight(fr + Held(w), q, m2)
    <2>1. CASE Admitted(w)
      <3>1. {w} \subseteq Holding(q, m) /\ Holding(q, m2) = Holding(q, m) \ {w}
        BY <1>2, <1>4, <2>1 DEF Holding
      <3>2. fr + Cost({w}) \in Nat /\ BudgetRight(fr + Cost({w}), q, m2)
        BY <1>1, <3>1, BudgetGiven
      <3>3. Cost({w}) = Held(w)
        BY <1>1, <1>2, <2>1, CostOne DEF Held
      <3> QED BY <3>2, <3>3
    <2>2. CASE ~Admitted(w)
      <3>1. Holding(q, m2) = Holding(q, m)
        BY <1>2, <2>2 DEF Holding
      <3>2. fr + Held(w) = fr
        BY <1>1, <2>2 DEF Held
      <3> QED BY <1>1, <3>1, <3>2 DEF BudgetRight
    <2> QED BY <2>1, <2>2
  <1>6. Core(q, m2, s, st, ans, p, f, fr + Held(w))
    BY <1>2, <1>3, <1>5 DEF Core
  <1>7. Loose(w, q, m2, s, st, ans, p)
    BY <1>2, <1>3 DEF Loose
  <1> QED BY <1>2, <1>6, <1>7

LEMMA CoreUnsaves ==
  ASSUME NEW q, NEW m, NEW s, NEW st, NEW ans, NEW p, NEW f, NEW fr, Core(q, m, s, st, ans, p, f, fr),
         NEW w \in s
  PROVE  /\ Core(q, m, s \ {w}, st, ans, p, f, fr)
         /\ Loose(w, q, m, s \ {w}, st, ans, p)
         /\ Kind(w) \in {"picture", "remote picture"}
  <1>1. /\ q \in Seq(Item) /\ m \in [Doors -> Seq(Writes)] /\ s \in SUBSET Writes
        /\ MailRight(m, s, st) /\ AsideRight(Aside(m, s, st), q, ans, p)
    BY DEF Core
  <1>2. Kind(w) \in {"picture", "remote picture"} /\ ~Typed(w)
    BY <1>1 DEF MailRight, Typed
  <1>3. w \notin Posted(m)
    <2> SUFFICES ASSUME w \in Posted(m) PROVE FALSE
      OBVIOUS
    <2>1. PICK d \in Doors : \E i \in 1 .. Len(m[d]) : m[d][i] = w
      BY <1>1, PostedIs
    <2> QED BY <1>1, <2>1 DEF MailRight
  <1>4. st # w \/ st = 0
    BY <1>1, <1>2 DEF MailRight
  <1>5. Leads(w, Aside(m, s \ {w}, st))
    <2>1. \A x \in Aside(m, s \ {w}, st) : x # w
      BY <1>3, <1>4 DEF Aside
    <2> QED BY <1>2, <2>1, Untyped DEF Leads
  <1>6. AsideRight(Aside(m, s \ {w}, st), q, ans, p) /\ Ready(w, q, ans, p)
    BY <1>1 DEF AsideRight, Aside
  <1>7. MailRight(m, s \ {w}, st)
    BY <1>1 DEF MailRight
  <1>8. Core(q, m, s \ {w}, st, ans, p, f, fr)
    BY <1>6, <1>7 DEF Core
  <1> QED BY <1>1, <1>2, <1>5, <1>6, <1>8 DEF Loose

LEMMA CoreUnstarts ==
  ASSUME NEW q, NEW m, NEW s, NEW st, NEW ans, NEW p, NEW f, NEW fr, Core(q, m, s, st, ans, p, f, fr)
  PROVE  /\ Core(q, m, s, 0, ans, p, f, fr)
         /\ st # 0 => Loose(st, q, m, s, 0, ans, p) /\ Kind(st) = "start"
  <1>1. /\ q \in Seq(Item) /\ m \in [Doors -> Seq(Writes)] /\ s \in SUBSET Writes /\ st \in Writes \cup {0}
        /\ MailRight(m, s, st) /\ AsideRight(Aside(m, s, st), q, ans, p) /\ load \in Loads
    BY DEF Core
  <1>2. 0 \notin Writes
    BY <1>1, LoadRight
  <1>3. AsideRight(Aside(m, s, 0), q, ans, p)
    BY <1>1 DEF AsideRight, Aside
  <1>4. \A d \in Doors : \A i \in 1 .. Len(m[d]) : m[d][i] # 0
    BY <1>1, <1>2, PostedIs
  <1>5. MailRight(m, s, 0)
    BY <1>1, <1>4 DEF MailRight
  <1>6. Core(q, m, s, 0, ans, p, f, fr)
    BY <1>1, <1>3, <1>5 DEF Core
  <1>7. ASSUME st # 0 PROVE Loose(st, q, m, s, 0, ans, p) /\ Kind(st) = "start"
    <2>1. Kind(st) = "start" /\ ~Typed(st) /\ st \in Writes
      BY <1>1, <1>7 DEF MailRight, Typed
    <2>2. st \notin s
      BY <1>1, <2>1 DEF MailRight
    <2>3. st \notin Posted(m)
      <3> SUFFICES ASSUME st \in Posted(m) PROVE FALSE
        OBVIOUS
      <3>1. PICK d \in Doors : \E i \in 1 .. Len(m[d]) : m[d][i] = st
        BY <1>1, PostedIs
      <3> QED BY <1>1, <3>1 DEF MailRight
    <2>4. Leads(st, Aside(m, s, 0))
      <3>1. \A x \in Aside(m, s, 0) : x # st
        BY <2>2, <2>3 DEF Aside
      <3> QED BY <2>1, <3>1, Untyped DEF Leads
    <2>5. Ready(st, q, ans, p)
      BY <1>1, <1>7 DEF AsideRight, Aside
    <2> QED BY <2>1, <2>4, <2>5 DEF Loose
  <1> QED BY <1>6, <1>7

LEMMA CoreAppends ==
  ASSUME NEW q, NEW m, NEW s, NEW st, NEW ans, NEW p, NEW f, NEW fr, Core(q, m, s, st, ans, p, f, fr),
         NEW w, Loose(w, q, m, s, st, ans, p), fr >= Size(w)
  PROVE  /\ Joined(Append(q, Pending(w)), q, w)
         /\ Core(Append(q, Pending(w)), m, s, st, ans, p, f, fr - Size(w))
  <1>1. /\ load \in Loads /\ q \in Seq(Item) /\ m \in [Doors -> Seq(Writes)] /\ fr \in Nat
        /\ QueueRight(q, ans, p, f) /\ AsideRight(Aside(m, s, st), q, ans, p) /\ BudgetRight(fr, q, m)
    BY DEF Core
  <1>2. w \in Writes /\ w \notin Queued(q) /\ w \notin Posted(m)
    BY <1>1, LooseApart
  <1>3. PICK v : v = Append(q, Pending(w))
    OBVIOUS
  <1>4. Joined(v, q, w)
    BY <1>1, <1>2, <1>3, JoinedIs
  <1>5. v \in Seq(Item) /\ Queued(v) = Queued(q) \cup {w}
    BY <1>4 DEF Joined
  <1>6. QueueRight(v, ans, p, f)
    BY <1>1, <1>2, <1>4, QueueAccepts DEF Loose
  <1>7. AsideRight(Aside(m, s, st), v, ans, p)
    BY <1>1, <1>2, <1>4, AsideAccepts DEF Loose
  <1>8. w \notin Holding(q, m) /\ Holding(v, m) = Holding(q, m) \cup {w}
    BY <1>2, <1>5 DEF Holding
  <1>9. fr - Size(w) \in Nat /\ BudgetRight(fr - Size(w), v, m)
    BY <1>1, <1>2, <1>8, BudgetTaken
  <1>10. Core(v, m, s, st, ans, p, f, fr - Size(w))
    BY <1>5, <1>6, <1>7, <1>9 DEF Core
  <1> QED BY <1>3, <1>4, <1>10

LEMMA CoreSaves ==
  ASSUME NEW q, NEW m, NEW s, NEW st, NEW ans, NEW p, NEW f, NEW fr, Core(q, m, s, st, ans, p, f, fr),
         NEW w, Loose(w, q, m, s, st, ans, p), Kind(w) \in {"picture", "remote picture"}
  PROVE  Core(q, m, s \cup {w}, st, ans, p, f, fr)
  <1>1. /\ q \in Seq(Item) /\ m \in [Doors -> Seq(Writes)] /\ s \subseteq Writes
        /\ MailRight(m, s, st) /\ AsideRight(Aside(m, s, st), q, ans, p)
    BY DEF Core
  <1>2. w \in Writes /\ w \notin Posted(m)
    BY <1>1, LooseApart
  <1>3. \A d \in Doors : \A i \in 1 .. Len(m[d]) : m[d][i] # w
    BY <1>1, <1>2, PostedIs
  <1>4. MailRight(m, s \cup {w}, st)
    BY <1>1, <1>3 DEF MailRight
  <1>5. AsideRight(Aside(m, s \cup {w}, st), q, ans, p)
    BY <1>1 DEF AsideRight, Aside, Loose
  <1> QED BY <1>1, <1>2, <1>4, <1>5 DEF Core

LEMMA CoreStarts ==
  ASSUME NEW q, NEW m, NEW s, NEW st, NEW ans, NEW p, NEW f, NEW fr, Core(q, m, s, st, ans, p, f, fr),
         NEW w, Loose(w, q, m, s, st, ans, p), Kind(w) = "start"
  PROVE  Core(q, m, s, w, ans, p, f, fr)
  <1>1. /\ q \in Seq(Item) /\ m \in [Doors -> Seq(Writes)] /\ s \subseteq Writes
        /\ MailRight(m, s, st) /\ AsideRight(Aside(m, s, st), q, ans, p)
    BY DEF Core
  <1>2. w \in Writes /\ w \notin Posted(m)
    BY <1>1, LooseApart
  <1>3. \A d \in Doors : \A i \in 1 .. Len(m[d]) : m[d][i] # w
    BY <1>1, <1>2, PostedIs
  <1>4. MailRight(m, s, w)
    BY <1>1, <1>3 DEF MailRight
  <1>5. AsideRight(Aside(m, s, w), q, ans, p)
    BY <1>1 DEF AsideRight, Aside, Loose
  <1> QED BY <1>1, <1>2, <1>4, <1>5 DEF Core

LEMMA CoreHears ==
  ASSUME NEW q, NEW m, NEW s, NEW st, NEW ans, NEW p, NEW f, NEW fr, Core(q, m, s, st, ans, p, f, fr),
         NEW ans2, Hears(ans, ans2, p),
         \A w \in Queued(q) \cup Aside(m, s, st) : ans2[w] \in Waiting
  PROVE  Core(q, m, s, st, ans2, p, f, fr) /\ Steady(ans, ans2)
  <1>1. /\ q \in Seq(Item) /\ OffersRight(ans) /\ AnswerRight(ans, p)
        /\ QueueRight(q, ans, p, f) /\ AsideRight(Aside(m, s, st), q, ans, p)
    BY DEF Core
  <1>2. OffersRight(ans2) /\ AnswerRight(ans2, p) /\ Steady(ans, ans2)
    BY <1>1, HearsRight
  <1>3. \A i \in 1 .. Len(q) : ans2[q[i].w] \in Waiting
    BY <1>1, QueuedIs
  <1>4. QueueRight(q, ans2, p, f)
    BY <1>1, <1>3 DEF QueueRight
  <1>5. AsideRight(Aside(m, s, st), q, ans2, p)
    BY <1>1 DEF AsideRight, Ready
  <1>6. ans2 \in [Writes -> Answers]
    BY DEF Hears
  <1> QED BY <1>2, <1>4, <1>5, <1>6 DEF Core

LEMMA CoreLeaves ==
  ASSUME NEW q, NEW m, NEW s, NEW st, NEW ans, NEW p, NEW f, NEW fr, Core(q, m, s, st, ans, p, f, fr),
         NEW r \in Seq(Item), Within(r, q, Len(q))
  PROVE  /\ Core(r, m, s, st, ans, p, f, fr + Cost(Queued(q) \ Queued(r)))
         /\ Queued(r) \subseteq Queued(q)
  <1>1. /\ load \in Loads /\ q \in Seq(Item) /\ m \in [Doors -> Seq(Writes)] /\ fr \in Nat
        /\ QueueRight(q, ans, p, f) /\ AsideRight(Aside(m, s, st), q, ans, p) /\ BudgetRight(fr, q, m)
    BY DEF Core
  <1>2. ASSUME NEW w \in Queued(r) PROVE w \in Queued(q)
    <2>1. PICK i \in 1 .. Len(r) : r[i].w = w
      BY QueuedIs
    <2>2. PICK a \in 1 .. Len(q) : r[i] = q[a]
      BY DEF Within
    <2> QED BY <1>1, <2>1, <2>2, QueuedIs
  <1>3. \A w \in Queued(r) : ans[w] \in Waiting
    BY <1>1, <1>2, QueueWaits
  <1>4. QueueRight(r, ans, p, f)
    BY <1>1, <1>3, QueueLeaves
  <1>5. \A w \in Aside(m, s, st) : ans[w] \in Waiting
    BY <1>1 DEF AsideRight, Ready
  <1>6. AsideRight(Aside(m, s, st), r, ans, p)
    BY <1>1, <1>5, AsideLeaves
  <1> DEFINE V == Queued(q) \ Queued(r)
  <1>7. V \subseteq Holding(q, m) /\ Holding(r, m) = Holding(q, m) \ V
    <2>1. \A w \in Posted(m) : w \notin Queued(q)
      BY <1>1, AsideApart DEF Aside
    <2> QED BY <1>2, <2>1 DEF Holding
  <1>8. fr + Cost(V) \in Nat /\ BudgetRight(fr + Cost(V), r, m)
    BY <1>1, <1>7, BudgetGiven
  <1> HIDE DEF V
  <1>9. Core(r, m, s, st, ans, p, f, fr + Cost(V))
    BY <1>4, <1>6, <1>8 DEF Core
  <1> QED BY <1>2, <1>9 DEF V

\* Nothing waits any more: all is free.
LEMMA CoreEmpty ==
  ASSUME load \in Loads, NEW q, q = <<>>, NEW m \in [Doors -> Seq(Writes)], \A d \in Doors : m[d] = <<>>,
         NEW ans \in [Writes -> Answers], NEW p \in Seq(Writes \X Nat), NEW f,
         OffersRight(ans), AnswerRight(ans, p)
  PROVE  Core(q, m, {}, 0, ans, p, f, Budget)
  <1>1. q \in Seq(Item) /\ Len(q) = 0 /\ \A d \in Doors : Len(m[d]) = 0
    OBVIOUS
  <1>2. Queued(q) = {}
    <2> SUFFICES ASSUME NEW e \in Queued(q) PROVE FALSE
      OBVIOUS
    <2>1. PICK i \in 1 .. Len(q) : q[i].w = e
      BY <1>1, QueuedIs
    <2> QED BY <1>1, <2>1
  <1>3. Posted(m) = {}
    BY <1>1 DEF Posted
  <1>4. Aside(m, {}, 0) = {} /\ Holding(q, m) = {}
    BY <1>2, <1>3 DEF Aside, Holding
  <1>5. Budget \in Nat /\ Cost({}) = 0
    BY LoadRight, CostNone
  <1>6. QueueRight(q, ans, p, f) /\ MailRight(m, {}, 0) /\ AsideRight(Aside(m, {}, 0), q, ans, p)
    BY <1>1, <1>4 DEF QueueRight, MailRight, AsideRight
  <1>7. BudgetRight(Budget, q, m)
    <2>1. Cost(Holding(q, m)) = 0
      BY <1>4, <1>5
    <2> QED BY <1>5, <2>1 DEF BudgetRight
  <1> QED BY <1>1, <1>5, <1>6, <1>7 DEF Core

\* A write of which nothing was heard yet is behind all that were offered.
LEMMA NoneBehind ==
  ASSUME load \in Loads, NEW ans, NEW p \in Seq(Writes \X Nat), OffersRight(ans), AnswerRight(ans, p),
         NEW w \in Writes, ans[w] = "none"
  PROVE  /\ Reaches(p, w, 0) /\ Fresh(p, w)
         /\ \A u \in Writes : ans[u] \in Waiting => Precedes(u, w)
  <1>1. Fresh(p, w)
    BY DEF AnswerRight, Unheard
  <1>2. ASSUME NEW u \in Writes, Stream(u, w), ~(u <= w) PROVE ans[u] = "none"
    <2>1. Stream(w, u)
      BY <1>2 DEF Stream
    <2>2. u \in Nat /\ w \in Nat
      BY LoadRight
    <2>3. w < u
      BY <1>2, <2>2
    <2> QED BY <2>1, <2>3 DEF OffersRight
  <1>3. ASSUME NEW b \in Content(p), Stream(b[1], w) PROVE b[1] <= w
    <2> SUFFICES ASSUME ~(b[1] <= w) PROVE FALSE
      OBVIOUS
    <2>1. b \in Writes \X Nat
      BY DEF Content
    <2>2. b[1] \in Writes /\ b[2] \in Nat /\ b = <<b[1], b[2]>>
      BY <2>1
    <2>3. ans[b[1]] = "none"
      BY <1>2, <1>3, <2>2
    <2>4. Fresh(p, b[1])
      BY <2>2, <2>3 DEF AnswerRight, Unheard
    <2>5. b[2] \in 1 .. 0
      BY <2>2, <2>4 DEF Fresh, Through
    <2> QED BY <2>5
  <1>4. Reaches(p, w, 0)
    BY <1>1, <1>3 DEF Reaches, Fresh
  <1>5. ASSUME NEW u \in Writes, ans[u] \in Waiting PROVE Precedes(u, w)
    <2>1. u # w /\ ans[u] # "none"
      BY <1>5 DEF Waiting
    <2>2. Stream(u, w) => u < w
      BY <1>2, <2>1, LoadRight
    <2> QED BY <2>1, <2>2 DEF Precedes
  <1> QED BY <1>1, <1>4, <1>5

LEMMA CoreWaits ==
  ASSUME NEW q, NEW m, NEW s, NEW st, NEW ans, NEW p, NEW f, NEW fr, Core(q, m, s, st, ans, p, f, fr),
         NEW w \in Queued(q) \cup Aside(m, s, st)
  PROVE  w \in Writes /\ ans[w] \in Waiting
  <1>1. /\ q \in Seq(Item) /\ m \in [Doors -> Seq(Writes)] /\ s \subseteq Writes /\ st \in Writes \cup {0}
        /\ QueueRight(q, ans, p, f) /\ AsideRight(Aside(m, s, st), q, ans, p)
    BY DEF Core
  <1>2. CASE w \in Queued(q)
    BY <1>1, <1>2, QueueWaits, QueuedIs
  <1>3. CASE w \in Aside(m, s, st)
    <2>1. w \in Writes
      BY <1>1, <1>3, PostedIs DEF Aside
    <2> QED BY <1>1, <1>3, <2>1, AsideApart
  <1> QED BY <1>2, <1>3

\* The view of w sent all that it typed before; w has its place in the budget and a mailbox.
Due(w, ans) == ans[w] = "none" /\ \A u \in Writes : Stream(u, w) /\ u < w => ans[u] # "none"
Fits(w, fr) == Admitted(w) => fr >= Size(w)
Mailed(m2, m, w) == m2 = [m EXCEPT ![Door(w)] = Append(@, w)]
Replied(ans2, ans, w, what) == ans2 = [ans EXCEPT ![w] = what]

LEMMA CoreOffers ==
  ASSUME NEW q, NEW m, NEW s, NEW st, NEW ans, NEW p, NEW f, NEW fr, Core(q, m, s, st, ans, p, f, fr),
         NEW w \in Writes, Due(w, ans), Kind(w) # "reply",
         NEW what \in Waiting, Fits(w, fr),
         NEW m2, Mailed(m2, m, w), NEW ans2, Replied(ans2, ans, w, what)
  PROVE  /\ Core(q, m2, s, st, ans2, p, f, fr - Held(w)) /\ Steady(ans, ans2)
         /\ Posted(m2) = Posted(m) \cup {w}
  <1> USE DEF Due, Fits, Mailed, Replied
  <1> DEFINE A == Aside(m, s, st)
  <1>1. /\ load \in Loads /\ q \in Seq(Item) /\ m \in [Doors -> Seq(Writes)] /\ s \subseteq Writes
        /\ st \in Writes \cup {0} /\ ans \in [Writes -> Answers] /\ p \in Seq(Writes \X Nat) /\ fr \in Nat
        /\ OffersRight(ans) /\ AnswerRight(ans, p) /\ MailRight(m, s, st) /\ BudgetRight(fr, q, m)
    BY DEF Core
  <1>2. Reaches(p, w, 0) /\ \A u \in Writes : ans[u] \in Waiting => Precedes(u, w)
    BY <1>1, NoneBehind
  <1>3. \A x \in Queued(q) \cup A : x \in Writes /\ ans[x] \in Waiting /\ x # w
    BY CoreWaits DEF Waiting
  <1> HIDE DEF A
  <1>4. ans2 \in [Writes -> Answers] /\ ans2[w] = what /\ \A x \in Writes : x # w => ans2[x] = ans[x]
    BY <1>1 DEF Answers
  <1>5. Hears(ans, ans2, p)
    <2>1. what # "none" /\ what \notin Unheard /\ what # "ok"
      BY DEF Waiting, Unheard
    <2> QED BY <1>4, <2>1 DEF Hears
  <1>6. Core(q, m, s, st, ans2, p, f, fr) /\ Steady(ans, ans2)
    BY <1>3, <1>4, <1>5, CoreHears DEF A
  <1>7. Door(w) \in Doors
    BY DEF Door, Doors
  <1>8. w \notin s /\ w # st /\ \A i \in 1 .. Len(m[Door(w)]) : Precedes(m[Door(w)][i], w)
    <2>1. w \notin A
      BY <1>3
    <2>2. w # 0
      BY <1>1, LoadRight
    <2>3. \A i \in 1 .. Len(m[Door(w)]) : m[Door(w)][i] \in Posted(m)
      BY <1>1, <1>7, PostedIs
    <2>4. \A x \in Posted(m) : x \in A
      BY DEF A, Aside
    <2>5. \A x \in A : Precedes(x, w)
      BY <1>2, <1>3
    <2> QED BY <2>1, <2>2, <2>3, <2>4, <2>5 DEF A, Aside
  <1>9. /\ m2 \in [Doors -> Seq(Writes)] /\ MailRight(m2, s, st)
        /\ Posted(m2) = Posted(m) \cup {w}
    <2>1. Grew(m2, m, w, s, st)
      BY <1>1, <1>7, <1>8, MailGrows
    <2> QED BY <2>1 DEF Grew
  <1>10. Ready(w, q, ans2, p)
    <2>1. \A i \in 1 .. Len(q) : Precedes(q[i].w, w)
      BY <1>1, <1>2, <1>3, QueuedIs
    <2> QED BY <1>2, <1>4, <2>1 DEF Ready
  <1>11. AsideRight(Aside(m2, s, st), q, ans2, p)
    <2>1. AsideRight(Aside(m, s, st), q, ans2, p)
      BY <1>6 DEF Core
    <2> QED BY <1>9, <1>10, <2>1 DEF AsideRight, Aside
  <1>12. fr - Held(w) \in Nat /\ BudgetRight(fr - Held(w), q, m2)
    <2>1. CASE Admitted(w)
      <3>1. w \notin Holding(q, m) /\ Holding(q, m2) = Holding(q, m) \cup {w}
        BY <1>3, <1>9, <2>1 DEF Holding, A, Aside
      <3>2. fr - Size(w) \in Nat /\ BudgetRight(fr - Size(w), q, m2)
        BY <1>1, <2>1, <3>1, BudgetTaken
      <3>3. Held(w) = Size(w)
        BY <2>1 DEF Held
      <3> QED BY <3>2, <3>3
    <2>2. CASE ~Admitted(w)
      <3>1. Holding(q, m2) = Holding(q, m)
        BY <1>9, <2>2 DEF Holding
      <3>2. fr - Held(w) = fr
        BY <1>1, <2>2 DEF Held
      <3> QED BY <1>1, <3>1, <3>2 DEF BudgetRight
    <2> QED BY <2>1, <2>2
  <1>13. Core(q, m2, s, st, ans2, p, f, fr - Held(w))
    BY <1>6, <1>9, <1>11, <1>12 DEF Core
  <1> QED BY <1>6, <1>9, <1>13

\* A refused write: its caller hears of it, unless it gave up.
LEMMA CoreRefuses ==
  ASSUME NEW q, NEW m, NEW s, NEW st, NEW ans, NEW p, NEW f, NEW fr, Core(q, m, s, st, ans, p, f, fr),
         NEW w, Loose(w, q, m, s, st, ans, p), NEW what \in {"busy", "stale", "refused"},
         NEW ans2, ans2 = Tell(ans, {w}, what)
  PROVE  Core(q, m, s, st, ans2, p, f, fr) /\ Steady(ans, ans2)
  <1>1. q \in Seq(Item) /\ ans \in [Writes -> Answers]
    BY DEF Core
  <1>2. w \in Writes /\ w \notin Queued(q) /\ w \notin Aside(m, s, st)
    BY <1>1, LooseApart
  <1>3. Fresh(p, w)
    BY DEF Loose, Ready, Reaches, Fresh
  <1>4. what \in Answers \ {"none"} /\ what # "ok"
    BY DEF Answers, Unheard
  <1>5. /\ Hears(ans, ans2, p)
        /\ \A x \in Writes : x \notin {w} => ans2[x] = ans[x]
    <2>1. TrueOf(what, {w}, p)
      BY <1>3, <1>4 DEF TrueOf
    <2>2. Hears(ans, ans2, p) /\ Told(ans2, ans, {w}, what)
      BY <1>1, <2>1, TellHears
    <2> QED BY <2>2 DEF Told
  <1>6. \A x \in Queued(q) \cup Aside(m, s, st) : ans2[x] \in Waiting
    <2>1. \A x \in Queued(q) \cup Aside(m, s, st) : x \in Writes /\ ans[x] \in Waiting
      BY CoreWaits
    <2> QED BY <1>2, <1>5, <2>1
  <1> QED BY <1>5, <1>6, CoreHears

\* A write of the terminal itself, and the line of run: it has a place or its caller hears.
LEMMA CoreEnqueues ==
  ASSUME NEW q, NEW m, NEW s, NEW st, NEW ans, NEW p, NEW f, NEW fr, Core(q, m, s, st, ans, p, f, fr),
         NEW w \in Writes,
         Loose(w, q, m, s, st, ans, p) \/ (ans[w] = "none" /\ Kind(w) = "reply"),
         NEW what \in {"busy", "queued"}, what = "queued" => fr >= Size(w),
         NEW ans2, ans2 = [ans EXCEPT ![w] = IF @ = "timeout" THEN @ ELSE what]
  PROVE  /\ Steady(ans, ans2)
         /\ what = "busy" => Core(q, m, s, st, ans2, p, f, fr)
         /\ what = "queued" => /\ Joined(Append(q, Pending(w)), q, w)
                               /\ Core(Append(q, Pending(w)), m, s, st, ans2, p, f, fr - Size(w))
  <1> DEFINE A == Aside(m, s, st)
  <1>1. /\ load \in Loads /\ q \in Seq(Item) /\ ans \in [Writes -> Answers] /\ p \in Seq(Writes \X Nat)
        /\ OffersRight(ans) /\ AnswerRight(ans, p)
    BY DEF Core
  <1>2. \A x \in Queued(q) \cup A : x \in Writes /\ ans[x] \in Waiting
    BY CoreWaits
  <1> HIDE DEF A
  <1>3. /\ Reaches(p, w, 0) /\ w \notin Queued(q) \cup A
        /\ \A i \in 1 .. Len(q) : Precedes(q[i].w, w)
        /\ Leads(w, A)
        /\ ans[w] \in Waiting \/ (ans[w] = "none" /\ ~Typed(w))
    <2>1. CASE Loose(w, q, m, s, st, ans, p)
      <3>1. w \notin Queued(q) \cup A
        BY <1>1, <2>1, LooseApart DEF A
      <3> QED BY <2>1, <3>1 DEF Loose, Ready, A
    <2>2. CASE ans[w] = "none" /\ Kind(w) = "reply"
      <3>1. Reaches(p, w, 0) /\ \A u \in Writes : ans[u] \in Waiting => Precedes(u, w)
        BY <1>1, <2>2, NoneBehind
      <3>2. ~Typed(w)
        BY <2>2 DEF Typed
      <3>3. w \notin Queued(q) \cup A
        BY <1>2, <2>2 DEF Waiting
      <3>4. \A i \in 1 .. Len(q) : Precedes(q[i].w, w)
        BY <1>1, <1>2, <3>1, QueuedIs
      <3>5. Leads(w, A)
        BY <3>2, <3>3, Untyped DEF Leads
      <3> QED BY <2>2, <3>1, <3>2, <3>3, <3>4, <3>5
    <2> QED BY <2>1, <2>2
  <1>4. /\ ans2[w] = IF ans[w] = "timeout" THEN "timeout" ELSE what
        /\ \A x \in Writes : x # w => ans2[x] = ans[x]
    BY <1>1
  <1>5. ans2 \in [Writes -> Answers]
    <2>1. what \in Answers
      BY DEF Answers, Unheard, Waiting
    <2> QED BY <1>1, <2>1
  <1>6. Hears(ans, ans2, p)
    <2>1. Fresh(p, w)
      BY <1>3 DEF Reaches, Fresh
    <2>2. what # "none" /\ what # "ok"
      OBVIOUS
    <2>3. ans[w] = "none" => \A u \in Writes : ~Stream(u, w)
      BY <1>3 DEF Stream, Typed, Waiting
    <2>4. ans[w] \in Waiting \cup {"none"}
      BY <1>3
    <2> QED BY <1>4, <1>5, <2>1, <2>2, <2>3, <2>4 DEF Hears
  <1>7. \A x \in Queued(q) \cup A : ans2[x] \in Waiting
    BY <1>2, <1>3, <1>4
  <1>8. Core(q, m, s, st, ans2, p, f, fr) /\ Steady(ans, ans2)
    BY <1>6, <1>7, CoreHears DEF A
  <1>9. ASSUME what = "queued"
        PROVE  /\ Joined(Append(q, Pending(w)), q, w)
               /\ Core(Append(q, Pending(w)), m, s, st, ans2, p, f, fr - Size(w))
    <2>1. ans2[w] \in Waiting
      BY <1>4, <1>9 DEF Waiting
    <2>2. Loose(w, q, m, s, st, ans2, p)
      BY <1>3, <2>1 DEF Loose, Ready, A
    <2> QED BY <1>8, <1>9, <2>2, CoreAppends
  <1> QED BY <1>8, <1>9

-----------------------------------------------------------------------------
(* The thread, and the person who types *)

LEMMA FlightKeeps ==
  ASSUME NEW f, NEW q, NEW a, NEW ans, NEW p, FlightRight(f, q, a, ans, p), a # "ended",
         NEW q2, NEW a2, a2 # "ended", NEW ans2,
         f.w # 0 => Len(q2) > 0 /\ (Len(q) > 0 => q2[1] = q[1])
  PROVE  FlightRight(f, q2, a2, ans2, p)
  BY DEF FlightRight

LEMMA AfterIs ==
  ASSUME load \in Loads, NEW e \in Writes, After(e) # 0
  PROVE  After(e) \in Writes /\ After(e) # e
  <1>1. After(e) \in 0 .. e - 1 /\ e \in Nat
    BY LoadRight
  <1>2. Writes = 1 .. Len(load.writes) /\ Len(load.writes) \in Nat
    BY TerminalInputAssumption DEF Writes
  <1> QED BY <1>1, <1>2

\* The pause between the text of a message and its Enter.
Pausing(e, ans, m) == After(e) # 0 /\ ans[After(e)] = "ok" /\ (ans[e] = "none" \/ e \in Posted(m))

LEMMA PauseIs ==
  ASSUME mail \in [Doors -> Seq(Writes)], NEW e \in Writes
  PROVE  Pause(e) <=> Pausing(e, answer, mail)
  <1>1. DOMAIN mail = Doors /\ \A d \in Doors : DOMAIN mail[d] = 1 .. Len(mail[d])
    OBVIOUS
  <1>2. (\E d \in DOMAIN mail : e \in ToSet(mail[d])) <=> e \in Posted(mail)
    BY <1>1 DEF ToSet, Posted
  <1> QED BY <1>2 DEF Pause, Pausing

LEMMA TypedKeeps ==
  ASSUME load \in Loads, NEW td \in SUBSET Writes, NEW ty \in BOOLEAN, NEW q, NEW m, NEW ans, NEW p, NEW f,
         TypedRight(td, ty, q, m, ans, p, f),
         NEW ty2 \in BOOLEAN, ty => ty2,
         NEW q2, \A e \in Queued(q2) : e \in Queued(q) \/ Kind(e) # "message" \/ e \notin td,
         NEW m2, \A e \in Posted(m2) : e \in Posted(m) \/ ans[e] = "none",
         NEW ans2, Steady(ans, ans2)
  PROVE  TypedRight(td, ty2, q2, m2, ans2, p, f)
  <1> SUFFICES ASSUME NEW e \in td, Kind(e) = "message"
               PROVE  /\ Fresh(p, e) /\ e \notin Queued(q2) /\ f.w # e
                      /\ After(e) # 0 /\ ans2[After(e)] = "ok"
                      /\ ans2[e] = "none" \/ e \in Posted(m2) => ty2
    BY DEF TypedRight
  <1>1. /\ Fresh(p, e) /\ e \notin Queued(q) /\ f.w # e
        /\ After(e) # 0 /\ ans[After(e)] = "ok"
        /\ ans[e] = "none" \/ e \in Posted(m) => ty
    BY DEF TypedRight
  <1>2. e \in Writes /\ After(e) \in Writes
    BY <1>1, AfterIs
  <1> QED BY <1>1, <1>2 DEF Steady

LEMMA TypedGrows ==
  ASSUME NEW td \in SUBSET Writes, NEW ty \in BOOLEAN,
         NEW q, NEW m, NEW s, NEW st, NEW ans, NEW p, NEW f, NEW fr, Core(q, m, s, st, ans, p, f, fr),
         TypedRight(td, ty, q, m, ans, p, f),
         NEW a, a # "ended", FlightRight(f, q, a, ans, p),
         NEW td2, td2 = td \cup {e \in Writes : Pausing(e, ans, m)},
         NEW q2, \A e \in Queued(q2) : e \in Queued(q) \/ Kind(e) # "message",
         NEW m2, NEW ans2, Steady(ans, ans2)
  PROVE  TypedRight(td2, TRUE, q2, m2, ans2, p, f)
  <1> SUFFICES ASSUME NEW e \in td2, Kind(e) = "message"
               PROVE  /\ Fresh(p, e) /\ e \notin Queued(q2) /\ f.w # e
                      /\ After(e) # 0 /\ ans2[After(e)] = "ok"
    BY DEF TypedRight
  <1>1. /\ load \in Loads /\ q \in Seq(Item) /\ ans \in [Writes -> Answers] /\ p \in Seq(Writes \X Nat)
        /\ OffersRight(ans) /\ AnswerRight(ans, p)
        /\ QueueRight(q, ans, p, f) /\ AsideRight(Aside(m, s, st), q, ans, p)
    BY DEF Core
  <1>2. /\ Fresh(p, e) /\ e \notin Queued(q) /\ f.w # e
        /\ After(e) # 0 /\ ans[After(e)] = "ok"
    <2>1. CASE e \in td
      BY <2>1 DEF TypedRight
    <2>2. CASE e \notin td
      <3>1. e \in Writes /\ Pausing(e, ans, m)
        BY <2>2
      <3>2. After(e) # 0 /\ ans[After(e)] = "ok" /\ (ans[e] = "none" \/ e \in Posted(m))
        BY <3>1 DEF Pausing
      <3>3. Fresh(p, e) /\ e \notin Queued(q)
        <4>1. CASE ans[e] = "none"
          <5>1. Fresh(p, e)
            BY <1>1, <3>1, <4>1, NoneBehind
          <5>2. e \notin Queued(q)
            BY <1>1, <4>1, QueueWaits DEF Waiting
          <5> QED BY <5>1, <5>2
        <4>2. CASE e \in Posted(m)
          <5>1. e \in Aside(m, s, st)
            BY <4>2 DEF Aside
          <5> QED BY <1>1, <5>1, AsideApart
        <4> QED BY <3>2, <4>1, <4>2
      <3>4. f.w # e
        <4> SUFFICES ASSUME f.w = e PROVE FALSE
          OBVIOUS
        <4>1. f.w # 0
          BY <1>1, <3>1, LoadRight
        <4>2. Len(q) > 0 /\ q[1].w = e
          BY <4>1 DEF FlightRight
        <4>3. 1 \in 1 .. Len(q)
          BY <1>1, <4>2
        <4>4. e \in Queued(q)
          BY <1>1, <4>2, <4>3, QueuedIs
        <4> QED BY <3>3, <4>4
      <3> QED BY <3>2, <3>3, <3>4
    <2> QED BY <2>1, <2>2
  <1>3. e \in Writes /\ After(e) \in Writes
    <2>1. e \in Writes
      OBVIOUS
    <2> QED BY <1>1, <1>2, <2>1, AfterIs
  <1> QED BY <1>2, <1>3 DEF Steady

-----------------------------------------------------------------------------
(* The writes of a behaviour do not change *)

IInvNext ==
  /\ Types'
  /\ Core(queue', mail', saving', start', answer', pty', flight', free')
  /\ FlightRight(flight', queue', at', answer', pty')
  /\ EndRight(at', queue', mail', saving', start')
  /\ LateRight(late', live', at', flight', queue')
  /\ TypedRight(typed', typing', queue', mail', answer', pty', flight')
  /\ PtyRight(pty')

LEMMA Frame ==
  ASSUME load' = load, windows' = windows, IInvNext
  PROVE  IInv'
  <1>1. Types'
    BY DEF IInvNext
  <1>2. \A w : Kind(w)' = Kind(w) /\ By(w)' = By(w) /\ Size(w)' = Size(w) /\ After(w)' = After(w)
    BY DEF Kind, By, Size, After
  <1>3. Writes' = Writes
    BY DEF Writes
  <1>4. (load \in Loads)' <=> load \in Loads
    OBVIOUS
  <1>5. \A u, w : Stream(u, w)' <=> Stream(u, w)
    BY <1>2 DEF Stream
  <1>6. \A u, w : Precedes(u, w)' <=> Precedes(u, w)
    BY <1>5 DEF Precedes
  <1>7. Posted(mail)' = Posted(mail')
    BY <1>3 DEF Posted
  <1>8. Queued(queue)' = Queued(queue')
    BY DEF Queued
  <1>9. \A w : Admitted(w)' <=> Admitted(w)
    BY <1>2 DEF Admitted
  <1>10. Holding(queue, mail)' = Holding(queue', mail')
    BY <1>7, <1>8, <1>9 DEF Holding
  <1>11. Cost(Holding(queue, mail))' = Cost(Holding(queue', mail'))
    BY <1>2, <1>10 DEF Cost
  <1>12. \A w, n : Reaches(pty, w, n)' <=> Reaches(pty', w, n)
    BY <1>5 DEF Reaches, Through, Content
  <1>13. \A w, n : Through(pty, w, n)' <=> Through(pty', w, n)
    BY DEF Through, Content
  <1>14. Aside(mail, saving, start)' = Aside(mail', saving', start')
    BY <1>7 DEF Aside
  <1>15. \A w : Ready(w, queue, answer, pty)' <=> Ready(w, queue', answer', pty')
    BY <1>6, <1>12 DEF Ready
  <1>16. Core(queue, mail, saving, start, answer, pty, flight, free)'
    <2> USE DEF Core, IInvNext
    <2>1. OffersRight(answer)'
      BY <1>3, <1>5 DEF OffersRight
    <2>2. QueueRight(queue, answer, pty, flight)'
      BY <1>2, <1>6, <1>12 DEF QueueRight
    <2>3. MailRight(mail, saving, start)'
      BY <1>2, <1>6 DEF MailRight, Door
    <2>4. AsideRight(Aside(mail, saving, start), queue, answer, pty)'
      BY <1>14, <1>15 DEF AsideRight
    <2>5. AnswerRight(answer, pty)'
      BY <1>2, <1>3, <1>13 DEF AnswerRight, Fresh
    <2>6. BudgetRight(free, queue, mail)'
      BY <1>11 DEF BudgetRight
    <2>7. Item' = Item
      BY <1>3 DEF Item
    <2> QED BY <1>3, <1>4, <2>1, <2>2, <2>3, <2>4, <2>5, <2>6, <2>7
  <1>17. FlightRight(flight, queue, at, answer, pty)'
    BY <1>2, <1>3, <1>12, <1>13 DEF FlightRight, IInvNext
  <1>18. EndRight(at, queue, mail, saving, start)'
    BY DEF EndRight, IInvNext
  <1>19. LateRight(late, live, at, flight, queue)'
    BY <1>2 DEF LateRight, IInvNext
  <1>20. TypedRight(typed, typing, queue, mail, answer, pty, flight)'
    BY <1>2, <1>7, <1>8, <1>13 DEF TypedRight, IInvNext, Fresh
  <1>21. PtyRight(pty)'
    BY <1>5 DEF PtyRight, IInvNext
  <1> QED BY <1>1, <1>16, <1>17, <1>18, <1>19, <1>20, <1>21 DEF IInv

LEMMA TypesKeep ==
  ASSUME Types, load' = load, windows' = windows, live' \subseteq Views,
         flight' \in [w : Nat, n : Nat, done : BOOLEAN], typing' \in BOOLEAN,
         at' \in {"top", "select", "ended"}, late' \in [Views -> Nat], typed' \subseteq Writes
  PROVE  Types'
  <1>1. windows' \in BOOLEAN
    <2>1. windows \in BOOLEAN /\ windows' = windows
      BY DEF Types
    <2> QED BY ONLY <2>1, Zenon
  <1>2. typed' \subseteq Writes'
    BY DEF Writes
  <1> QED BY <1>1, <1>2, Zenon DEF Types

\* What a step of the callers leaves as it is.
LEMMA CallerTypes ==
  ASSUME Types, UNCHANGED <<load, windows, flight, at, late, typed>>,
         live' \subseteq Views, typing' \in BOOLEAN
  PROVE  Types'
  <1>1. flight' \in [w : Nat, n : Nat, done : BOOLEAN]
    <2>1. flight \in [w : Nat, n : Nat, done : BOOLEAN] /\ flight' = flight
      BY DEF Types
    <2> QED BY ONLY <2>1, Zenon
  <1>2. at' \in {"top", "select", "ended"} /\ late' \in [Views -> Nat] /\ typed' \subseteq Writes
    BY DEF Types
  <1>3. load' = load /\ windows' = windows
    OBVIOUS
  <1> QED BY <1>1, <1>2, <1>3, TypesKeep

-----------------------------------------------------------------------------
(* The steps of callers *)

LEMMA OfferKeeps ==
  ASSUME IInv, NEW w \in Writes, Offer(w)
  PROVE  IInv'
  <1>1. /\ Core(queue, mail, saving, start, answer, pty, flight, free)
        /\ FlightRight(flight, queue, at, answer, pty) /\ LateRight(late, live, at, flight, queue)
        /\ TypedRight(typed, typing, queue, mail, answer, pty, flight) /\ PtyRight(pty)
        /\ Types
    BY DEF IInv
  <1>2. /\ load \in Loads /\ queue \in Seq(Item) /\ mail \in [Doors -> Seq(Writes)]
        /\ answer \in [Writes -> Answers] /\ pty \in Seq(Writes \X Nat) /\ free \in Nat
        /\ OffersRight(answer) /\ AnswerRight(answer, pty)
    BY <1>1 DEF Core
  <1>3. /\ at # "ended" /\ Kind(w) # "reply" /\ answer[w] = "none"
        /\ UNCHANGED <<load, windows, live, saving, queue, flight, pty, typing, start, at, late, typed>>
    BY DEF Offer, fixed
  <1>4. \A u \in Writes : Stream(u, w) /\ u < w => answer[u] # "none"
    <2>1. \A u \in 1 .. (w - 1) : By(u) = By(w) => answer[u] # "none"
      BY DEF Offer
    <2>2. \A u \in Writes : u < w => u \in 1 .. (w - 1)
      <3>1. \A u \in Writes : u \in Nat \ {0}
        BY <1>2, LoadRight
      <3> QED BY <3>1
    <2> QED BY <2>1, <2>2 DEF Stream
  <1>5. /\ Core(queue, mail', saving, start, answer', pty, flight, free') /\ Steady(answer, answer')
        /\ \A e \in Posted(mail') : e \in Posted(mail) \/ answer[e] = "none"
    <2>1. CASE Len(mail[Door(w)]) = Mailbox \/ (Admitted(w) /\ free < Size(w))
      <3>1. answer' = [answer EXCEPT ![w] = "busy"] /\ mail' = mail /\ free' = free
        BY <2>1 DEF Offer
      <3>2. /\ answer'[w] = "busy" /\ (\A x \in Writes : x # w => answer'[x] = answer[x])
            /\ answer' \in [Writes -> Answers]
        BY <1>2, <3>1 DEF Answers, Unheard
      <3>3. Fresh(pty, w)
        BY <1>2, <1>3, NoneBehind
      <3>4. Hears(answer, answer', pty)
        BY <1>3, <1>4, <3>2, <3>3 DEF Hears
      <3>5. \A x \in Queued(queue) \cup Aside(mail, saving, start) : answer'[x] \in Waiting
        <4>1. \A x \in Queued(queue) \cup Aside(mail, saving, start) : x \in Writes /\ answer[x] \in Waiting
          BY <1>1, CoreWaits
        <4>2. answer[w] \notin Waiting
          BY <1>3 DEF Waiting
        <4> QED BY <3>2, <4>1, <4>2
      <3> QED BY <1>1, <3>1, <3>4, <3>5, CoreHears
    <2>2. CASE ~(Len(mail[Door(w)]) = Mailbox \/ (Admitted(w) /\ free < Size(w)))
      <3> DEFINE what == IF Kind(w) = "start" THEN "queued" ELSE "waits"
      <3>1. /\ answer' = [answer EXCEPT ![w] = what]
            /\ mail' = [mail EXCEPT ![Door(w)] = Append(@, w)]
            /\ free' = IF Admitted(w) THEN free - Size(w) ELSE free
        BY <2>2 DEF Offer
      <3>2. what \in Waiting
        BY DEF Waiting
      <3> HIDE DEF what
      <3>3. Size(w) \in Nat
        BY <1>2, LoadRight
      <3>4. Admitted(w) => free >= Size(w)
        BY <1>2, <2>2, <3>3
      <3>5. free' = free - Held(w)
        BY <1>2, <3>1 DEF Held
      <3>6. /\ Core(queue, mail', saving, start, answer', pty, flight, free - Held(w))
            /\ Steady(answer, answer') /\ Posted(mail') = Posted(mail) \cup {w}
        <4>1. Mailed(mail', mail, w) /\ Replied(answer', answer, w, what)
          BY <3>1 DEF Mailed, Replied
        <4>2. Due(w, answer) /\ Fits(w, free)
          BY <1>3, <1>4, <3>4 DEF Due, Fits
        <4> QED BY <1>1, <1>3, <3>2, <4>1, <4>2, CoreOffers
      <3> QED BY <1>3, <3>5, <3>6
    <2> QED BY <2>1, <2>2
  <1>6. TypedRight(typed, typing, queue, mail', answer', pty, flight)
    <2>1. typed \in SUBSET Writes /\ typing \in BOOLEAN
      BY <1>1 DEF Types
    <2> QED BY <1>1, <1>2, <1>5, <2>1, TypedKeeps
  <1>7. FlightRight(flight, queue, at, answer', pty)
    <2>1. flight.w # 0 => Len(queue) > 0
      BY <1>1, <1>3 DEF FlightRight
    <2> QED BY <1>1, <1>3, <2>1, FlightKeeps
  <1>8. Types'
    <2>1. live' \subseteq Views
      BY <1>1, <1>3 DEF Types
    <2>2. typing' \in BOOLEAN
      BY <1>1, <1>3, Zenon DEF Types
    <2> QED BY <1>1, <1>3, <2>1, <2>2, CallerTypes
  <1>9. EndRight(at', queue', mail', saving', start')
    BY <1>3 DEF EndRight
  <1>10. IInvNext
    BY <1>1, <1>3, <1>5, <1>6, <1>7, <1>8, <1>9 DEF IInvNext
  <1> QED BY <1>3, <1>10, Frame

LEMMA GiveUpKeeps ==
  ASSUME IInv, NEW w \in Writes, GiveUp(w)
  PROVE  IInv'
  <1>1. /\ Core(queue, mail, saving, start, answer, pty, flight, free)
        /\ FlightRight(flight, queue, at, answer, pty) /\ LateRight(late, live, at, flight, queue)
        /\ TypedRight(typed, typing, queue, mail, answer, pty, flight) /\ PtyRight(pty)
        /\ Types /\ EndRight(at, queue, mail, saving, start)
    BY DEF IInv
  <1>2. load \in Loads /\ answer \in [Writes -> Answers]
    BY <1>1 DEF Core
  <1>3. /\ answer[w] = "waits" /\ answer' = [answer EXCEPT ![w] = "timeout"]
        /\ UNCHANGED <<load, windows, live, free, mail, saving, queue, flight, pty, typing, start, at, late, typed>>
    BY DEF GiveUp, fixed
  <1>4. /\ answer'[w] = "timeout" /\ (\A x \in Writes : x # w => answer'[x] = answer[x])
        /\ answer' \in [Writes -> Answers]
    BY <1>2, <1>3 DEF Answers, Waiting
  <1>5. Hears(answer, answer', pty)
    BY <1>3, <1>4 DEF Hears, Waiting, Unheard
  <1>6. \A x \in Queued(queue) \cup Aside(mail, saving, start) : answer'[x] \in Waiting
    <2>1. \A x \in Queued(queue) \cup Aside(mail, saving, start) : x \in Writes /\ answer[x] \in Waiting
      BY <1>1, CoreWaits
    <2> QED BY <1>4, <2>1 DEF Waiting
  <1>7. Core(queue, mail, saving, start, answer', pty, flight, free) /\ Steady(answer, answer')
    BY <1>1, <1>5, <1>6, CoreHears
  <1>8. TypedRight(typed, typing, queue, mail, answer', pty, flight)
    <2>1. typed \in SUBSET Writes /\ typing \in BOOLEAN
      BY <1>1 DEF Types
    <2> QED BY <1>1, <1>2, <1>7, <2>1, TypedKeeps
  <1>9. FlightRight(flight, queue, at, answer', pty)
    BY <1>1, <1>4 DEF FlightRight
  <1>10. Types'
    <2>1. live' \subseteq Views
      BY <1>1, <1>3 DEF Types
    <2>2. typing' \in BOOLEAN
      BY <1>1, <1>3, Zenon DEF Types
    <2> QED BY <1>1, <1>3, <2>1, <2>2, CallerTypes
  <1>11. IInvNext
    BY <1>1, <1>3, <1>7, <1>8, <1>9, <1>10 DEF IInvNext
  <1> QED BY <1>3, <1>11, Frame

LEMMA CancelKeeps ==
  ASSUME IInv, NEW v \in Views, Cancel(v)
  PROVE  IInv'
  <1>1. /\ live' = live \ {v}
        /\ UNCHANGED <<load, windows, free, mail, saving, queue, flight, pty, typing, start, answer, at, late, typed>>
    BY DEF Cancel, fixed
  <1>2. LateRight(late, live', at, flight, queue)
    BY <1>1 DEF IInv, LateRight
  <1>4. Types'
    <2>1. Types
      BY DEF IInv
    <2>2. live' \subseteq Views
      BY <1>1, <2>1 DEF Types
    <2>3. typing' \in BOOLEAN
      BY <1>1, <2>1, Zenon DEF Types
    <2> QED BY <1>1, <2>1, <2>2, <2>3, CallerTypes
  <1>5. /\ Core(queue', mail', saving', start', answer', pty', flight', free')
        /\ FlightRight(flight', queue', at', answer', pty')
        /\ EndRight(at', queue', mail', saving', start')
    BY <1>1 DEF IInv
  <1>3. IInvNext
    BY <1>1, <1>2, <1>4, <1>5 DEF IInv, IInvNext
  <1> QED BY <1>1, <1>3, Frame

LEMMA TypingEndsKeeps ==
  ASSUME IInv, TypingEnds
  PROVE  IInv'
  <1>1. /\ typing' = FALSE /\ \A e \in typed : Pause(e) => Kind(e) = "remote message"
        /\ UNCHANGED <<load, windows, live, free, mail, saving, queue, flight, pty, start, answer, at, late, typed>>
    BY DEF TypingEnds, fixed
  <1>2. typed \subseteq Writes /\ mail \in [Doors -> Seq(Writes)]
    BY DEF IInv, Types, Core
  <1>3. \A e \in typed : Pausing(e, answer, mail) => Kind(e) = "remote message"
    BY <1>1, <1>2, PauseIs
  <1>4. TypedRight(typed, FALSE, queue, mail, answer, pty, flight)
    BY <1>3 DEF IInv, TypedRight, Pausing
  <1>5. typing' \in BOOLEAN
    BY <1>1, Zenon
  <1>6. Types'
    <2>1. Types
      BY DEF IInv
    <2>2. live' \subseteq Views
      BY <1>1, <2>1 DEF Types
    <2> QED BY <1>1, <1>5, <2>1, <2>2, CallerTypes
  <1>7. TypedRight(typed', typing', queue', mail', answer', pty', flight')
    BY <1>1, <1>4
  <1>8. IInvNext
    BY <1>1, <1>6, <1>7 DEF IInv, IInvNext
  <1> QED BY <1>1, <1>8, Frame

-----------------------------------------------------------------------------
(* The steps of the actor: a write comes out of its mailbox, and has an outcome *)

\* w is out of its place, with what it held of the budget.
Moved(w) ==
  /\ Core(queue, mail', saving', start', answer, pty, flight, free + Held(w))
  /\ Loose(w, queue, mail', saving', start', answer, pty)
  /\ Posted(mail') \subseteq Posted(mail)

\* All that an arm leaves behind.
Outcome ==
  /\ Core(queue', mail', saving', start', answer', pty, flight, free')
  /\ TypedRight(typed', typing', queue', mail', answer', pty, flight)
  /\ typing' \in BOOLEAN /\ typed' \subseteq Writes
  /\ flight.w # 0 => Len(queue') > 0 /\ (Len(queue) > 0 => queue'[1] = queue[1])

LEMMA ArmKeeps ==
  ASSUME IInv, Arm, Outcome, UNCHANGED <<load, windows, live, flight, pty, late>>
  PROVE  IInv'
  <1>1. /\ FlightRight(flight, queue, at, answer, pty) /\ LateRight(late, live, at, flight, queue)
        /\ PtyRight(pty) /\ Types
    BY DEF IInv
  <1>2. at # "ended" /\ at' = "top" /\ at' # "ended"
    BY DEF Arm
  <1>3. Types'
    <2>1. flight' \in [w : Nat, n : Nat, done : BOOLEAN]
      <3>1. flight \in [w : Nat, n : Nat, done : BOOLEAN] /\ flight' = flight
        BY <1>1 DEF Types
      <3> QED BY ONLY <3>1, Zenon
    <2>2. live' \subseteq Views /\ late' \in [Views -> Nat] /\ at' \in {"top", "select", "ended"}
      BY <1>1, <1>2 DEF Types
    <2>3. typing' \in BOOLEAN /\ typed' \subseteq Writes
      BY DEF Outcome
    <2>4. load' = load /\ windows' = windows
      OBVIOUS
    <2> QED BY <1>1, <2>1, <2>2, <2>3, <2>4, TypesKeep
  <1>4. FlightRight(flight, queue', at', answer', pty)
    BY <1>1, <1>2, FlightKeeps DEF Outcome
  <1>5. EndRight(at', queue', mail', saving', start')
    BY <1>2 DEF EndRight
  <1>6. LateRight(late', live', at', flight', queue')
    <2>1. late' = late /\ live' = live
      OBVIOUS
    <2> QED BY <1>1, <1>2, <2>1 DEF LateRight
  <1>7. IInvNext
    BY <1>1, <1>3, <1>4, <1>5, <1>6 DEF IInvNext, Outcome
  <1>8. load' = load /\ windows' = windows
    OBVIOUS
  <1> QED BY <1>7, <1>8, Frame

\* What the invariant says before an arm.
Before ==
  /\ Core(queue, mail, saving, start, answer, pty, flight, free)
  /\ FlightRight(flight, queue, "select", answer, pty)
  /\ TypedRight(typed, typing, queue, mail, answer, pty, flight)
  /\ typing \in BOOLEAN /\ typed \in SUBSET Writes
  /\ load \in Loads /\ queue \in Seq(Item) /\ mail \in [Doors -> Seq(Writes)] /\ saving \subseteq Writes
  /\ start \in Writes \cup {0} /\ answer \in [Writes -> Answers] /\ pty \in Seq(Writes \X Nat) /\ free \in Nat
  /\ flight.w # 0 => Len(queue) > 0

LEMMA BeforeArm ==
  ASSUME IInv, at = "select"
  PROVE  Before
  <1>1. flight.w # 0 => Len(queue) > 0
    BY DEF IInv, FlightRight
  <1>2. typing \in BOOLEAN
    BY Zenon DEF IInv, Types
  <1> QED BY <1>1, <1>2 DEF Before, IInv, Types, Core

LEMMA FrontJoined ==
  ASSUME NEW q, NEW v, NEW w, Joined(v, q, w)
  PROVE  Len(v) > 0 /\ (Len(q) > 0 => v[1] = q[1])
  <1>1. Len(q) \in Nat /\ Len(v) = Len(q) + 1 /\ \A i \in 1 .. Len(q) : v[i] = q[i]
    BY DEF Joined
  <1>2. Len(q) > 0 => 1 \in 1 .. Len(q)
    BY <1>1
  <1> QED BY <1>1, <1>2

\* Nothing new in the queue, and nobody typed.
LEMMA OutcomeQuiet ==
  ASSUME Before, Core(queue', mail', saving', start', answer', pty, flight, free'),
         Steady(answer, answer'), Posted(mail') \subseteq Posted(mail),
         UNCHANGED <<queue, typing, typed>>
  PROVE  Outcome
  <1>1. TypedRight(typed, typing, queue, mail', answer', pty, flight)
    BY TypedKeeps DEF Before
  <1>2. typing' \in BOOLEAN
    BY Zenon DEF Before
  <1>3. typed' \subseteq Writes /\ (flight.w # 0 => Len(queue') > 0)
    BY DEF Before
  <1> QED BY <1>1, <1>2, <1>3 DEF Outcome

\* One more write in the queue, that is no Enter in whose pause a person typed.
LEMMA OutcomeJoins ==
  ASSUME Before, Core(queue', mail', saving', start', answer', pty, flight, free'),
         Steady(answer, answer'), Posted(mail') \subseteq Posted(mail),
         NEW w, Joined(queue', queue, w),
         \/ (Kind(w) # "message" \/ w \notin typed) /\ UNCHANGED <<typing, typed>>
         \/ Kind(w) # "message" /\ PersonTypes
  PROVE  Outcome
  <1>1. Len(queue') > 0 /\ (Len(queue) > 0 => queue'[1] = queue[1])
    BY FrontJoined
  <1>2. Queued(queue') = Queued(queue) \cup {w}
    BY DEF Joined
  <1>3. CASE (Kind(w) # "message" \/ w \notin typed) /\ UNCHANGED <<typing, typed>>
    <2>1. \A e \in Queued(queue') : e \in Queued(queue) \/ Kind(e) # "message" \/ e \notin typed
      BY <1>2, <1>3
    <2>2. TypedRight(typed, typing, queue', mail', answer', pty, flight)
      BY <2>1, TypedKeeps DEF Before
    <2>3. typing' \in BOOLEAN
      BY <1>3, Zenon DEF Before
    <2>4. typed' \subseteq Writes
      BY <1>3 DEF Before
    <2> QED BY <1>1, <1>3, <2>2, <2>3, <2>4 DEF Outcome
  <1>4. CASE Kind(w) # "message" /\ PersonTypes
    <2>1. typing' = TRUE /\ typed' = typed \cup {e \in Writes : Pause(e)}
      BY <1>4 DEF PersonTypes
    <2>2. \A e \in Writes : Pause(e) <=> Pausing(e, answer, mail)
      BY PauseIs DEF Before
    <2>3. typed' = typed \cup {e \in Writes : Pausing(e, answer, mail)}
      BY <2>1, <2>2
    <2>4. \A e \in Queued(queue') : e \in Queued(queue) \/ Kind(e) # "message"
      BY <1>2, <1>4
    <2>5. TypedRight(typed', TRUE, queue', mail', answer', pty, flight)
      <3>1. "select" # "ended"
        OBVIOUS
      <3> QED BY <2>3, <2>4, <3>1, TypedGrows DEF Before
    <2>6. typing' \in BOOLEAN
      BY <2>1, Zenon
    <2>7. typed' \subseteq Writes
      BY <2>3 DEF Before
    <2>8. TypedRight(typed', typing', queue', mail', answer', pty, flight)
      BY <2>1, <2>5
    <2> QED BY <1>1, <2>6, <2>7, <2>8 DEF Outcome
  <1> QED BY <1>3, <1>4

LEMMA MovedRefused ==
  ASSUME Before, NEW w, Moved(w), NEW what \in {"busy", "stale", "refused"}, Refused(w, what)
  PROVE  Outcome
  <1>1. /\ answer' = Tell(answer, {w}, what)
        /\ free' = IF Admitted(w) THEN free + Size(w) ELSE free
        /\ UNCHANGED <<queue, typing, typed>>
    BY DEF Refused
  <1>2. free' = free + Held(w)
    BY <1>1 DEF Held, Before
  <1>3. Core(queue, mail', saving', start', answer', pty, flight, free + Held(w)) /\ Steady(answer, answer')
    BY <1>1, CoreRefuses DEF Moved
  <1> QED BY <1>1, <1>2, <1>3, OutcomeQuiet DEF Moved

LEMMA MovedAccepted ==
  ASSUME Before, NEW w, Moved(w), queue' = Append(queue, Pending(w)), answer' = answer,
         free' = (free + Held(w)) - Size(w), free + Held(w) >= Size(w),
         \/ (Kind(w) # "message" \/ w \notin typed) /\ UNCHANGED <<typing, typed>>
         \/ Kind(w) # "message" /\ PersonTypes
  PROVE  Outcome
  <1>1. /\ Joined(queue', queue, w)
        /\ Core(queue', mail', saving', start', answer, pty, flight, free')
    BY CoreAppends DEF Moved
  <1>2. Steady(answer, answer')
    BY DEF Steady
  <1> QED BY <1>1, <1>2, OutcomeJoins DEF Moved

LEMMA TakenMoves ==
  ASSUME Before, NEW d \in Doors, mail[d] # <<>>, NEW w, w = Head(mail[d]),
         Took(mail', mail, d), saving' = saving, start' = start
  PROVE  Moved(w) /\ w \in Writes /\ Door(w) = d /\ Kind(w) # "reply" /\ w \in Posted(mail)
  <1>1. /\ Core(queue, mail', saving, start, answer, pty, flight, free + Held(w))
        /\ Loose(w, queue, mail', saving, start, answer, pty)
        /\ Door(w) = d /\ Kind(w) # "reply" /\ w \in Posted(mail) /\ Posted(mail') \subseteq Posted(mail)
    BY CoreTakes DEF Before
  <1>2. w \in Writes
    BY <1>1 DEF Loose
  <1> QED BY <1>1, <1>2 DEF Moved

\* Only Enter in whose pause nobody typed enters the queue.
LEMMA UntypedMessage ==
  ASSUME Before, NEW w \in Posted(mail), ~typing
  PROVE  Kind(w) # "message" \/ w \notin typed
  <1>1. w \in typed /\ Kind(w) = "message" => typing
    BY DEF Before, TypedRight
  <1> QED BY <1>1

LEMMA MovedEnqueues ==
  ASSUME Before, NEW w, Moved(w), w \in Writes, ~Admitted(w), Kind(w) # "message", Enqueue(w),
         UNCHANGED <<typing, typed>>
  PROVE  Outcome
  <1>1. Held(w) = 0 /\ free \in Nat
    BY DEF Held, Before
  <1>2. /\ Core(queue, mail', saving', start', answer, pty, flight, free)
        /\ Loose(w, queue, mail', saving', start', answer, pty) /\ Posted(mail') \subseteq Posted(mail)
    BY <1>1 DEF Moved
  <1>3. CASE free < Size(w)
    <2>1. answer' = [answer EXCEPT ![w] = IF @ = "timeout" THEN @ ELSE "busy"] /\ queue' = queue /\ free' = free
      BY <1>3 DEF Enqueue
    <2>2. Steady(answer, answer') /\ Core(queue, mail', saving', start', answer', pty, flight, free)
      BY <1>2, <2>1, CoreEnqueues
    <2> QED BY <1>2, <2>1, <2>2, OutcomeQuiet
  <1>4. CASE ~(free < Size(w))
    <2>1. /\ answer' = [answer EXCEPT ![w] = IF @ = "timeout" THEN @ ELSE "queued"]
          /\ queue' = Append(queue, Pending(w)) /\ free' = free - Size(w)
      BY <1>4 DEF Enqueue
    <2>2. free >= Size(w)
      <3>1. Size(w) \in Nat
        BY LoadRight DEF Before
      <3> QED BY <1>1, <1>4, <3>1
    <2>3. Steady(answer, answer') /\ Joined(Append(queue, Pending(w)), queue, w)
          /\ Core(Append(queue, Pending(w)), mail', saving', start', answer', pty, flight, free - Size(w))
      BY <1>2, <2>1, <2>2, CoreEnqueues
    <2> QED BY <1>2, <2>1, <2>3, OutcomeJoins
  <1> QED BY <1>3, <1>4

LEMMA CommandArmKeeps ==
  ASSUME IInv, CommandArm
  PROVE  IInv'
  <1> DEFINE w == Head(mail["commands"])
  <1>1. /\ Arm /\ mail["commands"] # <<>>
        /\ Took(mail', mail, "commands")
        /\ saving' = IF Kind(w) = "picture" THEN saving \cup {w} ELSE saving
        /\ start' = IF Kind(w) = "start" THEN w ELSE start
        /\ Kind(w) = "input" => AcceptInput(w)
        /\ Kind(w) \in {"command", "message"} => AcceptCommandInput(w)
        /\ Kind(w) = "run" => Run(w)
        /\ Kind(w) \in {"picture", "start"} => UNCHANGED <<queue, free, answer, typing, typed>>
        /\ UNCHANGED <<load, windows, live, flight, pty, late>>
    BY DEF CommandArm, fixed, Took
  <1>2. Before
    BY <1>1, BeforeArm DEF Arm
  <1>3. w = Head(mail["commands"]) /\ "commands" \in Doors
    BY DEF Doors
  <1> HIDE DEF w
  <1>4. /\ Core(queue, mail', saving, start, answer, pty, flight, free + Held(w))
        /\ Loose(w, queue, mail', saving, start, answer, pty)
        /\ Door(w) = "commands" /\ Kind(w) # "reply" /\ w \in Posted(mail) /\ Posted(mail') \subseteq Posted(mail)
    BY <1>1, <1>2, <1>3, CoreTakes DEF Before
  <1>5. w \in Writes /\ Size(w) \in Nat /\ free \in Nat
    BY <1>2, <1>4, LoadRight DEF Loose, Before
  <1>6. Kind(w) \in {"input", "picture", "command", "message", "run", "start"}
    <2>1. Kind(w) \in Kinds /\ Kind(w) \notin Remote
      BY <1>2, <1>4, <1>5, LoadRight DEF Before, Door
    <2> QED BY <1>4, <2>1 DEF Kinds, Local, Command
  <1>7. Kind(w) \notin {"picture", "start"} => Moved(w)
    BY <1>1, <1>4 DEF Moved
  <1>8. Outcome
    <2>1. CASE Kind(w) = "input"
      <3>1. Moved(w) /\ Held(w) = Size(w)
        BY <1>7, <2>1 DEF Held, Admitted
      <3>2. CASE By(w) \notin live
        <4>1. Refused(w, "stale")
          BY <1>1, <2>1, <3>2 DEF AcceptInput
        <4> QED BY <1>2, <3>1, <4>1, MovedRefused
      <3>3. CASE By(w) \in live
        <4>1. queue' = Append(queue, Pending(w)) /\ answer' = answer /\ free' = free /\ PersonTypes
          BY <1>1, <2>1, <3>3 DEF AcceptInput, Accepted
        <4>2. free' = (free + Held(w)) - Size(w) /\ free + Held(w) >= Size(w)
          BY <1>5, <3>1, <4>1
        <4> QED BY <1>2, <2>1, <3>1, <4>1, <4>2, MovedAccepted
      <3> QED BY <3>2, <3>3
    <2>2. CASE Kind(w) \in {"command", "message"}
      <3>1. Moved(w) /\ Held(w) = Size(w)
        BY <1>7, <2>2 DEF Held, Admitted
      <3>2. \/ Refused(w, "refused")
            \/ ~typing /\ Accepted(w) /\ UNCHANGED <<typing, typed>>
        BY <1>1, <2>2 DEF AcceptCommandInput, Takes
      <3>3. CASE Refused(w, "refused")
        BY <1>2, <3>1, <3>3, MovedRefused
      <3>4. CASE ~typing /\ Accepted(w) /\ UNCHANGED <<typing, typed>>
        <4>1. queue' = Append(queue, Pending(w)) /\ answer' = answer /\ free' = free
          BY <3>4 DEF Accepted
        <4>2. free' = (free + Held(w)) - Size(w) /\ free + Held(w) >= Size(w)
          BY <1>5, <3>1, <4>1
        <4>3. Kind(w) # "message" \/ w \notin typed
          BY <1>2, <1>4, <3>4, UntypedMessage
        <4> QED BY <1>2, <3>1, <3>4, <4>1, <4>2, <4>3, MovedAccepted
      <3> QED BY <3>2, <3>3, <3>4
    <2>3. CASE Kind(w) = "run"
      <3>1. Moved(w) /\ ~Admitted(w) /\ Kind(w) # "message"
        BY <1>7, <2>3 DEF Admitted
      <3>2. Refused(w, "refused") \/ (Enqueue(w) /\ UNCHANGED <<typing, typed>>)
        BY <1>1, <2>3 DEF Run
      <3>3. CASE Refused(w, "refused")
        BY <1>2, <3>1, <3>3, MovedRefused
      <3>4. CASE Enqueue(w) /\ UNCHANGED <<typing, typed>>
        BY <1>2, <1>5, <3>1, <3>4, MovedEnqueues
      <3> QED BY <3>2, <3>3, <3>4
    <2>4. CASE Kind(w) \in {"picture", "start"}
      <3>1. UNCHANGED <<queue, free, answer, typing, typed>> /\ Held(w) = 0
        BY <1>1, <2>4 DEF Held, Admitted
      <3>2. Core(queue, mail', saving, start, answer, pty, flight, free)
        BY <1>4, <1>5, <3>1
      <3>3. Core(queue, mail', saving', start', answer, pty, flight, free)
        <4>1. CASE Kind(w) = "picture"
          <5>1. saving' = saving \cup {w} /\ start' = start
            BY <1>1, <4>1
          <5> QED BY <1>4, <3>2, <4>1, <5>1, CoreSaves
        <4>2. CASE Kind(w) = "start"
          <5>1. saving' = saving /\ start' = w
            BY <1>1, <4>2
          <5>2. Core(queue, mail', saving, 0, answer, pty, flight, free)
            BY <3>2, CoreUnstarts
          <5>3. Loose(w, queue, mail', saving, 0, answer, pty)
            BY <1>4 DEF Loose, Leads, Aside
          <5> QED BY <4>2, <5>1, <5>2, <5>3, CoreStarts
        <4> QED BY <2>4, <4>1, <4>2
      <3>4. Steady(answer, answer')
        BY <3>1 DEF Steady
      <3> QED BY <1>2, <1>4, <3>1, <3>3, <3>4, OutcomeQuiet
    <2> QED BY <1>6, <2>1, <2>2, <2>3, <2>4
  <1>9. UNCHANGED <<load, windows, live, flight, pty, late>>
    BY <1>1
  <1> QED BY <1>1, <1>8, <1>9, ArmKeeps

\* The host and the pictures take their part of the budget only now.
LEMMA MovedTakes ==
  ASSUME Before, NEW w, Moved(w), w \in Writes, ~Admitted(w), ~(free < Size(w)),
         queue' = Append(queue, Pending(w)), answer' = answer, free' = free - Size(w),
         \/ (Kind(w) # "message" \/ w \notin typed) /\ UNCHANGED <<typing, typed>>
         \/ Kind(w) # "message" /\ PersonTypes
  PROVE  Outcome
  <1>1. Held(w) = 0 /\ free \in Nat /\ Size(w) \in Nat
    BY LoadRight DEF Held, Before
  <1>2. free' = (free + Held(w)) - Size(w) /\ free + Held(w) >= Size(w)
    BY <1>1
  <1> QED BY <1>2, MovedAccepted

LEMMA MovedPasted ==
  ASSUME Before, NEW w, Moved(w), w \in Writes, ~Admitted(w), Kind(w) # "message", PasteSaved(w)
  PROVE  Outcome
  <1>1. CASE By(w) \notin live /\ Kind(w) = "remote picture"
    <2>1. Refused(w, "stale")
      BY <1>1 DEF PasteSaved
    <2> QED BY <2>1, MovedRefused
  <1>2. CASE ~(By(w) \notin live /\ Kind(w) = "remote picture") /\ free < Size(w)
    <2>1. Refused(w, "busy")
      BY <1>2 DEF PasteSaved
    <2> QED BY <2>1, MovedRefused
  <1>3. CASE ~(By(w) \notin live /\ Kind(w) = "remote picture") /\ ~(free < Size(w))
    <2>1. queue' = Append(queue, Pending(w)) /\ answer' = answer /\ free' = free - Size(w) /\ PersonTypes
      BY <1>3 DEF PasteSaved
    <2> QED BY <1>3, <2>1, MovedTakes
  <1> QED BY <1>1, <1>2, <1>3

LEMMA HostArmKeeps ==
  ASSUME IInv, HostArm
  PROVE  IInv'
  <1> DEFINE w == Head(mail["host"])
  <1>1. /\ Arm /\ mail["host"] # <<>> /\ Took(mail', mail, "host")
        /\ \/ /\ Kind(w) = "remote picture"
              /\ saving' = saving \cup {w} /\ UNCHANGED <<queue, free, answer, typing, typed>>
           \/ /\ Kind(w) = "remote picture"
              /\ PasteSaved(w) /\ UNCHANGED saving
           \/ /\ Kind(w) # "remote picture"
              /\ UNCHANGED saving
              /\ IF By(w) \notin live \/ answer[w] = "timeout" THEN Refused(w, "stale")
                 ELSE IF free < Size(w) THEN Refused(w, "busy")
                 ELSE \E takes \in IF Kind(w) = "remote message" THEN Takes(w) ELSE {TRUE} :
                        IF ~takes THEN Refused(w, "refused")
                        ELSE /\ queue' = Append(queue, Pending(w))
                             /\ free' = free - Size(w)
                             /\ IF Kind(w) = "remote input" THEN PersonTypes ELSE UNCHANGED <<typing, typed>>
                             /\ UNCHANGED answer
        /\ UNCHANGED <<load, windows, live, flight, pty, late>> /\ start' = start
    BY DEF HostArm, fixed, Took
  <1>2. Before
    BY <1>1, BeforeArm DEF Arm
  <1>3. w = Head(mail["host"]) /\ "host" \in Doors
    BY DEF Doors
  <1> HIDE DEF w
  <1>4. /\ Core(queue, mail', saving, start, answer, pty, flight, free + Held(w))
        /\ Loose(w, queue, mail', saving, start, answer, pty)
        /\ Door(w) = "host" /\ Kind(w) # "reply" /\ w \in Posted(mail) /\ Posted(mail') \subseteq Posted(mail)
    <2>1. mail["host"] # <<>> /\ Took(mail', mail, "host")
      BY <1>1
    <2>2. Core(queue, mail, saving, start, answer, pty, flight, free)
      BY <1>2 DEF Before
    <2> QED BY ONLY <1>3, <2>1, <2>2, CoreTakes
  <1>5. w \in Writes /\ Size(w) \in Nat /\ free \in Nat
    BY <1>2, <1>4, LoadRight DEF Loose, Before
  <1>6. Kind(w) \in Remote /\ ~Admitted(w) /\ Kind(w) # "message"
    BY <1>4 DEF Door, Remote, Admitted
  <1>7. saving' = saving => Moved(w)
    BY <1>1, <1>4 DEF Moved
  <1>8. Outcome
    <2>1. CASE Kind(w) = "remote picture" /\ saving' = saving \cup {w} /\ UNCHANGED <<queue, free, answer, typing, typed>>
      <3>1. Held(w) = 0 /\ Core(queue, mail', saving, start, answer, pty, flight, free)
        BY <1>4, <1>5, <1>6 DEF Held
      <3>2. Core(queue, mail', saving', start, answer, pty, flight, free)
        BY <1>4, <2>1, <3>1, CoreSaves
      <3>3. Core(queue', mail', saving', start', answer', pty, flight, free')
        BY <1>1, <2>1, <3>2
      <3>4. Steady(answer, answer')
        BY <2>1 DEF Steady
      <3> QED BY <1>2, <1>4, <2>1, <3>3, <3>4, OutcomeQuiet
    <2>2. CASE PasteSaved(w) /\ UNCHANGED saving
      BY <1>2, <1>5, <1>6, <1>7, <2>2, MovedPasted
    <2>3. ASSUME Moved(w), NEW what \in {"busy", "stale", "refused"}, Refused(w, what) PROVE Outcome
      BY <1>2, <2>3, MovedRefused
    <2>4. CASE /\ saving' = saving /\ ~(free < Size(w))
               /\ queue' = Append(queue, Pending(w)) /\ free' = free - Size(w)
               /\ IF Kind(w) = "remote input" THEN PersonTypes ELSE UNCHANGED <<typing, typed>>
               /\ UNCHANGED answer
      BY <1>2, <1>5, <1>6, <1>7, <2>4, MovedTakes
    <2>5. CASE saving' = saving /\ \E what \in {"busy", "stale", "refused"} : Refused(w, what)
      BY <1>7, <2>3, <2>5
    <2>6. \/ Kind(w) = "remote picture" /\ saving' = saving \cup {w} /\ UNCHANGED <<queue, free, answer, typing, typed>>
          \/ PasteSaved(w) /\ UNCHANGED saving
          \/ saving' = saving /\ \E what \in {"busy", "stale", "refused"} : Refused(w, what)
          \/ /\ saving' = saving /\ ~(free < Size(w))
             /\ queue' = Append(queue, Pending(w)) /\ free' = free - Size(w)
             /\ IF Kind(w) = "remote input" THEN PersonTypes ELSE UNCHANGED <<typing, typed>>
             /\ UNCHANGED answer
      <3>1. "busy" \in {"busy", "stale", "refused"} /\ "stale" \in {"busy", "stale", "refused"}
            /\ "refused" \in {"busy", "stale", "refused"}
        OBVIOUS
      <3> QED BY <1>1, <3>1, Zenon
    <2> QED BY <2>1, <2>2, <2>4, <2>5, <2>6
  <1>9. UNCHANGED <<load, windows, live, flight, pty, late>>
    BY <1>1
  <1> QED BY <1>1, <1>8, <1>9, ArmKeeps

LEMMA SavedArmKeeps ==
  ASSUME IInv, SavedArm
  PROVE  IInv'
  <1>1. PICK w \in saving : /\ Arm /\ saving' = saving \ {w} /\ PasteSaved(w)
                            /\ UNCHANGED <<load, windows, live, mail, flight, pty, start, late>>
    BY DEF SavedArm, fixed
  <1>2. Before
    BY <1>1, BeforeArm DEF Arm
  <1>3. /\ Core(queue, mail, saving \ {w}, start, answer, pty, flight, free)
        /\ Loose(w, queue, mail, saving \ {w}, start, answer, pty)
        /\ Kind(w) \in {"picture", "remote picture"}
    BY <1>2, CoreUnsaves DEF Before
  <1>4. w \in Writes /\ ~Admitted(w) /\ Kind(w) # "message"
    BY <1>3 DEF Loose, Admitted
  <1>5. free + Held(w) = free
    BY <1>2, <1>4 DEF Held, Before
  <1>6. Moved(w)
    BY <1>1, <1>3, <1>5 DEF Moved
  <1>7. Outcome
    BY <1>1, <1>2, <1>4, <1>6, MovedPasted
  <1>8. UNCHANGED <<load, windows, live, flight, pty, late>>
    BY <1>1
  <1> QED BY <1>1, <1>7, <1>8, ArmKeeps

\* A reply joins the queue behind all that is typed, whichever view typed it.
LEMMA TransferReadKeeps ==
  ASSUME IInv, TransferRead
  PROVE  IInv'
  <1>1. PICK w \in Writes : /\ Kind(w) = "reply" /\ answer[w] = "none" /\ Enqueue(w)
                            /\ Arm /\ UNCHANGED <<load, windows, live, mail, saving, flight, pty, typing, start, late, typed>>
    BY DEF TransferRead, fixed
  <1>2. Before
    BY <1>1, BeforeArm DEF Arm
  <1>3. Core(queue, mail', saving', start', answer, pty, flight, free) /\ Posted(mail') \subseteq Posted(mail)
    BY <1>1, <1>2 DEF Before
  <1>4. Outcome
    <2>1. CASE free < Size(w)
      <3>1. answer' = [answer EXCEPT ![w] = IF @ = "timeout" THEN @ ELSE "busy"] /\ queue' = queue /\ free' = free
        BY <1>1, <2>1 DEF Enqueue
      <3>2. Steady(answer, answer') /\ Core(queue, mail', saving', start', answer', pty, flight, free)
        BY <1>1, <1>3, <3>1, CoreEnqueues
      <3> QED BY <1>1, <1>2, <1>3, <3>1, <3>2, OutcomeQuiet
    <2>2. CASE ~(free < Size(w))
      <3>1. /\ answer' = [answer EXCEPT ![w] = IF @ = "timeout" THEN @ ELSE "queued"]
            /\ queue' = Append(queue, Pending(w)) /\ free' = free - Size(w)
        BY <1>1, <2>2 DEF Enqueue
      <3>2. free >= Size(w)
        <4>1. Size(w) \in Nat /\ free \in Nat
          BY <1>2, LoadRight DEF Before
        <4> QED BY <2>2, <4>1
      <3>3. Steady(answer, answer') /\ Joined(Append(queue, Pending(w)), queue, w)
            /\ Core(Append(queue, Pending(w)), mail', saving', start', answer', pty, flight, free - Size(w))
        BY <1>1, <1>3, <3>1, <3>2, CoreEnqueues
      <3> QED BY <1>1, <1>2, <1>3, <3>1, <3>3, OutcomeJoins
    <2> QED BY <2>1, <2>2
  <1>5. UNCHANGED <<load, windows, live, flight, pty, late>>
    BY <1>1
  <1> QED BY <1>1, <1>4, <1>5, ArmKeeps

-----------------------------------------------------------------------------
(* Writes that leave the queue are told so *)

LEMMA CoreTold ==
  ASSUME NEW q, NEW m, NEW s, NEW st, NEW ans, NEW p, NEW f, NEW fr, Core(q, m, s, st, ans, p, f, fr),
         NEW W, W \cap Queued(q) = {}, W \cap Aside(m, s, st) = {},
         NEW what, TrueOf(what, W, p), NEW ans2, ans2 = Tell(ans, W, what)
  PROVE  Core(q, m, s, st, ans2, p, f, fr) /\ Steady(ans, ans2)
  <1>1. ans \in [Writes -> Answers]
    BY DEF Core
  <1>2. Hears(ans, ans2, p) /\ Told(ans2, ans, W, what)
    BY <1>1, TellHears
  <1>3. ASSUME NEW w \in Queued(q) \cup Aside(m, s, st) PROVE ans2[w] \in Waiting
    <2>1. w \in Writes /\ ans[w] \in Waiting
      BY CoreWaits
    <2>2. w \notin W
      OBVIOUS
    <2>3. ans2[w] = ans[w]
      BY <1>2, <2>1, <2>2 DEF Told
    <2> QED BY <2>1, <2>3
  <1> QED BY <1>2, <1>3, CoreHears

LEMMA MaintainKeeps ==
  ASSUME IInv, Maintain
  PROVE  IInv'
  <1>1. PICK types \in BOOLEAN, waits \in BOOLEAN :
          LET q == IF types THEN Append(queue, Pending(start)) ELSE queue
              gone == Queued(q) \ Queued(DropCancelled(q))
          IN /\ Arm
             /\ types => start # 0 /\ free >= Size(start)
             /\ waits => start # 0 /\ ~types
             /\ start' = IF waits THEN start ELSE 0
             /\ queue' = DropCancelled(q)
             /\ free' = free + Cost(gone) - (IF types THEN Size(start) ELSE 0)
             /\ answer' = Tell(answer, gone, "interrupted")
             /\ UNCHANGED <<load, windows, live, mail, saving, flight, pty, typing, late, typed>>
    BY DEF Maintain, fixed
  <1> DEFINE q == IF types THEN Append(queue, Pending(start)) ELSE queue
             gone == Queued(q) \ Queued(DropCancelled(q))
             x == IF types THEN Size(start) ELSE 0
  <1>2. /\ Arm
        /\ types => start # 0 /\ free >= Size(start) /\ start' = 0
        /\ start' \in {start, 0}
        /\ queue' = DropCancelled(q) /\ free' = free + Cost(gone) - x
        /\ answer' = Tell(answer, gone, "interrupted")
        /\ UNCHANGED <<load, windows, live, mail, saving, flight, pty, typing, late, typed>>
    BY <1>1
  <1> /\ types => q = Append(queue, Pending(start)) /\ x = Size(start)
      /\ ~types => q = queue /\ x = 0
      /\ gone = Queued(q) \ Queued(DropCancelled(q))
    OBVIOUS
  <1> HIDE DEF q, gone, x
  <1>3. Before
    <2>1. at = "select"
      BY <1>2 DEF Arm
    <2> QED BY <2>1, BeforeArm
  <1>4. /\ Core(q, mail, saving, start', answer, pty, flight, free - x) /\ free - x \in Nat /\ x \in Nat
        /\ Queued(q) \subseteq Queued(queue) \cup ({start} \ {0})
        /\ flight.w # 0 => Len(q) > 0 /\ q[1] = queue[1]
    <2>1. CASE types
      <3>1. start # 0 /\ free >= Size(start) /\ start' = 0 /\ q = Append(queue, Pending(start)) /\ x = Size(start)
        BY <1>2, <2>1
      <3>2. Core(queue, mail, saving, 0, answer, pty, flight, free) /\ Loose(start, queue, mail, saving, 0, answer, pty)
        BY <1>3, <3>1, CoreUnstarts DEF Before
      <3>3. /\ Joined(Append(queue, Pending(start)), queue, start)
            /\ Core(Append(queue, Pending(start)), mail, saving, 0, answer, pty, flight, free - Size(start))
        BY <3>1, <3>2, CoreAppends
      <3>4. Size(start) \in Nat /\ free \in Nat
        BY <1>3, <3>2, LoadRight DEF Loose, Before
      <3>5. flight.w # 0 => Len(queue) > 0
        BY <1>3 DEF Before
      <3>6. Len(q) > 0 /\ (Len(queue) > 0 => q[1] = queue[1])
        BY <3>1, <3>3, FrontJoined
      <3>7. Queued(q) = Queued(queue) \cup {start}
        BY <3>1, <3>3 DEF Joined
      <3>8. free - x \in Nat /\ x \in Nat
        BY <3>1, <3>4
      <3>9. Core(q, mail, saving, start', answer, pty, flight, free - x)
        BY <3>1, <3>3
      <3> QED BY <3>1, <3>5, <3>6, <3>7, <3>8, <3>9
    <2>2. CASE ~types
      <3>1. q = queue /\ x = 0 /\ free \in Nat /\ free - x = free
        BY <1>3, <2>2 DEF Before
      <3>2. Core(queue, mail, saving, start', answer, pty, flight, free)
        BY <1>2, <1>3, CoreUnstarts DEF Before
      <3>3. flight.w # 0 => Len(queue) > 0
        BY <1>3 DEF Before
      <3> QED BY <3>1, <3>2, <3>3
    <2> QED BY <2>1, <2>2
  <1>5. start # 0 => Kind(start) # "message"
    <2>1. start # 0 => Kind(start) = "start"
      BY <1>3, CoreUnstarts DEF Before
    <2> QED BY <2>1
  <1>6. q \in Seq(Item) /\ load \in Loads /\ AsideRight(Aside(mail, saving, start'), q, answer, pty)
    BY <1>4 DEF Core
  <1>7. /\ queue' \in Seq(Item) /\ Within(queue', q, Len(q))
        /\ flight.w # 0 => Len(queue') > 0 /\ queue'[1] = q[1]
    BY <1>2, <1>4, <1>6, DropWithin DEF InFlight
  <1>8. /\ Core(queue', mail, saving, start', answer, pty, flight, (free - x) + Cost(Queued(q) \ Queued(queue')))
        /\ Queued(queue') \subseteq Queued(q)
    BY <1>4, <1>7, CoreLeaves
  <1>9. free' = (free - x) + Cost(gone) /\ gone = Queued(q) \ Queued(queue')
    <2>1. gone = Queued(q) \ Queued(queue')
      BY <1>2
    <2>2. Cost(gone) \in Nat
      <3>1. Queued(q) \subseteq Writes
        BY <1>6, QueuedIs
      <3>2. gone \subseteq Writes
        BY <2>1, <3>1
      <3> QED BY <1>6, <3>2, BytesFinite
    <2>3. free \in Nat /\ x \in Nat
      BY <1>3, <1>4 DEF Before
    <2> QED BY <1>2, <2>1, <2>2, <2>3
  <1>10. Core(queue', mail, saving, start', answer, pty, flight, free')
    BY <1>8, <1>9
  <1>11. Core(queue', mail, saving, start', answer', pty, flight, free') /\ Steady(answer, answer')
    <2>1. gone \cap Queued(queue') = {}
      BY <1>9
    <2>2. gone \cap Aside(mail, saving, start') = {}
      <3>1. \A w \in Aside(mail, saving, start') : w \notin Queued(q)
        BY <1>6, AsideApart
      <3> QED BY <1>9, <3>1
    <2>3. TrueOf("interrupted", gone, pty)
      BY DEF TrueOf, Answers, Unheard
    <2> QED BY <1>2, <1>10, <2>1, <2>2, <2>3, CoreTold
  <1>12. Outcome
    <2>1. mail' = mail /\ saving' = saving /\ typing' = typing /\ typed' = typed
      BY <1>2
    <2>2. \A e \in Queued(queue') : e \in Queued(queue) \/ Kind(e) # "message" \/ e \notin typed
      BY <1>4, <1>5, <1>8
    <2>3. TypedRight(typed, typing, queue', mail, answer', pty, flight)
      BY <1>3, <1>11, <2>2, TypedKeeps DEF Before
    <2>4. typing' \in BOOLEAN
      BY <1>3, <2>1, Zenon DEF Before
    <2>5. flight.w # 0 => Len(queue') > 0 /\ (Len(queue) > 0 => queue'[1] = queue[1])
      BY <1>4, <1>7
    <2>6. typed' \subseteq Writes
      BY <1>3, <2>1 DEF Before
    <2>7. Core(queue', mail', saving', start', answer', pty, flight, free')
      BY <1>11, <2>1
    <2> QED BY <2>1, <2>3, <2>4, <2>5, <2>6, <2>7 DEF Outcome
  <1>13. UNCHANGED <<load, windows, live, flight, pty, late>>
    BY <1>2
  <1>14. Arm
    BY <1>2
  <1> QED BY <1>12, <1>13, <1>14, ArmKeeps

-----------------------------------------------------------------------------
(* pending_input *)

LEMMA LeastNatural ==
  ASSUME NEW T, T \subseteq Nat, T # {}
  PROVE  Min(T) \in T /\ \A m \in T : Min(T) <= m
  <1>1. PICK n \in T : \A m \in T : ~(<<m, n>> \in OpToRel(<, Nat))
    BY NatLessThanWellFounded, WFMin
  <1>2. \A m \in T : ~(m < n)
    BY <1>1 DEF OpToRel
  <1>3. \E x \in T : \A y \in T : x <= y
    BY <1>2
  <1> QED BY <1>3 DEF Min

\* The writes in front go that are cancelled or whole, up to one that is kept.
Goes(q, n) ==
  /\ n \in 0 .. Len(q)
  /\ InFlight => n = 0
  /\ \A i \in 1 .. n : ~Kept(q[i])
  /\ ~InFlight /\ n < Len(q) => Kept(q[n + 1])

Leading(q) ==
  LET keep == {i \in DOMAIN q : Kept(q[i])}
  IN IF InFlight THEN 0 ELSE IF keep = {} THEN Len(q) ELSE Min(keep) - 1

LEMMA FrontGoes ==
  ASSUME NEW q \in Seq(Item)
  PROVE  Goes(q, Leading(q))
  <1> DEFINE keep == {i \in DOMAIN q : Kept(q[i])}
             n == Leading(q)
  <1>1. Len(q) \in Nat /\ DOMAIN q = 1 .. Len(q)
    OBVIOUS
  <1>2. n = IF InFlight THEN 0 ELSE IF keep = {} THEN Len(q) ELSE Min(keep) - 1
    BY DEF Leading
  <1>3. keep \subseteq 1 .. Len(q) /\ \A i \in 1 .. Len(q) : i \in keep <=> Kept(q[i])
    BY <1>1
  <1> SUFFICES Goes(q, n)
    BY DEF n
  <1> HIDE DEF keep, n
  <1>4. CASE InFlight
    BY <1>1, <1>2, <1>4 DEF Goes
  <1>5. CASE ~InFlight /\ keep = {}
    BY <1>1, <1>2, <1>3, <1>5 DEF Goes
  <1>6. CASE ~InFlight /\ keep # {}
    <2>1. keep \subseteq Nat
      BY <1>1, <1>3
    <2>2. Min(keep) \in keep /\ \A m \in keep : Min(keep) <= m
      BY <1>6, <2>1, LeastNatural
    <2>3. Min(keep) \in 1 .. Len(q) /\ Kept(q[Min(keep)]) /\ n = Min(keep) - 1
      BY <1>2, <1>3, <1>6, <2>2
    <2>4. n + 1 = Min(keep) /\ n \in 0 .. Len(q) /\ n + 1 \in 1 .. Len(q)
      BY <1>1, <2>3
    <2>5. ASSUME NEW i \in 1 .. n PROVE ~Kept(q[i])
      <3>1. i \in 1 .. Len(q) /\ ~(Min(keep) <= i)
        BY <1>1, <2>4
      <3> QED BY <1>3, <2>2, <3>1
    <2>6. Kept(q[n + 1])
      BY <2>3, <2>4
    <2> QED BY <1>6, <2>4, <2>5, <2>6 DEF Goes
  <1> QED BY <1>4, <1>5, <1>6

FirstOf(gone, q, n) ==
  /\ DOMAIN gone = 1 .. n
  /\ \A i \in 1 .. n : gone[i] = q[i]
  /\ Queued(gone) = {q[i].w : i \in 1 .. n}

LEMMA SomeGone ==
  ASSUME NEW q \in Seq(Item), NEW n \in 0 .. Len(q), NEW gone, gone = SubSeq(q, 1, n)
  PROVE  FirstOf(gone, q, n)
  <1>1. Len(q) \in Nat
    OBVIOUS
  <1>2. gone \in Seq(Item) /\ Len(gone) = n /\ \A i \in 1 .. n : gone[i] = q[i]
    BY <1>1
  <1>3. DOMAIN gone = 1 .. n
    BY <1>2
  <1> QED BY <1>2, <1>3 DEF Queued, FirstOf

LEMMA BeforeTurn ==
  ASSUME IInv, at = "top"
  PROVE  Before
  <1>1. at # "ended"
    OBVIOUS
  <1>2. flight.w # 0 => Len(queue) > 0
    BY <1>1 DEF IInv, FlightRight
  <1>3. typing \in BOOLEAN
    BY Zenon DEF IInv, Types
  <1>4. FlightRight(flight, queue, "select", answer, pty)
    BY <1>1 DEF IInv, FlightRight
  <1> QED BY <1>2, <1>3, <1>4 DEF Before, IInv, Types, Core

\* What is dropped is cancelled, and the rest of what goes is written.
LEMMA RestWritten ==
  ASSUME Before, NEW n, Goes(queue, n), NEW w \in {queue[i].w : i \in 1 .. n},
         ~\E i \in 1 .. n : Cancelled(queue[i]) /\ queue[i].w = w
  PROVE  Through(pty, w, Size(w))
  <1>1. PICK i \in 1 .. n : queue[i].w = w
    OBVIOUS
  <1>2. i \in 1 .. Len(queue) /\ Len(queue) \in Nat /\ n # 0
    BY <1>1 DEF Goes, Before
  <1>3. queue[i].offset = Size(w)
    BY <1>1 DEF Goes, Kept, Whole
  <1>4. flight.w = 0 /\ w # 0
    BY <1>1, <1>2, LoadRight, QueuedIs DEF Goes, InFlight, Before
  <1>5. QueueRight(queue, answer, pty, flight)
    BY DEF Before, Core
  <1>6. Reaches(pty, w, Size(w))
    BY <1>1, <1>2, <1>3, <1>4, <1>5 DEF QueueRight
  <1> QED BY <1>6 DEF Reaches

LEMMA LoopKeeps ==
  ASSUME IInv, Loop
  PROVE  IInv'
  <1> DEFINE keep == {i \in DOMAIN queue : Kept(queue[i])}
             n == IF InFlight THEN 0 ELSE IF keep = {} THEN Len(queue) ELSE Min(keep) - 1
             gone == SubSeq(queue, 1, n)
             dropped == {gone[i].w : i \in {j \in DOMAIN gone : Cancelled(gone[j])}}
             rest == Queued(gone) \ dropped
             told == Tell(answer, dropped, "interrupted")
  <1>1. /\ at = "top" /\ at' = "select"
        /\ queue' = SubSeq(queue, n + 1, Len(queue))
        /\ free' = free + Cost(Queued(gone))
        /\ answer' = Tell(told, rest, "ok")
        /\ UNCHANGED <<load, windows, live, mail, saving, flight, pty, typing, start, late, typed>>
    BY DEF Loop, PendingInput, fixed
  <1>2. n = Leading(queue)
    BY DEF Leading
  <1>4. gone = SubSeq(queue, 1, n)
    OBVIOUS
  <1>5. dropped = {gone[i].w : i \in {j \in DOMAIN gone : Cancelled(gone[j])}}
    OBVIOUS
  <1>6. rest = Queued(gone) \ dropped /\ told = Tell(answer, dropped, "interrupted")
    OBVIOUS
  <1> HIDE DEF keep, n, gone, dropped, rest, told
  <1>7. Before
    BY <1>1, BeforeTurn
  <1>8. queue \in Seq(Item) /\ load \in Loads /\ QueueRight(queue, answer, pty, flight)
        /\ Core(queue, mail, saving, start, answer, pty, flight, free)
        /\ AsideRight(Aside(mail, saving, start), queue, answer, pty)
    BY <1>7 DEF Before, Core
  <1>9. Goes(queue, n)
    <2>1. Goes(queue, Leading(queue))
      BY <1>8, FrontGoes
    <2> QED BY ONLY <1>2, <2>1
  <1>10. n \in 0 .. Len(queue) /\ Len(queue) \in Nat
    BY <1>8, <1>9 DEF Goes
  <1>11. DOMAIN gone = 1 .. n /\ (\A i \in 1 .. n : gone[i] = queue[i]) /\ Queued(gone) = {queue[i].w : i \in 1 .. n}
    <2>1. FirstOf(gone, queue, n)
      BY <1>4, <1>8, <1>10, SomeGone
    <2> QED BY <2>1 DEF FirstOf
  <1>12. dropped = {queue[i].w : i \in {j \in 1 .. n : Cancelled(queue[j])}}
    BY <1>5, <1>11
  <1>13. /\ queue' \in Seq(Item) /\ Len(queue') = Len(queue) - n
         /\ \A i \in 1 .. Len(queue) - n : queue'[i] = queue[n + i]
         /\ Within(queue', queue, Len(queue))
    BY <1>1, <1>8, <1>10, WithinRest
  <1>14. Queued(queue') \cap Queued(gone) = {} /\ Queued(queue) = Queued(queue') \cup Queued(gone)
    <2>1. /\ Queued(queue') \cap {queue[i].w : i \in 1 .. n} = {}
          /\ Queued(queue) = Queued(queue') \cup {queue[i].w : i \in 1 .. n}
      BY <1>8, <1>10, <1>13, QueueParts
    <2> QED BY <1>11, <2>1
  <1>15. Core(queue', mail, saving, start, answer, pty, flight, free')
    <2>1. Core(queue', mail, saving, start, answer, pty, flight, free + Cost(Queued(queue) \ Queued(queue')))
      BY <1>8, <1>13, CoreLeaves
    <2>2. Queued(queue) \ Queued(queue') = Queued(gone)
      BY <1>14
    <2> QED BY <1>1, <2>1, <2>2
  <1>16. /\ dropped \subseteq Queued(gone) /\ rest \subseteq Queued(gone)
         /\ Queued(gone) \cap Aside(mail, saving, start) = {}
    <2>1. \A w \in Aside(mail, saving, start) : w \notin Queued(queue)
      BY <1>8, AsideApart
    <2> QED BY <1>6, <1>11, <1>12, <1>14, <2>1
  <1>17. Core(queue', mail, saving, start, told, pty, flight, free') /\ Steady(answer, told)
    <2>1. TrueOf("interrupted", dropped, pty)
      BY DEF TrueOf, Answers, Unheard
    <2>2. dropped \cap Queued(queue') = {} /\ dropped \cap Aside(mail, saving, start) = {}
      BY <1>14, <1>16
    <2> QED BY <1>6, <1>15, <2>1, <2>2, CoreTold
  <1>18. Core(queue', mail, saving, start, answer', pty, flight, free') /\ Steady(told, answer')
    <2>1. ASSUME NEW w \in rest PROVE Through(pty, w, Size(w))
      <3>1. w \in {queue[i].w : i \in 1 .. n} /\ ~\E i \in 1 .. n : Cancelled(queue[i]) /\ queue[i].w = w
        BY <1>6, <1>11, <1>12
      <3> QED BY <1>7, <1>9, <3>1, RestWritten
    <2>2. TrueOf("ok", rest, pty)
      BY <2>1 DEF TrueOf, Answers, Unheard
    <2>3. rest \cap Queued(queue') = {} /\ rest \cap Aside(mail, saving, start) = {}
      BY <1>14, <1>16
    <2> QED BY <1>1, <1>17, <2>2, <2>3, CoreTold
  <1>19. Steady(answer, answer')
    BY <1>17, <1>18 DEF Steady
  <1>20. TypedRight(typed', typing', queue', mail', answer', pty, flight)
    <2>1. \A e \in Queued(queue') : e \in Queued(queue) \/ Kind(e) # "message" \/ e \notin typed
      BY <1>14
    <2>2. TypedRight(typed, typing, queue', mail, answer', pty, flight)
      BY <1>7, <1>19, <2>1, TypedKeeps DEF Before
    <2> QED BY <1>1, <2>2
  <1>21. FlightRight(flight, queue', at', answer', pty)
    <2>1. flight.w # 0 => Len(queue') > 0 /\ queue'[1] = queue[1]
      <3>1. flight.w # 0 => n = 0 /\ Len(queue) > 0
        BY <1>7, <1>9 DEF Goes, InFlight, Before
      <3>2. flight.w # 0 => Len(queue) - n = Len(queue) /\ 1 \in 1 .. Len(queue) - n /\ n + 1 = 1
        BY <1>10, <3>1
      <3> QED BY <1>13, <3>1, <3>2
    <2>2. FlightRight(flight, queue, "select", answer, pty) /\ "select" # "ended"
      BY <1>7 DEF Before
    <2>3. FlightRight(flight, queue', "select", answer', pty)
      BY <2>1, <2>2, FlightKeeps
    <2> QED BY <1>1, <2>3
  <1>22. LateRight(late', live', at', flight, queue')
    <2>1. ASSUME flight.w = 0, Len(queue') > 0 PROVE ~Cancelled(queue'[1])
      <3>1. ~InFlight /\ n < Len(queue) /\ 1 \in 1 .. Len(queue) - n
        BY <1>10, <1>13, <2>1 DEF InFlight
      <3>2. Kept(queue[n + 1]) /\ queue'[1] = queue[n + 1]
        BY <1>9, <1>13, <3>1 DEF Goes
      <3> QED BY <3>2 DEF Kept
    <2>2. LateRight(late, live, at, flight, queue)
      BY DEF IInv
    <2> QED BY <1>1, <2>1, <2>2 DEF LateRight, Cancelled
  <1>23. Types'
    <2>1. Types
      BY DEF IInv
    <2>2. flight' \in [w : Nat, n : Nat, done : BOOLEAN]
      <3>1. flight \in [w : Nat, n : Nat, done : BOOLEAN] /\ flight' = flight
        BY <1>1, <2>1 DEF Types
      <3> QED BY ONLY <3>1, Zenon
    <2>3. live' \subseteq Views /\ late' \in [Views -> Nat] /\ at' \in {"top", "select", "ended"}
      BY <1>1, <2>1 DEF Types
    <2>4. typing' \in BOOLEAN
      BY <1>1, <1>7, Zenon DEF Before
    <2>5. typed' \subseteq Writes /\ load' = load /\ windows' = windows
      BY <1>1, <1>7 DEF Before
    <2> QED BY <2>1, <2>2, <2>3, <2>4, <2>5, TypesKeep
  <1>24. PtyRight(pty) /\ EndRight(at', queue', mail', saving', start')
    BY <1>1 DEF IInv, EndRight
  <1>25. IInvNext
    BY <1>1, <1>18, <1>20, <1>21, <1>22, <1>23, <1>24 DEF IInvNext
  <1>26. load' = load /\ windows' = windows
    BY <1>1
  <1> QED BY <1>25, <1>26, Frame

-----------------------------------------------------------------------------
(* The program takes bytes of the write in front *)

\* The write in front has got further.
Further(q2, q) ==
  /\ Len(q2) = Len(q) /\ q2[1].w = q[1].w /\ q2[1].offset <= Size(q[1].w)
  /\ \A i \in 2 .. Len(q) : q2[i] = q[i]

LEMMA FurtherQueued ==
  ASSUME NEW q \in Seq(Item), NEW q2 \in Seq(Item), Further(q2, q)
  PROVE  Queued(q2) = Queued(q) /\ \A i \in 1 .. Len(q) : q2[i].w = q[i].w
  <1>1. Len(q) \in Nat /\ Len(q2) = Len(q)
    BY DEF Further
  <1>2. ASSUME NEW i \in 1 .. Len(q) PROVE q2[i].w = q[i].w
    <2>1. CASE i = 1
      BY <2>1 DEF Further
    <2>2. CASE i # 1
      <3>1. i \in 2 .. Len(q)
        BY <1>1, <2>2
      <3> QED BY <3>1 DEF Further
    <2> QED BY <2>1, <2>2
  <1>3. DOMAIN q = 1 .. Len(q) /\ DOMAIN q2 = 1 .. Len(q)
    BY <1>1
  <1>4. Queued(q2) = {q2[i].w : i \in 1 .. Len(q)} /\ Queued(q) = {q[i].w : i \in 1 .. Len(q)}
    BY <1>3 DEF Queued
  <1> QED BY <1>2, <1>4

\* The queue stands behind the n bytes, or the thread that wrote them has not told yet.
Placed(f2, q2, q, n) == ~(f2.w = q[1].w /\ f2.done) => q2[1].offset = q[1].offset + n

LEMMA CoreGrows ==
  ASSUME NEW q, NEW m, NEW s, NEW st, NEW ans, NEW p, NEW f, NEW fr, Core(q, m, s, st, ans, p, f, fr),
         Len(q) > 0, Reaches(p, q[1].w, q[1].offset), ~f.done \/ f.w = 0,
         NEW n \in Nat \ {0}, NEW p2 \in Seq(Writes \X Nat), Grown(p2, p, q[1].w, q[1].offset, n),
         NEW q2 \in Seq(Item), Further(q2, q),
         NEW f2, Placed(f2, q2, q, n)
  PROVE  Core(q2, m, s, st, ans, p2, f2, fr)
  <1> DEFINE w == q[1].w
             o == q[1].offset
  <1>1. /\ load \in Loads /\ q \in Seq(Item) /\ QueueRight(q, ans, p, f) /\ AnswerRight(ans, p)
        /\ AsideRight(Aside(m, s, st), q, ans, p) /\ BudgetRight(fr, q, m)
        /\ m \in [Doors -> Seq(Writes)] /\ s \subseteq Writes /\ st \in Writes \cup {0}
    BY DEF Core
  <1>2. Len(q) \in Nat /\ 1 \in 1 .. Len(q) /\ w \in Writes /\ o \in Nat
    BY <1>1, QueuedIs
  <1>3. w \in Nat /\ \A u \in Writes : u \in Nat /\ u # 0
    BY <1>1, <1>2, LoadRight
  <1>4. Queued(q2) = Queued(q) /\ \A i \in 1 .. Len(q) : q2[i].w = q[i].w
    BY <1>1, FurtherQueued
  <1>5. /\ Reaches(p2, w, o + n)
        /\ \A u \in Nat : Precedes(w, u) /\ Reaches(p, u, 0) => Reaches(p2, u, 0)
    <2>1. Grown(p2, p, w, o, n) /\ Reaches(p, w, o)
      OBVIOUS
    <2> HIDE DEF w, o
    <2>2. /\ Reaches(p, w, o) => Reaches(p2, w, o + n)
          /\ \A u \in Nat : Precedes(w, u) /\ Reaches(p, u, 0) => Reaches(p2, u, 0)
      BY ONLY <1>2, <1>3, <2>1, GrownReaches
    <2> QED BY <2>1, <2>2
  <1>6. \A u, k : u # w /\ Through(p, u, k) => Through(p2, u, k)
    BY <1>2, GrownThrough
  <1> HIDE DEF w, o
  <1>7. QueueRight(q2, ans, p2, f2)
    <2>1. Len(q2) = Len(q)
      BY DEF Further
    <2>2. ASSUME NEW i \in 1 .. Len(q)
          PROVE  /\ q2[i].offset <= Size(q2[i].w)
                 /\ ans[q2[i].w] \in Waiting
                 /\ i > 1 => q2[i].offset = 0
                 /\ ~(f2.w = q2[i].w /\ f2.done) => Reaches(p2, q2[i].w, q2[i].offset)
      <3>1. ans[q2[i].w] \in Waiting
        BY <1>1, <1>4 DEF QueueRight
      <3>2. CASE i = 1
        <4>1. q2[i].offset <= Size(q2[i].w) /\ q2[i].w = w
          BY <3>2 DEF Further, w
        <4>2. ~(f2.w = q2[i].w /\ f2.done) => q2[i].offset = o + n
          BY <3>2, <4>1 DEF w, o, Placed
        <4> QED BY <1>5, <3>1, <3>2, <4>1, <4>2
      <3>3. CASE i # 1
        <4>1. i \in 2 .. Len(q) /\ i > 1
          BY <1>2, <3>3
        <4>2. q2[i] = q[i]
          BY <4>1 DEF Further
        <4>3. /\ q[i].offset <= Size(q[i].w) /\ q[i].offset = 0
              /\ ~(f.w = q[i].w /\ f.done) => Reaches(p, q[i].w, q[i].offset)
          BY <1>1, <4>1 DEF QueueRight
        <4>4. q[i].w \in Writes
          BY <1>1, QueuedIs
        <4>5. Reaches(p, q[i].w, 0)
          BY <1>3, <4>3, <4>4
        <4>6. Precedes(w, q[i].w)
          BY <1>1, <1>2, <4>1 DEF QueueRight, w
        <4>7. Reaches(p2, q[i].w, 0)
          BY <1>3, <1>5, <4>4, <4>5, <4>6
        <4> QED BY <3>1, <4>2, <4>3, <4>7
      <3> QED BY <3>2, <3>3
    <2>3. \A i, j \in 1 .. Len(q) : i < j => Precedes(q2[i].w, q2[j].w)
      BY <1>1, <1>4 DEF QueueRight
    <2> QED BY <2>1, <2>2, <2>3 DEF QueueRight
  <1>8. AsideRight(Aside(m, s, st), q2, ans, p2)
    <2> SUFFICES ASSUME NEW x \in Aside(m, s, st) PROVE Ready(x, q2, ans, p2)
      BY DEF AsideRight
    <2>1. ans[x] \in Waiting /\ Reaches(p, x, 0) /\ \A i \in 1 .. Len(q) : Precedes(q[i].w, x)
      BY <1>1 DEF AsideRight, Ready
    <2>2. x \in Writes
      BY <1>1, PostedIs DEF Aside
    <2>3. Precedes(w, x)
      BY <1>2, <2>1 DEF w
    <2>4. Reaches(p2, x, 0)
      BY <1>3, <1>5, <2>1, <2>2, <2>3
    <2>5. \A i \in 1 .. Len(q2) : Precedes(q2[i].w, x)
      BY <1>4, <2>1 DEF Further
    <2> QED BY <2>1, <2>4, <2>5 DEF Ready
  <1>9. AnswerRight(ans, p2)
    <2>1. ans[w] \in Waiting
      BY <1>1, <1>2 DEF QueueRight, w
    <2> QED BY <1>1, <1>6, <2>1 DEF AnswerRight, Fresh, Unheard, Waiting
  <1>10. BudgetRight(fr, q2, m)
    BY <1>1, <1>4 DEF BudgetRight, Holding
  <1> QED BY <1>4, <1>7, <1>8, <1>9, <1>10 DEF Core

\* The write in front is through: it leaves the queue, and its caller hears "ok".
LEMMA CoreFinishes ==
  ASSUME NEW q, NEW m, NEW s, NEW st, NEW ans, NEW p, NEW f, NEW fr, Core(q, m, s, st, ans, p, f, fr),
         Len(q) > 0, Through(p, q[1].w, Size(q[1].w)), f.w = q[1].w \/ f.w = 0,
         NEW ans2, ans2 = Tell(ans, {q[1].w}, "ok"), NEW f2
  PROVE  /\ Core(Tail(q), m, s, st, ans2, p, f2, fr + Size(q[1].w))
         /\ Steady(ans, ans2) /\ Queued(Tail(q)) \subseteq Queued(q)
  <1> DEFINE w == q[1].w
             r == Tail(q)
  <1>1. /\ load \in Loads /\ q \in Seq(Item) /\ QueueRight(q, ans, p, f)
        /\ AsideRight(Aside(m, s, st), q, ans, p)
    BY DEF Core
  <1>2. /\ r \in Seq(Item) /\ Len(r) = Len(q) - 1 /\ Within(r, q, Len(q))
        /\ \A i \in 1 .. Len(q) - 1 : r[i] = q[i + 1]
    BY <1>1, WithinTail
  <1>3. Len(q) \in Nat /\ 1 \in 1 .. Len(q) /\ w \in Writes /\ w \in Queued(q) /\ w # 0
    BY <1>1, QueuedIs, LoadRight
  <1>4. /\ Queued(r) \cap {q[i].w : i \in 1 .. 1} = {}
        /\ Queued(q) = Queued(r) \cup {q[i].w : i \in 1 .. 1}
    <2>1. 1 \in 0 .. Len(q) /\ \A i \in 1 .. Len(q) - 1 : r[i] = q[1 + i]
      BY <1>2, <1>3
    <2> HIDE DEF r
    <2> QED BY <1>1, <1>2, <2>1, QueueParts
  <1>5. Queued(q) \ Queued(r) = {w}
    <2>1. {q[i].w : i \in 1 .. 1} = {w}
      OBVIOUS
    <2> HIDE DEF w, r
    <2> QED BY <1>4, <2>1
  <1> SUFFICES Core(r, m, s, st, ans2, p, f2, fr + Size(w)) /\ Steady(ans, ans2) /\ Queued(r) \subseteq Queued(q)
    OBVIOUS
  <1>6. Through(p, w, Size(w)) /\ ans2 = Tell(ans, {w}, "ok") /\ (f.w = w \/ f.w = 0)
    OBVIOUS
  <1> HIDE DEF w, r
  <1>7. Core(r, m, s, st, ans, p, f, fr + Size(w)) /\ Queued(r) \subseteq Queued(q)
    <2>1. Core(r, m, s, st, ans, p, f, fr + Cost(Queued(q) \ Queued(r))) /\ Queued(r) \subseteq Queued(q)
      BY <1>2, CoreLeaves
    <2>2. Cost({w}) = Size(w)
      BY <1>1, <1>3, CostOne
    <2> QED BY <1>5, <2>1, <2>2
  <1>8. Core(r, m, s, st, ans2, p, f, fr + Size(w)) /\ Steady(ans, ans2)
    <2>1. {w} \cap Queued(r) = {}
      BY <1>5
    <2>2. {w} \cap Aside(m, s, st) = {}
      <3>1. \A x \in Aside(m, s, st) : x \notin Queued(q)
        BY <1>1, AsideApart
      <3> QED BY <1>3, <3>1
    <2>3. TrueOf("ok", {w}, p)
      BY <1>6 DEF TrueOf, Answers, Unheard
    <2> QED BY <1>6, <1>7, <2>1, <2>2, <2>3, CoreTold
  <1>9. QueueRight(r, ans2, p, f2)
    <2>1. QueueRight(r, ans2, p, f)
      BY <1>8 DEF Core
    <2>2. ASSUME NEW i \in 1 .. Len(r) PROVE f.w # r[i].w
      <3>1. r[i].w \in Queued(r) /\ r[i].w \in Writes
        BY <1>2, QueuedIs
      <3>2. r[i].w # w /\ r[i].w # 0
        BY <1>1, <1>5, <3>1, LoadRight
      <3> QED BY <1>6, <3>2
    <2> QED BY <2>1, <2>2 DEF QueueRight
  <1> QED BY <1>7, <1>8, <1>9 DEF Core

LEMMA TypedWritten ==
  ASSUME load \in Loads, NEW td \in SUBSET Writes, NEW ty, NEW q, NEW m, NEW ans, NEW p, NEW f,
         TypedRight(td, ty, q, m, ans, p, f),
         NEW w, w \in Queued(q) \cup {f.w}, NEW o \in Nat, NEW n \in Nat, NEW p2, Grown(p2, p, w, o, n),
         NEW f2, f2.w \in Queued(q) \cup {f.w, 0},
         NEW q2, Queued(q2) \subseteq Queued(q)
  PROVE  TypedRight(td, ty, q2, m, ans, p2, f2)
  <1>1. \A u, k : u # w /\ Through(p, u, k) => Through(p2, u, k)
    BY GrownThrough
  <1>2. \A e \in td : e # 0
    BY LoadRight
  <1> QED BY <1>1, <1>2 DEF TypedRight, Fresh

\* What the next write in front does to the history of late writes.
LEMMA LateTells ==
  ASSUME load \in Loads, queue \in Seq(Item), Len(queue) > 0, flight.w = 0, late \in [Views -> Nat],
         LateRight(late, live, "select", flight, queue), NEW lt, lt = Late(Head(queue))
  PROVE  lt \in [Views -> Nat] /\ \A v \in Views : lt[v] \in {0, 1} /\ (lt[v] = 1 => v \notin live)
  <1>1. Head(queue) = queue[1] /\ queue[1].w \in Writes
    <2>1. Len(queue) \in Nat /\ 1 \in 1 .. Len(queue)
      OBVIOUS
    <2>2. queue[1].w \in Writes
      BY <2>1, QueuedIs
    <2> QED BY <2>2
  <1> DEFINE w == queue[1].w
  <1>2. CASE Kind(w) \in Authorized /\ By(w) \notin live
    <2>1. lt = [late EXCEPT ![By(w)] = @ + 1]
      BY <1>1, <1>2 DEF Late, Cancelled
    <2>2. By(w) \in Views
      BY <1>1, <1>2, LoadRight
    <2>3. late[By(w)] = 0
      BY <1>2, <2>2 DEF LateRight
    <2> HIDE DEF w
    <2>4. lt \in [Views -> Nat] /\ lt[By(w)] = 1 /\ \A v \in Views : v # By(w) => lt[v] = late[v]
      BY <2>1, <2>2, <2>3
    <2> QED BY <1>2, <2>2, <2>4 DEF LateRight
  <1>3. CASE ~(Kind(w) \in Authorized /\ By(w) \notin live)
    <2>1. lt = late
      BY <1>1, <1>3 DEF Late, Cancelled
    <2> QED BY <2>1 DEF LateRight
  <1> QED BY <1>2, <1>3

-----------------------------------------------------------------------------
(* The transfer to the program *)

\* What wrote does with the write in front.
LEMMA WroteIs ==
  ASSUME load \in Loads, queue \in Seq(Item), Len(queue) > 0, NEW n \in Nat, Wrote(n),
         NEW w, w = queue[1].w, NEW o, o = queue[1].offset, o + n <= Size(w)
  PROVE  IF o + n = Size(w)
         THEN queue' = Tail(queue) /\ free' = free + Size(w) /\ answer' = Tell(answer, {w}, "ok")
         ELSE queue' = <<[w |-> w, offset |-> o + n]>> \o Tail(queue) /\ UNCHANGED <<free, answer>>
  <1> DEFINE p == [Head(queue) EXCEPT !.offset = Min({@ + n, Size(Head(queue).w)})]
  <1>1. Head(queue) = queue[1] /\ queue[1] \in Item /\ queue # <<>>
    <2>1. Len(queue) \in Nat /\ 1 \in 1 .. Len(queue)
      OBVIOUS
    <2>2. queue[1] \in Item
      BY <2>1, QueuedIs
    <2> QED BY <2>2
  <1>2. o \in Nat /\ Size(w) \in Nat /\ w \in Writes
    BY <1>1, LoadRight DEF Item
  <1>3. Min({o + n, Size(w)}) = o + n
    <2>1. {o + n, Size(w)} \subseteq Nat /\ {o + n, Size(w)} # {}
      BY <1>2
    <2>2. Min({o + n, Size(w)}) \in {o + n, Size(w)} /\ \A m \in {o + n, Size(w)} : Min({o + n, Size(w)}) <= m
      BY <2>1, LeastNatural
    <2>3. Min({o + n, Size(w)}) <= o + n
      BY <2>2
    <2> QED BY <1>2, <2>2, <2>3
  <1>4. p = [w |-> w, offset |-> o + n]
    <2>1. p = [queue[1] EXCEPT !.offset = o + n]
      BY <1>1, <1>3
    <2>2. queue[1] = [w |-> w, offset |-> o]
      BY <1>1 DEF Item
    <2> QED BY ONLY <2>1, <2>2
  <1>5. IF Whole(p)
        THEN queue' = Tail(queue) /\ free' = free + Size(p.w) /\ answer' = Tell(answer, {p.w}, "ok")
        ELSE queue' = <<p>> \o Tail(queue) /\ UNCHANGED <<free, answer>>
    BY <1>1 DEF Wrote
  <1> HIDE DEF p
  <1>6. p.w = w /\ (Whole(p) <=> o + n = Size(w))
    BY <1>4 DEF Whole
  <1> QED BY <1>4, <1>5, <1>6

\* The rest of IInvNext for the steps of the transfer, which only take the front further.
LEMMA TransferTypes ==
  ASSUME Types, UNCHANGED <<load, windows, live, typing, typed>>, at' \in {"top", "select", "ended"},
         flight' \in [w : Nat, n : Nat, done : BOOLEAN], late' \in [Views -> Nat]
  PROVE  Types' /\ load' = load /\ windows' = windows
  <1>1. live' \subseteq Views /\ typed' \subseteq Writes
    BY DEF Types
  <1>2. typing' \in BOOLEAN
    <2>1. typing \in BOOLEAN /\ typing' = typing
      BY Zenon DEF Types
    <2> QED BY ONLY <2>1, Zenon
  <1>3. load' = load /\ windows' = windows
    OBVIOUS
  <1> QED BY <1>1, <1>2, <1>3, TypesKeep

LEMMA TransferWroteKeeps ==
  ASSUME IInv, TransferWrote
  PROVE  IInv'
  <1>1. /\ ~windows /\ at = "select" /\ at' = "top" /\ queue # <<>> /\ ~Whole(Head(queue))
        /\ late' = Late(Head(queue))
        /\ UNCHANGED <<load, windows, live, mail, saving, flight, typing, start, typed>>
    BY DEF TransferWrote, fixed, Arm
  <1>2. PICK n \in 1..(Size(Head(queue).w) - Head(queue).offset) : pty' = pty \o Bytes(Head(queue), n) /\ Wrote(n)
    BY DEF TransferWrote
  <1>3. Before
    BY <1>1, BeforeArm
  <1>4. /\ load \in Loads /\ queue \in Seq(Item) /\ QueueRight(queue, answer, pty, flight)
        /\ Core(queue, mail, saving, start, answer, pty, flight, free)
        /\ pty \in Seq(Writes \X Nat) /\ flight.w = 0
    <2>1. flight.w # 0 => windows
      BY <1>3 DEF Before, FlightRight
    <2> QED BY <1>1, <1>3, <2>1 DEF Before, Core
  <1> DEFINE w == queue[1].w
             o == queue[1].offset
  <1>5. /\ Len(queue) > 0 /\ Len(queue) \in Nat /\ 1 \in 1 .. Len(queue) /\ Head(queue) = queue[1]
        /\ queue[1] \in Item /\ w \in Writes /\ w \in Queued(queue) /\ o \in Nat /\ Size(w) \in Nat
    <2>1. Len(queue) > 0 /\ Len(queue) \in Nat /\ 1 \in 1 .. Len(queue) /\ Head(queue) = queue[1]
      BY <1>1, <1>4
    <2> QED BY <1>4, <2>1, QueuedIs, LoadRight
  <1>6. n \in Nat \ {0} /\ o + n <= Size(w)
    BY <1>2, <1>5
  <1>7. Reaches(pty, w, o)
    <2>1. flight.w # w
      BY <1>4, <1>5, LoadRight
    <2> QED BY <1>4, <1>5, <2>1 DEF QueueRight
  <1>8. pty' \in Seq(Writes \X Nat) /\ Grown(pty', pty, w, o, n)
    <2>1. pty' = pty \o Bytes(queue[1], n)
      BY <1>2, <1>5
    <2> QED BY <1>4, <1>5, <1>6, <2>1, GrownIs
  <1> DEFINE q1 == <<[w |-> w, offset |-> o + n]>> \o Tail(queue)
  <1>9. q1 \in Seq(Item) /\ Further(q1, queue) /\ Tail(q1) = Tail(queue) /\ q1[1].w = w /\ q1[1].offset = o + n
    <2>1. [w |-> w, offset |-> o + n] \in Item
      BY <1>5, <1>6 DEF Item
    <2>2. /\ Tail(queue) \in Seq(Item) /\ Len(Tail(queue)) = Len(queue) - 1
          /\ \A i \in 1 .. Len(queue) - 1 : Tail(queue)[i] = queue[i + 1]
      BY <1>4, <1>5, WithinTail
    <2> DEFINE x == [w |-> w, offset |-> o + n]
               t == Tail(queue)
    <2>3. x.w = w /\ x.offset = o + n
      OBVIOUS
    <2>4. \A i \in 2 .. Len(queue) : t[i - 1] = queue[i]
      <3>1. \A i \in 2 .. Len(queue) : i - 1 \in 1 .. Len(queue) - 1 /\ (i - 1) + 1 = i
        BY <1>5
      <3> QED BY <2>2, <3>1
    <2> SUFFICES /\ <<x>> \o t \in Seq(Item) /\ Further(<<x>> \o t, queue) /\ Tail(<<x>> \o t) = t
                 /\ (<<x>> \o t)[1].w = w /\ (<<x>> \o t)[1].offset = o + n
      OBVIOUS
    <2> HIDE DEF x, t
    <2>5. x \in Item /\ t \in Seq(Item) /\ Len(t) = Len(queue) - 1
      BY <2>1, <2>2 DEF x, t
    <2>6. <<x>> \o t \in Seq(Item) /\ Len(<<x>> \o t) = Len(queue) /\ (<<x>> \o t)[1] = x
      BY <1>5, <2>5
    <2>7. \A i \in 2 .. Len(queue) : (<<x>> \o t)[i] = t[i - 1]
      BY <1>5, <2>5
    <2>8. Tail(<<x>> \o t) = t
      BY <2>5
    <2>9. Further(<<x>> \o t, queue)
      BY <1>6, <2>3, <2>4, <2>6, <2>7 DEF Further
    <2> QED BY <2>3, <2>6, <2>8, <2>9
  <1>10. IF o + n = Size(w)
         THEN queue' = Tail(queue) /\ free' = free + Size(w) /\ answer' = Tell(answer, {w}, "ok")
         ELSE queue' = q1 /\ UNCHANGED <<free, answer>>
    <2>1. n \in Nat
      BY <1>6
    <2> QED BY <1>2, <1>4, <1>5, <1>6, <2>1, WroteIs
  <1>11. w = queue[1].w /\ o = queue[1].offset
    OBVIOUS
  <1> HIDE DEF w, o, q1
  <1>12. Core(q1, mail, saving, start, answer, pty', flight, free) /\ Queued(q1) = Queued(queue)
    <2>1. Reaches(pty, queue[1].w, queue[1].offset) /\ Grown(pty', pty, queue[1].w, queue[1].offset, n)
      BY <1>7, <1>8, <1>11
    <2>2. Placed(flight, q1, queue, n) /\ (~flight.done \/ flight.w = 0)
      BY <1>4, <1>9, <1>11 DEF Placed
    <2>3. Core(q1, mail, saving, start, answer, pty', flight, free)
      BY <1>4, <1>5, <1>6, <1>8, <1>9, <2>1, <2>2, CoreGrows
    <2>4. Queued(q1) = Queued(queue)
      BY <1>4, <1>9, FurtherQueued
    <2> QED BY <2>3, <2>4
  <1>13. /\ Core(queue', mail, saving, start, answer', pty', flight, free')
         /\ Steady(answer, answer') /\ Queued(queue') \subseteq Queued(queue)
    <2>1. CASE o + n = Size(w)
      <3>1. queue' = Tail(q1) /\ free' = free + Size(q1[1].w) /\ answer' = Tell(answer, {q1[1].w}, "ok")
        BY <1>9, <1>10, <2>1
      <3>2. Through(pty', q1[1].w, Size(q1[1].w))
        <4>1. Through(pty, w, o)
          BY <1>7 DEF Reaches
        <4>2. n \in Nat
          BY <1>6
        <4>3. Through(pty', w, o + n)
          BY <1>5, <1>8, <4>1, <4>2, GrownThrough
        <4> QED BY <1>9, <2>1, <4>3
      <3>3. Len(q1) > 0
        BY <1>5, <1>9 DEF Further
      <3>4. /\ Core(Tail(q1), mail, saving, start, answer', pty', flight, free + Size(q1[1].w))
            /\ Steady(answer, answer') /\ Queued(Tail(q1)) \subseteq Queued(q1)
        BY <1>4, <1>12, <3>1, <3>2, <3>3, CoreFinishes
      <3> QED BY <1>12, <3>1, <3>4
    <2>2. CASE o + n # Size(w)
      <3>1. queue' = q1 /\ free' = free /\ answer' = answer
        BY <1>10, <2>2
      <3> QED BY <1>12, <3>1 DEF Steady
    <2> QED BY <2>1, <2>2
  <1>14. TypedRight(typed, typing, queue', mail, answer', pty', flight)
    <2>1. TypedRight(typed, typing, queue, mail, answer, pty, flight) /\ typed \in SUBSET Writes
      BY <1>3 DEF Before
    <2>2. n \in Nat
      BY <1>6
    <2>3. TypedRight(typed, typing, queue', mail, answer, pty', flight)
      BY <1>4, <1>5, <1>8, <1>13, <2>1, <2>2, TypedWritten
    <2>4. typing \in BOOLEAN
      BY <1>3 DEF Before
    <2> QED BY <1>4, <1>13, <2>1, <2>3, <2>4, TypedKeeps
  <1>15. PtyRight(pty')
    <2>1. PtyRight(pty) /\ n \in Nat /\ w \in Nat
      BY <1>4, <1>5, <1>6, LoadRight DEF IInv
    <2> QED BY <1>4, <1>5, <1>7, <1>8, <2>1, GrownRight
  <1>16. Types /\ LateRight(late, live, "select", flight, queue)
    BY <1>1 DEF IInv
  <1>17. late' \in [Views -> Nat] /\ \A v \in Views : late'[v] \in {0, 1} /\ (late'[v] = 1 => v \notin live)
    BY <1>1, <1>4, <1>5, <1>16, LateTells DEF Types
  <1>18. LateRight(late', live', at', flight', queue')
    BY <1>1, <1>17 DEF LateRight
  <1>19. Types' /\ load' = load /\ windows' = windows
    <2>1. flight' \in [w : Nat, n : Nat, done : BOOLEAN]
      <3>1. flight \in [w : Nat, n : Nat, done : BOOLEAN] /\ flight' = flight
        BY <1>1, <1>16 DEF Types
      <3> QED BY ONLY <3>1, Zenon
    <2>2. at' \in {"top", "select", "ended"} /\ UNCHANGED <<load, windows, live, typing, typed>>
      BY <1>1
    <2> QED BY <1>16, <1>17, <2>1, <2>2, TransferTypes
  <1>20. FlightRight(flight', queue', at', answer', pty') /\ EndRight(at', queue', mail', saving', start')
    BY <1>1, <1>4 DEF FlightRight, EndRight
  <1>21. IInvNext
    BY <1>1, <1>13, <1>14, <1>15, <1>18, <1>19, <1>20 DEF IInvNext
  <1> QED BY <1>19, <1>21, Frame

\* The thread of Windows gets what is left of the write in front.
LEMMA HandOverKeeps ==
  ASSUME IInv, HandOver
  PROVE  IInv'
  <1>1. /\ windows /\ at = "select" /\ flight.w = 0 /\ queue # <<>> /\ ~Whole(Head(queue))
        /\ flight' = [w |-> Head(queue).w, n |-> Size(Head(queue).w) - Head(queue).offset, done |-> FALSE]
        /\ late' = Late(Head(queue))
        /\ UNCHANGED <<load, windows, live, free, mail, saving, queue, pty, typing, start, answer, at, typed>>
    BY DEF HandOver, fixed, InFlight
  <1>2. Before
    BY <1>1, BeforeArm
  <1>3. /\ load \in Loads /\ queue \in Seq(Item) /\ QueueRight(queue, answer, pty, flight)
        /\ Core(queue, mail, saving, start, answer, pty, flight, free)
    BY <1>2 DEF Before, Core
  <1>4. /\ Len(queue) > 0 /\ Len(queue) \in Nat /\ 1 \in 1 .. Len(queue) /\ Head(queue) = queue[1]
        /\ queue[1] \in Item /\ queue[1].w \in Writes /\ queue[1].w \in Queued(queue)
        /\ queue[1].offset \in Nat /\ Size(queue[1].w) \in Nat /\ queue[1].offset <= Size(queue[1].w)
    <2>1. Len(queue) > 0 /\ Len(queue) \in Nat /\ 1 \in 1 .. Len(queue) /\ Head(queue) = queue[1]
      BY <1>1, <1>3
    <2>2. queue[1].offset <= Size(queue[1].w)
      BY <1>3, <2>1 DEF QueueRight
    <2> QED BY <1>3, <2>1, <2>2, QueuedIs, LoadRight
  <1>5. /\ flight'.w = queue[1].w /\ flight'.n = Size(queue[1].w) - queue[1].offset /\ flight'.done = FALSE
        /\ flight'.n \in 1 .. Size(queue[1].w) /\ queue[1].offset + flight'.n = Size(queue[1].w)
        /\ Size(queue[1].w) - flight'.n = queue[1].offset
    <2>1. flight'.w = queue[1].w /\ flight'.n = Size(queue[1].w) - queue[1].offset /\ flight'.done = FALSE
      BY <1>1, <1>4
    <2>2. queue[1].offset # Size(queue[1].w)
      BY <1>1, <1>4 DEF Whole
    <2> QED BY <1>4, <2>1, <2>2
  <1>6. \A i \in 1 .. Len(queue) : Reaches(pty, queue[i].w, queue[i].offset)
    <2>1. \A i \in 1 .. Len(queue) : flight.w # queue[i].w
      BY <1>1, <1>3, QueuedIs, LoadRight
    <2> QED BY <1>3, <2>1 DEF QueueRight
  <1>7. QueueRight(queue, answer, pty, flight')
    BY <1>3, <1>6 DEF QueueRight
  <1>8. Core(queue', mail', saving', start', answer', pty', flight', free')
    <2>1. Core(queue, mail, saving, start, answer, pty, flight', free)
      BY <1>3, <1>7 DEF Core
    <2> QED BY <1>1, <2>1
  <1>9. FlightRight(flight', queue', at', answer', pty')
    <2>1. Reaches(pty, flight'.w, Size(flight'.w) - flight'.n)
      BY <1>4, <1>5, <1>6
    <2>2. windows /\ flight'.w \in Writes /\ flight'.n \in 1 .. Size(flight'.w) /\ Len(queue) > 0
          /\ queue[1].w = flight'.w /\ queue[1].offset + flight'.n = Size(flight'.w)
      BY <1>1, <1>4, <1>5
    <2>3. FlightRight(flight', queue, "select", answer, pty)
      BY <1>5, <2>1, <2>2 DEF FlightRight
    <2> QED BY <1>1, <2>3
  <1>10. TypedRight(typed', typing', queue', mail', answer', pty', flight')
    <2>1. TypedRight(typed, typing, queue, mail, answer, pty, flight)
      BY <1>2 DEF Before
    <2>2. TypedRight(typed, typing, queue, mail, answer, pty, flight')
      BY <1>4, <1>5, <2>1 DEF TypedRight
    <2> QED BY <1>1, <2>2
  <1>11. Types /\ LateRight(late, live, "select", flight, queue) /\ PtyRight(pty)
    BY <1>1 DEF IInv
  <1>12. late' \in [Views -> Nat] /\ \A v \in Views : late'[v] \in {0, 1} /\ (late'[v] = 1 => v \notin live)
    BY <1>1, <1>3, <1>4, <1>11, LateTells DEF Types
  <1>13. LateRight(late', live', at', flight', queue')
    <2>1. flight'.w # 0
      BY <1>3, <1>4, <1>5, LoadRight
    <2> QED BY <1>1, <1>12, <2>1 DEF LateRight
  <1>14. Types' /\ load' = load /\ windows' = windows
    <2>1. flight' \in [w : Nat, n : Nat, done : BOOLEAN]
      <3>1. flight' = [w |-> queue[1].w, n |-> Size(queue[1].w) - queue[1].offset, done |-> FALSE]
        BY <1>1, <1>4
      <3>2. queue[1].w \in Nat /\ Size(queue[1].w) - queue[1].offset \in Nat
        BY <1>3, <1>4, LoadRight
      <3> QED BY <3>1, <3>2
    <2>2. at' \in {"top", "select", "ended"} /\ UNCHANGED <<load, windows, live, typing, typed>>
      BY <1>1
    <2> QED BY <1>11, <1>12, <2>1, <2>2, TransferTypes
  <1>15. PtyRight(pty') /\ EndRight(at', queue', mail', saving', start')
    BY <1>1, <1>11 DEF EndRight
  <1>16. IInvNext
    BY <1>8, <1>9, <1>10, <1>13, <1>14, <1>15 DEF IInvNext
  <1> QED BY <1>14, <1>16, Frame

\* The thread writes also after the actor ended.
LEMMA ThreadWritesKeeps ==
  ASSUME IInv, ThreadWrites
  PROVE  IInv'
  <1> DEFINE w == flight.w
             n == flight.n
             o == Size(w) - n
  <1>1. /\ w # 0 /\ ~flight.done /\ flight' = [flight EXCEPT !.done = TRUE]
        /\ pty' = pty \o Bytes([w |-> w, offset |-> o], n)
        /\ UNCHANGED <<load, windows, live, free, mail, saving, queue, typing, start, answer, at, late, typed>>
    BY DEF ThreadWrites, fixed, InFlight
  <1>2. /\ Types /\ Core(queue, mail, saving, start, answer, pty, flight, free)
        /\ FlightRight(flight, queue, at, answer, pty) /\ EndRight(at, queue, mail, saving, start)
        /\ LateRight(late, live, at, flight, queue) /\ PtyRight(pty)
        /\ TypedRight(typed, typing, queue, mail, answer, pty, flight)
    BY DEF IInv
  <1>3. load \in Loads /\ queue \in Seq(Item) /\ pty \in Seq(Writes \X Nat) /\ mail \in [Doors -> Seq(Writes)]
    BY <1>2 DEF Core
  <1>4. /\ windows /\ w \in Writes /\ n \in 1 .. Size(w) /\ Reaches(pty, w, o)
        /\ at # "ended" => Len(queue) > 0 /\ queue[1].w = w /\ queue[1].offset + n = Size(w)
        /\ at = "ended" => answer[w] \in {"timeout", "queued", "interrupted"}
    BY <1>1, <1>2 DEF FlightRight
  <1>5. w \in Nat /\ Size(w) \in Nat
    BY <1>3, <1>4, LoadRight
  <1>6. n \in Nat \ {0} /\ n \in Nat /\ o \in Nat /\ o + n = Size(w)
    BY <1>4, <1>5
  <1>7. pty' \in Seq(Writes \X Nat) /\ Grown(pty', pty, w, o, n)
    <2> DEFINE x == [w |-> w, offset |-> o]
    <2>1. x.w = w /\ x.offset = o /\ pty' = pty \o Bytes(x, n)
      BY <1>1
    <2> HIDE DEF x, w, o, n
    <2>2. /\ pty \o Bytes(x, n) \in Seq(Writes \X Nat)
          /\ Grown(pty \o Bytes(x, n), pty, x.w, x.offset, n)
      BY <1>3, <1>4, <1>6, <2>1, GrownIs
    <2> QED BY <2>1, <2>2
  <1>8. /\ flight' \in [w : Nat, n : Nat, done : BOOLEAN]
        /\ flight'.w = w /\ flight'.n = n /\ flight'.done
    <2>1. flight \in [w : Nat, n : Nat, done : BOOLEAN]
      BY <1>2 DEF Types
    <2> QED BY <1>1, <2>1
  <1> HIDE DEF w, n, o
  <1>9. Through(pty', w, Size(w))
    <2>1. Through(pty, w, o)
      BY <1>4 DEF Reaches
    <2>2. Through(pty', w, o + n)
      BY <1>6, <1>7, <2>1, GrownThrough
    <2> QED BY <1>6, <2>2
  <1>10. Core(queue, mail, saving, start, answer, pty', flight', free)
    <2>1. CASE at # "ended"
      <3>1. Len(queue) > 0 /\ queue[1].w = w /\ queue[1].offset \in Nat /\ queue[1].offset = o
        <4>1. Len(queue) > 0 /\ queue[1].w = w /\ queue[1].offset + n = Size(w)
          BY <1>4, <2>1
        <4>2. Len(queue) \in Nat /\ 1 \in 1 .. Len(queue)
          BY <1>3, <4>1
        <4>3. queue[1].offset \in Nat
          BY <1>3, <4>2, QueuedIs
        <4> QED BY <1>6, <4>1, <4>3
      <3>2. Reaches(pty, queue[1].w, queue[1].offset) /\ Grown(pty', pty, queue[1].w, queue[1].offset, n)
        BY <1>4, <1>7, <3>1
      <3>3. ~flight.done \/ flight.w = 0
        BY <1>1
      <3>4. Placed(flight', queue, queue, n)
        BY <1>8, <3>1 DEF Placed
      <3>5. Further(queue, queue)
        BY <1>3, <1>5, <1>6, <3>1 DEF Further
      <3> QED BY <1>2, <1>3, <1>6, <1>7, <3>1, <3>2, <3>3, <3>4, <3>5, CoreGrows
    <2>2. CASE at = "ended"
      <3>1. Len(queue) = 0 /\ (\A d \in Doors : Len(mail[d]) = 0) /\ saving = {} /\ start = 0
        BY <1>2, <2>2 DEF EndRight
      <3>2. QueueRight(queue, answer, pty', flight')
        BY <3>1 DEF QueueRight
      <3>3. Aside(mail, saving, start) = {}
        BY <3>1 DEF Aside, Posted
      <3>4. AsideRight(Aside(mail, saving, start), queue, answer, pty')
        BY <3>3 DEF AsideRight
      <3>5. AnswerRight(answer, pty')
        <4>1. \A u, k : u # w /\ Through(pty, u, k) => Through(pty', u, k)
          BY <1>6, <1>7, GrownThrough
        <4>2. answer[w] \notin Unheard \cup {"ok"}
          BY <1>4, <2>2 DEF Unheard
        <4> QED BY <1>2, <4>1, <4>2 DEF AnswerRight, Fresh, Core
      <3> QED BY <1>2, <1>7, <3>2, <3>4, <3>5 DEF Core
    <2> QED BY <2>1, <2>2
  <1>11. FlightRight(flight', queue, at, answer, pty')
    BY <1>4, <1>8, <1>9 DEF FlightRight
  <1>12. LateRight(late, live, at, flight', queue)
    BY <1>1, <1>2, <1>8 DEF LateRight, w
  <1>13. TypedRight(typed, typing, queue, mail, answer, pty', flight')
    <2>1. typed \in SUBSET Writes
      BY <1>2 DEF Types
    <2>2. w \in Queued(queue) \cup {flight.w} /\ flight'.w \in Queued(queue) \cup {flight.w, 0}
      BY <1>8 DEF w
    <2> QED BY <1>2, <1>3, <1>6, <1>7, <2>1, <2>2, TypedWritten
  <1>14. PtyRight(pty')
    BY <1>2, <1>3, <1>4, <1>5, <1>6, <1>7, GrownRight
  <1>15. Types' /\ load' = load /\ windows' = windows
    <2>1. late' \in [Views -> Nat] /\ at' \in {"top", "select", "ended"}
      BY <1>1, <1>2 DEF Types
    <2>2. UNCHANGED <<load, windows, live, typing, typed>>
      BY <1>1
    <2> QED BY <1>2, <1>8, <2>1, <2>2, TransferTypes
  <1>16. UNCHANGED <<queue, mail, saving, start, answer, free, live, at, late, typing, typed>>
    BY <1>1
  <1>17. IInvNext
    BY <1>2, <1>10, <1>11, <1>12, <1>13, <1>14, <1>15, <1>16 DEF IInvNext
  <1> QED BY <1>15, <1>17, Frame

LEMMA TransferDoneKeeps ==
  ASSUME IInv, TransferDone
  PROVE  IInv'
  <1>1. /\ at = "select" /\ at' = "top" /\ flight.w # 0 /\ flight.done /\ flight' = None /\ Wrote(flight.n)
        /\ UNCHANGED <<load, windows, live, mail, saving, pty, typing, start, late, typed>>
    BY DEF TransferDone, fixed, InFlight, Arm
  <1>2. Before
    BY <1>1, BeforeArm
  <1>3. /\ load \in Loads /\ queue \in Seq(Item)
        /\ Core(queue, mail, saving, start, answer, pty, flight, free)
        /\ flight.w \in Writes /\ flight.n \in 1 .. Size(flight.w) /\ Through(pty, flight.w, Size(flight.w))
        /\ Len(queue) > 0 /\ queue[1].w = flight.w /\ queue[1].offset + flight.n = Size(flight.w)
    BY <1>1, <1>2 DEF Before, FlightRight
  <1>4. Size(flight.w) \in Nat /\ flight.n \in Nat
    BY <1>3, LoadRight
  <1>5. queue' = Tail(queue) /\ free' = free + Size(queue[1].w) /\ answer' = Tell(answer, {queue[1].w}, "ok")
    <2>1. queue[1].offset + flight.n = Size(queue[1].w)
      BY <1>3
    <2>2. queue[1].offset + flight.n <= Size(queue[1].w)
      BY <1>3, <1>4, <2>1
    <2>3. IF queue[1].offset + flight.n = Size(queue[1].w)
          THEN queue' = Tail(queue) /\ free' = free + Size(queue[1].w) /\ answer' = Tell(answer, {queue[1].w}, "ok")
          ELSE /\ queue' = <<[w |-> queue[1].w, offset |-> queue[1].offset + flight.n]>> \o Tail(queue)
               /\ UNCHANGED <<free, answer>>
      BY <1>1, <1>3, <1>4, <2>2, WroteIs
    <2> QED BY <2>1, <2>3
  <1>6. /\ Core(queue', mail, saving, start, answer', pty, None, free')
        /\ Steady(answer, answer') /\ Queued(queue') \subseteq Queued(queue)
    <2>1. Through(pty, queue[1].w, Size(queue[1].w)) /\ (flight.w = queue[1].w \/ flight.w = 0)
      BY <1>3
    <2>2. /\ Core(Tail(queue), mail, saving, start, answer', pty, None, free + Size(queue[1].w))
          /\ Steady(answer, answer') /\ Queued(Tail(queue)) \subseteq Queued(queue)
      BY <1>3, <1>5, <2>1, CoreFinishes
    <2> QED BY <1>5, <2>2
  <1>7. TypedRight(typed, typing, queue', mail, answer', pty, None)
    <2>1. TypedRight(typed, typing, queue', mail, answer', pty, flight)
      BY <1>2, <1>3, <1>6, TypedKeeps DEF Before
    <2>2. \A e \in typed : None.w # e
      BY <1>2, <1>3, LoadRight DEF Before, None
    <2> QED BY <2>1, <2>2 DEF TypedRight
  <1>8. Types /\ LateRight(late, live, at, flight, queue) /\ PtyRight(pty)
    BY DEF IInv
  <1>9. LateRight(late', live', at', flight', queue')
    BY <1>1, <1>8 DEF LateRight
  <1>10. FlightRight(flight', queue', at', answer', pty')
    BY <1>1 DEF FlightRight, None
  <1>11. Types' /\ load' = load /\ windows' = windows
    <2>1. flight' \in [w : Nat, n : Nat, done : BOOLEAN]
      BY <1>1 DEF None
    <2>2. late' \in [Views -> Nat] /\ at' \in {"top", "select", "ended"}
      BY <1>1, <1>8 DEF Types
    <2>3. UNCHANGED <<load, windows, live, typing, typed>>
      BY <1>1
    <2> QED BY <1>8, <2>1, <2>2, <2>3, TransferTypes
  <1>12. PtyRight(pty') /\ EndRight(at', queue', mail', saving', start')
    BY <1>1, <1>8 DEF EndRight
  <1>13. IInvNext
    BY <1>1, <1>6, <1>7, <1>9, <1>10, <1>11, <1>12 DEF IInvNext
  <1> QED BY <1>11, <1>13, Frame

-----------------------------------------------------------------------------
(* The end of the actor *)

LEMMA EndKeeps ==
  ASSUME IInv, End
  PROVE  IInv'
  <1>1. /\ at # "ended" /\ at' = "ended"
        /\ queue' = <<>> /\ mail' = [d \in DOMAIN mail |-> <<>>] /\ saving' = {} /\ start' = 0
        /\ free' = Budget
        /\ answer' = Tell(answer, Writes, "interrupted")
        /\ UNCHANGED <<load, windows, live, flight, pty, typing, late, typed>>
    BY DEF End, fixed
  <1>2. /\ Types /\ Core(queue, mail, saving, start, answer, pty, flight, free)
        /\ FlightRight(flight, queue, at, answer, pty) /\ PtyRight(pty)
        /\ LateRight(late, live, at, flight, queue)
        /\ TypedRight(typed, typing, queue, mail, answer, pty, flight)
    BY DEF IInv
  <1>3. /\ load \in Loads /\ queue \in Seq(Item) /\ pty \in Seq(Writes \X Nat) /\ mail \in [Doors -> Seq(Writes)]
        /\ answer \in [Writes -> Answers] /\ OffersRight(answer) /\ AnswerRight(answer, pty)
        /\ QueueRight(queue, answer, pty, flight)
    BY <1>2 DEF Core
  <1>4. mail' \in [Doors -> Seq(Writes)] /\ \A d \in Doors : mail'[d] = <<>>
    <2>1. DOMAIN mail = Doors
      BY <1>3
    <2>2. mail' = [d \in Doors |-> <<>>]
      BY <1>1, <2>1
    <2>3. <<>> \in Seq(Writes)
      OBVIOUS
    <2> QED BY <2>2, <2>3
  <1>5. /\ Hears(answer, answer', pty) /\ Told(answer', answer, Writes, "interrupted")
        /\ OffersRight(answer') /\ AnswerRight(answer', pty) /\ Steady(answer, answer')
    <2>1. TrueOf("interrupted", Writes, pty)
      BY DEF TrueOf, Answers, Unheard
    <2>2. Hears(answer, answer', pty) /\ Told(answer', answer, Writes, "interrupted")
      BY <1>1, <1>3, <2>1, TellHears
    <2> QED BY <1>3, <2>2, HearsRight
  <1>6. Core(queue', mail', {}, 0, answer', pty, flight, Budget)
    <2>1. answer' \in [Writes -> Answers]
      BY <1>5 DEF Hears
    <2> QED BY <1>1, <1>3, <1>4, <1>5, <2>1, CoreEmpty
  <1>7. FlightRight(flight, queue', "ended", answer', pty)
    <2> SUFFICES ASSUME flight.w # 0 PROVE FlightRight(flight, queue', "ended", answer', pty)
      BY DEF FlightRight
    <2>1. Len(queue) > 0 /\ queue[1].w = flight.w /\ flight.w \in Writes
      BY <1>1, <1>2 DEF FlightRight
    <2>2. 1 \in 1 .. Len(queue)
      BY <1>3, <2>1
    <2>3. answer[flight.w] \in Waiting
      BY <1>3, <2>1, <2>2 DEF QueueRight
    <2>4. answer'[flight.w] \in {"timeout", "queued", "interrupted"}
      BY <1>5, <2>1, <2>3 DEF Told, Waiting
    <2> QED BY <1>2, <2>4 DEF FlightRight
  <1>8. EndRight(at', queue', mail', saving', start')
    BY <1>1, <1>4 DEF EndRight
  <1>9. LateRight(late, live, "ended", flight, queue')
    BY <1>2 DEF LateRight
  <1>10. TypedRight(typed, typing, queue', mail', answer', pty, flight)
    <2>1. Queued(queue') = {}
      BY <1>1 DEF Queued
    <2>2. Posted(mail') = {}
      BY <1>4 DEF Posted
    <2>3. typing \in BOOLEAN
      BY <1>2 DEF Types
    <2>4. typed \in SUBSET Writes
      BY <1>2 DEF Types
    <2> QED BY <1>2, <1>3, <1>5, <2>1, <2>2, <2>3, <2>4, TypedKeeps
  <1>11. Types' /\ load' = load /\ windows' = windows
    <2>1. flight' \in [w : Nat, n : Nat, done : BOOLEAN]
      <3>1. flight \in [w : Nat, n : Nat, done : BOOLEAN] /\ flight' = flight
        BY <1>1, <1>2 DEF Types
      <3> QED BY ONLY <3>1, Zenon
    <2>2. late' \in [Views -> Nat] /\ at' \in {"top", "select", "ended"}
      BY <1>1, <1>2 DEF Types
    <2>3. UNCHANGED <<load, windows, live, typing, typed>>
      BY <1>1
    <2> QED BY <1>2, <2>1, <2>2, <2>3, TransferTypes
  <1>12. IInvNext
    BY <1>1, <1>2, <1>6, <1>7, <1>8, <1>9, <1>10, <1>11 DEF IInvNext
  <1> QED BY <1>11, <1>12, Frame

-----------------------------------------------------------------------------
(* The invariant holds *)

LEMMA InitHolds ==
  ASSUME Init
  PROVE  IInv
  <1>1. /\ load \in Loads /\ windows \in BOOLEAN /\ live = Views /\ free = Budget
        /\ mail = [d \in {"commands", "host"} |-> <<>>] /\ saving = {} /\ queue = <<>>
        /\ flight = None /\ pty = <<>> /\ typing = FALSE /\ start = 0
        /\ answer = [w \in Writes |-> "none"] /\ at = "top" /\ late = [v \in Views |-> 0] /\ typed = {}
    BY Zenon DEF Init
  <1>2. mail \in [Doors -> Seq(Writes)] /\ \A d \in Doors : mail[d] = <<>>
    BY <1>1 DEF Doors
  <1>3. answer \in [Writes -> Answers] /\ OffersRight(answer)
    BY <1>1 DEF Answers, Unheard, OffersRight
  <1>4. pty \in Seq(Writes \X Nat) /\ AnswerRight(answer, pty)
    <2>1. pty \in Seq(Writes \X Nat) /\ Len(pty) = 0
      BY <1>1
    <2>2. Content(pty) = {}
      BY <2>1 DEF Content
    <2>3. \A w : Through(pty, w, 0)
      BY <2>2 DEF Through
    <2> QED BY <1>1, <2>1, <2>3 DEF AnswerRight, Fresh
  <1>5. Core(queue, mail, saving, start, answer, pty, flight, free)
    <2>1. Core(queue, mail, {}, 0, answer, pty, flight, Budget)
      BY <1>1, <1>2, <1>3, <1>4, CoreEmpty
    <2> QED BY <1>1, <2>1
  <1>6. Types
    <2>1. windows \in BOOLEAN /\ typing \in BOOLEAN
      BY <1>1
    <2>2. flight \in [w : Nat, n : Nat, done : BOOLEAN]
      BY <1>1 DEF None
    <2>3. late \in [Views -> Nat]
      BY <1>1
    <2>4. live \subseteq Views /\ at \in {"top", "select", "ended"} /\ typed \subseteq Writes
      BY <1>1
    <2> QED BY <2>1, <2>2, <2>3, <2>4 DEF Types
  <1>7. FlightRight(flight, queue, at, answer, pty) /\ EndRight(at, queue, mail, saving, start)
    BY <1>1 DEF FlightRight, EndRight, None
  <1>8. LateRight(late, live, at, flight, queue) /\ TypedRight(typed, typing, queue, mail, answer, pty, flight)
    BY <1>1 DEF LateRight, TypedRight
  <1>9. PtyRight(pty)
    <2>1. Len(pty) = 0
      BY <1>1
    <2> QED BY <2>1 DEF PtyRight
  <1> QED BY <1>5, <1>6, <1>7, <1>8, <1>9 DEF IInv

LEMMA StutterKeeps ==
  ASSUME IInv, UNCHANGED vars
  PROVE  IInv'
  <1>1. /\ load' = load /\ windows' = windows /\ queue' = queue /\ mail' = mail /\ saving' = saving
        /\ start' = start /\ answer' = answer /\ pty' = pty /\ flight' = flight /\ free' = free
        /\ at' = at /\ late' = late /\ live' = live /\ typed' = typed /\ typing' = typing
    BY DEF vars
  <1>2. Types'
    <2>1. flight' \in [w : Nat, n : Nat, done : BOOLEAN]
      <3>1. flight \in [w : Nat, n : Nat, done : BOOLEAN] /\ flight' = flight
        BY <1>1 DEF IInv, Types
      <3> QED BY ONLY <3>1, Zenon
    <2>2. late' \in [Views -> Nat] /\ at' \in {"top", "select", "ended"}
      BY <1>1 DEF IInv, Types
    <2> QED BY <1>1, <2>1, <2>2, TransferTypes DEF IInv
  <1>3. IInvNext
    BY <1>1, <1>2 DEF IInv, IInvNext
  <1> QED BY <1>1, <1>3, Frame

THEOREM IInvHolds ==
  Spec => []IInv
  <1>1. Init => IInv
    BY InitHolds
  <1>2. ASSUME IInv, [Next]_vars PROVE IInv'
    <2>1. CASE Caller
      BY <1>2, <2>1, OfferKeeps, GiveUpKeeps, CancelKeeps, TypingEndsKeeps DEF Caller
    <2>2. CASE Loop
      BY <1>2, <2>2, LoopKeeps
    <2>3. CASE TransferWrote \/ HandOver \/ ThreadWrites \/ TransferDone \/ TransferRead
      BY <1>2, <2>3, TransferWroteKeeps, HandOverKeeps, ThreadWritesKeeps, TransferDoneKeeps, TransferReadKeeps
    <2>4. CASE Reads
      BY <1>2, <2>4, CommandArmKeeps, HostArmKeeps, SavedArmKeeps DEF Reads
    <2>5. CASE Maintain
      BY <1>2, <2>5, MaintainKeeps
    <2>6. CASE End
      BY <1>2, <2>6, EndKeeps
    <2>7. CASE UNCHANGED vars
      BY <1>2, <2>7, StutterKeeps
    <2> QED BY <1>2, <2>1, <2>2, <2>3, <2>4, <2>5, <2>6, <2>7 DEF Next
  <1> QED BY <1>1, <1>2, PTL DEF Spec

-----------------------------------------------------------------------------
(* What the program gets *)

LEMMA TypeHolds ==
  ASSUME IInv
  PROVE  TypeOK
  <1>1. /\ Types /\ load \in Loads /\ queue \in Seq(Item) /\ mail \in [Doors -> Seq(Writes)]
        /\ saving \subseteq Writes /\ QueueRight(queue, answer, pty, flight) /\ BudgetRight(free, queue, mail)
    BY DEF IInv, Core
  <1>2. ASSUME NEW i \in DOMAIN queue PROVE queue[i].w \in Writes /\ queue[i].offset \in 0 .. Size(queue[i].w)
    <2>1. i \in 1 .. Len(queue)
      BY <1>1
    <2>2. queue[i].w \in Writes /\ queue[i].offset \in Nat
      BY <1>1, <2>1, QueuedIs
    <2>3. queue[i].offset <= Size(queue[i].w) /\ Size(queue[i].w) \in Nat
      BY <1>1, <2>1, <2>2, LoadRight DEF QueueRight
    <2> QED BY <2>2, <2>3
  <1>3. Holders = Holding(queue, mail)
    <2>1. DOMAIN mail = Doors
      BY <1>1
    <2>2. ASSUME NEW w \in Writes
          PROVE  (\E d \in Doors : w \in ToSet(mail[d])) <=> w \in Posted(mail)
      <3>1. ASSUME NEW d \in Doors PROVE w \in ToSet(mail[d]) <=> \E i \in 1 .. Len(mail[d]) : mail[d][i] = w
        <4>1. DOMAIN mail[d] = 1 .. Len(mail[d])
          <5>1. mail[d] \in Seq(Writes)
            BY <1>1
          <5> QED BY <5>1
        <4> QED BY <4>1 DEF ToSet
      <3> QED BY <3>1 DEF Posted
    <2>3. {w \in Writes : Admitted(w) /\ \E d \in DOMAIN mail : w \in ToSet(mail[d])} = {w \in Posted(mail) : Admitted(w)}
      BY <2>1, <2>2 DEF Posted
    <2> QED BY <2>3 DEF Holders, Holding
  <1>4. free + Cost(Holders) = Budget
    BY <1>1, <1>3 DEF BudgetRight
  <1> QED BY <1>1, <1>2, <1>4 DEF TypeOK, Types

\* The program has as many bytes of a write as it is through with.
LEMMA GotIs ==
  ASSUME load \in Loads, pty \in Seq(Writes \X Nat), PtyRight(pty), NEW w, NEW n \in Nat, Through(pty, w, n)
  PROVE  Cardinality(Got(w)) = n
  <1> DEFINE S == Got(w)
             T == 1 .. n
             f == [k \in S |-> pty[k][2]]
  <1>1. DOMAIN pty = 1 .. Len(pty) /\ Len(pty) \in Nat
    BY DEF Got
  <1>2. ASSUME NEW k \in S PROVE k \in 1 .. Len(pty) /\ pty[k] = <<w, pty[k][2]>> /\ pty[k][2] \in T
    <2>1. k \in 1 .. Len(pty) /\ pty[k][1] = w
      BY <1>1 DEF Got
    <2>2. pty[k] \in Writes \X Nat
      BY <2>1
    <2>3. pty[k] = <<w, pty[k][2]>> /\ pty[k][2] \in Nat
      BY <2>1, <2>2
    <2>4. pty[k] \in Content(pty)
      BY <2>1 DEF Content
    <2> QED BY <2>1, <2>3, <2>4 DEF Through
  <1>3. f \in [S -> T] /\ \A k \in S : f[k] = pty[k][2]
    BY <1>2
  <1>4. ASSUME NEW j \in S, NEW k \in S, f[j] = f[k] PROVE j = k
    <2>1. pty[j][2] = pty[k][2]
      BY <1>3, <1>4
    <2>2. pty[j] = pty[k] /\ j \in 1 .. Len(pty) /\ k \in 1 .. Len(pty)
      <3> HIDE DEF f, S, T
      <3> QED BY <1>2, <2>1
    <2>3. \A a, b \in 1 .. Len(pty) : a # b => pty[a] # pty[b]
      BY DEF PtyRight
    <2> QED BY ONLY <2>2, <2>3
  <1>5. ASSUME NEW i \in T PROVE \E k \in S : f[k] = i
    <2>1. <<w, i>> \in Content(pty)
      BY DEF Through
    <2>2. PICK k \in 1 .. Len(pty) : pty[k] = <<w, i>>
      BY <2>1 DEF Content
    <2>3. k \in S /\ pty[k][2] = i
      BY <1>1, <2>2 DEF Got
    <2> QED BY <1>3, <2>3
  <1>6. ExistsBijection(S, T)
    <2> HIDE DEF f, S, T
    <2> QED BY <1>3, <1>4, <1>5 DEF ExistsBijection, Bijection, Injection, Surjection, IsInjective
  <1>7. IsFiniteSet(T) /\ Cardinality(T) = n
    <2>1. 1 \in Int /\ n \in Int /\ n >= 0
      OBVIOUS
    <2>2. IsFiniteSet(T) /\ Cardinality(T) = IF 1 > n THEN 0 ELSE n - 1 + 1
      BY <2>1, FS_Interval
    <2> QED BY ONLY <2>1, <2>2
  <1>8. IsFiniteSet(S)
    <2>1. S \subseteq 1 .. Len(pty)
      BY <1>1 DEF Got
    <2>2. IsFiniteSet(1 .. Len(pty))
      <3>1. 1 \in Int /\ Len(pty) \in Int
        BY <1>1
      <3> QED BY <3>1, FS_Interval
    <2> QED BY <2>1, <2>2, FS_Subset
  <1>9. Cardinality(S) = Cardinality(T)
    <2> HIDE DEF S, T
    <2> QED BY <1>6, <1>7, <1>8, FS_Bijection
  <1> QED BY <1>7, <1>9

LEMMA FreshGot ==
  ASSUME load \in Loads, pty \in Seq(Writes \X Nat), NEW w, Fresh(pty, w)
  PROVE  Got(w) = {}
  <1> SUFFICES ASSUME NEW k \in Got(w) PROVE FALSE
    OBVIOUS
  <1>1. k \in 1 .. Len(pty) /\ pty[k][1] = w
    BY DEF Got
  <1>2. pty[k] \in Writes \X Nat
    BY <1>1
  <1>3. pty[k] = <<w, pty[k][2]>> /\ pty[k][2] \in Nat /\ pty[k] \in Content(pty)
    BY <1>1, <1>2 DEF Content
  <1> DEFINE i == pty[k][2]
  <1>4. i \in Nat /\ <<w, i>> \in Content(pty)
    BY <1>3
  <1>5. i \in 1 .. 0
    <2> HIDE DEF i
    <2> QED BY <1>4 DEF Fresh, Through
  <1> QED BY <1>5

-----------------------------------------------------------------------------
(* The theorems *)

(* What the program gets: whole writes, each view's input in the order it was typed,    *)
(* within MAX_PENDING_BYTES, and after a view lost its right to type at most the write  *)
(* that was offered before.  It holds whatever is cancelled while the Windows thread    *)
(* writes, and whichever callers give up (LocalActor::run, pending_input, wrote,        *)
(* drop_cancelled_input).                                                               *)
THEOREM InputHolds ==
  Spec => []InputWhole
  <1>1. ASSUME IInv PROVE InputWhole
    <2>1. TypeOK
      BY <1>1, TypeHolds
    <2>2. DOMAIN pty = 1 .. Len(pty) /\ PtyRight(pty)
      <3>1. pty \in Seq(Writes \X Nat) /\ PtyRight(pty)
        BY <1>1 DEF IInv, Core
      <3> QED BY <3>1
    <2>3. StaysWhole
      BY <2>2 DEF PtyRight, StaysWhole
    <2>4. InOrder
      BY <2>2 DEF PtyRight, InOrder, Stream
    <2>5. LateOnce
      <3>1. \A v \in Views : late[v] \in {0, 1}
        BY <1>1 DEF IInv, LateRight
      <3> QED BY <3>1 DEF LateOnce
    <2> QED BY <2>1, <2>3, <2>4, <2>5 DEF InputWhole
  <1> QED BY <1>1, IInvHolds, PTL

(* What callers are told is true of the bytes: "ok" says that the program got all, a    *)
(* refusal that it got none; and Enter of a message does not follow what a person typed *)
(* in the pause (accept_input, accept_command_input, takes_message, paste_saved).       *)
THEOREM AnswersHold ==
  Spec => []AnswersTrue
  <1>1. ASSUME IInv PROVE AnswersTrue
    <2>1. load \in Loads /\ pty \in Seq(Writes \X Nat) /\ PtyRight(pty) /\ AnswerRight(answer, pty)
      BY <1>1 DEF IInv, Core
    <2>2. ASSUME NEW w \in Writes
          PROVE  /\ answer[w] = "ok" => Cardinality(Got(w)) = Size(w)
                 /\ answer[w] \in {"none", "busy", "stale", "refused"} => Got(w) = {}
      <3>1. CASE answer[w] = "ok"
        <4>1. Through(pty, w, Size(w)) /\ Size(w) \in Nat
          BY <2>1, <3>1, LoadRight DEF AnswerRight
        <4>2. Cardinality(Got(w)) = Size(w)
          BY <2>1, <4>1, GotIs
        <4> QED BY <3>1, <4>2
      <3>2. CASE answer[w] # "ok"
        <4>1. answer[w] \in Unheard => Got(w) = {}
          BY <2>1, FreshGot DEF AnswerRight
        <4> QED BY <3>2, <4>1 DEF Unheard
      <3> QED BY <3>1, <3>2
    <2>3. AnswerTrue
      BY <2>2 DEF AnswerTrue
    <2>4. TextStays
      <3>1. \A e \in typed : Kind(e) = "message" => Fresh(pty, e)
        BY <1>1 DEF IInv, TypedRight
      <3> QED BY <2>1, <3>1, FreshGot DEF TextStays
    <2> QED BY <2>3, <2>4 DEF AnswersTrue
  <1> QED BY <1>1, IInvHolds, PTL

=============================================================================
