----------------------- MODULE DocumentJournalProofs -----------------------
(***************************************************************************)
(* Proofs about DocumentJournal, for any edits, batches and bounds, and    *)
(* for a disk that takes what is appended to a journal and starts and      *)
(* removes journals whole (Steady): building or writing the file may fail, *)
(* the host may crash and other programs may write the file at any point.  *)
(*                                                                         *)
(*   - each change is safe in the journal before any view hears of it;     *)
(*   - a restart builds the document again that views see;                 *)
(*   - what the task says that the file holds is in it;                    *)
(*   - a late write of another program keeps the edits made meanwhile.     *)
(*                                                                         *)
(* The inductive invariant says what the records of a journal are: those   *)
(* of every beginning of it, because a crash may leave any of them.        *)
(***************************************************************************)
EXTENDS DocumentJournal, FiniteSetTheorems, TLAPS

-----------------------------------------------------------------------------
(* Naturals and sequences *)

\* Induction up to a bound, over the set of numbers of which something holds.
LEMMA UpTo ==
  ASSUME NEW N \in Nat, NEW W, 0 \in W, \A n \in 0 .. N - 1 : n \in W => n + 1 \in W
  PROVE  0 .. N \subseteq W
  <1> SUFFICES ASSUME (0 .. N) \ W # {} PROVE FALSE
    OBVIOUS
  <1> DEFINE Z == (0 .. N) \ W
  <1>1. PICK n \in Z : \A m \in Z : ~(<<m, n>> \in OpToRel(<, Nat))
    <2>1. Z \subseteq Nat /\ Z # {}
      OBVIOUS
    <2> HIDE DEF Z
    <2> QED BY <2>1, NatLessThanWellFounded, WFMin
  <1>2. n \in 0 .. N /\ n \notin W /\ n # 0
    OBVIOUS
  <1>3. n - 1 \in 0 .. N - 1 /\ n - 1 \in Nat /\ n \in Nat /\ n - 1 < n /\ (n - 1) + 1 = n
    BY <1>2
  <1>4. n - 1 \notin Z
    BY <1>1, <1>3 DEF OpToRel
  <1>5. n - 1 \in W
    BY <1>3, <1>4
  <1> QED BY <1>2, <1>3, <1>5

\* A beginning that is one longer.
LEMMA PrefixNext ==
  ASSUME NEW X, NEW s \in Seq(X), NEW n \in 1 .. Len(s)
  PROVE  /\ SubSeq(s, 1, n) \in Seq(X) /\ SubSeq(s, 1, n - 1) \in Seq(X)
         /\ SubSeq(s, 1, n) = Append(SubSeq(s, 1, n - 1), s[n])
         /\ Len(SubSeq(s, 1, n - 1)) = n - 1
  <1>1. /\ SubSeq(s, 1, n) \in Seq(X) /\ SubSeq(s, 1, n - 1) \in Seq(X)
        /\ Len(SubSeq(s, 1, n)) = n /\ Len(SubSeq(s, 1, n - 1)) = n - 1
        /\ s[n] \in X
    OBVIOUS
  <1>2. \A i \in 1 .. n : SubSeq(s, 1, n)[i] = s[i]
    OBVIOUS
  <1>3. \A i \in 1 .. n - 1 : SubSeq(s, 1, n - 1)[i] = s[i]
    OBVIOUS
  <1> DEFINE t == SubSeq(s, 1, n) r == SubSeq(s, 1, n - 1)
  <1> HIDE DEF t, r
  <1>4. t = Append(r, s[n])
    BY <1>1, <1>2, <1>3 DEF t, r
  <1> QED BY <1>1, <1>4 DEF t, r

\* The sequence w is t after s.
Joins(w, s, t) ==
  /\ Len(w) = Len(s) + Len(t)
  /\ \A i \in 1 .. Len(s) : w[i] = s[i]
  /\ \A i \in 1 .. Len(t) : w[Len(s) + i] = t[i]

LEMMA Joined ==
  ASSUME NEW X, NEW s \in Seq(X), NEW t \in Seq(X)
  PROVE  s \o t \in Seq(X) /\ Joins(s \o t, s, t)
  BY DEF Joins

LEMMA PrefixEnds ==
  ASSUME NEW X, NEW s \in Seq(X)
  PROVE  SubSeq(s, 1, 0) = <<>> /\ SubSeq(s, 1, Len(s)) = s
  OBVIOUS

\* A function that is built step by step from a start.
Built(g, V, a, n, step) ==
  /\ g \in [0 .. n -> V] /\ g[0] = a
  /\ \A i \in 1 .. n : g[i] = step[<<g[i - 1], i>>]

LEMMA Recursion ==
  ASSUME NEW V, NEW a \in V, NEW N \in Nat, NEW step \in [V \X (1 .. N) -> V]
  PROVE  \E g : Built(g, V, a, N, step)
  <1> DEFINE Goes(g, n) == /\ g \in [0 .. n -> V] /\ g[0] = a
                           /\ \A i \in 1 .. n : g[i] = step[<<g[i - 1], i>>]
             W == {n \in 0 .. N : \E g : Goes(g, n)}
  <1>1. 0 \in W
    <2> DEFINE g == [i \in 0 .. 0 |-> a]
    <2>1. g \in [0 .. 0 -> V] /\ g[0] = a
      OBVIOUS
    <2>2. \A i \in 1 .. 0 : FALSE
      OBVIOUS
    <2> HIDE DEF g
    <2>3. Goes(g, 0)
      BY <2>1, <2>2
    <2> QED BY <2>3
  <1>2. ASSUME NEW n \in 0 .. N - 1, n \in W PROVE n + 1 \in W
    <2>1. PICK g : Goes(g, n)
      BY <1>2
    <2> DEFINE x == step[<<g[n], n + 1>>]
               h == [i \in 0 .. n + 1 |-> IF i = n + 1 THEN x ELSE g[i]]
    <2>2. g[n] \in V /\ n + 1 \in 1 .. N /\ n \in Nat
      BY <2>1
    <2>3. x \in V
      <3>1. <<g[n], n + 1>> \in V \X (1 .. N)
        BY <2>2
      <3> QED BY <3>1
    <2>4. /\ DOMAIN h = 0 .. n + 1 /\ h[n + 1] = x
          /\ \A i \in 0 .. n : h[i] = g[i]
      BY <2>2
    <2>5. x = step[<<g[n], n + 1>>]
      OBVIOUS
    <2>6. h = [i \in 0 .. n + 1 |-> h[i]]
      BY <2>4
    <2> HIDE DEF x, h
    <2>7. h[0] = a /\ \A i \in 0 .. n + 1 : h[i] \in V
      BY <2>1, <2>2, <2>3, <2>4
    <2>8. h \in [0 .. n + 1 -> V]
      BY <2>6, <2>7
    <2>9. ASSUME NEW i \in 1 .. n + 1 PROVE h[i] = step[<<h[i - 1], i>>]
      <3>1. CASE i = n + 1
        <4>1. i - 1 = n /\ h[i - 1] = g[n]
          BY <2>2, <2>4, <3>1
        <4> QED BY <2>4, <2>5, <3>1, <4>1
      <3>2. CASE i # n + 1
        <4>1. i \in 1 .. n /\ i - 1 \in 0 .. n
          BY <2>2, <3>2
        <4> QED BY <2>1, <2>4, <4>1
      <3> QED BY <3>1, <3>2
    <2>10. Goes(h, n + 1)
      BY <2>7, <2>8, <2>9
    <2> QED BY <2>2, <2>10
  <1>3. N \in W
    <2> HIDE DEF W
    <2>1. 0 .. N \subseteq W
      BY <1>1, <1>2, UpTo
    <2> QED BY <2>1
  <1> QED BY <1>3 DEF Built

-----------------------------------------------------------------------------
(* Replaying changes *)

\* Something that Apply takes.
Applicable(s) == \A i \in 1 .. Len(s) : s[i].edit \in Edit \cup Outside

LEMMA ApplyType ==
  ASSUME NEW m \in Content, NEW c, c.edit \in Edit \cup Outside
  PROVE  Apply(m, c) \in Content
  BY DEF Apply, Content

\* The contents that a replay goes through.
Passes(f, m, s) ==
  /\ f \in [0 .. Len(s) -> Content] /\ f[0] = m
  /\ \A i \in 1 .. Len(s) : f[i] = Apply(f[i - 1], s[i])

LEMMA ReplayIs ==
  ASSUME NEW m \in Content, NEW s, Len(s) \in Nat, Applicable(s)
  PROVE  \E f : Passes(f, m, s) /\ Replay(m, s) = f[Len(s)]
  <1> DEFINE N == Len(s)
             step == [p \in Content \X (1 .. N) |-> Apply(p[1], s[p[2]])]
             Body(f) == [n \in 0 .. N |-> IF n = 0 THEN m ELSE Apply(f[n - 1], s[n])]
             model == CHOOSE f : f = Body(f)
  <1>1. step \in [Content \X (1 .. N) -> Content]
    <2>1. ASSUME NEW p \in Content \X (1 .. N) PROVE Apply(p[1], s[p[2]]) \in Content
      <3>1. p[1] \in Content /\ p[2] \in 1 .. N
        OBVIOUS
      <3> QED BY <3>1, ApplyType DEF Applicable
    <2> QED BY <2>1
  <1>2. \A c \in Content : \A i \in 1 .. N : step[<<c, i>>] = Apply(c, s[i])
    OBVIOUS
  <1>3. N \in Nat
    OBVIOUS
  <1> HIDE DEF step
  <1>4. PICK g : Built(g, Content, m, N, step)
    <2> HIDE DEF N
    <2> QED BY <1>1, <1>3, Recursion
  <1>5. /\ g \in [0 .. N -> Content] /\ g[0] = m
        /\ \A i \in 1 .. N : g[i - 1] \in Content /\ g[i] = Apply(g[i - 1], s[i])
    <2> HIDE DEF N
    <2>1. \A i \in 1 .. N : i - 1 \in 0 .. N
      BY <1>3
    <2> QED BY <1>2, <1>4, <2>1 DEF Built
  <1>6. g = Body(g)
    BY <1>3, <1>5
  <1>7. model = Body(model)
    <2> HIDE DEF Body
    <2> QED BY <1>6
  <1> HIDE DEF model
  <1>8. DOMAIN model = 0 .. N /\ model[0] = m
        /\ \A i \in 1 .. N : model[i] = Apply(model[i - 1], s[i])
    BY <1>3, <1>7
  <1>9. 0 .. N \subseteq {n \in 0 .. N : model[n] = g[n]}
    <2> DEFINE W == {n \in 0 .. N : model[n] = g[n]}
    <2>1. 0 \in W
      BY <1>3, <1>5, <1>8
    <2>2. ASSUME NEW n \in 0 .. N - 1, n \in W PROVE n + 1 \in W
      <3>1. n + 1 \in 1 .. N /\ (n + 1) - 1 = n
        BY <1>3
      <3> QED BY <1>5, <1>8, <2>2, <3>1
    <2> HIDE DEF W
    <2>3. 0 .. N \subseteq W
      BY <1>3, <2>1, <2>2, UpTo
    <2> QED BY <2>3 DEF W
  <1>10. model \in [0 .. N -> Content]
    <2>1. \A n \in 0 .. N : model[n] \in Content
      BY <1>5, <1>9
    <2>2. model = [n \in 0 .. N |-> model[n]]
      BY <1>7, <1>8
    <2> QED BY <2>1, <2>2
  <1>11. Replay(m, s) = model[N]
    BY DEF Replay, model
  <1>12. Passes(model, m, s)
    BY <1>8, <1>10 DEF Passes
  <1> QED BY <1>11, <1>12

LEMMA ReplayType ==
  ASSUME NEW m \in Content, NEW s, Len(s) \in Nat, Applicable(s)
  PROVE  Replay(m, s) \in Content
  <1>1. PICK f : Passes(f, m, s) /\ Replay(m, s) = f[Len(s)]
    BY ReplayIs
  <1> QED BY <1>1 DEF Passes

LEMMA ReplayNothing ==
  ASSUME NEW m \in Content
  PROVE  Replay(m, <<>>) = m
  <1>1. Len(<<>>) = 0 /\ Applicable(<<>>)
    BY DEF Applicable
  <1>2. PICK f : Passes(f, m, <<>>) /\ Replay(m, <<>>) = f[Len(<<>>)]
    BY <1>1, ReplayIs
  <1> QED BY <1>1, <1>2 DEF Passes

\* More changes are replayed on what came of the first ones.
LEMMA ReplayMore ==
  ASSUME NEW m \in Content, NEW s, NEW t, NEW u, Len(s) \in Nat, Len(t) \in Nat,
         Applicable(s), Applicable(t), Len(u) = Len(s) + Len(t),
         \A i \in 1 .. Len(s) : u[i] = s[i],
         \A i \in 1 .. Len(t) : u[Len(s) + i].op = t[i].op /\ u[Len(s) + i].edit = t[i].edit
  PROVE  Applicable(u) /\ Replay(m, u) = Replay(Replay(m, s), t)
  <1> DEFINE N == Len(s) K == Len(t) mid == Replay(m, s)
  <1>1. N \in Nat /\ K \in Nat /\ Len(u) = N + K
    OBVIOUS
  <1>2. Applicable(u)
    <2>1. ASSUME NEW i \in 1 .. N + K PROVE u[i].edit \in Edit \cup Outside
      <3>1. CASE i <= N
        BY <1>1, <3>1 DEF Applicable
      <3>2. CASE i > N
        <4>1. i - N \in 1 .. K /\ N + (i - N) = i
          BY <1>1, <3>2
        <4> QED BY <4>1 DEF Applicable
      <3> QED BY <1>1, <3>1, <3>2
    <2> QED BY <1>1, <2>1 DEF Applicable
  <1>3. PICK f : Passes(f, m, s) /\ mid = f[N]
    BY ReplayIs
  <1>4. mid \in Content
    BY ReplayType
  <1> HIDE DEF mid
  <1>5. PICK h : Passes(h, mid, t) /\ Replay(mid, t) = h[K]
    BY <1>4, ReplayIs
  <1>6. PICK g : Passes(g, m, u) /\ Replay(m, u) = g[N + K]
    BY <1>1, <1>2, ReplayIs
  <1>7. \A i \in 1 .. N + K : g[i] = Apply(g[i - 1], u[i])
    BY <1>1, <1>6 DEF Passes
  <1>8. \A i \in 1 .. N : f[i] = Apply(f[i - 1], s[i])
    BY <1>3 DEF Passes
  <1>9. \A i \in 1 .. K : h[i] = Apply(h[i - 1], t[i])
    BY <1>5 DEF Passes
  <1>10. g[0] = m /\ f[0] = m /\ h[0] = mid
    BY <1>3, <1>5, <1>6 DEF Passes
  <1>11. \A i \in 1 .. N : u[i] = s[i]
    OBVIOUS
  <1>12. \A i \in 1 .. K : u[N + i].op = t[i].op /\ u[N + i].edit = t[i].edit
    OBVIOUS
  <1> HIDE DEF N, K
  <1>13. g[N] = f[N]
    <2> DEFINE W == {n \in 0 .. N : g[n] = f[n]}
    <2>1. 0 \in W
      BY <1>1, <1>10
    <2>2. ASSUME NEW n \in 0 .. N - 1, n \in W PROVE n + 1 \in W
      <3>1. n + 1 \in 1 .. N /\ n + 1 \in 1 .. N + K /\ (n + 1) - 1 = n /\ g[n] = f[n]
        BY <1>1, <2>2
      <3>2. g[n + 1] = f[n + 1]
        BY <1>7, <1>8, <1>11, <3>1
      <3> QED BY <3>1, <3>2
    <2> HIDE DEF W
    <2>3. 0 .. N \subseteq W
      BY <1>1, <2>1, <2>2, UpTo
    <2> QED BY <1>1, <2>3 DEF W
  <1>14. g[N + K] = h[K]
    <2> DEFINE W == {n \in 0 .. K : g[N + n] = h[n]}
    <2>1. 0 \in W
      BY <1>1, <1>3, <1>10, <1>13
    <2>2. ASSUME NEW n \in 0 .. K - 1, n \in W PROVE n + 1 \in W
      <3>1. /\ n + 1 \in 1 .. K /\ N + (n + 1) \in 1 .. N + K /\ (N + (n + 1)) - 1 = N + n
            /\ (n + 1) - 1 = n /\ g[N + n] = h[n]
        BY <1>1, <2>2
      <3>2. g[N + (n + 1)] = Apply(g[N + n], u[N + (n + 1)]) /\ h[n + 1] = Apply(h[n], t[n + 1])
        BY <1>7, <1>9, <3>1
      <3>3. Apply(g[N + n], u[N + (n + 1)]) = Apply(h[n], t[n + 1])
        BY <1>12, <3>1 DEF Apply
      <3>4. g[N + (n + 1)] = h[n + 1]
        BY <3>2, <3>3
      <3> QED BY <3>1, <3>4
    <2> HIDE DEF W
    <2>3. 0 .. K \subseteq W
      BY <1>1, <2>1, <2>2, UpTo
    <2> QED BY <1>1, <2>3 DEF W
  <1> QED BY <1>2, <1>5, <1>6, <1>14 DEF mid

-----------------------------------------------------------------------------
(* The records of one kind *)

Record == Change \cup SavedRecord

\* What is picked of each beginning.
Picks(f, s, kind) ==
  /\ f \in [0 .. Len(s) -> Seq(Record)] /\ f[0] = <<>>
  /\ \A i \in 1 .. Len(s) :
       f[i] = IF s[i].kind = kind THEN Append(f[i - 1], s[i]) ELSE f[i - 1]

LEMMA OfKindIs ==
  ASSUME NEW s \in Seq(Record), NEW kind
  PROVE  /\ \E f : Picks(f, s, kind) /\ OfKind(s, kind) = f[Len(s)]
         /\ \A f : Picks(f, s, kind) => OfKind(s, kind) = f[Len(s)]
  <1> DEFINE N == Len(s)
             V == Seq(Record)
             Next1(p) == IF s[p[2]].kind = kind THEN Append(p[1], s[p[2]]) ELSE p[1]
             step == [p \in V \X (1 .. N) |-> Next1(p)]
             More(c, i) == IF s[i].kind = kind THEN Append(c, s[i]) ELSE c
             Body(f) == [n \in 0 .. N |-> IF n = 0 THEN <<>> ELSE More(f[n - 1], n)]
             picked == CHOOSE f : f = Body(f)
  <1>1. step \in [V \X (1 .. N) -> V]
    <2>1. ASSUME NEW p \in V \X (1 .. N) PROVE Next1(p) \in V
      <3>1. p[1] \in Seq(Record) /\ p[2] \in 1 .. N /\ s[p[2]] \in Record
        OBVIOUS
      <3>2. Append(p[1], s[p[2]]) \in Seq(Record)
        BY <3>1
      <3> QED BY <3>1, <3>2
    <2> HIDE DEF Next1, V
    <2> QED BY <2>1
  <1>2. \A c \in V : \A i \in 1 .. N :
          step[<<c, i>>] = IF s[i].kind = kind THEN Append(c, s[i]) ELSE c
    OBVIOUS
  <1>3. N \in Nat /\ <<>> \in V
    OBVIOUS
  <1> HIDE DEF step
  <1>4. PICK g : Built(g, V, <<>>, N, step)
    <2> HIDE DEF N, V
    <2> QED BY <1>1, <1>3, Recursion
  <1>5. /\ g \in [0 .. N -> V] /\ g[0] = <<>>
        /\ \A i \in 1 .. N :
             g[i] = IF s[i].kind = kind THEN Append(g[i - 1], s[i]) ELSE g[i - 1]
    <2> HIDE DEF N, V
    <2>1. \A i \in 1 .. N : i - 1 \in 0 .. N
      BY <1>3
    <2> QED BY <1>2, <1>4, <2>1 DEF Built
  <1>6. g = Body(g)
    <2>1. \A i \in 1 .. N : g[i] = More(g[i - 1], i)
      BY <1>5
    <2> HIDE DEF V, More
    <2> QED BY <1>3, <1>5, <2>1
  <1>7. picked = Body(picked)
    <2> HIDE DEF Body
    <2> QED BY <1>6
  <1> HIDE DEF picked
  <1>8. /\ picked = [n \in 0 .. N |-> picked[n]] /\ picked[0] = <<>>
        /\ \A i \in 1 .. N :
             picked[i] = IF s[i].kind = kind THEN Append(picked[i - 1], s[i]) ELSE picked[i - 1]
    <2>1. DOMAIN picked = 0 .. N
      BY <1>7
    <2>2. /\ picked = [n \in 0 .. N |-> picked[n]] /\ picked[0] = <<>>
          /\ \A i \in 1 .. N : picked[i] = More(picked[i - 1], i)
      <3> HIDE DEF More
      <3> QED BY <1>3, <1>7, <2>1
    <2> QED BY <2>2
  <1>9. OfKind(s, kind) = picked[N]
    BY DEF OfKind, picked
  <1>10. ASSUME NEW f, Picks(f, s, kind) PROVE picked[N] = f[N]
    <2>1. /\ f[0] = <<>>
          /\ \A i \in 1 .. N :
               f[i] = IF s[i].kind = kind THEN Append(f[i - 1], s[i]) ELSE f[i - 1]
      BY <1>10 DEF Picks
    <2> DEFINE W == {n \in 0 .. N : picked[n] = f[n]}
    <2>2. 0 \in W
      BY <1>3, <1>8, <2>1
    <2>3. ASSUME NEW n \in 0 .. N - 1, n \in W PROVE n + 1 \in W
      <3>1. n + 1 \in 1 .. N /\ (n + 1) - 1 = n /\ picked[n] = f[n]
        BY <1>3, <2>3
      <3>2. picked[n + 1] = f[n + 1]
        BY <1>8, <2>1, <3>1
      <3> QED BY <3>1, <3>2
    <2> HIDE DEF W
    <2>4. 0 .. N \subseteq W
      BY <1>3, <2>2, <2>3, UpTo
    <2> QED BY <1>3, <2>4 DEF W
  <1>11. Picks(g, s, kind)
    BY <1>5 DEF Picks
  <1>12. OfKind(s, kind) = g[N]
    BY <1>9, <1>10, <1>11
  <1> QED BY <1>9, <1>10, <1>11, <1>12

\* One record more or less.
LEMMA OfKindSteps ==
  ASSUME NEW s \in Seq(Record), NEW kind
  PROVE  /\ OfKind(<<>>, kind) = <<>> /\ OfKind(s, kind) \in Seq(Record)
         /\ \A x \in Record : OfKind(Append(s, x), kind) =
              IF x.kind = kind THEN Append(OfKind(s, kind), x) ELSE OfKind(s, kind)
  <1>1. OfKind(<<>>, kind) = <<>>
    <2>1. <<>> \in Seq(Record) /\ Len(<<>>) = 0
      OBVIOUS
    <2>2. PICK f : Picks(f, <<>>, kind) /\ OfKind(<<>>, kind) = f[Len(<<>>)]
      BY <2>1, OfKindIs
    <2> QED BY <2>1, <2>2 DEF Picks
  <1>2. PICK f : Picks(f, s, kind) /\ OfKind(s, kind) = f[Len(s)]
    BY OfKindIs
  <1>3. OfKind(s, kind) \in Seq(Record)
    BY <1>2 DEF Picks
  <1>4. ASSUME NEW x \in Record
        PROVE  OfKind(Append(s, x), kind) =
                 IF x.kind = kind THEN Append(OfKind(s, kind), x) ELSE OfKind(s, kind)
    <2> DEFINE N == Len(s)
               t == Append(s, x)
               y == IF x.kind = kind THEN Append(f[N], x) ELSE f[N]
               g == [i \in 0 .. N + 1 |-> IF i = N + 1 THEN y ELSE f[i]]
    <2>1. N \in Nat /\ t \in Seq(Record) /\ Len(t) = N + 1 /\ t[N + 1] = x
          /\ \A i \in 1 .. N : t[i] = s[i]
      OBVIOUS
    <2>2. /\ f \in [0 .. N -> Seq(Record)] /\ f[0] = <<>>
          /\ \A i \in 1 .. N :
               f[i] = IF s[i].kind = kind THEN Append(f[i - 1], s[i]) ELSE f[i - 1]
      BY <1>2 DEF Picks
    <2>3. y \in Seq(Record)
      <3>1. f[N] \in Seq(Record) /\ Append(f[N], x) \in Seq(Record)
        BY <2>1, <2>2
      <3> QED BY <3>1
    <2>4. y = IF x.kind = kind THEN Append(f[N], x) ELSE f[N]
      OBVIOUS
    <2> HIDE DEF y, t
    <2>5. g \in [0 .. N + 1 -> Seq(Record)] /\ g[N + 1] = y /\ \A i \in 0 .. N : g[i] = f[i]
      BY <2>1, <2>2, <2>3
    <2> HIDE DEF g
    <2>6. \A i \in 1 .. N + 1 : g[i] = IF t[i].kind = kind THEN Append(g[i - 1], t[i])
                                       ELSE g[i - 1]
      <3>1. ASSUME NEW i \in 1 .. N
            PROVE  g[i] = IF t[i].kind = kind THEN Append(g[i - 1], t[i]) ELSE g[i - 1]
        <4>1. i - 1 \in 0 .. N /\ i \in 0 .. N
          BY <2>1
        <4> QED BY <2>1, <2>2, <2>5, <4>1
      <3>2. g[N + 1] = IF t[N + 1].kind = kind THEN Append(g[(N + 1) - 1], t[N + 1])
                       ELSE g[(N + 1) - 1]
        <4>1. (N + 1) - 1 = N /\ N \in 0 .. N
          BY <2>1
        <4> QED BY <2>1, <2>4, <2>5, <4>1
      <3>3. \A i \in 1 .. N + 1 : i \in 1 .. N \/ i = N + 1
        BY <2>1
      <3> QED BY <3>1, <3>2, <3>3
    <2>7. g[0] = <<>>
      BY <2>1, <2>2, <2>5
    <2>8. Picks(g, t, kind)
      BY <2>1, <2>5, <2>6, <2>7 DEF Picks
    <2>9. OfKind(t, kind) = g[N + 1]
      BY <2>1, <2>8, OfKindIs
    <2> QED BY <1>2, <2>4, <2>5, <2>9 DEF t
  <1> QED BY <1>1, <1>3, <1>4


-----------------------------------------------------------------------------
(* What the records of each kind say together *)

\* The changes of s and its saves.
Changes(s) == OfKind(s, "change")
Saves(s) == OfKind(s, "saved")

\* Every record of s is among its changes or its saves, in either way once.
Sorted(s) ==
  /\ Changes(s) \in Seq(Change) /\ Saves(s) \in Seq(SavedRecord)
  /\ Len(Changes(s)) + Len(Saves(s)) = Len(s)
  /\ \A i \in 1 .. Len(Changes(s)) : \E j \in 1 .. Len(s) : s[j] = Changes(s)[i]
  /\ \A j \in 1 .. Len(s) : s[j] \in Change =>
       \E i \in 1 .. Len(Changes(s)) : Changes(s)[i] = s[j]

LEMMA RecordKinds ==
  ASSUME NEW x \in Record
  PROVE  \/ x \in Change /\ x \notin SavedRecord /\ x.kind = "change"
         \/ x \in SavedRecord /\ x \notin Change /\ x.kind = "saved"
  <1>1. CASE x \in Change
    <2>1. x.kind = "change"
      BY <1>1 DEF Change
    <2>2. x \notin SavedRecord
      BY <2>1 DEF SavedRecord
    <2> QED BY <1>1, <2>1, <2>2
  <1>2. CASE x \in SavedRecord
    <2>1. x.kind = "saved"
      BY <1>2 DEF SavedRecord
    <2>2. x \notin Change
      BY <2>1 DEF Change
    <2> QED BY <1>2, <2>1, <2>2
  <1> QED BY <1>1, <1>2 DEF Record

\* One more change, or one more save.
LEMMA OneMore ==
  ASSUME NEW s \in Seq(Record), NEW x \in Record
  PROVE  /\ x \in Change => /\ Changes(Append(s, x)) = Append(Changes(s), x)
                            /\ Saves(Append(s, x)) = Saves(s)
         /\ x \in SavedRecord => /\ Saves(Append(s, x)) = Append(Saves(s), x)
                                 /\ Changes(Append(s, x)) = Changes(s)
  <1>1. ASSUME NEW kind PROVE OfKind(Append(s, x), kind) =
           IF x.kind = kind THEN Append(OfKind(s, kind), x) ELSE OfKind(s, kind)
    BY OfKindSteps
  <1>2. \/ x \in Change /\ x \notin SavedRecord /\ x.kind = "change"
        \/ x \in SavedRecord /\ x \notin Change /\ x.kind = "saved"
    BY RecordKinds
  <1>3. /\ Changes(Append(s, x)) = IF x.kind = "change" THEN Append(Changes(s), x)
                                   ELSE Changes(s)
        /\ Saves(Append(s, x)) = IF x.kind = "saved" THEN Append(Saves(s), x) ELSE Saves(s)
    BY <1>1 DEF Changes, Saves
  <1> QED BY <1>2, <1>3

LEMMA SortedNext ==
  ASSUME NEW s \in Seq(Record), NEW x \in Record, Sorted(s)
  PROVE  Sorted(Append(s, x))
  <1> DEFINE t == Append(s, x)
             C == Changes(s) S == Saves(s) C2 == Changes(t) S2 == Saves(t)
  <1>1. /\ Len(t) = Len(s) + 1 /\ t[Len(s) + 1] = x /\ Len(s) \in Nat
        /\ \A j \in 1 .. Len(s) : t[j] = s[j]
    OBVIOUS
  <1>2. /\ x \in Change => C2 = Append(C, x) /\ S2 = S
        /\ x \in SavedRecord => S2 = Append(S, x) /\ C2 = C
    BY OneMore
  <1>3. /\ C \in Seq(Change) /\ S \in Seq(SavedRecord) /\ Len(C) + Len(S) = Len(s)
        /\ \A i \in 1 .. Len(C) : \E j \in 1 .. Len(s) : s[j] = C[i]
        /\ \A j \in 1 .. Len(s) : s[j] \in Change => \E i \in 1 .. Len(C) : C[i] = s[j]
    BY DEF Sorted
  <1>4. \/ x \in Change /\ x \notin SavedRecord
        \/ x \in SavedRecord /\ x \notin Change
    BY RecordKinds
  <1> HIDE DEF t, C, S, C2, S2
  <1>5. /\ C2 \in Seq(Change) /\ S2 \in Seq(SavedRecord) /\ Len(C2) + Len(S2) = Len(t)
    <2>1. Len(C) \in Nat /\ Len(S) \in Nat
      BY <1>3
    <2>2. CASE x \in Change
      <3>1. C2 = Append(C, x) /\ S2 = S
        BY <1>2, <2>2
      <3>2. C2 \in Seq(Change) /\ Len(C2) = Len(C) + 1
        BY <1>3, <2>2, <3>1
      <3> QED BY <1>1, <1>3, <2>1, <3>1, <3>2
    <2>3. CASE x \in SavedRecord
      <3>1. S2 = Append(S, x) /\ C2 = C
        BY <1>2, <2>3
      <3>2. S2 \in Seq(SavedRecord) /\ Len(S2) = Len(S) + 1
        BY <1>3, <2>3, <3>1
      <3>3. C2 \in Seq(Change) /\ Len(C2) = Len(C)
        BY <1>3, <3>1
      <3>4. /\ Len(C) + Len(S) = Len(s) /\ Len(t) = Len(s) + 1
            /\ Len(C2) = Len(C) /\ Len(S2) = Len(S) + 1
        BY <1>1, <1>3, <3>2, <3>3
      <3>5. Len(C2) + Len(S2) = Len(t)
        BY ONLY <2>1, <3>4
      <3> QED BY <3>2, <3>3, <3>5
    <2> QED BY <1>4, <2>2, <2>3
  <1>6. \A i \in 1 .. Len(C2) : \E j \in 1 .. Len(t) : t[j] = C2[i]
    <2>1. ASSUME NEW i \in 1 .. Len(C2) PROVE \E j \in 1 .. Len(t) : t[j] = C2[i]
      <3>1. CASE i \in 1 .. Len(C) /\ C2[i] = C[i]
        <4>1. PICK j \in 1 .. Len(s) : s[j] = C[i]
          BY <1>3, <3>1
        <4>2. j \in 1 .. Len(t) /\ t[j] = C2[i]
          BY <1>1, <3>1, <4>1
        <4> QED BY <4>2
      <3>2. CASE C2[i] = x
        <4>1. Len(s) + 1 \in 1 .. Len(t) /\ t[Len(s) + 1] = C2[i]
          BY <1>1, <3>2
        <4> QED BY <4>1
      <3>3. \/ i \in 1 .. Len(C) /\ C2[i] = C[i]
            \/ C2[i] = x
        <4>1. CASE x \in Change
          BY <1>2, <1>3, <2>1, <4>1
        <4>2. CASE x \in SavedRecord
          BY <1>2, <1>3, <2>1, <4>2
        <4> QED BY <1>4, <4>1, <4>2
      <3> QED BY <3>1, <3>2, <3>3
    <2> QED BY <2>1
  <1>7. \A j \in 1 .. Len(t) : t[j] \in Change => \E i \in 1 .. Len(C2) : C2[i] = t[j]
    <2>1. ASSUME NEW j \in 1 .. Len(t), t[j] \in Change
          PROVE  \E i \in 1 .. Len(C2) : C2[i] = t[j]
      <3>1. \A i \in 1 .. Len(C) : i \in 1 .. Len(C2) /\ C2[i] = C[i]
        <4>1. CASE x \in Change
          BY <1>2, <1>3, <4>1
        <4>2. CASE x \in SavedRecord
          BY <1>2, <1>3, <4>2
        <4> QED BY <1>4, <4>1, <4>2
      <3>2. CASE j \in 1 .. Len(s)
        <4>1. PICK i \in 1 .. Len(C) : C[i] = s[j]
          BY <1>1, <1>3, <2>1, <3>2
        <4> QED BY <1>1, <3>1, <3>2, <4>1
      <3>3. CASE j = Len(s) + 1
        <4>1. x \in Change /\ C2 = Append(C, x) /\ t[j] = x
          BY <1>1, <1>2, <2>1, <3>3
        <4>2. Len(C) + 1 \in 1 .. Len(C2) /\ C2[Len(C) + 1] = x
          BY <1>3, <4>1
        <4> QED BY <4>1, <4>2
      <3> QED BY <1>1, <3>2, <3>3
    <2> QED BY <2>1
  <1> QED BY <1>5, <1>6, <1>7 DEF Sorted, t, C2, S2

LEMMA AreSorted ==
  ASSUME NEW s \in Seq(Record)
  PROVE  Sorted(s)
  <1> DEFINE Part(n) == SubSeq(s, 1, n)
             W == {n \in 0 .. Len(s) : Sorted(Part(n))}
  <1>1. Len(s) \in Nat /\ Part(0) = <<>> /\ Part(Len(s)) = s
    BY PrefixEnds
  <1> HIDE DEF Part
  <1>2. 0 \in W
    <2>1. <<>> \in Seq(Record) /\ Len(<<>>) = 0 /\ <<>> \in Seq(Change)
          /\ <<>> \in Seq(SavedRecord)
      OBVIOUS
    <2>2. Changes(<<>>) = <<>> /\ Saves(<<>>) = <<>>
      BY <2>1, OfKindSteps DEF Changes, Saves
    <2>3. Sorted(<<>>)
      <3> DEFINE none == <<>>
      <3>1. none \in Seq(Change) /\ none \in Seq(SavedRecord) /\ Len(none) = 0
            /\ Changes(none) = none /\ Saves(none) = none
        BY <2>1, <2>2
      <3> HIDE DEF none
      <3>2. Sorted(none)
        BY <3>1 DEF Sorted
      <3> QED BY <3>2 DEF none
    <2> QED BY <1>1, <2>3
  <1>3. ASSUME NEW n \in 0 .. Len(s) - 1, n \in W PROVE n + 1 \in W
    <2>1. n + 1 \in 1 .. Len(s) /\ (n + 1) - 1 = n
      BY <1>1
    <2>2. Part(n) \in Seq(Record) /\ Part(n + 1) = Append(Part(n), s[n + 1])
      BY <2>1, PrefixNext DEF Part
    <2>3. s[n + 1] \in Record
      BY <2>1
    <2>4. Sorted(Part(n))
      BY <1>3
    <2>5. Sorted(Part(n + 1))
      BY <2>2, <2>3, <2>4, SortedNext
    <2> QED BY <2>1, <2>5
  <1> HIDE DEF W
  <1>4. 0 .. Len(s) \subseteq W
    BY <1>1, <1>2, <1>3, UpTo
  <1> QED BY <1>1, <1>4 DEF W

\* Changes that are appended are changes of the journal, and nothing else.
LEMMA MoreChanges ==
  ASSUME NEW s \in Seq(Record), NEW t \in Seq(Change)
  PROVE  /\ s \o t \in Seq(Record)
         /\ Changes(s \o t) = Changes(s) \o t /\ Saves(s \o t) = Saves(s)
  <1> DEFINE Part(n) == SubSeq(t, 1, n)
             Good(n) == /\ s \o Part(n) \in Seq(Record)
                        /\ Changes(s \o Part(n)) = Changes(s) \o Part(n)
                        /\ Saves(s \o Part(n)) = Saves(s)
             W == {n \in 0 .. Len(t) : Good(n)}
  <1>1. Len(t) \in Nat /\ Part(0) = <<>> /\ Part(Len(t)) = t
    BY PrefixEnds
  <1> HIDE DEF Part
  <1>2. Changes(s) \in Seq(Change)
    BY AreSorted DEF Sorted
  <1>3. 0 \in W
    <2>1. s \o Part(0) = s /\ Changes(s) \o Part(0) = Changes(s)
      BY <1>1, <1>2
    <2>2. Good(0)
      BY <2>1
    <2> HIDE DEF Good
    <2> QED BY <1>1, <2>2
  <1>4. ASSUME NEW n \in 0 .. Len(t) - 1, n \in W PROVE n + 1 \in W
    <2> DEFINE u == Part(n) x == t[n + 1] p == s \o u
    <2>1. n + 1 \in 1 .. Len(t) /\ (n + 1) - 1 = n
      BY <1>1
    <2>2. u \in Seq(Change) /\ Part(n + 1) = Append(u, x) /\ x \in Change
      BY <2>1, PrefixNext DEF Part
    <2>3. x \in Record
      BY <2>2 DEF Record
    <2>4. p \in Seq(Record) /\ Changes(p) = Changes(s) \o u /\ Saves(p) = Saves(s)
      BY <1>4
    <2>5. s \o Append(u, x) = Append(p, x) /\ Changes(s) \o Append(u, x) =
            Append(Changes(s) \o u, x)
      <3> HIDE DEF u, x
      <3>1. \A r \in Seq(Record) : r \o Append(u, x) = Append(r \o u, x)
        <4>1. u \in Seq(Record)
          BY <2>2 DEF Record
        <4> QED BY <2>3, <4>1
      <3>2. \A r \in Seq(Change) : r \o Append(u, x) = Append(r \o u, x)
        BY <2>2
      <3> QED BY <1>2, <3>1, <3>2
    <2> HIDE DEF u, x, p
    <2>6. /\ Changes(Append(p, x)) = Append(Changes(p), x)
          /\ Saves(Append(p, x)) = Saves(p)
      BY <2>2, <2>3, <2>4, OneMore
    <2>8. Append(p, x) \in Seq(Record)
      BY ONLY <2>3, <2>4
    <2>7. Good(n + 1)
      BY <2>2, <2>4, <2>5, <2>6, <2>8
    <2> QED BY <2>1, <2>7
  <1> HIDE DEF W
  <1>5. 0 .. Len(t) \subseteq W
    BY <1>1, <1>3, <1>4, UpTo
  <1>6. Len(t) \in W
    BY <1>1, <1>5
  <1> QED BY <1>1, <1>6 DEF W


-----------------------------------------------------------------------------
(* What a journal may hold *)

LEMMA NothingTorn ==
  ASSUME NEW s \in Seq(Record)
  PROVE  Whole(s) = s
  <1>1. ASSUME NEW i \in DOMAIN s PROVE s[i].kind # "torn"
    <2>1. s[i] \in Record
      BY <1>1
    <2> QED BY <2>1, RecordKinds
  <1> QED BY <1>1 DEF Whole

\* The rev that the records of a journal that starts after `first` saved last.
SavedIn(s, first) == IF Saves(s) = <<>> THEN first ELSE Saves(s)[Len(Saves(s))].rev

\* Changes with one rev after the other.
Chain(log, first) == \A i \in 1 .. Len(log) : log[i].rev = first + i

(***************************************************************************)
(* The records of a journal that starts after `first`: each save is of a   *)
(* change that was there, and no rev is saved twice.                       *)
(***************************************************************************)
Right(s, first) ==
  /\ Chain(Changes(s), first)
  /\ first + Len(Changes(s)) <= MaxRev
  /\ SavedIn(s, first) \in first .. first + Len(Changes(s))
  /\ Len(Saves(s)) <= SavedIn(s, first) - first

\* A crash may leave any beginning of the records.
AllRight(s, first) == \A n \in 0 .. Len(s) : Right(SubSeq(s, 1, n), first)

LEMMA RightNow ==
  ASSUME NEW s \in Seq(Record), NEW first \in Nat, AllRight(s, first)
  PROVE  Right(s, first)
  <1>1. SubSeq(s, 1, Len(s)) = s /\ Len(s) \in 0 .. Len(s)
    OBVIOUS
  <1>2. Right(SubSeq(s, 1, Len(s)), first)
    BY <1>1 DEF AllRight
  <1> QED BY <1>1, <1>2

LEMMA NothingRight ==
  ASSUME NEW first \in Nat, first <= MaxRev
  PROVE  AllRight(<<>>, first) /\ Changes(<<>>) = <<>> /\ SavedIn(<<>>, first) = first
  <1>1. MaxRev \in Nat
    BY JournalAssumption
  <1>2. <<>> \in Seq(Record)
    OBVIOUS
  <1>3. Changes(<<>>) = <<>> /\ Saves(<<>>) = <<>>
    BY <1>2, OfKindSteps DEF Changes, Saves
  <1>4. SavedIn(<<>>, first) = first
    BY <1>3 DEF SavedIn
  <1>5. Right(<<>>, first)
    <2> DEFINE none == <<>>
    <2>1. Changes(none) = none /\ Saves(none) = none /\ Len(none) = 0
          /\ SavedIn(none, first) = first
      BY <1>3, <1>4
    <2> HIDE DEF none
    <2>2. Right(none, first)
      BY <1>1, <2>1 DEF Right, Chain
    <2> QED BY <2>2 DEF none
  <1>6. \A n \in 0 .. Len(<<>>) : n = 0 /\ SubSeq(<<>>, 1, n) = <<>>
    OBVIOUS
  <1>7. AllRight(<<>>, first)
    BY <1>5, <1>6 DEF AllRight
  <1> QED BY <1>3, <1>4, <1>7

LEMMA BeginningRight ==
  ASSUME NEW s \in Seq(Record), NEW first \in Nat, AllRight(s, first), NEW n \in 0 .. Len(s)
  PROVE  /\ SubSeq(s, 1, n) \in Seq(Record) /\ Len(SubSeq(s, 1, n)) = n
         /\ \A i \in 1 .. n : SubSeq(s, 1, n)[i] = s[i]
         /\ AllRight(SubSeq(s, 1, n), first)
  <1>1. /\ SubSeq(s, 1, n) \in Seq(Record) /\ Len(SubSeq(s, 1, n)) = n
        /\ \A i \in 1 .. n : SubSeq(s, 1, n)[i] = s[i]
    OBVIOUS
  <1>2. ASSUME NEW m \in 0 .. n
        PROVE  SubSeq(SubSeq(s, 1, n), 1, m) = SubSeq(s, 1, m) /\ m \in 0 .. Len(s)
    OBVIOUS
  <1> QED BY <1>1, <1>2 DEF AllRight

\* One change after the others, or a save of the last of them.
LEMMA ChangesRight ==
  ASSUME NEW s \in Seq(Record), NEW first \in Nat, AllRight(s, first), NEW t \in Seq(Change),
         \A i \in 1 .. Len(t) : t[i].rev = first + Len(Changes(s)) + i,
         first + Len(Changes(s)) + Len(t) <= MaxRev
  PROVE  AllRight(s \o t, first)
  <1>1. MaxRev \in Nat
    BY JournalAssumption
  <1> DEFINE C == Changes(s) N == Len(s)
  <1>2. Right(s, first) /\ Sorted(s)
    BY RightNow, AreSorted
  <1>3. C \in Seq(Change) /\ Len(C) \in Nat /\ N \in Nat /\ Len(t) \in Nat
    BY <1>2 DEF Sorted
  <1>4. Saves(s) \in Seq(SavedRecord) /\ Len(Saves(s)) \in Nat
    BY <1>2 DEF Sorted
  <1>5. ASSUME NEW k \in 0 .. Len(t) PROVE Right(s \o SubSeq(t, 1, k), first)
    <2> DEFINE u == SubSeq(t, 1, k) p == s \o u
    <2>1. u \in Seq(Change) /\ Len(u) = k /\ \A i \in 1 .. k : u[i] = t[i]
      BY <1>5
    <2> HIDE DEF u
    <2>2. Changes(p) = C \o u /\ Saves(p) = Saves(s)
      BY <2>1, MoreChanges
    <2>9. /\ Len(C \o u) = Len(C) + k
          /\ \A i \in 1 .. Len(C) : (C \o u)[i] = C[i]
          /\ \A i \in 1 .. k : (C \o u)[Len(C) + i] = t[i]
      <3>1. C \in Seq(Change) /\ u \in Seq(Change) /\ Len(u) = k
            /\ \A i \in 1 .. k : u[i] = t[i]
        BY <1>3, <2>1
      <3> HIDE DEF C
      <3>2. Joins(C \o u, C, u)
        BY ONLY <3>1, Joined
      <3> DEFINE w == C \o u
      <3> HIDE DEF w
      <3>3. Joins(w, C, u)
        BY <3>2 DEF w
      <3>4. /\ Len(w) = Len(C) + k /\ \A i \in 1 .. Len(C) : w[i] = C[i]
            /\ \A i \in 1 .. k : w[Len(C) + i] = t[i]
        BY <3>1, <3>3 DEF Joins
      <3> QED BY <3>4 DEF w
    <2>12. \A i \in 1 .. Len(t) : t[i].rev = first + Len(C) + i
      OBVIOUS
    <2> DEFINE w == C \o u
    <2> HIDE DEF w, C, p
    <2>3. Len(Changes(p)) = Len(C) + k
      BY <2>2, <2>9 DEF w
    <2>4. SavedIn(p, first) = SavedIn(s, first)
      BY <2>2 DEF SavedIn
    <2>5. Chain(Changes(p), first)
      <3>1. ASSUME NEW i \in 1 .. Len(C) + k PROVE w[i].rev = first + i
        <4>1. CASE i <= Len(C)
          <5>1. w[i] = C[i] /\ i \in 1 .. Len(C)
            BY <1>3, <2>9, <4>1 DEF w
          <5>2. Chain(C, first)
            BY <1>2 DEF Right, C
          <5> QED BY <5>1, <5>2 DEF Chain
        <4>2. CASE i > Len(C)
          <5>1. i - Len(C) \in 1 .. k /\ Len(C) + (i - Len(C)) = i
            BY <1>3, <4>2
          <5>2. w[i] = t[i - Len(C)]
            BY <2>9, <5>1 DEF w
          <5>3. t[i - Len(C)].rev = first + Len(C) + (i - Len(C))
            BY <1>3, <2>12, <5>1
          <5> QED BY <1>3, <5>2, <5>3
        <4> QED BY <1>3, <4>1, <4>2
      <3> QED BY <2>2, <2>3, <3>1 DEF Chain, w
    <2>6. /\ first + Len(C) <= MaxRev /\ SavedIn(s, first) \in first .. first + Len(C)
          /\ Len(Saves(s)) <= SavedIn(s, first) - first
      BY <1>2 DEF Right, C
    <2>7. first + Len(C) + Len(t) <= MaxRev
      BY DEF C
    <2>8. Right(p, first)
      <3>1. first + Len(Changes(p)) <= MaxRev
        BY <1>1, <1>3, <2>3, <2>7
      <3>2. SavedIn(p, first) \in first .. first + Len(Changes(p))
        BY <1>3, <2>3, <2>4, <2>6
      <3> QED BY <2>2, <2>4, <2>5, <2>6, <3>1, <3>2 DEF Right
    <2> QED BY <2>8 DEF p, u
  <1>6. s \o t \in Seq(Record) /\ Len(s \o t) = N + Len(t)
    <2>1. t \in Seq(Record)
      BY DEF Record
    <2> QED BY <2>1
  <1>7. ASSUME NEW n \in 0 .. N + Len(t) PROVE Right(SubSeq(s \o t, 1, n), first)
    <2>1. t \in Seq(Record)
      BY DEF Record
    <2>2. CASE n <= N
      <3>1. SubSeq(s \o t, 1, n) = SubSeq(s, 1, n) /\ n \in 0 .. Len(s)
        BY <1>3, <2>1, <2>2
      <3> QED BY <3>1 DEF AllRight
    <2>3. CASE n > N
      <3>1. n - N \in 0 .. Len(t)
        BY <1>3, <2>3
      <3>2. SubSeq(s \o t, 1, n) = s \o SubSeq(t, 1, n - N)
        <4> DEFINE a == SubSeq(s \o t, 1, n) b == SubSeq(t, 1, n - N) c == s \o b
        <4>1. a \in Seq(Record) /\ Len(a) = n
              /\ \A i \in 1 .. n : a[i] = IF i <= N THEN s[i] ELSE t[i - N]
          BY <1>3, <1>6, <2>1, <2>3
        <4>2. b \in Seq(Record) /\ Len(b) = n - N /\ \A i \in 1 .. n - N : b[i] = t[i]
          BY <1>3, <2>1, <3>1
        <4> HIDE DEF a, b
        <4>3. c \in Seq(Record) /\ Len(c) = n
              /\ \A i \in 1 .. n : c[i] = IF i <= N THEN s[i] ELSE b[i - N]
          BY <1>3, <2>3, <4>2
        <4> HIDE DEF c
        <4>4. ASSUME NEW i \in 1 .. n PROVE a[i] = c[i]
          <5>1. CASE i <= N
            BY <4>1, <4>3, <5>1
          <5>2. CASE i > N
            <6>1. i - N \in 1 .. n - N
              BY <1>3, <5>2
            <6> QED BY <1>3, <4>1, <4>2, <4>3, <5>2, <6>1
          <5> QED BY <1>3, <5>1, <5>2
        <4>5. a = c
          BY <4>1, <4>3, <4>4
        <4> QED BY <4>5 DEF a, b, c
      <3> QED BY <1>5, <3>1, <3>2
    <2> QED BY <1>3, <2>2, <2>3
  <1> QED BY <1>6, <1>7 DEF AllRight

LEMMA SaveRight ==
  ASSUME NEW s \in Seq(Record), NEW first \in Nat, AllRight(s, first), NEW x \in SavedRecord,
         x.rev = first + Len(Changes(s)), x.rev # SavedIn(s, first)
  PROVE  /\ Append(s, x) \in Seq(Record) /\ AllRight(Append(s, x), first)
         /\ Changes(Append(s, x)) = Changes(s) /\ SavedIn(Append(s, x), first) = x.rev
  <1> DEFINE t == Append(s, x) C == Changes(s) S == Saves(s)
  <1>1. x \in Record /\ x.rev \in Nat
    BY DEF Record, SavedRecord
  <1>2. Right(s, first) /\ Sorted(s)
    BY RightNow, AreSorted
  <1>3. C \in Seq(Change) /\ S \in Seq(SavedRecord) /\ Len(C) \in Nat /\ Len(S) \in Nat
    BY <1>2 DEF Sorted
  <1>4. Changes(t) = C /\ Saves(t) = Append(S, x)
    BY <1>1, OneMore
  <1>5. /\ t \in Seq(Record) /\ Len(t) = Len(s) + 1 /\ Len(s) \in Nat
        /\ SubSeq(t, 1, Len(s) + 1) = t /\ \A n \in 0 .. Len(s) : SubSeq(t, 1, n) = SubSeq(s, 1, n)
    BY <1>1
  <1>6. /\ Chain(C, first) /\ first + Len(C) <= MaxRev
        /\ SavedIn(s, first) \in first .. first + Len(C)
        /\ Len(S) <= SavedIn(s, first) - first
    BY <1>2 DEF Right
  <1>7. x.rev = first + Len(C) /\ x.rev # SavedIn(s, first)
    OBVIOUS
  <1> HIDE DEF t, C, S
  <1>8. Len(Saves(t)) = Len(S) + 1 /\ Saves(t)[Len(S) + 1] = x /\ Saves(t) # <<>>
    BY <1>3, <1>4
  <1>9. SavedIn(t, first) = x.rev
    BY <1>8 DEF SavedIn
  <1>10. Right(t, first)
    <2>1. x.rev \in first .. first + Len(C) /\ Len(S) + 1 <= x.rev - first
      BY ONLY <1>1, <1>3, <1>6, <1>7, first \in Nat
    <2>2. /\ Chain(Changes(t), first) /\ first + Len(Changes(t)) <= MaxRev
          /\ SavedIn(t, first) \in first .. first + Len(Changes(t))
          /\ Len(Saves(t)) <= SavedIn(t, first) - first
      BY ONLY <1>4, <1>6, <1>8, <1>9, <2>1
    <2> QED BY <2>2 DEF Right
  <1>11. ASSUME NEW n \in 0 .. Len(t) PROVE Right(SubSeq(t, 1, n), first)
    <2>1. CASE n = Len(s) + 1
      BY <1>5, <1>10, <2>1
    <2>2. CASE n \in 0 .. Len(s)
      BY <1>5, <2>2 DEF AllRight
    <2> QED BY <1>5, <2>1, <2>2
  <1> QED BY <1>4, <1>5, <1>9, <1>11 DEF AllRight, t, C


-----------------------------------------------------------------------------
(* The document value *)

\* What people and other programs do, before it has a rev.
Move == [op : {"add", "remove"}, edit : Edit \cup Outside]

LEMMA SetAsSeq ==
  ASSUME NEW X, NEW S \in SUBSET X, IsFiniteSet(S)
  PROVE  SetToSeq(S) \in Seq(X)
  <1> DEFINE n == Cardinality(S)
  <1>1. n \in Nat /\ ExistsBijection(1 .. n, S)
    BY FS_CardinalityType
  <1>2. \E f \in [1 .. n -> S] : IsInjective(f)
    BY <1>1 DEF ExistsBijection, Bijection, Injection
  <1>3. SetToSeq(S) \in [1 .. n -> S]
    BY <1>2 DEF SetToSeq
  <1> HIDE DEF n
  <1> QED BY <1>1, <1>3

LEMMA EditsAsMoves ==
  ASSUME NEW op, NEW E, IsFiniteSet(E)
  PROVE  IsFiniteSet([op : {op}, edit : E])
  <1> DEFINE f == [e \in E |-> [op |-> op, edit |-> e]]
             T == [op : {op}, edit : E]
  <1>1. f \in [E -> T]
    OBVIOUS
  <1>2. \A r \in T : \E e \in E : f[e] = r
    OBVIOUS
  <1>3. f \in Surjection(E, T)
    BY <1>1, <1>2 DEF Surjection
  <1> QED BY <1>3, FS_Surjection

LEMMA ComparedMoves ==
  ASSUME NEW old \in Content, NEW new \in Content
  PROVE  SetToSeq(Compare(old, new)) \in Seq(Move)
  <1>1. IsFiniteSet(Edit \cup Outside)
    BY JournalAssumption, FS_Union
  <1>2. old \ new \in SUBSET (Edit \cup Outside) /\ new \ old \in SUBSET (Edit \cup Outside)
    BY DEF Content
  <1>3. IsFiniteSet(old \ new) /\ IsFiniteSet(new \ old)
    BY <1>1, <1>2, FS_Subset
  <1> DEFINE A == [op : {"add"}, edit : new \ old] B == [op : {"remove"}, edit : old \ new]
  <1>4. IsFiniteSet(A) /\ IsFiniteSet(B)
    BY <1>3, EditsAsMoves
  <1>5. A \in SUBSET Move /\ B \in SUBSET Move
    BY <1>2 DEF Move
  <1>6. IsFiniteSet(A \cup B) /\ A \cup B \in SUBSET Move
    BY <1>4, <1>5, FS_Union
  <1>7. Compare(old, new) = A \cup B
    BY DEF Compare
  <1> QED BY <1>6, <1>7, SetAsSeq

DocType ==
  [model : Content, original : Content, first : Nat, rev : Nat, log : Seq(Change),
   saved : Nat, states : Seq(Nat), waits : BOOLEAN]

LEMMA LogApplicable ==
  ASSUME NEW log \in Seq(Change)
  PROVE  Applicable(log) /\ Len(log) \in Nat
  <1>1. \A i \in 1 .. Len(log) : log[i] \in Change
    OBVIOUS
  <1>2. \A c \in Change : c.edit \in Edit \cup Outside
    BY DEF Change
  <1> QED BY <1>1, <1>2 DEF Applicable

LEMMA StateType ==
  ASSUME NEW d \in DocType, NEW r
  PROVE  StateAt(d, r) \in Content
  <1> DEFINE taken == {i \in DOMAIN d.log :
                         (IF i = 1 THEN d.first ELSE d.log[i - 1].rev) < r}
             n == Cardinality(taken) s == SubSeq(d.log, 1, n)
  <1>1. d.log \in Seq(Change) /\ d.original \in Content
    BY DEF DocType
  <1>2. DOMAIN d.log = 1 .. Len(d.log) /\ Len(d.log) \in Nat
    BY <1>1
  <1>3. taken \in SUBSET (1 .. Len(d.log))
    BY <1>2
  <1> HIDE DEF taken
  <1>4. IsFiniteSet(taken) /\ n <= Len(d.log) /\ n \in Nat
    <2>1. IsFiniteSet(1 .. Len(d.log)) /\ Cardinality(1 .. Len(d.log)) = Len(d.log)
      BY <1>2, FS_Interval
    <2> QED BY <1>3, <2>1, FS_Subset, FS_CardinalityType
  <1> HIDE DEF n
  <1>5. s \in Seq(Change)
    BY <1>1, <1>2, <1>4
  <1>6. Replay(d.original, s) \in Content
    BY <1>1, <1>5, LogApplicable, ReplayType
  <1> QED BY <1>6 DEF StateAt, n, taken

LEMMA NearestMoves ==
  ASSUME NEW d \in DocType, NEW new \in Content
  PROVE  Nearest(d, new) \in Seq(Move)
  <1> DEFINE distance(i) == Cardinality(Compare(StateAt(d, d.states[i]), new))
             start == CHOOSE i \in DOMAIN d.states : \A j \in DOMAIN d.states :
                        distance(i) < distance(j) \/ (distance(i) = distance(j) /\ i <= j)
             old == StateAt(d, d.states[start])
  <1>1. Nearest(d, new) = SetToSeq(Compare(old, new))
    BY DEF Nearest
  <1>2. old \in Content
    BY StateType
  <1> HIDE DEF old
  <1> QED BY <1>1, <1>2, ComparedMoves

LEMMA BatchMoves ==
  ASSUME NEW edits \in SeqOf(Edit, MaxBatch)
  PROVE  [i \in DOMAIN edits |-> [op |-> "add", edit |-> edits[i]]] \in Seq(Move)
         /\ Len([i \in DOMAIN edits |-> [op |-> "add", edit |-> edits[i]]]) = Len(edits)
  <1>1. MaxBatch \in Nat
    BY JournalAssumption
  <1>2. PICK m \in 0 .. MaxBatch : edits \in [1 .. m -> Edit]
    BY DEF SeqOf
  <1>3. m \in Nat /\ edits \in Seq(Edit) /\ Len(edits) = m /\ DOMAIN edits = 1 .. m
    BY <1>1, <1>2
  <1> DEFINE t == [i \in DOMAIN edits |-> [op |-> "add", edit |-> edits[i]]]
  <1>4. t \in [1 .. m -> Move]
    BY <1>2, <1>3 DEF Move
  <1> HIDE DEF t
  <1>5. t \in Seq(Move) /\ Len(t) = m
    BY <1>3, <1>4
  <1> QED BY <1>3, <1>5 DEF t

\* A document whose log has one rev after the other, and which saved none that it has not.
DocRight(d) ==
  /\ d.states # <<>>
  /\ Chain(d.log, d.first) /\ d.rev = d.first + Len(d.log) /\ d.rev <= MaxRev
  /\ d.saved \in d.first .. d.rev

\* The document d2 is d after the changes t.
Grew(d, d2, t) ==
  /\ d2 \in DocType /\ DocRight(d2)
  /\ d2.log = d.log \o t /\ Len(d2.log) = Len(d.log) + Len(t)
  /\ SubSeq(d2.log, Len(d.log) + 1, Len(d2.log)) = t
  /\ d2.rev = d.rev + Len(t) /\ \A i \in 1 .. Len(t) : t[i].rev = d.rev + i
  /\ d2.first = d.first /\ d2.original = d.original /\ d2.saved = d.saved
  /\ d.model = Replay(d.original, d.log) => d2.model = Replay(d2.original, d2.log)


LEMMA GrowsRight ==
  ASSUME NEW d \in DocType, DocRight(d), NEW changes \in Seq(Move),
         d.rev + Len(changes) <= MaxRev
  PROVE  \E t \in Seq(Change) : Grew(d, AllOrdered(d, changes), t)
  <1> DEFINE n == Len(changes)
             t == [i \in DOMAIN changes |-> Ordered(changes[i], d.rev + i)]
             d2 == AllOrdered(d, changes)
             log2 == d.log \o t
  <1>1. /\ d.model \in Content /\ d.original \in Content /\ d.first \in Nat /\ d.rev \in Nat
        /\ d.log \in Seq(Change) /\ d.saved \in Nat /\ d.states \in Seq(Nat)
        /\ d.waits \in BOOLEAN
    BY DEF DocType
  <1>2. n \in Nat /\ DOMAIN changes = 1 .. n /\ MaxRev \in Nat
    BY JournalAssumption
  <1>3. ASSUME NEW i \in 1 .. n
        PROVE  /\ t[i] \in Change /\ t[i].rev = d.rev + i
               /\ t[i].op = changes[i].op /\ t[i].edit = changes[i].edit
    <2>1. changes[i] \in Move /\ t[i] = Ordered(changes[i], d.rev + i) /\ d.rev + i \in Nat
      BY <1>1, <1>2, <1>3
    <2>2. changes[i].op \in {"add", "remove"} /\ changes[i].edit \in Edit \cup Outside
      BY <2>1 DEF Move
    <2> QED BY <2>1, <2>2 DEF Ordered, Change
  <1>4. t \in [1 .. n -> Change]
    <2>1. t = [i \in 1 .. n |-> t[i]]
      BY <1>2
    <2> HIDE DEF t
    <2> QED BY <1>3, <2>1
  <1>5. t \in Seq(Change) /\ Len(t) = n
    <2> HIDE DEF t, n
    <2> QED BY <1>2, <1>4
  <1>6. d2 = [d EXCEPT !.model = Replay(d.model, changes), !.rev = d.rev + n, !.log = log2]
    BY DEF AllOrdered
  <1> HIDE DEF t, d2
  <1>7. log2 \in Seq(Change) /\ Joins(log2, d.log, t)
    <2> HIDE DEF log2
    <2> QED BY <1>1, <1>5, Joined DEF log2
  <1>8. SubSeq(log2, Len(d.log) + 1, Len(log2)) = t
    <2>1. Len(log2) = Len(d.log) + n
      BY <1>5, <1>7 DEF Joins
    <2> DEFINE a == SubSeq(log2, Len(d.log) + 1, Len(log2))
    <2>2. a \in Seq(Change) /\ Len(a) = n /\ \A i \in 1 .. n : a[i] = log2[Len(d.log) + i]
      <3> HIDE DEF log2, n
      <3> QED BY <1>1, <1>2, <1>7, <2>1
    <2>3. \A i \in 1 .. n : log2[Len(d.log) + i] = t[i]
      BY <1>5, <1>7 DEF Joins
    <2> HIDE DEF a, log2, n
    <2>4. a = t
      BY <1>5, <2>2, <2>3
    <2> QED BY <2>4 DEF a
  <1> HIDE DEF log2, n
  <1>9. Applicable(changes) /\ Applicable(d.log)
    <2>1. \A i \in 1 .. Len(changes) : changes[i] \in Move
      OBVIOUS
    <2>2. \A c \in Move : c.edit \in Edit \cup Outside
      BY DEF Move
    <2> QED BY <1>1, <2>1, <2>2, LogApplicable DEF Applicable
  <1>10. Replay(d.model, changes) \in Content
    BY <1>1, <1>2, <1>9, ReplayType DEF n
  <1>11. /\ d2.model = Replay(d.model, changes) /\ d2.rev = d.rev + n /\ d2.log = log2
         /\ d2.first = d.first /\ d2.original = d.original /\ d2.saved = d.saved
         /\ d2.states = d.states
    BY <1>6 DEF DocType
  <1>12. d2 \in DocType
    <2>1. d.rev + n \in Nat
      BY <1>1, <1>2
    <2> QED BY <1>6, <1>7, <1>10, <2>1 DEF DocType
  <1>13. Len(log2) = Len(d.log) + n
    BY <1>5, <1>7 DEF Joins
  <1>14. /\ d.states # <<>> /\ Chain(d.log, d.first) /\ d.rev = d.first + Len(d.log)
         /\ d.saved \in d.first .. d.rev
    BY DEF DocRight
  <1>15. Chain(log2, d.first)
    <2>1. ASSUME NEW i \in 1 .. Len(d.log) + n PROVE log2[i].rev = d.first + i
      <3>1. Len(d.log) \in Nat
        BY <1>1
      <3>2. CASE i <= Len(d.log)
        <4>1. i \in 1 .. Len(d.log)
          BY <3>1, <3>2
        <4> QED BY <1>7, <1>14, <4>1 DEF Joins, Chain
      <3>3. CASE i > Len(d.log)
        <4>1. i - Len(d.log) \in 1 .. n /\ Len(d.log) + (i - Len(d.log)) = i
          BY <1>2, <3>1, <3>3
        <4>2. log2[i] = t[i - Len(d.log)]
          BY <1>5, <1>7, <4>1 DEF Joins
        <4>3. t[i - Len(d.log)].rev = d.rev + (i - Len(d.log))
          BY <1>3, <4>1
        <4> QED BY <1>1, <1>14, <3>1, <4>2, <4>3
      <3> QED BY <1>2, <3>1, <3>2, <3>3
    <2> QED BY <1>13, <2>1 DEF Chain
  <1>16. DocRight(d2)
    <2>1. Len(d.log) \in Nat /\ d.rev + n <= MaxRev
      BY <1>1 DEF n
    <2>2. d2.rev = d2.first + Len(d2.log) /\ d2.saved \in d2.first .. d2.rev
      BY <1>1, <1>2, <1>11, <1>13, <1>14, <2>1
    <2> QED BY <1>11, <1>14, <1>15, <2>1, <2>2 DEF DocRight
  <1>17. ASSUME d.model = Replay(d.original, d.log) PROVE d2.model = Replay(d2.original, d2.log)
    <2>1. /\ \A i \in 1 .. Len(d.log) : log2[i] = d.log[i]
          /\ \A i \in 1 .. Len(changes) : log2[Len(d.log) + i].op = changes[i].op
                                       /\ log2[Len(d.log) + i].edit = changes[i].edit
      BY <1>3, <1>5, <1>7 DEF Joins, n
    <2>2. Replay(d.original, log2) = Replay(Replay(d.original, d.log), changes)
      <3>1. Len(d.log) \in Nat /\ Len(changes) \in Nat /\ Len(log2) = Len(d.log) + Len(changes)
        BY <1>1, <1>2, <1>13 DEF n
      <3> DEFINE m == d.original a == d.log
      <3>2. /\ m \in Content /\ Len(a) \in Nat /\ Len(changes) \in Nat
            /\ Applicable(a) /\ Applicable(changes) /\ Len(log2) = Len(a) + Len(changes)
            /\ \A i \in 1 .. Len(a) : log2[i] = a[i]
            /\ \A i \in 1 .. Len(changes) : log2[Len(a) + i].op = changes[i].op
                                         /\ log2[Len(a) + i].edit = changes[i].edit
        BY <1>1, <1>9, <2>1, <3>1
      <3> HIDE DEF m, a
      <3>3. Replay(m, log2) = Replay(Replay(m, a), changes)
        BY ONLY <3>2, ReplayMore
      <3> QED BY <3>3 DEF m, a
    <2> QED BY <1>11, <1>17, <2>2
  <1>18. Grew(d, d2, t)
    <2>1. Len(t) = n /\ \A i \in 1 .. n : t[i].rev = d.rev + i
      BY <1>3, <1>5
    <2>2. SubSeq(d2.log, Len(d.log) + 1, Len(d2.log)) = t
      BY <1>8, <1>11
    <2> QED BY <1>11, <1>12, <1>13, <1>16, <1>17, <2>1, <2>2 DEF Grew, log2
  <1> QED BY <1>5, <1>18 DEF d2


LEMMA SavedDocument ==
  ASSUME NEW d \in DocType, DocRight(d)
  PROVE  LET d2 == Saved(d, d.rev)
         IN /\ d2 \in DocType /\ DocRight(d2) /\ d2.saved = d.rev
            /\ d2.model = d.model /\ d2.log = d.log /\ d2.rev = d.rev
            /\ d2.first = d.first /\ d2.original = d.original
  <1> DEFINE more == IF Last(d.states) = d.rev THEN d.states ELSE Append(d.states, d.rev)
             states == IF Len(more) > MostStates THEN RemoveAt(more, 2) ELSE more
             d2 == Saved(d, d.rev)
  <1>1. /\ d.model \in Content /\ d.original \in Content /\ d.first \in Nat /\ d.rev \in Nat
        /\ d.log \in Seq(Change) /\ d.saved \in Nat /\ d.states \in Seq(Nat)
        /\ d.waits \in BOOLEAN
    BY DEF DocType
  <1>2. more \in Seq(Nat) /\ more # <<>>
    BY <1>1 DEF DocRight
  <1>3. states \in Seq(Nat) /\ states # <<>>
    <2> HIDE DEF more
    <2>1. CASE Len(more) > MostStates
      <3>1. Len(more) \in Nat /\ Len(more) >= 2
        BY <1>2, <2>1, JournalAssumption
      <3> DEFINE a == SubSeq(more, 1, 1) b == SubSeq(more, 3, Len(more))
      <3>2. a \in Seq(Nat) /\ Len(a) = 1
        BY <1>2, <3>1
      <3>3. b \in Seq(Nat)
        BY <1>2, <3>1
      <3> HIDE DEF a, b
      <3>4. a \o b \in Seq(Nat) /\ a \o b # <<>>
        <4> DEFINE w == a \o b
        <4>1. w \in Seq(Nat) /\ Joins(w, a, b)
          BY <3>2, <3>3, Joined
        <4> HIDE DEF w
        <4>2. Len(b) \in Nat /\ Len(w) = 1 + Len(b)
          BY <3>2, <3>3, <4>1 DEF Joins
        <4>3. w # <<>>
          BY <4>2
        <4> QED BY <4>1, <4>3 DEF w
      <3>5. RemoveAt(more, 2) = a \o b
        BY DEF RemoveAt, a, b
      <3> QED BY <2>1, <3>4, <3>5
    <2>2. CASE ~(Len(more) > MostStates)
      BY <1>2, <2>2
    <2> QED BY <2>1, <2>2
  <1>4. d2 = [d EXCEPT !.saved = d.rev, !.waits = FALSE, !.states = states]
    BY DEF Saved
  <1> HIDE DEF d2, states
  <1>5. d2 \in DocType
    BY <1>1, <1>3, <1>4 DEF DocType
  <1>6. /\ d2.saved = d.rev /\ d2.model = d.model /\ d2.log = d.log /\ d2.rev = d.rev
        /\ d2.first = d.first /\ d2.original = d.original /\ d2.states = states
    BY <1>4 DEF DocType
  <1>7. DocRight(d2)
    <2>1. d.rev \in d.first .. d.rev
      BY <1>1 DEF DocRight
    <2>2. /\ Chain(d.log, d.first) /\ d.rev = d.first + Len(d.log) /\ d.rev <= MaxRev
      BY DEF DocRight
    <2> QED BY <1>3, <1>6, <2>1, <2>2 DEF DocRight
  <1> QED BY <1>5, <1>6, <1>7 DEF d2

JournalType ==
  [there : BOOLEAN, original : Content, first : Nat, records : Seq(Record)]

\* The document d is what the journal j says.
Matches(j, d) ==
  /\ d.first = j.first /\ d.original = j.original
  /\ d.log = Changes(j.records) /\ d.saved = SavedIn(j.records, j.first)

LEMMA RestoredDocument ==
  ASSUME NEW j \in JournalType, AllRight(j.records, j.first)
  PROVE  LET d == Restored(j)
         IN /\ d \in DocType /\ DocRight(d) /\ Matches(j, d)
            /\ d.model = Replay(d.original, d.log)
  <1> DEFINE R == j.records first == j.first C == Changes(R) S == Saves(R)
             revs == <<first>> \o [i \in DOMAIN S |-> S[i].rev]
             rev == IF C = <<>> THEN first ELSE Last(C).rev
             d == Restored(j)
  <1>1. /\ R \in Seq(Record) /\ first \in Nat /\ j.original \in Content
        /\ Right(R, first) /\ Sorted(R) /\ Whole(R) = R
    BY RightNow, AreSorted, NothingTorn DEF JournalType
  <1>2. d = [model |-> Replay(j.original, C), original |-> j.original, first |-> first,
             rev |-> rev, log |-> C, saved |-> Last(revs), states |-> revs, waits |-> FALSE]
    BY <1>1 DEF Restored, Changes, Saves
  <1>3. C \in Seq(Change) /\ S \in Seq(SavedRecord)
    BY <1>1 DEF Sorted
  <1>4. /\ Chain(C, first) /\ first + Len(C) <= MaxRev
        /\ SavedIn(R, first) \in first .. first + Len(C)
    BY <1>1 DEF Right
  <1> HIDE DEF C, S, R, first
  <1>5. rev = first + Len(C)
    <2>1. CASE C = <<>>
      BY <1>1, <2>1
    <2>2. CASE C # <<>>
      <3>1. Len(C) \in 1 .. Len(C)
        BY <1>3, <2>2
      <3> QED BY <1>4, <2>2, <3>1 DEF Chain, Last
    <2> QED BY <2>1, <2>2
  <1>6. revs \in Seq(Nat) /\ revs # <<>> /\ Last(revs) = SavedIn(R, first)
    <2> DEFINE a == <<first>> b == [i \in DOMAIN S |-> S[i].rev]
    <2>1. a \in Seq(Nat) /\ Len(a) = 1 /\ a[1] = first
      BY <1>1
    <2>2. DOMAIN S = 1 .. Len(S) /\ Len(S) \in Nat
      BY <1>3
    <2>3. \A i \in 1 .. Len(S) : S[i].rev \in Nat
      <3>1. \A i \in 1 .. Len(S) : S[i] \in SavedRecord
        BY <1>3
      <3> QED BY <3>1 DEF SavedRecord
    <2>4. b \in [1 .. Len(S) -> Nat] /\ \A i \in 1 .. Len(S) : b[i] = S[i].rev
      BY <2>2, <2>3
    <2> HIDE DEF a, b
    <2>5. b \in Seq(Nat) /\ Len(b) = Len(S)
      BY <2>2, <2>4
    <2>6. a \o b \in Seq(Nat) /\ Joins(a \o b, a, b)
      BY <2>1, <2>5, Joined
    <2>7. revs = a \o b
      BY DEF a, b
    <2> DEFINE w == a \o b
    <2> HIDE DEF w
    <2>8. w \in Seq(Nat) /\ Len(w) = Len(S) + 1 /\ w[1] = first
          /\ \A i \in 1 .. Len(S) : w[1 + i] = S[i].rev
      BY <2>1, <2>2, <2>4, <2>5, <2>6 DEF w, Joins
    <2>9. w # <<>> /\ Last(w) = SavedIn(R, first)
      <3>1. CASE S = <<>>
        <4>1. Len(S) = 0
          BY <3>1
        <4> QED BY <2>8, <3>1, <4>1 DEF Last, SavedIn, S
      <3>2. CASE S # <<>>
        <4>1. Len(S) \in 1 .. Len(S)
          BY <1>3, <3>2
        <4>2. w[Len(w)] = S[Len(S)].rev
          BY <2>2, <2>8, <4>1
        <4>3. w # <<>>
          BY <2>2, <2>8
        <4> QED BY <3>2, <4>2, <4>3 DEF Last, SavedIn, S
      <3> QED BY <3>1, <3>2
    <2> QED BY <2>7, <2>8, <2>9 DEF w
  <1>7. Replay(j.original, C) \in Content
    BY <1>1, <1>3, LogApplicable, ReplayType
  <1> DEFINE model == Replay(j.original, C)
  <1> HIDE DEF revs, rev, d, model
  <1>8. d = [model |-> model, original |-> j.original, first |-> first,
             rev |-> rev, log |-> C, saved |-> SavedIn(R, first), states |-> revs,
             waits |-> FALSE]
    BY <1>2, <1>6 DEF model
  <1>9. /\ first \in Nat /\ rev \in Nat /\ SavedIn(R, first) \in Nat
    <2>1. Len(C) \in Nat
      BY <1>3
    <2> QED BY <1>1, <1>4, <1>5, <2>1
  <1>10. d \in DocType
    BY <1>1, <1>3, <1>6, <1>7, <1>8, <1>9 DEF DocType, model
  <1>11. DocRight(d)
    BY <1>4, <1>5, <1>6, <1>8 DEF DocRight
  <1>12. Matches(j, d)
    BY <1>8 DEF Matches, C, R, first
  <1>13. d.model = Replay(d.original, d.log)
    BY <1>8 DEF model
  <1> QED BY <1>10, <1>11, <1>12, <1>13 DEF d


-----------------------------------------------------------------------------
(* The inductive invariant *)

\* A disk that takes what is appended to a journal, and starts and removes journals whole.
Steady == Faults \subseteq {"write", "format"}

Typed ==
  /\ file \in SUBSET Content /\ (file = {} \/ \E c \in Content : file = {c})
  /\ journal \in JournalType /\ synced \in 0 .. Len(journal.records)
  /\ pc \in {"down", "read", "idle", "appended", "saving", "writing", "renamed", "saved",
             "sealing"}
  /\ then \in {"idle", "seal", "close"}
  /\ doc \in DocType
  /\ cache \in Content
  /\ noticed \in BOOLEAN /\ due \in BOOLEAN /\ retry \in BOOLEAN /\ sealing \in BOOLEAN
  /\ touched \in BOOLEAN
  /\ attached = TRUE
  /\ base \in SUBSET Content /\ from \in SUBSET Content
  /\ heard \subseteq Change /\ shown \in Content
  /\ crashes \in Nat

(***************************************************************************)
(* While a document is open its journal says all of it.  Only between the  *)
(* two halves of start_new_journal there is none, and then the file was    *)
(* saved.                                                                  *)
(***************************************************************************)
Shaped ==
  /\ AllRight(journal.records, journal.first) /\ DocRight(doc)
  /\ pc \in {"writing", "renamed"} => doc.rev # doc.saved
  /\ pc \notin {"down", "read", "sealing"} => journal.there /\ Matches(journal, doc)
  /\ pc = "sealing" => ~journal.there /\ synced = 0 /\ doc.rev = doc.saved

JournalInv == Typed /\ Shaped /\ SafeBeforeHeard

LEMMA NewDocument ==
  ASSUME NEW c \in Content
  PROVE  /\ Opened(c) \in DocType /\ DocRight(Opened(c))
         /\ Opened(c).first = 0 /\ Opened(c).original = c /\ Opened(c).log = <<>>
         /\ Opened(c).saved = 0 /\ Opened(c).rev = 0 /\ Opened(c).model = c
  <1>1. <<>> \in Seq(Change) /\ <<0>> \in Seq(Nat) /\ <<0>> # <<>> /\ MaxRev \in Nat
    BY JournalAssumption
  <1> DEFINE log == <<>> states == <<0>>
  <1>2. Opened(c) = [model |-> c, original |-> c, first |-> 0, rev |-> 0, log |-> log,
                     saved |-> 0, states |-> states, waits |-> FALSE]
    BY DEF Opened
  <1>3. log \in Seq(Change) /\ Len(log) = 0 /\ states \in Seq(Nat) /\ states # <<>>
    BY <1>1
  <1> HIDE DEF log, states
  <1>4. Opened(c) \in DocType
    BY <1>2, <1>3 DEF DocType
  <1>5. DocRight(Opened(c))
    BY <1>1, <1>2, <1>3 DEF DocRight, Chain
  <1> QED BY <1>2, <1>4, <1>5 DEF log

LEMMA NewJournal ==
  ASSUME NEW c \in Content, NEW first \in Nat, first <= MaxRev
  PROVE  LET j == Started(c, first)
         IN /\ j \in JournalType /\ j.there /\ j.first = first /\ j.original = c
            /\ AllRight(j.records, j.first) /\ Len(j.records) = 0
            /\ Changes(j.records) = <<>> /\ SavedIn(j.records, j.first) = first
  <1> DEFINE none == <<>>
  <1>1. none \in Seq(Record) /\ Len(none) = 0
    OBVIOUS
  <1>2. AllRight(none, first) /\ Changes(none) = <<>> /\ SavedIn(none, first) = first
    BY NothingRight
  <1>3. Started(c, first) = [there |-> TRUE, original |-> c, first |-> first, records |-> none]
    BY DEF Started
  <1> HIDE DEF none
  <1> QED BY <1>1, <1>2, <1>3 DEF JournalType

LEMMA WithoutJournal ==
  /\ NoJournal \in JournalType /\ ~NoJournal.there /\ Len(NoJournal.records) = 0
  /\ AllRight(NoJournal.records, NoJournal.first)
  <1> DEFINE none == <<>>
  <1>1. none \in Seq(Record) /\ Len(none) = 0 /\ {} \in Content
    BY DEF Content
  <1>2. AllRight(none, 0)
    BY NothingRight, JournalAssumption
  <1>3. NoJournal = [there |-> FALSE, original |-> {}, first |-> 0, records |-> none]
    BY DEF NoJournal
  <1> HIDE DEF none
  <1> QED BY <1>1, <1>2, <1>3 DEF JournalType

LEMMA JournalInvInit == Init => JournalInv
  <1> SUFFICES ASSUME Init PROVE JournalInv
    OBVIOUS
  <1>1. {} \in Content
    BY DEF Content
  <1>2. doc \in DocType /\ DocRight(doc)
    BY <1>1, NewDocument DEF Init, NoDocument
  <1>3. /\ journal \in JournalType /\ ~journal.there /\ synced \in 0 .. Len(journal.records)
        /\ AllRight(journal.records, journal.first)
    BY WithoutJournal DEF Init
  <1>4. Typed
    BY <1>1, <1>2, <1>3 DEF Init, Typed
  <1>5. Shaped
    BY <1>2, <1>3 DEF Init, Shaped
  <1>6. SafeBeforeHeard
    BY DEF Init, SafeBeforeHeard
  <1> QED BY <1>4, <1>5, <1>6 DEF JournalInv

\* An action that leaves journal and document as they are.
LEMMA KeptSame ==
  ASSUME JournalInv, journal' = journal, synced' = synced, heard' = heard,
         doc' = doc \/ doc' = [doc EXCEPT !.waits = TRUE],
         pc \in {"down", "read"} <=> pc' \in {"down", "read"},
         pc = "sealing" <=> pc' = "sealing",
         pc' \in {"writing", "renamed"} => doc.rev # doc.saved
  PROVE  Shaped' /\ SafeBeforeHeard' /\ doc' \in DocType
  <1>1. /\ doc \in DocType /\ DocRight(doc) /\ AllRight(journal.records, journal.first)
        /\ pc \notin {"down", "read", "sealing"} => journal.there /\ Matches(journal, doc)
        /\ pc = "sealing" => ~journal.there /\ synced = 0 /\ doc.rev = doc.saved
    BY DEF JournalInv, Typed, Shaped
  <1>2. /\ doc'.model = doc.model /\ doc'.original = doc.original /\ doc'.first = doc.first
        /\ doc'.rev = doc.rev /\ doc'.log = doc.log /\ doc'.saved = doc.saved
        /\ doc'.states = doc.states /\ doc' \in DocType
    BY <1>1 DEF DocType
  <1>3. DocRight(doc')
    BY <1>1, <1>2 DEF DocRight
  <1>4. Matches(journal, doc) => Matches(journal', doc')
    BY <1>2 DEF Matches
  <1>5. Shaped'
    BY <1>1, <1>2, <1>3, <1>4 DEF Shaped
  <1>6. SafeBeforeHeard'
    BY <1>2 DEF JournalInv, SafeBeforeHeard
  <1> QED BY <1>2, <1>5, <1>6

\* The actions of the task that do not touch journal and document, and those of others.
LEMMA KeepsSteps ==
  ASSUME Steady, JournalInv,
         \/ OpenRead \/ OpenFails \/ TakeNothing \/ SaveDue \/ Flush \/ Finish \/ Save
         \/ Rename \/ WriteFails \/ SaveDone
         \/ OutsideRead \/ OutsideRemove \/ (\E e \in Outside : OutsideWrite(e))
         \/ UNCHANGED vars
  PROVE  JournalInv'
  <1>1. Typed /\ attached = TRUE /\ "start" \notin Faults
    BY DEF Steady, JournalInv, Typed
  <1>2. CASE OpenRead
    <2>1. Shaped' /\ SafeBeforeHeard' /\ doc' \in DocType
      BY <1>2, KeptSame DEF OpenRead, diskVars, pastVars
    <2>2. Typed'
      BY <1>1, <1>2, <2>1 DEF OpenRead, Typed, diskVars, timeVars, otherVars, pastVars
    <2> QED BY <2>1, <2>2 DEF JournalInv
  <1>3. CASE OpenFails
    <2>1. Shaped' /\ SafeBeforeHeard' /\ doc' \in DocType
      BY <1>3, KeptSame DEF OpenFails, diskVars, pastVars
    <2>2. Typed'
      BY <1>1, <1>3, <2>1 DEF OpenFails, Typed, diskVars, timeVars, otherVars, pastVars
    <2> QED BY <2>1, <2>2 DEF JournalInv
  <1>4. CASE TakeNothing
    <2>1. Shaped' /\ SafeBeforeHeard' /\ doc' \in DocType
      BY <1>4, KeptSame DEF TakeNothing, diskVars, pastVars
    <2>2. Typed'
      BY <1>1, <1>4, <2>1 DEF TakeNothing, Typed, diskVars, timeVars, otherVars, pastVars
    <2> QED BY <2>1, <2>2 DEF JournalInv
  <1>5. CASE SaveDue
    <2>1. Shaped' /\ SafeBeforeHeard' /\ doc' \in DocType
      BY <1>5, KeptSame DEF SaveDue, diskVars, pastVars
    <2>2. Typed'
      BY <1>1, <1>5, <2>1 DEF SaveDue, Typed, diskVars, timeVars, otherVars, pastVars
    <2> QED BY <2>1, <2>2 DEF JournalInv
  <1>6. CASE Flush
    <2>1. Shaped' /\ SafeBeforeHeard' /\ doc' \in DocType
      BY <1>6, KeptSame DEF Flush, diskVars, pastVars
    <2>2. Typed'
      BY <1>1, <1>6, <2>1 DEF Flush, Typed, diskVars, timeVars, otherVars, pastVars
    <2> QED BY <2>1, <2>2 DEF JournalInv
  <1>7. CASE Finish
    <2>1. Shaped' /\ SafeBeforeHeard' /\ doc' \in DocType
      BY <1>7, KeptSame DEF Finish, diskVars, pastVars
    <2>2. Typed'
      BY <1>1, <1>7, <2>1 DEF Finish, Typed, diskVars, timeVars, otherVars, pastVars
    <2> QED BY <2>1, <2>2 DEF JournalInv
  <1>8. CASE Save
    <2>1. Shaped' /\ SafeBeforeHeard' /\ doc' \in DocType
      BY <1>8, KeptSame DEF Save, diskVars, pastVars
    <2>2. retry' \in BOOLEAN
      BY <1>1, <1>8 DEF Save, Typed
    <2>3. Typed'
      BY <1>1, <1>8, <2>1, <2>2 DEF Save, Typed, diskVars, timeVars, otherVars, pastVars
    <2> QED BY <2>1, <2>3 DEF JournalInv
  <1>9. CASE Rename
    <2>1. Shaped' /\ SafeBeforeHeard' /\ doc' \in DocType
      BY <1>1, <1>9, KeptSame DEF Rename, diskVars, pastVars, JournalInv, Shaped
    <2>2. doc.model \in Content
      BY <1>1 DEF Typed, DocType
    <2>3. Typed'
      BY <1>1, <1>9, <2>1, <2>2 DEF Rename, Typed, timeVars, otherVars, pastVars
    <2> QED BY <2>1, <2>3 DEF JournalInv
  <1>10. CASE WriteFails
    <2>1. Shaped' /\ SafeBeforeHeard' /\ doc' \in DocType
      BY <1>10, KeptSame DEF WriteFails, diskVars, pastVars
    <2>2. Typed'
      BY <1>1, <1>10, <2>1 DEF WriteFails, Typed, diskVars, timeVars, otherVars, pastVars
    <2> QED BY <2>1, <2>2 DEF JournalInv
  <1>11. CASE SaveDone
    <2>1. Shaped' /\ SafeBeforeHeard' /\ doc' \in DocType
      BY <1>11, KeptSame DEF SaveDone, diskVars, pastVars
    <2>2. Typed'
      BY <1>1, <1>11, <2>1 DEF SaveDone, Typed, diskVars, timeVars, otherVars, pastVars
    <2> QED BY <2>1, <2>2 DEF JournalInv
  <1>12. ASSUME journal' = journal, synced' = synced, heard' = heard, doc' = doc, pc' = pc
         PROVE  Shaped' /\ SafeBeforeHeard' /\ doc' \in DocType
    BY <1>12, KeptSame DEF JournalInv, Shaped
  <1>13. CASE OutsideRead
    <2>1. Shaped' /\ SafeBeforeHeard' /\ doc' \in DocType
      BY <1>12, <1>13 DEF OutsideRead, diskVars, flowVars, pastVars
    <2>2. Typed'
      BY <1>1, <1>13, <2>1 DEF OutsideRead, Typed, diskVars, flowVars, timeVars, pastVars
    <2> QED BY <2>1, <2>2 DEF JournalInv
  <1>14. CASE OutsideRemove
    <2>1. Shaped' /\ SafeBeforeHeard' /\ doc' \in DocType
      BY <1>12, <1>14 DEF OutsideRemove, flowVars, pastVars
    <2>2. Typed'
      BY <1>1, <1>14, <2>1 DEF OutsideRemove, Typed, flowVars, timeVars, pastVars
    <2> QED BY <2>1, <2>2 DEF JournalInv
  <1>15. CASE \E e \in Outside : OutsideWrite(e)
    <2>1. PICK e \in Outside : OutsideWrite(e)
      BY <1>15
    <2>2. PICK c \in base : file' = {c \cup {e}} /\ from' = {c} /\ base' = {}
      BY <2>1 DEF OutsideWrite
    <2>3. c \in Content /\ c \cup {e} \in Content
      BY <1>1, <2>2 DEF Typed, Content
    <2>4. /\ noticed' = FALSE /\ touched' = TRUE
          /\ UNCHANGED <<journal, synced, pc, then, doc, cache, attached, due, retry, sealing,
                         heard, shown, crashes>>
      BY <2>1 DEF OutsideWrite, flowVars, timeVars, pastVars
    <2>5. Shaped' /\ SafeBeforeHeard' /\ doc' \in DocType
      BY <1>12, <2>4
    <2>6. Typed'
      BY <1>1, <2>2, <2>3, <2>4 DEF Typed
    <2> QED BY <2>5, <2>6 DEF JournalInv
  <1>16. CASE UNCHANGED vars
    <2>1. Shaped' /\ SafeBeforeHeard' /\ doc' \in DocType
      BY <1>12, <1>16 DEF vars, diskVars, flowVars, pastVars
    <2>2. Typed'
      BY <1>1, <1>16 DEF vars, diskVars, flowVars, timeVars, otherVars, pastVars, Typed
    <2> QED BY <2>1, <2>2 DEF JournalInv
  <1> QED BY <1>2, <1>3, <1>4, <1>5, <1>6, <1>7, <1>8, <1>9, <1>10, <1>11, <1>13, <1>14,
             <1>15, <1>16


\* The task is over, and at most the end of the journal that was not synced is lost.
LEMMA ForgetStep ==
  ASSUME JournalInv, Forget, file' = file,
         UNCHANGED <<noticed, otherVars, pastVars>>, crashes' \in Nat,
         \/ journal' = NoJournal /\ synced' = 0
         \/ \E n \in synced .. Len(journal.records) :
              journal' = [journal EXCEPT !.records = SubSeq(@, 1, n)] /\ synced' = n
  PROVE  JournalInv'
  <1>1. Typed /\ AllRight(journal.records, journal.first)
    BY DEF JournalInv, Shaped
  <1>2. journal \in JournalType /\ synced \in 0 .. Len(journal.records)
    BY <1>1 DEF Typed
  <1>3. {} \in Content
    BY DEF Content
  <1>4. doc' \in DocType /\ DocRight(doc')
    BY <1>3, NewDocument DEF Forget, NoDocument
  <1>5. /\ pc' = "down" /\ then' = "idle" /\ cache' = {} /\ attached' = TRUE
        /\ due' = FALSE /\ retry' = FALSE /\ sealing' = FALSE
        /\ UNCHANGED <<file, noticed, base, from, touched, heard, shown>> /\ crashes' \in Nat
    BY DEF Forget, otherVars, pastVars
  <1>6. CASE journal' = NoJournal /\ synced' = 0
    <2>1. /\ journal' \in JournalType /\ ~journal'.there
          /\ synced' \in 0 .. Len(journal'.records)
          /\ AllRight(journal'.records, journal'.first)
      BY <1>6, WithoutJournal
    <2>2. Typed'
      BY <1>1, <1>3, <1>4, <1>5, <2>1 DEF Typed
    <2>3. Shaped'
      BY <1>4, <1>5, <2>1 DEF Shaped
    <2>4. SafeBeforeHeard'
      BY <1>5, <2>1 DEF SafeBeforeHeard
    <2> QED BY <2>2, <2>3, <2>4 DEF JournalInv
  <1>7. CASE \E n \in synced .. Len(journal.records) :
               journal' = [journal EXCEPT !.records = SubSeq(@, 1, n)] /\ synced' = n
    <2>1. PICK n \in synced .. Len(journal.records) :
            journal' = [journal EXCEPT !.records = SubSeq(@, 1, n)] /\ synced' = n
      BY <1>7
    <2> DEFINE R == journal.records part == SubSeq(R, 1, n)
    <2>2. R \in Seq(Record) /\ journal.first \in Nat /\ n \in 0 .. Len(R) /\ n \in Nat
      BY <1>2, <2>1 DEF JournalType
    <2>3. /\ part \in Seq(Record) /\ Len(part) = n
          /\ \A i \in 1 .. n : part[i] = R[i]
          /\ AllRight(part, journal.first)
      <3> HIDE DEF R
      <3> QED BY <1>1, <2>2, BeginningRight DEF R
    <2>4. journal' = [journal EXCEPT !.records = part]
      BY <2>1
    <2> HIDE DEF part
    <2>5. /\ journal' \in JournalType /\ journal'.there = journal.there
          /\ journal'.first = journal.first /\ journal'.records = part
      BY <1>2, <2>3, <2>4 DEF JournalType
    <2>6. synced' \in 0 .. Len(journal'.records)
      BY <2>1, <2>2, <2>3, <2>5
    <2>7. Typed'
      BY <1>1, <1>3, <1>4, <1>5, <2>5, <2>6 DEF Typed
    <2>8. Shaped'
      BY <1>4, <1>5, <2>3, <2>5 DEF Shaped
    <2>9. SafeBeforeHeard'
      <3>1. ASSUME NEW c \in heard, journal.there
            PROVE  c.rev <= journal.first \/ \E i \in 1 .. n : part[i] = c
        <4>1. c.rev <= journal.first \/ \E i \in 1 .. synced : journal.records[i] = c
          BY <3>1 DEF JournalInv, SafeBeforeHeard
        <4>2. ASSUME NEW i \in 1 .. synced, journal.records[i] = c
              PROVE  \E k \in 1 .. n : part[k] = c
          <5>1. i \in 1 .. n
            BY <1>2, <2>1, <4>2
          <5> QED BY <2>3, <4>2, <5>1
        <4> QED BY <4>1, <4>2
      <3> QED BY <1>5, <2>1, <2>5, <3>1 DEF SafeBeforeHeard
    <2> QED BY <2>7, <2>8, <2>9 DEF JournalInv
  <1> QED BY <1>6, <1>7

LEMMA EndSteps ==
  ASSUME Steady, JournalInv, Closed \/ LookGone \/ Crash
  PROVE  JournalInv'
  <1>1. /\ journal \in JournalType /\ synced \in 0 .. Len(journal.records)
        /\ crashes \in Nat /\ "remove" \notin Faults
        /\ pc \notin {"down", "read", "sealing"} => journal.there
    BY DEF JournalInv, Typed, Shaped, Steady
  <1> DEFINE R == journal.records
  <1>2. R \in Seq(Record) /\ Len(R) \in Nat
    BY <1>1 DEF JournalType
  <1>3. journal = [journal EXCEPT !.records = SubSeq(R, 1, Len(R))]
    <2>1. SubSeq(R, 1, Len(R)) = R
      BY <1>2
    <2> QED BY <1>1, <2>1 DEF JournalType
  <1>4. CASE Closed
    <2>1. /\ Forget /\ UNCHANGED <<file, noticed, otherVars, pastVars, crashes>>
          /\ journal' = (IF doc.rev = doc.saved THEN NoJournal ELSE journal)
          /\ synced' = Len(journal'.records)
      BY <1>4 DEF Closed
    <2>2. \/ journal' = NoJournal /\ synced' = 0
          \/ journal' = journal /\ synced' = Len(R)
      BY <2>1, WithoutJournal
    <2>3. \/ journal' = NoJournal /\ synced' = 0
          \/ \E n \in synced .. Len(journal.records) :
              journal' = [journal EXCEPT !.records = SubSeq(@, 1, n)] /\ synced' = n
      <3>1. Len(R) \in synced .. Len(journal.records)
        BY <1>1, <1>2
      <3> QED BY <1>3, <2>2, <3>1
    <2> QED BY <1>1, <2>1, <2>3, ForgetStep
  <1>5. CASE LookGone
    <2>1. /\ Forget /\ UNCHANGED <<file, journal, synced, noticed, otherVars, pastVars, crashes>>
      BY <1>5 DEF LookGone, diskVars
    <2>2. pc = "idle"
      BY <1>5 DEF LookGone
    <2>3. Typed /\ Shaped /\ SafeBeforeHeard
      BY DEF JournalInv
    <2>4. /\ pc' = "down" /\ then' = "idle" /\ doc' = NoDocument /\ cache' = {}
          /\ attached' = TRUE /\ due' = FALSE /\ retry' = FALSE /\ sealing' = FALSE
          /\ UNCHANGED <<file, journal, synced, noticed, base, from, touched, heard, shown,
                         crashes>>
      BY <2>1 DEF Forget, otherVars, pastVars
    <2>5. {} \in Content
      BY DEF Content
    <2>6. doc' \in DocType /\ DocRight(doc')
      BY <2>4, <2>5, NewDocument DEF NoDocument
    <2>7. Typed'
      BY <2>3, <2>4, <2>5, <2>6 DEF Typed
    <2>8. Shaped'
      BY <2>3, <2>4, <2>6 DEF Shaped
    <2>9. SafeBeforeHeard'
      BY <1>1, <2>2, <2>3, <2>4 DEF SafeBeforeHeard
    <2> QED BY <2>7, <2>8, <2>9 DEF JournalInv
  <1>6. CASE Crash
    <2>1. /\ Forget /\ UNCHANGED <<file, noticed, otherVars, pastVars>>
          /\ crashes' = crashes + 1 /\ synced' = Len(journal'.records)
          /\ \E n \in synced .. Len(journal.records) :
               journal' = [journal EXCEPT !.records = SubSeq(@, 1, n)]
      BY <1>1, <1>6 DEF Crash
    <2>2. PICK n \in synced .. Len(journal.records) :
            journal' = [journal EXCEPT !.records = SubSeq(@, 1, n)]
      BY <2>1
    <2>3. synced' = n
      <3>1. n \in 0 .. Len(R)
        BY <1>1, <1>2, <2>2
      <3>2. Len(SubSeq(R, 1, n)) = n
        BY <1>2, <3>1
      <3>3. journal'.records = SubSeq(R, 1, n)
        BY <1>1, <2>2 DEF JournalType
      <3> QED BY <2>1, <3>2, <3>3
    <2>4. crashes' \in Nat
      BY <1>1, <2>1
    <2> QED BY <2>1, <2>2, <2>3, <2>4, ForgetStep
  <1> QED BY <1>4, <1>5, <1>6

\* A document is open and its journal says all of it.
LEMMA OpenStep ==
  ASSUME Steady, JournalInv, OpenStamp
  PROVE  JournalInv'
  <1>1. Typed /\ Shaped /\ SafeBeforeHeard
    BY DEF JournalInv
  <1>2. /\ journal \in JournalType /\ synced \in 0 .. Len(journal.records)
        /\ cache \in Content /\ AllRight(journal.records, journal.first)
    BY <1>1 DEF Typed, Shaped
  <1>3. /\ pc' = "idle" /\ noticed' = TRUE /\ attached' = TRUE
        /\ synced' = Len(journal'.records) /\ shown' = doc'.model
        /\ due' = (doc'.rev # doc'.saved) /\ retry' = FALSE
        /\ UNCHANGED <<file, then, cache, sealing, base, from, crashes>>
    BY DEF OpenStamp
  <1>4. /\ doc' \in DocType /\ DocRight(doc') /\ journal' \in JournalType /\ journal'.there
        /\ AllRight(journal'.records, journal'.first) /\ Matches(journal', doc')
        /\ heard' \subseteq Change /\ touched' \in BOOLEAN /\ SafeBeforeHeard'
    <2>1. CASE /\ journal.there /\ doc' = Restored(journal) /\ heard' = heard
               /\ journal' = [journal EXCEPT !.records = Whole(@)]
               /\ touched' = (file # {StateAt(doc', doc'.saved)})
      <3>1. Whole(journal.records) = journal.records /\ Len(journal.records) \in Nat
        BY <1>2, NothingTorn DEF JournalType
      <3>2. journal' = journal
        BY <1>2, <2>1, <3>1 DEF JournalType
      <3>3. doc' \in DocType /\ DocRight(doc') /\ Matches(journal, doc')
        BY <1>2, <2>1, RestoredDocument
      <3>4. SafeBeforeHeard'
        <4>1. \A i \in 1 .. synced : i \in 1 .. synced'
          BY <1>2, <1>3, <3>1, <3>2
        <4> QED BY <1>1, <2>1, <3>2, <4>1 DEF SafeBeforeHeard
      <3> QED BY <1>1, <1>2, <2>1, <3>2, <3>3, <3>4 DEF Typed
    <2>2. CASE /\ ~journal.there /\ doc' = Opened(cache) /\ heard' = {}
               /\ journal' = Started(cache, 0)
               /\ touched' = (file # {cache})
      <3>1. 0 \in Nat /\ 0 <= MaxRev
        BY JournalAssumption
      <3>2. /\ journal' \in JournalType /\ journal'.there /\ journal'.first = 0
            /\ journal'.original = cache
            /\ AllRight(journal'.records, journal'.first)
            /\ Changes(journal'.records) = <<>>
            /\ SavedIn(journal'.records, journal'.first) = 0
        BY <1>2, <2>2, <3>1, NewJournal
      <3>3. /\ doc' \in DocType /\ DocRight(doc') /\ doc'.first = 0 /\ doc'.original = cache
            /\ doc'.log = <<>> /\ doc'.saved = 0
        BY <1>2, <2>2, NewDocument
      <3>4. Matches(journal', doc')
        BY <3>2, <3>3 DEF Matches
      <3>5. SafeBeforeHeard'
        BY <2>2 DEF SafeBeforeHeard
      <3> QED BY <2>2, <3>2, <3>3, <3>4, <3>5
    <2> QED BY <2>1, <2>2 DEF OpenStamp
  <1>5. shown' \in Content /\ synced' \in 0 .. Len(journal'.records) /\ due' \in BOOLEAN
    <2>1. Len(journal'.records) \in Nat /\ doc'.model \in Content
      BY <1>4 DEF JournalType, DocType
    <2> QED BY <1>3, <2>1
  <1>6. Typed'
    BY <1>1, <1>3, <1>4, <1>5 DEF Typed
  <1>7. Shaped'
    BY <1>3, <1>4 DEF Shaped
  <1> QED BY <1>4, <1>6, <1>7 DEF JournalInv

\* After the sync every change of the document is safe.
LEMMA HearStep ==
  ASSUME Steady, JournalInv, Hear
  PROVE  JournalInv'
  <1>1. Typed /\ Shaped /\ SafeBeforeHeard /\ pc = "appended"
    BY DEF JournalInv, Hear
  <1>2. /\ journal \in JournalType /\ doc \in DocType /\ journal.there /\ Matches(journal, doc)
        /\ synced \in 0 .. Len(journal.records)
    BY <1>1 DEF Typed, Shaped
  <1>3. journal.records \in Seq(Record) /\ doc.log \in Seq(Change) /\ doc.model \in Content
        /\ Len(journal.records) \in Nat
    BY <1>2 DEF JournalType, DocType
  <1>4. synced' = Len(journal.records)
    BY DEF Hear, Sync, Steady
  <1>5. /\ pc' \in {"saving", "idle"} /\ then' \in {"idle", "seal", "close"} /\ sealing' = FALSE
        /\ heard' = heard \cup ToSet(doc.log) /\ shown' = doc.model
        /\ UNCHANGED <<file, journal, doc, cache, noticed, attached, due, retry,
                       base, from, touched, crashes>>
    <2>1. pc' \in {"saving", "idle"} /\ then' \in {"idle", "seal", "close"}
      <3>0. PICK long \in Long : IF sealing \/ long THEN pc' = "saving" /\ then' = "seal"
                                                  ELSE pc' = "idle" /\ then' = then
        BY DEF Hear
      <3>1. \/ pc' = "saving" /\ then' = "seal"
            \/ pc' = "idle" /\ then' = then
        BY <3>0, Zenon
      <3>2. then \in {"idle", "seal", "close"}
        BY <1>1 DEF Typed
      <3> QED BY <3>1, <3>2
    <2> QED BY <2>1 DEF Hear, timeVars, otherVars
  <1>6. ASSUME NEW c \in ToSet(doc.log)
        PROVE  c \in Change /\ \E i \in 1 .. synced' : journal.records[i] = c
    <2>1. PICK k \in 1 .. Len(doc.log) : c = doc.log[k]
      BY <1>3, <1>6 DEF ToSet
    <2>2. doc.log = Changes(journal.records) /\ Sorted(journal.records)
      BY <1>2, <1>3, AreSorted DEF Matches
    <2>3. \E j \in 1 .. Len(journal.records) : journal.records[j] = c
      BY <2>1, <2>2 DEF Sorted
    <2> QED BY <1>3, <1>4, <2>1, <2>3
  <1>7. heard' \subseteq Change
    BY <1>1, <1>5, <1>6 DEF Typed
  <1>8. Typed'
    <2>1. synced' \in 0 .. Len(journal'.records) /\ shown' \in Content
      BY <1>3, <1>4, <1>5
    <2>2. Typed
      BY <1>1
    <2> QED BY ONLY <1>5, <1>7, <2>1, <2>2 DEF Typed
  <1>9. Shaped'
    BY <1>1, <1>5 DEF Shaped
  <1>10. SafeBeforeHeard'
    <2>1. ASSUME NEW c \in heard' PROVE c.rev <= journal.first \/
                                        \E i \in 1 .. synced' : journal.records[i] = c
      <3>1. CASE c \in heard
        <4>1. c.rev <= journal.first \/ \E i \in 1 .. synced : journal.records[i] = c
          BY <1>1, <1>2, <3>1 DEF SafeBeforeHeard
        <4>2. \A i \in 1 .. synced : i \in 1 .. synced'
          BY <1>2, <1>3, <1>4
        <4> QED BY <4>1, <4>2
      <3>2. CASE c \in ToSet(doc.log)
        BY <1>6, <3>2
      <3> QED BY <1>5, <2>1, <3>1, <3>2
    <2> QED BY <1>2, <1>5, <2>1 DEF SafeBeforeHeard
  <1> QED BY <1>8, <1>9, <1>10 DEF JournalInv


\* What the task appends is in the journal.
LEMMA RecordedAll ==
  ASSUME Steady, journal \in JournalType, attached = TRUE, NEW added \in Seq(Record)
  PROVE  Recorded(added) = {[journal EXCEPT !.records = @ \o added]}
  <1>1. "append" \notin Faults
    BY DEF Steady
  <1>2. CASE added = <<>>
    <2>1. journal.records \o added = journal.records
      BY <1>2 DEF JournalType
    <2>2. [journal EXCEPT !.records = @ \o added] = journal
      BY <2>1 DEF JournalType
    <2> QED BY <1>2, <2>2 DEF Recorded
  <1>3. CASE added # <<>>
    BY <1>1, <1>3 DEF Recorded
  <1> QED BY <1>2, <1>3

\* The changes of a batch, or of a merge, go in the document and in the journal.
LEMMA GrowStep ==
  ASSUME Steady, JournalInv, pc = "idle", pc' = "appended",
         NEW changes \in Seq(Move), doc.rev + Len(changes) <= MaxRev,
         doc' = AllOrdered(doc, changes), journal' \in Recorded(NewRecords(doc')),
         UNCHANGED <<synced, heard>>
  PROVE  /\ doc' \in DocType /\ journal' \in JournalType
         /\ synced' \in 0 .. Len(journal'.records) /\ Shaped' /\ SafeBeforeHeard'
         /\ \E t \in Seq(Change) : Grew(doc, doc', t)
  <1>1. Typed /\ Shaped /\ SafeBeforeHeard
    BY DEF JournalInv
  <1>2. /\ journal \in JournalType /\ doc \in DocType /\ DocRight(doc) /\ attached = TRUE
        /\ journal.there /\ Matches(journal, doc) /\ AllRight(journal.records, journal.first)
        /\ synced \in 0 .. Len(journal.records)
    BY <1>1 DEF Typed, Shaped
  <1>3. PICK t \in Seq(Change) : Grew(doc, doc', t)
    BY <1>2, GrowsRight
  <1>4. NewRecords(doc') = t
    BY <1>3 DEF NewRecords, Grew
  <1> DEFINE R == journal.records first == journal.first
  <1>5. /\ R \in Seq(Record) /\ first \in Nat /\ Len(R) \in Nat
        /\ doc.first = first /\ doc.log = Changes(R) /\ doc.saved = SavedIn(R, first)
        /\ doc.rev = first + Len(doc.log) /\ doc.original = journal.original
    BY <1>2 DEF JournalType, Matches, DocRight
  <1>6. t \in Seq(Record)
    BY DEF Record
  <1>7. journal' = [journal EXCEPT !.records = R \o t]
    BY <1>2, <1>4, <1>6, RecordedAll
  <1>8. /\ doc' \in DocType /\ DocRight(doc') /\ doc'.rev = doc.rev + Len(t)
        /\ \A i \in 1 .. Len(t) : t[i].rev = doc.rev + i
        /\ doc'.first = doc.first /\ doc'.original = doc.original
        /\ doc'.saved = doc.saved /\ doc'.log = doc.log \o t /\ doc'.rev <= MaxRev
    BY <1>3 DEF Grew, DocRight
  <1> DEFINE R2 == R \o t
  <1>9. /\ R2 \in Seq(Record) /\ Changes(R2) = Changes(R) \o t /\ Saves(R2) = Saves(R)
    <2> HIDE DEF R
    <2> QED BY <1>5, MoreChanges DEF R2
  <1>10. Joins(R2, R, t)
    <2> HIDE DEF R
    <2> QED BY <1>5, <1>6, Joined DEF R2
  <1>11. AllRight(R2, first)
    <2>1. \A i \in 1 .. Len(t) : t[i].rev = first + Len(Changes(R)) + i
      BY <1>5, <1>8
    <2>2. first + Len(Changes(R)) + Len(t) <= MaxRev
      BY <1>5, <1>8
    <2>3. AllRight(R, first)
      BY <1>2
    <2> HIDE DEF R, first
    <2> QED BY <1>5, <2>1, <2>2, <2>3, ChangesRight DEF R2
  <1> HIDE DEF R2
  <1>12. /\ journal' \in JournalType /\ journal'.there = journal.there /\ journal'.first = first
         /\ journal'.original = journal.original /\ journal'.records = R2
    BY <1>2, <1>7, <1>9 DEF JournalType, R2
  <1>13. SavedIn(R2, first) = SavedIn(R, first)
    BY <1>9 DEF SavedIn
  <1>14. Matches(journal', doc')
    BY <1>5, <1>8, <1>9, <1>12, <1>13 DEF Matches
  <1>15. synced' \in 0 .. Len(journal'.records)
    <2>1. Len(R2) = Len(R) + Len(t) /\ Len(t) \in Nat
      BY <1>10 DEF Joins
    <2>2. synced' = synced /\ synced \in 0 .. Len(R)
      BY <1>2
    <2> QED BY <1>5, <1>12, <2>1, <2>2
  <1>16. Shaped'
    BY <1>2, <1>8, <1>11, <1>12, <1>14 DEF Shaped
  <1>17. SafeBeforeHeard'
    <2>1. ASSUME NEW i \in 1 .. synced PROVE R2[i] = R[i]
      <3>1. i \in 1 .. Len(R)
        BY <1>2, <1>5
      <3> QED BY <1>10, <3>1 DEF Joins
    <2> QED BY <1>1, <1>2, <1>12, <2>1 DEF SafeBeforeHeard
  <1> QED BY <1>3, <1>8, <1>12, <1>15, <1>16, <1>17

LEMMA TakeStep ==
  ASSUME Steady, JournalInv, NEW edits \in SeqOf(Edit, MaxBatch), Take(edits)
  PROVE  JournalInv' /\ \E t \in Seq(Change) : Grew(doc, doc', t)
  <1> DEFINE changes == [i \in DOMAIN edits |-> [op |-> "add", edit |-> edits[i]]]
  <1>1. changes \in Seq(Move) /\ Len(changes) = Len(edits)
    BY BatchMoves
  <1>2. /\ pc = "idle" /\ pc' = "appended" /\ doc.rev + Len(edits) <= MaxRev
        /\ doc' = AllOrdered(doc, changes) /\ journal' \in Recorded(NewRecords(doc'))
        /\ due' = TRUE /\ sealing' = Seals(doc')
        /\ UNCHANGED <<file, synced, then, cache, noticed, attached, retry,
                       base, from, touched, heard, shown, crashes>>
    BY DEF Take, otherVars, pastVars
  <1> HIDE DEF changes
  <1>3. doc.rev + Len(changes) <= MaxRev
    BY <1>1, <1>2
  <1>4. /\ doc' \in DocType /\ journal' \in JournalType
        /\ synced' \in 0 .. Len(journal'.records) /\ Shaped' /\ SafeBeforeHeard'
        /\ \E t \in Seq(Change) : Grew(doc, doc', t)
    BY <1>1, <1>2, <1>3, GrowStep
  <1>5. sealing' \in BOOLEAN
    BY <1>2 DEF Seals
  <1>6. Typed'
    BY <1>2, <1>4, <1>5 DEF JournalInv, Typed
  <1> QED BY <1>4, <1>6 DEF JournalInv

LEMMA LookStep ==
  ASSUME Steady, JournalInv, Look
  PROVE  /\ JournalInv'
         /\ \/ UNCHANGED <<pc, doc, cache, journal, sealing>>
            \/ pc' = "appended" /\ sealing' = Seals(doc')
               /\ \E t \in Seq(Change) : Grew(doc, doc', t)
  <1>1. Typed /\ doc \in DocType
    BY DEF JournalInv, Typed
  <1>2. PICK new \in file :
       \/ /\ new = cache \/ ~HasStates(doc)
          /\ touched' = (new # doc.model)
          /\ UNCHANGED <<pc, doc, cache, journal, due, sealing>>
       \/ /\ new # cache /\ HasStates(doc)
          /\ doc.rev + Len(Nearest(doc, new)) <= MaxRev
          /\ doc' = AllOrdered(doc, Nearest(doc, new))
          /\ journal' \in Recorded(NewRecords(doc'))
          /\ cache' = new
          /\ touched' = FALSE
          /\ due' = (due \/ doc'.rev # doc.rev)
          /\ sealing' = Seals(doc')
          /\ pc' = "appended"
    BY DEF Look
  <1>3. /\ pc = "idle" /\ noticed' = TRUE
        /\ UNCHANGED <<file, synced, then, attached, retry, base, from, heard, shown, crashes>>
    BY DEF Look, pastVars
  <1>4. new \in Content
    BY <1>1, <1>2 DEF Typed
  <1>5. CASE /\ touched' = (new # doc.model)
             /\ UNCHANGED <<pc, doc, cache, journal, due, sealing>>
    <2>1. touched' \in BOOLEAN
      BY <1>5
    <2>2. UNCHANGED <<pc, doc, cache, journal, due, sealing>>
      BY <1>5
    <2>3. Shaped' /\ SafeBeforeHeard' /\ doc' \in DocType
      BY <1>3, <2>2, KeptSame
    <2>4. Typed'
      BY <1>1, <1>3, <2>1, <2>2 DEF Typed
    <2> QED BY <2>2, <2>3, <2>4 DEF JournalInv
  <1>6. CASE /\ doc.rev + Len(Nearest(doc, new)) <= MaxRev
             /\ doc' = AllOrdered(doc, Nearest(doc, new))
             /\ journal' \in Recorded(NewRecords(doc'))
             /\ cache' = new
             /\ touched' = FALSE
             /\ due' = (due \/ doc'.rev # doc.rev)
             /\ sealing' = Seals(doc')
             /\ pc' = "appended"
    <2> DEFINE changes == Nearest(doc, new)
    <2>1. changes \in Seq(Move)
      BY <1>1, <1>4, NearestMoves
    <2> HIDE DEF changes
    <2>2. doc.rev + Len(changes) <= MaxRev /\ doc' = AllOrdered(doc, changes)
      BY <1>6 DEF changes
    <2>3. /\ doc' \in DocType /\ journal' \in JournalType
          /\ synced' \in 0 .. Len(journal'.records) /\ Shaped' /\ SafeBeforeHeard'
          /\ \E t \in Seq(Change) : Grew(doc, doc', t)
      BY <1>3, <1>6, <2>1, <2>2, GrowStep
    <2>4. sealing' \in BOOLEAN /\ due' \in BOOLEAN
      BY <1>1, <1>6 DEF Seals, Typed
    <2>5. Typed'
      BY <1>1, <1>3, <1>4, <1>6, <2>3, <2>4 DEF Typed
    <2> QED BY <1>6, <2>3, <2>5 DEF JournalInv
  <1> QED BY <1>2, <1>5, <1>6

LEMMA WrittenStep ==
  ASSUME Steady, JournalInv, Written
  PROVE  JournalInv' /\ cache' = doc'.model
         /\ doc'.model = doc.model /\ doc'.original = doc.original /\ doc'.log = doc.log
  <1>1. Typed /\ Shaped /\ SafeBeforeHeard /\ pc = "renamed"
    BY DEF JournalInv, Written
  <1>2. /\ journal \in JournalType /\ doc \in DocType /\ DocRight(doc) /\ attached = TRUE
        /\ journal.there /\ Matches(journal, doc) /\ AllRight(journal.records, journal.first)
        /\ synced \in 0 .. Len(journal.records) /\ doc.rev # doc.saved
    BY <1>1 DEF Typed, Shaped
  <1> DEFINE R == journal.records first == journal.first
             x == [kind |-> "saved", rev |-> doc.rev]
             R2 == Append(R, x)
  <1>3. /\ noticed' = TRUE /\ journal' \in Recorded(<<x>>) /\ synced' \in Sync(journal')
        /\ cache' = doc.model /\ doc' = Saved(doc, doc.rev) /\ pc' = "saved"
        /\ UNCHANGED <<file, then, attached, due, retry, sealing, base, from, touched,
                       heard, shown, crashes>>
    BY DEF Written, timeVars, otherVars, pastVars
  <1>4. /\ R \in Seq(Record) /\ first \in Nat /\ doc.rev \in Nat /\ Len(R) \in Nat
        /\ doc.first = first /\ doc.log = Changes(R) /\ doc.saved = SavedIn(R, first)
        /\ doc.rev = first + Len(Changes(R)) /\ doc.original = journal.original
        /\ doc.model \in Content
    BY <1>2 DEF JournalType, DocType, DocRight, Matches
  <1>5. x \in SavedRecord /\ x \in Record /\ x.rev = doc.rev
    BY <1>4 DEF SavedRecord, Record
  <1> HIDE DEF x
  <1>6. <<x>> \in Seq(Record) /\ R \o <<x>> = R2
    BY <1>4, <1>5
  <1>7. journal' = [journal EXCEPT !.records = R \o <<x>>]
    BY <1>2, <1>3, <1>6, RecordedAll
  <1>8. /\ R2 \in Seq(Record) /\ AllRight(R2, first)
        /\ Changes(R2) = Changes(R) /\ SavedIn(R2, first) = doc.rev
    <2>1. AllRight(R, first) /\ x.rev # SavedIn(R, first) /\ x.rev = first + Len(Changes(R))
      BY <1>2, <1>4, <1>5
    <2> HIDE DEF R, first
    <2> QED BY <1>4, <1>5, <2>1, SaveRight DEF R2
  <1>9. Len(R2) = Len(R) + 1 /\ \A i \in 1 .. Len(R) : R2[i] = R[i]
    BY <1>4, <1>5
  <1> HIDE DEF R2
  <1>10. /\ journal' \in JournalType /\ journal'.there /\ journal'.first = first
         /\ journal'.original = journal.original /\ journal'.records = R2
    BY <1>2, <1>6, <1>7, <1>8 DEF JournalType
  <1>11. synced' = Len(R2)
    BY <1>3, <1>10 DEF Sync, Steady
  <1>12. /\ doc' \in DocType /\ DocRight(doc') /\ doc'.saved = doc.rev
         /\ doc'.model = doc.model /\ doc'.log = doc.log /\ doc'.rev = doc.rev
         /\ doc'.first = doc.first /\ doc'.original = doc.original
    BY <1>2, <1>3, SavedDocument
  <1>13. Matches(journal', doc')
    BY <1>4, <1>8, <1>10, <1>12 DEF Matches
  <1>14. Typed'
    <2>1. synced' \in 0 .. Len(journal'.records)
      BY <1>4, <1>9, <1>10, <1>11
    <2> QED BY <1>1, <1>3, <1>4, <1>10, <1>12, <2>1 DEF Typed
  <1>15. Shaped'
    BY <1>3, <1>8, <1>10, <1>12, <1>13 DEF Shaped
  <1>16. SafeBeforeHeard'
    <2>1. ASSUME NEW i \in 1 .. synced PROVE i \in 1 .. synced' /\ R2[i] = R[i]
      <3>1. i \in 1 .. Len(R)
        BY <1>2, <1>4
      <3> QED BY <1>4, <1>9, <1>11, <3>1
    <2> QED BY <1>1, <1>2, <1>3, <1>10, <2>1 DEF SafeBeforeHeard
  <1> QED BY <1>3, <1>12, <1>14, <1>15, <1>16 DEF JournalInv

LEMMA SealSteps ==
  ASSUME Steady, JournalInv, SealRemove \/ SealStart
  PROVE  JournalInv'
  <1>1. Typed /\ Shaped /\ SafeBeforeHeard
    BY DEF JournalInv
  <1>2. /\ journal \in JournalType /\ doc \in DocType /\ DocRight(doc)
        /\ AllRight(journal.records, journal.first) /\ cache \in Content
    BY <1>1 DEF Typed, Shaped
  <1>3. CASE SealRemove
    <2>1. /\ pc = "saved" /\ doc.rev = doc.saved /\ pc' = "sealing"
          /\ journal' = NoJournal /\ synced' = 0
          /\ UNCHANGED <<file, then, doc, cache, noticed, attached, due, retry, sealing,
                         base, from, touched, heard, shown, crashes>>
      BY <1>3 DEF SealRemove, timeVars, otherVars, pastVars
    <2>2. journal.there /\ Matches(journal, doc)
      BY <1>1, <2>1 DEF Shaped
    <2>3. /\ journal' \in JournalType /\ ~journal'.there /\ synced' \in 0 .. Len(journal'.records)
          /\ AllRight(journal'.records, journal'.first)
      BY <2>1, WithoutJournal
    <2>4. Typed'
      BY <1>1, <2>1, <2>3 DEF Typed
    <2>5. Shaped'
      BY <1>2, <2>1, <2>3 DEF Shaped
    <2>6. ASSUME NEW c \in heard PROVE c.rev <= doc.saved
      <3>1. /\ doc.first = journal.first /\ doc.log = Changes(journal.records)
            /\ journal.records \in Seq(Record) /\ Len(doc.log) \in Nat /\ doc.first \in Nat
            /\ doc.rev = doc.first + Len(doc.log) /\ Chain(doc.log, doc.first)
            /\ synced \in 0 .. Len(journal.records)
        BY <1>1, <1>2, <2>2 DEF Matches, JournalType, DocType, DocRight, Typed
      <3>2. c \in Change /\ c.rev \in Nat
        BY <1>1, <2>6 DEF Typed, Change
      <3>3. c.rev <= journal.first \/ \E i \in 1 .. synced : journal.records[i] = c
        BY <1>1, <2>2 DEF SafeBeforeHeard
      <3>4. CASE c.rev <= journal.first
        BY <2>1, <3>1, <3>2, <3>4
      <3>5. CASE \E i \in 1 .. synced : journal.records[i] = c
        <4>1. PICK i \in 1 .. synced : journal.records[i] = c
          BY <3>5
        <4>2. i \in 1 .. Len(journal.records)
          BY <3>1
        <4>3. PICK k \in 1 .. Len(doc.log) : doc.log[k] = c
          <5>1. Sorted(journal.records)
            BY <3>1, AreSorted
          <5>2. \E k \in 1 .. Len(Changes(journal.records)) : Changes(journal.records)[k] = c
            BY <3>2, <4>1, <4>2, <5>1 DEF Sorted
          <5> QED BY <3>1, <5>2
        <4>4. c.rev = doc.first + k
          BY <3>1, <4>3 DEF Chain
        <4> QED BY <2>1, <3>1, <4>3, <4>4
      <3> QED BY <3>3, <3>4, <3>5
    <2>7. SafeBeforeHeard'
      BY <2>1, <2>3, <2>6 DEF SafeBeforeHeard
    <2> QED BY <2>4, <2>5, <2>7 DEF JournalInv
  <1>4. CASE SealStart
    <2>1. /\ pc = "sealing" /\ pc' = "idle"
          /\ journal' = Started(cache, doc.rev) /\ doc' = Rebased(doc, cache) /\ attached' = TRUE
          /\ UNCHANGED <<file, synced, then, cache, noticed, due, retry, sealing,
                         base, from, touched, heard, shown, crashes>>
      BY <1>4 DEF SealStart, timeVars, otherVars, pastVars, Steady
    <2>2. ~journal.there /\ doc.rev = doc.saved /\ synced = 0
      BY <1>1, <2>1 DEF Shaped
    <2>3. doc.rev \in Nat /\ doc.rev <= MaxRev /\ doc.model \in Content /\ MaxRev \in Nat
      BY <1>2, JournalAssumption DEF DocType, DocRight
    <2>4. /\ journal' \in JournalType /\ journal'.there /\ journal'.first = doc.rev
          /\ journal'.original = cache /\ Len(journal'.records) = 0
          /\ AllRight(journal'.records, journal'.first)
          /\ Changes(journal'.records) = <<>>
          /\ SavedIn(journal'.records, journal'.first) = doc.rev
      BY <1>2, <2>1, <2>3, NewJournal
    <2>5. /\ doc' \in DocType /\ DocRight(doc') /\ doc'.first = doc.rev /\ doc'.original = cache
          /\ doc'.log = <<>> /\ doc'.saved = doc.rev
      <3> DEFINE log == <<>> states == <<doc.rev>>
      <3>1. log \in Seq(Change) /\ Len(log) = 0 /\ states \in Seq(Nat) /\ states # <<>>
        BY <2>3
      <3>2. doc' = [doc EXCEPT !.original = cache, !.first = doc.rev, !.log = log,
                               !.states = states, !.saved = doc.rev]
        BY <2>1 DEF Rebased
      <3> HIDE DEF log, states
      <3>3. /\ doc' \in DocType /\ doc'.first = doc.rev /\ doc'.original = cache
            /\ doc'.log = log /\ doc'.saved = doc.rev /\ doc'.rev = doc.rev
            /\ doc'.states = states
        BY <1>2, <2>3, <3>1, <3>2 DEF DocType
      <3>4. DocRight(doc')
        BY <2>3, <3>1, <3>3 DEF DocRight, Chain
      <3> QED BY <3>3, <3>4 DEF log
    <2>6. Matches(journal', doc')
      BY <2>4, <2>5 DEF Matches
    <2>7. synced' \in 0 .. Len(journal'.records)
      BY <2>1, <2>2, <2>4
    <2>8. Typed'
      BY <1>1, <2>1, <2>4, <2>5, <2>7 DEF Typed
    <2>9. Shaped'
      BY <2>1, <2>4, <2>5, <2>6 DEF Shaped
    <2>10. SafeBeforeHeard'
      BY <1>1, <2>1, <2>2, <2>4 DEF SafeBeforeHeard
    <2> QED BY <2>8, <2>9, <2>10 DEF JournalInv
  <1> QED BY <1>3, <1>4


LEMMA JournalInvStep ==
  ASSUME Steady, JournalInv, [Next]_vars
  PROVE  JournalInv'
  <1>1. CASE \/ OpenRead \/ OpenFails \/ TakeNothing \/ SaveDue \/ Flush \/ Finish \/ Save
             \/ Rename \/ WriteFails \/ SaveDone \/ Other \/ Finished \/ UNCHANGED vars
    BY <1>1, KeepsSteps DEF Other, Finished
  <1>2. CASE OpenStamp
    BY <1>2, OpenStep
  <1>3. CASE Hear
    BY <1>3, HearStep
  <1>4. CASE Written
    BY <1>4, WrittenStep
  <1>5. CASE SealRemove \/ SealStart
    BY <1>5, SealSteps
  <1>6. CASE Closed \/ LookGone \/ Crash
    BY <1>6, EndSteps
  <1>7. CASE Look
    BY <1>7, LookStep
  <1>8. CASE \E edits \in SeqOf(Edit, MaxBatch) :
               edits # <<>> /\ IsInjective(edits) /\ Take(edits)
    <2>1. PICK edits \in SeqOf(Edit, MaxBatch) : Take(edits)
      BY <1>8
    <2> QED BY <2>1, TakeStep
  <1> QED BY <1>1, <1>2, <1>3, <1>4, <1>5, <1>6, <1>7, <1>8 DEF Next, Task

LEMMA JournalInvAlways ==
  ASSUME Steady
  PROVE  Spec => []JournalInv
  <1>1. JournalInv /\ [Next]_vars => JournalInv'
    BY JournalInvStep
  <1> QED BY <1>1, JournalInvInit, PTL DEF Spec

(***************************************************************************)
(* Every variable keeps its type, the log and the journal hold only what   *)
(* the code writes to them, and no rev is saved before it is made.         *)
(***************************************************************************)
THEOREM JournalTypeAlways ==
  ASSUME Steady
  PROVE  Spec => []TypeOK
  <1>1. JournalInv => TypeOK
    <2> SUFFICES ASSUME JournalInv PROVE TypeOK
      OBVIOUS
    <2>1. Typed /\ DocRight(doc)
      BY DEF JournalInv, Shaped
    <2>2. Cardinality(file) <= 1
      <3>1. CASE file = {}
        BY <3>1, FS_EmptySet
      <3>2. CASE \E c \in Content : file = {c}
        <4>1. PICK c \in Content : file = {c}
          BY <3>2
        <4>2. Cardinality({c}) = 1
          BY FS_Singleton
        <4> QED BY <4>1, <4>2
      <3> QED BY <2>1, <3>1, <3>2 DEF Typed
    <2>3. /\ journal.there \in BOOLEAN /\ journal.original \in Content /\ journal.first \in Nat
          /\ journal.records \in Seq(Record)
      BY <2>1 DEF Typed, JournalType
    <2>4. journal.records \in Seq(Change \cup SavedRecord \cup Torn)
      BY <2>3 DEF Record
    <2>5. /\ doc.model \in Content /\ doc.original \in Content /\ doc.rev \in Nat
          /\ doc.first \in Nat /\ doc.log \in Seq(Change) /\ doc.states \in Seq(Nat)
          /\ doc.waits \in BOOLEAN
      BY <2>1 DEF Typed, DocType
    <2>6. doc.first \in 0 .. doc.rev /\ doc.states # <<>> /\ doc.saved \in doc.first .. doc.rev
      BY <2>1, <2>5 DEF DocRight
    <2>7. {noticed, attached, due, retry, sealing, touched} \subseteq BOOLEAN
      BY <2>1 DEF Typed
    <2> QED BY <2>1, <2>2, <2>3, <2>4, <2>5, <2>6, <2>7 DEF Typed, TypeOK
  <1> QED BY <1>1, JournalInvAlways, PTL

(***************************************************************************)
(* "Each change is safe in the journal before any view hears of it":       *)
(* run_effects syncs before it sends, whatever crashes and saves do.       *)
(***************************************************************************)
THEOREM SafeBeforeHeardAlways ==
  ASSUME Steady
  PROVE  Spec => []SafeBeforeHeard
  <1>1. JournalInv => SafeBeforeHeard
    BY DEF JournalInv
  <1> QED BY <1>1, JournalInvAlways, PTL

-----------------------------------------------------------------------------
(* A restart builds the same document *)

(***************************************************************************)
(* A new journal starts from the file as the task knows it, so the file    *)
(* must hold the document then.  It does when a change that seals is why,  *)
(* because there is something to save then.                                *)
(***************************************************************************)
SameInv ==
  /\ doc.model = Replay(doc.original, doc.log)
  /\ pc = "appended" /\ sealing => doc.rev # doc.saved
  /\ pc = "saving" /\ then = "seal" => doc.rev # doc.saved
  /\ pc = "saved" /\ then = "seal" /\ doc.rev = doc.saved => cache = doc.model
  /\ pc = "sealing" => cache = doc.model

\* A journal that never gets long enough for a new one to start for its length.
Short == MostJournal >= 2 * MaxRev

LEMMA NeverLong ==
  ASSUME JournalInv, Short
  PROVE  Long = {FALSE}
  <1> DEFINE R == journal.records first == journal.first C == Changes(R) S == Saves(R)
  <1>1. R \in Seq(Record) /\ first \in Nat /\ AllRight(R, first) /\ attached = TRUE
    BY DEF JournalInv, Typed, Shaped, JournalType
  <1>2. Right(R, first) /\ Sorted(R)
    <2> HIDE DEF R, first
    <2> QED BY <1>1, RightNow, AreSorted
  <1>3. /\ first + Len(C) <= MaxRev /\ SavedIn(R, first) \in first .. first + Len(C)
        /\ Len(S) <= SavedIn(R, first) - first
    BY <1>2 DEF Right
  <1>4. Len(C) + Len(S) = Len(R) /\ Len(C) \in Nat /\ Len(S) \in Nat
    BY <1>2 DEF Sorted
  <1>5. MaxRev \in Nat /\ MostJournal \in Nat /\ MostJournal >= 2 * MaxRev
    BY JournalAssumption DEF Short
  <1> DEFINE saved == SavedIn(R, first) lenC == Len(C) lenS == Len(S) lenR == Len(R)
  <1>6. /\ first + lenC <= MaxRev /\ saved \in first .. first + lenC
        /\ lenS <= saved - first /\ lenC + lenS = lenR /\ lenC \in Nat /\ lenS \in Nat
        /\ first \in Nat
    BY <1>1, <1>3, <1>4
  <1> HIDE DEF saved, lenC, lenS, lenR, first
  <1>7. ~(lenR > MostJournal)
    BY <1>5, <1>6
  <1>8. (Len(journal.records) > MostJournal) = FALSE
    BY <1>7 DEF lenR
  <1>9. Long = {Len(journal.records) > MostJournal}
    BY <1>1 DEF Long
  <1> QED BY <1>8, <1>9, Zenon

LEMMA NoDocumentSame == NoDocument.model = Replay(NoDocument.original, NoDocument.log)
  <1>1. {} \in Content
    BY DEF Content
  <1> QED BY <1>1, NewDocument, ReplayNothing DEF NoDocument

LEMMA SameInvStep ==
  ASSUME Steady, Short, JournalInv, SameInv, [Next]_vars
  PROVE  SameInv'
  <1>1. /\ doc \in DocType /\ DocRight(doc) /\ cache \in Content
        /\ journal \in JournalType /\ AllRight(journal.records, journal.first)
        /\ pc \in {"writing", "renamed"} => doc.rev # doc.saved
    BY DEF JournalInv, Typed, Shaped
  <1>2. Long = {FALSE}
    BY NeverLong
  <1>3. doc.saved \in Nat /\ doc.rev \in Nat /\ doc.saved <= doc.rev /\ doc.first \in Nat
    BY <1>1 DEF DocType, DocRight
  <1>4. CASE \/ OpenRead \/ OpenFails \/ SaveDue \/ Flush \/ Finish \/ Rename \/ SaveDone
             \/ OutsideRead \/ OutsideRemove \/ UNCHANGED vars
    BY <1>4 DEF SameInv, OpenRead, OpenFails, SaveDue, Flush, Finish, Rename, SaveDone,
                OutsideRead, OutsideRemove, vars, flowVars
  <1>5. CASE TakeNothing
    BY <1>2, <1>5 DEF TakeNothing
  <1>6. CASE \E e \in Outside : OutsideWrite(e)
    BY <1>6 DEF SameInv, OutsideWrite, flowVars
  <1>7. CASE Save \/ WriteFails
    <2>1. doc' = doc \/ doc' = [doc EXCEPT !.waits = TRUE]
      BY <1>7 DEF Save, WriteFails
    <2>2. /\ doc'.model = doc.model /\ doc'.original = doc.original /\ doc'.rev = doc.rev
          /\ doc'.log = doc.log /\ doc'.saved = doc.saved
      BY <1>1, <2>1 DEF DocType
    <2>3. then' = then /\ cache' = cache /\ pc' \in {"saved", "writing"}
          /\ (pc' = "saved" /\ then = "seal" => doc.rev # doc.saved)
      BY <1>1, <1>7 DEF Save, WriteFails, SameInv
    <2> QED BY <2>2, <2>3 DEF SameInv
  <1>8. CASE \/ \E edits \in SeqOf(Edit, MaxBatch) :
                  edits # <<>> /\ IsInjective(edits) /\ Take(edits)
             \/ Look
    <2>1. CASE UNCHANGED <<pc, doc, cache, journal, sealing>> /\ then' = then
      BY <2>1 DEF SameInv
    <2>2. CASE /\ pc' = "appended" /\ sealing' = Seals(doc')
               /\ \E t \in Seq(Change) : Grew(doc, doc', t)
      <3>1. PICK t \in Seq(Change) : Grew(doc, doc', t)
        BY <2>2
      <3>2. doc'.model = Replay(doc'.original, doc'.log)
        BY <3>1 DEF Grew, SameInv
      <3>3. sealing' => doc'.rev # doc'.saved
        <4>1. NewRecords(doc') = t
          BY <3>1 DEF Grew, NewRecords
        <4>2. sealing' => Len(t) >= 1 /\ Len(t) \in Nat
          <5>1. ASSUME sealing' PROVE \E i \in DOMAIN t : TRUE
            BY <2>2, <4>1, <5>1 DEF Seals, ToSet
          <5> QED BY <5>1
        <4>3. doc'.rev = doc.rev + Len(t) /\ doc'.saved = doc.saved
          BY <3>1 DEF Grew
        <4> QED BY <1>3, <4>2, <4>3
      <3> QED BY <2>2, <3>2, <3>3 DEF SameInv
    <2>3. CASE \E edits \in SeqOf(Edit, MaxBatch) : Take(edits)
      <3>1. PICK edits \in SeqOf(Edit, MaxBatch) : Take(edits)
        BY <2>3
      <3>2. \E t \in Seq(Change) : Grew(doc, doc', t)
        BY <3>1, TakeStep
      <3> QED BY <2>2, <3>1, <3>2 DEF Take
    <2>4. CASE Look
      <3>1. then' = then
        BY <2>4 DEF Look
      <3> QED BY <2>1, <2>2, <2>4, <3>1, LookStep
    <2> QED BY <1>8, <2>3, <2>4
  <1>9. CASE Hear
    <2>1. PICK long \in Long : IF sealing \/ long THEN pc' = "saving" /\ then' = "seal"
                                                  ELSE pc' = "idle" /\ then' = then
      BY <1>9 DEF Hear
    <2>2. \/ sealing /\ pc' = "saving" /\ then' = "seal"
          \/ pc' = "idle"
      BY <1>2, <2>1, Zenon
    <2>3. pc = "appended" /\ doc' = doc
      BY <1>9 DEF Hear
    <2> QED BY <2>2, <2>3 DEF SameInv
  <1>10. CASE Written
    <2>1. /\ cache' = doc'.model /\ doc'.model = doc.model /\ doc'.original = doc.original
          /\ doc'.log = doc.log
      BY <1>10, WrittenStep
    <2>2. pc' = "saved"
      BY <1>10 DEF Written
    <2> QED BY <2>1, <2>2 DEF SameInv
  <1>11. CASE SealRemove
    BY <1>11 DEF SealRemove, SameInv
  <1>12. CASE SealStart
    <2>1. pc = "sealing" /\ pc' = "idle" /\ doc' = Rebased(doc, cache)
      BY <1>12 DEF SealStart, Steady
    <2>2. doc'.model = doc.model /\ doc'.original = cache /\ doc'.log = <<>>
      BY <1>1, <2>1 DEF Rebased, DocType
    <2>3. Replay(cache, <<>>) = cache
      BY <1>1, ReplayNothing
    <2>4. cache = doc.model
      BY <2>1 DEF SameInv
    <2>5. doc'.model = Replay(doc'.original, doc'.log)
      BY <2>2, <2>3, <2>4
    <2> QED BY <2>1, <2>5 DEF SameInv
  <1>13. CASE Closed \/ LookGone \/ Crash
    <2>1. pc' = "down" /\ doc' = NoDocument
      BY <1>13 DEF Closed, LookGone, Crash, Forget
    <2> QED BY <2>1, NoDocumentSame DEF SameInv
  <1>14. CASE OpenStamp
    <2>1. pc' = "idle"
      BY <1>14 DEF OpenStamp
    <2>2. doc' = Restored(journal) \/ doc' = Opened(cache)
      BY <1>14 DEF OpenStamp
    <2>3. Restored(journal).model = Replay(Restored(journal).original, Restored(journal).log)
      BY <1>1, RestoredDocument
    <2>4. Opened(cache).model = Replay(Opened(cache).original, Opened(cache).log)
      BY <1>1, NewDocument, ReplayNothing
    <2> QED BY <2>1, <2>2, <2>3, <2>4 DEF SameInv
  <1> QED BY <1>4, <1>5, <1>6, <1>7, <1>8, <1>9, <1>10, <1>11, <1>12, <1>13, <1>14
          DEF Next, Task, Other, Finished

(***************************************************************************)
(* "Builds a document again from its journal": between two steps of the    *)
(* task, Document::restore would give the document that views see, with    *)
(* its log, its rev and the rev it saved, as long as the journal does not  *)
(* get long: the new journal that start_new_journal starts then would be   *)
(* of the file as the task knows it, which need not hold the document.     *)
(***************************************************************************)
THEOREM RestartBuildsSameAlways ==
  ASSUME Steady, Short
  PROVE  Spec => []RestartBuildsSame
  <1>1. Init => SameInv
    <2> SUFFICES ASSUME Init PROVE SameInv
      OBVIOUS
    <2> QED BY NoDocumentSame DEF Init, SameInv
  <1>2. JournalInv /\ SameInv /\ [Next]_vars => SameInv'
    BY SameInvStep
  <1>3. JournalInv /\ SameInv => RestartBuildsSame
    <2> SUFFICES ASSUME JournalInv, SameInv, pc = "idle"
                 PROVE  LET again == Restored(journal)
                        IN /\ again.model = doc.model /\ again.log = doc.log
                           /\ again.rev = doc.rev /\ again.saved = doc.saved
      BY DEF RestartBuildsSame
    <2> DEFINE again == Restored(journal)
    <2>1. /\ journal \in JournalType /\ AllRight(journal.records, journal.first)
          /\ Matches(journal, doc) /\ DocRight(doc)
      BY DEF JournalInv, Typed, Shaped
    <2>2. /\ DocRight(again) /\ Matches(journal, again)
          /\ again.model = Replay(again.original, again.log)
      BY <2>1, RestoredDocument
    <2> HIDE DEF again
    <2>3. /\ again.first = doc.first /\ again.original = doc.original
          /\ again.log = doc.log /\ again.saved = doc.saved
      BY <2>1, <2>2 DEF Matches
    <2>4. again.rev = doc.rev
      BY <2>1, <2>2, <2>3 DEF DocRight
    <2>5. again.model = doc.model
      BY <2>2, <2>3 DEF SameInv
    <2> QED BY <2>3, <2>4, <2>5 DEF again
  <1> QED BY <1>1, <1>2, <1>3, JournalInvAlways, PTL DEF Spec

-----------------------------------------------------------------------------
(* The file holds what the task says of it *)

(***************************************************************************)
(* What other programs wrote of a content and of the changes after it: the *)
(* task adds it to the document and never removes it, which is what tells  *)
(* a write of theirs from every state the document ever saved.             *)
(***************************************************************************)
Ours(original, log) == Outside \cap (original \cup {log[i].edit : i \in 1 .. Len(log)})

NeverRemoved(log) == \A i \in 1 .. Len(log) : log[i].edit \in Outside => log[i].op = "add"

LEMMA ReplayOurs ==
  ASSUME NEW m \in Content, NEW s \in Seq(Change), NeverRemoved(s)
  PROVE  Outside \cap Replay(m, s) = Ours(m, s)
  <1> DEFINE N == Len(s)
             Upto(n) == Outside \cap (m \cup {s[i].edit : i \in 1 .. n})
  <1>1. N \in Nat /\ Applicable(s)
    BY LogApplicable
  <1>2. PICK f : Passes(f, m, s) /\ Replay(m, s) = f[N]
    BY <1>1, ReplayIs
  <1>3. /\ f[0] = m /\ \A i \in 1 .. N : f[i] = Apply(f[i - 1], s[i])
    BY <1>2 DEF Passes
  <1> DEFINE W == {n \in 0 .. N : Outside \cap f[n] = Upto(n)}
  <1>4. 0 \in W
    BY <1>1, <1>3
  <1>5. ASSUME NEW n \in 0 .. N - 1, n \in W PROVE n + 1 \in W
    <2>1. n + 1 \in 1 .. N /\ (n + 1) - 1 = n /\ n + 1 \in 0 .. N
      BY <1>1
    <2>2. f[n + 1] = Apply(f[n], s[n + 1])
      BY <1>3, <2>1
    <2>3. Outside \cap f[n] = Upto(n)
      BY <1>5
    <2>4. Upto(n + 1) = Upto(n) \cup (Outside \cap {s[n + 1].edit})
      <3>1. 1 .. n + 1 = (1 .. n) \cup {n + 1}
        BY <1>1
      <3> QED BY <3>1
    <2>5. s[n + 1].edit \in Outside => s[n + 1].op = "add"
      BY <2>1 DEF NeverRemoved
    <2> HIDE DEF Upto
    <2>6. Outside \cap f[n + 1] = Upto(n) \cup (Outside \cap {s[n + 1].edit})
      <3>1. CASE s[n + 1].op = "add"
        <4>1. f[n + 1] = f[n] \cup {s[n + 1].edit}
          BY <2>2, <3>1 DEF Apply
        <4> QED BY <2>3, <4>1
      <3>2. CASE s[n + 1].op # "add"
        <4>1. f[n + 1] = f[n] \ {s[n + 1].edit} /\ s[n + 1].edit \notin Outside
          BY <2>2, <2>5, <3>2 DEF Apply
        <4> QED BY <2>3, <4>1
      <3> QED BY <3>1, <3>2
    <2> QED BY <2>1, <2>4, <2>6
  <1> HIDE DEF W
  <1>6. 0 .. N \subseteq W
    <2> HIDE DEF N
    <2> QED BY <1>1, <1>4, <1>5, UpTo
  <1>7. N \in W
    BY <1>1, <1>6
  <1> QED BY <1>2, <1>7 DEF W, Ours

LEMMA StateTaken ==
  ASSUME NEW d \in DocType, NEW r
  PROVE  \E n \in 0 .. Len(d.log) :
           /\ StateAt(d, r) = Replay(d.original, SubSeq(d.log, 1, n))
           /\ SubSeq(d.log, 1, n) \in Seq(Change) /\ Len(SubSeq(d.log, 1, n)) = n
           /\ \A i \in 1 .. n : SubSeq(d.log, 1, n)[i] = d.log[i]
           /\ DocRight(d) /\ r = d.rev => n = Len(d.log)
  <1> DEFINE taken == {i \in DOMAIN d.log :
                         (IF i = 1 THEN d.first ELSE d.log[i - 1].rev) < r}
             n == Cardinality(taken)
  <1>1. d.log \in Seq(Change) /\ d.first \in Nat
    BY DEF DocType
  <1>2. DOMAIN d.log = 1 .. Len(d.log) /\ Len(d.log) \in Nat
    BY <1>1
  <1>3. taken \in SUBSET (1 .. Len(d.log))
    BY <1>2
  <1>4. StateAt(d, r) = Replay(d.original, SubSeq(d.log, 1, n))
    BY DEF StateAt
  <1>5. IsFiniteSet(1 .. Len(d.log)) /\ Cardinality(1 .. Len(d.log)) = Len(d.log)
    BY <1>2, FS_Interval
  <1>6. DocRight(d) /\ r = d.rev => taken = 1 .. Len(d.log)
    <2> SUFFICES ASSUME DocRight(d), r = d.rev, NEW i \in 1 .. Len(d.log) PROVE i \in taken
      BY <1>3
    <2>1. r = d.first + Len(d.log) /\ Chain(d.log, d.first)
      BY DEF DocRight
    <2>2. CASE i = 1
      BY <1>1, <1>2, <2>1, <2>2
    <2>3. CASE i # 1
      <3>1. i - 1 \in 1 .. Len(d.log) /\ i - 1 < Len(d.log)
        BY <1>2, <2>3
      <3>2. d.log[i - 1].rev = d.first + (i - 1)
        BY <2>1, <3>1 DEF Chain
      <3> QED BY <1>1, <1>2, <2>1, <2>3, <3>1, <3>2
    <2> QED BY <2>2, <2>3
  <1> HIDE DEF taken
  <1>7. n \in 0 .. Len(d.log) /\ (DocRight(d) /\ r = d.rev => n = Len(d.log))
    <2>1. IsFiniteSet(taken) /\ n <= Len(d.log) /\ n \in Nat
      BY <1>3, <1>5, FS_Subset, FS_CardinalityType
    <2> QED BY <1>2, <1>5, <1>6, <2>1
  <1> HIDE DEF n
  <1>8. /\ SubSeq(d.log, 1, n) \in Seq(Change) /\ Len(SubSeq(d.log, 1, n)) = n
        /\ \A i \in 1 .. n : SubSeq(d.log, 1, n)[i] = d.log[i]
    BY <1>1, <1>2, <1>7
  <1> QED BY <1>4, <1>7, <1>8

\* A saved state holds nothing of other programs that the document does not.
LEMMA StateOurs ==
  ASSUME NEW d \in DocType, NeverRemoved(d.log), NEW r
  PROVE  Outside \cap StateAt(d, r) \subseteq Ours(d.original, d.log)
  <1>1. PICK n \in 0 .. Len(d.log) :
           /\ StateAt(d, r) = Replay(d.original, SubSeq(d.log, 1, n))
           /\ SubSeq(d.log, 1, n) \in Seq(Change) /\ Len(SubSeq(d.log, 1, n)) = n
           /\ \A i \in 1 .. n : SubSeq(d.log, 1, n)[i] = d.log[i]
    BY StateTaken
  <1> DEFINE s == SubSeq(d.log, 1, n)
  <1>2. s \in Seq(Change) /\ Len(s) = n /\ \A i \in 1 .. n : s[i] = d.log[i]
    BY <1>1
  <1>3. d.original \in Content /\ Len(d.log) \in Nat
    BY DEF DocType
  <1>4. StateAt(d, r) = Replay(d.original, s)
    BY <1>1
  <1> HIDE DEF s
  <1>5. 1 .. n \subseteq 1 .. Len(d.log)
    BY <1>3
  <1>6. NeverRemoved(s)
    BY <1>2, <1>5 DEF NeverRemoved
  <1>7. Outside \cap StateAt(d, r) = Ours(d.original, s)
    BY <1>2, <1>3, <1>4, <1>6, ReplayOurs
  <1>8. {s[i].edit : i \in 1 .. Len(s)} \subseteq {d.log[i].edit : i \in 1 .. Len(d.log)}
    BY <1>2, <1>5
  <1> QED BY <1>7, <1>8 DEF Ours

LEMMA StateNow ==
  ASSUME NEW d \in DocType, DocRight(d)
  PROVE  StateAt(d, d.rev) = Replay(d.original, d.log)
  <1>1. PICK n \in 0 .. Len(d.log) :
           /\ StateAt(d, d.rev) = Replay(d.original, SubSeq(d.log, 1, n))
           /\ n = Len(d.log)
    BY StateTaken
  <1>2. d.log \in Seq(Change)
    BY DEF DocType
  <1>3. SubSeq(d.log, 1, Len(d.log)) = d.log
    BY <1>2, PrefixEnds
  <1> QED BY <1>1, <1>3

LEMMA ComparedFinite ==
  ASSUME NEW old \in Content, NEW new \in Content
  PROVE  IsFiniteSet(Compare(old, new))
  <1>1. IsFiniteSet(Edit \cup Outside)
    BY JournalAssumption, FS_Union
  <1>2. old \ new \in SUBSET (Edit \cup Outside) /\ new \ old \in SUBSET (Edit \cup Outside)
    BY DEF Content
  <1>3. IsFiniteSet(old \ new) /\ IsFiniteSet(new \ old)
    BY <1>1, <1>2, FS_Subset
  <1>4. IsFiniteSet([op : {"add"}, edit : new \ old])
        /\ IsFiniteSet([op : {"remove"}, edit : old \ new])
    BY <1>3, EditsAsMoves
  <1> QED BY <1>4, FS_Union DEF Compare

\* What lies between two contents, in the order that SetToSeq chooses.
LEMMA ComparedSeq ==
  ASSUME NEW old \in Content, NEW new \in Content
  PROVE  LET changes == SetToSeq(Compare(old, new))
         IN /\ \A i \in 1 .. Len(changes) :
                 \/ changes[i].op = "add" /\ changes[i].edit \in new \ old
                 \/ changes[i].op = "remove" /\ changes[i].edit \in old \ new
            /\ new \ old # {} => Len(changes) >= 1
  <1> DEFINE C == Compare(old, new) changes == SetToSeq(C)
  <1>1. IsFiniteSet(C)
    BY ComparedFinite
  <1>2. \A c \in C : \/ c.op = "add" /\ c.edit \in new \ old
                     \/ c.op = "remove" /\ c.edit \in old \ new
    BY DEF Compare
  <1>3. new \ old # {} => C # {}
    <2> SUFFICES ASSUME NEW e \in new \ old PROVE C # {}
      OBVIOUS
    <2>1. [op |-> "add", edit |-> e] \in C
      BY DEF Compare
    <2> QED BY <2>1
  <1> HIDE DEF C
  <1>4. changes \in Seq(C)
    BY <1>1, SetAsSeq
  <1> HIDE DEF changes
  <1>5. \A i \in 1 .. Len(changes) : changes[i] \in C
    BY <1>4
  <1>6. C # {} => Len(changes) >= 1
    <2> SUFFICES ASSUME NEW c \in C PROVE Len(changes) >= 1
      OBVIOUS
    <2> DEFINE n == Cardinality(C)
    <2>1. n \in Nat /\ ExistsBijection(1 .. n, C)
      BY <1>1, FS_CardinalityType
    <2>2. \E f \in [1 .. n -> C] : IsInjective(f)
      BY <2>1 DEF ExistsBijection, Bijection, Injection
    <2>3. SetToSeq(C) \in [1 .. n -> C]
      BY <2>2 DEF SetToSeq
    <2>4. n # 0
      BY <1>1, FS_EmptySet
    <2> HIDE DEF n
    <2>5. Len(changes) = n
      BY <2>1, <2>3 DEF changes
    <2> QED BY <2>1, <2>4, <2>5
  <1> QED BY <1>2, <1>3, <1>5, <1>6 DEF changes, C

(***************************************************************************)
(* What a look merges: nothing of another program that the document holds  *)
(* is taken out, as long as the file holds it, and a file with something   *)
(* new of another program is never taken for a saved state.                *)
(***************************************************************************)
LEMMA NearestOurs ==
  ASSUME NEW d \in DocType, NEW new \in Content, NeverRemoved(d.log),
         Ours(d.original, d.log) \subseteq new
  PROVE  /\ \A i \in 1 .. Len(Nearest(d, new)) : Nearest(d, new)[i].edit \in Outside =>
              Nearest(d, new)[i].op = "add" /\ Nearest(d, new)[i].edit \in new
         /\ ~(Outside \cap new \subseteq Ours(d.original, d.log)) => Len(Nearest(d, new)) >= 1
  <1> DEFINE distance(i) == Cardinality(Compare(StateAt(d, d.states[i]), new))
             start == CHOOSE i \in DOMAIN d.states : \A j \in DOMAIN d.states :
                        distance(i) < distance(j) \/ (distance(i) = distance(j) /\ i <= j)
             old == StateAt(d, d.states[start])
             changes == SetToSeq(Compare(old, new))
  <1>1. Nearest(d, new) = changes
    BY DEF Nearest
  <1>2. old \in Content /\ Outside \cap old \subseteq Ours(d.original, d.log)
    BY StateType, StateOurs
  <1> HIDE DEF old
  <1>3. /\ \A i \in 1 .. Len(changes) :
                 \/ changes[i].op = "add" /\ changes[i].edit \in new \ old
                 \/ changes[i].op = "remove" /\ changes[i].edit \in old \ new
        /\ new \ old # {} => Len(changes) >= 1
    BY <1>2, ComparedSeq
  <1> HIDE DEF changes
  <1>4. ASSUME ~(Outside \cap new \subseteq Ours(d.original, d.log)) PROVE new \ old # {}
    BY <1>2, <1>4
  <1>5. \A i \in 1 .. Len(changes) : changes[i].edit \in Outside =>
              changes[i].op = "add" /\ changes[i].edit \in new
    BY <1>2, <1>3
  <1> QED BY <1>1, <1>3, <1>4, <1>5

\* What ordered changes bring to a document.
LEMMA OrderedOurs ==
  ASSUME NEW d \in DocType, NEW changes \in Seq(Move), NeverRemoved(d.log),
         \A i \in 1 .. Len(changes) : changes[i].edit \in Outside => changes[i].op = "add"
  PROVE  LET d2 == AllOrdered(d, changes)
         IN /\ NeverRemoved(d2.log)
            /\ Ours(d2.original, d2.log) =
                 Ours(d.original, d.log)
                   \cup (Outside \cap {changes[i].edit : i \in 1 .. Len(changes)})
  <1> DEFINE n == Len(changes) m == Len(d.log)
             t == [i \in DOMAIN changes |-> Ordered(changes[i], d.rev + i)]
             d2 == AllOrdered(d, changes)
             log2 == d.log \o t
  <1>1. d.log \in Seq(Change) /\ d.rev \in Nat /\ m \in Nat
    BY DEF DocType
  <1>2. n \in Nat /\ DOMAIN changes = 1 .. n
    OBVIOUS
  <1>3. ASSUME NEW i \in 1 .. n
        PROVE  t[i] \in Change /\ t[i].op = changes[i].op /\ t[i].edit = changes[i].edit
    <2>1. changes[i] \in Move /\ t[i] = Ordered(changes[i], d.rev + i) /\ d.rev + i \in Nat
      BY <1>1, <1>2, <1>3
    <2>2. changes[i].op \in {"add", "remove"} /\ changes[i].edit \in Edit \cup Outside
      BY <2>1 DEF Move
    <2> QED BY <2>1, <2>2 DEF Ordered, Change
  <1>4. t \in [1 .. n -> Change]
    <2>1. t = [i \in 1 .. n |-> t[i]]
      BY <1>2
    <2> HIDE DEF t
    <2> QED BY <1>3, <2>1
  <1>5. d2.log = log2 /\ d2.original = d.original
    BY DEF AllOrdered, DocType
  <1> HIDE DEF t, d2, n, m
  <1>6. t \in Seq(Change) /\ Len(t) = n
    BY <1>2, <1>4
  <1>7. Joins(log2, d.log, t)
    BY <1>1, <1>6, Joined
  <1> HIDE DEF log2
  <1>8. /\ Len(log2) = m + n /\ \A i \in 1 .. m : log2[i] = d.log[i]
        /\ \A i \in 1 .. n : log2[m + i].op = changes[i].op /\ log2[m + i].edit = changes[i].edit
    BY <1>3, <1>6, <1>7 DEF Joins, m
  <1>9. \A j \in 1 .. m + n : j \in 1 .. m \/ \E i \in 1 .. n : j = m + i
    <2> SUFFICES ASSUME NEW j \in 1 .. m + n, j \notin 1 .. m PROVE \E i \in 1 .. n : j = m + i
      OBVIOUS
    <2>1. j - m \in 1 .. n /\ j = m + (j - m)
      BY <1>1, <1>2
    <2> QED BY <2>1
  <1>10. /\ \A i \in 1 .. m : i \in 1 .. m + n
         /\ \A i \in 1 .. n : m + i \in 1 .. m + n
    BY <1>1, <1>2
  <1>11. NeverRemoved(log2)
    <2>1. \A i \in 1 .. m : d.log[i].edit \in Outside => d.log[i].op = "add"
      BY DEF NeverRemoved, m
    <2>2. \A i \in 1 .. n : changes[i].edit \in Outside => changes[i].op = "add"
      BY DEF n
    <2> QED BY <1>8, <1>9, <2>1, <2>2 DEF NeverRemoved
  <1> DEFINE A == {log2[j].edit : j \in 1 .. Len(log2)} B == {d.log[i].edit : i \in 1 .. m}
             E == {changes[i].edit : i \in 1 .. n}
  <1>12. A = B \cup E
    <2>1. ASSUME NEW e \in A PROVE e \in B \cup E
      <3>1. PICK j \in 1 .. m + n : e = log2[j].edit
        BY <1>8
      <3>2. CASE j \in 1 .. m
        <4>1. e = d.log[j].edit
          BY <1>8, <3>1, <3>2
        <4> QED BY <3>2, <4>1
      <3>3. CASE \E i \in 1 .. n : j = m + i
        <4>1. PICK i \in 1 .. n : j = m + i
          BY <3>3
        <4>2. e = changes[i].edit
          BY <1>8, <3>1, <4>1
        <4> QED BY <4>2
      <3> QED BY <1>9, <3>2, <3>3
    <2>2. ASSUME NEW e \in B PROVE e \in A
      <3>1. PICK i \in 1 .. m : e = d.log[i].edit
        OBVIOUS
      <3> QED BY <1>8, <1>10, <3>1
    <2>3. ASSUME NEW e \in E PROVE e \in A
      <3>1. PICK i \in 1 .. n : e = changes[i].edit
        OBVIOUS
      <3>2. e = log2[m + i].edit /\ m + i \in 1 .. Len(log2)
        BY <1>8, <1>10, <3>1
      <3> QED BY <3>2
    <2> HIDE DEF A, B, E
    <2> QED BY <2>1, <2>2, <2>3
  <1> HIDE DEF A, B, E
  <1>13. Ours(d2.original, d2.log) = Outside \cap (d.original \cup A)
    BY <1>5 DEF Ours, A
  <1>14. Ours(d.original, d.log) = Outside \cap (d.original \cup B)
    BY DEF Ours, B, m
  <1>15. NeverRemoved(d2.log)
    BY <1>5, <1>11
  <1> QED BY <1>12, <1>13, <1>14, <1>15 DEF d2, E, n

\* Where everything that other programs wrote to the file still is.
InAll(S) == (\A f \in file : S \subseteq f) /\ (\A c \in base : S \subseteq c)

DocOurs == Ours(doc.original, doc.log)
JournalOurs == Ours(journal.original, Changes(journal.records))
Open == pc \notin {"down", "read"}

(***************************************************************************)
(* What the task knows of other programs' writes is in the file and in     *)
(* what another program read of it, so a new write of theirs always has    *)
(* something that no saved state has (Fresh).  As long as none is there,   *)
(* the file is the document whenever no rev waits (OnDisk), and what       *)
(* views saw last when there is no journal (Left).                         *)
(***************************************************************************)
Known ==
  /\ NeverRemoved(doc.log) /\ NeverRemoved(Changes(journal.records))
  /\ InAll(DocOurs) /\ InAll(JournalOurs)
  /\ pc = "read" => InAll(Outside \cap cache)
  /\ \A f \in file, c \in base : Outside \cap f \subseteq c
  /\ Open => JournalOurs \subseteq DocOurs
Fresh == Open /\ touched /\ ~noticed => \A f \in file : ~(Outside \cap f \subseteq DocOurs)
OnDisk == Open /\ ~touched /\ (pc = "renamed" \/ doc.rev = doc.saved) => file = {doc.model}
Left ==
  /\ ~journal.there /\ ~touched => file = {shown}
  /\ Open /\ pc # "appended" => shown = doc.model

FileInv == Known /\ Fresh /\ OnDisk /\ Left

LEMMA NothingOurs ==
  /\ Ours({}, <<>>) = {} /\ NeverRemoved(<<>>)
  /\ Ours(NoDocument.original, NoDocument.log) = {} /\ NeverRemoved(NoDocument.log)
  /\ Ours(NoJournal.original, Changes(NoJournal.records)) = {}
  /\ NeverRemoved(Changes(NoJournal.records))
  <1> DEFINE none == <<>>
  <1>1. Len(none) = 0 /\ none \in Seq(Record)
    OBVIOUS
  <1>2. {} \in Content
    BY DEF Content
  <1>3. NoDocument.original = {} /\ NoDocument.log = none
    BY <1>2, NewDocument DEF NoDocument
  <1>4. NoJournal.original = {} /\ Changes(NoJournal.records) = none
    BY NothingRight, JournalAssumption DEF NoJournal
  <1> HIDE DEF none
  <1>5. Ours({}, none) = {} /\ NeverRemoved(none)
    BY <1>1 DEF Ours, NeverRemoved
  <1> QED BY <1>3, <1>4, <1>5 DEF none

LEMMA FileInvInit == Init => FileInv
  <1> SUFFICES ASSUME Init PROVE FileInv
    OBVIOUS
  <1>1. DocOurs = {} /\ NeverRemoved(doc.log)
    BY NothingOurs DEF Init, DocOurs
  <1>2. JournalOurs = {} /\ NeverRemoved(Changes(journal.records))
    BY NothingOurs DEF Init, JournalOurs
  <1>3. file = {{}} /\ base = {} /\ pc = "down" /\ shown = {} /\ ~touched
    BY DEF Init
  <1>4. Known
    BY <1>1, <1>2, <1>3 DEF Known, InAll, Open
  <1>5. Fresh /\ OnDisk /\ Left
    BY <1>3 DEF Fresh, OnDisk, Left, Open
  <1> QED BY <1>4, <1>5 DEF FileInv

\* What the steps use of the other two invariants.
LEMMA FileFacts ==
  ASSUME JournalInv, SameInv, FileInv
  PROVE  /\ doc \in DocType /\ DocRight(doc) /\ doc.rev \in Nat /\ doc.saved \in Nat
         /\ doc.log \in Seq(Change) /\ doc.original \in Content /\ doc.model \in Content
         /\ journal \in JournalType /\ AllRight(journal.records, journal.first)
         /\ cache \in Content /\ \A f \in file : file = {f} /\ f \in Content
         /\ pc \notin {"down", "read", "sealing"} => journal.there
         /\ pc = "sealing" => doc.rev = doc.saved
         /\ pc \in {"writing", "renamed"} => doc.rev # doc.saved
         /\ Outside \cap doc.model = DocOurs
         /\ Known /\ Fresh /\ OnDisk /\ Left
  <1>1. /\ doc \in DocType /\ DocRight(doc) /\ doc.rev \in Nat /\ doc.saved \in Nat
        /\ doc.log \in Seq(Change) /\ doc.original \in Content /\ doc.model \in Content
        /\ journal \in JournalType /\ AllRight(journal.records, journal.first)
        /\ cache \in Content
    BY DEF JournalInv, Typed, Shaped, DocType
  <1>2. \A f \in file : file = {f} /\ f \in Content
    BY DEF JournalInv, Typed
  <1>3. /\ pc \notin {"down", "read", "sealing"} => journal.there
        /\ pc = "sealing" => doc.rev = doc.saved
        /\ pc \in {"writing", "renamed"} => doc.rev # doc.saved
    BY DEF JournalInv, Shaped
  <1>4. Known /\ Fresh /\ OnDisk /\ Left
    BY DEF FileInv
  <1>5. Outside \cap doc.model = DocOurs
    <2>1. NeverRemoved(doc.log) /\ doc.model = Replay(doc.original, doc.log)
      BY <1>4 DEF SameInv, Known
    <2> QED BY <1>1, <2>1, ReplayOurs DEF DocOurs
  <1> QED BY <1>1, <1>2, <1>3, <1>4, <1>5

\* Steps that leave the document's content, the journal and the file alone.
Unmoved ==
  /\ UNCHANGED <<file, journal, base, touched>>
  /\ doc'.model = doc.model /\ doc'.original = doc.original /\ doc'.log = doc.log
  /\ Open' <=> Open
  /\ pc' = "read" => pc = "read" /\ cache' = cache
  /\ Open /\ ~touched /\ (pc' = "renamed" \/ doc'.rev = doc'.saved) =>
       pc = "renamed" \/ doc.rev = doc.saved
  /\ Open /\ touched /\ ~noticed' => ~noticed
  /\ \/ pc # "appended" /\ shown' = shown
     \/ shown' = doc.model /\ journal.there

LEMMA FileSame ==
  ASSUME FileInv, Unmoved
  PROVE  FileInv'
  <1>1. Known /\ Fresh /\ OnDisk /\ Left
    BY DEF FileInv
  <1>2. DocOurs' = DocOurs /\ JournalOurs' = JournalOurs
    BY DEF DocOurs, JournalOurs, Unmoved
  <1>3. Known'
    BY <1>1, <1>2 DEF Known, InAll, Unmoved
  <1>4. Fresh'
    BY <1>1, <1>2 DEF Fresh, Unmoved
  <1>5. OnDisk'
    BY <1>1 DEF OnDisk, Unmoved
  <1>6. Left'
    BY <1>1 DEF Left, Unmoved
  <1> QED BY <1>3, <1>4, <1>5, <1>6 DEF FileInv

\* The steps that change neither the file nor what the task knows.
LEMMA QuietFileSteps ==
  ASSUME Steady, Short, JournalInv, SameInv, FileInv,
         \/ OpenFails \/ TakeNothing \/ SaveDue \/ Flush \/ Finish \/ Save \/ WriteFails
         \/ SaveDone \/ Hear \/ Written \/ UNCHANGED vars
  PROVE  FileInv'
  <1>1. /\ doc \in DocType /\ doc.rev \in Nat /\ doc.saved \in Nat
        /\ pc \notin {"down", "read", "sealing"} => journal.there
        /\ pc \in {"writing", "renamed"} => doc.rev # doc.saved
        /\ Left
    BY FileFacts
  <1>2. CASE OpenFails
    <2>1. /\ pc = "read" /\ pc' = "down"
          /\ UNCHANGED <<file, journal, base, touched, shown, doc>>
      BY <1>2 DEF OpenFails, diskVars, otherVars, pastVars
    <2>2. Known' /\ Fresh' /\ OnDisk' /\ Left'
      BY <2>1 DEF FileInv, Known, Fresh, OnDisk, Left, InAll, DocOurs, JournalOurs, Open
    <2> QED BY <2>2 DEF FileInv
  <1>3. CASE TakeNothing \/ SaveDue \/ Flush \/ Finish \/ SaveDone
    <2>1. /\ UNCHANGED <<file, journal, base, touched, shown, doc, noticed>>
          /\ pc \in {"idle", "saved"} /\ pc' \in {"saving", "idle"}
      BY <1>3 DEF TakeNothing, SaveDue, Flush, Finish, SaveDone, diskVars, otherVars, pastVars
    <2>2. /\ Open /\ Open'
          /\ pc' # "renamed" /\ pc' # "read" /\ pc # "appended"
      BY <2>1 DEF Open
    <2>3. doc' = doc /\ touched' = touched /\ noticed' = noticed
      BY <2>1
    <2>4. Unmoved
      BY <2>1, <2>2, <2>3 DEF Unmoved
    <2> QED BY <2>4, FileSame
  <1>4. CASE Save
    <2>1. /\ UNCHANGED <<file, journal, base, touched, shown, noticed>>
          /\ pc = "saving" /\ pc' \in {"saved", "writing"}
          /\ doc' = doc \/ doc' = [doc EXCEPT !.waits = TRUE]
      BY <1>4 DEF Save, diskVars, otherVars, pastVars
    <2>2. /\ doc'.model = doc.model /\ doc'.original = doc.original /\ doc'.log = doc.log
          /\ doc'.rev = doc.rev /\ doc'.saved = doc.saved
      BY <1>1, <2>1 DEF DocType
    <2>3. /\ Open /\ Open'
          /\ pc' # "renamed" /\ pc' # "read" /\ pc # "appended"
      BY <2>1 DEF Open
    <2>4. Unmoved
      BY <2>1, <2>2, <2>3 DEF Unmoved
    <2> QED BY <2>4, FileSame
  <1>5. CASE WriteFails
    <2>1. /\ UNCHANGED <<file, journal, base, touched, shown, noticed>>
          /\ pc \in {"writing", "renamed"} /\ pc' = "saved"
          /\ doc' = [doc EXCEPT !.waits = TRUE]
      BY <1>5 DEF WriteFails, diskVars, otherVars, pastVars
    <2>2. /\ doc'.model = doc.model /\ doc'.original = doc.original /\ doc'.log = doc.log
          /\ doc'.rev = doc.rev /\ doc'.saved = doc.saved
      BY <1>1, <2>1 DEF DocType
    <2>3. Unmoved
      BY <1>1, <2>1, <2>2 DEF Unmoved, Open
    <2> QED BY <2>3, FileSame
  <1>6. CASE Hear
    <2>1. /\ UNCHANGED <<file, journal, base, touched, noticed, doc>>
          /\ pc = "appended" /\ shown' = doc.model
      BY <1>6 DEF Hear, otherVars
    <2>2. pc' \in {"saving", "idle"}
      <3>1. PICK long \in Long : IF sealing \/ long THEN pc' = "saving" /\ then' = "seal"
                                                    ELSE pc' = "idle" /\ then' = then
        BY <1>6 DEF Hear
      <3> QED BY <3>1
    <2>3. Unmoved
      BY <1>1, <2>1, <2>2 DEF Unmoved, Open
    <2> QED BY <2>3, FileSame
  <1>7. CASE Written
    <2>1. /\ UNCHANGED <<file, base, touched, shown>>
          /\ pc = "renamed" /\ pc' = "saved" /\ noticed' = TRUE
          /\ journal' \in Recorded(<<[kind |-> "saved", rev |-> doc.rev]>>)
      BY <1>7 DEF Written, otherVars, pastVars
    <2>2. doc'.model = doc.model /\ doc'.original = doc.original /\ doc'.log = doc.log
      BY <1>7, WrittenStep
    <2>3. journal'.original = journal.original /\ journal'.there = journal.there
          /\ Changes(journal'.records) = Changes(journal.records)
      <3> DEFINE x == [kind |-> "saved", rev |-> doc.rev] added == <<x>> R == journal.records
      <3>1. x \in SavedRecord /\ x \in Record
        BY <1>1 DEF SavedRecord, Record
      <3>2. /\ journal \in JournalType /\ R \in Seq(Record) /\ attached = TRUE
        BY DEF JournalInv, Typed, JournalType
      <3>3. added \in Seq(Record)
        BY <3>1
      <3>4. journal' = [journal EXCEPT !.records = @ \o added]
        <4> HIDE DEF added
        <4>1. Recorded(added) = {[journal EXCEPT !.records = @ \o added]}
          BY <3>2, <3>3, RecordedAll
        <4> QED BY <2>1, <4>1 DEF added
      <3>5. R \o added = Append(R, x)
        <4> HIDE DEF x, R
        <4> QED BY <3>1, <3>2
      <3>6. Changes(Append(R, x)) = Changes(R)
        <4> HIDE DEF x, R
        <4> QED BY <3>1, <3>2, OneMore
      <3>7. journal'.records = R \o added /\ journal'.original = journal.original
            /\ journal'.there = journal.there
        BY <3>2, <3>4 DEF JournalType
      <3> QED BY <3>5, <3>6, <3>7
    <2>4. Known /\ Fresh /\ OnDisk
      BY DEF FileInv
    <2>5. DocOurs' = DocOurs /\ JournalOurs' = JournalOurs
      BY <2>2, <2>3 DEF DocOurs, JournalOurs
    <2>6. Known'
      BY <2>1, <2>2, <2>3, <2>4, <2>5 DEF Known, InAll, Open
    <2>7. Fresh' /\ OnDisk'
      BY <2>1, <2>2, <2>4 DEF Fresh, OnDisk, Open
    <2>8. Left'
      BY <1>1, <2>1, <2>2, <2>3 DEF Left, Open
    <2> QED BY <2>6, <2>7, <2>8 DEF FileInv
  <1>8. CASE UNCHANGED vars
    <2>1. UNCHANGED <<file, journal, base, touched, shown, doc, noticed, pc, cache>>
      BY <1>8 DEF vars, diskVars, flowVars, otherVars, pastVars
    <2>2. Known' /\ Fresh' /\ OnDisk' /\ Left'
      BY <2>1 DEF FileInv, Known, Fresh, OnDisk, Left, InAll, DocOurs, JournalOurs, Open
    <2> QED BY <2>2 DEF FileInv
  <1> QED BY <1>2, <1>3, <1>4, <1>5, <1>6, <1>7, <1>8

\* Another program reads, writes or removes the file, and the task saves it or reads it.
LEMMA OtherFileSteps ==
  ASSUME Steady, JournalInv, SameInv, FileInv,
         OutsideRead \/ OutsideRemove \/ (\E e \in Outside : OutsideWrite(e))
  PROVE  FileInv'
  <1>1. /\ \A f \in file : file = {f} /\ f \in Content
        /\ Known /\ Fresh /\ OnDisk /\ Left
    BY FileFacts
  <1>2. UNCHANGED <<journal, pc, doc, cache, shown>>
    BY DEF OutsideRead, OutsideRemove, OutsideWrite, diskVars, flowVars, pastVars
  <1>3. DocOurs' = DocOurs /\ JournalOurs' = JournalOurs /\ Open' = Open
    BY <1>2 DEF DocOurs, JournalOurs, Open
  <1>4. CASE OutsideRead
    <2>1. base' = file /\ UNCHANGED <<file, noticed, touched>>
      BY <1>4 DEF OutsideRead, diskVars
    <2>2. Known'
      BY <1>1, <1>2, <1>3, <2>1 DEF Known, InAll
    <2>3. Fresh' /\ OnDisk' /\ Left'
      BY <1>1, <1>2, <1>3, <2>1 DEF Fresh, OnDisk, Left
    <2> QED BY <2>2, <2>3 DEF FileInv
  <1>5. CASE OutsideRemove
    <2>1. file' = {} /\ touched' /\ base' = base
      BY <1>5 DEF OutsideRemove
    <2>2. Known'
      BY <1>1, <1>2, <1>3, <2>1 DEF Known, InAll
    <2>3. Fresh' /\ OnDisk' /\ Left'
      BY <1>1, <1>2, <1>3, <2>1 DEF Fresh, OnDisk, Left
    <2> QED BY <2>2, <2>3 DEF FileInv
  <1>6. ASSUME NEW e \in Outside, OutsideWrite(e) PROVE FileInv'
    <2>1. PICK c \in base : e \notin c /\ file' = {c \cup {e}}
      BY <1>6 DEF OutsideWrite
    <2>2. touched' /\ base' = {}
      BY <1>6 DEF OutsideWrite
    <2>3. /\ DocOurs \subseteq c /\ JournalOurs \subseteq c
          /\ pc = "read" => Outside \cap cache \subseteq c
      BY <1>1 DEF Known, InAll
    <2>4. Known'
      BY <1>1, <1>2, <1>3, <2>1, <2>2, <2>3 DEF Known, InAll
    <2>5. Fresh'
      BY <1>3, <2>1, <2>3 DEF Fresh
    <2>6. OnDisk' /\ Left'
      BY <1>1, <1>2, <1>3, <2>2 DEF OnDisk, Left
    <2> QED BY <2>4, <2>5, <2>6 DEF FileInv
  <1> QED BY <1>4, <1>5, <1>6

LEMMA SavingFileSteps ==
  ASSUME Steady, JournalInv, SameInv, FileInv,
         OpenRead \/ Rename \/ SealRemove \/ SealStart
  PROVE  FileInv'
  <1>1. /\ \A f \in file : file = {f} /\ f \in Content
        /\ pc \notin {"down", "read", "sealing"} => journal.there
        /\ pc = "sealing" => doc.rev = doc.saved
        /\ Known /\ Fresh /\ OnDisk /\ Left
        /\ Outside \cap doc.model = DocOurs
        /\ doc \in DocType /\ cache \in Content /\ doc.rev \in Nat /\ doc.rev <= MaxRev
    <2>1. DocRight(doc)
      BY FileFacts
    <2> QED BY <2>1, FileFacts DEF DocRight
  <1>2. CASE OpenRead
    <2>1. /\ UNCHANGED <<file, journal, doc, noticed, base, touched, shown>>
          /\ pc = "down" /\ pc' = "read" /\ cache' \in file
      BY <1>2 DEF OpenRead, diskVars, otherVars, pastVars
    <2>2. DocOurs' = DocOurs /\ JournalOurs' = JournalOurs
      BY <2>1 DEF DocOurs, JournalOurs
    <2>3. Known'
      BY <1>1, <2>1, <2>2 DEF Known, InAll, Open
    <2>4. Fresh' /\ OnDisk' /\ Left'
      BY <1>1, <2>1, <2>2 DEF Fresh, OnDisk, Left, Open
    <2> QED BY <2>3, <2>4 DEF FileInv
  <1>3. CASE Rename
    <2>1. /\ UNCHANGED <<journal, doc, base, shown>>
          /\ pc = "writing" /\ pc' = "renamed"
          /\ file' = {doc.model} /\ touched' = FALSE
      BY <1>3 DEF Rename, pastVars
    <2>2. DocOurs' = DocOurs /\ JournalOurs' = JournalOurs
      BY <2>1 DEF DocOurs, JournalOurs
    <2>3. DocOurs \subseteq doc.model /\ JournalOurs \subseteq doc.model
      BY <1>1, <2>1 DEF Known, Open
    <2>4. Known'
      BY <1>1, <2>1, <2>2, <2>3 DEF Known, InAll, Open
    <2>5. Fresh' /\ OnDisk' /\ Left'
      BY <1>1, <2>1, <2>2 DEF Fresh, OnDisk, Left, Open
    <2> QED BY <2>4, <2>5 DEF FileInv
  <1>4. CASE SealRemove
    <2>1. /\ UNCHANGED <<file, doc, noticed, base, touched, shown>>
          /\ pc = "saved" /\ pc' = "sealing" /\ journal' = NoJournal /\ doc.rev = doc.saved
      BY <1>4 DEF SealRemove, otherVars, pastVars
    <2>2. DocOurs' = DocOurs
      BY <2>1 DEF DocOurs
    <2>3. JournalOurs' = {} /\ NeverRemoved(Changes(journal'.records))
      BY <2>1, NothingOurs DEF JournalOurs
    <2>4. Known'
      BY <1>1, <2>1, <2>2, <2>3 DEF Known, InAll, Open
    <2>5. Fresh' /\ OnDisk'
      BY <1>1, <2>1, <2>2 DEF Fresh, OnDisk, Open
    <2>6. Left'
      BY <1>1, <2>1 DEF OnDisk, Left, Open
    <2> QED BY <2>4, <2>5, <2>6 DEF FileInv
  <1>5. CASE SealStart
    <2>1. /\ UNCHANGED <<file, noticed, base, touched, shown>>
          /\ pc = "sealing" /\ pc' = "idle"
          /\ journal' = Started(cache, doc.rev) /\ doc' = Rebased(doc, cache)
      BY <1>5 DEF SealStart, Steady, otherVars, pastVars
    <2>2. /\ journal'.there /\ journal'.original = cache /\ Changes(journal'.records) = <<>>
      BY <1>1, <2>1, NewJournal
    <2>3. /\ doc'.model = doc.model /\ doc'.original = cache /\ doc'.log = <<>>
      BY <1>1, <2>1 DEF Rebased, DocType
    <2>4. cache = doc.model /\ doc.rev = doc.saved
      BY <1>1, <2>1 DEF SameInv
    <2>5. Ours(cache, <<>>) = Outside \cap cache /\ NeverRemoved(<<>>)
      <3> DEFINE none == <<>>
      <3>1. Len(none) = 0
        OBVIOUS
      <3> HIDE DEF none
      <3>2. Ours(cache, none) = Outside \cap cache /\ NeverRemoved(none)
        BY <3>1 DEF Ours, NeverRemoved
      <3> QED BY <3>2 DEF none
    <2>6. DocOurs' = DocOurs /\ JournalOurs' = DocOurs
      BY <1>1, <2>2, <2>3, <2>4, <2>5 DEF DocOurs, JournalOurs
    <2>7. NeverRemoved(doc'.log) /\ NeverRemoved(Changes(journal'.records))
      BY <2>2, <2>3, <2>5
    <2>8. Known'
      BY <1>1, <2>1, <2>6, <2>7 DEF Known, InAll
    <2>9. Fresh' /\ OnDisk' /\ Left'
      BY <1>1, <2>1, <2>2, <2>3, <2>4, <2>6 DEF Fresh, OnDisk, Left, Open
    <2> QED BY <2>8, <2>9 DEF FileInv
  <1> QED BY <1>2, <1>3, <1>4, <1>5

\* A beginning of a journal knows no more than the journal.
LEMMA FewerOurs ==
  ASSUME NEW s \in Seq(Record), NEW n \in 0 .. Len(s), NEW m,
         NeverRemoved(Changes(s))
  PROVE  /\ NeverRemoved(Changes(SubSeq(s, 1, n)))
         /\ Ours(m, Changes(SubSeq(s, 1, n))) \subseteq Ours(m, Changes(s))
  <1> DEFINE t == SubSeq(s, 1, n)
  <1>1. t \in Seq(Record) /\ Len(t) = n /\ \A i \in 1 .. n : t[i] = s[i]
    OBVIOUS
  <1> HIDE DEF t
  <1>2. Sorted(s) /\ Sorted(t)
    BY <1>1, AreSorted
  <1> DEFINE C == Changes(s) D == Changes(t)
  <1>3. ASSUME NEW i \in 1 .. Len(D) PROVE \E k \in 1 .. Len(C) : C[k] = D[i]
    <2>1. PICK j \in 1 .. Len(t) : t[j] = D[i]
      BY <1>2, <1>3 DEF Sorted
    <2>2. j \in 1 .. Len(s) /\ s[j] = D[i]
      BY <1>1, <2>1
    <2>3. D[i] \in Change
      BY <1>2 DEF Sorted
    <2> QED BY <1>2, <2>2, <2>3 DEF Sorted
  <1> HIDE DEF C, D
  <1>4. NeverRemoved(D)
    <2>1. NeverRemoved(C)
      BY DEF C
    <2> QED BY <1>3, <2>1 DEF NeverRemoved
  <1>5. Ours(m, D) \subseteq Ours(m, C)
    BY <1>3 DEF Ours
  <1> QED BY <1>4, <1>5 DEF C, D, t

LEMMA EndFileSteps ==
  ASSUME Steady, JournalInv, SameInv, FileInv, Closed \/ LookGone \/ Crash
  PROVE  FileInv'
  <1>1. /\ \A f \in file : file = {f} /\ f \in Content
        /\ pc \notin {"down", "read", "sealing"} => journal.there
        /\ Known /\ Fresh /\ OnDisk /\ Left /\ journal \in JournalType
    BY FileFacts
  <1>2. /\ pc' = "down" /\ doc' = NoDocument
        /\ UNCHANGED <<file, base, touched, shown>>
    BY DEF Closed, LookGone, Crash, Forget, diskVars, otherVars, pastVars
  <1>3. DocOurs' = {} /\ NeverRemoved(doc'.log)
    BY <1>2, NothingOurs DEF DocOurs
  <1>4. /\ NeverRemoved(Changes(journal'.records)) /\ JournalOurs' \subseteq JournalOurs
        /\ ~journal'.there /\ ~touched => file = {shown}
    <2>1. CASE journal' = journal
      BY <1>1, <2>1 DEF JournalOurs, Known, Left
    <2>2. CASE Closed /\ journal' = NoJournal
      <3>1. NeverRemoved(Changes(journal'.records)) /\ JournalOurs' = {}
        BY <2>2, NothingOurs DEF JournalOurs
      <3>2. pc = "saved"
        BY <2>2 DEF Closed
      <3>3. doc.rev = doc.saved
        <4>1. journal' # journal
          BY <1>1, <2>2, <3>2, WithoutJournal
        <4> QED BY <2>2, <4>1 DEF Closed
      <3> QED BY <1>1, <3>1, <3>2, <3>3 DEF OnDisk, Left, Open
    <2>3. CASE Crash
      <3>1. "remove" \notin Faults
        BY DEF Steady
      <3>2. PICK n \in synced .. Len(journal.records) :
              journal' = [journal EXCEPT !.records = SubSeq(@, 1, n)]
        BY <2>3, <3>1 DEF Crash
      <3>3. journal.records \in Seq(Record) /\ synced \in Nat
        BY <1>1 DEF JournalInv, Typed, JournalType
      <3>4. n \in 0 .. Len(journal.records)
        BY <3>2, <3>3
      <3>5. /\ journal'.records = SubSeq(journal.records, 1, n)
            /\ journal'.original = journal.original /\ journal'.there = journal.there
        BY <1>1, <3>2 DEF JournalType
      <3>6. NeverRemoved(Changes(journal.records))
        BY <1>1 DEF Known
      <3> DEFINE R == journal.records
      <3>7. /\ NeverRemoved(Changes(SubSeq(R, 1, n)))
            /\ Ours(journal.original, Changes(SubSeq(R, 1, n)))
                 \subseteq Ours(journal.original, Changes(R))
        <4> HIDE DEF R
        <4> QED BY <3>3, <3>4, <3>6, FewerOurs DEF R
      <3> QED BY <1>1, <3>5, <3>7 DEF JournalOurs, Left
    <2> QED BY <2>1, <2>2, <2>3 DEF Closed, LookGone, diskVars
  <1>5. Known'
    BY <1>1, <1>2, <1>3, <1>4 DEF Known, InAll, Open
  <1>6. Fresh' /\ OnDisk' /\ Left'
    BY <1>1, <1>2, <1>4 DEF Fresh, OnDisk, Left, Open
  <1> QED BY <1>5, <1>6 DEF FileInv

LEMMA OpenFileStep ==
  ASSUME Steady, JournalInv, SameInv, FileInv, OpenStamp
  PROVE  FileInv'
  <1>1. /\ Known /\ Left /\ cache \in Content
        /\ journal \in JournalType /\ AllRight(journal.records, journal.first)
    BY FileFacts
  <1>2. /\ UNCHANGED <<file, base>> /\ pc = "read" /\ pc' = "idle" /\ noticed' = TRUE
        /\ shown' = doc'.model
        /\ \/ /\ journal.there
              /\ doc' = Restored(journal)
              /\ journal' = [journal EXCEPT !.records = Whole(@)]
              /\ touched' = (file # {StateAt(doc', doc'.saved)})
           \/ /\ ~journal.there
              /\ doc' = Opened(cache)
              /\ journal' = Started(cache, 0)
              /\ touched' = (file # {cache})
    BY DEF OpenStamp
  <1>3. CASE /\ journal.there
             /\ doc' = Restored(journal)
             /\ journal' = [journal EXCEPT !.records = Whole(@)]
             /\ touched' = (file # {StateAt(doc', doc'.saved)})
    <2>1. /\ doc' \in DocType /\ DocRight(doc') /\ Matches(journal, doc')
          /\ doc'.model = Replay(doc'.original, doc'.log)
      <3> DEFINE d == Restored(journal)
      <3>1. /\ d \in DocType /\ DocRight(d) /\ Matches(journal, d)
            /\ d.model = Replay(d.original, d.log)
        BY <1>1, RestoredDocument
      <3>2. doc' = d
        BY <1>3
      <3> HIDE DEF d
      <3> QED BY <3>1, <3>2
    <2>2. journal' = journal
      <3>1. Whole(journal.records) = journal.records
        BY <1>1, NothingTorn DEF JournalType
      <3> QED BY <1>1, <1>3, <3>1 DEF JournalType
    <2>3. DocOurs' = JournalOurs /\ JournalOurs' = JournalOurs
      BY <2>1, <2>2 DEF Matches, DocOurs, JournalOurs
    <2>4. doc'.log = Changes(journal.records)
      BY <2>1 DEF Matches
    <2>5. Known'
      BY <1>1, <1>2, <2>2, <2>3, <2>4 DEF Known, InAll
    <2>6. ~touched' /\ doc'.rev = doc'.saved => file' = {doc'.model}
      <3> SUFFICES ASSUME ~touched', doc'.rev = doc'.saved PROVE file = {doc'.model}
        BY <1>2
      <3>1. file = {StateAt(doc', doc'.saved)}
        BY <1>3
      <3> DEFINE d == doc'
      <3>2. d \in DocType /\ DocRight(d) /\ d.rev = d.saved
        BY <2>1
      <3> HIDE DEF d
      <3>3. StateAt(d, d.rev) = Replay(d.original, d.log)
        BY <3>2, StateNow
      <3> QED BY <2>1, <3>1, <3>2, <3>3 DEF d
    <2>7. Fresh' /\ OnDisk' /\ Left'
      BY <1>2, <1>3, <2>2, <2>6 DEF Fresh, OnDisk, Left
    <2> QED BY <2>5, <2>7 DEF FileInv
  <1>4. CASE /\ ~journal.there
             /\ doc' = Opened(cache)
             /\ journal' = Started(cache, 0)
             /\ touched' = (file # {cache})
    <2>1. doc'.original = cache /\ doc'.log = <<>> /\ doc'.model = cache
      BY <1>1, <1>4, NewDocument
    <2>2. /\ journal'.there /\ journal'.original = cache /\ Changes(journal'.records) = <<>>
      BY <1>1, <1>4, NewJournal, JournalAssumption
    <2>3. Ours(cache, <<>>) = Outside \cap cache /\ NeverRemoved(<<>>)
      <3> DEFINE none == <<>>
      <3>1. Len(none) = 0
        OBVIOUS
      <3> HIDE DEF none
      <3>2. Ours(cache, none) = Outside \cap cache /\ NeverRemoved(none)
        BY <3>1 DEF Ours, NeverRemoved
      <3> QED BY <3>2 DEF none
    <2>4. DocOurs' = Outside \cap cache /\ JournalOurs' = Outside \cap cache
      BY <2>1, <2>2, <2>3 DEF DocOurs, JournalOurs
    <2>5. NeverRemoved(doc'.log) /\ NeverRemoved(Changes(journal'.records))
      BY <2>1, <2>2, <2>3
    <2>6. InAll(Outside \cap cache)
      BY <1>1, <1>2 DEF Known
    <2>7. Known'
      BY <1>1, <1>2, <2>4, <2>5, <2>6 DEF Known, InAll
    <2>8. Fresh' /\ OnDisk' /\ Left'
      BY <1>2, <1>4, <2>1, <2>2 DEF Fresh, OnDisk, Left
    <2> QED BY <2>7, <2>8 DEF FileInv
  <1> QED BY <1>2, <1>3, <1>4

\* Changes go in the document: what they bring of other programs is in the file.
Brings(changes) ==
  /\ \A i \in 1 .. Len(changes) : changes[i].edit \in Outside =>
       changes[i].op = "add" /\ InAll({changes[i].edit})
  /\ \/ noticed' = TRUE
     \/ /\ touched' = touched /\ noticed' = noticed
        /\ \A i \in 1 .. Len(changes) : changes[i].edit \notin Outside
  /\ ~touched' /\ Len(changes) = 0 /\ doc.rev = doc.saved => file = {doc.model}

LEMMA GrowFileStep ==
  ASSUME Steady, JournalInv, SameInv, FileInv, pc = "idle", pc' = "appended",
         NEW changes \in Seq(Move), doc.rev + Len(changes) <= MaxRev,
         doc' = AllOrdered(doc, changes), journal' \in Recorded(NewRecords(doc')),
         UNCHANGED <<synced, heard, file, base, shown>>, Brings(changes)
  PROVE  FileInv'
  <1>1. /\ doc \in DocType /\ DocRight(doc) /\ doc.rev \in Nat /\ doc.saved \in Nat
        /\ doc.model \in Content
        /\ Known /\ Fresh /\ OnDisk /\ Left
    BY FileFacts
  <1>2. /\ Shaped' /\ \E t \in Seq(Change) : Grew(doc, doc', t)
    BY GrowStep
  <1>3. Matches(journal', doc') /\ journal'.there
    BY <1>2 DEF Shaped
  <1> DEFINE New == Outside \cap {changes[i].edit : i \in 1 .. Len(changes)}
  <1>4. NeverRemoved(doc'.log) /\ DocOurs' = DocOurs \cup New
    <2> DEFINE d2 == AllOrdered(doc, changes)
    <2>1. NeverRemoved(doc.log)
      BY <1>1 DEF Known
    <2>2. \A i \in 1 .. Len(changes) : changes[i].edit \in Outside => changes[i].op = "add"
      BY DEF Brings
    <2>3. /\ NeverRemoved(d2.log)
          /\ Ours(d2.original, d2.log) = Ours(doc.original, doc.log) \cup New
      BY <1>1, <2>1, <2>2, OrderedOurs
    <2>4. doc' = d2
      OBVIOUS
    <2> HIDE DEF d2
    <2> QED BY <2>3, <2>4 DEF DocOurs
  <1>5. JournalOurs' = DocOurs' /\ NeverRemoved(Changes(journal'.records))
    BY <1>3, <1>4 DEF Matches, DocOurs, JournalOurs
  <1>6. InAll(New)
    BY DEF Brings, InAll
  <1>7. Brings(changes) => (noticed' = TRUE \/ (touched' = touched /\ noticed' = noticed /\ New = {}))
    BY DEF Brings
  <1>8. Len(changes) = 0 => doc'.model = doc.model
    <2> SUFFICES ASSUME Len(changes) = 0 PROVE doc'.model = doc.model
      OBVIOUS
    <2>1. changes = <<>>
      OBVIOUS
    <2>2. Replay(doc.model, <<>>) = doc.model
      BY <1>1, ReplayNothing
    <2>3. doc'.model = Replay(doc.model, changes)
      BY <1>1 DEF AllOrdered, DocType
    <2> QED BY <2>1, <2>2, <2>3
  <1>9. doc'.rev = doc.rev + Len(changes) /\ doc'.saved = doc.saved /\ doc.saved <= doc.rev
        /\ Len(changes) \in Nat
    <2>1. doc'.rev = doc.rev + Len(changes) /\ doc'.saved = doc.saved
      BY <1>1 DEF AllOrdered, DocType
    <2>2. doc.first \in Nat
      BY <1>1 DEF DocType
    <2> QED BY <1>1, <2>1, <2>2 DEF DocRight
  <1> HIDE DEF New
  <1>10. Known'
    <2>1. InAll(DocOurs) /\ \A f \in file, c \in base : Outside \cap f \subseteq c
      BY <1>1 DEF Known
    <2>2. InAll(DocOurs)' /\ InAll(JournalOurs)'
      BY <1>4, <1>5, <1>6, <2>1 DEF InAll
    <2> QED BY <1>4, <1>5, <2>1, <2>2 DEF Known, Open
  <1>11. Fresh'
    <2>1. CASE noticed' = TRUE
      BY <2>1 DEF Fresh
    <2>2. CASE touched' = touched /\ noticed' = noticed /\ New = {}
      <3>1. DocOurs' = DocOurs /\ Open
        BY <1>4, <2>2 DEF Open
      <3> QED BY <1>1, <2>2, <3>1 DEF Fresh
    <2> QED BY <1>7, <2>1, <2>2
  <1>12. OnDisk'
    <2> SUFFICES ASSUME ~touched', doc'.rev = doc'.saved PROVE file' = {doc'.model}
      BY DEF OnDisk
    <2>1. Len(changes) = 0 /\ doc.rev = doc.saved
      <3> DEFINE n == Len(changes) rev == doc.rev saved == doc.saved
      <3>1. rev \in Nat /\ saved \in Nat /\ n \in Nat /\ rev + n = saved /\ saved <= rev
        BY <1>1, <1>9
      <3> HIDE DEF n, rev, saved
      <3>2. n = 0 /\ rev = saved
        BY <3>1
      <3> QED BY <3>2 DEF n, rev, saved
    <2>2. file = {doc.model}
      BY <2>1 DEF Brings
    <2> QED BY <1>8, <2>1, <2>2
  <1>13. Left'
    BY <1>3 DEF Left
  <1> QED BY <1>10, <1>11, <1>12, <1>13 DEF FileInv

LEMMA TakeFileStep ==
  ASSUME Steady, JournalInv, SameInv, FileInv,
         NEW edits \in SeqOf(Edit, MaxBatch), edits # <<>>, Take(edits)
  PROVE  FileInv'
  <1> DEFINE changes == [i \in DOMAIN edits |-> [op |-> "add", edit |-> edits[i]]]
  <1>1. changes \in Seq(Move) /\ Len(changes) = Len(edits)
    BY BatchMoves
  <1>2. /\ pc = "idle" /\ pc' = "appended" /\ doc.rev + Len(edits) <= MaxRev
        /\ doc' = AllOrdered(doc, changes) /\ journal' \in Recorded(NewRecords(doc'))
        /\ UNCHANGED <<file, synced, noticed, base, touched, heard, shown>>
    BY DEF Take, otherVars, pastVars
  <1>3. MaxBatch \in Nat
    BY JournalAssumption
  <1>4. PICK m \in 0 .. MaxBatch : edits \in [1 .. m -> Edit]
    BY DEF SeqOf
  <1>5. m \in Nat /\ edits \in Seq(Edit) /\ Len(edits) = m /\ DOMAIN edits = 1 .. m
    BY <1>3, <1>4
  <1>6. \A i \in 1 .. Len(changes) : changes[i].edit \notin Outside
    <2>1. ASSUME NEW i \in 1 .. Len(changes) PROVE changes[i].edit \notin Outside
      <3>1. changes[i].edit = edits[i] /\ edits[i] \in Edit
        BY <1>1, <1>4, <1>5
      <3> QED BY <3>1, JournalAssumption
    <2> QED BY <2>1
  <1>7. Len(changes) # 0
    BY <1>1, <1>5
  <1> HIDE DEF changes
  <1>8. Brings(changes)
    BY <1>2, <1>6, <1>7 DEF Brings
  <1>9. doc.rev + Len(changes) <= MaxRev
    BY <1>1, <1>2
  <1> QED BY <1>1, <1>2, <1>8, <1>9, GrowFileStep

LEMMA LookFileStep ==
  ASSUME Steady, JournalInv, SameInv, FileInv, Look
  PROVE  FileInv'
  <1>1. /\ doc \in DocType /\ \A f \in file : file = {f} /\ f \in Content
        /\ Known /\ Fresh /\ OnDisk /\ Left
    BY FileFacts
  <1>2. PICK new \in file :
       \/ /\ new = cache \/ ~HasStates(doc)
          /\ touched' = (new # doc.model)
          /\ UNCHANGED <<pc, doc, cache, journal, due, sealing>>
       \/ /\ new # cache /\ HasStates(doc)
          /\ doc.rev + Len(Nearest(doc, new)) <= MaxRev
          /\ doc' = AllOrdered(doc, Nearest(doc, new))
          /\ journal' \in Recorded(NewRecords(doc'))
          /\ cache' = new
          /\ touched' = FALSE
          /\ due' = (due \/ doc'.rev # doc.rev)
          /\ sealing' = Seals(doc')
          /\ pc' = "appended"
    BY DEF Look
  <1>3. /\ pc = "idle" /\ ~noticed /\ noticed' = TRUE
        /\ UNCHANGED <<file, synced, base, heard, shown>>
    BY DEF Look, pastVars
  <1>4. new \in Content /\ file = {new}
    BY <1>1, <1>2
  <1>5. CASE /\ touched' = (new # doc.model)
             /\ UNCHANGED <<pc, doc, cache, journal, due, sealing>>
    <2>1. UNCHANGED <<pc, doc, journal>> /\ (~touched' => file = {doc.model})
      BY <1>4, <1>5
    <2>2. DocOurs' = DocOurs /\ JournalOurs' = JournalOurs /\ Open' = Open
      BY <2>1 DEF DocOurs, JournalOurs, Open
    <2>3. Known'
      BY <1>1, <1>3, <2>1, <2>2 DEF Known, InAll
    <2>4. journal.there /\ shown = doc.model
      BY <1>1, <1>3, FileFacts DEF Left, Open
    <2>5. Fresh' /\ OnDisk' /\ Left'
      BY <1>3, <2>1, <2>4 DEF Fresh, OnDisk, Left
    <2> QED BY <2>3, <2>5 DEF FileInv
  <1>6. CASE /\ doc.rev + Len(Nearest(doc, new)) <= MaxRev
             /\ doc' = AllOrdered(doc, Nearest(doc, new))
             /\ journal' \in Recorded(NewRecords(doc'))
             /\ touched' = FALSE
             /\ pc' = "appended"
    <2> DEFINE changes == Nearest(doc, new)
    <2>1. changes \in Seq(Move)
      BY <1>1, <1>4, NearestMoves
    <2>2. NeverRemoved(doc.log) /\ Ours(doc.original, doc.log) \subseteq new
      BY <1>1, <1>4 DEF Known, InAll, DocOurs
    <2>3. /\ \A i \in 1 .. Len(changes) : changes[i].edit \in Outside =>
               changes[i].op = "add" /\ changes[i].edit \in new
          /\ ~(Outside \cap new \subseteq Ours(doc.original, doc.log)) => Len(changes) >= 1
      BY <1>1, <1>4, <2>2, NearestOurs
    <2> HIDE DEF changes
    <2>4. \A i \in 1 .. Len(changes) : changes[i].edit \in Outside =>
               changes[i].op = "add" /\ InAll({changes[i].edit})
      <3>1. \A c \in base : Outside \cap new \subseteq c
        BY <1>1, <1>4 DEF Known
      <3> QED BY <1>4, <2>3, <3>1 DEF InAll
    <2>5. Len(changes) = 0 /\ doc.rev = doc.saved => file = {doc.model}
      <3> SUFFICES ASSUME Len(changes) = 0, doc.rev = doc.saved PROVE file = {doc.model}
        OBVIOUS
      <3>1. Outside \cap new \subseteq DocOurs
        BY <2>3 DEF DocOurs
      <3>2. ~touched
        BY <1>1, <1>3, <1>4, <3>1 DEF Fresh, Open
      <3> QED BY <1>1, <1>3, <3>2 DEF OnDisk, Open
    <2>6. Brings(changes)
      BY <1>3, <2>4, <2>5 DEF Brings
    <2>7. /\ doc.rev + Len(changes) <= MaxRev /\ doc' = AllOrdered(doc, changes)
          /\ journal' \in Recorded(NewRecords(doc')) /\ pc' = "appended"
      BY <1>6 DEF changes
    <2> QED BY <1>3, <2>1, <2>6, <2>7, GrowFileStep
  <1> QED BY <1>2, <1>5, <1>6

LEMMA FileInvStep ==
  ASSUME Steady, Short, JournalInv, SameInv, FileInv, [Next]_vars
  PROVE  FileInv'
  <1>1. CASE \/ OpenFails \/ TakeNothing \/ SaveDue \/ Flush \/ Finish \/ Save \/ WriteFails
             \/ SaveDone \/ Hear \/ Written \/ UNCHANGED vars
    BY <1>1, QuietFileSteps
  <1>2. CASE OpenRead \/ Rename \/ SealRemove \/ SealStart
    BY <1>2, SavingFileSteps
  <1>3. CASE OutsideRead \/ OutsideRemove \/ (\E e \in Outside : OutsideWrite(e))
    BY <1>3, OtherFileSteps
  <1>4. CASE Closed \/ LookGone \/ Crash
    BY <1>4, EndFileSteps
  <1>5. CASE OpenStamp
    BY <1>5, OpenFileStep
  <1>6. CASE Look
    BY <1>6, LookFileStep
  <1>7. CASE \E edits \in SeqOf(Edit, MaxBatch) :
               edits # <<>> /\ IsInjective(edits) /\ Take(edits)
    BY <1>7, TakeFileStep
  <1> QED BY <1>1, <1>2, <1>3, <1>4, <1>5, <1>6, <1>7 DEF Next, Task, Other, Finished

(***************************************************************************)
(* What the task says of the file is true, whatever the programs that      *)
(* share the file write, and whichever saved state a write of theirs is    *)
(* merged from: after a close, or a crash in the middle of a seal, the     *)
(* file holds what views saw last, and a rev that was saved is in it.      *)
(***************************************************************************)
THEOREM FileTrueAlways ==
  ASSUME Steady, Short
  PROVE  Spec => []FileTrue
  <1>1. Init => SameInv /\ FileInv
    <2> SUFFICES ASSUME Init PROVE SameInv /\ FileInv
      OBVIOUS
    <2> QED BY NoDocumentSame, FileInvInit DEF Init, SameInv
  <1>2. JournalInv /\ SameInv /\ FileInv /\ [Next]_vars => SameInv' /\ FileInv'
    BY SameInvStep, FileInvStep
  <1>3. FileInv => FileTrue
    BY DEF FileInv, FileTrue, FileHoldsAll, SavedMeansOnDisk, Left, OnDisk, Open
  <1> QED BY <1>1, <1>2, <1>3, JournalInvAlways, PTL DEF Spec

-----------------------------------------------------------------------------
(* A late write keeps the edits made while the program worked *)

\* A replay keeps what none of its changes removes, and adds what they add.
LEMMA ReplayKeeps ==
  ASSUME NEW m \in Content, NEW s, Len(s) \in Nat, Applicable(s), NEW X, X \subseteq m,
         \A i \in 1 .. Len(s) : s[i].edit \in X => s[i].op = "add"
  PROVE  X \subseteq Replay(m, s)
  <1> DEFINE N == Len(s)
  <1>1. PICK f : Passes(f, m, s) /\ Replay(m, s) = f[N]
    BY ReplayIs
  <1>2. /\ f[0] = m /\ \A i \in 1 .. N : f[i] = Apply(f[i - 1], s[i])
    BY <1>1 DEF Passes
  <1> DEFINE W == {n \in 0 .. N : X \subseteq f[n]}
  <1>3. 0 \in W
    BY <1>2
  <1>4. ASSUME NEW n \in 0 .. N - 1, n \in W PROVE n + 1 \in W
    <2>1. n + 1 \in 1 .. N /\ (n + 1) - 1 = n /\ n + 1 \in 0 .. N
      OBVIOUS
    <2>2. f[n + 1] = Apply(f[n], s[n + 1])
      BY <1>2, <2>1
    <2>3. X \subseteq f[n] /\ (s[n + 1].edit \in X => s[n + 1].op = "add")
      BY <1>4, <2>1
    <2> QED BY <2>1, <2>2, <2>3 DEF Apply
  <1> HIDE DEF W
  <1>5. 0 .. N \subseteq W
    <2> HIDE DEF N
    <2> QED BY <1>3, <1>4, UpTo DEF N
  <1>6. N \in W
    BY <1>5
  <1> QED BY <1>1, <1>6 DEF W

LEMMA ReplayAdds ==
  ASSUME NEW m \in Content, NEW s, Len(s) \in Nat, Applicable(s),
         \A i \in 1 .. Len(s) : s[i].op = "add"
  PROVE  m \cup {s[i].edit : i \in 1 .. Len(s)} \subseteq Replay(m, s)
  <1> DEFINE N == Len(s) Upto(n) == m \cup {s[i].edit : i \in 1 .. n}
  <1>1. PICK f : Passes(f, m, s) /\ Replay(m, s) = f[N]
    BY ReplayIs
  <1>2. /\ f[0] = m /\ \A i \in 1 .. N : f[i] = Apply(f[i - 1], s[i])
    BY <1>1 DEF Passes
  <1> DEFINE W == {n \in 0 .. N : Upto(n) \subseteq f[n]}
  <1>3. 0 \in W
    BY <1>2
  <1>4. ASSUME NEW n \in 0 .. N - 1, n \in W PROVE n + 1 \in W
    <2>1. n + 1 \in 1 .. N /\ (n + 1) - 1 = n /\ n + 1 \in 0 .. N
      OBVIOUS
    <2>2. f[n + 1] = f[n] \cup {s[n + 1].edit}
      BY <1>2, <2>1 DEF Apply
    <2>3. Upto(n) \subseteq f[n]
      BY <1>4
    <2>4. Upto(n + 1) = Upto(n) \cup {s[n + 1].edit}
      <3>1. 1 .. n + 1 = (1 .. n) \cup {n + 1}
        OBVIOUS
      <3> QED BY <3>1
    <2> QED BY <2>1, <2>2, <2>3, <2>4
  <1> HIDE DEF W
  <1>5. 0 .. N \subseteq W
    <2> HIDE DEF N
    <2> QED BY <1>3, <1>4, UpTo DEF N
  <1>6. N \in W
    BY <1>5
  <1> QED BY <1>1, <1>6 DEF W

\* The records of changes say what the changes say.
LEMMA OrderedMoves ==
  ASSUME NEW d \in DocType, NEW changes \in Seq(Move), NEW t \in Seq(Change),
         Grew(d, AllOrdered(d, changes), t)
  PROVE  /\ Len(t) = Len(changes)
         /\ \A i \in 1 .. Len(t) : t[i].op = changes[i].op /\ t[i].edit = changes[i].edit
  <1> DEFINE n == Len(changes) m == Len(d.log)
             u == [i \in DOMAIN changes |-> Ordered(changes[i], d.rev + i)]
             d2 == AllOrdered(d, changes)
  <1>1. d.log \in Seq(Change) /\ d.rev \in Nat /\ m \in Nat
    BY DEF DocType
  <1>2. n \in Nat /\ DOMAIN changes = 1 .. n /\ Len(t) \in Nat
    OBVIOUS
  <1>3. ASSUME NEW i \in 1 .. n
        PROVE  u[i] \in Change /\ u[i].op = changes[i].op /\ u[i].edit = changes[i].edit
    <2>1. changes[i] \in Move /\ u[i] = Ordered(changes[i], d.rev + i) /\ d.rev + i \in Nat
      BY <1>1, <1>2, <1>3
    <2>2. changes[i].op \in {"add", "remove"} /\ changes[i].edit \in Edit \cup Outside
      BY <2>1 DEF Move
    <2> QED BY <2>1, <2>2 DEF Ordered, Change
  <1>4. u \in [1 .. n -> Change]
    <2>1. u = [i \in 1 .. n |-> u[i]]
      BY <1>2
    <2> HIDE DEF u
    <2> QED BY <1>3, <2>1
  <1>5. d2.log = d.log \o u /\ d2.rev = d.rev + n
    BY DEF AllOrdered, DocType
  <1>6. d2.log = d.log \o t /\ d2.rev = d.rev + Len(t)
    BY DEF Grew
  <1> HIDE DEF u, d2, n, m
  <1>7. u \in Seq(Change) /\ Len(u) = n
    BY <1>2, <1>4
  <1>8. Len(t) = n
    BY <1>1, <1>2, <1>5, <1>6
  <1>9. Joins(d.log \o u, d.log, u) /\ Joins(d.log \o t, d.log, t)
    BY <1>1, <1>7, Joined
  <1>10. \A i \in 1 .. n : t[i] = u[i]
    BY <1>5, <1>6, <1>7, <1>8, <1>9 DEF Joins
  <1> QED BY <1>3, <1>8, <1>10 DEF n

\* X is in the document that a restart would build, whatever a crash leaves.
Durable(X) ==
  \A n \in synced .. Len(journal.records) :
    X \subseteq Replay(journal.original, Changes(SubSeq(journal.records, 1, n)))

(***************************************************************************)
(* People's edits in the file, and in what another program read of it, are *)
(* in the document, and would be after a restart: the task writes only     *)
(* what its journal holds, and a merge takes out only what the file lacks. *)
(***************************************************************************)
Kept ==
  /\ \A f \in file, c \in base : Edit \cap c \subseteq f
  /\ \A s \in file \cup base :
       /\ Open => Edit \cap s \subseteq doc.model
       /\ journal.there => Durable(Edit \cap s)
       /\ pc = "read" /\ ~journal.there => Edit \cap s \subseteq cache
InStep == Open /\ pc # "appended" => synced = Len(journal.records)
Based == touched /\ ~noticed => \A f \in file, c \in from : \E e \in Outside : f = c \cup {e}

EditInv == Kept /\ InStep /\ Based

LEMMA EditInvInit == Init => EditInv
  <1> SUFFICES ASSUME Init PROVE EditInv
    OBVIOUS
  <1>1. file = {{}} /\ base = {} /\ pc = "down" /\ ~journal.there /\ ~touched
    BY DEF Init, NoJournal
  <1> QED BY <1>1 DEF EditInv, Kept, InStep, Based, Open

\* After a sync, a restart builds the document itself.
LEMMA DurableNow ==
  ASSUME NEW j \in JournalType, NEW X, X \subseteq Replay(j.original, Changes(j.records))
  PROVE  \A n \in Len(j.records) .. Len(j.records) :
           X \subseteq Replay(j.original, Changes(SubSeq(j.records, 1, n)))
  <1>1. j.records \in Seq(Record) /\ Len(j.records) \in Nat
    BY DEF JournalType
  <1>2. SubSeq(j.records, 1, Len(j.records)) = j.records
    BY <1>1, PrefixEnds
  <1> SUFFICES ASSUME NEW n \in Len(j.records) .. Len(j.records)
               PROVE  X \subseteq Replay(j.original, Changes(SubSeq(j.records, 1, n)))
    OBVIOUS
  <1>3. n = Len(j.records)
    BY <1>1
  <1> QED BY <1>2, <1>3

\* What the steps use of the other invariants.
LEMMA EditFacts ==
  ASSUME JournalInv, SameInv, EditInv
  PROVE  /\ doc \in DocType /\ DocRight(doc) /\ doc.model = Replay(doc.original, doc.log)
         /\ doc.model \in Content /\ doc.original \in Content /\ doc.log \in Seq(Change)
         /\ journal \in JournalType /\ AllRight(journal.records, journal.first)
         /\ journal.records \in Seq(Record) /\ Len(journal.records) \in Nat
         /\ synced \in 0 .. Len(journal.records)
         /\ cache \in Content /\ \A f \in file : file = {f} /\ f \in Content
         /\ base \in SUBSET Content
         /\ pc \notin {"down", "read", "sealing"} => journal.there /\ Matches(journal, doc)
         /\ pc = "sealing" => ~journal.there /\ synced = 0 /\ cache = doc.model
         /\ Kept /\ InStep /\ Based
  <1>1. /\ doc \in DocType /\ DocRight(doc) /\ doc.model = Replay(doc.original, doc.log)
        /\ doc.model \in Content /\ doc.original \in Content /\ doc.log \in Seq(Change)
        /\ journal \in JournalType /\ AllRight(journal.records, journal.first)
        /\ cache \in Content /\ synced \in 0 .. Len(journal.records) /\ base \in SUBSET Content
    BY DEF JournalInv, Typed, Shaped, SameInv, DocType
  <1>2. \A f \in file : file = {f} /\ f \in Content
    BY DEF JournalInv, Typed
  <1>3. journal.records \in Seq(Record) /\ Len(journal.records) \in Nat
    BY <1>1 DEF JournalType
  <1>4. /\ pc \notin {"down", "read", "sealing"} => journal.there /\ Matches(journal, doc)
        /\ pc = "sealing" => ~journal.there /\ synced = 0 /\ cache = doc.model
    BY DEF JournalInv, Shaped, SameInv
  <1> QED BY <1>1, <1>2, <1>3, <1>4 DEF EditInv

\* Steps that leave the document's content and what a restart builds alone.
Undisturbed ==
  /\ UNCHANGED <<file, journal, base, from>>
  /\ doc'.model = doc.model
  /\ Open' <=> Open
  /\ pc' = "read" => pc = "read" /\ cache' = cache
  /\ (synced' = synced /\ pc # "appended") \/ synced' = Len(journal.records)
  /\ touched' /\ ~noticed' => touched /\ ~noticed

LEMMA EditSame ==
  ASSUME JournalInv, SameInv, EditInv, Undisturbed
  PROVE  EditInv'
  <1>1. Kept /\ InStep /\ Based /\ synced \in 0 .. Len(journal.records)
        /\ Len(journal.records) \in Nat
    BY EditFacts
  <1>2. synced' >= synced /\ synced' \in Nat
    BY <1>1 DEF Undisturbed
  <1>3. ASSUME NEW X, Durable(X) PROVE Durable(X)'
    <2>1. \A n \in synced' .. Len(journal.records) : n \in synced .. Len(journal.records)
      BY <1>1, <1>2
    <2> QED BY <1>3, <2>1 DEF Durable, Undisturbed
  <1>4. Kept'
    <2>1. /\ file' = file /\ base' = base /\ journal' = journal /\ doc'.model = doc.model
          /\ Open' <=> Open
          /\ pc' = "read" => pc = "read" /\ cache' = cache
      BY DEF Undisturbed
    <2>2. \A f \in file', c \in base' : Edit \cap c \subseteq f
      BY <1>1, <2>1 DEF Kept
    <2>3. ASSUME NEW s \in file \cup base
          PROVE  /\ Open' => Edit \cap s \subseteq doc'.model
                 /\ journal'.there => Durable(Edit \cap s)'
                 /\ pc' = "read" /\ ~journal'.there => Edit \cap s \subseteq cache'
      <3>1. /\ Open => Edit \cap s \subseteq doc.model
            /\ journal.there => Durable(Edit \cap s)
            /\ pc = "read" /\ ~journal.there => Edit \cap s \subseteq cache
        BY <1>1 DEF Kept
      <3>2. journal.there => Durable(Edit \cap s)'
        <4>1. Durable(Edit \cap s) => Durable(Edit \cap s)'
          BY <1>3
        <4> QED BY <3>1, <4>1
      <3> QED BY <2>1, <3>1, <3>2
    <2> QED BY <2>1, <2>2, <2>3 DEF Kept
  <1>5. InStep'
    BY <1>1 DEF InStep, Undisturbed
  <1>6. Based'
    BY <1>1 DEF Based, Undisturbed
  <1> QED BY <1>4, <1>5, <1>6 DEF EditInv

LEMMA QuietEditSteps ==
  ASSUME Steady, Short, JournalInv, SameInv, EditInv,
         \/ OpenFails \/ TakeNothing \/ SaveDue \/ Flush \/ Finish \/ Save \/ WriteFails
         \/ SaveDone \/ Hear \/ LookGone \/ UNCHANGED vars
  PROVE  EditInv'
  <1>1. doc \in DocType
    BY EditFacts
  <1>2. CASE OpenFails \/ LookGone
    <2>1. /\ Open' = FALSE /\ pc' = "down" /\ pc # "appended"
          /\ UNCHANGED <<file, journal, synced, base, from, touched, noticed>>
      BY <1>2 DEF OpenFails, LookGone, Forget, diskVars, otherVars, Open
    <2>2. Kept /\ InStep /\ Based
      BY EditFacts
    <2>3. Kept'
      BY <2>1, <2>2 DEF Kept, Durable
    <2>4. InStep' /\ Based'
      BY <2>1, <2>2 DEF InStep, Based
    <2> QED BY <2>3, <2>4 DEF EditInv
  <1>3. CASE TakeNothing \/ SaveDue \/ Flush \/ Finish \/ SaveDone
    <2>1. /\ UNCHANGED <<file, journal, synced, base, from, touched, doc, noticed>>
          /\ pc \in {"idle", "saved"} /\ pc' \in {"saving", "idle"}
      BY <1>3 DEF TakeNothing, SaveDue, Flush, Finish, SaveDone, diskVars, otherVars
    <2>2. Undisturbed
      BY <2>1 DEF Undisturbed, Open
    <2> QED BY <2>2, EditSame
  <1>4. CASE Save \/ WriteFails
    <2>1. /\ UNCHANGED <<file, journal, synced, base, from, touched, noticed>>
          /\ pc \in {"saving", "writing", "renamed"} /\ pc' \in {"saved", "writing"}
          /\ doc' = doc \/ doc' = [doc EXCEPT !.waits = TRUE]
      BY <1>4 DEF Save, WriteFails, diskVars, otherVars
    <2>2. doc'.model = doc.model
      BY <1>1, <2>1 DEF DocType
    <2>3. Undisturbed
      BY <2>1, <2>2 DEF Undisturbed, Open
    <2> QED BY <2>3, EditSame
  <1>5. CASE Hear
    <2>1. /\ UNCHANGED <<file, journal, base, from, touched, noticed, doc>>
          /\ pc = "appended" /\ synced' \in Sync(journal)
      BY <1>5 DEF Hear, otherVars
    <2>2. pc' \in {"saving", "idle"}
      <3>1. PICK long \in Long : IF sealing \/ long THEN pc' = "saving" /\ then' = "seal"
                                                    ELSE pc' = "idle" /\ then' = then
        BY <1>5 DEF Hear
      <3> QED BY <3>1
    <2>3. synced' = Len(journal.records)
      BY <2>1 DEF Sync, Steady
    <2>4. Undisturbed
      BY <2>1, <2>2, <2>3 DEF Undisturbed, Open
    <2> QED BY <2>4, EditSame
  <1>6. CASE UNCHANGED vars
    <2>1. UNCHANGED <<file, journal, synced, base, from, touched, noticed, doc, pc, cache>>
      BY <1>6 DEF vars, diskVars, flowVars, otherVars
    <2>2. Kept /\ InStep /\ Based
      BY EditFacts
    <2>3. Kept' /\ InStep' /\ Based'
      BY <2>1, <2>2 DEF Kept, Durable, InStep, Based, Open
    <2> QED BY <2>3 DEF EditInv
  <1> QED BY <1>2, <1>3, <1>4, <1>5, <1>6

LEMMA OtherEditSteps ==
  ASSUME Steady, JournalInv, SameInv, EditInv,
         OutsideRead \/ OutsideRemove \/ (\E e \in Outside : OutsideWrite(e)) \/ OpenRead
  PROVE  EditInv'
  <1>1. /\ \A f \in file : file = {f} /\ f \in Content
        /\ Kept /\ InStep /\ Based
    BY EditFacts
  <1>2. UNCHANGED <<journal, synced, doc>>
    BY DEF OutsideRead, OutsideRemove, OutsideWrite, OpenRead, diskVars
  <1>3. \A X : Durable(X)' = Durable(X)
    BY <1>2 DEF Durable
  <1>4. CASE OpenRead
    <2>1. /\ pc = "down" /\ pc' = "read" /\ cache' \in file
          /\ UNCHANGED <<file, base, from, touched, noticed>>
      BY <1>4 DEF OpenRead, diskVars, otherVars
    <2>2. \A s \in file \cup base : Edit \cap s \subseteq cache'
      BY <1>1, <2>1 DEF Kept
    <2>3. Kept'
      BY <1>1, <1>2, <1>3, <2>1, <2>2 DEF Kept, Open
    <2>4. InStep' /\ Based'
      BY <1>1, <2>1 DEF InStep, Based, Open
    <2> QED BY <2>3, <2>4 DEF EditInv
  <1>5. CASE OutsideRead
    <2>1. base' = file /\ UNCHANGED <<file, pc, cache, from, touched, noticed>>
      BY <1>5 DEF OutsideRead, diskVars, flowVars
    <2>2. \A f \in file', c \in base' : Edit \cap c \subseteq f
      BY <1>1, <1>2, <2>1
    <2>3. ASSUME NEW s \in file' \cup base'
          PROVE  /\ Open' => Edit \cap s \subseteq doc'.model
                 /\ journal'.there => Durable(Edit \cap s)'
                 /\ pc' = "read" /\ ~journal'.there => Edit \cap s \subseteq cache'
      <3>1. s \in file
        BY <2>1
      <3> QED BY <1>1, <1>2, <1>3, <2>1, <3>1 DEF Kept, Open
    <2>4. Kept'
      BY <2>2, <2>3 DEF Kept
    <2>5. InStep' /\ Based'
      BY <1>1, <1>2, <2>1 DEF InStep, Based, Open
    <2> QED BY <2>4, <2>5 DEF EditInv
  <1>6. CASE OutsideRemove
    <2>1. file' = {} /\ UNCHANGED <<base, pc, cache>>
      BY <1>6 DEF OutsideRemove, flowVars
    <2>2. Kept'
      BY <1>1, <1>2, <1>3, <2>1 DEF Kept, Open
    <2>3. InStep' /\ Based'
      BY <1>1, <1>2, <2>1 DEF InStep, Based, Open
    <2> QED BY <2>2, <2>3 DEF EditInv
  <1>7. ASSUME NEW e \in Outside, OutsideWrite(e) PROVE EditInv'
    <2>1. PICK c \in base : file' = {c \cup {e}} /\ from' = {c}
      BY <1>7 DEF OutsideWrite
    <2>2. base' = {} /\ UNCHANGED <<pc, cache>>
      BY <1>7 DEF OutsideWrite, flowVars
    <2>3. Edit \cap (c \cup {e}) = Edit \cap c
      BY JournalAssumption
    <2>4. Kept'
      BY <1>1, <1>2, <1>3, <2>1, <2>2, <2>3 DEF Kept, Open
    <2>5. InStep' /\ Based'
      BY <1>1, <1>2, <2>1, <2>2 DEF InStep, Based, Open
    <2> QED BY <2>4, <2>5 DEF EditInv
  <1> QED BY <1>4, <1>5, <1>6, <1>7

\* The document and its journal agree on all of its content.
LEMMA JournalModel ==
  ASSUME JournalInv, SameInv, pc \notin {"down", "read", "sealing"}
  PROVE  doc.model = Replay(journal.original, Changes(journal.records))
  <1>1. Matches(journal, doc) /\ doc.model = Replay(doc.original, doc.log)
    BY DEF JournalInv, Shaped, SameInv
  <1> QED BY <1>1 DEF Matches

LEMMA SavingEditSteps ==
  ASSUME Steady, JournalInv, SameInv, EditInv,
         Rename \/ Written \/ SealRemove \/ SealStart
  PROVE  EditInv'
  <1>1. /\ doc \in DocType /\ DocRight(doc)
        /\ journal \in JournalType /\ journal.records \in Seq(Record)
        /\ Len(journal.records) \in Nat /\ synced \in 0 .. Len(journal.records)
        /\ cache \in Content /\ \A f \in file : file = {f} /\ f \in Content
        /\ Kept /\ InStep /\ Based
    BY EditFacts
  <1>2. CASE Rename
    <2>1. /\ UNCHANGED <<journal, synced, doc, base, cache>>
          /\ pc = "writing" /\ pc' = "renamed"
          /\ file' = {doc.model} /\ touched' = FALSE
      BY <1>2 DEF Rename
    <2>2. synced = Len(journal.records)
      BY <1>1, <2>1 DEF InStep, Open
    <2>3. Durable(doc.model)'
      <3>1. doc.model \subseteq Replay(journal.original, Changes(journal.records))
        BY <2>1, JournalModel
      <3> DEFINE X == doc.model j == journal
      <3>2. j \in JournalType /\ X \subseteq Replay(j.original, Changes(j.records))
        BY <1>1, <3>1
      <3> HIDE DEF X, j
      <3>3. \A n \in Len(j.records) .. Len(j.records) :
              X \subseteq Replay(j.original, Changes(SubSeq(j.records, 1, n)))
        BY <3>2, DurableNow
      <3> QED BY <2>1, <2>2, <3>3 DEF Durable, X, j
    <2>4. Durable(Edit \cap doc.model)'
      BY <2>1, <2>3 DEF Durable
    <2>5. \A c \in base : /\ Edit \cap c \subseteq doc.model
                          /\ journal.there => Durable(Edit \cap c)'
      BY <1>1, <2>1 DEF Kept, Durable, Open
    <2>6. Kept'
      BY <2>1, <2>4, <2>5 DEF Kept
    <2>7. InStep' /\ Based'
      BY <2>1, <2>2 DEF InStep, Based
    <2> QED BY <2>6, <2>7 DEF EditInv
  <1>3. CASE Written
    <2>1. /\ UNCHANGED <<file, base, from>>
          /\ pc = "renamed" /\ pc' = "saved" /\ noticed' = TRUE
          /\ synced' = Len(journal'.records)
      BY <1>3 DEF Written, otherVars, Sync, Steady
    <2>2. doc'.model = doc.model
      BY <1>3, WrittenStep
    <2>3. JournalInv' /\ SameInv'
      <3>1. JournalInv' /\ cache' = doc'.model
            /\ doc'.model = doc.model /\ doc'.original = doc.original /\ doc'.log = doc.log
        BY <1>3, WrittenStep
      <3> QED BY <2>1, <3>1 DEF SameInv
    <2>4. doc'.model = Replay(journal'.original, Changes(journal'.records))
      <3>1. Matches(journal, doc)' /\ doc'.model = Replay(doc'.original, doc'.log)
        BY <2>1, <2>3 DEF JournalInv, Shaped, SameInv
      <3> QED BY <3>1 DEF Matches
    <2>5. journal' \in JournalType
      BY <2>3 DEF JournalInv, Typed
    <2>6. ASSUME NEW X, X \subseteq doc'.model PROVE Durable(X)'
      <3> DEFINE j == journal'
      <3>1. j \in JournalType /\ X \subseteq Replay(j.original, Changes(j.records))
        BY <2>4, <2>5, <2>6
      <3> HIDE DEF j
      <3>2. \A n \in Len(j.records) .. Len(j.records) :
              X \subseteq Replay(j.original, Changes(SubSeq(j.records, 1, n)))
        BY <3>1, DurableNow
      <3> QED BY <2>1, <3>2 DEF Durable, j
    <2>7. \A s \in file \cup base : Edit \cap s \subseteq doc'.model
      BY <1>1, <2>1, <2>2 DEF Kept, Open
    <2>8. \A s \in file \cup base : Durable(Edit \cap s)'
      BY <2>6, <2>7
    <2>9. Kept'
      BY <1>1, <2>1, <2>7, <2>8 DEF Kept
    <2>10. InStep' /\ Based'
      BY <2>1 DEF InStep, Based
    <2> QED BY <2>9, <2>10 DEF EditInv
  <1>4. CASE SealRemove
    <2>1. /\ UNCHANGED <<file, doc, base, from, touched, noticed>>
          /\ pc = "saved" /\ pc' = "sealing" /\ journal' = NoJournal /\ synced' = 0
      BY <1>4 DEF SealRemove, otherVars
    <2>2. ~journal'.there /\ Len(journal'.records) = 0
      BY <2>1, WithoutJournal
    <2>3. Kept'
      BY <1>1, <2>1, <2>2 DEF Kept, Open
    <2>4. InStep' /\ Based'
      BY <1>1, <2>1, <2>2 DEF InStep, Based
    <2> QED BY <2>3, <2>4 DEF EditInv
  <1>5. CASE SealStart
    <2>1. /\ UNCHANGED <<file, synced, base, from, touched, noticed>>
          /\ pc = "sealing" /\ pc' = "idle"
          /\ journal' = Started(cache, doc.rev) /\ doc' = Rebased(doc, cache)
      BY <1>5 DEF SealStart, Steady, otherVars
    <2>2. synced = 0 /\ cache = doc.model
      BY <2>1, EditFacts
    <2>3. doc.rev \in Nat /\ doc.rev <= MaxRev
      BY <1>1 DEF DocType, DocRight
    <2>4. /\ journal' \in JournalType /\ journal'.original = cache
          /\ Changes(journal'.records) = <<>> /\ Len(journal'.records) = 0
      BY <1>1, <2>1, <2>3, NewJournal
    <2>5. doc'.model = doc.model
      BY <1>1, <2>1 DEF Rebased, DocType
    <2>6. ASSUME NEW X, X \subseteq doc.model PROVE Durable(X)'
      <3> DEFINE j == journal'
      <3>1. j \in JournalType /\ X \subseteq Replay(j.original, Changes(j.records))
        BY <1>1, <2>2, <2>4, <2>6, ReplayNothing
      <3> HIDE DEF j
      <3>2. \A n \in Len(j.records) .. Len(j.records) :
              X \subseteq Replay(j.original, Changes(SubSeq(j.records, 1, n)))
        BY <3>1, DurableNow
      <3> QED BY <2>1, <2>2, <2>4, <3>2 DEF Durable, j
    <2>7. \A s \in file \cup base : Edit \cap s \subseteq doc.model
      BY <1>1, <2>1 DEF Kept, Open
    <2>8. \A s \in file \cup base : Durable(Edit \cap s)'
      BY <2>6, <2>7
    <2>9. Kept'
      BY <1>1, <2>1, <2>5, <2>7, <2>8 DEF Kept
    <2>10. InStep' /\ Based'
      BY <1>1, <2>1, <2>2, <2>4 DEF InStep, Based
    <2> QED BY <2>9, <2>10 DEF EditInv
  <1> QED BY <1>2, <1>3, <1>4, <1>5

\* What a restart builds of a shorter beginning it would have built before.
LEMMA PrefixOfPrefix ==
  ASSUME NEW X, NEW s \in Seq(X), NEW n \in 0 .. Len(s)
  PROVE  SubSeq(s, 1, n) \in Seq(X) /\ Len(SubSeq(s, 1, n)) = n
         /\ SubSeq(SubSeq(s, 1, n), 1, n) = SubSeq(s, 1, n)
  <1> DEFINE t == SubSeq(s, 1, n)
  <1>1. t \in Seq(X) /\ Len(t) = n
    OBVIOUS
  <1> HIDE DEF t
  <1>2. SubSeq(t, 1, n) = t
    BY <1>1, PrefixEnds
  <1> QED BY <1>1, <1>2 DEF t

LEMMA EndEditSteps ==
  ASSUME Steady, JournalInv, SameInv, EditInv, Closed \/ Crash
  PROVE  EditInv'
  <1>1. /\ journal \in JournalType /\ journal.records \in Seq(Record)
        /\ Len(journal.records) \in Nat /\ synced \in 0 .. Len(journal.records)
        /\ Kept /\ InStep /\ Based
    BY EditFacts
  <1>2. /\ pc' = "down"
        /\ UNCHANGED <<file, base, from, touched, noticed>>
    BY DEF Closed, Crash, Forget, otherVars
  <1>3. /\ journal'.there => journal.there
        /\ \A X : journal'.there /\ Durable(X) => Durable(X)'
    <2>1. CASE Closed
      <3>1. journal' = NoJournal \/ journal' = journal
        BY <2>1 DEF Closed
      <3>2. CASE journal' = NoJournal
        BY <3>2, WithoutJournal
      <3>3. CASE journal' = journal
        <4>1. synced' = Len(journal.records)
          BY <2>1, <3>3 DEF Closed
        <4>2. \A n \in synced' .. Len(journal.records) : n \in synced .. Len(journal.records)
          BY <1>1, <4>1
        <4> QED BY <3>3, <4>2 DEF Durable
      <3> QED BY <3>1, <3>2, <3>3
    <2>2. CASE Crash
      <3>1. "remove" \notin Faults
        BY DEF Steady
      <3>2. PICK n \in synced .. Len(journal.records) :
              journal' = [journal EXCEPT !.records = SubSeq(@, 1, n)]
        BY <2>2, <3>1 DEF Crash
      <3>3. n \in 0 .. Len(journal.records) /\ n \in Nat
        BY <1>1, <3>2
      <3>4. /\ journal'.records = SubSeq(journal.records, 1, n)
            /\ journal'.original = journal.original /\ journal'.there = journal.there
        BY <1>1, <3>2 DEF JournalType
      <3> DEFINE R == journal.records
      <3>5. Len(SubSeq(R, 1, n)) = n /\ SubSeq(SubSeq(R, 1, n), 1, n) = SubSeq(R, 1, n)
        <4>1. R \in Seq(Record) /\ n \in 0 .. Len(R)
          BY <1>1, <3>3
        <4> HIDE DEF R
        <4> QED BY <4>1, PrefixOfPrefix
      <3>6. synced' = n /\ Len(journal'.records) = n
        BY <2>2, <3>4, <3>5 DEF Crash
      <3>7. ASSUME NEW X, Durable(X) PROVE Durable(X)'
        <4>1. X \subseteq Replay(journal.original, Changes(SubSeq(R, 1, n)))
          BY <3>2, <3>7 DEF Durable
        <4>2. \A k \in n .. n : k = n
          BY <3>3
        <4>3. \A k \in n .. n :
                X \subseteq Replay(journal'.original, Changes(SubSeq(journal'.records, 1, k)))
          BY <3>4, <3>5, <4>1, <4>2
        <4> QED BY <3>6, <4>3 DEF Durable
      <3> QED BY <3>4, <3>7
    <2> QED BY <2>1, <2>2
  <1>4. ASSUME NEW s \in file \cup base PROVE journal'.there => Durable(Edit \cap s)'
    <2>1. journal.there => Durable(Edit \cap s)
      BY <1>1 DEF Kept
    <2>2. journal'.there /\ Durable(Edit \cap s) => Durable(Edit \cap s)'
      BY <1>3
    <2> QED BY <1>3, <2>1, <2>2
  <1>5. Kept'
    BY <1>1, <1>2, <1>4 DEF Kept, Open
  <1>6. InStep' /\ Based'
    BY <1>1, <1>2 DEF InStep, Based, Open
  <1> QED BY <1>5, <1>6 DEF EditInv

LEMMA OpenEditStep ==
  ASSUME Steady, JournalInv, SameInv, EditInv, OpenStamp
  PROVE  EditInv'
  <1>1. /\ cache \in Content
        /\ journal \in JournalType /\ AllRight(journal.records, journal.first)
        /\ journal.records \in Seq(Record)
        /\ Len(journal.records) \in Nat /\ synced \in 0 .. Len(journal.records)
        /\ Kept /\ InStep /\ Based
    BY EditFacts
  <1>2. /\ UNCHANGED <<file, base>> /\ pc = "read" /\ pc' = "idle" /\ noticed' = TRUE
        /\ synced' = Len(journal'.records)
        /\ \/ /\ journal.there
              /\ doc' = Restored(journal)
              /\ journal' = [journal EXCEPT !.records = Whole(@)]
           \/ /\ ~journal.there
              /\ doc' = Opened(cache)
              /\ journal' = Started(cache, 0)
    BY DEF OpenStamp
  <1>3. /\ journal' \in JournalType /\ doc'.model = Replay(journal'.original, Changes(journal'.records))
        /\ \A s \in file \cup base : Edit \cap s \subseteq doc'.model
    <2>1. CASE /\ journal.there
               /\ doc' = Restored(journal)
               /\ journal' = [journal EXCEPT !.records = Whole(@)]
      <3>1. doc'.model = Replay(journal.original, Changes(journal.records))
        <4> DEFINE d == Restored(journal)
        <4>1. Matches(journal, d) /\ d.model = Replay(d.original, d.log)
          BY <1>1, RestoredDocument
        <4>2. doc' = d
          BY <2>1
        <4> HIDE DEF d
        <4> QED BY <4>1, <4>2 DEF Matches
      <3>2. journal' = journal
        <4>1. Whole(journal.records) = journal.records
          BY <1>1, NothingTorn
        <4> QED BY <1>1, <2>1, <4>1 DEF JournalType
      <3>3. ASSUME NEW s \in file \cup base PROVE Edit \cap s \subseteq doc'.model
        <4>1. Durable(Edit \cap s)
          BY <1>1, <2>1 DEF Kept
        <4>2. Len(journal.records) \in synced .. Len(journal.records)
          BY <1>1
        <4>3. SubSeq(journal.records, 1, Len(journal.records)) = journal.records
          BY <1>1, PrefixEnds
        <4> QED BY <3>1, <4>1, <4>2, <4>3 DEF Durable
      <3> QED BY <1>1, <3>1, <3>2, <3>3
    <2>2. CASE /\ ~journal.there
               /\ doc' = Opened(cache)
               /\ journal' = Started(cache, 0)
      <3>1. doc'.model = cache
        BY <1>1, <2>2, NewDocument
      <3>2. /\ journal' \in JournalType /\ journal'.original = cache
            /\ Changes(journal'.records) = <<>>
        BY <1>1, <2>2, NewJournal, JournalAssumption
      <3>3. doc'.model = Replay(journal'.original, Changes(journal'.records))
        BY <1>1, <3>1, <3>2, ReplayNothing
      <3>4. \A s \in file \cup base : Edit \cap s \subseteq doc'.model
        BY <1>1, <1>2, <2>2, <3>1 DEF Kept
      <3> QED BY <3>2, <3>3, <3>4
    <2> QED BY <1>2, <2>1, <2>2
  <1>4. ASSUME NEW X, X \subseteq doc'.model PROVE Durable(X)'
    <2> DEFINE j == journal'
    <2>1. j \in JournalType /\ X \subseteq Replay(j.original, Changes(j.records))
      BY <1>3, <1>4
    <2> HIDE DEF j
    <2>2. \A n \in Len(j.records) .. Len(j.records) :
            X \subseteq Replay(j.original, Changes(SubSeq(j.records, 1, n)))
      BY <2>1, DurableNow
    <2> QED BY <1>2, <2>2 DEF Durable, j
  <1>5. \A s \in file \cup base : Durable(Edit \cap s)'
    BY <1>3, <1>4
  <1>6. Kept'
    BY <1>1, <1>2, <1>3, <1>5 DEF Kept
  <1>7. InStep' /\ Based'
    BY <1>2 DEF InStep, Based
  <1> QED BY <1>6, <1>7 DEF EditInv

\* Changes go in the document, and none takes out what the file or the other program holds.
Keeps(changes) ==
  /\ \A s \in file \cup base : \A i \in 1 .. Len(changes) :
       changes[i].edit \in Edit \cap s => changes[i].op = "add"
  /\ touched' /\ ~noticed' => touched /\ ~noticed /\ from' = from

LEMMA ReplayJoined ==
  ASSUME NEW m \in Content, NEW s \in Seq(Change), NEW t \in Seq(Change)
  PROVE  Replay(m, s \o t) = Replay(Replay(m, s), t)
  <1> DEFINE u == s \o t
  <1>1. Joins(u, s, t)
    BY Joined
  <1> HIDE DEF u
  <1>2. Applicable(s) /\ Applicable(t) /\ Len(s) \in Nat /\ Len(t) \in Nat
    BY LogApplicable
  <1>3. /\ Len(u) = Len(s) + Len(t) /\ \A i \in 1 .. Len(s) : u[i] = s[i]
        /\ \A i \in 1 .. Len(t) : u[Len(s) + i].op = t[i].op
                                /\ u[Len(s) + i].edit = t[i].edit
    BY <1>1 DEF Joins
  <1>4. Replay(m, u) = Replay(Replay(m, s), t)
    BY ONLY <1>2, <1>3, m \in Content, ReplayMore
  <1> QED BY <1>4 DEF u

\* Changes that come after a content come after each beginning of its records.
LEMMA LongerBeginnings ==
  ASSUME NEW m \in Content, NEW R \in Seq(Record), NEW t \in Seq(Change),
         NEW X, NEW k \in Nat, \A n \in k .. Len(R) : X \subseteq Replay(m, Changes(SubSeq(R, 1, n))),
         k = Len(R), \A i \in 1 .. Len(t) : t[i].edit \in X => t[i].op = "add"
  PROVE  \A n \in k .. Len(R \o t) : X \subseteq Replay(m, Changes(SubSeq(R \o t, 1, n)))
  <1> SUFFICES ASSUME NEW n \in k .. Len(R \o t)
               PROVE  X \subseteq Replay(m, Changes(SubSeq(R \o t, 1, n)))
    OBVIOUS
  <1> DEFINE l == n - Len(R) u == SubSeq(t, 1, l) v == R \o u
  <1>1. t \in Seq(Record) /\ Len(R) \in Nat /\ Len(t) \in Nat
    BY DEF Record
  <1>2. Len(R \o t) = Len(R) + Len(t)
    BY <1>1
  <1>3. l \in 0 .. Len(t) /\ n = Len(R) + l
    BY <1>1, <1>2
  <1>4. u \in Seq(Change) /\ Len(u) = l /\ \A i \in 1 .. l : u[i] = t[i]
    BY <1>1, <1>3
  <1>5. SubSeq(R \o t, 1, n) = v
    <2> DEFINE w == R \o t
    <2>1. u \in Seq(Record)
      BY <1>4 DEF Record
    <2>2. Joins(w, R, t) /\ w \in Seq(Record)
      BY <1>1, Joined
    <2> HIDE DEF l, u, w, v
    <2>3. Joins(v, R, u) /\ v \in Seq(Record)
      BY <2>1, Joined DEF v
    <2>4. Len(v) = n /\ Len(w) = Len(R) + Len(t) /\ n \in 0 .. Len(w)
      BY <1>1, <1>3, <1>4, <2>2, <2>3 DEF Joins
    <2>5. ASSUME NEW i \in 1 .. n PROVE v[i] = w[i]
      <3>1. CASE i \in 1 .. Len(R)
        BY <2>2, <2>3, <3>1 DEF Joins
      <3>2. CASE i \notin 1 .. Len(R)
        <4>1. i - Len(R) \in 1 .. l /\ i = Len(R) + (i - Len(R)) /\ i - Len(R) \in 1 .. Len(t)
          BY <1>1, <1>3, <3>2
        <4> QED BY <1>4, <2>2, <2>3, <4>1 DEF Joins
      <3> QED BY <3>1, <3>2
    <2>6. /\ SubSeq(w, 1, n) \in Seq(Record) /\ Len(SubSeq(w, 1, n)) = n
          /\ \A i \in 1 .. n : SubSeq(w, 1, n)[i] = w[i]
      BY <2>2, <2>4
    <2>7. SubSeq(w, 1, n) = v
      BY <2>3, <2>4, <2>5, <2>6
    <2> QED BY <2>7 DEF w
  <1> HIDE DEF u, l
  <1>6. Changes(v) = Changes(R) \o u
    BY <1>4, MoreChanges
  <1> DEFINE C == Changes(R)
  <1>7. C \in Seq(Change) /\ SubSeq(R, 1, Len(R)) = R
    BY AreSorted, PrefixEnds DEF Sorted
  <1>8. X \subseteq Replay(m, C)
    <2>1. Len(R) \in k .. Len(R)
      BY <1>1
    <2> QED BY <1>7, <2>1
  <1> HIDE DEF v, C
  <1>9. /\ Applicable(C) /\ Len(C) \in Nat /\ Applicable(u) /\ Len(u) \in Nat
    BY <1>4, <1>7, LogApplicable
  <1>10. Replay(m, C \o u) = Replay(Replay(m, C), u)
    BY <1>4, <1>7, ReplayJoined
  <1>13. \A i \in 1 .. Len(u) : u[i].edit \in X => u[i].op = "add"
    <2>1. \A i \in 1 .. Len(u) : u[i] = t[i] /\ i \in 1 .. Len(t)
      BY <1>1, <1>3, <1>4
    <2> QED BY <2>1
  <1>14. X \subseteq Replay(Replay(m, C), u)
    <2>1. Replay(m, C) \in Content
      BY <1>9, ReplayType
    <2> DEFINE mid == Replay(m, C)
    <2>2. mid \in Content /\ X \subseteq mid
      BY <1>8, <2>1
    <2> HIDE DEF mid
    <2>3. X \subseteq Replay(mid, u)
      BY <1>9, <1>13, <2>2, ReplayKeeps
    <2> QED BY <2>3 DEF mid
  <1> QED BY <1>5, <1>6, <1>10, <1>14 DEF C

LEMMA GrowEditStep ==
  ASSUME Steady, JournalInv, SameInv, EditInv, pc = "idle", pc' = "appended",
         NEW changes \in Seq(Move), doc.rev + Len(changes) <= MaxRev,
         doc' = AllOrdered(doc, changes), journal' \in Recorded(NewRecords(doc')),
         UNCHANGED <<synced, heard, file, base>>, Keeps(changes)
  PROVE  EditInv'
  <1>1. /\ doc \in DocType /\ DocRight(doc) /\ doc.model \in Content /\ doc.log \in Seq(Change)
        /\ journal \in JournalType /\ journal.records \in Seq(Record)
        /\ Len(journal.records) \in Nat
        /\ Kept /\ InStep /\ Based /\ journal.there
    BY EditFacts
  <1>2. synced = Len(journal.records)
    BY <1>1 DEF InStep, Open
  <1>3. PICK t \in Seq(Change) : Grew(doc, doc', t)
    BY <1>1, GrowsRight
  <1> DEFINE d2 == AllOrdered(doc, changes)
  <1>4. Grew(doc, d2, t)
    BY <1>3
  <1> HIDE DEF d2
  <1>5. /\ Len(t) = Len(changes)
        /\ \A i \in 1 .. Len(t) : t[i].op = changes[i].op /\ t[i].edit = changes[i].edit
    BY <1>1, <1>4, OrderedMoves DEF d2
  <1>6. t \in Seq(Record) /\ NewRecords(doc') = t
    <2>1. t \in Seq(Record)
      BY DEF Record
    <2>2. NewRecords(doc') = t
      BY <1>3 DEF NewRecords, Grew
    <2> QED BY <2>1, <2>2
  <1>7. attached = TRUE
    BY DEF JournalInv, Typed
  <1>8. journal' = [journal EXCEPT !.records = @ \o t]
    BY <1>1, <1>6, <1>7, RecordedAll
  <1>9. /\ journal'.records = journal.records \o t /\ journal'.original = journal.original
        /\ journal'.there
    BY <1>1, <1>8 DEF JournalType
  <1>10. doc'.model = Replay(doc.model, changes)
    BY <1>1 DEF AllOrdered, DocType
  <1>11. Applicable(changes) /\ Len(changes) \in Nat
    <2>1. \A i \in 1 .. Len(changes) : changes[i] \in Move
      OBVIOUS
    <2> QED BY <2>1 DEF Applicable, Move
  <1>12. ASSUME NEW s \in file \cup base
         PROVE  Edit \cap s \subseteq doc'.model /\ Durable(Edit \cap s)'
    <2> DEFINE X == Edit \cap s
    <2>1. X \subseteq doc.model /\ Durable(X)
      BY <1>1 DEF Kept, Open
    <2>2. \A i \in 1 .. Len(changes) : changes[i].edit \in X => changes[i].op = "add"
      BY DEF Keeps
    <2> HIDE DEF X
    <2>3. X \subseteq doc'.model
      BY <1>1, <1>10, <1>11, <2>1, <2>2, ReplayKeeps
    <2>4. Durable(X)'
      <3> DEFINE R == journal.records m == journal.original
      <3>1. R \in Seq(Record) /\ m \in Content /\ synced \in Nat /\ synced = Len(R)
        BY <1>1, <1>2 DEF JournalType
      <3>2. \A n \in synced .. Len(R) : X \subseteq Replay(m, Changes(SubSeq(R, 1, n)))
        BY <2>1 DEF Durable
      <3>3. \A i \in 1 .. Len(t) : t[i].edit \in X => t[i].op = "add"
        BY <1>5, <2>2
      <3> HIDE DEF R, m
      <3>4. \A n \in synced .. Len(R \o t) : X \subseteq Replay(m, Changes(SubSeq(R \o t, 1, n)))
        BY <3>1, <3>2, <3>3, LongerBeginnings
      <3> QED BY <1>9, <3>4 DEF Durable, R, m
    <2> QED BY <2>3, <2>4 DEF X
  <1>13. Kept'
    BY <1>1, <1>12 DEF Kept
  <1>14. InStep' /\ Based'
    BY <1>1 DEF InStep, Based, Keeps
  <1> QED BY <1>13, <1>14 DEF EditInv

LEMMA TakeEditStep ==
  ASSUME Steady, JournalInv, SameInv, EditInv,
         NEW edits \in SeqOf(Edit, MaxBatch), Take(edits)
  PROVE  EditInv'
  <1> DEFINE changes == [i \in DOMAIN edits |-> [op |-> "add", edit |-> edits[i]]]
  <1>1. changes \in Seq(Move) /\ Len(changes) = Len(edits)
    BY BatchMoves
  <1>2. /\ pc = "idle" /\ pc' = "appended" /\ doc.rev + Len(edits) <= MaxRev
        /\ doc' = AllOrdered(doc, changes) /\ journal' \in Recorded(NewRecords(doc'))
        /\ UNCHANGED <<file, synced, noticed, base, from, touched, heard>>
    BY DEF Take, otherVars, pastVars
  <1>3. \A i \in 1 .. Len(changes) : changes[i].op = "add"
    <2>1. \A i \in DOMAIN changes : changes[i].op = "add"
      OBVIOUS
    <2> HIDE DEF changes
    <2>2. DOMAIN changes = 1 .. Len(changes)
      BY <1>1
    <2> QED BY <2>1, <2>2
  <1> HIDE DEF changes
  <1>4. Keeps(changes)
    BY <1>2, <1>3 DEF Keeps
  <1>5. doc.rev + Len(changes) <= MaxRev
    BY <1>1, <1>2
  <1> QED BY <1>1, <1>2, <1>4, <1>5, GrowEditStep

\* A merge only takes out what the file lacks.
LEMMA NearestKeeps ==
  ASSUME NEW d \in DocType, NEW new \in Content
  PROVE  \A i \in 1 .. Len(Nearest(d, new)) :
           Nearest(d, new)[i].edit \in new => Nearest(d, new)[i].op = "add"
  <1> DEFINE distance(i) == Cardinality(Compare(StateAt(d, d.states[i]), new))
             start == CHOOSE i \in DOMAIN d.states : \A j \in DOMAIN d.states :
                        distance(i) < distance(j) \/ (distance(i) = distance(j) /\ i <= j)
             old == StateAt(d, d.states[start])
             changes == SetToSeq(Compare(old, new))
  <1>1. Nearest(d, new) = changes
    BY DEF Nearest
  <1>2. old \in Content
    BY StateType
  <1> HIDE DEF old
  <1>3. \A i \in 1 .. Len(changes) :
          \/ changes[i].op = "add" /\ changes[i].edit \in new \ old
          \/ changes[i].op = "remove" /\ changes[i].edit \in old \ new
    BY <1>2, ComparedSeq
  <1> HIDE DEF changes
  <1> QED BY <1>1, <1>3

LEMMA LookEditStep ==
  ASSUME Steady, JournalInv, SameInv, EditInv, Look
  PROVE  EditInv'
  <1>1. /\ doc \in DocType /\ \A f \in file : file = {f} /\ f \in Content
        /\ Kept
    BY EditFacts
  <1>2. PICK new \in file :
       \/ /\ new = cache \/ ~HasStates(doc)
          /\ touched' = (new # doc.model)
          /\ UNCHANGED <<pc, doc, cache, journal, due, sealing>>
       \/ /\ new # cache /\ HasStates(doc)
          /\ doc.rev + Len(Nearest(doc, new)) <= MaxRev
          /\ doc' = AllOrdered(doc, Nearest(doc, new))
          /\ journal' \in Recorded(NewRecords(doc'))
          /\ cache' = new
          /\ touched' = FALSE
          /\ due' = (due \/ doc'.rev # doc.rev)
          /\ sealing' = Seals(doc')
          /\ pc' = "appended"
    BY DEF Look
  <1>3. /\ pc = "idle" /\ ~noticed /\ noticed' = TRUE
        /\ UNCHANGED <<file, synced, base, from, heard>>
    BY DEF Look, pastVars
  <1>4. new \in Content /\ file = {new}
    BY <1>1, <1>2
  <1>5. CASE UNCHANGED <<pc, doc, cache, journal, due, sealing>>
    <2>1. Undisturbed
      BY <1>3, <1>5 DEF Undisturbed, Open
    <2> QED BY <2>1, EditSame
  <1>6. CASE /\ doc.rev + Len(Nearest(doc, new)) <= MaxRev
             /\ doc' = AllOrdered(doc, Nearest(doc, new))
             /\ journal' \in Recorded(NewRecords(doc'))
             /\ touched' = FALSE
             /\ pc' = "appended"
    <2> DEFINE changes == Nearest(doc, new)
    <2>1. changes \in Seq(Move)
      BY <1>1, <1>4, NearestMoves
    <2>2. \A i \in 1 .. Len(changes) : changes[i].edit \in new => changes[i].op = "add"
      BY <1>1, <1>4, NearestKeeps
    <2> HIDE DEF changes
    <2>3. \A s \in file \cup base : Edit \cap s \subseteq new
      BY <1>1, <1>4 DEF Kept
    <2>4. Keeps(changes)
      BY <1>6, <2>2, <2>3 DEF Keeps
    <2>5. /\ doc.rev + Len(changes) <= MaxRev /\ doc' = AllOrdered(doc, changes)
          /\ journal' \in Recorded(NewRecords(doc')) /\ pc' = "appended"
      BY <1>6 DEF changes
    <2> QED BY <1>3, <2>1, <2>4, <2>5, GrowEditStep
  <1> QED BY <1>2, <1>5, <1>6

LEMMA EditInvStep ==
  ASSUME Steady, Short, JournalInv, SameInv, EditInv, [Next]_vars
  PROVE  EditInv'
  <1>1. CASE \/ OpenFails \/ TakeNothing \/ SaveDue \/ Flush \/ Finish \/ Save \/ WriteFails
             \/ SaveDone \/ Hear \/ LookGone \/ UNCHANGED vars
    BY <1>1, QuietEditSteps
  <1>2. CASE OutsideRead \/ OutsideRemove \/ (\E e \in Outside : OutsideWrite(e)) \/ OpenRead
    BY <1>2, OtherEditSteps
  <1>3. CASE Rename \/ Written \/ SealRemove \/ SealStart
    BY <1>3, SavingEditSteps
  <1>4. CASE Closed \/ Crash
    BY <1>4, EndEditSteps
  <1>5. CASE OpenStamp
    BY <1>5, OpenEditStep
  <1>6. CASE Look
    BY <1>6, LookEditStep
  <1>7. CASE \E edits \in SeqOf(Edit, MaxBatch) :
               edits # <<>> /\ IsInjective(edits) /\ Take(edits)
    BY <1>7, TakeEditStep
  <1> QED BY <1>1, <1>2, <1>3, <1>4, <1>5, <1>6, <1>7 DEF Next, Task, Other, Finished

\* The saved state that nearest_changes takes: none is nearer to the new file.
LEMMA NearestStart ==
  ASSUME NEW N \in Nat, N # 0, NEW distance \in [1 .. N -> Nat]
  PROVE  \E i \in 1 .. N : \A j \in 1 .. N :
           distance[i] < distance[j] \/ (distance[i] = distance[j] /\ i <= j)
  <1> DEFINE D == {distance[i] : i \in 1 .. N}
  <1>1. PICK m \in D : \A x \in D : ~(<<x, m>> \in OpToRel(<, Nat))
    <2>1. D \subseteq Nat /\ D # {}
      <3>1. distance[1] \in D /\ 1 \in 1 .. N
        OBVIOUS
      <3> QED BY <3>1
    <2> HIDE DEF D
    <2> QED BY <2>1, NatLessThanWellFounded, WFMin
  <1>2. m \in Nat /\ \A i \in 1 .. N : distance[i] >= m
    <2>1. m \in Nat
      OBVIOUS
    <2>2. ASSUME NEW i \in 1 .. N, distance[i] < m PROVE FALSE
      <3>1. distance[i] \in D /\ distance[i] \in Nat
        OBVIOUS
      <3>2. <<distance[i], m>> \in OpToRel(<, Nat)
        BY <2>1, <2>2, <3>1 DEF OpToRel
      <3> QED BY <1>1, <3>1, <3>2
    <2> QED BY <2>1, <2>2
  <1> DEFINE Z == {i \in 1 .. N : distance[i] = m}
  <1>3. PICK i \in Z : \A x \in Z : ~(<<x, i>> \in OpToRel(<, Nat))
    <2>1. Z \subseteq Nat /\ Z # {}
      OBVIOUS
    <2> HIDE DEF Z
    <2> QED BY <2>1, NatLessThanWellFounded, WFMin
  <1>4. i \in 1 .. N /\ distance[i] = m
    OBVIOUS
  <1>5. ASSUME NEW j \in 1 .. N, distance[j] = m PROVE i <= j
    <2>1. j \in Z /\ ~(<<j, i>> \in OpToRel(<, Nat))
      BY <1>3, <1>5
    <2>2. i \in Nat /\ j \in Nat
      BY <1>4
    <2> QED BY <2>1, <2>2 DEF OpToRel
  <1>6. \A j \in 1 .. N : distance[i] < distance[j] \/ (distance[i] = distance[j] /\ i <= j)
    <2> SUFFICES ASSUME NEW j \in 1 .. N
                 PROVE  distance[i] < distance[j] \/ (distance[i] = distance[j] /\ i <= j)
      OBVIOUS
    <2>1. distance[j] \in Nat /\ distance[j] >= m
      BY <1>2
    <2> QED BY <1>2, <1>4, <1>5, <2>1
  <1> QED BY <1>4, <1>6

\* The file new is the i-th saved state and an edit of another program that is new to d.
Late(d, i, e, new) ==
  /\ new = StateAt(d, d.states[i]) \cup {e}
  /\ ~(Outside \cap new \subseteq Ours(d.original, d.log))

(***************************************************************************)
(* A write that added one edit to a saved state is the one change of its   *)
(* merge, whichever saved state is taken: no other is as near, unless it   *)
(* differs by that edit alone.                                             *)
(***************************************************************************)
LEMMA NearestToLate ==
  ASSUME NEW d \in DocType, NeverRemoved(d.log), NEW i \in DOMAIN d.states,
         NEW e \in Outside, NEW new \in Content, Late(d, i, e, new)
  PROVE  /\ Len(Nearest(d, new)) >= 1
         /\ \A j \in 1 .. Len(Nearest(d, new)) :
              Nearest(d, new)[j].op = "add" /\ Nearest(d, new)[j].edit = e
  <1> DEFINE N == Len(d.states)
             distance(k) == Cardinality(Compare(StateAt(d, d.states[k]), new))
             start == CHOOSE k \in DOMAIN d.states : \A j \in DOMAIN d.states :
                        distance(k) < distance(j) \/ (distance(k) = distance(j) /\ k <= j)
             old == StateAt(d, d.states[start])
             changes == SetToSeq(Compare(old, new))
             added == [op |-> "add", edit |-> e]
             near == [k \in 1 .. N |-> distance(k)]
  <1>1. Nearest(d, new) = changes
    BY DEF Nearest
  <1> USE DEF Late
  <1>2. DOMAIN d.states = 1 .. N /\ N \in Nat /\ N # 0 /\ i \in 1 .. N
    BY DEF DocType
  <1>3. \A r : StateAt(d, r) \in Content /\ Outside \cap StateAt(d, r) \subseteq Ours(d.original, d.log)
    BY StateType, StateOurs
  <1>4. e \notin Ours(d.original, d.log)
    BY <1>3
  <1>5. \A r : e \notin StateAt(d, r)
    BY <1>3, <1>4
  <1>6. ASSUME NEW r PROVE /\ IsFiniteSet(Compare(StateAt(d, r), new))
                           /\ Cardinality(Compare(StateAt(d, r), new)) \in Nat
                           /\ added \in Compare(StateAt(d, r), new)
    <2> DEFINE state == StateAt(d, r) C == Compare(state, new)
    <2>1. state \in Content
      BY <1>3
    <2>2. added \in C
      BY <1>5 DEF Compare
    <2> HIDE DEF state
    <2>3. IsFiniteSet(C)
      BY <2>1, ComparedFinite
    <2> HIDE DEF C
    <2> QED BY <2>2, <2>3, FS_CardinalityType DEF C, state
  <1>7. distance(i) = 1
    <2> DEFINE state == StateAt(d, d.states[i])
    <2>1. state \subseteq new /\ new \ state = {e}
      BY <1>5
    <2>2. Compare(state, new) = {added}
      <3> HIDE DEF state
      <3>1. state \ new = {}
        BY <2>1
      <3> QED BY <2>1, <3>1 DEF Compare
    <2> QED BY <2>2, FS_Singleton
  <1>8. near \in [1 .. N -> Nat]
    BY <1>6
  <1>9. start \in 1 .. N /\ distance(start) <= 1
    <2>1. PICK k \in 1 .. N : \A j \in 1 .. N :
            near[k] < near[j] \/ (near[k] = near[j] /\ k <= j)
      <3> HIDE DEF near, N
      <3> QED BY <1>2, <1>8, NearestStart
    <2>2. \A j \in 1 .. N : near[j] = distance(j)
      OBVIOUS
    <2> HIDE DEF near
    <2>3. \A j \in DOMAIN d.states :
            distance(k) < distance(j) \/ (distance(k) = distance(j) /\ k <= j)
      <3> HIDE DEF distance
      <3> QED BY <1>2, <2>1, <2>2
    <2> HIDE DEF distance
    <2>4. /\ start \in DOMAIN d.states
          /\ \A j \in DOMAIN d.states :
               distance(start) < distance(j) \/ (distance(start) = distance(j) /\ start <= j)
      BY <1>2, <2>3
    <2> HIDE DEF start
    <2>5. start \in 1 .. N /\ (distance(start) < distance(i) \/ distance(start) = distance(i))
      BY <1>2, <2>4
    <2>6. distance(start) \in Nat
      BY <1>8, <2>2, <2>5
    <2> QED BY <1>7, <2>5, <2>6
  <1> HIDE DEF start
  <1>10. Compare(old, new) = {added}
    <2>1. /\ IsFiniteSet(Compare(old, new)) /\ Cardinality(Compare(old, new)) \in Nat
          /\ added \in Compare(old, new)
      BY <1>6
    <2>2. Cardinality(Compare(old, new)) <= 1
      BY <1>9
    <2> DEFINE C == Compare(old, new)
    <2> HIDE DEF C
    <2>3. Cardinality(C) = 1
      <3>1. Cardinality(C) # 0
        BY <2>1, FS_EmptySet DEF C
      <3> QED BY <2>1, <2>2, <3>1 DEF C
    <2>4. \E x : C = {x}
      BY <2>1, <2>3, FS_Singleton DEF C
    <2> QED BY <2>1, <2>4 DEF C
  <1>11. new \ old = {e} /\ old \ new = {}
    <2>1. ASSUME NEW x \in new \ old PROVE x = e
      <3>1. [op |-> "add", edit |-> x] \in Compare(old, new)
        BY DEF Compare
      <3> QED BY <1>10, <3>1
    <2>2. ASSUME NEW x \in old \ new PROVE FALSE
      <3>1. [op |-> "remove", edit |-> x] \in Compare(old, new)
        BY DEF Compare
      <3>2. [op |-> "remove", edit |-> x].op = "remove" /\ added.op = "add"
        OBVIOUS
      <3> QED BY <1>10, <3>1, <3>2
    <2>3. e \in new /\ e \notin old
      BY <1>5
    <2> QED BY <2>1, <2>2, <2>3
  <1>12. old \in Content
    BY <1>3
  <1> HIDE DEF old
  <1>13. /\ \A j \in 1 .. Len(changes) :
                 \/ changes[j].op = "add" /\ changes[j].edit \in new \ old
                 \/ changes[j].op = "remove" /\ changes[j].edit \in old \ new
         /\ new \ old # {} => Len(changes) >= 1
    BY <1>12, ComparedSeq
  <1> HIDE DEF changes
  <1> QED BY <1>1, <1>11, <1>13

LEMMA LateStep ==
  ASSUME JournalInv, SameInv, FileInv, EditInv, [Next]_vars,
         pc = "idle", touched, ~noticed, noticed',
         NEW new \in file, NEW old \in from, new # cache, HasStates(doc),
         NEW i \in DOMAIN doc.states, old = StateAt(doc, doc.states[i])
  PROVE  doc.model \cup new \subseteq doc'.model
  <1>1. /\ doc \in DocType /\ doc.model \in Content /\ doc.original \in Content
        /\ doc.log \in Seq(Change) /\ doc.model = Replay(doc.original, doc.log)
        /\ \A f \in file : file = {f} /\ f \in Content
        /\ Kept /\ Based
    BY EditFacts
  <1>2. Known /\ Fresh
    BY FileFacts
  <1>3. Look
    <2>1. CASE Task
      BY <2>1 DEF Task, OpenRead, OpenStamp, OpenFails, Hear, TakeNothing, SaveDue, Flush,
                  Finish, Save, Rename, WriteFails, Written, SaveDone, SealRemove, SealStart,
                  Closed, LookGone, Take
    <2>2. CASE Crash \/ Other \/ Finished \/ UNCHANGED vars
      BY <2>2 DEF Crash, Other, Finished, OutsideRead, OutsideRemove, OutsideWrite, vars
    <2> QED BY <2>1, <2>2 DEF Next
  <1>4. new \in Content /\ file = {new}
    BY <1>1
  <1>5. doc' = AllOrdered(doc, Nearest(doc, new))
    BY <1>3, <1>4 DEF Look
  <1> DEFINE changes == Nearest(doc, new)
  <1>6. PICK e \in Outside : new = old \cup {e}
    BY <1>1 DEF Based
  <1>7. NeverRemoved(doc.log) /\ ~(Outside \cap new \subseteq Ours(doc.original, doc.log))
    BY <1>2 DEF Known, Fresh, Open, DocOurs
  <1>8. /\ Len(changes) >= 1
        /\ \A j \in 1 .. Len(changes) : changes[j].op = "add" /\ changes[j].edit = e
    <2>1. new = StateAt(doc, doc.states[i]) \cup {e}
      BY <1>6
    <2>2. Late(doc, i, e, new)
      BY <1>7, <2>1 DEF Late
    <2> QED BY <1>1, <1>4, <1>7, <2>2, NearestToLate
  <1>9. changes \in Seq(Move)
    BY <1>1, <1>4, NearestMoves
  <1>10. doc'.model = Replay(doc.model, changes)
    BY <1>1, <1>5 DEF AllOrdered, DocType
  <1> HIDE DEF changes
  <1>11. Applicable(changes) /\ Len(changes) \in Nat
    <2>1. \A j \in 1 .. Len(changes) : changes[j] \in Move
      BY <1>9
    <2> QED BY <1>9, <2>1 DEF Applicable, Move
  <1>12. doc.model \cup {changes[j].edit : j \in 1 .. Len(changes)} \subseteq doc'.model
    <2>1. \A j \in 1 .. Len(changes) : changes[j].op = "add"
      BY <1>8
    <2> QED BY <1>1, <1>10, <1>11, <2>1, ReplayAdds
  <1>13. e \in doc'.model
    <2>1. 1 \in 1 .. Len(changes)
      BY <1>8, <1>11
    <2> QED BY <1>8, <1>12, <2>1
  <1>14. old \subseteq doc.model
    <2>1. Edit \cap old \subseteq doc.model
      <3>1. new \in file \cup base /\ Open
        BY DEF Open
      <3>2. Edit \cap new \subseteq doc.model
        BY <1>1, <3>1 DEF Kept
      <3> QED BY <1>6, <3>2
    <2>2. Outside \cap old \subseteq Ours(doc.original, doc.log)
      BY <1>1, <1>7, StateOurs
    <2>3. Ours(doc.original, doc.log) \subseteq doc.model
      BY <1>1, <1>7, ReplayOurs
    <2>4. old \subseteq Edit \cup Outside
      BY <1>4, <1>6 DEF Content
    <2> QED BY <2>1, <2>2, <2>3, <2>4
  <1> QED BY <1>6, <1>12, <1>13, <1>14

(***************************************************************************)
(* A late write of another program keeps the edits made while it worked,   *)
(* and its own: whenever what it started from is a saved state that the    *)
(* document still knows, the merge adds what it wrote and takes nothing.   *)
(***************************************************************************)
THEOREM LateWriteMergesAlways ==
  ASSUME Steady, Short
  PROVE  Spec => LateWriteMerges
  <1>1. Init => SameInv /\ FileInv /\ EditInv
    <2> SUFFICES ASSUME Init PROVE SameInv /\ FileInv /\ EditInv
      OBVIOUS
    <2> QED BY NoDocumentSame, FileInvInit, EditInvInit DEF Init, SameInv
  <1>2. JournalInv /\ SameInv /\ FileInv /\ EditInv /\ [Next]_vars
          => SameInv' /\ FileInv' /\ EditInv'
    BY SameInvStep, FileInvStep, EditInvStep
  <1>3. JournalInv /\ SameInv /\ FileInv /\ EditInv /\ [Next]_vars
          => [pc = "idle" /\ touched /\ ~noticed /\ noticed' =>
                \A new \in file, old \in from :
                  /\ new # cache /\ HasStates(doc)
                  /\ \E i \in DOMAIN doc.states : old = StateAt(doc, doc.states[i])
                  => doc.model \cup new \subseteq doc'.model]_vars
    BY LateStep
  <1> QED BY <1>1, <1>2, <1>3, JournalInvAlways, PTL DEF Spec, LateWriteMerges

=============================================================================
