------------------------- MODULE RemoteStreamProofs -------------------------
(***************************************************************************)
(* Proofs about RemoteStream, for any sizes, bounds and loads: what the    *)
(* views of another computer show is what the terminal showed, without an  *)
(* error of order, and the last screen gets there.                         *)
(*                                                                         *)
(* The argument follows a place in the output: how many frames were shown, *)
(* and at which size.  Each frame on its way takes the view from one place *)
(* to the next, and what waits in the Stream goes on where the wire ends.  *)
(* The frames that the terminal published lead to where it is now, and the *)
(* Stream stands somewhere on their way, unless it fell behind.            *)
(***************************************************************************)
EXTENDS RemoteStream, Integers, FiniteSetTheorems, TLAPS

IsSeq(s) == \E S : s \in Seq(S)

-----------------------------------------------------------------------------
(* Sequences of anything *)

\* The sequence w is t after s.
Joins(w, s, t) ==
  /\ Len(w) = Len(s) + Len(t)
  /\ \A i \in 1 .. Len(s) : w[i] = s[i]
  /\ \A i \in 1 .. Len(t) : w[Len(s) + i] = t[i]

\* The sequence w is what is left of s without its first d elements.
Leaves(w, s, d) ==
  /\ Len(w) = Len(s) - d
  /\ \A i \in 1 .. Len(w) : w[i] = s[i + d]

\* Induction up to a bound, over the set of numbers of which something holds.
LEMMA UpTo ==
  ASSUME NEW N \in Nat, NEW W, 0 \in W, \A n \in 0 .. N - 1 : n \in W => n + 1 \in W
  PROVE  0 .. N \subseteq W
  <1> SUFFICES ASSUME (0 .. N) \ W # {} PROVE FALSE
    OBVIOUS
  <1> DEFINE Z == (0 .. N) \ W
  <1>1. PICK n \in Z : \A m \in Z : ~(<<m, n>> \in OpToRel(<, Nat))
    <2>1. Z \subseteq Nat /\ Z # {}
      OBVIOUS
    <2> HIDE DEF Z
    <2> QED BY <2>1, NatLessThanWellFounded, WFMin
  <1>2. n \in 0 .. N /\ n \notin W /\ n # 0
    OBVIOUS
  <1>3. n - 1 \in 0 .. N - 1 /\ n - 1 \in Nat /\ n \in Nat /\ n - 1 < n /\ (n - 1) + 1 = n
    BY <1>2
  <1>4. n - 1 \notin Z
    BY <1>1, <1>3 DEF OpToRel
  <1>5. n - 1 \in W
    BY <1>3, <1>4
  <1> QED BY <1>2, <1>3, <1>5

LEMMA NoSeq == IsSeq(<<>>) /\ Len(<<>>) = 0
  BY DEF IsSeq

LEMMA OneSeq ==
  ASSUME NEW e
  PROVE  IsSeq(<<e>>) /\ Len(<<e>>) = 1 /\ <<e>>[1] = e
  <1>1. <<e>> \in Seq({e})
    OBVIOUS
  <1> QED BY <1>1 DEF IsSeq

LEMMA LenNat ==
  ASSUME NEW s, IsSeq(s)
  PROVE  Len(s) \in Nat /\ DOMAIN s = 1 .. Len(s) /\ (s = <<>> <=> Len(s) = 0)
  BY DEF IsSeq

LEMMA JoinSeq ==
  ASSUME NEW s, IsSeq(s), NEW t, IsSeq(t)
  PROVE  IsSeq(s \o t) /\ Joins(s \o t, s, t)
  <1>1. PICK S : s \in Seq(S)
    BY DEF IsSeq
  <1>2. PICK T : t \in Seq(T)
    BY DEF IsSeq
  <1> DEFINE X == S \cup T
  <1>3. s \in Seq(X) /\ t \in Seq(X)
    BY <1>1, <1>2
  <1> HIDE DEF X
  <1>4. s \o t \in Seq(X)
    BY <1>3
  <1>5. Joins(s \o t, s, t)
    BY <1>3 DEF Joins
  <1> QED BY <1>4, <1>5 DEF IsSeq

LEMMA AppendSeq ==
  ASSUME NEW s, IsSeq(s), NEW e
  PROVE  /\ IsSeq(Append(s, e)) /\ Joins(Append(s, e), s, <<e>>)
         /\ Len(Append(s, e)) = Len(s) + 1 /\ Append(s, e)[Len(s) + 1] = e
         /\ \A i \in 1 .. Len(s) : Append(s, e)[i] = s[i]
  <1>1. PICK S : s \in Seq(S)
    BY DEF IsSeq
  <1> DEFINE X == S \cup {e}
  <1>2. s \in Seq(X) /\ e \in X
    BY <1>1
  <1> HIDE DEF X
  <1>3. Append(s, e) \in Seq(X)
    BY <1>2
  <1>4. Len(Append(s, e)) = Len(s) + 1 /\ Append(s, e)[Len(s) + 1] = e /\ Len(s) \in Nat
    BY <1>2
  <1>5. \A i \in 1 .. Len(s) : Append(s, e)[i] = s[i]
    BY <1>2
  <1>6. Len(<<e>>) = 1 /\ <<e>>[1] = e
    BY OneSeq
  <1>7. Joins(Append(s, e), s, <<e>>)
    <2>1. \A i \in 1 .. Len(<<e>>) : Append(s, e)[Len(s) + i] = <<e>>[i]
      BY <1>4, <1>6
    <2> QED BY <1>4, <1>5, <1>6, <2>1 DEF Joins
  <1> QED BY <1>3, <1>4, <1>5, <1>7 DEF IsSeq

LEMMA PartSeq ==
  ASSUME NEW s, IsSeq(s), NEW d \in Nat, d <= Len(s)
  PROVE  IsSeq(SubSeq(s, d + 1, Len(s))) /\ Leaves(SubSeq(s, d + 1, Len(s)), s, d)
  <1>1. PICK S : s \in Seq(S)
    BY DEF IsSeq
  <1>2. SubSeq(s, d + 1, Len(s)) \in Seq(S)
    BY <1>1
  <1>3. Len(SubSeq(s, d + 1, Len(s))) = Len(s) - d /\ Len(s) \in Nat
    BY <1>1
  <1>4. \A i \in 1 .. Len(s) - d : SubSeq(s, d + 1, Len(s))[i] = s[i + d]
    BY <1>1
  <1> QED BY <1>2, <1>3, <1>4 DEF IsSeq, Leaves

LEMMA TailSeq ==
  ASSUME NEW s, IsSeq(s), s # <<>>
  PROVE  /\ IsSeq(Tail(s)) /\ Leaves(Tail(s), s, 1) /\ Len(s) \in Nat /\ Len(s) >= 1
         /\ Head(s) = s[1] /\ Len(Tail(s)) = Len(s) - 1
         /\ \A i \in 1 .. Len(s) - 1 : Tail(s)[i] = s[i + 1]
  <1>1. PICK S : s \in Seq(S)
    BY DEF IsSeq
  <1>2. Tail(s) \in Seq(S) /\ Len(Tail(s)) = Len(s) - 1 /\ Head(s) = s[1] /\ Len(s) \in Nat
        /\ Len(s) >= 1
    BY <1>1
  <1>3. \A i \in 1 .. Len(s) - 1 : Tail(s)[i] = s[i + 1]
    BY <1>1
  <1> QED BY <1>2, <1>3 DEF IsSeq, Leaves

-----------------------------------------------------------------------------
(* The way of a view through the frames.  A place is the number of frames  *)
(* of output shown and the size; -1 stands for a view that waits for a     *)
(* snapshot.  T is the size at which the terminal drew each frame.         *)

\* One screen of the terminal, as a snapshot keeps it.
OneCut(v) ==
  \E c : /\ v = <<c>> /\ DOMAIN c = {"content", "size", "exact"}
         /\ c.content \in Seq(Sizes) /\ c.size \in Sizes

\* The snapshot v is that of the place <<n, x>>.
CutAt(v, n, x, T) ==
  /\ OneCut(v) /\ n \in Nat /\ n <= Len(T)
  /\ v[1].size = x /\ Len(v[1].content) = n
  /\ \A i \in 1 .. n : v[1].content[i] = T[i]

\* Frame m takes a view from the place <<n, x>> to <<k, y>>.
Step(m, n, x, k, y, T) ==
  \/ /\ m.what = "raw" /\ m.at = n /\ n \in Nat /\ n < Len(T) /\ T[n + 1] = x
     /\ k = n + 1 /\ y = x
  \/ m.what = "resize" /\ m.at = n /\ n \in Nat /\ m.size = y /\ k = n
  \/ m.what \in {"barrier", "closed", "end"} /\ k = n /\ y = x
  \/ m.what = "resync" /\ k = -1
  \/ m.what = "checkpoint" /\ n = -1 /\ m.at = k /\ CutAt(m.cut, k, y, T)
  \/ m.what = "keyframe" /\ m.more /\ k = n /\ y = x
  \/ m.what = "keyframe" /\ ~m.more /\ m.at = k /\ CutAt(m.cut, k, y, T)
  \/ /\ m.what = "output" /\ m.at = n /\ n \in Nat /\ m.chunks \in Nat /\ m.chunks # 0
     /\ k = n + m.chunks /\ k <= Len(T) /\ y = x
     /\ \A i \in n + 1 .. k : T[i] = x

\* The places that a view goes through.
Walk(q, N, Z, T) ==
  /\ N \in [0 .. Len(q) -> Int] /\ Z \in [0 .. Len(q) -> Sizes]
  /\ \A i \in 1 .. Len(q) : Step(q[i], N[i - 1], Z[i - 1], N[i], Z[i], T)

\* Two functions are one after the other.
Continues(F, A, B, n, k) ==
  /\ \A i \in 0 .. n : F[i] = A[i]
  /\ \A i \in 0 .. k : F[n + i] = B[i]

Continued(w, s, t, N, Z, M, Y, T) ==
  \E P, Q : /\ Walk(w, P, Q, T)
            /\ Continues(P, N, M, Len(s), Len(t)) /\ Continues(Q, Z, Y, Len(s), Len(t))

LEMMA FunctionJoins ==
  ASSUME NEW V, NEW n \in Nat, NEW k \in Nat, NEW A \in [0 .. n -> V], NEW B \in [0 .. k -> V],
         A[n] = B[0]
  PROVE  \E F \in [0 .. n + k -> V] : Continues(F, A, B, n, k)
  <1> DEFINE F == [i \in 0 .. n + k |-> IF i <= n THEN A[i] ELSE B[i - n]]
  <1>1. \A i \in 0 .. n : i \in 0 .. n + k /\ F[i] = A[i]
    OBVIOUS
  <1>2. \A i \in 0 .. k : F[n + i] = B[i]
    <2> SUFFICES ASSUME NEW i \in 0 .. k PROVE F[n + i] = B[i]
      OBVIOUS
    <2>1. n + i \in 0 .. n + k /\ (n + i) - n = i
      OBVIOUS
    <2>2. CASE i = 0
      BY <1>1, <2>1, <2>2
    <2>3. CASE i # 0
      <3>1. ~(n + i <= n)
        BY <2>3
      <3> QED BY <2>1, <3>1
    <2> QED BY <2>2, <2>3
  <1>3. ASSUME NEW i \in 0 .. n + k PROVE F[i] \in V
    <2>1. CASE i <= n
      <3>1. i \in 0 .. n
        BY <2>1
      <3> QED BY <1>1, <3>1
    <2>2. CASE ~(i <= n)
      <3>1. i - n \in 0 .. k /\ n + (i - n) = i
        BY <2>2
      <3> QED BY <1>2, <3>1
    <2> QED BY <2>1, <2>2
  <1>4. F \in [0 .. n + k -> V]
    BY <1>3
  <1> HIDE DEF F
  <1> QED BY <1>1, <1>2, <1>4 DEF Continues

\* A walk through one frame after another.
LEMMA WalkJoins ==
  ASSUME NEW w, NEW s, NEW t, NEW T, NEW N, NEW Z, NEW M, NEW Y,
         Len(s) \in Nat, Len(t) \in Nat, Joins(w, s, t),
         Walk(s, N, Z, T), Walk(t, M, Y, T), N[Len(s)] = M[0], Z[Len(s)] = Y[0]
  PROVE  Continued(w, s, t, N, Z, M, Y, T)
  <1> DEFINE n == Len(s) k == Len(t)
  <1>1. /\ N \in [0 .. n -> Int] /\ M \in [0 .. k -> Int]
        /\ Z \in [0 .. n -> Sizes] /\ Y \in [0 .. k -> Sizes] /\ n \in Nat /\ k \in Nat
    BY DEF Walk
  <1>2. PICK P \in [0 .. n + k -> Int] : Continues(P, N, M, n, k)
    BY <1>1, FunctionJoins
  <1>3. PICK Q \in [0 .. n + k -> Sizes] : Continues(Q, Z, Y, n, k)
    BY <1>1, FunctionJoins
  <1>4. Len(w) = n + k /\ \A i \in 1 .. n : w[i] = s[i]
    BY DEF Joins
  <1>5. \A i \in 1 .. k : w[n + i] = t[i]
    BY DEF Joins
  <1>6. ASSUME NEW i \in 1 .. n + k PROVE Step(w[i], P[i - 1], Q[i - 1], P[i], Q[i], T)
    <2>1. CASE i <= n
      <3>1. i \in 1 .. n /\ i \in 0 .. n /\ i - 1 \in 0 .. n
        BY <1>1, <2>1
      <3>2. P[i] = N[i] /\ P[i - 1] = N[i - 1] /\ Q[i] = Z[i] /\ Q[i - 1] = Z[i - 1]
        BY <1>2, <1>3, <3>1 DEF Continues
      <3> QED BY <1>4, <3>1, <3>2 DEF Walk
    <2>2. CASE ~(i <= n)
      <3> DEFINE j == i - n
      <3>1. j \in 1 .. k /\ j \in 0 .. k /\ j - 1 \in 0 .. k /\ n + j = i /\ n + (j - 1) = i - 1
        BY <1>1, <2>2
      <3> HIDE DEF j
      <3>2. P[n + j] = M[j] /\ P[n + (j - 1)] = M[j - 1] /\ Q[n + j] = Y[j] /\ Q[n + (j - 1)] = Y[j - 1]
        BY <1>2, <1>3, <3>1 DEF Continues
      <3>3. Step(t[j], M[j - 1], Y[j - 1], M[j], Y[j], T)
        BY <3>1 DEF Walk
      <3>4. w[n + j] = t[j]
        BY <1>5, <3>1
      <3> QED BY <3>1, <3>2, <3>3, <3>4
    <2> QED BY <2>1, <2>2
  <1>7. Walk(w, P, Q, T)
    BY <1>4, <1>6 DEF Walk
  <1> QED BY <1>2, <1>3, <1>7 DEF Continued

\* What comes of a walk after d frames, with k still to come.
From(F, d, k) == [i \in 0 .. k |-> F[i + d]]

\* A walk through what is left.
LEMMA WalkLeaves ==
  ASSUME NEW q, NEW w, NEW T, NEW N, NEW Z, NEW d \in Nat, Len(q) \in Nat, d <= Len(q),
         Leaves(w, q, d), Walk(q, N, Z, T)
  PROVE  Walk(w, From(N, d, Len(w)), From(Z, d, Len(w)), T)
  <1> DEFINE k == Len(w) M == From(N, d, k) Y == From(Z, d, k)
  <1>1. k = Len(q) - d /\ k \in Nat /\ \A i \in 1 .. k : w[i] = q[i + d]
    BY DEF Leaves
  <1>2. \A i \in 0 .. k : i + d \in 0 .. Len(q)
    BY <1>1
  <1>3. N \in [0 .. Len(q) -> Int] /\ Z \in [0 .. Len(q) -> Sizes]
    BY DEF Walk
  <1>4. M \in [0 .. k -> Int] /\ Y \in [0 .. k -> Sizes]
    BY <1>2, <1>3 DEF From
  <1>5. ASSUME NEW i \in 1 .. k PROVE Step(w[i], M[i - 1], Y[i - 1], M[i], Y[i], T)
    <2>1. i + d \in 1 .. Len(q) /\ i \in 0 .. k /\ i - 1 \in 0 .. k /\ (i - 1) + d = (i + d) - 1
      BY <1>1
    <2>2. Step(q[i + d], N[(i + d) - 1], Z[(i + d) - 1], N[i + d], Z[i + d], T)
      BY <2>1 DEF Walk
    <2>3. M[i] = N[i + d] /\ M[i - 1] = N[(i + d) - 1] /\ Y[i] = Z[i + d] /\ Y[i - 1] = Z[(i + d) - 1]
      BY <2>1 DEF From
    <2> QED BY <1>1, <2>2, <2>3
  <1> HIDE DEF M, Y
  <1>6. Walk(w, M, Y, T)
    BY <1>4, <1>5 DEF Walk
  <1> QED BY <1>6 DEF M, Y

\* The terminal goes on.
Grows(T, U) == Len(T) \in Nat /\ Len(U) \in Nat /\ Len(T) <= Len(U) /\ \A i \in 1 .. Len(T) : U[i] = T[i]

LEMMA CutGrows ==
  ASSUME NEW v, NEW n, NEW x, NEW T, NEW U, Grows(T, U), CutAt(v, n, x, T)
  PROVE  CutAt(v, n, x, U)
  BY DEF Grows, CutAt

LEMMA StepGrows ==
  ASSUME NEW m, NEW n, NEW x, NEW k, NEW y, NEW T, NEW U, Grows(T, U), Step(m, n, x, k, y, T)
  PROVE  Step(m, n, x, k, y, U)
  <1>1. CASE m.what = "raw"
    <2>1. n \in Nat /\ n < Len(T) /\ m.at = n /\ T[n + 1] = x /\ k = n + 1 /\ y = x
      BY <1>1 DEF Step
    <2>2. n < Len(U) /\ U[n + 1] = x
      BY <2>1 DEF Grows
    <2> QED BY <1>1, <2>1, <2>2 DEF Step
  <1>2. CASE m.what = "output"
    <2>1. /\ m.at = n /\ n \in Nat /\ m.chunks \in Nat /\ m.chunks # 0
          /\ k = n + m.chunks /\ k <= Len(T) /\ y = x /\ \A i \in n + 1 .. k : T[i] = x
      BY <1>2 DEF Step
    <2>2. k <= Len(U) /\ \A i \in n + 1 .. k : U[i] = x
      BY <2>1 DEF Grows
    <2> QED BY <1>2, <2>1, <2>2 DEF Step
  <1>3. CASE m.what = "checkpoint"
    BY <1>3, CutGrows DEF Step
  <1>4. CASE m.what = "keyframe"
    BY <1>4, CutGrows DEF Step
  <1>5. CASE m.what \notin {"raw", "output", "checkpoint", "keyframe"}
    BY <1>5 DEF Step
  <1> QED BY <1>1, <1>2, <1>3, <1>4, <1>5

LEMMA WalkGrows ==
  ASSUME NEW q, NEW N, NEW Z, NEW T, NEW U, Grows(T, U), Walk(q, N, Z, T)
  PROVE  Walk(q, N, Z, U)
  <1>1. \A i \in 1 .. Len(q) : Step(q[i], N[i - 1], Z[i - 1], N[i], Z[i], U)
    BY StepGrows DEF Walk
  <1> QED BY <1>1 DEF Walk

LEMMA WalkNothing ==
  ASSUME NEW n \in Int, NEW x \in Sizes, NEW T
  PROVE  Walk(<<>>, [i \in 0 .. 0 |-> n], [i \in 0 .. 0 |-> x], T)
  <1>1. Len(<<>>) = 0
    OBVIOUS
  <1> QED BY <1>1 DEF Walk

LEMMA WalkOne ==
  ASSUME NEW m, NEW n \in Int, NEW x \in Sizes, NEW k \in Int, NEW y \in Sizes, NEW T,
         Step(m, n, x, k, y, T)
  PROVE  Walk(<<m>>, [i \in 0 .. 1 |-> IF i = 0 THEN n ELSE k],
              [i \in 0 .. 1 |-> IF i = 0 THEN x ELSE y], T)
  <1> DEFINE N == [i \in 0 .. 1 |-> IF i = 0 THEN n ELSE k]
             Z == [i \in 0 .. 1 |-> IF i = 0 THEN x ELSE y]
  <1>1. /\ N \in [0 .. 1 -> Int] /\ Z \in [0 .. 1 -> Sizes]
        /\ N[0] = n /\ N[1] = k /\ Z[0] = x /\ Z[1] = y
    OBVIOUS
  <1>2. Len(<<m>>) = 1 /\ <<m>>[1] = m
    BY OneSeq
  <1> HIDE DEF N, Z
  <1>3. \A i \in 1 .. 1 : Step(<<m>>[i], N[i - 1], Z[i - 1], N[i], Z[i], T)
    <2>1. \A i \in 1 .. 1 : i = 1 /\ i - 1 = 0
      OBVIOUS
    <2> QED BY <1>1, <1>2, <2>1
  <1>4. Walk(<<m>>, N, Z, T)
    BY <1>1, <1>2, <1>3 DEF Walk
  <1> QED BY <1>4 DEF N, Z

\* The frames q take a view from the place <<n, x>> to <<k, y>>.
Path(q, n, x, k, y, T) ==
  \E N, Z : /\ Walk(q, N, Z, T)
            /\ N[0] = n /\ Z[0] = x /\ N[Len(q)] = k /\ Z[Len(q)] = y

LEMMA PathTypes ==
  ASSUME NEW q, NEW n, NEW x, NEW k, NEW y, NEW T, Len(q) \in Nat, Path(q, n, x, k, y, T)
  PROVE  n \in Int /\ k \in Int /\ x \in Sizes /\ y \in Sizes
  <1>1. PICK N, Z : /\ Walk(q, N, Z, T)
                    /\ N[0] = n /\ Z[0] = x /\ N[Len(q)] = k /\ Z[Len(q)] = y
    BY DEF Path
  <1>2. 0 \in 0 .. Len(q) /\ Len(q) \in 0 .. Len(q)
    OBVIOUS
  <1> QED BY <1>1, <1>2 DEF Walk

LEMMA PathNothing ==
  ASSUME NEW n \in Int, NEW x \in Sizes, NEW T
  PROVE  Path(<<>>, n, x, n, x, T)
  <1> DEFINE N == [i \in 0 .. 0 |-> n] Z == [i \in 0 .. 0 |-> x]
  <1>1. Walk(<<>>, N, Z, T)
    BY WalkNothing
  <1>2. N[0] = n /\ Z[0] = x /\ Len(<<>>) = 0
    OBVIOUS
  <1> HIDE DEF N, Z
  <1> QED BY <1>1, <1>2 DEF Path

LEMMA PathStays ==
  ASSUME NEW n, NEW x, NEW k, NEW y, NEW T, Path(<<>>, n, x, k, y, T)
  PROVE  k = n /\ y = x
  <1>1. Len(<<>>) = 0
    OBVIOUS
  <1> QED BY <1>1 DEF Path

LEMMA PathOne ==
  ASSUME NEW m, NEW n \in Int, NEW x \in Sizes, NEW k \in Int, NEW y \in Sizes, NEW T,
         Step(m, n, x, k, y, T)
  PROVE  Path(<<m>>, n, x, k, y, T)
  <1> DEFINE N == [i \in 0 .. 1 |-> IF i = 0 THEN n ELSE k]
             Z == [i \in 0 .. 1 |-> IF i = 0 THEN x ELSE y]
  <1>1. Walk(<<m>>, N, Z, T)
    BY WalkOne
  <1>2. N[0] = n /\ Z[0] = x /\ N[1] = k /\ Z[1] = y /\ Len(<<m>>) = 1
    OBVIOUS
  <1> HIDE DEF N, Z
  <1> QED BY <1>1, <1>2 DEF Path

LEMMA PathJoins ==
  ASSUME NEW w, NEW s, NEW t, NEW T, Len(s) \in Nat, Len(t) \in Nat, Joins(w, s, t),
         NEW n, NEW x, NEW k, NEW y, NEW l, NEW z,
         Path(s, n, x, k, y, T), Path(t, k, y, l, z, T)
  PROVE  Path(w, n, x, l, z, T)
  <1>1. PICK N, Z : /\ Walk(s, N, Z, T)
                    /\ N[0] = n /\ Z[0] = x /\ N[Len(s)] = k /\ Z[Len(s)] = y
    BY DEF Path
  <1>2. PICK M, Y : /\ Walk(t, M, Y, T)
                    /\ M[0] = k /\ Y[0] = y /\ M[Len(t)] = l /\ Y[Len(t)] = z
    BY DEF Path
  <1>3. Continued(w, s, t, N, Z, M, Y, T)
    BY <1>1, <1>2, WalkJoins
  <1>4. PICK P, Q : /\ Walk(w, P, Q, T)
                    /\ Continues(P, N, M, Len(s), Len(t)) /\ Continues(Q, Z, Y, Len(s), Len(t))
    BY <1>3 DEF Continued
  <1>5. 0 \in 0 .. Len(s) /\ Len(t) \in 0 .. Len(t) /\ Len(w) = Len(s) + Len(t)
    BY DEF Joins
  <1>6. P[0] = n /\ Q[0] = x /\ P[Len(w)] = l /\ Q[Len(w)] = z
    BY <1>1, <1>2, <1>4, <1>5 DEF Continues
  <1> QED BY <1>4, <1>6 DEF Path

LEMMA PathAppend ==
  ASSUME NEW q, IsSeq(q), NEW m, NEW T, NEW n, NEW x, NEW k, NEW y, NEW l \in Int, NEW z \in Sizes,
         Path(q, n, x, k, y, T), Step(m, k, y, l, z, T)
  PROVE  Path(Append(q, m), n, x, l, z, T)
  <1>1. Len(q) \in Nat /\ Len(<<m>>) \in Nat /\ Joins(Append(q, m), q, <<m>>)
    BY LenNat, OneSeq, AppendSeq
  <1>2. k \in Int /\ y \in Sizes
    BY <1>1, PathTypes
  <1>3. Path(<<m>>, k, y, l, z, T)
    BY <1>2, PathOne
  <1> QED BY <1>1, <1>3, PathJoins

\* The way from the first frame on.
Goes(q, n, x, k, y, T) ==
  \E j \in Int, z \in Sizes : Step(q[1], n, x, j, z, T) /\ Path(Tail(q), j, z, k, y, T)

LEMMA PathHead ==
  ASSUME NEW q, IsSeq(q), q # <<>>, NEW T, NEW n, NEW x, NEW k, NEW y, Path(q, n, x, k, y, T)
  PROVE  Goes(q, n, x, k, y, T)
  <1>1. /\ Len(q) \in Nat /\ Len(q) >= 1 /\ Leaves(Tail(q), q, 1) /\ Len(Tail(q)) = Len(q) - 1
    BY TailSeq
  <1>2. PICK N, Z : /\ Walk(q, N, Z, T)
                    /\ N[0] = n /\ Z[0] = x /\ N[Len(q)] = k /\ Z[Len(q)] = y
    BY DEF Path
  <1> DEFINE M == From(N, 1, Len(Tail(q))) Y == From(Z, 1, Len(Tail(q)))
  <1>3. Walk(Tail(q), M, Y, T)
    BY <1>1, <1>2, WalkLeaves
  <1>4. M[0] = N[1] /\ Y[0] = Z[1] /\ M[Len(Tail(q))] = k /\ Y[Len(Tail(q))] = y
    <2>1. /\ 0 \in 0 .. Len(Tail(q)) /\ Len(Tail(q)) \in 0 .. Len(Tail(q))
          /\ 0 + 1 = 1 /\ Len(Tail(q)) + 1 = Len(q)
      BY <1>1
    <2> QED BY <1>2, <2>1 DEF From
  <1> HIDE DEF M, Y
  <1>5. Path(Tail(q), N[1], Z[1], k, y, T)
    BY <1>3, <1>4 DEF Path
  <1>6. Step(q[1], N[0], Z[0], N[1], Z[1], T) /\ N[1] \in Int /\ Z[1] \in Sizes
    <2>1. 1 \in 1 .. Len(q) /\ 1 \in 0 .. Len(q) /\ 1 - 1 = 0
      BY <1>1
    <2> QED BY <1>2, <2>1 DEF Walk
  <1> QED BY <1>2, <1>5, <1>6 DEF Goes

LEMMA PathGrows ==
  ASSUME NEW q, NEW T, NEW U, Grows(T, U), NEW n, NEW x, NEW k, NEW y, Path(q, n, x, k, y, T)
  PROVE  Path(q, n, x, k, y, U)
  BY WalkGrows DEF Path

\* The first d frames are outputs in a row.
Outputting(q, d, n, x, k, y, T) ==
  /\ n \in Nat /\ n + d <= Len(T) /\ \A i \in n + 1 .. n + d : T[i] = x
  /\ \A i \in 1 .. d : q[i].at = n + i - 1
  /\ Path(SubSeq(q, d + 1, Len(q)), n + d, x, k, y, T)

LEMMA PathOutputs ==
  ASSUME NEW q, IsSeq(q), NEW d \in 1 .. Len(q), \A i \in 1 .. d : q[i].what = "raw",
         NEW T, Len(T) \in Nat, NEW n, NEW x, NEW k, NEW y, Path(q, n, x, k, y, T)
  PROVE  Outputting(q, d, n, x, k, y, T)
  <1>1. Len(q) \in Nat
    BY LenNat
  <1>2. PICK N, Z : /\ Walk(q, N, Z, T)
                    /\ N[0] = n /\ Z[0] = x /\ N[Len(q)] = k /\ Z[Len(q)] = y
    BY DEF Path
  <1> DEFINE W == {i \in 0 .. d : /\ N[i] = n + i /\ Z[i] = x}
  <1>3. ASSUME NEW i \in 1 .. d
        PROVE  /\ q[i].at = N[i - 1] /\ N[i - 1] \in Nat /\ N[i - 1] < Len(T)
               /\ T[N[i - 1] + 1] = Z[i - 1] /\ N[i] = N[i - 1] + 1 /\ Z[i] = Z[i - 1]
    <2>1. i \in 1 .. Len(q)
      BY <1>1
    <2>2. Step(q[i], N[i - 1], Z[i - 1], N[i], Z[i], T)
      BY <1>2, <2>1 DEF Walk
    <2>3. q[i].what = "raw"
      OBVIOUS
    <2> QED BY <2>2, <2>3 DEF Step
  <1>4. 1 \in 1 .. d /\ d \in Nat /\ 1 - 1 = 0
    BY <1>1
  <1>5. n \in Nat
    BY <1>2, <1>3, <1>4
  <1>6. 0 .. d \subseteq W
    <2>1. 0 \in W
      BY <1>2, <1>4, <1>5
    <2>2. ASSUME NEW i \in 0 .. d - 1, i \in W PROVE i + 1 \in W
      <3>1. i + 1 \in 1 .. d /\ (i + 1) - 1 = i /\ N[i] = n + i /\ Z[i] = x
        BY <1>4, <2>2
      <3>2. N[i + 1] = N[i] + 1 /\ Z[i + 1] = Z[i]
        BY <1>3, <3>1
      <3> QED BY <1>4, <1>5, <3>1, <3>2
    <2> HIDE DEF W
    <2> QED BY <1>4, <2>1, <2>2, UpTo
  <1>7. \A i \in 0 .. d : N[i] = n + i /\ Z[i] = x
    BY <1>6
  <1> HIDE DEF W
  <1>8. \A i \in 1 .. d : q[i].at = n + i - 1 /\ n + i - 1 < Len(T) /\ T[n + i] = x
    <2> SUFFICES ASSUME NEW i \in 1 .. d
                 PROVE  q[i].at = n + i - 1 /\ n + i - 1 < Len(T) /\ T[n + i] = x
      OBVIOUS
    <2>1. i - 1 \in 0 .. d
      OBVIOUS
    <2>2. N[i - 1] = n + (i - 1) /\ Z[i - 1] = x
      BY <1>7, <2>1
    <2> QED BY <1>3, <1>5, <2>2
  <1>9. n + d <= Len(T)
    <2>1. d \in 1 .. d
      BY <1>4
    <2> QED BY <1>5, <1>8, <2>1
  <1>10. \A i \in n + 1 .. n + d : T[i] = x
    <2> SUFFICES ASSUME NEW i \in n + 1 .. n + d PROVE T[i] = x
      OBVIOUS
    <2>1. i - n \in 1 .. d /\ n + (i - n) = i
      BY <1>5
    <2> QED BY <1>8, <2>1
  <1> DEFINE w == SubSeq(q, d + 1, Len(q))
             M == From(N, d, Len(w)) Y == From(Z, d, Len(w))
  <1>11. IsSeq(w) /\ Leaves(w, q, d) /\ Len(w) = Len(q) - d
    <2>1. d \in Nat /\ d <= Len(q)
      BY <1>1
    <2>2. IsSeq(w) /\ Leaves(w, q, d)
      BY <2>1, PartSeq
    <2> QED BY <2>2 DEF Leaves
  <1> HIDE DEF w
  <1>12. Walk(w, M, Y, T)
    <2>1. d \in Nat /\ d <= Len(q)
      BY <1>1
    <2> QED BY <1>1, <1>2, <1>11, <2>1, WalkLeaves
  <1>13. M[0] = n + d /\ Y[0] = x /\ M[Len(w)] = k /\ Y[Len(w)] = y
    <2>1. Len(w) \in Nat /\ 0 \in 0 .. Len(w) /\ Len(w) \in 0 .. Len(w) /\ Len(w) + d = Len(q) /\ 0 + d = d
      BY <1>1, <1>4, <1>11
    <2>2. d \in 0 .. d
      BY <1>4
    <2>3. M[0] = N[d] /\ Y[0] = Z[d] /\ M[Len(w)] = N[Len(q)] /\ Y[Len(w)] = Z[Len(q)]
      BY <2>1 DEF From
    <2> QED BY <1>2, <1>7, <2>2, <2>3
  <1> HIDE DEF M, Y
  <1>14. Path(w, n + d, x, k, y, T)
    BY <1>12, <1>13 DEF Path
  <1> QED BY <1>5, <1>8, <1>9, <1>10, <1>14 DEF Outputting, w

-----------------------------------------------------------------------------
(* What the terminal published leads to the place where it is: all of its  *)
(* output T, at the size s.                                                *)

Log(q, N, Z, T, s) ==
  /\ Walk(q, N, Z, T)
  /\ \A i \in 0 .. Len(q) : N[i] \in Nat
  /\ \A i, j \in 0 .. Len(q) : i <= j => N[i] <= N[j]
  /\ N[Len(q)] = Len(T) /\ Z[Len(q)] = s

\* After k of the frames q comes the place <<n, x>>.
Marked(q, k, n, x, T, s) ==
  \E N, Z : Log(q, N, Z, T, s) /\ k \in 0 .. Len(q) /\ N[k] = n /\ Z[k] = x

LEMMA MarkedTypes ==
  ASSUME NEW q, NEW k, NEW n, NEW x, NEW T, NEW s, Len(q) \in Nat, Marked(q, k, n, x, T, s)
  PROVE  k \in 0 .. Len(q) /\ n \in Nat /\ n <= Len(T) /\ x \in Sizes /\ Len(T) \in Nat /\ s \in Sizes
  <1>1. PICK N, Z : Log(q, N, Z, T, s) /\ k \in 0 .. Len(q) /\ N[k] = n /\ Z[k] = x
    BY DEF Marked
  <1>2. k <= Len(q) /\ Len(q) \in 0 .. Len(q)
    BY <1>1
  <1>3. N[k] <= N[Len(q)] /\ N[k] \in Nat /\ N[Len(q)] \in Nat
    BY <1>1, <1>2 DEF Log
  <1>4. Z[k] \in Sizes /\ Z[Len(q)] \in Sizes
    BY <1>1, <1>2 DEF Log, Walk
  <1> QED BY <1>1, <1>3, <1>4 DEF Log

LEMMA MarkedAppend ==
  ASSUME NEW q, IsSeq(q), NEW f, NEW T, NEW U, Grows(T, U), NEW s \in Sizes, NEW r \in Sizes,
         Step(f, Len(T), s, Len(U), r, U), NEW k, NEW n, NEW x, Marked(q, k, n, x, T, s)
  PROVE  /\ Marked(Append(q, f), k, n, x, U, r)
         /\ Marked(Append(q, f), Len(q) + 1, Len(U), r, U, r)
  <1> DEFINE w == Append(q, f)
  <1>1. PICK N, Z : Log(q, N, Z, T, s) /\ k \in 0 .. Len(q) /\ N[k] = n /\ Z[k] = x
    BY DEF Marked
  <1>2. /\ Len(q) \in Nat /\ Joins(w, q, <<f>>) /\ Len(w) = Len(q) + 1
        /\ Len(<<f>>) = 1 /\ Len(T) \in Nat /\ Len(U) \in Nat /\ Len(T) <= Len(U)
    BY LenNat, AppendSeq, OneSeq DEF Grows
  <1> HIDE DEF w
  <1> DEFINE M == [i \in 0 .. 1 |-> IF i = 0 THEN Len(T) ELSE Len(U)]
             Y == [i \in 0 .. 1 |-> IF i = 0 THEN s ELSE r]
  <1>3. Walk(<<f>>, M, Y, U)
    BY <1>2, WalkOne
  <1>4. M[0] = Len(T) /\ M[1] = Len(U) /\ Y[0] = s /\ Y[1] = r
    OBVIOUS
  <1> HIDE DEF M, Y
  <1>5. Walk(q, N, Z, U) /\ N[Len(q)] = Len(T) /\ Z[Len(q)] = s
    BY <1>1, WalkGrows DEF Log
  <1>6. Continued(w, q, <<f>>, N, Z, M, Y, U)
    BY <1>2, <1>3, <1>4, <1>5, WalkJoins
  <1>7. PICK P, Q : /\ Walk(w, P, Q, U)
                    /\ Continues(P, N, M, Len(q), 1) /\ Continues(Q, Z, Y, Len(q), 1)
    BY <1>2, <1>6 DEF Continued
  <1>8. /\ \A i \in 0 .. Len(q) : P[i] = N[i] /\ Q[i] = Z[i]
        /\ P[Len(q) + 1] = Len(U) /\ Q[Len(q) + 1] = r
    BY <1>4, <1>7 DEF Continues
  <1>9. \A i \in 0 .. Len(q) : N[i] \in Nat /\ N[i] <= Len(T)
    <2>1. Len(q) \in 0 .. Len(q)
      BY <1>2
    <2> QED BY <1>1, <1>2, <2>1 DEF Log
  <1>10. \A i \in 0 .. Len(w) : i \in 0 .. Len(q) \/ i = Len(q) + 1
    BY <1>2
  <1>11. \A i \in 0 .. Len(w) : P[i] \in Nat
    BY <1>2, <1>8, <1>9, <1>10
  <1>12. ASSUME NEW i \in 0 .. Len(w), NEW j \in 0 .. Len(w), i <= j PROVE P[i] <= P[j]
    <2>1. CASE j \in 0 .. Len(q)
      <3>1. i \in 0 .. Len(q)
        BY <1>12, <2>1
      <3>2. N[i] <= N[j]
        BY <1>1, <1>12, <2>1, <3>1 DEF Log
      <3> QED BY <1>8, <2>1, <3>1, <3>2
    <2>2. CASE j = Len(q) + 1
      <3>1. CASE i \in 0 .. Len(q)
        <4>1. P[i] = N[i] /\ N[i] <= Len(T) /\ N[i] \in Nat
          BY <1>8, <1>9, <3>1
        <4> QED BY <1>2, <1>8, <2>2, <4>1
      <3>2. CASE i = Len(q) + 1
        BY <1>2, <1>8, <2>2, <3>2
      <3> QED BY <1>10, <3>1, <3>2
    <2> QED BY <1>10, <2>1, <2>2
  <1>13. Log(w, P, Q, U, r)
    BY <1>2, <1>7, <1>8, <1>11, <1>12 DEF Log
  <1>14. k \in 0 .. Len(w) /\ Len(q) + 1 \in 0 .. Len(w) /\ P[k] = n /\ Q[k] = x
    BY <1>1, <1>2, <1>8
  <1>15. Marked(w, k, n, x, U, r)
    BY <1>13, <1>14 DEF Marked
  <1>16. Marked(w, Len(q) + 1, Len(U), r, U, r)
    BY <1>8, <1>13, <1>14 DEF Marked
  <1> QED BY <1>15, <1>16 DEF w

LEMMA MarkedLeaves ==
  ASSUME NEW q, NEW w, NEW d \in Nat, Len(q) \in Nat, d <= Len(q), Leaves(w, q, d),
         NEW k, d <= k, NEW n, NEW x, NEW T, NEW s, Marked(q, k, n, x, T, s)
  PROVE  Marked(w, k - d, n, x, T, s)
  <1>1. PICK N, Z : Log(q, N, Z, T, s) /\ k \in 0 .. Len(q) /\ N[k] = n /\ Z[k] = x
    BY DEF Marked
  <1>2. Len(w) = Len(q) - d /\ Len(w) \in Nat /\ \A i \in 0 .. Len(w) : i + d \in 0 .. Len(q)
    BY DEF Leaves
  <1> DEFINE M == From(N, d, Len(w)) Y == From(Z, d, Len(w))
  <1>3. Walk(w, M, Y, T)
    BY <1>1, WalkLeaves DEF Log
  <1>4. \A i \in 0 .. Len(w) : M[i] = N[i + d] /\ Y[i] = Z[i + d]
    BY DEF From
  <1> HIDE DEF M, Y
  <1>5. \A i \in 0 .. Len(w) : M[i] \in Nat
    BY <1>1, <1>2, <1>4 DEF Log
  <1>6. ASSUME NEW i \in 0 .. Len(w), NEW j \in 0 .. Len(w), i <= j PROVE M[i] <= M[j]
    <2>1. i + d \in 0 .. Len(q) /\ j + d \in 0 .. Len(q) /\ i + d <= j + d
      BY <1>2, <1>6
    <2>2. N[i + d] <= N[j + d]
      BY <1>1, <2>1 DEF Log
    <2> QED BY <1>4, <2>2
  <1>7. Len(w) \in 0 .. Len(w) /\ Len(w) + d = Len(q)
    BY <1>2
  <1>8. M[Len(w)] = Len(T) /\ Y[Len(w)] = s
    BY <1>1, <1>4, <1>7 DEF Log
  <1>9. Log(w, M, Y, T, s)
    BY <1>3, <1>5, <1>6, <1>8 DEF Log
  <1>10. k - d \in 0 .. Len(w) /\ (k - d) + d = k
    BY <1>1, <1>2
  <1>11. M[k - d] = n /\ Y[k - d] = x
    BY <1>1, <1>4, <1>10
  <1> QED BY <1>9, <1>10, <1>11 DEF Marked

\* The first frame, and the place after it.
Begins(q, k, n, x, T, s) ==
  \E a \in Nat, b \in Sizes, j \in Nat, z \in Sizes :
    /\ Step(q[1], a, b, j, z, T) /\ Marked(q, 1, j, z, T, s)
    /\ k = 0 => a = n /\ b = x
    /\ k # 0 => j <= n

LEMMA MarkedHead ==
  ASSUME NEW q, IsSeq(q), q # <<>>, NEW k, NEW n, NEW x, NEW T, NEW s, Marked(q, k, n, x, T, s)
  PROVE  Begins(q, k, n, x, T, s)
  <1>1. PICK N, Z : Log(q, N, Z, T, s) /\ k \in 0 .. Len(q) /\ N[k] = n /\ Z[k] = x
    BY DEF Marked
  <1>2. /\ Len(q) \in Nat /\ 0 \in 0 .. Len(q) /\ 1 \in 0 .. Len(q) /\ 1 \in 1 .. Len(q) /\ 1 - 1 = 0
    BY LenNat
  <1>3. Step(q[1], N[0], Z[0], N[1], Z[1], T)
    BY <1>1, <1>2 DEF Log, Walk
  <1>4. N[0] \in Nat /\ N[1] \in Nat /\ Z[0] \in Sizes /\ Z[1] \in Sizes
    BY <1>1, <1>2 DEF Log, Walk
  <1>5. Marked(q, 1, N[1], Z[1], T, s)
    BY <1>1, <1>2 DEF Marked
  <1>6. k # 0 => N[1] <= N[k]
    <2>1. k # 0 => 1 <= k
      BY <1>1, <1>2
    <2> QED BY <1>1, <1>2, <2>1 DEF Log
  <1> QED BY <1>1, <1>3, <1>4, <1>5, <1>6 DEF Begins

\* A size that comes later comes at a later place.
LEMMA MarkedLater ==
  ASSUME NEW q, IsSeq(q), NEW k, NEW n, NEW x, NEW T, NEW s, Marked(q, k, n, x, T, s),
         NEW i \in 1 .. Len(q), i > k, q[i].what = "resize"
  PROVE  q[i].at \in Nat /\ q[i].at >= n
  <1>1. PICK N, Z : Log(q, N, Z, T, s) /\ k \in 0 .. Len(q) /\ N[k] = n /\ Z[k] = x
    BY DEF Marked
  <1>2. Len(q) \in Nat /\ i - 1 \in 0 .. Len(q) /\ k <= i - 1
    BY <1>1, LenNat
  <1>3. Step(q[i], N[i - 1], Z[i - 1], N[i], Z[i], T) /\ N[k] <= N[i - 1] /\ N[i - 1] \in Nat /\ N[k] \in Nat
    BY <1>1, <1>2 DEF Log, Walk
  <1>4. q[i].at = N[i - 1]
    BY <1>3 DEF Step
  <1> QED BY <1>1, <1>3, <1>4

LEMMA MarkedEmpty ==
  ASSUME NEW n, NEW x, NEW k, NEW T, NEW s, Marked(<<>>, k, n, x, T, s)
  PROVE  n = Len(T) /\ x = s
  <1>1. Len(<<>>) = 0
    OBVIOUS
  <1> QED BY <1>1 DEF Marked, Log

LEMMA MarkedNew ==
  ASSUME NEW T, Len(T) \in Nat, NEW s \in Sizes
  PROVE  Marked(<<>>, 0, Len(T), s, T, s)
  <1> DEFINE N == [i \in 0 .. 0 |-> Len(T)] Z == [i \in 0 .. 0 |-> s]
  <1>1. Walk(<<>>, N, Z, T)
    BY WalkNothing
  <1>2. N[0] = Len(T) /\ Z[0] = s /\ Len(<<>>) = 0
    OBVIOUS
  <1> HIDE DEF N, Z
  <1>3. Log(<<>>, N, Z, T, s)
    BY <1>1, <1>2 DEF Log
  <1> QED BY <1>2, <1>3 DEF Marked

-----------------------------------------------------------------------------
(* A Stream that keeps up stands at a place that the frames it has not     *)
(* read lead through.  A late barrier may have taken it there ahead of     *)
(* them; then frames that it has already are still to come, and the size   *)
(* of that place with them.                                                *)

SizeComes(q, k, n) == \E i \in k + 1 .. Len(q) : q[i].what = "resize" /\ q[i].at = n

Follows(q, n, x, T, s) ==
  \E k, z : Marked(q, k, n, z, T, s) /\ (z = x \/ SizeComes(q, k, n))

\* The frames of the broadcast.
Frames(q) == \A i \in 1 .. Len(q) : q[i].what \in {"raw", "resize", "barrier", "closed"}

LEMMA FollowsAppend ==
  ASSUME NEW q, IsSeq(q), NEW f, NEW T, NEW U, Grows(T, U), NEW s \in Sizes, NEW r \in Sizes,
         Step(f, Len(T), s, Len(U), r, U), NEW n, NEW x, Follows(q, n, x, T, s)
  PROVE  Follows(Append(q, f), n, x, U, r)
  <1>1. PICK k, z : Marked(q, k, n, z, T, s) /\ (z = x \/ SizeComes(q, k, n))
    BY DEF Follows
  <1>2. Marked(Append(q, f), k, n, z, U, r)
    BY <1>1, MarkedAppend
  <1>3. SizeComes(q, k, n) => SizeComes(Append(q, f), k, n)
    <2>1. /\ Len(q) \in Nat /\ Len(Append(q, f)) = Len(q) + 1
          /\ \A i \in 1 .. Len(q) : Append(q, f)[i] = q[i]
      BY LenNat, AppendSeq
    <2>2. k \in 0 .. Len(q)
      BY <1>1, <2>1, MarkedTypes
    <2>3. \A i \in k + 1 .. Len(q) : i \in 1 .. Len(q) /\ i \in k + 1 .. Len(q) + 1
      BY <2>1, <2>2
    <2> DEFINE w == Append(q, f)
    <2> HIDE DEF w
    <2> QED BY <2>1, <2>3 DEF SizeComes, w
  <1> QED BY <1>1, <1>2, <1>3 DEF Follows

\* What the Stream does with the first frame: it has it already, or goes on.
Reads(q, n, x, T, s) ==
  \/ /\ q[1].what = "raw" => q[1].at < n
     /\ q[1].what = "resize" => q[1].at < n
     /\ Follows(Tail(q), n, x, T, s)
  \/ /\ q[1].what \in {"raw", "resize"} /\ q[1].at = n
     /\ \E j \in Nat, z \in Sizes : Step(q[1], n, x, j, z, T) /\ Follows(Tail(q), j, z, T, s)

LEMMA FollowsHead ==
  ASSUME NEW q, IsSeq(q), q # <<>>, Frames(q), NEW n, NEW x \in Sizes, NEW T, NEW s,
         Follows(q, n, x, T, s)
  PROVE  Reads(q, n, x, T, s)
  <1>1. PICK k, z : Marked(q, k, n, z, T, s) /\ (z = x \/ SizeComes(q, k, n))
    BY DEF Follows
  <1>2. PICK a \in Nat, b \in Sizes, j \in Nat, y \in Sizes :
             /\ Step(q[1], a, b, j, y, T) /\ Marked(q, 1, j, y, T, s)
             /\ k = 0 => a = n /\ b = z
             /\ k # 0 => j <= n
    BY <1>1, MarkedHead DEF Begins
  <1>3. /\ Len(q) \in Nat /\ Len(q) >= 1 /\ Leaves(Tail(q), q, 1) /\ Len(Tail(q)) = Len(q) - 1
        /\ \A i \in 1 .. Len(q) - 1 : Tail(q)[i] = q[i + 1]
    BY TailSeq
  <1>4. k \in 0 .. Len(q) /\ n \in Nat
    BY <1>1, <1>3, MarkedTypes
  <1>5. Marked(Tail(q), 0, j, y, T, s)
    <2>1. Marked(Tail(q), 1 - 1, j, y, T, s)
      BY <1>2, <1>3, MarkedLeaves
    <2> QED BY <2>1
  <1>6. q[1].what \in {"raw", "resize", "barrier", "closed"}
    BY <1>3 DEF Frames
  <1>7. ASSUME NEW l \in 1 .. Len(q), SizeComes(q, l, n)
        PROVE  SizeComes(Tail(q), l - 1, n)
    <2>1. PICK i \in l + 1 .. Len(q) : q[i].what = "resize" /\ q[i].at = n
      BY <1>7 DEF SizeComes
    <2>2. i - 1 \in 1 .. Len(q) - 1 /\ i - 1 \in (l - 1) + 1 .. Len(q) - 1 /\ (i - 1) + 1 = i
      BY <1>3, <2>1
    <2>3. Tail(q)[i - 1] = q[i]
      BY <1>3, <2>2
    <2> QED BY <1>3, <2>1, <2>2, <2>3 DEF SizeComes
  <1>8. CASE k # 0
    <2>1. Marked(Tail(q), k - 1, n, z, T, s)
      <3>1. 1 \in Nat /\ 1 <= Len(q) /\ 1 <= k /\ Len(q) \in Nat
        BY <1>3, <1>4, <1>8
      <3> QED BY <1>1, <1>3, <3>1, MarkedLeaves
    <2>2. z = x \/ SizeComes(Tail(q), k - 1, n)
      <3>1. k \in 1 .. Len(q)
        BY <1>3, <1>4, <1>8
      <3> QED BY <1>1, <1>7, <3>1
    <2>3. Follows(Tail(q), n, x, T, s)
      BY <2>1, <2>2 DEF Follows
    <2>4. CASE q[1].what = "raw"
      <3>1. q[1].at = a /\ j = a + 1 /\ j <= n
        BY <1>2, <1>8, <2>4 DEF Step
      <3> QED BY <1>4, <2>3, <2>4, <3>1 DEF Reads
    <2>5. CASE q[1].what = "resize"
      <3>1. q[1].at = a /\ j = a /\ j <= n /\ q[1].size = y
        BY <1>2, <1>8, <2>5 DEF Step
      <3>2. CASE a = n
        <4>1. Follows(Tail(q), n, y, T, s)
          BY <1>5, <3>1, <3>2 DEF Follows
        <4>2. Step(q[1], n, x, n, y, T)
          BY <1>4, <2>5, <3>1, <3>2 DEF Step
        <4> QED BY <1>4, <2>5, <3>1, <3>2, <4>1, <4>2 DEF Reads
      <3>3. CASE a # n
        <4>1. a < n
          BY <1>4, <3>1, <3>3
        <4> QED BY <2>3, <2>5, <3>1, <4>1 DEF Reads
      <3> QED BY <3>2, <3>3
    <2>6. CASE q[1].what \in {"barrier", "closed"}
      BY <2>3, <2>6 DEF Reads
    <2> QED BY <1>6, <2>4, <2>5, <2>6
  <1>9. CASE k = 0
    <2>1. Step(q[1], n, z, j, y, T)
      BY <1>2, <1>9
    <2>2. CASE q[1].what = "raw"
      <3>1. q[1].at = n /\ j = n + 1 /\ y = z /\ n < Len(T) /\ T[n + 1] = z
        BY <2>1, <2>2 DEF Step
      <3>2. z = x
        <4> SUFFICES ASSUME SizeComes(q, 0, n) PROVE FALSE
          BY <1>1, <1>9
        <4>1. PICK i \in 0 + 1 .. Len(q) : q[i].what = "resize" /\ q[i].at = n
          BY DEF SizeComes
        <4>2. i # 1 /\ i \in 1 .. Len(q) /\ i > 1
          BY <2>2, <4>1
        <4>3. q[i].at >= j
          BY <1>2, <4>1, <4>2, MarkedLater
        <4> QED BY <1>4, <3>1, <4>1, <4>3
      <3>3. Follows(Tail(q), j, z, T, s)
        BY <1>5, <3>1 DEF Follows
      <3>4. Step(q[1], n, x, j, z, T)
        BY <2>1, <3>1, <3>2
      <3> QED BY <1>2, <2>2, <3>1, <3>3, <3>4 DEF Reads
    <2>3. CASE q[1].what = "resize"
      <3>1. q[1].at = n /\ j = n /\ q[1].size = y
        BY <2>1, <2>3 DEF Step
      <3>2. Follows(Tail(q), n, y, T, s)
        BY <1>5, <3>1 DEF Follows
      <3>3. Step(q[1], n, x, n, y, T)
        BY <1>4, <2>3, <3>1 DEF Step
      <3> QED BY <1>4, <2>3, <3>1, <3>2, <3>3 DEF Reads
    <2>4. CASE q[1].what \in {"barrier", "closed"}
      <3>1. j = n /\ y = z
        BY <2>1, <2>4 DEF Step
      <3>2. z = x \/ SizeComes(Tail(q), 0, n)
        <4> SUFFICES ASSUME SizeComes(q, 0, n) PROVE SizeComes(Tail(q), 0, n)
          BY <1>1, <1>9
        <4>1. PICK i \in 0 + 1 .. Len(q) : q[i].what = "resize" /\ q[i].at = n
          BY DEF SizeComes
        <4>2. i # 1
          BY <2>4, <4>1
        <4>3. i \in 1 + 1 .. Len(q) /\ 1 \in 1 .. Len(q)
          BY <1>3, <4>2
        <4>4. SizeComes(q, 1, n)
          BY <4>1, <4>3 DEF SizeComes
        <4>5. SizeComes(Tail(q), 1 - 1, n)
          BY <1>7, <4>3, <4>4
        <4> QED BY <4>5
      <3>3. Follows(Tail(q), n, x, T, s)
        BY <1>5, <3>1, <3>2 DEF Follows
      <3> QED BY <2>4, <3>3 DEF Reads
    <2> QED BY <1>6, <2>2, <2>3, <2>4
  <1> QED BY <1>8, <1>9

-----------------------------------------------------------------------------
(* The barrier of a snapshot.                                              *)

IsBarrier(m, mark) == m.what = "barrier" /\ m.mark = mark

\* The last barrier with the mark comes at the place <<n, x>>, if there is one.
Barred(q, mark, n, x, T, s) ==
  \/ \A i \in 1 .. Len(q) : ~IsBarrier(q[i], mark)
  \/ \E b \in 1 .. Len(q) : /\ Marked(q, b, n, x, T, s)
                            /\ \A i \in b + 1 .. Len(q) : ~IsBarrier(q[i], mark)

LEMMA BarredAppend ==
  ASSUME NEW q, IsSeq(q), NEW f, NEW T, NEW U, Grows(T, U), NEW s \in Sizes, NEW r \in Sizes,
         Step(f, Len(T), s, Len(U), r, U), NEW mark, f.what # "barrier", NEW n, NEW x,
         Barred(q, mark, n, x, T, s)
  PROVE  Barred(Append(q, f), mark, n, x, U, r)
  <1> DEFINE w == Append(q, f)
  <1>1. /\ Len(q) \in Nat /\ Len(w) = Len(q) + 1 /\ w[Len(q) + 1] = f
        /\ \A i \in 1 .. Len(q) : w[i] = q[i]
    BY LenNat, AppendSeq
  <1> HIDE DEF w
  <1>2. \A i \in 1 .. Len(w) : i \in 1 .. Len(q) \/ i = Len(q) + 1
    BY <1>1
  <1>3. CASE \A i \in 1 .. Len(q) : ~IsBarrier(q[i], mark)
    <2>1. \A i \in 1 .. Len(w) : ~IsBarrier(w[i], mark)
      BY <1>1, <1>2, <1>3 DEF IsBarrier
    <2>2. Barred(w, mark, n, x, U, r)
      BY <2>1 DEF Barred
    <2> QED BY <2>2 DEF w
  <1>4. CASE \E b \in 1 .. Len(q) : /\ Marked(q, b, n, x, T, s)
                                    /\ \A i \in b + 1 .. Len(q) : ~IsBarrier(q[i], mark)
    <2>1. PICK b \in 1 .. Len(q) : /\ Marked(q, b, n, x, T, s)
                                   /\ \A i \in b + 1 .. Len(q) : ~IsBarrier(q[i], mark)
      BY <1>4
    <2>2. Marked(w, b, n, x, U, r)
      BY <2>1, MarkedAppend DEF w
    <2>3. \A i \in b + 1 .. Len(w) :
            (i \in b + 1 .. Len(q) /\ i \in 1 .. Len(q)) \/ i = Len(q) + 1
      BY <1>1
    <2>4. \A i \in b + 1 .. Len(w) : ~IsBarrier(w[i], mark)
      BY <1>1, <2>1, <2>3 DEF IsBarrier
    <2>5. b \in 1 .. Len(w)
      BY <1>1
    <2>6. Barred(w, mark, n, x, U, r)
      BY <2>2, <2>4, <2>5 DEF Barred
    <2> QED BY <2>6 DEF w
  <1> QED BY <1>3, <1>4 DEF Barred

LEMMA BarredTail ==
  ASSUME NEW q, IsSeq(q), q # <<>>, NEW mark, NEW n, NEW x, NEW T, NEW s,
         Barred(q, mark, n, x, T, s)
  PROVE  Barred(Tail(q), mark, n, x, T, s)
  <1> DEFINE w == Tail(q)
  <1>1. /\ Len(q) \in Nat /\ Len(q) >= 1 /\ Leaves(w, q, 1) /\ Len(w) = Len(q) - 1
        /\ \A i \in 1 .. Len(q) - 1 : w[i] = q[i + 1]
    BY TailSeq
  <1> HIDE DEF w
  <1>2. \A i \in 1 .. Len(w) : i + 1 \in 1 .. Len(q) /\ w[i] = q[i + 1]
    BY <1>1
  <1>3. CASE \A i \in 1 .. Len(q) : ~IsBarrier(q[i], mark)
    <2>1. \A i \in 1 .. Len(w) : ~IsBarrier(w[i], mark)
      BY <1>2, <1>3
    <2>2. Barred(w, mark, n, x, T, s)
      BY <2>1 DEF Barred
    <2> QED BY <2>2 DEF w
  <1>4. ASSUME NEW b \in 1 .. Len(q), Marked(q, b, n, x, T, s),
               \A i \in b + 1 .. Len(q) : ~IsBarrier(q[i], mark)
        PROVE  Barred(w, mark, n, x, T, s)
    <2>1. \A i \in b .. Len(w) : i \in 1 .. Len(w) /\ i + 1 \in b + 1 .. Len(q)
      BY <1>1
    <2>2. \A i \in b .. Len(w) : ~IsBarrier(w[i], mark)
      BY <1>2, <1>4, <2>1
    <2>3. CASE b = 1
      <3>1. \A i \in 1 .. Len(w) : ~IsBarrier(w[i], mark)
        BY <2>2, <2>3
      <3> QED BY <3>1 DEF Barred
    <2>4. CASE b # 1
      <3>1. b - 1 \in 1 .. Len(w) /\ (b - 1) + 1 = b /\ 1 <= b /\ 1 \in Nat
        BY <1>1, <2>4
      <3>2. Marked(w, b - 1, n, x, T, s)
        BY <1>1, <1>4, <3>1, MarkedLeaves
      <3> QED BY <2>2, <3>1, <3>2 DEF Barred
    <2> QED BY <2>3, <2>4
  <1>5. Barred(w, mark, n, x, T, s)
    BY <1>3, <1>4 DEF Barred, w
  <1> QED BY <1>5 DEF w

\* The frames after any barrier with the mark lead through the place.
LEMMA BarredFollows ==
  ASSUME NEW q, IsSeq(q), NEW mark, NEW n, NEW x, NEW T, NEW s, Barred(q, mark, n, x, T, s),
         NEW i \in 1 .. Len(q), IsBarrier(q[i], mark)
  PROVE  Follows(SubSeq(q, i + 1, Len(q)), n, x, T, s)
  <1>1. PICK b \in 1 .. Len(q) : /\ Marked(q, b, n, x, T, s)
                                 /\ \A l \in b + 1 .. Len(q) : ~IsBarrier(q[l], mark)
    BY DEF Barred
  <1>2. Len(q) \in Nat /\ i \in Nat /\ i <= Len(q)
    BY LenNat
  <1>3. i <= b
    <2> SUFFICES ASSUME ~(i <= b) PROVE FALSE
      OBVIOUS
    <2>1. i \in b + 1 .. Len(q)
      BY <1>1, <1>2
    <2> QED BY <1>1, <2>1
  <1> DEFINE w == SubSeq(q, i + 1, Len(q))
  <1>4. Leaves(w, q, i)
    BY <1>2, PartSeq
  <1> HIDE DEF w
  <1>5. Marked(w, b - i, n, x, T, s)
    BY <1>1, <1>2, <1>3, <1>4, MarkedLeaves
  <1>6. Follows(w, n, x, T, s)
    BY <1>5 DEF Follows
  <1> QED BY <1>6 DEF w

-----------------------------------------------------------------------------
(* What waits in the Stream                                                *)

Waits(q) == \A i \in 1 .. Len(q) : q[i].what \in {"raw", "resize"}

LEMMA RawsOf ==
  ASSUME NEW r, IsSeq(r.waiting)
  PROVE  /\ Raws(r) = {i \in 1 .. Len(r.waiting) : r.waiting[i].what = "raw"}
         /\ IsFiniteSet(Raws(r)) /\ Cardinality(Raws(r)) \in Nat /\ Raws(r) \subseteq Nat
  <1>1. Len(r.waiting) \in Nat /\ DOMAIN r.waiting = 1 .. Len(r.waiting)
    BY LenNat
  <1>2. Raws(r) = {i \in 1 .. Len(r.waiting) : r.waiting[i].what = "raw"}
    BY <1>1 DEF Raws
  <1>3. IsFiniteSet(1 .. Len(r.waiting))
    BY <1>1, FS_Interval
  <1>4. Raws(r) \in SUBSET (1 .. Len(r.waiting))
    BY <1>2
  <1>5. IsFiniteSet(Raws(r))
    BY <1>3, <1>4, FS_Subset
  <1>6. Cardinality(Raws(r)) \in Nat
    BY <1>5, FS_CardinalityType
  <1> QED BY <1>1, <1>2, <1>4, <1>5, <1>6

\* The greatest of a set of numbers is the only one.
LEMMA GreatestIs ==
  ASSUME NEW S, S \subseteq Nat, NEW m \in S, \A n \in S : n <= m
  PROVE  Max(S) = m
  <1> DEFINE P(x) == x \in S /\ \A y \in S : x >= y
  <1>1. P(m)
    OBVIOUS
  <1>2. Max(S) = CHOOSE x : P(x)
    BY DEF Max
  <1>3. P(CHOOSE x : P(x))
    BY <1>1
  <1>4. Max(S) \in S /\ Max(S) >= m
    BY <1>2, <1>3
  <1>5. Max(S) <= m /\ Max(S) \in Nat /\ m \in Nat
    BY <1>4
  <1> QED BY <1>4, <1>5

LEMMA NextAfter ==
  ASSUME NEW r, IsSeq(r.waiting), NEW m \in 1 .. Len(r.waiting), r.waiting[m].what = "raw",
         \A i \in m + 1 .. Len(r.waiting) : r.waiting[i].what # "raw"
  PROVE  NextWaiting(r) = r.waiting[m].at + 1
  <1> DEFINE S == Raws(r)
  <1>1. Len(r.waiting) \in Nat
    BY LenNat
  <1>2. S = {i \in 1 .. Len(r.waiting) : r.waiting[i].what = "raw"} /\ S \subseteq Nat
    BY RawsOf
  <1>3. m \in S /\ S # {}
    BY <1>2
  <1>4. ASSUME NEW i \in S PROVE i <= m
    <2> SUFFICES ASSUME ~(i <= m) PROVE FALSE
      OBVIOUS
    <2>1. i \in m + 1 .. Len(r.waiting)
      BY <1>1, <1>2
    <2> QED BY <1>2, <2>1
  <1> HIDE DEF S
  <1>5. Max(S) = m
    BY <1>2, <1>3, <1>4, GreatestIs
  <1> QED BY <1>3, <1>5 DEF NextWaiting, S

LEMMA NextNone ==
  ASSUME NEW r, IsSeq(r.waiting), \A i \in 1 .. Len(r.waiting) : r.waiting[i].what # "raw"
  PROVE  NextWaiting(r) = r.next
  <1>1. Raws(r) = {}
    BY RawsOf
  <1> QED BY <1>1 DEF NextWaiting

\* Either no output waits, or there is a last one.
LEMMA LastRaw ==
  ASSUME NEW q, IsSeq(q), NEW i \in 1 .. Len(q), q[i].what = "raw"
  PROVE  \E m \in 1 .. Len(q) : /\ q[m].what = "raw"
                                /\ \A j \in m + 1 .. Len(q) : q[j].what # "raw"
  <1>1. Len(q) \in Nat
    BY LenNat
  <1> DEFINE W == {d \in 0 .. Len(q) - i :
                     \/ \A j \in Len(q) - d + 1 .. Len(q) : q[j].what # "raw"
                     \/ \E m \in 1 .. Len(q) : /\ q[m].what = "raw"
                                               /\ \A j \in m + 1 .. Len(q) : q[j].what # "raw"}
  <1>2. 0 \in W
    <2>1. \A j \in Len(q) - 0 + 1 .. Len(q) : FALSE
      BY <1>1
    <2> QED BY <1>1, <2>1
  <1>3. ASSUME NEW d \in 0 .. (Len(q) - i) - 1, d \in W PROVE d + 1 \in W
    <2> DEFINE m == Len(q) - d
    <2>1. m \in 1 .. Len(q) /\ d + 1 \in 0 .. Len(q) - i /\ Len(q) - (d + 1) + 1 = m
      BY <1>1
    <2>2. CASE \E k \in 1 .. Len(q) : /\ q[k].what = "raw"
                                      /\ \A j \in k + 1 .. Len(q) : q[j].what # "raw"
      BY <2>1, <2>2
    <2>3. CASE \A j \in Len(q) - d + 1 .. Len(q) : q[j].what # "raw"
      <3>1. CASE q[m].what = "raw"
        BY <2>1, <2>3, <3>1
      <3>2. CASE q[m].what # "raw"
        <4>1. \A j \in m .. Len(q) : j = m \/ j \in m + 1 .. Len(q)
          BY <1>1, <2>1
        <4>2. \A j \in m .. Len(q) : q[j].what # "raw"
          BY <2>3, <3>2, <4>1
        <4>3. \A j \in Len(q) - (d + 1) + 1 .. Len(q) : q[j].what # "raw"
          BY <2>1, <4>2
        <4> QED BY <2>1, <4>3
      <3> QED BY <3>1, <3>2
    <2> QED BY <1>3, <2>2, <2>3
  <1>4. Len(q) - i \in Nat
    BY <1>1
  <1>5. Len(q) - i \in W
    <2> DEFINE N == Len(q) - i
    <2>1. 0 .. N \subseteq W
      <3> HIDE DEF W
      <3> QED BY <1>2, <1>3, <1>4, UpTo
    <2> HIDE DEF W
    <2> QED BY <1>4, <2>1
  <1>6. CASE \A j \in Len(q) - (Len(q) - i) + 1 .. Len(q) : q[j].what # "raw"
    <2>1. Len(q) - (Len(q) - i) + 1 = i + 1
      BY <1>1
    <2> QED BY <1>6, <2>1
  <1> QED BY <1>5, <1>6

\* The Stream takes a frame.
LEMMA NextAppend ==
  ASSUME NEW r, NEW t, IsSeq(r.waiting), NEW f, t.waiting = Append(r.waiting, f), t.next = r.next
  PROVE  /\ f.what = "raw" => NextWaiting(t) = f.at + 1
         /\ f.what # "raw" => NextWaiting(t) = NextWaiting(r) /\ Raws(t) = Raws(r)
  <1> DEFINE q == r.waiting w == t.waiting
  <1>0. IsSeq(q) /\ w = Append(q, f)
    OBVIOUS
  <1>1. /\ Len(q) \in Nat /\ IsSeq(w) /\ Len(w) = Len(q) + 1 /\ w[Len(q) + 1] = f
        /\ \A i \in 1 .. Len(q) : w[i] = q[i]
    <2> HIDE DEF q, w
    <2> QED BY <1>0, LenNat, AppendSeq
  <1> HIDE DEF q, w
  <1>2. CASE f.what = "raw"
    <2>1. Len(q) + 1 \in 1 .. Len(w) /\ \A i \in (Len(q) + 1) + 1 .. Len(w) : FALSE
      BY <1>1
    <2>2. NextWaiting(t) = w[Len(q) + 1].at + 1
      BY <1>1, <1>2, <2>1, NextAfter DEF w
    <2> QED BY <1>1, <1>2, <2>2
  <1>3. CASE f.what # "raw"
    <2>1. \A i \in 1 .. Len(w) : i \in 1 .. Len(q) \/ i = Len(q) + 1
      BY <1>1
    <2>2. CASE \A i \in 1 .. Len(q) : q[i].what # "raw"
      <3>1. \A i \in 1 .. Len(w) : w[i].what # "raw"
        BY <1>1, <1>3, <2>1, <2>2
      <3> QED BY <1>1, <1>3, <2>2, <3>1, NextNone, RawsOf DEF q, w
    <2>3. CASE \E i \in 1 .. Len(q) : q[i].what = "raw"
      <3>1. PICK m \in 1 .. Len(q) : /\ q[m].what = "raw"
                                     /\ \A j \in m + 1 .. Len(q) : q[j].what # "raw"
        BY <2>3, LastRaw DEF q
      <3>2. \A j \in m + 1 .. Len(w) :
              (j \in m + 1 .. Len(q) /\ j \in 1 .. Len(q)) \/ j = Len(q) + 1
        BY <1>1
      <3>3. m \in 1 .. Len(w) /\ w[m] = q[m] /\ \A j \in m + 1 .. Len(w) : w[j].what # "raw"
        BY <1>1, <1>3, <3>1, <3>2
      <3>4. NextWaiting(t) = w[m].at + 1
        BY <1>1, <3>1, <3>3, NextAfter DEF w
      <3>5. NextWaiting(r) = q[m].at + 1
        BY <3>1, NextAfter DEF q
      <3>6. Raws(t) = Raws(r)
        <4>1. Raws(t) = {i \in 1 .. Len(w) : w[i].what = "raw"}
          BY <1>1, RawsOf DEF w
        <4>2. Raws(r) = {i \in 1 .. Len(q) : q[i].what = "raw"}
          BY RawsOf DEF q
        <4>3. \A i \in 1 .. Len(q) : i \in 1 .. Len(w)
          BY <1>1
        <4> QED BY <1>1, <1>3, <2>1, <4>1, <4>2, <4>3
      <3> QED BY <1>3, <3>3, <3>4, <3>5, <3>6
    <2> QED BY <2>2, <2>3
  <1> QED BY <1>2, <1>3

\* The Stream sends the first d frames: a size, or outputs in a row.
LEMMA NextLeaves ==
  ASSUME NEW r, NEW t, IsSeq(r.waiting), IsSeq(t.waiting), NEW d \in 1 .. Len(r.waiting),
         Leaves(t.waiting, r.waiting, d),
         \/ r.waiting[1].what # "raw" /\ d = 1 /\ t.next = r.next
         \/ r.waiting[d].what = "raw" /\ t.next = r.waiting[d].at + 1
  PROVE  NextWaiting(t) = NextWaiting(r)
  <1> DEFINE q == r.waiting w == t.waiting
  <1>1. Len(q) \in Nat /\ Len(w) = Len(q) - d /\ Len(w) \in Nat /\ \A i \in 1 .. Len(w) : w[i] = q[i + d]
    BY LenNat DEF Leaves
  <1> HIDE DEF q, w
  <1>2. CASE \E i \in 1 .. Len(w) : w[i].what = "raw"
    <2>1. PICK m \in 1 .. Len(w) : /\ w[m].what = "raw"
                                   /\ \A j \in m + 1 .. Len(w) : w[j].what # "raw"
      BY <1>2, LastRaw DEF w
    <2>2. m + d \in 1 .. Len(q) /\ w[m] = q[m + d]
      BY <1>1 DEF q
    <2>3. ASSUME NEW j \in (m + d) + 1 .. Len(q) PROVE q[j].what # "raw"
      <3>1. j - d \in m + 1 .. Len(w) /\ j - d \in 1 .. Len(w) /\ (j - d) + d = j
        BY <1>1 DEF q
      <3> QED BY <1>1, <2>1, <3>1
    <2>4. NextWaiting(t) = w[m].at + 1
      BY <2>1, NextAfter DEF w
    <2>5. NextWaiting(r) = q[m + d].at + 1
      BY <2>1, <2>2, <2>3, NextAfter DEF q
    <2> QED BY <2>2, <2>4, <2>5
  <1>3. CASE \A i \in 1 .. Len(w) : w[i].what # "raw"
    <2>1. NextWaiting(t) = t.next
      BY <1>3, NextNone DEF w
    <2>2. ASSUME NEW j \in d + 1 .. Len(q) PROVE q[j].what # "raw"
      <3>1. j - d \in 1 .. Len(w) /\ (j - d) + d = j
        BY <1>1 DEF q
      <3> QED BY <1>1, <1>3, <3>1
    <2>3. CASE q[d].what = "raw" /\ t.next = q[d].at + 1
      <3>1. NextWaiting(r) = q[d].at + 1
        BY <2>2, <2>3, NextAfter DEF q
      <3> QED BY <2>1, <2>3, <3>1
    <2>4. CASE q[1].what # "raw" /\ d = 1 /\ t.next = r.next
      <3>1. \A j \in 1 .. Len(q) : j = 1 \/ j \in d + 1 .. Len(q)
        BY <1>1, <2>4
      <3>2. \A j \in 1 .. Len(q) : q[j].what # "raw"
        BY <2>2, <2>4, <3>1
      <3>3. NextWaiting(r) = r.next
        BY <3>2, NextNone DEF q
      <3> QED BY <2>1, <2>4, <3>3
    <2> QED BY <2>3, <2>4 DEF q
  <1> QED BY <1>2, <1>3

LEMMA RawsLeave ==
  ASSUME NEW r, NEW t, IsSeq(r.waiting), IsSeq(t.waiting), NEW d \in 1 .. Len(r.waiting),
         Leaves(t.waiting, r.waiting, d)
  PROVE  Cardinality(Raws(t)) <= Cardinality(Raws(r))
  <1> DEFINE A == Raws(t) B == Raws(r) f == [i \in A |-> i + d]
  <1>1. Len(r.waiting) \in Nat /\ Len(t.waiting) = Len(r.waiting) - d
        /\ \A i \in 1 .. Len(t.waiting) : t.waiting[i] = r.waiting[i + d]
    BY LenNat DEF Leaves
  <1>2. A = {i \in 1 .. Len(t.waiting) : t.waiting[i].what = "raw"} /\ A \subseteq Nat
    BY RawsOf
  <1>3. B = {i \in 1 .. Len(r.waiting) : r.waiting[i].what = "raw"} /\ IsFiniteSet(B)
    BY RawsOf
  <1> HIDE DEF A, B
  <1>4. \A i \in A : i + d \in B
    <2> SUFFICES ASSUME NEW i \in A PROVE i + d \in B
      OBVIOUS
    <2>1. i \in 1 .. Len(t.waiting) /\ i + d \in 1 .. Len(r.waiting)
      BY <1>1, <1>2
    <2> QED BY <1>1, <1>2, <1>3, <2>1
  <1>5. f \in [A -> B] /\ \A i, j \in A : f[i] = f[j] => i = j
    BY <1>2, <1>4
  <1> HIDE DEF f
  <1>6. f \in Injection(A, B)
    BY <1>5 DEF Injection, IsInjective
  <1> QED BY <1>3, <1>6, FS_Injection DEF A, B

-----------------------------------------------------------------------------
(* Sums                                                                    *)

\* A function that is built step by step from a start.
Built(g, V, a, n, step) ==
  /\ g \in [0 .. n -> V] /\ g[0] = a
  /\ \A i \in 1 .. n : g[i] = step[<<g[i - 1], i>>]

LEMMA Recursion ==
  ASSUME NEW V, NEW a \in V, NEW N \in Nat, NEW step \in [V \X (1 .. N) -> V]
  PROVE  \E g : Built(g, V, a, N, step)
  <1> DEFINE Climbs(g, n) == /\ g \in [0 .. n -> V] /\ g[0] = a
                             /\ \A i \in 1 .. n : g[i] = step[<<g[i - 1], i>>]
             W == {n \in 0 .. N : \E g : Climbs(g, n)}
  <1>1. 0 \in W
    <2> DEFINE g == [i \in 0 .. 0 |-> a]
    <2>1. g \in [0 .. 0 -> V] /\ g[0] = a
      OBVIOUS
    <2>2. \A i \in 1 .. 0 : FALSE
      OBVIOUS
    <2> HIDE DEF g
    <2>3. Climbs(g, 0)
      BY <2>1, <2>2
    <2> QED BY <2>3
  <1>2. ASSUME NEW n \in 0 .. N - 1, n \in W PROVE n + 1 \in W
    <2>1. PICK g : Climbs(g, n)
      BY <1>2
    <2> DEFINE x == step[<<g[n], n + 1>>]
               h == [i \in 0 .. n + 1 |-> IF i = n + 1 THEN x ELSE g[i]]
    <2>2. g[n] \in V /\ n + 1 \in 1 .. N /\ n \in Nat
      BY <2>1
    <2>3. x \in V
      <3>1. <<g[n], n + 1>> \in V \X (1 .. N)
        BY <2>2
      <3> QED BY <3>1
    <2>4. /\ DOMAIN h = 0 .. n + 1 /\ h[n + 1] = x
          /\ \A i \in 0 .. n : h[i] = g[i]
      BY <2>2
    <2>5. x = step[<<g[n], n + 1>>]
      OBVIOUS
    <2>6. h = [i \in 0 .. n + 1 |-> h[i]]
      BY <2>4
    <2> HIDE DEF x, h
    <2>7. h[0] = a /\ \A i \in 0 .. n + 1 : h[i] \in V
      BY <2>1, <2>2, <2>3, <2>4
    <2>8. h \in [0 .. n + 1 -> V]
      BY <2>6, <2>7
    <2>9. ASSUME NEW i \in 1 .. n + 1 PROVE h[i] = step[<<h[i - 1], i>>]
      <3>1. CASE i = n + 1
        <4>1. i - 1 = n /\ h[i - 1] = g[n]
          BY <2>2, <2>4, <3>1
        <4> QED BY <2>4, <2>5, <3>1, <4>1
      <3>2. CASE i # n + 1
        <4>1. i \in 1 .. n /\ i - 1 \in 0 .. n
          BY <2>2, <3>2
        <4> QED BY <2>1, <2>4, <4>1
      <3> QED BY <3>1, <3>2
    <2>10. Climbs(h, n + 1)
      BY <2>7, <2>8, <2>9
    <2> QED BY <2>2, <2>10
  <1>3. N \in W
    <2> HIDE DEF W
    <2>1. 0 .. N \subseteq W
      BY <1>1, <1>2, UpTo
    <2> QED BY <2>1
  <1> QED BY <1>3 DEF Built

\* The sums of the beginnings of s.
Sums(f, s) ==
  /\ f \in [0 .. Len(s) -> Nat] /\ f[0] = 0
  /\ \A i \in 1 .. Len(s) : f[i] = f[i - 1] + s[i]

LEMMA TotalIs ==
  ASSUME NEW s \in Seq(Nat)
  PROVE  \E f : Sums(f, s) /\ Total(s) = f[Len(s)]
  <1> DEFINE N == Len(s)
             step == [p \in Nat \X (1 .. N) |-> p[1] + s[p[2]]]
             Body(f) == [n \in 0 .. N |-> IF n = 0 THEN 0 ELSE f[n - 1] + s[n]]
             sum == CHOOSE f : f = Body(f)
  <1>0. N \in Nat /\ \A i \in 1 .. N : s[i] \in Nat
    OBVIOUS
  <1>1. step \in [Nat \X (1 .. N) -> Nat]
    <2>1. ASSUME NEW p \in Nat \X (1 .. N) PROVE p[1] + s[p[2]] \in Nat
      <3>1. p[1] \in Nat /\ p[2] \in 1 .. N
        OBVIOUS
      <3>2. s[p[2]] \in Nat
        BY <1>0, <3>1
      <3> QED BY <3>1, <3>2
    <2> QED BY <2>1
  <1>2. \A c \in Nat : \A i \in 1 .. N : step[<<c, i>>] = c + s[i]
    OBVIOUS
  <1> HIDE DEF step
  <1>3. PICK g : Built(g, Nat, 0, N, step)
    <2> HIDE DEF N
    <2> QED BY <1>0, <1>1, Recursion
  <1>4. /\ g \in [0 .. N -> Nat] /\ g[0] = 0
        /\ \A i \in 1 .. N : g[i - 1] \in Nat /\ g[i] = g[i - 1] + s[i]
    <2> HIDE DEF N
    <2>1. \A i \in 1 .. N : i - 1 \in 0 .. N
      BY <1>0
    <2> QED BY <1>2, <1>3, <2>1 DEF Built
  <1>5. g = Body(g)
    BY <1>0, <1>4
  <1>6. sum = Body(sum)
    <2> HIDE DEF Body
    <2> QED BY <1>5
  <1> HIDE DEF sum
  <1>7. DOMAIN sum = 0 .. N /\ sum[0] = 0
        /\ \A i \in 1 .. N : sum[i] = sum[i - 1] + s[i]
    BY <1>0, <1>6
  <1>8. 0 .. N \subseteq {n \in 0 .. N : sum[n] = g[n]}
    <2> DEFINE W == {n \in 0 .. N : sum[n] = g[n]}
    <2>1. 0 \in W
      BY <1>0, <1>4, <1>7
    <2>2. ASSUME NEW n \in 0 .. N - 1, n \in W PROVE n + 1 \in W
      <3>1. n + 1 \in 1 .. N /\ (n + 1) - 1 = n
        BY <1>0
      <3> QED BY <1>4, <1>7, <2>2, <3>1
    <2> HIDE DEF W
    <2>3. 0 .. N \subseteq W
      BY <1>0, <2>1, <2>2, UpTo
    <2> QED BY <2>3 DEF W
  <1>9. sum \in [0 .. N -> Nat]
    <2>1. \A n \in 0 .. N : sum[n] \in Nat
      BY <1>4, <1>8
    <2>2. sum = [n \in 0 .. N |-> sum[n]]
      BY <1>6, <1>7
    <2> QED BY <2>1, <2>2
  <1>10. Total(s) = sum[N]
    BY DEF Total, sum
  <1>11. Sums(sum, s)
    BY <1>7, <1>9 DEF Sums
  <1> QED BY <1>10, <1>11

LEMMA TotalNone == Total(<<>>) = 0
  <1>1. <<>> \in Seq(Nat) /\ Len(<<>>) = 0
    OBVIOUS
  <1>2. PICK f : Sums(f, <<>>) /\ Total(<<>>) = f[Len(<<>>)]
    BY <1>1, TotalIs
  <1> QED BY <1>1, <1>2 DEF Sums

\* The sum of s and then t.
LEMMA TotalJoins ==
  ASSUME NEW s \in Seq(Nat), NEW t \in Seq(Nat), NEW w \in Seq(Nat), Joins(w, s, t)
  PROVE  Total(w) = Total(s) + Total(t) /\ Total(s) \in Nat /\ Total(t) \in Nat
  <1> DEFINE N == Len(s) K == Len(t)
  <1>1. /\ N \in Nat /\ K \in Nat /\ Len(w) = N + K
        /\ \A i \in 1 .. N : w[i] = s[i] /\ s[i] \in Nat
    BY DEF Joins
  <1>2. \A i \in 1 .. K : w[N + i] = t[i] /\ t[i] \in Nat
    BY DEF Joins
  <1>3. PICK f : Sums(f, s) /\ Total(s) = f[N]
    BY TotalIs
  <1>4. PICK h : Sums(h, t) /\ Total(t) = h[K]
    BY TotalIs
  <1>5. PICK g : Sums(g, w) /\ Total(w) = g[N + K]
    BY <1>1, TotalIs
  <1>6. /\ g \in [0 .. N + K -> Nat] /\ g[0] = 0
        /\ \A i \in 1 .. N + K : g[i] = g[i - 1] + w[i]
    BY <1>1, <1>5 DEF Sums
  <1>7. f \in [0 .. N -> Nat] /\ f[0] = 0 /\ \A i \in 1 .. N : f[i] = f[i - 1] + s[i]
    BY <1>3 DEF Sums
  <1>8. h \in [0 .. K -> Nat] /\ h[0] = 0 /\ \A i \in 1 .. K : h[i] = h[i - 1] + t[i]
    BY <1>4 DEF Sums
  <1> HIDE DEF N, K
  <1>9. g[N] = f[N] /\ f[N] \in Nat /\ h[K] \in Nat
    <2> DEFINE W == {n \in 0 .. N : g[n] = f[n]}
    <2>1. 0 \in W
      BY <1>1, <1>6, <1>7
    <2>2. ASSUME NEW n \in 0 .. N - 1, n \in W PROVE n + 1 \in W
      <3>1. n + 1 \in 1 .. N /\ n + 1 \in 1 .. N + K /\ (n + 1) - 1 = n /\ g[n] = f[n]
        BY <1>1, <2>2
      <3> QED BY <1>1, <1>6, <1>7, <3>1
    <2> HIDE DEF W
    <2>3. 0 .. N \subseteq W
      BY <1>1, <2>1, <2>2, UpTo
    <2>4. N \in 0 .. N /\ K \in 0 .. K
      BY <1>1
    <2> QED BY <1>7, <1>8, <2>3, <2>4 DEF W
  <1>10. g[N + K] = f[N] + h[K]
    <2> DEFINE W == {n \in 0 .. K : g[N + n] = f[N] + h[n]}
    <2>1. 0 \in W
      BY <1>1, <1>8, <1>9
    <2>2. ASSUME NEW n \in 0 .. K - 1, n \in W PROVE n + 1 \in W
      <3>1. /\ n + 1 \in 1 .. K /\ N + (n + 1) \in 1 .. N + K /\ (N + (n + 1)) - 1 = N + n
            /\ (n + 1) - 1 = n /\ g[N + n] = f[N] + h[n] /\ n \in 0 .. K
        BY <1>1, <2>2
      <3>2. g[N + (n + 1)] = g[N + n] + w[N + (n + 1)] /\ h[n + 1] = h[n] + t[n + 1]
        BY <1>6, <1>8, <3>1
      <3>3. w[N + (n + 1)] = t[n + 1] /\ t[n + 1] \in Nat /\ h[n] \in Nat
        BY <1>2, <1>8, <3>1
      <3>4. g[N + (n + 1)] = f[N] + h[n + 1]
        <4>1. g[N + (n + 1)] = (f[N] + h[n]) + t[n + 1]
          BY ONLY <3>1, <3>2, <3>3
        <4>2. (f[N] + h[n]) + t[n + 1] = f[N] + (h[n] + t[n + 1])
          BY ONLY <1>9, <3>3
        <4> QED BY ONLY <3>2, <4>1, <4>2
      <3> QED BY <3>1, <3>4
    <2> HIDE DEF W
    <2>3. 0 .. K \subseteq W
      BY <1>1, <2>1, <2>2, UpTo
    <2>4. K \in 0 .. K
      BY <1>1
    <2> QED BY <2>3, <2>4 DEF W
  <1> QED BY <1>3, <1>4, <1>5, <1>9, <1>10

LEMMA TotalOne ==
  ASSUME NEW x \in Nat
  PROVE  Total(<<x>>) = x /\ <<x>> \in Seq(Nat)
  <1> DEFINE s == <<x>>
  <1>1. s \in Seq(Nat) /\ Len(s) = 1 /\ s[1] = x
    OBVIOUS
  <1> HIDE DEF s
  <1>2. PICK f : Sums(f, s) /\ Total(s) = f[Len(s)]
    BY <1>1, TotalIs
  <1>3. f[1] = f[0] + s[1] /\ f[0] = 0
    <2>1. 1 \in 1 .. Len(s) /\ 1 - 1 = 0
      BY <1>1
    <2> QED BY <1>2, <2>1 DEF Sums
  <1>4. Total(s) = x
    BY <1>1, <1>2, <1>3
  <1> QED BY <1>1, <1>4 DEF s

-----------------------------------------------------------------------------
(* What the window counts                                                  *)

Weight(m) == IF Carries(m) THEN 1 ELSE 0
Weights(q) == [i \in DOMAIN q |-> IF Carries(q[i]) THEN 1 ELSE 0]
Reported(m) == IF m.what = "ack" THEN m.frames ELSE 0
Reports(q) == [i \in DOMAIN q |-> IF q[i].what = "ack" THEN q[i].frames ELSE 0]

\* Acknowledgements say a number.
Acks(q) == \A i \in 1 .. Len(q) : q[i].what = "ack" => q[i].frames \in Nat

LEMMA WeightsOf ==
  ASSUME NEW q, IsSeq(q)
  PROVE  /\ Weights(q) \in Seq(Nat) /\ Len(Weights(q)) = Len(q)
         /\ \A i \in 1 .. Len(q) : Weights(q)[i] = Weight(q[i])
  <1>1. Len(q) \in Nat /\ DOMAIN q = 1 .. Len(q)
    BY LenNat
  <1>2. Weights(q) = [i \in 1 .. Len(q) |-> IF Carries(q[i]) THEN 1 ELSE 0]
    BY <1>1 DEF Weights
  <1>3. Weights(q) \in Seq(Nat) /\ Len(Weights(q)) = Len(q)
    BY <1>1, <1>2
  <1> QED BY <1>2, <1>3 DEF Weight

LEMMA ReportsOf ==
  ASSUME NEW q, IsSeq(q), Acks(q)
  PROVE  /\ Reports(q) \in Seq(Nat) /\ Len(Reports(q)) = Len(q)
         /\ \A i \in 1 .. Len(q) : Reports(q)[i] = Reported(q[i])
  <1>1. Len(q) \in Nat /\ DOMAIN q = 1 .. Len(q)
    BY LenNat
  <1>2. Reports(q) = [i \in 1 .. Len(q) |-> IF q[i].what = "ack" THEN q[i].frames ELSE 0]
    BY <1>1 DEF Reports
  <1>3. Reports(q) \in Seq(Nat) /\ Len(Reports(q)) = Len(q)
    BY <1>1, <1>2 DEF Acks
  <1> QED BY <1>2, <1>3 DEF Reported

LEMMA WeightsJoin ==
  ASSUME NEW w, NEW s, NEW t, IsSeq(w), IsSeq(s), IsSeq(t), Joins(w, s, t)
  PROVE  /\ Total(Weights(w)) = Total(Weights(s)) + Total(Weights(t))
         /\ Total(Weights(s)) \in Nat /\ Total(Weights(t)) \in Nat
  <1>1. /\ Weights(w) \in Seq(Nat) /\ Len(Weights(w)) = Len(w)
        /\ \A i \in 1 .. Len(w) : Weights(w)[i] = Weight(w[i])
    BY WeightsOf
  <1>2. /\ Weights(s) \in Seq(Nat) /\ Len(Weights(s)) = Len(s)
        /\ \A i \in 1 .. Len(s) : Weights(s)[i] = Weight(s[i])
    BY WeightsOf
  <1>3. /\ Weights(t) \in Seq(Nat) /\ Len(Weights(t)) = Len(t)
        /\ \A i \in 1 .. Len(t) : Weights(t)[i] = Weight(t[i])
    BY WeightsOf
  <1>4. Len(s) \in Nat /\ Len(t) \in Nat /\ Len(w) = Len(s) + Len(t)
    BY LenNat DEF Joins
  <1>5. \A i \in 1 .. Len(s) : i \in 1 .. Len(w) /\ w[i] = s[i]
    BY <1>4 DEF Joins
  <1>6. \A i \in 1 .. Len(t) : Len(s) + i \in 1 .. Len(w) /\ w[Len(s) + i] = t[i]
    BY <1>4 DEF Joins
  <1> DEFINE A == Weights(w) B == Weights(s) C == Weights(t)
  <1> HIDE DEF A, B, C
  <1>7. Joins(A, B, C)
    <2>1. \A i \in 1 .. Len(s) : A[i] = B[i]
      BY <1>1, <1>2, <1>5 DEF A, B
    <2>2. \A i \in 1 .. Len(t) : A[Len(s) + i] = C[i]
      BY <1>1, <1>3, <1>6 DEF A, C
    <2>3. Len(A) = Len(w) /\ Len(B) = Len(s) /\ Len(C) = Len(t)
      BY <1>1, <1>2, <1>3 DEF A, B, C
    <2> QED BY <1>4, <2>1, <2>2, <2>3 DEF Joins
  <1>8. A \in Seq(Nat) /\ B \in Seq(Nat) /\ C \in Seq(Nat)
    BY <1>1, <1>2, <1>3 DEF A, B, C
  <1>9. Total(A) = Total(B) + Total(C) /\ Total(B) \in Nat /\ Total(C) \in Nat
    BY <1>7, <1>8, TotalJoins
  <1> QED BY <1>9 DEF A, B, C

LEMMA ReportsJoin ==
  ASSUME NEW w, NEW s, NEW t, IsSeq(w), IsSeq(s), IsSeq(t), Joins(w, s, t),
         Acks(w), Acks(s), Acks(t)
  PROVE  /\ Total(Reports(w)) = Total(Reports(s)) + Total(Reports(t))
         /\ Total(Reports(s)) \in Nat /\ Total(Reports(t)) \in Nat
  <1>1. /\ Reports(w) \in Seq(Nat) /\ Len(Reports(w)) = Len(w)
        /\ \A i \in 1 .. Len(w) : Reports(w)[i] = Reported(w[i])
    BY ReportsOf
  <1>2. /\ Reports(s) \in Seq(Nat) /\ Len(Reports(s)) = Len(s)
        /\ \A i \in 1 .. Len(s) : Reports(s)[i] = Reported(s[i])
    BY ReportsOf
  <1>3. /\ Reports(t) \in Seq(Nat) /\ Len(Reports(t)) = Len(t)
        /\ \A i \in 1 .. Len(t) : Reports(t)[i] = Reported(t[i])
    BY ReportsOf
  <1>4. Len(s) \in Nat /\ Len(t) \in Nat /\ Len(w) = Len(s) + Len(t)
    BY LenNat DEF Joins
  <1>5. \A i \in 1 .. Len(s) : i \in 1 .. Len(w) /\ w[i] = s[i]
    BY <1>4 DEF Joins
  <1>6. \A i \in 1 .. Len(t) : Len(s) + i \in 1 .. Len(w) /\ w[Len(s) + i] = t[i]
    BY <1>4 DEF Joins
  <1> DEFINE A == Reports(w) B == Reports(s) C == Reports(t)
  <1> HIDE DEF A, B, C
  <1>7. Joins(A, B, C)
    <2>1. \A i \in 1 .. Len(s) : A[i] = B[i]
      BY <1>1, <1>2, <1>5 DEF A, B
    <2>2. \A i \in 1 .. Len(t) : A[Len(s) + i] = C[i]
      BY <1>1, <1>3, <1>6 DEF A, C
    <2>3. Len(A) = Len(w) /\ Len(B) = Len(s) /\ Len(C) = Len(t)
      BY <1>1, <1>2, <1>3 DEF A, B, C
    <2> QED BY <1>4, <2>1, <2>2, <2>3 DEF Joins
  <1>8. A \in Seq(Nat) /\ B \in Seq(Nat) /\ C \in Seq(Nat)
    BY <1>1, <1>2, <1>3 DEF A, B, C
  <1>9. Total(A) = Total(B) + Total(C) /\ Total(B) \in Nat /\ Total(C) \in Nat
    BY <1>7, <1>8, TotalJoins
  <1> QED BY <1>9 DEF A, B, C

LEMMA WeightsOne ==
  ASSUME NEW m
  PROVE  Total(Weights(<<m>>)) = Weight(m) /\ Weight(m) \in {0, 1}
  <1>1. IsSeq(<<m>>) /\ Len(<<m>>) = 1 /\ <<m>>[1] = m
    BY OneSeq
  <1> DEFINE A == Weights(<<m>>)
  <1>2. A \in Seq(Nat) /\ Len(A) = 1 /\ A[1] = Weight(m)
    BY <1>1, WeightsOf
  <1>3. Weight(m) \in {0, 1}
    BY DEF Weight
  <1> HIDE DEF A
  <1>4. A = <<Weight(m)>>
    BY <1>2
  <1> QED BY <1>3, <1>4, TotalOne DEF A

LEMMA ReportsOne ==
  ASSUME NEW m, m.what = "ack" => m.frames \in Nat
  PROVE  Total(Reports(<<m>>)) = Reported(m) /\ Reported(m) \in Nat /\ Acks(<<m>>)
  <1>1. IsSeq(<<m>>) /\ Len(<<m>>) = 1 /\ <<m>>[1] = m
    BY OneSeq
  <1>2. Acks(<<m>>)
    BY <1>1 DEF Acks
  <1> DEFINE A == Reports(<<m>>)
  <1>3. A \in Seq(Nat) /\ Len(A) = 1 /\ A[1] = Reported(m)
    BY <1>1, <1>2, ReportsOf
  <1>4. Reported(m) \in Nat
    BY DEF Reported
  <1> HIDE DEF A
  <1>5. A = <<Reported(m)>>
    BY <1>3
  <1> QED BY <1>2, <1>4, <1>5, TotalOne DEF A

\* A frame is sent.
LEMMA WeightsAppend ==
  ASSUME NEW q, IsSeq(q), NEW m
  PROVE  /\ Total(Weights(Append(q, m))) = Total(Weights(q)) + Weight(m)
         /\ Total(Weights(q)) \in Nat /\ Weight(m) \in {0, 1}
  <1>1. IsSeq(Append(q, m)) /\ Joins(Append(q, m), q, <<m>>) /\ IsSeq(<<m>>)
    BY AppendSeq, OneSeq
  <1> QED BY <1>1, WeightsJoin, WeightsOne

LEMMA ReportsAppend ==
  ASSUME NEW q, IsSeq(q), Acks(q), NEW m, m.what = "ack" => m.frames \in Nat
  PROVE  /\ Total(Reports(Append(q, m))) = Total(Reports(q)) + Reported(m)
         /\ Total(Reports(q)) \in Nat /\ Reported(m) \in Nat /\ Acks(Append(q, m))
  <1>1. /\ IsSeq(Append(q, m)) /\ Joins(Append(q, m), q, <<m>>) /\ IsSeq(<<m>>)
        /\ Len(Append(q, m)) = Len(q) + 1 /\ Append(q, m)[Len(q) + 1] = m /\ Len(q) \in Nat
        /\ \A i \in 1 .. Len(q) : Append(q, m)[i] = q[i]
    BY AppendSeq, OneSeq, LenNat
  <1>2. Acks(Append(q, m))
    <2> DEFINE w == Append(q, m)
    <2> HIDE DEF w
    <2>1. \A i \in 1 .. Len(w) : i \in 1 .. Len(q) \/ i = Len(q) + 1
      BY <1>1 DEF w
    <2>2. Acks(w)
      BY <1>1, <2>1 DEF Acks, w
    <2> QED BY <2>2 DEF w
  <1> QED BY <1>1, <1>2, ReportsJoin, ReportsOne

\* The first frame arrives.
LEMMA HeadJoins ==
  ASSUME NEW q, IsSeq(q), q # <<>>
  PROVE  Joins(q, <<q[1]>>, Tail(q)) /\ IsSeq(<<q[1]>>) /\ IsSeq(Tail(q))
  <1>1. /\ IsSeq(Tail(q)) /\ Len(q) \in Nat /\ Len(q) >= 1 /\ Len(Tail(q)) = Len(q) - 1
        /\ \A i \in 1 .. Len(q) - 1 : Tail(q)[i] = q[i + 1]
    BY TailSeq
  <1>2. IsSeq(<<q[1]>>) /\ Len(<<q[1]>>) = 1 /\ <<q[1]>>[1] = q[1]
    BY OneSeq
  <1>3. Joins(q, <<q[1]>>, Tail(q))
    <2> DEFINE s == <<q[1]>> t == Tail(q)
    <2> HIDE DEF s, t
    <2>1. Len(q) = Len(s) + Len(t) /\ \A i \in 1 .. Len(s) : q[i] = s[i]
      BY <1>1, <1>2 DEF s, t
    <2>2. \A i \in 1 .. Len(t) : q[Len(s) + i] = t[i]
      BY <1>1, <1>2 DEF s, t
    <2>3. Joins(q, s, t)
      BY <2>1, <2>2 DEF Joins
    <2> QED BY <2>3 DEF s, t
  <1> QED BY <1>1, <1>2, <1>3

LEMMA WeightsTail ==
  ASSUME NEW q, IsSeq(q), q # <<>>
  PROVE  /\ Total(Weights(q)) = Weight(q[1]) + Total(Weights(Tail(q)))
         /\ Total(Weights(Tail(q))) \in Nat /\ Weight(q[1]) \in {0, 1}
  <1>1. Joins(q, <<q[1]>>, Tail(q)) /\ IsSeq(<<q[1]>>) /\ IsSeq(Tail(q))
    BY HeadJoins
  <1>2. /\ Total(Weights(q)) = Total(Weights(<<q[1]>>)) + Total(Weights(Tail(q)))
        /\ Total(Weights(Tail(q))) \in Nat
    BY ONLY <1>1, IsSeq(q), WeightsJoin
  <1>3. Total(Weights(<<q[1]>>)) = Weight(q[1]) /\ Weight(q[1]) \in {0, 1}
    BY WeightsOne
  <1> QED BY <1>2, <1>3

LEMMA ReportsTail ==
  ASSUME NEW q, IsSeq(q), q # <<>>, Acks(q)
  PROVE  /\ Total(Reports(q)) = Reported(q[1]) + Total(Reports(Tail(q)))
         /\ Total(Reports(Tail(q))) \in Nat /\ Reported(q[1]) \in Nat /\ Acks(Tail(q))
  <1>1. /\ Len(q) \in Nat /\ Len(q) >= 1 /\ Len(Tail(q)) = Len(q) - 1
        /\ \A i \in 1 .. Len(q) - 1 : Tail(q)[i] = q[i + 1]
    BY TailSeq
  <1>2. Acks(Tail(q))
    <2>1. \A i \in 1 .. Len(q) - 1 : i + 1 \in 1 .. Len(q)
      BY <1>1
    <2> QED BY <1>1, <2>1 DEF Acks
  <1>3. q[1].what = "ack" => q[1].frames \in Nat
    BY <1>1 DEF Acks
  <1>4. Joins(q, <<q[1]>>, Tail(q)) /\ IsSeq(<<q[1]>>) /\ IsSeq(Tail(q))
    BY HeadJoins
  <1>5. /\ Total(Reports(<<q[1]>>)) = Reported(q[1]) /\ Reported(q[1]) \in Nat
        /\ Acks(<<q[1]>>)
    BY <1>3, ReportsOne
  <1>6. /\ Total(Reports(q)) = Total(Reports(<<q[1]>>)) + Total(Reports(Tail(q)))
        /\ Total(Reports(Tail(q))) \in Nat
    BY ONLY <1>2, <1>4, <1>5, IsSeq(q), Acks(q), ReportsJoin
  <1> QED BY <1>2, <1>5, <1>6

LEMMA NothingOnWire == Total(Weights(<<>>)) = 0 /\ Total(Reports(<<>>)) = 0 /\ Acks(<<>>)
  <1>1. Len(<<>>) = 0 /\ DOMAIN <<>> = {}
    OBVIOUS
  <1>2. Weights(<<>>) = <<>> /\ Reports(<<>>) = <<>>
    BY DEF Weights, Reports
  <1>3. Acks(<<>>)
    BY <1>1 DEF Acks
  <1> QED BY <1>2, <1>3, TotalNone

-----------------------------------------------------------------------------
(* The invariant *)

StreamFields == {"live", "exact", "parts", "cut", "waiting", "next", "transit", "ask", "full",
                 "mark", "known", "batch", "ended"}
TermShape(t) ==
  /\ DOMAIN t = {"content", "size", "open"}
  /\ t.content \in Seq(Sizes) /\ t.size \in Sizes /\ t.open \in BOOLEAN
StreamShape(s) ==
  /\ DOMAIN s = StreamFields
  /\ s.live \in BOOLEAN /\ s.exact \in {"owed", "due", "held"} /\ s.parts \in Nat
  /\ IsSeq(s.waiting) /\ Waits(s.waiting) /\ s.next \in Nat /\ s.transit \in Nat
  /\ s.ask \in {"none", "asked", "answered"} /\ s.ended \in {"no", "drain", "done"}
  /\ Cardinality(Raws(s)) <= Window /\ (~s.live => s.waiting = <<>>)
ViewerShape(v) ==
  /\ DOMAIN v = {"parts", "started", "unacked"}
  /\ v.started \in BOOLEAN /\ v.unacked \in Nat
ActShape(a) ==
  /\ DOMAIN a = {"next", "resyncing", "failed", "ended"}
  /\ a.next = <<>> \/ \E n \in Nat : a.next = <<n>>
  /\ a.resyncing \in BOOLEAN /\ a.ended \in BOOLEAN

\* The frames of a channel.
Channel(q) == \A i \in 1 .. Len(q) : q[i].what \in {"keyframe", "output", "resize", "end"}

\* The types, and the count of what is on the way.
Shape ==
  /\ TermShape(term) /\ StreamShape(st) /\ ViewerShape(viewer) /\ ActShape(act)
  /\ IsSeq(buf) /\ Len(buf) <= Buffered /\ lagged \in BOOLEAN /\ Frames(buf)
  /\ IsSeq(wire) /\ Channel(wire) /\ IsSeq(acks) /\ Acks(acks) /\ IsSeq(ups)
  /\ st.transit = Total(Weights(wire)) + viewer.unacked + Total(Reports(acks))

\* The frames of the broadcast lead to where the terminal is, and a closed one is the last.
LogRight ==
  /\ \E n, x : Marked(buf, 0, n, x, term.content, term.size)
  /\ \A i \in 1 .. Len(buf) : buf[i].what = "closed" => i = Len(buf) /\ ~term.open

\* The next frame of output that the actor takes; any snapshot, if it has none.
NextOf == IF act.next = <<>> THEN -1 ELSE act.next[1]

\* The updates lead the views on, and the frames behind them.
Onwards(k, x, m, y) ==
  /\ \E z : /\ act.next # <<>> => z = view[1].size
            /\ Path(ups, NextOf, z, k, x, term.content)
  /\ Path(wire, k, x, m, y, term.content)

\* What waits in the stream s goes on from the place <<m, y>>, or from its keyframe, to <<n, z>>.
Place(s, m, y, n, z, T) ==
  \E b : /\ s.parts > 0 => b = s.cut[1].size
         /\ s.parts = 0 => m = s.next /\ b = y
         /\ Path(s.waiting, s.next, b, n, z, T) /\ NextWaiting(s) = n

\* The Stream goes on where the wire ends, and reads on where its own frames end.
Sends(m, y) ==
  /\ st.parts > 0 => CutAt(st.cut, st.next, st.cut[1].size, term.content)
  /\ st.live => \E n, z : /\ Place(st, m, y, n, z, term.content)
                          /\ ~lagged => Follows(buf, n, z, term.content, term.size)

WayRight == \E k, x, m, y : Onwards(k, x, m, y) /\ Sends(m, y)

\* A snapshot that was asked for, and its barrier.
AskRight ==
  /\ st.ask # "none" => ~st.live /\ st.parts = 0 /\ st.ended = "no"
  /\ st.ask = "answered" =>
       /\ CutAt(st.cut, Len(st.cut[1].content), st.cut[1].size, term.content)
       /\ Barred(buf, st.mark, Len(st.cut[1].content), st.cut[1].size, term.content, term.size)

\* Nothing comes after the end.
EndsRight ==
  /\ \A i \in 1 .. Len(wire) : wire[i].what = "end" => i = Len(wire) /\ st.ended = "done"
  /\ \A i \in 1 .. Len(ups) : ups[i].what = "end" => i = Len(ups) /\ wire = <<>> /\ st.ended = "done"
  /\ act.ended => ups = <<>> /\ wire = <<>> /\ st.ended = "done"
  /\ st.ended = "done" => st.parts = 0 /\ st.waiting = <<>>
  /\ st.ended # "no" => ~term.open /\ buf = <<>> /\ ~lagged /\ st.ask = "none"

\* What the views have, and what the actor knows of it.
ActRight ==
  /\ ~viewer.started => act.next = <<>> /\ (ups # <<>> => wire = <<>> /\ st.ended = "done")
  /\ ~viewer.started => \A i \in 1 .. Len(ups) : ups[i].what = "end"
  /\ ~act.failed
  /\ view = <<>> \/ OneCut(view)
  /\ act.next = <<>> /\ view # <<>> => act.resyncing
  /\ act.next # <<>> => CutAt(view, act.next[1], view[1].size, term.content)

IInv == Shape /\ LogRight /\ WayRight /\ AskRight /\ EndsRight /\ ActRight

-----------------------------------------------------------------------------
(* What follows from it *)

LEMMA CutIs ==
  ASSUME NEW v, NEW n, NEW x, NEW T, CutAt(v, n, x, T)
  PROVE  /\ Len(v) = 1 /\ v # <<>> /\ v[1].size = x /\ x \in Sizes
         /\ v[1].content \in Seq(Sizes) /\ Len(v[1].content) = n /\ n \in Nat /\ n <= Len(T)
         /\ \A i \in 1 .. n : v[1].content[i] = T[i]
  <1>1. PICK c : v = <<c>> /\ c.content \in Seq(Sizes) /\ c.size \in Sizes
    BY DEF CutAt, OneCut
  <1>2. Len(v) = 1 /\ v # <<>> /\ v[1] = c
    BY <1>1
  <1> QED BY <1>1, <1>2 DEF CutAt

LEMMA ShapeTypes ==
  ASSUME Shape, view = <<>> \/ OneCut(view)
  PROVE  TypeOK
  <1>1. Len(view) <= 1
    <2>1. CASE view = <<>>
      BY <2>1
    <2>2. CASE OneCut(view)
      BY <2>2 DEF OneCut
    <2> QED BY <2>1, <2>2
  <1>2. OnWire = Total(Weights(wire)) /\ Acked = Total(Reports(acks))
    BY DEF OnWire, Acked, Weights, Reports
  <1>3. st.transit = OnWire + viewer.unacked + Acked
    BY <1>2 DEF Shape
  <1> QED BY <1>1, <1>3 DEF Shape, TermShape, StreamShape, TypeOK

LEMMA ViewIs ==
  ASSUME IInv
  PROVE  Faithful /\ InOrder
  <1> SUFFICES ASSUME view # <<>>, act.next # <<>>
               PROVE  /\ Len(view[1].content) = act.next[1]
                      /\ IsPrefix(view[1].content, term.content)
    BY DEF IInv, ActRight, Faithful, InOrder
  <1> DEFINE n == act.next[1] V == view[1].content T == term.content
  <1>1. CutAt(view, n, view[1].size, T)
    BY DEF IInv, ActRight
  <1>2. T \in Seq(Sizes)
    BY DEF IInv, Shape, TermShape
  <1>3. /\ V \in Seq(Sizes) /\ Len(V) = n /\ n \in Nat /\ n <= Len(T)
        /\ \A i \in 1 .. n : V[i] = T[i]
    BY <1>1, CutIs
  <1> HIDE DEF n, V, T
  <1>4. SubSeq(V, 1, Len(V)) = SubSeq(T, 1, Len(V))
    BY <1>2, <1>3
  <1>5. IsPrefix(V, T)
    BY <1>2, <1>3, <1>4 DEF IsPrefix
  <1> QED BY <1>3, <1>5 DEF n, V, T

\* Nothing is on its way: then the views are where the terminal is.
LEMMA NothingLeft ==
  ASSUME IInv, st.live, st.parts = 0, st.waiting = <<>>, buf = <<>>, ~lagged, wire = <<>>, ups = <<>>
  PROVE  Same
  <1> DEFINE T == term.content
  <1>1. T \in Seq(Sizes) /\ Len(T) \in Nat /\ st.next \in Nat
    BY DEF IInv, Shape, TermShape, StreamShape
  <1>2. PICK k, x, m, y : Onwards(k, x, m, y) /\ Sends(m, y)
    BY DEF IInv, WayRight
  <1>3. PICK z : (act.next # <<>> => z = view[1].size) /\ Path(<<>>, NextOf, z, k, x, T)
    BY <1>2 DEF Onwards
  <1>4. Path(<<>>, k, x, m, y, T)
    BY <1>2 DEF Onwards
  <1>5. k = NextOf /\ x = z /\ m = k /\ y = x
    BY <1>3, <1>4, PathStays
  <1>6. PICK n, w : Place(st, m, y, n, w, T) /\ Follows(<<>>, n, w, T, term.size)
    BY <1>2 DEF Sends
  <1>7. m = st.next /\ Path(<<>>, st.next, y, n, w, T)
    BY <1>6 DEF Place
  <1>8. n = st.next /\ w = y
    BY <1>7, PathStays
  <1>9. PICK j, r : Marked(<<>>, j, n, r, T, term.size) /\ (r = w \/ SizeComes(<<>>, j, n))
    BY <1>6 DEF Follows
  <1>10. n = Len(T) /\ r = term.size
    BY <1>9, MarkedEmpty
  <1>11. j \in 0 .. 0
    <2>1. Len(<<>>) = 0
      OBVIOUS
    <2> QED BY <1>9, <2>1, MarkedTypes
  <1>12. ~SizeComes(<<>>, j, n)
    <2>1. j + 1 .. Len(<<>>) = {}
      BY <1>11
    <2> QED BY <2>1 DEF SizeComes
  <1>13. w = term.size
    BY <1>9, <1>10, <1>12
  <1>14. act.next # <<>> /\ act.next[1] = Len(T)
    BY <1>1, <1>5, <1>7, <1>8, <1>10 DEF NextOf
  <1>15. z = view[1].size
    BY <1>3, <1>14
  <1>16. view[1].size = term.size
    BY <1>5, <1>8, <1>13, <1>15
  <1>17. CutAt(view, Len(T), view[1].size, T)
    BY <1>14 DEF IInv, ActRight
  <1> DEFINE V == view[1].content
  <1>18. /\ view # <<>> /\ V \in Seq(Sizes) /\ Len(V) = Len(T)
         /\ \A i \in 1 .. Len(T) : V[i] = T[i]
    BY <1>17, CutIs
  <1> HIDE DEF V, T
  <1>19. V = T
    BY <1>1, <1>18
  <1> QED BY <1>16, <1>18, <1>19 DEF Same, V, T

LEMMA Consequences ==
  ASSUME IInv
  PROVE  ViewFaithful /\ ViewSettled
  <1>1. TypeOK
    BY ShapeTypes DEF IInv, ActRight
  <1>2. Settled
    <2> SUFFICES ASSUME Quiet PROVE Same
      BY DEF Settled
    <2> QED BY NothingLeft DEF Quiet
  <1>3. EndComplete
    <2> SUFFICES ASSUME act.ended, st.live PROVE Same
      BY DEF EndComplete
    <2>1. ups = <<>> /\ wire = <<>> /\ st.ended = "done"
      BY DEF IInv, EndsRight
    <2>2. st.parts = 0 /\ st.waiting = <<>> /\ buf = <<>> /\ ~lagged
      BY <2>1 DEF IInv, EndsRight
    <2> QED BY <2>1, <2>2, NothingLeft
  <1> QED BY <1>1, <1>2, <1>3, ViewIs DEF ViewFaithful, ViewSettled

-----------------------------------------------------------------------------
(* The broadcast *)

\* The frame f was published, and the terminal shows U at the size r.
Kept(f, U, r) ==
  /\ IsSeq(buf') /\ Len(buf') <= Buffered /\ lagged' \in BOOLEAN /\ Frames(buf')
  /\ \E n, x : Marked(buf', 0, n, x, U, r)
  /\ \A i \in 1 .. Len(buf') : buf'[i].what = "closed" => i = Len(buf') /\ f.what = "closed"
FollowsOn(f, U, r) ==
  \A n, z : /\ ~lagged => Follows(buf, n, z, term.content, term.size)
            /\ ~lagged'
            => Follows(buf', n, z, U, r)
BarredOn(f, U, r) ==
  \A mark, n, x : f.what # "barrier" /\ Barred(buf, mark, n, x, term.content, term.size)
                  => Barred(buf', mark, n, x, U, r)
BarredNow(f, U, r) == f.what = "barrier" => Barred(buf', f.mark, Len(U), r, U, r)

\* A full queue takes one more.
LEMMA PushSeq ==
  ASSUME NEW q, IsSeq(q), q # <<>>, NEW f
  PROVE  /\ IsSeq(Append(Tail(q), f)) /\ Len(Append(Tail(q), f)) = Len(q)
         /\ Append(Tail(q), f)[Len(q)] = f
         /\ \A i \in 1 .. Len(q) - 1 : Append(Tail(q), f)[i] = q[i + 1]
  <1> DEFINE b == Tail(q) t == Append(b, f)
  <1>1. /\ IsSeq(b) /\ Len(q) \in Nat /\ Len(b) = Len(q) - 1
        /\ \A i \in 1 .. Len(q) - 1 : b[i] = q[i + 1]
    BY TailSeq
  <1> HIDE DEF b
  <1>2. /\ IsSeq(t) /\ Len(t) = Len(b) + 1 /\ t[Len(b) + 1] = f
        /\ \A i \in 1 .. Len(b) : t[i] = b[i]
    BY <1>1, AppendSeq
  <1> HIDE DEF t
  <1>3. /\ Len(t) = Len(q) /\ t[Len(q)] = f
        /\ \A i \in 1 .. Len(q) - 1 : t[i] = q[i + 1]
    BY <1>1, <1>2
  <1> QED BY <1>2, <1>3 DEF t, b

LEMMA Publishing ==
  ASSUME Shape, LogRight, term.open, NEW f, NEW U, NEW r \in Sizes, Publish(f), Grows(term.content, U),
         Step(f, Len(term.content), term.size, Len(U), r, U),
         f.what \in {"raw", "resize", "barrier", "closed"}
  PROVE  Kept(f, U, r) /\ FollowsOn(f, U, r) /\ BarredOn(f, U, r) /\ BarredNow(f, U, r)
  <1> DEFINE T == term.content s == term.size w == Append(buf, f)
  <1>1. /\ IsSeq(buf) /\ Len(buf) \in Nat /\ Len(buf) <= Buffered /\ Frames(buf)
        /\ s \in Sizes /\ lagged \in BOOLEAN /\ Buffered \in Nat /\ Buffered # 0
    BY LenNat, RemoteStreamAssumption DEF Shape, TermShape
  <1>2. PICK n0, x0 : Marked(buf, 0, n0, x0, T, s)
    BY DEF LogRight
  <1>3. \A i \in 1 .. Len(buf) : buf[i].what # "closed"
    BY DEF LogRight
  <1>4. /\ IsSeq(w) /\ Len(w) = Len(buf) + 1 /\ w[Len(buf) + 1] = f
        /\ \A i \in 1 .. Len(buf) : w[i] = buf[i]
    BY <1>1, AppendSeq
  <1> HIDE DEF T, s, w
  <1>5. /\ Grows(T, U) /\ Step(f, Len(T), s, Len(U), r, U)
    BY DEF T, s
  <1>6. \A k, n, x : Marked(buf, k, n, x, T, s)
                     => Marked(w, k, n, x, U, r) /\ Marked(w, Len(buf) + 1, Len(U), r, U, r)
    <2> SUFFICES ASSUME NEW k, NEW n, NEW x, Marked(buf, k, n, x, T, s)
                 PROVE  Marked(w, k, n, x, U, r) /\ Marked(w, Len(buf) + 1, Len(U), r, U, r)
      OBVIOUS
    <2> QED BY <1>1, <1>5, MarkedAppend DEF w
  <1>7. Marked(w, 0, n0, x0, U, r) /\ Marked(w, Len(buf) + 1, Len(U), r, U, r)
    BY <1>2, <1>6
  <1>8. \A i \in 1 .. Len(w) : /\ w[i].what \in {"raw", "resize", "barrier", "closed"}
                               /\ w[i].what = "closed" => i = Len(w) /\ f.what = "closed"
    <2> SUFFICES ASSUME NEW i \in 1 .. Len(w)
                 PROVE  /\ w[i].what \in {"raw", "resize", "barrier", "closed"}
                        /\ w[i].what = "closed" => i = Len(w) /\ f.what = "closed"
      OBVIOUS
    <2>1. CASE i = Len(w)
      BY <1>1, <1>4, <2>1
    <2>2. CASE i # Len(w)
      <3>1. i \in 1 .. Len(buf) /\ w[i] = buf[i]
        BY <1>1, <1>4, <2>2
      <3> QED BY <1>1, <1>3, <3>1 DEF Frames
    <2> QED BY <2>1, <2>2
  <1>9. Barred(w, f.mark, Len(U), r, U, r) \/ f.what # "barrier"
    <2> SUFFICES ASSUME f.what = "barrier" PROVE Barred(w, f.mark, Len(U), r, U, r)
      OBVIOUS
    <2>1. Len(w) \in 1 .. Len(w) /\ Marked(w, Len(w), Len(U), r, U, r) /\ Len(w) + 1 .. Len(w) = {}
      BY <1>1, <1>4, <1>7
    <2> QED BY <2>1 DEF Barred
  <1>10. \A mark, n, x : f.what # "barrier" /\ Barred(buf, mark, n, x, T, s)
                         => Barred(w, mark, n, x, U, r)
    <2> SUFFICES ASSUME NEW mark, NEW n, NEW x, f.what # "barrier", Barred(buf, mark, n, x, T, s)
                 PROVE  Barred(w, mark, n, x, U, r)
      OBVIOUS
    <2> QED BY <1>1, <1>5, BarredAppend DEF w
  <1>11. CASE Len(buf) < Buffered
    <2>1. buf' = w /\ lagged' = lagged
      BY <1>11 DEF Publish, w
    <2>2. Kept(f, U, r)
      BY <1>1, <1>4, <1>7, <1>8, <1>11, <2>1 DEF Kept, Frames
    <2>3. FollowsOn(f, U, r)
      <3> SUFFICES ASSUME NEW n, NEW z, Follows(buf, n, z, T, s) PROVE Follows(w, n, z, U, r)
        BY <2>1 DEF FollowsOn, T, s
      <3> QED BY <1>1, <1>5, FollowsAppend DEF w
    <2>4. BarredOn(f, U, r) /\ BarredNow(f, U, r)
      BY <1>9, <1>10, <2>1 DEF BarredOn, BarredNow, T, s
    <2> QED BY <2>2, <2>3, <2>4
  <1>12. CASE ~(Len(buf) < Buffered)
    <2> DEFINE t == Append(Tail(buf), f) p == Tail(w)
    <2>1. buf' = t /\ lagged' = TRUE
      BY <1>12 DEF Publish
    <2>2. Len(buf) >= 1 /\ buf # <<>> /\ Len(buf) = Buffered
      BY <1>1, <1>12, LenNat
    <2>3. /\ IsSeq(Tail(buf)) /\ Len(Tail(buf)) = Len(buf) - 1
          /\ \A i \in 1 .. Len(buf) - 1 : Tail(buf)[i] = buf[i + 1]
      BY <1>1, <2>2, TailSeq
    <2>4. /\ IsSeq(t) /\ Len(t) = Len(buf) /\ t[Len(buf)] = f
          /\ \A i \in 1 .. Len(buf) - 1 : t[i] = buf[i + 1]
      BY <1>1, <2>2, PushSeq
    <2> HIDE DEF t, p
    <2>5. /\ w # <<>> /\ IsSeq(p) /\ Leaves(p, w, 1) /\ Len(p) = Len(buf)
          /\ \A i \in 1 .. Len(buf) : p[i] = w[i + 1]
      <3>1. w # <<>>
        BY <1>1, <1>4, LenNat
      <3>2. /\ IsSeq(p) /\ Leaves(p, w, 1) /\ Len(p) = Len(w) - 1
            /\ \A i \in 1 .. Len(w) - 1 : p[i] = w[i + 1]
        BY <1>4, <3>1, TailSeq DEF p
      <3>3. Len(w) - 1 = Len(buf)
        BY <1>1, <1>4
      <3> QED BY <3>1, <3>2, <3>3
    <2>6. \A i \in 1 .. Len(buf) : t[i] = w[i + 1]
      <3> SUFFICES ASSUME NEW i \in 1 .. Len(buf) PROVE t[i] = w[i + 1]
        OBVIOUS
      <3>1. CASE i = Len(buf)
        BY <1>4, <2>4, <3>1
      <3>2. CASE i # Len(buf)
        <4>1. i \in 1 .. Len(buf) - 1 /\ i + 1 \in 1 .. Len(buf)
          BY <1>1, <3>2
        <4> QED BY <1>4, <2>4, <4>1
      <3> QED BY <3>1, <3>2
    <2>7. t = p
      <3>1. PICK S : t \in Seq(S)
        BY <2>4 DEF IsSeq
      <3>2. PICK R : p \in Seq(R)
        BY <2>5 DEF IsSeq
      <3>3. \A i \in 1 .. Len(buf) : t[i] = p[i]
        BY <2>5, <2>6
      <3> QED BY <2>4, <2>5, <3>1, <3>2, <3>3
    <2>8. Marked(p, 0, Len(U), r, U, r) \/ \E n, x : Marked(p, 0, n, x, U, r)
      <3>1. Begins(w, 0, n0, x0, U, r)
        BY <1>4, <1>7, <2>5, MarkedHead
      <3>2. PICK j, z : Marked(w, 1, j, z, U, r)
        BY <3>1 DEF Begins
      <3>3. Marked(p, 1 - 1, j, z, U, r)
        <4>1. Len(w) \in Nat /\ 1 <= Len(w) /\ 1 \in Nat
          BY <1>1, <1>4
        <4>2. Leaves(p, w, 1) /\ 1 <= 1
          BY <2>5
        <4> QED BY ONLY <3>2, <4>1, <4>2, MarkedLeaves
      <3>4. 1 - 1 = 0
        OBVIOUS
      <3> QED BY <3>3, <3>4
    <2>9. Kept(f, U, r)
      <3>1. \A i \in 1 .. Len(p) : i + 1 \in 1 .. Len(w) /\ p[i] = w[i + 1] /\ (i + 1 = Len(w) => i = Len(p))
        BY <1>1, <1>4, <2>5
      <3>2. /\ Frames(p)
            /\ \A i \in 1 .. Len(p) : p[i].what = "closed" => i = Len(p) /\ f.what = "closed"
        BY <1>8, <3>1 DEF Frames
      <3> QED BY <2>1, <2>2, <2>5, <2>7, <2>8, <3>2 DEF Kept
    <2>10. FollowsOn(f, U, r)
      BY <2>1 DEF FollowsOn
    <2>11. \A mark, n, x : Barred(w, mark, n, x, U, r) => Barred(p, mark, n, x, U, r)
      <3> SUFFICES ASSUME NEW mark, NEW n, NEW x, Barred(w, mark, n, x, U, r)
                   PROVE  Barred(p, mark, n, x, U, r)
        OBVIOUS
      <3> QED BY <1>4, <2>5, BarredTail DEF p
    <2>12. BarredOn(f, U, r) /\ BarredNow(f, U, r)
      BY <1>9, <1>10, <2>1, <2>7, <2>11 DEF BarredOn, BarredNow, T, s
    <2> QED BY <2>9, <2>10, <2>12
  <1> QED BY <1>11, <1>12

-----------------------------------------------------------------------------
(* The terminal goes on *)

LEMMA TerminalGoesOn ==
  ASSUME IInv, term.open, NEW f, NEW U, NEW r \in Sizes, Publish(f), Grows(term.content, U),
         Step(f, Len(term.content), term.size, Len(U), r, U), f.what \in {"raw", "resize", "closed"},
         TermShape(term'), term'.content = U, term'.size = r, f.what = "closed" => ~term'.open,
         UNCHANGED <<st, wire, acks, viewer, ups, act, view>>
  PROVE  IInv'
  <1> DEFINE T == term.content
  <1>0. Shape /\ LogRight /\ WayRight /\ AskRight /\ EndsRight /\ ActRight
    BY DEF IInv
  <1>1. Kept(f, U, r) /\ FollowsOn(f, U, r) /\ BarredOn(f, U, r)
    BY <1>0, Publishing
  <1>2. Grows(T, U) /\ term'.content = U /\ term'.size = r
    OBVIOUS
  <1>3. /\ st' = st /\ wire' = wire /\ acks' = acks /\ viewer' = viewer /\ ups' = ups
        /\ act' = act /\ view' = view
    OBVIOUS
  <1>4. f.what # "barrier" /\ TermShape(term') /\ (f.what = "closed" => ~term'.open)
    OBVIOUS
  <1>5. st.ended = "no"
    BY <1>0 DEF EndsRight, Shape, StreamShape
  <1>6. Shape'
    BY <1>0, <1>1, <1>3, <1>4 DEF Shape, Kept
  <1>7. LogRight'
    BY <1>1, <1>2, <1>4 DEF LogRight, Kept
  <1>8. WayRight'
    <2>1. PICK k, x, m, y : Onwards(k, x, m, y) /\ Sends(m, y)
      BY <1>0 DEF WayRight
    <2>2. Onwards(k, x, m, y)'
      <3>1. PICK z : (act.next # <<>> => z = view[1].size) /\ Path(ups, NextOf, z, k, x, T)
        BY <2>1 DEF Onwards
      <3>2. Path(wire, k, x, m, y, T)
        BY <2>1 DEF Onwards
      <3>3. Path(ups, NextOf, z, k, x, U)
        BY <1>2, <3>1, PathGrows
      <3>4. Path(wire, k, x, m, y, U)
        BY <1>2, <3>2, PathGrows
      <3>5. NextOf' = NextOf
        BY <1>3 DEF NextOf
      <3> QED BY <1>2, <1>3, <3>1, <3>3, <3>4, <3>5 DEF Onwards
    <2>3. Sends(m, y)'
      <3>1. st.parts > 0 => CutAt(st.cut, st.next, st.cut[1].size, U)
        <4> SUFFICES ASSUME st.parts > 0 PROVE CutAt(st.cut, st.next, st.cut[1].size, U)
          OBVIOUS
        <4>1. CutAt(st.cut, st.next, st.cut[1].size, T)
          BY <2>1 DEF Sends
        <4> QED BY <1>2, <4>1, CutGrows
      <3>2. ASSUME st.live
            PROVE  \E n, z : /\ Place(st, m, y, n, z, U)
                             /\ ~lagged' => Follows(buf', n, z, U, r)
        <4>1. PICK n, z : /\ Place(st, m, y, n, z, T)
                          /\ ~lagged => Follows(buf, n, z, T, term.size)
          BY <2>1, <3>2 DEF Sends
        <4>2. Place(st, m, y, n, z, U)
          <5>1. PICK b : /\ st.parts > 0 => b = st.cut[1].size
                         /\ st.parts = 0 => m = st.next /\ b = y
                         /\ Path(st.waiting, st.next, b, n, z, T) /\ NextWaiting(st) = n
            BY <4>1 DEF Place
          <5>2. Path(st.waiting, st.next, b, n, z, U)
            BY <1>2, <5>1, PathGrows
          <5> QED BY <5>1, <5>2 DEF Place
        <4>3. ~lagged' => Follows(buf', n, z, U, r)
          BY <1>1, <4>1 DEF FollowsOn
        <4> QED BY <4>2, <4>3
      <3> QED BY <1>2, <1>3, <3>1, <3>2 DEF Sends
    <2> QED BY <2>2, <2>3 DEF WayRight
  <1>9. AskRight'
    <2>1. st.ask # "none" => ~st.live /\ st.parts = 0 /\ st.ended = "no"
      BY <1>0 DEF AskRight
    <2>2. ASSUME st.ask = "answered"
          PROVE  /\ CutAt(st.cut, Len(st.cut[1].content), st.cut[1].size, U)
                 /\ Barred(buf', st.mark, Len(st.cut[1].content), st.cut[1].size, U, r)
      <3> DEFINE n == Len(st.cut[1].content) x == st.cut[1].size
      <3>1. CutAt(st.cut, n, x, T) /\ Barred(buf, st.mark, n, x, T, term.size)
        BY <1>0, <2>2 DEF AskRight
      <3> HIDE DEF n, x
      <3>2. CutAt(st.cut, n, x, U)
        BY <1>2, <3>1, CutGrows
      <3>3. Barred(buf', st.mark, n, x, U, r)
        BY <1>1, <1>4, <3>1 DEF BarredOn
      <3> QED BY <3>2, <3>3 DEF n, x
    <2> QED BY <1>2, <1>3, <2>1, <2>2 DEF AskRight
  <1>10. EndsRight'
    BY <1>0, <1>3, <1>5 DEF EndsRight
  <1>11. ActRight'
    <2>1. act.next # <<>> => CutAt(view, act.next[1], view[1].size, U)
      <3> SUFFICES ASSUME act.next # <<>> PROVE CutAt(view, act.next[1], view[1].size, U)
        OBVIOUS
      <3>1. CutAt(view, act.next[1], view[1].size, T)
        BY <1>0 DEF ActRight
      <3> QED BY <1>2, <3>1, CutGrows
    <2> QED BY <1>0, <1>2, <1>3, <2>1 DEF ActRight
  <1> QED BY <1>6, <1>7, <1>8, <1>9, <1>10, <1>11 DEF IInv

LEMMA OutputGoesOn ==
  ASSUME IInv, ApplyOutput
  PROVE  IInv'
  <1> DEFINE T == term.content U == Append(term.content, term.size)
             f == [what |-> "raw", at |-> Len(term.content)]
  <1>1. TermShape(term)
    BY DEF IInv, Shape
  <1>2. /\ term.open /\ Publish(f) /\ term' = [term EXCEPT !.content = U]
        /\ UNCHANGED <<st, wire, acks, viewer, ups, act, view>>
    BY DEF ApplyOutput, Sequence
  <1>3. T \in Seq(Sizes) /\ term.size \in Sizes /\ Len(T) \in Nat
    BY <1>1 DEF TermShape
  <1>4. U \in Seq(Sizes) /\ Len(U) = Len(T) + 1 /\ U[Len(T) + 1] = term.size
        /\ \A i \in 1 .. Len(T) : U[i] = T[i]
    BY <1>3
  <1>5. f.what = "raw" /\ f.at = Len(T)
    OBVIOUS
  <1> HIDE DEF T, U, f
  <1>6. TermShape(term') /\ term'.content = U /\ term'.size = term.size
    BY <1>1, <1>2, <1>4 DEF TermShape
  <1>7. Grows(T, U)
    BY <1>3, <1>4 DEF Grows
  <1>8. Step(f, Len(T), term.size, Len(U), term.size, U)
    BY <1>3, <1>4, <1>5 DEF Step
  <1> QED BY <1>2, <1>3, <1>5, <1>6, <1>7, <1>8, TerminalGoesOn DEF T

LEMMA GrowsItself ==
  ASSUME NEW T \in Seq(Sizes)
  PROVE  Grows(T, T) /\ Len(T) \in Nat
  BY DEF Grows

LEMMA SizeGoesOn ==
  ASSUME IInv, NEW z \in Sizes, PublishSize(z)
  PROVE  IInv'
  <1> DEFINE T == term.content f == [what |-> "resize", at |-> Len(term.content), size |-> z]
  <1>1. TermShape(term)
    BY DEF IInv, Shape
  <1>2. /\ term.open /\ Publish(f) /\ term' = [term EXCEPT !.size = z]
        /\ UNCHANGED <<st, wire, acks, viewer, ups, act, view>>
    BY DEF PublishSize, Sequence
  <1>3. f.what = "resize" /\ f.at = Len(T) /\ f.size = z
    OBVIOUS
  <1> HIDE DEF f
  <1>4. TermShape(term') /\ term'.content = T /\ term'.size = z
    BY <1>1, <1>2 DEF TermShape
  <1>5. Grows(T, T) /\ Len(T) \in Nat
    BY <1>1, GrowsItself DEF TermShape
  <1> HIDE DEF T
  <1>6. Step(f, Len(T), term.size, Len(T), z, T)
    BY <1>3, <1>5 DEF Step
  <1> QED BY <1>2, <1>3, <1>4, <1>5, <1>6, TerminalGoesOn DEF T

LEMMA CloseGoesOn ==
  ASSUME IInv, Close
  PROVE  IInv'
  <1> DEFINE T == term.content f == [what |-> "closed"]
  <1>1. TermShape(term)
    BY DEF IInv, Shape
  <1>2. /\ term.open /\ Publish(f) /\ term' = [term EXCEPT !.open = FALSE]
        /\ UNCHANGED <<st, wire, acks, viewer, ups, act, view>>
    BY DEF Close
  <1>3. f.what = "closed"
    OBVIOUS
  <1> HIDE DEF f
  <1>4. TermShape(term') /\ term'.content = T /\ term'.size = term.size /\ ~term'.open
    BY <1>1, <1>2 DEF TermShape
  <1>5. Grows(T, T) /\ Len(T) \in Nat /\ term.size \in Sizes
    BY <1>1, GrowsItself DEF TermShape
  <1> HIDE DEF T
  <1>6. Step(f, Len(T), term.size, Len(T), term.size, T)
    BY <1>3 DEF Step
  <1> QED BY <1>2, <1>3, <1>4, <1>5, <1>6, TerminalGoesOn DEF T

-----------------------------------------------------------------------------
(* The Stream: what it sends *)

\* Nothing that the invariant says of the way changes but what the Stream sends.
LEMMA BootstrapKeeps ==
  ASSUME IInv, Bootstrap
  PROVE  IInv'
  <1> DEFINE T == term.content f == [what |-> "barrier", mark |-> st.mark]
             c == <<[content |-> term.content, size |-> term.size, exact |-> st.full]>>
  <1>0. Shape /\ LogRight /\ WayRight /\ AskRight /\ EndsRight /\ ActRight
    BY DEF IInv
  <1>1. /\ term.open /\ st.ask = "asked" /\ Publish(f)
        /\ st' = [st EXCEPT !.ask = "answered", !.cut = c]
        /\ term' = term /\ wire' = wire /\ acks' = acks /\ viewer' = viewer /\ ups' = ups
        /\ act' = act /\ view' = view
    BY DEF Bootstrap
  <1>2. TermShape(term) /\ StreamShape(st)
    BY <1>0 DEF Shape
  <1>3. T \in Seq(Sizes) /\ term.size \in Sizes /\ Len(T) \in Nat /\ Grows(T, T)
    BY <1>2, GrowsItself DEF TermShape
  <1>4. Len(c) = 1 /\ c[1].content = T /\ c[1].size = term.size /\ OneCut(c)
    BY <1>3 DEF OneCut
  <1>5. f.what = "barrier" /\ f.mark = st.mark
    OBVIOUS
  <1> HIDE DEF f, c
  <1>6. /\ st'.ask = "answered" /\ st'.cut = c /\ st'.live = st.live /\ st'.parts = st.parts
        /\ st'.waiting = st.waiting /\ st'.next = st.next /\ st'.transit = st.transit
        /\ st'.exact = st.exact /\ st'.ended = st.ended /\ st'.mark = st.mark
        /\ DOMAIN st' = StreamFields
    BY <1>1, <1>2 DEF StreamShape, StreamFields
  <1>7. ~st.live /\ st.parts = 0 /\ st.ended = "no"
    BY <1>0, <1>1 DEF AskRight
  <1> HIDE DEF T
  <1>8. Step(f, Len(T), term.size, Len(T), term.size, T)
    BY <1>5 DEF Step
  <1>9. Kept(f, T, term.size) /\ BarredNow(f, T, term.size)
    BY <1>0, <1>1, <1>3, <1>5, <1>8, Publishing DEF T
  <1>10. Shape'
    <2>1. Raws(st') = Raws(st)
      BY <1>6 DEF Raws
    <2>2. StreamShape(st')
      BY <1>2, <1>6, <2>1 DEF StreamShape
    <2> QED BY <1>0, <1>1, <1>6, <1>9, <2>2 DEF Shape, Kept
  <1>11. LogRight'
    BY <1>1, <1>5, <1>9 DEF LogRight, Kept, T
  <1>12. WayRight'
    <2>1. PICK k, x, m, y : Onwards(k, x, m, y)
      BY <1>0 DEF WayRight
    <2>2. Onwards(k, x, m, y)'
      BY <1>1, <2>1 DEF Onwards, NextOf
    <2>3. Sends(m, y)'
      BY <1>6, <1>7 DEF Sends
    <2> QED BY <2>2, <2>3 DEF WayRight
  <1>13. AskRight'
    <2>1. CutAt(c, Len(T), term.size, T)
      BY <1>3, <1>4 DEF CutAt
    <2>2. Barred(buf', st.mark, Len(T), term.size, T, term.size)
      BY <1>5, <1>9 DEF BarredNow
    <2> QED BY <1>1, <1>4, <1>6, <1>7, <2>1, <2>2 DEF AskRight, T
  <1>14. EndsRight'
    BY <1>0, <1>1, <1>6, <1>7 DEF EndsRight
  <1>15. ActRight'
    BY <1>0, <1>1, <1>7 DEF ActRight
  <1> QED BY <1>10, <1>11, <1>12, <1>13, <1>14, <1>15 DEF IInv

LEMMA SentIs ==
  ASSUME StreamShape(st), NEW f, NEW n, NEW w, Sent(f, n, w)
  PROVE  /\ wire' = Append(wire, f) /\ DOMAIN st' = StreamFields
         /\ st'.parts = (IF st.parts > 0 THEN st.parts - 1 ELSE 0) /\ st'.waiting = w /\ st'.next = n
         /\ st'.transit = (IF Carries(f) THEN st.transit + 1 ELSE st.transit)
         /\ st'.live = st.live /\ st'.exact = st.exact /\ st'.cut = st.cut /\ st'.ask = st.ask
         /\ st'.mark = st.mark /\ st'.ended = st.ended
  BY DEF Sent, StreamShape, StreamFields

\* A frame is sent: what does not depend on which.
LEMMA SendingKeeps ==
  ASSUME IInv, NEW f, NEW n \in Nat, NEW w, Sent(f, n, w), f.what \in {"keyframe", "output", "resize"},
         IsSeq(w), Waits(w), ~st.live => w = <<>>, Cardinality(Raws(st')) <= Window,
         st.ask = "none", st.ended # "done",
         NEW k, NEW x, NEW m, NEW y, Onwards(k, x, m, y), NEW l \in Int, NEW z \in Sizes,
         Step(f, m, y, l, z, term.content), Sends(l, z)',
         UNCHANGED <<term, buf, lagged, acks, viewer, ups, act, view>>
  PROVE  IInv'
  <1> DEFINE T == term.content
  <1>0. Shape /\ LogRight /\ EndsRight /\ ActRight /\ StreamShape(st) /\ ViewerShape(viewer)
    BY DEF IInv, Shape
  <1>1. /\ term' = term /\ buf' = buf /\ lagged' = lagged /\ acks' = acks /\ viewer' = viewer
        /\ ups' = ups /\ act' = act /\ view' = view
    OBVIOUS
  <1>2. /\ wire' = Append(wire, f) /\ DOMAIN st' = StreamFields
        /\ st'.parts = (IF st.parts > 0 THEN st.parts - 1 ELSE 0) /\ st'.waiting = w /\ st'.next = n
        /\ st'.transit = (IF Carries(f) THEN st.transit + 1 ELSE st.transit)
        /\ st'.live = st.live /\ st'.exact = st.exact /\ st'.cut = st.cut /\ st'.ask = st.ask
        /\ st'.mark = st.mark /\ st'.ended = st.ended
    BY <1>0, SentIs
  <1>3. IsSeq(wire) /\ Len(wire) \in Nat
    BY <1>0, LenNat DEF Shape
  <1>4. /\ IsSeq(wire') /\ Len(wire') = Len(wire) + 1 /\ wire'[Len(wire) + 1] = f
        /\ \A i \in 1 .. Len(wire) : wire'[i] = wire[i]
    <2> DEFINE v == Append(wire, f)
    <2>1. /\ IsSeq(v) /\ Len(v) = Len(wire) + 1 /\ v[Len(wire) + 1] = f
          /\ \A i \in 1 .. Len(wire) : v[i] = wire[i]
      BY <1>3, AppendSeq
    <2>2. wire' = v
      BY <1>2
    <2> HIDE DEF v
    <2> QED BY <2>1, <2>2
  <1>5. \A i \in 1 .. Len(wire') : i \in 1 .. Len(wire) \/ i = Len(wire) + 1
    BY <1>3, <1>4
  <1>6. Shape'
    <2>1. StreamShape(st')
      BY <1>0, <1>2 DEF StreamShape
    <2>2. Channel(wire')
      BY <1>0, <1>4, <1>5 DEF Channel, Shape
    <2>3. st'.transit = Total(Weights(wire')) + viewer.unacked + Total(Reports(acks))
      <3> DEFINE a == Total(Weights(wire)) b == Total(Reports(acks))
      <3>1. Total(Weights(wire')) = a + Weight(f) /\ a \in Nat /\ Weight(f) \in {0, 1}
        BY <1>2, <1>3, WeightsAppend
      <3>2. st.transit = a + viewer.unacked + b /\ viewer.unacked \in Nat /\ st.transit \in Nat
        BY <1>0 DEF Shape, ViewerShape, StreamShape
      <3>3. b \in Nat
        <4>1. Reports(acks) \in Seq(Nat)
          BY <1>0, ReportsOf DEF Shape
        <4>2. PICK g : Sums(g, Reports(acks)) /\ b = g[Len(Reports(acks))]
          BY <4>1, TotalIs
        <4>3. Len(Reports(acks)) \in 0 .. Len(Reports(acks))
          BY <4>1
        <4> QED BY <4>2, <4>3 DEF Sums
      <3> HIDE DEF a, b
      <3>4. st'.transit = st.transit + Weight(f)
        BY <1>2, <3>2 DEF Weight
      <3>5. st'.transit = (a + Weight(f)) + viewer.unacked + b
        BY ONLY <3>1, <3>2, <3>3, <3>4
      <3> QED BY <3>1, <3>5 DEF b
    <2> QED BY <1>0, <1>1, <1>4, <2>1, <2>2, <2>3 DEF Shape
  <1>7. LogRight'
    BY <1>0, <1>1 DEF LogRight
  <1>8. WayRight'
    <2>1. Onwards(k, x, l, z)'
      <3>1. PICK b : (act.next # <<>> => b = view[1].size) /\ Path(ups, NextOf, b, k, x, T)
        BY DEF Onwards
      <3>2. Path(wire, k, x, m, y, T)
        BY DEF Onwards
      <3>3. Path(Append(wire, f), k, x, l, z, T)
        BY <1>3, <3>2, PathAppend
      <3> QED BY <1>1, <1>2, <3>1, <3>3 DEF Onwards, NextOf
    <2> QED BY <2>1 DEF WayRight
  <1>9. AskRight'
    BY <1>2 DEF AskRight
  <1>10. EndsRight'
    <2>1. \A i \in 1 .. Len(wire) : wire[i].what # "end"
      BY <1>0 DEF EndsRight
    <2>2. \A i \in 1 .. Len(wire') : wire'[i].what # "end"
      BY <1>4, <1>5, <2>1
    <2>3. \A i \in 1 .. Len(ups) : ups[i].what # "end"
      BY <1>0 DEF EndsRight
    <2>4. ~act.ended /\ st'.ended # "done"
      BY <1>0, <1>2 DEF EndsRight
    <2>5. st'.ended # "no" => ~term.open /\ buf = <<>> /\ ~lagged /\ st'.ask = "none"
      BY <1>0, <1>2 DEF EndsRight
    <2> QED BY <1>1, <2>2, <2>3, <2>4, <2>5 DEF EndsRight
  <1>11. ActRight'
    <2>1. ~viewer.started => act.next = <<>> /\ ups = <<>>
      BY <1>0 DEF ActRight
    <2> QED BY <1>0, <1>1, <2>1 DEF ActRight
  <1> QED BY <1>6, <1>7, <1>8, <1>9, <1>10, <1>11 DEF IInv

LEMMA OnwardsTypes ==
  ASSUME Shape, NEW k, NEW x, NEW m, NEW y, Onwards(k, x, m, y)
  PROVE  k \in Int /\ x \in Sizes /\ m \in Int /\ y \in Sizes
  <1>1. Path(wire, k, x, m, y, term.content)
    BY DEF Onwards
  <1>2. Len(wire) \in Nat
    BY LenNat DEF Shape
  <1> QED BY <1>1, <1>2, PathTypes

\* The parts of a keyframe.
LEMMA KeyframeSent ==
  ASSUME IInv, st.parts > 0, st.ask = "none", st.ended # "done", SendNext,
         UNCHANGED <<term, buf, lagged, acks, viewer, ups, act, view>>
  PROVE  IInv'
  <1> DEFINE T == term.content
             f == [what |-> "keyframe", at |-> st.next, more |-> st.parts > 1, cut |-> st.cut]
  <1>1. Sent(f, st.next, st.waiting)
    BY DEF SendNext
  <1>2. f.what = "keyframe" /\ f.at = st.next /\ f.cut = st.cut
    OBVIOUS
  <1>3. (st.parts > 1 => f.more) /\ (~(st.parts > 1) => ~f.more)
    OBVIOUS
  <1> HIDE DEF f
  <1>4. Shape /\ StreamShape(st)
    BY DEF IInv, Shape
  <1>5. /\ IsSeq(st.waiting) /\ Waits(st.waiting) /\ (~st.live => st.waiting = <<>>)
        /\ st.next \in Nat /\ st.parts \in Nat /\ Cardinality(Raws(st)) <= Window
    BY <1>4 DEF StreamShape
  <1>6. /\ st'.parts = st.parts - 1 /\ st'.waiting = st.waiting /\ st'.next = st.next
        /\ st'.live = st.live /\ st'.cut = st.cut
    BY <1>1, <1>4, SentIs
  <1>7. Raws(st') = Raws(st) /\ NextWaiting(st') = NextWaiting(st)
    BY <1>6 DEF Raws, NextWaiting
  <1>8. PICK k, x, m, y : Onwards(k, x, m, y) /\ Sends(m, y)
    BY DEF IInv, WayRight
  <1>9. m \in Int /\ y \in Sizes
    BY <1>4, <1>8, OnwardsTypes
  <1> DEFINE c == st.cut[1].size
  <1>10. CutAt(st.cut, st.next, c, T)
    BY <1>8 DEF Sends
  <1>11. c \in Sizes
    BY <1>10, CutIs
  <1>12. term' = term /\ buf' = buf /\ lagged' = lagged
    OBVIOUS
  <1>13. ASSUME NEW l, NEW z, st.parts = 1 => l = st.next /\ z = c
         PROVE  Sends(l, z)'
    <2>1. st'.parts > 0 => CutAt(st'.cut, st'.next, st'.cut[1].size, term'.content)
      BY <1>6, <1>10, <1>12
    <2>2. ASSUME st.live
          PROVE  \E n, r : /\ Place(st', l, z, n, r, T)
                           /\ ~lagged => Follows(buf, n, r, T, term.size)
      <3>1. PICK n, r : /\ Place(st, m, y, n, r, T)
                        /\ ~lagged => Follows(buf, n, r, T, term.size)
        BY <1>8, <2>2 DEF Sends
      <3>2. Path(st.waiting, st.next, c, n, r, T) /\ NextWaiting(st) = n
        BY <3>1 DEF Place
      <3>3. st'.parts = 0 => l = st'.next /\ c = z
        BY <1>5, <1>6, <1>13
      <3>4. Place(st', l, z, n, r, T)
        BY <1>6, <1>7, <3>2, <3>3 DEF Place
      <3> QED BY <3>1, <3>4
    <2> QED BY <1>6, <1>12, <2>1, <2>2 DEF Sends
  <1>14. CASE st.parts > 1
    <2>1. Step(f, m, y, m, y, T)
      BY <1>2, <1>3, <1>14 DEF Step
    <2>2. Sends(m, y)'
      BY <1>13, <1>14
    <2> QED BY <1>1, <1>2, <1>5, <1>7, <1>8, <1>9, <2>1, <2>2, SendingKeeps
  <1>15. CASE ~(st.parts > 1)
    <2>1. PICK l, z : l = st.next /\ z = c
      OBVIOUS
    <2>2. Step(f, m, y, l, z, T)
      BY <1>2, <1>3, <1>10, <1>15, <2>1 DEF Step
    <2>3. Sends(l, z)'
      BY <1>13, <2>1
    <2>4. l \in Int /\ z \in Sizes
      BY <1>5, <1>11, <2>1
    <2> QED BY <1>1, <1>2, <1>5, <1>7, <1>8, <2>2, <2>3, <2>4, SendingKeeps
  <1> QED BY <1>14, <1>15

\* What waits: a size, or outputs in a row.
LEMMA WaitingSent ==
  ASSUME IInv, Ready, ~(st.parts > 0), st.ask = "none", st.ended # "done", SendNext,
         UNCHANGED <<term, buf, lagged, acks, viewer, ups, act, view>>
  PROVE  IInv'
  <1> DEFINE T == term.content q == st.waiting
  <1>1. Shape /\ StreamShape(st)
    BY DEF IInv, Shape
  <1>2. /\ IsSeq(q) /\ Waits(q) /\ st.next \in Nat /\ st.parts = 0 /\ Cardinality(Raws(st)) <= Window
        /\ Window \in Nat
    BY <1>1, RemoteStreamAssumption DEF StreamShape
  <1>3. st.live /\ q # <<>>
    BY DEF Ready
  <1>4. PICK k, x, m, y : Onwards(k, x, m, y) /\ Sends(m, y)
    BY DEF IInv, WayRight
  <1>5. m \in Int /\ y \in Sizes /\ T \in Seq(Sizes) /\ Len(T) \in Nat
    BY <1>1, <1>4, OnwardsTypes DEF Shape, TermShape
  <1>6. PICK n, r : /\ Place(st, m, y, n, r, T)
                    /\ ~lagged => Follows(buf, n, r, T, term.size)
    BY <1>3, <1>4 DEF Sends
  <1>7. m = st.next /\ Path(q, m, y, n, r, T) /\ NextWaiting(st) = n
    BY <1>2, <1>6 DEF Place
  <1>8. term' = term /\ buf' = buf /\ lagged' = lagged
    OBVIOUS
  <1>9. ASSUME NEW f, NEW d \in 1 .. Len(q), NEW w, NEW l \in Nat, NEW z \in Sizes, Sent(f, l, w),
               IsSeq(w), Leaves(w, q, d), Path(w, l, z, n, r, T), Step(f, m, y, l, z, T),
               f.what \in {"output", "resize"},
               \/ q[1].what # "raw" /\ d = 1 /\ l = st.next
               \/ q[d].what = "raw" /\ l = q[d].at + 1
        PROVE  IInv'
    <2>1. /\ st'.parts = 0 /\ st'.waiting = w /\ st'.next = l /\ st'.live = st.live
          /\ st'.cut = st.cut
      BY <1>1, <1>2, <1>9, SentIs
    <2>2. NextWaiting(st') = n
      BY <1>2, <1>7, <1>9, <2>1, NextLeaves
    <2>3. Cardinality(Raws(st')) <= Window
      <3>1. Cardinality(Raws(st')) <= Cardinality(Raws(st))
        BY <1>2, <1>9, <2>1, RawsLeave
      <3>2. Cardinality(Raws(st')) \in Nat /\ Cardinality(Raws(st)) \in Nat
        BY <1>2, <1>9, <2>1, RawsOf
      <3> QED BY <1>2, <3>1, <3>2
    <2>4. Waits(w)
      <3>1. Len(q) \in Nat
        BY <1>2, LenNat
      <3>2. \A i \in 1 .. Len(w) : i + d \in 1 .. Len(q) /\ w[i] = q[i + d]
        BY <1>9, <3>1 DEF Leaves
      <3> QED BY <1>2, <3>2 DEF Waits
    <2>5. Place(st', l, z, n, r, T)
      BY <1>9, <2>1, <2>2 DEF Place
    <2>6. Sends(l, z)'
      BY <1>6, <1>8, <2>1, <2>5 DEF Sends
    <2>7. f.what \in {"keyframe", "output", "resize"} /\ l \in Int
      BY <1>9
    <2> QED BY <1>3, <1>4, <1>9, <2>3, <2>4, <2>6, <2>7, SendingKeeps
  <1>10. /\ Head(q) = q[1] /\ IsSeq(Tail(q)) /\ Leaves(Tail(q), q, 1) /\ Len(q) \in Nat /\ Len(q) >= 1
    BY <1>2, <1>3, TailSeq
  <1>11. CASE Head(q).what = "resize"
    <2>1. Sent(q[1], st.next, Tail(q))
      BY <1>10, <1>11 DEF SendNext
    <2>2. Goes(q, m, y, n, r, T)
      BY <1>2, <1>3, <1>7, PathHead
    <2>3. PICK j \in Int, z \in Sizes : Step(q[1], m, y, j, z, T) /\ Path(Tail(q), j, z, n, r, T)
      BY <2>2 DEF Goes
    <2>4. q[1].what = "resize" /\ j = m
      BY <1>10, <1>11, <2>3 DEF Step
    <2>5. /\ Step(q[1], m, y, st.next, z, T) /\ Path(Tail(q), st.next, z, n, r, T)
          /\ q[1].what # "raw" /\ 1 \in 1 .. Len(q) /\ q[1].what \in {"output", "resize"}
      BY <1>7, <1>10, <2>3, <2>4
    <2> QED BY <1>2, <1>9, <1>10, <2>1, <2>5
  <1>12. CASE Head(q).what # "resize"
    <2>1. PICK d \in 1 .. Len(q) :
            /\ Outputs(d)
            /\ Sent([what |-> "output", at |-> Head(q).at, chunks |-> d],
                    Head(q).at + d, SubSeq(q, d + 1, Len(q)))
      BY <1>12 DEF SendNext
    <2> DEFINE f == [what |-> "output", at |-> Head(q).at, chunks |-> d] w == SubSeq(q, d + 1, Len(q))
    <2>2. \A i \in 1 .. d : q[i].what = "raw"
      BY <2>1 DEF Outputs
    <2>3. Outputting(q, d, m, y, n, r, T)
      BY <1>2, <1>5, <1>7, <2>2, PathOutputs
    <2>4. /\ m \in Nat /\ m + d <= Len(T) /\ \A i \in m + 1 .. m + d : T[i] = y
          /\ \A i \in 1 .. d : q[i].at = m + i - 1
          /\ Path(w, m + d, y, n, r, T)
      BY <2>3 DEF Outputting
    <2>5. /\ d \in Nat /\ d # 0 /\ 1 \in 1 .. d /\ d \in 1 .. d /\ m + d \in Nat
          /\ q[1].at = m /\ q[d].at + 1 = m + d
      <3>1. d \in Nat /\ d # 0 /\ 1 \in 1 .. d /\ d \in 1 .. d
        BY <1>10
      <3>2. q[1].at = m + 1 - 1 /\ q[d].at = m + d - 1
        BY <2>4, <3>1
      <3> QED BY <2>4, <3>1, <3>2
    <2>6. f.what = "output" /\ f.at = m /\ f.chunks = d
      BY <1>10, <2>5
    <2>7. Sent(f, m + d, w)
      BY <1>10, <2>1, <2>5
    <2>8. IsSeq(w) /\ Leaves(w, q, d)
      BY <1>2, <2>5, PartSeq
    <2> HIDE DEF f, w
    <2>9. Step(f, m, y, m + d, y, T)
      BY <2>4, <2>5, <2>6 DEF Step
    <2>10. q[d].what = "raw" /\ m + d = q[d].at + 1 /\ f.what \in {"output", "resize"}
      BY <2>2, <2>5, <2>6
    <2> QED BY <1>5, <1>9, <2>4, <2>5, <2>7, <2>8, <2>9, <2>10
  <1> QED BY <1>11, <1>12

LEMMA SendNextKeeps ==
  ASSUME IInv, Ready, st.ask = "none", st.ended # "done", SendNext,
         UNCHANGED <<term, buf, lagged, acks, viewer, ups, act, view>>
  PROVE  IInv'
  BY KeyframeSent, WaitingSent

LEMMA AdvanceKeeps ==
  ASSUME IInv, Advance
  PROVE  IInv'
  BY SendNextKeeps DEF Advance, Serves, CanSend

-----------------------------------------------------------------------------
(* The Stream: what it asks for and what it reads *)

\* A turn of the Stream that sends nothing.
LEMMA StreamTurns ==
  ASSUME IInv, StreamShape(st'), UNCHANGED <<term, wire, viewer, ups, act, view>>,
         IsSeq(acks'), Acks(acks'),
         st'.transit = Total(Weights(wire)) + viewer.unacked + Total(Reports(acks')),
         IsSeq(buf'), Len(buf') <= Buffered, lagged' \in BOOLEAN, Frames(buf'), LogRight',
         \A m, y : Sends(m, y) => Sends(m, y)', AskRight', st.ended # "done", st'.ended # "done",
         st'.ended # "no" => ~term.open /\ buf' = <<>> /\ ~lagged' /\ st'.ask = "none"
  PROVE  IInv'
  <1>0. Shape /\ WayRight /\ EndsRight /\ ActRight
    BY DEF IInv
  <1>1. /\ term' = term /\ wire' = wire /\ viewer' = viewer /\ ups' = ups /\ act' = act /\ view' = view
    OBVIOUS
  <1>2. Shape'
    BY <1>0, <1>1 DEF Shape
  <1>3. WayRight'
    <2>1. PICK k, x, m, y : Onwards(k, x, m, y) /\ Sends(m, y)
      BY <1>0 DEF WayRight
    <2>2. Onwards(k, x, m, y)'
      BY <1>1, <2>1 DEF Onwards, NextOf
    <2>3. Sends(m, y)'
      BY <2>1
    <2> QED BY <2>2, <2>3 DEF WayRight
  <1>4. EndsRight'
    BY <1>0, <1>1 DEF EndsRight
  <1>5. ActRight'
    BY <1>0, <1>1 DEF ActRight
  <1> QED BY <1>2, <1>3, <1>4, <1>5 DEF IInv

LEMMA MarkedFirst ==
  ASSUME NEW q, NEW k, NEW n, NEW x, NEW T, NEW s, Len(q) \in Nat, Marked(q, k, n, x, T, s)
  PROVE  \E j, z : Marked(q, 0, j, z, T, s)
  <1>1. PICK N, Z : Log(q, N, Z, T, s)
    BY DEF Marked
  <1>2. Marked(q, 0, N[0], Z[0], T, s)
    BY <1>1 DEF Marked
  <1> QED BY <1>2

\* The frames that were published before are gone.
LEMMA LogEmpty ==
  ASSUME Shape, term' = term, buf' = <<>>
  PROVE  LogRight' /\ IsSeq(buf') /\ Len(buf') = 0 /\ Len(buf') <= Buffered /\ Frames(buf')
  <1>1. /\ term.content \in Seq(Sizes) /\ term.size \in Sizes /\ Len(term.content) \in Nat
        /\ Buffered \in Nat
    BY RemoteStreamAssumption DEF Shape, TermShape
  <1>2. Marked(<<>>, 0, Len(term.content), term.size, term.content, term.size)
    BY <1>1, MarkedNew
  <1>3. IsSeq(buf') /\ Len(buf') = 0
    BY NoSeq
  <1>4. 1 .. Len(buf') = {}
    BY <1>3
  <1>5. LogRight'
    BY <1>2, <1>4 DEF LogRight
  <1> QED BY <1>1, <1>3, <1>4, <1>5 DEF Frames

LEMMA EmptyWaits ==
  ASSUME NEW s, s.waiting = <<>>
  PROVE  /\ IsSeq(s.waiting) /\ Waits(s.waiting) /\ Cardinality(Raws(s)) = 0
         /\ NextWaiting(s) = s.next
  <1>1. IsSeq(s.waiting) /\ Len(s.waiting) = 0
    BY NoSeq
  <1>2. 1 .. Len(s.waiting) = {}
    BY <1>1
  <1>3. Raws(s) = {}
    BY <1>1, <1>2, RawsOf
  <1>4. NextWaiting(s) = s.next
    BY <1>3 DEF NextWaiting
  <1> QED BY <1>1, <1>2, <1>3, <1>4, FS_EmptySet DEF Waits

LEMMA BehindIs ==
  ASSUME NEW s, StreamShape(s)
  PROVE  /\ StreamShape(Behind(s)) /\ ~Behind(s).live /\ Behind(s).waiting = <<>>
         /\ Behind(s).parts = s.parts /\ Behind(s).cut = s.cut /\ Behind(s).next = s.next
         /\ Behind(s).transit = s.transit /\ Behind(s).ask = s.ask /\ Behind(s).ended = s.ended
         /\ Behind(s).mark = s.mark
  <1> DEFINE t == Behind(s)
  <1>1. /\ DOMAIN t = StreamFields /\ t.live = FALSE /\ t.waiting = <<>>
        /\ t.parts = s.parts /\ t.cut = s.cut /\ t.next = s.next /\ t.transit = s.transit
        /\ t.ask = s.ask /\ t.ended = s.ended /\ t.mark = s.mark /\ t.exact = s.exact
    BY DEF Behind, StreamShape, StreamFields
  <1> HIDE DEF t
  <1>2. IsSeq(t.waiting) /\ Waits(t.waiting) /\ Cardinality(Raws(t)) = 0
    BY <1>1, EmptyWaits
  <1>3. StreamShape(t)
    <2>1. Window \in Nat
      BY RemoteStreamAssumption
    <2>2. Cardinality(Raws(t)) <= Window
      BY <1>2, <2>1
    <2> QED BY <1>1, <1>2, <2>2 DEF StreamShape
  <1> QED BY <1>1, <1>3 DEF t

LEMMA CaptureKeeps ==
  ASSUME IInv, Capture
  PROVE  IInv'
  <1>0. Shape /\ LogRight /\ StreamShape(st)
    BY DEF IInv, Shape
  <1>1. /\ st.ask = "none" /\ st.ended = "no" /\ ~st.live /\ st.parts = 0
        /\ UNCHANGED <<term, buf, lagged, wire, acks, viewer, ups, act, view>>
        /\ \E full : st' = [st EXCEPT !.ask = "asked", !.full = full, !.mark = 1 - @, !.batch = FALSE]
    BY DEF Capture, Serves
  <1>2. /\ st'.ask = "asked" /\ st'.ended = "no" /\ st'.live = st.live /\ st'.parts = 0
        /\ st'.waiting = st.waiting /\ st'.next = st.next /\ st'.transit = st.transit
        /\ st'.exact = st.exact /\ DOMAIN st' = StreamFields
    BY <1>0, <1>1 DEF StreamShape, StreamFields
  <1>3. Raws(st') = Raws(st)
    BY <1>2 DEF Raws
  <1>4. StreamShape(st')
    BY <1>0, <1>2, <1>3 DEF StreamShape
  <1>5. \A m, y : Sends(m, y)'
    BY <1>1, <1>2 DEF Sends
  <1>6. AskRight'
    BY <1>1, <1>2 DEF AskRight
  <1>7. LogRight'
    BY <1>0, <1>1 DEF LogRight
  <1> QED BY <1>0, <1>1, <1>2, <1>4, <1>5, <1>6, <1>7, StreamTurns DEF Shape

LEMMA CutTimesOutKeeps ==
  ASSUME IInv, CutTimesOut
  PROVE  IInv'
  <1> DEFINE T == term.content f == [what |-> "barrier", mark |-> st.mark]
  <1>0. Shape /\ LogRight /\ StreamShape(st) /\ TermShape(term)
    BY DEF IInv, Shape
  <1>1. /\ st.ask = "asked" /\ st' = [st EXCEPT !.ask = "none"]
        /\ UNCHANGED <<term, wire, acks, viewer, ups, act, view>>
        /\ \/ UNCHANGED <<buf, lagged>>
           \/ term.open /\ Publish(f)
    BY DEF CutTimesOut
  <1>2. ~st.live /\ st.parts = 0 /\ st.ended = "no"
    BY <1>1 DEF IInv, AskRight
  <1>3. /\ st'.ask = "none" /\ st'.ended = "no" /\ st'.live = st.live /\ st'.parts = 0
        /\ st'.waiting = st.waiting /\ st'.next = st.next /\ st'.transit = st.transit
        /\ st'.exact = st.exact /\ DOMAIN st' = StreamFields
    BY <1>0, <1>1, <1>2 DEF StreamShape, StreamFields
  <1>4. Raws(st') = Raws(st)
    BY <1>3 DEF Raws
  <1>5. StreamShape(st')
    BY <1>0, <1>3, <1>4 DEF StreamShape
  <1>6. \A m, y : Sends(m, y)'
    BY <1>2, <1>3 DEF Sends
  <1>7. AskRight'
    BY <1>3 DEF AskRight
  <1>8. /\ IsSeq(buf') /\ Len(buf') <= Buffered /\ lagged' \in BOOLEAN /\ Frames(buf') /\ LogRight'
    <2>1. CASE UNCHANGED <<buf, lagged>>
      BY <1>0, <1>1, <2>1 DEF LogRight, Shape
    <2>2. CASE term.open /\ Publish(f)
      <3>1. f.what = "barrier"
        OBVIOUS
      <3> HIDE DEF f
      <3>2. T \in Seq(Sizes) /\ term.size \in Sizes /\ Grows(T, T)
        BY <1>0, GrowsItself DEF TermShape
      <3> HIDE DEF T
      <3>3. Step(f, Len(T), term.size, Len(T), term.size, T)
        BY <3>1 DEF Step
      <3>4. Kept(f, T, term.size)
        BY <1>0, <2>2, <3>1, <3>2, <3>3, Publishing DEF T
      <3> QED BY <1>1, <3>1, <3>4 DEF Kept, LogRight, T
    <2> QED BY <1>1, <2>1, <2>2
  <1> QED BY <1>0, <1>1, <1>2, <1>3, <1>5, <1>6, <1>7, <1>8, StreamTurns DEF Shape

LEMMA ExactDueKeeps ==
  ASSUME IInv, ExactDue
  PROVE  IInv'
  <1>0. Shape /\ LogRight /\ StreamShape(st)
    BY DEF IInv, Shape
  <1>1. /\ st.ask = "none" /\ st.ended = "no" /\ st.parts = 0 /\ st.waiting = <<>>
        /\ UNCHANGED <<term, buf, lagged, wire, acks, viewer, ups, act, view>>
        /\ st' = [st EXCEPT !.live = FALSE, !.exact = "due", !.batch = FALSE]
    BY DEF ExactDue, Advanced, Serves
  <1>2. /\ st'.ask = "none" /\ st'.ended = "no" /\ st'.live = FALSE /\ st'.parts = 0
        /\ st'.waiting = <<>> /\ st'.next = st.next /\ st'.transit = st.transit
        /\ st'.exact = "due" /\ DOMAIN st' = StreamFields
    BY <1>0, <1>1 DEF StreamShape, StreamFields
  <1>3. Raws(st') = Raws(st)
    BY <1>1, <1>2 DEF Raws
  <1>4. StreamShape(st')
    BY <1>0, <1>1, <1>2, <1>3 DEF StreamShape
  <1>5. \A m, y : Sends(m, y)'
    BY <1>1, <1>2 DEF Sends
  <1>6. AskRight'
    BY <1>2 DEF AskRight
  <1>7. LogRight'
    BY <1>0, <1>1 DEF LogRight
  <1> QED BY <1>0, <1>1, <1>2, <1>4, <1>5, <1>6, <1>7, StreamTurns DEF Shape

LEMMA ReceivedKeeps ==
  ASSUME IInv, Received
  PROVE  IInv'
  <1> DEFINE m == acks[1] u == [st EXCEPT !.exact = IF @ = "held" THEN "owed" ELSE @, !.batch = FALSE]
  <1>0. /\ Shape /\ LogRight /\ StreamShape(st) /\ ViewerShape(viewer)
        /\ IsSeq(acks) /\ Acks(acks) /\ IsSeq(wire)
    BY DEF IInv, Shape
  <1>1. /\ st.ask = "none" /\ st.ended = "no" /\ acks # <<>> /\ acks' = Tail(acks)
        /\ UNCHANGED <<term, buf, lagged, wire, viewer, ups, act, view>>
        /\ st' = IF Head(acks).what = "ack"
                 THEN [st EXCEPT !.transit = @ - Head(acks).frames, !.batch = FALSE]
                 ELSE Behind(u)
    BY DEF Received, Advanced, Serves
  <1>2. Head(acks) = m /\ IsSeq(Tail(acks))
    BY <1>0, <1>1, TailSeq
  <1> DEFINE a == Total(Weights(wire)) b == Total(Reports(Tail(acks)))
  <1>3. /\ Total(Reports(acks)) = Reported(m) + b /\ b \in Nat /\ Reported(m) \in Nat
        /\ Acks(Tail(acks))
    BY <1>0, <1>1, ReportsTail
  <1>4. a \in Nat
    <2>1. Weights(wire) \in Seq(Nat)
      BY <1>0, WeightsOf
    <2>2. PICK g : Sums(g, Weights(wire)) /\ a = g[Len(Weights(wire))]
      BY <2>1, TotalIs
    <2>3. Len(Weights(wire)) \in 0 .. Len(Weights(wire))
      BY <2>1
    <2> QED BY <2>2, <2>3 DEF Sums
  <1>5. st.transit = a + viewer.unacked + Total(Reports(acks)) /\ viewer.unacked \in Nat
    BY <1>0 DEF Shape, ViewerShape
  <1> HIDE DEF a, b, m, u
  <1>6. st.transit - Reported(m) = a + viewer.unacked + b /\ a + viewer.unacked + b \in Nat
    BY <1>3, <1>4, <1>5
  <1>7. /\ StreamShape(st') /\ st'.ask = "none" /\ st'.ended = "no"
        /\ st'.transit = a + viewer.unacked + b
        /\ \A k, y : Sends(k, y) => Sends(k, y)'
    <2>1. CASE m.what = "ack"
      <3>1. st' = [st EXCEPT !.transit = @ - Reported(m), !.batch = FALSE]
        BY <1>1, <1>2, <2>1 DEF Reported
      <3>2. /\ st'.transit = st.transit - Reported(m) /\ st'.ask = st.ask /\ st'.ended = st.ended
            /\ st'.live = st.live /\ st'.parts = st.parts /\ st'.waiting = st.waiting
            /\ st'.next = st.next /\ st'.exact = st.exact /\ DOMAIN st' = StreamFields
            /\ st'.cut = st.cut
        BY <1>0, <3>1 DEF StreamShape, StreamFields
      <3>3. Raws(st') = Raws(st) /\ NextWaiting(st') = NextWaiting(st)
        BY <3>2 DEF Raws, NextWaiting
      <3>4. StreamShape(st')
        BY <1>0, <1>6, <3>2, <3>3 DEF StreamShape
      <3>5. ASSUME NEW k, NEW y, Sends(k, y) PROVE Sends(k, y)'
        <4>1. \A n, z, T : Place(st, k, y, n, z, T) => Place(st', k, y, n, z, T)
          BY <3>2, <3>3 DEF Place
        <4>2. term' = term /\ buf' = buf /\ lagged' = lagged
          BY <1>1
        <4> QED BY <3>2, <3>5, <4>1, <4>2 DEF Sends
      <3> QED BY <1>1, <1>6, <3>2, <3>4, <3>5
    <2>2. CASE m.what # "ack"
      <3>1. st' = Behind(u) /\ Reported(m) = 0
        BY <1>1, <1>2, <2>2 DEF Reported
      <3>2. /\ u.transit = st.transit /\ u.ask = st.ask /\ u.ended = st.ended
            /\ u.live = st.live /\ u.parts = st.parts /\ u.waiting = st.waiting
            /\ u.next = st.next /\ DOMAIN u = StreamFields /\ u.cut = st.cut
            /\ u.exact \in {"owed", "due", "held"}
        BY <1>0 DEF StreamShape, StreamFields, u
      <3>3. Raws(u) = Raws(st)
        BY <3>2 DEF Raws
      <3>4. StreamShape(u)
        BY <1>0, <3>2, <3>3 DEF StreamShape
      <3>5. /\ StreamShape(st') /\ ~st'.live /\ st'.parts = st.parts /\ st'.cut = st.cut
            /\ st'.next = st.next /\ st'.transit = st.transit /\ st'.ask = st.ask
            /\ st'.ended = st.ended
        BY <3>1, <3>2, <3>4, BehindIs
      <3>6. \A k, y : Sends(k, y) => Sends(k, y)'
        BY <1>1, <3>5 DEF Sends
      <3>7. st'.transit = a + viewer.unacked + b
        BY <1>0, <1>3, <1>6, <3>1, <3>5 DEF StreamShape
      <3> QED BY <1>1, <3>5, <3>6, <3>7
    <2> QED BY <2>1, <2>2
  <1>8. AskRight'
    BY <1>7 DEF AskRight
  <1>9. LogRight'
    BY <1>0, <1>1 DEF LogRight
  <1>10. st'.transit = Total(Weights(wire)) + viewer.unacked + Total(Reports(acks'))
    BY <1>1, <1>7 DEF a, b
  <1> QED BY <1>0, <1>1, <1>2, <1>3, <1>7, <1>8, <1>9, <1>10, StreamTurns DEF Shape

\* The snapshot was taken, and its barrier is the first of its mark.
LEMMA CutTaken ==
  ASSUME IInv, st.ask = "answered", First(Barriers, Positions("closed")),
         st' = Taken([st EXCEPT !.ask = "none"]), buf' = SubSeq(buf, Min(Barriers) + 1, Len(buf)),
         lagged' = FALSE, UNCHANGED <<term, wire, acks, viewer, ups, act, view>>
  PROVE  IInv'
  <1> DEFINE T == term.content s == term.size c == st.cut[1] n == Len(st.cut[1].content)
             x == st.cut[1].size
  <1>0. /\ Shape /\ LogRight /\ StreamShape(st) /\ TermShape(term) /\ AskRight
        /\ IsSeq(buf) /\ Len(buf) \in Nat /\ Len(buf) <= Buffered /\ Buffered \in Nat /\ Frames(buf)
    BY LenNat, RemoteStreamAssumption DEF IInv, Shape
  <1>1. /\ CutAt(st.cut, n, x, T) /\ Barred(buf, st.mark, n, x, T, s) /\ st.ended = "no"
    BY <1>0 DEF AskRight
  <1>2. n \in Nat /\ x \in Sizes
    BY <1>1, CutIs
  <1>3. PICK b \in Barriers : \A j \in Barriers : b <= j
    BY DEF First
  <1>4. b \in 1 .. Len(buf) /\ IsBarrier(buf[b], st.mark) /\ b \in Nat
    BY <1>0, <1>3, LenNat DEF Barriers, Positions, IsBarrier
  <1>5. Min(Barriers) = b
    <2>1. Barriers \subseteq Nat
      BY <1>0, LenNat DEF Barriers, Positions
    <2> HIDE DEF Barriers
    <2>2. \A j \in Barriers : (\A i \in Barriers : j <= i) => j = b
      BY <1>3, <2>1
    <2> QED BY <1>3, <2>2 DEF Min
  <1> DEFINE w == SubSeq(buf, b + 1, Len(buf))
  <1>6. IsSeq(w) /\ Leaves(w, buf, b)
    <2>1. b <= Len(buf)
      BY <1>0, <1>4
    <2> QED BY <1>0, <1>4, <2>1, PartSeq
  <1>7. Follows(w, n, x, T, s)
    BY <1>0, <1>1, <1>4, BarredFollows
  <1>8. buf' = w
    BY <1>5
  <1> HIDE DEF w
  <1>9. Len(w) \in Nat /\ Len(w) = Len(buf) - b /\ \A i \in 1 .. Len(w) : w[i] = buf[i + b]
    BY <1>6, LenNat DEF Leaves
  <1>10. \A i \in 1 .. Len(w) : i + b \in 1 .. Len(buf) /\ (i + b = Len(buf) => i = Len(w))
    BY <1>0, <1>4, <1>9
  <1>11. IsSeq(buf') /\ Len(buf') <= Buffered /\ Frames(buf')
    <2>1. Frames(w)
      BY <1>0, <1>9, <1>10 DEF Frames
    <2>2. Len(w) <= Buffered
      BY <1>0, <1>4, <1>9
    <2> QED BY <1>6, <1>8, <2>1, <2>2
  <1>12. LogRight'
    <2>1. PICK k, z : Marked(w, k, n, z, T, s)
      BY <1>7 DEF Follows
    <2>2. \E j, r : Marked(w, 0, j, r, T, s)
      BY <1>9, <2>1, MarkedFirst
    <2>3. \A i \in 1 .. Len(w) : w[i].what = "closed" => i = Len(w) /\ ~term.open
      BY <1>0, <1>9, <1>10 DEF LogRight
    <2> QED BY <1>8, <2>2, <2>3 DEF LogRight
  <1> HIDE DEF n, x
  <1>13. /\ st'.parts = Parts /\ st'.next = n /\ st'.waiting = <<>> /\ st'.live = TRUE
         /\ st'.exact \in {"owed", "held"} /\ st'.ask = "none" /\ st'.ended = "no"
         /\ st'.transit = st.transit /\ st'.cut = st.cut /\ DOMAIN st' = StreamFields
    BY <1>0, <1>1 DEF Taken, StreamShape, StreamFields, n
  <1>14. Parts \in Nat /\ Parts # 0 /\ Window \in Nat
    BY RemoteStreamAssumption
  <1>15. /\ IsSeq(st'.waiting) /\ Waits(st'.waiting) /\ Cardinality(Raws(st')) = 0
         /\ NextWaiting(st') = n
    BY <1>13, EmptyWaits
  <1>16. StreamShape(st')
    <2>1. Cardinality(Raws(st')) <= Window
      BY <1>14, <1>15
    <2> QED BY <1>0, <1>2, <1>13, <1>14, <1>15, <2>1 DEF StreamShape
  <1>17. ASSUME NEW m, NEW y PROVE Sends(m, y)'
    <2>1. Path(<<>>, n, x, n, x, T)
      BY <1>2, PathNothing
    <2>2. Place(st', m, y, n, x, T)
      BY <1>13, <1>14, <1>15, <2>1 DEF Place, x
    <2>3. CutAt(st'.cut, st'.next, st'.cut[1].size, T)
      BY <1>1, <1>13 DEF x
    <2> QED BY <1>7, <1>8, <2>2, <2>3 DEF Sends
  <1>18. AskRight'
    BY <1>13 DEF AskRight
  <1> QED BY <1>0, <1>1, <1>11, <1>12, <1>13, <1>16, <1>17, <1>18, StreamTurns DEF Shape

LEMMA CutAnsweredKeeps ==
  ASSUME IInv, CutAnswered
  PROVE  IInv'
  <1>0. Shape /\ LogRight /\ StreamShape(st) /\ AskRight /\ IsSeq(buf)
    BY DEF IInv, Shape
  <1> DEFINE asked == [st EXCEPT !.ask = "none"]
  <1>1. /\ st.ask = "answered" /\ lagged' = FALSE
        /\ UNCHANGED <<term, wire, acks, viewer, ups, act, view>>
        /\ \/ /\ First(Barriers, Positions("closed")) /\ st' = Taken(asked)
              /\ buf' = SubSeq(buf, Min(Barriers) + 1, Len(buf))
           \/ /\ First(Positions("closed"), Barriers) /\ buf' = <<>>
              /\ st' = [asked EXCEPT !.ended = "drain"]
           \/ st' = asked /\ buf' = <<>>
    BY DEF CutAnswered
  <1>2. ~st.live /\ st.parts = 0 /\ st.ended = "no"
    BY <1>0, <1>1 DEF AskRight
  <1>3. ASSUME buf' = <<>>, StreamShape(st'), st'.ask = "none", st'.live = st.live, st'.parts = st.parts,
               st'.transit = st.transit, st'.ended # "done", st'.ended # "no" => ~term.open
        PROVE  IInv'
    <2>1. LogRight' /\ IsSeq(buf') /\ Len(buf') <= Buffered /\ Frames(buf')
      BY <1>0, <1>1, <1>3, LogEmpty
    <2>2. \A m, y : Sends(m, y)'
      BY <1>2, <1>3 DEF Sends
    <2>3. AskRight'
      BY <1>3 DEF AskRight
    <2> QED BY <1>0, <1>1, <1>2, <1>3, <2>1, <2>2, <2>3, StreamTurns DEF Shape
  <1>4. CASE /\ First(Barriers, Positions("closed")) /\ st' = Taken(asked)
             /\ buf' = SubSeq(buf, Min(Barriers) + 1, Len(buf))
    BY <1>1, <1>4, CutTaken
  <1>5. CASE /\ First(Positions("closed"), Barriers) /\ buf' = <<>>
             /\ st' = [asked EXCEPT !.ended = "drain"]
    <2>1. PICK i \in Positions("closed") : TRUE
      BY <1>5 DEF First
    <2>2. i \in 1 .. Len(buf) /\ buf[i].what = "closed"
      BY <1>0, LenNat DEF Positions
    <2>3. ~term.open
      BY <1>0, <2>2 DEF LogRight
    <2>4. /\ st'.ask = "none" /\ st'.ended = "drain" /\ st'.live = st.live /\ st'.parts = st.parts
          /\ st'.waiting = st.waiting /\ st'.next = st.next /\ st'.transit = st.transit
          /\ st'.exact = st.exact /\ DOMAIN st' = StreamFields
      BY <1>0, <1>5 DEF StreamShape, StreamFields
    <2>5. Raws(st') = Raws(st)
      BY <2>4 DEF Raws
    <2>6. StreamShape(st')
      BY <1>0, <2>4, <2>5 DEF StreamShape
    <2> QED BY <1>3, <1>5, <2>3, <2>4, <2>6
  <1>6. CASE st' = asked /\ buf' = <<>>
    <2>1. /\ st'.ask = "none" /\ st'.ended = "no" /\ st'.live = st.live /\ st'.parts = st.parts
          /\ st'.waiting = st.waiting /\ st'.next = st.next /\ st'.transit = st.transit
          /\ st'.exact = st.exact /\ DOMAIN st' = StreamFields
      BY <1>0, <1>2, <1>6 DEF StreamShape, StreamFields
    <2>2. Raws(st') = Raws(st)
      BY <2>1 DEF Raws
    <2>3. StreamShape(st')
      BY <1>0, <2>1, <2>2 DEF StreamShape
    <2> QED BY <1>3, <1>6, <2>1, <2>3
  <1> QED BY <1>1, <1>4, <1>5, <1>6

LEMMA SameWaiting ==
  ASSUME NEW s, NEW t, t.waiting = s.waiting, t.next = s.next
  PROVE  Raws(t) = Raws(s) /\ NextWaiting(t) = NextWaiting(s)
  <1>1. Raws(t) = Raws(s)
    BY DEF Raws
  <1> QED BY <1>1 DEF NextWaiting

Longer(v, q, f) ==
  /\ v = Append(q, f) /\ IsSeq(v) /\ Len(v) = Len(q) + 1 /\ v[Len(q) + 1] = f
  /\ \A i \in 1 .. Len(q) : v[i] = q[i]

LEMMA LongerSeq ==
  ASSUME NEW q, IsSeq(q), NEW f
  PROVE  \E v : Longer(v, q, f)
  <1>1. Len(q) \in Nat
    BY LenNat
  <1>2. IsSeq(Append(q, f))
    BY AppendSeq
  <1>3. Len(Append(q, f)) = Len(q) + 1 /\ Append(q, f)[Len(q) + 1] = f
    BY <1>1, AppendSeq
  <1>4. \A i \in 1 .. Len(q) : Append(q, f)[i] = q[i]
    BY <1>1, AppendSeq
  <1>5. Longer(Append(q, f), q, f)
    BY <1>2, <1>3, <1>4 DEF Longer
  <1> QED BY <1>5

\* One frame of the broadcast.
TookThat(s, t, f) ==
  \/ /\ t.waiting = Append(s.waiting, f) /\ f.what \in {"raw", "resize"} /\ f.at >= NextWaiting(s)
     /\ f.what = "raw" => f.at = NextWaiting(s)
  \/ /\ t.waiting = s.waiting
     /\ f.what \in {"raw", "resize"} => f.at < NextWaiting(s)

LEMMA TookIs ==
  ASSUME NEW s, StreamShape(s), NEW f, f.what \in {"raw", "resize", "barrier", "closed"}, s.ended = "no",
         f.what \in {"raw", "resize"} => f.at \in Nat, NextWaiting(s) \in Int, NEW t, t = Took(s, f)
  PROVE  /\ StreamShape(t) /\ t.parts = s.parts /\ t.cut = s.cut /\ t.next = s.next
         /\ t.transit = s.transit /\ t.ask = s.ask /\ t.ended \in {"no", "drain"}
         /\ t.ended = "drain" => f.what = "closed"
         /\ t.live => s.live /\ TookThat(s, t, f)
  <1> DEFINE N == NextWaiting(s) a == [s EXCEPT !.waiting = Append(@, f)]
             Like(r) == /\ r.parts = s.parts /\ r.cut = s.cut /\ r.next = s.next
                        /\ r.transit = s.transit /\ r.ask = s.ask
  <1>1. /\ a.waiting = Append(s.waiting, f) /\ DOMAIN a = StreamFields /\ a.live = s.live
        /\ a.exact = s.exact /\ a.ended = s.ended /\ Like(a)
    BY DEF StreamShape, StreamFields
  <1>2. Window \in Nat
    BY RemoteStreamAssumption
  <1>3. /\ IsSeq(s.waiting) /\ Waits(s.waiting) /\ Len(s.waiting) \in Nat
    BY LenNat DEF StreamShape
  <1>4. f.what \in {"raw", "resize"} => IsSeq(a.waiting) /\ Waits(a.waiting)
    <2>0. PICK v : Longer(v, s.waiting, f)
      BY <1>3, LongerSeq
    <2>1. /\ v = Append(s.waiting, f) /\ IsSeq(v) /\ Len(v) = Len(s.waiting) + 1
          /\ v[Len(s.waiting) + 1] = f
          /\ \A i \in 1 .. Len(s.waiting) : v[i] = s.waiting[i]
      BY <2>0 DEF Longer
    <2>2. \A i \in 1 .. Len(v) : i \in 1 .. Len(s.waiting) \/ i = Len(s.waiting) + 1
      BY <1>3, <2>1
    <2>3. f.what \in {"raw", "resize"} => Waits(v)
      BY <1>3, <2>1, <2>2 DEF Waits
    <2>4. a.waiting = v
      BY <1>1, <2>1
    <2> QED BY <2>1, <2>3, <2>4
  <1>5. ASSUME f.what \in {"raw", "resize"}, s.live, Cardinality(Raws(a)) <= Window
        PROVE  StreamShape(a)
    BY <1>1, <1>4, <1>5 DEF StreamShape
  <1> HIDE DEF a
  <1>6. CASE f.what = "raw" /\ s.live /\ f.at = N
    <2>1. t = IF Cardinality(Raws(a)) > Window THEN Behind(a) ELSE a
      BY <1>6 DEF Took, a
    <2>2. CASE Cardinality(Raws(a)) > Window
      <3>1. t = Behind(a)
        BY <2>1, <2>2
      <3> DEFINE e == [a EXCEPT !.waiting = <<>>]
      <3>2. /\ DOMAIN t = StreamFields /\ t.live = FALSE /\ t.waiting = <<>> /\ Like(t)
            /\ t.exact = s.exact /\ t.ended = s.ended
        BY <1>1, <3>1 DEF Behind, StreamFields
      <3>3. IsSeq(t.waiting) /\ Waits(t.waiting) /\ Cardinality(Raws(t)) = 0
        BY <3>2, EmptyWaits
      <3>4. Cardinality(Raws(t)) <= Window
        BY <1>2, <3>3
      <3>5. StreamShape(t)
        BY <3>2, <3>3, <3>4 DEF StreamShape
      <3> QED BY <3>2, <3>5
    <2>3. CASE ~(Cardinality(Raws(a)) > Window)
      <3>1. t = a
        BY <2>1, <2>3
      <3>2. Cardinality(Raws(a)) \in Nat
        BY <1>4, <1>6, RawsOf
      <3>3. StreamShape(a)
        BY <1>2, <1>5, <1>6, <2>3, <3>2
      <3>4. TookThat(s, a, f)
        BY <1>1, <1>6 DEF TookThat
      <3> QED BY <1>1, <1>6, <3>1, <3>3, <3>4
    <2> QED BY <2>2, <2>3
  <1>7. CASE f.what = "raw" /\ s.live /\ f.at > N
    <2>1. ~(f.at = N)
      BY <1>7
    <2>2. t = Behind(s)
      BY <1>7, <2>1 DEF Took
    <2> QED BY <2>2, BehindIs
  <1>8. CASE f.what = "resize" /\ s.live /\ f.at >= N
    <2>1. t = a
      BY <1>8 DEF Took, a
    <2>2. Raws(a) = Raws(s)
      <3>1. f.what # "raw" /\ a.waiting = Append(s.waiting, f) /\ a.next = s.next
        BY <1>1, <1>8
      <3> QED BY <1>3, <3>1, NextAppend
    <2>3. StreamShape(a)
      BY <1>5, <1>8, <2>2 DEF StreamShape
    <2>4. TookThat(s, a, f)
      BY <1>1, <1>8 DEF TookThat
    <2> QED BY <1>1, <1>8, <2>1, <2>3, <2>4
  <1>9. CASE f.what = "closed"
    <2>1. t = [s EXCEPT !.ended = "drain"]
      BY <1>9 DEF Took
    <2>2. /\ t.waiting = s.waiting /\ DOMAIN t = StreamFields /\ t.live = s.live
          /\ t.exact = s.exact /\ t.ended = "drain" /\ Like(t)
      BY <2>1 DEF StreamShape, StreamFields
    <2>3. Raws(t) = Raws(s)
      BY <2>2 DEF Raws
    <2>4. StreamShape(t)
      BY <2>2, <2>3 DEF StreamShape
    <2>5. TookThat(s, t, f)
      BY <1>9, <2>2 DEF TookThat
    <2> QED BY <1>9, <2>2, <2>4, <2>5
  <1>10. CASE /\ ~(f.what = "raw" /\ s.live /\ f.at = N) /\ ~(f.what = "raw" /\ s.live /\ f.at > N)
              /\ ~(f.what = "resize" /\ s.live /\ f.at >= N) /\ f.what # "closed"
    <2>1. t = s
      BY <1>10 DEF Took
    <2>2. s.live => TookThat(s, s, f)
      <3> SUFFICES ASSUME s.live, f.what \in {"raw", "resize"} PROVE f.at < N
        BY DEF TookThat
      <3>1. f.at \in Nat /\ N \in Int
        OBVIOUS
      <3>2. f.what = "raw" => ~(f.at = N) /\ ~(f.at > N)
        BY <1>10
      <3>3. f.what = "resize" => ~(f.at >= N)
        BY <1>10
      <3> QED BY <3>1, <3>2, <3>3
    <2> QED BY <2>1, <2>2
  <1> QED BY <1>6, <1>7, <1>8, <1>9, <1>10

\* A frame of the broadcast is read.
LEMMA ReadKeeps ==
  ASSUME IInv, st.ask = "none", st.ended = "no", ~lagged, buf # <<>>,
         st' = [Took(st, Head(buf)) EXCEPT !.batch = TRUE], buf' = Tail(buf), lagged' = lagged,
         UNCHANGED <<term, wire, acks, viewer, ups, act, view>>
  PROVE  IInv'
  <1> DEFINE T == term.content s == term.size f == buf[1] t == Took(st, f)
  <1>0. /\ Shape /\ LogRight /\ WayRight /\ StreamShape(st) /\ TermShape(term)
        /\ IsSeq(buf) /\ Frames(buf) /\ Len(buf) <= Buffered /\ s \in Sizes
        /\ Buffered \in Nat
    BY RemoteStreamAssumption DEF IInv, Shape, TermShape
  <1>1. /\ IsSeq(Tail(buf)) /\ Leaves(Tail(buf), buf, 1) /\ Len(buf) \in Nat /\ Len(buf) >= 1
        /\ Head(buf) = f /\ Len(Tail(buf)) = Len(buf) - 1
        /\ \A i \in 1 .. Len(buf) - 1 : Tail(buf)[i] = buf[i + 1]
    BY <1>0, TailSeq
  <1>2. PICK n0, x0 : Marked(buf, 0, n0, x0, T, s)
    BY <1>0 DEF LogRight
  <1>3. PICK a \in Nat, b \in Sizes, j0 \in Nat, z0 \in Sizes :
          Step(f, a, b, j0, z0, T) /\ Marked(buf, 1, j0, z0, T, s)
    <2>1. Begins(buf, 0, n0, x0, T, s)
      BY <1>0, <1>2, MarkedHead
    <2> QED BY <2>1 DEF Begins
  <1>4. f.what \in {"raw", "resize", "barrier", "closed"} /\ (f.what \in {"raw", "resize"} => f.at \in Nat)
    <2>1. f.what \in {"raw", "resize", "barrier", "closed"}
      BY <1>0, <1>1 DEF Frames
    <2>2. f.what \in {"raw", "resize"} => f.at = a
      BY <1>3 DEF Step
    <2> QED BY <2>1, <2>2
  <1> HIDE DEF f
  <1>5. LogRight' /\ Frames(buf')
    <2>1. Marked(Tail(buf), 1 - 1, j0, z0, T, s)
      <3>1. 1 \in Nat /\ 1 <= Len(buf) /\ 1 <= 1
        BY <1>1
      <3> QED BY ONLY <1>1, <1>3, <3>1, MarkedLeaves
    <2>2. 1 - 1 = 0
      OBVIOUS
    <2>3. \A i \in 1 .. Len(Tail(buf)) : i + 1 \in 1 .. Len(buf) /\ Tail(buf)[i] = buf[i + 1]
                                        /\ (i + 1 = Len(buf) => i = Len(Tail(buf)))
      BY <1>1
    <2>4. \A i \in 1 .. Len(Tail(buf)) : Tail(buf)[i].what = "closed" => i = Len(Tail(buf)) /\ ~term.open
      BY <1>0, <2>3 DEF LogRight
    <2>5. Frames(Tail(buf))
      BY <1>0, <2>3 DEF Frames
    <2> QED BY <2>1, <2>2, <2>4, <2>5 DEF LogRight
  <1>6. f.what = "closed" => Tail(buf) = <<>> /\ ~term.open
    <2> SUFFICES ASSUME f.what = "closed" PROVE Tail(buf) = <<>> /\ ~term.open
      OBVIOUS
    <2>1. 1 = Len(buf) /\ ~term.open
      <3>1. 1 \in 1 .. Len(buf) /\ buf[1].what = "closed"
        BY <1>1 DEF f
      <3> QED BY <1>0, <3>1 DEF LogRight
    <2>2. Len(Tail(buf)) = Len(buf) - 1 /\ IsSeq(Tail(buf))
      BY <1>1
    <2>3. Len(Tail(buf)) = 0
      BY ONLY <2>1, <2>2
    <2> QED BY <2>1, <2>2, <2>3, LenNat
  <1>7. NextWaiting(st) \in Int
    <2>1. CASE st.live
      <3>1. PICK k, x, m, y : Sends(m, y)
        BY <1>0 DEF WayRight
      <3>2. PICK n, z : Place(st, m, y, n, z, T)
        BY <2>1, <3>1 DEF Sends
      <3>3. PICK c : Path(st.waiting, st.next, c, n, z, T) /\ NextWaiting(st) = n
        BY <3>2 DEF Place
      <3>4. Len(st.waiting) \in Nat
        BY <1>0, LenNat DEF StreamShape
      <3>5. n \in Int
        BY <3>3, <3>4, PathTypes
      <3> QED BY <3>3, <3>5
    <2>2. CASE ~st.live
      <3>1. st.waiting = <<>> /\ st.next \in Nat
        BY <1>0, <2>2 DEF StreamShape
      <3>2. NextWaiting(st) = st.next
        BY <3>1, EmptyWaits
      <3> QED BY <3>1, <3>2
    <2> QED BY <2>1, <2>2
  <1>8. /\ StreamShape(t) /\ t.parts = st.parts /\ t.cut = st.cut /\ t.next = st.next
        /\ t.transit = st.transit /\ t.ask = st.ask /\ t.ended \in {"no", "drain"}
        /\ t.ended = "drain" => f.what = "closed"
        /\ t.live => st.live /\ TookThat(st, t, f)
    BY <1>0, <1>4, <1>7, TookIs
  <1>9. st' = [t EXCEPT !.batch = TRUE]
    BY <1>1
  <1> HIDE DEF t
  <1>10. /\ st'.waiting = t.waiting /\ st'.live = t.live /\ st'.parts = t.parts /\ st'.cut = t.cut
         /\ st'.next = t.next /\ st'.transit = t.transit /\ st'.ask = t.ask /\ st'.ended = t.ended
         /\ st'.exact = t.exact /\ DOMAIN st' = StreamFields
    BY <1>8, <1>9 DEF StreamShape, StreamFields
  <1>11. Raws(st') = Raws(t) /\ NextWaiting(st') = NextWaiting(t)
    BY <1>10, SameWaiting
  <1>12. StreamShape(st')
    BY <1>8, <1>10, <1>11 DEF StreamShape
  <1>13. ASSUME NEW m, NEW y, Sends(m, y) PROVE Sends(m, y)'
    <2>1. st'.parts > 0 => CutAt(st'.cut, st'.next, st'.cut[1].size, term'.content)
      BY <1>8, <1>10, <1>13 DEF Sends
    <2>2. ASSUME t.live
          PROVE  \E j, r : /\ Place(st', m, y, j, r, T) /\ Follows(Tail(buf), j, r, T, s)
      <3>1. st.live /\ TookThat(st, t, f)
        BY <1>8, <2>2
      <3>2. PICK n, z : Place(st, m, y, n, z, T) /\ Follows(buf, n, z, T, s)
        BY <1>13, <3>1 DEF Sends
      <3>3. PICK c : /\ st.parts > 0 => c = st.cut[1].size
                     /\ st.parts = 0 => m = st.next /\ c = y
                     /\ Path(st.waiting, st.next, c, n, z, T) /\ NextWaiting(st) = n
        BY <3>2 DEF Place
      <3>4. IsSeq(st.waiting) /\ Len(st.waiting) \in Nat
        BY <1>0, LenNat DEF StreamShape
      <3>5. n \in Int /\ z \in Sizes
        BY <3>3, <3>4, PathTypes
      <3>6. Reads(buf, n, z, T, s)
        BY <1>0, <3>2, <3>5, FollowsHead
      <3>7. CASE /\ f.what = "raw" => f.at < n
                 /\ f.what = "resize" => f.at < n
                 /\ Follows(Tail(buf), n, z, T, s)
        <4>1. t.waiting = st.waiting
          BY <1>4, <3>1, <3>3, <3>5, <3>7 DEF TookThat
        <4>2. /\ st'.waiting = st.waiting /\ st'.next = st.next /\ st'.parts = st.parts
              /\ st'.cut = st.cut
          BY <1>8, <1>10, <4>1
        <4>3. NextWaiting(st') = NextWaiting(st)
          BY ONLY <4>2, SameWaiting
        <4>4. Place(st', m, y, n, z, T)
          BY ONLY <3>3, <4>2, <4>3 DEF Place
        <4> QED BY <3>7, <4>4
      <3>8. CASE /\ f.what \in {"raw", "resize"} /\ f.at = n
                 /\ \E j \in Nat, r \in Sizes : Step(f, n, z, j, r, T) /\ Follows(Tail(buf), j, r, T, s)
        <4>1. PICK j \in Nat, r \in Sizes : Step(f, n, z, j, r, T) /\ Follows(Tail(buf), j, r, T, s)
          BY <3>8
        <4>2. t.waiting = Append(st.waiting, f)
          BY <1>4, <3>1, <3>3, <3>5, <3>8 DEF TookThat
        <4>3. j \in Int /\ Path(Append(st.waiting, f), st.next, c, j, r, T)
          BY <3>3, <3>4, <4>1, PathAppend
        <4>4. /\ st'.waiting = Append(st.waiting, f) /\ st'.next = st.next /\ st'.parts = st.parts
              /\ st'.cut = st.cut
          BY <1>8, <1>10, <4>2
        <4>5. /\ f.what = "raw" => NextWaiting(st') = f.at + 1
              /\ f.what # "raw" => NextWaiting(st') = NextWaiting(st)
          BY ONLY <3>4, <4>4, NextAppend
        <4>6. NextWaiting(st') = j
          <5>1. f.what = "raw" => j = f.at + 1
            BY <3>8, <4>1 DEF Step
          <5>2. f.what = "resize" => j = n
            BY <3>8, <4>1 DEF Step
          <5> QED BY <3>3, <3>8, <4>5, <5>1, <5>2
        <4>7. Place(st', m, y, j, r, T)
          BY ONLY <3>3, <4>3, <4>4, <4>6 DEF Place
        <4> QED BY <4>1, <4>7
      <3> QED BY <3>6, <3>7, <3>8 DEF Reads, f
    <2> QED BY <1>10, <2>1, <2>2 DEF Sends
  <1>14. AskRight'
    BY <1>8, <1>10 DEF AskRight
  <1>15. st'.ended # "done" /\ (st'.ended # "no" => ~term.open /\ buf' = <<>> /\ ~lagged' /\ st'.ask = "none")
    BY <1>6, <1>8, <1>10
  <1>16. /\ IsSeq(buf') /\ Len(buf') <= Buffered /\ lagged' \in BOOLEAN
    BY <1>0, <1>1 DEF Shape
  <1> QED BY <1>0, <1>5, <1>8, <1>10, <1>12, <1>13, <1>14, <1>15, <1>16, StreamTurns DEF Shape

LEMMA PublishedKeeps ==
  ASSUME IInv, Published
  PROVE  IInv'
  <1>0. Shape /\ LogRight /\ StreamShape(st)
    BY DEF IInv, Shape
  <1>1. /\ st.ask = "none" /\ st.ended = "no"
        /\ IF lagged THEN st' = [Missed(st) EXCEPT !.batch = TRUE] /\ lagged' = FALSE /\ buf' = buf
           ELSE /\ buf # <<>> /\ st' = [Took(st, Head(buf)) EXCEPT !.batch = TRUE]
                /\ buf' = Tail(buf) /\ lagged' = lagged
        /\ UNCHANGED <<term, wire, acks, viewer, ups, act, view>>
    BY DEF Published, Serves
  <1>2. CASE lagged
    <2> DEFINE t == Behind(st)
    <2>1. st' = [t EXCEPT !.batch = TRUE] /\ lagged' = FALSE /\ buf' = buf
      BY <1>1, <1>2 DEF Missed
    <2>2. /\ StreamShape(t) /\ ~t.live /\ t.waiting = <<>> /\ t.parts = st.parts /\ t.cut = st.cut
          /\ t.next = st.next /\ t.transit = st.transit /\ t.ask = st.ask /\ t.ended = st.ended
      BY <1>0, BehindIs
    <2> HIDE DEF t
    <2>3. /\ st'.waiting = t.waiting /\ st'.live = t.live /\ st'.parts = t.parts /\ st'.cut = t.cut
          /\ st'.next = t.next /\ st'.transit = t.transit /\ st'.ask = t.ask /\ st'.ended = t.ended
          /\ st'.exact = t.exact /\ DOMAIN st' = StreamFields
      BY <2>1, <2>2 DEF StreamShape, StreamFields
    <2>4. Raws(st') = Raws(t)
      BY <2>3 DEF Raws
    <2>5. StreamShape(st')
      BY <2>2, <2>3, <2>4 DEF StreamShape
    <2>6. \A m, y : Sends(m, y) => Sends(m, y)'
      BY <1>1, <2>2, <2>3 DEF Sends
    <2>7. AskRight'
      BY <1>1, <2>2, <2>3 DEF AskRight
    <2>8. LogRight'
      BY <1>0, <1>1, <2>1 DEF LogRight
    <2> QED BY <1>0, <1>1, <2>1, <2>2, <2>3, <2>5, <2>6, <2>7, <2>8, StreamTurns DEF Shape
  <1>3. CASE ~lagged
    BY <1>1, <1>3, ReadKeeps
  <1> QED BY <1>2, <1>3

LEMMA DrainKeeps ==
  ASSUME IInv, Drain
  PROVE  IInv'
  <1> DEFINE T == term.content f == [what |-> "end"]
  <1>0. /\ Shape /\ LogRight /\ WayRight /\ EndsRight /\ ActRight /\ StreamShape(st)
        /\ ViewerShape(viewer)
    BY DEF IInv, Shape
  <1>1. /\ st.ended = "drain" /\ UNCHANGED <<term, buf, lagged, acks, viewer, ups, act, view>>
        /\ IF Ready THEN SendNext ELSE wire' = Append(wire, f) /\ st' = [st EXCEPT !.ended = "done"]
    BY DEF Drain
  <1>2. st.ask = "none" /\ ~term.open /\ buf = <<>> /\ ~lagged
    BY <1>0, <1>1 DEF EndsRight
  <1>3. CASE Ready
    BY <1>1, <1>2, <1>3, SendNextKeeps
  <1>4. CASE ~Ready
    <2>1. wire' = Append(wire, f) /\ st' = [st EXCEPT !.ended = "done"]
      BY <1>1, <1>4
    <2>2. f.what = "end" /\ Weight(f) = 0
      BY DEF Weight, Carries
    <2> HIDE DEF f
    <2>3. st.parts = 0 /\ st.waiting = <<>>
      BY <1>0, <1>4 DEF Ready, StreamShape
    <2>4. /\ st'.waiting = st.waiting /\ st'.live = st.live /\ st'.parts = 0 /\ st'.cut = st.cut
          /\ st'.next = st.next /\ st'.transit = st.transit /\ st'.ask = "none"
          /\ st'.ended = "done" /\ st'.exact = st.exact /\ DOMAIN st' = StreamFields
      BY <1>0, <1>2, <2>1, <2>3 DEF StreamShape, StreamFields
    <2>5. Raws(st') = Raws(st) /\ NextWaiting(st') = NextWaiting(st)
      BY <2>4, SameWaiting
    <2>6. StreamShape(st')
      BY <1>0, <2>4, <2>5 DEF StreamShape
    <2>7. IsSeq(wire) /\ Len(wire) \in Nat
      BY <1>0, LenNat DEF Shape
    <2>8. PICK v : Longer(v, wire, f)
      BY <2>7, LongerSeq
    <2>9. /\ wire' = v /\ IsSeq(v) /\ Len(v) = Len(wire) + 1 /\ v[Len(wire) + 1] = f
          /\ \A i \in 1 .. Len(wire) : v[i] = wire[i]
      BY <2>1, <2>8 DEF Longer
    <2>10. \A i \in 1 .. Len(v) : i \in 1 .. Len(wire) \/ i = Len(v)
      BY <2>7, <2>9
    <2>11. Shape'
      <3>1. Channel(v)
        BY <1>0, <2>2, <2>9, <2>10 DEF Channel, Shape
      <3>2. Total(Weights(wire')) = Total(Weights(wire)) + Weight(f) /\ Total(Weights(wire)) \in Nat
        BY <2>1, <2>7, WeightsAppend
      <3>3. Total(Weights(wire')) = Total(Weights(wire))
        BY <2>2, <3>2
      <3> QED BY <1>0, <1>1, <2>4, <2>6, <2>9, <3>1, <3>3 DEF Shape
    <2>12. LogRight'
      BY <1>0, <1>1 DEF LogRight
    <2>13. WayRight'
      <3>1. PICK k, x, m, y : Onwards(k, x, m, y) /\ Sends(m, y)
        BY <1>0 DEF WayRight
      <3>2. m \in Int /\ y \in Sizes
        BY <1>0, <3>1, OnwardsTypes
      <3>3. Onwards(k, x, m, y)'
        <4>1. Step(f, m, y, m, y, T)
          BY <2>2 DEF Step
        <4>2. Path(wire, k, x, m, y, T)
          BY <3>1 DEF Onwards
        <4>3. Path(Append(wire, f), k, x, m, y, T)
          BY <2>7, <3>2, <4>1, <4>2, PathAppend
        <4> QED BY <1>1, <2>1, <3>1, <4>3 DEF Onwards, NextOf
      <3>4. Sends(m, y)'
        <4>1. \A n, z : Place(st, m, y, n, z, T) => Place(st', m, y, n, z, T)
          BY <2>3, <2>4, <2>5 DEF Place
        <4> QED BY <1>1, <2>4, <3>1, <4>1 DEF Sends
      <3> QED BY <3>3, <3>4 DEF WayRight
    <2>14. AskRight'
      BY <2>4 DEF AskRight
    <2>15. EndsRight'
      <3>1. \A i \in 1 .. Len(wire) : wire[i].what # "end"
        BY <1>0, <1>1 DEF EndsRight
      <3>2. \A i \in 1 .. Len(v) : v[i].what = "end" => i = Len(v)
        BY <2>9, <2>10, <3>1
      <3>3. (\A i \in 1 .. Len(ups) : ups[i].what # "end") /\ ~act.ended
        BY <1>0, <1>1 DEF EndsRight
      <3> QED BY <1>1, <1>2, <2>3, <2>4, <2>9, <3>2, <3>3 DEF EndsRight
    <2>16. ActRight'
      BY <1>0, <1>1 DEF ActRight
    <2> QED BY <2>11, <2>12, <2>13, <2>14, <2>15, <2>16 DEF IInv
  <1> QED BY <1>3, <1>4

-----------------------------------------------------------------------------
(* The Viewer *)

\* What a frame becomes for the actor, as a way from <<k, x>> to <<j, z>>.
Becomes(e, f, k, x, j, z, T) ==
  /\ IsSeq(e) /\ Path(e, k, x, j, z, T)
  /\ \A i \in 1 .. Len(e) : e[i].what = "end" => Len(e) = 1 /\ f.what = "end"
  /\ f.what = "end" => \A i \in 1 .. Len(e) : e[i].what = "end"

LEMMA RawBecomes ==
  ASSUME NEW f, f.what = "output", NEW k, NEW x, NEW j, NEW z, x \in Sizes,
         NEW T, Len(T) \in Nat, Step(f, k, x, j, z, T)
  PROVE  Becomes(Raw(f), f, k, x, j, z, T)
  <1> DEFINE d == f.chunks q == Raw(f) N == [i \in 0 .. d |-> k + i] Z == [i \in 0 .. d |-> x]
  <1>1. /\ f.at = k /\ k \in Nat /\ d \in Nat /\ d # 0 /\ j = k + d /\ j <= Len(T) /\ z = x
        /\ \A i \in k + 1 .. j : T[i] = x
    BY DEF Step
  <1>2. q = [i \in 1 .. d |-> [what |-> "raw", at |-> f.at + i - 1]]
    BY DEF Raw
  <1> HIDE DEF d
  <1>3. Len(q) = d /\ IsSeq(q)
    <2> DEFINE S == {[what |-> "raw", at |-> f.at + i - 1] : i \in 1 .. d}
    <2>0. \A i \in 1 .. d : [what |-> "raw", at |-> f.at + i - 1] \in S
      OBVIOUS
    <2> HIDE DEF q, S
    <2>1. q \in Seq(S)
      <3>1. \A i \in 1 .. d : q[i] \in S
        BY <1>2, <2>0, Zenon
      <3>2. q = [i \in 1 .. d |-> q[i]]
        BY <1>2, Zenon
      <3>3. q \in [1 .. d -> S]
        BY ONLY <3>1, <3>2
      <3> QED BY ONLY <1>1, <3>3
    <2>2. Len(q) = d
      BY <1>1, <1>2
    <2> QED BY <2>1, <2>2 DEF IsSeq
  <1>4. \A i \in 1 .. d : q[i].what = "raw" /\ q[i].at = k + i - 1
    BY <1>1, <1>2
  <1> HIDE DEF q
  <1>5. /\ N \in [0 .. d -> Int] /\ N[0] = k /\ N[d] = j
        /\ \A i \in 1 .. d : N[i - 1] = k + i - 1 /\ N[i] = k + i
    BY <1>1
  <1>6. /\ Z \in [0 .. d -> Sizes] /\ Z[0] = x /\ Z[d] = z
        /\ \A i \in 1 .. d : Z[i - 1] = x /\ Z[i] = x
    BY <1>1
  <1> HIDE DEF N, Z
  <1>7. ASSUME NEW i \in 1 .. d PROVE Step(q[i], N[i - 1], Z[i - 1], N[i], Z[i], T)
    <2>1. k + i \in k + 1 .. j /\ k + i - 1 \in Nat /\ k + i - 1 < Len(T) /\ (k + i - 1) + 1 = k + i
      BY <1>1
    <2>2. T[(k + i - 1) + 1] = x
      BY <1>1, <2>1
    <2> QED BY <1>4, <1>5, <1>6, <2>1, <2>2 DEF Step
  <1>8. Walk(q, N, Z, T)
    BY <1>3, <1>5, <1>6, <1>7 DEF Walk
  <1>9. Path(q, k, x, j, z, T)
    BY <1>3, <1>5, <1>6, <1>8 DEF Path
  <1>10. \A i \in 1 .. Len(q) : q[i].what # "end"
    BY <1>3, <1>4
  <1> QED BY <1>3, <1>9, <1>10 DEF Becomes, q

LEMMA NothingBecomes ==
  ASSUME NEW f, NEW k \in Int, NEW x \in Sizes, NEW T
  PROVE  Becomes(<<>>, f, k, x, k, x, T)
  <1>1. 1 .. Len(<<>>) = {}
    OBVIOUS
  <1> QED BY <1>1, NoSeq, PathNothing DEF Becomes

LEMMA ItselfBecomes ==
  ASSUME NEW f, NEW k \in Int, NEW x \in Sizes, NEW j \in Int, NEW z \in Sizes, NEW T,
         Step(f, k, x, j, z, T)
  PROVE  Becomes(<<f>>, f, k, x, j, z, T)
  <1>1. IsSeq(<<f>>) /\ Len(<<f>>) = 1 /\ <<f>>[1] = f
    BY OneSeq
  <1>2. Path(<<f>>, k, x, j, z, T)
    BY PathOne
  <1> QED BY <1>1, <1>2 DEF Becomes

LEMMA KeyframeBecomes ==
  ASSUME NEW f, f.what = "keyframe", ~f.more, NEW k \in Int, NEW x \in Sizes, NEW j \in Int,
         NEW z \in Sizes, NEW T, Step(f, k, x, j, z, T), ~viewer.started => k = -1
  PROVE  Becomes(Keyframes(f), f, k, x, j, z, T)
  <1> DEFINE r == [what |-> "resync"] c == [what |-> "checkpoint", at |-> f.at, cut |-> f.cut]
  <1>1. f.at = j /\ CutAt(f.cut, j, z, T)
    BY DEF Step
  <1>2. /\ r.what = "resync" /\ c.what = "checkpoint" /\ c.at = j /\ c.cut = f.cut
    BY <1>1
  <1>3. Keyframes(f) = (IF viewer.started THEN <<r>> ELSE <<>>) \o <<c>>
    BY DEF Keyframes
  <1> HIDE DEF r, c
  <1>4. Step(r, k, x, -1, x, T) /\ Step(c, -1, x, j, z, T)
    BY <1>1, <1>2 DEF Step
  <1>5. -1 \in Int
    OBVIOUS
  <1>6. Path(<<r>>, k, x, -1, x, T) /\ Path(<<c>>, -1, x, j, z, T)
    BY <1>4, <1>5, PathOne
  <1>7. /\ IsSeq(<<r>>) /\ Len(<<r>>) = 1 /\ <<r>>[1] = r
        /\ IsSeq(<<c>>) /\ Len(<<c>>) = 1 /\ <<c>>[1] = c
    BY OneSeq
  <1>8. CASE viewer.started
    <2> DEFINE e == <<r>> \o <<c>>
    <2>1. Keyframes(f) = e
      BY <1>3, <1>8
    <2>2. IsSeq(e) /\ Joins(e, <<r>>, <<c>>)
      BY <1>7, JoinSeq
    <2> HIDE DEF e
    <2>3. Path(e, k, x, j, z, T)
      BY <1>6, <1>7, <2>2, PathJoins
    <2>4. Len(e) = 2 /\ e[1] = r /\ e[2] = c
      <3>1. Len(e) = 1 + 1 /\ e[1] = <<r>>[1] /\ e[1 + 1] = <<c>>[1]
        <4>1. 1 \in 1 .. 1
          OBVIOUS
        <4> QED BY <1>7, <2>2, <4>1 DEF Joins
      <3> QED BY <1>7, <3>1
    <2>5. \A i \in 1 .. Len(e) : e[i].what # "end"
      BY <1>2, <2>4
    <2> QED BY <2>1, <2>2, <2>3, <2>5 DEF Becomes
  <1>9. CASE ~viewer.started
    <2> DEFINE e == <<>> \o <<c>>
    <2>1. Keyframes(f) = e
      BY <1>3, <1>9
    <2>2. IsSeq(<<>>) /\ Len(<<>>) = 0
      BY NoSeq
    <2>3. IsSeq(e) /\ Joins(e, <<>>, <<c>>)
      BY <1>7, <2>2, JoinSeq
    <2> HIDE DEF e
    <2>4. Path(<<>>, k, x, -1, x, T)
      BY <1>9, PathNothing
    <2>5. Path(e, k, x, j, z, T)
      BY <1>6, <1>7, <2>2, <2>3, <2>4, PathJoins
    <2>6. Len(e) = 1 /\ e[1] = c
      <3>1. Len(e) = 0 + 1 /\ e[0 + 1] = <<c>>[1]
        <4>1. 1 \in 1 .. 1
          OBVIOUS
        <4> QED BY <1>7, <2>2, <2>3, <4>1 DEF Joins
      <3> QED BY <1>7, <3>1
    <2>7. \A i \in 1 .. Len(e) : e[i].what # "end"
      BY <1>2, <2>6
    <2> QED BY <2>1, <2>3, <2>5, <2>7 DEF Becomes
  <1> QED BY <1>8, <1>9

LEMMA TotalNat ==
  ASSUME NEW s \in Seq(Nat)
  PROVE  Total(s) \in Nat
  <1>1. PICK g : Sums(g, s) /\ Total(s) = g[Len(s)]
    BY TotalIs
  <1>2. Len(s) \in 0 .. Len(s)
    OBVIOUS
  <1> QED BY <1>1, <1>2 DEF Sums

\* What the Viewer and its acknowledgements count.
LEMMA Counts ==
  ASSUME Shape
  PROVE  /\ Total(Weights(wire)) \in Nat /\ Total(Reports(acks)) \in Nat /\ viewer.unacked \in Nat
         /\ st.transit \in Nat
  <1>1. Weights(wire) \in Seq(Nat)
    BY WeightsOf DEF Shape
  <1>2. Reports(acks) \in Seq(Nat)
    BY ReportsOf DEF Shape
  <1> QED BY <1>1, <1>2, TotalNat DEF Shape, ViewerShape, StreamShape

\* The frames that the Viewer has are counted, or acknowledged.
LEMMA AckSent ==
  ASSUME Shape, NEW v, v.unacked \in Nat, Acknowledged(v)
  PROVE  /\ IsSeq(acks') /\ Acks(acks')
         /\ Total(Reports(acks')) = Total(Reports(acks)) + v.unacked
  <1>0. IsSeq(acks) /\ Acks(acks) /\ Total(Reports(acks)) \in Nat
    BY Counts DEF Shape
  <1>1. CASE v.unacked > 0
    <2> DEFINE m == [what |-> "ack", frames |-> v.unacked]
    <2>1. m.what = "ack" /\ m.frames = v.unacked
      OBVIOUS
    <2>2. acks' = Append(acks, m)
      BY <1>1 DEF Acknowledged
    <2> HIDE DEF m
    <2>3. /\ Total(Reports(Append(acks, m))) = Total(Reports(acks)) + Reported(m)
          /\ Acks(Append(acks, m))
      BY <1>0, <2>1, ReportsAppend
    <2>4. IsSeq(Append(acks, m))
      BY <1>0, AppendSeq
    <2>5. Reported(m) = v.unacked
      BY <2>1 DEF Reported
    <2> QED BY <2>2, <2>3, <2>4, <2>5
  <1>2. CASE ~(v.unacked > 0)
    <2>1. acks' = acks /\ v.unacked = 0
      BY <1>2 DEF Acknowledged
    <2> QED BY <1>0, <2>1
  <1> QED BY <1>1, <1>2

\* A frame that became the updates e.
LEMMA HeardKeeps ==
  ASSUME IInv, wire # <<>>, wire' = Tail(wire), NEW e, ups' = ups \o e,
         NEW k, NEW x, NEW j, NEW z, NEW m, NEW y,
         Onwards(k, x, m, y), Sends(m, y), Path(Tail(wire), j, z, m, y, term.content),
         Becomes(e, wire[1], k, x, j, z, term.content),
         ViewerShape(viewer'), IsSeq(acks'), Acks(acks'),
         viewer'.unacked + Total(Reports(acks'))
           = Weight(wire[1]) + viewer.unacked + Total(Reports(acks)),
         ~viewer'.started => ~viewer.started /\ (e # <<>> => wire[1].what = "end"),
         UNCHANGED <<term, buf, lagged, st, act, view>>
  PROVE  IInv'
  <1> DEFINE T == term.content f == wire[1] q == Tail(wire)
  <1>0. Shape /\ LogRight /\ AskRight /\ EndsRight /\ ActRight
    BY DEF IInv
  <1>1. /\ term' = term /\ buf' = buf /\ lagged' = lagged /\ st' = st /\ act' = act /\ view' = view
    OBVIOUS
  <1>2. /\ IsSeq(wire) /\ IsSeq(ups) /\ Len(ups) \in Nat /\ IsSeq(e) /\ Len(e) \in Nat
    BY <1>0, LenNat DEF Shape, Becomes
  <1>3. /\ IsSeq(q) /\ Len(wire) \in Nat /\ Len(wire) >= 1 /\ Len(q) = Len(wire) - 1
        /\ \A i \in 1 .. Len(wire) - 1 : q[i] = wire[i + 1]
    BY <1>2, TailSeq
  <1> HIDE DEF q
  <1>13. wire' = q
    BY DEF q
  <1>4. IsSeq(ups') /\ Joins(ups', ups, e)
    BY <1>2, JoinSeq
  <1>5. \A i \in 1 .. Len(q) : /\ i + 1 \in 1 .. Len(wire) /\ q[i] = wire[i + 1]
                               /\ i + 1 = Len(wire) => i = Len(q)
    BY <1>3
  <1>6. Shape'
    <2>1. Channel(q)
      <3>1. Channel(wire)
        BY <1>0 DEF Shape
      <3>2. ASSUME NEW i \in 1 .. Len(q)
            PROVE  q[i].what \in {"keyframe", "output", "resize", "end"}
        <4>1. i + 1 \in 1 .. Len(wire) /\ q[i] = wire[i + 1]
          BY <1>5
        <4>2. wire[i + 1].what \in {"keyframe", "output", "resize", "end"}
          BY <3>1, <4>1 DEF Channel
        <4> QED BY <4>1, <4>2
      <3> QED BY <3>2 DEF Channel
    <2>2. /\ Total(Weights(wire)) = Weight(f) + Total(Weights(q))
          /\ Total(Weights(q)) \in Nat /\ Weight(f) \in {0, 1}
      BY <1>2, WeightsTail DEF q
    <2>3. /\ Total(Reports(acks)) \in Nat /\ viewer.unacked \in Nat /\ st.transit \in Nat
          /\ st.transit = Total(Weights(wire)) + viewer.unacked + Total(Reports(acks))
      BY <1>0, Counts DEF Shape
    <2>4. Total(Reports(acks')) \in Nat /\ viewer'.unacked \in Nat
      <3>1. Reports(acks') \in Seq(Nat)
        BY ReportsOf
      <3> QED BY <3>1, TotalNat DEF ViewerShape
    <2>5. viewer'.unacked + Total(Reports(acks')) = Weight(f) + viewer.unacked + Total(Reports(acks))
      OBVIOUS
    <2> DEFINE a == Total(Weights(q)) b == Total(Reports(acks)) c == Total(Reports(acks'))
               d == Total(Weights(wire)) g == Weight(f) n == st.transit u == viewer.unacked
               v == viewer'.unacked
    <2>6. /\ d = g + a /\ a \in Nat /\ g \in {0, 1} /\ b \in Nat /\ u \in Nat /\ c \in Nat /\ v \in Nat
          /\ n = d + u + b /\ v + c = g + u + b
      BY <2>2, <2>3, <2>4, <2>5
    <2> HIDE DEF a, b, c, d, g, n, u, v
    <2>7. n = a + v + c
      BY ONLY <2>6
    <2>8. st'.transit = Total(Weights(wire')) + viewer'.unacked + Total(Reports(acks'))
      BY <1>1, <1>13, <2>7 DEF a, c, n, v
    <2> QED BY <1>0, <1>1, <1>3, <1>4, <1>13, <2>1, <2>8 DEF Shape
  <1>7. LogRight' /\ AskRight'
    BY <1>0, <1>1 DEF LogRight, AskRight
  <1>8. WayRight'
    <2>1. Onwards(j, z, m, y)'
      <3>1. PICK b : (act.next # <<>> => b = view[1].size) /\ Path(ups, NextOf, b, k, x, T)
        BY DEF Onwards
      <3>2. Path(e, k, x, j, z, T)
        BY DEF Becomes
      <3>3. Path(ups', NextOf, b, j, z, T)
        BY <1>2, <1>4, <3>1, <3>2, PathJoins
      <3>4. Path(q, j, z, m, y, T)
        BY DEF q
      <3> QED BY <1>1, <1>13, <3>1, <3>3, <3>4 DEF Onwards, NextOf
    <2>2. Sends(m, y)'
      BY <1>1 DEF Sends
    <2> QED BY <2>1, <2>2 DEF WayRight
  <1>9. 1 \in 1 .. Len(wire) /\ (f.what = "end" => q = <<>> /\ st.ended = "done")
    <2>1. 1 \in 1 .. Len(wire)
      BY <1>3
    <2>2. ASSUME f.what = "end" PROVE q = <<>> /\ st.ended = "done"
      <3>1. 1 = Len(wire) /\ st.ended = "done"
        BY <1>0, <2>1, <2>2 DEF EndsRight
      <3>2. Len(q) = 0
        <4>1. Len(q) = Len(wire) - 1 /\ Len(wire) = 1
          BY <1>3, <3>1
        <4> QED BY ONLY <4>1
      <3> QED BY <1>3, <3>1, <3>2, LenNat
    <2> QED BY <2>1, <2>2
  <1>10. EndsRight'
    <2>1. \A i \in 1 .. Len(q) :
            q[i].what = "end" => i = Len(q) /\ st.ended = "done"
      <3>1. \A i \in 1 .. Len(wire) : wire[i].what = "end" => i = Len(wire) /\ st.ended = "done"
        BY <1>0 DEF EndsRight
      <3>2. ASSUME NEW i \in 1 .. Len(q), q[i].what = "end"
            PROVE  i = Len(q) /\ st.ended = "done"
        <4>1. i + 1 \in 1 .. Len(wire) /\ q[i] = wire[i + 1] /\ (i + 1 = Len(wire) => i = Len(q))
          BY <1>5
        <4>2. wire[i + 1].what = "end"
          BY <3>2, <4>1
        <4>3. i + 1 = Len(wire) /\ st.ended = "done"
          BY <3>1, <4>1, <4>2
        <4> QED BY <4>1, <4>3
      <3> QED BY <3>2
    <2>2. (\A i \in 1 .. Len(ups) : ups[i].what # "end") /\ ~act.ended
      BY <1>0 DEF EndsRight
    <2>3. ASSUME NEW i \in 1 .. Len(ups'), ups'[i].what = "end"
          PROVE  i = Len(ups') /\ q = <<>> /\ st.ended = "done"
      <3>1. Len(ups') = Len(ups) + Len(e)
        BY <1>4 DEF Joins
      <3>2. i \notin 1 .. Len(ups)
        BY <1>4, <2>2, <2>3 DEF Joins
      <3>3. PICK h \in 1 .. Len(e) : i = Len(ups) + h
        <4>1. i - Len(ups) \in 1 .. Len(e) /\ i = Len(ups) + (i - Len(ups))
          BY <1>2, <3>1, <3>2
        <4> QED BY <4>1
      <3>4. e[h].what = "end"
        BY <1>4, <2>3, <3>3 DEF Joins
      <3>5. Len(e) = 1 /\ f.what = "end"
        BY <3>4 DEF Becomes
      <3> QED BY <1>2, <1>9, <3>1, <3>3, <3>5
    <2> QED BY <1>0, <1>1, <2>1, <2>2, <2>3, <1>13 DEF EndsRight
  <1>11. ActRight'
    <2>1. ASSUME ~viewer'.started
          PROVE  /\ act.next = <<>> /\ (ups' # <<>> => q = <<>> /\ st.ended = "done")
                 /\ \A i \in 1 .. Len(ups') : ups'[i].what = "end"
      <3>1. ~viewer.started /\ (e # <<>> => f.what = "end")
        BY <2>1
      <3>2. act.next = <<>> /\ ups = <<>>
        BY <1>0, <3>1 DEF ActRight
      <3>3. CASE e = <<>>
        <4>1. Len(ups') = 0
          BY <1>4, <3>2, <3>3, NoSeq DEF Joins
        <4> QED BY <1>4, <3>2, <4>1, LenNat
      <3>4. CASE e # <<>>
        <4>1. f.what = "end" /\ q = <<>> /\ st.ended = "done"
          BY <1>9, <3>1, <3>4
        <4>2. \A i \in 1 .. Len(e) : e[i].what = "end"
          BY <4>1 DEF Becomes
        <4>3. Len(ups') = 0 + Len(e) /\ \A i \in 1 .. Len(e) : ups'[0 + i] = e[i]
          BY <1>4, <3>2, NoSeq DEF Joins
        <4>4. \A i \in 1 .. Len(ups') : ups'[i].what = "end"
          BY <1>2, <4>2, <4>3
        <4> QED BY <3>2, <4>1, <4>4
      <3> QED BY <3>3, <3>4
    <2> QED BY <1>0, <1>1, <1>13, <2>1 DEF ActRight
  <1> QED BY <1>6, <1>7, <1>8, <1>10, <1>11 DEF IInv

LEMMA FrameKeeps ==
  ASSUME IInv, Frame
  PROVE  IInv'
  <1> DEFINE T == term.content f == wire[1]
             heard == [viewer EXCEPT !.unacked = IF Carries(f) THEN @ + 1 ELSE @]
  <1>0. /\ Shape /\ WayRight /\ ActRight /\ IsSeq(wire) /\ Channel(wire) /\ ViewerShape(viewer)
        /\ T \in Seq(Sizes) /\ Len(T) \in Nat /\ IsSeq(acks) /\ Acks(acks)
    BY DEF IInv, Shape, TermShape
  <1>1. wire # <<>>
    BY DEF Frame
  <1>2. Head(wire) = f /\ Len(wire) \in Nat /\ Len(wire) >= 1 /\ IsSeq(Tail(wire))
    BY <1>0, <1>1, TailSeq
  <1>3. f.what \in {"keyframe", "output", "resize", "end"}
    <2>1. 1 \in 1 .. Len(wire)
      BY <1>2
    <2> QED BY <1>0, <2>1 DEF Channel
  <1>4. /\ wire' = Tail(wire)
        /\ f.what = "keyframe" /\ ~f.more => /\ ups' = ups \o Keyframes(f) /\ Acknowledged(heard)
                                             /\ viewer' = [heard EXCEPT !.started = TRUE, !.unacked = 0]
        /\ f.what = "keyframe" /\ f.more => ups' = ups \o <<>>
        /\ f.what = "output" => ups' = ups \o Raw(f)
        /\ f.what \in {"resize", "end"} => ups' = ups \o <<f>>
        /\ ~(f.what = "keyframe" /\ ~f.more) => viewer' = heard /\ acks' = acks
        /\ UNCHANGED <<term, buf, lagged, st, act, view>>
    <2>1. Frame
      OBVIOUS
    <2>2. \/ f.what = "keyframe" /\ ~f.more
          \/ f.what = "keyframe" /\ f.more
          \/ f.what = "output"
          \/ f.what \in {"resize", "end"}
      BY <1>3
    <2> HIDE DEF f
    <2>3. CASE f.what = "keyframe" /\ ~f.more
      BY <1>2, <2>1, <2>3 DEF Frame
    <2>4. CASE f.what = "keyframe" /\ f.more
      BY <1>2, <2>1, <2>4 DEF Frame
    <2>5. CASE f.what = "output"
      BY <1>2, <2>1, <2>5 DEF Frame
    <2>6. CASE f.what \in {"resize", "end"}
      BY <1>2, <2>1, <2>6 DEF Frame
    <2> QED BY <2>2, <2>3, <2>4, <2>5, <2>6
  <1>5. PICK k, x, m, y : Onwards(k, x, m, y) /\ Sends(m, y)
    BY <1>0 DEF WayRight
  <1>6. PICK j \in Int, z \in Sizes : Step(f, k, x, j, z, T) /\ Path(Tail(wire), j, z, m, y, T)
    <2>1. Path(wire, k, x, m, y, T)
      BY <1>5 DEF Onwards
    <2>2. Goes(wire, k, x, m, y, T)
      BY <1>0, <1>1, <2>1, PathHead
    <2> QED BY <2>2 DEF Goes
  <1>7. k \in Int /\ x \in Sizes
    BY <1>0, <1>5, OnwardsTypes
  <1>8. ~viewer.started => k = -1
    <2> SUFFICES ASSUME ~viewer.started PROVE k = -1
      OBVIOUS
    <2>1. act.next = <<>> /\ ups = <<>>
      BY <1>0, <1>1 DEF ActRight
    <2>2. PICK b : Path(<<>>, NextOf, b, k, x, T)
      BY <1>5, <2>1 DEF Onwards
    <2> QED BY <2>1, <2>2, PathStays DEF NextOf
  <1>9. /\ DOMAIN heard = {"parts", "started", "unacked"} /\ heard.started = viewer.started
        /\ heard.unacked = viewer.unacked + Weight(f) /\ heard.unacked \in Nat
        /\ Weight(f) \in {0, 1} /\ viewer.unacked \in Nat
    BY <1>0 DEF ViewerShape, Weight
  <1>10. Total(Reports(acks)) \in Nat
    BY <1>0, Counts
  <1> HIDE DEF f, heard
  <1>11. CASE f.what = "keyframe" /\ ~f.more
    <2>1. Becomes(Keyframes(f), f, k, x, j, z, T)
      BY <1>6, <1>7, <1>8, <1>11, KeyframeBecomes
    <2>2. /\ ups' = ups \o Keyframes(f) /\ Acknowledged(heard)
          /\ viewer' = [heard EXCEPT !.started = TRUE, !.unacked = 0]
      BY <1>4, <1>11
    <2>3. ViewerShape(viewer') /\ viewer'.started = TRUE /\ viewer'.unacked = 0
      BY <1>9, <2>2 DEF ViewerShape
    <2>4. /\ IsSeq(acks') /\ Acks(acks')
          /\ Total(Reports(acks')) = Total(Reports(acks)) + heard.unacked
      BY <1>0, <1>9, <2>2, AckSent
    <2>5. viewer'.unacked + Total(Reports(acks')) = Weight(f) + viewer.unacked + Total(Reports(acks))
      BY <1>9, <1>10, <2>3, <2>4
    <2> QED BY <1>1, <1>4, <1>5, <1>6, <2>1, <2>2, <2>3, <2>4, <2>5, HeardKeeps DEF f
  <1>12. ASSUME ~(f.what = "keyframe" /\ ~f.more), NEW e, ups' = ups \o e, Becomes(e, f, k, x, j, z, T),
                ~viewer.started => (e # <<>> => f.what = "end")
         PROVE  IInv'
    <2>1. viewer' = heard /\ acks' = acks
      BY <1>4, <1>12
    <2>2. ViewerShape(viewer')
      BY <1>0, <1>9, <2>1 DEF ViewerShape
    <2>3. viewer'.unacked + Total(Reports(acks')) = Weight(f) + viewer.unacked + Total(Reports(acks))
      BY <1>9, <1>10, <2>1
    <2>4. ~viewer'.started => ~viewer.started /\ (e # <<>> => f.what = "end")
      BY <1>9, <1>12, <2>1
    <2> QED BY <1>0, <1>1, <1>4, <1>5, <1>6, <1>12, <2>1, <2>2, <2>3, <2>4, HeardKeeps DEF f
  <1>13. CASE f.what = "keyframe" /\ f.more
    <2>1. j = k /\ z = x
      BY <1>6, <1>13 DEF Step
    <2>2. Becomes(<<>>, f, k, x, j, z, T)
      BY <1>7, <2>1, NothingBecomes
    <2> QED BY <1>4, <1>12, <1>13, <2>2
  <1>14. CASE f.what = "output"
    <2>1. Becomes(Raw(f), f, k, x, j, z, T)
      BY <1>0, <1>6, <1>7, <1>14, RawBecomes
    <2>2. viewer.started
      <3>1. k \in Nat
        BY <1>6, <1>14 DEF Step
      <3> QED BY <1>8, <3>1
    <2> QED BY <1>4, <1>12, <1>14, <2>1, <2>2
  <1>15. CASE f.what \in {"resize", "end"}
    <2>1. Becomes(<<f>>, f, k, x, j, z, T)
      BY <1>6, <1>7, ItselfBecomes
    <2>2. f.what = "resize" => viewer.started
      <3>1. f.what = "resize" => k \in Nat
        BY <1>6 DEF Step
      <3> QED BY <1>8, <3>1
    <2> QED BY <1>4, <1>12, <1>15, <2>1, <2>2
  <1> QED BY <1>3, <1>11, <1>13, <1>14, <1>15

\* What the way back carries, with nothing else.
LEMMA WayBackKeeps ==
  ASSUME IInv, ViewerShape(viewer'), viewer'.started = viewer.started, IsSeq(acks'), Acks(acks'),
         viewer'.unacked + Total(Reports(acks')) = viewer.unacked + Total(Reports(acks)),
         UNCHANGED <<term, buf, lagged, st, wire, ups, act, view>>
  PROVE  IInv'
  <1>0. Shape /\ LogRight /\ WayRight /\ AskRight /\ EndsRight /\ ActRight
    BY DEF IInv
  <1>1. /\ term' = term /\ buf' = buf /\ lagged' = lagged /\ st' = st /\ wire' = wire /\ ups' = ups
        /\ act' = act /\ view' = view
    OBVIOUS
  <1>2. Shape'
    <2> DEFINE a == Total(Weights(wire)) b == Total(Reports(acks)) c == Total(Reports(acks'))
               n == st.transit u == viewer.unacked v == viewer'.unacked
    <2>1. n = a + u + b /\ a \in Nat /\ u \in Nat /\ b \in Nat /\ v \in Nat
      BY <1>0, Counts DEF Shape, ViewerShape
    <2>2. c \in Nat
      <3>1. Reports(acks') \in Seq(Nat)
        BY ReportsOf
      <3> QED BY <3>1, TotalNat
    <2>3. v + c = u + b
      OBVIOUS
    <2> HIDE DEF a, b, c, n, u, v
    <2>4. n = a + v + c
      BY ONLY <2>1, <2>2, <2>3
    <2>5. st'.transit = Total(Weights(wire')) + viewer'.unacked + Total(Reports(acks'))
      BY <1>1, <2>4 DEF a, c, n, v
    <2> QED BY <1>0, <1>1, <2>5 DEF Shape
  <1>3. LogRight' /\ AskRight' /\ EndsRight'
    BY <1>0, <1>1 DEF LogRight, AskRight, EndsRight
  <1>4. WayRight'
    <2>1. PICK k, x, m, y : Onwards(k, x, m, y) /\ Sends(m, y)
      BY <1>0 DEF WayRight
    <2>2. Onwards(k, x, m, y)' /\ Sends(m, y)'
      BY <1>1, <2>1 DEF Onwards, NextOf, Sends
    <2> QED BY <2>2 DEF WayRight
  <1>5. ActRight'
    BY <1>0, <1>1 DEF ActRight
  <1> QED BY <1>2, <1>3, <1>4, <1>5 DEF IInv

LEMMA AcknowledgeKeeps ==
  ASSUME IInv, Acknowledge
  PROVE  IInv'
  <1>0. Shape /\ ViewerShape(viewer)
    BY DEF IInv, Shape
  <1>1. /\ viewer' = [viewer EXCEPT !.unacked = 0] /\ Acknowledged(viewer)
        /\ UNCHANGED <<term, buf, lagged, st, wire, ups, act, view>>
    BY DEF Acknowledge
  <1>2. /\ ViewerShape(viewer') /\ viewer'.started = viewer.started /\ viewer'.unacked = 0
        /\ viewer.unacked \in Nat
    BY <1>0, <1>1 DEF ViewerShape
  <1>3. /\ IsSeq(acks') /\ Acks(acks')
        /\ Total(Reports(acks')) = Total(Reports(acks)) + viewer.unacked
    BY <1>0, <1>1, <1>2, AckSent
  <1>4. viewer'.unacked + Total(Reports(acks')) = viewer.unacked + Total(Reports(acks))
    <2>1. Total(Reports(acks)) \in Nat
      BY <1>0, Counts
    <2> QED BY <1>2, <1>3, <2>1
  <1> QED BY <1>1, <1>2, <1>3, <1>4, WayBackKeeps

LEMMA RefreshKeeps ==
  ASSUME IInv, Refresh
  PROVE  IInv'
  <1> DEFINE m == [what |-> "refresh"]
  <1>0. Shape /\ ViewerShape(viewer) /\ IsSeq(acks) /\ Acks(acks)
    BY DEF IInv, Shape
  <1>1. /\ acks' = Append(acks, m) /\ viewer' = viewer
        /\ UNCHANGED <<term, buf, lagged, st, wire, ups, act, view>>
    BY DEF Refresh
  <1>2. m.what # "ack" /\ Reported(m) = 0
    BY DEF Reported
  <1> HIDE DEF m
  <1>3. /\ Total(Reports(Append(acks, m))) = Total(Reports(acks)) + Reported(m)
        /\ Total(Reports(acks)) \in Nat /\ Acks(Append(acks, m))
    BY <1>0, <1>2, ReportsAppend
  <1>4. IsSeq(Append(acks, m))
    BY <1>0, AppendSeq
  <1>5. Total(Reports(acks')) = Total(Reports(acks))
    BY <1>1, <1>2, <1>3
  <1>6. viewer'.unacked + Total(Reports(acks')) = viewer.unacked + Total(Reports(acks))
    BY <1>1, <1>5
  <1>7. ViewerShape(viewer') /\ viewer'.started = viewer.started /\ IsSeq(acks') /\ Acks(acks')
    BY <1>0, <1>1, <1>3, <1>4
  <1> QED BY <1>1, <1>6, <1>7, WayBackKeeps

-----------------------------------------------------------------------------
(* The actor *)

\* An update that leads the views from where they are to <<j, r>>.
LEMMA UpdateLeads ==
  ASSUME IInv, ups # <<>>, ups' = Tail(ups), NEW k, NEW x, NEW m, NEW y, Onwards(k, x, m, y), Sends(m, y),
         NEW j, NEW r, Path(Tail(ups), j, r, k, x, term.content),
         ActShape(act'), ~act'.failed, j = NextOf', act'.next # <<>> => r = view'[1].size,
         view' = <<>> \/ OneCut(view'), act'.next = <<>> /\ view' # <<>> => act'.resyncing,
         act'.next # <<>> => CutAt(view', act'.next[1], view'[1].size, term.content),
         act'.ended => act.ended \/ ups[1].what = "end",
         ~viewer.started => act'.next = <<>>,
         UNCHANGED <<term, buf, lagged, st, wire, acks, viewer>>
  PROVE  IInv'
  <1> DEFINE q == Tail(ups)
  <1>0. Shape /\ LogRight /\ AskRight /\ EndsRight /\ ActRight /\ IsSeq(ups)
    BY DEF IInv, Shape
  <1>1. /\ term' = term /\ buf' = buf /\ lagged' = lagged /\ st' = st /\ wire' = wire /\ acks' = acks
        /\ viewer' = viewer
    OBVIOUS
  <1>2. /\ IsSeq(q) /\ Len(ups) \in Nat /\ Len(ups) >= 1 /\ Len(q) = Len(ups) - 1
        /\ \A i \in 1 .. Len(ups) - 1 : q[i] = ups[i + 1]
    BY <1>0, TailSeq
  <1>3. ups' = q /\ Path(q, j, r, k, x, term.content)
    OBVIOUS
  <1> HIDE DEF q
  <1>4. \A i \in 1 .. Len(q) : /\ i + 1 \in 1 .. Len(ups) /\ q[i] = ups[i + 1]
                               /\ i + 1 = Len(ups) => i = Len(q)
    BY <1>2
  <1>5. Shape'
    BY <1>0, <1>1, <1>2, <1>3 DEF Shape
  <1>6. LogRight' /\ AskRight'
    BY <1>0, <1>1 DEF LogRight, AskRight
  <1>7. WayRight'
    <2>1. Path(wire, k, x, m, y, term.content)
      BY DEF Onwards
    <2>2. /\ act'.next # <<>> => r = view'[1].size
          /\ Path(ups', NextOf', r, k, x, term'.content)
      BY <1>1, <1>3
    <2>3. Onwards(k, x, m, y)'
      BY <1>1, <2>1, <2>2 DEF Onwards
    <2>4. Sends(m, y)'
      BY <1>1 DEF Sends
    <2> QED BY <2>3, <2>4 DEF WayRight
  <1>8. 1 \in 1 .. Len(ups) /\ (ups[1].what = "end" => q = <<>> /\ wire = <<>> /\ st.ended = "done")
    <2>1. 1 \in 1 .. Len(ups)
      BY <1>2
    <2>2. ASSUME ups[1].what = "end" PROVE q = <<>> /\ wire = <<>> /\ st.ended = "done"
      <3>1. 1 = Len(ups) /\ wire = <<>> /\ st.ended = "done"
        BY <1>0, <2>1, <2>2 DEF EndsRight
      <3>2. Len(q) = 0
        <4>1. Len(q) = Len(ups) - 1 /\ Len(ups) = 1
          BY <1>2, <3>1
        <4> QED BY ONLY <4>1
      <3> QED BY <1>2, <3>1, <3>2, LenNat
    <2> QED BY <2>1, <2>2
  <1>9. EndsRight'
    <2>1. ASSUME NEW i \in 1 .. Len(q), q[i].what = "end"
          PROVE  i = Len(q) /\ wire = <<>> /\ st.ended = "done"
      <3>1. i + 1 \in 1 .. Len(ups) /\ q[i] = ups[i + 1] /\ (i + 1 = Len(ups) => i = Len(q))
        BY <1>4
      <3>2. ups[i + 1].what = "end"
        BY <2>1, <3>1
      <3>3. i + 1 = Len(ups) /\ wire = <<>> /\ st.ended = "done"
        BY <1>0, <3>1, <3>2 DEF EndsRight
      <3> QED BY <3>1, <3>3
    <2>2. ~act.ended
      BY <1>0 DEF EndsRight
    <2>3. act'.ended => q = <<>> /\ wire = <<>> /\ st.ended = "done"
      BY <1>8, <2>2
    <2>4. /\ \A i \in 1 .. Len(wire) : wire[i].what = "end" => i = Len(wire) /\ st.ended = "done"
          /\ st.ended = "done" => st.parts = 0 /\ st.waiting = <<>>
          /\ st.ended # "no" => ~term.open /\ buf = <<>> /\ ~lagged /\ st.ask = "none"
      BY <1>0 DEF EndsRight
    <2>5. /\ ups' = q /\ wire' = wire /\ st' = st /\ term' = term /\ buf' = buf /\ lagged' = lagged
          /\ \A i \in 1 .. Len(q) : q[i].what = "end" => i = Len(q) /\ wire = <<>> /\ st.ended = "done"
      BY <1>1, <1>3, <2>1
    <2> QED BY ONLY <2>3, <2>4, <2>5 DEF EndsRight
  <1>10. ActRight'
    <2>1. ~viewer.started => act'.next = <<>> /\ (q # <<>> => wire = <<>> /\ st.ended = "done")
      BY <1>0 DEF ActRight
    <2>2. ASSUME ~viewer.started, NEW i \in 1 .. Len(q) PROVE q[i].what = "end"
      <3>1. i + 1 \in 1 .. Len(ups) /\ q[i] = ups[i + 1]
        BY <1>4
      <3> QED BY <1>0, <2>2, <3>1 DEF ActRight
    <2> QED BY <1>1, <1>3, <2>1, <2>2 DEF ActRight
  <1> QED BY <1>5, <1>6, <1>7, <1>9, <1>10 DEF IInv

\* The views are then at a place.
LEMMA Leading ==
  ASSUME IInv, ups # <<>>, ups' = Tail(ups), NEW k, NEW x, NEW m, NEW y, Onwards(k, x, m, y), Sends(m, y),
         NEW j, NEW r, Path(Tail(ups), j, r, k, x, term.content),
         ActShape(act'), ~act'.failed, act'.ended = FALSE, act'.next = <<j>>,
         CutAt(view', j, r, term.content), viewer.started,
         UNCHANGED <<term, buf, lagged, st, wire, acks, viewer>>
  PROVE  IInv'
  <1>1. act'.next # <<>> /\ act'.next[1] = j /\ view' # <<>> /\ view'[1].size = r /\ OneCut(view')
    BY CutIs DEF CutAt
  <1>2. j = NextOf'
    BY <1>1 DEF NextOf
  <1> QED BY <1>1, <1>2, UpdateLeads

LEMMA ViewAppends ==
  ASSUME NEW v, NEW n, NEW x, NEW T, T \in Seq(Sizes), CutAt(v, n, x, T), n < Len(T), T[n + 1] = x
  PROVE  CutAt([v EXCEPT ![1].content = Append(@, v[1].size)], n + 1, x, T)
  <1>1. PICK c : /\ v = <<c>> /\ DOMAIN c = {"content", "size", "exact"}
                 /\ c.content \in Seq(Sizes) /\ c.size \in Sizes
    BY DEF CutAt, OneCut
  <1> DEFINE d == [c EXCEPT !.content = Append(@, c.size)]
  <1>2. v[1] = c /\ [v EXCEPT ![1].content = Append(@, v[1].size)] = <<d>>
    <2> DEFINE a == Append(c.content, c.size)
    <2>1. v[1] = c
      BY <1>1
    <2>2. /\ [v EXCEPT ![1].content = Append(@, v[1].size)] = [v EXCEPT ![1].content = a]
          /\ d = [c EXCEPT !.content = a]
      BY <2>1
    <2> HIDE DEF a, d
    <2>3. [v EXCEPT ![1].content = a] = <<d>>
      <3>1. [v EXCEPT ![1].content = a] = [v EXCEPT ![1] = d]
        BY <2>1, <2>2
      <3>2. v = <<c>>
        BY <1>1
      <3>3. [<<c>> EXCEPT ![1] = d] = <<d>>
        OBVIOUS
      <3> QED BY ONLY <3>1, <3>2, <3>3
    <2> QED BY <2>1, <2>2, <2>3
  <1>3. /\ n \in Nat /\ c.size = x /\ Len(c.content) = n /\ \A i \in 1 .. n : c.content[i] = T[i]
    BY <1>2 DEF CutAt
  <1>4. /\ DOMAIN d = {"content", "size", "exact"} /\ d.size = x /\ d.content = Append(c.content, x)
    BY <1>1, <1>3
  <1>5. /\ d.content \in Seq(Sizes) /\ Len(d.content) = n + 1
        /\ \A i \in 1 .. n + 1 : d.content[i] = T[i]
    BY <1>1, <1>3, <1>4
  <1> HIDE DEF d
  <1>6. OneCut(<<d>>) /\ <<d>>[1] = d
    BY <1>1, <1>3, <1>4, <1>5 DEF OneCut
  <1>7. n + 1 \in Nat /\ n + 1 <= Len(T)
    BY <1>3
  <1> QED BY <1>2, <1>4, <1>5, <1>6, <1>7 DEF CutAt

LEMMA ViewResizes ==
  ASSUME NEW v, NEW n, NEW x, NEW z \in Sizes, NEW T, CutAt(v, n, x, T)
  PROVE  CutAt([v EXCEPT ![1].size = z], n, z, T)
  <1>1. PICK c : /\ v = <<c>> /\ DOMAIN c = {"content", "size", "exact"}
                 /\ c.content \in Seq(Sizes) /\ c.size \in Sizes
    BY DEF CutAt, OneCut
  <1> DEFINE d == [c EXCEPT !.size = z]
  <1>2. v[1] = c /\ [v EXCEPT ![1].size = z] = <<d>>
    BY <1>1
  <1>3. /\ n \in Nat /\ n <= Len(T) /\ Len(c.content) = n /\ \A i \in 1 .. n : c.content[i] = T[i]
    BY <1>2 DEF CutAt
  <1>4. DOMAIN d = {"content", "size", "exact"} /\ d.size = z /\ d.content = c.content
    BY <1>1
  <1> HIDE DEF d
  <1>5. OneCut(<<d>>) /\ <<d>>[1] = d
    BY <1>1, <1>4 DEF OneCut
  <1> QED BY <1>2, <1>3, <1>4, <1>5 DEF CutAt

LEMMA UpdateKeeps ==
  ASSUME IInv, Update
  PROVE  IInv'
  <1> DEFINE T == term.content u == ups[1]
  <1>0. /\ Shape /\ WayRight /\ ActRight /\ EndsRight /\ IsSeq(ups) /\ ActShape(act)
        /\ T \in Seq(Sizes) /\ Len(T) \in Nat
    BY DEF IInv, Shape, TermShape
  <1>1. ups # <<>> /\ ~act.ended
    BY DEF Update
  <1>2. Head(ups) = u /\ IsSeq(Tail(ups)) /\ Len(ups) \in Nat /\ Len(ups) >= 1
    BY <1>0, <1>1, TailSeq
  <1> DEFINE ordered == act.next = <<u.at>>
  <1>3. /\ ups' = Tail(ups) /\ UNCHANGED <<term, buf, lagged, st, wire, acks, viewer>>
        /\ \/ /\ u.what = "resync" /\ act' = [act EXCEPT !.next = <<>>, !.resyncing = TRUE]
              /\ view' = view
           \/ /\ u.what = "checkpoint"
              /\ IF act.next = <<>> THEN TakeCheckpoint(u) ELSE UNCHANGED <<act, view>>
           \/ /\ u.what = "raw"
              /\ act' = IF ordered THEN [act EXCEPT !.next = <<u.at + 1>>]
                        ELSE [act EXCEPT !.failed = TRUE]
              /\ view' = IF ordered THEN [view EXCEPT ![1].content = Append(@, view[1].size)]
                         ELSE view
           \/ /\ u.what = "resize"
              /\ act' = IF ordered THEN act ELSE [act EXCEPT !.failed = TRUE]
              /\ view' = IF ordered THEN [view EXCEPT ![1].size = u.size] ELSE view
           \/ u.what = "end" /\ act' = [act EXCEPT !.ended = TRUE] /\ view' = view
    BY <1>2 DEF Update
  <1>4. PICK k, x, m, y : Onwards(k, x, m, y) /\ Sends(m, y)
    BY <1>0 DEF WayRight
  <1>5. PICK b : (act.next # <<>> => b = view[1].size) /\ Path(ups, NextOf, b, k, x, T)
    BY <1>4 DEF Onwards
  <1>6. PICK j \in Int, r \in Sizes : Step(u, NextOf, b, j, r, T) /\ Path(Tail(ups), j, r, k, x, T)
    <2>1. Goes(ups, NextOf, b, k, x, T)
      BY <1>0, <1>1, <1>5, PathHead
    <2> QED BY <2>1 DEF Goes
  <1>7. (act.next = <<>> /\ NextOf = -1) \/ \E n \in Nat : act.next = <<n>> /\ NextOf = n
    BY <1>0 DEF ActShape, NextOf
  <1>8. /\ DOMAIN act = {"next", "resyncing", "failed", "ended"} /\ act.resyncing \in BOOLEAN
        /\ act.ended = FALSE /\ ~act.failed
        /\ view = <<>> \/ OneCut(view)
        /\ act.next = <<>> /\ view # <<>> => act.resyncing
        /\ act.next # <<>> => CutAt(view, act.next[1], view[1].size, T)
        /\ ~viewer.started => act.next = <<>>
    BY <1>0, <1>1 DEF ActShape, ActRight
  <1>9. ~viewer.started => u.what = "end"
    <2> SUFFICES ASSUME ~viewer.started PROVE u.what = "end"
      OBVIOUS
    <2>1. 1 \in 1 .. Len(ups)
      BY <1>2
    <2> QED BY <1>0, <2>1 DEF ActRight
  <1> HIDE DEF T, u, ordered
  <1>10. /\ IInv /\ ups # <<>> /\ ups' = Tail(ups) /\ Onwards(k, x, m, y) /\ Sends(m, y)
         /\ Path(Tail(ups), j, r, k, x, term.content)
         /\ UNCHANGED <<term, buf, lagged, st, wire, acks, viewer>>
    BY <1>1, <1>3, <1>4, <1>6 DEF T
  <1>16. ASSUME ActShape(act'), ~act'.failed, act'.ended = FALSE, act'.next = <<j>>, CutAt(view', j, r, T),
                viewer.started
         PROVE  IInv'
    <2>1. CutAt(view', j, r, term.content)
      BY <1>16 DEF T
    <2> QED BY ONLY <1>10, <1>16, <2>1, Leading
  <1>11. CASE u.what = "resync"
    <2>1. act' = [act EXCEPT !.next = <<>>, !.resyncing = TRUE] /\ view' = view /\ j = -1
      BY <1>3, <1>6, <1>11 DEF Step
    <2>2. /\ act'.next = <<>> /\ act'.resyncing = TRUE /\ act'.ended = FALSE /\ ~act'.failed
          /\ ActShape(act')
      BY <1>8, <2>1 DEF ActShape
    <2>3. j = NextOf'
      BY <2>1, <2>2 DEF NextOf
    <2> QED BY <1>1, <1>3, <1>4, <1>8, <1>10, <2>1, <2>2, <2>3, UpdateLeads
  <1>12. CASE u.what = "checkpoint"
    <2>1. NextOf = -1 /\ u.at = j /\ CutAt(u.cut, j, r, T)
      BY <1>6, <1>12 DEF Step
    <2>2. act.next = <<>> /\ viewer.started
      BY <1>7, <1>9, <1>12, <2>1
    <2>3. act' = [act EXCEPT !.next = <<u.at>>, !.resyncing = FALSE] /\ view' = u.cut
      BY <1>3, <1>8, <1>12, <2>2 DEF TakeCheckpoint
    <2>4. u.cut # <<>> /\ u.cut[1].size = r /\ OneCut(u.cut) /\ j \in Nat
      BY <2>1, CutIs DEF CutAt
    <2>5. /\ act'.next = <<j>> /\ act'.resyncing = FALSE /\ act'.ended = FALSE /\ ~act'.failed
          /\ ActShape(act')
      BY <1>8, <2>1, <2>3, <2>4 DEF ActShape
    <2>6. CutAt(view', j, r, T)
      BY <2>1, <2>3
    <2> QED BY <1>16, <2>2, <2>5, <2>6
  <1>13. CASE u.what = "raw"
    <2>1. /\ u.at = NextOf /\ NextOf \in Nat /\ NextOf < Len(T) /\ T[NextOf + 1] = b
          /\ j = NextOf + 1 /\ r = b
      BY <1>6, <1>13 DEF Step
    <2>2. act.next = <<u.at>> /\ act.next # <<>> /\ act.next[1] = NextOf
      <3>1. u.at = NextOf /\ NextOf \in Nat
        BY <2>1
      <3> QED BY ONLY <1>7, <3>1
    <2>3. /\ act' = [act EXCEPT !.next = <<u.at + 1>>]
          /\ view' = [view EXCEPT ![1].content = Append(@, view[1].size)]
      BY <1>3, <1>13, <2>2 DEF ordered
    <2>4. CutAt(view, NextOf, b, T) /\ b = view[1].size /\ viewer.started
      BY <1>5, <1>8, <2>2
    <2>5. CutAt(view', j, r, T)
      BY <1>0, <2>1, <2>3, <2>4, ViewAppends
    <2>6. act'.next = <<j>> /\ act'.ended = FALSE /\ ~act'.failed /\ ActShape(act')
      <3>1. u.at + 1 = j /\ j \in Nat /\ act' = [act EXCEPT !.next = <<u.at + 1>>]
        BY <2>1, <2>3
      <3>2. act' = [act EXCEPT !.next = <<j>>]
        BY ONLY <3>1
      <3> QED BY ONLY <1>8, <3>1, <3>2 DEF ActShape
    <2> QED BY <1>16, <2>4, <2>5, <2>6
  <1>14. CASE u.what = "resize"
    <2>1. u.at = NextOf /\ NextOf \in Nat /\ u.size = r /\ j = NextOf
      BY <1>6, <1>14 DEF Step
    <2>2. act.next = <<u.at>> /\ act.next # <<>> /\ act.next[1] = NextOf
      BY <1>7, <2>1
    <2>3. act' = act /\ view' = [view EXCEPT ![1].size = r]
      BY <1>3, <1>14, <2>1, <2>2 DEF ordered
    <2>4. CutAt(view, NextOf, view[1].size, T) /\ viewer.started
      BY <1>8, <2>2
    <2>5. CutAt(view', j, r, T)
      BY <2>1, <2>3, <2>4, ViewResizes
    <2>6. act'.next = <<j>> /\ act'.ended = FALSE /\ ~act'.failed /\ ActShape(act') /\ j \in Nat
      BY <1>0, <1>8, <2>1, <2>2, <2>3
    <2> QED BY <1>16, <2>4, <2>5, <2>6
  <1>15. CASE u.what = "end"
    <2>1. act' = [act EXCEPT !.ended = TRUE] /\ view' = view /\ j = NextOf /\ r = b
      BY <1>3, <1>6, <1>15 DEF Step
    <2>2. /\ act'.next = act.next /\ act'.resyncing = act.resyncing /\ ~act'.failed /\ ActShape(act')
      BY <1>0, <1>8, <2>1 DEF ActShape
    <2>3. j = NextOf' /\ (act'.next # <<>> => r = view'[1].size)
      BY <1>5, <2>1, <2>2 DEF NextOf
    <2>4. act'.next # <<>> => CutAt(view', act'.next[1], view'[1].size, term.content)
      BY <1>8, <2>1, <2>2 DEF T
    <2> QED BY <1>1, <1>3, <1>4, <1>8, <1>10, <1>15, <2>1, <2>2, <2>3, <2>4, UpdateLeads DEF u
  <1> QED BY <1>3, <1>11, <1>12, <1>13, <1>14, <1>15

-----------------------------------------------------------------------------
(* A link begins *)

\* Nothing is on its way, and the actor waits for a snapshot.
Fresh ==
  /\ TermShape(term) /\ buf = <<>> /\ lagged = FALSE /\ st = NewStream /\ wire = <<>> /\ acks = <<>>
  /\ viewer = NewViewer /\ ups = <<>>
  /\ ActShape(act) /\ act.next = <<>> /\ ~act.failed /\ ~act.ended
  /\ view = <<>> \/ OneCut(view)
  /\ view # <<>> => act.resyncing

LEMMA FreshHolds == Fresh => IInv
  <1> SUFFICES ASSUME Fresh PROVE IInv
    OBVIOUS
  <1> DEFINE T == term.content
  <1>1. /\ TermShape(term) /\ buf = <<>> /\ lagged = FALSE /\ st = NewStream /\ wire = <<>> /\ acks = <<>>
        /\ viewer = NewViewer /\ ups = <<>>
        /\ ActShape(act) /\ act.next = <<>> /\ ~act.failed /\ ~act.ended
        /\ view = <<>> \/ OneCut(view)
        /\ view # <<>> => act.resyncing
    BY DEF Fresh
  <1>2. Len(T) \in Nat /\ term.size \in Sizes /\ Buffered \in Nat /\ Window \in Nat
    BY <1>1, RemoteStreamAssumption DEF TermShape
  <1>3. /\ IsSeq(<<>>) /\ Len(<<>>) = 0 /\ 1 .. 0 = {}
    BY NoSeq
  <1>4. /\ DOMAIN st = StreamFields /\ st.live = FALSE /\ st.exact = "owed" /\ st.parts = 0
        /\ st.waiting = <<>> /\ st.next = 0 /\ st.transit = 0 /\ st.ask = "none" /\ st.ended = "no"
    BY <1>1 DEF NewStream, StreamFields
  <1>5. viewer.started = FALSE /\ viewer.unacked = 0 /\ ViewerShape(viewer)
    BY <1>1 DEF NewViewer, ViewerShape
  <1>6. StreamShape(st)
    <2>1. IsSeq(st.waiting) /\ Waits(st.waiting) /\ Cardinality(Raws(st)) = 0
      BY <1>4, EmptyWaits
    <2>2. Cardinality(Raws(st)) <= Window
      BY <1>2, <2>1
    <2>3. /\ DOMAIN st = StreamFields
          /\ st.exact \in {"owed", "due", "held"} /\ st.parts \in Nat
          /\ st.next \in Nat /\ st.transit \in Nat
          /\ st.ask \in {"none", "asked", "answered"} /\ st.ended \in {"no", "drain", "done"}
          /\ st.waiting = <<>>
      BY ONLY <1>4
    <2>4. st.live \in BOOLEAN
      BY ONLY <1>4, Zenon
    <2> QED BY ONLY <2>1, <2>2, <2>3, <2>4 DEF StreamShape
  <1>7. Shape
    <2>1. Total(Weights(wire)) = 0 /\ Total(Reports(acks)) = 0 /\ Acks(acks)
      BY <1>1, NothingOnWire
    <2>2. st.transit = Total(Weights(wire)) + viewer.unacked + Total(Reports(acks))
      BY <1>4, <1>5, <2>1
    <2>3. Len(buf) <= Buffered /\ Frames(buf) /\ Channel(wire)
      BY <1>1, <1>2, <1>3 DEF Frames, Channel
    <2> QED BY <1>1, <1>3, <1>5, <1>6, <2>1, <2>2, <2>3 DEF Shape
  <1>8. LogRight
    <2>1. Marked(<<>>, 0, Len(T), term.size, T, term.size)
      BY <1>2, MarkedNew
    <2> QED BY <1>1, <1>3, <2>1 DEF LogRight
  <1>9. WayRight
    <2>1. NextOf = -1 /\ -1 \in Int
      BY <1>1 DEF NextOf
    <2>2. Path(<<>>, -1, term.size, -1, term.size, T)
      BY <1>2, <2>1, PathNothing
    <2>3. Onwards(-1, term.size, -1, term.size)
      BY <1>1, <2>1, <2>2 DEF Onwards
    <2>4. Sends(-1, term.size)
      BY <1>4 DEF Sends
    <2> QED BY <2>3, <2>4 DEF WayRight
  <1>10. AskRight
    BY <1>4 DEF AskRight
  <1>11. EndsRight
    BY <1>1, <1>3, <1>4 DEF EndsRight
  <1>12. ActRight
    BY <1>1, <1>3 DEF ActRight
  <1> QED BY <1>7, <1>8, <1>9, <1>10, <1>11, <1>12 DEF IInv

LEMMA InitHolds == Init => IInv
  <1> SUFFICES ASSUME Init PROVE Fresh
    BY FreshHolds
  <1>1. PICK z \in Sizes : term = [content |-> <<>>, size |-> z, open |-> TRUE]
    BY DEF Init
  <1>2. TermShape(term)
    <2>1. <<>> \in Seq(Sizes)
      OBVIOUS
    <2> QED BY <1>1, <2>1 DEF TermShape
  <1>3. /\ ActShape(act) /\ act.next = <<>> /\ ~act.failed /\ ~act.ended
    BY DEF Init, ActShape
  <1> QED BY <1>2, <1>3 DEF Init, Fresh

LEMMA RelinkKeeps ==
  ASSUME IInv, Relink
  PROVE  Fresh'
  <1>0. Shape /\ EndsRight /\ ActRight /\ TermShape(term) /\ ActShape(act)
    BY DEF IInv, Shape
  <1>1. /\ term.open /\ term' = term /\ view' = view
        /\ st' = NewStream /\ wire' = <<>> /\ acks' = <<>> /\ buf' = <<>> /\ lagged' = FALSE
        /\ viewer' = NewViewer /\ ups' = <<>> /\ act' = [act EXCEPT !.next = <<>>, !.resyncing = TRUE]
    BY DEF Relink
  <1>2. ~act.ended /\ ~act.failed /\ (view = <<>> \/ OneCut(view))
    BY <1>0, <1>1 DEF EndsRight, ActRight
  <1>3. ActShape(act') /\ act'.next = <<>> /\ act'.resyncing = TRUE /\ ~act'.failed /\ ~act'.ended
    BY <1>0, <1>1, <1>2 DEF ActShape
  <1> QED BY <1>0, <1>1, <1>2, <1>3 DEF Fresh

-----------------------------------------------------------------------------
(* The results *)

LEMMA StutterKeeps ==
  ASSUME IInv, UNCHANGED vars
  PROVE  IInv'
  <1>1. /\ term' = term /\ buf' = buf /\ lagged' = lagged /\ st' = st /\ wire' = wire /\ acks' = acks
        /\ viewer' = viewer /\ ups' = ups /\ act' = act /\ view' = view
    BY DEF vars
  <1>2. Shape' /\ LogRight' /\ AskRight' /\ EndsRight' /\ ActRight'
    BY <1>1 DEF IInv, Shape, LogRight, AskRight, EndsRight, ActRight
  <1>3. WayRight'
    <2>1. PICK k, x, m, y : Onwards(k, x, m, y) /\ Sends(m, y)
      BY DEF IInv, WayRight
    <2>2. Onwards(k, x, m, y)' /\ Sends(m, y)'
      BY <1>1, <2>1 DEF Onwards, NextOf, Sends
    <2> QED BY <2>2 DEF WayRight
  <1> QED BY <1>2, <1>3 DEF IInv

\* Every step keeps the invariant, or sets the link up anew.
LEMMA IInvKeeps == IInv /\ [Next]_vars => IInv' \/ Fresh'
  <1> SUFFICES ASSUME IInv, [Next]_vars PROVE IInv' \/ Fresh'
    OBVIOUS
  <1>1. CASE Terminal
    BY <1>1, OutputGoesOn, SizeGoesOn, CloseGoesOn DEF Terminal
  <1>2. CASE Host
    <2>1. CASE Bootstrap
      BY <2>1, BootstrapKeeps
    <2>2. CASE Advance
      BY <2>2, AdvanceKeeps
    <2>3. CASE Capture
      BY <2>3, CaptureKeeps
    <2>4. CASE CutAnswered
      BY <2>4, CutAnsweredKeeps
    <2>5. CASE Published
      BY <2>5, PublishedKeeps
    <2>6. CASE Drain
      BY <2>6, DrainKeeps
    <2>7. CASE Received
      BY <2>7, ReceivedKeeps
    <2> QED BY <1>2, <2>1, <2>2, <2>3, <2>4, <2>5, <2>6, <2>7 DEF Host
  <1>3. CASE CutTimesOut
    BY <1>3, CutTimesOutKeeps
  <1>4. CASE ExactDue
    BY <1>4, ExactDueKeeps
  <1>5. CASE There
    BY <1>5, FrameKeeps, AcknowledgeKeeps, UpdateKeeps DEF There
  <1>6. CASE Refresh
    BY <1>6, RefreshKeeps
  <1>7. CASE Relink
    BY <1>7, RelinkKeeps
  <1>8. CASE UNCHANGED vars
    BY <1>8, StutterKeeps
  <1> QED BY <1>1, <1>2, <1>3, <1>4, <1>5, <1>6, <1>7, <1>8 DEF Next

LEMMA IInvHolds == Spec => []IInv
  <1> QED BY InitHolds, IInvKeeps, FreshHolds, PTL DEF Spec

(* The views of another computer show what the terminal showed: every frame *)
(* of output is there, once, at the size at which the terminal drew it, and *)
(* the actor never meets one out of order.  So a barrier that comes late, a *)
(* lag of the broadcast, a keyframe in between and a link that is set up    *)
(* anew never reach the views out of order, and what the Stream counts as   *)
(* on the way is what the wire, the Viewer and the acknowledgements hold    *)
(* (host.rs, published and skip; participant.rs, frame; remote.rs, update). *)
THEOREM ViewFaithfulHolds == Spec => []ViewFaithful
  <1>1. IInv => ViewFaithful
    BY Consequences
  <1> QED BY <1>1, IInvHolds, PTL

(* When nothing is on its way the views show the terminal's last screen,    *)
(* the size included, and a viewer that kept up has it when the terminal    *)
(* has closed: published and skip drop no frame that the snapshot does not  *)
(* have, and drain sends what waits before the end (host.rs).               *)
THEOREM ViewSettledHolds == Spec => []ViewSettled
  <1>1. IInv => ViewSettled
    BY Consequences
  <1> QED BY <1>1, IInvHolds, PTL

=============================================================================
