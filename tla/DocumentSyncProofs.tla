------------------------- MODULE DocumentSyncProofs -------------------------
(***************************************************************************)
(* DocumentSync implements SharedOrder, for every set of clients, every    *)
(* number of pipes and every budget of edits and events: what a view was   *)
(* given is always a beginning of the one order of changes.                *)
(*                                                                         *)
(* The argument is about the frames on the way to a view.  They form a     *)
(* chain over the history: each one takes the view from where the frame    *)
(* before it left the view to its own place.  A rev alone is no place in   *)
(* the history, because a file that opens again counts its revs from 0; a  *)
(* rev is good only together with the epoch it was said in.                *)
(*                                                                         *)
(* The second theorem is that a view and the document agree on the edits   *)
(* of the view and on who is there (EditsKept).  Its argument is about the *)
(* changes on the way to the document: of all that the pipes of a client   *)
(* still carry the document takes at most one, and that is the batch which *)
(* the client still holds, so nothing is taken twice and nothing forgotten.*)
(***************************************************************************)
EXTENDS DocumentSync, FiniteSetTheorems, WellFoundedInduction, TLAPS

IsSeq(s) == \E S : s \in Seq(S)

----------------
(* Sequences of anything.                                                  *)

\* Every set of naturals that is not empty has a least element.
LEMMA LeastNatural ==
  ASSUME NEW T, T \subseteq Nat, T # {} PROVE \E n \in T : \A m \in T : n <= m
  <1>1. PICK n \in T : \A m \in T : ~(<<m, n>> \in OpToRel(<, Nat)) BY NatLessThanWellFounded, WFMin
  <1>2. \A m \in T : ~(m < n) BY <1>1 DEF OpToRel
  <1> QED BY <1>2

\* Append, element by element.
LEMMA AppendSeq ==
  ASSUME NEW s, IsSeq(s), NEW e
  PROVE  /\ IsSeq(Append(s, e))
         /\ Len(s) \in Nat /\ Len(Append(s, e)) = Len(s) + 1
         /\ \A i \in 1 .. Len(s) : Append(s, e)[i] = s[i]
         /\ Append(s, e)[Len(s) + 1] = e
         /\ Append(s, e) # <<>>
  <1>1. PICK S : s \in Seq(S) BY DEF IsSeq
  <1>2. s \in Seq(S \cup {e}) /\ e \in S \cup {e} BY <1>1
  <1>3. Append(s, e) \in Seq(S \cup {e}) BY <1>2
  <1> QED BY <1>2, <1>3 DEF IsSeq

\* What is in no sequence, and in one with one element more.
LEMMA EmptyRange == Range(<<>>) = {} BY DEF Range

LEMMA RangeMore ==
  ASSUME NEW s, IsSeq(s), NEW e PROVE Range(Append(s, e)) = Range(s) \cup {e}
  <1> DEFINE t == Append(s, e)
  <1>1. /\ Len(s) \in Nat /\ Len(t) = Len(s) + 1 /\ IsSeq(t)
        /\ \A i \in 1 .. Len(s) : t[i] = s[i]
        /\ t[Len(s) + 1] = e BY AppendSeq
  <1> HIDE DEF t
  <1>2. DOMAIN s = 1 .. Len(s) /\ DOMAIN t = 1 .. Len(t) BY <1>1 DEF IsSeq
  <1>3. DOMAIN t = DOMAIN s \cup {Len(s) + 1} /\ \A i \in DOMAIN s : t[i] = s[i] BY <1>1, <1>2
  <1>4. ASSUME NEW x PROVE x \in Range(t) <=> x \in Range(s) \cup {e} BY <1>1, <1>3 DEF Range
  <1> QED BY <1>4 DEF t

\* Only <<>> has no element.
LEMMA NoneLeft ==
  ASSUME NEW s, IsSeq(s), Range(s) \subseteq {} PROVE s = <<>>
  <1>1. PICK S : s \in Seq(S) BY DEF IsSeq
  <1>2. \A i \in 1 .. Len(s) : s[i] \in Range(s) BY <1>1 DEF Range
  <1> QED BY <1>1, <1>2

\* Tail, element by element.
LEMMA TailSeq ==
  ASSUME NEW s, IsSeq(s), s # <<>>
  PROVE  /\ IsSeq(Tail(s))
         /\ Len(s) \in Nat /\ Len(s) > 0 /\ Len(Tail(s)) = Len(s) - 1
         /\ \A i \in 1 .. Len(s) - 1 : Tail(s)[i] = s[i + 1]
         /\ Head(s) = s[1]
  <1>1. PICK S : s \in Seq(S) BY DEF IsSeq
  <1>2. Tail(s) \in Seq(S) BY <1>1
  <1> QED BY <1>1, <1>2 DEF IsSeq

\* A part of a sequence is a sequence.
LEMMA PartSeq ==
  ASSUME NEW s, IsSeq(s), NEW m \in Nat, NEW n \in Nat, m <= n, n <= Len(s)
  PROVE  /\ IsSeq(SubSeq(s, m + 1, n)) /\ Len(SubSeq(s, m + 1, n)) = n - m
         /\ \A i \in 1 .. n - m : SubSeq(s, m + 1, n)[i] = s[m + i]
  <1>1. PICK S : s \in Seq(S) BY DEF IsSeq
  <1>2. SubSeq(s, m + 1, n) \in Seq(S) BY <1>1
  <1> QED BY <1>1, <1>2 DEF IsSeq

\* A beginning of a sequence.
LEMMA BeginSeq ==
  ASSUME NEW s, IsSeq(s), NEW n \in Nat, n <= Len(s)
  PROVE  /\ IsSeq(SubSeq(s, 1, n)) /\ Len(SubSeq(s, 1, n)) = n
         /\ \A i \in 1 .. n : SubSeq(s, 1, n)[i] = s[i]
  <1>1. PICK S : s \in Seq(S) BY DEF IsSeq
  <1>2. SubSeq(s, 1, n) \in Seq(S) BY <1>1
  <1> QED BY <1>1, <1>2 DEF IsSeq

\* Sequences with the same elements are equal.
LEMMA SameSeq ==
  ASSUME NEW s, NEW t, IsSeq(s), IsSeq(t), Len(s) = Len(t), \A i \in 1 .. Len(s) : s[i] = t[i]
  PROVE  s = t
  <1>1. PICK S : s \in Seq(S) BY DEF IsSeq
  <1>2. PICK T : t \in Seq(T) BY DEF IsSeq
  <1>3. s = [i \in 1 .. Len(s) |-> s[i]] /\ t = [i \in 1 .. Len(t) |-> t[i]] BY <1>1, <1>2
  <1> QED BY <1>3

\* A part of a sequence stays one when the sequence grows.
LEMMA GrownPart ==
  ASSUME NEW s, IsSeq(s), NEW e, NEW m \in Nat, NEW n \in Nat, m <= n, n <= Len(s)
  PROVE  SubSeq(Append(s, e), m + 1, n) = SubSeq(s, m + 1, n)
  <1>1. /\ IsSeq(Append(s, e)) /\ Len(s) \in Nat /\ Len(Append(s, e)) = Len(s) + 1
        /\ \A i \in 1 .. Len(s) : Append(s, e)[i] = s[i] BY AppendSeq
  <1>2. /\ IsSeq(SubSeq(s, m + 1, n)) /\ Len(SubSeq(s, m + 1, n)) = n - m
        /\ \A i \in 1 .. n - m : SubSeq(s, m + 1, n)[i] = s[m + i] BY PartSeq
  <1>3. n <= Len(Append(s, e)) BY <1>1
  <1>4. /\ IsSeq(SubSeq(Append(s, e), m + 1, n)) /\ Len(SubSeq(Append(s, e), m + 1, n)) = n - m
        /\ \A i \in 1 .. n - m : SubSeq(Append(s, e), m + 1, n)[i] = Append(s, e)[m + i]
    BY ZenonT(80), <1>1, <1>3, PartSeq
  <1>5. \A i \in 1 .. n - m : m + i \in 1 .. Len(s) BY <1>1
  <1>6. \A i \in 1 .. n - m : SubSeq(Append(s, e), m + 1, n)[i] = SubSeq(s, m + 1, n)[i]
    BY <1>1, <1>2, <1>4, <1>5
  <1> QED BY <1>2, <1>4, <1>6, SameSeq

\* So does a beginning.
LEMMA GrownBegin ==
  ASSUME NEW s, IsSeq(s), NEW e, NEW n \in Nat, n <= Len(s)
  PROVE  SubSeq(Append(s, e), 1, n) = SubSeq(s, 1, n)
  <1>1. /\ IsSeq(Append(s, e)) /\ Len(s) \in Nat /\ Len(Append(s, e)) = Len(s) + 1
        /\ \A i \in 1 .. Len(s) : Append(s, e)[i] = s[i] BY AppendSeq
  <1>2. /\ IsSeq(SubSeq(s, 1, n)) /\ Len(SubSeq(s, 1, n)) = n
        /\ \A i \in 1 .. n : SubSeq(s, 1, n)[i] = s[i] BY BeginSeq
  <1>3. n <= Len(Append(s, e)) BY <1>1
  <1>4. /\ IsSeq(SubSeq(Append(s, e), 1, n)) /\ Len(SubSeq(Append(s, e), 1, n)) = n
        /\ \A i \in 1 .. n : SubSeq(Append(s, e), 1, n)[i] = Append(s, e)[i] BY <1>1, <1>3, BeginSeq
  <1>5. \A i \in 1 .. n : SubSeq(Append(s, e), 1, n)[i] = SubSeq(s, 1, n)[i] BY <1>1, <1>2, <1>4
  <1> QED BY <1>2, <1>4, <1>5, SameSeq

\* A sequence is the longest of its beginnings.
LEMMA WholeSeq ==
  ASSUME NEW s, IsSeq(s)
  PROVE  SubSeq(s, 1, Len(s)) = s /\ Len(s) \in Nat
  <1>1. PICK S : s \in Seq(S) BY DEF IsSeq
  <1> QED BY <1>1

\* One more element of a sequence continues a beginning of it.
LEMMA NextOfPart ==
  ASSUME NEW s, IsSeq(s), NEW n \in Nat, n + 1 <= Len(s)
  PROVE  Append(SubSeq(s, 1, n), s[n + 1]) = SubSeq(s, 1, n + 1)
  <1>0. Len(s) \in Nat /\ n <= Len(s) /\ n + 1 \in Nat BY WholeSeq
  <1>1. /\ IsSeq(SubSeq(s, 1, n)) /\ Len(SubSeq(s, 1, n)) = n
        /\ \A i \in 1 .. n : SubSeq(s, 1, n)[i] = s[i] BY <1>0, BeginSeq
  <1>2. /\ IsSeq(SubSeq(s, 1, n + 1)) /\ Len(SubSeq(s, 1, n + 1)) = n + 1
        /\ \A i \in 1 .. n + 1 : SubSeq(s, 1, n + 1)[i] = s[i] BY <1>0, BeginSeq
  <1> DEFINE t == Append(SubSeq(s, 1, n), s[n + 1])
  <1>3. /\ IsSeq(t) /\ Len(t) = n + 1 /\ t[n + 1] = s[n + 1]
        /\ \A i \in 1 .. n : t[i] = s[i]
    <2>1. /\ IsSeq(t) /\ Len(t) = Len(SubSeq(s, 1, n)) + 1 /\ t[Len(SubSeq(s, 1, n)) + 1] = s[n + 1]
          /\ \A i \in 1 .. Len(SubSeq(s, 1, n)) : t[i] = SubSeq(s, 1, n)[i] BY <1>1, AppendSeq
    <2> QED BY <1>1, <2>1
  <1>4. \A i \in 1 .. n + 1 : t[i] = SubSeq(s, 1, n + 1)[i]
    <2> HIDE DEF t
    <2> SUFFICES ASSUME NEW i \in 1 .. n + 1 PROVE t[i] = SubSeq(s, 1, n + 1)[i] OBVIOUS
    <2>1. CASE i = n + 1 BY <1>2, <1>3, <2>1
    <2>2. CASE i # n + 1
      <3>1. i \in 1 .. n BY <2>2
      <3> QED BY <1>2, <1>3, <3>1
    <2> QED BY <2>1, <2>2
  <1> HIDE DEF t
  <1>5. t = SubSeq(s, 1, n + 1) BY <1>2, <1>3, <1>4, SameSeq
  <1> QED BY <1>5 DEF t

----------------
(* The chain of frames on the way to a view.  at is the epoch of the view, *)
(* now the epoch of the document, H its history, and off the number of     *)
(* changes that were made before the revs of this epoch began.             *)

Kinds == {"joined", "changed", "refused", "peer", "left"}

\* Frame m, the i-th of its pipe, takes the view from place `from` to `to`.
Link(m, i, from, to, at, H, now) ==
  /\ m.kind \in Kinds /\ to <= Len(H)
  /\ m.kind = "changed" => m.rev \in Nat /\ to = from + 1 /\ m.change = H[to]
  /\ m.kind = "joined" =>
       /\ m.rev \in Nat /\ m.epoch \in Nat /\ m.epoch <= now /\ from <= to
       /\ m.snapshot => m.changes = SubSeq(H, 1, to)
       /\ ~m.snapshot => m.changes = SubSeq(H, from + 1, to) /\ i = 1 /\ m.epoch = at
  /\ m.kind \notin {"joined", "changed"} => to = from

Links(q, pos, at, H, now) ==
  \A i \in 1 .. Len(q) : Link(q[i], i, pos[i - 1], pos[i], at, H, now)

\* The revs of the frames count from the place that revs count from now.
Timely(q, pos, off) ==
  \A i \in 1 .. Len(q) : q[i].kind \in {"joined", "changed"} => pos[i] = off + q[i].rev

\* The frames are of an earlier epoch, and so is the view that gets them.
Stale(q, at, now) ==
  at # now /\ \A i \in 1 .. Len(q) : q[i].kind = "joined" => q[i].epoch # now

\* The frames q take a view that was given len changes along the history.
Chained(q, pos, len, at, H, now, off) ==
  /\ pos[0] = len
  /\ Links(q, pos, at, H, now)
  /\ Stale(q, at, now) \/ Timely(q, pos, off)

Chain(q, len, at, H, now, off) ==
  \E pos \in [0 .. Len(q) -> Nat] : Chained(q, pos, len, at, H, now, off)

\* They take it to the end of the history.
ChainToEnd(q, len, at, H, now, off) ==
  \E pos \in [0 .. Len(q) -> Nat] : /\ Chained(q, pos, len, at, H, now, off)
                                    /\ Timely(q, pos, off) /\ pos[Len(q)] = Len(H)

\* One more frame at the end of a pipe whose view is seated.
LEMMA ChainAppend ==
  ASSUME NEW q, IsSeq(q), NEW len, NEW at, NEW H, NEW now, NEW off \in Int, NEW m,
         NEW pos \in [0 .. Len(q) -> Nat], NEW to \in Nat,
         pos[0] = len, Links(q, pos, at, H, now), Timely(q, pos, off),
         Link(m, Len(q) + 1, pos[Len(q)], to, at, H, now), to = Len(H),
         m.kind \in {"joined", "changed"} => to = off + m.rev
  PROVE  ChainToEnd(Append(q, m), len, at, H, now, off)
  <1> DEFINE r == Append(q, m)
             new == [i \in 0 .. Len(r) |-> IF i = Len(r) THEN to ELSE pos[i]]
  <1>1. /\ IsSeq(r) /\ Len(q) \in Nat /\ Len(r) = Len(q) + 1
        /\ \A i \in 1 .. Len(q) : r[i] = q[i]
        /\ r[Len(q) + 1] = m BY AppendSeq
  <1> HIDE DEF r
  <1>2. /\ new \in [0 .. Len(r) -> Nat] /\ new[Len(r)] = to
        /\ \A i \in 0 .. Len(q) : new[i] = pos[i] BY <1>1
  <1> HIDE DEF new
  <1>3. new[0] = len BY <1>1, <1>2
  <1>4. Links(r, new, at, H, now)
    <2> SUFFICES ASSUME NEW i \in 1 .. Len(r) PROVE Link(r[i], i, new[i - 1], new[i], at, H, now) BY DEF Links
    <2>1. CASE i = Len(q) + 1
      <3>1. new[i - 1] = pos[Len(q)] /\ new[i] = to /\ r[i] = m BY <1>1, <1>2, <2>1
      <3> QED BY <2>1, <3>1
    <2>2. CASE i # Len(q) + 1
      <3>1. i \in 1 .. Len(q) /\ i - 1 \in 0 .. Len(q) /\ i \in 0 .. Len(q) BY <1>1, <2>2
      <3>2. new[i - 1] = pos[i - 1] /\ new[i] = pos[i] /\ r[i] = q[i] BY <1>1, <1>2, <3>1
      <3>3. Link(q[i], i, pos[i - 1], pos[i], at, H, now) BY <3>1 DEF Links
      <3> QED BY <3>2, <3>3
    <2> QED BY <2>1, <2>2
  <1>5. Timely(r, new, off)
    <2> SUFFICES ASSUME NEW i \in 1 .. Len(r), r[i].kind \in {"joined", "changed"}
                 PROVE  new[i] = off + r[i].rev BY DEF Timely
    <2>1. CASE i = Len(q) + 1 BY <1>1, <1>2, <2>1
    <2>2. CASE i # Len(q) + 1
      <3>1. i \in 1 .. Len(q) /\ i \in 0 .. Len(q) BY <1>1, <2>2
      <3>2. new[i] = pos[i] /\ r[i] = q[i] BY <1>1, <1>2, <3>1
      <3> QED BY <3>1, <3>2 DEF Timely
    <2> QED BY <2>1, <2>2
  <1>6. Chained(r, new, len, at, H, now, off) BY <1>2, <1>3, <1>4, <1>5 DEF Chained
  <1>7. ChainToEnd(r, len, at, H, now, off) BY <1>2, <1>5, <1>6 DEF ChainToEnd
  <1> QED BY <1>7 DEF r

\* A link stays one when the history grows.
LEMMA LinkGrows ==
  ASSUME NEW H, IsSeq(H), NEW x, NEW m, NEW i, NEW from \in Nat, NEW to \in Nat, NEW at, NEW now,
         Link(m, i, from, to, at, H, now)
  PROVE  Link(m, i, from, to, at, Append(H, x), now)
  <1>1. /\ Len(H) \in Nat /\ Len(Append(H, x)) = Len(H) + 1
        /\ \A j \in 1 .. Len(H) : Append(H, x)[j] = H[j] BY AppendSeq
  <1>2. to <= Len(H) /\ to <= Len(Append(H, x)) BY <1>1 DEF Link
  <1>3. m.kind = "changed" => Append(H, x)[to] = H[to] BY <1>1, <1>2 DEF Link
  <1>4. SubSeq(Append(H, x), 1, to) = SubSeq(H, 1, to) BY <1>2, GrownBegin
  <1>5. from <= to => SubSeq(Append(H, x), from + 1, to) = SubSeq(H, from + 1, to) BY <1>2, GrownPart
  <1> QED BY <1>2, <1>3, <1>4, <1>5 DEF Link

\* The chain of a view that is not seated stays when the history grows.
LEMMA ChainGrows ==
  ASSUME NEW q, NEW len, NEW at, NEW H, IsSeq(H), NEW x, NEW now, NEW off, Len(q) \in Nat,
         Chain(q, len, at, H, now, off)
  PROVE  Chain(q, len, at, Append(H, x), now, off)
  <1>1. PICK pos \in [0 .. Len(q) -> Nat] : Chained(q, pos, len, at, H, now, off) BY DEF Chain
  <1>2. Links(q, pos, at, Append(H, x), now)
    <2> SUFFICES ASSUME NEW i \in 1 .. Len(q) PROVE Link(q[i], i, pos[i - 1], pos[i], at, Append(H, x), now)
      BY DEF Links
    <2>1. pos[i - 1] \in Nat /\ pos[i] \in Nat OBVIOUS
    <2>2. Link(q[i], i, pos[i - 1], pos[i], at, H, now) BY <1>1 DEF Chained, Links
    <2> QED BY <2>1, <2>2, LinkGrows
  <1>3. Chained(q, pos, len, at, Append(H, x), now, off) BY <1>1, <1>2 DEF Chained
  <1> QED BY <1>3 DEF Chain

\* A view that is seated gets the change that makes the history grow.
LEMMA ChainChanged ==
  ASSUME NEW q, IsSeq(q), NEW len, NEW at, NEW H, IsSeq(H), NEW x, NEW now, NEW off \in Int,
         NEW m, m.kind = "changed", m.rev \in Nat, m.change = x, off + m.rev = Len(H) + 1,
         ChainToEnd(q, len, at, H, now, off)
  PROVE  ChainToEnd(Append(q, m), len, at, Append(H, x), now, off)
  <1>0. Len(q) \in Nat BY WholeSeq
  <1>1. PICK pos \in [0 .. Len(q) -> Nat] : /\ Chained(q, pos, len, at, H, now, off)
                                           /\ Timely(q, pos, off) /\ pos[Len(q)] = Len(H) BY DEF ChainToEnd
  <1>2. Links(q, pos, at, Append(H, x), now)
    <2> SUFFICES ASSUME NEW i \in 1 .. Len(q) PROVE Link(q[i], i, pos[i - 1], pos[i], at, Append(H, x), now)
      BY DEF Links
    <2>1. pos[i - 1] \in Nat /\ pos[i] \in Nat BY SMTT(40), <1>0
    <2>2. Link(q[i], i, pos[i - 1], pos[i], at, H, now) BY <1>1 DEF Chained, Links
    <2> QED BY <2>1, <2>2, LinkGrows
  <1>3. pos[0] = len /\ Timely(q, pos, off) /\ pos[Len(q)] = Len(H) BY <1>1 DEF Chained
  <1>4. /\ Len(H) \in Nat /\ Len(Append(H, x)) = Len(H) + 1
        /\ Append(H, x)[Len(H) + 1] = x BY AppendSeq
  <1>5. Link(m, Len(q) + 1, pos[Len(q)], Len(H) + 1, at, Append(H, x), now) BY <1>3, <1>4 DEF Link, Kinds
  <1>6. Len(H) + 1 \in Nat /\ Len(H) + 1 = Len(Append(H, x)) /\ Len(H) + 1 = off + m.rev BY <1>4
  <1> QED BY <1>2, <1>3, <1>5, <1>6, ChainAppend

\* A view that is seated gets a frame that is about no change.
LEMMA ChainSkips ==
  ASSUME NEW q, IsSeq(q), NEW len, NEW at, NEW H, IsSeq(H), NEW now, NEW off \in Int,
         NEW m, m.kind \in {"refused", "peer", "left"}, ChainToEnd(q, len, at, H, now, off)
  PROVE  ChainToEnd(Append(q, m), len, at, H, now, off)
  <1>0. Len(H) \in Nat BY WholeSeq
  <1>1. PICK pos \in [0 .. Len(q) -> Nat] : /\ Chained(q, pos, len, at, H, now, off)
                                           /\ Timely(q, pos, off) /\ pos[Len(q)] = Len(H) BY DEF ChainToEnd
  <1>2. /\ pos[0] = len /\ Links(q, pos, at, H, now) /\ Timely(q, pos, off)
        /\ pos[Len(q)] = Len(H) BY <1>1 DEF Chained
  <1>3. Link(m, Len(q) + 1, pos[Len(q)], Len(H), at, H, now) BY <1>0, <1>2 DEF Link, Kinds
  <1>4. ~(m.kind \in {"joined", "changed"}) OBVIOUS
  <1> QED BY <1>0, <1>2, <1>3, <1>4, ChainAppend

\* A view that loses its seat keeps its chain.
LEMMA ChainUnseated ==
  ASSUME NEW q, NEW len, NEW at, NEW H, NEW now, NEW off, ChainToEnd(q, len, at, H, now, off)
  PROVE  Chain(q, len, at, H, now, off) BY DEF Chain, ChainToEnd

\* A new epoch that counts its revs on keeps every chain.
LEMMA ChainRebased ==
  ASSUME NEW q, NEW len, NEW at \in Nat, NEW H, NEW now \in Nat, at <= now, NEW off
  PROVE  /\ Chain(q, len, at, H, now, off) => Chain(q, len, at, H, now + 1, off)
         /\ ChainToEnd(q, len, at, H, now, off) => ChainToEnd(q, len, at, H, now + 1, off)
  <1>1. ASSUME NEW pos, Chained(q, pos, len, at, H, now, off) PROVE Chained(q, pos, len, at, H, now + 1, off)
    <2>1. Links(q, pos, at, H, now + 1) BY <1>1 DEF Chained, Links, Link
    <2>2. Stale(q, at, now) => Stale(q, at, now + 1) BY <1>1 DEF Stale, Chained, Links, Link
    <2> QED BY <1>1, <2>1, <2>2 DEF Chained
  <1> QED BY <1>1 DEF Chain, ChainToEnd

\* A new epoch makes every frame on the way to a view without a seat stale.
LEMMA ChainReopened ==
  ASSUME NEW q, NEW len, NEW at \in Nat, NEW H, NEW now \in Nat, at <= now, NEW off, NEW off2,
         Chain(q, len, at, H, now, off)
  PROVE  Chain(q, len, at, H, now + 1, off2)
  <1>1. PICK pos \in [0 .. Len(q) -> Nat] : Chained(q, pos, len, at, H, now, off) BY DEF Chain
  <1>2. Links(q, pos, at, H, now + 1) BY <1>1 DEF Chained, Links, Link
  <1>3. Stale(q, at, now + 1) BY <1>1 DEF Stale, Chained, Links, Link
  <1>4. Chained(q, pos, len, at, H, now + 1, off2) BY <1>1, <1>2, <1>3 DEF Chained
  <1> QED BY <1>4 DEF Chain

\* The view handles the first frame; its epoch is the one of a joined frame,
\* its own, or none.
LEMMA ChainHandled ==
  ASSUME NEW q, IsSeq(q), q # <<>>, NEW len, NEW at \in Nat, NEW H, NEW now \in Nat, now # 0, NEW off,
         Chain(q, len, at, H, now, off), NEW at2,
         IF q[1].kind = "joined" THEN at2 = q[1].epoch ELSE at2 \in {at, 0}
  PROVE  \E to \in Nat : /\ Link(q[1], 1, len, to, at, H, now)
                         /\ at2 = now /\ q[1].kind \in {"joined", "changed"} => to = off + q[1].rev
                         /\ Chain(Tail(q), to, at2, H, now, off)
                         /\ ChainToEnd(q, len, at, H, now, off) =>
                              ChainToEnd(Tail(q), to, at2, H, now, off)
  <1>1. PICK pos \in [0 .. Len(q) -> Nat] :
          /\ Chained(q, pos, len, at, H, now, off)
          /\ ChainToEnd(q, len, at, H, now, off) => Timely(q, pos, off) /\ pos[Len(q)] = Len(H)
    BY DEF Chain, ChainToEnd
  <1> DEFINE r == Tail(q)
             new == [i \in 0 .. Len(r) |-> pos[i + 1]]
  <1>2. /\ Len(q) \in Nat /\ Len(q) > 0 /\ Len(r) = Len(q) - 1
        /\ \A i \in 1 .. Len(q) - 1 : r[i] = q[i + 1] BY TailSeq
  <1> HIDE DEF r
  <1>3. /\ new \in [0 .. Len(r) -> Nat] /\ \A i \in 0 .. Len(r) : new[i] = pos[i + 1]
        /\ pos[1] \in Nat BY <1>2
  <1> HIDE DEF new
  <1>4. Link(q[1], 1, len, pos[1], at, H, now) BY <1>1, <1>2 DEF Chained, Links
  <1>5. Links(r, new, at2, H, now)
    <2> SUFFICES ASSUME NEW i \in 1 .. Len(r) PROVE Link(r[i], i, new[i - 1], new[i], at2, H, now)
      BY DEF Links
    <2>1. /\ i + 1 \in 1 .. Len(q) /\ i + 1 # 1 /\ (i + 1) - 1 = i /\ (i - 1) + 1 = i
          /\ i \in 0 .. Len(r) /\ i - 1 \in 0 .. Len(r) /\ i \in 1 .. Len(q) - 1 BY <1>2
    <2>2. r[i] = q[i + 1] /\ new[i] = pos[i + 1] /\ new[i - 1] = pos[i] BY <1>2, <1>3, <2>1
    <2>3. Link(q[i + 1], i + 1, pos[i], pos[i + 1], at, H, now) BY <1>1, <2>1 DEF Chained, Links
    <2>4. q[i + 1].kind = "joined" => q[i + 1].snapshot BY <2>1, <2>3 DEF Link
    <2> QED BY <2>2, <2>3, <2>4 DEF Link
  <1>6. Timely(q, pos, off) => Timely(r, new, off)
    <2> SUFFICES ASSUME Timely(q, pos, off), NEW i \in 1 .. Len(r), r[i].kind \in {"joined", "changed"}
                 PROVE  new[i] = off + r[i].rev BY DEF Timely
    <2>1. i + 1 \in 1 .. Len(q) /\ i \in 0 .. Len(r) /\ i \in 1 .. Len(q) - 1 BY <1>2
    <2>2. r[i] = q[i + 1] /\ new[i] = pos[i + 1] BY <1>2, <1>3, <2>1
    <2> QED BY <2>1, <2>2 DEF Timely
  <1>7. Stale(q, at, now) => Stale(r, at2, now)
    <2> SUFFICES ASSUME Stale(q, at, now) PROVE Stale(r, at2, now) OBVIOUS
    <2>1. at2 # now BY <1>2 DEF Stale
    <2>2. ASSUME NEW i \in 1 .. Len(r), r[i].kind = "joined" PROVE r[i].epoch # now
      <3>1. i + 1 \in 1 .. Len(q) /\ i \in 1 .. Len(q) - 1 BY <1>2
      <3>2. r[i] = q[i + 1] BY <1>2, <3>1
      <3> QED BY <2>2, <3>1, <3>2 DEF Stale
    <2> QED BY <2>1, <2>2 DEF Stale
  <1>8. pos[Len(q)] = Len(H) => new[Len(r)] = Len(H)
    <2>1. Len(r) \in 0 .. Len(r) /\ Len(r) + 1 = Len(q) BY <1>2
    <2> QED BY <1>3, <2>1
  <1>9. new[0] = pos[1] BY <1>2, <1>3
  <1>10. Chained(r, new, pos[1], at2, H, now, off) BY <1>1, <1>5, <1>6, <1>7, <1>9 DEF Chained
  <1>11. /\ Chain(r, pos[1], at2, H, now, off)
         /\ ChainToEnd(q, len, at, H, now, off) => ChainToEnd(r, pos[1], at2, H, now, off)
    BY <1>1, <1>3, <1>6, <1>8, <1>10 DEF Chain, ChainToEnd
  <1>12. at2 = now /\ q[1].kind \in {"joined", "changed"} => pos[1] = off + q[1].rev
    <2>1. ~Stale(q, at, now) => Timely(q, pos, off) BY <1>1 DEF Chained
    <2>2. at2 = now => ~Stale(q, at, now) BY <1>2 DEF Stale
    <2> QED BY <1>2, <2>1, <2>2 DEF Timely
  <1> QED BY <1>3, <1>4, <1>11, <1>12 DEF r

----------------
(* A view that is given the changes it missed.                             *)

ViewFields == {"pipe", "joined", "loaded", "epoch", "rev", "lastSeq", "waitingSeq", "sent",
               "queued", "edits", "shown", "seen", "held", "removed", "peers"}

\* What a move leaves of some edits: the ones that are not gone.
LEMMA MovedFacts ==
  ASSUME NEW s, IsSeq(s), NEW gone
  PROVE  IsSeq(Moved(s, gone)) /\ Range(Moved(s, gone)) = Range(s) \ gone
  <1> DEFINE n == Len(s)
             Step(f, i) == IF i = 0 THEN <<>>
                           ELSE IF s[i] \in gone THEN f[i - 1] ELSE Append(f[i - 1], s[i])
             Good(f, m) == f = [i \in 0 .. m |-> Step(f, i)]
             Rest(m) == {e \in Range(s) \ gone : \E i \in 1 .. m : s[i] = e}
             Bad == {m \in 0 .. n : ~ \E f : Good(f, m)}
  <1>1. n \in Nat /\ DOMAIN s = 1 .. n BY WholeSeq DEF IsSeq
  <1> HIDE DEF n
  <1>2. Bad = {}
    <2> SUFFICES ASSUME Bad # {} PROVE FALSE OBVIOUS
    <2>1. PICK m \in Bad : \A k \in Bad : m <= k
      <3>1. Bad \subseteq Nat BY <1>1
      <3> HIDE DEF Bad
      <3> QED BY <3>1, LeastNatural
    <2>2. m \in 0 .. n /\ ~ \E f : Good(f, m) OBVIOUS
    <2>3. CASE m = 0
      <3> DEFINE f == [i \in 0 .. 0 |-> <<>>]
      <3>1. \A i \in 0 .. 0 : Step(f, i) = <<>> OBVIOUS
      <3>2. f = [i \in 0 .. 0 |-> Step(f, i)]
        <4> HIDE DEF Step
        <4> QED BY <3>1, Zenon
      <3>4. Good(f, m) BY <2>3, <3>2, Zenon
      <3> QED BY <2>2, <3>4, Zenon
    <2>4. CASE m # 0
      <3>1. m - 1 \in 0 .. n /\ m - 1 \in Nat /\ m - 1 \notin Bad /\ m \in DOMAIN s
        <4>1. m - 1 \in 0 .. n /\ m - 1 \in Nat /\ m \in DOMAIN s /\ ~(m <= m - 1) BY <1>1, <2>2, <2>4
        <4> HIDE DEF Bad
        <4> QED BY <2>1, <4>1
      <3>2. \E h : Good(h, m - 1) BY <3>1, Zenon
      <3>3. PICK h : Good(h, m - 1) BY <3>2, Zenon
      <3> DEFINE f == [i \in 0 .. m |-> IF i = m THEN Step(h, m) ELSE h[i]]
      <3>4. \A i \in 0 .. m - 1 : h[i] = Step(h, i)
        <4>1. h = [i \in 0 .. m - 1 |-> Step(h, i)] BY <3>3, Zenon
        <4> HIDE DEF Step
        <4> QED BY <4>1, Zenon
      <3>5. \A i \in 0 .. m : f[i] = Step(f, i)
        <4> SUFFICES ASSUME NEW i \in 0 .. m PROVE f[i] = Step(f, i) OBVIOUS
        <4>1. i # 0 => f[i - 1] = h[i - 1] BY <2>2, <2>4
        <4>2. Step(f, i) = Step(h, i)
          <5> HIDE DEF f
          <5> QED BY <4>1, Zenon
        <4>3. CASE i = m
          <5> HIDE DEF Step
          <5> QED BY <4>2, <4>3, <2>2, <2>4
        <4>4. CASE i # m
          <5> HIDE DEF Step
          <5>1. i \in 0 .. m - 1 BY <4>4, <2>2
          <5> QED BY <3>4, <4>2, <4>4, <5>1
        <4> QED BY <4>3, <4>4
      <3>6. Good(f, m)
        <4>1. f = [i \in 0 .. m |-> f[i]]
          <5> HIDE DEF Step
          <5> QED OBVIOUS
        <4> HIDE DEF f, Step
        <4> QED BY <4>1, <3>5, Zenon
      <3> QED BY <2>2, <3>6, Zenon
    <2> QED BY <2>3, <2>4
  <1>3. n \in 0 .. n BY <1>1
  <1> DEFINE moved == CHOOSE f : Good(f, n)
  <1>4. Good(moved, n) /\ Moved(s, gone) = moved[n]
    <2>1. \E f : Good(f, n) BY <1>2, <1>3, Zenon
    <2>2. Good(moved, n) BY <2>1, Zenon
    <2>3. Moved(s, gone) = moved[n] BY Zenon DEF Moved, n
    <2> QED BY <2>2, <2>3, Zenon
  <1> HIDE DEF moved
  <1>5. \A i \in 0 .. n : moved[i] = Step(moved, i)
    <2>1. moved = [i \in 0 .. n |-> Step(moved, i)] BY <1>4, Zenon
    <2> HIDE DEF Step
    <2> QED BY <2>1, Zenon
  <1> DEFINE Off == {i \in 0 .. n : ~(IsSeq(moved[i]) /\ Range(moved[i]) = Rest(i))}
  <1>6. Off = {}
    <2> SUFFICES ASSUME Off # {} PROVE FALSE OBVIOUS
    <2>1. PICK m \in Off : \A k \in Off : m <= k
      <3>1. Off \subseteq Nat BY <1>1
      <3> HIDE DEF Off
      <3> QED BY <3>1, LeastNatural
    <2>2. m \in 0 .. n /\ ~(IsSeq(moved[m]) /\ Range(moved[m]) = Rest(m)) OBVIOUS
    <2>3. CASE m = 0
      <3>1. moved[0] = <<>> /\ IsSeq(<<>>) /\ Rest(0) = {} BY <1>1, <1>5 DEF IsSeq
      <3> HIDE DEF Rest
      <3> QED BY <2>2, <2>3, <3>1, EmptyRange
    <2>4. CASE m # 0
      <3> DEFINE t == moved[m - 1]
      <3>1. m - 1 \in 0 .. n /\ m - 1 \notin Off /\ m \in DOMAIN s
        <4>1. m - 1 \in 0 .. n /\ m \in DOMAIN s /\ ~(m <= m - 1) BY <1>1, <2>2, <2>4
        <4> HIDE DEF Off
        <4> QED BY <2>1, <4>1
      <3>2. IsSeq(t) /\ Range(t) = Rest(m - 1) BY <3>1, Zenon
      <3>3. moved[m] = IF s[m] \in gone THEN t ELSE Append(t, s[m]) BY <1>5, <2>2, <2>4
      <3>4. Rest(m) = Rest(m - 1) \cup ({s[m]} \ gone)
        <4>1. 1 .. m = (1 .. m - 1) \cup {m} BY <1>1, <2>2, <2>4
        <4>2. s[m] \in Range(s) BY <3>1 DEF Range
        <4> QED BY <4>1, <4>2
      <3> HIDE DEF t, Rest
      <3>5. IsSeq(moved[m]) /\ Range(moved[m]) = Rest(m) BY <3>2, <3>3, <3>4, AppendSeq, RangeMore
      <3> QED BY <2>2, <3>5
    <2> QED BY <2>3, <2>4
  <1>7. Rest(n) = Range(s) \ gone BY <1>1 DEF Range
  <1> HIDE DEF Rest
  <1> QED BY <1>3, <1>4, <1>6, <1>7

\* Nothing that a sheet shows changes its pipe, its counters or what it was given.
LEMMA ShownFields ==
  ASSUME NEW v, DOMAIN v = ViewFields, NEW edits, NEW lines, NEW w, w = Shown(v, edits, lines)
  PROVE  /\ DOMAIN w = ViewFields /\ w.pipe = v.pipe /\ w.joined = v.joined /\ w.loaded = v.loaded
         /\ w.epoch = v.epoch /\ w.rev = v.rev /\ w.lastSeq = v.lastSeq /\ w.waitingSeq = v.waitingSeq
         /\ w.edits = v.edits /\ w.seen = v.seen /\ w.held = v.held /\ w.peers = v.peers
         /\ \E gone : /\ gone \subseteq Range(v.sent) \cup Range(v.queued)
                     /\ w.sent = Moved(v.sent, gone) /\ w.queued = Moved(v.queued, gone)
                     /\ w.shown = (v.shown \cup edits) \ gone /\ w.removed = v.removed \cup gone
  <1> DEFINE gone == lines \cap (Range(v.sent) \cup Range(v.queued))
             sent == Moved(v.sent, gone)
             queued == Moved(v.queued, gone)
  <1>1. w = [v EXCEPT !.shown = (v.shown \cup edits) \ gone, !.sent = sent, !.queued = queued,
                      !.removed = v.removed \cup gone] BY DEF Shown
  <1>2. gone \subseteq Range(v.sent) \cup Range(v.queued) OBVIOUS
  <1> HIDE DEF gone, sent, queued
  <1>3. /\ DOMAIN w = ViewFields /\ w.pipe = v.pipe /\ w.joined = v.joined /\ w.loaded = v.loaded
        /\ w.epoch = v.epoch /\ w.rev = v.rev /\ w.lastSeq = v.lastSeq /\ w.waitingSeq = v.waitingSeq
        /\ w.edits = v.edits /\ w.seen = v.seen /\ w.held = v.held /\ w.peers = v.peers
        /\ w.sent = sent /\ w.queued = queued
        /\ w.shown = (v.shown \cup edits) \ gone /\ w.removed = v.removed \cup gone BY <1>1 DEF ViewFields
  <1> QED BY <1>2, <1>3 DEF sent, queued

\* What applied makes of view v: its own change answers the outbox; one of
\* others waits, or is shown and removes some edits.
AppliedTo(c, v, rev, change, w) ==
  /\ DOMAIN w = ViewFields /\ w.rev = rev /\ w.pipe = v.pipe /\ w.joined = v.joined /\ w.epoch = v.epoch
  /\ w.edits = v.edits /\ w.peers = v.peers /\ w.loaded = v.loaded
  /\ w.seen = Append(v.seen, change)
  /\ change.by = c =>
       /\ w.sent = <<>> /\ w.queued = v.queued /\ w.removed = v.removed
       /\ w.shown = v.shown /\ w.held = v.held
       /\ w.waitingSeq = IF change.seq = v.waitingSeq THEN Unset ELSE v.waitingSeq
       /\ w.lastSeq = IF change.seq > v.lastSeq THEN change.seq ELSE v.lastSeq
  /\ change.by # c =>
       /\ w.waitingSeq = v.waitingSeq /\ w.lastSeq = v.lastSeq
       /\ \/ /\ w.sent = v.sent /\ w.queued = v.queued /\ w.removed = v.removed
             /\ w.shown = v.shown /\ w.held = v.held \cup {Len(v.seen) + 1}
          \/ /\ w.held = v.held
             /\ \E gone : /\ gone \subseteq Range(v.sent) \cup Range(v.queued)
                         /\ w.sent = Moved(v.sent, gone) /\ w.queued = Moved(v.queued, gone)
                         /\ w.shown = (v.shown \cup Range(change.body)) \ gone
                         /\ w.removed = v.removed \cup gone

LEMMA AppliedFields ==
  ASSUME NEW c, NEW v, DOMAIN v = ViewFields, NEW rev, NEW change, NEW how
  PROVE  AppliedTo(c, v, rev, change, Applied(c, v, rev, change, how))
  <1> DEFINE w == Applied(c, v, rev, change, how)
  <1> SUFFICES AppliedTo(c, v, rev, change, w) OBVIOUS
  <1> DEFINE given == [v EXCEPT !.rev = rev, !.seen = Append(@, change)]
  <1>1. CASE change.by = c
    <2>1. w = [given EXCEPT !.waitingSeq = IF change.seq = @ THEN Unset ELSE @,
                            !.lastSeq = IF change.seq > @ THEN change.seq ELSE @,
                            !.sent = <<>>] BY <1>1 DEF Applied, Answered
    <2> QED BY <1>1, <2>1 DEF ViewFields, AppliedTo
  <1>2. CASE change.by # c
    <2>1. CASE v.held # {} \/ how.waits
      <3>1. w = [given EXCEPT !.held = @ \cup {Len(v.seen) + 1}] BY <1>2, <2>1 DEF Applied
      <3> QED BY <1>2, <3>1 DEF ViewFields, AppliedTo
    <2>2. CASE ~(v.held # {} \/ how.waits)
      <3>1. w = Shown(given, Range(change.body), how.gone) BY <1>2, <2>2 DEF Applied
      <3>2. /\ DOMAIN given = ViewFields /\ given.pipe = v.pipe /\ given.joined = v.joined
            /\ given.loaded = v.loaded /\ given.epoch = v.epoch /\ given.rev = rev
            /\ given.lastSeq = v.lastSeq /\ given.waitingSeq = v.waitingSeq /\ given.edits = v.edits
            /\ given.seen = Append(v.seen, change) /\ given.held = v.held /\ given.peers = v.peers
            /\ given.sent = v.sent /\ given.queued = v.queued /\ given.shown = v.shown
            /\ given.removed = v.removed BY DEF ViewFields
      <3> HIDE DEF given
      <3>3. /\ DOMAIN w = ViewFields /\ w.pipe = given.pipe /\ w.joined = given.joined
            /\ w.loaded = given.loaded /\ w.epoch = given.epoch /\ w.rev = given.rev
            /\ w.lastSeq = given.lastSeq /\ w.waitingSeq = given.waitingSeq /\ w.edits = given.edits
            /\ w.seen = given.seen /\ w.held = given.held /\ w.peers = given.peers
            /\ \E gone : /\ gone \subseteq Range(given.sent) \cup Range(given.queued)
                        /\ w.sent = Moved(given.sent, gone) /\ w.queued = Moved(given.queued, gone)
                        /\ w.shown = (given.shown \cup Range(change.body)) \ gone
                        /\ w.removed = given.removed \cup gone BY <3>1, <3>2, ShownFields
      <3> QED BY <1>2, <3>2, <3>3 DEF AppliedTo
    <2> QED BY <2>1, <2>2
  <1> QED BY <1>1, <1>2

\* The view after each of the changes.
Unfolded(c, v, rev, y, how, f) ==
  /\ f[0] = v
  /\ \A i \in 1 .. Len(y) : f[i] = Applied(c, f[i - 1], rev - Len(y) + i, y[i], how[i])
  /\ AppliedAll(c, v, rev, y, how) = f[Len(y)]

LEMMA AppliedAllUnfolded ==
  ASSUME NEW c, NEW v, NEW rev, NEW y, NEW how, Len(y) \in Nat PROVE \E f : Unfolded(c, v, rev, y, how, f)
  <1> DEFINE n == Len(y)
             Step(f, i) == IF i = 0 THEN v
                           ELSE Applied(c, f[i - 1], rev - n + i, y[i], how[i])
             Good(f, m) == f = [i \in 0 .. m |-> Step(f, i)]
             Bad == {m \in Nat : ~ \E f : Good(f, m)}
  <1>2. Bad = {}
    <2> SUFFICES ASSUME Bad # {} PROVE FALSE OBVIOUS
    <2>1. PICK m \in Bad : \A k \in Bad : m <= k
      <3>1. Bad \subseteq Nat OBVIOUS
      <3> HIDE DEF Bad
      <3> QED BY <3>1, LeastNatural
    <2>2. m \in Nat /\ ~ \E f : Good(f, m) OBVIOUS
    <2>3. CASE m = 0
      <3> DEFINE f == [i \in 0 .. 0 |-> v]
      <3>1. \A i \in 0 .. 0 : Step(f, i) = v OBVIOUS
      <3>2. f = [i \in 0 .. 0 |-> Step(f, i)]
        <4> HIDE DEF Step
        <4> QED BY <3>1, Zenon
      <3>3. Good(f, m) BY <2>3, <3>2, Zenon
      <3> QED BY <2>2, <3>3, Zenon
    <2>4. CASE m # 0
      <3>1. m - 1 \in Nat /\ m - 1 \notin Bad
        <4> HIDE DEF Bad
        <4> QED BY <2>1, <2>2, <2>4
      <3>2. \E g : Good(g, m - 1) BY <3>1, Zenon
      <3>3. PICK g : Good(g, m - 1) BY <3>2, Zenon
      <3> DEFINE f == [i \in 0 .. m |-> IF i = m THEN Step(g, m) ELSE g[i]]
      <3>4. \A i \in 0 .. m - 1 : g[i] = Step(g, i)
        <4>1. g = [i \in 0 .. m - 1 |-> Step(g, i)] BY <3>3, Zenon
        <4> HIDE DEF Step
        <4> QED BY <4>1, Zenon
      <3>5. \A i \in 0 .. m : f[i] = Step(f, i)
        <4> SUFFICES ASSUME NEW i \in 0 .. m PROVE f[i] = Step(f, i) OBVIOUS
        <4>1. i # 0 => f[i - 1] = g[i - 1] BY <2>2, <2>4
        <4>2. Step(f, i) = Step(g, i)
          <5> HIDE DEF f
          <5> QED BY <4>1, Zenon
        <4>3. CASE i = m
          <5> HIDE DEF Step
          <5> QED BY <4>2, <4>3, <2>2, <2>4
        <4>4. CASE i # m
          <5> HIDE DEF Step
          <5>1. i \in 0 .. m - 1 BY <4>4, <2>2
          <5> QED BY <3>4, <4>2, <4>4, <5>1
        <4> QED BY <4>3, <4>4
      <3>6. Good(f, m)
        <4>1. f = [i \in 0 .. m |-> f[i]]
          <5> HIDE DEF Step
          <5> QED OBVIOUS
        <4> HIDE DEF f, Step
        <4> QED BY <4>1, <3>5, Zenon
      <3> QED BY <3>6, <2>2, Zenon
    <2> QED BY <2>3, <2>4
  <1> DEFINE applied == CHOOSE f : Good(f, n)
  <1>3. Good(applied, n) /\ AppliedAll(c, v, rev, y, how) = applied[n]
    <2>1. \E f : Good(f, n) BY <1>2, Zenon
    <2>2. Good(applied, n) BY <2>1, Zenon
    <2>3. AppliedAll(c, v, rev, y, how) = applied[n] BY Zenon DEF AppliedAll
    <2> QED BY <2>2, <2>3, Zenon
  <1> HIDE DEF applied
  <1>4. \A i \in 0 .. n : applied[i] = Step(applied, i)
    <2>1. applied = [i \in 0 .. n |-> Step(applied, i)] BY <1>3, Zenon
    <2> HIDE DEF Step
    <2> QED BY <2>1, Zenon
  <1>5. applied[0] = v BY <1>4
  <1>6. \A i \in 1 .. n : applied[i] = Applied(c, applied[i - 1], rev - n + i, y[i], how[i])
    <2>1. \A i \in 1 .. n : i \in 0 .. n /\ i # 0 OBVIOUS
    <2> QED BY <1>4, <2>1, Zenon
  <1>7. Unfolded(c, v, rev, y, how, applied) BY <1>3, <1>5, <1>6, Zenon DEF Unfolded
  <1> QED BY <1>7, Zenon

\* One change is applied.
LEMMA AppliedOne ==
  ASSUME NEW c, NEW v, DOMAIN v = ViewFields, NEW rev \in Int, NEW change, NEW how
  PROVE  AppliedTo(c, v, rev, change, AppliedAll(c, v, rev, <<change>>, how))
  <1> DEFINE y == <<change>>
  <1>1. Len(y) = 1 /\ y[1] = change OBVIOUS
  <1> HIDE DEF y
  <1>2. PICK f : Unfolded(c, v, rev, y, how, f)
    <2>1. Len(y) \in Nat BY <1>1
    <2> QED BY <2>1, AppliedAllUnfolded, Zenon
  <1>3. 1 \in 1 .. Len(y) /\ 1 - 1 = 0 /\ rev - 1 + 1 = rev BY <1>1
  <1>4. AppliedAll(c, v, rev, y, how) = Applied(c, v, rev, change, how[1]) BY <1>1, <1>2, <1>3 DEF Unfolded
  <1>5. AppliedTo(c, v, rev, change, Applied(c, v, rev, change, how[1])) BY AppliedFields, Zenon
  <1> QED BY <1>4, <1>5, Zenon DEF y

Caught(v, rev, H, from, to, w) ==
  /\ DOMAIN w = ViewFields /\ w.pipe = v.pipe /\ w.epoch = v.epoch
  /\ w.rev = IF from = to THEN v.rev ELSE rev
  /\ w.seen = SubSeq(H, 1, to)

\* Given the changes from place `from` to place `to` of the history, a view
\* that was given the beginning up to `from` has the one up to `to`.
LEMMA AppliedAllResult ==
  ASSUME NEW c, NEW v, DOMAIN v = ViewFields, NEW rev \in Nat, NEW H, IsSeq(H), NEW how,
         NEW from \in Nat, NEW to \in Nat, from <= to, to <= Len(H), v.seen = SubSeq(H, 1, from),
         NEW w, w = AppliedAll(c, v, rev, SubSeq(H, from + 1, to), how)
  PROVE  Caught(v, rev, H, from, to, w)
  <1> DEFINE changes == SubSeq(H, from + 1, to)
             n == Len(changes)
  <1>1. /\ n = to - from /\ n \in Nat /\ Len(H) \in Nat
        /\ \A i \in 1 .. n : changes[i] = H[from + i]
    <2>1. /\ Len(changes) = to - from /\ Len(H) \in Nat
          /\ \A i \in 1 .. to - from : changes[i] = H[from + i] BY ZenonT(80), PartSeq, WholeSeq
    <2> HIDE DEF changes
    <2> QED BY <2>1
  <1>2. w = AppliedAll(c, v, rev, changes, how) OBVIOUS
  <1> HIDE DEF changes
  <1>p. PICK f : Unfolded(c, v, rev, changes, how, f) BY <1>1, AppliedAllUnfolded, Zenon
  <1>3. /\ f[0] = v
        /\ \A i \in 1 .. n : f[i] = Applied(c, f[i - 1], rev - n + i, changes[i], how[i])
        /\ AppliedAll(c, v, rev, changes, how) = f[n] BY <1>p, Zenon DEF Unfolded
  <1> DEFINE Fits(i) == /\ DOMAIN f[i] = ViewFields
                        /\ f[i].pipe = v.pipe /\ f[i].epoch = v.epoch
                        /\ f[i].rev = IF i = 0 THEN v.rev ELSE rev - n + i
                        /\ f[i].seen = SubSeq(H, 1, from + i)
             Off == {i \in 0 .. n : ~Fits(i)}
  <1>5. Off = {}
    <2> SUFFICES ASSUME Off # {} PROVE FALSE OBVIOUS
    <2>1. PICK m \in Off : \A k \in Off : m <= k
      <3>1. Off \subseteq Nat OBVIOUS
      <3> HIDE DEF Off
      <3> QED BY <3>1, LeastNatural
    <2>2. m \in 0 .. n /\ ~Fits(m) OBVIOUS
    <2>3. m # 0
      <3> SUFFICES ASSUME m = 0 PROVE FALSE OBVIOUS
      <3>1. f[0] = v BY <1>3
      <3>2. from + 0 = from OBVIOUS
      <3> QED BY <2>2, <3>1, <3>2
    <2>4. /\ m - 1 \in 0 .. n /\ m \in 1 .. n /\ m \in Nat /\ ~(m <= m - 1) /\ m \in 1 .. to - from
          /\ from + (m - 1) \in Nat /\ (from + (m - 1)) + 1 = from + m /\ from + m <= Len(H)
      BY <1>1, <2>2, <2>3
    <2>5. Fits(m - 1)
      <3>1. m - 1 \notin Off
        <4> HIDE DEF Off
        <4> QED BY <2>1, <2>4
      <3> QED BY <3>1, <2>4, Zenon
    <2>6. f[m] = Applied(c, f[m - 1], rev - n + m, changes[m], how[m]) BY <1>3, <2>4
    <2>7. /\ DOMAIN f[m] = ViewFields /\ f[m].pipe = v.pipe /\ f[m].epoch = v.epoch
          /\ f[m].rev = rev - n + m
          /\ f[m].seen = Append(SubSeq(H, 1, from + (m - 1)), changes[m])
      <3> DEFINE u == f[m - 1]
                 x == Applied(c, u, rev - n + m, changes[m], how[m])
      <3>1. DOMAIN u = ViewFields BY <2>5, Zenon
      <3>2. u.pipe = v.pipe /\ u.epoch = v.epoch /\ u.seen = SubSeq(H, 1, from + (m - 1)) BY <2>5, Zenon
      <3> HIDE DEF u, Fits
      <3>4. f[m] = x BY <2>6 DEF u
      <3>5. x = Applied(c, u, rev - n + m, changes[m], how[m]) OBVIOUS
      <3> HIDE DEF x
      <3>3. /\ DOMAIN x = ViewFields /\ x.pipe = u.pipe /\ x.epoch = u.epoch
            /\ x.rev = rev - n + m /\ x.seen = Append(u.seen, changes[m])
        <4>1. AppliedTo(c, u, rev - n + m, changes[m],
                        Applied(c, u, rev - n + m, changes[m], how[m])) BY <3>1, AppliedFields, Zenon
        <4>2. AppliedTo(c, u, rev - n + m, changes[m], x) BY <3>5, <4>1, Zenon
        <4> QED BY <4>2 DEF AppliedTo
      <3> QED BY <3>2, <3>3, <3>4, Zenon
    <2>8. changes[m] = H[(from + (m - 1)) + 1] BY <1>1, <2>4
    <2>9. f[m].seen = SubSeq(H, 1, (from + (m - 1)) + 1)
      <3> DEFINE k == from + (m - 1)
      <3>1. k \in Nat /\ k + 1 <= Len(H) BY <2>4
      <3>2. f[m].seen = Append(SubSeq(H, 1, k), H[k + 1]) BY <2>7, <2>8
      <3> HIDE DEF k
      <3>3. f[m].seen = SubSeq(H, 1, k + 1) BY <3>1, <3>2, NextOfPart
      <3> QED BY <3>3 DEF k
    <2>10. Fits(m) BY <2>3, <2>4, <2>7, <2>9
    <2> QED BY <2>2, <2>10, Zenon
  <1>6. n \in 0 .. n /\ from + n = to /\ rev - n + n = rev /\ (n = 0 <=> from = to) BY <1>1
  <1>7. Fits(n) BY <1>5, <1>6, Zenon
  <1>8. w = f[n] BY <1>2, <1>3
  <1> QED BY <1>6, <1>7, <1>8 DEF Caught

----------------
(* The inductive invariant.                                                *)

DocFields == {"epoch", "firstRev", "rev", "history", "seqs", "seats"}

\* How many changes were made before the revs of this epoch began.
Before == Len(doc.history) - doc.rev

\* The shape of the document, the pipes and the views.  A pipe that was not
\* opened yet has no seat and carries nothing.
Shape ==
  /\ DOMAIN doc = DocFields
  /\ doc.epoch \in Nat /\ doc.epoch # 0 /\ doc.rev \in Nat /\ doc.firstRev \in Nat
  /\ IsSeq(doc.history) /\ doc.rev <= Len(doc.history)
  /\ DOMAIN doc.seats \subseteq Pipe
  /\ DOMAIN toDoc = Pipe /\ DOMAIN toView = Pipe
  /\ \A p \in Pipe : IsSeq(toDoc[p]) /\ IsSeq(toView[p])
  /\ DOMAIN view = Clients /\ pipes \in [Clients -> Nat]
  /\ \A c \in Clients : pipes[c] <= MaxPipes
  /\ \A c \in Clients, n \in 1 .. MaxPipes :
       n > pipes[c] => <<c, n>> \notin DOMAIN doc.seats /\ toView[<<c, n>>] = <<>>

\* What a view was given is a beginning of the history, and its rev says how
\* long a one while its epoch is the document's.
ViewRight(c) ==
  /\ DOMAIN view[c] = ViewFields
  /\ view[c].pipe \in 0 .. pipes[c]
  /\ view[c].epoch \in Nat /\ view[c].epoch <= doc.epoch /\ view[c].rev \in Nat
  /\ Len(view[c].seen) \in Nat /\ Len(view[c].seen) <= Len(doc.history)
  /\ view[c].seen = SubSeq(doc.history, 1, Len(view[c].seen))
  /\ view[c].epoch = doc.epoch => Len(view[c].seen) = Before + view[c].rev

Ahead(c) ==
  Chain(toView[<<c, view[c].pipe>>], Len(view[c].seen), view[c].epoch, doc.history, doc.epoch, Before)

AheadToEnd(c) ==
  ChainToEnd(toView[<<c, view[c].pipe>>], Len(view[c].seen), view[c].epoch, doc.history, doc.epoch, Before)

\* The seat of pipe p waits for the join of its client.
Unjoined(seats, p) == p \in DOMAIN seats /\ seats[p] = NoClient

\* The frames on the way to the view are a chain, and a pipe that waits for
\* the join has it first, with the epoch and the rev of its view.
FramesRight(c) ==
  LET p == <<c, view[c].pipe>> IN
  view[c].pipe # Unset =>
    /\ Ahead(c)
    /\ p \in Joined(doc.seats) => AheadToEnd(c)
    /\ Unjoined(doc.seats, p) => /\ toView[p] = <<>>
                      /\ toDoc[p] # <<>> /\ toDoc[p][1] = JoinOf(view[c])

SyncInv == Shape /\ \A c \in Clients : ViewRight(c) /\ FramesRight(c)

\* The pipe of a view is a pipe.
LEMMA CurrentPipe ==
  ASSUME Shape, NEW c \in Clients, ViewRight(c), view[c].pipe # Unset PROVE <<c, view[c].pipe>> \in Pipe
  <1>1. /\ view[c].pipe \in 0 .. pipes[c] /\ pipes[c] \in Nat /\ pipes[c] <= MaxPipes
        /\ view[c].pipe # 0 /\ MaxPipes \in Nat BY DocumentSyncAssumption DEF Shape, ViewRight, Unset
  <1>2. view[c].pipe \in 1 .. MaxPipes BY <1>1
  <1> QED BY <1>2 DEF Pipe

LEMMA SyncInvInit == Init => SyncInv
  <1> SUFFICES ASSUME Init PROVE SyncInv OBVIOUS
  <1>1. IsSeq(<<>>) /\ Len(<<>>) = 0 BY DEF IsSeq
  <1>2. /\ DOMAIN doc = DocFields /\ doc.epoch = 1 /\ doc.rev = 0 /\ doc.firstRev = 0
        /\ doc.history = <<>> /\ doc.seats = <<>> BY DEF Init, DocFields
  <1>3. DOMAIN doc.seats = {} BY <1>2
  <1>4. Shape
    <2>1. /\ DOMAIN toDoc = Pipe /\ DOMAIN toView = Pipe
          /\ \A p \in Pipe : toDoc[p] = <<>> /\ toView[p] = <<>> BY DEF Init
    <2>2. /\ DOMAIN view = Clients /\ pipes \in [Clients -> Nat]
          /\ \A c \in Clients : pipes[c] <= MaxPipes BY DocumentSyncAssumption DEF Init
    <2>3. \A c \in Clients, n \in 1 .. MaxPipes :
            <<c, n>> \notin DOMAIN doc.seats /\ toView[<<c, n>>] = <<>> BY <1>3, <2>1 DEF Pipe
    <2> QED BY <1>1, <1>2, <1>3, <2>1, <2>2, <2>3 DEF Shape
  <1>5. ASSUME NEW c \in Clients
        PROVE  ViewRight(c) /\ FramesRight(c)
    <2>1. /\ DOMAIN view[c] = ViewFields /\ view[c].pipe = Unset /\ view[c].epoch = 0
          /\ view[c].rev = 0 /\ view[c].seen = <<>> /\ pipes[c] = 0 BY DEF Init, ViewFields
    <2>2. SubSeq(<<>>, 1, 0) = <<>> OBVIOUS
    <2>3. ViewRight(c) BY <1>1, <1>2, <2>1, <2>2 DEF ViewRight, Unset
    <2> QED BY <2>1, <2>3 DEF FramesRight
  <1> QED BY <1>4, <1>5 DEF SyncInv

(* Steps of the document.                                                  *)

\* Pipe p gets at most a frame about no change, and no better seat.
QuietFor(p) ==
  /\ \/ toView'[p] = toView[p]
     \/ p \in Joined(doc.seats) /\ \E m : /\ m.kind \in {"refused", "peer", "left"}
                                          /\ toView'[p] = Append(toView[p], m)
  /\ p \in Joined(doc'.seats) => p \in Joined(doc.seats)
  /\ Unjoined(doc'.seats, p) => Unjoined(doc.seats, p) /\ toDoc'[p] = toDoc[p]

\* Frames about no change leave a view in its chain, whoever of the seats
\* goes.
LEMMA QuietStep ==
  ASSUME SyncInv, NEW c \in Clients, view' = view, pipes' = pipes,
         doc'.history = doc.history, doc'.epoch = doc.epoch, doc'.rev = doc.rev,
         view[c].pipe # Unset => QuietFor(<<c, view[c].pipe>>)
  PROVE  ViewRight(c)' /\ FramesRight(c)'
  <1>1. ViewRight(c)' BY DEF SyncInv, ViewRight, Before
  <1>2. FramesRight(c)'
    <2> DEFINE p == <<c, view[c].pipe>>
    <2> SUFFICES ASSUME view[c].pipe # Unset, QuietFor(p)
                 PROVE  /\ Ahead(c)'
                        /\ p \in Joined(doc'.seats) => AheadToEnd(c)'
                        /\ Unjoined(doc'.seats, p) => /\ toView'[p] = <<>>
                                           /\ toDoc'[p] # <<>> /\ toDoc'[p][1] = JoinOf(view[c])
      BY DEF FramesRight, JoinOf
    <2>0. /\ IsSeq(toView[p]) /\ IsSeq(doc.history) /\ Before \in Int
          /\ Ahead(c) /\ (p \in Joined(doc.seats) => AheadToEnd(c))
          /\ Unjoined(doc.seats, p) => toView[p] = <<>> /\ toDoc[p] # <<>> /\ toDoc[p][1] = JoinOf(view[c])
      <3>1. p \in Pipe BY CurrentPipe DEF SyncInv
      <3>2. Len(doc.history) \in Nat BY WholeSeq DEF SyncInv, Shape
      <3>3. IsSeq(toView[p]) /\ IsSeq(doc.history) /\ Before \in Int BY <3>1, <3>2 DEF SyncInv, Shape, Before
      <3>4. FramesRight(c) BY DEF SyncInv
      <3> QED BY <3>3, <3>4 DEF FramesRight
    <2>q. p = <<c, view[c].pipe>> OBVIOUS
    <2> HIDE DEF p
    <2>1. CASE toView'[p] = toView[p]
      <3>1. (Ahead(c) => Ahead(c)') /\ (AheadToEnd(c) => AheadToEnd(c)')
        BY <2>q, <2>1 DEF Ahead, AheadToEnd, Before
      <3> QED BY <2>0, <2>1, <3>1 DEF QuietFor
    <2>2. CASE p \in Joined(doc.seats) /\ \E m : /\ m.kind \in {"refused", "peer", "left"}
                                                 /\ toView'[p] = Append(toView[p], m)
      <3>1. PICK m : m.kind \in {"refused", "peer", "left"} /\ toView'[p] = Append(toView[p], m) BY <2>2
      <3>2. ChainToEnd(toView[p], Len(view[c].seen), view[c].epoch, doc.history, doc.epoch, Before)
        BY <2>q, <2>0, <2>2 DEF Ahead, AheadToEnd
      <3>3. ChainToEnd(Append(toView[p], m), Len(view[c].seen), view[c].epoch, doc.history, doc.epoch, Before)
        <4> DEFINE q == toView[p]
                   len == Len(view[c].seen)
                   at == view[c].epoch
                   H == doc.history
                   now == doc.epoch
                   off == Before
        <4>1. /\ IsSeq(q) /\ IsSeq(H) /\ off \in Int /\ m.kind \in {"refused", "peer", "left"}
              /\ ChainToEnd(q, len, at, H, now, off) BY <2>0, <3>1, <3>2
        <4> HIDE DEF q, len, at, H, now, off
        <4>2. ChainToEnd(Append(q, m), len, at, H, now, off) BY <4>1, ChainSkips
        <4> QED BY <4>2 DEF q, len, at, H, now, off
      <3>4. AheadToEnd(c)' BY <2>q, <3>1, <3>3 DEF Ahead, AheadToEnd, Before
      <3>5. Ahead(c)' BY <3>4, ChainUnseated DEF Ahead, AheadToEnd
      <3>6. ~Unjoined(doc.seats, p) BY <2>2 DEF Unjoined, Joined
      <3> QED BY <3>4, <3>5, <3>6 DEF QuietFor
    <2> QED BY <2>1, <2>2 DEF QuietFor
  <1> QED BY <1>1, <1>2

\* A frame for some pipes.
LEMMA SentResult ==
  ASSUME Shape, NEW to, to \subseteq DOMAIN doc.seats, NEW m, toView' = Sent(to, m)
  PROVE  /\ DOMAIN toView' = Pipe
         /\ \A p \in Pipe : /\ IsSeq(toView'[p])
                            /\ p \notin to => toView'[p] = toView[p]
                            /\ p \in to => toView'[p] = Append(toView[p], m)
  <1>1. /\ DOMAIN toView' = Pipe
        /\ \A p \in Pipe : toView'[p] = IF p \in to THEN Append(toView[p], m) ELSE toView[p] BY DEF Sent
  <1>2. \A p \in Pipe : IsSeq(toView[p]) /\ IsSeq(Append(toView[p], m)) BY AppendSeq DEF Shape
  <1> QED BY <1>1, <1>2

\* The document takes a frame from a pipe.
LEMMA TakenResult ==
  ASSUME Shape, NEW p \in Pipe, toDoc[p] # <<>>, toDoc' = [toDoc EXCEPT ![p] = Tail(@)]
  PROVE  /\ DOMAIN toDoc' = Pipe /\ \A r \in Pipe : IsSeq(toDoc'[r])
         /\ \A r \in Pipe \ {p} : toDoc'[r] = toDoc[r]
  <1>1. IsSeq(Tail(toDoc[p])) BY TailSeq DEF Shape
  <1> QED BY <1>1 DEF Shape

\* A pipe ends.
LEMMA LeaveKeeps ==
  ASSUME SyncInv, NEW p \in Pipe, toDoc[p] # <<>>, toDoc' = [toDoc EXCEPT ![p] = Tail(@)],
         Leave(p), UNCHANGED <<view, pipes>>
  PROVE  SyncInv' /\ doc'.history = doc.history
  <1> DEFINE seats == Without(doc.seats, {p})
             told == IF p \in Joined(doc.seats) THEN Joined(seats) ELSE {}
             m == [kind |-> "left", id |-> p[1]]
  <1>0. Shape BY DEF SyncInv
  <1>1. doc' = [doc EXCEPT !.seats = seats] /\ toView' = Sent(told, m) BY DEF Leave
  <1>2. /\ DOMAIN seats = DOMAIN doc.seats \ {p} /\ \A r \in DOMAIN seats : seats[r] = doc.seats[r]
    BY DEF Without
  <1>3. /\ DOMAIN doc' = DocFields /\ doc'.seats = seats /\ doc'.history = doc.history
        /\ doc'.epoch = doc.epoch /\ doc'.rev = doc.rev /\ doc'.firstRev = doc.firstRev
    BY <1>0, <1>1 DEF Shape, DocFields
  <1> HIDE DEF seats
  <1>4. told \subseteq Joined(doc.seats) /\ Joined(seats) \subseteq Joined(doc.seats) /\ m.kind = "left"
    BY <1>2 DEF Joined
  <1> HIDE DEF told, m
  <1>5. Joined(doc.seats) \subseteq DOMAIN doc.seats BY DEF Joined
  <1>6. /\ DOMAIN toView' = Pipe
        /\ \A r \in Pipe : /\ IsSeq(toView'[r])
                           /\ r \notin told => toView'[r] = toView[r]
                           /\ r \in told => toView'[r] = Append(toView[r], m)
    BY <1>0, <1>1, <1>4, <1>5, SentResult
  <1>7. /\ DOMAIN toDoc' = Pipe /\ \A r \in Pipe : IsSeq(toDoc'[r])
        /\ \A r \in Pipe \ {p} : toDoc'[r] = toDoc[r] BY <1>0, TakenResult
  <1>8. Shape' BY SMTT(40), <1>0, <1>2, <1>3, <1>4, <1>5, <1>6, <1>7 DEF Shape, Pipe
  <1>9. ASSUME NEW c \in Clients
        PROVE  ViewRight(c)' /\ FramesRight(c)'
    <2>1. ASSUME NEW r \in Pipe PROVE QuietFor(r)
      <3>1. \/ toView'[r] = toView[r]
            \/ r \in Joined(doc.seats) /\ \E x : /\ x.kind \in {"refused", "peer", "left"}
                                                 /\ toView'[r] = Append(toView[r], x) BY <1>4, <1>6
      <3>2. r \in Joined(doc'.seats) => r \in Joined(doc.seats) BY <1>3, <1>4
      <3>3. ASSUME Unjoined(doc'.seats, r)
            PROVE  Unjoined(doc.seats, r) /\ toDoc'[r] = toDoc[r] BY <1>2, <1>3, <1>7, <3>3 DEF Unjoined
      <3> QED BY <3>1, <3>2, <3>3 DEF QuietFor
    <2>2. view[c].pipe # Unset => QuietFor(<<c, view[c].pipe>>) BY <2>1, CurrentPipe DEF SyncInv
    <2> QED BY <1>3, <2>2, QuietStep
  <1> QED BY <1>3, <1>8, <1>9 DEF SyncInv

\* A refused batch, and one that came before.
LEMMA AnsweredKeeps ==
  ASSUME SyncInv, NEW p \in Pipe, p \in Joined(doc.seats),
         toDoc[p] # <<>>, toDoc' = [toDoc EXCEPT ![p] = Tail(@)],
         UNCHANGED toView \/ \E m : m.kind = "refused" /\ toView' = Sent({p}, m),
         UNCHANGED <<doc, view, pipes>>
  PROVE  SyncInv'
  <1>0. Shape BY DEF SyncInv
  <1>1. {p} \subseteq DOMAIN doc.seats BY DEF Joined
  <1>2. /\ DOMAIN toView' = Pipe
        /\ \A r \in Pipe : IsSeq(toView'[r]) /\ (r # p => toView'[r] = toView[r])
        /\ \/ toView'[p] = toView[p]
           \/ \E m : m.kind = "refused" /\ toView'[p] = Append(toView[p], m)
    <2>1. CASE UNCHANGED toView BY <1>0, <2>1 DEF Shape
    <2>2. ASSUME NEW m, m.kind = "refused", toView' = Sent({p}, m)
          PROVE  /\ DOMAIN toView' = Pipe
                 /\ \A r \in Pipe : IsSeq(toView'[r]) /\ (r # p => toView'[r] = toView[r])
                 /\ toView'[p] = Append(toView[p], m)
      <3>1. /\ DOMAIN toView' = Pipe
            /\ \A r \in Pipe : /\ IsSeq(toView'[r])
                               /\ r \notin {p} => toView'[r] = toView[r]
                               /\ r \in {p} => toView'[r] = Append(toView[r], m)
        BY ZenonT(80), <1>0, <1>1, <2>2, SentResult
      <3> QED BY <3>1
    <2> QED BY <2>1, <2>2
  <1>3. /\ DOMAIN toDoc' = Pipe /\ \A r \in Pipe : IsSeq(toDoc'[r])
        /\ \A r \in Pipe \ {p} : toDoc'[r] = toDoc[r] BY <1>0, TakenResult
  <1>4. Shape' BY SMTT(40), <1>0, <1>1, <1>2, <1>3 DEF Shape, Pipe
  <1>5. ASSUME NEW c \in Clients
        PROVE  ViewRight(c)' /\ FramesRight(c)'
    <2>1. ASSUME NEW r \in Pipe PROVE QuietFor(r)
      <3>1. Unjoined(doc.seats, r) => r # p BY DEF Unjoined, Joined
      <3> QED BY <1>2, <1>3, <3>1 DEF QuietFor
    <2>2. view[c].pipe # Unset => QuietFor(<<c, view[c].pipe>>) BY <2>1, CurrentPipe DEF SyncInv
    <2> QED BY <2>2, QuietStep
  <1> QED BY <1>4, <1>5 DEF SyncInv

\* A change gets its place at the end of the history, and its frame goes to
\* every view that is seated.
LEMMA OrderedKeeps ==
  ASSUME SyncInv, NEW by, NEW seq, NEW body, Ordered(by, seq, body), UNCHANGED <<view, pipes>>,
         DOMAIN toDoc' = Pipe, \A r \in Pipe : IsSeq(toDoc'[r]),
         \A r \in Pipe : Unjoined(doc.seats, r) => toDoc'[r] = toDoc[r]
  PROVE  SyncInv' /\ \E x : doc'.history = Append(doc.history, x)
  <1> DEFINE x == [by |-> by, seq |-> seq, body |-> body]
             m == [kind |-> "changed", rev |-> doc.rev + 1, change |-> x]
             H == doc.history
             to == Joined(doc.seats)
  <1>0. Shape BY DEF SyncInv
  <1>1. toView' = Sent(to, m) BY DEF Ordered
  <1>2. /\ DOMAIN doc' = DocFields /\ doc'.seats = doc.seats /\ doc'.history = Append(H, x)
        /\ doc'.epoch = doc.epoch /\ doc'.rev = doc.rev + 1 /\ doc'.firstRev = doc.firstRev
    BY <1>0 DEF Ordered, Shape, DocFields
  <1>3. m.kind = "changed" /\ m.rev = doc.rev + 1 /\ m.change = x OBVIOUS
  <1> HIDE DEF x, m
  <1>4. to \subseteq DOMAIN doc.seats BY DEF Joined
  <1>5. /\ DOMAIN toView' = Pipe
        /\ \A r \in Pipe : /\ IsSeq(toView'[r])
                           /\ r \notin to => toView'[r] = toView[r]
                           /\ r \in to => toView'[r] = Append(toView[r], m)
    <2> HIDE DEF to
    <2>1. \A r \in Pipe : IsSeq(toView[r]) /\ IsSeq(Append(toView[r], m)) BY <1>0, AppendSeq DEF Shape
    <2> QED BY <1>1, <2>1 DEF Sent
  <1>6. /\ IsSeq(H) /\ IsSeq(Append(H, x)) /\ Len(H) \in Nat /\ Len(Append(H, x)) = Len(H) + 1
        /\ doc.rev \in Nat /\ doc.rev <= Len(H) /\ Before \in Int
        /\ Before' = Before /\ Before + (doc.rev + 1) = Len(H) + 1
    <2>1. IsSeq(H) /\ doc.rev \in Nat /\ doc.rev <= Len(H) BY <1>0 DEF Shape
    <2>2. IsSeq(Append(H, x)) /\ Len(H) \in Nat /\ Len(Append(H, x)) = Len(H) + 1 BY <2>1, AppendSeq
    <2>3. Before = Len(H) - doc.rev /\ Before' = Len(Append(H, x)) - (doc.rev + 1) BY <1>2 DEF Before
    <2> QED BY SMTT(40), <2>1, <2>2, <2>3
  <1>7. Shape'
    <2>1. \A c \in Clients, n \in 1 .. MaxPipes :
            n > pipes[c] => <<c, n>> \notin DOMAIN doc.seats /\ toView'[<<c, n>>] = <<>>
      BY <1>0, <1>4, <1>5 DEF Shape, Pipe
    <2> HIDE DEF H
    <2>2. doc'.rev \in Nat /\ doc'.rev <= Len(doc'.history) /\ IsSeq(doc'.history) BY <1>2, <1>6
    <2> QED BY <1>0, <1>2, <1>5, <2>1, <2>2 DEF Shape
  <1>8. ASSUME NEW c \in Clients
        PROVE  ViewRight(c)' /\ FramesRight(c)'
    <2> DEFINE len == Len(view[c].seen)
               at == view[c].epoch
               now == doc.epoch
               off == Before
               r == <<c, view[c].pipe>>
    <2>1. ViewRight(c) /\ FramesRight(c) BY DEF SyncInv
    <2>2. ViewRight(c)'
      <3>1. len \in Nat /\ len <= Len(H) /\ view[c].seen = SubSeq(H, 1, len) BY <2>1 DEF ViewRight
      <3>2. SubSeq(Append(H, x), 1, len) = SubSeq(H, 1, len) BY <1>6, <3>1, GrownBegin
      <3>3. len <= Len(Append(H, x))
        <4> HIDE DEF len, H
        <4> QED BY <1>6, <3>1
      <3>4. view[c].seen = SubSeq(doc'.history, 1, len) /\ len <= Len(doc'.history) BY <1>2, <3>1, <3>2, <3>3
      <3>5. at = now => len = off + view[c].rev BY <2>1 DEF ViewRight
      <3> QED BY <1>2, <1>6, <2>1, <3>1, <3>4, <3>5 DEF ViewRight
    <2>3. FramesRight(c)'
      <3> SUFFICES ASSUME view[c].pipe # Unset
                   PROVE  /\ Ahead(c)'
                          /\ r \in Joined(doc'.seats) => AheadToEnd(c)'
                          /\ Unjoined(doc'.seats, r) =>
                               /\ toView'[r] = <<>>
                               /\ toDoc'[r] # <<>> /\ toDoc'[r][1] = JoinOf(view[c])
        BY DEF FramesRight, JoinOf
      <3>1. r \in Pipe BY <1>0, <2>1, CurrentPipe
      <3>2. /\ Chain(toView[r], len, at, H, now, off)
            /\ r \in to => ChainToEnd(toView[r], len, at, H, now, off)
            /\ Unjoined(doc.seats, r) =>
                 toView[r] = <<>> /\ toDoc[r] # <<>> /\ toDoc[r][1] = JoinOf(view[c])
        BY <2>1 DEF FramesRight, Ahead, AheadToEnd
      <3>3. /\ Ahead(c)' = Chain(toView'[r], len, at, Append(H, x), now, off)
            /\ AheadToEnd(c)' = ChainToEnd(toView'[r], len, at, Append(H, x), now, off)
        BY <1>2, <1>6 DEF Ahead, AheadToEnd
      <3>4. IsSeq(toView[r]) /\ Len(toView[r]) \in Nat BY <1>0, <3>1, WholeSeq DEF Shape
      <3>5. Unjoined(doc.seats, r) => r \notin to BY DEF Unjoined, Joined
      <3> HIDE DEF len, at, H, now, off, r, to
      <3>6. CASE r \in to
        <4>1. toView'[r] = Append(toView[r], m) BY <1>5, <3>1, <3>6
        <4>2. off + m.rev = Len(H) + 1 /\ m.rev \in Nat BY <1>3, <1>6 DEF off
        <4>3. off \in Int BY <1>6 DEF off
        <4>4. ChainToEnd(Append(toView[r], m), len, at, Append(H, x), now, off)
          BY <1>3, <1>6, <3>2, <3>4, <3>6, <4>2, <4>3, ChainChanged
        <4>5. Chain(Append(toView[r], m), len, at, Append(H, x), now, off) BY <4>4, ChainUnseated
        <4> QED BY <1>2, <3>3, <3>5, <3>6, <4>1, <4>4, <4>5
      <3>7. CASE r \notin to
        <4>1. toView'[r] = toView[r] /\ r \notin Joined(doc'.seats) BY <1>2, <1>5, <3>1, <3>7 DEF to
        <4>2. Chain(toView[r], len, at, Append(H, x), now, off) BY <1>6, <3>2, <3>4, ChainGrows
        <4> QED BY <1>2, <3>1, <3>2, <3>3, <4>1, <4>2
      <3> QED BY <3>6, <3>7
    <2> QED BY <2>2, <2>3
  <1> QED BY <1>2, <1>7, <1>8 DEF SyncInv

\* The first frame of a pipe takes its view to the end of the history.
LEMMA ChainJoined ==
  ASSUME NEW H, IsSeq(H), NEW len \in Nat, len <= Len(H), NEW at, NEW now \in Nat, NEW off \in Int,
         NEW m, m.kind = "joined", m.rev \in Nat, m.epoch = now, off + m.rev = Len(H),
         m.snapshot => m.changes = H,
         ~m.snapshot => m.changes = SubSeq(H, len + 1, Len(H)) /\ now = at
  PROVE  ChainToEnd(Append(<<>>, m), len, at, H, now, off)
  <1> DEFINE pos == [i \in 0 .. 0 |-> len]
  <1>1. IsSeq(<<>>) /\ Len(<<>>) = 0 BY DEF IsSeq
  <1>2. pos \in [0 .. 0 -> Nat] /\ pos[0] = len OBVIOUS
  <1> HIDE DEF pos
  <1>3. Len(H) \in Nat /\ SubSeq(H, 1, Len(H)) = H BY WholeSeq
  <1>4. Links(<<>>, pos, at, H, now) /\ Timely(<<>>, pos, off) BY <1>1 DEF Links, Timely
  <1>5. Link(m, 1, len, Len(H), at, H, now) BY <1>3 DEF Link, Kinds
  <1>6. Link(m, Len(<<>>) + 1, pos[Len(<<>>)], Len(H), at, H, now) BY <1>1, <1>2, <1>5
  <1>7. pos \in [0 .. Len(<<>>) -> Nat] BY <1>1, <1>2
  <1> QED BY <1>1, <1>2, <1>3, <1>4, <1>6, <1>7, ChainAppend

\* A pipe joins: its view gets what it missed or everything.
LEMMA JoinKeeps ==
  ASSUME SyncInv, NEW p \in Pipe, p \notin Joined(doc.seats),
         toDoc[p] # <<>>, toDoc' = [toDoc EXCEPT ![p] = Tail(@)],
         Join(p, Head(toDoc[p])), UNCHANGED <<view, pipes>>
  PROVE  SyncInv' /\ doc'.history = doc.history
  <1> DEFINE message == Head(toDoc[p])
             c == p[1]
             older == {q \in Joined(doc.seats) : doc.seats[q] = c}
             rest == Without(doc.seats, older)
             seats == Seat(rest, p, c)
             peers == {rest[q] : q \in Joined(rest)}
             missed == message.epoch = doc.epoch /\ message.rev > 0 /\ HasSince(message.rev)
             joined == [kind |-> "joined", epoch |-> doc.epoch, rev |-> doc.rev,
                        seq |-> doc.seqs[c], peers |-> peers, snapshot |-> ~missed,
                        changes |-> IF missed THEN Since(message.rev) ELSE doc.history]
             peer == [kind |-> "peer", id |-> c]
             others == Joined(rest)
             sent == Sent(others, peer)
  <1>0. Shape BY DEF SyncInv
  <1>1. \/ /\ p \in DOMAIN rest
           /\ doc' = [doc EXCEPT !.seats = seats]
           /\ toView' = [sent EXCEPT ![p] = Append(@, joined)]
        \/ /\ p \notin DOMAIN rest
           /\ doc' = [doc EXCEPT !.seats = rest] /\ UNCHANGED toView BY DEF Join
  <1>2. /\ DOMAIN rest \subseteq DOMAIN doc.seats
        /\ \A r \in DOMAIN rest : rest[r] = doc.seats[r] BY DEF Without
  <1>3. c \in Clients /\ c # NoClient BY DocumentSyncAssumption DEF Pipe
  <1>4. /\ joined.kind = "joined" /\ joined.epoch = doc.epoch /\ joined.rev = doc.rev
        /\ joined.snapshot => joined.changes = doc.history
        /\ ~joined.snapshot => missed /\ joined.changes = Since(message.rev)
        /\ peer.kind = "peer"
    <2> HIDE DEF missed
    <2> QED OBVIOUS
  <1>5. /\ DOMAIN toDoc' = Pipe /\ \A r \in Pipe : IsSeq(toDoc'[r])
        /\ \A r \in Pipe \ {p} : toDoc'[r] = toDoc[r] BY <1>0, TakenResult
  <1> HIDE DEF joined, peer, older, peers
  <1>6. /\ DOMAIN doc' = DocFields /\ doc'.history = doc.history
        /\ doc'.epoch = doc.epoch /\ doc'.rev = doc.rev /\ doc'.firstRev = doc.firstRev
        /\ doc'.seats = IF p \in DOMAIN rest THEN seats ELSE rest
    <2> HIDE DEF rest, seats
    <2> QED BY <1>0, <1>1 DEF Shape, DocFields
  <1> HIDE DEF rest
  <1>7. others \subseteq Joined(doc.seats) /\ others \subseteq DOMAIN doc.seats /\ p \notin others
    BY <1>2 DEF Joined
  <1>8. /\ DOMAIN sent = Pipe
        /\ \A r \in Pipe : /\ IsSeq(sent[r])
                           /\ r \notin others => sent[r] = toView[r]
                           /\ r \in others => sent[r] = Append(toView[r], peer)
    <2>1. \A r \in Pipe : IsSeq(toView[r]) /\ IsSeq(Append(toView[r], peer)) BY <1>0, AppendSeq DEF Shape
    <2> HIDE DEF others
    <2> QED BY <2>1 DEF Sent
  <1> HIDE DEF others, sent
  <1>9. /\ DOMAIN toView' = Pipe
        /\ \A r \in Pipe : IsSeq(toView'[r])
        /\ \A r \in Pipe \ {p} : \/ toView'[r] = toView[r]
                                 \/ r \in Joined(doc.seats) /\ toView'[r] = Append(toView[r], peer)
        /\ p \notin DOMAIN rest => toView' = toView
        /\ p \in DOMAIN rest => toView'[p] = Append(toView[p], joined)
    <2>1. CASE p \notin DOMAIN rest BY <1>0, <1>1, <2>1 DEF Shape
    <2>2. CASE p \in DOMAIN rest
      <3>1. toView' = [sent EXCEPT ![p] = Append(@, joined)] BY <1>1, <2>2
      <3>2. sent[p] = toView[p] /\ IsSeq(Append(sent[p], joined)) BY <1>7, <1>8, AppendSeq
      <3> QED BY <1>7, <1>8, <2>2, <3>1, <3>2
    <2> QED BY <2>1, <2>2
  <1>10. /\ DOMAIN doc'.seats \subseteq DOMAIN doc.seats
         /\ \A r \in DOMAIN doc'.seats : r # p => doc'.seats[r] = doc.seats[r]
         /\ p \in DOMAIN doc'.seats => p \in DOMAIN rest /\ doc'.seats[p] = c
    <2>1. CASE p \notin DOMAIN rest BY <1>2, <1>6, <2>1
    <2>2. CASE p \in DOMAIN rest
      <3>1. doc'.seats = [q \in DOMAIN rest \cup {p} |-> IF q = p THEN c ELSE rest[q]] BY <1>6, <2>2 DEF Seat
      <3> QED BY <1>2, <2>2, <3>1
    <2> QED BY <2>1, <2>2
  <1>11. Shape'
    <2>1. \A b \in Clients, n \in 1 .. MaxPipes :
            n > pipes[b] => <<b, n>> \notin DOMAIN doc'.seats /\ toView'[<<b, n>>] = <<>>
      <3> SUFFICES ASSUME NEW b \in Clients, NEW n \in 1 .. MaxPipes, n > pipes[b]
                   PROVE  <<b, n>> \notin DOMAIN doc'.seats /\ toView'[<<b, n>>] = <<>> OBVIOUS
      <3> DEFINE r == <<b, n>>
      <3>1. r \in Pipe /\ r \notin DOMAIN doc.seats /\ toView[r] = <<>> BY <1>0 DEF Shape, Pipe
      <3> HIDE DEF r
      <3>2. r \notin Joined(doc.seats) /\ (r = p => p \notin DOMAIN rest) BY <1>2, <3>1 DEF Joined
      <3>3. r \notin DOMAIN doc'.seats /\ toView'[r] = <<>> BY <1>9, <1>10, <3>1, <3>2
      <3> QED BY <3>3 DEF r
    <2> QED BY <1>0, <1>5, <1>6, <1>9, <1>10, <2>1 DEF Shape
  <1>12. ASSUME NEW b \in Clients
         PROVE  ViewRight(b)' /\ FramesRight(b)'
    <2> DEFINE r == <<b, view[b].pipe>>
    <2>0. ViewRight(b) /\ FramesRight(b) BY DEF SyncInv
    <2>1. CASE view[b].pipe = Unset \/ r # p \/ p \notin DOMAIN rest
      <3>1. ASSUME view[b].pipe # Unset PROVE QuietFor(r)
        <4>1. r \in Pipe BY <1>0, <2>0, <3>1, CurrentPipe
        <4>2. r # p \/ p \notin DOMAIN rest BY <2>1, <3>1
        <4> HIDE DEF r
        <4>3. \/ toView'[r] = toView[r]
              \/ r \in Joined(doc.seats) /\ \E x : /\ x.kind \in {"refused", "peer", "left"}
                                                   /\ toView'[r] = Append(toView[r], x)
          BY <1>4, <1>9, <4>1, <4>2
        <4>4. r \in Joined(doc'.seats) => r \in Joined(doc.seats) BY <1>10, <4>2 DEF Joined
        <4>5. Unjoined(doc'.seats, r) => Unjoined(doc.seats, r) /\ toDoc'[r] = toDoc[r]
          BY <1>5, <1>10, <4>1, <4>2 DEF Unjoined
        <4> QED BY <4>3, <4>4, <4>5 DEF QuietFor
      <3> QED BY <1>6, <3>1, QuietStep
    <2>2. CASE view[b].pipe # Unset /\ r = p /\ p \in DOMAIN rest
      <3> DEFINE H == doc.history
                 len == Len(view[b].seen)
                 at == view[b].epoch
                 now == doc.epoch
                 off == Before
      <3>1. Unjoined(doc.seats, p) BY <1>2, <2>2 DEF Unjoined, Joined
      <3>2. toView[p] = <<>> /\ toDoc[p][1] = JoinOf(view[b]) BY <2>0, <2>2, <3>1 DEF FramesRight
      <3>3. message = JoinOf(view[b]) BY <1>0, <3>2, TailSeq DEF Shape
      <3>4. message.epoch = at /\ message.rev = view[b].rev BY <3>3 DEF JoinOf
      <3>5. /\ IsSeq(H) /\ Len(H) \in Nat /\ len \in Nat /\ len <= Len(H) /\ now \in Nat
            /\ doc.rev \in Nat /\ off = Len(H) - doc.rev /\ view[b].rev \in Nat
            /\ at = now => len = off + view[b].rev BY <1>0, <2>0, WholeSeq DEF Shape, ViewRight, Before
      <3>6. off \in Int /\ off + doc.rev = Len(H) BY <3>5
      <3>7. missed => at = now /\ Since(message.rev) = SubSeq(H, len + 1, Len(H))
        <4> SUFFICES ASSUME missed
                     PROVE  at = now /\ Since(message.rev) = SubSeq(H, len + 1, Len(H)) OBVIOUS
        <4>1. at = now BY <3>4
        <4>2. Len(H) - doc.rev + view[b].rev + 1 = len + 1 BY <3>5, <4>1
        <4>3. Since(message.rev) = SubSeq(H, Len(H) - doc.rev + view[b].rev + 1, Len(H)) BY <3>4 DEF Since
        <4> QED BY <4>1, <4>2, <4>3
      <3> HIDE DEF missed, message
      <3>8. /\ joined.rev \in Nat /\ joined.epoch = now /\ off + joined.rev = Len(H)
            /\ joined.snapshot => joined.changes = H
            /\ ~joined.snapshot => joined.changes = SubSeq(H, len + 1, Len(H)) /\ now = at
        BY <1>4, <3>5, <3>6, <3>7
      <3>9. toView'[r] = Append(<<>>, joined) BY <1>9, <2>2, <3>2
      <3>10. /\ Ahead(b)' = Chain(toView'[r], len, at, H, now, off)
             /\ AheadToEnd(b)' = ChainToEnd(toView'[r], len, at, H, now, off)
        BY <1>6 DEF Ahead, AheadToEnd, Before
      <3>11. view' = view /\ pipes' = pipes /\ r = <<b, view[b].pipe>> OBVIOUS
      <3>12. ~Unjoined(doc'.seats, r) BY <1>3, <1>10, <2>2 DEF Unjoined
      <3>13. ViewRight(b)' BY <1>6, <2>0 DEF ViewRight, Before
      <3> HIDE DEF H, len, at, now, off, r
      <3>14. ChainToEnd(Append(<<>>, joined), len, at, H, now, off) BY <1>4, <3>5, <3>6, <3>8, ChainJoined
      <3>15. Chain(Append(<<>>, joined), len, at, H, now, off) BY <3>14, ChainUnseated
      <3>16. FramesRight(b)' BY <3>9, <3>10, <3>11, <3>12, <3>14, <3>15 DEF FramesRight
      <3> QED BY <3>13, <3>16
    <2> QED BY <2>1, <2>2
  <1> QED BY <1>6, <1>11, <1>12 DEF SyncInv

\* The document takes the next thing of a pipe.
LEMMA ReceiveKeeps ==
  ASSUME SyncInv, NEW p \in Pipe, Receive(p)
  PROVE  /\ SyncInv' /\ view' = view
         /\ doc'.history = doc.history \/ \E x : doc'.history = Append(doc.history, x)
  <1> DEFINE message == Head(toDoc[p])
             joined == p \in Joined(doc.seats)
  <1>0. Shape BY DEF SyncInv
  <1>1. toDoc[p] # <<>> /\ toDoc' = [toDoc EXCEPT ![p] = Tail(@)] /\ UNCHANGED <<view, pipes>> BY DEF Receive
  <1>2. CASE message.kind = "join" /\ ~joined
    <2>1. Join(p, message) BY <1>2 DEF Receive
    <2> QED BY <1>1, <1>2, <2>1, JoinKeeps
  <1>3. CASE message.kind = "change" /\ joined
    <2>1. Change(p, message) BY <1>3 DEF Receive
    <2>2. \/ UNCHANGED <<doc, toView>>
          \/ \E reason : Refuse(p, reason)
          \/ Ordered(p[1], message.seq, message.body) BY <2>1 DEF Change
    <2>3. CASE UNCHANGED <<doc, toView>> BY <1>1, <1>3, <2>3, AnsweredKeeps
    <2>4. ASSUME NEW reason, Refuse(p, reason)
          PROVE  SyncInv' /\ doc' = doc
      <3> DEFINE m == [kind |-> "refused", reason |-> reason]
      <3>1. toView' = Sent({p}, m) /\ UNCHANGED doc BY <2>4 DEF Refuse
      <3>2. m.kind = "refused" OBVIOUS
      <3> HIDE DEF m
      <3>3. \E x : x.kind = "refused" /\ toView' = Sent({p}, x) BY <3>1, <3>2
      <3> QED BY <1>1, <1>3, <3>1, <3>3, AnsweredKeeps
    <2>5. CASE Ordered(p[1], message.seq, message.body)
      <3>1. /\ DOMAIN toDoc' = Pipe /\ \A r \in Pipe : IsSeq(toDoc'[r])
            /\ \A r \in Pipe \ {p} : toDoc'[r] = toDoc[r] BY <1>0, <1>1, TakenResult
      <3>2. \A r \in Pipe : Unjoined(doc.seats, r) => toDoc'[r] = toDoc[r] BY <1>3, <3>1 DEF Unjoined, Joined
      <3> HIDE DEF message
      <3> QED BY <1>1, <2>5, <3>1, <3>2, OrderedKeeps
    <2> QED BY <1>1, <2>2, <2>3, <2>4, <2>5
  <1>4. CASE ~(message.kind = "join" /\ ~joined) /\ ~(message.kind = "change" /\ joined)
    <2>1. Leave(p) BY <1>4 DEF Receive
    <2> QED BY <1>1, <2>1, LeaveKeeps
  <1> QED BY <1>2, <1>3, <1>4

\* Another program wrote the file.
LEMMA FileChangedKeeps ==
  ASSUME SyncInv, FileChanged
  PROVE  SyncInv' /\ view' = view /\ \E x : doc'.history = Append(doc.history, x)
  <1> DEFINE body == <<<<File, left.events>>>>
  <1>1. Ordered(File, 0, body) /\ UNCHANGED <<toDoc, view, pipes>> BY DEF FileChanged
  <1> HIDE DEF body
  <1>2. DOMAIN toDoc' = Pipe /\ \A r \in Pipe : IsSeq(toDoc'[r]) BY <1>1 DEF SyncInv, Shape
  <1>3. \A r \in Pipe : Unjoined(doc.seats, r) => toDoc'[r] = toDoc[r] BY <1>1
  <1> QED BY <1>1, <1>2, <1>3, OrderedKeeps

\* A new epoch, of the journal or of a file that opened again.
LEMMA EpochKeeps ==
  ASSUME SyncInv, Rebased \/ Reopen
  PROVE  SyncInv' /\ view' = view /\ doc'.history = doc.history
  <1>0. Shape BY DEF SyncInv
  <1>1. /\ DOMAIN doc' = DocFields /\ doc'.history = doc.history /\ doc'.seats = doc.seats
        /\ doc'.epoch = doc.epoch + 1
        /\ UNCHANGED <<toDoc, toView, view, pipes>>
        /\ \/ doc'.rev = doc.rev /\ doc'.firstRev = doc.rev
           \/ doc'.rev = 0 /\ doc'.firstRev = 0 /\ doc.seats = <<>>
    BY <1>0 DEF Rebased, Reopen, Shape, DocFields
  <1>2. Len(doc.history) \in Nat BY <1>0, WholeSeq DEF Shape
  <1>3. Shape' BY <1>0, <1>1, <1>2 DEF Shape
  <1>4. ASSUME NEW c \in Clients
        PROVE  ViewRight(c)' /\ FramesRight(c)'
    <2> DEFINE q == toView[<<c, view[c].pipe>>]
               H == doc.history
               len == Len(view[c].seen)
               at == view[c].epoch
               now == doc.epoch
               off == Before
               off2 == Before'
    <2>0. ViewRight(c) /\ FramesRight(c) BY DEF SyncInv
    <2>1. at \in Nat /\ now \in Nat /\ at <= now /\ at # now + 1 /\ at <= now + 1
      BY <1>0, <2>0 DEF ViewRight, Shape
    <2>2. ViewRight(c)' BY <1>1, <2>0, <2>1 DEF ViewRight
    <2>3. /\ Ahead(c) = Chain(q, len, at, H, now, off)
          /\ AheadToEnd(c) = ChainToEnd(q, len, at, H, now, off)
          /\ Ahead(c)' = Chain(q, len, at, H, now + 1, off2)
          /\ AheadToEnd(c)' = ChainToEnd(q, len, at, H, now + 1, off2) BY <1>1 DEF Ahead, AheadToEnd
    <2>4. doc'.rev = doc.rev => off2 = off BY <1>1 DEF Before
    <2>5. doc.seats = <<>> => <<c, view[c].pipe>> \notin Joined(doc.seats) BY DEF Joined
    <2> HIDE DEF q, H, len, at, now, off, off2
    <2>6. Ahead(c) => Ahead(c)'
      <3>1. CASE doc'.rev = doc.rev BY <2>1, <2>3, <2>4, <3>1, ChainRebased
      <3>2. CASE doc.seats = <<>> BY <2>1, <2>3, ChainReopened
      <3> QED BY <1>1, <3>1, <3>2
    <2>7. doc'.rev = doc.rev => (AheadToEnd(c) => AheadToEnd(c)') BY <2>1, <2>3, <2>4, ChainRebased
    <2>8. FramesRight(c)' BY <1>1, <2>0, <2>5, <2>6, <2>7 DEF FramesRight, JoinOf
    <2> QED BY <2>2, <2>8
  <1> QED BY <1>1, <1>3, <1>4 DEF SyncInv

\* The document's process ends: nobody is seated any more.
LEMMA RestartKeeps ==
  ASSUME SyncInv, Restart
  PROVE  SyncInv' /\ view' = view /\ doc'.history = doc.history
  <1>0. Shape BY DEF SyncInv
  <1>1. /\ DOMAIN doc' = DocFields /\ doc'.history = doc.history /\ doc'.seats = <<>>
        /\ doc'.epoch = doc.epoch /\ doc'.rev = doc.rev /\ doc'.firstRev = doc.firstRev
        /\ UNCHANGED <<toView, view, pipes>> BY <1>0 DEF Restart, Shape, DocFields
  <1>2. DOMAIN doc'.seats = {} BY <1>1
  <1>3. DOMAIN toDoc' = Pipe /\ \A p \in Pipe : IsSeq(toDoc'[p]) BY DEF Restart, IsSeq
  <1>4. Shape' BY <1>0, <1>1, <1>2, <1>3 DEF Shape
  <1>5. ASSUME NEW c \in Clients
        PROVE  ViewRight(c)' /\ FramesRight(c)'
    <2>1. QuietFor(<<c, view[c].pipe>>) BY <1>1, <1>2 DEF QuietFor, Joined, Unjoined
    <2> QED BY <1>1, <2>1, QuietStep
  <1> QED BY <1>1, <1>4, <1>5 DEF SyncInv

(* Steps of a view.                                                        *)

\* A view whose own state and frames stay as they are keeps its chain.
LEMMA OtherKeeps ==
  ASSUME SyncInv, NEW d \in Clients, view'[d] = view[d], pipes'[d] = pipes[d],
         doc'.history = doc.history, doc'.epoch = doc.epoch, doc'.rev = doc.rev,
         LET p == <<d, view[d].pipe>> IN
         view[d].pipe # Unset =>
           /\ toView'[p] = toView[p] /\ toDoc'[p] = toDoc[p]
           /\ p \in Joined(doc'.seats) => p \in Joined(doc.seats)
           /\ Unjoined(doc'.seats, p) => Unjoined(doc.seats, p)
  PROVE  ViewRight(d)' /\ FramesRight(d)'
  <1>0. ViewRight(d) /\ FramesRight(d) BY DEF SyncInv
  <1>1. ViewRight(d)' BY <1>0 DEF ViewRight, Before
  <1>2. view[d].pipe # Unset => (Ahead(d) => Ahead(d)') /\ (AheadToEnd(d) => AheadToEnd(d)')
    BY DEF Ahead, AheadToEnd, Before
  <1>3. FramesRight(d)' BY <1>0, <1>2 DEF FramesRight, JoinOf
  <1> QED BY <1>1, <1>3

\* A client that pulls sends at most one more frame and keeps its place.
LEMMA PullResult ==
  ASSUME Shape, NEW c \in Clients, ViewRight(c), NEW v, DOMAIN v = ViewFields,
         v.pipe = view[c].pipe, Pull(c, v)
  PROVE  /\ DOMAIN view' = Clients /\ \A d \in Clients \ {c} : view'[d] = view[d]
         /\ DOMAIN view'[c] = ViewFields /\ view'[c].pipe = v.pipe /\ view'[c].epoch = v.epoch
         /\ view'[c].rev = v.rev /\ view'[c].seen = v.seen
         /\ DOMAIN toDoc' = Pipe
         /\ \A p \in Pipe : /\ IsSeq(toDoc'[p])
                            /\ p # <<c, view[c].pipe>> => toDoc'[p] = toDoc[p]
                            /\ toDoc'[p] = toDoc[p] \/ \E m : toDoc'[p] = Append(toDoc[p], m)
  <1>1. CASE Pulls(v)
    <2> DEFINE m == ChangeOf(v)
               r == <<c, view[c].pipe>>
    <2>1. view' = [view EXCEPT ![c] = Pulled(v)] /\ toDoc' = [toDoc EXCEPT ![r] = Append(@, m)]
      BY <1>1 DEF Pull, Post
    <2>2. r \in Pipe BY <1>1, CurrentPipe DEF Pulls
    <2>3. DOMAIN Pulled(v) = ViewFields /\ Pulled(v).pipe = v.pipe /\ Pulled(v).epoch = v.epoch
          /\ Pulled(v).rev = v.rev /\ Pulled(v).seen = v.seen BY DEF Pulled, ViewFields
    <2>4. IsSeq(Append(toDoc[r], m)) BY <2>2, AppendSeq DEF Shape
    <2>5. DOMAIN view = Clients /\ DOMAIN toDoc = Pipe /\ \A p \in Pipe : IsSeq(toDoc[p]) BY DEF Shape
    <2> HIDE DEF m, r
    <2>6. /\ DOMAIN view' = Clients /\ view'[c] = Pulled(v) /\ \A d \in Clients \ {c} : view'[d] = view[d]
          /\ DOMAIN toDoc' = Pipe /\ toDoc'[r] = Append(toDoc[r], m)
          /\ \A p \in Pipe \ {r} : toDoc'[p] = toDoc[p] BY <2>1, <2>2, <2>5
    <2> QED BY <2>3, <2>4, <2>5, <2>6 DEF r
  <1>2. CASE ~Pulls(v)
    <2>1. view' = [view EXCEPT ![c] = v] /\ toDoc' = toDoc BY <1>2 DEF Pull
    <2> QED BY <2>1 DEF Shape
  <1> QED BY <1>1, <1>2

\* Without frames there is nothing to link.
LEMMA ChainEmpty ==
  ASSUME NEW len \in Nat, NEW at, NEW H, NEW now, NEW off PROVE Chain(<<>>, len, at, H, now, off)
  <1> DEFINE pos == [i \in 0 .. 0 |-> len]
  <1>1. Len(<<>>) = 0 /\ pos \in [0 .. 0 -> Nat] /\ pos[0] = len OBVIOUS
  <1> HIDE DEF pos
  <1>2. Chained(<<>>, pos, len, at, H, now, off) BY <1>1 DEF Chained, Links, Timely
  <1> QED BY <1>1, <1>2 DEF Chain

\* A view gets a new pipe and asks to join on it.
LEMMA AttachKeeps ==
  ASSUME SyncInv, NEW c \in Clients, Attach(c)
  PROVE  /\ SyncInv' /\ doc'.history = doc.history
         /\ \A d \in Clients : view'[d].seen = view[d].seen
  <1> DEFINE n == pipes[c] + 1
             p == <<c, n>>
             join == JoinOf(view[c])
  <1>0. Shape /\ ViewRight(c) BY DEF SyncInv
  <1>1. /\ view[c].pipe = Unset /\ pipes[c] < MaxPipes /\ toView' = toView
        /\ pipes' = [pipes EXCEPT ![c] = n]
        /\ view' = [view EXCEPT ![c].pipe = n, ![c].waitingSeq = Unset, ![c].joined = FALSE]
        /\ doc' = [doc EXCEPT !.seats = Seat(@, p, NoClient)]
        /\ toDoc' = [toDoc EXCEPT ![p] = <<join>>] BY DEF Attach
  <1>2. pipes[c] \in Nat /\ n \in 1 .. MaxPipes /\ n > pipes[c] /\ n # Unset /\ n \in Nat
    BY <1>0, <1>1, DocumentSyncAssumption DEF Shape, Unset
  <1>3. p \in Pipe /\ p \notin DOMAIN doc.seats /\ toView[p] = <<>> BY <1>0, <1>2 DEF Shape, Pipe
  <1>4. /\ DOMAIN doc' = DocFields /\ doc'.history = doc.history
        /\ doc'.epoch = doc.epoch /\ doc'.rev = doc.rev /\ doc'.firstRev = doc.firstRev
        /\ doc'.seats = Seat(doc.seats, p, NoClient)
    <2> HIDE DEF p
    <2> QED BY <1>0, <1>1 DEF Shape, DocFields
  <1>5. /\ DOMAIN view' = Clients /\ \A d \in Clients \ {c} : view'[d] = view[d]
        /\ DOMAIN view'[c] = ViewFields /\ view'[c].pipe = n /\ view'[c].epoch = view[c].epoch
        /\ view'[c].rev = view[c].rev /\ view'[c].seen = view[c].seen
    BY <1>0, <1>1 DEF Shape, ViewRight, ViewFields
  <1>6. /\ pipes' \in [Clients -> Nat] /\ pipes'[c] = n /\ \A d \in Clients \ {c} : pipes'[d] = pipes[d]
    BY <1>0, <1>1, <1>2 DEF Shape
  <1>j. IsSeq(<<join>>) /\ <<join>> # <<>> /\ <<join>>[1] = join
    <2> HIDE DEF join
    <2>1. <<join>> \in Seq({join}) OBVIOUS
    <2> QED BY <2>1 DEF IsSeq
  <1> HIDE DEF n, p, join
  <1>7. /\ DOMAIN toDoc' = Pipe /\ toDoc'[p] = <<join>>
        /\ \A r \in Pipe : IsSeq(toDoc'[r])
        /\ \A r \in Pipe \ {p} : toDoc'[r] = toDoc[r] BY <1>0, <1>1, <1>3, <1>j DEF Shape
  <1>8. /\ DOMAIN doc'.seats = DOMAIN doc.seats \cup {p} /\ doc'.seats[p] = NoClient
        /\ \A r \in DOMAIN doc.seats : r # p => doc'.seats[r] = doc.seats[r] BY <1>4 DEF Seat
  <1>9. Shape'
    <2>1. \A d \in Clients, k \in 1 .. MaxPipes :
            k > pipes'[d] => <<d, k>> \notin DOMAIN doc'.seats /\ toView'[<<d, k>>] = <<>>
      <3> SUFFICES ASSUME NEW d \in Clients, NEW k \in 1 .. MaxPipes, k > pipes'[d]
                   PROVE  <<d, k>> \notin DOMAIN doc'.seats /\ toView'[<<d, k>>] = <<>> OBVIOUS
      <3>1. k > pipes[d] /\ <<d, k>> # p BY <1>2, <1>6 DEF p
      <3>2. <<d, k>> \notin DOMAIN doc.seats /\ toView[<<d, k>>] = <<>> BY <1>0, <3>1 DEF Shape
      <3> QED BY <1>1, <1>8, <3>1, <3>2
    <2>2. \A d \in Clients : pipes'[d] <= MaxPipes
      <3>1. \A d \in Clients : pipes[d] <= MaxPipes BY <1>0 DEF Shape
      <3>2. pipes'[c] <= MaxPipes BY <1>2, <1>6, DocumentSyncAssumption
      <3> QED BY <1>6, <3>1, <3>2
    <2> QED BY <1>0, <1>1, <1>3, <1>4, <1>5, <1>6, <1>7, <1>8, <2>1, <2>2 DEF Shape
  <1>10. ASSUME NEW d \in Clients
         PROVE  ViewRight(d)' /\ FramesRight(d)'
    <2>1. CASE d # c
      <3> DEFINE r == <<d, view[d].pipe>>
      <3>1. r # p /\ (view[d].pipe # Unset => r \in Pipe) BY <2>1, CurrentPipe DEF p, SyncInv
      <3>2. view[d].pipe # Unset =>
              /\ toView'[r] = toView[r] /\ toDoc'[r] = toDoc[r]
              /\ r \in Joined(doc'.seats) => r \in Joined(doc.seats)
              /\ Unjoined(doc'.seats, r) => Unjoined(doc.seats, r)
        <4> HIDE DEF r
        <4> QED BY <1>1, <1>7, <1>8, <3>1 DEF Joined, Unjoined
      <3>3. view'[d] = view[d] /\ pipes'[d] = pipes[d] BY <1>5, <1>6, <2>1
      <3> QED BY <1>4, <3>2, <3>3, OtherKeeps
    <2>2. CASE d = c
      <3>1. ViewRight(c)' BY <1>0, <1>2, <1>4, <1>5, <1>6 DEF ViewRight, Before
      <3>2. Ahead(c)'
        <4>1. Len(view[c].seen) \in Nat BY <1>0 DEF ViewRight
        <4>2. toView'[<<c, view'[c].pipe>>] = <<>> BY <1>1, <1>3, <1>5 DEF p
        <4> QED BY <1>5, <4>1, <4>2, ChainEmpty DEF Ahead
      <3>3. p \notin Joined(doc'.seats) BY <1>8 DEF Joined
      <3>4. JoinOf(view[c])' = join BY <1>5 DEF JoinOf, join
      <3>5. toView'[p] = <<>> /\ toDoc'[p] # <<>> /\ toDoc'[p][1] = join BY <1>1, <1>3, <1>7, <1>j
      <3>6. p = <<c, view'[c].pipe>> BY <1>5 DEF p
      <3>7. FramesRight(c)' BY <3>2, <3>3, <3>4, <3>5, <3>6 DEF FramesRight
      <3> QED BY <2>2, <3>1, <3>7
    <2> QED BY <2>1, <2>2
  <1> QED BY <1>4, <1>5, <1>9, <1>10 DEF SyncInv

\* A view loses its pipe.
LEMMA CutKeeps ==
  ASSUME SyncInv, NEW c \in Clients, Lose(c) \/ Dropped(c)
  PROVE  /\ SyncInv' /\ doc'.history = doc.history
         /\ \A d \in Clients : view'[d].seen = view[d].seen
  <1> DEFINE p == <<c, view[c].pipe>>
  <1>0. Shape /\ ViewRight(c) BY DEF SyncInv
  <1>1. /\ view[c].pipe # Unset /\ view' = [view EXCEPT ![c].pipe = Unset, ![c].joined = FALSE]
        /\ toView' = [toView EXCEPT ![p] = <<>>] /\ UNCHANGED <<doc, pipes>> BY DEF Lose, Dropped, Cut
  <1>2. p \in Pipe BY <1>0, <1>1, CurrentPipe
  <1>3. /\ DOMAIN view' = Clients /\ \A d \in Clients \ {c} : view'[d] = view[d]
        /\ DOMAIN view'[c] = ViewFields /\ view'[c].pipe = Unset /\ view'[c].epoch = view[c].epoch
        /\ view'[c].rev = view[c].rev /\ view'[c].seen = view[c].seen
    BY <1>0, <1>1 DEF Shape, ViewRight, ViewFields
  <1>4. \E q : IsSeq(q) /\ toDoc' = [toDoc EXCEPT ![p] = q]
    <2>1. CASE Lose(c)
      <3> DEFINE gone == [kind |-> "gone"]
      <3>1. PICK k \in 0 .. Len(toDoc[p]) : toDoc' = [toDoc EXCEPT ![p] = Append(SubSeq(@, 1, k), gone)]
        BY <2>1 DEF Lose
      <3>2. IsSeq(toDoc[p]) /\ Len(toDoc[p]) \in Nat BY <1>0, <1>2, WholeSeq DEF Shape
      <3>3. IsSeq(SubSeq(toDoc[p], 1, k)) BY <3>2, BeginSeq
      <3> HIDE DEF gone, p
      <3>4. IsSeq(Append(SubSeq(toDoc[p], 1, k), gone)) BY <3>3, AppendSeq
      <3> QED BY <3>1, <3>4
    <2>2. CASE Dropped(c)
      <3>1. toDoc' = [toDoc EXCEPT ![p] = <<>>] /\ IsSeq(<<>>) BY <2>2 DEF Dropped, IsSeq
      <3> QED BY <3>1
    <2> QED BY <2>1, <2>2
  <1> HIDE DEF p
  <1>5. /\ DOMAIN toDoc' = Pipe /\ \A r \in Pipe : IsSeq(toDoc'[r])
        /\ \A r \in Pipe \ {p} : toDoc'[r] = toDoc[r] BY <1>0, <1>2, <1>4 DEF Shape
  <1>6. /\ DOMAIN toView' = Pipe /\ \A r \in Pipe : IsSeq(toView'[r])
        /\ \A r \in Pipe \ {p} : toView'[r] = toView[r]
        /\ toView'[p] = <<>> BY <1>0, <1>1, <1>2 DEF Shape, IsSeq
  <1>7. Shape'
    <2>1. \A d \in Clients, k \in 1 .. MaxPipes : k > pipes[d] => toView'[<<d, k>>] = <<>>
      BY <1>0, <1>6 DEF Shape, Pipe
    <2> QED BY <1>0, <1>1, <1>3, <1>5, <1>6, <2>1 DEF Shape
  <1>8. ASSUME NEW d \in Clients
        PROVE  ViewRight(d)' /\ FramesRight(d)'
    <2>1. CASE d # c
      <3> DEFINE r == <<d, view[d].pipe>>
      <3>1. r # p /\ (view[d].pipe # Unset => r \in Pipe) BY <2>1, CurrentPipe DEF p, SyncInv
      <3>2. view[d].pipe # Unset => toView'[r] = toView[r] /\ toDoc'[r] = toDoc[r]
        <4> HIDE DEF r
        <4> QED BY <1>5, <1>6, <3>1
      <3>3. view'[d] = view[d] /\ pipes'[d] = pipes[d] BY <1>1, <1>3, <2>1
      <3> QED BY <1>1, <3>2, <3>3, OtherKeeps
    <2>2. CASE d = c
      <3>1. ViewRight(c)' BY <1>0, <1>1, <1>3 DEF ViewRight, Before, Shape, Unset
      <3>2. FramesRight(c)' BY <1>3 DEF FramesRight
      <3> QED BY <2>2, <3>1, <3>2
    <2> QED BY <2>1, <2>2
  <1> QED BY <1>1, <1>3, <1>7, <1>8 DEF SyncInv

\* The person edits: the view may send a frame, and nothing it was given
\* changes.
LEMMA PullKeeps ==
  ASSUME SyncInv, NEW c \in Clients, NEW v, DOMAIN v = ViewFields, v.pipe = view[c].pipe,
         v.epoch = view[c].epoch, v.rev = view[c].rev, v.seen = view[c].seen,
         Pull(c, v), UNCHANGED <<doc, toView, pipes>>
  PROVE  /\ SyncInv' /\ doc'.history = doc.history
         /\ \A d \in Clients : view'[d].seen = view[d].seen
  <1> DEFINE p == <<c, view[c].pipe>>
  <1>0. Shape /\ ViewRight(c) /\ FramesRight(c) BY DEF SyncInv
  <1>1. Pull(c, v) /\ UNCHANGED <<doc, toView, pipes>> OBVIOUS
  <1>2. /\ DOMAIN v = ViewFields /\ v.pipe = view[c].pipe /\ v.epoch = view[c].epoch
        /\ v.rev = view[c].rev /\ v.seen = view[c].seen OBVIOUS
  <1>3. /\ DOMAIN view' = Clients /\ \A d \in Clients \ {c} : view'[d] = view[d]
        /\ DOMAIN view'[c] = ViewFields /\ view'[c].pipe = v.pipe /\ view'[c].epoch = v.epoch
        /\ view'[c].rev = v.rev /\ view'[c].seen = v.seen
        /\ DOMAIN toDoc' = Pipe
        /\ \A r \in Pipe : /\ IsSeq(toDoc'[r])
                           /\ r # p => toDoc'[r] = toDoc[r]
                           /\ toDoc'[r] = toDoc[r] \/ \E m : toDoc'[r] = Append(toDoc[r], m)
    BY <1>0, <1>1, <1>2, PullResult
  <1>4. Shape' BY <1>0, <1>1, <1>3 DEF Shape
  <1>5. ASSUME NEW d \in Clients
        PROVE  ViewRight(d)' /\ FramesRight(d)'
    <2>1. CASE d # c
      <3> DEFINE r == <<d, view[d].pipe>>
      <3>1. r # p /\ (view[d].pipe # Unset => r \in Pipe) BY <2>1, CurrentPipe DEF SyncInv
      <3>2. view[d].pipe # Unset => toView'[r] = toView[r] /\ toDoc'[r] = toDoc[r]
        <4> HIDE DEF r, p
        <4> QED BY <1>1, <1>3, <3>1
      <3>3. view'[d] = view[d] /\ pipes'[d] = pipes[d] BY <1>1, <1>3, <2>1
      <3> QED BY <1>1, <3>2, <3>3, OtherKeeps
    <2>2. CASE d = c
      <3>1. ViewRight(c)' BY <1>0, <1>1, <1>2, <1>3 DEF ViewRight, Before
      <3>2. ASSUME view[c].pipe # Unset, Unjoined(doc.seats, p)
            PROVE  toDoc'[p] # <<>> /\ toDoc'[p][1] = JoinOf(view[c])
        <4>1. p \in Pipe BY <1>0, <3>2, CurrentPipe
        <4>2. toDoc[p] # <<>> /\ toDoc[p][1] = JoinOf(view[c]) /\ IsSeq(toDoc[p])
          BY <1>0, <3>2, <4>1 DEF FramesRight, Shape
        <4>3. Len(toDoc[p]) > 0 /\ Len(toDoc[p]) \in Nat BY <4>2, TailSeq
        <4> HIDE DEF p
        <4>4. ASSUME NEW m, toDoc'[p] = Append(toDoc[p], m)
              PROVE  toDoc'[p] # <<>> /\ toDoc'[p][1] = toDoc[p][1] BY <4>2, <4>3, <4>4, AppendSeq
        <4> QED BY <1>3, <4>1, <4>2, <4>4
      <3>3. JoinOf(view[c])' = JoinOf(view[c]) BY <1>2, <1>3 DEF JoinOf
      <3>4. (Ahead(c) => Ahead(c)') /\ (AheadToEnd(c) => AheadToEnd(c)')
        BY <1>1, <1>2, <1>3 DEF Ahead, AheadToEnd, Before
      <3>5. view'[c].pipe = view[c].pipe BY <1>2, <1>3
      <3>6. FramesRight(c)' BY <1>0, <1>1, <3>2, <3>3, <3>4, <3>5 DEF FramesRight
      <3> QED BY <2>2, <3>1, <3>6
    <2> QED BY <2>1, <2>2
  <1> QED BY <1>1, <1>2, <1>3, <1>4, <1>5 DEF SyncInv

\* The person edits, or closes the cell editor.
LEMMA EditKeeps ==
  ASSUME SyncInv, NEW c \in Clients, Edit(c) \/ CloseCell(c)
  PROVE  /\ SyncInv' /\ doc'.history = doc.history
         /\ \A d \in Clients : view'[d].seen = view[d].seen
  <1>0. DOMAIN view[c] = ViewFields BY DEF SyncInv, ViewRight
  <1>1. CASE Edit(c)
    <2> DEFINE edit == <<c, view[c].edits + 1>>
               v == [view[c] EXCEPT !.edits = @ + 1, !.queued = Append(@, edit), !.shown = @ \cup {edit}]
    <2>1. Pull(c, v) /\ UNCHANGED <<doc, toView, pipes>> BY <1>1 DEF Edit
    <2>2. /\ DOMAIN v = ViewFields /\ v.pipe = view[c].pipe /\ v.epoch = view[c].epoch
          /\ v.rev = view[c].rev /\ v.seen = view[c].seen BY <1>0 DEF ViewFields
    <2> HIDE DEF v
    <2> QED BY <2>1, <2>2, PullKeeps
  <1>2. CASE CloseCell(c)
    <2> DEFINE v == view[c]
    <2>1. PICK lines : /\ Pull(c, [Shown(v, Edits([i \in v.held |-> v.seen[i]]), lines) EXCEPT !.held = {}])
                       /\ UNCHANGED <<doc, toView, pipes>> BY <1>2 DEF CloseCell
    <2> DEFINE x == Shown(v, Edits([i \in v.held |-> v.seen[i]]), lines)
               w == [x EXCEPT !.held = {}]
    <2>2. /\ DOMAIN x = ViewFields /\ x.pipe = v.pipe /\ x.epoch = v.epoch
          /\ x.rev = v.rev /\ x.seen = v.seen BY <1>0, ShownFields
    <2>3. Pull(c, w) BY <2>1
    <2> HIDE DEF x
    <2>4. /\ DOMAIN w = ViewFields /\ w.pipe = view[c].pipe /\ w.epoch = view[c].epoch
          /\ w.rev = view[c].rev /\ w.seen = view[c].seen BY <2>2 DEF ViewFields
    <2> HIDE DEF w
    <2> QED BY <2>1, <2>3, <2>4, PullKeeps
  <1> QED BY <1>1, <1>2

\* The view has handled the first frame of its pipe, which took it to place
\* `to`.
LEMMA HandledKeeps ==
  ASSUME SyncInv, NEW c \in Clients, view[c].pipe # Unset, NEW p, p = <<c, view[c].pipe>>,
         toView[p] # <<>>, toView' = [toView EXCEPT ![p] = Tail(@)], UNCHANGED <<doc, pipes>>,
         DOMAIN view' = Clients, \A d \in Clients \ {c} : view'[d] = view[d],
         DOMAIN view'[c] = ViewFields, view'[c].pipe = view[c].pipe,
         DOMAIN toDoc' = Pipe, \A r \in Pipe : IsSeq(toDoc'[r]) /\ (r # p => toDoc'[r] = toDoc[r]),
         NEW to \in Nat, to <= Len(doc.history), view'[c].seen = SubSeq(doc.history, 1, to),
         view'[c].epoch \in Nat, view'[c].epoch <= doc.epoch, view'[c].rev \in Nat,
         view'[c].epoch = doc.epoch => to = Before + view'[c].rev,
         Chain(Tail(toView[p]), to, view'[c].epoch, doc.history, doc.epoch, Before),
         AheadToEnd(c) => ChainToEnd(Tail(toView[p]), to, view'[c].epoch, doc.history, doc.epoch, Before)
  PROVE  SyncInv'
  <1>0. Shape /\ ViewRight(c) /\ FramesRight(c) BY DEF SyncInv
  <1>1. p \in Pipe BY <1>0, CurrentPipe
  <1>2. /\ DOMAIN toView' = Pipe /\ \A r \in Pipe : IsSeq(toView'[r])
        /\ \A r \in Pipe \ {p} : toView'[r] = toView[r]
        /\ toView'[p] = Tail(toView[p])
    <2>1. IsSeq(Tail(toView[p])) BY <1>0, <1>1, TailSeq DEF Shape
    <2> QED BY <1>0, <1>1, <2>1 DEF Shape
  <1>3. Shape'
    <2>1. \A d \in Clients, k \in 1 .. MaxPipes : k > pipes[d] => toView'[<<d, k>>] = <<>>
      BY SMTT(40), <1>0, <1>2 DEF Shape, Pipe
    <2>2. doc' = doc /\ pipes' = pipes OBVIOUS
    <2>3. /\ \A r \in Pipe : IsSeq(toDoc'[r]) /\ IsSeq(toView'[r])
          /\ DOMAIN toDoc' = Pipe /\ DOMAIN toView' = Pipe /\ DOMAIN view' = Clients BY <1>2
    <2>4. \A d \in Clients, k \in 1 .. MaxPipes :
            k > pipes'[d] => <<d, k>> \notin DOMAIN doc'.seats /\ toView'[<<d, k>>] = <<>>
      BY SMTT(40), <1>0, <2>1, <2>2 DEF Shape
    <2> QED BY <1>0, <2>2, <2>3, <2>4 DEF Shape
  <1>4. ASSUME NEW d \in Clients
        PROVE  ViewRight(d)' /\ FramesRight(d)'
    <2>1. CASE d # c
      <3> DEFINE r == <<d, view[d].pipe>>
      <3>1. r # p /\ (view[d].pipe # Unset => r \in Pipe) BY <2>1, CurrentPipe DEF SyncInv
      <3>2. view[d].pipe # Unset => toView'[r] = toView[r] /\ toDoc'[r] = toDoc[r]
        <4> HIDE DEF r
        <4> QED BY <1>2, <3>1
      <3>3. view'[d] = view[d] /\ pipes'[d] = pipes[d] BY <2>1
      <3> QED BY <3>2, <3>3, OtherKeeps
    <2>2. CASE d = c
      <3>1. Len(view'[c].seen) = to BY <1>0, BeginSeq DEF Shape
      <3>2. ViewRight(c)' BY <1>0, <3>1 DEF ViewRight, Before
      <3>3. ~Unjoined(doc.seats, p) BY <1>0 DEF FramesRight
      <3>4. Ahead(c)' /\ (AheadToEnd(c) => AheadToEnd(c)') BY <1>2, <3>1 DEF Ahead, AheadToEnd, Before
      <3>5. FramesRight(c)' BY <1>0, <3>3, <3>4 DEF FramesRight
      <3> QED BY <2>2, <3>2, <3>5
    <2> QED BY <2>1, <2>2
  <1> QED BY <1>3, <1>4 DEF SyncInv

\* The view handles a frame.
LEMMA HandleKeeps ==
  ASSUME SyncInv, NEW c \in Clients, Handle(c)
  PROVE  /\ SyncInv' /\ doc' = doc
         /\ \A d \in Clients \ {c} : view'[d] = view[d]
         /\ \E to \in Nat : /\ Len(view[c].seen) <= to /\ to <= Len(doc.history)
                            /\ view'[c].seen = SubSeq(doc.history, 1, to)
  <1> DEFINE p == <<c, view[c].pipe>>
             q == toView[p]
             m == Head(q)
             len == Len(view[c].seen)
             at == view[c].epoch
             H == doc.history
             now == doc.epoch
             off == Before
             Moves(at2, to) == /\ Link(m, 1, len, to, at, H, now)
                               /\ at2 = now /\ m.kind \in {"joined", "changed"} => to = off + m.rev
                               /\ Chain(Tail(q), to, at2, H, now, off)
                               /\ AheadToEnd(c) => ChainToEnd(Tail(q), to, at2, H, now, off)
             Done == /\ SyncInv' /\ doc' = doc
                     /\ \A d \in Clients \ {c} : view'[d] = view[d]
                     /\ \E to \in Nat : /\ Len(view[c].seen) <= to /\ to <= Len(doc.history)
                                        /\ view'[c].seen = SubSeq(doc.history, 1, to)
  <1>0. Shape /\ ViewRight(c) /\ FramesRight(c) BY DEF SyncInv
  <1>1. /\ view[c].pipe # Unset /\ q # <<>>
        /\ toView' = [toView EXCEPT ![p] = Tail(@)] /\ UNCHANGED <<doc, pipes>> BY DEF Handle
  <1>2. p \in Pipe /\ IsSeq(q) /\ m = q[1]
    <2>1. p \in Pipe BY <1>0, <1>1, CurrentPipe
    <2>2. IsSeq(q) BY <1>0, <2>1 DEF Shape
    <2> QED BY <1>1, <2>1, <2>2, TailSeq
  <1>3. /\ at \in Nat /\ now \in Nat /\ now # 0 /\ at <= now /\ len \in Nat /\ len <= Len(H)
        /\ view[c].seen = SubSeq(H, 1, len) /\ IsSeq(H) /\ Len(H) \in Nat
        /\ at = now => len = off + view[c].rev
        /\ view[c].rev \in Nat /\ off \in Int /\ DOMAIN view[c] = ViewFields
    BY <1>0, WholeSeq DEF Shape, ViewRight, Before
  <1>4. Chain(q, len, at, H, now, off) /\ (AheadToEnd(c) => ChainToEnd(q, len, at, H, now, off))
    BY <1>0, <1>1 DEF FramesRight, Ahead, AheadToEnd
  <1>5. ASSUME NEW at2, IF m.kind = "joined" THEN at2 = m.epoch ELSE at2 \in {at, 0}
        PROVE  \E to \in Nat : Moves(at2, to)
    <2>0. IF q[1].kind = "joined" THEN at2 = q[1].epoch ELSE at2 \in {at, 0} BY <1>2, <1>5
    <2> HIDE DEF q, len, at, H, now, off, m
    <2>1. \E to \in Nat : /\ Link(q[1], 1, len, to, at, H, now)
                          /\ at2 = now /\ q[1].kind \in {"joined", "changed"} => to = off + q[1].rev
                          /\ Chain(Tail(q), to, at2, H, now, off)
                          /\ ChainToEnd(q, len, at, H, now, off) =>
                               ChainToEnd(Tail(q), to, at2, H, now, off)
      BY <1>1, <1>2, <1>3, <1>4, <2>0, ChainHandled
    <2> QED BY <1>2, <1>4, <2>1
  <1>6. m.kind \in Kinds
    <2>1. PICK to \in Nat : Moves(IF m.kind = "joined" THEN m.epoch ELSE at, to) BY <1>5
    <2> QED BY <2>1 DEF Link
  <1>7. ASSUME NEW v, DOMAIN v = ViewFields, v.pipe = view[c].pipe, v.epoch \in Nat, v.epoch <= now,
               v.rev \in Nat, NEW to \in Nat, Moves(v.epoch, to), len <= to, to <= Len(H),
               v.seen = SubSeq(H, 1, to), v.epoch = now => to = off + v.rev, Pull(c, v)
        PROVE  Done
    <2>1. /\ DOMAIN view' = Clients /\ \A d \in Clients \ {c} : view'[d] = view[d]
          /\ DOMAIN view'[c] = ViewFields /\ view'[c].pipe = v.pipe /\ view'[c].epoch = v.epoch
          /\ view'[c].rev = v.rev /\ view'[c].seen = v.seen
          /\ DOMAIN toDoc' = Pipe
          /\ \A r \in Pipe : IsSeq(toDoc'[r]) /\ (r # p => toDoc'[r] = toDoc[r]) BY <1>0, <1>7, PullResult
    <2>2. SyncInv' BY <1>1, <1>7, <2>1, HandledKeeps
    <2> QED BY <1>1, <1>7, <2>1, <2>2
  <1>8. ASSUME m.kind = "joined" PROVE Done
    <2> DEFINE v0 == [view[c] EXCEPT !.epoch = m.epoch, !.lastSeq = m.seq, !.joined = TRUE,
                                     !.peers = m.peers]
               loaded == [v0 EXCEPT !.rev = m.rev, !.loaded = TRUE, !.seen = m.changes,
                                    !.shown = Edits(m.changes), !.held = {}]
    <2>1. PICK to \in Nat : Moves(m.epoch, to) BY <1>5, <1>8
    <2>2. /\ to <= Len(H) /\ len <= to /\ m.rev \in Nat /\ m.epoch \in Nat /\ m.epoch <= now
          /\ m.snapshot => m.changes = SubSeq(H, 1, to)
          /\ ~m.snapshot => m.changes = SubSeq(H, len + 1, to) /\ m.epoch = at
          /\ m.epoch = now => to = off + m.rev
      <3> HIDE DEF q, len, at, H, now, off, m
      <3> QED BY SMTT(40), <1>8, <2>1 DEF Link
    <2>3. /\ m.snapshot => Pull(c, loaded)
          /\ ~m.snapshot => \E how : Pull(c, AppliedAll(c, v0, m.rev, m.changes, how))
      BY <1>8 DEF Handle, HandleJoined, Gives
    <2>4. /\ DOMAIN v0 = ViewFields /\ v0.pipe = view[c].pipe /\ v0.epoch = m.epoch
          /\ v0.rev = view[c].rev /\ v0.seen = view[c].seen BY <1>3 DEF ViewFields
    <2>5. /\ DOMAIN loaded = ViewFields /\ loaded.pipe = view[c].pipe /\ loaded.epoch = m.epoch
          /\ loaded.rev = m.rev /\ loaded.seen = m.changes BY <1>3 DEF ViewFields
    <2> HIDE DEF loaded, v0
    <2>6. CASE m.snapshot
      <3> HIDE DEF Moves, Done, q, len, at, H, now, off, m
      <3> QED BY <1>7, <2>1, <2>2, <2>3, <2>5, <2>6
    <2>7. CASE ~m.snapshot
      <3>p. PICK how : Pull(c, AppliedAll(c, v0, m.rev, m.changes, how)) BY <2>3, <2>7
      <3> DEFINE w == AppliedAll(c, v0, m.rev, m.changes, how)
      <3>0. v0.seen = SubSeq(H, 1, len) /\ w = AppliedAll(c, v0, m.rev, SubSeq(H, len + 1, to), how)
        BY <1>3, <2>2, <2>4, <2>7
      <3> HIDE DEF Moves, Done, q, len, at, H, now, off, m, w
      <3>1. /\ DOMAIN w = ViewFields /\ w.pipe = v0.pipe /\ w.epoch = v0.epoch
            /\ w.rev = IF len = to THEN v0.rev ELSE m.rev
            /\ w.seen = SubSeq(H, 1, to)
        <4>1. /\ DOMAIN v0 = ViewFields /\ m.rev \in Nat /\ IsSeq(H) /\ len \in Nat /\ to \in Nat
              /\ len <= to /\ to <= Len(H) /\ v0.seen = SubSeq(H, 1, len)
              /\ w = AppliedAll(c, v0, m.rev, SubSeq(H, len + 1, to), how) BY <1>3, <2>2, <2>4, <3>0
        <4>2. Caught(v0, m.rev, H, len, to, w) BY <4>1, AppliedAllResult, Zenon
        <4> QED BY <4>2 DEF Caught
      <3>2. w.rev \in Nat /\ w.pipe = view[c].pipe /\ w.epoch = m.epoch BY <1>3, <2>2, <2>4, <3>1
      <3>3. w.epoch = now => to = off + w.rev BY <1>3, <2>2, <2>4, <2>7, <3>1, <3>2
      <3>4. Pull(c, w) BY <3>p DEF w
      <3> QED BY SMTT(40), <1>7, <2>1, <2>2, <3>1, <3>2, <3>3, <3>4
    <2> QED BY <2>6, <2>7
  <1>9. ASSUME m.kind = "changed" PROVE Done
    <2>p. PICK how : Pull(c, AppliedAll(c, view[c], m.rev, <<m.change>>, how)) BY <1>9 DEF Handle, Gives
    <2> DEFINE w == AppliedAll(c, view[c], m.rev, <<m.change>>, how)
    <2>1. PICK to \in Nat : Moves(at, to) BY <1>5, <1>9
    <2>2. /\ to <= Len(H) /\ to = len + 1 /\ m.rev \in Nat /\ m.change = H[to]
          /\ at = now => to = off + m.rev
      <3> HIDE DEF q, len, at, H, now, off, m
      <3> QED BY <1>9, <2>1 DEF Link
    <2>3. Pull(c, w) BY <2>p
    <2>4. /\ DOMAIN w = ViewFields /\ w.pipe = view[c].pipe /\ w.epoch = at
          /\ w.rev = m.rev /\ w.seen = Append(view[c].seen, m.change)
      <3>1. m.rev \in Int BY <2>2
      <3> HIDE DEF m
      <3>2. AppliedTo(c, view[c], m.rev, m.change, w) BY <1>3, <3>1, AppliedOne, Zenon
      <3> HIDE DEF w
      <3> QED BY <1>3, <3>2 DEF AppliedTo
    <2> HIDE DEF w
    <2>5. w.seen = SubSeq(H, 1, to)
      <3> HIDE DEF len, H, m
      <3> QED BY <1>3, <2>2, <2>4, NextOfPart
    <2> HIDE DEF Moves, Done, q, len, at, H, now, off, m
    <2>6. len <= to BY <1>3, <2>2
    <2> QED BY <1>3, <1>7, <2>1, <2>2, <2>3, <2>4, <2>5, <2>6
  <1>10. ASSUME m.kind \notin {"joined", "changed"}, NEW at2, at2 \in {at, 0} PROVE Moves(at2, len)
    <2>1. PICK to \in Nat : Moves(at2, to) BY <1>5, <1>10
    <2>2. to = len
      <3> HIDE DEF q, len, at, H, now, off, m
      <3> QED BY <1>10, <2>1 DEF Link
    <2> HIDE DEF Moves, q, len, at, H, now, off, m
    <2> QED BY <2>1, <2>2
  <1>11. ASSUME m.kind = "refused", m.reason # "invalid" PROVE Done
    <2> DEFINE w == [view[c] EXCEPT !.waitingSeq = Unset]
    <2>1. Pull(c, w) BY <1>11 DEF Handle, HandleRefused
    <2>2. /\ DOMAIN w = ViewFields /\ w.pipe = view[c].pipe /\ w.epoch = at
          /\ w.rev = view[c].rev /\ w.seen = view[c].seen BY <1>3 DEF ViewFields
    <2>3. Moves(at, len) BY <1>10, <1>11
    <2> HIDE DEF w, Moves, Done, q, len, at, H, now, off, m
    <2> QED BY SMTT(40), <1>3, <1>7, <2>1, <2>2, <2>3
  <1>12. ASSUME NEW v, view' = [view EXCEPT ![c] = v], DOMAIN v = ViewFields, v.pipe = view[c].pipe,
                v.epoch \in {at, 0}, v.rev \in Nat, v.seen = view[c].seen,
                v.epoch # 0 => v.rev = view[c].rev, m.kind \notin {"joined", "changed"}, DOMAIN toDoc' = Pipe,
                \A r \in Pipe : IsSeq(toDoc'[r]) /\ (r # p => toDoc'[r] = toDoc[r])
         PROVE  Done
    <2>1. view'[c] = v /\ DOMAIN view' = Clients /\ \A d \in Clients \ {c} : view'[d] = view[d]
      BY <1>0, <1>12 DEF Shape
    <2>2. /\ v.epoch \in Nat /\ v.epoch <= now /\ v.seen = SubSeq(H, 1, len)
          /\ v.epoch = now => len = off + v.rev BY <1>3, <1>12
    <2>3. Moves(v.epoch, len) BY <1>10, <1>12
    <2>4. SyncInv' BY <1>1, <1>3, <1>12, <2>1, <2>2, <2>3, HandledKeeps
    <2> QED BY SMTT(40), <1>1, <1>3, <2>1, <2>2, <2>4
  <1>13. ASSUME m.kind = "refused", m.reason = "invalid" PROVE Done
    <2> DEFINE v == [view[c] EXCEPT !.waitingSeq = Unset, !.rev = 0, !.epoch = 0]
               j == JoinOf(v)
    <2>1. view' = [view EXCEPT ![c] = v] /\ toDoc' = [toDoc EXCEPT ![p] = Append(@, j)]
      BY <1>13 DEF Handle, HandleRefused, Post
    <2>2. /\ DOMAIN v = ViewFields /\ v.pipe = view[c].pipe /\ v.epoch = 0
          /\ v.rev = 0 /\ v.seen = view[c].seen BY <1>3 DEF ViewFields
    <2> HIDE DEF v, j, Done
    <2>3. IsSeq(Append(toDoc[p], j)) BY <1>0, <1>2, AppendSeq DEF Shape
    <2>4. /\ DOMAIN toDoc' = Pipe
          /\ \A r \in Pipe : IsSeq(toDoc'[r]) /\ (r # p => toDoc'[r] = toDoc[r])
      <3> HIDE DEF p
      <3> QED BY <1>0, <1>2, <2>1, <2>3 DEF Shape
    <2>5. /\ v.epoch \in {at, 0} /\ v.rev \in Nat /\ (v.epoch # 0 => v.rev = view[c].rev)
          /\ m.kind \notin {"joined", "changed"} BY <1>13, <2>2
    <2> HIDE DEF m, at, p
    <2> QED BY <1>12, <2>1, <2>2, <2>4, <2>5
  <1>14. ASSUME m.kind \in {"peer", "left"} PROVE Done
    <2>1. PICK peers : view' = [view EXCEPT ![c].peers = peers] BY <1>14 DEF Handle
    <2>2. toDoc' = toDoc BY <1>14 DEF Handle
    <2> DEFINE v == [view[c] EXCEPT !.peers = peers]
    <2>3. /\ DOMAIN v = ViewFields /\ v.pipe = view[c].pipe /\ v.epoch = at
          /\ v.rev = view[c].rev /\ v.seen = view[c].seen BY <1>3 DEF ViewFields
    <2>4. view' = [view EXCEPT ![c] = v] BY <2>1
    <2>5. DOMAIN toDoc' = Pipe /\ \A r \in Pipe : IsSeq(toDoc'[r]) /\ toDoc'[r] = toDoc[r]
      BY <1>0, <2>2 DEF Shape
    <2> HIDE DEF v, Done
    <2> QED BY <1>3, <1>12, <1>14, <2>3, <2>4, <2>5
  <1> HIDE DEF m, Done
  <1>15. Done BY <1>6, <1>8, <1>9, <1>11, <1>13, <1>14 DEF Kinds
  <1> QED BY SMTT(40), <1>15 DEF Done

----------------
(* The document and its views implement the shared order.                  *)

\* No change gets a place and no view is given one.
Still == doc'.history = doc.history /\ \A d \in Clients : view'[d].seen = view[d].seen

\* One change gets its place, and no view is given one.
Grows == view' = view /\ \E x : doc'.history = Append(doc.history, x)

\* View c is given what comes next, up to place `to`.
Shows(c) ==
  /\ doc'.history = doc.history /\ \A d \in Clients \ {c} : view'[d] = view[d]
  /\ \E to \in Nat : /\ Len(view[c].seen) <= to /\ to <= Len(doc.history)
                     /\ view'[c].seen = SubSeq(doc.history, 1, to)

\* Every step keeps the invariant and is one of the three.
LEMMA SyncInvStep ==
  ASSUME SyncInv, [Next]_vars
  PROVE  SyncInv' /\ (Still \/ Grows \/ \E c \in Clients : Shows(c))
  <1>1. ASSUME NEW p \in Pipe, Receive(p)
        PROVE  SyncInv' /\ (Still \/ Grows) BY <1>1, ReceiveKeeps DEF Still, Grows
  <1>2. CASE FileChanged BY <1>2, FileChangedKeeps DEF Grows
  <1>3. CASE Rebased \/ Reopen BY <1>3, EpochKeeps DEF Still
  <1>4. CASE Restart BY <1>4, RestartKeeps DEF Still
  <1>5. ASSUME NEW c \in Clients, Attach(c)
        PROVE  SyncInv' /\ Still BY <1>5, AttachKeeps DEF Still
  <1>6. ASSUME NEW c \in Clients, Lose(c) \/ Dropped(c)
        PROVE  SyncInv' /\ Still BY <1>6, CutKeeps DEF Still
  <1>7. ASSUME NEW c \in Clients, Handle(c)
        PROVE  SyncInv' /\ Shows(c) BY <1>7, HandleKeeps DEF Shows
  <1>8. ASSUME NEW c \in Clients, Edit(c) \/ CloseCell(c)
        PROVE  SyncInv' /\ Still BY <1>8, EditKeeps DEF Still
  <1>9. CASE UNCHANGED vars
    <2>1. Shape' /\ \A c \in Clients : ViewRight(c)' /\ FramesRight(c)'
      BY <1>9 DEF vars, SyncInv, Shape, ViewRight, FramesRight, Ahead, AheadToEnd, Before,
                  Unjoined, Joined, JoinOf
    <2> QED BY <1>9, <2>1 DEF vars, SyncInv, Still
  <1> QED BY <1>1, <1>2, <1>3, <1>4, <1>5, <1>6, <1>7, <1>8, <1>9 DEF Next

\* A step of the three kinds is a step of the shared order, or none.
LEMMA OrderStep ==
  ASSUME SyncInv, Still \/ Grows \/ \E c \in Clients : Shows(c) PROVE [Order!Next]_(Order!vars)
  <1> DEFINE H == doc.history
             seen == [c \in Clients |-> view[c].seen]
             seenNext == [c \in Clients |-> view'[c].seen]
  <1>0. IsSeq(H) /\ Len(H) \in Nat /\ SubSeq(H, 1, Len(H)) = H BY WholeSeq DEF SyncInv, Shape
  <1>1. CASE Still
    <2>1. doc'.history = doc.history /\ seenNext = seen BY <1>1 DEF Still
    <2> QED BY <2>1 DEF Order!vars
  <1>2. CASE Grows
    <2>1. PICK x : doc'.history = Append(H, x) BY <1>2 DEF Grows
    <2>2. Len(doc'.history) = Len(H) + 1 BY <1>0, <2>1, AppendSeq
    <2>3. SubSeq(doc'.history, 1, Len(H)) = H BY <1>0, <2>1, GrownBegin
    <2>4. seenNext = seen BY <1>2 DEF Grows
    <2> QED BY <2>2, <2>3, <2>4 DEF Order!Next, Order!Add
  <1>3. ASSUME NEW c \in Clients, Shows(c) PROVE [Order!Next]_(Order!vars)
    <2>1. PICK to \in Nat : /\ Len(view[c].seen) <= to /\ to <= Len(H)
                            /\ view'[c].seen = SubSeq(H, 1, to) BY <1>3 DEF Shows
    <2>2. /\ doc'.history = H /\ \A d \in Clients \ {c} : view'[d] = view[d] BY <1>3 DEF Shows
    <2>3. /\ Len(view[c].seen) \in Nat
          /\ view[c].seen = SubSeq(H, 1, Len(view[c].seen)) BY DEF SyncInv, ViewRight
    <2>4. CASE to = Len(view[c].seen)
      <3>1. seenNext = seen BY <2>1, <2>2, <2>3, <2>4
      <3> QED BY <2>2, <3>1 DEF Order!vars
    <2>5. CASE to # Len(view[c].seen)
      <3>1. to \in Len(seen[c]) + 1 .. Len(H) BY <1>0, <2>1, <2>3, <2>5
      <3>2. seenNext = [seen EXCEPT ![c] = SubSeq(H, 1, to)] BY <2>1, <2>2
      <3>3. Order!Show(c) BY <2>2, <3>1, <3>2 DEF Order!Show
      <3> QED BY <3>3 DEF Order!Next
    <2> QED BY <2>4, <2>5
  <1> QED BY <1>1, <1>2, <1>3

\* The document and its views implement SharedOrder: through lost links,
\* catching up by missed changes (log_since) or by a snapshot, new journals
\* and openings that count revs from 0 again, what a view was given is
\* always a beginning of the one order of changes, and it only gets longer.
THEOREM ImplementsSharedOrder == Spec => OneOrder
  <1>1. Init => Order!Init
    <2> SUFFICES ASSUME Init PROVE Order!Init OBVIOUS
    <2>1. doc.history = <<>> /\ [c \in Clients |-> view[c].seen] = [c \in Clients |-> <<>>] BY DEF Init
    <2> QED BY <2>1 DEF Order!Init
  <1>2. SyncInv /\ [Next]_vars => SyncInv' /\ [Order!Next]_(Order!vars) BY SyncInvStep, OrderStep
  <1> QED BY <1>1, <1>2, SyncInvInit, PTL DEF Spec, OneOrder, Order!Spec
----------------
(* What the document and a view agree on.  D is the document, v the view   *)
(* of client c, Q what the pipes carry to the document, and F the frames   *)
(* on the way to the view.                                                 *)

NumPipes == 1 .. MaxPipes

\* Pipe n of client c has a seat; its join was taken; it waits for its join.
On(c, D, n) == <<c, n>> \in DOMAIN D.seats
In(c, D, n) == On(c, D, n) /\ D.seats[<<c, n>>] # NoClient
Waits(c, D, n) == On(c, D, n) /\ D.seats[<<c, n>>] = NoClient

Frames(c) == IF view[c].pipe = Unset THEN <<>> ELSE toView[<<c, view[c].pipe>>]

\* The places of the changes of client c, and of those it was not given yet.
Made(c, D) == {j \in 1 .. Len(D.history) : D.history[j].by = c}
Pending(c, v, D) == {j \in Made(c, D) : j > Len(v.seen)}

\* The i-th thing that pipe n carries is a change that the document would
\* not ignore.
Live(c, D, Q, n, i) ==
  /\ On(c, D, n) /\ i \in 1 .. Len(Q[<<c, n>>])
  /\ Q[<<c, n>>][i].kind = "change" /\ Q[<<c, n>>][i].seq > D.seqs[c]

\* A frame that answers the batch of client c, and one with missed changes.
Own(c, m) == m.kind = "changed" /\ m.change.by = c
Answers(c, m) == m.kind = "refused" \/ Own(c, m)
Missed(m) == m.kind = "joined" /\ ~m.snapshot

EditsBy(c, v) == {c} \X (1 .. v.edits)

----------------
(* What holds of every client. *)

Typed(c, v, D, Q) ==
  /\ v.waitingSeq \in Nat /\ v.lastSeq \in Nat /\ v.edits \in Nat /\ D.seqs[c] \in Nat
  /\ IsSeq(v.sent) /\ Range(v.sent) \subseteq EditsBy(c, v)
  /\ IsSeq(v.queued) /\ Range(v.queued) \subseteq EditsBy(c, v)
  /\ \A n \in NumPipes, i \in Nat : i \in 1 .. Len(Q[<<c, n>>]) =>
       /\ Q[<<c, n>>][i].kind = "change" => /\ Q[<<c, n>>][i].seq \in Nat
                                            /\ IsSeq(Q[<<c, n>>][i].body)
                                            /\ Range(Q[<<c, n>>][i].body) \subseteq EditsBy(c, v)
       /\ Q[<<c, n>>][i].kind = "join" => Q[<<c, n>>][i].epoch \in Nat /\ Q[<<c, n>>][i].epoch <= D.epoch

\* The seats of a client are its own, and at most one of its pipes is joined.
Alone(c, D) ==
  /\ \A n \in NumPipes : In(c, D, n) => D.seats[<<c, n>>] = c
  /\ \A m, n \in NumPipes : In(c, D, m) /\ In(c, D, n) => m = n

\* The first frame of a pipe, and no other, tells the view that it joined.
Entered(c, v, D, F) ==
  /\ \A i \in 1 .. Len(F) : F[i].kind = "joined" =>
       /\ i = 1 /\ ~v.joined /\ F[i].seq \in Nat
       /\ On(c, D, v.pipe) \/ F[i].epoch = D.epoch => F[i].seq <= D.seqs[c]
  /\ Waits(c, D, v.pipe) => ~v.joined /\ F = <<>>
  /\ (In(c, D, v.pipe) \/ F # <<>>) /\ ~v.joined => F # <<>> /\ F[1].kind = "joined"
  /\ v.joined => v.pipe # Unset

\* The changes of a client hold its edits, and their numbers of this epoch
\* are not above the one that the document knows.
Counted(c, v, D) ==
  \A j \in Made(c, D) :
    /\ Range(D.history[j].body) \subseteq EditsBy(c, v)
    /\ D.history[j].seq \in Nat
    /\ j > Len(D.history) - D.rev => D.history[j].seq <= D.seqs[c]

Lawful(c, v, D, Q, F) ==
  Typed(c, v, D, Q) /\ Alone(c, D) /\ Entered(c, v, D, F) /\ Counted(c, v, D)

\* Every change says whose edits it holds.
Signed(H) ==
  \A j \in 1 .. Len(H) : H[j].by \in Clients \cup {File} /\ \A e \in Range(H[j].body) : e[1] = H[j].by

----------------
(* What holds of a client that knows what becomes of its batches. *)

\* Body b is the batch that was sent, of which a move may have removed some.
Carries(v, b) ==
  v.sent # <<>> /\ Range(v.sent) \subseteq Range(b) /\ Range(b) \subseteq Range(v.sent) \cup v.removed

\* It has no place in the history, and nothing of it waits to be sent.
Unplaced(c, v, D, b) ==
  /\ Carries(v, b) /\ Range(b) \cap Range(v.queued) = {}
  /\ \A j \in Made(c, D) : Range(D.history[j].body) \cap Range(b) = {}

\* Each edit is in one change or in the outbox, or was removed; the batch
\* that was sent may be in a change that the view was not given yet.
HeldOnce(c, v, D) ==
  /\ \A e \in EditsBy(c, v) : \/ e \in Range(v.sent) \cup Range(v.queued) \cup v.removed
                              \/ \E j \in Made(c, D) : e \in Range(D.history[j].body)
  /\ Range(v.sent) \cap Range(v.queued) = {}
  /\ \A j \in Made(c, D) :
       /\ Range(D.history[j].body) \cap Range(v.queued) = {}
       /\ j \notin Pending(c, v, D) => Range(D.history[j].body) \cap Range(v.sent) = {}
  /\ \A i, j \in Made(c, D) : i # j => Range(D.history[i].body) \cap Range(D.history[j].body) = {}

\* A change that the view was not given is the batch that it sent.
OnePending(c, v, D) ==
  /\ \A i, j \in Pending(c, v, D) : i = j
  /\ \A j \in Pending(c, v, D) : Carries(v, D.history[j].body)

\* So is a change on its way, and then the batch has no place yet.
LiveSent(c, v, D, Q) ==
  \A n \in NumPipes, i \in Nat : Live(c, D, Q, n, i) =>
    Pending(c, v, D) = {} /\ Unplaced(c, v, D, Q[<<c, n>>][i].body)

LiveOnce(c, D, Q) ==
  \A n \in NumPipes, i, j \in Nat : Live(c, D, Q, n, i) /\ Live(c, D, Q, n, j) => i = j

\* The change on a pipe that waits for its join is the only one, or it has
\* the next number, so that the document ignores it once it took another.
Behind(c, v, D, Q) ==
  \A n \in NumPipes, i \in Nat : Waits(c, D, n) /\ Live(c, D, Q, n, i) =>
    /\ Q[<<c, n>>][1].kind = "join" /\ 1 \in 1 .. Len(Q[<<c, n>>])
    /\ Q[<<c, n>>][1].epoch = D.epoch => Q[<<c, n>>][i].seq <= D.seqs[c] + 1
    /\ v.epoch = 0 \/ Q[<<c, n>>][1].epoch = v.epoch
    /\ \/ Q[<<c, n>>][i].seq = D.seqs[c] + 1
       \/ \A m \in NumPipes, j \in Nat : Live(c, D, Q, m, j) => m = n

\* A view that joined, or is about to by missed changes, may send another.
NextLive(c, v, D, Q, F) ==
  On(c, D, v.pipe) /\ (v.joined \/ (F # <<>> /\ Missed(F[1]))) =>
    \A n \in NumPipes, i \in Nat :
      Waits(c, D, n) /\ Live(c, D, Q, n, i) => Q[<<c, n>>][i].seq = D.seqs[c] + 1

SeqKnown(c, v, D, F) ==
  v.epoch = D.epoch /\ (v.sent = <<>> \/ \E i \in 1 .. Len(F) : Own(c, F[i])) =>
    v.lastSeq <= D.seqs[c]

\* The batch on the view's pipe, or its answer, is the one the view waits for.
Awaited(c, v, D, Q, F) ==
  /\ v.sent = <<>> => v.waitingSeq = Unset
  /\ v.pipe # Unset => \A i \in Nat : Live(c, D, Q, v.pipe, i) =>
       Q[<<c, v.pipe>>][i].seq = v.waitingSeq /\ v.lastSeq <= v.waitingSeq
  /\ \A i, j \in 1 .. Len(F) : Answers(c, F[i]) /\ Answers(c, F[j]) => i = j
  /\ \A i \in 1 .. Len(F) : Answers(c, F[i]) =>
       /\ v.waitingSeq # Unset
       /\ Own(c, F[i]) => F[i].change.seq = v.waitingSeq
       /\ F[i].kind = "refused" /\ On(c, D, v.pipe) => Pending(c, v, D) = {}
       /\ \A j \in Nat : ~Live(c, D, Q, v.pipe, j)

\* A view that sent before it joined had nothing on the way.
Early(c, v, D, Q, F) ==
  v.waitingSeq # Unset =>
    /\ Waits(c, D, v.pipe) => /\ Pending(c, v, D) = {}
                              /\ \A n \in NumPipes, i \in Nat : Live(c, D, Q, n, i) => n = v.pipe
    /\ F # <<>> /\ Missed(F[1]) => \A j \in 1 .. Len(F[1].changes) : F[1].changes[j].by # c

\* A view that joined and waits for no answer knows the fate of its batches.
Settled(c, v, D, F) ==
  v.waitingSeq = Unset /\ In(c, D, v.pipe) =>
    /\ v.joined => Pending(c, v, D) = {}
    /\ F # <<>> /\ Missed(F[1]) => \A j \in Pending(c, v, D) : j <= Len(v.seen) + Len(F[1].changes)

Kept(c, v, D, Q, F) ==
  /\ HeldOnce(c, v, D) /\ OnePending(c, v, D)
  /\ LiveSent(c, v, D, Q) /\ LiveOnce(c, D, Q) /\ Behind(c, v, D, Q)
  /\ NextLive(c, v, D, Q, F) /\ SeqKnown(c, v, D, F) /\ Awaited(c, v, D, Q, F)
  /\ Early(c, v, D, Q, F) /\ Settled(c, v, D, F)
----------------
(* What the steps of others leave of it. *)

\* The changes of client c, and what its outbox holds, are what they were.
SameEdits(c, v, D, w, D2) ==
  /\ Made(c, D2) = Made(c, D) /\ \A j \in Made(c, D) : D2.history[j] = D.history[j]
  /\ Pending(c, w, D2) = Pending(c, v, D)
  /\ w.sent = v.sent /\ w.queued = v.queued /\ w.removed = v.removed /\ w.edits = v.edits

LEMMA HeldCarries ==
  ASSUME NEW c, NEW v, NEW D, NEW w, NEW D2, HeldOnce(c, v, D), OnePending(c, v, D), SameEdits(c, v, D, w, D2)
  PROVE  HeldOnce(c, w, D2) /\ OnePending(c, w, D2)
  <1>1. EditsBy(c, w) = EditsBy(c, v) BY DEF SameEdits, EditsBy
  <1>2. HeldOnce(c, w, D2) BY <1>1 DEF SameEdits, HeldOnce
  <1>3. \A j \in Pending(c, v, D) : j \in Made(c, D) BY DEF Pending
  <1>4. OnePending(c, w, D2) BY <1>3 DEF SameEdits, OnePending, Carries
  <1> QED BY <1>2, <1>4

LEMMA UnplacedCarries ==
  ASSUME NEW c, NEW v, NEW D, NEW w, NEW D2, SameEdits(c, v, D, w, D2), NEW b, Unplaced(c, v, D, b)
  PROVE  Unplaced(c, w, D2, b) BY DEF SameEdits, Unplaced, Carries

\* What pipe n carries for the document comes from what it carried.
LiveBefore(c, D, Q, D2, Q2, n, s) ==
  \A i \in Nat : Live(c, D2, Q2, n, i) =>
    Live(c, D, Q, n, i + s) /\ Q2[<<c, n>>][i] = Q[<<c, n>>][i + s]

\* No change of client c comes to its pipes.
FewerLives(c, v, D, Q, w, D2, Q2) ==
  /\ D2.seqs[c] = D.seqs[c] /\ w.epoch \in {v.epoch, 0} /\ SameEdits(c, v, D, w, D2)
  /\ \A n \in NumPipes : \E s \in Nat : LiveBefore(c, D, Q, D2, Q2, n, s)
  /\ \A n \in NumPipes, i \in Nat : Waits(c, D2, n) /\ Live(c, D2, Q2, n, i) =>
       /\ Waits(c, D, n) /\ Q2[<<c, n>>][1] = Q[<<c, n>>][1] /\ 1 \in 1 .. Len(Q2[<<c, n>>])
       /\ Q2[<<c, n>>][1].epoch = D2.epoch => Q[<<c, n>>][1].epoch = D.epoch

\* A change on its way was on its way.
LEMMA WasLive ==
  ASSUME NEW c, NEW v, NEW D, NEW Q, NEW w, NEW D2, NEW Q2, FewerLives(c, v, D, Q, w, D2, Q2),
         NEW n \in NumPipes, NEW i \in Nat, Live(c, D2, Q2, n, i)
  PROVE  \E j \in Nat : Live(c, D, Q, n, j) /\ Q2[<<c, n>>][i] = Q[<<c, n>>][j]
  <1>1. PICK s \in Nat : LiveBefore(c, D, Q, D2, Q2, n, s) BY DEF FewerLives
  <1>2. i + s \in Nat OBVIOUS
  <1> QED BY <1>1, <1>2 DEF LiveBefore

LEMMA LivesCarry ==
  ASSUME NEW c, NEW v, NEW D, NEW Q, NEW w, NEW D2, NEW Q2,
         LiveSent(c, v, D, Q), LiveOnce(c, D, Q), Behind(c, v, D, Q), FewerLives(c, v, D, Q, w, D2, Q2)
  PROVE  LiveSent(c, w, D2, Q2) /\ LiveOnce(c, D2, Q2) /\ Behind(c, w, D2, Q2)
  <1>1. LiveSent(c, w, D2, Q2)
    <2> SUFFICES ASSUME NEW n \in NumPipes, NEW i \in Nat, Live(c, D2, Q2, n, i)
                 PROVE  Pending(c, w, D2) = {} /\ Unplaced(c, w, D2, Q2[<<c, n>>][i].body) BY DEF LiveSent
    <2>1. PICK j \in Nat : Live(c, D, Q, n, j) /\ Q2[<<c, n>>][i] = Q[<<c, n>>][j] BY WasLive
    <2>2. Pending(c, v, D) = {} /\ Unplaced(c, v, D, Q2[<<c, n>>][i].body) BY <2>1 DEF LiveSent
    <2>3. SameEdits(c, v, D, w, D2) BY DEF FewerLives
    <2>4. Pending(c, w, D2) = {} BY <2>2, <2>3 DEF SameEdits
    <2> QED BY <2>2, <2>3, <2>4, UnplacedCarries
  <1>2. LiveOnce(c, D2, Q2)
    <2> SUFFICES ASSUME NEW n \in NumPipes, NEW i \in Nat, NEW j \in Nat,
                        Live(c, D2, Q2, n, i), Live(c, D2, Q2, n, j)
                 PROVE  i = j BY DEF LiveOnce
    <2>1. PICK s \in Nat : LiveBefore(c, D, Q, D2, Q2, n, s) BY DEF FewerLives
    <2>2. Live(c, D, Q, n, i + s) /\ Live(c, D, Q, n, j + s) BY <2>1 DEF LiveBefore
    <2>3. i + s \in Nat /\ j + s \in Nat OBVIOUS
    <2>4. i + s = j + s BY <2>2, <2>3 DEF LiveOnce
    <2> QED BY <2>4
  <1>3. Behind(c, w, D2, Q2)
    <2> SUFFICES ASSUME NEW n \in NumPipes, NEW i \in Nat, Waits(c, D2, n), Live(c, D2, Q2, n, i)
                 PROVE  /\ Q2[<<c, n>>][1].kind = "join" /\ 1 \in 1 .. Len(Q2[<<c, n>>])
                        /\ Q2[<<c, n>>][1].epoch = D2.epoch => Q2[<<c, n>>][i].seq <= D2.seqs[c] + 1
                        /\ w.epoch = 0 \/ Q2[<<c, n>>][1].epoch = w.epoch
                        /\ \/ Q2[<<c, n>>][i].seq = D2.seqs[c] + 1
                           \/ \A m \in NumPipes, j \in Nat : Live(c, D2, Q2, m, j) => m = n BY DEF Behind
    <2>1. PICK k \in Nat : Live(c, D, Q, n, k) /\ Q2[<<c, n>>][i] = Q[<<c, n>>][k] BY WasLive
    <2>2. /\ Waits(c, D, n) /\ Q2[<<c, n>>][1] = Q[<<c, n>>][1] /\ 1 \in 1 .. Len(Q2[<<c, n>>])
          /\ Q2[<<c, n>>][1].epoch = D2.epoch => Q[<<c, n>>][1].epoch = D.epoch BY DEF FewerLives
    <2>3. /\ Q[<<c, n>>][1].kind = "join"
          /\ Q[<<c, n>>][1].epoch = D.epoch => Q[<<c, n>>][k].seq <= D.seqs[c] + 1
          /\ v.epoch = 0 \/ Q[<<c, n>>][1].epoch = v.epoch
          /\ \/ Q[<<c, n>>][k].seq = D.seqs[c] + 1
             \/ \A m \in NumPipes, j \in Nat : Live(c, D, Q, m, j) => m = n BY <2>1, <2>2 DEF Behind
    <2>4. D2.seqs[c] = D.seqs[c] /\ w.epoch \in {v.epoch, 0} BY DEF FewerLives
    <2>5. ASSUME \A m \in NumPipes, j \in Nat : Live(c, D, Q, m, j) => m = n,
                 NEW m \in NumPipes, NEW j \in Nat, Live(c, D2, Q2, m, j)
          PROVE  m = n
      <3>1. PICK l \in Nat : Live(c, D, Q, m, l) BY <2>5, WasLive
      <3> QED BY <2>5, <3>1
    <2> QED BY <2>1, <2>2, <2>3, <2>4, <2>5
  <1> QED BY <1>1, <1>2, <1>3

\* The frames to the view, and perhaps one that answers nothing.
FramesMore(c, v, D, F, F2) ==
  F2 = F \/ \E m : /\ In(c, D, v.pipe) /\ F2 = Append(F, m)
                   /\ m.kind \in {"changed", "peer", "left"} /\ ~Own(c, m)

\* The pipe of the view keeps its seat, or loses it.
SeatKept(c, v, D, D2) ==
  /\ On(c, D2, v.pipe) => On(c, D, v.pipe)
  /\ In(c, D2, v.pipe) => In(c, D, v.pipe)
  /\ Waits(c, D2, v.pipe) => Waits(c, D, v.pipe)

LEMMA FramesFacts ==
  ASSUME NEW c, NEW v, NEW D, NEW F, IsSeq(F), NEW F2, FramesMore(c, v, D, F, F2), Entered(c, v, D, F)
  PROVE  /\ Len(F) \in Nat /\ Len(F2) \in Nat /\ Len(F) <= Len(F2) /\ IsSeq(F2)
         /\ \A i \in 1 .. Len(F) : F2[i] = F[i]
         /\ \A i \in 1 .. Len(F2) : i \in 1 .. Len(F) \/ (/\ F2[i].kind \in {"changed", "peer", "left"}
                                                          /\ ~Own(c, F2[i]))
         /\ F # <<>> => F2 # <<>> /\ 1 \in 1 .. Len(F)
         /\ F2 # <<>> => 1 \in 1 .. Len(F2)
         /\ F2 # F => In(c, D, v.pipe) /\ F2 # <<>>
  <1>0. Len(F) \in Nat /\ (F # <<>> => 1 \in 1 .. Len(F)) BY WholeSeq, TailSeq
  <1>1. CASE F2 = F BY <1>0, <1>1
  <1>2. ASSUME NEW m, In(c, D, v.pipe), F2 = Append(F, m), m.kind \in {"changed", "peer", "left"}, ~Own(c, m)
        PROVE  /\ Len(F2) \in Nat /\ Len(F) <= Len(F2) /\ IsSeq(F2)
               /\ \A i \in 1 .. Len(F) : F2[i] = F[i]
               /\ \A i \in 1 .. Len(F2) : i \in 1 .. Len(F) \/ (/\ F2[i].kind \in {"changed", "peer", "left"}
                                                                /\ ~Own(c, F2[i]))
               /\ F2 # <<>> /\ 1 \in 1 .. Len(F2)
    <2>1. /\ Len(F2) = Len(F) + 1 /\ IsSeq(F2) /\ F2 # <<>> /\ F2[Len(F) + 1] = m
          /\ \A i \in 1 .. Len(F) : F2[i] = F[i] BY <1>2, AppendSeq
    <2>2. \A i \in 1 .. Len(F2) : i \in 1 .. Len(F) \/ i = Len(F) + 1 BY <1>0, <2>1
    <2>3. Len(F2) \in Nat /\ Len(F) <= Len(F2) /\ 1 \in 1 .. Len(F2) BY <1>0, <2>1
    <2> HIDE DEF Own
    <2>4. \A i \in 1 .. Len(F2) : i \in 1 .. Len(F) \/ (/\ F2[i].kind \in {"changed", "peer", "left"}
                                                        /\ ~Own(c, F2[i])) BY <1>2, <2>1, <2>2
    <2> QED BY <2>1, <2>3, <2>4
  <1> QED BY <1>0, <1>1, <1>2 DEF FramesMore

\* The pipe of a view is one of its pipes, or there is none.
PipeRight(c, v, D) ==
  (v.pipe = Unset \/ v.pipe \in NumPipes) /\ (On(c, D, v.pipe) => v.pipe \in NumPipes)

\* The rest of what a view agrees on, when none of it is its own.
LEMMA WaitingCarries ==
  ASSUME NEW c, NEW v, NEW D, NEW Q, NEW F, IsSeq(F), NEW D2, NEW Q2, NEW F2,
         PipeRight(c, v, D), Entered(c, v, D, F), Kept(c, v, D, Q, F),
         FewerLives(c, v, D, Q, v, D2, Q2), FramesMore(c, v, D, F, F2), SeatKept(c, v, D, D2),
         D2.epoch = D.epoch
  PROVE  /\ NextLive(c, v, D2, Q2, F2) /\ SeqKnown(c, v, D2, F2) /\ Awaited(c, v, D2, Q2, F2)
         /\ Early(c, v, D2, Q2, F2) /\ Settled(c, v, D2, F2)
  <1>1. /\ Len(F) \in Nat /\ Len(F2) \in Nat /\ Len(F) <= Len(F2)
        /\ \A i \in 1 .. Len(F) : F2[i] = F[i]
        /\ \A i \in 1 .. Len(F2) : i \in 1 .. Len(F) \/ (/\ F2[i].kind \in {"changed", "peer", "left"}
                                                         /\ ~Own(c, F2[i]))
        /\ F # <<>> => F2 # <<>> /\ 1 \in 1 .. Len(F)
        /\ F2 # <<>> => 1 \in 1 .. Len(F2)
        /\ F2 # F => In(c, D, v.pipe) BY FramesFacts
  <1>2. ASSUME NEW i \in 1 .. Len(F2), Answers(c, F2[i])
        PROVE  i \in 1 .. Len(F) /\ F2[i] = F[i] BY <1>1, <1>2 DEF Answers
  <1>3. ASSUME F2 # <<>>, Missed(F2[1])
        PROVE  F # <<>> /\ F2[1] = F[1]
    <2>1. 1 \in 1 .. Len(F2) /\ F2[1].kind = "joined" BY <1>1, <1>3 DEF Missed
    <2>2. 1 \in 1 .. Len(F) BY <1>1, <2>1
    <2>3. Len(F) # 0 BY <1>1, <2>2
    <2> QED BY <1>1, <2>2, <2>3, WholeSeq
  <1>4. D2.seqs[c] = D.seqs[c] /\ Pending(c, v, D2) = Pending(c, v, D) BY DEF FewerLives, SameEdits
  <1>5. NextLive(c, v, D2, Q2, F2)
    <2> SUFFICES ASSUME On(c, D2, v.pipe), v.joined \/ (F2 # <<>> /\ Missed(F2[1])),
                        NEW n \in NumPipes, NEW i \in Nat, Waits(c, D2, n), Live(c, D2, Q2, n, i)
                 PROVE  Q2[<<c, n>>][i].seq = D2.seqs[c] + 1 BY DEF NextLive
    <2>1. On(c, D, v.pipe) /\ (v.joined \/ (F # <<>> /\ Missed(F[1]))) BY <1>3 DEF SeatKept
    <2>2. Waits(c, D, n) BY DEF FewerLives
    <2>3. PICK j \in Nat : Live(c, D, Q, n, j) /\ Q2[<<c, n>>][i] = Q[<<c, n>>][j] BY WasLive
    <2>4. Q[<<c, n>>][j].seq = D.seqs[c] + 1 BY <2>1, <2>2, <2>3 DEF Kept, NextLive
    <2> QED BY <1>4, <2>3, <2>4
  <1>6. SeqKnown(c, v, D2, F2)
    <2>1. ASSUME NEW i \in 1 .. Len(F2), Own(c, F2[i]) PROVE \E j \in 1 .. Len(F) : Own(c, F[j])
      BY <1>2, <2>1 DEF Answers
    <2> QED BY <1>4, <2>1 DEF Kept, SeqKnown
  <1>7. Awaited(c, v, D2, Q2, F2)
    <2>1. v.pipe # Unset => \A i \in Nat : Live(c, D2, Q2, v.pipe, i) =>
            Q2[<<c, v.pipe>>][i].seq = v.waitingSeq /\ v.lastSeq <= v.waitingSeq
      <3> SUFFICES ASSUME v.pipe # Unset, NEW i \in Nat, Live(c, D2, Q2, v.pipe, i)
                   PROVE  Q2[<<c, v.pipe>>][i].seq = v.waitingSeq /\ v.lastSeq <= v.waitingSeq OBVIOUS
      <3>1. PICK j \in Nat : Live(c, D, Q, v.pipe, j) /\ Q2[<<c, v.pipe>>][i] = Q[<<c, v.pipe>>][j]
        BY WasLive DEF PipeRight
      <3> QED BY <3>1 DEF Kept, Awaited
    <2>2. ASSUME NEW i \in 1 .. Len(F2), NEW j \in 1 .. Len(F2), Answers(c, F2[i]), Answers(c, F2[j])
          PROVE  i = j
      <3>1. i \in 1 .. Len(F) /\ F2[i] = F[i] /\ j \in 1 .. Len(F) /\ F2[j] = F[j] BY <1>2, <2>2
      <3> QED BY <2>2, <3>1 DEF Kept, Awaited
    <2>3. ASSUME NEW i \in 1 .. Len(F2), Answers(c, F2[i])
          PROVE  /\ v.waitingSeq # Unset
                 /\ Own(c, F2[i]) => F2[i].change.seq = v.waitingSeq
                 /\ F2[i].kind = "refused" /\ On(c, D2, v.pipe) => Pending(c, v, D2) = {}
                 /\ \A j \in Nat : ~Live(c, D2, Q2, v.pipe, j)
      <3>1. i \in 1 .. Len(F) /\ F2[i] = F[i] BY <1>2, <2>3
      <3>2. /\ v.waitingSeq # Unset
            /\ Own(c, F[i]) => F[i].change.seq = v.waitingSeq
            /\ F[i].kind = "refused" /\ On(c, D, v.pipe) => Pending(c, v, D) = {}
            /\ \A j \in Nat : ~Live(c, D, Q, v.pipe, j) BY <2>3, <3>1 DEF Kept, Awaited
      <3>3. \A j \in Nat : ~Live(c, D2, Q2, v.pipe, j)
        <4> SUFFICES ASSUME NEW j \in Nat, Live(c, D2, Q2, v.pipe, j) PROVE FALSE OBVIOUS
        <4>1. On(c, D, v.pipe) BY DEF SeatKept, Live
        <4>2. \E l \in Nat : Live(c, D, Q, v.pipe, l) BY ZenonT(80), <4>1, WasLive DEF PipeRight
        <4> QED BY <3>2, <4>2
      <3> QED BY <1>4, <3>1, <3>2, <3>3 DEF SeatKept
    <2>4. v.sent = <<>> => v.waitingSeq = Unset BY DEF Kept, Awaited
    <2> QED BY <2>1, <2>2, <2>3, <2>4 DEF Awaited
  <1>8. Early(c, v, D2, Q2, F2)
    <2> SUFFICES ASSUME v.waitingSeq # Unset
                 PROVE  /\ Waits(c, D2, v.pipe) =>
                             /\ Pending(c, v, D2) = {}
                             /\ \A n \in NumPipes, i \in Nat : Live(c, D2, Q2, n, i) => n = v.pipe
                        /\ F2 # <<>> /\ Missed(F2[1]) =>
                             \A j \in 1 .. Len(F2[1].changes) : F2[1].changes[j].by # c BY DEF Early
    <2>1. ASSUME Waits(c, D2, v.pipe), NEW n \in NumPipes, NEW i \in Nat, Live(c, D2, Q2, n, i)
          PROVE  n = v.pipe
      <3>1. \E j \in Nat : Live(c, D, Q, n, j) BY <2>1, WasLive
      <3> QED BY <2>1, <3>1 DEF Kept, Early, SeatKept
    <2>2. Waits(c, D2, v.pipe) => Pending(c, v, D2) = {} BY <1>4 DEF Kept, Early, SeatKept
    <2>3. F2 # <<>> /\ Missed(F2[1]) => \A j \in 1 .. Len(F2[1].changes) : F2[1].changes[j].by # c
      BY <1>3 DEF Kept, Early
    <2> QED BY <2>1, <2>2, <2>3
  <1>9. Settled(c, v, D2, F2) BY <1>3, <1>4 DEF Kept, Settled, SeatKept
  <1> QED BY <1>5, <1>6, <1>7, <1>8, <1>9

\* What the pipes of client c carry was on them.
QueuesFrom(c, Q, Q2) ==
  \A n \in NumPipes, i \in Nat : i \in 1 .. Len(Q2[<<c, n>>]) =>
    \E j \in Nat : j \in 1 .. Len(Q[<<c, n>>]) /\ Q2[<<c, n>>][i] = Q[<<c, n>>][j]

\* The revs count on.
RevsFrom(c, D, D2) ==
  /\ D2.epoch = D.epoch /\ D2.seqs[c] = D.seqs[c]
  /\ Len(D2.history) - D2.rev = Len(D.history) - D.rev

LEMMA LawfulCarries ==
  ASSUME NEW c, NEW v, NEW D, NEW Q, NEW F, IsSeq(F), NEW D2, NEW Q2, NEW F2,
         Lawful(c, v, D, Q, F), SameEdits(c, v, D, v, D2), QueuesFrom(c, Q, Q2), Alone(c, D2),
         RevsFrom(c, D, D2), FramesMore(c, v, D, F, F2), SeatKept(c, v, D, D2)
  PROVE  Lawful(c, v, D2, Q2, F2)
  <1>0. Typed(c, v, D, Q) /\ Alone(c, D) /\ Entered(c, v, D, F) /\ Counted(c, v, D) BY DEF Lawful
  <1>1. Typed(c, v, D2, Q2)
    <2>1. ASSUME NEW n \in NumPipes, NEW i \in Nat, i \in 1 .. Len(Q2[<<c, n>>])
          PROVE  /\ Q2[<<c, n>>][i].kind = "change" => /\ Q2[<<c, n>>][i].seq \in Nat
                                                       /\ IsSeq(Q2[<<c, n>>][i].body)
                                                       /\ Range(Q2[<<c, n>>][i].body) \subseteq EditsBy(c, v)
                 /\ Q2[<<c, n>>][i].kind = "join" =>
                      Q2[<<c, n>>][i].epoch \in Nat /\ Q2[<<c, n>>][i].epoch <= D2.epoch
      <3>1. PICK j \in Nat : j \in 1 .. Len(Q[<<c, n>>]) /\ Q2[<<c, n>>][i] = Q[<<c, n>>][j]
        BY <2>1 DEF QueuesFrom
      <3> QED BY <1>0, <3>1 DEF Typed, RevsFrom
    <2> QED BY <1>0, <2>1 DEF Typed, RevsFrom
  <1>3. Entered(c, v, D2, F2)
    <2>1. /\ Len(F) \in Nat /\ Len(F2) \in Nat
          /\ \A i \in 1 .. Len(F) : F2[i] = F[i]
          /\ \A i \in 1 .. Len(F2) : i \in 1 .. Len(F) \/ (/\ F2[i].kind \in {"changed", "peer", "left"}
                                                           /\ ~Own(c, F2[i]))
          /\ F # <<>> => F2 # <<>> /\ 1 \in 1 .. Len(F)
          /\ F2 # F => In(c, D, v.pipe) BY <1>0, FramesFacts
    <2>2. ASSUME NEW i \in 1 .. Len(F2), F2[i].kind = "joined"
          PROVE  /\ i = 1 /\ ~v.joined /\ F2[i].seq \in Nat
                 /\ On(c, D2, v.pipe) \/ F2[i].epoch = D2.epoch => F2[i].seq <= D2.seqs[c]
      <3>1. i \in 1 .. Len(F) /\ F2[i] = F[i] BY <2>1, <2>2
      <3> QED BY <1>0, <2>2, <3>1 DEF Entered, SeatKept, RevsFrom
    <2>3. Waits(c, D2, v.pipe) => ~v.joined /\ F2 = <<>>
      <3>1. Waits(c, D2, v.pipe) => ~In(c, D, v.pipe) /\ Waits(c, D, v.pipe) BY DEF SeatKept, Waits, In
      <3> QED BY <1>0, <2>1, <3>1 DEF Entered
    <2>4. (In(c, D2, v.pipe) \/ F2 # <<>>) /\ ~v.joined => F2 # <<>> /\ F2[1].kind = "joined"
      BY <1>0, <2>1 DEF Entered, SeatKept
    <2> QED BY <1>0, <2>2, <2>3, <2>4 DEF Entered
  <1>4. Counted(c, v, D2) BY <1>0 DEF Counted, SameEdits, RevsFrom
  <1> QED BY <1>1, <1>3, <1>4 DEF Lawful

\* A step that is not about client c.
Apart(c, v, D, Q, F, D2, Q2, F2) ==
  /\ SameEdits(c, v, D, v, D2) /\ QueuesFrom(c, Q, Q2) /\ Alone(c, D2)
  /\ RevsFrom(c, D, D2) /\ FramesMore(c, v, D, F, F2) /\ SeatKept(c, v, D, D2)
  /\ FewerLives(c, v, D, Q, v, D2, Q2)

LEMMA ApartKeeps ==
  ASSUME NEW c, NEW v, NEW D, NEW Q, NEW F, IsSeq(F), NEW D2, NEW Q2, NEW F2,
         PipeRight(c, v, D), Lawful(c, v, D, Q, F), Apart(c, v, D, Q, F, D2, Q2, F2)
  PROVE  /\ Lawful(c, v, D2, Q2, F2)
         /\ Kept(c, v, D, Q, F) => Kept(c, v, D2, Q2, F2)
  <1>1. /\ SameEdits(c, v, D, v, D2) /\ QueuesFrom(c, Q, Q2) /\ Alone(c, D2)
        /\ RevsFrom(c, D, D2) /\ FramesMore(c, v, D, F, F2) /\ SeatKept(c, v, D, D2)
        /\ FewerLives(c, v, D, Q, v, D2, Q2) BY DEF Apart
  <1>2. Lawful(c, v, D2, Q2, F2) BY <1>1, LawfulCarries
  <1>3. ASSUME Kept(c, v, D, Q, F) PROVE Kept(c, v, D2, Q2, F2)
    <2>1. D2.epoch = D.epoch BY <1>1 DEF RevsFrom
    <2>2. Entered(c, v, D, F) BY DEF Lawful
    <2>3. /\ NextLive(c, v, D2, Q2, F2) /\ SeqKnown(c, v, D2, F2) /\ Awaited(c, v, D2, Q2, F2)
          /\ Early(c, v, D2, Q2, F2) /\ Settled(c, v, D2, F2) BY <1>1, <1>3, <2>1, <2>2, WaitingCarries
    <2>4. HeldOnce(c, v, D) /\ OnePending(c, v, D) /\ LiveSent(c, v, D, Q) /\ LiveOnce(c, D, Q)
          /\ Behind(c, v, D, Q) BY <1>3 DEF Kept
    <2>5. HeldOnce(c, v, D2) /\ OnePending(c, v, D2) BY <1>1, <2>4, HeldCarries
    <2>6. LiveSent(c, v, D2, Q2) /\ LiveOnce(c, D2, Q2) /\ Behind(c, v, D2, Q2) BY <1>1, <2>4, LivesCarry
    <2> QED BY <2>3, <2>4, <2>5, <2>6 DEF Kept
  <1> QED BY <1>2, <1>3

----------------
(* A change of the client itself. *)

\* The document takes change Q[<<c, n>>][1] and gives it the next place.
Placed(c, v, D, Q, F, n, x, f, D2, Q2, F2) ==
  /\ In(c, D, n) /\ Live(c, D, Q, n, 1)
  /\ x.by = c /\ x.seq = Q[<<c, n>>][1].seq /\ x.body = Q[<<c, n>>][1].body
  /\ D2.history = Append(D.history, x) /\ D2.rev = D.rev + 1 /\ D2.epoch = D.epoch
  /\ D2.seqs[c] = x.seq /\ D2.seats = D.seats
  /\ \A k \in NumPipes : k # n => Q2[<<c, k>>] = Q[<<c, k>>]
  /\ Q2[<<c, n>>] = Tail(Q[<<c, n>>]) /\ IsSeq(Q[<<c, n>>])
  /\ f.kind = "changed" /\ f.change = x
  /\ F2 = IF v.pipe = n THEN Append(F, f) ELSE F

\* A view was given a part of the history.
Given(v, D) ==
  /\ IsSeq(D.history) /\ D.rev \in Nat /\ D.epoch \in Nat
  /\ Len(v.seen) \in Nat /\ Len(v.seen) <= Len(D.history)

Grown(c, D, x, D2, p) ==
  /\ x.by = c /\ D2.history = Append(D.history, x) /\ p = Len(D.history) + 1

\* The history after it.
Extended(c, v, D, x, D2, p) ==
  /\ Made(c, D2) = Made(c, D) \cup {p} /\ p \notin Made(c, D)
  /\ Pending(c, v, D2) = Pending(c, v, D) \cup {p}
  /\ \A j \in Made(c, D) : D2.history[j] = D.history[j] /\ j \in Nat /\ j < p
  /\ D2.history[p] = x /\ Len(D2.history) = p /\ p \in Nat /\ p > Len(v.seen)

LEMMA MadePlaced ==
  ASSUME NEW c, NEW v, NEW D, NEW D2, NEW x, NEW p, Given(v, D), Grown(c, D, x, D2, p)
  PROVE  Extended(c, v, D, x, D2, p)
  <1> DEFINE H == D.history
  <1>1. /\ Len(H) \in Nat /\ Len(D2.history) = p /\ D2.history[p] = x
        /\ \A i \in 1 .. Len(H) : D2.history[i] = H[i]
        /\ Len(v.seen) \in Nat /\ Len(v.seen) <= Len(H) /\ x.by = c /\ p = Len(H) + 1
    BY AppendSeq DEF Given, Grown
  <1>2. p \in Nat /\ p > Len(v.seen) /\ 1 .. Len(D2.history) = (1 .. Len(H)) \cup {p} /\ p \notin 1 .. Len(H)
    BY <1>1
  <1>3. \A j \in 1 .. Len(H) : j \in Nat /\ j < p BY <1>1
  <1> HIDE DEF H
  <1>4. Made(c, D2) = Made(c, D) \cup {p} /\ p \notin Made(c, D) BY <1>1, <1>2 DEF Made, H
  <1>5. Pending(c, v, D2) = Pending(c, v, D) \cup {p} BY <1>2, <1>4 DEF Pending
  <1>6. \A j \in Made(c, D) : D2.history[j] = H[j] /\ j \in Nat /\ j < p BY <1>1, <1>3 DEF Made, H
  <1> QED BY <1>1, <1>2, <1>4, <1>5, <1>6 DEF H, Extended

\* No other change of the client on its way will be taken.
LEMMA PlacedLast ==
  ASSUME NEW c, NEW v, NEW D, NEW Q, NEW F, NEW n \in NumPipes, NEW x, NEW f, NEW D2, NEW Q2, NEW F2,
         Placed(c, v, D, Q, F, n, x, f, D2, Q2, F2), Typed(c, v, D, Q), Alone(c, D),
         LiveOnce(c, D, Q), Behind(c, v, D, Q), NEW k \in NumPipes, NEW i \in Nat
  PROVE  ~Live(c, D2, Q2, k, i)
  <1> SUFFICES ASSUME Live(c, D2, Q2, k, i) PROVE FALSE OBVIOUS
  <1> DEFINE s == Q[<<c, n>>][1].seq
  <1>1. In(c, D, n) /\ Live(c, D, Q, n, 1) /\ D2.seqs[c] = s /\ D2.seats = D.seats BY DEF Placed
  <1>2. 1 \in 1 .. Len(Q[<<c, n>>]) /\ Q[<<c, n>>][1].kind = "change" /\ s > D.seqs[c] BY <1>1 DEF Live
  <1>3. s \in Nat /\ D.seqs[c] \in Nat BY <1>2 DEF Typed
  <1> HIDE DEF s
  <1>4. i \in 1 .. Len(Q2[<<c, k>>]) /\ Q2[<<c, k>>][i].kind = "change" /\ Q2[<<c, k>>][i].seq > s
    BY <1>1 DEF Live
  <1>o. On(c, D, k) BY <1>1 DEF Live, On
  <1>5. CASE k = n
    <2>1. IsSeq(Q[<<c, n>>]) /\ Q2[<<c, n>>] = Tail(Q[<<c, n>>]) /\ Q[<<c, n>>] # <<>> BY <1>2 DEF Placed
    <2>2. i + 1 \in 1 .. Len(Q[<<c, n>>]) /\ Q2[<<c, n>>][i] = Q[<<c, n>>][i + 1] /\ i + 1 \in Nat
      <3> DEFINE q == Q[<<c, n>>]
      <3>1. IsSeq(q) /\ q # <<>> /\ i \in 1 .. Len(Tail(q)) BY <1>4, <1>5, <2>1
      <3>2. /\ Len(q) \in Nat /\ Len(Tail(q)) = Len(q) - 1
            /\ \A j \in 1 .. Len(q) - 1 : Tail(q)[j] = q[j + 1] BY <3>1, TailSeq
      <3> HIDE DEF q
      <3>3. i + 1 \in 1 .. Len(q) /\ Tail(q)[i] = q[i + 1] /\ i + 1 \in Nat BY <3>1, <3>2
      <3> QED BY <2>1, <3>3 DEF q
    <2>3. Q[<<c, n>>][i + 1].seq \in Nat BY <1>4, <1>5, <2>2 DEF Typed
    <2>4. Live(c, D, Q, n, i + 1) BY SMTT(40), <1>3, <1>4, <1>5, <1>o, <1>2, <2>2, <2>3 DEF Live
    <2>5. 1 \in Nat /\ i + 1 # 1 BY <1>4
    <2> QED BY <1>1, <2>2, <2>4, <2>5 DEF LiveOnce
  <1>6. CASE k # n
    <2>1. Q2[<<c, k>>] = Q[<<c, k>>] BY <1>6 DEF Placed
    <2>2. Q[<<c, k>>][i].seq \in Nat BY <1>4, <2>1 DEF Typed
    <2>3. Live(c, D, Q, k, i) BY <1>2, <1>3, <1>4, <1>o, <2>1, <2>2 DEF Live
    <2>4. Waits(c, D, k) BY <1>1, <1>6, <1>o DEF Alone, Waits, In
    <2>5. ~(\A m \in NumPipes, j \in Nat : Live(c, D, Q, m, j) => m = k) BY <1>1, <1>6
    <2>6. Q[<<c, k>>][i].seq = D.seqs[c] + 1 BY <2>3, <2>4, <2>5 DEF Behind
    <2> QED BY <1>2, <1>3, <1>4, <2>1, <2>6
  <1> QED BY <1>5, <1>6

\* The frames after one more.
LEMMA OneMoreFrame ==
  ASSUME NEW F, IsSeq(F), NEW f
  PROVE  /\ Len(F) \in Nat /\ Len(Append(F, f)) = Len(F) + 1 /\ IsSeq(Append(F, f)) /\ Append(F, f) # <<>>
         /\ \A i \in 1 .. Len(F) : Append(F, f)[i] = F[i]
         /\ \A i \in 1 .. Len(Append(F, f)) : i \in 1 .. Len(F) \/ Append(F, f)[i] = f
         /\ \A i \in 1 .. Len(Append(F, f)) : i \notin 1 .. Len(F) => i = Len(F) + 1
         /\ Append(F, f)[Len(F) + 1] = f
         /\ F # <<>> => 1 \in 1 .. Len(F)
         /\ F = <<>> => Len(F) = 0
         /\ 1 \in 1 .. Len(Append(F, f))
  <1>1. /\ Len(F) \in Nat /\ Len(Append(F, f)) = Len(F) + 1 /\ IsSeq(Append(F, f)) /\ Append(F, f) # <<>>
        /\ \A i \in 1 .. Len(F) : Append(F, f)[i] = F[i]
        /\ Append(F, f)[Len(F) + 1] = f BY AppendSeq
  <1>2. F # <<>> => Len(F) > 0 BY TailSeq
  <1>3. F = <<>> => Len(F) = 0 OBVIOUS
  <1>4. \A i \in 1 .. Len(Append(F, f)) : i \notin 1 .. Len(F) => i = Len(F) + 1 BY <1>1
  <1> QED BY <1>1, <1>2, <1>3, <1>4

\* A queue without its first.
LEMMA Shifted ==
  ASSUME NEW q, IsSeq(q), q # <<>>
  PROVE  /\ \A i \in Nat : i \in 1 .. Len(Tail(q)) =>
              i + 1 \in 1 .. Len(q) /\ Tail(q)[i] = q[i + 1] /\ i + 1 \in Nat /\ i + 1 # 1
         /\ IsSeq(Tail(q)) /\ 1 \in 1 .. Len(q) /\ Head(q) = q[1]
         /\ Len(q) \in Nat /\ Len(Tail(q)) = Len(q) - 1
  <1>1. /\ Len(q) \in Nat /\ Len(q) > 0 /\ Len(Tail(q)) = Len(q) - 1 /\ IsSeq(Tail(q)) /\ Head(q) = q[1]
        /\ \A j \in 1 .. Len(q) - 1 : Tail(q)[j] = q[j + 1] BY TailSeq
  <1> QED BY <1>1

LEMMA PlacedFrom ==
  ASSUME NEW c, NEW v, NEW D, NEW Q, NEW F, NEW n \in NumPipes, NEW x, NEW f, NEW D2, NEW Q2, NEW F2,
         Placed(c, v, D, Q, F, n, x, f, D2, Q2, F2)
  PROVE  QueuesFrom(c, Q, Q2)
  <1> SUFFICES ASSUME NEW k \in NumPipes, NEW i \in Nat, i \in 1 .. Len(Q2[<<c, k>>])
               PROVE  \E j \in Nat : j \in 1 .. Len(Q[<<c, k>>]) /\ Q2[<<c, k>>][i] = Q[<<c, k>>][j]
    BY DEF QueuesFrom
  <1>1. CASE k = n
    <2> DEFINE q == Q[<<c, n>>]
    <2>1. IsSeq(q) /\ q # <<>> /\ Q2[<<c, k>>] = Tail(q) BY <1>1 DEF Placed, Live
    <2> HIDE DEF q
    <2>2. i + 1 \in 1 .. Len(q) /\ Tail(q)[i] = q[i + 1] /\ i + 1 \in Nat BY <2>1, Shifted
    <2> QED BY <1>1, <2>1, <2>2 DEF q
  <1>2. CASE k # n BY <1>2 DEF Placed
  <1> QED BY <1>1, <1>2

LEMMA PlacedLawful ==
  ASSUME NEW c, NEW v, NEW D, NEW Q, NEW F, NEW n \in NumPipes, NEW x, NEW f, NEW D2, NEW Q2, NEW F2,
         IsSeq(F), Given(v, D), Placed(c, v, D, Q, F, n, x, f, D2, Q2, F2), Lawful(c, v, D, Q, F)
  PROVE  Lawful(c, v, D2, Q2, F2)
  <1>0. Typed(c, v, D, Q) /\ Alone(c, D) /\ Entered(c, v, D, F) /\ Counted(c, v, D) BY DEF Lawful
  <1>1. /\ In(c, D, n) /\ Live(c, D, Q, n, 1) /\ D2.seqs[c] = x.seq /\ D2.seats = D.seats
        /\ D2.epoch = D.epoch /\ x.by = c /\ D2.history = Append(D.history, x) /\ D2.rev = D.rev + 1
        /\ f.kind = "changed" /\ F2 = IF v.pipe = n THEN Append(F, f) ELSE F BY DEF Placed
  <1>2. /\ x.seq \in Nat /\ x.seq > D.seqs[c] /\ D.seqs[c] \in Nat
        /\ Range(x.body) \subseteq EditsBy(c, v)
    <2>1. 1 \in 1 .. Len(Q[<<c, n>>]) /\ Q[<<c, n>>][1].kind = "change" /\ Q[<<c, n>>][1].seq > D.seqs[c]
      BY <1>1 DEF Live
    <2>2. Q[<<c, n>>][1].seq \in Nat /\ Range(Q[<<c, n>>][1].body) \subseteq EditsBy(c, v) /\ D.seqs[c] \in Nat
      BY <1>0, <2>1 DEF Typed
    <2> QED BY <2>1, <2>2 DEF Placed
  <1>3. Typed(c, v, D2, Q2)
    <2>1. ASSUME NEW k \in NumPipes, NEW i \in Nat, i \in 1 .. Len(Q2[<<c, k>>])
          PROVE  /\ Q2[<<c, k>>][i].kind = "change" => /\ Q2[<<c, k>>][i].seq \in Nat
                                                       /\ IsSeq(Q2[<<c, k>>][i].body)
                                                       /\ Range(Q2[<<c, k>>][i].body) \subseteq EditsBy(c, v)
                 /\ Q2[<<c, k>>][i].kind = "join" =>
                      Q2[<<c, k>>][i].epoch \in Nat /\ Q2[<<c, k>>][i].epoch <= D2.epoch
      <3>0. QueuesFrom(c, Q, Q2) BY PlacedFrom
      <3>1. PICK j \in Nat : j \in 1 .. Len(Q[<<c, k>>]) /\ Q2[<<c, k>>][i] = Q[<<c, k>>][j]
        BY <2>1, <3>0 DEF QueuesFrom
      <3> QED BY <1>0, <1>1, <3>1 DEF Typed
    <2> QED BY <1>0, <1>1, <1>2, <2>1 DEF Typed
  <1>4. Alone(c, D2) BY <1>0, <1>1 DEF Alone, In, On
  <1>5. Entered(c, v, D2, F2)
    <2>1. /\ On(c, D2, v.pipe) = On(c, D, v.pipe) /\ In(c, D2, v.pipe) = In(c, D, v.pipe)
          /\ Waits(c, D2, v.pipe) = Waits(c, D, v.pipe) BY <1>1 DEF On, In, Waits
    <2>2. CASE v.pipe = n
      <3>1. /\ F2 = Append(F, f) /\ Len(F) \in Nat
            /\ \A i \in 1 .. Len(F) : F2[i] = F[i]
            /\ \A i \in 1 .. Len(F2) : i \in 1 .. Len(F) \/ F2[i] = f
            /\ F # <<>> => 1 \in 1 .. Len(F)
            /\ F2 # <<>> BY <1>1, <2>2, OneMoreFrame
      <3>2. ~Waits(c, D, v.pipe) /\ In(c, D, v.pipe) BY <1>1, <2>2 DEF In, Waits
      <3>3. ASSUME NEW i \in 1 .. Len(F2), F2[i].kind = "joined"
            PROVE  i \in 1 .. Len(F) /\ F2[i] = F[i] BY <1>1, <3>1, <3>3
      <3>4. ASSUME NEW i \in 1 .. Len(F2), F2[i].kind = "joined"
            PROVE  /\ i = 1 /\ ~v.joined /\ F2[i].seq \in Nat
                   /\ On(c, D2, v.pipe) \/ F2[i].epoch = D2.epoch => F2[i].seq <= D2.seqs[c]
        <4>1. i \in 1 .. Len(F) /\ F2[i] = F[i] BY <3>3, <3>4
        <4>2. /\ i = 1 /\ ~v.joined /\ F[i].seq \in Nat
              /\ On(c, D, v.pipe) \/ F[i].epoch = D.epoch => F[i].seq <= D.seqs[c]
          BY <1>0, <3>4, <4>1 DEF Entered
        <4> QED BY <1>1, <1>2, <2>1, <4>1, <4>2
      <3>5. ~v.joined => F2[1].kind = "joined" BY <1>0, <3>1, <3>2 DEF Entered
      <3> QED BY <1>0, <2>1, <3>1, <3>2, <3>4, <3>5 DEF Entered
    <2>3. CASE v.pipe # n
      <3>1. F2 = F BY <1>1, <2>3
      <3> QED BY <1>0, <1>1, <1>2, <2>1, <3>1 DEF Entered
    <2> QED BY <2>2, <2>3
  <1>6. Counted(c, v, D2)
    <2>0. PICK p : Grown(c, D, x, D2, p) BY <1>1 DEF Grown
    <2>e. Extended(c, v, D, x, D2, p) BY <2>0, MadePlaced
    <2>1. /\ Made(c, D2) = Made(c, D) \cup {p} /\ D2.history[p] = x /\ Len(D2.history) = p
          /\ \A j \in Made(c, D) : D2.history[j] = D.history[j] /\ j \in Nat BY <2>e DEF Extended
    <2>2. Len(D2.history) - D2.rev = Len(D.history) - D.rev
      <3> DEFINE l == Len(D.history)
                 r == D.rev
      <3>1. l \in Nat /\ r \in Nat BY WholeSeq DEF Given
      <3>2. p = l + 1 /\ D2.rev = r + 1 /\ Len(D2.history) = p BY <1>1, <2>0, <2>1 DEF Grown
      <3> HIDE DEF l, r
      <3>3. Len(D2.history) - D2.rev = l - r BY <3>1, <3>2
      <3> QED BY <3>3 DEF l, r
    <2> SUFFICES ASSUME NEW j \in Made(c, D2)
                 PROVE  /\ Range(D2.history[j].body) \subseteq EditsBy(c, v)
                        /\ D2.history[j].seq \in Nat
                        /\ j > Len(D2.history) - D2.rev => D2.history[j].seq <= D2.seqs[c] BY DEF Counted
    <2>3. CASE j = p
      <3>1. D2.history[j] = x BY <2>1, <2>3
      <3>2. D2.history[j].seq <= D2.seqs[c] BY <1>1, <1>2, <3>1
      <3> QED BY <1>1, <1>2, <3>1, <3>2
    <2>4. CASE j \in Made(c, D)
      <3>1. /\ Range(D.history[j].body) \subseteq EditsBy(c, v) /\ D.history[j].seq \in Nat
            /\ j > Len(D.history) - D.rev => D.history[j].seq <= D.seqs[c] BY <1>0, <2>4 DEF Counted
      <3>2. D2.history[j] = D.history[j] BY <2>1, <2>4
      <3>3. D.history[j].seq <= D.seqs[c] => D.history[j].seq <= D2.seqs[c] BY <1>1, <1>2, <3>1
      <3> QED BY <2>2, <3>1, <3>2, <3>3
    <2> QED BY <2>1, <2>3, <2>4
  <1> QED BY <1>3, <1>4, <1>5, <1>6 DEF Lawful

\* The batch has its place now, and its answer is on the way to the view.
LEMMA PlacedKept ==
  ASSUME NEW c, NEW v, NEW D, NEW Q, NEW F, NEW n \in NumPipes, NEW x, NEW f, NEW D2, NEW Q2, NEW F2,
         IsSeq(F), Given(v, D), PipeRight(c, v, D),
         Placed(c, v, D, Q, F, n, x, f, D2, Q2, F2), Lawful(c, v, D, Q, F), Kept(c, v, D, Q, F)
  PROVE  Kept(c, v, D2, Q2, F2)
  <1>0. Typed(c, v, D, Q) /\ Alone(c, D) /\ Entered(c, v, D, F) BY DEF Lawful
  <1>1. /\ In(c, D, n) /\ Live(c, D, Q, n, 1) /\ D2.seqs[c] = x.seq /\ D2.seats = D.seats
        /\ x.seq = Q[<<c, n>>][1].seq /\ x.body = Q[<<c, n>>][1].body
        /\ D2.epoch = D.epoch /\ x.by = c /\ D2.history = Append(D.history, x)
        /\ f.kind = "changed" /\ f.change = x /\ F2 = IF v.pipe = n THEN Append(F, f) ELSE F BY DEF Placed
  <1>2. x.seq \in Nat /\ x.seq > D.seqs[c] /\ D.seqs[c] \in Nat /\ v.lastSeq \in Nat /\ v.waitingSeq \in Nat
    <2>1. 1 \in 1 .. Len(Q[<<c, n>>]) /\ Q[<<c, n>>][1].kind = "change" /\ Q[<<c, n>>][1].seq > D.seqs[c]
      BY <1>1 DEF Live
    <2>2. /\ Q[<<c, n>>][1].seq \in Nat /\ D.seqs[c] \in Nat
          /\ v.lastSeq \in Nat /\ v.waitingSeq \in Nat BY <1>0, <2>1 DEF Typed
    <2> QED BY <1>1, <2>1, <2>2
  <1>3. PICK p : Grown(c, D, x, D2, p) BY <1>1 DEF Grown
  <1>4. Extended(c, v, D, x, D2, p) BY <1>3, MadePlaced
  <1>u. Pending(c, v, D) = {} /\ Unplaced(c, v, D, x.body)
    <2>1. LiveSent(c, v, D, Q) /\ 1 \in Nat BY DEF Kept
    <2> QED BY <1>1, <2>1 DEF LiveSent
  <1>5. /\ Pending(c, v, D) = {} /\ Carries(v, x.body) /\ v.sent # <<>>
        /\ Range(x.body) \cap Range(v.queued) = {}
        /\ \A j \in Made(c, D) : Range(D.history[j].body) \cap Range(x.body) = {}
    BY <1>u DEF Unplaced, Carries
  <1>6. /\ Made(c, D2) = Made(c, D) \cup {p} /\ p \notin Made(c, D) /\ Pending(c, v, D2) = {p}
        /\ \A j \in Made(c, D) : D2.history[j] = D.history[j]
        /\ D2.history[p] = x BY <1>4, <1>5 DEF Extended
  <1>7. \A k \in NumPipes, i \in Nat : ~Live(c, D2, Q2, k, i) BY <1>0, PlacedLast DEF Kept
  <1>8. HeldOnce(c, v, D2)
    <2>1. HeldOnce(c, v, D) BY DEF Kept
    <2>2. \A e \in EditsBy(c, v) : \/ e \in Range(v.sent) \cup Range(v.queued) \cup v.removed
                                   \/ \E j \in Made(c, D2) : e \in Range(D2.history[j].body)
      BY <1>6, <2>1 DEF HeldOnce
    <2>3. Range(v.sent) \cap Range(v.queued) = {} BY <2>1 DEF HeldOnce
    <2>4. ASSUME NEW j \in Made(c, D2)
          PROVE  /\ Range(D2.history[j].body) \cap Range(v.queued) = {}
                 /\ j \notin Pending(c, v, D2) => Range(D2.history[j].body) \cap Range(v.sent) = {}
      <3>1. CASE j = p BY <1>5, <1>6, <2>3, <3>1
      <3>2. CASE j \in Made(c, D)
        <4>1. D2.history[j] = D.history[j] /\ j \notin Pending(c, v, D) BY <1>5, <1>6, <3>2
        <4> QED BY <2>1, <3>2, <4>1 DEF HeldOnce
      <3> QED BY <1>6, <3>1, <3>2
    <2>5. ASSUME NEW i \in Made(c, D2), NEW j \in Made(c, D2), i # j
          PROVE  Range(D2.history[i].body) \cap Range(D2.history[j].body) = {}
      <3>1. ASSUME NEW k \in Made(c, D) PROVE Range(D2.history[k].body) \cap Range(x.body) = {} BY <1>5, <1>6
      <3>2. CASE i \in Made(c, D) /\ j \in Made(c, D) BY <1>6, <2>1, <2>5, <3>2 DEF HeldOnce
      <3>3. CASE i = p BY <1>5, <1>6, <2>5, <3>1, <3>3
      <3>4. CASE j = p BY <1>5, <1>6, <2>5, <3>1, <3>4
      <3> QED BY <1>6, <3>2, <3>3, <3>4
    <2> QED BY <2>2, <2>3, <2>4, <2>5 DEF HeldOnce
  <1>9. OnePending(c, v, D2) BY <1>5, <1>6 DEF OnePending
  <1>10. LiveSent(c, v, D2, Q2) /\ LiveOnce(c, D2, Q2) /\ Behind(c, v, D2, Q2) /\ NextLive(c, v, D2, Q2, F2)
    BY <1>7 DEF LiveSent, LiveOnce, Behind, NextLive
  <1>11. /\ On(c, D2, v.pipe) = On(c, D, v.pipe) /\ In(c, D2, v.pipe) = In(c, D, v.pipe)
         /\ Waits(c, D2, v.pipe) = Waits(c, D, v.pipe) BY <1>1 DEF On, In, Waits
  <1>12. v.pipe = n => v.waitingSeq = x.seq /\ v.lastSeq <= x.seq /\ v.waitingSeq # Unset
    <2> SUFFICES ASSUME v.pipe = n PROVE v.waitingSeq = x.seq /\ v.lastSeq <= x.seq /\ v.waitingSeq # Unset
      OBVIOUS
    <2>1. Awaited(c, v, D, Q, F) /\ 1 \in Nat /\ v.pipe # Unset BY DEF Kept, NumPipes, Unset
    <2>2. Q[<<c, v.pipe>>][1].seq = v.waitingSeq /\ v.lastSeq <= v.waitingSeq BY <1>1, <2>1 DEF Awaited
    <2> QED BY <1>1, <1>2, <2>2 DEF Unset
  <1>13. v.pipe = n => \A i \in 1 .. Len(F) : ~Answers(c, F[i])
    <2>1. Awaited(c, v, D, Q, F) /\ 1 \in Nat BY DEF Kept
    <2> QED BY <1>1, <2>1 DEF Awaited
  <1>14. /\ Len(F) \in Nat
         /\ v.pipe = n => /\ Len(F2) = Len(F) + 1 /\ F2[Len(F) + 1] = f
                          /\ \A i \in 1 .. Len(F) : F2[i] = F[i]
                          /\ \A i \in 1 .. Len(F2) : i \in 1 .. Len(F) \/ F2[i] = f
                          /\ \A i \in 1 .. Len(F2) : i \notin 1 .. Len(F) => i = Len(F) + 1
         /\ F # <<>> => 1 \in 1 .. Len(F)
         /\ F = <<>> => Len(F) = 0
         /\ v.pipe = n => 1 \in 1 .. Len(F2) BY <1>1, OneMoreFrame
  <1>15. SeqKnown(c, v, D2, F2)
    <2> SUFFICES ASSUME v.epoch = D2.epoch, NEW i \in 1 .. Len(F2), Own(c, F2[i])
                 PROVE  v.lastSeq <= D2.seqs[c] BY <1>5 DEF SeqKnown
    <2>1. CASE v.pipe = n BY <1>1, <1>12, <2>1
    <2>2. CASE v.pipe # n
      <3>1. F2 = F BY <1>1, <2>2
      <3>2. v.lastSeq <= D.seqs[c] BY <1>1, <3>1 DEF Kept, SeqKnown
      <3> QED BY <1>1, <1>2, <3>2
    <2> QED BY <2>1, <2>2
  <1>16. v.pipe # n /\ On(c, D, v.pipe) => Waits(c, D, v.pipe) /\ F = <<>>
    <2> SUFFICES ASSUME v.pipe # n, On(c, D, v.pipe) PROVE Waits(c, D, v.pipe) /\ F = <<>> OBVIOUS
    <2>1. v.pipe \in NumPipes BY DEF PipeRight
    <2>2. Waits(c, D, v.pipe) BY <1>0, <1>1, <2>1 DEF Alone, In, Waits
    <2> QED BY <1>0, <2>2 DEF Entered
  <1>17. Awaited(c, v, D2, Q2, F2)
    <2>0. Awaited(c, v, D, Q, F) BY DEF Kept
    <2>1. v.sent = <<>> => v.waitingSeq = Unset BY <2>0 DEF Awaited
    <2>2. \A i \in Nat : v.pipe # Unset => ~Live(c, D2, Q2, v.pipe, i) BY <1>7 DEF PipeRight
    <2>3. ASSUME NEW i \in 1 .. Len(F2), NEW j \in 1 .. Len(F2), Answers(c, F2[i]), Answers(c, F2[j])
          PROVE  i = j
      <3>1. CASE v.pipe = n
        <4>1. i \notin 1 .. Len(F) /\ j \notin 1 .. Len(F) BY <1>13, <1>14, <2>3, <3>1
        <4> QED BY <1>14, <3>1, <4>1
      <3>2. CASE v.pipe # n BY <1>1, <2>0, <2>3, <3>2 DEF Awaited
      <3> QED BY <3>1, <3>2
    <2>4. ASSUME NEW i \in 1 .. Len(F2), Answers(c, F2[i])
          PROVE  /\ v.waitingSeq # Unset
                 /\ Own(c, F2[i]) => F2[i].change.seq = v.waitingSeq
                 /\ F2[i].kind = "refused" /\ On(c, D2, v.pipe) => Pending(c, v, D2) = {}
                 /\ \A j \in Nat : ~Live(c, D2, Q2, v.pipe, j)
      <3>0. \A j \in Nat : ~Live(c, D2, Q2, v.pipe, j)
        <4>1. ~On(c, D, v.pipe) \/ v.pipe \in NumPipes BY DEF PipeRight
        <4>2. \A j \in Nat : Live(c, D2, Q2, v.pipe, j) => On(c, D, v.pipe) BY <1>11 DEF Live
        <4> QED BY <1>7, <4>1, <4>2
      <3>1. CASE v.pipe = n
        <4>1. F2[i] = f BY <1>13, <1>14, <2>4, <3>1
        <4> QED BY <1>1, <1>12, <3>0, <3>1, <4>1
      <3>2. CASE v.pipe # n
        <4>1. F2 = F BY <1>1, <3>2
        <4>2. v.waitingSeq # Unset /\ (Own(c, F[i]) => F[i].change.seq = v.waitingSeq)
          BY <2>0, <2>4, <4>1 DEF Awaited
        <4>3. ~On(c, D, v.pipe) BY <1>14, <1>16, <3>2, <4>1
        <4> QED BY <1>11, <3>0, <4>1, <4>2, <4>3
      <3> QED BY <3>1, <3>2
    <2> QED BY <2>1, <2>2, <2>3, <2>4 DEF Awaited
  <1>18. Early(c, v, D2, Q2, F2)
    <2> SUFFICES ASSUME v.waitingSeq # Unset
                 PROVE  /\ ~Waits(c, D2, v.pipe)
                        /\ F2 # <<>> /\ Missed(F2[1]) =>
                             \A j \in 1 .. Len(F2[1].changes) : F2[1].changes[j].by # c BY DEF Early
    <2>0. Early(c, v, D, Q, F) /\ 1 \in Nat BY DEF Kept
    <2>1. ~Waits(c, D, v.pipe)
      <3>1. Waits(c, D, v.pipe) => n = v.pipe BY <1>1, <2>0 DEF Early
      <3> QED BY <1>1, <3>1 DEF Waits, In
    <2>2. F2 # <<>> /\ Missed(F2[1]) => F # <<>> /\ F2[1] = F[1]
      <3>1. CASE v.pipe = n BY <1>1, <1>14, <3>1 DEF Missed
      <3>2. CASE v.pipe # n BY <1>1, <3>2
      <3> QED BY <3>1, <3>2
    <2> QED BY <1>11, <2>0, <2>1, <2>2 DEF Early
  <1>19. Settled(c, v, D2, F2)
    <2>1. In(c, D, v.pipe) => v.pipe = n BY <1>0, <1>1, <1>16 DEF In, Waits
    <2> QED BY <1>11, <1>12, <2>1 DEF Settled
  <1> QED BY <1>8, <1>9, <1>10, <1>15, <1>17, <1>18, <1>19 DEF Kept

----------------
(* What the document takes of a pipe. *)

\* The document takes the first thing of pipe n.
Popped(c, Q, n, Q2) ==
  /\ IsSeq(Q[<<c, n>>]) /\ Q[<<c, n>>] # <<>> /\ Q2[<<c, n>>] = Tail(Q[<<c, n>>])
  /\ \A k \in NumPipes : k # n => Q2[<<c, k>>] = Q[<<c, k>>]

LEMMA PoppedFrom ==
  ASSUME NEW c, NEW Q, NEW n \in NumPipes, NEW Q2, Popped(c, Q, n, Q2) PROVE QueuesFrom(c, Q, Q2)
  <1> SUFFICES ASSUME NEW k \in NumPipes, NEW i \in Nat, i \in 1 .. Len(Q2[<<c, k>>])
               PROVE  \E j \in Nat : j \in 1 .. Len(Q[<<c, k>>]) /\ Q2[<<c, k>>][i] = Q[<<c, k>>][j]
    BY DEF QueuesFrom
  <1>1. CASE k = n
    <2> DEFINE q == Q[<<c, n>>]
    <2>1. IsSeq(q) /\ q # <<>> /\ Q2[<<c, k>>] = Tail(q) BY <1>1 DEF Popped
    <2> HIDE DEF q
    <2>2. i + 1 \in 1 .. Len(q) /\ Tail(q)[i] = q[i + 1] /\ i + 1 \in Nat BY <2>1, Shifted
    <2> QED BY <1>1, <2>1, <2>2 DEF q
  <1>2. CASE k # n BY <1>2 DEF Popped
  <1> QED BY <1>1, <1>2

\* No seat of client c is better, and none waits on pipe n.
SeatsLess(c, D, n, D2) ==
  /\ D2.seqs[c] = D.seqs[c] /\ D2.epoch = D.epoch
  /\ \A k \in NumPipes : /\ On(c, D2, k) => On(c, D, k)
                         /\ Waits(c, D2, k) => Waits(c, D, k) /\ k # n

LEMMA PoppedLives ==
  ASSUME NEW c, NEW v, NEW D, NEW Q, NEW n \in NumPipes, NEW D2, NEW Q2,
         Popped(c, Q, n, Q2), SeatsLess(c, D, n, D2), SameEdits(c, v, D, v, D2)
  PROVE  FewerLives(c, v, D, Q, v, D2, Q2)
  <1>0. D2.seqs[c] = D.seqs[c] /\ D2.epoch = D.epoch BY DEF SeatsLess
  <1>1. ASSUME NEW k \in NumPipes PROVE \E s \in Nat : LiveBefore(c, D, Q, D2, Q2, k, s)
    <2>1. CASE k = n
      <3>1. LiveBefore(c, D, Q, D2, Q2, k, 1)
        <4> SUFFICES ASSUME NEW i \in Nat, Live(c, D2, Q2, k, i)
                     PROVE  Live(c, D, Q, k, i + 1) /\ Q2[<<c, k>>][i] = Q[<<c, k>>][i + 1] BY DEF LiveBefore
        <4> DEFINE q == Q[<<c, n>>]
        <4>1. IsSeq(q) /\ q # <<>> /\ Q2[<<c, k>>] = Tail(q) BY <2>1 DEF Popped
        <4>2. i \in 1 .. Len(Tail(q)) BY <4>1 DEF Live
        <4> HIDE DEF q
        <4>3. i + 1 \in 1 .. Len(q) /\ Tail(q)[i] = q[i + 1] BY <4>1, <4>2, Shifted
        <4>4. i + 1 \in 1 .. Len(Q[<<c, k>>]) /\ Q2[<<c, k>>][i] = Q[<<c, k>>][i + 1]
          BY <2>1, <4>1, <4>3 DEF q
        <4> QED BY <1>0, <4>4 DEF Live, SeatsLess
      <3> QED BY <3>1
    <2>2. CASE k # n
      <3>1. LiveBefore(c, D, Q, D2, Q2, k, 0)
        <4> SUFFICES ASSUME NEW i \in Nat, Live(c, D2, Q2, k, i)
                     PROVE  Live(c, D, Q, k, i + 0) /\ Q2[<<c, k>>][i] = Q[<<c, k>>][i + 0] BY DEF LiveBefore
        <4>1. Q2[<<c, k>>] = Q[<<c, k>>] BY <2>2 DEF Popped
        <4>2. Live(c, D, Q, k, i) BY <1>0, <4>1 DEF Live, SeatsLess
        <4>3. i + 0 = i OBVIOUS
        <4> QED BY <4>1, <4>2, <4>3
      <3> QED BY <3>1
    <2> QED BY <2>1, <2>2
  <1>2. ASSUME NEW k \in NumPipes, NEW i \in Nat, Waits(c, D2, k), Live(c, D2, Q2, k, i)
        PROVE  /\ Waits(c, D, k) /\ Q2[<<c, k>>][1] = Q[<<c, k>>][1] /\ 1 \in 1 .. Len(Q2[<<c, k>>])
               /\ Q2[<<c, k>>][1].epoch = D2.epoch => Q[<<c, k>>][1].epoch = D.epoch
    <2>1. Waits(c, D, k) /\ Q2[<<c, k>>] = Q[<<c, k>>] BY <1>2 DEF SeatsLess, Popped
    <2>2. 1 \in 1 .. Len(Q2[<<c, k>>])
      <3> DEFINE l == Len(Q2[<<c, k>>])
      <3>1. i \in 1 .. l BY <1>2 DEF Live
      <3> HIDE DEF l
      <3> QED BY <3>1 DEF l
    <2> QED BY <1>0, <2>1, <2>2
  <1> QED BY <1>0, <1>1, <1>2 DEF FewerLives

\* The document refuses the batch on the pipe of the view.
Refused(c, v, D, Q, F, f, Q2, F2) ==
  /\ v.pipe \in NumPipes /\ In(c, D, v.pipe) /\ Live(c, D, Q, v.pipe, 1) /\ Popped(c, Q, v.pipe, Q2)
  /\ f.kind = "refused" /\ F2 = Append(F, f)

LEMMA RefusedLawful ==
  ASSUME NEW c, NEW v, NEW D, NEW Q, NEW F, NEW f, NEW Q2, NEW F2, IsSeq(F),
         Refused(c, v, D, Q, F, f, Q2, F2), Lawful(c, v, D, Q, F)
  PROVE  Lawful(c, v, D, Q2, F2)
  <1>0. Typed(c, v, D, Q) /\ Alone(c, D) /\ Entered(c, v, D, F) /\ Counted(c, v, D) BY DEF Lawful
  <1>1. Typed(c, v, D, Q2)
    <2>0. QueuesFrom(c, Q, Q2) BY PoppedFrom DEF Refused
    <2>1. ASSUME NEW k \in NumPipes, NEW i \in Nat, i \in 1 .. Len(Q2[<<c, k>>])
          PROVE  /\ Q2[<<c, k>>][i].kind = "change" => /\ Q2[<<c, k>>][i].seq \in Nat
                                                       /\ IsSeq(Q2[<<c, k>>][i].body)
                                                       /\ Range(Q2[<<c, k>>][i].body) \subseteq EditsBy(c, v)
                 /\ Q2[<<c, k>>][i].kind = "join" =>
                      Q2[<<c, k>>][i].epoch \in Nat /\ Q2[<<c, k>>][i].epoch <= D.epoch
      <3>1. PICK j \in Nat : j \in 1 .. Len(Q[<<c, k>>]) /\ Q2[<<c, k>>][i] = Q[<<c, k>>][j]
        BY <2>0, <2>1 DEF QueuesFrom
      <3> QED BY <1>0, <3>1 DEF Typed
    <2> QED BY <1>0, <2>1 DEF Typed
  <1>2. Entered(c, v, D, F2)
    <2>1. /\ F2 = Append(F, f) /\ Len(F) \in Nat /\ f.kind = "refused"
          /\ \A i \in 1 .. Len(F) : F2[i] = F[i]
          /\ \A i \in 1 .. Len(F2) : i \in 1 .. Len(F) \/ F2[i] = f
          /\ F # <<>> => 1 \in 1 .. Len(F)
          /\ F2 # <<>> BY OneMoreFrame DEF Refused
    <2>2. ~Waits(c, D, v.pipe) /\ In(c, D, v.pipe) BY DEF In, Waits, Refused
    <2>3. ASSUME NEW i \in 1 .. Len(F2), F2[i].kind = "joined"
          PROVE  i \in 1 .. Len(F) /\ F2[i] = F[i] BY <2>1, <2>3
    <2>4. ~v.joined => F2[1].kind = "joined" BY <1>0, <2>1, <2>2 DEF Entered
    <2> QED BY <1>0, <2>1, <2>2, <2>3, <2>4 DEF Entered
  <1> QED BY <1>0, <1>1, <1>2 DEF Lawful

LEMMA RefusedKept ==
  ASSUME NEW c, NEW v, NEW D, NEW Q, NEW F, NEW f, NEW Q2, NEW F2, IsSeq(F),
         Refused(c, v, D, Q, F, f, Q2, F2), Lawful(c, v, D, Q, F), Kept(c, v, D, Q, F)
  PROVE  Kept(c, v, D, Q2, F2)
  <1>0. Typed(c, v, D, Q) /\ Alone(c, D) /\ Entered(c, v, D, F) BY DEF Lawful
  <1>1. /\ v.pipe \in NumPipes /\ In(c, D, v.pipe) /\ Live(c, D, Q, v.pipe, 1) /\ Popped(c, Q, v.pipe, Q2)
        /\ f.kind = "refused" /\ F2 = Append(F, f) /\ ~Waits(c, D, v.pipe) BY DEF Refused, In, Waits
  <1>2. SeatsLess(c, D, v.pipe, D) /\ SameEdits(c, v, D, v, D) BY <1>1 DEF SeatsLess, SameEdits
  <1>3. FewerLives(c, v, D, Q, v, D, Q2) BY <1>1, <1>2, PoppedLives
  <1>4. LiveSent(c, v, D, Q) /\ LiveOnce(c, D, Q) /\ Behind(c, v, D, Q) /\ Awaited(c, v, D, Q, F) BY DEF Kept
  <1>5. LiveSent(c, v, D, Q2) /\ LiveOnce(c, D, Q2) /\ Behind(c, v, D, Q2) BY <1>3, <1>4, LivesCarry
  <1>6. Pending(c, v, D) = {} /\ v.waitingSeq # Unset
    <2>1. 1 \in Nat /\ v.pipe # Unset BY <1>1 DEF NumPipes, Unset
    <2>2. Q[<<c, v.pipe>>][1].seq = v.waitingSeq BY <1>1, <1>4, <2>1 DEF Awaited
    <2>3. /\ 1 \in 1 .. Len(Q[<<c, v.pipe>>]) /\ Q[<<c, v.pipe>>][1].kind = "change"
          /\ Q[<<c, v.pipe>>][1].seq > D.seqs[c] BY <1>1 DEF Live
    <2>4. v.waitingSeq \in Nat /\ D.seqs[c] \in Nat BY <1>0 DEF Typed
    <2>5. v.waitingSeq # Unset BY <2>2, <2>3, <2>4 DEF Unset
    <2> QED BY <1>1, <1>4, <2>1, <2>5 DEF LiveSent
  <1>7. \A i \in 1 .. Len(F) : ~Answers(c, F[i])
    <2>1. 1 \in Nat OBVIOUS
    <2> QED BY <1>1, <1>4, <2>1 DEF Awaited
  <1>8. \A j \in Nat : ~Live(c, D, Q2, v.pipe, j)
    <2> SUFFICES ASSUME NEW j \in Nat, Live(c, D, Q2, v.pipe, j) PROVE FALSE OBVIOUS
    <2> DEFINE q == Q[<<c, v.pipe>>]
    <2>1. IsSeq(q) /\ q # <<>> /\ Q2[<<c, v.pipe>>] = Tail(q) BY <1>1 DEF Popped
    <2>2. j \in 1 .. Len(Tail(q)) BY <2>1 DEF Live
    <2> HIDE DEF q
    <2>3. j + 1 \in 1 .. Len(q) /\ Tail(q)[j] = q[j + 1] /\ j + 1 \in Nat /\ j + 1 # 1 /\ 1 \in Nat
      BY <2>1, <2>2, Shifted
    <2>4. Live(c, D, Q, v.pipe, j + 1) BY <2>1, <2>3 DEF Live, q
    <2> QED BY <1>1, <1>4, <2>3, <2>4 DEF LiveOnce
  <1>9. /\ Len(F) \in Nat /\ Len(F2) = Len(F) + 1 /\ F2[Len(F) + 1] = f
        /\ \A i \in 1 .. Len(F) : F2[i] = F[i]
        /\ \A i \in 1 .. Len(F2) : i \in 1 .. Len(F) \/ F2[i] = f
        /\ \A i \in 1 .. Len(F2) : i \notin 1 .. Len(F) => i = Len(F) + 1
        /\ F # <<>> => 1 \in 1 .. Len(F)
        /\ F = <<>> => Len(F) = 0
        /\ 1 \in 1 .. Len(F2) BY <1>1, OneMoreFrame
  <1>10. F2 # <<>> /\ Missed(F2[1]) => F # <<>> /\ F2[1] = F[1] BY <1>1, <1>9 DEF Missed
  <1>11. NextLive(c, v, D, Q2, F2)
    <2> SUFFICES ASSUME On(c, D, v.pipe), v.joined \/ (F2 # <<>> /\ Missed(F2[1])),
                        NEW n \in NumPipes, NEW i \in Nat, Waits(c, D, n), Live(c, D, Q2, n, i)
                 PROVE  Q2[<<c, n>>][i].seq = D.seqs[c] + 1 BY DEF NextLive
    <2>1. PICK j \in Nat : Live(c, D, Q, n, j) /\ Q2[<<c, n>>][i] = Q[<<c, n>>][j] BY <1>3, WasLive
    <2>2. NextLive(c, v, D, Q, F) BY DEF Kept
    <2> QED BY <1>10, <2>1, <2>2 DEF NextLive
  <1>12. SeqKnown(c, v, D, F2)
    <2>1. ASSUME NEW i \in 1 .. Len(F2), Own(c, F2[i]) PROVE \E j \in 1 .. Len(F) : Own(c, F[j])
      <3>1. F2[i] # f BY <1>1, <2>1 DEF Own
      <3> QED BY <1>9, <2>1, <3>1
    <2> QED BY <2>1 DEF Kept, SeqKnown
  <1>13. Awaited(c, v, D, Q2, F2)
    <2>1. ASSUME NEW i \in 1 .. Len(F2), Answers(c, F2[i])
          PROVE  i = Len(F) + 1 /\ F2[i] = f BY <1>7, <1>9, <2>1
    <2>2. ~Own(c, f) BY <1>1 DEF Own
    <2> QED BY <1>4, <1>6, <1>8, <2>1, <2>2 DEF Awaited
  <1>14. Early(c, v, D, Q2, F2) BY <1>1, <1>10 DEF Kept, Early
  <1>15. Settled(c, v, D, F2) BY <1>6 DEF Settled
  <1> QED BY <1>5, <1>11, <1>12, <1>13, <1>14, <1>15 DEF Kept

\* Pipe n of client c joins, and its older pipes end.
JoinedOn(c, v, D, Q, F, n, f, D2, Q2, F2) ==
  /\ Waits(c, D, n) /\ Popped(c, Q, n, Q2)
  /\ D2.history = D.history /\ D2.rev = D.rev /\ D2.epoch = D.epoch /\ D2.seqs = D.seqs
  /\ In(c, D2, n) /\ D2.seats[<<c, n>>] = c
  /\ \A k \in Nat : k # n /\ On(c, D2, k) => Waits(c, D, k) /\ Waits(c, D2, k)
  /\ n # v.pipe => F2 = F
  /\ n = v.pipe => /\ F2 = Append(F, f) /\ f.kind = "joined" /\ f.epoch = D.epoch /\ f.seq = D.seqs[c]
                   /\ ~f.snapshot => /\ v.epoch = D.epoch
                                     /\ f.changes = SubSeq(D.history, Len(v.seen) + 1, Len(D.history))

LEMMA JoinedKeeps ==
  ASSUME NEW c, NEW v, NEW D, NEW Q, NEW F, NEW n \in NumPipes, NEW f, NEW D2, NEW Q2, NEW F2,
         IsSeq(F), Given(v, D), D.epoch # 0, PipeRight(c, v, D),
         JoinedOn(c, v, D, Q, F, n, f, D2, Q2, F2), Lawful(c, v, D, Q, F)
  PROVE  /\ Lawful(c, v, D2, Q2, F2)
         /\ Kept(c, v, D, Q, F) => Kept(c, v, D2, Q2, F2)
  <1>0. Typed(c, v, D, Q) /\ Alone(c, D) /\ Entered(c, v, D, F) /\ Counted(c, v, D) BY DEF Lawful
  <1>1. /\ Waits(c, D, n) /\ Popped(c, Q, n, Q2)
        /\ D2.history = D.history /\ D2.rev = D.rev /\ D2.epoch = D.epoch /\ D2.seqs = D.seqs
        /\ In(c, D2, n) /\ D2.seats[<<c, n>>] = c
        /\ \A k \in Nat : k # n /\ On(c, D2, k) => Waits(c, D, k) /\ Waits(c, D2, k) BY DEF JoinedOn
  <1>n. NumPipes \subseteq Nat /\ n \in Nat BY DEF NumPipes
  <1>2. SameEdits(c, v, D, v, D2) /\ RevsFrom(c, D, D2) BY <1>1 DEF SameEdits, RevsFrom, Made, Pending
  <1>3. QueuesFrom(c, Q, Q2) BY <1>1, PoppedFrom
  <1>4. \A k \in Nat : /\ On(c, D2, k) => On(c, D, k)
                       /\ Waits(c, D2, k) => Waits(c, D, k) /\ k # n
                       /\ In(c, D2, k) => k = n BY <1>1 DEF Waits, In, On
  <1>5. Alone(c, D2) BY <1>1, <1>4, <1>n DEF Alone
  <1>6. FewerLives(c, v, D, Q, v, D2, Q2)
    <2>1. SeatsLess(c, D, n, D2) BY <1>1, <1>4, <1>n DEF SeatsLess
    <2> QED BY <1>1, <1>2, <2>1, PoppedLives
  <1>7. CASE n # v.pipe
    <2>1. F2 = F BY <1>7 DEF JoinedOn
    <2>2. v.pipe \in Nat
      <3>1. v.pipe = 0 \/ v.pipe \in 1 .. MaxPipes BY DEF PipeRight, Unset, NumPipes
      <3> QED BY <3>1
    <2>3. SeatKept(c, v, D, D2) BY <1>4, <1>7, <2>2 DEF SeatKept
    <2>4. Apart(c, v, D, Q, F, D2, Q2, F2) BY <1>2, <1>3, <1>5, <1>6, <2>1, <2>3 DEF Apart, FramesMore
    <2> QED BY <2>4, ApartKeeps
  <1>8. CASE n = v.pipe
    <2>1. /\ F2 = Append(F, f) /\ f.kind = "joined" /\ f.epoch = D.epoch /\ f.seq = D.seqs[c]
          /\ ~f.snapshot => /\ v.epoch = D.epoch
                            /\ f.changes = SubSeq(D.history, Len(v.seen) + 1, Len(D.history))
      BY <1>8 DEF JoinedOn
    <2>2. F = <<>> /\ ~v.joined BY <1>0, <1>1, <1>8 DEF Entered
    <2>3. F2 # <<>> /\ Len(F2) = 1 /\ F2[1] = f /\ \A i \in 1 .. Len(F2) : i = 1 /\ F2[i] = f
      <3>1. /\ Len(F) = 0 /\ Len(F2) = Len(F) + 1 /\ F2 # <<>> /\ F2[Len(F) + 1] = f
        BY <2>1, <2>2, OneMoreFrame
      <3>2. Len(F2) = 1 /\ F2[1] = f BY <3>1
      <3> QED BY <3>1, <3>2
    <2>4. ~Waits(c, D2, v.pipe) /\ In(c, D2, v.pipe) /\ On(c, D2, v.pipe) /\ Waits(c, D, v.pipe)
      BY <1>1, <1>8 DEF In, Waits
    <2>5. Typed(c, v, D2, Q2)
      <3>1. ASSUME NEW k \in NumPipes, NEW i \in Nat, i \in 1 .. Len(Q2[<<c, k>>])
            PROVE  /\ Q2[<<c, k>>][i].kind = "change" => /\ Q2[<<c, k>>][i].seq \in Nat
                                                         /\ IsSeq(Q2[<<c, k>>][i].body)
                                                         /\ Range(Q2[<<c, k>>][i].body) \subseteq EditsBy(c, v)
                   /\ Q2[<<c, k>>][i].kind = "join" =>
                        Q2[<<c, k>>][i].epoch \in Nat /\ Q2[<<c, k>>][i].epoch <= D.epoch
        <4>1. PICK j \in Nat : j \in 1 .. Len(Q[<<c, k>>]) /\ Q2[<<c, k>>][i] = Q[<<c, k>>][j]
          BY <1>3, <3>1 DEF QueuesFrom
        <4> QED BY <1>0, <4>1 DEF Typed
      <3> QED BY <1>0, <1>1, <3>1 DEF Typed
    <2>6. Entered(c, v, D2, F2)
      <3>1. D.seqs[c] \in Nat BY <1>0 DEF Typed
      <3> QED BY <1>1, <2>1, <2>2, <2>3, <2>4, <3>1 DEF Entered
    <2>7. Counted(c, v, D2) BY <1>0, <1>1 DEF Counted, Made
    <2>8. Lawful(c, v, D2, Q2, F2) BY <1>5, <2>5, <2>6, <2>7 DEF Lawful
    <2>9. ASSUME Kept(c, v, D, Q, F) PROVE Kept(c, v, D2, Q2, F2)
      <3>1. HeldOnce(c, v, D2) /\ OnePending(c, v, D2) BY <1>2, <2>9, HeldCarries DEF Kept
      <3>2. LiveSent(c, v, D2, Q2) /\ LiveOnce(c, D2, Q2) /\ Behind(c, v, D2, Q2)
        BY <1>6, <2>9, LivesCarry DEF Kept
      <3>3. ~Answers(c, f) /\ ~Own(c, f) /\ (Missed(f) => ~f.snapshot) BY <2>1 DEF Answers, Own, Missed
      <3>4. NextLive(c, v, D2, Q2, F2)
        <4> SUFFICES ASSUME Missed(f), NEW k \in NumPipes, NEW i \in Nat, Waits(c, D2, k), Live(c, D2, Q2, k, i)
                     PROVE  Q2[<<c, k>>][i].seq = D2.seqs[c] + 1 BY <2>2, <2>3 DEF NextLive
        <4>1. PICK j \in Nat : Live(c, D, Q, k, j) /\ Q2[<<c, k>>][i] = Q[<<c, k>>][j] BY <1>6, WasLive
        <4>2. Waits(c, D, k) BY <1>4, <1>n
        <4>3. v.epoch = D.epoch /\ v.epoch # 0 BY <2>1, <3>3
        <4>4. /\ Q[<<c, k>>][1].epoch = D.epoch => Q[<<c, k>>][j].seq <= D.seqs[c] + 1
              /\ v.epoch = 0 \/ Q[<<c, k>>][1].epoch = v.epoch BY <2>9, <4>1, <4>2 DEF Kept, Behind
        <4>5. Q[<<c, k>>][j].seq > D.seqs[c] /\ Q[<<c, k>>][j].seq \in Nat /\ D.seqs[c] \in Nat
          BY <1>0, <4>1 DEF Live, Typed
        <4>6. Q[<<c, k>>][j].seq = D.seqs[c] + 1 BY <4>3, <4>4, <4>5
        <4> QED BY <1>1, <4>1, <4>6
      <3>5. SeqKnown(c, v, D2, F2) BY <1>1, <2>3, <2>9, <3>3 DEF Kept, SeqKnown
      <3>6. Awaited(c, v, D2, Q2, F2)
        <4>0. Awaited(c, v, D, Q, F) BY <2>9 DEF Kept
        <4>1. ASSUME v.pipe # Unset, NEW i \in Nat, Live(c, D2, Q2, v.pipe, i)
              PROVE  Q2[<<c, v.pipe>>][i].seq = v.waitingSeq /\ v.lastSeq <= v.waitingSeq
          <5>1. PICK j \in Nat : Live(c, D, Q, n, j) /\ Q2[<<c, n>>][i] = Q[<<c, n>>][j]
            BY <1>6, <1>8, <4>1, WasLive
          <5> QED BY <1>8, <4>0, <4>1, <5>1 DEF Awaited
        <4> QED BY <2>3, <3>3, <4>0, <4>1 DEF Awaited
      <3>7. Missed(f) => /\ Len(f.changes) = Len(D.history) - Len(v.seen)
                         /\ \A j \in 1 .. Len(f.changes) : /\ f.changes[j] = D.history[Len(v.seen) + j]
                                                           /\ Len(v.seen) + j \in 1 .. Len(D.history)
                                                           /\ Len(v.seen) + j > Len(v.seen)
        <4> SUFFICES ASSUME Missed(f)
                     PROVE  /\ Len(f.changes) = Len(D.history) - Len(v.seen)
                            /\ \A j \in 1 .. Len(f.changes) : /\ f.changes[j] = D.history[Len(v.seen) + j]
                                                              /\ Len(v.seen) + j \in 1 .. Len(D.history)
                                                              /\ Len(v.seen) + j > Len(v.seen) OBVIOUS
        <4> DEFINE H == D.history
                   a == Len(v.seen)
                   b == Len(H)
                   x == f.changes
        <4>0. IsSeq(H) /\ a \in Nat /\ a <= b /\ x = SubSeq(H, a + 1, b) /\ b = Len(H) BY <2>1, <3>3 DEF Given
        <4>1. IsSeq(H) /\ a \in Nat /\ b \in Nat /\ a <= b /\ b <= Len(H) /\ x = SubSeq(H, a + 1, b)
          <5> HIDE DEF H, a, b, x
          <5>1. Len(H) \in Nat BY <4>0, WholeSeq
          <5> QED BY <4>0, <5>1
        <4> HIDE DEF H, a, b, x
        <4>2. Len(x) = b - a /\ \A j \in 1 .. b - a : x[j] = H[a + j] BY <4>1, PartSeq
        <4>3. \A j \in 1 .. Len(x) : x[j] = H[a + j] /\ a + j \in 1 .. b /\ a + j > a BY <4>1, <4>2
        <4> QED BY <4>2, <4>3 DEF H, a, b, x
      <3>8. Early(c, v, D2, Q2, F2)
        <4> SUFFICES ASSUME v.waitingSeq # Unset, Missed(f), NEW j \in 1 .. Len(f.changes)
                     PROVE  f.changes[j].by # c BY <2>3, <2>4 DEF Early
        <4>1. Pending(c, v, D) = {} BY <2>4, <2>9 DEF Kept, Early
        <4> QED BY <3>7, <4>1 DEF Pending, Made
      <3>9. Settled(c, v, D2, F2)
        <4> SUFFICES ASSUME Missed(f), NEW j \in Pending(c, v, D2) PROVE j <= Len(v.seen) + Len(f.changes)
          BY <2>2, <2>3 DEF Settled
        <4>1. j \in 1 .. Len(D.history) BY <1>1 DEF Pending, Made
        <4> DEFINE a == Len(v.seen)
                   b == Len(D.history)
        <4>2. a \in Nat /\ b \in Nat /\ Len(f.changes) = b - a /\ j \in 1 .. b
          BY <3>7, <4>1, WholeSeq DEF Given
        <4> HIDE DEF a, b
        <4>3. j <= a + Len(f.changes) BY <4>2
        <4> QED BY <4>3 DEF a
      <3> QED BY <3>1, <3>2, <3>4, <3>5, <3>6, <3>8, <3>9 DEF Kept
    <2> QED BY <2>8, <2>9
  <1> QED BY <1>7, <1>8

----------------
(* A new epoch of the document. *)

EarlierEpochs(v, D, F) ==
  /\ v.epoch \in Nat /\ v.epoch <= D.epoch /\ D.epoch \in Nat
  /\ \A i \in 1 .. Len(F) : F[i].kind = "joined" => F[i].epoch \in Nat /\ F[i].epoch <= D.epoch

NewEpoch(c, D, D2) ==
  /\ D2.history = D.history /\ D2.epoch = D.epoch + 1 /\ D2.seats = D.seats
  /\ \/ D2.rev = D.rev /\ D2.seqs = D.seqs
     \/ D2.rev = 0 /\ D2.seqs[c] = 0 /\ DOMAIN D.seats = {}

LEMMA NewEpochKeeps ==
  ASSUME NEW c, NEW v, NEW D, NEW Q, NEW F, NEW D2, IsSeq(F), Given(v, D), PipeRight(c, v, D),
         EarlierEpochs(v, D, F), NewEpoch(c, D, D2), Lawful(c, v, D, Q, F)
  PROVE  /\ Lawful(c, v, D2, Q, F)
         /\ Kept(c, v, D, Q, F) => Kept(c, v, D2, Q, F)
  <1>0. Typed(c, v, D, Q) /\ Alone(c, D) /\ Entered(c, v, D, F) /\ Counted(c, v, D) BY DEF Lawful
  <1>1. /\ D2.history = D.history /\ D2.epoch = D.epoch + 1 /\ D2.seats = D.seats
        /\ \/ D2.rev = D.rev /\ D2.seqs = D.seqs
           \/ D2.rev = 0 /\ D2.seqs[c] = 0 /\ DOMAIN D.seats = {} BY DEF NewEpoch
  <1>2. /\ v.epoch \in Nat /\ v.epoch # D2.epoch /\ D.epoch \in Nat /\ D2.epoch \in Nat /\ D.epoch < D2.epoch
        /\ \A i \in 1 .. Len(F) : F[i].kind = "joined" => F[i].epoch # D2.epoch BY <1>1 DEF EarlierEpochs
  <1>3. \A k : /\ On(c, D2, k) = On(c, D, k) /\ In(c, D2, k) = In(c, D, k) /\ Waits(c, D2, k) = Waits(c, D, k)
    BY <1>1 DEF On, In, Waits
  <1>4. D2.seqs[c] \in Nat /\ (\A k : On(c, D, k) => D2.seqs[c] = D.seqs[c]) BY <1>0, <1>1 DEF Typed, On
  <1>5. Typed(c, v, D2, Q)
    <2>1. ASSUME NEW k \in NumPipes, NEW i \in Nat, i \in 1 .. Len(Q[<<c, k>>])
          PROVE  /\ Q[<<c, k>>][i].kind = "change" => /\ Q[<<c, k>>][i].seq \in Nat
                                                       /\ IsSeq(Q[<<c, k>>][i].body)
                                                       /\ Range(Q[<<c, k>>][i].body) \subseteq EditsBy(c, v)
                 /\ Q[<<c, k>>][i].kind = "join" => Q[<<c, k>>][i].epoch \in Nat /\ Q[<<c, k>>][i].epoch <= D2.epoch
      <3>1. /\ Q[<<c, k>>][i].kind = "change" => /\ Q[<<c, k>>][i].seq \in Nat
                                                 /\ IsSeq(Q[<<c, k>>][i].body)
                                                 /\ Range(Q[<<c, k>>][i].body) \subseteq EditsBy(c, v)
            /\ Q[<<c, k>>][i].kind = "join" => Q[<<c, k>>][i].epoch \in Nat /\ Q[<<c, k>>][i].epoch <= D.epoch
        BY <1>0, <2>1 DEF Typed
      <3>2. Q[<<c, k>>][i].kind = "join" => Q[<<c, k>>][i].epoch <= D2.epoch BY <1>2, <3>1
      <3> QED BY <3>1, <3>2
    <2> QED BY <1>0, <1>4, <2>1 DEF Typed
  <1>6. Alone(c, D2) BY <1>0, <1>1, <1>3 DEF Alone
  <1>7. Entered(c, v, D2, F) BY <1>0, <1>2, <1>3, <1>4 DEF Entered
  <1>8. Counted(c, v, D2)
    <2> SUFFICES ASSUME NEW j \in Made(c, D), j > Len(D.history) - D2.rev
                 PROVE  D.history[j].seq <= D2.seqs[c] BY <1>0, <1>1 DEF Counted, Made
    <2>1. CASE D2.rev = D.rev /\ D2.seqs = D.seqs BY <1>0, <2>1 DEF Counted
    <2>2. CASE D2.rev = 0
      <3> DEFINE l == Len(D.history)
      <3>1. j \in 1 .. l /\ j > l - 0 BY <2>2 DEF Made
      <3>2. l \in Nat BY WholeSeq DEF Given
      <3> HIDE DEF l
      <3> QED BY <3>1, <3>2
    <2> QED BY <1>1, <2>1, <2>2
  <1>9. Lawful(c, v, D2, Q, F) BY <1>5, <1>6, <1>7, <1>8 DEF Lawful
  <1>10. ASSUME Kept(c, v, D, Q, F) PROVE Kept(c, v, D2, Q, F)
    <2>1. Made(c, D2) = Made(c, D) /\ Pending(c, v, D2) = Pending(c, v, D) BY <1>1 DEF Made, Pending
    <2>2. SameEdits(c, v, D, v, D2) BY <1>1, <2>1 DEF SameEdits
    <2>3. HeldOnce(c, v, D2) /\ OnePending(c, v, D2) BY <1>10, <2>2, HeldCarries DEF Kept
    <2>4. \A k, i : Live(c, D2, Q, k, i) = Live(c, D, Q, k, i) BY <1>3, <1>4 DEF Live
    <2>5. LiveSent(c, v, D2, Q) /\ LiveOnce(c, D2, Q)
      <3>1. \A b : Unplaced(c, v, D, b) => Unplaced(c, v, D2, b) BY <2>2, UnplacedCarries
      <3> QED BY <1>10, <2>1, <2>4, <3>1 DEF Kept, LiveSent, LiveOnce
    <2>6. Behind(c, v, D2, Q)
      <3> SUFFICES ASSUME NEW n \in NumPipes, NEW i \in Nat, Waits(c, D2, n), Live(c, D2, Q, n, i)
                   PROVE  /\ Q[<<c, n>>][1].kind = "join" /\ 1 \in 1 .. Len(Q[<<c, n>>])
                          /\ Q[<<c, n>>][1].epoch = D2.epoch => Q[<<c, n>>][i].seq <= D2.seqs[c] + 1
                          /\ v.epoch = 0 \/ Q[<<c, n>>][1].epoch = v.epoch
                          /\ \/ Q[<<c, n>>][i].seq = D2.seqs[c] + 1
                             \/ \A m \in NumPipes, j \in Nat : Live(c, D2, Q, m, j) => m = n BY DEF Behind
      <3>1. /\ Q[<<c, n>>][1].kind = "join" /\ 1 \in 1 .. Len(Q[<<c, n>>])
            /\ v.epoch = 0 \/ Q[<<c, n>>][1].epoch = v.epoch
            /\ \/ Q[<<c, n>>][i].seq = D.seqs[c] + 1
               \/ \A m \in NumPipes, j \in Nat : Live(c, D, Q, m, j) => m = n
        BY <1>3, <1>10, <2>4 DEF Kept, Behind
      <3>2. Q[<<c, n>>][1].epoch # D2.epoch
        <4>1. Q[<<c, n>>][1].epoch \in Nat /\ Q[<<c, n>>][1].epoch <= D.epoch BY <1>0, <3>1 DEF Typed
        <4> QED BY <1>2, <4>1
      <3>3. D2.seqs[c] = D.seqs[c] BY <1>3, <1>4 DEF Waits
      <3> QED BY <2>4, <3>1, <3>2, <3>3
    <2>7. NextLive(c, v, D2, Q, F) BY <1>3, <1>4, <1>10, <2>4 DEF Kept, NextLive
    <2>8. SeqKnown(c, v, D2, F) BY <1>2 DEF SeqKnown
    <2>9. Awaited(c, v, D2, Q, F) BY <1>3, <1>10, <2>1, <2>4 DEF Kept, Awaited
    <2>10. Early(c, v, D2, Q, F) /\ Settled(c, v, D2, F) BY <1>3, <1>10, <2>1, <2>4 DEF Kept, Early, Settled
    <2> QED BY <1>10, <2>3, <2>5, <2>6, <2>7, <2>8, <2>9, <2>10 DEF Kept
  <1> QED BY <1>9, <1>10

\* The process of the document ends.
LEMMA RestartedKeeps ==
  ASSUME NEW c, NEW v, NEW D, NEW Q, NEW F, NEW D2, NEW Q2, IsSeq(F), PipeRight(c, v, D),
         D2.history = D.history, D2.rev = D.rev, D2.epoch = D.epoch, D2.seqs = D.seqs,
         DOMAIN D2.seats = {}, \A n \in NumPipes : Q2[<<c, n>>] = <<>>, Lawful(c, v, D, Q, F)
  PROVE  /\ Lawful(c, v, D2, Q2, F)
         /\ Kept(c, v, D, Q, F) => Kept(c, v, D2, Q2, F)
  <1>1. \A k : ~On(c, D2, k) /\ ~In(c, D2, k) /\ ~Waits(c, D2, k) BY DEF On, In, Waits
  <1>2. SameEdits(c, v, D, v, D2) /\ RevsFrom(c, D, D2) /\ Pending(c, v, D2) = Pending(c, v, D)
    BY DEF SameEdits, RevsFrom, Made, Pending
  <1>3. QueuesFrom(c, Q, Q2) BY DEF QueuesFrom
  <1>4. Alone(c, D2) /\ SeatKept(c, v, D, D2) BY <1>1 DEF Alone, SeatKept
  <1>5. FewerLives(c, v, D, Q, v, D2, Q2)
    <2>1. \A n \in NumPipes : LiveBefore(c, D, Q, D2, Q2, n, 0) BY <1>1 DEF LiveBefore, Live
    <2>2. 0 \in Nat OBVIOUS
    <2> QED BY <1>1, <1>2, <2>1, <2>2 DEF FewerLives
  <1>6. Apart(c, v, D, Q, F, D2, Q2, F) BY <1>2, <1>3, <1>4, <1>5 DEF Apart, FramesMore
  <1> QED BY <1>6, ApartKeeps

----------------
(* A view without frames: it lost its pipe, or has a new one. *)

\* w is v with another link, on which nothing came yet.
Relinked(c, v, D, Q, w, D2, Q2) ==
  /\ w.epoch = v.epoch /\ w.lastSeq = v.lastSeq /\ w.removed = v.removed /\ w.seen = v.seen
  /\ w.sent = v.sent /\ w.queued = v.queued /\ w.edits = v.edits
  /\ w.waitingSeq = Unset \/ (w.waitingSeq = v.waitingSeq /\ ~On(c, D2, w.pipe))
  /\ ~w.joined /\ ~In(c, D2, w.pipe) /\ \A i \in Nat : ~Live(c, D2, Q2, w.pipe, i)
  /\ D2.history = D.history /\ D2.rev = D.rev /\ D2.epoch = D.epoch /\ D2.seqs = D.seqs
  /\ \A k \in NumPipes : In(c, D2, k) => In(c, D, k) /\ D2.seats[<<c, k>>] = D.seats[<<c, k>>]
  /\ FewerLives(c, v, D, Q, w, D2, Q2)

LEMMA RelinkedKeeps ==
  ASSUME NEW c, NEW v, NEW D, NEW Q, NEW F, NEW w, NEW D2, NEW Q2,
         Relinked(c, v, D, Q, w, D2, Q2), Typed(c, w, D2, Q2), Lawful(c, v, D, Q, F)
  PROVE  /\ Lawful(c, w, D2, Q2, <<>>)
         /\ Kept(c, v, D, Q, F) => Kept(c, w, D2, Q2, <<>>)
  <1>0. Alone(c, D) /\ Counted(c, v, D) BY DEF Lawful
  <1>1. /\ w.epoch = v.epoch /\ w.lastSeq = v.lastSeq /\ w.removed = v.removed /\ w.seen = v.seen
        /\ w.sent = v.sent /\ w.queued = v.queued /\ w.edits = v.edits
        /\ w.waitingSeq = Unset \/ (w.waitingSeq = v.waitingSeq /\ ~On(c, D2, w.pipe))
        /\ ~w.joined /\ ~In(c, D2, w.pipe) /\ \A i \in Nat : ~Live(c, D2, Q2, w.pipe, i)
        /\ D2.history = D.history /\ D2.rev = D.rev /\ D2.epoch = D.epoch /\ D2.seqs = D.seqs
        /\ \A k \in NumPipes : In(c, D2, k) => In(c, D, k) /\ D2.seats[<<c, k>>] = D.seats[<<c, k>>]
        /\ FewerLives(c, v, D, Q, w, D2, Q2) BY DEF Relinked
  <1>2. Len(<<>>) = 0 /\ \A i \in 1 .. Len(<<>>) : FALSE OBVIOUS
  <1>3. Alone(c, D2) BY <1>0, <1>1 DEF Alone
  <1>4. Entered(c, w, D2, <<>>) BY <1>1, <1>2 DEF Entered
  <1>5. EditsBy(c, w) = EditsBy(c, v) /\ Made(c, D2) = Made(c, D) /\ Pending(c, w, D2) = Pending(c, v, D)
    BY <1>1 DEF EditsBy, Made, Pending
  <1>6. Counted(c, w, D2) BY <1>0, <1>1, <1>5 DEF Counted
  <1>7. Lawful(c, w, D2, Q2, <<>>) BY <1>3, <1>4, <1>6 DEF Lawful
  <1>8. ASSUME Kept(c, v, D, Q, F) PROVE Kept(c, w, D2, Q2, <<>>)
    <2>1. SameEdits(c, v, D, w, D2) BY <1>1, <1>5 DEF SameEdits
    <2>2. HeldOnce(c, w, D2) /\ OnePending(c, w, D2) BY <1>8, <2>1, HeldCarries DEF Kept
    <2>3. LiveSent(c, w, D2, Q2) /\ LiveOnce(c, D2, Q2) /\ Behind(c, w, D2, Q2)
      BY <1>1, <1>8, LivesCarry DEF Kept
    <2>4. NextLive(c, w, D2, Q2, <<>>) BY <1>1 DEF NextLive
    <2>5. SeqKnown(c, w, D2, <<>>) BY <1>1, <1>2, <1>8 DEF Kept, SeqKnown
    <2>6. Awaited(c, w, D2, Q2, <<>>) BY <1>1, <1>2, <1>8 DEF Kept, Awaited
    <2>7. Early(c, w, D2, Q2, <<>>) BY <1>1 DEF Early, Waits
    <2>8. Settled(c, w, D2, <<>>) BY <1>1 DEF Settled
    <2> QED BY <2>2, <2>3, <2>4, <2>5, <2>6, <2>7, <2>8 DEF Kept
  <1> QED BY <1>7, <1>8

\* attach: a new pipe that carries the join of its view.
Attached(c, v, D, Q, w, m, j, D2, Q2) ==
  /\ w.epoch = v.epoch /\ w.lastSeq = v.lastSeq /\ w.removed = v.removed /\ w.seen = v.seen
  /\ w.sent = v.sent /\ w.queued = v.queued /\ w.edits = v.edits
  /\ w.waitingSeq = Unset /\ ~w.joined /\ w.pipe = m
  /\ D2.history = D.history /\ D2.rev = D.rev /\ D2.epoch = D.epoch /\ D2.seqs = D.seqs
  /\ DOMAIN D2.seats = DOMAIN D.seats \cup {<<c, m>>} /\ D2.seats[<<c, m>>] = NoClient
  /\ \A k \in NumPipes : k # m => /\ Q2[<<c, k>>] = Q[<<c, k>>]
                                  /\ On(c, D, k) => D2.seats[<<c, k>>] = D.seats[<<c, k>>]
  /\ Q2[<<c, m>>] = <<j>> /\ j.kind = "join" /\ j.epoch = v.epoch /\ v.epoch \in Nat /\ v.epoch <= D.epoch

LEMMA AttachedKeeps ==
  ASSUME NEW c, NEW v, NEW D, NEW Q, NEW F, NEW w, NEW m \in NumPipes, NEW j, NEW D2, NEW Q2,
         Attached(c, v, D, Q, w, m, j, D2, Q2), Lawful(c, v, D, Q, F)
  PROVE  /\ Lawful(c, w, D2, Q2, <<>>)
         /\ Kept(c, v, D, Q, F) => Kept(c, w, D2, Q2, <<>>)
  <1>0. Typed(c, v, D, Q) BY DEF Lawful
  <1>1. /\ w.epoch = v.epoch /\ w.lastSeq = v.lastSeq /\ w.removed = v.removed /\ w.seen = v.seen
        /\ w.sent = v.sent /\ w.queued = v.queued /\ w.edits = v.edits
        /\ w.waitingSeq = Unset /\ ~w.joined /\ w.pipe = m
        /\ D2.history = D.history /\ D2.rev = D.rev /\ D2.epoch = D.epoch /\ D2.seqs = D.seqs
        /\ DOMAIN D2.seats = DOMAIN D.seats \cup {<<c, m>>} /\ D2.seats[<<c, m>>] = NoClient
        /\ \A k \in NumPipes : k # m => /\ Q2[<<c, k>>] = Q[<<c, k>>]
                                        /\ On(c, D, k) => D2.seats[<<c, k>>] = D.seats[<<c, k>>]
        /\ Q2[<<c, m>>] = <<j>> /\ j.kind = "join" /\ j.epoch = v.epoch /\ v.epoch \in Nat /\ v.epoch <= D.epoch
    BY DEF Attached
  <1>2. Len(Q2[<<c, m>>]) = 1 /\ \A i \in 1 .. Len(Q2[<<c, m>>]) : Q2[<<c, m>>][i] = j BY <1>1
  <1>3. EditsBy(c, w) = EditsBy(c, v) /\ Made(c, D2) = Made(c, D) /\ Pending(c, w, D2) = Pending(c, v, D)
    BY <1>1 DEF EditsBy, Made, Pending
  <1>4. Typed(c, w, D2, Q2)
    <2>1. ASSUME NEW k \in NumPipes, NEW i \in Nat, i \in 1 .. Len(Q2[<<c, k>>])
          PROVE  /\ Q2[<<c, k>>][i].kind = "change" => /\ Q2[<<c, k>>][i].seq \in Nat
                                                       /\ IsSeq(Q2[<<c, k>>][i].body)
                                                       /\ Range(Q2[<<c, k>>][i].body) \subseteq EditsBy(c, v)
                 /\ Q2[<<c, k>>][i].kind = "join" =>
                      Q2[<<c, k>>][i].epoch \in Nat /\ Q2[<<c, k>>][i].epoch <= D.epoch
      <3>1. CASE k = m
        <4>1. Q2[<<c, k>>][i] = j BY <1>2, <2>1, <3>1
        <4> QED BY <1>1, <4>1
      <3>2. CASE k # m
        <4>1. Q2[<<c, k>>] = Q[<<c, k>>] BY <1>1, <3>2
        <4> QED BY <1>0, <2>1, <4>1 DEF Typed
      <3> QED BY <3>1, <3>2
    <2>2. Unset \in Nat BY DEF Unset
    <2> QED BY <1>0, <1>1, <1>3, <2>1, <2>2 DEF Typed
  <1>5. \A k \in NumPipes : k # m =>
          On(c, D2, k) = On(c, D, k) /\ In(c, D2, k) = In(c, D, k) /\ Waits(c, D2, k) = Waits(c, D, k)
    <2>1. \A k \in NumPipes : k # m => On(c, D2, k) = On(c, D, k) BY <1>1 DEF On
    <2> QED BY <1>1, <2>1 DEF In, Waits
  <1>6. ~In(c, D2, m) BY <1>1 DEF In
  <1>7. \A i \in Nat : ~Live(c, D2, Q2, m, i) BY <1>1, <1>2 DEF Live
  <1>8. \A k \in NumPipes : k # m => \A i \in Nat : Live(c, D2, Q2, k, i) = Live(c, D, Q, k, i)
    BY <1>1, <1>5 DEF Live
  <1>9. FewerLives(c, v, D, Q, w, D2, Q2)
    <2>1. ASSUME NEW k \in NumPipes PROVE LiveBefore(c, D, Q, D2, Q2, k, 0)
      <3> SUFFICES ASSUME NEW i \in Nat, Live(c, D2, Q2, k, i)
                   PROVE  Live(c, D, Q, k, i + 0) /\ Q2[<<c, k>>][i] = Q[<<c, k>>][i + 0] BY DEF LiveBefore
      <3>1. k # m /\ i + 0 = i BY <1>7
      <3> QED BY <1>1, <1>8, <3>1
    <2>2. ASSUME NEW k \in NumPipes, NEW i \in Nat, Waits(c, D2, k), Live(c, D2, Q2, k, i)
          PROVE  /\ Waits(c, D, k) /\ Q2[<<c, k>>][1] = Q[<<c, k>>][1] /\ 1 \in 1 .. Len(Q2[<<c, k>>])
                 /\ Q2[<<c, k>>][1].epoch = D2.epoch => Q[<<c, k>>][1].epoch = D.epoch
      <3>1. k # m BY <1>7, <2>2
      <3>2. 1 \in 1 .. Len(Q2[<<c, k>>])
        <4> DEFINE l == Len(Q2[<<c, k>>])
        <4>1. i \in 1 .. l BY <2>2 DEF Live
        <4> HIDE DEF l
        <4> QED BY <4>1 DEF l
      <3> QED BY <1>1, <1>5, <2>2, <3>1, <3>2
    <2>3. 0 \in Nat OBVIOUS
    <2>4. SameEdits(c, v, D, w, D2) BY <1>1, <1>3 DEF SameEdits
    <2> QED BY <1>1, <2>1, <2>2, <2>3, <2>4 DEF FewerLives
  <1>10. Relinked(c, v, D, Q, w, D2, Q2)
    <2>1. \A k \in NumPipes : In(c, D2, k) => In(c, D, k) /\ D2.seats[<<c, k>>] = D.seats[<<c, k>>]
      BY <1>1, <1>5, <1>6 DEF In
    <2> QED BY <1>1, <1>6, <1>7, <1>9, <2>1 DEF Relinked
  <1> QED BY <1>4, <1>10, RelinkedKeeps

\* The link is gone: of what pipe m carried, the document gets a beginning.
CutOff(c, v, D, Q, w, m, Q2) ==
  /\ w.epoch = v.epoch /\ w.lastSeq = v.lastSeq /\ w.removed = v.removed /\ w.seen = v.seen
  /\ w.sent = v.sent /\ w.queued = v.queued /\ w.edits = v.edits /\ w.waitingSeq = v.waitingSeq
  /\ ~w.joined /\ ~On(c, D, w.pipe)
  /\ \A k \in NumPipes : k # m => Q2[<<c, k>>] = Q[<<c, k>>]
  /\ \A i \in Nat : i \in 1 .. Len(Q2[<<c, m>>]) =>
       \/ Q2[<<c, m>>][i].kind = "gone"
       \/ /\ i \in 1 .. Len(Q[<<c, m>>]) /\ Q2[<<c, m>>][i] = Q[<<c, m>>][i]
          /\ 1 \in 1 .. Len(Q2[<<c, m>>]) /\ Q2[<<c, m>>][1] = Q[<<c, m>>][1]

LEMMA CutOffKeeps ==
  ASSUME NEW c, NEW v, NEW D, NEW Q, NEW F, NEW w, NEW m \in NumPipes, NEW Q2,
         CutOff(c, v, D, Q, w, m, Q2), Lawful(c, v, D, Q, F)
  PROVE  /\ Lawful(c, w, D, Q2, <<>>)
         /\ Kept(c, v, D, Q, F) => Kept(c, w, D, Q2, <<>>)
  <1>0. Typed(c, v, D, Q) BY DEF Lawful
  <1>1. /\ w.epoch = v.epoch /\ w.lastSeq = v.lastSeq /\ w.removed = v.removed /\ w.seen = v.seen
        /\ w.sent = v.sent /\ w.queued = v.queued /\ w.edits = v.edits /\ w.waitingSeq = v.waitingSeq
        /\ ~w.joined /\ ~On(c, D, w.pipe)
        /\ \A k \in NumPipes : k # m => Q2[<<c, k>>] = Q[<<c, k>>]
        /\ \A i \in Nat : i \in 1 .. Len(Q2[<<c, m>>]) =>
             \/ Q2[<<c, m>>][i].kind = "gone"
             \/ /\ i \in 1 .. Len(Q[<<c, m>>]) /\ Q2[<<c, m>>][i] = Q[<<c, m>>][i]
                /\ 1 \in 1 .. Len(Q2[<<c, m>>]) /\ Q2[<<c, m>>][1] = Q[<<c, m>>][1] BY DEF CutOff
  <1>3. EditsBy(c, w) = EditsBy(c, v) /\ Pending(c, w, D) = Pending(c, v, D) BY <1>1 DEF EditsBy, Pending
  <1>4. Typed(c, w, D, Q2)
    <2>1. ASSUME NEW k \in NumPipes, NEW i \in Nat, i \in 1 .. Len(Q2[<<c, k>>])
          PROVE  /\ Q2[<<c, k>>][i].kind = "change" => /\ Q2[<<c, k>>][i].seq \in Nat
                                                       /\ IsSeq(Q2[<<c, k>>][i].body)
                                                       /\ Range(Q2[<<c, k>>][i].body) \subseteq EditsBy(c, v)
                 /\ Q2[<<c, k>>][i].kind = "join" =>
                      Q2[<<c, k>>][i].epoch \in Nat /\ Q2[<<c, k>>][i].epoch <= D.epoch
      <3>1. \/ Q2[<<c, k>>][i].kind = "gone"
            \/ i \in 1 .. Len(Q[<<c, k>>]) /\ Q2[<<c, k>>][i] = Q[<<c, k>>][i] BY <1>1, <2>1
      <3>2. CASE Q2[<<c, k>>][i].kind = "gone" BY <3>2
      <3>3. CASE i \in 1 .. Len(Q[<<c, k>>]) /\ Q2[<<c, k>>][i] = Q[<<c, k>>][i] BY <1>0, <3>3 DEF Typed
      <3> QED BY <3>1, <3>2, <3>3
    <2> QED BY <1>0, <1>1, <1>3, <2>1 DEF Typed
  <1>5. ASSUME NEW k \in NumPipes, NEW i \in Nat, Live(c, D, Q2, k, i)
        PROVE  /\ Live(c, D, Q, k, i) /\ Q2[<<c, k>>][i] = Q[<<c, k>>][i]
               /\ 1 \in 1 .. Len(Q2[<<c, k>>]) /\ Q2[<<c, k>>][1] = Q[<<c, k>>][1]
    <2>1. i \in 1 .. Len(Q2[<<c, k>>]) /\ Q2[<<c, k>>][i].kind = "change" BY <1>5 DEF Live
    <2>2. CASE k = m BY <1>1, <1>5, <2>1, <2>2 DEF Live
    <2>3. CASE k # m
      <3>1. Q2[<<c, k>>] = Q[<<c, k>>] BY <1>1, <2>3
      <3>2. 1 \in 1 .. Len(Q2[<<c, k>>])
        <4> DEFINE l == Len(Q2[<<c, k>>])
        <4>1. i \in 1 .. l BY <2>1
        <4> HIDE DEF l
        <4> QED BY <4>1 DEF l
      <3> QED BY <1>5, <3>1, <3>2 DEF Live
    <2> QED BY <2>2, <2>3
  <1>6. FewerLives(c, v, D, Q, w, D, Q2)
    <2>1. ASSUME NEW k \in NumPipes PROVE LiveBefore(c, D, Q, D, Q2, k, 0)
      <3> SUFFICES ASSUME NEW i \in Nat, Live(c, D, Q2, k, i)
                   PROVE  Live(c, D, Q, k, i + 0) /\ Q2[<<c, k>>][i] = Q[<<c, k>>][i + 0] BY DEF LiveBefore
      <3>1. i + 0 = i OBVIOUS
      <3> QED BY <1>5, <3>1
    <2>2. 0 \in Nat OBVIOUS
    <2>3. SameEdits(c, v, D, w, D) BY <1>1, <1>3 DEF SameEdits
    <2> QED BY <1>1, <1>5, <2>1, <2>2, <2>3 DEF FewerLives
  <1>7. Relinked(c, v, D, Q, w, D, Q2)
    <2>1. \A i \in Nat : ~Live(c, D, Q2, w.pipe, i) BY <1>1 DEF Live
    <2> QED BY <1>1, <1>6, <2>1 DEF Relinked, In
  <1> QED BY <1>4, <1>7, RelinkedKeeps

----------------
(* A view that pulls. *)

\* A first frame with missed changes has those that follow what was given.
MissedRight(v, D, F) ==
  F # <<>> /\ Missed(F[1]) =>
    \E to \in Nat : /\ Len(v.seen) <= to /\ to <= Len(D.history)
                    /\ F[1].changes = SubSeq(D.history, Len(v.seen) + 1, to)

\* The changes x from place a to place b of H.
LEMMA PartFacts ==
  ASSUME NEW H, IsSeq(H), NEW a \in Nat, NEW b \in Nat, a <= b, b <= Len(H), NEW x, x = SubSeq(H, a + 1, b)
  PROVE  /\ IsSeq(x) /\ Len(x) = b - a /\ Len(x) \in Nat /\ a + Len(x) = b
         /\ \A j \in 1 .. Len(x) : x[j] = H[a + j] /\ a + j \in 1 .. b /\ a + j > a /\ a + j \in 1 .. Len(H)
  <1>1. IsSeq(x) /\ Len(x) = b - a /\ \A j \in 1 .. b - a : x[j] = H[a + j] BY PartSeq
  <1>2. Len(H) \in Nat BY WholeSeq
  <1> QED BY <1>1, <1>2

\* v pulls and is w after it; x is what it sends.
PullsTo(c, v, Q, w, x, Q2) ==
  /\ v.waitingSeq = Unset /\ v.pipe \in NumPipes /\ v.sent \o v.queued # <<>>
  /\ w.waitingSeq = v.lastSeq + 1 /\ w.lastSeq = v.lastSeq + 1
  /\ w.sent = Batch(v) /\ w.queued = (IF v.sent = <<>> THEN <<>> ELSE v.queued)
  /\ w.pipe = v.pipe /\ w.joined = v.joined /\ w.epoch = v.epoch /\ w.seen = v.seen
  /\ w.edits = v.edits /\ w.removed = v.removed
  /\ x.kind = "change" /\ x.seq = v.lastSeq + 1 /\ x.body = Batch(v)
  /\ IsSeq(Q[<<c, v.pipe>>]) /\ Q2[<<c, v.pipe>>] = Append(Q[<<c, v.pipe>>], x)
  /\ \A k \in NumPipes : k # v.pipe => Q2[<<c, k>>] = Q[<<c, k>>]

\* Joining nothing to a sequence, and nothing with nothing.
LEMMA BatchFacts ==
  ASSUME NEW v, IsSeq(v.sent), IsSeq(v.queued), v.sent \o v.queued # <<>>
  PROVE  /\ Batch(v) # <<>> /\ IsSeq(Batch(v))
         /\ v.sent # <<>> => Batch(v) = v.sent
         /\ v.sent = <<>> => Batch(v) = v.queued
  <1>1. IsSeq(Batch(v)) /\ (v.sent # <<>> => Batch(v) = v.sent) /\ (v.sent = <<>> => Batch(v) = v.queued)
    BY DEF Batch
  <1>2. v.sent = <<>> => v.queued # <<>>
    <2>1. <<>> \o <<>> = <<>> OBVIOUS
    <2> QED BY <2>1
  <1> QED BY <1>1, <1>2

LEMMA PullLawful ==
  ASSUME NEW c, NEW v, NEW D, NEW Q, NEW F, NEW w, NEW x, NEW Q2,
         PullsTo(c, v, Q, w, x, Q2), Lawful(c, v, D, Q, F)
  PROVE  Lawful(c, w, D, Q2, F)
  <1>0. Typed(c, v, D, Q) /\ Alone(c, D) /\ Entered(c, v, D, F) /\ Counted(c, v, D) BY DEF Lawful
  <1>1. /\ v.waitingSeq = Unset /\ v.pipe \in NumPipes /\ v.sent \o v.queued # <<>>
        /\ w.waitingSeq = v.lastSeq + 1 /\ w.lastSeq = v.lastSeq + 1
        /\ w.sent = Batch(v) /\ w.queued = (IF v.sent = <<>> THEN <<>> ELSE v.queued)
        /\ w.pipe = v.pipe /\ w.joined = v.joined /\ w.edits = v.edits
        /\ x.kind = "change" /\ x.seq = v.lastSeq + 1 /\ x.body = Batch(v)
        /\ IsSeq(Q[<<c, v.pipe>>]) /\ Q2[<<c, v.pipe>>] = Append(Q[<<c, v.pipe>>], x)
        /\ \A k \in NumPipes : k # v.pipe => Q2[<<c, k>>] = Q[<<c, k>>] BY DEF PullsTo
  <1>2. /\ IsSeq(v.sent) /\ IsSeq(v.queued) /\ Range(v.sent) \subseteq EditsBy(c, v)
        /\ Range(v.queued) \subseteq EditsBy(c, v) /\ v.lastSeq \in Nat BY <1>0 DEF Typed
  <1>3. /\ Batch(v) # <<>> /\ IsSeq(Batch(v)) /\ Range(Batch(v)) \subseteq EditsBy(c, v)
    <2>1. /\ Batch(v) # <<>> /\ IsSeq(Batch(v))
          /\ v.sent # <<>> => Batch(v) = v.sent
          /\ v.sent = <<>> => Batch(v) = v.queued BY <1>1, <1>2, BatchFacts
    <2> QED BY <1>2, <2>1
  <1>4. EditsBy(c, w) = EditsBy(c, v) BY <1>1 DEF EditsBy
  <1>5. IsSeq(w.queued) /\ Range(w.queued) \subseteq EditsBy(c, v)
    <2>1. IsSeq(<<>>) BY DEF IsSeq
    <2> QED BY <1>1, <1>2, <2>1, EmptyRange
  <1>6. Typed(c, w, D, Q2)
    <2>1. ASSUME NEW k \in NumPipes, NEW i \in Nat, i \in 1 .. Len(Q2[<<c, k>>])
          PROVE  /\ Q2[<<c, k>>][i].kind = "change" => /\ Q2[<<c, k>>][i].seq \in Nat
                                                       /\ IsSeq(Q2[<<c, k>>][i].body)
                                                       /\ Range(Q2[<<c, k>>][i].body) \subseteq EditsBy(c, v)
                 /\ Q2[<<c, k>>][i].kind = "join" =>
                      Q2[<<c, k>>][i].epoch \in Nat /\ Q2[<<c, k>>][i].epoch <= D.epoch
      <3>1. CASE i \in 1 .. Len(Q[<<c, k>>]) /\ Q2[<<c, k>>][i] = Q[<<c, k>>][i] BY <1>0, <3>1 DEF Typed
      <3>2. CASE Q2[<<c, k>>][i] = x BY <1>1, <1>2, <1>3, <3>2
      <3>3. \/ i \in 1 .. Len(Q[<<c, k>>]) /\ Q2[<<c, k>>][i] = Q[<<c, k>>][i]
            \/ Q2[<<c, k>>][i] = x
        <4>1. CASE k = v.pipe
          <5> DEFINE q == Q[<<c, k>>]
          <5>1. IsSeq(q) /\ Q2[<<c, k>>] = Append(q, x) /\ i \in 1 .. Len(Append(q, x)) BY <1>1, <2>1, <4>1
          <5> HIDE DEF q
          <5>2. \/ i \in 1 .. Len(q) /\ Append(q, x)[i] = q[i]
                \/ Append(q, x)[i] = x BY <5>1, OneMoreFrame
          <5> QED BY <5>1, <5>2 DEF q
        <4>2. CASE k # v.pipe BY <1>1, <2>1, <4>2
        <4> QED BY <4>1, <4>2
      <3> QED BY <3>1, <3>2, <3>3
    <2>2. v.edits \in Nat /\ D.seqs[c] \in Nat /\ v.lastSeq + 1 \in Nat BY <1>0, <1>2 DEF Typed
    <2> QED BY <1>1, <1>3, <1>4, <1>5, <2>1, <2>2 DEF Typed
  <1>7. Entered(c, w, D, F) BY <1>0, <1>1 DEF Entered
  <1>8. Counted(c, w, D) BY <1>0, <1>4 DEF Counted
  <1> QED BY <1>0, <1>6, <1>7, <1>8 DEF Lawful

LEMMA PullKept ==
  ASSUME NEW c, NEW v, NEW D, NEW Q, NEW F, NEW w, NEW x, NEW Q2,
         PullsTo(c, v, Q, w, x, Q2), Lawful(c, v, D, Q, F), Kept(c, v, D, Q, F),
         Given(v, D), MissedRight(v, D, F), v.joined \/ v.sent = <<>>,
         Waits(c, D, v.pipe) => Q[<<c, v.pipe>>] # <<>> /\ Q[<<c, v.pipe>>][1] = JoinOf(v)
  PROVE  Kept(c, w, D, Q2, F)
  <1>0. Typed(c, v, D, Q) /\ Entered(c, v, D, F) BY DEF Lawful
  <1>k. /\ HeldOnce(c, v, D) /\ OnePending(c, v, D)
        /\ LiveSent(c, v, D, Q) /\ LiveOnce(c, D, Q) /\ Behind(c, v, D, Q)
        /\ NextLive(c, v, D, Q, F) /\ SeqKnown(c, v, D, F) /\ Awaited(c, v, D, Q, F)
        /\ Early(c, v, D, Q, F) /\ Settled(c, v, D, F) BY DEF Kept
  <1>1. /\ v.waitingSeq = Unset /\ v.pipe \in NumPipes /\ v.sent \o v.queued # <<>>
        /\ w.waitingSeq = v.lastSeq + 1 /\ w.lastSeq = v.lastSeq + 1
        /\ w.sent = Batch(v) /\ w.queued = (IF v.sent = <<>> THEN <<>> ELSE v.queued)
        /\ w.pipe = v.pipe /\ w.joined = v.joined /\ w.edits = v.edits /\ w.epoch = v.epoch
        /\ w.seen = v.seen /\ w.removed = v.removed
        /\ x.kind = "change" /\ x.seq = v.lastSeq + 1 /\ x.body = Batch(v)
        /\ IsSeq(Q[<<c, v.pipe>>]) /\ Q2[<<c, v.pipe>>] = Append(Q[<<c, v.pipe>>], x)
        /\ \A k \in NumPipes : k # v.pipe => Q2[<<c, k>>] = Q[<<c, k>>] BY DEF PullsTo
  <1>2. /\ IsSeq(v.sent) /\ IsSeq(v.queued) /\ v.lastSeq \in Nat /\ D.seqs[c] \in Nat
        /\ v.lastSeq + 1 \in Nat /\ v.lastSeq + 1 # Unset BY <1>0 DEF Typed, Unset
  <1>3. /\ Batch(v) # <<>>
        /\ v.sent # <<>> => Batch(v) = v.sent
        /\ v.sent = <<>> => Batch(v) = v.queued BY <1>1, <1>2, BatchFacts
  <1>4. Pending(c, w, D) = Pending(c, v, D) /\ EditsBy(c, w) = EditsBy(c, v) BY <1>1 DEF Pending, EditsBy
  <1>5. Range(w.sent) \cup Range(w.queued) = Range(v.sent) \cup Range(v.queued) BY <1>1, <1>3, EmptyRange
  \* Nothing of a view that sent nothing is on the way.
  <1>6. v.sent = <<>> => Pending(c, v, D) = {} /\ \A k \in NumPipes, i \in Nat : ~Live(c, D, Q, k, i)
    BY <1>k DEF OnePending, LiveSent, Unplaced, Carries
  <1>7. Waits(c, D, v.pipe) => ~v.joined /\ F = <<>> /\ v.sent = <<>> BY <1>0 DEF Entered
  <1>8. On(c, D, v.pipe) => Pending(c, v, D) = {}
    <2>1. v.joined /\ On(c, D, v.pipe) => In(c, D, v.pipe) BY <1>0 DEF Entered, In, Waits
    <2> QED BY <1>1, <1>6, <1>k, <2>1 DEF Settled
  \* Nothing lives on the pipe yet.
  <1>9. \A i \in Nat : ~Live(c, D, Q, v.pipe, i)
    <2> SUFFICES ASSUME NEW i \in Nat, Live(c, D, Q, v.pipe, i) PROVE FALSE OBVIOUS
    <2>1. v.pipe # Unset BY <1>1 DEF NumPipes, Unset
    <2>2. Q[<<c, v.pipe>>][i].seq = 0 BY <1>1, <1>k, <2>1 DEF Awaited, Unset
    <2>3. Q[<<c, v.pipe>>][i].seq > D.seqs[c] BY DEF Live
    <2> QED BY <1>2, <2>2, <2>3
  \* What lives then: what did, and perhaps the new one.
  <1>10. ASSUME NEW k \in NumPipes, NEW i \in Nat, Live(c, D, Q2, k, i)
         PROVE  \/ k # v.pipe /\ Q2[<<c, k>>] = Q[<<c, k>>] /\ Live(c, D, Q, k, i)
                \/ k = v.pipe /\ On(c, D, v.pipe) /\ Q2[<<c, k>>][i] = x /\ i = Len(Q[<<c, v.pipe>>]) + 1
    <2>1. CASE k # v.pipe
      <3>1. Q2[<<c, k>>] = Q[<<c, k>>] BY <1>1, <2>1
      <3> QED BY <1>10, <2>1, <3>1 DEF Live
    <2>2. CASE k = v.pipe
      <3> DEFINE q == Q[<<c, v.pipe>>]
      <3>1. IsSeq(q) /\ Q2[<<c, k>>] = Append(q, x) BY <1>1, <2>2
      <3>2. /\ On(c, D, v.pipe) /\ i \in 1 .. Len(Append(q, x)) /\ Append(q, x)[i].kind = "change"
            /\ Append(q, x)[i].seq > D.seqs[c] BY <1>10, <2>2, <3>1 DEF Live
      <3>3. i \notin 1 .. Len(q)
        <4> SUFFICES ASSUME i \in 1 .. Len(q) PROVE FALSE OBVIOUS
        <4>1. Append(q, x)[i] = q[i]
          <5> HIDE DEF q
          <5> QED BY <3>1, OneMoreFrame
        <4>2. Live(c, D, Q, v.pipe, i) BY <3>2, <4>1 DEF Live
        <4> QED BY <1>9, <4>2
      <3> HIDE DEF q
      <3>4. i = Len(q) + 1 /\ Append(q, x)[i] = x BY <3>1, <3>2, <3>3, OneMoreFrame
      <3> QED BY <2>2, <3>1, <3>2, <3>4 DEF q
    <2> QED BY <2>1, <2>2
  <1>11. HeldOnce(c, w, D)
    <2>1. \A e \in EditsBy(c, w) : \/ e \in Range(w.sent) \cup Range(w.queued) \cup w.removed
                                   \/ \E j \in Made(c, D) : e \in Range(D.history[j].body)
      BY <1>1, <1>4, <1>5, <1>k DEF HeldOnce
    <2>2. Range(w.sent) \cap Range(w.queued) = {} BY <1>1, <1>3, <1>k, EmptyRange DEF HeldOnce
    <2>3. ASSUME NEW j \in Made(c, D)
          PROVE  /\ Range(D.history[j].body) \cap Range(w.queued) = {}
                 /\ j \notin Pending(c, w, D) => Range(D.history[j].body) \cap Range(w.sent) = {}
      <3>1. /\ Range(D.history[j].body) \cap Range(v.queued) = {}
            /\ j \notin Pending(c, v, D) => Range(D.history[j].body) \cap Range(v.sent) = {}
        BY <1>k DEF HeldOnce
      <3> QED BY <1>1, <1>3, <1>4, <3>1, EmptyRange
    <2> QED BY <1>k, <2>1, <2>2, <2>3 DEF HeldOnce
  <1>12. OnePending(c, w, D) BY <1>1, <1>3, <1>4, <1>6, <1>k DEF OnePending, Carries
  <1>13. LiveSent(c, w, D, Q2)
    <2> SUFFICES ASSUME NEW k \in NumPipes, NEW i \in Nat, Live(c, D, Q2, k, i)
                 PROVE  Pending(c, w, D) = {} /\ Unplaced(c, w, D, Q2[<<c, k>>][i].body) BY DEF LiveSent
    <2>1. CASE Q2[<<c, k>>] = Q[<<c, k>>] /\ Live(c, D, Q, k, i)
      <3>1. Pending(c, v, D) = {} /\ Unplaced(c, v, D, Q2[<<c, k>>][i].body) BY <1>k, <2>1 DEF LiveSent
      <3>2. SameEdits(c, v, D, w, D) BY <1>1, <1>3, <1>4, <3>1 DEF SameEdits, Unplaced, Carries
      <3> QED BY <1>4, <3>1, <3>2, UnplacedCarries
    <2>2. CASE On(c, D, v.pipe) /\ Q2[<<c, k>>][i] = x
      <3>1. Pending(c, w, D) = {} /\ w.sent # <<>> /\ x.body = w.sent BY <1>1, <1>3, <1>4, <1>8, <2>2
      <3> QED BY <1>11, <2>2, <3>1 DEF Unplaced, Carries, HeldOnce
    <2> QED BY <1>10, <2>1, <2>2
  <1>14. LiveOnce(c, D, Q2)
    <2> SUFFICES ASSUME NEW k \in NumPipes, NEW i \in Nat, NEW j \in Nat,
                        Live(c, D, Q2, k, i), Live(c, D, Q2, k, j)
                 PROVE  i = j BY DEF LiveOnce
    <2>1. CASE k # v.pipe
      <3>1. Live(c, D, Q, k, i) /\ Live(c, D, Q, k, j) BY <1>10, <2>1
      <3> QED BY <1>k, <3>1 DEF LiveOnce
    <2>2. CASE k = v.pipe
      <3>1. i = Len(Q[<<c, v.pipe>>]) + 1 /\ j = Len(Q[<<c, v.pipe>>]) + 1 BY <1>10, <2>2
      <3> QED BY <3>1
    <2> QED BY <2>1, <2>2
  <1>15. Behind(c, w, D, Q2)
    <2> SUFFICES ASSUME NEW n \in NumPipes, NEW i \in Nat, Waits(c, D, n), Live(c, D, Q2, n, i)
                 PROVE  /\ Q2[<<c, n>>][1].kind = "join" /\ 1 \in 1 .. Len(Q2[<<c, n>>])
                        /\ Q2[<<c, n>>][1].epoch = D.epoch => Q2[<<c, n>>][i].seq <= D.seqs[c] + 1
                        /\ v.epoch = 0 \/ Q2[<<c, n>>][1].epoch = v.epoch
                        /\ \/ Q2[<<c, n>>][i].seq = D.seqs[c] + 1
                           \/ \A m \in NumPipes, j \in Nat : Live(c, D, Q2, m, j) => m = n BY <1>1 DEF Behind
    <2>1. CASE n = v.pipe
      <3> DEFINE q == Q[<<c, n>>]
      <3>1. IsSeq(q) /\ q # <<>> /\ q[1] = JoinOf(v) /\ Q2[<<c, n>>] = Append(q, x) BY <1>1, <2>1
      <3>2. Q2[<<c, n>>][i] = x BY <1>10, <2>1
      <3> HIDE DEF q
      <3>3. Q2[<<c, n>>][1] = JoinOf(v) /\ 1 \in 1 .. Len(Q2[<<c, n>>])
        <4>1. 1 \in 1 .. Len(q) /\ Append(q, x)[1] = q[1] /\ 1 \in 1 .. Len(Append(q, x))
          BY <3>1, OneMoreFrame
        <4> QED BY <3>1, <4>1
      <3>4. JoinOf(v).kind = "join" /\ JoinOf(v).epoch = v.epoch BY DEF JoinOf
      <3>5. v.epoch = D.epoch => v.lastSeq + 1 <= D.seqs[c] + 1
        <4>1. v.sent = <<>> BY <1>7, <2>1
        <4>2. v.epoch = D.epoch => v.lastSeq <= D.seqs[c] BY <1>k, <4>1 DEF SeqKnown
        <4> QED BY <1>2, <4>2
      <3>6. \A m \in NumPipes, j \in Nat : Live(c, D, Q2, m, j) => m = n BY <1>6, <1>7, <1>10, <2>1
      <3> QED BY <1>1, <3>2, <3>3, <3>4, <3>5, <3>6
    <2>2. CASE n # v.pipe
      <3>1. Q2[<<c, n>>] = Q[<<c, n>>] /\ Live(c, D, Q, n, i) BY <1>10, <2>2
      <3>2. /\ Q[<<c, n>>][1].kind = "join" /\ 1 \in 1 .. Len(Q[<<c, n>>])
            /\ Q[<<c, n>>][1].epoch = D.epoch => Q[<<c, n>>][i].seq <= D.seqs[c] + 1
            /\ v.epoch = 0 \/ Q[<<c, n>>][1].epoch = v.epoch
            /\ \/ Q[<<c, n>>][i].seq = D.seqs[c] + 1
               \/ \A m \in NumPipes, j \in Nat : Live(c, D, Q, m, j) => m = n BY <1>k, <3>1 DEF Behind
      <3>3. \/ Q[<<c, n>>][i].seq = D.seqs[c] + 1
            \/ \A m \in NumPipes, j \in Nat : Live(c, D, Q2, m, j) => m = n
        <4>1. CASE On(c, D, v.pipe)
          <5>1. v.joined BY <1>6, <3>1
          <5>2. Q[<<c, n>>][i].seq = D.seqs[c] + 1 BY <1>k, <3>1, <4>1, <5>1 DEF NextLive
          <5> QED BY <5>2
        <4>2. CASE ~On(c, D, v.pipe)
          <5>1. \A m \in NumPipes, j \in Nat : Live(c, D, Q2, m, j) => Live(c, D, Q, m, j) BY <1>10, <4>2
          <5> QED BY <3>2, <5>1
        <4> QED BY <4>1, <4>2
      <3> QED BY <3>1, <3>2, <3>3
    <2> QED BY <2>1, <2>2
  <1>16. NextLive(c, w, D, Q2, F)
    <2> SUFFICES ASSUME On(c, D, v.pipe), v.joined \/ (F # <<>> /\ Missed(F[1])),
                        NEW n \in NumPipes, NEW i \in Nat, Waits(c, D, n), Live(c, D, Q2, n, i)
                 PROVE  Q2[<<c, n>>][i].seq = D.seqs[c] + 1 BY <1>1 DEF NextLive
    <2>1. n # v.pipe BY <1>7
    <2>2. Q2[<<c, n>>] = Q[<<c, n>>] /\ Live(c, D, Q, n, i) BY <1>10, <2>1
    <2> QED BY <1>k, <2>2 DEF NextLive
  <1>17. \A i \in 1 .. Len(F) : ~Answers(c, F[i]) BY <1>1, <1>k DEF Awaited
  <1>18. SeqKnown(c, w, D, F) BY <1>1, <1>3, <1>17 DEF SeqKnown, Answers
  <1>19. Awaited(c, w, D, Q2, F)
    <2>1. \A i \in Nat : Live(c, D, Q2, v.pipe, i) => Q2[<<c, v.pipe>>][i] = x BY <1>1, <1>10
    <2>2. v.lastSeq + 1 <= v.lastSeq + 1 BY <1>2
    <2> QED BY <1>1, <1>3, <1>17, <2>1, <2>2 DEF Awaited
  <1>20. Early(c, w, D, Q2, F)
    <2>1. Waits(c, D, v.pipe) => /\ Pending(c, w, D) = {}
                                 /\ \A n \in NumPipes, i \in Nat : Live(c, D, Q2, n, i) => n = v.pipe
      BY <1>4, <1>6, <1>7, <1>10
    <2>2. ASSUME F # <<>>, Missed(F[1]), NEW j \in 1 .. Len(F[1].changes) PROVE F[1].changes[j].by # c
      <3>1. v.sent = <<>>
        <4>1. F[1].kind = "joined" BY <2>2 DEF Missed
        <4>2. v.joined => \A i \in 1 .. Len(F) : F[i].kind # "joined" BY <1>0 DEF Entered
        <4>3. 1 \in 1 .. Len(F) \/ ~v.joined BY <1>0, <2>2, <4>1 DEF Entered
        <4> QED BY <4>1, <4>2, <4>3
      <3>2. Pending(c, v, D) = {} BY <1>6, <3>1
      <3>3. PICK to \in Nat : /\ Len(v.seen) <= to /\ to <= Len(D.history)
                              /\ F[1].changes = SubSeq(D.history, Len(v.seen) + 1, to) BY <2>2 DEF MissedRight
      <3> DEFINE H == D.history
                 a == Len(v.seen)
                 y == F[1].changes
      <3>4. IsSeq(H) /\ a \in Nat /\ a <= to /\ to <= Len(H) /\ y = SubSeq(H, a + 1, to) /\ j \in 1 .. Len(y)
        BY <2>2, <3>3 DEF Given
      <3> HIDE DEF H, a, y
      <3>5. y[j] = H[a + j] /\ a + j > a /\ a + j \in 1 .. Len(H) BY <3>4, PartFacts
      <3> QED BY <3>2, <3>5 DEF H, a, y, Pending, Made
    <2> QED BY <1>1, <2>1, <2>2 DEF Early
  <1>21. Settled(c, w, D, F) BY <1>1, <1>2 DEF Settled
  <1> QED BY <1>11, <1>12, <1>13, <1>14, <1>15, <1>16, <1>18, <1>19, <1>20, <1>21 DEF Kept

----------------
(* A view that handles a frame. *)

\* What the pipes of client c carry was on them, or is a join that asks for
\* a snapshot.
QueuesMore(c, Q, Q2) ==
  \A n \in NumPipes, i \in Nat : i \in 1 .. Len(Q2[<<c, n>>]) =>
    \/ \E j \in Nat : j \in 1 .. Len(Q[<<c, n>>]) /\ Q2[<<c, n>>][i] = Q[<<c, n>>][j]
    \/ Q2[<<c, n>>][i].kind = "join" /\ Q2[<<c, n>>][i].epoch = 0

\* What was queued in v still is, or was removed; so is what was sent.
QueuedLeft(v, w) ==
  /\ v.removed \subseteq w.removed /\ IsSeq(w.queued) /\ Range(w.queued) \subseteq Range(v.queued)
  /\ Range(v.queued) \subseteq Range(w.queued) \cup w.removed
SentLeft(v, w) ==
  /\ IsSeq(w.sent) /\ Range(w.sent) \subseteq Range(v.sent)
  /\ Range(v.sent) \subseteq Range(w.sent) \cup w.removed

\* w is view v after the first frame of F.
Took(c, v, D, Q, F, w, Q2) ==
  /\ IsSeq(F) /\ F # <<>> /\ v.pipe # Unset /\ D.epoch \in Nat /\ D.epoch # 0
  /\ w.pipe = v.pipe /\ w.joined = TRUE /\ w.edits = v.edits /\ QueuedLeft(v, w)
  /\ IsSeq(w.sent) /\ Range(w.sent) \subseteq Range(v.sent) /\ w.waitingSeq \in {v.waitingSeq, Unset} /\ w.lastSeq \in Nat
  /\ QueuesMore(c, Q, Q2)

\* The frames after the first one are no joins.
LEMMA TookFrames ==
  ASSUME NEW c, NEW v, NEW D, NEW Q, NEW F, NEW w, NEW Q2, Took(c, v, D, Q, F, w, Q2), Entered(c, v, D, F)
  PROVE  /\ \A i \in Nat : i \in 1 .. Len(Tail(F)) => /\ i + 1 \in 1 .. Len(F) /\ Tail(F)[i] = F[i + 1]
                                                     /\ i + 1 # 1 /\ F[i + 1].kind # "joined"
         /\ 1 \in 1 .. Len(F) /\ ~Waits(c, D, v.pipe) /\ Len(Tail(F)) \in Nat
         /\ ~(Tail(F) # <<>> /\ Missed(Tail(F)[1]))
  <1>1. IsSeq(F) /\ F # <<>> BY DEF Took
  <1>2. /\ \A i \in Nat : i \in 1 .. Len(Tail(F)) =>
             i + 1 \in 1 .. Len(F) /\ Tail(F)[i] = F[i + 1] /\ i + 1 \in Nat /\ i + 1 # 1
        /\ IsSeq(Tail(F)) /\ 1 \in 1 .. Len(F) BY <1>1, Shifted
  <1>3. \A i \in 1 .. Len(F) : i # 1 => F[i].kind # "joined" BY DEF Entered
  <1>4. Tail(F) # <<>> => 1 \in 1 .. Len(Tail(F)) BY <1>2, OneMoreFrame
  <1>5. Len(Tail(F)) \in Nat BY <1>2, WholeSeq
  <1>6. ~Waits(c, D, v.pipe) BY <1>1 DEF Entered
  <1>7. ~(Tail(F) # <<>> /\ Missed(Tail(F)[1])) BY <1>2, <1>3, <1>4 DEF Missed
  <1> QED BY <1>2, <1>3, <1>5, <1>6, <1>7

LEMMA TookLawful ==
  ASSUME NEW c, NEW v, NEW D, NEW Q, NEW F, NEW w, NEW Q2, Took(c, v, D, Q, F, w, Q2), Lawful(c, v, D, Q, F)
  PROVE  Lawful(c, w, D, Q2, Tail(F))
  <1>0. Typed(c, v, D, Q) /\ Alone(c, D) /\ Entered(c, v, D, F) /\ Counted(c, v, D) BY DEF Lawful
  <1>1. /\ v.pipe # Unset /\ D.epoch \in Nat
        /\ w.pipe = v.pipe /\ w.joined = TRUE /\ w.edits = v.edits
        /\ IsSeq(w.queued) /\ Range(w.queued) \subseteq Range(v.queued)
        /\ IsSeq(w.sent) /\ Range(w.sent) \subseteq Range(v.sent) /\ w.waitingSeq \in {v.waitingSeq, Unset} /\ w.lastSeq \in Nat
        /\ QueuesMore(c, Q, Q2) BY DEF Took, QueuedLeft
  <1>2. EditsBy(c, w) = EditsBy(c, v) BY <1>1 DEF EditsBy
  <1>3. Typed(c, w, D, Q2)
    <2>1. ASSUME NEW n \in NumPipes, NEW i \in Nat, i \in 1 .. Len(Q2[<<c, n>>])
          PROVE  /\ Q2[<<c, n>>][i].kind = "change" => /\ Q2[<<c, n>>][i].seq \in Nat
                                                       /\ IsSeq(Q2[<<c, n>>][i].body)
                                                       /\ Range(Q2[<<c, n>>][i].body) \subseteq EditsBy(c, v)
                 /\ Q2[<<c, n>>][i].kind = "join" =>
                      Q2[<<c, n>>][i].epoch \in Nat /\ Q2[<<c, n>>][i].epoch <= D.epoch
      <3>1. \/ \E j \in Nat : j \in 1 .. Len(Q[<<c, n>>]) /\ Q2[<<c, n>>][i] = Q[<<c, n>>][j]
            \/ Q2[<<c, n>>][i].kind = "join" /\ Q2[<<c, n>>][i].epoch = 0 BY <1>1, <2>1 DEF QueuesMore
      <3>2. CASE Q2[<<c, n>>][i].kind = "join" /\ Q2[<<c, n>>][i].epoch = 0 BY <1>1, <3>2
      <3>3. ASSUME NEW j \in Nat, j \in 1 .. Len(Q[<<c, n>>]), Q2[<<c, n>>][i] = Q[<<c, n>>][j]
            PROVE  /\ Q2[<<c, n>>][i].kind = "change" => /\ Q2[<<c, n>>][i].seq \in Nat
                                                         /\ IsSeq(Q2[<<c, n>>][i].body)
                                                         /\ Range(Q2[<<c, n>>][i].body) \subseteq EditsBy(c, v)
                   /\ Q2[<<c, n>>][i].kind = "join" =>
                        Q2[<<c, n>>][i].epoch \in Nat /\ Q2[<<c, n>>][i].epoch <= D.epoch
        BY <1>0, <3>3 DEF Typed
      <3> QED BY <3>1, <3>2, <3>3
    <2>3. /\ IsSeq(w.sent) /\ Range(w.sent) \subseteq EditsBy(c, v)
          /\ IsSeq(w.queued) /\ Range(w.queued) \subseteq EditsBy(c, v) BY <1>0, <1>1 DEF Typed
    <2>4. w.waitingSeq \in Nat BY <1>0, <1>1 DEF Typed, Unset
    <2> QED BY <1>0, <1>1, <1>2, <2>1, <2>3, <2>4 DEF Typed
  <1>4. Entered(c, w, D, Tail(F))
    <2>1. /\ \A i \in Nat : i \in 1 .. Len(Tail(F)) => Tail(F)[i].kind # "joined"
          /\ ~Waits(c, D, v.pipe) /\ Len(Tail(F)) \in Nat BY <1>0, TookFrames
    <2>2. \A i \in 1 .. Len(Tail(F)) : i \in Nat BY <2>1
    <2> QED BY <1>1, <2>1, <2>2 DEF Entered
  <1>5. Counted(c, w, D) BY <1>0, <1>2 DEF Counted
  <1> QED BY <1>0, <1>3, <1>4, <1>5 DEF Lawful

\* The frame leaves the batch that was sent: it answers nothing, or refuses
\* the batch, or brings missed changes and none of the client's own.
Read(c, v, D, Q, F, w, Q2) ==
  /\ Took(c, v, D, Q, F, w, Q2) /\ w.sent = v.sent /\ FewerLives(c, v, D, Q, w, D, Q2)
  /\ \/ /\ ~Answers(c, F[1]) /\ v.joined
        /\ w.waitingSeq = v.waitingSeq /\ w.lastSeq = v.lastSeq /\ w.epoch = v.epoch
     \/ /\ F[1].kind = "refused" /\ v.joined
        /\ w.waitingSeq = Unset /\ w.lastSeq = v.lastSeq /\ w.epoch \in {v.epoch, 0}
     \/ /\ Missed(F[1]) /\ w.waitingSeq = v.waitingSeq /\ w.lastSeq = F[1].seq /\ w.epoch = F[1].epoch
        /\ Len(w.seen) = Len(v.seen) + Len(F[1].changes) /\ Len(w.seen) \in Nat

LEMMA ReadKept ==
  ASSUME NEW c, NEW v, NEW D, NEW Q, NEW F, NEW w, NEW Q2,
         Read(c, v, D, Q, F, w, Q2), PipeRight(c, v, D), Lawful(c, v, D, Q, F), Kept(c, v, D, Q, F)
  PROVE  Kept(c, w, D, Q2, Tail(F))
  <1>0. Typed(c, v, D, Q) /\ Entered(c, v, D, F) BY DEF Lawful
  <1>k. /\ HeldOnce(c, v, D) /\ OnePending(c, v, D)
        /\ LiveSent(c, v, D, Q) /\ LiveOnce(c, D, Q) /\ Behind(c, v, D, Q)
        /\ NextLive(c, v, D, Q, F) /\ SeqKnown(c, v, D, F) /\ Awaited(c, v, D, Q, F)
        /\ Early(c, v, D, Q, F) /\ Settled(c, v, D, F) BY DEF Kept
  <1>1. /\ Took(c, v, D, Q, F, w, Q2) /\ w.sent = v.sent /\ FewerLives(c, v, D, Q, w, D, Q2)
        /\ SameEdits(c, v, D, w, D) /\ Pending(c, w, D) = Pending(c, v, D) BY DEF Read, FewerLives, SameEdits
  <1>2. /\ v.pipe # Unset /\ D.epoch # 0 /\ F # <<>>
        /\ w.pipe = v.pipe /\ w.joined = TRUE /\ w.edits = v.edits
        /\ w.waitingSeq \in {v.waitingSeq, Unset} BY <1>1 DEF Took
  <1>3. /\ \A i \in Nat : i \in 1 .. Len(Tail(F)) => /\ i + 1 \in 1 .. Len(F) /\ Tail(F)[i] = F[i + 1]
                                                    /\ i + 1 # 1 /\ F[i + 1].kind # "joined"
        /\ 1 \in 1 .. Len(F) /\ ~Waits(c, D, v.pipe) /\ Len(Tail(F)) \in Nat
        /\ ~(Tail(F) # <<>> /\ Missed(Tail(F)[1])) BY <1>0, <1>1, TookFrames
  <1>n. \A i \in 1 .. Len(Tail(F)) : i \in Nat /\ i + 1 \in 1 .. Len(F) /\ Tail(F)[i] = F[i + 1] /\ i + 1 # 1
    BY <1>3
  <1>p. v.pipe \in NumPipes BY <1>2 DEF PipeRight
  <1>4. HeldOnce(c, w, D) /\ OnePending(c, w, D) BY <1>1, <1>k, HeldCarries
  <1>5. LiveSent(c, w, D, Q2) /\ LiveOnce(c, D, Q2) /\ Behind(c, w, D, Q2) BY <1>k, <1>1, LivesCarry
  <1>6. NextLive(c, w, D, Q2, Tail(F))
    <2> SUFFICES ASSUME On(c, D, v.pipe), NEW n \in NumPipes, NEW i \in Nat,
                        Waits(c, D, n), Live(c, D, Q2, n, i)
                 PROVE  Q2[<<c, n>>][i].seq = D.seqs[c] + 1 BY <1>2 DEF NextLive
    <2>1. PICK j \in Nat : Live(c, D, Q, n, j) /\ Q2[<<c, n>>][i] = Q[<<c, n>>][j] BY <1>1, WasLive
    <2>2. v.joined \/ Missed(F[1]) BY DEF Read
    <2> QED BY <1>k, <1>2, <2>1, <2>2 DEF NextLive
  \* An answer that is on its way still.
  <1>7. ASSUME NEW i \in 1 .. Len(Tail(F)), Answers(c, Tail(F)[i])
        PROVE  F[1].kind # "refused" /\ w.waitingSeq = v.waitingSeq /\ i + 1 \in 1 .. Len(F)
               /\ Tail(F)[i] = F[i + 1] /\ Answers(c, F[i + 1])
    <2>1. i + 1 \in 1 .. Len(F) /\ Tail(F)[i] = F[i + 1] /\ i + 1 # 1 BY <1>n
    <2>2. ~Answers(c, F[1]) BY <1>3, <1>7, <1>k, <2>1 DEF Awaited
    <2>3. F[1].kind # "refused" BY <2>2 DEF Answers
    <2> QED BY <1>7, <2>1, <2>3 DEF Read
  <1>8. SeqKnown(c, w, D, Tail(F))
    <2> SUFFICES ASSUME w.epoch = D.epoch, v.sent = <<>> \/ \E i \in 1 .. Len(Tail(F)) : Own(c, Tail(F)[i])
                 PROVE  w.lastSeq <= D.seqs[c] BY <1>1 DEF SeqKnown
    <2>1. CASE Missed(F[1]) /\ w.lastSeq = F[1].seq /\ w.epoch = F[1].epoch
      <3>1. F[1].kind = "joined" /\ F[1].epoch = D.epoch BY <2>1 DEF Missed
      <3> QED BY <1>0, <1>3, <2>1, <3>1 DEF Entered
    <2>2. CASE w.lastSeq = v.lastSeq /\ w.epoch \in {v.epoch, 0}
      <3>1. v.epoch = D.epoch BY <1>2, <2>2
      <3>2. v.sent = <<>> \/ \E i \in 1 .. Len(F) : Own(c, F[i]) BY <1>7 DEF Answers
      <3> QED BY <1>k, <2>2, <3>1, <3>2 DEF SeqKnown
    <2> QED BY <2>1, <2>2 DEF Read
  <1>9. Awaited(c, w, D, Q2, Tail(F))
    <2>1. v.sent = <<>> => w.waitingSeq = Unset BY <1>2, <1>k DEF Awaited
    <2>2. ASSUME NEW i \in Nat, Live(c, D, Q2, v.pipe, i)
          PROVE  Q2[<<c, v.pipe>>][i].seq = w.waitingSeq /\ w.lastSeq <= w.waitingSeq
      <3>1. PICK j \in Nat : Live(c, D, Q, v.pipe, j) /\ Q2[<<c, v.pipe>>][i] = Q[<<c, v.pipe>>][j]
        BY <1>1, <1>p, <2>2, WasLive
      <3>2. Q[<<c, v.pipe>>][j].seq = v.waitingSeq /\ v.lastSeq <= v.waitingSeq
        BY <1>2, <1>k, <3>1 DEF Awaited
      <3>3. F[1].kind # "refused"
        <4>1. ~Answers(c, F[1]) BY <1>3, <1>k, <3>1 DEF Awaited
        <4> QED BY <4>1 DEF Answers
      <3>4. CASE Missed(F[1]) /\ w.waitingSeq = v.waitingSeq /\ w.lastSeq = F[1].seq
        <4>1. F[1].seq \in Nat /\ F[1].seq <= D.seqs[c] BY <1>0, <1>3, <3>1, <3>4 DEF Entered, Live, Missed
        <4>2. Q[<<c, v.pipe>>][j].seq > D.seqs[c] BY <3>1 DEF Live
        <4>3. D.seqs[c] \in Nat /\ v.waitingSeq \in Nat BY <1>0 DEF Typed
        <4> QED BY <3>1, <3>2, <3>4, <4>1, <4>2, <4>3
      <3>5. CASE w.waitingSeq = v.waitingSeq /\ w.lastSeq = v.lastSeq BY <3>1, <3>2, <3>5
      <3> QED BY <3>3, <3>4, <3>5 DEF Read
    <2>3. ASSUME NEW i \in 1 .. Len(Tail(F)), NEW j \in 1 .. Len(Tail(F)),
                 Answers(c, Tail(F)[i]), Answers(c, Tail(F)[j])
          PROVE  i = j
      <3>1. i \in Nat /\ j \in Nat BY <1>n
      <3>2. i + 1 \in 1 .. Len(F) /\ j + 1 \in 1 .. Len(F) /\ Answers(c, F[i + 1]) /\ Answers(c, F[j + 1])
        BY <1>7, <2>3
      <3>3. i + 1 = j + 1 BY <1>k, <3>2 DEF Awaited
      <3> QED BY <3>1, <3>3
    <2>4. ASSUME NEW i \in 1 .. Len(Tail(F)), Answers(c, Tail(F)[i])
          PROVE  /\ w.waitingSeq # Unset
                 /\ Own(c, Tail(F)[i]) => Tail(F)[i].change.seq = w.waitingSeq
                 /\ Tail(F)[i].kind = "refused" /\ On(c, D, v.pipe) => Pending(c, w, D) = {}
                 /\ \A j \in Nat : ~Live(c, D, Q2, v.pipe, j)
      <3>1. /\ w.waitingSeq = v.waitingSeq /\ i + 1 \in 1 .. Len(F)
            /\ Tail(F)[i] = F[i + 1] /\ Answers(c, F[i + 1]) BY <1>7, <2>4
      <3>2. /\ v.waitingSeq # Unset
            /\ Own(c, F[i + 1]) => F[i + 1].change.seq = v.waitingSeq
            /\ F[i + 1].kind = "refused" /\ On(c, D, v.pipe) => Pending(c, v, D) = {}
            /\ \A j \in Nat : ~Live(c, D, Q, v.pipe, j) BY <1>k, <3>1 DEF Awaited
      <3>3. \A j \in Nat : ~Live(c, D, Q2, v.pipe, j) BY <1>1, <1>p, <3>2, WasLive
      <3> QED BY <1>1, <3>1, <3>2, <3>3
    <2> QED BY <1>1, <1>2, <2>1, <2>2, <2>3, <2>4 DEF Awaited
  <1>10. Early(c, w, D, Q2, Tail(F)) BY <1>2, <1>3 DEF Early
  <1>11. Settled(c, w, D, Tail(F))
    <2> SUFFICES ASSUME w.waitingSeq = Unset, In(c, D, v.pipe) PROVE Pending(c, v, D) = {}
      BY <1>1, <1>2, <1>3 DEF Settled
    <2>1. CASE v.joined /\ w.waitingSeq = v.waitingSeq BY <1>k, <2>1 DEF Settled
    <2>2. CASE F[1].kind = "refused" BY <1>3, <1>k, <2>2 DEF Awaited, Answers, In
    <2>3. CASE /\ Missed(F[1]) /\ w.waitingSeq = v.waitingSeq
               /\ Len(w.seen) = Len(v.seen) + Len(F[1].changes) /\ Len(w.seen) \in Nat
      <3>1. \A j \in Pending(c, v, D) : j <= Len(w.seen) BY <1>2, <1>k, <2>3 DEF Settled
      <3>2. \A j \in Pending(c, w, D) : j \in Nat /\ j > Len(w.seen) BY DEF Pending, Made
      <3> DEFINE l == Len(w.seen)
      <3>3. l \in Nat /\ \A j \in Pending(c, v, D) : j \in Nat /\ j > l /\ j <= l BY <1>1, <2>3, <3>1, <3>2
      <3> HIDE DEF l
      <3> QED BY <3>3
    <2> QED BY <2>1, <2>2, <2>3 DEF Read
  <1> QED BY <1>1, <1>4, <1>5, <1>6, <1>8, <1>9, <1>10, <1>11 DEF Kept

\* The view holds no batch that it sent: it was answered, or there was none.
NoneSent(c, v, D, Q, F, w, Q2) ==
  /\ Took(c, v, D, Q, F, w, Q2) /\ w.sent = <<>> /\ w.waitingSeq = Unset
  /\ Pending(c, w, D) = {} /\ \A n \in NumPipes, i \in Nat : ~Live(c, D, Q2, n, i)
  /\ \A e \in Range(v.sent) : \E j \in Made(c, D) : e \in Range(D.history[j].body)
  /\ \A i \in 1 .. Len(F) : i # 1 => ~Answers(c, F[i])
  /\ w.epoch = D.epoch => w.lastSeq <= D.seqs[c]

LEMMA AnsweredKept ==
  ASSUME NEW c, NEW v, NEW D, NEW Q, NEW F, NEW w, NEW Q2,
         NoneSent(c, v, D, Q, F, w, Q2), PipeRight(c, v, D), Lawful(c, v, D, Q, F), Kept(c, v, D, Q, F)
  PROVE  Kept(c, w, D, Q2, Tail(F))
  <1>0. Typed(c, v, D, Q) /\ Entered(c, v, D, F) BY DEF Lawful
  <1>k. HeldOnce(c, v, D) BY DEF Kept
  <1>1. /\ Took(c, v, D, Q, F, w, Q2) /\ w.sent = <<>> /\ w.waitingSeq = Unset
        /\ Pending(c, w, D) = {} /\ \A n \in NumPipes, i \in Nat : ~Live(c, D, Q2, n, i)
        /\ \A e \in Range(v.sent) : \E j \in Made(c, D) : e \in Range(D.history[j].body)
        /\ \A i \in 1 .. Len(F) : i # 1 => ~Answers(c, F[i])
        /\ w.epoch = D.epoch => w.lastSeq <= D.seqs[c] BY DEF NoneSent
  <1>2. /\ v.pipe # Unset /\ w.pipe = v.pipe /\ w.joined = TRUE /\ w.edits = v.edits
        /\ v.removed \subseteq w.removed /\ Range(w.queued) \subseteq Range(v.queued)
        /\ Range(v.queued) \subseteq Range(w.queued) \cup w.removed BY <1>1 DEF Took, QueuedLeft
  <1>3. /\ \A i \in Nat : i \in 1 .. Len(Tail(F)) => /\ i + 1 \in 1 .. Len(F) /\ Tail(F)[i] = F[i + 1]
                                                    /\ i + 1 # 1 /\ F[i + 1].kind # "joined"
        /\ 1 \in 1 .. Len(F) /\ ~Waits(c, D, v.pipe) /\ Len(Tail(F)) \in Nat
        /\ ~(Tail(F) # <<>> /\ Missed(Tail(F)[1])) BY <1>0, <1>1, TookFrames
  <1>n. \A i \in 1 .. Len(Tail(F)) : i \in Nat /\ i + 1 \in 1 .. Len(F) /\ Tail(F)[i] = F[i + 1] /\ i + 1 # 1
    BY <1>3
  <1>p. v.pipe \in NumPipes BY <1>2 DEF PipeRight
  <1>4. HeldOnce(c, w, D)
    <2>1. EditsBy(c, w) = EditsBy(c, v) BY <1>2 DEF EditsBy
    <2>2. \A e \in EditsBy(c, w) : \/ e \in Range(w.sent) \cup Range(w.queued) \cup w.removed
                                   \/ \E j \in Made(c, D) : e \in Range(D.history[j].body)
      BY <1>1, <1>2, <1>k, <2>1 DEF HeldOnce
    <2>3. Range(w.sent) = {} BY <1>1, EmptyRange
    <2> QED BY <1>2, <1>k, <2>2, <2>3 DEF HeldOnce
  <1>5. OnePending(c, w, D) BY <1>1 DEF OnePending
  <1>6. LiveSent(c, w, D, Q2) /\ LiveOnce(c, D, Q2) /\ Behind(c, w, D, Q2) /\ NextLive(c, w, D, Q2, Tail(F))
    BY <1>1 DEF LiveSent, LiveOnce, Behind, NextLive
  <1>7. SeqKnown(c, w, D, Tail(F)) BY <1>1 DEF SeqKnown
  <1>8. \A i \in 1 .. Len(Tail(F)) : ~Answers(c, Tail(F)[i]) BY <1>1, <1>n
  <1>9. Awaited(c, w, D, Q2, Tail(F)) BY <1>1, <1>2, <1>8, <1>p DEF Awaited
  <1>10. Early(c, w, D, Q2, Tail(F)) /\ Settled(c, w, D, Tail(F)) BY <1>1, <1>3 DEF Early, Settled
  <1> QED BY <1>1, <1>4, <1>5, <1>6, <1>7, <1>9, <1>10 DEF Kept

\* w is x without some edits, which were removed from the outbox.
Pruned(x, w) ==
  /\ w.pipe = x.pipe /\ w.joined = x.joined /\ w.epoch = x.epoch /\ w.edits = x.edits /\ w.seen = x.seen
  /\ w.waitingSeq = x.waitingSeq /\ w.lastSeq = x.lastSeq /\ QueuedLeft(x, w) /\ SentLeft(x, w)

\* What holds stays so, if something is left of a batch that was sent.
LEMMA PrunedKeeps ==
  ASSUME NEW c, NEW x, NEW D, NEW Q, NEW F, NEW w, Pruned(x, w)
  PROVE  /\ Lawful(c, x, D, Q, F) => Lawful(c, w, D, Q, F)
         /\ (w.sent = <<>> => x.sent = <<>>) /\ Kept(c, x, D, Q, F) => Kept(c, w, D, Q, F)
  <1>1. /\ w.pipe = x.pipe /\ w.joined = x.joined /\ w.epoch = x.epoch /\ w.edits = x.edits /\ w.seen = x.seen
        /\ w.waitingSeq = x.waitingSeq /\ w.lastSeq = x.lastSeq
        /\ x.removed \subseteq w.removed /\ IsSeq(w.queued) /\ Range(w.queued) \subseteq Range(x.queued)
        /\ Range(x.queued) \subseteq Range(w.queued) \cup w.removed
        /\ IsSeq(w.sent) /\ Range(w.sent) \subseteq Range(x.sent)
        /\ Range(x.sent) \subseteq Range(w.sent) \cup w.removed BY DEF Pruned, QueuedLeft, SentLeft
  <1>2. EditsBy(c, w) = EditsBy(c, x) /\ Pending(c, w, D) = Pending(c, x, D) BY <1>1 DEF EditsBy, Pending
  <1>3. ASSUME Lawful(c, x, D, Q, F) PROVE Lawful(c, w, D, Q, F)
    <2>1. Typed(c, x, D, Q) /\ Alone(c, D) /\ Entered(c, x, D, F) /\ Counted(c, x, D) BY <1>3 DEF Lawful
    <2>2. Typed(c, w, D, Q)
      <3>1. /\ Range(w.sent) \subseteq EditsBy(c, x) /\ Range(w.queued) \subseteq EditsBy(c, x)
        BY <1>1, <2>1 DEF Typed
      <3> QED BY <1>1, <1>2, <2>1, <3>1 DEF Typed
    <2>3. Entered(c, w, D, F) /\ Counted(c, w, D) BY <1>1, <1>2, <2>1 DEF Entered, Counted
    <2> QED BY <2>1, <2>2, <2>3 DEF Lawful
  <1>4. ASSUME w.sent = <<>> => x.sent = <<>>, Kept(c, x, D, Q, F) PROVE Kept(c, w, D, Q, F)
    <2>k. /\ HeldOnce(c, x, D) /\ OnePending(c, x, D)
          /\ LiveSent(c, x, D, Q) /\ LiveOnce(c, D, Q) /\ Behind(c, x, D, Q)
          /\ NextLive(c, x, D, Q, F) /\ SeqKnown(c, x, D, F) /\ Awaited(c, x, D, Q, F)
          /\ Early(c, x, D, Q, F) /\ Settled(c, x, D, F) BY <1>4 DEF Kept
    <2>1. HeldOnce(c, w, D)
      <3>1. \A e \in EditsBy(c, w) : \/ e \in Range(w.sent) \cup Range(w.queued) \cup w.removed
                                     \/ \E j \in Made(c, D) : e \in Range(D.history[j].body)
        BY <1>1, <1>2, <2>k DEF HeldOnce
      <3>2. /\ Range(w.sent) \cap Range(w.queued) = {}
            /\ \A j \in Made(c, D) :
                 /\ Range(D.history[j].body) \cap Range(w.queued) = {}
                 /\ j \notin Pending(c, w, D) => Range(D.history[j].body) \cap Range(w.sent) = {}
        BY <1>1, <1>2, <2>k DEF HeldOnce
      <3> QED BY <2>k, <3>1, <3>2 DEF HeldOnce
    <2>2. ASSUME NEW b, Carries(x, b) PROVE Carries(w, b) BY <1>1, <1>4, <2>2 DEF Carries
    <2>3. OnePending(c, w, D) BY <1>2, <2>2, <2>k DEF OnePending
    <2>4. LiveSent(c, w, D, Q)
      <3>1. \A b : Unplaced(c, x, D, b) => Unplaced(c, w, D, b) BY <1>1, <2>2 DEF Unplaced
      <3> QED BY <1>2, <2>k, <3>1 DEF LiveSent
    <2>5. Behind(c, w, D, Q) /\ NextLive(c, w, D, Q, F) BY <1>1, <2>k DEF Behind, NextLive
    <2>6. SeqKnown(c, w, D, F) /\ Awaited(c, w, D, Q, F) BY <1>1, <1>2, <1>4, <2>k DEF SeqKnown, Awaited
    <2>7. Early(c, w, D, Q, F) /\ Settled(c, w, D, F) BY <1>1, <1>2, <2>k DEF Early, Settled
    <2> QED BY <2>1, <2>3, <2>4, <2>5, <2>6, <2>7, <2>k DEF Kept
  <1> QED BY <1>3, <1>4

----------------
(* Changes that reach the editor. *)

\* What of the outbox is left, at most what a move removed.
LEMMA AppliedLeft ==
  ASSUME NEW c, NEW v, NEW rev, NEW change, NEW w, AppliedTo(c, v, rev, change, w), IsSeq(v.sent), IsSeq(v.queued)
  PROVE  /\ QueuedLeft(v, w) /\ IsSeq(w.sent) /\ Range(w.sent) \subseteq Range(v.sent)
         /\ change.by # c => SentLeft(v, w)
  <1>1. CASE change.by = c
    <2>1. w.sent = <<>> /\ w.queued = v.queued /\ w.removed = v.removed BY <1>1 DEF AppliedTo
    <2>2. IsSeq(<<>>) BY DEF IsSeq
    <2> QED BY <1>1, <2>1, <2>2, EmptyRange DEF QueuedLeft
  <1>2. CASE w.sent = v.sent /\ w.queued = v.queued /\ w.removed = v.removed BY <1>2 DEF QueuedLeft, SentLeft
  <1>3. ASSUME NEW gone, w.sent = Moved(v.sent, gone), w.queued = Moved(v.queued, gone),
               w.removed = v.removed \cup gone
        PROVE  QueuedLeft(v, w) /\ SentLeft(v, w)
    <2>1. /\ IsSeq(w.sent) /\ Range(w.sent) = Range(v.sent) \ gone
          /\ IsSeq(w.queued) /\ Range(w.queued) = Range(v.queued) \ gone BY <1>3, MovedFacts
    <2> QED BY <1>3, <2>1 DEF QueuedLeft, SentLeft
  <1> QED BY <1>1, <1>2, <1>3 DEF AppliedTo, SentLeft

\* The edits in the changes that an editor was given and that do not wait.
GivenEdits(v) == Edits([i \in DOMAIN v.seen \ v.held |-> v.seen[i]])

\* An editor shows them and its own unanswered edits, but for removed ones.
ShownRight(v) ==
  /\ v.held \subseteq 1 .. Len(v.seen)
  /\ (GivenEdits(v) \cup (Range(v.sent) \cup Range(v.queued))) \ v.removed \subseteq v.shown
  /\ v.shown \subseteq GivenEdits(v) \cup (Range(v.sent) \cup Range(v.queued))

\* What holds of a client that knows what becomes of its batches.
Sound(c, v, D, Q, F) == Kept(c, v, D, Q, F) /\ ShownRight(v)

LEMMA ShownCarries ==
  ASSUME NEW v, NEW w, w.seen = v.seen, w.held = v.held, w.shown = v.shown, w.removed = v.removed,
         Range(w.sent) \cup Range(w.queued) = Range(v.sent) \cup Range(v.queued), ShownRight(v)
  PROVE  ShownRight(w)
  <1>1. GivenEdits(w) = GivenEdits(v) BY DEF GivenEdits
  <1> QED BY <1>1 DEF ShownRight

LEMMA GivenFacts ==
  ASSUME NEW v, IsSeq(v.seen), NEW e
  PROVE  e \in GivenEdits(v) <=> \E i \in (1 .. Len(v.seen)) \ v.held : e \in Range(v.seen[i].body)
  <1> DEFINE f == [i \in DOMAIN v.seen \ v.held |-> v.seen[i]]
  <1>1. DOMAIN f = (1 .. Len(v.seen)) \ v.held /\ \A i \in DOMAIN f : f[i] = v.seen[i] BY DEF IsSeq
  <1> HIDE DEF f
  <1>2. e \in Edits(f) <=> \E i \in DOMAIN f : e \in Range(f[i].body) BY Zenon DEF Edits
  <1>3. GivenEdits(v) = Edits(f) BY Zenon DEF GivenEdits, f
  <1> QED BY <1>1, <1>2, <1>3

\* One more change is given, and waits or not.
LEMMA GivenMore ==
  ASSUME NEW v, IsSeq(v.seen), v.held \subseteq 1 .. Len(v.seen), NEW x, NEW w, w.seen = Append(v.seen, x)
  PROVE  /\ Len(v.seen) \in Nat /\ Len(w.seen) = Len(v.seen) + 1
         /\ w.held = v.held => GivenEdits(w) = GivenEdits(v) \cup Range(x.body)
         /\ w.held = v.held \cup {Len(v.seen) + 1} => GivenEdits(w) = GivenEdits(v)
  <1> DEFINE l == Len(v.seen)
  <1>1. /\ l \in Nat /\ Len(w.seen) = l + 1 /\ IsSeq(w.seen) /\ w.seen[l + 1] = x
        /\ \A i \in 1 .. l : w.seen[i] = v.seen[i] BY AppendSeq
  <1>2. 1 .. Len(w.seen) = (1 .. l) \cup {l + 1} /\ l + 1 \notin 1 .. l /\ l + 1 \notin v.held BY <1>1
  <1> HIDE DEF l
  <1>3. \A e : e \in GivenEdits(v) <=> \E i \in (1 .. l) \ v.held : e \in Range(v.seen[i].body)
    BY GivenFacts DEF l
  <1>4. \A e : e \in GivenEdits(w) <=> \E i \in (1 .. Len(w.seen)) \ w.held : e \in Range(w.seen[i].body)
    BY <1>1, GivenFacts
  <1>5. ASSUME w.held = v.held, NEW e PROVE e \in GivenEdits(w) <=> e \in GivenEdits(v) \cup Range(x.body)
    BY <1>1, <1>2, <1>3, <1>4, <1>5
  <1>6. ASSUME w.held = v.held \cup {l + 1}, NEW e PROVE e \in GivenEdits(w) <=> e \in GivenEdits(v)
    BY <1>1, <1>2, <1>3, <1>4, <1>6
  <1>7. w.held = v.held => GivenEdits(w) = GivenEdits(v) \cup Range(x.body) BY <1>5
  <1>8. w.held = v.held \cup {l + 1} => GivenEdits(w) = GivenEdits(v) BY <1>6
  <1> QED BY <1>1, <1>7, <1>8 DEF l

\* It shows another's change at once or later, its own it showed before.
LEMMA AppliedShows ==
  ASSUME NEW c, NEW v, NEW rev, NEW change, NEW w, AppliedTo(c, v, rev, change, w), ShownRight(v),
         IsSeq(v.seen), IsSeq(v.sent), IsSeq(v.queued),
         change.by = c => /\ Range(v.sent) \subseteq Range(change.body)
                          /\ Range(change.body) \subseteq Range(v.sent) \cup v.removed
  PROVE  ShownRight(w)
  <1> DEFINE b == Range(change.body)
             G == GivenEdits(v)
             H == GivenEdits(w)
  <1>1. /\ Len(v.seen) \in Nat /\ Len(w.seen) = Len(v.seen) + 1
        /\ w.held = v.held => H = G \cup b
        /\ w.held = v.held \cup {Len(v.seen) + 1} => H = G
    <2>1. w.seen = Append(v.seen, change) /\ v.held \subseteq 1 .. Len(v.seen) BY DEF AppliedTo, ShownRight
    <2> QED BY <2>1, GivenMore
  <1> HIDE DEF G, H, b
  <1>2. /\ v.held \subseteq 1 .. Len(v.seen)
        /\ (G \cup (Range(v.sent) \cup Range(v.queued))) \ v.removed \subseteq v.shown
        /\ v.shown \subseteq G \cup (Range(v.sent) \cup Range(v.queued)) BY DEF ShownRight, G
  <1>3. w.held = v.held \/ w.held = v.held \cup {Len(v.seen) + 1} => w.held \subseteq 1 .. Len(w.seen)
    BY <1>1, <1>2
  <1>4. CASE change.by = c
    <2>1. /\ w.sent = <<>> /\ w.queued = v.queued /\ w.removed = v.removed
          /\ w.shown = v.shown /\ w.held = v.held BY <1>4 DEF AppliedTo
    <2>2. Range(v.sent) \subseteq b /\ b \subseteq Range(v.sent) \cup v.removed BY <1>4 DEF b
    <2>3. /\ (H \cup (Range(w.sent) \cup Range(w.queued))) \ w.removed \subseteq w.shown
          /\ w.shown \subseteq H \cup (Range(w.sent) \cup Range(w.queued))
      BY <1>1, <1>2, <2>1, <2>2, EmptyRange
    <2> QED BY <1>3, <2>1, <2>3 DEF ShownRight, H
  <1>5. CASE /\ w.sent = v.sent /\ w.queued = v.queued /\ w.removed = v.removed
             /\ w.shown = v.shown /\ w.held = v.held \cup {Len(v.seen) + 1}
    BY <1>1, <1>2, <1>3, <1>5 DEF ShownRight, H
  <1>6. ASSUME w.held = v.held, NEW gone, gone \subseteq Range(v.sent) \cup Range(v.queued),
               w.sent = Moved(v.sent, gone), w.queued = Moved(v.queued, gone),
               w.shown = (v.shown \cup b) \ gone, w.removed = v.removed \cup gone
        PROVE  ShownRight(w)
    <2>1. Range(w.sent) = Range(v.sent) \ gone /\ Range(w.queued) = Range(v.queued) \ gone BY <1>6, MovedFacts
    <2>2. /\ (H \cup (Range(w.sent) \cup Range(w.queued))) \ w.removed \subseteq w.shown
          /\ w.shown \subseteq H \cup (Range(w.sent) \cup Range(w.queued)) BY <1>1, <1>2, <1>6, <2>1
    <2> QED BY <1>3, <1>6, <2>2 DEF ShownRight, H
  <1> QED BY <1>4, <1>5, <1>6 DEF AppliedTo, b

\* At most one of the changes y is of client c, and it holds what v sent.
Lone(c, y, v) ==
  /\ \A i, j \in 1 .. Len(y) : y[i].by = c /\ y[j].by = c => i = j
  /\ \A j \in 1 .. Len(y) : y[j].by = c => /\ Range(v.sent) \subseteq Range(y[j].body)
                                           /\ Range(y[j].body) \subseteq Range(v.sent) \cup v.removed

\* u is view v after the first m of the changes y.
Fits(c, v, y, m, u) ==
  /\ DOMAIN u = ViewFields /\ u.pipe = v.pipe /\ u.joined = v.joined /\ u.epoch = v.epoch
  /\ u.edits = v.edits /\ u.peers = v.peers /\ u.loaded = v.loaded
  /\ IsSeq(u.seen) /\ Len(u.seen) = Len(v.seen) + m
  /\ QueuedLeft(v, u) /\ IsSeq(u.sent) /\ Range(u.sent) \subseteq Range(v.sent)
  /\ u.waitingSeq \in {v.waitingSeq, Unset} /\ u.lastSeq \in Nat
  /\ (\E j \in 1 .. m : y[j].by = c /\ y[j].seq = v.waitingSeq) => u.waitingSeq = Unset
  /\ (\A j \in 1 .. m : y[j].by # c) =>
       SentLeft(v, u) /\ u.waitingSeq = v.waitingSeq /\ u.lastSeq = v.lastSeq
  /\ (\E j \in 1 .. m : y[j].by = c) => u.sent = <<>>
  /\ \A b \in Nat : v.lastSeq <= b /\ (\A j \in 1 .. m : y[j].by = c => y[j].seq <= b) => u.lastSeq <= b
  /\ ShownRight(v) /\ Lone(c, y, v) => ShownRight(u)

LEMMA FitsNext ==
  ASSUME NEW c, NEW v, NEW y, NEW n \in Nat, NEW u, Fits(c, v, y, n, u),
         Len(v.seen) \in Nat, Len(y) \in Nat, n + 1 <= Len(y), y[n + 1].by = c => y[n + 1].seq \in Nat,
         NEW rev, NEW x, AppliedTo(c, u, rev, y[n + 1], x)
  PROVE  Fits(c, v, y, n + 1, x)
  <1> DEFINE z == y[n + 1]
  <1>1. /\ DOMAIN u = ViewFields /\ u.pipe = v.pipe /\ u.joined = v.joined /\ u.epoch = v.epoch
        /\ u.edits = v.edits /\ u.peers = v.peers /\ u.loaded = v.loaded /\ IsSeq(u.seen)
        /\ QueuedLeft(v, u) /\ IsSeq(u.sent) /\ Range(u.sent) \subseteq Range(v.sent)
        /\ u.waitingSeq \in {v.waitingSeq, Unset} /\ u.lastSeq \in Nat BY DEF Fits
  <1>2. AppliedTo(c, u, rev, z, x) OBVIOUS
  <1> HIDE DEF z
  <1>3. /\ DOMAIN x = ViewFields /\ x.pipe = u.pipe /\ x.joined = u.joined /\ x.epoch = u.epoch
        /\ x.edits = u.edits /\ x.peers = u.peers /\ x.loaded = u.loaded
        /\ x.seen = Append(u.seen, z)
        /\ z.by = c => /\ x.sent = <<>>
                       /\ x.waitingSeq = IF z.seq = u.waitingSeq THEN Unset ELSE u.waitingSeq
                       /\ x.lastSeq = IF z.seq > u.lastSeq THEN z.seq ELSE u.lastSeq
        /\ z.by # c => x.waitingSeq = u.waitingSeq /\ x.lastSeq = u.lastSeq BY <1>2 DEF AppliedTo
  <1>4. IsSeq(x.seen) /\ Len(x.seen) = Len(v.seen) + (n + 1)
    <2>1. IsSeq(x.seen) /\ Len(x.seen) = Len(u.seen) + 1 BY <1>1, <1>3, AppendSeq
    <2>2. Len(u.seen) = Len(v.seen) + n BY DEF Fits
    <2> QED BY <2>1, <2>2
  <1>l. /\ QueuedLeft(u, x) /\ IsSeq(x.sent) /\ Range(x.sent) \subseteq Range(u.sent)
        /\ z.by # c => SentLeft(u, x) BY <1>1, <1>2, AppliedLeft DEF QueuedLeft
  <1>q. QueuedLeft(v, x) /\ Range(x.sent) \subseteq Range(v.sent) BY <1>1, <1>l DEF QueuedLeft
  <1>5. x.waitingSeq \in {v.waitingSeq, Unset} /\ x.lastSeq \in Nat
    <2>1. x.waitingSeq \in {v.waitingSeq, Unset} BY <1>1, <1>3
    <2>2. z.by = c => z.seq \in Nat BY DEF z
    <2> QED BY <1>1, <1>3, <2>1, <2>2
  <1>6. 1 .. n + 1 = (1 .. n) \cup {n + 1} OBVIOUS
  <1>w. ASSUME NEW j \in 1 .. n + 1, y[j].by = c, y[j].seq = v.waitingSeq PROVE x.waitingSeq = Unset
    <2>1. CASE j = n + 1 BY <1>1, <1>3, <1>w, <2>1 DEF z
    <2>2. CASE j \in 1 .. n
      <3>1. u.waitingSeq = Unset BY <1>w, <2>2 DEF Fits
      <3> QED BY <1>3, <3>1
    <2> QED BY <1>6, <2>1, <2>2
  <1>7. ASSUME \A j \in 1 .. n + 1 : y[j].by # c
        PROVE  SentLeft(v, x) /\ x.waitingSeq = v.waitingSeq /\ x.lastSeq = v.lastSeq
    <2>1. z.by # c /\ \A j \in 1 .. n : y[j].by # c BY <1>6, <1>7 DEF z
    <2>2. SentLeft(v, u) /\ u.waitingSeq = v.waitingSeq /\ u.lastSeq = v.lastSeq BY <2>1 DEF Fits
    <2>3. SentLeft(v, x) BY <1>l, <2>1, <2>2 DEF SentLeft, QueuedLeft
    <2> QED BY <1>3, <2>1, <2>2, <2>3
  <1>8. ASSUME NEW j \in 1 .. n + 1, y[j].by = c PROVE x.sent = <<>>
    <2>1. CASE z.by = c BY <1>3, <2>1
    <2>2. CASE z.by # c
      <3>1. j \in 1 .. n BY <1>6, <1>8, <2>2 DEF z
      <3>2. u.sent = <<>> BY <1>8, <3>1 DEF Fits
      <3> QED BY <1>l, <3>2, EmptyRange, NoneLeft
    <2> QED BY <2>1, <2>2
  <1>9. ASSUME NEW b \in Nat, v.lastSeq <= b, \A j \in 1 .. n + 1 : y[j].by = c => y[j].seq <= b
        PROVE  x.lastSeq <= b
    <2>1. z.by = c => z.seq <= b BY <1>6, <1>9 DEF z
    <2>2. u.lastSeq <= b BY <1>6, <1>9 DEF Fits
    <2> QED BY <1>3, <2>1, <2>2
  <1>10. ASSUME ShownRight(v), Lone(c, y, v) PROVE ShownRight(x)
    <2>1. ShownRight(u) BY <1>10 DEF Fits
    <2>2. z.by = c => /\ Range(u.sent) \subseteq Range(z.body)
                      /\ Range(z.body) \subseteq Range(u.sent) \cup u.removed
      <3> SUFFICES ASSUME z.by = c
                   PROVE  /\ Range(u.sent) \subseteq Range(z.body)
                          /\ Range(z.body) \subseteq Range(u.sent) \cup u.removed OBVIOUS
      <3>1. n + 1 \in 1 .. Len(y) /\ \A j \in 1 .. n : j \in 1 .. Len(y) /\ j # n + 1 OBVIOUS
      <3>2. /\ Range(v.sent) \subseteq Range(z.body)
            /\ Range(z.body) \subseteq Range(v.sent) \cup v.removed BY <1>10, <3>1 DEF Lone, z
      <3>3. \A j \in 1 .. n : y[j].by # c BY <1>10, <3>1 DEF Lone, z
      <3>4. SentLeft(v, u) BY <3>3 DEF Fits
      <3> QED BY <1>1, <3>2, <3>4 DEF SentLeft, QueuedLeft
    <2> QED BY <1>1, <1>2, <2>1, <2>2, AppliedShows DEF QueuedLeft
  <1> QED BY <1>1, <1>3, <1>4, <1>5, <1>7, <1>8, <1>9, <1>10, <1>l, <1>q, <1>w DEF Fits

LEMMA AppliedAllFits ==
  ASSUME NEW c, NEW v, DOMAIN v = ViewFields, v.lastSeq \in Nat, IsSeq(v.seen), IsSeq(v.sent), IsSeq(v.queued), NEW rev, NEW y,
         NEW how, Len(y) \in Nat, \A j \in 1 .. Len(y) : y[j].by = c => y[j].seq \in Nat
  PROVE  Fits(c, v, y, Len(y), AppliedAll(c, v, rev, y, how))
  <1>p. PICK f : Unfolded(c, v, rev, y, how, f) BY AppliedAllUnfolded, Zenon
  <1>1. /\ f[0] = v
        /\ \A i \in 1 .. Len(y) : f[i] = Applied(c, f[i - 1], rev - Len(y) + i, y[i], how[i])
        /\ AppliedAll(c, v, rev, y, how) = f[Len(y)] BY <1>p, Zenon DEF Unfolded
  <1> DEFINE Off == {i \in 0 .. Len(y) : ~Fits(c, v, y, i, f[i])}
  <1>2. Off = {}
    <2> SUFFICES ASSUME Off # {} PROVE FALSE OBVIOUS
    <2>1. PICK m \in Off : \A k \in Off : m <= k
      <3>1. Off \subseteq Nat OBVIOUS
      <3> HIDE DEF Off
      <3> QED BY <3>1, LeastNatural
    <2>2. m \in 0 .. Len(y) /\ ~Fits(c, v, y, m, f[m]) OBVIOUS
    <2>3. CASE m = 0
      <3>1. Fits(c, v, y, 0, v)
        <4>1. ~(\E j \in 1 .. 0 : y[j].by = c) OBVIOUS
        <4>2. Len(v.seen) \in Nat /\ Len(v.seen) + 0 = Len(v.seen) BY WholeSeq
        <4> QED BY <4>1, <4>2 DEF Fits, QueuedLeft, SentLeft
      <3> QED BY <1>1, <2>2, <2>3, <3>1
    <2>4. CASE m # 0
      <3>1. m - 1 \in 0 .. Len(y) /\ m - 1 \in Nat /\ m \in 1 .. Len(y) /\ ~(m <= m - 1) /\ (m - 1) + 1 = m
        BY <2>2, <2>4
      <3>2. Fits(c, v, y, m - 1, f[m - 1])
        <4>1. m - 1 \notin Off
          <5> HIDE DEF Off
          <5> QED BY <2>1, <3>1
        <4> QED BY <3>1, <4>1
      <3>3. f[m] = Applied(c, f[m - 1], rev - Len(y) + m, y[m], how[m]) BY <1>1, <3>1
      <3> DEFINE n == m - 1
                 u == f[m - 1]
                 r == rev - Len(y) + m
      <3>4. /\ n \in Nat /\ n + 1 <= Len(y) /\ Fits(c, v, y, n, u)
            /\ f[m] = Applied(c, u, r, y[n + 1], how[m])
            /\ y[n + 1].by = c => y[n + 1].seq \in Nat BY <3>1, <3>2, <3>3
      <3>5. n + 1 = m BY <3>1
      <3> HIDE DEF n, u, r
      <3>6. AppliedTo(c, u, r, y[n + 1], f[m])
        <4>1. DOMAIN u = ViewFields BY <3>4 DEF Fits
        <4>2. AppliedTo(c, u, r, y[n + 1], Applied(c, u, r, y[n + 1], how[m])) BY <4>1, AppliedFields, Zenon
        <4> QED BY <3>4, <4>2, Zenon
      <3>7. Fits(c, v, y, n + 1, f[m]) BY <3>4, <3>6, FitsNext, WholeSeq
      <3> QED BY <2>2, <3>5, <3>7
    <2> QED BY <2>3, <2>4
  <1>3. Len(y) \in 0 .. Len(y) OBVIOUS
  <1>4. Fits(c, v, y, Len(y), f[Len(y)]) BY <1>2, <1>3
  <1> QED BY <1>1, <1>4

----------------
(* The frames that a view handles, one kind at a time. *)

\* The pipes of client c carry what they did, and perhaps a join that asks
\* for a snapshot.
Asks(c, v, D, Q, Q2) ==
  \A n \in NumPipes :
    \/ Q2[<<c, n>>] = Q[<<c, n>>]
    \/ /\ n = v.pipe /\ ~Waits(c, D, n) /\ IsSeq(Q[<<c, n>>])
       /\ \E j : j.kind = "join" /\ j.epoch = 0 /\ Q2[<<c, n>>] = Append(Q[<<c, n>>], j)

LEMMA AsksFrom ==
  ASSUME NEW c, NEW v, NEW D, NEW Q, NEW Q2, Asks(c, v, D, Q, Q2) PROVE QueuesMore(c, Q, Q2)
  <1> SUFFICES ASSUME NEW n \in NumPipes, NEW i \in Nat, i \in 1 .. Len(Q2[<<c, n>>])
               PROVE  \/ \E j \in Nat : j \in 1 .. Len(Q[<<c, n>>]) /\ Q2[<<c, n>>][i] = Q[<<c, n>>][j]
                      \/ Q2[<<c, n>>][i].kind = "join" /\ Q2[<<c, n>>][i].epoch = 0 BY DEF QueuesMore
  <1>1. CASE Q2[<<c, n>>] = Q[<<c, n>>] BY <1>1
  <1>2. ASSUME IsSeq(Q[<<c, n>>]), NEW j, j.kind = "join", j.epoch = 0, Q2[<<c, n>>] = Append(Q[<<c, n>>], j)
        PROVE  \/ \E k \in Nat : k \in 1 .. Len(Q[<<c, n>>]) /\ Q2[<<c, n>>][i] = Q[<<c, n>>][k]
               \/ Q2[<<c, n>>][i].kind = "join" /\ Q2[<<c, n>>][i].epoch = 0
    <2> DEFINE q == Q[<<c, n>>]
    <2>1. IsSeq(q) /\ Q2[<<c, n>>] = Append(q, j) /\ i \in 1 .. Len(Append(q, j)) BY <1>2
    <2> HIDE DEF q
    <2>2. (i \in 1 .. Len(q) /\ Append(q, j)[i] = q[i]) \/ Append(q, j)[i] = j BY <2>1, OneMoreFrame
    <2> QED BY <1>2, <2>1, <2>2 DEF q
  <1> QED BY <1>1, <1>2 DEF Asks

LEMMA AsksLives ==
  ASSUME NEW c, NEW v, NEW D, NEW Q, NEW w, NEW Q2, Asks(c, v, D, Q, Q2),
         w.epoch \in {v.epoch, 0}, SameEdits(c, v, D, w, D)
  PROVE  FewerLives(c, v, D, Q, w, D, Q2)
  <1>1. ASSUME NEW n \in NumPipes, NEW i \in Nat, Live(c, D, Q2, n, i)
        PROVE  /\ Live(c, D, Q, n, i) /\ Q2[<<c, n>>][i] = Q[<<c, n>>][i]
               /\ Waits(c, D, n) => Q2[<<c, n>>] = Q[<<c, n>>]
    <2>1. CASE Q2[<<c, n>>] = Q[<<c, n>>] BY <1>1, <2>1 DEF Live
    <2>2. ASSUME ~Waits(c, D, n), IsSeq(Q[<<c, n>>]), NEW j, j.kind = "join",
                 Q2[<<c, n>>] = Append(Q[<<c, n>>], j)
          PROVE  Live(c, D, Q, n, i) /\ Q2[<<c, n>>][i] = Q[<<c, n>>][i]
      <3> DEFINE q == Q[<<c, n>>]
      <3>1. /\ IsSeq(q) /\ Q2[<<c, n>>] = Append(q, j) /\ i \in 1 .. Len(Append(q, j))
            /\ Append(q, j)[i].kind = "change" BY <1>1, <2>2 DEF Live
      <3> HIDE DEF q
      <3>2. (i \in 1 .. Len(q) /\ Append(q, j)[i] = q[i]) \/ Append(q, j)[i] = j BY <3>1, OneMoreFrame
      <3>3. i \in 1 .. Len(q) /\ Append(q, j)[i] = q[i] BY <2>2, <3>1, <3>2
      <3> QED BY <1>1, <3>1, <3>3 DEF Live, q
    <2> QED BY <2>1, <2>2 DEF Asks
  <1>2. ASSUME NEW n \in NumPipes PROVE \E s \in Nat : LiveBefore(c, D, Q, D, Q2, n, s)
    <2>1. ASSUME NEW i \in Nat, Live(c, D, Q2, n, i)
          PROVE  Live(c, D, Q, n, i + 0) /\ Q2[<<c, n>>][i] = Q[<<c, n>>][i + 0]
      <3>1. i + 0 = i OBVIOUS
      <3> QED BY <1>1, <2>1, <3>1
    <2>2. LiveBefore(c, D, Q, D, Q2, n, 0) BY <2>1 DEF LiveBefore
    <2> QED BY <2>2
  <1>3. ASSUME NEW n \in NumPipes, NEW i \in Nat, Waits(c, D, n), Live(c, D, Q2, n, i)
        PROVE  Q2[<<c, n>>] = Q[<<c, n>>] /\ 1 \in 1 .. Len(Q2[<<c, n>>])
    <2>1. 1 \in 1 .. Len(Q2[<<c, n>>])
      <3> DEFINE l == Len(Q2[<<c, n>>])
      <3>1. i \in 1 .. l BY <1>3 DEF Live
      <3> HIDE DEF l
      <3> QED BY <3>1 DEF l
    <2> QED BY <1>1, <1>3, <2>1
  <1> QED BY <1>2, <1>3 DEF FewerLives

\* A view on a pipe, and what it was given.
Viewed(c, v, D, F) ==
  /\ DOMAIN v = ViewFields /\ IsSeq(F) /\ F # <<>> /\ v.pipe # Unset /\ PipeRight(c, v, D)
  /\ D.epoch \in Nat /\ D.epoch # 0 /\ Given(v, D) /\ D.rev <= Len(D.history)
  /\ v.seen = SubSeq(D.history, 1, Len(v.seen)) /\ IsSeq(v.seen) /\ v.rev \in Nat
  /\ v.epoch = D.epoch => Len(v.seen) = Len(D.history) - D.rev + v.rev

\* The frame is about no change.
LEMMA PeerRead ==
  ASSUME NEW c, NEW v, NEW D, NEW Q, NEW F, NEW ps, NEW w, Viewed(c, v, D, F), Lawful(c, v, D, Q, F),
         F[1].kind \in {"peer", "left"}, w = [v EXCEPT !.peers = ps]
  PROVE  /\ Took(c, v, D, Q, F, w, Q) /\ w.seen = v.seen
         /\ Sound(c, v, D, Q, F) => Sound(c, w, D, Q, Tail(F))
  <1>1. /\ w.pipe = v.pipe /\ w.joined = v.joined /\ w.edits = v.edits /\ w.queued = v.queued
        /\ w.sent = v.sent /\ w.waitingSeq = v.waitingSeq /\ w.lastSeq = v.lastSeq
        /\ w.epoch = v.epoch /\ w.seen = v.seen /\ w.removed = v.removed
        /\ w.shown = v.shown /\ w.held = v.held OBVIOUS
  <1>2. /\ IsSeq(F) /\ F # <<>> /\ v.pipe # Unset /\ PipeRight(c, v, D)
        /\ D.epoch \in Nat /\ D.epoch # 0 BY DEF Viewed
  <1>3. Asks(c, v, D, Q, Q) BY DEF Asks
  <1>4. QueuesMore(c, Q, Q) BY <1>3, AsksFrom
  <1>5. v.joined /\ v.lastSeq \in Nat /\ IsSeq(v.sent) /\ IsSeq(v.queued) BY <1>2 DEF Lawful, Entered, Typed
  <1>b. w.joined = TRUE
    <2>1. v.joined \in BOOLEAN => v.joined = TRUE BY <1>5
    <2> QED BY <1>1, <1>5
  <1>6. Took(c, v, D, Q, F, w, Q) BY <1>1, <1>2, <1>4, <1>5, <1>b DEF Took, QueuedLeft
  <1>7. ASSUME Kept(c, v, D, Q, F) PROVE Kept(c, w, D, Q, Tail(F))
    <2>1. SameEdits(c, v, D, w, D) BY <1>1 DEF Pending, SameEdits
    <2>2. FewerLives(c, v, D, Q, w, D, Q) BY <1>1, <1>3, <2>1, AsksLives
    <2>4. ~Answers(c, F[1]) BY DEF Answers, Own
    <2>5. Read(c, v, D, Q, F, w, Q) BY <1>1, <1>5, <1>6, <2>2, <2>4 DEF Read
    <2> QED BY <1>2, <1>7, <2>5, ReadKept
  <1>8. ShownRight(v) => ShownRight(w) BY <1>1, ShownCarries
  <1> QED BY <1>1, <1>6, <1>7, <1>8 DEF Sound

\* A view that gets any other first frame than joined has joined.
LEMMA JoinedBefore ==
  ASSUME NEW c, NEW v, NEW D, NEW Q, NEW F, Viewed(c, v, D, F), Lawful(c, v, D, Q, F), F[1].kind # "joined"
  PROVE  v.joined BY DEF Viewed, Lawful, Entered

\* A view that may send its batch again, and one that loads again first.
Unrefused(v) == {[v EXCEPT !.waitingSeq = Unset], [v EXCEPT !.waitingSeq = Unset, !.rev = 0, !.epoch = 0]}

\* The document refused the batch.
LEMMA RefusedRead ==
  ASSUME NEW c, NEW v, NEW D, NEW Q, NEW F, NEW w, NEW Q2, Viewed(c, v, D, F), Lawful(c, v, D, Q, F),
         F[1].kind = "refused", Asks(c, v, D, Q, Q2), w \in Unrefused(v)
  PROVE  /\ Took(c, v, D, Q, F, w, Q2) /\ w.seen = v.seen
         /\ Sound(c, v, D, Q, F) => Sound(c, w, D, Q2, Tail(F))
  <1>0. DOMAIN v = ViewFields BY DEF Viewed
  <1>1. /\ w.pipe = v.pipe /\ w.joined = v.joined /\ w.edits = v.edits /\ w.queued = v.queued
        /\ w.sent = v.sent /\ w.waitingSeq = Unset /\ w.lastSeq = v.lastSeq
        /\ w.epoch \in {v.epoch, 0} /\ w.seen = v.seen /\ w.removed = v.removed
        /\ w.shown = v.shown /\ w.held = v.held BY <1>0 DEF ViewFields, Unrefused
  <1>2. /\ IsSeq(F) /\ F # <<>> /\ v.pipe # Unset /\ PipeRight(c, v, D)
        /\ D.epoch \in Nat /\ D.epoch # 0 BY DEF Viewed
  <1>4. QueuesMore(c, Q, Q2) BY AsksFrom
  <1>5. v.joined /\ v.lastSeq \in Nat /\ IsSeq(v.sent) /\ IsSeq(v.queued) BY JoinedBefore DEF Lawful, Typed
  <1>6. Took(c, v, D, Q, F, w, Q2) BY <1>1, <1>2, <1>4, <1>5 DEF Took, QueuedLeft
  <1>7. ASSUME Kept(c, v, D, Q, F) PROVE Kept(c, w, D, Q2, Tail(F))
    <2>1. SameEdits(c, v, D, w, D) BY <1>1 DEF Pending, SameEdits
    <2>2. FewerLives(c, v, D, Q, w, D, Q2) BY <1>1, <2>1, AsksLives
    <2>5. Read(c, v, D, Q, F, w, Q2) BY <1>1, <1>5, <1>6, <2>2 DEF Read
    <2> QED BY <1>2, <1>7, <2>5, ReadKept
  <1>8. ShownRight(v) => ShownRight(w) BY <1>1, ShownCarries
  <1> QED BY <1>1, <1>6, <1>7, <1>8 DEF Sound

\* A view that hears that it joined, and one that loads the snapshot.
Entering(v, m) == [v EXCEPT !.epoch = m.epoch, !.lastSeq = m.seq, !.joined = TRUE, !.peers = m.peers]
Loading(v, m) == [Entering(v, m) EXCEPT !.rev = m.rev, !.loaded = TRUE, !.seen = m.changes,
                                        !.shown = Edits(m.changes), !.held = {}]

\* The view joined, and loads a snapshot.
LEMMA SnapshotRead ==
  ASSUME NEW c, NEW v, NEW D, NEW Q, NEW F, NEW w, NEW to, Viewed(c, v, D, F), Lawful(c, v, D, Q, F),
         F[1].kind = "joined", to \in Nat, Len(v.seen) <= to, to <= Len(D.history),
         F[1].changes = SubSeq(D.history, 1, to), w = Loading(v, F[1])
  PROVE  /\ Took(c, v, D, Q, F, w, Q) /\ Len(w.seen) = to
         /\ v.sent = <<>> /\ v.queued = <<>> /\ Kept(c, v, D, Q, F) => Sound(c, w, D, Q, Tail(F))
  <1>0. Typed(c, v, D, Q) /\ Entered(c, v, D, F) /\ Counted(c, v, D) BY DEF Lawful
  <1> DEFINE m == F[1]
  <1>d. DOMAIN v = ViewFields BY DEF Viewed
  <1>1. /\ w.pipe = v.pipe /\ w.joined = TRUE /\ w.edits = v.edits /\ w.queued = v.queued
        /\ w.sent = v.sent /\ w.waitingSeq = v.waitingSeq /\ w.lastSeq = m.seq
        /\ w.epoch = m.epoch /\ w.seen = m.changes /\ w.shown = Edits(m.changes)
        /\ w.removed = v.removed /\ w.held = {} BY <1>d DEF ViewFields, Loading, Entering
  <1>2. /\ IsSeq(F) /\ F # <<>> /\ v.pipe # Unset /\ PipeRight(c, v, D)
        /\ D.epoch \in Nat /\ D.epoch # 0 BY DEF Viewed
  <1>3. Asks(c, v, D, Q, Q) BY DEF Asks
  <1>4. QueuesMore(c, Q, Q) BY <1>3, AsksFrom
  <1>5. 1 \in 1 .. Len(F) BY <1>2, Shifted
  <1>6. m.seq \in Nat /\ (m.epoch = D.epoch => m.seq <= D.seqs[c]) BY <1>0, <1>5 DEF Entered
  <1>7. Took(c, v, D, Q, F, w, Q) BY <1>0, <1>1, <1>2, <1>4, <1>6 DEF Took, Typed, QueuedLeft
  <1>8. Len(m.changes) = to /\ Len(v.seen) \in Nat /\ IsSeq(m.changes) BY BeginSeq DEF Viewed, Given
  <1>9. ASSUME v.sent = <<>>, v.queued = <<>>, Kept(c, v, D, Q, F) PROVE Kept(c, w, D, Q, Tail(F))
    <2>k. OnePending(c, v, D) /\ LiveSent(c, v, D, Q) /\ Awaited(c, v, D, Q, F) BY <1>9 DEF Kept
    <2>1. Pending(c, v, D) = {} BY <1>9, <2>k DEF OnePending, Carries
    <2>2. Pending(c, w, D) = {}
      <3> SUFFICES ASSUME NEW j \in Pending(c, w, D) PROVE FALSE OBVIOUS
      <3>1. j \in Made(c, D) /\ j > to /\ j \in Nat BY <1>1, <1>8 DEF Pending, Made
      <3>2. j > Len(v.seen) BY <1>8, <3>1
      <3> QED BY <2>1, <3>1, <3>2 DEF Pending
    <2>3. v.waitingSeq = Unset BY <1>9, <2>k DEF Awaited
    <2>4. \A i \in 1 .. Len(F) : ~Answers(c, F[i]) BY <2>3, <2>k DEF Awaited
    <2>5. \A n \in NumPipes, i \in Nat : ~Live(c, D, Q, n, i) BY <1>9, <2>k DEF LiveSent, Unplaced, Carries
    <2>7. Range(v.sent) = {} BY <1>9, EmptyRange
    <2>8. NoneSent(c, v, D, Q, F, w, Q) BY <1>1, <1>6, <1>7, <1>9, <2>2, <2>3, <2>4, <2>5, <2>7 DEF NoneSent
    <2> QED BY <1>2, <1>9, <2>8, AnsweredKept
  <1>10. ASSUME v.sent = <<>>, v.queued = <<>> PROVE ShownRight(w)
    <2>1. Range(w.sent) = {} /\ Range(w.queued) = {} BY <1>1, <1>10, EmptyRange
    <2>2. GivenEdits(w) = Edits(m.changes)
      <3> DEFINE z == m.changes
      <3>1. DOMAIN z \ {} = DOMAIN z /\ z = [i \in DOMAIN z |-> z[i]] BY <1>8 DEF IsSeq
      <3> HIDE DEF z
      <3>2. w.seen = z /\ w.held = {} BY <1>1 DEF z
      <3>3. [i \in DOMAIN w.seen \ w.held |-> w.seen[i]] = z BY <3>1, <3>2
      <3> QED BY <3>3 DEF GivenEdits, z
    <2> QED BY <1>1, <2>1, <2>2 DEF ShownRight
  <1> QED BY <1>1, <1>7, <1>8, <1>9, <1>10 DEF Sound

\* The frame brings v the changes y: one, or those that it missed.
Hands(v, F, u, y) ==
  \/ F[1].kind = "changed" /\ u = v /\ y = <<F[1].change>>
  \/ Missed(F[1]) /\ F[1].epoch = v.epoch /\ u = Entering(v, F[1]) /\ y = F[1].changes

\* The changes y come after those that v was given.
Follows(v, D, y) ==
  /\ IsSeq(y) /\ Len(y) \in Nat /\ Len(v.seen) + Len(y) <= Len(D.history)
  /\ \A j \in 1 .. Len(y) : y[j] = D.history[Len(v.seen) + j]

\* Whether one of the changes y is of client c.
HasOwn(c, y) == \E j \in 1 .. Len(y) : y[j].by = c

\* Changes reach the client, which forgets no batch without its answer.
LEMMA GivenRead ==
  ASSUME NEW c, NEW v, NEW D, NEW Q, NEW F, NEW u, NEW y, NEW rev, NEW how, NEW w,
         Viewed(c, v, D, F), Lawful(c, v, D, Q, F), Hands(v, F, u, y), Follows(v, D, y),
         w = AppliedAll(c, u, rev, y, how)
  PROVE  /\ Took(c, v, D, Q, F, w, Q) /\ Len(w.seen) = Len(v.seen) + Len(y)
         /\ w.peers = u.peers /\ w.loaded = v.loaded /\ DOMAIN w = ViewFields
         /\ (Forgets(v, w) => HasOwn(c, y)) /\ Sound(c, v, D, Q, F) => Sound(c, w, D, Q, Tail(F))
  <1>0. Typed(c, v, D, Q) /\ Entered(c, v, D, F) /\ Counted(c, v, D) BY DEF Lawful
  <1> DEFINE H == D.history
             L == Len(v.seen)
             n == Len(y)
             m == F[1]
  <1>2. /\ IsSeq(F) /\ F # <<>> /\ v.pipe # Unset /\ PipeRight(c, v, D) /\ DOMAIN v = ViewFields
        /\ D.epoch \in Nat /\ D.epoch # 0 /\ IsSeq(v.seen) /\ IsSeq(H) BY DEF Viewed, Given
  <1>3. Asks(c, v, D, Q, Q) BY DEF Asks
  <1>4. QueuesMore(c, Q, Q) BY <1>3, AsksFrom
  <1>5. 1 \in 1 .. Len(F) BY <1>2, Shifted
  <1>t. v.lastSeq \in Nat /\ IsSeq(v.sent) /\ IsSeq(v.queued) /\ D.seqs[c] \in Nat BY <1>0 DEF Typed
  <1>j. m.kind = "changed" => v.joined = TRUE
    <2>1. m.kind = "changed" => v.joined BY JoinedBefore
    <2>2. v.joined \in BOOLEAN => (v.joined => v.joined = TRUE) OBVIOUS
    <2> QED BY <2>1, <2>2
  <1>m. Missed(m) => m.kind = "joined" /\ m.seq \in Nat /\ (m.epoch = D.epoch => m.seq <= D.seqs[c])
    BY <1>0, <1>5 DEF Missed, Entered
  <1>1. /\ DOMAIN u = ViewFields /\ u.pipe = v.pipe /\ u.joined = TRUE /\ u.edits = v.edits
        /\ u.queued = v.queued /\ u.sent = v.sent /\ u.removed = v.removed /\ u.held = v.held
        /\ u.waitingSeq = v.waitingSeq /\ u.epoch = v.epoch /\ u.seen = v.seen /\ u.shown = v.shown
        /\ u.loaded = v.loaded /\ u.lastSeq \in Nat
        /\ \/ Missed(m) /\ u.lastSeq = m.seq /\ v.epoch = m.epoch /\ y = m.changes
           \/ m.kind = "changed" /\ u.lastSeq = v.lastSeq /\ y = <<m.change>>
    <2>1. CASE m.kind = "changed" /\ u = v /\ y = <<m.change>> BY <1>2, <1>j, <1>t, <2>1
    <2>2. CASE Missed(m) /\ m.epoch = v.epoch /\ u = Entering(v, m) /\ y = m.changes
      BY <1>2, <1>m, <2>2 DEF Entering, ViewFields
    <2> QED BY <2>1, <2>2 DEF Hands
  <1>6. /\ n \in Nat /\ L \in Nat /\ Len(H) \in Nat
        /\ \A j \in 1 .. n : y[j] = H[L + j] /\ L + j > L /\ L + j \in 1 .. Len(H)
    <2>1. Len(H) \in Nat /\ L \in Nat BY <1>2, WholeSeq
    <2> QED BY <2>1 DEF Follows
  <1>g. w = AppliedAll(c, u, rev, y, how) OBVIOUS
  <1> HIDE DEF m, H, L, n
  <1>7. ASSUME NEW j \in 1 .. n, y[j].by = c
        PROVE  L + j \in Pending(c, v, D) /\ y[j] = D.history[L + j] /\ y[j].seq \in Nat
    <2>1. L + j \in Made(c, D) BY <1>6, <1>7 DEF Made, H
    <2> QED BY <1>0, <1>6, <1>7, <2>1 DEF Pending, Counted, H, L
  <1>8. Fits(c, u, y, n, w)
    <2>1. IsSeq(u.seen) /\ IsSeq(u.sent) /\ IsSeq(u.queued) BY <1>1, <1>2, <1>t
    <2> QED BY <1>1, <1>6, <1>7, <1>g, <2>1, AppliedAllFits DEF n
  <1>9. /\ DOMAIN w = ViewFields /\ w.pipe = v.pipe /\ w.joined = TRUE /\ w.epoch = v.epoch
        /\ w.edits = v.edits /\ w.peers = u.peers /\ w.loaded = v.loaded /\ Len(w.seen) = L + n
        /\ QueuedLeft(v, w) /\ IsSeq(w.sent) /\ Range(w.sent) \subseteq Range(v.sent)
        /\ w.waitingSeq \in {v.waitingSeq, Unset} /\ w.lastSeq \in Nat BY <1>1, <1>8 DEF Fits, QueuedLeft, L
  <1>10. Took(c, v, D, Q, F, w, Q) BY <1>2, <1>4, <1>9 DEF Took
  <1>k. Kept(c, v, D, Q, F) =>
          OnePending(c, v, D) /\ LiveSent(c, v, D, Q) /\ Early(c, v, D, Q, F) /\ Awaited(c, v, D, Q, F)
          /\ SeqKnown(c, v, D, F) BY DEF Kept
  <1>p. \A j \in Made(c, D) : j \in Nat /\ j \in 1 .. Len(H) /\ H[j].by = c BY <1>6 DEF Made, H
  <1>11. ASSUME Kept(c, v, D, Q, F), Forgets(v, w) => HasOwn(c, y), ~HasOwn(c, y)
         PROVE  Kept(c, w, D, Q, Tail(F))
    <2> DEFINE x == [w EXCEPT !.sent = v.sent, !.queued = v.queued, !.removed = v.removed]
    <2>1. SentLeft(v, w) /\ w.waitingSeq = v.waitingSeq /\ w.lastSeq = u.lastSeq
      <3>1. \A j \in 1 .. n : y[j].by # c BY <1>11 DEF HasOwn, n
      <3> QED BY <1>1, <1>8, <3>1 DEF Fits, SentLeft
    <2>2. /\ x.sent = v.sent /\ x.queued = v.queued /\ x.removed = v.removed /\ x.pipe = w.pipe
          /\ x.joined = w.joined /\ x.epoch = w.epoch /\ x.edits = w.edits /\ x.seen = w.seen
          /\ x.waitingSeq = w.waitingSeq /\ x.lastSeq = w.lastSeq BY <1>9 DEF ViewFields
    <2> HIDE DEF x
    <2>3. Pending(c, x, D) = Pending(c, v, D)
      <3>1. ASSUME NEW j \in Made(c, D), j > L PROVE j > L + n
        <4>1. CASE j <= L + n
          <5>1. j - L \in 1 .. n /\ L + (j - L) = j BY <1>6, <1>p, <3>1, <4>1
          <5> QED BY <1>6, <1>11, <1>p, <5>1 DEF HasOwn, n
        <4> QED BY <1>6, <1>p, <4>1
      <3>2. \A j \in Made(c, D) : j > L + n => j > L BY <1>6, <1>p
      <3> QED BY <1>9, <2>2, <3>1, <3>2 DEF Pending, L
    <2>4. FewerLives(c, v, D, Q, x, D, Q) BY <1>3, <1>9, <2>2, <2>3, AsksLives DEF SameEdits
    <2>5. Took(c, v, D, Q, F, x, Q) BY <1>10, <1>t, <2>2 DEF Took, QueuedLeft
    <2>6. Read(c, v, D, Q, F, x, Q)
      <3>1. CASE Missed(m)
        <4>0. y = m.changes BY <1>1, <1>m, <3>1
        <4>1. Len(x.seen) = L + n /\ Len(x.seen) \in Nat BY <1>6, <1>9, <2>2
        <4> QED BY <1>1, <1>9, <1>m, <2>1, <2>2, <2>4, <2>5, <3>1, <4>0, <4>1 DEF Read, m, n, L
      <3>2. CASE m.kind = "changed" /\ u.lastSeq = v.lastSeq /\ y = <<m.change>>
        <4>1. Len(y) = 1 /\ y[1] = m.change BY <3>2
        <4>2. m.change.by # c BY <1>11, <4>1 DEF HasOwn
        <4> QED BY <1>9, <1>j, <2>1, <2>2, <2>4, <2>5, <3>2, <4>2 DEF Read, Answers, Own, m
      <3> QED BY <1>1, <3>1, <3>2
    <2>7. Kept(c, x, D, Q, Tail(F)) BY <1>2, <1>11, <2>6, ReadKept
    <2>8. Pruned(x, w) /\ (w.sent = <<>> => x.sent = <<>>)
      BY <1>9, <1>11, <2>1, <2>2 DEF Pruned, QueuedLeft, SentLeft, Forgets
    <2> QED BY <2>7, <2>8, PrunedKeeps
  <1>12. ASSUME Kept(c, v, D, Q, F), HasOwn(c, y) PROVE Kept(c, w, D, Q, Tail(F))
    <2>1. PICK i \in 1 .. n : y[i].by = c BY <1>12 DEF HasOwn, n
    <2>2. /\ L + i \in Pending(c, v, D) /\ L + i \in Made(c, D) /\ L + i \in Nat
          /\ Carries(v, D.history[L + i].body) /\ \A j \in Pending(c, v, D) : j = L + i
      BY <1>7, <1>12, <1>k, <1>p, <2>1 DEF OnePending, Pending
    <2>3. /\ w.waitingSeq = Unset /\ \A j \in 1 .. Len(F) : j # 1 => ~Answers(c, F[j])
          /\ v.epoch = D.epoch => u.lastSeq <= D.seqs[c]
      <3>1. CASE Missed(m)
        <4>1. v.waitingSeq = Unset BY <1>1, <1>2, <1>12, <1>k, <1>m, <2>1, <3>1 DEF Early, n, m
        <4> QED BY <1>1, <1>9, <1>12, <1>k, <1>m, <3>1, <4>1 DEF Awaited
      <3>2. CASE m.kind = "changed" /\ u.lastSeq = v.lastSeq /\ y = <<m.change>>
        <4>1. Len(y) = 1 /\ y[1] = m.change BY <3>2
        <4>2. i = 1 /\ y[i] = m.change BY <2>1, <4>1 DEF n
        <4>3. Own(c, F[1]) /\ Answers(c, F[1]) BY <2>1, <3>2, <4>2 DEF Own, Answers, m
        <4>4. y[i].seq = u.waitingSeq BY <1>1, <1>5, <1>12, <1>k, <4>2, <4>3 DEF Awaited, m
        <4>5. w.waitingSeq = Unset BY <1>8, <2>1, <4>4 DEF Fits
        <4>6. v.epoch = D.epoch => v.lastSeq <= D.seqs[c] BY <1>5, <1>12, <1>k, <4>3 DEF SeqKnown
        <4> QED BY <1>5, <1>12, <1>k, <3>2, <4>3, <4>5, <4>6 DEF Awaited
      <3> QED BY <1>1, <3>1, <3>2
    <2>4. w.sent = <<>> BY <1>8, <2>1 DEF Fits
    <2>6. \A k \in NumPipes, j \in Nat : ~Live(c, D, Q, k, j) BY <1>12, <1>k, <2>2 DEF LiveSent
    <2>7. Pending(c, w, D) = {}
      <3> SUFFICES ASSUME NEW j \in Pending(c, w, D) PROVE FALSE OBVIOUS
      <3>1. j \in Made(c, D) /\ j > L + n /\ j \in Nat BY <1>9, <1>p DEF Pending
      <3>2. j > L BY <1>6, <3>1
      <3>3. j = L + i BY <2>2, <3>1, <3>2 DEF Pending, L
      <3> QED BY <1>6, <2>1, <3>1, <3>3
    <2>8. \A e \in Range(v.sent) : \E j \in Made(c, D) : e \in Range(D.history[j].body) BY <2>2 DEF Carries
    <2>10. w.epoch = D.epoch => w.lastSeq <= D.seqs[c]
      <3> SUFFICES ASSUME v.epoch = D.epoch PROVE w.lastSeq <= D.seqs[c] BY <1>9
      <3>2. ASSUME NEW j \in 1 .. n, y[j].by = c PROVE y[j].seq <= D.seqs[c]
        <4> DEFINE h == Len(D.history)
                   d == D.rev
                   r == v.rev
                   k == L + j
        <4>1. L = h - d + r /\ h \in Nat /\ d \in Nat /\ r \in Nat /\ k > L /\ k \in Nat
          BY <1>6 DEF Viewed, Given, L, H
        <4>k. k \in Made(c, D) /\ y[j] = D.history[k] BY <1>7, <3>2 DEF Pending
        <4> HIDE DEF h, d, r, k
        <4>2. k > h - d BY <4>1
        <4>3. k > Len(D.history) - D.rev BY <4>2 DEF h, d
        <4> QED BY <1>0, <4>k, <4>3 DEF Counted
      <3> QED BY <1>8, <1>t, <2>3, <3>2 DEF Fits
    <2>11. NoneSent(c, v, D, Q, F, w, Q) BY <1>10, <2>3, <2>4, <2>6, <2>7, <2>8, <2>10 DEF NoneSent
    <2> QED BY <1>2, <1>12, <2>11, AnsweredKept
  <1>13. ASSUME ShownRight(v), Kept(c, v, D, Q, F) PROVE ShownRight(w)
    <2>1. ShownRight(u)
      <3>1. GivenEdits(u) = GivenEdits(v) BY <1>1 DEF GivenEdits
      <3> QED BY <1>1, <1>13, <3>1 DEF ShownRight
    <2>2. Lone(c, y, u)
      <3>1. ASSUME NEW i \in 1 .. n, NEW j \in 1 .. n, y[i].by = c, y[j].by = c PROVE i = j
        <4>1. L + i = L + j BY <1>7, <1>13, <1>k, <3>1 DEF OnePending
        <4> QED BY <1>6, <4>1
      <3>2. \A j \in 1 .. n : y[j].by = c => Carries(v, y[j].body) BY <1>7, <1>13, <1>k DEF OnePending
      <3> QED BY <1>1, <3>1, <3>2 DEF Lone, Carries, n
    <2> QED BY <1>8, <2>1, <2>2 DEF Fits
  <1> QED BY <1>9, <1>10, <1>11, <1>12, <1>13 DEF L, n, Sound

----------------
(* A person who edits. *)

\* The edit e waits in the outbox, and the editor shows it.
Edited(c, v) ==
  [v EXCEPT !.edits = v.edits + 1, !.queued = Append(v.queued, <<c, v.edits + 1>>),
            !.shown = v.shown \cup {<<c, v.edits + 1>>}]

LEMMA EditedFields ==
  ASSUME NEW c, NEW v, DOMAIN v = ViewFields, NEW w, w = Edited(c, v)
  PROVE  /\ w.pipe = v.pipe /\ w.joined = v.joined /\ w.epoch = v.epoch /\ w.rev = v.rev
         /\ w.waitingSeq = v.waitingSeq /\ w.lastSeq = v.lastSeq /\ w.sent = v.sent /\ w.seen = v.seen
         /\ w.peers = v.peers /\ DOMAIN w = ViewFields /\ w.loaded = v.loaded
         /\ w.edits = v.edits + 1 /\ w.queued = Append(v.queued, <<c, v.edits + 1>>)
         /\ w.shown = v.shown \cup {<<c, v.edits + 1>>} /\ w.held = v.held /\ w.removed = v.removed
  BY DEF Edited, ViewFields

LEMMA EditedKeeps ==
  ASSUME NEW c, NEW v, NEW D, NEW Q, NEW F, DOMAIN v = ViewFields, NEW w, w = Edited(c, v), Lawful(c, v, D, Q, F)
  PROVE  /\ Lawful(c, w, D, Q, F)
         /\ Sound(c, v, D, Q, F) => Sound(c, w, D, Q, F)
  <1> DEFINE e == <<c, v.edits + 1>>
  <1>0. Typed(c, v, D, Q) /\ Alone(c, D) /\ Entered(c, v, D, F) /\ Counted(c, v, D) BY DEF Lawful
  <1>1. /\ w.pipe = v.pipe /\ w.joined = v.joined /\ w.epoch = v.epoch
        /\ w.waitingSeq = v.waitingSeq /\ w.lastSeq = v.lastSeq /\ w.sent = v.sent /\ w.seen = v.seen
        /\ w.edits = v.edits + 1 /\ w.queued = Append(v.queued, e) /\ w.shown = v.shown \cup {e}
        /\ w.held = v.held /\ w.removed = v.removed BY EditedFields
  <1>2. v.edits \in Nat /\ IsSeq(v.queued) /\ Range(v.queued) \subseteq EditsBy(c, v)
        /\ Range(v.sent) \subseteq EditsBy(c, v) BY <1>0 DEF Typed
  <1>3. EditsBy(c, w) = EditsBy(c, v) \cup {e} /\ e \notin EditsBy(c, v)
    <2>1. 1 .. v.edits + 1 = (1 .. v.edits) \cup {v.edits + 1} /\ v.edits + 1 \notin 1 .. v.edits BY <1>2
    <2> QED BY <1>1, <2>1 DEF EditsBy
  <1> HIDE DEF e
  <1>4. Range(w.queued) = Range(v.queued) \cup {e} /\ IsSeq(w.queued) BY <1>1, <1>2, RangeMore, AppendSeq
  <1>5. Typed(c, w, D, Q)
    <2>1. ASSUME NEW n \in NumPipes, NEW i \in Nat, i \in 1 .. Len(Q[<<c, n>>])
          PROVE  /\ Q[<<c, n>>][i].kind = "change" => /\ Q[<<c, n>>][i].seq \in Nat
                                                      /\ IsSeq(Q[<<c, n>>][i].body)
                                                      /\ Range(Q[<<c, n>>][i].body) \subseteq EditsBy(c, w)
                 /\ Q[<<c, n>>][i].kind = "join" => Q[<<c, n>>][i].epoch \in Nat /\ Q[<<c, n>>][i].epoch <= D.epoch
      <3>1. /\ Q[<<c, n>>][i].kind = "change" => /\ Q[<<c, n>>][i].seq \in Nat
                                                 /\ IsSeq(Q[<<c, n>>][i].body)
                                                 /\ Range(Q[<<c, n>>][i].body) \subseteq EditsBy(c, v)
            /\ Q[<<c, n>>][i].kind = "join" => Q[<<c, n>>][i].epoch \in Nat /\ Q[<<c, n>>][i].epoch <= D.epoch
        BY <1>0, <2>1 DEF Typed
      <3> QED BY <1>3, <3>1
    <2>2. v.edits + 1 \in Nat BY <1>2
    <2>3. /\ v.waitingSeq \in Nat /\ v.lastSeq \in Nat /\ D.seqs[c] \in Nat /\ IsSeq(v.sent) BY <1>0 DEF Typed
    <2> QED BY <1>1, <1>2, <1>3, <1>4, <2>1, <2>2, <2>3 DEF Typed
  <1>6. Entered(c, w, D, F) BY <1>0, <1>1 DEF Entered
  <1>7. Counted(c, w, D) BY <1>0, <1>3 DEF Counted
  <1>8. ASSUME Kept(c, v, D, Q, F) PROVE Kept(c, w, D, Q, F)
    <2>k. /\ HeldOnce(c, v, D) /\ OnePending(c, v, D)
          /\ LiveSent(c, v, D, Q) /\ LiveOnce(c, D, Q) /\ Behind(c, v, D, Q)
          /\ NextLive(c, v, D, Q, F) /\ SeqKnown(c, v, D, F) /\ Awaited(c, v, D, Q, F)
          /\ Early(c, v, D, Q, F) /\ Settled(c, v, D, F) BY <1>8 DEF Kept
    <2>1. Pending(c, w, D) = Pending(c, v, D) BY <1>1 DEF Pending
    <2>2. HeldOnce(c, w, D)
      <3>1. \A x \in EditsBy(c, w) : \/ x \in Range(w.sent) \cup Range(w.queued) \cup w.removed
                                     \/ \E j \in Made(c, D) : x \in Range(D.history[j].body)
        BY <1>1, <1>3, <1>4, <2>k DEF HeldOnce
      <3>2. Range(w.sent) \cap Range(w.queued) = {} BY <1>1, <1>2, <1>3, <1>4, <2>k DEF HeldOnce
      <3>3. ASSUME NEW j \in Made(c, D)
            PROVE  /\ Range(D.history[j].body) \cap Range(w.queued) = {}
                   /\ j \notin Pending(c, w, D) => Range(D.history[j].body) \cap Range(w.sent) = {}
        <4>1. Range(D.history[j].body) \subseteq EditsBy(c, v) BY <1>0 DEF Counted
        <4>2. /\ Range(D.history[j].body) \cap Range(v.queued) = {}
              /\ j \notin Pending(c, v, D) => Range(D.history[j].body) \cap Range(v.sent) = {}
          BY <2>k DEF HeldOnce
        <4> QED BY <1>1, <1>3, <1>4, <2>1, <4>1, <4>2
      <3> QED BY <2>k, <3>1, <3>2, <3>3 DEF HeldOnce
    <2>3. OnePending(c, w, D) BY <1>1, <2>1, <2>k DEF OnePending, Carries
    <2>7. LiveSent(c, w, D, Q)
      <3> SUFFICES ASSUME NEW n \in NumPipes, NEW i \in Nat, Live(c, D, Q, n, i)
                   PROVE  Pending(c, w, D) = {} /\ Unplaced(c, w, D, Q[<<c, n>>][i].body) BY DEF LiveSent
      <3> DEFINE b == Q[<<c, n>>][i].body
      <3>1. Pending(c, v, D) = {} /\ Unplaced(c, v, D, b) BY <2>k DEF LiveSent
      <3>2. Range(b) \subseteq EditsBy(c, v) BY <1>0 DEF Typed, Live
      <3> HIDE DEF b
      <3>3. Carries(w, b) BY <1>1, <3>1 DEF Unplaced, Carries
      <3>4. Unplaced(c, w, D, b) BY <1>3, <1>4, <3>1, <3>2, <3>3 DEF Unplaced
      <3> QED BY <2>1, <3>1, <3>4 DEF b
    <2>4. Behind(c, w, D, Q) /\ NextLive(c, w, D, Q, F) BY <1>1, <2>k DEF Behind, NextLive
    <2>5. SeqKnown(c, w, D, F) /\ Awaited(c, w, D, Q, F) BY <1>1, <2>1, <2>k DEF SeqKnown, Awaited
    <2>6. Early(c, w, D, Q, F) /\ Settled(c, w, D, F) BY <1>1, <2>1, <2>k DEF Early, Settled
    <2> QED BY <2>2, <2>3, <2>4, <2>5, <2>6, <2>7, <2>k DEF Kept
  <1>9. ASSUME ShownRight(v) PROVE ShownRight(w)
    <2>1. GivenEdits(w) = GivenEdits(v) BY <1>1 DEF GivenEdits
    <2> QED BY <1>1, <1>4, <1>9, <2>1 DEF ShownRight
  <1> QED BY <1>0, <1>5, <1>6, <1>7, <1>8, <1>9 DEF Lawful, Sound

----------------
(* A step of others. *)

\* Nothing of client c changes, and no change of it is ordered.
Elsewhere(c, D, Q, D2, Q2) ==
  /\ \A k : On(c, D2, k) <=> On(c, D, k)
  /\ \A k : On(c, D, k) => D2.seats[<<c, k>>] = D.seats[<<c, k>>]
  /\ \A k \in NumPipes : Q2[<<c, k>>] = Q[<<c, k>>]
  /\ D2.epoch = D.epoch /\ D2.seqs[c] = D.seqs[c]
  /\ \/ D2.history = D.history /\ D2.rev = D.rev
     \/ \E x : x.by # c /\ D2.history = Append(D.history, x) /\ D2.rev = D.rev + 1

LEMMA ElsewhereEdits ==
  ASSUME NEW c, NEW v, NEW D, NEW Q, NEW D2, NEW Q2, Given(v, D), Elsewhere(c, D, Q, D2, Q2)
  PROVE  SameEdits(c, v, D, v, D2) /\ RevsFrom(c, D, D2)
  <1>0. /\ IsSeq(D.history) /\ D.rev \in Nat /\ D2.epoch = D.epoch /\ D2.seqs[c] = D.seqs[c]
    BY DEF Given, Elsewhere
  <1>1. CASE D2.history = D.history /\ D2.rev = D.rev BY <1>0, <1>1 DEF SameEdits, RevsFrom, Made, Pending
  <1>2. ASSUME NEW x, x.by # c, D2.history = Append(D.history, x), D2.rev = D.rev + 1
        PROVE  SameEdits(c, v, D, v, D2) /\ RevsFrom(c, D, D2)
    <2> DEFINE H == D.history
               H2 == D2.history
    <2>1. /\ Len(H) \in Nat /\ Len(H2) = Len(H) + 1 /\ H2[Len(H) + 1] = x
          /\ \A i \in 1 .. Len(H) : H2[i] = H[i] BY <1>0, <1>2, AppendSeq
    <2>2. 1 .. Len(H2) = (1 .. Len(H)) \cup {Len(H) + 1} /\ Len(H) + 1 \notin 1 .. Len(H) BY <2>1
    <2>3. Len(H2) - (D.rev + 1) = Len(H) - D.rev
      <3> DEFINE h == Len(H)
                 h2 == Len(H2)
                 d == D.rev
      <3>1. h \in Nat /\ d \in Nat /\ h2 = h + 1 BY <1>0, <2>1
      <3> HIDE DEF h, h2, d
      <3>2. h2 - (d + 1) = h - d BY <3>1
      <3> QED BY <3>2 DEF h, h2, d
    <2> HIDE DEF H, H2
    <2>4. Made(c, D2) = Made(c, D) /\ \A j \in Made(c, D) : H2[j] = H[j] BY <1>2, <2>1, <2>2 DEF Made, H, H2
    <2>5. Pending(c, v, D2) = Pending(c, v, D) BY <2>4 DEF Pending
    <2>6. SameEdits(c, v, D, v, D2) BY <2>4, <2>5 DEF SameEdits, H, H2
    <2>7. RevsFrom(c, D, D2) BY <1>0, <1>2, <2>3 DEF RevsFrom, H, H2
    <2> QED BY <2>6, <2>7
  <1> QED BY <1>1, <1>2 DEF Elsewhere

LEMMA ElsewhereApart ==
  ASSUME NEW c, NEW v, NEW D, NEW Q, NEW F, NEW D2, NEW Q2, NEW F2,
         Given(v, D), Alone(c, D), Elsewhere(c, D, Q, D2, Q2), FramesMore(c, v, D, F, F2)
  PROVE  Apart(c, v, D, Q, F, D2, Q2, F2)
  <1>1. SameEdits(c, v, D, v, D2) /\ RevsFrom(c, D, D2) BY ElsewhereEdits
  <1>2. /\ \A k : On(c, D2, k) <=> On(c, D, k)
        /\ \A k : On(c, D, k) => D2.seats[<<c, k>>] = D.seats[<<c, k>>]
        /\ \A k \in NumPipes : Q2[<<c, k>>] = Q[<<c, k>>]
        /\ D2.epoch = D.epoch /\ D2.seqs[c] = D.seqs[c] BY DEF Elsewhere
  <1>3. \A k : (In(c, D2, k) <=> In(c, D, k)) /\ (Waits(c, D2, k) <=> Waits(c, D, k)) BY <1>2 DEF In, Waits
  <1>4. SeatKept(c, v, D, D2) BY <1>2, <1>3 DEF SeatKept
  <1>5. QueuesFrom(c, Q, Q2) BY <1>2 DEF QueuesFrom
  <1>6. Alone(c, D2)
    <2>1. \A k : In(c, D, k) => D2.seats[<<c, k>>] = D.seats[<<c, k>>] BY <1>2 DEF In
    <2> QED BY <1>3, <2>1 DEF Alone
  <1>7. FewerLives(c, v, D, Q, v, D2, Q2)
    <2>1. \A n \in NumPipes, i \in Nat : Live(c, D2, Q2, n, i) <=> Live(c, D, Q, n, i) BY <1>2 DEF Live
    <2>2. ASSUME NEW n \in NumPipes PROVE \E s \in Nat : LiveBefore(c, D, Q, D2, Q2, n, s)
      <3>1. LiveBefore(c, D, Q, D2, Q2, n, 0)
        <4>1. \A i \in Nat : i + 0 = i OBVIOUS
        <4> QED BY <1>2, <2>1, <4>1 DEF LiveBefore
      <3> QED BY <3>1
    <2>3. ASSUME NEW n \in NumPipes, NEW i \in Nat, Waits(c, D2, n), Live(c, D2, Q2, n, i)
          PROVE  1 \in 1 .. Len(Q2[<<c, n>>])
      <3> DEFINE l == Len(Q2[<<c, n>>])
      <3>1. i \in 1 .. l BY <2>3 DEF Live
      <3> HIDE DEF l
      <3> QED BY <3>1 DEF l
    <2> QED BY <1>1, <1>2, <1>3, <2>2, <2>3 DEF FewerLives
  <1> QED BY <1>1, <1>4, <1>5, <1>6, <1>7 DEF Apart

----------------
(* The inductive invariant of edits.                                       *)

Held(c) ==
  /\ Lawful(c, view[c], doc, toDoc, Frames(c))
  /\ risk[c] = {} => Sound(c, view[c], doc, toDoc, Frames(c))

EditInv ==
  /\ DOMAIN doc.seqs = Clients /\ Signed(doc.history)
  /\ \A c \in Clients : Held(c)

\* The log never begins after its end, and there are three ways to give up
\* to know what became of a batch.
Tidy == doc.firstRev <= doc.rev /\ risk \in [Clients -> SUBSET {"snapshot", "early", "moved"}]

\* What the chain of frames says of a view.
LEMMA ClientFacts ==
  ASSUME SyncInv, NEW c \in Clients
  PROVE  /\ IsSeq(Frames(c)) /\ Given(view[c], doc) /\ PipeRight(c, view[c], doc)
         /\ doc.epoch \in Nat /\ doc.epoch # 0 /\ IsSeq(doc.history)
         /\ EarlierEpochs(view[c], doc, Frames(c)) /\ MissedRight(view[c], doc, Frames(c))
         /\ Frames(c) # <<>> =>
              /\ Viewed(c, view[c], doc, Frames(c)) /\ <<c, view[c].pipe>> \in Pipe
              /\ Frames(c) = toView[<<c, view[c].pipe>>]
              /\ \E to \in Nat : Link(Frames(c)[1], 1, Len(view[c].seen), to, view[c].epoch,
                                      doc.history, doc.epoch)
         /\ \A n : <<c, n>> \in Pipe <=> n \in NumPipes
  <1> DEFINE v == view[c]
             F == Frames(c)
             p == <<c, view[c].pipe>>
  <1>0. Shape /\ ViewRight(c) /\ FramesRight(c) BY DEF SyncInv
  <1>1. \A n : <<c, n>> \in Pipe <=> n \in NumPipes BY DEF Pipe, NumPipes
  <1>2. v.pipe # Unset => p \in Pipe BY <1>0, CurrentPipe
  <1>3. IsSeq(F)
    <2>1. IsSeq(<<>>) BY DEF IsSeq
    <2> QED BY <1>0, <1>2, <2>1 DEF Shape, Frames
  <1>4. Given(v, doc) /\ doc.epoch \in Nat /\ doc.epoch # 0 /\ IsSeq(doc.history) /\ doc.rev <= Len(doc.history)
    BY <1>0 DEF Given, Shape, ViewRight
  <1>5. PipeRight(c, v, doc) BY SMTT(40), <1>0, <1>1, <1>2 DEF PipeRight, On, Shape
  <1>6. ASSUME F # <<>>
        PROVE  /\ v.pipe # Unset /\ F = toView[p]
               /\ \A i \in 1 .. Len(F) : F[i].kind = "joined" => F[i].epoch \in Nat /\ F[i].epoch <= doc.epoch
               /\ \E to \in Nat : Link(F[1], 1, Len(v.seen), to, v.epoch, doc.history, doc.epoch)
    <2>1. v.pipe # Unset /\ F = toView[p] BY <1>6 DEF Frames
    <2>2. Chain(F, Len(v.seen), v.epoch, doc.history, doc.epoch, Before) BY <1>0, <2>1 DEF FramesRight, Ahead
    <2>3. PICK pos \in [0 .. Len(F) -> Nat] : Chained(F, pos, Len(v.seen), v.epoch, doc.history, doc.epoch, Before)
      BY <2>2 DEF Chain
    <2>4. /\ pos[0] = Len(v.seen)
          /\ \A i \in 1 .. Len(F) : Link(F[i], i, pos[i - 1], pos[i], v.epoch, doc.history, doc.epoch)
      BY <2>3 DEF Chained, Links
    <2> HIDE DEF F
    <2>5. 1 \in 1 .. Len(F) /\ Len(F) \in Nat BY <1>3, <1>6, Shifted
    <2>6. Link(F[1], 1, pos[0], pos[1], v.epoch, doc.history, doc.epoch) /\ pos[1] \in Nat BY <2>4, <2>5
    <2>7. \A i \in 1 .. Len(F) : F[i].kind = "joined" => F[i].epoch \in Nat /\ F[i].epoch <= doc.epoch
      BY <2>4 DEF Link
    <2> QED BY <2>1, <2>4, <2>6, <2>7
  <1> HIDE DEF F
  <1>7. EarlierEpochs(v, doc, F)
    <2>1. v.epoch \in Nat /\ v.epoch <= doc.epoch BY <1>0 DEF ViewRight
    <2>2. \A i \in 1 .. Len(F) : F[i].kind = "joined" => F[i].epoch \in Nat /\ F[i].epoch <= doc.epoch
      <3>1. F = <<>> => Len(F) = 0 BY <1>3, OneMoreFrame
      <3>2. F = <<>> => \A i \in 1 .. Len(F) : FALSE BY <3>1
      <3> QED BY <1>6, <3>2
    <2> QED BY <1>4, <2>1, <2>2 DEF EarlierEpochs
  <1>8. MissedRight(v, doc, F)
    <2> SUFFICES ASSUME F # <<>>, Missed(F[1])
                 PROVE  \E to \in Nat : /\ Len(v.seen) <= to /\ to <= Len(doc.history)
                                        /\ F[1].changes = SubSeq(doc.history, Len(v.seen) + 1, to)
      BY DEF MissedRight
    <2>1. PICK to \in Nat : Link(F[1], 1, Len(v.seen), to, v.epoch, doc.history, doc.epoch) BY <1>6
    <2> QED BY <2>1 DEF Link, Missed
  <1>9. ASSUME F # <<>> PROVE Viewed(c, v, doc, F)
    <2>1. v.pipe # Unset BY <1>6, <1>9
    <2>2. /\ DOMAIN v = ViewFields /\ v.seen = SubSeq(doc.history, 1, Len(v.seen)) /\ v.rev \in Nat
          /\ v.epoch = doc.epoch => Len(v.seen) = Len(doc.history) - doc.rev + v.rev
      BY <1>0 DEF ViewRight, Before
    <2>3. IsSeq(v.seen)
      <3> DEFINE l == Len(v.seen)
      <3>1. l \in Nat /\ l <= Len(doc.history) /\ v.seen = SubSeq(doc.history, 1, l) BY <1>4, <2>2 DEF Given
      <3> HIDE DEF l
      <3> QED BY <1>4, <3>1, BeginSeq
    <2> QED BY <1>3, <1>4, <1>5, <1>9, <2>1, <2>2, <2>3 DEF Viewed
  <1> QED BY <1>1, <1>2, <1>3, <1>4, <1>5, <1>6, <1>7, <1>8, <1>9 DEF F

----------------
(* Steps of the document that are not about a change of client c. *)

\* No seat of client c is better, and pipe n does not wait for its join.
SeatsGone(c, D, n, D2) ==
  /\ D2.history = D.history /\ D2.rev = D.rev /\ D2.epoch = D.epoch /\ D2.seqs = D.seqs
  /\ \A k : On(c, D2, k) => On(c, D, k) /\ D2.seats[<<c, k>>] = D.seats[<<c, k>>]
  /\ ~Waits(c, D2, n)

LEMMA FewerSeatsApart ==
  ASSUME NEW c, NEW v, NEW D, NEW Q, NEW F, NEW n \in NumPipes, NEW D2, NEW Q2, NEW F2,
         Alone(c, D), Popped(c, Q, n, Q2), SeatsGone(c, D, n, D2), FramesMore(c, v, D, F, F2)
  PROVE  Apart(c, v, D, Q, F, D2, Q2, F2)
  <1>1. SameEdits(c, v, D, v, D2) /\ RevsFrom(c, D, D2) BY DEF SeatsGone, SameEdits, RevsFrom, Made, Pending
  <1>2. \A k : /\ On(c, D2, k) => On(c, D, k)
               /\ In(c, D2, k) => In(c, D, k) /\ D2.seats[<<c, k>>] = D.seats[<<c, k>>]
               /\ Waits(c, D2, k) => Waits(c, D, k) BY DEF SeatsGone, In, Waits
  <1>3. SeatKept(c, v, D, D2) BY <1>2 DEF SeatKept
  <1>4. QueuesFrom(c, Q, Q2) BY PoppedFrom
  <1>5. Alone(c, D2) BY <1>2 DEF Alone
  <1>6. SeatsLess(c, D, n, D2) BY <1>2 DEF SeatsGone, SeatsLess
  <1>8. FewerLives(c, v, D, Q, v, D2, Q2) BY <1>1, <1>6, PoppedLives
  <1> QED BY <1>1, <1>3, <1>4, <1>5, <1>8 DEF Apart

\* A pipe of client c gets at most a frame that answers nothing.
Gets(c) ==
  \A k \in NumPipes :
    \/ toView'[<<c, k>>] = toView[<<c, k>>]
    \/ In(c, doc, k) /\ \E m : /\ toView'[<<c, k>>] = Append(toView[<<c, k>>], m)
                               /\ m.kind \in {"changed", "peer", "left"} /\ ~Own(c, m)

LEMMA GetsFrames ==
  ASSUME SyncInv, NEW c \in Clients, view' = view, Gets(c)
  PROVE  FramesMore(c, view[c], doc, Frames(c), Frames(c)')
  <1> DEFINE k == view[c].pipe
  <1>1. PipeRight(c, view[c], doc) BY ClientFacts
  <1>2. CASE k = Unset BY <1>2 DEF Frames, FramesMore
  <1>3. CASE k # Unset
    <2>1. k \in NumPipes BY <1>1, <1>3 DEF PipeRight
    <2>2. Frames(c) = toView[<<c, k>>] /\ Frames(c)' = toView'[<<c, k>>] BY <1>3 DEF Frames
    <2>3. \/ toView'[<<c, k>>] = toView[<<c, k>>]
          \/ In(c, doc, k) /\ \E m : /\ toView'[<<c, k>>] = Append(toView[<<c, k>>], m)
                                     /\ m.kind \in {"changed", "peer", "left"} /\ ~Own(c, m) BY <2>1 DEF Gets
    <2> QED BY <2>2, <2>3 DEF FramesMore
  <1> QED BY <1>2, <1>3

\* What a step of the document shows of client c.
Goes(c) ==
  /\ Lawful(c, view[c], doc', toDoc', Frames(c)')
  /\ Kept(c, view[c], doc, toDoc, Frames(c)) => Kept(c, view[c], doc', toDoc', Frames(c)')

LEMMA GoesHeld ==
  ASSUME NEW c \in Clients, Held(c), view' = view, risk' = risk, Goes(c) PROVE Held(c)'
  BY DEF Held, Goes, Sound

LEMMA ApartGoes ==
  ASSUME SyncInv, NEW c \in Clients, Held(c),
         Apart(c, view[c], doc, toDoc, Frames(c), doc', toDoc', Frames(c)')
  PROVE  Goes(c)
  <1> DEFINE v == view[c]
             F == Frames(c)
             D2 == doc'
             Q2 == toDoc'
             F2 == Frames(c)'
             D == doc
             Q == toDoc
  <1>1. IsSeq(F) /\ PipeRight(c, v, D) /\ Lawful(c, v, D, Q, F) BY ClientFacts DEF Held
  <1>2. Apart(c, v, D, Q, F, D2, Q2, F2) OBVIOUS
  <1>g. (Lawful(c, v, D2, Q2, F2) /\ (Kept(c, v, D, Q, F) => Kept(c, v, D2, Q2, F2))) => Goes(c) BY DEF Goes
  <1> HIDE DEF v, F, D2, Q2, F2, D, Q
  <1>3. /\ Lawful(c, v, D2, Q2, F2)
        /\ Kept(c, v, D, Q, F) => Kept(c, v, D2, Q2, F2) BY <1>1, <1>2, ApartKeeps
  <1> QED BY <1>3, <1>g

LEMMA OthersGo ==
  ASSUME SyncInv, NEW c \in Clients, Held(c), view' = view, Elsewhere(c, doc, toDoc, doc', toDoc'), Gets(c)
  PROVE  Goes(c)
  <1>1. Given(view[c], doc) /\ Alone(c, doc) BY ClientFacts DEF Held, Lawful
  <1>2. FramesMore(c, view[c], doc, Frames(c), Frames(c)') BY GetsFrames
  <1>3. Apart(c, view[c], doc, toDoc, Frames(c), doc', toDoc', Frames(c)') BY <1>1, <1>2, ElsewhereApart
  <1> QED BY <1>3, ApartGoes

LEMMA PoppedGoes ==
  ASSUME SyncInv, NEW c \in Clients, Held(c), view' = view, NEW n \in NumPipes,
         Popped(c, toDoc, n, toDoc'), SeatsGone(c, doc, n, doc'), Gets(c)
  PROVE  Goes(c)
  <1>1. Alone(c, doc) BY DEF Held, Lawful
  <1>2. FramesMore(c, view[c], doc, Frames(c), Frames(c)') BY GetsFrames
  <1>3. Apart(c, view[c], doc, toDoc, Frames(c), doc', toDoc', Frames(c)') BY <1>1, <1>2, FewerSeatsApart
  <1> QED BY <1>3, ApartGoes

\* The document takes a frame of pipe p, which is one of its client's.
LEMMA TakenOf ==
  ASSUME SyncInv, NEW p \in Pipe, toDoc[p] # <<>>, toDoc' = [toDoc EXCEPT ![p] = Tail(@)], NEW c \in Clients
  PROVE  /\ p[1] # c => \A k \in NumPipes : toDoc'[<<c, k>>] = toDoc[<<c, k>>]
         /\ p[1] = c => p[2] \in NumPipes /\ p = <<c, p[2]>> /\ Popped(c, toDoc, p[2], toDoc')
         /\ p[1] \in Clients
  <1>1. DOMAIN toDoc = Pipe /\ \A r \in Pipe : IsSeq(toDoc[r]) BY DEF SyncInv, Shape
  <1>2. p[1] \in Clients /\ p[2] \in NumPipes /\ p = <<p[1], p[2]>> BY DEF Pipe, NumPipes
  <1>3. \A k \in NumPipes : <<c, k>> \in Pipe BY DEF Pipe, NumPipes
  <1>4. \A r \in Pipe : r # p => toDoc'[r] = toDoc[r] BY <1>1
  <1>5. toDoc'[p] = Tail(toDoc[p]) BY <1>1
  <1>6. ASSUME p[1] # c PROVE \A k \in NumPipes : toDoc'[<<c, k>>] = toDoc[<<c, k>>]
    <2>1. \A k \in NumPipes : <<c, k>> # p BY <1>2, <1>6
    <2> QED BY <1>3, <1>4, <2>1
  <1>7. ASSUME p[1] = c
        PROVE  p = <<c, p[2]>> /\ Popped(c, toDoc, p[2], toDoc')
    <2>1. p = <<c, p[2]>> BY <1>2, <1>7
    <2>2. \A k \in NumPipes : k # p[2] => <<c, k>> # p BY <2>1
    <2>3. \A k \in NumPipes : k # p[2] => toDoc'[<<c, k>>] = toDoc[<<c, k>>] BY <1>3, <1>4, <2>2
    <2>4. IsSeq(toDoc[p]) BY <1>1
    <2> HIDE DEF Pipe
    <2>5. Popped(c, toDoc, p[2], toDoc') BY <1>5, <2>1, <2>3, <2>4 DEF Popped
    <2> QED BY <2>1, <2>5
  <1> QED BY <1>2, <1>6, <1>7

\* A pipe ends, and the others that joined hear of it.
LEMMA LeaveHeld ==
  ASSUME SyncInv, EditInv, NEW p \in Pipe, toDoc[p] # <<>>, toDoc' = [toDoc EXCEPT ![p] = Tail(@)],
         Leave(p), view' = view, NEW c \in Clients
  PROVE  Goes(c)
  <1> DEFINE seats == Without(doc.seats, {p})
             told == IF p \in Joined(doc.seats) THEN Joined(seats) ELSE {}
             m == [kind |-> "left", id |-> p[1]]
  <1>0. Shape /\ Held(c) BY DEF SyncInv, EditInv
  <1>1. doc' = [doc EXCEPT !.seats = seats] /\ toView' = Sent(told, m) BY DEF Leave
  <1>2. /\ DOMAIN seats = DOMAIN doc.seats \ {p} /\ \A r \in DOMAIN seats : seats[r] = doc.seats[r]
    BY DEF Without
  <1>3. /\ doc'.seats = seats /\ doc'.history = doc.history /\ doc'.seqs = doc.seqs
        /\ doc'.epoch = doc.epoch /\ doc'.rev = doc.rev BY <1>0, <1>1 DEF Shape, DocFields
  <1> HIDE DEF seats
  <1>4. told \subseteq Joined(doc.seats) /\ Joined(doc.seats) \subseteq DOMAIN doc.seats BY <1>2 DEF Joined
  <1>5. m.kind \in {"changed", "peer", "left"} /\ ~Own(c, m) BY DEF Own
  <1> HIDE DEF told, m
  <1>6. \A r \in Pipe : /\ r \notin told => toView'[r] = toView[r]
                        /\ r \in told => toView'[r] = Append(toView[r], m) BY <1>0, <1>1, <1>4, SentResult
  <1>7. Gets(c)
    <2> SUFFICES ASSUME NEW k \in NumPipes
                 PROVE  \/ toView'[<<c, k>>] = toView[<<c, k>>]
                        \/ In(c, doc, k) /\ \E x : /\ toView'[<<c, k>>] = Append(toView[<<c, k>>], x)
                                                   /\ x.kind \in {"changed", "peer", "left"} /\ ~Own(c, x)
      BY DEF Gets
    <2>1. <<c, k>> \in Pipe BY DEF Pipe, NumPipes
    <2>2. <<c, k>> \in told => In(c, doc, k) BY <1>4 DEF Joined, In, On
    <2> QED BY <1>5, <1>6, <2>1, <2>2
  <1>8. CASE p[1] # c
    <2>1. \A k : <<c, k>> # p BY <1>8
    <2>2. \A k \in NumPipes : toDoc'[<<c, k>>] = toDoc[<<c, k>>] BY <1>8, TakenOf
    <2>3. \A k : (On(c, doc', k) <=> On(c, doc, k)) /\ (On(c, doc, k) => doc'.seats[<<c, k>>] = doc.seats[<<c, k>>])
      BY <1>2, <1>3, <2>1 DEF On
    <2>4. Elsewhere(c, doc, toDoc, doc', toDoc') BY <1>3, <2>2, <2>3 DEF Elsewhere
    <2> QED BY <1>0, <1>7, <2>4, OthersGo
  <1>9. CASE p[1] = c
    <2>1. p[2] \in NumPipes /\ p = <<c, p[2]>> /\ Popped(c, toDoc, p[2], toDoc') BY <1>9, TakenOf
    <2>2. \A k : On(c, doc', k) => On(c, doc, k) /\ doc'.seats[<<c, k>>] = doc.seats[<<c, k>>]
      BY <1>2, <1>3 DEF On
    <2>3. ~Waits(c, doc', p[2])
      <3>1. <<c, p[2]>> \notin DOMAIN doc'.seats BY <1>2, <1>3, <2>1
      <3> QED BY <3>1 DEF Waits, On
    <2>4. SeatsGone(c, doc, p[2], doc') BY <1>3, <2>2, <2>3 DEF SeatsGone
    <2> QED BY <1>0, <1>7, <2>1, <2>4, PoppedGoes
  <1> QED BY <1>8, <1>9

\* The seat of a pipe is its client's.
LEMMA SeatOwners ==
  ASSUME SyncInv, EditInv, NEW q \in Joined(doc.seats)
  PROVE  /\ q \in Pipe /\ q \in DOMAIN doc.seats /\ q[1] \in Clients /\ q[2] \in NumPipes
         /\ q = <<q[1], q[2]>> /\ doc.seats[q] = q[1]
  <1>1. q \in DOMAIN doc.seats /\ doc.seats[q] # NoClient /\ q \in Pipe BY DEF Joined, SyncInv, Shape
  <1>2. q[1] \in Clients /\ q[2] \in NumPipes /\ q = <<q[1], q[2]>> BY <1>1 DEF Pipe, NumPipes
  <1> DEFINE b == q[1]
             n == q[2]
  <1>3. b \in Clients /\ n \in NumPipes /\ q = <<b, n>> BY <1>2
  <1> HIDE DEF b, n
  <1>4. In(b, doc, n) BY <1>1, <1>3 DEF In, On
  <1>5. doc.seats[<<b, n>>] = b BY <1>3, <1>4 DEF EditInv, Held, Lawful, Alone
  <1> QED BY <1>1, <1>2, <1>3, <1>5 DEF b, n

\* A pipe joins: older pipes of the same client end.
LEMMA JoinGoes ==
  ASSUME SyncInv, EditInv, NEW p \in Pipe, p \notin Joined(doc.seats), toDoc[p] # <<>>,
         toDoc' = [toDoc EXCEPT ![p] = Tail(@)], Join(p, Head(toDoc[p])), view' = view, NEW c \in Clients
  PROVE  Goes(c)
  <1> DEFINE message == Head(toDoc[p])
             b == p[1]
             older == {q \in Joined(doc.seats) : doc.seats[q] = b}
             rest == Without(doc.seats, older)
             seats == Seat(rest, p, b)
             others == Joined(rest)
             missed == message.epoch = doc.epoch /\ message.rev > 0 /\ HasSince(message.rev)
             f == [kind |-> "joined", epoch |-> doc.epoch, rev |-> doc.rev,
                   seq |-> doc.seqs[b], peers |-> {rest[q] : q \in Joined(rest)}, snapshot |-> ~missed,
                   changes |-> IF missed THEN Since(message.rev) ELSE doc.history]
             m == [kind |-> "peer", id |-> b]
  <1>0. Shape /\ Held(c) BY DEF SyncInv, EditInv
  <1>1. IF p \in DOMAIN rest
          THEN doc' = [doc EXCEPT !.seats = seats] /\ toView' = [Sent(others, m) EXCEPT ![p] = Append(@, f)]
          ELSE doc' = [doc EXCEPT !.seats = rest] /\ toView' = toView BY DEF Join
  <1>2. /\ DOMAIN rest = DOMAIN doc.seats \ older /\ \A r \in DOMAIN rest : rest[r] = doc.seats[r]
        /\ DOMAIN seats = DOMAIN rest \cup {p} /\ seats[p] = b
        /\ \A r \in DOMAIN rest : r # p => seats[r] = rest[r] BY DEF Without, Seat
  <1>3. \A q \in DOMAIN doc.seats : q \in older <=> (doc.seats[q] # NoClient /\ q[1] = b)
    <2>1. \A q \in Joined(doc.seats) : doc.seats[q] = q[1] BY SeatOwners
    <2> QED BY <2>1 DEF Joined
  <1>4. p \notin older /\ (p \in DOMAIN rest <=> p \in DOMAIN doc.seats) BY <1>2
  <1>5. /\ others \subseteq Joined(doc.seats) /\ p \notin others /\ others \subseteq DOMAIN doc.seats
        /\ \A q \in others : q[1] # b BY <1>2, <1>3 DEF Joined
  <1>6. /\ m.kind \in {"changed", "peer", "left"} /\ ~Own(c, m)
        /\ f.kind = "joined" /\ f.epoch = doc.epoch /\ f.seq = doc.seqs[b]
        /\ ~f.snapshot => missed /\ f.changes = Since(message.rev) BY DEF Own
  <1>7. /\ doc'.history = doc.history /\ doc'.seqs = doc.seqs /\ doc'.epoch = doc.epoch /\ doc'.rev = doc.rev
        /\ doc'.seats = IF p \in DOMAIN rest THEN seats ELSE rest BY <1>0, <1>1 DEF Shape, DocFields
  <1> HIDE DEF f, m
  <1>8. /\ \A r \in Pipe : r # p /\ toView'[r] # toView[r] => r \in others /\ toView'[r] = Append(toView[r], m)
        /\ toView'[p] = IF p \in DOMAIN rest THEN Append(toView[p], f) ELSE toView[p]
    <2>1. CASE p \notin DOMAIN rest BY <1>1, <2>1
    <2>2. CASE p \in DOMAIN rest
      <3> DEFINE s == Sent(others, m)
      <3>1. toView' = [s EXCEPT ![p] = Append(@, f)] BY <1>1, <2>2
      <3>2. DOMAIN s = Pipe /\ \A r \in Pipe : s[r] = IF r \in others THEN Append(toView[r], m) ELSE toView[r]
        BY DEF Sent
      <3> HIDE DEF s, others
      <3>3. \A r \in Pipe : r # p => toView'[r] = s[r] BY <3>1, <3>2
      <3>4. toView'[p] = Append(s[p], f) BY <3>1, <3>2
      <3>5. s[p] = toView[p] BY <1>5, <3>2
      <3> QED BY <2>2, <3>2, <3>3, <3>4, <3>5
    <2> QED BY <2>1, <2>2
  <1> HIDE DEF rest, seats, others, older
  <1>9. b \in Clients /\ p[2] \in NumPipes /\ p = <<b, p[2]>> BY DEF Pipe, NumPipes
  <1>10. \A k : On(c, doc, k) => <<c, k>> \in Pipe /\ k \in NumPipes BY <1>0 DEF On, Shape, Pipe, NumPipes
  <1>11. CASE c # b
    <2>1. \A k : <<c, k>> # p /\ (On(c, doc, k) => <<c, k>> \notin older) BY <1>3, <1>11 DEF On
    <2>2. \A k \in NumPipes : toDoc'[<<c, k>>] = toDoc[<<c, k>>] BY <1>11, TakenOf
    <2>3. \A k : (On(c, doc', k) <=> On(c, doc, k)) /\ (On(c, doc, k) => doc'.seats[<<c, k>>] = doc.seats[<<c, k>>])
      BY <1>2, <1>7, <2>1 DEF On
    <2>4. Elsewhere(c, doc, toDoc, doc', toDoc') BY <1>7, <2>2, <2>3 DEF Elsewhere
    <2>5. Gets(c)
      <3> SUFFICES ASSUME NEW k \in NumPipes
                   PROVE  \/ toView'[<<c, k>>] = toView[<<c, k>>]
                          \/ In(c, doc, k) /\ \E x : /\ toView'[<<c, k>>] = Append(toView[<<c, k>>], x)
                                                     /\ x.kind \in {"changed", "peer", "left"} /\ ~Own(c, x)
        BY DEF Gets
      <3>1. <<c, k>> \in Pipe /\ <<c, k>> # p BY <2>1 DEF Pipe, NumPipes
      <3>2. <<c, k>> \in others => In(c, doc, k) BY <1>5 DEF Joined, In, On
      <3> QED BY <1>6, <1>8, <3>1, <3>2
    <2> QED BY <1>0, <2>4, <2>5, OthersGo
  <1>12. CASE c = b
    <2> DEFINE n == p[2]
    <2>1. n \in NumPipes /\ p = <<c, n>> /\ Popped(c, toDoc, n, toDoc') BY <1>12, TakenOf
    <2>c. c = b BY <1>12
    <2> HIDE DEF n
    <2>2. \A k \in NumPipes : k # n => toView'[<<c, k>>] = toView[<<c, k>>]
      <3> SUFFICES ASSUME NEW k \in NumPipes, k # n PROVE toView'[<<c, k>>] = toView[<<c, k>>] OBVIOUS
      <3>1. <<c, k>> \in Pipe /\ <<c, k>> # p /\ <<c, k>>[1] = b BY <2>1, <2>c DEF Pipe, NumPipes
      <3> QED BY <1>5, <1>8, <3>1
    <2>3. CASE p \notin DOMAIN rest
      <3>1. Gets(c)
        <4>1. \A k \in NumPipes : toView'[<<c, k>>] = toView[<<c, k>>] BY <1>8, <2>1, <2>2, <2>3
        <4> QED BY <4>1 DEF Gets
      <3>2. \A k : On(c, doc', k) => On(c, doc, k) /\ doc'.seats[<<c, k>>] = doc.seats[<<c, k>>]
        BY <1>2, <1>7, <2>3 DEF On
      <3>3. ~Waits(c, doc', n) BY <1>7, <2>1, <2>3 DEF Waits, On
      <3>4. SeatsGone(c, doc, n, doc') BY <1>7, <3>2, <3>3 DEF SeatsGone
      <3> QED BY <1>0, <2>1, <3>1, <3>4, PoppedGoes
    <2>4. CASE p \in DOMAIN rest
      <3> DEFINE v == view[c]
                 F == Frames(c)
                 F2 == Frames(c)'
      <3>1. Waits(c, doc, n) BY <1>4, <2>1, <2>4 DEF Waits, On, Joined
      <3>2. In(c, doc', n) /\ doc'.seats[<<c, n>>] = c
        <4>1. doc'.seats = seats /\ p \in DOMAIN seats /\ seats[p] = c /\ c # NoClient
          BY <1>2, <1>7, <2>4, <2>c, DocumentSyncAssumption
        <4> QED BY <2>1, <4>1 DEF In, On
      <3>3. ASSUME NEW k \in Nat, k # n, On(c, doc', k)
            PROVE  Waits(c, doc, k) /\ Waits(c, doc', k)
        <4> DEFINE r == <<c, k>>
        <4>1. r # p /\ r \in DOMAIN seats BY <1>7, <2>1, <2>4, <3>3 DEF On
        <4>2. r \in DOMAIN rest /\ r \in DOMAIN doc.seats /\ r \notin older /\ doc'.seats[r] = doc.seats[r]
          BY <1>2, <1>7, <2>4, <4>1
        <4>3. r[1] = b BY <2>c
        <4>4. doc.seats[r] = NoClient BY <1>3, <4>2, <4>3
        <4>5. r \in DOMAIN doc'.seats BY <1>7, <2>4, <4>1
        <4> QED BY <4>2, <4>4, <4>5 DEF Waits, On
      <3>4. n # v.pipe => F2 = F
        <4>1. PipeRight(c, v, doc) BY ClientFacts
        <4>2. v.pipe = Unset \/ v.pipe \in NumPipes BY <4>1 DEF PipeRight
        <4> QED BY <2>2, <4>2 DEF Frames
      <3>5. ASSUME n = v.pipe
            PROVE  /\ F2 = Append(F, f)
                   /\ ~f.snapshot => /\ v.epoch = doc.epoch
                                     /\ f.changes = SubSeq(doc.history, Len(v.seen) + 1, Len(doc.history))
        <4>1. v.pipe # Unset /\ p = <<c, v.pipe>> BY <2>1, <3>5 DEF NumPipes, Unset
        <4>2. F = toView[p] /\ F2 = toView'[p] BY <4>1 DEF Frames
        <4>3. F2 = Append(F, f) BY <1>8, <2>4, <4>2
        <4>4. FramesRight(c) /\ ViewRight(c) /\ Unjoined(doc.seats, p)
          BY <2>1, <3>1 DEF SyncInv, Unjoined, Waits, On
        <4>5. toDoc[p][1] = JoinOf(v) BY <4>1, <4>4 DEF FramesRight
        <4>6. IsSeq(toDoc[p]) BY <1>0 DEF Shape
        <4>7. message = JoinOf(v) BY <4>5, <4>6, TailSeq
        <4>8. message.epoch = v.epoch /\ message.rev = v.rev BY <4>7 DEF JoinOf
        <4>9. ASSUME ~f.snapshot
              PROVE  /\ v.epoch = doc.epoch
                     /\ f.changes = SubSeq(doc.history, Len(v.seen) + 1, Len(doc.history))
          <5>1. v.epoch = doc.epoch /\ f.changes = Since(v.rev) BY <1>6, <4>8, <4>9
          <5>2. Len(v.seen) = Len(doc.history) - doc.rev + v.rev BY <4>4, <5>1 DEF ViewRight, Before
          <5> QED BY <5>1, <5>2 DEF Since
        <4> QED BY <4>3, <4>9
      <3>6. JoinedOn(c, v, doc, toDoc, F, n, f, doc', toDoc', F2)
        BY <1>6, <1>7, <2>1, <2>c, <3>1, <3>2, <3>3, <3>4, <3>5 DEF JoinedOn
      <3>7. /\ IsSeq(F) /\ Given(v, doc) /\ doc.epoch # 0 /\ PipeRight(c, v, doc) /\ Lawful(c, v, doc, toDoc, F)
        BY <1>0, ClientFacts DEF Held
      <3> HIDE DEF F, F2, v
      <3>8. /\ Lawful(c, v, doc', toDoc', F2)
            /\ Kept(c, v, doc, toDoc, F) => Kept(c, v, doc', toDoc', F2)
        <4> DEFINE D == doc
                   Q == toDoc
                   D2 == doc'
                   Q2 == toDoc'
        <4>1. /\ JoinedOn(c, v, D, Q, F, n, f, D2, Q2, F2) /\ n \in NumPipes
              /\ IsSeq(F) /\ Given(v, D) /\ D.epoch # 0 /\ PipeRight(c, v, D) /\ Lawful(c, v, D, Q, F)
          BY <2>1, <3>6, <3>7
        <4> HIDE DEF D, Q, D2, Q2
        <4>2. /\ Lawful(c, v, D2, Q2, F2)
              /\ Kept(c, v, D, Q, F) => Kept(c, v, D2, Q2, F2) BY <4>1, JoinedKeeps
        <4> QED BY <4>2 DEF D, Q, D2, Q2
      <3> QED BY <3>8 DEF Goes, F, F2, v
    <2> QED BY <2>3, <2>4
  <1> QED BY <1>11, <1>12

\* A change of another gets its place.
LEMMA OrderedOthers ==
  ASSUME SyncInv, EditInv, NEW by, NEW seq, NEW body, Ordered(by, seq, body), view' = view,
         NEW c \in Clients, by # c, \A k \in NumPipes : toDoc'[<<c, k>>] = toDoc[<<c, k>>]
  PROVE  Goes(c)
  <1> DEFINE x == [by |-> by, seq |-> seq, body |-> body]
             m == [kind |-> "changed", rev |-> doc.rev + 1, change |-> x]
  <1>0. Shape /\ Held(c) /\ DOMAIN doc.seqs = Clients BY DEF SyncInv, EditInv
  <1>1. /\ doc'.history = Append(doc.history, x) /\ doc'.rev = doc.rev + 1 /\ doc'.epoch = doc.epoch
        /\ doc'.seats = doc.seats
        /\ doc'.seqs = IF by = File THEN doc.seqs ELSE [doc.seqs EXCEPT ![by] = seq]
        /\ toView' = Sent(Joined(doc.seats), m) BY <1>0 DEF Ordered, Shape, DocFields
  <1>2. x.by # c /\ m.kind = "changed" /\ ~Own(c, m) BY DEF Own
  <1> HIDE DEF x, m
  <1>3. doc'.seqs[c] = doc.seqs[c] BY <1>0, <1>1
  <1>4. Elsewhere(c, doc, toDoc, doc', toDoc')
    <2>1. \A k : (On(c, doc', k) <=> On(c, doc, k)) /\ (On(c, doc, k) => doc'.seats[<<c, k>>] = doc.seats[<<c, k>>])
      BY <1>1 DEF On
    <2> QED BY <1>1, <1>2, <1>3, <2>1 DEF Elsewhere
  <1>5. Gets(c)
    <2> SUFFICES ASSUME NEW k \in NumPipes
                 PROVE  \/ toView'[<<c, k>>] = toView[<<c, k>>]
                        \/ In(c, doc, k) /\ \E y : /\ toView'[<<c, k>>] = Append(toView[<<c, k>>], y)
                                                   /\ y.kind \in {"changed", "peer", "left"} /\ ~Own(c, y)
      BY DEF Gets
    <2> DEFINE to == Joined(doc.seats)
    <2>1. <<c, k>> \in Pipe BY DEF Pipe, NumPipes
    <2>2. <<c, k>> \in to => In(c, doc, k) BY DEF Joined, In, On
    <2>3. toView'[<<c, k>>] = IF <<c, k>> \in to THEN Append(toView[<<c, k>>], m) ELSE toView[<<c, k>>]
      BY <1>1, <2>1 DEF Sent
    <2> HIDE DEF to
    <2> QED BY <1>2, <2>2, <2>3
  <1> QED BY <1>0, <1>4, <1>5, OthersGo

\* A change of client c gets its place.
LEMMA OrderedOwn ==
  ASSUME SyncInv, EditInv, NEW c \in Clients, NEW n \in NumPipes, NEW p, p = <<c, n>>, p \in Joined(doc.seats),
         toDoc[p] # <<>>, toDoc' = [toDoc EXCEPT ![p] = Tail(@)], view' = view,
         Live(c, doc, toDoc, n, 1), Ordered(c, toDoc[p][1].seq, toDoc[p][1].body)
  PROVE  Goes(c)
  <1> DEFINE x == [by |-> c, seq |-> toDoc[p][1].seq, body |-> toDoc[p][1].body]
             f == [kind |-> "changed", rev |-> doc.rev + 1, change |-> x]
             v == view[c]
             F == Frames(c)
             F2 == Frames(c)'
  <1>0. Shape /\ Held(c) /\ DOMAIN doc.seqs = Clients BY DEF SyncInv, EditInv
  <1>p. p \in Pipe /\ p[1] = c BY DEF Pipe, NumPipes
  <1>1. /\ doc'.history = Append(doc.history, x) /\ doc'.rev = doc.rev + 1 /\ doc'.epoch = doc.epoch
        /\ doc'.seats = doc.seats
        /\ doc'.seqs = IF c = File THEN doc.seqs ELSE [doc.seqs EXCEPT ![c] = x.seq]
        /\ toView' = Sent(Joined(doc.seats), f) BY <1>0 DEF Ordered, Shape, DocFields
  <1>2. x.by = c /\ x.seq = toDoc[<<c, n>>][1].seq /\ x.body = toDoc[<<c, n>>][1].body
        /\ f.kind = "changed" /\ f.change = x OBVIOUS
  <1> HIDE DEF x, f
  <1>3. doc'.seqs[c] = x.seq BY <1>0, <1>1, DocumentSyncAssumption
  <1>4. Popped(c, toDoc, n, toDoc')
    <2>1. p[2] = n OBVIOUS
    <2>2. p[1] = c => Popped(c, toDoc, p[2], toDoc') BY <1>p, TakenOf
    <2> QED BY <1>p, <2>1, <2>2
  <1>5. In(c, doc, n) BY DEF Joined, In, On
  <1>6. F2 = IF v.pipe = n THEN Append(F, f) ELSE F
    <2>1. PipeRight(c, v, doc) BY ClientFacts
    <2>2. v.pipe = Unset \/ v.pipe \in NumPipes BY <2>1 DEF PipeRight
    <2>3. CASE v.pipe = Unset BY <2>3 DEF Frames, NumPipes, Unset
    <2>4. CASE v.pipe # Unset
      <3> DEFINE k == v.pipe
                 to == Joined(doc.seats)
      <3>1. k \in NumPipes /\ <<c, k>> \in Pipe BY <2>2, <2>4 DEF Pipe, NumPipes
      <3>2. F = toView[<<c, k>>] /\ F2 = toView'[<<c, k>>] BY <2>4 DEF Frames
      <3>3. toView'[<<c, k>>] = IF <<c, k>> \in to THEN Append(toView[<<c, k>>], f) ELSE toView[<<c, k>>]
        BY <1>1, <3>1 DEF Sent
      <3>4. <<c, k>> \in to <=> k = n
        <4>1. <<c, k>> \in to => In(c, doc, k) BY DEF Joined, In, On
        <4>2. \A i, j \in NumPipes : In(c, doc, i) /\ In(c, doc, j) => i = j BY <1>0 DEF Held, Lawful, Alone
        <4> QED BY <1>5, <3>1, <4>1, <4>2
      <3> HIDE DEF k, to
      <3> QED BY <3>2, <3>3, <3>4 DEF k
    <2> QED BY <2>3, <2>4
  <1>7. Placed(c, v, doc, toDoc, F, n, x, f, doc', toDoc', F2)
    BY <1>1, <1>2, <1>3, <1>4, <1>5, <1>6 DEF Placed, Popped
  <1>8. IsSeq(F) /\ Given(v, doc) /\ PipeRight(c, v, doc) /\ Lawful(c, v, doc, toDoc, F)
    BY <1>0, ClientFacts DEF Held
  <1> DEFINE D == doc
             Q == toDoc
             D2 == doc'
             Q2 == toDoc'
  <1>9. Placed(c, v, D, Q, F, n, x, f, D2, Q2, F2) /\ IsSeq(F) /\ Given(v, D) /\ PipeRight(c, v, D) /\ Lawful(c, v, D, Q, F)
    BY <1>7, <1>8
  <1>g. (Lawful(c, v, D2, Q2, F2) /\ (Kept(c, v, D, Q, F) => Kept(c, v, D2, Q2, F2))) => Goes(c) BY DEF Goes
  <1> HIDE DEF D, Q, D2, Q2, F, F2, v
  <1>10. Lawful(c, v, D2, Q2, F2) BY <1>9, PlacedLawful
  <1>11. ASSUME Kept(c, v, D, Q, F) PROVE Kept(c, v, D2, Q2, F2) BY <1>9, <1>11, PlacedKept
  <1> QED BY <1>10, <1>11, <1>g

\* A batch of client c is refused.
LEMMA RefusedGoes ==
  ASSUME SyncInv, EditInv, NEW c \in Clients, NEW n \in NumPipes, NEW p, p = <<c, n>>, p \in Joined(doc.seats),
         toDoc[p] # <<>>, toDoc' = [toDoc EXCEPT ![p] = Tail(@)], view' = view, doc' = doc,
         Live(c, doc, toDoc, n, 1), NEW f, f.kind = "refused", toView' = Sent({p}, f)
  PROVE  Goes(c)
  <1> DEFINE v == view[c]
             F == Frames(c)
             F2 == Frames(c)'
  <1>0. Shape /\ Held(c) BY DEF SyncInv, EditInv
  <1>p. p \in Pipe /\ p[1] = c /\ p[2] = n BY DEF Pipe, NumPipes
  <1>1. Popped(c, toDoc, n, toDoc')
    <2>1. p[1] = c => Popped(c, toDoc, p[2], toDoc') BY <1>p, TakenOf
    <2> QED BY <1>p, <2>1
  <1>2. In(c, doc, n) BY DEF Joined, In, On
  <1>3. PipeRight(c, v, doc) /\ IsSeq(F) /\ Lawful(c, v, doc, toDoc, F) BY <1>0, ClientFacts DEF Held
  <1>4. v.pipe = Unset \/ v.pipe \in NumPipes BY <1>3 DEF PipeRight
  <1>5. \A k \in NumPipes : toView'[<<c, k>>] = IF k = n THEN Append(toView[<<c, k>>], f) ELSE toView[<<c, k>>]
    <2> SUFFICES ASSUME NEW k \in NumPipes
                 PROVE  toView'[<<c, k>>] = IF k = n THEN Append(toView[<<c, k>>], f) ELSE toView[<<c, k>>]
      OBVIOUS
    <2>1. <<c, k>> \in Pipe /\ (<<c, k>> \in {p} <=> k = n) BY DEF Pipe, NumPipes
    <2> QED BY <2>1 DEF Sent
  <1>6. CASE v.pipe # n
    <2>1. F2 = F BY <1>4, <1>5, <1>6 DEF Frames
    <2>2. FramesMore(c, v, doc, F, F2) BY <2>1 DEF FramesMore
    <2>3. SeatsGone(c, doc, n, doc') BY <1>2 DEF SeatsGone, In, Waits
    <2>4. Alone(c, doc) BY <1>3 DEF Lawful
    <2>5. Apart(c, v, doc, toDoc, F, doc', toDoc', F2) BY <1>1, <2>2, <2>3, <2>4, FewerSeatsApart
    <2> QED BY <1>0, <2>5, ApartGoes
  <1>7. CASE v.pipe = n
    <2>1. F2 = Append(F, f)
      <3>1. v.pipe # Unset BY <1>7 DEF NumPipes, Unset
      <3> QED BY <1>5, <1>7, <3>1 DEF Frames
    <2>2. Refused(c, v, doc, toDoc, F, f, toDoc', F2) BY <1>1, <1>2, <1>7, <2>1 DEF Refused
    <2> DEFINE D == doc
               Q == toDoc
               Q2 == toDoc'
    <2>3. Refused(c, v, D, Q, F, f, Q2, F2) /\ IsSeq(F) /\ Lawful(c, v, D, Q, F) BY <1>3, <2>2
    <2>g. (Lawful(c, v, D, Q2, F2) /\ (Kept(c, v, D, Q, F) => Kept(c, v, D, Q2, F2))) => Goes(c) BY DEF Goes
    <2> HIDE DEF D, Q, Q2, F, F2, v
    <2>4. Lawful(c, v, D, Q2, F2) BY <2>3, RefusedLawful
    <2>5. ASSUME Kept(c, v, D, Q, F) PROVE Kept(c, v, D, Q2, F2) BY <2>3, <2>5, RefusedKept
    <2> QED BY <2>4, <2>5, <2>g
  <1> QED BY <1>6, <1>7

\* The document takes the change at the head of pipe p, and c is any client.
LEMMA ChangeGoes ==
  ASSUME SyncInv, EditInv, NEW p \in Pipe, p \in Joined(doc.seats), toDoc[p] # <<>>,
         toDoc' = [toDoc EXCEPT ![p] = Tail(@)], Head(toDoc[p]).kind = "change",
         Change(p, Head(toDoc[p])), view' = view, NEW c \in Clients
  PROVE  Goes(c)
  <1> DEFINE message == Head(toDoc[p])
             b == p[1]
  <1>0. Shape /\ Held(c) BY DEF SyncInv, EditInv
  <1>1. message = toDoc[p][1] /\ 1 \in 1 .. Len(toDoc[p])
    <2>1. IsSeq(toDoc[p]) BY <1>0 DEF Shape
    <2> QED BY <2>1, Shifted
  <1>2. \/ doc' = doc /\ toView' = toView
        \/ message.seq > doc.seqs[b] /\ doc' = doc
           /\ \E f : f.kind = "refused" /\ toView' = Sent({p}, f)
        \/ message.seq > doc.seqs[b] /\ Ordered(b, message.seq, message.body) BY DEF Change, Refuse
  <1>3. b \in Clients /\ p[2] \in NumPipes /\ p = <<b, p[2]>> BY DEF Pipe, NumPipes
  <1>4. CASE b # c
    <2>1. \A k \in NumPipes : toDoc'[<<c, k>>] = toDoc[<<c, k>>] BY <1>4, TakenOf
    <2>2. CASE doc' = doc /\ (toView' = toView \/ \E f : toView' = Sent({p}, f))
      <3>1. Elsewhere(c, doc, toDoc, doc', toDoc') BY <2>1, <2>2 DEF Elsewhere
      <3>2. Gets(c)
        <4>1. \A k \in NumPipes : <<c, k>> \in Pipe /\ <<c, k>> \notin {p} BY <1>4 DEF Pipe, NumPipes
        <4>2. \A k \in NumPipes : toView'[<<c, k>>] = toView[<<c, k>>] BY <2>2, <4>1 DEF Sent
        <4> QED BY <4>2 DEF Gets
      <3> QED BY <1>0, <3>1, <3>2, OthersGo
    <2>3. CASE Ordered(b, message.seq, message.body) BY <1>4, <2>1, <2>3, OrderedOthers
    <2> QED BY <1>2, <2>2, <2>3
  <1>5. CASE b = c
    <2> DEFINE n == p[2]
    <2>1. n \in NumPipes /\ p = <<c, n>> /\ Popped(c, toDoc, n, toDoc') BY <1>5, TakenOf
    <2>2. In(c, doc, n) BY <2>1 DEF Joined, In, On
    <2> HIDE DEF n
    <2>3. message.seq > doc.seqs[b] => Live(c, doc, toDoc, n, 1) BY <1>1, <1>5, <2>1, <2>2 DEF Live, In
    <2>4. CASE doc' = doc /\ toView' = toView
      <3>1. SeatsGone(c, doc, n, doc') BY <2>2, <2>4 DEF SeatsGone, In, Waits
      <3>2. Gets(c) BY <2>4 DEF Gets
      <3> QED BY <1>0, <2>1, <3>1, <3>2, PoppedGoes
    <2>5. ASSUME message.seq > doc.seqs[b], doc' = doc, NEW f, f.kind = "refused", toView' = Sent({p}, f)
          PROVE  Goes(c) BY <2>1, <2>3, <2>5, RefusedGoes
    <2>6. CASE message.seq > doc.seqs[b] /\ Ordered(b, message.seq, message.body)
      <3>1. Live(c, doc, toDoc, n, 1) /\ Ordered(c, toDoc[p][1].seq, toDoc[p][1].body)
        BY <1>1, <1>5, <2>3, <2>6
      <3> QED BY <2>1, <3>1, OrderedOwn
    <2> QED BY <1>2, <2>4, <2>5, <2>6
  <1> QED BY <1>4, <1>5

LEMMA SignedMore ==
  ASSUME NEW H, IsSeq(H), Signed(H), NEW x, x.by \in Clients \cup {File}, \A e \in Range(x.body) : e[1] = x.by
  PROVE  Signed(Append(H, x))
  <1>1. \A i \in 1 .. Len(Append(H, x)) : (i \in 1 .. Len(H) /\ Append(H, x)[i] = H[i]) \/ Append(H, x)[i] = x
    BY OneMoreFrame
  <1> QED BY <1>1 DEF Signed

\* What a change of the document leaves.
LEMMA OrderedSigned ==
  ASSUME SyncInv, EditInv, NEW by, NEW seq, NEW body, Ordered(by, seq, body), by \in Clients \cup {File},
         \A e \in Range(body) : e[1] = by
  PROVE  Signed(doc'.history) /\ DOMAIN doc'.seqs = Clients
  <1> DEFINE x == [by |-> by, seq |-> seq, body |-> body]
  <1>1. IsSeq(doc.history) /\ Signed(doc.history) /\ DOMAIN doc.seqs = Clients BY DEF SyncInv, Shape, EditInv
  <1>2. /\ doc'.history = Append(doc.history, x)
        /\ doc'.seqs = IF by = File THEN doc.seqs ELSE [doc.seqs EXCEPT ![by] = seq]
    BY DEF Ordered, SyncInv, Shape, DocFields
  <1>3. Signed(Append(doc.history, x))
    <2>1. x.by \in Clients \cup {File} /\ \A e \in Range(x.body) : e[1] = x.by OBVIOUS
    <2> HIDE DEF x
    <2> QED BY <1>1, <2>1, SignedMore
  <1> QED BY <1>1, <1>2, <1>3

\* The document takes what a pipe carries.
LEMMA ReceiveEdits ==
  ASSUME SyncInv, EditInv, NEW p \in Pipe, Receive(p) PROVE EditInv'
  <1> DEFINE message == Head(toDoc[p])
  <1>1. toDoc[p] # <<>> /\ toDoc' = [toDoc EXCEPT ![p] = Tail(@)] /\ view' = view /\ risk' = risk
    BY DEF Receive
  <1>2. \/ p \notin Joined(doc.seats) /\ Join(p, message)
        \/ p \in Joined(doc.seats) /\ message.kind = "change" /\ Change(p, message)
        \/ Leave(p) BY DEF Receive
  <1>3. ASSUME NEW c \in Clients PROVE Goes(c) BY <1>1, <1>2, JoinGoes, ChangeGoes, LeaveHeld
  <1>4. Signed(doc'.history) /\ DOMAIN doc'.seqs = Clients
    <2>0. Shape /\ Signed(doc.history) /\ DOMAIN doc.seqs = Clients BY DEF SyncInv, EditInv
    <2>1. CASE Join(p, message) \/ Leave(p)
      <3>1. \E s : doc' = [doc EXCEPT !.seats = s] BY <2>1 DEF Join, Leave
      <3>2. doc'.history = doc.history /\ doc'.seqs = doc.seqs BY <2>0, <3>1 DEF Shape, DocFields
      <3> QED BY <2>0, <3>2
    <2>2. CASE p \in Joined(doc.seats) /\ message.kind = "change" /\ Change(p, message)
      <3> DEFINE b == p[1]
                 n == p[2]
      <3>1. b \in Clients /\ n \in NumPipes /\ p = <<b, n>> BY DEF Pipe, NumPipes
      <3>2. message = toDoc[p][1] /\ 1 \in 1 .. Len(toDoc[p])
        <4>1. IsSeq(toDoc[p]) BY <2>0 DEF Shape
        <4> QED BY <1>1, <4>1, Shifted
      <3>3. doc' = doc \/ Ordered(b, message.seq, message.body) BY <2>2 DEF Change, Refuse
      <3> HIDE DEF b, n
      <3>4. Range(message.body) \subseteq EditsBy(b, view[b])
        <4>1. Typed(b, view[b], doc, toDoc) BY <3>1 DEF EditInv, Held, Lawful
        <4>2. toDoc[<<b, n>>][1].kind = "change" /\ 1 \in 1 .. Len(toDoc[<<b, n>>]) BY <2>2, <3>1, <3>2
        <4>3. Range(toDoc[<<b, n>>][1].body) \subseteq EditsBy(b, view[b]) BY <3>1, <4>1, <4>2 DEF Typed
        <4> QED BY <3>1, <3>2, <4>3
      <3>5. \A e \in Range(message.body) : e[1] = b BY <3>4 DEF EditsBy
      <3> QED BY <2>0, <3>1, <3>3, <3>5, OrderedSigned
    <2> QED BY <1>2, <2>1, <2>2
  <1>5. ASSUME NEW c \in Clients PROVE Held(c)'
    <2>1. Held(c) BY DEF EditInv
    <2> QED BY <1>1, <1>3, <2>1, GoesHeld
  <1> QED BY <1>4, <1>5 DEF EditInv

\* Another program wrote the file.
LEMMA FileChangedEdits ==
  ASSUME SyncInv, EditInv, FileChanged PROVE EditInv'
  <1> DEFINE body == <<<<File, left.events>>>>
  <1>1. Ordered(File, 0, body) /\ toDoc' = toDoc /\ view' = view /\ risk' = risk BY DEF FileChanged
  <1>2. \A e \in Range(body) : e[1] = File BY DEF Range
  <1> HIDE DEF body
  <1>3. Signed(doc'.history) /\ DOMAIN doc'.seqs = Clients BY <1>1, <1>2, OrderedSigned
  <1>4. ASSUME NEW c \in Clients PROVE Held(c)'
    <2>1. Held(c) /\ File # c BY DocumentSyncAssumption DEF EditInv
    <2>2. Goes(c) BY <1>1, <2>1, OrderedOthers
    <2> QED BY <1>1, <2>1, <2>2, GoesHeld
  <1> QED BY <1>3, <1>4 DEF EditInv

\* A new epoch.
LEMMA EpochEdits ==
  ASSUME SyncInv, EditInv, Rebased \/ Reopen PROVE EditInv'
  <1>0. Shape /\ Signed(doc.history) /\ DOMAIN doc.seqs = Clients BY DEF SyncInv, EditInv
  <1>1. toDoc' = toDoc /\ toView' = toView /\ view' = view /\ risk' = risk BY DEF Rebased, Reopen
  <1>2. /\ doc'.history = doc.history /\ doc'.epoch = doc.epoch + 1 /\ doc'.seats = doc.seats
        /\ \/ doc'.rev = doc.rev /\ doc'.seqs = doc.seqs
           \/ doc'.rev = 0 /\ doc'.seqs = [c \in Clients |-> 0] /\ doc.seats = <<>>
    BY <1>0 DEF Rebased, Reopen, Shape, DocFields
  <1>3. Signed(doc'.history) /\ DOMAIN doc'.seqs = Clients BY <1>0, <1>2
  <1>4. ASSUME NEW c \in Clients PROVE Held(c)'
    <2> DEFINE v == view[c]
               F == Frames(c)
               D == doc
               Q == toDoc
               D2 == doc'
    <2>1. IsSeq(F) /\ Given(v, D) /\ PipeRight(c, v, D) /\ EarlierEpochs(v, D, F) /\ Lawful(c, v, D, Q, F)
      BY ClientFacts DEF EditInv, Held
    <2>2. NewEpoch(c, D, D2)
      <3>1. DOMAIN <<>> = {} OBVIOUS
      <3> QED BY <1>2, <3>1 DEF NewEpoch
    <2>3. Frames(c)' = F BY <1>1 DEF Frames
    <2>g. (Lawful(c, v, D2, Q, F) /\ (Kept(c, v, D, Q, F) => Kept(c, v, D2, Q, F))) => Goes(c)
      BY <1>1, <2>3 DEF Goes
    <2>h. Held(c) BY DEF EditInv
    <2> HIDE DEF v, F, D, Q, D2
    <2>4. /\ Lawful(c, v, D2, Q, F)
          /\ Kept(c, v, D, Q, F) => Kept(c, v, D2, Q, F) BY <2>1, <2>2, NewEpochKeeps
    <2>5. Goes(c) BY <2>4, <2>g
    <2> QED BY <1>1, <2>5, <2>h, GoesHeld
  <1> QED BY <1>3, <1>4 DEF EditInv

\* The process of the document ends.
LEMMA RestartEdits ==
  ASSUME SyncInv, EditInv, Restart PROVE EditInv'
  <1>0. Shape /\ Signed(doc.history) /\ DOMAIN doc.seqs = Clients BY DEF SyncInv, EditInv
  <1>1. toDoc' = [p \in Pipe |-> <<>>] /\ toView' = toView /\ view' = view /\ risk' = risk BY DEF Restart
  <1>2. /\ doc'.history = doc.history /\ doc'.epoch = doc.epoch /\ doc'.seats = <<>>
        /\ doc'.rev = doc.rev /\ doc'.seqs = doc.seqs BY <1>0 DEF Restart, Shape, DocFields
  <1>3. ASSUME NEW c \in Clients PROVE Held(c)'
    <2> DEFINE v == view[c]
               F == Frames(c)
               D == doc
               Q == toDoc
               D2 == doc'
               Q2 == toDoc'
    <2>1. IsSeq(F) /\ PipeRight(c, v, D) /\ Lawful(c, v, D, Q, F) BY ClientFacts DEF EditInv, Held
    <2>2. /\ D2.history = D.history /\ D2.rev = D.rev /\ D2.epoch = D.epoch /\ D2.seqs = D.seqs
          /\ DOMAIN D2.seats = {} /\ \A n \in NumPipes : Q2[<<c, n>>] = <<>>
      <3>1. DOMAIN <<>> = {} OBVIOUS
      <3>2. \A n \in NumPipes : <<c, n>> \in Pipe BY DEF Pipe, NumPipes
      <3> QED BY <1>1, <1>2, <3>1, <3>2
    <2>3. Frames(c)' = F BY <1>1 DEF Frames
    <2>g. (Lawful(c, v, D2, Q2, F) /\ (Kept(c, v, D, Q, F) => Kept(c, v, D2, Q2, F))) => Goes(c)
      BY <1>1, <2>3 DEF Goes
    <2>h. Held(c) BY DEF EditInv
    <2> HIDE DEF v, F, D, Q, D2, Q2
    <2>4. /\ Lawful(c, v, D2, Q2, F)
          /\ Kept(c, v, D, Q, F) => Kept(c, v, D2, Q2, F) BY <2>1, <2>2, RestartedKeeps
    <2>5. Goes(c) BY <2>4, <2>g
    <2> QED BY <1>1, <2>5, <2>h, GoesHeld
  <1> QED BY <1>0, <1>2, <1>3 DEF EditInv

----------------
(* Steps of a view. *)

\* A step of another view.
LEMMA AsideHeld ==
  ASSUME SyncInv, EditInv, NEW d \in Clients, view'[d] = view[d], risk'[d] = risk[d],
         Frames(d)' = Frames(d), Elsewhere(d, doc, toDoc, doc', toDoc')
  PROVE  Held(d)'
  <1>1. Held(d) /\ Given(view[d], doc) /\ Alone(d, doc) BY ClientFacts DEF EditInv, Held, Lawful
  <1>2. FramesMore(d, view[d], doc, Frames(d), Frames(d)') BY DEF FramesMore
  <1>3. Apart(d, view[d], doc, toDoc, Frames(d), doc', toDoc', Frames(d)') BY <1>1, <1>2, ElsewhereApart
  <1>4. Goes(d) BY <1>1, <1>3, ApartGoes
  <1> QED BY <1>1, <1>4 DEF Held, Goes, Sound

\* Only view c and its pipes are touched.
LEMMA AsideFrames ==
  ASSUME SyncInv, NEW c \in Clients, NEW d \in Clients \ {c}, view'[d] = view[d],
         \A r \in Pipe : r[1] # c => toView'[r] = toView[r] /\ toDoc'[r] = toDoc[r]
  PROVE  Frames(d)' = Frames(d) /\ \A k \in NumPipes : toDoc'[<<d, k>>] = toDoc[<<d, k>>]
  <1>1. \A k \in NumPipes : <<d, k>> \in Pipe /\ <<d, k>>[1] # c BY DEF Pipe, NumPipes
  <1>2. view[d].pipe = Unset \/ view[d].pipe \in NumPipes BY ClientFacts DEF PipeRight
  <1> QED BY <1>1, <1>2 DEF Frames

\* A new pipe.
LEMMA AttachEdits ==
  ASSUME SyncInv, EditInv, NEW c \in Clients, Attach(c) PROVE EditInv'
  <1> DEFINE v == view[c]
             m == pipes[c] + 1
             w == view'[c]
             p == <<c, m>>
  <1>0. Shape /\ ViewRight(c) /\ Held(c) /\ DOMAIN doc.seqs = Clients /\ Signed(doc.history)
    BY DEF SyncInv, EditInv
  <1>1. /\ view[c].pipe = Unset /\ pipes[c] < MaxPipes
        /\ view' = [view EXCEPT ![c].pipe = m, ![c].waitingSeq = Unset, ![c].joined = FALSE]
        /\ doc' = [doc EXCEPT !.seats = Seat(@, <<c, m>>, NoClient)]
        /\ toDoc' = [toDoc EXCEPT ![<<c, m>>] = <<JoinOf(view[c])>>]
        /\ toView' = toView /\ risk' = risk BY DEF Attach
  <1>2. m \in NumPipes /\ p \in Pipe /\ m > pipes[c]
    BY <1>0, <1>1, DocumentSyncAssumption DEF Shape, NumPipes, Pipe
  <1> HIDE DEF m
  <1>3. toView[p] = <<>> /\ m # Unset BY <1>0, <1>2 DEF Shape, NumPipes, Unset
  <1>4. /\ w.epoch = v.epoch /\ w.lastSeq = v.lastSeq /\ w.removed = v.removed /\ w.seen = v.seen
        /\ w.sent = v.sent /\ w.queued = v.queued /\ w.edits = v.edits
        /\ w.held = v.held /\ w.shown = v.shown /\ w.waitingSeq = Unset /\ w.pipe = m
        /\ \A d \in Clients \ {c} : view'[d] = view[d] BY <1>0, <1>1 DEF Shape, ViewRight, ViewFields
  <1>5. ~w.joined
    <2>1. w = [v EXCEPT !.pipe = m, !.waitingSeq = Unset, !.joined = FALSE] /\ DOMAIN v = ViewFields
      BY <1>0, <1>1 DEF Shape, ViewRight
    <2> HIDE DEF w, v
    <2>2. w.joined = FALSE BY <2>1 DEF ViewFields
    <2> QED BY <2>2
  <1>6. /\ doc'.history = doc.history /\ doc'.rev = doc.rev /\ doc'.epoch = doc.epoch /\ doc'.seqs = doc.seqs
        /\ DOMAIN doc'.seats = DOMAIN doc.seats \cup {p} /\ doc'.seats[p] = NoClient
        /\ \A r \in DOMAIN doc.seats : r # p => doc'.seats[r] = doc.seats[r]
    BY <1>0, <1>1 DEF Shape, DocFields, Seat
  <1>7. /\ toDoc'[p] = <<JoinOf(v)>> /\ \A r \in Pipe : r # p => toDoc'[r] = toDoc[r]
    BY <1>0, <1>1, <1>2 DEF Shape
  <1>8. Held(c)'
    <2> DEFINE j == JoinOf(v)
               F == Frames(c)
    <2>1. Frames(c)' = <<>> BY <1>1, <1>3, <1>4 DEF Frames
    <2>2. j.kind = "join" /\ j.epoch = v.epoch /\ v.epoch \in Nat /\ v.epoch <= doc.epoch
      BY <1>0 DEF JoinOf, ViewRight
    <2>3. \A k \in NumPipes : k # m => /\ toDoc'[<<c, k>>] = toDoc[<<c, k>>]
                                       /\ On(c, doc, k) => doc'.seats[<<c, k>>] = doc.seats[<<c, k>>]
      BY <1>6, <1>7 DEF On, Pipe, NumPipes
    <2>4. Attached(c, v, doc, toDoc, w, m, j, doc', toDoc')
      <3> HIDE DEF v, w, j
      <3> QED BY <1>4, <1>5, <1>6, <1>7, <2>2, <2>3 DEF Attached, j
    <2> DEFINE D == doc
               Q == toDoc
               D2 == doc'
               Q2 == toDoc'
    <2>5. Attached(c, v, D, Q, w, m, j, D2, Q2) /\ Lawful(c, v, D, Q, F) BY <1>0, <2>4 DEF Held
    <2>h. (risk[c] = {} => Sound(c, v, D, Q, F)) /\ risk'[c] = risk[c] /\ (ShownRight(v) => ShownRight(w))
      BY <1>0, <1>1, <1>4, ShownCarries DEF Held
    <2>g. (Lawful(c, w, D2, Q2, <<>>) /\ (risk'[c] = {} => Sound(c, w, D2, Q2, <<>>))) => Held(c)'
      BY <2>1 DEF Held
    <2> HIDE DEF v, w, j, F, D, Q, D2, Q2
    <2>6. /\ Lawful(c, w, D2, Q2, <<>>)
          /\ Kept(c, v, D, Q, F) => Kept(c, w, D2, Q2, <<>>) BY <1>2, <2>5, AttachedKeeps
    <2> QED BY <2>6, <2>g, <2>h DEF Sound
  <1>9. ASSUME NEW d \in Clients, d # c PROVE Held(d)'
    <2>1. view'[d] = view[d] /\ risk'[d] = risk[d] BY <1>1, <1>4, <1>9
    <2>2. \A k : <<d, k>> # p BY <1>9
    <2>3. \A r \in Pipe : r[1] # c => toView'[r] = toView[r] /\ toDoc'[r] = toDoc[r] BY <1>1, <1>7
    <2>4. Frames(d)' = Frames(d) /\ \A k \in NumPipes : toDoc'[<<d, k>>] = toDoc[<<d, k>>]
      BY <1>9, <2>1, <2>3, AsideFrames
    <2>5. \A k : (On(d, doc', k) <=> On(d, doc, k)) /\ (On(d, doc, k) => doc'.seats[<<d, k>>] = doc.seats[<<d, k>>])
      BY <1>6, <2>2 DEF On
    <2>6. Elsewhere(d, doc, toDoc, doc', toDoc') BY <1>6, <2>4, <2>5 DEF Elsewhere
    <2> QED BY <2>1, <2>4, <2>6, AsideHeld
  <1> QED BY <1>0, <1>6, <1>8, <1>9 DEF EditInv

\* A part of what a pipe carried, and its end.
LEMMA CutQueue ==
  ASSUME NEW q, IsSeq(q), NEW q2, NEW e, e.kind = "gone",
         q2 = <<>> \/ \E n \in 0 .. Len(q) : q2 = Append(SubSeq(q, 1, n), e)
  PROVE  \A i \in Nat : i \in 1 .. Len(q2) =>
           q2[i].kind = "gone" \/ (i \in 1 .. Len(q) /\ q2[i] = q[i] /\ 1 \in 1 .. Len(q2) /\ q2[1] = q[1])
  <1>1. CASE q2 = <<>> BY <1>1
  <1>2. ASSUME NEW n \in 0 .. Len(q), q2 = Append(SubSeq(q, 1, n), e)
        PROVE  \A i \in Nat : i \in 1 .. Len(q2) =>
                 q2[i].kind = "gone" \/ (i \in 1 .. Len(q) /\ q2[i] = q[i] /\ 1 \in 1 .. Len(q2) /\ q2[1] = q[1])
    <2> DEFINE s == SubSeq(q, 1, n)
    <2>0. Len(q) \in Nat /\ n \in Nat /\ n <= Len(q) BY WholeSeq
    <2>1. IsSeq(s) /\ Len(s) = n /\ \A i \in 1 .. n : s[i] = q[i] BY <2>0, BeginSeq
    <2>2. q2 = Append(s, e) BY <1>2
    <2> HIDE DEF s
    <2>3. Len(q2) = n + 1 /\ q2[n + 1] = e /\ \A i \in 1 .. n : q2[i] = s[i] BY <2>1, <2>2, AppendSeq
    <2> QED BY <2>0, <2>1, <2>3
  <1> QED BY <1>1, <1>2

\* The view loses its pipe.
LEMMA CutEdits ==
  ASSUME SyncInv, EditInv, NEW c \in Clients, Lose(c) \/ Dropped(c) PROVE EditInv'
  <1> DEFINE v == view[c]
             m == view[c].pipe
             w == view'[c]
             p == <<c, m>>
  <1>0. Shape /\ ViewRight(c) /\ Held(c) /\ DOMAIN doc.seqs = Clients /\ Signed(doc.history)
    BY DEF SyncInv, EditInv
  <1>1. /\ m # Unset /\ view' = [view EXCEPT ![c].pipe = Unset, ![c].joined = FALSE]
        /\ toView' = [toView EXCEPT ![p] = <<>>] /\ doc' = doc /\ risk' = risk BY DEF Lose, Dropped, Cut
  <1>2. m \in NumPipes /\ p \in Pipe BY <1>0, <1>1, ClientFacts DEF PipeRight, Pipe, NumPipes
  <1>3. /\ w.epoch = v.epoch /\ w.lastSeq = v.lastSeq /\ w.removed = v.removed /\ w.seen = v.seen
        /\ w.sent = v.sent /\ w.queued = v.queued /\ w.edits = v.edits /\ w.waitingSeq = v.waitingSeq
        /\ w.held = v.held /\ w.shown = v.shown /\ w.pipe = Unset
        /\ \A d \in Clients \ {c} : view'[d] = view[d] BY <1>0, <1>1 DEF Shape, ViewRight, ViewFields
  <1>4. ~w.joined
    <2>1. w = [v EXCEPT !.pipe = Unset, !.joined = FALSE] /\ DOMAIN v = ViewFields
      BY <1>0, <1>1 DEF Shape, ViewRight
    <2> HIDE DEF w, v
    <2>2. w.joined = FALSE BY <2>1 DEF ViewFields
    <2> QED BY <2>2
  <1>5. ~On(c, doc, w.pipe)
    <2>1. Unset \notin NumPipes BY DEF Unset, NumPipes
    <2>2. <<c, Unset>> \notin Pipe BY <2>1 DEF Pipe, NumPipes
    <2> QED BY <1>0, <1>3, <2>2 DEF On, Shape
  <1>6. /\ \A r \in Pipe : r # p => toDoc'[r] = toDoc[r]
        /\ toDoc'[p] = <<>> \/ \E n \in 0 .. Len(toDoc[p]) : toDoc'[p] = Append(SubSeq(toDoc[p], 1, n), [kind |-> "gone"])
    BY <1>0, <1>2 DEF Lose, Dropped, Shape
  <1>7. Held(c)'
    <2> DEFINE F == Frames(c)
               e == [kind |-> "gone"]
    <2>1. Frames(c)' = <<>> BY <1>3 DEF Frames
    <2>2. \A k \in NumPipes : k # m => toDoc'[<<c, k>>] = toDoc[<<c, k>>] BY <1>6 DEF Pipe, NumPipes
    <2>3. \A i \in Nat : i \in 1 .. Len(toDoc'[p]) =>
            \/ toDoc'[p][i].kind = "gone"
            \/ (i \in 1 .. Len(toDoc[p]) /\ toDoc'[p][i] = toDoc[p][i] /\ 1 \in 1 .. Len(toDoc'[p]) /\ toDoc'[p][1] = toDoc[p][1])
      <3> DEFINE q == toDoc[p]
                 q2 == toDoc'[p]
      <3>1. IsSeq(q) /\ e.kind = "gone" /\ (q2 = <<>> \/ \E n \in 0 .. Len(q) : q2 = Append(SubSeq(q, 1, n), e))
        BY <1>0, <1>2, <1>6 DEF Shape
      <3> HIDE DEF q, q2, e
      <3>2. \A i \in Nat : i \in 1 .. Len(q2) =>
              q2[i].kind = "gone" \/ (i \in 1 .. Len(q) /\ q2[i] = q[i] /\ 1 \in 1 .. Len(q2) /\ q2[1] = q[1])
        BY <3>1, CutQueue
      <3> QED BY <3>2 DEF q, q2
    <2>4. CutOff(c, v, doc, toDoc, w, m, toDoc')
      <3> HIDE DEF v, w, m
      <3> QED BY <1>3, <1>4, <1>5, <2>2, <2>3 DEF CutOff
    <2> DEFINE D == doc
               Q == toDoc
               Q2 == toDoc'
    <2>5. CutOff(c, v, D, Q, w, m, Q2) /\ Lawful(c, v, D, Q, F) BY <1>0, <2>4 DEF Held
    <2>h. (risk[c] = {} => Sound(c, v, D, Q, F)) /\ risk'[c] = risk[c] /\ (ShownRight(v) => ShownRight(w))
      BY <1>0, <1>1, <1>3, ShownCarries DEF Held
    <2>g. (Lawful(c, w, D, Q2, <<>>) /\ (risk'[c] = {} => Sound(c, w, D, Q2, <<>>))) => Held(c)'
      BY <1>1, <2>1 DEF Held
    <2> HIDE DEF v, w, m, F, D, Q, Q2
    <2>6. /\ Lawful(c, w, D, Q2, <<>>)
          /\ Kept(c, v, D, Q, F) => Kept(c, w, D, Q2, <<>>) BY <1>2, <2>5, CutOffKeeps
    <2> QED BY <2>6, <2>g, <2>h DEF Sound
  <1>8. ASSUME NEW d \in Clients, d # c PROVE Held(d)'
    <2>1. view'[d] = view[d] /\ risk'[d] = risk[d] BY <1>1, <1>3, <1>8
    <2>2. \A r \in Pipe : r[1] # c => toView'[r] = toView[r] /\ toDoc'[r] = toDoc[r]
      BY <1>0, <1>1, <1>6 DEF Shape
    <2>3. Frames(d)' = Frames(d) /\ \A k \in NumPipes : toDoc'[<<d, k>>] = toDoc[<<d, k>>]
      BY <1>8, <2>1, <2>2, AsideFrames
    <2>4. Elsewhere(d, doc, toDoc, doc', toDoc') BY <1>1, <2>3 DEF Elsewhere
    <2> QED BY <2>1, <2>3, <2>4, AsideHeld
  <1> QED BY <1>0, <1>1, <1>7, <1>8 DEF EditInv

\* A pipe that waits for its join has it first.
JoinFirst(c, v, D, Q) ==
  Waits(c, D, v.pipe) => Q[<<c, v.pipe>>] # <<>> /\ Q[<<c, v.pipe>>][1] = JoinOf(v)

\* Client c takes state u and pulls.
LEMMA PullGoes ==
  ASSUME SyncInv, NEW c \in Clients, NEW u, DOMAIN u = ViewFields, u.pipe = view[c].pipe, Pull(c, u), NEW F,
         Lawful(c, u, doc, toDoc, F), Given(u, doc), MissedRight(u, doc, F), JoinFirst(c, u, doc, toDoc)
  PROVE  /\ Lawful(c, view'[c], doc, toDoc', F) /\ view'[c].pipe = u.pipe
         /\ (Pulls(u) => u.joined \/ u.sent = <<>>) /\ Sound(c, u, doc, toDoc, F) =>
              Sound(c, view'[c], doc, toDoc', F)
  <1> DEFINE D == doc
             Q == toDoc
             Q2 == toDoc'
             w == view'[c]
             x == ChangeOf(u)
  <1>0. Shape BY DEF SyncInv
  <1>1. CASE ~Pulls(u)
    <2>1. w = u /\ Q2 = Q BY <1>0, <1>1 DEF Pull, Shape
    <2> QED BY <2>1
  <1>2. CASE Pulls(u)
    <2>1. view' = [view EXCEPT ![c] = Pulled(u)] /\ Post(c, ChangeOf(u)) BY <1>2 DEF Pull
    <2>2. w = Pulled(u) BY <1>0, <2>1 DEF Shape
    <2>3. toDoc' = [toDoc EXCEPT ![<<c, u.pipe>>] = Append(@, x)] BY <2>1 DEF Post
    <2>4. u.waitingSeq = Unset /\ u.pipe # Unset /\ u.sent \o u.queued # <<>> BY <1>2 DEF Pulls
    <2>5. u.pipe \in NumPipes BY <2>4, ClientFacts DEF PipeRight
    <2>6. <<c, u.pipe>> \in Pipe /\ IsSeq(Q[<<c, u.pipe>>]) /\ \A k \in NumPipes : <<c, k>> \in Pipe
      BY <1>0, <2>5 DEF Pipe, NumPipes, Shape
    <2>7. Q2[<<c, u.pipe>>] = Append(Q[<<c, u.pipe>>], x) BY <1>0, <2>3, <2>6 DEF Shape
    <2>8. \A k \in NumPipes : k # u.pipe => Q2[<<c, k>>] = Q[<<c, k>>] BY <1>0, <2>3, <2>6 DEF Shape
    <2>9. /\ w.waitingSeq = u.lastSeq + 1 /\ w.lastSeq = u.lastSeq + 1
          /\ w.sent = Batch(u) /\ w.queued = (IF u.sent = <<>> THEN <<>> ELSE u.queued)
          /\ w.pipe = u.pipe /\ w.joined = u.joined /\ w.epoch = u.epoch /\ w.seen = u.seen
          /\ w.edits = u.edits /\ w.shown = u.shown /\ w.removed = u.removed /\ w.held = u.held
      <3> DEFINE b == Batch(u)
      <3>1. w = [u EXCEPT !.waitingSeq = u.lastSeq + 1, !.lastSeq = u.lastSeq + 1,
                          !.sent = b, !.queued = IF u.sent = <<>> THEN <<>> ELSE u.queued] BY <2>2 DEF Pulled
      <3> HIDE DEF b, w
      <3>2. /\ w.waitingSeq = u.lastSeq + 1 /\ w.lastSeq = u.lastSeq + 1
            /\ w.sent = b /\ w.queued = (IF u.sent = <<>> THEN <<>> ELSE u.queued)
            /\ w.pipe = u.pipe /\ w.joined = u.joined /\ w.epoch = u.epoch /\ w.seen = u.seen
            /\ w.edits = u.edits /\ w.shown = u.shown /\ w.removed = u.removed /\ w.held = u.held
        BY <3>1 DEF ViewFields
      <3> QED BY <3>2 DEF b
    <2>10. x.kind = "change" /\ x.seq = u.lastSeq + 1 /\ x.body = Batch(u) BY DEF ChangeOf
    <2> HIDE DEF x, w
    <2>11. PullsTo(c, u, Q, w, x, Q2) BY <2>4, <2>5, <2>6, <2>7, <2>8, <2>9, <2>10 DEF PullsTo
    <2>12. /\ Lawful(c, u, D, Q, F) /\ Given(u, D) /\ MissedRight(u, D, F) /\ JoinFirst(c, u, D, Q) OBVIOUS
    <2>p. w.pipe = u.pipe BY <2>9
    <2>s. ShownRight(u) => ShownRight(w)
      <3>1. IsSeq(u.sent) /\ IsSeq(u.queued) BY <2>12 DEF Lawful, Typed
      <3>2. Range(w.sent) \cup Range(w.queued) = Range(u.sent) \cup Range(u.queued)
        BY <2>4, <2>9, <3>1, BatchFacts, EmptyRange
      <3> QED BY <2>9, <3>2, ShownCarries
    <2>g. Lawful(c, w, D, Q2, F) /\ (((Pulls(u) => u.joined \/ u.sent = <<>>) /\ Sound(c, u, D, Q, F)) => Sound(c, w, D, Q2, F))
      <3> HIDE DEF D, Q, Q2
      <3>1. Lawful(c, w, D, Q2, F) BY <2>11, <2>12, PullLawful
      <3>2. ASSUME u.joined \/ u.sent = <<>>, Kept(c, u, D, Q, F) PROVE Kept(c, w, D, Q2, F)
        <4>1. Waits(c, D, u.pipe) => Q[<<c, u.pipe>>] # <<>> /\ Q[<<c, u.pipe>>][1] = JoinOf(u)
          BY <2>12 DEF JoinFirst
        <4> QED BY <2>11, <2>12, <3>2, <4>1, PullKept
      <3> QED BY <1>2, <2>s, <3>1, <3>2 DEF Sound
    <2> QED BY <2>p, <2>g DEF w
  <1> QED BY <1>1, <1>2

\* Client c is u after the first frame, and pulls.
LEMMA TookPulls ==
  ASSUME SyncInv, NEW c \in Clients, Held(c), NEW F, F = Frames(c), NEW u, DOMAIN u = ViewFields,
         Took(c, view[c], doc, toDoc, F, u, toDoc), Len(u.seen) \in Nat, Len(u.seen) <= Len(doc.history), Pull(c, u)
  PROVE  /\ Lawful(c, view'[c], doc, toDoc', Tail(F)) /\ view'[c].pipe = view[c].pipe
         /\ Sound(c, u, doc, toDoc, Tail(F)) => Sound(c, view'[c], doc, toDoc', Tail(F))
  <1> DEFINE v == view[c]
  <1>1. Lawful(c, v, doc, toDoc, F) /\ Given(v, doc) BY ClientFacts DEF Held
  <1>2. u.pipe = v.pipe /\ u.joined = TRUE BY DEF Took
  <1>3. /\ ~Waits(c, doc, v.pipe)
        /\ ~(Tail(F) # <<>> /\ Missed(Tail(F)[1]))
    <2>1. Entered(c, v, doc, F) BY <1>1 DEF Lawful
    <2> HIDE DEF v
    <2>2. Took(c, v, doc, toDoc, F, u, toDoc) BY DEF v
    <2> QED BY <2>1, <2>2, TookFrames
  <1>4. Lawful(c, u, doc, toDoc, Tail(F)) BY <1>1, TookLawful
  <1>5. Given(u, doc) BY <1>1 DEF Given
  <1>6. MissedRight(u, doc, Tail(F)) /\ JoinFirst(c, u, doc, toDoc) BY <1>2, <1>3 DEF MissedRight, JoinFirst
  <1>7. /\ Lawful(c, view'[c], doc, toDoc', Tail(F)) /\ view'[c].pipe = u.pipe
        /\ (Pulls(u) => u.joined \/ u.sent = <<>>) /\ Sound(c, u, doc, toDoc, Tail(F)) =>
              Sound(c, view'[c], doc, toDoc', Tail(F)) BY <1>2, <1>4, <1>5, <1>6, PullGoes
  <1> QED BY <1>2, <1>7

\* What a step of client c that handles a frame shows of it.
Handled(c) ==
  /\ view'[c].pipe = view[c].pipe
  /\ Lawful(c, view'[c], doc, toDoc', Tail(Frames(c)))
  /\ risk'[c] = {} /\ Sound(c, view[c], doc, toDoc, Frames(c)) =>
       Sound(c, view'[c], doc, toDoc', Tail(Frames(c)))

\* Client c is u after the first frame, which keeps what holds of a client
\* without risk, and pulls.
LEMMA PulledHandled ==
  ASSUME SyncInv, NEW c \in Clients, Held(c), NEW F, F = Frames(c), NEW u, DOMAIN u = ViewFields,
         Took(c, view[c], doc, toDoc, F, u, toDoc), NEW to \in Nat, Len(u.seen) = to, to <= Len(doc.history),
         Pull(c, u),
         ASSUME risk'[c] = {}, Sound(c, view[c], doc, toDoc, F) PROVE Sound(c, u, doc, toDoc, Tail(F))
  PROVE  Handled(c)
  <1>1. /\ Lawful(c, view'[c], doc, toDoc', Tail(F)) /\ view'[c].pipe = view[c].pipe
        /\ Sound(c, u, doc, toDoc, Tail(F)) => Sound(c, view'[c], doc, toDoc', Tail(F)) BY TookPulls
  <1> QED BY <1>1 DEF Handled

\* Nothing is left of two sequences that are nothing together.
LEMMA NothingJoined ==
  ASSUME NEW s, NEW t, IsSeq(s), IsSeq(t), s \o t = <<>>
  PROVE  s = <<>> /\ t = <<>>
  <1>1. PICK S : s \in Seq(S) BY DEF IsSeq
  <1>2. PICK T : t \in Seq(T) BY DEF IsSeq
  <1>3. s \in Seq(S \cup T) /\ t \in Seq(S \cup T) BY <1>1, <1>2
  <1> QED BY <1>3

\* Pulling is not about peers.
LEMMA PulledPeers ==
  ASSUME Shape, NEW c \in Clients, NEW u, DOMAIN u = ViewFields, Pull(c, u)
  PROVE  view'[c].peers = u.peers /\ view'[c].pipe = u.pipe
  <1>1. view' = [view EXCEPT ![c] = Pulled(u)] \/ view' = [view EXCEPT ![c] = u] BY DEF Pull
  <1>2. Pulled(u).peers = u.peers /\ Pulled(u).pipe = u.pipe BY DEF Pulled, ViewFields
  <1> QED BY <1>1, <1>2 DEF Shape

\* Client c is given changes, and pulls.
LEMMA GivesHandled ==
  ASSUME SyncInv, NEW c \in Clients, Held(c), DOMAIN risk = Clients, NEW F, F = Frames(c), F # <<>>,
         NEW u, NEW y, NEW rev, Hands(view[c], F, u, y), Follows(view[c], doc, y), Gives(c, u, rev, y)
  PROVE  Handled(c) /\ view'[c].peers = u.peers
  <1> DEFINE v == view[c]
             D == doc
             Q == toDoc
             n == Len(v.seen) + Len(y)
  <1>p. PICK how : LET w == AppliedAll(c, u, rev, y, how) IN
                   /\ Pull(c, w)
                   /\ Blind(c, IF Forgets(u, w) /\ \A i \in DOMAIN y : y[i].by # c THEN {"moved"} ELSE {})
    BY DEF Gives
  <1> DEFINE w == AppliedAll(c, u, rev, y, how)
  <1>1. Viewed(c, v, D, F) /\ Lawful(c, v, D, Q, F) BY ClientFacts DEF Held
  <1>2. Len(v.seen) \in Nat BY <1>1 DEF Viewed, Given
  <1>3. Pull(c, w) /\ (risk'[c] = {} => (Forgets(u, w) => \E i \in DOMAIN y : y[i].by = c)) BY <1>p DEF Blind
  <1>v. v = view[c] /\ D = doc /\ Q = toDoc /\ w = AppliedAll(c, u, rev, y, how) OBVIOUS
  <1>h. Hands(v, F, u, y) /\ Follows(v, D, y) OBVIOUS
  <1>4. u.sent = v.sent
    <2>1. DOMAIN v = ViewFields BY <1>1 DEF Viewed
    <2> HIDE DEF v
    <2> QED BY <1>h, <2>1 DEF Hands, Entering, ViewFields
  <1> HIDE DEF v, D, Q, w
  <1>5. /\ Took(c, v, D, Q, F, w, Q) /\ Len(w.seen) = n /\ DOMAIN w = ViewFields /\ w.peers = u.peers
        /\ (Forgets(v, w) => HasOwn(c, y)) /\ Sound(c, v, D, Q, F) => Sound(c, w, D, Q, Tail(F))
    BY <1>1, <1>h, <1>v, GivenRead
  <1>6. n \in Nat /\ n <= Len(D.history) /\ IsSeq(y) BY <1>2, <1>h DEF Follows
  <1>7. risk'[c] = {} => (Forgets(v, w) => HasOwn(c, y)) BY <1>3, <1>4, <1>6 DEF Forgets, HasOwn, IsSeq
  <1>8. Took(c, view[c], doc, toDoc, F, w, toDoc) /\ n <= Len(doc.history) BY <1>5, <1>6, <1>v
  <1>9. ASSUME risk'[c] = {}, Sound(c, view[c], doc, toDoc, F) PROVE Sound(c, w, doc, toDoc, Tail(F))
    BY <1>5, <1>7, <1>9, <1>v
  <1>10. view'[c].peers = u.peers BY <1>3, <1>5, PulledPeers DEF SyncInv
  <1> HIDE DEF n
  <1> QED BY <1>3, <1>5, <1>6, <1>8, <1>9, <1>10, PulledHandled

\* A frame that tells the view that it joined.
LEMMA JoinedHandled ==
  ASSUME SyncInv, NEW c \in Clients, Held(c), DOMAIN risk = Clients, NEW F, F = Frames(c), F # <<>>,
         F[1].kind = "joined", HandleJoined(c, F[1])
  PROVE  Handled(c) /\ view'[c].peers = F[1].peers
  <1> DEFINE v == view[c]
             D == doc
             Q == toDoc
  <1>1. Viewed(c, v, D, F) /\ Lawful(c, v, D, Q, F) BY ClientFacts DEF Held
  <1>2. PICK to \in Nat : Link(F[1], 1, Len(v.seen), to, v.epoch, D.history, D.epoch) BY ClientFacts
  <1>3. /\ to <= Len(D.history) /\ Len(v.seen) <= to /\ F[1].rev \in Nat
        /\ F[1].snapshot => F[1].changes = SubSeq(D.history, 1, to)
        /\ ~F[1].snapshot => F[1].changes = SubSeq(D.history, Len(v.seen) + 1, to) /\ F[1].epoch = v.epoch
    BY <1>2 DEF Link
  <1>4. /\ DOMAIN v = ViewFields /\ IsSeq(D.history) /\ v.seen = SubSeq(D.history, 1, Len(v.seen))
        /\ Len(v.seen) \in Nat BY <1>1 DEF Viewed, Given
  <1>5. CASE F[1].snapshot
    <2> DEFINE w == Loading(v, F[1])
    <2>1. Blind(c, IF Unanswered(c) = <<>> THEN {} ELSE {"snapshot"}) /\ Pull(c, w)
      BY <1>5 DEF HandleJoined, Loading, Entering
    <2>2. DOMAIN w = ViewFields /\ w.peers = F[1].peers BY <1>4 DEF Loading, Entering, ViewFields
    <2>3. ASSUME risk'[c] = {}
          PROVE  v.sent = <<>> /\ v.queued = <<>>
      <3>1. risk'[c] = risk[c] \cup (IF Unanswered(c) = <<>> THEN {} ELSE {"snapshot"}) BY <2>1 DEF Blind
      <3>2. v.sent \o v.queued = <<>> BY <2>3, <3>1 DEF Unanswered
      <3>3. IsSeq(v.sent) /\ IsSeq(v.queued) BY <1>1 DEF Lawful, Typed
      <3> HIDE DEF v
      <3> QED BY <3>2, <3>3, NothingJoined
    <2>v. v = view[c] /\ D = doc /\ Q = toDoc OBVIOUS
    <2> HIDE DEF v, D, Q
    <2>w. w = Loading(v, F[1]) OBVIOUS
    <2> HIDE DEF w
    <2>4. /\ Took(c, v, D, Q, F, w, Q) /\ Len(w.seen) = to
          /\ v.sent = <<>> /\ v.queued = <<>> /\ Kept(c, v, D, Q, F) => Sound(c, w, D, Q, Tail(F))
      BY <1>1, <1>3, <1>5, <2>w, SnapshotRead
    <2>5. /\ Took(c, view[c], doc, toDoc, F, w, toDoc) /\ to <= Len(doc.history) BY <1>3, <2>4, <2>v
    <2>6. ASSUME risk'[c] = {}, Sound(c, view[c], doc, toDoc, F) PROVE Sound(c, w, doc, toDoc, Tail(F))
      BY <2>3, <2>4, <2>6, <2>v DEF Sound
    <2>7. view'[c].peers = F[1].peers BY <2>1, <2>2, PulledPeers DEF SyncInv
    <2> QED BY <2>1, <2>2, <2>4, <2>5, <2>6, <2>7, PulledHandled
  <1>6. CASE ~F[1].snapshot
    <2> DEFINE u == Entering(v, F[1])
               y == F[1].changes
    <2>1. Gives(c, u, F[1].rev, y) BY <1>6 DEF HandleJoined, Entering
    <2>2. Hands(v, F, u, y) BY <1>3, <1>6 DEF Hands, Missed
    <2>3. Follows(v, D, y)
      <3> DEFINE L == Len(v.seen)
                 H == D.history
      <3>1. IsSeq(H) /\ L \in Nat /\ L <= to /\ to <= Len(H) /\ y = SubSeq(H, L + 1, to) BY <1>3, <1>4, <1>6
      <3> HIDE DEF y, L, H
      <3>2. IsSeq(y) /\ Len(y) = to - L /\ \A j \in 1 .. to - L : y[j] = H[L + j] BY <3>1, PartSeq
      <3>3. Len(y) \in Nat /\ L + Len(y) <= Len(H) /\ \A j \in 1 .. Len(y) : y[j] = H[L + j]
        BY <3>1, <3>2, WholeSeq
      <3> QED BY <3>2, <3>3 DEF Follows, L, H
    <2>4. u.peers = F[1].peers BY <1>4 DEF Entering, ViewFields
    <2> HIDE DEF u, y
    <2> QED BY <2>1, <2>2, <2>3, <2>4, GivesHandled
  <1> QED BY <1>5, <1>6

\* A change of the document.
LEMMA ChangedHandled ==
  ASSUME SyncInv, NEW c \in Clients, Held(c), DOMAIN risk = Clients, NEW F, F = Frames(c), F # <<>>,
         F[1].kind = "changed", Gives(c, view[c], F[1].rev, <<F[1].change>>)
  PROVE  Handled(c) /\ view'[c].peers = view[c].peers
  <1> DEFINE v == view[c]
             D == doc
             x == F[1].change
             y == <<x>>
  <1>1. PICK to \in Nat : Link(F[1], 1, Len(v.seen), to, v.epoch, D.history, D.epoch) BY ClientFacts
  <1>2. /\ to = Len(v.seen) + 1 /\ to <= Len(D.history) /\ F[1].change = D.history[to] /\ Len(v.seen) \in Nat
    <2>1. Viewed(c, v, D, F) BY ClientFacts
    <2> QED BY <1>1, <2>1 DEF Link, Viewed, Given
  <1>3. Follows(v, D, y)
    <2>1. IsSeq(y) /\ Len(y) = 1 /\ y[1] = x
      <3> HIDE DEF x
      <3>1. y \in Seq({x}) OBVIOUS
      <3> QED BY <3>1 DEF IsSeq
    <2> HIDE DEF y, v, D
    <2> QED BY <1>2, <2>1 DEF Follows
  <1>4. Hands(v, F, v, y) /\ Gives(c, v, F[1].rev, y) BY DEF Hands
  <1> HIDE DEF y
  <1> QED BY <1>3, <1>4, GivesHandled

\* The document refused the batch.
LEMMA RefusedHandled ==
  ASSUME SyncInv, NEW c \in Clients, Held(c), NEW F, F = Frames(c), F # <<>>,
         F[1].kind = "refused", HandleRefused(c, F[1])
  PROVE  Handled(c)
  <1> DEFINE v == view[c]
             D == doc
             Q == toDoc
             w == [v EXCEPT !.waitingSeq = Unset]
             y == [v EXCEPT !.waitingSeq = Unset, !.rev = 0, !.epoch = 0]
  <1>1. Viewed(c, v, D, F) /\ Lawful(c, v, D, Q, F) BY ClientFacts DEF Held
  <1>2. DOMAIN v = ViewFields /\ Given(v, D) /\ DOMAIN view = Clients /\ Shape
    BY <1>1 DEF Viewed, SyncInv, Shape
  <1>3. Len(v.seen) \in Nat /\ Len(v.seen) <= Len(D.history) BY <1>2 DEF Given
  <1>4. CASE F[1].reason # "invalid"
    <2>1. Pull(c, w) BY <1>4 DEF HandleRefused
    <2>2. DOMAIN w = ViewFields BY <1>2
    <2>v. v = view[c] /\ D = doc /\ Q = toDoc OBVIOUS
    <2>w. w \in Unrefused(v) BY DEF Unrefused
    <2> HIDE DEF v, D, Q, w
    <2>3. Asks(c, v, D, Q, Q) BY DEF Asks
    <2>4. /\ Took(c, v, D, Q, F, w, Q) /\ w.seen = v.seen
          /\ Sound(c, v, D, Q, F) => Sound(c, w, D, Q, Tail(F)) BY <1>1, <2>3, <2>w, RefusedRead
    <2>5. /\ Took(c, view[c], doc, toDoc, F, w, toDoc) /\ Len(w.seen) \in Nat /\ Len(w.seen) <= Len(doc.history)
      BY <1>3, <2>4, <2>v
    <2>6. ASSUME risk'[c] = {}, Sound(c, view[c], doc, toDoc, F) PROVE Sound(c, w, doc, toDoc, Tail(F))
      BY <2>4, <2>6, <2>v
    <2> QED BY <2>1, <2>2, <2>5, <2>6, PulledHandled
  <1>5. CASE F[1].reason = "invalid"
    <2> DEFINE Q2 == toDoc'
               k == v.pipe
    <2>1. view' = [view EXCEPT ![c] = y] /\ Post(c, JoinOf(y)) BY <1>5 DEF HandleRefused
    <2>2. view'[c] = y /\ y.pipe = v.pipe /\ y.epoch = 0 BY <1>2, <2>1 DEF ViewFields
    <2>3. /\ <<c, k>> \in Pipe /\ k \in NumPipes /\ \A n \in NumPipes : <<c, n>> \in Pipe
      BY ClientFacts DEF Pipe, NumPipes
    <2>4. toDoc' = [toDoc EXCEPT ![<<c, k>>] = Append(@, JoinOf(y))] BY <2>1 DEF Post
    <2>5. Q2[<<c, k>>] = Append(Q[<<c, k>>], JoinOf(y)) /\ IsSeq(Q[<<c, k>>]) BY <1>2, <2>3, <2>4 DEF Shape
    <2>6. \A n \in NumPipes : n # k => Q2[<<c, n>>] = Q[<<c, n>>] BY <1>2, <2>3, <2>4 DEF Shape
    <2>7. JoinOf(y).kind = "join" /\ JoinOf(y).epoch = 0 BY <2>2 DEF JoinOf
    <2>8. ~Waits(c, D, v.pipe) BY <1>1 DEF Lawful, Entered
    <2>9. Asks(c, v, D, Q, Q2)
      <3> DEFINE j == JoinOf(y)
      <3>1. j.kind = "join" /\ j.epoch = 0 /\ Q2[<<c, k>>] = Append(Q[<<c, k>>], j) /\ IsSeq(Q[<<c, k>>])
        BY <2>5, <2>7
      <3> HIDE DEF j, Q2, Q, D
      <3> QED BY <2>6, <2>8, <3>1 DEF Asks
    <2>v. v = view[c] /\ D = doc /\ Q = toDoc /\ Q2 = toDoc' /\ Frames(c) = F OBVIOUS
    <2>y. y \in Unrefused(v) BY DEF Unrefused
    <2> HIDE DEF v, D, Q, y, Q2
    <2>10. /\ Took(c, v, D, Q, F, y, Q2) /\ y.seen = v.seen
           /\ Sound(c, v, D, Q, F) => Sound(c, y, D, Q2, Tail(F)) BY <1>1, <2>9, <2>y, RefusedRead
    <2>11. Lawful(c, y, D, Q2, Tail(F)) BY <1>1, <2>10, TookLawful
    <2> QED BY <2>2, <2>10, <2>11, <2>v DEF Handled
  <1> QED BY <1>4, <1>5

\* Another view came or left.
LEMMA PeerHandled ==
  ASSUME SyncInv, NEW c \in Clients, Held(c), NEW F, F = Frames(c), F # <<>>,
         F[1].kind \in {"peer", "left"}, NEW ps, view' = [view EXCEPT ![c].peers = ps], toDoc' = toDoc
  PROVE  Handled(c)
  <1> DEFINE v == view[c]
             D == doc
             Q == toDoc
             w == [v EXCEPT !.peers = ps]
  <1>1. Viewed(c, v, D, F) /\ Lawful(c, v, D, Q, F) BY ClientFacts DEF Held
  <1>2. view'[c] = w /\ w.pipe = v.pipe BY <1>1 DEF Viewed, ViewFields, SyncInv, Shape
  <1>v. v = view[c] /\ D = doc /\ Q = toDoc /\ Frames(c) = F OBVIOUS
  <1>w. w = [v EXCEPT !.peers = ps] OBVIOUS
  <1> HIDE DEF v, D, Q, w
  <1>3. /\ Took(c, v, D, Q, F, w, Q)
        /\ Sound(c, v, D, Q, F) => Sound(c, w, D, Q, Tail(F)) BY <1>1, <1>w, PeerRead
  <1>4. Lawful(c, w, D, Q, Tail(F)) BY <1>1, <1>3, TookLawful
  <1> QED BY <1>2, <1>3, <1>4, <1>v DEF Handled

\* A view that did not move away from its pipe and its frames.
LEMMA StepHeld ==
  ASSUME SyncInv, EditInv, Tidy, NEW c \in Clients, NEW p, p = <<c, view[c].pipe>>, doc' = doc,
         \A d \in Clients \ {c} : view'[d] = view[d] /\ risk'[d] = risk[d],
         \A r \in Pipe : r # p => toView'[r] = toView[r] /\ toDoc'[r] = toDoc[r],
         Held(c)'
  PROVE  EditInv'
  <1>1. ASSUME NEW d \in Clients, d # c PROVE Held(d)'
    <2>1. view'[d] = view[d] /\ risk'[d] = risk[d] BY <1>1
    <2>2. \A r \in Pipe : r[1] # c => toView'[r] = toView[r] /\ toDoc'[r] = toDoc[r] OBVIOUS
    <2>3. Frames(d)' = Frames(d) /\ \A k \in NumPipes : toDoc'[<<d, k>>] = toDoc[<<d, k>>]
      BY <1>1, <2>1, <2>2, AsideFrames
    <2>4. Elsewhere(d, doc, toDoc, doc', toDoc') BY SMTT(40), <2>3 DEF Elsewhere
    <2> QED BY <2>1, <2>3, <2>4, AsideHeld
  <1> QED BY <1>1 DEF EditInv

\* What client c does with frame m.
Takes(c, m) ==
  \/ m.kind = "joined" /\ HandleJoined(c, m)
  \/ m.kind = "refused" /\ HandleRefused(c, m)
  \/ m.kind = "changed" /\ Gives(c, view[c], m.rev, <<m.change>>)
  \/ /\ m.kind \in {"peer", "left"} /\ toDoc' = toDoc /\ risk' = risk
     /\ view' = [view EXCEPT ![c].peers = IF m.kind = "peer" THEN @ \cup {m.id} ELSE @ \ {m.id}]

\* The frames that a view handles.
LEMMA HandleCases ==
  ASSUME SyncInv, NEW c \in Clients, Handle(c), NEW p, p = <<c, view[c].pipe>>, NEW F, F = Frames(c)
  PROVE  /\ view[c].pipe # Unset /\ toView[p] # <<>> /\ toView' = [toView EXCEPT ![p] = Tail(@)] /\ doc' = doc
         /\ F = toView[p] /\ F # <<>> /\ p \in Pipe /\ IsSeq(F)
         /\ Takes(c, F[1])
  <1>0. Shape /\ ViewRight(c) BY SMTT(40) DEF SyncInv
  <1>1. /\ view[c].pipe # Unset /\ toView[p] # <<>> /\ toView' = [toView EXCEPT ![p] = Tail(@)] /\ doc' = doc
    BY DEF Handle
  <1>2. F = toView[p] /\ F # <<>> /\ p \in Pipe /\ IsSeq(F) BY <1>0, <1>1, CurrentPipe DEF Frames, Shape
  <1>3. Head(toView[p]) = F[1] BY <1>2, TailSeq
  <1>4. F[1].kind \in Kinds BY <1>2, ClientFacts DEF Link
  <1>5. Takes(c, F[1]) BY <1>3, <1>4 DEF Handle, Kinds, Takes
  <1> QED BY <1>1, <1>2, <1>5

\* What a view that handles a frame touches.
OnlyHandles(c) ==
  LET p == <<c, view[c].pipe>> IN
  /\ Handled(c) /\ doc' = doc /\ Frames(c)' = Tail(Frames(c)) /\ risk[c] \subseteq risk'[c]
  /\ \A d \in Clients \ {c} : view'[d] = view[d] /\ risk'[d] = risk[d]
  /\ \A r \in Pipe : r # p => toView'[r] = toView[r] /\ toDoc'[r] = toDoc[r]

LEMMA HandleTouches ==
  ASSUME SyncInv, EditInv, Tidy, NEW c \in Clients, Handle(c) PROVE OnlyHandles(c)
  <1> DEFINE p == <<c, view[c].pipe>>
             F == Frames(c)
  <1>0. Shape /\ ViewRight(c) /\ Held(c) /\ DOMAIN risk = Clients BY DEF SyncInv, EditInv, Tidy
  <1>1. /\ view[c].pipe # Unset /\ toView[p] # <<>> /\ toView' = [toView EXCEPT ![p] = Tail(@)] /\ doc' = doc
    BY HandleCases
  <1>2. F = toView[p] /\ F # <<>> /\ p \in Pipe /\ IsSeq(F) BY HandleCases
  <1>5. /\ Takes(c, F[1])
        /\ \/ HandleJoined(c, F[1]) \/ HandleRefused(c, F[1]) \/ Gives(c, view[c], F[1].rev, <<F[1].change>>)
           \/ toDoc' = toDoc /\ risk' = risk /\ \E ps : view' = [view EXCEPT ![c].peers = ps]
    <2>1. Takes(c, F[1]) BY HandleCases
    <2> HIDE DEF F
    <2> QED BY <2>1 DEF Takes
  <1>6. /\ \A d \in Clients \ {c} : view'[d] = view[d] /\ risk'[d] = risk[d]
        /\ \A r \in Pipe : r # p => toDoc'[r] = toDoc[r]
        /\ risk[c] \subseteq risk'[c]
    <2>0. ASSUME NEW u, NEW rev, NEW y, Gives(c, u, rev, y)
          PROVE  (\E how : Blind(c, how)) /\ \E w : Pull(c, w) BY <2>0 DEF Gives
    <2>1. risk' = risk \/ \E how : Blind(c, how) BY <1>5, <2>0 DEF HandleJoined, HandleRefused
    <2>2. (\A d \in Clients \ {c} : risk'[d] = risk[d]) /\ risk[c] \subseteq risk'[c] BY <1>0, <2>1 DEF Blind
    <2>3. \/ \E u : Pull(c, u)
          \/ (\E y : view' = [view EXCEPT ![c] = y]) /\ \E j : Post(c, j)
          \/ (\E ps : view' = [view EXCEPT ![c].peers = ps]) /\ toDoc' = toDoc
      BY <1>5, <2>0 DEF HandleJoined, HandleRefused
    <2>4. \/ (\E y : view' = [view EXCEPT ![c] = y]) /\ (toDoc' = toDoc \/ \E j : Post(c, j))
          \/ (\E ps : view' = [view EXCEPT ![c].peers = ps]) /\ toDoc' = toDoc
      <3>1. ASSUME NEW u, Pull(c, u)
            PROVE  (\E y : view' = [view EXCEPT ![c] = y]) /\ (toDoc' = toDoc \/ \E j : Post(c, j))
        BY <3>1 DEF Pull
      <3> QED BY <2>3, <3>1
    <2>5. \A r \in Pipe : r # p => toDoc'[r] = toDoc[r] BY <1>0, <2>4 DEF Post, Shape
    <2>6. \A d \in Clients \ {c} : view'[d] = view[d] BY <1>0, <2>4 DEF Shape
    <2> QED BY <2>2, <2>5, <2>6
  <1>7. Handled(c)
    <2>1. CASE F[1].kind = "changed" /\ Gives(c, view[c], F[1].rev, <<F[1].change>>)
      BY <1>0, <1>2, <2>1, ChangedHandled
    <2>2. CASE F[1].kind = "joined" /\ HandleJoined(c, F[1]) BY <1>0, <1>2, <2>2, JoinedHandled
    <2>3. CASE F[1].kind = "refused" /\ HandleRefused(c, F[1]) BY <1>0, <1>2, <2>3, RefusedHandled
    <2> QED BY <1>0, <1>2, <1>5, <2>1, <2>2, <2>3, PeerHandled DEF Takes
  <1>8. Frames(c)' = Tail(F)
    <2>1. view'[c].pipe = view[c].pipe BY <1>7 DEF Handled
    <2>2. toView'[p] = Tail(toView[p]) BY <1>0, <1>1, <1>2 DEF Shape
    <2> QED BY <1>1, <1>2, <2>1, <2>2 DEF Frames
  <1>9. \A r \in Pipe : r # p => toView'[r] = toView[r] /\ toDoc'[r] = toDoc[r] BY <1>0, <1>1, <1>6 DEF Shape
  <1> QED BY <1>1, <1>6, <1>7, <1>8, <1>9 DEF OnlyHandles

\* Client c handles a frame.
LEMMA HandleEdits ==
  ASSUME SyncInv, EditInv, Tidy, NEW c \in Clients, Handle(c) PROVE EditInv'
  <1> DEFINE p == <<c, view[c].pipe>>
             F == Frames(c)
  <1>0. Held(c) BY DEF EditInv
  <1>1. /\ Handled(c) /\ doc' = doc /\ Frames(c)' = Tail(F) /\ risk[c] \subseteq risk'[c]
        /\ \A d \in Clients \ {c} : view'[d] = view[d] /\ risk'[d] = risk[d]
        /\ \A r \in Pipe : r # p => toView'[r] = toView[r] /\ toDoc'[r] = toDoc[r]
    BY HandleTouches DEF OnlyHandles
  <1>2. Held(c)'
    <2> HIDE DEF F
    <2>1. risk[c] = {} => Sound(c, view[c], doc, toDoc, F) BY <1>0 DEF Held, F
    <2>2. /\ Lawful(c, view'[c], doc, toDoc', Tail(F))
          /\ risk'[c] = {} /\ Sound(c, view[c], doc, toDoc, F) => Sound(c, view'[c], doc, toDoc', Tail(F))
      BY <1>1 DEF Handled, F
    <2>3. risk'[c] = {} => risk[c] = {} BY <1>1
    <2> QED BY <1>1, <2>1, <2>2, <2>3 DEF Held
  <1> QED BY <1>1, <1>2, StepHeld

\* A step of client c alone: it takes state u and pulls.
OwnStep(c, u, how) ==
  /\ DOMAIN u = ViewFields /\ u.pipe = view[c].pipe /\ u.seen = view[c].seen
  /\ u.epoch = view[c].epoch /\ u.rev = view[c].rev
  /\ Pull(c, u) /\ Blind(c, how) /\ doc' = doc /\ toView' = toView
  /\ Lawful(c, u, doc, toDoc, Frames(c))
  /\ how = {} => /\ Pulls(u) => u.joined \/ u.sent = <<>>
                 /\ Sound(c, view[c], doc, toDoc, Frames(c)) => Sound(c, u, doc, toDoc, Frames(c))

LEMMA OwnEdits ==
  ASSUME SyncInv, EditInv, Tidy, NEW c \in Clients, NEW u, NEW how, OwnStep(c, u, how) PROVE EditInv'
  <1> DEFINE p == <<c, view[c].pipe>>
             v == view[c]
             F == Frames(c)
  <1>0. Shape /\ ViewRight(c) /\ FramesRight(c) /\ Held(c) /\ DOMAIN risk = Clients
    BY DEF SyncInv, EditInv, Tidy
  <1>1. /\ Pull(c, u) /\ Blind(c, how) /\ doc' = doc /\ toView' = toView
        /\ how = {} => /\ Pulls(u) => u.joined \/ u.sent = <<>>
                       /\ Sound(c, v, doc, toDoc, F) => Sound(c, u, doc, toDoc, F) BY DEF OwnStep
  <1>2. Given(v, doc) /\ MissedRight(v, doc, F) BY ClientFacts
  <1>3. /\ u.pipe = v.pipe /\ u.seen = v.seen /\ DOMAIN u = ViewFields /\ u.epoch = v.epoch /\ u.rev = v.rev
        /\ Lawful(c, u, doc, toDoc, F) BY DEF OwnStep
  <1>5. JoinFirst(c, u, doc, toDoc)
    <2> SUFFICES ASSUME Waits(c, doc, v.pipe)
                 PROVE  toDoc[p] # <<>> /\ toDoc[p][1] = JoinOf(v) BY <1>3 DEF JoinFirst, JoinOf
    <2>1. v.pipe # Unset BY <1>0, DocumentSyncAssumption DEF Waits, On, Shape, Pipe, Unset
    <2>2. Unjoined(doc.seats, p) BY DEF Waits, On, Unjoined
    <2> QED BY <1>0, <2>1, <2>2 DEF FramesRight
  <1>6. Given(u, doc) /\ MissedRight(u, doc, F) BY <1>2, <1>3 DEF Given, MissedRight
  <1>7. /\ Lawful(c, view'[c], doc, toDoc', F) /\ view'[c].pipe = u.pipe
        /\ (Pulls(u) => u.joined \/ u.sent = <<>>) /\ Sound(c, u, doc, toDoc, F) =>
             Sound(c, view'[c], doc, toDoc', F) BY <1>1, <1>3, <1>5, <1>6, PullGoes
  <1>8. /\ \A d \in Clients \ {c} : view'[d] = view[d] /\ risk'[d] = risk[d]
        /\ \A r \in Pipe : r # p => toDoc'[r] = toDoc[r]
        /\ risk'[c] = risk[c] \cup how
    <2>1. (\E y : view' = [view EXCEPT ![c] = y]) /\ (toDoc' = toDoc \/ \E j : Post(c, j)) BY <1>1 DEF Pull
    <2>2. \A r \in Pipe : r # p => toDoc'[r] = toDoc[r] BY <1>0, <2>1 DEF Post, Shape
    <2>3. \A d \in Clients \ {c} : view'[d] = view[d] BY <1>0, <2>1 DEF Shape
    <2>4. (\A d \in Clients \ {c} : risk'[d] = risk[d]) /\ risk'[c] = risk[c] \cup how BY <1>0, <1>1 DEF Blind
    <2> QED BY <2>2, <2>3, <2>4
  <1>9. Held(c)'
    <2>1. Frames(c)' = F BY <1>1, <1>3, <1>7 DEF Frames
    <2>2. risk[c] = {} => Sound(c, v, doc, toDoc, F) BY <1>0 DEF Held
    <2>3. risk'[c] = {} => risk[c] = {} /\ how = {} BY <1>8
    <2> HIDE DEF F, v
    <2> QED BY <1>1, <1>7, <2>1, <2>2, <2>3 DEF Held
  <1> QED BY <1>1, <1>8, <1>9, StepHeld

\* The person edits.
LEMMA EditEdits ==
  ASSUME SyncInv, EditInv, Tidy, NEW c \in Clients, Edit(c) PROVE EditInv'
  <1> DEFINE v == view[c]
             F == Frames(c)
             u == Edited(c, v)
             early == Pulls(u) /\ ~u.joined /\ u.sent # <<>>
             how == IF early THEN {"early"} ELSE {}
  <1>1. Pull(c, u) /\ Blind(c, how) /\ doc' = doc /\ toView' = toView BY DEF Edit, Edited
  <1>2. Lawful(c, v, doc, toDoc, F) /\ DOMAIN v = ViewFields BY DEF EditInv, Held, SyncInv, ViewRight
  <1>3. /\ u.pipe = v.pipe /\ u.seen = v.seen /\ DOMAIN u = ViewFields /\ u.epoch = v.epoch /\ u.rev = v.rev
    BY <1>2, EditedFields
  <1>4. /\ Lawful(c, u, doc, toDoc, F)
        /\ Sound(c, v, doc, toDoc, F) => Sound(c, u, doc, toDoc, F)
    <2>w. u = Edited(c, v) OBVIOUS
    <2> HIDE DEF u, v, F
    <2> QED BY <1>2, <2>w, EditedKeeps
  <1> HIDE DEF u
  <1>5. OwnStep(c, u, how) BY <1>1, <1>3, <1>4 DEF OwnStep
  <1> HIDE DEF how
  <1> QED BY <1>5, OwnEdits

Closed(v, lines) == [Shown(v, Edits([i \in v.held |-> v.seen[i]]), lines) EXCEPT !.held = {}]

\* The changes that waited are given.
LEMMA ClosedGiven ==
  ASSUME NEW v, IsSeq(v.seen), v.held \subseteq 1 .. Len(v.seen), NEW w, w.seen = v.seen, w.held = {}
  PROVE  GivenEdits(w) = GivenEdits(v) \cup Edits([i \in v.held |-> v.seen[i]])
  <1> DEFINE f == [i \in v.held |-> v.seen[i]]
  <1>1. DOMAIN f = v.held /\ \A i \in v.held : f[i] = v.seen[i] OBVIOUS
  <1> HIDE DEF f
  <1>2. \A e : e \in Edits(f) <=> \E i \in v.held : e \in Range(v.seen[i].body)
    <2>1. \A e : e \in Edits(f) <=> \E i \in DOMAIN f : e \in Range(f[i].body) BY Zenon DEF Edits
    <2> QED BY <1>1, <2>1
  <1>3. \A e : e \in GivenEdits(v) <=> \E i \in (1 .. Len(v.seen)) \ v.held : e \in Range(v.seen[i].body)
    BY GivenFacts
  <1>4. \A e : e \in GivenEdits(w) <=> \E i \in (1 .. Len(v.seen)) \ {} : e \in Range(v.seen[i].body)
    BY GivenFacts
  <1>5. \A e : e \in GivenEdits(w) <=> e \in GivenEdits(v) \cup Edits(f) BY <1>2, <1>3, <1>4
  <1> QED BY <1>5 DEF f

LEMMA ClosedKeeps ==
  ASSUME NEW c, NEW v, NEW D, NEW Q, NEW F, DOMAIN v = ViewFields, IsSeq(v.seen), NEW lines,
         NEW w, w = Closed(v, lines), Lawful(c, v, D, Q, F)
  PROVE  /\ w.pipe = v.pipe /\ w.seen = v.seen /\ DOMAIN w = ViewFields /\ w.epoch = v.epoch /\ w.rev = v.rev
         /\ w.peers = v.peers /\ Lawful(c, w, D, Q, F)
         /\ ~Forgets(v, w) /\ Sound(c, v, D, Q, F) => Sound(c, w, D, Q, F)
  <1> DEFINE given == Edits([i \in v.held |-> v.seen[i]])
             x == Shown(v, given, lines)
  <1>x. x = Shown(v, given, lines) /\ w = [x EXCEPT !.held = {}] BY DEF Closed
  <1>g. given = Edits([i \in v.held |-> v.seen[i]]) OBVIOUS
  <1> HIDE DEF x, given
  <1>1. /\ DOMAIN x = ViewFields /\ x.pipe = v.pipe /\ x.joined = v.joined /\ x.loaded = v.loaded
        /\ x.epoch = v.epoch /\ x.rev = v.rev /\ x.lastSeq = v.lastSeq /\ x.waitingSeq = v.waitingSeq
        /\ x.edits = v.edits /\ x.seen = v.seen /\ x.held = v.held /\ x.peers = v.peers
        /\ \E gone : /\ gone \subseteq Range(v.sent) \cup Range(v.queued)
                    /\ x.sent = Moved(v.sent, gone) /\ x.queued = Moved(v.queued, gone)
                    /\ x.shown = (v.shown \cup given) \ gone /\ x.removed = v.removed \cup gone
    BY <1>x, ShownFields
  <1>2. /\ DOMAIN w = ViewFields /\ w.pipe = v.pipe /\ w.joined = v.joined
        /\ w.epoch = v.epoch /\ w.rev = v.rev /\ w.lastSeq = v.lastSeq /\ w.waitingSeq = v.waitingSeq
        /\ w.edits = v.edits /\ w.seen = v.seen /\ w.held = {} /\ w.peers = v.peers
        /\ w.sent = x.sent /\ w.queued = x.queued /\ w.shown = x.shown /\ w.removed = x.removed
    BY <1>1, <1>x DEF ViewFields
  <1>3. PICK gone : /\ gone \subseteq Range(v.sent) \cup Range(v.queued)
                    /\ w.sent = Moved(v.sent, gone) /\ w.queued = Moved(v.queued, gone)
                    /\ w.shown = (v.shown \cup given) \ gone /\ w.removed = v.removed \cup gone BY <1>1, <1>2
  <1>4. IsSeq(v.sent) /\ IsSeq(v.queued) BY DEF Lawful, Typed
  <1>5. /\ IsSeq(w.sent) /\ Range(w.sent) = Range(v.sent) \ gone
        /\ IsSeq(w.queued) /\ Range(w.queued) = Range(v.queued) \ gone BY <1>3, <1>4, MovedFacts
  <1>6. Pruned(v, w) BY <1>2, <1>3, <1>5 DEF Pruned, QueuedLeft, SentLeft
  <1>7. /\ Lawful(c, w, D, Q, F)
        /\ (w.sent = <<>> => v.sent = <<>>) /\ Kept(c, v, D, Q, F) => Kept(c, w, D, Q, F) BY <1>6, PrunedKeeps
  <1>8. ASSUME ShownRight(v) PROVE ShownRight(w)
    <2>1. GivenEdits(w) = GivenEdits(v) \cup given BY <1>2, <1>8, <1>g, ClosedGiven DEF ShownRight
    <2> QED BY <1>2, <1>3, <1>5, <1>8, <2>1 DEF ShownRight
  <1> QED BY <1>2, <1>7, <1>8 DEF Forgets, Sound

\* The person closes the cell editor.
LEMMA CloseEdits ==
  ASSUME SyncInv, EditInv, Tidy, NEW c \in Clients, CloseCell(c) PROVE EditInv'
  <1> DEFINE v == view[c]
             F == Frames(c)
  <1>p. PICK gone : LET w == Closed(v, gone) IN
                    /\ Pull(c, w) /\ doc' = doc /\ toView' = toView
                    /\ Blind(c, (IF Pulls(w) /\ ~w.joined /\ w.sent # <<>> THEN {"early"} ELSE {})
                                \cup (IF Forgets(v, w) THEN {"moved"} ELSE {})) BY DEF CloseCell, Closed
  <1> DEFINE u == Closed(v, gone)
             how == (IF Pulls(u) /\ ~u.joined /\ u.sent # <<>> THEN {"early"} ELSE {})
                      \cup (IF Forgets(v, u) THEN {"moved"} ELSE {})
  <1>1. Pull(c, u) /\ Blind(c, how) /\ doc' = doc /\ toView' = toView BY <1>p
  <1>2. Lawful(c, v, doc, toDoc, F) /\ DOMAIN v = ViewFields /\ IsSeq(v.seen)
    <2> DEFINE l == Len(v.seen)
    <2>1. Lawful(c, v, doc, toDoc, F) /\ DOMAIN v = ViewFields /\ v.seen = SubSeq(doc.history, 1, l)
      BY DEF EditInv, Held, SyncInv, ViewRight, Before
    <2>2. IsSeq(doc.history) /\ l \in Nat /\ l <= Len(doc.history) BY ClientFacts DEF Given
    <2> HIDE DEF l
    <2> QED BY <2>1, <2>2, BeginSeq
  <1>3. /\ u.pipe = v.pipe /\ u.seen = v.seen /\ DOMAIN u = ViewFields /\ u.epoch = v.epoch /\ u.rev = v.rev
        /\ Lawful(c, u, doc, toDoc, F)
        /\ ~Forgets(v, u) /\ Sound(c, v, doc, toDoc, F) => Sound(c, u, doc, toDoc, F)
    <2>w. u = Closed(v, gone) OBVIOUS
    <2> HIDE DEF u, v, F
    <2> QED BY <1>2, <2>w, ClosedKeeps
  <1> HIDE DEF u
  <1>5. OwnStep(c, u, how) BY <1>1, <1>3 DEF OwnStep
  <1> HIDE DEF how
  <1> QED BY <1>5, OwnEdits

\* A change makes the log longer.
LEMMA OrderedTidy ==
  ASSUME SyncInv, Tidy, NEW by, NEW seq, NEW body, Ordered(by, seq, body) PROVE doc'.firstRev <= doc'.rev
  <1>1. doc'.firstRev = doc.firstRev /\ doc'.rev = doc.rev + 1 BY DEF Ordered, SyncInv, Shape, DocFields
  <1>2. doc.firstRev \in Nat /\ doc.rev \in Nat /\ doc.firstRev <= doc.rev BY DEF SyncInv, Shape, Tidy
  <1> QED BY <1>1, <1>2

LEMMA TidyStep ==
  ASSUME SyncInv, Tidy, [Next]_vars PROVE Tidy'
  <1>0. /\ DOMAIN doc = DocFields /\ doc.firstRev \in Nat /\ doc.rev \in Nat /\ doc.firstRev <= doc.rev
        /\ risk \in [Clients -> SUBSET {"snapshot", "early", "moved"}] BY DEF SyncInv, Shape, Tidy
  <1>1. ASSUME NEW p \in Pipe, Receive(p) PROVE Tidy'
    <2>1. risk' = risk BY <1>1 DEF Receive
    <2>2. \/ \E s : doc' = [doc EXCEPT !.seats = s]
          \/ doc' = doc
          \/ \E by, seq, body : Ordered(by, seq, body) BY <1>1 DEF Receive, Join, Leave, Change, Refuse
    <2>3. doc'.firstRev <= doc'.rev BY <1>0, <2>2, OrderedTidy DEF DocFields
    <2> QED BY <1>0, <2>1, <2>3 DEF Tidy
  <1>2. CASE FileChanged
    <2>1. risk' = risk /\ doc'.firstRev <= doc'.rev BY <1>2, OrderedTidy DEF FileChanged
    <2> QED BY <1>0, <2>1 DEF Tidy
  <1>3. CASE Rebased \/ Reopen \/ Restart
    <2>1. risk' = risk BY <1>3 DEF Rebased, Reopen, Restart
    <2>2. \/ doc'.firstRev = doc.rev /\ doc'.rev = doc.rev
          \/ doc'.firstRev = 0 /\ doc'.rev = 0
          \/ doc'.firstRev = doc.firstRev /\ doc'.rev = doc.rev
      BY <1>0, <1>3 DEF Rebased, Reopen, Restart, DocFields
    <2>3. doc'.firstRev <= doc'.rev BY <1>0, <2>2
    <2> QED BY <1>0, <2>1, <2>3 DEF Tidy
  <1>4. ASSUME NEW c \in Clients, Attach(c) \/ Lose(c) \/ Dropped(c) PROVE Tidy'
    <2>1. risk' = risk /\ (doc' = doc \/ \E s : doc' = [doc EXCEPT !.seats = s])
      BY <1>4 DEF Attach, Lose, Dropped, Cut
    <2>2. doc'.firstRev = doc.firstRev /\ doc'.rev = doc.rev BY <1>0, <2>1 DEF DocFields
    <2> QED BY <1>0, <2>1, <2>2 DEF Tidy
  <1>5. ASSUME NEW c \in Clients, Handle(c) \/ Edit(c) \/ CloseCell(c) PROVE Tidy'
    <2>1. doc' = doc /\ (risk' = risk \/ \E how \in SUBSET {"snapshot", "early", "moved"} : Blind(c, how))
      <3>1. CASE Edit(c)
        <4> DEFINE early == LET v == [view[c] EXCEPT !.edits = @ + 1, !.queued = Append(@, <<c, view[c].edits + 1>>),
                                                     !.shown = @ \cup {<<c, view[c].edits + 1>>}]
                            IN Pulls(v) /\ ~v.joined /\ v.sent # <<>>
        <4>1. doc' = doc /\ Blind(c, IF early THEN {"early"} ELSE {}) BY <3>1 DEF Edit
        <4> HIDE DEF early
        <4> QED BY <4>1
      <3>2. CASE Handle(c)
        <4>1. /\ doc' = doc
              /\ \/ risk' = risk
                 \/ \E m : HandleJoined(c, m) \/ HandleRefused(c, m) \/ Gives(c, view[c], m.rev, <<m.change>>)
          BY <3>2, HandleCases DEF Takes
        <4>3. ASSUME NEW u, NEW rev, NEW y, Gives(c, u, rev, y)
              PROVE  Blind(c, {}) \/ Blind(c, {"moved"}) BY <4>3 DEF Gives
        <4>2. ASSUME NEW m, HandleJoined(c, m)
              PROVE  risk' = risk \/ \E how \in SUBSET {"snapshot", "early", "moved"} : Blind(c, how)
          <5>1. risk' = risk \/ Blind(c, {}) \/ Blind(c, {"snapshot"}) \/ Blind(c, {"moved"})
            BY <4>2, <4>3 DEF HandleJoined
          <5> QED BY <5>1
        <4>4. ASSUME NEW m, Gives(c, view[c], m.rev, <<m.change>>)
              PROVE  \E how \in SUBSET {"snapshot", "early", "moved"} : Blind(c, how)
          <5>1. Blind(c, {}) \/ Blind(c, {"moved"}) BY <4>3, <4>4
          <5> QED BY <5>1
        <4> QED BY <4>1, <4>2, <4>4 DEF HandleRefused
      <3>3. CASE CloseCell(c)
        <4>1. doc' = doc /\ \E a, b : Blind(c, (IF a THEN {"early"} ELSE {}) \cup (IF b THEN {"moved"} ELSE {}))
          BY <3>3 DEF CloseCell
        <4>2. \A a, b : (IF a THEN {"early"} ELSE {}) \cup (IF b THEN {"moved"} ELSE {}) \in SUBSET {"snapshot", "early", "moved"}
          OBVIOUS
        <4> QED BY <4>1, <4>2
      <3> QED BY <1>5, <3>1, <3>2, <3>3
    <2>2. risk' \in [Clients -> SUBSET {"snapshot", "early", "moved"}] BY <1>0, <2>1 DEF Blind
    <2> QED BY <1>0, <2>1, <2>2 DEF Tidy
  <1>6. CASE UNCHANGED vars BY <1>0, <1>6 DEF Tidy, vars
  <1> QED BY <1>1, <1>2, <1>3, <1>4, <1>5, <1>6 DEF Next

LEMMA EditInvInit == Init => EditInv /\ Tidy
  <1> SUFFICES ASSUME Init PROVE EditInv /\ Tidy OBVIOUS
  <1>1. /\ doc = [epoch |-> 1, firstRev |-> 0, rev |-> 0, history |-> <<>>,
                  seqs |-> [c \in Clients |-> 0], seats |-> <<>>]
        /\ toDoc = [p \in Pipe |-> <<>>] /\ toView = [p \in Pipe |-> <<>>]
        /\ risk = [c \in Clients |-> {}] BY DEF Init
  <1>2. Tidy BY <1>1 DEF Tidy
  <1>3. DOMAIN doc.seqs = Clients /\ Signed(doc.history) BY <1>1 DEF Signed
  <1>4. ASSUME NEW c \in Clients PROVE Held(c)
    <2> DEFINE v == view[c]
    <2>1. /\ v.pipe = Unset /\ v.joined = FALSE /\ v.epoch = 0 /\ v.lastSeq = 0 /\ v.waitingSeq = Unset
          /\ v.held = {} /\ v.removed = {}
          /\ v.sent = <<>> /\ v.queued = <<>> /\ v.edits = 0 /\ v.shown = {} /\ v.seen = <<>> BY DEF Init
    <2>2. Frames(c) = <<>> BY <2>1 DEF Frames
    <2>3. /\ Len(<<>>) = 0 /\ Range(<<>>) = {} /\ DOMAIN <<>> = {} /\ IsSeq(<<>>) BY EmptyRange DEF IsSeq
    <2>4. \A n : ~On(c, doc, n) /\ ~In(c, doc, n) /\ ~Waits(c, doc, n) BY <1>1, <2>3 DEF On, In, Waits
    <2>5. Made(c, doc) = {} /\ Pending(c, v, doc) = {} BY <1>1, <2>3 DEF Made, Pending
    <2>6. \A n, i : ~Live(c, doc, toDoc, n, i) BY <2>4 DEF Live
    <2>7. EditsBy(c, v) = {} BY <2>1 DEF EditsBy
    <2>9. \A n \in NumPipes : toDoc[<<c, n>>] = <<>> BY <1>1 DEF Pipe, NumPipes
    <2>d. doc.seqs[c] = 0 BY <1>1
    <2> HIDE DEF v
    <2>10. Lawful(c, v, doc, toDoc, <<>>)
      <3>1. Typed(c, v, doc, toDoc) BY <2>1, <2>3, <2>9, <2>d DEF Typed, Unset
      <3>2. Alone(c, doc) BY <2>4 DEF Alone
      <3>3. Entered(c, v, doc, <<>>) BY <2>1, <2>3, <2>4 DEF Entered
      <3>4. Counted(c, v, doc) BY <2>5 DEF Counted
      <3> QED BY <3>1, <3>2, <3>3, <3>4 DEF Lawful
    <2>11. Kept(c, v, doc, toDoc, <<>>)
      <3>1. HeldOnce(c, v, doc) /\ OnePending(c, v, doc) BY <2>1, <2>3, <2>5, <2>7 DEF HeldOnce, OnePending
      <3>2. LiveSent(c, v, doc, toDoc) /\ LiveOnce(c, doc, toDoc) /\ Behind(c, v, doc, toDoc)
        BY <2>6 DEF LiveSent, LiveOnce, Behind
      <3>3. NextLive(c, v, doc, toDoc, <<>>) /\ SeqKnown(c, v, doc, <<>>)
        BY <2>1, <2>4, <2>d DEF NextLive, SeqKnown
      <3>4. Awaited(c, v, doc, toDoc, <<>>) BY <2>1, <2>3, <2>6 DEF Awaited
      <3>5. Early(c, v, doc, toDoc, <<>>) /\ Settled(c, v, doc, <<>>) BY <2>1, <2>4 DEF Early, Settled
      <3> QED BY <3>1, <3>2, <3>3, <3>4, <3>5 DEF Kept
    <2>12. ShownRight(v)
      <3>1. \A e : e \notin GivenEdits(v) BY <2>1, <2>3, GivenFacts
      <3> QED BY <2>1, <2>3, <3>1 DEF ShownRight
    <2> QED BY <2>2, <2>10, <2>11, <2>12 DEF Held, Sound, v
  <1> QED BY <1>2, <1>3, <1>4 DEF EditInv

LEMMA EditInvStep ==
  ASSUME SyncInv, EditInv, Tidy, [Next]_vars
  PROVE  EditInv' /\ Tidy'
  <1>1. Tidy' BY TidyStep
  <1>2. EditInv'
    <2>1. CASE UNCHANGED vars BY <2>1 DEF vars, EditInv, Held, Frames
    <2>2. ASSUME NEW c \in Clients, Attach(c) \/ Lose(c) \/ Dropped(c) \/ Handle(c) \/ Edit(c) \/ CloseCell(c)
          PROVE  EditInv' BY <2>2, AttachEdits, CutEdits, HandleEdits, EditEdits, CloseEdits
    <2> QED BY <2>1, <2>2, ReceiveEdits, FileChangedEdits, EpochEdits, RestartEdits DEF Next
  <1> QED BY <1>1, <1>2

----------------
(* Who is there.                                                           *)

\* Frame m tells a view that client d came, or that it is not there.
Brings(m, d) == (m.kind = "peer" /\ m.id = d) \/ (m.kind = "joined" /\ d \in m.peers)
Drops(m, d) == (m.kind = "left" /\ m.id = d) \/ (m.kind = "joined" /\ d \notin m.peers)

\* A view with the peers ps has d among them once it handled the frames F.
Knows(F, ps, d) ==
  \E i \in 0 .. Len(F) : /\ i = 0 => d \in ps
                         /\ i # 0 => Brings(F[i], d)
                         /\ \A j \in 1 .. Len(F) : j > i => ~Drops(F[j], d)

Joins(d, D) == \E n \in NumPipes : In(d, D, n)

\* A view is no peer of its own, and knows of every other that joined.
PeersRight(c) ==
  /\ c \notin view[c].peers /\ \A i \in 1 .. Len(Frames(c)) : ~Brings(Frames(c)[i], c)
  /\ In(c, doc, view[c].pipe) =>
       \A d \in Clients \ {c} : Joins(d, doc) => Knows(Frames(c), view[c].peers, d)

PeersInv == \A c \in Clients : PeersRight(c)

LEMMA KnowsMore ==
  ASSUME NEW F, IsSeq(F), NEW ps, NEW d, NEW m, Brings(m, d) \/ (Knows(F, ps, d) /\ ~Drops(m, d))
  PROVE  Knows(Append(F, m), ps, d)
  <1> DEFINE G == Append(F, m)
  <1>1. /\ Len(F) \in Nat /\ Len(G) = Len(F) + 1 /\ G[Len(F) + 1] = m
        /\ \A i \in 1 .. Len(F) : G[i] = F[i] BY AppendSeq
  <1> HIDE DEF G
  <1>2. CASE Brings(m, d)
    <2>1. Len(F) + 1 \in 0 .. Len(G) /\ Len(F) + 1 # 0 /\ \A j \in 1 .. Len(G) : ~(j > Len(F) + 1) BY <1>1
    <2>2. Knows(G, ps, d) BY <1>1, <1>2, <2>1 DEF Knows
    <2> QED BY <2>2 DEF G
  <1>3. CASE Knows(F, ps, d) /\ ~Drops(m, d)
    <2>1. PICK i \in 0 .. Len(F) : /\ i = 0 => d \in ps
                                   /\ i # 0 => Brings(F[i], d)
                                   /\ \A j \in 1 .. Len(F) : j > i => ~Drops(F[j], d) BY <1>3 DEF Knows
    <2>2. i \in 0 .. Len(G) /\ (i # 0 => i \in 1 .. Len(F)) BY <1>1
    <2>3. i # 0 => Brings(G[i], d) BY <1>1, <2>1, <2>2
    <2>4. ASSUME NEW j \in 1 .. Len(G), j > i PROVE ~Drops(G[j], d)
      <3>1. j \in 1 .. Len(F) \/ j = Len(F) + 1 BY <1>1
      <3> QED BY <1>1, <1>3, <2>1, <2>4, <3>1
    <2>5. Knows(G, ps, d) BY <2>1, <2>2, <2>3, <2>4 DEF Knows
    <2> QED BY <2>5 DEF G
  <1> QED BY <1>2, <1>3

\* What frame m makes of the peers ps.
Met(m, ps, ps2) == \A d : Brings(m, d) \/ (d \in ps /\ ~Drops(m, d)) => d \in ps2

LEMMA KnowsLess ==
  ASSUME NEW F, IsSeq(F), F # <<>>, NEW ps, NEW ps2, Met(F[1], ps, ps2), NEW d, Knows(F, ps, d)
  PROVE  Knows(Tail(F), ps2, d)
  <1> DEFINE G == Tail(F)
             l == Len(F)
  <1>1. /\ l \in Nat /\ l > 0 /\ Len(G) = l - 1
        /\ \A i \in 1 .. l - 1 : G[i] = F[i + 1] BY TailSeq
  <1>2. PICK i \in 0 .. l : /\ i = 0 => d \in ps
                            /\ i # 0 => Brings(F[i], d)
                            /\ \A j \in 1 .. l : j > i => ~Drops(F[j], d) BY DEF Knows
  <1> HIDE DEF G, l
  <1>3. \A j \in 1 .. Len(G) : j + 1 > i => ~Drops(G[j], d)
    <2> SUFFICES ASSUME NEW j \in 1 .. Len(G), j + 1 > i PROVE ~Drops(G[j], d) OBVIOUS
    <2>1. j \in 1 .. l - 1 /\ j + 1 \in 1 .. l BY <1>1
    <2> QED BY <1>1, <1>2, <2>1
  <1>4. CASE i <= 1
    <2>1. i = 0 \/ i = 1 BY <1>4
    <2>2. i = 0 => ~Drops(F[1], d)
      <3>1. i = 0 => 1 \in 1 .. l /\ 1 > i BY <1>1
      <3> QED BY <1>2, <3>1
    <2>3. d \in ps2 BY <1>2, <2>1, <2>2 DEF Met
    <2>4. 0 \in 0 .. Len(G) /\ \A j \in 1 .. Len(G) : j + 1 > i BY <1>1, <1>4
    <2>5. Knows(G, ps2, d) BY <1>3, <2>3, <2>4 DEF Knows
    <2> QED BY <2>5 DEF G
  <1>5. CASE i > 1
    <2> DEFINE k == i - 1
    <2>1. k \in 0 .. Len(G) /\ k # 0 /\ k \in 1 .. l - 1 /\ k + 1 = i BY <1>1, <1>5
    <2>2. Brings(G[k], d) BY <1>1, <1>2, <1>5, <2>1
    <2>3. \A j \in 1 .. Len(G) : j > k => j + 1 > i BY <1>1
    <2> HIDE DEF k
    <2>4. Knows(G, ps2, d) BY <1>3, <2>1, <2>2, <2>3 DEF Knows
    <2> QED BY <2>4 DEF G
  <1> QED BY <1>4, <1>5

\* Client c gets at most frame m, and knows what it has to.
Meets(c, v, D, F, m, D2, F2) ==
  /\ F2 = F \/ (F2 = Append(F, m) /\ ~Brings(m, c))
  /\ In(c, D2, v.pipe) => \A d \in Clients \ {c} : Joins(d, D2) =>
       \/ F2 = Append(F, m) /\ Brings(m, d)
       \/ In(c, D, v.pipe) /\ Joins(d, D) /\ (F2 = F \/ ~Drops(m, d))

LEMMA PeersCarry ==
  ASSUME SyncInv, NEW c \in Clients, PeersRight(c), view'[c].pipe = view[c].pipe, view'[c].peers = view[c].peers,
         NEW m, Meets(c, view[c], doc, Frames(c), m, doc', Frames(c)')
  PROVE  PeersRight(c)'
  <1> DEFINE F == Frames(c)
             F2 == Frames(c)'
             ps == view[c].peers
             k == view[c].pipe
  <1>1. IsSeq(F) BY ClientFacts
  <1>2. c \notin ps /\ (\A i \in 1 .. Len(F) : ~Brings(F[i], c))
        /\ (In(c, doc, k) => \A d \in Clients \ {c} : Joins(d, doc) => Knows(F, ps, d)) BY DEF PeersRight
  <1>3. /\ F2 = F \/ (F2 = Append(F, m) /\ ~Brings(m, c))
        /\ In(c, doc', k) => \A d \in Clients \ {c} : Joins(d, doc') =>
             \/ F2 = Append(F, m) /\ Brings(m, d)
             \/ In(c, doc, k) /\ Joins(d, doc) /\ (F2 = F \/ ~Drops(m, d)) BY DEF Meets
  <1>g. /\ c \notin ps /\ (\A i \in 1 .. Len(F2) : ~Brings(F2[i], c))
        /\ (In(c, doc', k) => \A d \in Clients \ {c} : Joins(d, doc') => Knows(F2, ps, d))
        => PeersRight(c)' BY DEF PeersRight
  <1> HIDE DEF F, F2, ps, k
  <1>4. \A i \in 1 .. Len(F2) : ~Brings(F2[i], c)
    <2>1. CASE F2 = F BY <1>2, <2>1
    <2>2. CASE F2 = Append(F, m) /\ ~Brings(m, c)
      <3>1. \A i \in 1 .. Len(F2) : (i \in 1 .. Len(F) /\ F2[i] = F[i]) \/ F2[i] = m
        BY <1>1, <2>2, OneMoreFrame
      <3> QED BY <1>2, <2>2, <3>1
    <2> QED BY <1>3, <2>1, <2>2
  <1>5. ASSUME In(c, doc', k), NEW d \in Clients \ {c}, Joins(d, doc') PROVE Knows(F2, ps, d)
    <2>1. CASE F2 = Append(F, m) /\ Brings(m, d) BY <1>1, <2>1, KnowsMore
    <2>2. CASE In(c, doc, k) /\ Joins(d, doc) /\ (F2 = F \/ ~Drops(m, d))
      <3>1. Knows(F, ps, d) BY <1>2, <2>2
      <3>2. CASE F2 = F BY <3>1, <3>2
      <3>3. CASE F2 = Append(F, m) /\ ~Drops(m, d) BY <1>1, <3>1, <3>3, KnowsMore
      <3> QED BY <1>3, <2>2, <3>2, <3>3
    <2> QED BY <1>3, <1>5, <2>1, <2>2
  <1> QED BY <1>2, <1>4, <1>5, <1>g

\* A step of the document that tells the pipes of client c at most frame m.
Told(c, m) ==
  \A k \in NumPipes :
    /\ \/ toView'[<<c, k>>] = toView[<<c, k>>]
       \/ toView'[<<c, k>>] = Append(toView[<<c, k>>], m) /\ ~Brings(m, c)
    /\ In(c, doc', k) => \A d \in Clients \ {c} : Joins(d, doc') =>
         \/ toView'[<<c, k>>] = Append(toView[<<c, k>>], m) /\ Brings(m, d)
         \/ In(c, doc, k) /\ Joins(d, doc) /\ (toView'[<<c, k>>] = toView[<<c, k>>] \/ ~Drops(m, d))

LEMMA PeersTold ==
  ASSUME SyncInv, DOMAIN doc'.seats \subseteq Pipe, NEW c \in Clients, PeersRight(c), view' = view,
         NEW m, Told(c, m)
  PROVE  PeersRight(c)'
  <1> DEFINE k == view[c].pipe
  <1>1. k = Unset \/ k \in NumPipes BY ClientFacts DEF PipeRight
  <1>2. CASE k = Unset
    <2>1. ~In(c, doc', k) BY <1>2 DEF In, On, Pipe, Unset
    <2>2. Frames(c)' = Frames(c) BY <1>2 DEF Frames
    <2>3. Meets(c, view[c], doc, Frames(c), m, doc', Frames(c)') BY <2>1, <2>2 DEF Meets
    <2> QED BY <2>3, PeersCarry
  <1>3. CASE k # Unset
    <2>1. Frames(c) = toView[<<c, k>>] /\ Frames(c)' = toView'[<<c, k>>] /\ k \in NumPipes
      BY <1>1, <1>3 DEF Frames
    <2>2. Meets(c, view[c], doc, Frames(c), m, doc', Frames(c)') BY <2>1 DEF Meets, Told
    <2> QED BY <2>2, PeersCarry
  <1> QED BY <1>2, <1>3

\* A pipe ends.
LEMMA LeavePeers ==
  ASSUME SyncInv, EditInv, NEW p \in Pipe, Leave(p), view' = view, NEW c \in Clients, PeersRight(c)
  PROVE  PeersRight(c)'
  <1> DEFINE b == p[1]
             m == [kind |-> "left", id |-> b]
             seats == Without(doc.seats, {p})
             told == IF p \in Joined(doc.seats) THEN Joined(seats) ELSE {}
  <1>0. Shape BY DEF SyncInv
  <1>1. doc' = [doc EXCEPT !.seats = seats] /\ toView' = Sent(told, m) BY DEF Leave
  <1>2. doc'.seats = seats /\ DOMAIN seats = DOMAIN doc.seats \ {p} /\ \A r \in DOMAIN seats : seats[r] = doc.seats[r]
    BY <1>0, <1>1 DEF Shape, DocFields, Without
  <1>3. \A r \in Pipe : toView'[r] = IF r \in told THEN Append(toView[r], m) ELSE toView[r] BY <1>1 DEF Sent
  <1>4. DOMAIN doc'.seats \subseteq Pipe BY <1>0, <1>2 DEF Shape
  <1>5. \A d, n : In(d, doc', n) => In(d, doc, n) /\ <<d, n>> # p BY <1>2 DEF In, On
  <1>6. /\ \A d : ~Brings(m, d)
        /\ \A d : Drops(m, d) => d = b BY DEF Brings, Drops
  <1>7. b \in Clients /\ p[2] \in NumPipes /\ p = <<b, p[2]>> BY DEF Pipe, NumPipes
  <1>8. ~(p \in Joined(doc.seats) /\ Joins(b, doc'))
    <2> DEFINE n == p[2]
    <2> SUFFICES ASSUME p \in Joined(doc.seats), NEW k \in NumPipes, In(b, doc', k) PROVE FALSE BY DEF Joins
    <2>1. n \in NumPipes /\ p = <<b, n>> BY <1>7
    <2> HIDE DEF n
    <2>2. Alone(b, doc) BY <1>7 DEF EditInv, Held, Lawful
    <2>3. In(b, doc, n) BY <2>1 DEF Joined, In, On
    <2>4. In(b, doc, k) /\ k # n BY <1>5, <2>1
    <2> QED BY <2>1, <2>2, <2>3, <2>4 DEF Alone
  <1> HIDE DEF m, b
  <1>9. Told(c, m)
    <2> SUFFICES ASSUME NEW k \in NumPipes
                 PROVE  /\ toView'[<<c, k>>] = toView[<<c, k>>] \/ toView'[<<c, k>>] = Append(toView[<<c, k>>], m)
                        /\ In(c, doc', k) => \A d \in Clients \ {c} : Joins(d, doc') =>
                             In(c, doc, k) /\ Joins(d, doc) /\ (toView'[<<c, k>>] = toView[<<c, k>>] \/ ~Drops(m, d))
      BY <1>6 DEF Told
    <2>1. <<c, k>> \in Pipe BY DEF Pipe, NumPipes
    <2>2. toView'[<<c, k>>] = toView[<<c, k>>] \/ (p \in Joined(doc.seats) /\ toView'[<<c, k>>] = Append(toView[<<c, k>>], m))
      BY <1>3, <2>1
    <2>3. \A d : Joins(d, doc') => Joins(d, doc) BY <1>5 DEF Joins
    <2> QED BY <1>5, <1>6, <1>8, <2>2, <2>3
  <1> QED BY <1>4, <1>9, PeersTold

\* The pipe p of client b is told that it joined, and who else did.
GreetedBy(f, p, b) ==
  /\ f.kind = "joined"
  /\ \A d : d \in f.peers <=> d # b /\ \E r \in Joined(doc.seats) : r[1] = d
  /\ toView'[p] = IF p \in DOMAIN doc.seats THEN Append(toView[p], f) ELSE toView[p]

Greeted(p, b) == \E f : GreetedBy(f, p, b)

\* What a join does to the seats and to the frames of all pipes.
LEMMA JoinResult ==
  ASSUME SyncInv, EditInv, NEW p \in Pipe, p \notin Joined(doc.seats), NEW message, Join(p, message),
         NEW b, b = p[1]
  PROVE  /\ \A r : r \in DOMAIN doc'.seats <=> r \in DOMAIN doc.seats /\ ~(doc.seats[r] # NoClient /\ r[1] = b)
         /\ \A r \in DOMAIN doc'.seats : doc'.seats[r] = IF r = p THEN b ELSE doc.seats[r]
         /\ \A r \in Pipe : r # p =>
              toView'[r] = IF p \in DOMAIN doc.seats /\ r \in Joined(doc.seats) /\ r[1] # b
                             THEN Append(toView[r], [kind |-> "peer", id |-> b])
                             ELSE toView[r]
         /\ Greeted(p, b)
  <1> DEFINE older == {q \in Joined(doc.seats) : doc.seats[q] = b}
             rest == Without(doc.seats, older)
             seats == Seat(rest, p, b)
             others == Joined(rest)
             missed == message.epoch = doc.epoch /\ message.rev > 0 /\ HasSince(message.rev)
             ps == {rest[q] : q \in others}
             f == [kind |-> "joined", epoch |-> doc.epoch, rev |-> doc.rev,
                   seq |-> doc.seqs[b], peers |-> ps, snapshot |-> ~missed,
                   changes |-> IF missed THEN Since(message.rev) ELSE doc.history]
             m == [kind |-> "peer", id |-> b]
  <1>0. Shape BY DEF SyncInv
  <1>1. IF p \in DOMAIN rest
          THEN doc' = [doc EXCEPT !.seats = seats] /\ toView' = [Sent(others, m) EXCEPT ![p] = Append(@, f)]
          ELSE doc' = [doc EXCEPT !.seats = rest] /\ toView' = toView BY DEF Join
  <1>2. /\ DOMAIN rest = DOMAIN doc.seats \ older /\ \A r \in DOMAIN rest : rest[r] = doc.seats[r]
        /\ DOMAIN seats = DOMAIN rest \cup {p} /\ seats[p] = b
        /\ \A r \in DOMAIN rest : r # p => seats[r] = rest[r] BY DEF Without, Seat
  <1>q. \A q \in Joined(doc.seats) : doc.seats[q] = q[1] BY SeatOwners
  <1>3. \A q \in DOMAIN doc.seats : q \in older <=> (doc.seats[q] # NoClient /\ q[1] = b) BY <1>q DEF Joined
  <1>4. p \notin older /\ (p \in DOMAIN rest <=> p \in DOMAIN doc.seats) BY <1>2
  <1>5. \A r : r \in others <=> r \in Joined(doc.seats) /\ r[1] # b BY <1>2, <1>3 DEF Joined
  <1>6. f.kind = "joined" /\ f.peers = ps OBVIOUS
  <1>7. doc'.seats = IF p \in DOMAIN rest THEN seats ELSE rest BY <1>0, <1>1 DEF Shape, DocFields
  <1>8. \A d : d \in ps <=> d # b /\ \E r \in Joined(doc.seats) : r[1] = d
    <2>1. \A r \in others : rest[r] = r[1] BY <1>2, <1>5, <1>q DEF Joined
    <2> HIDE DEF others, rest
    <2>2. \A d : d \in ps <=> \E r \in others : r[1] = d BY <2>1, Zenon
    <2> HIDE DEF ps
    <2> QED BY <1>5, <2>2
  <1> HIDE DEF f, ps
  <1>9. /\ \A r \in Pipe : r # p =>
             toView'[r] = IF p \in DOMAIN rest /\ r \in others THEN Append(toView[r], m) ELSE toView[r]
        /\ toView'[p] = IF p \in DOMAIN rest THEN Append(toView[p], f) ELSE toView[p]
    <2>1. CASE p \notin DOMAIN rest BY <1>1, <2>1
    <2>2. CASE p \in DOMAIN rest
      <3> DEFINE s == Sent(others, m)
      <3>1. toView' = [s EXCEPT ![p] = Append(@, f)] BY <1>1, <2>2
      <3>2. DOMAIN s = Pipe /\ \A r \in Pipe : s[r] = IF r \in others THEN Append(toView[r], m) ELSE toView[r]
        BY DEF Sent
      <3>5. p \notin others BY <1>5
      <3> HIDE DEF s, others, rest, m
      <3>3. \A r \in Pipe : r # p => toView'[r] = s[r] BY <3>1, <3>2
      <3>4. toView'[p] = Append(s[p], f) BY <3>1, <3>2
      <3>6. s[p] = toView[p] BY <3>2, <3>5
      <3> QED BY <2>2, <3>2, <3>3, <3>4, <3>6
    <2> QED BY <2>1, <2>2
  <1> HIDE DEF rest, seats, others, older, m
  <1>10. \A r : r \in DOMAIN doc'.seats <=> r \in DOMAIN doc.seats /\ ~(doc.seats[r] # NoClient /\ r[1] = b)
    <2>1. DOMAIN doc'.seats = DOMAIN rest BY <1>2, <1>7
    <2> QED BY <1>2, <1>3, <2>1
  <1>11. \A r \in DOMAIN doc'.seats : doc'.seats[r] = IF r = p THEN b ELSE doc.seats[r] BY <1>2, <1>7
  <1>12. \A r \in Pipe : r # p =>
           toView'[r] = IF p \in DOMAIN doc.seats /\ r \in Joined(doc.seats) /\ r[1] # b
                          THEN Append(toView[r], m) ELSE toView[r] BY <1>4, <1>5, <1>9
  <1>13. toView'[p] = IF p \in DOMAIN doc.seats THEN Append(toView[p], f) ELSE toView[p] BY <1>4, <1>9
  <1>14. Greeted(p, b) BY <1>6, <1>8, <1>13 DEF Greeted, GreetedBy
  <1> QED BY <1>10, <1>11, <1>12, <1>14 DEF m

\* A pipe joins.
LEMMA JoinPeers ==
  ASSUME SyncInv, EditInv, NEW p \in Pipe, p \notin Joined(doc.seats), NEW message, Join(p, message),
         view' = view, NEW c \in Clients, PeersRight(c)
  PROVE  PeersRight(c)'
  <1> DEFINE b == p[1]
             n == p[2]
             m == [kind |-> "peer", id |-> b]
  <1>0. Shape BY DEF SyncInv
  <1>1. b \in Clients /\ n \in NumPipes /\ p = <<b, n>> BY DEF Pipe, NumPipes
  <1>2. /\ \A r : r \in DOMAIN doc'.seats <=> r \in DOMAIN doc.seats /\ ~(doc.seats[r] # NoClient /\ r[1] = b)
        /\ \A r \in DOMAIN doc'.seats : doc'.seats[r] = IF r = p THEN b ELSE doc.seats[r]
        /\ \A r \in Pipe : r # p =>
             toView'[r] = IF p \in DOMAIN doc.seats /\ r \in Joined(doc.seats) /\ r[1] # b
                            THEN Append(toView[r], m) ELSE toView[r] BY JoinResult
  <1>3. PICK f : /\ f.kind = "joined"
                 /\ \A d : d \in f.peers <=> d # b /\ \E r \in Joined(doc.seats) : r[1] = d
                 /\ toView'[p] = IF p \in DOMAIN doc.seats THEN Append(toView[p], f) ELSE toView[p]
    <2>1. Greeted(p, b) BY JoinResult
    <2> QED BY <2>1 DEF Greeted, GreetedBy
  <1>4. DOMAIN doc'.seats \subseteq Pipe BY <1>0, <1>2 DEF Shape
  <1>5. /\ \A d : ~Drops(m, d) /\ (Brings(m, d) <=> d = b) BY DEF Brings, Drops
  <1>6. \A d : Brings(f, d) <=> d # b /\ \E r \in Joined(doc.seats) : r[1] = d BY <1>3 DEF Brings
  <1> HIDE DEF b, n, m
  <1>7. \A d, k : d # b /\ In(d, doc', k) => In(d, doc, k)
    <2> SUFFICES ASSUME NEW d, NEW k, d # b, In(d, doc', k) PROVE In(d, doc, k) OBVIOUS
    <2>1. <<d, k>> # p BY <1>1
    <2> QED BY <1>2, <2>1 DEF In, On
  <1>8. \A k : In(b, doc', k) => <<b, k>> = p /\ p \in DOMAIN doc.seats
    <2> SUFFICES ASSUME NEW k, In(b, doc', k) PROVE <<b, k>> = p /\ p \in DOMAIN doc.seats OBVIOUS
    <2>1. /\ <<b, k>> \in DOMAIN doc'.seats /\ doc'.seats[<<b, k>>] # NoClient
          /\ <<b, k>> \in DOMAIN doc.seats /\ doc.seats[<<b, k>>] = NoClient BY <1>2 DEF In, On
    <2> QED BY <1>2, <2>1
  <1>9. \A d : d # b /\ Joins(d, doc') => Joins(d, doc) BY <1>7 DEF Joins
  <1>10. CASE c # b
    <2>1. Told(c, m)
      <3> SUFFICES ASSUME NEW k \in NumPipes
                   PROVE  /\ toView'[<<c, k>>] = toView[<<c, k>>] \/ toView'[<<c, k>>] = Append(toView[<<c, k>>], m)
                          /\ In(c, doc', k) => \A d \in Clients \ {c} : Joins(d, doc') =>
                               \/ toView'[<<c, k>>] = Append(toView[<<c, k>>], m) /\ d = b
                               \/ In(c, doc, k) /\ Joins(d, doc) BY <1>5, <1>10 DEF Told
      <3>1. <<c, k>> \in Pipe /\ <<c, k>> # p /\ <<c, k>>[1] # b BY <1>1, <1>10 DEF Pipe, NumPipes
      <3>2. toView'[<<c, k>>] = toView[<<c, k>>] \/ toView'[<<c, k>>] = Append(toView[<<c, k>>], m)
        BY <1>2, <3>1
      <3>3. ASSUME In(c, doc', k), Joins(b, doc') PROVE toView'[<<c, k>>] = Append(toView[<<c, k>>], m)
        <4>1. p \in DOMAIN doc.seats BY <1>8, <3>3 DEF Joins
        <4>2. <<c, k>> \in Joined(doc.seats) BY <1>7, <1>10, <3>3 DEF In, On, Joined
        <4> QED BY <1>2, <3>1, <4>1, <4>2
      <3> QED BY <1>7, <1>9, <1>10, <3>2, <3>3
    <2> QED BY <1>4, <2>1, PeersTold
  <1>11. CASE c = b
    <2>1. Told(c, f)
      <3> SUFFICES ASSUME NEW k \in NumPipes
                   PROVE  /\ toView'[<<c, k>>] = toView[<<c, k>>] \/ toView'[<<c, k>>] = Append(toView[<<c, k>>], f)
                          /\ In(c, doc', k) => \A d \in Clients \ {c} : Joins(d, doc') =>
                               toView'[<<c, k>>] = Append(toView[<<c, k>>], f) /\ Brings(f, d)
        BY <1>6, <1>11 DEF Told
      <3>1. <<c, k>> \in Pipe /\ <<c, k>>[1] = b BY <1>11 DEF Pipe, NumPipes
      <3>2. toView'[<<c, k>>] = toView[<<c, k>>] \/ toView'[<<c, k>>] = Append(toView[<<c, k>>], f)
        BY <1>2, <1>3, <3>1
      <3>3. In(c, doc', k) => toView'[<<c, k>>] = Append(toView[<<c, k>>], f)
        <4>1. ASSUME In(c, doc', k)
              PROVE  <<c, k>> = p /\ p \in DOMAIN doc.seats BY <1>8, <1>11, <4>1
        <4>2. p \in DOMAIN doc.seats => toView'[p] = Append(toView[p], f) BY <1>3
        <4> QED BY <4>1, <4>2
      <3>4. ASSUME NEW d \in Clients \ {c}, Joins(d, doc') PROVE Brings(f, d)
        <4>1. Joins(d, doc) BY <1>9, <1>11, <3>4
        <4>2. PICK j \in NumPipes : In(d, doc, j) BY <4>1 DEF Joins
        <4>3. <<d, j>> \in Joined(doc.seats) /\ <<d, j>>[1] = d BY <4>2 DEF In, On, Joined
        <4> QED BY <1>6, <1>11, <4>3
      <3> QED BY <3>2, <3>3, <3>4
    <2> QED BY <1>4, <2>1, PeersTold
  <1> QED BY <1>10, <1>11

\* A frame that is about no client.
Neutral(m) ==
  /\ m.kind \in {"changed", "refused"} /\ doc'.seats = doc.seats /\ view' = view
  /\ \A r \in Pipe : toView'[r] \in {toView[r], Append(toView[r], m)}

LEMMA OrderedPeers ==
  ASSUME SyncInv, NEW m, Neutral(m), NEW c \in Clients, PeersRight(c) PROVE PeersRight(c)'
  <1>0. DOMAIN doc'.seats \subseteq Pipe /\ view' = view BY DEF SyncInv, Shape, Neutral
  <1>1. \A d : ~Brings(m, d) /\ ~Drops(m, d) BY DEF Brings, Drops, Neutral
  <1>2. \A d, n : In(d, doc', n) <=> In(d, doc, n) BY DEF In, On, Neutral
  <1>3. \A d : Joins(d, doc') <=> Joins(d, doc) BY <1>2 DEF Joins
  <1>4. \A k \in NumPipes : toView'[<<c, k>>] = toView[<<c, k>>] \/ toView'[<<c, k>>] = Append(toView[<<c, k>>], m)
    BY DEF Pipe, NumPipes, Neutral
  <1>5. Told(c, m) BY <1>1, <1>2, <1>3, <1>4 DEF Told
  <1> QED BY <1>0, <1>5, PeersTold

LEMMA RefusePeers ==
  ASSUME SyncInv, doc'.seats = doc.seats, view' = view, NEW p \in Pipe, NEW f, f.kind = "refused",
         toView' = Sent({p}, f), NEW c \in Clients, PeersRight(c)
  PROVE  PeersRight(c)'
  <1>1. \A r \in Pipe : toView'[r] \in {toView[r], Append(toView[r], f)} BY DEF Sent
  <1>2. f.kind \in {"changed", "refused"} OBVIOUS
  <1>3. Neutral(f) BY <1>1, <1>2 DEF Neutral
  <1> QED BY <1>3, OrderedPeers

\* The view keeps its frames, its pipe and its peers, and no pipe joins.
LEMMA AsidePeers ==
  ASSUME SyncInv, NEW c \in Clients, PeersRight(c), Frames(c)' = Frames(c),
         view'[c].pipe = view[c].pipe, view'[c].peers = view[c].peers,
         \A d, n : In(d, doc', n) => In(d, doc, n)
  PROVE  PeersRight(c)'
  <1>1. \A d : Joins(d, doc') => Joins(d, doc) BY DEF Joins
  <1>2. Meets(c, view[c], doc, Frames(c), 0, doc', Frames(c)') BY <1>1 DEF Meets
  <1> QED BY <1>2, PeersCarry

\* The view has no frame and no joined pipe.
LEMMA ApartPeers ==
  ASSUME NEW c \in Clients, PeersRight(c), Frames(c)' = <<>>, view'[c].peers = view[c].peers,
         ~In(c, doc', view'[c].pipe)
  PROVE  PeersRight(c)'
  <1>1. Len(<<>>) = 0 OBVIOUS
  <1> QED BY <1>1 DEF PeersRight

\* The document takes what a pipe carries, or takes a step of its own.
LEMMA DocumentPeers ==
  ASSUME SyncInv, EditInv, PeersInv,
         \/ \E p \in Pipe : Receive(p)
         \/ FileChanged \/ Rebased \/ Reopen \/ Restart
  PROVE  PeersInv'
  <1>0. Shape BY DEF SyncInv
  <1> SUFFICES ASSUME NEW c \in Clients PROVE PeersRight(c)' BY DEF PeersInv
  <1>1. PeersRight(c) BY DEF PeersInv
  <1>2. ASSUME NEW by, NEW seq, NEW body, Ordered(by, seq, body), view' = view PROVE PeersRight(c)'
    <2> DEFINE m == [kind |-> "changed", rev |-> doc.rev + 1, change |-> [by |-> by, seq |-> seq, body |-> body]]
    <2>1. doc'.seats = doc.seats /\ toView' = Sent(Joined(doc.seats), m)
      BY <1>0, <1>2 DEF Ordered, Shape, DocFields
    <2>2. m.kind \in {"changed", "refused"} OBVIOUS
    <2> HIDE DEF m
    <2>3. \A r \in Pipe : toView'[r] \in {toView[r], Append(toView[r], m)} BY <2>1 DEF Sent
    <2>4. Neutral(m) BY <1>2, <2>1, <2>2, <2>3 DEF Neutral
    <2> QED BY <1>1, <2>4, OrderedPeers
  <1>3. ASSUME NEW p \in Pipe, Receive(p) PROVE PeersRight(c)'
    <2> DEFINE message == Head(toDoc[p])
    <2>1. view' = view BY <1>3 DEF Receive
    <2>2. \/ p \notin Joined(doc.seats) /\ Join(p, message)
          \/ Leave(p)
          \/ Change(p, message) BY <1>3 DEF Receive
    <2>3. ASSUME Change(p, message)
          PROVE  \/ doc' = doc /\ toView' = toView
                 \/ doc'.seats = doc.seats /\ \E f : f.kind = "refused" /\ toView' = Sent({p}, f)
                 \/ Ordered(p[1], message.seq, message.body) BY <2>3 DEF Change, Refuse
    <2>4. ASSUME doc'.seats = doc.seats, NEW f, f.kind = "refused", toView' = Sent({p}, f)
          PROVE  PeersRight(c)' BY <1>1, <2>1, <2>4, RefusePeers
    <2>5. CASE doc' = doc /\ toView' = toView
      <3>1. Frames(c)' = Frames(c) BY <2>1, <2>5 DEF Frames
      <3> QED BY <1>1, <2>1, <2>5, <3>1, AsidePeers
    <2>6. CASE p \notin Joined(doc.seats) /\ Join(p, message) BY <1>1, <2>1, <2>6, JoinPeers
    <2>7. CASE Leave(p) BY <1>1, <2>1, <2>7, LeavePeers
    <2>8. CASE Change(p, message) BY <1>2, <2>1, <2>3, <2>4, <2>5, <2>8
    <2> QED BY <2>2, <2>6, <2>7, <2>8
  <1>4. CASE FileChanged BY <1>2, <1>4 DEF FileChanged
  <1>5. CASE Rebased \/ Reopen \/ Restart
    <2>1. toView' = toView /\ view' = view /\ (doc'.seats = doc.seats \/ doc'.seats = <<>>)
      BY <1>0, <1>5 DEF Rebased, Reopen, Restart, Shape, DocFields
    <2>2. \A d, n : In(d, doc', n) => In(d, doc, n)
      <3>1. DOMAIN <<>> = {} OBVIOUS
      <3> QED BY <2>1, <3>1 DEF In, On
    <2>3. Frames(c)' = Frames(c) BY <2>1 DEF Frames
    <2> QED BY <1>1, <2>1, <2>2, <2>3, AsidePeers
  <1> QED BY <1>3, <1>4, <1>5

\* What a view that handles the first of the frames F makes of its peers.
MetBy(c, F, w) ==
  /\ Met(F[1], view[c].peers, w.peers)
  /\ c \notin view[c].peers /\ ~Brings(F[1], c) => c \notin w.peers

\* It takes the peers of a joined frame, and keeps them otherwise.
LEMMA JoinedMet ==
  ASSUME NEW c \in Clients, NEW F, F[1].kind = "joined", NEW w, w.peers = F[1].peers PROVE MetBy(c, F, w)
  BY DEF MetBy, Met, Brings, Drops

LEMMA OtherMet ==
  ASSUME NEW c \in Clients, NEW F, F[1].kind \in {"refused", "changed"}, NEW w, w.peers = view[c].peers
  PROVE  MetBy(c, F, w) BY DEF MetBy, Met, Brings, Drops

\* The view handles a frame.
LEMMA HandlePeers ==
  ASSUME SyncInv, EditInv, Tidy, PeersInv, NEW c \in Clients, Handle(c) PROVE PeersInv'
  <1> DEFINE p == <<c, view[c].pipe>>
             F == Frames(c)
             v == view[c]
             w == view'[c]
  <1>0. Shape /\ Held(c) /\ PeersRight(c) /\ DOMAIN v = ViewFields /\ DOMAIN risk = Clients
    BY DEF SyncInv, EditInv, PeersInv, ViewRight, Tidy
  <1>1. /\ view[c].pipe # Unset /\ toView[p] # <<>> /\ toView' = [toView EXCEPT ![p] = Tail(@)] /\ doc' = doc
        /\ F = toView[p] /\ F # <<>> /\ p \in Pipe /\ IsSeq(F) BY HandleCases
  <1>2. Takes(c, F[1]) BY HandleCases
  <1>3. MetBy(c, F, w)
    <2>1. CASE F[1].kind = "joined" /\ HandleJoined(c, F[1])
      <3>1. w.peers = F[1].peers BY <1>0, <1>1, <2>1, JoinedHandled
      <3> HIDE DEF w
      <3> QED BY <2>1, <3>1, JoinedMet
    <2>2. CASE F[1].kind = "refused" /\ HandleRefused(c, F[1])
      <3> DEFINE u == [v EXCEPT !.waitingSeq = Unset]
                 y == [v EXCEPT !.waitingSeq = Unset, !.rev = 0, !.epoch = 0]
      <3>1. view' = [view EXCEPT ![c] = y] \/ Pull(c, u) BY <2>2 DEF HandleRefused
      <3>2. DOMAIN u = ViewFields /\ u.peers = v.peers /\ y.peers = v.peers BY <1>0 DEF ViewFields
      <3> HIDE DEF u, y
      <3>3. w.peers = view[c].peers BY <1>0, <3>1, <3>2, PulledPeers DEF Shape
      <3> HIDE DEF w
      <3> QED BY <2>2, <3>3, OtherMet
    <2>3. CASE F[1].kind = "changed" /\ Gives(c, view[c], F[1].rev, <<F[1].change>>)
      <3>1. w.peers = view[c].peers BY <1>0, <1>1, <2>3, ChangedHandled
      <3> HIDE DEF w
      <3> QED BY <2>3, <3>1, OtherMet
    <2>4. CASE /\ F[1].kind \in {"peer", "left"}
               /\ view' = [view EXCEPT ![c].peers = IF F[1].kind = "peer" THEN @ \cup {F[1].id}
                                                   ELSE @ \ {F[1].id}]
      <3> DEFINE ps == v.peers
      <3>1. w.peers = IF F[1].kind = "peer" THEN ps \cup {F[1].id} ELSE ps \ {F[1].id}
        BY <1>0, <2>4 DEF Shape, ViewFields
      <3> HIDE DEF F, w
      <3> QED BY <2>4, <3>1 DEF MetBy, Met, Brings, Drops
    <2> QED BY <1>2, <2>1, <2>2, <2>3, <2>4 DEF Takes
  <1>4. /\ Handled(c) /\ Frames(c)' = Tail(F)
        /\ \A d \in Clients \ {c} : view'[d] = view[d]
        /\ \A r \in Pipe : r # p => toView'[r] = toView[r] /\ toDoc'[r] = toDoc[r]
    BY HandleTouches DEF OnlyHandles
  <1>5. w.pipe = v.pipe BY <1>4 DEF Handled
  <1>6. PeersRight(c)'
    <2> DEFINE ps == v.peers
               ps2 == w.peers
               k == v.pipe
               F2 == Frames(c)'
    <2>1. /\ c \notin ps /\ (\A i \in 1 .. Len(F) : ~Brings(F[i], c))
          /\ (In(c, doc, k) => \A d \in Clients \ {c} : Joins(d, doc) => Knows(F, ps, d))
      BY <1>0 DEF PeersRight
    <2>2. Met(F[1], ps, ps2) /\ (c \notin ps /\ ~Brings(F[1], c) => c \notin ps2) BY <1>3 DEF MetBy
    <2>3. IsSeq(F) /\ F # <<>> /\ F2 = Tail(F) /\ w.pipe = k BY <1>1, <1>4, <1>5
    <2>g. /\ c \notin ps2 /\ (\A i \in 1 .. Len(F2) : ~Brings(F2[i], c))
          /\ (In(c, doc, k) => \A d \in Clients \ {c} : Joins(d, doc) => Knows(F2, ps2, d))
          => PeersRight(c)' BY <1>1, <2>3 DEF PeersRight
    <2> HIDE DEF ps, ps2, k, F, F2, v, w
    <2>4. 1 \in 1 .. Len(F) /\ \A i \in 1 .. Len(F2) : i + 1 \in 1 .. Len(F) /\ F2[i] = F[i + 1]
      <3> DEFINE l == Len(F)
      <3>1. l \in Nat /\ l > 0 /\ Len(F2) = l - 1 /\ \A i \in 1 .. l - 1 : F2[i] = F[i + 1] BY <2>3, TailSeq
      <3> HIDE DEF l
      <3>2. 1 \in 1 .. l /\ \A i \in 1 .. Len(F2) : i + 1 \in 1 .. l /\ F2[i] = F[i + 1] BY <3>1
      <3> QED BY <3>2 DEF l
    <2>5. c \notin ps2 /\ \A i \in 1 .. Len(F2) : ~Brings(F2[i], c) BY <2>1, <2>2, <2>4
    <2>6. ASSUME In(c, doc, k), NEW d \in Clients \ {c}, Joins(d, doc) PROVE Knows(F2, ps2, d)
      <3>1. Knows(F, ps, d) BY <2>1, <2>6
      <3> QED BY <2>2, <2>3, <3>1, KnowsLess
    <2> QED BY <2>5, <2>6, <2>g
  <1>7. ASSUME NEW d \in Clients, d # c PROVE PeersRight(d)'
    <2>1. view'[d] = view[d] /\ PeersRight(d) BY <1>4, <1>7 DEF PeersInv
    <2>2. \A r \in Pipe : r[1] # c => toView'[r] = toView[r] /\ toDoc'[r] = toDoc[r] BY <1>4
    <2>3. Frames(d)' = Frames(d) BY <1>7, <2>1, <2>2, AsideFrames
    <2>4. \A e, n : In(e, doc', n) => In(e, doc, n) BY <1>1
    <2> QED BY <2>1, <2>3, <2>4, AsidePeers
  <1> QED BY <1>6, <1>7 DEF PeersInv

\* The person edits, or the view gets or loses a pipe.
LEMMA ViewPeers ==
  ASSUME SyncInv, EditInv, PeersInv, NEW c \in Clients,
         Attach(c) \/ Lose(c) \/ Dropped(c) \/ Edit(c) \/ CloseCell(c)
  PROVE  PeersInv'
  <1> DEFINE v == view[c]
             w == view'[c]
  <1>0. Shape /\ PeersRight(c) /\ DOMAIN v = ViewFields BY DEF SyncInv, PeersInv, ViewRight
  <1>e. ASSUME Edit(c) \/ CloseCell(c)
        PROVE  \E u : DOMAIN u = ViewFields /\ u.peers = v.peers /\ u.pipe = v.pipe /\ Pull(c, u)
    <2>1. CASE Edit(c)
      <3> DEFINE u == Edited(c, v)
      <3>1. Pull(c, u) BY <2>1 DEF Edit, Edited
      <3>2. DOMAIN u = ViewFields /\ u.peers = v.peers /\ u.pipe = v.pipe BY <1>0 DEF Edited, ViewFields
      <3> QED BY <3>1, <3>2
    <2>2. CASE CloseCell(c)
      <3>1. PICK gone : Pull(c, Closed(v, gone)) BY <2>2 DEF CloseCell, Closed
      <3> DEFINE edits == Edits([i \in v.held |-> v.seen[i]])
                 x == Shown(v, edits, gone)
      <3>2. DOMAIN x = ViewFields /\ x.peers = v.peers /\ x.pipe = v.pipe BY <1>0, ShownFields
      <3>3. Pull(c, [x EXCEPT !.held = {}]) BY <3>1 DEF Closed
      <3> HIDE DEF x
      <3> QED BY <3>2, <3>3 DEF ViewFields
    <2> QED BY <1>e, <2>1, <2>2
  <1>1. /\ w.peers = v.peers
        /\ \A d \in Clients \ {c} : view'[d] = view[d]
    <2>1. CASE Edit(c) \/ CloseCell(c)
      <3>1. PICK u : DOMAIN u = ViewFields /\ u.peers = v.peers /\ Pull(c, u) BY <1>e, <2>1
      <3>3. w.peers = v.peers BY <1>0, <3>1, PulledPeers
      <3>4. \E y : view' = [view EXCEPT ![c] = y] BY SMTT(40), <3>1 DEF Pull
      <3> QED BY <1>0, <3>3, <3>4 DEF Shape
    <2>2. CASE Attach(c) \/ Lose(c) \/ Dropped(c)
      BY <1>0, <2>2 DEF Attach, Lose, Dropped, Cut, Shape, ViewFields
    <2> QED BY <2>1, <2>2
  <1>2. /\ \A r \in Pipe : r[1] # c => toView'[r] = toView[r] /\ toDoc'[r] = toDoc[r]
    <2>1. \A k : <<c, k>>[1] = c OBVIOUS
    <2>2. CASE Edit(c) \/ CloseCell(c)
      <3>1. toView' = toView /\ (toDoc' = toDoc \/ \E j : Post(c, j)) BY <1>e, <2>2 DEF Edit, CloseCell, Pull
      <3> QED BY <1>0, <2>1, <3>1 DEF Post, Shape
    <2>3. CASE Attach(c)
      <3>1. toView' = toView /\ \E n, s : toDoc' = [toDoc EXCEPT ![<<c, n>>] = s] BY <2>3 DEF Attach
      <3> QED BY <1>0, <2>1, <3>1 DEF Shape
    <2>4. CASE Lose(c) \/ Dropped(c)
      <3>1. /\ toView' = [toView EXCEPT ![<<c, view[c].pipe>>] = <<>>]
            /\ \E s : toDoc' = [toDoc EXCEPT ![<<c, view[c].pipe>>] = s] BY <2>4 DEF Lose, Dropped, Cut
      <3> QED BY <1>0, <2>1, <3>1 DEF Shape
    <2> QED BY <2>2, <2>3, <2>4
  <1>3. \A d, n : In(d, doc', n) => In(d, doc, n)
    <2>1. CASE Attach(c)
      <3> DEFINE p == <<c, pipes[c] + 1>>
      <3>1. doc' = [doc EXCEPT !.seats = Seat(@, p, NoClient)] BY <2>1 DEF Attach
      <3>2. /\ DOMAIN doc'.seats = DOMAIN doc.seats \cup {p} /\ doc'.seats[p] = NoClient
            /\ \A r \in DOMAIN doc.seats : r # p => doc'.seats[r] = doc.seats[r]
        BY SMTT(40), <1>0, <3>1 DEF Shape, DocFields, Seat
      <3> HIDE DEF p
      <3> QED BY <3>2 DEF In, On
    <2>2. CASE Lose(c) \/ Dropped(c) \/ Edit(c) \/ CloseCell(c)
      BY <2>2 DEF Lose, Dropped, Cut, Edit, CloseCell
    <2> QED BY <2>1, <2>2
  <1>4. PeersRight(c)'
    <2>1. CASE Edit(c) \/ CloseCell(c)
      <3>1. toView' = toView BY <2>1 DEF Edit, CloseCell
      <3>2. PICK u : DOMAIN u = ViewFields /\ u.pipe = v.pipe /\ Pull(c, u) BY <1>e, <2>1
      <3>3. w.pipe = v.pipe BY <1>0, <3>2, PulledPeers
      <3>4. Frames(c)' = Frames(c) BY <3>1, <3>3 DEF Frames
      <3> QED BY <1>0, <1>1, <1>3, <3>3, <3>4, AsidePeers
    <2>2. CASE Attach(c)
      <3> DEFINE n == pipes[c] + 1
      <3>1. /\ view' = [view EXCEPT ![c].pipe = n, ![c].waitingSeq = Unset, ![c].joined = FALSE]
            /\ pipes[c] < MaxPipes /\ toView' = toView /\ pipes[c] \in Nat
            /\ doc' = [doc EXCEPT !.seats = Seat(@, <<c, n>>, NoClient)] BY <1>0, <2>2 DEF Attach, Shape
      <3>2. n > pipes[c] /\ n \in 1 .. MaxPipes BY <3>1, DocumentSyncAssumption
      <3>3. toView[<<c, n>>] = <<>> BY <1>0, <3>2 DEF Shape
      <3> HIDE DEF n
      <3>4. w.pipe = n BY <1>0, <3>1 DEF Shape, ViewFields
      <3>5. Frames(c)' = <<>> BY <3>1, <3>3, <3>4 DEF Frames
      <3>6. doc'.seats[<<c, n>>] = NoClient BY <1>0, <3>1 DEF Shape, DocFields, Seat
      <3>7. ~In(c, doc', w.pipe) BY <3>4, <3>6 DEF In
      <3> QED BY <1>0, <1>1, <3>5, <3>7, ApartPeers
    <2>3. CASE Lose(c) \/ Dropped(c)
      <3>1. view' = [view EXCEPT ![c].pipe = Unset, ![c].joined = FALSE] /\ doc' = doc
        BY <2>3 DEF Lose, Dropped, Cut
      <3>2. w.pipe = Unset BY <1>0, <3>1 DEF Shape, ViewFields
      <3>3. Frames(c)' = <<>> BY <3>2 DEF Frames
      <3>4. ~In(c, doc', Unset) BY <1>0, <3>1 DEF In, On, Shape, Pipe, Unset
      <3> QED BY <1>0, <1>1, <3>2, <3>3, <3>4, ApartPeers
    <2> QED BY <2>1, <2>2, <2>3
  <1>5. ASSUME NEW d \in Clients, d # c PROVE PeersRight(d)'
    <2>1. view'[d] = view[d] /\ PeersRight(d) BY <1>1, <1>5 DEF PeersInv
    <2>2. Frames(d)' = Frames(d) BY <1>2, <1>5, <2>1, AsideFrames
    <2> QED BY <1>3, <2>1, <2>2, AsidePeers
  <1> QED BY <1>4, <1>5 DEF PeersInv

LEMMA PeersInvInit == Init => PeersInv
  <1> SUFFICES ASSUME Init, NEW c \in Clients PROVE PeersRight(c) BY DEF PeersInv
  <1>1. view[c].pipe = Unset /\ view[c].peers = {} /\ doc.seats = <<>> BY DEF Init
  <1>2. Frames(c) = <<>> /\ Len(<<>>) = 0 /\ DOMAIN <<>> = {} BY <1>1 DEF Frames
  <1>3. ~In(c, doc, view[c].pipe) BY <1>1, <1>2 DEF In, On
  <1> QED BY <1>1, <1>2, <1>3 DEF PeersRight

LEMMA PeersInvStep ==
  ASSUME SyncInv, EditInv, Tidy, PeersInv, [Next]_vars PROVE PeersInv'
  <1>1. CASE UNCHANGED vars BY <1>1 DEF vars, PeersInv, PeersRight, Frames
  <1>2. ASSUME NEW c \in Clients, Attach(c) \/ Lose(c) \/ Dropped(c) \/ Handle(c) \/ Edit(c) \/ CloseCell(c)
        PROVE  PeersInv' BY <1>2, HandlePeers, ViewPeers
  <1> QED BY <1>1, <1>2, DocumentPeers DEF Next

----------------
(* What a view and the document agree on.                                  *)

LEMMA RangeJoined ==
  ASSUME NEW s, NEW t, IsSeq(s), IsSeq(t) PROVE Range(s \o t) = Range(s) \cup Range(t)
  <1>1. PICK S : s \in Seq(S) BY DEF IsSeq
  <1>2. PICK T : t \in Seq(T) BY DEF IsSeq
  <1> DEFINE u == s \o t
             l == Len(s)
             m == Len(t)
  <1>3. s \in Seq(S \cup T) /\ t \in Seq(S \cup T) BY <1>1, <1>2
  <1>4. /\ l \in Nat /\ m \in Nat /\ DOMAIN s = 1 .. l /\ DOMAIN t = 1 .. m
        /\ DOMAIN u = 1 .. l + m
        /\ \A i \in 1 .. l + m : u[i] = IF i <= l THEN s[i] ELSE t[i - l] BY <1>3
  <1> HIDE DEF u, l, m
  <1>5. \A e : e \in Range(u) <=> \E i \in 1 .. l + m : u[i] = e BY <1>4, Zenon DEF Range
  <1>6. \A e : (e \in Range(s) <=> \E i \in 1 .. l : s[i] = e) /\ (e \in Range(t) <=> \E i \in 1 .. m : t[i] = e)
    BY <1>4, Zenon DEF Range
  <1>7. ASSUME NEW e, e \in Range(u) PROVE e \in Range(s) \cup Range(t)
    <2>1. PICK i \in 1 .. l + m : u[i] = e BY <1>5, <1>7
    <2>2. (i <= l => i \in 1 .. l) /\ (~(i <= l) => i - l \in 1 .. m) BY <1>4
    <2> QED BY <1>4, <1>6, <2>1, <2>2
  <1>8. ASSUME NEW e, e \in Range(s) PROVE e \in Range(u)
    <2>1. PICK i \in 1 .. l : s[i] = e BY <1>6, <1>8
    <2>2. i \in 1 .. l + m /\ i <= l BY <1>4
    <2> QED BY <1>4, <1>5, <2>1, <2>2
  <1>9. ASSUME NEW e, e \in Range(t) PROVE e \in Range(u)
    <2>1. PICK i \in 1 .. m : t[i] = e BY <1>6, <1>9
    <2>2. l + i \in 1 .. l + m /\ ~(l + i <= l) /\ (l + i) - l = i BY <1>4
    <2>3. u[l + i] = t[i] BY <1>4, <2>2
    <2> QED BY <1>5, <2>1, <2>2, <2>3
  <1> QED BY <1>7, <1>8, <1>9 DEF u

\* At most one change holds an edit, and so it is in one place or in none.
LEMMA InOnePlace ==
  ASSUME NEW S, \A i, j \in S : i = j
  PROVE  (S = {} /\ Cardinality(S) = 0) \/ (S # {} /\ Cardinality(S) = 1)
  <1>1. CASE S = {} BY <1>1, FS_EmptySet
  <1>2. CASE S # {}
    <2>1. PICK i : i \in S BY <1>2
    <2>2. S = {i} BY <2>1
    <2> QED BY <2>2, FS_Singleton
  <1> QED BY <1>1, <1>2

LEMMA HeldTypes ==
  ASSUME SyncInv, EditInv, Tidy PROVE TypeOK
  <1>0. Shape BY DEF SyncInv
  <1>1. doc.epoch \in Nat \ {0} /\ doc.firstRev <= doc.rev /\ doc.rev <= Len(doc.history) /\ Seated \subseteq Pipe
    BY <1>0 DEF Shape, Tidy, Seated
  <1>2. Range(doc.seats) \subseteq Clients \cup {NoClient}
    <2>1. \A q \in DOMAIN doc.seats : doc.seats[q] \in Clients \cup {NoClient} BY SeatOwners DEF Joined
    <2> QED BY <2>1 DEF Range
  <1>3. ASSUME NEW c \in Clients
        PROVE  /\ view[c].pipe \in 0 .. pipes[c]
               /\ {view[c].waitingSeq, view[c].lastSeq, view[c].rev} \subseteq Nat
               /\ view[c].sent = <<>> => view[c].waitingSeq = Unset \/ risk[c] # {}
               /\ risk[c] \subseteq {"snapshot", "early", "moved"}
    <2>1. view[c].pipe \in 0 .. pipes[c] /\ view[c].rev \in Nat BY DEF SyncInv, ViewRight
    <2>2. Held(c) /\ risk[c] \subseteq {"snapshot", "early", "moved"} BY DEF EditInv, Tidy
    <2>3. view[c].waitingSeq \in Nat /\ view[c].lastSeq \in Nat BY <2>2 DEF Held, Lawful, Typed
    <2>4. risk[c] = {} => (view[c].sent = <<>> => view[c].waitingSeq = Unset)
      BY <2>2 DEF Held, Sound, Kept, Awaited
    <2> QED BY <2>1, <2>2, <2>3, <2>4
  <1> QED BY <1>1, <1>2, <1>3 DEF TypeOK

LEMMA HeldExactlyOnce ==
  ASSUME SyncInv, EditInv
  PROVE  ExactlyOnce /\ ViewShowsAll
  <1>1. ASSUME NEW c \in Clients, risk[c] = {}
        PROVE  /\ HeldOnce(c, view[c], doc) /\ ShownRight(view[c])
               /\ Range(Unanswered(c)) = Range(view[c].sent) \cup Range(view[c].queued)
    <2>1. Sound(c, view[c], doc, toDoc, Frames(c)) /\ Typed(c, view[c], doc, toDoc)
      BY <1>1 DEF EditInv, Held, Lawful
    <2>2. IsSeq(view[c].sent) /\ IsSeq(view[c].queued) BY <2>1 DEF Typed
    <2>3. Range(Unanswered(c)) = Range(view[c].sent) \cup Range(view[c].queued)
      BY <2>2, RangeJoined DEF Unanswered
    <2> QED BY <2>1, <2>3 DEF Sound, Kept
  <1>2. ViewShowsAll
    <2> SUFFICES ASSUME NEW c \in Clients, risk[c] = {}
                 PROVE  LET given == GivenEdits(view[c])
                            own   == Range(Unanswered(c))
                        IN /\ (given \cup own) \ view[c].removed \subseteq view[c].shown
                           /\ view[c].shown \subseteq given \cup own BY DEF ViewShowsAll, GivenEdits
    <2> QED BY <1>1 DEF ShownRight
  <1>3. ASSUME NEW c \in Clients, risk[c] = {}, NEW e \in EditsOf(c)
        PROVE  Times(e) = 1 \/ (Times(e) = 0 /\ e \in Range(Unanswered(c)) \cup view[c].removed)
    <2> DEFINE H == doc.history
               S == {i \in DOMAIN H : e \in Range(H[i].body)}
    <2>1. e \in EditsBy(c, view[c]) /\ e[1] = c BY DEF EditsOf, EditsBy
    <2>2. DOMAIN H = 1 .. Len(H) BY DEF SyncInv, Shape, IsSeq
    <2>3. \A i \in S : i \in Made(c, doc) /\ e \in Range(doc.history[i].body)
      <3> SUFFICES ASSUME NEW i \in S PROVE i \in Made(c, doc) OBVIOUS
      <3>1. i \in 1 .. Len(H) /\ e \in Range(H[i].body) BY <2>2
      <3>2. H[i].by = e[1] BY <3>1 DEF EditInv, Signed
      <3> QED BY <2>1, <3>1, <3>2 DEF Made
    <2>4. \A i, j \in S : i = j BY <1>1, <1>3, <2>3 DEF HeldOnce
    <2>5. Times(e) = Cardinality(S) BY DEF Times
    <2>6. \A j \in Made(c, doc) : e \in Range(doc.history[j].body) => j \in S BY <2>2 DEF Made
    <2> HIDE DEF S, H
    <2>7. S = {} => e \in Range(Unanswered(c)) \cup view[c].removed BY <1>1, <1>3, <2>1, <2>6 DEF HeldOnce
    <2>8. (S = {} /\ Cardinality(S) = 0) \/ (S # {} /\ Cardinality(S) = 1) BY <2>4, InOnePlace
    <2> QED BY <2>5, <2>7, <2>8
  <1> QED BY <1>2, <1>3 DEF ExactlyOnce

LEMMA SettledPeers ==
  ASSUME SyncInv, PeersInv PROVE PeersTrue
  <1>1. ASSUME NEW c \in Clients, Quiet(c)
        PROVE  In(c, doc, view[c].pipe) /\ view[c].pipe \in NumPipes /\ Frames(c) = <<>>
    <2> DEFINE p == <<c, view[c].pipe>>
    <2>1. /\ toDoc[p] = <<>> /\ toView[p] = <<>> /\ p \in DOMAIN doc.seats BY <1>1 DEF Quiet, Seated
    <2>2. view[c].pipe \in NumPipes BY <2>1 DEF SyncInv, Shape, Pipe, NumPipes
    <2>3. view[c].pipe # Unset BY <2>2 DEF NumPipes, Unset
    <2>4. ~Unjoined(doc.seats, p) BY <2>1, <2>3 DEF SyncInv, FramesRight
    <2> QED BY <2>1, <2>2, <2>3, <2>4 DEF Unjoined, In, On, Frames
  <1> SUFFICES ASSUME NEW c \in Clients, NEW d \in Clients, Quiet(c), Quiet(d)
               PROVE  d \in view[c].peers <=> d # c BY DEF PeersTrue
  <1>2. PeersRight(c) BY DEF PeersInv
  <1>3. d = c => d \notin view[c].peers BY <1>2 DEF PeersRight
  <1>4. ASSUME d # c PROVE d \in view[c].peers
    <2>1. Joins(d, doc) BY <1>1 DEF Joins
    <2>2. Knows(<<>>, view[c].peers, d) BY <1>1, <1>2, <1>4, <2>1 DEF PeersRight
    <2>3. Len(<<>>) = 0 OBVIOUS
    <2> QED BY <2>2, <2>3 DEF Knows
  <1> QED BY <1>3, <1>4

\* A view and the document agree on the view's own edits and on who is
\* there, over lost links, refusals, crashes, new journals and openings:
\* each edit of a client that knows the fate of its batches is in the
\* document exactly once, or still in its outbox, or removed with its line;
\* its editor shows what it was given and its own unanswered edits, but for
\* what waits or was removed; and settled views know their peers.
THEOREM EditsKeptAlways == Spec => []EditsKept
  <1> DEFINE Inv == SyncInv /\ EditInv /\ Tidy /\ PeersInv
  <1>1. Init => Inv BY SyncInvInit, EditInvInit, PeersInvInit
  <1>2. Inv /\ [Next]_vars => Inv' BY SyncInvStep, EditInvStep, PeersInvStep
  <1>3. Inv => EditsKept BY HeldTypes, HeldExactlyOnce, SettledPeers DEF EditsKept
  <1> QED BY <1>1, <1>2, <1>3, PTL DEF Spec

=============================================================================
