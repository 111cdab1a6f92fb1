------------------------- MODULE TerminalSizeProofs -------------------------
(***************************************************************************)
(* Proofs about TerminalSize: its types, who has the size, what the        *)
(* program is told of the focus, and to whom a size is given back, for     *)
(* every number of views, sizes, turns and reports.                        *)
(***************************************************************************)
EXTENDS TerminalSize, WellFoundedInduction, TLAPS

Report == [focus : BOOLEAN, by : {{}} \cup {{v} : v \in View}]

-----------------------------------------------------------------------------
(***************************************************************************)
(* Numbers: a bounded set of naturals has a maximum, and so the latest     *)
(* turn is a turn.                                                         *)
(***************************************************************************)

\* Every set of naturals that is not empty has a least element.
LEMMA LeastNatural ==
  ASSUME NEW T, T \subseteq Nat, T # {}
  PROVE  \E n \in T : \A m \in T : n <= m
  <1>1. PICK n \in T : \A m \in T : ~(<<m, n>> \in OpToRel(<, Nat))
    BY NatLessThanWellFounded, WFMin
  <1>2. \A m \in T : ~(m < n)
    BY <1>1 DEF OpToRel
  <1> QED BY <1>2

\* A bounded set of naturals that is not empty has a maximum.
LEMMA MaxOfBounded ==
  ASSUME NEW S, S \subseteq Nat, S # {}, NEW b \in Nat, \A n \in S : n <= b
  PROVE  /\ Max(S) \in S
         /\ \A n \in S : n <= Max(S)
  <1> DEFINE T == {c \in Nat : \A n \in S : n <= c}
  <1>1. PICK c \in T : \A d \in T : c <= d
    <2>1. T # {} /\ T \subseteq Nat
      OBVIOUS
    <2> HIDE DEF T
    <2> QED BY <2>1, LeastNatural
  <1>2. c \in S
    <2> SUFFICES ASSUME c \notin S PROVE FALSE
      OBVIOUS
    <2>1. PICK m \in S : TRUE
      OBVIOUS
    <2>2. c # 0 /\ c \in Nat
      BY <2>1
    <2>3. c - 1 \in T
      BY <2>2
    <2> QED BY <1>1, <2>2, <2>3
  <1>3. \E x \in S : \A y \in S : x >= y
    BY <1>2
  <1> QED BY <1>3 DEF Max

(***************************************************************************)
(* Kept: what drop_cancelled_input leaves of the queue.                    *)
(***************************************************************************)

\* The queue that is left has reports only, is no longer than it was, and
\* ends with the same report if that one stays.
LEMMA KeptProperties ==
  ASSUME NEW q \in Seq(Report)
  PROVE  /\ Kept(q) \in Seq(Report)
         /\ Len(Kept(q)) <= Len(q)
         /\ q # <<>> /\ q[Len(q)].by \subseteq live =>
              Kept(q) # <<>> /\ Kept(q)[Len(Kept(q))] = q[Len(q)]
  <1> DEFINE Step(f, n) == IF n = 0 THEN <<>>
                           ELSE IF q[n].by \subseteq live THEN Append(f[n - 1], q[n])
                           ELSE f[n - 1]
             Good(f, m) == f = [n \in 0 .. m |-> Step(f, n)]
             Bad == {m \in Nat : ~ \E f : Good(f, m)}
  <1>1. Bad = {}
    <2> SUFFICES ASSUME Bad # {} PROVE FALSE
      OBVIOUS
    <2>1. PICK m \in Bad : \A n \in Bad : m <= n
      <3>1. Bad \subseteq Nat
        OBVIOUS
      <3> HIDE DEF Bad
      <3> QED BY <3>1, LeastNatural
    <2>2. m \in Nat /\ ~ \E f : Good(f, m)
      OBVIOUS
    <2>3. CASE m = 0
      <3> DEFINE f == [n \in 0 .. 0 |-> <<>>]
      <3>1. \A n \in 0 .. 0 : Step(f, n) = <<>>
        OBVIOUS
      <3>2. f = [n \in 0 .. 0 |-> Step(f, n)]
        <4> HIDE DEF Step
        <4> QED BY <3>1, Zenon
      <3>3. Good(f, m)
        BY <2>3, <3>2, Zenon
      <3> QED BY <2>2, <3>3, Zenon
    <2>4. CASE m # 0
      <3>1. m - 1 \in Nat /\ m - 1 \notin Bad
        <4> HIDE DEF Bad
        <4> QED BY <2>1, <2>2, <2>4
      <3>2. \E g : Good(g, m - 1)
        BY <3>1, Zenon
      <3>3. PICK g : Good(g, m - 1)
        BY <3>2, Zenon
      <3> DEFINE f == [n \in 0 .. m |-> IF n = m THEN Step(g, m) ELSE g[n]]
      <3>4. \A n \in 0 .. m - 1 : g[n] = Step(g, n)
        <4>1. g = [n \in 0 .. m - 1 |-> Step(g, n)]
          BY <3>3, Zenon
        <4> HIDE DEF Step
        <4> QED BY <4>1, Zenon
      <3>5. \A n \in 0 .. m : f[n] = Step(f, n)
        <4> SUFFICES ASSUME NEW n \in 0 .. m PROVE f[n] = Step(f, n)
          OBVIOUS
        <4>1. n # 0 => f[n - 1] = g[n - 1]
          BY <2>2, <2>4
        <4>2. Step(f, n) = Step(g, n)
          <5> HIDE DEF f
          <5> QED BY <4>1, Zenon
        <4>3. CASE n = m
          <5> HIDE DEF Step
          <5> QED BY <4>2, <4>3, <2>2, <2>4
        <4>4. CASE n # m
          <5> HIDE DEF Step
          <5>1. n \in 0 .. m - 1
            BY <4>4, <2>2
          <5> QED BY <3>4, <4>2, <4>4, <5>1
        <4> QED BY <4>3, <4>4
      <3>6. Good(f, m)
        <4>1. f = [n \in 0 .. m |-> f[n]]
          <5> HIDE DEF Step
          <5> QED OBVIOUS
        <4> HIDE DEF f, Step
        <4> QED BY <4>1, <3>5, Zenon
      <3> QED BY <3>6, <2>2, Zenon
    <2> QED BY <2>3, <2>4
  <1> DEFINE kept == CHOOSE f : Good(f, Len(q))
  <1>2. Good(kept, Len(q)) /\ Kept(q) = kept[Len(q)]
    <2>1. Len(q) \in Nat
      OBVIOUS
    <2>2. \E f : Good(f, Len(q))
      BY <1>1, <2>1, Zenon
    <2>3. Good(kept, Len(q))
      BY <2>2, Zenon
    <2>4. Kept(q) = kept[Len(q)]
      BY Zenon DEF Kept
    <2> QED BY <2>3, <2>4, Zenon
  <1> HIDE DEF kept
  <1>3. \A n \in 0 .. Len(q) : kept[n] = Step(kept, n)
    <2>1. kept = [n \in 0 .. Len(q) |-> Step(kept, n)]
      BY <1>2, Zenon
    <2> HIDE DEF Step
    <2> QED BY <2>1, Zenon
  <1> HIDE DEF Good
  <1>r. \A n \in 1 .. Len(q) : q[n] \in Report
    OBVIOUS
  <1> DEFINE Fits(n) == kept[n] \in Seq(Report) /\ Len(kept[n]) <= n
             Off == {n \in 0 .. Len(q) : ~Fits(n)}
  <1>4. Off = {}
    <2> SUFFICES ASSUME Off # {} PROVE FALSE
      OBVIOUS
    <2>1. PICK m \in Off : \A n \in Off : m <= n
      <3>1. Off \subseteq Nat
        OBVIOUS
      <3> HIDE DEF Off
      <3> QED BY <3>1, LeastNatural
    <2>2. m \in 0 .. Len(q) /\ ~Fits(m) /\ Len(q) \in Nat
      OBVIOUS
    <2>3. m # 0
      <3> SUFFICES ASSUME m = 0 PROVE FALSE
        OBVIOUS
      <3>1. kept[0] = <<>>
        BY <1>3, <2>2
      <3> QED BY <2>2, <3>1
    <2>4. m - 1 \in 0 .. Len(q) /\ m \in 1 .. Len(q) /\ m \in Nat /\ ~(m <= m - 1)
      BY <2>2, <2>3
    <2>5. Fits(m - 1)
      <3>1. m - 1 \notin Off
        <4> HIDE DEF Off
        <4> QED BY <2>1, <2>4
      <3> QED BY <3>1, <2>4, Zenon
    <2>6. kept[m] = Step(kept, m)
      <3> HIDE DEF Step
      <3> QED BY <1>3, <2>2, Zenon
    <2>7. kept[m] = kept[m - 1] \/ kept[m] = Append(kept[m - 1], q[m])
      BY <2>6, <2>3, Zenon
    <2>8. kept[m - 1] \in Seq(Report) /\ Len(kept[m - 1]) <= m - 1 /\ q[m] \in Report
      BY <2>4, <2>5, <1>r
    <2>9. Append(kept[m - 1], q[m]) \in Seq(Report)
            /\ Len(Append(kept[m - 1], q[m])) <= m
      BY <2>4, <2>8
    <2>10. Len(kept[m - 1]) <= m
      BY <2>4, <2>8
    <2>11. Fits(m)
      BY <2>7, <2>8, <2>9, <2>10, Zenon
    <2> QED BY <2>2, <2>11, Zenon
  <1>5. \A n \in 0 .. Len(q) : Fits(n)
    BY <1>4, Zenon
  <1>6. Kept(q) \in Seq(Report) /\ Len(Kept(q)) <= Len(q)
    <2>1. Len(q) \in 0 .. Len(q)
      OBVIOUS
    <2> QED BY <1>2, <1>5, <2>1
  <1>7. ASSUME q # <<>>, q[Len(q)].by \subseteq live
        PROVE  Kept(q) # <<>> /\ Kept(q)[Len(Kept(q))] = q[Len(q)]
    <2>1. Len(q) - 1 \in 0 .. Len(q) /\ Len(q) # 0 /\ Len(q) \in 0 .. Len(q)
      BY <1>7
    <2>2. Kept(q) = Append(kept[Len(q) - 1], q[Len(q)])
      BY <1>2, <1>3, <1>7, <2>1, Zenon
    <2>3. Len(q) \in 1 .. Len(q)
      BY <2>1
    <2>4. kept[Len(q) - 1] \in Seq(Report) /\ q[Len(q)] \in Report
      BY <1>5, <1>r, <2>1, <2>3
    <2> HIDE DEF Report
    <2> QED BY <2>2, <2>4
  <1> QED BY <1>6, <1>7

-----------------------------------------------------------------------------
(***************************************************************************)
(* The inductive invariant.                                                *)
(***************************************************************************)

\* What asked holds for a view.
Asked == {{}} \cup {{s} : s \in Size}

\* The turns taken so far have a bound, though View may be of any size.
Bounded(t) == \E b \in Nat : \A v \in View : t[v] <= b

\* A view that is there, or still to come, has a later turn than every view
\* that did not take the size since it did.
TurnOrder == \A v \in live \cup fresh, w \in View : w \in since[v] => turn[w] < turn[v]

\* While no view is in focus the program was told so, or will be: the last
\* report says so, and no view that goes can take it away.
FocusHeard ==
  phase = "running" /\ ~lost /\ focused = {} =>
    IF reports = <<>> THEN ~told
    ELSE ~reports[Len(reports)].focus /\ reports[Len(reports)].by = {}

SizeInv ==
  /\ TypeOK
  /\ Bounded(turn)
  /\ OwnerHasItsSize
  /\ FocusSetsSize
  /\ TurnOrder
  /\ FocusHeard

\* The latest turn is a turn, and none is later.
LEMMA LatestTurn ==
  ASSUME NEW t \in [View -> Nat], Bounded(t)
  PROVE  Latest(t) \in Nat /\ \A v \in View : t[v] <= Latest(t)
  <1>1. PICK b \in Nat : \A v \in View : t[v] <= b
    BY DEF Bounded
  <1> DEFINE S == {t[v] : v \in View} \cup {0}
  <1>2. S \subseteq Nat /\ S # {} /\ \A n \in S : n <= b
    BY <1>1
  <1>3. \A v \in View : t[v] \in S
    OBVIOUS
  <1> HIDE DEF S
  <1>4. Max(S) \in S /\ \A n \in S : n <= Max(S)
    BY <1>2, MaxOfBounded
  <1>5. Latest(t) = Max(S)
    BY DEF Latest, S
  <1> QED BY <1>2, <1>3, <1>4, <1>5

(***************************************************************************)
(* The three ways in which apply_resize ends.                              *)
(***************************************************************************)

\* The view that takes the size has the latest turn, and the terminal the
\* size it asked for.
LEMMA TakesResult ==
  ASSUME TypeOK, NEW a \in [View -> Asked], NEW t \in [View -> Nat], Bounded(t),
         NEW v \in View, NEW s \in Size, Takes(a, t, v, s)
  PROVE  /\ asked' \in [View -> Asked] /\ asked'[v] = {s}
         /\ \A w \in View \ {v} : asked'[w] = a[w]
         /\ turn' \in [View -> Nat]
         /\ \A w \in View \ {v} : turn'[w] = t[w] /\ t[w] < turn'[v]
         /\ Bounded(turn)'
         /\ owner' = {v} /\ size' = s /\ pty' = s
         /\ since' \in [View -> SUBSET View] /\ v \notin since'[v]
         /\ \A w \in View \ {v} : since'[w] = since[w] \ {v}
         /\ denied' = denied \ {v} /\ phase' = phase
  <1>1. Latest(t) \in Nat /\ \A w \in View : t[w] <= Latest(t)
    BY LatestTurn
  <1>2. asked' \in [View -> Asked] /\ asked'[v] = {s} /\ \A w \in View \ {v} : asked'[w] = a[w]
    BY DEF Takes, Asked
  <1>3. turn' = [t EXCEPT ![v] = Latest(t) + 1]
    BY DEF Takes
  <1>4. /\ turn' \in [View -> Nat]
        /\ \A w \in View \ {v} : turn'[w] = t[w] /\ t[w] < turn'[v]
        /\ \A w \in View : turn'[w] <= Latest(t) + 1
    BY <1>1, <1>3
  <1>5. Bounded(turn)'
    BY <1>1, <1>4 DEF Bounded
  <1>6. /\ since' \in [View -> SUBSET View] /\ v \notin since'[v]
        /\ \A w \in View \ {v} : since'[w] = since[w] \ {v}
    BY DEF Takes, TookLast, TypeOK
  <1> QED BY <1>2, <1>4, <1>5, <1>6 DEF Takes

\* A refused request is kept, and nothing else of the size changes.
LEMMA RejectedResult ==
  ASSUME TypeOK, NEW a \in [View -> Asked], NEW t \in [View -> Nat], Bounded(t),
         NEW v \in View, NEW s \in Size, Rejected(a, t, v, s)
  PROVE  /\ asked' \in [View -> Asked] /\ asked'[v] = {s}
         /\ \A w \in View \ {v} : asked'[w] = a[w]
         /\ turn' = t /\ Bounded(turn)'
         /\ size' = size /\ pty' = pty /\ since' = since
         /\ denied' = denied \cup {v} /\ phase' = phase
  <1>1. asked' \in [View -> Asked] /\ asked'[v] = {s} /\ \A w \in View \ {v} : asked'[w] = a[w]
    BY DEF Rejected, Asked
  <1>2. turn' = t
    BY DEF Rejected
  <1>3. Bounded(turn)'
    BY <1>2 DEF Bounded
  <1> QED BY <1>1, <1>2, <1>3 DEF Rejected

\* A resize that failed half way stops the terminal.
LEMMA DivergedResult ==
  ASSUME TypeOK, NEW a \in [View -> Asked], NEW t \in [View -> Nat], Bounded(t),
         NEW v \in View, NEW s \in Size, Diverged(a, t, v, s)
  PROVE  /\ asked' \in [View -> Asked]
         /\ turn' = t /\ Bounded(turn)'
         /\ size' \in Size /\ pty' \in Size /\ since' = since
         /\ denied' = denied /\ phase' = "stopped"
  <1>1. asked' \in [View -> Asked]
    BY DEF Diverged, Asked
  <1>2. turn' = t
    BY DEF Diverged
  <1>3. Bounded(turn)'
    BY <1>2 DEF Bounded
  <1> QED BY <1>1, <1>2, <1>3 DEF Diverged, TypeOK

\* Of two views that keep the order of their turns, a view that takes the
\* size leaves it so.
LEMMA TakesOrder ==
  ASSUME TypeOK, NEW a \in [View -> Asked], NEW t \in [View -> Nat], Bounded(t),
         NEW v \in View, NEW s \in Size, Takes(a, t, v, s),
         NEW L \in SUBSET View,
         \A x \in L, w \in View : w \in since[x] => t[w] < t[x]
  PROVE  \A x \in L, w \in View : w \in since'[x] => turn'[w] < turn'[x]
  <1> SUFFICES ASSUME NEW x \in L, NEW w \in View, w \in since'[x]
               PROVE  turn'[w] < turn'[x]
    OBVIOUS
  <1>1. /\ \A y \in View \ {v} : turn'[y] = t[y] /\ t[y] < turn'[v]
        /\ v \notin since'[v]
        /\ \A y \in View \ {v} : since'[y] = since[y] \ {v}
    BY TakesResult
  <1>2. CASE x = v
    BY <1>1, <1>2
  <1>3. CASE x # v
    BY <1>1, <1>3
  <1> QED BY <1>2, <1>3

(***************************************************************************)
(* What set_focus and release do.                                          *)
(***************************************************************************)

\* set_focus puts one report in the queue, loses one, or has none to make.
LEMMA ReportedResult ==
  ASSUME TypeOK, NEW f \in SUBSET View, NEW by \in {{}} \cup {{v} : v \in View},
         NEW r \in Reported(f, by)
  PROVE  /\ r.reports \in Seq(Report) /\ Len(r.reports) <= ReportRoom
         /\ r.lost \in BOOLEAN /\ r.ok \in BOOLEAN
         /\ ~r.lost => ~lost
         /\ ~r.lost /\ f = {} /\ focused = {} => r.reports = reports
         /\ ~r.lost /\ f = {} /\ focused # {} => r.reports = Append(reports, [focus |-> FALSE, by |-> by])
  <1>1. reports \in Seq(Report) /\ Len(reports) <= ReportRoom /\ lost \in BOOLEAN
    BY DEF TypeOK, Report
  <1>2. [focus |-> f # {}, by |-> by] \in Report
    BY DEF Report
  <1>3. Append(reports, [focus |-> f # {}, by |-> by]) \in Seq(Report)
    BY <1>1, <1>2
  <1>4. CASE (focused = {}) = (f = {})
    <2>1. r = [reports |-> reports, lost |-> lost, ok |-> TRUE]
      BY <1>4, Zenon DEF Reported
    <2> QED BY <1>1, <1>4, <2>1
  <1>5. CASE ~((focused = {}) = (f = {}))
    <2>1. /\ \/ r = [reports |-> reports, lost |-> TRUE, ok |-> FALSE]
             \/ r = [reports |-> Append(reports, [focus |-> f # {}, by |-> by]),
                     lost |-> lost, ok |-> TRUE]
          /\ Len(r.reports) <= ReportRoom
      BY <1>5, Zenon DEF Reported
    <2>2. CASE r = [reports |-> reports, lost |-> TRUE, ok |-> FALSE]
      BY <1>1, <2>1, <2>2
    <2>3. CASE r = [reports |-> Append(reports, [focus |-> f # {}, by |-> by]),
                    lost |-> lost, ok |-> TRUE]
      <3>1. r.reports = Append(reports, [focus |-> f # {}, by |-> by])
              /\ r.lost = lost /\ r.ok = TRUE
        BY <2>3
      <3>2. f = {} => r.reports = Append(reports, [focus |-> FALSE, by |-> by])
        BY <3>1
      <3>3. r.reports \in Seq(Report)
        BY <1>3, <3>1, Zenon
      <3> QED BY <1>1, <1>5, <2>1, <3>1, <3>2, <3>3
    <2> QED BY <2>1, <2>2, <2>3
  <1> QED BY <1>4, <1>5

\* After set_focus without a view in focus, the program was or will be told.
LEMMA ReleaseHeard ==
  ASSUME TypeOK, FocusHeard, phase = "running", NEW f \in SUBSET View, f = {},
         NEW r \in Reported(f, {}), ~r.lost
  PROVE  IF r.reports = <<>> THEN ~told
         ELSE ~r.reports[Len(r.reports)].focus /\ r.reports[Len(r.reports)].by = {}
  <1>1. /\ ~lost
        /\ r.reports = IF focused = {} THEN reports
                       ELSE Append(reports, [focus |-> FALSE, by |-> {}])
    <2>1. {} \in {{}} \cup {{v} : v \in View}
      OBVIOUS
    <2>2. /\ ~r.lost => ~lost
          /\ ~r.lost /\ f = {} /\ focused = {} => r.reports = reports
          /\ ~r.lost /\ f = {} /\ focused # {} => r.reports = Append(reports, [focus |-> FALSE, by |-> {}])
      BY <2>1, ReportedResult
    <2> QED BY <2>2
  <1>2. CASE focused = {}
    BY <1>1, <1>2, Zenon DEF FocusHeard
  <1>3. CASE focused # {}
    <2>1. reports \in Seq(Report)
      BY DEF TypeOK, Report
    <2>2. r.reports = Append(reports, [focus |-> FALSE, by |-> {}])
      BY <1>1, <1>3, Zenon
    <2>3. r.reports # <<>> /\ r.reports[Len(r.reports)] = [focus |-> FALSE, by |-> {}]
      BY <2>1, <2>2
    <2> QED BY <2>3
  <1> QED BY <1>2, <1>3

\* What give_size_back and release leave of the size, when the views of
\* gone are known and the size is not left with one of them.
LEMMA ReleaseKeeps ==
  ASSUME SizeInv, phase = "running", NEW gone \in SUBSET (View \ fresh), NEW vacant \in BOOLEAN,
         Release(gone, vacant), ~vacant => owner \cap gone = {}, fresh' = fresh
  PROVE  /\ phase' \in {"running", "stopped"}
         /\ live' \in SUBSET (View \ fresh) /\ focused' \in SUBSET (View \ fresh)
         /\ asked' \in [View -> Asked] /\ turn' \in [View -> Nat]
         /\ owner' \in {{}} \cup {{v} : v \in View}
         /\ size' \in Size /\ pty' \in Size
         /\ since' \in [View -> SUBSET View]
         /\ denied' \in SUBSET View /\ missed' \in BOOLEAN
         /\ Bounded(turn)'
         /\ OwnerHasItsSize' /\ FocusSetsSize' /\ TurnOrder'
         /\ owner' # owner =>
              \A heir \in owner' :
                /\ heir \in focused \cap live
                /\ \A v \in focused' \cap live' : asked[v] # {} => heir \notin since[v]
  <1> DEFINE a == [v \in View |-> IF v \in gone THEN {} ELSE asked[v]]
             t == [v \in View |-> IF v \in gone THEN 0 ELSE turn[v]]
             Kinds == /\ phase' \in {"running", "stopped"}
                      /\ live' \in SUBSET (View \ fresh) /\ focused' \in SUBSET (View \ fresh)
                      /\ asked' \in [View -> Asked] /\ turn' \in [View -> Nat]
                      /\ owner' \in {{}} \cup {{v} : v \in View}
                      /\ size' \in Size /\ pty' \in Size
                      /\ since' \in [View -> SUBSET View]
                      /\ denied' \in SUBSET View /\ missed' \in BOOLEAN
             Order == owner' # owner =>
                        \A heir \in owner' :
                          /\ heir \in focused \cap live
                          /\ \A v \in focused' \cap live' : asked[v] # {} => heir \notin since[v]
  <1>1. /\ TypeOK /\ Bounded(turn) /\ OwnerHasItsSize /\ FocusSetsSize /\ TurnOrder
        /\ turn \in [View -> Nat] /\ asked \in [View -> Asked]
    BY DEF SizeInv, TypeOK, Asked
  <1>2. a \in [View -> Asked] /\ \A v \in View : v \notin gone => a[v] = asked[v]
    BY <1>1 DEF Asked
  <1>3. t \in [View -> Nat] /\ \A v \in View : t[v] <= turn[v] /\ (v \notin gone => t[v] = turn[v])
    BY <1>1
  <1>4. Bounded(t)
    <2>1. PICK b \in Nat : \A v \in View : turn[v] <= b
      BY <1>1 DEF Bounded
    <2>2. \A v \in View : t[v] <= b
      <3> HIDE DEF t
      <3> QED BY <1>1, <1>3, <2>1
    <2> QED BY <2>2 DEF Bounded
  <1>5. focused' = focused \ gone
    BY DEF Release
  <1>6. \A x \in (live \ gone) \cup fresh, w \in View : w \in since[x] => t[w] < t[x]
    <2> SUFFICES ASSUME NEW x \in (live \ gone) \cup fresh, NEW w \in View, w \in since[x]
                 PROVE  t[w] < t[x]
      OBVIOUS
    <2>1. turn[w] < turn[x]
      BY <1>1 DEF TurnOrder
    <2>2. x \in View /\ x \notin gone
      BY <1>1 DEF TypeOK
    <2>3. t[x] = turn[x] /\ t[w] <= turn[w] /\ turn[w] \in Nat /\ turn[x] \in Nat /\ t[w] \in Nat
      <3> HIDE DEF t
      <3> QED BY <1>1, <1>3, <2>2
    <2> HIDE DEF t
    <2> QED BY <2>1, <2>3
  <1>7. \/ vacant /\ GiveBack(a, t, gone)
        \/ /\ ~vacant /\ asked' = a /\ turn' = t /\ live' = live \ gone
           /\ UNCHANGED <<phase, owner, size, pty, since, denied, missed>>
    BY DEF Release
  <1> HIDE DEF a, t
  <1>8. CASE ~vacant
    <2>1. /\ asked' = a /\ turn' = t /\ live' = live \ gone
          /\ UNCHANGED <<phase, owner, size, pty, since, denied, missed>>
      BY <1>7, <1>8
    <2>2. Kinds /\ Order
      BY <1>1, <1>2, <1>3, <1>5, <2>1 DEF TypeOK, Asked
    <2>3. Bounded(turn)'
      BY <1>4, <2>1 DEF Bounded
    <2>4. OwnerHasItsSize'
      BY <1>1, <1>2, <1>8, <2>1 DEF OwnerHasItsSize, TypeOK
    <2>5. FocusSetsSize'
      BY <1>1, <1>2, <1>5, <2>1 DEF FocusSetsSize, TypeOK
    <2>6. TurnOrder'
      BY <1>6, <2>1 DEF TurnOrder
    <2> QED BY <2>2, <2>3, <2>4, <2>5, <2>6
  <1>9. CASE vacant /\ Heirs(gone) = {} /\ owner' = {} /\ asked' = a /\ turn' = t
             /\ live' = live \ gone /\ UNCHANGED <<phase, size, pty, since, denied, missed>>
    <2>2. Kinds /\ Order
      BY <1>1, <1>2, <1>3, <1>5, <1>9 DEF TypeOK, Asked
    <2>3. Bounded(turn)'
      BY <1>4, <1>9 DEF Bounded
    <2>4. OwnerHasItsSize'
      BY <1>1, <1>9 DEF OwnerHasItsSize
    <2>5. FocusSetsSize'
      BY <1>1, <1>2, <1>5, <1>9 DEF FocusSetsSize, TypeOK, Heirs
    <2>6. TurnOrder'
      BY <1>6, <1>9 DEF TurnOrder
    <2> QED BY <2>2, <2>3, <2>4, <2>5, <2>6
  <1>10. ASSUME vacant, NEW w \in Heirs(gone), NEW s \in asked[w],
                \A other \in Heirs(gone) : turn[other] <= turn[w],
                \/ /\ Takes(a, t, w, s)
                   /\ live' = live \ gone
                   /\ missed' = missed
                \/ /\ Rejected(a, t, w, s) /\ owner' = {}
                   /\ live' \in {live \ gone, live \ (gone \cup {w})}
                   /\ missed' = (missed \/ Heirs(gone) # {w})
                \/ /\ Diverged(a, t, w, s) /\ owner' = {}
                   /\ live' = live \ gone
                   /\ missed' = missed
         PROVE  Kinds /\ Bounded(turn)' /\ OwnerHasItsSize' /\ FocusSetsSize' /\ TurnOrder' /\ Order
    <2>1. w \in View /\ w \in focused /\ w \in live /\ w \notin gone /\ s \in Size
      BY <1>1 DEF Heirs, TypeOK, Asked
    <2>2. CASE Takes(a, t, w, s) /\ live' = live \ gone /\ missed' = missed
      <3>1. /\ asked' \in [View -> Asked] /\ asked'[w] = {s}
            /\ turn' \in [View -> Nat] /\ Bounded(turn)'
            /\ owner' = {w} /\ size' = s /\ pty' = s
            /\ since' \in [View -> SUBSET View]
            /\ denied' = denied \ {w} /\ phase' = phase
        BY <1>1, <1>2, <1>3, <1>4, <2>1, <2>2, TakesResult
      <3>2. Kinds
        BY <1>1, <1>5, <2>1, <2>2, <3>1 DEF TypeOK
      <3>3. OwnerHasItsSize' /\ FocusSetsSize'
        BY <3>1 DEF OwnerHasItsSize, FocusSetsSize
      <3>4. TurnOrder'
        <4>1. (live \ gone) \cup fresh \in SUBSET View
          BY <1>1 DEF TypeOK
        <4>2. \A x \in (live \ gone) \cup fresh, y \in View : y \in since'[x] => turn'[y] < turn'[x]
          BY <1>1, <1>2, <1>3, <1>4, <1>6, <2>1, <2>2, <4>1, TakesOrder
        <4> QED BY <2>2, <4>2 DEF TurnOrder
      <3>5. Order
        <4> SUFFICES ASSUME NEW v \in focused' \cap live', asked[v] # {}, w \in since[v]
                     PROVE  FALSE
          BY <2>1, <3>1
        <4>1. v \in Heirs(gone) /\ v \in live /\ v \in View
          BY <1>1, <1>5, <2>2 DEF Heirs, TypeOK
        <4>2. turn[w] < turn[v] /\ turn[v] <= turn[w]
          BY <1>1, <1>10, <2>1, <4>1 DEF TurnOrder
        <4> QED BY <1>1, <2>1, <4>1, <4>2
      <3> QED BY <3>1, <3>2, <3>3, <3>4, <3>5
    <2>3. CASE Rejected(a, t, w, s) /\ owner' = {}
               /\ live' \in {live \ gone, live \ (gone \cup {w})}
               /\ missed' = (missed \/ Heirs(gone) # {w})
      <3>1. /\ asked' \in [View -> Asked]
            /\ \A x \in View \ {w} : asked'[x] = a[x]
            /\ turn' = t /\ Bounded(turn)'
            /\ size' = size /\ pty' = pty /\ since' = since
            /\ denied' = denied \cup {w} /\ phase' = phase
        BY <1>1, <1>2, <1>3, <1>4, <2>1, <2>3, RejectedResult
      <3>2. Kinds
        BY <1>1, <1>3, <1>5, <2>1, <2>3, <3>1 DEF TypeOK
      <3>3. OwnerHasItsSize'
        BY <1>1, <2>3, <3>1 DEF OwnerHasItsSize
      <3>4. FocusSetsSize'
        <4> SUFFICES ASSUME Heirs(gone) = {w}, NEW v \in focused' \cap live', v # w
                     PROVE  asked'[v] = {}
          BY <2>3, <3>1 DEF FocusSetsSize
        <4>1. v \notin Heirs(gone) /\ v \in focused \ gone /\ v \in live /\ v \in View
          BY <1>1, <1>5, <2>3 DEF TypeOK
        <4> QED BY <1>2, <3>1, <4>1 DEF Heirs
      <3>5. TurnOrder'
        BY <1>6, <2>3, <3>1 DEF TurnOrder
      <3> QED BY <2>3, <3>1, <3>2, <3>3, <3>4, <3>5
    <2>4. CASE Diverged(a, t, w, s) /\ owner' = {} /\ live' = live \ gone /\ missed' = missed
      <3>1. /\ asked' \in [View -> Asked] /\ turn' = t /\ Bounded(turn)'
            /\ size' \in Size /\ pty' \in Size /\ since' = since
            /\ denied' = denied /\ phase' = "stopped"
        BY <1>1, <1>2, <1>3, <1>4, <2>1, <2>4, DivergedResult
      <3>2. Kinds
        BY <1>1, <1>3, <1>5, <2>4, <3>1 DEF TypeOK
      <3>3. OwnerHasItsSize' /\ FocusSetsSize'
        BY <3>1 DEF OwnerHasItsSize, FocusSetsSize
      <3>4. TurnOrder'
        BY <1>6, <2>4, <3>1 DEF TurnOrder
      <3> QED BY <2>4, <3>1, <3>2, <3>3, <3>4
    <2> QED BY <1>10, <2>2, <2>3, <2>4
  <1> QED BY <1>7, <1>8, <1>9, <1>10 DEF GiveBack

-----------------------------------------------------------------------------
(***************************************************************************)
(* Every action keeps the invariant.                                       *)
(***************************************************************************)

\* The size of a terminal when apply_resize has run for a view in the table.
SizeStep(v, s) ==
  \/ Takes(asked, turn, v, s)
  \/ (Rejected(asked, turn, v, s) \/ Diverged(asked, turn, v, s)) /\ owner' = owner

\* apply_resize for a view that is there keeps what the invariant says of
\* the size.
LEMMA SizeStepKeeps ==
  ASSUME SizeInv, NEW v \in View, NEW s \in Size, SizeStep(v, s),
         fresh' = fresh, live' \in SUBSET live, focused' \in SUBSET View,
         focused' \subseteq focused \cup {v}, missed' = missed
  PROVE  /\ phase' \in {"running", "stopped"}
         /\ asked' \in [View -> Asked] /\ turn' \in [View -> Nat]
         /\ owner' \in {{}} \cup {{w} : w \in View}
         /\ size' \in Size /\ pty' \in Size
         /\ since' \in [View -> SUBSET View]
         /\ denied' \in SUBSET View
         /\ Bounded(turn)'
         /\ OwnerHasItsSize' /\ FocusSetsSize' /\ TurnOrder'
  <1>1. /\ TypeOK /\ Bounded(turn) /\ OwnerHasItsSize /\ FocusSetsSize /\ TurnOrder
        /\ turn \in [View -> Nat] /\ asked \in [View -> Asked]
    BY DEF SizeInv, TypeOK, Asked
  <1>2. CASE Takes(asked, turn, v, s)
    <2>1. /\ asked' \in [View -> Asked] /\ asked'[v] = {s}
          /\ turn' \in [View -> Nat] /\ Bounded(turn)'
          /\ owner' = {v} /\ size' = s /\ pty' = s
          /\ since' \in [View -> SUBSET View]
          /\ denied' = denied \ {v} /\ phase' = phase
      BY <1>1, <1>2, TakesResult
    <2>2. live \cup fresh \in SUBSET View
      BY <1>1 DEF TypeOK
    <2>3. \A x \in live \cup fresh, w \in View : w \in since'[x] => turn'[w] < turn'[x]
      <3>1. \A x \in live \cup fresh, w \in View : w \in since[x] => turn[w] < turn[x]
        BY <1>1 DEF TurnOrder
      <3> QED BY <1>1, <1>2, <2>2, <3>1, TakesOrder
    <2>4. TurnOrder'
      BY <2>3 DEF TurnOrder
    <2>5. OwnerHasItsSize' /\ FocusSetsSize'
      BY <2>1 DEF OwnerHasItsSize, FocusSetsSize
    <2> QED BY <1>1, <2>1, <2>4, <2>5 DEF TypeOK
  <1>3. CASE Rejected(asked, turn, v, s) /\ owner' = owner
    <2>1. /\ asked' \in [View -> Asked]
          /\ \A w \in View \ {v} : asked'[w] = asked[w]
          /\ turn' = turn /\ Bounded(turn)'
          /\ size' = size /\ pty' = pty /\ since' = since
          /\ denied' = denied \cup {v} /\ phase' = phase
      BY <1>1, <1>3, RejectedResult
    <2>2. TurnOrder'
      BY <1>1, <2>1 DEF TurnOrder
    <2>3. OwnerHasItsSize'
      BY <1>1, <1>3, <2>1 DEF OwnerHasItsSize, TypeOK
    <2>4. FocusSetsSize'
      BY <1>1, <1>3, <2>1 DEF FocusSetsSize, TypeOK
    <2> QED BY <1>1, <1>3, <2>1, <2>2, <2>3, <2>4 DEF TypeOK
  <1>4. CASE Diverged(asked, turn, v, s) /\ owner' = owner
    <2>1. /\ asked' \in [View -> Asked] /\ turn' = turn /\ Bounded(turn)'
          /\ size' \in Size /\ pty' \in Size /\ since' = since
          /\ denied' = denied /\ phase' = "stopped"
      BY <1>1, <1>4, DivergedResult
    <2>2. TurnOrder'
      BY <1>1, <2>1 DEF TurnOrder
    <2>3. OwnerHasItsSize' /\ FocusSetsSize'
      BY <2>1 DEF OwnerHasItsSize, FocusSetsSize
    <2> QED BY <1>1, <1>4, <2>1, <2>2, <2>3 DEF TypeOK
  <1> QED BY <1>2, <1>3, <1>4 DEF SizeStep

\* Connect and Cancel change who is there.
LEMMA ViewStepKeeps ==
  ASSUME SizeInv, NEW v \in View, Connect(v) \/ Cancel(v)
  PROVE  SizeInv'
  <1>1. TypeOK'
    BY DEF SizeInv, TypeOK, Connect, Cancel, sizeVars, focusVars, pastVars
  <1>2. Bounded(turn)'
    BY DEF SizeInv, Connect, Cancel, sizeVars, Bounded
  <1>3. OwnerHasItsSize'
    BY DEF SizeInv, OwnerHasItsSize, Connect, Cancel, sizeVars, focusVars, pastVars
  <1>4. FocusSetsSize'
    BY DEF SizeInv, TypeOK, FocusSetsSize, Connect, Cancel, sizeVars, focusVars, pastVars
  <1>5. TurnOrder'
    BY DEF SizeInv, TypeOK, TurnOrder, Connect, Cancel, sizeVars, focusVars, pastVars
  <1>6. FocusHeard'
    BY DEF SizeInv, FocusHeard, Connect, Cancel, sizeVars, focusVars, pastVars
  <1> QED BY <1>1, <1>2, <1>3, <1>4, <1>5, <1>6 DEF SizeInv

\* A resize that is taken, refused, or fails half way.
LEMMA ResizeKeeps ==
  ASSUME SizeInv, NEW v \in View, NEW s \in Size, NEW claim \in BOOLEAN, Resize(v, s, claim)
  PROVE  SizeInv'
  <1>1. SizeStep(v, s) /\ phase = "running"
    BY DEF Resize, SizeStep
  <1>2. fresh' = fresh /\ live' \in SUBSET live /\ missed' = missed /\ UNCHANGED focusVars
    BY DEF Resize
  <1>3. focused' \in SUBSET View /\ focused' = focused
    BY <1>2 DEF SizeInv, TypeOK, focusVars
  <1>4. /\ phase' \in {"running", "stopped"}
        /\ asked' \in [View -> Asked] /\ turn' \in [View -> Nat]
        /\ owner' \in {{}} \cup {{w} : w \in View}
        /\ size' \in Size /\ pty' \in Size
        /\ since' \in [View -> SUBSET View]
        /\ denied' \in SUBSET View
        /\ Bounded(turn)'
        /\ OwnerHasItsSize' /\ FocusSetsSize' /\ TurnOrder'
    BY <1>1, <1>2, <1>3, SizeStepKeeps
  <1>5. TypeOK'
    BY <1>2, <1>4 DEF SizeInv, TypeOK, Asked, focusVars
  <1>6. FocusHeard'
    BY <1>1, <1>2 DEF SizeInv, FocusHeard, focusVars
  <1> QED BY <1>4, <1>5, <1>6 DEF SizeInv

\* A view gets the focus and takes the size it asked for.
LEMMA FocusKeeps ==
  ASSUME SizeInv, NEW v \in View, Focus(v)
  PROVE  SizeInv'
  <1>1. PICK r \in Reported(focused \cup {v}, {v}) :
          /\ reports' = r.reports
          /\ lost' = r.lost
          /\ \/ ~r.ok /\ FocusFails(v)
             \/ (owner = {v} \/ asked[v] = {}) /\ UNCHANGED <<phase, sizeVars, since, denied>>
             \/ \E s \in asked[v] : SizeStep(v, s)
    BY DEF Focus, SizeStep
  <1>2. /\ v \in live /\ fresh' = fresh /\ live' = live /\ missed' = missed /\ told' = told
        /\ focused' = focused \cup {v} /\ phase = "running"
    BY DEF Focus, viewVars
  <1>3. /\ focused \cup {v} \in SUBSET View /\ {v} \in {{}} \cup {{w} : w \in View}
        /\ TypeOK
    BY DEF SizeInv, TypeOK
  <1>4. r.reports \in Seq(Report) /\ Len(r.reports) <= ReportRoom /\ r.lost \in BOOLEAN
    BY <1>3, ReportedResult
  <1>5. FocusHeard'
    BY <1>2 DEF FocusHeard
  <1>6. ASSUME /\ phase' \in {"running", "stopped"}
               /\ asked' \in [View -> Asked] /\ turn' \in [View -> Nat]
               /\ owner' \in {{}} \cup {{w} : w \in View}
               /\ size' \in Size /\ pty' \in Size
               /\ since' \in [View -> SUBSET View]
               /\ denied' \in SUBSET View
        PROVE  TypeOK'
    BY <1>1, <1>2, <1>3, <1>4, <1>6 DEF TypeOK, Asked, Report
  <1>7. CASE \/ FocusFails(v)
             \/ (owner = {v} \/ asked[v] = {}) /\ UNCHANGED <<phase, sizeVars, since, denied>>
    <2>1. /\ UNCHANGED <<asked, turn, owner, size, pty, since>>
          /\ denied' \in {denied, denied \cup {v}} /\ phase' \in {"running", "stopped"}
          /\ v \in denied' \/ owner = {v} \/ asked[v] = {}
      BY <1>2, <1>7 DEF FocusFails, sizeVars
    <2>2. TypeOK'
      BY <1>3, <1>6, <2>1 DEF TypeOK, Asked
    <2>3. Bounded(turn)' /\ OwnerHasItsSize'
      BY <1>2, <2>1 DEF SizeInv, Bounded, OwnerHasItsSize
    <2>4. FocusSetsSize'
      BY <1>2, <2>1 DEF SizeInv, FocusSetsSize
    <2>5. TurnOrder'
      BY <1>2, <2>1 DEF SizeInv, TurnOrder
    <2> QED BY <1>5, <2>2, <2>3, <2>4, <2>5 DEF SizeInv
  <1>8. ASSUME NEW s \in asked[v], SizeStep(v, s)
        PROVE  SizeInv'
    <2>1. s \in Size
      BY <1>3 DEF TypeOK
    <2>2. /\ live' \in SUBSET live /\ focused' \in SUBSET View /\ focused' \subseteq focused \cup {v}
      BY <1>2, <1>3
    <2>3. /\ phase' \in {"running", "stopped"}
          /\ asked' \in [View -> Asked] /\ turn' \in [View -> Nat]
          /\ owner' \in {{}} \cup {{w} : w \in View}
          /\ size' \in Size /\ pty' \in Size
          /\ since' \in [View -> SUBSET View]
          /\ denied' \in SUBSET View
          /\ Bounded(turn)'
          /\ OwnerHasItsSize' /\ FocusSetsSize' /\ TurnOrder'
      BY <1>2, <1>8, <2>1, <2>2, SizeStepKeeps
    <2> QED BY <1>5, <1>6, <2>3 DEF SizeInv
  <1> QED BY <1>1, <1>7, <1>8

\* A view loses the focus.
LEMMA BlurKeeps ==
  ASSUME SizeInv, NEW v \in View, Blur(v)
  PROVE  SizeInv'
  <1>1. PICK r \in Reported(focused \ {v}, {}) :
          /\ reports' = r.reports
          /\ lost' = r.lost
          /\ phase' \in {phase, "stopped"}
          /\ denied' \in {denied, denied \cup {v}}
    BY DEF Blur, FocusFails
  <1>2. /\ fresh' = fresh /\ live' = live /\ missed' = missed /\ told' = told
        /\ focused' = focused \ {v} /\ phase = "running"
        /\ UNCHANGED <<asked, turn, owner, size, pty, since>>
    BY DEF Blur, viewVars, sizeVars
  <1>3. /\ focused \ {v} \in SUBSET View /\ {} \in {{}} \cup {{w} : w \in View}
        /\ TypeOK /\ FocusHeard
    BY DEF SizeInv, TypeOK
  <1>4. r.reports \in Seq(Report) /\ Len(r.reports) <= ReportRoom /\ r.lost \in BOOLEAN
    BY <1>3, ReportedResult
  <1>5. TypeOK'
    BY <1>1, <1>2, <1>3, <1>4 DEF TypeOK, Report
  <1>6. Bounded(turn)' /\ TurnOrder'
    BY <1>2 DEF SizeInv, Bounded, TurnOrder
  <1>7. OwnerHasItsSize' /\ FocusSetsSize'
    BY <1>1, <1>2 DEF SizeInv, OwnerHasItsSize, FocusSetsSize
  <1>8. FocusHeard'
    <2> SUFFICES ASSUME ~lost', focused' = {}
                 PROVE  IF reports' = <<>> THEN ~told'
                        ELSE ~reports'[Len(reports')].focus /\ reports'[Len(reports')].by = {}
      BY Zenon DEF FocusHeard
    <2>1. ~r.lost /\ focused \ {v} = {}
      BY <1>1, <1>2
    <2>2. IF r.reports = <<>> THEN ~told
          ELSE ~r.reports[Len(r.reports)].focus /\ r.reports[Len(r.reports)].by = {}
      BY <1>2, <1>3, <2>1, ReleaseHeard, Zenon
    <2> QED BY <1>1, <1>2, <2>2, Zenon
  <1> QED BY <1>5, <1>6, <1>7, <1>8 DEF SizeInv

\* A view leaves.
LEMMA LeaveKeeps ==
  ASSUME SizeInv, NEW v \in View, Leave(v)
  PROVE  SizeInv'
  <1>1. PICK r \in Reported(focused \ {v}, {}) : reports' = r.reports /\ lost' = r.lost
    BY DEF Leave
  <1>2. /\ phase = "running" /\ {v} \in SUBSET (View \ fresh) /\ Release({v}, owner = {v})
        /\ fresh' = fresh /\ told' = told
    BY DEF Leave
  <1>3. /\ focused \ {v} \in SUBSET View /\ {} \in {{}} \cup {{w} : w \in View}
        /\ TypeOK /\ FocusHeard
        /\ (owner = {v}) \in BOOLEAN /\ (owner # {v} => owner \cap {v} = {})
    BY DEF SizeInv, TypeOK
  <1>4. r.reports \in Seq(Report) /\ Len(r.reports) <= ReportRoom /\ r.lost \in BOOLEAN
    BY <1>3, ReportedResult
  <1>5. /\ phase' \in {"running", "stopped"}
        /\ live' \in SUBSET (View \ fresh) /\ focused' \in SUBSET (View \ fresh)
        /\ asked' \in [View -> Asked] /\ turn' \in [View -> Nat]
        /\ owner' \in {{}} \cup {{w} : w \in View}
        /\ size' \in Size /\ pty' \in Size
        /\ since' \in [View -> SUBSET View]
        /\ denied' \in SUBSET View /\ missed' \in BOOLEAN
        /\ Bounded(turn)'
        /\ OwnerHasItsSize' /\ FocusSetsSize' /\ TurnOrder'
    BY <1>2, <1>3, ReleaseKeeps
  <1>6. TypeOK'
    BY <1>1, <1>2, <1>3, <1>4, <1>5 DEF TypeOK, Report, Asked
  <1>7. FocusHeard'
    <2> SUFFICES ASSUME ~lost', focused' = {}
                 PROVE  IF reports' = <<>> THEN ~told'
                        ELSE ~reports'[Len(reports')].focus /\ reports'[Len(reports')].by = {}
      BY Zenon DEF FocusHeard
    <2>1. ~r.lost /\ focused \ {v} = {}
      BY <1>1, <1>2 DEF Release
    <2>2. IF r.reports = <<>> THEN ~told
          ELSE ~r.reports[Len(r.reports)].focus /\ r.reports[Len(r.reports)].by = {}
      BY <1>2, <1>3, <2>1, ReleaseHeard, Zenon
    <2> QED BY <1>1, <1>2, <2>2, Zenon
  <1> QED BY <1>5, <1>6, <1>7 DEF SizeInv

\* The queue of reports that maintain leaves ends with the same report, when
\* that one is under no view's token.
LEMMA MaintainedQueue ==
  ASSUME NEW q \in Seq(Report), NEW inFlight \in BOOLEAN
  PROVE  LET left == IF inFlight /\ q # <<>> THEN <<Head(q)>> \o Kept(Tail(q)) ELSE Kept(q)
         IN  /\ left \in Seq(Report) /\ Len(left) <= Len(q)
             /\ q # <<>> /\ q[Len(q)].by = {} => left # <<>> /\ left[Len(left)] = q[Len(q)]
  <1> DEFINE left == IF inFlight /\ q # <<>> THEN <<Head(q)>> \o Kept(Tail(q)) ELSE Kept(q)
  <1>1. CASE ~(inFlight /\ q # <<>>)
    <2>1. left = Kept(q)
      BY <1>1
    <2> QED BY <2>1, KeptProperties
  <1>2. CASE inFlight /\ q # <<>>
    <2> DEFINE rest == Tail(q)
               k == Kept(rest)
    <2>1. rest \in Seq(Report) /\ Head(q) \in Report /\ Len(rest) = Len(q) - 1 /\ Len(q) \in Nat
      BY <1>2
    <2>2. rest # <<>> => rest[Len(rest)] = q[Len(q)]
      BY <1>2
    <2>s. Len(q) = 1 => q[Len(q)] = Head(q)
      BY <1>2
    <2> HIDE DEF rest
    <2>3. rest = <<>> => q[Len(q)] = Head(q)
      BY <2>1, <2>s
    <2>4. /\ k \in Seq(Report) /\ Len(k) <= Len(rest)
          /\ rest # <<>> /\ rest[Len(rest)].by \subseteq live => k # <<>> /\ k[Len(k)] = rest[Len(rest)]
      BY <2>1, KeptProperties
    <2>5. left = <<Head(q)>> \o k
      BY <1>2 DEF rest
    <2> HIDE DEF k, left
    <2>6. left \in Seq(Report) /\ Len(left) = Len(k) + 1 /\ left # <<>>
      BY <2>1, <2>4, <2>5
    <2>7. k = <<>> => left[Len(left)] = Head(q)
      BY <2>1, <2>4, <2>5
    <2>8. k # <<>> => left[Len(left)] = k[Len(k)]
      BY <2>1, <2>4, <2>5
    <2>9. Len(left) <= Len(q)
      BY <2>1, <2>4, <2>6
    <2>10. rest = <<>> => k = <<>>
      BY <2>1, <2>4
    <2>11. q[Len(q)].by = {} => left[Len(left)] = q[Len(q)]
      BY <2>2, <2>3, <2>4, <2>7, <2>8, <2>10
    <2> QED BY <2>6, <2>9, <2>11 DEF left
  <1> QED BY <1>1, <1>2

\* The upkeep.
LEMMA MaintainKeeps ==
  ASSUME SizeInv, Maintain
  PROVE  SizeInv'
  <1>1. PICK r \in Reported(focused \cap live, {}), inFlight \in BOOLEAN :
          /\ lost' = r.lost
          /\ reports' = IF inFlight /\ r.reports # <<>>
                          THEN <<Head(r.reports)>> \o Kept(Tail(r.reports))
                          ELSE Kept(r.reports)
    BY DEF Maintain
  <1>2. /\ phase = "running" /\ focused \ live \in SUBSET (View \ fresh)
        /\ Release(focused \ live, Vacant)
        /\ fresh' = fresh /\ told' = told
    BY DEF Maintain, SizeInv, TypeOK
  <1>3. /\ focused \cap live \in SUBSET View /\ {} \in {{}} \cup {{w} : w \in View}
        /\ TypeOK /\ FocusHeard
        /\ Vacant \in BOOLEAN /\ (~Vacant => owner \cap (focused \ live) = {})
    BY DEF SizeInv, TypeOK, Vacant
  <1>4. r.reports \in Seq(Report) /\ Len(r.reports) <= ReportRoom /\ r.lost \in BOOLEAN
    BY <1>3, ReportedResult
  <1>5. /\ phase' \in {"running", "stopped"}
        /\ live' \in SUBSET (View \ fresh) /\ focused' \in SUBSET (View \ fresh)
        /\ asked' \in [View -> Asked] /\ turn' \in [View -> Nat]
        /\ owner' \in {{}} \cup {{w} : w \in View}
        /\ size' \in Size /\ pty' \in Size
        /\ since' \in [View -> SUBSET View]
        /\ denied' \in SUBSET View /\ missed' \in BOOLEAN
        /\ Bounded(turn)'
        /\ OwnerHasItsSize' /\ FocusSetsSize' /\ TurnOrder'
    BY <1>2, <1>3, ReleaseKeeps
  <1>6. /\ reports' \in Seq(Report) /\ Len(reports') <= Len(r.reports)
        /\ r.reports # <<>> /\ r.reports[Len(r.reports)].by = {} =>
             reports' # <<>> /\ reports'[Len(reports')] = r.reports[Len(r.reports)]
    BY <1>1, <1>4, MaintainedQueue, Zenon
  <1>7. Len(reports') <= ReportRoom
    BY <1>4, <1>6, SizeAssumption
  <1>8. TypeOK'
    BY <1>1, <1>2, <1>3, <1>4, <1>5, <1>6, <1>7 DEF TypeOK, Report, Asked
  <1>9. FocusHeard'
    <2> SUFFICES ASSUME ~lost', focused' = {}
                 PROVE  IF reports' = <<>> THEN ~told'
                        ELSE ~reports'[Len(reports')].focus /\ reports'[Len(reports')].by = {}
      BY Zenon DEF FocusHeard
    <2>1. ~r.lost /\ focused \cap live = {}
      BY <1>1, <1>2 DEF Release
    <2>2. IF r.reports = <<>> THEN ~told
          ELSE ~r.reports[Len(r.reports)].focus /\ r.reports[Len(r.reports)].by = {}
      BY <1>2, <1>3, <2>1, ReleaseHeard, Zenon
    <2>3. CASE r.reports = <<>>
      <3>1. reports' = <<>>
        BY <1>4, <1>6, <2>3
      <3> QED BY <1>2, <2>2, <2>3, <3>1, Zenon
    <2>4. CASE r.reports # <<>>
      BY <1>6, <2>2, <2>4, Zenon
    <2> QED BY <2>3, <2>4
  <1> QED BY <1>5, <1>8, <1>9 DEF SizeInv

\* A report is written to the program or dropped.
LEMMA PassReportKeeps ==
  ASSUME SizeInv, PassReport
  PROVE  SizeInv'
  <1>1. /\ phase = "running" /\ reports # <<>> /\ reports' = Tail(reports)
        /\ \/ told' = Head(reports).focus
           \/ ~(Head(reports).by \subseteq live) /\ told' = told
        /\ UNCHANGED <<fresh, live, asked, turn, owner, size, pty, since, denied, missed,
                       phase, focused, lost>>
    BY DEF PassReport, viewVars, sizeVars, pastVars
  <1>2. reports \in Seq(Report) /\ Len(reports) <= ReportRoom
    BY DEF SizeInv, TypeOK, Report
  <1>3. /\ reports' \in Seq(Report) /\ Len(reports') = Len(reports) - 1
        /\ Head(reports) \in Report /\ Head(reports) = reports[1]
    BY <1>1, <1>2
  <1>4. TypeOK'
    BY <1>1, <1>2, <1>3, SizeAssumption DEF SizeInv, TypeOK, Report
  <1>5. Bounded(turn)' /\ TurnOrder'
    BY <1>1 DEF SizeInv, Bounded, TurnOrder
  <1>6. OwnerHasItsSize' /\ FocusSetsSize'
    BY <1>1 DEF SizeInv, OwnerHasItsSize, FocusSetsSize
  <1>7. FocusHeard'
    <2> SUFFICES ASSUME ~lost', focused' = {}
                 PROVE  IF reports' = <<>> THEN ~told'
                        ELSE ~reports'[Len(reports')].focus /\ reports'[Len(reports')].by = {}
      BY Zenon DEF FocusHeard
    <2>1. ~reports[Len(reports)].focus /\ reports[Len(reports)].by = {}
      BY <1>1 DEF SizeInv, FocusHeard
    <2>2. CASE reports' = <<>>
      <3>1. Len(reports) = 1
        BY <1>2, <1>3, <2>2
      <3>2. ~Head(reports).focus /\ Head(reports).by = {}
        BY <1>3, <2>1, <3>1
      <3> QED BY <1>1, <2>2, <3>2
    <2>3. CASE reports' # <<>>
      <3>1. reports'[Len(reports')] = reports[Len(reports)]
        BY <1>1, <1>2, <1>3, <2>3
      <3> QED BY <2>1, <2>3, <3>1
    <2> QED BY <2>2, <2>3
  <1> QED BY <1>4, <1>5, <1>6, <1>7 DEF SizeInv

\* The invariant is inductive.
LEMMA SizeInvInductive ==
  SizeInv /\ [Next]_vars => SizeInv'
  <1> SUFFICES ASSUME SizeInv, [Next]_vars
               PROVE  SizeInv'
    OBVIOUS
  <1>1. ASSUME NEW v \in View, Connect(v) \/ Cancel(v)
        PROVE  SizeInv'
    BY <1>1, ViewStepKeeps
  <1>2. ASSUME NEW v \in View, NEW s \in Size, NEW claim \in BOOLEAN, Resize(v, s, claim)
        PROVE  SizeInv'
    BY <1>2, ResizeKeeps
  <1>3. ASSUME NEW v \in View, Focus(v)
        PROVE  SizeInv'
    BY <1>3, FocusKeeps
  <1>4. ASSUME NEW v \in View, Blur(v)
        PROVE  SizeInv'
    BY <1>4, BlurKeeps
  <1>5. ASSUME NEW v \in View, Leave(v)
        PROVE  SizeInv'
    BY <1>5, LeaveKeeps
  <1>6. CASE Maintain
    BY <1>6, MaintainKeeps
  <1>7. CASE PassReport
    BY <1>7, PassReportKeeps
  <1>8. CASE Stop \/ Finished \/ UNCHANGED vars
    <2>1. /\ phase' \in {phase, "stopped"}
          /\ UNCHANGED <<fresh, live, focused, asked, turn, owner, size, pty, reports, told,
                         since, denied, missed, lost>>
      BY <1>8 DEF Stop, Finished, vars, viewVars, sizeVars, focusVars, pastVars
    <2>2. TypeOK'
      BY <2>1 DEF SizeInv, TypeOK
    <2>3. Bounded(turn)' /\ TurnOrder'
      BY <2>1 DEF SizeInv, Bounded, TurnOrder
    <2>4. OwnerHasItsSize' /\ FocusSetsSize'
      BY <2>1 DEF SizeInv, OwnerHasItsSize, FocusSetsSize
    <2>5. FocusHeard'
      BY <2>1 DEF SizeInv, FocusHeard
    <2> QED BY <2>2, <2>3, <2>4, <2>5 DEF SizeInv
  <1> QED BY <1>1, <1>2, <1>3, <1>4, <1>5, <1>6, <1>7, <1>8 DEF Next

LEMMA SizeInvInit == Init => SizeInv
  <1> SUFFICES ASSUME Init PROVE SizeInv
    OBVIOUS
  <1>1. TypeOK
    <2>1. /\ asked \in [View -> {{}} \cup {{s} : s \in Size}] /\ turn \in [View -> Nat]
          /\ since \in [View -> SUBSET View]
      BY DEF Init
    <2>2. /\ reports \in Seq([focus : BOOLEAN, by : {{}} \cup {{v} : v \in View}])
          /\ Len(reports) <= ReportRoom
      BY SizeAssumption DEF Init
    <2> QED BY <2>1, <2>2 DEF Init, TypeOK
  <1>2. Bounded(turn)
    BY DEF Init, Bounded
  <1>3. OwnerHasItsSize /\ FocusSetsSize /\ FocusHeard
    BY DEF Init, OwnerHasItsSize, FocusSetsSize, FocusHeard
  <1>4. TurnOrder
    BY DEF Init, TurnOrder
  <1> QED BY <1>1, <1>2, <1>3, <1>4 DEF SizeInv

LEMMA SizeInvAlways == Spec => []SizeInv
  BY SizeInvInit, SizeInvInductive, PTL DEF Spec

-----------------------------------------------------------------------------
(***************************************************************************)
(* The theorems.                                                           *)
(***************************************************************************)

\* Every variable keeps its type, whatever views connect, ask and go.
THEOREM TypeCorrect == Spec => []TypeOK
  <1>1. SizeInv => TypeOK
    BY DEF SizeInv
  <1> QED BY <1>1, SizeInvAlways, PTL

\* While the actor runs, the program and the emulator have one size, the one
\* the owner asked for last or was refused (apply_resize, release).
THEOREM OwnerHasItsSizeAlways == Spec => []OwnerHasItsSize
  <1>1. SizeInv => OwnerHasItsSize
    BY DEF SizeInv
  <1> QED BY <1>1, SizeInvAlways, PTL

\* A view in focus that asked for a size leaves the size with an owner, but
\* for the two exceptions of give_size_back and apply_resize.
THEOREM FocusSetsSizeAlways == Spec => []FocusSetsSize
  <1>1. SizeInv => FocusSetsSize
    BY DEF SizeInv
  <1> QED BY <1>1, SizeInvAlways, PTL

\* With no report waiting and none lost, a program that was told of the
\* focus last has a view in focus (set_focus, drop_cancelled_input).
THEOREM FocusReleasedAlways == Spec => []FocusReleased
  <1>1. SizeInv => FocusReleased
    BY DEF SizeInv, FocusHeard, FocusReleased
  <1> QED BY <1>1, SizeInvAlways, PTL

\* A size that a leaving view gives back goes to the view in focus that had
\* it last (give_size_back): the turns order the views as the history does.
THEOREM GivesBackInOrderAlways == Spec => GivesBackInOrder
  <1> DEFINE Order == owner' # owner =>
                        \A heir \in owner' :
                          /\ heir \in focused \cap live
                          /\ \A v \in focused' \cap live' : asked[v] # {} => heir \notin since[v]
  <1>1. ASSUME SizeInv, NEW v \in View, Leave(v)
        PROVE  Order
    <2>1. /\ phase = "running" /\ {v} \in SUBSET (View \ fresh) /\ Release({v}, owner = {v})
          /\ fresh' = fresh
      BY <1>1 DEF Leave
    <2>2. (owner = {v}) \in BOOLEAN /\ (owner # {v} => owner \cap {v} = {})
      BY <1>1 DEF SizeInv, TypeOK
    <2> QED BY <1>1, <2>1, <2>2, ReleaseKeeps
  <1>2. ASSUME SizeInv, Maintain
        PROVE  Order
    <2>1. /\ phase = "running" /\ focused \ live \in SUBSET (View \ fresh)
          /\ Release(focused \ live, Vacant) /\ fresh' = fresh
      BY <1>2 DEF Maintain, SizeInv, TypeOK
    <2>2. Vacant \in BOOLEAN /\ (~Vacant => owner \cap (focused \ live) = {})
      BY <1>2 DEF SizeInv, TypeOK, Vacant
    <2> QED BY <1>2, <2>1, <2>2, ReleaseKeeps
  <1>3. SizeInv /\ [Next]_vars =>
          [(Maintain \/ \E v \in View : Leave(v)) /\ owner' # owner =>
             \A heir \in owner' :
               /\ heir \in focused \cap live
               /\ \A v \in focused' \cap live' : asked[v] # {} => heir \notin since[v]]_vars
    BY <1>1, <1>2
  <1> QED BY <1>3, SizeInvAlways, PTL DEF Spec, GivesBackInOrder

=============================================================================
