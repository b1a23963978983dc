----------------------------- MODULE UsageProofs -----------------------------
(***************************************************************************)
(* Proofs about the usage windows, for every window length, load, horizon  *)
(* and number of faults.                                                   *)
(*                                                                         *)
(* The inductive invariant has a part for each property:                   *)
(*   - Coverage: what a record covers of its window lies below the instant *)
(*     the next delta starts from, so intervals are added end to end;      *)
(*   - Lateness: a record that is open, or about to be written, for a      *)
(*     window that has a closed record took a late sample;                 *)
(*   - Growth: an open window holds at least what its last snapshot told;  *)
(*   - Exact: the amounts of the open, the taken and the written records   *)
(*     add up to the counter at the baseline.                              *)
(* The split of a delta over the windows is proved first: its parts are    *)
(* naturals and add up to the delta, and split of the interval itself      *)
(* gives each window what the interval overlaps of it.                     *)
(***************************************************************************)
EXTENDS UsageWindows, Sums

\* Every leaf goes to Zenon first: most are first-order, and a leaf that needs
\* arithmetic is soon given up.
USE ZenonT(3), SMTT(30)

-----------------------------------------------------------------------------
\* The invariant.

\* How much of a window lies before an instant.
Clip(w, e) ==
  IF e =< WindowStart(w) THEN 0 ELSE Lesser(e, WindowEnd(w)) - WindowStart(w)

\* What the records cover lies before an instant.
Below(r, e) == \A w \in Windows : r[w].covered =< Clip(w, e)

\* Where the counting of the life the kubelet reports has come to at most.
LifeEdge == IF stat.start \in lives THEN stat.at ELSE stat.start

Clock ==
  /\ stat.start =< stat.at /\ stat.at =< now
  /\ stat.start =< ctr.start /\ ctr.start =< now
  /\ ctr.start # stat.start => stat.at =< ctr.start

\* No delta that is still to come starts in what is covered of a window.
Within(c, w) == c =< Clip(w, LifeEdge) /\ (base.at # -1 => c =< Clip(w, base.at))
Behind(r) == \A w \in Windows : Within(r[w].covered, w)

Coverage ==
  ~again => Clock /\ Behind(open) /\ Behind(batch) /\ Behind(snap) /\ Behind(final)

\* The records a window may have: none is held without being the empty one.
Blank(r) == \A w \in Windows : ~r[w].held => r[w] = None

Closing == flush \in {"closing", "removing"}

Control ==
  /\ ~up => flush = "idle" /\ base.at = -1
  /\ base.at = -1 => base = NoBase
  /\ flush = "idle" => batch = Empty
  /\ Blank(open) /\ Blank(batch) /\ Blank(snap) /\ Blank(final) /\ Blank(told)
  /\ flush # "idle" => \A w \in Windows : open[w].held => ~Ended(w)
  /\ Closing => \A w \in Windows : batch[w].held => Ended(w)
  /\ flush = "snapshots" => \A w \in Windows : batch[w].held => batch[w] = open[w]

Lateness ==
  \A w \in Windows :
    final[w].held /\ (open[w].held \/ (Closing /\ batch[w].held)) => w \in late

Growth ==
  up => \A w \in Windows \ gone :
          told[w].held =>
            \/ Ended(w)
            \/ /\ open[w].held
               /\ told[w].amount =< open[w].amount /\ told[w].samples =< open[w].samples

\* Everything that was taken and is still open or has been written.
Held == Sum(open) + Sum(final) + IF flush = "snapshots" THEN 0 ELSE Sum(batch)

Exact ==
  faults = 0 =>
    /\ up /\ ctr.start = 0 /\ stat.start = 0
    /\ base.count =< stat.count /\ stat.count =< ctr.count
    /\ stat.at = 0 => stat.count = 0
    /\ (~lost /\ ~again /\ late = {}) =>
         /\ base.at # -1 => 0 \in lives
         /\ base.at # -1 \/ 0 \notin lives => Held = base.count

IInv == TypeOK /\ Control /\ Coverage /\ Lateness /\ Growth /\ Exact
-----------------------------------------------------------------------------
\* The windows.

\* An instant lies in the window startOf gives it.
LEMMA StartOfBounds ==
  ASSUME NEW t \in Nat
  PROVE  /\ startOf(t) \in Nat
         /\ WindowStart(startOf(t)) =< t
         /\ t < WindowEnd(startOf(t))
BY UsageAssumption DEF startOf, WindowStart, WindowEnd

\* Windows follow one another, each Length long.
LEMMA WindowBounds ==
  ASSUME NEW w \in Nat
  PROVE  /\ WindowStart(w) \in Nat /\ WindowEnd(w) \in Nat
         /\ WindowEnd(w) = WindowStart(w) + Length
         /\ WindowStart(w + 1) = WindowEnd(w)
BY UsageAssumption DEF WindowStart, WindowEnd

\* A window ends before a later one starts.
LEMMA WindowOrder ==
  ASSUME NEW v \in Nat, NEW w \in Nat, v < w
  PROVE  WindowEnd(v) =< WindowStart(w)
<1>1. v + 1 \in Nat /\ v + 1 =< w
  OBVIOUS
<1>2. (v + 1) * Length =< w * Length
  BY <1>1, UsageAssumption
<1> QED
  BY <1>2 DEF WindowStart, WindowEnd

\* An earlier instant lies in no later window.
LEMMA StartOfOrder ==
  ASSUME NEW s \in Nat, NEW t \in Nat, s =< t
  PROVE  startOf(s) =< startOf(t)
<1> SUFFICES ASSUME startOf(t) < startOf(s) PROVE FALSE
  BY StartOfBounds
<1>1. WindowEnd(startOf(t)) =< WindowStart(startOf(s))
  BY StartOfBounds, WindowOrder
<1>2. t < WindowEnd(startOf(t)) /\ WindowStart(startOf(s)) =< s
  BY StartOfBounds
<1>3. WindowEnd(startOf(t)) \in Nat /\ WindowStart(startOf(s)) \in Nat
  BY StartOfBounds, WindowBounds
<1> QED
  BY <1>1, <1>2, <1>3

\* An instant of the horizon lies in a window of the model.
LEMMA StartOfIn ==
  ASSUME NEW t \in 0 .. MaxTime
  PROVE  startOf(t) \in Windows
<1>1. startOf(t) =< startOf(MaxTime)
  BY StartOfOrder, UsageAssumption
<1> QED
  BY <1>1, StartOfBounds, UsageAssumption DEF Windows, startOf

\* There are finitely many windows, each a natural.
LEMMA WindowsFinite == IsFiniteSet(Windows) /\ Windows \subseteq Nat
<1>1. MaxTime \div Length \in Nat
  BY UsageAssumption
<1> QED
  BY <1>1, FS_Interval DEF Windows

-----------------------------------------------------------------------------
\* The split.

\* The end of the part of an interval that lies before a window, from its start.
Reach(from, w) == Greater(from, WindowStart(w)) - from

\* What an interval overlaps of a window it does not end in.
Overlap(from, w) == WindowEnd(w) - Greater(from, WindowStart(w))

\* The shares of the windows before the last.
ShareOf(from, to, amount, w) == mulDiv(amount, Overlap(from, w), to - from)
Before(from, to) == startOf(from) .. startOf(to - 1) - 1
Shares(from, to, amount) == [w \in Before(from, to) |-> ShareOf(from, to, amount, w)]

\* split of a proper interval: the shares, and in the last window the rest.
LEMMA SplitIs ==
  ASSUME NEW from \in Nat, NEW to \in Nat, from < to, NEW amount \in Nat
  PROVE  Split(from, to, amount) =
           [w \in startOf(from) .. startOf(to - 1) |->
              IF w = startOf(to - 1)
              THEN amount - SumFunctionOnSet(Shares(from, to, amount), Before(from, to))
              ELSE ShareOf(from, to, amount, w)]
<1>1. ~(to - from =< 0 \/ amount < 0)
  OBVIOUS
<1> DEFINE parts ==
             [w \in startOf(from) .. startOf(to - 1) |->
                IF w = startOf(to - 1)
                THEN amount - SumFunctionOnSet(Shares(from, to, amount), Before(from, to))
                ELSE ShareOf(from, to, amount, w)]
<1>2. Split(from, to, amount) = IF to - from =< 0 \/ amount < 0 THEN NoParts ELSE parts
  BY Zenon DEF Split, Shares, Before, ShareOf, Overlap
<1> HIDE DEF parts
<1>3. Split(from, to, amount) = parts
  BY <1>1, <1>2
<1> QED
  BY <1>3 DEF parts

\* Reach grows by what the interval overlaps of the window.
LEMMA ReachStep ==
  ASSUME NEW from \in Nat, NEW w \in Nat, startOf(from) =< w
  PROVE  /\ from < WindowEnd(w)
         /\ Overlap(from, w) \in Nat /\ Overlap(from, w) =< Length
         /\ Reach(from, w) \in Nat /\ Reach(from, w + 1) = Reach(from, w) + Overlap(from, w)
<1>1. /\ WindowStart(w) \in Nat /\ WindowEnd(w) = WindowStart(w) + Length
      /\ WindowStart(w + 1) = WindowEnd(w)
  BY WindowBounds
<1>2. from < WindowEnd(w)
  <2>1. from < WindowEnd(startOf(from)) /\ startOf(from) \in Nat
    BY StartOfBounds
  <2>2. CASE startOf(from) = w
    BY <2>1, <2>2
  <2>3. CASE startOf(from) < w
    <3>1. WindowEnd(startOf(from)) =< WindowStart(w)
      BY <2>1, <2>3, WindowOrder
    <3>2. WindowEnd(startOf(from)) \in Nat
      BY <2>1, WindowBounds
    <3> QED
      BY <1>1, <2>1, <3>1, <3>2, UsageAssumption
  <2> QED
    BY <2>1, <2>2, <2>3
<1> QED
  BY <1>1, <1>2, UsageAssumption DEF Reach, Overlap, Greater

\* A share is a natural, and no more than its part of the amount.
LEMMA ShareBound ==
  ASSUME NEW from \in Nat, NEW to \in Nat, from < to, NEW amount \in Nat,
         NEW w \in Nat, startOf(from) =< w
  PROVE  /\ ShareOf(from, to, amount, w) \in Nat
         /\ (to - from) * ShareOf(from, to, amount, w) =< amount * Overlap(from, w)
<1> DEFINE d == to - from
           o == Overlap(from, w)
           p == amount * o
           q == p \div d
<1>1. d \in Nat \ {0} /\ o \in Nat
  BY ReachStep
<1>2. ShareOf(from, to, amount, w) = IF q < MaxInt THEN q ELSE MaxInt
  BY <1>1 DEF ShareOf, mulDiv, Lesser
<1> HIDE DEF d, o
<1>3. p \in Nat
  BY <1>1
<1> HIDE DEF p
<1>4. q \in Nat /\ d * q =< p
  BY <1>1, <1>3
<1> HIDE DEF q
<1>5. ShareOf(from, to, amount, w) \in Nat /\ ShareOf(from, to, amount, w) =< q
  BY <1>2, <1>4, UsageAssumption
<1>6. d * ShareOf(from, to, amount, w) =< d * q
  BY <1>1, <1>4, <1>5
<1>7. d * ShareOf(from, to, amount, w) \in Nat /\ d * q \in Nat
  BY <1>1, <1>4, <1>5
<1>8. d * ShareOf(from, to, amount, w) =< p
  BY <1>3, <1>4, <1>6, <1>7
<1> QED
  BY <1>5, <1>8 DEF d, p, o

\* The share of the interval itself is what it overlaps.
LEMMA ShareOfSpan ==
  ASSUME NEW from \in Nat, NEW to \in Nat, from < to, to =< MaxTime,
         NEW w \in Nat, startOf(from) =< w, w < startOf(to - 1)
  PROVE  ShareOf(from, to, to - from, w) = Overlap(from, w)
<1> DEFINE d == to - from
           o == Overlap(from, w)
<1>1. d \in Nat \ {0} /\ o \in Nat
  BY ReachStep
<1>2. o =< MaxInt
  <2>1. WindowEnd(w) =< WindowStart(startOf(to - 1)) /\ WindowStart(startOf(to - 1)) =< to - 1
    BY WindowOrder, StartOfBounds
  <2>2. WindowEnd(w) \in Nat /\ WindowStart(w) \in Nat /\ WindowStart(startOf(to - 1)) \in Nat
    BY WindowBounds, StartOfBounds
  <2> QED
    BY <2>1, <2>2, UsageAssumption DEF Overlap, Greater
<1> HIDE DEF d, o
<1>3. (d * o) \div d = o
  BY <1>1
<1>4. ShareOf(from, to, d, w) = o
  BY <1>1, <1>2, <1>3, UsageAssumption DEF ShareOf, mulDiv, Lesser, d, o
<1> QED
  BY <1>4 DEF d, o
\* An interval of integers and its last element.
LEMMA IntervalLast ==
  ASSUME NEW a \in Int, NEW b \in Int, a =< b
  PROVE  /\ IsFiniteSet(a .. b) /\ IsFiniteSet(a .. b - 1)
         /\ b \in a .. b /\ b \notin a .. b - 1
         /\ a .. b = (a .. b - 1) \cup {b} /\ a .. b - 1 = (a .. b) \ {b}
<1>1. b - 1 \in Int
  OBVIOUS
<1>2. IsFiniteSet(a .. b) /\ IsFiniteSet(a .. b - 1)
  BY <1>1, FS_Interval
<1> QED
  BY <1>2

\* The shares of the first k windows, and the interval they reach back over.
LEMMA SharesOfFirst ==
  ASSUME NEW from \in Nat, NEW to \in Nat, from < to, NEW amount \in Nat
  PROVE  LET first == startOf(from)
             Of(k) == SumFunctionOnSet(Shares(from, to, amount), first .. first + k - 1)
         IN  \A k \in Nat : first + k =< startOf(to - 1) =>
               /\ Of(k) \in Nat
               /\ (to - from) * Of(k) =< amount * Reach(from, first + k)
               /\ amount = to - from /\ to =< MaxTime => Of(k) = Reach(from, first + k)
<1> DEFINE first == startOf(from)
           last == startOf(to - 1)
           d == to - from
           Of(k) == SumFunctionOnSet(Shares(from, to, amount), first .. first + k - 1)
           Fits(k) == /\ Of(k) \in Nat
                      /\ d * Of(k) =< amount * Reach(from, first + k)
                      /\ amount = d /\ to =< MaxTime => Of(k) = Reach(from, first + k)
           Q == {k \in Nat : first + k =< last => Fits(k)}
<1>1. first \in Nat /\ last \in Nat /\ d \in Nat \ {0}
  BY StartOfBounds
<1>2. 0 \in Q
  <2>1. first .. first + 0 - 1 = {}
    BY <1>1
  <2>2. Of(0) = 0
    BY <2>1, SumEmpty
  <2>3. Reach(from, first + 0) = 0
    <3>1. first + 0 = first
      BY <1>1
    <3>2. WindowStart(first) =< from /\ WindowStart(first) \in Nat
      BY StartOfBounds, WindowBounds, <1>1
    <3> QED
      BY <3>1, <3>2 DEF Reach, Greater
  <2> HIDE DEF Of, first, last
  <2>4. Fits(0)
    BY <1>1, <2>2, <2>3
  <2> QED
    BY <2>4
<1>3. ASSUME NEW k \in Nat, k \in Q PROVE k + 1 \in Q
  <2> SUFFICES ASSUME first + (k + 1) =< last PROVE Fits(k + 1)
    OBVIOUS
  <2> DEFINE w == first + k
             o == Overlap(from, w)
             s == ShareOf(from, to, amount, w)
             r == Reach(from, w)
  <2>1. w \in Nat /\ first =< w /\ w < last /\ first + (k + 1) = w + 1
    BY <1>1
  <2>2. Fits(k)
    BY <1>1, <1>3
  <2>3. o \in Nat /\ r \in Nat /\ Reach(from, w + 1) = r + o
    BY <2>1, ReachStep
  <2>4. s \in Nat /\ d * s =< amount * o
    BY <2>1, ShareBound
  <2>5. Of(k + 1) = s + Of(k)
    <3> DEFINE F == Shares(from, to, amount)
               T == first .. first + k - 1
    <3>1. first .. first + (k + 1) - 1 = T \cup {w} /\ w \notin T /\ IsFiniteSet(T)
      <4>1. first \in Int /\ w \in Int /\ first =< w
        BY <1>1, <2>1
      <4>2. first + (k + 1) - 1 = w /\ first + k - 1 = w - 1
        BY <1>1, <2>1
      <4>3. first .. first + (k + 1) - 1 = first .. w /\ T = first .. w - 1
        BY <4>2
      <4> HIDE DEF first, w, T
      <4> QED
        BY <4>1, <4>3, IntervalLast
    <3>2. \A v \in T \cup {w} : F[v] = ShareOf(from, to, amount, v)
      BY <1>1, <2>1 DEF Shares, Before
    <3>3. \A v \in T \cup {w} : F[v] \in Int
      <4> SUFFICES ASSUME NEW v \in T \cup {w} PROVE F[v] \in Int
        OBVIOUS
      <4>1. v \in Nat /\ first =< v
        BY <1>1, <2>1
      <4>2. ShareOf(from, to, amount, v) \in Nat
        BY <4>1, ShareBound
      <4> QED
        BY <3>2, <4>2
    <3> HIDE DEF F, T
    <3>4. SumFunctionOnSet(F, T \cup {w}) = F[w] + SumFunctionOnSet(F, T)
      BY <3>1, <3>3, SumAddOne
    <3> QED
      BY <3>1, <3>2, <3>4 DEF F, T
  <2> HIDE DEF s, o, r, w, Of, first, last, d
  <2>6. Of(k + 1) \in Nat
    BY <2>2, <2>4, <2>5
  <2>7. d * Of(k + 1) =< amount * Reach(from, w + 1)
    <3>1. d * Of(k + 1) = d * s + d * Of(k)
      BY <1>1, <2>2, <2>4, <2>5
    <3>2. amount * Reach(from, w + 1) = amount * r + amount * o
      BY <2>3
    <3>3. d * Of(k) =< amount * r
      BY <2>2 DEF r, w
    <3>4. d * s \in Nat /\ d * Of(k) \in Nat /\ amount * r \in Nat /\ amount * o \in Nat
      BY <1>1, <2>2, <2>3, <2>4
    <3> QED
      BY <2>4, <3>1, <3>2, <3>3, <3>4
  <2>8. ASSUME amount = d, to =< MaxTime PROVE Of(k + 1) = Reach(from, w + 1)
    <3>1. s = o
      BY <2>1, <2>8, ShareOfSpan DEF s, o, d, first, last
    <3>2. Of(k) = r
      BY <2>2, <2>8 DEF r, w
    <3> QED
      BY <2>3, <2>5, <3>1, <3>2
  <2> QED
    BY <2>1, <2>6, <2>7, <2>8
<1> HIDE DEF Q
<1>4. Nat \subseteq Q
  BY <1>2, <1>3, NaturalInduction
<1> QED
  BY <1>4 DEF Q

\* windowing.split loses and adds nothing: its parts are naturals that add up to
\* the amount, over the windows the interval meets.
LEMMA SplitExact ==
  ASSUME NEW from \in Nat, NEW to \in Nat, from < to, NEW amount \in Nat
  PROVE  LET parts == Split(from, to, amount)
             ws == startOf(from) .. startOf(to - 1)
         IN  /\ DOMAIN parts = ws /\ IsFiniteSet(ws) /\ startOf(to - 1) \in ws
             /\ \A w \in ws : parts[w] \in Nat
             /\ SumFunctionOnSet(parts, ws) = amount
<1> DEFINE parts == Split(from, to, amount)
           first == startOf(from)
           last == startOf(to - 1)
           ws == first .. last
           b == Before(from, to)
           rest == SumFunctionOnSet(Shares(from, to, amount), b)
           d == to - from
           r == Reach(from, last)
<1>1. first \in Nat /\ last \in Nat /\ first =< last
  BY StartOfBounds, StartOfOrder
<1>2. parts = [w \in ws |-> IF w = last THEN amount - rest ELSE ShareOf(from, to, amount, w)]
  BY SplitIs
<1>3. IsFiniteSet(ws) /\ last \in ws /\ b = ws \ {last}
  <2>1. b = first .. last - 1
    BY DEF Before
  <2>2. first \in Int /\ last \in Int /\ first =< last
    BY <1>1
  <2> HIDE DEF first, last, b
  <2>3. /\ IsFiniteSet(first .. last) /\ last \in first .. last
        /\ first .. last - 1 = (first .. last) \ {last}
    BY <2>2, IntervalLast, Zenon
  <2> QED
    BY <2>1, <2>3, Zenon
<1>4. rest \in Nat /\ d * rest =< amount * r
  <2>1. last - first \in Nat /\ first + (last - first) = last
    BY <1>1
  <2>2. b = first .. first + (last - first) - 1
    BY <1>1 DEF Before
  <2> DEFINE Of(k) == SumFunctionOnSet(Shares(from, to, amount), first .. first + k - 1)
  <2>3. \A k \in Nat : first + k =< last =>
          Of(k) \in Nat /\ d * Of(k) =< amount * Reach(from, first + k)
    BY SharesOfFirst
  <2>4. rest = Of(last - first)
    BY <2>2
  <2> HIDE DEF first, last, Of, rest
  <2> QED
    BY <1>1, <2>1, <2>3, <2>4
<1>5. r \in Nat /\ r =< d
  <2>1. WindowStart(last) =< to - 1 /\ WindowStart(last) \in Nat
    BY <1>1, StartOfBounds, WindowBounds
  <2> QED
    BY <2>1 DEF Reach, Greater
<1>6. amount - rest \in Nat
  <2> HIDE DEF r, rest
  <2>1. d \in Nat \ {0}
    OBVIOUS
  <2> HIDE DEF d
  <2>2. amount * r =< amount * d
    BY <1>5, <2>1
  <2>3. d * rest =< d * amount
    <3>1. amount * d = d * amount /\ amount * r \in Nat /\ amount * d \in Nat /\ d * rest \in Nat
      BY <1>4, <1>5, <2>1
    <3> QED
      BY <1>4, <2>2, <3>1
  <2>4. rest =< amount
    BY <1>4, <2>1, <2>3
  <2> QED
    BY <1>4, <2>4
<1>7. \A w \in ws : w # last => ShareOf(from, to, amount, w) \in Nat
  <2> TAKE w \in ws
  <2>1. w \in Nat /\ first =< w
    BY <1>1
  <2> QED
    BY <2>1, ShareBound
<1>8. \A w \in ws : parts[w] \in Nat
  BY <1>2, <1>6, <1>7
<1>9. SumFunctionOnSet(parts, ws) = parts[last] + SumFunctionOnSet(parts, b)
  <2>1. \A w \in ws : parts[w] \in Int
    BY <1>8
  <2> HIDE DEF parts, ws, last, b
  <2> QED
    BY <1>3, <2>1, SumTakeOut
<1>10. SumFunctionOnSet(parts, b) = rest
  <2>1. IsFiniteSet(b)
    BY <1>3, FS_RemoveElement
  <2>2. \A w \in b : parts[w] = Shares(from, to, amount)[w]
    BY <1>2, <1>3 DEF Shares
  <2> HIDE DEF parts, b
  <2> QED
    BY <2>1, <2>2, SumAgree
<1>11. parts[last] = amount - rest
  BY <1>2, <1>3
<1> HIDE DEF parts, rest, b, last
<1>12. SumFunctionOnSet(parts, ws) = amount
  BY <1>4, <1>9, <1>10, <1>11
<1> QED
  BY <1>2, <1>3, <1>8, <1>12 DEF parts, last

\* split of the interval itself gives a window what lies of it before the end,
\* less what lies of it before the start.
LEMMA SplitSpan ==
  ASSUME NEW from \in Nat, NEW to \in Nat, from < to, to =< MaxTime,
         NEW w \in startOf(from) .. startOf(to - 1)
  PROVE  Split(from, to, to - from)[w] = Clip(w, to) - Clip(w, from)
<1> DEFINE first == startOf(from)
           last == startOf(to - 1)
           d == to - from
           rest == SumFunctionOnSet(Shares(from, to, d), Before(from, to))
<1>1. first \in Nat /\ last \in Nat /\ w \in Nat /\ first =< w /\ w =< last /\ d \in Nat
  BY StartOfBounds
<1>2. Split(from, to, d)[w] = IF w = last THEN d - rest ELSE ShareOf(from, to, d, w)
  BY <1>1, SplitIs
<1>3. rest = Reach(from, last)
  <2>1. last - first \in Nat /\ first + (last - first) = last
    BY <1>1
  <2>2. Before(from, to) = first .. first + (last - first) - 1
    BY <1>1 DEF Before
  <2> DEFINE Of(k) == SumFunctionOnSet(Shares(from, to, d), first .. first + k - 1)
  <2>3. \A k \in Nat : first + k =< last => Of(k) = Reach(from, first + k)
    BY <1>1, SharesOfFirst
  <2>4. rest = Of(last - first)
    BY <2>2
  <2> HIDE DEF first, last, Of, rest
  <2> QED
    BY <1>1, <2>1, <2>3, <2>4
<1>4. /\ WindowStart(w) \in Nat /\ WindowEnd(w) = WindowStart(w) + Length
      /\ WindowStart(last) =< to - 1 /\ to - 1 < WindowEnd(last)
      /\ WindowStart(last) \in Nat /\ WindowEnd(last) \in Nat
  BY <1>1, WindowBounds, StartOfBounds
<1>5. from < WindowEnd(w)
  BY <1>1, ReachStep
<1>6. CASE w = last
  BY <1>2, <1>3, <1>4, <1>5, <1>6, UsageAssumption DEF Reach, Clip, Greater, Lesser
<1>7. CASE w # last
  <2>1. w < last /\ WindowEnd(w) =< WindowStart(last)
    BY <1>1, <1>7, WindowOrder
  <2>2. ShareOf(from, to, d, w) = Overlap(from, w)
    BY <1>1, <2>1, ShareOfSpan
  <2> QED
    BY <1>2, <1>4, <1>5, <1>7, <2>1, <2>2, UsageAssumption
       DEF Overlap, Clip, Greater, Lesser
<1> QED
  BY <1>6, <1>7
-----------------------------------------------------------------------------
\* Observe.

\* What an observation adds to the amount and the coverage of a window.
AmountAdded(from, to, amount, w) ==
  IF w \in DOMAIN Split(from, to, amount) THEN Split(from, to, amount)[w] ELSE 0
SpanAdded(from, to, w) ==
  IF w \in DOMAIN Split(from, to, to - from) /\ signal # "throttling"
  THEN Split(from, to, to - from)[w] ELSE 0
Home(to) == IF signal = "network" THEN startOf(to) ELSE startOf(to - 1)

\* The record after an addition, and its fields.
Added(t, a, c, n) == [t EXCEPT !.amount = @ + a, !.covered = @ + c, !.samples = @ + n]

\* An addition changes the three fields it adds to.
LEMMA AddedRecord ==
  ASSUME NEW t \in Record, NEW a \in Nat, NEW c \in Nat, NEW n \in Nat
  PROVE  LET r == Added(t, a, c, n) IN
         /\ r \in Record /\ r.held = t.held
         /\ r.amount = t.amount + a /\ r.covered = t.covered + c /\ r.samples = t.samples + n
<1> DEFINE r == Added(t, a, c, n)
<1>1. t.amount + a \in Nat /\ t.covered + c \in Nat /\ t.samples + n \in Nat
  BY DEF Record
<1>2. r \in Record
  BY <1>1, Zenon DEF Record, Added
<1>3. /\ r.held = t.held
      /\ r.amount = t.amount + a /\ r.covered = t.covered + c /\ r.samples = t.samples + n
  BY DEF Record, Added
<1> QED
  BY <1>2, <1>3

\* The windows split gives parts to.
LEMMA SplitDomain ==
  ASSUME NEW from \in Nat, NEW to \in Nat, from < to, NEW amount \in Nat
  PROVE  /\ DOMAIN Split(from, to, amount) = startOf(from) .. startOf(to - 1)
         /\ DOMAIN Split(from, to, to - from) = startOf(from) .. startOf(to - 1)
<1> DEFINE d == to - from
<1>1. d \in Nat
  OBVIOUS
<1> HIDE DEF d
<1>2. DOMAIN Split(from, to, d) = startOf(from) .. startOf(to - 1)
  BY <1>1, SplitExact
<1>3. DOMAIN Split(from, to, amount) = startOf(from) .. startOf(to - 1)
  BY SplitExact
<1> QED
  BY <1>2, <1>3 DEF d

\* The windows an observation touches, and what it adds to each.
LEMMA ObserveFields ==
  ASSUME NEW from \in Nat, NEW to \in Nat, from < to, NEW amount \in Nat,
         open \in [Windows -> Record], Blank(open)
  PROVE  LET o == Observe(from, to, amount) IN
         /\ o \in [Windows -> Record]
         /\ \A w \in Windows :
              /\ AmountAdded(from, to, amount, w) \in Nat /\ SpanAdded(from, to, w) \in Nat
              /\ o[w].amount = open[w].amount + AmountAdded(from, to, amount, w)
              /\ o[w].covered = open[w].covered + SpanAdded(from, to, w)
              /\ o[w].samples >= open[w].samples
              /\ open[w].held => o[w].held
              /\ ~o[w].held => o[w] = None
<1> DEFINE parts == Split(from, to, amount)
           span == Split(from, to, to - from)
           home == Home(to)
           A(w) == AmountAdded(from, to, amount, w)
           C(w) == SpanAdded(from, to, w)
           N(w) == IF w = home THEN 1 ELSE 0
           Add(w) == [Touch(open[w]) EXCEPT !.amount = @ + A(w), !.covered = @ + C(w),
                                            !.samples = @ + N(w)]
           touched == DOMAIN span \cup {home}
           o == Observe(from, to, amount)
<1>1. o = [w \in Windows |-> IF w \in touched THEN Add(w) ELSE open[w]]
  <2>1. o = IF to =< from THEN open
            ELSE [w \in Windows |-> IF w \in touched THEN Add(w) ELSE open[w]]
    BY Zenon DEF Observe, AmountAdded, SpanAdded, Home
  <2>2. ~(to =< from)
    OBVIOUS
  <2> HIDE DEF o, touched, Add
  <2> QED
    BY <2>1, <2>2
<1>2. /\ DOMAIN parts = DOMAIN span
      /\ \A w \in DOMAIN parts : parts[w] \in Nat
      /\ \A w \in DOMAIN span : span[w] \in Nat
  <2> DEFINE ws == startOf(from) .. startOf(to - 1)
             d == to - from
  <2>1. DOMAIN parts = ws /\ \A w \in ws : parts[w] \in Nat
    BY SplitExact
  <2>2. d \in Nat
    OBVIOUS
  <2> HIDE DEF d
  <2>3. DOMAIN Split(from, to, d) = ws /\ \A w \in ws : Split(from, to, d)[w] \in Nat
    BY <2>2, SplitExact
  <2> QED
    BY <2>1, <2>3 DEF d
<1>3. \A w : A(w) \in Nat /\ C(w) \in Nat /\ N(w) \in Nat
  BY <1>2 DEF AmountAdded, SpanAdded
<1>4. \A w : w \notin touched => A(w) = 0 /\ C(w) = 0
  BY <1>2 DEF AmountAdded, SpanAdded
<1> HIDE DEF parts, span, home, A, C, N, touched, o
<1>5. ASSUME NEW w \in Windows
      PROVE  /\ o[w] \in Record
             /\ o[w].amount = open[w].amount + A(w) /\ o[w].covered = open[w].covered + C(w)
             /\ o[w].samples >= open[w].samples
             /\ open[w].held => o[w].held
             /\ ~o[w].held => o[w] = None
  <2>1. open[w] \in Record /\ (~open[w].held => open[w] = None)
    BY DEF Blank
  <2>2. A(w) \in Nat /\ C(w) \in Nat /\ N(w) \in Nat
    BY <1>3
  <2>3. CASE w \notin touched
    <3>1. o[w] = open[w] /\ A(w) = 0 /\ C(w) = 0
      BY <1>1, <1>4, <2>3
    <3> QED
      BY <2>1, <3>1 DEF Record
  <2>4. CASE w \in touched
    <3>1. o[w] = Add(w)
      BY <1>1, <2>4
    <3>2. /\ Touch(open[w]) \in Record /\ Touch(open[w]).held = TRUE
          /\ Touch(open[w]).amount = open[w].amount
          /\ Touch(open[w]).covered = open[w].covered
          /\ Touch(open[w]).samples = open[w].samples
      BY <2>1 DEF Touch, Fresh, None, Record
    <3>3. /\ Add(w) \in Record /\ Add(w).held = TRUE
          /\ Add(w).amount = open[w].amount + A(w)
          /\ Add(w).covered = open[w].covered + C(w)
          /\ Add(w).samples = open[w].samples + N(w)
      <4> DEFINE t == Touch(open[w])
      <4>1. t \in Record
        BY <3>2
      <4>0. Add(w) = Added(t, A(w), C(w), N(w))
        BY Zenon DEF Added
      <4> HIDE DEF t, Add
      <4>2. /\ Added(t, A(w), C(w), N(w)) \in Record
            /\ Added(t, A(w), C(w), N(w)).held = t.held
            /\ Added(t, A(w), C(w), N(w)).amount = t.amount + A(w)
            /\ Added(t, A(w), C(w), N(w)).covered = t.covered + C(w)
            /\ Added(t, A(w), C(w), N(w)).samples = t.samples + N(w)
        <5> DEFINE r(a, c, n) == Added(t, a, c, n)
        <5>1. \A a, c, n \in Nat :
                /\ r(a, c, n) \in Record /\ r(a, c, n).held = t.held
                /\ r(a, c, n).amount = t.amount + a /\ r(a, c, n).covered = t.covered + c
                /\ r(a, c, n).samples = t.samples + n
          BY <4>1, AddedRecord
        <5> QED
          BY <2>2, <5>1
      <4> QED
        BY <3>2, <4>0, <4>2 DEF t
    <3> HIDE DEF Add
    <3>4. open[w].samples \in Nat
      BY <2>1 DEF Record
    <3> QED
      BY <2>2, <3>1, <3>3, <3>4
  <2> QED
    BY <2>3, <2>4
<1>6. o \in [Windows -> Record]
  BY <1>1, <1>5
<1> QED
  BY <1>3, <1>5, <1>6 DEF o, A, C

\* Observe adds the amount to the windows' total.
LEMMA ObserveSum ==
  ASSUME NEW from \in Nat, NEW to \in Nat, from < to, to =< MaxTime, NEW amount \in Nat,
         open \in [Windows -> Record], Blank(open)
  PROVE  Sum(Observe(from, to, amount)) = Sum(open) + amount
<1> DEFINE o == Observe(from, to, amount)
           parts == Split(from, to, amount)
           ws == startOf(from) .. startOf(to - 1)
           F == [w \in Windows |-> open[w].amount]
           G == [w \in Windows |-> AmountAdded(from, to, amount, w)]
           H == [w \in Windows |-> o[w].amount]
<1>1. /\ DOMAIN parts = ws /\ IsFiniteSet(ws)
      /\ \A w \in ws : parts[w] \in Nat
      /\ SumFunctionOnSet(parts, ws) = amount
  BY SplitExact
<1>2. ws \subseteq Windows
  <2>1. to - 1 \in 0 .. MaxTime
    BY UsageAssumption
  <2>2. startOf(to - 1) \in Windows /\ startOf(from) \in Nat
    BY <2>1, StartOfIn, StartOfBounds
  <2>3. MaxTime \div Length \in Nat
    BY UsageAssumption
  <2> QED
    BY <2>2, <2>3 DEF Windows
<1>3. \A w \in Windows : F[w] \in Int /\ G[w] \in Int /\ H[w] = F[w] + G[w]
  <2>1. \A w \in Windows : AmountAdded(from, to, amount, w) \in Nat
                           /\ o[w].amount = open[w].amount + AmountAdded(from, to, amount, w)
    BY ObserveFields
  <2> HIDE DEF o
  <2> QED
    BY <2>1 DEF Record
<1>4. SumFunctionOnSet(H, Windows) = SumFunctionOnSet(F, Windows) + SumFunctionOnSet(G, Windows)
  <2>1. ASSUME NEW f, NEW g, NEW h,
               \A w \in Windows : f[w] \in Int /\ g[w] \in Int /\ h[w] = f[w] + g[w]
        PROVE  SumFunctionOnSet(h, Windows)
                 = SumFunctionOnSet(f, Windows) + SumFunctionOnSet(g, Windows)
    <3>1. IsFiniteSet(Windows)
      BY WindowsFinite
    <3> QED
      BY <2>1, <3>1, SumOfSums
  <2> HIDE DEF F, G, H
  <2> QED
    BY <1>3, <2>1
<1>5. \A w \in Windows : G[w] = IF w \in ws THEN parts[w] ELSE 0
  BY <1>1 DEF AmountAdded
<1>6. SumFunctionOnSet(G, Windows) = SumFunctionOnSet(G, ws)
  <2> HIDE DEF G, ws
  <2> QED
    BY <1>2, <1>3, <1>5, WindowsFinite, SumSupport
<1>7. SumFunctionOnSet(G, ws) = SumFunctionOnSet(parts, ws)
  <2> HIDE DEF G, ws, parts
  <2> QED
    BY <1>1, <1>2, <1>5, SumAgree
<1> QED
  BY <1>1, <1>4, <1>6, <1>7 DEF Sum

\* Observe covers what the interval overlaps: coverage that lay before its start
\* lies before its end.
LEMMA ObserveBelow ==
  ASSUME NEW from \in Nat, NEW to \in Nat, from < to, to =< MaxTime, NEW amount \in Nat,
         open \in [Windows -> Record], Blank(open), Below(open, from)
  PROVE  Below(Observe(from, to, amount), to)
<1> DEFINE o == Observe(from, to, amount)
<1> SUFFICES ASSUME NEW w \in Windows PROVE o[w].covered =< Clip(w, to)
  BY DEF Below
<1>1. o[w].covered = open[w].covered + SpanAdded(from, to, w) /\ SpanAdded(from, to, w) \in Nat
  BY ObserveFields
<1> HIDE DEF o
<1>2. open[w].covered =< Clip(w, from) /\ open[w].covered \in Nat
  BY DEF Below, Record
<1>3. w \in Nat /\ WindowStart(w) \in Nat /\ WindowEnd(w) = WindowStart(w) + Length
  BY WindowsFinite, WindowBounds
<1>4. Clip(w, from) \in Nat /\ Clip(w, to) \in Nat /\ Clip(w, from) =< Clip(w, to)
  BY <1>3, UsageAssumption DEF Clip, Lesser
<1>5. CASE SpanAdded(from, to, w) = 0
  BY <1>1, <1>2, <1>4, <1>5
<1>6. CASE SpanAdded(from, to, w) # 0
  <2>1. w \in startOf(from) .. startOf(to - 1)
    BY <1>6, SplitDomain DEF SpanAdded
  <2>2. SpanAdded(from, to, w) = Split(from, to, to - from)[w]
    BY <1>6 DEF SpanAdded
  <2>3. SpanAdded(from, to, w) = Clip(w, to) - Clip(w, from)
    BY <2>1, <2>2, SplitSpan
  <2> QED
    BY <1>1, <1>2, <1>4, <2>3
<1> QED
  BY <1>5, <1>6
-----------------------------------------------------------------------------
\* A poll's sample.

\* What a sample does to the open records: they stay records, and only grow.
LEMMA TakenGrows ==
  ASSUME TypeOK, Blank(open), NEW known \in BOOLEAN
  PROVE  /\ Taken(known) \in [Windows -> Record] /\ Blank(Taken(known))
         /\ \A w \in Windows : /\ open[w].held => Taken(known)[w].held
                               /\ open[w].amount =< Taken(known)[w].amount
                               /\ open[w].samples =< Taken(known)[w].samples
<1> DEFINE Good(o) == /\ o \in [Windows -> Record] /\ Blank(o)
                      /\ \A w \in Windows : /\ open[w].held => o[w].held
                                            /\ open[w].amount =< o[w].amount
                                            /\ open[w].samples =< o[w].samples
<1>1. open \in [Windows -> Record] /\ Good(open)
  BY DEF TypeOK, Record
<1>2. ASSUME NEW from \in Nat, NEW to \in Nat, NEW amount \in Nat
      PROVE  Good(Observe(from, to, amount))
  <2>1. CASE to =< from
    <3>1. Observe(from, to, amount) = open
      BY <2>1 DEF Observe
    <3> HIDE DEF Good
    <3> QED
      BY <1>1, <3>1
  <2>2. CASE from < to
    <3> DEFINE o == Observe(from, to, amount)
               A(w) == AmountAdded(from, to, amount, w)
    <3>1. /\ o \in [Windows -> Record]
          /\ \A w \in Windows :
               /\ A(w) \in Nat /\ o[w].amount = open[w].amount + A(w)
               /\ o[w].samples >= open[w].samples
               /\ open[w].held => o[w].held
               /\ ~o[w].held => o[w] = None
      BY <1>1, <2>2, ObserveFields
    <3> HIDE DEF o, A
    <3>2. Blank(o)
      BY <3>1 DEF Blank
    <3>3. ASSUME NEW w \in Windows
          PROVE  open[w].amount =< o[w].amount /\ open[w].samples =< o[w].samples
      <4>1. open[w] \in Record /\ o[w] \in Record
        BY <1>1, <3>1
      <4> QED
        BY <3>1, <4>1 DEF Record
    <3> QED
      BY <3>1, <3>2, <3>3 DEF o
  <2> QED
    BY <2>1, <2>2
<1>3. stat.start \in Nat /\ stat.at \in Nat /\ stat.count \in Nat
  BY DEF TypeOK
<1> HIDE DEF Good
<1>4. Good(Observe(stat.start, stat.at, stat.count))
  BY <1>2, <1>3
<1>5. ASSUME IsDelta PROVE Good(Observe(base.at, stat.at, stat.count - base.count))
  <2>1. base.at \in Nat /\ stat.count - base.count \in Nat
    BY <1>5 DEF TypeOK, IsDelta, IsFirst, IsReset, IsStale
  <2> QED
    BY <1>2, <1>3, <2>1
<1>6. Good(Taken(known))
  BY <1>1, <1>4, <1>5 DEF Taken
<1> QED
  BY <1>6 DEF Good

\* The baseline after a sample or a missed one.
LEMMA BaselineType ==
  ASSUME TypeOK
  PROVE  LET B == [at : -1 .. MaxTime, count : Nat, seen : -1 .. MaxTime] IN
         Swept(base) \in B /\ Swept(Baseline) \in B /\ Baseline \in B
<1> DEFINE B == [at : -1 .. MaxTime, count : Nat, seen : -1 .. MaxTime]
<1>1. base \in B /\ NoBase \in B
  BY UsageAssumption DEF TypeOK, NoBase
<1>2. [base EXCEPT !.seen = now] \in B
  <2>1. now \in -1 .. MaxTime
    BY UsageAssumption DEF TypeOK
  <2> QED
    BY <1>1, <2>1, Zenon
<1>3. [at |-> stat.at, count |-> stat.count, seen |-> now] \in B
  BY UsageAssumption DEF TypeOK
<1> QED
  BY <1>1, <1>2, <1>3 DEF Swept, Baseline

\* A nonempty set of windows has a last one.
LEMMA LastWindow ==
  ASSUME NEW S, S \subseteq Windows, S # {}
  PROVE  Max(S) \in S
<1> DEFINE n == MaxTime \div Length
           T == {k \in Nat : n - k \in S}
<1>1. n \in Nat /\ Windows = 0 .. n
  BY UsageAssumption DEF Windows
<1> HIDE DEF n
<1>2. T # {}
  <2>1. PICK w : w \in S
    OBVIOUS
  <2>2. w \in Nat /\ n - w \in Nat /\ n - (n - w) = w
    BY <1>1, <2>1
  <2>3. n - w \in T
    BY <2>1, <2>2
  <2> QED
    BY <2>3
<1>3. T \subseteq Nat
  OBVIOUS
<1> HIDE DEF T
<1>4. PICK k \in T : \A j \in T : k =< j
  BY <1>2, <1>3, LeastNatural
<1>5. k \in Nat /\ n - k \in S
  BY <1>4 DEF T
<1>6. ASSUME NEW w \in S PROVE n - k >= w
  <2>1. w \in Nat /\ n - w \in Nat /\ n - (n - w) = w
    BY <1>1
  <2>2. n - w \in T
    BY <2>1 DEF T
  <2>3. k =< n - w
    BY <1>4, <2>2
  <2> QED
    BY <1>1, <1>5, <2>1, <2>3
<1>7. \E x \in S : \A y \in S : x >= y
  BY <1>5, <1>6
<1> QED
  BY <1>7 DEF Max
-----------------------------------------------------------------------------
\* Types.

\* The initial state has its type.
LEMMA InitType == Init => TypeOK
<1> SUFFICES ASSUME Init PROVE TypeOK
  OBVIOUS
<1>1. Empty \in [Windows -> Record]
  BY DEF Empty, None, Record
<1>2. 0 \in Windows
  <2>1. MaxTime \div Length \in Nat
    BY UsageAssumption
  <2> QED
    BY <2>1 DEF Windows
<1>3. NoBase \in [at : -1 .. MaxTime, count : Nat, seen : -1 .. MaxTime]
  BY UsageAssumption DEF NoBase
<1>4. 0 \in 0 .. MaxTime /\ 0 \in 0 .. MaxTime + Length /\ 0 \in 0 .. MaxFaults
  BY UsageAssumption
<1> QED
  BY <1>1, <1>2, <1>3, <1>4 DEF Init, TypeOK, Timers

\* A record put in one window leaves a record in each.
LEMMA PutRecord ==
  ASSUME NEW f \in [Windows -> Record], NEW v \in Windows, NEW r \in Record
  PROVE  [f EXCEPT ![v] = r] \in [Windows -> Record]
OBVIOUS

\* A sample of another replica opens a record at most, of which this replica's
\* share is nothing, and changes no other share.
LEMMA OthersOpen ==
  ASSUME TypeOK, Blank(open), NEW w \in Windows, OthersObserve(w)
  PROVE  /\ open' \in [Windows -> Record] /\ Blank(open')
         /\ \A v \in Windows : /\ open'[v] = open[v] \/ (~open[v].held /\ open'[v] = Fresh)
                               /\ open'[v].amount = open[v].amount
                               /\ open'[v].covered = open[v].covered
                               /\ open'[v].samples = open[v].samples
         /\ \A v \in Windows : open'[v].held /\ final[v].held => open[v].held \/ v \in late'
         /\ late \subseteq late' /\ late' \subseteq late \cup {w}
         /\ UNCHANGED <<signal, now, ctr, stat, up, due, base, resumed, until, flush, cur, batch,
                        files, final, told, gone, lives, again, lost, faults>>
<1>1. /\ None \in Record /\ Fresh \in Record /\ Fresh.held /\ Fresh.amount = None.amount
      /\ Fresh.covered = None.covered /\ Fresh.samples = None.samples
  BY DEF None, Fresh, Record
<1>2. open \in [Windows -> Record] /\ open[w] \in Record
  BY DEF TypeOK
<1>3. Touch(open[w]) = open[w] \/ (~open[w].held /\ Touch(open[w]) = Fresh)
  BY DEF Touch
<1>4. open' = [open EXCEPT ![w] = Touch(open[w])] /\ Touch(open[w]) \in Record
  BY <1>1, <1>2, <1>3 DEF OthersObserve
<1>5. open' \in [Windows -> Record]
  BY <1>2, <1>4
<1>6. \A v \in Windows : open'[v] = open[v] \/ (v = w /\ ~open[v].held /\ open'[v] = Fresh)
  BY <1>2, <1>3, <1>4
<1>7. \A v \in Windows : ~open[v].held => open[v] = None
  BY DEF Blank
<1>8. Blank(open')
  BY <1>1, <1>6, <1>7 DEF Blank
<1>9. \A v \in Windows : /\ open'[v].amount = open[v].amount
                         /\ open'[v].covered = open[v].covered
                         /\ open'[v].samples = open[v].samples
  BY <1>1, <1>6, <1>7
<1>10. late' = IF final[w].held THEN late \cup {w} ELSE late
  BY DEF OthersObserve
<1> QED
  BY <1>5, <1>6, <1>8, <1>9, <1>10 DEF OthersObserve

\* Every step of the poller, the spool and the cluster keeps the types.
LEMMA TypeStep ==
  ASSUME TypeOK, Control, [Next]_vars
  PROVE  TypeOK'
<1>0. /\ None \in Record /\ Empty \in [Windows -> Record] /\ 0 \in Windows
      /\ NoBase \in [at : -1 .. MaxTime, count : Nat, seen : -1 .. MaxTime]
      /\ 0 \in 0 .. MaxTime + Length
  <2>1. None \in Record
    BY DEF None, Record
  <2>2. MaxTime \div Length \in Nat
    BY UsageAssumption
  <2>3. 0 \in Windows
    BY <2>2 DEF Windows
  <2>4. NoBase \in [at : -1 .. MaxTime, count : Nat, seen : -1 .. MaxTime]
    BY UsageAssumption DEF NoBase
  <2>5. 0 \in 0 .. MaxTime + Length
    BY UsageAssumption
  <2> QED
    BY <2>1, <2>3, <2>4, <2>5 DEF Empty
<1>1. ASSUME faults < MaxFaults PROVE faults + 1 \in 0 .. MaxFaults
  BY <1>1, UsageAssumption DEF TypeOK
<1>2. CASE Tick
  <2>1. PICK fresh \in BOOLEAN :
          stat' = IF fresh THEN [at |-> now + 1, count |-> ctr'.count, start |-> ctr.start] ELSE stat
    BY <1>2 DEF Tick
  <2>2. now < MaxTime /\ now' = now + 1 /\ ctr' = [ctr EXCEPT !.count = @ + Load[now + 1]]
    BY <1>2 DEF Tick
  <2>3. now' \in 0 .. MaxTime /\ now + 1 \in 1 .. MaxTime
    BY <2>2, UsageAssumption DEF TypeOK
  <2>4. Load[now + 1] \in Nat /\ ctr.count \in Nat
    BY <2>3, UsageAssumption DEF TypeOK
  <2>5. ctr.count + Load[now + 1] \in Nat
    BY <2>4
  <2>6. ctr' \in [start : 0 .. MaxTime, count : Nat]
    BY <2>2, <2>5, Zenon DEF TypeOK
  <2>7. stat' \in [at : 0 .. MaxTime, count : Nat, start : 0 .. MaxTime]
    <3>1. CASE stat' = stat
      BY <3>1 DEF TypeOK
    <3>2. CASE stat' = [at |-> now + 1, count |-> ctr'.count, start |-> ctr.start]
      <4>1. now + 1 \in 0 .. MaxTime
        BY <2>2, <2>3
      <4>2. ctr'.count \in Nat /\ ctr.start \in 0 .. MaxTime
        BY <2>6 DEF TypeOK
      <4> QED
        BY <3>2, <4>1, <4>2
    <3> QED
      BY <2>1, <3>1, <3>2
  <2> QED
    BY <1>2, <2>3, <2>6, <2>7 DEF Tick, TypeOK, Timers, files, ghosts
<1>3. CASE ContainerRestart
  <2>1. ctr' \in [start : 0 .. MaxTime, count : Nat]
    BY <1>3 DEF ContainerRestart, TypeOK
  <2> QED
    BY <1>1, <1>3, <2>1 DEF ContainerRestart, TypeOK, poller, files
<1>4. ASSUME NEW known \in BOOLEAN, Poll(known) PROVE TypeOK'
  <2>1. open' \in [Windows -> Record]
    BY <1>4, TakenGrows DEF Poll, Control
  <2>2. base' \in [at : -1 .. MaxTime, count : Nat, seen : -1 .. MaxTime]
    BY <1>4, BaselineType DEF Poll
  <2>3. lives' \subseteq 0 .. MaxTime
    <3>1. stat.start \in 0 .. MaxTime
      BY DEF TypeOK
    <3> QED
      BY <1>4, <3>1 DEF Poll, TypeOK
  <2>4. late' \subseteq Windows /\ resumed' \in BOOLEAN /\ again' \in BOOLEAN /\ lost' \in BOOLEAN
    BY <1>4 DEF Poll, TypeOK, SweptMark
  <2> QED
    BY <1>4, <2>1, <2>2, <2>3, <2>4 DEF Poll, TypeOK, files
<1>5. CASE PollMissed
  <2>1. base' \in [at : -1 .. MaxTime, count : Nat, seen : -1 .. MaxTime]
    BY <1>5, BaselineType DEF PollMissed
  <2>2. resumed' \in BOOLEAN
    BY <1>5 DEF PollMissed, SweptMark, TypeOK
  <2> QED
    BY <1>5, <2>1, <2>2 DEF PollMissed, TypeOK, files, ghosts
<1>6. CASE FlushClose
  <2>1. open' \in [Windows -> Record] /\ batch' \in [Windows -> Record]
    BY <1>0, <1>6 DEF FlushClose, TypeOK
  <2> QED
    BY <1>6, <2>1 DEF FlushClose, TypeOK, files, ghosts
<1>7. CASE CloseFails
  <2>1. batch' \in [Windows -> Record] /\ lost' \in BOOLEAN
    BY <1>0, <1>7 DEF CloseFails, TypeOK
  <2> QED
    BY <1>1, <1>7, <2>1 DEF CloseFails, TypeOK, files
<1>8. CASE RemoveSnapshot
  <2>1. snap' \in [Windows -> Record]
    BY <1>0, <1>8, PutRecord DEF RemoveSnapshot, TypeOK
  <2> QED
    BY <1>8, <2>1 DEF RemoveSnapshot, TypeOK, ghosts
<1>9. CASE FlushSnapshots
  <2>1. batch' \in [Windows -> Record]
    BY <1>0, <1>9 DEF FlushSnapshots, TypeOK
  <2> QED
    BY <1>9, <2>1 DEF FlushSnapshots, TypeOK, files, ghosts
<1>10. CASE FlushEnds
  <2>1. faults' \in 0 .. MaxFaults
    BY <1>1, <1>10 DEF FlushEnds, TypeOK
  <2> QED
    BY <1>0, <1>10, <2>1 DEF FlushEnds, TypeOK, files, ghosts
<1>11. ASSUME NEW w \in Windows, WriteClosed(w) PROVE TypeOK'
  <2>1. batch[w] \in Record
    BY DEF TypeOK
  <2>2. closed' \in [Windows -> Record] /\ final' \in [Windows -> Record]
        /\ batch' \in [Windows -> Record]
    BY <1>0, <1>11, <2>1, PutRecord DEF WriteClosed, TypeOK
  <2> QED
    BY <1>11, <2>2 DEF WriteClosed, TypeOK
<1>12. ASSUME NEW w \in Windows, WriteSnapshot(w) PROVE TypeOK'
  <2>1. batch[w] \in Record
    BY DEF TypeOK
  <2>2. snap' \in [Windows -> Record] /\ told' \in [Windows -> Record]
        /\ batch' \in [Windows -> Record]
    BY <1>0, <1>12, <2>1, PutRecord DEF WriteSnapshot, TypeOK
  <2> QED
    BY <1>12, <2>2 DEF WriteSnapshot, TypeOK
<1>13. ASSUME NEW w \in Windows, Leave(w) PROVE TypeOK'
  <2>1. snap' \in [Windows -> Record] /\ closed' \in [Windows -> Record]
    BY <1>0, <1>13, PutRecord DEF Leave, TypeOK
  <2> QED
    BY <1>13, <2>1 DEF Leave, TypeOK, poller, ghosts
<1>14. CASE Crash
  BY <1>0, <1>1, <1>14 DEF Crash, TypeOK, Timers, files
<1>15. CASE ClockStepsBack
  <2>1. now \in 0 .. MaxTime /\ now > 0 /\ now' = now - 1
    BY <1>15 DEF ClockStepsBack, TypeOK
  <2>2. now' \in 0 .. MaxTime
    BY <2>1, UsageAssumption
  <2> QED
    BY <1>1, <1>15, <2>2 DEF ClockStepsBack, TypeOK, poller, files
<1>16. CASE Restart
  <2> DEFINE back == {w \in Windows : Recoverable(w)}
  <2>1. open' \in [Windows -> Record]
    BY <1>0, <1>16 DEF Restart, Seed, TypeOK
  <2>2. until' \in 0 .. MaxTime + Length
    <3>1. until' = resumedUntil(back)
      BY <1>16 DEF Restart
    <3>2. back \subseteq Windows
      OBVIOUS
    <3> HIDE DEF back
    <3>3. CASE back = {}
      BY <1>0, <3>1, <3>3 DEF resumedUntil
    <3>4. CASE back # {}
      <4>1. Max(back) \in Windows
        BY <3>2, <3>4, LastWindow
      <4>2. WindowEnd(Max(back)) \in 0 .. MaxTime + Length
        <5> DEFINE m == Max(back)
        <5>1. m \in Nat /\ startOf(MaxTime) \in Nat /\ m =< startOf(MaxTime)
          BY <4>1, WindowsFinite, StartOfBounds, UsageAssumption DEF Windows, startOf
        <5> HIDE DEF m
        <5>2. m * Length =< startOf(MaxTime) * Length
          BY <5>1, UsageAssumption
        <5>3. WindowStart(m) =< WindowStart(startOf(MaxTime))
          BY <5>2 DEF WindowStart
        <5>4. WindowStart(startOf(MaxTime)) =< MaxTime
          BY StartOfBounds, UsageAssumption
        <5>5. /\ WindowStart(m) \in Nat /\ WindowStart(startOf(MaxTime)) \in Nat
              /\ WindowEnd(m) = WindowStart(m) + Length
          BY <5>1, WindowBounds
        <5>6. WindowEnd(m) \in 0 .. MaxTime + Length
          BY <5>3, <5>4, <5>5, UsageAssumption
        <5> QED
          BY <5>6 DEF m
      <4> QED
        BY <3>1, <3>4, <4>2 DEF resumedUntil
    <3> QED
      BY <3>3, <3>4
  <2>3. resumed' \in BOOLEAN /\ gone' \subseteq Windows /\ late' \subseteq Windows
    BY <1>16 DEF Restart, TypeOK
  <2> QED
    BY <1>16, <2>1, <2>2, <2>3 DEF Restart, TypeOK, files
<1>17. ASSUME NEW w \in Windows, OthersObserve(w) PROVE TypeOK'
  <2>1. open' \in [Windows -> Record] /\ late' \subseteq Windows
    BY <1>17, OthersOpen DEF Control, TypeOK
  <2> QED
    BY <1>17, <2>1, OthersOpen DEF Control, TypeOK, files
<1>18. CASE UNCHANGED vars
  BY <1>18 DEF vars, poller, files, ghosts, TypeOK
<1> QED
  BY <1>2, <1>3, <1>4, <1>5, <1>6, <1>7, <1>8, <1>9, <1>10, <1>11, <1>12, <1>13,
     <1>14, <1>15, <1>16, <1>17, <1>18 DEF Next
-----------------------------------------------------------------------------
\* Control.

\* The baseline of a sample is set, and a sweep leaves it or forgets it.
LEMMA BaselineSet ==
  ASSUME TypeOK, Control
  PROVE  /\ Swept(Baseline) = Baseline /\ Baseline.at # -1
         /\ Swept(base) = base \/ Swept(base) = NoBase
<1>1. Baseline.at # -1
  <2>1. CASE IsStale
    BY <2>1 DEF Baseline, IsStale, IsFirst, TypeOK
  <2>2. CASE ~IsStale
    <3>1. Baseline.at = stat.at /\ stat.at \in 0 .. MaxTime
      BY <2>2 DEF Baseline, TypeOK
    <3> QED
      BY <3>1, UsageAssumption
  <2> QED
    BY <2>1, <2>2
<1>2. Baseline.seen = now
  <2>1. DOMAIN base = {"at", "count", "seen"}
    BY DEF TypeOK
  <2> QED
    BY <2>1 DEF Baseline
<1>3. ~(now < now - StaleAfter)
  BY UsageAssumption DEF TypeOK
<1> QED
  BY <1>1, <1>2, <1>3 DEF Swept

\* The empty table is blank.
LEMMA BlankEmpty == Blank(Empty)
BY DEF Blank, Empty

\* Putting the empty or a held record keeps a table blank.
LEMMA BlankPut ==
  ASSUME NEW f \in [Windows -> Record], Blank(f), NEW v \in Windows,
         NEW r, r = None \/ r.held
  PROVE  Blank([f EXCEPT ![v] = r])
BY DEF Blank, None

\* Every step keeps the flush's phases, the batch and the empty records in order.
LEMMA ControlStep ==
  ASSUME TypeOK, Control, [Next]_vars
  PROVE  Control'
<1>0. (\A w \in Windows : Empty[w] = None) /\ None.held = FALSE
  BY DEF Empty, None
<1>1. CASE Tick
  BY <1>1 DEF Tick, Control, Blank, Closing, files, ghosts
<1>2. CASE ContainerRestart
  BY <1>2 DEF ContainerRestart, Control, Blank, Closing, Ended, poller, files
<1>3. ASSUME NEW known \in BOOLEAN, Poll(known) PROVE Control'
  <2>1. Blank(open)'
    <3>1. Blank(Taken(known))
      BY TakenGrows DEF Control
    <3> QED
      BY <1>3, <3>1 DEF Poll, Blank
  <2>2. base'.at # -1
    BY <1>3, BaselineSet DEF Poll
  <2> QED
    BY <1>3, <2>1, <2>2 DEF Poll, Control, Blank, Closing, Ended, files
<1>4. CASE PollMissed
  <2>1. base' = base \/ base' = NoBase
    BY <1>4, BaselineSet DEF PollMissed
  <2> QED
    BY <1>4, <2>1 DEF PollMissed, Control, Blank, Closing, Ended, NoBase, files, ghosts
<1>5. CASE FlushClose
  <2>1. Blank(open)' /\ Blank(batch)'
    BY <1>5 DEF FlushClose, Control, Blank
  <2>2. /\ \A w \in Windows : open'[w].held => ~Ended(w)'
        /\ \A w \in Windows : batch'[w].held => Ended(w)'
    BY <1>0, <1>5 DEF FlushClose, Ended
  <2> QED
    BY <1>5, <2>1, <2>2 DEF FlushClose, Control, Blank, Closing, files, ghosts
<1>6. CASE CloseFails
  <2>1. Blank(batch)' /\ (\A w \in Windows : batch'[w].held => batch'[w] = open[w])
    BY <1>0, <1>6, BlankEmpty DEF CloseFails, Control, Blank
  <2>2. flush # "idle" /\ flush' = "snapshots"
    BY <1>6 DEF CloseFails
  <2> QED
    BY <1>6, <2>1, <2>2 DEF CloseFails, Control, Blank, Closing, Ended, files
<1>7. CASE RemoveSnapshot
  <2>1. Blank(snap)'
    <3>1. cur \in Windows /\ snap \in [Windows -> Record]
      BY DEF TypeOK
    <3>2. Blank([snap EXCEPT ![cur] = None])
      BY <3>1, BlankPut DEF Control
    <3> QED
      BY <1>7, <3>2 DEF RemoveSnapshot, Blank
  <2> QED
    BY <1>7, <2>1 DEF RemoveSnapshot, Control, Blank, Closing, Ended, ghosts
<1>8. CASE FlushSnapshots
  <2>1. Blank(batch)' /\ (\A w \in Windows : batch'[w].held => batch'[w] = open[w])
    BY <1>0, <1>8, BlankEmpty DEF FlushSnapshots, Control, Blank
  <2> QED
    BY <1>8, <2>1 DEF FlushSnapshots, Control, Blank, Closing, Ended, files, ghosts
<1>9. CASE FlushEnds
  BY <1>9, BlankEmpty DEF FlushEnds, Control, Blank, Closing, files, ghosts
<1>10. ASSUME NEW w \in Windows, WriteClosed(w) PROVE Control'
  <2>1. /\ final \in [Windows -> Record] /\ batch \in [Windows -> Record]
    BY DEF TypeOK
  <2>2. Blank([final EXCEPT ![w] = batch[w]]) /\ Blank([batch EXCEPT ![w] = None])
    BY <1>10, <2>1, BlankPut DEF WriteClosed, Control
  <2>3. Blank(final)' /\ Blank(batch)'
    BY <1>10, <2>2 DEF WriteClosed, Blank
  <2>4. \A v \in Windows : batch'[v].held => batch[v].held
    BY <1>0, <1>10, <2>1 DEF WriteClosed
  <2>5. flush \in {"closing", "removing"} /\ flush' \in {"closing", "removing"}
    BY <1>10 DEF WriteClosed
  <2> QED
    BY <1>10, <2>3, <2>4, <2>5 DEF WriteClosed, Control, Blank, Closing, Ended
<1>11. ASSUME NEW w \in Windows, WriteSnapshot(w) PROVE Control'
  <2>1. /\ snap \in [Windows -> Record] /\ batch \in [Windows -> Record]
        /\ told \in [Windows -> Record]
    BY DEF TypeOK
  <2>2. /\ Blank([snap EXCEPT ![w] = batch[w]]) /\ Blank([batch EXCEPT ![w] = None])
        /\ Blank([told EXCEPT ![w] = batch[w]])
    BY <1>11, <2>1, BlankPut DEF WriteSnapshot, Control
  <2>3. Blank(snap)' /\ Blank(batch)' /\ Blank(told)'
    BY <1>11, <2>2 DEF WriteSnapshot, Blank
  <2>4. \A v \in Windows : batch'[v].held => batch[v].held /\ batch'[v] = batch[v]
    BY <1>0, <1>11, <2>1 DEF WriteSnapshot
  <2> QED
    BY <1>11, <2>3, <2>4 DEF WriteSnapshot, Control, Blank, Closing, Ended
<1>12. ASSUME NEW w \in Windows, Leave(w) PROVE Control'
  <2>1. Blank(snap)'
    <3>1. snap \in [Windows -> Record] /\ Blank(snap)
      BY DEF TypeOK, Control
    <3>2. Blank([snap EXCEPT ![w] = None])
      BY <3>1, BlankPut
    <3>3. snap' = snap \/ snap' = [snap EXCEPT ![w] = None]
      BY <1>12 DEF Leave
    <3> QED
      BY <3>1, <3>2, <3>3 DEF Blank
  <2> QED
    BY <1>12, <2>1 DEF Leave, Control, Blank, Closing, Ended, poller, ghosts
<1>13. CASE Crash
  BY <1>13, BlankEmpty DEF Crash, Control, Blank, Closing, NoBase, files
<1>14. CASE ClockStepsBack
  BY <1>14 DEF ClockStepsBack, Control, Blank, Closing, poller, files
<1>15. CASE Restart
  <2>1. Blank(open)'
    BY <1>0, <1>15 DEF Restart, Seed, Recoverable, Blank
  <2>2. flush' = "idle" /\ up'
    BY <1>15 DEF Restart, Control
  <2> QED
    BY <1>15, <2>1, <2>2 DEF Restart, Control, Blank, Closing, files
<1>16. ASSUME NEW w \in Windows, OthersObserve(w) PROVE Control'
  <2>1. Blank(open') /\ UNCHANGED <<now, up, base, flush, batch, files, final, told>>
    BY <1>16, OthersOpen DEF Control
  <2>2. flush = "idle"
    BY <1>16 DEF OthersObserve
  <2> QED
    BY <2>1, <2>2 DEF Control, Blank, Closing, Ended, files
<1>17. CASE UNCHANGED vars
  BY <1>17 DEF vars, poller, files, ghosts, Control, Blank, Closing, Ended
<1> QED
  BY <1>1, <1>2, <1>3, <1>4, <1>5, <1>6, <1>7, <1>8, <1>9, <1>10, <1>11, <1>12,
     <1>13, <1>14, <1>15, <1>16, <1>17 DEF Next
-----------------------------------------------------------------------------
\* Coverage.

\* The part of a window before an instant grows with the instant, to the window.
LEMMA ClipGrows ==
  ASSUME NEW w \in Windows, NEW d \in Nat, NEW e \in Nat, d =< e
  PROVE  /\ Clip(w, d) \in Nat /\ Clip(w, e) \in Nat
         /\ Clip(w, d) =< Clip(w, e) /\ Clip(w, e) =< Length
<1>1. w \in Nat
  BY WindowsFinite
<1>2. WindowStart(w) \in Nat /\ WindowEnd(w) = WindowStart(w) + Length
  BY <1>1, WindowBounds
<1> QED
  BY <1>2, UsageAssumption, SMT DEF Clip, Lesser

\* The edges a record is behind are instants.
LEMMA EdgeType ==
  ASSUME TypeOK
  PROVE  LifeEdge \in Nat /\ stat.at \in Nat /\ stat.start \in Nat
         /\ (base.at # -1 => base.at \in Nat)
<1>1. stat.at \in Nat /\ stat.start \in Nat /\ (base.at # -1 => base.at \in Nat)
  BY SMT DEF TypeOK
<1> QED
  BY <1>1 DEF LifeEdge

\* Records move between the tables, and change in none; a fresh one may open.
Moves ==
  \A w \in Windows :
    /\ open'[w] \in {None, Fresh, open[w], snap[w]}
    /\ batch'[w] \in {None, open[w], batch[w]}
    /\ snap'[w] \in {None, snap[w], batch[w]}
    /\ final'[w] \in {final[w], batch[w]}

\* Every step but a poll that takes a sample moves records only.
LEMMA StepMoves ==
  ASSUME TypeOK, Control, [Next]_vars, ~(\E known \in BOOLEAN : Poll(known))
  PROVE  Moves
<1>0. \A w \in Windows : Empty[w] = None
  BY DEF Empty
<1>1. CASE Tick \/ ContainerRestart \/ PollMissed \/ ClockStepsBack \/ UNCHANGED vars
  BY <1>1 DEF Tick, ContainerRestart, PollMissed, ClockStepsBack, vars, Moves, files, ghosts, poller
<1>2. CASE FlushClose
  BY <1>2 DEF FlushClose, Moves, files, ghosts
<1>3. CASE CloseFails
  BY <1>0, <1>3 DEF CloseFails, Moves, files
<1>4. CASE RemoveSnapshot
  <2>1. \A w \in Windows : snap'[w] \in {None, snap[w]}
    BY <1>4 DEF RemoveSnapshot, TypeOK
  <2> QED
    BY <1>4, <2>1 DEF RemoveSnapshot, Moves, ghosts
<1>5. CASE FlushSnapshots
  BY <1>0, <1>5 DEF FlushSnapshots, Moves, files, ghosts
<1>6. CASE FlushEnds
  BY <1>0, <1>6 DEF FlushEnds, Moves, files, ghosts
<1>7. ASSUME NEW w \in Windows, WriteClosed(w) PROVE Moves
  <2>1. \A v \in Windows : final'[v] \in {final[v], batch[v]} /\ batch'[v] \in {None, batch[v]}
    BY <1>7 DEF WriteClosed, TypeOK
  <2> QED
    BY <1>7, <2>1 DEF WriteClosed, Moves
<1>8. ASSUME NEW w \in Windows, WriteSnapshot(w) PROVE Moves
  <2>1. \A v \in Windows : snap'[v] \in {snap[v], batch[v]} /\ batch'[v] \in {None, batch[v]}
    BY <1>8 DEF WriteSnapshot, TypeOK
  <2> QED
    BY <1>8, <2>1 DEF WriteSnapshot, Moves
<1>9. ASSUME NEW w \in Windows, Leave(w) PROVE Moves
  <2>1. \A v \in Windows : snap'[v] \in {None, snap[v]}
    BY <1>9 DEF Leave, TypeOK
  <2> QED
    BY <1>9, <2>1 DEF Leave, Moves, poller, ghosts
<1>10. CASE Crash
  BY <1>0, <1>10 DEF Crash, Moves, files
<1>11. CASE Restart
  BY <1>11 DEF Restart, Seed, Moves, files
<1>12. ASSUME NEW w \in Windows, OthersObserve(w) PROVE Moves
  <2>1. (\A v \in Windows : open'[v] \in {Fresh, open[v]}) /\ UNCHANGED <<batch, files, final>>
    BY <1>12, OthersOpen DEF Control
  <2> QED
    BY <2>1 DEF Moves, files
<1> QED
  BY <1>1, <1>2, <1>3, <1>4, <1>5, <1>6, <1>7, <1>8, <1>9, <1>10, <1>11, <1>12 DEF Next

\* No step takes an edge back, unless the clock steps back: what is behind stays
\* behind.
LEMMA EdgesAdvance ==
  ASSUME TypeOK, Control, Coverage, [Next]_vars, TypeOK', ~again'
  PROVE  /\ ~again /\ Clock'
         /\ \A w \in Windows : \A c \in Nat : Within(c, w) => Within(c, w)'
<1>1. ~again
  BY DEF Next, vars, ghosts, Tick, ContainerRestart, Poll, PollMissed, FlushClose, CloseFails,
         RemoveSnapshot, FlushSnapshots, FlushEnds, WriteClosed, WriteSnapshot, Leave, Crash,
         ClockStepsBack, Restart, OthersObserve
<1>2. Clock
  BY <1>1 DEF Coverage
<1>3. /\ now \in Nat /\ ctr.start \in Nat /\ stat.start \in Nat /\ stat.at \in Nat
      /\ DOMAIN ctr = {"start", "count"}
  BY DEF TypeOK
<1>4. LifeEdge \in Nat /\ LifeEdge' \in Nat /\ (base.at # -1 => base.at \in Nat)
      /\ (base'.at # -1 => base'.at \in Nat)
  <2>1. stat'.at \in Nat /\ stat'.start \in Nat /\ (base'.at # -1 => base'.at \in Nat)
    BY SMT DEF TypeOK
  <2> QED
    BY <2>1, EdgeType DEF LifeEdge
<1> DEFINE Ahead == /\ Clock'
                    /\ LifeEdge =< LifeEdge'
                    /\ base'.at # -1 => \/ base.at # -1 /\ base.at =< base'.at
                                        \/ LifeEdge =< base'.at
<1>5. SUFFICES Ahead
  <2> SUFFICES ASSUME NEW w \in Windows, NEW c \in Nat, Within(c, w),
                      LifeEdge =< LifeEdge',
                      base'.at # -1 => \/ base.at # -1 /\ base.at =< base'.at
                                       \/ LifeEdge =< base'.at
               PROVE  Within(c, w)'
    BY <1>1
  <2>1. c =< Clip(w, LifeEdge')
    <3>1. Clip(w, LifeEdge) \in Nat /\ Clip(w, LifeEdge') \in Nat /\ Clip(w, LifeEdge) =< Clip(w, LifeEdge')
      BY <1>4, ClipGrows
    <3> QED
      BY <3>1 DEF Within
  <2>2. ASSUME base'.at # -1 PROVE c =< Clip(w, base'.at)
    <3>1. CASE base.at # -1 /\ base.at =< base'.at
      <4>1. /\ Clip(w, base.at) \in Nat /\ Clip(w, base'.at) \in Nat
            /\ Clip(w, base.at) =< Clip(w, base'.at)
        BY <1>4, <2>2, <3>1, ClipGrows
      <4> QED
        BY <3>1, <4>1 DEF Within
    <3>2. CASE LifeEdge =< base'.at
      <4>1. /\ Clip(w, LifeEdge) \in Nat /\ Clip(w, base'.at) \in Nat
            /\ Clip(w, LifeEdge) =< Clip(w, base'.at)
        BY <1>4, <2>2, <3>2, ClipGrows
      <4> QED
        BY <4>1 DEF Within
    <3> QED
      BY <2>2, <3>1, <3>2
  <2>3. Clip(w, LifeEdge') = Clip(w, LifeEdge)' /\ Clip(w, base'.at) = Clip(w, base.at)'
    BY DEF Clip
  <2> QED
    BY <2>1, <2>2, <2>3 DEF Within
<1>6. CASE Tick
  <2>1. PICK fresh \in BOOLEAN :
          stat' = IF fresh THEN [at |-> now + 1, count |-> ctr'.count, start |-> ctr.start] ELSE stat
    BY <1>6 DEF Tick
  <2>2. now' = now + 1 /\ ctr'.start = ctr.start /\ base' = base /\ lives' = lives
    BY <1>3, <1>6 DEF Tick, ghosts
  <2>3. CASE stat' = stat
    BY <1>2, <1>3, <1>4, <2>2, <2>3 DEF Clock, LifeEdge
  <2>4. CASE stat' = [at |-> now + 1, count |-> ctr'.count, start |-> ctr.start]
    <3>1. stat'.at = now + 1 /\ stat'.start = ctr.start
      BY <2>4
    <3>2. Clock'
      BY <1>2, <1>3, <2>2, <3>1 DEF Clock
    <3>3. LifeEdge =< LifeEdge'
      BY <1>2, <1>3, <2>2, <3>1 DEF Clock, LifeEdge
    <3> QED
      BY <1>4, <2>2, <3>2, <3>3
  <2> QED
    BY <2>1, <2>3, <2>4
<1>7. ASSUME NEW known \in BOOLEAN, Poll(known) PROVE Ahead
  <2>1. UNCHANGED <<now, ctr, stat>> /\ base' = Baseline
    BY <1>7, BaselineSet DEF Poll
  <2>2. Clock' /\ LifeEdge =< stat.at
    BY <1>2, <1>3, <2>1 DEF Clock, LifeEdge
  <2>3. LifeEdge =< LifeEdge'
    BY <1>2, <1>3, <1>7, <2>1, <2>2 DEF Poll, LifeEdge, Clock
  <2>4. CASE IsStale
    <3>1. base'.at = base.at
      BY <2>1, <2>4 DEF Baseline, TypeOK
    <3> QED
      BY <1>4, <2>2, <2>3, <3>1
  <2>5. CASE ~IsStale
    <3>1. base'.at = stat.at
      BY <2>1, <2>5 DEF Baseline
    <3> QED
      BY <2>2, <2>3, <3>1
  <2> QED
    BY <2>4, <2>5
<1>8. CASE PollMissed
  <2>1. UNCHANGED <<now, ctr, stat, lives>> /\ (base' = base \/ base' = NoBase)
    BY <1>8, BaselineSet DEF PollMissed, ghosts
  <2> QED
    BY <1>2, <1>4, <2>1 DEF Clock, LifeEdge, NoBase
<1>9. CASE ContainerRestart
  <2>1. UNCHANGED <<now, stat, lives, base>> /\ ctr'.start = now
    BY <1>9 DEF ContainerRestart, poller
  <2> QED
    BY <1>2, <1>3, <1>4, <2>1 DEF Clock, LifeEdge
<1>10. CASE Crash
  <2>1. UNCHANGED <<now, ctr, stat, lives>> /\ base' = NoBase
    BY <1>10 DEF Crash
  <2> QED
    BY <1>2, <1>4, <2>1 DEF Clock, LifeEdge, NoBase
<1>11. CASE UNCHANGED <<now, ctr, stat, lives, base>>
  BY <1>2, <1>4, <1>11 DEF Clock, LifeEdge
<1>12. ~ClockStepsBack
  BY DEF ClockStepsBack
<1> QED
  BY <1>6, <1>7, <1>8, <1>9, <1>10, <1>11, <1>12
     DEF Next, vars, poller, ghosts, FlushClose, CloseFails,
         RemoveSnapshot, FlushSnapshots, FlushEnds, WriteClosed, WriteSnapshot, Leave, Restart,
         OthersObserve

\* A step keeps what the records cover below the instant the next delta starts
\* from: an interval is added only from there on.
LEMMA CoverageStep ==
  ASSUME TypeOK, Control, Coverage, [Next]_vars, TypeOK'
  PROVE  Coverage'
<1> SUFFICES ASSUME ~again'
             PROVE  (Clock /\ Behind(open) /\ Behind(batch) /\ Behind(snap) /\ Behind(final))'
  BY DEF Coverage
<1>0. /\ open \in [Windows -> Record] /\ Blank(open) /\ stat.count \in Nat
      /\ stat.at =< MaxTime
  BY SMT DEF TypeOK, Control
<1>1. /\ ~again /\ Clock'
      /\ \A w \in Windows : \A c \in Nat : Within(c, w) => Within(c, w)'
  BY EdgesAdvance
<1>2. Clock /\ Behind(open) /\ Behind(batch) /\ Behind(snap) /\ Behind(final)
  BY <1>1 DEF Coverage
<1>3. \A w \in Windows : /\ open[w].covered \in Nat /\ batch[w].covered \in Nat
                         /\ snap[w].covered \in Nat /\ final[w].covered \in Nat
  BY DEF TypeOK, Record
<1>4. LifeEdge \in Nat /\ stat.at \in Nat /\ stat.start \in Nat /\ (base.at # -1 => base.at \in Nat)
  BY EdgeType
<1>5. \A w \in Windows : Within(None.covered, w)' /\ Within(Fresh.covered, w)'
  <2> SUFFICES ASSUME NEW w \in Windows PROVE Within(None.covered, w)' /\ Within(Fresh.covered, w)'
    OBVIOUS
  <2>1. Within(0, w)
    <3>1. Clip(w, LifeEdge) \in Nat /\ (base.at # -1 => Clip(w, base.at) \in Nat)
      BY <1>4, ClipGrows
    <3> QED
      BY <3>1, SMT DEF Within
  <2>2. None.covered = 0 /\ Fresh.covered = 0
    BY DEF None, Fresh
  <2> QED
    BY <1>1, <2>1, <2>2
<1>6. ASSUME Moves
      PROVE  (Behind(open) /\ Behind(batch) /\ Behind(snap) /\ Behind(final))'
  <2> SUFFICES ASSUME NEW w \in Windows
               PROVE  /\ Within(open[w].covered, w)' /\ Within(batch[w].covered, w)'
                      /\ Within(snap[w].covered, w)' /\ Within(final[w].covered, w)'
    BY DEF Behind
  <2>1. /\ open'[w] \in {None, Fresh, open[w], snap[w]}
        /\ batch'[w] \in {None, open[w], batch[w]}
        /\ snap'[w] \in {None, snap[w], batch[w]}
        /\ final'[w] \in {final[w], batch[w]}
    BY <1>6 DEF Moves
  <2>2. \A r \in {None, Fresh, open[w], batch[w], snap[w], final[w]} : Within(r.covered, w)'
    BY <1>1, <1>2, <1>3, <1>5 DEF Behind
  <2> QED
    BY <2>1, <2>2 DEF Within
<1>7. ASSUME NEW known \in BOOLEAN, Poll(known)
      PROVE  (Behind(open) /\ Behind(batch) /\ Behind(snap) /\ Behind(final))'
  <2>1. UNCHANGED <<batch, snap, final, stat>> /\ open' = Taken(known) /\ base' = Baseline
    BY <1>7, BaselineSet DEF Poll, files
  <2>2. (Behind(batch) /\ Behind(snap) /\ Behind(final))'
    BY <1>1, <1>2, <1>3, <2>1 DEF Behind, Within
  <2>3. CASE ~FromStart(known) /\ ~IsDelta
    <3>1. open' = open
      BY <2>1, <2>3 DEF Taken
    <3> QED
      BY <1>1, <1>2, <1>3, <2>2, <3>1 DEF Behind, Within
  <2>4. ASSUME Below(open', stat.at), stat.start \in lives', base'.at = stat.at
        PROVE  Behind(open)'
    <3>1. LifeEdge' = stat.at
      BY <2>1, <2>4 DEF LifeEdge
    <3>2. \A w \in Windows : open'[w].covered =< Clip(w, stat.at)
      BY <2>4 DEF Below
    <3> QED
      BY <2>1, <2>4, <3>1, <3>2 DEF Behind, Within, Clip
  <2>5. CASE FromStart(known)
    <3>1. stat.start \notin lives /\ stat.start \in lives' /\ ~IsStale /\ ~IsDelta
      BY <1>7, <2>5 DEF Poll, FromStart, attributableFromStart, IsFirst, IsStale, IsDelta
    <3>2. base'.at = stat.at
      BY <2>1, <3>1 DEF Baseline
    <3>3. Below(open, stat.start)
      BY <1>2, <3>1 DEF Behind, Within, Below, LifeEdge
    <3>4. open' = Observe(stat.start, stat.at, stat.count)
      BY <2>1, <2>5 DEF Taken
    <3>5. Below(open', stat.at)
      <4>1. CASE stat.start < stat.at
        <5>1. Below(Observe(stat.start, stat.at, stat.count), stat.at)
          BY <1>0, <1>4, <3>3, <4>1, ObserveBelow
        <5> QED
          BY <3>4, <5>1
      <4>2. CASE stat.at = stat.start
        <5>1. open' = open
          <6>1. stat.at =< stat.start
            BY <1>4, <4>2
          <6> QED
            BY <3>4, <6>1, Zenon DEF Observe
        <5> QED
          BY <3>3, <4>2, <5>1
      <4> QED
        BY <1>2, <1>4, <4>1, <4>2 DEF Clock
    <3> QED
      BY <2>2, <2>4, <3>1, <3>2, <3>5
  <2>6. CASE ~FromStart(known) /\ IsDelta
    <3>1. /\ base.at # -1 /\ base.at < stat.at /\ base.count =< stat.count /\ ~IsStale
          /\ stat.start \in lives'
      BY <1>4, <1>7, <2>6, SMT DEF Poll, IsDelta, IsFirst, IsStale, IsReset, TypeOK
    <3>2. base'.at = stat.at
      BY <2>1, <3>1 DEF Baseline
    <3>3. Below(open, base.at)
      BY <1>2, <3>1 DEF Behind, Within, Below
    <3>4. open' = Observe(base.at, stat.at, stat.count - base.count)
      BY <2>1, <2>6 DEF Taken
    <3>5. /\ base.at \in 0 .. MaxTime /\ stat.at \in 0 .. MaxTime
          /\ stat.count - base.count \in Nat
      BY <3>1, SMT DEF TypeOK
    <3>6. Below(open', stat.at)
      <4>1. Below(Observe(base.at, stat.at, stat.count - base.count), stat.at)
        BY <1>0, <1>4, <3>1, <3>3, <3>5, ObserveBelow
      <4> QED
        BY <3>4, <4>1
    <3> QED
      BY <2>2, <2>4, <3>1, <3>2, <3>6
  <2> QED
    BY <2>3, <2>5, <2>6
<1> QED
  BY <1>1, <1>6, <1>7, StepMoves
-----------------------------------------------------------------------------
\* Late samples and snapshots.

\* A record for a window that has a closed record is open, or about to be
\* written, only if the window is marked late.
LEMMA LatenessStep ==
  ASSUME TypeOK, Control, Lateness, [Next]_vars
  PROVE  Lateness'
<1>0. (\A w \in Windows : Empty[w] = None) /\ None.held = FALSE
  BY DEF Empty, None
<1>1. CASE Tick \/ ContainerRestart \/ PollMissed \/ ClockStepsBack \/ UNCHANGED vars
  BY <1>1 DEF Tick, ContainerRestart, PollMissed, ClockStepsBack, vars, Lateness, Closing,
              files, ghosts, poller
<1>2. ASSUME NEW known \in BOOLEAN, Poll(known) PROVE Lateness'
  BY <1>2 DEF Poll, Lateness, Closing
<1>3. CASE FlushClose
  BY <1>0, <1>3 DEF FlushClose, Lateness, Closing, ghosts
<1>4. CASE CloseFails \/ RemoveSnapshot \/ FlushSnapshots \/ FlushEnds
  BY <1>0, <1>4 DEF CloseFails, RemoveSnapshot, FlushSnapshots, FlushEnds, Lateness, Closing, ghosts
<1>5. ASSUME NEW w \in Windows, WriteClosed(w) PROVE Lateness'
  <2>1. final \in [Windows -> Record] /\ batch \in [Windows -> Record]
    BY DEF TypeOK
  <2>2. Closing /\ UNCHANGED <<open, late>>
    BY <1>5 DEF WriteClosed, Closing
  <2>3. ~open[w].held /\ ~batch'[w].held
    BY <1>0, <1>5, <2>1 DEF WriteClosed, Control, Closing
  <2>4. \A v \in Windows : v # w => final'[v] = final[v] /\ batch'[v] = batch[v]
    BY <1>5, <2>1 DEF WriteClosed
  <2> QED
    BY <2>2, <2>3, <2>4 DEF Lateness
<1>6. ASSUME NEW w \in Windows, WriteSnapshot(w) PROVE Lateness'
  BY <1>6 DEF WriteSnapshot, Lateness, Closing
<1>7. ASSUME NEW w \in Windows, Leave(w) PROVE Lateness'
  BY <1>7 DEF Leave, Lateness, Closing, poller, ghosts
<1>8. CASE Crash
  BY <1>0, <1>8 DEF Crash, Lateness, Closing
<1>9. CASE Restart
  <2>1. flush' = "idle"
    BY <1>9 DEF Restart, Control
  <2>2. \A w \in Windows : open'[w].held => Recoverable(w)
    BY <1>0, <1>9 DEF Restart, Seed
  <2> QED
    BY <1>9, <2>1, <2>2 DEF Restart, Recoverable, Lateness, Closing
<1>10. ASSUME NEW w \in Windows, OthersObserve(w) PROVE Lateness'
  <2>1. /\ UNCHANGED <<flush, batch, final>> /\ late \subseteq late'
        /\ \A v \in Windows : open'[v].held /\ final[v].held => open[v].held \/ v \in late'
    BY <1>10, OthersOpen DEF Control
  <2> QED
    BY <2>1 DEF Lateness, Closing
<1> QED
  BY <1>1, <1>2, <1>3, <1>4, <1>5, <1>6, <1>7, <1>8, <1>9, <1>10 DEF Next

\* An open window holds at least what its last snapshot told, unless a restart
\* did not find that snapshot.
LEMMA GrowthStep ==
  ASSUME TypeOK, Control, Growth, [Next]_vars, TypeOK'
  PROVE  Growth'
<1>0. (\A w \in Windows : Empty[w] = None) /\ None.held = FALSE
  BY DEF Empty, None
<1>1. \A w \in Windows : told[w].amount \in Nat /\ told[w].samples \in Nat
                         /\ open[w].amount \in Nat /\ open[w].samples \in Nat
  BY DEF TypeOK, Record
<1>2. CASE Tick
  <2>1. \A w \in Windows : Ended(w) => Ended(w)'
    <3>1. \A w \in Windows : WindowEnd(w) \in Nat
      BY WindowsFinite, WindowBounds
    <3> QED
      BY <1>2, <3>1, SMT DEF Tick, Ended, TypeOK
  <2> QED
    BY <1>2, <2>1 DEF Tick, Growth, ghosts
<1>3. CASE ContainerRestart \/ PollMissed \/ CloseFails \/ RemoveSnapshot \/ FlushSnapshots
           \/ FlushEnds \/ UNCHANGED vars
  BY <1>3 DEF ContainerRestart, PollMissed, CloseFails, RemoveSnapshot, FlushSnapshots, FlushEnds,
              vars, Growth, Ended, ghosts, poller
<1>4. ASSUME NEW known \in BOOLEAN, Poll(known) PROVE Growth'
  <2>1. open' = Taken(known) /\ UNCHANGED <<told, gone, up, now>>
    BY <1>4 DEF Poll
  <2>2. \A w \in Windows : /\ open[w].held => open'[w].held
                           /\ open[w].amount =< open'[w].amount
                           /\ open[w].samples =< open'[w].samples
    BY <2>1, TakenGrows DEF Control
  <2>3. \A w \in Windows : open'[w].amount \in Nat /\ open'[w].samples \in Nat
    BY DEF TypeOK, Record
  <2>4. \A a, b, c \in Nat : a =< b /\ b =< c => a =< c
    BY SMT
  <2> QED
    BY <1>1, <2>1, <2>2, <2>3, <2>4 DEF Growth, Ended
<1>5. CASE FlushClose
  BY <1>5 DEF FlushClose, Growth, Ended, ghosts
<1>6. ASSUME NEW w \in Windows, WriteClosed(w) PROVE Growth'
  BY <1>6 DEF WriteClosed, Growth, Ended
<1>7. ASSUME NEW w \in Windows, WriteSnapshot(w) PROVE Growth'
  <2>1. told'[w] = open[w] /\ open[w].held
    BY <1>7 DEF WriteSnapshot, TypeOK, Control
  <2>2. \A v \in Windows : v # w => told'[v] = told[v]
    BY <1>7 DEF WriteSnapshot, TypeOK
  <2>3. open[w].amount =< open[w].amount /\ open[w].samples =< open[w].samples
    BY <1>1
  <2> QED
    BY <1>7, <2>1, <2>2, <2>3 DEF WriteSnapshot, Growth, Ended
<1>8. ASSUME NEW w \in Windows, Leave(w) PROVE Growth'
  BY <1>8 DEF Leave, Growth, Ended, poller, ghosts
<1>9. CASE Crash
  BY <1>9 DEF Crash, Growth
<1>10. CASE ClockStepsBack
  BY <1>10 DEF ClockStepsBack, Growth
<1>11. CASE Restart
  <2> SUFFICES ASSUME NEW w \in Windows \ gone', told'[w].held
               PROVE  /\ open'[w].held
                      /\ told'[w].amount =< open'[w].amount
                      /\ told'[w].samples =< open'[w].samples
    BY DEF Growth
  <2>1. told' = told
    BY <1>11 DEF Restart
  <2>2. Recoverable(w) /\ snap[w] = told[w]
    BY <1>11, <2>1 DEF Restart
  <2>3. open'[w] = told[w]
    BY <1>11, <2>2 DEF Restart, Seed
  <2> QED
    BY <1>1, <2>1, <2>3
<1>12. ASSUME NEW w \in Windows, OthersObserve(w) PROVE Growth'
  <2>1. /\ UNCHANGED <<now, up, told, gone>>
        /\ \A v \in Windows : /\ open[v].held => open'[v] = open[v]
                              /\ open'[v].amount = open[v].amount
                              /\ open'[v].samples = open[v].samples
    BY <1>12, OthersOpen DEF Control
  <2> QED
    BY <2>1 DEF Growth, Ended
<1> QED
  BY <1>2, <1>3, <1>4, <1>5, <1>6, <1>7, <1>8, <1>9, <1>10, <1>11, <1>12 DEF Next
-----------------------------------------------------------------------------
\* Exact totals.

\* What a table holds is an integer, and the empty one holds nothing.
LEMMA SumType ==
  ASSUME NEW f \in [Windows -> Record]
  PROVE  /\ Sum(f) \in Int /\ Sum(Empty) = 0
         /\ \A w \in Windows : f[w].amount \in Int
<1> DEFINE a == [w \in Windows |-> f[w].amount]
           z == [w \in Windows |-> Empty[w].amount]
<1>1. \A w \in Windows : f[w].amount \in Int
  BY SMT DEF Record
<1>2. \A w \in Windows : a[w] \in Int
  BY <1>1
<1>3. \A w \in Windows : z[w] = 0
  BY DEF Empty, None
<1>4. IsFiniteSet(Windows)
  BY WindowsFinite
<1>5. Sum(f) = SumFunctionOnSet(a, Windows) /\ Sum(Empty) = SumFunctionOnSet(z, Windows)
  BY DEF Sum
<1> HIDE DEF a, z
<1>6. SumFunctionOnSet(a, Windows) \in Int
  BY <1>2, <1>4, SumInt
<1>7. SumFunctionOnSet(z, Windows) = 0
  BY <1>3, <1>4, SumZero
<1> QED
  BY <1>1, <1>5, <1>6, <1>7

\* Putting a record changes the total by the difference.
LEMMA SumPut ==
  ASSUME NEW f \in [Windows -> Record], NEW v \in Windows, NEW r \in Record
  PROVE  Sum([f EXCEPT ![v] = r]) = Sum(f) + (r.amount - f[v].amount)
<1> DEFINE g == [f EXCEPT ![v] = r]
           a == [w \in Windows |-> f[w].amount]
           b == [w \in Windows |-> g[w].amount]
<1>1. g \in [Windows -> Record] /\ g[v] = r /\ \A w \in Windows : w # v => g[w] = f[w]
  OBVIOUS
<1>2. \A w \in Windows : f[w].amount \in Int /\ g[w].amount \in Int
  BY <1>1, SMT DEF Record
<1> HIDE DEF g
<1>3. \A w \in Windows : a[w] \in Int /\ b[w] \in Int
  BY <1>2
<1>4. \A w \in Windows : w # v => a[w] = b[w]
  BY <1>1
<1>5. a[v] = f[v].amount /\ b[v] = r.amount
  BY <1>1
<1>6. Sum(f) = SumFunctionOnSet(a, Windows) /\ Sum(g) = SumFunctionOnSet(b, Windows)
  BY DEF Sum
<1>7. IsFiniteSet(Windows)
  BY WindowsFinite
<1> HIDE DEF a, b
<1>8. SumFunctionOnSet(b, Windows) = SumFunctionOnSet(a, Windows) + (b[v] - a[v])
  BY <1>3, <1>4, <1>7, SumChange
<1>9. Sum(g) = Sum(f) + (r.amount - f[v].amount)
  BY <1>5, <1>6, <1>8
<1> QED
  BY <1>9 DEF g

\* CloseBefore splits the table, and the total with it.
LEMMA SumSplit ==
  ASSUME NEW f \in [Windows -> Record], NEW g \in [Windows -> Record],
         NEW h \in [Windows -> Record],
         \A w \in Windows : (g[w] = None /\ h[w] = f[w]) \/ (g[w] = f[w] /\ h[w] = None)
  PROVE  Sum(f) = Sum(g) + Sum(h)
<1> DEFINE a == [w \in Windows |-> f[w].amount]
           b == [w \in Windows |-> g[w].amount]
           c == [w \in Windows |-> h[w].amount]
<1>1. \A w \in Windows : f[w].amount \in Int /\ g[w].amount \in Int /\ h[w].amount \in Int
  BY SMT DEF Record
<1>2. \A w \in Windows : f[w].amount = g[w].amount + h[w].amount
  <2> SUFFICES ASSUME NEW w \in Windows PROVE f[w].amount = g[w].amount + h[w].amount
    OBVIOUS
  <2>1. None.amount = 0
    BY DEF None
  <2>2. \/ g[w].amount = 0 /\ h[w].amount = f[w].amount
        \/ g[w].amount = f[w].amount /\ h[w].amount = 0
    BY <2>1
  <2> QED
    BY <1>1, <2>2, SMT
<1>3. \A w \in Windows : b[w] \in Int /\ c[w] \in Int /\ a[w] = b[w] + c[w]
  BY <1>1, <1>2
<1>4. /\ Sum(f) = SumFunctionOnSet(a, Windows) /\ Sum(g) = SumFunctionOnSet(b, Windows)
      /\ Sum(h) = SumFunctionOnSet(c, Windows)
  BY DEF Sum
<1>5. IsFiniteSet(Windows)
  BY WindowsFinite
<1> HIDE DEF a, b, c
<1>6. ASSUME NEW i, NEW j, NEW k, \A w \in Windows : i[w] \in Int /\ j[w] \in Int /\ k[w] = i[w] + j[w]
      PROVE  SumFunctionOnSet(k, Windows) = SumFunctionOnSet(i, Windows) + SumFunctionOnSet(j, Windows)
  BY <1>5, <1>6, SumOfSums
<1>7. SumFunctionOnSet(a, Windows) = SumFunctionOnSet(b, Windows) + SumFunctionOnSet(c, Windows)
  BY <1>3, <1>6
<1> QED
  BY <1>4, <1>7

\* While there was no fault, nothing is counted twice or dropped: the open, the
\* taken and the written records add up to the counter at the baseline.
LEMMA ExactStep ==
  ASSUME TypeOK, Control, Lateness, Exact, [Next]_vars, TypeOK'
  PROVE  Exact'
<1> SUFFICES ASSUME faults' = 0 PROVE Exact'
  BY DEF Exact
<1>0. faults = 0 /\ ~ContainerRestart /\ ~CloseFails /\ ~Crash /\ ~ClockStepsBack
  <2>1. faults \in Nat
    BY DEF TypeOK
  <2>2. faults' = faults \/ faults' = faults + 1
    BY DEF Next, vars, Tick, ContainerRestart, Poll, PollMissed, FlushClose, CloseFails,
           RemoveSnapshot, FlushSnapshots, FlushEnds, WriteClosed, WriteSnapshot, Leave, Crash,
           ClockStepsBack, Restart, OthersObserve
  <2>3. faults + 1 # 0
    BY <2>1
  <2> QED
    BY <2>1, <2>2, <2>3, SMT DEF ContainerRestart, CloseFails, Crash, ClockStepsBack
<1> DEFINE Good == ~lost /\ ~again /\ late = {}
<1>1. /\ up /\ ctr.start = 0 /\ stat.start = 0
      /\ base.count =< stat.count /\ stat.count =< ctr.count
      /\ stat.at = 0 => stat.count = 0
      /\ Good => /\ base.at # -1 => 0 \in lives
                 /\ base.at # -1 \/ 0 \notin lives => Held = base.count
  BY <1>0 DEF Exact
<1>2. /\ open \in [Windows -> Record] /\ batch \in [Windows -> Record]
      /\ final \in [Windows -> Record]
  BY DEF TypeOK
<1>3. Sum(open) \in Int /\ Sum(batch) \in Int /\ Sum(final) \in Int /\ Sum(Empty) = 0
  BY <1>2, SumType
<1>4. ASSUME UNCHANGED <<up, ctr, stat, base, lives, lost, again, late>>, Good => Held' = Held
      PROVE  Exact'
  BY <1>1, <1>4 DEF Exact
<1>5. ASSUME UNCHANGED <<up, ctr, stat, base, lives, lost, again, late>>,
             UNCHANGED <<open, final, batch, flush>>
      PROVE  Exact'
  <2>1. Held' = Held
    BY <1>5 DEF Held, Sum
  <2> QED
    BY <1>4, <1>5, <2>1
<1>6. flush = "idle" => Held = Sum(open) + Sum(final)
  <2> SUFFICES ASSUME flush = "idle" PROVE Held = Sum(open) + Sum(final)
    OBVIOUS
  <2>1. batch = Empty
    BY DEF Control
  <2>2. Held = Sum(open) + Sum(final) + 0
    BY <1>3, <2>1, Zenon DEF Held
  <2> QED
    BY <1>3, <2>2
<1>7. CASE Tick
  <2>1. PICK fresh \in BOOLEAN :
          stat' = IF fresh THEN [at |-> now + 1, count |-> ctr'.count, start |-> ctr.start] ELSE stat
    BY <1>7 DEF Tick
  <2>2. /\ ctr'.start = ctr.start /\ ctr'.count = ctr.count + Load[now + 1]
        /\ UNCHANGED <<up, base, lives, lost, again, late, open, final, batch, flush>>
    BY <1>7 DEF Tick, ghosts, TypeOK
  <2>3. /\ ctr.count \in Nat /\ stat.count \in Nat /\ base.count \in Nat /\ now \in Nat
        /\ Load[now + 1] \in Nat
    <3>1. now < MaxTime BY <1>7 DEF Tick
    <3>2. now \in 0 .. MaxTime /\ MaxTime \in Nat BY UsageAssumption DEF TypeOK
    <3>3. now \in Nat /\ now + 1 \in 1 .. MaxTime BY <3>1, <3>2
    <3> QED
      BY <3>3, UsageAssumption DEF TypeOK
  <2>4. ctr'.count \in Nat /\ ctr.count =< ctr'.count /\ now + 1 # 0
    BY <2>2, <2>3
  <2>5. Held' = Held
    BY <2>2 DEF Held, Sum
  <2>6. \/ stat' = stat
        \/ stat'.at = now + 1 /\ stat'.count = ctr'.count /\ stat'.start = ctr.start
    BY <2>1
  <2>7. /\ stat'.start = 0 /\ (stat'.at = 0 => stat'.count = 0)
        /\ base.count =< stat'.count /\ stat'.count =< ctr'.count
    BY <1>1, <2>3, <2>4, <2>6, SMT
  <2> QED
    BY <1>1, <2>2, <2>5, <2>7 DEF Exact
<1>8. ASSUME NEW known \in BOOLEAN, Poll(known) PROVE Exact'
  <2>1. /\ UNCHANGED <<up, ctr, stat, flush, batch, final>> /\ flush = "idle"
        /\ open' = Taken(known) /\ base' = Baseline
    BY <1>8, BaselineSet DEF Poll, files
  <2>2. /\ base.count \in Nat /\ stat.count \in Nat /\ stat.at \in Nat
        /\ (base.at # -1 => base.at \in Nat) /\ stat.at =< MaxTime
        /\ ~(stat.count < base.count)
    BY <1>1, SMT DEF TypeOK
  <2>3. base'.count =< stat.count
    BY <1>1, <2>1, <2>2, SMT DEF Baseline, TypeOK
  <2>4. Held' = Sum(open') + Sum(final)
    <3>1. batch' = Empty /\ flush' = "idle"
      BY <2>1 DEF Control
    <3>2. Held' = Sum(open') + Sum(final) + 0
      BY <1>3, <2>1, <3>1, Zenon DEF Held, Sum
    <3>3. Sum(open') \in Int
      BY SumType DEF TypeOK
    <3> QED
      BY <1>3, <3>2, <3>3
  <2>5. SUFFICES ASSUME Good' PROVE (base'.at # -1 => 0 \in lives') /\ Held' = base'.count
    BY <1>1, <2>1, <2>3 DEF Exact
  <2>6. Good /\ (IsFirst => FromStart(known)) /\ (FromStart(known) => 0 \notin lives)
    BY <1>1, <1>8, <2>5 DEF Poll, FromStart, attributableFromStart
  <2>7. CASE IsFirst
    <3>1. base = NoBase
      BY <2>7 DEF IsFirst, Control
    <3>2. Sum(open) + Sum(final) = 0
      BY <1>1, <1>6, <2>1, <2>6, <2>7, <3>1 DEF NoBase
    <3>3. 0 \in lives' /\ open' = Observe(0, stat.at, stat.count)
      BY <1>1, <1>8, <2>1, <2>6, <2>7 DEF Poll, Taken
    <3>4. base'.count = stat.count
      BY <2>1, <2>7 DEF Baseline, IsStale
    <3>5. Sum(open') = Sum(open) + stat.count
      <4>1. CASE 0 < stat.at
        BY <1>2, <2>2, <3>3, <4>1, ObserveSum DEF Control
      <4>2. CASE stat.at = 0
        <5>1. stat.at =< 0 /\ stat.count = 0
          BY <1>1, <4>2
        <5>2. open' = open
          BY <3>3, <5>1, Zenon DEF Observe
        <5> QED
          BY <1>3, <5>1, <5>2
      <4> QED
        BY <2>2, <4>1, <4>2
    <3>6. Held' = stat.count
      BY <1>3, <2>2, <2>4, <3>2, <3>5
    <3> QED
      BY <3>3, <3>4, <3>6
  <2>8. CASE IsStale
    <3>1. base.at # -1 /\ ~IsDelta /\ ~FromStart(known)
      BY <2>8 DEF IsStale, IsFirst, IsDelta, FromStart
    <3>2. base'.count = base.count /\ open' = open /\ lives' = lives
      BY <1>8, <2>1, <2>8, <3>1 DEF Baseline, Taken, TypeOK, Poll
    <3> QED
      BY <1>1, <1>6, <2>1, <2>4, <2>6, <3>1, <3>2
  <2>9. CASE ~IsFirst /\ ~IsStale
    <3>1. IsDelta /\ base.at # -1 /\ ~FromStart(known) /\ base.at < stat.at
      BY <2>2, <2>9 DEF IsDelta, IsReset, IsFirst, IsStale, FromStart
    <3>2. /\ 0 \in lives' /\ base'.count = stat.count
          /\ open' = Observe(base.at, stat.at, stat.count - base.count)
      BY <1>1, <1>8, <2>1, <2>9, <3>1 DEF Poll, Taken, Baseline
    <3>3. stat.count - base.count \in Nat
      BY <1>1, <2>2
    <3>4. Sum(open') = Sum(open) + (stat.count - base.count)
      BY <1>2, <2>2, <3>1, <3>2, <3>3, ObserveSum DEF Control
    <3>5. Sum(open) + Sum(final) = base.count
      BY <1>1, <1>6, <2>1, <2>6, <3>1
    <3>6. Held' = stat.count
      BY <1>3, <2>2, <2>4, <3>4, <3>5
    <3> QED
      BY <3>2, <3>6
  <2> QED
    BY <2>7, <2>8, <2>9
<1>9. CASE PollMissed
  <2>1. /\ UNCHANGED <<up, ctr, stat, lives, lost, again, late>>
        /\ UNCHANGED <<open, final, batch, flush>>
        /\ base' = base \/ base' = NoBase
    BY <1>9, BaselineSet DEF PollMissed, ghosts
  <2>2. CASE base' = base
    BY <1>5, <2>1, <2>2
  <2>3. CASE base' = NoBase
    <3>1. Held' = Held
      BY <2>1 DEF Held, Sum
    <3>2. base'.at = -1 /\ base'.count = 0 /\ stat.count \in Nat
      BY <2>3 DEF NoBase, TypeOK
    <3>3. base'.count =< stat'.count
      BY <2>1, <3>2, SMT
    <3>4. Good /\ 0 \notin lives => Held = 0
      BY <1>1 DEF Control, NoBase
    <3> QED
      BY <1>1, <2>1, <3>1, <3>2, <3>3, <3>4 DEF Exact
  <2> QED
    BY <2>1, <2>2, <2>3
<1>10. CASE FlushClose
  <2>1. /\ UNCHANGED <<up, ctr, stat, base, lives, lost, again, late, final>>
        /\ flush = "idle" /\ flush' = "closing"
        /\ \A w \in Windows : \/ open'[w] = None /\ batch'[w] = open[w]
                              \/ open'[w] = open[w] /\ batch'[w] = None
    BY <1>10 DEF FlushClose, ghosts
  <2>2. open' \in [Windows -> Record] /\ batch' \in [Windows -> Record]
    BY DEF TypeOK
  <2>3. Sum(open) = Sum(open') + Sum(batch') /\ Sum(open') \in Int /\ Sum(batch') \in Int
    BY <1>2, <2>1, <2>2, SumSplit, SumType
  <2>4. Held' = Sum(open') + Sum(final) + Sum(batch')
    BY <2>1 DEF Held, Sum
  <2>5. Held' = Held
    BY <1>3, <1>6, <2>1, <2>3, <2>4
  <2> QED
    BY <1>4, <2>1, <2>5
<1>11. ASSUME NEW w \in Windows, WriteClosed(w) PROVE Exact'
  <2>1. /\ UNCHANGED <<up, ctr, stat, base, lives, lost, again, late, open>>
        /\ flush = "closing" /\ flush' # "snapshots" /\ batch[w].held
        /\ final' = [final EXCEPT ![w] = batch[w]] /\ batch' = [batch EXCEPT ![w] = None]
    BY <1>11 DEF WriteClosed
  <2>2. SUFFICES ASSUME Good PROVE Held' = Held
    BY <1>4, <2>1
  <2>3. final[w].amount = 0
    BY <2>1, <2>2 DEF Lateness, Closing, Control, Blank, None
  <2>4. None \in Record /\ None.amount = 0 /\ batch[w] \in Record /\ batch[w].amount \in Int
    BY <1>2, SumType, SMT DEF None, Record
  <2>5. Sum(final') = Sum(final) + (batch[w].amount - final[w].amount)
    BY <1>2, <2>1, <2>4, SumPut
  <2>6. Sum(batch') = Sum(batch) + (None.amount - batch[w].amount)
    BY <1>2, <2>1, <2>4, SumPut
  <2>7. /\ Held' = Sum(open) + Sum(final') + Sum(batch')
        /\ Held = Sum(open) + Sum(final) + Sum(batch)
    BY <2>1 DEF Held, Sum
  <2> QED
    BY <1>3, <2>3, <2>4, <2>5, <2>6, <2>7, SMT
<1>12. CASE RemoveSnapshot
  <2>1. /\ UNCHANGED <<up, ctr, stat, base, lives, lost, again, late, open, final, batch>>
        /\ flush = "removing" /\ flush' = "closing"
    BY <1>12 DEF RemoveSnapshot, ghosts
  <2>2. Held' = Held
    BY <2>1 DEF Held, Sum
  <2> QED
    BY <1>4, <2>1, <2>2
<1>13. CASE FlushSnapshots
  <2>1. /\ UNCHANGED <<up, ctr, stat, base, lives, lost, again, late, open, final>>
        /\ flush = "closing" /\ flush' = "snapshots" /\ batch = Empty
    BY <1>13 DEF FlushSnapshots, ghosts
  <2>2. Held' = Sum(open) + Sum(final) + 0 /\ Held = Sum(open) + Sum(final) + Sum(Empty)
    BY <2>1 DEF Held, Sum
  <2> QED
    BY <1>3, <1>4, <2>1, <2>2
<1>14. CASE FlushEnds
  <2>1. /\ UNCHANGED <<up, ctr, stat, base, lives, lost, again, late, open, final>>
        /\ flush = "snapshots" /\ flush' = "idle" /\ batch' = Empty
    BY <1>14 DEF FlushEnds, ghosts
  <2>2. Held' = Sum(open) + Sum(final) + Sum(Empty) /\ Held = Sum(open) + Sum(final) + 0
    BY <2>1 DEF Held, Sum, Empty
  <2> QED
    BY <1>3, <1>4, <2>1, <2>2
<1>15. ASSUME NEW w \in Windows, WriteSnapshot(w) PROVE Exact'
  <2>1. /\ UNCHANGED <<up, ctr, stat, base, lives, lost, again, late, open, final, flush>>
        /\ flush = "snapshots"
    BY <1>15 DEF WriteSnapshot
  <2>2. Held' = Held
    BY <2>1 DEF Held, Sum
  <2> QED
    BY <1>4, <2>1, <2>2
<1>16. ASSUME NEW w \in Windows, Leave(w) PROVE Exact'
  BY <1>5, <1>16 DEF Leave, poller, ghosts
<1>17. ~Restart
  BY <1>1 DEF Restart
<1>18. CASE UNCHANGED vars
  BY <1>5, <1>18 DEF vars, poller, ghosts
<1>19. ASSUME NEW w \in Windows, OthersObserve(w) PROVE Exact'
  <2>1. /\ UNCHANGED <<up, ctr, stat, base, lives, lost, again, final, batch, flush>>
        /\ late \subseteq late' /\ \A v \in Windows : open'[v].amount = open[v].amount
    BY <1>19, OthersOpen DEF Control
  <2>2. [v \in Windows |-> open'[v].amount] = [v \in Windows |-> open[v].amount]
    BY <2>1
  <2>3. Held' = Held
    BY <2>1, <2>2 DEF Held, Sum
  <2>4. Good' => Good
    BY <2>1
  <2> QED
    BY <1>1, <2>1, <2>3, <2>4 DEF Exact
<1> QED
  BY <1>0, <1>7, <1>8, <1>9, <1>10, <1>11, <1>12, <1>13, <1>14, <1>15, <1>16, <1>17, <1>18, <1>19
     DEF Next
-----------------------------------------------------------------------------
\* The invariant and the theorems.

\* The program starts with no record, no baseline and no fault.
LEMMA InitIInv == Init => IInv
<1> SUFFICES ASSUME Init PROVE IInv
  OBVIOUS
<1>1. TypeOK
  BY InitType
<1>2. (\A w \in Windows : Empty[w] = None) /\ None.held = FALSE /\ None.covered = 0
  BY DEF Empty, None
<1>3. /\ open = Empty /\ batch = Empty /\ snap = Empty /\ final = Empty /\ told = Empty
      /\ flush = "idle" /\ base = NoBase /\ up = TRUE /\ lives = {} /\ lost = FALSE
      /\ stat = [at |-> 0, count |-> 0, start |-> 0] /\ ctr = [start |-> 0, count |-> 0] /\ now = 0
  BY DEF Init
<1>4. Control
  BY <1>3, BlankEmpty DEF Control, Closing
<1>5. Coverage
  <2>1. Clock
    BY <1>3, SMT DEF Clock
  <2>2. \A w \in Windows : Within(0, w)
    <3>1. \A w \in Windows : Clip(w, LifeEdge) \in Nat
      BY <1>1, EdgeType, ClipGrows
    <3>2. base.at = -1
      BY <1>3 DEF NoBase
    <3> QED
      BY <3>1, <3>2, SMT DEF Within
  <2>3. Behind(Empty)
    BY <1>2, <2>2 DEF Behind
  <2> QED
    BY <1>3, <2>1, <2>3 DEF Coverage
<1>6. Lateness /\ Growth
  BY <1>2, <1>3 DEF Lateness, Growth, Closing
<1>7. Exact
  <2>1. Sum(Empty) = 0
    BY <1>1, SumType DEF TypeOK
  <2>2. Held = 0 + 0 + 0
    BY <1>3, <2>1, Zenon DEF Held
  <2>3. Held = 0
    BY <2>2
  <2> QED
    BY <1>3, <2>3 DEF Exact, NoBase
<1> QED
  BY <1>1, <1>4, <1>5, <1>6, <1>7 DEF IInv

\* Every step keeps the invariant.
LEMMA NextIInv == IInv /\ [Next]_vars => IInv'
<1> SUFFICES ASSUME IInv, [Next]_vars PROVE IInv'
  OBVIOUS
<1>1. TypeOK /\ Control /\ Coverage /\ Lateness /\ Growth /\ Exact
  BY DEF IInv
<1>2. TypeOK'
  BY <1>1, TypeStep
<1>3. Control' /\ Lateness'
  BY <1>1, ControlStep, LatenessStep
<1>4. Coverage' /\ Growth' /\ Exact'
  BY <1>1, <1>2, CoverageStep, GrowthStep, ExactStep
<1> QED
  BY <1>2, <1>3, <1>4 DEF IInv

\* The invariant holds in every reachable state.
LEMMA Invariance == Spec => []IInv
<1> QED
  BY InitIInv, NextIInv, PTL DEF Spec

\* Every variable keeps its type: no amount, cover or sample count of a record is
\* ever negative, whatever the split, the restarts and the recovery do.
THEOREM TypeCorrect == Spec => []TypeOK
<1>1. IInv => TypeOK
  BY DEF IInv
<1> QED
  BY <1>1, Invariance, PTL

\* Totals are exact whatever the poll cadence: while no fault occurred and nothing
\* was counted late or again, what the windows hold of a replica is its counter as
\* last read.
THEOREM ExactTotals == Spec => []TotalsExact
<1>1. IInv => TotalsExact
  <2> SUFFICES ASSUME IInv, faults = 0, ~lost, ~again, late = {}, base.at # -1,
                      flush # "snapshots"
               PROVE  Sum(open) + Sum(batch) + Sum(final) = base.count
    BY DEF TotalsExact
  <2>1. Held = base.count
    BY DEF IInv, Exact
  <2>2. Held = Sum(open) + Sum(final) + Sum(batch)
    BY DEF Held
  <2>3. Sum(open) \in Int /\ Sum(batch) \in Int /\ Sum(final) \in Int
    BY SumType DEF IInv, TypeOK
  <2> QED
    BY <2>1, <2>2, <2>3
<1> QED
  BY <1>1, Invariance, PTL

\* No replica adds more to a record's cover than the window, across restarts of the
\* container and of the controller and the resumption of a snapshot: a record of n
\* replicas covers at most n windows.
THEOREM HonestCoverage == Spec => []CoverageHonest
<1>1. IInv => CoverageHonest
  <2> SUFFICES ASSUME IInv, ~again, NEW w \in Windows
               PROVE  open[w].covered =< Length /\ final[w].covered =< Length
    BY DEF CoverageHonest
  <2>1. open[w].covered =< Clip(w, LifeEdge) /\ final[w].covered =< Clip(w, LifeEdge)
    BY DEF IInv, Coverage, Behind, Within
  <2>2. open[w].covered \in Nat /\ final[w].covered \in Nat
    BY DEF IInv, TypeOK, Record
  <2>3. Clip(w, LifeEdge) \in Nat /\ Clip(w, LifeEdge) =< Length
    BY EdgeType, ClipGrows DEF IInv
  <2> QED
    BY <2>1, <2>2, <2>3, UsageAssumption
<1> QED
  BY <1>1, Invariance, PTL

\* A closed record is replaced only after a late sample of its window: no crash,
\* failed write or recovery rewrites it.
THEOREM OnlyLateRewrites == Spec => OnlyLateSamplesRewrite
<1> DEFINE Late == \A w \in Windows : final[w].held /\ final'[w] # final[w] => w \in late
<1>1. IInv /\ [Next]_vars => [Late]_vars
  <2> SUFFICES ASSUME IInv, Next, NEW w \in Windows, final[w].held, final'[w] # final[w]
               PROVE  w \in late
    OBVIOUS
  <2>1. final' # final
    OBVIOUS
  <2>2. PICK v \in Windows : WriteClosed(v)
    BY <2>1 DEF Next, Tick, ContainerRestart, Poll, PollMissed, FlushClose, CloseFails,
                RemoveSnapshot, FlushSnapshots, FlushEnds, WriteSnapshot, Leave, Crash,
                ClockStepsBack, Restart, OthersObserve, ghosts
  <2>3. v = w
    BY <2>2 DEF WriteClosed, IInv, TypeOK
  <2> QED
    BY <2>2, <2>3 DEF WriteClosed, IInv, Lateness, Closing
<1> QED
  BY <1>1, Invariance, PTL DEF Spec, OnlyLateSamplesRewrite

\* A window's snapshots never shrink, unless a restart did not find the last one.
THEOREM GrowingSnapshots == Spec => SnapshotsOnlyGrow
<1> DEFINE Grow == \A w \in Windows \ gone : told[w].amount =< told'[w].amount
                                             /\ told[w].samples =< told'[w].samples
<1>1. IInv /\ [Next]_vars => [Grow]_vars
  <2> SUFFICES ASSUME IInv, Next, NEW w \in Windows \ gone
               PROVE  told[w].amount =< told'[w].amount /\ told[w].samples =< told'[w].samples
    OBVIOUS
  <2>1. /\ told \in [Windows -> Record] /\ open \in [Windows -> Record]
        /\ told[w].amount \in Nat /\ told[w].samples \in Nat
        /\ open[w].amount \in Nat /\ open[w].samples \in Nat
    BY DEF IInv, TypeOK, Record
  <2>2. CASE told'[w] = told[w]
    BY <2>1, <2>2
  <2>3. CASE told'[w] # told[w]
    <3>1. PICK v \in Windows : WriteSnapshot(v)
      BY <2>3 DEF Next, Tick, ContainerRestart, Poll, PollMissed, FlushClose, CloseFails,
                  RemoveSnapshot, FlushSnapshots, FlushEnds, WriteClosed, Leave, Crash,
                  ClockStepsBack, Restart, OthersObserve, ghosts
    <3>2. v = w
      BY <2>1, <2>3, <3>1 DEF WriteSnapshot
    <3>3. told'[w] = open[w] /\ open[w].held /\ ~Ended(w) /\ up
      BY <2>1, <3>1, <3>2 DEF WriteSnapshot, IInv, Control
    <3>4. CASE told[w].held
      BY <2>1, <3>3, <3>4 DEF IInv, Growth
    <3>5. CASE ~told[w].held
      <4>1. told[w].amount = 0 /\ told[w].samples = 0
        BY <3>5 DEF IInv, Control, Blank, None
      <4> QED
        BY <2>1, <3>3, <4>1
    <3> QED
      BY <3>4, <3>5
  <2> QED
    BY <2>2, <2>3
<1> QED
  BY <1>1, Invariance, PTL DEF Spec, SnapshotsOnlyGrow
=============================================================================
