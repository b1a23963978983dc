---------------------------- MODULE TotalsProofs ----------------------------
(***************************************************************************)
(* Proofs about what the windows' records count together: rises, episodes  *)
(* and the time a state was held.                                          *)
(*                                                                         *)
(* The inductive invariant adds to that of AccrualProofs:                  *)
(*   - Counts: the most any place has of each window's rises, and what the *)
(*     next pass will add, are together no more than the counter rose by;  *)
(*   - Ordered, Deltas, Episodes, Occupancy: until a fault, a window's     *)
(*     record is where the next pass looks for it, so a pass adds to the   *)
(*     totals exactly what it saw: a rise, a run that was pending, and the *)
(*     part of the interval for which the state held.                      *)
(* The totals over the windows are sums, which Sums reasons about.         *)
(***************************************************************************)
EXTENDS AccrualProofs, Sums

\* Every leaf goes to Zenon first: most are first-order, and a leaf that needs
\* arithmetic is soon given up.
USE ZenonT(3), SMTT(30)

\* What the journals count in a record.
Tally(r) ==
  /\ r.entries \in Nat /\ r.delta \in Nat
  /\ ~r.held => r.entries = 0 /\ r.delta = 0 /\ r.occupied = 0

\* Types of the counts.
Tallies ==
  /\ count \in Nat /\ seen.count \in Nat /\ seen.count =< count
  /\ rises.all \in Nat /\ rises.unseen \in Nat /\ truth \in [Windows -> Nat]
  /\ \A w \in Windows : /\ Tally(open[w]) /\ Tally(batch[w])
                        /\ Tally(file[w].rec) /\ Tally(written[w].rec)

\* The most that any place has of a window's rises.
Peak(w) == Greatest(Greatest(open[w].delta, batch[w].delta),
                    Greatest(file[w].rec.delta, written[w].rec.delta))
Peaks == SumFunctionOnSet([w \in Windows |-> Peak(w)], Windows)

\* Counters.accrue: what was counted and what the next pass will count.
Counts ==
  subject = "counter" =>
    Peaks + (IF seen.at = None THEN 0 ELSE count - seen.count) =< rises.all - rises.unseen

\* One process, and no fault so far.
Clean == subject \in {"policy", "counter"} /\ faults = 0

\* Where a window's record is while nothing went wrong.
Ordered ==
  Clean =>
    /\ phase = "up"
    /\ \A w \in Windows :
         /\ step = "idle" => ~batch[w].held
         /\ step = "closed" /\ WindowEnd(w) > passNow => ~batch[w].held
         /\ batch[w].held /\ WindowEnd(w) > passNow => open[w].held
         /\ written[w].rec.held /\ ~written[w].final => open[w].held \/ batch[w].held

\* The deltas of one process.
Deltas ==
  (subject = "counter" /\ faults = 0) =>
    /\ seen.at = None => Total("delta") = 0 /\ rises.unseen = count
    /\ seen.at # None => Total("delta") = seen.count - rises.unseen
    /\ seen.at = now => seen.count = count

\* The run of failures that no pass has seen yet.
Pending == first # None /\ seen.at =< first /\ seen.since # first

\* The pass is never late, failingSince names the latest run, and a run that no
\* pass saw is the only one not counted.
Episodes ==
  (subject = "policy" /\ faults = 0) =>
    /\ seen.at = None => now = 0 /\ "pass" \in due /\ \A w \in Windows : open[w].since = None
    /\ seen.at # None => now - seen.at =< PassGap
    /\ "pass" \notin due => seen.at = now
    /\ failed = last /\ (first = None <=> last = None) /\ (first = None => runs = {})
    /\ IsFiniteSet(runs) /\ runs \subseteq Nat
    /\ first # None => first \in runs /\ \A r \in runs : r =< first
    /\ seen.since \in {None} \cup 0 .. now
    /\ seen.since # None => first # None /\ seen.since =< first /\ seen.since =< seen.at
    /\ Pending => \A r \in runs : r # first => r < seen.at
    /\ first # None /\ ~Pending /\ seen.since # first => seen.at - last > UnavailableFor
    /\ Total("entries") = Cardinality(runs) - (IF Pending THEN 1 ELSE 0)

TrueTotal == SumFunctionOnSet(truth, Windows)

\* How far the occupancy and the time the state held are apart, and what the
\* interval since the last pass will add.
Occupancy ==
  (subject = "policy" /\ faults = 0) =>
    LET O == Total("occupied")
        H == TrueTotal
        E == Total("entries")
    IN
    /\ seen.at = None => H = 0 /\ O = 0
    /\ seen.since # None => E >= 1 /\ H =< O + PassGap * (E - 1) + (now - seen.at)
    /\ seen.since = None => H =< O + PassGap * E + (IF Pending THEN now - first ELSE 0)
    /\ O =< H + PassGap * E
    /\ seen.since # None /\ first = seen.since /\ now - last =< UnavailableFor
         => O + (now - seen.at) =< H + PassGap * E
    /\ seen.since = None /\ Pending => O + (now - first) =< H + PassGap * E

\* The inductive invariant.
IInv == RecordInv /\ Tallies /\ Counts /\ Ordered /\ Deltas /\ Episodes /\ Occupancy

-----------------------------------------------------------------------------
\* What the records count.

\* The windows are finitely many.
LEMMA WindowsFinite == IsFiniteSet(Windows) /\ Windows \subseteq Nat
<1>1. MaxTime \div Length \in Nat BY AccrualAssumption
<1>2. IsFiniteSet(0 .. MaxTime \div Length) BY <1>1, FS_Interval
<1> QED BY <1>1, <1>2, SMTT(30) DEF Windows

\* A record that is looked at counts what it counted.
LEMMA HeldTally ==
  ASSUME NEW r, Rec(r), Tally(r)
  PROVE  /\ Tally(Held(r)) /\ Held(r).entries = r.entries /\ Held(r).delta = r.delta
         /\ Held(r).since = r.since
<1>1. Held(r).held = TRUE /\ Held(r).entries = r.entries /\ Held(r).delta = r.delta
      /\ Held(r).since = r.since
  BY DEF Held, Rec, Fields
<1> QED BY <1>1 DEF Tally

\* A goroutine reading is no entry and no rise.
LEMMA SampleTally ==
  ASSUME NEW r, Rec(r), Tally(r)
  PROVE  Tally(sample(r))
<1> DEFINE h == Held(r)
<1>1. Rec(h) /\ h.held /\ Tally(h) BY HeldRec, HeldTally
<1>2. sample(r) \in {[h EXCEPT !.dropped = h.dropped + 1], [h EXCEPT !.samples = h.samples + 1]}
  BY DEF sample
<1> HIDE DEF h
<1>3. sample(r).held = h.held /\ sample(r).entries = h.entries /\ sample(r).delta = h.delta
  BY <1>1, <1>2 DEF Rec, Fields
<1> QED BY <1>1, <1>3 DEF Tally

\* A closed record and one filed meanwhile.
LEMMA BothTally ==
  ASSUME NEW a, NEW b, Rec(a), Rec(b), Tally(a), Tally(b)
  PROVE  Tally(Both(a, b)) /\ Both(a, b).delta \in {a.delta, b.delta}
<1>1. CASE a.held /\ b.held
  <2>1. Both(a, b) = [a EXCEPT !.samples = a.samples + b.samples, !.dropped = a.dropped + b.dropped]
    BY <1>1 DEF Both
  <2>2. /\ Both(a, b).held = a.held /\ Both(a, b).entries = a.entries
        /\ Both(a, b).delta = a.delta /\ Both(a, b).occupied = a.occupied
    BY <2>1 DEF Rec, Fields
  <2> QED BY <1>1, <2>2 DEF Tally
<1>2. CASE ~(a.held /\ b.held)
  <2>1. Both(a, b) \in {a, b} BY <1>2, Zenon DEF Both
  <2> QED BY <2>1
<1> QED BY <1>1, <1>2

\* An empty record counts nothing.
LEMMA NoRecordTally ==
  /\ Tally(NoRecord) /\ NoRecord.entries = 0 /\ NoRecord.delta = 0 /\ NoRecord.since = None
BY DEF NoRecord, Tally

\* The next pass counts the episode it sees.
Enters ==
  Since # None /\ (IF Known THEN seen.since # Since ELSE open[startOf(now)].since # Since)

\* What the record of the window w gained, counted in the record r.
Gained(w, r, entries, delta, occupied) ==
  /\ Tally(r) /\ (open[w].held => r.held)
  /\ r.entries = open[w].entries + entries /\ r.delta = open[w].delta + delta
  /\ r.occupied = open[w].occupied + occupied

\* States.enter counts one episode in the window of this pass, States.stamp none.
LEMMA EnterStampTally ==
  ASSUME NEW f, DOMAIN f = Windows, \A w \in Windows : Rec(f[w]) /\ Tally(f[w]),
         startOf(now) \in Windows, NEW one \in {0, 1},
         one = 0 => enter(f) = f,
         one = 1 => enter(f) = [f EXCEPT ![startOf(now)] = Entered(f[startOf(now)])]
  PROVE  /\ \A w \in Windows :
              LET g == enter(f)[w] IN
              /\ Tally(g) /\ (f[w].held => g.held) /\ g.delta = f[w].delta
              /\ g.entries = f[w].entries + (IF w = startOf(now) THEN one ELSE 0)
         /\ \A w \in Windows :
              LET g == stamp(f)[w] IN
              Tally(g) /\ (f[w].held => g.held) /\ g.delta = f[w].delta /\ g.entries = f[w].entries
<1> DEFINE k == startOf(now)
           h == Held(f[k])
           e == [h EXCEPT !.entries = h.entries + 1]
           s == [h EXCEPT !.to = now, !.since = Since]
<1>1. /\ Rec(h) /\ h.held /\ Tally(h) /\ h.entries = f[k].entries /\ h.delta = f[k].delta
      /\ h.occupied = f[k].occupied /\ h.entries \in Nat
  BY HeldRec, HeldTally DEF Tally
<1>2. Entered(f[k]) = e /\ stamp(f) = [f EXCEPT ![k] = s]
  BY DEF Entered, stamp
<1>3. \A w \in Windows : f[w].entries + 0 = f[w].entries BY DEF Tally
<1> HIDE DEF h
<1>4. /\ e.held = h.held /\ e.entries = h.entries + 1 /\ e.delta = h.delta /\ e.occupied = h.occupied
      /\ s.held = h.held /\ s.entries = h.entries /\ s.delta = h.delta /\ s.occupied = h.occupied
  BY <1>1 DEF Rec, Fields
<1>5. h.entries + 1 \in Nat BY <1>1
<1>6. Tally(e) /\ Tally(s) BY <1>1, <1>4, <1>5 DEF Tally
<1>7. k \in Windows OBVIOUS
<1> HIDE DEF e, s, k
<1>8. \A w \in Windows : stamp(f)[w] = IF w = k THEN s ELSE f[w] BY <1>2, <1>7
<1>9. \A w \in Windows : enter(f)[w] = IF w = k /\ one = 1 THEN e ELSE f[w]
  <2>1. CASE one = 0
    <3>1. one # 1 BY <2>1
    <3> QED BY <2>1, <3>1
  <2>2. CASE one = 1
    <3>1. enter(f) = [f EXCEPT ![k] = e] BY <1>2, <2>2 DEF k
    <3> QED BY <1>7, <2>2, <3>1
  <2> QED BY <2>1, <2>2
<1>10. \A w \in Windows :
         LET g == stamp(f)[w] IN
         Tally(g) /\ (f[w].held => g.held) /\ g.delta = f[w].delta /\ g.entries = f[w].entries
  BY <1>1, <1>4, <1>6, <1>8
<1>11. \A w \in Windows :
         LET g == enter(f)[w] IN
         /\ Tally(g) /\ (f[w].held => g.held) /\ g.delta = f[w].delta
         /\ g.entries = f[w].entries + (IF w = k THEN one ELSE 0)
  <2> SUFFICES ASSUME NEW w \in Windows
               PROVE  LET g == enter(f)[w] IN
                      /\ Tally(g) /\ (f[w].held => g.held) /\ g.delta = f[w].delta
                      /\ g.entries = f[w].entries + (IF w = k THEN one ELSE 0)
    OBVIOUS
  <2>1. CASE w = k /\ one = 1 BY <1>1, <1>4, <1>6, <1>9, <2>1
  <2>2. CASE ~(w = k /\ one = 1)
    <3>1. enter(f)[w] = f[w] BY <1>9, <2>2
    <3>2. (IF w = k THEN one ELSE 0) = 0 BY <2>2
    <3> QED BY <1>3, <3>1, <3>2
  <2> QED BY <2>1, <2>2
<1> QED BY <1>10, <1>11 DEF k

\* accrue: where the occupied part of the interval starts, and how much of it is in
\* a window.
From == IF seen.since # None THEN seen.at ELSE Greatest(Since, seen.at)
Occupies(w) == IF subject = "policy" /\ Accrues /\ Since # None THEN Span(From, now, w) ELSE 0

\* An interval has no part of a window outside those it spans.
LEMMA OutsideSpan ==
  ASSUME Shapes, Accrues, NEW w \in Windows, w \notin Spanned, NEW from \in Nat, seen.at =< from
  PROVE  Span(from, now, w) = 0
<1> USE AccrualAssumption
<1>1. seen.at \in Nat /\ seen.at < now /\ now \in Nat /\ w \in Nat /\ now - 1 \in Nat
  BY WindowsFinite DEF Accrues, Known, Shapes, None
<1>2. /\ startOf(seen.at) \in Nat /\ startOf(now - 1) \in Nat
      /\ w < startOf(seen.at) <=> WindowEnd(w) =< seen.at
      /\ startOf(now - 1) < w <=> now - 1 < w * Length
  BY <1>1, Starts
<1>3. w < startOf(seen.at) \/ startOf(now - 1) < w BY <1>1, <1>2 DEF Spanned
<1>4. w * Length \in Nat /\ WindowEnd(w) \in Nat BY <1>1 DEF WindowEnd
<1> DEFINE a == w * Length
           b == WindowEnd(w)
<1>5. Span(from, now, w) = Greatest(0, Least(now, b) - Greatest(from, a)) BY DEF Span
<1>6. a \in Nat /\ b \in Nat /\ (b =< seen.at \/ now =< a) BY <1>1, <1>2, <1>3, <1>4
<1> HIDE DEF a, b
<1> QED BY <1>1, <1>5, <1>6 DEF Greatest, Least

\* The occupied part of the interval is within it.
LEMMA FromType ==
  ASSUME Shapes, Accrues, Since # None
  PROVE  From \in Nat /\ seen.at =< From /\ From =< now
BY SinceType DEF From, Greatest, Accrues, Known, Shapes, None

\* What a pass adds to a window's record: an episode or a rise in the window of the
\* pass, and the occupied part of the interval wherever it falls.
LEMMA ObservedTally ==
  ASSUME Shapes, Tallies, subject \in {"policy", "counter"}, NEW w \in Windows
  PROVE  Gained(w, Observed[w],
                IF w = startOf(now) /\ subject = "policy" /\ Enters THEN 1 ELSE 0,
                IF w = startOf(now) /\ subject = "counter" /\ Accrues THEN rise ELSE 0,
                Occupies(w))
<1> DEFINE k == startOf(now)
<1>1. k \in Windows BY StartsInWindows DEF Shapes
<1>2. \A v \in Windows : /\ Rec(open[v]) /\ Tally(open[v]) /\ open[v].entries + 0 = open[v].entries
                         /\ open[v].delta + 0 = open[v].delta
                         /\ open[v].occupied + 0 = open[v].occupied
  BY DEF Shapes, Tallies, Tally, Rec
<1>3. CASE subject = "policy"
  <2> DEFINE f == [v \in Windows |-> IF v \in Spanned THEN accrueState(v) ELSE open[v]]
             one == IF Enters THEN 1 ELSE 0
  <2>1. ASSUME NEW v \in Windows
        PROVE  /\ Rec(f[v]) /\ Tally(f[v]) /\ (open[v].held => f[v].held)
               /\ f[v].entries = open[v].entries /\ f[v].delta = open[v].delta
               /\ f[v].occupied = open[v].occupied + Occupies(v)
    <3>1. CASE v \in Spanned
      <4> DEFINE h == Held(open[v])
                 obs == h.observed + Span(seen.at, now, v)
                 occ == IF Since = None THEN h.occupied ELSE h.occupied + Span(From, now, v)
                 r == accrueState(v)
      <4>1. Accrues BY <3>1 DEF Spanned
      <4>2. f[v] = r BY <3>1
      <4>3. Rec(r) BY <4>1, AccrueState DEF Folded
      <4>4. /\ Rec(h) /\ h.held /\ Tally(h) /\ h.entries = open[v].entries
            /\ h.delta = open[v].delta /\ h.occupied = open[v].occupied
        BY <1>2, HeldRec, HeldTally
      <4>5. r = [h EXCEPT !.observed = obs, !.to = Least(now, WindowEnd(v)), !.since = Since,
                          !.occupied = occ]
        BY DEF accrueState, From
      <4>6. occ = open[v].occupied + Occupies(v)
        BY <1>2, <1>3, <4>1, <4>4 DEF Occupies
      <4> HIDE DEF h, obs, occ, r
      <4>7. r.held = h.held /\ r.entries = h.entries /\ r.delta = h.delta /\ r.occupied = occ
        BY <4>4, <4>5 DEF Rec, Fields
      <4>8. Tally(r) BY <4>4, <4>7 DEF Tally
      <4> QED BY <4>2, <4>3, <4>4, <4>6, <4>7, <4>8
    <3>2. CASE v \notin Spanned
      <4>1. f[v] = open[v] BY <3>2
      <4>2. Occupies(v) = 0
        BY <3>2, FromType, OutsideSpan DEF Occupies
      <4> QED BY <1>2, <4>1, <4>2
    <3> QED BY <3>1, <3>2
  <2>2. DOMAIN f = Windows OBVIOUS
  <2>3. Observed = stamp(enter(f)) BY <1>3 DEF Observed, ObserveState
  <2>4. ~Known => f[k] = open[k] BY <1>1 DEF Spanned, Accrues
  <2> HIDE DEF f
  <2>5. enter(f) = IF Enters THEN [f EXCEPT ![k] = Entered(f[k])] ELSE f
    BY <2>4, Zenon DEF enter, Enters
  <2>6. /\ one \in {0, 1} /\ (one = 0 => enter(f) = f)
        /\ one = 1 => enter(f) = [f EXCEPT ![k] = Entered(f[k])]
    BY <2>5
  <2> HIDE DEF one
  <2>7. \A v \in Windows : Rec(f[v]) /\ Tally(f[v]) BY <2>1
  <2>8. \A v \in Windows :
          /\ Tally(enter(f)[v]) /\ (f[v].held => enter(f)[v].held)
          /\ enter(f)[v].delta = f[v].delta
          /\ enter(f)[v].entries = f[v].entries + (IF v = k THEN one ELSE 0)
    BY <1>1, <2>2, <2>6, <2>7, EnterStampTally
  <2>9. Touched(f, enter(f)) BY <2>2, <2>7, EnterStamp
  <2>10. Touched(enter(f), stamp(enter(f))) BY <2>9, EnterStamp DEF Touched
  <2> DEFINE g == enter(f)
             s == stamp(g)[w]
  <2>11. DOMAIN g = Windows /\ \A v \in Windows : Rec(g[v]) /\ Tally(g[v])
    BY <2>8, <2>9 DEF Touched
  <2>12. Tally(s) /\ (g[w].held => s.held) /\ s.delta = g[w].delta /\ s.entries = g[w].entries
    <3> HIDE DEF g
    <3>1. enter(g) = g \/ enter(g) = [g EXCEPT ![k] = Entered(g[k])]
      BY Zenon DEF enter
    <3>2. CASE enter(g) = g
      <4> DEFINE zero == 0
      <4>1. zero \in {0, 1} /\ zero # 1 /\ zero = 0 OBVIOUS
      <4> HIDE DEF zero
      <4> QED BY <1>1, <2>11, <3>2, <4>1, EnterStampTally
    <3>3. CASE enter(g) = [g EXCEPT ![k] = Entered(g[k])]
      <4> DEFINE i == 1
      <4>1. i \in {0, 1} /\ i # 0 /\ i = 1 OBVIOUS
      <4> HIDE DEF i
      <4> QED BY <1>1, <2>11, <3>3, <4>1, EnterStampTally
    <3> QED BY <3>1, <3>2, <3>3
  <2>13. s.occupied = f[w].occupied BY <2>9, <2>10 DEF Touched
  <2>14. s.entries = open[w].entries + (IF w = k /\ Enters THEN 1 ELSE 0)
    BY <2>1, <2>8, <2>12 DEF one
  <2>15. (open[w].held => s.held) /\ s.delta = open[w].delta
    BY <2>1, <2>8, <2>12
  <2>16. Observed[w] = s BY <2>3
  <2> HIDE DEF s
  <2>17. /\ Observed[w].entries = open[w].entries + (IF w = k /\ subject = "policy" /\ Enters THEN 1 ELSE 0)
         /\ Observed[w].delta = open[w].delta + 0
         /\ Observed[w].occupied = open[w].occupied + Occupies(w)
    BY <1>2, <1>3, <2>1, <2>13, <2>14, <2>15, <2>16
  <2> QED BY <1>3, <2>12, <2>15, <2>16, <2>17 DEF Gained
<1>4. CASE subject = "counter"
  <2> DEFINE acc(v) == [Held(open[v]) EXCEPT !.observed = @ + Span(seen.at, now, v)]
             f == [v \in Windows |-> IF v \in Spanned THEN acc(v) ELSE open[v]]
             h == Held(f[k])
             d == IF Accrues THEN h.delta + rise ELSE h.delta
             r == [h EXCEPT !.to = now, !.delta = d]
  <2>0. rise \in Nat BY DEF rise, Tallies
  <2>1. ASSUME NEW v \in Windows
        PROVE  /\ DOMAIN f[v] = Fields /\ Tally(f[v]) /\ (open[v].held => f[v].held)
               /\ f[v].entries = open[v].entries /\ f[v].delta = open[v].delta
               /\ f[v].occupied = open[v].occupied
    <3>1. CASE v \in Spanned
      <4> DEFINE g == Held(open[v])
                 obs == g.observed + Span(seen.at, now, v)
      <4>1. /\ Rec(g) /\ g.held /\ Tally(g) /\ g.entries = open[v].entries
            /\ g.delta = open[v].delta /\ g.occupied = open[v].occupied
        BY <1>2, HeldRec, HeldTally
      <4>2. f[v] = [g EXCEPT !.observed = obs] BY <3>1
      <4> HIDE DEF g, obs, f
      <4>3. /\ DOMAIN f[v] = Fields /\ f[v].held = g.held /\ f[v].entries = g.entries
            /\ f[v].delta = g.delta /\ f[v].occupied = g.occupied
        BY <4>1, <4>2 DEF Rec, Fields
      <4> QED BY <4>1, <4>3 DEF Tally
    <3>2. CASE v \notin Spanned
      BY <1>2, <3>2 DEF Rec
    <3> QED BY <3>1, <3>2
  <2>2. DOMAIN f = Windows OBVIOUS
  <2>3. Observed = [f EXCEPT ![k] = r]
    <3>1. Observed = ObserveCounter BY <1>4 DEF Observed
    <3> QED BY <3>1, Zenon DEF ObserveCounter, Risen
  <2> HIDE DEF f
  <2>4. /\ DOMAIN h = Fields /\ h.held = TRUE /\ h.entries = open[k].entries
        /\ h.delta = open[k].delta /\ h.occupied = open[k].occupied
    BY <1>1, <2>1 DEF Held, Fields
  <2>5. d = open[k].delta + (IF Accrues THEN rise ELSE 0) /\ d \in Nat
    BY <1>1, <1>2, <2>0, <2>4 DEF Tally
  <2> HIDE DEF h, d
  <2>6. r.held = h.held /\ r.entries = h.entries /\ r.delta = d /\ r.occupied = h.occupied
    BY <2>4 DEF Fields
  <2>7. Tally(r) BY <1>1, <1>2, <2>4, <2>5, <2>6 DEF Tally
  <2> HIDE DEF r
  <2>8. Occupies(w) = 0 BY <1>4 DEF Occupies
  <2>9. CASE w = k
    <3>1. Observed[w] = r BY <1>1, <2>2, <2>3, <2>9
    <3> QED BY <1>1, <1>2, <1>4, <2>4, <2>5, <2>6, <2>7, <2>8, <2>9, <3>1 DEF Gained
  <2>10. CASE w # k
    <3>1. Observed[w] = f[w] BY <2>2, <2>3, <2>10
    <3> QED BY <1>2, <2>1, <2>8, <2>10, <3>1 DEF Gained
  <2> QED BY <2>9, <2>10
<1> QED BY <1>3, <1>4

\* Every step keeps the types of the counts.
LEMMA TalliesKept ==
  ASSUME Shapes, Tallies, Next
  PROVE  Tallies'
<1> DEFINE Counters == UNCHANGED <<count, rises, truth>>
<1>1. CASE Tick
  <2>1. PICK up \in Nat :
          /\ count' = IF phase = "up" THEN count + up ELSE count
          /\ rises' = IF phase = "up"
                      THEN [all |-> rises.all + up,
                            unseen |-> IF seen.at = None THEN rises.unseen + up ELSE rises.unseen]
                      ELSE rises
    BY <1>1, AccrualAssumption DEF Tick
  <2>2. Aside BY <1>1, AsideSteps
  <2>3. /\ count' \in Nat /\ seen'.count \in Nat /\ seen'.count =< count'
        /\ rises'.all \in Nat /\ rises'.unseen \in Nat
    BY <2>1, <2>2, SMTT(30) DEF Tallies, Aside
  <2>4. truth' \in [Windows -> Nat]
    <3>1. truth' = truth \/ truth' = [truth EXCEPT ![startOf(now)] = @ + 1]
      BY <1>1 DEF Tick
    <3>2. \A w \in Windows : truth[w] + 1 \in Nat BY DEF Tallies
    <3> QED BY <3>1, <3>2 DEF Tallies
  <2> QED BY <2>2, <2>3, <2>4 DEF Tallies, Aside
<1>2. CASE Fail \/ Check \/ Read \/ ReadFails \/ Terminate
  <2>1. Aside BY <1>2, AsideSteps
  <2>2. Counters BY <1>2 DEF Fail, Check, Read, ReadFails, Terminate, process, ghosts
  <2> QED BY <2>1, <2>2 DEF Tallies, Aside
<1>3. CASE FileReading
  <2>1. /\ UNCHANGED <<batch, file, written, seen>> /\ Counters
        /\ open' = [open EXCEPT ![startOf(reading)] = sample(open[startOf(reading)])]
    BY <1>3 DEF FileReading, files
  <2>2. \A w \in Windows : Tally(open'[w])
    BY <2>1, SampleTally DEF Shapes, Tallies
  <2> QED BY <2>1, <2>2 DEF Tallies
<1>4. CASE Pass
  <2>1. \A w \in Windows : Tally(Observed[w])
    <3>1. CASE subject \in {"policy", "counter"} BY <3>1, ObservedTally DEF Gained
    <3>2. CASE subject \notin {"policy", "counter"}
      <4>1. Observed = open BY <3>2, ObservedRec
      <4> QED BY <4>1 DEF Tallies
    <3> QED BY <3>1, <3>2
  <2>2. \A w \in Windows : Tally(open'[w]) /\ Tally(batch'[w])
    BY <1>4, <2>1, PassRecords, NoRecordTally
  <2>3. UNCHANGED <<file, written>> /\ Counters /\ seen'.count = count
    BY <1>4 DEF Pass, files, ghosts
  <2>4. seen'.count =< count' BY <2>3, SMTT(30) DEF Tallies
  <2> QED BY <2>2, <2>3, <2>4 DEF Tallies
<1>5. CASE Snapshots
  <2>1. /\ UNCHANGED <<open, file, written, seen>> /\ Counters
        /\ batch' = [w \in Windows |-> Both(batch[w], open[w])]
    BY <1>5 DEF Snapshots, files, ghosts
  <2>2. \A w \in Windows : Tally(batch'[w]) BY <2>1, BothTally DEF Shapes, Tallies
  <2> QED BY <2>1, <2>2 DEF Tallies
<1>6. ASSUME NEW v \in Windows, Write(v) PROVE Tallies'
  <2>1. /\ UNCHANGED <<open, seen>> /\ Counters
        /\ file' = [file EXCEPT ![v] = [rec |-> batch[v], final |-> WindowEnd(v) =< passNow]]
        /\ written' = [written EXCEPT ![v] = file'[v]]
        /\ batch' = [batch EXCEPT ![v] = NoRecord]
    BY <1>6 DEF Write, ghosts
  <2>2. \A w \in Windows : Tally(batch'[w]) /\ Tally(file'[w].rec) /\ Tally(written'[w].rec)
    BY <2>1, NoRecordTally DEF Shapes, Tallies
  <2> QED BY <2>1, <2>2 DEF Tallies
<1>7. CASE PassEnds
  <2>1. UNCHANGED <<open, file, written, seen>> /\ Counters /\ batch' = Nothing
    BY <1>7 DEF PassEnds, files, ghosts
  <2>2. \A w \in Windows : Tally(batch'[w]) BY <2>1, NoRecordTally DEF Nothing
  <2> QED BY <2>1, <2>2 DEF Tallies
<1>8. ASSUME NEW v \in Windows, Leave(v) PROVE Tallies'
  <2>1. /\ UNCHANGED <<open, batch, written, seen>> /\ Counters
        /\ file' = [file EXCEPT ![v] = NoFile]
    BY <1>8 DEF Leave, process, ghosts
  <2>2. \A w \in Windows : Tally(file'[w].rec) BY <2>1, NoRecordTally DEF Shapes, Tallies, NoFile
  <2> QED BY <2>1, <2>2 DEF Tallies
<1>9. CASE Exit \/ Crash
  <2>1. /\ UNCHANGED <<file, written, rises, truth>> /\ count' = 0 /\ seen' = Unseen
        /\ open' = Nothing /\ batch' = Nothing
    BY <1>9 DEF Exit, Crash, Forget, files
  <2>2. \A w \in Windows : Tally(open'[w]) /\ Tally(batch'[w]) BY <2>1, NoRecordTally DEF Nothing
  <2>3. seen'.count = 0 BY <2>1 DEF Unseen
  <2>4. count' \in Nat /\ seen'.count \in Nat /\ seen'.count =< count' BY <2>1, <2>3
  <2> QED BY <2>1, <2>2, <2>4 DEF Tallies
<1>10. CASE Restart
  <2>1. UNCHANGED <<batch, file, written, seen>> /\ Counters /\ open' = [w \in Windows |-> Resumed(w)]
    BY <1>10 DEF Restart, files, ghosts
  <2>2. \A w \in Windows : Tally(open'[w]) BY <2>1, NoRecordTally DEF Resumed, Tallies
  <2> QED BY <2>1, <2>2 DEF Tallies
<1> QED BY <1>1, <1>2, <1>3, <1>4, <1>5, <1>6, <1>7, <1>8, <1>9, <1>10 DEF Next

-----------------------------------------------------------------------------
\* The rises of a counter.

\* A peak is the largest of four counts.
LEMMA PeakType ==
  ASSUME Tallies, NEW w \in Windows
  PROVE  /\ Peak(w) \in Nat
         /\ open[w].delta =< Peak(w) /\ batch[w].delta =< Peak(w)
         /\ file[w].rec.delta =< Peak(w) /\ written[w].rec.delta =< Peak(w)
         /\ Peak(w) \in {open[w].delta, batch[w].delta, file[w].rec.delta, written[w].rec.delta}
<1>1. /\ open[w].delta \in Nat /\ batch[w].delta \in Nat
      /\ file[w].rec.delta \in Nat /\ written[w].rec.delta \in Nat
  BY DEF Tallies, Tally
<1> QED BY <1>1, SMTT(30) DEF Peak, Greatest

\* Peaks that grow in one window at most, by n at most, grow by n at most in all.
LEMMA PeaksStep ==
  ASSUME Tallies, Tallies', NEW k \in Windows, NEW n \in Nat,
         \A w \in Windows : Peak(w)' =< Peak(w) + (IF w = k THEN n ELSE 0)
  PROVE  Peaks \in Int /\ Peaks' \in Int /\ Peaks' =< Peaks + n
<1> DEFINE p == [w \in Windows |-> Peak(w)]
           q == [w \in Windows |-> Peak(w) + (IF w = k THEN n ELSE 0)]
           r == [w \in Windows |-> Peak(w)']
<1>1. \A w \in Windows : Peak(w) \in Nat BY PeakType
<1>2. \A w \in Windows : Peak(w)' \in Nat
  <2> SUFFICES ASSUME NEW w \in Windows PROVE Peak(w)' \in Nat OBVIOUS
  <2>1. /\ open'[w].delta \in Nat /\ batch'[w].delta \in Nat
        /\ file'[w].rec.delta \in Nat /\ written'[w].rec.delta \in Nat
    BY DEF Tallies, Tally
  <2>2. ASSUME NEW a \in Nat, NEW b \in Nat PROVE Greatest(a, b) \in Nat BY DEF Greatest
  <2>3. /\ Greatest(open'[w].delta, batch'[w].delta) \in Nat
        /\ Greatest(file'[w].rec.delta, written'[w].rec.delta) \in Nat
    BY <2>1, <2>2
  <2> QED BY <2>2, <2>3 DEF Peak
<1>3. Peaks = SumFunctionOnSet(p, Windows) /\ Peaks' = SumFunctionOnSet(r, Windows) BY DEF Peaks
<1>4. \A w \in Windows : p[w] \in Int /\ q[w] \in Int /\ (w # k => p[w] = q[w]) BY <1>1
<1>5. \A w \in Windows : r[w] \in Int /\ q[w] \in Int /\ r[w] =< q[w] BY <1>1, <1>2
<1>6. q[k] - p[k] = n BY <1>1
<1>7. IsFiniteSet(Windows) BY WindowsFinite
<1> HIDE DEF p, q, r
<1>8. SumFunctionOnSet(q, Windows) = SumFunctionOnSet(p, Windows) + (q[k] - p[k])
  BY <1>4, <1>7, SumChange
<1>9. SumFunctionOnSet(r, Windows) =< SumFunctionOnSet(q, Windows) BY <1>5, <1>7, SumMonotone
<1>10. SumFunctionOnSet(p, Windows) \in Int /\ SumFunctionOnSet(r, Windows) \in Int
  BY <1>4, <1>5, <1>7, SumInt
<1> QED BY <1>3, <1>6, <1>8, <1>9, <1>10

\* No place has more than n of a window's rises when none of the four has.
LEMMA PeakBound ==
  ASSUME Tallies', NEW w \in Windows, NEW n \in Nat,
         open'[w].delta =< n, batch'[w].delta =< n, file'[w].rec.delta =< n,
         written'[w].rec.delta =< n
  PROVE  Peak(w)' =< n
<1>1. /\ open'[w].delta \in Nat /\ batch'[w].delta \in Nat
      /\ file'[w].rec.delta \in Nat /\ written'[w].rec.delta \in Nat
  BY DEF Tallies, Tally
<1> QED BY <1>1, SMTT(30) DEF Peak, Greatest

\* Records that are moved or forgotten leave no window with more.
LEMMA PeaksKept ==
  ASSUME Shapes, Tallies, Tallies',
         \A w \in Windows :
           {open'[w].delta, batch'[w].delta, file'[w].rec.delta, written'[w].rec.delta}
             \subseteq {0, open[w].delta, batch[w].delta, file[w].rec.delta, written[w].rec.delta}
  PROVE  Peaks \in Int /\ Peaks' \in Int /\ Peaks' =< Peaks
<1> DEFINE k == startOf(now)
           zero == 0
<1>1. k \in Windows BY StartsInWindows DEF Shapes
<1>2. \A w \in Windows : Peak(w)' =< Peak(w) + (IF w = k THEN zero ELSE 0)
  <2> SUFFICES ASSUME NEW w \in Windows PROVE Peak(w)' =< Peak(w) BY PeakType
  <2>1. \A d \in {0, open[w].delta, batch[w].delta, file[w].rec.delta, written[w].rec.delta} :
          d =< Peak(w)
    BY PeakType
  <2>2. Peak(w) \in Nat BY PeakType
  <2> QED BY <2>1, <2>2, PeakBound
<1>3. zero \in Nat OBVIOUS
<1> HIDE DEF k, zero
<1>4. Peaks \in Int /\ Peaks' \in Int /\ Peaks' =< Peaks + zero BY <1>1, <1>2, <1>3, PeaksStep
<1> QED BY <1>4 DEF zero

\* Every step counts a rise once, or not at all.
LEMMA CountsKept ==
  ASSUME Shapes, Tallies, Counts, Next, Tallies'
  PROVE  Counts'
<1> USE AccrualAssumption
<1>0. subject' = subject
  BY DEF Next, Tick, Fail, Check, Read, FileReading, ReadFails, Pass, Snapshots, PassEnds, Write,
         Leave, Terminate, Exit, Crash, Forget, Restart
<1> SUFFICES ASSUME subject = "counter" PROVE Counts' BY <1>0 DEF Counts
<1> DEFINE Rest == IF seen.at = None THEN 0 ELSE count - seen.count
<1>1. /\ rises.all \in Nat /\ rises.unseen \in Nat /\ count \in Nat /\ seen.count \in Nat
      /\ seen.count =< count
  BY DEF Tallies
<1>2. Peaks + Rest =< rises.all - rises.unseen BY DEF Counts
<1>3. Counts' <=> Peaks' + Rest' =< rises'.all - rises'.unseen BY <1>0 DEF Counts
<1>4. Rest \in Nat BY <1>1
<1> DEFINE Moved == \A w \in Windows :
             {open'[w].delta, batch'[w].delta, file'[w].rec.delta, written'[w].rec.delta}
             \subseteq {0, open[w].delta, batch[w].delta, file[w].rec.delta, written[w].rec.delta}
<1>5. ASSUME Moved, rises' = rises, Rest' \in Nat, Rest' =< Rest PROVE Counts'
  <2>1. Peaks \in Int /\ Peaks' \in Int /\ Peaks' =< Peaks BY <1>5, PeaksKept
  <2> HIDE DEF Rest, Moved
  <2> QED BY <1>1, <1>2, <1>3, <1>4, <1>5, <2>1
<1>6. CASE Tick
  <2>1. PICK up \in Nat :
          /\ count' = IF phase = "up" THEN count + up ELSE count
          /\ rises' = IF phase = "up"
                      THEN [all |-> rises.all + up,
                            unseen |-> IF seen.at = None THEN rises.unseen + up ELSE rises.unseen]
                      ELSE rises
    BY <1>6 DEF Tick
  <2>2. Aside BY <1>6, AsideSteps
  <2>3. Moved BY <2>2 DEF Aside
  <2>4. Peaks \in Int /\ Peaks' \in Int /\ Peaks' =< Peaks BY <2>3, PeaksKept
  <2>5. rises'.all - rises'.unseen - Rest' = rises.all - rises.unseen - Rest
        /\ rises'.all \in Nat /\ rises'.unseen \in Nat /\ Rest' \in Nat
    BY <1>1, <2>1, <2>2, SMTT(30) DEF Aside
  <2> HIDE DEF Rest
  <2> QED BY <1>1, <1>2, <1>3, <1>4, <2>4, <2>5
<1>7. CASE Fail \/ Check \/ Read \/ ReadFails \/ Terminate
  <2>1. Aside BY <1>7, AsideSteps
  <2>2. UNCHANGED <<count, rises>>
    BY <1>7 DEF Fail, Check, Read, ReadFails, Terminate, process, ghosts
  <2>3. Moved /\ Rest' = Rest BY <2>1, <2>2 DEF Aside
  <2> QED BY <1>1, <1>4, <1>5, <2>2, <2>3
<1>8. CASE FileReading BY <1>8 DEF FileReading, Shapes
<1>9. CASE Pass
  <2> DEFINE k == startOf(now)
             n == IF Accrues THEN rise ELSE 0
  <2>1. /\ UNCHANGED <<file, written>>
        /\ \A w \in Windows : IF WindowEnd(w) =< now
                              THEN batch'[w] = Observed[w] /\ open'[w] = NoRecord
                              ELSE batch'[w] = NoRecord /\ open'[w] = Observed[w]
    BY <1>9, PassRecords
  <2>2. UNCHANGED <<count, rises>> /\ seen'.count = count BY <1>9 DEF Pass, ghosts
  <2>3. n \in Nat /\ n =< Rest BY <1>1, SMTT(30) DEF rise, Accrues, Known
  <2>4. k \in Windows BY StartsInWindows DEF Shapes
  <2>5. \A w \in Windows : Peak(w)' =< Peak(w) + (IF w = k THEN n ELSE 0)
    <3> SUFFICES ASSUME NEW w \in Windows PROVE Peak(w)' =< Peak(w) + (IF w = k THEN n ELSE 0)
      OBVIOUS
    <3> DEFINE m == IF w = k THEN n ELSE 0
    <3>1. Observed[w].delta = open[w].delta + m BY ObservedTally DEF Gained
    <3>2. m \in Nat BY <2>3
    <3>3. /\ Peak(w) \in Nat /\ open[w].delta =< Peak(w) /\ file[w].rec.delta =< Peak(w)
          /\ written[w].rec.delta =< Peak(w)
          /\ open[w].delta \in Nat /\ file[w].rec.delta \in Nat /\ written[w].rec.delta \in Nat
      BY PeakType DEF Tallies, Tally
    <3> HIDE DEF m
    <3>4. /\ Observed[w].delta =< Peak(w) + m /\ NoRecord.delta =< Peak(w) + m
          /\ file[w].rec.delta =< Peak(w) + m /\ written[w].rec.delta =< Peak(w) + m
          /\ Peak(w) + m \in Nat
      BY <3>1, <3>2, <3>3, NoRecordTally, SMTT(30)
    <3>5. /\ open'[w].delta =< Peak(w) + m /\ batch'[w].delta =< Peak(w) + m
          /\ file'[w].rec.delta =< Peak(w) + m /\ written'[w].rec.delta =< Peak(w) + m
      BY <2>1, <3>4
    <3>6. Peak(w)' =< Peak(w) + m BY <3>4, <3>5, PeakBound
    <3> QED BY <3>6 DEF m
  <2>6. Rest' = 0 BY <1>1, <2>2
  <2> HIDE DEF n, k, Rest
  <2>7. Peaks \in Int /\ Peaks' \in Int /\ Peaks' =< Peaks + n BY <2>3, <2>4, <2>5, PeaksStep
  <2> QED BY <1>1, <1>2, <1>3, <1>4, <2>2, <2>3, <2>6, <2>7
<1>10. CASE Snapshots
  <2>1. /\ UNCHANGED <<open, file, written, seen, count, rises>>
        /\ batch' = [w \in Windows |-> Both(batch[w], open[w])]
    BY <1>10 DEF Snapshots, files, ghosts
  <2>2. \A w \in Windows : batch'[w].delta \in {batch[w].delta, open[w].delta}
    BY <2>1, BothTally DEF Shapes, Tallies
  <2>3. Moved /\ Rest' = Rest BY <2>1, <2>2
  <2> QED BY <1>1, <1>4, <1>5, <2>1, <2>3
<1>11. ASSUME NEW v \in Windows, Write(v) PROVE Counts'
  <2>1. /\ UNCHANGED <<open, seen, count, rises>>
        /\ file' = [file EXCEPT ![v] = [rec |-> batch[v], final |-> WindowEnd(v) =< passNow]]
        /\ written' = [written EXCEPT ![v] = file'[v]]
        /\ batch' = [batch EXCEPT ![v] = NoRecord]
    BY <1>11 DEF Write, ghosts
  <2>2. \A w \in Windows : /\ file'[w].rec.delta \in {file[w].rec.delta, batch[w].delta}
                           /\ written'[w].rec.delta \in {written[w].rec.delta, batch[w].delta}
                           /\ batch'[w].delta \in {batch[w].delta, 0}
    BY <2>1, NoRecordTally DEF Shapes
  <2>3. Moved /\ Rest' = Rest BY <2>1, <2>2
  <2>4. rises' = rises /\ Rest' \in Nat /\ Rest' =< Rest
    <3> HIDE DEF Rest
    <3> QED BY <1>4, <2>1, <2>3
  <2> QED BY <1>5, <2>3, <2>4
<1>12. CASE PassEnds
  <2>1. UNCHANGED <<open, file, written, seen, count, rises>> /\ batch' = Nothing
    BY <1>12 DEF PassEnds, files, ghosts
  <2>2. Moved /\ Rest' = Rest BY <2>1, NoRecordTally DEF Nothing
  <2>3. rises' = rises /\ Rest' \in Nat /\ Rest' =< Rest
    <3> HIDE DEF Rest
    <3> QED BY <1>4, <2>1, <2>2
  <2> QED BY <1>5, <2>2, <2>3
<1>13. ASSUME NEW v \in Windows, Leave(v) PROVE Counts'
  <2>1. /\ UNCHANGED <<open, batch, written, seen, count, rises>>
        /\ file' = [file EXCEPT ![v] = NoFile]
    BY <1>13 DEF Leave, process, ghosts
  <2>2. \A w \in Windows : file'[w].rec.delta \in {file[w].rec.delta, 0}
    BY <2>1, NoRecordTally DEF Shapes, NoFile
  <2>3. Moved /\ Rest' = Rest BY <2>1, <2>2
  <2> QED BY <1>1, <1>4, <1>5, <2>1, <2>3
<1>14. CASE Exit \/ Crash
  <2>1. /\ UNCHANGED <<file, written, rises>> /\ seen' = Unseen
        /\ open' = Nothing /\ batch' = Nothing
    BY <1>14 DEF Exit, Crash, Forget, files
  <2>2. Moved /\ Rest' = 0 BY <2>1, NoRecordTally DEF Nothing, Unseen
  <2> QED BY <1>1, <1>4, <1>5, <2>1, <2>2
<1>15. CASE Restart
  <2>1. /\ UNCHANGED <<batch, file, written, seen, count, rises>>
        /\ open' = [w \in Windows |-> Resumed(w)]
    BY <1>15 DEF Restart, files, ghosts
  <2>2. Moved /\ Rest' = Rest BY <2>1, NoRecordTally DEF Resumed
  <2> QED BY <1>1, <1>4, <1>5, <2>1, <2>2
<1> QED BY <1>6, <1>7, <1>8, <1>9, <1>10, <1>11, <1>12, <1>13, <1>14, <1>15 DEF Next

-----------------------------------------------------------------------------
\* One process without a fault.

\* What such a process does, from the journals of states and counters.
LEMMA CleanSteps ==
  ASSUME Shapes, Ordered, Next, Clean'
  PROVE  /\ Clean /\ phase = "up" /\ subject' = subject
         /\ \/ Tick \/ Fail \/ Pass \/ Snapshots
            \/ PassEnds /\ batch = Nothing
            \/ \E w \in Windows : Write(w) \/ Leave(w)
<1>1. subject' = subject
  BY DEF Next, Tick, Fail, Check, Read, FileReading, ReadFails, Pass, Snapshots, PassEnds, Write,
         Leave, Terminate, Exit, Crash, Forget, Restart
<1>2. faults' = faults \/ faults' = faults + 1
  BY DEF Next, Tick, Fail, Check, Read, FileReading, ReadFails, Pass, Snapshots, PassEnds, Write,
         Leave, Terminate, Exit, Crash, Restart
<1>3. faults \in Nat /\ faults' = 0 BY DEF Shapes, Clean
<1>4. faults = 0 /\ faults' # faults + 1 BY <1>2, <1>3, SMTT(30)
<1>5. Clean /\ phase = "up" /\ subject # "gating" /\ subject # "goroutines"
  BY <1>1, <1>4 DEF Clean, Ordered
<1>6. ~Check /\ ~Read /\ ~FileReading /\ ~ReadFails
  BY <1>5 DEF Check, Read, FileReading, ReadFails, Shapes
<1>7. ~Terminate /\ ~Crash /\ (PassEnds => batch = Nothing)
  BY <1>4 DEF Terminate, Crash, PassEnds
<1>8. ~Exit /\ ~Restart BY <1>5 DEF Exit, Restart
<1> QED BY <1>1, <1>5, <1>6, <1>7, <1>8 DEF Next

\* Every step keeps a window's record where the next pass will look for it.
LEMMA OrderedKept ==
  ASSUME Shapes, Tallies, Ordered, Next
  PROVE  Ordered'
<1> SUFFICES ASSUME Clean' PROVE Ordered' BY DEF Ordered
<1> DEFINE O(w) ==
      /\ step = "idle" => ~batch[w].held
      /\ step = "closed" /\ WindowEnd(w) > passNow => ~batch[w].held
      /\ batch[w].held /\ WindowEnd(w) > passNow => open[w].held
      /\ written[w].rec.held /\ ~written[w].final => open[w].held \/ batch[w].held
<1>1. Clean /\ phase = "up" BY CleanSteps
<1>2. \A w \in Windows : O(w) BY <1>1 DEF Ordered
<1> SUFFICES phase' = "up" /\ \A w \in Windows : O(w)' BY DEF Ordered
<1>3. CASE Tick \/ Fail
  <2>1. Aside BY <1>3, AsideSteps
  <2>2. phase' = phase BY <1>3 DEF Tick, Fail, process
  <2> QED BY <1>1, <1>2, <2>1, <2>2 DEF Aside
<1>4. CASE Pass
  <2>1. /\ UNCHANGED <<phase, written>> /\ step = "idle" /\ step' = "closed" /\ passNow' = now
        /\ \A w \in Windows : IF WindowEnd(w) =< now
                              THEN batch'[w] = Observed[w] /\ open'[w] = NoRecord
                              ELSE batch'[w] = NoRecord /\ open'[w] = Observed[w]
    BY <1>4, PassRecords
  <2>2. \A w \in Windows : open[w].held => Observed[w].held
    BY <1>1, ObservedTally DEF Clean, Gained
  <2>3. ~NoRecord.held BY NoRecordRec
  <2>4. \A w \in Windows : WindowEnd(w) > now <=> ~(WindowEnd(w) =< now)
    BY AccrualAssumption DEF Shapes, WindowEnd, Windows
  <2> QED BY <1>1, <1>2, <2>1, <2>2, <2>3, <2>4
<1>5. CASE Snapshots
  <2>1. /\ UNCHANGED <<phase, open, written, passNow>> /\ step = "closed" /\ step' = "writing"
        /\ batch' = [w \in Windows |-> Both(batch[w], open[w])]
    BY <1>5 DEF Snapshots, files
  <2>2. \A w \in Windows : batch'[w].held <=> batch[w].held \/ open[w].held
    BY <2>1, BothRec DEF Shapes
  <2> QED BY <1>1, <1>2, <2>1, <2>2
<1>6. ASSUME NEW v \in Windows, Write(v) PROVE phase' = "up" /\ \A w \in Windows : O(w)'
  <2>1. /\ UNCHANGED <<phase, open, passNow, step>> /\ step = "writing" /\ batch[v].held
        /\ file' = [file EXCEPT ![v] = [rec |-> batch[v], final |-> WindowEnd(v) =< passNow]]
        /\ written' = [written EXCEPT ![v] = file'[v]]
        /\ batch' = [batch EXCEPT ![v] = NoRecord]
    BY <1>6 DEF Write
  <2>2. /\ ~batch'[v].held /\ written'[v].final = (WindowEnd(v) =< passNow)
        /\ \A w \in Windows : w # v => batch'[w] = batch[w] /\ written'[w] = written[w]
    BY <2>1, NoRecordRec DEF Shapes
  <2>3. WindowEnd(v) > passNow <=> ~(WindowEnd(v) =< passNow)
    BY AccrualAssumption DEF Shapes, WindowEnd, Windows
  <2> QED BY <1>1, <1>2, <2>1, <2>2, <2>3
<1>7. CASE PassEnds /\ batch = Nothing
  <2>1. UNCHANGED <<phase, open, written, passNow, batch>> BY <1>7 DEF PassEnds, files
  <2>2. \A w \in Windows : ~batch[w].held BY <1>7, NoRecordRec DEF Nothing
  <2> QED BY <1>1, <1>2, <2>1, <2>2
<1>8. ASSUME NEW v \in Windows, Leave(v) PROVE phase' = "up" /\ \A w \in Windows : O(w)'
  <2>1. UNCHANGED <<phase, open, written, passNow, batch, step>> BY <1>8 DEF Leave, process
  <2> QED BY <1>1, <1>2, <2>1
<1> QED BY <1>3, <1>4, <1>5, <1>6, <1>7, <1>8, CleanSteps

\* Outside the pass nothing that is known of a window changes: it is only moved.
LEMMA LatestKept ==
  ASSUME Shapes, Ordered, Next, Clean', ~Pass, NEW w \in Windows
  PROVE  Latest(w)' = Latest(w)
<1>1. CASE Tick \/ Fail
  <2>1. Aside BY <1>1, AsideSteps
  <2> QED BY <2>1 DEF Latest, Aside
<1>2. CASE Snapshots
  <2>1. UNCHANGED <<open, written>> /\ batch'[w] = Both(batch[w], open[w])
    BY <1>2 DEF Snapshots, files
  <2>2. ~open[w].held => batch'[w] = batch[w] BY <2>1, BothRec DEF Shapes
  <2> QED BY <2>1, <2>2 DEF Latest
<1>3. ASSUME NEW v \in Windows, Write(v) PROVE Latest(w)' = Latest(w)
  <2>1. /\ UNCHANGED open /\ batch[v].held
        /\ file' = [file EXCEPT ![v] = [rec |-> batch[v], final |-> WindowEnd(v) =< passNow]]
        /\ written' = [written EXCEPT ![v] = file'[v]]
        /\ batch' = [batch EXCEPT ![v] = NoRecord]
    BY <1>3 DEF Write
  <2>2. /\ ~batch'[v].held /\ written'[v].rec = batch[v]
        /\ w # v => batch'[w] = batch[w] /\ written'[w] = written[w]
    BY <2>1, NoRecordRec DEF Shapes
  <2> QED BY <2>1, <2>2 DEF Latest
<1>4. CASE PassEnds /\ batch = Nothing
  <2>1. UNCHANGED <<open, written, batch>> BY <1>4 DEF PassEnds, files
  <2> QED BY <2>1 DEF Latest
<1>5. ASSUME NEW v \in Windows, Leave(v) PROVE Latest(w)' = Latest(w)
  <2>1. UNCHANGED <<open, written, batch>> BY <1>5 DEF Leave, process
  <2> QED BY <2>1 DEF Latest
<1> QED BY <1>1, <1>2, <1>3, <1>4, <1>5, CleanSteps

\* What the pass adds to what is known of a window.
LEMMA LatestPass ==
  ASSUME Shapes, Finality, Tallies, Ordered, Clean, Pass, NEW w \in Windows,
         NEW entries, NEW delta, NEW occupied, Gained(w, Observed[w], entries, delta, occupied),
         entries \in Nat, delta \in Nat, occupied \in Nat
  PROVE  /\ Latest(w)'.entries = Latest(w).entries + entries
         /\ Latest(w)'.delta = Latest(w).delta + delta
         /\ Latest(w)'.occupied = Latest(w).occupied + occupied
<1> DEFINE r == Observed[w]
<1>1. /\ UNCHANGED <<now, written>> /\ step = "idle"
      /\ IF WindowEnd(w) =< now THEN batch'[w] = r /\ open'[w] = NoRecord
                                ELSE batch'[w] = NoRecord /\ open'[w] = r
  BY PassRecords
<1>2. ~batch[w].held /\ (written[w].rec.held /\ ~written[w].final => open[w].held)
  BY <1>1 DEF Ordered
<1>3. Latest(w)' = IF r.held THEN r ELSE written[w].rec BY <1>1, NoRecordRec DEF Latest
<1>4. Latest(w) = IF open[w].held THEN open[w] ELSE written[w].rec BY <1>2 DEF Latest
<1>5. /\ Tally(r) /\ Tally(open[w]) /\ Tally(written[w].rec) /\ (open[w].held => r.held)
      /\ r.entries = open[w].entries + entries /\ r.delta = open[w].delta + delta
      /\ r.occupied = open[w].occupied + occupied
      /\ open[w].occupied \in Nat /\ written[w].rec.occupied \in Nat
  BY DEF Gained, Tallies, Shapes, Rec
<1>6. ~open[w].held /\ r.held => ~written[w].rec.held
  <2> SUFFICES ASSUME ~open[w].held, r.held, written[w].rec.held PROVE FALSE OBVIOUS
  <2>1. written[w].final BY <1>2
  <2>2. WindowEnd(w) =< now /\ (seen.at = None \/ WindowEnd(w) =< seen.at)
    BY <2>1 DEF Finality, Clean
  <2>3. Observed[w] = open[w] BY <2>2, EndedNotSpanned, ObservedRec
  <2> QED BY <2>3
<1> HIDE DEF r
<1>7. CASE open[w].held BY <1>3, <1>4, <1>5, <1>7
<1>8. CASE ~open[w].held /\ r.held
  <2>1. Latest(w)' = r /\ Latest(w) = written[w].rec BY <1>3, <1>4, <1>8
  <2>2. /\ written[w].rec.entries = 0 /\ written[w].rec.delta = 0 /\ written[w].rec.occupied = 0
        /\ open[w].entries = 0 /\ open[w].delta = 0 /\ open[w].occupied = 0
    BY <1>5, <1>6, <1>8 DEF Tally
  <2> QED BY <1>5, <2>1, <2>2
<1>9. CASE ~open[w].held /\ ~r.held
  <2>1. Latest(w)' = written[w].rec /\ Latest(w) = written[w].rec BY <1>3, <1>4, <1>9
  <2>2. /\ r.entries = 0 /\ r.delta = 0 /\ r.occupied = 0
        /\ open[w].entries = 0 /\ open[w].delta = 0 /\ open[w].occupied = 0
        /\ written[w].rec.entries \in Nat /\ written[w].rec.delta \in Nat
    BY <1>5, <1>9 DEF Tally
  <2>3. entries = 0 /\ delta = 0 /\ occupied = 0 BY <1>5, <2>2, SMTT(30)
  <2> QED BY <1>5, <2>1, <2>2, <2>3
<1> QED BY <1>7, <1>8, <1>9

-----------------------------------------------------------------------------
\* What the windows add up to.

\* A tick lengthens the part of an interval in one window, by a tick.
LEMMA SpanTick ==
  ASSUME NEW from \in Nat, NEW to \in Nat, from =< to, NEW w \in Nat
  PROVE  /\ Span(from, to, w) \in Nat
         /\ w = startOf(to) => Span(from, to + 1, w) = Span(from, to, w) + 1
         /\ w # startOf(to) => Span(from, to + 1, w) = Span(from, to, w)
<1> USE AccrualAssumption
<1> DEFINE a == w * Length
           b == WindowEnd(w)
<1>1. a \in Nat /\ b \in Nat /\ a < b
  <2>1. a \in Nat /\ b = a + Length BY DEF WindowEnd
  <2> HIDE DEF a, b
  <2> QED BY <2>1
<1>2. startOf(to) \in Nat /\ (startOf(to) < w <=> to < a) /\ (w < startOf(to) <=> b =< to)
  BY Starts
<1> HIDE DEF a, b
<1>3. /\ Span(from, to, w) = Greatest(0, Least(to, b) - Greatest(from, a))
      /\ Span(from, to + 1, w) = Greatest(0, Least(to + 1, b) - Greatest(from, a))
  BY DEF Span, a, b
<1> QED BY <1>1, <1>2, <1>3, SMTT(30) DEF Greatest, Least

\* The parts of an interval in the windows are the whole of it.
LEMMA SpanSum ==
  ASSUME NEW from \in Nat, NEW to \in Nat, from =< to, to =< MaxTime
  PROVE  SumFunctionOnSet([w \in Windows |-> Span(from, to, w)], Windows) = to - from
<1>0. ASSUME NEW t \in Nat, NEW w \in Nat, from =< t
      PROVE  /\ Span(from, t, w) \in Nat
             /\ w = startOf(t) => Span(from, t + 1, w) = Span(from, t, w) + 1
             /\ w # startOf(t) => Span(from, t + 1, w) = Span(from, t, w)
  BY <1>0, SpanTick
<1> USE AccrualAssumption
<1> DEFINE parts(n) == [w \in Windows |-> Span(from, from + n, w)]
           Adds(n) == from + n =< MaxTime => SumFunctionOnSet(parts(n), Windows) = n
           Q == {n \in Nat : Adds(n)}
<1>1. 0 \in Q
  <2>1. \A w \in Windows : parts(0)[w] = 0
    <3>1. from + 0 = from OBVIOUS
    <3> QED BY <3>1, SpanFacts, WindowsFinite
  <2> HIDE DEF parts
  <2>2. SumFunctionOnSet(parts(0), Windows) = 0 BY <2>1, WindowsFinite, SumZero
  <2> QED BY <2>2
<1>2. ASSUME NEW n \in Nat, n \in Q PROVE n + 1 \in Q
  <2> SUFFICES ASSUME from + (n + 1) =< MaxTime
               PROVE  SumFunctionOnSet(parts(n + 1), Windows) = n + 1
    OBVIOUS
  <2> DEFINE k == startOf(from + n)
             f == parts(n)
             g == parts(n + 1)
  <2>1. k \in Windows BY StartsInWindows
  <2>2. \A w \in Windows : /\ f[w] \in Int /\ g[w] \in Int
                           /\ g[w] = f[w] + (IF w = k THEN 1 ELSE 0)
    <3> SUFFICES ASSUME NEW w \in Windows
                 PROVE  /\ f[w] \in Int /\ g[w] \in Int
                        /\ g[w] = f[w] + (IF w = k THEN 1 ELSE 0)
      OBVIOUS
    <3>1. from + n \in Nat /\ from =< from + n /\ from + (n + 1) = (from + n) + 1 /\ w \in Nat
      BY WindowsFinite
    <3> DEFINE t == from + n
    <3>2. /\ Span(from, t, w) \in Nat
          /\ w = startOf(t) => Span(from, t + 1, w) = Span(from, t, w) + 1
          /\ w # startOf(t) => Span(from, t + 1, w) = Span(from, t, w)
      <4> HIDE DEF t
      <4>1. t \in Nat BY DEF t
      <4>2. from =< t BY <3>1 DEF t
      <4>3. w \in Nat BY <3>1
      <4> QED BY <1>0, <4>1, <4>2, <4>3
    <3>3. f[w] = Span(from, from + n, w) /\ g[w] = Span(from, (from + n) + 1, w) BY <3>1
    <3>4. f[w] = Span(from, t, w) /\ g[w] = Span(from, t + 1, w) /\ k = startOf(t) BY <3>3
    <3> HIDE DEF f, g, k, t
    <3> QED BY <3>2, <3>4
  <2>3. SumFunctionOnSet(f, Windows) = n BY <1>2
  <2> HIDE DEF f, g, k
  <2>4. SumFunctionOnSet(g, Windows) = SumFunctionOnSet(f, Windows) + (g[k] - f[k])
    <3>1. \A w \in Windows : f[w] \in Int /\ g[w] \in Int BY <2>2
    <3>2. \A w \in Windows : w # k => f[w] = g[w] BY <2>2
    <3>3. IsFiniteSet(Windows) BY WindowsFinite
    <3> QED BY <2>1, <3>1, <3>2, <3>3, SumChange
  <2>5. g[k] - f[k] = 1 BY <2>1, <2>2
  <2> QED BY <2>3, <2>4, <2>5 DEF g
<1> DEFINE m == to - from
<1>3. m \in Nat /\ from + m = to OBVIOUS
<1> HIDE DEF Q
<1>4. Nat \subseteq Q BY <1>1, <1>2, NaturalInduction
<1>5. Adds(m) BY <1>3, <1>4 DEF Q
<1> HIDE DEF m
<1> QED BY <1>3, <1>5 DEF m

\* What is known of a window is a count.
LEMMA LatestType ==
  ASSUME Shapes, Tallies, NEW w \in Windows, NEW f \in {"entries", "delta", "occupied"}
  PROVE  Latest(w)[f] \in Nat
BY DEF Shapes, Tallies, Rec, Tally, Latest

\* A total is a whole number.
LEMMA TotalType ==
  ASSUME Shapes, Tallies, NEW f \in {"entries", "delta", "occupied"}
  PROVE  Total(f) \in Int
<1> DEFINE l == [w \in Windows |-> Latest(w)[f]]
<1>1. \A w \in Windows : l[w] \in Int BY LatestType
<1> HIDE DEF l
<1>2. SumFunctionOnSet(l, Windows) \in Int BY <1>1, WindowsFinite, SumInt
<1> QED BY <1>2 DEF Total, l

\* Outside the pass no total changes.
LEMMA TotalKept ==
  ASSUME Shapes, Ordered, Next, Clean', ~Pass, NEW f
  PROVE  Total(f)' = Total(f)
<1>1. \A w \in Windows : Latest(w)'[f] = Latest(w)[f] BY LatestKept
<1>2. [w \in Windows |-> Latest(w)'[f]] = [w \in Windows |-> Latest(w)[f]] BY <1>1
<1> QED BY <1>2 DEF Total

\* A total grows by what its windows grow by.
LEMMA TotalGain ==
  ASSUME Shapes, Tallies, NEW f \in {"entries", "delta", "occupied"}, NEW g,
         \A w \in Windows : g[w] \in Int /\ Latest(w)'[f] = Latest(w)[f] + g[w]
  PROVE  Total(f)' = Total(f) + SumFunctionOnSet(g, Windows)
<1> DEFINE l == [w \in Windows |-> Latest(w)[f]]
           m == [w \in Windows |-> Latest(w)'[f]]
<1>1. \A w \in Windows : l[w] \in Int /\ g[w] \in Int /\ m[w] = l[w] + g[w] BY LatestType
<1>2. Total(f) = SumFunctionOnSet(l, Windows) /\ Total(f)' = SumFunctionOnSet(m, Windows)
  BY DEF Total
<1> HIDE DEF l, m
<1>3. ASSUME NEW i, NEW j, NEW h,
             \A w \in Windows : i[w] \in Int /\ j[w] \in Int /\ h[w] = i[w] + j[w]
      PROVE  SumFunctionOnSet(h, Windows)
               = SumFunctionOnSet(i, Windows) + SumFunctionOnSet(j, Windows)
  <2>1. IsFiniteSet(Windows) BY WindowsFinite
  <2> QED BY <1>3, <2>1, SumOfSums
<1>4. SumFunctionOnSet(m, Windows) = SumFunctionOnSet(l, Windows) + SumFunctionOnSet(g, Windows)
  BY <1>1, <1>3
<1> QED BY <1>2, <1>4

\* What a pass adds to the totals: the episode it enters, the rise it saw, and the
\* part of the interval for which the state held.
LEMMA TotalPass ==
  ASSUME Shapes, Finality, Tallies, Ordered, Clean, Pass
  PROVE  /\ Total("entries")' = Total("entries") + (IF subject = "policy" /\ Enters THEN 1 ELSE 0)
         /\ Total("delta")' = Total("delta") + (IF subject = "counter" /\ Accrues THEN rise ELSE 0)
         /\ Total("occupied")' = Total("occupied")
              + (IF subject = "policy" /\ Accrues /\ Since # None THEN now - From ELSE 0)
<1> USE AccrualAssumption
<1> DEFINE k == startOf(now)
           e == IF subject = "policy" /\ Enters THEN 1 ELSE 0
           d == IF subject = "counter" /\ Accrues THEN rise ELSE 0
           oc == IF subject = "policy" /\ Accrues /\ Since # None THEN now - From ELSE 0
           es == [w \in Windows |-> IF w = k THEN e ELSE 0]
           ds == [w \in Windows |-> IF w = k THEN d ELSE 0]
           os == [w \in Windows |-> Occupies(w)]
<1>1. k \in Windows BY StartsInWindows DEF Shapes
<1>2. e \in Nat OBVIOUS
<1>3. d \in Nat BY DEF rise, Tallies
<1>4. \A w \in Windows : os[w] \in Nat
  <2> SUFFICES ASSUME NEW w \in Windows PROVE Occupies(w) \in Nat OBVIOUS
  <2>1. CASE Accrues /\ Since # None
    <3>1. From \in Nat /\ From =< now /\ now \in Nat /\ w \in Nat
      BY <2>1, FromType, WindowsFinite DEF Shapes
    <3>2. Span(From, now, w) \in Nat BY <3>1, SpanTick
    <3> QED BY <3>2 DEF Occupies
  <2> QED BY <2>1 DEF Occupies
<1>5. SumFunctionOnSet(os, Windows) = oc
  <2>1. CASE subject = "policy" /\ Accrues /\ Since # None
    <3>1. From \in Nat /\ From =< now /\ now \in Nat /\ now =< MaxTime
      BY <2>1, FromType DEF Shapes
    <3>2. SumFunctionOnSet([w \in Windows |-> Span(From, now, w)], Windows) = now - From
      BY <3>1, SpanSum
    <3>3. os = [w \in Windows |-> Span(From, now, w)] BY <2>1 DEF Occupies
    <3> QED BY <2>1, <3>2, <3>3
  <2>2. CASE ~(subject = "policy" /\ Accrues /\ Since # None)
    <3>1. \A w \in Windows : os[w] = 0 BY <2>2 DEF Occupies
    <3> HIDE DEF os
    <3>2. SumFunctionOnSet(os, Windows) = 0 BY <3>1, WindowsFinite, SumZero
    <3> QED BY <2>2, <3>2
  <2> QED BY <2>1, <2>2
<1>6. \A w \in Windows : /\ Latest(w)'.entries = Latest(w).entries + es[w]
                         /\ Latest(w)'.delta = Latest(w).delta + ds[w]
                         /\ Latest(w)'.occupied = Latest(w).occupied + os[w]
                         /\ es[w] \in Nat /\ ds[w] \in Nat /\ os[w] \in Nat
  <2> SUFFICES ASSUME NEW w \in Windows
               PROVE  /\ Latest(w)'.entries = Latest(w).entries + es[w]
                      /\ Latest(w)'.delta = Latest(w).delta + ds[w]
                      /\ Latest(w)'.occupied = Latest(w).occupied + os[w]
                      /\ es[w] \in Nat /\ ds[w] \in Nat /\ os[w] \in Nat
    OBVIOUS
  <2>1. Gained(w, Observed[w],
               IF w = startOf(now) /\ subject = "policy" /\ Enters THEN 1 ELSE 0,
               IF w = startOf(now) /\ subject = "counter" /\ Accrues THEN rise ELSE 0,
               Occupies(w))
    BY ObservedTally DEF Clean
  <2>2. /\ es[w] = IF w = startOf(now) /\ subject = "policy" /\ Enters THEN 1 ELSE 0
        /\ ds[w] = IF w = startOf(now) /\ subject = "counter" /\ Accrues THEN rise ELSE 0
        /\ os[w] = Occupies(w)
    OBVIOUS
  <2>3. es[w] \in Nat /\ ds[w] \in Nat /\ os[w] \in Nat BY <1>2, <1>3, <1>4
  <2>4. Gained(w, Observed[w], es[w], ds[w], os[w]) BY <2>1, <2>2
  <2> HIDE DEF es, ds, os
  <2> QED BY <2>3, <2>4, LatestPass, SMTT(60)
<1>7. SumFunctionOnSet(es, Windows) = e
  <2>1. IsFiniteSet(Windows) /\ e \in Int BY <1>2, WindowsFinite
  <2> HIDE DEF e, k
  <2> QED BY <1>1, <2>1, SumSingle
<1>8. SumFunctionOnSet(ds, Windows) = d
  <2>1. IsFiniteSet(Windows) /\ d \in Int BY <1>3, WindowsFinite
  <2> HIDE DEF d, k
  <2> QED BY <1>1, <2>1, SumSingle
<1> HIDE DEF es, ds, os, e, d, oc
<1>9. Total("entries")' = Total("entries") + SumFunctionOnSet(es, Windows) BY <1>6, TotalGain
<1>10. Total("delta")' = Total("delta") + SumFunctionOnSet(ds, Windows) BY <1>6, TotalGain
<1>11. Total("occupied")' = Total("occupied") + SumFunctionOnSet(os, Windows) BY <1>6, TotalGain
<1> QED BY <1>5, <1>7, <1>8, <1>9, <1>10, <1>11 DEF e, d, oc

\* Every step of one process keeps its deltas what it saw the counter rise by.
LEMMA DeltasKept ==
  ASSUME Shapes, Finality, Tallies, Ordered, Deltas, Next
  PROVE  Deltas'
<1> SUFFICES ASSUME subject' = "counter", faults' = 0 PROVE Deltas' BY DEF Deltas
<1> DEFINE T == Total("delta")
<1>1. Clean' BY DEF Clean
<1>2. /\ Clean /\ phase = "up" /\ subject = "counter" /\ faults = 0
      /\ \/ Tick \/ Fail \/ Pass \/ Snapshots
         \/ PassEnds /\ batch = Nothing
         \/ \E w \in Windows : Write(w) \/ Leave(w)
  BY <1>1, CleanSteps DEF Clean
<1>3. /\ seen.at = None => T = 0 /\ rises.unseen = count
      /\ seen.at # None => T = seen.count - rises.unseen
      /\ seen.at = now => seen.count = count
  BY <1>2 DEF Deltas
<1>4. /\ now \in Nat /\ seen.at \in {None} \cup 0 .. now /\ count \in Nat /\ seen.count \in Nat
      /\ seen.count =< count /\ rises.unseen \in Nat
  BY DEF Shapes, Tallies
<1> SUFFICES /\ seen'.at = None => T' = 0 /\ rises'.unseen = count'
             /\ seen'.at # None => T' = seen'.count - rises'.unseen
             /\ seen'.at = now' => seen'.count = count'
  BY DEF Deltas
<1>5. ~Pass => T' = T BY <1>1, TotalKept
<1>6. T \in Int BY TotalType
<1> HIDE DEF T
<1>7. CASE Tick
  <2>1. PICK up \in Nat :
          /\ count' = count + up
          /\ rises'.unseen = IF seen.at = None THEN rises.unseen + up ELSE rises.unseen
    BY <1>2, <1>7, AccrualAssumption DEF Tick
  <2>2. UNCHANGED seen /\ now' = now + 1 BY <1>7 DEF Tick
  <2>3. ~Pass BY <2>2, <1>4 DEF Pass
  <2> QED BY <1>3, <1>4, <1>5, <2>1, <2>2, <2>3, SMTT(30) DEF None
<1>8. CASE Pass
  <2>1. /\ UNCHANGED <<now, count, rises>> /\ seen'.at = now /\ seen'.count = count
    BY <1>8 DEF Pass, ghosts
  <2>2. T' = T + (IF Accrues THEN rise ELSE 0) BY <1>2, <1>8, TotalPass DEF T
  <2> QED BY <1>3, <1>4, <1>6, <2>1, <2>2, SMTT(30) DEF Accrues, Known, rise, None
<1>9. CASE Fail \/ Snapshots \/ PassEnds \/ \E w \in Windows : Write(w) \/ Leave(w)
  <2>1. UNCHANGED <<now, count, rises, seen, passNow>>
    BY <1>9 DEF Fail, Snapshots, PassEnds, Write, Leave, process, ghosts
  <2>2. CASE Pass BY <1>8, <2>2
  <2>3. CASE ~Pass BY <1>3, <1>5, <2>1, <2>3
  <2> QED BY <2>2, <2>3
<1> QED BY <1>2, <1>7, <1>8, <1>9

\* A pass of one process counts an episode exactly when a run is pending, and leaves
\* none pending.
LEMMA EntersPending ==
  ASSUME Shapes, Episodes, subject = "policy", faults = 0
  PROVE  /\ Enters <=> Pending
         /\ Since # None => first # None /\ Since = first /\ last # None
                            /\ now - last =< UnavailableFor
         /\ first # None /\ Since # first => now - last > UnavailableFor /\ first < now
<1>1. /\ now \in Nat /\ seen.at \in {None} \cup 0 .. now
      /\ first \in {None} \cup 0 .. now /\ last \in {None} \cup 0 .. now
      /\ last # None => first # None /\ first =< last
  BY DEF Shapes
<1>2. /\ seen.at = None => now = 0 /\ open[startOf(now)].since = None
      /\ seen.at # None => now - seen.at =< PassGap
      /\ first = None <=> last = None
      /\ seen.since \in {None} \cup 0 .. now
      /\ seen.since # None => first # None /\ seen.since =< first /\ seen.since =< seen.at
      /\ first # None /\ ~Pending /\ seen.since # first => seen.at - last > UnavailableFor
  BY StartsInWindows DEF Episodes, Shapes
<1>3. PassGap \in Nat /\ UnavailableFor \in Nat /\ PassGap =< UnavailableFor
  BY TimingAssumption, AccrualAssumption
<1>4. Since = IF last = None \/ now - last > UnavailableFor THEN None ELSE first
  BY DEF Since, failingSince
<1>5. /\ Since # None => first # None /\ Since = first /\ last # None
                         /\ now - last =< UnavailableFor
      /\ first # None /\ Since # first => now - last > UnavailableFor /\ first < now
  BY <1>1, <1>2, <1>3, <1>4, SMTT(30) DEF None
<1>6. ASSUME Pending PROVE Enters
  <2>1. first # None /\ seen.at =< first /\ seen.since # first BY <1>6 DEF Pending
  <2>2. now - last =< UnavailableFor BY <1>1, <1>2, <1>3, <2>1, SMTT(30) DEF None
  <2>3. Since = first BY <1>1, <1>2, <1>3, <1>4, <2>1, <2>2, SMTT(30) DEF None
  <2> QED BY <1>2, <2>1, <2>3 DEF Enters, Known
<1>7. ASSUME Enters, ~Pending PROVE FALSE
  <2>1. Since # None /\ Since = first /\ last # None /\ now - last =< UnavailableFor
    BY <1>5, <1>7 DEF Enters
  <2>2. CASE seen.at = None
    <3>1. seen.since = None BY <1>1, <1>2, <2>2, SMTT(30) DEF None
    <3>2. seen.at =< first BY <1>1, <2>2, SMTT(30) DEF None
    <3> QED BY <1>7, <2>1, <3>1, <3>2 DEF Pending
  <2>3. CASE seen.at # None
    <3>1. seen.since # first BY <1>7, <2>1, <2>3 DEF Enters, Known
    <3>2. seen.at - last > UnavailableFor BY <1>2, <1>7, <2>1, <3>1
    <3> QED BY <1>1, <1>3, <2>1, <2>3, <3>2, SMTT(30) DEF None
  <2> QED BY <2>2, <2>3
<1> QED BY <1>5, <1>6, <1>7

\* record starts a run only when the pass has seen the one before it end, or names
\* the run the pass knows of.
LEMMA FailKept ==
  ASSUME Shapes, Episodes, subject = "policy", faults = 0, Fail, Total("entries")' = Total("entries")
  PROVE  Episodes'
<1> DEFINE E == Total("entries")
           New == last = None \/ now - last > StreakGap
<1>0. /\ UNCHANGED <<subject, now, open, seen, faults>> /\ due' = due \ {"fail"}
      /\ first' = (IF New THEN now ELSE first) /\ last' = now /\ failed' = now
      /\ runs' = IF failed = None \/ now - failed > StreakGap THEN runs \cup {now} ELSE runs
  BY DEF Fail, record, process
<1>1. /\ now \in Nat /\ seen.at \in {None} \cup 0 .. now
      /\ first \in {None} \cup 0 .. now /\ last \in {None} \cup 0 .. now
      /\ last # None => first # None /\ first =< last
  BY DEF Shapes
<1>2. /\ seen.at = None => now = 0 /\ "pass" \in due /\ \A w \in Windows : open[w].since = None
      /\ seen.at # None => now - seen.at =< PassGap
      /\ "pass" \notin due => seen.at = now
      /\ failed = last /\ (first = None <=> last = None) /\ (first = None => runs = {})
      /\ IsFiniteSet(runs) /\ runs \subseteq Nat
      /\ first # None => first \in runs /\ \A r \in runs : r =< first
      /\ seen.since \in {None} \cup 0 .. now
      /\ seen.since # None => first # None /\ seen.since =< first /\ seen.since =< seen.at
      /\ Pending => \A r \in runs : r # first => r < seen.at
      /\ first # None /\ ~Pending /\ seen.since # first => seen.at - last > UnavailableFor
      /\ E = Cardinality(runs) - (IF Pending THEN 1 ELSE 0)
  BY DEF Episodes
<1>3. PassGap \in Nat /\ UnavailableFor \in Nat /\ StreakGap \in Nat /\ 0 < StreakGap
      /\ PassGap =< StreakGap /\ StreakGap =< UnavailableFor
  BY TimingAssumption, AccrualAssumption
<1>4. /\ seen'.at = None => now' = 0 /\ "pass" \in due' /\ \A w \in Windows : open'[w].since = None
      /\ seen'.at # None => now' - seen'.at =< PassGap
      /\ "pass" \notin due' => seen'.at = now'
      /\ seen'.since \in {None} \cup 0 .. now'
  BY <1>0, <1>2
<1> DEFINE Rest ==
      /\ failed = last /\ (first = None <=> last = None) /\ (first = None => runs = {})
      /\ IsFiniteSet(runs) /\ runs \subseteq Nat
      /\ first # None => first \in runs /\ \A r \in runs : r =< first
      /\ seen.since # None => first # None /\ seen.since =< first /\ seen.since =< seen.at
      /\ Pending => \A r \in runs : r # first => r < seen.at
      /\ first # None /\ ~Pending /\ seen.since # first => seen.at - last > UnavailableFor
      /\ E = Cardinality(runs) - (IF Pending THEN 1 ELSE 0)
<1> SUFFICES Rest' BY <1>0, <1>4 DEF Episodes
<1>5. CASE New
  <2>1. first' = now /\ last' = now /\ failed' = now /\ runs' = runs \cup {now} /\ now # None
    BY <1>0, <1>1, <1>2, <1>5 DEF None
  <2>2. first # None => last # None /\ last < seen.at /\ last < now /\ first =< last
    BY <1>1, <1>2, <1>3, <1>5, SMTT(30) DEF None
  <2>3. \A r \in runs : r < seen.at /\ r < now
    <3> SUFFICES ASSUME NEW r \in runs PROVE r < seen.at /\ r < now OBVIOUS
    <3>1. first # None /\ r =< first /\ r \in Nat BY <1>2
    <3> QED BY <1>1, <2>2, <3>1, SMTT(30) DEF None
  <2>4. ~Pending BY <1>1, <2>2, SMTT(30) DEF Pending, None
  <2>5. seen.since # now BY <1>1, <1>2, <2>2, SMTT(30) DEF None
  <2>6. Pending'
    <3>1. seen.at =< now BY <1>1, SMTT(30) DEF None
    <3> QED BY <1>0, <2>1, <2>5, <3>1 DEF Pending
  <2>7. now \notin runs BY <1>1, <2>3
  <2>8. IsFiniteSet(runs') /\ Cardinality(runs') = Cardinality(runs) + 1 /\ Cardinality(runs) \in Nat
    BY <1>2, <2>1, <2>7, FS_AddElement, FS_CardinalityType
  <2>9. E' = Cardinality(runs') - 1 BY <1>2, <2>4, <2>8
  <2>10. \A r \in runs' : r =< now /\ (r # now => r < seen.at) BY <1>1, <1>2, <2>1, <2>3
  <2>11. seen.since # None => seen.since =< now /\ seen.since =< seen.at BY <1>1, <1>2, SMTT(30) DEF None
  <2>12. runs' \subseteq Nat /\ now \in runs' BY <1>1, <1>2, <2>1
  <2> QED BY <1>0, <2>1, <2>6, <2>8, <2>9, <2>10, <2>11, <2>12
<1>6. CASE ~New
  <2>1. first' = first /\ last' = now /\ failed' = now /\ runs' = runs
        /\ last # None /\ first # None
    BY <1>0, <1>1, <1>2, <1>6
  <2>2. Pending' <=> Pending BY <1>0, <2>1 DEF Pending
  <2>3. Pending \/ seen.since = first
    BY <1>1, <1>2, <1>3, <1>6, <2>1, SMTT(30) DEF None
  <2>4. now # None BY <1>1 DEF None
  <2> QED BY <1>0, <1>2, <2>1, <2>2, <2>3, <2>4
<1> QED BY <1>5, <1>6

\* Every step of one process counts the runs of failures.
LEMMA EpisodesKept ==
  ASSUME Shapes, Finality, Tallies, Ordered, Episodes, Next
  PROVE  Episodes'
<1> SUFFICES ASSUME subject' = "policy", faults' = 0 PROVE Episodes' BY DEF Episodes
<1> DEFINE E == Total("entries")
<1>1. Clean' BY DEF Clean
<1>2. /\ Clean /\ phase = "up" /\ subject = "policy" /\ faults = 0
      /\ \/ Tick \/ Fail \/ Pass \/ Snapshots
         \/ PassEnds /\ batch = Nothing
         \/ \E w \in Windows : Write(w) \/ Leave(w)
  BY <1>1, CleanSteps DEF Clean
<1>3. /\ now \in Nat /\ seen.at \in {None} \cup 0 .. now
      /\ first \in {None} \cup 0 .. now /\ last \in {None} \cup 0 .. now
      /\ last # None => first # None /\ first =< last
  BY DEF Shapes
<1>4. PassGap \in Nat /\ 0 < PassGap BY TimingAssumption
<1>5. ~Pass => E' = E BY <1>1, TotalKept
<1> DEFINE Early == /\ seen.at = None => /\ now = 0 /\ "pass" \in due
                                         /\ \A w \in Windows : open[w].since = None
                    /\ seen.at # None => now - seen.at =< PassGap
                    /\ "pass" \notin due => seen.at = now
           Known0 == /\ failed = last /\ (first = None <=> last = None) /\ (first = None => runs = {})
                     /\ IsFiniteSet(runs) /\ runs \subseteq Nat
                     /\ first # None => first \in runs /\ \A r \in runs : r =< first
           Later == /\ seen.since \in {None} \cup 0 .. now
                    /\ seen.since # None =>
                         first # None /\ seen.since =< first /\ seen.since =< seen.at
                    /\ Pending => \A r \in runs : r # first => r < seen.at
                    /\ first # None /\ ~Pending /\ seen.since # first =>
                         seen.at - last > UnavailableFor
                    /\ E = Cardinality(runs) - (IF Pending THEN 1 ELSE 0)
<1>6. Early /\ Known0 /\ Later BY <1>2 DEF Episodes
<1>7. ASSUME Early', Known0', Later' PROVE Episodes' BY <1>7 DEF Episodes
<1>8. CASE Tick
  <2>1. /\ UNCHANGED <<first, last, seen, runs, failed, open>> /\ now' = now + 1 /\ ~Owed
        /\ due' = {"pass", "check", "fail", "read"}
    BY <1>2, <1>8 DEF Tick, health
  <2>2. ~Pass BY <1>3, <2>1 DEF Pass
  <2>3. seen.at # None /\ now + 1 - seen.at =< PassGap
    <3>1. CASE "pass" \in due BY <1>3, <1>4, <2>1, <3>1, SMTT(30) DEF Owed, None
    <3>2. CASE "pass" \notin due BY <1>3, <1>4, <1>6, <3>2, SMTT(30) DEF None
    <3> QED BY <3>1, <3>2
  <2>4. Early'
    <3>1. "pass" \in due' BY <2>1
    <3>2. now' = now + 1 /\ seen' = seen BY <2>1
    <3>3. seen.at \in Nat BY <1>3, <2>3
    <3>4. seen'.at # None /\ now' - seen'.at =< PassGap BY <1>3, <1>4, <2>3, <3>2, <3>3, SMTT(30)
    <3> QED BY <3>1, <3>4
  <2>5. Known0' BY <1>6, <2>1
  <2>6. Pending' = Pending BY <2>1 DEF Pending
  <2>7. Later'
    <3>1. seen.since \in {None} \cup 0 .. now + 1 BY <1>3, <1>6
    <3> QED BY <1>5, <1>6, <2>1, <2>2, <2>6, <3>1
  <2> QED BY <1>7, <2>4, <2>5, <2>7
<1>9. CASE Fail /\ ~Pass
  BY <1>2, <1>5, <1>9, FailKept
<1>10. CASE Pass
  <2>1. /\ UNCHANGED <<now, first, last, runs, failed>> /\ due' = due \ {"pass"}
        /\ seen'.at = now /\ seen'.since = Since
    BY <1>10 DEF Pass, health, ghosts
  <2>2. E' = E + (IF Enters THEN 1 ELSE 0) BY <1>2, <1>10, TotalPass
  <2>3. /\ Enters <=> Pending
        /\ Since # None => first # None /\ Since = first /\ last # None
                           /\ now - last =< UnavailableFor
        /\ first # None /\ Since # first => now - last > UnavailableFor /\ first < now
    BY <1>2, EntersPending
  <2>4. Early' BY <1>3, <1>4, <2>1 DEF None
  <2>5. Known0' BY <1>6, <2>1
  <2>6. ~Pending' BY <1>3, <2>1, <2>3, SMTT(30) DEF Pending, None
  <2>7. E' = Cardinality(runs)
    <3>1. Cardinality(runs) \in Nat BY <1>6, FS_CardinalityType
    <3>2. E = Cardinality(runs) - (IF Pending THEN 1 ELSE 0) BY <1>6
    <3> HIDE DEF E
    <3> QED BY <2>2, <2>3, <3>1, <3>2
  <2>8. Cardinality(runs) - 0 = Cardinality(runs)
    <3>1. Cardinality(runs) \in Nat BY <1>6, FS_CardinalityType
    <3> QED BY <3>1
  <2>9. Since \in {None} \cup 0 .. now BY SinceType
  <2>10. Since # None => Since =< first /\ Since =< now BY <1>3, <2>3, <2>9, SMTT(30) DEF None
  <2>11. Later' BY <2>1, <2>3, <2>6, <2>7, <2>8, <2>9, <2>10
  <2> QED BY <1>7, <2>4, <2>5, <2>11
<1>11. CASE (Snapshots \/ PassEnds \/ \E w \in Windows : Write(w) \/ Leave(w)) /\ ~Pass
  <2>1. UNCHANGED <<now, first, last, seen, runs, failed, open, due>>
    BY <1>11 DEF Snapshots, PassEnds, Write, Leave, process, health, ghosts
  <2>2. Pending' = Pending BY <2>1 DEF Pending
  <2>3. Early' /\ Known0' BY <1>6, <2>1
  <2>4. Later' BY <1>5, <1>6, <1>11, <2>1, <2>2
  <2> QED BY <1>7, <2>3, <2>4
<1> QED BY <1>2, <1>8, <1>9, <1>10, <1>11

\* The clock counts one more tick for which the state held, or none.
LEMMA TrueTick ==
  ASSUME Shapes, Tallies, Tick, phase = "up"
  PROVE  /\ TrueTotal \in Int
         /\ TrueTotal' = TrueTotal
              + (IF last # None /\ now + 1 - last =< UnavailableFor THEN 1 ELSE 0)
<1> DEFINE k == startOf(now)
<1>1. k \in Windows /\ IsFiniteSet(Windows) BY StartsInWindows, WindowsFinite DEF Shapes
<1>2. \A w \in Windows : truth[w] \in Int BY DEF Tallies
<1>3. TrueTotal \in Int BY <1>1, <1>2, SumInt DEF TrueTotal
<1>4. CASE last # None /\ now + 1 - last =< UnavailableFor
  <2>1. truth' = [truth EXCEPT ![k] = truth[k] + 1] BY <1>4 DEF Tick
  <2>2. \A w \in Windows : truth'[w] \in Int /\ (w # k => truth[w] = truth'[w])
    BY <1>2, <2>1 DEF Tallies
  <2>3. truth'[k] - truth[k] = 1
    <3>1. truth'[k] = truth[k] + 1 BY <1>1, <2>1 DEF Tallies
    <3> QED BY <1>1, <1>2, <3>1
  <2>4. TrueTotal' = TrueTotal + (truth'[k] - truth[k])
    <3>1. ASSUME NEW f, NEW g, NEW x \in Windows,
                 \A w \in Windows : f[w] \in Int /\ g[w] \in Int,
                 \A w \in Windows : w # x => f[w] = g[w]
          PROVE  SumFunctionOnSet(g, Windows) = SumFunctionOnSet(f, Windows) + (g[x] - f[x])
      BY <1>1, <3>1, SumChange
    <3>2. \A w \in Windows : truth[w] \in Int /\ truth'[w] \in Int BY <1>2, <2>2
    <3>3. \A w \in Windows : w # k => truth[w] = truth'[w] BY <2>2
    <3> HIDE DEF k
    <3>4. SumFunctionOnSet(truth', Windows)
            = SumFunctionOnSet(truth, Windows) + (truth'[k] - truth[k])
      BY <1>1, <3>1, <3>2, <3>3
    <3> QED BY <3>4 DEF TrueTotal
  <2> QED BY <1>3, <1>4, <2>3, <2>4
<1>5. CASE ~(last # None /\ now + 1 - last =< UnavailableFor)
  <2>1. truth' = truth BY <1>5 DEF Tick
  <2>2. TrueTotal' = TrueTotal BY <2>1 DEF TrueTotal
  <2> QED BY <1>3, <1>5, <2>2
<1> QED BY <1>3, <1>4, <1>5

\* What one process says of its occupancy, with numbers for the totals.
Bounds(O, H, E) ==
  /\ seen.at = None => H = 0 /\ O = 0
  /\ seen.since # None => E >= 1 /\ H =< O + PassGap * (E - 1) + (now - seen.at)
  /\ seen.since = None => H =< O + PassGap * E + (IF Pending THEN now - first ELSE 0)
  /\ O =< H + PassGap * E
  /\ seen.since # None /\ first = seen.since /\ now - last =< UnavailableFor
       => O + (now - seen.at) =< H + PassGap * E
  /\ seen.since = None /\ Pending => O + (now - first) =< H + PassGap * E

\* The clock widens a bound only where the next pass will add the tick.
LEMMA BoundsTick ==
  ASSUME Shapes, Episodes, subject = "policy", faults = 0, phase = "up", Tick,
         NEW O \in Int, NEW H \in Int, NEW E \in Nat, Bounds(O, H, E), NEW J,
         J = H + (IF last # None /\ now + 1 - last =< UnavailableFor THEN 1 ELSE 0)
  PROVE  Bounds(O, J, E)'
<1> DEFINE p == PassGap * E
           q == PassGap * (E - 1)
<1>1. /\ now \in Nat /\ seen.at \in {None} \cup 0 .. now
      /\ first \in {None} \cup 0 .. now /\ last \in {None} \cup 0 .. now
      /\ last # None => first # None /\ first =< last
  BY DEF Shapes
<1>2. PassGap \in Nat /\ 0 < PassGap /\ UnavailableFor \in Nat /\ PassGap =< UnavailableFor
  BY TimingAssumption, AccrualAssumption
<1>3. /\ "pass" \notin due => seen.at = now
      /\ first = None <=> last = None
      /\ seen.since \in {None} \cup 0 .. now
      /\ seen.since # None => first # None /\ seen.since =< first /\ seen.since =< seen.at
      /\ first # None /\ ~Pending /\ seen.since # first => seen.at - last > UnavailableFor
  BY DEF Episodes
<1>4. /\ UNCHANGED <<first, last, seen>> /\ now' = now + 1 /\ ~Owed BY DEF Tick, health
<1>5. seen.at # None /\ now + 1 - seen.at =< PassGap
  <2>1. CASE "pass" \in due BY <1>1, <1>2, <1>4, <2>1, SMTT(30) DEF Owed, None
  <2>2. CASE "pass" \notin due BY <1>1, <1>2, <1>3, <2>2, SMTT(30) DEF None
  <2> QED BY <2>1, <2>2
<1>6. p \in Int /\ q \in Int BY <1>2
<1>7. Pending' = Pending BY <1>4 DEF Pending
<1>8. /\ seen.since # None => E >= 1 /\ H =< O + q + (now - seen.at)
      /\ seen.since = None => H =< O + p + (IF Pending THEN now - first ELSE 0)
      /\ O =< H + p
      /\ seen.since # None /\ first = seen.since /\ now - last =< UnavailableFor
           => O + (now - seen.at) =< H + p
      /\ seen.since = None /\ Pending => O + (now - first) =< H + p
  BY DEF Bounds
<1> HIDE DEF p, q
<1>9. J \in Int /\ H =< J /\ J =< H + 1 OBVIOUS
<1>10. seen.since # None => E >= 1 /\ J =< O + q + (now + 1 - seen.at)
  BY <1>1, <1>5, <1>6, <1>8, <1>9, SMTT(30) DEF None
<1>11. Pending => J = H + 1 /\ first # None
  <2> SUFFICES ASSUME Pending PROVE J = H + 1 /\ first # None OBVIOUS
  <2>1. first # None /\ seen.at =< first BY DEF Pending
  <2>2. last # None /\ now + 1 - last =< UnavailableFor
    BY <1>1, <1>2, <1>3, <1>5, <2>1, SMTT(30) DEF None
  <2> QED BY <2>1, <2>2
<1>12. ~Pending /\ seen.since = None => J = H
  <2> SUFFICES ASSUME ~Pending, seen.since = None, last # None, now + 1 - last =< UnavailableFor
               PROVE  FALSE
    BY <1>8
  <2>1. first # None /\ seen.since # first BY <1>1
  <2>2. seen.at - last > UnavailableFor BY <1>3, <2>1
  <2> QED BY <1>1, <1>2, <1>5, <2>2, SMTT(30) DEF None
<1>13. seen.since = None => J =< O + p + (IF Pending THEN now + 1 - first ELSE 0)
  <2>1. CASE Pending
    <3>1. first \in Nat BY <1>1, <1>11, <2>1
    <3>2. J = H + 1 BY <1>11, <2>1
    <3> QED BY <1>1, <1>6, <1>8, <2>1, <3>1, <3>2, SMTT(30)
  <2>2. CASE ~Pending BY <1>8, <1>12, <2>2
  <2> QED BY <2>1, <2>2
<1>14. O =< J + p
  <2> QED BY <1>6, <1>8, <1>9
<1>15. ASSUME seen.since # None, first = seen.since, now + 1 - last =< UnavailableFor
       PROVE  O + (now + 1 - seen.at) =< J + p
  <2>1. last # None BY <1>3, <1>15
  <2>2. J = H + 1 BY <1>15, <2>1
  <2>3. last \in Nat /\ seen.at \in Nat BY <1>1, <1>5, <2>1
  <2>4. now - last =< UnavailableFor BY <1>1, <1>2, <1>15, <2>3, SMTT(30)
  <2>5. O + (now - seen.at) =< H + p BY <1>8, <1>15, <2>4
  <2> QED BY <1>1, <1>6, <2>2, <2>3, <2>5, SMTT(30)
<1>16. ASSUME seen.since = None, Pending PROVE O + (now + 1 - first) =< J + p
  <2>1. J = H + 1 /\ first \in Nat BY <1>1, <1>11, <1>16
  <2>2. O + (now - first) =< H + p BY <1>8, <1>16
  <2> QED BY <1>1, <1>6, <2>1, <2>2, SMTT(30)
<1>17. /\ seen'.since # None => E >= 1 /\ J =< O + q + (now' - seen'.at)
       /\ seen'.since = None => J =< O + p + (IF Pending' THEN now' - first' ELSE 0)
       /\ seen'.since # None /\ first' = seen'.since /\ now' - last' =< UnavailableFor
           => O + (now' - seen'.at) =< J + p
       /\ seen'.since = None /\ Pending' => O + (now' - first') =< J + p
  <2> DEFINE n == now + 1
  <2>1. now' = n /\ first' = first /\ last' = last /\ seen' = seen BY <1>4
  <2>2. /\ seen.since # None => E >= 1 /\ J =< O + q + (n - seen.at)
        /\ seen.since = None => J =< O + p + (IF Pending THEN n - first ELSE 0)
        /\ seen.since # None /\ first = seen.since /\ n - last =< UnavailableFor
             => O + (n - seen.at) =< J + p
        /\ seen.since = None /\ Pending => O + (n - first) =< J + p
    <3>0. now \in Int /\ seen.at \in Int /\ first \in Int /\ last \in Int BY <1>1 DEF None
    <3>1. /\ now + 1 - seen.at = n - seen.at /\ now + 1 - first = n - first
          /\ now + 1 - last = n - last
      BY <3>0
    <3>2. seen.since # None => E >= 1 /\ J =< O + q + (n - seen.at) BY <1>10, <3>1
    <3>3. seen.since = None => J =< O + p + (IF Pending THEN n - first ELSE 0) BY <1>13, <3>1
    <3>4. seen.since # None /\ first = seen.since /\ n - last =< UnavailableFor
            => O + (n - seen.at) =< J + p
      BY <1>15, <3>1
    <3>5. seen.since = None /\ Pending => O + (n - first) =< J + p BY <1>16, <3>1
    <3> HIDE DEF n
    <3> QED BY <3>2, <3>3, <3>4, <3>5
  <2> HIDE DEF n
  <2> QED BY <1>7, <2>1, <2>2
<1>18. seen'.at # None BY <1>4, <1>5
<1> QED BY <1>14, <1>17, <1>18 DEF Bounds, p, q

\* A failure starts a run at its own instant, or lengthens the latest one.
LEMMA BoundsFail ==
  ASSUME Shapes, Episodes, subject = "policy", faults = 0, Fail,
         NEW O \in Int, NEW H \in Int, NEW E \in Nat, Bounds(O, H, E)
  PROVE  Bounds(O, H, E)'
<1> DEFINE p == PassGap * E
           q == PassGap * (E - 1)
           New == last = None \/ now - last > StreakGap
<1>0. /\ UNCHANGED <<now, seen>> /\ last' = now /\ first' = (IF New THEN now ELSE first)
  BY DEF Fail, record, process
<1>1. /\ now \in Nat /\ seen.at \in {None} \cup 0 .. now
      /\ first \in {None} \cup 0 .. now /\ last \in {None} \cup 0 .. now
      /\ last # None => first # None /\ first =< last
  BY DEF Shapes
<1>2. /\ PassGap \in Nat /\ UnavailableFor \in Nat /\ StreakGap \in Nat /\ 0 < StreakGap
      /\ PassGap =< StreakGap /\ StreakGap =< UnavailableFor
  BY TimingAssumption, AccrualAssumption
<1>3. /\ seen.at = None => now = 0
      /\ seen.at # None => now - seen.at =< PassGap
      /\ first = None <=> last = None
      /\ seen.since \in {None} \cup 0 .. now
      /\ seen.since # None => first # None /\ seen.since =< first /\ seen.since =< seen.at
  BY DEF Episodes
<1>4. p \in Int /\ q \in Int BY <1>2
<1>5. /\ seen.at = None => H = 0 /\ O = 0
      /\ seen.since # None => E >= 1 /\ H =< O + q + (now - seen.at)
      /\ seen.since = None => H =< O + p + (IF Pending THEN now - first ELSE 0)
      /\ O =< H + p
      /\ seen.since # None /\ first = seen.since /\ now - last =< UnavailableFor
           => O + (now - seen.at) =< H + p
      /\ seen.since = None /\ Pending => O + (now - first) =< H + p
  BY DEF Bounds
<1> HIDE DEF p, q
<1>6. CASE New
  <2>1. first' = now BY <1>0, <1>6
  <2>2. first # None => last # None /\ last < seen.at /\ last < now /\ first =< last
    BY <1>1, <1>2, <1>3, <1>6, SMTT(30) DEF None
  <2>3. ~Pending /\ seen.since # now BY <1>1, <1>3, <2>2, SMTT(30) DEF Pending, None
  <2>4. /\ O + (now - now) =< H + p
        /\ seen.since = None => H =< O + p + (now - now) /\ H =< O + p + 0
    BY <1>1, <1>4, <1>5, <2>3, SMTT(30)
  <2>5. /\ seen'.since = None => H =< O + p + (IF Pending' THEN now' - first' ELSE 0)
        /\ seen'.since = None /\ Pending' => O + (now' - first') =< H + p
        /\ ~(seen'.since # None /\ first' = seen'.since)
    BY <1>0, <2>1, <2>3, <2>4
  <2>6. /\ seen'.at = None => H = 0 /\ O = 0
        /\ seen'.since # None => E >= 1 /\ H =< O + q + (now' - seen'.at)
    BY <1>0, <1>5
  <2> QED BY <1>5, <2>5, <2>6 DEF Bounds, p, q
<1>7. CASE ~New
  <2>1. first' = first BY <1>0, <1>7
  <2>2. Pending' = Pending BY <1>0, <2>1 DEF Pending
  <2>3. now - last =< UnavailableFor BY <1>1, <1>2, <1>7, SMTT(30) DEF None
  <2>4. /\ seen'.since = None => H =< O + p + (IF Pending' THEN now' - first' ELSE 0)
        /\ seen'.since = None /\ Pending' => O + (now' - first') =< H + p
        /\ seen'.since # None /\ first' = seen'.since => O + (now' - seen'.at) =< H + p
    BY <1>0, <1>5, <2>1, <2>2, <2>3
  <2>5. /\ seen'.at = None => H = 0 /\ O = 0
        /\ seen'.since # None => E >= 1 /\ H =< O + q + (now' - seen'.at)
    BY <1>0, <1>5
  <2> QED BY <1>5, <2>4, <2>5 DEF Bounds, p, q
<1> QED BY <1>6, <1>7

\* A pass moves what the interval adds from the bound into the totals.
LEMMA BoundsPass ==
  ASSUME Shapes, Episodes, subject = "policy", faults = 0, Pass,
         NEW O \in Int, NEW H \in Int, NEW E \in Nat, Bounds(O, H, E),
         NEW P, P = O + (IF Accrues /\ Since # None THEN now - From ELSE 0),
         NEW F, F = E + (IF Enters THEN 1 ELSE 0)
  PROVE  Bounds(P, H, F)'
<1> DEFINE p == PassGap * E
           q == PassGap * (E - 1)
<1>0. UNCHANGED <<now, first, last>> /\ seen'.at = now /\ seen'.since = Since
  BY DEF Pass, health
<1>1. /\ now \in Nat /\ seen.at \in {None} \cup 0 .. now
      /\ first \in {None} \cup 0 .. now /\ last \in {None} \cup 0 .. now
      /\ last # None => first # None /\ first =< last
  BY DEF Shapes
<1>2. PassGap \in Nat /\ UnavailableFor \in Nat /\ 0 =< PassGap
  BY TimingAssumption, AccrualAssumption
<1>3. /\ seen.at # None => now - seen.at =< PassGap
      /\ seen.since \in {None} \cup 0 .. now
      /\ seen.since # None => first # None /\ seen.since =< first /\ seen.since =< seen.at
      /\ first # None /\ ~Pending /\ seen.since # first => seen.at - last > UnavailableFor
  BY DEF Episodes
<1>4. /\ p \in Int /\ q \in Int /\ 0 =< p /\ q = p - PassGap
      /\ PassGap * (E + 1) = p + PassGap /\ PassGap * ((E + 1) - 1) = p
  BY <1>2
<1>5. /\ seen.at = None => H = 0 /\ O = 0
      /\ seen.since # None => E >= 1 /\ H =< O + q + (now - seen.at)
      /\ seen.since = None => H =< O + p + (IF Pending THEN now - first ELSE 0)
      /\ O =< H + p
      /\ seen.since # None /\ first = seen.since /\ now - last =< UnavailableFor
           => O + (now - seen.at) =< H + p
      /\ seen.since = None /\ Pending => O + (now - first) =< H + p
  BY DEF Bounds
<1>6. /\ Enters <=> Pending
      /\ Since # None => first # None /\ Since = first /\ last # None
                         /\ now - last =< UnavailableFor
      /\ first # None /\ Since # first => now - last > UnavailableFor /\ first < now
  BY EntersPending
<1>7. ~Pending' BY <1>0, <1>1, <1>6, SMTT(30) DEF Pending, None
<1> DEFINE pp == PassGap * F
           qq == PassGap * (F - 1)
<1>8. IF Enters THEN F = E + 1 /\ pp = p + PassGap /\ qq = p ELSE F = E /\ pp = p /\ qq = q
  BY <1>4
<1>9. F \in Nat /\ pp \in Int /\ qq \in Int BY <1>2, <1>4, <1>8
<1> HIDE DEF p, q, pp, qq
<1>10. CASE Since = None
  <2>1. P = O /\ ~Enters BY <1>10 DEF Enters
  <2>2. F = E /\ pp = p BY <1>8, <2>1
  <2>3. H =< O + p + 0
    <3>1. CASE seen.since = None BY <1>5, <1>6, <2>1, <3>1
    <3>2. CASE seen.since # None
      <4>1. seen.at # None BY <1>1, <1>3, <3>2, SMTT(30) DEF None
      <4> QED BY <1>1, <1>2, <1>3, <1>4, <1>5, <3>2, <4>1, SMTT(30) DEF None
    <3> QED BY <3>1, <3>2
  <2>4. seen'.since = None BY <1>0, <1>10
  <2>5. H =< P + pp + (IF Pending' THEN now' - first' ELSE 0) BY <1>7, <2>1, <2>2, <2>3
  <2>6. P =< H + pp BY <1>5, <2>1, <2>2
  <2>7. seen'.at # None BY <1>0, <1>1 DEF None
  <2> QED BY <1>7, <2>4, <2>5, <2>6, <2>7 DEF Bounds, pp
<1>11. CASE Since # None
  <2>1. first # None /\ Since = first /\ last # None /\ now - last =< UnavailableFor
    BY <1>6, <1>11
  <2>2. first \in Nat /\ last \in Nat /\ first =< last /\ first =< now BY <1>1, <2>1
  <2>3. Pending \/ seen.since = first
    BY <1>1, <1>2, <1>3, <2>1, <2>2, SMTT(30) DEF None
  <2>4. Pending => seen.at =< first /\ seen.since # first BY DEF Pending
  <2>5. F >= 1 /\ H =< P + qq /\ P =< H + pp
    <3>1. CASE ~Accrues
      <4>1. P = O BY <3>1
      <4>2. seen.at = None \/ seen.at = now BY <1>1, <3>1, SMTT(30) DEF Accrues, Known, None
      <4>3. CASE Pending
        <5>1. F = E + 1 /\ pp = p + PassGap /\ qq = p BY <1>6, <1>8, <4>3
        <5>2. CASE seen.at = None BY <1>2, <1>4, <1>5, <4>1, <5>1, <5>2, SMTT(30)
        <5>3. CASE seen.at = now
          <6>1. first = now BY <1>1, <2>2, <2>4, <4>3, <5>3, SMTT(30)
          <6>2. H =< O + p
            <7>1. CASE seen.since = None BY <1>1, <1>4, <1>5, <4>3, <6>1, <7>1, SMTT(30)
            <7>2. CASE seen.since # None BY <1>1, <1>2, <1>4, <1>5, <5>3, <7>2, SMTT(30)
            <7> QED BY <7>1, <7>2
          <6> QED BY <1>2, <1>4, <1>5, <4>1, <5>1, <6>2, SMTT(30)
        <5> QED BY <4>2, <5>2, <5>3
      <4>4. CASE ~Pending
        <5>1. F = E /\ pp = p /\ qq = q BY <1>6, <1>8, <4>4
        <5>2. seen.since = first /\ seen.since # None BY <2>1, <2>3, <4>4
        <5>3. seen.at = now BY <1>1, <1>3, <2>2, <4>2, <5>2, SMTT(30) DEF None
        <5> QED BY <1>1, <1>2, <1>4, <1>5, <4>1, <5>1, <5>2, <5>3, SMTT(30)
      <4> QED BY <4>3, <4>4
    <3>2. CASE Accrues
      <4>1. seen.at \in Nat /\ seen.at < now /\ now - seen.at =< PassGap
        BY <1>1, <1>3, <3>2 DEF Accrues, Known
      <4>2. P = O + (now - From) BY <1>11, <3>2
      <4>3. CASE seen.since # None /\ ~Pending
        <5>1. From = seen.at /\ seen.since = first BY <2>3, <4>3 DEF From
        <5>2. F = E /\ pp = p /\ qq = q BY <1>6, <1>8, <4>3
        <5>3. P = O + (now - seen.at) BY <4>2, <5>1
        <5> QED BY <1>1, <1>2, <1>4, <1>5, <2>1, <4>1, <4>3, <5>1, <5>2, <5>3, SMTT(30)
      <4>4. CASE seen.since # None /\ Pending
        <5>1. From = seen.at BY <4>4 DEF From
        <5>2. F = E + 1 /\ pp = p + PassGap /\ qq = p BY <1>6, <1>8, <4>4
        <5>3. P = O + (now - seen.at) BY <4>2, <5>1
        <5> QED BY <1>1, <1>2, <1>4, <1>5, <4>1, <4>4, <5>2, <5>3, SMTT(30)
      <4>5. CASE seen.since = None
        <5>1. Pending BY <2>1, <2>3, <4>5
        <5>2. From = first BY <2>1, <2>2, <2>4, <4>1, <4>5, <5>1, SMTT(30) DEF From, Greatest
        <5>3. F = E + 1 /\ pp = p + PassGap /\ qq = p BY <1>6, <1>8, <5>1
        <5>4. P = O + (now - first) BY <4>2, <5>2
        <5> QED BY <1>1, <1>2, <1>4, <1>5, <2>2, <4>5, <5>1, <5>3, <5>4, SMTT(30)
      <4> QED BY <4>3, <4>4, <4>5
    <3> QED BY <3>1, <3>2
  <2>6. P \in Int
    <3>1. Accrues => From \in Nat BY <1>11, FromType
    <3> QED BY <1>1, <3>1
  <2>7. H =< P + qq + (now' - seen'.at) /\ P + (now' - seen'.at) =< H + pp
    BY <1>0, <1>1, <1>9, <2>5, <2>6, SMTT(30)
  <2>8. seen'.since # None /\ seen'.at # None BY <1>0, <1>1, <1>11 DEF None
  <2> QED BY <1>7, <2>5, <2>7, <2>8 DEF Bounds, pp, qq
<1> QED BY <1>10, <1>11

\* Every step of one process keeps its occupancy near the time the state held.
LEMMA OccupancyKept ==
  ASSUME Shapes, Finality, Tallies, Ordered, Episodes, Occupancy, Next, Tallies', Shapes'
  PROVE  Occupancy'
<1> SUFFICES ASSUME subject' = "policy", faults' = 0 PROVE Occupancy' BY DEF Occupancy
<1>1. Clean' BY DEF Clean
<1>2. /\ Clean /\ phase = "up" /\ subject = "policy" /\ faults = 0
      /\ \/ Tick \/ Fail \/ Pass \/ Snapshots
         \/ PassEnds /\ batch = Nothing
         \/ \E w \in Windows : Write(w) \/ Leave(w)
  BY <1>1, CleanSteps DEF Clean
<1>3. ASSUME NEW O, NEW H, NEW E, O = Total("occupied"), H = TrueTotal, E = Total("entries")
      PROVE  Bounds(O, H, E)
  BY <1>2, <1>3 DEF Occupancy, Bounds
<1>4. ASSUME NEW O, NEW H, NEW E, O = Total("occupied")', H = TrueTotal', E = Total("entries")',
             Bounds(O, H, E)'
      PROVE  Occupancy'
  BY <1>4 DEF Occupancy, Bounds
<1>5. PICK O, H, E : O = Total("occupied") /\ H = TrueTotal /\ E = Total("entries") OBVIOUS
<1>6. Bounds(O, H, E) BY <1>3, <1>5
<1>7. O \in Int BY <1>5, TotalType
<1>8. H \in Int
  <2>1. IsFiniteSet(Windows) BY WindowsFinite
  <2>2. \A w \in Windows : truth[w] \in Int BY DEF Tallies
  <2>3. TrueTotal \in Int BY <2>1, <2>2, SumInt DEF TrueTotal
  <2> QED BY <1>5, <2>3
<1>9. E \in Nat
  <2>1. /\ IsFiniteSet(runs) /\ E = Cardinality(runs) - (IF Pending THEN 1 ELSE 0)
        /\ first # None => first \in runs
    BY <1>2, <1>5 DEF Episodes
  <2>2. Pending => runs # {} BY <2>1 DEF Pending
  <2>3. Cardinality(runs) \in Nat /\ (Cardinality(runs) = 0 <=> runs = {})
    BY <2>1, FS_CardinalityType, FS_EmptySet
  <2> QED BY <2>1, <2>2, <2>3
<1>10. ~Pass => Total("occupied")' = O /\ Total("entries")' = E BY <1>1, <1>5, TotalKept
<1>11. CASE Tick
  <2>1. ~Pass BY <1>11 DEF Tick, Pass, Shapes
  <2>2. PICK J : J = TrueTotal' OBVIOUS
  <2>3. J = H + (IF last # None /\ now + 1 - last =< UnavailableFor THEN 1 ELSE 0)
    BY <1>2, <1>5, <1>11, <2>2, TrueTick
  <2>4. Bounds(O, J, E)' BY <1>2, <1>6, <1>7, <1>8, <1>9, <1>11, <2>3, BoundsTick
  <2> QED BY <1>4, <1>10, <2>1, <2>2, <2>4
<1>12. CASE Pass
  <2>1. PICK P, F : P = Total("occupied")' /\ F = Total("entries")' OBVIOUS
  <2>2. /\ P = O + (IF Accrues /\ Since # None THEN now - From ELSE 0)
        /\ F = E + (IF Enters THEN 1 ELSE 0)
    BY <1>2, <1>5, <1>12, <2>1, TotalPass
  <2>3. Bounds(P, H, F)' BY <1>2, <1>6, <1>7, <1>8, <1>9, <1>12, <2>2, BoundsPass
  <2>4. TrueTotal' = H BY <1>5, <1>12 DEF TrueTotal, Pass, ghosts
  <2> QED BY <1>4, <2>1, <2>3, <2>4
<1>13. CASE Fail /\ ~Pass
  <2>1. TrueTotal' = H BY <1>5, <1>13 DEF TrueTotal, Fail
  <2>2. Bounds(O, H, E)' BY <1>2, <1>6, <1>7, <1>8, <1>9, <1>13, BoundsFail
  <2> QED BY <1>4, <1>10, <1>13, <2>1, <2>2
<1>14. CASE (Snapshots \/ PassEnds \/ \E w \in Windows : Write(w) \/ Leave(w)) /\ ~Pass
  <2>1. UNCHANGED <<now, first, last, seen, truth>>
    BY <1>14 DEF Snapshots, PassEnds, Write, Leave, process, health, ghosts
  <2>2. TrueTotal' = H BY <1>5, <2>1 DEF TrueTotal
  <2>3. Bounds(O, H, E)' BY <1>6, <2>1 DEF Bounds, Pending
  <2> QED BY <1>4, <1>10, <1>14, <2>2, <2>3
<1> QED BY <1>2, <1>11, <1>12, <1>13, <1>14

-----------------------------------------------------------------------------
\* A new agent, with an empty spool, is within the invariant.
LEMMA InitIInv == Init => IInv
<1> SUFFICES ASSUME Init PROVE IInv OBVIOUS
<1> USE AccrualAssumption DEF Init
<1>1. \A w \in Windows : /\ open[w] = NoRecord /\ batch[w] = NoRecord
                         /\ file[w].rec = NoRecord /\ written[w].rec = NoRecord
                         /\ written[w].final = FALSE
  BY DEF Nothing, NoFile
<1>2. RecordInv BY InitRecords
<1>6. Tallies BY <1>1, NoRecordTally DEF Tallies, Unseen
<1>7. \A f \in {"entries", "delta", "occupied"} : Total(f) = 0
  <2> SUFFICES ASSUME NEW f \in {"entries", "delta", "occupied"} PROVE Total(f) = 0 OBVIOUS
  <2> DEFINE l == [w \in Windows |-> Latest(w)[f]]
  <2>1. \A w \in Windows : l[w] = 0 BY <1>1, NoRecordRec, NoRecordTally DEF Latest
  <2>2. IsFiniteSet(Windows) BY WindowsFinite
  <2> HIDE DEF l
  <2>3. SumFunctionOnSet(l, Windows) = 0 BY <2>1, <2>2, SumZero
  <2> QED BY <2>3 DEF Total, l
<1>8. Peaks = 0
  <2> DEFINE l == [w \in Windows |-> Peak(w)]
  <2>1. \A w \in Windows : l[w] = 0 BY <1>1, NoRecordTally DEF Peak, Greatest
  <2>2. IsFiniteSet(Windows) BY WindowsFinite
  <2> HIDE DEF l
  <2>3. SumFunctionOnSet(l, Windows) = 0 BY <2>1, <2>2, SumZero
  <2> QED BY <2>3 DEF Peaks, l
<1>9. TrueTotal = 0
  <2>1. IsFiniteSet(Windows) /\ \A w \in Windows : truth[w] = 0 BY WindowsFinite
  <2> QED BY <2>1, SumZero DEF TrueTotal
<1>10. seen.at = None /\ seen.since = None /\ seen.count = 0 BY DEF Unseen
<1>11. Counts BY <1>8, <1>10 DEF Counts
<1>12. Ordered BY <1>1, NoRecordRec DEF Ordered
<1>13. Deltas BY <1>7, <1>10 DEF Deltas, None
<1>14. ~Pending BY DEF Pending
<1>15. Episodes
  <2>1. Cardinality({}) = 0 /\ IsFiniteSet({}) BY FS_EmptySet
  <2>2. Total("entries") = Cardinality(runs) - (IF Pending THEN 1 ELSE 0)
    BY <1>7, <1>14, <2>1
  <2>3. \A w \in Windows : open[w].since = None BY <1>1, NoRecordTally
  <2> QED BY <1>10, <1>14, <2>1, <2>2, <2>3 DEF Episodes
<1>16. Occupancy
  <2>1. PassGap * 0 = 0 BY TimingAssumption
  <2> QED BY <1>7, <1>9, <1>10, <1>14, <2>1 DEF Occupancy
<1> QED BY <1>2, <1>6, <1>11, <1>12, <1>13, <1>15, <1>16 DEF IInv

\* Every step keeps the invariant.
LEMMA Inductive == IInv /\ [Next]_vars => IInv'
<1> SUFFICES ASSUME IInv, [Next]_vars PROVE IInv' OBVIOUS
<1>0. RecordInv' BY RecordsInductive DEF IInv
<1>1. CASE Next
  <2>1. Shapes /\ Blind /\ Finality /\ Spans /\ Readings BY DEF IInv, RecordInv
  <2>2. Shapes' /\ Blind' /\ Finality' /\ Spans' /\ Readings' BY <1>0 DEF RecordInv
  <2>3. Tallies' BY <1>1, <2>1, TalliesKept DEF IInv
  <2>4. Counts' /\ Ordered' /\ Deltas' /\ Episodes'
    BY <1>1, <2>1, <2>3, CountsKept, OrderedKept, DeltasKept, EpisodesKept DEF IInv
  <2>5. Occupancy' BY <1>1, <2>1, <2>2, <2>3, OccupancyKept DEF IInv
  <2> QED BY <1>0, <2>3, <2>4, <2>5 DEF IInv
<1>2. CASE UNCHANGED vars
  <2> USE <1>2 DEF vars, health, process, files, ghosts
  <2>1. Tallies' BY DEF IInv, Tallies
  <2>2. Counts' BY DEF IInv, Counts, Peaks, Peak
  <2>3. Ordered' BY DEF IInv, Ordered, Clean
  <2>4. \A f \in {"entries", "delta", "occupied"} : Total(f)' = Total(f) BY DEF Total, Latest
  <2>5. Deltas' BY <2>4 DEF IInv, Deltas
  <2>6. Episodes' BY <2>4 DEF IInv, Episodes, Pending
  <2>7. Occupancy' BY <2>4 DEF IInv, Occupancy, Pending, TrueTotal
  <2> QED BY <1>0, <2>1, <2>2, <2>3, <2>5, <2>6, <2>7 DEF IInv
<1> QED BY <1>1, <1>2

\* The invariant holds in every reachable state.
LEMMA Invariant == Spec => []IInv
BY InitIInv, Inductive, PTL DEF Spec

\* The entries of one process are the runs of failures that began before its last pass:
\* sampling at the pass misses none and counts none twice.  About failingSince and enter.
THEOREM EpisodesAreCounted == Spec => []EpisodesCounted
<1>1. IInv => EpisodesCounted
  <2> SUFFICES ASSUME IInv, subject = "policy", faults = 0
               PROVE  /\ Cardinality({r \in runs : r < seen.at}) =< Total("entries")
                      /\ Total("entries") =< Cardinality({r \in runs : r =< seen.at})
    BY DEF EpisodesCounted
  <2> DEFINE before == {r \in runs : r < seen.at}
             until == {r \in runs : r =< seen.at}
             others == runs \ {first}
  <2>1. /\ first = None => runs = {}
        /\ IsFiniteSet(runs) /\ runs \subseteq Nat
        /\ first # None => first \in runs /\ \A r \in runs : r =< first
        /\ seen.since # None => first # None /\ seen.since =< first /\ seen.since =< seen.at
        /\ Pending => \A r \in runs : r # first => r < seen.at
        /\ Total("entries") = Cardinality(runs) - (IF Pending THEN 1 ELSE 0)
    BY DEF IInv, Episodes
  <2>2. first \in Int /\ seen.at \in Int
    <3>1. first \in {None} \cup 0 .. now /\ seen.at \in {None} \cup 0 .. now
      BY DEF IInv, RecordInv, Shapes
    <3> QED BY <3>1, SMTT(30) DEF None
  <2>3. before \subseteq runs /\ until \subseteq runs OBVIOUS
  <2>4. /\ IsFiniteSet(before) /\ IsFiniteSet(until)
        /\ Cardinality(runs) \in Nat /\ Cardinality(before) \in Nat /\ Cardinality(until) \in Nat
        /\ Cardinality(before) =< Cardinality(runs)
    BY <2>1, <2>3, FS_Subset, FS_CardinalityType
  <2>5. CASE Pending
    <3>1. first \in runs /\ seen.at =< first BY <2>1, <2>5 DEF Pending
    <3>2. before \subseteq others BY <2>1, <2>2, <3>1
    <3>3. others \subseteq until BY <2>1, <2>2, <2>5
    <3>4. IsFiniteSet(others) /\ Cardinality(others) = Cardinality(runs) - 1
      BY <2>1, <3>1, FS_RemoveElement
    <3>5. Cardinality(before) =< Cardinality(others) BY <3>2, <3>4, FS_Subset
    <3>6. Cardinality(others) =< Cardinality(until) BY <2>4, <3>3, FS_Subset
    <3>7. Total("entries") = Cardinality(others) BY <2>1, <2>5, <3>4
    <3> QED BY <3>5, <3>6, <3>7
  <2>6. CASE ~Pending
    <3>1. runs \subseteq until
      <4> SUFFICES ASSUME NEW r \in runs PROVE r =< seen.at OBVIOUS
      <4>1. first # None /\ r =< first /\ r \in Nat BY <2>1
      <4>2. seen.at > first \/ seen.since = first BY <2>2, <2>6, <4>1 DEF Pending
      <4>3. first =< seen.at BY <2>1, <2>2, <4>1, <4>2
      <4> QED BY <2>2, <4>1, <4>3
    <3>2. until = runs BY <2>3, <3>1
    <3>3. Total("entries") = Cardinality(runs)
      <4>1. Total("entries") = Cardinality(runs) - 0 BY <2>1, <2>6
      <4> QED BY <2>4, <4>1
    <3> QED BY <2>4, <3>2, <3>3
  <2> QED BY <2>5, <2>6
<1> QED BY <1>1, Invariant, PTL

\* No span is measured twice and, in one process, what it says the state occupied is
\* within a pass per episode of the time for which the state held.
\* About split, States.accrue, Resume and failingSince.
THEOREM OccupancyIsAccounted == Spec => []OccupancyAccounted
<1> DEFINE Near == (subject = "policy" /\ faults = 0 /\ seen.at = now /\ step = "idle") =>
                     LET held == SumFunctionOnSet(truth, Windows) IN
                     /\ Total("occupied") =< held + PassGap * Total("entries")
                     /\ held =< Total("occupied") + PassGap * Total("entries")
<1>1. IInv => Near
  <2> SUFFICES ASSUME IInv, subject = "policy", faults = 0, seen.at = now
               PROVE  /\ Total("occupied") =< TrueTotal + PassGap * Total("entries")
                      /\ TrueTotal =< Total("occupied") + PassGap * Total("entries")
    BY DEF TrueTotal
  <2> DEFINE O == Total("occupied")
             H == TrueTotal
             E == Total("entries")
             p == PassGap * E
             q == PassGap * (E - 1)
  <2>1. /\ seen.since # None => H =< O + q + (now - seen.at)
        /\ seen.since = None => H =< O + p + (IF Pending THEN now - first ELSE 0)
        /\ O =< H + p
    BY DEF IInv, Occupancy
  <2>2. O \in Int /\ E \in Int BY TotalType DEF IInv, RecordInv
  <2>3. H \in Int
    <3>1. IsFiniteSet(Windows) /\ \A w \in Windows : truth[w] \in Int
      BY WindowsFinite DEF IInv, Tallies
    <3> QED BY <3>1, SumInt DEF TrueTotal
  <2>4. PassGap \in Nat /\ 0 < PassGap /\ UnavailableFor \in Nat BY TimingAssumption
  <2> HIDE DEF O, H, E
  <2>5. p \in Int /\ q = p - PassGap BY <2>2, <2>4
  <2>6. /\ now \in Nat /\ first \in {None} \cup 0 .. now /\ last \in {None} \cup 0 .. now
        /\ last # None => first # None /\ first =< last
    BY DEF IInv, RecordInv, Shapes
  <2>7. Pending => now = first BY <2>6, SMTT(30) DEF Pending, None
  <2> HIDE DEF p, q
  <2>8. H =< O + p
    <3>1. CASE seen.since # None BY <2>1, <2>2, <2>3, <2>4, <2>5, <2>6, <3>1, SMTT(30)
    <3>2. CASE seen.since = None BY <2>1, <2>2, <2>3, <2>5, <2>6, <2>7, <3>2, SMTT(30)
    <3> QED BY <3>1, <3>2
  <2> QED BY <2>1, <2>8 DEF O, H, E, p
<1>2. SpansAccounted /\ Near => OccupancyAccounted BY DEF OccupancyAccounted
<1> HIDE DEF Near
<1> QED BY <1>1, <1>2, Invariant, SpansAreAccounted, PTL

\* A rise of a counter is counted once or, across a restart, not at all, and so is a
\* reading.  About Counters.Observe, Goroutines.Observe, CloseBefore and Resume.
THEOREM RisesAreCountedOnce == Spec => []CountedOnce
<1> DEFINE Once == subject = "counter" =>
                     /\ Total("delta") =< rises.all - rises.unseen
                     /\ faults = 0 /\ seen.at # None => Total("delta") = seen.count - rises.unseen
<1>1. IInv => Once
  <2> SUFFICES ASSUME IInv, subject = "counter"
               PROVE  /\ Total("delta") =< rises.all - rises.unseen
                      /\ faults = 0 /\ seen.at # None => Total("delta") = seen.count - rises.unseen
    OBVIOUS
  <2> DEFINE l == [w \in Windows |-> Latest(w)["delta"]]
             k == [w \in Windows |-> Peak(w)]
  <2>1. \A w \in Windows : l[w] \in Int /\ k[w] \in Int /\ l[w] =< k[w]
    <3> SUFFICES ASSUME NEW w \in Windows
                 PROVE  Latest(w).delta \in Int /\ Peak(w) \in Int /\ Latest(w).delta =< Peak(w)
      OBVIOUS
    <3>1. Latest(w).delta \in Nat BY LatestType DEF IInv, RecordInv
    <3> QED BY <3>1, PeakType DEF IInv, Latest
  <2>2. IsFiniteSet(Windows) BY WindowsFinite
  <2>3. Total("delta") = SumFunctionOnSet(l, Windows) /\ Peaks = SumFunctionOnSet(k, Windows)
    BY DEF Total, Peaks
  <2> HIDE DEF l, k
  <2>4. SumFunctionOnSet(l, Windows) =< SumFunctionOnSet(k, Windows) BY <2>1, <2>2, SumMonotone
  <2>5. SumFunctionOnSet(l, Windows) \in Int /\ SumFunctionOnSet(k, Windows) \in Int
    BY <2>1, <2>2, SumInt
  <2>6. /\ Peaks + (IF seen.at = None THEN 0 ELSE count - seen.count) =< rises.all - rises.unseen
        /\ count \in Nat /\ seen.count \in Nat /\ seen.count =< count
        /\ rises.all \in Nat /\ rises.unseen \in Nat
    BY DEF IInv, Counts, Tallies
  <2>7. Total("delta") =< rises.all - rises.unseen BY <2>3, <2>4, <2>5, <2>6, SMTT(30)
  <2> QED BY <2>7 DEF IInv, Deltas
<1>2. Once /\ ReadingsAccounted => CountedOnce BY DEF CountedOnce
<1> HIDE DEF Once
<1> QED BY <1>1, <1>2, Invariant, ReadingsAreAccounted, PTL
=============================================================================
