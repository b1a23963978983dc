---------------------------- MODULE AccrualProofs ----------------------------
(***************************************************************************)
(* Proofs about what the agent accrues by window, for every window length, *)
(* gap, streak, cap and bound: its records, one by one.  TotalsProofs goes *)
(* on to what they count together.                                         *)
(*                                                                         *)
(* The inductive invariant has a part for each property:                   *)
(*   - Blind: a process that is refused in a row has recorded the whole    *)
(*     run, and the watchdog has looked at all of it but the last tick;    *)
(*   - Finality: a window is forgotten with the pass that ends it, so      *)
(*     nothing that is left, or that a later pass can add, is in a window  *)
(*     whose final payload is written;                                     *)
(*   - Spans: what a record has observed and the interval that the next    *)
(*     pass will add are together no more than the window was watched;     *)
(*   - Readings: a window's readings are in one place, or are late.        *)
(***************************************************************************)
EXTENDS Accrual, TLAPS

\* Every leaf goes to Zenon first: most are first-order, and a leaf that needs
\* arithmetic is soon given up.
USE ZenonT(3), SMTT(30)

\* The fields of a record, of whichever journal.
Fields == {"held", "observed", "to", "occupied", "entries", "since", "delta", "samples", "dropped"}

\* A record as the journals keep it.
Rec(r) ==
  /\ DOMAIN r = Fields /\ r.held \in BOOLEAN
  /\ r.observed \in Nat /\ r.occupied \in Nat /\ r.samples \in Nat /\ r.dropped \in Nat
  /\ ~r.held => r.samples = 0 /\ r.dropped = 0

\* Types, and what a process that is down or between passes does not have.
Shapes ==
  /\ now \in 0 .. MaxTime /\ passNow \in 0 .. now /\ faults \in Nat
  /\ seen.at \in {None} \cup 0 .. now /\ reading \in {None} \cup 0 .. now
  /\ first \in {None} \cup 0 .. now /\ last \in {None} \cup 0 .. now
  /\ last # None => first # None /\ first =< last
  /\ DOMAIN open = Windows /\ DOMAIN batch = Windows
  /\ DOMAIN file = Windows /\ DOMAIN written = Windows
  /\ \A w \in Windows : /\ Rec(open[w]) /\ Rec(batch[w])
                        /\ Rec(file[w].rec) /\ Rec(written[w].rec)
  /\ watched \in [Windows -> Nat] /\ filed \in [Windows -> Nat]
  /\ phase \in {"up", "stopping", "down"} /\ step \in {"idle", "closed", "writing"}
  /\ step # "idle" => passNow = now /\ seen.at = now
  /\ phase = "down" => seen.at = None /\ step = "idle"
  /\ reading # None => subject = "goroutines"

\* record and watchdog: how long the refusals of this process have lasted.
Blind ==
  subject = "gating" =>
    /\ refused \in Nat /\ refused =< FatalStreak + 2
    /\ phase = "down" => refused = 0
    /\ phase = "up" /\ refused > 0 =>
         /\ last = (IF "fail" \in due THEN now - 1 ELSE now)
         /\ last # None /\ refused =< last - first + 1
    /\ phase = "up" => refused =< FatalStreak + (IF "check" \in due THEN 1 ELSE 0)
                                              + (IF "fail" \in due THEN 0 ELSE 1)

\* CloseBefore: nothing of a window is left once its final payload is written.
Finality ==
  subject # "goroutines" =>
    \A w \in Windows :
      /\ seen.at # None /\ WindowEnd(w) =< seen.at => ~open[w].held
      /\ written[w].final => /\ WindowEnd(w) =< now /\ ~open[w].held /\ ~batch[w].held
                             /\ seen.at = None \/ WindowEnd(w) =< seen.at

\* What a record may say of a window that was watched for n ticks.
Within(r, n) == r.observed =< n /\ r.occupied =< r.observed

\* accrue: the interval since the last pass is still to be added to its windows.
Spans ==
  \A w \in Windows :
    /\ Within(open[w], watched[w]) /\ Within(batch[w], watched[w])
    /\ Within(file[w].rec, watched[w]) /\ Within(written[w].rec, watched[w])
    /\ seen.at # None => open[w].observed + Span(seen.at, now, w) =< watched[w]

\* Where the readings of a window are while nothing went wrong.
InPlace(w) ==
  /\ written[w].rec.held /\ ~written[w].final => open[w].held \/ batch[w].held
  /\ batch[w].held /\ WindowEnd(w) > passNow => open[w].held
  /\ step # "idle" /\ WindowEnd(w) =< passNow /\ w \notin late => ~open[w].held
  /\ w \notin late => Latest(w).samples + Latest(w).dropped = filed[w]

\* Goroutines.Observe: the cap of a series, and its readings until something fails.
Readings ==
  subject = "goroutines" =>
    /\ phase # "up" => faults > 0
    /\ \A w \in Windows :
         /\ open[w].samples =< Cap
         /\ batch[w].samples =< Cap \/ WindowEnd(w) =< passNow
         /\ file[w].rec.samples =< Cap \/ WindowEnd(w) =< now
         /\ step = "closed" /\ WindowEnd(w) > passNow => ~batch[w].held
         /\ step = "idle" => ~batch[w].held
         /\ faults = 0 => InPlace(w)

\* The inductive invariant.
RecordInv == Shapes /\ Blind /\ Finality /\ Spans /\ Readings

-----------------------------------------------------------------------------
\* startOf and WindowEnd: an instant is within the window it starts.
LEMMA Starts ==
  ASSUME NEW at \in Nat
  PROVE  /\ startOf(at) \in Nat
         /\ \A w \in Nat : /\ startOf(at) < w <=> at < w * Length
                           /\ w < startOf(at) <=> WindowEnd(w) =< at
<1> USE AccrualAssumption DEF startOf, WindowEnd
<1> DEFINE q == at \div Length
<1>1. q \in Nat /\ q * Length =< at /\ at < (q + 1) * Length OBVIOUS
<1> HIDE DEF q
<1> SUFFICES ASSUME NEW w \in Nat
             PROVE  /\ q < w <=> at < w * Length
                    /\ w < q <=> WindowEnd(w) =< at
  BY <1>1 DEF q
<1>2. ASSUME NEW a \in Nat, NEW b \in Nat, a < b PROVE (a + 1) * Length =< b * Length
  <2> DEFINE d == b - (a + 1)
  <2>1. d \in Nat /\ b = (a + 1) + d BY <1>2
  <2> HIDE DEF d
  <2>2. b * Length = (a + 1) * Length + d * Length BY <2>1
  <2>3. d * Length >= 0 /\ d * Length \in Int /\ (a + 1) * Length \in Int BY <2>1
  <2> QED BY <2>2, <2>3
<1>3. q = w => w * Length =< at /\ at < WindowEnd(w) BY <1>1
<1>4. q < w => at < w * Length
  <2>1. q < w => (q + 1) * Length =< w * Length BY <1>1, <1>2
  <2> QED BY <1>1, <2>1
<1>5. w < q => WindowEnd(w) =< at
  <2>1. w < q => (w + 1) * Length =< q * Length BY <1>1, <1>2
  <2> QED BY <1>1, <2>1
<1>6. w * Length \in Int /\ WindowEnd(w) \in Int /\ w * Length < WindowEnd(w) OBVIOUS
<1> QED BY <1>1, <1>3, <1>4, <1>5, <1>6

\* An instant the clock can show is in a window the model has.
LEMMA StartsInWindows ==
  ASSUME NEW at \in 0 .. MaxTime
  PROVE  startOf(at) \in Windows
<1> USE AccrualAssumption
<1>1. at \in Nat /\ at =< MaxTime OBVIOUS
<1>2. startOf(at) \in Nat /\ ~(at < startOf(at) * Length) BY <1>1, Starts
<1>3. startOf(MaxTime) \in Nat
      /\ (startOf(MaxTime) < startOf(at) <=> MaxTime < startOf(at) * Length)
  BY <1>2, Starts
<1>4. startOf(at) * Length \in Int BY <1>2
<1>5. startOf(at) =< startOf(MaxTime) BY <1>1, <1>2, <1>3, <1>4
<1> QED BY <1>2, <1>3, <1>5 DEF Windows, startOf

\* split: an interval has no length where it ends, a later start shortens it, and
\* a tick lengthens it in the window of the tick alone.
LEMMA SpanFacts ==
  ASSUME NEW from \in Nat, NEW to \in Nat, from =< to, NEW w \in Nat
  PROVE  /\ Span(from, to, w) \in Nat /\ Span(to, to, w) = 0
         /\ \A mid \in Nat : from =< mid => Span(mid, to, w) \in Nat
                                           /\ Span(mid, to, w) =< Span(from, to, w)
         /\ Span(from, to + 1, w) =< Span(from, to, w) + (IF startOf(to) = w THEN 1 ELSE 0)
<1> USE AccrualAssumption
<1> DEFINE a == w * Length
           b == WindowEnd(w)
<1>1. a \in Nat /\ b \in Nat /\ a < b BY DEF WindowEnd
<1>2. startOf(to) \in Nat /\ (startOf(to) < w <=> to < a) /\ (w < startOf(to) <=> b =< to)
  BY Starts
<1>3. startOf(to) = w <=> a =< to /\ to < b BY <1>1, <1>2
<1>4. \A x, y : Span(x, y, w) = Greatest(0, Least(y, b) - Greatest(x, a)) BY DEF Span
<1> HIDE DEF a, b
<1>5. Span(from, to, w) \in Nat /\ Span(to, to, w) = 0
  BY <1>1, <1>4 DEF Greatest, Least
<1>6. \A mid \in Nat : from =< mid => Span(mid, to, w) \in Nat
                                    /\ Span(mid, to, w) =< Span(from, to, w)
  BY <1>1, <1>4 DEF Greatest, Least
<1>7. Span(from, to + 1, w) =< Span(from, to, w) + (IF startOf(to) = w THEN 1 ELSE 0)
  BY <1>1, <1>3, <1>4 DEF Greatest, Least
<1> QED BY <1>5, <1>6, <1>7

-----------------------------------------------------------------------------
\* The records.

\* A record that is looked at is held.
LEMMA HeldRec ==
  ASSUME NEW r, Rec(r)
  PROVE  /\ Rec(Held(r)) /\ Held(r).held
         /\ Held(r).observed = r.observed /\ Held(r).occupied = r.occupied
         /\ Held(r).samples = r.samples /\ Held(r).dropped = r.dropped
<1>1. DOMAIN Held(r) = Fields /\ Held(r).held = TRUE
      /\ Held(r).observed = r.observed /\ Held(r).occupied = r.occupied
      /\ Held(r).samples = r.samples /\ Held(r).dropped = r.dropped
  BY DEF Held, Rec, Fields
<1> QED BY <1>1 DEF Rec

\* Goroutines.Observe: a reading is a sample within the cap, or it is dropped.
LEMMA SampleRec ==
  ASSUME NEW r, Rec(r)
  PROVE  /\ Rec(sample(r)) /\ sample(r).held
         /\ sample(r).observed = r.observed /\ sample(r).occupied = r.occupied
         /\ sample(r).samples + sample(r).dropped = r.samples + r.dropped + 1
         /\ r.samples =< Cap => sample(r).samples =< Cap
<1> USE AccrualAssumption
<1> DEFINE h == Held(r)
<1>1. /\ Rec(h) /\ h.held
      /\ h.observed = r.observed /\ h.occupied = r.occupied
      /\ h.samples = r.samples /\ h.dropped = r.dropped
  BY HeldRec
<1>2. r.samples \in Nat /\ r.dropped \in Nat BY DEF Rec
<1>3. sample(r) = IF r.samples >= Cap THEN [h EXCEPT !.dropped = h.dropped + 1]
                  ELSE [h EXCEPT !.samples = h.samples + 1]
  BY DEF sample
<1> HIDE DEF h
<1>4. CASE r.samples >= Cap
  <2>1. sample(r) = [h EXCEPT !.dropped = h.dropped + 1] BY <1>3, <1>4
  <2>2. /\ DOMAIN sample(r) = Fields /\ sample(r).held = h.held
        /\ sample(r).observed = h.observed /\ sample(r).occupied = h.occupied
        /\ sample(r).samples = h.samples /\ sample(r).dropped = h.dropped + 1
    BY <1>1, <2>1 DEF Rec, Fields
  <2> QED BY <1>1, <1>2, <2>2 DEF Rec
<1>5. CASE ~(r.samples >= Cap)
  <2>1. sample(r) = [h EXCEPT !.samples = h.samples + 1] BY <1>3, <1>5
  <2>2. /\ DOMAIN sample(r) = Fields /\ sample(r).held = h.held
        /\ sample(r).observed = h.observed /\ sample(r).occupied = h.occupied
        /\ sample(r).samples = h.samples + 1 /\ sample(r).dropped = h.dropped
    BY <1>1, <2>1 DEF Rec, Fields
  <2> QED BY <1>1, <1>2, <1>5, <2>2 DEF Rec
<1> QED BY <1>4, <1>5

\* What Snapshots adds to what CloseBefore closed.
LEMMA BothRec ==
  ASSUME NEW a, NEW b, Rec(a), Rec(b)
  PROVE  /\ Rec(Both(a, b)) /\ Both(a, b).held = (a.held \/ b.held)
         /\ ~a.held => Both(a, b) \in {a, b}
         /\ ~b.held => Both(a, b) = a
         /\ \A n : Within(a, n) /\ Within(b, n) => Within(Both(a, b), n)
<1>1. CASE a.held /\ b.held
  <2>1. Both(a, b) = [a EXCEPT !.samples = a.samples + b.samples, !.dropped = a.dropped + b.dropped]
    BY <1>1 DEF Both
  <2>2. /\ DOMAIN Both(a, b) = Fields /\ Both(a, b).held = a.held
        /\ Both(a, b).observed = a.observed /\ Both(a, b).occupied = a.occupied
        /\ Both(a, b).samples = a.samples + b.samples /\ Both(a, b).dropped = a.dropped + b.dropped
    BY <2>1 DEF Rec, Fields
  <2>3. Rec(Both(a, b)) BY <1>1, <2>2 DEF Rec
  <2> QED BY <1>1, <2>2, <2>3 DEF Within
<1>2. CASE ~(a.held /\ b.held)
  <2>1. Both(a, b) = IF b.held THEN b ELSE a BY <1>2, Zenon DEF Both
  <2>2. a.held \in BOOLEAN /\ b.held \in BOOLEAN BY DEF Rec
  <2>3. Both(a, b).held = (a.held \/ b.held) BY <1>2, <2>1, <2>2, Zenon
  <2>4. Both(a, b) \in {a, b} /\ (~b.held => Both(a, b) = a) BY <2>1, Zenon
  <2> QED BY <2>3, <2>4
<1> QED BY <1>1, <1>2

\* One record of f became another that measures the same.
Touched(f, g) ==
  /\ DOMAIN g = Windows
  /\ \A w \in Windows :
       /\ Rec(g[w]) /\ (w # startOf(now) => g[w] = f[w])
       /\ g[w].observed = f[w].observed /\ g[w].occupied = f[w].occupied

\* States.enter and States.stamp measure nothing.
LEMMA EnterStamp ==
  ASSUME NEW f, DOMAIN f = Windows, \A w \in Windows : Rec(f[w])
  PROVE  Touched(f, enter(f)) /\ Touched(f, stamp(f))
<1> DEFINE k == startOf(now)
           h == Held(f[k])
<1>1. ASSUME NEW r, k \in Windows => Rec(r) /\ r.observed = f[k].observed /\ r.occupied = f[k].occupied
      PROVE  Touched(f, [f EXCEPT ![k] = r])
  BY <1>1 DEF Touched
<1>2. ASSUME k \in Windows
      PROVE  Rec(h) /\ h.held /\ h.observed = f[k].observed /\ h.occupied = f[k].occupied
  BY <1>2, HeldRec
<1>3. Touched(f, f) BY DEF Touched
<1>4. enter(f) = f \/ enter(f) = [f EXCEPT ![k] = [h EXCEPT !.entries = h.entries + 1]]
  BY Zenon DEF enter, Entered
<1>5. stamp(f) = [f EXCEPT ![k] = [h EXCEPT !.to = now, !.since = Since]]
  BY DEF stamp
<1> HIDE DEF k, h
<1>6. ASSUME NEW x, NEW y, NEW r, r \in {[h EXCEPT !.entries = x], [h EXCEPT !.to = x, !.since = y]},
             k \in Windows
      PROVE  Rec(r) /\ r.observed = f[k].observed /\ r.occupied = f[k].occupied
  <2>1. /\ DOMAIN r = Fields /\ r.held = h.held /\ r.observed = h.observed
        /\ r.occupied = h.occupied /\ r.samples = h.samples /\ r.dropped = h.dropped
    BY <1>2, <1>6 DEF Rec, Fields
  <2> QED BY <1>2, <1>6, <2>1 DEF Rec
<1>7. Touched(f, [f EXCEPT ![k] = [h EXCEPT !.entries = h.entries + 1]])
  <2> DEFINE r == [h EXCEPT !.entries = h.entries + 1]
  <2>1. k \in Windows => Rec(r) /\ r.observed = f[k].observed /\ r.occupied = f[k].occupied
    BY <1>6
  <2> HIDE DEF r
  <2>2. Touched(f, [f EXCEPT ![k] = r]) BY <1>1, <2>1
  <2> QED BY <2>2 DEF r
<1>8. Touched(f, [f EXCEPT ![k] = [h EXCEPT !.to = now, !.since = Since]])
  <2> DEFINE r == [h EXCEPT !.to = now, !.since = Since]
  <2>1. k \in Windows => Rec(r) /\ r.observed = f[k].observed /\ r.occupied = f[k].occupied
    BY <1>6
  <2> HIDE DEF r
  <2>2. Touched(f, [f EXCEPT ![k] = r]) BY <1>1, <2>1
  <2> QED BY <2>2 DEF r
<1> QED BY <1>3, <1>4, <1>5, <1>7, <1>8

\* failingSince names an instant of the past, or none.
LEMMA SinceType == ASSUME Shapes PROVE Since \in {None} \cup 0 .. now
BY DEF Since, failingSince, Shapes

\* A record after the interval since the previous pass is folded in.
Folded(w, r) ==
  /\ Rec(r)
  /\ \/ r.observed = open[w].observed
     \/ seen.at # None /\ r.observed = open[w].observed + Span(seen.at, now, w)
  /\ r.occupied =< open[w].occupied + (r.observed - open[w].observed)

\* States.accrue: a record is occupied for no more of the interval than it observes.
LEMMA AccrueState ==
  ASSUME Shapes, NEW w \in Windows, Accrues
  PROVE  Folded(w, accrueState(w))
<1> USE AccrualAssumption
<1> DEFINE from == IF seen.since # None THEN seen.at ELSE Greatest(Since, seen.at)
           h == Held(open[w])
           obs == h.observed + Span(seen.at, now, w)
           occ == IF Since = None THEN h.occupied ELSE h.occupied + Span(from, now, w)
           r == accrueState(w)
<1>1. seen.at # None /\ seen.at \in Nat /\ seen.at =< now /\ now \in Nat /\ w \in Nat
  BY DEF Accrues, Known, Shapes, Windows, None
<1>2. Since # None => from \in Nat /\ seen.at =< from
  BY <1>1, SinceType DEF Greatest, None
<1>3. /\ Span(seen.at, now, w) \in Nat
      /\ Since # None => Span(from, now, w) \in Nat /\ Span(from, now, w) =< Span(seen.at, now, w)
  BY <1>1, <1>2, SpanFacts
<1>4. Rec(h) /\ h.held /\ h.observed = open[w].observed /\ h.occupied = open[w].occupied
      /\ h.observed \in Nat /\ h.occupied \in Nat
  BY HeldRec DEF Shapes, Rec
<1>5. r = [h EXCEPT !.observed = obs, !.to = Least(now, WindowEnd(w)), !.since = Since,
                    !.occupied = occ]
  BY DEF accrueState
<1>6. obs = h.observed + Span(seen.at, now, w) /\ obs \in Nat
      /\ occ \in Nat /\ occ =< h.occupied + Span(seen.at, now, w)
  BY <1>3, <1>4
<1> HIDE DEF from, h, obs, occ, r
<1>7. /\ DOMAIN r = Fields /\ r.held = h.held /\ r.observed = obs
      /\ r.occupied = occ /\ r.samples = h.samples /\ r.dropped = h.dropped
  BY <1>4, <1>5 DEF Rec, Fields
<1>8. Rec(r) BY <1>4, <1>6, <1>7 DEF Rec
<1> QED BY <1>1, <1>3, <1>4, <1>6, <1>7, <1>8 DEF Folded, r

\* Observe folds the interval into the windows it spans, and looks at the window of
\* this pass; it leaves every other window alone.
LEMMA ObservedRec ==
  ASSUME Shapes
  PROVE  /\ DOMAIN Observed = Windows
         /\ \A w \in Windows : /\ Folded(w, Observed[w])
                               /\ w \notin Spanned /\ w # startOf(now) => Observed[w] = open[w]
         /\ subject \notin {"policy", "counter"} => Observed = open
<1>0. ASSUME NEW w \in Windows PROVE Folded(w, open[w]) BY DEF Folded, Shapes, Rec
<1>1. CASE subject = "policy"
  <2> DEFINE f == [w \in Windows |-> IF w \in Spanned THEN accrueState(w) ELSE open[w]]
  <2>1. \A w \in Windows : Folded(w, f[w]) /\ (w \notin Spanned => f[w] = open[w])
    BY <1>0, AccrueState DEF Spanned
  <2>2. DOMAIN f = Windows OBVIOUS
  <2>3. Observed = stamp(enter(f)) BY <1>1 DEF Observed, ObserveState
  <2> HIDE DEF f
  <2>4. Touched(f, enter(f)) BY <2>1, <2>2, EnterStamp DEF Folded
  <2>5. Touched(enter(f), stamp(enter(f))) BY <2>4, EnterStamp DEF Touched
  <2> QED BY <1>1, <2>1, <2>3, <2>4, <2>5 DEF Touched, Folded
<1>2. CASE subject = "counter"
  <2> DEFINE k == startOf(now)
             acc(w) == [Held(open[w]) EXCEPT !.observed = @ + Span(seen.at, now, w)]
             f == [w \in Windows |-> IF w \in Spanned THEN acc(w) ELSE open[w]]
             h == Held(f[k])
             d == IF Accrues THEN h.delta + rise ELSE h.delta
             r == [h EXCEPT !.to = now, !.delta = d]
  <2>1. ASSUME NEW w \in Windows, w \in Spanned PROVE Folded(w, acc(w))
    <3> DEFINE g == Held(open[w])
               s == Span(seen.at, now, w)
    <3>1. seen.at # None /\ seen.at \in Nat /\ seen.at =< now /\ now \in Nat /\ w \in Nat
      BY <2>1, AccrualAssumption DEF Spanned, Accrues, Known, Shapes, Windows, None
    <3>2. s \in Nat BY <3>1, SpanFacts
    <3>3. Rec(g) /\ g.held /\ g.observed = open[w].observed /\ g.occupied = open[w].occupied
          /\ g.observed \in Nat /\ g.occupied \in Nat
      BY HeldRec DEF Shapes, Rec
    <3>4. acc(w) = [g EXCEPT !.observed = g.observed + s] OBVIOUS
    <3> HIDE DEF g, acc
    <3>5. /\ DOMAIN acc(w) = Fields /\ acc(w).held = g.held /\ acc(w).observed = g.observed + s
          /\ acc(w).occupied = g.occupied /\ acc(w).samples = g.samples
          /\ acc(w).dropped = g.dropped
      BY <3>3, <3>4 DEF Rec, Fields
    <3>6. Rec(acc(w)) BY <3>2, <3>3, <3>5 DEF Rec
    <3> QED BY <3>1, <3>2, <3>3, <3>5, <3>6 DEF Folded
  <2>2. \A w \in Windows : Folded(w, f[w]) /\ (w \notin Spanned => f[w] = open[w])
    BY <1>0, <2>1
  <2>3. DOMAIN f = Windows OBVIOUS
  <2>4. Observed = [f EXCEPT ![k] = r]
    <3>1. Observed = ObserveCounter BY <1>2 DEF Observed
    <3> QED BY <3>1, Zenon DEF ObserveCounter, Risen
  <2> HIDE DEF f
  <2>5. ASSUME k \in Windows
        PROVE  Rec(h) /\ h.held /\ h.observed = f[k].observed /\ h.occupied = f[k].occupied
    BY <2>2, <2>5, HeldRec DEF Folded
  <2> HIDE DEF h, d
  <2>6. ASSUME k \in Windows
        PROVE  Rec(r) /\ r.observed = f[k].observed /\ r.occupied = f[k].occupied
    <3>1. /\ DOMAIN r = Fields /\ r.held = h.held /\ r.observed = h.observed
          /\ r.occupied = h.occupied /\ r.samples = h.samples /\ r.dropped = h.dropped
      BY <2>5, <2>6 DEF Rec, Fields
    <3> QED BY <2>5, <2>6, <3>1 DEF Rec
  <2> HIDE DEF r
  <2>7. \A w \in Windows : Folded(w, Observed[w])
    BY <2>2, <2>3, <2>4, <2>6 DEF Folded
  <2> QED BY <1>2, <2>2, <2>3, <2>4, <2>7
<1>3. CASE subject \notin {"policy", "counter"}
  <2>1. Observed = open BY <1>3 DEF Observed
  <2> QED BY <1>0, <2>1 DEF Shapes
<1> QED BY <1>1, <1>2, <1>3

\* An empty record.
LEMMA NoRecordRec ==
  /\ Rec(NoRecord) /\ ~NoRecord.held /\ NoRecord.samples = 0 /\ NoRecord.dropped = 0
  /\ NoRecord.observed = 0 /\ NoRecord.occupied = 0
BY DEF NoRecord, Rec, Fields

-----------------------------------------------------------------------------
\* What the steps do to the journals, and that they keep the shapes.

\* The pass: an ended window is closed, with all that Observe folds into it.
LEMMA PassRecords ==
  ASSUME Shapes, Pass
  PROVE  /\ UNCHANGED <<subject, now, first, last, phase, reading, file, written, refused, watched,
                        filed, late, faults>>
         /\ phase # "down" /\ step = "idle" /\ step' = "closed" /\ passNow' = now
         /\ seen'.at = now /\ due' = due \ {"pass"}
         /\ DOMAIN open' = Windows /\ DOMAIN batch' = Windows
         /\ \A w \in Windows : IF WindowEnd(w) =< now
                              THEN batch'[w] = Observed[w] /\ open'[w] = NoRecord
                              ELSE batch'[w] = NoRecord /\ open'[w] = Observed[w]
<1>1. /\ UNCHANGED <<subject, now, first, last, phase, reading, file, written, refused, watched,
                     filed, late, faults>>
      /\ phase # "down" /\ step = "idle" /\ step' = "closed" /\ passNow' = now
      /\ seen'.at = now /\ due' = due \ {"pass"}
  BY DEF Pass, health, files, ghosts
<1>2. /\ batch' = [w \in Windows |-> IF Ended(w) THEN Observed[w] ELSE NoRecord]
      /\ open' = [w \in Windows |-> IF Ended(w) THEN NoRecord ELSE Observed[w]]
  BY DEF Pass
<1> QED BY <1>1, <1>2 DEF Ended

\* A process ends, and what it held is gone.
LEMMA Forgotten ==
  ASSUME Exit \/ Crash
  PROVE  /\ UNCHANGED <<subject, now, passNow, file, written, watched, filed, late>>
         /\ phase' = "down" /\ first' = None /\ last' = None /\ reading' = None
         /\ open' = Nothing /\ batch' = Nothing /\ seen'.at = None /\ step' = "idle"
         /\ refused' = 0 /\ phase # "down"
         /\ (faults' = faults /\ phase = "stopping") \/ faults' = faults + 1
BY DEF Exit, Crash, Forget, Unseen, files

\* The steps that leave the journals, the pass and the files alone.
Aside ==
  UNCHANGED <<subject, open, batch, file, written, seen, step, passNow, filed, late>>

\* The clock, the informer caches, the readings and a stop signal leave them alone.
LEMMA AsideSteps ==
  ASSUME Shapes, Tick \/ Fail \/ Check \/ Read \/ ReadFails \/ Terminate
  PROVE  /\ Aside
         /\ (now' = now /\ watched' = watched) \/ Tick
         /\ phase' = phase \/ (phase = "up" /\ phase' = "stopping")
BY DEF Tick, Fail, Check, Read, ReadFails, Terminate, Aside, process, files, health, ghosts, Shapes

\* Every step keeps the types, and a process that is down keeps nothing.
LEMMA ShapesKept ==
  ASSUME Shapes, Next
  PROVE  Shapes'
<1> USE AccrualAssumption
<1>1. CASE Tick
  <2>1. /\ Aside /\ now' = now + 1 /\ now < MaxTime /\ step = "idle" /\ step' = "idle"
        /\ UNCHANGED <<first, last, phase, reading, faults>>
    BY <1>1 DEF Tick, Aside, health, files
  <2>2. watched' \in [Windows -> Nat]
    <3>1. watched' = watched \/ watched' = [watched EXCEPT ![startOf(now)] = @ + 1]
      BY <1>1 DEF Tick
    <3>2. \A w \in Windows : watched[w] + 1 \in Nat BY DEF Shapes
    <3> QED BY <3>1, <3>2 DEF Shapes
  <2> QED BY <2>1, <2>2 DEF Aside, Shapes, None
<1>2. CASE Fail
  <2>1. Aside /\ UNCHANGED <<now, phase, reading, faults, watched>>
        /\ first' \in {first, now} /\ last' = now /\ (last = None => first' = now)
    BY <1>2 DEF Fail, record, Aside, process, files
  <2> QED BY <2>1 DEF Aside, Shapes, None
<1>3. CASE Check \/ Terminate
  <2>1. Aside /\ UNCHANGED <<now, first, last, reading, watched>>
        /\ (phase' = phase \/ phase' = "stopping") /\ (faults' = faults \/ faults' = faults + 1)
    BY <1>3 DEF Check, Terminate, Aside, health, files, ghosts
  <2> QED BY <2>1 DEF Aside, Shapes
<1>4. CASE Read \/ ReadFails
  <2>1. Aside /\ UNCHANGED <<now, first, last, watched, phase, faults>>
        /\ (reading' = None \/ (reading' = now /\ subject = "goroutines"))
    BY <1>4 DEF Read, ReadFails, Aside, health, files, ghosts
  <2> QED BY <2>1 DEF Aside, Shapes
<1>5. CASE FileReading
  <2>1. /\ UNCHANGED <<subject, now, first, last, phase, batch, file, written, seen, step, passNow,
                       watched, faults>>
        /\ reading' = None
        /\ open' = [open EXCEPT ![startOf(reading)] = sample(open[startOf(reading)])]
        /\ filed' = [filed EXCEPT ![startOf(reading)] = @ + 1]
    BY <1>5 DEF FileReading, health, files
  <2>2. DOMAIN open' = Windows /\ \A w \in Windows : Rec(open'[w])
    BY <2>1, SampleRec DEF Shapes
  <2>3. filed' \in [Windows -> Nat]
    <3>1. \A w \in Windows : filed[w] + 1 \in Nat BY DEF Shapes
    <3> QED BY <2>1, <3>1 DEF Shapes
  <2> QED BY <2>1, <2>2, <2>3 DEF Shapes
<1>6. CASE Pass
  <2>1. \A w \in Windows : Rec(open'[w]) /\ Rec(batch'[w])
    BY <1>6, PassRecords, ObservedRec, NoRecordRec DEF Folded
  <2>2. /\ UNCHANGED <<subject, now, first, last, phase, reading, file, written, watched, filed, faults>>
        /\ phase # "down" /\ passNow' = now /\ seen'.at = now /\ step' = "closed"
        /\ DOMAIN open' = Windows /\ DOMAIN batch' = Windows
    BY <1>6, PassRecords
  <2> QED BY <2>1, <2>2 DEF Shapes
<1>7. CASE Snapshots
  <2>1. /\ UNCHANGED <<subject, now, first, last, phase, reading, open, file, written, seen, passNow,
                       watched, filed, faults>>
        /\ step = "closed" /\ step' = "writing" /\ batch' = [w \in Windows |-> Both(batch[w], open[w])]
    BY <1>7 DEF Snapshots, health, files, ghosts
  <2>2. \A w \in Windows : Rec(batch'[w]) BY <2>1, BothRec DEF Shapes
  <2> QED BY <2>1, <2>2 DEF Shapes
<1>8. ASSUME NEW v \in Windows, Write(v) PROVE Shapes'
  <2>1. /\ UNCHANGED <<subject, now, first, last, phase, reading, open, seen, step, passNow,
                       watched, filed, faults>>
        /\ file' = [file EXCEPT ![v] = [rec |-> batch[v], final |-> WindowEnd(v) =< passNow]]
        /\ written' = [written EXCEPT ![v] = file'[v]]
        /\ batch' = [batch EXCEPT ![v] = NoRecord]
    BY <1>8 DEF Write, health, ghosts
  <2>2. DOMAIN file' = Windows /\ DOMAIN written' = Windows /\ DOMAIN batch' = Windows
    BY <2>1 DEF Shapes
  <2>3. \A w \in Windows : Rec(batch'[w]) /\ Rec(file'[w].rec) /\ Rec(written'[w].rec)
    BY <2>1, NoRecordRec DEF Shapes
  <2> QED BY <2>1, <2>2, <2>3 DEF Shapes
<1>9. CASE PassEnds
  <2>1. /\ UNCHANGED <<subject, now, first, last, phase, reading, open, file, written, seen, passNow,
                       watched, filed>>
        /\ step' = "idle" /\ batch' = Nothing /\ (faults' = faults \/ faults' = faults + 1)
    BY <1>9 DEF PassEnds, health, files, ghosts
  <2> QED BY <2>1, NoRecordRec DEF Shapes, Nothing
<1>10. ASSUME NEW v \in Windows, Leave(v) PROVE Shapes'
  <2>1. /\ UNCHANGED <<subject, now, first, last, phase, reading, open, batch, written, seen, step,
                       passNow, watched, filed, faults>>
        /\ file' = [file EXCEPT ![v] = NoFile]
    BY <1>10 DEF Leave, health, process, ghosts
  <2>2. DOMAIN file' = Windows /\ \A w \in Windows : Rec(file'[w].rec)
    BY <2>1, NoRecordRec DEF Shapes, NoFile
  <2> QED BY <2>1, <2>2 DEF Shapes
<1>11. CASE Exit \/ Crash
  BY <1>11, Forgotten, NoRecordRec DEF Shapes, Nothing
<1>12. CASE Restart
  <2>1. /\ UNCHANGED <<subject, now, first, last, reading, batch, file, written, seen, step,
                       passNow, watched, filed, faults>>
        /\ phase' = "up" /\ open' = [w \in Windows |-> Resumed(w)]
    BY <1>12 DEF Restart, health, files, ghosts
  <2>2. \A w \in Windows : Rec(open'[w]) BY <2>1, NoRecordRec DEF Resumed, Shapes
  <2> QED BY <2>1, <2>2 DEF Shapes
<1> QED BY <1>1, <1>2, <1>3, <1>4, <1>5, <1>6, <1>7, <1>8, <1>9, <1>10, <1>11, <1>12 DEF Next

-----------------------------------------------------------------------------
\* The watchdog keeps up with the run of failures.
LEMMA BlindKept ==
  ASSUME Shapes, Blind, Next
  PROVE  Blind'
<1> USE AccrualAssumption
<1>0. subject' = subject
  BY DEF Next, Tick, Fail, Check, Read, FileReading, ReadFails, Pass, Snapshots, PassEnds, Write,
         Leave, Terminate, Exit, Crash, Forget, Restart
<1> SUFFICES ASSUME subject = "gating" PROVE Blind'
  BY <1>0 DEF Blind
<1>1. /\ now \in Nat /\ refused \in Nat /\ refused =< FatalStreak + 2
      /\ first \in {None} \cup 0 .. now /\ last \in {None} \cup 0 .. now /\ None = -1
      /\ last # None => first # None /\ first =< last
  BY DEF Shapes, Blind, None
<1>2. CASE Tick
  <2>1. /\ UNCHANGED <<first, last, phase>> /\ phase # "stopping" /\ now' = now + 1
        /\ due' = {"pass", "check", "fail", "read"}
        /\ refused' = (IF "fail" \in due THEN 0 ELSE refused)
        /\ phase = "up" => ~Owed
    BY <1>2 DEF Tick, health
  <2>2. phase = "up" => "check" \notin due BY <2>1 DEF Owed
  <2> QED BY <1>0, <1>1, <2>1, <2>2 DEF Blind
<1>3. CASE Fail
  <2>1. /\ UNCHANGED <<now, phase>> /\ phase = "up" /\ "fail" \in due /\ due' = due \ {"fail"}
        /\ first' = (IF last = None \/ now - last > StreakGap THEN now ELSE first)
        /\ last' = now /\ refused' = refused + 1
    BY <1>3 DEF Fail, record, process
  <2>2. "fail" \notin due' /\ ("check" \in due' <=> "check" \in due) BY <2>1
  <2>3. refused' =< last' - first' + 1 BY <1>1, <2>1 DEF Blind
  <2> QED BY <1>0, <1>1, <2>1, <2>2, <2>3 DEF Blind
<1>4. CASE Check
  <2>1. /\ UNCHANGED <<now, first, last, refused>> /\ phase = "up" /\ "check" \in due
        /\ due' = due \ {"check"}
        /\ phase' = (IF failingFor(now) >= FatalStreak THEN "stopping" ELSE phase)
    BY <1>4 DEF Check, health, ghosts
  <2>2. "check" \notin due' /\ ("fail" \in due' <=> "fail" \in due) BY <2>1
  <2>3. refused > 0 => failingFor(now) = last - first BY <1>1, <2>1 DEF Blind, failingFor
  <2>4. phase' = "up" /\ refused > 0 => refused =< FatalStreak BY <1>1, <2>1, <2>3 DEF Blind
  <2> QED BY <1>0, <1>1, <2>1, <2>2, <2>4 DEF Blind
<1>5. CASE Terminate
  <2>1. UNCHANGED refused /\ phase' = "stopping" BY <1>5 DEF Terminate, ghosts
  <2> QED BY <1>0, <1>1, <2>1 DEF Blind
<1>6. CASE Exit \/ Crash
  <2>1. refused' = 0 /\ phase' = "down" BY <1>6, Forgotten
  <2> QED BY <1>0, <2>1 DEF Blind
<1>7. CASE Restart
  <2>1. UNCHANGED <<now, first, last, refused, due>> /\ phase = "down" /\ phase' = "up"
    BY <1>7 DEF Restart, health, ghosts
  <2> QED BY <1>0, <1>1, <2>1 DEF Blind
<1>8. CASE Pass
  <2>1. UNCHANGED <<now, first, last, refused, phase>> /\ due' = due \ {"pass"}
    BY <1>8, PassRecords
  <2> QED BY <1>0, <2>1 DEF Blind
<1>9. ASSUME UNCHANGED <<now, first, last, refused, phase, due>> PROVE Blind'
  BY <1>0, <1>9 DEF Blind
<1>10. CASE Snapshots \/ PassEnds \/ \E w \in Windows : Write(w) \/ Leave(w)
  BY <1>9, <1>10 DEF Snapshots, PassEnds, Write, Leave, health, process, ghosts
<1>11. CASE FileReading \/ ReadFails
  BY <1>9, <1>11 DEF FileReading, ReadFails, health, ghosts
<1>12. CASE Read BY <1>12 DEF Read
<1> QED BY <1>2, <1>3, <1>4, <1>5, <1>6, <1>7, <1>8, <1>10, <1>11, <1>12 DEF Next

\* An interval that starts after a window has ended spans nothing of it.
LEMMA EndedNotSpanned ==
  ASSUME Shapes, NEW w \in Windows, WindowEnd(w) =< now,
         seen.at = None \/ WindowEnd(w) =< seen.at
  PROVE  w \notin Spanned /\ w # startOf(now)
<1> USE AccrualAssumption
<1>1. now \in Nat /\ w \in Nat /\ seen.at \in {None} \cup 0 .. now BY DEF Shapes, Windows
<1>2. startOf(now) \in Nat /\ w < startOf(now) BY <1>1, Starts
<1>3. seen.at # None => startOf(seen.at) \in Nat /\ w < startOf(seen.at)
  <2>1. seen.at # None => seen.at \in Nat BY <1>1 DEF None
  <2> QED BY <1>1, <2>1, Starts
<1>4. w \notin Spanned
  <2>1. CASE Accrues
    <3>1. Spanned = startOf(seen.at) .. startOf(now - 1) /\ seen.at # None
      BY <2>1 DEF Spanned, Accrues, Known
    <3>2. now - 1 \in Nat BY <1>1, <2>1 DEF Accrues, Known
    <3>3. startOf(now - 1) \in Nat BY <3>2, Starts
    <3> QED BY <1>1, <1>3, <3>1, <3>3
  <2>2. CASE ~Accrues BY <2>2 DEF Spanned
  <2> QED BY <2>1, <2>2
<1> QED BY <1>1, <1>2, <1>4

\* A window whose final payload is written stays out of the journals.
LEMMA FinalityKept ==
  ASSUME Shapes, Finality, Next
  PROVE  Finality'
<1> USE AccrualAssumption
<1>0. subject' = subject
  BY DEF Next, Tick, Fail, Check, Read, FileReading, ReadFails, Pass, Snapshots, PassEnds, Write,
         Leave, Terminate, Exit, Crash, Forget, Restart
<1> DEFINE F(w) == /\ seen.at # None /\ WindowEnd(w) =< seen.at => ~open[w].held
                   /\ written[w].final =>
                        /\ WindowEnd(w) =< now /\ ~open[w].held /\ ~batch[w].held
                        /\ seen.at = None \/ WindowEnd(w) =< seen.at
<1> SUFFICES ASSUME subject # "goroutines", NEW w \in Windows PROVE F(w)'
  BY <1>0 DEF Finality
<1>1. /\ now \in Nat /\ seen.at \in {None} \cup 0 .. now /\ passNow \in 0 .. now
      /\ WindowEnd(w) \in Nat
  BY DEF Shapes, Windows, WindowEnd
<1>2. F(w) BY DEF Finality
<1> HIDE DEF F
<1>3. CASE Tick \/ Fail \/ Check \/ Read \/ ReadFails \/ Terminate
  <2>1. Aside /\ (now' = now \/ now' = now + 1)
    <3>1. Tick => now' = now + 1 BY DEF Tick
    <3> QED BY <1>3, <3>1, AsideSteps
  <2> QED BY <1>1, <1>2, <2>1 DEF F, Aside
<1>4. CASE FileReading
  BY <1>4 DEF FileReading, Shapes
<1>5. CASE Pass
  <2>1. /\ UNCHANGED <<now, written>> /\ seen'.at = now
        /\ IF WindowEnd(w) =< now THEN batch'[w] = Observed[w] /\ open'[w] = NoRecord
                                  ELSE batch'[w] = NoRecord /\ open'[w] = Observed[w]
    BY <1>5, PassRecords
  <2>2. written[w].final => WindowEnd(w) =< now /\ Observed[w] = open[w] /\ ~open[w].held
    BY <1>2, EndedNotSpanned, ObservedRec DEF F
  <2> QED BY <1>1, <2>1, <2>2, NoRecordRec DEF F
<1>6. CASE Snapshots
  <2>1. /\ UNCHANGED <<now, written, seen, open>> /\ batch'[w] = Both(batch[w], open[w])
    BY <1>6 DEF Snapshots, files
  <2>2. ~open[w].held => batch'[w] = batch[w] BY <2>1, BothRec DEF Shapes
  <2> QED BY <1>2, <2>1, <2>2 DEF F
<1>7. ASSUME NEW v \in Windows, Write(v) PROVE F(w)'
  <2>1. /\ UNCHANGED <<now, seen, open>> /\ step = "writing"
        /\ file' = [file EXCEPT ![v] = [rec |-> batch[v], final |-> WindowEnd(v) =< passNow]]
        /\ written' = [written EXCEPT ![v] = file'[v]]
        /\ batch' = [batch EXCEPT ![v] = NoRecord]
    BY <1>7 DEF Write
  <2>2. passNow = now /\ seen.at = now BY <2>1 DEF Shapes
  <2>3. CASE w = v
    <3>1. ~batch'[w].held /\ (written'[w].final <=> WindowEnd(w) =< passNow)
      BY <2>1, <2>3, NoRecordRec DEF Shapes
    <3> QED BY <1>1, <1>2, <2>1, <2>2, <3>1 DEF F, None
  <2>4. CASE w # v
    <3>1. batch'[w] = batch[w] /\ written'[w] = written[w] BY <2>1, <2>4 DEF Shapes
    <3> QED BY <1>2, <2>1, <3>1 DEF F
  <2> QED BY <2>3, <2>4
<1>8. CASE PassEnds
  <2>1. UNCHANGED <<now, written, seen, open>> /\ batch' = Nothing BY <1>8 DEF PassEnds, files
  <2> QED BY <1>2, <2>1, NoRecordRec DEF F, Nothing
<1>9. ASSUME NEW v \in Windows, Leave(v) PROVE F(w)'
  <2>1. UNCHANGED <<now, written, seen, open, batch>> BY <1>9 DEF Leave, process
  <2> QED BY <1>2, <2>1 DEF F
<1>10. CASE Exit \/ Crash
  <2>1. UNCHANGED <<now, written>> /\ open' = Nothing /\ batch' = Nothing /\ seen'.at = None
    BY <1>10, Forgotten
  <2> QED BY <1>2, <2>1, NoRecordRec DEF F, Nothing
<1>11. CASE Restart
  <2>1. UNCHANGED <<now, written, seen, batch>> /\ phase = "down" /\ open'[w] = Resumed(w)
    BY <1>11 DEF Restart, files
  <2>2. seen.at = None BY <2>1 DEF Shapes
  <2>3. WindowEnd(w) =< now => ~open'[w].held BY <2>1, NoRecordRec DEF Resumed, Ended
  <2> QED BY <1>2, <2>1, <2>2, <2>3 DEF F
<1> QED BY <1>3, <1>4, <1>5, <1>6, <1>7, <1>8, <1>9, <1>10, <1>11 DEF Next

\* What was observed, with what the next pass will add, was watched.
LEMMA SpansKept ==
  ASSUME Shapes, Spans, Next
  PROVE  Spans'
<1> USE AccrualAssumption
<1> DEFINE S(w) == /\ Within(open[w], watched[w]) /\ Within(batch[w], watched[w])
                   /\ Within(file[w].rec, watched[w]) /\ Within(written[w].rec, watched[w])
                   /\ seen.at # None => open[w].observed + Span(seen.at, now, w) =< watched[w]
<1> SUFFICES ASSUME NEW w \in Windows PROVE S(w)'
  BY DEF Spans
<1>0. open[w].observed \in Nat /\ open[w].occupied \in Nat BY DEF Shapes, Rec
<1>1. /\ now \in Nat /\ seen.at \in {None} \cup 0 .. now /\ w \in Nat /\ watched[w] \in Nat
      /\ open[w].observed \in Nat /\ open[w].occupied \in Nat /\ None = -1
  BY <1>0 DEF Shapes, Windows, None
<1>2. S(w) BY DEF Spans
<1>3. ASSUME seen.at # None
      PROVE  /\ seen.at \in Nat /\ seen.at =< now
             /\ Span(seen.at, now, w) \in Nat /\ Span(seen.at, now + 1, w) \in Nat
  <2>1. seen.at \in Nat /\ seen.at =< now /\ now + 1 \in Nat /\ seen.at =< now + 1 BY <1>1, <1>3
  <2> QED BY <1>1, <2>1, SpanFacts
<1>4. Within(NoRecord, watched[w]) BY <1>1, NoRecordRec DEF Within
<1> HIDE DEF S
<1>5. CASE Tick
  <2>1. /\ Aside /\ now' = now + 1 /\ now < MaxTime /\ phase # "stopping"
        /\ watched' = IF phase = "up" /\ seen.at # None
                      THEN [watched EXCEPT ![startOf(now)] = @ + 1] ELSE watched
    BY <1>5, AsideSteps DEF Tick
  <2>2. CASE phase = "up" /\ seen.at # None
    <3>1. watched'[w] = watched[w] + (IF startOf(now) = w THEN 1 ELSE 0)
      BY <1>1, <2>1, <2>2 DEF Shapes
    <3>2. Span(seen.at, now + 1, w) =< Span(seen.at, now, w) + (IF startOf(now) = w THEN 1 ELSE 0)
      BY <1>1, <1>3, <2>2, SpanFacts
    <3>3. Span(seen.at, now + 1, w) \in Nat BY <1>3, <2>2
    <3>4. watched[w] =< watched'[w] /\ watched'[w] \in Nat BY <1>1, <3>1
    <3>5. /\ Within(open[w], watched'[w]) /\ Within(batch[w], watched'[w])
          /\ Within(file[w].rec, watched'[w]) /\ Within(written[w].rec, watched'[w])
      BY <1>1, <1>2, <3>4 DEF S, Within, Shapes, Rec
    <3>6. open[w].observed + Span(seen.at, now + 1, w) =< watched'[w]
      BY <1>1, <1>2, <1>3, <2>2, <3>1, <3>2, <3>3 DEF S
    <3> QED BY <2>1, <3>5, <3>6 DEF S, Aside, Within, Span
  <2>3. CASE ~(phase = "up" /\ seen.at # None)
    <3>1. watched' = watched BY <2>1, <2>3
    <3>2. seen.at = None BY <2>1, <2>3 DEF Shapes
    <3> QED BY <1>2, <2>1, <3>1, <3>2 DEF S, Aside, Within
  <2> QED BY <2>2, <2>3
<1>6. CASE Fail \/ Check \/ Read \/ ReadFails \/ Terminate
  <2>1. Aside /\ now' = now /\ watched' = watched
    BY <1>6 DEF Fail, Check, Read, ReadFails, Terminate, Aside, process, files, health, ghosts
  <2> QED BY <1>2, <2>1 DEF S, Aside, Within, Span
<1>7. CASE FileReading
  <2>1. /\ UNCHANGED <<now, batch, file, written, seen, watched>>
        /\ open' = [open EXCEPT ![startOf(reading)] = sample(open[startOf(reading)])]
    BY <1>7 DEF FileReading, files
  <2>2. open'[w].observed = open[w].observed /\ open'[w].occupied = open[w].occupied
    BY <2>1, SampleRec DEF Shapes
  <2> QED BY <1>2, <2>1, <2>2 DEF S, Within, Span
<1>8. CASE Pass
  <2>1. /\ UNCHANGED <<now, file, written, watched>> /\ seen'.at = now
        /\ \/ batch'[w] = Observed[w] /\ open'[w] = NoRecord
           \/ batch'[w] = NoRecord /\ open'[w] = Observed[w]
    BY <1>8, PassRecords
  <2>2. Folded(w, Observed[w]) BY ObservedRec
  <2>3. Observed[w].observed \in Nat /\ Observed[w].occupied \in Nat BY <2>2 DEF Folded, Rec
  <2>4. Within(Observed[w], watched[w])
    BY <1>1, <1>2, <1>3, <2>2, <2>3 DEF Folded, Within, S
  <2>5. Span(now, now, w) = 0 BY <1>1, SpanFacts
  <2>6. Within(open'[w], watched[w]) /\ Within(batch'[w], watched[w]) /\ open'[w].observed \in Nat
    BY <1>4, <2>1, <2>3, <2>4, NoRecordRec
  <2>7. open'[w].observed + Span(seen'.at, now', w) =< watched'[w]
    BY <1>1, <2>1, <2>5, <2>6 DEF Within
  <2> QED BY <1>2, <2>1, <2>6, <2>7 DEF S, Within, Span
<1>9. CASE Snapshots
  <2>1. /\ UNCHANGED <<now, open, file, written, seen, watched>>
        /\ batch'[w] = Both(batch[w], open[w])
    BY <1>9 DEF Snapshots, files, ghosts
  <2>2. Within(batch'[w], watched[w]) BY <1>2, <2>1, BothRec DEF S, Shapes
  <2> QED BY <1>2, <2>1, <2>2 DEF S, Within, Span
<1>10. ASSUME NEW v \in Windows, Write(v) PROVE S(w)'
  <2>1. /\ UNCHANGED <<now, open, seen, watched>>
        /\ file' = [file EXCEPT ![v] = [rec |-> batch[v], final |-> WindowEnd(v) =< passNow]]
        /\ written' = [written EXCEPT ![v] = file'[v]]
        /\ batch' = [batch EXCEPT ![v] = NoRecord]
    BY <1>10 DEF Write, ghosts
  <2>2. /\ batch'[w] \in {batch[w], NoRecord} /\ file'[w].rec \in {batch[w], file[w].rec}
        /\ written'[w].rec \in {batch[w], written[w].rec}
    BY <2>1 DEF Shapes
  <2> QED BY <1>2, <1>4, <2>1, <2>2 DEF S, Within, Span
<1>11. CASE PassEnds
  <2>1. UNCHANGED <<now, open, seen, watched, file, written>> /\ batch'[w] = NoRecord
    BY <1>11 DEF PassEnds, files, ghosts, Nothing
  <2> QED BY <1>2, <1>4, <2>1 DEF S, Within, Span
<1>12. ASSUME NEW v \in Windows, Leave(v) PROVE S(w)'
  <2>1. UNCHANGED <<now, open, batch, seen, watched, written>>
        /\ file'[w].rec \in {file[w].rec, NoRecord}
    BY <1>12 DEF Leave, process, ghosts, NoFile, Shapes
  <2> QED BY <1>2, <1>4, <2>1 DEF S, Within, Span
<1>13. CASE Exit \/ Crash
  <2>1. UNCHANGED <<watched, file, written>> /\ seen'.at = None
        /\ open'[w] = NoRecord /\ batch'[w] = NoRecord
    BY <1>13, Forgotten DEF Nothing
  <2> QED BY <1>2, <1>4, <2>1 DEF S, Within
<1>14. CASE Restart
  <2>1. /\ UNCHANGED <<watched, batch, file, written, seen>> /\ seen.at = None
        /\ open'[w] \in {NoRecord, file[w].rec}
    BY <1>14 DEF Restart, files, ghosts, Resumed, Shapes
  <2> QED BY <1>2, <1>4, <2>1 DEF S, Within
<1> QED BY <1>5, <1>6, <1>7, <1>8, <1>9, <1>10, <1>11, <1>12, <1>13, <1>14 DEF Next

\* What Readings says of one window.
Filed(w) ==
  /\ open[w].samples =< Cap
  /\ batch[w].samples =< Cap \/ WindowEnd(w) =< passNow
  /\ file[w].rec.samples =< Cap \/ WindowEnd(w) =< now
  /\ step = "closed" /\ WindowEnd(w) > passNow => ~batch[w].held
  /\ step = "idle" => ~batch[w].held
  /\ faults = 0 => InPlace(w)

\* A reading that is filed is in the record of its window, or the window is late.
LEMMA FileReadingKept ==
  ASSUME Shapes, subject = "goroutines", NEW w \in Windows, Filed(w), FileReading
  PROVE  Filed(w)'
<1> USE AccrualAssumption
<1> DEFINE v == startOf(reading)
<1>1. /\ UNCHANGED <<now, phase, batch, file, written, step, passNow, faults>>
      /\ open' = [open EXCEPT ![v] = sample(open[v])]
      /\ filed' = [filed EXCEPT ![v] = @ + 1]
      /\ late' = IF written[v].final \/ (step # "idle" /\ WindowEnd(v) =< passNow)
                 THEN late \cup {v} ELSE late
  BY DEF FileReading, files
<1>2. CASE w # v
  <2>1. open'[w] = open[w] /\ filed'[w] = filed[w] /\ (w \in late' <=> w \in late)
    BY <1>1, <1>2 DEF Shapes
  <2> QED BY <1>1, <2>1 DEF Filed, InPlace, Latest
<1>3. CASE w = v
  <2>1. open'[w] = sample(open[w]) /\ filed'[w] = filed[w] + 1 BY <1>1, <1>3 DEF Shapes
  <2>2. /\ Rec(open'[w]) /\ open'[w].held
        /\ open'[w].samples + open'[w].dropped = open[w].samples + open[w].dropped + 1
        /\ open[w].samples =< Cap => open'[w].samples =< Cap
    BY <2>1, SampleRec DEF Shapes
  <2>3. faults = 0 => InPlace(w)'
    <3> SUFFICES ASSUME faults = 0 PROVE InPlace(w)' OBVIOUS
    <3>1. InPlace(w) BY DEF Filed
    <3>2. CASE w \in late' BY <1>1, <2>2, <3>2 DEF InPlace
    <3>3. CASE w \notin late'
      <4>1. /\ w \notin late /\ ~written[w].final
            /\ ~(step # "idle" /\ WindowEnd(w) =< passNow)
        BY <1>1, <1>3, <3>3, Zenon
      <4>2. batch[w].held => open[w].held
        <5>1. batch[w].held => step # "idle" BY DEF Filed
        <5>2. WindowEnd(w) \in Int /\ passNow \in Int BY DEF WindowEnd, Windows, Shapes
        <5> QED BY <3>1, <4>1, <5>1, <5>2 DEF InPlace
      <4>3. written[w].rec.held => open[w].held BY <3>1, <4>1, <4>2 DEF InPlace
      <4>4. Latest(w).samples + Latest(w).dropped = filed[w] BY <3>1, <4>1 DEF InPlace
      <4>5. Latest(w).samples + Latest(w).dropped = open[w].samples + open[w].dropped
        <5>1. CASE open[w].held BY <5>1 DEF Latest
        <5>2. CASE ~open[w].held
          <6>1. Latest(w) = written[w].rec BY <4>2, <5>2 DEF Latest
          <6> QED BY <4>3, <5>2, <6>1 DEF Shapes, Rec
        <5> QED BY <5>1, <5>2
      <4>6. Latest(w)' = open'[w] BY <2>2 DEF Latest
      <4>7. Latest(w)'.samples + Latest(w)'.dropped = filed'[w]
        BY <2>1, <2>2, <4>4, <4>5, <4>6
      <4> QED BY <1>1, <2>2, <4>1, <4>7 DEF InPlace
    <3> QED BY <3>2, <3>3
  <2> QED BY <1>1, <2>2, <2>3 DEF Filed
<1> QED BY <1>2, <1>3

\* A pass moves the readings of an ended window, and copies those of another.
LEMMA PassKept ==
  ASSUME Shapes, subject = "goroutines", NEW w \in Windows, Filed(w), Pass
  PROVE  Filed(w)'
<1> USE AccrualAssumption
<1>1. /\ UNCHANGED <<now, file, written, filed, late, faults>> /\ step = "idle"
      /\ step' = "closed" /\ passNow' = now
      /\ IF WindowEnd(w) =< now THEN batch'[w] = open[w] /\ open'[w] = NoRecord
                                ELSE batch'[w] = NoRecord /\ open'[w] = open[w]
  BY PassRecords, ObservedRec
<1>2. ~batch[w].held BY <1>1 DEF Filed
<1>3. WindowEnd(w) \in Int /\ now \in Int BY DEF WindowEnd, Windows, Shapes
<1>4. CASE WindowEnd(w) =< now
  <2>1. batch'[w] = open[w] /\ open'[w] = NoRecord BY <1>1, <1>4
  <2>2. Latest(w)' = Latest(w)
    <3>1. Latest(w)' = IF batch'[w].held THEN batch'[w] ELSE written[w].rec
      BY <1>1, <2>1, NoRecordRec DEF Latest
    <3> QED BY <1>2, <2>1, <3>1 DEF Latest
  <2>3. InPlace(w) => InPlace(w)' BY <1>1, <1>2, <1>3, <1>4, <2>1, <2>2, NoRecordRec DEF InPlace
  <2> QED BY <1>1, <1>3, <1>4, <2>1, <2>3, NoRecordRec DEF Filed
<1>5. CASE ~(WindowEnd(w) =< now)
  <2>1. batch'[w] = NoRecord /\ open'[w] = open[w] BY <1>1, <1>5
  <2>2. Latest(w)' = Latest(w)
    <3>1. Latest(w)' = IF open[w].held THEN open[w] ELSE written[w].rec
      BY <1>1, <2>1, NoRecordRec DEF Latest
    <3> QED BY <1>2, <3>1 DEF Latest
  <2>3. InPlace(w) => InPlace(w)' BY <1>1, <1>2, <1>3, <1>5, <2>1, <2>2, NoRecordRec DEF InPlace
  <2> QED BY <1>1, <1>3, <1>5, <2>1, <2>3, NoRecordRec DEF Filed
<1> QED BY <1>4, <1>5

\* Snapshots takes along what was filed since the close.
LEMMA SnapshotsKept ==
  ASSUME Shapes, NEW w \in Windows, Filed(w), Snapshots
  PROVE  Filed(w)'
<1> USE AccrualAssumption
<1>1. /\ UNCHANGED <<now, open, file, written, filed, late, faults, passNow>>
      /\ step = "closed" /\ step' = "writing" /\ batch'[w] = Both(batch[w], open[w])
  BY DEF Snapshots, files, ghosts
<1>2. /\ Rec(batch'[w]) /\ batch'[w].held = (batch[w].held \/ open[w].held)
      /\ ~batch[w].held => batch'[w] \in {batch[w], open[w]}
      /\ ~open[w].held => batch'[w] = batch[w]
  BY <1>1, BothRec DEF Shapes
<1>3. WindowEnd(w) \in Int /\ passNow \in Int BY DEF WindowEnd, Windows, Shapes
<1>4. batch'[w].samples =< Cap \/ WindowEnd(w) =< passNow
  <2>1. CASE WindowEnd(w) > passNow
    <3>1. ~batch[w].held /\ (batch[w].samples =< Cap \/ WindowEnd(w) =< passNow)
          /\ open[w].samples =< Cap
      BY <1>1, <2>1 DEF Filed
    <3> QED BY <1>2, <1>3, <2>1, <3>1
  <2> QED BY <1>3, <2>1
<1>5. Latest(w)' = Latest(w)
  <2>1. CASE open[w].held BY <1>1, <2>1 DEF Latest
  <2>2. CASE ~open[w].held BY <1>1, <1>2, <2>2 DEF Latest
  <2> QED BY <2>1, <2>2
<1>6. InPlace(w) => InPlace(w)'
  <2> SUFFICES ASSUME InPlace(w) PROVE InPlace(w)' OBVIOUS
  <2>1. batch'[w].held /\ WindowEnd(w) > passNow => open[w].held
    BY <1>1, <1>2 DEF Filed
  <2>2. open[w].held \/ batch[w].held => open[w].held \/ batch'[w].held BY <1>2
  <2> QED BY <1>1, <1>5, <2>1, <2>2 DEF InPlace
<1> QED BY <1>1, <1>4, <1>6 DEF Filed

\* A record that is written is the latest of its window, or a copy.
LEMMA WriteKept ==
  ASSUME Shapes, NEW w \in Windows, Filed(w), NEW v \in Windows, Write(v)
  PROVE  Filed(w)'
<1> USE AccrualAssumption
<1>1. /\ UNCHANGED <<now, open, filed, late, faults, passNow, step>>
      /\ step = "writing" /\ batch[v].held
      /\ file' = [file EXCEPT ![v] = [rec |-> batch[v], final |-> WindowEnd(v) =< passNow]]
      /\ written' = [written EXCEPT ![v] = file'[v]]
      /\ batch' = [batch EXCEPT ![v] = NoRecord]
  BY DEF Write, ghosts
<1>2. CASE w # v
  <2>1. file'[w] = file[w] /\ written'[w] = written[w] /\ batch'[w] = batch[w]
    BY <1>1, <1>2 DEF Shapes
  <2> QED BY <1>1, <2>1 DEF Filed, InPlace, Latest
<1>3. CASE w = v
  <2>1. /\ file'[w].rec = batch[w] /\ written'[w].rec = batch[w] /\ batch'[w] = NoRecord
        /\ written'[w].final <=> WindowEnd(w) =< passNow
    BY <1>1, <1>3 DEF Shapes
  <2>2. WindowEnd(w) \in Int /\ passNow \in Int /\ now \in Int /\ passNow =< now
    BY DEF WindowEnd, Windows, Shapes
  <2>3. Latest(w)' = Latest(w)
    <3>1. Latest(w)' = IF open[w].held THEN open[w] ELSE batch[w]
      BY <1>1, <2>1, NoRecordRec DEF Latest
    <3> QED BY <1>1, <1>3, <3>1 DEF Latest
  <2>4. InPlace(w) => InPlace(w)'
    <3> SUFFICES ASSUME InPlace(w) PROVE InPlace(w)' OBVIOUS
    <3>1. ~written'[w].final => open[w].held BY <1>1, <1>3, <2>1, <2>2 DEF InPlace
    <3> QED BY <1>1, <2>1, <2>3, <3>1, NoRecordRec DEF InPlace
  <2>5. file'[w].rec.samples =< Cap \/ WindowEnd(w) =< now BY <2>1, <2>2 DEF Filed
  <2> QED BY <1>1, <2>1, <2>4, <2>5, NoRecordRec DEF Filed
<1> QED BY <1>2, <1>3

\* The readings of a window stay in one place.
LEMMA ReadingsKept ==
  ASSUME Shapes, Readings, Next
  PROVE  Readings'
<1> USE AccrualAssumption
<1>0. subject' = subject
  BY DEF Next, Tick, Fail, Check, Read, FileReading, ReadFails, Pass, Snapshots, PassEnds, Write,
         Leave, Terminate, Exit, Crash, Forget, Restart
<1> SUFFICES ASSUME subject = "goroutines"
             PROVE  (phase' # "up" => faults' > 0) /\ \A w \in Windows : Filed(w)'
  BY <1>0 DEF Readings, Filed
<1>1. (phase # "up" => faults > 0) /\ faults \in Nat /\ \A w \in Windows : Filed(w)
  BY DEF Readings, Filed, Shapes
<1>2. phase' # "up" => faults' > 0
  <2>1. CASE Exit \/ Crash BY <1>1, <2>1, Forgotten
  <2>2. CASE Terminate BY <1>1, <2>2 DEF Terminate
  <2>3. CASE Restart BY <2>3 DEF Restart
  <2>4. CASE PassEnds BY <1>1, <2>4 DEF PassEnds
  <2>5. CASE Check BY <2>5 DEF Check
  <2>6. CASE UNCHANGED <<phase, faults>> BY <1>1, <2>6
  <2>7. CASE Pass BY <2>6, <2>7, PassRecords
  <2>8. CASE Tick \/ Fail \/ Read \/ ReadFails \/ FileReading \/ Snapshots
    BY <2>6, <2>8 DEF Tick, Fail, Read, ReadFails, FileReading, Snapshots, process
  <2>9. CASE \E w \in Windows : Write(w) \/ Leave(w) BY <2>6, <2>9 DEF Write, Leave, process
  <2> QED BY <2>1, <2>2, <2>3, <2>4, <2>5, <2>7, <2>8, <2>9 DEF Next
<1> SUFFICES ASSUME NEW w \in Windows PROVE Filed(w)'
  BY <1>2
<1>3. Filed(w) BY <1>1
<1>4. now \in Nat /\ WindowEnd(w) \in Int BY DEF Shapes, WindowEnd, Windows
<1>5. CASE Tick \/ Fail \/ Check \/ Read \/ ReadFails \/ Terminate
  <2>1. Aside BY <1>5, AsideSteps
  <2>2. (now' = now \/ now' = now + 1) /\ (faults' = faults \/ faults' = faults + 1)
    <3>1. CASE Tick BY <3>1 DEF Tick
    <3>2. CASE Fail \/ Check \/ Read \/ ReadFails \/ Terminate
      BY <3>2 DEF Fail, Check, Read, ReadFails, Terminate
    <3> QED BY <1>5, <3>1, <3>2
  <2>3. faults' = 0 => faults = 0 BY <1>1, <2>2
  <2> QED BY <1>3, <1>4, <2>1, <2>2, <2>3 DEF Filed, InPlace, Latest, Aside
<1>6. CASE FileReading BY <1>3, <1>6, FileReadingKept
<1>7. CASE Pass BY <1>3, <1>7, PassKept
<1>8. CASE Snapshots BY <1>3, <1>8, SnapshotsKept
<1>9. CASE \E v \in Windows : Write(v) BY <1>3, <1>9, WriteKept
<1>10. CASE PassEnds
  <2>1. /\ UNCHANGED <<now, open, file, written, filed, late, passNow>>
        /\ step' = "idle" /\ batch' = Nothing
        /\ (batch = Nothing /\ faults' = faults) \/ faults' = faults + 1
    BY <1>10 DEF PassEnds, files, ghosts
  <2>2. batch'[w] = NoRecord BY <2>1 DEF Nothing
  <2>3. faults' = 0 => faults = 0 /\ batch[w] = NoRecord BY <1>1, <2>1 DEF Nothing
  <2>4. faults' = 0 => InPlace(w)'
    BY <1>3, <2>1, <2>2, <2>3, NoRecordRec DEF Filed, InPlace, Latest
  <2> QED BY <1>3, <2>1, <2>2, <2>4, NoRecordRec DEF Filed
<1>11. ASSUME NEW v \in Windows, Leave(v) PROVE Filed(w)'
  <2>1. /\ UNCHANGED <<now, open, batch, written, filed, late, passNow, step, faults>>
        /\ file'[w] = file[w] \/ file'[w].rec = NoRecord
    BY <1>11 DEF Leave, process, ghosts, NoFile, Shapes
  <2> QED BY <1>3, <2>1, NoRecordRec DEF Filed, InPlace, Latest
<1>12. CASE Exit \/ Crash
  <2>1. /\ UNCHANGED <<now, file, passNow>> /\ step' = "idle"
        /\ open'[w] = NoRecord /\ batch'[w] = NoRecord /\ phase' = "down"
    BY <1>12, Forgotten DEF Nothing
  <2>2. faults' # 0 BY <1>1, <1>12, Forgotten
  <2> QED BY <1>3, <2>1, <2>2, NoRecordRec DEF Filed
<1>13. CASE Restart
  <2>1. /\ UNCHANGED <<now, batch, file, passNow, step, faults>> /\ phase = "down"
        /\ open'[w] = Resumed(w)
    BY <1>13 DEF Restart, files
  <2>2. faults' # 0 BY <1>1, <2>1
  <2>3. open'[w].samples =< Cap BY <1>3, <2>1, NoRecordRec DEF Resumed, Ended, Filed
  <2> QED BY <1>3, <2>1, <2>2, <2>3 DEF Filed
<1> QED BY <1>5, <1>6, <1>7, <1>8, <1>9, <1>10, <1>11, <1>12, <1>13 DEF Next

-----------------------------------------------------------------------------
\* A new agent, with an empty spool, is within the invariant.
LEMMA InitRecords == Init => RecordInv
<1> SUFFICES ASSUME Init PROVE RecordInv OBVIOUS
<1> USE AccrualAssumption DEF Init
<1>1. \A w \in Windows : /\ open[w] = NoRecord /\ batch[w] = NoRecord
                         /\ file[w].rec = NoRecord /\ written[w].rec = NoRecord
                         /\ written[w].final = FALSE
  BY DEF Nothing, NoFile
<1>2. Shapes BY <1>1, NoRecordRec DEF Shapes, Nothing, Unseen, None
<1>3. Blind /\ Finality BY <1>1, NoRecordRec DEF Blind, Finality, Unseen, None
<1>4. Spans
  <2>1. Within(NoRecord, 0) BY NoRecordRec DEF Within
  <2>2. seen.at = None /\ \A w \in Windows : watched[w] = 0 BY DEF Unseen
  <2> QED BY <1>1, <2>1, <2>2, Zenon DEF Spans
<1>5. Readings
  <2>1. phase = "up" /\ step = "idle" BY Zenon
  <2>2. ASSUME NEW w \in Windows
        PROVE  /\ open[w].samples = 0 /\ batch[w].samples = 0 /\ file[w].rec.samples = 0
               /\ ~batch[w].held /\ ~written[w].rec.held
               /\ Latest(w) = NoRecord /\ filed[w] = 0
    BY <1>1, NoRecordRec DEF Latest
  <2>3. NoRecord.samples + NoRecord.dropped = 0 BY NoRecordRec
  <2>4. \A w \in Windows : InPlace(w) BY <2>1, <2>2, <2>3, Zenon DEF InPlace
  <2>5. 0 =< Cap BY SMTT(30)
  <2> QED BY <2>1, <2>2, <2>4, <2>5, Zenon DEF Readings
<1> QED BY <1>2, <1>3, <1>4, <1>5 DEF RecordInv

\* Every step keeps the invariant.
LEMMA RecordsInductive == RecordInv /\ [Next]_vars => RecordInv'
<1> SUFFICES ASSUME RecordInv, [Next]_vars PROVE RecordInv' OBVIOUS
<1>1. CASE Next
  BY <1>1, ShapesKept, BlindKept, FinalityKept, SpansKept, ReadingsKept DEF RecordInv
<1>2. CASE UNCHANGED vars
  <2> USE <1>2 DEF vars, health, process, files, ghosts
  <2>1. Shapes' BY DEF RecordInv, Shapes
  <2>2. Blind' /\ Finality' BY DEF RecordInv, Blind, Finality
  <2>3. Spans' BY DEF RecordInv, Spans, Within, Span
  <2>4. Readings' BY DEF RecordInv, Readings, InPlace, Latest
  <2> QED BY <2>1, <2>2, <2>3, <2>4 DEF RecordInv
<1> QED BY <1>1, <1>2

\* The invariant holds in every reachable state.
LEMMA RecordsInvariant == Spec => []RecordInv
BY InitRecords, RecordsInductive, PTL DEF Spec

\* A gating cache is never refused for more than a check past the fatal streak in
\* one process.  About record, failingFor and watchdog.
THEOREM BlindnessIsBounded == Spec => []BlindnessBounded
<1>1. RecordInv => BlindnessBounded BY DEF RecordInv, Blind, BlindnessBounded
<1> QED BY <1>1, RecordsInvariant, PTL

\* No record observes more than its window was watched or is occupied for longer
\* than it was observed, however often the process stops, crashes and resumes and
\* wherever its passes fall.  About split, States.accrue, Counters.Observe, Resume.
THEOREM SpansAreAccounted == Spec => []SpansAccounted
<1>1. RecordInv => SpansAccounted
  <2> SUFFICES ASSUME RecordInv, NEW w \in Windows, NEW r \in {Latest(w), written[w].rec}
               PROVE  r.observed =< watched[w] /\ r.occupied =< r.observed
    BY DEF SpansAccounted
  <2>1. r \in {open[w], batch[w], written[w].rec} BY DEF Latest
  <2> QED BY <2>1 DEF RecordInv, Spans, Within
<1> QED BY <1>1, RecordsInvariant, PTL

\* No open series of goroutine readings outgrows its cap, and until a fault or a late
\* reading every reading filed is a sample or is counted as dropped.
\* About Goroutines.Observe, CloseBefore, Snapshots and Resume.
THEOREM ReadingsAreAccounted == Spec => []ReadingsAccounted
<1>1. RecordInv => ReadingsAccounted BY DEF RecordInv, Readings, InPlace, ReadingsAccounted
<1> QED BY <1>1, RecordsInvariant, PTL

\* A state or counter window that has its final payload is not written again.
\* About States.enter, CloseBefore and RecoverOpenWindows.
THEOREM EndedStaysFinal == Spec => EndedIsFinal
<1> DEFINE Stays == \A w \in Windows :
                      subject # "goroutines" /\ written[w].final => written'[w] = written[w]
<1>1. ASSUME RecordInv, [Next]_vars PROVE [Stays]_vars
  <2>1. ASSUME written' = written PROVE Stays BY <2>1
  <2>2. ASSUME NEW v \in Windows, Write(v) PROVE Stays
    <3>1. batch[v].held /\ written' = [written EXCEPT ![v] = file'[v]] BY <2>2 DEF Write
    <3>2. subject # "goroutines" => ~written[v].final BY <1>1, <3>1 DEF RecordInv, Finality
    <3> QED BY <1>1, <3>1, <3>2 DEF RecordInv, Shapes
  <2>3. ASSUME Next, ~\E v \in Windows : Write(v) PROVE written' = written
    BY <2>3 DEF Next, Tick, Fail, Check, Read, FileReading, ReadFails, Pass, Snapshots, PassEnds,
                Leave, Terminate, Exit, Crash, Forget, Restart, files
  <2> QED BY <1>1, <2>1, <2>2, <2>3
<1> QED BY <1>1, RecordsInvariant, PTL DEF Spec, EndedIsFinal
=============================================================================
