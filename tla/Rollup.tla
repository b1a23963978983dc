-------------------------------- MODULE Rollup --------------------------------
(***************************************************************************)
(* The mergeable rollups of internal/rollup as pure operators, over the    *)
(* windows of Windowing: the logarithmic histogram, the usage record and   *)
(* its accumulator for one key, and the network record.  A sparse          *)
(* histogram is a bag of bucket indices.                                   *)
(***************************************************************************)
EXTENDS Windowing, Bags

CONSTANTS Steps,      \* the sub-octave multipliers in fixed point: 0 .. n-1 -> Nat
          FixedShift, \* fractional bits of a multiplier
          MemoryAnchor, \* log2 of the lower bound of memory's bucket 1
          TopShift    \* the largest shift the unsigned type can hold

NSteps == Cardinality(DOMAIN Steps)

-----------------------------------------------------------------------------
\* The histogram of one anchor (the log2 of bucket 1's lower bound).
Unbounded == 2 ^ (TopShift + 2) - 1

bound(anchor, j) ==
  IF j < 0 THEN 0
  ELSE LET shift == anchor + j \div NSteps IN
       IF shift > TopShift THEN Unbounded
       ELSE (2 ^ shift * Steps[j % NSteps]) \div 2 ^ FixedShift

\* bits.Len64(u) - 1.
Log2(u) == CHOOSE q \in 0 .. TopShift + 1 : 2 ^ q =< u /\ u < 2 ^ (q + 1)

\* Fault, not the code: a value equal to a bound goes to the bucket below it.
IndexExclusive(anchor, v) ==
  IF v < 2 ^ anchor THEN 0
  ELSE LET q == Log2(v \div 2 ^ anchor)
           Below == {m \in 1 .. NSteps - 1 : bound(anchor, NSteps * q + m) < v}
       IN  NSteps * q + 1 + IF Below = {} THEN 0 ELSE Max(Below)

Index(anchor, v) ==
  IF v < 2 ^ anchor THEN 0
  ELSE LET q == Log2(v \div 2 ^ anchor)
           Below == {m \in 1 .. NSteps - 1 : bound(anchor, NSteps * q + m) =< v}
       IN  NSteps * q + 1 + IF Below = {} THEN 0 ELSE Max(Below)

LowerBound(anchor, i) == IF i =< 0 THEN 0 ELSE bound(anchor, i - 1)
UpperBound(anchor, i) == bound(anchor, i)

HistObserve(anchor, h, v) == h (+) SetToBag({Index(anchor, v)})
HistMerge(h, o) == h (+) o

\* MarshalJSON writes {lower bound: count}; UnmarshalJSON refuses a key that is
\* out of range or no bound of the grid, and adds the counts of one bucket.
MarshalHist(anchor, h) ==
  {<<LowerBound(anchor, i), h[i]>> : i \in BagToSet(h)}

\* No histogram: its one index is no bucket.
Refused == [i \in {-1} |-> 1]

UnmarshalHist(anchor, raw) ==
  IF \E e \in raw : e[1] > MaxInt \/ LowerBound(anchor, Index(anchor, e[1])) # e[1]
  THEN Refused
  ELSE LET Add(e) == [i \in {Index(anchor, e[1])} |-> e[2]]
       IN  MapThenFoldSet(LAMBDA a, b : a (+) b, EmptyBag, Add,
                          LAMBDA S : CHOOSE x \in S : TRUE, raw)

-----------------------------------------------------------------------------
\* One usage record.  min and max are meaningful while there are samples.
NoSamples == [n |-> 0, min |-> 0, max |-> 0, sum |-> 0, hist |-> EmptyBag]

newRecord ==
  [core |-> 0, covered |-> 0, throttled |-> 0, periods |-> 0, throttlingSamples |-> 0,
   cpuStall |-> 0, cpuPSI |-> 0, memStall |-> 0, memPSI |-> 0,
   cpu |-> NoSamples, memory |-> NoSamples]

\* The extrema of a distribution that takes in the value v.
Stretch(u, v) ==
  [u EXCEPT !.n = @ + 1,
            !.min = IF u.n = 0 \/ v < @ THEN v ELSE @,
            !.max = IF u.n = 0 \/ v > @ THEN v ELSE @]

\* CPUUsage.observeRate and MemoryUsage.observe; only memory keeps a sum.
observeRate(anchor, u, milli) ==
  [Stretch(u, milli) EXCEPT !.hist = HistObserve(anchor, @, milli)]

observe(anchor, u, bytes) ==
  [Stretch(u, bytes) EXCEPT !.sum = @ + bytes, !.hist = HistObserve(anchor, @, bytes)]

\* Fault, not the code: an empty side's zero minimum wins.
MergeSamplesNaive(u, o) ==
  [n |-> u.n + o.n, sum |-> u.sum + o.sum, hist |-> HistMerge(u.hist, o.hist),
   min |-> Lesser(u.min, o.min), max |-> Greater(u.max, o.max)]

MergeSamples(u, o) ==
  [n |-> u.n + o.n, sum |-> u.sum + o.sum, hist |-> HistMerge(u.hist, o.hist),
   min |-> IF o.n > 0 /\ (u.n = 0 \/ o.min < u.min) THEN o.min ELSE u.min,
   max |-> IF o.n > 0 /\ (u.n = 0 \/ o.max > u.max) THEN o.max ELSE u.max]

Totals == {"core", "covered", "throttled", "periods", "throttlingSamples",
           "cpuStall", "cpuPSI", "memStall", "memPSI"}

Merge(r, o) ==
  [f \in DOMAIN r |-> IF f \in Totals THEN r[f] + o[f] ELSE MergeSamples(r[f], o[f])]

-----------------------------------------------------------------------------
\* The accumulator of one key: a function on the windows that have a record.
NoneOpen == [w \in {} |-> newRecord]

recordAt(acc, w) == IF w \in DOMAIN acc THEN acc[w] ELSE newRecord

Put(acc, w, r) == [v \in DOMAIN acc \cup {w} |-> IF v = w THEN r ELSE acc[v]]

addProRata(acc, from, to, amount, field) ==
  LET parts == Split(from, to, amount) IN
  [w \in DOMAIN acc \cup DOMAIN parts |->
     IF w \in DOMAIN parts
     THEN [recordAt(acc, w) EXCEPT ![field] = @ + parts[w]] ELSE acc[w]]

\* An observation is counted in the window of the interval's last instant.
CountIn(acc, to, field) ==
  LET w == startOf(to - 1) IN Put(acc, w, [recordAt(acc, w) EXCEPT ![field] = @ + 1])

ObserveCPUDelta(acc, from, to, coreNanos) ==
  IF to - from =< 0 \/ coreNanos < 0 THEN acc
  ELSE LET totals == addProRata(acc, from, to, coreNanos, "core")
           covered == addProRata(totals, from, to, to - from, "covered")
           w == startOf(to - 1)
       IN  Put(covered, w,
               [recordAt(covered, w) EXCEPT
                  !.cpu = observeRate(0, @, mulDiv(coreNanos, 1000, to - from))])

ObserveThrottling(acc, from, to, throttled, periods) ==
  LET both == addProRata(addProRata(acc, from, to, throttled, "throttled"),
                         from, to, periods, "periods")
  IN  IF to > from THEN CountIn(both, to, "throttlingSamples") ELSE both

ObserveCPUPSI(acc, from, to, stall) ==
  LET a == addProRata(acc, from, to, stall, "cpuStall")
  IN  IF to > from THEN CountIn(a, to, "cpuPSI") ELSE a

ObserveMemoryPSI(acc, from, to, stall) ==
  LET a == addProRata(acc, from, to, stall, "memStall")
  IN  IF to > from THEN CountIn(a, to, "memPSI") ELSE a

ObserveMemory(acc, at, bytes) ==
  IF bytes < 0 THEN acc
  ELSE LET w == startOf(at)
       IN  Put(acc, w, [recordAt(acc, w) EXCEPT !.memory = observe(MemoryAnchor, @, bytes)])

\* Seed of one record of window w (its length and grid checks are a test of
\* equality here: a record of another length is not a window of this model).
Seed(acc, w, r) == Put(acc, w, Merge(recordAt(acc, w), r))

CloseBefore(acc, now) == [w \in {v \in DOMAIN acc : WindowEnd(v) =< now} |-> acc[w]]
StillOpen(acc, now) == [w \in {v \in DOMAIN acc : WindowEnd(v) > now} |-> acc[w]]

-----------------------------------------------------------------------------
\* The network accumulator of one workload.
newNetwork == [bytes |-> 0, covered |-> 0, samples |-> 0, interfaces |-> 0, host |-> FALSE]

networkAt(acc, w) == IF w \in DOMAIN acc THEN acc[w] ELSE newNetwork

NetworkObserve(acc, from, to, delta, interfaces, host) ==
  IF to =< from THEN acc
  ELSE LET bytes == Split(from, to, delta)
           span == Split(from, to, to - from)
           end == startOf(to)
           Part(w) ==
             [networkAt(acc, w) EXCEPT
                !.bytes = IF w \in DOMAIN bytes THEN @ + bytes[w] ELSE @,
                !.covered = IF w \in DOMAIN span THEN @ + span[w] ELSE @,
                !.interfaces = IF w \in DOMAIN span THEN Greater(@, interfaces) ELSE @,
                !.host = IF w \in DOMAIN span THEN @ \/ host ELSE @,
                !.samples = IF w = end THEN @ + 1 ELSE @]
       IN  [w \in DOMAIN acc \cup DOMAIN bytes \cup DOMAIN span \cup {end} |-> Part(w)]

NetworkMerge(r, o) ==
  [bytes |-> r.bytes + o.bytes, covered |-> r.covered + o.covered,
   samples |-> r.samples + o.samples, interfaces |-> Greater(r.interfaces, o.interfaces),
   host |-> r.host \/ o.host]
=============================================================================
