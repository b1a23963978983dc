------------------------------- MODULE MCUsage -------------------------------
(***************************************************************************)
(* A container whose work differs from tick to tick; and the rollups on a  *)
(* small grid: eight steps an octave as in the code, in 4-bit fixed point, *)
(* and values of 6 bits, so that the grid's top is within reach.           *)
(***************************************************************************)
EXTENDS UsageWindows, Bags

MCLoad == <<3, 1, 2>>

G == INSTANCE Rollup WITH
       MaxInt <- 63, FixedShift <- 4, TopShift <- 5, MemoryAnchor <- 2,
       Steps <- [m \in 0 .. 7 |-> <<16, 17, 19, 20, 22, 24, 26, 29>>[m + 1]]

Anchors == {0, 2}
Values == 0 .. 63
Observed(anchor, v, w) == G!HistObserve(anchor, G!HistObserve(anchor, EmptyBag, v), w)

BucketsAgree ==
  \A anchor \in Anchors : \A v \in Values :
    LET i == G!Index(anchor, v) IN
    /\ G!LowerBound(anchor, i) =< v /\ v < G!UpperBound(anchor, i)
    /\ v > 0 => G!Index(anchor, v - 1) =< i
    /\ \A w \in {0, 5, 63} :
         LET h == Observed(anchor, v, w)
         IN  G!UnmarshalHist(anchor, G!MarshalHist(anchor, h)) = h
    /\ G!UnmarshalHist(anchor, {<<v, 1>>}) = G!Refused <=> v # G!LowerBound(anchor, i)

(***************************************************************************)
(* The bucket grid is exact: every value up to the largest lies in the     *)
(* bucket Index gives it, no larger value has a smaller bucket, and what   *)
(* MarshalJSON writes UnmarshalJSON reads back, while a key that is no     *)
(* bound of the grid is refused.  Small values share integer bounds and    *)
(* the top saturates, which is where an off-by-one would sit.  Like        *)
(* MergeIsUnion it is about values only, so it is evaluated at the start.  *)
(***************************************************************************)
GridExact == Init => BucketsAgree

\* Observations of one key, some across the boundary of a window.
Samples == {<<"cpu", 0, 2, 6>>, <<"cpu", 2, 5, 4>>, <<"throttling", 1, 4, 5>>,
            <<"cpu_psi", 1, 4, 2>>, <<"memory_psi", 2, 4, 3>>, <<"memory", 1, 1, 9>>,
            <<"memory", 2, 2, 30>>, <<"memory", 4, 4, 0>>}

Add(acc, s) ==
  CASE s[1] = "cpu" -> G!ObserveCPUDelta(acc, s[2], s[3], s[4])
    [] s[1] = "throttling" -> G!ObserveThrottling(acc, s[2], s[3], s[4], s[4])
    [] s[1] = "cpu_psi" -> G!ObserveCPUPSI(acc, s[2], s[3], s[4])
    [] s[1] = "memory_psi" -> G!ObserveMemoryPSI(acc, s[2], s[3], s[4])
    [] s[1] = "memory" -> G!ObserveMemory(acc, s[2], s[4])

MergeAll(a, b) ==
  [w \in DOMAIN a \cup DOMAIN b |-> G!Merge(G!recordAt(a, w), G!recordAt(b, w))]

Traffic == {<<0, 2, 3>>, <<1, 3, 4>>, <<2, 5, 7>>}

AddTraffic(acc, s) == G!NetworkObserve(acc, s[1], s[2], s[3], s[3] % 3, s[3] = 4)
NoTraffic == [w \in {} |-> G!newNetwork]

MergeTraffic(a, b) ==
  [w \in DOMAIN a \cup DOMAIN b |-> G!NetworkMerge(G!networkAt(a, w), G!networkAt(b, w))]

MergesAgree ==
  /\ \A s \in Samples : \A t \in Samples : \A u \in Samples :
       LET one == Add(G!NoneOpen, s)
           two == Add(Add(G!NoneOpen, t), u)
           all == Add(Add(one, t), u)
       IN  MergeAll(one, two) = all /\ MergeAll(two, one) = all
  /\ \A s \in Traffic : \A t \in Traffic : \A u \in Traffic :
       LET one == AddTraffic(NoTraffic, s)
           two == AddTraffic(AddTraffic(NoTraffic, t), u)
           all == AddTraffic(AddTraffic(one, t), u)
       IN  MergeTraffic(one, two) = all /\ MergeTraffic(two, one) = all

(***************************************************************************)
(* Package rollup: merging partial rollups equals one rollup over the      *)
(* union of their inputs, the property everything downstream relies on.    *)
(* However three observations are divided between two accumulators, across *)
(* window boundaries and with one side empty, Merge in either order gives  *)
(* the accumulator that saw all three.                                     *)
(***************************************************************************)
MergeIsUnion == Init => MergesAgree
=============================================================================
