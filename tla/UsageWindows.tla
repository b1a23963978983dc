----------------------------- MODULE UsageWindows -----------------------------
(***************************************************************************)
(* One cumulative counter of one replica's container, from the kubelet's   *)
(* cached statistics through the usage poller (internal/collector/usage.go,*)
(* cadvisor.go) and the window accumulator to the snapshot and closed      *)
(* files in the spool, with container restarts, lost polls, failed writes, *)
(* a wall clock that may step back, and crashes of the controller.         *)
(*                                                                         *)
(* A record is of all replicas of a workload's container and its numbers   *)
(* are sums over them (rollup.Key, MergeIsUnion).  Whether a record, a     *)
(* snapshot or a closed file exists is the record's here; the amount, the  *)
(* cover and the samples are the followed replica's share of the sums.     *)
(* The other replicas open records, and reopen closed ones, at any time.   *)
(*                                                                         *)
(* Which counter is followed is fixed at the start: the CPU time, the CFS  *)
(* throttling periods (another endpoint, whose start time may be missing), *)
(* or the pod's network bytes (no start time, no snapshot, no recovery).   *)
(* The counters have separate baselines and never meet.                    *)
(***************************************************************************)
EXTENDS Windowing, FiniteSets

CONSTANTS MaxTime,    \* bound: the last instant
          StaleAfter, \* ticks after which an unseen baseline is forgotten
          Load,       \* what the container adds to the counter up to an instant
          MaxFaults   \* bound: crashes, container restarts, failed writes, clock steps

\* A window has a length, a counter only grows, and an interval fits the
\* integer type.
ASSUME UsageAssumption ==
  /\ Length \in Nat \ {0} /\ MaxTime \in Nat /\ StaleAfter \in Nat /\ MaxFaults \in Nat
  /\ Load \in [1 .. MaxTime -> Nat]
  /\ MaxInt \in Nat /\ MaxTime =< MaxInt

Windows == 0 .. MaxTime \div Length
None == [amount |-> 0, covered |-> 0, samples |-> 0, held |-> FALSE]
Fresh == [None EXCEPT !.held = TRUE]
NoBase == [at |-> -1, count |-> 0, seen |-> -1]
Empty == [w \in Windows |-> None]

VARIABLES signal,   \* the counter this behaviour follows
          now,      \* wall clock
          ctr,      \* the container: start and cumulative count
          stat,     \* what the kubelet serves: instant, count, start
          up,       \* the controller runs
          base,     \* the poller's baseline for the counter
          resumed,  \* the key's window was adopted from the spool
          until,    \* resumedUntil
          open,     \* the accumulator: window -> record
          due,      \* what the poller's two timers still owe this tick
          flush,    \* "idle", "closing", "removing" or "snapshots"
          cur,      \* the window whose closed file was written last
          batch,    \* records the running flush has yet to write
          snap,     \* the snapshot files
          closed,   \* the closed-window files
          final,    \* ghost: the last closed payload written for a window
          told,     \* ghost: the last snapshot written for a window
          gone,     \* ghost: windows whose last snapshot a restart did not find
          late,     \* ghost: closed windows that took a late sample, or that the clock
                    \* stepped back into once the closed file had left
          lives,    \* ghost: starts of the counter's lives counted from the start
          again,    \* ghost: a life was counted from the start twice, its baseline gone,
                    \* or the clock passed an instant twice
          lost,     \* ghost: some of the counter was never attributed
          faults

poller == <<due, base, resumed, until, open, flush, cur, batch>>
files == <<snap, closed>>
ghosts == <<final, told, gone, late, lives, again, lost>>
vars == <<signal, now, ctr, stat, up, poller, files, ghosts, faults>>

Timers == {"poll", "flush"}
Signals == {"cpu", "throttling", "network"}

Record == [amount : Nat, covered : Nat, samples : Nat, held : BOOLEAN]

TypeOK ==
  /\ signal \in Signals /\ now \in 0 .. MaxTime /\ up \in BOOLEAN
  /\ ctr \in [start : 0 .. MaxTime, count : Nat]
  /\ stat \in [at : 0 .. MaxTime, count : Nat, start : 0 .. MaxTime]
  /\ base \in [at : -1 .. MaxTime, count : Nat, seen : -1 .. MaxTime]
  /\ resumed \in BOOLEAN /\ until \in 0 .. MaxTime + Length
  /\ open \in [Windows -> Record] /\ batch \in [Windows -> Record]
  /\ snap \in [Windows -> Record] /\ closed \in [Windows -> Record]
  /\ final \in [Windows -> Record] /\ told \in [Windows -> Record]
  /\ cur \in Windows /\ flush \in {"idle", "closing", "removing", "snapshots"}
  /\ gone \subseteq Windows /\ late \subseteq Windows /\ lives \subseteq 0 .. MaxTime
  /\ again \in BOOLEAN /\ lost \in BOOLEAN
  /\ due \subseteq Timers /\ faults \in 0 .. MaxFaults

Init ==
  /\ signal \in Signals
  /\ now = 0 /\ up = TRUE
  /\ ctr = [start |-> 0, count |-> 0]
  /\ stat = [at |-> 0, count |-> 0, start |-> 0]
  /\ base = NoBase /\ resumed = FALSE /\ until = 0
  /\ open = Empty /\ flush = "idle" /\ cur = 0 /\ batch = Empty
  /\ snap = Empty /\ closed = Empty
  /\ final = Empty /\ told = Empty /\ gone = {} /\ late = {} /\ lives = {}
  /\ again = FALSE /\ lost = FALSE
  /\ due = Timers /\ faults = 0

-----------------------------------------------------------------------------
\* The cluster: time, the container's work, and the kubelet's own cadence.  A
\* flush reads the clock once and the kubelet not at all, so nothing is lost by
\* letting the cluster move between flushes only.
Tick == \E fresh \in BOOLEAN :
  /\ flush = "idle" /\ now < MaxTime
  /\ now' = now + 1
  /\ ctr' = [ctr EXCEPT !.count = @ + Load[now + 1]]
  /\ stat' = IF fresh THEN [at |-> now + 1, count |-> ctr'.count, start |-> ctr.start] ELSE stat
  /\ due' = Timers
  /\ UNCHANGED <<signal, up, base, resumed, until, open, flush, cur, batch,
                 files, ghosts, faults>>

\* The container restarts, or for the network counter the sandbox is recreated.
ContainerRestart ==
  /\ flush = "idle" /\ ctr.start < now /\ faults < MaxFaults
  /\ faults' = faults + 1
  /\ ctr' = [start |-> now, count |-> 0]
  /\ lost' = TRUE
  /\ UNCHANGED <<signal, now, stat, up, poller, files, final, told, gone, late, lives, again>>

-----------------------------------------------------------------------------
\* Adding a counter delta to the windows it covers.
Touch(r) == IF r.held THEN r ELSE Fresh

\* ObserveCPUDelta, ObserveThrottling and NetworkAccumulator.Observe: the
\* first two count the sample in the window of the interval's last instant,
\* the third in the window the interval's end falls in.
Observe(from, to, amount) ==
  IF to =< from THEN open
  ELSE LET parts == Split(from, to, amount)
           span == Split(from, to, to - from)
           home == IF signal = "network" THEN startOf(to) ELSE startOf(to - 1)
           Add(w) == [Touch(open[w]) EXCEPT
                        !.amount = @ + IF w \in DOMAIN parts THEN parts[w] ELSE 0,
                        !.covered = @ + IF w \in DOMAIN span /\ signal # "throttling"
                                        THEN span[w] ELSE 0,
                        !.samples = @ + IF w = home THEN 1 ELSE 0]
       IN  [w \in Windows |-> IF w \in DOMAIN span \cup {home} THEN Add(w) ELSE open[w]]

\* Fault, not the code: a resumed key is counted from the start again.
AlwaysAttributable == TRUE

attributableFromStart == ~resumed

\* The ways one sample is taken: the first of a counter, one already seen, one
\* of a counter that ran backwards, and a delta.
IsFirst == base.at = -1
IsStale == ~IsFirst /\ stat.at =< base.at
IsReset == ~IsFirst /\ ~IsStale /\ stat.count < base.count
IsDelta == ~IsFirst /\ ~IsStale /\ ~IsReset

\* A first sample reaches back to the container's start; the network counters
\* have no start, and the exposition may not carry it (known).
FromStart(known) ==
  IsFirst /\ signal # "network" /\ attributableFromStart /\ (signal = "throttling" => known)

Taken(known) ==
  IF FromStart(known) THEN Observe(stat.start, stat.at, stat.count)
  ELSE IF IsDelta THEN Observe(base.at, stat.at, stat.count - base.count)
  ELSE open

\* ingestContainer, ingestCadvisor, ingestNetwork for the one counter.
Baseline ==
  IF IsStale THEN [base EXCEPT !.seen = now]
  ELSE [at |-> stat.at, count |-> stat.count, seen |-> now]

\* sweep: a baseline unseen for too long is forgotten, and the resumed mark
\* lifts when the windows it guards have ended.
Swept(b) == IF b.seen # -1 /\ b.seen < now - StaleAfter THEN NoBase ELSE b
SweptMark == resumed /\ now < until

\* pollOnce when the node answers and the pod is known.
Poll(known) ==
  /\ up /\ flush = "idle" /\ "poll" \in due
  /\ due' = due \ {"poll"}
  /\ open' = Taken(known)
  /\ base' = Swept(Baseline)
  /\ resumed' = SweptMark
  /\ late' = late \cup {w \in Windows : open'[w] # open[w] /\ final[w].held}
  /\ lives' = IF FromStart(known) \/ IsDelta THEN lives \cup {stat.start} ELSE lives
  /\ again' = (again \/ (FromStart(known) /\ ~resumed /\ stat.start \in lives))
  /\ lost' = (lost \/ (IsFirst /\ ~FromStart(known)))
  /\ UNCHANGED <<signal, now, ctr, stat, up, until, flush, cur, batch, files, final, told, gone, faults>>

\* pollOnce over the workload's other replicas: a sample of theirs opens the
\* record of a window it reaches, this replica's share of which is unchanged.
OthersObserve(w) ==
  /\ up /\ flush = "idle" /\ "poll" \in due /\ WindowStart(w) =< now
  /\ open' = [open EXCEPT ![w] = Touch(@)]
  /\ late' = IF final[w].held THEN late \cup {w} ELSE late
  /\ UNCHANGED <<signal, now, ctr, stat, up, due, base, resumed, until, flush, cur, batch, files,
                 final, told, gone, lives, again, lost, faults>>

\* pollOnce when the node cannot be read, or the pod is not known yet.
PollMissed ==
  /\ up /\ flush = "idle" /\ "poll" \in due
  /\ due' = due \ {"poll"}
  /\ base' = Swept(base)
  /\ resumed' = SweptMark
  /\ UNCHANGED <<signal, now, ctr, stat, up, until, open, flush, cur, batch, files, ghosts, faults>>

-----------------------------------------------------------------------------
\* flush, on the poller's goroutine.  CloseBefore takes out the windows that
\* have ended; network windows have no snapshots.
Ended(w) == WindowEnd(w) =< now

FlushClose ==
  /\ up /\ flush = "idle" /\ "flush" \in due
  /\ due' = due \ {"flush"}
  /\ batch' = [w \in Windows |-> IF Ended(w) THEN open[w] ELSE None]
  /\ open' = [w \in Windows |-> IF Ended(w) THEN None ELSE open[w]]
  /\ flush' = "closing"
  /\ UNCHANGED <<signal, now, ctr, stat, up, base, resumed, until, cur, files, ghosts, faults>>

\* WriteClosedWindows and WriteNetworkWindows: one file per window, in the
\* order of a map's iteration.
WriteClosed(w) ==
  /\ flush = "closing" /\ batch[w].held
  /\ closed' = [closed EXCEPT ![w] = batch[w]]
  /\ final' = [final EXCEPT ![w] = batch[w]]
  /\ batch' = [batch EXCEPT ![w] = None]
  /\ flush' = IF signal = "network" THEN "closing" ELSE "removing"
  /\ cur' = w
  /\ UNCHANGED <<signal, now, ctr, stat, up, due, base, resumed, until, open, snap,
                 told, gone, late, lives, again, lost, faults>>

\* The closed record supersedes the window's snapshot, whose file is removed.
RemoveSnapshot ==
  /\ flush = "removing"
  /\ snap' = [snap EXCEPT ![cur] = None]
  /\ flush' = "closing"
  /\ UNCHANGED <<signal, now, ctr, stat, up, due, base, resumed, until, open, batch, cur,
                 closed, ghosts, faults>>

\* A write or the removal fails: the rest of the closed windows is dropped,
\* and the pass goes on to the snapshots.
CloseFails ==
  /\ flush = "removing" \/ (flush = "closing" /\ batch # Empty)
  /\ faults < MaxFaults
  /\ faults' = faults + 1
  /\ batch' = IF signal = "network" THEN Empty ELSE open
  /\ flush' = "snapshots"
  /\ lost' = (lost \/ batch # Empty)
  /\ UNCHANGED <<signal, now, ctr, stat, up, due, base, resumed, until, open, cur, files,
                 final, told, gone, late, lives, again>>

\* Snapshots copies the records still open; network windows have none.
FlushSnapshots ==
  /\ flush = "closing" /\ batch = Empty
  /\ batch' = IF signal = "network" THEN Empty ELSE open
  /\ flush' = "snapshots"
  /\ UNCHANGED <<signal, now, ctr, stat, up, due, base, resumed, until, open, cur, files,
                 ghosts, faults>>

\* WriteUsageSnapshot, one file per window.
WriteSnapshot(w) ==
  /\ flush = "snapshots" /\ batch[w].held
  /\ snap' = [snap EXCEPT ![w] = batch[w]]
  /\ told' = [told EXCEPT ![w] = batch[w]]
  /\ batch' = [batch EXCEPT ![w] = None]
  /\ UNCHANGED <<signal, now, ctr, stat, up, due, base, resumed, until, open, flush, cur, closed,
                 final, gone, late, lives, again, lost, faults>>

\* The snapshots are written, or one could not be and the rest is skipped: the
\* records stay open.
FlushEnds ==
  /\ flush = "snapshots"
  /\ \/ batch = Empty /\ UNCHANGED faults
     \/ batch # Empty /\ faults < MaxFaults /\ faults' = faults + 1
  /\ batch' = Empty
  /\ flush' = "idle"
  /\ UNCHANGED <<signal, now, ctr, stat, up, due, base, resumed, until, open, cur, files, ghosts>>

-----------------------------------------------------------------------------
\* A file leaves the spool: acknowledged by the backend, or swept.
Leave(w) ==
  /\ flush = "idle"
  /\ \/ snap[w].held /\ snap' = [snap EXCEPT ![w] = None] /\ UNCHANGED closed
     \/ closed[w].held /\ closed' = [closed EXCEPT ![w] = None] /\ UNCHANGED snap
  /\ UNCHANGED <<signal, now, ctr, stat, up, poller, ghosts, faults>>

\* The process dies; memory is gone, the spool stays.
Crash ==
  /\ up /\ faults < MaxFaults
  /\ faults' = faults + 1
  /\ up' = FALSE
  /\ base' = NoBase /\ resumed' = FALSE /\ until' = 0
  /\ open' = Empty /\ flush' = "idle" /\ batch' = Empty /\ cur' = 0 /\ due' = Timers
  /\ lost' = TRUE
  /\ UNCHANGED <<signal, now, ctr, stat, files, final, told, gone, late, lives, again>>

\* The wall clock steps back before the next process reads it.
ClockStepsBack ==
  /\ ~up /\ now > 0 /\ faults < MaxFaults
  /\ faults' = faults + 1
  /\ now' = now - 1 /\ again' = TRUE
  /\ UNCHANGED <<signal, ctr, stat, up, poller, files, final, told, gone, late, lives, lost>>

\* Fault, not the code: a window that has ended is reopened.
RecoverableEnded(w) == snap[w].held

\* RecoverOpenWindows: a snapshot is adopted when its window has not ended and
\* no closed record stands beside it.
Recoverable(w) == snap[w].held /\ ~Ended(w) /\ ~closed[w].held

\* Fault, not the code: the records are read and not merged.
SeedDropped(w) == None

\* Accumulator.Seed into an empty accumulator.
Seed(w) == IF Recoverable(w) THEN snap[w] ELSE None

\* The end of the last window resumed.
resumedUntil(back) == IF back = {} THEN 0 ELSE WindowEnd(Max(back))

\* seedOpenWindows and UsagePoller.Seed, before anything else runs.
Restart ==
  /\ ~up
  /\ up' = TRUE
  /\ open' = [w \in Windows |-> Seed(w)]
  /\ LET back == {w \in Windows : Recoverable(w)} IN
       /\ resumed' = (back # {})
       /\ until' = resumedUntil(back)
       /\ gone' = gone \cup {w \in Windows : told[w].held /\ ~(w \in back /\ snap[w] = told[w])}
       /\ late' = late \cup {w \in back : final[w].held /\ ~closed[w].held /\ ~Ended(w)}
  /\ UNCHANGED <<signal, now, ctr, stat, due, base, flush, batch, cur, files,
                 final, told, lives, again, lost, faults>>

Next ==
  \/ Tick \/ ContainerRestart
  \/ \E known \in BOOLEAN : Poll(known)
  \/ PollMissed
  \/ FlushClose \/ CloseFails \/ RemoveSnapshot \/ FlushSnapshots \/ FlushEnds
  \/ \E w \in Windows : WriteClosed(w) \/ WriteSnapshot(w) \/ Leave(w) \/ OthersObserve(w)
  \/ Crash \/ ClockStepsBack \/ Restart

Spec == Init /\ [][Next]_vars

-----------------------------------------------------------------------------
Sum(f) == SumFunctionOnSet([w \in Windows |-> f[w].amount], Windows)

(***************************************************************************)
(* ADR 0006: totals are exact whatever the poll cadence; a missed poll     *)
(* widens the next delta and loses nothing.  While no fault occurred and   *)
(* nothing was counted late or again, what the windows hold of the replica *)
(* is its counter as last read, whenever the other replicas are observed.  *)
(* About split, ingestContainer, CloseBefore, Snapshots.                   *)
(***************************************************************************)
TotalsExact ==
  (faults = 0 /\ ~lost /\ ~again /\ late = {} /\ base.at # -1 /\ flush # "snapshots") =>
    Sum(open) + Sum(batch) + Sum(final) = base.count

(***************************************************************************)
(* What one replica adds to a record's CoveredNanoseconds never exceeds    *)
(* the window, across restarts and resumed windows, unless one life of the *)
(* counter was attributed from its start twice or the wall clock stepped   *)
(* back and passed the same instants again.  The record sums the replicas, *)
(* so of n replicas it covers at most n windows and not, as its comment    *)
(* has it, at most one.  About split, the first sample, Seed and sweep.    *)
(***************************************************************************)
CoverageHonest ==
  ~again => \A w \in Windows : open[w].covered =< Length /\ final[w].covered =< Length

(***************************************************************************)
(* A closed record is replaced only after a sample of its window arrived   *)
(* late, or the clock stepped back into the window once the closed file    *)
(* had left the spool: no crash, failed write or recovery rewrites it, the *)
(* crash between the closed write and the snapshot's removal included.     *)
(* About WriteClosedWindows and RecoverOpenWindows.                        *)
(***************************************************************************)
OnlyLateSamplesRewrite ==
  [][\A w \in Windows : final[w].held /\ final'[w] # final[w] => w \in late]_vars

(***************************************************************************)
(* ADR 0072: a restart resumes the window the spool holds, so a window's   *)
(* snapshots never shrink unless a restart did not find the last one.      *)
(***************************************************************************)
SnapshotsOnlyGrow ==
  [][\A w \in Windows \ gone : told[w].amount =< told'[w].amount
                               /\ told[w].samples =< told'[w].samples]_vars
=============================================================================
