------------------------------- MODULE Accrual -------------------------------
(***************************************************************************)
(* What the agent says about itself by window: the failure streak of a     *)
(* watched cache (collector/watchhealth.go), the journals of states,       *)
(* counters and goroutine readings (internal/journal) that each pass folds *)
(* it into, the pass that writes them (logCoverage, flushGoroutineCounts), *)
(* graceful stops with their last pass, crashes and recovery.              *)
(*                                                                         *)
(* Which of the four is followed is fixed at the start: a policy cache and *)
(* its state record, a gating cache and the watchdog that stops the agent, *)
(* one counter, or one process's goroutine readings.  They share the pass  *)
(* and the clock and nothing else.                                         *)
(***************************************************************************)
EXTENDS Integers, FiniteSets, FiniteSetsExt

CONSTANTS Length,         \* ticks in a window
          MaxTime,        \* bound: the last instant
          PassGap,        \* the longest time between two passes of a process
          StreakGap,      \* watchStreakGap
          UnavailableFor, \* watchUnavailableFor
          FatalStreak,    \* watchFatalStreak
          Cap,            \* maxSamplesPerWindow
          MaxRise,        \* bound: what a counter rises by in a tick
          MaxFaults       \* bound: stops, crashes and failed writes

ASSUME AccrualAssumption ==
  /\ Length \in Nat \ {0} /\ MaxTime \in Nat /\ Cap \in Nat /\ FatalStreak \in Nat
  /\ MaxRise \in Nat
  /\ StreakGap \in Nat \ {0}   \* a watch that is refused fails again within the gap

\* coverageInterval, watchStreakGap and watchUnavailableFor: one, two and three
\* minutes.
ASSUME TimingAssumption ==
  /\ PassGap \in Nat \ {0} /\ UnavailableFor \in Nat
  /\ PassGap =< StreakGap /\ StreakGap =< UnavailableFor

Subjects == {"policy", "gating", "counter", "goroutines"}
Windows == 0 .. MaxTime \div Length
None == -1
NoRecord == [held |-> FALSE, observed |-> 0, to |-> 0, occupied |-> 0, entries |-> 0,
             since |-> None, delta |-> 0, samples |-> 0, dropped |-> 0]
Nothing == [w \in Windows |-> NoRecord]
Unseen == [at |-> None, since |-> None, count |-> 0]
NoFile == [rec |-> NoRecord, final |-> FALSE]

VARIABLES subject,  \* what this behaviour follows
          now,      \* wall clock
          outage,   \* the API server refuses the watch
          first,    \* watchHealth: the start of the run of failures
          last,     \* watchHealth: the latest failure
          phase,    \* the process: "up", "stopping" or "down"
          due,      \* what the timers still owe this tick
          count,    \* the counter, as this process has counted it
          reading,  \* the instant of a goroutine reading not filed yet
          open,     \* the accumulator: window -> record
          seen,     \* the previous pass: its instant, the episode, the count
          step,     \* the pass: "idle", "closed" or "writing"
          passNow,  \* the pass's one reading of the clock
          batch,    \* records the pass has yet to write
          file,     \* window -> its file in the spool
          written,  \* ghost: window -> the last payload published for it
          runs,     \* ghost: when outages began, whichever process was up
          failed,   \* ghost: the latest failure, whichever process was up
          refused,  \* ghost: ticks in a row this process was refused
          truth,    \* ghost: window -> ticks the state held
          watched,  \* ghost: window -> ticks between two passes of one process
          rises,    \* ghost: what the counter rose by in all, and until this process's first pass
          filed,    \* ghost: window -> readings filed
          late,     \* ghost: windows a reading reopened
          faults

health == <<first, last>>
process == <<phase, count, reading, open, seen, step, passNow, batch>>
files == <<file, written>>
ghosts == <<runs, failed, refused, truth, watched, rises, filed, late>>
vars == <<subject, now, outage, health, due, process, files, ghosts, faults>>

Watches == subject \in {"policy", "gating"}

startOf(at) == at \div Length
WindowEnd(w) == (w + 1) * Length
Least(a, b) == IF a < b THEN a ELSE b
Greatest(a, b) == IF a > b THEN a ELSE b

Init ==
  /\ subject \in Subjects
  /\ now = 0 /\ outage = FALSE /\ first = None /\ last = None
  /\ phase = "up" /\ due = {"pass", "check", "fail", "read"}
  /\ count = 0 /\ reading = None /\ open = Nothing /\ seen = Unseen
  /\ step = "idle" /\ passNow = 0 /\ batch = Nothing
  /\ file = [w \in Windows |-> NoFile] /\ written = [w \in Windows |-> NoFile]
  /\ runs = {} /\ failed = None /\ refused = 0
  /\ truth = [w \in Windows |-> 0] /\ watched = [w \in Windows |-> 0]
  /\ rises = [all |-> 0, unseen |-> 0] /\ filed = [w \in Windows |-> 0] /\ late = {}
  /\ faults = 0

-----------------------------------------------------------------------------
\* watchHealth.

record(at) ==
  /\ first' = IF last = None \/ at - last > StreakGap THEN at ELSE first
  /\ last' = at

\* Fault, not the code: the quiet is measured from the first failure.
failingForFirst(at) == IF last = None \/ at - first > StreakGap THEN 0 ELSE last - first

failingFor(at) == IF last = None \/ at - last > StreakGap THEN 0 ELSE last - first

failingSince(at) == IF last = None \/ at - last > UnavailableFor THEN None ELSE first

\* A refused watch is retried, and fails again, within a tick.
Fail ==
  /\ phase = "up" /\ outage /\ "fail" \in due
  /\ due' = due \ {"fail"}
  /\ record(now)
  /\ runs' = IF failed = None \/ now - failed > StreakGap THEN runs \cup {now} ELSE runs
  /\ failed' = now
  /\ refused' = refused + 1
  /\ UNCHANGED <<subject, now, outage, process, files, truth, watched, rises, filed, late, faults>>

\* watchdog: one look at a gating cache.
Check ==
  /\ phase = "up" /\ subject = "gating" /\ "check" \in due
  /\ due' = due \ {"check"}
  /\ phase' = IF failingFor(now) >= FatalStreak THEN "stopping" ELSE phase
  /\ UNCHANGED <<subject, now, outage, health, count, reading, open, seen, step, passNow, batch,
                 files, ghosts, faults>>

-----------------------------------------------------------------------------
\* The clock moves once the timers that cannot be late have fired, and the pass
\* within its gap.
Owed ==
  \/ subject = "gating" /\ "check" \in due
  \/ Watches /\ outage /\ "fail" \in due
  \/ "pass" \in due /\ (seen.at = None \/ now - seen.at >= PassGap)

Tick == \E refusing \in IF Watches THEN BOOLEAN ELSE {FALSE},
           rise \in IF subject = "counter" THEN 0 .. MaxRise ELSE {0} :
  /\ now < MaxTime /\ step = "idle"
  /\ phase = "up" => ~Owed
  /\ phase # "stopping"
  /\ now' = now + 1
  /\ outage' = refusing
  /\ due' = {"pass", "check", "fail", "read"}
  /\ count' = IF phase = "up" THEN count + rise ELSE count
  /\ rises' = IF phase = "up"
              THEN [all |-> rises.all + rise,
                    unseen |-> IF seen.at = None THEN rises.unseen + rise ELSE rises.unseen]
              ELSE rises
  /\ refused' = IF "fail" \in due THEN 0 ELSE refused
  /\ truth' = IF phase = "up" /\ last # None /\ now + 1 - last =< UnavailableFor
              THEN [truth EXCEPT ![startOf(now)] = @ + 1] ELSE truth
  /\ watched' = IF phase = "up" /\ seen.at # None
                THEN [watched EXCEPT ![startOf(now)] = @ + 1] ELSE watched
  /\ UNCHANGED <<subject, health, phase, reading, open, seen, step, passNow, batch, files,
                 runs, failed, filed, late, faults>>

-----------------------------------------------------------------------------
\* The journals.  split: the ticks of an interval that fall in a window.
Span(from, to, w) ==
  Greatest(0, Least(to, WindowEnd(w)) - Greatest(from, w * Length))

Held(r) == [r EXCEPT !.held = TRUE]
Since == IF subject = "policy" THEN failingSince(now) ELSE None
Known == seen.at # None

\* Fault, not the code: every window the interval touches takes all of it.
accrueWhole(w) ==
  [Held(open[w]) EXCEPT !.observed = @ + now - seen.at, !.to = Least(now, WindowEnd(w)),
                        !.since = Since]

\* Fault, not the code: only the interval an episode opens in is occupied.
accrueOpening(w) ==
  [Held(open[w]) EXCEPT
     !.observed = @ + Span(seen.at, now, w), !.to = Least(now, WindowEnd(w)), !.since = Since,
     !.occupied = IF Since = None \/ seen.since # None THEN @ ELSE @ + Span(Since, now, w)]

\* States.accrue: all of the interval is observed; open at both ends means open
\* throughout, closed at this end attributes nothing.
accrueState(w) ==
  LET from == IF seen.since # None THEN seen.at ELSE Greatest(Since, seen.at) IN
  [Held(open[w]) EXCEPT
     !.observed = @ + Span(seen.at, now, w),
     !.to = Least(now, WindowEnd(w)),
     !.since = Since,
     !.occupied = IF Since = None THEN @ ELSE @ + Span(from, now, w)]

Entered(r) == [Held(r) EXCEPT !.entries = @ + 1]

\* Fault, not the code: an episode is counted at every pass that sees it.
enterAlways(acc) ==
  IF Since = None THEN acc
  ELSE [acc EXCEPT ![startOf(now)] = Entered(@)]

\* States.enter: an episode is counted in the window this pass saw it in, unless
\* it is the one the previous pass saw or the resumed record names.
enter(acc) ==
  IF \/ Since = None
     \/ Known /\ seen.since = Since
     \/ ~Known /\ acc[startOf(now)].since = Since
  THEN acc
  ELSE [acc EXCEPT ![startOf(now)] = Entered(@)]

\* States.stamp.
stamp(acc) ==
  [acc EXCEPT ![startOf(now)] = [Held(@) EXCEPT !.to = now, !.since = Since]]

Accrues == Known /\ now > seen.at

Spanned == IF Accrues THEN startOf(seen.at) .. startOf(now - 1) ELSE {}

ObserveState ==
  stamp(enter([w \in Windows |-> IF w \in Spanned THEN accrueState(w) ELSE open[w]]))

\* Fault, not the code: the whole reading is the rise.
riseFromZero == count

\* Counters.accrue: what the counter rose by since the previous pass; one that
\* fell is a new base.
rise == IF count < seen.count THEN 0 ELSE count - seen.count

Risen(r) == [Held(r) EXCEPT !.to = now, !.delta = IF Accrues THEN @ + rise ELSE @]

\* Counters.Observe: the interval is split, the rise lands whole where it was
\* seen.
ObserveCounter ==
  LET observed == [w \in Windows |->
                     IF w \in Spanned
                     THEN [Held(open[w]) EXCEPT !.observed = @ + Span(seen.at, now, w)]
                     ELSE open[w]]
  IN  [observed EXCEPT ![startOf(now)] = Risen(@)]

\* Fault, not the code: a reading past the cap vanishes.
sampleUncounted(r) ==
  IF r.samples >= Cap THEN Held(r) ELSE [Held(r) EXCEPT !.samples = @ + 1]

\* Goroutines.Observe of one reading.
sample(r) ==
  IF r.samples >= Cap THEN [Held(r) EXCEPT !.dropped = @ + 1]
  ELSE [Held(r) EXCEPT !.samples = @ + 1]

\* visit reads the clock, asks the process, and hands the answer to Observe.
Read ==
  /\ phase = "up" /\ subject = "goroutines" /\ "read" \in due /\ reading = None
  /\ due' = due \ {"read"}
  /\ reading' = now
  /\ UNCHANGED <<subject, now, outage, health, phase, count, open, seen, step, passNow, batch,
                 files, ghosts, faults>>

\* The process that reads is not waited for by a stop.
FileReading ==
  /\ phase # "down" /\ reading # None
  /\ LET w == startOf(reading) IN
       /\ open' = [open EXCEPT ![w] = sample(@)]
       /\ filed' = [filed EXCEPT ![w] = @ + 1]
       /\ late' = IF written[w].final \/ (step # "idle" /\ WindowEnd(w) =< passNow)
                  THEN late \cup {w} ELSE late
  /\ reading' = None
  /\ UNCHANGED <<subject, now, outage, health, due, phase, count, seen, step, passNow, batch,
                 files, runs, failed, refused, truth, watched, rises, faults>>

\* The process asked does not answer.
ReadFails ==
  /\ phase # "down" /\ reading # None
  /\ reading' = None
  /\ UNCHANGED <<subject, now, outage, health, due, phase, count, open, seen, step, passNow,
                 batch, files, ghosts, faults>>

-----------------------------------------------------------------------------
\* The pass: Observe, CloseBefore and Snapshots with one reading of the clock,
\* then one file per window.
Ended(w) == WindowEnd(w) =< now

Observed ==
  CASE subject = "policy" -> ObserveState
    [] subject = "counter" -> ObserveCounter
    [] OTHER -> open

\* Fault, not the code: the ended windows are closed before the interval is
\* folded in.
PassClosesFirst ==
  /\ phase # "down" /\ step = "idle" /\ "pass" \in due
  /\ due' = due \ {"pass"}
  /\ passNow' = now
  /\ batch' = [w \in Windows |-> IF Ended(w) THEN open[w] ELSE NoRecord]
  /\ open' = [w \in Windows |-> IF Ended(w) /\ w \notin Spanned THEN NoRecord ELSE Observed[w]]
  /\ seen' = [at |-> now, since |-> Since, count |-> count]
  /\ step' = "closed"
  /\ UNCHANGED <<subject, now, outage, health, phase, count, reading, files, ghosts, faults>>

Pass ==
  /\ phase # "down" /\ step = "idle" /\ "pass" \in due
  /\ due' = due \ {"pass"}
  /\ passNow' = now
  /\ batch' = [w \in Windows |-> IF Ended(w) THEN Observed[w] ELSE NoRecord]
  /\ open' = [w \in Windows |-> IF Ended(w) THEN NoRecord ELSE Observed[w]]
  /\ seen' = [at |-> now, since |-> Since, count |-> count]
  /\ step' = "closed"
  /\ UNCHANGED <<subject, now, outage, health, phase, count, reading, files, ghosts, faults>>

\* A record filed between the two acquisitions of the lock travels with the one
\* that was closed.
Both(a, b) ==
  IF a.held /\ b.held
  THEN [a EXCEPT !.samples = @ + b.samples, !.dropped = @ + b.dropped]
  ELSE IF b.held THEN b ELSE a

Snapshots ==
  /\ step = "closed"
  /\ batch' = [w \in Windows |-> Both(batch[w], open[w])]
  /\ step' = "writing"
  /\ UNCHANGED <<subject, now, outage, health, due, phase, count, reading, open, seen, passNow,
                 files, ghosts, faults>>

\* WriteAgentStates, WriteAgentCounters, WriteGoroutineCounts.
Write(w) ==
  /\ step = "writing" /\ batch[w].held
  /\ file' = [file EXCEPT ![w] = [rec |-> batch[w], final |-> WindowEnd(w) =< passNow]]
  /\ written' = [written EXCEPT ![w] = file'[w]]
  /\ batch' = [batch EXCEPT ![w] = NoRecord]
  /\ UNCHANGED <<subject, now, outage, health, due, phase, count, reading, open, seen, step,
                 passNow, ghosts, faults>>

\* The pass ends with its last file, or with the first that cannot be written.
PassEnds ==
  /\ step = "writing"
  /\ \/ batch = Nothing /\ UNCHANGED faults
     \/ batch # Nothing /\ faults < MaxFaults /\ faults' = faults + 1
  /\ batch' = Nothing
  /\ step' = "idle"
  /\ UNCHANGED <<subject, now, outage, health, due, phase, count, reading, open, seen, passNow,
                 files, ghosts>>

-----------------------------------------------------------------------------
\* A file leaves the spool: acknowledged by the backend, or swept.
Leave(w) ==
  /\ file[w] # NoFile /\ step = "idle"
  /\ file' = [file EXCEPT ![w] = NoFile]
  /\ UNCHANGED <<subject, now, outage, health, due, process, written, ghosts, faults>>

\* The process is asked to stop: the running pass is waited for and one more
\* is made.
Terminate ==
  /\ phase = "up" /\ faults < MaxFaults
  /\ faults' = faults + 1
  /\ phase' = "stopping"
  /\ due' = {"pass"}
  /\ UNCHANGED <<subject, now, outage, health, count, reading, open, seen, step, passNow, batch,
                 files, ghosts>>

\* Memory goes with the process.
Forget ==
  /\ phase' = "down" /\ first' = None /\ last' = None /\ count' = 0 /\ reading' = None
  /\ open' = Nothing /\ seen' = Unseen /\ step' = "idle" /\ batch' = Nothing
  /\ due' = {"pass", "check", "fail", "read"} /\ refused' = 0
  /\ UNCHANGED <<subject, now, outage, passNow, files,
                 runs, failed, truth, watched, rises, filed, late>>

Exit == phase = "stopping" /\ step = "idle" /\ "pass" \notin due /\ Forget /\ UNCHANGED faults

Crash == phase # "down" /\ faults < MaxFaults /\ faults' = faults + 1 /\ Forget

\* RecoverOpenWindows and Resume: the records of the windows that have not
\* ended; the goroutine samples within their cap.
Resumed(w) == IF Ended(w) THEN NoRecord ELSE file[w].rec

Restart ==
  /\ phase = "down"
  /\ phase' = "up"
  /\ open' = [w \in Windows |-> Resumed(w)]
  /\ UNCHANGED <<subject, now, outage, health, due, count, reading, seen, step, passNow, batch,
                 files, ghosts, faults>>

Next ==
  \/ Tick \/ Fail \/ Check
  \/ Read \/ FileReading \/ ReadFails
  \/ Pass \/ Snapshots \/ PassEnds
  \/ \E w \in Windows : Write(w) \/ Leave(w)
  \/ Terminate \/ Exit \/ Crash \/ Restart

Spec == Init /\ [][Next]_vars

-----------------------------------------------------------------------------
Amounts == 0 .. MaxTime * (MaxRise + 2)
Record == [held : BOOLEAN, observed : Amounts, to : 0 .. MaxTime, occupied : Amounts,
           entries : Amounts, since : None .. MaxTime, delta : Amounts,
           samples : Amounts, dropped : Amounts]
Published == [rec : Record, final : BOOLEAN]

TypeOK ==
  /\ subject \in Subjects /\ now \in 0 .. MaxTime /\ outage \in BOOLEAN
  /\ first \in None .. now /\ last \in first .. now
  /\ phase \in {"up", "stopping", "down"} /\ due \subseteq {"pass", "check", "fail", "read"}
  /\ count \in Amounts /\ reading \in None .. now
  /\ {open, batch} \subseteq [Windows -> Record]
  /\ seen \in [at : None .. now, since : None .. now, count : 0 .. count]
  /\ step \in {"idle", "closed", "writing"} /\ passNow \in 0 .. now
  /\ {file, written} \subseteq [Windows -> Published]
  /\ faults \in 0 .. MaxFaults

\* What is known of a window: in memory, on its way to the spool, or published.
Latest(w) == IF open[w].held THEN open[w] ELSE IF batch[w].held THEN batch[w] ELSE written[w].rec
Total(f) == SumFunctionOnSet([w \in Windows |-> Latest(w)[f]], Windows)

(***************************************************************************)
(* ADR 0088: sampling at the pass loses no episode.  While passes are no   *)
(* further apart than the quiet that separates two runs of failures, and   *)
(* one process runs, the entries are the runs that began before the last   *)
(* pass: none missed, none counted twice.  About failingSince and enter.   *)
(***************************************************************************)
EpisodesCounted ==
  (subject = "policy" /\ faults = 0) =>
    /\ Cardinality({r \in runs : r < seen.at}) =< Total("entries")
    /\ Total("entries") =< Cardinality({r \in runs : r =< seen.at})

\* A record never observes more than its window was watched, nor is occupied for
\* longer than it was observed.  About split and accrue.
SpansAccounted ==
  \A w \in Windows : \A r \in {Latest(w), written[w].rec} :
    r.observed =< watched[w] /\ r.occupied =< r.observed

(***************************************************************************)
(* No span is measured twice and a restart's gap is in neither number: a   *)
(* record never observes more than its window was watched, nor is occupied *)
(* for longer than it was observed, through crashes, resumed windows and   *)
(* passes that cross a boundary.  In one process, occupancy is within a    *)
(* pass per episode of the time the state held, on either side: an episode *)
(* that closed between two passes loses its last part, and one that closed *)
(* and opened between them gains the gap.  About split, accrue, Resume and *)
(* the three-minute tail of failingSince.                                  *)
(***************************************************************************)
OccupancyAccounted ==
  /\ SpansAccounted
  /\ (subject = "policy" /\ faults = 0 /\ seen.at = now /\ step = "idle") =>
       LET held == SumFunctionOnSet(truth, Windows) IN
       /\ Total("occupied") =< held + PassGap * Total("entries")
       /\ held =< Total("occupied") + PassGap * Total("entries")

\* No series outgrows its cap and, until a fault or a late reading, what was filed
\* in a window is what its record accounts for.  About Goroutines.Observe.
ReadingsAccounted ==
  subject = "goroutines" =>
    \A w \in Windows :
      /\ open[w].samples =< Cap
      /\ faults = 0 /\ w \notin late => Latest(w).samples + Latest(w).dropped = filed[w]

(***************************************************************************)
(* A rise of a counter is counted once or, across a restart, not at all:   *)
(* the deltas of one process add up to what it saw the counter rise by,    *)
(* and those of several to no more.  A goroutine reading is in the series  *)
(* or counted as dropped, and no record outgrows its cap, also when its    *)
(* window is resumed full: until a fault or a late reading, what was filed *)
(* in a window is what its record accounts for.  About Counters.Observe,   *)
(* Goroutines.Observe, CloseBefore, Snapshots and Resume.                  *)
(***************************************************************************)
CountedOnce ==
  /\ subject = "counter" =>
       /\ Total("delta") =< rises.all - rises.unseen
       /\ faults = 0 /\ seen.at # None => Total("delta") = seen.count - rises.unseen
  /\ ReadingsAccounted

(***************************************************************************)
(* A gating cache cannot stay refused for long: the watchdog stops the     *)
(* agent within a check of the fatal streak.  About record, failingFor and *)
(* watchdog.                                                               *)
(***************************************************************************)
BlindnessBounded ==
  subject = "gating" => refused =< FatalStreak + 2

(***************************************************************************)
(* States.enter: counting an episode where it was seen keeps every window  *)
(* final once it has ended.  No pass, crash, stop or recovery writes a     *)
(* state or counter window again after its final payload.                  *)
(***************************************************************************)
EndedIsFinal ==
  [][\A w \in Windows :
       subject # "goroutines" /\ written[w].final => written'[w] = written[w]]_vars

(***************************************************************************)
(* ADR 0088: open_since tells a resumed process that the episode it finds  *)
(* open is the one already counted, so a restart within a window adds no   *)
(* entry.                                                                  *)
(***************************************************************************)
EpisodeCountedOnce ==
  subject = "policy" => Total("entries") =< Cardinality(runs)
=============================================================================
