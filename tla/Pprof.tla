--------------------------------- MODULE Pprof ---------------------------------
(***************************************************************************)
(* Discovery and reading of pprof endpoints: the prober and the goroutine  *)
(* counter of internal/pprofprobe and the puller of internal/pprofpull,    *)
(* over the candidates that cmd/agent/main.go joins for them.  A behaviour *)
(* is that of one of the three goroutines (reader) while workloads come,   *)
(* go, fail and opt out.  Time is the reader's own ticks: a hold is the    *)
(* number of ticks it still lasts, and the instants of the last pulls are  *)
(* kept as their order, so the state is finite without a bound on time.    *)
(***************************************************************************)
EXTENDS SymbolFilter

CONSTANTS Ports,       \* the port snapshot: a sequence of [w, digest, ports]
          Builds,      \* the digests that link the package -> their own modules
          ServesOn,    \* the targets that serve the index page
          Readers,     \* of {"probe", "pull", "count"}
          MaxPerRound, \* maxProbesPerTick, maxPullsPerCycle, maxReadingsPerRound
          RoundTime,   \* readings of countTimeout each that fill pprofCountInterval
          FailedFor,   \* unreachableRetry, unreachableFor, heldAfterFailure
          RefusedFor,  \* refusedFor
          MaxChanges,  \* changes of the workloads
          Health,      \* what a workload may be
          ThirdParty,  \* the configured ThirdPartySymbols
          Allowed, RawProfiles, MaxFrames

\* What a runtime answers with is a profile; a round has a budget.
ASSUME ProfileAssumption ==
  \A p \in RawProfiles :
    p = [functions |-> p.functions, locations |-> p.locations,
         samples |-> p.samples, identity |-> p.identity]
ASSUME BudgetAssumption == \A r \in Readers : MaxPerRound[r] \in Nat

VARIABLES reader,
          health,   \* workload -> serving, slow, busy, down, gone or optedout
          changes,  \* changes of health so far
          answers,  \* target -> confirmed, absent or unreachable
          wait,     \* target -> ticks until it may be asked again
          order,    \* targets pulled, least recently pulled first
          pending,  \* the ticker's channel holds a tick
          round,    \* the candidates the round has still to go through
          used,     \* what the round has spent of MaxPerRound
          spent,    \* how many countTimeouts the counter's round has taken
          seen,     \* <<candidate, answered>> for those the round has connected to
          asks,     \* ghost: target -> answers about it that do not expire
          spooled   \* ghost: the names of the round's last profile for the spool: [fn, of]

vars == <<reader, health, changes, answers, wait, order, pending, round, used, spent, seen, asks, spooled>>

\* Candidates of builds that link the package, on the ports that are not loopback.
Candidates ==
  LET Of(rec) ==
        IF rec.digest \notin DOMAIN Builds THEN << >>
        ELSE LET open == SelectSeq(rec.ports, LAMBDA p : ~p.loopback)
             IN  [i \in 1 .. Len(open) |-> [w |-> rec.w, t |-> <<rec.digest, open[i].port>>]]
  IN  FlattenSeq([i \in 1 .. Len(Ports) |-> Of(Ports[i])])

Targets == {Candidates[i].t : i \in 1 .. Len(Candidates)}
Workloads == {Candidates[i].w : i \in 1 .. Len(Candidates)}

\* candidates in runController: what is left of them after the opt-outs.
Admitted == SelectSeq(Candidates, LAMBDA c : health[c.w] # "optedout")

Confirmed(cs) ==
  SelectSeq(cs, LAMBDA c : c.t \in DOMAIN answers /\ answers[c.t] = "confirmed")

\* PodAddress: no admitted, running, profilable replica has an address.
Addressable(c) == health[c.w] \notin {"gone", "optedout"}

Connects(c, answered) == seen' = seen \cup {<<c, answered>>}

Put(f, t, v) == [x \in DOMAIN f \cup {t} |-> IF x = t THEN v ELSE f[x]]

-----------------------------------------------------------------------------
\* The prober.
\* Fault, not the code: the zero instant of an answer that does not expire is
\* compared with the clock.
probeDueWhenZero(t) == t \notin DOMAIN answers \/ wait[t] = 0

probeDue(t) == t \notin DOMAIN answers \/ (answers[t] = "unreachable" /\ wait[t] = 0)

\* An answer that is not 200 is taken for a port without pprof.
ask(c) ==
  IF health[c.w] = "down" THEN "unreachable"
  ELSE IF c.t \in ServesOn /\ health[c.w] # "busy" THEN "confirmed" ELSE "absent"

record(t, state) ==
  /\ answers' = Put(answers, t, state)
  /\ wait' = [wait EXCEPT ![t] = IF state = "unreachable" THEN FailedFor ELSE 0]
  /\ asks' = [asks EXCEPT ![t] = @ + IF state = "unreachable" THEN 0 ELSE 1]

Probes(c) ==
  /\ round' = Tail(round)
  /\ IF ~probeDue(c.t) \/ ~Addressable(c) THEN UNCHANGED <<answers, wait, asks, used, seen>>
     ELSE record(c.t, ask(c)) /\ used' = used + 1 /\ Connects(c, health[c.w] # "down")
  /\ UNCHANGED <<order, spent, spooled>>

-----------------------------------------------------------------------------
\* The puller.  Its due list is fixed when the cycle begins: targets never
\* pulled first, then by their last pull, candidates of one target in order.
due(cs) ==
  LET Ready(t) == SelectSeq(cs, LAMBDA c : c.t = t /\ wait[t] = 0)
      Never == SelectSeq(cs, LAMBDA c : c.t \notin ToSet(order) /\ wait[c.t] = 0)
  IN  Never \o FlattenSeq([i \in 1 .. Len(order) |-> Ready(order[i])])

hold(t, ticks) ==
  /\ order' = Append(SelectSeq(order, LAMBDA u : u # t), t)
  /\ wait' = [wait EXCEPT ![t] = ticks]

filterFor(digest) == NewSymbolFilter(Allowed \cup Builds[digest], ThirdParty)

\* What a build's profiles come to: one of RawProfiles, reduced.
Reduced == [d \in DOMAIN Builds |-> {FilterPulled(filterFor(d), raw, MaxFrames) : raw \in RawProfiles}]

\* What a fetch came to: nothing, a refusal, or a profile that is reduced and
\* validated before the sink sees it.  The target is held before the sink runs.
Fetched(c) ==
  CASE health[c.w] = "down" -> hold(c.t, FailedFor) /\ UNCHANGED spooled
    [] health[c.w] = "busy" -> hold(c.t, RefusedFor) /\ UNCHANGED spooled
    [] OTHER ->
         \E d \in DOMAIN Builds \cap {c.t[1]} : \E filtered \in Reduced[d] :
           IF Validate(filtered)
           THEN /\ hold(c.t, 0)
                /\ spooled' = {[fn |-> fn, of |-> d] : fn \in filtered.functions}
           ELSE hold(c.t, FailedFor) /\ UNCHANGED spooled

\* Every due candidate spends one of the cycle's pulls, one without an
\* address too.
Pulls(c) ==
  /\ round' = Tail(round)
  /\ used' = used + 1
  /\ IF Addressable(c) THEN Fetched(c) /\ Connects(c, health[c.w] # "down")
     ELSE UNCHANGED <<order, wait, spooled, seen>>
  /\ UNCHANGED <<answers, asks, spent>>

-----------------------------------------------------------------------------
\* The counter.  A container with several ports is one process, read on the
\* lowest, in a fixed order.
processes(cs) ==
  LET Lowest(c) == \A d \in ToSet(cs) : d.w = c.w /\ d.t[1] = c.t[1] => c.t[2] =< d.t[2]
  IN  SetToSortSeq({c \in ToSet(cs) : Lowest(c)}, LAMBDA c, d : c.w < d.w)

\* The index page arrived and had a goroutine row.
read(c) == health[c.w] \notin {"down", "busy"}

\* A slow workload answers just within countTimeout; one that is down refuses at
\* once or lets it run out.
Costs(c) == CASE health[c.w] = "slow" -> {1} [] health[c.w] = "down" -> {0, 1} [] OTHER -> {0}

\* Fault, not the code: a failure holds nothing off.
CountsWithoutHold(c) ==
  /\ round' = Tail(round)
  /\ used' = used + 1
  /\ IF Addressable(c) THEN Connects(c, read(c)) /\ \E n \in Costs(c) : spent' = spent + n
     ELSE UNCHANGED <<seen, spent>>
  /\ UNCHANGED <<answers, asks, order, wait, spooled>>

holdOff(t, ticks) == wait' = [wait EXCEPT ![t] = ticks]

\* A failed reading holds the target off, a good one clears it; a process with
\* no replica spends a reading and is held by nothing.
Counts(c) ==
  /\ round' = Tail(round)
  /\ IF wait[c.t] > 0 THEN UNCHANGED <<used, spent, wait, seen>>
     ELSE /\ used' = used + 1
          /\ IF Addressable(c)
             THEN /\ Connects(c, read(c)) /\ holdOff(c.t, IF read(c) THEN 0 ELSE FailedFor)
                  /\ \E n \in Costs(c) : spent' = spent + n
             ELSE UNCHANGED <<seen, spent, wait>>
  /\ UNCHANGED <<answers, asks, order, spooled>>

\* The context of a counter's round ends with the interval.
Expired == reader = "count" /\ spent >= RoundTime

-----------------------------------------------------------------------------
\* One loop serves the three: a tick starts a round unless one is under way,
\* when it waits in the channel.
List ==
  CASE reader = "probe" -> Admitted
    [] reader = "pull"  -> due(Confirmed(Admitted))
    [] reader = "count" -> processes(Confirmed(Admitted))

RoundStarts ==
  /\ pending /\ round = << >>
  /\ pending' = FALSE /\ used' = 0 /\ spent' = 0 /\ seen' = {}
  /\ round' = List /\ spooled' = {}
  /\ UNCHANGED <<reader, health, changes, answers, wait, order, asks>>

RoundFull ==
  /\ round # << >> /\ used >= MaxPerRound[reader]
  /\ round' = << >>
  /\ UNCHANGED <<reader, health, changes, answers, wait, order, pending, used, spent, seen, asks, spooled>>

RoundVisits ==
  /\ round # << >> /\ used < MaxPerRound[reader] /\ ~Expired
  /\ \/ reader = "probe" /\ Probes(Head(round))
     \/ reader = "pull" /\ Pulls(Head(round))
     \/ reader = "count" /\ Counts(Head(round))
  /\ UNCHANGED <<reader, health, changes, pending>>

\* The deadline of the counter's round, which is not before the next tick, passes
\* between two readings or in the course of one, which then fails as if the
\* workload had and is held off.
RoundExpires ==
  /\ round # << >> /\ Expired /\ pending
  /\ round' = << >>
  /\ \/ UNCHANGED <<wait, used, seen>>
     \/ LET c == Head(round)
        IN  /\ used < MaxPerRound[reader] /\ wait[c.t] = 0 /\ Addressable(c)
            /\ used' = used + 1 /\ Connects(c, FALSE) /\ holdOff(c.t, FailedFor)
  /\ UNCHANGED <<reader, health, changes, answers, order, pending, spent, asks, spooled>>

\* Holds run down.  A round ends before the second tick after its own: the
\* counter's by its deadline, those of the others because their requests, each
\* with its timeout, take less than two intervals together.
Tick ==
  /\ ~pending /\ pending' = TRUE
  /\ wait' = [t \in Targets |-> IF wait[t] > 0 THEN wait[t] - 1 ELSE 0]
  /\ UNCHANGED <<reader, health, changes, answers, order, round, used, spent, seen, asks, spooled>>

WorkloadChanges ==
  /\ changes < MaxChanges /\ changes' = changes + 1
  /\ \E w \in Workloads, h \in Health : h # health[w] /\ health' = [health EXCEPT ![w] = h]
  /\ UNCHANGED <<reader, answers, wait, order, pending, round, used, spent, seen, asks, spooled>>

\* The prober has confirmed what serves before the puller and the counter see it.
Init ==
  /\ reader \in Readers
  /\ health = [w \in Workloads |-> "serving"]
  /\ answers = IF reader = "probe" THEN [t \in {} |-> ""] ELSE [t \in Targets \cap ServesOn |-> "confirmed"]
  /\ wait = [t \in Targets |-> 0] /\ asks = [t \in Targets |-> 0]
  /\ order = << >> /\ round = << >> /\ seen = {} /\ spooled = {}
  /\ used = 0 /\ spent = 0 /\ changes = 0 /\ pending = FALSE

Next == RoundStarts \/ RoundFull \/ RoundVisits \/ RoundExpires \/ Tick \/ WorkloadChanges

\* The ticker fires again and again, and a round goes on: every request has a
\* timeout.  Nothing else has to happen.
Fairness ==
  /\ WF_vars(Tick) /\ WF_vars(RoundStarts)
  /\ WF_vars(RoundVisits) /\ WF_vars(RoundFull) /\ WF_vars(RoundExpires)

Spec == Init /\ [][Next]_vars /\ Fairness

-----------------------------------------------------------------------------
\* The prober asks a build's port until it has an answer that does not expire,
\* and never again, however many workloads run the build and bind the port
\* (pprofprobe/probe.go, round and due).
AskedOnce == \A t \in Targets : asks[t] =< 1

\* Unless the configuration keeps third-party symbols, a pulled profile reaches
\* the spool with the names of the build's own modules, of allow-listed modules
\* and of code without a domain, and with no other: also not in its function
\* table, and not those of another workload's build
\* (nodeprofile/pulledprofile.go, redactProfile; pprofpull/pull.go, filterFor).
NamesStayHome ==
  ThirdParty # "keep" =>
    \A s \in spooled :
      \/ s.fn = Placeholder \/ ~hasDomain(s.fn.pkg)
      \/ \E m \in Allowed \cup Builds[s.of] : IsPrefix(m, s.fn.pkg)

First(c) == \A i, j \in 1 .. Len(Candidates) :
              Candidates[i].t = c.t /\ Candidates[j] = c => j =< i
Listed(c) == health[c.w] \in {"serving", "slow"}
InState(cs, h) == {c \in ToSet(cs) : health[c.w] \in h}
Twins(c) == {d \in ToSet(Candidates) : d.t = c.t /\ d.w # c.w}

\* The situations in which a candidate is reached.  An answer and a hold are
\* about a build's port, so a workload of the same build that fails stands in
\* for the others with the prober and the counter, and a cycle of the puller may
\* end between two of them.  The failing ones must be fewer than their holds
\* keep away, and those without an address must leave room.
Within(c) ==
  CASE reader = "probe" ->
         /\ \A d \in Twins(c) : health[d.w] # "down"
         /\ Cardinality(InState(Candidates, {"down"})) < FailedFor * MaxPerRound[reader]
    [] reader = "pull"  ->
         /\ First(c)
         /\ Cardinality(InState(Candidates, {"gone"})) < MaxPerRound[reader]
    [] reader = "count" ->
         /\ c \in ToSet(processes(Candidates))
         /\ \A d \in Twins(c) : health[d.w] \notin {"down", "busy"}
         /\ Cardinality(InState(processes(Candidates), {"serving", "slow", "gone"}))
              =< MaxPerRound[reader]
         /\ Cardinality(InState(processes(Candidates), {"down", "busy"})) < FailedFor

\* A round of the counter has the time for the slow and the dead before it is
\* over: a hold lasts as long for all of them, so they may come due together.
InTime(c) ==
  reader = "count" =>
    Cardinality(InState(processes(Candidates), {"slow", "down"}) \ {c}) < RoundTime

\* The prober has its answer; the others were answered in this round.
Read(c) == IF reader = "probe" THEN c.t \in DOMAIN answers /\ answers[c.t] # "unreachable"
           ELSE <<c, TRUE>> \in seen

Serving == {c \in ToSet(Candidates) : c.t \in ServesOn}

\* A workload that goes on serving is read again and again, whatever the others
\* do, in the situations of Within and InTime: rotation and holds keep the
\* failing ones from using up every round (pull.go, due; count.go,
\* heldAfterFailure).
TailIsSeen ==
  \A c \in Serving : <>[](Listed(c) /\ Within(c) /\ InTime(c)) => []<>Read(c)

\* The same without a condition on the time that readings take: "every confirmed
\* endpoint, every minute" (ADR 0080), which a slow one does not rest from.
TailIsSeenInAnyTime ==
  \A c \in Serving : <>[](Listed(c) /\ Within(c)) => []<>Read(c)
=============================================================================
