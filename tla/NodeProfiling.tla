---------------------------- MODULE NodeProfiling ----------------------------
(***************************************************************************)
(* The profiling path of one node: the capture pipeline                    *)
(* (cmd/agent/pipeline.go), the three requests it makes of the controller  *)
(* (nodeship.go, internal/nodeintake), the token check with its cache of   *)
(* the cluster's signing keys (internal/nodeauth), the workloads the       *)
(* controller names (internal/targeting) and what it does with a profile   *)
(* (main.go onProfile).                                                    *)
(*                                                                         *)
(* Time is counted in capture windows.  Other nodes' requests meet the     *)
(* same key cache.  A profile is the pod it was captured in.               *)
(***************************************************************************)
EXTENDS PodIndex, FiniteSetsExt

CONSTANTS Self,       \* the node
          Keys,       \* the workloads, numbers in the order of their names
          TopN,       \* workloads the publisher names
          Refresh,    \* windows between two targets queries
          Floor,      \* windows between two fetches of the key set
          MaxTime     \* windows

ASSUME IntervalsAssumption == Floor \in Nat /\ Refresh \in Nat \ {0}

VARIABLES time,
          served,     \* signing keys the cluster advertises: kid -> since when
          auth,       \* the controller's key cache: [keys, last]
          top,        \* the workloads the publisher names
          pipe,       \* [phase, targets, fetched, scope, groups] of the pipeline
          late,       \* profile requests the node gave up on, not yet served
          profile,    \* the profile written last
          check,      \* ghost: the latest token check: [refused, age, gap]
          keyFailed, queryFailed, \* ghost: when a key fetch, a targets query last failed
          optOut,     \* ghost: pod -> when it was opted out
          allowed     \* ghost: the pods admitted when this window asked

profVars == <<time, served, auth, top, pipe, late, profile, check, keyFailed, queryFailed, optOut, allowed>>

Never == -1
NoProfile == [pod |-> "none", optedFor |-> 0, failing |-> FALSE, admitted |-> FALSE]

-----------------------------------------------------------------------------
\* nodeauth.  Key(kid) at this time, where up says that the API server answers.
\* Fault, not the code: a key set once fetched is never fetched again.
KeyFetchesOnce(kid, up) ==
  IF kid \in auth.keys THEN [ok |-> TRUE, auth |-> auth, fetch |-> "none"]
  ELSE IF auth.last # Never /\ (auth.keys # {} \/ time - auth.last < Floor)
  THEN [ok |-> FALSE, auth |-> auth, fetch |-> "none"]
  ELSE IF ~up THEN [ok |-> FALSE, auth |-> [auth EXCEPT !.last = time], fetch |-> "failed"]
  ELSE [ok |-> kid \in DOMAIN served, fetch |-> "done",
        auth |-> [keys |-> DOMAIN served, last |-> time]]

Key(kid, up) ==
  IF kid \in auth.keys THEN [ok |-> TRUE, auth |-> auth, fetch |-> "none"]
  ELSE IF auth.last # Never /\ time - auth.last < Floor
  THEN [ok |-> FALSE, auth |-> auth, fetch |-> "none"]
  ELSE IF ~up THEN [ok |-> FALSE, auth |-> [auth EXCEPT !.last = time], fetch |-> "failed"]
  ELSE [ok |-> kid \in DOMAIN served, fetch |-> "done",
        auth |-> [keys |-> DOMAIN served, last |-> time]]

\* Verify and authorizeNode: a node's own token names the node it asks for, and
\* the kubelet signed it with a key the cluster advertises.
Verify(kid, up, ok) ==
  LET k == Key(kid, up) IN
  /\ ok = k.ok
  /\ auth' = k.auth
  /\ check' = [refused |-> ~k.ok, age |-> time - served[kid],
               fetchFailed |-> k.fetch = "failed" \/ (keyFailed # Never /\ time - keyFailed < Floor),
               gap |-> IF k.fetch # "none" /\ auth.last # Never THEN time - auth.last ELSE Floor]
  /\ keyFailed' = IF k.fetch = "failed" THEN time ELSE keyFailed
  /\ Spend(IF up THEN 0 ELSE 1)

\* A request that is served, with the outcome ok of the token check; and one of
\* the node, which may also come to nothing.
Served(ok) == \E kid \in DOMAIN served, up \in BOOLEAN : Verify(kid, up, ok)
GivenUp == Spend(1) /\ UNCHANGED <<auth, check, keyFailed>>
Asks(ok) == (~ok /\ GivenUp) \/ Served(ok)

OthersAsk ==
  /\ \E ok \in BOOLEAN : Served(ok)
  /\ UNCHANGED <<IndexVars, time, served, top, pipe, late, profile, queryFailed, optOut, allowed>>

KeyRotates ==
  /\ Spend(1)
  /\ served' = [k \in 1 .. Max(DOMAIN served) + 1 |-> IF k \in DOMAIN served THEN served[k] ELSE time]
  /\ UNCHANGED <<IndexVars, time, auth, top, pipe, late, profile, check, keyFailed, queryFailed, optOut, allowed>>

-----------------------------------------------------------------------------
\* targeting.Publisher.Publish: the excluded go before the ranking, ties by name.
Rank(load, excluded) == DOMAIN load \ excluded

Publish(load) ==
  LET ranked == Rank(load, ProfilingOptOuts)
      Before(k, j) == load[k] > load[j] \/ (load[k] = load[j] /\ k < j)
  IN  {k \in ranked : Cardinality({j \in ranked : Before(j, k)}) < TopN}

UsageFlushed ==
  /\ Spend(1)
  /\ \E load \in [Keys -> 0 .. 1] : top' = Publish(load)
  /\ UNCHANGED <<IndexVars, time, served, auth, pipe, late, profile, check, keyFailed, queryFailed, optOut, allowed>>

ContainersForNode(node) == {p \in ContainersOnNode(node) : KeyOf[p] \in top}

-----------------------------------------------------------------------------
\* runProfilingPipeline, one capture window.
due(now) == pipe.fetched = Never \/ now - pipe.fetched >= Refresh

WindowEnds ==
  /\ pipe.phase = "capture" /\ time < MaxTime
  /\ time' = time + 1
  /\ pipe' = [pipe EXCEPT !.phase = IF due(time + 1) THEN "targets" ELSE "scope"]
  /\ UNCHANGED <<IndexVars, budget, served, auth, top, late, profile, check, keyFailed, queryFailed, optOut, allowed>>

\* A query that fails keeps the previous set and is tried again next window.
FetchesTargets ==
  /\ pipe.phase = "targets"
  /\ \E ok \in BOOLEAN :
       /\ Asks(ok)
       /\ queryFailed' = IF ok THEN queryFailed ELSE time
       /\ pipe' = IF ok THEN [pipe EXCEPT !.phase = "scope", !.fetched = time,
                                          !.targets = ContainersForNode(Self)]
                  ELSE [pipe EXCEPT !.phase = "scope"]
  /\ UNCHANGED <<IndexVars, time, served, top, late, profile, optOut, allowed>>

\* Fault, not the code: a scope query that fails leaves the previous answer.
ScopeAnsweredOrKept(ok) == IF ok THEN AdmittedPodsOnNode(Self) ELSE pipe.scope

ScopeAnswered(ok) == IF ok THEN AdmittedPodsOnNode(Self) ELSE {}

FetchesScope ==
  /\ pipe.phase = "scope"
  /\ \E ok \in BOOLEAN :
       /\ Asks(ok)
       /\ pipe' = [pipe EXCEPT !.phase = "process", !.scope = ScopeAnswered(ok)]
  /\ allowed' = AdmittedPodsOnNode(Self)
  /\ UNCHANGED <<IndexVars, time, served, top, late, profile, queryFailed, optOut>>

\* processWindow: the sampled containers that are targets and in scope, each a
\* profile to ship unless it is invalid.  With no scope or no target there is none.
ProcessesWindow ==
  /\ pipe.phase = "process"
  /\ \E valid \in SUBSET (pipe.targets \cap pipe.scope) :
       pipe' = [pipe EXCEPT
                  !.phase = "ship",
                  !.groups = {[pod |-> p,
                               optedFor |-> IF p \in profilable THEN 0 ELSE time - optOut[p],
                               failing |-> queryFailed # Never /\ queryFailed >= optOut[p],
                               admitted |-> p \in allowed] : p \in valid}]
  /\ UNCHANGED <<IndexVars, budget, time, served, auth, top, late, profile, check, keyFailed,
                 queryFailed, optOut, allowed>>

\* onProfile: joined to a pod on the node the token names, or dropped.
OnProfile(g) ==
  profile' = IF LookupContainerOnNode(g.pod, Self) THEN g ELSE profile

\* A profile request as the controller serves it.
Receives(g) ==
  \/ Served(TRUE) /\ OnProfile(g)
  \/ Served(FALSE) /\ UNCHANGED profile

\* profileShipper.ship; a request the node gives up on may still be served.
Ships(g) ==
  /\ pipe.phase = "ship" /\ g \in pipe.groups
  /\ pipe' = [pipe EXCEPT !.groups = @ \ {g}]
  /\ \/ Receives(g) /\ UNCHANGED late
     \/ GivenUp /\ late' \in {late, late \cup {g}} /\ UNCHANGED profile
  /\ UNCHANGED <<IndexVars, time, served, top, queryFailed, optOut, allowed>>

ServedLate(g) ==
  /\ g \in late
  /\ late' = late \ {g}
  /\ Receives(g)
  /\ UNCHANGED <<IndexVars, time, served, top, pipe, queryFailed, optOut, allowed>>

\* The window is done; or the capture has ended, and with it the pipeline.
WindowDone ==
  /\ pipe.phase = "ship" /\ pipe.groups = {}
  /\ pipe' = [pipe EXCEPT !.phase = "capture"]
  /\ UNCHANGED <<IndexVars, budget, time, served, auth, top, late, profile, check, keyFailed,
                 queryFailed, optOut, allowed>>

CaptureStops ==
  /\ pipe.phase = "capture" /\ Spend(1)
  /\ pipe' = [pipe EXCEPT !.phase = "stopped"]
  /\ UNCHANGED <<IndexVars, time, served, auth, top, late, profile, check, keyFailed, queryFailed,
                 optOut, allowed>>

PodChanges(p) ==
  /\ IndexMoves(p) \/ ProfilingMoves(p)
  /\ optOut' = [optOut EXCEPT ![p] = IF p \in profilable \ profilable' THEN time ELSE @]
  /\ UNCHANGED <<time, served, auth, top, pipe, late, profile, check, keyFailed, queryFailed, allowed>>

ProfInit ==
  /\ IndexInit
  /\ time = 0 /\ served = [k \in {1} |-> 0]
  /\ auth = [keys |-> {}, last |-> Never]
  /\ top \in {K \in SUBSET Keys : Cardinality(K) =< TopN}
  /\ pipe = [phase |-> "capture", targets |-> {}, fetched |-> Never, scope |-> {}, groups |-> {}]
  /\ late = {} /\ profile = NoProfile
  /\ check = [refused |-> FALSE, age |-> 0, fetchFailed |-> FALSE, gap |-> Floor]
  /\ keyFailed = Never /\ queryFailed = Never
  /\ optOut = [p \in Pods |-> Never]
  /\ allowed = {}

ProfNext ==
  \/ OthersAsk \/ KeyRotates \/ UsageFlushed
  \/ WindowEnds \/ FetchesTargets \/ FetchesScope \/ ProcessesWindow \/ WindowDone \/ CaptureStops
  \/ \E g \in pipe.groups : Ships(g)
  \/ \E g \in late : ServedLate(g)
  \/ \E p \in Pods : PodChanges(p)

-----------------------------------------------------------------------------
\* CachingKeySource.Key: a token signed by a key the cluster has advertised for the
\* length of the floor is refused only when a fetch failed within it, so a rotation
\* locks the nodes out for no longer than the floor; and two fetches are never closer.
KeysFollowRotation ==
  /\ check.refused => check.age < Floor \/ check.fetchFailed
  /\ check.gap >= Floor

=============================================================================
