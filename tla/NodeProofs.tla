------------------------------ MODULE NodeProofs ------------------------------
(***************************************************************************)
(* Proofs about the two paths between the nodes and the controller, for    *)
(* every set of nodes, processes, pods and start states, every interval    *)
(* and every budget of changes and faults.                                 *)
(*                                                                         *)
(* The inductive invariant has one part per property.  What a pass, a      *)
(* flush, the key cache or a capture window keeps between its steps is     *)
(* related to the state it was read from:                                  *)
(*   - Caches: a cached reading is of the process or of an earlier one;    *)
(*   - Scopes: a scope is within what was admitted when it was asked for;  *)
(*   - Support: between the retain and the publish of a flush the store    *)
(*     holds only keys that were live since the flush began;               *)
(*   - Handed: a build marked as written is held, with the facts written;  *)
(*   - Rotation: a key the cache lacks was advertised after the last       *)
(*     fetch, unless that fetch failed;                                    *)
(*   - Refreshed: a target was profilable when the set was fetched, and    *)
(*     a window that goes on either has a fresh set or saw a query fail.   *)
(***************************************************************************)
EXTENDS NodeRole, TLAPS

\* Every leaf goes to Zenon first: most are first-order, and a leaf that needs
\* arithmetic is soon given up.
USE ZenonT(3), SMTT(30)

-----------------------------------------------------------------------------
StoreShape(s) ==
  DOMAIN s = {"records", "builds", "written", "peaks", "ports", "counters", "reported", "scans",
              "profiling"}

\* The shapes of the records that actions update in part.
InvShapes ==
  /\ index \subseteq Pods
  /\ proc \in [Pids -> [start : Nat, work : Nat]]
  /\ DOMAIN scan = Nodes
  /\ \A n \in Nodes : DOMAIN scan[n] = {"phase", "scope", "allowed", "pass", "cache"}
  /\ StoreShape(store)
  /\ DOMAIN flush = {"phase", "live", "count"} /\ DOMAIN spooled = {"keys", "liveSince"}
  /\ DOMAIN handed = Digests
  /\ \A d \in Digests : DOMAIN handed[d] = {"facts", "again", "running"}

\* What a pass that ended left in the counter cache.
CacheOk(n, i) ==
  LET c == scan[n].cache[i] IN
  /\ i \in PidsOn(n)
  /\ c.start \in Nat /\ c.work \in Nat /\ c.partial \in BOOLEAN
  /\ c.start =< proc[i].start
  /\ c.start = proc[i].start => c.work =< proc[i].work
  /\ c.user = c.work /\ c.onCPU = IF c.partial THEN 0 ELSE c.work

Caches == \A n \in Nodes : \A i \in DOMAIN scan[n].cache : CacheOk(n, i)

Scopes ==
  /\ \A n \in Nodes : scan[n].scope \subseteq scan[n].allowed
  /\ \A r \in net : \A b \in r.bins : b.pod \in r.allowed

\* The keys the four superseding payloads are made of.
StoreKeys(s) ==
  DOMAIN s.records \cup {x[1] : x \in DOMAIN s.peaks \cup DOMAIN s.ports \cup DOMAIN s.counters}

Support ==
  /\ path = "profiling" => flush.phase = "idle"
  /\ flush.phase # "idle" => LiveKeys(index) \subseteq spooled.liveSince
  /\ flush.phase = "retain" => flush.live \subseteq spooled.liveSince
  /\ flush.phase \in {"nodes", "publish"} => StoreKeys(store) \subseteq spooled.liveSince
  /\ spooled.keys \subseteq spooled.liveSince

Handed ==
  /\ DOMAIN store.builds \subseteq Digests
  /\ \A d \in store.written : d \in DOMAIN store.builds /\ handed[d].facts = store.builds[d]

InvIInv == InvShapes /\ Caches /\ DeltasExact /\ Scopes /\ Support /\ Handed

-----------------------------------------------------------------------------
\* The shapes of the profiling path; a time that is kept is not ahead of the clock.
ProfShapes ==
  /\ time \in Nat
  /\ auth = [keys |-> auth.keys, last |-> auth.last]
  /\ pipe = [phase |-> pipe.phase, targets |-> pipe.targets, fetched |-> pipe.fetched,
             scope |-> pipe.scope, groups |-> pipe.groups]
  /\ auth.last \in {Never} \cup 0 .. time
  /\ keyFailed \in {Never} \cup 0 .. time /\ queryFailed \in {Never} \cup 0 .. time
  /\ pipe.fetched \in {Never} \cup 0 .. time
  /\ pipe.targets \subseteq Pods
  /\ optOut \in [Pods -> {Never} \cup 0 .. time]
  /\ \A kid \in DOMAIN served : served[kid] \in 0 .. time

\* The keys that a fetch which succeeded did not bring were advertised after it.
Rotation ==
  /\ auth.last # Never =>
       \/ keyFailed = auth.last
       \/ \A kid \in DOMAIN served \ auth.keys : served[kid] >= auth.last
  /\ KeysFollowRotation

\* A profile that is captured, on its way or written.
Timely(g) == g.optedFor < Refresh \/ g.failing

Refreshed ==
  /\ \A p \in pipe.targets : p \in profilable \/ optOut[p] >= pipe.fetched
  /\ pipe.phase \in {"scope", "process"} =>
       \/ pipe.fetched # Never /\ time - pipe.fetched < Refresh
       \/ queryFailed = time
  /\ pipe.scope \subseteq allowed
  /\ \A g \in pipe.groups : g.admitted
  /\ \A g \in pipe.groups \cup late \cup {profile} : Timely(g)

ProfIInv == ProfShapes /\ Rotation /\ Refreshed

IInv == InvIInv /\ ProfIInv

-----------------------------------------------------------------------------
\* The profiling path.

\* What the key cache and the record of its failures look like.
KeyShapes ==
  /\ auth = [keys |-> auth.keys, last |-> auth.last]
  /\ auth.last \in {Never} \cup 0 .. time
  /\ keyFailed \in {Never} \cup 0 .. time

\* One token check, with or without a fetch of the key set, keeps the cache no
\* further behind the rotation than its last fetch.
LEMMA VerifyRotation ==
  ASSUME ProfShapes, Rotation, UNCHANGED <<time, served>>,
         NEW kid \in DOMAIN served, NEW up \in BOOLEAN, NEW ok \in BOOLEAN, Verify(kid, up, ok)
  PROVE  KeyShapes' /\ Rotation'
<1> USE IntervalsAssumption
<1>0. /\ time \in Nat /\ served[kid] \in 0 .. time /\ Never = -1
      /\ auth.last \in {Never} \cup 0 .. time /\ keyFailed \in {Never} \cup 0 .. time
  BY DEF ProfShapes, Never
<1>1. CASE kid \in auth.keys
  <2>1. /\ auth' = auth /\ keyFailed' = keyFailed
        /\ check'.refused = FALSE /\ check'.gap = Floor
    BY <1>1 DEF Verify, Key
  <2> QED BY <1>0, <2>1 DEF ProfShapes, KeyShapes, Rotation, KeysFollowRotation
<1>2. CASE kid \notin auth.keys /\ auth.last # Never /\ time - auth.last < Floor
  <2>1. /\ auth' = auth /\ keyFailed' = keyFailed /\ check'.gap = Floor
        /\ check'.age = time - served[kid]
        /\ (keyFailed # Never /\ time - keyFailed < Floor) => check'.fetchFailed
    BY <1>2 DEF Verify, Key
  <2>2. check'.age < Floor \/ check'.fetchFailed BY <1>0, <1>2, <2>1 DEF Rotation
  <2> QED BY <1>0, <2>1, <2>2 DEF ProfShapes, KeyShapes, Rotation, KeysFollowRotation
<1>3. CASE kid \notin auth.keys /\ ~(auth.last # Never /\ time - auth.last < Floor)
  <2>1. check'.gap >= Floor
    <3>1. check'.gap = IF auth.last # Never THEN time - auth.last ELSE Floor
      BY <1>3 DEF Verify, Key
    <3> QED BY <1>0, <1>3, <3>1
  <2>2. CASE ~up
    <3>1. /\ auth' = [auth EXCEPT !.last = time] /\ keyFailed' = time /\ check'.fetchFailed
      BY <1>3, <2>2 DEF Verify, Key
    <3>2. auth'.last = time /\ auth' = [keys |-> auth'.keys, last |-> auth'.last]
      BY <3>1 DEF ProfShapes
    <3> QED BY <1>0, <2>1, <3>1, <3>2 DEF KeyShapes, Rotation, KeysFollowRotation
  <2>3. CASE up
    <3>1. /\ auth' = [keys |-> DOMAIN served, last |-> time] /\ keyFailed' = keyFailed
          /\ check'.refused = FALSE
      BY <1>3, <2>3 DEF Verify, Key
    <3> QED BY <1>0, <2>1, <3>1 DEF KeyShapes, Rotation, KeysFollowRotation
  <2> QED BY <2>2, <2>3
<1> QED BY <1>1, <1>2, <1>3

\* A request of the node is a token check, or never reaches the controller.
LEMMA AsksRotation ==
  ASSUME ProfShapes, Rotation, UNCHANGED <<time, served>>, NEW ok \in BOOLEAN, Asks(ok)
  PROVE  KeyShapes' /\ Rotation'
<1>1. CASE UNCHANGED <<auth, check, keyFailed>>
  BY <1>1 DEF ProfShapes, KeyShapes, Rotation, KeysFollowRotation
<1>2. CASE Served(ok) BY <1>2, VerifyRotation DEF Served
<1> QED BY <1>1, <1>2 DEF Asks, GivenUp

\* A profile is received behind a token check, and on the way it is given up or
\* received.
LEMMA ReceivesAsks ==
  ASSUME NEW g, Receives(g) \/ GivenUp
  PROVE  \E ok \in BOOLEAN : Asks(ok)
BY Zenon DEF Receives, Asks

\* The key cache follows the rotation across every step of the profiling path.
LEMMA ProfRotation == ASSUME ProfShapes, Rotation, ProfNext PROVE Rotation'
<1>1. CASE UNCHANGED <<served, auth, check, keyFailed>>
  BY <1>1 DEF Rotation, KeysFollowRotation
<1>2. CASE OthersAsk BY <1>2, AsksRotation, Zenon DEF OthersAsk, Asks
<1>3. CASE KeyRotates
  <2>1. UNCHANGED <<auth, check, keyFailed>> BY <1>3 DEF KeyRotates
  <2>2. \A kid \in DOMAIN served' :
          served'[kid] = time \/ (kid \in DOMAIN served /\ served'[kid] = served[kid])
    BY <1>3 DEF KeyRotates
  <2>3. auth.last # Never => auth.last =< time BY DEF ProfShapes, Never
  <2> QED BY <2>1, <2>2, <2>3 DEF Rotation, KeysFollowRotation
<1>4. CASE FetchesTargets \/ FetchesScope \/ \E g \in pipe.groups : Ships(g)
  BY <1>4, AsksRotation, ReceivesAsks, Zenon DEF FetchesTargets, FetchesScope, Ships
<1>5. CASE UsageFlushed \/ WindowEnds \/ ProcessesWindow \/ WindowDone \/ CaptureStops
  BY <1>1, <1>5, Zenon DEF UsageFlushed, WindowEnds, ProcessesWindow, WindowDone, CaptureStops
<1>6. CASE \E g \in late : ServedLate(g)
  BY <1>6, AsksRotation, ReceivesAsks, Zenon DEF ServedLate
<1>7. CASE \E p \in Pods : PodChanges(p) BY <1>1, <1>7 DEF PodChanges
<1> QED BY <1>2, <1>3, <1>4, <1>5, <1>6, <1>7 DEF ProfNext

\* Instants that are recorded are not in the future.
LEMMA ProfShapesKept ==
  ASSUME ProfShapes, Rotation, index \subseteq Pods, ProfNext PROVE ProfShapes'
<1> DEFINE Instants == {Never} \cup 0 .. time
<1>0. time \in Nat /\ Never = -1 BY DEF ProfShapes, Never
<1>1. ASSUME UNCHANGED <<time, served, auth, keyFailed, queryFailed, optOut>>,
             pipe' = [pipe EXCEPT !.phase = pipe'.phase, !.scope = pipe'.scope,
                                  !.groups = pipe'.groups]
      PROVE  ProfShapes'
  BY <1>1 DEF ProfShapes
<1>2. CASE UNCHANGED <<time, served, queryFailed, optOut, pipe>> /\ KeyShapes'
  BY <1>2 DEF ProfShapes, KeyShapes
<1>3. CASE OthersAsk
  <2>1. KeyShapes' BY <1>3, AsksRotation, Zenon DEF OthersAsk, Asks
  <2> QED BY <1>2, <1>3, <2>1 DEF OthersAsk
<1>4. CASE KeyRotates
  <2>1. \A kid \in DOMAIN served' : served'[kid] \in 0 .. time
    BY <1>0, <1>4 DEF KeyRotates, ProfShapes
  <2> QED BY <1>4, <2>1 DEF KeyRotates, ProfShapes
<1>5. CASE UsageFlushed BY <1>1, <1>5 DEF UsageFlushed, ProfShapes
<1>6. CASE WindowEnds
  <2>1. time' = time + 1 /\ UNCHANGED <<served, auth, keyFailed, queryFailed, optOut>>
    BY <1>6 DEF WindowEnds
  <2>2. Instants \subseteq {Never} \cup 0 .. time' BY <1>0, <2>1
  <2>3. pipe' = [pipe EXCEPT !.phase = pipe'.phase] BY <1>6 DEF WindowEnds, ProfShapes
  <2>4. \A kid \in DOMAIN served : served[kid] \in 0 .. time' BY <1>0, <2>1 DEF ProfShapes
  <2>5. optOut \in [Pods -> {Never} \cup 0 .. time'] BY <2>2 DEF ProfShapes
  <2> QED BY <1>0, <2>1, <2>2, <2>3, <2>4, <2>5 DEF ProfShapes
<1>7. CASE FetchesTargets
  <2>1. KeyShapes' BY <1>7, AsksRotation DEF FetchesTargets
  <2>2. UNCHANGED <<time, served, optOut>> /\ queryFailed' \in {queryFailed, time}
    BY <1>7 DEF FetchesTargets
  <2>3. ContainersForNode(Self) \subseteq Pods BY DEF ContainersForNode, ContainersOnNode
  <2>4. /\ pipe' = [phase |-> pipe'.phase, targets |-> pipe'.targets,
                   fetched |-> pipe'.fetched, scope |-> pipe'.scope, groups |-> pipe'.groups]
        /\ pipe'.fetched \in {pipe.fetched, time} /\ pipe'.targets \subseteq Pods
    BY <1>7, <2>3 DEF FetchesTargets, ProfShapes
  <2> QED BY <1>0, <2>1, <2>2, <2>4 DEF KeyShapes, ProfShapes
<1>8. CASE FetchesScope \/ \E g \in pipe.groups : Ships(g)
  <2>1. KeyShapes' BY <1>8, AsksRotation, ReceivesAsks, Zenon DEF FetchesScope, Ships
  <2>2. UNCHANGED <<time, served, optOut, queryFailed>> BY <1>8, Zenon DEF FetchesScope, Ships
  <2>3. pipe' = [pipe EXCEPT !.phase = pipe'.phase, !.scope = pipe'.scope,
                             !.groups = pipe'.groups]
    BY <1>8, Zenon DEF FetchesScope, Ships, ProfShapes
  <2> QED BY <2>1, <2>2, <2>3 DEF KeyShapes, ProfShapes
<1>9. CASE ProcessesWindow \/ WindowDone \/ CaptureStops
  <2>1. UNCHANGED <<time, served, auth, keyFailed, queryFailed, optOut>>
    BY <1>9, Zenon DEF ProcessesWindow, WindowDone, CaptureStops
  <2>2. pipe' = [pipe EXCEPT !.phase = pipe'.phase, !.scope = pipe'.scope,
                             !.groups = pipe'.groups]
    BY <1>9, Zenon DEF ProcessesWindow, WindowDone, CaptureStops, ProfShapes
  <2> QED BY <1>1, <2>1, <2>2
<1>10. CASE \E g \in late : ServedLate(g)
  <2>1. KeyShapes' BY <1>10, AsksRotation, ReceivesAsks, Zenon DEF ServedLate
  <2> QED BY <1>2, <1>10, <2>1 DEF ServedLate
<1>11. CASE \E p \in Pods : PodChanges(p)
  <2>1. optOut' \in [Pods -> Instants] BY <1>0, <1>11 DEF PodChanges, ProfShapes
  <2> QED BY <1>11, <2>1 DEF PodChanges, ProfShapes
<1> QED BY <1>3, <1>4, <1>5, <1>6, <1>7, <1>8, <1>9, <1>10, <1>11 DEF ProfNext

\* Profiles come from targets that were profilable at the last refresh and from
\* pods admitted when the window asked.
LEMMA ProfRefreshed ==
  ASSUME ProfShapes, Refreshed, ProfNext PROVE Refreshed'
<1> USE IntervalsAssumption
<1>0. time \in Nat /\ Never = -1 /\ queryFailed \in {Never} \cup 0 .. time
      /\ pipe.fetched \in {Never} \cup 0 .. time
  BY DEF ProfShapes, Never
<1>1. CASE UNCHANGED <<time, pipe, profilable, optOut, queryFailed, allowed, late, profile>>
  BY <1>1 DEF Refreshed, Timely
<1>2. CASE OthersAsk \/ KeyRotates \/ UsageFlushed
  BY <1>1, <1>2 DEF OthersAsk, KeyRotates, UsageFlushed, IndexVars
<1>3. CASE WindowEnds
  <2>1. time' = time + 1
        /\ UNCHANGED <<profilable, optOut, queryFailed, allowed, late, profile>>
    BY <1>3 DEF WindowEnds, IndexVars
  <2>2. pipe' = [pipe EXCEPT !.phase = IF due(time + 1) THEN "targets" ELSE "scope"]
    BY <1>3 DEF WindowEnds
  <2>3. /\ pipe'.targets = pipe.targets /\ pipe'.fetched = pipe.fetched
        /\ pipe'.scope = pipe.scope /\ pipe'.groups = pipe.groups
        /\ pipe'.phase = IF due(time + 1) THEN "targets" ELSE "scope"
    BY <2>2 DEF ProfShapes
  <2>4. pipe'.phase \in {"scope", "process"} =>
          pipe.fetched # Never /\ time' - pipe.fetched < Refresh
    BY <1>0, <2>1, <2>3 DEF due
  <2> QED BY <2>1, <2>3, <2>4 DEF Refreshed, Timely
<1>4. CASE FetchesTargets
  <2>1. UNCHANGED <<time, profilable, optOut, allowed, late, profile>>
    BY <1>4 DEF FetchesTargets, IndexVars
  <2>2. PICK ok \in BOOLEAN :
          /\ queryFailed' = IF ok THEN queryFailed ELSE time
          /\ pipe' = IF ok THEN [pipe EXCEPT !.phase = "scope", !.fetched = time,
                                             !.targets = ContainersForNode(Self)]
                     ELSE [pipe EXCEPT !.phase = "scope"]
    BY <1>4 DEF FetchesTargets
  <2>3. pipe'.scope = pipe.scope /\ pipe'.groups = pipe.groups BY <2>2 DEF ProfShapes
  <2>4. CASE ok
    <3>1. pipe'.fetched = time /\ pipe'.targets \subseteq profilable
      BY <2>2, <2>4 DEF ProfShapes, ContainersForNode, ContainersOnNode
    <3> QED BY <1>0, <2>1, <2>3, <3>1 DEF Refreshed, Timely
  <2>5. CASE ~ok
    <3>1. /\ pipe'.fetched = pipe.fetched /\ pipe'.targets = pipe.targets
          /\ queryFailed' = time
      BY <2>2, <2>5 DEF ProfShapes
    <3> QED BY <2>1, <2>3, <3>1 DEF Refreshed, Timely
  <2> QED BY <2>4, <2>5
<1>5. CASE FetchesScope
  <2>1. UNCHANGED <<time, profilable, optOut, queryFailed, late, profile>>
    BY <1>5 DEF FetchesScope, IndexVars
  <2>2. pipe.phase = "scope" /\ \E ok \in BOOLEAN :
          pipe' = [pipe EXCEPT !.phase = "process", !.scope = ScopeAnswered(ok)]
    BY <1>5, Zenon DEF FetchesScope
  <2>3. /\ pipe'.targets = pipe.targets /\ pipe'.fetched = pipe.fetched
        /\ pipe'.groups = pipe.groups /\ pipe'.scope \subseteq AdmittedPodsOnNode(Self)
    BY <2>2 DEF ProfShapes, ScopeAnswered
  <2>4. allowed' = AdmittedPodsOnNode(Self) BY <1>5 DEF FetchesScope
  <2> QED BY <2>1, <2>2, <2>3, <2>4 DEF Refreshed, Timely
<1>6. CASE ProcessesWindow
  <2>1. UNCHANGED <<time, profilable, optOut, queryFailed, allowed, late, profile>>
    BY <1>6 DEF ProcessesWindow, IndexVars
  <2> DEFINE G(p) == [pod |-> p, optedFor |-> IF p \in profilable THEN 0 ELSE time - optOut[p],
                      failing |-> queryFailed # Never /\ queryFailed >= optOut[p],
                      admitted |-> p \in allowed]
  <2>2. PICK valid \in SUBSET (pipe.targets \cap pipe.scope) :
          pipe' = [pipe EXCEPT !.phase = "ship", !.groups = {G(p) : p \in valid}]
    BY <1>6, Zenon DEF ProcessesWindow
  <2>3. /\ pipe'.targets = pipe.targets /\ pipe'.fetched = pipe.fetched
        /\ pipe'.scope = pipe.scope /\ pipe'.phase = "ship"
        /\ pipe'.groups = {G(p) : p \in valid}
    BY <2>2 DEF ProfShapes
  <2>4. ASSUME NEW p \in valid PROVE G(p).admitted /\ Timely(G(p))
    <3>1. p \in Pods /\ optOut[p] \in {Never} \cup 0 .. time BY DEF ProfShapes
    <3>2. p \in profilable \/ optOut[p] >= pipe.fetched BY DEF Refreshed
    <3>3. \/ pipe.fetched # Never /\ time - pipe.fetched < Refresh
          \/ queryFailed = time
      BY <1>6 DEF ProcessesWindow, Refreshed
    <3>4. \/ (IF p \in profilable THEN 0 ELSE time - optOut[p]) < Refresh
          \/ queryFailed # Never /\ queryFailed >= optOut[p]
      BY <1>0, <3>1, <3>2, <3>3
    <3>5. Timely(G(p)) BY ONLY <3>4, Zenon DEF Timely
    <3> QED BY <3>5 DEF Refreshed
  <2> QED BY <2>1, <2>3, <2>4 DEF Refreshed, Timely
<1>7. ASSUME NEW g \in pipe.groups, Ships(g) PROVE Refreshed'
  <2>1. UNCHANGED <<time, profilable, optOut, queryFailed, allowed>>
    BY <1>7 DEF Ships, IndexVars
  <2>2. pipe.phase = "ship" /\ pipe' = [pipe EXCEPT !.groups = @ \ {g}] BY <1>7 DEF Ships
  <2>3. /\ pipe'.targets = pipe.targets /\ pipe'.fetched = pipe.fetched
        /\ pipe'.scope = pipe.scope /\ pipe'.phase = "ship" /\ pipe'.groups = pipe.groups \ {g}
    BY <2>2 DEF ProfShapes
  <2>4. late' \in {late, late \cup {g}} /\ profile' \in {profile, g}
    BY <1>7 DEF Ships, Receives, OnProfile
  <2> QED BY <2>1, <2>3, <2>4 DEF Refreshed, Timely
<1>8. ASSUME NEW g \in late, ServedLate(g) PROVE Refreshed'
  <2>1. UNCHANGED <<time, profilable, optOut, queryFailed, allowed, pipe>>
        /\ late' = late \ {g} /\ profile' \in {profile, g}
    BY <1>8 DEF ServedLate, Receives, OnProfile, IndexVars
  <2> QED BY <2>1 DEF Refreshed, Timely
<1>9. CASE WindowDone \/ CaptureStops
  <2>1. UNCHANGED <<time, profilable, optOut, queryFailed, allowed, late, profile>>
    BY <1>9 DEF WindowDone, CaptureStops, IndexVars
  <2>2. /\ pipe'.targets = pipe.targets /\ pipe'.fetched = pipe.fetched
        /\ pipe'.scope = pipe.scope /\ pipe'.groups = pipe.groups
        /\ pipe'.phase \in {"capture", "stopped"}
    BY <1>9 DEF WindowDone, CaptureStops, ProfShapes
  <2> QED BY <2>1, <2>2 DEF Refreshed, Timely
<1>10. ASSUME NEW p \in Pods, PodChanges(p) PROVE Refreshed'
  <2>1. UNCHANGED <<time, pipe, queryFailed, allowed, late, profile>> BY <1>10 DEF PodChanges
  <2>2. \A q \in Pods : q \in profilable' \/ optOut'[q] = time \/
                       (q \notin profilable /\ optOut'[q] = optOut[q])
    BY <1>10 DEF PodChanges, IndexMoves, ProfilingMoves, ProfShapes
  <2>3. \A q \in pipe.targets : q \in profilable' \/ optOut'[q] >= pipe.fetched
    BY <1>0, <2>2 DEF Refreshed, ProfShapes
  <2> QED BY <2>1, <2>3 DEF Refreshed, Timely
<1> QED BY <1>2, <1>3, <1>4, <1>5, <1>6, <1>7, <1>8, <1>9, <1>10 DEF ProfNext

-----------------------------------------------------------------------------
\* The store's operations.

\* Ingest adds no key but those its report joins to, and what the store knows of
\* a digest it keeps.
LEMMA IngestAdds ==
  ASSUME NEW s, StoreShape(s), NEW node, NEW tallies, NEW profiling, NEW order, NEW resolve,
         NEW at
  PROVE  LET t == Ingest(s, node, tallies, profiling, order, resolve, at) IN
         /\ StoreShape(t) /\ t.written = s.written
         /\ StoreKeys(t) \subseteq StoreKeys(s) \cup {resolve[b].key : b \in DOMAIN resolve}
         /\ DOMAIN t.builds \subseteq
              DOMAIN s.builds \cup {resolve[b].digest : b \in DOMAIN resolve}
         /\ \A d \in DOMAIN s.builds : d \in DOMAIN t.builds /\ t.builds[d] = s.builds[d]
<1> DEFINE t == Ingest(s, node, tallies, profiling, order, resolve, at)
           Joined == {resolve[b] : b \in DOMAIN resolve}
           joined == {j \in DOMAIN order : order[j] \in DOMAIN resolve}
           B == {order[j] : j \in joined}
           digestAt == [j \in joined |-> resolve[order[j]].digest]
           recs == [k \in {resolve[b].key : b \in B} |->
                      LET b == order[Max({j \in joined : resolve[order[j]].key = k})]
                      IN  [version |-> b.version, digest |-> resolve[b].digest,
                           assertedAt |-> at]]
           G(C) == Grouped(node, C, resolve)
           P == peaksOf(G({b \in B : HasPeaks(b)}))
           Q == portsOf(G({b \in B : HasPorts(b)}))
           R == countersOf(G({b \in B : HasCounters(b)}))
           Of(x, b) == x = <<resolve[b].key, resolve[b].digest, node>>
<1>1. t = [s EXCEPT !.records = Over(@, recs), !.builds = ingestBuild(@, order, digestAt),
                    !.peaks = Replaced(@, node, P), !.ports = Replaced(@, node, Q),
                    !.counters = Replaced(@, node, R),
                    !.reported = Over(@, [n \in {node} |-> at]),
                    !.scans = Over(@, [n \in {node} |-> tallies]),
                    !.profiling = Over(@, [n \in {node} |-> profiling])]
  BY DEF Ingest
<1>2. DOMAIN recs = {resolve[b].key : b \in B} OBVIOUS
<1>3. \A x \in DOMAIN P \cup DOMAIN Q \cup DOMAIN R : \E b \in B : Of(x, b)
  <2> HIDE DEF B
  <2>1. ASSUME NEW C \in SUBSET B, NEW x \in DOMAIN G(C) PROVE \E b \in B : Of(x, b)
    BY DEF Grouped
  <2> HIDE DEF G
  <2> QED BY <2>1 DEF peaksOf, portsOf, countersOf
<1>4. (\A b \in B : resolve[b] \in Joined)
      /\ \A j \in DOMAIN digestAt : \E x \in Joined : digestAt[j] = x.digest
  OBVIOUS
<1> HIDE DEF joined, B, digestAt, recs, P, Q, R, t
<1>5. StoreShape(t) BY <1>1 DEF StoreShape
<1>6. t.written = s.written /\ t.builds = ingestBuild(s.builds, order, digestAt)
  BY <1>1 DEF StoreShape
<1>7. DOMAIN t.records = DOMAIN s.records \cup DOMAIN recs
  <2>1. t.records = Over(s.records, recs) BY <1>1 DEF StoreShape
  <2> QED BY <2>1 DEF Over
<1>8. ASSUME NEW f, NEW new PROVE DOMAIN Replaced(f, node, new) \subseteq DOMAIN f \cup DOMAIN new
  BY DEF Replaced, Over, Without, Restrict
<1>9. DOMAIN t.peaks \subseteq DOMAIN s.peaks \cup DOMAIN P
  BY <1>1, <1>8 DEF StoreShape
<1>10. DOMAIN t.ports \subseteq DOMAIN s.ports \cup DOMAIN Q
  BY <1>1, <1>8 DEF StoreShape
<1>11. DOMAIN t.counters \subseteq DOMAIN s.counters \cup DOMAIN R
  BY <1>1, <1>8 DEF StoreShape
<1>12. StoreKeys(t) \subseteq StoreKeys(s) \cup {j.key : j \in Joined}
  BY <1>2, <1>3, <1>4, <1>7, <1>9, <1>10, <1>11 DEF StoreKeys
<1>13. DOMAIN t.builds \subseteq DOMAIN s.builds \cup {j.digest : j \in Joined}
  BY <1>4, <1>6 DEF ingestBuild, Over
<1>14. \A d \in DOMAIN s.builds : d \in DOMAIN t.builds /\ t.builds[d] = s.builds[d]
  BY <1>6 DEF ingestBuild, Over
<1> QED BY <1>5, <1>6, <1>12, <1>13, <1>14 DEF t

\* Retain leaves live keys only, and forgets that a build was written together
\* with the build.
LEMMA RetainForgets ==
  ASSUME NEW s, StoreShape(s), NEW live, NEW t, t = Retain(s, live)
  PROVE  /\ StoreShape(t) /\ StoreKeys(t) \subseteq live
         /\ DOMAIN t.builds \subseteq DOMAIN s.builds
         /\ \A d \in DOMAIN t.builds : t.builds[d] = s.builds[d]
         /\ t.written = s.written \ (DOMAIN s.builds \ DOMAIN t.builds)
<1> DEFINE recs == Restrict(s.records, DOMAIN s.records \cap live)
           referenced == {recs[k].digest : k \in DOMAIN recs} \ {NoDigest}
<1>1. /\ t.records = recs
      /\ t.builds = Restrict(s.builds, DOMAIN s.builds \cap referenced)
      /\ t.written = s.written \ (DOMAIN s.builds \ referenced)
  BY DEF Retain, StoreShape
<1>2. StoreShape(t)
      /\ \A x \in DOMAIN t.peaks \cup DOMAIN t.ports \cup DOMAIN t.counters : x[1] \in live
  BY DEF Retain, StoreShape, OfKeys, Restrict
<1>3. DOMAIN recs \subseteq live BY DEF Restrict
<1> HIDE DEF recs, referenced
<1>4. StoreKeys(t) \subseteq live BY <1>1, <1>2, <1>3 DEF StoreKeys
<1> QED BY <1>1, <1>2, <1>4 DEF Restrict

\* RetainNodes adds nothing and leaves the builds alone.
LEMMA RetainNodesForgets ==
  ASSUME NEW s, StoreShape(s), NEW live, NEW t, t = RetainNodes(s, live)
  PROVE  /\ StoreShape(t) /\ StoreKeys(t) \subseteq StoreKeys(s)
         /\ t.builds = s.builds /\ t.written = s.written
<1>1. /\ StoreShape(t) /\ t.builds = s.builds /\ t.written = s.written
      /\ t.records = s.records
  BY DEF RetainNodes, StoreShape
<1>2. /\ DOMAIN t.peaks \subseteq DOMAIN s.peaks /\ DOMAIN t.ports \subseteq DOMAIN s.ports
      /\ DOMAIN t.counters \subseteq DOMAIN s.counters
  BY DEF RetainNodes, StoreShape, OfNodes, Restrict
<1> QED BY <1>1, <1>2 DEF StoreKeys

\* The payloads of a flush show keys of the store.
LEMMA PayloadsFromStore == \A i \in DOMAIN Payloads : Payloads[i] \subseteq StoreKeys(store)
<1>1. DOMAIN Snapshot(store) \subseteq StoreKeys(store) BY DEF Snapshot, StoreKeys
<1>2. {p[1] : p \in DOMAIN PeakSnapshot(store)} \subseteq StoreKeys(store)
  BY DEF PeakSnapshot, Pairs, StoreKeys
<1>3. {p[1] : p \in DOMAIN CounterSnapshot(store)} \subseteq StoreKeys(store)
  BY DEF CounterSnapshot, Pairs, StoreKeys
<1>4. {p[1] : p \in DOMAIN PortSnapshot(store)} \subseteq StoreKeys(store)
  BY DEF PortSnapshot, Pairs, StoreKeys
<1> QED BY <1>1, <1>2, <1>3, <1>4 DEF Payloads

-----------------------------------------------------------------------------
\* The inventory path.

\* What a step of a node's loop does to the state of its scanner.
LEMMA PassStartsScan ==
  ASSUME InvShapes, NEW n \in Nodes, PassStarts(n)
  PROVE  /\ UNCHANGED <<proc, net, store, flush, spooled, handed>>
         /\ DOMAIN scan' = Nodes
         /\ \A m \in Nodes \ {n} : scan'[m] = scan[m]
         /\ DOMAIN scan'[n] = DOMAIN scan[n] /\ scan'[n].cache = scan[n].cache
         /\ scan'[n].scope \subseteq scan'[n].allowed
<1>1. UNCHANGED <<proc, net, store, flush, spooled, handed>> BY DEF PassStarts
<1>2. PICK ok \in BOOLEAN : scanScope(n, ok) BY DEF PassStarts
<1> DEFINE scope == IF ok THEN AdmittedPodsOnNode(n) ELSE DenyAll
<1>3. scope \subseteq AdmittedPodsOnNode(n) BY DEF DenyAll
<1>4. scan' = [scan EXCEPT ![n].phase = "scoped", ![n].allowed = AdmittedPodsOnNode(n),
                           ![n].scope = scope]
  BY <1>2 DEF scanScope
<1> HIDE DEF scope
<1> QED BY <1>1, <1>3, <1>4 DEF InvShapes

\* A pass that scans posts one report and keeps its own readings.
LEMMA PassScansScan ==
  ASSUME InvShapes, NEW n \in Nodes, PassScans(n)
  PROVE  \E read \in [PidsOn(n) -> {"ok", "partial", "gone", "dropped"}] :
           /\ UNCHANGED <<proc, store, flush, spooled, handed>>
           /\ net' = net \cup {Scan(n, read)}
           /\ DOMAIN scan' = Nodes
           /\ \A m \in Nodes \ {n} : scan'[m] = scan[m]
           /\ DOMAIN scan'[n] = DOMAIN scan[n]
           /\ scan'[n].cache = CacheAfter(scan[n].scope, read, n, scan[n].pass + 1)
           /\ scan'[n].scope = scan[n].scope /\ scan'[n].allowed = scan[n].allowed
<1>1. PICK bad \in SUBSET PidsOn(n), how \in {"partial", "gone", "dropped"} :
        scanOnce(n, [i \in PidsOn(n) |-> IF i \in bad THEN how ELSE "ok"])
  BY DEF PassScans
<1>2. PICK read \in [PidsOn(n) -> {"ok", "partial", "gone", "dropped"}] : scanOnce(n, read)
  <2> DEFINE read == [i \in PidsOn(n) |-> IF i \in bad THEN how ELSE "ok"]
  <2>1. read \in [PidsOn(n) -> {"ok", "partial", "gone", "dropped"}] OBVIOUS
  <2> QED BY <1>1, <2>1
<1>3. UNCHANGED <<proc, store, flush, spooled, handed>> BY DEF PassScans
<1>4. /\ net' = net \cup {Scan(n, read)}
      /\ DOMAIN scan' = Nodes
      /\ \A m \in Nodes \ {n} : scan'[m] = scan[m]
      /\ DOMAIN scan'[n] = DOMAIN scan[n]
      /\ scan'[n].cache = CacheAfter(scan[n].scope, read, n, scan[n].pass + 1)
      /\ scan'[n].scope = scan[n].scope /\ scan'[n].allowed = scan[n].allowed
  BY <1>2 DEF scanOnce, InvShapes
<1> QED BY <1>3, <1>4

\* A pass that ends posts nothing and leaves its readings and scope alone.
LEMMA PassEndsScan ==
  ASSUME InvShapes, NEW n \in Nodes, PassFails(n) \/ ShipReturns(n)
  PROVE  /\ UNCHANGED <<proc, store, flush, spooled, handed>> /\ net' \subseteq net
         /\ DOMAIN scan' = Nodes
         /\ \A m \in Nodes \ {n} : scan'[m] = scan[m]
         /\ DOMAIN scan'[n] = DOMAIN scan[n] /\ scan'[n].cache = scan[n].cache
         /\ scan'[n].scope = scan[n].scope /\ scan'[n].allowed = scan[n].allowed
<1>1. UNCHANGED <<proc, store, flush, spooled, handed>> /\ net' \subseteq net
  BY DEF PassFails, ShipReturns
<1>2. \/ scan' = [scan EXCEPT ![n].phase = "idle", ![n].pass = @ + 1]
      \/ scan' = [scan EXCEPT ![n].phase = "idle"]
  BY DEF PassFails, ShipReturns
<1> QED BY <1>1, <1>2 DEF InvShapes

\* What a served report does: it joins to pods of the index only.
LEMMA OnReportStore ==
  ASSUME InvShapes, NEW r \in net, OnReport(r)
  PROVE  /\ UNCHANGED <<proc, scan, flush, spooled, handed>> /\ net' \subseteq net
         /\ StoreShape(store') /\ store'.written = store.written
         /\ StoreKeys(store') \subseteq StoreKeys(store) \cup LiveKeys(index)
         /\ DOMAIN store'.builds \subseteq DOMAIN store.builds \cup Digests
         /\ \A d \in DOMAIN store.builds :
              d \in DOMAIN store'.builds /\ store'.builds[d] = store.builds[d]
<1> DEFINE joined == {b \in r.bins : LookupContainerOnNode(b.pod, r.node)}
           resolve == [b \in joined |-> [key |-> KeyOf[b.pod], digest |-> DigestOf[b.pod]]]
<1>1. UNCHANGED <<proc, scan, flush, spooled, handed>> /\ net' \subseteq net BY DEF OnReport
<1>2. store' = Ingest(store, r.node, r.tallies, "disabled", Listed(r.bins), resolve, clock + 1)
  BY DEF OnReport
<1>3. \A b \in DOMAIN resolve : resolve[b].key \in LiveKeys(index) /\ resolve[b].digest \in Digests
  <2> SUFFICES ASSUME NEW b \in joined
               PROVE  KeyOf[b.pod] \in LiveKeys(index) /\ DigestOf[b.pod] \in Digests
    OBVIOUS
  <2>1. b.pod \in index /\ b.pod \in Pods BY DEF LookupContainerOnNode, InvShapes
  <2> QED BY <2>1 DEF LiveKeys, Digests
<1> HIDE DEF joined, resolve
<1>4. /\ StoreShape(store') /\ store'.written = store.written
      /\ StoreKeys(store') \subseteq StoreKeys(store) \cup {resolve[b].key : b \in DOMAIN resolve}
      /\ DOMAIN store'.builds \subseteq
           DOMAIN store.builds \cup {resolve[b].digest : b \in DOMAIN resolve}
      /\ \A d \in DOMAIN store.builds :
           d \in DOMAIN store'.builds /\ store'.builds[d] = store.builds[d]
  BY <1>2, IngestAdds DEF InvShapes
<1> QED BY <1>1, <1>3, <1>4

-----------------------------------------------------------------------------
\* What the flush and the cluster do.

\* What each step of flushInventory but the last does to the store and the spool.
LEMMA FlushStore ==
  ASSUME InvShapes, FlushRetains \/ FlushRetainsNodes \/ FlushPublishes \/ FlushStarts
  PROVE  /\ UNCHANGED <<proc, scan, net, handed>>
         /\ StoreShape(store') /\ DOMAIN flush' = DOMAIN flush /\ DOMAIN spooled' = DOMAIN spooled
         /\ FlushRetains => StoreKeys(store') \subseteq flush.live /\ flush'.phase = "nodes"
                            /\ spooled' = spooled
         /\ FlushRetainsNodes => StoreKeys(store') \subseteq StoreKeys(store)
                                 /\ flush'.phase = "publish" /\ spooled' = spooled
         /\ FlushPublishes => store' = store /\ flush'.phase = "builds"
                              /\ spooled'.liveSince = spooled.liveSince
                              /\ spooled'.keys \subseteq StoreKeys(store)
         /\ DOMAIN store'.builds \subseteq DOMAIN store.builds
         /\ \A d \in DOMAIN store'.builds : store'.builds[d] = store.builds[d]
         /\ store'.written = store.written \ (DOMAIN store.builds \ DOMAIN store'.builds)
<1>1. CASE FlushStarts
  BY <1>1 DEF FlushStarts, FlushRetains, FlushRetainsNodes, FlushPublishes, InvShapes
<1>2. CASE FlushRetains
  <2>1. store' = Retain(store, flush.live) /\ flush.phase = "retain"
        /\ flush' = [flush EXCEPT !.phase = "nodes"] /\ UNCHANGED <<proc, scan, net, handed, spooled>>
    BY <1>2 DEF FlushRetains
  <2> QED BY <1>2, <2>1, RetainForgets DEF InvShapes, FlushRetainsNodes, FlushPublishes
<1>3. CASE FlushRetainsNodes
  <2>1. store' = RetainNodes(store, names) /\ flush.phase = "nodes"
        /\ flush' = [flush EXCEPT !.phase = "publish"] /\ UNCHANGED <<proc, scan, net, handed, spooled>>
    BY <1>3 DEF FlushRetainsNodes
  <2> QED BY <1>3, <2>1, RetainNodesForgets DEF InvShapes, FlushRetains, FlushPublishes
<1>4. CASE FlushPublishes
  <2>1. PICK failed \in SUBSET DOMAIN Payloads :
          /\ Spend(Cardinality(failed))
          /\ spooled' = [spooled EXCEPT !.keys = UNION {Payloads[i] : i \in DOMAIN Payloads \ failed}]
    BY <1>4, Zenon DEF FlushPublishes
  <2>2. spooled'.keys = UNION {Payloads[i] : i \in DOMAIN Payloads \ failed}
        /\ spooled'.liveSince = spooled.liveSince /\ DOMAIN spooled' = DOMAIN spooled
    BY <2>1 DEF InvShapes
  <2>3. spooled'.keys \subseteq StoreKeys(store) BY <2>2, PayloadsFromStore
  <2>4. flush.phase = "publish" /\ flush' = [flush EXCEPT !.phase = "builds"]
        /\ UNCHANGED <<proc, scan, net, store, handed>>
    BY <1>4 DEF FlushPublishes
  <2> QED BY <2>2, <2>3, <2>4 DEF InvShapes, FlushRetains, FlushRetainsNodes
<1> QED BY <1>1, <1>2, <1>3, <1>4

\* The last step marks the builds it wrote, and hands over the facts of those.
LEMMA WritesBuildsStore ==
  ASSUME InvShapes, FlushWritesBuilds
  PROVE  \E ok \in SUBSET PendingBuilds(store) :
           /\ UNCHANGED <<proc, scan, net, spooled>>
           /\ StoreShape(store') /\ store'.written = store.written \cup ok
           /\ store'.builds = store.builds /\ StoreKeys(store') = StoreKeys(store)
           /\ DOMAIN flush' = DOMAIN flush /\ flush'.phase = "idle"
           /\ DOMAIN handed' = Digests
           /\ \A d \in Digests :
                /\ DOMAIN handed'[d] = DOMAIN handed[d]
                /\ handed'[d].facts = IF d \in ok THEN store.builds[d] ELSE handed[d].facts
<1>1. PICK ok \in SUBSET PendingBuilds(store) :
        /\ store' = Marked(store, ok)
        /\ handed' = [d \in Digests |->
                        IF d \in ok
                        THEN [facts |-> store.builds[d],
                              again |-> handed[d].again \/ handed[d].running,
                              running |-> TRUE]
                        ELSE handed[d]]
  BY DEF FlushWritesBuilds
<1>2. store' = [store EXCEPT !.written = @ \cup ok] BY <1>1 DEF Marked, MarkBuildWritten
<1>3. /\ StoreShape(store') /\ store'.written = store.written \cup ok
      /\ store'.builds = store.builds /\ StoreKeys(store') = StoreKeys(store)
  BY <1>2 DEF InvShapes, StoreShape, StoreKeys
<1>4. /\ DOMAIN handed' = Digests
      /\ \A d \in Digests :
           /\ DOMAIN handed'[d] = DOMAIN handed[d]
           /\ handed'[d].facts = IF d \in ok THEN store.builds[d] ELSE handed[d].facts
  <2>1. DOMAIN handed' = Digests BY <1>1
  <2>2. ASSUME NEW d \in Digests, d \notin ok PROVE handed'[d] = handed[d] BY <1>1, <2>2
  <2>3. ASSUME NEW d \in Digests, d \in ok
        PROVE  DOMAIN handed'[d] = DOMAIN handed[d] /\ handed'[d].facts = store.builds[d]
    <3>1. handed'[d] = [facts |-> store.builds[d], again |-> handed[d].again \/ handed[d].running,
                        running |-> TRUE]
      BY <1>1, <2>3
    <3> QED BY <3>1 DEF InvShapes
  <2> QED BY <2>1, <2>2, <2>3
<1>5. UNCHANGED <<proc, scan, net, spooled>> /\ flush' = [flush EXCEPT !.phase = "idle"]
  BY DEF FlushWritesBuilds
<1>6. DOMAIN flush' = DOMAIN flush /\ flush'.phase = "idle" BY <1>5 DEF InvShapes
<1> QED BY <1>3, <1>4, <1>5, <1>6

\* A pod event reaches the index alone; the flush under way may see its key.
LEMMA PodMovesState ==
  ASSUME InvShapes, NEW p \in Pods, PodMoves(p)
  PROVE  /\ UNCHANGED <<proc, scan, net, store, flush>> /\ index' \subseteq Pods
         /\ DOMAIN spooled' = DOMAIN spooled /\ spooled'.keys = spooled.keys
         /\ spooled'.liveSince = spooled.liveSince \cup LiveKeys(index')
         /\ DOMAIN handed' = Digests
         /\ \A d \in Digests : DOMAIN handed'[d] = DOMAIN handed[d] /\ handed'[d].facts = handed[d].facts
<1>1. UNCHANGED <<proc, scan, net, store, flush>> /\ index' \subseteq Pods
  BY DEF PodMoves, IndexMoves, InvShapes
<1>2. spooled' = [spooled EXCEPT !.liveSince = @ \cup LiveKeys(index')] BY DEF PodMoves
<1>3. /\ DOMAIN spooled' = DOMAIN spooled /\ spooled'.keys = spooled.keys
      /\ spooled'.liveSince = spooled.liveSince \cup LiveKeys(index')
  BY <1>2 DEF InvShapes
<1>4. /\ DOMAIN handed' = Digests
      /\ \A d \in Digests : DOMAIN handed'[d] = DOMAIN handed[d] /\ handed'[d].facts = handed[d].facts
  BY DEF PodMoves, InvShapes
<1> QED BY <1>1, <1>3, <1>4

\* A pid keeps its process, which works on, or is given to a later one.
LEMMA ProcessesMove ==
  ASSUME InvShapes, NEW i \in Pids, ProcessWorks(i) \/ PidReused(i)
  PROVE  /\ UNCHANGED <<scan, net, store, flush, spooled, handed>>
         /\ proc' \in [Pids -> [start : Nat, work : Nat]]
         /\ \A j \in Pids :
              \/ proc'[j].start = proc[j].start /\ proc'[j].work >= proc[j].work
              \/ proc'[j].start > proc[j].start
<1>1. UNCHANGED <<scan, net, store, flush, spooled, handed>> BY DEF ProcessWorks, PidReused
<1>2. CASE proc' = [proc EXCEPT ![i].work = @ + 1] BY <1>1, <1>2 DEF InvShapes
<1>3. CASE proc' = [proc EXCEPT ![i] = [start |-> @.start + 1, work |-> 0]]
  BY <1>1, <1>3 DEF InvShapes
<1> QED BY <1>2, <1>3 DEF ProcessWorks, PidReused

-----------------------------------------------------------------------------
\* A difference that counterCache.delta reports is the work of one process.
LEMMA BinaryExact ==
  ASSUME InvShapes, Caches, NEW n \in Nodes, NEW i \in PidsOn(n),
         NEW how \in {"ok", "partial", "gone", "dropped"}, NEW pass,
         NEW b, b = BinaryInfo(n, i, how, pass)
  PROVE  /\ b.pod = PodOf[i]
         /\ b.delta # NoDelta => /\ b.truth >= 0 /\ b.delta.user = b.truth
                                 /\ b.delta.onCPU = b.truth \/ b.doubtful
<1> DEFINE last == scan[n].cache
           cur == readProcessCounters(i, how)
           same == i \in DOMAIN last /\ last[i].start = proc[i].start
<1>1. /\ b.pod = PodOf[i]
      /\ b.delta = IF how = "gone" THEN NoDelta ELSE delta(last, i, cur, pass)
      /\ b.truth = IF same THEN proc[i].work - last[i].work ELSE -1
      /\ b.doubtful = (how = "partial" \/ (same /\ last[i].partial))
  BY Zenon DEF BinaryInfo
<1>2. /\ cur.start = proc[i].start /\ cur.user = proc[i].work
      /\ cur.onCPU = IF how = "partial" THEN 0 ELSE proc[i].work
  BY DEF readProcessCounters
<1>3. proc[i].start \in Nat /\ proc[i].work \in Nat
  <2>1. i \in Pids BY DEF PidsOn
  <2> QED BY <2>1 DEF InvShapes
<1>4. ASSUME b.delta # NoDelta
      PROVE  /\ same
             /\ b.delta.user = cur.user - last[i].user
             /\ b.delta.onCPU = cur.onCPU - last[i].onCPU
  <2>1. b.delta = delta(last, i, cur, pass) BY <1>1, <1>4
  <2>2. i \in DOMAIN last /\ last[i].start = cur.start BY <1>4, <2>1 DEF delta
  <2>3. b.delta = [observed |-> pass - last[i].at, onCPU |-> cur.onCPU - last[i].onCPU,
                   user |-> cur.user - last[i].user]
    BY <1>4, <2>1, <2>2, Zenon DEF delta
  <2> QED BY <1>2, <2>2, <2>3
<1>5. ASSUME same
      PROVE  /\ last[i].work \in Nat /\ last[i].work =< proc[i].work /\ last[i].user = last[i].work
             /\ last[i].partial \in BOOLEAN
             /\ last[i].onCPU = IF last[i].partial THEN 0 ELSE last[i].work
  BY <1>5 DEF Caches, CacheOk
<1> HIDE DEF cur, last, same
<1>6. ASSUME b.delta # NoDelta PROVE b.truth >= 0 /\ b.delta.user = b.truth
  BY <1>1, <1>2, <1>3, <1>4, <1>5, <1>6
<1>7. ASSUME b.delta # NoDelta, ~b.doubtful PROVE b.delta.onCPU = b.truth
  <2>1. how # "partial" /\ same /\ ~last[i].partial BY <1>1, <1>4, <1>7
  <2> QED BY <1>1, <1>2, <1>3, <1>4, <1>5, <1>7, <2>1
<1> QED BY <1>1, <1>6, <1>7

\* endPass leaves readings of this pass in the cache.
LEMMA CacheAfterOk ==
  ASSUME InvShapes, NEW n \in Nodes, NEW how, NEW pass,
         UNCHANGED proc, scan'[n].cache = CacheAfter(scan[n].scope, how, n, pass)
  PROVE  \A i \in DOMAIN scan'[n].cache : CacheOk(n, i)'
<1> SUFFICES ASSUME NEW i \in DOMAIN scan'[n].cache PROVE CacheOk(n, i)'
  OBVIOUS
<1>1. i \in PidsOn(n) BY DEF CacheAfter
<1>2. proc[i].start \in Nat /\ proc[i].work \in Nat BY <1>1 DEF InvShapes, PidsOn
<1>3. /\ scan'[n].cache[i].start = proc[i].start /\ scan'[n].cache[i].work = proc[i].work
      /\ scan'[n].cache[i].user = proc[i].work
      /\ scan'[n].cache[i].partial = (how[i] = "partial")
      /\ scan'[n].cache[i].onCPU = IF how[i] = "partial" THEN 0 ELSE proc[i].work
  <2> DEFINE cur == readProcessCounters(i, how[i])
  <2>1. scan'[n].cache[i] = [start |-> cur.start, onCPU |-> cur.onCPU, user |-> cur.user,
                             at |-> pass, work |-> proc[i].work, partial |-> how[i] = "partial"]
    BY DEF CacheAfter
  <2>2. /\ cur.start = proc[i].start /\ cur.user = proc[i].work
        /\ cur.onCPU = IF how[i] = "partial" THEN 0 ELSE proc[i].work
    BY DEF readProcessCounters
  <2> HIDE DEF cur
  <2> QED BY <2>1, <2>2
<1> DEFINE c == scan'[n].cache[i]
<1>4. c.partial \in BOOLEAN BY <1>3, Zenon
<1>5. c.onCPU = IF c.partial THEN 0 ELSE c.work
  <2>1. CASE how[i] = "partial" BY <1>3, <2>1
  <2>2. CASE how[i] # "partial" BY <1>3, <2>2
  <2> QED BY <2>1, <2>2
<1>6. c.start \in Nat /\ c.work \in Nat /\ c.start =< proc'[i].start /\ c.work =< proc'[i].work
      /\ c.user = c.work /\ i \in PidsOn(n)
  BY <1>1, <1>2, <1>3
<1>7. c.start = proc'[i].start => c.work =< proc'[i].work BY <1>6
<1> HIDE DEF c
<1>8. (i \in PidsOn(n))' BY <1>1 DEF PidsOn
<1> QED BY ONLY <1>4, <1>5, <1>6, <1>7, <1>8, Zenon DEF CacheOk, c

\* A report lists processes of the pods its pass may see.
LEMMA ScanBins ==
  ASSUME NEW n, NEW read, NEW b \in Scan(n, read).bins
  PROVE  /\ Scan(n, read).allowed = scan[n].allowed
         /\ \E i \in PidsOn(n) : PodOf[i] \in scan[n].scope
                                /\ b = BinaryInfo(n, i, read[i], scan[n].pass + 1)
BY DEF Scan, Admits

-----------------------------------------------------------------------------
\* The steps of the inventory path, each with what it leaves alone.
LEMMA InvSteps ==
  ASSUME InvNext
  PROVE  \/ UNCHANGED IndexVars /\ \E n \in Nodes : PassStarts(n)
         \/ UNCHANGED IndexVars /\ \E n \in Nodes : PassScans(n)
         \/ UNCHANGED IndexVars /\ \E n \in Nodes : PassFails(n) \/ ShipReturns(n)
         \/ UNCHANGED IndexVars /\ \E r \in net : OnReport(r)
         \/ UNCHANGED IndexVars /\ FlushStarts
         \/ UNCHANGED IndexVars /\ FlushRetains
         \/ UNCHANGED IndexVars /\ FlushRetainsNodes
         \/ UNCHANGED IndexVars /\ FlushPublishes
         \/ UNCHANGED IndexVars /\ FlushWritesBuilds
         \/ UNCHANGED IndexVars /\ \E i \in Pids : ProcessWorks(i) \/ PidReused(i)
         \/ UNCHANGED IndexVars /\ UNCHANGED <<proc, scan, net, store, flush, spooled, handed>>
         \/ \E p \in Pods : PodMoves(p)
<1>1. \A n : NodeMoves(n) => UNCHANGED <<proc, scan, net, store, flush, spooled, handed>>
  BY DEF NodeMoves
<1> QED BY <1>1, Zenon DEF InvNext

\* No step of the inventory path changes what kind of record it updates.
LEMMA InvShapesKept ==
  ASSUME InvShapes, InvNext
  PROVE  InvShapes'
<1>0. Digests' = Digests BY DEF Digests
<1>1. ASSUME UNCHANGED IndexVars, NEW n \in Nodes, PassStarts(n) PROVE InvShapes'
  BY <1>0, <1>1, PassStartsScan DEF InvShapes, IndexVars, StoreShape
<1>2. ASSUME UNCHANGED IndexVars, NEW n \in Nodes, PassScans(n) PROVE InvShapes'
  <2>1. /\ UNCHANGED <<proc, store, flush, spooled, handed>>
        /\ DOMAIN scan' = Nodes
        /\ \A m \in Nodes \ {n} : scan'[m] = scan[m]
        /\ DOMAIN scan'[n] = DOMAIN scan[n]
    BY <1>2, PassScansScan
  <2> QED BY <1>0, <1>2, <2>1 DEF InvShapes, IndexVars, StoreShape
<1>3. ASSUME UNCHANGED IndexVars, NEW n \in Nodes, PassFails(n) \/ ShipReturns(n) PROVE InvShapes'
  BY <1>0, <1>3, PassEndsScan DEF InvShapes, IndexVars, StoreShape
<1>4. ASSUME UNCHANGED IndexVars, NEW r \in net, OnReport(r) PROVE InvShapes'
  <2>1. UNCHANGED <<proc, scan, flush, spooled, handed>> /\ StoreShape(store')
    BY <1>4, OnReportStore
  <2> QED BY <1>0, <1>4, <2>1 DEF InvShapes, IndexVars, StoreShape
<1>5. ASSUME UNCHANGED IndexVars,
             FlushRetains \/ FlushRetainsNodes \/ FlushPublishes \/ FlushStarts
      PROVE  InvShapes'
  <2>1. /\ UNCHANGED <<proc, scan, handed>>
        /\ StoreShape(store') /\ DOMAIN flush' = DOMAIN flush /\ DOMAIN spooled' = DOMAIN spooled
    BY <1>5, FlushStore
  <2> QED BY <1>0, <1>5, <2>1 DEF InvShapes, IndexVars, StoreShape
<1>6. ASSUME UNCHANGED IndexVars, FlushWritesBuilds PROVE InvShapes'
  <2>1. /\ UNCHANGED <<proc, scan, spooled>> /\ StoreShape(store')
        /\ DOMAIN flush' = DOMAIN flush /\ DOMAIN handed' = Digests
        /\ \A d \in Digests : DOMAIN handed'[d] = DOMAIN handed[d]
    BY <1>6, WritesBuildsStore
  <2> QED BY <1>0, <1>6, <2>1 DEF InvShapes, IndexVars, StoreShape
<1>7. ASSUME UNCHANGED IndexVars, NEW i \in Pids, ProcessWorks(i) \/ PidReused(i) PROVE InvShapes'
  BY <1>0, <1>7, ProcessesMove DEF InvShapes, IndexVars, StoreShape
<1>8. ASSUME UNCHANGED IndexVars, UNCHANGED <<proc, scan, net, store, flush, spooled, handed>>
      PROVE  InvShapes'
  BY <1>0, <1>8 DEF InvShapes, IndexVars, StoreShape
<1>9. ASSUME NEW p \in Pods, PodMoves(p) PROVE InvShapes'
  BY <1>0, <1>9, PodMovesState DEF InvShapes, StoreShape
<1> QED BY InvSteps, <1>1, <1>2, <1>3, <1>4, <1>5, <1>6, <1>7, <1>8, <1>9, Zenon

\* A cached reading stays one of the process or of one that had its pid before.
LEMMA CachesKept ==
  ASSUME InvShapes, Caches, InvNext
  PROVE  Caches'
<1>0. ASSUME UNCHANGED proc, NEW n \in Nodes, scan'[n].cache = scan[n].cache,
             NEW i \in DOMAIN scan[n].cache
      PROVE  CacheOk(n, i)'
  <2>1. CacheOk(n, i) BY DEF Caches
  <2> QED BY <1>0, <2>1 DEF CacheOk, PidsOn
<1>1. ASSUME UNCHANGED <<proc, scan>> PROVE Caches' BY <1>0, <1>1 DEF Caches
<1>2. ASSUME UNCHANGED proc, NEW n \in Nodes, \A m \in Nodes \ {n} : scan'[m] = scan[m],
             \A i \in DOMAIN scan'[n].cache : CacheOk(n, i)'
      PROVE  Caches'
  <2>1. ASSUME NEW m \in Nodes \ {n}, NEW i \in DOMAIN scan'[m].cache PROVE CacheOk(m, i)'
    BY <1>0, <1>2, <2>1
  <2> QED BY <1>2, <2>1 DEF Caches
<1>3. ASSUME NEW n \in Nodes, PassStarts(n) PROVE Caches'
  <2>1. UNCHANGED proc /\ scan'[n].cache = scan[n].cache
        /\ \A m \in Nodes \ {n} : scan'[m] = scan[m]
    BY <1>3, PassStartsScan
  <2> QED BY <1>0, <1>2, <2>1
<1>4. ASSUME NEW n \in Nodes, PassFails(n) \/ ShipReturns(n) PROVE Caches'
  <2>1. UNCHANGED proc /\ scan'[n].cache = scan[n].cache
        /\ \A m \in Nodes \ {n} : scan'[m] = scan[m]
    BY <1>4, PassEndsScan
  <2> QED BY <1>0, <1>2, <2>1
<1>5. ASSUME NEW n \in Nodes, PassScans(n) PROVE Caches'
  <2>1. PICK read \in [PidsOn(n) -> {"ok", "partial", "gone", "dropped"}] :
          /\ UNCHANGED proc /\ \A m \in Nodes \ {n} : scan'[m] = scan[m]
          /\ scan'[n].cache = CacheAfter(scan[n].scope, read, n, scan[n].pass + 1)
    BY <1>5, PassScansScan
  <2>2. \A i \in DOMAIN scan'[n].cache : CacheOk(n, i)' BY <2>1, CacheAfterOk
  <2> QED BY <1>2, <2>1, <2>2
<1>6. ASSUME NEW j \in Pids, ProcessWorks(j) \/ PidReused(j) PROVE Caches'
  <2>1. /\ scan' = scan /\ proc' \in [Pids -> [start : Nat, work : Nat]]
        /\ \A i \in Pids : \/ proc'[i].start = proc[i].start /\ proc'[i].work >= proc[i].work
                           \/ proc'[i].start > proc[i].start
    BY <1>6, ProcessesMove
  <2> SUFFICES ASSUME NEW n \in Nodes, NEW i \in DOMAIN scan[n].cache PROVE CacheOk(n, i)'
    BY <2>1 DEF Caches
  <2> DEFINE c == scan[n].cache[i]
  <2>2. CacheOk(n, i) BY DEF Caches
  <2>3. i \in Pids BY <2>2 DEF CacheOk, PidsOn
  <2>4. /\ c.start \in Nat /\ c.work \in Nat /\ c.start =< proc[i].start
        /\ c.start = proc[i].start => c.work =< proc[i].work
    BY <2>2 DEF CacheOk
  <2>5. /\ c.start =< proc'[i].start
        /\ c.start = proc'[i].start => c.work =< proc'[i].work
    BY <2>1, <2>3, <2>4 DEF InvShapes
  <2>6. (i \in PidsOn(n))' BY <2>2 DEF CacheOk, PidsOn
  <2>7. c = scan'[n].cache[i] BY <2>1
  <2> HIDE DEF c
  <2> QED BY ONLY <2>2, <2>5, <2>6, <2>7, Zenon DEF CacheOk, c
<1>7. ASSUME FlushRetains \/ FlushRetainsNodes \/ FlushPublishes \/ FlushStarts PROVE Caches'
  BY <1>1, <1>7, FlushStore
<1>8. ASSUME FlushWritesBuilds PROVE Caches' BY <1>1, <1>8, WritesBuildsStore
<1>9. ASSUME NEW r \in net, OnReport(r) PROVE Caches' BY <1>1, <1>9, OnReportStore
<1>10. ASSUME NEW p \in Pods, PodMoves(p) PROVE Caches' BY <1>1, <1>10, PodMovesState
<1> QED BY InvSteps, <1>1, <1>3, <1>4, <1>5, <1>6, <1>7, <1>8, <1>9, <1>10, Zenon

\* Reports that are posted are exact and stay within their scope.
LEMMA ReportsKept ==
  ASSUME InvShapes, Caches, DeltasExact, Scopes, InvNext
  PROVE  DeltasExact' /\ Scopes'
<1>1. ASSUME net' \subseteq net, \A n \in Nodes : scan'[n].scope \subseteq scan'[n].allowed
      PROVE  DeltasExact' /\ Scopes'
  BY <1>1 DEF DeltasExact, Scopes
<1>2. ASSUME net' \subseteq net, UNCHANGED scan PROVE DeltasExact' /\ Scopes'
  BY <1>1, <1>2 DEF Scopes
<1>3. ASSUME NEW n \in Nodes, PassStarts(n) PROVE DeltasExact' /\ Scopes'
  <2>1. net' = net /\ (\A m \in Nodes \ {n} : scan'[m] = scan[m])
        /\ scan'[n].scope \subseteq scan'[n].allowed
    BY <1>3, PassStartsScan
  <2> QED BY <1>1, <2>1 DEF Scopes
<1>4. ASSUME NEW n \in Nodes, PassFails(n) \/ ShipReturns(n) PROVE DeltasExact' /\ Scopes'
  <2>1. net' \subseteq net /\ (\A m \in Nodes \ {n} : scan'[m] = scan[m])
        /\ scan'[n].scope = scan[n].scope /\ scan'[n].allowed = scan[n].allowed
    BY <1>4, PassEndsScan
  <2> QED BY <1>1, <2>1 DEF Scopes
<1>5. ASSUME NEW n \in Nodes, PassScans(n) PROVE DeltasExact' /\ Scopes'
  <2>1. PICK read \in [PidsOn(n) -> {"ok", "partial", "gone", "dropped"}] :
          /\ net' = net \cup {Scan(n, read)}
          /\ \A m \in Nodes \ {n} : scan'[m] = scan[m]
          /\ scan'[n].scope = scan[n].scope /\ scan'[n].allowed = scan[n].allowed
    BY <1>5, PassScansScan
  <2>2. ASSUME NEW b \in Scan(n, read).bins
        PROVE  /\ b.pod \in Scan(n, read).allowed
               /\ b.delta # NoDelta => /\ b.truth >= 0 /\ b.delta.user = b.truth
                                       /\ b.delta.onCPU = b.truth \/ b.doubtful
    <3>1. Scan(n, read).allowed = scan[n].allowed BY ScanBins
    <3>2. PICK i \in PidsOn(n) : PodOf[i] \in scan[n].scope
                                /\ b = BinaryInfo(n, i, read[i], scan[n].pass + 1)
      BY ScanBins
    <3>3. read[i] \in {"ok", "partial", "gone", "dropped"} OBVIOUS
    <3>4. /\ b.pod = PodOf[i]
          /\ b.delta # NoDelta => /\ b.truth >= 0 /\ b.delta.user = b.truth
                                  /\ b.delta.onCPU = b.truth \/ b.doubtful
      BY <3>2, <3>3, BinaryExact
    <3> QED BY <3>1, <3>2, <3>4 DEF Scopes
  <2> QED BY <2>1, <2>2 DEF DeltasExact, Scopes
<1>6. ASSUME NEW r \in net, OnReport(r) PROVE DeltasExact' /\ Scopes' BY <1>2, <1>6, OnReportStore
<1>7. ASSUME FlushRetains \/ FlushRetainsNodes \/ FlushPublishes \/ FlushStarts
      PROVE  DeltasExact' /\ Scopes'
  BY <1>2, <1>7, FlushStore
<1>8. ASSUME FlushWritesBuilds PROVE DeltasExact' /\ Scopes' BY <1>2, <1>8, WritesBuildsStore
<1>9. ASSUME NEW i \in Pids, ProcessWorks(i) \/ PidReused(i) PROVE DeltasExact' /\ Scopes'
  BY <1>2, <1>9, ProcessesMove
<1>10. ASSUME NEW p \in Pods, PodMoves(p) PROVE DeltasExact' /\ Scopes'
  BY <1>2, <1>10, PodMovesState
<1>11. ASSUME UNCHANGED <<proc, scan, net, store, flush, spooled, handed>>
       PROVE  DeltasExact' /\ Scopes'
  BY <1>2, <1>11
<1> QED BY InvSteps, <1>3, <1>4, <1>5, <1>6, <1>7, <1>8, <1>9, <1>10, <1>11, Zenon

\* Between its retain and its publish a flush holds only keys that were live
\* since it began, whatever reports are served meanwhile.
LEMMA SupportKept ==
  ASSUME InvShapes, Support, InvNext, path = "inventory", UNCHANGED path
  PROVE  Support'
<1>1. ASSUME UNCHANGED <<index, store, flush, spooled>> PROVE Support'
  BY <1>1 DEF Support, StoreKeys, LiveKeys
<1>2. ASSUME UNCHANGED IndexVars, NEW r \in net, OnReport(r) PROVE Support'
  <2>1. UNCHANGED <<flush, spooled>> /\ StoreKeys(store') \subseteq StoreKeys(store) \cup LiveKeys(index)
    BY <1>2, OnReportStore
  <2>2. LiveKeys(index') = LiveKeys(index) BY <1>2 DEF IndexVars, LiveKeys
  <2> QED BY <2>1, <2>2 DEF Support
<1>3. ASSUME UNCHANGED IndexVars, FlushStarts PROVE Support'
  <2>1. /\ flush'.phase = "retain" /\ flush'.live = LiveKeys(index)
        /\ spooled'.keys = {} /\ spooled'.liveSince = LiveKeys(index) /\ index' = index
    BY <1>3 DEF FlushStarts, IndexVars
  <2> QED BY <2>1 DEF Support, LiveKeys
<1>4. ASSUME UNCHANGED IndexVars, FlushRetains PROVE Support'
  <2>1. /\ StoreKeys(store') \subseteq flush.live /\ flush'.phase = "nodes"
        /\ spooled' = spooled /\ flush.phase = "retain" /\ index' = index
    BY <1>4, FlushStore DEF FlushRetains, IndexVars
  <2> QED BY <2>1 DEF Support, LiveKeys
<1>5. ASSUME UNCHANGED IndexVars, FlushRetainsNodes PROVE Support'
  <2>1. /\ StoreKeys(store') \subseteq StoreKeys(store) /\ flush'.phase = "publish"
        /\ spooled' = spooled /\ flush.phase = "nodes" /\ index' = index
    BY <1>5, FlushStore DEF FlushRetainsNodes, IndexVars
  <2> QED BY <2>1 DEF Support, LiveKeys
<1>6. ASSUME UNCHANGED IndexVars, FlushPublishes PROVE Support'
  <2>1. /\ spooled'.keys \subseteq StoreKeys(store) /\ flush'.phase = "builds"
        /\ spooled'.liveSince = spooled.liveSince /\ flush.phase = "publish" /\ index' = index
    BY <1>6, FlushStore DEF FlushPublishes, IndexVars
  <2> QED BY <2>1 DEF Support, LiveKeys
<1>7. ASSUME UNCHANGED IndexVars, FlushWritesBuilds PROVE Support'
  <2>1. flush'.phase = "idle" /\ spooled' = spooled BY <1>7, WritesBuildsStore
  <2> QED BY <2>1 DEF Support
<1>8. ASSUME NEW p \in Pods, PodMoves(p) PROVE Support'
  <2>1. /\ UNCHANGED <<store, flush>> /\ spooled'.keys = spooled.keys
        /\ spooled'.liveSince = spooled.liveSince \cup LiveKeys(index')
    BY <1>8, PodMovesState
  <2>2. StoreKeys(store') = StoreKeys(store) BY <2>1
  <2> QED BY <2>1, <2>2 DEF Support
<1>9. ASSUME UNCHANGED IndexVars, NEW n \in Nodes,
             PassStarts(n) \/ PassScans(n) \/ PassFails(n) \/ ShipReturns(n)
      PROVE  Support'
  BY <1>1, <1>9 DEF PassStarts, PassScans, PassFails, ShipReturns, IndexVars
<1>10. ASSUME UNCHANGED IndexVars, NEW i \in Pids, ProcessWorks(i) \/ PidReused(i) PROVE Support'
  BY <1>1, <1>10, ProcessesMove DEF IndexVars
<1>11. ASSUME UNCHANGED IndexVars, UNCHANGED <<proc, scan, net, store, flush, spooled, handed>>
       PROVE  Support'
  BY <1>1, <1>11 DEF IndexVars
<1> QED BY InvSteps, <1>2, <1>3, <1>4, <1>5, <1>6, <1>7, <1>8, <1>9, <1>10, <1>11, Zenon

\* A build marked as written is held, with the facts that the spool was given.
LEMMA HandedKept ==
  ASSUME InvShapes, Handed, InvNext
  PROVE  Handed'
<1>0. Digests' = Digests BY DEF Digests
<1>1. ASSUME UNCHANGED <<store, handed>> PROVE Handed' BY <1>0, <1>1 DEF Handed
<1>2. ASSUME NEW r \in net, OnReport(r) PROVE Handed'
  <2>1. /\ handed' = handed /\ store'.written = store.written
        /\ DOMAIN store'.builds \subseteq DOMAIN store.builds \cup Digests
        /\ \A d \in DOMAIN store.builds :
             d \in DOMAIN store'.builds /\ store'.builds[d] = store.builds[d]
    BY <1>2, OnReportStore
  <2> QED BY <1>0, <2>1 DEF Handed
<1>3. ASSUME FlushRetains \/ FlushRetainsNodes \/ FlushPublishes \/ FlushStarts PROVE Handed'
  <2>1. /\ handed' = handed /\ DOMAIN store'.builds \subseteq DOMAIN store.builds
        /\ \A d \in DOMAIN store'.builds : store'.builds[d] = store.builds[d]
        /\ store'.written = store.written \ (DOMAIN store.builds \ DOMAIN store'.builds)
    BY <1>3, FlushStore
  <2> QED BY <1>0, <2>1 DEF Handed
<1>4. ASSUME FlushWritesBuilds PROVE Handed'
  <2>1. PICK ok \in SUBSET PendingBuilds(store) :
          /\ store'.written = store.written \cup ok /\ store'.builds = store.builds
          /\ \A d \in Digests :
               handed'[d].facts = IF d \in ok THEN store.builds[d] ELSE handed[d].facts
    BY <1>4, WritesBuildsStore
  <2>2. ok \subseteq DOMAIN store.builds BY DEF PendingBuilds
  <2> QED BY <1>0, <2>1, <2>2 DEF Handed
<1>5. ASSUME NEW p \in Pods, PodMoves(p) PROVE Handed'
  <2>1. store' = store /\ \A d \in Digests : handed'[d].facts = handed[d].facts
    BY <1>5, PodMovesState
  <2> QED BY <1>0, <2>1 DEF Handed
<1>6. ASSUME NEW n \in Nodes, PassStarts(n) \/ PassScans(n) \/ PassFails(n) \/ ShipReturns(n)
      PROVE  Handed'
  BY <1>1, <1>6 DEF PassStarts, PassScans, PassFails, ShipReturns
<1>7. ASSUME NEW i \in Pids, ProcessWorks(i) \/ PidReused(i) PROVE Handed'
  BY <1>1, <1>7, ProcessesMove
<1>8. ASSUME UNCHANGED <<proc, scan, net, store, flush, spooled, handed>> PROVE Handed'
  BY <1>1, <1>8
<1> QED BY InvSteps, <1>2, <1>3, <1>4, <1>5, <1>6, <1>7, <1>8, Zenon

-----------------------------------------------------------------------------
\* The paths together.

\* Both paths start within the invariant.
LEMMA InitIInv == Init => IInv
<1> SUFFICES ASSUME Init PROVE IInv OBVIOUS
<1> USE StartsAssumption, IntervalsAssumption
<1>1. index \subseteq Pods /\ profilable = Pods BY DEF Init, InvInit, IndexInit
<1>2. DOMAIN Empty = {} BY DEF Empty
<1>3. InvShapes
  <2>1. \A n \in Nodes : DOMAIN scan[n] = {"phase", "scope", "allowed", "pass", "cache"}
    BY DEF Init, InvInit
  <2>2. StoreShape(store) BY DEF Init, InvInit, NewStore, StoreShape
  <2>3. \A d \in Digests : DOMAIN handed[d] = {"facts", "again", "running"} BY DEF Init, InvInit
  <2> QED BY <1>1, <2>1, <2>2, <2>3 DEF Init, InvInit, InvShapes
<1>4. Caches /\ DeltasExact /\ Scopes
  BY <1>2 DEF Init, InvInit, Caches, DeltasExact, Scopes, DenyAll
<1>5. Support BY DEF Init, InvInit, Support
<1>6. Handed
  <2>1. store.builds = Empty /\ store.written = {} BY DEF Init, InvInit, NewStore
  <2> QED BY <1>2, <2>1 DEF Handed
<1>7. ProfShapes BY DEF Init, ProfInit, ProfShapes, Never
<1>8. Rotation BY DEF Init, ProfInit, Rotation, KeysFollowRotation
<1>9. Refreshed BY DEF Init, ProfInit, Refreshed, Timely, NoProfile
<1> QED BY <1>3, <1>4, <1>5, <1>6, <1>7, <1>8, <1>9 DEF IInv, InvIInv, ProfIInv

\* A step of the inventory path leaves the profiling path alone.
LEMMA ProfUntouched ==
  ASSUME ProfIInv, UNCHANGED <<profVars, profilable>>
  PROVE  ProfIInv'
<1>1. ProfShapes' BY DEF ProfIInv, ProfShapes, profVars
<1>2. Rotation' BY DEF ProfIInv, Rotation, KeysFollowRotation, profVars
<1>3. Refreshed' BY DEF ProfIInv, Refreshed, Timely, profVars
<1> QED BY <1>1, <1>2, <1>3 DEF ProfIInv

\* A step that leaves the inventory path alone keeps its part, if no flush is under
\* way or the index stays as it is.
LEMMA InvUntouched ==
  ASSUME InvIInv, UNCHANGED <<path, invVars>>, index' \subseteq Pods,
         path = "profiling" \/ UNCHANGED index
  PROVE  InvIInv'
<1>0. Digests' = Digests BY DEF Digests
<1>1. UNCHANGED <<proc, scan, net, store, flush, spooled, handed>> BY DEF invVars
<1>2. InvShapes' BY <1>0, <1>1 DEF InvIInv, InvShapes, StoreShape
<1>3. Caches' BY <1>1 DEF InvIInv, Caches, CacheOk, PidsOn
<1>4. DeltasExact' /\ Scopes' BY <1>1 DEF InvIInv, DeltasExact, Scopes
<1>5. Support' BY <1>1 DEF InvIInv, Support, LiveKeys, StoreKeys
<1>6. Handed' BY <1>0, <1>1 DEF InvIInv, Handed
<1> QED BY <1>2, <1>3, <1>4, <1>5, <1>6 DEF InvIInv

\* Every step of either path keeps the invariant.
LEMMA Inductive == IInv /\ [Next]_vars => IInv'
<1> SUFFICES ASSUME IInv, [Next]_vars PROVE IInv' OBVIOUS
<1>1. CASE path = "inventory" /\ InvNext /\ UNCHANGED <<path, profVars>>
  <2>1. UNCHANGED profilable BY <1>1 DEF InvNext, PodMoves, IndexMoves, IndexVars
  <2>2. ProfIInv' BY <1>1, <2>1, ProfUntouched DEF IInv
  <2>3. InvIInv'
    BY <1>1, InvShapesKept, CachesKept, ReportsKept, SupportKept, HandedKept DEF IInv, InvIInv
  <2> QED BY <2>2, <2>3 DEF IInv
<1>2. CASE path = "profiling" /\ ProfNext /\ UNCHANGED <<path, invVars>>
  <2>1. index \subseteq Pods BY DEF IInv, InvIInv, InvShapes
  <2>2. ProfIInv'
    BY <1>2, <2>1, ProfShapesKept, ProfRotation, ProfRefreshed DEF IInv, ProfIInv
  <2>3. index' \subseteq Pods
    <3>1. ASSUME NEW p \in Pods, PodChanges(p) PROVE index' \subseteq Pods
      BY <2>1, <3>1 DEF PodChanges, IndexMoves, ProfilingMoves
    <3>2. ASSUME NEW g, Ships(g) \/ ServedLate(g) PROVE index' = index
      BY <3>2 DEF Ships, ServedLate, IndexVars
    <3>3. ASSUME OthersAsk \/ KeyRotates \/ UsageFlushed \/ WindowEnds \/ FetchesTargets
                 \/ FetchesScope \/ ProcessesWindow \/ WindowDone \/ CaptureStops
          PROVE  index' = index
      BY <3>3 DEF OthersAsk, KeyRotates, UsageFlushed, WindowEnds, FetchesTargets, FetchesScope,
                  ProcessesWindow, WindowDone, CaptureStops, IndexVars
    <3> QED BY <1>2, <2>1, <3>1, <3>2, <3>3 DEF ProfNext
  <2>4. InvIInv' BY <1>2, <2>3, InvUntouched DEF IInv
  <2> QED BY <2>2, <2>4 DEF IInv
<1>3. CASE UNCHANGED vars
  <2>1. UNCHANGED <<path, index, profilable, invVars, profVars>> BY <1>3 DEF vars, IndexVars
  <2>2. ProfIInv' BY <2>1, ProfUntouched DEF IInv
  <2>3. index' \subseteq Pods BY <2>1 DEF IInv, InvIInv, InvShapes
  <2>4. InvIInv' BY <2>1, <2>3, InvUntouched DEF IInv
  <2> QED BY <2>2, <2>4 DEF IInv
<1> QED BY <1>1, <1>2, <1>3 DEF Next

\* The invariant holds in every reachable state.
LEMMA Invariant == Spec => []IInv
BY InitIInv, Inductive, PTL DEF Spec

\* A counter difference that leaves a node is the work of one process between two
\* of its readings, whatever pids are reused and whatever files cannot be read.
\* About counterCache.delta and endPass.
THEOREM DeltasAreExact == Spec => []DeltasExact
<1>1. IInv => DeltasExact BY DEF IInv, InvIInv
<1> QED BY <1>1, Invariant, PTL

\* A flush publishes no key that was not live at some time since it began, and a
\* build marked as written is one the store holds, handed over with the facts it
\* holds, however reports, pod events and failed writes interleave with the flush.
\* About flushInventory, Ingest, Retain, RetainNodes and MarkBuildWritten.
THEOREM FlushHonest == Spec => []FlushIsHonest
<1>1. IInv => FlushIsHonest BY DEF IInv, InvIInv, Support, Handed, FlushIsHonest
<1> QED BY <1>1, Invariant, PTL

\* A rotation of the cluster's signing keys locks nodes out for no longer than the
\* floor between two fetches, unless a fetch failed.  About CachingKeySource.Key.
THEOREM KeysFollow == Spec => []KeysFollowRotation
<1>1. IInv => KeysFollowRotation BY DEF IInv, ProfIInv, Rotation
<1> QED BY <1>1, Invariant, PTL

\* Both paths fail closed: a report and a profile show only pods that were admitted
\* when their pass or window asked, and a profile of a pod that was opted out is
\* captured within one refresh interval of the opt-out, unless a query failed.
\* About scanScope, the window's scope and the refresh of the target set.
THEOREM AdmissionIsHeeded == Spec => []AdmissionHeeded
<1>1. IInv => AdmissionHeeded
  BY DEF IInv, InvIInv, ProfIInv, Scopes, Refreshed, Timely, AdmissionHeeded
<1> QED BY <1>1, Invariant, PTL
=============================================================================
