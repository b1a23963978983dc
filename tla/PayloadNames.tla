---------------------------- MODULE PayloadNames ----------------------------
(***************************************************************************)
(* The writers of internal/sink/spool.go: which payloads a call writes and *)
(* under which names, and which names the startup read takes for a window. *)
(* A string is a sequence of characters; a fixed word is one of them.      *)
(***************************************************************************)
EXTENDS Integers, FiniteSets, SequencesExt, TLC

CONSTANTS fileTokenMax,   \* characters kept of one component
          shortDigestLen, \* hex characters kept of a digest
          Instants,       \* window starts and capture times, in seconds
          Lengths         \* window lengths, in seconds

Hex == {"a", "b", "0"}
Plain == Hex \cup {"x", "-"}
Least(m, n) == IF m < n THEN m ELSE n

\* %d, and the components of a name one after the other.
Dec(n) == <<ToString(n)>>
Hyphenated(parts) ==
  FlattenSeq([i \in 1 .. Len(parts) |-> IF i = 1 THEN parts[i] ELSE <<"-">> \o parts[i]])

\* A component keeps its plain characters and its dots, up to the bound; one of
\* dots alone, or of nothing, is replaced.
fileToken(s) ==
  LET kept == [i \in 1 .. Least(Len(s), fileTokenMax) |->
                 IF s[i] \in Plain \cup {"."} THEN s[i] ELSE "-"]
  IN  IF \A i \in DOMAIN kept : s[i] = "." THEN <<"unnamed">> ELSE kept

\* The first hex characters behind the algorithm.
shortDigest(d) ==
  LET colons == {i \in DOMAIN d : d[i] = ":"}
      behind == SelectSeq(SubSeq(d, 1 + Max(colons \cup {0}), Len(d)), LAMBDA c : c \in Hex)
  IN  IF behind = <<>> THEN <<"nodigest">>
      ELSE SubSeq(behind, 1, Least(Len(behind), shortDigestLen))

digestFileToken(d) == [i \in DOMAIN d |-> IF d[i] \in Plain THEN d[i] ELSE "-"]

-----------------------------------------------------------------------------
\* One file: its kind, its name, and the natural key whose payloads it supersedes:
\* the names the cluster gives, and the instants, counters and digests.
KeyedPayload(kind, name, names, at) ==
  [kind |-> kind, name |-> name \o <<".json">>, names |-> names, at |-> at]
Payload(kind, name, at) == KeyedPayload(kind, name, <<>>, at)

groupByWindow(records) == {r.window : r \in records}
windowTail(k) == Hyphenated(<<Dec(k.start), Dec(k.seconds)>>)
windowId(k) == <<Dec(k.start), Dec(k.seconds)>>

usageNamePrefix == <<"usage", "-">>
usageName(k) == usageNamePrefix \o windowTail(k)

journalPrefixes ==
  [container_restarts |-> <<"restarts", "-">>,
   pod_disruptions |-> <<"disruptions", "-">>,
   node_lifecycle |-> <<"node", "-", "lifecycle", "-">>,
   job_runs |-> <<"job", "-", "runs", "-">>,
   goroutine_counts |-> <<"goroutine", "-", "counts", "-">>,
   agent_states |-> <<"agent", "-", "states", "-">>,
   agent_counters |-> <<"agent", "-", "counters", "-">>]

journalWindowName(prefix, k) == prefix \o windowTail(k)

JournalFiles(kind, records) ==
  {Payload(kind, journalWindowName(journalPrefixes[kind], k), windowId(k))
     : k \in groupByWindow(records)}

\* A window of no records has no file.  (UsageWindows has the snapshot that a
\* closed window removes.)
WriteUsageSnapshot(records) ==
  {Payload("usage_snapshot", usageName(k) \o <<".snapshot">>, windowId(k))
     : k \in groupByWindow(records)}
WriteClosedWindows(records) ==
  {Payload("usage_window", usageName(k), windowId(k)) : k \in groupByWindow(records)}
WriteNetworkWindows(records) ==
  {Payload("network_window", <<"network", "-">> \o windowTail(k), windowId(k))
     : k \in groupByWindow(records)}
WriteContainerRestarts(records) == JournalFiles("container_restarts", records)
WritePodDisruptions(records) == JournalFiles("pod_disruptions", records)
WriteAgentStates(records) == JournalFiles("agent_states", records)
WriteAgentCounters(records) == JournalFiles("agent_counters", records)
WriteNodeLifecycle(records) == JournalFiles("node_lifecycle", records)
WriteJobRuns(records) == JournalFiles("job_runs", records)
WriteGoroutineCounts(records) == JournalFiles("goroutine_counts", records)

\* One file of the kind, written also when it has no records.
WriteCollectionCoverage == {Payload("collection_coverage", <<"collection", "-", "coverage">>, <<>>)}
WriteRestartCounters == {Payload("restart_counters", <<"restart", "-", "counters">>, <<>>)}
WriteGoInventory == {Payload("go_inventory", <<"go", "-", "inventory">>, <<>>)}
WriteProcessPeaks == {Payload("process_peaks", <<"process", "-", "peaks">>, <<>>)}
WriteProcessCounters == {Payload("process_counters", <<"process", "-", "counters">>, <<>>)}
WriteListeningPorts == {Payload("listening_ports", <<"listening", "-", "ports">>, <<>>)}
WriteWorkloadMetadata == {Payload("workload_metadata", <<"workload", "-", "metadata">>, <<>>)}
WriteNodeMetadata == {Payload("node_metadata", <<"node", "-", "metadata">>, <<>>)}
WriteWorkloadRevisions == {Payload("workload_revisions", <<"workload", "-", "revisions">>, <<>>)}
WriteWorkloadPolicy == {Payload("workload_policy", <<"workload", "-", "policy">>, <<>>)}
WriteClusterPolicy == {Payload("cluster_policy", <<"cluster", "-", "policy">>, <<>>)}

\* One file per build; a build without a digest is refused.
WriteGoBuild(d) ==
  IF d = <<>> THEN {}
  ELSE {Payload("go_build", <<"go", "-", "build", "-">> \o digestFileToken(d), <<d>>)}

\* One file per event and per capture, named by its natural key.
WriteOOMKill(e) ==
  {KeyedPayload("oom_kill",
                Hyphenated(<<<<"oom">>, Dec(e.finishedAt), fileToken(e.namespace),
                             fileToken(e.pod), fileToken(e.container), Dec(e.restartCount)>>),
                <<e.namespace, e.pod, e.container>>, <<e.finishedAt, e.restartCount>>)}

profilePayload(kind, name, p) ==
  KeyedPayload(kind, name, <<p.namespace, p.workload, p.container>>,
               <<p.imageDigest, p.captureStart, p.captureEnd>>)
profileName(word, p) ==
  Hyphenated(<<<<word>>, fileToken(p.namespace), fileToken(p.workload), fileToken(p.container),
               shortDigest(p.imageDigest), Dec(p.captureStart), Dec(p.captureEnd)>>)

\* Fault, not the code: the name as it was before ADR 0023, without the digest.
WriteProfileUndigested(p) ==
  {profilePayload("ebpf_profile",
                  Hyphenated(<<<<"profile">>, fileToken(p.namespace), fileToken(p.workload),
                               fileToken(p.container), Dec(p.captureStart), Dec(p.captureEnd)>>),
                  p)}

WriteProfile(p) == {profilePayload("ebpf_profile", profileName("profile", p), p)}
WritePulledProfile(p) == {profilePayload("pprof_profile", profileName("pprof", p), p)}

-----------------------------------------------------------------------------
\* The inverse of usageName and journalWindowName: the window of a name under a
\* prefix, or none.
parseWindowName(name, prefix) ==
  {k \in [start : Instants, seconds : Lengths \ {0}] : name = prefix \o windowTail(k)}

\* Which windows the startup read takes a file for, by its name alone: an open
\* one of usage, or of the journal whose prefix it has.
RecoverOpenWindows(name, now) ==
  IF Len(name) > 2 /\ SubSeq(name, Len(name) - 1, Len(name)) = <<".snapshot", ".json">>
  THEN {<<"usage_snapshot", windowId(k)>> :
          k \in {w \in parseWindowName(SubSeq(name, 1, Len(name) - 2), usageNamePrefix) :
                   w.start + w.seconds > now}}
  ELSE {}

recoverJournals(name, now) ==
  UNION {{<<kind, windowId(k)>> :
            k \in {w \in parseWindowName(Front(name), journalPrefixes[kind]) :
                     w.start + w.seconds > now}}
         : kind \in {j \in DOMAIN journalPrefixes : IsPrefix(journalPrefixes[j], name)}}
=============================================================================
