----------------------------- MODULE MCController -----------------------------
(***************************************************************************)
(* Two kinds of the flush, and the names of the spool's files over short   *)
(* components: three characters are kept of a component, two of a digest.  *)
(***************************************************************************)
EXTENDS Controller

\* Names of the cluster: short ones, ones with hyphens, ones cut short, and ones
\* that have to be replaced.
Names == {<<"a">>, <<"b">>, <<"a", "b">>, <<"a", "-", "b">>, <<"b", "-", "a">>,
          <<"x", "x", "x", "a">>, <<"x", "x", "x", "b">>, <<>>, <<".", ".">>, <<"a", "/", ".", ".">>}
Digests == {<<"x", ":", "a">>, <<"x", ":", "a", "b", "0">>, <<"x", ":", "b">>}

MCWindows == [start : Instants, seconds : Lengths]
MCRecords == [window : MCWindows]
Kills ==
  [finishedAt : Instants, namespace : Names, pod : Names, container : {<<"a">>, <<"b">>},
   restartCount : {0, 1}]
Captures ==
  [namespace : Names, workload : Names, container : {<<"a">>, <<"b">>}, imageDigest : Digests,
   captureStart : {0}, captureEnd : Instants]

Files ==
  UNION {Writes(k, [window : MCWindows, digest : Digests]) : k \in UNION {Range(f.run) : f \in Range(flushers)}}
  \cup WriteUsageSnapshot(MCRecords) \cup WriteClosedWindows(MCRecords)
  \cup WriteNetworkWindows(MCRecords)
  \cup UNION {WriteOOMKill(e) : e \in Kills}
  \cup UNION {WriteProfile(p) \cup WritePulledProfile(p) : p \in Captures}

\* The payloads of one file name agree on what Of says of them.
AgreeOn(files, Of(_)) ==
  Cardinality({f.name : f \in files}) = Cardinality({<<f.name, Of(f)>> : f \in files})

\* A name that fileToken keeps as it is, and that no hyphen divides.
Whole(s) == fileToken(s) = s /\ "-" \notin Range(s)

(***************************************************************************)
(* ADR 0003 and 0023: a payload supersedes its predecessor under one key.  *)
(* Whatever the cluster's names hold, payloads of one file are of one kind *)
(* and of one window, build or capture; and they are of one key when their *)
(* names are whole.  (A longer name is cut, and a hyphen may belong to     *)
(* either of two names: such keys can share a file, see OneKeyPerFile.)    *)
(* No name brings a separator into a file's.  And the startup read takes a *)
(* file for the open window of the kind that wrote it, and no other file   *)
(* for any window.  About fileToken, shortDigest, the Write functions,     *)
(* RecoverOpenWindows and recoverJournals.  File names do not change, so   *)
(* it is stated at the start.                                              *)
(***************************************************************************)
NamesApart ==
  Init =>
    LET files == Files IN
    /\ AgreeOn(files, LAMBDA f : <<f.kind, f.at>>)
    /\ AgreeOn({f \in files : \A i \in DOMAIN f.names : Whole(f.names[i])}, LAMBDA f : f.names)
    /\ \A f \in files :
         /\ "/" \notin Range(f.name)
         /\ \A now \in Instants :
              RecoverOpenWindows(f.name, now) \cup recoverJournals(f.name, now) =
                {<<f.kind, f.at>> : k \in {w \in MCWindows :
                   /\ f.kind \in DOMAIN journalPrefixes \cup {"usage_snapshot"}
                   /\ f.at = windowId(w) /\ w.start + w.seconds > now}}

(***************************************************************************)
(* "The filename carries the whole natural key" (WriteProfile): payloads   *)
(* of one file are of one key.  It does not hold: two workloads that agree *)
(* in the characters fileToken keeps have one file, and so have workload a *)
(* of namespace a-b and workload b-a of namespace a.                       *)
(***************************************************************************)
OneKeyPerFile == Init => AgreeOn(Files, LAMBDA f : <<f.kind, f.at, f.names>>)
=============================================================================
