------------------------------- MODULE Shipper -------------------------------
(***************************************************************************)
(* The shipper (internal/shipper/shipper.go): one goroutine that offers    *)
(* the spool's payloads to the backend, oldest first, one request at a     *)
(* time, and deletes a file only after a 2xx.                              *)
(*                                                                         *)
(* The backend is external: it upserts by natural key, last write wins,    *)
(* and payloads carry no ordering field.  A request the shipper gave up on *)
(* may still reach it later.                                               *)
(***************************************************************************)
EXTENDS SpoolDir

CONSTANTS NoKey,     \* the key of no request
          TooLarge   \* versions whose bytes are past MaxPayloadBytes

ASSUME ShipperAssumption == /\ NoKey \notin Keys
                            /\ TooLarge \subseteq Nat

VARIABLES pc,        \* "round", "posting" a request, or about to "remove"
          queue,     \* <<key, mtime>> this round has yet to offer
          cur,       \* the file being delivered, from its open descriptor
          answer,    \* the backend's answer to the request in flight
          held,      \* key -> the file this process will not offer again
          halted,    \* an identity failure stopped shipping
          late,      \* <<key, version>> of requests given up on, still out
          backend    \* key -> the version the backend holds

shipperVars == <<pc, queue, cur, answer, held, halted, late, backend>>

Request == [key : Keys \cup {NoKey}, ver : Versions, ino : Inodes \cup {NoInode}]
NoRequest == [key |-> NoKey, ver |-> 0, ino |-> NoInode]

ShipperTypeOK ==
  /\ pc \in {"round", "posting", "remove"}
  /\ queue \in SUBSET (Keys \X Versions)
  /\ cur \in Request
  /\ pc # "round" => cur.key \in Keys
  /\ answer \in {"none", "2xx", "4xx", "auth", "other"}
  /\ held \in [Keys -> File]
  /\ halted \in BOOLEAN
  /\ late \in SUBSET (Keys \X Versions)
  /\ backend \in [Keys -> Versions]

ShipperInit ==
  /\ pc = "round"
  /\ queue = {}
  /\ cur = NoRequest
  /\ answer = "none"
  /\ held = [k \in Keys |-> Absent]
  /\ halted = FALSE
  /\ late = {}
  /\ backend = [k \in Keys |-> 0]

-----------------------------------------------------------------------------
(* Round and pending.                                                      *)

Held(k) == held[k].ver # 0 /\ Present(k) /\ SameFile(held[k], files[k])

\* Fault, not the code: a mark stands for a name, not for a file.
RoundHoldsNames ==
  /\ pc = "round" /\ queue = {}
  /\ ~halted
  /\ \E k \in Keys : Present(k)
  /\ queue' = {<<k, files[k].ver>> : k \in {j \in Keys : Present(j) /\ held[j].ver = 0}}
  /\ UNCHANGED <<dirVars, pc, cur, answer, held, halted, late, backend>>

\* A round begins (Run's timer, or FinalRound): list what is not held, and
\* forget the marks on files that are gone or replaced.
StartRound ==
  /\ pc = "round" /\ queue = {}
  /\ ~halted
  /\ \E k \in Keys : Present(k)
  /\ queue' = {<<k, files[k].ver>> : k \in {j \in Keys : Present(j) /\ ~Held(j)}}
  /\ held' = [k \in Keys |-> IF Held(k) THEN held[k] ELSE Absent]
  /\ UNCHANGED <<dirVars, pc, cur, answer, halted, late, backend>>

\* The context was cancelled between two deliveries, by shutdown or by the
\* final round's budget.
CutRound ==
  /\ pc = "round" /\ queue # {}
  /\ queue' = {}
  /\ UNCHANGED <<dirVars, pc, cur, answer, held, halted, late, backend>>

\* The oldest listed payload is offered next.
AtHead(k, m) ==
  /\ pc = "round"
  /\ <<k, m>> \in queue
  /\ \A q \in queue : m =< q[2]

-----------------------------------------------------------------------------
(* deliver: read, then post.                                               *)

\* The name is gone since the listing: the read fails, the round goes on.
ReadFails(k, m) ==
  /\ AtHead(k, m)
  /\ ~Present(k)
  /\ queue' = queue \ {<<k, m>>}
  /\ UNCHANGED <<dirVars, pc, cur, answer, held, halted, late, backend>>

HoldTooLarge(k, m) ==
  /\ AtHead(k, m)
  /\ Present(k) /\ files[k].ver \in TooLarge
  /\ held' = [held EXCEPT ![k] = files[k]]
  /\ queue' = queue \ {<<k, m>>}
  /\ UNCHANGED <<dirVars, pc, cur, answer, halted, late, backend>>

\* Fault, not the code: a body that timed out is sent again instead of the file.
PostResends(k, m) ==
  /\ AtHead(k, m)
  /\ Present(k) /\ files[k].ver \notin TooLarge
  /\ \E v \in {files[k].ver} \cup {u \in Versions : <<k, u>> \in late} :
       /\ cur' = [key |-> k, ver |-> v,
                  ino |-> IF v = files[k].ver THEN files[k].ino ELSE NoInode]
       /\ late' = late \ {<<k, v>>}
  /\ pc' = "posting"
  /\ answer' = "none"
  /\ queue' = queue \ {<<k, m>>}
  /\ UNCHANGED <<dirVars, held, halted, backend>>

\* The bytes and the identity both come from the open descriptor, so they name
\* the file as it is now, which may be newer than the one listed.
Post(k, m) ==
  /\ AtHead(k, m)
  /\ Present(k) /\ files[k].ver \notin TooLarge
  /\ cur' = [key |-> k, ver |-> files[k].ver, ino |-> files[k].ino]
  /\ pc' = "posting"
  /\ answer' = "none"
  /\ queue' = queue \ {<<k, m>>}
  /\ UNCHANGED <<dirVars, held, halted, late, backend>>

\* The request failed: a timeout, a broken connection, a cancelled context.
\* The round stops and the file stays.  The request, if the backend has not
\* answered it, may still be on its way.
PostFails ==
  /\ pc = "posting"
  /\ late' = IF answer = "none" THEN late \cup {<<cur.key, cur.ver>>} ELSE late
  /\ pc' = "round"
  /\ queue' = {}
  /\ cur' = NoRequest
  /\ answer' = "none"
  /\ UNCHANGED <<dirVars, held, halted, backend>>

-----------------------------------------------------------------------------
(* The backend, external.                                                  *)

BackendTakes ==
  /\ pc = "posting" /\ answer = "none"
  /\ backend' = [backend EXCEPT ![cur.key] = cur.ver]
  /\ answer' = "2xx"
  /\ UNCHANGED <<dirVars, pc, queue, cur, held, halted, late>>

BackendRefuses ==
  /\ pc = "posting" /\ answer = "none"
  /\ answer' \in {"4xx", "auth", "other"}
  /\ UNCHANGED <<dirVars, pc, queue, cur, held, halted, late, backend>>

\* A request nobody waits for any more reaches the backend.
LateArrival(k, v) ==
  /\ <<k, v>> \in late
  /\ backend' = [backend EXCEPT ![k] = v]
  /\ late' = late \ {<<k, v>>}
  /\ UNCHANGED <<dirVars, pc, queue, cur, answer, held, halted>>

-----------------------------------------------------------------------------
(* What the shipper does with an answer.                                   *)

\* Fault, not the code: the delete is conditioned on the name alone.
AcknowledgedByName ==
  /\ pc = "posting" /\ answer = "2xx"
  /\ Settle(cur.key, cur.ver, "accepted")
  /\ answer' = "none"
  /\ IF Present(cur.key) THEN pc' = "remove" /\ UNCHANGED cur
                         ELSE pc' = "round" /\ cur' = NoRequest
  /\ UNCHANGED <<files, tmp, clock, queue, held, halted, late, backend>>

\* acknowledged, up to its Stat: gone or replaced, and the round goes on;
\* the same file, and it is about to be removed.
Acknowledged ==
  /\ pc = "posting" /\ answer = "2xx"
  /\ Settle(cur.key, cur.ver, "accepted")
  /\ answer' = "none"
  /\ IF Present(cur.key) /\ SameFile(files[cur.key], cur)
       THEN pc' = "remove" /\ UNCHANGED cur
       ELSE pc' = "round" /\ cur' = NoRequest
  /\ UNCHANGED <<files, tmp, clock, queue, held, halted, late, backend>>

\* acknowledged, its Remove: by name, a separate system call from the Stat.
RemoveDelivered ==
  /\ pc = "remove"
  /\ Unlink(cur.key)
  /\ pc' = "round"
  /\ cur' = NoRequest
  /\ UNCHANGED <<tmp, clock, fate, queue, answer, held, halted, late, backend>>

RemoveFails ==
  /\ pc = "remove"
  /\ pc' = "round"
  /\ cur' = NoRequest
  /\ UNCHANGED <<dirVars, queue, answer, held, halted, late, backend>>

\* Fault, not the code: the mark is put on whatever holds the name now.
HoldsNewest ==
  /\ pc = "posting" /\ answer = "4xx"
  /\ held' = [held EXCEPT ![cur.key] = [ver |-> cur.ver, ino |-> files[cur.key].ino]]
  /\ pc' = "round" /\ cur' = NoRequest /\ answer' = "none"
  /\ UNCHANGED <<dirVars, queue, halted, late, backend>>

\* 400 and 413: permanent for these bytes.
Hold ==
  /\ pc = "posting" /\ answer = "4xx"
  /\ held' = [held EXCEPT ![cur.key] = [ver |-> cur.ver, ino |-> cur.ino]]
  /\ pc' = "round" /\ cur' = NoRequest /\ answer' = "none"
  /\ UNCHANGED <<dirVars, queue, halted, late, backend>>

\* 401 and 403: nothing retries into a rejected credential.
Halt ==
  /\ pc = "posting" /\ answer = "auth"
  /\ halted' = TRUE
  /\ queue' = {}
  /\ pc' = "round" /\ cur' = NoRequest /\ answer' = "none"
  /\ UNCHANGED <<dirVars, held, late, backend>>

\* Fault, not the code: a status that is not an error counts as delivered.
DeferAcknowledges ==
  /\ pc = "posting" /\ answer = "other"
  /\ Settle(cur.key, cur.ver, "accepted")
  /\ queue' = {}
  /\ pc' = "round" /\ cur' = NoRequest /\ answer' = "none"
  /\ UNCHANGED <<files, tmp, clock, held, halted, late, backend>>

\* Every other status is transient: the round stops and the file stays.
Defer ==
  /\ pc = "posting" /\ answer = "other"
  /\ queue' = {}
  /\ pc' = "round" /\ cur' = NoRequest /\ answer' = "none"
  /\ UNCHANGED <<dirVars, held, halted, late, backend>>

ShipperStep ==
  \/ StartRound \/ CutRound
  \/ \E k \in Keys, m \in Versions :
       ReadFails(k, m) \/ HoldTooLarge(k, m) \/ Post(k, m) \/ LateArrival(k, m)
  \/ PostFails \/ BackendTakes \/ BackendRefuses
  \/ Acknowledged \/ RemoveDelivered \/ RemoveFails \/ Hold \/ Halt \/ Defer

\* Everything the shipper knows is in memory; what it sent is not its own.
ShipperCrash ==
  /\ late' = IF pc = "posting" /\ answer = "none"
               THEN late \cup {<<cur.key, cur.ver>>} ELSE late
  /\ pc' = "round" /\ queue' = {} /\ cur' = NoRequest /\ answer' = "none"
  /\ held' = [k \in Keys |-> Absent]
  /\ halted' = FALSE
  /\ UNCHANGED backend
=============================================================================
