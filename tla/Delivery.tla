------------------------------ MODULE Delivery ------------------------------
(***************************************************************************)
(* The spool and the shipper over one directory: the agent's delivery      *)
(* path, from the rename that publishes a payload to the unlink that       *)
(* acknowledges it, with crashes and restarts of the agent.                *)
(***************************************************************************)
EXTENDS Spool, Shipper

CONSTANT MaxCrashes   \* bound: how often the agent crashes

ASSUME MaxCrashesAssumption == MaxCrashes \in Nat

VARIABLE crashes   \* how often the agent crashed

vars == <<dirVars, spoolVars, shipperVars, crashes>>

Init == /\ DirInit
        /\ SpoolInit
        /\ ShipperInit
        /\ crashes = 0

\* A rename puts its payload at risk when a removal or a mark decided on an
\* earlier file applies to it: the shipper stands between its Stat and its
\* Remove of that name; the file has the inode of the one in flight, or of the
\* one held, under that name; or a sweep has condemned the name.
Exposes(k) ==
  \/ pc = "remove" /\ cur.key = k
  \/ cur.key = k /\ SameFile(cur, tmp[k])
  \/ held[k].ver # 0 /\ SameFile(held[k], tmp[k])
  \/ \E v \in victims : v[1] = k

Publish(k) ==
  /\ RenameTemp(k, IF Exposes(k) THEN "exposed" ELSE "spooled")
  /\ UNCHANGED <<shipperVars, crashes>>

Crash ==
  /\ crashes < MaxCrashes
  /\ crashes' = crashes + 1
  /\ SpoolCrash
  /\ ShipperCrash

ShipperOnly(A) == A /\ UNCHANGED <<spoolVars, crashes>>

Next ==
  \/ \E k \in Keys : Publish(k)
  \/ SpoolStep /\ UNCHANGED <<shipperVars, crashes>>
  \/ ShipperOnly(ShipperStep)
  \/ Crash

Spec == Init /\ [][Next]_vars

Offer == \E k \in Keys, m \in Versions :
           ReadFails(k, m) \/ HoldTooLarge(k, m) \/ Post(k, m)

PostEnds == PostFails \/ Acknowledged \/ Hold \/ Halt \/ Defer

\* The scheduling the code gives.  Run's timer always fires again, and a
\* context is cancelled once in a process's life, so rounds are not cut
\* forever; the client's timeout ends every request; a removal does not fail
\* forever.  Of the backend: it takes a payload when asked again and again, and
\* the answer then arrives.
Fairness ==
  /\ WF_vars(ShipperOnly(StartRound))
  /\ SF_vars(ShipperOnly(Offer))
  /\ WF_vars(ShipperOnly(PostEnds))
  /\ SF_vars(ShipperOnly(BackendTakes))
  /\ SF_vars(ShipperOnly(Acknowledged))
  /\ SF_vars(ShipperOnly(RemoveDelivered))

FairSpec == Spec /\ Fairness

-----------------------------------------------------------------------------
TypeOK == /\ DirTypeOK
          /\ SpoolTypeOK
          /\ ShipperTypeOK
          /\ crashes \in 0 .. MaxCrashes

(***************************************************************************)
(* No payload vanishes: the newest payload of every key is in the spool,   *)
(* was acknowledged by the backend with a 2xx, or was evicted by a sweep   *)
(* that listed it -- or it was published in one of the narrow windows that *)
(* Exposes names.  About publish, Sweep and Shipper.acknowledged, across   *)
(* any interleaving of writers, sweep, shipper and crashes.                *)
(***************************************************************************)
LatestAccounted == \A k \in Keys : fate[k] = "spooled" => Present(k)

(***************************************************************************)
(* ADR 0075: a spool file is deleted only after a 2xx, and only if it is   *)
(* still the file that was sent.  About Shipper.acknowledged, whose Stat   *)
(* and Remove are two system calls.                                        *)
(***************************************************************************)
AckRemovesOnlyWhatWasSent ==
  [][pc = "remove" /\ Present(cur.key) /\ files'[cur.key].ver = 0
       => files[cur.key].ver = cur.ver]_vars

(***************************************************************************)
(* A mark hides only the payload it was made for: a file that pending      *)
(* skips carries the bytes the backend rejected, unless it was published   *)
(* into a reused inode.  About Shipper.pending and Shipper.hold.           *)
(***************************************************************************)
HoldsOnlyTheRejected ==
  \A k \in Keys : Held(k) => files[k].ver = held[k].ver \/ fate[k] = "exposed"

(***************************************************************************)
(* The backend's copy of a key never goes back to an older payload, except *)
(* through a request the shipper had given up on.  About Round's one       *)
(* request in flight and deliver's re-read of the file.                    *)
(***************************************************************************)
OnlyLateRequestsRegress ==
  [][\A k \in Keys : backend'[k] < backend[k] => <<k, backend'[k]>> \in late]_vars

(***************************************************************************)
(* ADR 0075: one request in flight, so an older snapshot cannot arrive     *)
(* after a newer one.                                                      *)
(***************************************************************************)
BackendNeverRegresses ==
  [][\A k \in Keys : backend'[k] >= backend[k]]_vars

\* The outbox that the directory, the shipper and the backend make up.
O == INSTANCE Outbox WITH
       box <- [k \in Keys |-> files[k].ver], copy <- backend, NoReceipt <- <<NoKey, 0>>,
       receipt <- IF pc = "posting" /\ answer = "2xx" THEN <<cur.key, cur.ver>>
                  ELSE <<NoKey, 0>>

(***************************************************************************)
(* The delivery path is an outbox: a payload whose fate is open leaves its *)
(* name only when the backend answered 2xx for those very bytes or a sweep *)
(* evicted them, a newer payload replaces an older one and never the other *)
(* way, and neither a crash nor a lost answer takes anything out.  About   *)
(* publish, Sweep, deliver and acknowledged together.                      *)
(***************************************************************************)
DeliversAsOutbox == O!Spec

(***************************************************************************)
(* Every payload in the spool is eventually delivered or evicted, or ends  *)
(* held or behind a halt: deferrals, replacements and crashes do not leave *)
(* a payload unoffered.  About Run, Round, pending and deliver.            *)
(***************************************************************************)
EventuallySettled ==
  \A k \in Keys : Present(k) ~> (~Present(k) \/ Held(k) \/ halted)
=============================================================================
