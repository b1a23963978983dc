--------------------------- MODULE DeliveryProofs ---------------------------
(***************************************************************************)
(* Proofs about the delivery path, for any number of keys, inodes,         *)
(* payloads and crashes.  Three inductive invariants on top of TypeOK:     *)
(*                                                                         *)
(*   - Accounting: a removal or a mark that was decided on one file and    *)
(*     falls on another finds an "exposed" payload, never a "spooled" one; *)
(*   - Ordering: the file under a name is at least as new as everything    *)
(*     ever sent for that name, and a temp file being written as new as    *)
(*     both;                                                               *)
(*   - Fresher: a payload being written is newer than the file it will     *)
(*     replace.                                                            *)
(***************************************************************************)
EXTENDS Delivery, TLAPS

Accounting ==
  /\ LatestAccounted
  /\ HoldsOnlyTheRejected
  /\ \A k \in Keys : cur.key = k /\ Present(k) /\ SameFile(files[k], cur)
                       => files[k].ver = cur.ver \/ fate[k] = "exposed"
  /\ pc = "remove" => fate[cur.key] # "spooled"
  /\ \A k \in Keys, m \in Versions :
       <<k, m>> \in victims /\ Present(k) /\ files[k].ver # m
         => fate[k] # "spooled"

\* Everything the key's name, the shipper and the backend hold is n or older.
NoNewer(k, n) ==
  /\ files[k].ver =< n
  /\ backend[k] =< n
  /\ cur.key = k => cur.ver =< n
  /\ \A v \in Versions : <<k, v>> \in late => v =< n

Ordering ==
  /\ \A k \in Keys : NoNewer(k, clock)
  /\ \A k \in Keys : tmp[k].ver =< clock
  /\ \A k \in writing : HasTemp(k) => NoNewer(k, tmp[k].ver)
  /\ \A k \in Keys : Present(k) => NoNewer(k, files[k].ver)
  /\ pc = "posting" =>
       /\ backend[cur.key] =< cur.ver
       /\ \A v \in Versions : <<cur.key, v>> \in late => v =< cur.ver

Fresher == \A k \in writing : HasTemp(k) => files[k].ver < tmp[k].ver

-----------------------------------------------------------------------------
USE DirAssumption, ShipperAssumption, MaxCrashesAssumption
  DEF DirAssumption, ShipperAssumption, MaxCrashesAssumption

\* The initial state has the declared types.
LEMMA InitTypeOK == Init => TypeOK
<1> SUFFICES ASSUME Init PROVE TypeOK
  OBVIOUS
<1>1. 0 \in Versions
  BY DEF Versions
<1>2. DirTypeOK
  BY <1>1 DEF Init, DirInit, DirTypeOK, File, Absent, Fates
<1>3. SpoolTypeOK
  BY DEF Init, SpoolInit, SpoolTypeOK
<1>4. ShipperTypeOK
  BY <1>1 DEF Init, ShipperInit, ShipperTypeOK, File, Absent, Request, NoRequest
<1> QED
  BY <1>2, <1>3, <1>4 DEF Init, TypeOK

\* Every step of the writers and the sweep keeps the types.
LEMMA SpoolStepTypeOK ==
  ASSUME TypeOK, SpoolStep, UNCHANGED <<shipperVars, crashes>>
  PROVE  TypeOK'
<1> USE DEF TypeOK, DirTypeOK, SpoolTypeOK, ShipperTypeOK, shipperVars
<1>1. ASSUME NEW k \in Keys, WriteTemp(k) PROVE TypeOK'
  <2>1. PICK i \in Inodes \cup {NoInode} :
          tmp' = [tmp EXCEPT ![k] = [ver |-> clock + 1, ino |-> i]]
    BY <1>1 DEF WriteTemp, FreeInodes, File
  <2>2. clock + 1 \in Versions
    BY <1>1 DEF WriteTemp, Versions
  <2> QED
    BY <1>1, <2>1, <2>2 DEF WriteTemp, File, sweep
<1>2. ASSUME NEW k \in Keys, PublishFails(k) PROVE TypeOK'
  BY <1>2 DEF PublishFails, dirVars, sweep
<1>3. ASSUME NEW c, NEW t, NEW h, SweepList(c, t, h) PROVE TypeOK'
  <2>1. strays' \in SUBSET Keys
    BY <1>3 DEF SweepList, Orphans
  <2>2. victims' \in SUBSET (Keys \X Versions)
    <3>1. Condemned(c, t, h) \subseteq Keys
      BY DEF Condemned, OldestOf
    <3>2. \A k \in Keys : files[k].ver \in Versions
      BY DEF File
    <3> QED
      BY <1>3, <3>1, <3>2 DEF SweepList
  <2> QED
    BY <1>3, <2>1, <2>2 DEF SweepList, dirVars
<1>4. ASSUME NEW k \in Keys, NEW m \in Versions, SweepRemove(k, m) PROVE TypeOK'
  BY <1>4 DEF SweepRemove, Unlink, Settle, Absent, File, Versions, Fates
<1>5. ASSUME SweepFails PROVE TypeOK'
  BY <1>5 DEF SweepFails, dirVars
<1>6. ASSUME NEW k \in Keys, SweepRemoveTemp(k) PROVE TypeOK'
  <2>1. Absent \in File
    BY DEF Absent, File, Versions
  <2> QED
    BY <1>6, <2>1 DEF SweepRemoveTemp
<1> QED
  BY <1>1, <1>2, <1>3, <1>4, <1>5, <1>6 DEF SpoolStep

\* Every step of the shipper and of the backend keeps the types.
LEMMA ShipperStepTypeOK ==
  ASSUME TypeOK, ShipperOnly(ShipperStep)
  PROVE  TypeOK'
<1> USE DEF TypeOK, DirTypeOK, SpoolTypeOK, ShipperTypeOK, dirVars, spoolVars, sweep,
            ShipperOnly
<1>1. Absent \in File /\ NoRequest \in Request
  BY DEF Absent, File, NoRequest, Request, Versions
<1>2. \A k \in Keys : /\ files[k] \in File
                      /\ files[k].ver \in Versions
                      /\ files[k].ino \in Inodes \cup {NoInode}
  BY DEF File
<1>3. CASE StartRound
  <2>1. queue' \in SUBSET (Keys \X Versions)
    BY <1>2, <1>3 DEF StartRound
  <2>2. held' \in [Keys -> File]
    BY <1>1, <1>3 DEF StartRound
  <2> QED
    BY <1>3, <2>1, <2>2 DEF StartRound
<1>4. CASE CutRound
  BY <1>4 DEF CutRound
<1>5. ASSUME NEW k \in Keys, NEW m \in Versions, ReadFails(k, m) PROVE TypeOK'
  BY <1>5 DEF ReadFails
<1>6. ASSUME NEW k \in Keys, NEW m \in Versions, HoldTooLarge(k, m) PROVE TypeOK'
  BY <1>2, <1>6 DEF HoldTooLarge
<1>7. ASSUME NEW k \in Keys, NEW m \in Versions, Post(k, m) PROVE TypeOK'
  <2>1. cur' \in Request
    BY <1>2, <1>7 DEF Post, Request
  <2> QED
    BY <1>7, <2>1 DEF Post
<1>8. ASSUME NEW k \in Keys, NEW m \in Versions, LateArrival(k, m) PROVE TypeOK'
  BY <1>8 DEF LateArrival
<1>9. cur.ver \in Versions
  BY DEF Request
<1>10. CASE PostFails
  BY <1>1, <1>9, <1>10 DEF PostFails
<1>11. CASE BackendTakes
  BY <1>9, <1>11 DEF BackendTakes
<1>12. CASE BackendRefuses
  BY <1>12 DEF BackendRefuses
<1>13. CASE Acknowledged
  <2>1. fate' \in [Keys -> Fates]
    BY <1>13 DEF Acknowledged, Settle, Fates
  <2> QED
    BY <1>1, <1>13, <2>1 DEF Acknowledged
<1>14. CASE RemoveDelivered
  BY <1>1, <1>14 DEF RemoveDelivered, Unlink
<1>15. CASE RemoveFails
  BY <1>1, <1>15 DEF RemoveFails
<1>16. CASE Hold
  <2>1. held' \in [Keys -> File]
    BY <1>16 DEF Hold, File, Request
  <2> QED
    BY <1>1, <1>16, <2>1 DEF Hold
<1>17. CASE Halt
  BY <1>1, <1>17 DEF Halt
<1>18. CASE Defer
  BY <1>1, <1>18 DEF Defer
<1> QED
  BY <1>3, <1>4, <1>5, <1>6, <1>7, <1>8, <1>10, <1>11, <1>12, <1>13, <1>14,
     <1>15, <1>16, <1>17, <1>18 DEF ShipperStep

\* Publishing and crashing keep the types, so every step does.
LEMMA NextTypeOK == TypeOK /\ [Next]_vars => TypeOK'
<1> SUFFICES ASSUME TypeOK, [Next]_vars PROVE TypeOK'
  OBVIOUS
<1>1. ASSUME NEW k \in Keys, Publish(k) PROVE TypeOK'
  <2>1. /\ files' \in [Keys -> File]
        /\ tmp' \in [Keys -> File]
        /\ fate' \in [Keys -> Fates]
    BY <1>1 DEF Publish, RenameTemp, TypeOK, DirTypeOK, File, Absent, Fates, Versions
  <2> QED
    BY <1>1, <2>1 DEF Publish, RenameTemp, sweep, TypeOK, DirTypeOK, SpoolTypeOK,
                      ShipperTypeOK, shipperVars
<1>2. CASE Crash
  <2>1. held' \in [Keys -> File] /\ cur' \in Request
    BY <1>2 DEF Crash, ShipperCrash, File, Absent, Request, NoRequest, Versions
  <2>2. late' \in SUBSET (Keys \X Versions)
    <3>1. cur.ver \in Versions
      BY DEF TypeOK, ShipperTypeOK, Request
    <3> QED
      BY <1>2, <3>1 DEF Crash, ShipperCrash, TypeOK, ShipperTypeOK
  <2>3. crashes' \in 0 .. MaxCrashes
    BY <1>2 DEF Crash, TypeOK
  <2>4. DirTypeOK' /\ SpoolTypeOK'
    BY <1>2 DEF Crash, SpoolCrash, dirVars, TypeOK, DirTypeOK, SpoolTypeOK
  <2>5. ShipperTypeOK'
    BY <1>2, <2>1, <2>2 DEF Crash, ShipperCrash, TypeOK, ShipperTypeOK
  <2> QED
    BY <2>3, <2>4, <2>5 DEF TypeOK
<1>3. CASE UNCHANGED vars
  BY <1>3 DEF vars, dirVars, spoolVars, sweep, shipperVars, TypeOK, DirTypeOK, SpoolTypeOK,
              ShipperTypeOK
<1> QED
  BY <1>1, <1>2, <1>3, SpoolStepTypeOK, ShipperStepTypeOK DEF Next

\* Type correctness of the whole delivery path.
THEOREM TypeCorrect == Spec => []TypeOK
<1> QED
  BY InitTypeOK, NextTypeOK, PTL DEF Spec

-----------------------------------------------------------------------------
\* The spool's own steps keep Accounting: a sweep settles what it listed, and
\* what it did not list is exposed.
LEMMA SpoolStepAccounting ==
  ASSUME TypeOK, Accounting, SpoolStep, UNCHANGED <<shipperVars, crashes>>
  PROVE  Accounting'
<1> USE DEF Accounting, LatestAccounted, HoldsOnlyTheRejected, Held, Present, SameFile,
            shipperVars
<1>1. ASSUME NEW k \in Keys, WriteTemp(k) PROVE Accounting'
  BY <1>1 DEF WriteTemp, sweep
<1>2. ASSUME NEW k \in Keys, PublishFails(k) PROVE Accounting'
  BY <1>2 DEF PublishFails, dirVars, sweep
<1>3. ASSUME NEW c, NEW t, NEW h, SweepList(c, t, h) PROVE Accounting'
  BY <1>3 DEF SweepList, dirVars
<1>4. ASSUME NEW k \in Keys, NEW m \in Versions, SweepRemove(k, m) PROVE Accounting'
  <2>1. /\ \A j \in Keys : j # k => files'[j] = files[j] /\ fate'[j] = fate[j]
        /\ files'[k] = Absent
        /\ fate'[k] # "spooled"
        /\ fate[k] # "spooled" => fate'[k] = fate[k]
    BY <1>4 DEF SweepRemove, Unlink, Settle, TypeOK, DirTypeOK
  <2> QED
    BY <1>4, <2>1 DEF SweepRemove, Absent, TypeOK, ShipperTypeOK
<1>5. ASSUME SweepFails PROVE Accounting'
  BY <1>5 DEF SweepFails, dirVars
<1>6. ASSUME NEW k \in Keys, SweepRemoveTemp(k) PROVE Accounting'
  BY <1>6 DEF SweepRemoveTemp
<1> QED
  BY <1>1, <1>2, <1>3, <1>4, <1>5, <1>6 DEF SpoolStep

\* The shipper's steps keep Accounting: what it is about to remove has been
\* accepted, or is exposed.
LEMMA ShipperStepAccounting ==
  ASSUME TypeOK, Accounting, ShipperOnly(ShipperStep)
  PROVE  Accounting'
<1> USE DEF Accounting, LatestAccounted, HoldsOnlyTheRejected, Held, Present, SameFile,
            dirVars, spoolVars, sweep, ShipperOnly
<1>1. NoRequest.key \notin Keys
  BY DEF NoRequest
<1>2. CASE StartRound
  BY <1>2 DEF StartRound, Absent
<1>3. CASE CutRound
  BY <1>3 DEF CutRound
<1>4. ASSUME NEW k \in Keys, NEW m \in Versions, ReadFails(k, m) PROVE Accounting'
  BY <1>4 DEF ReadFails
<1>5. ASSUME NEW k \in Keys, NEW m \in Versions, HoldTooLarge(k, m) PROVE Accounting'
  BY <1>5 DEF HoldTooLarge, TypeOK, ShipperTypeOK
<1>6. ASSUME NEW k \in Keys, NEW m \in Versions, Post(k, m) PROVE Accounting'
  BY <1>6 DEF Post, AtHead
<1>7. ASSUME NEW k \in Keys, NEW m \in Versions, LateArrival(k, m) PROVE Accounting'
  BY <1>7 DEF LateArrival
<1>8. CASE PostFails
  BY <1>1, <1>8 DEF PostFails
<1>9. CASE BackendTakes
  BY <1>9 DEF BackendTakes
<1>10. CASE BackendRefuses
  BY <1>10 DEF BackendRefuses
<1>11. CASE Acknowledged
  <2>1. cur.key \in Keys
    BY <1>11 DEF Acknowledged, TypeOK, ShipperTypeOK
  <2>2. /\ \A j \in Keys : j # cur.key => fate'[j] = fate[j]
        /\ fate[cur.key] # "spooled" => fate'[cur.key] = fate[cur.key]
        /\ files[cur.key].ver = cur.ver => fate'[cur.key] # "spooled"
        /\ \A j \in Keys : fate'[j] = "spooled" => fate[j] = "spooled"
    BY <1>11, <2>1 DEF Acknowledged, Settle, TypeOK, DirTypeOK
  <2> QED
    BY <1>1, <1>11, <2>1, <2>2 DEF Acknowledged
<1>12. CASE RemoveDelivered
  <2>1. /\ \A j \in Keys : j # cur.key => files'[j] = files[j]
        /\ files'[cur.key] = Absent
        /\ cur.key \in Keys
    BY <1>12 DEF RemoveDelivered, Unlink, TypeOK, DirTypeOK, ShipperTypeOK
  <2> QED
    BY <1>1, <1>12, <2>1 DEF RemoveDelivered, Absent
<1>13. CASE RemoveFails
  BY <1>1, <1>13 DEF RemoveFails
<1>14. CASE Hold
  BY <1>1, <1>14 DEF Hold, TypeOK, ShipperTypeOK
<1>15. CASE Halt
  BY <1>1, <1>15 DEF Halt
<1>16. CASE Defer
  BY <1>1, <1>16 DEF Defer
<1> QED
  BY <1>2, <1>3, <1>4, <1>5, <1>6, <1>7, <1>8, <1>9, <1>10, <1>11, <1>12, <1>13,
     <1>14, <1>15, <1>16 DEF ShipperStep

\* Init establishes Accounting and every step keeps it: a rename either meets
\* no earlier decision about its name, or exposes its payload.
LEMMA AccountingInvariant == Spec => []Accounting
<1>1. Init => Accounting
  BY DEF Init, DirInit, SpoolInit, ShipperInit, Accounting, LatestAccounted,
         HoldsOnlyTheRejected, Held, Present, Absent
<1>2. TypeOK /\ Accounting /\ [Next]_vars => Accounting'
  <2> SUFFICES ASSUME TypeOK, Accounting, [Next]_vars PROVE Accounting'
    OBVIOUS
  <2> USE DEF Accounting, LatestAccounted, HoldsOnlyTheRejected, Held, Present, SameFile
  <2>1. ASSUME NEW k \in Keys, Publish(k) PROVE Accounting'
    <3>1. /\ \A j \in Keys : j # k => files'[j] = files[j] /\ fate'[j] = fate[j]
          /\ files'[k] = tmp[k]
          /\ fate'[k] = IF Exposes(k) THEN "exposed" ELSE "spooled"
          /\ tmp[k].ver # 0
      BY <2>1 DEF Publish, RenameTemp, HasTemp, TypeOK, DirTypeOK
    <3>2. UNCHANGED <<pc, cur, held, victims>>
      BY <2>1 DEF Publish, RenameTemp, sweep, shipperVars
    <3>3. ASSUME NEW m \in Versions, <<k, m>> \in victims PROVE Exposes(k)
      BY <3>3 DEF Exposes
    <3>4. LatestAccounted'
      BY <3>1
    <3>5. HoldsOnlyTheRejected'
      BY <3>1, <3>2 DEF Exposes
    <3>6. ASSUME NEW j \in Keys, cur.key = j, files'[j].ver # 0, files'[j].ino = cur.ino
          PROVE  files'[j].ver = cur.ver \/ fate'[j] = "exposed"
      BY <3>1, <3>6 DEF Exposes
    <3>7. pc = "remove" => fate'[cur.key] # "spooled"
      BY <3>1 DEF Exposes, TypeOK, ShipperTypeOK
    <3>8. ASSUME NEW j \in Keys, NEW m \in Versions,
                 <<j, m>> \in victims, files'[j].ver # 0, files'[j].ver # m
          PROVE  fate'[j] # "spooled"
      BY <3>1, <3>3, <3>8
    <3> QED
      BY <3>2, <3>4, <3>5, <3>6, <3>7, <3>8
  <2>2. CASE Crash
    <3>1. NoRequest.key \notin Keys
      BY DEF NoRequest
    <3> QED
      BY <2>2, <3>1 DEF Crash, SpoolCrash, ShipperCrash, dirVars, Absent
  <2>3. CASE UNCHANGED vars
    BY <2>3 DEF vars, dirVars, spoolVars, sweep, shipperVars
  <2> QED
    BY <2>1, <2>2, <2>3, SpoolStepAccounting, ShipperStepAccounting DEF Next
<1> QED
  BY <1>1, <1>2, TypeCorrect, PTL DEF Spec

(***************************************************************************)
(* For any number of keys, inodes, payloads and crashes: no payload        *)
(* vanishes unless it was published where Exposes says (publish, Sweep and *)
(* Shipper.acknowledged).                                                  *)
(***************************************************************************)
THEOREM NothingVanishes == Spec => []LatestAccounted
<1>1. Accounting => LatestAccounted
  BY DEF Accounting
<1> QED
  BY <1>1, AccountingInvariant, PTL

(***************************************************************************)
(* Likewise: pending skips only a payload the backend rejected, unless it  *)
(* was published into the inode of one that was.                           *)
(***************************************************************************)
THEOREM HoldIsExact == Spec => []HoldsOnlyTheRejected
<1>1. Accounting => HoldsOnlyTheRejected
  BY DEF Accounting
<1> QED
  BY <1>1, AccountingInvariant, PTL

-----------------------------------------------------------------------------
\* Versions are naturals no larger than the bound.
LEMMA VersionsAreNat == \A v \in Versions : v \in Nat
  BY DEF Versions

\* The spool's own steps keep Ordering: a new temp file is newer than all.
LEMMA SpoolStepOrdering ==
  ASSUME TypeOK, Ordering, SpoolStep, UNCHANGED <<shipperVars, crashes>>
  PROVE  Ordering'
<1> USE DEF Ordering, NoNewer, Present, HasTemp, shipperVars
<1>1. /\ clock \in Nat
      /\ \A k \in Keys : /\ files[k].ver \in Nat
                         /\ tmp[k].ver \in Nat
                         /\ backend[k] \in Nat
      /\ cur.ver \in Nat
  BY VersionsAreNat DEF TypeOK, DirTypeOK, ShipperTypeOK, File, Request
<1>2. ASSUME NEW k \in Keys, WriteTemp(k) PROVE Ordering'
  <2>1. /\ clock' = clock + 1
        /\ tmp'[k].ver = clock + 1
        /\ \A j \in Keys : j # k => tmp'[j] = tmp[j]
        /\ writing' = writing \cup {k}
        /\ UNCHANGED files
    BY <1>2 DEF WriteTemp, TypeOK, DirTypeOK
  <2>2. ASSUME NEW j \in Keys PROVE NoNewer(j, clock + 1)
    BY <1>1, VersionsAreNat
  <2>3. \A j \in Keys : NoNewer(j, clock)' /\ tmp'[j].ver =< clock'
    BY <1>1, <2>1, <2>2
  <2>4. \A j \in writing' : tmp'[j].ver # 0 => NoNewer(j, tmp[j].ver)'
    <3> TAKE j \in writing'
    <3>1. CASE j = k
      BY <2>1, <2>2, <3>1
    <3>2. CASE j # k
      BY <2>1, <3>2 DEF TypeOK, SpoolTypeOK
    <3> QED
      BY <3>1, <3>2
  <2> QED
    BY <2>1, <2>3, <2>4
<1>3. ASSUME NEW k \in Keys, PublishFails(k) PROVE Ordering'
  BY <1>3 DEF PublishFails, dirVars, sweep
<1>4. ASSUME NEW c, NEW t, NEW h, SweepList(c, t, h) PROVE Ordering'
  BY <1>4 DEF SweepList, dirVars
<1>5. ASSUME NEW k \in Keys, NEW m \in Versions, SweepRemove(k, m) PROVE Ordering'
  <2>1. /\ \A j \in Keys : j # k => files'[j] = files[j]
        /\ files'[k].ver = 0
        /\ UNCHANGED <<tmp, clock, writing>>
    BY <1>5 DEF SweepRemove, Unlink, Absent, TypeOK, DirTypeOK
  <2> QED
    BY <1>1, <2>1 DEF TypeOK, SpoolTypeOK
<1>6. ASSUME SweepFails PROVE Ordering'
  BY <1>6 DEF SweepFails, dirVars
<1>7. ASSUME NEW k \in Keys, SweepRemoveTemp(k) PROVE Ordering'
  <2>1. \A j \in Keys : tmp'[j] = tmp[j] \/ tmp'[j].ver = 0
    BY <1>7 DEF SweepRemoveTemp, Absent, TypeOK, DirTypeOK
  <2> QED
    BY <1>1, <1>7, <2>1 DEF SweepRemoveTemp, TypeOK, SpoolTypeOK
<1> QED
  BY <1>2, <1>3, <1>4, <1>5, <1>6, <1>7 DEF SpoolStep

\* The shipper's steps keep Ordering: it sends the file as it is now, and the
\* backend receives only what was sent.
LEMMA ShipperStepOrdering ==
  ASSUME TypeOK, Ordering, ShipperOnly(ShipperStep)
  PROVE  Ordering'
<1> USE DEF Ordering, NoNewer, Present, HasTemp, dirVars, spoolVars, sweep, ShipperOnly
<1>1. /\ clock \in Nat
      /\ \A k \in Keys : /\ files[k].ver \in Nat
                         /\ tmp[k].ver \in Nat
                         /\ backend[k] \in Nat
      /\ cur.ver \in Nat
      /\ writing \subseteq Keys
  BY VersionsAreNat DEF TypeOK, DirTypeOK, SpoolTypeOK, ShipperTypeOK, File, Request
<1>2. NoRequest.key \notin Keys
  BY DEF NoRequest
<1>3. CASE StartRound
  BY <1>3 DEF StartRound
<1>4. CASE CutRound
  BY <1>4 DEF CutRound
<1>5. ASSUME NEW k \in Keys, NEW m \in Versions, ReadFails(k, m) PROVE Ordering'
  BY <1>5 DEF ReadFails
<1>6. ASSUME NEW k \in Keys, NEW m \in Versions, HoldTooLarge(k, m) PROVE Ordering'
  BY <1>6 DEF HoldTooLarge
<1>7. ASSUME NEW k \in Keys, NEW m \in Versions, Post(k, m) PROVE Ordering'
  BY <1>1, <1>7 DEF Post
<1>8. ASSUME NEW k \in Keys, NEW v \in Versions, LateArrival(k, v) PROVE Ordering'
  <2>1. /\ backend'[k] = v
        /\ \A j \in Keys : j # k => backend'[j] = backend[j]
        /\ late' \subseteq late
        /\ UNCHANGED <<files, tmp, clock, writing, pc, cur>>
    BY <1>8 DEF LateArrival, TypeOK, ShipperTypeOK
  <2>2. <<k, v>> \in late
    BY <1>8 DEF LateArrival
  <2> QED
    BY <1>1, <2>1, <2>2 DEF TypeOK, ShipperTypeOK
<1>9. CASE PostFails
  BY <1>1, <1>2, <1>9 DEF PostFails
<1>10. CASE BackendTakes
  <2>1. /\ backend'[cur.key] = cur.ver
        /\ \A j \in Keys : j # cur.key => backend'[j] = backend[j]
        /\ cur.key \in Keys
        /\ UNCHANGED <<files, tmp, clock, writing, pc, cur, late>>
    BY <1>10 DEF BackendTakes, TypeOK, ShipperTypeOK
  <2>2. ASSUME NEW j \in Keys, NEW n \in Nat, NoNewer(j, n) PROVE NoNewer(j, n)'
    <3>1. j = cur.key => backend'[j] =< n
      BY <2>1, <2>2
    <3>2. backend'[j] =< n
      BY <2>1, <2>2, <3>1
    <3> QED
      BY <2>1, <2>2, <3>2
  <2>3. \A j \in Keys : NoNewer(j, clock)' /\ tmp'[j].ver =< clock'
    BY <1>1, <2>1, <2>2
  <2>4. \A j \in writing' : HasTemp(j)' => NoNewer(j, tmp[j].ver)'
    BY <1>1, <2>1, <2>2
  <2>5. \A j \in Keys : Present(j)' => NoNewer(j, files[j].ver)'
    BY <1>1, <2>1, <2>2
  <2>6. pc' = "posting" => /\ backend'[cur'.key] =< cur'.ver
                           /\ \A v \in Versions : <<cur'.key, v>> \in late' => v =< cur'.ver
    BY <1>1, <1>10, <2>1 DEF BackendTakes
  <2> QED
    BY <2>3, <2>4, <2>5, <2>6 DEF Ordering
<1>11. CASE BackendRefuses
  BY <1>11 DEF BackendRefuses
<1>12. CASE Acknowledged
  BY <1>1, <1>2, <1>12 DEF Acknowledged
<1>13. CASE RemoveDelivered
  <2>1. /\ \A j \in Keys : j # cur.key => files'[j] = files[j]
        /\ files'[cur.key].ver = 0
        /\ cur.key \in Keys
        /\ UNCHANGED <<tmp, clock, writing, backend, late>>
        /\ pc' = "round" /\ cur' = NoRequest
    BY <1>13 DEF RemoveDelivered, Unlink, Absent, TypeOK, DirTypeOK, ShipperTypeOK
  <2>2. \A j \in Keys : files'[j] = files[j] \/ files'[j].ver = 0
    BY <2>1
  <2>3. cur'.key \notin Keys
    BY <2>1, <1>2
  <2>4. ASSUME NEW j \in Keys, NEW n \in Nat, NoNewer(j, n) PROVE NoNewer(j, n)'
    BY <2>1, <2>2, <2>3, <2>4 DEF NoNewer
  <2>5. \A j \in Keys : tmp[j].ver \in Nat /\ files[j].ver \in Nat /\ clock \in Nat
    BY <1>1
  <2>6. \A j \in Keys : NoNewer(j, clock)' /\ tmp'[j].ver =< clock'
    BY <2>1, <2>4, <2>5 DEF Ordering, NoNewer
  <2>7. \A j \in writing' : HasTemp(j)' => NoNewer(j, tmp[j].ver)'
    BY <2>1, <2>4, <2>5 DEF Ordering, NoNewer, HasTemp, TypeOK, SpoolTypeOK
  <2>8. \A j \in Keys : Present(j)' => NoNewer(j, files[j].ver)'
    BY <2>1, <2>2, <2>4, <2>5 DEF Ordering, NoNewer, Present
  <2> QED
    BY <2>1, <2>6, <2>7, <2>8 DEF Ordering
<1>14. CASE RemoveFails
  BY <1>1, <1>2, <1>14 DEF RemoveFails
<1>15. CASE Hold
  BY <1>1, <1>2, <1>15 DEF Hold
<1>16. CASE Halt
  BY <1>1, <1>2, <1>16 DEF Halt
<1>17. CASE Defer
  BY <1>1, <1>2, <1>17 DEF Defer
<1> QED
  BY <1>3, <1>4, <1>5, <1>6, <1>7, <1>8, <1>9, <1>10, <1>11, <1>12, <1>13, <1>14,
     <1>15, <1>16, <1>17 DEF ShipperStep

\* Init establishes Ordering and every step keeps it.
LEMMA OrderingInvariant == Spec => []Ordering
<1>1. Init => Ordering
  BY DEF Init, DirInit, SpoolInit, ShipperInit, Ordering, NoNewer, Present, HasTemp,
         Absent, NoRequest
<1>2. TypeOK /\ Ordering /\ [Next]_vars => Ordering'
  <2> SUFFICES ASSUME TypeOK, Ordering, [Next]_vars PROVE Ordering'
    OBVIOUS
  <2>1. ASSUME NEW k \in Keys, Publish(k) PROVE Ordering'
    <3>1. /\ \A j \in Keys : j # k => files'[j] = files[j] /\ tmp'[j] = tmp[j]
          /\ files'[k] = tmp[k]
          /\ tmp'[k].ver = 0
          /\ writing' = writing \ {k}
          /\ k \in writing /\ HasTemp(k)
          /\ writing \subseteq Keys
          /\ UNCHANGED clock
      BY <2>1 DEF Publish, RenameTemp, TypeOK, DirTypeOK, SpoolTypeOK, Absent
    <3>2. UNCHANGED <<pc, cur, late, backend>>
      BY <2>1 DEF Publish, shipperVars
    <3>3. tmp[k].ver \in Nat /\ clock \in Nat
      BY VersionsAreNat DEF TypeOK, DirTypeOK, File
    <3> QED
      BY <3>1, <3>2, <3>3 DEF Ordering, NoNewer, Present, HasTemp
  <2>2. CASE Crash
    <3>1. NoRequest.key \notin Keys
      BY DEF NoRequest
    <3>2. late' \subseteq late \cup {<<cur.key, cur.ver>>}
      BY <2>2 DEF Crash, ShipperCrash
    <3> QED
      BY <2>2, <3>1, <3>2 DEF Crash, SpoolCrash, ShipperCrash, dirVars, Ordering, NoNewer,
                         Present, HasTemp
  <2>3. CASE UNCHANGED vars
    BY <2>3 DEF vars, dirVars, spoolVars, sweep, shipperVars, Ordering, NoNewer, Present, HasTemp
  <2> QED
    BY <2>1, <2>2, <2>3, SpoolStepOrdering, ShipperStepOrdering DEF Next
<1> QED
  BY <1>1, <1>2, TypeCorrect, PTL DEF Spec

(***************************************************************************)
(* For any number of keys, payloads and crashes: with one request in       *)
(* flight, read afresh from the file, only a request the shipper had given *)
(* up on can take the backend's copy of a key back to an older payload.    *)
(***************************************************************************)
THEOREM RegressOnlyByLateRequest == Spec => OnlyLateRequestsRegress
<1>1. TypeOK /\ Ordering /\ [Next]_vars
        => [\A k \in Keys : backend'[k] < backend[k] => <<k, backend'[k]>> \in late]_vars
  <2> SUFFICES ASSUME TypeOK, Ordering, Next, NEW k \in Keys, backend'[k] < backend[k]
               PROVE  <<k, backend'[k]>> \in late
    OBVIOUS
  <2>1. backend[k] \in Nat
    BY VersionsAreNat DEF TypeOK, ShipperTypeOK
  <2>2. backend'[k] # backend[k]
    BY <2>1
  <2>3. ShipperOnly(ShipperStep)
    BY <2>2 DEF Next, Publish, Crash, ShipperCrash, shipperVars
  <2>4. CASE BackendTakes
    <3>1. k = cur.key /\ backend'[k] = cur.ver
      BY <2>2, <2>4 DEF BackendTakes, TypeOK, ShipperTypeOK
    <3>2. backend[k] =< cur.ver /\ cur.ver \in Nat
      BY <2>4, <3>1, VersionsAreNat DEF BackendTakes, Ordering, TypeOK, ShipperTypeOK, Request
    <3> QED
      BY <2>1, <3>1, <3>2
  <2>5. ASSUME NEW j \in Keys, NEW v \in Versions, LateArrival(j, v)
        PROVE  <<k, backend'[k]>> \in late
    BY <2>2, <2>5 DEF LateArrival, TypeOK, ShipperTypeOK
  <2> QED
    BY <2>2, <2>3, <2>4, <2>5
       DEF ShipperOnly, ShipperStep, StartRound, CutRound, ReadFails, HoldTooLarge, Post,
           PostFails, BackendRefuses, Acknowledged, RemoveDelivered, RemoveFails, Hold,
           Halt, Defer
<1> QED
  BY <1>1, TypeCorrect, OrderingInvariant, PTL DEF Spec, OnlyLateRequestsRegress

-----------------------------------------------------------------------------
\* The outbox as Delivery's state shows it.
Box == [k \in Keys |-> files[k].ver]
Receipt == IF pc = "posting" /\ answer = "2xx" THEN <<cur.key, cur.ver>> ELSE <<NoKey, 0>>

\* A step that leaves the names, the fates and the backend alone, and shows no
\* new receipt, is invisible or loses a receipt.
LEMMA QuietStep ==
  ASSUME Box' = Box, fate' = fate, backend' = backend,
         Receipt' = Receipt \/ Receipt' = <<NoKey, 0>>
  PROVE  [O!Next]_(O!vars)
  BY DEF O!Next, O!LoseReceipt, O!vars, Box, Receipt

\* A name that becomes empty while nothing is owed for it is a Discard.
LEMMA DiscardStep ==
  ASSUME NEW k \in Keys, fate[k] # "spooled", Box' = [Box EXCEPT ![k] = 0],
         fate' = fate, backend' = backend, Receipt' = Receipt
  PROVE  [O!Next]_(O!vars)
  BY DEF O!Next, O!Discard, O!vars, Box, Receipt

\* The spool's steps, as the outbox sees them: a sweep evicts what it listed,
\* and discards what was settled or exposed.
LEMMA SpoolStepOutbox ==
  ASSUME TypeOK, Accounting, SpoolStep, UNCHANGED <<shipperVars, crashes>>
  PROVE  [O!Next]_(O!vars)
<1>1. backend' = backend /\ Receipt' = Receipt
  BY DEF shipperVars, Receipt
<1>2. CASE files' = files /\ fate' = fate
  BY <1>1, <1>2, QuietStep DEF Box
<1>3. ASSUME NEW k \in Keys, NEW m \in Versions, SweepRemove(k, m)
      PROVE  [O!Next]_(O!vars)
  <2>1. Box' = [Box EXCEPT ![k] = 0]
    BY <1>3 DEF SweepRemove, Unlink, Absent, Box, TypeOK, DirTypeOK
  <2>2. CASE fate[k] = "spooled"
    <3>1. files[k].ver = m
      BY <1>3, <2>2 DEF SweepRemove, Accounting, LatestAccounted, Present
    <3>2. fate' = [fate EXCEPT ![k] = "evicted"]
      BY <1>3, <2>2, <3>1 DEF SweepRemove, Settle
    <3> QED
      BY <1>1, <2>1, <2>2, <3>2 DEF O!Next, O!Evict, O!vars, Box, Receipt
  <2>3. CASE fate[k] # "spooled"
    <3>1. fate' = fate
      BY <1>3, <2>3 DEF SweepRemove, Settle
    <3> QED
      BY <1>1, <2>1, <2>3, <3>1, DiscardStep
  <2> QED
    BY <2>2, <2>3
<1> QED
  BY <1>2, <1>3 DEF SpoolStep, WriteTemp, PublishFails, SweepList, SweepFails,
                        SweepRemoveTemp, dirVars

\* The shipper's steps, as the outbox sees them: an answer that names the file
\* as it is accepts it, and a removal finds nothing owed.
LEMMA ShipperStepOutbox ==
  ASSUME TypeOK, Accounting, ShipperOnly(ShipperStep)
  PROVE  [O!Next]_(O!vars)
<1>1. CASE /\ UNCHANGED <<files, fate, backend>>
           /\ Receipt' = Receipt \/ Receipt' = <<NoKey, 0>>
  BY <1>1, QuietStep DEF Box
<1>2. CASE BackendTakes
  <2>1. cur.key \in Keys /\ cur.ver \in Versions
    BY <1>2 DEF BackendTakes, TypeOK, ShipperTypeOK, Request
  <2>2. /\ backend' = [backend EXCEPT ![cur.key] = cur.ver]
        /\ Receipt' = <<cur.key, cur.ver>>
        /\ Box' = Box /\ fate' = fate
    BY <1>2 DEF BackendTakes, dirVars, Box, Receipt
  <2> QED
    BY <2>1, <2>2 DEF O!Next, O!Take, O!vars, Box, Receipt
<1>3. ASSUME NEW k \in Keys, NEW v \in Versions, LateArrival(k, v)
      PROVE  [O!Next]_(O!vars)
  <2>1. /\ backend' = [backend EXCEPT ![k] = v]
        /\ Receipt' = Receipt /\ Box' = Box /\ fate' = fate
    BY <1>3 DEF LateArrival, dirVars, Box, Receipt
  <2> QED
    BY <2>1 DEF O!Next, O!Take, O!vars, Box, Receipt
<1>4. CASE Acknowledged
  <2>1. /\ cur.key \in Keys
        /\ Box' = Box /\ backend' = backend
        /\ Receipt = <<cur.key, cur.ver>> /\ Receipt' = <<NoKey, 0>>
    BY <1>4 DEF Acknowledged, Box, Receipt, TypeOK, ShipperTypeOK
  <2>2. CASE fate[cur.key] = "spooled" /\ files[cur.key].ver = cur.ver
    <3>1. fate' = [fate EXCEPT ![cur.key] = "accepted"]
      BY <1>4, <2>2 DEF Acknowledged, Settle
    <3>2. Receipt = <<cur.key, Box[cur.key]>>
      BY <2>1, <2>2 DEF Box
    <3> QED
      BY <2>1, <2>2, <3>1, <3>2 DEF O!Next, O!Accept, O!vars, Box, Receipt
  <2>3. CASE ~(fate[cur.key] = "spooled" /\ files[cur.key].ver = cur.ver)
    <3>1. fate' = fate
      BY <1>4, <2>3 DEF Acknowledged, Settle
    <3> QED
      BY <2>1, <3>1, QuietStep
  <2> QED
    BY <2>2, <2>3
<1>5. CASE RemoveDelivered
  <2>1. /\ cur.key \in Keys /\ fate[cur.key] # "spooled"
        /\ Box' = [Box EXCEPT ![cur.key] = 0]
        /\ fate' = fate /\ backend' = backend /\ Receipt' = Receipt
    BY <1>5 DEF RemoveDelivered, Unlink, Absent, Box, Receipt, Accounting, TypeOK,
                DirTypeOK, ShipperTypeOK
  <2> QED
    BY <2>1, DiscardStep
<1>6. CASE \/ StartRound \/ CutRound \/ PostFails \/ BackendRefuses
           \/ RemoveFails \/ Hold \/ Halt \/ Defer
  BY <1>1, <1>6 DEF StartRound, CutRound, PostFails, BackendRefuses, RemoveFails, Hold,
                    Halt, Defer, dirVars, Receipt
<1>7. ASSUME NEW k \in Keys, NEW m \in Versions,
             ReadFails(k, m) \/ HoldTooLarge(k, m) \/ Post(k, m)
      PROVE  [O!Next]_(O!vars)
  BY <1>1, <1>7 DEF ReadFails, HoldTooLarge, Post, AtHead, dirVars, Receipt
<1> QED
  BY <1>2, <1>3, <1>4, <1>5, <1>6, <1>7 DEF ShipperOnly, ShipperStep

\* Init establishes Fresher and every step keeps it: a name is emptied or takes
\* its own temp file, and a sweep that takes a temp file being written leaves none
\* to rename.
LEMMA FresherInvariant == Spec => []Fresher
<1>1. Init => Fresher
  BY DEF Init, SpoolInit, Fresher
<1>2. TypeOK /\ Ordering /\ Fresher /\ [Next]_vars => Fresher'
  <2> SUFFICES ASSUME TypeOK, Ordering, Fresher, [Next]_vars, NEW k \in writing', HasTemp(k)'
               PROVE  files'[k].ver < tmp'[k].ver
    BY DEF Fresher
  <2>1. /\ writing \subseteq Keys
        /\ clock \in Nat
        /\ \A j \in Keys : files[j].ver \in Nat /\ tmp[j].ver \in Nat
    BY VersionsAreNat DEF TypeOK, DirTypeOK, SpoolTypeOK, File
  <2>2. CASE /\ k \in writing
             /\ tmp'[k] = tmp[k]
             /\ files'[k] = files[k] \/ files'[k] = Absent
    BY <2>1, <2>2 DEF Fresher, HasTemp, Absent
  <2>3. ASSUME NEW j \in Keys, WriteTemp(j) PROVE files'[k].ver < tmp'[k].ver
    <3>1. CASE k = j
      <4>1. tmp'[k].ver = clock + 1 /\ files' = files
        BY <2>3, <3>1 DEF WriteTemp, TypeOK, DirTypeOK
      <4>2. files[k].ver =< clock
        BY <2>3, <3>1 DEF Ordering, NoNewer
      <4> QED
        BY <2>1, <2>3, <3>1, <4>1, <4>2
    <3>2. CASE k # j
      <4>1. k \in writing /\ tmp'[k] = tmp[k] /\ files'[k] = files[k]
        BY <2>1, <2>3, <3>2 DEF WriteTemp, TypeOK, DirTypeOK
      <4> QED
        BY <2>2, <4>1
    <3> QED
      BY <3>1, <3>2
  <2>4. ASSUME NEW j \in Keys, Publish(j) PROVE files'[k].ver < tmp'[k].ver
    <3>1. k \in writing /\ k # j
      BY <2>4 DEF Publish, RenameTemp
    <3>2. tmp'[k] = tmp[k] /\ files'[k] = files[k]
      BY <2>1, <2>4, <3>1 DEF Publish, RenameTemp, TypeOK, DirTypeOK
    <3> QED
      BY <2>2, <3>1, <3>2
  <2>5. ASSUME NEW j \in Keys, SweepRemoveTemp(j) PROVE files'[k].ver < tmp'[k].ver
    <3>1. k \in writing /\ files' = files
      BY <2>5 DEF SweepRemoveTemp
    <3>2. tmp'[k] = tmp[k] \/ tmp'[k] = Absent
      BY <2>1, <2>5, <3>1 DEF SweepRemoveTemp, TypeOK, DirTypeOK
    <3>3. tmp'[k] = tmp[k]
      BY <3>2 DEF HasTemp, Absent
    <3> QED
      BY <2>2, <3>1, <3>3
  <2>6. ASSUME NEW j \in Keys, NEW m \in Versions, SweepRemove(j, m)
        PROVE  files'[k].ver < tmp'[k].ver
    <3>1. k \in writing /\ tmp' = tmp /\ (files'[k] = files[k] \/ files'[k] = Absent)
      BY <2>1, <2>6 DEF SweepRemove, Unlink, TypeOK, DirTypeOK
    <3> QED
      BY <2>2, <3>1
  <2>7. CASE ShipperOnly(RemoveDelivered)
    <3>1. k \in writing /\ tmp' = tmp /\ (files'[k] = files[k] \/ files'[k] = Absent)
      BY <2>1, <2>7 DEF ShipperOnly, RemoveDelivered, Unlink, spoolVars, sweep, TypeOK, DirTypeOK
    <3> QED
      BY <2>2, <3>1
  <2>8. CASE k \in writing /\ UNCHANGED <<files, tmp>>
    BY <2>2, <2>8
  <2>9. CASE ShipperOnly(ShipperStep)
    BY <2>7, <2>8, <2>9
       DEF ShipperOnly, ShipperStep, spoolVars, sweep, dirVars, StartRound, CutRound, ReadFails,
           HoldTooLarge, Post, LateArrival, PostFails, BackendTakes, BackendRefuses,
           Acknowledged, RemoveFails, Hold, Halt, Defer
  <2>10. CASE SpoolStep
    BY <2>3, <2>5, <2>6, <2>8, <2>10 DEF SpoolStep, PublishFails, SweepList, SweepFails, dirVars
  <2>11. CASE Crash
    BY <2>11 DEF Crash, SpoolCrash
  <2>12. CASE UNCHANGED vars
    BY <2>8, <2>12 DEF vars, dirVars, spoolVars, sweep
  <2> QED
    BY <2>4, <2>9, <2>10, <2>11, <2>12 DEF Next
<1> QED
  BY <1>1, <1>2, TypeCorrect, OrderingInvariant, PTL DEF Spec

(***************************************************************************)
(* For any number of keys, inodes, payloads and crashes: the delivery path *)
(* implements the outbox.  Publishing, sweeping, shipping and crashing map *)
(* to puts, takes, acceptances, evictions and discards (publish, Sweep,    *)
(* deliver and acknowledged).                                              *)
(***************************************************************************)
THEOREM ImplementsOutbox == Spec => DeliversAsOutbox
<1>1. Init => O!Init
  BY DEF Init, DirInit, ShipperInit, O!Init, Absent
<1>2. TypeOK /\ Accounting /\ Fresher /\ [Next]_vars => [O!Next]_(O!vars)
  <2> SUFFICES ASSUME TypeOK, Accounting, Fresher, [Next]_vars PROVE [O!Next]_(O!vars)
    OBVIOUS
  <2>1. ASSUME NEW k \in Keys, Publish(k) PROVE [O!Next]_(O!vars)
    <3>1. /\ Box' = [Box EXCEPT ![k] = tmp[k].ver]
          /\ backend' = backend /\ Receipt' = Receipt
      BY <2>1 DEF Publish, RenameTemp, Box, Receipt, shipperVars, TypeOK, DirTypeOK
    <3>2. \E f \in {"spooled", "exposed"} : fate' = [fate EXCEPT ![k] = f]
      BY <2>1 DEF Publish, RenameTemp
    <3>3. tmp[k].ver \in Versions
      BY DEF TypeOK, DirTypeOK, File
    <3>4. tmp[k].ver > Box[k]
      <4>1. files[k].ver < tmp[k].ver /\ files[k].ver \in Nat /\ tmp[k].ver \in Nat
        BY <2>1, VersionsAreNat
           DEF Publish, RenameTemp, HasTemp, Fresher, TypeOK, DirTypeOK, File
      <4> QED
        BY <4>1 DEF Box
    <3> QED
      BY <3>1, <3>2, <3>3, <3>4 DEF O!Next, O!Put, O!vars, Box, Receipt
  <2>2. CASE Crash
    <3>1. Box' = Box /\ fate' = fate /\ backend' = backend /\ Receipt' = <<NoKey, 0>>
      BY <2>2 DEF Crash, SpoolCrash, ShipperCrash, dirVars, Box, Receipt
    <3> QED
      BY <3>1, QuietStep
  <2>3. CASE UNCHANGED vars
    <3>1. Box' = Box /\ fate' = fate /\ backend' = backend /\ Receipt' = Receipt
      BY <2>3 DEF vars, dirVars, shipperVars, Box, Receipt
    <3> QED
      BY <3>1, QuietStep
  <2> QED
    BY <2>1, <2>2, <2>3, SpoolStepOutbox, ShipperStepOutbox DEF Next
<1> QED
  BY <1>1, <1>2, TypeCorrect, AccountingInvariant, FresherInvariant, PTL
     DEF Spec, DeliversAsOutbox, O!Spec
=============================================================================
