-------------------------------- MODULE Spool --------------------------------
(***************************************************************************)
(* The spool's writers and its sweep (internal/sink/spool.go).  Writers    *)
(* run on several goroutines, one per key; the sweep runs on the periodic  *)
(* pass, concurrently with the writers of the usage poller and of the      *)
(* informer callbacks, and with the shipper.                               *)
(***************************************************************************)
EXTENDS SpoolDir

CONSTANT MaxFiles   \* the spool's file-count ceiling

ASSUME MaxFilesAssumption == MaxFiles \in Nat \ {0}

VARIABLES writing,  \* keys whose publish has created its temp file
          victims,  \* <<key, mtime>> the running sweep has yet to remove
          strays    \* keys whose orphaned temp file it has yet to remove

sweep == <<victims, strays>>
spoolVars == <<writing, sweep>>

SpoolTypeOK == /\ writing \in SUBSET Keys
               /\ victims \in SUBSET (Keys \X Versions)
               /\ strays \in SUBSET Keys

SpoolInit == /\ writing = {}
             /\ victims = {} /\ strays = {}

-----------------------------------------------------------------------------
(* publish: WriteFile(name.tmp), then Rename.                              *)

\* os.WriteFile creates name.tmp, or truncates the one an earlier failed
\* publish left there and so keeps its inode.
WriteTemp(k) ==
  /\ k \notin writing
  /\ clock < MaxVer
  /\ clock' = clock + 1
  /\ \E i \in IF HasTemp(k) THEN {tmp[k].ino} ELSE FreeInodes :
       tmp' = [tmp EXCEPT ![k] = [ver |-> clock + 1, ino |-> i]]
  /\ writing' = writing \cup {k}
  /\ UNCHANGED <<files, fate, sweep>>

\* os.Rename replaces whatever held the name; f is the new payload's fate.
RenameTemp(k, f) ==
  /\ k \in writing
  /\ HasTemp(k)
  /\ files' = [files EXCEPT ![k] = tmp[k]]
  /\ tmp' = [tmp EXCEPT ![k] = Absent]
  /\ writing' = writing \ {k}
  /\ fate' = [fate EXCEPT ![k] = f]
  /\ UNCHANGED <<clock, sweep>>

\* The write or the rename failed, the latter also when a sweep took the temp file:
\* what there is of it stays, the name is untouched.
PublishFails(k) ==
  /\ k \in writing
  /\ writing' = writing \ {k}
  /\ UNCHANGED <<dirVars, sweep>>

-----------------------------------------------------------------------------
(* Sweep: one listing decides, then the victims are removed by name.       *)

\* How many of the kept files go so that the count, and the bytes, fit.  The
\* bytes are abstracted: `heavy` oldest files must go for them to fit.
Excess(kept, temps, heavy) ==
  LET over == Cardinality(kept) + Cardinality(temps)
  IN  IF over > MaxFiles /\ over - MaxFiles > heavy THEN over - MaxFiles ELSE heavy

OldestOf(kept, n) ==
  {k \in kept : Cardinality({j \in kept : files[j].ver =< files[k].ver}) =< n}

\* A temp file older than `tempCutoff` is an orphan, unless its write is in
\* progress (none lasts a minute).
Orphans(tempCutoff) ==
  {k \in Keys \ writing : HasTemp(k) /\ tmp[k].ver < tempCutoff}

\* A payload older than `cutoff` has expired; of the rest the oldest go until
\* the directory fits its ceilings.
Condemned(cutoff, tempCutoff, heavy) ==
  LET expired == {k \in Keys : Present(k) /\ files[k].ver < cutoff}
      kept    == {k \in Keys : Present(k)} \ expired
      temps   == {k \in Keys : HasTemp(k)} \ Orphans(tempCutoff)
  IN  expired \cup OldestOf(kept, Excess(kept, temps, heavy))

\* The cutoffs and `heavy` stand for the clock and for the files' sizes.
SweepList(cutoff, tempCutoff, heavy) ==
  /\ victims = {} /\ strays = {}
  /\ victims' = {<<k, files[k].ver>> : k \in Condemned(cutoff, tempCutoff, heavy)}
  /\ strays' = Orphans(tempCutoff)
  /\ UNCHANGED <<dirVars, writing>>

\* A victim goes, by name: whatever file holds the name now.  The expired and the
\* orphans go in the listing's order and the rest oldest first; the order is
\* left open.
SweepRemove(k, m) ==
  /\ <<k, m>> \in victims
  /\ Unlink(k)
  /\ Settle(k, m, "evicted")
  /\ victims' = victims \ {<<k, m>>}
  /\ UNCHANGED <<tmp, clock, writing, strays>>

\* So does an orphaned temp file, which a publish may by now be writing again.
SweepRemoveTemp(k) ==
  /\ k \in strays
  /\ tmp' = [tmp EXCEPT ![k] = Absent]
  /\ strays' = strays \ {k}
  /\ UNCHANGED <<files, clock, fate, writing, victims>>

\* A removal that fails ends the sweep.
SweepFails ==
  /\ victims # {} \/ strays # {}
  /\ victims' = {} /\ strays' = {}
  /\ UNCHANGED <<dirVars, writing>>

SpoolStep ==
  \/ \E k \in Keys : WriteTemp(k) \/ PublishFails(k)
  \/ \E c \in 1 .. MaxVer, t \in 1 .. MaxVer + 1, h \in 0 .. Cardinality(Keys) :
       c =< t /\ SweepList(c, t, h)
  \/ \E k \in Keys, m \in Versions : SweepRemove(k, m)
  \/ \E k \in Keys : SweepRemoveTemp(k)
  \/ SweepFails

\* A crash forgets what was in progress; the directory survives it.
SpoolCrash == /\ writing' = {}
              /\ victims' = {} /\ strays' = {}
              /\ UNCHANGED dirVars
=============================================================================
