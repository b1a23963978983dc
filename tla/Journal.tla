------------------------------- MODULE Journal -------------------------------
(***************************************************************************)
(* The event journals (internal/journal: restarts, disruptions, job runs,  *)
(* node lifecycle) from the informer handler that stamps an event to the   *)
(* window file in the spool, with the flush pass that runs concurrently    *)
(* and the recovery of open windows after a restart of the container.      *)
(*                                                                         *)
(* Time is the index of the current wall-clock window.  A record is the    *)
(* event it came from; a window with no record has no file.                *)
(***************************************************************************)
EXTENDS Integers, FiniteSets

CONSTANTS Events,
          Dated,      \* events whose instant the cluster recorded
          Replayed,   \* events whose object a restarted watcher sees again
          MaxWindow,  \* bound: the last window
          MaxFaults   \* bound: crashes and failed writes

ASSUME JournalAssumption ==
  /\ Dated \subseteq Events /\ Replayed \subseteq Events
  /\ MaxWindow \in Nat /\ MaxFaults \in Nat

Windows == 0 .. MaxWindow
NoFile == [recs |-> {}, final |-> FALSE]
Payload == [recs : SUBSET Events, final : BOOLEAN]
NotYet == -1
Nothing == [w \in Windows |-> {}]

VARIABLES now,      \* the window the clock is in
          up,       \* the controller process runs
          stamp,    \* event -> the window of its instant
          objects,  \* events whose object exists in the cluster
          waiting,  \* events the informer has yet to deliver to this process
          handling, \* the event a handler has stamped and not yet filed
          open,     \* the accumulator: window -> records
          flush,    \* "idle", "closed" or "writing"
          flushNow, \* the pass's one reading of the clock
          batch,    \* window -> records the pass has yet to write
          file,     \* window -> its payload in the spool, or NoFile
          written,  \* ghost: window -> the last payload published for it
          released, \* ghost: windows memory has let go of
          faults

process == <<handling, open, flush, flushNow, batch>>
journalVars == <<now, up, stamp, objects, waiting, process, file, written, released, faults>>

JournalTypeOK ==
  /\ now \in Windows /\ up \in BOOLEAN
  /\ stamp \in [Events -> Windows \cup {NotYet}]
  /\ objects \in SUBSET Events /\ waiting \in SUBSET Events
  /\ handling \in SUBSET Events
  /\ \A e \in objects \cup waiting \cup handling : stamp[e] # NotYet
  /\ open \in [Windows -> SUBSET Events]
  /\ flush \in {"idle", "closed", "writing"} /\ flushNow \in Windows
  /\ batch \in [Windows -> SUBSET Events]
  /\ file \in [Windows -> Payload] /\ written \in [Windows -> Payload]
  /\ released \in SUBSET Windows /\ faults \in 0 .. MaxFaults

JournalInit ==
  /\ now = 0 /\ up = TRUE
  /\ stamp = [e \in Events |-> NotYet]
  /\ objects = {} /\ waiting = {} /\ handling = {}
  /\ open = Nothing
  /\ flush = "idle" /\ flushNow = 0 /\ batch = Nothing
  /\ file = [w \in Windows |-> NoFile]
  /\ written = [w \in Windows |-> NoFile]
  /\ released = {} /\ faults = 0

-----------------------------------------------------------------------------
\* The cluster and the clock.
JournalTick ==
  /\ now < MaxWindow
  /\ now' = now + 1
  /\ UNCHANGED <<up, stamp, objects, waiting, process, file, written, released, faults>>

\* The event happens and its object records it: a pod's condition, a finished
\* Job, a restart counter's advance, a node.
Happen(e) == /\ stamp[e] = NotYet
             /\ stamp' = [stamp EXCEPT ![e] = now]
             /\ objects' = objects \cup {e}
             /\ waiting' = waiting \cup {e}
             /\ UNCHANGED <<now, up, process, file, written, released, faults>>

\* The object is deleted: its dedup entry goes, and nobody sees it again.
Delete(e) == /\ e \in objects
             /\ objects' = objects \ {e}
             /\ waiting' = waiting \ {e}
             /\ UNCHANGED <<now, up, stamp, process, file, written, released, faults>>

-----------------------------------------------------------------------------
\* Fault, not the code: every event gets this process's clock.
ReportStampsNow(e) ==
  /\ up /\ handling = {} /\ e \in waiting
  /\ waiting' = waiting \ {e}
  /\ handling' = {e}
  /\ stamp' = [stamp EXCEPT ![e] = now]
  /\ UNCHANGED <<now, up, objects, open, flush, flushNow, batch,
                 file, written, released, faults>>

\* The informer goroutine.  reportDisruptions, reportJobRun, reportRestarts,
\* reportJoin, reportDeparture: the dedup lets an event through once, and an
\* event the cluster did not date gets this process's clock.
Report(e) == /\ up /\ handling = {} /\ e \in waiting
             /\ waiting' = waiting \ {e}
             /\ handling' = {e}
             /\ stamp' = IF e \in Dated THEN stamp ELSE [stamp EXCEPT ![e] = now]
             /\ UNCHANGED <<now, up, objects, open, flush, flushNow, batch,
                            file, written, released, faults>>

\* Observe, under the journal's lock, files it in the window of its instant.
Observe(e) == /\ e \in handling
              /\ open' = [open EXCEPT ![stamp[e]] = @ \cup {e}]
              /\ handling' = {}
              /\ UNCHANGED <<now, up, stamp, objects, waiting, flush, flushNow, batch,
                             file, written, released, faults>>

-----------------------------------------------------------------------------
\* Fault, not the code: the closed records are dropped, not returned.
CloseDrops ==
  /\ up /\ flush = "idle"
  /\ flushNow' = now
  /\ batch' = Nothing
  /\ open' = [w \in Windows |-> IF w < now THEN {} ELSE open[w]]
  /\ flush' = "closed"
  /\ UNCHANGED <<now, up, stamp, objects, waiting, handling, file, written, released, faults>>

\* The flush pass.  CloseBefore: the windows that have ended leave memory.
CloseBefore ==
  /\ up /\ flush = "idle"
  /\ flushNow' = now
  /\ batch' = [w \in Windows |-> IF w < now THEN open[w] ELSE {}]
  /\ open' = [w \in Windows |-> IF w < now THEN {} ELSE open[w]]
  /\ flush' = "closed"
  /\ UNCHANGED <<now, up, stamp, objects, waiting, handling, file, written, released, faults>>

\* Snapshots, under a second acquisition of the lock.
Snapshots ==
  /\ flush = "closed"
  /\ batch' = [w \in Windows |-> batch[w] \cup open[w]]
  /\ flush' = "writing"
  /\ UNCHANGED <<now, up, stamp, objects, waiting, handling, open, flushNow,
                 file, written, released, faults>>

\* One window's file, in the order of a map's iteration.
Write(w) ==
  /\ flush = "writing" /\ batch[w] # {}
  /\ file' = [file EXCEPT ![w] = [recs |-> batch[w], final |-> flushNow > w]]
  /\ written' = [written EXCEPT ![w] = [recs |-> batch[w], final |-> flushNow > w]]
  /\ batch' = [batch EXCEPT ![w] = {}]
  /\ released' = IF flushNow > w THEN released \cup {w} ELSE released
  /\ UNCHANGED <<now, up, stamp, objects, waiting, handling, open, flush, flushNow, faults>>

\* A write fails: the pass stops there and the rest of the batch is dropped.
WriteFails ==
  /\ flush = "writing" /\ \E w \in Windows : batch[w] # {}
  /\ faults < MaxFaults
  /\ faults' = faults + 1
  /\ released' = released \cup {w \in Windows : batch[w] # {} /\ flushNow > w}
  /\ batch' = Nothing
  /\ flush' = "idle"
  /\ UNCHANGED <<now, up, stamp, objects, waiting, handling, open, flushNow, file, written>>

Flushed ==
  /\ flush = "writing" /\ batch = Nothing
  /\ flush' = "idle"
  /\ UNCHANGED <<now, up, stamp, objects, waiting, handling, open, flushNow, batch,
                 file, written, released, faults>>

-----------------------------------------------------------------------------
\* A file leaves the spool: acknowledged by the backend, or swept.
Leave(w) ==
  /\ file[w] # NoFile
  /\ file' = [file EXCEPT ![w] = NoFile]
  /\ UNCHANGED <<now, up, stamp, objects, waiting, process, written, released, faults>>

\* The process dies; what it held in memory is gone and the spool stays.
JournalCrash ==
  /\ up
  /\ faults < MaxFaults
  /\ faults' = faults + 1
  /\ up' = FALSE
  /\ handling' = {} /\ open' = Nothing
  /\ flush' = "idle" /\ batch' = Nothing
  /\ UNCHANGED <<now, stamp, objects, waiting, flushNow, file, written, released>>

\* Fault, not the code: no window is resumed.
RestartEmpty ==
  /\ ~up
  /\ up' = TRUE
  /\ open' = Nothing
  /\ waiting' = objects \cap Replayed
  /\ released' = released \cup {w \in Windows : w < now \/ file[w] # written[w]}
  /\ UNCHANGED <<now, stamp, objects, handling, flush, flushNow, batch, file, written, faults>>

\* RecoverOpenWindows and Resume, then the watchers list what exists.
Restart ==
  /\ ~up
  /\ up' = TRUE
  /\ open' = [w \in Windows |-> IF w >= now THEN file[w].recs ELSE {}]
  /\ waiting' = objects \cap Replayed
  /\ released' = released \cup {w \in Windows : w < now \/ file[w] # written[w]}
  /\ UNCHANGED <<now, stamp, objects, handling, flush, flushNow, batch, file, written, faults>>

JournalNext ==
  \/ JournalTick
  \/ \E e \in Events : Happen(e) \/ Delete(e) \/ Report(e) \/ Observe(e)
  \/ CloseBefore \/ Snapshots \/ WriteFails \/ Flushed
  \/ \E w \in Windows : Write(w) \/ Leave(w)
  \/ JournalCrash \/ Restart

JournalSpec == JournalInit /\ [][JournalNext]_journalVars

\* The informer and the ticker keep running, and a dead container is restarted.
JournalFairness ==
  /\ \A e \in Events : WF_journalVars(Observe(e))
  /\ WF_journalVars(CloseBefore \/ Snapshots \/ Flushed \/ \E w \in Windows : Write(w))
  /\ WF_journalVars(Restart)

JournalFairSpec == JournalSpec /\ JournalFairness

-----------------------------------------------------------------------------
(***************************************************************************)
(* What a pass publishes for a window still holds everything published for *)
(* it before, across crashes, restarts, failed writes and deliveries, as   *)
(* long as memory has not let go of the window: it was written as ended,   *)
(* its last write failed, or a restart found it ended or its file gone.    *)
(* The backend keeps the last payload, so a subset would erase records.    *)
(* About CloseBefore, Snapshots, Resume and RecoverOpenWindows.            *)
(***************************************************************************)
SlicesOnlyGrow ==
  [][\A w \in Windows : w \notin released => written[w].recs \subseteq written'[w].recs]_journalVars

(***************************************************************************)
(* An event the cluster dates is filed in one window only, however often   *)
(* restarts make the watcher report it again.  About Observe's key and     *)
(* disruptionOf, jobOutcomeOf and reportJoin.                              *)
(***************************************************************************)
DatedFiledOnce ==
  \A e \in Dated, w \in Windows : e \in written[w].recs => w = stamp[e]

(***************************************************************************)
(* A record in the accumulator is published under its window, unless the   *)
(* process dies or a write fails first.                                    *)
(***************************************************************************)
FiledIsPublished ==
  \A e \in Events, w \in Windows :
    (e \in open[w]) ~> (e \in written[w].recs \/ faults > 0)

(***************************************************************************)
(* ADR 0078: a payload captured at or after its window's end is final, and *)
(* nothing is written under that key again.                                *)
(***************************************************************************)
FinalIsFinal ==
  [][\A w \in Windows : written[w].final => written'[w] = written[w]]_journalVars

(***************************************************************************)
(* Disruptions.Observe's comment: the same pod reported twice, after an    *)
(* agent restart, rewrites its own record rather than appearing twice.     *)
(***************************************************************************)
ReportedIntoOneWindow ==
  \A e \in Replayed : Cardinality({w \in Windows : e \in written[w].recs}) =< 1
=============================================================================
