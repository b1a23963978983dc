--------------------------- MODULE PeriodicProofs ---------------------------
(***************************************************************************)
(* Proofs about the agent's periodic work, for any number of keys, events, *)
(* windows, workloads and faults.                                          *)
(*                                                                         *)
(* Cadence.  The gate's promises rest on one fact, GateIsHonest: what the  *)
(* gate remembers of a key is what last landed under it.                   *)
(*                                                                         *)
(* Journal.  SlicesOnlyGrow needs to know where the published records of a *)
(* window are while they are not in the spool: Kept says so.               *)
(*                                                                         *)
(* Pprof.  AskedInv: an answer that does not expire is remembered as long  *)
(* as the prober runs; BudgetInv: every request of a round is counted.     *)
(***************************************************************************)
EXTENDS Cadence, Journal, Pprof, FiniteSetTheorems, TLAPS

-----------------------------------------------------------------------------
(* The cadence gate. *)

USE ZenonT(3), SMTT(30)

LEMMA FingerprintIsState ==
  \A k, t : Fingerprint(Encoded(k, t)) = content[k]
  BY DEF Fingerprint, Encoded

GateIsHonest ==
  \A k \in GatedKeys : Trigger[k] = "changed" /\ last[k].at # -1 => last[k] = landed[k]

CadenceIInv == CadenceTypeOK /\ GateIsHonest /\ SilenceBounded /\ ChangeSpoken

LEMMA StartIsNat == ASSUME CadenceTypeOK PROVE Start \in Nat
  <1>1. pass \in Nat /\ Period \in Nat
    BY CadenceAssumption DEF CadenceAssumption, CadenceTypeOK
  <1> QED BY <1>1, SMT DEF Start

\* Unseen is an entry as soon as there is a fingerprint at all.
LEMMA UnseenIsEntry == ASSUME Prints # {} PROVE Unseen \in Entry /\ Unseen.at = -1
  <1>1. (CHOOSE p \in Prints : TRUE) \in Prints OBVIOUS
  <1> QED BY <1>1 DEF Unseen, Entry

LEMMA CadenceInitIInv == ASSUME CadenceInit PROVE CadenceIInv
  <1>1. CadenceTypeOK
    <2>1. CASE GatedKeys = {}
      <3>1. last \in [GatedKeys -> Entry] /\ landed \in [GatedKeys -> Entry] BY <2>1 DEF CadenceInit
      <3> QED BY <3>1, CadenceAssumption DEF CadenceInit, CadenceTypeOK, CadenceAssumption
    <2>2. CASE GatedKeys # {}
      <3>1. Prints # {} BY <2>2 DEF CadenceInit
      <3>2. Unseen \in Entry BY <3>1, UnseenIsEntry
      <3> QED BY <3>2, CadenceAssumption DEF CadenceInit, CadenceTypeOK, CadenceAssumption
    <2> QED BY <2>1, <2>2
  <1>2. GateIsHonest BY DEF CadenceInit, GateIsHonest
  <1>3. SilenceBounded /\ ChangeSpoken BY DEF CadenceInit, SilenceBounded, ChangeSpoken
  <1> QED BY <1>1, <1>2, <1>3 DEF CadenceIInv

\* The type of an entry written by Land.
LEMMA LandTypeOK ==
  ASSUME CadenceTypeOK, NEW k \in GatedKeys, NEW d \in 0 .. Slack, NEW l \in 0 .. Slack - d,
         Land(k, Start + d, Start + d + l)
  PROVE  CadenceTypeOK'
  <1> DEFINE e == [at |-> Start + d + l, fp |-> content[k]]
  <1>1. Start + d + l \in Int
    BY StartIsNat, CadenceAssumption DEF CadenceAssumption
  <1>2. e \in Entry BY <1>1 DEF Entry, CadenceTypeOK
  <1>3. landed' = [landed EXCEPT ![k] = e] /\ last' \in {last, [last EXCEPT ![k] = e]}
    BY FingerprintIsState DEF Land, CadenceTypeOK
  <1>4. landed' \in [GatedKeys -> Entry] /\ last' \in [GatedKeys -> Entry]
    BY <1>2, <1>3 DEF CadenceTypeOK
  <1> QED BY <1>4 DEF Land, CadenceTypeOK

\* A suppressed write: the gate answered for a landing recent enough.
LEMMA SuppressIInv ==
  ASSUME CadenceIInv, NEW k \in GatedKeys, NEW d \in 0 .. Slack, Suppress(k, Start + d)
  PROVE  CadenceIInv'
  <1>1. CadenceTypeOK' BY DEF CadenceIInv, CadenceTypeOK, Suppress
  <1>2. GateIsHonest' BY DEF CadenceIInv, GateIsHonest, Suppress
  <1>3. Start \in Nat /\ Start' = Start
    BY StartIsNat DEF CadenceIInv, Suppress, Start
  <1>4. last[k] = landed[k] /\ landed[k].at # -1
    BY DEF Suppress, Due, CadenceIInv, GateIsHonest
  <1>5. landed[k].at \in Int BY DEF CadenceIInv, CadenceTypeOK, Entry
  <1>6. /\ Start - landed[k].at < Ceiling
        /\ landed[k].fp = content[k] \/ Start - landed[k].at < Floor
    <2>1. ~Due(k, Start + d) BY DEF Suppress
    <2>2. Fingerprint(Encoded(k, Start + d)) = content[k] BY FingerprintIsState
    <2> QED BY <1>3, <1>4, <1>5, <2>1, <2>2, CadenceAssumption DEF Due, CadenceAssumption
  <1>7. done' = done \cup {k} /\ failed' = failed /\ landed' = landed /\ content' = content
    BY DEF Suppress
  <1>8. SilenceBounded' /\ ChangeSpoken'
    BY <1>3, <1>4, <1>6, <1>7 DEF CadenceIInv, SilenceBounded, ChangeSpoken
  <1> QED BY <1>1, <1>2, <1>8 DEF CadenceIInv

\* A landed write: it is the current state, and the gate records just that.
LEMMA LandIInv ==
  ASSUME CadenceIInv, NEW k \in GatedKeys, NEW d \in 0 .. Slack, NEW l \in 0 .. Slack - d,
         Land(k, Start + d, Start + d + l)
  PROVE  CadenceIInv'
  <1> DEFINE t == Start + d + l
             e == [at |-> t, fp |-> content[k]]
  <1>1. CadenceTypeOK' BY LandTypeOK DEF CadenceIInv
  <1>2. Start \in Nat /\ Start' = Start
    BY StartIsNat DEF CadenceIInv, Land, Start
  <1>3. t \in Nat /\ Start - t < Ceiling
    BY <1>2, CadenceAssumption DEF CadenceAssumption
  <1>4. /\ landed'[k] = e
        /\ \A j \in GatedKeys \ {k} : landed'[j] = landed[j] /\ last'[j] = last[j]
        /\ Trigger[k] = "changed" => last'[k] = e
    BY FingerprintIsState DEF Land, CadenceIInv, CadenceTypeOK
  <1> HIDE DEF t
  <1>5. GateIsHonest'
    BY <1>4 DEF CadenceIInv, GateIsHonest
  <1>6. /\ done' = done \cup {k} /\ failed' = failed /\ content' = content
        /\ done \subseteq GatedKeys
    BY DEF Land, CadenceIInv, CadenceTypeOK
  <1>7. landed'[k].at # -1 /\ Start - landed'[k].at < Ceiling /\ landed'[k].fp = content[k]
    BY <1>3, <1>4
  <1>8. SilenceBounded' /\ ChangeSpoken'
    BY <1>2, <1>4, <1>6, <1>7 DEF CadenceIInv, SilenceBounded, ChangeSpoken
  <1> QED BY <1>1, <1>5, <1>8 DEF CadenceIInv

LEMMA FailIInv ==
  ASSUME CadenceIInv, NEW k \in GatedKeys, NEW t \in Int, Fail(k, t)
  PROVE  CadenceIInv'
  <1>1. CadenceTypeOK'
    BY CadenceAssumption DEF CadenceIInv, CadenceTypeOK, Fail, CadenceAssumption
  <1>2. GateIsHonest' BY DEF CadenceIInv, GateIsHonest, Fail
  <1>3. Start' = Start /\ done' \ failed' \subseteq done \ failed
        /\ landed' = landed /\ content' = content
    BY DEF Fail, Start
  <1>4. SilenceBounded' /\ ChangeSpoken'
    BY <1>3 DEF CadenceIInv, SilenceBounded, ChangeSpoken
  <1> QED BY <1>1, <1>2, <1>4 DEF CadenceIInv

LEMMA ChangeIInv ==
  ASSUME CadenceIInv, NEW k \in GatedKeys, NEW p \in Prints, Change(k, p)
  PROVE  CadenceIInv'
  <1>1. CadenceTypeOK' BY DEF CadenceIInv, CadenceTypeOK, Change
  <1>2. GateIsHonest' BY DEF CadenceIInv, GateIsHonest, Change
  <1>3. Start' = Start BY DEF Change, Start
  <1>4. /\ done' = done /\ failed' = failed /\ landed' = landed /\ k \notin done
        /\ done \subseteq GatedKeys /\ \A j \in GatedKeys \ {k} : content'[j] = content[j]
    BY DEF Change, CadenceIInv, CadenceTypeOK
  <1>5. SilenceBounded' /\ ChangeSpoken'
    BY <1>3, <1>4 DEF CadenceIInv, SilenceBounded, ChangeSpoken
  <1> QED BY <1>1, <1>2, <1>5 DEF CadenceIInv

\* A pass that ends, or a process that dies, forgets entries and keeps none wrong.
LEMMA NewPassIInv == ASSUME CadenceIInv, EndPass \/ CadenceCrash PROVE CadenceIInv'
  <1>1. \A k \in GatedKeys : last'[k] \in {last[k], Unseen}
    BY DEF EndPass, CadenceCrash
  <1>2. /\ done' = {} /\ failed' = {} /\ landed' = landed /\ content' = content
        /\ DOMAIN last' = GatedKeys
    BY DEF EndPass, CadenceCrash
  <1>3. \A k \in GatedKeys : Unseen \in Entry /\ Unseen.at = -1
    BY UnseenIsEntry DEF CadenceIInv, CadenceTypeOK
  <1>4. last' \in [GatedKeys -> Entry]
    <2>1. last' = [k \in GatedKeys |-> last'[k]] BY <1>2 DEF EndPass, CadenceCrash
    <2>2. \A k \in GatedKeys : last'[k] \in Entry BY <1>1, <1>3 DEF CadenceIInv, CadenceTypeOK
    <2> QED BY <2>1, <2>2
  <1>5. pass' \in 0 .. MaxPass /\ missed' \in 0 .. MaxMissed
    BY CadenceAssumption DEF CadenceIInv, CadenceTypeOK, EndPass, CadenceCrash, CadenceAssumption
  <1>6. CadenceTypeOK' BY <1>2, <1>4, <1>5 DEF CadenceIInv, CadenceTypeOK
  <1>7. GateIsHonest' BY <1>1, <1>2, <1>3 DEF CadenceIInv, GateIsHonest
  <1>8. SilenceBounded' /\ ChangeSpoken' BY <1>2 DEF SilenceBounded, ChangeSpoken
  <1> QED BY <1>6, <1>7, <1>8 DEF CadenceIInv

LEMMA NextIInv == ASSUME CadenceIInv, [CadenceNext]_cadenceVars PROVE CadenceIInv'
  <1>1. CASE UNCHANGED cadenceVars
    BY <1>1 DEF cadenceVars, CadenceIInv, CadenceTypeOK, GateIsHonest, SilenceBounded, ChangeSpoken, Start
  <1>2. ASSUME NEW k \in GatedKeys, NEW d \in 0 .. Slack, Suppress(k, Start + d) PROVE CadenceIInv'
    BY <1>2, SuppressIInv
  <1>3. ASSUME NEW k \in GatedKeys, NEW d \in 0 .. Slack, NEW l \in 0 .. Slack - d,
               Land(k, Start + d, Start + d + l) PROVE CadenceIInv'
    BY <1>3, LandIInv
  <1>4. ASSUME NEW k \in GatedKeys, NEW d \in 0 .. Slack, Fail(k, Start + d) PROVE CadenceIInv'
    <2>1. Start + d \in Int
      BY StartIsNat, CadenceAssumption DEF CadenceIInv, CadenceAssumption
    <2> QED BY <1>4, <2>1, FailIInv
  <1>5. ASSUME NEW k \in GatedKeys, NEW p \in Prints, Change(k, p) PROVE CadenceIInv'
    BY <1>5, ChangeIInv
  <1>6. CASE EndPass \/ CadenceCrash BY <1>6, NewPassIInv
  <1> QED BY <1>1, <1>2, <1>3, <1>4, <1>5, <1>6 DEF CadenceNext

LEMMA IInvInvariant == CadenceSpec => []CadenceIInv
  BY CadenceInitIInv, NextIInv, PTL DEF CadenceSpec

(***************************************************************************)
(* The gate is type correct, for every trigger, fingerprint set and bound: *)
(* a failed key is one the pass visited, and the entries that write and    *)
(* prune leave behind are instants with a fingerprint.                     *)
(***************************************************************************)
THEOREM CadenceTypeCorrect == CadenceSpec => []CadenceTypeOK
  <1>1. CadenceIInv => CadenceTypeOK BY DEF CadenceIInv
  <1> QED BY <1>1, IInvInvariant, PTL

(***************************************************************************)
(* A pass leaves no key unwritten for a Ceiling and a pass: SilenceBounded *)
(* in every reachable state, for every Floor, Ceiling, Period and Slack.   *)
(***************************************************************************)
THEOREM SilenceIsBounded == CadenceSpec => []SilenceBounded
  <1>1. CadenceIInv => SilenceBounded BY DEF CadenceIInv
  <1> QED BY <1>1, IInvInvariant, PTL

(***************************************************************************)
(* A change waits for the Floor and nothing else: ChangeSpoken in every    *)
(* reachable state, for the same constants.                                *)
(***************************************************************************)
THEOREM ChangeIsSpoken == CadenceSpec => []ChangeSpoken
  <1>1. CadenceIInv => ChangeSpoken BY DEF CadenceIInv
  <1> QED BY <1>1, IInvInvariant, PTL

\* What FloorHeld says of one step.
FloorStep ==
  \A k \in GatedKeys : Trigger[k] = "changed" /\ last[k].at # -1 /\ landed'[k] # landed[k]
                    => landed'[k].at - landed[k].at >= Floor

LEMMA LandKeepsFloor ==
  ASSUME CadenceIInv, NEW k \in GatedKeys, NEW d \in 0 .. Slack, NEW l \in 0 .. Slack - d,
         Land(k, Start + d, Start + d + l)
  PROVE  FloorStep
  <1>1. SUFFICES ASSUME Trigger[k] = "changed", last[k].at # -1
                 PROVE  landed'[k].at - landed[k].at >= Floor
    BY DEF FloorStep, Land, CadenceIInv, CadenceTypeOK
  <1>2. last[k] = landed[k] BY <1>1 DEF CadenceIInv, GateIsHonest
  <1>3. landed'[k].at = Start + d + l BY DEF Land, CadenceIInv, CadenceTypeOK
  <1>4. Start \in Nat /\ landed[k].at \in Int BY StartIsNat DEF CadenceIInv, CadenceTypeOK, Entry
  <1>5. Start + d - landed[k].at >= Ceiling \/ Start + d - landed[k].at >= Floor
    <2>1. Due(k, Start + d) BY DEF Land
    <2> QED BY <1>1, <1>2, <1>4, <2>1, CadenceAssumption DEF Due, CadenceAssumption
  <1> QED BY <1>3, <1>4, <1>5, CadenceAssumption DEF CadenceAssumption

(***************************************************************************)
(* Two remembered writes of a change-triggered key land a Floor apart,     *)
(* whenever in their passes the two clock readings fall.                   *)
(***************************************************************************)
THEOREM FloorIsHeld == CadenceSpec => FloorHeld
  <1>1. ASSUME CadenceIInv, [CadenceNext]_cadenceVars PROVE [FloorStep]_cadenceVars
    <2>1. ASSUME landed' = landed PROVE FloorStep BY <2>1 DEF FloorStep
    <2>2. CASE CadenceNext
      <3>1. ASSUME NEW k \in GatedKeys, NEW d \in 0 .. Slack, NEW l \in 0 .. Slack - d,
                   Land(k, Start + d, Start + d + l) PROVE FloorStep
        BY <3>1, <1>1, LandKeepsFloor
      <3> QED BY <2>1, <2>2, <3>1 DEF CadenceNext, Suppress, Fail, Change, EndPass, CadenceCrash
    <2> QED BY <1>1, <2>2
  <1> QED BY <1>1, IInvInvariant, PTL DEF CadenceSpec, FloorHeld, FloorStep

-----------------------------------------------------------------------------
(* The event journals. *)

\* A pass is under way and has taken the window out of the accumulator.
Closing(w) == flush # "idle" /\ w < flushNow

\* Everything published for a window that memory has not let go of is in the
\* accumulator, or in the batch of the pass that is closing the window.
KeptIn(w) ==
  w \notin released =>
    /\ up /\ ~Closing(w) => written[w].recs \subseteq open[w]
    /\ Closing(w) => written[w].recs \subseteq batch[w]
    /\ flush = "writing" /\ batch[w] # {} => written[w].recs \subseteq batch[w]

\* The rest of the batch is a copy of part of the accumulator, and the file
\* of a window is its last payload.
Copies(w) ==
  /\ flush = "closed" /\ w >= flushNow => batch[w] = {}
  /\ flush = "writing" /\ w >= flushNow => batch[w] \subseteq open[w]
  /\ file[w] \in {written[w], NoFile}

Kept == /\ flush # "idle" => up
        /\ \A w \in Windows : KeptIn(w) /\ Copies(w)

\* A dated event is nowhere but in the window of its instant.
InItsWindow ==
  \A e \in Dated, w \in Windows :
    e \in open[w] \cup batch[w] \cup file[w].recs \cup written[w].recs => w = stamp[e]

LEMMA Zeroes ==
  /\ 0 \in Windows /\ Windows \subseteq Int /\ NotYet \notin Windows
  /\ NoFile \in Payload /\ NoFile.recs = {}
  /\ Nothing \in [Windows -> SUBSET Events]
  /\ 0 \in 0 .. MaxFaults
  BY JournalAssumption
  DEF JournalAssumption, Windows, NotYet, NoFile, Payload, Nothing

LEMMA JournalInitTypeOK == JournalInit => JournalTypeOK
  BY Zeroes DEF JournalInit, JournalTypeOK

\* The cluster's actions and the informer's.
ClusterStep == JournalTick \/ \E e \in Events : Happen(e) \/ Delete(e) \/ Report(e) \/ Observe(e)
PassStep == CloseBefore \/ Snapshots \/ WriteFails \/ Flushed \/ \E w \in Windows : Write(w)

LEMMA ClusterTypeOK == ASSUME JournalTypeOK, ClusterStep PROVE JournalTypeOK'
  <1>1. CASE JournalTick
    BY <1>1, JournalAssumption DEF JournalTypeOK, JournalTick, process, Windows, JournalAssumption
  <1>2. ASSUME NEW e \in Events, Happen(e) \/ Delete(e) PROVE JournalTypeOK'
    <2>1. /\ stamp' \in [Events -> Windows \cup {NotYet}]
          /\ \A x \in Events : stamp[x] # NotYet => stamp'[x] # NotYet
      BY <1>2, Zeroes DEF JournalTypeOK, Happen, Delete
    <2>2. /\ objects' \subseteq objects \cup {e} /\ waiting' \subseteq waiting \cup {e}
          /\ handling' = handling
          /\ e \in objects' \cup waiting' => stamp'[e] # NotYet
      BY <1>2, Zeroes DEF JournalTypeOK, Happen, Delete, process
    <2>3. \A x \in objects' \cup waiting' \cup handling' : stamp'[x] # NotYet
      BY <2>1, <2>2 DEF JournalTypeOK
    <2>4. UNCHANGED <<now, up, process, file, written, released, faults>>
      BY <1>2 DEF Happen, Delete
    <2> QED BY <2>1, <2>2, <2>3, <2>4 DEF JournalTypeOK, process
  <1>3. ASSUME NEW e \in Events, Report(e) PROVE JournalTypeOK'
    <2>1. /\ stamp' \in [Events -> Windows \cup {NotYet}]
          /\ \A x \in Events : stamp[x] # NotYet => stamp'[x] # NotYet
      BY <1>3, Zeroes DEF JournalTypeOK, Report
    <2>2. waiting' \subseteq waiting /\ handling' = {e} /\ e \in waiting /\ objects' = objects
      BY <1>3 DEF Report
    <2>3. \A x \in objects' \cup waiting' \cup handling' : stamp'[x] # NotYet
      BY <2>1, <2>2 DEF JournalTypeOK
    <2> QED BY <1>3, <2>1, <2>2, <2>3 DEF JournalTypeOK, Report
  <1>4. ASSUME NEW e \in Events, Observe(e) PROVE JournalTypeOK'
    <2>1. stamp[e] \in Windows BY <1>4 DEF JournalTypeOK, Observe
    <2>2. open' \in [Windows -> SUBSET Events] BY <1>4, <2>1 DEF JournalTypeOK, Observe
    <2> QED BY <1>4, <2>2 DEF JournalTypeOK, Observe
  <1> QED BY <1>1, <1>2, <1>3, <1>4 DEF ClusterStep

LEMMA PassTypeOK == ASSUME JournalTypeOK, PassStep PROVE JournalTypeOK'
  <1>1. CASE CloseBefore BY <1>1 DEF JournalTypeOK, CloseBefore
  <1>2. CASE Snapshots BY <1>2 DEF JournalTypeOK, Snapshots
  <1>3. CASE WriteFails
    <2>1. faults' \in 0 .. MaxFaults
      BY <1>3, JournalAssumption DEF JournalTypeOK, WriteFails, JournalAssumption
    <2>2. released' \in SUBSET Windows BY <1>3 DEF JournalTypeOK, WriteFails
    <2> QED BY <1>3, <2>1, <2>2, Zeroes DEF JournalTypeOK, WriteFails
  <1>4. CASE Flushed BY <1>4 DEF JournalTypeOK, Flushed
  <1>5. ASSUME NEW w \in Windows, Write(w) PROVE JournalTypeOK'
    <2>1. [recs |-> batch[w], final |-> flushNow > w] \in Payload
      BY DEF JournalTypeOK, Payload
    <2> QED BY <1>5, <2>1 DEF JournalTypeOK, Write
  <1> QED BY <1>1, <1>2, <1>3, <1>4, <1>5 DEF PassStep

LEMMA JournalNextTypeOK == ASSUME JournalTypeOK, [JournalNext]_journalVars PROVE JournalTypeOK'
  <1>1. CASE UNCHANGED journalVars BY <1>1 DEF journalVars, process, JournalTypeOK
  <1>2. ASSUME NEW w \in Windows, Leave(w) PROVE JournalTypeOK'
    BY <1>2, Zeroes DEF JournalTypeOK, Leave, process
  <1>3. CASE JournalCrash
    <2>1. faults' \in 0 .. MaxFaults
      BY <1>3, JournalAssumption DEF JournalTypeOK, JournalCrash, JournalAssumption
    <2> QED BY <1>3, <2>1, Zeroes DEF JournalTypeOK, JournalCrash
  <1>4. CASE Restart
    <2>1. \A w \in Windows : file[w].recs \in SUBSET Events BY DEF JournalTypeOK, Payload
    <2> QED BY <1>4, <2>1 DEF JournalTypeOK, Restart
  <1> QED BY <1>1, <1>2, <1>3, <1>4, ClusterTypeOK, PassTypeOK
          DEF JournalNext, ClusterStep, PassStep

(***************************************************************************)
(* Type correctness, with every reported event stamped: JournalTypeOK.            *)
(***************************************************************************)
THEOREM JournalTypeCorrect == JournalSpec => []JournalTypeOK
  BY JournalInitTypeOK, JournalNextTypeOK, PTL DEF JournalSpec

-----------------------------------------------------------------------------
LEMMA InitKept == JournalInit => Kept
  BY Zeroes DEF JournalInit, Kept, KeptIn, Copies, Closing

LEMMA ClusterKept == ASSUME JournalTypeOK, Kept, ClusterStep PROVE Kept'
  <1>1. ASSUME UNCHANGED <<up, open, flush, flushNow, batch, file, written, released>>
        PROVE  Kept'
    BY <1>1 DEF Kept, KeptIn, Copies, Closing
  <1>2. ASSUME NEW e \in Events, Observe(e) PROVE Kept'
    <2>1. \A w \in Windows : open[w] \subseteq open'[w]
      BY <1>2 DEF Observe, JournalTypeOK
    <2>2. UNCHANGED <<up, flush, flushNow, batch, file, written, released>>
      BY <1>2 DEF Observe
    <2> QED BY <2>1, <2>2 DEF Kept, KeptIn, Copies, Closing
  <1> QED BY <1>1, <1>2 DEF ClusterStep, JournalTick, Happen, Delete, Report, process

LEMMA CloseBeforeKept == ASSUME JournalTypeOK, Kept, CloseBefore PROVE Kept'
  <1>1. /\ flush' = "closed" /\ flushNow' = now /\ up' /\ up /\ flush = "idle"
        /\ UNCHANGED <<file, written, released>>
    BY DEF CloseBefore
  <1>2. SUFFICES ASSUME NEW w \in Windows PROVE KeptIn(w)' /\ Copies(w)'
    BY <1>1 DEF Kept
  <1>3. /\ w < now => batch'[w] = open[w]
        /\ ~(w < now) => batch'[w] = {} /\ open'[w] = open[w]
    BY DEF CloseBefore
  <1>4. w \notin released => written[w].recs \subseteq open[w]
    BY <1>1 DEF Kept, KeptIn, Closing
  <1>5. w >= now <=> ~(w < now) BY Zeroes DEF JournalTypeOK
  <1> QED BY <1>1, <1>3, <1>4, <1>5 DEF KeptIn, Copies, Closing, Kept

LEMMA SnapshotsKept == ASSUME JournalTypeOK, Kept, Snapshots PROVE Kept'
  <1>1. /\ flush = "closed" /\ flush' = "writing"
        /\ UNCHANGED <<up, open, flushNow, file, written, released>>
    BY DEF Snapshots
  <1>2. SUFFICES ASSUME NEW w \in Windows PROVE KeptIn(w)' /\ Copies(w)'
    BY <1>1 DEF Kept
  <1>3. batch'[w] = batch[w] \cup open[w] BY DEF Snapshots
  <1>4. w >= flushNow <=> ~(w < flushNow) BY Zeroes DEF JournalTypeOK
  <1> QED BY <1>1, <1>3, <1>4 DEF KeptIn, Copies, Closing, Kept

LEMMA WriteKept == ASSUME JournalTypeOK, Kept, NEW v \in Windows, Write(v) PROVE Kept'
  <1>1. /\ flush = "writing" /\ batch[v] # {}
        /\ UNCHANGED <<up, open, flush, flushNow>>
    BY DEF Write
  <1>2. /\ batch'[v] = {} /\ file'[v] = written'[v] /\ written'[v].recs = batch[v]
        /\ \A w \in Windows \ {v} :
             batch'[w] = batch[w] /\ file'[w] = file[w] /\ written'[w] = written[w]
        /\ released \subseteq released' /\ (flushNow > v => v \in released')
        /\ released' \subseteq released \cup {v}
    BY DEF Write, JournalTypeOK
  <1> flushNow \in Int /\ v \in Int BY Zeroes DEF JournalTypeOK
  <1>3. v >= flushNow <=> ~(v < flushNow) OBVIOUS
  <1>4. flushNow > v <=> v < flushNow OBVIOUS
  <1>5. KeptIn(v)' /\ Copies(v)'
    BY <1>1, <1>2, <1>3, <1>4 DEF KeptIn, Copies, Closing, Kept
  <1>6. ASSUME NEW w \in Windows \ {v} PROVE KeptIn(w)' /\ Copies(w)'
    BY <1>1, <1>2 DEF KeptIn, Copies, Closing, Kept
  <1> QED BY <1>1, <1>5, <1>6 DEF Kept

\* The pass is over, and what a failed one drops it had not let go of.
LEMMA PassEndsKept == ASSUME JournalTypeOK, Kept, WriteFails \/ Flushed PROVE Kept'
  <1>1. /\ flush = "writing" /\ flush' = "idle"
        /\ UNCHANGED <<up, open, flushNow, file, written>>
        /\ \A w \in Windows : (batch[w] # {} /\ flushNow > w) => w \in released'
        /\ released \subseteq released'
    BY DEF WriteFails, Flushed, Nothing
  <1>2. SUFFICES ASSUME NEW w \in Windows PROVE KeptIn(w)' /\ Copies(w)'
    BY <1>1 DEF Kept
  <1>3. w < flushNow <=> flushNow > w BY Zeroes DEF JournalTypeOK
  <1> QED BY <1>1, <1>3 DEF KeptIn, Copies, Closing, Kept

LEMMA NextKept == ASSUME JournalTypeOK, Kept, [JournalNext]_journalVars PROVE Kept'
  <1>1. CASE UNCHANGED journalVars
    BY <1>1 DEF journalVars, process, Kept, KeptIn, Copies, Closing
  <1>2. ASSUME NEW v \in Windows, Leave(v) PROVE Kept'
    <2>1. \A w \in Windows : file'[w] \in {file[w], NoFile} BY <1>2 DEF Leave, JournalTypeOK
    <2>2. UNCHANGED <<up, open, flush, flushNow, batch, written, released>>
      BY <1>2 DEF Leave, process
    <2> QED BY <2>1, <2>2 DEF Kept, KeptIn, Copies, Closing
  <1>3. CASE JournalCrash
    BY <1>3, Zeroes DEF JournalCrash, Kept, KeptIn, Copies, Closing
  <1>4. CASE Restart
    <2>1. /\ up' /\ flush = "idle" /\ UNCHANGED <<flush, flushNow, batch, file, written>>
      BY <1>4 DEF Restart, Kept
    <2>2. ASSUME NEW w \in Windows, w \notin released'
          PROVE  open'[w] = file[w].recs /\ file[w] = written[w]
      <3>1. w \in Int /\ now \in Int BY Zeroes DEF JournalTypeOK
      <3>2. ~(w < now \/ file[w] # written[w]) BY <1>4, <2>2 DEF Restart
      <3>3. w >= now /\ file[w] = written[w] BY <3>1, <3>2, SMT
      <3>4. open'[w] = IF w >= now THEN file[w].recs ELSE {} BY <1>4 DEF Restart
      <3> QED BY <3>3, <3>4
    <2> QED BY <2>1, <2>2 DEF Kept, KeptIn, Copies, Closing
  <1> QED BY <1>1, <1>2, <1>3, <1>4, ClusterKept, CloseBeforeKept, SnapshotsKept,
             WriteKept, PassEndsKept DEF JournalNext, ClusterStep

(***************************************************************************)
(* A window's payload never loses a published record while memory has not  *)
(* let go of the window, for every set of events and any number of         *)
(* windows, crashes and failed writes: SlicesOnlyGrow.                     *)
(***************************************************************************)
THEOREM PublishedIsKept == JournalSpec => SlicesOnlyGrow
  <1>1. JournalSpec => [](JournalTypeOK /\ Kept)
    BY JournalInitTypeOK, InitKept, JournalNextTypeOK, NextKept, PTL DEF JournalSpec
  <1> DEFINE Grow == \A w \in Windows :
                       w \notin released => written[w].recs \subseteq written'[w].recs
  <1>2. ASSUME JournalTypeOK, Kept, [JournalNext]_journalVars PROVE Grow
    <2>1. ASSUME written' = written PROVE Grow BY <2>1
    <2>2. ASSUME NEW v \in Windows, Write(v) PROVE Grow
      <3>1. /\ written'[v].recs = batch[v] /\ batch[v] # {} /\ flush = "writing"
            /\ \A w \in Windows \ {v} : written'[w] = written[w]
        BY <1>2, <2>2 DEF Write, JournalTypeOK
      <3> QED BY <1>2, <3>1 DEF Kept, KeptIn
    <2> QED BY <1>2, <2>1, <2>2
            DEF JournalNext, journalVars, JournalTick, Happen, Delete, Report, Observe, CloseBefore, Snapshots,
                WriteFails, Flushed, Leave, JournalCrash, Restart
  <1> HIDE DEF Grow
  <1>3. JournalSpec => [][Grow]_journalVars BY <1>1, <1>2, PTL DEF JournalSpec
  <1> QED BY <1>3 DEF SlicesOnlyGrow, Grow

-----------------------------------------------------------------------------
LEMMA InitInItsWindow == JournalInit => InItsWindow
  BY Zeroes DEF JournalInit, InItsWindow, Nothing

\* A step that moves records only between places of one window, and changes
\* the instant of no dated event that has one.
LEMMA MovesWithinWindow ==
  ASSUME JournalTypeOK, InItsWindow,
         \A e \in Dated : stamp'[e] = stamp[e] \/ stamp[e] = NotYet,
         \A w \in Windows :
           open'[w] \cup batch'[w] \cup file'[w].recs \cup written'[w].recs
             \subseteq open[w] \cup batch[w] \cup file[w].recs \cup written[w].recs
  PROVE  InItsWindow'
  <1> SUFFICES ASSUME NEW e \in Dated, NEW w \in Windows,
                      e \in open'[w] \cup batch'[w] \cup file'[w].recs \cup written'[w].recs
               PROVE  w = stamp'[e]
    BY DEF InItsWindow
  <1>1. e \in open[w] \cup batch[w] \cup file[w].recs \cup written[w].recs OBVIOUS
  <1>2. w = stamp[e] BY <1>1 DEF InItsWindow
  <1>3. stamp[e] # NotYet BY <1>2, Zeroes
  <1> QED BY <1>2, <1>3

LEMMA NextInItsWindow == ASSUME JournalTypeOK, InItsWindow, [JournalNext]_journalVars PROVE InItsWindow'
  <1>0. Dated \subseteq Events BY JournalAssumption DEF JournalAssumption
  <1>1. CASE UNCHANGED journalVars BY <1>1 DEF journalVars, process, InItsWindow
  <1>2. CASE JournalTick BY <1>2 DEF JournalTick, process, InItsWindow
  <1>3. ASSUME NEW x \in Events, Happen(x) \/ Delete(x) \/ Report(x) PROVE InItsWindow'
    <2>1. UNCHANGED <<open, batch, file, written>>
      BY <1>3 DEF Happen, Delete, Report, process
    <2>2. \A e \in Dated : stamp'[e] = stamp[e] \/ stamp[e] = NotYet
      BY <1>0, <1>3 DEF Happen, Delete, Report, JournalTypeOK
    <2> QED BY <2>1, <2>2, MovesWithinWindow
  <1>4. ASSUME NEW x \in Events, Observe(x) PROVE InItsWindow'
    <2>1. /\ \A w \in Windows : w # stamp[x] => open'[w] = open[w]
          /\ \A w \in Windows : open'[w] \subseteq open[w] \cup {x}
      BY <1>4 DEF Observe, JournalTypeOK
    <2>2. UNCHANGED <<stamp, batch, file, written>> BY <1>4 DEF Observe
    <2> QED BY <2>1, <2>2 DEF InItsWindow
  <1>5. CASE CloseBefore \/ Snapshots \/ WriteFails \/ Flushed
    <2>1. UNCHANGED <<stamp, file, written>>
      BY <1>5 DEF CloseBefore, Snapshots, WriteFails, Flushed
    <2>2. \A w \in Windows : open'[w] \cup batch'[w] \subseteq open[w] \cup batch[w]
      BY <1>5 DEF CloseBefore, Snapshots, WriteFails, Flushed, Nothing
    <2> QED BY <2>1, <2>2, MovesWithinWindow
  <1>6. ASSUME NEW v \in Windows, Write(v) PROVE InItsWindow'
    <2>1. /\ UNCHANGED <<stamp, open>>
          /\ batch'[v] = {} /\ file'[v].recs = batch[v] /\ written'[v].recs = batch[v]
          /\ \A w \in Windows \ {v} :
               batch'[w] = batch[w] /\ file'[w] = file[w] /\ written'[w] = written[w]
      BY <1>6 DEF Write, JournalTypeOK
    <2> QED BY <2>1, MovesWithinWindow
  <1>7. ASSUME NEW v \in Windows, Leave(v) PROVE InItsWindow'
    <2>1. /\ UNCHANGED <<stamp, open, batch, written>>
          /\ \A w \in Windows : file'[w] = file[w] \/ file'[w].recs = {}
      BY <1>7, Zeroes DEF Leave, process, JournalTypeOK
    <2> QED BY <2>1, MovesWithinWindow
  <1>8. CASE JournalCrash \/ Restart
    <2>1. UNCHANGED <<stamp, file, written>> BY <1>8 DEF JournalCrash, Restart
    <2>2. \A w \in Windows : open'[w] \cup batch'[w] \subseteq batch[w] \cup file[w].recs
      BY <1>8 DEF JournalCrash, Restart, Nothing
    <2> QED BY <2>1, <2>2, MovesWithinWindow
  <1> QED BY <1>1, <1>2, <1>3, <1>4, <1>5, <1>6, <1>7, <1>8 DEF JournalNext

(***************************************************************************)
(* However often it is replayed, an event the cluster dates is published   *)
(* in the window of its instant and in no other: DatedFiledOnce.           *)
(***************************************************************************)
THEOREM ReplayIsHarmless == JournalSpec => []DatedFiledOnce
  <1>1. JournalSpec => []InItsWindow
    BY JournalTypeCorrect, InitInItsWindow, NextInItsWindow, PTL DEF JournalSpec
  <1>2. InItsWindow => DatedFiledOnce BY DEF InItsWindow, DatedFiledOnce
  <1> QED BY <1>1, <1>2, PTL

-----------------------------------------------------------------------------
(* The prober, the puller and the goroutine counter. *)

-----------------------------------------------------------------------------
\* An answer that does not expire is remembered as long as the prober runs.
AskedInv ==
  /\ asks \in [Targets -> Nat]
  /\ \A t \in Targets :
       /\ asks[t] =< 1
       /\ asks[t] = 1 => t \in DOMAIN answers /\ answers[t] # "unreachable"

\* A round makes no more requests than its budget, whichever reader it is of.
RequestsBounded == IsFiniteSet(seen) /\ Cardinality(seen) =< MaxPerRound[reader]

BudgetInv ==
  /\ reader \in Readers /\ used \in Nat /\ used =< MaxPerRound[reader]
  /\ IsFiniteSet(seen) /\ Cardinality(seen) =< used

IInv == AskedInv /\ BudgetInv /\ NamesStayHome

-----------------------------------------------------------------------------
\* The symbol filter.

\* The prefixes a filter holds are among those it is built from.
LEMMA FilterHoldsGiven ==
  ASSUME NEW prefixes, NEW pkg, isAllowed(NewSymbolFilter(prefixes, ThirdParty), pkg)
  PROVE  \E m \in prefixes : IsPrefix(m, pkg)
BY DEF isAllowed, NewSymbolFilter

\* Without the keep policy a line is kept for its own package's sake only.
LEMMA KeptLineIsAdmitted ==
  ASSUME NEW prefixes, ThirdParty # "keep", NEW fn, KeepLine(NewSymbolFilter(prefixes, ThirdParty), fn)
  PROVE  ~hasDomain(fn.pkg) \/ \E m \in prefixes : IsPrefix(m, fn.pkg)
<1> DEFINE f == NewSymbolFilter(prefixes, ThirdParty)
<1>1. f.thirdParty # "keep" BY DEF NewSymbolFilter
<1>2. ~hasDomain(fn.pkg) \/ isAllowed(f, fn.pkg) BY <1>1 DEF KeepLine, keep
<1> QED BY <1>2, FilterHoldsGiven

\* The rebuilt function table shows admitted names and the placeholder.
LEMMA TableIsAdmitted ==
  ASSUME NEW prefixes, ThirdParty # "keep", NEW p \in RawProfiles, NEW n,
         NEW fn \in FilterPulled(NewSymbolFilter(prefixes, ThirdParty), p, n).functions
  PROVE  \/ fn = Placeholder \/ ~hasDomain(fn.pkg)
         \/ \E m \in prefixes : IsPrefix(m, fn.pkg)
<1> DEFINE f == NewSymbolFilter(prefixes, ThirdParty)
<1> HIDE DEF f
<1>1. fn \in redactProfile(f, p, n).functions
  BY ProfileAssumption DEF FilterPulled, stripNonSymbolIdentity, redactProfile, f
<1>2. fn = Placeholder \/ KeepLine(f, fn) BY <1>1, ProfileAssumption DEF redactProfile
<1> QED BY <1>2, KeptLineIsAdmitted DEF f

-----------------------------------------------------------------------------
\* The invariant holds when a reader starts.
LEMMA InitIInv == ASSUME Init PROVE IInv
<1>1. AskedInv BY DEF Init, AskedInv
<1>2. BudgetInv BY BudgetAssumption, FS_EmptySet DEF Init, BudgetInv
<1>3. NamesStayHome BY DEF Init, NamesStayHome
<1> QED BY <1>1, <1>2, <1>3 DEF IInv

\* The prober asks only where it has no lasting answer, and records the new one.
LEMMA NextAsked == ASSUME AskedInv, [Next]_vars PROVE AskedInv'
<1>1. CASE UNCHANGED <<answers, asks>> BY <1>1 DEF AskedInv
<1>2. CASE reader = "probe" /\ RoundVisits
  <2>0. PICK c : c = Head(round) OBVIOUS
  <2>1. Probes(c) BY <1>2, <2>0 DEF RoundVisits
  <2>2. CASE ~probeDue(c.t) \/ ~Addressable(c) BY <1>1, <2>1, <2>2 DEF Probes
  <2>3. CASE probeDue(c.t) /\ Addressable(c)
    <3>1. record(c.t, ask(c)) BY <2>1, <2>3 DEF Probes
    <3>2. asks' \in [Targets -> Nat]
      <4>1. PICK n \in {0, 1} : asks' = [asks EXCEPT ![c.t] = @ + n] BY <3>1 DEF record
      <4>2. \A t \in Targets : asks'[t] \in Nat BY <4>1 DEF AskedInv
      <4> QED BY <4>1, <4>2 DEF AskedInv
    <3>3. ASSUME NEW t \in Targets, t # c.t
          PROVE  asks'[t] = asks[t] /\ (t \in DOMAIN answers => t \in DOMAIN answers' /\ answers'[t] = answers[t])
      BY <3>1, <3>3 DEF record, Put, AskedInv
    <3>4. ASSUME c.t \in Targets PROVE asks[c.t] = 0
      BY <2>3, <3>4 DEF probeDue, AskedInv
    <3>5. c.t \in DOMAIN answers' /\ answers'[c.t] = ask(c) BY <3>1 DEF record, Put
    <3>6. ASSUME c.t \in Targets PROVE asks'[c.t] = IF ask(c) = "unreachable" THEN 0 ELSE 1
      BY <3>1, <3>4, <3>6 DEF record, AskedInv
    <3> QED BY <3>2, <3>3, <3>5, <3>6 DEF AskedInv
  <2> QED BY <2>2, <2>3
<1>3. CASE reader # "probe" /\ RoundVisits BY <1>1, <1>3 DEF RoundVisits, Pulls, Counts
<1>4. CASE RoundStarts \/ RoundFull \/ RoundExpires \/ Tick \/ WorkloadChanges
  BY <1>1, <1>4 DEF RoundStarts, RoundFull, RoundExpires, Tick, WorkloadChanges
<1>5. CASE UNCHANGED vars BY <1>1, <1>5 DEF vars
<1> QED BY <1>2, <1>3, <1>4, <1>5 DEF Next

\* A request within the budget keeps it.
LEMMA OneMore ==
  ASSUME BudgetInv, UNCHANGED reader,
         \/ UNCHANGED <<used, seen>>
         \/ /\ used < MaxPerRound[reader] /\ used' = used + 1
            /\ seen' = seen \/ \E x : seen' = seen \cup {x}
  PROVE  BudgetInv'
<1>1. Cardinality(seen) \in Nat BY FS_CardinalityType DEF BudgetInv
<1>2. ASSUME NEW x, seen' = seen \cup {x}
      PROVE  IsFiniteSet(seen') /\ Cardinality(seen') \in {Cardinality(seen), Cardinality(seen) + 1}
  BY <1>2, FS_AddElement DEF BudgetInv
<1>3. /\ MaxPerRound[reader] \in Nat /\ reader' \in Readers
      /\ MaxPerRound'[reader'] = MaxPerRound[reader]
  BY BudgetAssumption DEF BudgetInv
<1>4. CASE UNCHANGED <<used, seen>> BY <1>3, <1>4 DEF BudgetInv
<1>5. CASE /\ used < MaxPerRound[reader] /\ used' = used + 1
           /\ seen' = seen \/ \E x : seen' = seen \cup {x}
  <2>1. used' \in Nat /\ used' =< MaxPerRound[reader] BY <1>3, <1>5 DEF BudgetInv
  <2>2. IsFiniteSet(seen') /\ Cardinality(seen') \in {Cardinality(seen), Cardinality(seen) + 1}
    BY <1>2, <1>5 DEF BudgetInv
  <2>3. Cardinality(seen') =< used' BY <1>1, <1>5, <2>2 DEF BudgetInv
  <2> QED BY <1>3, <2>1, <2>2, <2>3 DEF BudgetInv
<1> QED BY <1>4, <1>5

\* A request spends one of the round's budget, in all three readers.
LEMMA NextBudget == ASSUME BudgetInv, [Next]_vars PROVE BudgetInv'
<1>1. CASE UNCHANGED <<reader, used, seen>> BY <1>1 DEF BudgetInv
<1>2. CASE RoundVisits
  <2>1. /\ used < MaxPerRound[reader] /\ UNCHANGED reader
        /\ \/ UNCHANGED <<used, seen>>
           \/ used' = used + 1 /\ (seen' = seen \/ \E b : seen' = seen \cup {<<Head(round), b>>})
    BY <1>2 DEF RoundVisits, Probes, Pulls, Counts, Connects
  <2> QED BY <2>1, OneMore
<1>3. CASE RoundStarts BY <1>3, BudgetAssumption, FS_EmptySet DEF RoundStarts, BudgetInv
<1>4. CASE RoundFull \/ Tick \/ WorkloadChanges
  BY <1>1, <1>4 DEF RoundFull, Tick, WorkloadChanges
<1>5. CASE UNCHANGED vars BY <1>1, <1>5 DEF vars
<1>6. CASE RoundExpires
  <2>1. /\ UNCHANGED reader
        /\ \/ UNCHANGED <<used, seen>>
           \/ /\ used < MaxPerRound[reader] /\ used' = used + 1
              /\ seen' = seen \cup {<<Head(round), FALSE>>}
    BY <1>6 DEF RoundExpires, Connects
  <2> QED BY <1>1, <2>1, OneMore
<1> QED BY <1>2, <1>3, <1>4, <1>5, <1>6 DEF Next

\* The sink sees a pulled profile only as filterFor of its own build left it.
LEMMA NextNames == ASSUME NamesStayHome, [Next]_vars PROVE NamesStayHome'
<1>0. CASE spooled' = {} BY <1>0 DEF NamesStayHome
<1>1. CASE UNCHANGED spooled BY <1>1 DEF NamesStayHome
<1>2. CASE RoundVisits
  <2>1. CASE reader # "pull" BY <1>1, <1>2, <2>1 DEF RoundVisits, Probes, Counts
  <2>2. CASE reader = "pull" /\ ~Addressable(Head(round))
    BY <1>1, <1>2, <2>2 DEF RoundVisits, Pulls
  <2>3. CASE reader = "pull" /\ Addressable(Head(round))
    <3>1. Fetched(Head(round)) BY <1>2, <2>3 DEF RoundVisits, Pulls
    <3>2. CASE UNCHANGED spooled BY <1>1, <3>2
    <3>3. CASE ~UNCHANGED spooled
      <4>1. PICK d \in DOMAIN Builds, raw \in RawProfiles :
              LET filtered == FilterPulled(filterFor(d), raw, MaxFrames)
              IN  spooled' = {[fn |-> fn, of |-> d] : fn \in filtered.functions}
        BY <3>1, <3>3 DEF Fetched, Reduced
      <4> DEFINE kept == FilterPulled(filterFor(d), raw, MaxFrames).functions
      <4>2. spooled' = {[fn |-> fn, of |-> d] : fn \in kept} BY <4>1
      <4>3. ASSUME NEW s \in spooled', ThirdParty # "keep"
            PROVE  \/ s.fn = Placeholder \/ ~hasDomain(s.fn.pkg)
                   \/ \E m \in Allowed \cup Builds[s.of] : IsPrefix(m, s.fn.pkg)
        <5>1. PICK fn \in kept : s = [fn |-> fn, of |-> d] BY <4>2, <4>3
        <5>2. \/ fn = Placeholder \/ ~hasDomain(fn.pkg)
              \/ \E m \in Allowed \cup Builds[d] : IsPrefix(m, fn.pkg)
          BY <4>3, TableIsAdmitted DEF filterFor
        <5>3. s.fn = fn /\ s.of = d BY <5>1
        <5> QED BY <5>2, <5>3
      <4> QED BY <4>3 DEF NamesStayHome
    <3> QED BY <3>2, <3>3
  <2> QED BY <2>1, <2>2, <2>3
<1>3. CASE RoundStarts \/ RoundFull \/ RoundExpires \/ Tick \/ WorkloadChanges
  BY <1>0, <1>1, <1>3 DEF RoundStarts, RoundFull, RoundExpires, Tick, WorkloadChanges
<1>4. CASE UNCHANGED vars BY <1>1, <1>4 DEF vars
<1> QED BY <1>2, <1>3, <1>4 DEF Next

\* The invariant holds in every state of a reader.
LEMMA Inductive == Spec => []IInv
<1>1. Init => IInv BY InitIInv
<1>2. IInv /\ [Next]_vars => IInv' BY NextAsked, NextBudget, NextNames DEF IInv
<1> QED BY <1>1, <1>2, PTL DEF Spec

\* The prober settles a build's port once, whatever the workloads of the build
\* do and however many ports and replicas there are.
THEOREM AskedAtMostOnce == Spec => []AskedOnce
<1>1. IInv => AskedOnce BY DEF IInv, AskedInv, AskedOnce
<1> QED BY <1>1, Inductive, PTL

\* Only names the allow-list or the build's own modules admit are handed to the
\* spool, for every allow-list and every profile a runtime may answer with.
THEOREM NamesAreAdmitted == Spec => []NamesStayHome
<1>1. IInv => NamesStayHome BY DEF IInv
<1> QED BY <1>1, Inductive, PTL

\* maxProbesPerTick, maxPullsPerCycle and maxReadingsPerRound bound the requests
\* of a round, also for targets that share a build and for ones without address.
THEOREM RequestsAreBounded == Spec => []RequestsBounded
<1>1. IInv => RequestsBounded
  BY BudgetAssumption, FS_CardinalityType DEF IInv, BudgetInv, RequestsBounded
<1> QED BY <1>1, Inductive, PTL
=============================================================================
