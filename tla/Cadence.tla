------------------------------- MODULE Cadence -------------------------------
(***************************************************************************)
(* The cadence gate (internal/sink/cadence.go) under the periodic pass:    *)
(* whether Spool.write lands a payload, suppresses it or fails.            *)
(*                                                                         *)
(* Pass n starts at n * Period.  Within it a write reads the clock twice,  *)
(* once to ask the gate and once, after the publish, to record it; both    *)
(* readings lie within Slack of the pass's start.  A payload's bytes with  *)
(* the capture instant elided are its fingerprint.                         *)
(***************************************************************************)
EXTENDS Integers

CONSTANTS GatedKeys, \* natural keys the pass writes
          OnChange,  \* keys of a kind written when its payload changes
          Prints,    \* fingerprints
          Floor, Ceiling, MaxAge,
          Period,    \* the interval of the pass
          Slack,     \* how far into a pass a write's clock readings lie
          MaxPass,   \* bound: passes
          MaxMissed  \* bound: failed publishes and crashes

ASSUME CadenceAssumption ==
  /\ OnChange \subseteq GatedKeys
  /\ Floor \in Nat /\ Ceiling \in Nat \ {0} /\ MaxAge \in Nat
  /\ Period \in Nat /\ Slack \in Nat
  /\ Floor =< Ceiling /\ Ceiling =< MaxAge
  /\ Slack < Period
  /\ MaxPass \in Nat /\ MaxMissed \in Nat

\* A kind's trigger; an event passes the gate as "always" does.
Trigger == [k \in GatedKeys |-> IF k \in OnChange THEN "changed" ELSE "always"]

VARIABLES pass,     \* the pass that is running
          done,     \* keys this pass has written, suppressed or failed
          failed,   \* keys whose publish failed in this pass
          content,  \* key -> fingerprint of the state the writer reads
          last,     \* the gate: keys -> when and what was last recorded
          landed,   \* ghost: key -> when and what last landed in the spool
          missed    \* failed publishes and crashes so far

cadenceVars == <<pass, done, failed, content, last, landed, missed>>

\* No entry: a key not written before.
Unseen == [at |-> -1, fp |-> CHOOSE p \in Prints : TRUE]
Entry == [at : Int, fp : Prints]

CadenceTypeOK ==
  /\ pass \in 0 .. MaxPass
  /\ failed \in SUBSET done /\ done \in SUBSET GatedKeys
  /\ content \in [GatedKeys -> Prints]
  /\ last \in [GatedKeys -> Entry] /\ landed \in [GatedKeys -> Entry]
  /\ missed \in 0 .. MaxMissed

CadenceInit ==
  /\ pass = 0
  /\ done = {} /\ failed = {}
  /\ content \in [GatedKeys -> Prints]
  /\ last = [k \in GatedKeys |-> Unseen] /\ landed = [k \in GatedKeys |-> Unseen]
  /\ missed = 0

Start == pass * Period

\* What a write encodes, and what the gate compares: the payload without the
\* instant that dates it.
Encoded(k, now) == [state |-> content[k], captured_at |-> now]
Fingerprint(payload) == payload.state

\* Fault, not the code: the change is only noticed at the Ceiling.
DueAtCeiling(k, now) ==
  \/ Trigger[k] # "changed"
  \/ last[k].at = -1
  \/ now - last[k].at >= Ceiling

\* Fault, not the code: a change is written whatever the Floor.
DueWithoutFloor(k, now) ==
  \/ Trigger[k] # "changed"
  \/ last[k].at = -1
  \/ now - last[k].at >= Ceiling
  \/ content[k] # last[k].fp

Due(k, now) ==
  \/ Trigger[k] # "changed"
  \/ last[k].at = -1
  \/ now - last[k].at >= Ceiling
  \/ now - last[k].at >= Floor /\ Fingerprint(Encoded(k, now)) # last[k].fp

\* Spool.write: not due, so the payload is suppressed.
Suppress(k, now) ==
  /\ k \notin done
  /\ ~Due(k, now)
  /\ done' = done \cup {k}
  /\ UNCHANGED <<pass, failed, content, last, landed, missed>>

\* Spool.write: due at `now`, published, recorded at `then`.
Land(k, now, then) ==
  /\ k \notin done
  /\ Due(k, now)
  /\ landed' = [landed EXCEPT ![k] = [at |-> then, fp |-> Fingerprint(Encoded(k, now))]]
  /\ last' = IF Trigger[k] = "changed" THEN [last EXCEPT ![k] = landed'[k]] ELSE last
  /\ done' = done \cup {k}
  /\ UNCHANGED <<pass, failed, content, missed>>

\* Fault, not the code: the gate records a write that did not land.
FailRecorded(k, now) ==
  /\ k \notin done
  /\ Due(k, now)
  /\ missed < MaxMissed
  /\ missed' = missed + 1
  /\ done' = done \cup {k}
  /\ failed' = failed \cup {k}
  /\ last' = [last EXCEPT ![k] = [at |-> now, fp |-> content[k]]]
  /\ UNCHANGED <<pass, content, landed>>

\* Spool.write: due, but the publish failed, and the gate records nothing.
Fail(k, now) ==
  /\ k \notin done
  /\ Due(k, now)
  /\ missed < MaxMissed
  /\ missed' = missed + 1
  /\ done' = done \cup {k}
  /\ failed' = failed \cup {k}
  /\ UNCHANGED <<pass, content, last, landed>>

\* The state the next payload will describe changes.  A change after the
\* key's write in this pass is one the next pass is the first to see.
Change(k, p) ==
  /\ k \notin done /\ p # content[k]
  /\ content' = [content EXCEPT ![k] = p]
  /\ UNCHANGED <<pass, done, failed, last, landed, missed>>

\* The pass ends with Spool.Sweep, which prunes the gate; the next one starts.
EndPass ==
  /\ done = GatedKeys
  /\ pass < MaxPass
  /\ pass' = pass + 1
  /\ done' = {} /\ failed' = {}
  /\ last' = [k \in GatedKeys |-> IF last[k].at < Start + Slack - MaxAge
                               THEN Unseen ELSE last[k]]
  /\ UNCHANGED <<content, landed, missed>>

\* A restart loses the gate; the first pass comes at least one Period later.
CadenceCrash ==
  /\ pass < MaxPass
  /\ missed < MaxMissed
  /\ missed' = missed + 1
  /\ pass' = pass + 1
  /\ done' = {} /\ failed' = {}
  /\ last' = [k \in GatedKeys |-> Unseen]
  /\ UNCHANGED <<content, landed>>

CadenceNext ==
  \/ \E k \in GatedKeys, d \in 0 .. Slack :
       \/ Suppress(k, Start + d)
       \/ \E l \in 0 .. Slack - d : Land(k, Start + d, Start + d + l)
       \/ Fail(k, Start + d)
  \/ \E k \in GatedKeys, p \in Prints : Change(k, p)
  \/ EndPass
  \/ CadenceCrash

CadenceSpec == CadenceInit /\ [][CadenceNext]_cadenceVars

-----------------------------------------------------------------------------
(***************************************************************************)
(* After a pass that did not fail to write a key, the key's last landed    *)
(* write lies less than a Ceiling before the pass began: a change the      *)
(* predicate missed stands for at most a Ceiling and a pass, whatever was  *)
(* suppressed, failed or lost in a crash before.  About due, wrote, prune. *)
(***************************************************************************)
SilenceBounded ==
  \A k \in done \ failed : landed[k].at # -1 /\ Start - landed[k].at < Ceiling

(***************************************************************************)
(* After a pass that did not fail to write a key, what last landed is the  *)
(* current state, or it landed less than a Floor before the pass: a change *)
(* waits for the Floor and for nothing else, a failed write included.      *)
(***************************************************************************)
ChangeSpoken ==
  \A k \in done \ failed :
    landed[k].fp = content[k] \/ Start - landed[k].at < Floor

(***************************************************************************)
(* Two writes of a change-triggered key that the gate remembers land at    *)
(* least a Floor apart.  About due's floor and wrote's clock reading.      *)
(***************************************************************************)
FloorHeld ==
  [][\A k \in GatedKeys : Trigger[k] = "changed" /\ last[k].at # -1
                     /\ landed'[k] # landed[k]
                       => landed'[k].at - landed[k].at >= Floor]_cadenceVars

(***************************************************************************)
(* Cadence's comment: the gap between two writes of one natural key is     *)
(* never longer than Ceiling.  The clock readings of one pass may differ   *)
(* by Slack, which is granted; what is left is a key silent for another    *)
(* whole pass.  To be checked without faults.                              *)
(***************************************************************************)
GapWithinCeiling ==
  [][\A k \in GatedKeys : Trigger[k] = "changed" /\ landed[k].at # -1
                       => landed'[k].at - landed[k].at =< Ceiling + Slack]_cadenceVars
=============================================================================
