------------------------------- MODULE Outbox -------------------------------
(***************************************************************************)
(* What the delivery path promises the rest of the agent, with no files,   *)
(* inodes, rounds or crashes: an outbox with one slot per natural key.  A  *)
(* newer payload replaces an older one.  A payload whose fate is open      *)
(* leaves its slot in two ways only: the backend answered 2xx for that     *)
(* very payload, or the bounds of the spool evicted it.                    *)
(***************************************************************************)
EXTENDS Naturals

CONSTANTS Keys, Versions, NoReceipt

VARIABLES box,     \* key -> the version waiting, 0 for none
          fate,    \* key -> what became of its newest payload
          copy,    \* key -> the version the backend holds
          receipt  \* <<key, version>> of a 2xx on its way, or NoReceipt

vars == <<box, fate, copy, receipt>>

Init == /\ box = [k \in Keys |-> 0]
        /\ fate = [k \in Keys |-> "none"]
        /\ copy = [k \in Keys |-> 0]
        /\ receipt = NoReceipt

\* "exposed" is a payload put while a removal of its key was under way.
Put(k, v) ==
  /\ v > box[k]
  /\ box' = [box EXCEPT ![k] = v]
  /\ \E f \in {"spooled", "exposed"} : fate' = [fate EXCEPT ![k] = f]
  /\ UNCHANGED <<copy, receipt>>

\* The backend takes a payload; its answer may never be seen.
Take(k, v) ==
  /\ copy' = [copy EXCEPT ![k] = v]
  /\ receipt' \in {receipt, <<k, v>>}
  /\ UNCHANGED <<box, fate>>

Accept(k) ==
  /\ fate[k] = "spooled" /\ receipt = <<k, box[k]>>
  /\ fate' = [fate EXCEPT ![k] = "accepted"]
  /\ receipt' = NoReceipt
  /\ UNCHANGED <<box, copy>>

\* A receipt for a payload since replaced, or one that is never seen.
LoseReceipt ==
  /\ receipt' = NoReceipt
  /\ UNCHANGED <<box, fate, copy>>

Evict(k) ==
  /\ fate[k] = "spooled"
  /\ fate' = [fate EXCEPT ![k] = "evicted"]
  /\ box' = [box EXCEPT ![k] = 0]
  /\ UNCHANGED <<copy, receipt>>

Discard(k) ==
  /\ fate[k] # "spooled"
  /\ box' = [box EXCEPT ![k] = 0]
  /\ UNCHANGED <<fate, copy, receipt>>

Next ==
  \/ \E k \in Keys, v \in Versions : Put(k, v) \/ Take(k, v)
  \/ \E k \in Keys : Accept(k) \/ Evict(k) \/ Discard(k)
  \/ LoseReceipt

Spec == Init /\ [][Next]_vars
=============================================================================
