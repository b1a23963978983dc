------------------------------- MODULE Informer -------------------------------
(***************************************************************************)
(* A client-go shared informer as the watchers in internal/collector use   *)
(* it: a store keyed by name, filled by a list and kept by a watch, and a  *)
(* queue of notifications that the handler goroutine takes one at a time.  *)
(* The store is updated before the handler hears of it.  A watch that      *)
(* breaks is replaced by a new list, which shows what is there now and not *)
(* what happened: an object deleted and created again under its name is an *)
(* update of the old one.                                                  *)
(***************************************************************************)
EXTENDS Integers, Sequences, SequencesExt

CONSTANTS Names,     \* names of objects in the namespace
          MaxQueue   \* bound: notifications in flight

VARIABLES live,      \* the API server: name -> object, or NoObject
          store,     \* the informer's store
          watching,  \* a watch is open
          queue      \* notifications the handler has yet to take

NoObject == [uid |-> 0]
informer == <<live, store, watching, queue>>

Has(objects, n) == objects[n] # NoObject

Note(op, obj) == [op |-> op, obj |-> obj]

\* What a store that held `before` tells its handler of an object now `after`.
Change(before, after) ==
  IF before = after THEN <<>>
  ELSE IF after = NoObject THEN <<Note("delete", before)>>
  ELSE <<Note(IF before = NoObject THEN "add" ELSE "update", after)>>

\* The object of a name changes at the API server; an open watch carries it.
Set(n, obj) ==
  /\ Len(queue) < MaxQueue
  /\ live' = [live EXCEPT ![n] = obj]
  /\ store' = IF watching THEN [store EXCEPT ![n] = obj] ELSE store
  /\ queue' = IF watching THEN queue \o Change(store[n], obj) ELSE queue
  /\ UNCHANGED watching

BreakWatch == watching /\ watching' = FALSE /\ UNCHANGED <<live, store, queue>>

\* The list that replaces a broken watch.
Relist ==
  /\ ~watching
  /\ watching' = TRUE /\ store' = live
  /\ queue' = queue \o FlattenSeq([i \in 1 .. Len(SetToSeq(Names)) |->
                         LET n == SetToSeq(Names)[i] IN Change(store[n], live[n])])
  /\ UNCHANGED live

\* Names whose object a relist shows as an update of another one.
Replaced == {n \in Names : Has(store, n) /\ Has(live, n) /\ store[n].uid # live[n].uid}
=============================================================================
