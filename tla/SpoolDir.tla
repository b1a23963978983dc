------------------------------ MODULE SpoolDir ------------------------------
(***************************************************************************)
(* The spool directory (internal/sink/spool.go), which is the agent's      *)
(* outbound queue: a file name is a payload's natural key, a rename        *)
(* publishes, an unlink acknowledges or evicts.                            *)
(*                                                                         *)
(* A payload's bytes are abstracted to a version, a number that grows with *)
(* every payload the agent encodes; it is also the file's modification     *)
(* time, since both grow together.  A file's identity is its inode, which  *)
(* is what os.SameFile compares; an inode is free again as soon as no name *)
(* links it, because the shipper closes a file before it posts its bytes.  *)
(***************************************************************************)
EXTENDS Naturals, FiniteSets

CONSTANTS Keys,     \* natural keys: the plain file names
          Inodes,   \* the file identities of the volume
          NoInode,  \* the identity of no file
          MaxVer    \* bound: how many payloads are ever encoded

ASSUME DirAssumption == /\ NoInode \notin Inodes
                        /\ MaxVer \in Nat

VARIABLES files,  \* key -> the published file under that name
          tmp,    \* key -> the file under name.tmp
          clock,  \* the version of the newest payload encoded
          fate    \* ghost: key -> what became of its newest payload

dirVars == <<files, tmp, clock, fate>>

\* A payload is "spooled" until the shipper sees a 2xx for it or a sweep that
\* listed it removes it; "exposed" is defined by module Delivery.
Fates == {"none", "spooled", "accepted", "evicted", "exposed"}

Versions == 0 .. MaxVer
File == [ver : Versions, ino : Inodes \cup {NoInode}]
Absent == [ver |-> 0, ino |-> NoInode]

Present(k) == files[k].ver # 0
HasTemp(k) == tmp[k].ver # 0

\* os.SameFile: the same inode, whatever the bytes are.
SameFile(f, g) == f.ino = g.ino

\* The inodes a newly created file may be given.
FreeInodes == {i \in Inodes : \A k \in Keys : files[k].ino # i /\ tmp[k].ino # i}

DirTypeOK == /\ files \in [Keys -> File]
             /\ tmp \in [Keys -> File]
             /\ clock \in Versions
             /\ fate \in [Keys -> Fates]

DirInit == /\ files = [k \in Keys |-> Absent]
           /\ tmp = [k \in Keys |-> Absent]
           /\ clock = 0
           /\ fate = [k \in Keys |-> "none"]

Unlink(k) == files' = [files EXCEPT ![k] = Absent]

\* The payload with version v is accounted for: if it is the one that holds the
\* name, and its fate is still open, its fate is f.
Settle(k, v, f) ==
  fate' = IF fate[k] = "spooled" /\ files[k].ver = v
            THEN [fate EXCEPT ![k] = f] ELSE fate
=============================================================================
