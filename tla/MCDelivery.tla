----------------------------- MODULE MCDelivery -----------------------------
(* The delivery path on a small instance. *)
EXTENDS Delivery, TLC

\* Inodes are interchangeable: nothing orders them.
InodeSymmetry == Permutations(Inodes)
=============================================================================
