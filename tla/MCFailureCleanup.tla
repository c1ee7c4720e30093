-------------------------- MODULE MCFailureCleanup --------------------------
(***************************************************************************)
(* Small instances of FailureCleanup.  Clients and senders are symmetric:  *)
(* nothing in the module orders them.                                      *)
(***************************************************************************)
EXTENDS FailureCleanup, TLC

Symmetry == Permutations(Clients) \cup Permutations(Senders)
=============================================================================
