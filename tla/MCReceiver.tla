---------------------------- MODULE MCReceiver ----------------------------
(***************************************************************************)
(* Small instances of Receiver.  The owners are symmetric: nothing in the  *)
(* module orders them.                                                     *)
(***************************************************************************)
EXTENDS Receiver, TLC

Symmetry == Permutations(Owners)
=============================================================================
