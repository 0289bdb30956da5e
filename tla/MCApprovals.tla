---------------------------- MODULE MCApprovals -----------------------------
(***************************************************************************)
(* Instances of Approvals for TLC.  Threads are interchangeable; symmetry  *)
(* is used where no liveness is checked.                                   *)
(***************************************************************************)
EXTENDS Approvals, TLC

ThreadSymmetry == Permutations(Threads)
=============================================================================
