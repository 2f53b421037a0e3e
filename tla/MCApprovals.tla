---------------------------- MODULE MCApprovals ----------------------------
(* Instances of Approvals for model checking.                              *)
EXTENDS Approvals, TLC

Symmetry == Permutations(Requests) \cup Permutations(Answers)
=============================================================================
