---------------------------- MODULE MCDmaEngine ----------------------------
(* Model values for DmaEngine: the users are interchangeable.               *)
EXTENDS DmaEngine, TLC

UserSymmetry == Permutations(ShUsers) \union Permutations(ExUsers)
=============================================================================
