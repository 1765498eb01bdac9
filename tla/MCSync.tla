------------------------------- MODULE MCSync -------------------------------
(* Instances of Sync for TLC. *)
EXTENDS Sync, TLC

CONSTANTS s1, s2, s3

SessionSymmetry == Permutations(Sessions)

=============================================================================
