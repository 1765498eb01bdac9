----------------------------- MODULE MCAccounts -----------------------------
(* Instances of Accounts for TLC. *)
EXTENDS Accounts, TLC

CONSTANTS u1, e1, e2, e3, s1, s2

MCEmailOf == [u \in Old |-> e1]

SessionSymmetry == Permutations(Sessions)

=============================================================================
