---------------------------- MODULE MCSessions -----------------------------
(* Instances of Sessions for TLC. *)
EXTENDS Sessions, TLC

CONSTANTS m1, m2, t1, s1, s2, s3

MCSentAt == [m \in Messages |-> 0]

MCResolveDeadline(phrase, anchor) ==
    CASE phrase = "today" -> anchor
      [] phrase = "tomorrow" -> anchor + 1
      [] OTHER -> NoDeadline

SessionSymmetry == Permutations(Sessions)

=============================================================================
