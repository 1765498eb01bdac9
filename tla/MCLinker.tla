------------------------------ MODULE MCLinker ------------------------------
(* Instances of Linker for TLC. *)
EXTENDS Linker, TLC

CONSTANTS m1, m2, m3, c1, h1, h2, s1, s2, s3, p1, p2

\* Two messages of one conversation, from two senders to each other.
MCBatches == {<< m1 >>, << m2 >>, << m1, m2 >>, << m3 >>}
MCConversation == [m \in Messages |-> IF m = m3 THEN NoConversation ELSE c1]
MCSender == [m \in Messages |-> h1]
MCRecipients == [m \in Messages |-> IF m = m1 THEN {h2} ELSE {}]
MCMappings == {{h1}, {h2}}

Symmetry == Permutations(Sessions) \union Permutations(Persons)

=============================================================================
