--------------------------- MODULE MCDeletionJournal ---------------------------
(* Instances of DeletionJournal for TLC: two segments and an artifact of one   *)
(* session, or a segment each of two sessions.                                 *)
EXTENDS DeletionJournal, TLC

CONSTANTS s1, s2, a1, x1, x2, b1, b2

OneSession == [o \in {s1, s2, a1} |-> x1]
TwoSessions == [o \in {s1, s2, a1} |-> IF o = s2 THEN x2 ELSE x1]
FromFirst == [a \in {a1} |-> {s1}]
FromBoth == [a \in {a1} |-> {s1, s2}]

Symmetry == Permutations({b1, b2})
=============================================================================
