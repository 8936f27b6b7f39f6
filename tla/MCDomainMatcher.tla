-------------------------- MODULE MCDomainMatcher --------------------------
(* Two labels, one of them also written in upper case.                     *)
EXTENDS DomainMatcher

MCLower == [l \in {"a", "A", "b"} |-> IF l = "A" THEN "a" ELSE l]

============================================================================
