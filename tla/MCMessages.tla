----------------------------- MODULE MCMessages -----------------------------
(* Two friends, of whom one sends two messages: two lists of one friend can differ, *)
(* and what was fetched for this friend can be in the way of the other.             *)
EXTENDS Messages

CONSTANTS f1, f2

McMaxMessages == [f \in Friends |-> IF f = f1 THEN 2 ELSE 0]
=============================================================================
