------------------------------- MODULE Tables -------------------------------
(* A table is a function on names, written as a record; a large one is put *)
(* together from parts.                                                    *)

(* The rows of all tables, which have none in common.                      *)
Joined(tables) ==
  [x \in UNION {DOMAIN t : t \in tables} |-> (CHOOSE t \in tables : x \in DOMAIN t)[x]]

(* What f says of a name, and for the others what g says.                  *)
f ++ g ==
  [x \in DOMAIN f \cup DOMAIN g |-> IF x \in DOMAIN f THEN f[x] ELSE g[x]]
=============================================================================
