--------------------------- MODULE MCInvalidation ---------------------------
(* Ids that begin with each other: projects 39 and 392, versions 9, 94, 48. *)
EXTENDS Invalidation

MCProjectIds == {<<3, 9>>, <<3, 9, 2>>}
MCVersionIds == {<<9>>, <<9, 4>>, <<4, 8>>}
=============================================================================
