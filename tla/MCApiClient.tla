---------------------------- MODULE MCApiClient ----------------------------
(* Two calls, which may share a key. *)
EXTENDS ApiClient

CONSTANTS c1, c2, k1

MCCalls == {c1, c2}
MCKeys == {k1}
=============================================================================
