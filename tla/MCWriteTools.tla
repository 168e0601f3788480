---------------------------- MODULE MCWriteTools ----------------------------
(* Instances of WriteTools: what a caller may write into the arguments. *)
EXTENDS WriteTools

MCModes == {"create", "replace", "update"}
MCKeys == {"own", "malformed"}
MCInline == {"authentication"}
MCSaved == {"authentication", "connection_id"}
=============================================================================
