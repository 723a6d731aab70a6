--------------------------- MODULE MCSchemaUpgrade ---------------------------
(***************************************************************************)
(* Instance of SchemaUpgrade for TLC: a few steps and versions, a problem  *)
(* a step can fix and one it can only report, three boots (one that        *)
(* crashes or fails, one that repairs, one that is gated) and one import.  *)
(***************************************************************************)
EXTENDS SchemaUpgrade
=============================================================================
