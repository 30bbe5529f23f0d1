--------------------------- MODULE MCLegacyService ---------------------------
(* Instances of LegacyService for TLC. *)
EXTENDS LegacyService, TLC
===============================================================================
