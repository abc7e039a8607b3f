--------------------------- MODULE MCGateFirmware ---------------------------
(***************************************************************************)
(* GateFirmware with two gates that take three ticks to travel, the third  *)
(* of which overshoots (Full = 5, Step = 2), and queries for all gates and *)
(* for one known and one unknown id.                                       *)
(***************************************************************************)
EXTENDS GateFirmware

MCQueries == {{0, 1}, {1, 7}}
=============================================================================
