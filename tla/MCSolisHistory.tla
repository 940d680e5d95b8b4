--------------------------- MODULE MCSolisHistory ---------------------------
(***************************************************************************)
(* SolisHistory with the values of MCSolisService.                         *)
(***************************************************************************)
EXTENDS MCSolisService, SolisHistory
=============================================================================
