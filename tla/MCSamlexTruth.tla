---------------------------- MODULE MCSamlexTruth ----------------------------
(***************************************************************************)
(* SamlexTruth in the situations of MCSamlexService.                       *)
(***************************************************************************)
EXTENDS MCSamlexService, SamlexTruth
=============================================================================
