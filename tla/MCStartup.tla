----------------------------- MODULE MCStartup -----------------------------
(***************************************************************************)
(* Startup in every installation: each type (one of them unknown), port,   *)
(* register map and device.                                                *)
(***************************************************************************)
EXTENDS Startup

EveryType == Name \cup {"", "Fronius"}
EveryPort == {"tty", "null", "url", "shorthand", "other"}
EveryMap == {"missing", "unusable", "usable"}
EveryDevice == {"none", "Solis", "Samlex"}
Watts == {0, 400, 800}
=============================================================================
