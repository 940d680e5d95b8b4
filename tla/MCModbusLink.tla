---------------------------- MODULE MCModbusLink ----------------------------
(***************************************************************************)
(* ModbusLink for TLC: the batches of a poll of a single-phase Solis, on a *)
(* serial line, and the same through a Modbus TCP gateway.                 *)
(***************************************************************************)
EXTENDS ModbusLink

SolisLengths == <<4, 1, 4, 1, 1>>
Both == {"rtu", "tcp"}
=============================================================================
