---------------------------- MODULE MCModbusTcp ----------------------------
(***************************************************************************)
(* ModbusTcp with two connections, two slaves, and two requests; unit 3    *)
(* has no slave.  Ids start anew after two.  Bytes out of step may be read *)
(* as a request with the id of the second, or as one without a header.     *)
(***************************************************************************)
EXTENDS ModbusTcp

TwoConns == 1 .. 2
TwoSlaves == <<1, 2>>
TwoMisreads == <<[tid |-> 2, unit |-> 1, kind |-> "ok"], Unframed>>

Ask1 == [unit |-> 1, kind |-> "ok"]
Mute == [unit |-> 3, kind |-> "mute"]
Unsendable == [unit |-> 1, kind |-> "unsendable"]
Fails == [unit |-> 0, kind |-> "fails"]

Scenario(mode, ignore, tid, asks) == [mode |-> mode, ignore |-> ignore, tid |-> tid, asks |-> asks]
SomeScenarios ==
  {Scenario("single", FALSE, 2, <<Ask1, Ask1>>),
   Scenario("single", FALSE, 1, <<Mute, Fails>>),
   Scenario("many", FALSE, 0, <<Unsendable, Mute>>),
   Scenario("broadcast", FALSE, 0, <<Fails, Mute>>),
   Scenario("broadcast", TRUE, 0, <<Mute, Ask1>>)}
=============================================================================
