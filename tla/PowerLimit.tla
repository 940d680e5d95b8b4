----------------------------- MODULE PowerLimit -----------------------------
(***************************************************************************)
(* The arithmetic of the active power limit of a Solis inverter, from      *)
(* solis.py.  The inverter keeps its limit as hundredths of a percent of   *)
(* its rated power (read in register 3049, written through 3051); the      *)
(* driver and the D-Bus path /Ac/PowerLimit speak watts.                   *)
(*                                                                         *)
(* Watts are integers here, in steps of one milliwatt.  The program        *)
(* computes them in binary floating point: for some percents p the product *)
(* float(max * (p / 100)) misses the exact number of watts (456 W is 57 %  *)
(* of 800 W, but the program computes 455.99999999999994).  InexactPct is  *)
(* the set of those percents; their image is moved by one step, which is   *)
(* all that the comparison `active != desired' can see.                    *)
(***************************************************************************)
EXTENDS Integers

CONSTANTS
  MaxAcPower,   \* INVERTER_MAX_AC_POWER, in watts
  InexactPct    \* percents whose watts the float product misses

\* utils.py refuses a configuration with MAX_AC_POWER <= 0.
ASSUME MaxAcPowerAssumption == MaxAcPower \in Nat \ {0}
ASSUME InexactPctAssumption == InexactPct \subseteq 1 .. 99

\* Python's round(): to the nearest integer, ties to the even one.
RoundHalfEven(n, d) ==
  LET q == n \div d
      r == n % d
  IN IF 2 * r < d \/ (2 * r = d /\ q % 2 = 0) THEN q ELSE q + 1

\* One percent of the rated power, in milliwatts.
PctStep == 10 * MaxAcPower

\* What register 3049 holds: hundredths of a percent.
LimitRegister == 0 .. 10000

\* float(self.max_ac_power * (int(pct) / 100))
WattsOf(pct) == PctStep * pct - (IF pct \in InexactPct THEN 1 ELSE 0)

\* round(regs[0] * 0.01, 0): the percent read back from register 3049.
PctOfRegister(reg) == RoundHalfEven(reg, 100)

\* Mutant of PctOfWatts: int() for round().
PctTruncated(watts) ==
  LET pct == watts \div PctStep
  IN IF pct < 0 THEN 0 ELSE IF pct > 100 THEN 100 ELSE pct

\* max(0, min(100, round(watts / (self.max_ac_power / 100))))
PctOfWatts(watts) ==
  LET pct == RoundHalfEven(watts, PctStep)
  IN IF pct < 0 THEN 0 ELSE IF pct > 100 THEN 100 ELSE pct

\* The value apply_power_limit() writes to register 3051.
RegisterOfWatts(watts) == PctOfWatts(watts) * 100

-----------------------------------------------------------------------------
Distance(a, b) == IF a < b THEN b - a ELSE a - b

\* No other percent is nearer to the watts.
IsNearest(pct, watts) ==
  \A other \in 0 .. 100 :
    Distance(pct * PctStep, watts) <= Distance(other * PctStep, watts)
=============================================================================
