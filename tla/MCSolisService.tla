--------------------------- MODULE MCSolisService ---------------------------
(***************************************************************************)
(* Small instances of SolisService for TLC: an inverter of 800 W, one or   *)
(* two phases, small failure counts.                                       *)
(***************************************************************************)
EXTENDS SolisService

CONSTANTS L1, L2   \* the phases, model values

OnePhase == {L1}
TwoPhases == {L1, L2}

\* The percents of 800 W for which Python's float(800 * (p / 100)) is not p * 8.
InexactPctOf800 == {7, 14, 28, 29, 55, 56, 57, 58}

\* What the inverter answers for its status: one it maps by itself, and one
\* of the faults.
SomeStatusRegs == {0, 9}
Generating == {3}

\* The limits of register 3049: 100 %, and one between two percents (55.5 %,
\* which is rounded to 56).
FullLimit == {10000}
BetweenPercents == {5550}
NoPanel == {}

\* What clients ask for: nothing; whole percents (400 and 800 W); 405 W, which
\* is on no percent and nearer to the next one, and less than nothing; 456 W, a
\* whole percent the product misses.
NoRequest == {}
WholePercents == {400000, 800000}
NoPercent == {405000, -8000}
MissedPercent == {456000}
=============================================================================
