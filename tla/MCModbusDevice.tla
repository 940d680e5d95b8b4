--------------------------- MODULE MCModbusDevice ---------------------------
(***************************************************************************)
(* ModbusDevice with registers of two bits, at most four of them in a      *)
(* block, stores of each class, and simulators of four configurations.     *)
(***************************************************************************)
EXTENDS ModbusDevice

SmallAddresses == {0, 1, 3}
SmallCounts == {1, 2, 4}

\* The numbers of values at the limits of the requests.
ReadLimits == {0, 125, 126, 2000, 2001}
WriteLimits == {0, 121, 122, 123, 124, 1968, 1969}
SmallVectors == {<<1>>, <<0, 1>>}
LimitVectors == {[k \in 1 .. n |-> 0] : n \in WriteLimits}
SmallMasks == {0, 1}
SmallRecords == {<<>>, <<0>>, <<2, 1>>}

\* In place of the float that is one more.
SmallPlusOne(high, low) == <<(high + 1) % (WordMax + 1), low>>

Memory(first, last, gap) ==
  [t \in {"c", "d", "h", "i"} |->
     [a \in (first .. last) \ (IF t \in {"c", "h"} THEN gap ELSE {}) |->
        IF t \in {"d", "i"} THEN 1 ELSE 0]]

Entry(type, first, last, action) ==
  [type |-> type, first |-> first, last |-> last, value |-> 0, action |-> action]

\* A writable cell, a string of two, a cell that counts and one that resets.
LooseLayout ==
  [co |-> 6, di |-> 0, ir |-> 0, hr |-> 6, shared |-> TRUE, strict |-> FALSE, invalid |-> {0},
   types |-> <<Entry("bits", 4, 4, "increment"), Entry("uint16", 1, 1, "none"),
               Entry("uint16", 5, 5, "reset"), Entry("string", 2, 3, "none")>>,
   write |-> {1}, repeat |-> None]

\* A 32-bit value that counts, and a copy of it, before a string; tables that
\* follow one another.
StrictLayout ==
  [co |-> 1, di |-> 0, ir |-> 0, hr |-> 6, shared |-> FALSE, strict |-> TRUE, invalid |-> {},
   types |-> <<Entry("uint16", 6, 6, "none"), Entry("uint32", 0, 1, "increment"),
               Entry("string", 4, 5, "none")>>,
   write |-> {0, 1}, repeat |-> [first |-> 0, last |-> 1, to |-> [first |-> 2, last |-> 3]]]

\* A 32-bit value of which only the first cell is listed as writable, and a float
\* that counts and may not be written.
HalfLayout ==
  [co |-> 7, di |-> 0, ir |-> 0, hr |-> 7, shared |-> TRUE, strict |-> TRUE, invalid |-> {},
   types |-> <<Entry("uint16", 3, 3, "none"), Entry("uint32", 1, 2, "none"),
               Entry("float32", 4, 5, "increment"), Entry("uint16", 6, 6, "none")>>,
   write |-> {1}, repeat |-> None]

\* The first word of a value that counts is copied over the second: the copy
\* carries into a cell that is of another value.
CutLayout ==
  [co |-> 4, di |-> 0, ir |-> 0, hr |-> 4, shared |-> TRUE, strict |-> TRUE, invalid |-> {},
   types |-> <<Entry("uint32", 1, 2, "increment"), Entry("uint16", 3, 3, "none")>>,
   write |-> {}, repeat |-> [first |-> 1, last |-> 1, to |-> [first |-> 2, last |-> 2]]]

\* Refused: two sections take one cell.
BadLayout == [LooseLayout EXCEPT !.types = @ \o <<Entry("float32", 5, 5, "none")>>]

SmallStores ==
  {[kind |-> "sequential", zero |-> FALSE, mem |-> Memory(1, 2, {})],
   [kind |-> "sparse", zero |-> TRUE, mem |-> Memory(0, 3, {2})],
   [kind |-> "remote", far |-> "up", mem |-> Memory(0, 1, {})]}
    \cup ({Simulator(layout) : layout \in {LooseLayout, StrictLayout, HalfLayout, CutLayout, BadLayout}} \ {None})

\* The program logs and counts beside one class of store: the control block has
\* nothing to do with them.
BusyKinds == {"sequential"}

\* Objects of no, of one and of two values, the longest that fit an answer: two
\* of them make an id of the slave that is just not too long to be sent, or is.
SmallIdentities ==
  [{0, 1, 3, 128} -> {<<>>, <<9>>, <<100, 120>>, <<244>>}]
=============================================================================
