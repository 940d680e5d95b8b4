----------------------------- MODULE Datastore -----------------------------
(***************************************************************************)
(* The data a pymodbus server answers from, behind the three calls that    *)
(* every request makes: validate, getValues and setValues.  A store is a   *)
(* record; its kind says which class of pymodbus/datastore it is:          *)
(*                                                                         *)
(*   "sequential", "sparse"   ModbusSlaveContext with blocks of that class:*)
(*        mem[table][address], zero: no offset between request and block   *)
(*   "remote"                 RemoteSlaveContext, a gateway:               *)
(*        mem is the far device's memory, far: "up" if it answers, or      *)
(*        "silent", or "gone" if the client cannot connect to it           *)
(*   "simulator"              ModbusSimulatorContext: cells with a type,   *)
(*        an access right, a value and an action; offset[fc]; strict is    *)
(*        the option "type exception"                                      *)
(*                                                                         *)
(* A call comes to a code: 0 if it went well, the exception code that the  *)
(* server answers otherwise, Hangs if it never returns.                    *)
(***************************************************************************)
EXTENDS ControlBlock

CONSTANTS
  WordBits,         \* WORD_SIZE, the bits of a register (16 in the code)
  PlusOne(_, _)     \* the two words of a float, made of those of the float before

ASSUME WidthAssumption == WordBits \in Nat \ {0}
ASSUME FloatAssumption == \A high, low \in 0 .. WordMax : PlusOne(high, low) \in Nat \X Nat

Hangs == -2

\* IModbusSlaveContext.decode(): the table of a function code.
TableOf(fc) == IF fc = 2 THEN "d" ELSE IF fc = 4 THEN "i"
               ELSE IF fc \in {1, 5, 15} THEN "c" ELSE "h"

BitFunctions == {1, 2, 5, 15}
WriteFunctions == {5, 6, 15, 16, 22, 23}

Result(code, vals, store) == [code |-> code, vals |-> vals, store |-> store]

-----------------------------------------------------------------------------
(* store.py and context.py                                                 *)

\* A slave context has four tables; the values of a sequential block are a list,
\* those of a sparse one a dictionary.
IsBlock(kind, block) ==
  /\ DOMAIN block \subseteq Nat
  /\ kind = "sequential" => \E first, last \in DOMAIN block : DOMAIN block = first .. last
IsContext(store) ==
  /\ {"zero", "mem"} \subseteq DOMAIN store /\ DOMAIN store.mem = {"c", "d", "h", "i"}
  /\ \A table \in DOMAIN store.mem : IsBlock(store.kind, store.mem[table])

\* Without zero_mode the block's first address is the request's plus one.
BlockAddress(store, a) == IF store.zero THEN a ELSE a + 1

\* A sequential block has an end, a sparse one any gaps, and no empty requests.
SequentialHolds(block, a, n) ==
  Min(DOMAIN block) <= a /\ a + n <= Max(DOMAIN block) + 1
SparseHolds(block, a, n) == n > 0 /\ a .. a + n - 1 \subseteq DOMAIN block

BlockValidate(store, fc, a, n) ==
  LET block == store.mem[TableOf(fc)]
      first == BlockAddress(store, a)
  IN IF IF store.kind = "sequential" THEN SequentialHolds(block, first, n)
        ELSE SparseHolds(block, first, n)
       THEN 0 ELSE IllegalAddress

BlockGet(store, fc, a, n) ==
  Result(0, [k \in 1 .. n |-> store.mem[TableOf(fc)][BlockAddress(store, a) + k - 1]], store)

BlockSet(store, fc, a, vals) ==
  LET first == BlockAddress(store, a)
  IN Result(0, <<>>,
            [store EXCEPT !.mem[TableOf(fc)] =
               [k \in DOMAIN @ |-> IF k - first + 1 \in DOMAIN vals
                                     THEN vals[k - first + 1] ELSE @[k]]])

-----------------------------------------------------------------------------
(* remote.py                                                               *)

\* validate() is the call of the far device: a read for a function that reads,
\* and, as _write_fc holds 0x15 and 0x16 where 15 and 16 were meant, for those
\* that write several.  For a single write it sends the count, 1, as the value;
\* for 22 and 23 it has no call, a KeyError.  A client that cannot connect raises,
\* too; a lost answer is an error it returns.
RemoteValidate(store, fc, a, n) ==
  LET block == store.mem[TableOf(fc)]
      held == store.far = "up" /\ a .. a + n - 1 \subseteq DOMAIN block
  IN IF fc \in {22, 23} \/ store.far = "gone" THEN Result(SlaveFailure, <<>>, store)
     ELSE IF ~held THEN Result(IllegalAddress, <<>>, store)
     ELSE IF fc \in {5, 6} THEN Result(0, <<>>, [store EXCEPT !.mem[TableOf(fc)][a] = 1])
     ELSE Result(0, [k \in 1 .. n |-> block[a + k - 1]], store)

\* getValues() returns what validate() got, 0 for a single write; setValues()
\* does nothing.
RemoteGet(store, fc, a, n) ==
  IF fc \in {5, 6} THEN Result(0, <<0>>, store) ELSE RemoteValidate(store, fc, a, n)

-----------------------------------------------------------------------------
(* simulator.py                                                            *)

Size(store) == Cardinality(DOMAIN store.cells)

\* CellType, and a list of cells with an offset for every function code.
CellTypes == {"invalid", "bits", "uint16", "uint32", "float32", "string", "next"}
IsCell(cell) ==
  /\ cell = [type |-> cell.type, access |-> cell.access, value |-> cell.value,
              action |-> cell.action]
  /\ cell.type \in CellTypes
IsSimulator(store) ==
  /\ store = [kind |-> "simulator", strict |-> store.strict, cells |-> store.cells,
              offset |-> store.offset]
  /\ IsFiniteSet(DOMAIN store.cells) /\ DOMAIN store.cells = 0 .. Size(store) - 1
  /\ \A i \in DOMAIN store.cells : IsCell(store.cells[i])
  /\ \A fc \in 0 .. 24 : store.offset[fc] \in Nat

\* A cell is what Cell() makes it until a section of the configuration takes it.
NewCell == [type |-> "invalid", access |-> FALSE, value |-> 0, action |-> "none"]

\* handle_setup_section(): where the table of a function code begins, and how
\* many cells there are: the largest size, or one table after the other.
Offset(layout, fc) ==
  IF layout.shared \/ fc \notin {2, 3, 4, 6, 16, 22, 23} THEN 0
  ELSE IF fc = 2 THEN layout.co
  ELSE IF fc = 4 THEN layout.co + layout.di
  ELSE layout.co + layout.di + layout.ir
TotalSize(layout) ==
  IF layout.shared THEN Max({layout.co, layout.di, layout.hr, layout.ir})
  ELSE layout.co + layout.di + layout.ir + layout.hr

\* The cells that an entry of a type's section begins a value at, and all it
\* takes: the last of an odd number of 32-bit cells takes one more.
Wide(type) == type \in {"uint32", "float32"}
Heads(e) ==
  IF e.type = "string" THEN {e.first}
  ELSE {i \in e.first .. e.last : Wide(e.type) => (i - e.first) % 2 = 0}
Taken(e) == (e.first .. e.last) \cup (IF Wide(e.type) THEN {i + 1 : i \in Heads(e)} ELSE {})

\* handle_type_*(): only cells no other section has taken.  Values are small:
\* the first of two words is 0.
TypeFits(cells, e) == \A i \in Taken(e) : i \in DOMAIN cells /\ cells[i].type = "invalid"
WithType(cells, e) ==
  [i \in DOMAIN cells |->
     IF i \in Heads(e)
       THEN [cells[i] EXCEPT !.type = e.type, !.action = e.action,
                             !.value = IF Wide(e.type) THEN 0 ELSE e.value]
     ELSE IF i \in Taken(e) THEN [cells[i] EXCEPT !.type = "next", !.value = e.value]
     ELSE cells[i]]

\* handle_types(): one entry after the other, None once one does not fit.
WithTypes(cells, entries) ==
  LET After[k \in 0 .. Len(entries)] ==
        IF k = 0 THEN cells
        ELSE IF After[k - 1] = None \/ ~TypeFits(After[k - 1], entries[k]) THEN None
        ELSE WithType(After[k - 1], entries[k])
  IN After[Len(entries)]

\* handle_write_allowed(): only cells that a section has taken.
WithWrite(cells, write) ==
  IF \E i \in write : i \notin DOMAIN cells \/ cells[i].type = "invalid" THEN None
  ELSE [i \in DOMAIN cells |-> [cells[i] EXCEPT !.access = i \in write]]

\* handle_repeat(): cells first to last, over and over, from to.first to to.last;
\* each is copied as it is when its turn comes.
WithRepeat(cells, e) ==
  LET Copied[k \in 0 .. e.to.last - e.to.first + 1] ==
        IF k = 0 THEN cells
        ELSE [Copied[k - 1] EXCEPT
                ![e.to.first + k - 1] = Copied[k - 1][e.first + ((k - 1) % (e.last - e.first + 1))]]
  IN IF e.to.last \notin DOMAIN cells THEN None ELSE Copied[e.to.last - e.to.first + 1]

\* Setup.setup(): the simulator of a configuration, None if it is refused.  The
\* section of invalid cells comes first and changes nothing: they all still are.
Simulator(layout) ==
  LET new == [i \in 0 .. TotalSize(layout) - 1 |-> NewCell]
      typed == IF layout.invalid \subseteq DOMAIN new THEN WithTypes(new, layout.types) ELSE None
      written == IF typed = None THEN None ELSE WithWrite(typed, layout.write)
      cells == IF written = None \/ layout.repeat = None THEN written
               ELSE WithRepeat(written, layout.repeat)
  IN IF cells = None THEN None
     ELSE [kind |-> "simulator", strict |-> layout.strict, cells |-> cells,
           offset |-> [fc \in 0 .. 24 |-> Offset(layout, fc)]]

\* The cell of a request's address, and the cells it is checked on: for bits
\* counted from the first bit of a cell, wherever in the cell they begin.
CellOf(store, fc, a) ==
  store.offset[fc] + (IF fc \in BitFunctions THEN a \div WordBits ELSE a)
CellsOf(fc, n) == IF fc \in BitFunctions THEN (n + WordBits - 1) \div WordBits ELSE n

\* Mutant of CellAllows: the access right is not looked at.
AnyoneWrites(cell, fc) == cell.type # "invalid"

CellAllows(cell, fc) ==
  cell.type # "invalid" /\ (fc \in WriteFunctions => cell.access)

\* Mutant of PairFits: the last cell may be the first half of a value.
HalfFits(i, end) == i < end

\* Both words of a 32-bit value are asked for.
PairFits(i, end) == i + 1 < end

\* loop_validate(): from cell to cell, two at once for a 32-bit value, a string
\* with all its cells.  A cell past the last one is an IndexError; the loop over
\* the cells of a string does not stop at one that is not of the string.
LoopValidate(store, fc, first, end) ==
  LET After[i \in Nat] ==
        IF i >= end THEN 0
        ELSE IF i >= Size(store) THEN SlaveFailure
        ELSE LET cell == store.cells[i]
             IN IF ~CellAllows(cell, fc) THEN IllegalAddress
                ELSE IF ~store.strict THEN After[i + 1]
                ELSE IF cell.type = "next" THEN IllegalAddress
                ELSE IF cell.type \in {"bits", "uint16"} THEN After[i + 1]
                ELSE IF Wide(cell.type)
                  THEN IF PairFits(i, end) THEN After[i + 2] ELSE IllegalAddress
                ELSE LET rest == {j \in i + 1 .. end - 1 :
                                    j >= Size(store) \/ store.cells[j].type # "next"}
                     IN IF rest = {} THEN 0
                        ELSE IF Min(rest) >= Size(store) THEN SlaveFailure ELSE Hangs
  IN After[first]

\* Mutant of SimulatorValidate: one cell too many is checked.
ValidatesNext(store, fc, a, n) ==
  LET first == CellOf(store, fc, a)
  IN IF first <= 0 \/ first > Size(store) THEN IllegalAddress
     ELSE LoopValidate(store, fc, first, first + CellsOf(fc, n) + 1)

SimulatorValidate(store, fc, a, n) ==
  LET first == CellOf(store, fc, a)
  IN IF first <= 0 \/ first > Size(store) THEN IllegalAddress
     ELSE LoopValidate(store, fc, first, first + CellsOf(fc, n))

\* A cell's action runs when it is read.  Increment looks at the cell after it,
\* whatever the type, and carries into the first of two words, or makes both of
\* the next float; a single word goes on past what it can hold.  Reset is an
\* exception.
Carries(cells, i) == IF cells[i + 1].value = WordMax THEN 1 ELSE 0
Acts(cells, i) ==
  IF cells[i].action # "increment" THEN cells
  ELSE IF cells[i].type \in {"bits", "uint16"} THEN [cells EXCEPT ![i].value = @ + 1]
  ELSE IF cells[i].type = "uint32"
    THEN [cells EXCEPT ![i].value = @ + Carries(cells, i),
                       ![i + 1].value = (@ + 1) % (WordMax + 1)]
  ELSE IF cells[i].type = "float32"
    THEN LET words == PlusOne(cells[i].value, cells[i + 1].value)
         IN [cells EXCEPT ![i].value = words[1], ![i + 1].value = words[2]]
  ELSE cells
Fails(cells, i) ==
  \/ cells[i].action = "reset"
  \/ cells[i].action = "increment"
       /\ \/ i + 1 \notin DOMAIN cells
          \/ Wide(cells[i].type) /\ (cells[i].value > WordMax \/ cells[i + 1].value > WordMax)
          \/ cells[i].type = "uint32" /\ cells[i].value + Carries(cells, i) > WordMax

\* The cells read, up to the first one that raises an exception.
ReadCells(store, first, count) ==
  LET Read[k \in 0 .. count] ==
        IF k = 0 THEN [cells |-> store.cells, code |-> 0]
        ELSE LET before == Read[k - 1]
                 i == first + k - 1
             IN IF before.code # 0 THEN before
                ELSE IF i >= Size(store) THEN [before EXCEPT !.code = SlaveFailure]
                ELSE IF Fails(before.cells, i) THEN [before EXCEPT !.code = SlaveFailure]
                ELSE [before EXCEPT !.cells = Acts(before.cells, i)]
  IN Read[count]

Bit(word, k) == (word \div 2^k) % 2

SimulatorGet(store, fc, a, n) ==
  LET bits == fc \in BitFunctions
      first == CellOf(store, fc, a)
      read == ReadCells(store, first, IF bits THEN (n + (a % WordBits) + WordBits - 1) \div WordBits
                                      ELSE n)
      Value(k) == IF bits
                    THEN Bit(read.cells[first + ((a % WordBits) + k) \div WordBits].value,
                             (a + k) % WordBits)
                    ELSE read.cells[first + k].value
  IN Result(read.code, IF read.code = 0 THEN [k \in 1 .. n |-> Value(k - 1)] ELSE <<>>,
            [store EXCEPT !.cells = read.cells])

\* A word after some of its bits are written: bit b is the value at + b, if there is
\* one.  What is over of a cell that has counted past a word stays.
WithBits(old, vals, at) ==
  2^WordBits * (old \div 2^WordBits)
    + MapThenSumSet(LAMBDA b : 2^b * (IF at + b \in DOMAIN vals THEN vals[at + b] ELSE Bit(old, b)),
                    0 .. WordBits - 1)

\* Words are written from the first cell on, bits from the first bit on into as
\* many cells as they reach; those before an IndexError stay written.
SimulatorSet(store, fc, a, vals) ==
  LET first == CellOf(store, fc, a)
      bits == fc \in BitFunctions
      last == first + (IF bits THEN ((a % WordBits) + Len(vals) - 1) \div WordBits
                       ELSE Len(vals) - 1)
      Word(i, old) ==
        IF i \notin first .. last THEN old
        ELSE IF bits THEN WithBits(old, vals, (i - first) * WordBits - (a % WordBits) + 1)
        ELSE vals[i - first + 1]
  IN Result(IF last >= Size(store) THEN SlaveFailure ELSE 0, <<>>,
            [store EXCEPT !.cells = [i \in DOMAIN store.cells |->
               [store.cells[i] EXCEPT !.value = Word(i, store.cells[i].value)]]])

-----------------------------------------------------------------------------
\* What the constructors make.
IsStore(store) ==
  /\ "kind" \in DOMAIN store
  /\ store.kind \in {"sequential", "sparse"} => IsContext(store)
  /\ store.kind = "simulator" => IsSimulator(store)

\* The context's calls, by its class.
Validate(store, fc, a, n) ==
  IF store.kind = "remote" THEN RemoteValidate(store, fc, a, n)
  ELSE Result(IF store.kind = "simulator" THEN SimulatorValidate(store, fc, a, n)
              ELSE BlockValidate(store, fc, a, n), <<>>, store)

GetValues(store, fc, a, n) ==
  IF store.kind = "remote" THEN RemoteGet(store, fc, a, n)
  ELSE IF store.kind = "simulator" THEN SimulatorGet(store, fc, a, n)
  ELSE BlockGet(store, fc, a, n)

SetValues(store, fc, a, vals) ==
  IF store.kind = "remote" THEN Result(0, <<>>, store)
  ELSE IF store.kind = "simulator" THEN SimulatorSet(store, fc, a, vals)
  ELSE BlockSet(store, fc, a, vals)
=============================================================================
